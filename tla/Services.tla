------------------------------ MODULE Services ------------------------------
(***************************************************************************)
(* Ten systems that share nothing, composed: a behaviour picks one and lets *)
(* it run while the others rest.  The parameters of each system stand under *)
(* its name; MCServices gives them values, ServicesProofs proves about them *)
(* what holds for all.                                                      *)
(***************************************************************************)
EXTENDS Naturals, Sequences, FiniteSets

CONSTANTS
    None, Nobody,
    \* SignIns
    Requesters, MaxHeld, MaxRetries, Settings, Lifetimes,
    \* Startup
    Procs, Images, Oldest, SiemWebhook, EnvAdmin, MaxCrashes,
    MaxDeploys, MaxDestinationEdits,
    \* Lane
    Interactive, Background, Direct, WireSlots,
    \* Submissions
    Clerks, MaxCases, MaxKeys, MaxClicks, MaxCaseFaults,
    \* Intelligence
    Processes, MaxSecrets, MaxPresses, MaxAccessFaults, MaxAccessDays,
    \* Summaries
    Identities, Versions, Assessments, Scalars, Fields, Values, Definitions,
    Labels, NoFacts, Devices, Readings, HeldFacts, Malformed, Summarizers,
    Collectors, MayStall, MaxEvents, MaxTime, MaxEdits, MaxConfigs, Ttl,
    Lease, CallTime, Backoff, MaxAttempts, MaxPending,
    \* Membership
    Facts, Criteria, MaxMoments,
    \* Closing
    Runs, Sweeps, Builds, MaxDay, MaxMoves,
    \* Exchange
    Tries, MaxDays, MaxSends, MaxChanges, MaxFaults,
    \* Sessions: who is at home only, and who may also be a guest elsewhere
    Main, Roles, Admin, Life, BreakGlass, Enrolled,
    Homebodies, Requests, MaxHomeCreds, MaxAccountChanges,
    Travellers, Visits, Tenants, Minters, GuestRoles, MaxCreds, MaxTravelChanges

VARIABLES
    which, \* the system that runs
    saved, editing, held, current, s_job, tick,
    pc, image, schema, lock, tenants, accounts, token, siem, others,
    operator, crashes, deploys, b_edits,
    at, timer, busy, interactive_waiters, resting,
    cases, u_consent, u_job, svc, u_late, delayed, clicks, u_faults,
    credential, shown, until, error, last, fetched, i_row, i_job, live,
    issued, secrets, entitlement, lost, asked, twice, today, i_presses,
    i_faults,
    settings, flag, y_consent, y_edits, outbox, state, y_job, point, counted,
    briefed, batch, worker,
    now, jamf, group, device, sweep, g_row, read,
    day, run, alarms, fleet, counts, tape, moves,
    tier, identity, receipt, status, retry, attempted, x_job, earned,
    withdrawn, expired, x_late, owed, days, x_presses, changes, x_faults,
    roles, active, guests, factor, policy, r_changes, cred, r_issued, request, cut, overlapped

S == INSTANCE SignIns WITH
    Workers <- Requesters, job <- s_job
B == INSTANCE Startup WITH
    Min <- Oldest, Webhook <- SiemWebhook, MaxEdits <- MaxDestinationEdits,
    edits <- b_edits
L == INSTANCE Lane WITH
    Slots <- WireSlots
U == INSTANCE Submissions WITH
    MaxFaults <- MaxCaseFaults, consent <- u_consent, job <- u_job,
    late <- u_late, faults <- u_faults
I == INSTANCE Intelligence WITH
    Workers <- Processes, MaxFaults <- MaxAccessFaults,
    MaxDays <- MaxAccessDays, row <- i_row, job <- i_job,
    presses <- i_presses, faults <- i_faults
Y == INSTANCE Summaries WITH
    Workers <- Summarizers, NoState <- None, Held <- HeldFacts, consent <- y_consent,
    edits <- y_edits, job <- y_job
G == INSTANCE Membership WITH
    MaxTime <- MaxMoments, row <- g_row
N == INSTANCE Closing
X == INSTANCE Exchange WITH
    MaxPresses <- MaxSends, job <- x_job, late <- x_late,
    presses <- x_presses, faults <- x_faults
H == INSTANCE Sessions WITH
    Accounts <- Homebodies, Tenants <- {Main}, Minters <- {},
    GuestRoles <- {}, FirstAdmins <- Homebodies, MaxCreds <- MaxHomeCreds,
    MaxChanges <- MaxAccountChanges, changes <- r_changes,
    issued <- r_issued
F == INSTANCE Sessions WITH
    Accounts <- Travellers, FirstAdmins <- Travellers,
    Requests <- Visits, MaxChanges <- MaxTravelChanges,
    changes <- r_changes, issued <- r_issued

ASSUME ServicesAssumption ==
    /\ S!SignInsAssumption
    /\ B!StartupAssumption
    /\ L!LaneAssumption
    /\ U!SubmissionsAssumption
    /\ I!IntelligenceAssumption
    /\ Y!SummariesAssumption
    /\ G!MembershipAssumption
    /\ N!ClosingAssumption
    /\ X!ExchangeAssumption
    /\ H!SessionsAssumption
    /\ F!SessionsAssumption

sign_ins == <<saved, editing, held, current, s_job, tick>>
boot == <<
    pc, image, schema, lock, tenants, accounts, token, siem, others,
    operator, crashes, deploys, b_edits>>
lane == <<at, timer, busy, interactive_waiters, resting>>
submissions == <<
    cases, u_consent, u_job, svc, u_late, delayed, clicks, u_faults>>
intelligence == <<
    credential, shown, until, error, last, fetched, i_row, i_job, live,
    issued, secrets, entitlement, lost, asked, twice, today, i_presses,
    i_faults>>
summaries == <<
    settings, flag, y_consent, y_edits, outbox, state, y_job, point, counted,
    briefed, batch, worker>>
membership == <<now, jamf, group, device, sweep, g_row, read>>
closing == <<day, run, alarms, fleet, counts, tape, moves>>
exchange == <<
    tier, identity, receipt, status, retry, attempted, x_job, earned,
    withdrawn, expired, x_late, owed, days, x_presses, changes, x_faults>>
sessions == <<
    roles, active, guests, factor, policy, r_changes, cred, r_issued, request, cut, overlapped>>
vars == <<which, sign_ins, boot, lane, submissions, intelligence, summaries,
        membership, closing, exchange, sessions>>

\* One system starts anywhere it may start; the others rest in one state.
Init ==
    /\ which \in {"sign_ins", "boot", "lane", "submissions", "intelligence", "summaries",
                  "membership", "closing", "exchange", "sessions", "guests"}
    /\ S!Init
    /\ B!Init /\ (which # "boot" => image = CHOOSE i \in [Procs -> Images] : TRUE)
    /\ L!Init
    /\ U!Init
    /\ I!Init
    /\ Y!Init
    /\ G!Init /\ (which # "membership" =>
                      jamf.criteria = (CHOOSE c \in Criteria : TRUE) /\ jamf.fact = CHOOSE f \in Facts : TRUE)
    /\ N!Init /\ (which # "closing" => fleet = CHOOSE f \in N!Fleets : TRUE)
    /\ X!Init /\ (which # "exchange" => ~tier /\ ~attempted)
    /\ IF which = "guests" THEN F!Init ELSE H!Init

Next ==
    /\ which' = which
    /\ IF which = "sign_ins" THEN S!Next ELSE UNCHANGED sign_ins
    /\ IF which = "boot" THEN B!Next ELSE UNCHANGED boot
    /\ IF which = "lane" THEN L!Next ELSE UNCHANGED lane
    /\ IF which = "submissions" THEN U!Next ELSE UNCHANGED submissions
    /\ IF which = "intelligence" THEN I!Next ELSE UNCHANGED intelligence
    /\ IF which = "summaries" THEN Y!Next ELSE UNCHANGED summaries
    /\ IF which = "membership" THEN G!Next ELSE UNCHANGED membership
    /\ IF which = "closing" THEN N!Next ELSE UNCHANGED closing
    /\ IF which = "exchange" THEN X!Next ELSE UNCHANGED exchange
    /\ CASE which = "sessions" -> H!Next
         [] which = "guests" -> F!Next
         [] OTHER -> UNCHANGED sessions

Spec == Init /\ [][Next]_vars

-----------------------------------------------------------------------------
(* The properties, each stated beside the system it is about.               *)

\* One token request of a sign-in at a time, slots are lent whole, and a live token is lost
\* to nothing but its deadline and its own 401 (SignIns).
SignInsStand == []S!SignInsSound /\ S!LiveTokenIsKept

\* Migrations run in turn, a process starts on a schema it can read, and the setup page is
\* open only while nobody has an account (Startup).
StartupSound == B!StartupSound

\* The schema never goes back (Startup).
ForwardOnly == B!ForwardOnly

\* One call in the lane, and nobody asleep there without somebody to wake him (Lane).
LaneSound == L!LaneSound

\* No words of a withdrawn case leave, and what the service holds can be withdrawn (Submissions).
SubmissionsSound == U!SubmissionsSound

\* The credential in use is the one the service honours, and an end is told (Intelligence).
AccessSound == I!AccessSound

\* An observation counts once, under what its job says, and calls do not double (Summaries).
SummariesSound == Y!SummariesSound

\* A membership row whose definition moved says so (Membership).
CauseIsTold == G!CauseIsTold

\* A night on the tape adds up, and a standing failure pages once a day (Closing).
ClosingSound == N!ClosingSound

\* A receipt in use was not withdrawn by a late answer (Exchange).
ExchangeSound == X!ExchangeSound

\* Nothing that was ended is admitted again, a session's timer follows its use, and edits that
\* do not overlap leave an administrator (Sessions).
SessionsSound == IF which = "guests" THEN F!SessionsSound ELSE H!SessionsSound
=============================================================================
