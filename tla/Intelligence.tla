---------------------------- MODULE Intelligence ----------------------------
(***************************************************************************)
(* Paid intelligence of one tenant (core/intelligence.py, api/intelligence): *)
(* a one-time secret is exchanged for a credential, the credential is        *)
(* rotated, and with it the newest corpus is asked for once a day and on     *)
(* request.  The settings row is locked across every request, and what the   *)
(* service granted is committed before anything is downloaded.               *)
(*                                                                          *)
(* Workers are processes: within one, exchange_lock lets one operation run   *)
(* at a time.  The service is external.  It keeps one live credential for    *)
(* the tenant and issues the next, by number, against a secret or against    *)
(* the live one; it may have finished where its reply is lost.               *)
(***************************************************************************)
EXTENDS Naturals, FiniteSets

CONSTANTS
    Workers,
    MaxSecrets,    \* secrets support hands out
    MaxPresses,    \* buttons pressed
    MaxFaults,     \* replies lost, services out, imports failed, processes killed
    MaxDays,
    None

IntelligenceAssumption == {MaxSecrets, MaxPresses, MaxFaults, MaxDays} \subseteq Nat /\ None \notin Nat \cup Workers

VARIABLES
    credential,   \* intelligence_credential
    shown,        \* intelligence_status: state
    until,        \* updates_until is set
    error,        \* error is set
    last,         \* last_attempt_at: the day, or None
    fetched,      \* last_refresh_at: the credential it was fetched with
    row,          \* who holds the settings row for update
    job,
    live,         \* at the service: the credential it honours
    issued,       \* credentials issued so far
    secrets,      \* secrets not yet spent
    entitlement,  \* "paid", "expired" or "revoked"
    lost,         \* a grant was made whose reply never came
    asked,        \* credentials a refresh was asked with
    twice,        \* a day's scheduled refresh was made twice with one credential
    today, presses, faults

status == <<shown, until, error, last, fetched>>
service == <<live, issued, secrets, entitlement, lost>>
ghosts == <<asked, twice>>
bounds == <<today, presses, faults>>
vars == <<credential, status, row, job, service, ghosts, bounds>>

Idle == [at |-> "idle"]
Grants == {"activate", "rotate"}

TypeOK ==
    /\ credential \in 1 .. issued \cup {None} /\ live \in 1 .. issued \cup {None}
    /\ shown \in {"not_activated", "paid", "expired", "revoked", "credential_invalid", "disconnected"}
    /\ until \in BOOLEAN /\ error \in BOOLEAN /\ lost \in BOOLEAN /\ twice \in BOOLEAN
    /\ last \in 0 .. MaxDays \cup {None} /\ row \in Workers \cup {None}

Init ==
    /\ credential = None /\ shown = "not_activated" /\ until = FALSE /\ error = FALSE
    /\ last = None /\ fetched = None
    /\ row = None /\ job = [w \in Workers |-> Idle]
    /\ live = None /\ issued = 0 /\ secrets = MaxSecrets /\ entitlement = "paid"
    /\ lost = FALSE /\ asked = {} /\ twice = FALSE
    /\ today = 0 /\ presses = 0 /\ faults = 0

Goes(w, to) == job' = [job EXCEPT ![w] = to]
Fault == faults < MaxFaults /\ faults' = faults + 1 /\ UNCHANGED <<today, presses>>

-----------------------------------------------------------------------------
(* The buttons, the tick and the lock: locked_settings.                       *)

Press(w) ==
    /\ job[w] = Idle /\ presses < MaxPresses /\ presses' = presses + 1
    /\ \E op \in {"activate", "rotate", "refresh", "disconnect"} : Goes(w, [at |-> "lock", op |-> op])
    /\ UNCHANGED <<credential, status, row, service, ghosts, today, faults>>

\* sharing_exchange_tick: every five minutes, of which those matter that find something due.
Due == credential # None /\ last # today
Tick(w) ==
    /\ job[w] = Idle /\ Due
    /\ Goes(w, [at |-> "lock", op |-> "tick"])
    /\ UNCHANGED <<credential, status, row, service, ghosts, bounds>>

\* The day is looked up before the row is locked.
Refuses_Unlocked(op) == op # "activate" /\ credential = None

\* refresh(scheduled): with the row locked, the day's attempt may already be made.
Refuses(op) ==
    \/ op # "activate" /\ credential = None
    \/ op = "tick" /\ ~Due


locked_settings(w) ==
    /\ job[w].at = "lock" /\ row = None
    /\ IF job[w].op = "disconnect"
         THEN /\ credential' = None /\ shown' = "disconnected" /\ until' = FALSE /\ error' = FALSE
              /\ Goes(w, Idle) /\ UNCHANGED <<row, last, fetched>>
         ELSE /\ UNCHANGED <<credential, status>>
              /\ IF Refuses(job[w].op) THEN Goes(w, Idle) /\ UNCHANGED row
                 ELSE /\ Goes(w, [at |-> "request", op |-> job[w].op, key |-> credential])
                      /\ row' = w
    /\ UNCHANGED <<service, ghosts, bounds>>

-----------------------------------------------------------------------------
(* The service.                                                               *)

Grantable(w) ==
    IF job[w].op = "activate" THEN secrets > 0 ELSE job[w].key = live /\ entitlement = "paid"

\* A secret or the live credential is spent on the next one.
Issue(w) ==
    /\ issued' = issued + 1 /\ live' = issued + 1
    /\ secrets' = IF job[w].op = "activate" THEN secrets - 1 ELSE secrets
    /\ UNCHANGED entitlement

\* What it says to a refresh.
Says(key) == IF key # live THEN "credential_invalid" ELSE entitlement

-----------------------------------------------------------------------------
(* activate, rotate: request, refusal and what is recorded.                   *)

\* A grant is stored and its lock given back; an activation goes on to its refresh.
activate(w) ==
    /\ job[w].at = "request" /\ job[w].op \in Grants /\ Grantable(w)
    /\ Issue(w)
    /\ credential' = issued + 1 /\ shown' = "paid" /\ until' = TRUE /\ error' = FALSE /\ last' = None
    /\ row' = None
    /\ Goes(w, IF job[w].op = "activate" THEN [at |-> "lock", op |-> "refresh"] ELSE Idle)
    /\ UNCHANGED <<fetched, lost, ghosts, bounds>>


\* A refused grant, or no answer, is only an error: what is held stays in force.
refusal(w) ==
    /\ job[w].at = "request" /\ job[w].op \in Grants
    /\ error' = TRUE /\ row' = None /\ Goes(w, Idle)
    /\ \/ ~Grantable(w) /\ UNCHANGED <<service, bounds>>
       \/ Grantable(w) /\ Fault /\ UNCHANGED service
       \/ Grantable(w) /\ Fault /\ Issue(w) /\ lost' = TRUE
    /\ UNCHANGED <<credential, shown, until, last, fetched, ghosts>>

-----------------------------------------------------------------------------
(* refresh.                                                                   *)

Asked(w) ==
    /\ asked' = asked \cup {job[w].key}
    /\ twice' = (twice \/ (job[w].op = "tick" /\ last = today))

\* The answer is committed, and the row free, before the download starts.
Answered(w) ==
    /\ job[w].at = "request" /\ job[w].op \notin Grants
    /\ LET said == Says(job[w].key) IN
         /\ shown' = said
         /\ until' = IF said = "paid" THEN TRUE ELSE IF said = "revoked" THEN FALSE ELSE until
         /\ error' = (said # "paid")
         /\ Goes(w, IF said = "paid" THEN [at |-> "download", key |-> job[w].key] ELSE Idle)
    /\ last' = today /\ row' = None
    /\ Asked(w)
    /\ UNCHANGED <<credential, fetched, service, bounds>>

\* An outage is an error of its own, never an expiry.
Unavailable(w) ==
    /\ job[w].at = "request" /\ job[w].op \notin Grants /\ Fault
    /\ error' = TRUE /\ last' = today /\ row' = None /\ Goes(w, Idle)
    /\ Asked(w)
    /\ UNCHANGED <<credential, shown, until, fetched, service>>


\* load_epoch_if_new, record_acquisition, assess_and_select: all of them, or an error.
Download(w) ==
    /\ job[w].at = "download"
    /\ \/ Goes(w, [job[w] EXCEPT !.at = "done"]) /\ UNCHANGED bounds
       \/ Goes(w, [job[w] EXCEPT !.at = "failed"]) /\ Fault
    /\ UNCHANGED <<credential, status, row, service, ghosts>>

\* The row is locked again for what became of it.
Finish(w) ==
    /\ job[w].at \in {"done", "failed"} /\ row = None
    /\ error' = (job[w].at = "failed")
    /\ fetched' = IF job[w].at = "done" THEN job[w].key ELSE fetched
    /\ Goes(w, Idle)
    /\ UNCHANGED <<credential, shown, until, last, row, service, ghosts, bounds>>

refresh(w) == Answered(w) \/ Unavailable(w) \/ Download(w) \/ Finish(w)

-----------------------------------------------------------------------------
(* What happens around it.                                                    *)

\* A process is killed: what it had not committed is rolled back, and what the service
\* had granted it is lost.
Crash(w) ==
    /\ job[w] # Idle /\ Fault
    /\ Goes(w, Idle) /\ row' = IF row = w THEN None ELSE row
    /\ \/ UNCHANGED service
       \/ /\ job[w].at = "request" /\ job[w].op \in Grants /\ Grantable(w)
          /\ Issue(w) /\ lost' = TRUE
    /\ UNCHANGED <<credential, status, ghosts>>

Entitlement ==
    /\ entitlement' \in {"paid", "expired", "revoked"} \ {entitlement}
    /\ Fault
    /\ UNCHANGED <<credential, status, row, job, live, issued, secrets, lost, ghosts>>

NextDay ==
    /\ today < MaxDays /\ today' = today + 1
    /\ UNCHANGED <<credential, status, row, job, service, ghosts, presses, faults>>

Works(w) == locked_settings(w) \/ activate(w) \/ refusal(w) \/ refresh(w)
Next == Entitlement \/ NextDay \/ \E w \in Workers : Press(w) \/ Tick(w) \/ Works(w) \/ Crash(w)

Spec == Init /\ [][Next]_vars

\* A request has a deadline, the row a queue, and the tick comes every five minutes.
Fairness == \A w \in Workers : SF_vars(Works(w)) /\ SF_vars(Tick(w))
FairSpec == Spec /\ Fairness

-----------------------------------------------------------------------------
(* While no reply of a grant was lost, the credential held is the one the     *)
(* service honours, whichever processes activated and rotated at once; an     *)
(* ended access is only shown where the service ended it or knows another      *)
(* credential; a revocation shows no date; and a day's scheduled refresh is    *)
(* made once.                                                                 *)
KeyIsLive == credential # None /\ ~lost => credential = live
EndedIsTold == shown = "credential_invalid" => lost
AccessSound ==
    /\ TypeOK /\ KeyIsLive /\ EndedIsTold /\ ~twice
    /\ shown \in {"revoked", "disconnected", "not_activated"} => ~until

(* An expiry is shown only once the service has said it.                      *)
ExpiryIsTold == [][shown' = "expired" /\ shown # "expired" => entitlement = "expired"]_vars

(* A credential that was stored is used: should the process die between the   *)
(* activation and its refresh, the tick asks the same day.                    *)
ActivatedIsAsked ==
    \A c \in 1 .. MaxSecrets + MaxPresses : credential = c ~> (c \in asked \/ credential # c)
=============================================================================
