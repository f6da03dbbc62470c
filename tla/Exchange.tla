------------------------------ MODULE Exchange ------------------------------
(***************************************************************************)
(* The community exchange of one tenant: its consent row (api/system.py),   *)
(* the daily tick and Send now (core/sharing.py, main.py), and the receipt  *)
(* an accepted upload earns, which must be withdrawn when consent ends and  *)
(* may fetch the corpus an exchange did not bring (core/participation.py).  *)
(*                                                                          *)
(* Both callers hold the tenant's exchange lock, so one job runs at a time. *)
(* The service is external: it issues receipts, honours a live one, and a   *)
(* withdrawal with a live one ends every receipt issued so far.  A receipt  *)
(* is the number of its upload.                                             *)
(***************************************************************************)
EXTENDS Naturals, Sequences

CONSTANTS
    Tries,       \* posts of one exchange
    MaxDays, MaxPresses, MaxChanges, MaxFaults, \* bounds
    None

ExchangeAssumption ==
    {Tries, MaxDays, MaxPresses, MaxChanges, MaxFaults} \subseteq Nat /\ Tries > 0 /\ None \notin Nat

VARIABLES
    tier,       \* consent: whether the tier is not "off"
    identity,   \* the submission UUID
    receipt, status, retry, \* participation_receipt, its state, whether retry_after is set
    attempted,  \* the share log has a row since the day's slot
    job,        \* what the holder of the lock is doing
    earned,     \* at the service: the identity each receipt was issued to
    withdrawn, expired, \* receipts that no longer authorize anything
    late,       \* withdrawals still on their way
    owed,       \* receipts that were held when consent ended
    days, presses, changes, faults

consent == <<tier, identity>>
held == <<receipt, status, retry>>
service == <<earned, withdrawn, expired, late>>
bounds == <<days, presses, changes, faults>>
vars == <<consent, held, attempted, job, service, owed, bounds>>

Receipts == DOMAIN earned
Idle == [at |-> "idle"]

TypeOK ==
    /\ tier \in BOOLEAN /\ retry \in BOOLEAN /\ attempted \in BOOLEAN
    /\ status \in {"none", "contributing", "withdrawal_pending", "withdrawn", "ended"}
    /\ receipt \in Receipts \cup {None}
    /\ withdrawn \cup expired \cup late \cup owed \subseteq Receipts

Init ==
    /\ tier \in BOOLEAN /\ identity = 0
    /\ receipt = None /\ status = "none" /\ retry = FALSE
    /\ attempted \in BOOLEAN
    /\ job = Idle
    /\ earned = <<>> /\ withdrawn = {} /\ expired = {} /\ late = {} /\ owed = {}
    /\ days = 0 /\ presses = 0 /\ changes = 0 /\ faults = 0

pending == status = "withdrawal_pending"
usable == tier /\ receipt # None /\ status = "contributing" /\ receipt \notin expired

Fault == faults < MaxFaults /\ faults' = faults + 1 /\ UNCHANGED <<days, presses, changes>>
Change == changes < MaxChanges /\ changes' = changes + 1 /\ UNCHANGED <<days, presses, faults>>

----------------------------------------------------------------------------
(* Consent.                                                                 *)

\* mark_withdrawal, with the row locked.
mark_withdrawal ==
    IF receipt = None \/ pending THEN UNCHANGED <<receipt, status, owed>>
    ELSE IF receipt \in expired THEN receipt' = None /\ status' = "ended" /\ UNCHANGED owed
    ELSE status' = "withdrawal_pending" /\ owed' = owed \cup {receipt} /\ UNCHANGED receipt

TurnOff ==
    /\ tier
    /\ tier' = FALSE
    /\ mark_withdrawal
    /\ Change
    /\ UNCHANGED <<identity, retry, attempted, job, service>>

TurnOn ==
    /\ ~tier
    /\ tier' = TRUE
    /\ Change
    /\ UNCHANGED <<identity, held, attempted, job, service, owed>>

ResetUuid ==
    /\ identity' = identity + 1
    /\ mark_withdrawal
    /\ Change
    /\ UNCHANGED <<tier, retry, attempted, job, service>>

----------------------------------------------------------------------------
(* The tick and the button: run_exchange.                                   *)

\* What the job does next once its exchange is over.
After(by) == IF by = "tick" THEN [at |-> "redemption", by |-> by] ELSE Idle
Posting(by) == [at |-> "posting", by |-> by, tries |-> Tries, identity |-> identity]
Withdrawing(by, then) == [at |-> "withdrawing", by |-> by, then |-> then, receipt |-> receipt]

\* It reads consent once; a withdrawal that waits goes first.
run_exchange(by) == IF pending THEN Withdrawing(by, "upload") ELSE Posting(by)

Tick ==
    /\ job = Idle
    /\ job' = IF pending THEN Withdrawing("tick", "due") ELSE [at |-> "due", by |-> "tick"]
    /\ UNCHANGED <<consent, held, attempted, service, owed, bounds>>

\* exchange_due: once a day, and any attempt since the slot counts.
Due ==
    /\ job.at = "due"
    /\ job' = IF tier /\ ~attempted THEN run_exchange("tick") ELSE After("tick")
    /\ UNCHANGED <<consent, held, attempted, service, owed, bounds>>

SendNow ==
    /\ job = Idle /\ tier
    /\ presses < MaxPresses /\ presses' = presses + 1
    /\ job' = run_exchange("button")
    /\ UNCHANGED <<consent, held, attempted, service, owed, days, changes, faults>>

----------------------------------------------------------------------------
(* Withdrawals: never holding the row across the request.                   *)

\* What a withdrawal that reaches the service ends.
Ends(r) == IF r \in withdrawn \cup expired THEN {} ELSE Receipts

\* An upload waits for the acknowledgement; without one the attempt is logged as held.
AfterWithdrawal(settled) ==
    IF job.then = "due" THEN job' = [at |-> "due", by |-> job.by] /\ UNCHANGED attempted
    ELSE IF settled THEN job' = Posting(job.by) /\ UNCHANGED attempted
    ELSE job' = After(job.by) /\ attempted' = TRUE

\* The answer arrives: withdrawn, or the service no longer knows a live one.
Withdraw ==
    /\ job.at = "withdrawing"
    /\ withdrawn' = withdrawn \cup Ends(job.receipt)
    /\ IF receipt = job.receipt
       THEN /\ receipt' = None
            /\ status' = IF receipt = None \/ receipt \notin expired THEN "withdrawn" ELSE "ended"
       ELSE UNCHANGED <<receipt, status>>
    /\ AfterWithdrawal(receipt = job.receipt)
    /\ UNCHANGED <<consent, retry, earned, expired, late, owed, bounds>>

\* A bug: a withdrawal nobody answered is taken for done.
Unresolved_Settles ==
    /\ receipt' = None /\ status' = "withdrawn"
    /\ AfterWithdrawal(TRUE)

\* An unresolved attempt settles nothing.
Unresolved == AfterWithdrawal(FALSE) /\ UNCHANGED <<receipt, status>>

\* No answer: the request is lost, arrived, or is still on its way.
WithdrawUnanswered ==
    /\ job.at = "withdrawing" /\ job.receipt # None
    /\ \/ withdrawn' = withdrawn \cup Ends(job.receipt) /\ UNCHANGED late
       \/ late' = late \cup {job.receipt} /\ UNCHANGED withdrawn
       \/ UNCHANGED <<withdrawn, late>>
    /\ Unresolved
    /\ Fault
    /\ UNCHANGED <<consent, retry, earned, expired, owed>>

LateArrives(r) ==
    /\ r \in late
    /\ withdrawn' = withdrawn \cup Ends(r)
    /\ late' = late \ {r}
    /\ UNCHANGED <<consent, held, attempted, job, earned, expired, owed, bounds>>

----------------------------------------------------------------------------
(* Posting.                                                                 *)

Failed == IF job.tries > 1 THEN [job EXCEPT !.tries = @ - 1]
          ELSE [at |-> "storing", by |-> job.by, outcome |-> "failed", block |-> None, corpus |-> FALSE, revoke |-> FALSE]

\* Accepted: a receipt or none, a corpus or none, and perhaps told to stop.
PostAccepted ==
    /\ job.at = "posting"
    /\ \E block, corpus, revoke \in BOOLEAN :
        /\ earned' = IF block THEN Append(earned, job.identity) ELSE earned
        /\ revoke => ~corpus
        /\ job' = [at |-> "storing", by |-> job.by, outcome |-> "sent", corpus |-> corpus, revoke |-> revoke,
                   block |-> IF block THEN Len(earned) + 1 ELSE None]
    /\ UNCHANGED <<consent, held, attempted, withdrawn, expired, late, owed, bounds>>

\* Refused or unreachable, or accepted with the answer lost: it tries again.
PostFails ==
    /\ job.at = "posting"
    /\ \/ UNCHANGED earned
       \/ earned' = Append(earned, job.identity)
    /\ job' = Failed
    /\ Fault
    /\ UNCHANGED <<consent, held, attempted, withdrawn, expired, late, owed>>

\* The newest receipt is kept, to be withdrawn too when consent ended meanwhile.
after_exchange(on) ==
    /\ receipt' = job.block
    /\ status' = IF on /\ ~pending THEN "contributing" ELSE "withdrawal_pending"
    /\ owed' = IF on /\ ~pending THEN owed ELSE owed \cup {job.block}

\* The day's row commits with the receipt that upload earned.
Store ==
    /\ job.at = "storing"
    /\ attempted' = TRUE
    /\ tier' = (tier /\ ~job.revoke)
    /\ IF job.block # None THEN after_exchange(tier')
       ELSE IF job.outcome = "sent" /\ ~tier' THEN mark_withdrawal
       ELSE UNCHANGED <<receipt, status, owed>>
    /\ job' = [at |-> "delivering", by |-> job.by, corpus |-> job.corpus, redeemed |-> FALSE]
    /\ UNCHANGED <<identity, retry, service, bounds>>

\* after_delivery: the corpus arrived, or a usable receipt is to fetch it.
Owing(delivered) == IF delivered THEN FALSE ELSE IF usable THEN TRUE ELSE retry

Deliver ==
    /\ job.at = "delivering"
    /\ \/ retry' = Owing(job.corpus) /\ UNCHANGED bounds
       \/ job.corpus /\ retry' = Owing(FALSE) /\ Fault
    /\ job' = IF job.redeemed THEN Idle ELSE After(job.by)
    /\ UNCHANGED <<consent, receipt, status, attempted, service, owed>>

----------------------------------------------------------------------------
(* Redemption.                                                              *)

RedemptionDue ==
    /\ job.at = "redemption"
    /\ job' = IF usable /\ retry THEN [at |-> "redeeming", receipt |-> receipt] ELSE Idle
    /\ UNCHANGED <<consent, held, attempted, service, owed, bounds>>

\* An answer about another receipt is stale; one that ends this receipt drops it.
Redeem ==
    /\ job.at = "redeeming"
    /\ IF receipt # job.receipt THEN job' = Idle /\ UNCHANGED held
       ELSE IF receipt \in withdrawn \cup expired THEN
           /\ receipt' = None /\ retry' = FALSE
           /\ status' = IF receipt \in expired THEN "ended" ELSE "withdrawn"
           /\ job' = Idle
       ELSE
           /\ retry' = FALSE
           /\ job' = [at |-> "delivering", by |-> "tick", corpus |-> TRUE, redeemed |-> TRUE]
           /\ UNCHANGED <<receipt, status>>
    /\ UNCHANGED <<consent, attempted, service, owed, bounds>>

RedeemFails ==
    /\ job.at = "redeeming"
    /\ retry' = (retry \/ receipt = job.receipt)
    /\ job' = Idle
    /\ Fault
    /\ UNCHANGED <<consent, receipt, status, attempted, service, owed>>

----------------------------------------------------------------------------
(* The rest of the world.                                                   *)

Crash ==
    /\ job # Idle
    /\ job' = Idle
    /\ Fault
    /\ UNCHANGED <<consent, held, attempted, service, owed>>

NextDay ==
    /\ days < MaxDays /\ days' = days + 1
    /\ attempted' = FALSE
    /\ UNCHANGED <<consent, held, job, service, owed, presses, changes, faults>>

\* Thirty days after its upload, so in the order of the uploads.
Expire(r) ==
    /\ r \notin expired /\ 1..(r - 1) \subseteq expired
    /\ expired' = expired \cup {r}
    /\ Change
    /\ UNCHANGED <<consent, held, attempted, job, earned, withdrawn, late, owed>>

Work == Tick \/ Due \/ Withdraw \/ PostAccepted \/ Store \/ Deliver \/ RedemptionDue \/ Redeem

Next ==
    \/ Work
    \/ TurnOff \/ TurnOn \/ ResetUuid \/ SendNow
    \/ WithdrawUnanswered \/ PostFails \/ RedeemFails \/ Crash \/ NextDay
    \/ \E r \in Receipts : LateArrives(r) \/ Expire(r)

Spec == Init /\ [][Next]_vars

\* The tick runs every five minutes for ever and a request ends.
FairSpec == Spec /\ WF_vars(Work)

----------------------------------------------------------------------------
(* Properties.                                                              *)

\* A receipt in use was not ended by a withdrawal of this instance's own: a late one cannot
\* cancel what a later consent earns (participation.py: an upload waits until the
\* withdrawal is acknowledged).
ContributingIsLive == status = "contributing" => receipt \notin withdrawn

\* What waits to be withdrawn is a receipt, and one in use is never also owed.
StatusTellsReceipt ==
    /\ status \in {"contributing", "withdrawal_pending"} <=> receipt # None
    /\ status = "contributing" => receipt \notin owed

ExchangeSound == TypeOK /\ ContributingIsLive /\ StatusTellsReceipt

\* Every receipt held when consent ended, or earned by an upload that was in flight then,
\* ends at the service: lost and late withdrawals, crashes, a new consent and a newer
\* receipt on the way (mark_withdrawal, after_exchange, withdraw).
OwedIsWithdrawn ==
    \A r \in 1..(Tries * (MaxDays + MaxPresses + 1)) : (r \in owed) ~> (r \in withdrawn \cup expired)

\* What an exchange failed to bring is fetched with the receipt as long as one may be used.
\* (after_delivery, redeem).
MissedIsFetched == []<>(~retry \/ ~usable)

\* Turning sharing off stops uploads immediately (docs/data-sharing.md).
\* So a try that fails after consent ended is the last one (post_exchange).
OffStopsUploads == [][PostFails /\ ~tier => job'.at # "posting"]_vars

\* A receipt in use was issued to the identity in use: a reset of the submission UUID
\* withdraws the old identity's receipts (reset_submission_uuid).
ReceiptIsOfIdentity == status = "contributing" => earned[receipt] = identity
=============================================================================
