------------------------------- MODULE Outbox -------------------------------
(***************************************************************************)
(* The outbox of backend/app/core/outbox.py: events, the deliveries fan-out *)
(* creates for them, the tick that posts them under an advisory lock, the   *)
(* nightly purge, and the operator's hand on the destinations.              *)
(*                                                                          *)
(* One action is one SELECT, one POST or one committed transaction.  The    *)
(* database runs at READ COMMITTED, so whatever a tick or a purge read may  *)
(* have changed by the time it writes.  A row is due or it is backing off;  *)
(* `ready` holds the due ones in next_attempt_at order, because every       *)
(* writer of that column writes "now" or a later instant, a row enters it   *)
(* at the end.                                                              *)
(***************************************************************************)
EXTENDS Naturals, Sequences, FiniteSets, SequencesExt, Queues

CONSTANTS
    Events,       \* event ids, in sequence order
    Destinations, \* destination ids, never reused
    Workers,      \* scheduler-enabled processes
    Wanted,       \* (event, destination) pairs subscription and scope allow
    MaxAttempts,  \* _MAX_ATTEMPTS
    TickLimit,    \* _TICK_LIMIT
    MaxOld,       \* bound: retention windows a run lets pass
    NoWorker

ASSUME EventsAssumption ==
    /\ Events \subseteq Nat /\ Wanted \subseteq Events \X Destinations
    /\ IsFiniteSet(Events) /\ IsFiniteSet(Destinations)
ASSUME LimitsAssumption == MaxAttempts \in Nat \ {0} /\ TickLimit \in Nat \ {0} /\ MaxOld \in 0..2
ASSUME LockAssumption == NoWorker \notin Workers

Pairs == Events \X Destinations

VARIABLES
    event,    \* event_outbox row, with its fanned_out flag
    old,      \* windows the row has outlived: 1 events, 2 dead letters
    dest,     \* destinations row, with its enabled flag
    status,   \* outbox_deliveries.status, "none" for no row
    attempts, \* outbox_deliveries.attempt_count
    ready,    \* the due rows, most overdue first
    holder,   \* the process that holds outbox_tick_lock
    stage, seen, hand, flight, \* a process's tick: destinations and rows in hand
    purging, candidates, kept, \* the purge: its step and what its SELECTs returned
    touched,  \* pairs whose status changed since the purge began
    taken,    \* POSTs accepted whose answer was neither lost nor forgotten
    late      \* POSTs since the destination was last switched off or deleted

rows == <<event, old, dest, status, attempts, ready>>
tick == <<holder, stage, seen, hand, flight>>
purge == <<purging, candidates, kept>>
vars == <<rows, tick, purge, touched, taken, late>>

TypeOK ==
    /\ event \in [Events -> {"absent", "held", "fanned", "purged"}]
    /\ old \in [Events -> 0..2]
    /\ dest \in [Destinations -> {"absent", "on", "off", "deleted"}]
    /\ status \in [Pairs -> {"none", "pending", "delivered", "failed"}]
    /\ attempts \in [Pairs -> 0..MaxAttempts]
    /\ ready \in Seq(Pairs)
    /\ holder \in Workers \cup {NoWorker}
    /\ stage \in [Workers -> {"idle", "fanout", "select", "deliver"}]
    /\ seen \in [Workers -> SUBSET Destinations]
    /\ hand \in [Workers -> Seq(Pairs)]
    /\ flight \in [Workers -> {"none", "accepted", "unanswered", "refused"}]
    /\ purging \in {"idle", "pending", "failed", "delete"}
    /\ candidates \subseteq Events
    /\ kept \subseteq Events
    /\ touched \subseteq Pairs
    /\ taken \in [Pairs -> Nat]
    /\ late \in [Destinations -> Nat]

Init ==
    /\ event = [e \in Events |-> "absent"]
    /\ old = [e \in Events |-> 0]
    /\ dest = [d \in Destinations |-> "absent"]
    /\ status = [p \in Pairs |-> "none"]
    /\ attempts = [p \in Pairs |-> 0]
    /\ ready = <<>>
    /\ holder = NoWorker
    /\ stage = [w \in Workers |-> "idle"]
    /\ seen = [w \in Workers |-> {}]
    /\ hand = [w \in Workers |-> <<>>]
    /\ flight = [w \in Workers |-> "none"]
    /\ purging = "idle" /\ candidates = {} /\ kept = {}
    /\ touched = {}
    /\ taken = [p \in Pairs |-> 0]
    /\ late = [d \in Destinations |-> 0]

\* What changed under the purge's feet, for the properties alone.
Noticed == touched' = IF purging = "idle" THEN {}
                      ELSE touched \cup {p \in Pairs : status'[p] # status[p]}

-----------------------------------------------------------------------------
(* The operator and the producers.                                          *)

\* enqueue_event, committed with the state change it announces.
Enqueue(e) ==
    /\ event[e] = "absent"
    /\ event' = [event EXCEPT ![e] = "held"]
    /\ UNCHANGED <<old, dest, status, attempts, ready, tick, purge, touched, taken, late>>

Switch(d, to) ==
    /\ dest' = [dest EXCEPT ![d] = to]
    /\ late' = [late EXCEPT ![d] = 0]

SwitchOn(d) ==
    /\ dest[d] \in {"absent", "off"}
    /\ Switch(d, "on")
    /\ UNCHANGED <<event, old, status, attempts, ready, tick, purge, touched, taken>>

SwitchOff(d) ==
    /\ dest[d] = "on"
    /\ Switch(d, "off")
    /\ UNCHANGED <<event, old, status, attempts, ready, tick, purge, touched, taken>>

OwnedBy(d) == {p \in Pairs : p[2] = d}

DeleteDestination(d) ==
    /\ dest[d] \in {"on", "off"}
    /\ Switch(d, "deleted")
    /\ status' = [p \in Pairs |-> IF p[2] = d THEN "none" ELSE status[p]]
    /\ ready' = Without(ready, OwnedBy(d))
    /\ Noticed
    /\ UNCHANGED <<event, old, attempts, tick, purge, taken>>

DeadLetters(d) == {p \in OwnedBy(d) : status[p] = "failed"}

Redrive_KeepsCount(d) ==
    /\ DeadLetters(d) # {}
    /\ status' = [p \in Pairs |-> IF p \in DeadLetters(d) THEN "pending" ELSE status[p]]
    /\ \E q \in SetToSeqs(DeadLetters(d)) : ready' = ready \o q
    /\ Noticed
    /\ UNCHANGED <<event, old, dest, attempts, tick, purge, taken, late>>

\* redrive_failed: a fresh budget, due now.
Redrive(d) ==
    /\ DeadLetters(d) # {}
    /\ status' = [p \in Pairs |-> IF p \in DeadLetters(d) THEN "pending" ELSE status[p]]
    /\ attempts' = [p \in Pairs |-> IF p \in DeadLetters(d) THEN 0 ELSE attempts[p]]
    /\ \E q \in SetToSeqs(DeadLetters(d)) : ready' = ready \o q
    /\ Noticed
    /\ UNCHANGED <<event, old, dest, tick, purge, taken, late>>

-----------------------------------------------------------------------------
(* The tick.                                                                *)

Enabled == {d \in Destinations : dest[d] = "on"}

LockFree_Unlocked(w) == stage[w] = "idle"
LockFree(w) == holder = NoWorker /\ stage[w] = "idle"

\* The tick ends: normally, because something it did raised, or because its
\* process died.  Postgres drops the advisory lock either way.
LeaveTick(w) ==
    /\ holder' = NoWorker
    /\ stage' = [stage EXCEPT ![w] = "idle"]
    /\ seen' = [seen EXCEPT ![w] = {}]
    /\ hand' = [hand EXCEPT ![w] = <<>>]
    /\ flight' = [flight EXCEPT ![w] = "none"]

\* outbox_tick_lock, then fan_out_pending's SELECT of the destinations.
BeginTick(w) ==
    /\ LockFree(w)
    /\ holder' = w
    /\ stage' = [stage EXCEPT ![w] = "fanout"]
    /\ seen' = [seen EXCEPT ![w] = Enabled]
    /\ UNCHANGED <<rows, hand, flight, purge, touched, taken, late>>

Held == {e \in Events : event[e] = "held"}
Oldest(S, n) == {e \in S : Cardinality({f \in S : f < e}) < n}

\* With no destination enabled the events are held, not burned.
HoldEvents(w) ==
    /\ stage[w] = "fanout"
    /\ seen[w] = {} \/ Held = {}
    /\ stage' = [stage EXCEPT ![w] = "select"]
    /\ UNCHANGED <<rows, holder, seen, hand, flight, purge, touched, taken, late>>

NewRows(w) == {p \in Wanted : p[1] \in Oldest(Held, TickLimit) /\ p[2] \in seen[w]}

\* The events considered and their delivery rows commit together.
FanOut(w) ==
    /\ stage[w] = "fanout"
    /\ seen[w] # {}
    /\ Held # {}
    /\ \A p \in NewRows(w) : dest[p[2]] # "deleted"
    /\ event' = [e \in Events |-> IF e \in Oldest(Held, TickLimit) THEN "fanned" ELSE event[e]]
    /\ status' = [p \in Pairs |-> IF p \in NewRows(w) THEN "pending" ELSE status[p]]
    /\ \E q \in SetToSeqs(NewRows(w)) : ready' = ready \o q
    /\ stage' = [stage EXCEPT ![w] = "select"]
    /\ Noticed
    /\ UNCHANGED <<old, dest, attempts, holder, seen, hand, flight, purge, taken, late>>

\* A destination deleted since it was read: the foreign key refuses its rows.
FanOutRaises(w) ==
    /\ stage[w] = "fanout"
    /\ Held # {}
    /\ \E p \in NewRows(w) : dest[p[2]] = "deleted"
    /\ LeaveTick(w)
    /\ UNCHANGED <<rows, purge, touched, taken, late>>

\* deliver_pending's SELECTs: the most overdue rows, and the destinations.
SelectDue(w) ==
    /\ stage[w] = "select"
    /\ hand' = [hand EXCEPT ![w] = SubSeq(ready, 1, IF Len(ready) < TickLimit
                                                    THEN Len(ready) ELSE TickLimit)]
    /\ seen' = [seen EXCEPT ![w] = Enabled]
    /\ stage' = [stage EXCEPT ![w] = "deliver"]
    /\ UNCHANGED <<rows, holder, flight, purge, touched, taken, late>>

NextInHand(w) == Head(hand[w])

Delivering(w) == stage[w] = "deliver" /\ hand[w] # <<>>

\* Disabled when it was read: left pending, and due.
Skip(w) ==
    /\ Delivering(w)
    /\ NextInHand(w)[2] \notin seen[w]
    /\ hand' = [hand EXCEPT ![w] = Tail(@)]
    /\ UNCHANGED <<rows, holder, stage, seen, flight, purge, touched, taken, late>>

\* What a delivery may come to: taken and answered for; taken and reported as
\* failed, its answer lost or a later bulk request of it refused; not taken.
Outcomes == {"accepted", "unanswered", "refused"}

\* _attempt_delivery, or a refusal to dial a blocked address.
Post(w, outcome) ==
    /\ Delivering(w)
    /\ flight[w] = "none"
    /\ NextInHand(w)[2] \in seen[w]
    /\ flight' = [flight EXCEPT ![w] = outcome]
    /\ taken' = [taken EXCEPT ![NextInHand(w)] = @ + (IF outcome = "accepted" THEN 1 ELSE 0)]
    /\ late' = [late EXCEPT ![NextInHand(w)[2]] = @ + (IF dest[NextInHand(w)[2]] = "on" THEN 0 ELSE 1)]
    /\ UNCHANGED <<rows, holder, stage, seen, hand, purge, touched>>

Recorded(w) ==
    /\ hand' = [hand EXCEPT ![w] = Tail(@)]
    /\ flight' = [flight EXCEPT ![w] = "none"]
    /\ Noticed
    /\ UNCHANGED <<event, old, dest, holder, stage, seen, purge, taken, late>>

\* The per-delivery commit of an accepted delivery.
RecordDelivered(w) ==
    LET p == NextInHand(w) IN
    /\ Delivering(w)
    /\ flight[w] = "accepted"
    /\ status[p] # "none"
    /\ status' = [status EXCEPT ![p] = "delivered"]
    /\ attempts' = [attempts EXCEPT ![p] = @ + 1]
    /\ ready' = Without(ready, {p})
    /\ Recorded(w)

RecordFailure_Uncounted(w) ==
    LET p == NextInHand(w) IN
    /\ Delivering(w)
    /\ flight[w] \in {"unanswered", "refused"}
    /\ status[p] # "none"
    /\ ready' = Without(ready, {p})
    /\ UNCHANGED <<attempts, status>>
    /\ Recorded(w)

\* The commit of a failed attempt: the row backs off, or is dead-lettered.
RecordFailure(w) ==
    LET p == NextInHand(w) IN
    /\ Delivering(w)
    /\ flight[w] \in {"unanswered", "refused"}
    /\ status[p] # "none"
    /\ attempts' = [attempts EXCEPT ![p] = @ + 1]
    /\ status' = [status EXCEPT ![p] = IF attempts'[p] >= MaxAttempts THEN "failed" ELSE @]
    /\ ready' = Without(ready, {p})
    /\ Recorded(w)

RecordVanished_Ignored(w) ==
    /\ Delivering(w)
    /\ flight[w] # "none"
    /\ status[NextInHand(w)] = "none"
    /\ UNCHANGED <<status, attempts, ready>>
    /\ Recorded(w)

\* The row went with its destination or its event: the UPDATE matches nothing
\* and the tick ends there.
RecordVanished(w) ==
    /\ Delivering(w)
    /\ flight[w] # "none"
    /\ status[NextInHand(w)] = "none"
    /\ LeaveTick(w)
    /\ UNCHANGED <<rows, purge, touched, taken, late>>

EndTick(w) ==
    /\ stage[w] = "deliver"
    /\ hand[w] = <<>>
    /\ LeaveTick(w)
    /\ UNCHANGED <<rows, purge, touched, taken, late>>

\* The process dies, or the tick raises, between two commits; a POST accepted
\* and not yet recorded will be repeated.
Crash(w) ==
    /\ stage[w] # "idle"
    /\ LeaveTick(w)
    /\ taken' = IF flight[w] = "accepted"
                THEN [taken EXCEPT ![NextInHand(w)] = @ - 1] ELSE taken
    /\ UNCHANGED <<rows, purge, touched, late>>

\* next_attempt_at of a row that was backing off has come.
BecomeDue(p) ==
    /\ status[p] = "pending"
    /\ ~Contains(ready, p)
    /\ ready' = Append(ready, p)
    /\ UNCHANGED <<event, old, dest, status, attempts, tick, purge, touched, taken, late>>

-----------------------------------------------------------------------------
(* purge_delivered_events, which does not take the tick's lock.             *)

Live == {e \in Events : event[e] \in {"held", "fanned"}}

BeginPurge ==
    /\ purging = "idle"
    /\ \E e \in Live : old[e] >= 1
    /\ purging' = "pending"
    /\ candidates' = {e \in Live : old[e] >= 1}
    /\ UNCHANGED <<rows, tick, kept, touched, taken, late>>

Holding(which) == {e \in candidates : \E d \in Destinations : status[<<e, d>>] = which}

ReadPending_Skipped ==
    /\ purging = "pending"
    /\ purging' = "failed"
    /\ kept' = {}
    /\ UNCHANGED <<rows, tick, candidates, touched, taken, late>>

ReadPending ==
    /\ purging = "pending"
    /\ purging' = "failed"
    /\ kept' = Holding("pending")
    /\ UNCHANGED <<rows, tick, candidates, touched, taken, late>>

ReadDeadLetters ==
    /\ purging = "failed"
    /\ purging' = "delete"
    /\ kept' = kept \cup {e \in Holding("failed") : old[e] < 2}
    /\ UNCHANGED <<rows, tick, candidates, touched, taken, late>>

EndPurge == purging' = "idle" /\ candidates' = {} /\ kept' = {} /\ touched' = {}

\* Both DELETEs and their commit, by the ids read above.
PurgeDeletes ==
    LET gone == candidates \ kept IN
    /\ purging = "delete"
    /\ event' = [e \in Events |-> IF e \in gone THEN "purged" ELSE event[e]]
    /\ status' = [p \in Pairs |-> IF p[1] \in gone THEN "none" ELSE status[p]]
    /\ ready' = Without(ready, gone \X Destinations)
    /\ EndPurge
    /\ UNCHANGED <<old, dest, attempts, tick, taken, late>>

\* It dies or is refused (a delivery fanned out between the two DELETEs): rolled back.
PurgeAborts ==
    /\ purging # "idle"
    /\ EndPurge
    /\ UNCHANGED <<rows, tick, taken, late>>

\* Days pass.  The cutoffs of a purge are computed once, when it begins.
Age(e) ==
    /\ event[e] \in {"held", "fanned"}
    /\ old[e] < MaxOld
    /\ purging = "idle"
    /\ old' = [old EXCEPT ![e] = @ + 1]
    /\ UNCHANGED <<event, dest, status, attempts, ready, tick, purge, touched, taken, late>>

-----------------------------------------------------------------------------

Tick(w) ==
    \/ BeginTick(w)
    \/ HoldEvents(w)
    \/ FanOut(w)
    \/ FanOutRaises(w)
    \/ SelectDue(w)
    \/ Skip(w)
    \/ \E outcome \in Outcomes : Post(w, outcome)
    \/ RecordDelivered(w)
    \/ RecordFailure(w)
    \/ RecordVanished(w)
    \/ EndTick(w)

Purge == BeginPurge \/ ReadPending \/ ReadDeadLetters \/ PurgeDeletes \/ PurgeAborts

Operator(d) == SwitchOn(d) \/ SwitchOff(d) \/ DeleteDestination(d) \/ Redrive(d)

Next ==
    \/ \E e \in Events : Enqueue(e) \/ Age(e)
    \/ \E d \in Destinations : Operator(d)
    \/ \E w \in Workers : Tick(w) \/ Crash(w)
    \/ \E p \in Pairs : BecomeDue(p)
    \/ Purge

Spec == Init /\ [][Next]_vars

(* The scheduler fires the tick every 30 s and a backoff ends.  A tick may be *)
(* killed time and again, but not for ever at the same step: each kind of     *)
(* step it is for ever about to take it sometimes takes.                      *)
Fairness ==
    /\ \A p \in Pairs : WF_vars(BecomeDue(p))
    /\ \A w \in Workers :
        /\ SF_vars(BeginTick(w) \/ FanOutRaises(w))
        /\ SF_vars(HoldEvents(w) \/ FanOut(w))
        /\ SF_vars(SelectDue(w))
        /\ SF_vars(Skip(w))
        /\ SF_vars(\E outcome \in Outcomes : Post(w, outcome))
        /\ SF_vars(RecordDelivered(w) \/ RecordFailure(w) \/ RecordVanished(w))
        /\ SF_vars(EndTick(w))

FairSpec == Spec /\ Fairness

-----------------------------------------------------------------------------
(* Properties.                                                              *)

\* At-least-once, and no more than the protocol forces: a destination is sent
\* an event again only when its answer to the last sending was lost, or the
\* process died before recording it (deliver_pending's per-delivery commit).
NoUnforcedDuplicate == \A p \in Pairs : taken[p] <= 1

\* What a tick still holds in hand is due its first answer of this tick: no
\* redrive, purge or other process turned the row into something else that the
\* tick's commit would overwrite; at worst it is gone.
HandIsCurrent ==
    \A w \in Workers : \A i \in 1..Len(hand[w]) :
        /\ status[hand[w][i]] \in {"pending", "none"}
        /\ \A j \in 1..Len(hand[w]) : hand[w][i] = hand[w][j] => i = j

\* A dead letter has spent exactly its budget, and whatever is pending, a
\* redriven row included, has some of it left.
BudgetSpent ==
    \A p \in Pairs :
        /\ status[p] = "failed" => attempts[p] = MaxAttempts
        /\ status[p] = "pending" => attempts[p] < MaxAttempts

\* How long a tick goes on sending to a destination the operator switched off
\* (to the end of the rows in hand) or deleted (one POST).
LatePostsBounded ==
    \A d \in Destinations :
        late[d] <= IF dest[d] = "deleted" THEN 1 ELSE TickLimit

Purged(e) == event[e] \in {"held", "fanned"} /\ event'[e] = "purged"

\* The purge never takes a delivery that was pending, nor a dead letter inside
\* its window, from before the purge looked until it deleted.
SteadyRowsSurvivePurge ==
    [][\A p \in Pairs \ touched : Purged(p[1]) =>
            /\ status[p] # "pending"
            /\ status[p] = "failed" => old[p[1]] = 2]_vars

\* "A pending delivery protects its event regardless of age" (outbox_cleanup).
\* The code does not keep this: the purge deletes by ids it read earlier.
PendingProtectsEvent ==
    [][\A p \in Pairs : Purged(p[1]) => status[p] # "pending"]_vars

Due(p) == status[p] = "pending" /\ dest[p[2]] = "on"
Idle == {p \in Pairs : status[p] = "pending" /\ dest[p[2]] = "off"}

\* A delivery to an enabled destination is settled in the end, unless at least
\* a tick's worth of deliveries waits for destinations that are switched off.
SettlesUnderLimit ==
    \A p \in Pairs : Due(p) ~> (~Due(p) \/ Cardinality(Idle) >= TickLimit)

\* "A dead destination must never block or get conflated with a healthy one's
\* delivery" (OutboxDelivery).  The code does not keep this: rows of a disabled
\* destination stay at the head of the queue and use up the tick's ceiling.
DeadNeverBlocksHealthy == \A p \in Pairs : Due(p) ~> ~Due(p)

\* What is sent, what is in hand and what was spent agree with the rows, whatever
\* two workers, the operator and the purge do to them (deliver_pending).
OutboxSound == TypeOK /\ NoUnforcedDuplicate /\ HandIsCurrent /\ BudgetSpent /\ LatePostsBounded

=============================================================================
