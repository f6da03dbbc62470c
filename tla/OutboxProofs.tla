---------------------------- MODULE OutboxProofs ----------------------------
(***************************************************************************)
(* Theorems about Outbox, for any finite sets of events and destinations,   *)
(* any workers, any subscription, any attempt budget and any tick limit.    *)
(***************************************************************************)
EXTENDS Outbox, SequenceTheorems

\* The process inside a tick is the one that holds the advisory lock.
LockIsHeld == \A w \in Workers : stage[w] # "idle" <=> holder = w

\* Rows are in hand between deliver_pending's SELECT and the end of the tick, and a
\* POST is of the first of them.
HandsInTick ==
    \A w \in Workers :
        /\ stage[w] # "deliver" => hand[w] = <<>>
        /\ flight[w] # "none" => hand[w] # <<>> /\ Head(hand[w])[2] \in seen[w]
        /\ Len(hand[w]) <= TickLimit

\* What is due is pending, and is due once.
ReadyIsPending ==
    \A i \in 1..Len(ready) :
        /\ status[ready[i]] = "pending"
        /\ \A j \in 1..Len(ready) : ready[i] = ready[j] => i = j

InFlight(p) == \E w \in Workers : flight[w] = "accepted" /\ Head(hand[w]) = p
InHands(p) == \E w \in Workers : \E i \in 1..Len(hand[w]) : hand[w][i] = p

\* Before its fan-out an event has no delivery and no history.
UnfannedIsFresh ==
    \A p \in Pairs : event[p[1]] \in {"absent", "held"} =>
        status[p] = "none" /\ attempts[p] = 0 /\ taken[p] = 0 /\ ~InHands(p)

\* A delivery that may still be sent has not been taken, but for the one on the wire.
TakenIsSettled ==
    \A p \in Pairs :
        /\ InFlight(p) => taken[p] = 1
        /\ ~InFlight(p) /\ (status[p] \in {"pending", "failed"} \/ InHands(p)) => taken[p] = 0
        /\ taken[p] <= 1

\* A deleted destination has no delivery left.
DeletedIsEmpty == \A p \in Pairs : dest[p[2]] = "deleted" => status[p] = "none"

\* The rows in hand that have not been sent.
Unsent(w) == IF flight[w] = "none" THEN Len(hand[w]) ELSE Len(hand[w]) - 1

\* A tick knows destinations that were created.  What one that was switched off may
\* still be sent is in one hand, and the first row of a deleted one ends the tick that
\* sends it.
LateIsCounted ==
    \A d \in Destinations :
        /\ dest[d] = "absent" => \A w \in Workers : d \notin seen[w]
        /\ dest[d] \in {"absent", "on"} => late[d] = 0
        /\ dest[d] = "off" =>
               /\ late[d] <= TickLimit
               /\ \A w \in Workers : stage[w] = "deliver" /\ d \in seen[w] => late[d] + Unsent(w) <= TickLimit
        /\ dest[d] = "deleted" =>
               /\ late[d] <= 1
               /\ late[d] = 1 => \A w \in Workers : \A i \in 1..Len(hand[w]) :
                      hand[w][i][2] = d => flight[w] # "none" /\ Head(hand[w])[2] = d

\* What the purge has read so far, of the deliveries that stood still since it began.
PurgeKeeps ==
    \A p \in Pairs \ touched : p[1] \in candidates \ kept =>
        /\ purging \in {"failed", "delete"} => status[p] # "pending"
        /\ purging = "delete" /\ status[p] = "failed" => old[p[1]] = 2

RowsAgree == ReadyIsPending /\ UnfannedIsFresh /\ DeletedIsEmpty /\ BudgetSpent
TickAgrees == LockIsHeld /\ HandsInTick /\ HandIsCurrent
IInv == TypeOK /\ TickAgrees /\ RowsAgree /\ TakenIsSettled /\ LateIsCounted /\ PurgeKeeps

-----------------------------------------------------------------------------
(* Sequences of pairs.                                                      *)

Distinct(s) == \A i, j \in 1..Len(s) : s[i] = s[j] => i = j

\* A pair is its event and its destination, and there are finitely many.
LEMMA PairsAreFinite ==
    /\ IsFiniteSet(Pairs)
    /\ \A p \in Pairs : p[1] \in Events /\ p[2] \in Destinations /\ p = <<p[1], p[2]>>
    /\ Wanted \subseteq Pairs
BY EventsAssumption, FS_Product DEF Pairs

\* An order of a set of pairs names each of them once.
LEMMA OrdersProperties ==
    ASSUME NEW S \in SUBSET Pairs, NEW q \in SetToSeqs(S)
    PROVE  q \in Seq(Pairs) /\ Distinct(q) /\ \A i \in 1..Len(q) : q[i] \in S
<1>1. Cardinality(S) \in Nat
  BY PairsAreFinite, FS_Subset, FS_CardinalityType
<1>2. q \in [1..Cardinality(S) -> S] /\ \A i, j \in 1..Cardinality(S) : i # j => q[i] # q[j]
  BY DEF SetToSeqs
<1>3. q \in Seq(Pairs) /\ Len(q) = Cardinality(S)
  BY <1>1, <1>2
<1> QED
  BY <1>2, <1>3 DEF Distinct

\* Rows that become due go to the end of what is due.
LEMMA ConcatProps ==
    ASSUME NEW s \in Seq(Pairs), NEW q \in Seq(Pairs), Distinct(s), Distinct(q),
           \A i \in 1..Len(s), j \in 1..Len(q) : s[i] # q[j]
    PROVE  s \o q \in Seq(Pairs) /\ Distinct(s \o q)
           /\ \A k \in 1..Len(s \o q) : (\E i \in 1..Len(s) : (s \o q)[k] = s[i]) \/ (\E j \in 1..Len(q) : (s \o q)[k] = q[j])
<1> DEFINE t == s \o q
<1>1. /\ t \in Seq(Pairs) /\ Len(t) = Len(s) + Len(q)
      /\ \A i \in 1..Len(t) : t[i] = IF i <= Len(s) THEN s[i] ELSE q[i - Len(s)]
  BY ConcatProperties
<1>2. Len(s) \in Nat /\ Len(q) \in Nat
  OBVIOUS
<1> HIDE DEF t
<1>3. ASSUME NEW k \in 1..Len(t) PROVE (k <= Len(s) /\ k \in 1..Len(s) /\ t[k] = s[k]) \/ (k > Len(s) /\ k - Len(s) \in 1..Len(q) /\ t[k] = q[k - Len(s)])
  BY <1>1, <1>2
<1>4. Distinct(t)
  <2> SUFFICES ASSUME NEW i \in 1..Len(t), NEW j \in 1..Len(t), t[i] = t[j] PROVE i = j
    BY DEF Distinct
  <2>1. i \in Int /\ j \in Int
    BY <1>1, <1>2
  <2> QED
    BY <1>2, <1>3, <2>1 DEF Distinct
<1> QED
  BY <1>1, <1>3, <1>4 DEF t

LEMMA WithoutDistinct ==
    ASSUME NEW s \in Seq(Pairs), Distinct(s), NEW P
    PROVE  /\ Without(s, P) \in Seq(Pairs) /\ Distinct(Without(s, P))
           /\ \A i \in 1..Len(Without(s, P)) : \E k \in 1..Len(s) : Without(s, P)[i] = s[k] /\ s[k] \notin P
<1> DEFINE t == Without(s, P)
<1>0. PICK at : KeptAt(at, t, s, P)
  BY WithoutProperties
<1>2. t \in Seq(Pairs)
  BY WithoutProperties
<1> HIDE DEF t
<1>1. /\ at \in [1..Len(t) -> 1..Len(s)]
      /\ \A i \in 1..Len(t) : t[i] = s[at[i]] /\ s[at[i]] \notin P
      /\ \A i, j \in 1..Len(t) : i < j => at[i] < at[j]
  BY <1>0 DEF KeptAt
<1>3. Distinct(t)
  <2> SUFFICES ASSUME NEW i \in 1..Len(t), NEW j \in 1..Len(t), t[i] = t[j] PROVE i = j
    BY DEF Distinct
  <2>1. at[i] = at[j] /\ at[i] \in Int
    BY <1>1 DEF Distinct
  <2>2. ~(i < j) /\ ~(j < i)
    BY <1>1, <2>1
  <2>3. i \in Int /\ j \in Int
    BY <1>2
  <2> QED
    BY <2>2, <2>3
<1> QED
  BY <1>1, <1>2, <1>3 DEF t

-----------------------------------------------------------------------------
(* What a worker in its tick may rely on.                                   *)

\* The first row in hand, and what is left once it is dealt with.
LEMMA HandFacts ==
    ASSUME TypeOK, TickAgrees, NEW w \in Workers, Delivering(w)
    PROVE  /\ NextInHand(w) \in Pairs /\ hand[w] \in Seq(Pairs) /\ Len(hand[w]) \in Nat \ {0}
           /\ NextInHand(w) = hand[w][1] /\ status[NextInHand(w)] \in {"pending", "none"}
           /\ Tail(hand[w]) \in Seq(Pairs) /\ Len(Tail(hand[w])) = Len(hand[w]) - 1
           /\ \A i \in 1..Len(Tail(hand[w])) :
                  /\ i + 1 \in 1..Len(hand[w]) /\ Tail(hand[w])[i] = hand[w][i + 1]
                  /\ Tail(hand[w])[i] # NextInHand(w)
           /\ \A v \in Workers \ {w} : stage[v] = "idle" /\ hand[v] = <<>> /\ flight[v] = "none"
<1>1. hand[w] \in Seq(Pairs) /\ hand[w] # <<>>
  BY DEF TypeOK, Delivering
<1>2. /\ Len(hand[w]) \in Nat \ {0} /\ Head(hand[w]) = hand[w][1] /\ Head(hand[w]) \in Pairs
      /\ Tail(hand[w]) \in Seq(Pairs) /\ Len(Tail(hand[w])) = Len(hand[w]) - 1
      /\ \A i \in 1..Len(Tail(hand[w])) : Tail(hand[w])[i] = hand[w][i + 1]
  BY <1>1, EmptySeq, HeadTailProperties
<1>3. \A i \in 1..Len(Tail(hand[w])) : i + 1 \in 1..Len(hand[w]) /\ hand[w][i + 1] # hand[w][1]
  BY <1>2 DEF TickAgrees, HandIsCurrent
<1>4. status[hand[w][1]] \in {"pending", "none"}
  BY <1>2 DEF TickAgrees, HandIsCurrent
<1>5. \A v \in Workers \ {w} : stage[v] = "idle" /\ hand[v] = <<>> /\ flight[v] = "none"
  BY DEF Delivering, TickAgrees, LockIsHeld, HandsInTick, TypeOK
<1> QED
  BY <1>2, <1>3, <1>4, <1>5, <1>1 DEF NextInHand

\* A worker that leaves its tick leaves nothing in anybody's hand.
LEMMA LeaveFacts ==
    ASSUME TypeOK, TickAgrees, NEW w \in Workers, stage[w] # "idle", LeaveTick(w)
    PROVE  /\ holder' = NoWorker
           /\ \A v \in Workers : stage'[v] = "idle" /\ hand'[v] = <<>> /\ flight'[v] = "none"
           /\ stage' \in [Workers -> {"idle", "fanout", "select", "deliver"}]
           /\ seen' \in [Workers -> SUBSET Destinations] /\ hand' \in [Workers -> Seq(Pairs)]
           /\ flight' \in [Workers -> {"none", "accepted", "unanswered", "refused"}]
<1>1. <<>> \in Seq(Pairs)
  OBVIOUS
<1>2. \A v \in Workers \ {w} : stage[v] = "idle" /\ hand[v] = <<>> /\ flight[v] = "none"
  BY DEF TickAgrees, LockIsHeld, HandsInTick, TypeOK
<1> QED
  BY <1>1, <1>2 DEF LeaveTick, TypeOK

\* What deliver_pending's SELECT puts in hand: due rows, once each, a tick's worth.
LEMMA SelectFacts ==
    ASSUME TypeOK, TickAgrees, ReadyIsPending, NEW w \in Workers, SelectDue(w)
    PROVE  /\ hand'[w] \in Seq(Pairs) /\ Len(hand'[w]) \in Nat /\ Len(hand'[w]) <= TickLimit
           /\ \A i \in 1..Len(hand'[w]) :
                  /\ hand'[w][i] \in Pairs /\ status[hand'[w][i]] = "pending"
                  /\ \A j \in 1..Len(hand'[w]) : hand'[w][i] = hand'[w][j] => i = j
           /\ \A v \in Workers \ {w} : hand'[v] = <<>>
           /\ \A v \in Workers : hand[v] = <<>> /\ flight'[v] = "none" /\ flight[v] = "none"
<1> DEFINE n == IF Len(ready) < TickLimit THEN Len(ready) ELSE TickLimit
           h == SubSeq(ready, 1, n)
<1>1. stage[w] = "select" /\ hand' = [hand EXCEPT ![w] = h] /\ UNCHANGED flight
  BY DEF SelectDue
<1>2. ready \in Seq(Pairs) /\ n \in 0..Len(ready) /\ n <= TickLimit /\ Len(ready) \in Nat
  BY LimitsAssumption DEF TypeOK
<1>3. h \in Seq(Pairs) /\ Len(h) = n /\ \A i \in 1..n : i \in 1..Len(ready) /\ h[i] = ready[i]
  <2> HIDE DEF n
  <2> QED
    BY <1>2
<1>4. \A v \in Workers : hand[v] = <<>> /\ flight[v] = "none"
  BY <1>1 DEF TickAgrees, LockIsHeld, HandsInTick, TypeOK
<1> HIDE DEF h, n
<1>5. hand'[w] = h /\ \A v \in Workers \ {w} : hand'[v] = <<>>
  BY <1>1, <1>4 DEF TypeOK
<1>6. ASSUME NEW i \in 1..n
      PROVE  /\ h[i] \in Pairs /\ status[h[i]] = "pending"
             /\ \A j \in 1..n : h[i] = h[j] => i = j
  BY <1>2, <1>3 DEF ReadyIsPending
<1> QED
  BY <1>1, <1>2, <1>3, <1>4, <1>5, <1>6

\* All of it is pending.
LEMMA SelectedArePending ==
    ASSUME TypeOK, TickAgrees, ReadyIsPending, NEW w \in Workers, SelectDue(w)
    PROVE  \A p : InHands(p)' => status[p] = "pending"
<1> SUFFICES ASSUME NEW p, NEW v \in Workers, NEW i \in 1..Len(hand'[v]), hand'[v][i] = p
             PROVE  status[p] = "pending"
  BY DEF InHands
<1>1. v = w
  <2>1. Len(<<>>) = 0
    OBVIOUS
  <2> QED
    BY <2>1, SelectFacts
<1> QED
  BY <1>1, SelectFacts

-----------------------------------------------------------------------------
(* The shape of the tables and of the ticks.                                *)

\* Every step keeps it.
LEMMA TypeStep == ASSUME IInv, [Next]_vars PROVE TypeOK'
<1> USE LimitsAssumption, LockAssumption DEF IInv, TypeOK
<1>0. Distinct(ready)
  BY DEF RowsAgree, ReadyIsPending, Distinct
<1>1. ASSUME NEW e \in Events, Enqueue(e) \/ Age(e) PROVE TypeOK'
  <2>1. CASE Enqueue(e)
    BY <2>1 DEF Enqueue, tick, purge
  <2>2. CASE Age(e)
    <3>1. old[e] \in 0..2 /\ MaxOld \in 0..2 /\ old[e] < MaxOld
      BY <2>2 DEF Age
    <3>2. old[e] + 1 \in 0..2
      BY <3>1
    <3> QED
      BY <2>2, <3>2 DEF Age, tick, purge
  <2> QED
    BY <1>1, <2>1, <2>2
<1>2. ASSUME NEW d \in Destinations, SwitchOn(d) \/ SwitchOff(d) PROVE TypeOK'
  <2>1. CASE SwitchOn(d)
    BY <2>1 DEF SwitchOn, Switch, tick, purge
  <2>2. CASE SwitchOff(d)
    BY <2>2 DEF SwitchOff, Switch, tick, purge
  <2> QED
    BY <1>2, <2>1, <2>2
<1>3. ASSUME NEW d \in Destinations, DeleteDestination(d) PROVE TypeOK'
  <2>1. ready' \in Seq(Pairs)
    BY <1>0, <1>3, WithoutDistinct DEF DeleteDestination
  <2> QED
    BY <1>3, <2>1 DEF DeleteDestination, Switch, Noticed, tick, purge
<1>4. ASSUME NEW d \in Destinations, Redrive(d) PROVE TypeOK'
  <2>1. PICK q \in SetToSeqs(DeadLetters(d)) : ready' = ready \o q
    BY <1>4 DEF Redrive
  <2>2. DeadLetters(d) \in SUBSET Pairs
    BY DEF DeadLetters, OwnedBy
  <2>3. q \in Seq(Pairs)
    BY <2>2, OrdersProperties
  <2>4. ready' \in Seq(Pairs)
    BY <2>1, <2>3
  <2> QED
    BY <1>4, <2>4, SMTT(30) DEF Redrive, Noticed, tick, purge
<1>5. ASSUME NEW w \in Workers, BeginTick(w) \/ HoldEvents(w) \/ SelectDue(w) PROVE TypeOK'
  <2>1. Enabled \in SUBSET Destinations
    BY DEF Enabled
  <2>2. SubSeq(ready, 1, IF Len(ready) < TickLimit THEN Len(ready) ELSE TickLimit) \in Seq(Pairs)
    OBVIOUS
  <2>3. CASE BeginTick(w)
    BY <2>1, <2>3 DEF BeginTick, rows, purge
  <2>4. CASE HoldEvents(w)
    BY <2>4 DEF HoldEvents, rows, purge
  <2>5. CASE SelectDue(w)
    BY <2>1, <2>2, <2>5 DEF SelectDue, rows, purge
  <2> QED
    BY <1>5, <2>3, <2>4, <2>5
<1>6. ASSUME NEW w \in Workers, FanOut(w) PROVE TypeOK'
  <2>1. PICK q \in SetToSeqs(NewRows(w)) : ready' = ready \o q
    BY <1>6 DEF FanOut
  <2>2. NewRows(w) \in SUBSET Pairs
    BY PairsAreFinite DEF NewRows
  <2>3. q \in Seq(Pairs)
    BY <2>2, OrdersProperties
  <2>4. ready' \in Seq(Pairs)
    BY <2>1, <2>3
  <2> QED
    BY <1>6, <2>4 DEF FanOut, Noticed, purge
<1>7. ASSUME NEW w \in Workers, FanOutRaises(w) \/ RecordVanished(w) \/ EndTick(w) PROVE TypeOK'
  <2>1. stage[w] # "idle"
    BY <1>7 DEF FanOutRaises, RecordVanished, EndTick, Delivering
  <2>2. LeaveTick(w)
    BY <1>7 DEF FanOutRaises, RecordVanished, EndTick
  <2> QED
    BY <1>7, <2>1, <2>2, LeaveFacts DEF FanOutRaises, RecordVanished, EndTick, rows, purge
<1>8. ASSUME NEW w \in Workers, Skip(w) PROVE TypeOK'
  <2>1. Delivering(w)
    BY <1>8 DEF Skip
  <2> QED
    BY <1>8, <2>1, HandFacts DEF Skip, rows, purge
<1>9. ASSUME NEW w \in Workers, NEW outcome \in Outcomes, Post(w, outcome) PROVE TypeOK'
  <2>1. flight' \in [Workers -> {"none", "accepted", "unanswered", "refused"}]
    BY <1>9 DEF Post, Outcomes
  <2>2. taken' \in [Pairs -> Nat]
    <3> DEFINE n == IF outcome = "accepted" THEN 1 ELSE 0
    <3>1. taken' = [taken EXCEPT ![NextInHand(w)] = @ + n] /\ n \in Nat
      BY <1>9 DEF Post
    <3>2. NextInHand(w) \in Pairs
      BY <1>9, HandFacts DEF Post
    <3> HIDE DEF n
    <3> QED
      BY <3>1, <3>2
  <2>3. late' \in [Destinations -> Nat]
    BY <1>9 DEF Post
  <2> QED
    BY <1>9, <2>1, <2>2, <2>3 DEF Post, rows, purge
<1>10. ASSUME NEW w \in Workers, RecordDelivered(w) PROVE TypeOK'
  <2>1. Delivering(w)
    BY <1>10 DEF RecordDelivered
  <2>2. ready' \in Seq(Pairs)
    BY <1>0, <1>10, WithoutDistinct DEF RecordDelivered
  <2>3. attempts[NextInHand(w)] + 1 \in 0..MaxAttempts
    BY <1>10, <2>1, HandFacts DEF RecordDelivered, RowsAgree, BudgetSpent
  <2> QED
    BY <1>10, <2>1, <2>2, <2>3, HandFacts DEF RecordDelivered, Recorded, Noticed, purge
<1>11. ASSUME NEW w \in Workers, RecordFailure(w) PROVE TypeOK'
  <2>1. Delivering(w)
    BY <1>11 DEF RecordFailure
  <2>2. ready' \in Seq(Pairs)
    BY <1>0, <1>11, WithoutDistinct DEF RecordFailure
  <2>3. attempts[NextInHand(w)] + 1 \in 0..MaxAttempts
    BY <1>11, <2>1, HandFacts DEF RecordFailure, RowsAgree, BudgetSpent
  <2> QED
    BY <1>11, <2>1, <2>2, <2>3, HandFacts DEF RecordFailure, Recorded, Noticed, purge
<1>12. ASSUME NEW w \in Workers, Crash(w) PROVE TypeOK'
  <2>1. stage[w] # "idle" /\ LeaveTick(w)
    BY <1>12 DEF Crash
  <2>2. taken' \in [Pairs -> Nat]
    <3>1. CASE flight[w] = "accepted"
      <4>1. Delivering(w)
        BY <3>1 DEF TickAgrees, HandsInTick, Delivering
      <4>2. taken[NextInHand(w)] = 1 /\ NextInHand(w) \in Pairs
        BY <3>1, <4>1, HandFacts DEF TakenIsSettled, InFlight, NextInHand
      <4> QED
        BY <1>12, <3>1, <4>2 DEF Crash
    <3>2. CASE flight[w] # "accepted"
      BY <1>12, <3>2 DEF Crash
    <3> QED
      BY <3>1, <3>2
  <2> QED
    BY <1>12, <2>1, <2>2, LeaveFacts DEF Crash, rows, purge
<1>13. ASSUME NEW p \in Pairs, BecomeDue(p) PROVE TypeOK'
  BY <1>13 DEF BecomeDue, tick, purge
<1>14. CASE BeginPurge \/ ReadPending \/ ReadDeadLetters \/ PurgeAborts
  BY <1>14 DEF BeginPurge, ReadPending, ReadDeadLetters, PurgeAborts, Live, Holding, EndPurge, rows, tick
<1>15. CASE PurgeDeletes
  <2>1. ready' \in Seq(Pairs)
    BY <1>0, <1>15, WithoutDistinct DEF PurgeDeletes
  <2> QED
    BY <1>15, <2>1 DEF PurgeDeletes, EndPurge, tick
<1>16. CASE UNCHANGED vars
  BY <1>16 DEF vars, rows, tick, purge
<1> QED
  BY <1>1, <1>2, <1>3, <1>4, <1>5, <1>6, <1>7, <1>8, <1>9, <1>10, <1>11, <1>12, <1>13, <1>14, <1>15, <1>16
     DEF Next, Operator, Tick, Purge

-----------------------------------------------------------------------------
(* The lock and the rows in hand.                                           *)

\* A change elsewhere leaves a tick what it was, if no row in hand gets an answer.
LEMMA TickStands ==
    ASSUME TypeOK, TickAgrees, UNCHANGED tick,
           \A p \in Pairs : status[p] \in {"pending", "none"} => status'[p] \in {"pending", "none"}
    PROVE  TickAgrees'
<1>1. UNCHANGED <<holder, stage, seen, hand, flight>>
  BY DEF tick
<1>2. LockIsHeld' /\ HandsInTick'
  BY <1>1 DEF TickAgrees, LockIsHeld, HandsInTick
<1>3. \A w \in Workers : \A i \in 1..Len(hand[w]) : hand[w][i] \in Pairs
  BY DEF TypeOK
<1>4. HandIsCurrent'
  BY <1>1, <1>3 DEF TickAgrees, HandIsCurrent
<1> QED
  BY <1>2, <1>4 DEF TickAgrees

\* Nor does the end of the tick.
LEMMA TickLeft ==
    ASSUME TypeOK, TickAgrees, NEW w \in Workers, stage[w] # "idle", LeaveTick(w)
    PROVE  TickAgrees'
<1>1. \A v \in Workers : stage'[v] = "idle" /\ hand'[v] = <<>> /\ flight'[v] = "none"
  BY LeaveFacts
<1>2. holder' = NoWorker
  BY LeaveFacts
<1>3. LockIsHeld'
  BY <1>1, <1>2, LockAssumption DEF LockIsHeld
<1>4. HandsInTick'
  BY <1>1, LimitsAssumption DEF HandsInTick
<1>5. HandIsCurrent'
  BY <1>1 DEF HandIsCurrent
<1> QED
  BY <1>3, <1>4, <1>5 DEF TickAgrees

\* Nor that its first row is dealt with.
LEMMA TickGoesOn ==
    ASSUME TypeOK, TickAgrees, NEW w \in Workers, Delivering(w), UNCHANGED <<holder, stage, seen>>,
           hand' = [hand EXCEPT ![w] = Tail(@)], flight' \in [Workers -> {"none"}],
           \A p \in Pairs \ {NextInHand(w)} : status'[p] = status[p]
    PROVE  TickAgrees'
<1>1. hand'[w] = Tail(hand[w]) /\ \A v \in Workers \ {w} : hand'[v] = <<>>
  BY HandFacts DEF TypeOK
<1>2. LockIsHeld'
  BY DEF TickAgrees, LockIsHeld
<1>3. HandsInTick'
  BY <1>1, HandFacts, LimitsAssumption DEF TickAgrees, HandsInTick, Delivering
<1>4. ASSUME NEW i \in 1..Len(Tail(hand[w]))
      PROVE  /\ status'[Tail(hand[w])[i]] \in {"pending", "none"}
             /\ \A j \in 1..Len(Tail(hand[w])) : Tail(hand[w])[i] = Tail(hand[w])[j] => i = j
  <2>1. /\ i + 1 \in 1..Len(hand[w]) /\ Tail(hand[w])[i] = hand[w][i + 1]
        /\ Tail(hand[w])[i] # NextInHand(w) /\ hand[w][i + 1] \in Pairs
    BY HandFacts
  <2>2. status'[Tail(hand[w])[i]] \in {"pending", "none"}
    BY <2>1 DEF TickAgrees, HandIsCurrent
  <2>3. ASSUME NEW j \in 1..Len(Tail(hand[w])), Tail(hand[w])[i] = Tail(hand[w])[j] PROVE i = j
    <3>1. j + 1 \in 1..Len(hand[w]) /\ hand[w][i + 1] = hand[w][j + 1]
      BY <2>1, <2>3, HandFacts
    <3>2. i + 1 = j + 1
      BY <2>1, <3>1 DEF TickAgrees, HandIsCurrent
    <3> QED
      BY <3>2
  <2> QED
    BY <2>2, <2>3
<1>5. HandIsCurrent'
  <2> SUFFICES ASSUME NEW v \in Workers, NEW i \in 1..Len(hand'[v])
               PROVE  /\ status'[hand'[v][i]] \in {"pending", "none"}
                      /\ \A j \in 1..Len(hand'[v]) : hand'[v][i] = hand'[v][j] => i = j
    BY DEF HandIsCurrent
  <2> DEFINE rest == Tail(hand[w])
  <2>1. hand'[v] = rest
    BY <1>1
  <2>2. \A a \in 1..Len(rest) : /\ status'[rest[a]] \in {"pending", "none"}
                                /\ \A j \in 1..Len(rest) : rest[a] = rest[j] => a = j
    BY <1>4
  <2> HIDE DEF rest
  <2>3. i \in 1..Len(rest)
    BY <2>1
  <2>4. status'[hand'[v][i]] \in {"pending", "none"}
    BY <2>1, <2>2, <2>3
  <2>5. ASSUME NEW j \in 1..Len(hand'[v]), hand'[v][i] = hand'[v][j] PROVE i = j
    <3>1. j \in 1..Len(rest) /\ rest[i] = rest[j]
      BY <2>1, <2>5
    <3> QED
      BY <2>2, <2>3, <3>1, Zenon
  <2> QED
    BY <2>4, <2>5
<1> QED
  BY <1>2, <1>3, <1>5 DEF TickAgrees

\* Every step keeps one holder and a current hand.
LEMMA TickStep == ASSUME IInv, [Next]_vars PROVE TickAgrees'
<1> USE DEF IInv
<1>1. ASSUME NEW e \in Events, Enqueue(e) \/ Age(e) PROVE TickAgrees'
  BY <1>1, TickStands DEF Enqueue, Age
<1>2. ASSUME NEW d \in Destinations, Operator(d) PROVE TickAgrees'
  <2>1. UNCHANGED tick
    BY <1>2 DEF Operator, SwitchOn, SwitchOff, DeleteDestination, Redrive
  <2>2. \A p \in Pairs : status[p] \in {"pending", "none"} => status'[p] \in {"pending", "none"}
    BY <1>2 DEF Operator, SwitchOn, SwitchOff, DeleteDestination, Redrive, DeadLetters, TypeOK
  <2> QED
    BY <2>1, <2>2, TickStands
<1>3. ASSUME NEW w \in Workers, BeginTick(w) PROVE TickAgrees'
  <2>1. /\ holder' = w /\ stage' = [stage EXCEPT ![w] = "fanout"] /\ holder = NoWorker
        /\ UNCHANGED <<hand, flight, status>>
    BY <1>3 DEF BeginTick, LockFree, rows
  <2>2. \A v \in Workers : stage[v] = "idle" /\ hand[v] = <<>> /\ flight[v] = "none"
    BY <2>1, LockAssumption DEF TickAgrees, LockIsHeld, HandsInTick, TypeOK
  <2>3. LockIsHeld'
    BY <2>1, <2>2 DEF LockIsHeld, TypeOK
  <2>4. HandsInTick'
    BY <2>1, <2>2, LimitsAssumption DEF HandsInTick
  <2>5. HandIsCurrent'
    BY <2>1, <2>2 DEF HandIsCurrent
  <2> QED
    BY <2>3, <2>4, <2>5 DEF TickAgrees
<1>4. ASSUME NEW w \in Workers, HoldEvents(w) \/ FanOut(w) PROVE TickAgrees'
  <2>1. stage[w] = "fanout" /\ stage' = [stage EXCEPT ![w] = "select"] /\ UNCHANGED <<holder, seen, hand, flight>>
    BY <1>4 DEF HoldEvents, FanOut
  <2>2. \A v \in Workers : hand[v] = <<>> /\ flight[v] = "none"
    BY <2>1 DEF TickAgrees, LockIsHeld, HandsInTick, TypeOK
  <2>3. LockIsHeld'
    BY <2>1 DEF TickAgrees, LockIsHeld, TypeOK
  <2>4. HandsInTick'
    BY <2>1, <2>2, LimitsAssumption DEF HandsInTick
  <2>5. HandIsCurrent'
    BY <2>1, <2>2 DEF HandIsCurrent
  <2> QED
    BY <2>3, <2>4, <2>5 DEF TickAgrees
<1>5. ASSUME NEW w \in Workers, FanOutRaises(w) \/ RecordVanished(w) \/ EndTick(w) \/ Crash(w) PROVE TickAgrees'
  BY <1>5, TickLeft DEF FanOutRaises, RecordVanished, EndTick, Crash, Delivering
<1>6. ASSUME NEW w \in Workers, SelectDue(w) PROVE TickAgrees'
  <2>1. stage[w] = "select" /\ stage' = [stage EXCEPT ![w] = "deliver"] /\ UNCHANGED <<holder, status>>
    BY <1>6 DEF SelectDue, rows
  <2>2. LockIsHeld'
    BY <2>1 DEF TickAgrees, LockIsHeld, TypeOK
  <2>3. HandsInTick'
    <3>1. Len(<<>>) = 0
      OBVIOUS
    <3> QED
      BY <1>6, <2>1, <3>1, SelectFacts, LimitsAssumption DEF HandsInTick, RowsAgree, TypeOK
  <2>4. HandIsCurrent'
    <3> SUFFICES ASSUME NEW v \in Workers, NEW i \in 1..Len(hand'[v])
                 PROVE  /\ status'[hand'[v][i]] \in {"pending", "none"}
                        /\ \A j \in 1..Len(hand'[v]) : hand'[v][i] = hand'[v][j] => i = j
      BY DEF HandIsCurrent
    <3>1. v = w
      <4>1. Len(<<>>) = 0
        OBVIOUS
      <4> QED
        BY <1>6, <4>1, SelectFacts DEF RowsAgree
    <3> QED
      BY <1>6, <2>1, <3>1, SelectFacts DEF RowsAgree
  <2> QED
    BY <2>2, <2>3, <2>4 DEF TickAgrees
<1>7. ASSUME NEW w \in Workers, Skip(w) PROVE TickAgrees'
  <2>1. Delivering(w) /\ UNCHANGED <<holder, stage, seen, flight, status>> /\ hand' = [hand EXCEPT ![w] = Tail(@)]
    BY <1>7 DEF Skip, rows
  <2>2. flight[w] = "none"
    BY <1>7 DEF Skip, NextInHand, TickAgrees, HandsInTick
  <2>3. flight' \in [Workers -> {"none"}]
    BY <2>1, <2>2, HandFacts DEF TypeOK
  <2> QED
    BY <2>1, <2>3, TickGoesOn
<1>8. ASSUME NEW w \in Workers, NEW outcome \in Outcomes, Post(w, outcome) PROVE TickAgrees'
  <2>1. /\ Delivering(w) /\ NextInHand(w)[2] \in seen[w] /\ flight' = [flight EXCEPT ![w] = outcome]
        /\ UNCHANGED <<holder, stage, seen, hand, status>>
    BY <1>8 DEF Post, rows
  <2>2. LockIsHeld'
    BY <2>1 DEF TickAgrees, LockIsHeld
  <2>3. HandsInTick'
    BY <2>1 DEF TickAgrees, HandsInTick, TypeOK, Delivering, NextInHand
  <2>4. HandIsCurrent'
    BY <2>1 DEF TickAgrees, HandIsCurrent
  <2> QED
    BY <2>2, <2>3, <2>4 DEF TickAgrees
<1>9. ASSUME NEW w \in Workers, RecordDelivered(w) \/ RecordFailure(w) PROVE TickAgrees'
  <2>1. /\ Delivering(w) /\ UNCHANGED <<holder, stage, seen>> /\ hand' = [hand EXCEPT ![w] = Tail(@)]
        /\ flight' = [flight EXCEPT ![w] = "none"]
        /\ \A p \in Pairs \ {NextInHand(w)} : status'[p] = status[p]
    BY <1>9 DEF RecordDelivered, RecordFailure, Recorded, TypeOK
  <2>2. flight' \in [Workers -> {"none"}]
    BY <2>1, HandFacts DEF TypeOK
  <2> QED
    BY <2>1, <2>2, TickGoesOn
<1>10. ASSUME NEW p \in Pairs, BecomeDue(p) PROVE TickAgrees'
  BY <1>10, TickStands DEF BecomeDue
<1>11. CASE Purge
  <2>1. UNCHANGED tick
    BY <1>11 DEF Purge, BeginPurge, ReadPending, ReadDeadLetters, PurgeAborts, PurgeDeletes
  <2>2. \A p \in Pairs : status[p] \in {"pending", "none"} => status'[p] \in {"pending", "none"}
    BY <1>11 DEF Purge, BeginPurge, ReadPending, ReadDeadLetters, PurgeAborts, PurgeDeletes, rows
  <2> QED
    BY <2>1, <2>2, TickStands
<1>12. CASE UNCHANGED vars
  BY <1>12, TickStands DEF vars, rows
<1> QED
  BY <1>1, <1>2, <1>3, <1>4, <1>5, <1>6, <1>7, <1>8, <1>9, <1>10, <1>11, <1>12 DEF Next, Tick

-----------------------------------------------------------------------------
(* The delivery rows.                                                       *)

\* Rows that were not pending become pending and due together.
LEMMA ReadyGrows ==
    ASSUME TypeOK, ReadyIsPending, NEW S \in SUBSET Pairs, \A p \in S : status[p] # "pending",
           NEW q \in SetToSeqs(S), ready' = ready \o q,
           status' = [p \in Pairs |-> IF p \in S THEN "pending" ELSE status[p]]
    PROVE  ReadyIsPending'
<1>1. q \in Seq(Pairs) /\ Distinct(q) /\ \A j \in 1..Len(q) : q[j] \in S
  BY OrdersProperties
<1>2. ready \in Seq(Pairs) /\ Distinct(ready) /\ \A i \in 1..Len(ready) : ready[i] \in Pairs /\ status[ready[i]] = "pending"
  BY DEF TypeOK, ReadyIsPending, Distinct
<1>3. \A i \in 1..Len(ready), j \in 1..Len(q) : ready[i] # q[j]
  BY <1>1, <1>2
<1>4. /\ ready' \in Seq(Pairs) /\ Distinct(ready')
      /\ \A k \in 1..Len(ready') : (\E i \in 1..Len(ready) : ready'[k] = ready[i]) \/ (\E j \in 1..Len(q) : ready'[k] = q[j])
  BY <1>1, <1>2, <1>3, ConcatProps
<1>5. ASSUME NEW k \in 1..Len(ready') PROVE status'[ready'[k]] = "pending"
  BY <1>1, <1>2, <1>4
<1> QED
  BY <1>4, <1>5 DEF ReadyIsPending, Distinct

\* Rows whose status changes leave what is due.
LEMMA ReadyShrinks ==
    ASSUME TypeOK, ReadyIsPending, NEW P, ready' = Without(ready, P),
           \A p \in Pairs : p \notin P => status'[p] = status[p]
    PROVE  ReadyIsPending'
<1>1. ready \in Seq(Pairs) /\ Distinct(ready) /\ \A i \in 1..Len(ready) : ready[i] \in Pairs /\ status[ready[i]] = "pending"
  BY DEF TypeOK, ReadyIsPending, Distinct
<1>2. /\ Distinct(ready')
      /\ \A i \in 1..Len(ready') : \E k \in 1..Len(ready) : ready'[i] = ready[k] /\ ready[k] \notin P
  BY <1>1, WithoutDistinct
<1>3. ASSUME NEW i \in 1..Len(ready') PROVE status'[ready'[i]] = "pending"
  BY <1>1, <1>2
<1> QED
  BY <1>2, <1>3 DEF ReadyIsPending, Distinct

\* Every step keeps what is due pending.
LEMMA ReadyStep == ASSUME IInv, [Next]_vars PROVE ReadyIsPending'
<1> USE DEF IInv, RowsAgree
<1>1. ASSUME UNCHANGED <<ready, status>> PROVE ReadyIsPending'
  BY <1>1 DEF ReadyIsPending
<1>2. ASSUME NEW d \in Destinations, Operator(d) PROVE ReadyIsPending'
  <2>1. CASE SwitchOn(d) \/ SwitchOff(d)
    BY <1>1, <2>1 DEF SwitchOn, SwitchOff
  <2>2. CASE DeleteDestination(d)
    <3>1. \A p \in Pairs : p \notin OwnedBy(d) => status'[p] = status[p]
      BY <2>2 DEF DeleteDestination, OwnedBy
    <3> QED
      BY <2>2, <3>1, ReadyShrinks DEF DeleteDestination
  <2>3. CASE Redrive(d)
    <3>1. DeadLetters(d) \in SUBSET Pairs /\ \A p \in DeadLetters(d) : status[p] # "pending"
      BY DEF DeadLetters, OwnedBy
    <3> QED
      BY <2>3, <3>1, ReadyGrows DEF Redrive
  <2> QED
    BY <1>2, <2>1, <2>2, <2>3 DEF Operator
<1>3. ASSUME NEW w \in Workers, FanOut(w) PROVE ReadyIsPending'
  <2>1. NewRows(w) \in SUBSET Pairs
    BY PairsAreFinite DEF NewRows
  <2>2. \A p \in NewRows(w) : status[p] # "pending"
    BY <2>1 DEF NewRows, Oldest, Held, UnfannedIsFresh
  <2> QED
    BY <1>3, <2>1, <2>2, ReadyGrows DEF FanOut
<1>4. ASSUME NEW w \in Workers, RecordDelivered(w) \/ RecordFailure(w) PROVE ReadyIsPending'
  <2>1. ready' = Without(ready, {NextInHand(w)})
    BY <1>4 DEF RecordDelivered, RecordFailure
  <2>2. \A p \in Pairs : p \notin {NextInHand(w)} => status'[p] = status[p]
    BY <1>4 DEF RecordDelivered, RecordFailure, TypeOK
  <2> QED
    BY <2>1, <2>2, ReadyShrinks
<1>5. ASSUME NEW p \in Pairs, BecomeDue(p) PROVE ReadyIsPending'
  <2>1. ready \in Seq(Pairs) /\ ready' = Append(ready, p) /\ UNCHANGED status /\ status[p] = "pending"
    BY <1>5 DEF BecomeDue, TypeOK
  <2>2. \A i \in 1..Len(ready) : ready[i] # p
    BY <1>5 DEF BecomeDue, Contains
  <2>3. Len(ready') = Len(ready) + 1 /\ Len(ready) \in Nat /\ ready'[Len(ready')] = p
        /\ \A i \in 1..Len(ready) : ready'[i] = ready[i]
    BY <2>1
  <2> QED
    BY <2>1, <2>2, <2>3 DEF ReadyIsPending
<1>6. CASE PurgeDeletes
  <2> DEFINE gone == (candidates \ kept) \X Destinations
  <2>1. ready' = Without(ready, gone)
    BY <1>6 DEF PurgeDeletes
  <2>2. \A p \in Pairs : p \notin gone => status'[p] = status[p]
    BY <1>6, PairsAreFinite DEF PurgeDeletes
  <2> HIDE DEF gone
  <2> QED
    BY <2>1, <2>2, ReadyShrinks
<1>7. ASSUME NEW e \in Events, Enqueue(e) \/ Age(e) PROVE ReadyIsPending'
  BY <1>1, <1>7 DEF Enqueue, Age
<1>8. CASE BeginPurge \/ ReadPending \/ ReadDeadLetters \/ PurgeAborts
  BY <1>1, <1>8 DEF BeginPurge, ReadPending, ReadDeadLetters, PurgeAborts, rows
<1>9. ASSUME NEW w \in Workers, Crash(w) PROVE ReadyIsPending'
  BY <1>1, <1>9 DEF Crash, rows
<1>10. ASSUME NEW w \in Workers, Tick(w), ~FanOut(w), ~RecordDelivered(w), ~RecordFailure(w) PROVE ReadyIsPending'
  <2>1. UNCHANGED <<ready, status>>
    BY <1>10 DEF Tick, BeginTick, HoldEvents, FanOutRaises, SelectDue, Skip, Post, RecordVanished, EndTick, rows
  <2> QED
    BY <1>1, <2>1
<1>11. CASE UNCHANGED vars
  BY <1>1, <1>11 DEF vars, rows
<1> QED
  BY <1>2, <1>3, <1>4, <1>5, <1>6, <1>7, <1>8, <1>9, <1>10, <1>11 DEF Next, Purge

\* What each worker has on the wire and in hand.
LEMMA FlightFacts ==
    ASSUME TypeOK, TickAgrees, NEW w \in Workers, Delivering(w)
    PROVE  \A p : /\ InFlight(p) <=> flight[w] = "accepted" /\ NextInHand(w) = p
                  /\ InHands(p) <=> \E i \in 1..Len(hand[w]) : hand[w][i] = p
<1>1. \A v \in Workers \ {w} : hand[v] = <<>> /\ flight[v] = "none"
  BY HandFacts
<1>2. \A v \in Workers \ {w} : Len(hand[v]) = 0
  BY <1>1
<1>3. ASSUME NEW p PROVE InFlight(p) <=> flight[w] = "accepted" /\ NextInHand(w) = p
  BY <1>1 DEF InFlight, NextInHand
<1>4. ASSUME NEW p PROVE InHands(p) <=> \E i \in 1..Len(hand[w]) : hand[w][i] = p
  BY <1>2 DEF InHands
<1> QED
  BY <1>3, <1>4

\* A worker that deals with its first row has that row in hand no longer.
LEMMA FlightGoesOn ==
    ASSUME TypeOK, TickAgrees, NEW w \in Workers, Delivering(w), hand' = [hand EXCEPT ![w] = Tail(@)],
           flight' \in [Workers -> {"none"}]
    PROVE  \A p \in Pairs : ~InFlight(p)' /\ (InHands(p)' => InHands(p) /\ p # NextInHand(w))
<1>1. hand'[w] = Tail(hand[w]) /\ \A v \in Workers \ {w} : hand'[v] = <<>>
  BY HandFacts, SMTT(30) DEF TypeOK
<1>2. \A p \in Pairs : ~InFlight(p)'
  BY DEF InFlight
<1>3. ASSUME NEW p \in Pairs, InHands(p)' PROVE InHands(p) /\ p # NextInHand(w)
  <2>0. PICK v \in Workers : \E i \in 1..Len(hand'[v]) : hand'[v][i] = p
    BY <1>3 DEF InHands
  <2>1. PICK i \in 1..Len(Tail(hand[w])) : Tail(hand[w])[i] = p
    <3>1. v = w
      BY <1>1, <2>0
    <3> QED
      BY <1>1, <2>0, <3>1
  <2>2. i + 1 \in 1..Len(hand[w]) /\ hand[w][i + 1] = p /\ p # NextInHand(w)
    BY <2>1, HandFacts
  <2> QED
    BY <2>2 DEF InHands
<1> QED
  BY <1>2, <1>3

\* Nor is anything in hand after a tick.
LEMMA FlightLeft ==
    ASSUME TypeOK, TickAgrees, NEW w \in Workers, stage[w] # "idle", LeaveTick(w)
    PROVE  \A p : ~InHands(p)' /\ ~InFlight(p)'
<1>1. \A v \in Workers : hand'[v] = <<>> /\ flight'[v] = "none" /\ Len(hand'[v]) = 0
  BY LeaveFacts
<1> QED
  BY <1>1 DEF InHands, InFlight

\* Every step leaves the events before their fan-out without deliveries.
LEMMA FreshStep == ASSUME IInv, [Next]_vars PROVE UnfannedIsFresh'
<1> USE DEF IInv, RowsAgree
<1> DEFINE Unfanned(e) == event[e] \in {"absent", "held"}
           Fresh(p) == status[p] = "none" /\ attempts[p] = 0 /\ taken[p] = 0 /\ ~InHands(p)
<1>0. \A p \in Pairs : Unfanned(p[1]) => Fresh(p)
  BY DEF UnfannedIsFresh
<1>a. ASSUME \A p \in Pairs : (Unfanned(p[1]))' => Unfanned(p[1]),
             \A p \in Pairs : (Unfanned(p[1]))' /\ Fresh(p) => Fresh(p)'
      PROVE  UnfannedIsFresh'
  BY <1>0, <1>a DEF UnfannedIsFresh
<1>b. ASSUME UNCHANGED <<event, status, attempts, taken, hand>> PROVE UnfannedIsFresh'
  BY <1>b DEF UnfannedIsFresh, InHands
<1>1. ASSUME NEW e \in Events, Enqueue(e) \/ Age(e) PROVE UnfannedIsFresh'
  <2>1. \A p \in Pairs : (Unfanned(p[1]))' => Unfanned(p[1])
    BY <1>1, PairsAreFinite DEF Enqueue, Age, TypeOK
  <2>2. UNCHANGED <<status, attempts, taken, hand>>
    BY <1>1 DEF Enqueue, Age, tick
  <2> QED
    BY <1>a, <2>1, <2>2 DEF InHands
<1>2. ASSUME NEW d \in Destinations, Operator(d) PROVE UnfannedIsFresh'
  <2>1. CASE SwitchOn(d) \/ SwitchOff(d)
    BY <1>b, <2>1 DEF SwitchOn, SwitchOff, tick
  <2>2. CASE DeleteDestination(d)
    <3>1. UNCHANGED <<event, attempts, taken, hand>> /\ \A p \in Pairs : status'[p] \in {"none", status[p]}
      BY <2>2 DEF DeleteDestination, tick
    <3> QED
      BY <1>a, <3>1 DEF InHands
  <2>3. CASE Redrive(d)
    <3>1. UNCHANGED <<event, taken, hand>>
      BY <2>3 DEF Redrive, tick
    <3>2. \A p \in Pairs : status[p] = "none" => status'[p] = status[p] /\ attempts'[p] = attempts[p]
      BY <2>3 DEF Redrive, DeadLetters
    <3> QED
      BY <1>a, <3>1, <3>2 DEF InHands
  <2> QED
    BY <1>2, <2>1, <2>2, <2>3 DEF Operator
<1>3. ASSUME NEW w \in Workers, FanOut(w) PROVE UnfannedIsFresh'
  <2>1. UNCHANGED <<attempts, taken, hand>> /\ event' = [e \in Events |-> IF e \in Oldest(Held, TickLimit) THEN "fanned" ELSE event[e]]
    BY <1>3 DEF FanOut
  <2>2. \A p \in Pairs : (Unfanned(p[1]))' => Unfanned(p[1]) /\ p[1] \notin Oldest(Held, TickLimit)
    BY <2>1, PairsAreFinite
  <2>3. \A p \in Pairs : p[1] \notin Oldest(Held, TickLimit) => status'[p] = status[p]
    BY <1>3 DEF FanOut, NewRows
  <2> QED
    BY <1>a, <2>1, <2>2, <2>3 DEF InHands
<1>4. ASSUME NEW w \in Workers, SelectDue(w) PROVE UnfannedIsFresh'
  <2>1. UNCHANGED <<event, status, attempts, taken>>
    BY <1>4 DEF SelectDue, rows
  <2>2. \A p \in Pairs : InHands(p)' => status[p] # "none"
    BY <1>4, SelectedArePending
  <2> QED
    BY <1>a, <2>1, <2>2
<1>5. ASSUME NEW w \in Workers, Skip(w) PROVE UnfannedIsFresh'
  <2>1. Delivering(w) /\ hand' = [hand EXCEPT ![w] = Tail(@)] /\ UNCHANGED <<event, status, attempts, taken, flight>>
    BY <1>5 DEF Skip, rows
  <2>a. flight[w] = "none"
    BY <1>5 DEF Skip, NextInHand, TickAgrees, HandsInTick
  <2>2. flight' \in [Workers -> {"none"}]
    BY <2>1, <2>a, HandFacts DEF TypeOK
  <2> QED
    BY <1>a, <2>1, <2>2, FlightGoesOn
<1>6. ASSUME NEW w \in Workers, NEW outcome \in Outcomes, Post(w, outcome) PROVE UnfannedIsFresh'
  <2>1. Delivering(w) /\ UNCHANGED <<event, status, attempts, hand>> /\ \A p \in Pairs \ {NextInHand(w)} : taken'[p] = taken[p]
    BY <1>6 DEF Post, rows, TypeOK
  <2>2. InHands(NextInHand(w))
    BY <2>1, FlightFacts, HandFacts
  <2> QED
    BY <1>a, <2>1, <2>2 DEF InHands
<1>7. ASSUME NEW w \in Workers, RecordDelivered(w) \/ RecordFailure(w) PROVE UnfannedIsFresh'
  <2>1. Delivering(w) /\ hand' = [hand EXCEPT ![w] = Tail(@)] /\ flight' = [flight EXCEPT ![w] = "none"] /\ UNCHANGED <<event, taken>>
    BY <1>7 DEF RecordDelivered, RecordFailure, Recorded
  <2>2. flight' \in [Workers -> {"none"}]
    BY <2>1, HandFacts DEF TypeOK
  <2>3. status[NextInHand(w)] # "none" /\ \A p \in Pairs \ {NextInHand(w)} : status'[p] = status[p] /\ attempts'[p] = attempts[p]
    BY <1>7 DEF RecordDelivered, RecordFailure, TypeOK
  <2> QED
    BY <1>a, <2>1, <2>2, <2>3, FlightGoesOn
<1>8. ASSUME NEW w \in Workers, FanOutRaises(w) \/ RecordVanished(w) \/ EndTick(w) PROVE UnfannedIsFresh'
  <2>1. stage[w] # "idle" /\ LeaveTick(w) /\ UNCHANGED <<event, status, attempts, taken>>
    BY <1>8 DEF FanOutRaises, RecordVanished, EndTick, Delivering, rows
  <2> QED
    BY <1>a, <2>1, FlightLeft
<1>9. ASSUME NEW w \in Workers, Crash(w) PROVE UnfannedIsFresh'
  <2>1. stage[w] # "idle" /\ LeaveTick(w) /\ UNCHANGED <<event, status, attempts>>
    BY <1>9 DEF Crash, rows
  <2>2. \A p \in Pairs : ~InHands(p) => taken'[p] = taken[p]
    <3>1. CASE flight[w] = "accepted"
      <4>1. Delivering(w)
        BY <3>1 DEF TickAgrees, HandsInTick, Delivering
      <4>2. InHands(NextInHand(w))
        BY <4>1, FlightFacts, HandFacts
      <4> QED
        BY <1>9, <4>2 DEF Crash, TypeOK
    <3>2. CASE flight[w] # "accepted"
      BY <1>9, <3>2 DEF Crash
    <3> QED
      BY <3>1, <3>2
  <2> QED
    BY <1>a, <2>1, <2>2, FlightLeft
<1>10. ASSUME NEW p \in Pairs, BecomeDue(p) PROVE UnfannedIsFresh'
  BY <1>b, <1>10 DEF BecomeDue, tick
<1>11. CASE PurgeDeletes
  <2>1. UNCHANGED <<attempts, taken, hand>> /\ \A p \in Pairs : status'[p] \in {"none", status[p]}
    BY <1>11 DEF PurgeDeletes, tick
  <2>2. \A e \in Events : event'[e] \in {"purged", event[e]}
    BY <1>11 DEF PurgeDeletes
  <2>3. \A p \in Pairs : (Unfanned(p[1]))' => Unfanned(p[1])
    BY <2>2, PairsAreFinite
  <2> QED
    BY <1>a, <2>1, <2>3 DEF InHands
<1>12. CASE BeginPurge \/ ReadPending \/ ReadDeadLetters \/ PurgeAborts
  BY <1>b, <1>12 DEF BeginPurge, ReadPending, ReadDeadLetters, PurgeAborts, rows, tick
<1>13. ASSUME NEW w \in Workers, BeginTick(w) \/ HoldEvents(w) PROVE UnfannedIsFresh'
  BY <1>b, <1>13 DEF BeginTick, HoldEvents, rows
<1>14. CASE UNCHANGED vars
  BY <1>b, <1>14 DEF vars, rows, tick
<1> QED
  BY <1>1, <1>2, <1>3, <1>4, <1>5, <1>6, <1>7, <1>8, <1>9, <1>10, <1>11, <1>12, <1>13, <1>14 DEF Next, Tick, Purge

\* Every step leaves a deleted destination without deliveries.
LEMMA DeletedStep == ASSUME IInv, [Next]_vars PROVE DeletedIsEmpty'
<1> USE DEF IInv, RowsAgree
<1>0. \A p \in Pairs : dest[p[2]] = "deleted" => status[p] = "none"
  BY DEF DeletedIsEmpty
<1>1. ASSUME dest' = dest, \A p \in Pairs : status[p] = "none" => status'[p] = "none" PROVE DeletedIsEmpty'
  BY <1>0, <1>1 DEF DeletedIsEmpty
<1>2. ASSUME NEW d \in Destinations, Operator(d) PROVE DeletedIsEmpty'
  <2>1. CASE SwitchOn(d) \/ SwitchOff(d)
    <3>1. UNCHANGED status /\ \A c \in Destinations : dest'[c] = "deleted" => dest[c] = "deleted"
      BY <2>1 DEF SwitchOn, SwitchOff, Switch, TypeOK
    <3> QED
      BY <1>0, <3>1, PairsAreFinite DEF DeletedIsEmpty
  <2>2. CASE DeleteDestination(d)
    <3>1. \A c \in Destinations : dest'[c] = "deleted" => c = d \/ dest[c] = "deleted"
      BY <2>2 DEF DeleteDestination, Switch, TypeOK
    <3>2. \A p \in Pairs : status'[p] = IF p[2] = d THEN "none" ELSE status[p]
      BY <2>2 DEF DeleteDestination
    <3> QED
      BY <1>0, <3>1, <3>2, PairsAreFinite DEF DeletedIsEmpty
  <2>3. CASE Redrive(d)
    BY <1>1, <2>3 DEF Redrive, DeadLetters
  <2> QED
    BY <1>2, <2>1, <2>2, <2>3 DEF Operator
<1>3. ASSUME NEW w \in Workers, FanOut(w) PROVE DeletedIsEmpty'
  <2>1. dest' = dest /\ \A p \in NewRows(w) : dest[p[2]] # "deleted"
    BY <1>3 DEF FanOut
  <2>2. \A p \in Pairs : p \notin NewRows(w) => status'[p] = status[p]
    BY <1>3 DEF FanOut
  <2> QED
    BY <1>0, <2>1, <2>2 DEF DeletedIsEmpty
<1>4. ASSUME NEW w \in Workers, RecordDelivered(w) \/ RecordFailure(w) PROVE DeletedIsEmpty'
  <2>1. dest' = dest /\ status[NextInHand(w)] # "none"
    BY <1>4 DEF RecordDelivered, RecordFailure, Recorded
  <2>2. \A p \in Pairs : p # NextInHand(w) => status'[p] = status[p]
    BY <1>4 DEF RecordDelivered, RecordFailure, TypeOK
  <2> QED
    BY <1>1, <2>1, <2>2
<1>5. ASSUME NEW w \in Workers, Tick(w) \/ Crash(w), ~FanOut(w), ~RecordDelivered(w), ~RecordFailure(w) PROVE DeletedIsEmpty'
  <2>1. UNCHANGED <<dest, status>>
    BY <1>5 DEF Tick, BeginTick, HoldEvents, FanOutRaises, SelectDue, Skip, Post, RecordVanished, EndTick, Crash, rows
  <2> QED
    BY <1>1, <2>1
<1>6. CASE PurgeDeletes
  BY <1>1, <1>6 DEF PurgeDeletes
<1>7. CASE BeginPurge \/ ReadPending \/ ReadDeadLetters \/ PurgeAborts
  BY <1>1, <1>7 DEF BeginPurge, ReadPending, ReadDeadLetters, PurgeAborts, rows
<1>8. ASSUME NEW e \in Events, Enqueue(e) \/ Age(e) PROVE DeletedIsEmpty'
  BY <1>1, <1>8 DEF Enqueue, Age
<1>9. ASSUME NEW p \in Pairs, BecomeDue(p) PROVE DeletedIsEmpty'
  BY <1>1, <1>9 DEF BecomeDue
<1>10. CASE UNCHANGED vars
  BY <1>1, <1>10 DEF vars, rows
<1> QED
  BY <1>2, <1>3, <1>4, <1>5, <1>6, <1>7, <1>8, <1>9, <1>10 DEF Next, Purge

\* Every step keeps the attempts of a delivery in step with its status.
LEMMA BudgetStep == ASSUME IInv, [Next]_vars PROVE BudgetSpent'
<1> USE LimitsAssumption DEF IInv, RowsAgree
<1> DEFINE Kept(p) == /\ status[p] = "failed" => attempts[p] = MaxAttempts
                      /\ status[p] = "pending" => attempts[p] < MaxAttempts
<1>0. \A p \in Pairs : Kept(p)
  BY DEF BudgetSpent
<1>1. ASSUME \A p \in Pairs : status'[p] = "none" \/ (status'[p] = status[p] /\ attempts'[p] = attempts[p]) PROVE BudgetSpent'
  BY <1>0, <1>1 DEF BudgetSpent
<1>2. ASSUME NEW d \in Destinations, Operator(d) PROVE BudgetSpent'
  <2>1. CASE SwitchOn(d) \/ SwitchOff(d)
    BY <1>1, <2>1 DEF SwitchOn, SwitchOff
  <2>2. CASE DeleteDestination(d)
    BY <1>1, <2>2 DEF DeleteDestination
  <2>3. CASE Redrive(d)
    <3>1. ASSUME NEW p \in Pairs PROVE (Kept(p))'
      <4>1. /\ status'[p] = IF p \in DeadLetters(d) THEN "pending" ELSE status[p]
            /\ attempts'[p] = IF p \in DeadLetters(d) THEN 0 ELSE attempts[p]
        BY <2>3 DEF Redrive
      <4> QED
        BY <1>0, <4>1
    <3> QED
      BY <3>1 DEF BudgetSpent
  <2> QED
    BY <1>2, <2>1, <2>2, <2>3 DEF Operator
<1>3. ASSUME NEW w \in Workers, FanOut(w) PROVE BudgetSpent'
  <2>1. UNCHANGED attempts /\ status' = [p \in Pairs |-> IF p \in NewRows(w) THEN "pending" ELSE status[p]]
    BY <1>3 DEF FanOut
  <2>2. \A p \in NewRows(w) : p \in Pairs /\ attempts[p] = 0
    BY PairsAreFinite DEF NewRows, Oldest, Held, UnfannedIsFresh
  <2> QED
    BY <1>0, <2>1, <2>2 DEF BudgetSpent
<1>4. ASSUME NEW w \in Workers, RecordDelivered(w) PROVE BudgetSpent'
  <2>1. NextInHand(w) \in Pairs /\ status' = [status EXCEPT ![NextInHand(w)] = "delivered"]
        /\ attempts' = [attempts EXCEPT ![NextInHand(w)] = @ + 1]
    BY <1>4, HandFacts DEF RecordDelivered
  <2> QED
    BY <1>0, <2>1 DEF BudgetSpent, TypeOK
<1>5. ASSUME NEW w \in Workers, RecordFailure(w) PROVE BudgetSpent'
  <2> DEFINE p == NextInHand(w)
             n == attempts[p] + 1
  <2>1. p \in Pairs /\ status[p] = "pending"
    BY <1>5, HandFacts DEF RecordFailure
  <2>2. n \in 0..MaxAttempts
    BY <1>0, <2>1 DEF TypeOK
  <2>3. attempts' = [attempts EXCEPT ![p] = n]
    BY <1>5 DEF RecordFailure
  <2>4. status' = [status EXCEPT ![p] = IF n >= MaxAttempts THEN "failed" ELSE status[p]]
    BY <1>5, <2>1, <2>3 DEF RecordFailure, TypeOK
  <2>5. ASSUME NEW q \in Pairs PROVE (Kept(q))'
    <3>1. CASE q = p
      <4>1. attempts'[q] = n /\ status'[q] = IF n >= MaxAttempts THEN "failed" ELSE "pending"
        BY <2>1, <2>3, <2>4, <3>1 DEF TypeOK
      <4> HIDE DEF n
      <4> QED
        BY <2>2, <4>1
    <3>2. CASE q # p
      BY <1>0, <2>3, <2>4, <3>2 DEF TypeOK
    <3> QED
      BY <3>1, <3>2
  <2> QED
    BY <2>5 DEF BudgetSpent
<1>6. ASSUME NEW w \in Workers, Tick(w) \/ Crash(w), ~FanOut(w), ~RecordDelivered(w), ~RecordFailure(w) PROVE BudgetSpent'
  <2>1. UNCHANGED <<attempts, status>>
    BY <1>6 DEF Tick, BeginTick, HoldEvents, FanOutRaises, SelectDue, Skip, Post, RecordVanished, EndTick, Crash, rows
  <2> QED
    BY <1>1, <2>1
<1>7. CASE PurgeDeletes
  BY <1>1, <1>7 DEF PurgeDeletes
<1>8. CASE BeginPurge \/ ReadPending \/ ReadDeadLetters \/ PurgeAborts
  BY <1>1, <1>8 DEF BeginPurge, ReadPending, ReadDeadLetters, PurgeAborts, rows
<1>9. ASSUME NEW e \in Events, Enqueue(e) \/ Age(e) PROVE BudgetSpent'
  BY <1>1, <1>9 DEF Enqueue, Age
<1>10. ASSUME NEW p \in Pairs, BecomeDue(p) PROVE BudgetSpent'
  BY <1>1, <1>10 DEF BecomeDue
<1>11. CASE UNCHANGED vars
  BY <1>1, <1>11 DEF vars, rows
<1> QED
  BY <1>2, <1>3, <1>4, <1>5, <1>6, <1>7, <1>8, <1>9, <1>10, <1>11 DEF Next, Purge

-----------------------------------------------------------------------------
(* What was sent.                                                           *)

\* Every step keeps a delivery that may still be sent untaken.
LEMMA TakenStep == ASSUME IInv, [Next]_vars PROVE TakenIsSettled'
<1> USE DEF IInv, RowsAgree
<1> DEFINE Open(p) == status[p] \in {"pending", "failed"} \/ InHands(p)
           Settled(p) == /\ InFlight(p) => taken[p] = 1
                         /\ ~InFlight(p) /\ Open(p) => taken[p] = 0
                         /\ taken[p] <= 1
<1>0. \A p \in Pairs : Settled(p)
  BY DEF TakenIsSettled
<1>a. ASSUME \A p \in Pairs : (Settled(p))' PROVE TakenIsSettled'
  BY <1>a DEF TakenIsSettled
<1>b. ASSUME UNCHANGED <<taken, hand, flight>>, \A p \in Pairs : status'[p] \in {"pending", "failed"} => status[p] \in {"pending", "failed"}
      PROVE TakenIsSettled'
  <2>1. ASSUME NEW p \in Pairs PROVE (Settled(p))'
    BY <1>0, <1>b DEF InFlight, InHands
  <2> QED
    BY <1>a, <2>1
<1>c. ASSUME NEW w \in Workers, stage[w] # "idle", LeaveTick(w), UNCHANGED <<status, taken>>, flight[w] # "accepted"
      PROVE TakenIsSettled'
  <2>1. \A v \in Workers : flight[v] # "accepted"
    BY <1>c DEF TickAgrees, LockIsHeld, HandsInTick, TypeOK
  <2>2. ASSUME NEW p \in Pairs PROVE (Settled(p))'
    BY <1>0, <1>c, <2>1, FlightLeft DEF InFlight
  <2> QED
    BY <1>a, <2>2
<1>1. ASSUME NEW d \in Destinations, Operator(d) PROVE TakenIsSettled'
  <2>1. UNCHANGED <<taken, hand, flight>>
    BY <1>1 DEF Operator, SwitchOn, SwitchOff, DeleteDestination, Redrive, tick
  <2>2. \A p \in Pairs : status'[p] \in {"pending", "failed"} => status[p] \in {"pending", "failed"}
    BY <1>1 DEF Operator, SwitchOn, SwitchOff, DeleteDestination, Redrive, DeadLetters
  <2> QED
    BY <1>b, <2>1, <2>2
<1>2. ASSUME NEW w \in Workers, FanOut(w) PROVE TakenIsSettled'
  <2>1. UNCHANGED <<taken, hand, flight>> /\ status' = [p \in Pairs |-> IF p \in NewRows(w) THEN "pending" ELSE status[p]]
    BY <1>2 DEF FanOut
  <2>2. \A p \in NewRows(w) : p \in Pairs /\ taken[p] = 0
    BY PairsAreFinite DEF NewRows, Oldest, Held, UnfannedIsFresh
  <2>3. ASSUME NEW p \in Pairs PROVE (Settled(p))'
    <3>1. (InFlight(p))' = InFlight(p) /\ (InHands(p))' = InHands(p)
      BY <2>1 DEF InFlight, InHands
    <3> QED
      BY <1>0, <2>1, <2>2, <3>1
  <2> QED
    BY <1>a, <2>3
<1>3. ASSUME NEW w \in Workers, SelectDue(w) PROVE TakenIsSettled'
  <2>1. UNCHANGED <<status, taken>> /\ \A v \in Workers : flight'[v] = "none" /\ flight[v] = "none"
    BY <1>3, SelectFacts DEF SelectDue, rows
  <2>2. ASSUME NEW p \in Pairs PROVE (Settled(p))'
    BY <1>0, <1>3, <2>1, SelectedArePending DEF InFlight
  <2> QED
    BY <1>a, <2>2
<1>4. ASSUME NEW w \in Workers, Skip(w) PROVE TakenIsSettled'
  <2>1. Delivering(w) /\ hand' = [hand EXCEPT ![w] = Tail(@)] /\ UNCHANGED <<status, taken, flight>>
    BY <1>4 DEF Skip, rows
  <2>a. flight[w] = "none"
    BY <1>4 DEF Skip, NextInHand, TickAgrees, HandsInTick
  <2>2. flight' \in [Workers -> {"none"}]
    BY <2>1, <2>a, HandFacts DEF TypeOK
  <2>3. \A p \in Pairs : ~InFlight(p)
    BY <2>1, <2>a, FlightFacts
  <2>4. ASSUME NEW p \in Pairs PROVE (Settled(p))'
    BY <1>0, <2>1, <2>2, <2>3, FlightGoesOn
  <2> QED
    BY <1>a, <2>4
<1>5. ASSUME NEW w \in Workers, NEW outcome \in Outcomes, Post(w, outcome) PROVE TakenIsSettled'
  <2> DEFINE n == IF outcome = "accepted" THEN 1 ELSE 0
  <2>1. Delivering(w) /\ flight[w] = "none" /\ flight' = [flight EXCEPT ![w] = outcome] /\ UNCHANGED <<status, hand>>
    BY <1>5 DEF Post, rows
  <2>2. taken' = [taken EXCEPT ![NextInHand(w)] = @ + n]
    BY <1>5 DEF Post
  <2>3. n \in Nat /\ (outcome = "accepted" => n = 1) /\ (outcome # "accepted" => n = 0)
    OBVIOUS
  <2> HIDE DEF n
  <2>4. NextInHand(w) \in Pairs /\ InHands(NextInHand(w)) /\ \A p \in Pairs : ~InFlight(p)
    BY <2>1, HandFacts, FlightFacts
  <2>5. taken'[NextInHand(w)] = n /\ \A p \in Pairs \ {NextInHand(w)} : taken'[p] = taken[p]
    BY <1>0, <2>2, <2>3, <2>4 DEF TypeOK
  <2>6. \A p \in Pairs : /\ (InFlight(p))' <=> outcome = "accepted" /\ NextInHand(w) = p
                         /\ (InHands(p))' = InHands(p)
    <3>1. flight'[w] = outcome /\ \A v \in Workers \ {w} : flight'[v] = "none"
      BY <2>1, HandFacts DEF TypeOK
    <3> QED
      BY <2>1, <3>1 DEF InFlight, InHands, NextInHand
  <2>7. ASSUME NEW p \in Pairs PROVE (Settled(p))'
    <3>1. CASE p = NextInHand(w)
      BY <2>3, <2>5, <2>6, <3>1
    <3>2. CASE p # NextInHand(w)
      BY <1>0, <2>1, <2>4, <2>5, <2>6, <3>2
    <3> QED
      BY <3>1, <3>2
  <2> QED
    BY <1>a, <2>7
<1>6. ASSUME NEW w \in Workers, RecordDelivered(w) \/ RecordFailure(w) PROVE TakenIsSettled'
  <2>1. /\ Delivering(w) /\ hand' = [hand EXCEPT ![w] = Tail(@)] /\ flight' = [flight EXCEPT ![w] = "none"]
        /\ UNCHANGED taken /\ \A p \in Pairs \ {NextInHand(w)} : status'[p] = status[p]
    BY <1>6 DEF RecordDelivered, RecordFailure, Recorded, TypeOK
  <2>2. flight' \in [Workers -> {"none"}]
    BY <2>1, HandFacts DEF TypeOK
  <2>3. NextInHand(w) \in Pairs /\ InHands(NextInHand(w))
    BY <2>1, HandFacts, FlightFacts
  <2>4. \A p \in Pairs : ~InFlight(p)' /\ (InHands(p)' => InHands(p) /\ p # NextInHand(w))
    BY <2>1, <2>2, FlightGoesOn
  <2>5. ASSUME NEW p \in Pairs PROVE (Settled(p))'
    <3>1. CASE p # NextInHand(w)
      BY <1>0, <2>1, <2>4, <3>1, FlightFacts
    <3>2. CASE p = NextInHand(w) /\ RecordDelivered(w)
      <4>1. status'[p] = "delivered"
        BY <3>2 DEF RecordDelivered, TypeOK
      <4> QED
        BY <1>0, <2>1, <2>4, <3>2, <4>1
    <3>3. CASE p = NextInHand(w) /\ RecordFailure(w)
      <4>1. ~InFlight(p)
        BY <2>1, <3>3, FlightFacts DEF RecordFailure
      <4> QED
        BY <1>0, <2>1, <2>3, <2>4, <3>3, <4>1
    <3> QED
      BY <1>6, <3>1, <3>2, <3>3
  <2> QED
    BY <1>a, <2>5
<1>7. ASSUME NEW w \in Workers, FanOutRaises(w) \/ EndTick(w) PROVE TakenIsSettled'
  <2>1. stage[w] # "idle" /\ LeaveTick(w) /\ UNCHANGED <<status, taken>>
    BY <1>7 DEF FanOutRaises, EndTick, rows
  <2>2. flight[w] # "accepted"
    BY <1>7 DEF FanOutRaises, EndTick, TickAgrees, HandsInTick
  <2> QED
    BY <1>c, <2>1, <2>2
<1>8. ASSUME NEW w \in Workers, RecordVanished(w) PROVE TakenIsSettled'
  <2>1. /\ Delivering(w) /\ stage[w] # "idle" /\ LeaveTick(w) /\ UNCHANGED <<status, taken>>
        /\ status[NextInHand(w)] = "none"
    BY <1>8 DEF RecordVanished, Delivering, rows
  <2>2. ASSUME NEW p \in Pairs PROVE (Settled(p))'
    BY <1>0, <2>1, FlightLeft, FlightFacts
  <2> QED
    BY <1>a, <2>2
<1>9. ASSUME NEW w \in Workers, Crash(w) PROVE TakenIsSettled'
  <2>1. stage[w] # "idle" /\ LeaveTick(w) /\ UNCHANGED status
    BY <1>9 DEF Crash, rows
  <2>2. CASE flight[w] # "accepted"
    BY <1>9, <1>c, <2>1, <2>2 DEF Crash
  <2>3. CASE flight[w] = "accepted"
    <3>1. Delivering(w)
      BY <2>3 DEF TickAgrees, HandsInTick, Delivering
    <3>2. NextInHand(w) \in Pairs /\ \A p \in Pairs : InFlight(p) <=> NextInHand(w) = p
      BY <2>3, <3>1, HandFacts, FlightFacts
    <3>3. taken'[NextInHand(w)] = 0 /\ \A p \in Pairs \ {NextInHand(w)} : taken'[p] = taken[p]
      BY <1>0, <1>9, <2>3, <3>2 DEF Crash, TypeOK
    <3>4. ASSUME NEW p \in Pairs PROVE (Settled(p))'
      BY <1>0, <2>1, <3>2, <3>3, FlightLeft
    <3> QED
      BY <1>a, <3>4
  <2> QED
    BY <2>2, <2>3
<1>10. CASE PurgeDeletes
  BY <1>b, <1>10 DEF PurgeDeletes, tick
<1>11. CASE BeginPurge \/ ReadPending \/ ReadDeadLetters \/ PurgeAborts
  BY <1>b, <1>11 DEF BeginPurge, ReadPending, ReadDeadLetters, PurgeAborts, rows, tick
<1>12. ASSUME NEW e \in Events, Enqueue(e) \/ Age(e) PROVE TakenIsSettled'
  BY <1>b, <1>12 DEF Enqueue, Age, tick
<1>13. ASSUME NEW p \in Pairs, BecomeDue(p) PROVE TakenIsSettled'
  BY <1>b, <1>13 DEF BecomeDue, tick
<1>14. ASSUME NEW w \in Workers, BeginTick(w) \/ HoldEvents(w) PROVE TakenIsSettled'
  BY <1>b, <1>14 DEF BeginTick, HoldEvents, rows
<1>15. CASE UNCHANGED vars
  BY <1>b, <1>15 DEF vars, rows, tick
<1> QED
  BY <1>1, <1>2, <1>3, <1>4, <1>5, <1>6, <1>7, <1>8, <1>9, <1>10, <1>11, <1>12, <1>13, <1>14, <1>15 DEF Next, Tick, Purge

\* Every step counts what is sent to a destination that is not on.
LEMMA LateStep == ASSUME IInv, [Next]_vars PROVE LateIsCounted'
<1> USE LimitsAssumption DEF IInv
<1> DEFINE Spare(d, w) == late[d] + Unsent(w) <= TickLimit
           Spent(d, w) == \A i \in 1..Len(hand[w]) : hand[w][i][2] = d => flight[w] # "none" /\ Head(hand[w])[2] = d
           Known(d) == dest[d] = "absent" => \A w \in Workers : d \notin seen[w]
           Off(d) == dest[d] = "off" =>
                         /\ late[d] <= TickLimit
                         /\ \A w \in Workers : stage[w] = "deliver" /\ d \in seen[w] => Spare(d, w)
           Deleted(d) == dest[d] = "deleted" =>
                             late[d] <= 1 /\ (late[d] = 1 => \A w \in Workers : Spent(d, w))
           Counted(d) == Known(d) /\ (dest[d] \in {"absent", "on"} => late[d] = 0) /\ Off(d) /\ Deleted(d)
<1>0. \A d \in Destinations : Counted(d)
  BY DEF LateIsCounted
<1>a. ASSUME \A d \in Destinations : (Counted(d))' PROVE LateIsCounted'
  BY <1>a DEF LateIsCounted
<1>b. ASSUME UNCHANGED <<late, dest, tick>> PROVE LateIsCounted'
  BY <1>b DEF LateIsCounted, Unsent, tick
<1>c. ASSUME UNCHANGED <<late, dest>>, \A w \in Workers : stage'[w] # "deliver" /\ hand'[w] = <<>>,
             \A w \in Workers : seen'[w] \subseteq seen[w] \cup Enabled
      PROVE  LateIsCounted'
  <2>1. \A w \in Workers : Len(hand'[w]) = 0
    BY <1>c
  <2>2. ASSUME NEW d \in Destinations PROVE (Counted(d))'
    <3>1. (Known(d))'
      BY <1>0, <1>c DEF Enabled
    <3> QED
      BY <1>0, <1>c, <2>1, <3>1
  <2> QED
    BY <1>a, <2>2
<1>e. \A v \in Workers : Unsent(v) \in Nat /\ Unsent(v) <= TickLimit
  <2> SUFFICES ASSUME NEW v \in Workers PROVE Unsent(v) \in Nat /\ Unsent(v) <= TickLimit
    OBVIOUS
  <2>1. hand[v] \in Seq(Pairs) /\ Len(hand[v]) \in Nat /\ Len(hand[v]) <= TickLimit /\ (flight[v] # "none" => Len(hand[v]) # 0)
    BY EmptySeq DEF TypeOK, TickAgrees, HandsInTick
  <2> QED
    BY <2>1 DEF Unsent
<1>f. ASSUME NEW w \in Workers, stage[w] # "idle", LeaveTick(w), UNCHANGED <<late, dest>> PROVE LateIsCounted'
  <2>1. \A v \in Workers : stage'[v] = "idle" /\ hand'[v] = <<>>
    BY <1>f, LeaveFacts
  <2>2. \A v \in Workers : seen'[v] \subseteq seen[v] \cup Enabled
    BY <1>f DEF LeaveTick, TypeOK
  <2> QED
    BY <1>c, <1>f, <2>1, <2>2
<1>1. ASSUME NEW d \in Destinations, NEW to \in {"on", "off", "deleted"}, Switch(d, to), UNCHANGED tick PROVE LateIsCounted'
  <2>1. dest'[d] = to /\ late'[d] = 0 /\ UNCHANGED <<stage, seen, hand, flight>>
        /\ \A c \in Destinations \ {d} : dest'[c] = dest[c] /\ late'[c] = late[c]
    BY <1>1 DEF Switch, tick, TypeOK
  <2>2. \A w \in Workers : (Unsent(w))' = Unsent(w)
    BY <2>1 DEF Unsent
  <2>3. ASSUME NEW c \in Destinations PROVE (Counted(c))'
    <3>1. CASE c = d
      BY <1>e, <2>1, <2>2, <3>1
    <3>2. CASE c # d
      BY <1>0, <2>1, <2>2, <3>2
    <3> QED
      BY <3>1, <3>2
  <2> QED
    BY <1>a, <2>3
<1>2. ASSUME NEW d \in Destinations, Operator(d) PROVE LateIsCounted'
  BY <1>b, <1>1, <1>2 DEF Operator, SwitchOn, SwitchOff, DeleteDestination, Redrive
<1>3. ASSUME NEW w \in Workers, BeginTick(w) PROVE LateIsCounted'
  <2>1. stage' = [stage EXCEPT ![w] = "fanout"] /\ seen' = [seen EXCEPT ![w] = Enabled] /\ holder = NoWorker /\ UNCHANGED <<hand, late, dest>>
    BY <1>3 DEF BeginTick, LockFree, rows
  <2>2. \A v \in Workers : stage[v] = "idle" /\ hand[v] = <<>>
    BY <2>1, LockAssumption DEF TickAgrees, LockIsHeld, HandsInTick, TypeOK
  <2> QED
    BY <1>c, <2>1, <2>2 DEF TypeOK
<1>4. ASSUME NEW w \in Workers, HoldEvents(w) \/ FanOut(w) PROVE LateIsCounted'
  <2>1. stage[w] = "fanout" /\ stage' = [stage EXCEPT ![w] = "select"] /\ UNCHANGED <<seen, hand, late, dest>>
    BY <1>4 DEF HoldEvents, FanOut, rows
  <2>2. \A v \in Workers : hand[v] = <<>> /\ stage[v] # "deliver"
    BY <2>1 DEF TickAgrees, LockIsHeld, HandsInTick, TypeOK
  <2> QED
    BY <1>c, <2>1, <2>2 DEF TypeOK
<1>5. ASSUME NEW w \in Workers, FanOutRaises(w) \/ RecordVanished(w) \/ EndTick(w) \/ Crash(w) PROVE LateIsCounted'
  <2>1. stage[w] # "idle" /\ LeaveTick(w) /\ UNCHANGED <<late, dest>>
    BY <1>5 DEF FanOutRaises, RecordVanished, EndTick, Crash, Delivering, rows
  <2> QED
    BY <1>f, <2>1
<1>6. ASSUME NEW w \in Workers, SelectDue(w) PROVE LateIsCounted'
  <2>1. /\ UNCHANGED <<late, dest, status>> /\ stage[w] = "select" /\ stage' = [stage EXCEPT ![w] = "deliver"]
        /\ seen' = [seen EXCEPT ![w] = Enabled]
    BY <1>6 DEF SelectDue, rows
  <2>2. \A v \in Workers \ {w} : stage'[v] = "idle"
    BY <2>1 DEF TickAgrees, LockIsHeld, TypeOK
  <2>3. ASSUME NEW d \in Destinations, dest[d] = "deleted", NEW v \in Workers PROVE (Spent(d, v))'
    <3>1. \A p \in Pairs : p[2] = d => status[p] # "pending"
      BY <2>3 DEF RowsAgree, DeletedIsEmpty
    <3>2. \A i \in 1..Len(hand'[v]) : hand'[v][i] \in Pairs /\ status[hand'[v][i]] = "pending"
      <4>1. Len(<<>>) = 0
        OBVIOUS
      <4> QED
        BY <1>6, <4>1, SelectFacts DEF RowsAgree
    <3> QED
      BY <3>1, <3>2
  <2>4. ASSUME NEW d \in Destinations PROVE (Counted(d))'
    <3>1. (Known(d))'
      BY <1>0, <2>1 DEF Enabled, TypeOK
    <3>2. (Off(d))'
      <4>1. dest[d] = "off" => d \notin seen'[w]
        BY <2>1 DEF Enabled, TypeOK
      <4> QED
        BY <1>0, <2>1, <2>2, <4>1
    <3>3. (Deleted(d))'
      BY <1>0, <2>1, <2>3
    <3> QED
      BY <1>0, <2>1, <3>1, <3>2, <3>3
  <2> QED
    BY <1>a, <2>4
<1>7. ASSUME NEW w \in Workers, Delivering(w), UNCHANGED <<late, dest, stage, seen>>, hand' = [hand EXCEPT ![w] = Tail(@)],
             flight' \in [Workers -> {"none"}], flight[w] # "none" => dest[NextInHand(w)[2]] # "deleted"
      PROVE  LateIsCounted'
  <2>1. hand'[w] = Tail(hand[w]) /\ Len(hand'[w]) = Len(hand[w]) - 1 /\ \A v \in Workers \ {w} : hand'[v] = hand[v] /\ flight[v] = "none"
    BY <1>7, HandFacts DEF TypeOK
  <2>2. \A v \in Workers : (Unsent(v))' \in Nat /\ (Unsent(v))' <= Unsent(v)
    <3>1. Len(hand[w]) \in Nat \ {0}
      BY <1>7, HandFacts
    <3>2. (Unsent(w))' = Len(hand[w]) - 1 /\ (Unsent(w))' <= Unsent(w)
      BY <1>7, <2>1, <3>1 DEF Unsent
    <3>3. \A v \in Workers \ {w} : (Unsent(v))' = Unsent(v)
      BY <1>7, <2>1 DEF Unsent
    <3> QED
      BY <1>e, <3>1, <3>2, <3>3
  <2>3. ASSUME NEW d \in Destinations, dest[d] = "deleted", NEW v \in Workers, Spent(d, v) PROVE (Spent(d, v))'
    <3>1. CASE v = w
      <4>1. \A i \in 1..Len(hand[w]) : hand[w][i][2] # d
        BY <1>7, <2>3, <3>1 DEF NextInHand
      <4>2. \A i \in 1..Len(hand'[w]) : i + 1 \in 1..Len(hand[w]) /\ hand'[w][i] = hand[w][i + 1]
        BY <1>7, <2>1, HandFacts
      <4> QED
        BY <3>1, <4>1, <4>2
    <3>2. CASE v # w
      <4>1. hand'[v] = <<>> /\ Len(<<>>) = 0
        BY <1>7, <2>1, <3>2, HandFacts
      <4> QED
        BY <4>1
    <3> QED
      BY <3>1, <3>2
  <2>4. ASSUME NEW d \in Destinations PROVE (Counted(d))'
    <3>1. (Off(d))'
      <4>1. late[d] \in Nat
        BY DEF TypeOK
      <4> QED
        BY <1>0, <1>7, <1>e, <2>2, <4>1
    <3>2. (Deleted(d))'
      BY <1>0, <1>7, <2>3
    <3> QED
      BY <1>0, <1>7, <3>1, <3>2
  <2> QED
    BY <1>a, <2>4
<1>8. ASSUME NEW w \in Workers, Skip(w) PROVE LateIsCounted'
  <2>1. Delivering(w) /\ hand' = [hand EXCEPT ![w] = Tail(@)] /\ UNCHANGED <<late, dest, stage, seen, flight>>
    BY <1>8 DEF Skip, rows
  <2>2. flight[w] = "none"
    BY <1>8 DEF Skip, NextInHand, TickAgrees, HandsInTick
  <2>3. flight' \in [Workers -> {"none"}]
    BY <2>1, <2>2, HandFacts DEF TypeOK
  <2> QED
    BY <1>7, <2>1, <2>2, <2>3
<1>9. ASSUME NEW w \in Workers, RecordDelivered(w) \/ RecordFailure(w) PROVE LateIsCounted'
  <2>1. Delivering(w) /\ hand' = [hand EXCEPT ![w] = Tail(@)] /\ flight' = [flight EXCEPT ![w] = "none"]
        /\ UNCHANGED <<late, dest, stage, seen>> /\ status[NextInHand(w)] # "none"
    BY <1>9 DEF RecordDelivered, RecordFailure, Recorded
  <2>2. flight' \in [Workers -> {"none"}]
    BY <2>1, HandFacts DEF TypeOK
  <2>3. dest[NextInHand(w)[2]] # "deleted"
    BY <2>1, HandFacts DEF RowsAgree, DeletedIsEmpty
  <2> QED
    BY <1>7, <2>1, <2>2, <2>3
<1>10. ASSUME NEW w \in Workers, NEW outcome \in Outcomes, Post(w, outcome) PROVE LateIsCounted'
  <2>2. NextInHand(w) \in Pairs /\ NextInHand(w) = hand[w][1] /\ Len(hand[w]) \in Nat \ {0}
        /\ \A v \in Workers \ {w} : hand[v] = <<>> /\ stage[v] = "idle"
    BY <1>10, HandFacts DEF Post
  <2>3. PICK c \in Destinations : c = NextInHand(w)[2]
    BY <2>2, PairsAreFinite
  <2> DEFINE n == IF dest[c] = "on" THEN 0 ELSE 1
  <2>1. /\ Delivering(w) /\ flight[w] = "none" /\ c \in seen[w] /\ flight' = [flight EXCEPT ![w] = outcome]
        /\ late' = [late EXCEPT ![c] = @ + n] /\ UNCHANGED <<dest, stage, seen, hand>>
    BY <1>10, <2>3 DEF Post, rows
  <2>4. late'[c] = late[c] + n /\ \A d \in Destinations \ {c} : late'[d] = late[d]
    BY <2>1, <2>3 DEF TypeOK
  <2>5. flight'[w] = outcome /\ outcome # "none" /\ \A v \in Workers \ {w} : flight'[v] = flight[v]
    BY <2>1 DEF TypeOK, Outcomes
  <2>6. Unsent(w) = Len(hand[w]) /\ (Unsent(w))' = Len(hand[w]) - 1
    BY <2>1, <2>5 DEF Unsent
  <2>7. dest[c] # "absent"
    BY <1>0, <2>1, <2>3
  <2>8. dest[c] = "deleted" => late[c] = 0
    <3> SUFFICES ASSUME dest[c] = "deleted", late[c] # 0 PROVE FALSE
      OBVIOUS
    <3>1. late[c] = 1
      <4>1. late[c] \in Nat
        BY DEF TypeOK
      <4>2. late[c] <= 1
        BY <1>0
      <4> QED
        BY <4>1, <4>2
    <3>2. Spent(c, w)
      BY <1>0, <2>3, <3>1
    <3> QED
      BY <2>1, <2>2, <2>3, <3>2
  <2>9. ASSUME NEW d \in Destinations PROVE (Counted(d))'
    <3>0. late[d] \in Nat /\ late[c] \in Nat
      BY <2>3 DEF TypeOK
    <3>1. (Off(d))'
      <4>1. CASE d = c
        <5>1. dest[c] = "off" => late[c] + Unsent(w) <= TickLimit
          BY <1>0, <2>1, <2>3 DEF Delivering
        <5> QED
          BY <2>1, <2>2, <2>4, <2>6, <3>0, <4>1, <5>1
      <4>2. CASE d # c
        <5>1. dest[d] = "off" /\ stage[w] = "deliver" /\ d \in seen[w] => late[d] + Unsent(w) <= TickLimit
          BY <1>0
        <5>2. late'[d] = late[d] /\ dest'[d] = dest[d]
          BY <2>1, <2>4, <4>2
        <5>3. dest[d] = "off" => late[d] <= TickLimit
          BY <1>0
        <5>4. dest[d] = "off" /\ stage[w] = "deliver" /\ d \in seen[w] => late[d] + (Len(hand[w]) - 1) <= TickLimit
          BY <2>2, <2>6, <3>0, <5>1
        <5> QED
          BY <2>1, <2>2, <2>6, <5>2, <5>3, <5>4
      <4> QED
        BY <4>1, <4>2
    <3>2. (Deleted(d))'
      <4>1. \A v \in Workers \ {w} : Len(hand[v]) = 0
        BY <2>2
      <4>2. CASE d = c
        <5>1. dest[c] = "deleted" => late'[c] <= 1
          BY <2>4, <2>8
        <5>2. Head(hand[w])[2] = c
          BY <2>3 DEF NextInHand
        <5>3. (Spent(c, w))'
          BY <2>1, <2>5, <5>2
        <5> QED
          BY <2>1, <4>1, <4>2, <5>1, <5>3
      <4>3. CASE d # c
        <5>1. Spent(d, w) => (Spent(d, w))'
          BY <2>1, <2>5
        <5> QED
          BY <1>0, <2>1, <2>4, <4>1, <4>3, <5>1
      <4> QED
        BY <4>2, <4>3
    <3>3. (Known(d) /\ (dest[d] \in {"absent", "on"} => late[d] = 0))'
      BY <1>0, <2>1, <2>3, <2>4, <2>7, <3>0
    <3> QED
      BY <3>1, <3>2, <3>3
  <2> QED
    BY <1>a, <2>9
<1>11. CASE Purge
  BY <1>b, <1>11 DEF Purge, BeginPurge, ReadPending, ReadDeadLetters, PurgeAborts, PurgeDeletes, rows
<1>12. ASSUME NEW e \in Events, Enqueue(e) \/ Age(e) PROVE LateIsCounted'
  BY <1>b, <1>12 DEF Enqueue, Age
<1>13. ASSUME NEW p \in Pairs, BecomeDue(p) PROVE LateIsCounted'
  BY <1>b, <1>13 DEF BecomeDue
<1>14. CASE UNCHANGED vars
  BY <1>b, <1>14 DEF vars, rows
<1> QED
  BY <1>2, <1>3, <1>4, <1>5, <1>6, <1>8, <1>9, <1>10, <1>11, <1>12, <1>13, <1>14 DEF Next, Tick

-----------------------------------------------------------------------------
(* The purge.                                                               *)

\* Every step leaves out of the purge what the purge has read.
LEMMA PurgeStep == ASSUME IInv, [Next]_vars PROVE PurgeKeeps'
<1> USE DEF IInv
<1> DEFINE Spared(p) == p[1] \in candidates \ kept =>
                            /\ purging \in {"failed", "delete"} => status[p] # "pending"
                            /\ purging = "delete" /\ status[p] = "failed" => old[p[1]] = 2
<1>0. \A p \in Pairs \ touched : Spared(p)
  BY DEF PurgeKeeps
<1>a. ASSUME UNCHANGED <<purge, touched, status, old>> PROVE PurgeKeeps'
  BY <1>a DEF PurgeKeeps, purge
<1>b. ASSUME UNCHANGED <<purge, old>>, Noticed PROVE PurgeKeeps'
  <2>1. CASE purging = "idle"
    BY <1>b, <2>1 DEF PurgeKeeps, purge
  <2>2. CASE purging # "idle"
    <3>1. \A p \in Pairs \ touched' : p \notin touched /\ status'[p] = status[p]
      BY <1>b, <2>2 DEF Noticed
    <3> QED
      BY <1>0, <1>b, <3>1 DEF PurgeKeeps, purge
  <2> QED
    BY <2>1, <2>2
<1>1. ASSUME NEW e \in Events, Enqueue(e) \/ Age(e) PROVE PurgeKeeps'
  <2>1. CASE Enqueue(e)
    BY <1>a, <2>1 DEF Enqueue
  <2>2. CASE Age(e)
    BY <2>2 DEF Age, purge, PurgeKeeps
  <2> QED
    BY <1>1, <2>1, <2>2
<1>2. ASSUME NEW d \in Destinations, Operator(d) PROVE PurgeKeeps'
  BY <1>a, <1>b, <1>2 DEF Operator, SwitchOn, SwitchOff, DeleteDestination, Redrive
<1>3. ASSUME NEW w \in Workers, FanOut(w) \/ RecordDelivered(w) \/ RecordFailure(w) PROVE PurgeKeeps'
  BY <1>b, <1>3 DEF FanOut, RecordDelivered, RecordFailure, Recorded, purge
<1>4. ASSUME NEW w \in Workers, Tick(w) \/ Crash(w), ~FanOut(w), ~RecordDelivered(w), ~RecordFailure(w) PROVE PurgeKeeps'
  <2>1. UNCHANGED <<purge, touched, status, old>>
    BY <1>4 DEF Tick, BeginTick, HoldEvents, FanOutRaises, SelectDue, Skip, Post, RecordVanished, EndTick, Crash, rows
  <2> QED
    BY <1>a, <2>1
<1>5. ASSUME NEW p \in Pairs, BecomeDue(p) PROVE PurgeKeeps'
  BY <1>a, <1>5 DEF BecomeDue
<1>6. CASE BeginPurge \/ PurgeDeletes \/ PurgeAborts
  BY <1>6 DEF BeginPurge, PurgeDeletes, PurgeAborts, EndPurge, PurgeKeeps
<1>7. CASE ReadPending
  <2>1. purging' = "failed" /\ kept' = Holding("pending") /\ UNCHANGED <<candidates, status>>
    BY <1>7 DEF ReadPending, rows
  <2>2. ASSUME NEW p \in Pairs, p[1] \in candidates \ Holding("pending") PROVE status[p] # "pending"
    BY <2>2, PairsAreFinite DEF Holding
  <2> QED
    BY <2>1, <2>2 DEF PurgeKeeps
<1>8. CASE ReadDeadLetters
  <2>1. /\ purging = "failed" /\ purging' = "delete" /\ UNCHANGED <<candidates, touched, status, old>>
        /\ kept' = kept \cup {e \in Holding("failed") : old[e] < 2}
    BY <1>8 DEF ReadDeadLetters, rows
  <2>2. ASSUME NEW p \in Pairs, p[1] \in candidates \ kept', status[p] = "failed" PROVE old[p[1]] = 2
    <3>1. p[1] \in Holding("failed")
      BY <2>2, PairsAreFinite DEF Holding
    <3>2. ~(old[p[1]] < 2) /\ old[p[1]] \in 0..2
      BY <2>1, <2>2, <3>1, PairsAreFinite DEF TypeOK
    <3> QED
      BY <3>2
  <2>3. \A p \in Pairs \ touched : p[1] \in candidates \ kept' => status[p] # "pending"
    BY <1>0, <2>1
  <2> QED
    BY <2>1, <2>2, <2>3 DEF PurgeKeeps
<1>9. CASE UNCHANGED vars
  BY <1>a, <1>9 DEF vars, rows
<1> QED
  BY <1>1, <1>2, <1>3, <1>4, <1>5, <1>6, <1>7, <1>8, <1>9 DEF Next, Purge

-----------------------------------------------------------------------------

LEMMA InitIInv == Init => IInv
<1> USE DEF Init
<1> SUFFICES ASSUME Init PROVE IInv
  OBVIOUS
<1>0. <<>> \in Seq(Pairs) /\ Len(<<>>) = 0
  OBVIOUS
<1>1. TypeOK
  BY <1>0, LimitsAssumption DEF TypeOK
<1>2. TickAgrees
  BY <1>0, LockAssumption, LimitsAssumption DEF TickAgrees, LockIsHeld, HandsInTick, HandIsCurrent
<1>3. RowsAgree
  BY <1>0, PairsAreFinite, LimitsAssumption DEF RowsAgree, ReadyIsPending, UnfannedIsFresh, DeletedIsEmpty, BudgetSpent, InHands
<1>4. TakenIsSettled
  BY <1>0 DEF TakenIsSettled, InFlight, InHands
<1>5. LateIsCounted
  BY LimitsAssumption DEF LateIsCounted
<1>6. PurgeKeeps
  BY DEF PurgeKeeps
<1> QED
  BY <1>1, <1>2, <1>3, <1>4, <1>5, <1>6 DEF IInv

\* The inductive invariant: the lock, the rows in hand, the delivery rows and what
\* was sent agree in every state.
THEOREM Inductive == Spec => []IInv
<1>1. IInv /\ [Next]_vars => IInv'
  BY TypeStep, TickStep, ReadyStep, FreshStep, DeletedStep, BudgetStep, TakenStep, LateStep, PurgeStep
     DEF IInv, RowsAgree
<1> QED
  BY <1>1, InitIInv, PTL DEF Spec

\* However two ticks, the operator and the purge interleave, a delivery is sent again
\* only when its answer was lost, a tick never overwrites an answer it did not give, a
\* delivery never outlives its budget, and a destination switched off or deleted is sent
\* a bounded number of deliveries more (deliver_pending).
THEOREM OutboxIsSound == Spec => []OutboxSound
<1>1. ASSUME IInv PROVE NoUnforcedDuplicate
  BY <1>1 DEF IInv, TakenIsSettled, NoUnforcedDuplicate
<1>2. ASSUME IInv PROVE LatePostsBounded
  <2> SUFFICES ASSUME NEW d \in Destinations
               PROVE  late[d] <= IF dest[d] = "deleted" THEN 1 ELSE TickLimit
    BY DEF LatePostsBounded
  <2>1. dest[d] \in {"absent", "on", "off", "deleted"}
    BY <1>1, <1>2 DEF IInv, TypeOK
  <2> QED
    BY <1>2, <2>1, LimitsAssumption DEF IInv, LateIsCounted
<1>3. IInv => OutboxSound
  BY <1>1, <1>2 DEF IInv, OutboxSound, TickAgrees, RowsAgree
<1> QED
  BY <1>3, Inductive, PTL

\* The purge deletes no delivery that was pending, and no dead letter inside its window,
\* all the time it worked, although it takes no lock (purge_delivered_events).
THEOREM PurgeIsSteady == Spec => SteadyRowsSurvivePurge
<1> DEFINE Steady == \A p \in Pairs \ touched : Purged(p[1]) =>
                         /\ status[p] # "pending"
                         /\ status[p] = "failed" => old[p[1]] = 2
<1>1. ASSUME IInv, [Next]_vars PROVE [Steady]_vars
  <2> SUFFICES ASSUME Next, NEW p \in Pairs \ touched, Purged(p[1])
               PROVE  status[p] # "pending" /\ (status[p] = "failed" => old[p[1]] = 2)
    BY <1>1
  <2>1. p[1] \in Events /\ event[p[1]] # "purged" /\ event'[p[1]] = "purged"
    BY PairsAreFinite DEF Purged
  <2>2. PurgeDeletes
    <3>1. ASSUME NEW e \in Events, Enqueue(e) \/ Age(e) PROVE FALSE
      BY <1>1, <2>1, <3>1 DEF Enqueue, Age, IInv, TypeOK
    <3>2. ASSUME NEW d \in Destinations, Operator(d) PROVE FALSE
      BY <2>1, <3>2 DEF Operator, SwitchOn, SwitchOff, DeleteDestination, Redrive
    <3>3. ASSUME NEW w \in Workers, Tick(w) \/ Crash(w) PROVE FALSE
      <4>1. CASE FanOut(w)
        BY <2>1, <4>1 DEF FanOut
      <4>2. CASE ~FanOut(w)
        <5>1. event' = event
          BY <3>3, <4>2 DEF Tick, BeginTick, HoldEvents, FanOutRaises, SelectDue, Skip, Post, RecordDelivered,
             RecordFailure, Recorded, RecordVanished, EndTick, Crash, rows
        <5> QED
          BY <2>1, <5>1
      <4> QED
        BY <4>1, <4>2
    <3>4. ASSUME NEW q \in Pairs, BecomeDue(q) PROVE FALSE
      BY <2>1, <3>4 DEF BecomeDue
    <3>5. Purge => PurgeDeletes
      BY <2>1 DEF Purge, BeginPurge, ReadPending, ReadDeadLetters, PurgeAborts, rows
    <3> QED
      BY <3>1, <3>2, <3>3, <3>4, <3>5 DEF Next
  <2>3. p[1] \in candidates \ kept /\ purging = "delete"
    BY <2>1, <2>2 DEF PurgeDeletes
  <2> QED
    BY <1>1, <2>3 DEF IInv, PurgeKeeps
<1>2. Spec => [][Next]_vars
  BY DEF Spec
<1>3. Spec => [][Steady]_vars
  BY <1>1, <1>2, Inductive, PTL
<1> QED
  BY <1>3 DEF SteadyRowsSurvivePurge
=============================================================================
