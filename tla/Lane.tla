------------------------------- MODULE Lane -------------------------------
(***************************************************************************)
(* How the calls to a model share the endpoint (ai/adapters): the serial      *)
(* lane of Apple's server, where a person's call goes before a summary's,     *)
(* and the two slots every exchange takes.                                   *)
(*                                                                          *)
(* One event loop: a step is the code between two awaits.  A call is serial   *)
(* or direct; a serial one is a person's or the summary worker's, and only    *)
(* the worker's waits out a pause after the lane was last released.           *)
(***************************************************************************)
EXTENDS Naturals, FiniteSets

CONSTANTS
    Interactive, Background, Direct, \* the calls; the first two are serial
    Slots                            \* MAX_CONCURRENT_CALLS

Serial == Interactive \cup Background
Calls == Serial \cup Direct

LaneAssumption ==
    /\ IsFiniteSet(Calls) /\ Slots \in Nat \ {0}
    /\ Interactive \cap Background = {} /\ Serial \cap Direct = {}

VARIABLES
    at,                  \* where a call is
    timer,               \* a sleeping call wakes by itself
    busy,                \* _SerialLane.busy
    interactive_waiters, \* _SerialLane.interactive_waiters
    resting              \* the pause since last_finished is not over

vars == <<at, timer, busy, interactive_waiters, resting>>
lane == <<busy, interactive_waiters, resting>>

Waiting == {"asleep", "awake"}
Holding == {"slot", "wire"}

TypeOK ==
    /\ at \in [Calls -> {"new", "ended", "failed"} \cup Waiting \cup Holding]
    /\ timer \in [Calls -> BOOLEAN]
    /\ busy \in BOOLEAN /\ resting \in BOOLEAN
    /\ interactive_waiters \in Nat

Init ==
    /\ at = [c \in Calls |-> "new"]
    /\ timer = [c \in Calls |-> FALSE]
    /\ busy = FALSE /\ interactive_waiters = 0 /\ resting = FALSE

\* condition.notify_all(), as one of the calls goes to a place of its own.
Notified(c, place) ==
    /\ at' = [x \in Calls |-> IF x = c THEN place ELSE IF at[x] = "asleep" THEN "awake" ELSE at[x]]
    /\ timer' = [x \in Calls |-> FALSE]
Unnotified(c, place) ==
    /\ at' = [at EXCEPT ![c] = place]
    /\ timer' = [timer EXCEPT ![c] = FALSE]

Queued(c) == IF c \in Interactive THEN 1 ELSE 0
Pause(c) == c \in Background /\ resting

\* One pass of the loop, `waiters' the count it sees with itself in it.
Attempt_EachPass(c, waiters) ==
    \/ /\ ~busy /\ ~Pause(c) /\ (c \in Background => waiters = 0)
       /\ busy' = TRUE
       /\ interactive_waiters' = waiters - Queued(c)
       /\ Notified(c, "slot")
       /\ UNCHANGED resting
    \/ /\ busy \/ Pause(c) \/ (c \in Background /\ waiters > 0)
       /\ at' = [at EXCEPT ![c] = "asleep"]
       /\ timer' = [timer EXCEPT ![c] = Pause(c) /\ ~busy]
       /\ interactive_waiters' = waiters - Queued(c)
       /\ UNCHANGED <<busy, resting>>
Attempt(c, waiters) ==
    \/ /\ ~busy /\ ~Pause(c) /\ (c \in Background => waiters = 0)
       /\ busy' = TRUE
       /\ interactive_waiters' = waiters - Queued(c)
       /\ Notified(c, "slot")
       /\ UNCHANGED resting
    \/ /\ busy \/ Pause(c) \/ (c \in Background /\ waiters > 0)
       /\ at' = [at EXCEPT ![c] = "asleep"]
       /\ timer' = [timer EXCEPT ![c] = Pause(c) /\ ~busy]
       /\ interactive_waiters' = waiters
       /\ UNCHANGED <<busy, resting>>

acquire(c) ==
    /\ c \in Serial
    /\ \/ at[c] = "new" /\ Attempt(c, interactive_waiters + Queued(c))
       \/ at[c] = "awake" /\ Attempt(c, interactive_waiters)

\* The wait for the pause runs out; the loop looks again.
WaitExpires(c) ==
    /\ at[c] = "asleep" /\ timer[c]
    /\ at' = [at EXCEPT ![c] = "awake"]
    /\ timer' = [timer EXCEPT ![c] = FALSE]
    /\ UNCHANGED lane

PauseOver == resting /\ resting' = FALSE /\ UNCHANGED <<at, timer, busy, interactive_waiters>>

Straight(c) ==
    /\ c \in Direct /\ at[c] = "new"
    /\ at' = [at EXCEPT ![c] = "slot"]
    /\ UNCHANGED <<timer, lane>>

OnWire == {c \in Calls : at[c] = "wire"}
_wire_slots(c) ==
    /\ at[c] = "slot" /\ Cardinality(OnWire) < Slots
    /\ at' = [at EXCEPT ![c] = "wire"]
    /\ UNCHANGED <<timer, lane>>

release(c, place) ==
    /\ busy' = FALSE /\ resting' = TRUE
    /\ Notified(c, place)
    /\ UNCHANGED interactive_waiters

Leave(c, place) ==
    IF c \in Serial THEN release(c, place) ELSE Unnotified(c, place) /\ UNCHANGED lane

\* The reply came, or the exchange failed.
Reply(c) == at[c] = "wire" /\ Leave(c, "ended")

\* The call's time ran out, or whoever asked went away: in the queue it gives up its place.
GiveUp_Unheard(c) ==
    \/ /\ at[c] \in Waiting
       /\ interactive_waiters' = interactive_waiters - Queued(c)
       /\ Unnotified(c, "failed")
       /\ UNCHANGED <<busy, resting>>
    \/ at[c] \in Holding /\ Leave(c, "failed")
GiveUp(c) ==
    \/ /\ at[c] \in Waiting
       /\ interactive_waiters' = interactive_waiters - Queued(c)
       /\ Notified(c, "failed")
       /\ UNCHANGED <<busy, resting>>
    \/ at[c] \in Holding /\ Leave(c, "failed")

Progress(c) == acquire(c) \/ WaitExpires(c) \/ Straight(c) \/ _wire_slots(c) \/ Reply(c)
Next == PauseOver \/ \E c \in Calls : Progress(c) \/ GiveUp(c)

\* A call once made goes on, the endpoint answers or fails within its read timeout, and pauses end.
\* No call has to run into its time limit.
FairSpec ==
    /\ Init /\ [][Next]_vars /\ WF_vars(PauseOver)
    /\ \A c \in Calls :
          WF_vars(at[c] # "new" /\ Progress(c)) /\ SF_vars(_wire_slots(c))

-----------------------------------------------------------------------------
(* One serial call has the lane whatever was cancelled on the way, the count    *)
(* of people waiting is right, and no free lane is slept over: a call asleep    *)
(* without a timer is behind the holder or behind a call that will move.       *)
LaneSound ==
    /\ TypeOK
    /\ Cardinality({c \in Serial : at[c] \in Holding}) = (IF busy THEN 1 ELSE 0)
    /\ Cardinality(OnWire) <= Slots
    /\ interactive_waiters = Cardinality({c \in Interactive : at[c] \in Waiting})
    /\ \A c \in Serial :
           at[c] = "asleep" /\ ~timer[c] /\ ~busy =>
               \E d \in Serial : at[d] = "awake" \/ (at[d] = "asleep" /\ timer[d])

(* Every call that waits gets the lane or gives up: nobody waits for a notice  *)
(* that does not come.                                                        *)
EveryWaitEnds == \A c \in Calls : at[c] \in Waiting \cup Holding ~> at[c] \in {"ended", "failed"}
=============================================================================
