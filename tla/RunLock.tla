------------------------------- MODULE RunLock ------------------------------
(***************************************************************************)
(* What a run promises the rest of the program (docs/ingest-scheduling.md   *)
(* section 4): a lock per connection and lock class that one run holds at a *)
(* time, observations that can be saved only by a run that is still open,   *)
(* and one verdict per run.  Runs implements this; the modules that compose *)
(* with the run use it in place of the heartbeat and its clock.             *)
(***************************************************************************)
EXTENDS Integers

CONSTANTS RunIds, Locks, ExclusiveLocks, NoLock

VARIABLES
    verdict, \* "unused", "open", or how the run closed
    serves,  \* the lock a run was granted
    saved    \* observation transactions committed under it

vars == <<verdict, serves, saved>>

Open == {r \in RunIds : verdict[r] = "open"}

Init ==
    /\ verdict = [r \in RunIds |-> "unused"]
    /\ serves = [r \in RunIds |-> NoLock]
    /\ saved = [r \in RunIds |-> 0]

\* The lock is granted: it is exclusive and free, or shared.
Grant(r, l) ==
    /\ verdict[r] = "unused"
    /\ l \in ExclusiveLocks => \A s \in Open : serves[s] # l
    /\ verdict' = [verdict EXCEPT ![r] = "open"]
    /\ serves' = [serves EXCEPT ![r] = l]
    /\ UNCHANGED saved

\* An open run saves an observation.
Save(r) ==
    /\ verdict[r] = "open"
    /\ saved' = [saved EXCEPT ![r] = @ + 1]
    /\ UNCHANGED <<verdict, serves>>

\* The holder closes its run, perhaps with one last observation.
Release(r, v, last) ==
    /\ verdict[r] = "open"
    /\ v = "failed" => last = 0
    /\ verdict' = [verdict EXCEPT ![r] = v]
    /\ saved' = [saved EXCEPT ![r] = @ + last]
    /\ UNCHANGED serves

\* Somebody else closes the runs whose holders have gone quiet.
Revoke(S) ==
    /\ S \subseteq Open
    /\ verdict' = [r \in RunIds |-> IF r \in S THEN "failed" ELSE verdict[r]]
    /\ UNCHANGED <<serves, saved>>

\* History ages out.
Forget(r) ==
    /\ verdict[r] \in {"succeeded", "failed"}
    /\ verdict' = [verdict EXCEPT ![r] = "unused"]
    /\ serves' = [serves EXCEPT ![r] = NoLock]
    /\ saved' = [saved EXCEPT ![r] = 0]

Next ==
    \/ \E r \in RunIds :
        \/ \E l \in Locks : Grant(r, l)
        \/ Save(r)
        \/ \E v \in {"succeeded", "failed"}, last \in 0..1 : Release(r, v, last)
        \/ Forget(r)
    \/ \E S \in SUBSET RunIds : Revoke(S)

Spec == Init /\ [][Next]_vars

=============================================================================
