----------------------------- MODULE MCLiveness -----------------------------
(***************************************************************************)
(* Runs and Outbox for what must happen in the end, one to a behaviour, with *)
(* the fairness of their own specifications.  Runs: two frames for one sweep *)
(* lock, one of which may hang for ever.  Outbox: one process, and an event  *)
(* for two destinations of which a tick serves one.                          *)
(***************************************************************************)
EXTENDS Naturals, Sequences, FiniteSets, TLC

CONSTANTS w1, w2, r1, r2, sweeping, d1, d2, NoRun, NoLock, NoWorker

VARIABLES
    which, \* the system that runs
    status, lock, age, closer, saved, completed, alarmed,
    pc, want, retried, mine, pending, toRecord, quiet, cold, keeper, hung,
    event, old, dest, delivery, attempts, ready, holder, stage, seen, hand,
    flight, purging, candidates, kept, touched, taken, late

R == INSTANCE Runs WITH
    Workers <- {w1, w2}, RunIds <- {r1, r2}, Locks <- {sweeping},
    ExclusiveLocks <- {sweeping}, HeartbeatLocks <- {sweeping},
    StaleAfter <- 1, MaxSaves <- 0, MayHang <- {w1}
O == INSTANCE Outbox WITH
    Events <- {1}, Destinations <- {d1, d2}, Workers <- {w1},
    Wanted <- {1} \X {d1, d2}, MaxAttempts <- 2, TickLimit <- 1,
    MaxOld <- 0, status <- delivery

runs == <<
    status, lock, age, closer, saved, completed, alarmed, pc, want, retried,
    mine, pending, toRecord, quiet, cold, keeper, hung>>
outbox == <<
    event, old, dest, delivery, attempts, ready, holder, stage, seen, hand,
    flight, purging, candidates, kept, touched, taken, late>>
vars == <<which, runs, outbox>>

Init == which \in {"runs", "outbox"} /\ R!Init /\ O!Init

Next ==
    /\ which' = which
    /\ IF which = "runs" THEN R!Next ELSE UNCHANGED runs
    /\ IF which = "outbox" THEN O!Next ELSE UNCHANGED outbox

\* A step of one system while the other rests.
OfRuns(step) == which = "runs" /\ step /\ UNCHANGED <<which, outbox>>
OfOutbox(step) == which = "outbox" /\ step /\ UNCHANGED <<which, runs>>

\* The fairness of each system while it is the one that runs; a conjunct that names a step
\* of both is two, as a behaviour has steps of only one of them.
Fairness ==
    /\ WF_vars(OfRuns(R!Tick) \/ OfOutbox(O!BecomeDue(<<1, d1>>)))
    /\ WF_vars(OfRuns(R!Acquire(w1)) \/ OfOutbox(O!BecomeDue(<<1, d2>>)))
    /\ WF_vars(OfRuns(R!Acquire(w2)))
    /\ \A w \in {w1, w2} : WF_vars(OfRuns(R!KeeperStops(w)))
    /\ \A r \in {r1, r2} : WF_vars(OfRuns(R!Purge(r)))
    /\ SF_vars(OfRuns(R!Close(w1)) \/ OfOutbox(O!BeginTick(w1) \/ O!FanOutRaises(w1)))
    /\ SF_vars(OfRuns(R!Close(w2)) \/ OfOutbox(O!HoldEvents(w1) \/ O!FanOut(w1)))
    /\ SF_vars(OfOutbox(O!SelectDue(w1)))
    /\ SF_vars(OfOutbox(O!Skip(w1)))
    /\ SF_vars(OfOutbox(\E outcome \in O!Outcomes : O!Post(w1, outcome)))
    /\ SF_vars(OfOutbox(O!RecordDelivered(w1) \/ O!RecordFailure(w1) \/ O!RecordVanished(w1)))
    /\ SF_vars(OfOutbox(O!EndTick(w1)))

FairSpec == Init /\ [][Next]_vars /\ Fairness

-----------------------------------------------------------------------------
\* A running run is closed in the end although its frame may die or hang (EveryRunCloses of
\* Runs); and a delivery to an enabled destination is settled, unless a tick's worth waits
\* for destinations that are switched off (SettlesUnderLimit of Outbox).
Waits(r, p) == (which = "runs" /\ status[r] = "running") \/ (which = "outbox" /\ O!Due(p))
TickIsSpent == which = "outbox" /\ Cardinality(O!Idle) >= 1
WorkEnds ==
    /\ Waits(r1, <<1, d1>>) ~> (~Waits(r1, <<1, d1>>) \/ TickIsSpent)
    /\ Waits(r2, <<1, d2>>) ~> (~Waits(r2, <<1, d2>>) \/ TickIsSpent)
=============================================================================
