----------------------------- MODULE Collections ----------------------------
(***************************************************************************)
(* The collections of one connection (backend/app/mdm/collections.py): the  *)
(* minute tick that claims what is due, the run-now requests, and the row   *)
(* on which every attempt leaves its outcome.  Runs are used through what   *)
(* they promise, the lock of RunLock; a run is only revoked when its frame  *)
(* is dead or stalled, which is what Runs' heartbeat allows.                *)
(*                                                                          *)
(* An instant is named by the run that began at it: run ids are granted in  *)
(* order, a run and its first attempt begin together, and only comparisons  *)
(* of such instants are made.  Occurrences of a schedule are numbered.      *)
(*                                                                          *)
(* A frame works on the copy of the row its session loaded.  The session    *)
(* does not expire on commit, and a flush writes the attributes whose value *)
(* changed against that copy, no others.                                    *)
(***************************************************************************)
EXTENDS Naturals, FiniteSets

CONSTANTS
    Collections, \* collection ids of the connection, none of them a webhook's
    Sweeps,      \* those of kind device_sweep; the others are catalogs
    MaxRuns,     \* bound: runs granted
    MaxDue,      \* bound: occurrences that come due
    MaxAsked,    \* bound: a request is made while fewer runs than this were run-nows
    Tickers,     \* processes that run collections_tick
    Requesters,  \* background tasks of run-now requests
    MayStall     \* frames that may stop running for a while and wake up

ASSUME KindsAssumption == Sweeps \subseteq Collections
ASSUME BoundsAssumption == MaxRuns \in Nat \ {0} /\ MaxDue \in Nat \ {0} /\ MaxAsked \in Nat
ASSUME FramesAssumption == Tickers \cap Requesters = {}

RunIds == 1..MaxRuns
Frames == Tickers \cup Requesters
SweepLock == "device_sweep"
CatalogLock == "catalog"
LockOf(c) == IF c \in Sweeps THEN SweepLock ELSE CatalogLock

VARIABLES
    verdict, serves, saved, \* the runs, as RunLock has them
    runFor,     \* runs.collection_id, {} when the run serves the connection
    runOcc,     \* the occurrence in the run's window, 0 for a run-now
    arrived,    \* occurrences that have come due so far
    nextDue,    \* collections.next_due_at
    claimedBy,  \* collections.last_claimed_at, as the tick that claimed
    ranAt, ranStatus, goodAt, \* last_run_at, last_run_status, last_success_at
    unmarked,   \* reclaimed runs whose mark on the collection was dropped
    frame       \* what each frame is doing

runs == <<verdict, serves, saved, runFor, runOcc>>
schedule == <<arrived, nextDue, claimedBy>>
row == <<ranAt, ranStatus, goodAt>>
vars == <<runs, schedule, row, unmarked, frame>>

Lock == INSTANCE RunLock WITH
    Locks <- {SweepLock, CatalogLock}, ExclusiveLocks <- {SweepLock, CatalogLock}, NoLock <- "none"

Outcomes == {"never", "ok", "failed", "skipped"}

Frame == [
    stage: {"idle", "claim", "next", "picked", "insert", "start", "working", "finish", "refused"},
    todo: SUBSET (Collections \X (0..MaxDue)), \* claims, or sweeps, still to run
    coll: SUBSET Collections, \* the collection in hand, at most one
    occ: 0..MaxDue,
    run: 0..MaxRuns,          \* 0 for none
    known: [Collections -> Outcomes \cup {"expired"}], \* last_run_status in the session's copies
    good: [Collections -> 0..MaxRuns],                \* last_success_at there
    before: 0..MaxRuns,       \* success_before
    ok: BOOLEAN,              \* every sweep of the run so far ended well
    stalled: BOOLEAN]

Resting == [stage |-> "idle", todo |-> {}, coll |-> {}, occ |-> 0, run |-> 0,
            known |-> [c \in Collections |-> "expired"], good |-> [c \in Collections |-> 0],
            before |-> 0, ok |-> TRUE, stalled |-> FALSE]

TypeOK ==
    /\ verdict \in [RunIds -> {"unused", "open", "succeeded", "failed"}]
    /\ serves \in [RunIds -> {SweepLock, CatalogLock, "none"}]
    /\ saved \in [RunIds -> {0}]
    /\ runFor \in [RunIds -> SUBSET Collections]
    /\ runOcc \in [RunIds -> 0..MaxDue]
    /\ arrived \in [Collections -> 0..MaxDue]
    /\ nextDue \in [Collections -> 1..(MaxDue + 1)]
    /\ claimedBy \in [Collections -> SUBSET Tickers]
    /\ ranAt \in [Collections -> 0..MaxRuns]
    /\ ranStatus \in [Collections -> Outcomes]
    /\ goodAt \in [Collections -> 0..MaxRuns]
    /\ unmarked \subseteq RunIds
    /\ frame \in [Frames -> Frame]

Init ==
    /\ Lock!Init
    /\ runFor = [r \in RunIds |-> {}]
    /\ runOcc = [r \in RunIds |-> 0]
    /\ arrived = [c \in Collections |-> 0]
    /\ nextDue = [c \in Collections |-> 1]
    /\ claimedBy = [c \in Collections |-> {}]
    /\ ranAt = [c \in Collections |-> 0]
    /\ ranStatus = [c \in Collections |-> "never"]
    /\ goodAt = [c \in Collections |-> 0]
    /\ unmarked = {}
    /\ frame = [w \in Frames |-> Resting]

At(w, stage) == frame[w].stage = stage /\ ~frame[w].stalled
Become(w, f) == frame' = [frame EXCEPT ![w] = f]
GoTo(w, stage) == frame' = [frame EXCEPT ![w].stage = stage]

InHand(w) == CHOOSE c \in Collections : c \in frame[w].coll
MyRun(w) == frame[w].run

-----------------------------------------------------------------------------
(* The schedule.                                                            *)

\* An occurrence's time comes.
Arrive(c) ==
    /\ arrived[c] < MaxDue
    /\ arrived' = [arrived EXCEPT ![c] = @ + 1]
    /\ UNCHANGED <<runs, nextDue, claimedBy, row, unmarked, frame>>

\* Any edit of the row goes through apply_schedule, which looks past now.
Edit(c) ==
    /\ nextDue[c] # arrived[c] + 1
    /\ nextDue' = [nextDue EXCEPT ![c] = arrived[c] + 1]
    /\ UNCHANGED <<runs, arrived, claimedBy, row, unmarked, frame>>

Due(c) == nextDue[c] <= arrived[c]
Busy(l) == \E r \in RunIds : verdict[r] = "open" /\ serves[r] = l

\* latest_due: missed occurrences coalesce into the last whose time has come.
LatestDue(c) == IF nextDue[c] > arrived[c] THEN nextDue[c] ELSE arrived[c]

\* claim_due's SELECTs: what is due, less the sweeps of a connection that is
\* running one.
ClaimRead(w) ==
    LET due == {c \in Collections : Due(c) /\ ~(c \in Sweeps /\ Busy(SweepLock))} IN
    /\ At(w, "idle")
    /\ due # {}
    /\ Become(w, [Resting EXCEPT !.stage = "claim", !.todo = {<<c, LatestDue(c)>> : c \in due}])
    /\ UNCHANGED <<runs, schedule, row, unmarked>>

Won_Unconditional(w) == frame[w].todo
Won_Strict(w) == {x \in frame[w].todo : nextDue[x[1]] < x[2]}

\* The claim's WHERE next_due_at <= now.
Won(w) == {x \in frame[w].todo : nextDue[x[1]] <= x[2]}

\* Its UPDATEs, one commit for all of them.
ClaimWrite(w) ==
    LET won == Won(w)
        ofs == {x[1] : x \in won}
        occ(c) == CHOOSE n \in 0..MaxDue : <<c, n>> \in won
    IN
    /\ At(w, "claim")
    /\ nextDue' = [c \in Collections |-> IF c \in ofs THEN occ(c) + 1 ELSE nextDue[c]]
    /\ claimedBy' = [c \in Collections |-> IF c \in ofs THEN {w} ELSE claimedBy[c]]
    /\ frame' = [frame EXCEPT ![w].stage = "next", ![w].todo = won]
    /\ UNCHANGED <<runs, arrived, row, unmarked>>

\* The tick has run everything it claimed.
TickEnds(w) ==
    /\ At(w, "next")
    /\ frame[w].todo = {}
    /\ Become(w, Resting)
    /\ UNCHANGED <<runs, schedule, row, unmarked>>

\* The session's copies of the collections in C as their rows stand.
Loaded(f, C) == [f EXCEPT !.known = [c \in Collections |-> IF c \in C THEN ranStatus[c] ELSE f.known[c]],
                          !.good = [c \in Collections |-> IF c \in C THEN goodAt[c] ELSE f.good[c]]]

\* A rollback expires every copy of the session; reading one raises.
Expired(f) == [f EXCEPT !.known = [c \in Collections |-> "expired"]]

\* The next claim, refreshed, and outside its rate floor.
Pick(w, x) ==
    /\ At(w, "next")
    /\ x \in frame[w].todo
    /\ Become(w, [Loaded(frame[w], {x[1]}) EXCEPT
                    !.stage = "picked", !.coll = {x[1]}, !.occ = x[2], !.todo = @ \ {x}])
    /\ UNCHANGED <<runs, schedule, row, unmarked>>

SkipInFloor_Always(w, x) ==
    /\ At(w, "next")
    /\ x \in frame[w].todo
    /\ ranAt[x[1]] # 0
    /\ ranStatus' = [ranStatus EXCEPT ![x[1]] = "skipped"]
    /\ frame' = [frame EXCEPT ![w].todo = @ \ {x}]
    /\ UNCHANGED <<runs, schedule, ranAt, goodAt, unmarked>>

\* Inside the floor: skipped, but a skip does not supersede a failure.
SkipInFloor(w, x) ==
    /\ At(w, "next")
    /\ x \in frame[w].todo
    /\ ranAt[x[1]] # 0
    /\ ranStatus' = [ranStatus EXCEPT ![x[1]] = IF @ = "failed" THEN @ ELSE "skipped"]
    /\ frame' = [frame EXCEPT ![w].todo = @ \ {x}]
    /\ UNCHANGED <<runs, schedule, ranAt, goodAt, unmarked>>

-----------------------------------------------------------------------------
(* acquire, as a request or a claim comes to it.                            *)

MayAsk == Cardinality({r \in RunIds : verdict[r] # "unused" /\ runOcc[r] = 0}) < MaxAsked

\* POST /collections/{id}/run: one collection.
RequestOne(w, c) ==
    /\ At(w, "idle")
    /\ MayAsk
    /\ Become(w, [Resting EXCEPT !.stage = "picked", !.coll = {c}, !.todo = {<<c, 0>>}])
    /\ UNCHANGED <<runs, schedule, row, unmarked>>

\* POST /connections/{id}/sync: every sweep, under one run.
RequestAll(w) ==
    /\ At(w, "idle")
    /\ MayAsk
    /\ Sweeps # {}
    /\ Become(w, [Resting EXCEPT !.stage = "picked", !.todo = Sweeps \X {0}])
    /\ UNCHANGED <<runs, schedule, row, unmarked>>

\* Open runs nobody healthy works in: their heartbeat is stale.
Dead == {r \in RunIds :
    verdict[r] = "open" /\ \A w \in Frames : MyRun(w) = r => frame[w].stalled}

Behind_Unguarded(r) == runFor[r]
\* _mark_collections_reclaimed's freshness guard.
Behind(r) == {c \in runFor[r] : ranAt[c] < r}

Marked_None(S) == {}
Marked(S) == UNION {Behind(r) : r \in S}
Newest(S) == CHOOSE r \in S : \A s \in S : s <= r

\* The copies of the marked rows, re-read once the marks are committed.
Resynced(f, C) ==
    [f EXCEPT !.known = [c \in Collections |-> IF c \in f.coll \cap C THEN ranStatus'[c] ELSE f.known[c]],
              !.good = [c \in Collections |-> IF c \in f.coll \cap C THEN goodAt[c] ELSE f.good[c]]]

\* _reclaim_stale: verdicts and marks in one commit, or the marks dropped by
\* their savepoint; then the session's copies of the rows are re-read.
Reclaim(w, S, mark) ==
    /\ At(w, "picked")
    /\ S = {} => ~mark
    /\ Lock!Revoke(S)
    /\ ranAt' = [c \in Collections |-> IF mark /\ c \in Marked(S)
                    THEN Newest({r \in S : c \in runFor[r]}) ELSE ranAt[c]]
    /\ ranStatus' = [c \in Collections |-> IF mark /\ c \in Marked(S) THEN "failed" ELSE ranStatus[c]]
    /\ unmarked' = IF mark THEN unmarked ELSE unmarked \cup S
    /\ Become(w, [Resynced(frame[w], UNION {runFor[r] : r \in S}) EXCEPT !.stage = "insert"])
    /\ UNCHANGED <<goodAt, schedule, runFor, runOcc>>

Granted == {r \in RunIds : verdict[r] # "unused"}
Wanted(w) == IF frame[w].coll # {} THEN LockOf(InHand(w)) ELSE SweepLock

\* success_before, of a frame that goes straight on to its attempt.
SuccessBefore(w) == IF w \in Tickers THEN frame[w].good[InHand(w)] ELSE 0

Insert_NoIndex(w) ==
    \E r \in RunIds :
        /\ At(w, "insert")
        /\ r = Cardinality(Granted) + 1
        /\ verdict' = [verdict EXCEPT ![r] = "open"]
        /\ serves' = [serves EXCEPT ![r] = Wanted(w)]
        /\ runFor' = [runFor EXCEPT ![r] = frame[w].coll]
        /\ runOcc' = [runOcc EXCEPT ![r] = frame[w].occ]
        /\ Become(w, [frame[w] EXCEPT !.stage = IF w \in Tickers THEN "working" ELSE "start",
                                      !.run = r, !.before = SuccessBefore(w)])
        /\ UNCHANGED <<saved, schedule, row, unmarked>>

\* The INSERT; a tick goes on to its work, a request returns its jobID and
\* leaves the work to a background task.
Insert(w) ==
    \E r \in RunIds :
        /\ At(w, "insert")
        /\ r = Cardinality(Granted) + 1
        /\ Lock!Grant(r, Wanted(w))
        /\ runFor' = [runFor EXCEPT ![r] = frame[w].coll]
        /\ runOcc' = [runOcc EXCEPT ![r] = frame[w].occ]
        /\ Become(w, [frame[w] EXCEPT !.stage = IF w \in Tickers THEN "working" ELSE "start",
                                      !.run = r, !.before = SuccessBefore(w)])
        /\ UNCHANGED <<schedule, row, unmarked>>

\* The frame is done with this collection: a tick goes on to its next claim.
Done(w) == IF w \in Tickers THEN [Resting EXCEPT !.stage = "next", !.todo = frame[w].todo] ELSE Resting

\* Somebody holds the lock: the work is already happening.
NotStarted(w) ==
    /\ At(w, "insert")
    /\ Busy(Wanted(w))
    /\ Become(w, Done(w))
    /\ UNCHANGED <<runs, schedule, row, unmarked>>

Restorable_Anyone(w) == TRUE

\* Only our own claim, unchanged.
Restorable(w) ==
    /\ w \in Tickers
    /\ nextDue[InHand(w)] = frame[w].occ + 1
    /\ claimedBy[InHand(w)] = {w}

\* AcquisitionBusy: a tick restores its claim, a request answers 503.
GiveUp(w) ==
    /\ At(w, "insert")
    /\ Busy(Wanted(w))
    /\ nextDue' = IF Restorable(w) THEN [nextDue EXCEPT ![InHand(w)] = frame[w].occ] ELSE nextDue
    /\ Become(w, Done(w))
    /\ UNCHANGED <<runs, arrived, claimedBy, row, unmarked>>

-----------------------------------------------------------------------------
(* run_one_collection inside its run.                                       *)

\* A background task begins: it loads the rows of every collection its run covers.
StartTask(w) ==
    /\ At(w, "start")
    /\ Become(w, [Loaded(frame[w], {x[1] : x \in frame[w].todo}) EXCEPT !.stage = "next"])
    /\ UNCHANGED <<runs, schedule, row, unmarked>>

\* It goes on to the next of them, as it loaded it then.
TakeNext(w, x) ==
    /\ w \in Requesters
    /\ At(w, "next")
    /\ x \in frame[w].todo
    /\ frame[w].known[x[1]] # "expired"
    /\ Become(w, [frame[w] EXCEPT !.stage = "working", !.coll = {x[1]},
                                  !.before = frame[w].good[x[1]], !.todo = @ \ {x}])
    /\ UNCHANGED <<runs, schedule, row, unmarked>>

\* An earlier collection's rollback expired the copy: the first attribute read
\* raises, out of the whole task, which closes its run as failed.
TaskRaises(w, x) ==
    /\ w \in Requesters
    /\ At(w, "next")
    /\ x \in frame[w].todo
    /\ frame[w].known[x[1]] = "expired"
    /\ Become(w, [frame[w] EXCEPT !.stage = "finish", !.ok = FALSE, !.todo = {}])
    /\ UNCHANGED <<runs, schedule, row, unmarked>>

\* Where the frame goes once an attempt is accounted for.
Then(w, f) == IF w \in Requesters /\ f.todo # {} THEN [f EXCEPT !.stage = "next"]
                                                 ELSE [f EXCEPT !.stage = "finish"]

\* The sweep or catalog read returned ok.  A tolerated device failure expired
\* the copies; otherwise a status that already read "ok" there is not written.
AccountOk(w, tolerated) ==
    LET c == InHand(w)
        f == IF tolerated THEN Expired(frame[w]) ELSE frame[w]
    IN
    /\ At(w, "working")
    /\ ranAt' = [ranAt EXCEPT ![c] = MyRun(w)]
    /\ goodAt' = [goodAt EXCEPT ![c] = MyRun(w)]
    /\ ranStatus' = [ranStatus EXCEPT ![c] = IF f.known[c] = "ok" THEN @ ELSE "ok"]
    /\ Become(w, Then(w, [f EXCEPT !.known[c] = "ok", !.good[c] = MyRun(w)]))
    /\ UNCHANGED <<runs, schedule, unmarked>>

AccountFailed_ForgetsSuccess(w) ==
    LET c == InHand(w) IN
    /\ At(w, "working")
    /\ ranAt' = [ranAt EXCEPT ![c] = MyRun(w)]
    /\ goodAt' = [goodAt EXCEPT ![c] = 0]
    /\ ranStatus' = [ranStatus EXCEPT ![c] = "failed"]
    /\ Become(w, Then(w, [Expired(frame[w]) EXCEPT !.known[c] = "failed", !.good[c] = 0, !.ok = FALSE]))
    /\ UNCHANGED <<runs, schedule, unmarked>>

\* It returned a failure: the session was rolled back, the row is refreshed.
AccountFailed(w) ==
    LET c == InHand(w) IN
    /\ At(w, "working")
    /\ ranAt' = [ranAt EXCEPT ![c] = MyRun(w)]
    /\ ranStatus' = [ranStatus EXCEPT ![c] = "failed"]
    /\ Become(w, Then(w, [Expired(frame[w]) EXCEPT !.known[c] = "failed", !.good[c] = goodAt[c], !.ok = FALSE]))
    /\ UNCHANGED <<runs, schedule, goodAt, unmarked>>

\* The fence or a beat found the run closed: RunReclaimed.  The outcome is
\* recorded, the run is not finished, and a tick goes on to its next claim.
AccountReclaimed(w) ==
    LET c == InHand(w) IN
    /\ At(w, "working")
    /\ verdict[MyRun(w)] # "open"
    /\ ranAt' = [ranAt EXCEPT ![c] = MyRun(w)]
    /\ ranStatus' = [ranStatus EXCEPT ![c] = "failed"]
    /\ Become(w, Done(w))
    /\ UNCHANGED <<runs, schedule, goodAt, unmarked>>

\* finish: the verdict, conditional on the run still being open.
Finish(w) ==
    /\ At(w, "finish")
    /\ Lock!Release(MyRun(w), IF frame[w].ok THEN "succeeded" ELSE "failed", 0)
    /\ Become(w, Done(w))
    /\ UNCHANGED <<runFor, runOcc, schedule, row, unmarked>>

FinishRefused(w) ==
    /\ At(w, "finish")
    /\ verdict[MyRun(w)] # "open"
    /\ GoTo(w, "refused")
    /\ UNCHANGED <<runs, schedule, row, unmarked>>

\* A run this frame acquired: its row is taken back with the verdict.  What
\* the copy already says is not written again.
Downgrade(w) ==
    LET c == InHand(w) IN
    /\ w \in Tickers
    /\ At(w, "refused")
    /\ ranStatus' = [ranStatus EXCEPT ![c] = IF frame[w].known[c] = "failed" THEN @ ELSE "failed"]
    /\ goodAt' = [goodAt EXCEPT ![c] = IF frame[w].good[c] = frame[w].before THEN @ ELSE frame[w].before]
    /\ Become(w, Done(w))
    /\ UNCHANGED <<runs, schedule, ranAt, unmarked>>

\* A run that was handed in: its caller discards finish's answer.
TaskReturns(w) ==
    /\ w \in Requesters
    /\ At(w, "refused")
    /\ Become(w, Done(w))
    /\ UNCHANGED <<runs, schedule, row, unmarked>>

-----------------------------------------------------------------------------
(* The environment.                                                         *)

Crash(w) ==
    /\ frame[w].stage # "idle"
    /\ Become(w, Resting)
    /\ UNCHANGED <<runs, schedule, row, unmarked>>

Stall(w) ==
    /\ w \in MayStall
    /\ MyRun(w) # 0
    /\ ~frame[w].stalled
    /\ frame' = [frame EXCEPT ![w].stalled = TRUE]
    /\ UNCHANGED <<runs, schedule, row, unmarked>>

Wake(w) ==
    /\ frame[w].stalled
    /\ frame' = [frame EXCEPT ![w].stalled = FALSE]
    /\ UNCHANGED <<runs, schedule, row, unmarked>>

-----------------------------------------------------------------------------

Claim(w) ==
    \/ ClaimRead(w)
    \/ ClaimWrite(w)
    \/ TickEnds(w)
    \/ \E x \in frame[w].todo : Pick(w, x) \/ SkipInFloor(w, x)

Acquire(w) ==
    \/ \E S \in SUBSET Dead, mark \in BOOLEAN : Reclaim(w, S, mark)
    \/ Insert(w)
    \/ NotStarted(w)
    \/ GiveUp(w)

Attempt(w) ==
    \/ \E tolerated \in BOOLEAN : AccountOk(w, tolerated)
    \/ AccountFailed(w)
    \/ AccountReclaimed(w)
    \/ Finish(w)
    \/ FinishRefused(w)

Task(w) ==
    \/ StartTask(w)
    \/ \E x \in frame[w].todo : TakeNext(w, x) \/ TaskRaises(w, x)
    \/ TaskReturns(w)

Next ==
    \/ \E c \in Collections : Arrive(c) \/ Edit(c)
    \/ \E w \in Tickers : Claim(w) \/ Downgrade(w)
    \/ \E w \in Requesters :
        \/ \E c \in Collections : RequestOne(w, c)
        \/ RequestAll(w)
        \/ Task(w)
    \/ \E w \in Frames : Acquire(w) \/ Attempt(w) \/ Crash(w) \/ Stall(w) \/ Wake(w)

Spec == Init /\ [][Next]_vars

(* The tick fires every minute and each of its steps returns.  A tick may be  *)
(* killed time and again, but not for ever at the same step: each kind of     *)
(* step it is for ever about to take it sometimes takes.  A request once made *)
(* goes on until it ends or dies.  Nothing is assumed of operators, nor that  *)
(* anyone who does not come to acquire reclaims a run.                        *)
Fairness ==
    /\ \A w \in Requesters : WF_vars(Acquire(w) \/ Task(w) \/ Attempt(w) \/ Wake(w))
    /\ \A w \in Tickers :
        /\ SF_vars(ClaimRead(w))
        /\ SF_vars(ClaimWrite(w))
        /\ SF_vars(TickEnds(w) \/ \E x \in frame[w].todo : Pick(w, x) \/ SkipInFloor(w, x))
        /\ SF_vars(\E S \in SUBSET Dead, mark \in BOOLEAN : Reclaim(w, S, mark))
        /\ SF_vars(Insert(w) \/ NotStarted(w) \/ GiveUp(w))
        /\ SF_vars((\E tolerated \in BOOLEAN : AccountOk(w, tolerated))
                    \/ AccountFailed(w) \/ AccountReclaimed(w))
        /\ SF_vars(Finish(w) \/ FinishRefused(w))
        /\ SF_vars(Downgrade(w))
        /\ WF_vars(Wake(w))

FairSpec == Spec /\ Fairness

-----------------------------------------------------------------------------
(* Properties.                                                              *)

\* However many processes tick, and whatever they restore, one occurrence of a
\* collection starts at most one scheduled run (claim_due).
OccurrenceRunsOnce ==
    \A r, s \in RunIds :
        runOcc[r] # 0 /\ runOcc[r] = runOcc[s] /\ runFor[r] = runFor[s] => r = s

\* A standing failure clears only because an attempt succeeded, never because
\* the tick declined to run (tick_tenant).
AlarmClearsOnSuccess ==
    [][\A c \in Collections : ranStatus[c] = "failed" /\ ranStatus'[c] # "failed" =>
            \E w \in Frames : frame[w].coll = {c} /\ frame[w].stage = "working"
                              /\ ranAt'[c] = frame[w].run /\ goodAt'[c] = frame[w].run]_vars

\* A process that dies after it recorded a collection's outcome takes nothing
\* back: what reads ok turns failed only for a newer attempt, or because its
\* own frame saw its finish refused (_mark_collections_reclaimed's guard).
OutcomeOutlivesProcess ==
    [][\A c \in Collections : ranStatus[c] = "ok" /\ ranStatus'[c] = "failed" =>
            \/ ranAt'[c] # ranAt[c]
            \/ \E w \in Frames : frame[w].stage = "refused" /\ c \in frame[w].coll]_vars

Serving(w, c) ==
    \/ c \in frame[w].coll
    \/ \E x \in frame[w].todo : x[1] = c

\* While nobody works on a collection, its row tells its history: the newest
\* closed attempt is the one recorded, a success of it included, unless the
\* process died with its run still open or the reclaim's mark was dropped.
RowTellsHistory ==
    \A c \in Collections : (\A w \in Frames : ~Serving(w, c)) =>
        \A r \in RunIds : runFor[r] = {c} /\ r \notin unmarked =>
            /\ verdict[r] \in {"succeeded", "failed"} => ranAt[c] >= r
            /\ verdict[r] = "succeeded" => goodAt[c] >= r

\* The recorded attempt is the newest: "last_run_status is a cache of the
\* newest thing that happened to this collection" (tick_tenant).  It holds when
\* no frame outlives its run; a frame that wakes after a newer attempt writes
\* its own, older one over it.
NewestAttemptRecorded ==
    [][\A c \in Collections : ranAt'[c] >= ranAt[c]]_vars

\* "An earlier real success is still true" (run_one_collection): the mark of a
\* success whose run did succeed is never lost.  It holds when no frame
\* outlives its run; a refused finish restores what it read before.
RealSuccessStays ==
    [][\A c \in Collections : goodAt[c] # 0 /\ verdict[goodAt[c]] = "succeeded"
            => goodAt'[c] >= goodAt[c]]_vars

\* "This row's cached outcome must not disagree with the history it
\* summarizes" (run_one_collection): a frame that learned its finish was
\* refused does not leave an ok of that run behind.  The code does not keep
\* this for a run that was handed in.
RefusedFinishIsNotOk ==
    [][\A w \in Frames : frame[w].stage = "refused" /\ frame'[w].stage # "refused" =>
            \/ frame'[w].stage = "idle" /\ w \in Tickers \* it died
            \/ LET c == InHand(w) IN ~(ranAt'[c] = MyRun(w) /\ ranStatus'[c] = "ok")]_vars

\* "Every enabled device sweep the connection has" (run_enabled_collections):
\* a connection-level run that its own task closes has attempted every sweep.
\* The code does not keep this: a device failure of one sweep, tolerated or
\* not, expires the rows of those that follow and the task raises on the next.
EverySweepAttempted ==
    [][\A w \in Requesters :
            frame[w].stage = "finish" /\ frame'[w].stage = "idle" /\ runFor[MyRun(w)] = {}
            /\ verdict[MyRun(w)] = "open" /\ verdict'[MyRun(w)] # "open"
            => \A c \in Sweeps : ranAt[c] >= MyRun(w)]_vars

\* The newest thing that happened is what the status says: an attempt that
\* ended well and is the newest recorded reads ok.  The code does not keep
\* this: over a stale copy that already reads ok, nothing is written.
SuccessReadsOk ==
    [][\A w \in Frames : frame[w].stage = "working" /\ frame'[w].stage \in {"finish", "next"}
            /\ frame'[w].known[InHand(w)] = "ok" /\ frame[w].ok => ranStatus'[InHand(w)] = "ok"]_vars

\* What claim_due leaves unclaimed although nobody is running it.
WaitsForTheDead(c) == c \in Sweeps /\ \E r \in Dead : serves[r] = SweepLock

\* A due collection is claimed in the end, unless it is a sweep and a dead
\* frame's run still reads running on its connection (claim_due).
DueIsClaimedUnlessWedged == \A c \in Collections : Due(c) ~> (~Due(c) \/ WaitsForTheDead(c))

\* "It clears itself: _reclaim_stale runs on every acquisition" (operations.md):
\* a due sweep is claimed in the end.  The code does not keep this: the tick
\* leaves the sweep unclaimed while the dead run reads running, so it never
\* acquires, and with nobody else acquiring, nothing reclaims.
DueIsClaimed == \A c \in Collections : Due(c) ~> ~Due(c)

\* One occurrence starts one run, and the row of a collection nobody works on
\* tells its history (claim_due, run_one_collection).
CollectionsSound == TypeOK /\ OccurrenceRunsOnce /\ RowTellsHistory

\* A success is what clears an alarm, a success that happened stays, and the outcome on
\* the row is the newest attempt's.
SuccessStands == AlarmClearsOnSuccess /\ RealSuccessStays /\ NewestAttemptRecorded

=============================================================================
