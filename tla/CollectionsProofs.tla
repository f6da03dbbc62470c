--------------------------- MODULE CollectionsProofs -------------------------
(***************************************************************************)
(* Proofs about Collections.  Whatever stalls, an occurrence of a schedule  *)
(* is in one place at a time: still unclaimed, in the hand of one tick, or  *)
(* the window of one run.  While no frame outlives its run, a frame's run   *)
(* is the open one of its lock and newer than anything the rows record.     *)
(***************************************************************************)
EXTENDS Collections, TLAPS, FiniteSetTheorems, Queues

Closed == {"succeeded", "failed"}

-----------------------------------------------------------------------------
(* The inductive invariant, in three parts.                                 *)

\* A tick takes one collection at a time from a list that names each
\* collection once, with an occurrence; outside an attempt it has no run.
TickShape(f) ==
    /\ f.stage \in {"idle", "claim", "next"} => f.coll = {} /\ f.occ = 0 /\ f.run = 0
    /\ f.stage \in {"picked", "insert"} => f.coll # {} /\ f.occ # 0 /\ f.run = 0
    /\ f.stage \in {"working", "finish", "refused"} => f.coll # {} /\ f.run # 0
    /\ f.stage # "start"
    /\ \A x, y \in f.todo : x[1] = y[1] => x = y
    /\ \A x \in f.todo : x[2] # 0 /\ x[1] \notin f.coll

\* A request acquires one run for all it was asked for, and then takes it
\* collection by collection.
TaskShape(f) ==
    /\ f.stage \notin {"claim"} /\ f.occ = 0
    /\ f.stage \in {"idle", "picked", "insert"} <=> f.run = 0
    /\ f.stage = "idle" => f.coll = {}
    /\ f.stage = "working" => f.coll # {}
    /\ \A x \in f.todo : x[2] = 0
    /\ f.stage \in {"picked", "insert", "start"} => \A c \in f.coll : \E x \in f.todo : x[1] = c
    /\ f.stage \in {"picked", "insert"} =>
           \A x \in f.todo : IF f.coll = {} THEN x[1] \in Sweeps ELSE x[1] \in f.coll

Shapes ==
    /\ \A w \in Frames : \A c, d \in frame[w].coll : c = d
    /\ \A w \in Frames : frame[w].stage = "idle" => frame[w].todo = {}
    /\ \A w \in Tickers : TickShape(frame[w])
    /\ \A w \in Requesters : TaskShape(frame[w])

\* Run ids are granted in order, one open run to a lock; a frame with a run is
\* the only one with it, and what is left of its work is the run's.
RunsInOrder ==
    \A r, s \in RunIds : verdict[s] # "unused" /\ r <= s => verdict[r] # "unused"
OpenIsNewest ==
    \A r, s \in RunIds :
        verdict[r] = "open" /\ verdict[s] # "unused" /\ serves[r] = serves[s] => s <= r
RunServes ==
    \A r \in RunIds : \A c \in runFor[r] : serves[r] = LockOf(c)
RunInHand(f) ==
    f.run # 0 =>
        /\ verdict[f.run] # "unused"
        /\ \A c \in f.coll : serves[f.run] = LockOf(c)
        /\ runFor[f.run] # {} => runFor[f.run] = f.coll
RunWork(f) ==
    f.run # 0 =>
        /\ \A x \in f.todo : serves[f.run] = LockOf(x[1])
        /\ runFor[f.run] # {} => \A x \in f.todo : x[1] \in f.coll
RunsOwned ==
    /\ \A w \in Frames : RunInHand(frame[w])
    /\ \A w \in Requesters : RunWork(frame[w])
    /\ \A v, w \in Frames : frame[v].run # 0 /\ frame[v].run = frame[w].run => v = w
RunsKept == RunsInOrder /\ OpenIsNewest /\ RunServes /\ RunsOwned

\* The occurrence n of c is in the hand of a tick that has not started its run.
Holds(f, c, n) ==
    \/ f.stage # "claim" /\ <<c, n>> \in f.todo
    \/ f.coll = {c} /\ f.occ = n /\ f.run = 0
Ran(r, c, n) == runFor[r] = {c} /\ runOcc[r] = n
Occurrences == 1..MaxDue

DueIsNear == \A c \in Collections : nextDue[c] <= arrived[c] + 1
ClaimsArrived == \A w \in Tickers : \A x \in frame[w].todo : x[2] <= arrived[x[1]]
WindowsNamed == \A r \in RunIds : runOcc[r] # 0 => \E c \in Collections : runFor[r] = {c}
InOnePlace ==
    \A c \in Collections : \A n \in Occurrences :
        /\ \A w \in Tickers : Holds(frame[w], c, n) => n < nextDue[c]
        /\ \A r \in RunIds : Ran(r, c, n) => n < nextDue[c]
        /\ \A v, w \in Tickers : Holds(frame[v], c, n) /\ Holds(frame[w], c, n) => v = w
        /\ \A w \in Tickers, r \in RunIds : ~(Holds(frame[w], c, n) /\ Ran(r, c, n))
        /\ \A r, s \in RunIds : Ran(r, c, n) /\ Ran(s, c, n) => r = s
OccurrencesKept == DueIsNear /\ ClaimsArrived /\ WindowsNamed /\ InOnePlace

IInv == TypeOK /\ Shapes /\ RunsKept /\ OccurrencesKept

\* While no frame outlives its run: what a row records was served by its own
\* lock, a run's frame has it open, and a closed run is on the row it ran for.
RowsAreServed ==
    \A c \in Collections : \A r \in RunIds : (r = ranAt[c] \/ r = goodAt[c]) =>
        verdict[r] # "unused" /\ serves[r] = LockOf(c)
FrameKeepsRun(w, f) ==
    /\ ~f.stalled /\ f.stage # "refused"
    /\ f.run # 0 => verdict[f.run] = "open"
    /\ f.stage = "finish" /\ runFor[f.run] # {} =>
           \A c \in f.coll : ranAt[c] >= f.run /\ (f.ok => goodAt[c] >= f.run)
    /\ w \in Requesters /\ f.stage = "next" /\ runFor[f.run] # {} =>
           \A c \in f.coll : f.known[c] # "expired"
    /\ w \in Requesters /\ f.stage = "working" /\ runFor[f.run] # {} => f.todo = {}
HistoryOnRow ==
    \A c \in Collections : \A r \in RunIds : runFor[r] = {c} /\ r \notin unmarked =>
        /\ verdict[r] \in Closed => ranAt[c] >= r
        /\ verdict[r] = "succeeded" => goodAt[c] >= r
NobodyOutlives == RowsAreServed /\ (\A w \in Frames : FrameKeepsRun(w, frame[w])) /\ HistoryOnRow

IInvSteady == IInv /\ NobodyOutlives

-----------------------------------------------------------------------------
(* A step of one frame that grants no run and leaves the schedule alone.    *)

Becomes(w, g) == frame' = [frame EXCEPT ![w] = g]
ClosesOnly ==
    /\ verdict' \in [RunIds -> {"unused", "open", "succeeded", "failed"}]
    /\ \A r \in RunIds : /\ verdict'[r] = "unused" <=> verdict[r] = "unused"
                         /\ verdict'[r] = "open" => verdict[r] = "open"
RowTyped ==
    /\ ranAt \in [Collections -> 0..MaxRuns]
    /\ ranStatus \in [Collections -> Outcomes]
    /\ goodAt \in [Collections -> 0..MaxRuns]
    /\ unmarked \subseteq RunIds

\* What such a step owes: its frame keeps its shape, takes on no run and no
\* occurrence, and what remains of its work is what it had.
SoundFrame(w, f, g) ==
    /\ g \in Frame
    /\ \A c, d \in g.coll : c = d
    /\ g.stage = "idle" => g.todo = {}
    /\ w \in Tickers => TickShape(g) /\ \A x \in g.todo : x[2] <= arrived[x[1]]
    /\ w \in Requesters => TaskShape(g) /\ RunWork(g)
    /\ g.run # 0 => g.run = f.run
    /\ RunInHand(g)
    /\ \A c \in Collections : \A n \in Occurrences : w \in Tickers /\ Holds(g, c, n) => Holds(f, c, n)

LEMMA FrameTyped ==
    ASSUME TypeOK, NEW w \in Frames
    PROVE  /\ frame[w] \in Frame
           /\ frame[w].run \in 0..MaxRuns /\ frame[w].occ \in 0..MaxDue
           /\ frame[w].coll \subseteq Collections
           /\ frame[w].todo \subseteq Collections \X (0..MaxDue)
BY DEF TypeOK, Frame

LEMMA OneFrameMoves ==
    ASSUME TypeOK, NEW w \in Frames, NEW g, g \in Frame, Becomes(w, g)
    PROVE  /\ frame' \in [Frames -> Frame]
           /\ frame'[w] = g
           /\ \A v \in Frames : v # w => frame'[v] = frame[v]
BY DEF TypeOK, Becomes

\* Such a step keeps the invariant.
LEMMA SoundFrameKeeps ==
    ASSUME IInv, NEW w \in Frames, NEW g, Becomes(w, g), SoundFrame(w, frame[w], g),
           ClosesOnly, RowTyped', saved' = saved, UNCHANGED <<serves, runFor, runOcc, schedule>>
    PROVE  IInv'
<1>1. /\ frame' \in [Frames -> Frame]
      /\ frame'[w] = g
      /\ \A v \in Frames : v # w => frame'[v] = frame[v]
  BY OneFrameMoves DEF IInv, SoundFrame
<1>2. TypeOK'
  BY <1>1 DEF IInv, TypeOK, RowTyped, ClosesOnly, schedule
<1>3. Shapes'
  BY <1>1, Zenon DEF IInv, Shapes, SoundFrame, Frames
<1>4. RunsInOrder' /\ OpenIsNewest' /\ RunServes'
  BY DEF IInv, RunsKept, RunsInOrder, OpenIsNewest, RunServes, ClosesOnly
<1>5. RunsOwned'
  <2>1. ASSUME NEW f \in Frame, RunInHand(f) PROVE RunInHand(f)'
    BY <2>1 DEF RunInHand, ClosesOnly, Frame, RunIds
  <2>2. ASSUME NEW f \in Frame, RunWork(f) PROVE RunWork(f)'
    BY <2>2 DEF RunWork
  <2>3. ASSUME NEW v \in Frames PROVE RunInHand(frame[v])'
    <3>1. PICK f \in Frame : f = frame'[v] /\ RunInHand(f)
      BY <1>1, Zenon DEF IInv, RunsKept, RunsOwned, SoundFrame
    <3> QED
      BY <2>1, <3>1 DEF RunInHand
  <2>4. ASSUME NEW v \in Requesters PROVE RunWork(frame[v])'
    <3>1. PICK f \in Frame : f = frame'[v] /\ RunWork(f)
      BY <1>1, Zenon DEF IInv, RunsKept, RunsOwned, SoundFrame, Frames
    <3> QED
      BY <2>2, <3>1 DEF RunWork
  <2>5. ASSUME NEW u \in Frames, NEW v \in Frames, frame'[u].run # 0, frame'[u].run = frame'[v].run PROVE u = v
    BY <1>1, <2>5 DEF IInv, RunsKept, RunsOwned, SoundFrame
  <2> QED
    BY <2>3, <2>4, <2>5 DEF RunsOwned
<1>6. OccurrencesKept'
  <2>1. DueIsNear' /\ WindowsNamed'
    BY DEF IInv, OccurrencesKept, DueIsNear, WindowsNamed, schedule
  <2>2. ClaimsArrived'
    BY <1>1 DEF IInv, OccurrencesKept, ClaimsArrived, SoundFrame, schedule, Frames
  <2>3. ASSUME NEW v \in Tickers, NEW c \in Collections, NEW n \in Occurrences, Holds(frame'[v], c, n)
        PROVE  Holds(frame[v], c, n)
    BY <1>1, <2>3, Zenon DEF SoundFrame, Frames
  <2>4. ASSUME NEW r \in RunIds, NEW c, NEW n, Ran(r, c, n)' PROVE Ran(r, c, n)
    BY <2>4 DEF Ran
  <2>5. InOnePlace'
    <3> SUFFICES ASSUME NEW c \in Collections, NEW n \in Occurrences
                 PROVE  /\ \A v \in Tickers : Holds(frame'[v], c, n) => n < nextDue'[c]
                        /\ \A r \in RunIds : Ran(r, c, n)' => n < nextDue'[c]
                        /\ \A u, v \in Tickers : Holds(frame'[u], c, n) /\ Holds(frame'[v], c, n) => u = v
                        /\ \A v \in Tickers, r \in RunIds : ~(Holds(frame'[v], c, n) /\ Ran(r, c, n)')
                        /\ \A r, s \in RunIds : Ran(r, c, n)' /\ Ran(s, c, n)' => r = s
      BY Zenon DEF InOnePlace, Holds, Ran, Occurrences
    <3>1. nextDue' = nextDue
      BY DEF schedule
    <3> QED
      BY <2>3, <2>4, <3>1 DEF IInv, OccurrencesKept, InOnePlace
  <2> QED
    BY <2>1, <2>2, <2>5 DEF OccurrencesKept
<1> QED
  BY <1>2, <1>3, <1>4, <1>5, <1>6 DEF IInv, RunsKept

-----------------------------------------------------------------------------
(* Each such step is sound.                                                 *)

\* Going to rest.
LEMMA RestFields ==
    /\ Resting \in Frame
    /\ Resting.stage = "idle" /\ Resting.todo = {} /\ Resting.coll = {} /\ Resting.occ = 0
    /\ Resting.run = 0 /\ Resting.stalled = FALSE
<1>1. Resting \in Frame
  BY BoundsAssumption DEF Resting, Frame, Outcomes
<1> QED
  BY <1>1 DEF Resting

LEMMA RestIsSound ==
    ASSUME IInv, NEW w \in Frames
    PROVE  SoundFrame(w, frame[w], Resting)
BY RestFields DEF SoundFrame, TickShape, TaskShape, RunWork, RunInHand, Holds

\* The part of the invariant that speaks of one frame.
LEMMA FrameFacts ==
    ASSUME IInv, NEW w \in Frames
    PROVE  /\ frame[w] \in Frame
           /\ \A c, d \in frame[w].coll : c = d
           /\ frame[w].stage = "idle" => frame[w].todo = {}
           /\ w \in Tickers => TickShape(frame[w]) /\ \A x \in frame[w].todo : x[2] <= arrived[x[1]]
           /\ w \in Requesters => TaskShape(frame[w]) /\ RunWork(frame[w])
           /\ RunInHand(frame[w])
BY DEF IInv, TypeOK, Shapes, RunsKept, RunsOwned, OccurrencesKept, ClaimsArrived

LEMMA InHandIsIn ==
    ASSUME IInv, NEW w \in Frames, frame[w].coll # {}
    PROVE  InHand(w) \in Collections /\ frame[w].coll = {InHand(w)}
<1>1. frame[w].coll \subseteq Collections /\ \A c, d \in frame[w].coll : c = d
  BY FrameFacts DEF Frame
<1>2. \E c \in Collections : c \in frame[w].coll
  BY <1>1
<1>3. InHand(w) \in Collections /\ InHand(w) \in frame[w].coll
  BY <1>2 DEF InHand
<1> QED
  BY <1>1, <1>3

\* Being done with a collection.
LEMMA DoneIsSound ==
    ASSUME IInv, NEW w \in Frames, frame[w].stage \notin {"idle", "claim"}
    PROVE  SoundFrame(w, frame[w], Done(w))
<1>1. CASE w \notin Tickers
  BY <1>1, RestIsSound DEF Done
<1>2. CASE w \in Tickers
  <2> DEFINE g == [Resting EXCEPT !.stage = "next", !.todo = frame[w].todo]
  <2>1. g \in Frame /\ g.stage = "next" /\ g.todo = frame[w].todo /\ g.coll = {} /\ g.occ = 0 /\ g.run = 0
    <3>1. frame[w].todo \in SUBSET (Collections \X (0..MaxDue))
      BY FrameFacts DEF Frame
    <3>2. Resting \in Frame
      BY RestFields
    <3>3. g \in Frame /\ g.stage = "next" /\ g.todo = frame[w].todo /\ g.coll = Resting.coll
          /\ g.occ = Resting.occ /\ g.run = Resting.run
      BY <3>1, <3>2 DEF Frame
    <3> QED
      BY <3>3, RestFields
  <2>2. w \notin Requesters
    BY <1>2, FramesAssumption
  <2> HIDE DEF g
  <2>3. SoundFrame(w, frame[w], g)
    BY <1>2, <2>1, <2>2, FrameFacts DEF SoundFrame, TickShape, RunInHand, Holds
  <2> QED
    BY <1>2, <2>3 DEF g, Done
<1> QED
  BY <1>1, <1>2

\* Loading and expiring copies changes the copies alone.
LEMMA CopiesAlone ==
    ASSUME TypeOK, NEW f \in Frame, NEW C
    PROVE  /\ Loaded(f, C) \in Frame /\ Expired(f) \in Frame
           /\ \A g \in {Loaded(f, C), Expired(f)} :
                 /\ g.stage = f.stage /\ g.todo = f.todo /\ g.coll = f.coll /\ g.occ = f.occ
                 /\ g.run = f.run /\ g.ok = f.ok /\ g.stalled = f.stalled /\ g.before = f.before
           /\ \A c \in Collections \cap C : Loaded(f, C).known[c] = ranStatus[c]
<1> DEFINE k == [c \in Collections |-> IF c \in C THEN ranStatus[c] ELSE f.known[c]]
           g == [c \in Collections |-> IF c \in C THEN goodAt[c] ELSE f.good[c]]
           e == [c \in Collections |-> "expired"]
<1>1. k \in [Collections -> Outcomes \cup {"expired"}] /\ g \in [Collections -> 0..MaxRuns]
      /\ \A c \in Collections \cap C : k[c] = ranStatus[c]
  BY DEF TypeOK, Frame
<1>2. e \in [Collections -> Outcomes \cup {"expired"}]
  OBVIOUS
<1>3. Loaded(f, C) = [f EXCEPT !.known = k, !.good = g] /\ Expired(f) = [f EXCEPT !.known = e]
  BY DEF Loaded, Expired
<1> HIDE DEF k, g, e
<1> DEFINE Same(h) == /\ h.stage = f.stage /\ h.todo = f.todo /\ h.coll = f.coll /\ h.occ = f.occ
                      /\ h.run = f.run /\ h.ok = f.ok /\ h.stalled = f.stalled /\ h.before = f.before
<1>4. Loaded(f, C) \in Frame /\ Same(Loaded(f, C)) /\ Loaded(f, C).known = k
  BY <1>1, <1>3 DEF Frame
<1>5. Expired(f) \in Frame /\ Same(Expired(f))
  BY <1>2, <1>3 DEF Frame
<1> QED
  BY <1>1, <1>4, <1>5

LEMMA LocalStep ==
    ASSUME IInv, NEW w \in Frames, NEW g, Become(w, g), SoundFrame(w, frame[w], g),
           UNCHANGED <<runs, schedule, row, unmarked>>
    PROVE  IInv'
<1>1. ClosesOnly /\ RowTyped'
  BY DEF IInv, TypeOK, ClosesOnly, RowTyped, runs, row
<1>2. Becomes(w, g) /\ saved' = saved /\ UNCHANGED <<serves, runFor, runOcc, schedule>>
  BY DEF Become, Becomes, runs
<1> QED
  BY <1>1, <1>2, SoundFrameKeeps

\* A step that also writes the row.
LEMMA RowStep ==
    ASSUME IInv, NEW w \in Frames, NEW g, Becomes(w, g), SoundFrame(w, frame[w], g), RowTyped',
           UNCHANGED <<runs, schedule>>
    PROVE  IInv'
<1>1. ClosesOnly
  BY DEF IInv, TypeOK, ClosesOnly, runs
<1>2. saved' = saved /\ UNCHANGED <<serves, runFor, runOcc>>
  BY DEF runs
<1> QED
  BY <1>1, <1>2, SoundFrameKeeps

LEMMA ClaimReadKeeps ==
    ASSUME IInv, NEW w \in Tickers, ClaimRead(w) PROVE IInv'
<1> DEFINE due == {c \in Collections : Due(c) /\ ~(c \in Sweeps /\ Busy(SweepLock))}
           todo == {<<c, LatestDue(c)>> : c \in due}
           g == [Resting EXCEPT !.stage = "claim", !.todo = todo]
<1>1. \A c \in due : c \in Collections /\ LatestDue(c) = arrived[c] /\ LatestDue(c) \in 1..MaxDue
  BY BoundsAssumption DEF Due, LatestDue, IInv, TypeOK
<1>2. \A x \in todo : x[1] \in due /\ x = <<x[1], LatestDue(x[1])>>
  OBVIOUS
<1>3. todo \in SUBSET (Collections \X (0..MaxDue))
  BY <1>1
<1>4. Become(w, g) /\ UNCHANGED <<runs, schedule, row, unmarked>>
  BY DEF ClaimRead
<1> HIDE DEF due, todo
<1>5. g \in Frame /\ g.stage = "claim" /\ g.todo = todo /\ g.coll = {} /\ g.occ = 0 /\ g.run = 0
  <2>1. g \in Frame /\ g.stage = "claim" /\ g.todo = todo /\ g.coll = Resting.coll
        /\ g.occ = Resting.occ /\ g.run = Resting.run
    BY <1>3, RestFields DEF Frame
  <2> QED
    BY <2>1, RestFields
<1> HIDE DEF g
<1>6. \A x \in todo : x[2] = arrived[x[1]] /\ x[2] # 0
  BY <1>1, <1>2
<1>7. \A x, y \in todo : x[1] = y[1] => x = y
  BY <1>2
<1>8. w \in Frames /\ w \notin Requesters
  BY FramesAssumption DEF Frames
<1>9. \A x \in todo : x[2] <= arrived[x[1]]
  BY <1>1, <1>2, <1>6, BoundsAssumption
<1>10. SoundFrame(w, frame[w], g)
  BY <1>5, <1>6, <1>7, <1>8, <1>9 DEF SoundFrame, TickShape, RunInHand, Holds, Occurrences
<1> QED
  BY <1>4, <1>8, <1>10, LocalStep

LEMMA PickKeeps ==
    ASSUME IInv, NEW w \in Tickers, NEW x \in frame[w].todo, Pick(w, x) PROVE IInv'
<1> DEFINE f == Loaded(frame[w], {x[1]})
           g == [f EXCEPT !.stage = "picked", !.coll = {x[1]}, !.occ = x[2], !.todo = @ \ {x}]
<1>1. w \in Frames /\ w \notin Requesters
  BY FramesAssumption DEF Frames
<1>2. x \in Collections \X (0..MaxDue) /\ frame[w].stage = "next" /\ frame[w] \in Frame
  BY <1>1, FrameFacts DEF Pick, At, Frame
<1>3. f \in Frame /\ f.run = frame[w].run /\ f.todo = frame[w].todo
  BY <1>2, CopiesAlone DEF IInv
<1>4. Become(w, g) /\ UNCHANGED <<runs, schedule, row, unmarked>>
  BY DEF Pick
<1> HIDE DEF f
<1>5. /\ g \in Frame /\ g.stage = "picked" /\ g.coll = {x[1]} /\ g.occ = x[2] /\ g.run = frame[w].run
      /\ g.todo = frame[w].todo \ {x}
  BY <1>2, <1>3 DEF Frame
<1> HIDE DEF g
<1>6. TickShape(frame[w]) /\ \A y \in frame[w].todo : y[2] <= arrived[y[1]]
  BY <1>1, FrameFacts
<1>7. \A c \in Collections : \A n \in Occurrences : Holds(g, c, n) => Holds(frame[w], c, n)
  BY <1>2, <1>5 DEF Holds
<1>8. TickShape(g) /\ g.run = 0
  BY <1>2, <1>5, <1>6 DEF TickShape
<1>9. SoundFrame(w, frame[w], g)
  BY <1>1, <1>5, <1>6, <1>7, <1>8 DEF SoundFrame, RunInHand
<1> QED
  BY <1>1, <1>4, <1>9, LocalStep

LEMMA SkipInFloorKeeps ==
    ASSUME IInv, NEW w \in Tickers, NEW x \in frame[w].todo, SkipInFloor(w, x) PROVE IInv'
<1> DEFINE g == [frame[w] EXCEPT !.todo = @ \ {x}]
<1>1. w \in Frames /\ w \notin Requesters
  BY FramesAssumption DEF Frames
<1>2. x \in Collections \X (0..MaxDue) /\ frame[w].stage = "next" /\ frame[w] \in Frame
  BY <1>1, FrameFacts DEF SkipInFloor, At, Frame
<1>3. Becomes(w, g) /\ UNCHANGED <<runs, schedule>>
  BY DEF SkipInFloor, Becomes
<1>4. RowTyped'
  BY DEF SkipInFloor, RowTyped, IInv, TypeOK, Outcomes
<1>5. /\ g \in Frame /\ g.stage = "next" /\ g.coll = frame[w].coll /\ g.occ = frame[w].occ
      /\ g.run = frame[w].run /\ g.todo = frame[w].todo \ {x}
  BY <1>2 DEF Frame
<1> HIDE DEF g
<1>6. TickShape(frame[w]) /\ \A y \in frame[w].todo : y[2] <= arrived[y[1]]
  BY <1>1, FrameFacts
<1>7. TickShape(g) /\ g.coll = {} /\ g.run = 0
  BY <1>2, <1>5, <1>6 DEF TickShape
<1>8. SoundFrame(w, frame[w], g)
  BY <1>1, <1>2, <1>5, <1>6, <1>7 DEF SoundFrame, RunInHand, Holds
<1> QED
  BY <1>1, <1>3, <1>4, <1>8, RowStep

LEMMA RestingKeeps ==
    ASSUME IInv, NEW w \in Frames, Become(w, Resting), UNCHANGED <<runs, schedule, row, unmarked>> PROVE IInv'
BY RestIsSound, LocalStep

LEMMA DoneKeeps ==
    ASSUME IInv, NEW w \in Frames, frame[w].stage \notin {"idle", "claim"}, Become(w, Done(w)),
           UNCHANGED <<runs, schedule, row, unmarked>>
    PROVE  IInv'
BY DoneIsSound, LocalStep

LEMMA RequestKeeps ==
    ASSUME IInv, NEW w \in Requesters, (\E c \in Collections : RequestOne(w, c)) \/ RequestAll(w)
    PROVE  IInv'
<1>1. w \in Frames /\ w \notin Tickers
  BY FramesAssumption DEF Frames
<1>2. UNCHANGED <<runs, schedule, row, unmarked>>
  BY DEF RequestOne, RequestAll
<1>3. ASSUME NEW c \in Collections, RequestOne(w, c) PROVE IInv'
  <2> DEFINE k == [Resting EXCEPT !.stage = "picked", !.coll = {c}, !.todo = {<<c, 0>>}]
  <2>1. Become(w, k)
    BY <1>3 DEF RequestOne
  <2>2. /\ k \in Frame /\ k.stage = "picked" /\ k.coll = {c} /\ k.todo = {<<c, 0>>}
        /\ k.occ = Resting.occ /\ k.run = Resting.run
    <3>1. {<<c, 0>>} \in SUBSET (Collections \X (0..MaxDue))
      BY BoundsAssumption
    <3> QED
      BY <3>1, RestFields DEF Frame
  <2> HIDE DEF k
  <2>3. TaskShape(k)
    BY <2>2, RestFields DEF TaskShape
  <2>4. SoundFrame(w, frame[w], k)
    BY <1>1, <2>2, <2>3, RestFields DEF SoundFrame, RunWork, RunInHand
  <2> QED
    BY <1>1, <1>2, <2>1, <2>4, LocalStep
<1>4. ASSUME RequestAll(w) PROVE IInv'
  <2> DEFINE k == [Resting EXCEPT !.stage = "picked", !.todo = Sweeps \X {0}]
  <2>1. Become(w, k)
    BY <1>4 DEF RequestAll
  <2>2. /\ k \in Frame /\ k.stage = "picked" /\ k.todo = Sweeps \X {0} /\ k.coll = Resting.coll
        /\ k.occ = Resting.occ /\ k.run = Resting.run
    <3>1. Sweeps \X {0} \in SUBSET (Collections \X (0..MaxDue))
      BY KindsAssumption, BoundsAssumption
    <3> QED
      BY <3>1, RestFields DEF Frame
  <2> HIDE DEF k
  <2>3. TaskShape(k)
    BY <2>2, RestFields DEF TaskShape
  <2>4. SoundFrame(w, frame[w], k)
    BY <1>1, <2>2, <2>3, RestFields DEF SoundFrame, RunWork, RunInHand
  <2> QED
    BY <1>1, <1>2, <2>1, <2>4, LocalStep
<1> QED
  BY <1>3, <1>4

LEMMA TaskStepsKeep ==
    ASSUME IInv, NEW w \in Requesters, Task(w) PROVE IInv'
<1>1. w \in Frames /\ w \notin Tickers
  BY FramesAssumption DEF Frames
<1>2. frame[w] \in Frame /\ TaskShape(frame[w]) /\ RunWork(frame[w]) /\ RunInHand(frame[w])
      /\ \A c, d \in frame[w].coll : c = d
  BY <1>1, FrameFacts
<1>3. ASSUME StartTask(w) PROVE IInv'
  <2> DEFINE f == Loaded(frame[w], {x[1] : x \in frame[w].todo})
             g == [f EXCEPT !.stage = "next"]
  <2>1. Become(w, g) /\ UNCHANGED <<runs, schedule, row, unmarked>> /\ frame[w].stage = "start"
    BY <1>3 DEF StartTask, At
  <2>2. f \in Frame /\ f.run = frame[w].run /\ f.todo = frame[w].todo /\ f.coll = frame[w].coll
        /\ f.occ = frame[w].occ
    BY <1>2, CopiesAlone DEF IInv
  <2> HIDE DEF f
  <2>3. g \in Frame /\ g.stage = "next" /\ g.run = frame[w].run /\ g.todo = frame[w].todo
        /\ g.coll = frame[w].coll /\ g.occ = frame[w].occ
    BY <2>2 DEF Frame
  <2> HIDE DEF g
  <2>4. TaskShape(g) /\ RunWork(g) /\ RunInHand(g)
    BY <1>2, <2>1, <2>3 DEF TaskShape, RunWork, RunInHand
  <2> QED
    BY <1>1, <1>2, <2>1, <2>3, <2>4, LocalStep DEF SoundFrame
<1>4. ASSUME NEW x \in frame[w].todo, TakeNext(w, x) PROVE IInv'
  <2> DEFINE g == [frame[w] EXCEPT !.stage = "working", !.coll = {x[1]},
                                   !.before = frame[w].good[x[1]], !.todo = @ \ {x}]
  <2>1. Become(w, g) /\ UNCHANGED <<runs, schedule, row, unmarked>> /\ frame[w].stage = "next"
    BY <1>4 DEF TakeNext, At
  <2>2. x \in Collections \X (0..MaxDue) /\ frame[w].good[x[1]] \in 0..MaxRuns
    BY <1>2 DEF Frame
  <2>3. g \in Frame /\ g.stage = "working" /\ g.run = frame[w].run /\ g.todo = frame[w].todo \ {x}
        /\ g.coll = {x[1]} /\ g.occ = frame[w].occ
    BY <1>2, <2>2 DEF Frame
  <2> HIDE DEF g
  <2>4. frame[w].run # 0
    BY <1>2, <2>1 DEF TaskShape
  <2>5. TaskShape(g)
    BY <1>2, <2>1, <2>3, <2>4 DEF TaskShape
  <2>6. runFor[frame[w].run] # {} => frame[w].coll = {x[1]}
    BY <1>2, <2>4 DEF RunWork
  <2>7. RunWork(g) /\ RunInHand(g)
    <3>1. serves[g.run] = LockOf(x[1]) /\ \A y \in g.todo : serves[g.run] = LockOf(y[1])
      BY <1>2, <2>3, <2>4 DEF RunWork
    <3>2. runFor[g.run] # {} => runFor[g.run] = g.coll /\ \A y \in g.todo : y[1] \in g.coll
      BY <1>2, <2>3, <2>4, <2>6 DEF RunWork, RunInHand
    <3> QED
      BY <1>2, <2>3, <2>4, <3>1, <3>2 DEF RunWork, RunInHand
  <2> QED
    BY <1>1, <2>1, <2>3, <2>5, <2>7, LocalStep DEF SoundFrame
<1>5. ASSUME NEW x \in frame[w].todo, TaskRaises(w, x) PROVE IInv'
  <2> DEFINE g == [frame[w] EXCEPT !.stage = "finish", !.ok = FALSE, !.todo = {}]
  <2>1. Become(w, g) /\ UNCHANGED <<runs, schedule, row, unmarked>> /\ frame[w].stage = "next"
    BY <1>5 DEF TaskRaises, At
  <2>2. g \in Frame /\ g.stage = "finish" /\ g.run = frame[w].run /\ g.todo = {}
        /\ g.coll = frame[w].coll /\ g.occ = frame[w].occ
    BY <1>2 DEF Frame
  <2> HIDE DEF g
  <2>3. TaskShape(g) /\ RunWork(g) /\ RunInHand(g)
    BY <1>2, <2>1, <2>2 DEF TaskShape, RunWork, RunInHand
  <2> QED
    BY <1>1, <1>2, <2>1, <2>2, <2>3, LocalStep DEF SoundFrame
<1>6. ASSUME TaskReturns(w) PROVE IInv'
  BY <1>1, <1>6, DoneKeeps DEF TaskReturns, At
<1> QED
  BY <1>3, <1>4, <1>5, <1>6 DEF Task

LEMMA EnvironmentKeeps ==
    ASSUME IInv, NEW w \in Frames, Crash(w) \/ Stall(w) \/ Wake(w) PROVE IInv'
<1>1. frame[w] \in Frame
  BY FrameFacts
<1>2. CASE Crash(w)
  BY <1>2, RestingKeeps DEF Crash
<1>3. ASSUME NEW b \in BOOLEAN, frame' = [frame EXCEPT ![w].stalled = b],
             UNCHANGED <<runs, schedule, row, unmarked>>
      PROVE  IInv'
  <2> DEFINE g == [frame[w] EXCEPT !.stalled = b]
  <2>1. Become(w, g)
    BY <1>3 DEF Become
  <2>2. g \in Frame /\ g.stage = frame[w].stage /\ g.run = frame[w].run /\ g.todo = frame[w].todo
        /\ g.coll = frame[w].coll /\ g.occ = frame[w].occ
    BY <1>1 DEF Frame
  <2> HIDE DEF g
  <2>3. SoundFrame(w, frame[w], g)
    BY <2>2, FrameFacts DEF SoundFrame, TickShape, TaskShape, RunWork, RunInHand, Holds
  <2> QED
    BY <1>3, <2>1, <2>3, LocalStep
<1> QED
  BY <1>2, <1>3 DEF Stall, Wake

\* A frame in an attempt has the collection and the run it is for.
LEMMA Attempting ==
    ASSUME IInv, NEW w \in Frames, frame[w].stage \in {"working", "refused"}, w \in Tickers \/ frame[w].stage = "working"
    PROVE  /\ frame[w].coll # {} /\ InHand(w) \in Collections /\ frame[w].coll = {InHand(w)}
           /\ frame[w].run \in RunIds /\ serves[frame[w].run] = LockOf(InHand(w))
           /\ verdict[frame[w].run] # "unused"
<1>1. frame[w].coll # {} /\ frame[w].run # 0 /\ frame[w].run \in 0..MaxRuns
  BY FrameFacts DEF Frame, TickShape, TaskShape, Frames
<1>2. InHand(w) \in Collections /\ frame[w].coll = {InHand(w)}
  BY <1>1, InHandIsIn
<1> QED
  BY <1>1, <1>2, FrameFacts, BoundsAssumption DEF RunInHand, RunIds

LEMMA GoesOn ==
    ASSUME NEW w \in Frames, NEW h \in Frame
    PROVE  LET g == Then(w, h) IN
           /\ g \in Frame /\ g.todo = h.todo /\ g.coll = h.coll /\ g.occ = h.occ /\ g.run = h.run
           /\ g.known = h.known /\ g.ok = h.ok /\ g.stalled = h.stalled /\ g.good = h.good
           /\ g.stage = IF w \in Requesters /\ h.todo # {} THEN "next" ELSE "finish"
BY DEF Then, Frame

\* Going on from an attempt.
LEMMA GoingOnIsSound ==
    ASSUME IInv, NEW w \in Frames, frame[w].stage = "working", NEW h \in Frame,
           h.todo = frame[w].todo, h.coll = frame[w].coll, h.occ = frame[w].occ, h.run = frame[w].run
    PROVE  SoundFrame(w, frame[w], Then(w, h))
<1> DEFINE g == Then(w, h)
<1>1. /\ g \in Frame /\ g.todo = frame[w].todo /\ g.coll = frame[w].coll /\ g.occ = frame[w].occ
      /\ g.run = frame[w].run /\ g.stage \in {"next", "finish"} /\ (w \in Tickers => g.stage = "finish")
  BY GoesOn, FramesAssumption
<1> HIDE DEF g
<1>2. /\ w \in Tickers => TickShape(frame[w]) /\ \A x \in frame[w].todo : x[2] <= arrived[x[1]]
      /\ w \in Requesters => TaskShape(frame[w]) /\ RunWork(frame[w])
      /\ RunInHand(frame[w]) /\ \A c, d \in frame[w].coll : c = d
  BY FrameFacts
<1>3. w \in Tickers => TickShape(g)
  BY <1>1, <1>2 DEF TickShape
<1>4. w \in Requesters => TaskShape(g) /\ RunWork(g)
  BY <1>1, <1>2 DEF TaskShape, RunWork
<1>5. SoundFrame(w, frame[w], g)
  BY <1>1, <1>2, <1>3, <1>4 DEF SoundFrame, RunInHand, Holds
<1> QED
  BY <1>5 DEF g

\* The copy an attempt leaves behind.
LEMMA CopyWritten ==
    ASSUME NEW f \in Frame, NEW c \in Collections, NEW s \in Outcomes, NEW r \in 0..MaxRuns, NEW b \in BOOLEAN
    PROVE  LET h == [f EXCEPT !.known[c] = s, !.good[c] = r]
               k == [f EXCEPT !.known[c] = s, !.good[c] = r, !.ok = b]
           IN /\ h \in Frame /\ h.todo = f.todo /\ h.coll = f.coll /\ h.occ = f.occ /\ h.run = f.run
              /\ h.known[c] = s /\ h.ok = f.ok /\ h.stalled = f.stalled
              /\ k \in Frame /\ k.todo = f.todo /\ k.coll = f.coll /\ k.occ = f.occ /\ k.run = f.run
              /\ k.known[c] = s /\ k.ok = b /\ k.stalled = f.stalled
BY DEF Frame

LEMMA AccountOkKeeps ==
    ASSUME IInv, NEW w \in Frames, NEW tolerated \in BOOLEAN, AccountOk(w, tolerated) PROVE IInv'
<1> DEFINE c == InHand(w)
           f == IF tolerated THEN Expired(frame[w]) ELSE frame[w]
           h == [f EXCEPT !.known[c] = "ok", !.good[c] = frame[w].run]
<1>1. frame[w].stage = "working" /\ Becomes(w, Then(w, h)) /\ UNCHANGED <<runs, schedule>>
  BY DEF AccountOk, At, Become, Becomes, MyRun
<1>2. c \in Collections /\ frame[w].run \in RunIds /\ frame[w] \in Frame
  BY <1>1, Attempting, FrameFacts
<1>3. RowTyped'
  BY <1>2 DEF AccountOk, RowTyped, MyRun, RunIds, IInv, TypeOK, Outcomes
<1>4. f \in Frame /\ f.todo = frame[w].todo /\ f.coll = frame[w].coll /\ f.occ = frame[w].occ
      /\ f.run = frame[w].run
  BY <1>2, CopiesAlone DEF IInv
<1> HIDE DEF f, c
<1>5. h \in Frame /\ h.todo = f.todo /\ h.coll = f.coll /\ h.occ = f.occ /\ h.run = f.run
  <2>1. "ok" \in Outcomes /\ frame[w].run \in 0..MaxRuns
    BY <1>2 DEF Outcomes, RunIds
  <2> QED
    BY <1>2, <1>4, <2>1 DEF Frame
<1> HIDE DEF h
<1>6. SoundFrame(w, frame[w], Then(w, h))
  BY <1>1, <1>4, <1>5, GoingOnIsSound
<1> QED
  BY <1>1, <1>3, <1>6, RowStep

LEMMA AccountFailedKeeps ==
    ASSUME IInv, NEW w \in Frames, AccountFailed(w) PROVE IInv'
<1> DEFINE c == InHand(w)
           f == Expired(frame[w])
           h == [f EXCEPT !.known[c] = "failed", !.good[c] = goodAt[c], !.ok = FALSE]
<1>1. frame[w].stage = "working" /\ Becomes(w, Then(w, h)) /\ UNCHANGED <<runs, schedule>>
  BY DEF AccountFailed, At, Become, Becomes
<1>2. c \in Collections /\ frame[w].run \in RunIds /\ frame[w] \in Frame
  BY <1>1, Attempting, FrameFacts
<1>3. RowTyped'
  BY <1>2 DEF AccountFailed, RowTyped, MyRun, RunIds, IInv, TypeOK, Outcomes
<1>4. f \in Frame /\ f.todo = frame[w].todo /\ f.coll = frame[w].coll /\ f.occ = frame[w].occ
      /\ f.run = frame[w].run
  BY <1>2, CopiesAlone DEF IInv
<1> HIDE DEF f, c
<1>5. h \in Frame /\ h.todo = f.todo /\ h.coll = f.coll /\ h.occ = f.occ /\ h.run = f.run
  <2>1. "failed" \in Outcomes /\ goodAt[c] \in 0..MaxRuns
    BY <1>2 DEF Outcomes, IInv, TypeOK
  <2> QED
    BY <1>2, <1>4, <2>1 DEF Frame
<1> HIDE DEF h
<1>6. SoundFrame(w, frame[w], Then(w, h))
  BY <1>1, <1>4, <1>5, GoingOnIsSound
<1> QED
  BY <1>1, <1>3, <1>6, RowStep

LEMMA AccountReclaimedKeeps ==
    ASSUME IInv, NEW w \in Frames, AccountReclaimed(w) PROVE IInv'
<1>1. frame[w].stage = "working" /\ Becomes(w, Done(w)) /\ UNCHANGED <<runs, schedule>>
  BY DEF AccountReclaimed, At, Become, Becomes
<1>2. InHand(w) \in Collections /\ frame[w].run \in RunIds
  BY <1>1, Attempting
<1>3. RowTyped'
  BY <1>2 DEF AccountReclaimed, RowTyped, MyRun, RunIds, IInv, TypeOK, Outcomes
<1> QED
  BY <1>1, <1>3, DoneIsSound, RowStep

LEMMA DowngradeKeeps ==
    ASSUME IInv, NEW w \in Tickers, Downgrade(w) PROVE IInv'
<1>1. w \in Frames
  BY DEF Frames
<1>2. frame[w].stage = "refused" /\ Becomes(w, Done(w)) /\ UNCHANGED <<runs, schedule>>
  BY DEF Downgrade, At, Become, Becomes
<1>3. InHand(w) \in Collections /\ frame[w].before \in 0..MaxRuns
  BY <1>1, <1>2, Attempting, FrameFacts DEF Frame
<1>4. RowTyped'
  BY <1>3 DEF Downgrade, RowTyped, IInv, TypeOK, Outcomes
<1> QED
  BY <1>1, <1>2, <1>4, DoneIsSound, RowStep

LEMMA FinishKeeps ==
    ASSUME IInv, NEW w \in Frames, Finish(w) PROVE IInv'
<1>1. frame[w].stage = "finish" /\ Becomes(w, Done(w)) /\ UNCHANGED <<runFor, runOcc, schedule, row, unmarked>>
  BY DEF Finish, At, Become, Becomes
<1> DEFINE v == IF frame[w].ok THEN "succeeded" ELSE "failed"
<1>2. frame[w].run \in RunIds
  <2>1. frame[w].run # 0 /\ frame[w].run \in 0..MaxRuns
    BY <1>1, FrameFacts DEF Frame, TickShape, TaskShape, Frames
  <2> QED
    BY <2>1, BoundsAssumption DEF RunIds
<1>3. verdict[frame[w].run] = "open" /\ verdict' = [verdict EXCEPT ![frame[w].run] = v] /\ serves' = serves
      /\ saved' = [saved EXCEPT ![frame[w].run] = @ + 0]
  BY DEF Finish, Lock!Release, MyRun
<1>4. saved' = saved
  BY <1>2, <1>3 DEF IInv, TypeOK
<1>5. ClosesOnly
  BY <1>2, <1>3 DEF ClosesOnly, IInv, TypeOK
<1>6. RowTyped'
  BY <1>1 DEF RowTyped, IInv, TypeOK, row
<1> QED
  BY <1>1, <1>3, <1>4, <1>5, <1>6, DoneIsSound, SoundFrameKeeps

LEMMA FinishRefusedKeeps ==
    ASSUME IInv, NEW w \in Frames, FinishRefused(w) PROVE IInv'
<1> DEFINE g == [frame[w] EXCEPT !.stage = "refused"]
<1>1. Become(w, g) /\ UNCHANGED <<runs, schedule, row, unmarked>> /\ frame[w].stage = "finish"
  BY DEF FinishRefused, At, GoTo, Become
<1>2. frame[w] \in Frame
  BY FrameFacts
<1>3. g \in Frame /\ g.stage = "refused" /\ g.run = frame[w].run /\ g.todo = frame[w].todo
      /\ g.coll = frame[w].coll /\ g.occ = frame[w].occ
  BY <1>2 DEF Frame
<1> HIDE DEF g
<1>4. SoundFrame(w, frame[w], g)
  BY <1>1, <1>3, FrameFacts DEF SoundFrame, TickShape, TaskShape, RunWork, RunInHand, Holds
<1> QED
  BY <1>1, <1>4, LocalStep

LEMMA AttemptKeeps ==
    ASSUME IInv, NEW w \in Frames, Attempt(w) PROVE IInv'
BY AccountOkKeeps, AccountFailedKeeps, AccountReclaimedKeeps, FinishKeeps, FinishRefusedKeeps DEF Attempt

-----------------------------------------------------------------------------
(* Acquiring: somebody else's run may be closed, one's own is granted.      *)

\* Of the runs in a set that is not empty one is the newest.
LEMMA NewestExists ==
    ASSUME NEW S \in SUBSET RunIds, S # {}
    PROVE  Newest(S) \in S /\ \A r \in S : r <= Newest(S)
<1> DEFINE T == {n \in Nat : \E r \in S : n = MaxRuns - r}
<1>1. \A r \in S : MaxRuns - r \in T /\ r \in Nat
  BY BoundsAssumption DEF RunIds
<1>2. T \in SUBSET Nat /\ T # {}
  BY <1>1
<1>3. PICK n \in T : \A m \in T : n <= m
  <2> HIDE DEF T
  <2> QED
    BY <1>2, LeastExists
<1>4. PICK r \in S : n = MaxRuns - r
  BY <1>3
<1>5. \A s \in S : s <= r
  BY <1>1, <1>3, <1>4, BoundsAssumption
<1> QED
  BY <1>4, <1>5 DEF Newest

LEMMA ReclaimCloses ==
    ASSUME NEW w \in Frames, NEW S \in SUBSET Dead, NEW mark \in BOOLEAN, Reclaim(w, S, mark)
    PROVE  /\ S \subseteq RunIds
           /\ \A r \in S : verdict[r] = "open"
           /\ verdict' = [r \in RunIds |-> IF r \in S THEN "failed" ELSE verdict[r]]
           /\ UNCHANGED <<serves, saved, runFor, runOcc, schedule, goodAt>>
           /\ unmarked' = IF mark THEN unmarked ELSE unmarked \cup S
BY DEF Dead, Reclaim, Lock!Revoke

\* A mark is newer than what it replaces, and of one of the closed runs.
LEMMA ReclaimMarks ==
    ASSUME IInv, NEW w \in Frames, NEW S \in SUBSET Dead, NEW mark \in BOOLEAN, Reclaim(w, S, mark)
    PROVE  /\ ranAt' \in [Collections -> 0..MaxRuns]
           /\ ranStatus' \in [Collections -> Outcomes]
           /\ \A c \in Collections :
                 /\ ranAt'[c] # ranAt[c] => ranAt'[c] > ranAt[c] /\ ranAt'[c] \in S /\ c \in runFor[ranAt'[c]]
                 /\ mark => \A r \in S : c \in runFor[r] => ranAt'[c] >= r
                 /\ ranStatus'[c] # ranStatus[c] => ranStatus'[c] = "failed"
<1>1. S \subseteq RunIds
  BY DEF Dead
<1> DEFINE N(c) == Newest({r \in S : c \in runFor[r]})
<1>3. /\ ranAt' = [c \in Collections |-> IF mark /\ c \in Marked(S) THEN N(c) ELSE ranAt[c]]
      /\ ranStatus' = [c \in Collections |-> IF mark /\ c \in Marked(S) THEN "failed" ELSE ranStatus[c]]
  BY DEF Reclaim
<1>4. ASSUME NEW c \in Collections, NEW r \in S, c \in runFor[r]
      PROVE  N(c) \in S /\ c \in runFor[N(c)] /\ r <= N(c)
  <2> DEFINE M == {s \in S : c \in runFor[s]}
  <2>1. M \in SUBSET RunIds /\ r \in M
    BY <1>1, <1>4
  <2>2. Newest(M) \in M /\ r <= Newest(M)
    <3> HIDE DEF M
    <3> QED
      BY <2>1, NewestExists
  <2> QED
    BY <2>2
<1>5. \A c \in Collections : c \in Marked(S) <=> \E r \in S : c \in runFor[r] /\ ranAt[c] < r
  BY DEF Marked, Behind
<1> HIDE DEF N
<1>6. ranAt \in [Collections -> 0..MaxRuns] /\ ranStatus \in [Collections -> Outcomes]
      /\ RunIds \subseteq 0..MaxRuns
  BY BoundsAssumption DEF IInv, TypeOK, RunIds
<1>7. ASSUME NEW c \in Collections
      PROVE  /\ ranAt'[c] \in 0..MaxRuns
             /\ ranAt'[c] # ranAt[c] => ranAt'[c] > ranAt[c] /\ ranAt'[c] \in S /\ c \in runFor[ranAt'[c]]
             /\ mark => \A r \in S : c \in runFor[r] => ranAt'[c] >= r
  <2>1. CASE mark /\ c \in Marked(S)
    <3>1. PICK r \in S : c \in runFor[r] /\ ranAt[c] < r
      BY <1>5, <2>1
    <3>2. ranAt'[c] = N(c) /\ N(c) \in 0..MaxRuns /\ N(c) \in S /\ c \in runFor[N(c)] /\ r <= N(c)
      BY <1>1, <1>3, <1>4, <1>6, <2>1, <3>1
    <3>3. ranAt'[c] > ranAt[c]
      BY <1>1, <1>6, <3>1, <3>2 DEF RunIds
    <3>4. \A s \in S : c \in runFor[s] => ranAt'[c] >= s
      BY <1>1, <1>4, <3>2 DEF RunIds
    <3> QED
      BY <3>2, <3>3, <3>4
  <2>2. CASE ~(mark /\ c \in Marked(S))
    <3>1. ranAt'[c] = ranAt[c]
      BY <1>3, <2>2
    <3>2. mark => \A r \in S : c \in runFor[r] => ranAt'[c] >= r
      BY <1>1, <1>5, <1>6, <2>2, <3>1 DEF RunIds
    <3> QED
      BY <1>6, <3>1, <3>2
  <2> QED
    BY <2>1, <2>2
<1>8. ranStatus' \in [Collections -> Outcomes]
      /\ \A c \in Collections : ranStatus'[c] # ranStatus[c] => ranStatus'[c] = "failed"
  BY <1>3, <1>6 DEF Outcomes
<1>9. ranAt' \in [Collections -> 0..MaxRuns]
  BY <1>3, <1>7
<1> QED
  BY <1>7, <1>8, <1>9

\* Reading the marked rows again changes the copies alone.
LEMMA ResyncAlone ==
    ASSUME TypeOK, NEW f \in Frame, NEW C,
           ranStatus' \in [Collections -> Outcomes]
    PROVE  LET g == [Resynced(f, C) EXCEPT !.stage = "insert"] IN
           /\ g \in Frame /\ g.stage = "insert" /\ g.todo = f.todo /\ g.coll = f.coll /\ g.occ = f.occ
           /\ g.run = f.run /\ g.ok = f.ok /\ g.stalled = f.stalled
<1> DEFINE k == [c \in Collections |-> IF c \in f.coll \cap C THEN ranStatus'[c] ELSE f.known[c]]
           h == [c \in Collections |-> IF c \in f.coll \cap C THEN goodAt[c] ELSE f.good[c]]
<1>1. k \in [Collections -> Outcomes \cup {"expired"}] /\ h \in [Collections -> 0..MaxRuns]
  BY DEF TypeOK, Frame
<1>2. Resynced(f, C) = [f EXCEPT !.known = k, !.good = h]
  BY DEF Resynced
<1> HIDE DEF k, h
<1> QED
  BY <1>1, <1>2 DEF Frame

LEMMA ReclaimKeeps ==
    ASSUME IInv, NEW w \in Frames, NEW S \in SUBSET Dead, NEW mark \in BOOLEAN, Reclaim(w, S, mark)
    PROVE  IInv'
<1> DEFINE C == UNION {runFor[r] : r \in S}
           g == [Resynced(frame[w], C) EXCEPT !.stage = "insert"]
<1>a. /\ S \subseteq RunIds
      /\ \A r \in S : verdict[r] = "open"
      /\ verdict' = [r \in RunIds |-> IF r \in S THEN "failed" ELSE verdict[r]]
      /\ UNCHANGED <<serves, saved, runFor, runOcc, schedule, goodAt>>
      /\ unmarked' = IF mark THEN unmarked ELSE unmarked \cup S
  BY ReclaimCloses
<1>b. ranAt' \in [Collections -> 0..MaxRuns] /\ ranStatus' \in [Collections -> Outcomes]
  BY ReclaimMarks
<1>1. frame[w].stage = "picked" /\ Becomes(w, g)
  BY DEF Reclaim, At, Become, Becomes
<1>2. frame[w] \in Frame
  BY FrameFacts
<1>3. /\ g \in Frame /\ g.stage = "insert" /\ g.todo = frame[w].todo /\ g.coll = frame[w].coll
      /\ g.occ = frame[w].occ /\ g.run = frame[w].run
  <2> HIDE DEF C
  <2> QED
    BY <1>b, <1>2, ResyncAlone DEF IInv
<1> HIDE DEF g
<1>4. SoundFrame(w, frame[w], g)
  BY <1>1, <1>3, FrameFacts DEF SoundFrame, TickShape, TaskShape, RunWork, RunInHand, Holds
<1>5. ClosesOnly
  BY <1>a DEF ClosesOnly, IInv, TypeOK
<1>6. RowTyped'
  BY <1>a, <1>b DEF RowTyped, IInv, TypeOK
<1> QED
  BY <1>1, <1>4, <1>5, <1>6, <1>a, SoundFrameKeeps

\* The next id comes after every run granted so far.
LEMMA NextIdIsNew ==
    ASSUME TypeOK, RunsInOrder, NEW r \in RunIds, verdict[r] = "unused", r = Cardinality(Granted) + 1
    PROVE  Granted = 1..(r - 1)
<1>1. ASSUME NEW s \in Granted PROVE s \in 1..(r - 1)
  BY <1>1, BoundsAssumption DEF Granted, RunsInOrder, RunIds
<1>2. IsFiniteSet(1..(r - 1)) /\ Cardinality(1..(r - 1)) = r - 1
  <2>1. PICK k \in Nat : k = r - 1
    BY BoundsAssumption DEF RunIds
  <2>2. IsFiniteSet(1..k) /\ Cardinality(1..k) = k
    BY FS_Interval
  <2> QED
    BY <2>1, <2>2
<1>3. Granted \in SUBSET (1..(r - 1))
  BY <1>1
<1>4. IsFiniteSet(Granted)
  BY <1>2, <1>3, FS_Subset
<1>5. Cardinality(Granted) = r - 1
  BY <1>4, FS_CardinalityType
<1> QED
  BY <1>2, <1>3, <1>5, FS_Subset

\* What a grant writes.
LEMMA InsertWrites ==
    ASSUME IInv, NEW w \in Frames, Insert(w)
    PROVE  \E r \in RunIds, g \in Frame :
        /\ verdict[r] = "unused" /\ \A s \in RunIds : verdict[s] # "unused" <=> s < r
        /\ \A s \in RunIds : verdict[s] = "open" => serves[s] # Wanted(w)
        /\ verdict' = [verdict EXCEPT ![r] = "open"] /\ serves' = [serves EXCEPT ![r] = Wanted(w)]
        /\ runFor' = [runFor EXCEPT ![r] = frame[w].coll] /\ runOcc' = [runOcc EXCEPT ![r] = frame[w].occ]
        /\ UNCHANGED <<saved, schedule, row, unmarked>>
        /\ frame[w].stage = "insert" /\ frame[w].run = 0 /\ ~frame[w].stalled
        /\ Wanted(w) \in {SweepLock, CatalogLock}
        /\ \A c \in frame[w].coll : Wanted(w) = LockOf(c)
        /\ w \in Requesters => \A x \in frame[w].todo : Wanted(w) = LockOf(x[1])
        /\ Becomes(w, g)
        /\ g.stage = IF w \in Tickers THEN "working" ELSE "start"
        /\ g.run = r /\ g.coll = frame[w].coll /\ g.todo = frame[w].todo /\ g.occ = frame[w].occ
        /\ ~g.stalled
<1>1. PICK r \in RunIds :
        /\ At(w, "insert")
        /\ r = Cardinality(Granted) + 1
        /\ Lock!Grant(r, Wanted(w))
        /\ runFor' = [runFor EXCEPT ![r] = frame[w].coll]
        /\ runOcc' = [runOcc EXCEPT ![r] = frame[w].occ]
        /\ Become(w, [frame[w] EXCEPT !.stage = IF w \in Tickers THEN "working" ELSE "start",
                                      !.run = r, !.before = SuccessBefore(w)])
        /\ UNCHANGED <<schedule, row, unmarked>>
  BY Zenon DEF Insert
<1>2. frame[w].stage = "insert" /\ ~frame[w].stalled
  BY <1>1 DEF At
<1>3. frame[w] \in Frame /\ frame[w].run = 0 /\ (w \in Tickers => frame[w].coll # {})
  BY <1>2, FrameFacts DEF TickShape, TaskShape, Frames
<1>4. frame[w].coll # {} => InHand(w) \in Collections /\ frame[w].coll = {InHand(w)}
  BY InHandIsIn
<1>5. /\ Wanted(w) \in {SweepLock, CatalogLock}
      /\ \A c \in frame[w].coll : Wanted(w) = LockOf(c)
  BY <1>4 DEF Wanted, LockOf
<1>6. ASSUME w \in Requesters, NEW x \in frame[w].todo PROVE Wanted(w) = LockOf(x[1])
  <2>1. IF frame[w].coll = {} THEN x[1] \in Sweeps ELSE x[1] \in frame[w].coll
    BY <1>2, <1>6, FrameFacts DEF TaskShape
  <2> QED
    BY <1>5, <2>1 DEF Wanted, LockOf
<1>7. /\ verdict[r] = "unused" /\ \A s \in RunIds : verdict[s] = "open" => serves[s] # Wanted(w)
      /\ verdict' = [verdict EXCEPT ![r] = "open"] /\ serves' = [serves EXCEPT ![r] = Wanted(w)]
      /\ saved' = saved
  BY <1>1, <1>5 DEF Lock!Grant, Lock!Open
<1>8. Granted = 1..(r - 1)
  BY <1>1, <1>7, NextIdIsNew DEF IInv, RunsKept
<1>9. \A s \in RunIds : verdict[s] # "unused" <=> s < r
  BY <1>8, BoundsAssumption DEF Granted, RunIds
<1> DEFINE g == [frame[w] EXCEPT !.stage = IF w \in Tickers THEN "working" ELSE "start",
                                 !.run = r, !.before = SuccessBefore(w)]
<1>10. SuccessBefore(w) \in 0..MaxRuns /\ r \in 0..MaxRuns
  BY <1>3, <1>4, BoundsAssumption DEF SuccessBefore, Frame, RunIds
<1>11. /\ g \in Frame
       /\ g.stage = IF w \in Tickers THEN "working" ELSE "start"
       /\ g.run = r /\ g.coll = frame[w].coll /\ g.todo = frame[w].todo /\ g.occ = frame[w].occ
       /\ g.stalled = frame[w].stalled
  BY <1>3, <1>10 DEF Frame
<1>12. Becomes(w, g)
  BY <1>1 DEF Become, Becomes
<1> HIDE DEF g
<1> QED
  BY <1>1, <1>2, <1>3, <1>5, <1>6, <1>7, <1>9, <1>11, <1>12

LEMMA InsertKeeps ==
    ASSUME IInv, NEW w \in Frames, Insert(w) PROVE IInv'
<1>1. PICK r \in RunIds, g \in Frame :
        /\ verdict[r] = "unused" /\ \A s \in RunIds : verdict[s] # "unused" <=> s < r
        /\ \A s \in RunIds : verdict[s] = "open" => serves[s] # Wanted(w)
        /\ verdict' = [verdict EXCEPT ![r] = "open"] /\ serves' = [serves EXCEPT ![r] = Wanted(w)]
        /\ runFor' = [runFor EXCEPT ![r] = frame[w].coll] /\ runOcc' = [runOcc EXCEPT ![r] = frame[w].occ]
        /\ UNCHANGED <<saved, schedule, row, unmarked>>
        /\ frame[w].stage = "insert" /\ frame[w].run = 0 /\ ~frame[w].stalled
        /\ Wanted(w) \in {SweepLock, CatalogLock}
        /\ \A c \in frame[w].coll : Wanted(w) = LockOf(c)
        /\ w \in Requesters => \A x \in frame[w].todo : Wanted(w) = LockOf(x[1])
        /\ Becomes(w, g)
        /\ g.stage = IF w \in Tickers THEN "working" ELSE "start"
        /\ g.run = r /\ g.coll = frame[w].coll /\ g.todo = frame[w].todo /\ g.occ = frame[w].occ
        /\ ~g.stalled
  BY InsertWrites, Zenon
<1>2. /\ frame' \in [Frames -> Frame]
      /\ frame'[w] = g
      /\ \A v \in Frames : v # w => frame'[v] = frame[v]
  BY <1>1, OneFrameMoves DEF IInv
<1>3. w \in Tickers => w \notin Requesters
  BY FramesAssumption
<1>4. /\ \A s \in RunIds : s # r => /\ verdict'[s] = verdict[s] /\ serves'[s] = serves[s]
                                    /\ runFor'[s] = runFor[s] /\ runOcc'[s] = runOcc[s]
      /\ verdict'[r] = "open" /\ serves'[r] = Wanted(w)
      /\ runFor'[r] = frame[w].coll /\ runOcc'[r] = frame[w].occ
  BY <1>1 DEF IInv, TypeOK
<1>5. TypeOK'
  <2>1. frame[w].coll \in SUBSET Collections /\ frame[w].occ \in 0..MaxDue
    BY FrameFacts DEF Frame
  <2> QED
    BY <1>1, <1>2, <2>1 DEF IInv, TypeOK, schedule, row
<1>6. TickShape(frame[w]) /\ w \in Tickers => TickShape(g)
  BY <1>1, BoundsAssumption DEF TickShape, RunIds
<1>7. TaskShape(frame[w]) /\ w \in Requesters => TaskShape(g)
  BY <1>1, <1>3, BoundsAssumption DEF TaskShape, RunIds
<1>8. Shapes'
  <2>1. ASSUME NEW v \in Frames PROVE /\ \A c, d \in frame'[v].coll : c = d
                                      /\ frame'[v].stage = "idle" => frame'[v].todo = {}
    BY <1>1, <1>2 DEF IInv, Shapes
  <2>2. ASSUME NEW v \in Tickers PROVE TickShape(frame'[v])
    BY <1>2, <1>6 DEF IInv, Shapes, Frames
  <2>3. ASSUME NEW v \in Requesters PROVE TaskShape(frame'[v])
    BY <1>2, <1>7 DEF IInv, Shapes, Frames
  <2> QED
    BY <2>1, <2>2, <2>3 DEF Shapes, TickShape, TaskShape
<1>9. RunsInOrder' /\ RunServes'
  BY <1>1, <1>4, BoundsAssumption DEF IInv, RunsKept, RunsInOrder, RunServes, RunIds
<1>10. OpenIsNewest'
  BY <1>1, <1>4, BoundsAssumption DEF IInv, RunsKept, OpenIsNewest, RunIds
<1>11. RunsOwned'
  <2>1. ASSUME NEW v \in Frames, v # w PROVE frame[v].run # 0 => frame[v].run \in RunIds /\ frame[v].run # r
    <3>1. frame[v].run # 0 => verdict[frame[v].run] # "unused"
      BY FrameFacts DEF RunInHand
    <3> QED
      BY <1>1, <3>1, FrameTyped, BoundsAssumption DEF IInv, RunIds
  <2>2. ASSUME NEW v \in Frames PROVE RunInHand(frame[v])'
    <3>1. CASE v = w
      BY <1>1, <1>2, <1>4, <3>1 DEF RunInHand
    <3>2. CASE v # w
      <4>1. RunInHand(frame[v])
        BY FrameFacts
      <4> QED
        BY <1>2, <1>4, <2>1, <3>2, <4>1 DEF RunInHand
    <3> QED
      BY <3>1, <3>2
  <2>3. ASSUME NEW v \in Requesters PROVE RunWork(frame[v])'
    <3>1. CASE v = w
      <4>1. \A x \in frame[w].todo : IF frame[w].coll = {} THEN x[1] \in Sweeps ELSE x[1] \in frame[w].coll
        BY <1>1, <3>1, FrameFacts DEF TaskShape
      <4> QED
        BY <1>1, <1>2, <1>4, <3>1, <4>1 DEF RunWork
    <3>2. CASE v # w
      <4>1. RunWork(frame[v]) /\ v \in Frames
        BY FrameFacts DEF Frames
      <4> QED
        BY <1>2, <1>4, <2>1, <3>2, <4>1 DEF RunWork
    <3> QED
      BY <3>1, <3>2
  <2>4. ASSUME NEW u \in Frames, NEW v \in Frames, frame'[u].run # 0, frame'[u].run = frame'[v].run PROVE u = v
    BY <1>1, <1>2, <2>1, <2>4 DEF IInv, RunsKept, RunsOwned
  <2> QED
    BY <2>2, <2>3, <2>4 DEF RunsOwned, RunInHand, RunWork
<1>12. OccurrencesKept'
  <2>1. nextDue' = nextDue /\ arrived' = arrived
    BY <1>1 DEF schedule
  <2>2. DueIsNear'
    BY <2>1 DEF IInv, OccurrencesKept, DueIsNear
  <2>3. ClaimsArrived'
    BY <1>1, <1>2, <2>1 DEF IInv, OccurrencesKept, ClaimsArrived, Frames
  <2>4. frame[w].occ # 0 => w \in Tickers /\ frame[w].coll = {InHand(w)} /\ InHand(w) \in Collections
    <3>1. frame[w].occ # 0 => w \in Tickers /\ frame[w].coll # {}
      BY <1>1, FrameFacts DEF TaskShape, TickShape, Frames
    <3> QED
      BY <3>1, InHandIsIn
  <2>5. WindowsNamed'
    BY <1>4, <2>4 DEF IInv, OccurrencesKept, WindowsNamed
  <2>6. ASSUME NEW v \in Tickers, NEW c \in Collections, NEW n \in Occurrences, Holds(frame'[v], c, n)
        PROVE  Holds(frame[v], c, n) /\ ~(v = w /\ frame[w].coll = {c})
    <3>1. CASE v # w
      BY <1>2, <2>6, <3>1 DEF Frames
    <3>2. CASE v = w
      <4>1. <<c, n>> \in frame[w].todo
        BY <1>1, <1>2, <2>6, <3>2, BoundsAssumption DEF Holds, RunIds
      <4>2. c \notin frame[w].coll
        BY <3>2, <4>1, FrameFacts DEF TickShape
      <4> QED
        BY <1>1, <3>2, <4>1, <4>2 DEF Holds
    <3> QED
      BY <3>1, <3>2
  <2>7. ASSUME NEW s \in RunIds, NEW c \in Collections, NEW n \in Occurrences, Ran(s, c, n)'
        PROVE  Ran(s, c, n) \/ (s = r /\ w \in Tickers /\ Holds(frame[w], c, n) /\ frame[w].coll = {c})
    <3>1. n # 0
      BY DEF Occurrences
    <3> QED
      BY <1>1, <1>4, <2>4, <2>7, <3>1 DEF Ran, Holds
  <2>8. ASSUME NEW c \in Collections, NEW n \in Occurrences
        PROVE  /\ \A v \in Tickers : Holds(frame'[v], c, n) => n < nextDue'[c]
               /\ \A s \in RunIds : Ran(s, c, n)' => n < nextDue'[c]
               /\ \A u, v \in Tickers : Holds(frame'[u], c, n) /\ Holds(frame'[v], c, n) => u = v
               /\ \A v \in Tickers, s \in RunIds : ~(Holds(frame'[v], c, n) /\ Ran(s, c, n)')
               /\ \A s, q \in RunIds : Ran(s, c, n)' /\ Ran(q, c, n)' => s = q
    <3>1. /\ \A v \in Tickers : Holds(frame[v], c, n) => n < nextDue[c]
          /\ \A s \in RunIds : Ran(s, c, n) => n < nextDue[c]
          /\ \A u, v \in Tickers : Holds(frame[u], c, n) /\ Holds(frame[v], c, n) => u = v
          /\ \A v \in Tickers, s \in RunIds : ~(Holds(frame[v], c, n) /\ Ran(s, c, n))
          /\ \A s, q \in RunIds : Ran(s, c, n) /\ Ran(q, c, n) => s = q
      BY DEF IInv, OccurrencesKept, InOnePlace
    <3> QED
      BY <2>1, <2>6, <2>7, <3>1
  <2>9. InOnePlace'
    BY <2>8, Zenon DEF InOnePlace, Holds, Ran, Occurrences
  <2> QED
    BY <2>2, <2>3, <2>5, <2>9 DEF OccurrencesKept
<1> QED
  BY <1>5, <1>8, <1>9, <1>10, <1>11, <1>12 DEF IInv, RunsKept

-----------------------------------------------------------------------------
(* The schedule's own steps.                                                *)

LEMMA ScheduleKeeps ==
    ASSUME IInv, NEW c \in Collections, Arrive(c) \/ Edit(c) PROVE IInv'
<1>1. UNCHANGED <<runs, claimedBy, row, unmarked, frame>>
  BY DEF Arrive, Edit
<1>2. /\ arrived' \in [Collections -> 0..MaxDue] /\ nextDue' \in [Collections -> 1..(MaxDue + 1)]
      /\ \A d \in Collections : /\ arrived'[d] >= arrived[d] /\ nextDue'[d] >= nextDue[d]
                                /\ nextDue'[d] <= arrived'[d] + 1
  BY BoundsAssumption DEF Arrive, Edit, IInv, TypeOK, OccurrencesKept, DueIsNear
<1>3. TypeOK'
  BY <1>1, <1>2 DEF IInv, TypeOK, runs, row
<1>4. Shapes'
  BY <1>1 DEF IInv, Shapes, TickShape, TaskShape
<1>5. RunsKept'
  BY <1>1 DEF IInv, RunsKept, RunsInOrder, OpenIsNewest, RunServes, RunsOwned, RunInHand, RunWork, runs
<1>6. DueIsNear' /\ WindowsNamed'
  BY <1>1, <1>2 DEF IInv, OccurrencesKept, DueIsNear, WindowsNamed, runs
<1>7. ClaimsArrived'
  <2>1. ASSUME NEW w \in Tickers, NEW x \in frame[w].todo PROVE x[2] <= arrived'[x[1]]
    <3>1. x[1] \in Collections /\ x[2] \in Nat /\ x[2] <= arrived[x[1]]
      BY FrameFacts, BoundsAssumption DEF Frame, Frames
    <3>2. arrived[x[1]] \in Nat /\ arrived'[x[1]] \in Nat
      BY <1>2, <3>1, BoundsAssumption DEF IInv, TypeOK
    <3> QED
      BY <1>2, <3>1, <3>2
  <2> QED
    BY <1>1, <2>1 DEF ClaimsArrived
<1>8. InOnePlace'
  <2>1. \A d \in Collections : \A n \in Occurrences : n < nextDue[d] => n < nextDue'[d]
    BY <1>2, BoundsAssumption DEF Occurrences, IInv, TypeOK
  <2>2. /\ \A w \in Tickers : \A d, n : Holds(frame[w], d, n)' <=> Holds(frame[w], d, n)
        /\ \A r \in RunIds : \A d, n : Ran(r, d, n)' <=> Ran(r, d, n)
    BY <1>1 DEF Holds, Ran, runs
  <2> QED
    BY <2>1, <2>2, ZenonT(30) DEF IInv, OccurrencesKept, InOnePlace, Occurrences
<1> QED
  BY <1>3, <1>4, <1>5, <1>6, <1>7, <1>8 DEF IInv, OccurrencesKept

\* A frame's step that leaves the runs alone keeps the shapes and the runs.
LEMMA FrameStepKeeps ==
    ASSUME IInv, NEW w \in Tickers, NEW g \in Frame, Becomes(w, g), TickShape(g),
           \A c, d \in g.coll : c = d, g.stage # "idle", g.run = 0, UNCHANGED runs
    PROVE  Shapes' /\ RunsKept'
<1>1. w \in Frames /\ w \notin Requesters
  BY FramesAssumption DEF Frames
<1>2. /\ frame'[w] = g
      /\ \A v \in Frames : v # w => frame'[v] = frame[v]
  BY <1>1, OneFrameMoves DEF IInv
<1>3. Shapes'
  BY <1>1, <1>2, Zenon DEF IInv, Shapes, Frames
<1>4. RunsInOrder' /\ OpenIsNewest' /\ RunServes'
  BY DEF IInv, RunsKept, RunsInOrder, OpenIsNewest, RunServes, runs
<1>5. RunsOwned'
  <2>1. ASSUME NEW v \in Frames PROVE RunInHand(frame[v])'
    BY <1>2, FrameFacts DEF RunInHand, runs
  <2>2. ASSUME NEW v \in Requesters PROVE RunWork(frame[v])'
    BY <1>1, <1>2, FrameFacts DEF RunWork, runs, Frames
  <2>3. ASSUME NEW u \in Frames, NEW v \in Frames, frame'[u].run # 0, frame'[u].run = frame'[v].run PROVE u = v
    BY <1>2, <2>3 DEF IInv, RunsKept, RunsOwned
  <2> QED
    BY <2>1, <2>2, <2>3 DEF RunsOwned
<1> QED
  BY <1>3, <1>4, <1>5 DEF RunsKept

LEMMA ClaimWriteKeeps ==
    ASSUME IInv, NEW w \in Tickers, ClaimWrite(w) PROVE IInv'
<1> DEFINE won == Won(w)
           ofs == {x[1] : x \in won}
           occ(c) == CHOOSE n \in 0..MaxDue : <<c, n>> \in won
           g == [frame[w] EXCEPT !.stage = "next", !.todo = won]
<1>1. w \in Frames /\ w \notin Requesters /\ frame[w].stage = "claim"
  BY FramesAssumption DEF Frames, ClaimWrite, At
<1>2. /\ nextDue' = [c \in Collections |-> IF c \in ofs THEN occ(c) + 1 ELSE nextDue[c]]
      /\ claimedBy' = [c \in Collections |-> IF c \in ofs THEN {w} ELSE claimedBy[c]]
      /\ frame' = [frame EXCEPT ![w].stage = "next", ![w].todo = won]
      /\ UNCHANGED <<runs, arrived, row, unmarked>>
  BY DEF ClaimWrite
<1>3. frame[w] \in Frame /\ TickShape(frame[w]) /\ \A x \in frame[w].todo : x[2] <= arrived[x[1]]
  BY <1>1, FrameFacts
<1>4. won \subseteq frame[w].todo /\ frame[w].todo \subseteq Collections \X (0..MaxDue)
      /\ \A x \in won : nextDue[x[1]] <= x[2]
  BY <1>3 DEF Won, Frame
<1>5. ASSUME NEW c \in Collections, NEW n, <<c, n>> \in won PROVE c \in ofs /\ occ(c) = n
  <2>1. n \in 0..MaxDue
    BY <1>4, <1>5
  <2>2. \A m : <<c, m>> \in won => m = n
    BY <1>3, <1>4, <1>5 DEF TickShape
  <2>3. c \in ofs
    BY <1>5
  <2> HIDE DEF won
  <2> QED
    BY <1>5, <2>1, <2>2, <2>3
<1>6. ASSUME NEW c \in ofs PROVE c \in Collections /\ <<c, occ(c)>> \in won
  <2>1. PICK x \in won : x[1] = c
    OBVIOUS
  <2>2. x[1] \in Collections /\ x = <<c, x[2]>>
    BY <1>4, <2>1
  <2>3. <<c, x[2]>> \in won
    BY <2>1, <2>2
  <2>4. occ(c) = x[2]
    <3> HIDE DEF won, occ, ofs
    <3> QED
      BY <1>5, <2>2, <2>3
  <2> HIDE DEF won, occ, ofs
  <2> QED
    BY <2>2, <2>3, <2>4
<1>7. Becomes(w, g)
  BY <1>2 DEF Becomes, IInv, TypeOK
<1> HIDE DEF won
<1>8. g \in Frame /\ g.stage = "next" /\ g.todo = won /\ g.coll = frame[w].coll /\ g.occ = frame[w].occ
      /\ g.run = frame[w].run
  BY <1>3, <1>4 DEF Frame
<1> HIDE DEF g, occ, ofs
<1>9. TickShape(g) /\ g.run = 0 /\ g.coll = {}
  BY <1>1, <1>3, <1>4, <1>8 DEF TickShape
<1>10. Shapes' /\ RunsKept'
  BY <1>2, <1>7, <1>8, <1>9, FrameStepKeeps
<1>11. /\ frame' \in [Frames -> Frame]
       /\ frame'[w] = g
       /\ \A v \in Frames : v # w => frame'[v] = frame[v]
  BY <1>1, <1>7, <1>8, OneFrameMoves DEF IInv
<1>12. \A c \in ofs : /\ c \in Collections /\ occ(c) \in 0..MaxDue /\ nextDue[c] <= occ(c)
                      /\ occ(c) <= arrived[c] /\ occ(c) # 0
  <2>1. ASSUME NEW c \in ofs
        PROVE  /\ c \in Collections /\ occ(c) \in 0..MaxDue /\ nextDue[c] <= occ(c)
               /\ occ(c) <= arrived[c] /\ occ(c) # 0
    <3>1. c \in Collections /\ <<c, occ(c)>> \in won
      BY <1>6
    <3>2. PICK x \in won : x = <<c, occ(c)>>
      BY <3>1
    <3>3. x \in frame[w].todo /\ x[1] = c /\ x[2] = occ(c)
      BY <1>4, <3>2
    <3> QED
      BY <1>3, <1>4, <3>1, <3>3 DEF TickShape
  <2> QED
    BY <2>1
<1>13. /\ nextDue' \in [Collections -> 1..(MaxDue + 1)]
       /\ \A c \in Collections : nextDue'[c] >= nextDue[c] /\ nextDue'[c] <= arrived[c] + 1
  <2>1. \A c \in Collections : nextDue[c] \in 1..(MaxDue + 1) /\ arrived[c] \in 0..MaxDue /\ nextDue[c] <= arrived[c] + 1
    BY DEF IInv, TypeOK, OccurrencesKept, DueIsNear
  <2> QED
    BY <1>2, <1>12, <2>1, BoundsAssumption
<1>14. TypeOK'
  <2>1. claimedBy' \in [Collections -> SUBSET Tickers]
    BY <1>2 DEF IInv, TypeOK
  <2> QED
    BY <1>2, <1>11, <1>13, <2>1 DEF IInv, TypeOK, runs, row
<1>15. DueIsNear' /\ WindowsNamed' /\ ClaimsArrived'
  <2>1. ASSUME NEW v \in Tickers, NEW x \in frame'[v].todo PROVE x[2] <= arrived[x[1]]
    BY <1>3, <1>4, <1>8, <1>11 DEF IInv, OccurrencesKept, ClaimsArrived, Frames
  <2> QED
    BY <1>2, <1>13, <2>1 DEF IInv, OccurrencesKept, DueIsNear, WindowsNamed, ClaimsArrived, runs
<1>16. ASSUME NEW v \in Tickers, NEW c \in Collections, NEW n \in Occurrences, Holds(frame'[v], c, n)
       PROVE  IF v = w THEN nextDue[c] <= n /\ n < nextDue'[c] ELSE Holds(frame[v], c, n)
  <2>1. CASE v # w
    BY <1>11, <1>16, <2>1 DEF Frames
  <2>2. CASE v = w
    <3>1. <<c, n>> \in won
      BY <1>8, <1>9, <1>11, <1>16, <2>2 DEF Holds
    <3>2. c \in ofs /\ occ(c) = n
      BY <1>5, <3>1
    <3>3. nextDue'[c] = n + 1 /\ nextDue[c] <= n /\ n \in Nat
      BY <1>2, <1>12, <3>2, BoundsAssumption
    <3> QED
      BY <2>2, <3>3
  <2> QED
    BY <2>1, <2>2
<1>17. ASSUME NEW c \in Collections, NEW n \in Occurrences
       PROVE  /\ \A v \in Tickers : Holds(frame'[v], c, n) => n < nextDue'[c]
              /\ \A s \in RunIds : Ran(s, c, n)' => n < nextDue'[c]
              /\ \A u, v \in Tickers : Holds(frame'[u], c, n) /\ Holds(frame'[v], c, n) => u = v
              /\ \A v \in Tickers, s \in RunIds : ~(Holds(frame'[v], c, n) /\ Ran(s, c, n)')
              /\ \A s, q \in RunIds : Ran(s, c, n)' /\ Ran(q, c, n)' => s = q
  <2>1. /\ \A v \in Tickers : Holds(frame[v], c, n) => n < nextDue[c]
        /\ \A s \in RunIds : Ran(s, c, n) => n < nextDue[c]
        /\ \A u, v \in Tickers : Holds(frame[u], c, n) /\ Holds(frame[v], c, n) => u = v
        /\ \A v \in Tickers, s \in RunIds : ~(Holds(frame[v], c, n) /\ Ran(s, c, n))
        /\ \A s, q \in RunIds : Ran(s, c, n) /\ Ran(q, c, n) => s = q
    BY DEF IInv, OccurrencesKept, InOnePlace
  <2>2. \A s \in RunIds : Ran(s, c, n)' <=> Ran(s, c, n)
    BY <1>2 DEF Ran, runs
  <2>3. n \in Nat /\ nextDue[c] \in Nat /\ nextDue'[c] \in Nat /\ nextDue[c] <= nextDue'[c]
    BY <1>13, BoundsAssumption DEF Occurrences, IInv, TypeOK
  <2> QED
    BY <1>16, <2>1, <2>2, <2>3
<1>18. InOnePlace'
  BY <1>17, Zenon DEF InOnePlace, Holds, Ran, Occurrences
<1> QED
  BY <1>10, <1>14, <1>15, <1>18 DEF IInv, OccurrencesKept

\* Restoring a claim puts its occurrence back where it was.
LEMMA GiveUpKeeps ==
    ASSUME IInv, NEW w \in Frames, GiveUp(w) PROVE IInv'
<1>1. frame[w].stage = "insert" /\ Becomes(w, Done(w)) /\ UNCHANGED <<runs, arrived, claimedBy, row, unmarked>>
      /\ nextDue' = IF Restorable(w) THEN [nextDue EXCEPT ![InHand(w)] = frame[w].occ] ELSE nextDue
  BY DEF GiveUp, At, Become, Becomes
<1>2. SoundFrame(w, frame[w], Done(w))
  BY <1>1, DoneIsSound
<1>3. CASE ~Restorable(w)
  <2>1. UNCHANGED <<runs, schedule, row, unmarked>> /\ Become(w, Done(w))
    BY <1>1, <1>3 DEF schedule, Become, Becomes
  <2> QED
    BY <1>2, <2>1, LocalStep
<1>4. CASE Restorable(w)
  <2> DEFINE c == InHand(w)
             m == frame[w].occ
             g == Done(w)
  <2>1. w \in Tickers /\ w \notin Requesters /\ nextDue[c] = m + 1
    BY <1>4, FramesAssumption DEF Restorable
  <2>2. TickShape(frame[w]) /\ frame[w] \in Frame
    BY <2>1, FrameFacts
  <2>3. frame[w].coll # {} /\ frame[w].run = 0 /\ m \in 0..MaxDue
    BY <1>1, <2>2 DEF TickShape, Frame
  <2>4. c \in Collections /\ frame[w].coll = {c}
    BY <2>3, InHandIsIn
  <2>5. nextDue' = [nextDue EXCEPT ![c] = m]
    BY <1>1, <1>4
  <2>6. g \in Frame /\ g.stage = "next" /\ g.todo = frame[w].todo /\ g.coll = {} /\ g.run = 0
    <3>1. g = [Resting EXCEPT !.stage = "next", !.todo = frame[w].todo]
      BY <2>1 DEF Done
    <3>2. Resting \in Frame /\ frame[w].todo \in SUBSET (Collections \X (0..MaxDue))
      BY <2>2, RestFields DEF Frame
    <3>3. g \in Frame /\ g.stage = "next" /\ g.todo = frame[w].todo /\ g.coll = Resting.coll /\ g.run = Resting.run
      <4> HIDE DEF g
      <4> QED
        BY <3>1, <3>2 DEF Frame
    <3> QED
      BY <3>3, RestFields
  <2>7. TickShape(g) /\ \A x \in g.todo : x[2] <= arrived[x[1]]
    BY <1>2, <2>1 DEF SoundFrame
  <2> HIDE DEF c, m, g
  <2>8. Becomes(w, g)
    BY <1>1 DEF g
  <2>9. Shapes' /\ RunsKept'
    BY <1>1, <2>1, <2>6, <2>7, <2>8, FrameStepKeeps
  <2>10. /\ frame' \in [Frames -> Frame]
         /\ frame'[w] = g
         /\ \A v \in Frames : v # w => frame'[v] = frame[v]
    BY <2>6, <2>8, OneFrameMoves DEF IInv
  <2>11. m # 0
    BY <1>1, <2>2 DEF TickShape, m
  <2>12. /\ nextDue' \in [Collections -> 1..(MaxDue + 1)] /\ nextDue'[c] = m
         /\ \A d \in Collections : d # c => nextDue'[d] = nextDue[d]
    BY <2>3, <2>4, <2>5, <2>11, BoundsAssumption DEF IInv, TypeOK
  <2>13. TypeOK'
    BY <1>1, <2>10, <2>12 DEF IInv, TypeOK, runs, row
  <2>14. DueIsNear' /\ WindowsNamed' /\ ClaimsArrived'
    <3>1. ASSUME NEW d \in Collections PROVE nextDue'[d] <= arrived[d] + 1
      <4>1. nextDue[d] \in Nat /\ arrived[d] \in Nat /\ nextDue[d] <= arrived[d] + 1
        BY BoundsAssumption DEF IInv, TypeOK, OccurrencesKept, DueIsNear
      <4> QED
        BY <2>1, <2>3, <2>12, <4>1, BoundsAssumption
    <3>2. ASSUME NEW v \in Tickers, NEW x \in frame'[v].todo PROVE x[2] <= arrived[x[1]]
      BY <2>7, <2>10 DEF IInv, OccurrencesKept, ClaimsArrived, Frames
    <3> QED
      BY <1>1, <3>1, <3>2 DEF IInv, OccurrencesKept, DueIsNear, WindowsNamed, ClaimsArrived, runs
  <2>15. ASSUME NEW v \in Tickers, NEW d \in Collections, NEW n \in Occurrences, Holds(frame'[v], d, n)
         PROVE  Holds(frame[v], d, n) /\ ~(v = w /\ d = c /\ n = m)
    <3>1. CASE v # w
      BY <2>10, <2>15, <3>1 DEF Frames
    <3>2. CASE v = w
      <4>1. <<d, n>> \in frame[w].todo
        BY <2>6, <2>10, <2>15, <3>2 DEF Holds
      <4>2. d \notin frame[w].coll
        BY <2>2, <4>1 DEF TickShape
      <4> QED
        BY <1>1, <2>4, <3>2, <4>1, <4>2 DEF Holds
    <3> QED
      BY <3>1, <3>2
  <2>16. Holds(frame[w], c, m)
    BY <2>3, <2>4 DEF Holds, m
  <2>17. ASSUME NEW d \in Collections, NEW n \in Occurrences
         PROVE  /\ \A v \in Tickers : Holds(frame'[v], d, n) => n < nextDue'[d]
                /\ \A s \in RunIds : Ran(s, d, n)' => n < nextDue'[d]
                /\ \A u, v \in Tickers : Holds(frame'[u], d, n) /\ Holds(frame'[v], d, n) => u = v
                /\ \A v \in Tickers, s \in RunIds : ~(Holds(frame'[v], d, n) /\ Ran(s, d, n)')
                /\ \A s, q \in RunIds : Ran(s, d, n)' /\ Ran(q, d, n)' => s = q
    <3>1. /\ \A v \in Tickers : Holds(frame[v], d, n) => n < nextDue[d]
          /\ \A s \in RunIds : Ran(s, d, n) => n < nextDue[d]
          /\ \A u, v \in Tickers : Holds(frame[u], d, n) /\ Holds(frame[v], d, n) => u = v
          /\ \A v \in Tickers, s \in RunIds : ~(Holds(frame[v], d, n) /\ Ran(s, d, n))
          /\ \A s, q \in RunIds : Ran(s, d, n) /\ Ran(q, d, n) => s = q
      BY DEF IInv, OccurrencesKept, InOnePlace
    <3>2. \A s \in RunIds : Ran(s, d, n)' <=> Ran(s, d, n)
      BY <1>1 DEF Ran, runs
    <3>3. ASSUME d = c, n = m
          PROVE  (\A v \in Tickers : ~Holds(frame'[v], d, n)) /\ \A s \in RunIds : ~Ran(s, d, n)
      BY <2>1, <2>15, <2>16, <3>1, <3>3
    <3>4. n \in Nat /\ m \in Nat /\ (n < nextDue[d] /\ ~(d = c /\ n = m) => n < nextDue'[d])
      BY <2>1, <2>3, <2>12, BoundsAssumption DEF Occurrences, IInv, TypeOK
    <3> QED
      BY <2>15, <3>1, <3>2, <3>3, <3>4
  <2>18. InOnePlace'
    BY <2>17, Zenon DEF InOnePlace, Holds, Ran, Occurrences
  <2> QED
    BY <2>9, <2>13, <2>14, <2>18 DEF IInv, OccurrencesKept
<1> QED
  BY <1>3, <1>4

-----------------------------------------------------------------------------
(* The theorems that hold whatever stalls.                                  *)

LEMMA InitHolds == Init => IInv
<1> SUFFICES ASSUME Init PROVE IInv
  OBVIOUS
<1>1. \A w \in Frames : frame[w] = Resting
  BY DEF Init
<1>2. TypeOK
  <2>1. frame \in [Frames -> Frame]
    BY RestFields DEF Init
  <2> QED
    BY <2>1, BoundsAssumption DEF Init, TypeOK, Lock!Init, Outcomes
<1>3. Shapes
  BY <1>1, RestFields DEF Shapes, TickShape, TaskShape, Frames
<1>4. RunsKept
  <2>1. \A r \in RunIds : verdict[r] = "unused" /\ runFor[r] = {}
    BY DEF Init, Lock!Init
  <2> QED
    BY <1>1, <2>1, RestFields DEF RunsKept, RunsInOrder, OpenIsNewest, RunServes, RunsOwned, RunInHand, RunWork, Frames
<1>5. OccurrencesKept
  <2>1. /\ \A c \in Collections : nextDue[c] = 1 /\ arrived[c] = 0
        /\ \A r \in RunIds : runFor[r] = {} /\ runOcc[r] = 0
        /\ \A w \in Tickers : frame[w].todo = {} /\ frame[w].coll = {}
    BY <1>1, RestFields DEF Init, Frames
  <2> QED
    BY <2>1 DEF OccurrencesKept, DueIsNear, ClaimsArrived, WindowsNamed, InOnePlace, Holds, Ran
<1> QED
  BY <1>2, <1>3, <1>4, <1>5 DEF IInv

LEMMA StutterHolds ==
    ASSUME IInv, UNCHANGED vars PROVE IInv'
<1> USE DEF vars, runs, schedule, row
<1>1. TypeOK' /\ Shapes'
  BY DEF IInv, TypeOK, Shapes, TickShape, TaskShape
<1>2. RunsKept'
  BY DEF IInv, RunsKept, RunsInOrder, OpenIsNewest, RunServes, RunsOwned, RunInHand, RunWork
<1>3. OccurrencesKept'
  BY DEF IInv, OccurrencesKept, DueIsNear, ClaimsArrived, WindowsNamed, InOnePlace, Holds, Ran
<1> QED
  BY <1>1, <1>2, <1>3 DEF IInv

LEMMA AcquireKeeps ==
    ASSUME IInv, NEW w \in Frames, Acquire(w) PROVE IInv'
<1>1. ASSUME NotStarted(w) PROVE IInv'
  BY <1>1, DoneKeeps DEF NotStarted, At
<1> QED
  BY <1>1, ReclaimKeeps, InsertKeeps, GiveUpKeeps DEF Acquire

LEMMA ClaimKeeps ==
    ASSUME IInv, NEW w \in Tickers, Claim(w) PROVE IInv'
<1>1. ASSUME TickEnds(w) PROVE IInv'
  BY <1>1, RestingKeeps DEF TickEnds, Frames
<1> QED
  BY <1>1, ClaimReadKeeps, ClaimWriteKeeps, PickKeeps, SkipInFloorKeeps DEF Claim

LEMMA NextHolds == IInv /\ [Next]_vars => IInv'
<1> SUFFICES ASSUME IInv, [Next]_vars PROVE IInv'
  OBVIOUS
<1>1. CASE UNCHANGED vars
  BY <1>1, StutterHolds
<1>2. ASSUME NEW c \in Collections, Arrive(c) \/ Edit(c) PROVE IInv'
  BY <1>2, ScheduleKeeps
<1>3. ASSUME NEW w \in Tickers, Claim(w) \/ Downgrade(w) PROVE IInv'
  BY <1>3, ClaimKeeps, DowngradeKeeps
<1>4. ASSUME NEW w \in Requesters, (\E c \in Collections : RequestOne(w, c)) \/ RequestAll(w) \/ Task(w) PROVE IInv'
  BY <1>4, RequestKeeps, TaskStepsKeep
<1>5. ASSUME NEW w \in Frames, Acquire(w) \/ Attempt(w) \/ Crash(w) \/ Stall(w) \/ Wake(w) PROVE IInv'
  BY <1>5, AcquireKeeps, AttemptKeeps, EnvironmentKeeps
<1> QED
  BY <1>1, <1>2, <1>3, <1>4, <1>5 DEF Next

\* The invariant that says where an occurrence and a run are holds of every
\* behaviour, frames that stall and wake included.
THEOREM Inductive == Spec => []IInv
<1>1. Init => IInv
  BY InitHolds
<1>2. IInv /\ [Next]_vars => IInv'
  BY NextHolds
<1> QED
  BY <1>1, <1>2, PTL DEF Spec

\* However many processes tick, stall and restore their claims, one occurrence
\* of a collection starts at most one scheduled run (claim_due).
THEOREM OneRunPerOccurrence == Spec => []OccurrenceRunsOnce
<1>1. IInv => OccurrenceRunsOnce
  <2> SUFFICES ASSUME IInv, NEW r \in RunIds, NEW s \in RunIds,
                      runOcc[r] # 0, runOcc[r] = runOcc[s], runFor[r] = runFor[s]
               PROVE  r = s
    BY DEF OccurrenceRunsOnce
  <2>1. PICK c \in Collections : runFor[r] = {c}
    BY DEF IInv, OccurrencesKept, WindowsNamed
  <2>2. runOcc[r] \in Occurrences
    BY BoundsAssumption DEF IInv, TypeOK, Occurrences
  <2> QED
    BY <2>1, <2>2 DEF IInv, OccurrencesKept, InOnePlace, Ran
<1> QED
  BY <1>1, Inductive, PTL

-----------------------------------------------------------------------------
(* A standing alarm.                                                        *)

LEMMA AlarmStep ==
    ASSUME IInv, [Next]_vars, NEW c \in Collections, ranStatus[c] = "failed", ranStatus'[c] # "failed"
    PROVE  \E w \in Frames : frame[w].coll = {c} /\ frame[w].stage = "working"
                             /\ ranAt'[c] = frame[w].run /\ goodAt'[c] = frame[w].run
<1> DEFINE Answered == \E w \in Frames : frame[w].coll = {c} /\ frame[w].stage = "working"
                             /\ ranAt'[c] = frame[w].run /\ goodAt'[c] = frame[w].run
<1>a. ranStatus \in [Collections -> Outcomes] /\ ranAt \in [Collections -> 0..MaxRuns]
      /\ goodAt \in [Collections -> 0..MaxRuns]
  BY DEF IInv, TypeOK
<1>b. UNCHANGED row => FALSE
  BY DEF row
<1>1. CASE UNCHANGED vars
  BY <1>1, <1>b DEF vars
<1>2. ASSUME NEW d \in Collections, Arrive(d) \/ Edit(d) PROVE Answered
  BY <1>2, <1>b DEF Arrive, Edit
<1>3. ASSUME NEW w \in Tickers, Claim(w) \/ Downgrade(w) PROVE Answered
  <2>1. CASE ClaimRead(w) \/ ClaimWrite(w) \/ TickEnds(w)
    BY <2>1, <1>b DEF ClaimRead, ClaimWrite, TickEnds
  <2>2. ASSUME NEW x \in frame[w].todo, Pick(w, x) PROVE Answered
    BY <2>2, <1>b DEF Pick
  <2>3. ASSUME NEW x \in frame[w].todo, SkipInFloor(w, x) PROVE Answered
    BY <2>3, <1>a DEF SkipInFloor
  <2>4. CASE Downgrade(w)
    BY <2>4, <1>a DEF Downgrade
  <2> QED
    BY <1>3, <2>1, <2>2, <2>3, <2>4 DEF Claim
<1>4. ASSUME NEW w \in Requesters, (\E d \in Collections : RequestOne(w, d)) \/ RequestAll(w) \/ Task(w)
      PROVE  Answered
  BY <1>4, <1>b DEF RequestOne, RequestAll, Task, StartTask, TakeNext, TaskRaises, TaskReturns
<1>5. ASSUME NEW w \in Frames, Acquire(w) PROVE Answered
  <2>1. ASSUME NEW S \in SUBSET Dead, NEW mark \in BOOLEAN, Reclaim(w, S, mark) PROVE Answered
    BY <2>1, ReclaimMarks
  <2>2. CASE Insert(w) \/ NotStarted(w) \/ GiveUp(w)
    BY <2>2, <1>b DEF Insert, NotStarted, GiveUp
  <2> QED
    BY <1>5, <2>1, <2>2 DEF Acquire
<1>6. ASSUME NEW w \in Frames, Attempt(w) PROVE Answered
  <2>1. ASSUME NEW tolerated \in BOOLEAN, AccountOk(w, tolerated) PROVE Answered
    <3>1. frame[w].stage = "working"
      BY <2>1 DEF AccountOk, At
    <3>2. InHand(w) \in Collections /\ frame[w].coll = {InHand(w)} /\ frame[w].run \in RunIds
      BY <3>1, Attempting
    <3>3. /\ ranAt' = [ranAt EXCEPT ![InHand(w)] = frame[w].run]
          /\ goodAt' = [goodAt EXCEPT ![InHand(w)] = frame[w].run]
          /\ c = InHand(w)
      BY <1>a, <2>1 DEF AccountOk, MyRun
    <3> QED
      BY <1>a, <3>1, <3>2, <3>3
  <2>2. CASE AccountFailed(w)
    BY <2>2, <1>a DEF AccountFailed
  <2>3. CASE AccountReclaimed(w)
    BY <2>3, <1>a DEF AccountReclaimed
  <2>4. CASE Finish(w) \/ FinishRefused(w)
    BY <2>4, <1>b DEF Finish, FinishRefused
  <2> QED
    BY <1>6, <2>1, <2>2, <2>3, <2>4 DEF Attempt
<1>7. ASSUME NEW w \in Frames, Crash(w) \/ Stall(w) \/ Wake(w) PROVE Answered
  BY <1>7, <1>b DEF Crash, Stall, Wake
<1> QED
  BY <1>1, <1>2, <1>3, <1>4, <1>5, <1>6, <1>7 DEF Next

\* A standing failure clears only because an attempt succeeded (tick_tenant).
THEOREM AlarmsStand == Spec => AlarmClearsOnSuccess
<1> DEFINE A == \A c \in Collections : ranStatus[c] = "failed" /\ ranStatus'[c] # "failed" =>
            \E w \in Frames : frame[w].coll = {c} /\ frame[w].stage = "working"
                              /\ ranAt'[c] = frame[w].run /\ goodAt'[c] = frame[w].run
<1>1. IInv /\ [Next]_vars => [A]_vars
  BY AlarmStep
<1>2. Spec => [][A]_vars
  BY <1>1, Inductive, PTL DEF Spec
<1> QED
  BY <1>2 DEF AlarmClearsOnSuccess

-----------------------------------------------------------------------------
(* While no frame outlives its run.                                         *)

RowGrows == \A c \in Collections : ranAt'[c] >= ranAt[c] /\ goodAt'[c] >= goodAt[c]

\* A step of one frame that leaves the others their runs.
LEMMA SteadyStep ==
    ASSUME IInvSteady, IInv', NEW w \in Frames, NEW g \in Frame, Becomes(w, g), FrameKeepsRun(w, frame[w])',
           RowGrows, RowsAreServed', HistoryOnRow',
           \A v \in Frames : v # w /\ frame[v].run # 0 =>
               verdict'[frame[v].run] = "open" /\ runFor'[frame[v].run] = runFor[frame[v].run]
    PROVE  NobodyOutlives'
<1>1. \A v \in Frames : v # w => frame'[v] = frame[v]
  BY OneFrameMoves DEF IInvSteady, IInv
<1>2. ASSUME NEW v \in Frames, v # w PROVE FrameKeepsRun(v, frame[v])'
  <2>1. frame'[v] = frame[v] /\ FrameKeepsRun(v, frame[v]) /\ frame[v] \in Frame
        /\ (v \in Requesters => TaskShape(frame[v])) /\ (v \in Tickers => TickShape(frame[v]))
    BY <1>1, <1>2, FrameFacts DEF IInvSteady, NobodyOutlives
  <2>2. frame[v].run # 0 => verdict'[frame[v].run] = "open" /\ runFor'[frame[v].run] = runFor[frame[v].run]
    BY <1>2
  <2>3. frame[v].run = 0 => frame[v].stage # "finish" /\ (v \in Requesters => frame[v].stage \notin {"next", "working"})
    BY <2>1, FramesAssumption DEF TaskShape, TickShape, Frames
  <2>4. ASSUME NEW c \in frame[v].coll, ranAt[c] >= frame[v].run PROVE ranAt'[c] >= frame[v].run
    <3>1. c \in Collections /\ frame[v].run \in Int
      BY <2>1 DEF Frame
    <3>2. ranAt[c] \in Int /\ ranAt'[c] \in Int /\ ranAt'[c] >= ranAt[c]
      BY <3>1 DEF RowGrows, IInvSteady, IInv, TypeOK
    <3> QED
      BY <2>4, <3>1, <3>2
  <2>5. ASSUME NEW c \in frame[v].coll, goodAt[c] >= frame[v].run PROVE goodAt'[c] >= frame[v].run
    <3>1. c \in Collections /\ frame[v].run \in Int
      BY <2>1 DEF Frame
    <3>2. goodAt[c] \in Int /\ goodAt'[c] \in Int /\ goodAt'[c] >= goodAt[c]
      BY <3>1 DEF RowGrows, IInvSteady, IInv, TypeOK
    <3> QED
      BY <2>5, <3>1, <3>2
  <2> QED
    BY <2>1, <2>2, <2>3, <2>4, <2>5 DEF FrameKeepsRun
<1>3. \A v \in Frames : FrameKeepsRun(v, frame[v])'
  BY <1>2
<1> QED
  BY <1>3 DEF NobodyOutlives, FrameKeepsRun

\* A step that writes neither a run nor an instant of a row.
LEMMA SteadyLocal ==
    ASSUME IInvSteady, IInv', NEW w \in Frames, NEW g \in Frame, Becomes(w, g), FrameKeepsRun(w, frame[w])',
           UNCHANGED <<runs, ranAt, goodAt, unmarked>>
    PROVE  NobodyOutlives' /\ RowGrows
<1>1. RowGrows
  BY DEF RowGrows, IInvSteady, IInv, TypeOK
<1>2. RowsAreServed' /\ HistoryOnRow'
  BY DEF IInvSteady, NobodyOutlives, RowsAreServed, HistoryOnRow, runs
<1>3. \A v \in Frames : v # w /\ frame[v].run # 0 =>
           verdict'[frame[v].run] = "open" /\ runFor'[frame[v].run] = runFor[frame[v].run]
  BY DEF IInvSteady, NobodyOutlives, FrameKeepsRun, runs
<1> QED
  BY <1>1, <1>2, <1>3, SteadyStep

\* One after which its frame has no run in hand.
LEMMA SteadyWithout ==
    ASSUME IInvSteady, IInv', NEW w \in Frames, NEW g \in Frame, Becomes(w, g),
           g.run = 0, ~g.stalled, UNCHANGED <<runs, ranAt, goodAt, unmarked>>
    PROVE  NobodyOutlives' /\ RowGrows
<1>1. frame'[w] = g
  BY OneFrameMoves DEF IInvSteady, IInv
<1>2. /\ w \in Tickers => TickShape(g)
      /\ w \in Requesters => TaskShape(g)
      /\ w \in Tickers \cup Requesters
  BY <1>1 DEF IInv, Shapes, TickShape, TaskShape, Frames
<1>3. /\ g.stage \notin {"refused", "finish"}
      /\ w \in Requesters => g.stage \notin {"next", "working"}
  BY <1>2 DEF TickShape, TaskShape
<1>4. FrameKeepsRun(w, frame[w])'
  BY <1>1, <1>3 DEF FrameKeepsRun
<1> QED
  BY <1>4, SteadyLocal

LEMMA MovedIsFrame ==
    ASSUME IInv, IInv', NEW w \in Frames, NEW g, Becomes(w, g)
    PROVE  g \in Frame
<1>1. frame'[w] = g /\ frame'[w] \in Frame
  BY DEF IInv, TypeOK, Becomes
<1> QED
  BY <1>1

LEMMA DoneFields ==
    ASSUME IInv, NEW w \in Frames, frame[w].stage \notin {"idle", "claim"}
    PROVE  Done(w).run = 0 /\ ~Done(w).stalled
<1>1. Resting.run = 0 /\ Resting.stalled = FALSE /\ Resting \in Frame
  BY RestFields
<1>2. [Resting EXCEPT !.stage = "next", !.todo = frame[w].todo].run = Resting.run
      /\ [Resting EXCEPT !.stage = "next", !.todo = frame[w].todo].stalled = Resting.stalled
  BY <1>1 DEF Frame
<1> QED
  BY <1>1, <1>2 DEF Done

LEMMA SteadyResting ==
    ASSUME IInvSteady, IInv', NEW w \in Frames, Become(w, Resting), UNCHANGED <<runs, row, unmarked>>
    PROVE  NobodyOutlives' /\ RowGrows
<1>1. Becomes(w, Resting) /\ UNCHANGED <<runs, ranAt, goodAt, unmarked>>
  BY DEF Become, Becomes, row
<1> QED
  BY <1>1, RestFields, SteadyWithout

LEMMA SteadyDone ==
    ASSUME IInvSteady, IInv', NEW w \in Frames, Become(w, Done(w)), frame[w].stage \notin {"idle", "claim"},
           UNCHANGED <<runs, row, unmarked>>
    PROVE  NobodyOutlives' /\ RowGrows
<1>1. Becomes(w, Done(w)) /\ UNCHANGED <<runs, ranAt, goodAt, unmarked>>
  BY DEF Become, Becomes, row
<1>2. Done(w) \in Frame /\ Done(w).run = 0 /\ ~Done(w).stalled
  BY <1>1, MovedIsFrame, DoneFields DEF IInvSteady
<1> QED
  BY <1>1, <1>2, SteadyWithout

LEMMA SteadyClaim ==
    ASSUME IInvSteady, IInv', NEW w \in Tickers, Claim(w)
    PROVE  NobodyOutlives' /\ RowGrows
<1>1. w \in Frames /\ w \notin Requesters
  BY FramesAssumption DEF Frames
<1>2. frame[w] \in Frame /\ TickShape(frame[w]) /\ ~frame[w].stalled
  BY <1>1, FrameFacts DEF IInvSteady, NobodyOutlives, FrameKeepsRun
<1>3. ASSUME ClaimRead(w) PROVE NobodyOutlives' /\ RowGrows
  <2>1. PICK T : Become(w, [Resting EXCEPT !.stage = "claim", !.todo = T])
    BY <1>3 DEF ClaimRead
  <2> DEFINE g == [Resting EXCEPT !.stage = "claim", !.todo = T]
  <2>2. Becomes(w, g) /\ UNCHANGED <<runs, ranAt, goodAt, unmarked>>
    BY <1>3, <2>1 DEF ClaimRead, Become, Becomes, row
  <2>3. g.run = Resting.run /\ g.stalled = Resting.stalled
    BY RestFields DEF Frame
  <2> HIDE DEF g
  <2> QED
    BY <1>1, <2>2, <2>3, RestFields, MovedIsFrame, SteadyWithout DEF IInvSteady
<1>4. ASSUME ClaimWrite(w) PROVE NobodyOutlives' /\ RowGrows
  <2> DEFINE g == [frame[w] EXCEPT !.stage = "next", !.todo = Won(w)]
  <2>1. Becomes(w, g) /\ UNCHANGED <<runs, ranAt, goodAt, unmarked>> /\ frame[w].stage = "claim"
    BY <1>1, <1>4 DEF ClaimWrite, Becomes, row, At, IInvSteady, IInv, TypeOK
  <2>2. g.run = frame[w].run /\ g.stalled = frame[w].stalled
    BY <1>2 DEF Frame
  <2>3. frame[w].run = 0
    BY <1>2, <2>1 DEF TickShape
  <2> HIDE DEF g
  <2> QED
    BY <1>1, <1>2, <2>1, <2>2, <2>3, MovedIsFrame, SteadyWithout DEF IInvSteady
<1>5. ASSUME TickEnds(w) PROVE NobodyOutlives' /\ RowGrows
  BY <1>1, <1>5, SteadyResting DEF TickEnds
<1>6. ASSUME NEW x \in frame[w].todo, Pick(w, x) PROVE NobodyOutlives' /\ RowGrows
  <2> DEFINE f == Loaded(frame[w], {x[1]})
             g == [f EXCEPT !.stage = "picked", !.coll = {x[1]}, !.occ = x[2], !.todo = @ \ {x}]
  <2>1. Becomes(w, g) /\ UNCHANGED <<runs, ranAt, goodAt, unmarked>> /\ frame[w].stage = "next"
    BY <1>6 DEF Pick, Become, Becomes, At, row
  <2>2. f \in Frame /\ f.run = frame[w].run /\ f.stalled = frame[w].stalled
    BY <1>2, CopiesAlone DEF IInvSteady, IInv
  <2> HIDE DEF f
  <2>3. g.run = frame[w].run /\ g.stalled = frame[w].stalled
    BY <2>2 DEF Frame
  <2>4. frame[w].run = 0
    BY <1>2, <2>1 DEF TickShape
  <2> HIDE DEF g
  <2> QED
    BY <1>1, <1>2, <2>1, <2>3, <2>4, MovedIsFrame, SteadyWithout DEF IInvSteady
<1>7. ASSUME NEW x \in frame[w].todo, SkipInFloor(w, x) PROVE NobodyOutlives' /\ RowGrows
  <2> DEFINE g == [frame[w] EXCEPT !.todo = @ \ {x}]
  <2>1. Becomes(w, g) /\ UNCHANGED <<runs, ranAt, goodAt, unmarked>> /\ frame[w].stage = "next"
    BY <1>7 DEF SkipInFloor, Becomes, At
  <2>2. g.run = frame[w].run /\ g.stalled = frame[w].stalled
    BY <1>2 DEF Frame
  <2>3. frame[w].run = 0
    BY <1>2, <2>1 DEF TickShape
  <2> HIDE DEF g
  <2> QED
    BY <1>1, <1>2, <2>1, <2>2, <2>3, MovedIsFrame, SteadyWithout DEF IInvSteady
<1> QED
  BY <1>3, <1>4, <1>5, <1>6, <1>7 DEF Claim

LEMMA SteadyRequest ==
    ASSUME IInvSteady, IInv', NEW w \in Requesters, (\E c \in Collections : RequestOne(w, c)) \/ RequestAll(w)
    PROVE  NobodyOutlives' /\ RowGrows
<1>1. w \in Frames
  BY DEF Frames
<1>2. PICK g : /\ Becomes(w, g) /\ UNCHANGED <<runs, ranAt, goodAt, unmarked>>
               /\ g.run = Resting.run /\ g.stalled = Resting.stalled
  <2>1. ASSUME NEW c \in Collections, RequestOne(w, c)
        PROVE  \E g : /\ Becomes(w, g) /\ UNCHANGED <<runs, ranAt, goodAt, unmarked>>
                      /\ g.run = Resting.run /\ g.stalled = Resting.stalled
    <3> DEFINE g == [Resting EXCEPT !.stage = "picked", !.coll = {c}, !.todo = {<<c, 0>>}]
    <3>1. Becomes(w, g) /\ UNCHANGED <<runs, ranAt, goodAt, unmarked>>
      BY <2>1 DEF RequestOne, Become, Becomes, row
    <3>2. g.run = Resting.run /\ g.stalled = Resting.stalled
      BY RestFields DEF Frame
    <3> QED
      BY <3>1, <3>2
  <2>2. ASSUME RequestAll(w)
        PROVE  \E g : /\ Becomes(w, g) /\ UNCHANGED <<runs, ranAt, goodAt, unmarked>>
                      /\ g.run = Resting.run /\ g.stalled = Resting.stalled
    <3> DEFINE g == [Resting EXCEPT !.stage = "picked", !.todo = Sweeps \X {0}]
    <3>1. Becomes(w, g) /\ UNCHANGED <<runs, ranAt, goodAt, unmarked>>
      BY <2>2 DEF RequestAll, Become, Becomes, row
    <3>2. g.run = Resting.run /\ g.stalled = Resting.stalled
      BY RestFields DEF Frame
    <3> QED
      BY <3>1, <3>2
  <2> QED
    BY <2>1, <2>2
<1> QED
  BY <1>1, <1>2, RestFields, MovedIsFrame, SteadyWithout DEF IInvSteady

LEMMA SteadyTask ==
    ASSUME IInvSteady, IInv', NEW w \in Requesters, Task(w)
    PROVE  NobodyOutlives' /\ RowGrows
<1>1. w \in Frames /\ w \notin Tickers
  BY FramesAssumption DEF Frames
<1>2. frame[w] \in Frame /\ TaskShape(frame[w]) /\ RunWork(frame[w]) /\ RunInHand(frame[w])
      /\ \A c, d \in frame[w].coll : c = d
  BY <1>1, FrameFacts DEF IInvSteady
<1>3. FrameKeepsRun(w, frame[w])
  BY <1>1 DEF IInvSteady, NobodyOutlives
<1>4. ASSUME StartTask(w) PROVE NobodyOutlives' /\ RowGrows
  <2> DEFINE C == {x[1] : x \in frame[w].todo}
             f == Loaded(frame[w], C)
             g == [f EXCEPT !.stage = "next"]
  <2>1. Becomes(w, g) /\ UNCHANGED <<runs, ranAt, goodAt, unmarked>> /\ frame[w].stage = "start"
    BY <1>4 DEF StartTask, Become, Becomes, At, row
  <2>2. \A c \in frame[w].coll : c \in Collections /\ c \in C
    BY <1>2, <2>1 DEF TaskShape, Frame
  <2>3. f \in Frame /\ f.run = frame[w].run /\ f.coll = frame[w].coll /\ f.stalled = frame[w].stalled
        /\ f.todo = frame[w].todo /\ \A c \in Collections \cap C : f.known[c] = ranStatus[c]
    <3> HIDE DEF C
    <3> QED
      BY <1>2, CopiesAlone DEF IInvSteady, IInv
  <2> HIDE DEF f, C
  <2>4. g \in Frame /\ g.stage = "next" /\ g.run = frame[w].run /\ g.coll = frame[w].coll
        /\ g.stalled = frame[w].stalled /\ g.known = f.known
    BY <2>3 DEF Frame
  <2> HIDE DEF g
  <2>5. \A c \in g.coll : g.known[c] # "expired"
    <3>1. \A c \in Collections : ranStatus[c] # "expired"
      BY DEF IInvSteady, IInv, TypeOK, Outcomes
    <3> QED
      BY <2>2, <2>3, <2>4, <3>1
  <2>6. frame'[w] = g
    BY <1>1, <2>1, <2>4, OneFrameMoves DEF IInvSteady, IInv
  <2>7. FrameKeepsRun(w, frame[w])'
    BY <1>3, <2>1, <2>4, <2>5, <2>6 DEF FrameKeepsRun, runs
  <2> QED
    BY <1>1, <2>1, <2>4, <2>7, SteadyLocal
<1>5. ASSUME NEW x \in frame[w].todo, TakeNext(w, x) PROVE NobodyOutlives' /\ RowGrows
  <2> DEFINE g == [frame[w] EXCEPT !.stage = "working", !.coll = {x[1]},
                                   !.before = frame[w].good[x[1]], !.todo = @ \ {x}]
  <2>1. Becomes(w, g) /\ UNCHANGED <<runs, ranAt, goodAt, unmarked>> /\ frame[w].stage = "next"
    BY <1>5 DEF TakeNext, Become, Becomes, At, row
  <2>2. g \in Frame
    BY <1>1, <2>1, MovedIsFrame DEF IInvSteady
  <2>3. g.stage = "working" /\ g.run = frame[w].run /\ g.todo = frame[w].todo \ {x}
        /\ g.stalled = frame[w].stalled
    BY <1>2 DEF Frame
  <2> HIDE DEF g
  <2>4. frame'[w] = g
    BY <1>1, <2>1, <2>2, OneFrameMoves DEF IInvSteady, IInv
  <2>5. ASSUME runFor[frame[w].run] # {} PROVE g.todo = {}
    <3>1. frame[w].run # 0
      BY <1>2, <2>1 DEF TaskShape
    <3>2. \A y \in frame[w].todo : y \in Collections \X (0..MaxDue) /\ y[1] = x[1] /\ y[2] = x[2]
      BY <1>2, <2>5, <3>1 DEF RunWork, TaskShape, Frame
    <3> QED
      BY <2>3, <3>2
  <2>6. FrameKeepsRun(w, frame[w])'
    BY <1>3, <2>1, <2>3, <2>4, <2>5 DEF FrameKeepsRun, runs
  <2> QED
    BY <1>1, <2>1, <2>2, <2>6, SteadyLocal
<1>6. ASSUME NEW x \in frame[w].todo, TaskRaises(w, x) PROVE NobodyOutlives' /\ RowGrows
  <2> DEFINE g == [frame[w] EXCEPT !.stage = "finish", !.ok = FALSE, !.todo = {}]
  <2>1. Becomes(w, g) /\ UNCHANGED <<runs, ranAt, goodAt, unmarked>> /\ frame[w].stage = "next"
        /\ frame[w].known[x[1]] = "expired"
    BY <1>6 DEF TaskRaises, Become, Becomes, At, row
  <2>2. g \in Frame
    BY <1>1, <2>1, MovedIsFrame DEF IInvSteady
  <2>3. g.stage = "finish" /\ g.run = frame[w].run /\ g.stalled = frame[w].stalled
    BY <1>2 DEF Frame
  <2> HIDE DEF g
  <2>4. frame'[w] = g
    BY <1>1, <2>1, <2>2, OneFrameMoves DEF IInvSteady, IInv
  <2>5. runFor[frame[w].run] = {}
    <3>1. frame[w].run # 0
      BY <1>2, <2>1 DEF TaskShape
    <3>2. runFor[frame[w].run] # {} => x[1] \in frame[w].coll
      BY <1>2, <3>1 DEF RunWork
    <3> QED
      BY <1>3, <2>1, <3>2 DEF FrameKeepsRun
  <2>6. FrameKeepsRun(w, frame[w])'
    BY <1>3, <2>1, <2>3, <2>4, <2>5 DEF FrameKeepsRun, runs
  <2> QED
    BY <1>1, <2>1, <2>2, <2>6, SteadyLocal
<1>7. ASSUME TaskReturns(w) PROVE FALSE
  BY <1>3, <1>7 DEF TaskReturns, At, FrameKeepsRun
<1> QED
  BY <1>4, <1>5, <1>6, <1>7 DEF Task

\* Only runs nobody has are closed by somebody else.
LEMMA SteadyReclaim ==
    ASSUME IInvSteady, IInv', NEW w \in Frames, NEW S \in SUBSET Dead, NEW mark \in BOOLEAN, Reclaim(w, S, mark)
    PROVE  NobodyOutlives' /\ RowGrows
<1> DEFINE g == [Resynced(frame[w], UNION {runFor[r] : r \in S}) EXCEPT !.stage = "insert"]
<1>a. IInv
  BY DEF IInvSteady
<1>1. frame[w].stage = "picked" /\ Becomes(w, g) /\ frame[w] \in Frame
  BY <1>a, FrameFacts DEF Reclaim, At, Become, Becomes
<1>2. /\ S \subseteq RunIds
      /\ \A r \in S : verdict[r] = "open"
      /\ verdict' = [r \in RunIds |-> IF r \in S THEN "failed" ELSE verdict[r]]
      /\ UNCHANGED <<serves, saved, runFor, runOcc, schedule, goodAt>>
      /\ unmarked' = IF mark THEN unmarked ELSE unmarked \cup S
  BY ReclaimCloses
<1>3. ranAt' \in [Collections -> 0..MaxRuns] /\ ranStatus' \in [Collections -> Outcomes]
  BY <1>a, ReclaimMarks
<1>4. \A c \in Collections :
          /\ ranAt'[c] # ranAt[c] => ranAt'[c] > ranAt[c] /\ ranAt'[c] \in S /\ c \in runFor[ranAt'[c]]
          /\ mark => \A r \in S : c \in runFor[r] => ranAt'[c] >= r
          /\ ranStatus'[c] # ranStatus[c] => ranStatus'[c] = "failed"
  BY <1>a, ReclaimMarks
<1>5. g \in Frame /\ g.stage = "insert" /\ g.run = frame[w].run /\ g.stalled = frame[w].stalled
  <2> DEFINE C == UNION {runFor[r] : r \in S}
  <2> HIDE DEF C
  <2> QED
    BY <1>a, <1>1, <1>3, ResyncAlone DEF IInv, C
<1> HIDE DEF g
<1>6. RowGrows
  <2>1. \A c \in Collections : ranAt[c] \in Nat /\ ranAt'[c] \in Nat /\ goodAt'[c] = goodAt[c] /\ goodAt[c] \in Nat
    BY <1>2, <1>3, BoundsAssumption, <1>a DEF IInv, TypeOK
  <2> QED
    BY <1>4, <2>1 DEF RowGrows
<1>7. RowsAreServed'
  <2>1. ASSUME NEW c \in Collections, NEW r \in RunIds, r = ranAt'[c] \/ r = goodAt[c]
        PROVE  verdict[r] # "unused" /\ serves[r] = LockOf(c)
    <3>1. CASE r = ranAt[c] \/ r = goodAt[c]
      BY <3>1 DEF IInvSteady, NobodyOutlives, RowsAreServed
    <3>2. CASE r = ranAt'[c] /\ r # ranAt[c]
      BY <1>a, <1>2, <1>4, <3>2 DEF IInv, RunsKept, RunServes
    <3> QED
      BY <2>1, <3>1, <3>2
  <2>2. \A r \in RunIds : verdict'[r] = "unused" => verdict[r] = "unused"
    BY <1>2
  <2> QED
    BY <1>2, <2>1, <2>2 DEF RowsAreServed
<1>8. HistoryOnRow'
  <2>1. ASSUME NEW c \in Collections, NEW r \in RunIds, runFor[r] = {c}, r \notin unmarked'
        PROVE  /\ verdict'[r] \in Closed => ranAt'[c] >= r
               /\ verdict'[r] = "succeeded" => goodAt[c] >= r
    <3>1. CASE r \in S
      BY <1>2, <1>4, <2>1, <3>1
    <3>2. CASE r \notin S
      <4>1. verdict'[r] = verdict[r] /\ r \notin unmarked
        BY <1>2, <2>1, <3>2
      <4>2. verdict[r] \in Closed => ranAt[c] >= r
        BY <2>1, <4>1 DEF IInvSteady, NobodyOutlives, HistoryOnRow
      <4>3. verdict[r] = "succeeded" => goodAt[c] >= r
        BY <2>1, <4>1 DEF IInvSteady, NobodyOutlives, HistoryOnRow
      <4>4. ranAt'[c] >= ranAt[c] /\ ranAt'[c] \in Nat /\ ranAt[c] \in Nat /\ r \in Nat
        BY <1>3, <1>6, <1>a, BoundsAssumption DEF RowGrows, IInv, TypeOK, RunIds
      <4> QED
        BY <4>1, <4>2, <4>3, <4>4
    <3> QED
      BY <3>1, <3>2
  <2> QED
    BY <1>2, <2>1 DEF HistoryOnRow
<1>9. \A v \in Frames : v # w /\ frame[v].run # 0 =>
           verdict'[frame[v].run] = "open" /\ runFor'[frame[v].run] = runFor[frame[v].run]
  <2>1. ASSUME NEW v \in Frames, frame[v].run # 0
        PROVE  verdict'[frame[v].run] = "open"
    <3>1. verdict[frame[v].run] = "open" /\ ~frame[v].stalled /\ frame[v].run \in RunIds
      BY <2>1, <1>a, FrameTyped, BoundsAssumption DEF IInv, IInvSteady, NobodyOutlives, FrameKeepsRun, RunIds
    <3>2. frame[v].run \notin S
      BY <3>1 DEF Dead, MyRun
    <3> QED
      BY <1>2, <3>1, <3>2
  <2> QED
    BY <1>2, <2>1
<1>10. frame'[w] = g /\ g.run = 0 /\ ~g.stalled
  <2>1. frame[w].run = 0
    BY <1>a, <1>1, FrameFacts DEF TickShape, TaskShape, Frames
  <2> QED
    BY <1>a, <1>1, <1>5, <2>1, OneFrameMoves DEF IInv, IInvSteady, NobodyOutlives, FrameKeepsRun
<1>11. FrameKeepsRun(w, frame[w])'
  BY <1>5, <1>10 DEF FrameKeepsRun
<1> QED
  BY <1>1, <1>5, <1>6, <1>7, <1>8, <1>9, <1>11, SteadyStep

LEMMA SteadyInsert ==
    ASSUME IInvSteady, IInv', NEW w \in Frames, Insert(w)
    PROVE  NobodyOutlives' /\ RowGrows
<1>a. IInv
  BY DEF IInvSteady
<1>1. PICK r \in RunIds, g \in Frame :
        /\ verdict[r] = "unused" /\ \A s \in RunIds : verdict[s] # "unused" <=> s < r
        /\ \A s \in RunIds : verdict[s] = "open" => serves[s] # Wanted(w)
        /\ verdict' = [verdict EXCEPT ![r] = "open"] /\ serves' = [serves EXCEPT ![r] = Wanted(w)]
        /\ runFor' = [runFor EXCEPT ![r] = frame[w].coll] /\ runOcc' = [runOcc EXCEPT ![r] = frame[w].occ]
        /\ UNCHANGED <<saved, schedule, row, unmarked>>
        /\ frame[w].stage = "insert" /\ frame[w].run = 0 /\ ~frame[w].stalled
        /\ Wanted(w) \in {SweepLock, CatalogLock}
        /\ \A c \in frame[w].coll : Wanted(w) = LockOf(c)
        /\ w \in Requesters => \A x \in frame[w].todo : Wanted(w) = LockOf(x[1])
        /\ Becomes(w, g)
        /\ g.stage = IF w \in Tickers THEN "working" ELSE "start"
        /\ g.run = r /\ g.coll = frame[w].coll /\ g.todo = frame[w].todo /\ g.occ = frame[w].occ
        /\ ~g.stalled
  BY <1>a, InsertWrites, Zenon
<1>2. frame'[w] = g
  BY <1>a, <1>1, OneFrameMoves DEF IInv
<1>3. /\ \A s \in RunIds : s # r => /\ verdict'[s] = verdict[s] /\ serves'[s] = serves[s]
                                    /\ runFor'[s] = runFor[s]
      /\ verdict'[r] = "open" /\ serves'[r] = Wanted(w)
      /\ ranAt' = ranAt /\ goodAt' = goodAt /\ unmarked' = unmarked
  BY <1>a, <1>1 DEF IInv, TypeOK, row
<1>4. RowGrows
  BY <1>3, <1>a DEF RowGrows, IInv, TypeOK
<1>5. RowsAreServed'
  <2>1. ASSUME NEW c \in Collections, NEW s \in RunIds, s = ranAt[c] \/ s = goodAt[c]
        PROVE  verdict'[s] # "unused" /\ serves'[s] = LockOf(c)
    <3>1. verdict[s] # "unused" /\ serves[s] = LockOf(c)
      BY <2>1 DEF IInvSteady, NobodyOutlives, RowsAreServed
    <3> QED
      BY <1>1, <1>3, <3>1
  <2> QED
    BY <1>3, <2>1 DEF RowsAreServed
<1>6. HistoryOnRow'
  <2>1. ASSUME NEW c \in Collections, NEW s \in RunIds, runFor'[s] = {c}, s \notin unmarked
        PROVE  /\ verdict'[s] \in Closed => ranAt[c] >= s
               /\ verdict'[s] = "succeeded" => goodAt[c] >= s
    BY <1>3, <2>1 DEF IInvSteady, NobodyOutlives, HistoryOnRow, Closed
  <2> QED
    BY <1>3, <2>1 DEF HistoryOnRow
<1>7. \A v \in Frames : v # w /\ frame[v].run # 0 =>
           verdict'[frame[v].run] = "open" /\ runFor'[frame[v].run] = runFor[frame[v].run]
  <2>1. ASSUME NEW v \in Frames, frame[v].run # 0
        PROVE  frame[v].run \in RunIds /\ verdict[frame[v].run] = "open"
    BY <1>a, <2>1, FrameTyped, BoundsAssumption DEF IInv, IInvSteady, NobodyOutlives, FrameKeepsRun, RunIds
  <2> QED
    BY <1>1, <1>3, <2>1
<1>8. FrameKeepsRun(w, frame[w])'
  BY <1>1, <1>2, <1>3, FramesAssumption DEF FrameKeepsRun, Frames
<1> QED
  BY <1>1, <1>4, <1>5, <1>6, <1>7, <1>8, SteadyStep

LEMMA SteadyAcquire ==
    ASSUME IInvSteady, IInv', NEW w \in Frames, Acquire(w)
    PROVE  NobodyOutlives' /\ RowGrows
<1>1. ASSUME NotStarted(w) PROVE NobodyOutlives' /\ RowGrows
  BY <1>1, SteadyDone DEF NotStarted, At
<1>2. ASSUME GiveUp(w) PROVE NobodyOutlives' /\ RowGrows
  BY <1>2, SteadyDone DEF GiveUp, At
<1> QED
  BY <1>1, <1>2, SteadyReclaim, SteadyInsert DEF Acquire

\* A frame's run is newer than what the row of its collection records.
LEMMA AttemptIsNewest ==
    ASSUME IInvSteady, NEW w \in Frames, frame[w].stage = "working"
    PROVE  LET c == InHand(w) IN
           /\ c \in Collections /\ frame[w].coll = {c} /\ frame[w].run \in RunIds
           /\ verdict[frame[w].run] = "open" /\ serves[frame[w].run] = LockOf(c)
           /\ ranAt[c] <= frame[w].run /\ goodAt[c] <= frame[w].run
<1>1. InHand(w) \in Collections /\ frame[w].coll = {InHand(w)} /\ frame[w].run \in RunIds
      /\ serves[frame[w].run] = LockOf(InHand(w))
  BY Attempting DEF IInvSteady
<1>2. verdict[frame[w].run] = "open"
  BY <1>1, BoundsAssumption DEF IInvSteady, NobodyOutlives, FrameKeepsRun, RunIds
<1>3. ASSUME NEW s \in 0..MaxRuns, s = ranAt[InHand(w)] \/ s = goodAt[InHand(w)] PROVE s <= frame[w].run
  <2>1. CASE s = 0
    BY <1>1, <2>1, BoundsAssumption DEF RunIds
  <2>2. CASE s # 0
    <3>1. s \in RunIds
      BY <2>2, BoundsAssumption DEF RunIds
    <3>2. verdict[s] # "unused" /\ serves[s] = LockOf(InHand(w))
      BY <1>1, <1>3, <3>1 DEF IInvSteady, NobodyOutlives, RowsAreServed
    <3> QED
      BY <1>1, <1>2, <3>1, <3>2 DEF IInvSteady, IInv, RunsKept, OpenIsNewest
  <2> QED
    BY <2>1, <2>2
<1>4. ranAt[InHand(w)] \in 0..MaxRuns /\ goodAt[InHand(w)] \in 0..MaxRuns
  BY <1>1 DEF IInvSteady, IInv, TypeOK
<1> QED
  BY <1>1, <1>2, <1>3, <1>4

\* An attempt that is accounted for: its instant replaces older ones.
LEMMA SteadyAccount ==
    ASSUME IInvSteady, IInv', NEW w \in Frames, frame[w].stage = "working", NEW h \in Frame, Becomes(w, Then(w, h)),
           h.todo = frame[w].todo, h.coll = frame[w].coll, h.run = frame[w].run, h.stalled = frame[w].stalled,
           UNCHANGED <<runs, unmarked>>,
           ranAt' = [ranAt EXCEPT ![InHand(w)] = frame[w].run],
           \/ goodAt' = [goodAt EXCEPT ![InHand(w)] = frame[w].run]
           \/ (goodAt' = goodAt /\ ~h.ok)
    PROVE  NobodyOutlives' /\ RowGrows
<1> DEFINE c == InHand(w)
           r == frame[w].run
           g == Then(w, h)
<1>a. IInv
  BY DEF IInvSteady
<1>1. /\ c \in Collections /\ frame[w].coll = {c} /\ r \in RunIds
      /\ verdict[r] = "open" /\ serves[r] = LockOf(c) /\ ranAt[c] <= r /\ goodAt[c] <= r
  BY AttemptIsNewest
<1>2. /\ g \in Frame /\ g.todo = frame[w].todo /\ g.coll = {c} /\ g.run = r
      /\ g.ok = h.ok /\ g.stalled = frame[w].stalled
      /\ g.stage = IF w \in Requesters /\ frame[w].todo # {} THEN "next" ELSE "finish"
  BY <1>1, GoesOn
<1>4. /\ ranAt' = [ranAt EXCEPT ![c] = r]
      /\ goodAt' = [goodAt EXCEPT ![c] = r] \/ (goodAt' = goodAt /\ ~h.ok)
  OBVIOUS
<1> HIDE DEF c, r, g
<1>3. Becomes(w, g) /\ frame'[w] = g
  BY <1>a, <1>2, OneFrameMoves DEF IInv, g
<1>5. /\ ranAt'[c] = r /\ (h.ok => goodAt'[c] = r) /\ goodAt'[c] \in {r, goodAt[c]}
      /\ \A d \in Collections : d # c => ranAt'[d] = ranAt[d] /\ goodAt'[d] = goodAt[d]
  BY <1>a, <1>1, <1>4 DEF IInv, TypeOK
<1>6. \A d \in Collections : ranAt[d] \in Nat /\ goodAt[d] \in Nat /\ r \in Nat
  BY <1>a, <1>1, BoundsAssumption DEF IInv, TypeOK, RunIds
<1>7. RowGrows
  BY <1>1, <1>5, <1>6 DEF RowGrows
<1>8. RowsAreServed'
  <2>1. ASSUME NEW d \in Collections, NEW s \in RunIds, s = ranAt'[d] \/ s = goodAt'[d]
        PROVE  verdict[s] # "unused" /\ serves[s] = LockOf(d)
    <3>1. CASE s = ranAt[d] \/ s = goodAt[d]
      BY <3>1 DEF IInvSteady, NobodyOutlives, RowsAreServed
    <3>2. CASE d = c /\ s = r
      BY <1>1, <3>2
    <3> QED
      BY <1>5, <2>1, <3>1, <3>2
  <2> QED
    BY <2>1 DEF RowsAreServed, runs
<1>9. HistoryOnRow'
  <2>1. ASSUME NEW d \in Collections, NEW s \in RunIds, runFor[s] = {d}, s \notin unmarked
        PROVE  /\ verdict[s] \in Closed => ranAt'[d] >= s
               /\ verdict[s] = "succeeded" => goodAt'[d] >= s
    <3>1. /\ verdict[s] \in Closed => ranAt[d] >= s
          /\ verdict[s] = "succeeded" => goodAt[d] >= s
      BY <2>1 DEF IInvSteady, NobodyOutlives, HistoryOnRow
    <3>2. ranAt'[d] \in Nat /\ goodAt'[d] \in Nat /\ s \in Nat
      BY <1>5, <1>6, BoundsAssumption DEF RunIds
    <3> QED
      BY <1>6, <1>7, <3>1, <3>2 DEF RowGrows
  <2> QED
    BY <2>1 DEF HistoryOnRow, runs
<1>10. FrameKeepsRun(w, frame[w])
  BY DEF IInvSteady, NobodyOutlives
<1>11. FrameKeepsRun(w, frame[w])'
  <2>1. ~g.stalled /\ g.stage \in {"next", "finish"} /\ verdict'[g.run] = "open"
    BY <1>1, <1>2, <1>10 DEF FrameKeepsRun, runs
  <2>2. \A d \in g.coll : ranAt'[d] >= g.run /\ (g.ok => goodAt'[d] >= g.run)
    BY <1>1, <1>2, <1>5, <1>6
  <2>3. w \in Requesters /\ g.stage = "next" => runFor'[g.run] = {}
    BY <1>2, <1>10 DEF FrameKeepsRun, runs, r
  <2> QED
    BY <1>3, <2>1, <2>2, <2>3 DEF FrameKeepsRun
<1>12. \A v \in Frames : v # w /\ frame[v].run # 0 =>
           verdict'[frame[v].run] = "open" /\ runFor'[frame[v].run] = runFor[frame[v].run]
  BY DEF IInvSteady, NobodyOutlives, FrameKeepsRun, runs
<1> QED
  BY <1>2, <1>3, <1>7, <1>8, <1>9, <1>11, <1>12, SteadyStep

LEMMA SteadyAccountOk ==
    ASSUME IInvSteady, IInv', NEW w \in Frames, NEW tolerated \in BOOLEAN, AccountOk(w, tolerated)
    PROVE  NobodyOutlives' /\ RowGrows
<1> DEFINE c == InHand(w)
           f == IF tolerated THEN Expired(frame[w]) ELSE frame[w]
           h == [f EXCEPT !.known[c] = "ok", !.good[c] = frame[w].run]
<1>1. /\ frame[w].stage = "working" /\ Becomes(w, Then(w, h)) /\ UNCHANGED <<runs, unmarked>>
      /\ ranAt' = [ranAt EXCEPT ![InHand(w)] = frame[w].run]
      /\ goodAt' = [goodAt EXCEPT ![InHand(w)] = frame[w].run]
  BY DEF AccountOk, At, Become, Becomes, MyRun
<1>2. c \in Collections /\ frame[w].run \in RunIds /\ frame[w] \in Frame
  BY <1>1, Attempting, FrameFacts DEF IInvSteady
<1>3. f \in Frame /\ f.todo = frame[w].todo /\ f.coll = frame[w].coll /\ f.occ = frame[w].occ
      /\ f.run = frame[w].run /\ f.stalled = frame[w].stalled
  BY <1>2, CopiesAlone DEF IInvSteady, IInv
<1> HIDE DEF f, c
<1>4. h \in Frame /\ h.todo = f.todo /\ h.coll = f.coll /\ h.run = f.run /\ h.stalled = f.stalled
  <2>1. "ok" \in Outcomes /\ frame[w].run \in 0..MaxRuns
    BY <1>2 DEF Outcomes, RunIds
  <2> QED
    BY <1>2, <1>3, <2>1 DEF Frame
<1> HIDE DEF h
<1> QED
  BY <1>1, <1>3, <1>4, SteadyAccount

LEMMA SteadyAccountFailed ==
    ASSUME IInvSteady, IInv', NEW w \in Frames, AccountFailed(w)
    PROVE  NobodyOutlives' /\ RowGrows
<1> DEFINE c == InHand(w)
           f == Expired(frame[w])
           h == [f EXCEPT !.known[c] = "failed", !.good[c] = goodAt[c], !.ok = FALSE]
<1>1. /\ frame[w].stage = "working" /\ Becomes(w, Then(w, h)) /\ UNCHANGED <<runs, unmarked>>
      /\ ranAt' = [ranAt EXCEPT ![InHand(w)] = frame[w].run]
      /\ goodAt' = goodAt
  BY DEF AccountFailed, At, Become, Becomes, MyRun
<1>2. c \in Collections /\ frame[w] \in Frame
  BY <1>1, Attempting, FrameFacts DEF IInvSteady
<1>3. f \in Frame /\ f.todo = frame[w].todo /\ f.coll = frame[w].coll /\ f.occ = frame[w].occ
      /\ f.run = frame[w].run /\ f.stalled = frame[w].stalled
  BY <1>2, CopiesAlone DEF IInvSteady, IInv
<1> HIDE DEF f, c
<1>4. h \in Frame /\ h.todo = f.todo /\ h.coll = f.coll /\ h.run = f.run /\ h.stalled = f.stalled /\ ~h.ok
  <2>1. "failed" \in Outcomes /\ goodAt[c] \in 0..MaxRuns
    BY <1>2 DEF Outcomes, IInvSteady, IInv, TypeOK
  <2> QED
    BY <1>2, <1>3, <2>1 DEF Frame
<1> HIDE DEF h
<1> QED
  BY <1>1, <1>3, <1>4, SteadyAccount

LEMMA SteadyFinish ==
    ASSUME IInvSteady, IInv', NEW w \in Frames, Finish(w)
    PROVE  NobodyOutlives' /\ RowGrows
<1> DEFINE r == frame[w].run
           g == Done(w)
<1>a. IInv /\ FrameKeepsRun(w, frame[w])
  BY DEF IInvSteady, NobodyOutlives
<1>1. frame[w].stage = "finish" /\ Becomes(w, g) /\ UNCHANGED <<runFor, runOcc, schedule, row, unmarked>>
  BY DEF Finish, At, Become, Becomes
<1>2. g \in Frame /\ g.run = 0 /\ ~g.stalled
  BY <1>a, <1>1, DoneFields, MovedIsFrame
<1>3. r # 0 /\ r \in RunIds
  <2>1. r # 0 /\ r \in 0..MaxRuns
    BY <1>a, <1>1, FrameFacts DEF Frame, TickShape, TaskShape, Frames
  <2> QED
    BY <2>1, BoundsAssumption DEF RunIds
<1> HIDE DEF g
<1>4. verdict' = [verdict EXCEPT ![r] = IF frame[w].ok THEN "succeeded" ELSE "failed"] /\ serves' = serves
      /\ ranAt' = ranAt /\ goodAt' = goodAt
  BY <1>1 DEF Finish, Lock!Release, MyRun, row
<1>5. frame'[w] = g
  BY <1>a, <1>1, <1>2, OneFrameMoves DEF IInv
<1>6. RowGrows
  BY <1>a, <1>4 DEF RowGrows, IInv, TypeOK
<1>7. RowsAreServed'
  <2>1. \A s \in RunIds : verdict[s] # "unused" => verdict'[s] # "unused"
    BY <1>a, <1>4 DEF IInv, TypeOK
  <2> QED
    BY <1>4, <2>1 DEF IInvSteady, NobodyOutlives, RowsAreServed
<1>8. HistoryOnRow'
  <2>1. ASSUME NEW c \in Collections, NEW s \in RunIds, runFor[s] = {c}, s \notin unmarked
        PROVE  /\ verdict'[s] \in Closed => ranAt[c] >= s
               /\ verdict'[s] = "succeeded" => goodAt[c] >= s
    <3>1. CASE s = r
      <4>1. frame[w].coll = {c}
        BY <1>a, <1>3, <2>1, <3>1, FrameFacts DEF RunInHand
      <4>2. ranAt[c] >= s /\ (frame[w].ok => goodAt[c] >= s)
        BY <1>a, <1>1, <2>1, <3>1, <4>1 DEF FrameKeepsRun
      <4>3. verdict'[s] = "succeeded" => frame[w].ok
        BY <1>a, <1>3, <1>4, <3>1 DEF IInv, TypeOK
      <4> QED
        BY <4>2, <4>3
    <3>2. CASE s # r
      <4>1. verdict'[s] = verdict[s]
        BY <1>4, <3>2
      <4> QED
        BY <2>1, <4>1 DEF IInvSteady, NobodyOutlives, HistoryOnRow
    <3> QED
      BY <3>1, <3>2
  <2> QED
    BY <1>1, <1>4, <2>1 DEF HistoryOnRow
<1>9. \A v \in Frames : v # w /\ frame[v].run # 0 =>
           verdict'[frame[v].run] = "open" /\ runFor'[frame[v].run] = runFor[frame[v].run]
  <2>1. ASSUME NEW v \in Frames, v # w, frame[v].run # 0 PROVE verdict'[frame[v].run] = "open"
    <3>1. verdict[frame[v].run] = "open" /\ frame[v].run # r
      BY <1>a, <2>1 DEF IInvSteady, IInv, RunsKept, RunsOwned, NobodyOutlives, FrameKeepsRun
    <3> QED
      BY <1>4, <3>1
  <2> QED
    BY <1>1, <2>1
<1>10. /\ w \in Tickers => TickShape(g)
       /\ w \in Requesters => TaskShape(g)
       /\ w \in Tickers \cup Requesters
  BY <1>5 DEF IInv, Shapes, TickShape, TaskShape, Frames
<1>11. FrameKeepsRun(w, frame[w])'
  BY <1>2, <1>5, <1>10 DEF FrameKeepsRun, TickShape, TaskShape
<1> QED
  BY <1>1, <1>2, <1>6, <1>7, <1>8, <1>9, <1>11, SteadyStep

LEMMA SteadyAttempt ==
    ASSUME IInvSteady, IInv', NEW w \in Frames, Attempt(w)
    PROVE  NobodyOutlives' /\ RowGrows
<1>1. FrameKeepsRun(w, frame[w])
  BY DEF IInvSteady, NobodyOutlives
<1>2. ASSUME AccountReclaimed(w) PROVE FALSE
  BY <1>2, AttemptIsNewest DEF AccountReclaimed, At, MyRun
<1>3. ASSUME FinishRefused(w) PROVE FALSE
  <2>1. frame[w].run # 0
    BY <1>3, FrameFacts DEF IInvSteady, FinishRefused, At, TickShape, TaskShape, Frames
  <2> QED
    BY <1>1, <1>3, <2>1 DEF FinishRefused, MyRun, FrameKeepsRun
<1> QED
  BY <1>2, <1>3, SteadyAccountOk, SteadyAccountFailed, SteadyFinish DEF Attempt

LEMMA SteadySchedule ==
    ASSUME IInvSteady, IInv', UNCHANGED <<runs, row, unmarked, frame>>
    PROVE  NobodyOutlives' /\ RowGrows
BY SMTT(30) DEF IInvSteady, IInv, TypeOK, NobodyOutlives, RowGrows, RowsAreServed, HistoryOnRow, FrameKeepsRun, runs, row

\* Where nothing stalls no frame outlives its run.
LEMMA SteadyNext ==
    ASSUME MayStall = {}, IInvSteady, [Next]_vars
    PROVE  IInvSteady' /\ RowGrows
<1>1. IInv'
  BY NextHolds DEF IInvSteady
<1>2. CASE UNCHANGED vars
  BY <1>1, <1>2, SteadySchedule DEF vars, IInvSteady
<1>3. ASSUME NEW c \in Collections, Arrive(c) \/ Edit(c) PROVE NobodyOutlives' /\ RowGrows
  BY <1>1, <1>3, SteadySchedule DEF Arrive, Edit
<1>4. ASSUME NEW w \in Tickers, Claim(w) PROVE NobodyOutlives' /\ RowGrows
  BY <1>1, <1>4, SteadyClaim
<1>5. ASSUME NEW w \in Tickers, Downgrade(w) PROVE FALSE
  BY <1>5 DEF Downgrade, At, IInvSteady, NobodyOutlives, FrameKeepsRun, Frames
<1>6. ASSUME NEW w \in Requesters, (\E c \in Collections : RequestOne(w, c)) \/ RequestAll(w) \/ Task(w)
      PROVE  NobodyOutlives' /\ RowGrows
  BY <1>1, <1>6, SteadyRequest, SteadyTask
<1>7. ASSUME NEW w \in Frames, Acquire(w) \/ Attempt(w) PROVE NobodyOutlives' /\ RowGrows
  BY <1>1, <1>7, SteadyAcquire, SteadyAttempt
<1>8. ASSUME NEW w \in Frames, Crash(w) PROVE NobodyOutlives' /\ RowGrows
  BY <1>1, <1>8, SteadyResting DEF Crash
<1>9. ASSUME NEW w \in Frames, Stall(w) \/ Wake(w) PROVE FALSE
  BY <1>9 DEF Stall, Wake, IInvSteady, NobodyOutlives, FrameKeepsRun
<1> QED
  BY <1>1, <1>2, <1>3, <1>4, <1>5, <1>6, <1>7, <1>8, <1>9 DEF Next, IInvSteady

LEMMA SteadyInit == Init => IInvSteady
<1> SUFFICES ASSUME Init PROVE IInvSteady
  OBVIOUS
<1>1. IInv
  BY InitHolds
<1>2. /\ \A c \in Collections : ranAt[c] = 0 /\ goodAt[c] = 0
      /\ \A w \in Frames : frame[w] = Resting
      /\ \A r \in RunIds : runFor[r] = {} /\ r # 0
  BY BoundsAssumption DEF Init, RunIds
<1> QED
  BY <1>1, <1>2, RestFields DEF IInvSteady, NobodyOutlives, RowsAreServed, HistoryOnRow, FrameKeepsRun

\* Where no frame stalls past its run, one occurrence starts one run and the
\* row of a collection nobody works on tells its history, the newest closed
\* attempt and a success of it included (claim_due, run_one_collection).
THEOREM CollectionsAreSound ==
    ASSUME MayStall = {}
    PROVE  Spec => []CollectionsSound
<1>1. Init => IInvSteady
  BY SteadyInit
<1>2. IInvSteady /\ [Next]_vars => IInvSteady'
  BY SteadyNext
<1>3. IInvSteady => TypeOK /\ RowTellsHistory
  BY DEF IInvSteady, IInv, NobodyOutlives, HistoryOnRow, RowTellsHistory, Closed
<1> QED
  BY <1>1, <1>2, <1>3, OneRunPerOccurrence, PTL DEF Spec, CollectionsSound

\* There a success is what clears an alarm, a success that happened stays, and
\* the outcome on a row is the newest attempt's (tick_tenant,
\* run_one_collection).
THEOREM SuccessesStand ==
    ASSUME MayStall = {}
    PROVE  Spec => SuccessStands
<1> DEFINE Stays == \A c \in Collections : goodAt[c] # 0 /\ verdict[goodAt[c]] = "succeeded"
                        => goodAt'[c] >= goodAt[c]
           Newer == \A c \in Collections : ranAt'[c] >= ranAt[c]
<1>1. Init => IInvSteady
  BY SteadyInit
<1>2. IInvSteady /\ [Next]_vars => IInvSteady' /\ [Stays]_vars /\ [Newer]_vars
  BY SteadyNext DEF RowGrows
<1>3. Spec => [][Stays]_vars /\ [][Newer]_vars
  BY <1>1, <1>2, PTL DEF Spec
<1>4. Spec => RealSuccessStays /\ NewestAttemptRecorded
  BY <1>3 DEF RealSuccessStays, NewestAttemptRecorded
<1> QED
  BY <1>4, AlarmsStand, PTL DEF SuccessStands
=============================================================================
