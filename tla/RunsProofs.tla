----------------------------- MODULE RunsProofs -----------------------------
(***************************************************************************)
(* Theorems about Runs, for every set of workers, run ids and locks and     *)
(* every staleness bound.                                                   *)
(***************************************************************************)
EXTENDS Runs, TLAPS

\* Every step keeps the shape of the rows and of the frames.
LEMMA TypeStep == TypeOK /\ [Next]_vars => TypeOK'
<1> SUFFICES ASSUME TypeOK, [Next]_vars PROVE TypeOK'
  OBVIOUS
<1> USE LocksAssumption, BoundsAssumption, NullsAssumption DEF TypeOK, Closed, Acquiring, Inside, At
<1>1. ASSUME NEW w \in Workers, NEW l \in Locks, Reclaim(w, l) PROVE TypeOK'
  BY <1>1 DEF Reclaim, Stale
<1>2. ASSUME NEW w \in Workers, NEW r \in RunIds, RecordReclaim(w, r) PROVE TypeOK'
  BY <1>2, SMTT(30) DEF RecordReclaim
<1>3. ASSUME NEW w \in Workers, StartInsert(w) PROVE TypeOK'
  BY <1>3 DEF StartInsert, GoTo, table
<1>4. ASSUME NEW w \in Workers, NEW r \in RunIds, InsertRun(w, r) PROVE TypeOK'
  BY <1>4 DEF InsertRun, Refused, Held, Fresh
<1>5. ASSUME NEW w \in Workers, InsertRefused(w) PROVE TypeOK'
  BY <1>5 DEF InsertRefused, GoTo, table
<1>6. ASSUME NEW w \in Workers, ReportHolder(w) PROVE TypeOK'
  BY <1>6 DEF ReportHolder, Leave, table
<1>7. ASSUME NEW w \in Workers, RetryInsert(w) PROVE TypeOK'
  BY <1>7 DEF RetryInsert, table
<1>8. ASSUME NEW w \in Workers, Write(w) PROVE TypeOK'
  BY <1>8 DEF Write, table
<1>9. ASSUME NEW w \in Workers, CommitWrite(w) PROVE TypeOK'
  BY <1>9 DEF CommitWrite, FenceHolds, Owns
<1>10. ASSUME NEW w \in Workers, RollBackWrite(w) PROVE TypeOK'
  BY <1>10 DEF RollBackWrite, table
<1>11. ASSUME NEW w \in Workers, NoteProgress(w) PROVE TypeOK'
  BY <1>11 DEF NoteProgress, table
<1>12. ASSUME NEW w \in Workers, Beat(w) PROVE TypeOK'
  <2>1. CASE Owns(w)
    <3>1. mine[w] \in RunIds /\ age' = [age EXCEPT ![mine[w]] = 0]
      BY <1>12, <2>1 DEF Beat, Owns
    <3>2. age' \in [RunIds -> 0..(StaleAfter + 1)]
      BY <3>1
    <3>3. cold' = [cold EXCEPT ![w] = FALSE]
      BY <1>12, <2>1, Zenon DEF Beat
    <3>4. cold' \in [Workers -> BOOLEAN]
      BY <3>3
    <3>5. quiet' \in [Workers -> 0..StaleAfter]
      BY <1>12 DEF Beat
    <3> QED
      BY <1>12, <2>1, <3>2, <3>4, <3>5 DEF Beat
  <2>2. CASE ~Owns(w)
    BY <1>12, <2>2 DEF Beat
  <2> QED
    BY <2>1, <2>2
<1>13. ASSUME NEW w \in Workers, FinishOk(w) PROVE TypeOK'
  BY <1>13 DEF FinishOk, StillRunning, Owns, GoTo
<1>14. ASSUME NEW w \in Workers, FinishRaises(w) PROVE TypeOK'
  BY <1>14 DEF FinishRaises, GoTo, table
<1>15. ASSUME NEW w \in Workers, FinishFailed(w) PROVE TypeOK'
  BY <1>15 DEF FinishFailed, StillRunning, Owns, GoTo
<1>16. ASSUME NEW w \in Workers, FinishRefused(w) PROVE TypeOK'
  BY <1>16 DEF FinishRefused, Leave, table
<1>17. ASSUME NEW w \in Workers, AnnounceCompleted(w) PROVE TypeOK'
  BY <1>17 DEF AnnounceCompleted, GoTo
<1>18. ASSUME NEW w \in Workers, AnnounceFailed(w) PROVE TypeOK'
  BY <1>18 DEF AnnounceFailed, Leave
<1>19. ASSUME NEW w \in Workers, KeepAlive(w) PROVE TypeOK'
  BY <1>19 DEF KeepAlive, Owns, frame
<1>20. ASSUME NEW w \in Workers, KeeperStops(w) PROVE TypeOK'
  BY <1>20 DEF KeeperStops, table
<1>21. ASSUME NEW w \in Workers, Crash(w) PROVE TypeOK'
  BY <1>21 DEF Crash, Leave, table
<1>22. ASSUME NEW w \in Workers, Hang(w) PROVE TypeOK'
  BY <1>22 DEF Hang, table
<1>23. ASSUME NEW w \in Workers, Wake(w) PROVE TypeOK'
  BY <1>23 DEF Wake, table
<1>24. ASSUME NEW r \in RunIds, Purge(r) PROVE TypeOK'
  BY <1>24 DEF Purge, frame
<1>25. ASSUME Tick PROVE TypeOK'
  BY <1>25 DEF Tick, AtMost
<1>26. CASE UNCHANGED vars
  BY <1>26 DEF vars, table, frame
<1> QED
  BY <1>1, <1>2, <1>3, <1>4, <1>5, <1>6, <1>7, <1>8, <1>9, <1>10, <1>11, <1>12, <1>13, <1>14, <1>15, <1>16, <1>17, <1>18, <1>19, <1>20, <1>21, <1>22, <1>23, <1>24, <1>25, <1>26 DEF Next, Acquire, Work, Close

\* Every step keeps at most one running run per exclusive lock.
LEMMA HolderStep == TypeOK /\ OneHolder /\ [Next]_vars => OneHolder'
<1> SUFFICES ASSUME TypeOK /\ OneHolder, [Next]_vars PROVE OneHolder'
  OBVIOUS
<1> USE NullsAssumption DEF TypeOK, OneHolder, Closed, Acquiring, Inside, At
<1>1. ASSUME NEW w \in Workers, NEW l \in Locks, Reclaim(w, l) PROVE OneHolder'
  BY <1>1 DEF Reclaim, Stale
<1>2. ASSUME NEW w \in Workers, NEW r \in RunIds, RecordReclaim(w, r) PROVE OneHolder'
  BY <1>2 DEF RecordReclaim
<1>3. ASSUME NEW w \in Workers, StartInsert(w) PROVE OneHolder'
  BY <1>3 DEF StartInsert, GoTo, table
<1>4. ASSUME NEW w \in Workers, NEW r \in RunIds, InsertRun(w, r) PROVE OneHolder'
  BY <1>4 DEF InsertRun, Refused, Held, Fresh
<1>5. ASSUME NEW w \in Workers, InsertRefused(w) PROVE OneHolder'
  BY <1>5 DEF InsertRefused, GoTo, table
<1>6. ASSUME NEW w \in Workers, ReportHolder(w) PROVE OneHolder'
  BY <1>6 DEF ReportHolder, Leave, table
<1>7. ASSUME NEW w \in Workers, RetryInsert(w) PROVE OneHolder'
  BY <1>7 DEF RetryInsert, table
<1>8. ASSUME NEW w \in Workers, Write(w) PROVE OneHolder'
  BY <1>8 DEF Write, table
<1>9. ASSUME NEW w \in Workers, CommitWrite(w) PROVE OneHolder'
  BY <1>9 DEF CommitWrite, FenceHolds, Owns
<1>10. ASSUME NEW w \in Workers, RollBackWrite(w) PROVE OneHolder'
  BY <1>10 DEF RollBackWrite, table
<1>11. ASSUME NEW w \in Workers, NoteProgress(w) PROVE OneHolder'
  BY <1>11 DEF NoteProgress, table
<1>12. ASSUME NEW w \in Workers, Beat(w) PROVE OneHolder'
  BY <1>12 DEF Beat, Owns
<1>13. ASSUME NEW w \in Workers, FinishOk(w) PROVE OneHolder'
  BY <1>13 DEF FinishOk, StillRunning, Owns, GoTo
<1>14. ASSUME NEW w \in Workers, FinishRaises(w) PROVE OneHolder'
  BY <1>14 DEF FinishRaises, GoTo, table
<1>15. ASSUME NEW w \in Workers, FinishFailed(w) PROVE OneHolder'
  BY <1>15 DEF FinishFailed, StillRunning, Owns, GoTo
<1>16. ASSUME NEW w \in Workers, FinishRefused(w) PROVE OneHolder'
  BY <1>16 DEF FinishRefused, Leave, table
<1>17. ASSUME NEW w \in Workers, AnnounceCompleted(w) PROVE OneHolder'
  BY <1>17 DEF AnnounceCompleted, GoTo
<1>18. ASSUME NEW w \in Workers, AnnounceFailed(w) PROVE OneHolder'
  BY <1>18 DEF AnnounceFailed, Leave
<1>19. ASSUME NEW w \in Workers, KeepAlive(w) PROVE OneHolder'
  BY <1>19 DEF KeepAlive, Owns, frame
<1>20. ASSUME NEW w \in Workers, KeeperStops(w) PROVE OneHolder'
  BY <1>20 DEF KeeperStops, table
<1>21. ASSUME NEW w \in Workers, Crash(w) PROVE OneHolder'
  BY <1>21 DEF Crash, Leave, table
<1>22. ASSUME NEW w \in Workers, Hang(w) PROVE OneHolder'
  BY <1>22 DEF Hang, table
<1>23. ASSUME NEW w \in Workers, Wake(w) PROVE OneHolder'
  BY <1>23 DEF Wake, table
<1>24. ASSUME NEW r \in RunIds, Purge(r) PROVE OneHolder'
  BY <1>24 DEF Purge, frame
<1>25. ASSUME Tick PROVE OneHolder'
  BY <1>25 DEF Tick, AtMost
<1>26. CASE UNCHANGED vars
  BY <1>26 DEF vars, table, frame
<1> QED
  BY <1>1, <1>2, <1>3, <1>4, <1>5, <1>6, <1>7, <1>8, <1>9, <1>10, <1>11, <1>12, <1>13, <1>14, <1>15, <1>16, <1>17, <1>18, <1>19, <1>20, <1>21, <1>22, <1>23, <1>24, <1>25, <1>26 DEF Next, Acquire, Work, Close

\* Every step keeps the frames in agreement with the table.
LEMMA AgreeStep == TypeOK /\ FramesAgree /\ [Next]_vars => FramesAgree'
<1> SUFFICES ASSUME TypeOK /\ FramesAgree, [Next]_vars PROVE FramesAgree'
  OBVIOUS
<1> USE NullsAssumption DEF TypeOK, FramesAgree, Closed, Acquiring, Inside, At
<1>1. ASSUME NEW w \in Workers, NEW l \in Locks, Reclaim(w, l) PROVE FramesAgree'
  BY <1>1 DEF Reclaim, Stale
<1>2. ASSUME NEW w \in Workers, NEW r \in RunIds, RecordReclaim(w, r) PROVE FramesAgree'
  BY <1>2 DEF RecordReclaim
<1>3. ASSUME NEW w \in Workers, StartInsert(w) PROVE FramesAgree'
  BY <1>3 DEF StartInsert, GoTo, table
<1>4. ASSUME NEW w \in Workers, NEW r \in RunIds, InsertRun(w, r) PROVE FramesAgree'
  BY <1>4 DEF InsertRun, Refused, Held, Fresh
<1>5. ASSUME NEW w \in Workers, InsertRefused(w) PROVE FramesAgree'
  BY <1>5 DEF InsertRefused, GoTo, table
<1>6. ASSUME NEW w \in Workers, ReportHolder(w) PROVE FramesAgree'
  BY <1>6 DEF ReportHolder, Leave, table
<1>7. ASSUME NEW w \in Workers, RetryInsert(w) PROVE FramesAgree'
  BY <1>7 DEF RetryInsert, table
<1>8. ASSUME NEW w \in Workers, Write(w) PROVE FramesAgree'
  BY <1>8 DEF Write, table
<1>9. ASSUME NEW w \in Workers, CommitWrite(w) PROVE FramesAgree'
  BY <1>9 DEF CommitWrite, FenceHolds, Owns
<1>10. ASSUME NEW w \in Workers, RollBackWrite(w) PROVE FramesAgree'
  BY <1>10 DEF RollBackWrite, table
<1>11. ASSUME NEW w \in Workers, NoteProgress(w) PROVE FramesAgree'
  BY <1>11 DEF NoteProgress, table
<1>12. ASSUME NEW w \in Workers, Beat(w) PROVE FramesAgree'
  BY <1>12 DEF Beat, Owns
<1>13. ASSUME NEW w \in Workers, FinishOk(w) PROVE FramesAgree'
  BY <1>13 DEF FinishOk, StillRunning, Owns, GoTo
<1>14. ASSUME NEW w \in Workers, FinishRaises(w) PROVE FramesAgree'
  BY <1>14 DEF FinishRaises, GoTo, table
<1>15. ASSUME NEW w \in Workers, FinishFailed(w) PROVE FramesAgree'
  BY <1>15 DEF FinishFailed, StillRunning, Owns, GoTo
<1>16. ASSUME NEW w \in Workers, FinishRefused(w) PROVE FramesAgree'
  BY <1>16 DEF FinishRefused, Leave, table
<1>17. ASSUME NEW w \in Workers, AnnounceCompleted(w) PROVE FramesAgree'
  BY <1>17 DEF AnnounceCompleted, GoTo
<1>18. ASSUME NEW w \in Workers, AnnounceFailed(w) PROVE FramesAgree'
  BY <1>18 DEF AnnounceFailed, Leave
<1>19. ASSUME NEW w \in Workers, KeepAlive(w) PROVE FramesAgree'
  BY <1>19 DEF KeepAlive, Owns, frame
<1>20. ASSUME NEW w \in Workers, KeeperStops(w) PROVE FramesAgree'
  BY <1>20 DEF KeeperStops, table
<1>21. ASSUME NEW w \in Workers, Crash(w) PROVE FramesAgree'
  BY <1>21 DEF Crash, Leave, table
<1>22. ASSUME NEW w \in Workers, Hang(w) PROVE FramesAgree'
  BY <1>22 DEF Hang, table
<1>23. ASSUME NEW w \in Workers, Wake(w) PROVE FramesAgree'
  BY <1>23 DEF Wake, table
<1>24. ASSUME NEW r \in RunIds, Purge(r) PROVE FramesAgree'
  BY <1>24, SMTT(30) DEF Purge, frame
<1>25. ASSUME Tick PROVE FramesAgree'
  BY <1>25 DEF Tick, AtMost
<1>26. CASE UNCHANGED vars
  BY <1>26 DEF vars, table, frame
<1> QED
  BY <1>1, <1>2, <1>3, <1>4, <1>5, <1>6, <1>7, <1>8, <1>9, <1>10, <1>11, <1>12, <1>13, <1>14, <1>15, <1>16, <1>17, <1>18, <1>19, <1>20, <1>21, <1>22, <1>23, <1>24, <1>25, <1>26 DEF Next, Acquire, Work, Close

\* Every step keeps what was announced true of the row.
LEMMA EventsStep == TypeOK /\ FramesAgree /\ EventsMatchVerdict /\ [Next]_vars => EventsMatchVerdict'
<1> SUFFICES ASSUME TypeOK /\ FramesAgree /\ EventsMatchVerdict, [Next]_vars PROVE EventsMatchVerdict'
  OBVIOUS
<1>a. UNCHANGED table => EventsMatchVerdict'
  BY DEF table, EventsMatchVerdict
<1>2. ASSUME NEW w \in Workers, NEW r \in RunIds, RecordReclaim(w, r) PROVE EventsMatchVerdict'
  <2>1. /\ UNCHANGED <<status, lock, closer, completed>> /\ r \in toRecord[w]
        /\ alarmed' \in {[alarmed EXCEPT ![r] = alarmed[r] + 1], alarmed}
    BY <1>2 DEF RecordReclaim
  <2>2. status[r] = "failed" /\ alarmed[r] = 0
    BY <2>1 DEF FramesAgree
  <2>3. alarmed \in [RunIds -> Nat]
    BY DEF TypeOK
  <2>4. alarmed'[r] \in {0, 1} /\ \A q \in RunIds \ {r} : alarmed'[q] = alarmed[q]
    BY <2>1, <2>2, <2>3
  <2> QED
    BY <2>1, <2>2, <2>4 DEF EventsMatchVerdict
<1>3. ASSUME NEW w \in Workers, StartInsert(w) PROVE EventsMatchVerdict'
  BY <1>3, <1>a DEF StartInsert
<1> USE NullsAssumption DEF TypeOK, FramesAgree, EventsMatchVerdict, Closed, Acquiring, Inside, At
<1>1. ASSUME NEW w \in Workers, NEW l \in Locks, Reclaim(w, l) PROVE EventsMatchVerdict'
  BY <1>1 DEF Reclaim, Stale
<1>4. ASSUME NEW w \in Workers, NEW r \in RunIds, InsertRun(w, r) PROVE EventsMatchVerdict'
  BY <1>4 DEF InsertRun, Refused, Held, Fresh
<1>5. ASSUME NEW w \in Workers, InsertRefused(w) PROVE EventsMatchVerdict'
  BY <1>5 DEF InsertRefused, GoTo, table
<1>6. ASSUME NEW w \in Workers, ReportHolder(w) PROVE EventsMatchVerdict'
  BY <1>6 DEF ReportHolder, Leave, table
<1>7. ASSUME NEW w \in Workers, RetryInsert(w) PROVE EventsMatchVerdict'
  BY <1>7 DEF RetryInsert, table
<1>8. ASSUME NEW w \in Workers, Write(w) PROVE EventsMatchVerdict'
  BY <1>8 DEF Write, table
<1>9. ASSUME NEW w \in Workers, CommitWrite(w) PROVE EventsMatchVerdict'
  BY <1>9 DEF CommitWrite, FenceHolds, Owns
<1>10. ASSUME NEW w \in Workers, RollBackWrite(w) PROVE EventsMatchVerdict'
  BY <1>10 DEF RollBackWrite, table
<1>11. ASSUME NEW w \in Workers, NoteProgress(w) PROVE EventsMatchVerdict'
  BY <1>11 DEF NoteProgress, table
<1>12. ASSUME NEW w \in Workers, Beat(w) PROVE EventsMatchVerdict'
  BY <1>12 DEF Beat, Owns
<1>13. ASSUME NEW w \in Workers, FinishOk(w) PROVE EventsMatchVerdict'
  BY <1>13 DEF FinishOk, StillRunning, Owns, GoTo
<1>14. ASSUME NEW w \in Workers, FinishRaises(w) PROVE EventsMatchVerdict'
  BY <1>14 DEF FinishRaises, GoTo, table
<1>15. ASSUME NEW w \in Workers, FinishFailed(w) PROVE EventsMatchVerdict'
  BY <1>15 DEF FinishFailed, StillRunning, Owns, GoTo
<1>16. ASSUME NEW w \in Workers, FinishRefused(w) PROVE EventsMatchVerdict'
  BY <1>16 DEF FinishRefused, Leave, table
<1>17. ASSUME NEW w \in Workers, AnnounceCompleted(w) PROVE EventsMatchVerdict'
  BY <1>17 DEF AnnounceCompleted, GoTo
<1>18. ASSUME NEW w \in Workers, AnnounceFailed(w) PROVE EventsMatchVerdict'
  BY <1>18 DEF AnnounceFailed, Leave
<1>19. ASSUME NEW w \in Workers, KeepAlive(w) PROVE EventsMatchVerdict'
  BY <1>19 DEF KeepAlive, Owns, frame
<1>20. ASSUME NEW w \in Workers, KeeperStops(w) PROVE EventsMatchVerdict'
  BY <1>20 DEF KeeperStops, table
<1>21. ASSUME NEW w \in Workers, Crash(w) PROVE EventsMatchVerdict'
  BY <1>21 DEF Crash, Leave, table
<1>22. ASSUME NEW w \in Workers, Hang(w) PROVE EventsMatchVerdict'
  BY <1>22 DEF Hang, table
<1>23. ASSUME NEW w \in Workers, Wake(w) PROVE EventsMatchVerdict'
  BY <1>23 DEF Wake, table
<1>24. ASSUME NEW r \in RunIds, Purge(r) PROVE EventsMatchVerdict'
  BY <1>24 DEF Purge, frame
<1>25. ASSUME Tick PROVE EventsMatchVerdict'
  BY <1>25 DEF Tick, AtMost
<1>26. CASE UNCHANGED vars
  BY <1>26 DEF vars, table, frame
<1> QED
  BY <1>1, <1>2, <1>3, <1>4, <1>5, <1>6, <1>7, <1>8, <1>9, <1>10, <1>11, <1>12, <1>13, <1>14, <1>15, <1>16, <1>17, <1>18, <1>19, <1>20, <1>21, <1>22, <1>23, <1>24, <1>25, <1>26 DEF Next, Acquire, Work, Close

\* What the induction carries: the shape, the mutex, the frames' agreement with
\* the table and the truth of what was announced.
IInv == TypeOK /\ OneHolder /\ FramesAgree /\ EventsMatchVerdict

\* A first state satisfies the inductive invariant.
LEMMA InitIInv == Init => IInv
BY LocksAssumption, BoundsAssumption, NullsAssumption
   DEF Init, IInv, TypeOK, OneHolder, FramesAgree, EventsMatchVerdict, Closed, Acquiring, Inside

\* Every step keeps it.
LEMMA StepIInv == IInv /\ [Next]_vars => IInv'
BY TypeStep, HolderStep, AgreeStep, EventsStep DEF IInv

\* In every reachable state the inductive invariant holds.
THEOREM Inductive == Spec => []IInv
<1>1. Init => IInv
  BY InitIInv
<1>2. IInv /\ [Next]_vars => IInv'
  BY StepIInv
<1> QED
  BY <1>1, <1>2, PTL DEF Spec

\* The rows and the frames keep their shape, and a frame works inside a run
\* only when it acquired one.
THEOREM TypeCorrect == Spec => []TypeOK
<1>1. IInv => TypeOK
  BY DEF IInv
<1> QED
  BY <1>1, Inductive, PTL

\* The mutex of uq_run_active_lock: two frames never hold one connection's lock
\* class at once, whatever crashed, hung or was reclaimed before.
THEOREM Mutex == Spec => []OneHolder
<1>1. IInv => OneHolder
  BY DEF IInv
<1> QED
  BY <1>1, Inductive, PTL

\* What a frame is about to announce is what the table says of its run.
THEOREM Agreement == Spec => []FramesAgree
<1>1. IInv => FramesAgree
  BY DEF IInv
<1> QED
  BY <1>1, Inductive, PTL

\* No close is announced twice, and no announcement contradicts the verdict.
THEOREM TruthfulEvents == Spec => []EventsMatchVerdict
<1>1. IInv => EventsMatchVerdict
  BY DEF IInv
<1> QED
  BY <1>1, Inductive, PTL

\* The four together, as the runs check them: what the table holds, what the frames are
\* about to do and what was announced agree in every reachable state.
THEOREM TableIsSound == Spec => []RunsSound
<1>1. IInv => RunsSound
  BY DEF IInv, RunsSound
<1> QED
  BY <1>1, Inductive, PTL

-----------------------------------------------------------------------------
(* Action properties: what no step may do.                                  *)

ClosedRowsStand ==
    \A r \in RunIds : status[r] \in Closed =>
        \/ <<status'[r], closer'[r], saved'[r]>> = <<status[r], closer[r], saved[r]>>
        \/ status'[r] = "none"

NobodyElseHolds ==
    \A r, s \in RunIds :
        r # s /\ saved'[r] > saved[r] /\ lock[r] \in ExclusiveLocks /\ lock[s] = lock[r]
        => status[s] # "running"

\* No step rewrites a verdict or adds an observation to a closed run.
LEMMA ClosedStep == TypeOK /\ [Next]_vars => ClosedRowsStand
<1> SUFFICES ASSUME TypeOK, [Next]_vars PROVE ClosedRowsStand
  OBVIOUS
<1> USE NullsAssumption DEF TypeOK, ClosedRowsStand, Closed, Acquiring, Inside, At
<1>1. ASSUME NEW w \in Workers, NEW l \in Locks, Reclaim(w, l) PROVE ClosedRowsStand
  BY <1>1 DEF Reclaim, Stale
<1>2. ASSUME NEW w \in Workers, NEW r \in RunIds, RecordReclaim(w, r) PROVE ClosedRowsStand
  BY <1>2 DEF RecordReclaim
<1>3. ASSUME NEW w \in Workers, StartInsert(w) PROVE ClosedRowsStand
  BY <1>3 DEF StartInsert, GoTo, table
<1>4. ASSUME NEW w \in Workers, NEW r \in RunIds, InsertRun(w, r) PROVE ClosedRowsStand
  BY <1>4 DEF InsertRun, Refused, Held, Fresh
<1>5. ASSUME NEW w \in Workers, InsertRefused(w) PROVE ClosedRowsStand
  BY <1>5 DEF InsertRefused, GoTo, table
<1>6. ASSUME NEW w \in Workers, ReportHolder(w) PROVE ClosedRowsStand
  BY <1>6 DEF ReportHolder, Leave, table
<1>7. ASSUME NEW w \in Workers, RetryInsert(w) PROVE ClosedRowsStand
  BY <1>7 DEF RetryInsert, table
<1>8. ASSUME NEW w \in Workers, Write(w) PROVE ClosedRowsStand
  BY <1>8 DEF Write, table
<1>9. ASSUME NEW w \in Workers, CommitWrite(w) PROVE ClosedRowsStand
  BY <1>9 DEF CommitWrite, FenceHolds, Owns
<1>10. ASSUME NEW w \in Workers, RollBackWrite(w) PROVE ClosedRowsStand
  BY <1>10 DEF RollBackWrite, table
<1>11. ASSUME NEW w \in Workers, NoteProgress(w) PROVE ClosedRowsStand
  BY <1>11 DEF NoteProgress, table
<1>12. ASSUME NEW w \in Workers, Beat(w) PROVE ClosedRowsStand
  BY <1>12 DEF Beat, Owns
<1>13. ASSUME NEW w \in Workers, FinishOk(w) PROVE ClosedRowsStand
  BY <1>13 DEF FinishOk, StillRunning, Owns, GoTo
<1>14. ASSUME NEW w \in Workers, FinishRaises(w) PROVE ClosedRowsStand
  BY <1>14 DEF FinishRaises, GoTo, table
<1>15. ASSUME NEW w \in Workers, FinishFailed(w) PROVE ClosedRowsStand
  BY <1>15 DEF FinishFailed, StillRunning, Owns, GoTo
<1>16. ASSUME NEW w \in Workers, FinishRefused(w) PROVE ClosedRowsStand
  BY <1>16 DEF FinishRefused, Leave, table
<1>17. ASSUME NEW w \in Workers, AnnounceCompleted(w) PROVE ClosedRowsStand
  BY <1>17 DEF AnnounceCompleted, GoTo
<1>18. ASSUME NEW w \in Workers, AnnounceFailed(w) PROVE ClosedRowsStand
  BY <1>18 DEF AnnounceFailed, Leave
<1>19. ASSUME NEW w \in Workers, KeepAlive(w) PROVE ClosedRowsStand
  BY <1>19 DEF KeepAlive, Owns, frame
<1>20. ASSUME NEW w \in Workers, KeeperStops(w) PROVE ClosedRowsStand
  BY <1>20 DEF KeeperStops, table
<1>21. ASSUME NEW w \in Workers, Crash(w) PROVE ClosedRowsStand
  BY <1>21 DEF Crash, Leave, table
<1>22. ASSUME NEW w \in Workers, Hang(w) PROVE ClosedRowsStand
  BY <1>22 DEF Hang, table
<1>23. ASSUME NEW w \in Workers, Wake(w) PROVE ClosedRowsStand
  BY <1>23 DEF Wake, table
<1>24. ASSUME NEW r \in RunIds, Purge(r) PROVE ClosedRowsStand
  BY <1>24 DEF Purge, frame
<1>25. ASSUME Tick PROVE ClosedRowsStand
  BY <1>25 DEF Tick, AtMost
<1>26. CASE UNCHANGED vars
  BY <1>26 DEF vars, table, frame
<1> QED
  BY <1>1, <1>2, <1>3, <1>4, <1>5, <1>6, <1>7, <1>8, <1>9, <1>10, <1>11, <1>12, <1>13, <1>14, <1>15, <1>16, <1>17, <1>18, <1>19, <1>20, <1>21, <1>22, <1>23, <1>24, <1>25, <1>26 DEF Next, Acquire, Work, Close

\* An observation is only saved under the run that holds its lock.
LEMMA WriterStep == TypeOK /\ OneHolder /\ [Next]_vars => NobodyElseHolds
<1> SUFFICES ASSUME TypeOK, OneHolder, [Next]_vars PROVE NobodyElseHolds
  OBVIOUS
<1> USE NullsAssumption DEF TypeOK, OneHolder, NobodyElseHolds, Closed, Acquiring, Inside, At
<1>1. ASSUME NEW w \in Workers, NEW l \in Locks, Reclaim(w, l) PROVE NobodyElseHolds
  BY <1>1 DEF Reclaim, Stale
<1>2. ASSUME NEW w \in Workers, NEW r \in RunIds, RecordReclaim(w, r) PROVE NobodyElseHolds
  BY <1>2 DEF RecordReclaim
<1>3. ASSUME NEW w \in Workers, StartInsert(w) PROVE NobodyElseHolds
  BY <1>3 DEF StartInsert, GoTo, table
<1>4. ASSUME NEW w \in Workers, NEW r \in RunIds, InsertRun(w, r) PROVE NobodyElseHolds
  BY <1>4 DEF InsertRun, Refused, Held, Fresh
<1>5. ASSUME NEW w \in Workers, InsertRefused(w) PROVE NobodyElseHolds
  BY <1>5 DEF InsertRefused, GoTo, table
<1>6. ASSUME NEW w \in Workers, ReportHolder(w) PROVE NobodyElseHolds
  BY <1>6 DEF ReportHolder, Leave, table
<1>7. ASSUME NEW w \in Workers, RetryInsert(w) PROVE NobodyElseHolds
  BY <1>7 DEF RetryInsert, table
<1>8. ASSUME NEW w \in Workers, Write(w) PROVE NobodyElseHolds
  BY <1>8 DEF Write, table
<1>9. ASSUME NEW w \in Workers, CommitWrite(w) PROVE NobodyElseHolds
  BY <1>9 DEF CommitWrite, FenceHolds, Owns
<1>10. ASSUME NEW w \in Workers, RollBackWrite(w) PROVE NobodyElseHolds
  BY <1>10 DEF RollBackWrite, table
<1>11. ASSUME NEW w \in Workers, NoteProgress(w) PROVE NobodyElseHolds
  BY <1>11 DEF NoteProgress, table
<1>12. ASSUME NEW w \in Workers, Beat(w) PROVE NobodyElseHolds
  BY <1>12 DEF Beat, Owns
<1>13. ASSUME NEW w \in Workers, FinishOk(w) PROVE NobodyElseHolds
  BY <1>13 DEF FinishOk, StillRunning, Owns, GoTo
<1>14. ASSUME NEW w \in Workers, FinishRaises(w) PROVE NobodyElseHolds
  BY <1>14 DEF FinishRaises, GoTo, table
<1>15. ASSUME NEW w \in Workers, FinishFailed(w) PROVE NobodyElseHolds
  BY <1>15 DEF FinishFailed, StillRunning, Owns, GoTo
<1>16. ASSUME NEW w \in Workers, FinishRefused(w) PROVE NobodyElseHolds
  BY <1>16 DEF FinishRefused, Leave, table
<1>17. ASSUME NEW w \in Workers, AnnounceCompleted(w) PROVE NobodyElseHolds
  BY <1>17 DEF AnnounceCompleted, GoTo
<1>18. ASSUME NEW w \in Workers, AnnounceFailed(w) PROVE NobodyElseHolds
  BY <1>18 DEF AnnounceFailed, Leave
<1>19. ASSUME NEW w \in Workers, KeepAlive(w) PROVE NobodyElseHolds
  BY <1>19 DEF KeepAlive, Owns, frame
<1>20. ASSUME NEW w \in Workers, KeeperStops(w) PROVE NobodyElseHolds
  BY <1>20 DEF KeeperStops, table
<1>21. ASSUME NEW w \in Workers, Crash(w) PROVE NobodyElseHolds
  BY <1>21 DEF Crash, Leave, table
<1>22. ASSUME NEW w \in Workers, Hang(w) PROVE NobodyElseHolds
  BY <1>22 DEF Hang, table
<1>23. ASSUME NEW w \in Workers, Wake(w) PROVE NobodyElseHolds
  BY <1>23 DEF Wake, table
<1>24. ASSUME NEW r \in RunIds, Purge(r) PROVE NobodyElseHolds
  BY <1>24 DEF Purge, frame
<1>25. ASSUME Tick PROVE NobodyElseHolds
  BY <1>25 DEF Tick, AtMost
<1>26. CASE UNCHANGED vars
  BY <1>26 DEF vars, table, frame
<1> QED
  BY <1>1, <1>2, <1>3, <1>4, <1>5, <1>6, <1>7, <1>8, <1>9, <1>10, <1>11, <1>12, <1>13, <1>14, <1>15, <1>16, <1>17, <1>18, <1>19, <1>20, <1>21, <1>22, <1>23, <1>24, <1>25, <1>26 DEF Next, Acquire, Work, Close

\* A verdict is written once: whatever a late frame tries, the row and its
\* observations stand until the row is purged.
THEOREM VerdictWrittenOnce == Spec => VerdictStands
<1>1. IInv /\ [Next]_vars => [ClosedRowsStand]_vars
  BY ClosedStep DEF IInv
<1> QED
  BY <1>1, Inductive, PTL DEF Spec, VerdictStands, ClosedRowsStand

\* No frame saves an observation under a lock that another run holds.
THEOREM OneWriter == Spec => SoleWriter
<1>1. IInv /\ [Next]_vars => [NobodyElseHolds]_vars
  BY WriterStep DEF IInv
<1> QED
  BY <1>1, Inductive, PTL DEF Spec, SoleWriter, NobodyElseHolds

-----------------------------------------------------------------------------
(* The table implements the lock service of RunLock.                        *)

\* The initial table is the initial lock service.
LEMMA RefinesInit == Init => Abstract!Init
BY DEF Init, Abstract!Init

\* A frame that closes its run releases its lock, with what it saves last.
LEMMA ClosesOneRun ==
    ASSUME TypeOK, NEW r \in RunIds, status[r] = "running", NEW v \in {"succeeded", "failed"},
           NEW last \in 0..1, v = "failed" => last = 0, status' = [status EXCEPT ![r] = v],
           lock' = lock, saved' = [saved EXCEPT ![r] = @ + last]
    PROVE  [Abstract!Next]_(Abstract!vars)
<1>1. status \in [RunIds -> {"none", "running"} \cup Closed]
  BY DEF TypeOK
<1>2. Abstract!Release(r, v, last)
  BY <1>1 DEF Closed, Abstract!Release
<1>3. \E u \in {"succeeded", "failed"}, n \in 0..1 : Abstract!Release(r, u, n)
  BY <1>2, Zenon
<1> QED
  BY <1>3, Zenon DEF Abstract!Next

\* Every step of a frame is a step of the lock service or none of its business.
LEMMA RefinesNext == TypeOK /\ FramesAgree /\ [Next]_vars => [Abstract!Next]_(Abstract!vars)
<1> SUFFICES ASSUME TypeOK, FramesAgree, [Next]_vars PROVE [Abstract!Next]_(Abstract!vars)
  OBVIOUS
<1> USE NullsAssumption DEF TypeOK, Closed, Acquiring, Inside, At
<1>1. ASSUME NEW w \in Workers, NEW l \in Locks, Reclaim(w, l) PROVE [Abstract!Next]_(Abstract!vars)
  <2>1. Abstract!Revoke(Stale)
    BY <1>1 DEF Reclaim, Stale, Abstract!Open, Abstract!Revoke
  <2>2. Stale \in SUBSET RunIds
    BY DEF Stale
  <2>3. \E S \in SUBSET RunIds : Abstract!Revoke(S)
    BY <2>1, <2>2 DEF Abstract!Revoke
  <2> QED
    BY <2>3 DEF Abstract!Next
<1>2. ASSUME NEW w \in Workers, NEW r \in RunIds, RecordReclaim(w, r) PROVE [Abstract!Next]_(Abstract!vars)
  <2>1. UNCHANGED Abstract!vars
    BY <1>2 DEF RecordReclaim, Abstract!vars
  <2> QED
    BY <2>1 DEF Abstract!Next
<1>3. ASSUME NEW w \in Workers, StartInsert(w) PROVE [Abstract!Next]_(Abstract!vars)
  <2>1. UNCHANGED Abstract!vars
    BY <1>3 DEF StartInsert, GoTo, table, Abstract!vars
  <2> QED
    BY <2>1 DEF Abstract!Next
<1>4. ASSUME NEW w \in Workers, NEW r \in RunIds, InsertRun(w, r) PROVE [Abstract!Next]_(Abstract!vars)
  <2>1. Abstract!Grant(r, want[w])
    BY <1>4 DEF InsertRun, Refused, Held, Fresh, Abstract!Open, Abstract!Grant
  <2>2. want[w] \in Locks
    BY <1>4 DEF InsertRun, FramesAgree
  <2>3. \E l \in Locks : Abstract!Grant(r, l)
    BY <2>1, <2>2 DEF Abstract!Grant
  <2> QED
    BY <2>3 DEF Abstract!Next
<1>5. ASSUME NEW w \in Workers, InsertRefused(w) PROVE [Abstract!Next]_(Abstract!vars)
  <2>1. UNCHANGED Abstract!vars
    BY <1>5 DEF InsertRefused, GoTo, table, Abstract!vars
  <2> QED
    BY <2>1 DEF Abstract!Next
<1>6. ASSUME NEW w \in Workers, ReportHolder(w) PROVE [Abstract!Next]_(Abstract!vars)
  <2>1. UNCHANGED Abstract!vars
    BY <1>6 DEF ReportHolder, Leave, table, Abstract!vars
  <2> QED
    BY <2>1 DEF Abstract!Next
<1>7. ASSUME NEW w \in Workers, RetryInsert(w) PROVE [Abstract!Next]_(Abstract!vars)
  <2>1. UNCHANGED Abstract!vars
    BY <1>7 DEF RetryInsert, table, Abstract!vars
  <2> QED
    BY <2>1 DEF Abstract!Next
<1>8. ASSUME NEW w \in Workers, Write(w) PROVE [Abstract!Next]_(Abstract!vars)
  <2>1. UNCHANGED Abstract!vars
    BY <1>8 DEF Write, table, Abstract!vars
  <2> QED
    BY <2>1 DEF Abstract!Next
<1>9. ASSUME NEW w \in Workers, CommitWrite(w) PROVE [Abstract!Next]_(Abstract!vars)
  <2>1. CASE FenceHolds(w)
    <3>1. Abstract!Save(mine[w])
      BY <1>9, <2>1 DEF CommitWrite, FenceHolds, Owns, Abstract!Save
    <3>2. mine[w] \in RunIds
      BY <2>1 DEF FenceHolds, Owns
    <3> QED
      BY <3>1, <3>2 DEF Abstract!Next
  <2>2. CASE ~FenceHolds(w)
    BY <1>9, <2>2 DEF CommitWrite, Abstract!vars
  <2> QED
    BY <2>1, <2>2
<1>10. ASSUME NEW w \in Workers, RollBackWrite(w) PROVE [Abstract!Next]_(Abstract!vars)
  <2>1. UNCHANGED Abstract!vars
    BY <1>10 DEF RollBackWrite, table, Abstract!vars
  <2> QED
    BY <2>1 DEF Abstract!Next
<1>11. ASSUME NEW w \in Workers, NoteProgress(w) PROVE [Abstract!Next]_(Abstract!vars)
  <2>1. UNCHANGED Abstract!vars
    BY <1>11 DEF NoteProgress, table, Abstract!vars
  <2> QED
    BY <2>1 DEF Abstract!Next
<1>12. ASSUME NEW w \in Workers, Beat(w) PROVE [Abstract!Next]_(Abstract!vars)
  <2>1. UNCHANGED Abstract!vars
    BY <1>12 DEF Beat, Owns, Abstract!vars
  <2> QED
    BY <2>1 DEF Abstract!Next
<1>13. ASSUME NEW w \in Workers, FinishOk(w) PROVE [Abstract!Next]_(Abstract!vars)
  <2> DEFINE last == IF pending[w] THEN 1 ELSE 0
  <2>1. mine[w] \in RunIds /\ status[mine[w]] = "running"
    BY <1>13 DEF FinishOk, StillRunning, Owns
  <2>2. status' = [status EXCEPT ![mine[w]] = "succeeded"] /\ lock' = lock
    BY <1>13 DEF FinishOk
  <2>3. last \in 0..1 /\ saved' = [saved EXCEPT ![mine[w]] = @ + last]
    BY <1>13 DEF FinishOk
  <2> HIDE DEF last
  <2> QED
    BY <2>1, <2>2, <2>3, ClosesOneRun
<1>14. ASSUME NEW w \in Workers, FinishRaises(w) PROVE [Abstract!Next]_(Abstract!vars)
  <2>1. UNCHANGED Abstract!vars
    BY <1>14 DEF FinishRaises, GoTo, table, Abstract!vars
  <2> QED
    BY <2>1 DEF Abstract!Next
<1>15. ASSUME NEW w \in Workers, FinishFailed(w) PROVE [Abstract!Next]_(Abstract!vars)
  <2>1. mine[w] \in RunIds /\ status[mine[w]] = "running"
    BY <1>15 DEF FinishFailed, StillRunning, Owns
  <2>2. status' = [status EXCEPT ![mine[w]] = "failed"] /\ lock' = lock
    BY <1>15 DEF FinishFailed
  <2>3. 0 \in 0..1 /\ saved' = [saved EXCEPT ![mine[w]] = @ + 0]
    BY <1>15, <2>1 DEF FinishFailed
  <2> QED
    BY <2>1, <2>2, <2>3, ClosesOneRun
<1>16. ASSUME NEW w \in Workers, FinishRefused(w) PROVE [Abstract!Next]_(Abstract!vars)
  <2>1. UNCHANGED Abstract!vars
    BY <1>16 DEF FinishRefused, Leave, table, Abstract!vars
  <2> QED
    BY <2>1 DEF Abstract!Next
<1>17. ASSUME NEW w \in Workers, AnnounceCompleted(w) PROVE [Abstract!Next]_(Abstract!vars)
  <2>1. UNCHANGED Abstract!vars
    BY <1>17 DEF AnnounceCompleted, GoTo, Abstract!vars
  <2> QED
    BY <2>1 DEF Abstract!Next
<1>18. ASSUME NEW w \in Workers, AnnounceFailed(w) PROVE [Abstract!Next]_(Abstract!vars)
  <2>1. UNCHANGED Abstract!vars
    BY <1>18 DEF AnnounceFailed, Leave, Abstract!vars
  <2> QED
    BY <2>1 DEF Abstract!Next
<1>19. ASSUME NEW w \in Workers, KeepAlive(w) PROVE [Abstract!Next]_(Abstract!vars)
  <2>1. UNCHANGED Abstract!vars
    BY <1>19 DEF KeepAlive, Owns, frame, Abstract!vars
  <2> QED
    BY <2>1 DEF Abstract!Next
<1>20. ASSUME NEW w \in Workers, KeeperStops(w) PROVE [Abstract!Next]_(Abstract!vars)
  <2>1. UNCHANGED Abstract!vars
    BY <1>20 DEF KeeperStops, table, Abstract!vars
  <2> QED
    BY <2>1 DEF Abstract!Next
<1>21. ASSUME NEW w \in Workers, Crash(w) PROVE [Abstract!Next]_(Abstract!vars)
  <2>1. UNCHANGED Abstract!vars
    BY <1>21 DEF Crash, Leave, table, Abstract!vars
  <2> QED
    BY <2>1 DEF Abstract!Next
<1>22. ASSUME NEW w \in Workers, Hang(w) PROVE [Abstract!Next]_(Abstract!vars)
  <2>1. UNCHANGED Abstract!vars
    BY <1>22 DEF Hang, table, Abstract!vars
  <2> QED
    BY <2>1 DEF Abstract!Next
<1>23. ASSUME NEW w \in Workers, Wake(w) PROVE [Abstract!Next]_(Abstract!vars)
  <2>1. UNCHANGED Abstract!vars
    BY <1>23 DEF Wake, table, Abstract!vars
  <2> QED
    BY <2>1 DEF Abstract!Next
<1>24. ASSUME NEW r \in RunIds, Purge(r) PROVE [Abstract!Next]_(Abstract!vars)
  <2>1. Abstract!Forget(r)
    BY <1>24 DEF Purge, frame, Abstract!vars, Abstract!Open, Abstract!Forget
  <2> QED
    BY <2>1 DEF Abstract!Next
<1>25. ASSUME Tick PROVE [Abstract!Next]_(Abstract!vars)
  <2>1. UNCHANGED Abstract!vars
    BY <1>25 DEF Tick, AtMost, Abstract!vars
  <2> QED
    BY <2>1 DEF Abstract!Next
<1>26. CASE UNCHANGED vars
  BY <1>26 DEF vars, table, frame, Abstract!vars
<1> QED
  BY <1>1, <1>2, <1>3, <1>4, <1>5, <1>6, <1>7, <1>8, <1>9, <1>10, <1>11, <1>12, <1>13, <1>14, <1>15, <1>16, <1>17, <1>18, <1>19, <1>20, <1>21, <1>22, <1>23, <1>24, <1>25, <1>26 DEF Next, Acquire, Work, Close

\* The runs table, with every frame, crash and reclaim around it, is a lock
\* service: exclusive grants, observations saved only by an open run, one
\* verdict per run.
THEOREM Refinement == Spec => ImplementsRunLock
<1>1. IInv /\ [Next]_vars => [Abstract!Next]_(Abstract!vars)
  BY RefinesNext DEF IInv
<1> QED
  BY <1>1, RefinesInit, Inductive, PTL DEF Spec, ImplementsRunLock, Abstract!Spec

=============================================================================
