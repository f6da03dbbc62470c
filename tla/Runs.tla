-------------------------------- MODULE Runs --------------------------------
(***************************************************************************)
(* The run of backend/app/core/runs.py: mutex, heartbeat, fence, verdict    *)
(* and announcement.                                                        *)
(*                                                                          *)
(* A worker is one frame that acquires a run and works inside it: a         *)
(* scheduled sweep or catalog read, a run-now, a re-emit, a device refresh  *)
(* or a webhook.  The table `runs` is shared by every worker of a tenant;   *)
(* each action below is one committed transaction of one worker (or of its  *)
(* heartbeat keeper), so everything between two actions of a worker may be  *)
(* interleaved with the others, and a worker may die between any two.       *)
(*                                                                          *)
(* Only the differences now - heartbeat_at and now - last_progress are ever *)
(* compared, so the clock is an age per row and per worker that Tick        *)
(* advances; a tick is one heartbeat interval (15 s).                       *)
(***************************************************************************)
EXTENDS Integers, FiniteSets

CONSTANTS
    Workers,        \* frames that call acquire
    RunIds,         \* run ids in use at once; a purged id is reused as a fresh one
    Locks,          \* (connection, lock class) pairs
    ExclusiveLocks, \* those the partial unique index covers: every class but webhook
    HeartbeatLocks, \* those whose class is in RUN_COMPLETED_LOCK_CLASSES
    StaleAfter,     \* run_stale_after_seconds, in ticks
    MaxSaves,       \* bound: observation commits of one run
    MayHang,        \* workers whose network wait may never return
    NoRun, NoLock

ASSUME LocksAssumption == ExclusiveLocks \subseteq Locks /\ HeartbeatLocks \subseteq Locks
ASSUME BoundsAssumption == StaleAfter \in Nat \ {0} /\ MaxSaves \in Nat
ASSUME NullsAssumption == NoRun \notin RunIds /\ NoLock \notin Locks

VARIABLES
    status,    \* runs.status, "none" for an id without a row
    lock,      \* runs.(mdm_connection_id, lock_class)
    age,       \* now - heartbeat_at in ticks, capped one past stale
    closer,    \* whose verdict the row holds: finish's or the reclaim's
    saved,     \* observation transactions committed under the run
    completed, \* run.completed events enqueued for the run
    alarmed,   \* run.failed events enqueued for the run
    pc, want, retried, mine, pending, toRecord, \* the worker's frame
    quiet,     \* ticks since the worker's last progress
    cold,      \* its own copy of heartbeat_at is at least one interval old
    keeper,    \* its _keep_alive task is running
    hung       \* its network wait is not returning

table == <<status, lock, age, closer, saved, completed, alarmed>>
frame == <<pc, want, retried, mine, pending, toRecord, quiet, cold, keeper, hung>>
vars == <<table, frame>>

Closed == {"succeeded", "failed"}
Acquiring == {"idle", "record", "insert", "conflict"}
Inside == {"working", "aborting", "announce", "alarm"}

TypeOK ==
    /\ status \in [RunIds -> {"none", "running"} \cup Closed]
    /\ lock \in [RunIds -> Locks \cup {NoLock}]
    /\ age \in [RunIds -> 0..(StaleAfter + 1)]
    /\ closer \in [RunIds -> {"none", "finish", "reclaim"}]
    /\ saved \in [RunIds -> Nat]
    /\ completed \in [RunIds -> Nat]
    /\ alarmed \in [RunIds -> Nat]
    /\ pc \in [Workers -> Acquiring \cup Inside]
    /\ want \in [Workers -> Locks \cup {NoLock}]
    /\ retried \in [Workers -> BOOLEAN]
    /\ mine \in [Workers -> RunIds \cup {NoRun}]
    /\ pending \in [Workers -> BOOLEAN]
    /\ toRecord \in [Workers -> SUBSET RunIds]
    /\ quiet \in [Workers -> 0..StaleAfter]
    /\ cold \in [Workers -> BOOLEAN]
    /\ keeper \in [Workers -> BOOLEAN]
    /\ hung \in [Workers -> BOOLEAN]
    /\ \A w \in Workers : (mine[w] = NoRun) <=> (pc[w] \in Acquiring)

Init ==
    /\ status = [r \in RunIds |-> "none"]
    /\ lock = [r \in RunIds |-> NoLock]
    /\ age = [r \in RunIds |-> 0]
    /\ closer = [r \in RunIds |-> "none"]
    /\ saved = [r \in RunIds |-> 0]
    /\ completed = [r \in RunIds |-> 0]
    /\ alarmed = [r \in RunIds |-> 0]
    /\ pc = [w \in Workers |-> "idle"]
    /\ want = [w \in Workers |-> NoLock]
    /\ retried = [w \in Workers |-> FALSE]
    /\ mine = [w \in Workers |-> NoRun]
    /\ pending = [w \in Workers |-> FALSE]
    /\ toRecord = [w \in Workers |-> {}]
    /\ quiet = [w \in Workers |-> 0]
    /\ cold = [w \in Workers |-> FALSE]
    /\ keeper = [w \in Workers |-> FALSE]
    /\ hung = [w \in Workers |-> FALSE]

-----------------------------------------------------------------------------
(* What a frame can be doing.                                               *)

At(w, stage) == pc[w] = stage /\ ~hung[w]

Owns(w) == mine[w] # NoRun /\ status[mine[w]] = "running"

\* _fence_run_commit's SELECT ... FOR SHARE under the committing transaction.
FenceHolds_Dropped(w) == TRUE
FenceHolds(w) == Owns(w)

\* The WHERE status = 'running' of finish's UPDATE.
StillRunning_Unchecked(w) == mine[w] # NoRun
StillRunning(w) == Owns(w)

\* The frame returns to its caller, or dies: nothing of it is left.
Leave(w) ==
    /\ pc' = [pc EXCEPT ![w] = "idle"]
    /\ want' = [want EXCEPT ![w] = NoLock]
    /\ retried' = [retried EXCEPT ![w] = FALSE]
    /\ mine' = [mine EXCEPT ![w] = NoRun]
    /\ pending' = [pending EXCEPT ![w] = FALSE]
    /\ toRecord' = [toRecord EXCEPT ![w] = {}]
    /\ quiet' = [quiet EXCEPT ![w] = 0]
    /\ cold' = [cold EXCEPT ![w] = FALSE]
    /\ keeper' = [keeper EXCEPT ![w] = FALSE]
    /\ hung' = [hung EXCEPT ![w] = FALSE]

\* The frame goes on to another stage of the same call.
GoTo(w, stage) ==
    /\ pc' = [pc EXCEPT ![w] = stage]
    /\ UNCHANGED <<want, retried, mine, toRecord, quiet, cold, keeper, hung>>

-----------------------------------------------------------------------------
(* acquire: reclaim the stale, then INSERT.                                 *)

Stale == {r \in RunIds : status[r] = "running" /\ age[r] > StaleAfter}

\* _reclaim_stale: one UPDATE over the tenant, committed before anything else
\* the acquisition does.
Reclaim(w, l) ==
    /\ At(w, "idle")
    /\ status' = [r \in RunIds |-> IF r \in Stale THEN "failed" ELSE status[r]]
    /\ closer' = [r \in RunIds |-> IF r \in Stale THEN "reclaim" ELSE closer[r]]
    /\ want' = [want EXCEPT ![w] = l]
    /\ toRecord' = [toRecord EXCEPT ![w] = Stale]
    /\ pc' = [pc EXCEPT ![w] = "record"]
    /\ UNCHANGED <<lock, age, saved, completed, alarmed>>
    /\ UNCHANGED <<retried, mine, pending, quiet, cold, keeper, hung>>

\* _record_reclaim through _emit_after_release, one row at a time: the event
\* is enqueued in a transaction of its own, or lost.
RecordReclaim(w, r) ==
    /\ At(w, "record")
    /\ r \in toRecord[w]
    /\ alarmed' \in {[alarmed EXCEPT ![r] = @ + 1], alarmed}
    /\ toRecord' = [toRecord EXCEPT ![w] = @ \ {r}]
    /\ UNCHANGED <<status, lock, age, closer, saved, completed>>
    /\ UNCHANGED <<pc, want, retried, mine, pending, quiet, cold, keeper, hung>>

StartInsert(w) ==
    /\ At(w, "record")
    /\ toRecord[w] = {}
    /\ GoTo(w, "insert")
    /\ UNCHANGED <<table, pending>>

\* uuid7 mints an id no row and no frame has.
Fresh(r) ==
    /\ status[r] = "none"
    /\ \A w \in Workers : mine[w] # r /\ r \notin toRecord[w]

Held(l) == \E r \in RunIds : status[r] = "running" /\ lock[r] = l

\* uq_run_active_lock: the INSERT of a second running row is refused.
Refused_NoIndex(l) == FALSE
Refused(l) == l \in ExclusiveLocks /\ Held(l)

InsertRun(w, r) ==
    /\ At(w, "insert")
    /\ ~Refused(want[w])
    /\ Fresh(r)
    /\ status' = [status EXCEPT ![r] = "running"]
    /\ lock' = [lock EXCEPT ![r] = want[w]]
    /\ age' = [age EXCEPT ![r] = 0]
    /\ mine' = [mine EXCEPT ![w] = r]
    /\ keeper' = [keeper EXCEPT ![w] = TRUE]
    /\ pc' = [pc EXCEPT ![w] = "working"]
    /\ UNCHANGED <<closer, saved, completed, alarmed>>
    /\ UNCHANGED <<want, retried, pending, toRecord, quiet, cold, hung>>

InsertRefused_Started(w) ==
    /\ At(w, "insert")
    /\ Refused(want[w])
    /\ GoTo(w, "working")
    /\ UNCHANGED <<table, pending>>

InsertRefused(w) ==
    /\ At(w, "insert")
    /\ Refused(want[w])
    /\ GoTo(w, "conflict")
    /\ UNCHANGED <<table, pending>>

\* active_run after the IntegrityError: the holder is reported, or it closed in
\* between and the INSERT is tried once more before AcquisitionBusy.
ReportHolder(w) ==
    /\ At(w, "conflict")
    /\ Held(want[w]) \/ retried[w]
    /\ Leave(w)
    /\ UNCHANGED table

RetryInsert(w) ==
    /\ At(w, "conflict")
    /\ ~Held(want[w])
    /\ ~retried[w]
    /\ pc' = [pc EXCEPT ![w] = "insert"]
    /\ retried' = [retried EXCEPT ![w] = TRUE]
    /\ UNCHANGED <<table, want, mine, pending, toRecord, quiet, cold, keeper, hung>>

-----------------------------------------------------------------------------
(* The work inside the run.                                                 *)

\* An observation is flushed and its transaction marked by fence_write.
Write(w) ==
    /\ At(w, "working")
    /\ ~pending[w]
    /\ saved[mine[w]] < MaxSaves
    /\ pending' = [pending EXCEPT ![w] = TRUE]
    /\ UNCHANGED <<table, pc, want, retried, mine, toRecord, quiet, cold, keeper, hung>>

\* _fence_run_commit: the transaction commits only while its run is running;
\* otherwise RunReclaimed unwinds and the flushed rows are rolled back.
CommitWrite(w) ==
    /\ At(w, "working")
    /\ pending[w]
    /\ pending' = [pending EXCEPT ![w] = FALSE]
    /\ \/ /\ FenceHolds(w)
          /\ saved' = [saved EXCEPT ![mine[w]] = @ + 1]
          /\ UNCHANGED pc
       \/ /\ ~FenceHolds(w)
          /\ pc' = [pc EXCEPT ![w] = "aborting"]
          /\ UNCHANGED saved
    /\ UNCHANGED <<status, lock, age, closer, completed, alarmed>>
    /\ UNCHANGED <<want, retried, mine, toRecord, quiet, cold, keeper, hung>>

\* One device failed: its transaction is rolled back and the sweep goes on.
RollBackWrite(w) ==
    /\ At(w, "working")
    /\ pending[w]
    /\ pending' = [pending EXCEPT ![w] = FALSE]
    /\ UNCHANGED <<table, pc, want, retried, mine, toRecord, quiet, cold, keeper, hung>>

\* note_progress: the worker tells the keeper it is still getting somewhere.
NoteProgress(w) ==
    /\ At(w, "working")
    /\ quiet' = [quiet EXCEPT ![w] = 0]
    /\ UNCHANGED <<table, pc, want, retried, mine, pending, toRecord, cold, keeper, hung>>

\* beat, past its throttle: a heartbeat conditional on the row still running.
Beat(w) ==
    /\ At(w, "working")
    /\ ~pending[w]
    /\ cold[w]
    /\ quiet' = [quiet EXCEPT ![w] = 0]
    /\ \/ /\ Owns(w)
          /\ age' = [age EXCEPT ![mine[w]] = 0]
          /\ cold' = [cold EXCEPT ![w] = FALSE]
          /\ UNCHANGED pc
       \/ /\ ~Owns(w)
          /\ pc' = [pc EXCEPT ![w] = "aborting"]
          /\ UNCHANGED <<age, cold>>
    /\ UNCHANGED <<status, lock, closer, saved, completed, alarmed>>
    /\ UNCHANGED <<want, retried, mine, pending, toRecord, keeper, hung>>

KeepAlive_InventsProgress(w) ==
    /\ keeper[w]
    /\ Owns(w)
    /\ age' = [age EXCEPT ![mine[w]] = 0]
    /\ quiet' = [quiet EXCEPT ![w] = 0]
    /\ UNCHANGED <<status, lock, closer, saved, completed, alarmed>>
    /\ UNCHANGED <<pc, want, retried, mine, pending, toRecord, cold, keeper, hung>>

\* _keep_alive wakes: it stops for good when progress has stopped, and else
\* warms the row, in its own session and conditionally.
KeepAlive(w) ==
    /\ keeper[w]
    /\ quiet[w] < StaleAfter
    /\ Owns(w)
    /\ age[mine[w]] >= 1
    /\ age' = [age EXCEPT ![mine[w]] = 0]
    /\ UNCHANGED <<status, lock, closer, saved, completed, alarmed, frame>>

KeeperStops(w) ==
    /\ keeper[w]
    /\ quiet[w] >= StaleAfter
    /\ keeper' = [keeper EXCEPT ![w] = FALSE]
    /\ UNCHANGED <<table, pc, want, retried, mine, pending, toRecord, quiet, cold, hung>>

-----------------------------------------------------------------------------
(* finish: the release commits first, then the announcements.               *)

\* The work ended well.  Fenced writes still pending are validated and commit
\* with the verdict; if the run is gone they raise RunReclaimed instead.
FinishOk(w) ==
    /\ At(w, "working")
    /\ pending[w] => FenceHolds(w)
    /\ StillRunning(w)
    /\ pending' = [pending EXCEPT ![w] = FALSE]
    /\ status' = [status EXCEPT ![mine[w]] = "succeeded"]
    /\ closer' = [closer EXCEPT ![mine[w]] = "finish"]
    /\ age' = [age EXCEPT ![mine[w]] = 0]
    /\ saved' = [saved EXCEPT ![mine[w]] = @ + (IF pending[w] THEN 1 ELSE 0)]
    /\ GoTo(w, "announce")
    /\ UNCHANGED <<lock, completed, alarmed>>

FinishRaises(w) ==
    /\ At(w, "working")
    /\ pending[w]
    /\ ~FenceHolds(w)
    /\ pending' = [pending EXCEPT ![w] = FALSE]
    /\ GoTo(w, "aborting")
    /\ UNCHANGED table

\* The work failed: the caller rolled its transaction back before it called.
FinishFailed(w) ==
    /\ At(w, "working")
    /\ StillRunning(w)
    /\ pending' = [pending EXCEPT ![w] = FALSE]
    /\ status' = [status EXCEPT ![mine[w]] = "failed"]
    /\ closer' = [closer EXCEPT ![mine[w]] = "finish"]
    /\ age' = [age EXCEPT ![mine[w]] = 0]
    /\ GoTo(w, "announce")
    /\ UNCHANGED <<lock, saved, completed, alarmed>>

\* The conditional UPDATE matched nothing, or the aborted frame never called
\* finish (run_one_collection): either way the recorded verdict stands.
FinishRefused(w) ==
    /\ At(w, "working") \/ At(w, "aborting")
    /\ ~pending[w]
    /\ ~StillRunning(w)
    /\ Leave(w)
    /\ UNCHANGED table

\* run.completed, for the lock classes that send one; enqueued or lost.
AnnounceCompleted(w) ==
    /\ At(w, "announce")
    /\ LET r == mine[w] IN
        \/ /\ lock[r] \in HeartbeatLocks
           /\ completed' \in {[completed EXCEPT ![r] = @ + 1], completed}
        \/ lock[r] \notin HeartbeatLocks /\ UNCHANGED completed
    /\ GoTo(w, "alarm")
    /\ UNCHANGED <<status, lock, age, closer, saved, alarmed, pending>>

\* run.failed when the verdict is failed: enqueued, lost, or not asked for
\* (a busy webhook, or a standing failure already reported today).
AnnounceFailed(w) ==
    /\ At(w, "alarm")
    /\ LET r == mine[w] IN
        \/ /\ status[r] = "failed"
           /\ alarmed' \in {[alarmed EXCEPT ![r] = @ + 1], alarmed}
        \/ status[r] # "failed" /\ UNCHANGED alarmed
    /\ Leave(w)
    /\ UNCHANGED <<status, lock, age, closer, saved, completed>>

-----------------------------------------------------------------------------
(* The environment.                                                         *)

\* The frame's process dies, or its task is cancelled, between two commits.
Crash(w) ==
    /\ pc[w] # "idle"
    /\ Leave(w)
    /\ UNCHANGED table

Hang(w) ==
    /\ w \in MayHang
    /\ At(w, "working")
    /\ hung' = [hung EXCEPT ![w] = TRUE]
    /\ UNCHANGED <<table, pc, want, retried, mine, pending, toRecord, quiet, cold, keeper>>

Wake(w) ==
    /\ hung[w]
    /\ hung' = [hung EXCEPT ![w] = FALSE]
    /\ UNCHANGED <<table, pc, want, retried, mine, pending, toRecord, quiet, cold, keeper>>

AtMost(n, cap) == IF n > cap THEN cap ELSE n

Tick ==
    /\ age' = [r \in RunIds |-> IF status[r] = "running"
                                THEN AtMost(age[r] + 1, StaleAfter + 1) ELSE age[r]]
    /\ quiet' = [w \in Workers |-> IF mine[w] # NoRun
                                   THEN AtMost(quiet[w] + 1, StaleAfter) ELSE quiet[w]]
    /\ cold' = [w \in Workers |-> cold[w] \/ mine[w] # NoRun]
    /\ UNCHANGED <<status, lock, closer, saved, completed, alarmed>>
    /\ UNCHANGED <<pc, want, retried, mine, pending, toRecord, keeper, hung>>

\* purge_runs, thirty days on: no closing frame is that old.
Purge(r) ==
    /\ status[r] \in Closed
    /\ \A w \in Workers :
        /\ r \notin toRecord[w]
        /\ mine[w] = r => pc[w] \in {"working", "aborting"}
    /\ status' = [status EXCEPT ![r] = "none"]
    /\ lock' = [lock EXCEPT ![r] = NoLock]
    /\ age' = [age EXCEPT ![r] = 0]
    /\ closer' = [closer EXCEPT ![r] = "none"]
    /\ saved' = [saved EXCEPT ![r] = 0]
    /\ completed' = [completed EXCEPT ![r] = 0]
    /\ alarmed' = [alarmed EXCEPT ![r] = 0]
    /\ UNCHANGED frame

-----------------------------------------------------------------------------

Acquire(w) ==
    \/ \E l \in Locks : Reclaim(w, l)
    \/ \E r \in RunIds : RecordReclaim(w, r)
    \/ StartInsert(w)
    \/ \E r \in RunIds : InsertRun(w, r)
    \/ InsertRefused(w)
    \/ ReportHolder(w)
    \/ RetryInsert(w)

Close(w) ==
    \/ FinishOk(w)
    \/ FinishRaises(w)
    \/ FinishFailed(w)
    \/ FinishRefused(w)
    \/ AnnounceCompleted(w)
    \/ AnnounceFailed(w)

Work(w) ==
    \/ Write(w)
    \/ CommitWrite(w)
    \/ RollBackWrite(w)
    \/ NoteProgress(w)
    \/ Beat(w)

Next ==
    \/ \E w \in Workers :
        \/ Acquire(w)
        \/ Work(w)
        \/ Close(w)
        \/ KeepAlive(w)
        \/ KeeperStops(w)
        \/ Crash(w)
        \/ Hang(w)
        \/ Wake(w)
    \/ \E r \in RunIds : Purge(r)
    \/ Tick

Spec == Init /\ [][Next]_vars

(* Time passes, the nightly purge runs, a keeper that must stop does, an idle *)
(* worker acquires again (the tick of every minute, the next webhook), and a  *)
(* frame that keeps coming back from its network waits ends its run, for the  *)
(* fleet is finite.  Nothing is assumed of a frame that stays hung, of the    *)
(* beats or of the keeper's writes.                                           *)
Fairness ==
    /\ WF_vars(Tick)
    /\ \A w \in Workers :
        /\ WF_vars(Acquire(w))
        /\ SF_vars(Close(w))
        /\ WF_vars(KeeperStops(w))
    /\ \A r \in RunIds : WF_vars(Purge(r))

FairSpec == Spec /\ Fairness

-----------------------------------------------------------------------------
(* Properties.                                                              *)

\* The mutex: at most one running run per connection and lock class, webhook
\* runs excepted (runs.py, "Acquisition is the INSERT").
OneHolder ==
    \A r, s \in RunIds :
        /\ status[r] = "running" /\ status[s] = "running"
        /\ lock[r] = lock[s] /\ lock[r] \in ExclusiveLocks
        => r = s

\* The wire never contradicts the table: a run is announced at most once each
\* way, run.completed only for a verdict finish wrote, and run.failed only for
\* a failed run, whichever of finish and the reclaim closed it.
EventsMatchVerdict ==
    \A r \in RunIds :
        /\ completed[r] <= 1 /\ alarmed[r] <= 1
        /\ completed[r] = 1 => closer[r] = "finish" /\ lock[r] \in HeartbeatLocks
        /\ alarmed[r] = 1 => status[r] = "failed"

\* What a frame is about to do agrees with the table, whatever the others did
\* since it last looked: a run has one frame and one announcer, an announcer's
\* run is closed by the side it announces for and not yet announced that way,
\* and an open run has announced nothing.
FramesAgree ==
    /\ \A w, v \in Workers :
        w # v => /\ mine[w] = mine[v] => mine[w] = NoRun
                 /\ toRecord[w] \cap toRecord[v] = {}
    /\ \A w \in Workers :
        /\ toRecord[w] # {} => pc[w] = "record"
        /\ \A r \in toRecord[w] :
            status[r] = "failed" /\ closer[r] = "reclaim" /\ alarmed[r] = 0
        /\ pc[w] \in {"announce", "alarm"} =>
            status[mine[w]] \in Closed /\ closer[mine[w]] = "finish" /\ alarmed[mine[w]] = 0
        /\ pc[w] = "announce" => completed[mine[w]] = 0
        /\ pc[w] \in {"record", "insert", "conflict"} => want[w] \in Locks
    /\ \A r \in RunIds :
        status[r] \notin Closed => closer[r] = "none" /\ completed[r] = 0 /\ alarmed[r] = 0

\* A verdict is written once: no late finish, heartbeat or observation of a
\* frame that lost its run changes what the row or its history says.
VerdictStands ==
    [][\A r \in RunIds : status[r] \in Closed =>
            \/ <<status'[r], closer'[r], saved'[r]>> = <<status[r], closer[r], saved[r]>>
            \/ status'[r] = "none"]_vars

\* Nothing is saved under one run while another run holds its lock: a frame
\* whose run was reclaimed never interleaves with the sweep that replaced it.
SoleWriter ==
    [][\A r, s \in RunIds :
            r # s /\ saved'[r] > saved[r] /\ lock[r] \in ExclusiveLocks /\ lock[s] = lock[r]
            => status[s] # "running"]_vars

\* The table as the rest of the program sees it: a lock service whose holders
\* may be revoked, and whose verdicts and observations agree.
Abstract == INSTANCE RunLock WITH
    verdict <- [r \in RunIds |-> CASE status[r] = "none" -> "unused"
                                   [] status[r] = "running" -> "open"
                                   [] OTHER -> status[r]],
    serves <- lock

\* Runs, with all its frames, implements the lock service.
ImplementsRunLock == Abstract!Spec

\* A mutex with a heartbeat is not a deadlock: every running run is eventually
\* closed, its worker finished, dead or hung, so its lock is freed, while some
\* other frame of the tenant goes on acquiring.
EveryRunCloses ==
    \A r \in RunIds : status[r] = "running" ~> status[r] # "running"

\* The table at every instant: one holder per lock, what was announced agrees with
\* the verdicts, and so does what each frame is about to do.
RunsSound == TypeOK /\ OneHolder /\ EventsMatchVerdict /\ FramesAgree

=============================================================================
