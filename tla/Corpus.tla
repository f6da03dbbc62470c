------------------------------- MODULE Corpus -------------------------------
(***************************************************************************)
(* The vulnerability corpus: core/vuln_library.py replaces the one library  *)
(* of the box, core/vuln_selection.py grants releases to tenants and moves  *)
(* their selection, catalog/service.py joins builds with the rows of a      *)
(* release, and core/vuln_pruning.py throws old releases away.              *)
(*                                                                          *)
(* Two contracts share the code.  Without tenantSelection every process     *)
(* answers from the epoch in its memory while the join reads the one        *)
(* library of the database.  With it a tenant answers from the release it   *)
(* selected and every writer of answers holds the tenant's row.             *)
(*                                                                          *)
(* An answer is the signature it is stamped with and the release whose row  *)
(* filled it, NoRelease for a build that release does not list.  Tiers,     *)
(* the target build and the evidence of a transition are left out.          *)
(***************************************************************************)
EXTENDS Naturals, FiniteSets, Functions

CONSTANTS
    Tenants,
    Processes,
    Exchanges, Sweeps, \* the tasks that import and that ingest devices
    Home,              \* the process of a task
    Releases,          \* signatures of published epochs
    Devices, Builds,
    Lists,             \* the builds a release holds a row for
    Settings,          \* values vuln_tenant_selection may have been started with
    MaxTime,           \* bound: instants
    MaxMoves,          \* bound: changes of the published pointer
    MaxFaults,         \* bound: refused downloads, failed assessments, crashes
    MaxPrunes,         \* bound: runs of the cleanup command
    Grace,             \* an acquisition is kept this long
    NoRelease, NoTenant

CorpusAssumption ==
    /\ Exchanges \cap Sweeps = {} /\ Home \in [Exchanges \cup Sweeps -> Processes]
    /\ Lists \in [Releases -> SUBSET Builds]
    /\ Settings \subseteq BOOLEAN
    /\ NoRelease \notin Releases /\ NoTenant \notin Tenants
    /\ {MaxTime, MaxMoves, MaxFaults, MaxPrunes, Grace} \subseteq Nat

VARIABLES
    tenantSelection, \* the setting, fixed while the box runs
    now, moves, faults, prunes,
    pointer,   \* the signature the exchange service names
    library,   \* the epoch whose rows fill the library tables
    loadedAt,  \* when it was loaded
    archive,   \* retained releases, with the instant each was loaded
    memory,    \* the epoch behind loaded_corpus() in a process
    grants,    \* the releases a tenant acquired, with the instant
    selection, \* the release a tenant answers from and the one before it
    answers,   \* app_catalog: the answer of each build a tenant has shown
    copies,    \* installed_apps: the copy on each device that carries it
    task,      \* where an exchange is
    sweep,     \* the open transaction of an ingest
    prune      \* the open transaction of the cleanup

bounds == <<now, moves, faults, prunes>>
store == <<library, loadedAt, archive>>
tenancy == <<grants, selection>>
judged == <<answers, copies>>
vars == <<tenantSelection, bounds, pointer, store, memory, tenancy, judged, task, sweep, prune>>

Maybe == Releases \cup {NoRelease}
Answers == [signature : Maybe, of : Maybe]
Unselected == [signature |-> NoRelease, previous |-> NoRelease]
Idle == [at |-> "idle", tenant |-> NoTenant, signature |-> NoRelease, current |-> NoRelease, owed |-> {}]
Resting == [tenant |-> NoTenant, carried |-> {}, builds |-> {}, epoch |-> NoRelease, rows |-> NoRelease]
NoPrune == [at |-> "idle", before |-> 0, held |-> {}, retiring |-> [t \in Tenants |-> {}], retire |-> FALSE]

TypeOK ==
    /\ pointer \in Releases
    /\ library \in Maybe
    /\ DOMAIN archive \subseteq Releases
    /\ memory \in [Processes -> Maybe]
    /\ \A t \in Tenants : DOMAIN grants[t] \subseteq Releases
    /\ selection \in [Tenants -> [signature : Maybe, previous : Maybe]]
    /\ \A t \in Tenants :
           /\ DOMAIN answers[t] \subseteq Builds /\ Range(answers[t]) \subseteq Answers
           /\ DOMAIN copies[t] \subseteq Devices \X Builds /\ Range(copies[t]) \subseteq Answers
           /\ \A c \in DOMAIN copies[t] : c[2] \in DOMAIN answers[t]
    /\ \A e \in Exchanges : task[e].at \in {"idle", "offered", "stored", "delivering", "granted", "rejudging"}

Init ==
    /\ now = 0 /\ moves = 0 /\ faults = 0 /\ prunes = 0
    /\ tenantSelection \in Settings
    /\ pointer \in Releases
    /\ library = NoRelease /\ loadedAt = 0
    /\ archive = << >>
    /\ memory = [p \in Processes |-> NoRelease]
    /\ grants = [t \in Tenants |-> << >>]
    /\ selection = [t \in Tenants |-> Unselected]
    /\ answers = [t \in Tenants |-> << >>]
    /\ copies = [t \in Tenants |-> << >>]
    /\ task = [e \in Exchanges |-> Idle]
    /\ sweep = [s \in Sweeps |-> Resting]
    /\ prune = NoPrune

----------------------------------------------------------------------------
(* Judging and copying.                                                     *)

\* What the rows of a release say of a build, under a stamp.
Judged(stamp, rows, b) ==
    [signature |-> stamp,
     of |-> IF stamp # NoRelease /\ rows # NoRelease /\ b \in Lists[rows] THEN rows ELSE NoRelease]

\* load_selected_corpus: a task answers a tenant from the release it selected.
Selected(t) == selection[t].signature

\* The epoch a process answers a tenant from.
Serving(p, t) == IF tenantSelection THEN Selected(t) ELSE memory[p]

\* The rows a join reads: the library's, or the archived release's own.
RowsOf(stamp) == IF tenantSelection THEN stamp ELSE library

\* judge_vuln(None): the rows of a tenant that another epoch answered.
Rejudged(t, stamp) ==
    [b \in DOMAIN answers[t] |->
        IF answers[t][b].signature # stamp THEN Judged(stamp, RowsOf(stamp), b) ELSE answers[t][b]]

\* copy_vuln_answers: the copies whose stamp is not the catalog row's.
Copied(t, rows) ==
    [c \in DOMAIN copies[t] |->
        IF copies[t][c].signature # rows[c[2]].signature THEN rows[c[2]] ELSE copies[t][c]]

\* A bug: the copies follow only a pass that rewrote something.
Rewrite_Gated(t, stamp) ==
    /\ answers' = [answers EXCEPT ![t] = Rejudged(t, stamp)]
    /\ copies' = IF Rejudged(t, stamp) # answers[t]
                 THEN [copies EXCEPT ![t] = Copied(t, Rejudged(t, stamp))] ELSE copies

Rewrite(t, stamp) ==
    /\ answers' = [answers EXCEPT ![t] = Rejudged(t, stamp)]
    /\ copies' = [copies EXCEPT ![t] = Copied(t, Rejudged(t, stamp))]

\* A bug: the selection is read without the lock.
TenantFree_Unlocked(t) == TRUE

\* The tenant's row is locked by an ingest, or by a cleanup that retires grants.
TenantFree(t) ==
    /\ \A s \in Sweeps : tenantSelection => sweep[s].tenant # t
    /\ prune.at = "reading" => ~prune.retire

\* No open transaction holds a catalog row this pass would rewrite.
RowsFree(t) == \A s \in Sweeps : sweep[s].tenant # t

ImportFree == prune.at = "idle"

----------------------------------------------------------------------------
(* The exchange's corpus half.                                              *)

Step(e, at) == task' = [task EXCEPT ![e].at = at]
Finish(e) == task' = [task EXCEPT ![e] = Idle]

\* A response named a corpus: load_epoch_if_new reads the stored signature.
BeginDelivery(e, t) ==
    /\ task[e].at = "idle"
    /\ \A o \in Exchanges : Home[o] = Home[e] => task[o].tenant # t \* exchange_lock
    /\ task' = [task EXCEPT ![e] = [@ EXCEPT !.at = "offered", !.tenant = t, !.signature = pointer, !.current = library]]
    /\ UNCHANGED <<tenantSelection, bounds, pointer, store, memory, tenancy, judged, sweep, prune>>

\* The insert that copies the library's rows once per signature.
Retained(arch, sig, at) == IF sig = NoRelease \/ sig \in DOMAIN arch THEN arch ELSE [r \in DOMAIN arch \cup {sig} |-> IF r = sig THEN at ELSE arch[r]]

\* Nothing moved: the flag still retains what is loaded, under the import lock.
Unmoved(e) ==
    /\ task[e].at = "offered" /\ task[e].current = task[e].signature
    /\ tenantSelection => ImportFree
    /\ IF ~tenantSelection THEN Finish(e) /\ UNCHANGED archive
       ELSE IF library = task[e].signature
            THEN Step(e, "delivering") /\ archive' = Retained(archive, library, loadedAt)
            ELSE task' = [task EXCEPT ![e].current = library] /\ UNCHANGED archive
    /\ UNCHANGED <<tenantSelection, bounds, pointer, library, loadedAt, memory, tenancy, judged, sweep, prune>>

\* Download, verification and the one transaction that replaces the library.
StoreEpoch(e) ==
    /\ task[e].at = "offered" /\ task[e].current # task[e].signature
    /\ ImportFree
    /\ library' = task[e].signature
    /\ loadedAt' = now
    /\ archive' = IF tenantSelection
                  THEN Retained(Retained(archive, library, loadedAt), task[e].signature, now) ELSE archive
    /\ Step(e, "stored")
    /\ UNCHANGED <<tenantSelection, bounds, pointer, memory, tenancy, judged, sweep, prune>>

\* The bundle is refused, or the database refuses it: the old epoch keeps answering.
RefuseEpoch(e) ==
    /\ faults < MaxFaults
    /\ task[e].at = "offered" /\ task[e].current # task[e].signature
    /\ faults' = faults + 1
    /\ IF tenantSelection THEN Step(e, "delivering") ELSE Finish(e)
    /\ UNCHANGED <<tenantSelection, now, moves, prunes, pointer, store, memory, tenancy, judged, sweep, prune>>

\* install_corpus, when the commit has returned.
InstallCorpus(e) ==
    /\ task[e].at = "stored"
    /\ memory' = [memory EXCEPT ![Home[e]] = task[e].signature]
    /\ task' = [task EXCEPT ![e].at = IF tenantSelection THEN "delivering" ELSE "rejudging",
                            ![e].owed = IF tenantSelection THEN {} ELSE Tenants]
    /\ UNCHANGED <<tenantSelection, bounds, pointer, store, tenancy, judged, sweep, prune>>

\* rejudge_every_tenant: one organization's pass.
RejudgeTenant(e, t) ==
    /\ task[e].at = "rejudging" /\ t \in task[e].owed
    /\ RowsFree(t)
    /\ Rewrite(t, memory[Home[e]])
    /\ IF task[e].owed = {t} THEN Finish(e) ELSE task' = [task EXCEPT ![e].owed = @ \ {t}]
    /\ UNCHANGED <<tenantSelection, bounds, pointer, store, memory, tenancy, sweep, prune>>

\* It fails for one organization and goes on with the next.
RejudgeFails(e, t) ==
    /\ faults < MaxFaults
    /\ task[e].at = "rejudging" /\ t \in task[e].owed
    /\ faults' = faults + 1
    /\ IF task[e].owed = {t} THEN Finish(e) ELSE task' = [task EXCEPT ![e].owed = @ \ {t}]
    /\ UNCHANGED <<tenantSelection, now, moves, prunes, pointer, store, memory, tenancy, judged, sweep, prune>>

\* record_acquisition and its commit; a release nobody retains grants nothing.
Grant(e) ==
    LET t == task[e].tenant
        sig == task[e].signature
    IN /\ task[e].at = "delivering"
       /\ IF sig \in DOMAIN archive
          THEN /\ TenantFree(t)
               /\ grants' = IF sig \in DOMAIN grants[t] THEN grants
                            ELSE [grants EXCEPT ![t] = [r \in DOMAIN @ \cup {sig} |-> IF r = sig THEN now ELSE @[r]]]
               /\ Step(e, "granted")
          ELSE Finish(e) /\ UNCHANGED grants
       /\ UNCHANGED <<tenantSelection, bounds, pointer, store, memory, selection, judged, sweep, prune>>

\* select_after_assessment: every answer, every copy and the pointer together.
Select(e) ==
    LET t == task[e].tenant
        sig == task[e].signature
    IN /\ task[e].at = "granted"
       /\ TenantFree(t)
       /\ IF sig \in DOMAIN grants[t] /\ selection[t].signature # sig
          THEN /\ Rewrite(t, sig)
               /\ selection' = [selection EXCEPT ![t] = [signature |-> sig, previous |-> @.signature]]
          ELSE UNCHANGED <<judged, selection>>
       /\ Finish(e)
       /\ UNCHANGED <<tenantSelection, bounds, pointer, store, memory, grants, sweep, prune>>

\* The assessment raises: its writes and the selection roll back, the grant stays.
AssessmentFails(e) ==
    /\ faults < MaxFaults
    /\ task[e].at = "granted"
    /\ faults' = faults + 1
    /\ Finish(e)
    /\ UNCHANGED <<tenantSelection, now, moves, prunes, pointer, store, memory, tenancy, judged, sweep, prune>>

----------------------------------------------------------------------------
(* The writers of answers.                                                  *)

Newest(t) == {r \in DOMAIN grants[t] : \A o \in DOMAIN grants[t] : grants[t][o] <= grants[t][r]}

\* prepare_assessment: a tenant that holds grants and no selection assesses the newest.
Bootstrap(t) ==
    /\ tenantSelection /\ TenantFree(t)
    /\ selection[t] = Unselected
    /\ \E r \in Newest(t) :
           /\ Rewrite(t, r)
           /\ selection' = [selection EXCEPT ![t].signature = r]
    /\ UNCHANGED <<tenantSelection, bounds, pointer, store, memory, grants, task, sweep, prune>>

Prepared(t) == tenantSelection => selection[t] # Unselected \/ grants[t] = << >>

\* record_device_apps: the builds of one device are inserted, and those another
\* epoch answered are joined with the rows of this one.
JudgeDevice(s, t, d, B) ==
    /\ sweep[s].tenant = NoTenant /\ TenantFree(t) /\ RowsFree(t) /\ Prepared(t)
    /\ LET stamp == Serving(Home[s], t)
           stale == {b \in B : b \in DOMAIN answers[t] => answers[t][b].signature # stamp}
       IN sweep' = [sweep EXCEPT ![s] =
              [tenant |-> t, carried |-> {d} \X B, builds |-> stale, epoch |-> stamp, rows |-> RowsOf(stamp)]]
    /\ UNCHANGED <<tenantSelection, bounds, pointer, store, memory, tenancy, judged, task, prune>>

\* The copies of that device follow a row that was judged, that is new to it, or
\* that another device's ingest judged.
CommitDevice(s) ==
    LET w == sweep[s]
        t == w.tenant
        rows == [b \in DOMAIN answers[t] \cup w.builds |->
                    IF b \in w.builds THEN Judged(w.epoch, w.rows, b) ELSE answers[t][b]]
    IN /\ t # NoTenant
       /\ answers' = [answers EXCEPT ![t] = rows]
       /\ copies' = [copies EXCEPT ![t] = [c \in DOMAIN @ \cup w.carried |->
                        IF c \in w.carried /\ (c \in DOMAIN @ =>
                               c[2] \in w.builds \/ @[c].signature # rows[c[2]].signature)
                        THEN rows[c[2]] ELSE @[c]]]
       /\ sweep' = [sweep EXCEPT ![s] = Resting]
       /\ UNCHANGED <<tenantSelection, bounds, pointer, store, memory, tenancy, task, prune>>

\* refresh_tenant, from the hourly job of a process.
Refresh(p, t) ==
    /\ TenantFree(t) /\ RowsFree(t) /\ Prepared(t)
    /\ Rewrite(t, Serving(p, t))
    /\ UNCHANGED <<tenantSelection, bounds, pointer, store, memory, tenancy, task, sweep, prune>>

----------------------------------------------------------------------------
(* prune_releases --apply, with or without --retire-acquisitions.           *)

Pins(t) == {library, selection[t].signature, selection[t].previous}

\* A tenant whose previous selection is unknown keeps all its grants.
Retiring(t, before) ==
    IF selection[t] # Unselected /\ selection[t].previous = NoRelease THEN {}
    ELSE {r \in DOMAIN grants[t] \ Pins(t) : grants[t][r] < before /\ grants[t][r] + Grace < now}

PruneReads(before, retire) ==
    /\ prunes < MaxPrunes /\ prune.at = "idle"
    /\ retire => \A s \in Sweeps : sweep[s].tenant = NoTenant
    /\ prunes' = prunes + 1
    /\ LET retiring == [t \in Tenants |-> IF retire THEN Retiring(t, before) ELSE {}]
       IN prune' = [at |-> "reading", before |-> before, retire |-> retire, retiring |-> retiring,
                    held |-> UNION {DOMAIN grants[t] \ retiring[t] : t \in Tenants}]
    /\ UNCHANGED <<tenantSelection, now, moves, faults, pointer, store, memory, tenancy, judged, task, sweep>>

\* RESTRICT on the acquisition's key refuses a release somebody acquired meanwhile.
Deletable(grantsLeft) ==
    {r \in DOMAIN archive : archive[r] < prune.before /\ r # library /\ r \notin prune.held
                            /\ \A t \in Tenants : r \notin DOMAIN grantsLeft[t]}

PruneDeletes ==
    LET left == [t \in Tenants |-> Restrict(grants[t], DOMAIN grants[t] \ prune.retiring[t])]
    IN /\ prune.at = "reading"
       /\ grants' = left
       /\ archive' = Restrict(archive, DOMAIN archive \ Deletable(left))
       /\ prune' = NoPrune
       /\ UNCHANGED <<tenantSelection, bounds, pointer, library, loadedAt, memory, selection, judged, task, sweep>>

----------------------------------------------------------------------------
(* Processes, the publisher and time.                                       *)

\* A process dies and comes back: refresh_from_db reads the stored epoch.
Crash(p) ==
    /\ faults < MaxFaults
    /\ faults' = faults + 1
    /\ memory' = [memory EXCEPT ![p] = library]
    /\ task' = [e \in Exchanges |-> IF Home[e] = p THEN Idle ELSE task[e]]
    /\ sweep' = [s \in Sweeps |-> IF Home[s] = p THEN Resting ELSE sweep[s]]
    /\ UNCHANGED <<tenantSelection, now, moves, prunes, pointer, store, tenancy, judged, prune>>

\* The publisher moves the pointer, forward or back.
MovePointer(r) ==
    /\ moves < MaxMoves /\ r # pointer
    /\ pointer' = r /\ moves' = moves + 1
    /\ UNCHANGED <<tenantSelection, now, faults, prunes, store, memory, tenancy, judged, task, sweep, prune>>

Tick ==
    /\ now < MaxTime
    /\ now' = now + 1
    /\ UNCHANGED <<tenantSelection, moves, faults, prunes, pointer, store, memory, tenancy, judged, task, sweep, prune>>

Advance(e) ==
    \/ Unmoved(e) \/ StoreEpoch(e) \/ InstallCorpus(e) \/ Grant(e) \/ Select(e)
    \/ \E t \in Tenants : RejudgeTenant(e, t)

Next ==
    \/ \E e \in Exchanges, t \in Tenants : BeginDelivery(e, t)
    \/ \E e \in Exchanges : Advance(e)
    \/ \E e \in Exchanges : RefuseEpoch(e) \/ AssessmentFails(e)
    \/ \E e \in Exchanges, t \in Tenants : RejudgeFails(e, t)
    \/ \E t \in Tenants : Bootstrap(t)
    \/ \E s \in Sweeps, t \in Tenants, d \in Devices : \E B \in SUBSET Builds \ {{}} : JudgeDevice(s, t, d, B)
    \/ \E s \in Sweeps : CommitDevice(s)
    \/ \E p \in Processes, t \in Tenants : Refresh(p, t)
    \/ \E before \in 1..now, retire \in BOOLEAN : PruneReads(before, retire)
    \/ PruneDeletes
    \/ \E p \in Processes : Crash(p)
    \/ \E r \in Releases : MovePointer(r)
    \/ Tick

Spec == Init /\ [][Next]_vars

\* The daily exchange of each tenant and the hourly job come round, transactions
\* end, and a row lock is handed to whoever waits for it longest.
FairSpec ==
    /\ Spec
    /\ \A e \in Exchanges : SF_vars(Advance(e))
    /\ \A e \in Exchanges, t \in Tenants : SF_vars(BeginDelivery(e, t))
    /\ \A s \in Sweeps : WF_vars(CommitDevice(s))
    /\ \A p \in Processes, t \in Tenants : SF_vars(Refresh(p, t))
    /\ WF_vars(PruneDeletes)

----------------------------------------------------------------------------
(* Properties.                                                              *)

\* What a row says under a stamp is what the release of that stamp says.
Faithful(a, b) == a.of = (IF a.signature # NoRelease /\ b \in Lists[a.signature] THEN a.signature ELSE NoRelease)

\* No process shows a tenant an answer under a stamp whose release did not give
\* it, however imports, ingests and re-judging passes interleave (`served` in
\* core/vuln_answer.py, install_corpus in core/vuln.py).
ServedIsOfItsEpoch ==
    \A p \in Processes, t \in Tenants : Serving(p, t) # NoRelease =>
        /\ \A b \in DOMAIN answers[t] : answers[t][b].signature = Serving(p, t) => Faithful(answers[t][b], b)
        /\ \A c \in DOMAIN copies[t] : copies[t][c].signature = Serving(p, t) => Faithful(copies[t][c], c[2])

\* With tenant selection, selecting, ingesting and refreshing keep every stored
\* answer and every copy of a tenant under the selected release: no page goes
\* blank and none mixes two releases (select_after_assessment, lock_assessment).
AnswersFollowSelection ==
    tenantSelection => \A t \in Tenants :
        /\ \A b \in DOMAIN answers[t] : answers[t][b].signature = selection[t].signature /\ Faithful(answers[t][b], b)
        /\ \A c \in DOMAIN copies[t] : copies[t][c] = answers[t][c[2]]

\* What a tenant answers from, and what it would go back to, stays granted and
\* stays on disk whatever the cleanup throws away (prune_releases, record_acquisition).
SelectedIsHeld ==
    tenantSelection => \A t \in Tenants :
        \A r \in {selection[t].signature, selection[t].previous} \ {NoRelease} :
            r \in DOMAIN grants[t] /\ r \in DOMAIN archive

CorpusSound == TypeOK /\ AnswersFollowSelection /\ SelectedIsHeld

\* With tenant selection, every organization that exchanges comes to answer from
\* the release the publisher names last, through refused downloads, failed
\* assessments, crashes and cleanups (deliver_corpus).
EveryTenantCatchesUp ==
    tenantSelection => <>[](\A t \in Tenants : selection[t].signature = pointer)

\* Without it, the stored answers of a one-process box end up under the epoch it
\* loaded last (rejudge_every_tenant, refresh_tenant).
EveryAnswerIsCurrent ==
    ~tenantSelection => <>[](\A t \in Tenants :
        /\ \A b \in DOMAIN answers[t] : answers[t][b].signature = library
        /\ \A c \in DOMAIN copies[t] : copies[t][c] = answers[t][c[2]])

=============================================================================
