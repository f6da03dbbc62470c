-------------------------------- MODULE Stores -------------------------------
(***************************************************************************)
(* Three systems that keep stored answers up to date, composed: a          *)
(* behaviour picks one and lets it run while the others rest.  The         *)
(* parameters of each stand under its name; MCStores gives them values,    *)
(* StoresProofs proves about the systems what holds for all.  The names    *)
(* are none of Ledger's, so that one module can prove about both.          *)
(***************************************************************************)
EXTENDS Naturals, Sequences, FiniteSets

CONSTANTS
    Releases, NoRelease,
    \* Corpus
    LibraryTenants, LibraryProcesses, Exchanges, Ingests, TaskHome, Macs,
    LibraryBuilds, Lists, Settings, MaxDays, MaxMoves, MaxCorpusFaults,
    MaxPrunes, Grace, NoTenant,
    \* Patching
    Tenants, PatchMacs, Processes, Order, Jobs, KindOf, JobHome, Caller,
    MaxRevisions, MaxPresses, MaxJobFaults, Nothing,
    \* Tracked
    Builds, AppOf, Ids, Listed, Selections, TailTime, MaxReads, MaxEdits,
    NoDevice, NoPass

VARIABLES
    which, \* the system that runs
    tenantSelection, c_now, moves, c_faults, prunes, pointer, library,
    loadedAt, archive, memory, grants, c_selection, answers, copies, task,
    sweep, prune,
    published, presses, p_faults, titles, cache, verified, index, entry,
    copy, job,
    f_selection, f_now, edits, mac, release, f_row, history, pass, findings,
    latches, departed

C == INSTANCE Corpus WITH
    Tenants <- LibraryTenants, Processes <- LibraryProcesses,
    Sweeps <- Ingests, Home <- TaskHome, Devices <- Macs,
    Builds <- LibraryBuilds, MaxTime <- MaxDays,
    MaxFaults <- MaxCorpusFaults, now <- c_now, faults <- c_faults,
    selection <- c_selection
P == INSTANCE Patching WITH
    Devices <- PatchMacs, Home <- JobHome, MaxFaults <- MaxJobFaults,
    faults <- p_faults
F == INSTANCE Tracked WITH
    MaxTime <- MaxReads, NoRow <- NoDevice, selection <- f_selection,
    now <- f_now, row <- f_row

ASSUME StoresAssumption == C!CorpusAssumption /\ P!PatchingAssumption /\ F!TrackedAssumption

corpus == <<
    tenantSelection, c_now, moves, c_faults, prunes, pointer, library,
    loadedAt, archive, memory, grants, c_selection, answers, copies, task,
    sweep, prune>>
patching == <<
    published, presses, p_faults, titles, cache, verified, index, entry,
    copy, job>>
tracked == <<
    f_selection, f_now, edits, mac, release, f_row, history, pass, findings,
    latches, departed>>
stores == <<which, corpus, patching, tracked>>

\* One system starts anywhere it may start; the others rest in one state.
StoresInit ==
    /\ which \in {"corpus", "patching", "tracked"}
    /\ C!Init /\ (which # "corpus" => ~tenantSelection /\ pointer = CHOOSE r \in Releases : TRUE)
    /\ P!Init /\ (which # "patching" => published = 0)
    /\ F!Init /\ (which # "tracked" =>
                      ~f_selection /\ mac.builds = {} /\ release = NoRelease /\ f_row = NoDevice)

StoresNext ==
    /\ which' = which
    /\ IF which = "corpus" THEN C!Next ELSE UNCHANGED corpus
    /\ IF which = "patching" THEN P!Next ELSE UNCHANGED patching
    /\ IF which = "tracked" THEN F!Next ELSE UNCHANGED tracked

StoresSpec == StoresInit /\ [][StoresNext]_stores

\* The fairness of each system, while it is the one that runs.
CorpusFairness ==
    /\ \A e \in Exchanges : SF_corpus(which = "corpus" /\ C!Advance(e))
    /\ \A e \in Exchanges, t \in LibraryTenants : SF_corpus(which = "corpus" /\ C!BeginDelivery(e, t))
    /\ \A s \in Ingests : WF_corpus(which = "corpus" /\ C!CommitDevice(s))
    /\ \A p \in LibraryProcesses, t \in LibraryTenants : SF_corpus(which = "corpus" /\ C!Refresh(p, t))
    /\ WF_corpus(which = "corpus" /\ C!PruneDeletes)
PatchingFairness ==
    /\ \A j \in Jobs : WF_patching(which = "patching" /\ P!Step(j))
    /\ \A j \in {i \in Jobs : KindOf[i] = "hourly"} : WF_patching(which = "patching" /\ P!Start(j))
    /\ \A p \in Processes : WF_patching(which = "patching" /\ P!IntervalEnds(p))
    /\ \A t \in Tenants, d \in PatchMacs :
           WF_patching(which = "patching" /\ \E p \in Processes : P!Ingest(p, t, d))
TrackedFairness ==
    /\ WF_tracked(which = "tracked" /\ F!Tick)
    /\ WF_tracked(which = "tracked" /\ F!ReadBegins)
    /\ SF_tracked(which = "tracked" /\ F!ReadCommits)
    /\ WF_tracked(which = "tracked" /\ F!CleanCensus)

FairStores == StoresSpec /\ CorpusFairness /\ PatchingFairness /\ TrackedFairness

-----------------------------------------------------------------------------
(* The properties, each stated beside the system it is about.               *)

\* What is stored of a release is whole and held (Corpus).
CorpusSound == C!CorpusSound

\* Stored answers end up under the epoch loaded last (Corpus).
EveryAnswerIsCurrent == C!EveryAnswerIsCurrent

\* A signature names one catalog, and none is ahead of the titles (Patching).
PatchingSound == P!PatchingSound

\* Every row ends up judged by Jamf's last titles (Patching).
AnswersConverge == P!AnswersConverge

\* What is open is on the Mac as last read (Tracked).
TrackedSound == F!TrackedSound

\* A finding keeps its first sighting, and what closes it is true (Tracked).
ClosesAreTrue == F!ClosesAreTrue

\* What is listed of a Mac that is there ends up open, and nothing else (Tracked).
FindingsConverge == F!FindingsConverge
=============================================================================
