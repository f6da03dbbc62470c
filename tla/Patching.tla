------------------------------ MODULE Patching ------------------------------
(***************************************************************************)
(* Jamf's patch catalog and the answers judged from it: the sync of the     *)
(* titles (mdm/patch/jamf_catalog.py), the index made from them             *)
(* (catalog/index.py), the catalog each process keeps                       *)
(* (mdm/patch/matching.py, load_catalog), the rows of the tenants' app      *)
(* catalogs and their copies on the devices (catalog/service.py), moved by  *)
(* the hourly job (main.py), the Sync button (api/jamf_patch.py), the       *)
(* Refresh button (api/catalog.py) and every ingest.                        *)
(*                                                                          *)
(* One title and one build of it that every device carries.  A definition   *)
(* is the number of its revision; how it answers a build is module          *)
(* Matching's.  The vulnerability half of an answer is module Corpus's.     *)
(***************************************************************************)
EXTENDS Naturals, Sequences, FiniteSets

CONSTANTS
    Tenants, Devices, Processes,
    Order,       \* operational_tenant_ids
    Jobs,        \* the hourly job, presses of Sync, presses of Refresh
    KindOf,      \* "hourly", "sync" or "refresh"
    Home,        \* the process a job runs in
    Caller,      \* the tenant whose member presses a button
    MaxRevisions, MaxPresses, MaxFaults, \* bounds
    Nothing

PatchingAssumption ==
    /\ KindOf \in [Jobs -> {"hourly", "sync", "refresh"}]
    /\ Home \in [Jobs -> Processes] /\ Caller \in Tenants
    /\ \A i, j \in Jobs : KindOf[i] = "hourly" /\ KindOf[j] = "hourly" => i = j
    /\ Order \in Seq(Tenants)
    /\ {MaxRevisions, MaxPresses, MaxFaults} \subseteq Nat
    /\ Nothing \notin [revision: 0..MaxRevisions, stamp: Nat]

VARIABLES
    published, \* the revision Jamf serves
    presses, faults,
    titles,    \* jamf_patch_titles: the revision, and the stamp of the sync that wrote it
    cache,     \* the catalog a process holds
    verified,  \* whether it asked the table within CATALOG_PROBE_INTERVAL
    index,     \* app_catalog_versions: the rows each job's last rebuild left
    entry,     \* app_catalog: the catalog that judged a tenant's build
    copy,      \* installed_apps: the catalog whose answer a device's row holds
    job        \* where each job is

bounds == <<published, presses, faults>>
kept == <<cache, verified>>
answers == <<entry, copy>>
vars == <<bounds, titles, kept, index, answers, job>>

Revisions == 0..MaxRevisions
Catalogs == [revision: Revisions, stamp: Nat]
Entries == Catalogs \cup {Nothing}
Indexed == Revisions \cup {Nothing}
Resting == [at |-> "idle"]

TypeOK ==
    /\ titles \in Catalogs
    /\ published \in Revisions
    /\ \A p \in Processes : cache[p] \in Entries /\ verified[p] \in BOOLEAN
    /\ index \in [Jobs -> Indexed]
    /\ \A t \in Tenants :
           /\ entry[t] \in Entries
           /\ \A d \in Devices : copy[t][d] \in Entries
           /\ entry[t] = Nothing => \A d \in Devices : copy[t][d] = Nothing

Init ==
    /\ published \in Revisions /\ presses = 0 /\ faults = 0
    /\ titles = [revision |-> 0, stamp |-> 0]
    /\ cache = [p \in Processes |-> Nothing]
    /\ verified = [p \in Processes |-> FALSE]
    /\ index = [j \in Jobs |-> Nothing]
    /\ entry = [t \in Tenants |-> Nothing]
    /\ copy = [t \in Tenants |-> [d \in Devices |-> Nothing]]
    /\ job = [j \in Jobs |-> Resting]

----------------------------------------------------------------------------
(* The catalog of a process.                                                *)

\* A bug: the table is asked once per process.
load_catalog_Once(p, trusting) == IF cache[p] # Nothing THEN cache[p] ELSE titles

\* Without max_age the table is asked; with it only once per interval.
load_catalog(p, trusting) ==
    IF trusting /\ cache[p] # Nothing /\ verified[p] THEN cache[p] ELSE titles

Remember(p, trusting) ==
    /\ cache' = [cache EXCEPT ![p] = load_catalog(p, trusting)]
    /\ verified' = [verified EXCEPT ![p] = TRUE]

reset_catalog_cache(p) ==
    /\ cache' = [cache EXCEPT ![p] = Nothing]
    /\ verified' = [verified EXCEPT ![p] = FALSE]

IntervalEnds(p) ==
    /\ verified[p]
    /\ verified' = [verified EXCEPT ![p] = FALSE]
    /\ UNCHANGED <<bounds, titles, cache, index, answers, job>>

----------------------------------------------------------------------------
(* Jobs.                                                                    *)

\* A rebuild that ends lets go of the rows another one waits for.
Goto(j, record) ==
    job' = [i \in Jobs |->
        IF i = j THEN record
        ELSE IF job[i].at = "inserting" THEN [job[i] EXCEPT !.after = @ \ {j}] ELSE job[i]]
Fault == faults < MaxFaults /\ faults' = faults + 1

\* The tenants a job refreshes when its catalog half is done.
Owed(j) == IF KindOf[j] = "hourly" THEN Order ELSE <<Caller>>
Refreshing(owed) == IF owed = <<>> THEN Resting ELSE [at |-> "refreshing", owed |-> owed]

Start(j) ==
    /\ job[j] = Resting
    /\ IF KindOf[j] = "hourly" THEN UNCHANGED presses
       ELSE presses < MaxPresses /\ presses' = presses + 1
    /\ Goto(j, IF KindOf[j] = "refresh" THEN Refreshing(<<Caller>>) ELSE [at |-> "asking"])
    /\ UNCHANGED <<published, faults, titles, kept, index, answers>>

\* A title no sync stored yet (revision 0), or whose definition moved since.
_needs_refresh == titles.revision # published

\* The summaries, the rows they are compared with, and the definitions of what changed.
Fetch(j) ==
    /\ job[j].at = "asking"
    /\ Goto(j, [at |-> "fetched", revision |-> published,
                fresh |-> _needs_refresh, new |-> titles.stamp = 0])
    /\ UNCHANGED <<bounds, titles, kept, index, answers>>

\* A definition that fails to arrive is left for a later sync.
SkipTitle(j) ==
    /\ job[j].at = "fetched" /\ job[j].fresh
    /\ Goto(j, [job[j] EXCEPT !.fresh = FALSE])
    /\ Fault
    /\ UNCHANGED <<published, presses, titles, kept, index, answers>>

\* A bug: the new definition is stored and synced_at left as it was.
Stored_Undated(j) == [titles EXCEPT !.revision = job[j].revision]

Stored(j) == [revision |-> job[j].revision, stamp |-> titles.stamp + 1]

\* The commit of sync_catalog; the second of two that insert the same title fails.
StoreTitles(j) ==
    /\ job[j].at = "fetched"
    /\ IF ~job[j].fresh THEN
           /\ Goto(j, [at |-> "indexing"])
           /\ UNCHANGED <<titles, kept>>
       ELSE IF job[j].new /\ titles.stamp # 0 THEN
           /\ Goto(j, Resting)
           /\ UNCHANGED <<titles, kept>>
       ELSE
           /\ titles' = Stored(j)
           /\ reset_catalog_cache(Home[j])
           /\ Goto(j, [at |-> "indexing"])
    /\ UNCHANGED <<bounds, index, answers>>

\* rebuild_index: the delete sees the rows committed so far, and waits for another
\* rebuild that is deleting them too.
RebuildBegins(j) ==
    /\ job[j].at = "indexing"
    /\ Remember(Home[j], FALSE)
    /\ LET sees == {i \in Jobs : index[i] # Nothing} IN
       Goto(j, [at |-> "inserting", revision |-> load_catalog(Home[j], FALSE).revision, sees |-> sees,
                after |-> {i \in Jobs : sees # {} /\ job[i].at = "inserting"}])
    /\ UNCHANGED <<bounds, titles, index, answers>>

Rebuilt(j) == [i \in Jobs |-> IF i = j THEN job[j].revision ELSE IF i \in job[j].sees THEN Nothing ELSE index[i]]

RebuildCommits(j) ==
    /\ job[j].at = "inserting"
    /\ job[j].after = {}
    /\ index' = Rebuilt(j)
    /\ Goto(j, Refreshing(Owed(j)))
    /\ UNCHANGED <<bounds, titles, kept, answers>>

\* refresh_tenant reads the catalog and the rows another catalog judged, all with force.
RefreshReads(j) ==
    /\ job[j].at = "refreshing"
    /\ Remember(Home[j], FALSE)
    /\ LET t == Head(job[j].owed)
           catalog == load_catalog(Home[j], FALSE)
           stale == entry[t] # Nothing /\ (KindOf[j] = "refresh" \/ entry[t].stamp # catalog.stamp)
       IN Goto(j, [at |-> "judging", owed |-> job[j].owed, catalog |-> catalog, stale |-> stale])
    /\ UNCHANGED <<bounds, titles, index, answers>>

\* It judges those rows, and copies them to every device that carries them.
Judge(j, t) ==
    IF job[j].stale THEN
        /\ entry' = [entry EXCEPT ![t] = job[j].catalog]
        /\ copy' = [copy EXCEPT ![t] = [d \in Devices |->
               IF copy[t][d] = Nothing THEN Nothing ELSE job[j].catalog]]
    ELSE UNCHANGED answers

RefreshWrites(j) ==
    /\ job[j].at = "judging"
    /\ Judge(j, Head(job[j].owed))
    /\ Goto(j, Refreshing(Tail(job[j].owed)))
    /\ UNCHANGED <<bounds, titles, kept, index>>

\* Anything a job raises ends it, the tenants it had not reached included.
JobFails(j) ==
    /\ job[j].at \in {"asking", "indexing", "inserting", "refreshing", "judging"}
    /\ Fault
    /\ Goto(j, Resting)
    /\ UNCHANGED <<published, presses, titles, kept, index, answers>>

----------------------------------------------------------------------------
(* Ingests and Jamf.                                                        *)

Judged(t, catalog) == entry[t] = Nothing \/ entry[t].stamp # catalog.stamp

\* record_device_apps: a row the process's catalog did not judge is judged, and the
\* device's own row follows when it is new or its catalog row was judged just now.
Ingest(p, t, d) ==
    LET catalog == load_catalog(p, TRUE) IN
    /\ Remember(p, TRUE)
    /\ entry' = IF Judged(t, catalog) THEN [entry EXCEPT ![t] = catalog] ELSE entry
    /\ copy' = IF copy[t][d] = Nothing \/ Judged(t, catalog)
               THEN [copy EXCEPT ![t][d] = entry'[t]] ELSE copy
    /\ UNCHANGED <<bounds, titles, index, job>>

Publish ==
    /\ published < MaxRevisions
    /\ published' = published + 1
    /\ UNCHANGED <<presses, faults, titles, kept, index, answers, job>>

Step(j) ==
    \/ Fetch(j) \/ StoreTitles(j) \/ RebuildBegins(j) \/ RebuildCommits(j)
    \/ RefreshReads(j) \/ RefreshWrites(j)

Next ==
    \/ \E j \in Jobs : Start(j) \/ Step(j) \/ SkipTitle(j) \/ JobFails(j)
    \/ \E p \in Processes : IntervalEnds(p) \/ \E t \in Tenants, d \in Devices : Ingest(p, t, d)
    \/ Publish

Spec == Init /\ [][Next]_vars

\* The hourly job is scheduled for ever and what runs goes on; devices keep reporting.
FairSpec ==
    /\ Spec
    /\ \A j \in Jobs : WF_vars(Step(j)) /\ (KindOf[j] = "hourly" => WF_vars(Start(j)))
    /\ \A p \in Processes : WF_vars(IntervalEnds(p))
    /\ \A t \in Tenants, d \in Devices : WF_vars(\E p \in Processes : Ingest(p, t, d))

----------------------------------------------------------------------------
(* Properties.                                                              *)

\* The catalogs anybody holds, a judged row and its copies included.
Held ==
    {titles} \cup {cache[p] : p \in Processes} \cup {entry[t] : t \in Tenants}
        \cup UNION {{copy[t][d] : d \in Devices} : t \in Tenants}

\* A signature names one catalog, and none is newer than the stored titles': the test every
\* reader makes before it keeps an answer (load_catalog, evaluated_signature).
SignatureNamesCatalog ==
    \A c, d \in Held \ {Nothing} : c.stamp <= titles.stamp /\ (c.stamp = d.stamp => c = d)

PatchingSound == TypeOK /\ SignatureNamesCatalog

\* Once Jamf stops publishing, the stored titles are Jamf's last and every tenant's rows
\* are judged by them: through skipped titles, two syncs that overlap and overwrite each
\* other, a tenant whose refresh fails, and a process that still holds an older catalog
\* (sync_catalog, refresh_tenant, record_device_apps).
AnswersConverge ==
    <>[](/\ titles.revision = published
         /\ \A t \in Tenants : entry[t] # Nothing => entry[t] = titles)

\* The index ends as one copy of the stored titles' rows, even after two presses of Sync
\* deleted and inserted around each other (rebuild_index; the route takes no lock).
IndexConverges ==
    <>[](\E j \in Jobs : index[j] = titles.revision /\ \A i \in Jobs \ {j} : index[i] = Nothing)

\* Every device's copy ends as the answer of its catalog row (docs/app-catalog.md: rows
\* judged against an older catalog are re-judged and their copies refreshed).
CopiesConverge ==
    <>[](\A t \in Tenants, d \in Devices : copy[t][d] # Nothing => copy[t][d].revision = entry[t].revision)
=============================================================================
