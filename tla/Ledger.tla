------------------------------- MODULE Ledger -------------------------------
(***************************************************************************)
(* Ingest of one Jamf connection: the observation ledger of                 *)
(* observations/ledger.py and the current-state tables of mdm/service.py,   *)
(* written together by sweeps, webhooks and one-device refreshes, and read  *)
(* by the re-emit of mdm/reemit.py.                                         *)
(*                                                                          *)
(* A read of Jamf and the transaction that ingests it are separate steps: a *)
(* page waits in a sweep's memory while webhooks write.  Inside the         *)
(* transaction the span is read under the device's advisory lock and        *)
(* everything else happens at the commit.  A device has two sections, one   *)
(* scalar (`general`) and one list (`applications`).  Alerts, findings, the *)
(* catalog and last_seen_at ride the same transaction and are left out.     *)
(***************************************************************************)
EXTENDS Naturals, Sequences, FiniteSets

CONSTANTS
    Devices,
    Sweeps, Webhooks, Refreshes, ReEmits, \* the frames, by what they are
    Aperture,  \* the sections each frame asks for
    Names,     \* values of the scalar section
    Apps,      \* builds an inventory may list
    FirstRecords, \* Jamf records a Mac may enrol with
    MaxClock,  \* bound: instants
    MaxVer,    \* bound: states of one Jamf record
    MaxRuns,   \* bound: runs of one frame other than a sweep
    Blank, Nobody, NoRow

Readers == Sweeps \cup Webhooks \cup Refreshes
Frames == Readers \cup ReEmits
Sections == {"general", "applications"}
Contents == [general: Names, applications: SUBSET Apps]
Undated == 0
Records == [date: {Undated} \cup 1..MaxClock, content: Contents, ver: 1..MaxVer]

ASSUME FramesAssumption ==
    /\ Sweeps \cap (Webhooks \cup Refreshes \cup ReEmits) = {}
    /\ Webhooks \cap (Refreshes \cup ReEmits) = {}
    /\ Refreshes \cap ReEmits = {}
    /\ Nobody \notin Frames
ASSUME ApertureAssumption == Aperture \in [Readers -> (SUBSET Sections) \ {{}}]
ASSUME ValuesAssumption == Blank \notin Names /\ NoRow \notin [name: Names \cup {Blank}, apps: SUBSET Apps]
ASSUME BoundsAssumption == {MaxClock, MaxVer, MaxRuns} \subseteq Nat \ {0}
ASSUME FirstRecordsAssumption == FirstRecords \subseteq [date: {Undated, 1}, content: Contents, ver: {1}]

VARIABLES
    clock,
    jamf,  \* the record Jamf holds: its reportDate, its content, its version
    spans, \* observation_spans of a subject, oldest first
    row,   \* the devices row with its installed_apps
    told,  \* the apps a consumer of device.inventory.changed has added up
    said,  \* device.inventory snapshots enqueued
    lock,  \* pg_advisory_xact_lock of a device
    at,    \* where a frame is
    page,  \* the records a frame has read and not yet ingested
    dev,   \* the device a frame works on
    seen,  \* the current span as the frame's SELECT returned it
    held,  \* what the frame's session loaded before it read Jamf
    left   \* runs the bound still allows

tables == <<spans, row, told, said>>
frame == <<at, page, dev, seen, held>>
vars == <<clock, jamf, tables, lock, frame, left>>

Views == Contents \cup [general: Names] \cup [applications: SUBSET Apps]
Rows == [name: Names \cup {Blank}, apps: SUBSET Apps] \cup {NoRow}
NoSpan == [index |-> 0]

TypeOK ==
    /\ clock \in 1..MaxClock
    /\ jamf \in [Devices -> Records]
    /\ \A d \in Devices : \A i \in DOMAIN spans[d] :
           /\ spans[d][i].sections \in Views
           /\ {spans[d][i].first, spans[d][i].last} \subseteq 1..MaxClock
    /\ row \in [Devices -> Rows]
    /\ told \in [Devices -> SUBSET Apps]
    /\ \A x \in said : x.device \in Devices /\ x.sections \in Views
    /\ at \in [Frames -> {"idle", "opened", "fetched", "writing", "composing"}]
    /\ \A f \in Frames : \A d \in DOMAIN page[f] : d \in Devices /\ page[f][d] \in Records
    /\ lock \in [Devices -> Readers \cup {Nobody}]
    /\ \A d \in Devices, f \in Readers : lock[d] = f <=> at[f] = "writing" /\ dev[f] = d
    /\ left \in [Frames -> 0..MaxRuns]

Init ==
    /\ clock = 1
    /\ jamf \in [Devices -> FirstRecords]
    /\ spans = [d \in Devices |-> <<>>]
    /\ row = [d \in Devices |-> NoRow]
    /\ told = [d \in Devices |-> {}]
    /\ said = {}
    /\ lock = [d \in Devices |-> Nobody]
    /\ at = [f \in Frames |-> "idle"]
    /\ page = [f \in Frames |-> <<>>]
    /\ dev = [f \in Frames |-> Nobody]
    /\ seen = [f \in Frames |-> NoSpan]
    /\ held = [f \in Frames |-> NoRow]
    /\ left = [f \in Frames |-> MaxRuns]

----------------------------------------------------------------------------
(* Jamf and the clock.                                                      *)

Tick ==
    /\ clock < MaxClock
    /\ clock' = clock + 1
    /\ UNCHANGED <<jamf, tables, lock, frame, left>>

\* A Mac submits inventory: new content under a new reportDate.
MacReports(d) ==
    /\ jamf[d].date < clock
    /\ jamf[d].ver < MaxVer
    /\ \E c \in Contents : jamf' = [jamf EXCEPT ![d] = [date |-> clock, content |-> c, ver |-> @.ver + 1]]
    /\ UNCHANGED <<clock, tables, lock, frame, left>>

\* Somebody edits the record in Jamf: the reportDate stays.
RecordEdited(d) ==
    /\ jamf[d].ver < MaxVer
    /\ \E n \in Names \ {jamf[d].content.general} :
           jamf' = [jamf EXCEPT ![d] = [date |-> @.date, ver |-> @.ver + 1,
                                        content |-> [general |-> n, applications |-> @.content.applications]]]
    /\ UNCHANGED <<clock, tables, lock, frame, left>>

----------------------------------------------------------------------------
(* Reading Jamf.                                                            *)

Spend(f) ==
    /\ left[f] > 0
    /\ left' = [left EXCEPT ![f] = @ - 1]

\* The refresh endpoint loads the Device row, which its session then keeps.
Open(f, d) ==
    /\ f \in Refreshes /\ at[f] = "idle" /\ row[d] # NoRow
    /\ Spend(f)
    /\ held' = [held EXCEPT ![f] = row[d]]
    /\ dev' = [dev EXCEPT ![f] = d]
    /\ at' = [at EXCEPT ![f] = "opened"]
    /\ UNCHANGED <<clock, jamf, tables, lock, page, seen>>

FetchPage(f) ==
    /\ f \in Sweeps /\ at[f] = "idle"
    /\ page' = [page EXCEPT ![f] = jamf]
    /\ at' = [at EXCEPT ![f] = "fetched"]
    /\ UNCHANGED <<clock, jamf, tables, lock, dev, seen, held, left>>

FetchOne(f, d) ==
    /\ page' = [page EXCEPT ![f] = [e \in {d} |-> jamf[e]]]
    /\ at' = [at EXCEPT ![f] = "fetched"]
    /\ UNCHANGED <<clock, jamf, tables, lock, dev, seen, held>>

\* A webhook names a Mac; refresh_device reads the one its request opened.
Notice(f, d) == f \in Webhooks /\ at[f] = "idle" /\ Spend(f) /\ FetchOne(f, d)
Refresh(f, d) == f \in Refreshes /\ at[f] = "opened" /\ dev[f] = d /\ UNCHANGED left /\ FetchOne(f, d)

----------------------------------------------------------------------------
(* One device's transaction.                                                *)

Observation(f, d) == [s \in Aperture[f] |-> page[f][d].content[s]]
ObservedAt(f, d) == IF page[f][d].date = Undated THEN clock ELSE page[f][d].date

CurrentSpan(d) ==
    LET open == {i \in DOMAIN spans[d] : spans[d][i].current}
    IN  IF open = {} THEN NoSpan
        ELSE LET i == CHOOSE i \in open : TRUE IN [index |-> i, span |-> spans[d][i]]

\* Mutant: the sweep trusts its page and takes no lock.
LockFree_Ignored(d) == TRUE

LockFree(d) == lock[d] = Nobody

\* lock_device, then current_span.
Lock(f, d) ==
    /\ at[f] = "fetched" /\ d \in DOMAIN page[f]
    /\ LockFree(d)
    /\ lock' = [lock EXCEPT ![d] = f]
    /\ dev' = [dev EXCEPT ![f] = d]
    /\ seen' = [seen EXCEPT ![f] = CurrentSpan(d)]
    /\ at' = [at EXCEPT ![f] = "writing"]
    /\ UNCHANGED <<clock, jamf, tables, page, held, left>>

\* The frame is done with d: on to the rest of its page, or out.
Leave(f, d) ==
    LET rest == [e \in DOMAIN page[f] \ {d} |-> page[f][e]] IN
    /\ page' = [page EXCEPT ![f] = rest]
    /\ at' = [at EXCEPT ![f] = IF rest = <<>> THEN "idle" ELSE "fetched"]
    /\ dev' = [dev EXCEPT ![f] = Nobody]
    /\ seen' = [seen EXCEPT ![f] = NoSpan]
    /\ held' = [held EXCEPT ![f] = NoRow]

Released(f) == [lock EXCEPT ![dev[f]] = Nobody]

\* The five seconds of lock_timeout run out: IngestBusy.
Busy(f, d) ==
    /\ at[f] = "fetched" /\ d \in DOMAIN page[f]
    /\ ~LockFree(d)
    /\ Leave(f, d)
    /\ UNCHANGED <<clock, jamf, tables, lock, left>>

\* Mutant: the guard also refuses the same reportDate.
IsStale_Equal(s, t) == s # NoSpan /\ t <= s.span.last
\* Mutant: the last write wins.
IsStale_Ignored(s, t) == FALSE

IsStale(s, t) == s # NoSpan /\ t < s.span.last

\* The monotonic guard refuses the read: neither layer is written.
IgnoreStale(f) ==
    /\ at[f] = "writing"
    /\ IsStale(seen[f], ObservedAt(f, dev[f]))
    /\ Leave(f, dev[f])
    /\ lock' = Released(f)
    /\ UNCHANGED <<clock, jamf, tables, left>>

SameHead(f, d) == seen[f] # NoSpan /\ seen[f].span.sections = Observation(f, d)

Counted(s, t) == IF t = s.last THEN s.count ELSE s.count + 1

NewSpan(f, d) ==
    LET t == ObservedAt(f, d) IN
    [sections |-> Observation(f, d), first |-> t, last |-> t, count |-> 1,
     dated |-> page[f][d].date # Undated, ver |-> page[f][d].ver, current |-> TRUE]

\* The span after a `repeat` or an `unchanged`, from the values the SELECT saw.
Extended(f, d) ==
    LET t == ObservedAt(f, d) IN
    [spans[d][seen[f].index] EXCEPT !.last = t, !.count = Counted(seen[f].span, t),
        !.dated = IF t = seen[f].span.last THEN @ ELSE page[f][d].date # Undated,
        !.ver = IF t = seen[f].span.last THEN @ ELSE page[f][d].ver]

\* record_observation.
SpansAfter(f, d) ==
    IF SameHead(f, d) THEN [spans[d] EXCEPT ![seen[f].index] = Extended(f, d)]
    ELSE Append([i \in DOMAIN spans[d] |-> IF i = seen[f].index THEN [spans[d][i] EXCEPT !.current = FALSE]
                                           ELSE spans[d][i]],
                NewSpan(f, d))

\* uq_observation_spans_current_subject.
IndexHolds(ss) == Cardinality({i \in DOMAIN ss : ss[i].current}) <= 1

\* Mutant: a section outside the aperture is written as if it had been read empty.
Read_Blanked(f, d, s, default, kept) == IF s \in Aperture[f] THEN Observation(f, d)[s] ELSE default

\* What a table shows of a section: the read if it covered it, else what was there.
Read(f, d, s, default, kept) == IF s \in Aperture[f] THEN Observation(f, d)[s] ELSE kept

\* The UPDATE names a column only when its value differs from the one the session loaded.
Assigned(f, d, value) ==
    IF f \in Refreshes /\ held[f].name = value /\ row[d] # NoRow THEN row[d].name ELSE value

RowAfter(f, d) ==
    LET was == IF row[d] = NoRow THEN [name |-> Blank, apps |-> {}] ELSE row[d] IN
    [name |-> IF "general" \in Aperture[f] THEN Assigned(f, d, Read(f, d, "general", Blank, was.name))
              ELSE Read(f, d, "general", Blank, was.name),
     apps |-> Read(f, d, "applications", {}, was.apps)]

Installed(d) == IF row[d] = NoRow THEN {} ELSE row[d].apps

\* Mutant: the snapshot reads the loaded collection, which still has the removed rows.
CurrentRows_Unpruned(f, d) == Installed(d) \cup RowAfter(f, d).apps

CurrentRows(f, d) == RowAfter(f, d).apps

\* The apps the delta's consumer holds after added_apps and removed_apps.
Replayed(f, d) ==
    LET added == RowAfter(f, d).apps \ Installed(d)
        removed == Installed(d) \ RowAfter(f, d).apps
    IN  (told[d] \ removed) \cup added

Snapshot(f, d) ==
    [device |-> d, pulled |-> TRUE,
     sections |-> [s \in Aperture[f] |-> IF s = "applications" THEN CurrentRows(f, d) ELSE Observation(f, d)[s]]]

\* record_observation and process_sync, and their one commit.
Record(f) ==
    LET d == dev[f] IN
    /\ at[f] = "writing"
    /\ ~IsStale(seen[f], ObservedAt(f, d))
    /\ IndexHolds(SpansAfter(f, d))
    /\ spans' = [spans EXCEPT ![d] = SpansAfter(f, d)]
    /\ row' = [row EXCEPT ![d] = RowAfter(f, d)]
    /\ told' = [told EXCEPT ![d] = Replayed(f, d)]
    /\ said' = said \cup {Snapshot(f, d)}
    /\ Leave(f, d)
    /\ lock' = Released(f)
    /\ UNCHANGED <<clock, jamf, left>>

\* Mutant: the delta is enqueued in a transaction of its own.
RolledBackTold_Kept(f) == [told EXCEPT ![dev[f]] = Replayed(f, dev[f])]

RolledBackTold(f) == told

\* Mutant: a lock held by the session, which a rollback does not give back.
RollBack_KeepsLock(f) ==
    /\ at[f] = "writing"
    /\ Leave(f, dev[f])
    /\ UNCHANGED <<clock, jamf, tables, lock, left>>

\* Any exception, a refused INSERT included: one device's work is undone.
RollBack(f) ==
    /\ at[f] = "writing"
    /\ told' = RolledBackTold(f)
    /\ Leave(f, dev[f])
    /\ lock' = Released(f)
    /\ UNCHANGED <<clock, jamf, spans, row, said, left>>

\* The process or the task ends: what was read and not ingested is gone.
Die(f) ==
    /\ at[f] # "idle"
    /\ page' = [page EXCEPT ![f] = <<>>]
    /\ at' = [at EXCEPT ![f] = "idle"]
    /\ dev' = [dev EXCEPT ![f] = Nobody]
    /\ seen' = [seen EXCEPT ![f] = NoSpan]
    /\ held' = [held EXCEPT ![f] = NoRow]
    /\ lock' = [d \in Devices |-> IF lock[d] = f THEN Nobody ELSE lock[d]]
    /\ UNCHANGED <<clock, jamf, tables, left>>

----------------------------------------------------------------------------
(* The re-emit: one device, two SELECTs.                                    *)

Compose(f, d) ==
    /\ f \in ReEmits /\ at[f] = "idle"
    /\ CurrentSpan(d) # NoSpan
    /\ Spend(f)
    /\ held' = [held EXCEPT ![f] = CurrentSpan(d).span.sections]
    /\ dev' = [dev EXCEPT ![f] = d]
    /\ at' = [at EXCEPT ![f] = "composing"]
    /\ UNCHANGED <<clock, jamf, tables, lock, page, seen>>

Emit(f) ==
    /\ at[f] = "composing"
    /\ said' = said \cup {[device |-> dev[f], pulled |-> FALSE,
                           sections |-> [s \in DOMAIN held[f] |->
                               IF s = "applications" THEN Installed(dev[f]) ELSE held[f][s]]]}
    /\ Leave(f, dev[f])
    /\ UNCHANGED <<clock, jamf, spans, row, told, lock, left>>

----------------------------------------------------------------------------
World == Tick \/ \E d \in Devices : MacReports(d) \/ RecordEdited(d)

Settle(f) == IgnoreStale(f) \/ Record(f)

Step(f) ==
    \/ FetchPage(f)
    \/ \E d \in Devices :
           Open(f, d) \/ Notice(f, d) \/ Refresh(f, d) \/ Lock(f, d) \/ Busy(f, d) \/ Compose(f, d)
    \/ Settle(f)
    \/ RollBack(f)
    \/ Emit(f)

Next == World \/ \E f \in Frames : Step(f) \/ Die(f)

Spec == Init /\ [][Next]_vars

\* A sweep goes on reading and taking locks, and not every ingest of it fails.
SweepFairness(f) ==
    /\ WF_vars(FetchPage(f))
    /\ SF_vars(\E d \in Devices : Lock(f, d))
    /\ SF_vars(Settle(f))

\* A transaction of anybody ends.
EndFairness(f) == WF_vars(Settle(f) \/ RollBack(f))

LiveSpec ==
    /\ Spec
    /\ \A f \in Sweeps : SweepFairness(f)
    /\ \A f \in Readers : EndFairness(f)

----------------------------------------------------------------------------
(* Properties.                                                              *)

\* The spans of a device are one chain: only the newest is current, neighbours
\* differ, device time never goes back from one to the next, and a span counts
\* no more observations than it has instants (observations/ledger.py).
SpansAreAChain ==
    \A d \in Devices : LET ss == spans[d] IN
    /\ \A i \in DOMAIN ss :
           /\ ss[i].current <=> i = Len(ss)
           /\ ss[i].first <= ss[i].last
           /\ ss[i].count <= ss[i].last - ss[i].first + 1
    /\ \A i \in 1..(Len(ss) - 1) :
           /\ ss[i].sections # ss[i + 1].sections
           /\ ss[i].last <= ss[i + 1].first

\* A closed span is history: no later ingest, however late its read, changes it.
ClosedSpansFrozen ==
    [][\A d \in Devices : \A i \in DOMAIN spans[d] :
           ~spans[d][i].current => i \in DOMAIN spans'[d] /\ spans'[d][i] = spans[d][i]]_vars

\* The device time the ledger has reached for a Mac never goes back, whichever of
\* two concurrent ingests commits first: the guard of docs/ingest-scheduling.md 4.4.
ObservedTimeForward ==
    [][\A d \in Devices : spans[d] # <<>> =>
           spans'[d] # <<>> /\ spans'[d][Len(spans'[d])].last >= spans[d][Len(spans[d])].last]_vars

Agrees(r, view) ==
    /\ "general" \in DOMAIN view => r.name = view.general
    /\ "applications" \in DOMAIN view => r.apps = view.applications

\* A refresh that is about to write over a row changed since it loaded it.
Overtaken(d) == lock[d] \in Refreshes /\ held[lock[d]] # row[d]

\* The two layers move together: a commit that writes either writes the same
\* values to both, and touches no table of a section its read did not cover
\* (the refresh of a row that changed under it excepted, see LayersAgree).
LayersMoveTogether ==
    [][\A d \in Devices : <<spans'[d], row'[d]>> # <<spans[d], row[d]>> =>
           LET view == spans'[d][Len(spans'[d])].sections IN
           /\ Agrees(row'[d], view) \/ Overtaken(d)
           /\ row[d] # NoRow =>
                  /\ "general" \notin DOMAIN view => row'[d].name = row[d].name
                  /\ "applications" \notin DOMAIN view => row'[d].apps = row[d].apps]_vars

\* ingest_computer: "so the two layers can never disagree about what was seen".
\* Violated: a refresh leaves a column it believes unchanged out of its UPDATE.
LayersAgree ==
    \A d \in Devices : spans[d] # <<>> => row[d] # NoRow /\ Agrees(row[d], spans[d][Len(spans[d])].sections)

\* A consumer that adds up the deltas has exactly the apps the tables show: no
\* event of a rolled back ingest escapes and no change goes unannounced.
DeltasReplay == \A d \in Devices : told[d] = Installed(d)

Recorded(x) == \E i \in DOMAIN spans[x.device] : spans[x.device][i].sections = x.sections

\* Every snapshot an ingest puts on the wire shows one state the ledger recorded,
\* however many ingests of the Mac are under way.
SnapshotIsASpan == \A x \in said : x.pulled => Recorded(x)

\* reemit.py: a re-emit sends "the ledger's current state".  Violated: it reads the
\* span and the apps in two statements, and an ingest commits in between.
ReEmitIsASpan == \A x \in said : ~x.pulled => Recorded(x)

\* ledger.py: "a sweep that read a device before a webhook wrote it cannot roll the
\* record back afterwards".  Violated: the same reportDate passes the guard.
NeverRolledBack ==
    [][\A d \in Devices : spans[d] # <<>> =>
           spans'[d][Len(spans'[d])].ver >= spans[d][Len(spans[d])].ver]_vars

\* ledger.py: "The monotonic guard compares device time, which is why the two are
\* never conflated".  Violated: a read without a reportDate leaves our clock there.
StaleOnlyByDeviceTime ==
    \A f \in Readers :
        at[f] = "writing" /\ IsStale(seen[f], ObservedAt(f, dev[f])) => seen[f].span.dated

\* Once Jamf stands still the sweeps bring every Mac's tables to what Jamf holds,
\* whatever was dropped, rolled back or overtaken before, if all its reads were dated.
CatchesUp ==
    <>[](\A d \in Devices : (\A i \in DOMAIN spans[d] : spans[d][i].dated) =>
             row[d] = [name |-> jamf[d].content.general, apps |-> jamf[d].content.applications])

\* The ledger at every instant: one chain of spans per Mac, and a wire whose deltas
\* add up to the tables and whose snapshots are all on record.
LedgerSound == TypeOK /\ SpansAreAChain /\ DeltasReplay /\ SnapshotIsASpan

\* The ledger from one instant to the next: both layers move or neither, what is
\* closed stays and device time goes forward.
LedgerMoves == LayersMoveTogether /\ ClosedSpansFrozen /\ ObservedTimeForward

=============================================================================
