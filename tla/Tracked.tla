------------------------------ MODULE Tracked ------------------------------
(***************************************************************************)
(* What is tracked of one Mac between two reads: its finding ledger         *)
(* (core/findings.py) and its NEW-app latches (alerts/service.py), both      *)
(* moved by a read that brings the applications (mdm/service.process_sync)  *)
(* and both closed by a census once the Mac has left the fleet              *)
(* (mdm/census.py).                                                         *)
(*                                                                          *)
(* The reads of one Mac exclude one another (module Ledger); a census and a *)
(* purge do not exclude them.  A read leaves every copy of an answer under  *)
(* the release in force (module Corpus), so the answer of a build is that   *)
(* release's row.  The departure itself belongs to module Departures: here  *)
(* it is an open row that ages.                                             *)
(***************************************************************************)
EXTENDS Naturals, FiniteSets

CONSTANTS
    Builds, AppOf,  \* builds, and the title of each
    Ids,            \* finding ids
    Releases,
    Listed,         \* what a release holds of a build: [ids, cut], for the builds it covers
    Selections,     \* the values vuln_tenant_selection may have been started with
    TailTime,           \* DEPARTURE_TAIL
    MaxTime,        \* bound: instants
    MaxEdits,       \* bound: changes of the Mac, of its Jamf record and of the release
    NoRelease, NoRow, NoPass

Apps == {AppOf[b] : b \in Builds}
Keys == Apps \X Ids

TrackedAssumption ==
    /\ DOMAIN Listed = Releases
    /\ \A r \in Releases :
           /\ DOMAIN Listed[r] \subseteq Builds
           /\ \A b \in DOMAIN Listed[r] :
                  Listed[r][b].ids \subseteq Ids /\ Listed[r][b].cut \in BOOLEAN
    /\ Selections \subseteq BOOLEAN /\ NoRelease \notin Releases
    /\ {TailTime, MaxTime, MaxEdits} \subseteq Nat
    /\ NoRow \notin [builds: SUBSET Builds, checked: BOOLEAN]

VARIABLES
    selection, \* vuln_tenant_selection, fixed while the box runs
    now, edits,
    mac,       \* the Mac: whether Jamf holds a record of it, and its builds
    release,   \* the release answers come from, NoRelease when the tier is off
    row,       \* the device row: the builds of the last read, and the first-check marker
    history,   \* the instant of the earliest span the ledger holds of the Mac
    pass,      \* an open read: what Jamf answered, and the findings as it found them
    findings,  \* device_findings
    latches,   \* the last alert row of each app
    departed   \* the instant of the Mac's open departure row, or NoRow

world == <<selection, now, edits, mac, release>>
vars == <<world, row, history, pass, findings, latches, departed>>

Instants == 0..MaxTime
Reasons == {"none", "app_removed", "build_changed", "corpus_withdrawn", "device_departed"}
Findings == [open: BOOLEAN, build: Builds, capped: BOOLEAN, first: Instants,
             basis: {"observed", "backfill"}, reason: Reasons]
Latches == [open: BOOLEAN, reason: {"none", "app_gone", "device_departed"}]

TypeOK ==
    /\ mac \in [present: BOOLEAN, builds: SUBSET Builds]
    /\ release \in Releases \cup {NoRelease}
    /\ row # NoRow => row \in [builds: SUBSET Builds, checked: BOOLEAN]
    /\ DOMAIN findings \subseteq Keys /\ \A k \in DOMAIN findings : findings[k] \in Findings
    /\ DOMAIN latches \subseteq Apps /\ \A a \in DOMAIN latches : latches[a] \in Latches
    /\ departed \in Instants \cup {NoRow}

\* A box that never saw the Mac, or one upgraded from a version without the ledger.
Init ==
    /\ selection \in Selections
    /\ now = 0 /\ edits = 0
    /\ mac \in [present: {TRUE}, builds: SUBSET Builds]
    /\ release \in Releases \cup {NoRelease}
    /\ row \in {NoRow} \cup [builds: SUBSET Builds, checked: {FALSE}]
    /\ history = 0
    /\ pass = NoPass
    /\ findings = <<>> /\ latches = <<>>
    /\ departed = NoRow

----------------------------------------------------------------------------
(* What the release in force says of a set of builds.                       *)

Covered(b) == release # NoRelease /\ b \in DOMAIN Listed[release]
IdsOf(b) == IF Covered(b) THEN Listed[release][b].ids ELSE {}
Carriers(k, builds) == {b \in builds : AppOf[b] = k[1] /\ k[2] \in IdsOf(b)}
detected(builds) == {k \in Keys : Carriers(k, builds) # {}}

\* One row for a title that two builds carry: the build of the lowest key.
Lowest(S) == CHOOSE b \in S : TRUE
BuildOf(k, builds) == Lowest(Carriers(k, builds))
Capped(k, builds) == \E b \in Carriers(k, builds) : Listed[release][b].cut

\* Under tenant selection only a whole list of the selected release proves a withdrawal.
Proves(b) == Covered(b) /\ ~Listed[release][b].cut

----------------------------------------------------------------------------
(* The finding ledger.                                                      *)

Checked == row # NoRow /\ row.checked

\* backfill_clocks: the first check of a Mac that is not new dates its findings by the
\* arrivals in the change log, and else by the earliest span.
Arrival(k, logged, builds, isNew) ==
    IF Checked \/ isNew \/ BuildOf(k, builds) \in logged THEN now ELSE history

Basis(isNew) == IF Checked \/ isNew THEN "observed" ELSE "backfill"

Opened(k, logged, builds, isNew) ==
    [open |-> TRUE, build |-> BuildOf(k, builds), capped |-> Capped(k, builds),
     first |-> Arrival(k, logged, builds, isNew), basis |-> Basis(isNew), reason |-> "none"]

\* A bug: the upsert also sets the clock.
Upserted_NewClock(old, new) == new

\* What the upsert leaves of a row that is there: it opens again on its own clock.
Upserted(old, new) == [new EXCEPT !.first = old.first, !.basis = old.basis]

\* A bug: a list once cut keeps its findings open whatever became of the build.
Reason_CappedFirst(k, f, builds) ==
    LET carried == {b \in builds : AppOf[b] = k[1]} IN
    IF f.capped THEN "none"
    ELSE IF carried = {} THEN "app_removed"
    ELSE IF f.build \notin carried THEN "build_changed" ELSE "corpus_withdrawn"

\* The reason a read closes a finding it no longer detects, "none" when it stays open.
Reason(k, f, builds) ==
    LET carried == {b \in builds : AppOf[b] = k[1]} IN
    CASE carried = {} -> "app_removed"
      [] carried # {} /\ f.build \notin carried -> "build_changed"
      [] f.build \in carried /\ f.capped -> "none"
      [] f.build \in carried /\ ~f.capped ->
             IF selection /\ ~Proves(f.build) THEN "none" ELSE "corpus_withdrawn"

\* A bug: a resolved row is taken for one that is level.
Moved_NoReopen(held, builds) ==
    {k \in detected(builds) :
        \/ k \notin DOMAIN held
        \/ held[k].build # BuildOf(k, builds) \/ held[k].capped # Capped(k, builds)}

\* The rows this read rewrites, judged by the rows it read at its start.
Moved(held, builds) ==
    {k \in detected(builds) :
        \/ k \notin DOMAIN held
        \/ ~held[k].open
        \/ held[k].build # BuildOf(k, builds) \/ held[k].capped # Capped(k, builds)}

Closing(held, builds) ==
    {k \in DOMAIN held \ detected(builds) : held[k].open /\ Reason(k, held[k], builds) # "none"}

Reconciled(held, logged, builds, isNew) ==
    [k \in DOMAIN findings \cup Moved(held, builds) |->
        IF k \in Moved(held, builds) THEN
            LET new == Opened(k, logged, builds, isNew) IN
            IF k \in DOMAIN findings THEN Upserted(findings[k], new) ELSE new
        ELSE IF k \in Closing(held, builds) THEN
            [findings[k] EXCEPT !.open = FALSE, !.reason = Reason(k, held[k], builds)]
        ELSE findings[k]]

----------------------------------------------------------------------------
(* The latches.                                                             *)

AppsOf(builds) == {AppOf[b] : b \in builds}

latch_delta(previous, builds, isNew) ==
    [open |-> IF isNew \/ previous = {} THEN {} ELSE AppsOf(builds) \ AppsOf(previous),
     gone |-> AppsOf(previous) \ AppsOf(builds)]

Latched(delta) ==
    [a \in DOMAIN latches \cup delta.open |->
        IF a \in delta.gone /\ a \in DOMAIN latches /\ latches[a].open THEN
            [open |-> FALSE, reason |-> "app_gone"]
        ELSE IF a \in delta.open THEN [open |-> TRUE, reason |-> "none"]
        ELSE latches[a]]

----------------------------------------------------------------------------
(* Reads.                                                                   *)

ReadBegins ==
    /\ pass = NoPass /\ mac.present
    /\ pass' = [builds |-> mac.builds, held |-> findings]
    /\ UNCHANGED <<world, row, history, findings, latches, departed>>

\* The change policy may keep the arrival of a build out of the change log.
ReadCommits ==
    /\ pass # NoPass
    /\ LET isNew == row = NoRow
           previous == IF isNew THEN {} ELSE row.builds
       IN \E logged \in SUBSET (pass.builds \ previous) :
              /\ findings' = Reconciled(pass.held, logged, pass.builds, isNew)
              /\ latches' = Latched(latch_delta(previous, pass.builds, isNew))
              /\ row' = [builds |-> pass.builds, checked |-> TRUE]
    /\ history' = 0 \* never read again: the Mac is checked
    /\ pass' = NoPass
    /\ UNCHANGED <<world, departed>>

\* A read outside the applications aperture makes the row and nothing else.
ScopedRead ==
    /\ pass = NoPass /\ mac.present /\ row = NoRow
    /\ row' = [builds |-> {}, checked |-> FALSE]
    /\ history' = now
    /\ UNCHANGED <<world, pass, findings, latches, departed>>

ReadFails ==
    /\ pass # NoPass
    /\ pass' = NoPass
    /\ UNCHANGED <<world, row, history, findings, latches, departed>>

----------------------------------------------------------------------------
(* The census at the end of a sweep.                                        *)

GoneForGood == departed # NoRow /\ departed + TailTime <= now

\* close_departed_device_latches.
CloseLatches(gone) ==
    latches' = [a \in DOMAIN latches |->
        IF gone /\ latches[a].open THEN [open |-> FALSE, reason |-> "device_departed"] ELSE latches[a]]

\* close_departed_device_findings, and the latches with them.
CloseDeparted(gone) ==
    /\ findings' = [k \in DOMAIN findings |->
           IF gone /\ findings[k].open
           THEN [findings[k] EXCEPT !.open = FALSE, !.reason = "device_departed"] ELSE findings[k]]
    /\ CloseLatches(gone)

\* A clean sweep named the Mac or did not; the departure row follows, then the closes.
CleanCensus ==
    /\ row # NoRow
    /\ departed' = IF mac.present THEN NoRow ELSE IF departed = NoRow THEN now ELSE departed
    /\ CloseDeparted(~mac.present /\ GoneForGood)
    /\ UNCHANGED <<world, row, history, pass>>

\* A scoped or torn sweep judges nobody, and closes what an earlier one departed.
TornCensus ==
    /\ GoneForGood
    /\ CloseDeparted(TRUE)
    /\ UNCHANGED <<world, row, history, pass, departed>>

\* purge_closed_alerts: thirty days on, so the instant is left open.
Purge(a) ==
    /\ a \in DOMAIN latches /\ ~latches[a].open
    /\ latches' = [x \in DOMAIN latches \ {a} |-> latches[x]]
    /\ UNCHANGED <<world, row, history, pass, findings, departed>>

----------------------------------------------------------------------------
(* The Mac, Jamf, the exchange and the clock.                               *)

Edit ==
    /\ edits < MaxEdits
    /\ edits' = edits + 1
    /\ UNCHANGED <<selection, now, row, history, pass, findings, latches, departed>>

ChangeApps(builds) == builds # mac.builds /\ mac' = [mac EXCEPT !.builds = builds] /\ Edit /\ UNCHANGED release
LeaveOrReturn == mac' = [mac EXCEPT !.present = ~@] /\ Edit /\ UNCHANGED release
MoveRelease(r) == r # release /\ release' = r /\ Edit /\ UNCHANGED mac

Tick ==
    /\ now < MaxTime
    /\ now' = now + 1
    /\ UNCHANGED <<selection, edits, mac, release, row, history, pass, findings, latches, departed>>

Next ==
    \/ ReadBegins \/ ReadCommits \/ ScopedRead \/ ReadFails
    \/ CleanCensus \/ TornCensus
    \/ \E a \in Apps : Purge(a)
    \/ \E builds \in SUBSET Builds : ChangeApps(builds)
    \/ LeaveOrReturn
    \/ \E r \in Releases \cup {NoRelease} : MoveRelease(r)
    \/ Tick

Spec == Init /\ [][Next]_vars

\* Collections run on their schedule, some sweep of a connection is a clean one, and a
\* read that fails is followed by others; the clock moves.
FairSpec ==
    /\ Spec
    /\ WF_vars(Tick)
    /\ WF_vars(ReadBegins)
    /\ SF_vars(ReadCommits)
    /\ WF_vars(CleanCensus)

----------------------------------------------------------------------------
(* Properties.                                                              *)

Opens(k) == k \in DOMAIN findings' /\ findings'[k].open /\ (k \in DOMAIN findings => ~findings[k].open)
Closes(k) == k \in DOMAIN findings /\ findings[k].open /\ ~findings'[k].open

\* What is open is on the Mac as it was last read: an open finding's build and an open
\* latch's app are among the device's rows, whatever read, census or purge came between
\* (findings.reconcile_device_findings, alerts.sync_new_app_latches).
OpenIsCarried ==
    /\ \A k \in DOMAIN findings : findings[k].open => row # NoRow /\ findings[k].build \in row.builds
    /\ \A a \in DOMAIN latches : latches[a].open => row # NoRow /\ a \in AppsOf(row.builds)

TrackedSound == TypeOK /\ OpenIsCarried

\* A finding keeps the instant and the basis of its first sighting through every close,
\* reopening, change of build and departure (the upsert of reconcile_device_findings).
FirstSightingStays ==
    [][\A k \in DOMAIN findings :
          k \in DOMAIN findings' /\ findings'[k].first = findings[k].first
                                 /\ findings'[k].basis = findings[k].basis]_vars

\* What a closed finding says of its close.
ReasonHolds(k) ==
    CASE findings'[k].reason = "app_removed" -> k[1] \notin AppsOf(row'.builds)
      [] findings'[k].reason = "build_changed" -> findings[k].build \notin row'.builds
      [] findings'[k].reason = "device_departed" -> GoneForGood
      [] findings'[k].reason = "corpus_withdrawn" ->
             selection => LET b == findings[k].build IN
                          /\ release # NoRelease /\ b \in DOMAIN Listed[release]
                          /\ ~Listed[release][b].cut /\ k[2] \notin Listed[release][b].ids

\* A close says what happened: the app is off the Mac, the build is, the Mac's tail ran
\* out, or, under tenant selection, the release in force holds a whole list without the
\* id.  While the tier is off or the release does not cover the build nothing is withdrawn.
CloseIsTrue == [][\A k \in DOMAIN findings : Closes(k) => ReasonHolds(k)]_vars

\* The two together: no step moves a finding's clock or closes it on a false reason.
ClosesAreTrue == FirstSightingStays /\ CloseIsTrue

\* A latch opens exactly when a Mac that showed apps before shows one it had not, and
\* never for another build of an app it had (alerts.latch_delta).
LatchIsAnArrival ==
    [][\A a \in DOMAIN latches' :
          latches'[a].open /\ (a \in DOMAIN latches => ~latches[a].open) <=>
          /\ latches'[a].open
          /\ row # NoRow /\ row.builds # {}
          /\ a \in AppsOf(row'.builds) \ AppsOf(row.builds)]_vars

\* In the end every finding the release lists for a Mac that is there is open, a Mac that
\* left and came back included, and none is once its tail ran out (reopening in
\* reconcile_device_findings, close_departed_device_findings).
FindingsConverge ==
    <>[](/\ mac.present => \A k \in detected(mac.builds) : k \in DOMAIN findings /\ findings[k].open
         /\ ~mac.present /\ GoneForGood => \A k \in DOMAIN findings : ~findings[k].open)

\* A latch closed for a departure was the latch of a Mac Jamf no longer holds
\* (docs/alerts.md: the Mac left the fleet at the end of its seven-day tail).
DepartedLatchLeft ==
    [][\A a \in DOMAIN latches :
          latches[a].open /\ a \in DOMAIN latches' =>
              (latches'[a].reason = "device_departed" => ~mac.present)]_vars
=============================================================================
