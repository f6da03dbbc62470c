------------------------------ MODULE Departures -----------------------------
(***************************************************************************)
(* The device census: a sweep pages through the computers of one Jamf       *)
(* connection and closes by judging which known Macs are gone               *)
(* (JamfClient.iter_computers, mdm/census.py, observations/departure.py,    *)
(* observations/departure_events.py).                                       *)
(*                                                                          *)
(* The tenant is edited while the pages are read, webhooks record Macs no   *)
(* page has named, and a departure's tail runs on the wall clock.  Time is  *)
(* counted in half days, so that a tail's length and its UTC days differ.   *)
(* One sweep of a connection runs at a time (module Runs).  A row closed by *)
(* a plain return is never read again and leaves the model; latches and     *)
(* findings closed beside the terminal are left out.                        *)
(***************************************************************************)
EXTENDS Queues

CONSTANTS
    Macs,          \* machines, each one pair of serial number and UDID
    FirstMacs,     \* bound: the machines of the records Jamf may hold at first, in id order
    MaxId,         \* bound: records Jamf ever creates
    MaxEdits,      \* bound: records created, deleted and handed back
    MaxMishaps,    \* bound: short reads, failed devices and abandoned sweeps
    PageSize, Width,
    TailDays,      \* DEPARTURE_TAIL_DAYS
    MinPopulation  \* MIN_POPULATION_FOR_COLLAPSE

Ids == 1..MaxId

ASSUME PagesAssumption == {PageSize, Width} \subseteq Nat \ {0}
ASSUME TailAssumption == {TailDays, MinPopulation} \subseteq Nat \ {0}
ASSUME BoundsAssumption ==
    /\ {MaxId, MaxEdits, MaxMishaps} \subseteq Nat /\ Macs # {}
    /\ \A s \in FirstMacs : s \in Seq(Macs) /\ Len(s) <= MaxId

VARIABLES
    phase,   \* 0 or 1: the half of the UTC day
    jamf,    \* the computer records Jamf holds, and the machine of each
    nextId,
    known,   \* subjects with a current span, and the machine it names
    rows,    \* subject_departures, still gone under their id
    sweep,   \* the running device sweep
    wire,    \* what a consumer of the departure events holds of an id
    edits, mishaps

vars == <<phase, jamf, nextId, known, rows, sweep, wire, edits, mishaps>>

Records == UNION {[S -> Macs] : S \in SUBSET Ids}
Expiry == 2 * TailDays
Idle == [at |-> "idle"]

GoneIds(rs) == {rs[i].gone : i \in DOMAIN rs}

Rows == [gone: Ids, back: {"no", "serial"}, phase: {0, 1}, age: 0..Expiry,
         notice: 0..TailDays, removed: BOOLEAN]

Sweeps == [at: {"paging", "closing"}, scoped: BOOLEAN, selected: SUBSET Macs, lineage: BOOLEAN,
           failed: BOOLEAN, pages: SUBSET Nat, next: Nat, total: Nat, short: BOOLEAN,
           named: Records, batch: Records, shrunk: BOOLEAN, lossy: BOOLEAN,
           from: 1..(MaxId + 1), fresh: SUBSET Ids]

TypeOK ==
    /\ phase \in {0, 1}
    /\ jamf \in Records /\ known \in Records
    /\ nextId \in 1..(MaxId + 1)
    /\ DOMAIN jamf \cup DOMAIN known \subseteq 1..(nextId - 1)
    /\ rows \in Seq(Rows) /\ GoneIds(rows) \subseteq DOMAIN known
    /\ sweep = Idle \/ sweep \in Sweeps
    /\ wire \in [Ids -> {"here", "departed", "moved", "removed"}]
    /\ edits \in 0..MaxEdits /\ mishaps \in 0..MaxMishaps

Init ==
    /\ phase = 0
    /\ jamf \in FirstMacs
    /\ nextId = Len(jamf) + 1
    /\ known = <<>>
    /\ rows = <<>>
    /\ sweep = Idle
    /\ wire = [i \in Ids |-> "here"]
    /\ edits = 0
    /\ mishaps = 0

----------------------------------------------------------------------------
(* Time and Jamf.                                                           *)

\* The entries of f, laid over those of g.
Over(f, g) == [i \in DOMAIN f \cup DOMAIN g |-> IF i \in DOMAIN f THEN f[i] ELSE g[i]]
One(i, m) == [j \in {i} |-> m]

\* Past the tail neither the age nor the day of departure matters any more.
Aged(r) ==
    IF r.age + 1 >= Expiry THEN [r EXCEPT !.age = Expiry, !.phase = 0] ELSE [r EXCEPT !.age = @ + 1]

Tick ==
    /\ phase' = 1 - phase
    /\ rows' = [i \in DOMAIN rows |-> Aged(rows[i])]
    /\ UNCHANGED <<jamf, nextId, known, sweep, wire, edits, mishaps>>

Edit ==
    /\ edits < MaxEdits
    /\ edits' = edits + 1
    /\ UNCHANGED <<phase, known, rows, wire, mishaps>>

\* A Mac enrols, or enrols again beside or after its old record.
Enrol(m) ==
    /\ nextId <= MaxId
    /\ jamf' = Over(One(nextId, m), jamf)
    /\ nextId' = nextId + 1
    /\ Edit
    /\ UNCHANGED sweep

Delete(i) ==
    /\ i \in DOMAIN jamf
    /\ jamf' = [j \in DOMAIN jamf \ {i} |-> jamf[j]]
    /\ sweep' = IF sweep = Idle THEN sweep ELSE [sweep EXCEPT !.shrunk = TRUE]
    /\ Edit
    /\ UNCHANGED nextId

\* Jamf hands an old id back, with the machine the ledger knew under it.
HandBack(i) ==
    /\ i \in DOMAIN known \ DOMAIN jamf
    /\ jamf' = Over(One(i, known[i]), jamf)
    /\ sweep' = IF sweep = Idle THEN sweep ELSE [sweep EXCEPT !.fresh = @ \cup {i}]
    /\ Edit
    /\ UNCHANGED nextId

\* A webhook reads one record and ingests it: the Mac has a span from now on.
Webhook(i) ==
    /\ i \in DOMAIN jamf \ DOMAIN known
    /\ known' = Over(One(i, jamf[i]), known)
    /\ UNCHANGED <<phase, jamf, nextId, rows, sweep, wire, edits, mishaps>>

----------------------------------------------------------------------------
(* The sweep reads its pages.                                               *)

Begin(scoped, selected, lineage) ==
    /\ sweep = Idle
    /\ sweep' = [at |-> "paging", scoped |-> scoped, selected |-> selected, lineage |-> lineage,
                 failed |-> FALSE, pages |-> {0}, next |-> 1, total |-> 0, short |-> FALSE,
                 named |-> <<>>, batch |-> <<>>, shrunk |-> FALSE, lossy |-> FALSE, from |-> nextId, fresh |-> {}]
    /\ UNCHANGED <<phase, jamf, nextId, known, rows, wire, edits, mishaps>>

\* A collection with a selector that some Mac may match, or one without: the census,
\* with the hardware section or not.
BeginScoped == \E S \in SUBSET Macs \ {{}} : Begin(TRUE, S, FALSE)
BeginCensus == \E lineage \in BOOLEAN : Begin(FALSE, Macs, lineage)

Selected == {i \in DOMAIN jamf : jamf[i] \in sweep.selected}

\* Page p of the records Jamf holds now, sorted by id.
Page(p) ==
    {i \in Selected : LET before == Cardinality({j \in Selected : j < i})
                      IN  p * PageSize <= before /\ before < (p + 1) * PageSize}

KnownPages(total) == IF total = 0 THEN 1 ELSE (total + PageSize - 1) \div PageSize

\* Another page to ask for: the known ones, then serially until a short one.
More(s) == s.next < KnownPages(s.total) \/ ~s.short

\* The pages asked for together once the last ones are in.
Wave(s) ==
    LET end == IF s.next >= KnownPages(s.total) THEN s.next + 1
               ELSE IF s.next + Width <= KnownPages(s.total) THEN s.next + Width
               ELSE KnownPages(s.total)
    IN  s.next..(end - 1)

Answered(s, p, results) ==
    [s EXCEPT !.batch = [i \in DOMAIN @ \cup results |-> IF i \in results THEN jamf[i] ELSE @[i]],
              !.pages = @ \ {p},
              !.short = @ \/ Cardinality(results) < PageSize,
              !.total = IF p = 0 THEN Cardinality(Selected) ELSE @]

\* The wave is in: its records are yielded, and the next wave is asked for.  The
\* first page is the whole answer when it is short.
Yielded(s) ==
    LET t == [s EXCEPT !.named = Over(s.batch, @), !.batch = <<>>] IN
    IF More(s) /\ ~(s.next = 1 /\ s.short)
    THEN [t EXCEPT !.pages = Wave(s), !.next = @ + Cardinality(Wave(s))]
    ELSE [t EXCEPT !.at = "closing", !.pages = {}, !.next = 0, !.total = 0]

Mishap ==
    /\ mishaps < MaxMishaps
    /\ mishaps' = mishaps + 1

\* Each yielded record is ingested before the next; a device that fails keeps the
\* span it had, or none.
Receive(s, failed) ==
    /\ failed \subseteq DOMAIN s.batch
    /\ IF s.pages # {} THEN failed = {} /\ sweep' = s /\ UNCHANGED known
       ELSE /\ known' = Over([i \in DOMAIN s.batch \ failed |-> s.batch[i]], known)
            /\ sweep' = Yielded([s EXCEPT !.failed = @ \/ failed # {}])
    /\ UNCHANGED <<phase, jamf, nextId, rows, wire, edits>>

Asked(p) == sweep.at = "paging" /\ p \in sweep.pages

FetchPage(p) ==
    /\ Asked(p)
    /\ \E s \in {Answered(sweep, p, Page(p))} : Receive(s, {})
    /\ UNCHANGED mishaps

DevicesFail(p) ==
    /\ Asked(p)
    /\ Mishap
    /\ \E failed \in SUBSET Ids \ {{}} : Receive(Answered(sweep, p, Page(p)), failed)

\* A lost privilege or a degraded instance: Jamf leaves records out.
FetchShort(p) ==
    /\ Asked(p)
    /\ Mishap
    /\ \E results \in SUBSET Page(p) \ {Page(p)} :
           Receive([Answered(sweep, p, results) EXCEPT !.lossy = TRUE], {})

\* The sweep fails, is reclaimed, or its process dies: it judges nobody.
Abandon ==
    /\ sweep # Idle
    /\ Mishap
    /\ sweep' = Idle
    /\ UNCHANGED <<phase, jamf, nextId, known, rows, wire, edits>>

----------------------------------------------------------------------------
(* The sweep closes: reconcile_census, then what the tail owes the wire, in *)
(* one transaction.                                                         *)

Named == DOMAIN sweep.named

\* Mutant: a retired id stays in the population.
Population_WithRetired == DOMAIN known \ {rows[i].gone : i \in {k \in DOMAIN rows : rows[k].back = "no"}}

Population == DOMAIN known \ GoneIds(rows)

\* Mutant: a sweep with a selector is taken for a census.
Clean_Scoped == ~sweep.failed

Clean == ~sweep.scoped /\ ~sweep.failed

\* Did this census carry the machine under some id, and did it read hardware keys?
Carries(m) == sweep.lineage /\ \E i \in Named : sweep.named[i] = m

\* Mutant: an id that a serial match retired stays retired for good.
BackById_OpenOnly(r) == r.gone \in Named /\ r.back = "no"

BackById(r) == r.gone \in Named

BackBySerial(r) == ~BackById(r) /\ r.back = "no" /\ Carries(known[r.gone])

\* Mutant: only an empty census is refused.
Refused_EmptyOnly == Named = {} /\ Population # {}

\* The circuit breaker.
Refused ==
    \/ Named = {} /\ Population # {}
    \/ Cardinality(Population) >= MinPopulation /\ 2 * Cardinality(Named) < Cardinality(Population)

Departed == IF Refused THEN {} ELSE Population \ Named

NewRow(i) == [gone |-> i, back |-> "no", phase |-> phase, age |-> 0, notice |-> 0, removed |-> FALSE]

\* The rows after this census's returns and departures.
Reconciled ==
    LET stay == Without(rows, {rows[i] : i \in {k \in DOMAIN rows : BackById(rows[k])}})
        new == Sorted(Departed)
    IN  [i \in 1..Len(stay) |->
            IF BackBySerial(stay[i]) THEN [stay[i] EXCEPT !.back = "serial"] ELSE stay[i]]
        \o [i \in 1..Cardinality(Departed) |-> NewRow(new[i])]

\* Mutant: the day is not capped.
NoticeDay_Uncapped(r) == (r.phase + r.age) \div 2 + 1

\* UTC calendar days, not elapsed hours.
NoticeDay(r) ==
    LET day == (r.phase + r.age) \div 2 + 1 IN IF day > TailDays THEN TailDays ELSE day

LeftTheFleet(r) == r.age = Expiry

\* Mutant: a Mac back under another id is noticed as still absent.
NoticeDue_Retired(r) == ~r.removed /\ ~LeftTheFleet(r) /\ NoticeDay(r) > r.notice

NoticeDue(r) == ~r.removed /\ ~LeftTheFleet(r) /\ r.back = "no" /\ NoticeDay(r) > r.notice

\* Mutant: a retired id never gets its terminal.
RemovalDue_OpenOnly(r) == ~r.removed /\ LeftTheFleet(r) /\ r.back = "no"

RemovalDue(r) == ~r.removed /\ LeftTheFleet(r)

Noticed(rs) ==
    [i \in DOMAIN rs |-> IF NoticeDue(rs[i]) THEN [rs[i] EXCEPT !.notice = NoticeDay(rs[i])] ELSE rs[i]]
Removed(rs) ==
    [i \in DOMAIN rs |-> IF RemovalDue(rs[i]) THEN [rs[i] EXCEPT !.removed = TRUE] ELSE rs[i]]

Of(rs, Due(_)) == {rs[i].gone : i \in {k \in DOMAIN rs : Due(rs[k])}}

\* A consumer's view of each id after the events of this close, in their order.
Heard(here, moved, departed, removed) ==
    wire' = [i \in Ids |-> IF i \in removed THEN "removed" ELSE IF i \in departed THEN "departed"
                           ELSE IF i \in moved THEN "moved" ELSE IF i \in here THEN "here" ELSE wire[i]]

Ends == sweep' = Idle /\ UNCHANGED <<phase, jamf, nextId, known, edits, mishaps>>

\* Mutant: the rows that owe a terminal are read before the census.
CloseClean_RemovalsFirst ==
    /\ sweep.at = "closing" /\ Clean
    /\ \E judged \in {Reconciled} : \E noticed \in {IF Refused THEN judged ELSE Noticed(judged)} :
           /\ rows' = Removed(noticed)
           /\ Heard(Of(rows, BackById), Of(rows, BackBySerial),
                    IF Refused THEN {} ELSE Of(judged, NoticeDue), Of(rows, RemovalDue))
    /\ Ends

\* Returns, departures, the notices unless the census was refused, and the terminals.
CloseClean ==
    /\ sweep.at = "closing" /\ Clean
    /\ \E judged \in {Reconciled} : \E noticed \in {IF Refused THEN judged ELSE Noticed(judged)} :
           /\ rows' = Removed(noticed)
           /\ Heard(Of(rows, BackById), Of(rows, BackBySerial),
                    IF Refused THEN {} ELSE Of(judged, NoticeDue), Of(noticed, RemovalDue))
    /\ Ends

\* A scoped sweep, or one with a failed device, is no census; the terminals go out.
CloseDirty ==
    /\ sweep.at = "closing" /\ ~Clean
    /\ rows' = Removed(rows)
    /\ Heard({}, {}, {}, Of(rows, RemovalDue))
    /\ Ends

----------------------------------------------------------------------------
World ==
    \/ Tick
    \/ \E m \in Macs : Enrol(m)
    \/ \E i \in Ids : Delete(i) \/ HandBack(i) \/ Webhook(i)

Sweep ==
    \/ BeginScoped
    \/ BeginCensus
    \/ \E p \in 0..MaxId : FetchPage(p) \/ DevicesFail(p) \/ FetchShort(p)
    \/ Abandon
    \/ CloseClean
    \/ CloseDirty

Next == World \/ Sweep

Spec == Init /\ [][Next]_vars

\* Time passes, some collection sweeps without a selector, and a sweep goes on.
LiveSpec ==
    /\ Spec
    /\ WF_vars(Tick)
    /\ SF_vars(BeginCensus)
    /\ WF_vars(\E p \in 0..MaxId : FetchPage(p))
    /\ WF_vars(CloseClean \/ CloseDirty)

----------------------------------------------------------------------------
(* Properties.                                                              *)

\* reconcile_census keys its rows by the id each is gone under, and a second row
\* under one id would hide the first: a retired id must never depart again.
OneRowPerGoneId ==
    \A i, j \in DOMAIN rows : rows[i].gone = rows[j].gone => i = j

\* A consumer that follows the departure events holds of every id what the tables
\* say, through returns by id, returns under a new id and ids handed back.
ConsumerAgrees ==
    /\ \A i \in Ids \ GoneIds(rows) : wire[i] = "here"
    /\ \A k \in DOMAIN rows :
           \/ wire[rows[k].gone] = "removed" /\ rows[k].removed
           \/ wire[rows[k].gone] = "moved" /\ rows[k].back = "serial"
           \/ wire[rows[k].gone] = "departed" /\ rows[k].back = "no" /\ ~rows[k].removed

Closes == sweep.at = "closing" /\ sweep' = Idle /\ mishaps' = mishaps

\* A census never leaves a Mac it named absent or removed.
NamedNotRemoved ==
    [][Closes /\ Clean =>
           \A i \in Named : wire'[i] = "here" /\ i \notin GoneIds(rows')]_vars

NewlyGone == GoneIds(rows') \ GoneIds(rows)

\* One bad read of a fleet that stood complete departs at most half of it.
BreakerHolds ==
    [][GoneIds(rows) \subseteq GoneIds(rows') /\ Cardinality(Population) >= MinPopulation =>
           2 * Cardinality(NewlyGone) <= Cardinality(Population)]_vars

\* A census departs a Mac that Jamf still holds only if, while it ran, a record was
\* deleted, the Mac enrolled, its own id or a lower one was handed back (which moves
\* it to a later page, one that may have been read), or Jamf answered short: scope,
\* failures, page boundaries and enrolments elsewhere never do it.
FalseDepartureNeedsCause ==
    [][\A i \in NewlyGone \cap DOMAIN jamf :
           sweep.shrunk \/ sweep.lossy \/ i >= sweep.from \/ \E j \in sweep.fresh : j <= i]_vars

\* _reconcile_device_census: "Clean is all three, each ruling out a way of departing
\* a Mac that is still there".  Violated: a deletion shifts the pages not read yet.
PresentNeverDeparts == [][NewlyGone \cap DOMAIN jamf = {}]_vars

\* troubleshooting.md: "A sweep that names it again puts it straight back".
\* Violated: a scoped sweep names it and leaves its row open.
NamedIsBack == [][Closes => Named \cap GoneIds(rows') = {}]_vars

\* departure.py: "a census naming fewer than COLLAPSE_RATIO of the present population
\* is refused".  Violated: Macs that return count although they are not of it.
BreakerCountsPresent ==
    [][NewlyGone # {} /\ Cardinality(Population) >= MinPopulation =>
           2 * Cardinality(Named \cap Population) >= Cardinality(Population)]_vars

\* emit_mac_removals, "the tail's guaranteed close": every Mac that stays gone is told
\* removed in the end, whatever sweeps are scoped, lossy or refused, and a Mac retired by
\* its serial too.
TerminalGuaranteed == <>[](\A i \in DOMAIN rows : rows[i].removed)

Collapsed ==
    \/ jamf = <<>>
    \/ Cardinality(Population) >= MinPopulation /\ 2 * Cardinality(DOMAIN jamf) < Cardinality(Population)

\* Once Jamf stands still, every Mac it holds is back and every one it does not is
\* gone, whatever earlier censuses got wrong; only a refusal can stand in the way.
CensusSettles ==
    <>[](Collapsed \/ DOMAIN known \ GoneIds(rows) = DOMAIN jamf)

\* One open row per retired id, and a wire that agrees with the rows.
DeparturesSound == TypeOK /\ OneRowPerGoneId /\ ConsumerAgrees

\* A Mac departs for a reason, never more than half a fleet at once, and not in the
\* census that named it.
DeparturesEarned == NamedNotRemoved /\ BreakerHolds /\ FalseDepartureNeedsCause

\* Once Jamf stands still the rows come to say who is there and who is gone, and
\* whoever stays gone is told removed.
FleetSettles == TerminalGuaranteed /\ CensusSettles

=============================================================================
