-------------------------------- MODULE Wire --------------------------------
(***************************************************************************)
(* The inventory snapshot on its way out: the two answers an app item       *)
(* carries (mdm/snapshot.py, core/vuln.py, schemas/payload.py), and the     *)
(* expansion of a stored snapshot into events and requests, on Splunk       *)
(* (core/hec_fanout.py, core/outbox.py) and on the other three types        *)
(* (fanout/).                                                               *)
(***************************************************************************)
EXTENDS Integers, Sequences, FiniteSets, TLC, Functions, FiniteSetsExt, SequencesExt

CONSTANTS Bands,     \* severity bands, worst first
          IdsCap,    \* VULN_IDS_CAP
          Registry,  \* <<wrapper, list?>>, in the order of the contract
          None

WireAssumption == IdsCap \in Nat /\ None \notin Int

Count(S) == Cardinality(S)
MinOf(S) == IF S = {} THEN None ELSE CHOOSE x \in S : \A y \in S : x <= y
MaxOf(S) == IF S = {} THEN None ELSE CHOOSE x \in S : \A y \in S : x >= y

-----------------------------------------------------------------------------
(* vuln{}: from findings, [id, published, severity, kev], or from a row     *)
(* that was counted when the epoch was compiled.                            *)
_band_index(f) == IF f.severity = None THEN Len(Bands) + 1 ELSE CHOOSE i \in DOMAIN Bands : Bands[i] = f.severity
First(a, b, rest) == a < b \/ (a = b /\ rest)
_priority(f, g) ==
    LET kev(x) == IF x.kev THEN 0 ELSE 1 IN
    First(kev(f), kev(g), First(_band_index(f), _band_index(g), First(-f.published, -g.published, f.id <= g.id)))

\* A bug: a publication after the event counts days below zero.
_days_since_Signed(published, at) == at - published
_days_since(published, at) == IF published > at THEN 0 ELSE at - published

InBand(F, band) == {f \in F : f.severity = band}
Published(F) == {f.published : f \in F}
Capped(ids, n) == SubSeq(ids, 1, IF Len(ids) < n THEN Len(ids) ELSE n)
Ids(fs, n) == Capped([i \in DOMAIN fs |-> fs[i].id], n)
Ordered(F) == SetToSortSeq(F, _priority)

\* What an epoch ships of a build, counted where it was compiled, its ids cut at that cap.
Compiled(F, cap) ==
    [total |-> Count(F), kev |-> Count({f \in F : f.kev}),
     severity |-> [b \in Range(Bands) |-> Count(InBand(F, b))],
     oldest |-> MinOf(Published(F)),
     oldestIn |-> [b \in Range(Bands) |-> MinOf(Published(InBand(F, b)))],
     ids |-> Ids(Ordered(F), cap), truncated |-> Count(F) > cap]

\* The rows the library takes.
AssessedBuild(row) ==
    /\ \A n \in {row.total, row.kev} \cup Range(row.severity) : n >= 0
    /\ (row.oldest # None) <=> row.total > 0
    /\ \A b \in Range(Bands) : (row.oldestIn[b] # None) <=> row.severity[b] > 0
    /\ row.truncated <=> row.total > Len(row.ids)

\* What a corpus answers of a build.
NoAnswer == [kind |-> "none"]
Findings(F) == [kind |-> "findings", found |-> F]
Row(row) == [kind |-> "row", row |-> row]

\* A block, a part it lacks None.
Block(assessment, corpusAsOf) ==
    [assessment |-> assessment, corpusAsOf |-> corpusAsOf, counts |-> None, days |-> None, ids |-> None, truncated |-> None]
Covered(corpusAsOf, counts, days, ids, truncated) ==
    [assessment |-> "covered", corpusAsOf |-> corpusAsOf, counts |-> counts, days |-> days, ids |-> ids, truncated |-> truncated]
Counts(total, kev, severity) == [total |-> total, kev |-> kev, severity |-> severity]
Days(total, severity) == [total |-> total, severity |-> severity]

_from_assessed(row, corpusAsOf, at) ==
    LET days(published) == IF published = None THEN None ELSE _days_since(published, at) IN
    Covered(corpusAsOf, Counts(row.total, row.kev, row.severity),
            Days(days(row.oldest), [b \in Range(Bands) |-> days(row.oldestIn[b])]),
            Capped(row.ids, IdsCap), row.truncated \/ Len(row.ids) > IdsCap)

\* No corpus, a build it has not assessed, a row counted before, or findings to count.
vuln_block(corpusAsOf, answer, at) ==
    LET days(G) == MaxOf({_days_since(f.published, at) : f \in G})
        F == answer.found
    IN CASE corpusAsOf = None -> Block("off", None)
         [] corpusAsOf # None /\ answer.kind = "none" -> Block("unknown_app", corpusAsOf)
         [] corpusAsOf # None /\ answer.kind = "row" -> _from_assessed(answer.row, corpusAsOf, at)
         [] OTHER ->
            Covered(corpusAsOf,
                    Counts(Count(F), Count({f \in F : f.kev}), [b \in Range(Bands) |-> Count(InBand(F, b))]),
                    Days(days(F), [b \in Range(Bands) |-> days(InBand(F, b))]),
                    Ids(Ordered(F), IdsCap), Count(F) > IdsCap)

\* What the model of the block accepts: which parts ride says the assessment, and a day
\* stands where a finding does.
_absence_says_why(block) ==
    LET covered == block.assessment = "covered" IN
    /\ (block.corpusAsOf # None) <=> block.assessment # "off"
    /\ (block.counts # None) <=> covered
    /\ (block.days # None) <=> covered
    /\ (block.ids # None) <=> covered
    /\ (block.truncated # None) <=> covered
    /\ covered =>
          /\ (block.days.total # None) <=> block.counts.total > 0
          /\ \A b \in Range(Bands) : (block.days.severity[b] # None) <=> block.counts.severity[b] > 0

\* Splunk's spelling of a day that is not, in an item that carries days.
mint_hec_sentinels(item) ==
    LET minted(d) == IF d = None THEN -1 ELSE d
        days == item["vuln"].days
    IN IF "vuln" \in DOMAIN item /\ days # None
       THEN [item EXCEPT !["vuln"].days =
                Days(minted(days.total), [b \in DOMAIN days.severity |-> minted(days.severity[b])])]
       ELSE item

-----------------------------------------------------------------------------
(* patch{}: an app as Jamf spells it, [name, bundle, version], each text    *)
(* <<text, spelling>> and the empty text absence.                           *)
Canonical(text) == text[1]
app_identity(app) ==
    <<Canonical(app.name), IF Canonical(app.bundle) = "" THEN Canonical(app.name) ELSE Canonical(app.bundle),
      Canonical(app.version)>>

\* The row of an app: the bundle falls back to the name before anything is canonical.
NormalizedApp(app) == [app EXCEPT !.bundle = IF @[1] = "" /\ @[2] = "plain" THEN app.name ELSE @]

\* A row answers completely or not at all.
Supported(row) == row.titles # <<>> /\ row.state # None
PatchEnrichment(answer) == [supported |-> answer # None, jamfPatch |-> answer]

_subjects(row) ==
    IF Len(row.titles) < 2 THEN [reference |-> None, sentence |-> None]
    ELSE [reference |-> row.reference, sentence |-> row.sentence]

\* What the loaded catalog says of the titles, all of them or none.
Resolved(ids, told) == told # <<>> /\ Range(ids) \subseteq DOMAIN told
_title_names(ids, names) == IF Resolved(ids, names) THEN [i \in DOMAIN ids |-> names[ids[i]]] ELSE None
_detection(ids, detection) ==
    CASE ~Resolved(ids, detection) -> None
      [] Resolved(ids, detection) /\ \E i \in DOMAIN ids : detection[ids[i]] = "extension_attribute" -> "extension_attribute"
      [] OTHER -> "inventory"

JamfPatchAnswer(row, names, detection) ==
    [ids |-> row.titles, names |-> _title_names(row.titles, names), detection |-> _detection(row.titles, detection),
     subjects |-> _subjects(row), since |-> row.since, missed |-> row.missed]

\* The rows of one identity answer with the first complete one, and an identity without a row with none.
patch_answer(rows, identity, names, detection) ==
    LET mine == SelectSeq(rows, LAMBDA r : app_identity(r.app) = identity /\ Supported(r))
    IN PatchEnrichment(IF mine = <<>> THEN None ELSE JamfPatchAnswer(mine[1], names, detection))

HasSentence(row) == row.since # None \/ row.missed # None

\* The answers the model refuses: one without a title, names out of step with the ids, a subject
\* that is no title of it, too few with several titles or any with one.
_every_scalar_group_names_its_subject(answer) ==
    LET told == answer.subjects IN
    /\ {told.reference, told.sentence} \subseteq Range(answer.ids) \cup {None}
    /\ Len(answer.ids) > 1 => told.reference # None
    /\ Len(answer.ids) <= 1 => told.reference = None /\ told.sentence = None
    /\ told.sentence # None => HasSentence(answer)
    /\ Len(answer.ids) > 1 /\ HasSentence(answer) => told.sentence # None
AnswerStands(answer) ==
    /\ answer.ids # <<>>
    /\ answer.names # None => Len(answer.names) = Len(answer.ids)
    /\ _every_scalar_group_names_its_subject(answer)

\* An item of the app list, the row found by the identity of the entry.
_app_item(entry, rows, names, detection, block) ==
    [k \in {"app", "patch", "vuln"} |->
        CASE k = "app" -> entry
          [] k = "patch" -> patch_answer(rows, app_identity(entry), names, detection)
          [] OTHER -> block]

-----------------------------------------------------------------------------
(* A payload maps a wrapper to the object of its section or the list of its *)
(* items, and a head key to itself.  An item maps keys to values; only a    *)
(* section the registry does not name may hold one that is bare.            *)
SUB_EVENT_KEYS == <<"event", "jobID", "deviceMeta">>
SNAPSHOT_HEAD_KEYS == Range(SUB_EVENT_KEYS) \cup {"occurredAt"}
Named == {Registry[i][1] : i \in DOMAIN Registry}
Unnamed(payload) == DOMAIN payload \ (SNAPSHOT_HEAD_KEYS \cup Named)

Object(value) == [list |-> FALSE, value |-> value]
ListOf(items) == [list |-> TRUE, items |-> items]
Bare(value) == [bare |-> value]

\* Every item of a list and an object under its wrapper; the registry says which it is of a section
\* it names.
IsList(payload, w) == <<w, TRUE>> \in Range(Registry) \/ (w \notin Named /\ payload[w].list)
Items(payload, w) ==
    LET items == payload[w].items
        Wrapped(item) == IF w \notin Named /\ "bare" \in DOMAIN item THEN w :> item.bare ELSE item
    IN IF IsList(payload, w) THEN [i \in DOMAIN items |-> Wrapped(items[i])] ELSE <<w :> payload[w].value>>

SubEvents(items, sourcetype) == [i \in DOMAIN items |-> [item |-> items[i], sourcetype |-> sourcetype]]

\* What the registry names in its order, then the rest without a sourcetype.
expand(payload) ==
    LET others == SetToSeq(Unnamed(payload)) IN
    FlattenSeq([i \in DOMAIN Registry |->
                   LET w == Registry[i][1] IN IF w \in DOMAIN payload THEN SubEvents(Items(payload, w), w) ELSE <<>>]
               \o [i \in DOMAIN others |-> SubEvents(Items(payload, others[i]), None)])

HeadOf(payload, keys) == [k \in DOMAIN payload \cap keys |-> payload[k]]

\* On Splunk the item, minted, over event and jobID, and deviceMeta over both.
fan_out(payload) ==
    LET walked == expand(payload) IN
    [i \in DOMAIN walked |->
        [sourcetype |-> walked[i].sourcetype,
         body |-> HeadOf(payload, {"deviceMeta"}) @@ mint_hec_sentinels(walked[i].item) @@ HeadOf(payload, {"event", "jobID"})]]

\* Elsewhere the item as it is, and what Splunk has beside the event inside it.
record_events(payload) ==
    LET walked == expand(payload)
        stamp(s) == IF s = None THEN <<>> ELSE "sourcetype" :> s
    IN [i \in DOMAIN walked |->
           LET extras == HeadOf(payload, {"occurredAt"}) @@ stamp(walked[i].sourcetype)
               told == walked[i].item @@ HeadOf(payload, {"event", "jobID"})
           IN IF "deviceMeta" \in DOMAIN payload THEN HeadOf(payload, {"deviceMeta"}) @@ extras @@ told ELSE told @@ extras]

\* The content, then event and jobID, then deviceMeta.
ordered_event_keys(keys) ==
    SelectSeq(keys, LAMBDA k : k \notin Range(SUB_EVENT_KEYS)) \o SelectSeq(SUB_EVENT_KEYS, LAMBDA k : k \in Range(keys))

Chunks(lines, limit, overhead, joiner) ==
    LET Step(acc, line) ==
            LET added == IF acc.current = <<>> THEN line ELSE line + joiner IN
            IF acc.current # <<>> /\ acc.size + added > limit
            THEN [bodies |-> Append(acc.bodies, acc.current), current |-> <<line>>, size |-> overhead + line]
            ELSE [acc EXCEPT !.current = Append(@, line), !.size = @ + added]
        end == FoldLeft(Step, [bodies |-> <<>>, current |-> <<>>, size |-> overhead], lines)
    IN IF end.current = <<>> THEN end.bodies ELSE Append(end.bodies, end.current)

hec_request_bodies(lines, limit) == Chunks(lines, limit, 0, 1)
webhook_request_bodies(lines, limit) == Chunks(lines, limit, 2, 1)
elastic_bulk_bodies(lines, limit) == Chunks(lines, limit, 0, 0)

-----------------------------------------------------------------------------
(* Properties.                                                              *)

\* The two ways a corpus answers give one block, no answer makes one that is refused on its way to the
\* outbox, its flag says whether ids are missing, and a day count Splunk is told is below zero only
\* where there is no finding (vuln_block, _from_assessed, VulnEnrichment, mint_hec_sentinels).
BlocksAgree(F, cap, at) ==
    LET counted == vuln_block(1, Findings(F), at)
        stored == vuln_block(1, Row(Compiled(F, cap)), at)
        told(block) == mint_hec_sentinels("vuln" :> block)["vuln"].days.severity
        WithoutIds(block) == [block EXCEPT !.ids = <<>>, !.truncated = FALSE]
    IN /\ AssessedBuild(Compiled(F, cap))
       /\ WithoutIds(counted) = WithoutIds(stored)
       /\ cap >= IdsCap => counted = stored
       /\ \A asOf \in {None, 1}, answer \in {NoAnswer, Findings(F), Row(Compiled(F, cap))} :
             _absence_says_why(vuln_block(asOf, answer, at))
       /\ \A block \in {counted, stored} :
             /\ block.truncated <=> block.counts.total > Len(block.ids)
             /\ \A b \in Range(Bands) : (told(block)[b] >= 0) <=> block.counts.severity[b] > 0

\* Every entry of the ledger finds the row of its app, however Jamf spelled it, and an answer that
\* leaves is one its model accepts and rests on an extension attribute where any title does
\* (app_identity, patch_answer, _app_item, JamfPatchAnswer).
EntriesFindRows(apps) ==
    \A i \in DOMAIN apps : \E j \in DOMAIN apps : app_identity(NormalizedApp(apps[j])) = app_identity(apps[i])

\* What summarize leaves on a row: each subject is one of the titles.  A row judged before the
\* columns existed names none, and the model refuses its answer.
Judged(row) ==
    /\ row.reference \in Range(row.titles)
    /\ (row.sentence # None) <=> HasSentence(row)
    /\ row.sentence \in Range(row.titles) \cup {None}

AnswersStand(rows, names, detection) ==
    (\A j \in DOMAIN rows : Judged(rows[j])) =>
        \A i \in DOMAIN rows :
            LET patch == _app_item(rows[i].app, rows, names, detection, None)["patch"]
                titles == Range(patch.jamfPatch.ids)
            IN /\ patch.supported <=>
                      \E j \in DOMAIN rows : app_identity(rows[j].app) = app_identity(rows[i].app) /\ Supported(rows[j])
               /\ patch.supported =>
                      /\ AnswerStands(patch.jamfPatch)
                      /\ patch.jamfPatch.detection = "inventory" =>
                             \A t \in titles : t \in DOMAIN detection /\ detection[t] = "inventory"

\* Nothing of a snapshot is lost or told twice, what the registry names is stamped with its name, and a
\* record says what Splunk is told with the days that are not left empty (fan_out, record_events, expand).
FanOutTellsAll(payload) ==
    LET hec == fan_out(payload)
        records == record_events(payload)
        sections == DOMAIN payload \ SNAPSHOT_HEAD_KEYS
        told(w) == SelectSeq(hec, LAMBDA e : e.sourcetype = (IF w \in Named THEN w ELSE None))
        content(event, keys) == [k \in DOMAIN event \ keys |-> event[k]]
        days(event) == IF "vuln" \in DOMAIN event /\ event["vuln"].days # None
                       THEN {event["vuln"].days.total} \cup Range(event["vuln"].days.severity) ELSE {}
        keys == FoldSet(LAMBDA k, acc : Append(acc, k), <<>>, DOMAIN payload)
    IN /\ Len(hec) = FoldSet(LAMBDA w, n : n + Len(Items(payload, w)), 0, sections)
       /\ \A w \in sections :
             [i \in DOMAIN told(w) |-> content(told(w)[i].body, SNAPSHOT_HEAD_KEYS)]
                 = [i \in DOMAIN Items(payload, w) |-> mint_hec_sentinels(Items(payload, w)[i])]
       /\ DOMAIN hec = DOMAIN records
       /\ \A i \in DOMAIN hec :
             /\ hec[i].body = mint_hec_sentinels(content(records[i], {"occurredAt", "sourcetype"}))
             /\ hec[i].sourcetype = (IF "sourcetype" \in DOMAIN records[i] THEN records[i]["sourcetype"] ELSE None)
             /\ None \notin days(hec[i].body) /\ -1 \notin days(records[i])
       /\ Range(ordered_event_keys(keys)) = Range(keys) /\ Len(ordered_event_keys(keys)) = Len(keys)

Encoded(body, overhead, joiner) == overhead + FoldLeft(LAMBDA a, b : a + b, 0, body) + joiner * (Len(body) - 1)

\* The requests of a delivery carry every line once and in order, whole, and none is larger than the
\* limit but for a line that is (the two _chunk).
ChunksKeepLines(lines, limit) ==
    \A c \in {<<hec_request_bodies(lines, limit), 0, 1>>, <<webhook_request_bodies(lines, limit), 2, 1>>,
              <<elastic_bulk_bodies(lines, limit), 0, 0>>} :
        /\ FlattenSeq(c[1]) = lines
        /\ \A i \in DOMAIN c[1] : Len(c[1][i]) = 1 \/ (c[1][i] # <<>> /\ Encoded(c[1][i], c[2], c[3]) <= limit)
=============================================================================
