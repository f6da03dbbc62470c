------------------------------ MODULE Contract ------------------------------
(***************************************************************************)
(* What of a Jamf computer record is content (mdm/jamf/contract.py), and    *)
(* the current-state view taken from the same record                        *)
(* (client.py, normalize_computer).  A digest is the document it hashes.    *)
(***************************************************************************)
EXTENDS Integers, Sequences, FiniteSets, Functions, TLC

CONSTANTS Carriers,  \* object sections an extension attribute may be displayed under
          Lists,     \* list sections other than that of the attributes
          Strange,   \* a key Jamf added that has no section here
          EA, Id, Values, \* the attributes' section, and two fields of an attribute
          Content,   \* the fields of every other section that are content
          Absences,  \* every spelling of absence: null, ""
          None

SECTIONS == Carriers \cup Lists \cup {EA}
ContractAssumption == Strange \notin SECTIONS /\ None \in Absences

\* The allowlists: a field no list names is telemetry, a label or another object's.
Allowed == [name \in SECTIONS |-> IF name = EA THEN {Id, Values} ELSE Content]

(* A record maps keys to [body, items, attributes]: an object has fields    *)
(* and perhaps attributes, a list has items, each a function of its fields. *)

_prune(value) == Restrict(value, {k \in DOMAIN value : value[k] \notin Absences})
_select(value, allow) == Restrict(value, DOMAIN value \cap allow)
canonical_document(value, allow) == _prune(_select(value, allow))

\* A list of values is compared as a sorted one.
SORTED(value) == SortSeq(SelectSeq(value, LAMBDA v : v \notin Absences), <)
Sorted(item) ==
    IF Values \in DOMAIN item /\ item[Values] \notin Absences
    THEN [item EXCEPT ![Values] = IF SORTED(@) = <<>> THEN None ELSE SORTED(@)] ELSE item

with_extension_attribute_carriers(sections) ==
    IF EA \in sections THEN sections \cup Carriers ELSE sections

-----------------------------------------------------------------------------
(* Extension attributes come from six places.                               *)
Nested(raw) == {k \in DOMAIN raw \ {EA} : raw[k].attributes # None}
Array(raw, key) == IF key = EA THEN raw[EA].items ELSE raw[key].attributes
Sources(raw) == Nested(raw) \cup (DOMAIN raw \cap {EA})

\* A bug: an array counts wherever it is found.
Admits_All(sections, key) == EA \in sections
\* A nested array counts when its section was asked for too.
Admits(sections, key) == EA \in sections /\ key \in sections

IsQuarantined(item, quarantined) == Id \in DOMAIN item /\ item[Id] \in quarantined

hoist_extension_attributes(raw, sections, quarantined) ==
    {p \in UNION {Range(Array(raw, k)) \X {k} : k \in {s \in Sources(raw) : Admits(sections, s)}} :
        ~IsQuarantined(p[1], quarantined)}

unadmitted(raw, sections) ==
    {k \in Sources(raw) : EA \in sections /\ ~Admits(sections, k) /\ Array(raw, k) # <<>>}

-----------------------------------------------------------------------------
(* The observation: a document per section that was asked for.              *)
_entries(name, items) ==
    {canonical_document(Sorted(item), Allowed[name]) : item \in items} \ {<<>>}

_list_section(raw, name) == IF name \in DOMAIN raw THEN _entries(name, Range(raw[name].items)) ELSE {}
_scalar_section(raw, name) ==
    IF name \in DOMAIN raw THEN canonical_document(raw[name].body, Allowed[name]) ELSE <<>>

canonicalize_computer(raw, sections, quarantined) ==
    [name \in sections |->
        IF name = EA THEN _entries(EA, {p[1] : p \in hoist_extension_attributes(raw, sections, quarantined)})
        ELSE IF name \in Lists THEN _list_section(raw, name)
        ELSE _scalar_section(raw, name)]

compute_head_digest(aperture, observation) == <<aperture, observation>>

\* How the observation was taken: what was asked, what Jamf itself collects, the quarantine.
build_aperture(sections, collection, quarantined) ==
    [sections |-> sections, quarantined |-> quarantined,
     available |-> collection # None,
     preferences |-> IF collection = None THEN <<>> ELSE _prune(collection)]

\* The view the product reads: what was not asked for is None, never an empty list.
Identified(item) == Id \in DOMAIN item /\ item[Id] \notin Absences
normalize_computer(raw, sections, quarantined) ==
    [lists |-> [name \in Lists |->
        IF name \notin sections THEN None
        ELSE IF name \in DOMAIN raw THEN Range(raw[name].items) ELSE {}],
     attributes |->
        IF EA \notin sections THEN None
        ELSE {<<Sorted(p[1]), p[2]>> : p \in {q \in hoist_extension_attributes(raw, sections, quarantined) : Identified(q[1])}},
     scalars |-> [name \in sections \cap Carriers |-> _scalar_section(raw, name)]]

-----------------------------------------------------------------------------
(* The other subjects: the definition of a smart group, of an attribute.    *)
\* The criteria in the order of their priority, equal ones as they came.
ByPriority(criteria) ==
    LET before(i, j) == \/ criteria[i].priority < criteria[j].priority
                        \/ criteria[i].priority = criteria[j].priority /\ i <= j
        place(i) == Cardinality({j \in DOMAIN criteria : before(j, i)})
    IN [n \in DOMAIN criteria |-> criteria[CHOOSE i \in DOMAIN criteria : place(i) = n]]

canonicalize_smart_group(group) == [name |-> group.name, criteria |-> ByPriority(group.criteria)]

-----------------------------------------------------------------------------
(* Properties.                                                              *)

\* What Jamf's sweep page holds of a device whose whole record is `detail`.
Page(detail, sections) == Restrict(detail, DOMAIN detail \cap sections)

\* A sweep page and a detail record of one device are one observation and one view, though the
\* detail carries sections and attributes nobody asked for (canonicalize_computer's docstring).
PageReadsAsDetail(detail, sections, quarantined) ==
    /\ canonicalize_computer(Page(detail, sections), sections, quarantined)
         = canonicalize_computer(detail, sections, quarantined)
    /\ normalize_computer(Page(detail, sections), sections, quarantined)
         = normalize_computer(detail, sections, quarantined)

\* Wherever an administrator displays the attribute, the observation of a saved scope is the same
\* (EXTENSION_ATTRIBUTE_CARRIERS, with_extension_attribute_carriers).
Show(detail, item, key) ==
    [k \in DOMAIN detail |->
        IF k \in Carriers THEN [detail[k] EXCEPT !.attributes = IF k = key THEN <<item>> ELSE None] ELSE detail[k]]
DisplayIsNotContent(detail, item, scope, quarantined) ==
    LET sections == with_extension_attribute_carriers(scope) IN
    \A j, k \in Carriers \cap DOMAIN detail :
        canonicalize_computer(Show(detail, item, j), sections, quarantined)
            = canonicalize_computer(Show(detail, item, k), sections, quarantined)

\* The ledger and the view name the same attributes, and a quarantined one is in neither
\* (hoist_extension_attributes: "neither path can forget to").
ViewsNameTheSame(detail, sections, quarantined) ==
    LET view == normalize_computer(detail, sections, quarantined).attributes
        kept == canonicalize_computer(detail, sections, quarantined)
    IN EA \in sections =>
        /\ {p[1][Id] : p \in view} = {e[Id] : e \in {x \in kept[EA] : Id \in DOMAIN x}}
        /\ quarantined \cap {p[1][Id] : p \in view} = {}

\* An attribute that is dropped for its place is one the warning names, and a saved scope drops
\* none that a section of the contract carries.
NothingDropsUnsaid(detail, scope) ==
    LET sections == with_extension_attribute_carriers(scope) IN
    EA \in scope =>
        /\ \A k \in Sources(detail) : \A item \in Range(Array(detail, k)) :
              <<item, k>> \in hoist_extension_attributes(detail, sections, {}) \/ k \in unadmitted(detail, sections)
        /\ unadmitted(detail, sections) \subseteq {Strange}

\* Two reads with one head are of one device state as far as the contract goes, and the head
\* tells a setting that could not be read from one that is empty (build_aperture).
HeadTellsAperture(detail, s, t, c, d) ==
    LET head(sections, collection) ==
            compute_head_digest(build_aperture(sections, collection, {}), canonicalize_computer(detail, sections, {}))
    IN head(s, c) = head(t, d) => s = t /\ (c = None <=> d = None)

\* The order Jamf lists the criteria in is not the definition when their priorities differ.
CriteriaOrdered(group, permuted) ==
    (\A x, y \in Range(group.criteria) : x.priority = y.priority => x = y)
        => canonicalize_smart_group(group) = canonicalize_smart_group([group EXCEPT !.criteria = permuted])
=============================================================================
