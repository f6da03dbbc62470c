------------------------------- MODULE Prompt -------------------------------
(***************************************************************************)
(* What the three prompts make of a model's reply: the filters of the        *)
(* Changes page (ai/changes_prompt, api/changes_prompt), those of the        *)
(* vulnerabilities page (ai/vulnerabilities_prompt) and the draft of a       *)
(* patching rule (ai/patch_policy_rules).  A reply is forced into the page's  *)
(* vocabulary, then guarded; everything a step changes is a repair, and a     *)
(* repair that widened the answer makes it a proposal.                       *)
(*                                                                          *)
(* Text is an element.  Log is the change log: a row carries the needles its *)
(* device and its thing answer to.  Shapes says what the patterns say of an   *)
(* element: refused by the whitelist, of the shape of a serial number, the    *)
(* name of a kind of thing, part of another.                                 *)
(***************************************************************************)
EXTENDS Naturals, Sequences, FiniteSets, SequencesExt

CONSTANTS Log, Units, Shapes, None

Entries == {"applications"}                    \* ENTRY_SECTIONS
Fields == {"hardware"}
SECTIONS == Entries \cup Fields
LEVELS == {"low", "normal", "high"}
EntryChanges == {"added", "removed", "updated"}
CHANGES == EntryChanges \cup {"changed"}

Repair(rule, widens, control) == [rule |-> rule, widens |-> widens, control |-> control]
Fix(rule) == Repair(rule, FALSE, None)
Answer(filters, note, repairs) == [filters |-> filters, note |-> note, repairs |-> repairs]
widened(answer) == \E r \in answer.repairs : r.widens
If(test, repair) == IF test THEN {repair} ELSE {}

-----------------------------------------------------------------------------
(* What the three share: the reply and its text.                              *)

_is_name(text) == text \notin Shapes.refused
whitelisted_name(text) == IF text # None /\ _is_name(text) THEN text ELSE None
NameRepairs(text, control) == If(text # None /\ ~_is_name(text), Repair("refused", TRUE, control))

\* A word of the vocabulary; "any", and with a repair a word it does not know, is None.
Word(word, words) == IF word \in words THEN word ELSE None
\* A bug to be caught.
WordRepairs_Fix(word, words, rule) == If(word # None /\ word \notin words, Repair(rule, FALSE, None))

WordRepairs(word, words, rule) == If(word # None /\ word \notin words, Repair(rule, TRUE, None))

\* Keys the page does not use widen where they hold a value; a refusal key that is
\* neither yes nor no is one of them.
ignored_keys(reply) ==
    If(reply.extra = "held" \/ reply.refusal = "odd", Repair("ignored", TRUE, None))
      \cup If(reply.extra = "empty", Fix("ignored"))

refused(reply) == reply.refusal = "yes"
Parsed(reply) == reply.known /\ ~refused(reply)

-----------------------------------------------------------------------------
(* The Changes page.                                                          *)

Controls == {"q", "artifact", "level", "section", "change"}
_no_filters == [c \in Controls \cup {"since"} |-> None]

coerce(reply) ==
    Answer([q |-> whitelisted_name(reply.search), artifact |-> whitelisted_name(reply.filter),
            level |-> Word(reply.level, LEVELS), section |-> Word(reply.section, SECTIONS),
            change |-> Word(reply.change, CHANGES), since |-> None],
           reply.note,
           ignored_keys(reply)
             \cup NameRepairs(reply.search, "q") \cup NameRepairs(reply.filter, "artifact")
             \cup WordRepairs(reply.level, LEVELS, "level")
             \cup WordRepairs(reply.section, SECTIONS, "section")
             \cup WordRepairs(reply.change, CHANGES, "change"))

\* A question is the serial numbers in it, what else is typed in it, the words that ask
\* for what no filter says, the sections it names, and the start it asks for.
resolve_since(question) == question.since.at
_one_serial(question) == IF Len(question.serials) = 1 THEN question.serials[1] ELSE None
_repeats(search, name) == search \notin Shapes.serials /\ <<search, name>> \in Shapes.parts

Drop(a, control, repair) ==
    Answer([a.filters EXCEPT ![control] = None], a.note, a.repairs \cup {repair})

Unnamed(question, text) ==
    text \in Shapes.serials /\ text \notin ToSet(question.serials) \cup question.typed

Rule1(a) ==
    IF a.filters.artifact \in Shapes.kinds THEN Drop(a, "artifact", Fix("kind")) ELSE a
Rule2(a) ==
    IF a.filters.q # None /\ a.filters.artifact # None /\ _repeats(a.filters.q, a.filters.artifact)
    THEN Drop(a, "q", Fix("repeat")) ELSE a
Rule3(question, a) ==
    IF Unnamed(question, a.filters.q) THEN Drop(a, "q", Repair("unnamed", TRUE, "q")) ELSE a
\* A bug to be caught.
Rule4_All(question, a) ==
    LET serial == _one_serial(question) IN
    IF a.filters.q = None /\ serial # None
    THEN Answer([a.filters EXCEPT !.q = serial], a.note,
                {IF r.widens THEN Fix(r.rule) ELSE r : r \in a.repairs} \cup {Fix("filled")})
    ELSE a

\* A drop that emptied Search no longer widens once the question's serial fills it.
Rule4(question, a) ==
    LET serial == _one_serial(question) IN
    IF a.filters.q = None /\ serial # None
    THEN Answer([a.filters EXCEPT !.q = serial], a.note,
                {IF r.widens /\ r.control = "q" THEN Fix(r.rule) ELSE r : r \in a.repairs} \cup {Fix("filled")})
    ELSE a
\* A caveat stands on a word of the question; a start that is set expresses the dates.
Grounded(question, since_set) == question.other \/ (question.range /\ ~since_set)
Rule5(question, a, since_set) ==
    IF a.note # None /\ ~Grounded(question, since_set)
    THEN Answer(a.filters, None, a.repairs \cup {Fix("caveat")}) ELSE a
Rule6(a) ==
    IF \/ a.filters.section \in Entries /\ a.filters.change = "changed"
       \/ a.filters.section \in Fields /\ a.filters.change \in EntryChanges
    THEN Drop(a, "change", Fix("pair")) ELSE a

guard(question, a, since_set) ==
    Rule6(Rule5(question, Rule4(question, Rule3(question, Rule2(Rule1(a)))), since_set))

interpret(question, reply) ==
    LET start == question.since
        a == coerce(reply)
        dated == [a EXCEPT !.filters.since = resolve_since(question)]
    IN guard(question, dated, start.at # None /\ ~start.closed)

\* api/changes: the rows of the feed for these filters.
change_conditions(row, f, d) ==
    /\ f.q = None \/ f.q \in row.names
    /\ f.artifact = None \/ f.artifact \in row.things
    /\ f.level = None \/ f.level = row.level
    /\ f.section = None \/ f.section = row.section
    /\ f.change = None \/ f.change = row.change
    /\ f.since = None \/ row.at >= f.since
    /\ \A k \in DOMAIN d : d[k] = None \/ d[k] \in row.meta[k]
Feed(f, d) == {row \in Log : change_conditions(row, f, d)}

PROMPT_DIMENSIONS == {"managed", "model", "os_version", "department"}
NoDimensions == [k \in PROMPT_DIMENSIONS |-> None]
Only(control, text) == Feed([_no_filters EXCEPT ![control] = text], NoDimensions)
Dimension(k, text) == Feed(_no_filters, [NoDimensions EXCEPT ![k] = text])

\* A name that means one department id, on however many connections.
_one_department(name) ==
    IF name \in DOMAIN Units /\ Cardinality({u.id : u \in Units[name]}) = 1
    THEN (CHOOSE u \in Units[name] : TRUE).id ELSE None

\* Which dimension a Search that names no device means.
Meant(search) ==
    IF search \in Shapes.unmanaged THEN [k |-> "managed", value |-> "false"]
    ELSE IF Dimension("model", search) # {} THEN [k |-> "model", value |-> search]
    ELSE IF search \in Shapes.versions /\ Dimension("os_version", search) # {}
         THEN [k |-> "os_version", value |-> search]
    ELSE [k |-> "department", value |-> _one_department(search)]

_question_names_section(question, section) == section \in question.sections

Moved(f, d) == [filters |-> f, dimensions |-> d]
_dimension_repair(question, f) ==
    LET stray == f.q # None /\ Only("q", f.q) = {}
        unit == IF f.artifact # None /\ Only("artifact", f.artifact) = {}
                THEN _one_department(f.artifact) ELSE None
    IN IF stray /\ Meant(f.q).value # None
       THEN Moved([f EXCEPT !.q = None], [NoDimensions EXCEPT ![Meant(f.q).k] = Meant(f.q).value])
       ELSE IF unit # None
       THEN Moved([f EXCEPT !.artifact = None,
                            !.section = IF _question_names_section(question, @) THEN @ ELSE None],
                  [NoDimensions EXCEPT !.department = unit])
       ELSE Moved(f, NoDimensions)

\* The devices listed are the computers, newest first, and of them so many.
SUMMARY_DEVICES == 1
_summary(f, d) ==
    LET rows == Feed(f, d)
        macs == {row \in rows : row.kind = "computer"}
        all == {row.device : row \in macs}
        newest(x) == CHOOSE t \in {r.at : r \in macs} :
                        \E r \in macs : r.device = x /\ r.at = t /\ \A q \in macs : q.device = x => q.at <= t
        first == {x \in all : Cardinality({y \in all : newest(y) > newest(x) \/ (newest(y) = newest(x) /\ y < x)})
                                < SUMMARY_DEVICES}
    IN [total |-> Cardinality(rows), others |-> Cardinality(rows \ macs),
        devices |-> [x \in first |-> [k \in CHANGES |-> Cardinality({r \in macs : r.device = x /\ r.change = k})]],
        devices_total |-> Cardinality(all), truncated |-> Cardinality(all) > Cardinality(first),
        oldest |-> IF rows = {} THEN None ELSE CHOOSE t \in {r.at : r \in rows} : \A r \in rows : t <= r.at]

ask(question, reply) ==
    LET a == interpret(question, reply)
        moved == _dimension_repair(question, a.filters)
    IN IF refused(reply) THEN [outcome |-> "invalid"]
       ELSE IF ~Parsed(reply) THEN [outcome |-> "unparseable"]
       ELSE [outcome |-> IF widened(a) THEN "proposed" ELSE "applied",
             filters |-> moved.filters, dimensions |-> moved.dimensions, note |-> a.note,
             repairs |-> a.repairs, summary |-> _summary(moved.filters, moved.dimensions)]

-----------------------------------------------------------------------------
(* The vulnerabilities page.  Builds are rows of a state, with the bands of    *)
(* their findings; clean and unknown builds have none.                        *)

STATES == {"findings", "kev", "unknown_app", "clean", "patchable"}
BANDS == {"critical", "low"}
ORDERS == {"exposure", "age", "payoff"}
NO_BANDS == {"clean", "unknown_app"}

default_order(state) == IF state = "patchable" THEN "payoff" ELSE "exposure"

CoerceVuln(reply) ==
    LET state == IF reply.state \in STATES THEN reply.state ELSE "findings" IN
    Answer([q |-> whitelisted_name(reply.app), vuln |-> state, band |-> Word(reply.band, BANDS),
            order |-> IF reply.order \in ORDERS THEN reply.order ELSE default_order(state)],
           reply.note,
           ignored_keys(reply) \cup NameRepairs(reply.app, "q")
             \cup WordRepairs(reply.state, STATES, "state") \cup WordRepairs(reply.band, BANDS, "band")
             \cup If(reply.order \notin ORDERS \cup {None}, Fix("order")))

\* A bug to be caught.
GuardVuln_OneWay(a) ==
    LET f == a.filters
        q == IF f.q \in Shapes.kinds \cup Shapes.ids THEN None ELSE f.q
        band == IF f.vuln \in NO_BANDS THEN None ELSE f.band
        order == IF f.vuln # "patchable" /\ f.order = "payoff" THEN "exposure" ELSE f.order
    IN Answer([q |-> q, vuln |-> f.vuln, band |-> band, order |-> order], a.note, a.repairs)

\* An id is never searched, a kind of thing matches no build, a band beside a state without
\* findings matches none, and only the payoff list is ranked by payoff.
GuardVuln(a) ==
    LET f == a.filters
        q == IF f.q \in Shapes.kinds \cup Shapes.ids THEN None ELSE f.q
        band == IF f.vuln \in NO_BANDS THEN None ELSE f.band
        order == IF f.vuln = "patchable" THEN "payoff"
                 ELSE IF f.order = "payoff" \/ (f.order = "age" /\ (f.vuln # "findings" \/ band # None))
                 THEN "exposure" ELSE f.order
    IN Answer([q |-> q, vuln |-> f.vuln, band |-> band, order |-> order], a.note,
              a.repairs \cup If(q # f.q, Fix("kind")) \cup If(band # f.band, Fix("band"))
                \cup If(order # f.order, Fix("order")))

InterpretVuln(reply) == GuardVuln(CoerceVuln(reply))

\* The page: it never searches an id, and decides its ranking by itself.
Ranked(f) ==
    IF f.vuln = "patchable" THEN "payoff"
    ELSE IF f.order = "age" /\ f.vuln = "findings" /\ f.band = None THEN "age" ELSE "exposure"
Listed(f) == [f EXCEPT !.q = IF @ \in Shapes.ids THEN None ELSE @, !.order = Ranked(f)]

-----------------------------------------------------------------------------
(* The draft of a patching rule.  A statement is its clauses: the days each   *)
(* states and the case it names; and the numbers of releases it states.       *)

stated_days(statement) == UNION {statement.clauses[i].days : i \in DOMAIN statement.clauses}
DaysOf(statement, case) ==
    UNION {statement.clauses[i].days : i \in {j \in DOMAIN statement.clauses : statement.clauses[j].case = case}}
\* A bug to be caught.
special_days_Any(statement) ==
    [severe |-> DaysOf(statement, "severe"), other |-> DaysOf(statement, "other")]

special_days(statement) ==
    [severe |-> DaysOf(statement, "severe") \ DaysOf(statement, "ordinary"),
     other |-> (DaysOf(statement, "other") \ DaysOf(statement, "ordinary")) \ DaysOf(statement, "severe")]
stated_releases(statement) == statement.releases

_limit(value, ceiling, stated) == IF value \in stated /\ value <= ceiling THEN value ELSE None

DraftOf(statement, reply) ==
    LET special == special_days(statement)
        all == special.severe \cup special.other
        named == _limit(reply.days, Shapes.ceiling, stated_days(statement))
        days == IF named \in all THEN None ELSE named
        given == _limit(reply.severe, Shapes.ceiling, stated_days(statement))
        severe == IF given \in special.severe /\ Cardinality(special.severe) = 1
                     /\ (days # None => given <= days) THEN given ELSE None
        releases == _limit(reply.releases, Shapes.ceiling, stated_releases(statement))
        ordinary == stated_days(statement) \ all
    IN [days |-> days, severe |-> severe, releases |-> releases,
        cannot |-> If(special.other # {} \/ Cardinality(special.severe) > 1, "severity")
                     \cup If(stated_days(statement) = {} /\ stated_releases(statement) = {}, "no_number"),
        repairs |-> If(reply.days # days, "days") \cup If(reply.severe # severe, "severe")
                     \cup If(reply.releases # releases, "releases")
                     \cup If(days = None /\ Cardinality(ordinary) = 1, "ordinary_left")
                     \cup If(reply.severe = None /\ Cardinality(special.severe) = 1, "severe_left")]

InterpretRule(statement, reply) ==
    IF refused(reply) THEN [outcome |-> "invalid"]
    ELSE IF ~reply.known THEN [outcome |-> "unparseable"]
    ELSE IF ~statement.patching THEN [outcome |-> "invalid"]
    ELSE [outcome |-> "draft", draft |-> DraftOf(statement, reply)]

-----------------------------------------------------------------------------
(* What the Changes page runs at once is no wider than what the model asked:   *)
(* every value of the reply was read, unless the question's one serial number  *)
(* took the place of Search, and a row shown is one the reply asked for,       *)
(* unless the reply named a kind of thing, named the thing again as the device *)
(* or asked for rows that cannot be.                                          *)
Wanted(reply) ==
    LET f == coerce(reply).filters
        named == IF f.artifact \in Shapes.kinds THEN [f EXCEPT !.artifact = None] ELSE f
    IN IF named.q # None /\ named.artifact # None /\ _repeats(named.q, named.artifact)
       THEN [named EXCEPT !.q = None] ELSE named
RunsNoWider(question, reply) ==
    LET answer == ask(question, reply) IN
    answer.outcome = "applied" =>
        /\ reply.extra # "held" /\ reply.refusal # "odd"
        /\ reply.filter = None \/ _is_name(reply.filter)
        /\ {reply.level, reply.section, reply.change} \subseteq LEVELS \cup SECTIONS \cup CHANGES \cup {None}
        /\ reply.search = None \/ (_is_name(reply.search) /\ ~Unnamed(question, reply.search))
             \/ answer.filters.q = _one_serial(question)
        /\ LET wanted == [Wanted(reply) EXCEPT
                 !.q = IF ~_is_name(reply.search) \/ Unnamed(question, @) THEN None ELSE @]
           IN \/ Feed(answer.filters, answer.dimensions) \subseteq Feed(wanted, NoDimensions)
              \/ Feed(wanted, NoDimensions) = {}

(* The guards settle: what they return they leave alone.                      *)
GuardSettles(question, reply) ==
    LET since_set == question.since.at # None /\ ~question.since.closed
        once == interpret(question, reply)
        twice == guard(question, once, since_set)
    IN twice.filters = once.filters /\ twice.note = once.note

(* The numbers in the box are the feed's: every row is of a listed computer,   *)
(* of one the list cut off or of another subject.                             *)
SummaryCloses(question, reply) ==
    LET answer == ask(question, reply) IN
    "summary" \in DOMAIN answer =>
        LET s == answer.summary
            counted(x) == Cardinality({r \in Feed(answer.filters, answer.dimensions) :
                                          r.kind = "computer" /\ r.device = x})
            listed == {x \in DOMAIN s.devices :
                          s.devices[x]["added"] + s.devices[x]["removed"] + s.devices[x]["updated"]
                            + s.devices[x]["changed"] = counted(x) /\ counted(x) > 0}
        IN /\ listed = DOMAIN s.devices
           /\ s.truncated <=> s.devices_total > Cardinality(listed)
           /\ (s.total = s.others) <=> s.devices_total = 0
           /\ (s.total = 0) <=> s.oldest = None

(* What the vulnerabilities page lists and ranks is what the answer counted,   *)
(* and an answer that runs kept every value the reply named.                  *)
ListIsCounted(reply) ==
    LET a == InterpretVuln(reply) IN
    /\ Listed(a.filters) = a.filters
    /\ ~(a.filters.vuln \in NO_BANDS /\ a.filters.band # None)
    /\ ~widened(a) =>
          /\ reply.state \in STATES => a.filters.vuln = reply.state
          /\ reply.state \in STATES \cup {None} /\ reply.band \in BANDS \cup {None}
          /\ reply.app # None /\ reply.app \notin Shapes.kinds \cup Shapes.ids => a.filters.q = reply.app

(* A number in a draft is one the statement states for that box: an ordinary   *)
(* limit is never one it gives only for a special case, the limit for critical *)
(* and high is never the longer, and whatever the reply said that is not in    *)
(* the draft is told.                                                         *)
DraftGrounded(statement, reply) ==
    LET answer == InterpretRule(statement, reply) IN
    answer.outcome = "draft" =>
        LET d == answer.draft IN
        /\ d.days # None => d.days \in DaysOf(statement, "ordinary")
        /\ d.severe # None =>
              /\ d.severe \in DaysOf(statement, "severe") \ DaysOf(statement, "ordinary")
              /\ d.days # None => d.severe <= d.days
        /\ d.releases # None => d.releases \in statement.releases
        /\ (reply.days # d.days => "days" \in d.repairs) /\ (reply.severe # d.severe => "severe" \in d.repairs)
=============================================================================
