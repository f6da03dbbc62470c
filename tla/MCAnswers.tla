----------------------------- MODULE MCAnswers -----------------------------
(***************************************************************************)
(* The pure answers for TLC: which titles an app belongs to and how far     *)
(* behind it is (Matching), whether that is within the policy (Policy),     *)
(* what two inventories differ in (Evidence) and what of it is logged        *)
(* (Changes), the keys of a night (Tape), the record a request yields        *)
(* (Contract), what goes out on the wires (Wire), the evidence report        *)
(* (Baseline), what a prompt makes of a reply (Prompt) and what a list says    *)
(* of stored answers (Served).  A state asks one question.                   *)
(***************************************************************************)
EXTENDS Integers, Sequences, FiniteSets, TLC

CONSTANTS Unknown, Gone

Some(S, n) == UNION {{T \in SUBSET S : Cardinality(T) = k} : k \in 0..n}
UpTo(S, n) == UNION {[1..k -> S] : k \in 0..n}

\* Texts: two bundles, one part of the other, and three versions, two of them equal.
VersionTexts == {"4.2", "4.2.0", "4.10", "5"}
AllTexts == {"", "a", "ab"} \cup VersionTexts
DigitRuns ==
    [t \in AllTexts |-> CASE t = "4.2" -> <<4, 2>> [] t = "4.2.0" -> <<4, 2, 0>>
                          [] t = "4.10" -> <<4, 10>> [] t = "5" -> <<5>> [] OTHER -> <<>>]
PartOf == {p \in AllTexts \X AllTexts : p[2] = "" \/ p[1] = p[2] \/ p = <<"ab", "a">>}

M == INSTANCE Matching WITH
    Texts <- AllTexts, Empty <- "", Contains <- PartOf, Matches <- PartOf, Digits <- DigitRuns

P == INSTANCE Policy WITH Titles <- {"x", "y"}, MaxDays <- 2, MaxReleases <- 1, Null <- Unknown

E == INSTANCE Evidence WITH
    Identities <- {"i", "j"}, Versions <- {1, 2}, Assessments <- {"safe", "hit"},
    Scalars <- {"os"}, Fields <- {"build", "name"}, Values <- {1, 2},
    Definitions <- {"e"}, Labels <- {"l", "m"}, NoFacts <- Gone

Test(about, operator, value) == [about |-> about, name |-> "a", operator |-> operator, value |-> value]
Tests ==
    {Test("bundle", "is", "a"), Test("bundle", "like", "a"), Test("bundle", "between", "a"),
     Test("title", "is not", "a"), Test("version", "less than", "5"), Test("attribute", "is", "a")}
Title(bundle, current, patches, requirements, definitions) ==
    [bundle |-> bundle, current |-> current, patches |-> patches, requirements |-> requirements,
     definitions |-> definitions]
Definitions == {<<>>, "a" :> "ab"}
TitlesAsked ==
    {Title(bundle, "5", <<>>, groups, definitions) :
        bundle \in {"", "a"}, groups \in Some(Some(Tests, 2), 2), definitions \in Definitions}
FactsAsked ==
    [name: {Unknown, "a"}, bundle: {Unknown, "a", "ab"}, versions: {<<>>, <<"4.2">>},
     os: {Unknown}, platform: {"Mac"}, attributes: {<<>>, "a" :> "ab", "ab" :> "a"}]

Released == {Unknown, 1, 2}
Lists == UpTo([version: {"4.2", "4.10", "5"}, released: Released], 3)

Lines == {Title("a", current, patches, {}, <<>>) :
              current \in {"4.2", "5"}, patches \in UpTo([version: {"4.2", "4.10", "5"}, released: Released], 1)}
Told(x, y, versions, basis) ==
    <<[id |-> "x", basis |-> "requirements", answer |-> M!classify(x, versions)],
      [id |-> "y", basis |-> basis, answer |-> M!classify(y, versions)]>>

\* Each limit unset, at both ends, and past its ceiling.
Stored == [days: {Unknown, 0, 1, 3}, releases: {Unknown, 0, 2}, severe: {Unknown, 0, 2}, exempt: BOOLEAN] \cup {Unknown}
Pairs == [state: {"latest", "behind", "unknown"}, since: {Unknown, 0, 1}, missed: {Unknown, 1},
          severe: {"yes", "no", "unknown"}]
Held == [days: {Unknown, 0, 1}, releases: {Unknown, 0, 1}, severe: {Unknown, 0}, exempt: {FALSE}]

AppFacts == {[s \in {"apps"} |-> apps] : apps \in E!AppLists} \cup {<<>>}
OtherFacts ==
    {[s \in D |-> IF s = "os" THEN os ELSE ea] :
        D \in SUBSET {"os", "ea"}, os \in E!ScalarSections, ea \in E!Attributes}

\* Changes: two apps, one of them the system's, a smart group, an attribute.
C == INSTANCE Changes WITH
    Fields <- (<<"operating_system", "version">> :> "high" @@ <<"operating_system", "build">> :> "high"),
    Kinds <- ("application" :> "normal" @@ "group_membership" :> "normal"
              @@ "extension_attribute" :> "normal" @@ "account" :> "high"),
    EntryFields <- (<<"application", "version">> :> "normal" @@ <<"application", "flag">> :> "low"
              @@ <<"account", "admin">> :> "high"),
    SystemApps <- {"sys"}, None <- Gone

Entry(kind, id, version, flag) == [kind |-> kind, id |-> id, body |-> [version |-> version, flag |-> flag]]
AppEntries == {Entry("application", id, v, f) : id \in {"sys", "app"}, v \in 1..2, f \in {1}}
                \cup {Entry("application", "app", 1, 2)}
Group == Entry("group_membership", "g", 1, 1)
EntryChanges ==
    {C!Change("updated", Entry("application", id, 1, 1), Entry("application", id, v, 2)) :
        id \in {"sys", "app"}, v \in 1..2}
      \cup {C!Change("removed", x, Gone) : x \in {Entry("application", "app", 1, 1), Group}}
      \cup {C!Change("added", Gone, Entry("account", "u", 1, 1))}
FieldChanges ==
    {{}} \cup {{[field |-> <<"operating_system", f>>, old |-> 1, new |-> 2]} : f \in {"version", "build"}}
Switches == {<<"application">>, <<"application", "version">>, <<"application", "flag">>,
             <<"group_membership", "removed">>, <<"group_membership">>}
Overrides ==
    [minimum: {"high", "normal", "low", "loud"},
     fields: {<<>>} \cup [{<<"operating_system", "version">>} -> BOOLEAN],
     entries: UNION {[T -> BOOLEAN] : T \in Some(Switches, 2)},
     individually: BOOLEAN, muted: {{}, {<<"group_membership", "g">>}}]
Persons == [username: {"", "a"}, email: {"", "ab"}, realName: {"", "a", "b"}]
Observed == {<<>>} \cup {[s \in {"user_and_location"} |-> p] : p \in Persons}

\* Tape: two devices, two builds, two titles of which the second lists only one build.
N == INSTANCE Tape WITH
    Devices <- {"d", "e"}, Builds <- {1, 2}, Titles <- {"x", "y"}, Week <- 2, Laggard <- 1, None <- Gone

Device(active, departed, seen) == [active |-> active, departed |-> departed, seen |-> seen]
Standings == {Device(a, g, s) : a \in BOOLEAN, g \in {Gone, 0, 1}, s \in {Gone, 1}}
Matches ==
    {Gone} \cup {[state |-> "behind", newer |-> n] : n \in {Gone, 1, 2}}
      \cup {[state |-> s, newer |-> Gone] : s \in {"latest", "ahead", "unknown"}}
Verdicts == {Gone} \cup {v \in [covered: BOOLEAN, epoch: 1..2, total: 0..1, kev: 0..1] : v.kev <= v.total}
Kept(mac, match, listed, answer) ==
    [mac |-> mac, match |-> [t \in {"x", "y"} |-> IF t = "x" THEN match ELSE listed], answer |-> answer]
Fleet(d, holds, one, two, epoch) ==
    [device |-> [x \in {"d", "e"} |-> IF x = "d" THEN d ELSE Device(TRUE, Gone, 1)],
     holds |-> holds, build |-> <<one, two>>, epoch |-> epoch]

\* Contract: two display sections, the applications, a key nobody knows.
J == INSTANCE Contract WITH
    Carriers <- {"general", "hardware"}, Lists <- {"applications"}, Strange <- "novel",
    EA <- "extension_attributes", Id <- "id", Values <- "values",
    Content <- {"name"},
    Absences <- {Gone, Unknown}, None <- Gone

Attribute(id, values) == [id |-> id, values |-> values, name |-> "l"]
Shown == {Gone, <<>>} \cup {<<a>> : a \in {Attribute("e", <<2, 1>>), Attribute("q", <<>>), Attribute(Gone, <<1>>)}}
Object(body, shown) == [body |-> body, items |-> <<>>, attributes |-> shown]
List(items) == [body |-> <<>>, items |-> items, attributes |-> Gone]
Bodies == {<<>>, "name" :> 1, "name" :> Unknown, "noise" :> 1}
Details ==
    {("general" :> Object(g, a) @@ "hardware" :> Object(<<>>, b) @@ "novel" :> Object(<<>>, c)
      @@ "applications" :> List(apps) @@ "extension_attributes" :> List(top)) :
        g \in Bodies, a \in Shown, b, c \in {Gone, <<Attribute("e", <<2, 1>>)>>},
        apps \in {<<>>, <<"name" :> 1>>, <<"name" :> Unknown>>}, top \in Shown \ {Gone}}
Scopes == SUBSET {"general", "hardware", "applications", "extension_attributes"} \ {{}}
Criteria == {q \in UpTo([priority: 0..2, name: {"a", "b"}], 3) : Len(q) = 3}

\* Wire: two bands, a cap of two ids, an object and a list the registry names.
W == INSTANCE Wire WITH
    Bands <- <<"critical", "low">>, IdsCap <- 2, None <- Gone,
    Registry <- <<<<"general", FALSE>>, <<"app", TRUE>>, <<"cert", TRUE>>>>

Findings == {[id |-> i, published |-> p, severity |-> s, kev |-> i = 2] :
                i \in 1..3, p \in {1, 4}, s \in {"critical", "low", Gone}}
Reports == {S \in Some(Findings, 3) : \A f, g \in S : f.id = g.id => f = g}
Spelled == {<<"", "plain">>, <<"", "spaced">>, <<"a", "plain">>, <<"a", "spaced">>}
Apps == [name: Spelled, bundle: Spelled, version: {<<"1", "plain">>}]
RowsOf(app) ==
    {[app |-> app, titles |-> titles, state |-> state, reference |-> r, sentence |-> s, since |-> p[1], missed |-> p[2]] :
        titles \in {<<>>, <<"x">>, <<"x", "y">>}, state \in {Gone, "behind"},
        r, s \in {Gone, "x"}, p \in {<<Gone, Gone>>, <<1, Gone>>, <<Gone, 1>>}}
Named == {<<>>, "x" :> "X", "x" :> "X" @@ "y" :> "Y"}
Detected ==
    {<<>>, "x" :> "inventory", "x" :> "inventory" @@ "y" :> "inventory", "x" :> "inventory" @@ "y" :> "extension_attribute"}
OneApp == [name |-> <<"a", "plain">>, bundle |-> <<"a", "plain">>, version |-> <<"1", "plain">>]
SameApp == [OneApp EXCEPT !.name = <<"a", "spaced">>]
\* Apps whose block is off, clean or not, and a section a newer producer added, as any value.
BlocksOut ==
    {W!vuln_block(asOf, W!Findings(F), 4) : asOf \in {Gone, 1}, F \in {{}, {[id |-> 1, published |-> 4, severity |-> "low", kev |-> FALSE]}}}
AppsOut == {("app" :> 1 @@ "vuln" :> block) : block \in BlocksOut}
Novel == {W!Object(1)} \cup {W!ListOf(items) : items \in UpTo({W!Bare(2), "novel" :> 2, "odd" :> 3}, 2)}
Wrapped == [general: {W!Object(1)}, app: {W!ListOf(items) : items \in UpTo(AppsOut, 2)},
            cert: {W!ListOf(items) : items \in UpTo({"cert" :> 1}, 2)}, novel: Novel]
Payloads ==
    {[k \in D \cup {"event", "occurredAt", "deviceMeta"} |-> IF k \in DOMAIN w THEN w[k] ELSE k] :
        D \in SUBSET {"general", "app", "cert", "novel", "jobID"}, w \in Wrapped}

\* Baseline: two ticks a second, a document with a field and one of another version.
B == INSTANCE Baseline WITH Second <- 2, Version <- "v0", NotCollected <- [text |-> "NOT_COLLECTED", version |-> Gone], None <- Gone

Digest(version) == [version |-> version]
SpansOf(n) ==
    {[i \in 1..n |-> [digest |-> d[i], first |-> 2 * t[2 * i - 1], last |-> 2 * t[2 * i], count |-> 1]] :
        d \in [1..n -> {Digest("v0"), Digest("v1"), Gone}],
        t \in {u \in [1..(2 * n) -> 0..3] : \A k \in 1..(2 * n - 1) : u[k] <= u[k + 1]}}
Departures == {<<>>, <<<<5, Gone>>>>, <<<<3, 5>>, <<5, Gone>>>>}
Rule(field) == [field |-> field, operator |-> "version_at_least", operand |-> <<14, 7>>]
Stored14 == [v \in {Digest("v0"), Digest("v1")} |-> "os" :> [text |-> "14.7.1", version |-> <<14, 7, 1>>]]

\* Prompt: three computers and a group, names that are kinds, serials and words not allowed.
Row1(device, kind, names, things, section, change, at, model) ==
    [device |-> device, kind |-> kind, names |-> names, things |-> things, level |-> "normal",
     section |-> section, change |-> change, at |-> at,
     meta |-> [managed |-> {"true"}, model |-> {model}, os_version |-> {"15"}, department |-> {"7"}]]
ChangeRows ==
    {Row1(1, "computer", {"S1", "mac"}, {"app"}, "applications", "added", 1, "air"),
     Row1(1, "computer", {"S1", "mac"}, {"app"}, "applications", "updated", 2, "air"),
     Row1(2, "computer", {"mac"}, {}, "hardware", "changed", 2, "pro"),
     Row1(3, "group", {"app"}, {"app"}, "applications", "removed", 3, "none")}
Q == INSTANCE Prompt WITH
    Log <- ChangeRows, Units <- ("sales" :> {[id |-> "7"]} @@ "both" :> {[id |-> "7"], [id |-> "8"]}),
    Shapes <- [refused |-> {"r*"}, serials |-> {"S1", "S2"}, kinds |-> {"a kind"}, parts |-> {<<"app", "app">>},
               ids |-> {"an id"}, unmanaged |-> {"unmanaged"}, versions |-> {"15"}, ceiling |-> 9],
    None <- Gone

Replies ==
    [search: {Gone, "S1", "S2", "app", "air", "15", "unmanaged", "r*"}, filter: {Gone, "app", "a kind", "sales", "both", "r*"},
     level: {Gone, "odd"}, section: {Gone, "applications", "hardware"}, change: {Gone, "added", "changed"},
     note: {Gone}, extra: {"none", "held"}, refusal: {"absent"}, known: {TRUE}]
      \cup [search: {Gone, "S2"}, filter: {Gone}, level: {Gone, "normal", "odd"}, section: {Gone}, change: {Gone, "odd"},
            note: {Gone, "told"}, extra: {"none", "empty"}, refusal: {"absent", "no", "yes", "odd"}, known: BOOLEAN]
Questions ==
    [serials: {<<>>, <<"S1">>, <<"S1", "S2">>}, typed: {{}}, range: {TRUE}, other: {FALSE}, sections: {{}, {"applications"}},
     since: {[at |-> Gone, closed |-> FALSE], [at |-> 2, closed |-> FALSE], [at |-> 2, closed |-> TRUE]}]
VulnReplies ==
    [app: {Gone, "app", "a kind", "an id", "r*"}, state: Q!STATES \cup {Gone, "odd"}, band: Q!BANDS \cup {Gone, "odd"},
     order: Q!ORDERS \cup {Gone, "odd"}, note: {Gone}, extra: {"none", "held"}, refusal: {"absent", "odd"}, known: {TRUE}]
Statements ==
    [clauses: UpTo([days: Some({5, 7, 12}, 2), case: {"ordinary", "severe", "other"}], 2), releases: {{}, {2}}, patching: {TRUE}]
RuleReplies ==
    [days: {Gone, 5, 7, 12}, severe: {Gone, 5, 7}, releases: {Gone, 2}, refusal: {"absent"}, known: {TRUE}]

\* Served: three findings, one of them known to be exploited, a list of ids cut after one.
L == INSTANCE Served WITH Bands <- {"critical", "low"}, BandOf <- [i \in 1..3 |-> IF i = 1 THEN "critical" ELSE "low"],
    Kev <- {2}, Cap <- 1, None <- Gone
Libraries == [{"v1", "v2"} -> SUBSET (1..3) \cup {Gone}]

ASSUME Instances ==
    /\ M!TextsAssumption /\ M!DigitsAssumption /\ M!RelationsAssumption
    /\ P!CeilingsAssumption /\ P!NullAssumption
    /\ E!SectionsAssumption /\ J!ContractAssumption /\ N!TapeAssumption
    /\ W!WireAssumption /\ B!BaselineAssumption

VARIABLE asked
Init == asked = [about |-> "nothing"]

AskOrder == \E a, b, c \in VersionTexts : asked' = [about |-> "order", a |-> a, b |-> b, c |-> c]
AskTitle == \E t \in TitlesAsked, f \in FactsAsked : asked' = [about |-> "title", title |-> t, facts |-> f]
AskUpgrade ==
    \E patches \in Lists, current \in {"4.2", "5"}, v, w \in VersionTexts :
        asked' = [about |-> "upgrade", title |-> Title("a", current, patches, {}, <<>>), old |-> v, new |-> w]
\* Two titles of one app before and after an upgrade, or of an app without a version.
AskSummary ==
    \E x, y \in Lines, v \in {<<>>} \cup {<<t>> : t \in VersionTexts}, w \in {"4.2", "4.10"}, basis \in {"requirements", "ea_assumed"} :
        asked' = [about |-> "summary", old |-> Told(x, y, v, basis), new |-> Told(x, y, <<w>>, basis),
                  upgrade |-> v # <<>> /\ M!Newer(w, v[1]), version |-> v # <<>>]
AskPolicy ==
    \E default, override \in Stored :
        asked' = [about |-> "policy", default |-> default,
                  overrides |-> [t \in {"x", "y"} |-> IF t = "x" THEN override ELSE Unknown]]
AskChanges ==
    \E p \in (AppFacts \X AppFacts) \cup (OtherFacts \X OtherFacts) \cup ({Gone} \X AppFacts) :
        asked' = [about |-> "changes", before |-> p[1], after |-> p[2]]

AskDiff ==
    \E old, new \in SUBSET (AppEntries \cup {Group}) : asked' = [about |-> "diff", before |-> old, after |-> new]
AskLog ==
    \E document \in Overrides, entries \in Some(EntryChanges, 2) :
        asked' = [about |-> "log", policy |-> C!from_document(document), entries |-> entries]
AskUser ==
    \E stamps \in Some(Observed, 3), text \in {"a", "ab", "b"} :
        asked' = [about |-> "user", stamps |-> stamps, text |-> text]

\* A night of the builds on the devices, and one of what the corpus says of them.
AskNight ==
    \E holds \in SUBSET ({"d", "e"} \X {1, 2}), d \in Standings, m, n \in Matches, at \in 2..3 :
        asked' = [about |-> "night", at |-> at,
                  fleet |-> Fleet(d, holds, Kept(TRUE, m, n, Gone), Kept(TRUE, n, Gone, Gone), Gone)]
AskAssessed ==
    \E holds \in SUBSET ({"d", "e"} \X {1, 2}), d \in Standings, a, b \in Verdicts, epoch \in {Gone, 1} :
        asked' = [about |-> "assessed", at |-> 2,
                  fleet |-> Fleet(d, holds, Kept(TRUE, Gone, Gone, a), Kept(FALSE, Gone, Gone, b), epoch)]

AskRecord == \E detail \in Details, s \in Scopes : asked' = [about |-> "record", detail |-> detail, scope |-> s]
AskGroup == \E q \in Criteria : asked' = [about |-> "group", group |-> [name |-> "g", criteria |-> q]]

AskBlock == \E F \in Reports, cap \in 1..3 : asked' = [about |-> "block", found |-> F, cap |-> cap]
AskRows == \E r \in RowsOf(OneApp), q \in RowsOf(SameApp) : asked' = [about |-> "rows", rows |-> <<r, q>>]
AskApps == \E a, b \in Apps : asked' = [about |-> "apps", apps |-> <<a, b>>]
AskPayload == \E p \in Payloads : asked' = [about |-> "payload", payload |-> p]
AskLines == \E lines \in UpTo(1..3, 4), limit \in 1..6 : asked' = [about |-> "lines", lines |-> lines, limit |-> limit]

AskHistory == \E n \in 0..3 : \E spans \in SpansOf(n) : asked' = [about |-> "history", spans |-> spans]

AskChangesPrompt == \E reply \in Replies : asked' = [about |-> "filters", reply |-> reply]
AskBuildsPrompt == \E reply \in VulnReplies : asked' = [about |-> "builds", reply |-> reply]
AskDraft == \E statement \in Statements : asked' = [about |-> "draft", statement |-> statement]

AskServed ==
    \E library \in Libraries, target \in {Gone, "v1", "v2"}, signature \in {Gone, "old", "new"}, broken \in BOOLEAN, devices \in 0..1 :
        LET row == L!Entry(library, "v1", target, signature, devices, target # Gone) IN
        asked' = [about |-> "served",
                  rows |-> {IF broken THEN L!Broken(row) ELSE row, L!Entry(library, "v2", Gone, "new", 1, FALSE)}]

Next ==
    /\ asked.about = "nothing"
    /\ AskOrder \/ AskTitle \/ AskUpgrade \/ AskSummary \/ AskPolicy \/ AskChanges
       \/ AskDiff \/ AskLog \/ AskUser \/ AskNight \/ AskAssessed
       \/ AskRecord \/ AskGroup
       \/ AskBlock \/ AskRows \/ AskApps \/ AskPayload \/ AskLines \/ AskHistory
       \/ AskChangesPrompt \/ AskBuildsPrompt \/ AskDraft \/ AskServed
Spec == Init /\ [][Next]_asked

\* Versions are in one order, whatever their lengths (compare_versions).
CompareIsAnOrder == asked.about = "order" => M!CompareIsAnOrder(asked.a, asked.b, asked.c)

\* The index loses no match (Catalog, required_bundle_ids, _decide).
IndexLosesNothing == asked.about = "title" => M!IndexLosesNothing(asked.title, asked.facts)

\* An upgrade never makes an answer worse: not what a title says of the build, and not the
\* policy's verdict on it unless the older build was never judged (classify, judge).
Pair(title, version) ==
    LET answer == M!classify(title, <<version>>) IN
    [state |-> answer.state, since |-> answer.first, missed |-> answer.missed, severe |-> "no"]
UpgradingNeverHurts ==
    asked.about = "upgrade" =>
        /\ M!UpgradingNeverHurts(asked.title, asked.old, asked.new)
        /\ M!Newer(asked.new, asked.old) =>
               \A rule \in Held, now \in 0..3 :
                   P!judge(Pair(asked.title, asked.new), rule, now) = "out"
                       => P!judge(Pair(asked.title, asked.old), rule, now) \in {"out", "not_judged"}

\* The summary of several titles is one title's sentence, and what it leaves on a row of an app
\* with a version is what the wire accepts (summarize, JamfPatchAnswer).
Row(ms) ==
    LET told == M!summarize(ms)  Or(x) == IF x = Unknown THEN Gone ELSE x IN
    [app |-> OneApp, titles |-> told.titles, state |-> told.state, reference |-> told.reference,
     sentence |-> Or(told.sentence), since |-> Or(told.since), missed |-> Or(told.missed)]
SummarySound ==
    asked.about = "summary" =>
        /\ asked.upgrade => M!SummaryIsOneSentence(asked.old, asked.new)
        /\ asked.version => W!Judged(Row(asked.old)) /\ W!AnswerStands(W!JamfPatchAnswer(Row(asked.old), <<>>, <<>>))

\* The presence rule and the producer agree by construction (mdm/snapshot.py, _subjects).
ProducerAgrees == asked.about = "summary" => W!AnswerStands(W!JamfPatchAnswer(Row(asked.old), <<>>, <<>>))

\* The devices a policy counts are those its verdict names, and no rule in force is one the
\* parser refuses, whatever was stored (policy.py, out_of_policy).
PolicySound ==
    asked.about = "policy" =>
        /\ P!RulesAreSane(asked.default, asked.overrides)
        /\ \A t \in {"x", "y"}, pair \in Pairs, now \in 0..2 :
               P!CountIsVerdict(asked.default, asked.overrides, t, pair, now)

\* What is told of two inventories is all there is to tell (summaries/evidence.py).
ChangesTellAll == asked.about = "changes" => E!ChangesTellAll(asked.before, asked.after)

\* The change log says what changed, as the policy page says it would, and the feed's
\* filters hide nothing of it (diff.py, policy.py, derive_and_record, api/changes.py).
ChangeLogSound ==
    /\ asked.about = "diff" => C!DiffReplays(asked.before, asked.after)
    /\ asked.about = "log" =>
          \A fields \in FieldChanges, departed \in {{}, {<<"group_membership", "g">>}} :
              C!LogTellsAll(asked.policy, fields, asked.entries, departed)
    /\ asked.about = "user" => C!TokenKeepsRows(asked.stamps, asked.text, PartOf \cup {<<"b", "b">>})

\* The keys of one night stand in the relations a reader of the tape takes for granted
\* (posture.py, _compute and _vuln_values).
TapeSound ==
    asked.about \in {"night", "assessed"} =>
        /\ N!DepartedIsTheGap(asked.fleet, asked.at)
        /\ N!PartsAddUp(asked.fleet, asked.at)
        /\ N!RestIsClean(asked.fleet, asked.at)

\* One device state is one observation, whichever request read it and wherever its attributes
\* are displayed, and the two views of it agree (contract.py, normalize_computer).
ContractSound ==
    /\ asked.about = "record" =>
          /\ \A quarantined \in {{}, {"q"}} :
                /\ J!PageReadsAsDetail(asked.detail, asked.scope, quarantined)
                /\ J!ViewsNameTheSame(asked.detail, asked.scope, quarantined)
                /\ J!DisplayIsNotContent(asked.detail, Attribute("e", <<1>>), asked.scope, quarantined)
          /\ J!NothingDropsUnsaid(asked.detail, asked.scope)
          /\ \A t \in Scopes, c, d \in {Gone, <<>>} :
                J!HeadTellsAperture(asked.detail, asked.scope, t, c, d)
    /\ asked.about = "group" =>
          \A f \in Permutations(1..3) : J!CriteriaOrdered(asked.group, [n \in 1..3 |-> asked.group.criteria[f[n]]])

\* What the snapshot says of an app is accepted on its way out and agrees with what the corpus
\* knows, and every item of it leaves once on every wire (snapshot.py, vuln.py, hec_fanout.py, fanout/).
WireSound ==
    /\ asked.about = "block" => \A at \in 0..5 : W!BlocksAgree(asked.found, asked.cap, at)
    /\ asked.about = "rows" =>
          \A names \in Named, detection \in Detected : W!AnswersStand(asked.rows, names, detection)
    /\ asked.about = "apps" => W!EntriesFindRows(asked.apps)
    /\ asked.about = "payload" => W!FanOutTellsAll(asked.payload)
    /\ asked.about = "lines" => W!ChunksKeepLines(asked.lines, asked.limit)

\* The evidence report covers its window to the second, tells what was witnessed and nothing else,
\* and says what it cannot answer for (baseline/).
BaselineSound ==
    asked.about = "history" =>
        \A from \in {1, 2, 3}, as_of \in {4, 5, 7}, gone \in Departures :
            /\ B!CoverIsExact(asked.spans, gone, from, as_of)
            /\ B!WitnessedIsTold(asked.spans, B!_ISLANDS(asked.spans, as_of), gone, from, as_of)
            /\ B!PageSaysSo(asked.spans, gone, from, as_of, 5, {Rule("os")}, Stored14, {"os", "sip"})
            /\ \A field \in {"os", "sip"} :
                  B!SumCloses(asked.spans, gone, from, as_of, Rule(field), Stored14, {"os", "sip"})

\* What a prompt turns a model's reply into is no more than the reply, the question and the page
\* stand for (ai/changes_prompt.py, ai/vulnerabilities_prompt.py, ai/patch_policy_rules.py).
PromptSound ==
    /\ asked.about = "filters" =>
          \A question \in Questions :
              /\ Q!RunsNoWider(question, asked.reply)
              /\ Q!GuardSettles(question, asked.reply)
              /\ Q!SummaryCloses(question, asked.reply)
    /\ asked.about = "builds" => Q!ListIsCounted(asked.reply)
    /\ asked.about = "draft" => \A reply \in RuleReplies : Q!DraftGrounded(asked.statement, reply)

\* The catalog's filters, its cells, its ranking and its numbers are one rule
\* (core/vuln_answer.py, api/catalog.py).
ServedSound ==
    asked.about = "served" =>
        \A asof \in {Gone, 1}, epoch \in {"old", "new"} :
            /\ L!CellIsFilter(asked.rows, asof, epoch)
            /\ L!PayoffIsEffect(asked.rows, asof, epoch)
            /\ L!ListCloses(asked.rows, asof, epoch)

\* Outside the first and the last observation it is not observed, and only there (intervals.py).
TiedIslandsTold ==
    asked.about = "history" =>
        LET islands == B!_ISLANDS(asked.spans, 7) IN
        \A f \in B!Answers(islands) :
            B!WitnessedIsTold(asked.spans, [i \in DOMAIN islands |-> islands[f[i]]], <<>>, 1, 7)

\* Which titles an app belongs to, how far behind it is and what is said of it in a
\* sentence: one order, one index and one answer that upgrading never makes worse.
MatchingSound == CompareIsAnOrder /\ IndexLosesNothing /\ UpgradingNeverHurts /\ SummarySound

\* What a page says of an app is what its filters, counts and numbers say: the policy's
\* verdicts and the stored answers.
VerdictsSound == PolicySound /\ ServedSound

\* What is told of the past, as evidence, as a log, on the tape or in the report, is what
\* was seen and all of it.
HistorySound == ChangesTellAll /\ ChangeLogSound /\ TapeSound /\ BaselineSound

\* What comes in from Jamf is read one way and loses nothing unsaid; what goes out agrees
\* with it and arrives whole.
BorderSound == ContractSound /\ WireSound

=============================================================================
