------------------------------ MODULE Matching ------------------------------
(***************************************************************************)
(* Which Jamf Patch titles an installed app belongs to, and what each says  *)
(* of its version: mdm/patch/requirements.py (tests, groups, detection) and *)
(* mdm/patch/matching.py (the index, the decision, the version questions    *)
(* and the summary of several titles).                                      *)
(*                                                                          *)
(* A text is a value already folded; what a criterion asks of two texts is  *)
(* given by relations, and a text's version is the runs of digits in it.    *)
(* A title has a bundle (its bundleId column, Empty without), a current     *)
(* version, patches (a sequence of [version, released]), requirements (a    *)
(* set of groups, each a set of tests), definitions (attribute key to       *)
(* display name) and a rank, its place by name and id.  A test has about    *)
(* ("attribute" for an extension attribute), name, operator and value.      *)
(***************************************************************************)
EXTENDS Integers, Sequences, FiniteSets

CONSTANTS
    Texts, Empty,
    Contains,   \* pairs <<a, e>>: e is part of a
    Matches,    \* pairs <<a, e>>: the pattern e is found in a
    Digits,     \* the digit runs of a text
    Unknown     \* None

TextsAssumption == Empty \in Texts /\ Unknown \notin Texts \cup Int
DigitsAssumption == Digits \in [Texts -> Seq(Nat)]
RelationsAssumption == Contains \subseteq Texts \X Texts /\ Matches \subseteq Texts \X Texts

Recon == {"bundle", "title", "version", "os", "platform"}
Known == {"is", "is not", "like", "has", "not like", "matches regex", "does not match regex",
          "greater than", "greater than or equal", "less than", "less than or equal"}

----------------------------------------------------------------------------
(* Versions.                                                                *)

\* Component i; missing ones are zero.
At(v, i) == IF i \in DOMAIN Digits[v] THEN Digits[v][i] ELSE 0

\* A bug: any component that is greater decides.
Newer_AnyComponent(a, b) == \E i \in DOMAIN Digits[a] : At(a, i) > At(b, i)

\* compare_versions(a, b) > 0: the first component that differs decides.
Newer(a, b) ==
    \E i \in DOMAIN Digits[a] :
        /\ At(a, i) > At(b, i)
        /\ \A j \in 1..(i - 1) : At(a, j) = At(b, j)

compare(operator, actual, expected) ==
    CASE operator = "is" -> actual = expected
      [] operator = "is not" -> actual # expected
      [] operator \in {"like", "has"} -> <<actual, expected>> \in Contains
      [] operator = "not like" -> <<actual, expected>> \notin Contains
      [] operator = "matches regex" -> <<actual, expected>> \in Matches
      [] operator = "does not match regex" -> <<actual, expected>> \notin Matches
      [] operator = "greater than" -> Newer(actual, expected)
      [] operator = "greater than or equal" -> ~Newer(expected, actual)
      [] operator = "less than" -> Newer(expected, actual)
      [] OTHER -> ~Newer(actual, expected)

----------------------------------------------------------------------------
(* Requirements.                                                            *)

Fold(text) == IF text = Unknown THEN Empty ELSE text
Known1(value) == {value} \ {Unknown}

\* What is known of the fact a test asks about; an attribute is looked up by key, then by
\* the display name its definition gives it.
Attribute(title, facts, name) ==
    IF name \in DOMAIN facts.attributes THEN {facts.attributes[name]}
    ELSE IF name \in DOMAIN title.definitions /\ title.definitions[name] \in DOMAIN facts.attributes
    THEN {facts.attributes[title.definitions[name]]}
    ELSE {}

Actual(title, facts, test) ==
    CASE test.about = "attribute" -> {Fold(v) : v \in Attribute(title, facts, test.name)}
      [] test.about = "bundle" -> Known1(facts.bundle)
      [] test.about = "title" -> Known1(facts.name)
      [] test.about = "version" -> {facts.versions[i] : i \in DOMAIN facts.versions}
      [] test.about = "os" -> Known1(facts.os)
      [] test.about = "platform" -> Known1(facts.platform)
      [] OTHER -> {}

\* A missing attribute is assumed to pass; another unknown fact cannot be applied.
evaluate_test(title, facts, test) ==
    LET actual == Actual(title, facts, test) IN
    IF actual = {} THEN IF test.about = "attribute" THEN "pass" ELSE "not_applicable"
    ELSE IF test.operator \notin Known THEN "not_applicable"
    ELSE IF \E a \in actual : compare(test.operator, a, test.value) THEN "pass" ELSE "fail"

evaluate_group(title, facts, group) ==
    LET outcomes == {evaluate_test(title, facts, test) : test \in group} IN
    IF group = {} \/ "fail" \in outcomes THEN "not_matched"
    ELSE IF "not_applicable" \in outcomes THEN "inconclusive" ELSE "matched"

detection_for(title) ==
    LET tests == UNION title.requirements IN
    IF \E test \in tests : test.about \in {"bundle", "title"} THEN "inventory"
    ELSE IF tests # {} /\ \A test \in tests : test.about = "attribute" THEN "extension_attribute"
    ELSE "none"

\* An attribute-only title counts only when Jamf names its bundle.
admitted(title) ==
    \/ detection_for(title) = "inventory"
    \/ detection_for(title) = "extension_attribute" /\ title.bundle # Empty

----------------------------------------------------------------------------
(* The index and the decision.                                              *)

\* A bug: a criterion that widens counts as one that pins.
Pins_Like(group) == {test.value : test \in {x \in group : x.about = "bundle" /\ x.operator \in {"is", "like", "has"}}}

Pins(group) == {test.value : test \in {x \in group : x.about = "bundle" /\ x.operator = "is"}}

required_bundle_ids(title) == UNION {Pins(group) : group \in title.requirements}

\* Every app is asked about a title that some group does not pin.
Broad(title) ==
    /\ detection_for(title) = "inventory"
    /\ \E group \in title.requirements : Pins(group) = {}

Keys(title) ==
    IF detection_for(title) = "extension_attribute" THEN {title.bundle} ELSE required_bundle_ids(title)

candidates(titles, bundle) ==
    {t \in titles : admitted(t) /\ (Broad(t) \/ Fold(bundle) \in Keys(t))}

Attributes(group) == {test \in group : test.about = "attribute"}

\* Device scoping: attribute tests alone, in a title that is not made of them.
Scoping(title, group) ==
    detection_for(title) # "extension_attribute" /\ group # {} /\ Attributes(group) = group

Assumed(title, facts, group) == \E test \in Attributes(group) : Attribute(title, facts, test.name) = {}

_decide(title, facts) ==
    LET matched == {g \in title.requirements :
                        ~Scoping(title, g) /\ evaluate_group(title, facts, g) = "matched"} IN
    IF detection_for(title) = "extension_attribute" /\ title.bundle # Fold(facts.bundle) THEN "none"
    ELSE IF matched = {} THEN "none"
    ELSE IF \E g \in matched : ~Assumed(title, facts, g) THEN "requirements" ELSE "ea_assumed"

----------------------------------------------------------------------------
(* The version questions.                                                   *)

Patches(title) == DOMAIN title.patches
Lowest(S) == CHOOSE x \in S : \A y \in S : x <= y
Highest(S) == CHOOSE x \in S : \A y \in S : y <= x

\* The patches listed under a version, and the first of them.
Listed(title, version) == {i \in Patches(title) : version # Empty /\ title.patches[i].version = version}
ReleasedAt(title, version) ==
    IF Listed(title, version) = {} THEN Unknown ELSE title.patches[Lowest(Listed(title, version))].released

Missed(title, installed) == {i \in Patches(title) : Newer(title.patches[i].version, installed)}

\* A bug: the last release a build missed dates it.
first_newer_Last(title, installed) ==
    LET dates == {title.patches[i].released : i \in Missed(title, installed)} \ {Unknown} IN
    IF dates = {} THEN ReleasedAt(title, title.current) ELSE Highest(dates)

first_newer(title, installed) ==
    LET dates == {title.patches[i].released : i \in Missed(title, installed)} \ {Unknown} IN
    IF dates = {} THEN ReleasedAt(title, title.current) ELSE Lowest(dates)

\* The first version the title lists, the first one otherwise.
Installed(title, versions) ==
    LET listed == {i \in DOMAIN versions : Listed(title, versions[i]) # {}} IN
    versions[IF listed = {} THEN 1 ELSE Lowest(listed)]

State(title, versions) ==
    IF \E i \in DOMAIN versions : versions[i] = title.current THEN "latest"
    ELSE IF versions # <<>> /\ Newer(Installed(title, versions), title.current) THEN "ahead"
    ELSE IF versions # <<>> /\ Listed(title, Installed(title, versions)) # {} THEN "behind"
    ELSE "unknown"

classify(title, versions) ==
    LET state == State(title, versions)
        open == state \in {"behind", "unknown"} /\ versions # <<>> IN
    [title |-> title, state |-> state,
     known |-> versions # <<>> /\ Listed(title, Installed(title, versions)) # {},
     first |-> IF open THEN first_newer(title, Installed(title, versions)) ELSE Unknown,
     missed |-> IF versions = <<>> THEN Unknown
                ELSE IF open THEN Cardinality(Missed(title, Installed(title, versions))) ELSE 0]

\* Only macOS, or a platform nobody knows, considers titles.
match_app(titles, facts) ==
    IF facts.platform \notin {"Mac", Unknown} THEN {}
    ELSE {[answer |-> classify(t, facts.versions), basis |-> _decide(t, facts)] :
              t \in {x \in candidates(titles, facts.bundle) : _decide(x, facts) # "none"}}

----------------------------------------------------------------------------
(* The summary of the titles of one app, a sequence of matches in the order *)
(* match_app gives them: fully decided first.                               *)

\* version_tuple: of equal versions the longer is higher.
Higher(a, b) == Newer(a, b) \/ (~Newer(b, a) /\ Len(Digits[a]) > Len(Digits[b]))

Rolling(m, n) ==
    \/ Higher(m.answer.title.current, n.answer.title.current)
    \/ /\ ~Higher(n.answer.title.current, m.answer.title.current)
       /\ m.basis = "requirements" /\ n.basis # "requirements"

\* The title of the state and the latest version: one that says latest, or the rolling one.
reference(ms) ==
    LET latest == {i \in DOMAIN ms : ms[i].answer.state = "latest"} IN
    IF latest # {} THEN Lowest(latest)
    ELSE Lowest({i \in DOMAIN ms : \A j \in DOMAIN ms : ~Rolling(ms[j], ms[i])})

Behind(ms) == {i \in DOMAIN ms : ms[i].answer.state \in {"behind", "unknown"}}
patch_available(ms) == Behind(ms) # {} /\ \A i \in DOMAIN ms : ms[i].answer.state # "latest"

Count(i, ms) == IF ms[i].answer.missed = Unknown THEN 0 ELSE ms[i].answer.missed

\* A bug: the title that missed the most releases gives the sentence, dated or not.
sentence_Longest(ms) ==
    IF ~patch_available(ms) THEN {}
    ELSE {Lowest({i \in Behind(ms) : \A j \in Behind(ms) : Count(j, ms) <= Count(i, ms)})}

\* The title behind for longest, the one that missed the most if none is dated.
sentence(ms) ==
    LET dated == {i \in Behind(ms) : ms[i].answer.first # Unknown} IN
    IF ~patch_available(ms) THEN {}
    ELSE IF dated # {}
    THEN {Lowest({i \in dated : \A j \in dated : ms[i].answer.first <= ms[j].answer.first})}
    ELSE {Lowest({i \in Behind(ms) : \A j \in Behind(ms) : Count(j, ms) <= Count(i, ms)})}

\* What summarize says, and _apply_summary writes.
summarize(ms) ==
    LET r == reference(ms)
        Of(field, i) == ms[i].answer[field]
        Told(value(_)) == IF sentence(ms) = {} THEN Unknown ELSE value(Lowest(sentence(ms))) IN
    [titles |-> [i \in DOMAIN ms |-> ms[i].id],
     state |-> ms[r].answer.state,
     available |-> patch_available(ms),
     seen |-> \E i \in DOMAIN ms : ms[i].answer.known,
     assumed |-> \E i \in DOMAIN ms : ms[i].basis = "ea_assumed",
     latest |-> ms[r].answer.title.current,
     reference |-> ms[r].id,
     sentence |-> Told(LAMBDA i : ms[i].id),
     since |-> Told(LAMBDA i : ms[i].answer.first),
     missed |-> Told(LAMBDA i : ms[i].answer.missed)]

----------------------------------------------------------------------------
(* Properties, one for each question.                                       *)

\* Comparing versions is an order in which 4.2 and 4.2.0 are one place: releases missed,
\* the date a patch became available and "ahead" all rest on it (compare_versions).
CompareIsAnOrder(a, b, c) ==
    /\ ~(Newer(a, b) /\ Newer(b, a))
    /\ Newer(a, b) => Newer(a, c) \/ Newer(c, b)

\* The index asks fewer titles and never loses a match: whatever a considered title would
\* decide, it is among the candidates for the app (Catalog, required_bundle_ids).
IndexLosesNothing(title, facts) ==
    admitted(title) /\ _decide(title, facts) # "none" => title \in candidates({title}, facts.bundle)

\* Of two installed versions the newer never missed more releases, never waits longer and
\* is never the only one behind, duplicates and undated entries of the list included.
UpgradingNeverHurts(title, v, w) ==
    LET old == classify(title, <<v>>)  new == classify(title, <<w>>) IN
    Newer(w, v) =>
        /\ new.missed <= old.missed
        /\ old.state \in {"latest", "ahead"} => new.state = "ahead"
        /\ new.first # Unknown => old.first # Unknown /\ old.first <= new.first

\* An upgrade never makes an app look older: while a patch stays available it does not become
\* overdue since an earlier day, whichever title says so, and a summary names its subjects
\* among the titles it matched (summarize).
SummaryIsOneSentence(old, new) ==
    LET before == summarize(old)  after == summarize(new) IN
    /\ before.available /\ after.since # Unknown => before.since # Unknown /\ before.since <= after.since
    /\ \A told \in {before, after} :
          /\ told.state = "latest" => ~told.available
          /\ told.available => \E i \in DOMAIN told.titles : told.titles[i] = told.sentence
=============================================================================
