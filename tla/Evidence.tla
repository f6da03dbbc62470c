------------------------------ MODULE Evidence ------------------------------
(***************************************************************************)
(* The comparison of two compact inventories, summaries/evidence.py.        *)
(*                                                                          *)
(* Facts are a partial function from section names to contents.  The app    *)
(* list maps <<identity, version>> to an assessment, the extension          *)
(* attributes map a definition to [name, values], and a scalar section maps *)
(* its fields to values.  A section that is absent was not observed.        *)
(***************************************************************************)
EXTENDS Naturals, FiniteSets

CONSTANTS Identities, Versions, Assessments, \* of apps
          Scalars, Fields, Values,           \* of operatingSystem, security, ...
          Definitions, Labels,               \* of extension attributes
          NoFacts                            \* nothing observed before

SectionsAssumption == {"apps", "ea"} \cap Scalars = {}

Sections == {"apps", "ea"} \cup Scalars
AppKeys == Identities \X Versions

Partial(D, R) == UNION {[S -> R] : S \in SUBSET D}
AppLists == Partial(AppKeys, Assessments)
Attributes == Partial(Definitions, [name: Labels, values: Values])
ScalarSections == Partial(Fields, Values)

IsFacts(f) ==
    /\ DOMAIN f \subseteq Sections
    /\ "apps" \in DOMAIN f => f["apps"] \in AppLists
    /\ "ea" \in DOMAIN f => f["ea"] \in Attributes
    /\ \A s \in DOMAIN f \cap Scalars : f[s] \in ScalarSections

-----------------------------------------------------------------------------
(* Applications: one old and one new key of an identity that differ are a   *)
(* version change; every other key that differs is told by itself.          *)
KeysOf(apps, i) == {k \in DOMAIN apps : k[1] = i}

Renewed(before, after, i) ==
    /\ Cardinality(KeysOf(before, i)) = 1
    /\ Cardinality(KeysOf(after, i)) = 1
    /\ KeysOf(before, i) # KeysOf(after, i)

Paired(before, after) ==
    {k \in DOMAIN before \cup DOMAIN after : Renewed(before, after, k[1])}

VersionChanges(before, after) ==
    {[reason |-> "version_changed",
      from |-> CHOOSE k \in KeysOf(before, i) : TRUE,
      to |-> CHOOSE k \in KeysOf(after, i) : TRUE] : i \in {x \in Identities : Renewed(before, after, x)}}

Reason(before, after, k) ==
    IF k \notin DOMAIN before THEN "installed"
    ELSE IF k \notin DOMAIN after THEN "removed" ELSE "assessment_changed"

Differs(before, after, k) ==
    \/ k \notin DOMAIN before
    \/ k \notin DOMAIN after
    \/ before[k] # after[k]

AppChanges(before, after) ==
    VersionChanges(before, after)
        \cup {[reason |-> Reason(before, after, k), from |-> k, to |-> k] :
                 k \in {x \in (DOMAIN before \cup DOMAIN after) \ Paired(before, after) :
                            Differs(before, after, x)}}

-----------------------------------------------------------------------------
ChangedFields(before, after) ==
    {x \in DOMAIN before \cap DOMAIN after : before[x] # after[x]}

\* The values of an attribute are compared, its label is not.
ChangedAttributes(before, after) ==
    {x \in DOMAIN before \cap DOMAIN after : before[x].values # after[x].values}

SectionChanges(s, before, after) ==
    CASE s = "apps" -> AppChanges(before, after)
      [] s = "ea"   -> {[field |-> x, from |-> before[x].values, to |-> after[x].values] :
                            x \in ChangedAttributes(before, after)}
      [] OTHER      -> {[field |-> x, from |-> before[x], to |-> after[x]] :
                            x \in ChangedFields(before, after)}

Meaningful(prev, cur) ==
    UNION {{<<s, c>> : c \in SectionChanges(s, prev[s], cur[s])} : s \in DOMAIN prev \cap DOMAIN cur}

\* What is seen for the first time: a section, an attribute or a field.
NewlyObserved(prev, cur) ==
    \/ DOMAIN cur \ DOMAIN prev # {}
    \/ \E s \in (DOMAIN cur \cap DOMAIN prev) \ {"apps"} : DOMAIN cur[s] \ DOMAIN prev[s] # {}

\* An attribute definition that is gone is no gap; a scalar field is.
MissingSections(prev, cur) ==
    ((DOMAIN prev \cup Scalars \cup {"apps"}) \ DOMAIN cur)
        \cup {s \in DOMAIN cur \cap DOMAIN prev \cap Scalars : DOMAIN prev[s] \ DOMAIN cur[s] # {}}

Kind(prev, cur) ==
    IF prev = NoFacts THEN "baseline"
    ELSE IF Meaningful(prev, cur) # {} THEN "changed"
    ELSE IF NewlyObserved(prev, cur) THEN "baseline"
    ELSE IF MissingSections(prev, cur) # {} THEN "incomplete"
    ELSE "unchanged"

-----------------------------------------------------------------------------
(* How collect() folds an observation into the state: lists are replaced,   *)
(* a scalar section keeps the fields this read did not carry.               *)
Over(new, old) == [x \in DOMAIN new \cup DOMAIN old |-> IF x \in DOMAIN new THEN new[x] ELSE old[x]]

Merge(prev, cur) ==
    IF prev = NoFacts THEN cur
    ELSE [s \in DOMAIN prev \cup DOMAIN cur |->
             IF s \notin DOMAIN cur THEN prev[s]
             ELSE IF s \in Scalars /\ s \in DOMAIN prev THEN Over(cur[s], prev[s])
             ELSE cur[s]]

-----------------------------------------------------------------------------
(* Properties.                                                              *)

\* The app list after the changes it is said to have gone through.
Replayed(apps, changes) ==
    (DOMAIN apps \ {c.from : c \in {x \in changes : x.reason \in {"removed", "version_changed"}}})
        \cup {c.to : c \in {x \in changes : x.reason \in {"installed", "version_changed"}}}

\* Two observations that say different things of what both carry are told apart.
KeepsKnown(prev, cur) ==
    \A s \in DOMAIN prev \cap DOMAIN cur :
        IF s = "apps" THEN prev[s] = cur[s]
        ELSE \A x \in DOMAIN prev[s] \cap DOMAIN cur[s] :
                 IF s = "ea" THEN prev[s][x].values = cur[s][x].values ELSE prev[s][x] = cur[s][x]

\* An observation that is not told as a change contradicts nothing known, and a told
\* difference of app lists replays to the new list, each assessment that moved named
\* (compare): a briefing says nothing exactly when there is nothing to say.
ChangesTellAll(prev, cur) ==
    prev # NoFacts =>
        /\ Kind(prev, cur) = "changed" <=> ~KeepsKnown(prev, cur)
        /\ "apps" \in DOMAIN prev \cap DOMAIN cur =>
               LET before == prev["apps"]  after == cur["apps"]
                   changes == AppChanges(before, after)
               IN /\ Replayed(before, changes) = DOMAIN after
                  /\ \A k \in DOMAIN before \cap DOMAIN after :
                         before[k] # after[k] => \E c \in changes : k \in {c.from, c.to}
=============================================================================
