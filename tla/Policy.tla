------------------------------- MODULE Policy -------------------------------
(***************************************************************************)
(* The patching policy: what a stored rule means and how it judges a build  *)
(* (mdm/patch/policy.py), and the same judgement as the WHERE clause that   *)
(* counts devices (api/jamf_patch.py).  A pair of a build and a title is    *)
(* what matching.classify says of it: its state, the day the first newer    *)
(* release was listed and how many were missed.  SQL's NULL is Null.        *)
(***************************************************************************)
EXTENDS Integers

CONSTANTS
    Titles,
    MaxDays, MaxReleases, \* ceilings of a typed limit
    Null                  \* a limit that is not set, a fact nobody has

CeilingsAssumption == MaxDays \in Nat /\ MaxReleases \in Nat
NullAssumption == Null \notin Int

Optional(S) == S \cup {Null}

\* A limit is an integer within its ceiling; anything else was never set.
Limit(value, ceiling) == IF value \in 0..ceiling THEN value ELSE Null

Rules == [days: Optional(0..MaxDays), releases: Optional(0..MaxReleases),
          severe: Optional(0..MaxDays), exempt: BOOLEAN]
StoredRules == [days: Optional(Int), releases: Optional(Int), severe: Optional(Int), exempt: BOOLEAN]
Pairs == [state: {"latest", "ahead", "behind", "unknown"},
          since: Optional(Int), missed: Optional(Nat), severe: {"yes", "no", "unknown"}]

judges(rule) == ~rule.exempt /\ (rule.days # Null \/ rule.releases # Null \/ rule.severe # Null)

\* A severe build never gets longer than another.
Kept(severe, days) == IF severe # Null /\ days # Null /\ severe > days THEN Null ELSE severe

Parsed(stored) ==
    LET days == Limit(stored.days, MaxDays) IN
    [days |-> days, releases |-> Limit(stored.releases, MaxReleases),
     severe |-> Kept(Limit(stored.severe, MaxDays), days), exempt |-> stored.exempt]

\* A stored rule, Null when it says nothing; the organization's cannot be exempt.
rule_from(stored) ==
    IF stored # Null /\ (Parsed(stored).exempt \/ judges(Parsed(stored))) THEN Parsed(stored) ELSE Null
default_from(stored) == IF rule_from(stored) # Null /\ judges(rule_from(stored)) THEN rule_from(stored) ELSE Null

from_stored(default, overrides) ==
    [default |-> default_from(default), overrides |-> [t \in Titles |-> rule_from(overrides[t])]]

\* A bug: a limit a title's own rule leaves out falls back to the organization's.
for_title_Merged(rules, t) ==
    IF rules.overrides[t] # Null /\ rules.default # Null /\ ~rules.overrides[t].exempt
    THEN [rules.overrides[t] EXCEPT !.days = IF @ = Null THEN rules.default.days ELSE @]
    ELSE IF rules.overrides[t] # Null THEN rules.overrides[t] ELSE rules.default

\* A title's own rule replaces the organization's.
for_title(rules, t) == IF rules.overrides[t] # Null THEN rules.overrides[t] ELSE rules.default

days_for(rule, severe) == IF severe = "yes" /\ rule.severe # Null THEN rule.severe ELSE rule.days

Late(pair, days, now) == days # Null /\ pair.since # Null /\ now > pair.since + days
Missed(pair, limit) == limit # Null /\ pair.missed # Null /\ pair.missed > limit

judge(pair, rule, now) ==
    IF rule = Null THEN "not_judged"
    ELSE IF ~judges(rule) THEN "not_judged"
    ELSE IF pair.state \in {"latest", "ahead"} THEN "within"
    ELSE IF pair.state # "behind" THEN "not_judged"
    ELSE IF Late(pair, days_for(rule, pair.severe), now) \/ Missed(pair, rule.releases) THEN "out"
    ELSE "within"

----------------------------------------------------------------------------
(* The WHERE clause.                                                        *)

_title_limit(rules, t, field) ==
    IF rules.overrides[t] # Null THEN rules.overrides[t][field]
    ELSE IF rules.default # Null THEN rules.default[field] ELSE Null

reads_severity(rules) ==
    \E rule \in {rules.default} \cup {rules.overrides[t] : t \in Titles} :
        rule # Null /\ judges(rule) /\ rule.severe # Null

\* A row nobody assessed is FALSE and never NULL.
_severe(pair) == pair.severe = "yes"

SqlDays(rules, t, pair) ==
    IF reads_severity(rules) /\ _severe(pair) /\ _title_limit(rules, t, "severe") # Null
    THEN _title_limit(rules, t, "severe") ELSE _title_limit(rules, t, "days")

Exempt(rules) == {t \in Titles : rules.overrides[t] # Null /\ rules.overrides[t].exempt}

\* A comparison with NULL is NULL, and WHERE keeps what is TRUE.
out_of_policy(rules, t, pair, now) ==
    /\ pair.state = "behind"
    /\ \/ Late(pair, SqlDays(rules, t, pair), now)
       \/ Missed(pair, _title_limit(rules, t, "releases"))
    /\ t \notin Exempt(rules)

\* A rule that was refused by rule_from judges nothing, whatever was typed, and a rule in
\* force never gives a severe build more days than another (policy.rule_from).
RulesAreSane(default, overrides) ==
    LET rules == from_stored(default, overrides) IN
    \A t \in Titles :
        LET rule == for_title(rules, t) IN
        rule # Null =>
            /\ rule \in Rules /\ (rule.exempt \/ judges(rule))
            /\ rule.severe # Null /\ rule.days # Null => rule.severe <= rule.days

\* The count of devices out of policy and the verdict on the title's page are one
\* predicate, for whatever rules are stored (tests/test_patch_policy_db.py holds the two
\* dialects together on examples).
CountIsVerdict(default, overrides, t, pair, now) ==
    LET rules == from_stored(default, overrides) IN
    out_of_policy(rules, t, pair, now) <=> judge(pair, for_title(rules, t), now) = "out"
=============================================================================
