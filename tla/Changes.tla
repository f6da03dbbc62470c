------------------------------ MODULE Changes ------------------------------
(***************************************************************************)
(* The change log: what two observations of a subject differ in             *)
(* (changes/diff.py), what the tenant's policy keeps of it                  *)
(* (changes/policy.py), the rows the boundary is told in (changes/derive.py *)
(* derive_and_record) and the feed's filter (api/changes.py).               *)
(*                                                                          *)
(* A scalar section is a function from <<section, field>> to values, "none" *)
(* for an absent leaf.  An entry is [kind, id, body]: id stands for the     *)
(* identity fields of its kind and body for the others.                     *)
(***************************************************************************)
EXTENDS Integers, FiniteSets, Folds, FiniteSetsExt

CONSTANTS Fields,       \* <<section, field>> -> level: FIELD_RULES
          Kinds,        \* kind -> level: ENTRY_RULES
          EntryFields,  \* <<kind, field>> -> level: the fields of ENTRY_RULES
          SystemApps,   \* the application ids whose path is under /System/
          None

Levels == {"high", "normal", "low"}
Rank(level) == CASE level = "high" -> 0 [] level = "normal" -> 1 [] level = "low" -> 2
OSVersionFields == {<<"operating_system", f>> : f \in {"version", "build"}}
Echoed == {"group_membership", "extension_attribute"}

-----------------------------------------------------------------------------
(* diff.py: leaf by leaf, and entry sets paired by identity.                *)
diff_scalar(old, new) ==
    {[field |-> f, old |-> old[f], new |-> new[f]] : f \in {x \in DOMAIN new : old[x] # new[x]}}

SameIdentity(x, y) == x.kind = y.kind /\ x.id = y.id

\* The ways to pair what is gone with what came.  Entries that share an identity are
\* paired in the order the database gives them, which is any.
Pairings(gone, came) ==
    {m \in SUBSET {p \in gone \X came : SameIdentity(p[1], p[2])} :
        /\ \A p, q \in m : (p[1] = q[1] \/ p[2] = q[2]) => p = q
        /\ \A g \in gone \ {p[1] : p \in m}, c \in came \ {p[2] : p \in m} : ~SameIdentity(g, c)}

Change(change, old, new) ==
    LET entry == IF new = None THEN old ELSE new IN
    [kind |-> entry.kind, id |-> entry.id, change |-> change, old |-> old, new |-> new]

diff_entries(old, new) ==
    LET gone == old \ new  came == new \ old IN
    {{Change("updated", p[1], p[2]) : p \in m}
        \cup {Change("removed", g, None) : g \in gone \ {p[1] : p \in m}}
        \cup {Change("added", None, c) : c \in came \ {p[2] : p \in m}} :
     m \in Pairings(gone, came)}

ChangedFields(c) == {f \in DOMAIN c.old.body : c.old.body[f] # c.new.body[f]}

-----------------------------------------------------------------------------
(* policy.py.  An override document is [minimum, fields, entries,           *)
(* individually, muted]; fields and entries are partial functions, an entry *)
(* key is <<kind>>, <<kind, "added">>, <<kind, "removed">> or <<kind, f>>.  *)
default_on(level, minimum) == Rank(level) <= Rank(minimum)
levels_at_least(minimum) == {level \in Levels : default_on(level, minimum)}

\* Overrides.from_document: a level nobody knows reads as the default.
from_document(document) ==
    [document EXCEPT !.minimum = IF @ \in Levels THEN @ ELSE "normal"]

field_level(f) == IF f \in DOMAIN Fields THEN Fields[f] ELSE "normal"
field_enabled(P, f) ==
    IF f \in DOMAIN Fields /\ f \in DOMAIN P.fields THEN P.fields[f]
    ELSE default_on(field_level(f), P.minimum)

\* One question in three places, the most specific answer first, and a kind that is
\* switched off stays off.
Answer(P, kind, key, level) ==
    IF <<kind>> \in DOMAIN P.entries /\ ~P.entries[<<kind>>] THEN FALSE
    ELSE IF key \in DOMAIN P.entries THEN P.entries[key]
    ELSE <<kind>> \in DOMAIN P.entries \/ default_on(level, P.minimum)

kind_level(kind) == IF kind \in DOMAIN Kinds THEN Kinds[kind] ELSE "normal"
entry_field_level(kind, f) ==
    IF <<kind, f>> \in DOMAIN EntryFields THEN EntryFields[<<kind, f>>] ELSE "normal"

entry_enabled(P, kind, change, f) ==
    IF change = "updated" THEN Answer(P, kind, <<kind, f>>, entry_field_level(kind, f))
    ELSE Answer(P, kind, <<kind, change>>, kind_level(kind))

\* The highest level of the rule's fields among those given.
Highest(levels) ==
    IF levels = {} THEN "normal" ELSE CHOOSE l \in levels : \A m \in levels : Rank(l) <= Rank(m)
entry_level(kind, change, fields) ==
    IF change # "updated" THEN kind_level(kind)
    ELSE Highest({EntryFields[<<kind, f>>] : f \in {x \in fields : <<kind, x>> \in DOMAIN EntryFields}})

keeps_level(P, level) == default_on(level, P.minimum)
Muted(P, c) == c.kind \in Echoed /\ <<c.kind, c.id>> \in P.muted

extension_attribute_summarised(P, id) ==
    /\ entry_enabled(P, "extension_attribute", "updated", "values")
    /\ <<"extension_attribute", id>> \notin P.muted

-----------------------------------------------------------------------------
(* derive_and_record: what becomes of each change of a boundary.            *)
os_changed(fields) == \E c \in fields : c.field \in OSVersionFields

Enabled(P, c) ==
    IF c.change = "updated" THEN {f \in ChangedFields(c) : entry_enabled(P, c.kind, "updated", f)} ELSE {}

Departed(c, departed) == c.kind \in Echoed /\ c.change = "removed" /\ <<c.kind, c.id>> \in departed

Collapses(P, c, os) ==
    c.kind = "application" /\ c.change = "updated" /\ os /\ ~P.individually /\ c.id \in SystemApps

\* A bug: the collapse is decided before the policy is asked.
Fate_CollapseFirst(P, c, os, departed) ==
    IF Muted(P, c) THEN "muted"
    ELSE IF Collapses(P, c, os) THEN "collapsed"
    ELSE IF c.change = "updated" THEN IF Enabled(P, c) = {} THEN "off" ELSE "row"
    ELSE IF ~entry_enabled(P, c.kind, c.change, None) THEN "off"
    ELSE IF Departed(c, departed) /\ ~keeps_level(P, "low") THEN "echo"
    ELSE "row"

Fate(P, c, os, departed) ==
    IF Muted(P, c) THEN "muted"
    ELSE IF c.change = "updated" THEN
        IF Enabled(P, c) = {} THEN "off" ELSE IF Collapses(P, c, os) THEN "collapsed" ELSE "row"
    ELSE IF ~entry_enabled(P, c.kind, c.change, None) THEN "off"
    ELSE IF Departed(c, departed) /\ ~keeps_level(P, "low") THEN "echo"
    ELSE "row"

Level(P, c, departed) ==
    IF Departed(c, departed) THEN "low" ELSE entry_level(c.kind, c.change, Enabled(P, c))

\* The rows: fields, entries, and the count of the system apps an OS update took along,
\* on the version's row or on a row of its own.
FieldRows(P, fields, count) ==
    {[about |-> c.field, change |-> "changed", level |-> field_level(c.field),
      collapsed |-> IF c.field = <<"operating_system", "version">> THEN count ELSE 0] :
        c \in {x \in fields : field_enabled(P, x.field)}}

EntryRows(P, entries, os, departed) ==
    {[about |-> <<c.kind, c.id>>, change |-> c.change, level |-> Level(P, c, departed),
      old |-> c.old, new |-> c.new, fields |-> Enabled(P, c), collapsed |-> 0] :
        c \in {x \in entries : Fate(P, x, os, departed) = "row"}}

CountRow(count) ==
    [about |-> <<"application", None>>, change |-> "updated", level |-> "normal", collapsed |-> count]

Rows(P, fields, entries, departed) ==
    LET os == os_changed(fields)
        count == Cardinality({c \in entries : Fate(P, c, os, departed) = "collapsed"})
        told == FieldRows(P, fields, count)
    IN told \cup EntryRows(P, entries, os, departed)
         \cup (IF count > 0 /\ \A r \in told : r.collapsed = 0 THEN {CountRow(count)} ELSE {})

-----------------------------------------------------------------------------
(* The dimensions stamped on the rows of a boundary, person_token.py, and   *)
(* the feed's `user` filter.  A section that was not read stamps nothing.   *)
Names == {"username", "email", "realName"}
device_dimensions(sections) ==
    [f \in Names |-> IF "user_and_location" \notin DOMAIN sections THEN None
                     ELSE IF sections["user_and_location"][f] = "" THEN None
                     ELSE sections["user_and_location"][f]]

IdentityFields == <<"username", "email", "realName">>
canonical_identity(stamp) ==
    LET given == {i \in 1..3 : stamp[IdentityFields[i]] # None} IN
    IF given = {} THEN None
    ELSE LET f == IdentityFields[CHOOSE i \in given : \A j \in given : i <= j] IN <<f, stamp[f]>>

\* Typed text matches any of the three names, a token the person alone.
MatchesText(stamp, text, contains) ==
    \E f \in Names : stamp[f] # None /\ <<stamp[f], text>> \in contains

\* _resolve_user_filter: the one person the matched rows name, if they name one.
_resolve_user_filter(stamps, text, contains) ==
    LET tokens == {canonical_identity(s) : s \in {x \in stamps : MatchesText(x, text, contains)}} \ {None}
    IN IF Cardinality(tokens) = 1 THEN CHOOSE t \in tokens : TRUE ELSE None

\* change_conditions on levels: exact, or a minimum, never both.
change_conditions(rows, level, minimum) ==
    {r \in rows : (level = None \/ r.level = level) /\ (minimum = None \/ r.level \in levels_at_least(minimum))}

-----------------------------------------------------------------------------
(* Properties.                                                              *)

\* Whatever the order of pairing, the changes of a boundary lead from the old entries to
\* the new ones, and two entries told as one update are one thing (diff_entries).
DiffReplays(old, new) ==
    \A changes \in diff_entries(old, new) :
        /\ (old \ {c.old : c \in changes}) \cup ({c.new : c \in changes} \ {None}) = new
        /\ \A c \in changes : c.change = "updated" => c.old.id = c.new.id
        /\ \A c, d \in changes : c.change = "removed" /\ d.change = "added" => ~SameIdentity(c, d)

\* A change the policy keeps is a row or is counted on exactly one row, and a row is told
\* only of what the policy keeps: the page that describes the policy and the log agree.
\* With nothing overridden no row is below the tenant's minimum, and a lower minimum never
\* tells less (EffectivePolicy, derive_and_record).
Key(r) == <<r.about, r.change>>
Wanted(P, c, departed) ==
    /\ <<c.kind, c.id>> \notin P.muted
    /\ \E f \in {None} \cup (IF c.change = "updated" THEN ChangedFields(c) ELSE {}) :
           (f = None <=> c.change # "updated") /\ entry_enabled(P, c.kind, c.change, f)
    /\ Departed(c, departed) => P.minimum = "low"

LogTellsAll(P, fields, entries, departed) ==
    LET rows == Rows(P, fields, entries, departed)
        wanted == {c \in entries : Wanted(P, c, departed)}
        counting == {r \in rows : r.collapsed > 0}
    IN /\ Cardinality(counting) <= 1
       /\ Cardinality(wanted) =
             Cardinality({r \in rows : "old" \in DOMAIN r}) + SumSet({r.collapsed : r \in counting})
       /\ \A r \in rows : "old" \in DOMAIN r =>
             \E c \in wanted : c.old = r.old /\ c.new = r.new
       /\ DOMAIN P.fields = {} /\ DOMAIN P.entries = {} =>
             change_conditions(rows, None, P.minimum) = rows
       /\ \A lower \in Levels : Rank(P.minimum) <= Rank(lower) =>
             \A r \in rows : \E s \in Rows([P EXCEPT !.minimum = lower], fields, entries, departed) :
                 Key(r) = Key(s) /\ s.collapsed >= r.collapsed

\* Replacing the typed name by the person it was resolved to never hides a row that the
\* name had found (_resolve_user_filter).
TokenKeepsRows(observations, text, contains) ==
    LET stamps == {device_dimensions(o) : o \in observations}
        token == _resolve_user_filter(stamps, text, contains)
    IN
    token # None =>
        {s \in stamps : MatchesText(s, text, contains)} \subseteq {s \in stamps : canonical_identity(s) = token}
=============================================================================
