---------------------------- MODULE DeparturesProofs -------------------------
(***************************************************************************)
(* Proofs about Departures.  While a sweep that misses nobody is paging,    *)
(* every Mac that stood in Jamf since it began, at a rank no edit has moved,*)
(* is named, or on a page asked for, or beyond the pages asked for while no *)
(* page has come short.                                                     *)
(***************************************************************************)
EXTENDS Departures, TLAPS, FiniteSetTheorems

-----------------------------------------------------------------------------
(* The inductive invariant.                                                 *)

\* The sweep's fields agree with one another and with the spans.
SweepAgrees ==
    sweep # Idle =>
        /\ ~sweep.scoped => sweep.selected = Macs
        /\ DOMAIN sweep.named \cup DOMAIN sweep.batch \subseteq 1..(nextId - 1)
        /\ \A p \in sweep.pages : p < sweep.next
        /\ sweep.from <= nextId
        /\ ~sweep.failed => DOMAIN sweep.named \subseteq DOMAIN known
        /\ sweep.at = "closing" => sweep.pages = {} /\ DOMAIN sweep.batch = {}

\* The records before i, in Jamf's order, and the pages cut from that order.
Rank(i) == Cardinality({j \in DOMAIN jamf : j < i})
OnPage(p, rank) == p * PageSize <= rank /\ rank < (p + 1) * PageSize

\* The record was there when the sweep began, and no record was handed back before it.
Stood(i) == i < sweep.from /\ \A j \in sweep.fresh : i < j

NobodySlips ==
    sweep # Idle /\ ~sweep.scoped /\ ~sweep.shrunk /\ ~sweep.lossy =>
        \A i \in DOMAIN jamf : Stood(i) =>
            \/ i \in DOMAIN sweep.named \cup DOMAIN sweep.batch
            \/ \E p \in sweep.pages : OnPage(p, Rank(i))
            \/ sweep.at = "paging" /\ ~sweep.short /\ sweep.next * PageSize <= Rank(i)

IInv == TypeOK /\ OneRowPerGoneId /\ ConsumerAgrees /\ SweepAgrees /\ NobodySlips

-----------------------------------------------------------------------------
(* Records, pages and ranks.                                                *)

\* A table of records is a function from some ids to machines.
LEMMA RecordsAre ==
    \A f : f \in Records <=> DOMAIN f \subseteq Ids /\ f \in [DOMAIN f -> Macs]
BY DEF Records

\* Laying one table of records over another gives a table of both.
LEMMA OverIsRecords ==
    ASSUME NEW f \in Records, NEW g \in Records
    PROVE  /\ Over(f, g) \in Records
           /\ DOMAIN Over(f, g) = DOMAIN f \cup DOMAIN g
BY RecordsAre DEF Over

\* One entry is a table.
LEMMA OneIsRecords ==
    ASSUME NEW i \in Ids, NEW m \in Macs
    PROVE  One(i, m) \in Records /\ DOMAIN One(i, m) = {i} /\ One(i, m)[i] = m
BY RecordsAre DEF One

\* A table with one entry more.
LEMMA AddOne ==
    ASSUME NEW f \in Records, NEW i \in Ids, NEW m \in Macs
    PROVE  /\ Over(One(i, m), f) \in Records
           /\ DOMAIN Over(One(i, m), f) = DOMAIN f \cup {i}
<1>1. One(i, m) \in Records /\ DOMAIN One(i, m) = {i}
  BY OneIsRecords
<1> QED
  BY <1>1, OverIsRecords

\* So is the empty one.
LEMMA NoneIsRecords == <<>> \in Records /\ DOMAIN <<>> = {}
<1>1. DOMAIN <<>> = {} /\ <<>> \in [{} -> Macs]
  OBVIOUS
<1> QED
  BY <1>1, RecordsAre

\* Pages follow one another without a gap.
LEMMA NextPage ==
    ASSUME NEW p \in Nat
    PROVE  p * PageSize \in Nat /\ (p + 1) * PageSize = p * PageSize + PageSize
BY PagesAssumption

\* A later page begins no earlier.
LEMMA PagesAscend ==
    ASSUME NEW p \in Nat, NEW q \in Nat, p <= q
    PROVE  p * PageSize <= q * PageSize
<1>1. PICK d \in Nat : q = p + d
  <2>1. q - p \in Nat /\ q = p + (q - p)
    OBVIOUS
  <2> QED
    BY <2>1
<1>2. q * PageSize = p * PageSize + d * PageSize /\ d * PageSize \in Nat /\ p * PageSize \in Nat
  BY <1>1, PagesAssumption
<1> QED
  BY <1>2

\* Every rank is on one page.
LEMMA EveryRankHasAPage ==
    ASSUME NEW r \in Nat
    PROVE  \E p \in Nat : OnPage(p, r)
<1> DEFINE Beyond == {p \in Nat : r < (p + 1) * PageSize}
<1>1. r \in Beyond
  <2>1. (r + 1) * PageSize >= r + 1
    BY PagesAssumption
  <2> QED
    BY <2>1, NextPage, PagesAssumption
<1>2. PICK p \in Beyond : \A q \in Beyond : p <= q
  <2> HIDE DEF Beyond
  <2>1. Beyond \in SUBSET Nat
    BY DEF Beyond
  <2> QED
    BY <1>1, <2>1, LeastExists
<1>3. p * PageSize <= r
  <2>1. CASE p = 0
    BY <2>1, PagesAssumption
  <2>2. CASE p # 0
    <3>1. PICK q \in Nat : p = q + 1
      <4>1. p - 1 \in Nat /\ p = (p - 1) + 1
        BY <2>2
      <4> QED
        BY <4>1
    <3>2. ~(r < (q + 1) * PageSize)
      BY <1>2, <3>1
    <3> QED
      BY <3>1, <3>2, NextPage
  <2> QED
    BY <2>1, <2>2
<1> QED
  BY <1>2, <1>3 DEF OnPage

\* A finite set of ids has as many members on a page as the page holds, if one of
\* its members stands beyond that page.
LEMMA FullPage ==
    ASSUME NEW S \in SUBSET Nat, IsFiniteSet(S), NEW p \in Nat, NEW x \in S,
           (p + 1) * PageSize <= Cardinality({j \in S : j < x})
    PROVE  PageSize <= Cardinality({i \in S : OnPage(p, Cardinality({j \in S : j < i}))})
<1> DEFINE n == Cardinality(S)
           s == Sorted(S)
           Below(i) == {j \in S : j < i}
           Whole == {i \in S : OnPage(p, Cardinality(Below(i)))}
<1>1. n \in Nat
  BY FS_CardinalityType
<1>2. /\ s \in [1..n -> S]
      /\ \A i, j \in 1..n : i < j => s[i] < s[j]
      /\ \A i, j \in 1..n : s[i] = s[j] => i = j
      /\ \A y \in S : \E i \in 1..n : s[i] = y
  BY SortedProperties
<1> HIDE DEF s, n
<1>3. ASSUME NEW k \in 1..n PROVE IsFiniteSet(Below(s[k])) /\ Cardinality(Below(s[k])) = k - 1
  <2>1. k - 1 \in Nat /\ k \in Nat
    BY <1>1
  <2>2. Below(s[k]) = {s[i] : i \in 1..(k - 1)}
    <3>1. ASSUME NEW i \in 1..(k - 1) PROVE s[i] \in S /\ s[i] < s[k]
      <4>1. i \in 1..n /\ i < k
        BY <1>1
      <4> QED
        BY <4>1, <1>2
    <3>2. ASSUME NEW y \in S, y < s[k] PROVE \E i \in 1..(k - 1) : s[i] = y
      <4>1. PICK i \in 1..n : s[i] = y
        BY <1>2
      <4>2. y \in Nat /\ s[k] \in Nat
        BY <1>2
      <4>3. ~(k < i) /\ i # k
        BY <4>1, <4>2, <3>2, <1>2
      <4>4. i \in 1..(k - 1)
        BY <4>3, <1>1
      <4> QED
        BY <4>1, <4>4
    <3> QED
      BY <3>1, <3>2
  <2>3. [i \in 1..(k - 1) |-> s[i]] \in Bijection(1..(k - 1), Below(s[k]))
    <3> DEFINE g == [i \in 1..(k - 1) |-> s[i]]
    <3>1. \A i \in 1..(k - 1) : i \in 1..n
      BY <1>1
    <3>2. g \in [1..(k - 1) -> Below(s[k])]
      BY <2>2
    <3>3. \A i, j \in 1..(k - 1) : g[i] = g[j] => i = j
      BY <3>1, <1>2
    <3>4. \A y \in Below(s[k]) : \E i \in 1..(k - 1) : g[i] = y
      BY <2>2
    <3>5. g \in Bijection(1..(k - 1), Below(s[k]))
      <4> HIDE DEF g, Below
      <4> QED
        BY <3>2, <3>3, <3>4 DEF Bijection, Injection, IsInjective, Surjection
    <3> QED
      BY <3>5
  <2>4. IsFiniteSet(1..(k - 1)) /\ Cardinality(1..(k - 1)) = k - 1
    BY <2>1, FS_Interval
  <2>5. ExistsBijection(1..(k - 1), Below(s[k]))
    BY <2>3 DEF ExistsBijection
  <2> QED
    BY <2>4, <2>5, FS_Bijection
<1>4. PICK k \in 1..n : s[k] = x
  BY <1>2
<1> DEFINE lo == p * PageSize
<1>5. lo \in Nat /\ (p + 1) * PageSize = lo + PageSize /\ PageSize \in Nat
  BY NextPage, PagesAssumption
<1>6. lo + PageSize <= k - 1
  BY <1>3, <1>4, <1>5
<1> HIDE DEF lo
<1> DEFINE g == [m \in 1..PageSize |-> s[lo + m]]
<1>7. \A m \in 1..PageSize : lo + m \in 1..n
  BY <1>5, <1>6, <1>1
<1>8. \A m \in 1..PageSize : s[lo + m] \in Whole
  <2> SUFFICES ASSUME NEW m \in 1..PageSize PROVE s[lo + m] \in Whole
    OBVIOUS
  <2>1. Cardinality(Below(s[lo + m])) = lo + m - 1 /\ s[lo + m] \in S
    <3>1. lo + m \in 1..n /\ lo + m \in Nat
      BY <1>7
    <3>2. Cardinality(Below(s[lo + m])) = (lo + m) - 1
      <4> HIDE DEF Below
      <4> QED
        BY <3>1, <1>3
    <3> QED
      BY <3>1, <3>2, <1>2, <1>5
  <2>2. lo <= lo + m - 1 /\ lo + m - 1 < lo + PageSize
    BY <1>5
  <2> QED
    BY <2>1, <2>2, <1>5 DEF OnPage, lo
<1>9. g \in Injection(1..PageSize, Whole)
  <2>1. g \in [1..PageSize -> Whole]
    BY <1>8
  <2>2. \A a, b \in 1..PageSize : g[a] = g[b] => a = b
    <3> SUFFICES ASSUME NEW a \in 1..PageSize, NEW b \in 1..PageSize, s[lo + a] = s[lo + b] PROVE a = b
      OBVIOUS
    <3>1. lo + a = lo + b
      BY <1>7, <1>2
    <3> QED
      BY <3>1, <1>5
  <2> HIDE DEF g, Whole
  <2> QED
    BY <2>1, <2>2 DEF Injection, IsInjective
<1>10. IsFiniteSet(Whole) /\ Cardinality(1..PageSize) = PageSize
  <2>1. IsFiniteSet(Whole)
    BY FS_Subset
  <2> QED
    BY <2>1, <1>5, FS_Interval
<1> QED
  BY <1>9, <1>10, FS_Injection

-----------------------------------------------------------------------------
(* The initial states, time, and Jamf's own steps.                          *)

LEMMA SweepFields ==
    ASSUME NEW s \in Sweeps
    PROVE  /\ s.at \in {"paging", "closing"} /\ s # Idle
           /\ s.scoped \in BOOLEAN /\ s.failed \in BOOLEAN /\ s.short \in BOOLEAN
           /\ s.shrunk \in BOOLEAN /\ s.lossy \in BOOLEAN
           /\ s.selected \subseteq Macs /\ s.pages \subseteq Nat /\ s.next \in Nat /\ s.total \in Nat
           /\ s.named \in Records /\ s.batch \in Records
           /\ s.from \in 1..(MaxId + 1) /\ s.fresh \subseteq Ids
<1>1. s.at \in {"paging", "closing"}
  BY DEF Sweeps
<1>2. s # Idle
  BY <1>1 DEF Idle
<1> QED
  BY <1>1, <1>2 DEF Sweeps

LEMMA SweepRuns == TypeOK /\ sweep # Idle => sweep \in Sweeps
BY DEF TypeOK

LEMMA RankIsNatural ==
    ASSUME TypeOK, NEW i
    PROVE  IsFiniteSet(DOMAIN jamf) /\ IsFiniteSet({j \in DOMAIN jamf : j < i}) /\ Rank(i) \in Nat
<1>1. DOMAIN jamf \subseteq 1..MaxId
  BY RecordsAre DEF TypeOK, Ids
<1>2. IsFiniteSet(1..MaxId)
  BY FS_Interval, BoundsAssumption
<1>3. IsFiniteSet(DOMAIN jamf)
  BY <1>1, <1>2, FS_Subset
<1> QED
  BY <1>3, FS_Subset, FS_CardinalityType DEF Rank

\* At first nobody is known and no sweep runs.
LEMMA InitOK == Init => IInv
<1> SUFFICES ASSUME Init PROVE IInv
  OBVIOUS
<1>1. jamf \in Seq(Macs) /\ Len(jamf) <= MaxId /\ Len(jamf) \in Nat /\ MaxId \in Nat
  BY BoundsAssumption DEF Init
<1>2. DOMAIN jamf = 1..Len(jamf) /\ jamf \in Records
  <2>1. DOMAIN jamf = 1..Len(jamf) /\ jamf \in [1..Len(jamf) -> Macs]
    BY <1>1
  <2>2. 1..Len(jamf) \subseteq Ids
    BY <1>1 DEF Ids
  <2> QED
    BY <2>1, <2>2, RecordsAre
<1>3. TypeOK
  <2>1. known \in Records /\ DOMAIN known = {}
    BY NoneIsRecords DEF Init
  <2>2. nextId \in 1..(MaxId + 1) /\ DOMAIN jamf \subseteq 1..(nextId - 1)
    BY <1>1, <1>2 DEF Init
  <2>3. rows \in Seq(Rows) /\ GoneIds(rows) = {}
    BY DEF Init, GoneIds
  <2>4. edits \in 0..MaxEdits /\ mishaps \in 0..MaxMishaps /\ phase \in {0, 1}
    BY BoundsAssumption DEF Init
  <2>5. wire \in [Ids -> {"here", "departed", "moved", "removed"}] /\ sweep = Idle
    BY DEF Init
  <2> QED
    BY <2>1, <2>2, <2>3, <2>4, <2>5, <1>2 DEF TypeOK
<1>4. OneRowPerGoneId /\ ConsumerAgrees
  BY DEF Init, OneRowPerGoneId, ConsumerAgrees, GoneIds
<1>5. SweepAgrees /\ NobodySlips
  BY DEF Init, SweepAgrees, NobodySlips
<1> QED
  BY <1>3, <1>4, <1>5 DEF IInv

\* A row ages without changing what it is about.
LEMMA AgedRow ==
    ASSUME NEW r \in Rows
    PROVE  /\ Aged(r) \in Rows
           /\ Aged(r).gone = r.gone /\ Aged(r).back = r.back /\ Aged(r).removed = r.removed
<1>1. Expiry \in Nat /\ r.age \in 0..Expiry /\ 0 <= Expiry
  BY TailAssumption DEF Expiry, Rows
<1>2. CASE r.age + 1 >= Expiry
  <2>1. Expiry \in 0..Expiry /\ 0 \in {0, 1}
    BY <1>1
  <2> QED
    BY <1>2, <2>1 DEF Aged, Rows
<1>3. CASE ~(r.age + 1 >= Expiry)
  <2>1. r.age + 1 \in 0..Expiry
    BY <1>1, <1>3
  <2> QED
    BY <1>3, <2>1 DEF Aged, Rows
<1> QED
  BY <1>2, <1>3

LEMMA TickKeeps == IInv /\ Tick => IInv'
<1> SUFFICES ASSUME IInv, Tick PROVE IInv'
  OBVIOUS
<1>1. TypeOK
  BY DEF IInv
<1>2. Len(rows) \in Nat /\ DOMAIN rows = 1..Len(rows) /\ \A k \in 1..Len(rows) : rows[k] \in Rows
  BY <1>1 DEF TypeOK
<1>3. rows' \in Seq(Rows) /\ DOMAIN rows' = DOMAIN rows
  <2>1. rows' \in [1..Len(rows) -> Rows]
    BY <1>2, AgedRow DEF Tick
  <2> QED
    BY <2>1, <1>2
<1>4. \A k \in DOMAIN rows :
        /\ rows'[k].gone = rows[k].gone /\ rows'[k].back = rows[k].back
        /\ rows'[k].removed = rows[k].removed
  BY <1>2, AgedRow DEF Tick
<1>5. GoneIds(rows') = GoneIds(rows)
  BY <1>3, <1>4 DEF GoneIds
<1>6. UNCHANGED <<jamf, nextId, known, sweep, wire, edits, mishaps>> /\ phase' \in {0, 1}
  BY <1>1 DEF Tick, TypeOK
<1>7. TypeOK'
  BY <1>1, <1>3, <1>5, <1>6 DEF TypeOK
<1>8. OneRowPerGoneId'
  BY <1>3, <1>4 DEF IInv, OneRowPerGoneId
<1>9. ConsumerAgrees'
  BY <1>3, <1>4, <1>5, <1>6 DEF IInv, ConsumerAgrees
<1>10. SweepAgrees' /\ NobodySlips'
  BY <1>6 DEF IInv, SweepAgrees, NobodySlips, Stood, OnPage, Rank
<1> QED
  BY <1>7, <1>8, <1>9, <1>10 DEF IInv

\* A step that touches no row and tells no consumer leaves both as they agree.
LEMMA RowsRest ==
    ASSUME IInv, UNCHANGED <<rows, wire>>
    PROVE  OneRowPerGoneId' /\ ConsumerAgrees'
BY DEF IInv, OneRowPerGoneId, ConsumerAgrees, GoneIds

\* A record appears under the next id, beyond every rank.
LEMMA EnrolKeeps ==
    ASSUME IInv, NEW m \in Macs, Enrol(m)
    PROVE  IInv'
<1>1. TypeOK /\ SweepAgrees /\ NobodySlips
  BY DEF IInv
<1>2. nextId \in Ids /\ nextId' = nextId + 1 /\ nextId' \in 1..(MaxId + 1) /\ nextId \in Nat
  BY <1>1, BoundsAssumption DEF TypeOK, Enrol, Ids
<1>3. jamf' \in Records /\ DOMAIN jamf' = DOMAIN jamf \cup {nextId}
  BY <1>1, <1>2, AddOne DEF TypeOK, Enrol
<1>4. UNCHANGED <<phase, known, rows, sweep, wire, mishaps>> /\ edits' \in 0..MaxEdits
  BY <1>1, BoundsAssumption DEF TypeOK, Enrol, Edit
<1>5. 1..(nextId - 1) \subseteq 1..(nextId' - 1) /\ nextId \in 1..(nextId' - 1)
  <2>1. nextId' - 1 = nextId /\ nextId \in Nat /\ nextId >= 1
    BY <1>2 DEF Ids
  <2> QED
    BY <2>1
<1>6. TypeOK'
  BY <1>1, <1>2, <1>3, <1>4, <1>5 DEF TypeOK
<1>7. SweepAgrees'
  <2> SUFFICES ASSUME sweep # Idle PROVE SweepAgrees'
    BY <1>4 DEF SweepAgrees
  <2>1. sweep.from <= nextId'
    BY <1>1, <1>2, SweepRuns, SweepFields, BoundsAssumption DEF SweepAgrees
  <2> QED
    BY <1>1, <1>4, <1>5, <2>1 DEF SweepAgrees
<1>8. NobodySlips'
  <2> SUFFICES ASSUME sweep # Idle, ~sweep.scoped, ~sweep.shrunk, ~sweep.lossy,
                      NEW i \in DOMAIN jamf', Stood(i)
               PROVE  /\ i \in DOMAIN jamf
                      /\ Rank(i)' = Rank(i)
    BY <1>1, <1>4 DEF NobodySlips, Stood, OnPage
  <2>1. i < sweep.from /\ sweep.from <= nextId /\ i \in Nat /\ sweep.from \in Nat
    <3>1. i \in Ids
      BY <1>3, RecordsAre
    <3> QED
      BY <1>1, <3>1, SweepRuns, SweepFields, BoundsAssumption DEF SweepAgrees, Stood, Ids
  <2>2. i < nextId
    BY <2>1, <1>2
  <2>3. {j \in DOMAIN jamf' : j < i} = {j \in DOMAIN jamf : j < i}
    BY <1>2, <1>3, <2>1, <2>2
  <2> QED
    BY <1>2, <1>3, <2>1, <2>2, <2>3 DEF Rank
<1> QED
  BY <1>4, <1>6, <1>7, <1>8, RowsRest DEF IInv

\* A deletion moves the later records up, and the sweep is no longer one that
\* misses nobody.
LEMMA DeleteKeeps ==
    ASSUME IInv, NEW i \in Ids, Delete(i)
    PROVE  IInv'
<1>1. TypeOK /\ SweepAgrees
  BY DEF IInv
<1>2. jamf' \in Records /\ DOMAIN jamf' \subseteq DOMAIN jamf
  BY <1>1, RecordsAre DEF TypeOK, Delete
<1>3. UNCHANGED <<phase, known, rows, wire, mishaps, nextId>> /\ edits' \in 0..MaxEdits
  BY <1>1, BoundsAssumption DEF TypeOK, Delete, Edit
<1>4. CASE sweep = Idle
  <2>1. sweep' = Idle
    BY <1>4 DEF Delete
  <2>2. TypeOK'
    BY <1>1, <1>2, <1>3, <2>1 DEF TypeOK
  <2> QED
    BY <2>1, <2>2, <1>3, RowsRest DEF IInv, SweepAgrees, NobodySlips
<1>5. CASE sweep # Idle
  <2>1. sweep \in Sweeps /\ sweep' = [sweep EXCEPT !.shrunk = TRUE]
    BY <1>1, <1>5, SweepRuns DEF Delete
  <2>2. sweep' \in Sweeps /\ sweep'.shrunk
    BY <2>1 DEF Sweeps
  <2>3. /\ sweep'.scoped = sweep.scoped /\ sweep'.selected = sweep.selected
        /\ sweep'.named = sweep.named /\ sweep'.batch = sweep.batch
        /\ sweep'.pages = sweep.pages /\ sweep'.next = sweep.next /\ sweep'.from = sweep.from
        /\ sweep'.failed = sweep.failed /\ sweep'.at = sweep.at
    BY <2>1 DEF Sweeps
  <2>4. TypeOK'
    BY <1>1, <1>2, <1>3, <2>2 DEF TypeOK
  <2>5. SweepAgrees'
    BY <1>1, <1>3, <1>5, <2>3 DEF SweepAgrees
  <2>6. NobodySlips'
    BY <2>2 DEF NobodySlips
  <2> QED
    BY <1>3, <2>4, <2>5, <2>6, RowsRest DEF IInv
<1> QED
  BY <1>4, <1>5

\* A record handed back moves only the ranks of those above it.
LEMMA HandBackKeeps ==
    ASSUME IInv, NEW i \in Ids, HandBack(i)
    PROVE  IInv'
<1>1. TypeOK /\ SweepAgrees /\ NobodySlips
  BY DEF IInv
<1>2. i \in DOMAIN known /\ known[i] \in Macs
  BY <1>1, RecordsAre DEF TypeOK, HandBack
<1>3. jamf' \in Records /\ DOMAIN jamf' = DOMAIN jamf \cup {i}
  BY <1>1, <1>2, AddOne DEF TypeOK, HandBack
<1>4. UNCHANGED <<phase, known, rows, wire, mishaps, nextId>> /\ edits' \in 0..MaxEdits
  BY <1>1, BoundsAssumption DEF TypeOK, HandBack, Edit
<1>5. CASE sweep = Idle
  <2>1. sweep' = Idle
    BY <1>5 DEF HandBack
  <2>2. TypeOK'
    BY <1>1, <1>2, <1>3, <1>4, <2>1 DEF TypeOK
  <2> QED
    BY <2>1, <2>2, <1>4, RowsRest DEF IInv, SweepAgrees, NobodySlips
<1>6. CASE sweep # Idle
  <2>1. sweep \in Sweeps /\ sweep' = [sweep EXCEPT !.fresh = @ \cup {i}]
    BY <1>1, <1>6, SweepRuns DEF HandBack
  <2>2. sweep' \in Sweeps /\ sweep'.fresh = sweep.fresh \cup {i}
    BY <2>1 DEF Sweeps
  <2>3. /\ sweep'.scoped = sweep.scoped /\ sweep'.selected = sweep.selected
        /\ sweep'.named = sweep.named /\ sweep'.batch = sweep.batch
        /\ sweep'.pages = sweep.pages /\ sweep'.next = sweep.next /\ sweep'.from = sweep.from
        /\ sweep'.failed = sweep.failed /\ sweep'.at = sweep.at
    BY <2>1 DEF Sweeps
  <2>4. sweep'.shrunk = sweep.shrunk /\ sweep'.lossy = sweep.lossy /\ sweep'.short = sweep.short
    BY <2>1 DEF Sweeps
  <2>5. TypeOK'
    BY <1>1, <1>2, <1>3, <1>4, <2>2 DEF TypeOK
  <2>6. SweepAgrees'
    BY <1>1, <1>4, <1>6, <2>3 DEF SweepAgrees
  <2>7. NobodySlips'
    <3> SUFFICES ASSUME ~sweep.scoped, ~sweep.shrunk, ~sweep.lossy, NEW k \in DOMAIN jamf', Stood(k)'
                 PROVE  /\ k \in DOMAIN jamf /\ Stood(k)
                        /\ Rank(k)' = Rank(k)
      <4>1. ASSUME NEW k \in DOMAIN jamf, Stood(k), Rank(k)' = Rank(k),
                   ~sweep.scoped, ~sweep.shrunk, ~sweep.lossy
            PROVE  \/ k \in DOMAIN sweep'.named \cup DOMAIN sweep'.batch
                   \/ \E p \in sweep'.pages : OnPage(p, Rank(k)')
                   \/ sweep'.at = "paging" /\ ~sweep'.short /\ sweep'.next * PageSize <= Rank(k)'
        BY <1>1, <1>6, <2>3, <2>4, <4>1 DEF NobodySlips
      <4> QED
        BY <2>3, <2>4, <4>1 DEF NobodySlips, OnPage
    <3>1. k < i /\ k < sweep.from /\ \A j \in sweep.fresh : k < j
      BY <2>2, <2>3 DEF Stood
    <3>2. k \in Nat /\ i \in Nat
      BY <1>3, RecordsAre DEF Ids
    <3>3. k \in DOMAIN jamf
      BY <1>3, <3>1, <3>2
    <3>4. {j \in DOMAIN jamf' : j < k} = {j \in DOMAIN jamf : j < k}
      BY <1>3, <3>1, <3>2
    <3> QED
      BY <3>1, <3>3, <3>4 DEF Stood, Rank
  <2> QED
    BY <1>4, <2>5, <2>6, <2>7, RowsRest DEF IInv
<1> QED
  BY <1>5, <1>6

\* A webhook adds a span and nothing else.
LEMMA WebhookKeeps ==
    ASSUME IInv, NEW i \in Ids, Webhook(i)
    PROVE  IInv'
<1>1. TypeOK /\ SweepAgrees /\ NobodySlips
  BY DEF IInv
<1>2. i \in DOMAIN jamf /\ jamf[i] \in Macs
  BY <1>1, RecordsAre DEF TypeOK, Webhook
<1>3. known' \in Records /\ DOMAIN known' = DOMAIN known \cup {i}
  BY <1>1, <1>2, AddOne DEF TypeOK, Webhook
<1>4. UNCHANGED <<phase, jamf, nextId, rows, sweep, wire, edits, mishaps>>
  BY DEF Webhook
<1>5. TypeOK'
  BY <1>1, <1>2, <1>3, <1>4 DEF TypeOK
<1>6. SweepAgrees'
  BY <1>1, <1>3, <1>4 DEF SweepAgrees
<1>7. NobodySlips'
  BY <1>1, <1>4 DEF NobodySlips, Stood, OnPage, Rank
<1> QED
  BY <1>4, <1>5, <1>6, <1>7, RowsRest DEF IInv

-----------------------------------------------------------------------------
(* The sweep's pages.                                                       *)

\* The wave that follows an answered one begins where that one ended.
LEMMA WaveFollows ==
    ASSUME NEW s \in Sweeps
    PROVE  /\ Cardinality(Wave(s)) \in Nat
           /\ Wave(s) = s.next..((s.next + Cardinality(Wave(s))) - 1)
<1>1. s.next \in Nat /\ s.total \in Nat /\ Width \in Nat
  BY SweepFields, PagesAssumption
<1>2. KnownPages(s.total) \in Int
  <2>1. s.total + PageSize - 1 \in Int /\ PageSize \in Nat /\ PageSize > 0
    BY <1>1, PagesAssumption
  <2>2. (s.total + PageSize - 1) \div PageSize \in Int
    BY <2>1
  <2> QED
    BY <2>2 DEF KnownPages
<1> DEFINE last == IF s.next >= KnownPages(s.total) THEN s.next + 1
                   ELSE IF s.next + Width <= KnownPages(s.total) THEN s.next + Width
                   ELSE KnownPages(s.total)
<1>3. last \in Int /\ last - 1 \in Int /\ Wave(s) = s.next..(last - 1)
  <2>1. last \in Int
    BY <1>1, <1>2
  <2> QED
    BY <2>1 DEF Wave
<1> DEFINE end == last
<1> HIDE DEF end
<1>7. end \in Int /\ end - 1 \in Int /\ Wave(s) = s.next..(end - 1)
  BY <1>3 DEF end
<1>4. Cardinality(s.next..(end - 1)) = IF s.next > end - 1 THEN 0 ELSE (end - 1) - s.next + 1
  <2>1. \A a, b \in Int : Cardinality(a..b) = IF a > b THEN 0 ELSE b - a + 1
    BY FS_Interval
  <2>2. s.next \in Int /\ end - 1 \in Int
    BY <1>1, <1>7
  <2> QED
    BY <2>1, <2>2
<1>5. CASE s.next > end - 1
  <2>1. Cardinality(Wave(s)) = 0 /\ Wave(s) = {}
    BY <1>1, <1>7, <1>4, <1>5
  <2> QED
    BY <1>1, <2>1
<1>6. CASE ~(s.next > end - 1)
  <2>1. Cardinality(Wave(s)) = end - s.next /\ end - s.next \in Nat
    BY <1>1, <1>7, <1>4, <1>6
  <2>2. (s.next + (end - s.next)) - 1 = end - 1
    BY <1>1, <1>7
  <2> QED
    BY <1>7, <2>1, <2>2
<1> QED
  BY <1>5, <1>6

\* The fields a sweep moves on by.
LEMMA MovedOn ==
    ASSUME NEW t \in Sweeps, NEW w \in SUBSET Nat, NEW n \in Nat
    PROVE  /\ [t EXCEPT !.pages = w, !.next = n] \in Sweeps
           /\ [t EXCEPT !.at = "closing", !.pages = {}, !.next = 0, !.total = 0] \in Sweeps
<1>1. [t EXCEPT !.pages = w, !.next = n] \in Sweeps
  BY DEF Sweeps
<1>2. [t EXCEPT !.at = "closing", !.pages = {}, !.next = 0, !.total = 0] \in Sweeps
  BY DEF Sweeps
<1> QED
  BY <1>1, <1>2

\* Once a wave is in, the next is asked for, or a page came short and the sweep closes.
LEMMA YieldedFields ==
    ASSUME NEW s \in Sweeps, s.at = "paging"
    PROVE  /\ Yielded(s) \in Sweeps
           /\ Yielded(s).scoped = s.scoped /\ Yielded(s).selected = s.selected
           /\ Yielded(s).failed = s.failed /\ Yielded(s).shrunk = s.shrunk /\ Yielded(s).lossy = s.lossy
           /\ Yielded(s).from = s.from /\ Yielded(s).fresh = s.fresh /\ Yielded(s).short = s.short
           /\ Yielded(s).named = Over(s.batch, s.named) /\ DOMAIN Yielded(s).batch = {}
           /\ \/ /\ Yielded(s).at = "paging"
                 /\ s.next <= Yielded(s).next
                 /\ Yielded(s).pages = s.next..(Yielded(s).next - 1)
              \/ Yielded(s).at = "closing" /\ Yielded(s).pages = {} /\ s.short
<1>1. s.named \in Records /\ s.batch \in Records /\ s.next \in Nat /\ s.short \in BOOLEAN
  BY SweepFields
<1>2. Over(s.batch, s.named) \in Records /\ <<>> \in Records /\ DOMAIN <<>> = {}
  BY <1>1, OverIsRecords, NoneIsRecords
<1> DEFINE t == [s EXCEPT !.named = Over(s.batch, @), !.batch = <<>>]
<1>3. /\ t \in Sweeps /\ t.named = Over(s.batch, s.named) /\ t.batch = <<>> /\ t.at = "paging"
      /\ t.scoped = s.scoped /\ t.selected = s.selected /\ t.failed = s.failed
      /\ t.shrunk = s.shrunk /\ t.lossy = s.lossy /\ t.from = s.from /\ t.fresh = s.fresh
      /\ t.short = s.short /\ t.next = s.next
  BY <1>2 DEF Sweeps
<1>4. Yielded(s) = IF More(s) /\ ~(s.next = 1 /\ s.short)
                   THEN [t EXCEPT !.pages = Wave(s), !.next = @ + Cardinality(Wave(s))]
                   ELSE [t EXCEPT !.at = "closing", !.pages = {}, !.next = 0, !.total = 0]
  BY DEF Yielded
<1> HIDE DEF t
<1>5. CASE More(s) /\ ~(s.next = 1 /\ s.short)
  <2>1. /\ Cardinality(Wave(s)) \in Nat
        /\ Wave(s) = s.next..((s.next + Cardinality(Wave(s))) - 1)
    BY WaveFollows
  <2>8. PICK n \in Nat : n = s.next + Cardinality(Wave(s))
    BY <1>1, <2>1
  <2>9. PICK w : w = Wave(s)
    OBVIOUS
  <2>2. n = s.next + Cardinality(Wave(s)) /\ w = Wave(s)
    BY <2>8, <2>9
  <2>3. w \subseteq Nat /\ w = s.next..(n - 1) /\ s.next <= n
    BY <1>1, <2>1, <2>2
  <2>4. Yielded(s) = [t EXCEPT !.pages = w, !.next = n]
    BY <1>3, <1>4, <1>5, <2>2
  <2>7. Yielded(s) \in Sweeps
    <3>1. w \in SUBSET Nat /\ n \in Nat
      BY <2>8, <2>3
    <3>2. [t EXCEPT !.pages = w, !.next = n] \in Sweeps
      BY <1>3, <3>1, MovedOn
    <3> QED
      BY <2>4, <3>2
  <2>5. Yielded(s) \in Sweeps /\ Yielded(s).pages = w /\ Yielded(s).next = n /\ Yielded(s).at = "paging"
    BY <1>3, <2>4, <2>7 DEF Sweeps
  <2>6. /\ Yielded(s).scoped = t.scoped /\ Yielded(s).selected = t.selected
        /\ Yielded(s).failed = t.failed /\ Yielded(s).shrunk = t.shrunk /\ Yielded(s).lossy = t.lossy
        /\ Yielded(s).from = t.from /\ Yielded(s).fresh = t.fresh /\ Yielded(s).short = t.short
        /\ Yielded(s).named = t.named /\ Yielded(s).batch = t.batch
    BY <1>3, <2>4 DEF Sweeps
  <2> QED
    BY <1>2, <1>3, <2>3, <2>5, <2>6
<1>6. CASE ~(More(s) /\ ~(s.next = 1 /\ s.short))
  <2>1. s.short
    BY <1>1, <1>6 DEF More
  <2>2. Yielded(s) = [t EXCEPT !.at = "closing", !.pages = {}, !.next = 0, !.total = 0]
    BY <1>4, <1>6
  <2>5. Yielded(s) \in Sweeps
    BY <1>3, <2>2, MovedOn
  <2>3. Yielded(s) \in Sweeps /\ Yielded(s).pages = {} /\ Yielded(s).at = "closing"
    BY <1>3, <2>2, <2>5 DEF Sweeps
  <2>4. /\ Yielded(s).scoped = t.scoped /\ Yielded(s).selected = t.selected
        /\ Yielded(s).failed = t.failed /\ Yielded(s).shrunk = t.shrunk /\ Yielded(s).lossy = t.lossy
        /\ Yielded(s).from = t.from /\ Yielded(s).fresh = t.fresh /\ Yielded(s).short = t.short
        /\ Yielded(s).named = t.named /\ Yielded(s).batch = t.batch
    BY <1>3, <2>2 DEF Sweeps
  <2> QED
    BY <1>2, <1>3, <2>1, <2>3, <2>4
<1> QED
  BY <1>5, <1>6

\* A sweep begins with its first page asked for, and every rank on it or beyond.
LEMMA BeginKeeps ==
    ASSUME IInv, NEW scoped \in BOOLEAN, NEW selected \in SUBSET Macs, NEW lineage \in BOOLEAN,
           ~scoped => selected = Macs, Begin(scoped, selected, lineage)
    PROVE  IInv'
<1>1. TypeOK
  BY DEF IInv
<1>2. UNCHANGED <<phase, jamf, nextId, known, rows, wire, edits, mishaps>>
  BY DEF Begin
<1>3. <<>> \in Records /\ DOMAIN <<>> = {} /\ {0} \subseteq Nat /\ 0 \in Nat /\ 1 \in Nat
  BY NoneIsRecords
<1>4. nextId \in 1..(MaxId + 1) /\ nextId <= nextId
  BY <1>1, BoundsAssumption DEF TypeOK
<1>5. sweep' \in Sweeps
  BY <1>3, <1>4 DEF Begin, Sweeps
<1>6. /\ sweep'.scoped = scoped /\ sweep'.selected = selected /\ sweep'.named = <<>>
      /\ sweep'.batch = <<>> /\ sweep'.pages = {0} /\ sweep'.next = 1 /\ sweep'.from = nextId
      /\ sweep'.at = "paging" /\ sweep'.short = FALSE
  BY DEF Begin
<1>7. TypeOK'
  BY <1>1, <1>2, <1>5 DEF TypeOK
<1>8. SweepAgrees'
  BY <1>2, <1>3, <1>4, <1>6 DEF SweepAgrees
<1>9. \A i \in DOMAIN jamf : OnPage(0, Rank(i)) \/ 1 * PageSize <= Rank(i)
  <2> SUFFICES ASSUME NEW i \in DOMAIN jamf PROVE OnPage(0, Rank(i)) \/ 1 * PageSize <= Rank(i)
    OBVIOUS
  <2>1. Rank(i) \in Nat
    BY <1>1, RankIsNatural
  <2> HIDE DEF Rank
  <2>2. 0 * PageSize = 0 /\ (0 + 1) * PageSize = PageSize /\ 1 * PageSize = PageSize
    BY PagesAssumption
  <2> QED
    BY <2>1, <2>2, PagesAssumption DEF OnPage
<1>10. NobodySlips'
  BY <1>2, <1>6, <1>9 DEF NobodySlips, OnPage, Rank
<1> QED
  BY <1>2, <1>7, <1>8, <1>10, RowsRest DEF IInv

\* A sweep that is given up leaves everything but itself.
LEMMA AbandonKeeps == IInv /\ Abandon => IInv'
<1> SUFFICES ASSUME IInv, Abandon PROVE IInv'
  OBVIOUS
<1>1. UNCHANGED <<phase, jamf, nextId, known, rows, wire, edits>> /\ sweep' = Idle
  BY DEF Abandon
<1>2. mishaps' \in 0..MaxMishaps
  BY BoundsAssumption DEF Abandon, Mishap, IInv, TypeOK
<1>3. TypeOK'
  BY <1>1, <1>2 DEF IInv, TypeOK
<1> QED
  BY <1>1, <1>3, RowsRest DEF IInv, SweepAgrees, NobodySlips

-----------------------------------------------------------------------------
(* An answered page.                                                        *)

\* The running sweep with page p answered by these records and nothing else changed.
AnswersWith(s, p, results) ==
    /\ s \in Sweeps /\ s.at = "paging"
    /\ s.scoped = sweep.scoped /\ s.selected = sweep.selected /\ s.failed = sweep.failed
    /\ s.next = sweep.next /\ s.named = sweep.named /\ s.shrunk = sweep.shrunk
    /\ s.from = sweep.from /\ s.fresh = sweep.fresh
    /\ s.pages = sweep.pages \ {p}
    /\ DOMAIN s.batch = DOMAIN sweep.batch \cup results
    /\ s.short <=> sweep.short \/ Cardinality(results) < PageSize
    /\ ~s.lossy => ~sweep.lossy /\ results = Page(p)

\* For a sweep without a selector a page is the records whose rank is on it.
LEMMA WholePage ==
    ASSUME TypeOK, SweepAgrees, sweep # Idle, ~sweep.scoped, NEW p
    PROVE  Page(p) = {i \in DOMAIN jamf : OnPage(p, Rank(i))}
<1>1. Selected = DOMAIN jamf
  BY RecordsAre DEF TypeOK, SweepAgrees, Selected
<1> QED
  BY <1>1 DEF Page, OnPage, Rank

\* A page that comes short is the last: no record stands beyond it.
LEMMA ShortIsLast ==
    ASSUME TypeOK, SweepAgrees, sweep # Idle, ~sweep.scoped, NEW p \in Nat, NEW x \in DOMAIN jamf,
           Cardinality(Page(p)) < PageSize
    PROVE  Rank(x) < (p + 1) * PageSize
<1>1. IsFiniteSet(DOMAIN jamf) /\ Rank(x) \in Nat
  BY RankIsNatural
<1>2. DOMAIN jamf \in SUBSET Nat
  BY RecordsAre, BoundsAssumption DEF TypeOK, Ids
<1>3. (p + 1) * PageSize \in Nat /\ PageSize \in Nat
  BY NextPage, PagesAssumption
<1>4. Page(p) = {i \in DOMAIN jamf : OnPage(p, Cardinality({j \in DOMAIN jamf : j < i}))}
  BY WholePage DEF Rank
<1>5. Cardinality(Page(p)) \in Nat
  <2>1. IsFiniteSet(Page(p))
    BY <1>1, <1>4, FS_Subset
  <2> QED
    BY <2>1, FS_CardinalityType
<1>6. ASSUME (p + 1) * PageSize <= Rank(x) PROVE FALSE
  <2>1. (p + 1) * PageSize <= Cardinality({j \in DOMAIN jamf : j < x})
    BY <1>6 DEF Rank
  <2>2. PageSize <= Cardinality(Page(p))
    <3> HIDE DEF Rank
    <3> QED
      BY <1>1, <1>2, <1>4, <2>1, FullPage
  <2> QED
    BY <1>3, <1>5, <2>2
<1> QED
  BY <1>1, <1>3, <1>6

\* The records a page answered with are among the ids Jamf has given.
LEMMA PageIsOfJamf ==
    ASSUME TypeOK, NEW p
    PROVE  Page(p) \subseteq DOMAIN jamf /\ DOMAIN jamf \subseteq Ids /\ DOMAIN jamf \subseteq 1..(nextId - 1)
BY RecordsAre DEF TypeOK, Page, Selected

\* After an answer every record is still accounted for.
LEMMA AnswerCovers ==
    ASSUME IInv, sweep \in Sweeps, sweep.at = "paging", NEW p \in sweep.pages,
           NEW results, NEW s, AnswersWith(s, p, results),
           ~s.scoped, ~s.shrunk, ~s.lossy, NEW i \in DOMAIN jamf, Stood(i)
    PROVE  \/ i \in DOMAIN s.named \cup DOMAIN s.batch
           \/ \E q \in s.pages : OnPage(q, Rank(i))
           \/ ~s.short /\ s.next * PageSize <= Rank(i)
<1>1. TypeOK /\ SweepAgrees /\ NobodySlips /\ sweep # Idle
  BY SweepFields DEF IInv
<1>2. ~sweep.scoped /\ ~sweep.shrunk /\ ~sweep.lossy /\ results = Page(p)
  BY DEF AnswersWith
<1>3. p \in Nat /\ sweep.next \in Nat /\ p < sweep.next
  BY <1>1, SweepFields DEF SweepAgrees
<1>4. \/ i \in DOMAIN sweep.named \cup DOMAIN sweep.batch
      \/ \E q \in sweep.pages : OnPage(q, Rank(i))
      \/ ~sweep.short /\ sweep.next * PageSize <= Rank(i)
  BY <1>1, <1>2 DEF NobodySlips
<1>5. CASE i \in DOMAIN sweep.named \cup DOMAIN sweep.batch
  BY <1>5 DEF AnswersWith
<1>6. CASE \E q \in sweep.pages : OnPage(q, Rank(i))
  <2>1. PICK q \in sweep.pages : OnPage(q, Rank(i))
    BY <1>6
  <2>2. CASE q = p
    <3>1. i \in Page(p)
      BY <1>1, <1>2, <2>1, <2>2, WholePage
    <3> QED
      BY <1>2, <3>1 DEF AnswersWith
  <2>3. CASE q # p
    BY <2>1, <2>3 DEF AnswersWith
  <2> QED
    BY <2>2, <2>3
<1>7. CASE ~sweep.short /\ sweep.next * PageSize <= Rank(i)
  <2>1. ASSUME Cardinality(results) < PageSize PROVE FALSE
    <3>1. Rank(i) < (p + 1) * PageSize
      BY <1>1, <1>2, <1>3, <2>1, ShortIsLast
    <3>2. (p + 1) * PageSize <= sweep.next * PageSize
      <4>1. p + 1 \in Nat /\ p + 1 <= sweep.next
        BY <1>3
      <4> QED
        BY <1>3, <4>1, PagesAscend
    <3>3. Rank(i) \in Nat /\ (p + 1) * PageSize \in Nat /\ sweep.next * PageSize \in Nat
      <4>1. p + 1 \in Nat
        BY <1>3
      <4> QED
        BY <1>1, <1>3, <4>1, RankIsNatural, NextPage
    <3> HIDE DEF Rank
    <3> QED
      BY <1>7, <3>1, <3>2, <3>3
  <2>2. ~s.short /\ s.next = sweep.next
    <3>1. s.short \in BOOLEAN /\ (s.short <=> sweep.short \/ Cardinality(results) < PageSize) /\ s.next = sweep.next
      BY SweepFields DEF AnswersWith
    <3> QED
      BY <1>7, <2>1, <3>1
  <2> QED
    BY <1>7, <2>2
<1> QED
  BY <1>4, <1>5, <1>6, <1>7

\* A page is in: its records wait for the rest of the wave, or the whole wave is
\* ingested and the next is asked for or the sweep closes.
LEMMA ReceiveKeeps ==
    ASSUME IInv, sweep \in Sweeps, sweep.at = "paging", NEW p \in sweep.pages,
           NEW results \in SUBSET Page(p), NEW s, AnswersWith(s, p, results),
           NEW failed, Receive(s, failed), mishaps' \in 0..MaxMishaps
    PROVE  IInv'
<1>1. TypeOK /\ SweepAgrees /\ NobodySlips /\ sweep # Idle
  BY SweepFields DEF IInv
<1>2. UNCHANGED <<phase, jamf, nextId, rows, wire, edits>>
  BY DEF Receive
<1>3. s \in Sweeps /\ s # Idle /\ s.at = "paging"
  BY SweepFields DEF AnswersWith
<1>4. DOMAIN s.named \cup DOMAIN s.batch \subseteq 1..(nextId - 1)
  BY <1>1, PageIsOfJamf DEF SweepAgrees, AnswersWith
<1>5. CASE s.pages # {}
  <2>1. sweep' = s /\ known' = known
    BY <1>5 DEF Receive
  <2>2. TypeOK'
    BY <1>1, <1>2, <1>3, <2>1 DEF TypeOK
  <2>3. SweepAgrees'
    BY <1>1, <1>2, <1>3, <1>4, <2>1 DEF SweepAgrees, AnswersWith
  <2>4. NobodySlips'
    <3> SUFFICES ASSUME ~s.scoped, ~s.shrunk, ~s.lossy, NEW i \in DOMAIN jamf, Stood(i)
                 PROVE  \/ i \in DOMAIN s.named \cup DOMAIN s.batch
                        \/ \E q \in s.pages : OnPage(q, Rank(i))
                        \/ ~s.short /\ s.next * PageSize <= Rank(i)
      BY <1>2, <1>3, <2>1 DEF NobodySlips, Stood, Rank, OnPage, AnswersWith
    <3> QED
      BY AnswerCovers
  <2> QED
    BY <1>2, <2>2, <2>3, <2>4, RowsRest DEF IInv
<1>6. CASE s.pages = {}
  <2>1. PICK u : u = [s EXCEPT !.failed = s.failed \/ failed # {}]
    OBVIOUS
  <2>2. /\ u \in Sweeps /\ u.at = "paging" /\ u.scoped = s.scoped /\ u.selected = s.selected
        /\ u.shrunk = s.shrunk /\ u.lossy = s.lossy /\ u.from = s.from /\ u.fresh = s.fresh
        /\ u.short = s.short /\ u.named = s.named /\ u.batch = s.batch /\ u.next = s.next
    BY <1>3, <2>1 DEF Sweeps
  <2>3. ~u.failed => ~s.failed /\ failed = {}
    BY <1>3, <2>1 DEF Sweeps
  <2>4. sweep' = Yielded(u)
    BY <1>6, <2>1 DEF Receive
  <2>5. PICK t : t = Yielded(u)
    OBVIOUS
  <2>6. /\ t \in Sweeps /\ t # Idle /\ t.scoped = s.scoped /\ t.selected = s.selected /\ t.failed = u.failed
        /\ t.shrunk = s.shrunk /\ t.lossy = s.lossy /\ t.from = s.from /\ t.fresh = s.fresh
        /\ t.short = s.short
        /\ t.named = Over(s.batch, s.named) /\ DOMAIN t.batch = {}
        /\ \/ t.at = "paging" /\ s.next <= t.next /\ t.pages = s.next..(t.next - 1)
           \/ t.at = "closing" /\ t.pages = {} /\ s.short
    BY <2>2, <2>5, YieldedFields, SweepFields
  <2>7. DOMAIN t.named = DOMAIN s.batch \cup DOMAIN s.named
    <3>1. s.named \in Records /\ s.batch \in Records
      BY <1>3, SweepFields
    <3>2. DOMAIN Over(s.batch, s.named) = DOMAIN s.batch \cup DOMAIN s.named
      BY <3>1, OverIsRecords
    <3> QED
      BY <2>6, <3>2
  <2>8. known' \in Records /\ DOMAIN known' = (DOMAIN s.batch \ failed) \cup DOMAIN known
    <3> DEFINE f == [i \in DOMAIN s.batch \ failed |-> s.batch[i]]
    <3>1. f \in Records /\ DOMAIN f = DOMAIN s.batch \ failed
      BY <1>3, SweepFields, RecordsAre
    <3>2. known' = Over(f, known)
      BY <1>6 DEF Receive
    <3> HIDE DEF f
    <3> QED
      BY <1>1, <3>1, <3>2, OverIsRecords DEF TypeOK
  <2>9. TypeOK'
    <3>1. DOMAIN known' \subseteq 1..(nextId - 1) /\ DOMAIN known \subseteq DOMAIN known'
      BY <1>1, <1>4, <2>8 DEF TypeOK
    <3> QED
      BY <1>1, <1>2, <2>4, <2>5, <2>6, <2>8, <3>1 DEF TypeOK
  <2>10. SweepAgrees'
    <3>1. ~t.scoped => t.selected = Macs
      BY <1>1, <2>6 DEF SweepAgrees, AnswersWith
    <3>2. DOMAIN t.named \cup DOMAIN t.batch \subseteq 1..(nextId - 1)
      BY <1>4, <2>6, <2>7
    <3>3. \A q \in t.pages : q < t.next
      <4>1. s.next \in Nat /\ t.next \in Nat
        BY <1>3, <2>6, SweepFields
      <4> QED
        BY <2>6, <4>1
    <3>4. t.from <= nextId
      BY <1>1, <2>6 DEF SweepAgrees, AnswersWith
    <3>5. ~t.failed => DOMAIN t.named \subseteq DOMAIN known'
      BY <1>1, <2>3, <2>6, <2>7, <2>8 DEF SweepAgrees, AnswersWith
    <3>6. t.at = "closing" => t.pages = {} /\ DOMAIN t.batch = {}
      BY <2>6
    <3> QED
      BY <1>2, <2>4, <2>5, <3>1, <3>2, <3>3, <3>4, <3>5, <3>6 DEF SweepAgrees
  <2>11. NobodySlips'
    <3> SUFFICES ASSUME ~t.scoped, ~t.shrunk, ~t.lossy, NEW i \in DOMAIN jamf, Stood(i)
                 PROVE  \/ i \in DOMAIN t.named
                        \/ \E q \in t.pages : OnPage(q, Rank(i))
                        \/ t.at = "paging" /\ ~t.short /\ t.next * PageSize <= Rank(i)
      BY <1>2, <2>4, <2>5, <2>6 DEF NobodySlips, Stood, Rank, OnPage, AnswersWith
    <3>1. \/ i \in DOMAIN s.named \cup DOMAIN s.batch
          \/ ~s.short /\ s.next * PageSize <= Rank(i)
      BY <1>6, <2>6, AnswerCovers
    <3>2. CASE i \in DOMAIN s.named \cup DOMAIN s.batch
      BY <2>7, <3>2
    <3>3. CASE ~s.short /\ s.next * PageSize <= Rank(i)
      <4>1. t.at = "paging" /\ s.next <= t.next /\ t.pages = s.next..(t.next - 1) /\ ~t.short
        BY <2>6, <3>3
      <4>2. PICK r \in Nat, a \in Nat, b \in Nat : r = Rank(i) /\ a = s.next /\ b = t.next
        BY <1>1, <1>3, <2>6, SweepFields, RankIsNatural
      <4>3. PICK q \in Nat : OnPage(q, r)
        BY EveryRankHasAPage
      <4>4. b * PageSize \in Nat /\ a * PageSize \in Nat /\ q * PageSize \in Nat /\ (q + 1) * PageSize \in Nat
        <5>1. \A n \in Nat : n * PageSize \in Nat
          BY PagesAssumption
        <5>2. q + 1 \in Nat
          BY <4>3
        <5> QED
          BY <5>1, <5>2
      <4>5. CASE b * PageSize <= r
        BY <4>1, <4>2, <4>5
      <4>6. CASE ~(b * PageSize <= r)
        <5>1. a <= q
          <6>1. ASSUME q + 1 <= a PROVE FALSE
            <7>1. (q + 1) * PageSize <= a * PageSize
              BY <6>1, PagesAscend
            <7> QED
              BY <3>3, <4>2, <4>3, <4>4, <7>1 DEF OnPage
          <6> QED
            BY <6>1
        <5>2. q < b
          <6>1. ASSUME b <= q PROVE FALSE
            <7>1. b * PageSize <= q * PageSize
              BY <6>1, PagesAscend
            <7> QED
              BY <4>3, <4>4, <4>6, <7>1 DEF OnPage
          <6> QED
            BY <6>1
        <5>3. q \in t.pages
          BY <4>1, <4>2, <5>1, <5>2
        <5> QED
          BY <4>2, <4>3, <5>3
      <4> QED
        BY <4>5, <4>6
    <3> QED
      BY <3>1, <3>2, <3>3
  <2> QED
    BY <1>2, <2>9, <2>10, <2>11, RowsRest DEF IInv
<1> QED
  BY <1>5, <1>6

\* What Answered does to the sweep's fields.
LEMMA AnsweredFields ==
    ASSUME IInv, sweep \in Sweeps, sweep.at = "paging", NEW p \in sweep.pages,
           NEW results \in SUBSET Page(p), NEW lossy \in BOOLEAN,
           lossy \/ results = Page(p),
           NEW s, s = [Answered(sweep, p, results) EXCEPT !.lossy = @ \/ lossy]
    PROVE  AnswersWith(s, p, results)
<1> DEFINE batch == [i \in DOMAIN sweep.batch \cup results |-> IF i \in results THEN jamf[i] ELSE sweep.batch[i]]
           total == IF p = 0 THEN Cardinality(Selected) ELSE sweep.total
           short == sweep.short \/ Cardinality(results) < PageSize
           pages == sweep.pages \ {p}
<1>1. TypeOK /\ sweep.total \in Nat /\ sweep.lossy \in BOOLEAN
  BY SweepFields DEF IInv
<1>2. batch \in Records /\ DOMAIN batch = DOMAIN sweep.batch \cup results
  BY <1>1, SweepFields, RecordsAre, PageIsOfJamf DEF TypeOK
<1>3. total \in Nat
  <2>1. IsFiniteSet(Selected)
    BY <1>1, RankIsNatural, FS_Subset DEF Selected
  <2> QED
    BY <1>1, <2>1, FS_CardinalityType
<1>4. short \in BOOLEAN /\ pages \subseteq Nat
  BY SweepFields
<1> HIDE DEF batch, total
<1>5. s = [[sweep EXCEPT !.batch = batch, !.pages = pages, !.short = short, !.total = total]
              EXCEPT !.lossy = @ \/ lossy]
  BY DEF Answered, batch, total
<1> HIDE DEF short, pages
<1>6. s = [sweep EXCEPT !.batch = batch, !.pages = pages, !.short = short, !.total = total,
                        !.lossy = sweep.lossy \/ lossy]
  BY <1>5 DEF Sweeps
<1>7. s \in Sweeps
  <2> DEFINE s1 == [sweep EXCEPT !.batch = batch]
             s2 == [s1 EXCEPT !.pages = pages]
             s3 == [s2 EXCEPT !.short = short]
             s4 == [s3 EXCEPT !.total = total]
             lost == sweep.lossy \/ lossy
             s5 == [s4 EXCEPT !.lossy = lost]
  <2>1. s = s5
    BY <1>6
  <2>2. s1 \in Sweeps
    BY <1>2 DEF Sweeps
  <2>3. s2 \in Sweeps
    <3> HIDE DEF s1
    <3> QED
      BY <1>4, <2>2 DEF Sweeps
  <2>4. s3 \in Sweeps
    <3> HIDE DEF s2
    <3> QED
      BY <1>4, <2>3 DEF Sweeps
  <2>5. s4 \in Sweeps
    <3> HIDE DEF s3
    <3> QED
      BY <1>3, <2>4 DEF Sweeps
  <2>6. lost \in BOOLEAN
    BY <1>1
  <2>7. s5 \in Sweeps
    <3> HIDE DEF s4, lost
    <3> QED
      BY <2>5, <2>6 DEF Sweeps
  <2> QED
    BY <2>1, <2>7
<1>8. /\ s.at = "paging" /\ s.scoped = sweep.scoped /\ s.selected = sweep.selected
      /\ s.failed = sweep.failed /\ s.next = sweep.next /\ s.named = sweep.named
      /\ s.shrunk = sweep.shrunk /\ s.from = sweep.from /\ s.fresh = sweep.fresh
  BY <1>6 DEF Sweeps
<1>9. s.pages = pages /\ s.batch = batch /\ s.short = short /\ s.lossy = (sweep.lossy \/ lossy)
  BY <1>6 DEF Sweeps
<1>10. (s.short <=> sweep.short \/ Cardinality(results) < PageSize) /\ (~s.lossy => ~sweep.lossy /\ results = Page(p))
  BY <1>9 DEF short
<1> QED
  BY <1>2, <1>7, <1>8, <1>9, <1>10 DEF AnswersWith, pages

LEMMA AskedSweep ==
    ASSUME IInv, NEW p, Asked(p)
    PROVE  sweep \in Sweeps /\ sweep.at = "paging" /\ p \in sweep.pages
BY SweepRuns DEF Asked, Idle, IInv

\* The next page, answered in full.
LEMMA FetchPageKeeps ==
    ASSUME IInv, NEW p, FetchPage(p)
    PROVE  IInv'
<1>1. sweep \in Sweeps /\ sweep.at = "paging" /\ p \in sweep.pages
  BY AskedSweep DEF FetchPage
<1>2. mishaps' \in 0..MaxMishaps
  BY DEF FetchPage, IInv, TypeOK
<1>3. PICK s : s = Answered(sweep, p, Page(p))
  OBVIOUS
<1>4. s = [Answered(sweep, p, Page(p)) EXCEPT !.lossy = @ \/ FALSE]
  BY <1>1, <1>3 DEF Answered, Sweeps
<1>5. AnswersWith(s, p, Page(p))
  BY <1>1, <1>4, AnsweredFields
<1>6. Receive(s, {})
  BY <1>3 DEF FetchPage
<1> QED
  BY <1>1, <1>2, <1>5, <1>6, ReceiveKeeps

\* A page of the wave's last, some of whose devices are not ingested.
LEMMA DevicesFailKeeps ==
    ASSUME IInv, NEW p, DevicesFail(p)
    PROVE  IInv'
<1>1. sweep \in Sweeps /\ sweep.at = "paging" /\ p \in sweep.pages
  BY AskedSweep DEF DevicesFail
<1>2. mishaps' \in 0..MaxMishaps
  BY BoundsAssumption DEF DevicesFail, Mishap, IInv, TypeOK
<1>3. PICK s : s = Answered(sweep, p, Page(p))
  OBVIOUS
<1>4. s = [Answered(sweep, p, Page(p)) EXCEPT !.lossy = @ \/ FALSE]
  BY <1>1, <1>3 DEF Answered, Sweeps
<1>5. AnswersWith(s, p, Page(p))
  BY <1>1, <1>4, AnsweredFields
<1>6. PICK failed : Receive(s, failed)
  BY <1>3 DEF DevicesFail
<1> QED
  BY <1>1, <1>2, <1>5, <1>6, ReceiveKeeps

\* A page from which Jamf leaves records out.
LEMMA FetchShortKeeps ==
    ASSUME IInv, NEW p, FetchShort(p)
    PROVE  IInv'
<1>1. sweep \in Sweeps /\ sweep.at = "paging" /\ p \in sweep.pages
  BY AskedSweep DEF FetchShort
<1>2. mishaps' \in 0..MaxMishaps
  BY BoundsAssumption DEF FetchShort, Mishap, IInv, TypeOK
<1>3. PICK results \in SUBSET Page(p) : Receive([Answered(sweep, p, results) EXCEPT !.lossy = TRUE], {})
  BY DEF FetchShort
<1>4. PICK s : s = [Answered(sweep, p, results) EXCEPT !.lossy = TRUE]
  OBVIOUS
<1>5. s = [Answered(sweep, p, results) EXCEPT !.lossy = @ \/ TRUE]
  BY <1>4
<1>6. AnswersWith(s, p, results)
  BY <1>1, <1>5, AnsweredFields
<1> QED
  BY <1>1, <1>2, <1>3, <1>4, <1>6, ReceiveKeeps

-----------------------------------------------------------------------------
(* The close.                                                               *)

\* One sequence after another.
LEMMA Joined ==
    ASSUME NEW S, NEW f \in Seq(S), NEW g \in Seq(S)
    PROVE  /\ f \o g \in Seq(S)
           /\ Len(f \o g) = Len(f) + Len(g)
           /\ \A k \in 1..Len(f) : (f \o g)[k] = f[k]
           /\ \A k \in 1..Len(g) : (f \o g)[Len(f) + k] = g[k]
           /\ \A k \in 1..Len(f \o g) : k \in 1..Len(f) \/ \E j \in 1..Len(g) : k = Len(f) + j
<1>1. f \o g \in Seq(S) /\ Len(f \o g) = Len(f) + Len(g) /\ Len(f) \in Nat /\ Len(g) \in Nat
  OBVIOUS
<1>2. \A k \in 1..Len(f) : (f \o g)[k] = f[k]
  OBVIOUS
<1>3. \A k \in 1..Len(g) : (f \o g)[Len(f) + k] = g[k]
  OBVIOUS
<1>4. ASSUME NEW k \in 1..Len(f \o g), k \notin 1..Len(f)
      PROVE  \E j \in 1..Len(g) : k = Len(f) + j
  <2>1. k - Len(f) \in 1..Len(g) /\ k = Len(f) + (k - Len(f))
    BY <1>1, <1>4
  <2> QED
    BY <2>1
<1> QED
  BY <1>1, <1>2, <1>3, <1>4

\* What the census makes of a row that it does not close.
Judged(r) == IF BackBySerial(r) THEN [r EXCEPT !.back = "serial"] ELSE r

LEMMA JudgedRow ==
    ASSUME NEW r \in Rows
    PROVE  /\ Judged(r) \in Rows /\ Judged(r).gone = r.gone /\ Judged(r).removed = r.removed
           /\ Judged(r).back = IF BackBySerial(r) THEN "serial" ELSE r.back
BY DEF Judged, Rows

LEMMA NewRowIsRow ==
    ASSUME TypeOK, NEW i \in Ids
    PROVE  NewRow(i) \in Rows /\ NewRow(i).gone = i
<1>1. 0 \in 0..Expiry /\ 0 \in 0..TailDays
  BY TailAssumption DEF Expiry
<1> QED
  BY <1>1 DEF TypeOK, NewRow, Rows

\* The known Macs that are present, and the ones of them a census departs.
LEMMA DepartedAreKnown ==
    ASSUME TypeOK
    PROVE  /\ IsFiniteSet(Population) /\ Population \subseteq Ids /\ Population \subseteq DOMAIN known
           /\ IsFiniteSet(Departed) /\ Departed \in SUBSET Nat /\ Departed \subseteq Ids
           /\ Cardinality(Departed) \in Nat
           /\ Departed \subseteq Population
<1>1. DOMAIN known \subseteq Ids
  BY RecordsAre DEF TypeOK
<1>2. IsFiniteSet(Ids) /\ Ids \subseteq Nat
  BY FS_Interval, BoundsAssumption DEF Ids
<1>3. Population \subseteq DOMAIN known /\ Departed \subseteq Population
  BY DEF Population, Departed
<1>4. IsFiniteSet(Population) /\ IsFiniteSet(Departed)
  BY <1>1, <1>2, <1>3, FS_Subset
<1> QED
  BY <1>1, <1>2, <1>3, <1>4, FS_CardinalityType

\* The reconciled rows: every old row the census does not close, judged, and one new
\* row for each id that departs.
LEMMA ReconciledRows ==
    ASSUME IInv
    PROVE  /\ Reconciled \in Seq(Rows)
           /\ \A k \in 1..Len(Reconciled) :
                  \/ \E m \in DOMAIN rows : ~BackById(rows[m]) /\ Reconciled[k] = Judged(rows[m])
                  \/ \E i \in Departed : Reconciled[k] = NewRow(i)
           /\ \A m \in DOMAIN rows : ~BackById(rows[m]) =>
                  \E k \in 1..Len(Reconciled) : Reconciled[k] = Judged(rows[m])
           /\ \A i \in Departed : \E k \in 1..Len(Reconciled) : Reconciled[k] = NewRow(i)
           /\ \A j, k \in 1..Len(Reconciled) : Reconciled[j].gone = Reconciled[k].gone => j = k
<1> DEFINE P == {rows[i] : i \in {k \in DOMAIN rows : BackById(rows[k])}}
           stay == Without(rows, P)
           new == Sorted(Departed)
           a == [i \in 1..Len(stay) |-> Judged(stay[i])]
           b == [i \in 1..Cardinality(Departed) |-> NewRow(new[i])]
<1>1. TypeOK /\ OneRowPerGoneId /\ rows \in Seq(Rows) /\ DOMAIN rows = 1..Len(rows)
  BY DEF IInv, TypeOK
<1>2. \A m \in 1..Len(rows) : rows[m] \notin P <=> ~BackById(rows[m])
  BY <1>1
<1> HIDE DEF P
<1>3. stay \in Seq(Rows)
  BY <1>1, WithoutProperties
<1>4. PICK at \in [1..Len(stay) -> 1..Len(rows)] :
          /\ \A i \in 1..Len(stay) : stay[i] = rows[at[i]] /\ rows[at[i]] \notin P
          /\ \A i, j \in 1..Len(stay) : i < j => at[i] < at[j]
          /\ \A k \in 1..Len(rows) : rows[k] \notin P => \E i \in 1..Len(stay) : at[i] = k
  <2>1. \E at : KeptAt(at, stay, rows, P)
    BY <1>1, WithoutProperties
  <2> HIDE DEF stay
  <2> QED
    BY ONLY <2>1, Zenon DEF KeptAt
<1>5. Reconciled = a \o b
  BY DEF Reconciled, Judged, P
<1>6. /\ new \in [1..Cardinality(Departed) -> Departed]
      /\ \A i, j \in 1..Cardinality(Departed) : new[i] = new[j] => i = j
      /\ \A x \in Departed : \E i \in 1..Cardinality(Departed) : new[i] = x
  BY <1>1, DepartedAreKnown, SortedProperties
<1> HIDE DEF stay, new
<1>7. Len(stay) \in Nat /\ a \in Seq(Rows) /\ Len(a) = Len(stay) /\ \A i \in 1..Len(stay) : a[i] = Judged(stay[i]) /\ stay[i] \in Rows
  <2>1. Len(stay) \in Nat /\ \A i \in 1..Len(stay) : stay[i] \in Rows
    BY <1>3
  <2>2. a \in [1..Len(stay) -> Rows]
    BY <2>1, JudgedRow
  <2> QED
    BY <2>1, <2>2
<1>8. b \in Seq(Rows) /\ Len(b) = Cardinality(Departed) /\ \A i \in 1..Len(b) : b[i] = NewRow(new[i]) /\ new[i] \in Departed
  <2>1. Cardinality(Departed) \in Nat /\ \A i \in 1..Cardinality(Departed) : NewRow(new[i]) \in Rows
    BY <1>1, <1>6, DepartedAreKnown, NewRowIsRow
  <2>2. b \in [1..Cardinality(Departed) -> Rows]
    BY <2>1
  <2> QED
    BY <1>6, <2>1, <2>2
<1> HIDE DEF a, b
<1>9. PICK R : R = Reconciled
  OBVIOUS
<1>10. /\ R \in Seq(Rows)
       /\ Len(R) = Len(a) + Len(b) /\ Len(R) \in Nat
       /\ \A k \in 1..Len(a) : R[k] = a[k]
       /\ \A k \in 1..Len(b) : R[Len(a) + k] = b[k]
       /\ \A k \in 1..Len(R) : k \in 1..Len(a) \/ \E j \in 1..Len(b) : k = Len(a) + j
  <2>1. a \in Seq(Rows) /\ b \in Seq(Rows) /\ R = a \o b
    BY <1>5, <1>7, <1>8, <1>9
  <2>2. R \in Seq(Rows) /\ Len(R) = Len(a) + Len(b) /\ Len(R) \in Nat
    BY <2>1, Joined
  <2>3. \A k \in 1..Len(a) : R[k] = a[k]
    BY <2>1, Joined
  <2>4. \A k \in 1..Len(b) : R[Len(a) + k] = b[k]
    BY <2>1, Joined
  <2>5. \A k \in 1..Len(R) : k \in 1..Len(a) \/ \E j \in 1..Len(b) : k = Len(a) + j
    BY <2>1, Joined
  <2> QED
    BY <2>2, <2>3, <2>4, <2>5
<1>11. ASSUME NEW k \in 1..Len(a)
       PROVE  at[k] \in DOMAIN rows /\ ~BackById(rows[at[k]]) /\ a[k] = Judged(rows[at[k]])
                /\ a[k].gone = rows[at[k]].gone /\ a[k].gone \in GoneIds(rows)
  <2>1. at[k] \in 1..Len(rows) /\ stay[k] = rows[at[k]] /\ rows[at[k]] \notin P /\ a[k] = Judged(stay[k]) /\ stay[k] \in Rows
    BY <1>4, <1>7
  <2>2. a[k].gone = stay[k].gone
    BY <2>1, JudgedRow
  <2> QED
    BY <1>1, <1>2, <2>1, <2>2 DEF GoneIds
<1>12. ASSUME NEW k \in 1..Len(b)
       PROVE  new[k] \in Departed /\ b[k] = NewRow(new[k]) /\ b[k].gone = new[k] /\ b[k].gone \notin GoneIds(rows)
  BY <1>1, <1>8, NewRowIsRow, DepartedAreKnown DEF Departed, Population
<1>13. ASSUME NEW k \in 1..Len(R)
       PROVE  \/ \E m \in DOMAIN rows : ~BackById(rows[m]) /\ R[k] = Judged(rows[m])
              \/ \E i \in Departed : R[k] = NewRow(i)
  <2>1. CASE k \in 1..Len(a)
    BY <1>10, <1>11, <2>1
  <2>2. CASE \E j \in 1..Len(b) : k = Len(a) + j
    BY <1>10, <1>12, <2>2
  <2> QED
    BY <1>10, <2>1, <2>2
<1>14. \A k \in 1..Len(a) : k \in 1..Len(R)
  <2>1. Len(a) \in Nat /\ Len(b) \in Nat
    BY <1>7, <1>8
  <2> QED
    BY <1>10, <2>1
<1>15. \A k \in 1..Len(b) : Len(a) + k \in 1..Len(R)
  <2>1. Len(a) \in Nat /\ Len(b) \in Nat
    BY <1>7, <1>8
  <2> QED
    BY <1>10, <2>1
<1>16. ASSUME NEW m \in DOMAIN rows, ~BackById(rows[m])
       PROVE  \E k \in 1..Len(R) : R[k] = Judged(rows[m])
  <2>1. PICK k \in 1..Len(stay) : at[k] = m
    BY <1>1, <1>2, <1>4, <1>16
  <2>2. k \in 1..Len(a)
    BY <1>7
  <2> QED
    BY <1>10, <1>11, <1>14, <2>1, <2>2
<1>17. ASSUME NEW i \in Departed
       PROVE  \E k \in 1..Len(R) : R[k] = NewRow(i)
  <2>1. PICK k \in 1..Len(b) : new[k] = i
    BY <1>6, <1>8
  <2> QED
    BY <1>10, <1>12, <1>15, <2>1
<1>18. ASSUME NEW j \in 1..Len(R), NEW k \in 1..Len(R), R[j].gone = R[k].gone
       PROVE  j = k
  <2>1. ASSUME NEW x \in 1..Len(a), NEW y \in 1..Len(a), a[x].gone = a[y].gone PROVE x = y
    <3>1. at[x] = at[y]
      <4>1. OneRowPerGoneId
        BY <1>1
      <4>2. at[x] \in DOMAIN rows /\ at[y] \in DOMAIN rows
        BY <1>11
      <4>3. a[x].gone = rows[at[x]].gone /\ a[y].gone = rows[at[y]].gone
        BY <1>11
      <4>4. rows[at[x]].gone = rows[at[y]].gone
        BY <2>1, <4>3
      <4> QED
        BY <4>1, <4>2, <4>4, Zenon DEF OneRowPerGoneId
    <3>2. x \in 1..Len(stay) /\ y \in 1..Len(stay) /\ x \in Nat /\ y \in Nat /\ at[x] \in Nat
      BY <1>7, <1>4
    <3>3. ~(x < y) /\ ~(y < x)
      BY <1>4, <3>1, <3>2
    <3> QED
      BY <3>2, <3>3
  <2>2. ASSUME NEW x \in 1..Len(b), NEW y \in 1..Len(b), b[x].gone = b[y].gone PROVE x = y
    BY <1>6, <1>8, <1>12, <2>2
  <2>3. CASE j \in 1..Len(a)
    <3>1. CASE k \in 1..Len(a)
      BY <1>10, <1>18, <2>1, <2>3, <3>1
    <3>2. CASE \E y \in 1..Len(b) : k = Len(a) + y
      <4>1. PICK y \in 1..Len(b) : k = Len(a) + y
        BY <3>2
      <4>2. R[j] = a[j] /\ R[k] = b[y]
        BY <1>10, <2>3, <4>1
      <4>3. a[j].gone \in GoneIds(rows) /\ b[y].gone \notin GoneIds(rows)
        BY <1>11, <1>12, <2>3
      <4> QED
        BY <1>18, <4>2, <4>3
    <3> QED
      BY <1>10, <3>1, <3>2
  <2>4. CASE \E x \in 1..Len(b) : j = Len(a) + x
    <3>1. PICK x \in 1..Len(b) : j = Len(a) + x
      BY <2>4
    <3>a. R[j] = b[x]
      BY <1>10, <3>1
    <3>2. CASE k \in 1..Len(a)
      <4>1. R[k] = a[k]
        BY <1>10, <3>2
      <4>2. a[k].gone \in GoneIds(rows) /\ b[x].gone \notin GoneIds(rows)
        BY <1>11, <1>12, <3>2
      <4> QED
        BY <1>18, <3>a, <4>1, <4>2
    <3>3. CASE \E y \in 1..Len(b) : k = Len(a) + y
      <4>1. PICK y \in 1..Len(b) : k = Len(a) + y
        BY <3>3
      <4>2. R[k] = b[y]
        BY <1>10, <4>1
      <4>3. x = y
        BY <1>18, <2>2, <3>a, <4>2
      <4> QED
        BY <3>1, <4>1, <4>3
    <3> QED
      BY <1>10, <3>2, <3>3
  <2> QED
    BY <1>10, <2>3, <2>4
<1> QED
  BY <1>9, <1>10, <1>13, <1>16, <1>17, <1>18, ZenonT(30)

\* Notices and terminals change only what a row says of them.
LEMMA NoticedRows ==
    ASSUME NEW rs \in Seq(Rows)
    PROVE  /\ Noticed(rs) \in Seq(Rows) /\ Len(Noticed(rs)) = Len(rs)
           /\ \A k \in 1..Len(rs) : /\ Noticed(rs)[k].gone = rs[k].gone
                                    /\ Noticed(rs)[k].back = rs[k].back
                                    /\ Noticed(rs)[k].removed = rs[k].removed
<1>1. Len(rs) \in Nat /\ DOMAIN rs = 1..Len(rs) /\ \A k \in 1..Len(rs) : rs[k] \in Rows
  OBVIOUS
<1>2. ASSUME NEW r \in Rows
      PROVE  NoticeDay(r) \in 0..TailDays
  <2>1. r.phase \in {0, 1} /\ r.age \in Nat
    BY TailAssumption DEF Rows, Expiry
  <2>2. (r.phase + r.age) \div 2 \in Nat
    BY <2>1
  <2> QED
    BY <2>2, TailAssumption DEF NoticeDay
<1>3. ASSUME NEW r \in Rows, NEW n \in 0..TailDays
      PROVE  /\ [r EXCEPT !.notice = n] \in Rows
             /\ [r EXCEPT !.notice = n].gone = r.gone
             /\ [r EXCEPT !.notice = n].back = r.back
             /\ [r EXCEPT !.notice = n].removed = r.removed
  BY DEF Rows
<1>4. ASSUME NEW k \in 1..Len(rs)
      PROVE  /\ Noticed(rs)[k] \in Rows
             /\ Noticed(rs)[k].gone = rs[k].gone
             /\ Noticed(rs)[k].back = rs[k].back
             /\ Noticed(rs)[k].removed = rs[k].removed
  <2>1. Noticed(rs)[k] = IF NoticeDue(rs[k]) THEN [rs[k] EXCEPT !.notice = NoticeDay(rs[k])] ELSE rs[k]
    BY <1>1 DEF Noticed
  <2>2. rs[k] \in Rows /\ NoticeDay(rs[k]) \in 0..TailDays
    BY <1>1, <1>2
  <2> QED
    BY <1>3, <2>1, <2>2
<1>5. Noticed(rs) \in [1..Len(rs) -> Rows]
  BY <1>1, <1>4 DEF Noticed
<1>6. Noticed(rs) \in Seq(Rows) /\ Len(Noticed(rs)) = Len(rs)
  BY <1>1, <1>5
<1> QED
  BY <1>4, <1>6

LEMMA RemovedRows ==
    ASSUME NEW rs \in Seq(Rows)
    PROVE  /\ Removed(rs) \in Seq(Rows) /\ Len(Removed(rs)) = Len(rs)
           /\ \A k \in 1..Len(rs) : /\ Removed(rs)[k].gone = rs[k].gone
                                    /\ Removed(rs)[k].back = rs[k].back
                                    /\ Removed(rs)[k].removed = (rs[k].removed \/ RemovalDue(rs[k]))
<1>1. Len(rs) \in Nat /\ DOMAIN rs = 1..Len(rs) /\ \A k \in 1..Len(rs) : rs[k] \in Rows
  OBVIOUS
<1>2. ASSUME NEW r \in Rows
      PROVE  /\ [r EXCEPT !.removed = TRUE] \in Rows
             /\ [r EXCEPT !.removed = TRUE].gone = r.gone
             /\ [r EXCEPT !.removed = TRUE].back = r.back
             /\ [r EXCEPT !.removed = TRUE].removed = TRUE
             /\ r.removed \in BOOLEAN /\ RemovalDue(r) \in BOOLEAN
  BY DEF Rows, RemovalDue
<1>3. ASSUME NEW k \in 1..Len(rs)
      PROVE  /\ Removed(rs)[k] \in Rows
             /\ Removed(rs)[k].gone = rs[k].gone
             /\ Removed(rs)[k].back = rs[k].back
             /\ Removed(rs)[k].removed = (rs[k].removed \/ RemovalDue(rs[k]))
  <2>1. Removed(rs)[k] = IF RemovalDue(rs[k]) THEN [rs[k] EXCEPT !.removed = TRUE] ELSE rs[k]
    BY <1>1 DEF Removed
  <2>2. rs[k] \in Rows
    BY <1>1
  <2>3. CASE RemovalDue(rs[k])
    <3>1. Removed(rs)[k] = [rs[k] EXCEPT !.removed = TRUE]
      BY <2>1, <2>3
    <3>2. (rs[k].removed \/ RemovalDue(rs[k])) = TRUE
      BY <2>3, Zenon
    <3>3. /\ Removed(rs)[k] \in Rows
          /\ Removed(rs)[k].gone = rs[k].gone
          /\ Removed(rs)[k].back = rs[k].back
          /\ Removed(rs)[k].removed = TRUE
      BY <1>2, <2>2, <3>1
    <3> QED
      BY <3>2, <3>3
  <2>4. CASE ~RemovalDue(rs[k])
    BY <1>2, <2>1, <2>2, <2>4
  <2> QED
    BY <2>3, <2>4
<1>4. Removed(rs) \in [1..Len(rs) -> Rows]
  BY <1>1, <1>3 DEF Removed
<1>5. Removed(rs) \in Seq(Rows) /\ Len(Removed(rs)) = Len(rs)
  BY <1>1, <1>4
<1> QED
  BY <1>3, <1>5

\* A new row owes the notice of its first day.
LEMMA NewRowIsDue ==
    ASSUME TypeOK, NEW i
    PROVE  NoticeDue(NewRow(i))
<1>1. Expiry # 0 /\ TailDays \in Nat /\ TailDays >= 1
  BY TailAssumption DEF Expiry
<1>2. phase \in {0, 1}
  BY DEF TypeOK
<1>3. (phase + 0) \div 2 = 0
  BY <1>2
<1> QED
  BY <1>1, <1>3 DEF NewRow, NoticeDue, LeftTheFleet, NoticeDay

\* A sweep that closes is one of the two closes.
LEMMA EndsKeeps ==
    ASSUME IInv, Ends, rows' \in Seq(Rows), GoneIds(rows') \subseteq DOMAIN known,
           wire' \in [Ids -> {"here", "departed", "moved", "removed"}],
           OneRowPerGoneId', ConsumerAgrees'
    PROVE  IInv'
<1>1. TypeOK'
  BY DEF IInv, TypeOK, Ends
<1> QED
  BY <1>1 DEF IInv, SweepAgrees, NobodySlips, Ends

\* The terminals go out at a close that judges nobody.
LEMMA CloseDirtyKeeps == IInv /\ CloseDirty => IInv'
<1> SUFFICES ASSUME IInv, CloseDirty PROVE IInv'
  OBVIOUS
<1>1. TypeOK /\ OneRowPerGoneId /\ ConsumerAgrees /\ rows \in Seq(Rows)
  BY DEF IInv, TypeOK
<1>2. Ends /\ rows' = Removed(rows)
  BY DEF CloseDirty
<1>3. /\ rows' \in Seq(Rows) /\ Len(rows') = Len(rows)
      /\ \A k \in 1..Len(rows) : /\ rows'[k].gone = rows[k].gone
                                 /\ rows'[k].back = rows[k].back
                                 /\ rows'[k].removed = (rows[k].removed \/ RemovalDue(rows[k]))
  BY <1>1, <1>2, RemovedRows
<1>4. DOMAIN rows = 1..Len(rows) /\ DOMAIN rows' = 1..Len(rows) /\ \A k \in DOMAIN rows : rows[k] \in Rows
  BY <1>1, <1>3
<1>5. GoneIds(rows') = GoneIds(rows)
  BY <1>3, <1>4 DEF GoneIds
<1>6. OneRowPerGoneId'
  BY <1>1, <1>3, <1>4 DEF OneRowPerGoneId
<1>7. wire' = [i \in Ids |-> IF i \in Of(rows, RemovalDue) THEN "removed" ELSE wire[i]]
  BY DEF CloseDirty, Heard
<1>8. wire' \in [Ids -> {"here", "departed", "moved", "removed"}]
  BY <1>1, <1>7 DEF TypeOK
<1>9. ConsumerAgrees'
  <2>1. ASSUME NEW i \in Ids \ GoneIds(rows) PROVE wire'[i] = "here"
    <3>1. i \notin Of(rows, RemovalDue)
      BY DEF Of, GoneIds
    <3> QED
      BY <1>1, <1>7, <3>1 DEF ConsumerAgrees
  <2>2. ASSUME NEW k \in DOMAIN rows
        PROVE  \/ wire'[rows'[k].gone] = "removed" /\ rows'[k].removed
               \/ wire'[rows'[k].gone] = "moved" /\ rows'[k].back = "serial"
               \/ wire'[rows'[k].gone] = "departed" /\ rows'[k].back = "no" /\ ~rows'[k].removed
    <3>1. rows[k] \in Rows /\ rows[k].gone \in Ids
      BY <1>4 DEF Rows
    <3>2. CASE RemovalDue(rows[k])
      <4>1. rows[k].gone \in Of(rows, RemovalDue)
        BY <3>2 DEF Of
      <4> QED
        BY <1>3, <1>4, <1>7, <3>1, <3>2, <4>1
    <3>3. CASE ~RemovalDue(rows[k])
      <4>1. rows[k].gone \notin Of(rows, RemovalDue)
        BY <1>1, <3>3 DEF Of, OneRowPerGoneId
      <4>2. wire'[rows'[k].gone] = wire[rows[k].gone] /\ rows'[k].back = rows[k].back
        BY <1>3, <1>4, <1>7, <3>1, <4>1
      <4>3. rows'[k].removed = (rows[k].removed \/ FALSE)
        BY <1>3, <1>4, <3>3
      <4> QED
        BY <1>1, <4>2, <4>3 DEF ConsumerAgrees
    <3> QED
      BY <3>2, <3>3
  <2> QED
    BY <1>4, <1>5, <2>1, <2>2 DEF ConsumerAgrees
<1> QED
  BY <1>1, <1>2, <1>3, <1>5, <1>6, <1>8, <1>9, EndsKeeps DEF TypeOK

\* A census leaves gone whoever was gone and is not named, and whom it departs.
LEMMA ReconciledIds ==
    ASSUME IInv
    PROVE  /\ {Reconciled[k].gone : k \in 1..Len(Reconciled)} = (GoneIds(rows) \ Named) \cup Departed
           /\ GoneIds(rows) \cap Departed = {}
           /\ Named \cap Departed = {}
<1>1. TypeOK /\ rows \in Seq(Rows) /\ \A m \in DOMAIN rows : rows[m] \in Rows
  BY DEF IInv, TypeOK
<1>2. PICK R : R = Reconciled
  OBVIOUS
<1>3. /\ \A k \in 1..Len(R) :
             \/ \E m \in DOMAIN rows : ~BackById(rows[m]) /\ R[k] = Judged(rows[m])
             \/ \E i \in Departed : R[k] = NewRow(i)
      /\ \A m \in DOMAIN rows : ~BackById(rows[m]) => \E k \in 1..Len(R) : R[k] = Judged(rows[m])
      /\ \A i \in Departed : \E k \in 1..Len(R) : R[k] = NewRow(i)
  BY <1>2, ReconciledRows
<1>4. \A m \in DOMAIN rows : Judged(rows[m]).gone = rows[m].gone
  BY <1>1, JudgedRow
<1>5. \A i \in Departed : NewRow(i).gone = i
  BY DEF NewRow
<1>6. \A m \in DOMAIN rows : BackById(rows[m]) <=> rows[m].gone \in Named
  BY DEF BackById
<1> HIDE DEF Named
<1>7. \A k \in 1..Len(R) : R[k].gone \in (GoneIds(rows) \ Named) \cup Departed
  BY <1>3, <1>4, <1>5, <1>6 DEF GoneIds
<1>8. \A i \in (GoneIds(rows) \ Named) \cup Departed : \E k \in 1..Len(R) : R[k].gone = i
  BY <1>3, <1>4, <1>5, <1>6 DEF GoneIds
<1>9. GoneIds(rows) \cap Departed = {} /\ Named \cap Departed = {}
  BY DEF Departed, Population
<1> QED
  BY <1>2, <1>7, <1>8, <1>9

\* The rows and the consumer after a census that judged.
LEMMA CleanClose ==
    ASSUME IInv, CloseClean
    PROVE  /\ rows' \in Seq(Rows)
           /\ GoneIds(rows') = (GoneIds(rows) \ Named) \cup Departed
           /\ wire' \in [Ids -> {"here", "departed", "moved", "removed"}]
           /\ OneRowPerGoneId' /\ ConsumerAgrees'
<1>1. TypeOK /\ OneRowPerGoneId /\ ConsumerAgrees /\ rows \in Seq(Rows) /\ \A m \in DOMAIN rows : rows[m] \in Rows
  BY DEF IInv, TypeOK
<1> DEFINE here == Of(rows, BackById)
           moved == Of(rows, BackBySerial)
           departed == IF Refused THEN {} ELSE Of(Reconciled, NoticeDue)
           noticed == IF Refused THEN Reconciled ELSE Noticed(Reconciled)
           removed == Of(noticed, RemovalDue)
<1>2. /\ rows' = Removed(noticed)
      /\ wire' = [i \in Ids |-> IF i \in removed THEN "removed" ELSE IF i \in departed THEN "departed"
                                ELSE IF i \in moved THEN "moved" ELSE IF i \in here THEN "here" ELSE wire[i]]
  BY DEF CloseClean, Heard
<1>3. PICK R : R = Reconciled
  OBVIOUS
<1>4. /\ R \in Seq(Rows) /\ Len(R) \in Nat
      /\ \A k \in 1..Len(R) :
             \/ \E m \in DOMAIN rows : ~BackById(rows[m]) /\ R[k] = Judged(rows[m])
             \/ \E i \in Departed : R[k] = NewRow(i)
      /\ \A m \in DOMAIN rows : ~BackById(rows[m]) => \E k \in 1..Len(R) : R[k] = Judged(rows[m])
      /\ \A j, k \in 1..Len(R) : R[j].gone = R[k].gone => j = k
  BY <1>3, ReconciledRows
<1>5. /\ {R[k].gone : k \in 1..Len(R)} = (GoneIds(rows) \ Named) \cup Departed
      /\ GoneIds(rows) \cap Departed = {} /\ Named \cap Departed = {}
  BY <1>3, ReconciledIds
<1>6. \A m \in DOMAIN rows :
          /\ Judged(rows[m]).gone = rows[m].gone /\ Judged(rows[m]).removed = rows[m].removed
          /\ Judged(rows[m]).back = IF BackBySerial(rows[m]) THEN "serial" ELSE rows[m].back
  BY <1>1, JudgedRow
<1>7. PICK N : N = noticed
  OBVIOUS
<1>8. /\ N \in Seq(Rows) /\ Len(N) = Len(R)
      /\ \A k \in 1..Len(R) : N[k].gone = R[k].gone /\ N[k].back = R[k].back /\ N[k].removed = R[k].removed
  BY <1>3, <1>4, <1>7, NoticedRows
<1>9. /\ rows' \in Seq(Rows) /\ Len(rows') = Len(R)
      /\ \A k \in 1..Len(R) : /\ rows'[k].gone = R[k].gone /\ rows'[k].back = R[k].back
                              /\ rows'[k].removed = (R[k].removed \/ RemovalDue(N[k]))
  <2>1. rows' = Removed(N)
    BY <1>2, <1>7
  <2>2. /\ rows' \in Seq(Rows) /\ Len(rows') = Len(N)
        /\ \A k \in 1..Len(N) : /\ rows'[k].gone = N[k].gone
                                /\ rows'[k].back = N[k].back
                                /\ rows'[k].removed = (N[k].removed \/ RemovalDue(N[k]))
    BY <1>8, <2>1, RemovedRows
  <2> QED
    BY <1>8, <2>2
<1>10. DOMAIN rows' = 1..Len(R) /\ DOMAIN N = 1..Len(R) /\ DOMAIN R = 1..Len(R)
  BY <1>4, <1>8, <1>9
<1>11. GoneIds(rows') = (GoneIds(rows) \ Named) \cup Departed
  BY <1>5, <1>9, <1>10 DEF GoneIds
<1>12. OneRowPerGoneId'
  BY <1>4, <1>9, <1>10 DEF OneRowPerGoneId
<1>13. wire' \in [Ids -> {"here", "departed", "moved", "removed"}]
  BY <1>1, <1>2 DEF TypeOK
<1>14. /\ removed = {N[k].gone : k \in {j \in 1..Len(R) : RemovalDue(N[j])}}
       /\ ~Refused => departed = {R[k].gone : k \in {j \in 1..Len(R) : NoticeDue(R[j])}}
       /\ Refused => departed = {}
       /\ here = {rows[m].gone : m \in {j \in DOMAIN rows : BackById(rows[j])}}
       /\ moved = {rows[m].gone : m \in {j \in DOMAIN rows : BackBySerial(rows[j])}}
  BY <1>3, <1>7, <1>10 DEF Of
<1> HIDE DEF here, moved, departed, removed, noticed
<1>15. \A i \in Ids : wire'[i] = IF i \in removed THEN "removed" ELSE IF i \in departed THEN "departed"
                                 ELSE IF i \in moved THEN "moved" ELSE IF i \in here THEN "here" ELSE wire[i]
  BY <1>2
<1>16. \A m \in DOMAIN rows : (BackById(rows[m]) <=> rows[m].gone \in Named) /\ (BackBySerial(rows[m]) => ~BackById(rows[m]))
  BY DEF BackById, BackBySerial
<1>17. ASSUME NEW i \in Ids \ GoneIds(rows') PROVE wire'[i] = "here"
  <2>1. i \notin removed
    BY <1>8, <1>9, <1>10, <1>14, <1>17 DEF GoneIds
  <2>2. i \notin departed
    BY <1>9, <1>10, <1>14, <1>17 DEF GoneIds
  <2>3. i \notin moved
    BY <1>11, <1>14, <1>16, <1>17 DEF GoneIds
  <2>4. CASE i \in GoneIds(rows)
    <3>1. i \in here
      BY <1>11, <1>14, <1>16, <1>17, <2>4 DEF GoneIds
    <3> QED
      BY <1>15, <2>1, <2>2, <2>3, <3>1
  <2>5. CASE i \notin GoneIds(rows)
    <3>1. i \notin here /\ wire[i] = "here"
      BY <1>1, <1>14, <1>17, <2>5 DEF GoneIds, ConsumerAgrees
    <3> QED
      BY <1>15, <2>1, <2>2, <2>3, <3>1
  <2> QED
    BY <2>4, <2>5
<1>18. ASSUME NEW k \in 1..Len(R)
       PROVE  \/ wire'[rows'[k].gone] = "removed" /\ rows'[k].removed
              \/ wire'[rows'[k].gone] = "moved" /\ rows'[k].back = "serial"
              \/ wire'[rows'[k].gone] = "departed" /\ rows'[k].back = "no" /\ ~rows'[k].removed
  <2>1. PICK g \in Ids : g = rows'[k].gone /\ g = R[k].gone /\ g = N[k].gone
    <3>1. rows'[k] \in Rows
      BY <1>9
    <3> QED
      BY <1>8, <1>9, <3>1 DEF Rows
  <2>2. CASE RemovalDue(N[k])
    <3>1. g \in removed
      BY <1>14, <2>1, <2>2
    <3>2. rows'[k].removed = (R[k].removed \/ TRUE)
      BY <1>9, <2>2
    <3> QED
      BY <1>15, <2>1, <3>1, <3>2
  <2>3. CASE ~RemovalDue(N[k])
    <3>1. g \notin removed
      BY <1>4, <1>8, <1>14, <2>1, <2>3
    <3>2. rows'[k].removed = (R[k].removed \/ FALSE) /\ R[k] \in Rows /\ rows'[k].back = R[k].back
      BY <1>4, <1>9, <2>3
    <3>3. R[k].removed \in BOOLEAN /\ (rows'[k].removed <=> R[k].removed)
      BY <3>2 DEF Rows
    <3>4. CASE g \in departed
      <4>1. ~Refused /\ NoticeDue(R[k])
        BY <1>4, <1>14, <2>1, <3>4, ZenonT(30)
      <4>2. R[k].back = "no" /\ ~R[k].removed
        BY <4>1 DEF NoticeDue
      <4> QED
        BY <1>15, <2>1, <3>1, <3>2, <3>3, <3>4, <4>2
    <3>5. CASE g \notin departed /\ \E m \in DOMAIN rows : ~BackById(rows[m]) /\ R[k] = Judged(rows[m])
      <4>1. PICK m \in DOMAIN rows : ~BackById(rows[m]) /\ R[k] = Judged(rows[m])
        BY <3>5
      <4>2. g = rows[m].gone /\ R[k].removed = rows[m].removed
        BY <1>6, <2>1, <4>1
      <4>3. CASE BackBySerial(rows[m])
        <5>1. g \in moved /\ R[k].back = "serial"
          BY <1>6, <1>14, <4>1, <4>2, <4>3
        <5> QED
          BY <1>15, <2>1, <3>1, <3>2, <3>5, <5>1
      <4>4. CASE ~BackBySerial(rows[m])
        <5>1. g \notin moved
          BY <1>1, <1>14, <4>2, <4>4 DEF OneRowPerGoneId
        <5>2. g \notin here
          BY <1>14, <1>16, <4>1, <4>2
        <5>3. wire'[g] = wire[rows[m].gone] /\ rows'[k].back = rows[m].back
          BY <1>6, <1>15, <3>1, <3>2, <3>5, <4>1, <4>2, <4>4, <5>1, <5>2
        <5> QED
          BY <1>1, <2>1, <3>3, <4>2, <5>3 DEF ConsumerAgrees
      <4> QED
        BY <4>3, <4>4
    <3>6. CASE g \notin departed /\ \E i \in Departed : R[k] = NewRow(i)
      <4>1. NoticeDue(R[k])
        BY <1>1, <3>6, NewRowIsDue
      <4>2. ~Refused
        BY <3>6 DEF Departed
      <4> QED
        BY <1>14, <2>1, <3>6, <4>1, <4>2
    <3> QED
      BY <1>4, <3>4, <3>5, <3>6
  <2> QED
    BY <2>2, <2>3
<1>19. ConsumerAgrees'
  BY <1>10, <1>17, <1>18 DEF ConsumerAgrees
<1> QED
  BY <1>9, <1>11, <1>12, <1>13, <1>19

LEMMA CloseCleanKeeps == IInv /\ CloseClean => IInv'
<1> SUFFICES ASSUME IInv, CloseClean PROVE IInv'
  OBVIOUS
<1>1. Ends
  BY DEF CloseClean
<1>2. GoneIds(rows') \subseteq DOMAIN known
  BY CleanClose, DepartedAreKnown DEF IInv, TypeOK
<1> QED
  BY <1>1, <1>2, CleanClose, EndsKeeps

-----------------------------------------------------------------------------
(* The theorems.                                                            *)

LEMMA StepOK == IInv /\ [Next]_vars => IInv'
<1> SUFFICES ASSUME IInv, [Next]_vars PROVE IInv'
  OBVIOUS
<1>1. CASE Tick
  BY <1>1, TickKeeps
<1>2. ASSUME NEW m \in Macs, Enrol(m) PROVE IInv'
  BY <1>2, EnrolKeeps
<1>3. ASSUME NEW i \in Ids, Delete(i) PROVE IInv'
  BY <1>3, DeleteKeeps
<1>4. ASSUME NEW i \in Ids, HandBack(i) PROVE IInv'
  BY <1>4, HandBackKeeps
<1>5. ASSUME NEW i \in Ids, Webhook(i) PROVE IInv'
  BY <1>5, WebhookKeeps
<1>6. CASE BeginScoped
  <2>1. PICK S \in SUBSET Macs : Begin(TRUE, S, FALSE)
    BY <1>6 DEF BeginScoped
  <2> QED
    BY <2>1, BeginKeeps
<1>7. CASE BeginCensus
  <2>1. PICK lineage \in BOOLEAN : Begin(FALSE, Macs, lineage)
    BY <1>7 DEF BeginCensus
  <2>2. Macs \in SUBSET Macs
    OBVIOUS
  <2> QED
    BY <2>1, <2>2, BeginKeeps
<1>8. ASSUME NEW p, FetchPage(p) PROVE IInv'
  BY <1>8, FetchPageKeeps
<1>9. ASSUME NEW p, DevicesFail(p) PROVE IInv'
  BY <1>9, DevicesFailKeeps
<1>10. ASSUME NEW p, FetchShort(p) PROVE IInv'
  BY <1>10, FetchShortKeeps
<1>11. CASE Abandon
  BY <1>11, AbandonKeeps
<1>12. CASE CloseClean
  BY <1>12, CloseCleanKeeps
<1>13. CASE CloseDirty
  BY <1>13, CloseDirtyKeeps
<1>14. CASE UNCHANGED vars
  <2>1. TypeOK' /\ OneRowPerGoneId' /\ ConsumerAgrees'
    BY <1>14, RowsRest DEF IInv, TypeOK, vars
  <2>2. SweepAgrees' /\ NobodySlips'
    BY <1>14 DEF IInv, SweepAgrees, NobodySlips, Stood, OnPage, Rank, vars
  <2> QED
    BY <2>1, <2>2 DEF IInv
<1> QED
  BY <1>1, <1>2, <1>3, <1>4, <1>5, <1>6, <1>7, <1>8, <1>9, <1>10, <1>11, <1>12, <1>13, <1>14
     DEF Next, World, Sweep

\* The invariant the others follow from.
THEOREM Inductive == Spec => []IInv
BY InitOK, StepOK, PTL DEF Spec

\* One row per retired id and a consumer that agrees with the rows, for any fleet, any
\* page size and any edits of Jamf.
THEOREM DeparturesAreSound == Spec => []DeparturesSound
<1>1. IInv => DeparturesSound
  BY DEF IInv, DeparturesSound
<1> QED
  BY <1>1, Inductive, PTL

\* Only a clean close changes who is gone.
LEMMA OnlyCensusesDepart ==
    ASSUME IInv, [Next]_vars
    PROVE  CloseClean \/ GoneIds(rows') = GoneIds(rows)
<1>1. TypeOK /\ rows \in Seq(Rows)
  BY DEF IInv, TypeOK
<1>2. CASE Tick
  <2>1. DOMAIN rows' = DOMAIN rows /\ \A k \in DOMAIN rows : rows'[k].gone = rows[k].gone
    BY <1>1, <1>2, AgedRow DEF Tick
  <2> QED
    BY <2>1 DEF GoneIds
<1>3. CASE CloseDirty
  <2>1. rows' = Removed(rows)
    BY <1>3 DEF CloseDirty
  <2>2. /\ rows' \in Seq(Rows) /\ Len(rows') = Len(rows)
        /\ \A k \in 1..Len(rows) : rows'[k].gone = rows[k].gone
    BY <1>1, <2>1, RemovedRows
  <2>3. DOMAIN rows' = DOMAIN rows /\ DOMAIN rows = 1..Len(rows)
    BY <1>1, <2>2
  <2> QED
    BY <2>2, <2>3 DEF GoneIds
<1>4. CASE rows' = rows
  BY <1>4
<1> QED
  BY <1>2, <1>3, <1>4
     DEF Next, World, Sweep, Enrol, Edit, Delete, HandBack, Webhook, BeginScoped, BeginCensus, Begin,
         FetchPage, DevicesFail, FetchShort, Receive, Abandon, vars

\* Only the closes end a sweep that has read its pages, save giving it up.
LEMMA OnlyClosesClose ==
    ASSUME IInv, [Next]_vars, Closes, Clean
    PROVE  CloseClean
<1>1. sweep.at = "closing" /\ sweep' = Idle /\ mishaps' = mishaps /\ sweep # sweep' /\ sweep # Idle
  BY DEF Closes, Idle
<1>2. sweep \in Sweeps
  BY <1>1, SweepRuns DEF IInv
<1>3. sweep'.at = "idle"
  BY <1>1 DEF Idle
<1>4. CASE Tick
  BY <1>1, <1>4 DEF Tick
<1>5. ASSUME NEW m, Enrol(m) PROVE FALSE
  BY <1>1, <1>5 DEF Enrol
<1>6. ASSUME NEW i, Delete(i) PROVE FALSE
  <2>1. sweep' = [sweep EXCEPT !.shrunk = TRUE]
    BY <1>1, <1>6 DEF Delete
  <2>2. sweep'.at = sweep.at
    BY <1>2, <2>1 DEF Sweeps
  <2> QED
    BY <1>1, <1>3, <2>2
<1>7. ASSUME NEW i, HandBack(i) PROVE FALSE
  <2>1. sweep' = [sweep EXCEPT !.fresh = @ \cup {i}]
    BY <1>1, <1>7 DEF HandBack
  <2>2. sweep'.at = sweep.at
    BY <1>2, <2>1 DEF Sweeps
  <2> QED
    BY <1>1, <1>3, <2>2
<1>8. ASSUME NEW i, Webhook(i) PROVE FALSE
  BY <1>1, <1>8 DEF Webhook
<1>9. CASE BeginScoped \/ BeginCensus
  BY <1>1, <1>9 DEF BeginScoped, BeginCensus, Begin
<1>10. ASSUME NEW p, FetchPage(p) \/ DevicesFail(p) \/ FetchShort(p) PROVE FALSE
  BY <1>1, <1>10 DEF FetchPage, DevicesFail, FetchShort, Asked
<1>11. CASE Abandon
  <2>1. mishaps \in Nat /\ mishaps' = mishaps + 1
    BY <1>11, BoundsAssumption DEF Abandon, Mishap, IInv, TypeOK
  <2> QED
    BY <1>1, <2>1
<1>12. CASE CloseDirty
  BY <1>12 DEF CloseDirty
<1>13. CASE UNCHANGED vars
  BY <1>1, <1>13 DEF vars
<1> QED
  BY <1>4, <1>5, <1>6, <1>7, <1>8, <1>9, <1>10, <1>11, <1>12, <1>13 DEF Next, World, Sweep

\* What a census closes with: its records are all in, and all of them have spans.
LEMMA ClosingSweep ==
    ASSUME IInv, CloseClean
    PROVE  /\ sweep \in Sweeps /\ sweep # Idle /\ sweep.at = "closing" /\ ~sweep.scoped /\ ~sweep.failed
           /\ sweep.pages = {} /\ DOMAIN sweep.batch = {}
           /\ Named \subseteq DOMAIN known /\ Named \subseteq Ids
<1>1. sweep.at = "closing" /\ ~sweep.scoped /\ ~sweep.failed
  BY DEF CloseClean, Clean
<1>2. sweep # Idle
  BY <1>1 DEF Idle
<1>3. sweep \in Sweeps
  BY <1>2, SweepRuns DEF IInv
<1>4. sweep.named \in Records
  BY <1>3, SweepFields
<1>5. Named \subseteq Ids
  BY <1>4, RecordsAre DEF Named
<1> QED
  BY <1>1, <1>2, <1>3, <1>5 DEF IInv, SweepAgrees, Named

\* A census never leaves a Mac it named absent or removed, to the tables or to a consumer.
THEOREM NamedStay == Spec => NamedNotRemoved
<1>1. IInv /\ [Next]_vars =>
          (Closes /\ Clean => \A i \in Named : wire'[i] = "here" /\ i \notin GoneIds(rows'))
  <2> SUFFICES ASSUME IInv, [Next]_vars, Closes, Clean, NEW i \in Named
               PROVE  wire'[i] = "here" /\ i \notin GoneIds(rows')
    OBVIOUS
  <2>1. CloseClean
    BY OnlyClosesClose
  <2>2. GoneIds(rows') = (GoneIds(rows) \ Named) \cup Departed /\ ConsumerAgrees'
    BY <2>1, CleanClose
  <2>3. i \notin GoneIds(rows') /\ i \in Ids
    BY <2>1, <2>2, ClosingSweep, ReconciledIds
  <2> QED
    BY <2>2, <2>3 DEF ConsumerAgrees
<1> QED
  BY <1>1, Inductive, PTL DEF Spec, NamedNotRemoved

\* A census that returns nobody departs at most half of a population that is large enough.
THEOREM BreakerIsSound == Spec => BreakerHolds
<1>1. IInv /\ [Next]_vars =>
          (GoneIds(rows) \subseteq GoneIds(rows') /\ Cardinality(Population) >= MinPopulation =>
               2 * Cardinality(NewlyGone) <= Cardinality(Population))
  <2> SUFFICES ASSUME IInv, [Next]_vars, GoneIds(rows) \subseteq GoneIds(rows'),
                      Cardinality(Population) >= MinPopulation
               PROVE  2 * Cardinality(NewlyGone) <= Cardinality(Population)
    OBVIOUS
  <2>1. TypeOK
    BY DEF IInv
  <2>2. IsFiniteSet(Population) /\ Cardinality(Population) \in Nat
    BY <2>1, DepartedAreKnown, FS_CardinalityType
  <2>3. CASE NewlyGone = {}
    BY <2>2, <2>3, FS_EmptySet
  <2>4. CASE NewlyGone # {}
    <3>1. CloseClean
      BY <2>4, OnlyCensusesDepart DEF NewlyGone
    <3>2. /\ GoneIds(rows') = (GoneIds(rows) \ Named) \cup Departed
          /\ GoneIds(rows) \cap Departed = {}
      BY <3>1, CleanClose, ReconciledIds
    <3>3. NewlyGone = Departed /\ Departed # {}
      BY <2>4, <3>2 DEF NewlyGone
    <3>4. ~Refused /\ Departed = Population \ Named
      BY <3>3 DEF Departed
    <3>5. Named \subseteq Population
      <4>1. Named \subseteq DOMAIN known
        BY <3>1, ClosingSweep
      <4>2. Named \cap GoneIds(rows) = {}
        BY <3>2, ReconciledIds
      <4> QED
        BY <4>1, <4>2 DEF Population
    <3> HIDE DEF Named
    <3>6. /\ IsFiniteSet(Named) /\ Cardinality(Named) \in Nat
          /\ Cardinality(Population \ Named) = Cardinality(Population) - Cardinality(Named)
      <4>1. IsFiniteSet(Named) /\ Population \cap Named = Named
        BY <2>2, <3>5, FS_Subset
      <4> QED
        BY <2>2, <4>1, FS_Difference, FS_CardinalityType
    <3>7. ~(2 * Cardinality(Named) < Cardinality(Population))
      BY <3>4 DEF Refused
    <3> QED
      BY <2>2, <3>3, <3>4, <3>6, <3>7
  <2> QED
    BY <2>3, <2>4
<1> QED
  BY <1>1, Inductive, PTL DEF Spec, BreakerHolds

\* Whatever the page size and the order the pages come in, a Mac that Jamf still holds
\* departs only if records were deleted, left out, or put before it while the sweep ran.
THEOREM NobodyDepartsUncaused == Spec => FalseDepartureNeedsCause
<1>1. IInv /\ [Next]_vars =>
          \A i \in NewlyGone \cap DOMAIN jamf :
              sweep.shrunk \/ sweep.lossy \/ i >= sweep.from \/ \E j \in sweep.fresh : j <= i
  <2> SUFFICES ASSUME IInv, [Next]_vars, NEW i \in NewlyGone \cap DOMAIN jamf,
                      ~sweep.shrunk, ~sweep.lossy, ~(i >= sweep.from), ~\E j \in sweep.fresh : j <= i
               PROVE  FALSE
    OBVIOUS
  <2>1. CloseClean
    BY OnlyCensusesDepart DEF NewlyGone
  <2>2. i \in Departed
    BY <2>1, CleanClose DEF NewlyGone
  <2>3. i \notin Named
    BY <2>2 DEF Departed
  <2>4. sweep \in Sweeps /\ i \in Nat /\ sweep.from \in Nat /\ sweep.fresh \subseteq Nat
    <3>1. DOMAIN jamf \subseteq Ids
      BY PageIsOfJamf DEF IInv
    <3>2. sweep \in Sweeps /\ sweep.from \in 1..(MaxId + 1) /\ sweep.fresh \subseteq Ids
      BY <2>1, ClosingSweep, SweepFields
    <3> QED
      BY <3>1, <3>2, BoundsAssumption DEF Ids
  <2>5. Stood(i)
    BY <2>4 DEF Stood
  <2>6. i \in DOMAIN sweep.named
    <3>1. /\ sweep # Idle /\ ~sweep.scoped /\ sweep.pages = {} /\ DOMAIN sweep.batch = {}
          /\ sweep.at = "closing"
      BY <2>1, ClosingSweep
    <3>2. \/ i \in DOMAIN sweep.named \cup DOMAIN sweep.batch
          \/ \E p \in sweep.pages : OnPage(p, Rank(i))
          \/ sweep.at = "paging" /\ ~sweep.short /\ sweep.next * PageSize <= Rank(i)
      BY <2>5, <3>1 DEF IInv, NobodySlips
    <3> QED
      BY <3>1, <3>2
  <2> QED
    BY <2>3, <2>6 DEF Named
<1> QED
  BY <1>1, Inductive, PTL DEF Spec, FalseDepartureNeedsCause

\* The three together, as the run checks them.
THEOREM DeparturesAreEarned == Spec => DeparturesEarned
BY NamedStay, BreakerIsSound, NobodyDepartsUncaused DEF DeparturesEarned

=============================================================================
