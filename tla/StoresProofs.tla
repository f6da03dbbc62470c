---------------------------- MODULE StoresProofs ----------------------------
(***************************************************************************)
(* Theorems about what is kept of a device and answered about it: Ledger,   *)
(* for any devices, any frames with any apertures, any names and builds,    *)
(* and then the three systems of Stores, for all the values of their        *)
(* parameters.  A step of Stores is a step of one of them or leaves it      *)
(* alone, so what a system's own steps keep is kept.  Last come the pure    *)
(* answers: the policy, the tape, the stored answers, title matching, the   *)
(* evidence and the change log.                                             *)
(***************************************************************************)
EXTENDS Ledger, Stores, Queues, SequenceTheorems, TLAPS

Span == [sections: Views, first: 1..MaxClock, last: 1..MaxClock, count: Nat,
         dated: BOOLEAN, ver: 1..MaxVer, current: BOOLEAN]
Pages == UNION {[D -> Records] : D \in SUBSET Devices}

\* The sets TypeOK does not name.
Shapes ==
    /\ spans \in [Devices -> Seq(Span)]
    /\ page \in [Frames -> Pages]
    /\ dev \in [Frames -> Devices \cup {Nobody}]
    /\ seen \in [Frames -> {NoSpan} \cup [index: Nat \ {0}, span: Span]]
    /\ held \in [Frames -> Rows \cup Views]

\* A frame is where its kind may be, and while it writes, the span it read under the
\* device's lock is still the current one.
Placed ==
    \A f \in Frames :
        /\ at[f] = "composing" => f \in ReEmits /\ dev[f] \in Devices /\ held[f] \in Views
        /\ at[f] \in {"opened", "fetched", "writing"} => f \in Readers
        /\ f \in ReEmits => DOMAIN page[f] = {}
        /\ at[f] = "writing" => dev[f] \in DOMAIN page[f] /\ seen[f] = CurrentSpan(dev[f])

IInv == TypeOK /\ Shapes /\ Placed /\ SpansAreAChain /\ DeltasReplay /\ SnapshotIsASpan

-----------------------------------------------------------------------------
(* What is read.                                                            *)

\* A read covers the sections of its aperture.
LEMMA ReadIsView ==
    ASSUME NEW c \in Contents, NEW A \in (SUBSET Sections) \ {{}}
    PROVE  [s \in A |-> c[s]] \in Views
<1> DEFINE o == [s \in A |-> c[s]]
<1>0. c.general \in Names /\ c.applications \in SUBSET Apps
  BY DEF Contents
<1>1. CASE A = {"general"}
  <2>1. o = [general |-> c.general]
    BY <1>1
  <2> QED
    BY <1>0, <2>1 DEF Views
<1>2. CASE A = {"applications"}
  <2>1. o = [applications |-> c.applications]
    BY <1>2
  <2> QED
    BY <1>0, <2>1 DEF Views
<1>3. CASE A = Sections
  <2>1. o = [general |-> c.general, applications |-> c.applications]
    BY <1>3 DEF Sections
  <2> QED
    BY <1>0, <2>1 DEF Views, Contents
<1>4. A = {"general"} \/ A = {"applications"} \/ A = Sections
  BY DEF Sections
<1> QED
  BY <1>1, <1>2, <1>3, <1>4

\* A view stays one when other apps are put in it.
LEMMA ReAppedIsView ==
    ASSUME NEW v \in Views, NEW X \in SUBSET Apps
    PROVE  [s \in DOMAIN v |-> IF s = "applications" THEN X ELSE v[s]] \in Views
<1> DEFINE o == [s \in DOMAIN v |-> IF s = "applications" THEN X ELSE v[s]]
<1>1. CASE v \in Contents
  <2>1. o = [general |-> v.general, applications |-> X] /\ v.general \in Names
    BY <1>1 DEF Contents
  <2> QED
    BY <2>1 DEF Views, Contents
<1>2. CASE v \in [general: Names]
  <2>1. o = [general |-> v.general] /\ v.general \in Names
    BY <1>2
  <2> QED
    BY <2>1 DEF Views
<1>3. CASE v \in [applications: SUBSET Apps]
  <2>1. o = [applications |-> X]
    BY <1>3
  <2> QED
    BY <2>1 DEF Views
<1> QED
  BY <1>1, <1>2, <1>3 DEF Views

-----------------------------------------------------------------------------
(* One device's transaction.                                                *)

\* The current span is the last.
LEMMA CurrentIsLast ==
    ASSUME Shapes, SpansAreAChain, NEW d \in Devices
    PROVE  /\ spans[d] \in Seq(Span) /\ Len(spans[d]) \in Nat /\ DOMAIN spans[d] = 1..Len(spans[d])
           /\ spans[d] = <<>> => CurrentSpan(d) = NoSpan
           /\ spans[d] # <<>> =>
                 /\ Len(spans[d]) \in Nat \ {0} /\ spans[d][Len(spans[d])] \in Span
                 /\ CurrentSpan(d) = [index |-> Len(spans[d]), span |-> spans[d][Len(spans[d])]]
                 /\ CurrentSpan(d) # NoSpan
<1> DEFINE open == {i \in DOMAIN spans[d] : spans[d][i].current}
           n == Len(spans[d])
<1>1. spans[d] \in Seq(Span) /\ n \in Nat /\ DOMAIN spans[d] = 1..n /\ (spans[d] # <<>> => n \in Nat \ {0})
  BY EmptySeq, LenProperties DEF Shapes
<1>2. \A i \in DOMAIN spans[d] : spans[d][i].current <=> i = n
  BY DEF SpansAreAChain
<1>3. CASE spans[d] = <<>>
  <2>1. open = {}
    BY <1>3
  <2> QED
    BY <1>1, <1>3, <2>1 DEF CurrentSpan
<1>4. CASE spans[d] # <<>>
  <2>1. open = {n}
    BY <1>1, <1>2, <1>4
  <2>2. (CHOOSE i \in open : TRUE) = n /\ open # {}
    BY <2>1
  <2>3. CurrentSpan(d) = [index |-> n, span |-> spans[d][n]]
    BY <2>2 DEF CurrentSpan
  <2>4. n # 0
    BY <1>1, <1>4
  <2>5. CurrentSpan(d) # NoSpan
    BY <2>3, <2>4 DEF NoSpan
  <2> QED
    BY <1>1, <1>4, <2>3, <2>5
<1> QED
  BY <1>3, <1>4

\* What a frame that writes knows.
LEMMA WriterFacts ==
    ASSUME IInv, NEW f \in Frames, at[f] = "writing"
    PROVE  /\ f \in Readers /\ dev[f] \in Devices /\ lock[dev[f]] = f
           /\ seen[f] = CurrentSpan(dev[f])
           /\ page[f][dev[f]] \in Records /\ ObservedAt(f, dev[f]) \in 1..MaxClock
           /\ Observation(f, dev[f]) \in Views /\ DOMAIN Observation(f, dev[f]) = Aperture[f]
           /\ \A s \in Aperture[f] : Observation(f, dev[f])[s] = page[f][dev[f]].content[s]
           /\ \A g \in Frames \ {f} : at[g] = "writing" => dev[g] # dev[f]
<1>1. f \in Readers /\ dev[f] \in DOMAIN page[f] /\ seen[f] = CurrentSpan(dev[f])
  BY DEF IInv, Placed
<1>2. page[f] \in Pages
  BY DEF IInv, Shapes
<1>3. dev[f] \in Devices /\ page[f][dev[f]] \in Records
  BY <1>1, <1>2 DEF Pages
<1>4. lock[dev[f]] = f /\ \A g \in Readers \ {f} : at[g] = "writing" => dev[g] # dev[f]
  BY <1>1, <1>3 DEF IInv, TypeOK
<1>5. \A g \in Frames : at[g] = "writing" => g \in Readers
  BY DEF IInv, Placed
<1>6. ObservedAt(f, dev[f]) \in 1..MaxClock
  BY <1>3 DEF ObservedAt, Records, IInv, TypeOK
<1>7. page[f][dev[f]].content \in Contents /\ Aperture[f] \in (SUBSET Sections) \ {{}}
  BY <1>1, <1>3, ApertureAssumption DEF Records
<1>8. Observation(f, dev[f]) \in Views
  BY <1>7, ReadIsView DEF Observation
<1> QED
  BY <1>1, <1>3, <1>4, <1>5, <1>6, <1>8 DEF Observation

\* The spans of the device a frame writes, before its commit and after it.
Before(f) == spans[dev[f]]
After(f) == SpansAfter(f, dev[f])

\* A record that repeats the current span prolongs it and leaves the others alone.
LEMMA Prolonged ==
    ASSUME IInv, NEW f \in Frames, at[f] = "writing", ~IsStale(seen[f], ObservedAt(f, dev[f])), SameHead(f, dev[f])
    PROVE  LET ss == Before(f)
               tt == After(f)
               n == Len(ss)
           IN
           /\ n \in Nat \ {0} /\ Len(tt) = n /\ tt \in Seq(Span) /\ DOMAIN tt = DOMAIN ss
           /\ \A i \in 1..n : i # n => tt[i] = ss[i]
           /\ tt[n].sections = Observation(f, dev[f]) /\ ss[n].sections = Observation(f, dev[f])
           /\ tt[n].current = ss[n].current /\ tt[n].first = ss[n].first
           /\ tt[n].last = ObservedAt(f, dev[f]) /\ ss[n].last <= tt[n].last
           /\ tt[n].count \in Nat /\ tt[n].count <= IF tt[n].last = ss[n].last THEN ss[n].count ELSE ss[n].count + 1
<1>0. PICK ss, tt, n : ss = spans[dev[f]] /\ tt = SpansAfter(f, dev[f]) /\ n = Len(ss)
  OBVIOUS
<1> USE <1>0
<1> DEFINE d == dev[f]
           t == ObservedAt(f, d)
<1>1. d \in Devices /\ seen[f] = CurrentSpan(d) /\ seen[f] # NoSpan /\ seen[f].span.sections = Observation(f, d)
  BY WriterFacts DEF SameHead
<1>2. /\ ss \in Seq(Span) /\ n \in Nat \ {0} /\ ss[n] \in Span /\ seen[f] = [index |-> n, span |-> ss[n]]
      /\ DOMAIN ss = 1..n
  BY <1>1, CurrentIsLast DEF IInv
<1>3. seen[f].index = n /\ seen[f].span = ss[n] /\ ss[n].last <= t
  <2>1. seen[f].index = n /\ seen[f].span = ss[n]
    BY <1>2
  <2>2. t \in 1..MaxClock /\ ss[n].last \in 1..MaxClock
    BY <1>2, WriterFacts DEF Span
  <2> QED
    BY <1>1, <2>1, <2>2, BoundsAssumption DEF IsStale
<1>4. tt = [ss EXCEPT ![n] = Extended(f, d)]
  BY <1>3 DEF SpansAfter
<1>5. PICK c, e, v : Extended(f, d) = [ss[n] EXCEPT !.last = t, !.count = c, !.dated = e, !.ver = v]
                     /\ c = Counted(ss[n], t) /\ e \in BOOLEAN /\ v \in 1..MaxVer
  <2>1. page[f][d] \in Records /\ ss[n].dated \in BOOLEAN /\ ss[n].ver \in 1..MaxVer
    BY <1>2, WriterFacts DEF Span
  <2> DEFINE e == IF t = ss[n].last THEN ss[n].dated ELSE page[f][d].date # Undated
             v == IF t = ss[n].last THEN ss[n].ver ELSE page[f][d].ver
  <2>2. e \in BOOLEAN /\ v \in 1..MaxVer
    BY <2>1 DEF Records
  <2>3. Extended(f, d) = [ss[n] EXCEPT !.last = t, !.count = Counted(ss[n], t), !.dated = e, !.ver = v]
    BY <1>2, <1>3 DEF Extended, Span
  <2> HIDE DEF e, v
  <2> QED
    BY <2>2, <2>3
<1>6. t \in 1..MaxClock /\ c \in Nat /\ c <= IF t = ss[n].last THEN ss[n].count ELSE ss[n].count + 1
  BY <1>2, <1>5, WriterFacts, SMTT(30) DEF Counted, Span
<1> HIDE DEF d, t
<1>7. Extended(f, d) \in Span /\ Extended(f, d).last = t /\ Extended(f, d).count = c /\ Extended(f, d).sections = ss[n].sections
      /\ Extended(f, d).first = ss[n].first /\ Extended(f, d).current = ss[n].current
  BY <1>2, <1>5, <1>6, ZenonT(30) DEF Span
<1>8. tt \in Seq(Span) /\ Len(tt) = n /\ tt[n] = Extended(f, d) /\ \A i \in 1..n : i # n => tt[i] = ss[i]
  BY <1>2, <1>4, <1>7
<1> QED
  BY <1>1, <1>2, <1>3, <1>6, <1>7, <1>8 DEF d, t, Before, After

\* A record that differs from the current span closes it and opens another.
LEMMA Opened ==
    ASSUME IInv, NEW f \in Frames, at[f] = "writing", ~IsStale(seen[f], ObservedAt(f, dev[f])), ~SameHead(f, dev[f])
    PROVE  LET ss == Before(f)
               tt == After(f)
               n == Len(ss)
           IN
           /\ n \in Nat /\ Len(tt) = n + 1 /\ tt \in Seq(Span) /\ DOMAIN ss = 1..n /\ DOMAIN tt = 1..(n + 1)
           /\ \A i \in 1..n :
                 /\ i # n => tt[i] = ss[i]
                 /\ tt[i].sections = ss[i].sections /\ tt[i].first = ss[i].first /\ tt[i].last = ss[i].last
                 /\ tt[i].count = ss[i].count /\ tt[i].current = FALSE
           /\ tt[n + 1] = NewSpan(f, dev[f])
           /\ n # 0 => /\ ss[n].sections # Observation(f, dev[f])
                       /\ ss[n].last <= ObservedAt(f, dev[f])
<1>0. PICK ss, tt, n : ss = spans[dev[f]] /\ tt = SpansAfter(f, dev[f]) /\ n = Len(ss)
  OBVIOUS
<1> USE <1>0
<1> DEFINE d == dev[f]
           t == ObservedAt(f, d)
<1>1. d \in Devices /\ seen[f] = CurrentSpan(d) /\ t \in 1..MaxClock
  BY WriterFacts
<1>2. /\ ss \in Seq(Span) /\ n \in Nat /\ DOMAIN ss = 1..n /\ (ss = <<>> <=> n = 0)
      /\ (n = 0 => seen[f] = NoSpan)
      /\ (n # 0 => ss[n] \in Span /\ seen[f] = [index |-> n, span |-> ss[n]] /\ seen[f] # NoSpan)
  BY <1>1, CurrentIsLast, EmptySeq DEF IInv
<1>3. seen[f].index = n /\ (n # 0 => seen[f].span = ss[n])
  BY <1>2 DEF NoSpan
<1>4. n # 0 => ss[n].sections # Observation(f, d) /\ ss[n].last <= t
  <2> SUFFICES ASSUME n # 0 PROVE ss[n].sections # Observation(f, d) /\ ss[n].last <= t
    OBVIOUS
  <2>1. ss[n].last \in 1..MaxClock
    BY <1>2, SMTT(30) DEF Span
  <2> QED
    BY <1>1, <1>2, <1>3, <2>1, BoundsAssumption DEF IsStale, SameHead
<1> DEFINE closed == [i \in 1..n |-> IF i = n THEN [ss[i] EXCEPT !.current = FALSE] ELSE ss[i]]
<1>5. tt = Append(closed, NewSpan(f, d))
  BY <1>2, <1>3 DEF SpansAfter
<1>6. \A i \in 1..n : ss[i] \in Span
  BY <1>2
<1>7. ASSUME NEW i \in 1..n
      PROVE  /\ closed[i] \in Span /\ (i # n => closed[i] = ss[i])
             /\ closed[i].sections = ss[i].sections /\ closed[i].first = ss[i].first /\ closed[i].last = ss[i].last
             /\ closed[i].count = ss[i].count /\ closed[i].current = FALSE
  <2>1. ss[i] \in Span /\ (i # n => ss[i].current = FALSE)
    BY <1>1, <1>2, <1>6 DEF IInv, SpansAreAChain, Span
  <2> QED
    BY <2>1, ZenonT(30) DEF Span
<1>8. NewSpan(f, d) \in Span
  BY WriterFacts DEF NewSpan, Span, Records
<1>9. closed \in Seq(Span) /\ Len(closed) = n
  <2>1. closed \in [1..n -> Span]
    <3>1. \A i \in 1..n : closed[i] \in Span
      BY <1>7
    <3>2. closed = [i \in 1..n |-> closed[i]]
      OBVIOUS
    <3> HIDE DEF closed
    <3> QED
      BY <3>1, <3>2
  <2> HIDE DEF closed
  <2> QED
    BY <1>2, <2>1
<1> HIDE DEF closed, d, t
<1>10. /\ tt \in Seq(Span) /\ Len(tt) = n + 1 /\ tt[n + 1] = NewSpan(f, d)
       /\ \A i \in 1..n : tt[i] = closed[i]
  BY <1>2, <1>5, <1>8, <1>9
<1>11. DOMAIN tt = 1..(n + 1)
  BY <1>10
<1>12. \A i \in 1..n :
          /\ i # n => tt[i] = ss[i]
          /\ tt[i].sections = ss[i].sections /\ tt[i].first = ss[i].first /\ tt[i].last = ss[i].last
          /\ tt[i].count = ss[i].count /\ tt[i].current = FALSE
  <2> SUFFICES ASSUME NEW i \in 1..n
               PROVE  /\ i # n => tt[i] = ss[i]
                      /\ tt[i].sections = ss[i].sections /\ tt[i].first = ss[i].first /\ tt[i].last = ss[i].last
                      /\ tt[i].count = ss[i].count /\ tt[i].current = FALSE
    OBVIOUS
  <2>1. tt[i] = closed[i]
    BY <1>10
  <2> QED
    BY <1>7, <2>1, ZenonT(30)
<1>13. tt[n + 1] = NewSpan(f, dev[f]) /\ (n # 0 => ss[n].sections # Observation(f, dev[f]) /\ ss[n].last <= ObservedAt(f, dev[f]))
  BY <1>4, <1>10 DEF d, t
<1> QED
  BY <1>2, <1>10, <1>11, <1>12, <1>13, SMTT(30) DEF Before, After

-----------------------------------------------------------------------------
(* The frames.                                                              *)

\* The empty sequence is the function of nothing.
LEMMA EmptyFunction == ASSUME NEW g, DOMAIN g = {}, g = [e \in DOMAIN g |-> g[e]] PROVE g = <<>>
<1>1. <<>> = [e \in {} |-> <<>>[e]]
  <2>1. <<>> \in [1..0 -> {}] /\ 1..0 = {}
    BY EmptySeq
  <2> QED
    BY <2>1
<1> QED
  BY <1>1

\* A frame that leaves a device goes on with its page or is done.
LEMMA LeaveFacts ==
    ASSUME TypeOK, Shapes, Placed, NEW f \in Frames, NEW d, Leave(f, d)
    PROVE  /\ page' \in [Frames -> Pages] /\ DOMAIN page'[f] \subseteq DOMAIN page[f]
           /\ dev' \in [Frames -> Devices \cup {Nobody}]
           /\ seen' \in [Frames -> {NoSpan} \cup [index: Nat \ {0}, span: Span]]
           /\ held' \in [Frames -> Rows \cup Views]
           /\ at' \in [Frames -> {"idle", "opened", "fetched", "writing", "composing"}]
           /\ at'[f] \in {"idle", "fetched"} /\ (f \in ReEmits => at'[f] = "idle")
           /\ \A g \in Frames \ {f} : page'[g] = page[g] /\ dev'[g] = dev[g] /\ seen'[g] = seen[g]
                                      /\ held'[g] = held[g] /\ at'[g] = at[g]
<1> DEFINE rest == [e \in DOMAIN page[f] \ {d} |-> page[f][e]]
<1>1. /\ page' = [page EXCEPT ![f] = rest]
      /\ at' = [at EXCEPT ![f] = IF rest = <<>> THEN "idle" ELSE "fetched"]
      /\ dev' = [dev EXCEPT ![f] = Nobody] /\ seen' = [seen EXCEPT ![f] = NoSpan] /\ held' = [held EXCEPT ![f] = NoRow]
  BY DEF Leave
<1>2. PICK D \in SUBSET Devices : page[f] \in [D -> Records]
  BY DEF Shapes, Pages
<1>3. DOMAIN rest = D \ {d} /\ rest \in [D \ {d} -> Records] /\ DOMAIN page[f] = D
  BY <1>2
<1>4. rest \in Pages
  BY <1>3 DEF Pages
<1>5. f \in ReEmits => rest = <<>>
  BY <1>3, EmptyFunction DEF Placed
<1>6. NoRow \in Rows
  BY DEF Rows
<1> HIDE DEF rest
<1>7. page' \in [Frames -> Pages] /\ DOMAIN page'[f] \subseteq DOMAIN page[f]
  BY <1>1, <1>3, <1>4 DEF Shapes
<1>8. dev' \in [Frames -> Devices \cup {Nobody}]
  BY <1>1 DEF Shapes
<1>9. seen' \in [Frames -> {NoSpan} \cup [index: Nat \ {0}, span: Span]]
  BY <1>1, Zenon DEF Shapes
<1>10. held' \in [Frames -> Rows \cup Views]
  BY <1>1, <1>6 DEF Shapes
<1>11. at' \in [Frames -> {"idle", "opened", "fetched", "writing", "composing"}]
       /\ at'[f] \in {"idle", "fetched"} /\ (f \in ReEmits => at'[f] = "idle")
  BY <1>1, <1>5 DEF TypeOK
<1>12. \A g \in Frames \ {f} : page'[g] = page[g] /\ dev'[g] = dev[g] /\ seen'[g] = seen[g]
                               /\ held'[g] = held[g] /\ at'[g] = at[g]
  BY <1>1 DEF TypeOK, Shapes
<1> QED
  BY <1>7, <1>8, <1>9, <1>10, <1>11, <1>12

\* Nor does the end of its process disturb another frame.
LEMMA DieFacts ==
    ASSUME TypeOK, Shapes, Placed, NEW f \in Frames, Die(f)
    PROVE  /\ page' \in [Frames -> Pages] /\ DOMAIN page'[f] = {}
           /\ dev' \in [Frames -> Devices \cup {Nobody}]
           /\ seen' \in [Frames -> {NoSpan} \cup [index: Nat \ {0}, span: Span]]
           /\ held' \in [Frames -> Rows \cup Views]
           /\ at' \in [Frames -> {"idle", "opened", "fetched", "writing", "composing"}] /\ at'[f] = "idle"
           /\ \A g \in Frames \ {f} : page'[g] = page[g] /\ dev'[g] = dev[g] /\ seen'[g] = seen[g]
                                      /\ held'[g] = held[g] /\ at'[g] = at[g]
<1>1. /\ page' = [page EXCEPT ![f] = <<>>] /\ at' = [at EXCEPT ![f] = "idle"]
      /\ dev' = [dev EXCEPT ![f] = Nobody] /\ seen' = [seen EXCEPT ![f] = NoSpan] /\ held' = [held EXCEPT ![f] = NoRow]
  BY DEF Die
<1>2. DOMAIN <<>> = {} /\ <<>> \in Pages
  <2>1. <<>> \in [{} -> Records] /\ {} \in SUBSET Devices
    OBVIOUS
  <2> QED
    BY <2>1 DEF Pages
<1>3. NoRow \in Rows
  BY DEF Rows
<1>4. page' \in [Frames -> Pages] /\ DOMAIN page'[f] = {}
  BY <1>1, <1>2 DEF Shapes
<1>5. seen' \in [Frames -> {NoSpan} \cup [index: Nat \ {0}, span: Span]]
  BY <1>1, Zenon DEF Shapes
<1>6. dev' \in [Frames -> Devices \cup {Nobody}] /\ held' \in [Frames -> Rows \cup Views]
  BY <1>1, <1>3 DEF Shapes
<1>7. at' \in [Frames -> {"idle", "opened", "fetched", "writing", "composing"}] /\ at'[f] = "idle"
  BY <1>1 DEF TypeOK
<1>8. \A g \in Frames \ {f} : page'[g] = page[g] /\ dev'[g] = dev[g] /\ seen'[g] = seen[g]
                              /\ held'[g] = held[g] /\ at'[g] = at[g]
  BY <1>1 DEF TypeOK, Shapes
<1> QED
  BY <1>4, <1>5, <1>6, <1>7, <1>8

\* One commit writes one device's spans, row and sum of deltas.
LEMMA RecordFacts ==
    ASSUME IInv, NEW f \in Frames, Record(f)
    PROVE  /\ spans' \in [Devices -> Seq(Span)]
           /\ spans'[dev[f]] = After(f) /\ \A d \in Devices \ {dev[f]} : spans'[d] = spans[d]
           /\ RowAfter(f, dev[f]) \in Rows /\ RowAfter(f, dev[f]) # NoRow
           /\ RowAfter(f, dev[f]) \in [name: Names \cup {Blank}, apps: SUBSET Apps]
<1>1. at[f] = "writing" /\ ~IsStale(seen[f], ObservedAt(f, dev[f])) /\ spans' = [spans EXCEPT ![dev[f]] = SpansAfter(f, dev[f])]
  BY DEF Record
<1>2. dev[f] \in Devices /\ f \in Readers
  BY <1>1, WriterFacts
<1>3. After(f) \in Seq(Span)
  BY <1>1, Prolonged, Opened
<1>4. spans' \in [Devices -> Seq(Span)] /\ spans'[dev[f]] = After(f)
      /\ \A d \in Devices \ {dev[f]} : spans'[d] = spans[d]
  BY <1>1, <1>2, <1>3 DEF IInv, Shapes, After
<1> DEFINE d == dev[f]
           was == IF row[d] = NoRow THEN [name |-> Blank, apps |-> {}] ELSE row[d]
<1>5. was \in [name: Names \cup {Blank}, apps: SUBSET Apps] /\ (row[d] # NoRow => row[d] = was)
  BY <1>2 DEF IInv, TypeOK, Rows
<1> DEFINE name == IF "general" \in Aperture[f] THEN Assigned(f, d, Read(f, d, "general", Blank, was.name))
                   ELSE Read(f, d, "general", Blank, was.name)
           apps == Read(f, d, "applications", {}, was.apps)
<1>6. page[f][d].content \in Contents
  BY <1>1, WriterFacts DEF Records
<1>7. "general" \in Aperture[f] => Observation(f, d)["general"] \in Names
  BY <1>1, <1>6, WriterFacts DEF Contents
<1>8. "applications" \in Aperture[f] => Observation(f, d)["applications"] \in SUBSET Apps
  BY <1>1, <1>6, WriterFacts DEF Contents
<1>9. RowAfter(f, d) = [name |-> name, apps |-> apps]
  BY DEF RowAfter
<1> HIDE DEF was, d
<1>10. name \in Names \cup {Blank} /\ apps \in SUBSET Apps
  BY <1>5, <1>7, <1>8 DEF Read, Assigned
<1>11. RowAfter(f, d) \in [name: Names \cup {Blank}, apps: SUBSET Apps]
  BY <1>9, <1>10
<1> QED
  BY <1>4, <1>11, ValuesAssumption DEF Rows, d

-----------------------------------------------------------------------------
(* The shape of the tables and the place of the frames.                     *)

\* Every step keeps the sets.
LEMMA ShapesStep == ASSUME IInv, [Next]_vars PROVE Shapes'
<1> USE DEF IInv
<1>a. ASSUME UNCHANGED spans, page' \in [Frames -> Pages], dev' \in [Frames -> Devices \cup {Nobody}],
             seen' \in [Frames -> {NoSpan} \cup [index: Nat \ {0}, span: Span]], held' \in [Frames -> Rows \cup Views]
      PROVE  Shapes'
  BY <1>a DEF Shapes
<1>b. ASSUME UNCHANGED <<spans, frame>> PROVE Shapes'
  BY <1>b DEF Shapes, frame
<1>c. ASSUME NEW d \in Devices PROVE [e \in {d} |-> jamf[e]] \in Pages /\ jamf \in Pages
  <2>1. [e \in {d} |-> jamf[e]] \in [{d} -> Records] /\ {d} \in SUBSET Devices
    BY DEF TypeOK
  <2>2. jamf \in [Devices -> Records]
    BY DEF TypeOK
  <2> QED
    BY <2>1, <2>2 DEF Pages
<1>1. CASE World
  BY <1>1, <1>b DEF World, Tick, MacReports, RecordEdited, tables
<1>2. ASSUME NEW f \in Frames, FetchPage(f) PROVE Shapes'
  <2>1. jamf \in Pages
    BY DEF TypeOK, Pages
  <2> QED
    BY <1>2, <1>a, <2>1 DEF FetchPage, tables, Shapes
<1>3. ASSUME NEW f \in Frames, NEW d \in Devices, Open(f, d) PROVE Shapes'
  <2>1. row[d] \in Rows
    BY DEF TypeOK
  <2> QED
    BY <1>3, <1>a, <2>1 DEF Open, tables, Shapes
<1>4. ASSUME NEW f \in Frames, NEW d \in Devices, Notice(f, d) \/ Refresh(f, d) PROVE Shapes'
  <2>1. FetchOne(f, d)
    BY <1>4 DEF Notice, Refresh
  <2> QED
    BY <1>a, <1>c, <2>1 DEF FetchOne, tables, Shapes
<1>5. ASSUME NEW f \in Frames, NEW d \in Devices, Lock(f, d) PROVE Shapes'
  <2>1. CurrentSpan(d) \in {NoSpan} \cup [index: Nat \ {0}, span: Span]
    BY CurrentIsLast
  <2>2. seen' = [seen EXCEPT ![f] = CurrentSpan(d)] /\ dev' = [dev EXCEPT ![f] = d] /\ UNCHANGED <<spans, page, held>>
    BY <1>5 DEF Lock, tables
  <2>3. seen' \in [Frames -> {NoSpan} \cup [index: Nat \ {0}, span: Span]]
    BY <2>1, <2>2, Zenon DEF Shapes
  <2>4. dev' \in [Frames -> Devices \cup {Nobody}]
    BY <2>2 DEF Shapes
  <2> QED
    BY <1>a, <2>2, <2>3, <2>4 DEF Shapes
<1>6. ASSUME NEW f \in Frames, NEW d, Leave(f, d), UNCHANGED spans PROVE Shapes'
  BY <1>6, <1>a, LeaveFacts
<1>7. ASSUME NEW f \in Frames, NEW d \in Devices, Busy(f, d) PROVE Shapes'
  BY <1>6, <1>7 DEF Busy, tables
<1>8. ASSUME NEW f \in Frames, IgnoreStale(f) \/ RollBack(f) \/ Emit(f) PROVE Shapes'
  BY <1>6, <1>8 DEF IgnoreStale, RollBack, Emit, tables
<1>9. ASSUME NEW f \in Frames, NEW d \in Devices, Compose(f, d) PROVE Shapes'
  <2>1. CurrentSpan(d).span.sections \in Views
    <3>1. spans[d] # <<>>
      BY <1>9, CurrentIsLast DEF Compose
    <3>2. CurrentSpan(d).span \in Span
      BY <3>1, CurrentIsLast
    <3> QED
      BY <3>2 DEF Span
  <2>2. held' = [held EXCEPT ![f] = CurrentSpan(d).span.sections] /\ dev' = [dev EXCEPT ![f] = d] /\ UNCHANGED <<spans, page, seen>>
    BY <1>9 DEF Compose, tables
  <2>3. held' \in [Frames -> Rows \cup Views] /\ dev' \in [Frames -> Devices \cup {Nobody}]
    BY <2>1, <2>2 DEF Shapes
  <2> QED
    BY <1>a, <2>2, <2>3 DEF Shapes
<1>10. ASSUME NEW f \in Frames, Record(f) PROVE Shapes'
  <2>1. Leave(f, dev[f])
    BY <1>10 DEF Record
  <2> QED
    BY <1>10, <2>1, RecordFacts, LeaveFacts DEF Shapes
<1>11. ASSUME NEW f \in Frames, Die(f) PROVE Shapes'
  BY <1>11, <1>a, DieFacts DEF Die, tables
<1>12. CASE UNCHANGED vars
  BY <1>12, <1>b DEF vars, tables
<1> QED
  BY <1>1, <1>2, <1>3, <1>4, <1>5, <1>7, <1>8, <1>9, <1>10, <1>11, <1>12 DEF Next, Step, Settle

\* Every step keeps the frames in their places.
LEMMA PlacedStep == ASSUME IInv, [Next]_vars PROVE Placed'
<1> DEFINE Fits(f) == /\ at[f] = "composing" => f \in ReEmits /\ dev[f] \in Devices /\ held[f] \in Views
                      /\ at[f] \in {"opened", "fetched", "writing"} => f \in Readers
                      /\ f \in ReEmits => DOMAIN page[f] = {}
                      /\ at[f] = "writing" => dev[f] \in DOMAIN page[f] /\ seen[f] = CurrentSpan(dev[f])
<1>0. \A f \in Frames : Fits(f)
  BY DEF IInv, Placed
<1>a. ASSUME NEW f \in Frames, (Fits(f))', UNCHANGED spans,
             \A g \in Frames \ {f} : page'[g] = page[g] /\ dev'[g] = dev[g] /\ seen'[g] = seen[g]
                                     /\ held'[g] = held[g] /\ at'[g] = at[g]
      PROVE  Placed'
  <2>1. ASSUME NEW g \in Frames \ {f} PROVE (Fits(g))'
    <3>1. page'[g] = page[g] /\ dev'[g] = dev[g] /\ seen'[g] = seen[g] /\ held'[g] = held[g] /\ at'[g] = at[g]
      BY <1>a, <2>1
    <3>2. \A d : CurrentSpan(d)' = CurrentSpan(d)
      BY <1>a DEF CurrentSpan
    <3>3. CurrentSpan(dev[g])' = CurrentSpan(dev[g])
      BY <3>1, <3>2
    <3>4. Fits(g)
      BY <1>0
    <3> QED
      BY <3>1, <3>3, <3>4
  <2> QED
    BY <1>a, <2>1 DEF Placed
<1> USE DEF IInv
<1>b. ASSUME UNCHANGED <<spans, frame>> PROVE Placed'
  BY <1>b DEF Placed, frame, CurrentSpan
<1>k. \A f \in Frames : f \in Sweeps \cup Webhooks \cup Refreshes => f \in Readers /\ f \notin ReEmits
  BY FramesAssumption DEF Readers
<1>l. \A f \in Frames : f \in ReEmits => f \notin Readers
  BY FramesAssumption DEF Readers
<1>1. CASE World
  BY <1>1, <1>b DEF World, Tick, MacReports, RecordEdited, tables
<1>2. ASSUME NEW f \in Frames, FetchPage(f) PROVE Placed'
  <2>1. f \in Readers /\ f \notin ReEmits /\ at'[f] = "fetched" /\ UNCHANGED spans
    BY <1>2, <1>k DEF FetchPage, TypeOK, tables
  <2>2. (Fits(f))'
    BY <2>1
  <2> QED
    BY <1>2, <1>a, <2>1, <2>2 DEF FetchPage, TypeOK, Shapes
<1>3. ASSUME NEW f \in Frames, NEW d \in Devices, Open(f, d) PROVE Placed'
  <2>1. f \in Readers /\ f \notin ReEmits /\ at'[f] = "opened" /\ UNCHANGED spans
    BY <1>3, <1>k DEF Open, TypeOK, tables
  <2>2. (Fits(f))'
    BY <2>1
  <2> QED
    BY <1>3, <1>a, <2>1, <2>2 DEF Open, TypeOK, Shapes
<1>4. ASSUME NEW f \in Frames, NEW d \in Devices, Notice(f, d) \/ Refresh(f, d) PROVE Placed'
  <2>1. f \in Readers /\ f \notin ReEmits /\ at'[f] = "fetched" /\ UNCHANGED spans
    BY <1>4, <1>k DEF Notice, Refresh, FetchOne, TypeOK, tables
  <2>2. (Fits(f))'
    BY <2>1
  <2>3. \A g \in Frames \ {f} : page'[g] = page[g] /\ at'[g] = at[g]
    BY <1>4 DEF Notice, Refresh, FetchOne, TypeOK, Shapes
  <2>4. UNCHANGED <<dev, seen, held>>
    BY <1>4 DEF Notice, Refresh, FetchOne
  <2> QED
    BY <1>a, <2>1, <2>2, <2>3, <2>4
<1>5. ASSUME NEW f \in Frames, NEW d \in Devices, Lock(f, d) PROVE Placed'
  <2>1. f \in Readers /\ f \notin ReEmits
    BY <1>5, <1>l DEF Lock, Placed
  <2>2. /\ at'[f] = "writing" /\ dev'[f] = d /\ seen'[f] = CurrentSpan(d) /\ UNCHANGED <<spans, page, held>>
        /\ d \in DOMAIN page[f]
    BY <1>5 DEF Lock, TypeOK, Shapes, tables
  <2>3. CurrentSpan(d)' = CurrentSpan(d)
    BY <2>2 DEF CurrentSpan
  <2>4. (Fits(f))'
    BY <2>1, <2>2, <2>3
  <2> QED
    BY <1>5, <1>a, <2>2, <2>4 DEF Lock, TypeOK, Shapes
<1>6. ASSUME NEW f \in Frames, NEW d, Leave(f, d), at[f] # "idle" PROVE (Fits(f))'
  <2>1. at'[f] \in {"idle", "fetched"} /\ (f \in ReEmits => at'[f] = "idle") /\ DOMAIN page'[f] \subseteq DOMAIN page[f]
    BY <1>6, LeaveFacts
  <2>2. f \in ReEmits => DOMAIN page'[f] = {}
    BY <1>0, <2>1
  <2>3. f \notin ReEmits => f \in Readers
    BY DEF Frames
  <2> QED
    BY <2>1, <2>2, <2>3
<1>7. ASSUME NEW f \in Frames, NEW d, Leave(f, d), at[f] # "idle", UNCHANGED spans PROVE Placed'
  BY <1>6, <1>7, <1>a, LeaveFacts
<1>8. ASSUME NEW f \in Frames, NEW d \in Devices, Busy(f, d) PROVE Placed'
  BY <1>7, <1>8 DEF Busy, tables
<1>9. ASSUME NEW f \in Frames, IgnoreStale(f) \/ RollBack(f) \/ Emit(f) PROVE Placed'
  BY <1>7, <1>9 DEF IgnoreStale, RollBack, Emit, tables
<1>10. ASSUME NEW f \in Frames, NEW d \in Devices, Compose(f, d) PROVE Placed'
  <2>1. CurrentSpan(d).span.sections \in Views
    <3>1. spans[d] # <<>>
      BY <1>10, CurrentIsLast DEF Compose
    <3>2. CurrentSpan(d).span \in Span
      BY <3>1, CurrentIsLast
    <3> QED
      BY <3>2 DEF Span
  <2>2. /\ f \in ReEmits /\ at'[f] = "composing" /\ dev'[f] = d /\ held'[f] = CurrentSpan(d).span.sections
        /\ UNCHANGED <<spans, page>>
    BY <1>10 DEF Compose, TypeOK, Shapes, tables
  <2>3. (Fits(f))'
    BY <1>0, <2>1, <2>2
  <2> QED
    BY <1>10, <1>a, <2>2, <2>3 DEF Compose, TypeOK, Shapes
<1>11. ASSUME NEW f \in Frames, Record(f) PROVE Placed'
  <2>1. Leave(f, dev[f]) /\ at[f] = "writing"
    BY <1>11 DEF Record
  <2>2. ASSUME NEW g \in Frames \ {f} PROVE (Fits(g))'
    <3>1. page'[g] = page[g] /\ dev'[g] = dev[g] /\ seen'[g] = seen[g] /\ held'[g] = held[g] /\ at'[g] = at[g]
      BY <2>1, LeaveFacts
    <3>2. CASE at[g] = "writing"
      <4>1. dev[g] \in Devices /\ dev[g] # dev[f]
        BY <2>1, <3>2, WriterFacts
      <4>2. spans'[dev[g]] = spans[dev[g]]
        BY <1>11, <4>1, RecordFacts
      <4>3. CurrentSpan(dev[g])' = CurrentSpan(dev[g])
        BY <3>1, <4>2 DEF CurrentSpan
      <4> QED
        BY <1>0, <3>1, <4>3
    <3>3. CASE at[g] # "writing"
      BY <1>0, <3>1, <3>3
    <3> QED
      BY <3>2, <3>3
  <2> QED
    BY <1>6, <2>1, <2>2 DEF Placed
<1>12. ASSUME NEW f \in Frames, Die(f) PROVE Placed'
  <2>1. (Fits(f))'
    BY <1>12, DieFacts
  <2> QED
    BY <1>12, <1>a, <2>1, DieFacts DEF Die, tables
<1>13. CASE UNCHANGED vars
  BY <1>13, <1>b DEF vars, tables
<1> QED
  BY <1>1, <1>2, <1>3, <1>4, <1>5, <1>8, <1>9, <1>10, <1>11, <1>12, <1>13 DEF Next, Step, Settle

\* Every step keeps the types and gives each device's lock to the frame that writes it.
LEMMA TypeStep == ASSUME IInv, [Next]_vars PROVE TypeOK'
<1> USE BoundsAssumption DEF IInv
<1> DEFINE Locks == /\ lock \in [Devices -> Readers \cup {Nobody}]
                    /\ \A d \in Devices, f \in Readers : lock[d] = f <=> at[f] = "writing" /\ dev[f] = d
           Tables == /\ row \in [Devices -> Rows] /\ told \in [Devices -> SUBSET Apps]
                     /\ \A x \in said : x.device \in Devices /\ x.sections \in Views
           Places == at \in [Frames -> {"idle", "opened", "fetched", "writing", "composing"}]
           Rest == clock \in 1..MaxClock /\ jamf \in [Devices -> Records] /\ left \in [Frames -> 0..MaxRuns]
<1>0. Locks /\ Tables /\ Places /\ Rest
  BY DEF TypeOK
<1>a. ASSUME Locks', Tables', Places', Rest' PROVE TypeOK'
  <2>1. Shapes'
    BY ShapesStep
  <2>2. (\A d \in Devices : \A i \in DOMAIN spans[d] :
             spans[d][i].sections \in Views /\ {spans[d][i].first, spans[d][i].last} \subseteq 1..MaxClock)'
    <3> SUFFICES ASSUME NEW d \in Devices, NEW i \in DOMAIN spans'[d]
                 PROVE  /\ spans'[d][i].sections \in Views
                        /\ {spans'[d][i].first, spans'[d][i].last} \subseteq 1..MaxClock
      OBVIOUS
    <3>1. spans'[d] \in Seq(Span)
      BY <2>1 DEF Shapes
    <3>2. spans'[d][i] \in Span
      BY <3>1
    <3> QED
      BY <3>2 DEF Span
  <2>3. (\A f \in Frames : \A d \in DOMAIN page[f] : d \in Devices /\ page[f][d] \in Records)'
    BY <2>1 DEF Shapes, Pages
  <2> QED
    BY <1>a, <2>2, <2>3 DEF TypeOK
<1>b. ASSUME NEW f \in Readers, f \in Frames, at[f] # "writing", at'[f] # "writing", UNCHANGED lock,
             \A g \in Frames \ {f} : dev'[g] = dev[g] /\ at'[g] = at[g]
      PROVE  Locks'
  <2>1. \A g \in Readers : g \in Frames
    BY DEF Frames
  <2> QED
    BY <1>0, <1>b, <2>1
<1>c. ASSUME NEW f \in ReEmits, UNCHANGED lock, \A g \in Frames \ {f} : dev'[g] = dev[g] /\ at'[g] = at[g]
      PROVE  Locks'
  <2>1. \A g \in Readers : g \in Frames \ {f}
    BY FramesAssumption DEF Frames, Readers
  <2> QED
    BY <1>0, <1>c, <2>1
<1>d. ASSUME NEW f \in Frames, at[f] = "writing", Leave(f, dev[f]), lock' = Released(f) PROVE Locks' /\ Places'
  <2>1. f \in Readers /\ dev[f] \in Devices /\ lock[dev[f]] = f
    BY <1>d, WriterFacts
  <2>2. \A g \in Frames \ {f} : dev'[g] = dev[g] /\ at'[g] = at[g]
    BY <1>d, LeaveFacts
  <2>3. at'[f] # "writing" /\ Places'
    BY <1>d, LeaveFacts
  <2>4. lock'[dev[f]] = Nobody /\ \A d \in Devices \ {dev[f]} : lock'[d] = lock[d]
    BY <1>0, <1>d, <2>1 DEF Released
  <2>5. lock' \in [Devices -> Readers \cup {Nobody}]
    BY <1>0, <1>d DEF Released
  <2>6. Nobody \notin Readers /\ \A g \in Readers : g \in Frames
    BY FramesAssumption DEF Frames
  <2>7. ASSUME NEW d \in Devices, NEW g \in Readers PROVE lock'[d] = g <=> at'[g] = "writing" /\ dev'[g] = d
    <3>1. CASE g = f
      BY <1>0, <1>d, <2>1, <2>3, <2>4, <2>6, <3>1
    <3>2. CASE g # f
      BY <1>0, <2>1, <2>2, <2>4, <2>6, <3>2
    <3> QED
      BY <3>1, <3>2
  <2> QED
    BY <2>3, <2>5, <2>7
<1>1. CASE Tick
  BY <1>0, <1>1, <1>a DEF Tick, tables, frame
<1>2. ASSUME NEW d \in Devices, MacReports(d) \/ RecordEdited(d) PROVE TypeOK'
  <2>1. UNCHANGED <<clock, row, told, said, lock, at, dev, left>>
    BY <1>2 DEF MacReports, RecordEdited, tables, frame
  <2>2. jamf[d].ver + 1 \in 1..MaxVer /\ jamf[d] \in Records
    <3>1. jamf[d] \in Records /\ jamf[d].ver < MaxVer
      BY <1>0, <1>2 DEF MacReports, RecordEdited
    <3>2. jamf[d].ver \in 1..MaxVer /\ MaxVer \in Nat
      BY <3>1 DEF Records
    <3> QED
      BY <3>1, <3>2
  <2>3. jamf' \in [Devices -> Records]
    <3>1. CASE MacReports(d)
      <4>1. PICK c \in Contents : jamf' = [jamf EXCEPT ![d] = [date |-> clock, content |-> c, ver |-> jamf[d].ver + 1]]
        BY <1>0, <3>1 DEF MacReports
      <4>2. [date |-> clock, content |-> c, ver |-> jamf[d].ver + 1] \in Records
        BY <1>0, <2>2 DEF Records
      <4> QED
        BY <1>0, <4>1, <4>2
    <3>2. CASE RecordEdited(d)
      <4>1. PICK n \in Names : jamf' = [jamf EXCEPT ![d] =
                [date |-> jamf[d].date, ver |-> jamf[d].ver + 1,
                 content |-> [general |-> n, applications |-> jamf[d].content.applications]]]
        BY <1>0, <3>2 DEF RecordEdited
      <4>2. [date |-> jamf[d].date, ver |-> jamf[d].ver + 1,
             content |-> [general |-> n, applications |-> jamf[d].content.applications]] \in Records
        BY <2>2 DEF Records, Contents
      <4> QED
        BY <1>0, <4>1, <4>2
    <3> QED
      BY <1>2, <3>1, <3>2
  <2> QED
    BY <1>0, <1>a, <2>1, <2>3
<1>3. ASSUME NEW f \in Frames, FetchPage(f) PROVE TypeOK'
  <2>1. f \in Readers /\ at[f] = "idle" /\ at' = [at EXCEPT ![f] = "fetched"] /\ UNCHANGED <<clock, jamf, row, told, said, lock, dev, left>>
    BY <1>3 DEF FetchPage, tables, Readers
  <2>2. Locks' /\ Places'
    BY <1>0, <1>b, <2>1
  <2> QED
    BY <1>0, <1>a, <2>1, <2>2
<1>4. ASSUME NEW f \in Frames, Spend(f) PROVE left' \in [Frames -> 0..MaxRuns]
  BY <1>0, <1>4 DEF Spend
<1>5. ASSUME NEW f \in Frames, NEW d \in Devices, Open(f, d) PROVE TypeOK'
  <2>1. f \in Readers /\ at[f] = "idle" /\ at' = [at EXCEPT ![f] = "opened"] /\ dev' = [dev EXCEPT ![f] = d]
        /\ UNCHANGED <<clock, jamf, row, told, said, lock>>
    BY <1>5 DEF Open, tables, Readers
  <2>2. Locks' /\ Places'
    BY <1>0, <1>b, <2>1 DEF Shapes
  <2> QED
    BY <1>0, <1>4, <1>5, <1>a, <2>1, <2>2 DEF Open
<1>6. ASSUME NEW f \in Frames, NEW d \in Devices, Notice(f, d) \/ Refresh(f, d) PROVE TypeOK'
  <2>1. f \in Readers /\ at[f] # "writing" /\ at' = [at EXCEPT ![f] = "fetched"]
        /\ UNCHANGED <<clock, jamf, row, told, said, lock, dev>>
    BY <1>6 DEF Notice, Refresh, FetchOne, tables, Readers
  <2>2. Locks' /\ Places'
    BY <1>0, <1>b, <2>1
  <2>3. left' \in [Frames -> 0..MaxRuns]
    BY <1>0, <1>4, <1>6 DEF Notice, Refresh
  <2> QED
    BY <1>0, <1>a, <2>1, <2>2, <2>3
<1>7. ASSUME NEW f \in Frames, NEW d \in Devices, Lock(f, d) PROVE TypeOK'
  <2>1. /\ at[f] = "fetched" /\ lock[d] = Nobody /\ lock' = [lock EXCEPT ![d] = f] /\ dev' = [dev EXCEPT ![f] = d]
        /\ at' = [at EXCEPT ![f] = "writing"] /\ UNCHANGED <<clock, jamf, row, told, said, left>>
    BY <1>7 DEF Lock, LockFree, tables
  <2>2. f \in Readers /\ Nobody \notin Readers /\ \A g \in Readers : g \in Frames
    BY <2>1, FramesAssumption DEF Placed, Frames
  <2>3. Places' /\ at'[f] = "writing" /\ dev'[f] = d /\ \A g \in Frames \ {f} : at'[g] = at[g] /\ dev'[g] = dev[g]
    BY <1>0, <2>1 DEF Shapes
  <2>4. lock' \in [Devices -> Readers \cup {Nobody}] /\ lock'[d] = f /\ \A e \in Devices \ {d} : lock'[e] = lock[e]
    BY <1>0, <2>1, <2>2
  <2>5. ASSUME NEW e \in Devices, NEW g \in Readers PROVE lock'[e] = g <=> at'[g] = "writing" /\ dev'[g] = e
    <3>1. CASE g = f
      BY <1>0, <2>1, <2>2, <2>3, <2>4, <3>1
    <3>2. CASE g # f
      BY <1>0, <2>1, <2>2, <2>3, <2>4, <3>2
    <3> QED
      BY <3>1, <3>2
  <2>6. Locks'
    BY <2>4, <2>5
  <2> QED
    BY <1>0, <1>a, <2>1, <2>3, <2>6
<1>8. ASSUME NEW f \in Frames, NEW d \in Devices, Busy(f, d) PROVE TypeOK'
  <2>1. at[f] = "fetched" /\ Leave(f, d) /\ UNCHANGED <<clock, jamf, row, told, said, lock, left>>
    BY <1>8 DEF Busy, tables
  <2>2. f \in Readers
    BY <2>1 DEF Placed
  <2>3. Places' /\ at'[f] # "writing" /\ \A g \in Frames \ {f} : dev'[g] = dev[g] /\ at'[g] = at[g]
    BY <2>1, LeaveFacts
  <2>4. Locks'
    BY <1>b, <2>1, <2>2, <2>3
  <2> QED
    BY <1>0, <1>a, <2>1, <2>3, <2>4
<1>9. ASSUME NEW f \in Frames, IgnoreStale(f) \/ RollBack(f) PROVE TypeOK'
  <2>1. at[f] = "writing" /\ Leave(f, dev[f]) /\ lock' = Released(f) /\ UNCHANGED <<clock, jamf, row, told, said, left>>
    BY <1>9 DEF IgnoreStale, RollBack, RolledBackTold, tables
  <2>2. Locks' /\ Places'
    BY <1>d, <2>1
  <2> QED
    BY <1>0, <1>a, <2>1, <2>2
<1>10. ASSUME NEW f \in Frames, Record(f) PROVE TypeOK'
  <2> DEFINE d == dev[f]
  <2>1. at[f] = "writing" /\ Leave(f, d) /\ lock' = Released(f) /\ UNCHANGED <<clock, jamf, left>>
        /\ row' = [row EXCEPT ![d] = RowAfter(f, d)] /\ told' = [told EXCEPT ![d] = Replayed(f, d)]
        /\ said' = said \cup {Snapshot(f, d)}
    BY <1>10 DEF Record
  <2>2. Locks' /\ Places'
    BY <1>d, <2>1
  <2>3. d \in Devices /\ Observation(f, d) \in Views /\ DOMAIN Observation(f, d) = Aperture[f]
    BY <2>1, WriterFacts
  <2>4. RowAfter(f, d) \in Rows /\ RowAfter(f, d).apps \in SUBSET Apps
    BY <1>10, RecordFacts
  <2>5. Replayed(f, d) \in SUBSET Apps
    BY <1>0, <2>3, <2>4 DEF Replayed
  <2>6. Snapshot(f, d).device = d /\ Snapshot(f, d).sections \in Views
    <3>1. Snapshot(f, d).device = d
          /\ Snapshot(f, d).sections = [s \in DOMAIN Observation(f, d) |-> IF s = "applications" THEN CurrentRows(f, d) ELSE Observation(f, d)[s]]
      BY <2>3 DEF Snapshot
    <3> QED
      BY <2>3, <2>4, <3>1, ReAppedIsView DEF CurrentRows
  <2> HIDE DEF d
  <2>7. row' \in [Devices -> Rows] /\ told' \in [Devices -> SUBSET Apps]
    BY <1>0, <2>1, <2>4, <2>5
  <2>8. \A x \in said' : x.device \in Devices /\ x.sections \in Views
    BY <1>0, <2>1, <2>3, <2>6
  <2> QED
    BY <1>0, <1>a, <2>1, <2>2, <2>7, <2>8
<1>11. ASSUME NEW f \in Frames, NEW d \in Devices, Compose(f, d) PROVE TypeOK'
  <2>1. f \in ReEmits /\ at' = [at EXCEPT ![f] = "composing"] /\ dev' = [dev EXCEPT ![f] = d]
        /\ UNCHANGED <<clock, jamf, row, told, said, lock>>
    BY <1>11 DEF Compose, tables
  <2>2. \A g \in Frames \ {f} : dev'[g] = dev[g] /\ at'[g] = at[g]
    BY <1>0, <2>1 DEF Shapes
  <2>3. Locks' /\ Places'
    BY <1>0, <1>c, <2>1, <2>2
  <2> QED
    BY <1>0, <1>4, <1>11, <1>a, <2>1, <2>3 DEF Compose
<1>12. ASSUME NEW f \in Frames, Emit(f) PROVE TypeOK'
  <2> DEFINE v == [s \in DOMAIN held[f] |-> IF s = "applications" THEN Installed(dev[f]) ELSE held[f][s]]
  <2>1. at[f] = "composing" /\ Leave(f, dev[f]) /\ UNCHANGED <<clock, jamf, row, told, lock, left>>
        /\ said' = said \cup {[device |-> dev[f], pulled |-> FALSE, sections |-> v]}
    BY <1>12 DEF Emit
  <2>2. f \in ReEmits /\ dev[f] \in Devices /\ held[f] \in Views
    BY <2>1 DEF Placed
  <2>3. Installed(dev[f]) \in SUBSET Apps
    BY <1>0, <2>2 DEF Installed, Rows
  <2>4. v \in Views
    BY <2>2, <2>3, ReAppedIsView
  <2> HIDE DEF v
  <2>5. \A x \in said' : x.device \in Devices /\ x.sections \in Views
    BY <1>0, <2>1, <2>2, <2>4
  <2>6. \A g \in Frames \ {f} : dev'[g] = dev[g] /\ at'[g] = at[g]
    BY <2>1, LeaveFacts
  <2>7. Places'
    BY <2>1, LeaveFacts
  <2>8. Locks'
    BY <1>c, <2>1, <2>2, <2>6
  <2> QED
    BY <1>0, <1>a, <2>1, <2>5, <2>7, <2>8
<1>13. ASSUME NEW f \in Frames, Die(f) PROVE TypeOK'
  <2>1. lock' = [d \in Devices |-> IF lock[d] = f THEN Nobody ELSE lock[d]] /\ UNCHANGED <<clock, jamf, row, told, said, left>>
    BY <1>13 DEF Die, tables
  <2>2. Places' /\ at'[f] = "idle" /\ \A g \in Frames \ {f} : dev'[g] = dev[g] /\ at'[g] = at[g]
    BY <1>13, DieFacts
  <2>3. Nobody \notin Readers /\ \A g \in Readers : g \in Frames
    BY FramesAssumption DEF Frames
  <2>4. Locks'
    <3>1. lock' \in [Devices -> Readers \cup {Nobody}]
      BY <1>0, <2>1
    <3>2. ASSUME NEW d \in Devices, NEW g \in Readers PROVE lock'[d] = g <=> at'[g] = "writing" /\ dev'[g] = d
      <4>1. lock'[d] = IF lock[d] = f THEN Nobody ELSE lock[d]
        BY <2>1
      <4>2. CASE g = f
        BY <2>2, <2>3, <4>1, <4>2
      <4>3. CASE g # f
        BY <1>0, <2>2, <2>3, <4>1, <4>3
      <4> QED
        BY <4>2, <4>3
    <3> QED
      BY <3>1, <3>2
  <2> QED
    BY <1>0, <1>a, <2>1, <2>2, <2>4
<1>14. CASE UNCHANGED vars
  BY <1>0, <1>14, <1>a DEF vars, tables, frame
<1> QED
  BY <1>1, <1>2, <1>3, <1>5, <1>6, <1>7, <1>8, <1>9, <1>10, <1>11, <1>12, <1>13, <1>14 DEF Next, World, Step, Settle

-----------------------------------------------------------------------------
(* The two layers and the wire.                                             *)

\* Only the commit of an ingest writes the spans, the row or the sum of deltas.
LEMMA OnlyRecordWrites ==
    ASSUME IInv, [Next]_vars, ~\E f \in Frames : Record(f) PROVE UNCHANGED <<spans, row, told>>
<1>1. CASE World
  BY <1>1 DEF World, Tick, MacReports, RecordEdited, tables
<1>2. ASSUME NEW f \in Frames, Step(f) PROVE UNCHANGED <<spans, row, told>>
  BY <1>2 DEF Step, FetchPage, Open, Notice, Refresh, FetchOne, Lock, Busy, Compose, Settle, IgnoreStale, RollBack,
     RolledBackTold, Emit, tables
<1>3. ASSUME NEW f \in Frames, Die(f) PROVE UNCHANGED <<spans, row, told>>
  BY <1>3 DEF Die, tables
<1>4. CASE UNCHANGED vars
  BY <1>4 DEF vars, tables
<1> QED
  BY <1>1, <1>2, <1>3, <1>4 DEF Next

\* A span keeps what it recorded, and a commit leaves its read as the newest span.
LEMMA SpansKeepSections ==
    ASSUME IInv, NEW f \in Frames, Record(f)
    PROVE  LET ss == Before(f)
               tt == After(f)
               n == Len(ss)
           IN
           /\ DOMAIN ss = 1..n /\ DOMAIN tt = 1..Len(tt) /\ n \in Nat /\ Len(tt) \in Nat \ {0}
           /\ \A i \in DOMAIN ss : i \in DOMAIN tt /\ tt[i].sections = ss[i].sections
           /\ \A i \in DOMAIN ss : i # n => tt[i] = ss[i]
           /\ tt[Len(tt)].sections = Observation(f, dev[f])
           /\ ss # <<>> => n # 0 /\ ss[n].last <= tt[Len(tt)].last
<1>1. at[f] = "writing" /\ ~IsStale(seen[f], ObservedAt(f, dev[f]))
  BY DEF Record
<1>2. Before(f) \in Seq(Span) /\ After(f) \in Seq(Span) /\ DOMAIN Before(f) = 1..Len(Before(f)) /\ DOMAIN After(f) = 1..Len(After(f)) /\ Len(Before(f)) \in Nat
      /\ (Before(f) # <<>> => Len(Before(f)) # 0)
  <2>1. Before(f) \in Seq(Span) /\ After(f) \in Seq(Span)
    BY <1>1, Prolonged, Opened, WriterFacts DEF IInv, Shapes, Before
  <2> QED
    BY <2>1, LenProperties, EmptySeq
<1>3. CASE SameHead(f, dev[f])
  BY <1>1, <1>2, <1>3, Prolonged
<1>4. CASE ~SameHead(f, dev[f])
  <2> DEFINE n == Len(Before(f))
  <2>1. /\ Len(After(f)) = n + 1 /\ After(f)[n + 1] = NewSpan(f, dev[f])
        /\ \A i \in 1..n : After(f)[i].sections = Before(f)[i].sections /\ (i # n => After(f)[i] = Before(f)[i])
        /\ n # 0 => Before(f)[n].last <= ObservedAt(f, dev[f])
    BY <1>1, <1>4, Opened
  <2>2. NewSpan(f, dev[f]).sections = Observation(f, dev[f]) /\ NewSpan(f, dev[f]).last = ObservedAt(f, dev[f])
    BY DEF NewSpan
  <2> QED
    BY <1>2, <2>1, <2>2
<1> QED
  BY <1>3, <1>4

\* Every step keeps the spans a chain.
LEMMA ChainStep == ASSUME IInv, [Next]_vars PROVE SpansAreAChain'
<1> USE DEF IInv
<1> DEFINE Good(x) == x.first <= x.last /\ x.count <= x.last - x.first + 1
           Chain(ss) == /\ \A i \in DOMAIN ss : (ss[i].current <=> i = Len(ss)) /\ Good(ss[i])
                        /\ \A i \in 1..(Len(ss) - 1) : ss[i].sections # ss[i + 1].sections /\ ss[i].last <= ss[i + 1].first
<1>0. \A d \in Devices : Chain(spans[d])
  BY DEF SpansAreAChain
<1>1. CASE ~\E f \in Frames : Record(f)
  BY <1>1, OnlyRecordWrites DEF SpansAreAChain
<1>2. ASSUME NEW f \in Frames, Record(f) PROVE SpansAreAChain'
  <2>1. at[f] = "writing" /\ ~IsStale(seen[f], ObservedAt(f, dev[f])) /\ dev[f] \in Devices /\ ObservedAt(f, dev[f]) \in 1..MaxClock
    BY <1>2, WriterFacts DEF Record
  <2>2. PICK ss, tt, n, t : ss = Before(f) /\ tt = After(f) /\ n = Len(ss) /\ t = ObservedAt(f, dev[f])
    OBVIOUS
  <2>3. ss \in Seq(Span) /\ n \in Nat /\ DOMAIN ss = 1..n /\ Chain(ss) /\ \A i \in 1..n : ss[i] \in Span
    <3>1. ss \in Seq(Span) /\ n \in Nat /\ DOMAIN ss = 1..n
      BY <2>1, <2>2, LenProperties DEF Shapes, Before
    <3> QED
      BY <1>0, <2>1, <2>2, <3>1 DEF Before
  <2>4. ASSUME SameHead(f, dev[f]) PROVE Chain(tt)
    <3>1. /\ n \in Nat \ {0} /\ Len(tt) = n /\ DOMAIN tt = 1..n
          /\ \A i \in 1..n : i # n => tt[i] = ss[i]
          /\ tt[n].sections = ss[n].sections
          /\ tt[n].current = ss[n].current /\ tt[n].first = ss[n].first
          /\ tt[n].last = t /\ ss[n].last <= t
          /\ tt[n].count \in Nat /\ tt[n].count <= IF t = ss[n].last THEN ss[n].count ELSE ss[n].count + 1
      BY <2>1, <2>2, <2>3, <2>4, Prolonged
    <3>2. /\ ss[n].first \in Int /\ ss[n].last \in Int /\ ss[n].count \in Int /\ Good(ss[n]) /\ t \in Int
          /\ ss[n].current <=> n = n
      <4>1. n \in 1..n /\ n = Len(ss) /\ DOMAIN ss = 1..n
        BY <2>2, <2>3, <3>1
      <4>2. ss[n] \in Span /\ Good(ss[n]) /\ (ss[n].current <=> n = n)
        BY <2>3, <4>1
      <4> HIDE DEF Good
      <4>3. ss[n].first \in Int /\ ss[n].last \in Int /\ ss[n].count \in Int /\ t \in Int
        BY <2>1, <2>2, <4>2 DEF Span
      <4> QED
        BY <4>2, <4>3
    <3>3. Good(tt[n])
      <4>1. tt[n].count \in Nat /\ tt[n].count <= IF t = ss[n].last THEN ss[n].count ELSE ss[n].count + 1
        BY <3>1
      <4>2. tt[n].first = ss[n].first /\ tt[n].last = t /\ ss[n].last <= t
        BY <3>1
      <4> QED
        BY <3>2, <4>1, <4>2
    <3>4. \A i \in 1..n : (tt[i].current <=> i = n) /\ Good(tt[i])
      <4> SUFFICES ASSUME NEW i \in 1..n PROVE (tt[i].current <=> i = n) /\ Good(tt[i])
        OBVIOUS
      <4>1. CASE i # n
        <5>1. tt[i] = ss[i] /\ i \in DOMAIN ss
          BY <2>3, <3>1, <4>1
        <5>2. (ss[i].current <=> i = n) /\ Good(ss[i])
          BY <2>2, <2>3, <5>1
        <5> QED
          BY <5>1, <5>2, Zenon
      <4>2. CASE i = n
        BY <3>1, <3>2, <3>3, <4>2
      <4> QED
        BY <4>1, <4>2
    <3>5. \A i \in 1..(n - 1) : tt[i].sections # tt[i + 1].sections /\ tt[i].last <= tt[i + 1].first
      BY <2>2, <2>3, <3>1
    <3> QED
      BY <3>1, <3>4, <3>5
  <2>5. ASSUME ~SameHead(f, dev[f]) PROVE Chain(tt)
    <3>1. /\ Len(tt) = n + 1 /\ DOMAIN tt = 1..(n + 1)
          /\ \A i \in 1..n :
                /\ tt[i].sections = ss[i].sections /\ tt[i].first = ss[i].first /\ tt[i].last = ss[i].last
                /\ tt[i].count = ss[i].count /\ tt[i].current = FALSE
          /\ tt[n + 1] = NewSpan(f, dev[f])
          /\ n # 0 => ss[n].sections # Observation(f, dev[f]) /\ ss[n].last <= t
      BY <2>1, <2>2, <2>5, Opened
    <3>2. tt[n + 1].sections = Observation(f, dev[f]) /\ tt[n + 1].first = t /\ tt[n + 1].last = t /\ tt[n + 1].count = 1
          /\ tt[n + 1].current = TRUE
      BY <2>2, <3>1 DEF NewSpan
    <3>3. t \in Int
      BY <2>1, <2>2
    <3>4. Good(tt[n + 1])
      BY <3>2, <3>3
    <3>5. \A i \in 1..n : Good(tt[i])
      BY <2>3, <3>1
    <3>6. \A i \in 1..(n + 1) : (tt[i].current <=> i = n + 1) /\ Good(tt[i])
      BY <2>3, <3>1, <3>2, <3>4, <3>5
    <3>7. ASSUME NEW i \in 1..n PROVE tt[i].sections # tt[i + 1].sections /\ tt[i].last <= tt[i + 1].first
      <4>1. CASE i = n
        BY <2>3, <3>1, <3>2, <4>1
      <4>2. CASE i # n
        <5>1. i \in 1..(n - 1) /\ i + 1 \in 1..n
          BY <2>3, <4>2
        <5> QED
          BY <2>2, <2>3, <3>1, <5>1
      <4> QED
        BY <4>1, <4>2
    <3> QED
      BY <2>3, <3>1, <3>6, <3>7
  <2>6. Chain(tt)
    BY <2>4, <2>5
  <2>7. \A d \in Devices : spans'[d] = IF d = dev[f] THEN tt ELSE spans[d]
    BY <1>2, <2>2, RecordFacts
  <2> HIDE DEF Chain
  <2>8. \A d \in Devices : Chain(spans'[d])
    BY <1>0, <2>6, <2>7
  <2> QED
    BY <2>8 DEF Chain, SpansAreAChain
<1> QED
  BY <1>1, <1>2

\* Every step keeps the sum of the deltas what the tables show.
LEMMA ReplayStep == ASSUME IInv, [Next]_vars PROVE DeltasReplay'
<1> USE DEF IInv
<1>1. CASE ~\E f \in Frames : Record(f)
  BY <1>1, OnlyRecordWrites DEF DeltasReplay, Installed
<1>2. ASSUME NEW f \in Frames, Record(f) PROVE DeltasReplay'
  <2>1. PICK d \in Devices : d = dev[f]
    BY <1>2, WriterFacts DEF Record
  <2>2. row' = [row EXCEPT ![d] = RowAfter(f, d)] /\ told' = [told EXCEPT ![d] = Replayed(f, d)]
    BY <1>2, <2>1 DEF Record
  <2>3. told[d] = Installed(d) /\ RowAfter(f, d) # NoRow
    BY <1>2, <2>1, RecordFacts DEF DeltasReplay
  <2>4. Replayed(f, d) = RowAfter(f, d).apps
    BY <2>3 DEF Replayed
  <2>5. told'[d] = RowAfter(f, d).apps /\ row'[d] = RowAfter(f, d) /\ \A e \in Devices \ {d} : told'[e] = told[e] /\ row'[e] = row[e]
    BY <2>2, <2>4 DEF TypeOK
  <2> QED
    BY <2>3, <2>5 DEF DeltasReplay, Installed
<1> QED
  BY <1>1, <1>2

\* Every step keeps the snapshots on record.
LEMMA SnapshotStep == ASSUME IInv, [Next]_vars PROVE SnapshotIsASpan'
<1> USE DEF IInv
<1>1. ASSUME NEW f \in Frames, Record(f) PROVE SnapshotIsASpan'
  <2>1. PICK d \in Devices : d = dev[f]
    BY <1>1, WriterFacts DEF Record
  <2>2. PICK ss, tt : ss = Before(f) /\ tt = After(f)
    OBVIOUS
  <2>a. ss = spans[d]
    BY <2>1, <2>2 DEF Before
  <2>3. /\ DOMAIN tt = 1..Len(tt) /\ Len(tt) \in Nat \ {0} /\ tt[Len(tt)].sections = Observation(f, d)
        /\ \A i \in DOMAIN ss : i \in DOMAIN tt /\ tt[i].sections = ss[i].sections
    BY <1>1, <2>1, <2>2, SpansKeepSections
  <2>4. spans'[d] = tt /\ \A e \in Devices \ {d} : spans'[e] = spans[e]
    BY <1>1, <2>1, <2>2, RecordFacts
  <2>5. said' = said \cup {Snapshot(f, d)}
    BY <1>1, <2>1 DEF Record
  <2>6. Snapshot(f, d).device = d /\ Snapshot(f, d).sections = Observation(f, d)
    <3>1. "applications" \in Aperture[f] => CurrentRows(f, d) = Observation(f, d)["applications"]
      BY DEF CurrentRows, RowAfter, Read
    <3>2. Snapshot(f, d).device = d /\ Snapshot(f, d).sections = [s \in Aperture[f] |-> Observation(f, d)[s]]
      BY <3>1 DEF Snapshot
    <3>3. Observation(f, d) = [s \in Aperture[f] |-> Observation(f, d)[s]]
      BY DEF Observation
    <3> QED
      BY <3>2, <3>3
  <2>7. ASSUME NEW x \in said', x.pulled PROVE Recorded(x)'
    <3>1. CASE x = Snapshot(f, d)
      BY <2>3, <2>4, <2>6, <3>1 DEF Recorded
    <3>2. CASE x \in said /\ x.device = d
      <4>1. PICK i \in DOMAIN ss : ss[i].sections = x.sections
        BY <2>a, <2>7, <3>2 DEF SnapshotIsASpan, Recorded
      <4> QED
        BY <2>3, <2>4, <3>2, <4>1 DEF Recorded
    <3>3. CASE x \in said /\ x.device # d
      <4>1. x.device \in Devices
        BY <3>3 DEF TypeOK
      <4> QED
        BY <2>4, <2>7, <3>3, <4>1 DEF SnapshotIsASpan, Recorded
    <3> QED
      BY <2>5, <2>7, <3>1, <3>2, <3>3
  <2> QED
    BY <2>7 DEF SnapshotIsASpan
<1>2. ASSUME ~\E f \in Frames : Record(f), \A x \in said' : x \in said \/ ~x.pulled PROVE SnapshotIsASpan'
  BY <1>2, OnlyRecordWrites DEF SnapshotIsASpan, Recorded
<1>3. ASSUME NEW f \in Frames, Emit(f) PROVE \A x \in said' : x \in said \/ ~x.pulled
  BY <1>3 DEF Emit
<1>4. ASSUME ~\E f \in Frames : Record(f) \/ Emit(f) PROVE UNCHANGED said
  <2>1. CASE World
    BY <2>1 DEF World, Tick, MacReports, RecordEdited, tables
  <2>2. ASSUME NEW f \in Frames, Step(f) PROVE UNCHANGED said
    BY <1>4, <2>2 DEF Step, FetchPage, Open, Notice, Refresh, FetchOne, Lock, Busy, Compose, Settle, IgnoreStale, RollBack, tables
  <2>3. ASSUME NEW f \in Frames, Die(f) PROVE UNCHANGED said
    BY <2>3 DEF Die, tables
  <2>4. CASE UNCHANGED vars
    BY <2>4 DEF vars, tables
  <2> QED
    BY <2>1, <2>2, <2>3, <2>4 DEF Next
<1> QED
  BY <1>1, <1>2, <1>3, <1>4

-----------------------------------------------------------------------------

LEMMA InitIInv == Init => IInv
<1> SUFFICES ASSUME Init PROVE IInv
  OBVIOUS
<1> USE DEF Init
<1>0. <<>> \in Seq(Span) /\ Len(<<>>) = 0 /\ DOMAIN <<>> = {} /\ <<>> \in Pages
  <2>1. <<>> \in [{} -> Records] /\ {} \in SUBSET Devices
    OBVIOUS
  <2>2. <<>> \in Pages
    BY <2>1 DEF Pages
  <2>3. <<>> \in Seq(Span) /\ Len(<<>>) = 0 /\ DOMAIN <<>> = {}
    OBVIOUS
  <2> QED
    BY <2>2, <2>3
<1>1. jamf \in [Devices -> Records]
  <2>1. FirstRecords \subseteq Records
    BY FirstRecordsAssumption, BoundsAssumption DEF Records
  <2> QED
    BY <2>1
<1>2. NoRow \in Rows /\ Nobody \notin Readers
  BY FramesAssumption DEF Rows, Frames
<1>3. TypeOK
  <2>1. MaxClock \in Nat \ {0} /\ MaxRuns \in Nat
    BY BoundsAssumption
  <2>2. \A d \in Devices, f \in Readers : lock[d] = f <=> at[f] = "writing" /\ dev[f] = d
    BY <1>2 DEF Frames
  <2>3. \A d \in Devices : DOMAIN spans[d] = {}
    BY <1>0
  <2>4. \A f \in Frames : DOMAIN page[f] = {}
    BY <1>0
  <2>5. clock \in 1..MaxClock /\ left \in [Frames -> 0..MaxRuns]
    BY <2>1
  <2> QED
    BY <1>1, <1>2, <2>2, <2>3, <2>4, <2>5 DEF TypeOK
<1>4. Shapes
  BY <1>0, <1>2, Zenon DEF Shapes
<1>5. Placed
  BY <1>0 DEF Placed
<1>6. SpansAreAChain
  BY <1>0 DEF SpansAreAChain
<1>7. DeltasReplay
  BY DEF DeltasReplay, Installed
<1>8. SnapshotIsASpan
  BY DEF SnapshotIsASpan
<1> QED
  BY <1>3, <1>4, <1>5, <1>6, <1>7, <1>8 DEF IInv

\* The inductive invariant.
THEOREM Inductive == Spec => []IInv
<1>1. IInv /\ [Next]_vars => IInv'
  BY ShapesStep, PlacedStep, TypeStep, ChainStep, ReplayStep, SnapshotStep DEF IInv
<1> QED
  BY <1>1, InitIInv, PTL DEF Spec

\* Whatever sweeps, webhooks and refreshes of a Mac interleave, fail or die, its spans
\* are one chain in device time, the deltas on the wire add up to its tables, and every
\* snapshot an ingest sends is on record (record_observation, process_sync).
THEOREM LedgerIsSound == Spec => []LedgerSound
<1>1. IInv => LedgerSound
  BY DEF IInv, LedgerSound
<1> QED
  BY <1>1, Inductive, PTL

\* Both layers move together, closed spans stay and device time goes forward, in every
\* step of every interleaving (ingest_computer, the monotonic guard).
THEOREM LedgerMovesOn == Spec => LedgerMoves
<1> DEFINE Frozen == \A d \in Devices : \A i \in DOMAIN spans[d] :
                         ~spans[d][i].current => i \in DOMAIN spans'[d] /\ spans'[d][i] = spans[d][i]
           Forward == \A d \in Devices : spans[d] # <<>> =>
                          spans'[d] # <<>> /\ spans'[d][Len(spans'[d])].last >= spans[d][Len(spans[d])].last
           Together == \A d \in Devices : <<spans'[d], row'[d]>> # <<spans[d], row[d]>> =>
                           LET view == spans'[d][Len(spans'[d])].sections IN
                           /\ Agrees(row'[d], view) \/ Overtaken(d)
                           /\ row[d] # NoRow =>
                                  /\ "general" \notin DOMAIN view => row'[d].name = row[d].name
                                  /\ "applications" \notin DOMAIN view => row'[d].apps = row[d].apps
<1>1. ASSUME IInv, [Next]_vars PROVE Frozen /\ Forward /\ Together
  <2>1. CASE ~\E f \in Frames : Record(f)
    <3>1. UNCHANGED <<spans, row>>
      BY <1>1, <2>1, OnlyRecordWrites
    <3>2. \A d \in Devices : spans[d] # <<>> => spans[d][Len(spans[d])].last \in Int
      BY <1>1, CurrentIsLast DEF IInv, Span
    <3> QED
      BY <3>1, <3>2
  <2>2. ASSUME NEW f \in Frames, Record(f) PROVE Frozen /\ Forward /\ Together
    <3>1. PICK d \in Devices : d = dev[f]
      BY <1>1, <2>2, WriterFacts DEF Record
    <3>2. PICK ss, tt : ss = Before(f) /\ tt = After(f) /\ ss = spans[d]
      BY <3>1 DEF Before
    <3>3. spans'[d] = tt /\ row'[d] = RowAfter(f, d) /\ RowAfter(f, d) # NoRow
          /\ \A e \in Devices \ {d} : spans'[e] = spans[e] /\ row'[e] = row[e]
      <4>1. row' = [row EXCEPT ![d] = RowAfter(f, d)] /\ row \in [Devices -> Rows]
        BY <1>1, <2>2, <3>1 DEF Record, IInv, TypeOK
      <4>2. spans'[d] = tt /\ RowAfter(f, d) # NoRow /\ \A e \in Devices \ {d} : spans'[e] = spans[e]
        BY <1>1, <2>2, <3>1, <3>2, RecordFacts
      <4> QED
        BY <4>1, <4>2
    <3>4. /\ DOMAIN ss = 1..Len(ss) /\ DOMAIN tt = 1..Len(tt) /\ Len(ss) \in Nat /\ Len(tt) \in Nat \ {0}
          /\ \A i \in DOMAIN ss : i \in DOMAIN tt /\ (i # Len(ss) => tt[i] = ss[i])
          /\ tt[Len(tt)].sections = Observation(f, d)
          /\ ss # <<>> => ss[Len(ss)].last <= tt[Len(tt)].last
      BY <1>1, <2>2, <3>1, <3>2, SpansKeepSections
    <3>5. Frozen
      <4>1. \A i \in DOMAIN ss : ss[i].current <=> i = Len(ss)
        BY <1>1, <3>2 DEF IInv, SpansAreAChain
      <4> QED
        BY <3>2, <3>3, <3>4, <4>1
    <3>6. \A e \in Devices : spans[e] # <<>> => spans[e][Len(spans[e])].last \in Int
      BY <1>1, CurrentIsLast DEF IInv, Span
    <3>7. Forward
      <4>1. tt # <<>> /\ (ss # <<>> => tt[Len(tt)].last >= ss[Len(ss)].last)
        BY <3>4
      <4> QED
        BY <3>2, <3>3, <3>6, <4>1
    <3>8. /\ Agrees(row'[d], Observation(f, d)) \/ Overtaken(d)
          /\ row[d] # NoRow =>
                 /\ "general" \notin DOMAIN Observation(f, d) => row'[d].name = row[d].name
                 /\ "applications" \notin DOMAIN Observation(f, d) => row'[d].apps = row[d].apps
      <4>1. lock[d] = f /\ DOMAIN Observation(f, d) = Aperture[f] /\ f \in Readers
        BY <1>1, <2>2, <3>1, WriterFacts DEF Record
      <4>2. "general" \notin Aperture[f] /\ row[d] # NoRow => RowAfter(f, d).name = row[d].name
        BY DEF RowAfter, Read
      <4>3. "applications" \notin Aperture[f] /\ row[d] # NoRow => RowAfter(f, d).apps = row[d].apps
        BY DEF RowAfter, Read
      <4>4. "applications" \in Aperture[f] => RowAfter(f, d).apps = Observation(f, d)["applications"]
        BY DEF RowAfter, Read
      <4>5. "general" \in Aperture[f] => RowAfter(f, d).name = Assigned(f, d, Observation(f, d)["general"])
        BY DEF RowAfter, Read
      <4>6. Overtaken(d) \/ ("general" \in Aperture[f] => RowAfter(f, d).name = Observation(f, d)["general"])
        BY <4>1, <4>5 DEF Assigned, Overtaken
      <4> QED
        BY <3>3, <4>1, <4>2, <4>3, <4>4, <4>6 DEF Agrees
    <3>9. Together
      BY <3>3, <3>4, <3>8
    <3> QED
      BY <3>5, <3>7, <3>9
  <2> QED
    BY <2>1, <2>2
<1> HIDE DEF Frozen, Forward, Together
<1>2. ASSUME IInv, [Next]_vars PROVE [Frozen]_vars /\ [Forward]_vars /\ [Together]_vars
  BY <1>1, <1>2
<1>3. Spec => [][Frozen]_vars /\ [][Forward]_vars /\ [][Together]_vars
  BY <1>2, Inductive, PTL DEF Spec
<1> QED
  BY <1>3 DEF Frozen, Forward, Together, LedgerMoves, LayersMoveTogether, ClosedSpansFrozen, ObservedTimeForward

-----------------------------------------------------------------------------
(* Corpus: what a tenant answers from is held, whatever loads, cleans up    *)
(* and ingests meanwhile.                                                   *)

Tasks == [at: {"idle", "offered", "stored", "delivering", "granted", "rejudging"}, tenant: LibraryTenants \cup {NoTenant},
          signature: C!Maybe, current: C!Maybe, owed: SUBSET LibraryTenants]
Batches == [tenant: LibraryTenants \cup {NoTenant}, carried: SUBSET (Macs \X LibraryBuilds), builds: SUBSET LibraryBuilds,
            epoch: C!Maybe, rows: C!Maybe]

\* What TypeOK does not name.
CorpusShapes ==
    /\ tenantSelection \in BOOLEAN
    /\ DOMAIN grants = LibraryTenants /\ DOMAIN answers = LibraryTenants /\ DOMAIN copies = LibraryTenants
    /\ task \in [Exchanges -> Tasks]
    /\ sweep \in [Ingests -> Batches]
    /\ prune.retiring \in [LibraryTenants -> SUBSET Releases]

\* An exchange at work names a tenant and a release; under tenant selection none re-judges all.
TasksKept ==
    \A e \in Exchanges :
        /\ task[e].at # "idle" => task[e].tenant \in LibraryTenants /\ task[e].signature \in Releases
        /\ tenantSelection => task[e].at # "rejudging"

\* An open ingest knows the builds it will copy; under tenant selection it judges new builds
\* only, by the selected release, and no other ingest of that tenant is open.
SweepsKept ==
    \A s \in Ingests : LET w == sweep[s] IN
        w.tenant # NoTenant =>
            /\ \A c \in w.carried : c[2] \in w.builds \cup DOMAIN answers[w.tenant]
            /\ tenantSelection =>
                   /\ w.epoch = c_selection[w.tenant].signature /\ w.rows = w.epoch
                   /\ w.builds \cap DOMAIN answers[w.tenant] = {}
                   /\ \A o \in Ingests \ {s} : sweep[o].tenant # w.tenant

\* What an open cleanup is about to retire is selected by nobody.
PruneKept ==
    prune.at = "reading" => \A t \in LibraryTenants :
        /\ c_selection[t].signature \notin prune.retiring[t] /\ c_selection[t].previous \notin prune.retiring[t]
        /\ ~prune.retire => prune.retiring[t] = {}

\* What is granted is on disk.
GrantsKept == \A t \in LibraryTenants : DOMAIN grants[t] \subseteq DOMAIN archive

\* What is selected, and what was before, is granted.
SelectionsGranted ==
    \A t \in LibraryTenants : {c_selection[t].signature, c_selection[t].previous} \ {NoRelease} \subseteq DOMAIN grants[t]

CorpusInv ==
    /\ C!TypeOK /\ CorpusShapes /\ TasksKept /\ SweepsKept /\ PruneKept /\ GrantsKept
    /\ SelectionsGranted /\ C!AnswersFollowSelection

-----------------------------------------------------------------------------
\* The rows of a tenant and their copies have their shape, and follow a release.
Shaped(rows, owned) ==
    /\ DOMAIN rows \subseteq LibraryBuilds /\ \A b \in DOMAIN rows : rows[b] \in C!Answers
    /\ DOMAIN owned \subseteq Macs \X LibraryBuilds
    /\ \A c \in DOMAIN owned : owned[c] \in C!Answers /\ c[2] \in DOMAIN rows

Following(rows, owned, signature) ==
    /\ \A b \in DOMAIN rows : rows[b].signature = signature /\ C!Faithful(rows[b], b)
    /\ \A c \in DOMAIN owned : owned[c] = rows[c[2]]

LEMMA TypedRows ==
    ASSUME C!TypeOK, NEW t \in LibraryTenants
    PROVE  Shaped(answers[t], copies[t])
  BY DEF C!TypeOK, Shaped, C!Range

LEMMA RowsTyped ==
    ASSUME NEW rows, NEW owned, Shaped(rows, owned)
    PROVE  /\ DOMAIN rows \subseteq LibraryBuilds /\ C!Range(rows) \subseteq C!Answers
           /\ DOMAIN owned \subseteq Macs \X LibraryBuilds /\ C!Range(owned) \subseteq C!Answers
           /\ \A c \in DOMAIN owned : c[2] \in DOMAIN rows
  BY DEF Shaped, C!Range

\* What is judged is an answer, and faithful where the rows are the stamp's own.
LEMMA JudgedIsAnswer ==
    ASSUME NEW stamp \in C!Maybe, NEW rows \in C!Maybe, NEW b
    PROVE  /\ C!Judged(stamp, rows, b) \in C!Answers /\ C!Judged(stamp, rows, b).signature = stamp
           /\ rows = stamp => C!Faithful(C!Judged(stamp, rows, b), b)
  BY DEF C!Judged, C!Answers, C!Maybe, C!Faithful

\* A pass over a tenant's rows keeps their shape, and leaves them with the stamp's release.
LEMMA Rejudging ==
    ASSUME CorpusInv, NEW t \in LibraryTenants, NEW stamp \in C!Maybe
    PROVE  /\ Shaped(C!Rejudged(t, stamp), C!Copied(t, C!Rejudged(t, stamp)))
           /\ DOMAIN C!Rejudged(t, stamp) = DOMAIN answers[t]
           /\ tenantSelection => Following(C!Rejudged(t, stamp), C!Copied(t, C!Rejudged(t, stamp)), stamp)
<1> DEFINE rows == C!Rejudged(t, stamp)
           owned == C!Copied(t, rows)
<1>0. C!RowsOf(stamp) \in C!Maybe /\ (tenantSelection => C!RowsOf(stamp) = stamp)
  BY DEF CorpusInv, C!TypeOK, C!RowsOf
<1>1. Shaped(answers[t], copies[t])
  BY TypedRows DEF CorpusInv
<1>2. DOMAIN rows = DOMAIN answers[t] /\ DOMAIN owned = DOMAIN copies[t]
  BY DEF C!Rejudged, C!Copied
<1>3. \A b \in DOMAIN answers[t] :
          rows[b] = IF answers[t][b].signature # stamp THEN C!Judged(stamp, C!RowsOf(stamp), b) ELSE answers[t][b]
  BY DEF C!Rejudged
<1>4. \A c \in DOMAIN copies[t] :
          owned[c] = IF copies[t][c].signature # rows[c[2]].signature THEN rows[c[2]] ELSE copies[t][c]
  BY DEF C!Copied
<1> HIDE DEF rows, owned
<1>5. \A b \in DOMAIN answers[t] : rows[b] \in C!Answers /\ rows[b].signature = stamp
  BY <1>0, <1>1, <1>3, JudgedIsAnswer DEF Shaped
<1>6. Shaped(rows, owned)
  BY <1>1, <1>2, <1>4, <1>5 DEF Shaped
<1>7. ASSUME tenantSelection PROVE Following(rows, owned, stamp)
  <2>0. /\ \A b \in DOMAIN answers[t] : C!Faithful(answers[t][b], b)
        /\ \A c \in DOMAIN copies[t] : copies[t][c] = answers[t][c[2]]
    BY <1>7 DEF CorpusInv, C!AnswersFollowSelection
  <2>1. \A b \in DOMAIN answers[t] : C!Faithful(rows[b], b)
    BY <1>0, <1>3, <1>7, <2>0, JudgedIsAnswer
  <2>2. \A c \in DOMAIN copies[t] : c[2] \in DOMAIN answers[t]
    BY <1>1 DEF Shaped
  <2>3. \A c \in DOMAIN copies[t] : owned[c] = rows[c[2]]
    BY <1>3, <1>4, <1>5, <2>0, <2>2
  <2> QED
    BY <1>2, <1>5, <2>1, <2>3 DEF Following
<1> QED
  BY <1>2, <1>6, <1>7 DEF rows, owned

\* The passes over a tenant's rows: no build comes or goes, and under tenant selection all
\* ends under the stamp.
LEMMA RewriteStep ==
    ASSUME CorpusInv, NEW t \in LibraryTenants, NEW stamp \in C!Maybe, C!Rewrite(t, stamp)
    PROVE  /\ DOMAIN answers' = LibraryTenants /\ DOMAIN copies' = LibraryTenants
           /\ \A u \in LibraryTenants : Shaped(answers'[u], copies'[u]) /\ DOMAIN answers'[u] = DOMAIN answers[u]
           /\ \A u \in LibraryTenants \ {t} : answers'[u] = answers[u] /\ copies'[u] = copies[u]
           /\ tenantSelection => Following(answers'[t], copies'[t], stamp)
<1>1. /\ answers' = [answers EXCEPT ![t] = C!Rejudged(t, stamp)]
      /\ copies' = [copies EXCEPT ![t] = C!Copied(t, C!Rejudged(t, stamp))]
  BY DEF C!Rewrite
<1>2. DOMAIN answers = LibraryTenants /\ DOMAIN copies = LibraryTenants
  BY DEF CorpusInv, CorpusShapes
<1>3. answers'[t] = C!Rejudged(t, stamp) /\ copies'[t] = C!Copied(t, C!Rejudged(t, stamp))
  BY <1>1, <1>2
<1>4. \A u \in LibraryTenants \ {t} : answers'[u] = answers[u] /\ copies'[u] = copies[u]
  BY <1>1, <1>2
<1>5. \A u \in LibraryTenants : Shaped(answers[u], copies[u])
  BY TypedRows DEF CorpusInv
<1> QED
  BY <1>1, <1>2, <1>3, <1>4, <1>5, Rejudging

\* The invariant, tenant by tenant.
LEMMA ByTenant ==
    ASSUME CorpusShapes', DOMAIN answers' = LibraryTenants, DOMAIN copies' = LibraryTenants,
           pointer' \in Releases, library' \in C!Maybe, DOMAIN archive' \subseteq Releases, memory' \in [LibraryProcesses -> C!Maybe],
           \A t \in LibraryTenants : DOMAIN grants'[t] \subseteq Releases,
           c_selection' \in [LibraryTenants -> [signature : C!Maybe, previous : C!Maybe]],
           \A t \in LibraryTenants : Shaped(answers'[t], copies'[t]),
           tenantSelection' => \A t \in LibraryTenants : Following(answers'[t], copies'[t], c_selection'[t].signature)
    PROVE  C!TypeOK' /\ C!AnswersFollowSelection'
<1>1. \A t \in LibraryTenants :
          /\ DOMAIN answers'[t] \subseteq LibraryBuilds /\ C!Range(answers'[t]) \subseteq C!Answers
          /\ DOMAIN copies'[t] \subseteq Macs \X LibraryBuilds /\ C!Range(copies'[t]) \subseteq C!Answers
          /\ \A c \in DOMAIN copies'[t] : c[2] \in DOMAIN answers'[t]
  BY RowsTyped
<1>2. \A e \in Exchanges : task'[e].at \in {"idle", "offered", "stored", "delivering", "granted", "rejudging"}
  BY DEF CorpusShapes, Tasks
<1>3. C!TypeOK'
  BY <1>1, <1>2 DEF C!TypeOK
<1>4. C!AnswersFollowSelection'
  BY DEF C!AnswersFollowSelection, Following, C!Faithful
<1> QED
  BY <1>3, <1>4

-----------------------------------------------------------------------------
\* What no step of an exchange, a process or the world touches unless it says so.
LEMMA Untouched ==
    ASSUME CorpusInv, UNCHANGED <<tenantSelection, C!judged, C!tenancy>>,
           pointer' \in Releases, library' \in C!Maybe, memory' \in [LibraryProcesses -> C!Maybe],
           DOMAIN archive \subseteq DOMAIN archive', DOMAIN archive' \subseteq Releases,
           task' \in [Exchanges -> Tasks], TasksKept',
           sweep' \in [Ingests -> Batches], \A s \in Ingests : sweep'[s] = sweep[s] \/ sweep'[s].tenant = NoTenant,
           prune' = prune
    PROVE  CorpusInv'
<1> USE DEF C!judged, C!tenancy
<1>1. C!TypeOK' /\ CorpusShapes'
  BY DEF CorpusInv, C!TypeOK, CorpusShapes, Tasks
<1>2. SweepsKept'
  BY DEF CorpusInv, SweepsKept
<1>3. PruneKept' /\ GrantsKept'
  BY DEF CorpusInv, PruneKept, GrantsKept
<1>4. C!AnswersFollowSelection'
  BY DEF CorpusInv, C!AnswersFollowSelection, C!Faithful
<1>5. SelectionsGranted'
  BY DEF CorpusInv, SelectionsGranted
<1> QED
  BY <1>1, <1>2, <1>3, <1>4, <1>5 DEF CorpusInv

\* An archive only gains by an import.
LEMMA Retaining ==
    ASSUME NEW arch, DOMAIN arch \subseteq Releases, NEW sig \in C!Maybe, NEW stage
    PROVE  DOMAIN arch \subseteq DOMAIN C!Retained(arch, sig, stage) /\ DOMAIN C!Retained(arch, sig, stage) \subseteq Releases
  BY DEF C!Retained, C!Maybe

\* An exchange that goes on, ends or is ended stays one.
LEMMA TaskFrames ==
    ASSUME CorpusInv, NEW e \in Exchanges,
           \/ /\ task[e].at # "idle"
              /\ \E stage \in {"offered", "stored", "delivering", "granted"} : task' = [task EXCEPT ![e].at = stage]
           \/ task' = [task EXCEPT ![e] = C!Idle]
           \/ \E current \in C!Maybe : task' = [task EXCEPT ![e].current = current]
           \/ \E t \in LibraryTenants : task' = [task EXCEPT ![e].owed = @ \ {t}],
           tenantSelection' = tenantSelection
    PROVE  task' \in [Exchanges -> Tasks] /\ TasksKept'
<1>0. task \in [Exchanges -> Tasks] /\ TasksKept
  BY DEF CorpusInv, CorpusShapes
<1>1. CASE task[e].at # "idle" /\ \E stage \in {"offered", "stored", "delivering", "granted"} : task' = [task EXCEPT ![e].at = stage]
  <2>1. PICK stage \in {"offered", "stored", "delivering", "granted"} : task' = [task EXCEPT ![e].at = stage]
    BY <1>1
  <2>2. [task[e] EXCEPT !.at = stage] \in Tasks /\ task' = [task EXCEPT ![e] = [task[e] EXCEPT !.at = stage]]
    BY <1>0, <2>1 DEF Tasks
  <2>3. [task[e] EXCEPT !.at = stage].at = stage /\ [task[e] EXCEPT !.at = stage].tenant = task[e].tenant
        /\ [task[e] EXCEPT !.at = stage].signature = task[e].signature
    BY <1>0 DEF Tasks
  <2>4. task[e].tenant \in LibraryTenants /\ task[e].signature \in Releases
    BY <1>0, <1>1 DEF TasksKept
  <2> HIDE DEF Tasks
  <2> QED
    BY <1>0, <2>1, <2>2, <2>3, <2>4 DEF TasksKept
<1>2. CASE task' = [task EXCEPT ![e] = C!Idle]
  <2>1. C!Idle \in Tasks /\ C!Idle.at = "idle"
    BY DEF C!Idle, Tasks, C!Maybe
  <2> HIDE DEF Tasks
  <2> QED
    BY <1>0, <1>2, <2>1 DEF TasksKept
<1>3. ASSUME NEW current \in C!Maybe, task' = [task EXCEPT ![e].current = current] PROVE task' \in [Exchanges -> Tasks] /\ TasksKept'
  <2>1. [task[e] EXCEPT !.current = current] \in Tasks /\ task' = [task EXCEPT ![e] = [task[e] EXCEPT !.current = current]]
    BY <1>0, <1>3 DEF Tasks
  <2>2. \A f \in Exchanges : task'[f].at = task[f].at /\ task'[f].tenant = task[f].tenant /\ task'[f].signature = task[f].signature
    BY <1>0, <1>3 DEF Tasks
  <2> HIDE DEF Tasks
  <2> QED
    BY <1>0, <2>1, <2>2 DEF TasksKept
<1>4. ASSUME NEW t \in LibraryTenants, task' = [task EXCEPT ![e].owed = @ \ {t}] PROVE task' \in [Exchanges -> Tasks] /\ TasksKept'
  <2>1. [task[e] EXCEPT !.owed = @ \ {t}] \in Tasks /\ task' = [task EXCEPT ![e] = [task[e] EXCEPT !.owed = @ \ {t}]]
    BY <1>0, <1>4 DEF Tasks
  <2>2. \A f \in Exchanges : task'[f].at = task[f].at /\ task'[f].tenant = task[f].tenant /\ task'[f].signature = task[f].signature
    BY <1>0, <1>4 DEF Tasks
  <2> HIDE DEF Tasks
  <2> QED
    BY <1>0, <2>1, <2>2 DEF TasksKept
<1> QED
  BY <1>1, <1>2, <1>3, <1>4

\* The steps of an exchange that move neither a grant nor an answer.
LEMMA ImportSteps ==
    ASSUME C!CorpusAssumption, CorpusInv, NEW e \in Exchanges,
           \/ \E t \in LibraryTenants : C!BeginDelivery(e, t)
           \/ C!Unmoved(e) \/ C!StoreEpoch(e) \/ C!RefuseEpoch(e) \/ C!InstallCorpus(e) \/ C!AssessmentFails(e)
           \/ \E t \in LibraryTenants : C!RejudgeFails(e, t)
    PROVE  CorpusInv'
<1> USE DEF C!bounds, C!store
<1>0. /\ task[e] \in Tasks /\ (task[e].at # "idle" => task[e].tenant \in LibraryTenants /\ task[e].signature \in Releases)
      /\ library \in C!Maybe /\ pointer \in Releases /\ memory \in [LibraryProcesses -> C!Maybe] /\ DOMAIN archive \subseteq Releases
      /\ sweep \in [Ingests -> Batches] /\ task \in [Exchanges -> Tasks] /\ TaskHome[e] \in LibraryProcesses
  BY DEF C!CorpusAssumption, CorpusInv, CorpusShapes, TasksKept, C!TypeOK
<1>1. ASSUME NEW t \in LibraryTenants, C!BeginDelivery(e, t) PROVE CorpusInv'
  <2> DEFINE begun == [task[e] EXCEPT !.at = "offered", !.tenant = t, !.signature = pointer, !.current = library]
  <2>1. task' = [task EXCEPT ![e] = begun]
        /\ UNCHANGED <<tenantSelection, pointer, library, archive, memory, C!tenancy, C!judged, sweep, prune>>
    BY <1>1 DEF C!BeginDelivery
  <2>2. begun \in Tasks /\ begun.at = "offered" /\ begun.tenant = t /\ begun.signature = pointer
    BY <1>0 DEF Tasks, C!Maybe
  <2> HIDE DEF begun
  <2>3. task' \in [Exchanges -> Tasks]
    BY <1>0, <2>1, <2>2
  <2>4. TasksKept'
    BY <1>0, <2>1, <2>2 DEF CorpusInv, TasksKept
  <2> QED
    BY <1>0, <2>1, <2>3, <2>4, Untouched
<1>2. CASE C!Unmoved(e)
  <2>1. task' \in [Exchanges -> Tasks] /\ TasksKept'
    BY <1>0, <1>2, TaskFrames DEF C!Unmoved, C!Finish, C!Step
  <2>2. DOMAIN archive \subseteq DOMAIN archive' /\ DOMAIN archive' \subseteq Releases
    BY <1>0, <1>2, Retaining DEF C!Unmoved
  <2>3. UNCHANGED <<tenantSelection, pointer, library, memory, C!tenancy, C!judged, sweep, prune>>
    BY <1>2 DEF C!Unmoved
  <2> QED
    BY <1>0, <2>1, <2>2, <2>3, Untouched
<1>3. CASE C!StoreEpoch(e)
  <2>1. task' \in [Exchanges -> Tasks] /\ TasksKept'
    BY <1>3, TaskFrames DEF C!StoreEpoch, C!Step
  <2>2. task[e].signature \in Releases /\ library' \in C!Maybe
    BY <1>0, <1>3 DEF C!StoreEpoch, C!Maybe
  <2>3. DOMAIN archive \subseteq DOMAIN archive' /\ DOMAIN archive' \subseteq Releases
    <3> DEFINE first == C!Retained(archive, library, loadedAt)
    <3>1. DOMAIN archive \subseteq DOMAIN first /\ DOMAIN first \subseteq Releases
      BY <1>0, Retaining
    <3> HIDE DEF first
    <3>2. DOMAIN first \subseteq DOMAIN C!Retained(first, task[e].signature, c_now)
          /\ DOMAIN C!Retained(first, task[e].signature, c_now) \subseteq Releases
      BY <2>2, <3>1, Retaining DEF C!Maybe
    <3>3. archive' = IF tenantSelection THEN C!Retained(first, task[e].signature, c_now) ELSE archive
      BY <1>3 DEF C!StoreEpoch, first
    <3> QED
      BY <1>0, <3>1, <3>2, <3>3
  <2>4. UNCHANGED <<tenantSelection, pointer, memory, C!tenancy, C!judged, sweep, prune>>
    BY <1>3 DEF C!StoreEpoch
  <2> QED
    BY <1>0, <2>1, <2>2, <2>3, <2>4, Untouched
<1>4. CASE C!RefuseEpoch(e) \/ C!AssessmentFails(e)
  <2>1. task' \in [Exchanges -> Tasks] /\ TasksKept'
    BY <1>4, TaskFrames DEF C!RefuseEpoch, C!AssessmentFails, C!Step, C!Finish
  <2>2. UNCHANGED <<tenantSelection, pointer, library, archive, memory, C!tenancy, C!judged, sweep, prune>>
    BY <1>4 DEF C!RefuseEpoch, C!AssessmentFails
  <2> QED
    BY <1>0, <2>1, <2>2, Untouched
<1>5. CASE C!InstallCorpus(e)
  <2> DEFINE installed == [task[e] EXCEPT !.at = IF tenantSelection THEN "delivering" ELSE "rejudging",
                                          !.owed = IF tenantSelection THEN {} ELSE LibraryTenants]
  <2>1. /\ task' = [task EXCEPT ![e] = installed] /\ memory' = [memory EXCEPT ![TaskHome[e]] = task[e].signature]
        /\ UNCHANGED <<tenantSelection, pointer, library, archive, C!tenancy, C!judged, sweep, prune>>
    BY <1>0, <1>5 DEF C!InstallCorpus, Tasks
  <2>2. /\ installed \in Tasks /\ installed.tenant = task[e].tenant /\ installed.signature = task[e].signature
        /\ (tenantSelection => installed.at # "rejudging")
    BY <1>0 DEF Tasks
  <2>3. task[e].tenant \in LibraryTenants /\ task[e].signature \in Releases
    BY <1>0, <1>5 DEF C!InstallCorpus
  <2> HIDE DEF installed
  <2>4. task' \in [Exchanges -> Tasks]
    BY <1>0, <2>1, <2>2
  <2>5. TasksKept'
    BY <1>0, <2>1, <2>2, <2>3 DEF CorpusInv, TasksKept
  <2>6. memory' \in [LibraryProcesses -> C!Maybe]
    BY <1>0, <2>1, <2>3 DEF C!Maybe
  <2> QED
    BY <1>0, <2>1, <2>4, <2>5, <2>6, Untouched
<1>6. ASSUME NEW t \in LibraryTenants, C!RejudgeFails(e, t) PROVE CorpusInv'
  <2>1. task' \in [Exchanges -> Tasks] /\ TasksKept'
    BY <1>6, TaskFrames DEF C!RejudgeFails, C!Finish
  <2>2. UNCHANGED <<tenantSelection, pointer, library, archive, memory, C!tenancy, C!judged, sweep, prune>>
    BY <1>6 DEF C!RejudgeFails
  <2> QED
    BY <1>0, <2>1, <2>2, Untouched
<1> QED
  BY <1>1, <1>2, <1>3, <1>4, <1>5, <1>6

\* A process that dies, the publisher, the clock.
LEMMA ReleaseSteps ==
    ASSUME C!CorpusAssumption, CorpusInv,
           (\E p \in LibraryProcesses : C!Crash(p)) \/ (\E r \in Releases : C!MovePointer(r)) \/ C!Tick
    PROVE  CorpusInv'
<1> USE DEF C!bounds, C!store
<1>0. /\ library \in C!Maybe /\ pointer \in Releases /\ memory \in [LibraryProcesses -> C!Maybe] /\ DOMAIN archive \subseteq Releases
      /\ sweep \in [Ingests -> Batches] /\ task \in [Exchanges -> Tasks] /\ TasksKept
  BY DEF CorpusInv, CorpusShapes, C!TypeOK
<1>1. ASSUME NEW p \in LibraryProcesses, C!Crash(p) PROVE CorpusInv'
  <2>0. C!Idle \in Tasks /\ C!Idle.at = "idle" /\ C!Resting \in Batches /\ C!Resting.tenant = NoTenant
    BY DEF C!Idle, Tasks, C!Resting, Batches, C!Maybe
  <2>1. /\ memory' = [memory EXCEPT ![p] = library]
        /\ task' = [e \in Exchanges |-> IF TaskHome[e] = p THEN C!Idle ELSE task[e]]
        /\ sweep' = [s \in Ingests |-> IF TaskHome[s] = p THEN C!Resting ELSE sweep[s]]
        /\ UNCHANGED <<tenantSelection, pointer, library, archive, C!tenancy, C!judged, prune>>
    BY <1>1 DEF C!Crash
  <2>2. memory' \in [LibraryProcesses -> C!Maybe] /\ task' \in [Exchanges -> Tasks] /\ sweep' \in [Ingests -> Batches]
    BY <1>0, <2>0, <2>1
  <2>3. TasksKept'
    BY <1>0, <2>0, <2>1 DEF TasksKept
  <2>4. \A s \in Ingests : sweep'[s] = sweep[s] \/ sweep'[s].tenant = NoTenant
    BY <2>0, <2>1
  <2> QED
    BY <1>0, <2>1, <2>2, <2>3, <2>4, Untouched
<1>2. CASE (\E r \in Releases : C!MovePointer(r)) \/ C!Tick
  <2>1. pointer' \in Releases /\ UNCHANGED <<tenantSelection, library, archive, memory, C!tenancy, C!judged, task, sweep, prune>>
    BY <1>0, <1>2 DEF C!MovePointer, C!Tick
  <2>2. TasksKept'
    BY <1>0, <2>1 DEF TasksKept
  <2> QED
    BY <1>0, <2>1, <2>2, Untouched
<1> QED
  BY <1>1, <1>2

\* A pass over a tenant's rows, with a selection that stays or moves to what is granted.
LEMMA Reassessing ==
    ASSUME CorpusInv, NEW t \in LibraryTenants, NEW stamp \in C!Maybe, C!Rewrite(t, stamp),
           UNCHANGED <<tenantSelection, pointer, library, archive, memory, grants, sweep, prune>>,
           task' \in [Exchanges -> Tasks], TasksKept',
           NEW chosen \in [signature : C!Maybe, previous : C!Maybe], c_selection' = [c_selection EXCEPT ![t] = chosen],
           tenantSelection => chosen.signature = stamp,
           \/ chosen = c_selection[t]
           \/ C!TenantFree(t) /\ {chosen.signature, chosen.previous} \ {NoRelease} \subseteq DOMAIN grants[t]
    PROVE  CorpusInv'
<1>0. c_selection \in [LibraryTenants -> [signature : C!Maybe, previous : C!Maybe]]
  BY DEF CorpusInv, C!TypeOK
<1>1. /\ c_selection' \in [LibraryTenants -> [signature : C!Maybe, previous : C!Maybe]]
      /\ c_selection'[t] = chosen /\ \A u \in LibraryTenants \ {t} : c_selection'[u] = c_selection[u]
  BY <1>0
<1>2. /\ DOMAIN answers' = LibraryTenants /\ DOMAIN copies' = LibraryTenants
      /\ \A u \in LibraryTenants : Shaped(answers'[u], copies'[u]) /\ DOMAIN answers'[u] = DOMAIN answers[u]
      /\ \A u \in LibraryTenants \ {t} : answers'[u] = answers[u] /\ copies'[u] = copies[u]
      /\ tenantSelection => Following(answers'[t], copies'[t], stamp)
  BY RewriteStep
<1>3. CorpusShapes'
  BY <1>2 DEF CorpusInv, CorpusShapes, Batches, Tasks
<1>4. tenantSelection' => \A u \in LibraryTenants : Following(answers'[u], copies'[u], c_selection'[u].signature)
  BY <1>1, <1>2 DEF CorpusInv, C!AnswersFollowSelection, Following, C!Faithful
<1>5. C!TypeOK' /\ C!AnswersFollowSelection'
  BY <1>1, <1>2, <1>3, <1>4, ByTenant DEF CorpusInv, C!TypeOK
<1>6. SweepsKept'
  <2>1. CASE chosen = c_selection[t]
    BY <1>0, <1>1, <1>2, <2>1 DEF CorpusInv, SweepsKept, CorpusShapes, Batches
  <2>2. CASE C!TenantFree(t)
    <3>1. \A s \in Ingests : tenantSelection => sweep[s].tenant # t
      BY <2>2 DEF C!TenantFree
    <3> QED
      BY <1>1, <1>2, <3>1 DEF CorpusInv, SweepsKept, CorpusShapes, Batches
  <2> QED
    BY <2>1, <2>2
<1>7. PruneKept'
  <2>1. CASE chosen = c_selection[t]
    BY <1>0, <1>1, <2>1 DEF CorpusInv, PruneKept
  <2>2. CASE C!TenantFree(t)
    <3>1. prune.at = "reading" => ~prune.retire
      BY <2>2 DEF C!TenantFree
    <3> QED
      BY <3>1 DEF CorpusInv, PruneKept
  <2> QED
    BY <2>1, <2>2
<1>8. GrantsKept'
  BY DEF CorpusInv, GrantsKept
<1>9. SelectionsGranted'
  BY <1>0, <1>1 DEF CorpusInv, SelectionsGranted
<1> QED
  BY <1>3, <1>5, <1>6, <1>7, <1>8, <1>9 DEF CorpusInv

\* Every writer of whole tenants: an exchange that re-judges or selects, the first
\* selection, the hourly refresh.
LEMMA WriterSteps ==
    ASSUME C!CorpusAssumption, CorpusInv,
           \/ \E e \in Exchanges : C!Select(e) \/ \E t \in LibraryTenants : C!RejudgeTenant(e, t)
           \/ \E t \in LibraryTenants : C!Bootstrap(t)
           \/ \E p \in LibraryProcesses, t \in LibraryTenants : C!Refresh(p, t)
    PROVE  CorpusInv'
<1> USE DEF C!bounds, C!store
<1>0. /\ memory \in [LibraryProcesses -> C!Maybe] /\ c_selection \in [LibraryTenants -> [signature : C!Maybe, previous : C!Maybe]]
      /\ task \in [Exchanges -> Tasks] /\ TasksKept /\ \A t \in LibraryTenants : DOMAIN grants[t] \subseteq Releases
  BY DEF CorpusInv, CorpusShapes, C!TypeOK
<1>1. ASSUME NEW e \in Exchanges, NEW t \in LibraryTenants, C!RejudgeTenant(e, t) PROVE CorpusInv'
  <2>1. /\ C!Rewrite(t, memory[TaskHome[e]])
        /\ UNCHANGED <<tenantSelection, pointer, library, archive, memory, grants, c_selection, sweep, prune>>
    BY <1>1 DEF C!RejudgeTenant, C!tenancy
  <2>2. task' \in [Exchanges -> Tasks] /\ TasksKept'
    BY <1>1, <2>1, TaskFrames DEF C!RejudgeTenant, C!Finish
  <2>3. memory[TaskHome[e]] \in C!Maybe /\ ~tenantSelection
    BY <1>0, <1>1 DEF C!CorpusAssumption, CorpusInv, CorpusShapes, TasksKept, C!RejudgeTenant
  <2>4. c_selection' = [c_selection EXCEPT ![t] = c_selection[t]]
    BY <1>0, <2>1
  <2> QED
    BY <1>0, <2>1, <2>2, <2>3, <2>4, Reassessing
<1>2. ASSUME NEW e \in Exchanges, C!Select(e) PROVE CorpusInv'
  <2> DEFINE t == task[e].tenant
             sig == task[e].signature
             chosen == [signature |-> sig, previous |-> c_selection[t].signature]
  <2>0. t \in LibraryTenants /\ sig \in Releases
    BY <1>0, <1>2 DEF TasksKept, C!Select
  <2>1. C!TenantFree(t) /\ UNCHANGED <<tenantSelection, pointer, library, archive, memory, grants, sweep, prune>>
    BY <1>2 DEF C!Select
  <2>2. task' \in [Exchanges -> Tasks] /\ TasksKept'
    BY <1>2, <2>1, TaskFrames DEF C!Select, C!Finish
  <2>3. CASE UNCHANGED <<C!judged, c_selection>>
    <3>1. \A s \in Ingests : sweep'[s] = sweep[s]
      BY <2>1
    <3> QED
      BY <2>1, <2>2, <2>3, <3>1, Untouched DEF C!tenancy, CorpusInv, C!TypeOK, CorpusShapes
  <2>4. CASE /\ sig \in DOMAIN grants[t] /\ C!Rewrite(t, sig)
             /\ c_selection' = [c_selection EXCEPT ![t] = [signature |-> sig, previous |-> @.signature]]
    <3>1. c_selection' = [c_selection EXCEPT ![t] = chosen] /\ chosen \in [signature : C!Maybe, previous : C!Maybe] /\ sig \in C!Maybe
      BY <1>0, <2>0, <2>4 DEF C!Maybe
    <3>2. {chosen.signature, chosen.previous} \ {NoRelease} \subseteq DOMAIN grants[t] /\ chosen.signature = sig
      BY <2>0, <2>4 DEF CorpusInv, SelectionsGranted
    <3> HIDE DEF chosen
    <3> QED
      BY <2>0, <2>1, <2>2, <2>4, <3>1, <3>2, Reassessing
  <2> QED
    BY <1>2, <2>3, <2>4 DEF C!Select
<1>3. ASSUME NEW t \in LibraryTenants, C!Bootstrap(t) PROVE CorpusInv'
  <2>1. PICK r \in C!Newest(t) : C!Rewrite(t, r) /\ c_selection' = [c_selection EXCEPT ![t].signature = r]
    BY <1>3 DEF C!Bootstrap
  <2> DEFINE chosen == [signature |-> r, previous |-> NoRelease]
  <2>2. r \in DOMAIN grants[t] /\ r \in C!Maybe
    BY <1>0, <2>1 DEF C!Newest, C!Maybe
  <2>3. /\ C!TenantFree(t) /\ c_selection[t] = [signature |-> NoRelease, previous |-> NoRelease]
        /\ UNCHANGED <<tenantSelection, pointer, library, archive, memory, grants, task, sweep, prune>>
    BY <1>3 DEF C!Bootstrap, C!Unselected
  <2>4. c_selection' = [c_selection EXCEPT ![t] = chosen]
    <3>1. [c_selection[t] EXCEPT !.signature = r] = chosen
      BY <2>3
    <3>2. c_selection' = [c_selection EXCEPT ![t] = [c_selection[t] EXCEPT !.signature = r]]
      BY <1>0, <2>1
    <3> QED
      BY <3>1, <3>2
  <2>5. /\ chosen \in [signature : C!Maybe, previous : C!Maybe] /\ chosen.signature = r
        /\ {chosen.signature, chosen.previous} \ {NoRelease} \subseteq DOMAIN grants[t]
    BY <2>2 DEF C!Maybe
  <2>6. TasksKept' /\ task' \in [Exchanges -> Tasks]
    BY <1>0, <2>3 DEF TasksKept
  <2>7. C!Rewrite(t, r) /\ C!TenantFree(t)
    BY <2>1, <2>3
  <2>8. UNCHANGED <<tenantSelection, pointer, library, archive, memory, grants, sweep, prune>>
    BY <2>3
  <2> HIDE DEF chosen
  <2> QED
    BY <2>2, <2>4, <2>5, <2>6, <2>7, <2>8, Reassessing
<1>4. ASSUME NEW p \in LibraryProcesses, NEW t \in LibraryTenants, C!Refresh(p, t) PROVE CorpusInv'
  <2>1. /\ C!Rewrite(t, C!Serving(p, t))
        /\ UNCHANGED <<tenantSelection, pointer, library, archive, memory, grants, c_selection, task, sweep, prune>>
    BY <1>4 DEF C!Refresh, C!tenancy
  <2>2. C!Serving(p, t) \in C!Maybe /\ (tenantSelection => C!Serving(p, t) = c_selection[t].signature)
    BY <1>0 DEF C!Serving, C!Selected
  <2>3. TasksKept' /\ c_selection' = [c_selection EXCEPT ![t] = c_selection[t]]
    BY <1>0, <2>1 DEF TasksKept
  <2> QED
    BY <1>0, <2>1, <2>2, <2>3, Reassessing
<1> QED
  BY <1>1, <1>2, <1>3, <1>4

\* A grant: of a release that is on disk, while no cleanup retires.
LEMMA GrantStep == ASSUME CorpusInv, NEW e \in Exchanges, C!Grant(e) PROVE CorpusInv'
<1> USE DEF C!bounds, C!store, C!judged
<1> DEFINE t == task[e].tenant
           sig == task[e].signature
<1>0. t \in LibraryTenants /\ sig \in Releases /\ DOMAIN grants = LibraryTenants
  BY DEF CorpusInv, CorpusShapes, TasksKept, C!Grant
<1>1. UNCHANGED <<tenantSelection, pointer, library, archive, memory, c_selection, answers, copies, sweep, prune>>
  BY DEF C!Grant
<1>2. task' \in [Exchanges -> Tasks] /\ TasksKept'
  BY <1>1, TaskFrames DEF C!Grant, C!Step, C!Finish
<1>3. /\ DOMAIN grants' = LibraryTenants
      /\ \A u \in LibraryTenants : DOMAIN grants'[u] = DOMAIN grants[u]
             \/ (sig \in DOMAIN archive /\ DOMAIN grants'[u] = DOMAIN grants[u] \cup {sig})
  <2>1. CASE grants' = grants
    BY <1>0, <2>1
  <2>2. CASE /\ sig \in DOMAIN archive
             /\ grants' = [grants EXCEPT ![t] = [r \in DOMAIN @ \cup {sig} |-> IF r = sig THEN c_now ELSE @[r]]]
    BY <1>0, <2>2
  <2> QED
    BY <2>1, <2>2 DEF C!Grant
<1>4. C!TypeOK' /\ CorpusShapes'
  BY <1>0, <1>1, <1>2, <1>3 DEF CorpusInv, C!TypeOK, CorpusShapes, Tasks
<1>5. GrantsKept' /\ SelectionsGranted'
  BY <1>1, <1>3 DEF CorpusInv, GrantsKept, SelectionsGranted
<1>6. SweepsKept' /\ PruneKept'
  BY <1>1 DEF CorpusInv, SweepsKept, PruneKept
<1>7. C!AnswersFollowSelection'
  BY <1>1 DEF CorpusInv, C!AnswersFollowSelection, C!Faithful
<1> QED
  BY <1>2, <1>4, <1>5, <1>6, <1>7 DEF CorpusInv

\* An ingest opens: it will judge what nobody judged by this stamp, and copy what it carries.
LEMMA JudgeStep ==
    ASSUME C!CorpusAssumption, CorpusInv, NEW s \in Ingests, NEW t \in LibraryTenants, NEW d \in Macs,
           NEW B \in SUBSET LibraryBuilds, C!JudgeDevice(s, t, d, B)
    PROVE  CorpusInv'
<1> USE DEF C!bounds, C!store, C!judged, C!tenancy
<1> DEFINE stamp == C!Serving(TaskHome[s], t)
           stale == {b \in B : b \in DOMAIN answers[t] => answers[t][b].signature # stamp}
           batch == [tenant |-> t, carried |-> {d} \X B, builds |-> stale, epoch |-> stamp, rows |-> C!RowsOf(stamp)]
<1>0. stamp \in C!Maybe /\ C!RowsOf(stamp) \in C!Maybe
      /\ (tenantSelection => stamp = c_selection[t].signature /\ C!RowsOf(stamp) = stamp)
  BY DEF C!CorpusAssumption, CorpusInv, C!TypeOK, C!Serving, C!Selected, C!RowsOf
<1>1. /\ sweep' = [sweep EXCEPT ![s] = batch] /\ C!TenantFree(t)
      /\ UNCHANGED <<tenantSelection, pointer, library, archive, memory, grants, c_selection, answers, copies, task, prune>>
  BY DEF C!JudgeDevice
<1>2. batch \in Batches
  BY <1>0 DEF Batches
<1>3. /\ batch.tenant = t /\ batch.epoch = stamp /\ batch.rows = C!RowsOf(stamp) /\ batch.builds = stale
      /\ \A c \in batch.carried : c[2] \in B
  OBVIOUS
<1>4. tenantSelection => stale \cap DOMAIN answers[t] = {}
  BY <1>0 DEF CorpusInv, C!AnswersFollowSelection
<1>5. B \subseteq stale \cup DOMAIN answers[t]
  OBVIOUS
<1> HIDE DEF batch, stale, stamp
<1>6. sweep \in [Ingests -> Batches]
  BY DEF CorpusInv, CorpusShapes
<1>7. /\ sweep' \in [Ingests -> Batches] /\ sweep'[s] = batch /\ \A o \in Ingests \ {s} : sweep'[o] = sweep[o]
  BY <1>1, <1>2, <1>6
<1>8. tenantSelection => \A o \in Ingests : sweep[o].tenant # t
  BY <1>1 DEF C!TenantFree
<1>9. SweepsKept'
  <2> SUFFICES ASSUME NEW o \in Ingests, sweep'[o].tenant # NoTenant
               PROVE  /\ \A c \in sweep'[o].carried : c[2] \in sweep'[o].builds \cup DOMAIN answers[sweep'[o].tenant]
                      /\ tenantSelection =>
                             /\ sweep'[o].epoch = c_selection[sweep'[o].tenant].signature /\ sweep'[o].rows = sweep'[o].epoch
                             /\ sweep'[o].builds \cap DOMAIN answers[sweep'[o].tenant] = {}
                             /\ \A x \in Ingests \ {o} : sweep'[x].tenant # sweep'[o].tenant
    BY <1>1 DEF SweepsKept
  <2>1. CASE o = s
    BY <1>0, <1>3, <1>4, <1>5, <1>7, <1>8, <2>1
  <2>2. CASE o # s
    BY <1>3, <1>7, <1>8, <2>2 DEF CorpusInv, SweepsKept
  <2> QED
    BY <2>1, <2>2
<1>10. C!TypeOK' /\ CorpusShapes'
  BY <1>1, <1>7 DEF CorpusInv, C!TypeOK, CorpusShapes
<1>11. TasksKept' /\ PruneKept' /\ GrantsKept' /\ SelectionsGranted'
  BY <1>1 DEF CorpusInv, TasksKept, PruneKept, GrantsKept, SelectionsGranted
<1>12. C!AnswersFollowSelection'
  BY <1>1 DEF CorpusInv, C!AnswersFollowSelection, C!Faithful
<1> QED
  BY <1>9, <1>10, <1>11, <1>12 DEF CorpusInv

\* An ingest commits: what it judged is judged by the release it read, and its device's
\* copies follow.
LEMMA CommitDeviceStep == ASSUME C!CorpusAssumption, CorpusInv, NEW s \in Ingests, C!CommitDevice(s) PROVE CorpusInv'
<1> USE DEF C!bounds, C!store, C!tenancy
<1> DEFINE w == sweep[s]
           t == w.tenant
           A == answers[t]
           K == copies[t]
           rows == [b \in DOMAIN A \cup w.builds |-> IF b \in w.builds THEN C!Judged(w.epoch, w.rows, b) ELSE A[b]]
           owned == [c \in DOMAIN K \cup w.carried |->
                       IF c \in w.carried /\ (c \in DOMAIN K => c[2] \in w.builds \/ K[c].signature # rows[c[2]].signature)
                       THEN rows[c[2]] ELSE K[c]]
<1>0. /\ sweep \in [Ingests -> Batches] /\ DOMAIN answers = LibraryTenants /\ DOMAIN copies = LibraryTenants
      /\ w \in Batches /\ t # NoTenant
  BY DEF CorpusInv, CorpusShapes, C!CommitDevice
<1>1. t \in LibraryTenants /\ w.carried \in SUBSET (Macs \X LibraryBuilds) /\ w.builds \in SUBSET LibraryBuilds /\ w.epoch \in C!Maybe /\ w.rows \in C!Maybe
  BY <1>0 DEF Batches
<1>2. /\ \A c \in w.carried : c[2] \in w.builds \cup DOMAIN A
      /\ tenantSelection =>
             /\ w.epoch = c_selection[t].signature /\ w.rows = w.epoch
             /\ w.builds \cap DOMAIN A = {}
             /\ \A o \in Ingests \ {s} : sweep[o].tenant # t
  BY <1>0 DEF CorpusInv, SweepsKept
<1>3. Shaped(A, K)
  BY <1>1, TypedRows DEF CorpusInv
<1>4. /\ answers' = [answers EXCEPT ![t] = rows] /\ copies' = [copies EXCEPT ![t] = owned]
      /\ sweep' = [sweep EXCEPT ![s] = C!Resting]
      /\ UNCHANGED <<tenantSelection, pointer, library, archive, memory, grants, c_selection, task, prune>>
  BY <1>0, <1>1 DEF C!CommitDevice
<1>5. /\ DOMAIN rows = DOMAIN A \cup w.builds
      /\ \A b \in w.builds : rows[b] = C!Judged(w.epoch, w.rows, b)
      /\ \A b \in DOMAIN A \ w.builds : rows[b] = A[b]
  BY SMTT(30)
<1>6. /\ DOMAIN owned = DOMAIN K \cup w.carried
      /\ \A c \in DOMAIN owned :
             \/ c \in w.carried /\ owned[c] = rows[c[2]]
             \/ /\ c \in DOMAIN K /\ owned[c] = K[c]
                /\ c \in w.carried => c[2] \notin w.builds
  OBVIOUS
<1> HIDE DEF rows, owned
<1>7. \A b \in DOMAIN rows : rows[b] \in C!Answers
  BY <1>1, <1>3, <1>5, JudgedIsAnswer DEF Shaped
<1>8. Shaped(rows, owned)
  BY <1>1, <1>2, <1>3, <1>5, <1>6, <1>7 DEF Shaped
<1>9. ASSUME tenantSelection PROVE Following(rows, owned, c_selection[t].signature)
  <2>0. /\ \A b \in DOMAIN A : A[b].signature = c_selection[t].signature /\ C!Faithful(A[b], b)
        /\ \A c \in DOMAIN K : K[c] = A[c[2]] /\ c[2] \in DOMAIN A
    BY <1>1, <1>3, <1>9 DEF CorpusInv, C!AnswersFollowSelection, Shaped
  <2>1. \A b \in w.builds : rows[b].signature = c_selection[t].signature /\ C!Faithful(rows[b], b)
    BY <1>1, <1>2, <1>5, <1>9, JudgedIsAnswer
  <2>2. \A b \in DOMAIN rows : rows[b].signature = c_selection[t].signature /\ C!Faithful(rows[b], b)
    BY <1>5, <2>0, <2>1
  <2>3. \A c \in DOMAIN K : K[c] = rows[c[2]]
    BY <1>2, <1>5, <1>9, <2>0
  <2>4. \A c \in DOMAIN owned : owned[c] = rows[c[2]]
    BY <1>6, <2>3
  <2> QED
    BY <2>2, <2>4 DEF Following
<1>10. C!Resting \in Batches /\ C!Resting.tenant = NoTenant
  BY DEF C!Resting, Batches, C!Maybe
<1>11. /\ DOMAIN answers' = LibraryTenants /\ DOMAIN copies' = LibraryTenants /\ answers'[t] = rows /\ copies'[t] = owned
       /\ \A u \in LibraryTenants \ {t} : answers'[u] = answers[u] /\ copies'[u] = copies[u]
       /\ sweep' \in [Ingests -> Batches] /\ sweep'[s] = C!Resting /\ \A o \in Ingests \ {s} : sweep'[o] = sweep[o]
  BY <1>0, <1>1, <1>4, <1>10
<1>12. CorpusShapes'
  BY <1>4, <1>11 DEF CorpusInv, CorpusShapes
<1>13. \A u \in LibraryTenants : Shaped(answers'[u], copies'[u])
  BY <1>8, <1>11, TypedRows DEF CorpusInv
<1>14. tenantSelection' => \A u \in LibraryTenants : Following(answers'[u], copies'[u], c_selection'[u].signature)
  BY <1>4, <1>9, <1>11 DEF CorpusInv, C!AnswersFollowSelection, Following, C!Faithful
<1>15. C!TypeOK' /\ C!AnswersFollowSelection'
  BY <1>4, <1>11, <1>12, <1>13, <1>14, ByTenant DEF CorpusInv, C!TypeOK
<1>16. SweepsKept'
  <2> SUFFICES ASSUME NEW o \in Ingests, sweep'[o].tenant # NoTenant
               PROVE  /\ \A c \in sweep'[o].carried : c[2] \in sweep'[o].builds \cup DOMAIN answers'[sweep'[o].tenant]
                      /\ tenantSelection =>
                             /\ sweep'[o].epoch = c_selection[sweep'[o].tenant].signature /\ sweep'[o].rows = sweep'[o].epoch
                             /\ sweep'[o].builds \cap DOMAIN answers'[sweep'[o].tenant] = {}
                             /\ \A x \in Ingests \ {o} : sweep'[x].tenant # sweep'[o].tenant
    BY <1>4 DEF SweepsKept
  <2>1. o # s /\ sweep'[o] = sweep[o] /\ sweep[o].tenant \in LibraryTenants
    BY <1>0, <1>10, <1>11 DEF Batches
  <2>2. DOMAIN answers[sweep[o].tenant] \subseteq DOMAIN answers'[sweep[o].tenant]
    BY <1>5, <1>11, <2>1
  <2>3. tenantSelection => answers'[sweep[o].tenant] = answers[sweep[o].tenant]
    BY <1>2, <1>11, <2>1
  <2>4. /\ \A c \in sweep[o].carried : c[2] \in sweep[o].builds \cup DOMAIN answers[sweep[o].tenant]
        /\ tenantSelection =>
               /\ sweep[o].epoch = c_selection[sweep[o].tenant].signature /\ sweep[o].rows = sweep[o].epoch
               /\ sweep[o].builds \cap DOMAIN answers[sweep[o].tenant] = {}
               /\ \A x \in Ingests \ {o} : sweep[x].tenant # sweep[o].tenant
    BY <2>1 DEF CorpusInv, SweepsKept
  <2>5. tenantSelection => \A x \in Ingests \ {o} : sweep'[x].tenant # sweep[o].tenant
    BY <1>10, <1>11, <2>1, <2>4
  <2> QED
    BY <2>1, <2>2, <2>3, <2>4, <2>5
<1>17. TasksKept' /\ PruneKept' /\ GrantsKept' /\ SelectionsGranted'
  BY <1>4 DEF CorpusInv, TasksKept, PruneKept, GrantsKept, SelectionsGranted
<1> QED
  BY <1>12, <1>15, <1>16, <1>17 DEF CorpusInv

\* The cleanup reads who holds what, and later deletes what nobody held or has acquired since.
LEMMA PruneSteps ==
    ASSUME C!CorpusAssumption, CorpusInv,
           (\E before \in 1..c_now, retire \in BOOLEAN : C!PruneReads(before, retire)) \/ C!PruneDeletes
    PROVE  CorpusInv'
<1> USE DEF C!bounds, C!store, C!judged
<1>1. ASSUME NEW before \in 1..c_now, NEW retire \in BOOLEAN, C!PruneReads(before, retire) PROVE CorpusInv'
  <2> DEFINE retiring == [t \in LibraryTenants |-> IF retire THEN C!Retiring(t, before) ELSE {}]
  <2>1. /\ prune'.retiring = retiring /\ prune'.retire = retire
        /\ UNCHANGED <<tenantSelection, pointer, library, archive, memory, grants, c_selection, answers, copies, task, sweep>>
    BY <1>1 DEF C!PruneReads, C!tenancy
  <2>2. \A t \in LibraryTenants : C!Retiring(t, before) \subseteq DOMAIN grants[t] \ C!Pins(t)
    BY DEF C!Retiring
  <2>3. retiring \in [LibraryTenants -> SUBSET Releases]
    BY <2>2 DEF CorpusInv, C!TypeOK
  <2>4. \A t \in LibraryTenants :
            /\ c_selection[t].signature \notin retiring[t] /\ c_selection[t].previous \notin retiring[t]
            /\ ~retire => retiring[t] = {}
    BY <2>2 DEF C!Pins
  <2> HIDE DEF retiring
  <2>5. PruneKept'
    BY <2>1, <2>4 DEF PruneKept
  <2>6. C!TypeOK' /\ CorpusShapes'
    BY <2>1, <2>3 DEF CorpusInv, C!TypeOK, CorpusShapes
  <2>7. TasksKept' /\ SweepsKept' /\ GrantsKept' /\ SelectionsGranted'
    BY <2>1 DEF CorpusInv, TasksKept, SweepsKept, GrantsKept, SelectionsGranted
  <2>8. C!AnswersFollowSelection'
    BY <2>1 DEF CorpusInv, C!AnswersFollowSelection, C!Faithful
  <2> QED
    BY <2>5, <2>6, <2>7, <2>8 DEF CorpusInv
<1>2. CASE C!PruneDeletes
  <2> DEFINE rest == [t \in LibraryTenants |-> C!Restrict(grants[t], DOMAIN grants[t] \ prune.retiring[t])]
  <2>1. /\ prune.at = "reading" /\ grants' = rest /\ archive' = C!Restrict(archive, DOMAIN archive \ C!Deletable(rest))
        /\ prune' = C!NoPrune
        /\ UNCHANGED <<tenantSelection, pointer, library, memory, c_selection, answers, copies, task, sweep>>
    BY <1>2 DEF C!PruneDeletes
  <2>2. \A t \in LibraryTenants : DOMAIN rest[t] = DOMAIN grants[t] \ prune.retiring[t]
    BY DEF C!Restrict
  <2>3. DOMAIN archive' = DOMAIN archive \ C!Deletable(rest)
    BY <2>1 DEF C!Restrict
  <2>4. \A r \in C!Deletable(rest), t \in LibraryTenants : r \notin DOMAIN rest[t]
    BY DEF C!Deletable
  <2>5. DOMAIN rest = LibraryTenants
    OBVIOUS
  <2> HIDE DEF rest
  <2>6. GrantsKept'
    BY <2>1, <2>2, <2>3, <2>4 DEF CorpusInv, GrantsKept
  <2>7. SelectionsGranted'
    BY <2>1, <2>2 DEF CorpusInv, SelectionsGranted, PruneKept
  <2>8. PruneKept' /\ prune'.retiring \in [LibraryTenants -> SUBSET Releases]
    BY <2>1 DEF PruneKept, C!NoPrune
  <2>9. C!TypeOK' /\ CorpusShapes'
    BY <2>1, <2>2, <2>3, <2>5, <2>8 DEF CorpusInv, C!TypeOK, CorpusShapes
  <2>10. TasksKept' /\ SweepsKept'
    BY <2>1 DEF CorpusInv, TasksKept, SweepsKept
  <2>11. C!AnswersFollowSelection'
    BY <2>1 DEF CorpusInv, C!AnswersFollowSelection, C!Faithful
  <2> QED
    BY <2>6, <2>7, <2>8, <2>9, <2>10, <2>11 DEF CorpusInv
<1> QED
  BY <1>1, <1>2

LEMMA CorpusStep == ASSUME C!CorpusAssumption, CorpusInv, [C!Next]_(C!vars) PROVE CorpusInv'
<1>1. CASE UNCHANGED C!vars
  <2>1. UNCHANGED <<tenantSelection, pointer, library, archive, memory, grants, c_selection, answers, copies, task, sweep, prune>>
    BY <1>1 DEF C!vars, C!store, C!tenancy, C!judged
  <2>2. C!TypeOK' /\ CorpusShapes'
    BY <2>1 DEF CorpusInv, C!TypeOK, CorpusShapes
  <2>3. TasksKept' /\ SweepsKept' /\ PruneKept' /\ GrantsKept' /\ SelectionsGranted'
    BY <2>1 DEF CorpusInv, TasksKept, SweepsKept, PruneKept, GrantsKept, SelectionsGranted
  <2>4. C!AnswersFollowSelection'
    BY <2>1 DEF CorpusInv, C!AnswersFollowSelection, C!Faithful
  <2> QED
    BY <2>2, <2>3, <2>4 DEF CorpusInv
<1>2. CASE C!Next
  BY <1>2, ImportSteps, ReleaseSteps, WriterSteps, GrantStep, JudgeStep, CommitDeviceStep, PruneSteps DEF C!Next, C!Advance
<1> QED
  BY <1>1, <1>2

LEMMA CorpusInit == ASSUME C!CorpusAssumption, C!Init PROVE CorpusInv
<1> USE DEF C!Init
<1>1. \A t \in LibraryTenants : DOMAIN grants[t] = {} /\ DOMAIN answers[t] = {} /\ DOMAIN copies[t] = {}
                          /\ c_selection[t].signature = NoRelease /\ c_selection[t].previous = NoRelease
  BY DEF C!Unselected
<1>2. DOMAIN archive = {}
  OBVIOUS
<1>3. CorpusShapes
  BY DEF C!CorpusAssumption, CorpusShapes, C!Idle, Tasks, C!Resting, Batches, C!NoPrune, C!Maybe
<1>4. C!TypeOK
  BY <1>1, <1>2 DEF C!TypeOK, C!Range, C!Maybe, C!Idle, C!Unselected
<1>5. TasksKept /\ SweepsKept /\ PruneKept
  BY DEF TasksKept, SweepsKept, PruneKept, C!Idle, C!Resting, C!NoPrune
<1>6. GrantsKept /\ SelectionsGranted /\ C!AnswersFollowSelection
  BY <1>1 DEF GrantsKept, SelectionsGranted, C!AnswersFollowSelection
<1> QED
  BY <1>3, <1>4, <1>5, <1>6 DEF CorpusInv

\* What a step of the composition is for the library.
LEMMA CorpusAlone == [StoresNext]_stores => [C!Next]_(C!vars)
  BY DEF StoresNext, stores, corpus, C!vars, C!bounds, C!store, C!tenancy, C!judged

\* Under tenant selection every stored answer and every copy stays under the selected release
\* and is what that release says; what is selected stays granted and on disk.
THEOREM CorpusIsSound == StoresSpec => []CorpusSound
<1>1. StoresInit => CorpusInv
  BY StoresAssumption, CorpusInit DEF StoresInit
<1>2. CorpusInv /\ [StoresNext]_stores => CorpusInv'
  BY StoresAssumption, CorpusAlone, CorpusStep
<1>3. CorpusInv => CorpusSound
  BY DEF CorpusSound, CorpusInv, C!CorpusSound, SelectionsGranted, GrantsKept, C!SelectedIsHeld
<1> QED
  BY <1>1, <1>2, <1>3, PTL DEF StoresSpec

-----------------------------------------------------------------------------
(* Patching: a catalog's signature names one catalog.                       *)

\* Where a job may be, and what it holds there.
JobStates ==
    {P!Resting} \cup [at: {"asking", "indexing"}]
    \cup [at: {"fetched"}, revision: P!Revisions, fresh: BOOLEAN, new: BOOLEAN]
    \cup [at: {"inserting"}, revision: P!Revisions, sees: SUBSET Jobs, after: SUBSET Jobs]
    \cup [at: {"refreshing"}, owed: Seq(Tenants) \ {<<>>}]
    \cup [at: {"judging"}, owed: Seq(Tenants) \ {<<>>}, catalog: P!Catalogs, stale: BOOLEAN]

\* What TypeOK does not name.
PatchingShapes ==
    /\ cache \in [Processes -> P!Entries] /\ verified \in [Processes -> BOOLEAN]
    /\ entry \in [Tenants -> P!Entries] /\ copy \in [Tenants -> [PatchMacs -> P!Entries]]
    /\ job \in [Jobs -> JobStates]

\* The catalogs that are held, those a job is about to judge with included.
InUse == P!Held \cup {job[j].catalog : j \in {i \in Jobs : job[i].at = "judging"}}

\* SignatureNamesCatalog, of those too.
SignaturesNameCatalogs ==
    \A c, d \in InUse \ {Nothing} : c.stamp <= titles.stamp /\ (c.stamp = d.stamp => c = d)

PatchingInv == P!TypeOK /\ PatchingShapes /\ SignaturesNameCatalogs

-----------------------------------------------------------------------------
\* A job's place says what it holds.
LEMMA JobFields ==
    ASSUME PatchingShapes, NEW j \in Jobs
    PROVE  /\ job[j] \in JobStates
           /\ job[j].at = "fetched" =>
                  job[j].revision \in P!Revisions /\ job[j].fresh \in BOOLEAN /\ job[j].new \in BOOLEAN
                  /\ [job[j] EXCEPT !.fresh = FALSE] \in JobStates
           /\ job[j].at = "inserting" => job[j].revision \in P!Revisions
           /\ job[j].at \in {"refreshing", "judging"} => job[j].owed \in Seq(Tenants) /\ job[j].owed # <<>>
           /\ job[j].at = "judging" => job[j].catalog \in P!Catalogs
<1>1. job[j] \in JobStates
  BY DEF PatchingShapes
<1>2. CASE job[j] \in {P!Resting} \cup [at: {"asking", "indexing"}]
  BY <1>1, <1>2 DEF P!Resting
<1>3. CASE job[j] \in [at: {"fetched"}, revision: P!Revisions, fresh: BOOLEAN, new: BOOLEAN]
  <2>1. [job[j] EXCEPT !.fresh = FALSE] \in [at: {"fetched"}, revision: P!Revisions, fresh: BOOLEAN, new: BOOLEAN]
    BY <1>3
  <2> QED
    BY <1>1, <1>3, <2>1 DEF JobStates
<1>4. CASE job[j] \in [at: {"inserting"}, revision: P!Revisions, sees: SUBSET Jobs, after: SUBSET Jobs]
  BY <1>1, <1>4
<1>5. CASE job[j] \in [at: {"refreshing"}, owed: Seq(Tenants) \ {<<>>}]
  BY <1>1, <1>5
<1>6. CASE job[j] \in [at: {"judging"}, owed: Seq(Tenants) \ {<<>>}, catalog: P!Catalogs, stale: BOOLEAN]
  BY <1>1, <1>6
<1> QED
  BY <1>1, <1>2, <1>3, <1>4, <1>5, <1>6 DEF JobStates

\* Going on touches no other job but for the rebuilds it waits for.
LEMMA GotoFrames ==
    ASSUME PatchingShapes, NEW j \in Jobs, NEW record \in JobStates, P!Goto(j, record)
    PROVE  /\ job' \in [Jobs -> JobStates]
           /\ job'[j] = record
           /\ \A i \in Jobs \ {j} : job'[i].at = job[i].at /\ (job[i].at = "judging" => job'[i] = job[i])
<1>1. ASSUME NEW i \in Jobs, job[i].at = "inserting"
      PROVE  [job[i] EXCEPT !.after = @ \ {j}] \in JobStates /\ [job[i] EXCEPT !.after = @ \ {j}].at = "inserting"
  BY <1>1 DEF PatchingShapes, JobStates, P!Resting
<1>2. \A i \in Jobs : job[i] \in JobStates
  BY DEF PatchingShapes
<1> HIDE DEF JobStates
<1> QED
  BY <1>1, <1>2 DEF P!Goto

\* What is owed next.
LEMMA RefreshingShape == ASSUME NEW s \in Seq(Tenants) PROVE P!Refreshing(s) \in JobStates /\ P!Refreshing(s).at # "judging"
  BY DEF P!Refreshing, JobStates, P!Resting

LEMMA OwedShape == ASSUME P!PatchingAssumption, NEW j \in Jobs PROVE P!Owed(j) \in Seq(Tenants) /\ <<Caller>> \in Seq(Tenants)
  BY DEF P!PatchingAssumption, P!Owed

\* A process answers with a catalog that is held.
LEMMA LoadIsHeld ==
    ASSUME P!TypeOK, NEW p \in Processes, NEW trusting \in BOOLEAN
    PROVE  P!load_catalog(p, trusting) \in P!Catalogs /\ P!load_catalog(p, trusting) \in P!Held
  BY DEF P!TypeOK, P!Entries, P!load_catalog, P!Held

\* What is in use is a catalog.
LEMMA InUseTyped == ASSUME P!TypeOK, PatchingShapes PROVE InUse \subseteq P!Entries
<1>1. P!Held \subseteq P!Entries
  BY DEF P!TypeOK, P!Held, P!Entries
<1>2. \A j \in Jobs : job[j].at = "judging" => job[j].catalog \in P!Entries
  BY JobFields DEF P!Entries
<1> QED
  BY <1>1, <1>2 DEF InUse

\* Signatures go on naming catalogs where what is in use was in use before, but for
\* titles that are the same or newer than everything.
LEMMA SignatureStep ==
    ASSUME P!TypeOK, PatchingShapes, SignaturesNameCatalogs, titles' \in P!Catalogs,
           titles' = titles \/ titles'.stamp = titles.stamp + 1,
           InUse' \subseteq InUse \cup {titles', Nothing}
    PROVE  SignaturesNameCatalogs'
<1>0. titles \in P!Catalogs
  BY DEF P!TypeOK
<1>1. titles \in InUse
  BY DEF InUse, P!Held
<1>2. \A c \in InUse \ {Nothing} : c \in P!Catalogs /\ c.stamp \in Nat
  BY InUseTyped DEF P!Entries, P!Catalogs
<1>3. CASE titles' = titles
  <2>1. InUse' \ {Nothing} \subseteq InUse \ {Nothing}
    BY <1>1, <1>3
  <2> QED
    BY <1>3, <2>1 DEF SignaturesNameCatalogs
<1>4. CASE titles'.stamp = titles.stamp + 1
  <2>1. \A c \in InUse \ {Nothing} : c.stamp < titles'.stamp /\ c.stamp <= titles'.stamp
    BY <1>0, <1>2, <1>4 DEF SignaturesNameCatalogs, P!Catalogs
  <2>2. \A c \in InUse' \ {Nothing} : c \in InUse \ {Nothing} \/ c = titles'
    OBVIOUS
  <2>3. titles'.stamp \in Nat
    BY <1>0, <1>4 DEF P!Catalogs
  <2>4. \A c, d \in InUse' \ {Nothing} : c.stamp = d.stamp => c = d
    BY <1>2, <2>1, <2>2, <2>3 DEF SignaturesNameCatalogs
  <2>5. \A c \in InUse' \ {Nothing} : c.stamp <= titles'.stamp
    BY <2>1, <2>2, <2>3
  <2> QED
    BY <2>4, <2>5 DEF SignaturesNameCatalogs
<1> QED
  BY <1>3, <1>4

\* What is in use after a job has gone on: what was held, and what it took along.
LEMMA InUseNext ==
    ASSUME PatchingShapes, NEW j \in Jobs, NEW record \in JobStates, P!Goto(j, record),
           NEW more, P!Held' \subseteq InUse \cup more, record.at = "judging" => record.catalog \in InUse \cup more
    PROVE  InUse' \subseteq InUse \cup more
<1>1. ASSUME NEW i \in Jobs, job'[i].at = "judging" PROVE job'[i].catalog \in InUse \cup more
  <2>1. CASE i = j
    BY <1>1, <2>1, GotoFrames
  <2>2. CASE i # j
    <3>1. job'[i] = job[i] /\ job[i].at = "judging"
      BY <1>1, <2>2, GotoFrames
    <3> QED
      BY <3>1 DEF InUse
  <2> QED
    BY <2>1, <2>2
<1> QED
  BY <1>1 DEF InUse

\* A process that asked the table holds what it answers with.
LEMMA RememberHolds ==
    ASSUME P!TypeOK, PatchingShapes, NEW p \in Processes, NEW trusting \in BOOLEAN, P!Remember(p, trusting),
           UNCHANGED <<titles, entry, copy>>
    PROVE  /\ cache' \in [Processes -> P!Entries] /\ verified' \in [Processes -> BOOLEAN]
           /\ P!Held' \subseteq P!Held
<1>1. P!load_catalog(p, trusting) \in P!Entries /\ P!load_catalog(p, trusting) \in P!Held
  BY LoadIsHeld DEF P!Entries
<1>2. cache' \in [Processes -> P!Entries] /\ verified' \in [Processes -> BOOLEAN]
  BY <1>1 DEF P!Remember, PatchingShapes
<1>3. \A q \in Processes : cache'[q] \in P!Held
  <2>1. \A q \in Processes : cache'[q] = cache[q] \/ cache'[q] = P!load_catalog(p, trusting)
    BY DEF P!Remember, PatchingShapes
  <2> QED
    BY <1>1, <2>1 DEF P!Held
<1> QED
  BY <1>2, <1>3 DEF P!Held

\* What a step keeps of the shapes, and what it may add to what is in use.
Follows ==
    /\ P!TypeOK' /\ PatchingShapes'
    /\ titles' = titles \/ titles'.stamp = titles.stamp + 1
    /\ InUse' \subseteq InUse \cup {titles', Nothing}

\* A job that moves on and leaves the tables alone.
LEMMA JobMoves ==
    ASSUME PatchingInv, NEW j \in Jobs, NEW record \in JobStates, record.at # "judging",
           P!Goto(j, record), UNCHANGED <<published, titles, P!kept, index, P!answers>>
    PROVE  Follows
<1> USE DEF P!kept, P!answers
<1>1. P!TypeOK'
  BY DEF PatchingInv, P!TypeOK
<1>2. PatchingShapes'
  BY GotoFrames DEF PatchingInv, PatchingShapes
<1>3. P!Held' = P!Held
  BY DEF P!Held
<1>4. P!Held' \subseteq InUse \cup {titles', Nothing}
  BY <1>3 DEF InUse
<1>5. InUse' \subseteq InUse \cup {titles', Nothing}
  BY <1>4, InUseNext DEF PatchingInv
<1> QED
  BY <1>1, <1>2, <1>5 DEF Follows

\* Starting, asking, skipping a definition, failing.
LEMMA JobSteps ==
    ASSUME P!PatchingAssumption, PatchingInv, NEW j \in Jobs,
           P!Start(j) \/ P!Fetch(j) \/ P!SkipTitle(j) \/ P!JobFails(j)
    PROVE  Follows
<1> USE DEF P!bounds
<1>1. CASE P!Start(j)
  <2> DEFINE record == IF KindOf[j] = "refresh" THEN P!Refreshing(<<Caller>>) ELSE [at |-> "asking"]
  <2>1. record \in JobStates /\ record.at # "judging"
    <3>1. [at |-> "asking"] \in JobStates
      BY DEF JobStates
    <3> QED
      BY <3>1, OwedShape, RefreshingShape
  <2>2. P!Goto(j, record) /\ UNCHANGED <<published, titles, P!kept, index, P!answers>>
    BY <1>1 DEF P!Start
  <2> QED
    BY <2>1, <2>2, JobMoves
<1>2. CASE P!Fetch(j)
  <2> DEFINE record == [at |-> "fetched", revision |-> published, fresh |-> P!_needs_refresh, new |-> titles.stamp = 0]
  <2>1. record \in JobStates /\ record.at # "judging"
    <3>1. published \in P!Revisions /\ P!_needs_refresh \in BOOLEAN /\ (titles.stamp = 0) \in BOOLEAN
      BY DEF PatchingInv, P!TypeOK, P!_needs_refresh
    <3> QED
      BY <3>1 DEF JobStates
  <2>2. P!Goto(j, record) /\ UNCHANGED <<published, titles, P!kept, index, P!answers>>
    BY <1>2 DEF P!Fetch
  <2> QED
    BY <2>1, <2>2, JobMoves
<1>3. CASE P!SkipTitle(j)
  <2> DEFINE record == [job[j] EXCEPT !.fresh = FALSE]
  <2>1. record \in JobStates /\ record.at # "judging"
    BY <1>3, JobFields DEF P!SkipTitle, PatchingInv, JobStates
  <2>2. P!Goto(j, record) /\ UNCHANGED <<published, titles, P!kept, index, P!answers>>
    BY <1>3 DEF P!SkipTitle
  <2> QED
    BY <2>1, <2>2, JobMoves
<1>4. CASE P!JobFails(j)
  <2>1. P!Resting \in JobStates /\ P!Resting.at # "judging"
    BY DEF JobStates, P!Resting
  <2>2. P!Goto(j, P!Resting) /\ UNCHANGED <<published, titles, P!kept, index, P!answers>>
    BY <1>4 DEF P!JobFails
  <2> QED
    BY <2>1, <2>2, JobMoves
<1> QED
  BY <1>1, <1>2, <1>3, <1>4

\* The commit of the titles dates them anew.
LEMMA StoreStep == ASSUME P!PatchingAssumption, PatchingInv, NEW j \in Jobs, P!StoreTitles(j), JobHome[j] \in Processes PROVE Follows
<1> USE DEF P!bounds
<1>1. [at |-> "indexing"] \in JobStates /\ P!Resting \in JobStates /\ P!Resting.at # "judging"
  BY DEF JobStates, P!Resting
<1>2. CASE UNCHANGED <<titles, P!kept>>
  <2>1. P!Goto(j, [at |-> "indexing"]) \/ P!Goto(j, P!Resting)
    BY <1>2 DEF P!StoreTitles
  <2>2. UNCHANGED <<published, titles, P!kept, index, P!answers>>
    BY <1>2 DEF P!StoreTitles
  <2> QED
    BY <1>1, <2>1, <2>2, JobMoves
<1>3. CASE titles' = P!Stored(j) /\ P!reset_catalog_cache(JobHome[j]) /\ P!Goto(j, [at |-> "indexing"])
  <2> USE DEF P!kept, P!answers
  <2>0. UNCHANGED <<published, index, entry, copy>>
    BY DEF P!StoreTitles
  <2>1. titles' \in P!Catalogs /\ titles'.stamp = titles.stamp + 1
    <3>1. job[j].revision \in P!Revisions
      BY JobFields DEF P!StoreTitles, PatchingInv
    <3>2. titles.stamp \in Nat
      BY DEF PatchingInv, P!TypeOK, P!Catalogs
    <3> QED
      BY <1>3, <3>1, <3>2 DEF P!Stored, P!Catalogs
  <2>2. cache' \in [Processes -> P!Entries] /\ verified' \in [Processes -> BOOLEAN]
    BY <1>3 DEF P!reset_catalog_cache, PatchingInv, PatchingShapes, P!Entries
  <2>3. P!TypeOK'
    BY <2>0, <2>1, <2>2 DEF PatchingInv, P!TypeOK
  <2>4. PatchingShapes'
    BY <1>1, <1>3, <2>0, <2>2, GotoFrames DEF PatchingInv, PatchingShapes
  <2>5. \A p \in Processes : cache'[p] = cache[p] \/ cache'[p] = Nothing
    BY <1>3 DEF P!reset_catalog_cache, PatchingInv, PatchingShapes
  <2>6. P!Held' \subseteq P!Held \cup {titles', Nothing}
    BY <2>0, <2>5 DEF P!Held
  <2>7. P!Held' \subseteq InUse \cup {titles', Nothing}
    BY <2>6 DEF InUse
  <2>8. InUse' \subseteq InUse \cup {titles', Nothing}
    BY <1>1, <1>3, <2>7, InUseNext DEF PatchingInv
  <2> QED
    BY <2>1, <2>3, <2>4, <2>8 DEF Follows
<1> QED
  BY <1>2, <1>3 DEF P!StoreTitles

\* A rebuild of the index reads the titles.
LEMMA RebuildSteps ==
    ASSUME P!PatchingAssumption, PatchingInv, NEW j \in Jobs, P!RebuildBegins(j) \/ P!RebuildCommits(j), JobHome[j] \in Processes
    PROVE  Follows
<1> USE DEF P!bounds, P!kept, P!answers
<1>1. CASE P!RebuildBegins(j)
  <2> DEFINE sees == {i \in Jobs : index[i] # Nothing}
             record == [at |-> "inserting", revision |-> P!load_catalog(JobHome[j], FALSE).revision, sees |-> sees,
                        after |-> {i \in Jobs : sees # {} /\ job[i].at = "inserting"}]
  <2>1. record \in JobStates /\ record.at # "judging"
    <3>1. P!load_catalog(JobHome[j], FALSE).revision \in P!Revisions
      BY LoadIsHeld DEF PatchingInv, P!Catalogs
    <3> QED
      BY <3>1 DEF JobStates
  <2>2. P!Goto(j, record) /\ P!Remember(JobHome[j], FALSE) /\ UNCHANGED <<published, titles, index, entry, copy>>
    BY <1>1 DEF P!RebuildBegins
  <2> HIDE DEF record
  <2>3. cache' \in [Processes -> P!Entries] /\ verified' \in [Processes -> BOOLEAN] /\ P!Held' \subseteq P!Held
    BY <2>2, RememberHolds DEF PatchingInv
  <2>4. P!TypeOK'
    BY <2>2, <2>3 DEF PatchingInv, P!TypeOK
  <2>5. PatchingShapes'
    BY <2>1, <2>2, <2>3, GotoFrames DEF PatchingInv, PatchingShapes
  <2>6. P!Held' \subseteq InUse \cup {titles', Nothing}
    BY <2>3 DEF InUse
  <2>7. InUse' \subseteq InUse \cup {titles', Nothing}
    BY <2>1, <2>2, <2>6, InUseNext DEF PatchingInv
  <2> QED
    BY <2>2, <2>4, <2>5, <2>7 DEF Follows
<1>2. CASE P!RebuildCommits(j)
  <2>1. P!Refreshing(P!Owed(j)) \in JobStates /\ P!Refreshing(P!Owed(j)).at # "judging"
    BY OwedShape, RefreshingShape
  <2>2. P!Goto(j, P!Refreshing(P!Owed(j))) /\ index' = P!Rebuilt(j) /\ UNCHANGED <<published, titles, cache, verified, entry, copy>>
    BY <1>2 DEF P!RebuildCommits
  <2>3. job[j].revision \in P!Revisions
    BY <1>2, JobFields DEF P!RebuildCommits, PatchingInv
  <2>4. index' \in [Jobs -> P!Indexed]
    BY <2>2, <2>3 DEF P!Rebuilt, P!Indexed, PatchingInv, P!TypeOK
  <2>5. P!TypeOK'
    BY <2>2, <2>4 DEF PatchingInv, P!TypeOK
  <2>6. PatchingShapes'
    BY <2>1, <2>2, GotoFrames DEF PatchingInv, PatchingShapes
  <2>7. P!Held' = P!Held
    BY <2>2 DEF P!Held
  <2>8. P!Held' \subseteq InUse \cup {titles', Nothing}
    BY <2>7 DEF InUse
  <2>9. InUse' \subseteq InUse \cup {titles', Nothing}
    BY <2>1, <2>2, <2>8, InUseNext DEF PatchingInv
  <2> QED
    BY <2>2, <2>5, <2>6, <2>9 DEF Follows
<1> QED
  BY <1>1, <1>2

\* A refresh takes along the catalog it read, and judges with it.
LEMMA RefreshSteps ==
    ASSUME P!PatchingAssumption, PatchingInv, NEW j \in Jobs, P!RefreshReads(j) \/ P!RefreshWrites(j), JobHome[j] \in Processes
    PROVE  Follows
<1> USE DEF P!bounds, P!kept, P!answers
<1>1. CASE P!RefreshReads(j)
  <2> DEFINE catalog == P!load_catalog(JobHome[j], FALSE)
             t == Head(job[j].owed)
             stale == entry[t] # Nothing /\ (KindOf[j] = "refresh" \/ entry[t].stamp # catalog.stamp)
             record == [at |-> "judging", owed |-> job[j].owed, catalog |-> catalog, stale |-> stale]
  <2>0. catalog \in P!Catalogs /\ catalog \in P!Held /\ stale \in BOOLEAN
    BY LoadIsHeld DEF PatchingInv
  <2>1. record \in JobStates /\ record.catalog \in InUse
    <3>1. job[j].owed \in Seq(Tenants) \ {<<>>}
      BY <1>1, JobFields DEF P!RefreshReads, PatchingInv
    <3>2. catalog \in InUse
      BY <2>0 DEF InUse
    <3> QED
      BY <2>0, <3>1, <3>2 DEF JobStates
  <2>2. P!Goto(j, record) /\ P!Remember(JobHome[j], FALSE) /\ UNCHANGED <<published, titles, index, entry, copy>>
    BY <1>1 DEF P!RefreshReads
  <2> HIDE DEF record
  <2>3. cache' \in [Processes -> P!Entries] /\ verified' \in [Processes -> BOOLEAN] /\ P!Held' \subseteq P!Held
    BY <2>2, RememberHolds DEF PatchingInv
  <2>4. P!TypeOK'
    BY <2>2, <2>3 DEF PatchingInv, P!TypeOK
  <2>5. PatchingShapes'
    BY <2>1, <2>2, <2>3, GotoFrames DEF PatchingInv, PatchingShapes
  <2>6. P!Held' \subseteq InUse \cup {titles', Nothing}
    BY <2>3 DEF InUse
  <2>7. InUse' \subseteq InUse \cup {titles', Nothing}
    BY <2>1, <2>2, <2>6, InUseNext DEF PatchingInv
  <2> QED
    BY <2>2, <2>4, <2>5, <2>7 DEF Follows
<1>2. CASE P!RefreshWrites(j)
  <2> DEFINE t == Head(job[j].owed)
             record == P!Refreshing(Tail(job[j].owed))
  <2>0. job[j].owed \in Seq(Tenants) /\ job[j].owed # <<>> /\ job[j].catalog \in P!Catalogs /\ job[j].catalog \in InUse
    BY <1>2, JobFields DEF P!RefreshWrites, PatchingInv, InUse
  <2>1. t \in Tenants /\ record \in JobStates /\ record.at # "judging"
    <3>1. t \in Tenants /\ Tail(job[j].owed) \in Seq(Tenants)
      BY <2>0
    <3> QED
      BY <3>1, RefreshingShape
  <2>2. P!Goto(j, record) /\ P!Judge(j, t) /\ UNCHANGED <<published, titles, index, cache, verified>>
    BY <1>2 DEF P!RefreshWrites
  <2> HIDE DEF record, t
  <2>3. /\ entry' \in [Tenants -> P!Entries] /\ copy' \in [Tenants -> [PatchMacs -> P!Entries]]
        /\ \A u \in Tenants : entry'[u] = entry[u] \/ entry'[u] = job[j].catalog
        /\ \A u \in Tenants, d \in PatchMacs : copy'[u][d] = copy[u][d] \/ copy'[u][d] = job[j].catalog
        /\ \A u \in Tenants : entry'[u] = Nothing => \A d \in PatchMacs : copy'[u][d] = Nothing
    <3>0. job[j].catalog # Nothing /\ job[j].catalog \in P!Entries /\ Nothing \in P!Entries
      BY <2>0 DEF P!PatchingAssumption, P!Catalogs, P!Revisions, P!Entries
    <3>1. CASE job[j].stale
      <4>1. entry' = [entry EXCEPT ![t] = job[j].catalog]
        BY <2>2, <3>1 DEF P!Judge
      <4>2. copy' = [copy EXCEPT ![t] = [d \in PatchMacs |-> IF copy[t][d] = Nothing THEN Nothing ELSE job[j].catalog]]
        BY <2>2, <3>1 DEF P!Judge
      <4>3. copy' \in [Tenants -> [PatchMacs -> P!Entries]]
        BY <3>0, <4>2 DEF PatchingInv, PatchingShapes
      <4> QED
        BY <2>1, <3>0, <4>1, <4>2, <4>3 DEF PatchingInv, PatchingShapes, P!TypeOK
    <3>2. CASE ~job[j].stale
      BY <2>2, <3>2 DEF P!Judge, PatchingInv, PatchingShapes, P!TypeOK
    <3> QED
      BY <3>1, <3>2
  <2>4. P!TypeOK'
    BY <2>2, <2>3 DEF PatchingInv, P!TypeOK
  <2>5. PatchingShapes'
    BY <2>1, <2>2, <2>3, GotoFrames DEF PatchingInv, PatchingShapes
  <2>6. P!Held' \subseteq InUse \cup {titles', Nothing}
    <3>1. P!Held' \subseteq P!Held \cup {job[j].catalog}
      BY <2>2, <2>3 DEF P!Held
    <3> QED
      BY <2>0, <3>1 DEF InUse
  <2>7. InUse' \subseteq InUse \cup {titles', Nothing}
    BY <2>1, <2>2, <2>6, InUseNext DEF PatchingInv
  <2> QED
    BY <2>2, <2>4, <2>5, <2>7 DEF Follows
<1> QED
  BY <1>1, <1>2

\* An ingest judges with the catalog its process trusts.
LEMMA IngestStep ==
    ASSUME P!PatchingAssumption, PatchingInv, NEW p \in Processes, NEW t \in Tenants, NEW d \in PatchMacs, P!Ingest(p, t, d)
    PROVE  Follows
<1> DEFINE catalog == P!load_catalog(p, TRUE)
<1> USE DEF P!bounds
<1>0. catalog \in P!Catalogs /\ catalog \in P!Held /\ catalog # Nothing /\ catalog \in P!Entries
  BY LoadIsHeld DEF PatchingInv, P!PatchingAssumption, P!Catalogs, P!Revisions, P!Entries
<1>1. /\ P!Remember(p, TRUE)
      /\ entry' = IF P!Judged(t, catalog) THEN [entry EXCEPT ![t] = catalog] ELSE entry
      /\ copy' = IF copy[t][d] = Nothing \/ P!Judged(t, catalog) THEN [copy EXCEPT ![t][d] = entry'[t]] ELSE copy
      /\ UNCHANGED <<published, titles, index, job>>
  BY DEF P!Ingest
<1> HIDE DEF catalog
<1>2. /\ cache' \in [Processes -> P!Entries] /\ verified' \in [Processes -> BOOLEAN]
      /\ \A q \in Processes : cache'[q] \in P!Held
  <2>1. P!load_catalog(p, TRUE) \in P!Entries /\ P!load_catalog(p, TRUE) \in P!Held
    BY <1>0 DEF catalog
  <2>2. \A q \in Processes : cache'[q] = cache[q] \/ cache'[q] = P!load_catalog(p, TRUE)
    BY <1>1 DEF P!Remember, PatchingInv, PatchingShapes
  <2> QED
    BY <1>1, <2>1, <2>2 DEF P!Remember, PatchingInv, PatchingShapes, P!Held
<1>3. /\ entry' \in [Tenants -> P!Entries] /\ entry'[t] # Nothing
      /\ \A u \in Tenants : entry'[u] = entry[u] \/ (u = t /\ entry'[u] = catalog)
  BY <1>0, <1>1 DEF PatchingInv, PatchingShapes, P!Judged
<1>4. /\ copy' \in [Tenants -> [PatchMacs -> P!Entries]]
      /\ \A u \in Tenants, e \in PatchMacs : copy'[u][e] = copy[u][e] \/ (u = t /\ copy'[u][e] = entry'[t])
  BY <1>1, <1>3 DEF PatchingInv, PatchingShapes
<1>5. P!TypeOK'
  BY <1>1, <1>2, <1>3, <1>4 DEF PatchingInv, P!TypeOK
<1>6. PatchingShapes'
  BY <1>1, <1>2, <1>3, <1>4 DEF PatchingInv, PatchingShapes
<1>7. P!Held' \subseteq P!Held
  <2>1. \A u \in Tenants : entry'[u] \in P!Held
    BY <1>0, <1>3 DEF P!Held
  <2>2. \A u \in Tenants, e \in PatchMacs : copy'[u][e] \in P!Held
    BY <1>4, <2>1 DEF P!Held
  <2> QED
    BY <1>1, <1>2, <2>1, <2>2 DEF P!Held
<1>8. InUse' \subseteq InUse \cup {titles', Nothing}
  BY <1>1, <1>7 DEF InUse
<1> QED
  BY <1>1, <1>5, <1>6, <1>8 DEF Follows

\* The clock of a process's trust, and Jamf.
LEMMA PublishedSteps == ASSUME P!PatchingAssumption, PatchingInv, P!Publish \/ (\E p \in Processes : P!IntervalEnds(p)) PROVE Follows
<1> USE DEF P!bounds, P!kept, P!answers
<1>1. published' \in P!Revisions
  BY DEF P!PatchingAssumption, PatchingInv, P!TypeOK, P!Publish, P!IntervalEnds, P!Revisions
<1>2. verified' \in [Processes -> BOOLEAN] /\ UNCHANGED <<titles, cache, index, entry, copy, job>>
  BY DEF PatchingInv, PatchingShapes, P!Publish, P!IntervalEnds
<1>3. P!TypeOK' /\ PatchingShapes' /\ P!Held' = P!Held /\ InUse' = InUse
  BY <1>1, <1>2 DEF PatchingInv, P!TypeOK, PatchingShapes, P!Held, InUse
<1> QED
  BY <1>2, <1>3 DEF Follows

LEMMA PatchingStep == ASSUME P!PatchingAssumption, PatchingInv, [P!Next]_(P!vars) PROVE PatchingInv'
<1>1. CASE UNCHANGED P!vars
  <2>1. UNCHANGED <<published, titles, cache, verified, index, entry, copy, job>>
    BY <1>1 DEF P!vars, P!bounds, P!kept, P!answers
  <2>2. P!TypeOK' /\ PatchingShapes'
    BY <2>1 DEF PatchingInv, P!TypeOK, PatchingShapes
  <2>3. InUse' = InUse
    BY <2>1 DEF InUse, P!Held
  <2> QED
    BY <2>1, <2>2, <2>3 DEF PatchingInv, SignaturesNameCatalogs
<1>2. CASE P!Next
  <2>1. \A j \in Jobs : JobHome[j] \in Processes
    BY DEF P!PatchingAssumption
  <2>2. Follows
    BY <1>2, <2>1, JobSteps, StoreStep, RebuildSteps, RefreshSteps, IngestStep, PublishedSteps DEF P!Next, P!Step
  <2> QED
    BY <2>2, SignatureStep DEF Follows, PatchingInv, P!TypeOK
<1> QED
  BY <1>1, <1>2

LEMMA PatchingInit == ASSUME P!PatchingAssumption, P!Init PROVE PatchingInv
<1>1. titles \in P!Catalogs /\ titles.stamp = 0 /\ published \in P!Revisions
  BY DEF P!Init, P!PatchingAssumption, P!Catalogs, P!Revisions
<1>2. \A j \in Jobs : job[j] = P!Resting /\ job[j].at # "judging"
  BY DEF P!Init, P!Resting
<1>3. P!TypeOK
  BY <1>1 DEF P!Init, P!TypeOK, P!Entries, P!Indexed
<1>4. PatchingShapes
  BY <1>1 DEF P!Init, PatchingShapes, P!Entries, JobStates
<1>5. InUse \subseteq {titles, Nothing}
  BY <1>2 DEF P!Init, InUse, P!Held
<1>6. SignaturesNameCatalogs
  BY <1>1, <1>5 DEF SignaturesNameCatalogs
<1> QED
  BY <1>3, <1>4, <1>6 DEF PatchingInv

\* What a step of the composition is for the patch catalog.
LEMMA PatchingAlone == [StoresNext]_stores => [P!Next]_(P!vars)
  BY DEF StoresNext, stores, patching, P!vars, P!bounds, P!kept, P!answers

\* A signature names one catalog, and none is ahead of the stored titles: whatever syncs,
\* refreshes and ingests of several processes overlap.
THEOREM PatchingIsSound == StoresSpec => []PatchingSound
<1>1. StoresInit => PatchingInv
  BY StoresAssumption, PatchingInit DEF StoresInit
<1>2. PatchingInv /\ [StoresNext]_stores => PatchingInv'
  BY StoresAssumption, PatchingAlone, PatchingStep
<1>3. PatchingInv => PatchingSound
  BY DEF PatchingSound, PatchingInv, P!PatchingSound, SignaturesNameCatalogs, P!SignatureNamesCatalog, InUse
<1> QED
  BY <1>1, <1>2, <1>3, PTL DEF StoresSpec

-----------------------------------------------------------------------------
(* Tracked: what is open is on the Mac as last read, and closes truthfully. *)

DeviceRows == [builds: SUBSET Builds, checked: BOOLEAN]

\* What TypeOK does not name.
TrackedShapes ==
    /\ f_selection \in BOOLEAN
    /\ f_now \in F!Instants
    /\ f_row \in DeviceRows \cup {NoDevice}
    /\ history \in F!Instants
    /\ pass # NoPass => pass.builds \in SUBSET Builds

\* While a read is open findings are only closed: what is open is as the read found it.
PassSees ==
    pass # NoPass =>
        /\ DOMAIN pass.held = DOMAIN findings
        /\ \A k \in DOMAIN findings : pass.held[k] \in F!Findings
        /\ \A k \in DOMAIN findings : findings[k].open => pass.held[k] = findings[k]

\* A finding is of a build of its app.
BuildsAreOfApps == \A k \in DOMAIN findings : AppOf[findings[k].build] = k[1]

TrackedInv == F!TypeOK /\ TrackedShapes /\ PassSees /\ BuildsAreOfApps /\ F!OpenIsCarried

\* What a read makes of a finding: opened, closed for a reason, or left as it is.
ReadLeaves(k, opened, new) ==
    \/ /\ k \in F!detected(pass.builds)
       /\ new = IF k \in DOMAIN findings THEN F!Upserted(findings[k], opened) ELSE opened
    \/ /\ k \in DOMAIN findings /\ k \in F!Keys \ F!detected(pass.builds)
       /\ F!Reason(k, pass.held[k], pass.builds) # "none"
       /\ new = [findings[k] EXCEPT !.open = FALSE, !.reason = F!Reason(k, pass.held[k], pass.builds)]
    \/ /\ k \in DOMAIN findings /\ new = findings[k]
       /\ findings[k].open => findings[k].build \in pass.builds

-----------------------------------------------------------------------------
\* What is detected has a build that is on the Mac.
LEMMA BuildCarried ==
    ASSUME NEW builds, NEW k \in F!detected(builds)
    PROVE  F!BuildOf(k, builds) \in F!Carriers(k, builds) /\ F!BuildOf(k, builds) \in builds
<1>1. F!Carriers(k, builds) # {}
  BY DEF F!detected
<1>2. F!BuildOf(k, builds) \in F!Carriers(k, builds)
  BY <1>1 DEF F!BuildOf, F!Lowest
<1> QED
  BY <1>2 DEF F!Carriers

\* What a read opens is a finding.
LEMMA OpenedTyped ==
    ASSUME F!TrackedAssumption, TrackedShapes, NEW builds \in SUBSET Builds, NEW isNew \in BOOLEAN,
           NEW logged, NEW k \in F!detected(builds)
    PROVE  /\ F!Opened(k, logged, builds, isNew) \in F!Findings
           /\ F!Opened(k, logged, builds, isNew).open
           /\ F!Opened(k, logged, builds, isNew).build \in builds
           /\ AppOf[F!Opened(k, logged, builds, isNew).build] = k[1]
<1>1. F!BuildOf(k, builds) \in builds /\ F!BuildOf(k, builds) \in Builds /\ AppOf[F!BuildOf(k, builds)] = k[1]
  BY BuildCarried DEF F!Carriers
<1>2. F!Capped(k, builds) \in BOOLEAN
  BY DEF F!Capped
<1>3. F!Arrival(k, logged, builds, isNew) \in F!Instants
  BY DEF F!Arrival, TrackedShapes
<1>4. F!Basis(isNew) \in {"observed", "backfill"}
  BY DEF F!Basis
<1>5. F!Opened(k, logged, builds, isNew) \in F!Findings
  BY <1>1, <1>2, <1>3, <1>4 DEF F!Opened, F!Findings, F!Reasons
<1> QED
  BY <1>1, <1>5 DEF F!Opened

\* A close has a reason, and the reason is true of what the read saw.
LEMMA ReasonIsTrue ==
    ASSUME TrackedShapes, NEW builds \in SUBSET Builds, NEW f \in F!Findings, NEW k \in F!Keys \ F!detected(builds)
    PROVE  /\ F!Reason(k, f, builds) \in {"none", "app_removed", "build_changed", "corpus_withdrawn"}
           /\ F!Reason(k, f, builds) = "none" => f.build \in builds
           /\ F!Reason(k, f, builds) = "app_removed" => k[1] \notin F!AppsOf(builds)
           /\ F!Reason(k, f, builds) = "build_changed" => f.build \notin {b \in builds : AppOf[b] = k[1]}
           /\ F!Reason(k, f, builds) = "corpus_withdrawn" =>
                  AppOf[f.build] = k[1] /\ (f_selection => F!Proves(f.build) /\ k[2] \notin F!IdsOf(f.build))
<1> DEFINE carried == {b \in builds : AppOf[b] = k[1]}
           r == F!Reason(k, f, builds)
<1>0. f.capped \in BOOLEAN
  BY DEF F!Findings
<1>1. CASE carried = {}
  <2>1. r = "app_removed"
    BY <1>1 DEF F!Reason
  <2> QED
    BY <1>1, <2>1 DEF F!AppsOf
<1>2. CASE carried # {} /\ f.build \notin carried
  <2>1. r = "build_changed"
    BY <1>2 DEF F!Reason
  <2> QED
    BY <1>2, <2>1
<1>3. CASE f.build \in carried /\ f.capped
  <2>1. r = "none"
    BY <1>3 DEF F!Reason
  <2> QED
    BY <1>3, <2>1
<1>4. CASE f.build \in carried /\ ~f.capped
  <2>1. r = IF f_selection /\ ~F!Proves(f.build) THEN "none" ELSE "corpus_withdrawn"
    BY <1>4 DEF F!Reason
  <2>2. k[2] \notin F!IdsOf(f.build)
    BY <1>4 DEF F!detected, F!Carriers
  <2> QED
    BY <1>4, <2>1, <2>2 DEF TrackedShapes
<1> QED
  BY <1>0, <1>1, <1>2, <1>3, <1>4

LEMMA ReadOutcome ==
    ASSUME F!TrackedAssumption, TrackedInv, pass # NoPass, NEW logged, NEW isNew,
           NEW k \in DOMAIN F!Reconciled(pass.held, logged, pass.builds, isNew)
    PROVE  ReadLeaves(k, F!Opened(k, logged, pass.builds, isNew), F!Reconciled(pass.held, logged, pass.builds, isNew)[k])
<1> DEFINE owned == pass.held
           builds == pass.builds
<1>0. DOMAIN owned = DOMAIN findings /\ DOMAIN findings \subseteq F!Keys /\ builds \in SUBSET Builds
  BY DEF TrackedInv, PassSees, F!TypeOK, TrackedShapes
<1>1. k \in DOMAIN findings \cup F!Moved(owned, builds)
  BY DEF F!Reconciled
<1>2. CASE k \in F!Moved(owned, builds)
  BY <1>2 DEF F!Reconciled, F!Moved, ReadLeaves
<1>3. CASE k \notin F!Moved(owned, builds) /\ k \in F!Closing(owned, builds)
  BY <1>0, <1>1, <1>3 DEF F!Reconciled, F!Closing, ReadLeaves
<1>4. CASE k \notin F!Moved(owned, builds) /\ k \notin F!Closing(owned, builds)
  <2>1. k \in DOMAIN findings /\ F!Reconciled(owned, logged, builds, isNew)[k] = findings[k]
    BY <1>1, <1>4 DEF F!Reconciled
  <2>2. ASSUME findings[k].open PROVE findings[k].build \in builds
    <3>1. owned[k] = findings[k] /\ owned[k] \in F!Findings /\ k \in DOMAIN owned
      BY <1>0, <2>1, <2>2 DEF TrackedInv, PassSees
    <3>2. CASE k \in F!detected(builds)
      <4>1. owned[k].build = F!BuildOf(k, builds)
        BY <1>4, <2>2, <3>1, <3>2 DEF F!Moved
      <4> QED
        BY <3>1, <3>2, <4>1, BuildCarried
    <3>3. CASE k \notin F!detected(builds)
      <4>1. F!Reason(k, owned[k], builds) = "none"
        BY <1>4, <2>2, <3>1, <3>3 DEF F!Closing
      <4>2. k \in F!Keys \ F!detected(builds)
        BY <1>0, <2>1, <3>3
      <4> QED
        BY <1>0, <3>1, <4>1, <4>2, ReasonIsTrue DEF TrackedInv
    <3> QED
      BY <3>2, <3>3
  <2> QED
    BY <2>1, <2>2 DEF ReadLeaves
<1> QED
  BY <1>2, <1>3, <1>4

\* A read that commits leaves what is open among the builds it saw.
LEMMA CommitStep == ASSUME F!TrackedAssumption, TrackedInv, F!ReadCommits PROVE TrackedInv'
<1> DEFINE isNew == f_row = NoDevice
           previous == IF isNew THEN {} ELSE f_row.builds
           builds == pass.builds
           delta == F!latch_delta(previous, builds, isNew)
<1>0. pass # NoPass /\ builds \in SUBSET Builds /\ isNew \in BOOLEAN /\ previous \in SUBSET Builds
  BY DEF F!ReadCommits, TrackedInv, TrackedShapes, DeviceRows
<1>1. PICK logged \in SUBSET (builds \ previous) :
          /\ findings' = F!Reconciled(pass.held, logged, builds, isNew)
          /\ latches' = F!Latched(delta)
          /\ f_row' = [builds |-> builds, checked |-> TRUE]
  BY DEF F!ReadCommits
<1>2. UNCHANGED <<f_selection, f_now, edits, mac, release, departed>> /\ pass' = NoPass /\ history' = 0
  BY DEF F!ReadCommits, F!world
<1> HIDE DEF isNew, previous, builds, delta
<1>3. f_row' \in DeviceRows /\ f_row' # NoDevice /\ f_row'.builds = builds
  <2>1. f_row' \in DeviceRows /\ f_row'.builds = builds
    BY <1>0, <1>1 DEF DeviceRows
  <2> QED
    BY <2>1 DEF DeviceRows, F!TrackedAssumption
<1>4. \A k \in DOMAIN findings' : k \in F!Keys /\ findings'[k] \in F!Findings /\ AppOf[findings'[k].build] = k[1]
                                  /\ (findings'[k].open => findings'[k].build \in builds)
  <2> SUFFICES ASSUME NEW k \in DOMAIN findings'
               PROVE  k \in F!Keys /\ findings'[k] \in F!Findings /\ AppOf[findings'[k].build] = k[1]
                      /\ (findings'[k].open => findings'[k].build \in builds)
    OBVIOUS
  <2> DEFINE opened == F!Opened(k, logged, builds, isNew)
  <2>0. ASSUME k \in DOMAIN findings PROVE k \in F!Keys /\ findings[k] \in F!Findings /\ AppOf[findings[k].build] = k[1]
    BY <2>0 DEF TrackedInv, F!TypeOK, BuildsAreOfApps
  <2>1. ASSUME k \in F!detected(builds)
        PROVE  k \in F!Keys /\ opened \in F!Findings /\ opened.open /\ opened.build \in builds /\ AppOf[opened.build] = k[1]
    <3>1. k \in F!Keys
      BY <2>1 DEF F!detected
    <3> QED
      BY <1>0, <2>1, <3>1, OpenedTyped DEF TrackedInv
  <2>2. ReadLeaves(k, opened, findings'[k])
    <3>1. k \in DOMAIN F!Reconciled(pass.held, logged, pass.builds, isNew)
      BY <1>1 DEF builds
    <3>2. findings'[k] = F!Reconciled(pass.held, logged, pass.builds, isNew)[k]
      BY <1>1 DEF builds
    <3> QED
      BY <1>0, <3>1, <3>2, ReadOutcome DEF builds
  <2> HIDE DEF opened
  <2>3. CASE k \in F!detected(builds) /\ k \in DOMAIN findings /\ findings'[k] = F!Upserted(findings[k], opened)
    BY <2>0, <2>1, <2>3 DEF F!Upserted, F!Findings
  <2>4. CASE k \in F!detected(builds) /\ findings'[k] = opened
    BY <2>1, <2>4
  <2>5. CASE /\ k \in DOMAIN findings /\ k \in F!Keys \ F!detected(builds)
             /\ findings'[k] = [findings[k] EXCEPT !.open = FALSE, !.reason = F!Reason(k, pass.held[k], builds)]
    <3>1. pass.held[k] \in F!Findings
      BY <1>0, <2>5 DEF TrackedInv, PassSees
    <3>2. F!Reason(k, pass.held[k], builds) \in F!Reasons
      BY <1>0, <2>5, <3>1, ReasonIsTrue DEF TrackedInv, F!Reasons
    <3> QED
      BY <2>0, <2>5, <3>2 DEF F!Findings
  <2>6. CASE k \in DOMAIN findings /\ findings'[k] = findings[k] /\ (findings[k].open => findings[k].build \in builds)
    BY <2>0, <2>6
  <2> QED
    BY <2>2, <2>3, <2>4, <2>5, <2>6 DEF ReadLeaves, builds
<1>5. \A a \in DOMAIN latches' : a \in F!Apps /\ latches'[a] \in F!Latches /\ (latches'[a].open => a \in F!AppsOf(builds))
  <2>1. delta.open \subseteq F!AppsOf(builds) /\ delta.gone = F!AppsOf(previous) \ F!AppsOf(builds)
    BY DEF delta, F!latch_delta
  <2>2. F!AppsOf(builds) \subseteq F!Apps
    BY <1>0 DEF F!AppsOf, F!Apps
  <2>3. \A a \in DOMAIN latches : a \in F!Apps /\ latches[a] \in F!Latches /\ (latches[a].open => a \in F!AppsOf(previous))
    BY DEF TrackedInv, F!TypeOK, F!OpenIsCarried, previous, isNew
  <2> QED
    BY <1>1, <2>1, <2>2, <2>3 DEF F!Latched, F!Latches
<1>6. F!TypeOK'
  BY <1>2, <1>3, <1>4, <1>5 DEF TrackedInv, F!TypeOK, DeviceRows
<1>7. TrackedShapes'
  BY <1>2, <1>3 DEF TrackedInv, TrackedShapes, F!Instants, F!TrackedAssumption
<1>8. PassSees' /\ F!OpenIsCarried' /\ BuildsAreOfApps'
  BY <1>2, <1>3, <1>4, <1>5 DEF PassSees, F!OpenIsCarried, BuildsAreOfApps
<1> QED
  BY <1>6, <1>7, <1>8 DEF TrackedInv

\* What a census or a failed or scoped read does to rows: it closes some, and opens none.
LEMMA ClosingStep ==
    ASSUME TrackedInv, NEW gone \in BOOLEAN, F!CloseDeparted(gone), UNCHANGED <<F!world, f_row, history, pass>>,
           departed' \in F!Instants \cup {NoDevice}
    PROVE  TrackedInv'
<1> USE DEF F!world
<1>1. /\ DOMAIN findings' = DOMAIN findings
      /\ \A k \in DOMAIN findings :
             \/ findings'[k] = findings[k]
             \/ findings'[k] = [findings[k] EXCEPT !.open = FALSE, !.reason = "device_departed"]
  BY DEF F!CloseDeparted
<1>2. /\ DOMAIN latches' = DOMAIN latches
      /\ \A a \in DOMAIN latches :
             latches'[a] = latches[a] \/ latches'[a] = [open |-> FALSE, reason |-> "device_departed"]
  BY DEF F!CloseDeparted, F!CloseLatches
<1>3. \A k \in DOMAIN findings : findings'[k] \in F!Findings /\ (findings'[k].open => findings'[k] = findings[k])
                                 /\ findings'[k].build = findings[k].build
  <2> SUFFICES ASSUME NEW k \in DOMAIN findings
               PROVE  findings'[k] \in F!Findings /\ (findings'[k].open => findings'[k] = findings[k])
                      /\ findings'[k].build = findings[k].build
    OBVIOUS
  <2>1. findings[k] \in F!Findings
    BY DEF TrackedInv, F!TypeOK
  <2>2. [findings[k] EXCEPT !.open = FALSE, !.reason = "device_departed"] \in F!Findings
    BY <2>1 DEF F!Findings, F!Reasons
  <2> QED
    BY <1>1, <2>1, <2>2 DEF F!Findings
<1>4. \A a \in DOMAIN latches : latches'[a] \in F!Latches /\ (latches'[a].open => latches'[a] = latches[a])
  <2>1. [open |-> FALSE, reason |-> "device_departed"] \in F!Latches
    BY DEF F!Latches
  <2>2. \A a \in DOMAIN latches : latches[a] \in F!Latches
    BY DEF TrackedInv, F!TypeOK
  <2>3. ASSUME NEW a \in DOMAIN latches, latches'[a] = [open |-> FALSE, reason |-> "device_departed"]
        PROVE  latches'[a] \in F!Latches /\ ~latches'[a].open
    BY <2>1, <2>3
  <2> QED
    BY <1>2, <2>2, <2>3
<1>5. F!TypeOK'
  BY <1>1, <1>2, <1>3, <1>4 DEF TrackedInv, F!TypeOK
<1>6. TrackedShapes'
  BY DEF TrackedInv, TrackedShapes
<1>7. PassSees' /\ F!OpenIsCarried' /\ BuildsAreOfApps'
  BY <1>1, <1>2, <1>3, <1>4 DEF TrackedInv, PassSees, F!OpenIsCarried, BuildsAreOfApps
<1> QED
  BY <1>5, <1>6, <1>7 DEF TrackedInv

LEMMA CensusSteps == ASSUME F!TrackedAssumption, TrackedInv, F!CleanCensus \/ F!TornCensus PROVE TrackedInv'
<1>1. CASE F!CleanCensus
  <2>1. departed' \in F!Instants \cup {NoDevice}
    BY <1>1 DEF F!CleanCensus, TrackedInv, F!TypeOK, TrackedShapes
  <2>2. (~mac.present /\ F!GoneForGood) \in BOOLEAN
    BY DEF F!GoneForGood
  <2> QED
    BY <1>1, <2>1, <2>2, ClosingStep DEF F!CleanCensus
<1>2. CASE F!TornCensus
  BY <1>2, ClosingStep DEF F!TornCensus, TrackedInv, F!TypeOK
<1> QED
  BY <1>1, <1>2

\* A read that begins, fails or brings no applications, and the purge.
LEMMA OtherReads ==
    ASSUME F!TrackedAssumption, TrackedInv, F!ReadBegins \/ F!ReadFails \/ F!ScopedRead \/ (\E a \in F!Apps : F!Purge(a))
    PROVE  TrackedInv'
<1> USE DEF F!world
<1>1. CASE F!ReadBegins
  <2>1. F!TypeOK' /\ F!OpenIsCarried' /\ BuildsAreOfApps'
    BY <1>1 DEF F!ReadBegins, TrackedInv, F!TypeOK, F!OpenIsCarried, BuildsAreOfApps
  <2>2. TrackedShapes' /\ PassSees'
    BY <1>1 DEF F!ReadBegins, TrackedInv, F!TypeOK, TrackedShapes, PassSees
  <2> QED
    BY <2>1, <2>2 DEF TrackedInv
<1>2. CASE F!ReadFails
  <2>1. F!TypeOK' /\ F!OpenIsCarried' /\ BuildsAreOfApps'
    BY <1>2 DEF F!ReadFails, TrackedInv, F!TypeOK, F!OpenIsCarried, BuildsAreOfApps
  <2>2. TrackedShapes' /\ PassSees'
    BY <1>2 DEF F!ReadFails, TrackedInv, TrackedShapes, PassSees
  <2> QED
    BY <2>1, <2>2 DEF TrackedInv
<1>3. CASE F!ScopedRead
  <2>1. f_row = NoDevice /\ f_row' \in DeviceRows /\ history' = f_now /\ UNCHANGED <<F!world, pass, findings, latches, departed>>
    BY <1>3 DEF F!ScopedRead, DeviceRows
  <2>2. F!TypeOK' /\ F!OpenIsCarried' /\ BuildsAreOfApps'
    BY <2>1 DEF TrackedInv, F!TypeOK, F!OpenIsCarried, BuildsAreOfApps, DeviceRows
  <2>3. TrackedShapes' /\ PassSees'
    BY <2>1 DEF TrackedInv, TrackedShapes, PassSees
  <2> QED
    BY <2>2, <2>3 DEF TrackedInv
<1>4. ASSUME NEW a \in F!Apps, F!Purge(a) PROVE TrackedInv'
  <2>1. latches' = [x \in DOMAIN latches \ {a} |-> latches[x]] /\ UNCHANGED <<F!world, f_row, history, pass, findings, departed>>
    BY <1>4 DEF F!Purge
  <2>2. F!TypeOK' /\ F!OpenIsCarried' /\ BuildsAreOfApps'
    BY <2>1 DEF TrackedInv, F!TypeOK, F!OpenIsCarried, BuildsAreOfApps
  <2>3. TrackedShapes' /\ PassSees'
    BY <2>1 DEF TrackedInv, TrackedShapes, PassSees
  <2> QED
    BY <2>2, <2>3 DEF TrackedInv
<1> QED
  BY <1>1, <1>2, <1>3, <1>4

\* The Mac, the release and the clock move; no row follows at once.
LEMMA WorldMoves ==
    ASSUME F!TrackedAssumption, TrackedInv,
           \/ \E builds \in SUBSET Builds : F!ChangeApps(builds)
           \/ F!LeaveOrReturn
           \/ \E r \in Releases \cup {NoRelease} : F!MoveRelease(r)
           \/ F!Tick
    PROVE  TrackedInv'
<1>1. UNCHANGED <<f_selection, f_row, history, pass, findings, latches, departed>>
  BY DEF F!ChangeApps, F!LeaveOrReturn, F!MoveRelease, F!Tick, F!Edit
<1>2. f_now' \in F!Instants /\ mac' \in [present: BOOLEAN, builds: SUBSET Builds] /\ release' \in Releases \cup {NoRelease}
  <2>1. f_now' \in F!Instants
    BY DEF F!TrackedAssumption, TrackedInv, TrackedShapes, F!Instants, F!ChangeApps, F!LeaveOrReturn, F!MoveRelease, F!Tick, F!Edit
  <2>2. mac' \in [present: BOOLEAN, builds: SUBSET Builds] /\ release' \in Releases \cup {NoRelease}
    BY DEF TrackedInv, F!TypeOK, F!ChangeApps, F!LeaveOrReturn, F!MoveRelease, F!Tick, F!Edit
  <2> QED
    BY <2>1, <2>2
<1>3. F!TypeOK' /\ F!OpenIsCarried' /\ BuildsAreOfApps'
  BY <1>1, <1>2 DEF TrackedInv, F!TypeOK, F!OpenIsCarried, BuildsAreOfApps
<1>4. TrackedShapes' /\ PassSees'
  BY <1>1, <1>2 DEF TrackedInv, TrackedShapes, PassSees
<1> QED
  BY <1>3, <1>4 DEF TrackedInv

LEMMA TrackedStep == ASSUME F!TrackedAssumption, TrackedInv, [F!Next]_(F!vars) PROVE TrackedInv'
<1>1. CASE UNCHANGED F!vars
  <2>1. UNCHANGED <<f_selection, f_now, edits, mac, release, f_row, history, pass, findings, latches, departed>>
    BY <1>1 DEF F!vars, F!world
  <2>2. F!TypeOK' /\ F!OpenIsCarried' /\ BuildsAreOfApps'
    BY <2>1 DEF TrackedInv, F!TypeOK, F!OpenIsCarried, BuildsAreOfApps
  <2>3. TrackedShapes' /\ PassSees'
    BY <2>1 DEF TrackedInv, TrackedShapes, PassSees
  <2> QED
    BY <2>2, <2>3 DEF TrackedInv
<1>2. CASE F!Next
  BY <1>2, CommitStep, CensusSteps, OtherReads, WorldMoves DEF F!Next
<1> QED
  BY <1>1, <1>2

LEMMA TrackedInit == ASSUME F!TrackedAssumption, F!Init PROVE TrackedInv
<1>0. DOMAIN findings = {} /\ DOMAIN latches = {}
  BY DEF F!Init
<1>1. f_row \in DeviceRows \cup {NoDevice}
  BY DEF F!Init, DeviceRows
<1>2. mac \in [present: BOOLEAN, builds: SUBSET Builds]
  BY DEF F!Init
<1>3. F!TypeOK
  BY <1>0, <1>1, <1>2 DEF F!Init, F!TypeOK, DeviceRows
<1>4. F!OpenIsCarried /\ BuildsAreOfApps
  BY <1>0 DEF F!OpenIsCarried, BuildsAreOfApps
<1>5. TrackedShapes /\ PassSees
  BY <1>1 DEF F!TrackedAssumption, F!Init, TrackedShapes, PassSees, F!Instants
<1> QED
  BY <1>3, <1>4, <1>5 DEF TrackedInv

\* What a step of the composition is for the findings.
LEMMA TrackedAlone == [StoresNext]_stores => [F!Next]_(F!vars)
  BY DEF StoresNext, stores, tracked, F!vars, F!world

\* What is open of findings and latches is among the rows of the Mac's last read.
THEOREM TrackedIsSound == StoresSpec => []TrackedSound
<1>1. StoresInit => TrackedInv
  BY StoresAssumption, TrackedInit DEF StoresInit
<1>2. TrackedInv /\ [StoresNext]_stores => TrackedInv'
  BY StoresAssumption, TrackedAlone, TrackedStep
<1>3. TrackedInv => TrackedSound
  BY DEF TrackedSound, TrackedInv, F!TrackedSound
<1> QED
  BY <1>1, <1>2, <1>3, PTL DEF StoresSpec

\* Only a commit and a census touch findings.
LEMMA OthersLeaveFindings ==
    ASSUME [F!Next]_(F!vars), ~F!ReadCommits, ~F!CleanCensus, ~F!TornCensus
    PROVE  findings' = findings
  BY DEF F!Next, F!vars, F!ReadBegins, F!ScopedRead, F!ReadFails, F!Purge, F!ChangeApps, F!LeaveOrReturn, F!MoveRelease, F!Edit, F!Tick

\* A finding that is there stays, on its clock.
LEMMA SightingStep ==
    ASSUME F!TrackedAssumption, TrackedInv, [F!Next]_(F!vars), NEW k \in DOMAIN findings
    PROVE  k \in DOMAIN findings' /\ findings'[k].first = findings[k].first /\ findings'[k].basis = findings[k].basis
<1>0. findings[k] \in F!Findings
  BY DEF TrackedInv, F!TypeOK
<1>1. CASE F!ReadCommits
  <2>1. PICK logged, isNew : findings' = F!Reconciled(pass.held, logged, pass.builds, isNew)
    BY <1>1 DEF F!ReadCommits
  <2>2. k \in DOMAIN findings'
    BY <2>1 DEF F!Reconciled
  <2> DEFINE new == F!Reconciled(pass.held, logged, pass.builds, isNew)[k]
             opened == F!Opened(k, logged, pass.builds, isNew)
  <2>3. findings'[k] = new
    BY <2>1
  <2>4. ReadLeaves(k, opened, new)
    <3>1. pass # NoPass /\ k \in DOMAIN F!Reconciled(pass.held, logged, pass.builds, isNew)
      BY <1>1, <2>1, <2>2 DEF F!ReadCommits
    <3> QED
      BY <3>1, ReadOutcome
  <2>5. opened = [open |-> TRUE, build |-> opened.build, capped |-> opened.capped,
                  first |-> opened.first, basis |-> opened.basis, reason |-> "none"]
    BY DEF F!Opened
  <2> HIDE DEF new, opened
  <2>6. CASE new = F!Upserted(findings[k], opened)
    BY <1>0, <2>2, <2>3, <2>5, <2>6 DEF F!Upserted, F!Findings
  <2>7. CASE new = [findings[k] EXCEPT !.open = FALSE, !.reason = F!Reason(k, pass.held[k], pass.builds)]
    BY <1>0, <2>2, <2>3, <2>7 DEF F!Findings
  <2> QED
    BY <2>2, <2>3, <2>4, <2>6, <2>7 DEF ReadLeaves
<1>2. CASE F!CleanCensus \/ F!TornCensus
  <2>1. \E gone \in BOOLEAN : F!CloseDeparted(gone)
    BY <1>2 DEF F!CleanCensus, F!TornCensus, F!GoneForGood
  <2>2. k \in DOMAIN findings' /\ (findings'[k] = findings[k]
            \/ findings'[k] = [findings[k] EXCEPT !.open = FALSE, !.reason = "device_departed"])
    BY <2>1 DEF F!CloseDeparted
  <2> QED
    BY <1>0, <2>2 DEF F!Findings
<1> QED
  BY <1>1, <1>2, OthersLeaveFindings

\* What a close says is so.
LEMMA CloseStep ==
    ASSUME F!TrackedAssumption, TrackedInv, [F!Next]_(F!vars), NEW k \in DOMAIN findings, F!Closes(k)
    PROVE  F!ReasonHolds(k)
<1>0. findings[k] \in F!Findings /\ findings[k].open /\ ~findings'[k].open
  BY DEF TrackedInv, F!TypeOK, F!Closes
<1>1. CASE F!ReadCommits
  <2>1. PICK logged, isNew : findings' = F!Reconciled(pass.held, logged, pass.builds, isNew)
    BY <1>1 DEF F!ReadCommits
  <2>2. pass # NoPass /\ f_row'.builds = pass.builds /\ k \in DOMAIN F!Reconciled(pass.held, logged, pass.builds, isNew)
    <3>1. pass # NoPass /\ f_row' = [builds |-> pass.builds, checked |-> TRUE]
      BY <1>1 DEF F!ReadCommits
    <3>2. k \in DOMAIN F!Reconciled(pass.held, logged, pass.builds, isNew)
      BY DEF F!Reconciled
    <3> QED
      BY <3>1, <3>2
  <2>3. pass.held[k] = findings[k] /\ pass.builds \in SUBSET Builds
    BY <1>0, <2>2 DEF TrackedInv, PassSees, TrackedShapes
  <2> DEFINE new == F!Reconciled(pass.held, logged, pass.builds, isNew)[k]
             opened == F!Opened(k, logged, pass.builds, isNew)
             r == F!Reason(k, findings[k], pass.builds)
  <2>4. findings'[k] = new
    BY <2>1
  <2>5. ReadLeaves(k, opened, new)
    BY <2>2, ReadOutcome
  <2>6. F!Upserted(findings[k], opened).open
    BY DEF F!Upserted, F!Opened
  <2>7. k \in F!Keys \ F!detected(pass.builds) /\ r # "none" /\ findings'[k].reason = r
    <3> HIDE DEF new, opened
    <3>1. new # F!Upserted(findings[k], opened) /\ new # findings[k]
      BY <1>0, <2>4, <2>6
    <3>2. k \in F!Keys \ F!detected(pass.builds) /\ r # "none" /\ new = [findings[k] EXCEPT !.open = FALSE, !.reason = r]
      BY <2>3, <2>5, <3>1 DEF ReadLeaves
    <3> HIDE DEF r
    <3> QED
      BY <1>0, <2>4, <3>2 DEF F!Findings
  <2>8. /\ r \in {"none", "app_removed", "build_changed", "corpus_withdrawn"}
        /\ r = "app_removed" => k[1] \notin F!AppsOf(pass.builds)
        /\ r = "build_changed" => findings[k].build \notin {b \in pass.builds : AppOf[b] = k[1]}
        /\ r = "corpus_withdrawn" =>
               (f_selection => F!Proves(findings[k].build) /\ k[2] \notin F!IdsOf(findings[k].build))
    BY <1>0, <2>3, <2>7, ReasonIsTrue DEF TrackedInv
  <2>9. r = "build_changed" => findings[k].build \notin pass.builds
    <3> HIDE DEF r
    <3> QED
      BY <2>8 DEF TrackedInv, BuildsAreOfApps
  <2> HIDE DEF r
  <2> QED
    BY <2>2, <2>7, <2>8, <2>9 DEF F!ReasonHolds, F!Proves, F!Covered, F!IdsOf
<1>2. CASE F!CleanCensus \/ F!TornCensus
  <2>1. PICK gone \in BOOLEAN : F!CloseDeparted(gone) /\ (gone => F!GoneForGood)
    BY <1>2 DEF F!CleanCensus, F!TornCensus, F!GoneForGood
  <2>2. gone /\ findings'[k] = [findings[k] EXCEPT !.open = FALSE, !.reason = "device_departed"]
    BY <1>0, <2>1 DEF F!CloseDeparted
  <2>3. findings'[k].reason = "device_departed"
    BY <1>0, <2>2 DEF F!Findings
  <2> QED
    BY <2>1, <2>2, <2>3 DEF F!ReasonHolds
<1> QED
  BY <1>0, <1>1, <1>2, OthersLeaveFindings

\* Only a commit opens latches.
LEMMA OthersOpenNoLatch ==
    ASSUME F!TrackedAssumption, TrackedInv, [F!Next]_(F!vars), ~F!ReadCommits
    PROVE  /\ DOMAIN latches' \subseteq DOMAIN latches
           /\ \A a \in DOMAIN latches' : latches'[a].open => latches'[a] = latches[a]
           /\ f_row # NoDevice => f_row' = f_row
<1>1. CASE F!CleanCensus \/ F!TornCensus
  <2>1. (\E gone \in BOOLEAN : F!CloseLatches(gone)) /\ f_row' = f_row
    BY <1>1 DEF F!CleanCensus, F!TornCensus, F!CloseDeparted, F!GoneForGood
  <2>2. PICK gone \in BOOLEAN : F!CloseLatches(gone)
    BY <2>1
  <2>3. DOMAIN latches' = DOMAIN latches
    BY <2>2 DEF F!CloseLatches
  <2>4. \A a \in DOMAIN latches : latches'[a] = latches[a] \/ ~latches'[a].open
    BY <2>2 DEF F!CloseLatches
  <2> QED
    BY <2>1, <2>3, <2>4
<1>2. CASE latches' = latches /\ (f_row # NoDevice => f_row' = f_row)
  BY <1>2
<1>3. ASSUME NEW a \in F!Apps, F!Purge(a) PROVE latches' = [x \in DOMAIN latches \ {a} |-> latches[x]] /\ f_row' = f_row
  BY <1>3 DEF F!Purge
<1>4. CASE \E a \in F!Apps : F!Purge(a)
  BY <1>3, <1>4
<1>5. CASE UNCHANGED F!vars \/ F!ReadBegins \/ F!ReadFails \/ F!ScopedRead
  BY <1>2, <1>5 DEF F!vars, F!ReadBegins, F!ReadFails, F!ScopedRead
<1>6. CASE \/ \E builds \in SUBSET Builds : F!ChangeApps(builds)
           \/ F!LeaveOrReturn
           \/ \E r \in Releases \cup {NoRelease} : F!MoveRelease(r)
           \/ F!Tick
  BY <1>2, <1>6 DEF F!ChangeApps, F!LeaveOrReturn, F!MoveRelease, F!Tick, F!Edit
<1> QED
  BY <1>1, <1>4, <1>5, <1>6 DEF F!Next

\* A latch opens where an app arrives, and there alone.
LEMMA LatchStep ==
    ASSUME F!TrackedAssumption, TrackedInv, [F!Next]_(F!vars), NEW a \in DOMAIN latches'
    PROVE  latches'[a].open /\ (a \in DOMAIN latches => ~latches[a].open) <=>
               /\ latches'[a].open
               /\ f_row # NoDevice /\ f_row.builds # {}
               /\ a \in F!AppsOf(f_row'.builds) \ F!AppsOf(f_row.builds)
<1>0. a \in DOMAIN latches /\ latches[a].open => f_row # NoDevice /\ a \in F!AppsOf(f_row.builds)
  BY DEF TrackedInv, F!OpenIsCarried
<1>1. CASE F!ReadCommits
  <2> DEFINE isNew == f_row = NoDevice
             previous == IF isNew THEN {} ELSE f_row.builds
             delta == F!latch_delta(previous, pass.builds, isNew)
  <2>1. latches' = F!Latched(delta) /\ f_row' = [builds |-> pass.builds, checked |-> TRUE]
    BY <1>1 DEF F!ReadCommits
  <2>2. delta.open = (IF isNew \/ previous = {} THEN {} ELSE F!AppsOf(pass.builds) \ F!AppsOf(previous))
    BY DEF F!latch_delta
  <2>3. delta.open = IF f_row = NoDevice \/ f_row.builds = {} THEN {} ELSE F!AppsOf(f_row'.builds) \ F!AppsOf(f_row.builds)
    BY <2>1, <2>2
  <2> HIDE DEF delta, isNew, previous
  <2>4. a \in DOMAIN latches \cup delta.open
    BY <2>1 DEF F!Latched
  <2>5. a \notin delta.open => latches'[a] = latches[a] \/ ~latches'[a].open
    BY <2>1, <2>4 DEF F!Latched
  <2> QED
    BY <1>0, <2>3, <2>4, <2>5
<1>2. CASE ~F!ReadCommits
  BY <1>0, <1>2, OthersOpenNoLatch
<1> QED
  BY <1>1, <1>2

\* A finding keeps its first sighting, and what closes it is so.
THEOREM ClosesStand == StoresSpec => ClosesAreTrue
<1>1. StoresInit => TrackedInv
  BY StoresAssumption, TrackedInit DEF StoresInit
<1>2. TrackedInv /\ [StoresNext]_stores => TrackedInv'
  BY StoresAssumption, TrackedAlone, TrackedStep
<1>3. TrackedInv /\ [StoresNext]_stores =>
          [\A k \in DOMAIN findings :
              k \in DOMAIN findings' /\ findings'[k].first = findings[k].first
                                     /\ findings'[k].basis = findings[k].basis]_(F!vars)
  BY StoresAssumption, TrackedAlone, SightingStep
<1>4. TrackedInv /\ [StoresNext]_stores => [\A k \in DOMAIN findings : F!Closes(k) => F!ReasonHolds(k)]_(F!vars)
  BY StoresAssumption, TrackedAlone, CloseStep
<1> QED
  BY <1>1, <1>2, <1>3, <1>4, PTL DEF StoresSpec, ClosesAreTrue, F!ClosesAreTrue, F!FirstSightingStays, F!CloseIsTrue

\* A latch opens exactly when a Mac that showed apps before shows one it had not.
THEOREM LatchesAreArrivals == StoresSpec => F!LatchIsAnArrival
<1>1. StoresInit => TrackedInv
  BY StoresAssumption, TrackedInit DEF StoresInit
<1>2. TrackedInv /\ [StoresNext]_stores => TrackedInv'
  BY StoresAssumption, TrackedAlone, TrackedStep
<1>3. TrackedInv /\ [StoresNext]_stores =>
          [\A a \in DOMAIN latches' :
              latches'[a].open /\ (a \in DOMAIN latches => ~latches[a].open) <=>
              /\ latches'[a].open
              /\ f_row # NoDevice /\ f_row.builds # {}
              /\ a \in F!AppsOf(f_row'.builds) \ F!AppsOf(f_row.builds)]_(F!vars)
  BY StoresAssumption, TrackedAlone, LatchStep
<1> QED
  BY <1>1, <1>2, <1>3, PTL DEF StoresSpec, F!LatchIsAnArrival

-----------------------------------------------------------------------------
(***************************************************************************)
(* What is answered of it: functions of what is kept, so that a property    *)
(* is about their values and not about steps.  No value a row can hold is   *)
(* mistaken for Unset, and what is counted is finite.                       *)
(***************************************************************************)

\* The parameters of the answers, each for any value its assumption allows.
CONSTANTS
    AppTitles, DayCeiling, ReleaseCeiling,                             \* Policy
    TapeDevices, TapeBuilds, Week, Laggard,                            \* Tape
    SeverityBands, SeverityOf, Exploited, IdCap,                       \* Served
    Texts, Empty, PartOf, Patterns, DigitsOf,                          \* Matching
    Identities, Versions, Verdicts, Scalars, Fields, Values, Attributes, Labels,   \* Evidence
    FieldLevels, KindLevels, EntryLevels, SystemApps,                  \* Changes
    Carriers, SectionLists, Strange, EA, Id, AttributeValues, Content, Absences,   \* Contract
    Unset                                                              \* what is not there

\* Two sets that share nothing are counted one after the other.
LEMMA TwoParts ==
    ASSUME NEW S, IsFiniteSet(S), NEW A, NEW B, A \cup B = S, A \cap B = {}
    PROVE  Cardinality(A) + Cardinality(B) = Cardinality(S)
<1>1. IsFiniteSet(A) /\ IsFiniteSet(B)
  BY FS_Subset
<1>2. Cardinality(A \cap B) = 0
  BY FS_EmptySet
<1>3. Cardinality(A) \in Nat /\ Cardinality(B) \in Nat
  BY <1>1, FS_CardinalityType
<1>4. Cardinality(A \cup B) = Cardinality(A) + Cardinality(B) - Cardinality(A \cap B)
  BY <1>1, FS_Union, Zenon
<1> QED
  BY <1>2, <1>3, <1>4

LEMMA ThreeParts ==
    ASSUME NEW S, IsFiniteSet(S), NEW A, NEW B, NEW X,
           A \cup B \cup X = S, A \cap B = {}, A \cap X = {}, B \cap X = {}
    PROVE  Cardinality(A) + Cardinality(B) + Cardinality(X) = Cardinality(S)
<1>1. IsFiniteSet(A \cup B) /\ IsFiniteSet(A) /\ IsFiniteSet(B) /\ IsFiniteSet(X)
  BY FS_Subset
<1>2. Cardinality(A \cup B) + Cardinality(X) = Cardinality(S)
  BY TwoParts
<1>3. Cardinality(A) + Cardinality(B) = Cardinality(A \cup B)
  BY <1>1, TwoParts
<1>4. Cardinality(A) \in Nat /\ Cardinality(B) \in Nat /\ Cardinality(X) \in Nat
  BY <1>1, FS_CardinalityType
<1> QED
  BY <1>2, <1>3, <1>4

-----------------------------------------------------------------------------
(* The patching policy.                                                     *)

V == INSTANCE Policy WITH Titles <- AppTitles, MaxDays <- DayCeiling,
                          MaxReleases <- ReleaseCeiling, Null <- Unset

\* A stored rule is read into its ceilings, and its severe limit is not over its day limit.
LEMMA LimitsAreKept ==
    ASSUME V!CeilingsAssumption, V!NullAssumption, NEW stored \in V!StoredRules
    PROVE  /\ V!Parsed(stored) \in V!Rules
           /\ V!Parsed(stored).severe # Unset /\ V!Parsed(stored).days # Unset
                  => V!Parsed(stored).severe <= V!Parsed(stored).days
<1>1. \A v, c : V!Limit(v, c) \in V!Optional(0..c)
  BY DEF V!Limit, V!Optional
<1>2. \A s \in V!Optional(0..DayCeiling) : \A d : V!Kept(s, d) \in V!Optional(0..DayCeiling)
  BY DEF V!Kept, V!Optional
<1>3. ASSUME NEW s \in V!Optional(0..DayCeiling), NEW d \in V!Optional(0..DayCeiling),
             V!Kept(s, d) # Unset, d # Unset
      PROVE  V!Kept(s, d) <= d
  BY <1>3 DEF V!Kept, V!Optional, V!CeilingsAssumption
<1> QED
  <2>1. stored.exempt \in BOOLEAN
    BY DEF V!StoredRules
  <2>2. V!Parsed(stored) = [days |-> V!Limit(stored.days, DayCeiling),
                            releases |-> V!Limit(stored.releases, ReleaseCeiling),
                            severe |-> V!Kept(V!Limit(stored.severe, DayCeiling), V!Limit(stored.days, DayCeiling)),
                            exempt |-> stored.exempt]
    BY Zenon DEF V!Parsed
  <2> QED
    BY <1>1, <1>2, <1>3, <2>1, <2>2 DEF V!Rules

Stored == V!StoredRules \cup {Unset}

LEMMA RuleFromStored ==
    ASSUME V!CeilingsAssumption, V!NullAssumption, NEW stored \in Stored, V!rule_from(stored) # Unset
    PROVE  LET rule == V!rule_from(stored) IN
           /\ rule \in V!Rules /\ (rule.exempt \/ V!judges(rule))
           /\ rule.severe # Unset /\ rule.days # Unset => rule.severe <= rule.days
<1>1. stored \in V!StoredRules /\ V!rule_from(stored) = V!Parsed(stored)
  BY DEF V!rule_from, Stored
<1>2. V!Parsed(stored).exempt \/ V!judges(V!Parsed(stored))
  BY <1>1 DEF V!rule_from
<1> QED
  BY <1>1, <1>2, LimitsAreKept

LEMMA DefaultFromStored ==
    ASSUME NEW stored, V!default_from(stored) # Unset
    PROVE  V!default_from(stored) = V!rule_from(stored) /\ V!judges(V!rule_from(stored))
  BY DEF V!default_from

\* Whatever a tenant's settings row holds, the rule in force for a title is in its ceilings,
\* is no looser for a severe update than for any other, and judges or exempts: policy.py's
\* from_stored and for_title.
THEOREM RulesInForceAreSane ==
    ASSUME V!CeilingsAssumption, V!NullAssumption,
           NEW default \in Stored, NEW overrides \in [AppTitles -> Stored]
    PROVE  V!RulesAreSane(default, overrides)
<1> DEFINE rules == V!from_stored(default, overrides)
<1> SUFFICES ASSUME NEW t \in AppTitles, V!for_title(rules, t) # Unset
             PROVE  LET rule == V!for_title(rules, t) IN
                    /\ rule \in V!Rules /\ (rule.exempt \/ V!judges(rule))
                    /\ rule.severe # Unset /\ rule.days # Unset => rule.severe <= rule.days
  BY DEF V!RulesAreSane
<1>1. PICK stored \in Stored : V!for_title(rules, t) = V!rule_from(stored)
  <2>1. CASE rules.overrides[t] # Unset
    <3>1. V!for_title(rules, t) = V!rule_from(overrides[t])
      BY <2>1 DEF V!for_title, V!from_stored
    <3> QED
      BY <3>1
  <2>2. CASE rules.overrides[t] = Unset
    <3>1. V!for_title(rules, t) = V!default_from(default)
      BY <2>2 DEF V!for_title, V!from_stored
    <3> QED
      BY <3>1, DefaultFromStored
  <2> QED
    BY <2>1, <2>2
<1> HIDE DEF rules
<1> QED
  BY <1>1, RuleFromStored

\* The WHERE clause of the counts (out_of_policy in api/jamf_patch.py) counts a pair exactly
\* when policy.judge, which the page calls for one build, says it is out.
THEOREM CountsAreVerdicts ==
    ASSUME V!CeilingsAssumption, V!NullAssumption,
           NEW default \in Stored, NEW overrides \in [AppTitles -> Stored],
           NEW t \in AppTitles, NEW pair \in V!Pairs, NEW now \in Int
    PROVE  V!CountIsVerdict(default, overrides, t, pair, now)
<1> DEFINE rules == V!from_stored(default, overrides)
           rule == V!for_title(rules, t)
           limit(field) == V!_title_limit(rules, t, field)
<1>1. CASE rule = Unset
  <2>1. limit("days") = Unset /\ limit("releases") = Unset /\ limit("severe") = Unset
    BY <1>1 DEF V!for_title, V!_title_limit
  <2>2. V!SqlDays(rules, t, pair) = Unset
    BY <2>1 DEF V!SqlDays
  <2>3. ~V!out_of_policy(rules, t, pair, now)
    BY <2>1, <2>2 DEF V!out_of_policy, V!Late, V!Missed
  <2>4. V!judge(pair, rule, now) = "not_judged"
    BY <1>1 DEF V!judge
  <2> QED
    BY <2>3, <2>4 DEF V!CountIsVerdict
<1>2. CASE rule # Unset
  <2>1. rule \in V!Rules /\ (rule.exempt \/ V!judges(rule))
    BY <1>2, RulesInForceAreSane DEF V!RulesAreSane
  <2>2. limit("days") = rule.days /\ limit("releases") = rule.releases /\ limit("severe") = rule.severe
    BY <1>2, Zenon DEF V!for_title, V!_title_limit
  <2>3. t \in V!Exempt(rules) <=> rule.exempt
    \* The organization's rule is never exempt.
    <3>1. rules.overrides[t] = Unset => V!judges(rule)
      <4>1. rules.overrides[t] = Unset => rule = V!default_from(default)
        BY DEF V!for_title, V!from_stored
      <4> QED
        BY <1>2, <4>1, DefaultFromStored
    <3>2. V!judges(rule) => ~rule.exempt
      BY DEF V!judges
    <3>3. rules.overrides[t] # Unset => rule = rules.overrides[t]
      BY DEF V!for_title
    <3> HIDE DEF rules, rule
    <3> QED
      BY <3>1, <3>2, <3>3 DEF V!Exempt
  <2>4. CASE rule.exempt
    BY <1>2, <2>3, <2>4 DEF V!CountIsVerdict, V!out_of_policy, V!judge, V!judges
  <2>5. CASE ~rule.exempt
    <3>1. V!judges(rule)
      BY <2>1, <2>5
    <3>2. V!reads_severity(rules) \/ rule.severe = Unset
      <4>1. rule \in {rules.default} \cup {rules.overrides[u] : u \in AppTitles}
        BY DEF V!for_title
      <4> HIDE DEF rules, rule
      <4> QED
        BY <1>2, <3>1, <4>1 DEF V!reads_severity
    <3>3. V!SqlDays(rules, t, pair) = V!days_for(rule, pair.severe)
      <4> HIDE DEF rules, rule
      <4> QED
        BY <2>2, <3>2 DEF V!SqlDays, V!days_for, V!_severe
    <3>4. V!judge(pair, rule, now) = "out" <=>
              /\ pair.state = "behind"
              /\ V!Late(pair, V!days_for(rule, pair.severe), now) \/ V!Missed(pair, rule.releases)
      <4>1. pair.state \in {"latest", "ahead", "behind", "unknown"}
        BY DEF V!Pairs
      <4> HIDE DEF rules, rule
      <4> QED
        BY <1>2, <3>1, <4>1 DEF V!judge
    <3>5. V!out_of_policy(rules, t, pair, now) <=>
              /\ pair.state = "behind"
              /\ V!Late(pair, V!days_for(rule, pair.severe), now) \/ V!Missed(pair, rule.releases)
      <4> HIDE DEF rules, rule
      <4> QED
        BY <2>2, <2>3, <2>5, <3>3 DEF V!out_of_policy
    <3> QED
      BY <3>4, <3>5 DEF V!CountIsVerdict
  <2> QED
    BY <2>4, <2>5
<1> QED
  BY <1>1, <1>2

-----------------------------------------------------------------------------
(* The posture tape.                                                        *)

N == INSTANCE Tape WITH Devices <- TapeDevices, Builds <- TapeBuilds, Titles <- AppTitles, None <- Unset

LEMMA TapeCounts == \A S : N!Cardinality(S) = Cardinality(S)
  BY DEF N!Cardinality, Cardinality

\* A fleet as the tables hold one.
Fleets ==
    [device : [TapeDevices -> [active : BOOLEAN, departed : Int \cup {Unset}, seen : Int \cup {Unset}]],
     holds : SUBSET (TapeDevices \X TapeBuilds),
     build : [TapeBuilds ->
        [mac : BOOLEAN,
         match : [AppTitles -> {Unset} \cup [state : {"latest", "behind", "unknown", "ahead"}, newer : Int \cup {Unset}]],
         answer : {Unset} \cup
                    {a \in [covered : BOOLEAN, epoch : Int \cup {Unset}, total : Nat, kev : Nat] : a.kev <= a.total}]],
     epoch : Int \cup {Unset}]

Finite == IsFiniteSet(TapeDevices) /\ IsFiniteSet(TapeBuilds) /\ IsFiniteSet(AppTitles)

\* The devices a day's departures explain are those by which the two fleet counts differ
\* (posture.py: the count of a day is the count of the day before without who left).
THEOREM TapeDepartedIsTheGap ==
    ASSUME N!TapeAssumption, Finite, NEW f \in Fleets, NEW on \in Int
    PROVE  N!DepartedIsTheGap(f, on)
<1> DEFINE now == N!_devices_on_active_connections(f, on)
           before == N!_devices_on_active_connections(f, on - 1)
           went == before \ N!_in_the_fleet(f, on)
<1>1. \A d \in TapeDevices : N!gone_for_good(f, d, on - 1) => N!gone_for_good(f, d, on)
  BY DEF N!gone_for_good, N!left_the_fleet, N!TapeAssumption, Fleets
<1>2. now \subseteq before /\ before \subseteq TapeDevices
  BY <1>1 DEF N!_devices_on_active_connections, N!_in_the_fleet
<1>3. now \cup went = before /\ now \cap went = {}
  BY <1>2 DEF N!_devices_on_active_connections, N!_in_the_fleet
<1>4. Cardinality(now) + Cardinality(went) = Cardinality(before)
  <2>1. IsFiniteSet(before)
    BY <1>2, FS_Subset DEF Finite
  <2> HIDE DEF now, before, went
  <2> QED
    BY <1>3, <2>1, TwoParts
<1> QED
  BY <1>4, TapeCounts DEF N!DepartedIsTheGap, N!Values

\* What is neither affected nor unknown on the tape is what was answered with nothing found:
\* the chart that subtracts (posture.py's _vuln_values) shows no build of another kind.
THEOREM TapeRestIsClean ==
    ASSUME N!TapeAssumption, Finite, NEW f \in Fleets, NEW on \in Int
    PROVE  N!RestIsClean(f, on)
<1> DEFINE installed == N!_installed(f, on)
           answered(b) == N!served(f.build[b].answer, f.epoch)
           affected == {b \in installed : answered(b) /\ f.build[b].answer.total > 0}
           unknown == {b \in installed : ~answered(b)}
           clean == {b \in installed : answered(b) /\ f.build[b].answer.total = 0}
           exploited == {b \in installed : answered(b) /\ f.build[b].answer.kev > 0}
           devices == {d \in N!_devices_on_active_connections(f, on) : \E b \in affected : <<d, b>> \in f.holds}
<1>1. IsFiniteSet(installed) /\ installed \subseteq TapeBuilds
  <2>1. installed \subseteq TapeBuilds
    BY DEF N!_installed
  <2> HIDE DEF installed
  <2> QED
    BY <2>1, FS_Subset DEF Finite
<1>2. \A b \in installed : answered(b) =>
          f.build[b].answer.total \in Nat /\ f.build[b].answer.kev \in Nat /\ f.build[b].answer.kev <= f.build[b].answer.total
  <2> SUFFICES ASSUME NEW b \in TapeBuilds, N!served(f.build[b].answer, f.epoch)
               PROVE  /\ f.build[b].answer.total \in Nat /\ f.build[b].answer.kev \in Nat
                      /\ f.build[b].answer.kev <= f.build[b].answer.total
    BY <1>1
  <2> QED
    BY DEF Fleets, N!served
<1> HIDE DEF installed, answered
<1>3. affected \cup unknown \cup clean = installed
  BY <1>2
<1>4. affected \cap unknown = {} /\ affected \cap clean = {} /\ unknown \cap clean = {}
  BY <1>2
<1>5. Cardinality(affected) + Cardinality(unknown) + Cardinality(clean) = Cardinality(installed)
  <2> HIDE DEF affected, unknown, clean
  <2> QED
    BY <1>1, <1>3, <1>4, ThreeParts
<1>6. exploited \subseteq affected
  BY <1>2
<1>7. Cardinality(exploited) <= Cardinality(affected)
  <2>1. IsFiniteSet(affected)
    BY <1>1, FS_Subset
  <2> HIDE DEF affected, exploited
  <2> QED
    BY <1>6, <2>1, FS_Subset
<1>8. Cardinality(affected) = 0 => Cardinality(devices) = 0
  <2>1. IsFiniteSet(affected)
    BY <1>1, FS_Subset
  <2>2. Cardinality(affected) = 0 => affected = {}
    <3> HIDE DEF affected
    <3> QED
      BY <2>1, FS_EmptySet
  <2>3. affected = {} => devices = {}
    OBVIOUS
  <2> QED
    BY <2>2, <2>3, FS_EmptySet
<1>9. Cardinality(affected) \in Nat /\ Cardinality(unknown) \in Nat /\ Cardinality(clean) \in Nat
  BY <1>1, FS_Subset, FS_CardinalityType
<1>10. N!_vuln_values(f, on) = [affected |-> Cardinality(affected), kev |-> Cardinality(exploited),
                                unknown |-> Cardinality(unknown), devices |-> Cardinality(devices)]
  BY TapeCounts DEF N!_vuln_values, installed, answered
<1>11. N!Values(f, on).installed = Cardinality(installed)
  BY TapeCounts DEF N!Values, installed
<1>12. {b \in N!_installed(f, on) : N!served(f.build[b].answer, f.epoch) /\ f.build[b].answer.total = 0} = clean
  BY DEF installed, answered
<1> HIDE DEF affected, unknown, clean, exploited, devices
<1> DEFINE v == N!_vuln_values(f, on)
<1>13. /\ v.affected = Cardinality(affected) /\ v.kev = Cardinality(exploited)
       /\ v.unknown = Cardinality(unknown) /\ v.devices = Cardinality(devices)
  BY <1>10
<1>14. N!Cardinality({b \in N!_installed(f, on) :
                         N!served(f.build[b].answer, f.epoch) /\ f.build[b].answer.total = 0}) = Cardinality(clean)
  BY <1>12, TapeCounts
<1> HIDE DEF v
<1>15. /\ N!Values(f, on).installed - v.affected - v.unknown = Cardinality(clean)
       /\ v.kev <= v.affected
       /\ v.affected = 0 => v.devices = 0
  BY <1>5, <1>7, <1>8, <1>9, <1>11, <1>13
<1> QED
  BY <1>14, <1>15 DEF N!RestIsClean, v

-----------------------------------------------------------------------------
\* A pair is in one part only, and in one: a title matches at most one build of a device,
\* and a match is in one part.
THEOREM TapePartsAddUp ==
    ASSUME N!TapeAssumption, Finite, NEW f \in Fleets, NEW on \in Int
    PROVE  N!PartsAddUp(f, on)
<1> SUFFICES ASSUME N!OneBuildEach(f, on)
             PROVE  /\ N!Part(f, on, "latest") + N!Part(f, on, "laggard") + N!Part(f, on, "behind")
                         + N!Part(f, on, "unknown") + N!Part(f, on, "ahead") = N!Total(f, on)
                    /\ N!Part(f, on, "laggard") + N!Part(f, on, "behind") >= Cardinality(N!Laggards(f, on))
  BY TapeCounts DEF N!PartsAddUp
<1> DEFINE in(part) == {m \in N!Answered(f) : N!PartOf(m, on) = part}
           pairs(part) == N!_patch_pairs(f, on, in(part))
           all == N!_patch_pairs(f, on, N!Answered(f))
<1>1. \A m \in N!Answered(f) : m.state \in {"latest", "behind", "unknown", "ahead"}
  <2>1. ASSUME NEW b \in TapeBuilds, NEW t \in AppTitles, f.build[b].match[t] # Unset
        PROVE  f.build[b].match[t].state \in {"latest", "behind", "unknown", "ahead"}
    <3>1. f.build[b].match[t] \in {Unset} \cup [state : {"latest", "behind", "unknown", "ahead"}, newer : Int \cup {Unset}]
      BY DEF Fleets
    <3> QED
      BY <2>1, <3>1
  <2> QED
    BY <2>1 DEF N!Answered
<1>2. \A m \in N!Answered(f) :
          /\ N!PartOf(m, on) \in {"latest", "laggard", "behind", "unknown", "ahead"}
          /\ m.state = "behind" <=> N!PartOf(m, on) \in {"laggard", "behind"}
  BY <1>1 DEF N!PartOf
\* One build of a title on a device.
<1>3. \A d \in TapeDevices, t \in AppTitles, b, c \in TapeBuilds :
          /\ <<d, b>> \in f.holds /\ f.build[b].match[t] # Unset
          /\ <<d, c>> \in f.holds /\ f.build[c].match[t] # Unset
          => b = c
  <2> SUFFICES ASSUME NEW d \in TapeDevices, NEW t \in AppTitles, NEW b \in TapeBuilds, NEW c \in TapeBuilds,
                      <<d, b>> \in f.holds, f.build[b].match[t] # Unset,
                      <<d, c>> \in f.holds, f.build[c].match[t] # Unset,
                      b # c
               PROVE  FALSE
    OBVIOUS
  <2> DEFINE of == {x \in TapeBuilds : <<d, x>> \in f.holds /\ f.build[x].match[t] # Unset}
  <2>1. Cardinality(of) <= 1
    BY TapeCounts DEF N!OneBuildEach
  <2>2. b \in of /\ c \in of /\ of \subseteq TapeBuilds
    OBVIOUS
  <2> HIDE DEF of
  <2>3. IsFiniteSet(of) /\ IsFiniteSet({b, c}) /\ Cardinality({b, c}) = 2
    <3>1. IsFiniteSet({b}) /\ Cardinality({b}) = 1
      BY FS_Singleton
    <3>2. {b, c} = {b} \cup {c}
      OBVIOUS
    <3>3. IsFiniteSet({b} \cup {c}) /\ Cardinality({b} \cup {c}) = Cardinality({b}) + 1
      <4> DEFINE one == {b}
      <4>1. c \notin one
        OBVIOUS
      <4> HIDE DEF one
      <4> QED
        BY <3>1, <4>1, FS_AddElement DEF one
    <3>4. IsFiniteSet(of)
      BY <2>2, FS_Subset DEF Finite
    <3> QED
      BY <3>1, <3>2, <3>3, <3>4
  <2>4. Cardinality({b, c}) <= Cardinality(of) /\ Cardinality(of) \in Nat
    BY <2>2, <2>3, FS_Subset, FS_CardinalityType
  <2> QED
    BY <2>1, <2>3, <2>4
<1>4. \A p, q : p # q => pairs(p) \cap pairs(q) = {}
  <2> SUFFICES ASSUME NEW p, NEW q, NEW x \in pairs(p), x \in pairs(q) PROVE p = q
    OBVIOUS
  <2>1. PICK d \in TapeDevices, t \in AppTitles : x = <<d, t>>
    BY DEF N!_patch_pairs, N!_in_the_fleet
  <2>2. PICK b \in TapeBuilds : <<d, b>> \in f.holds /\ f.build[b].match[t] \in in(p)
    BY <2>1 DEF N!_patch_pairs
  <2>3. PICK c \in TapeBuilds : <<d, c>> \in f.holds /\ f.build[c].match[t] \in in(q)
    BY <2>1 DEF N!_patch_pairs
  <2>4. f.build[b].match[t] # Unset /\ f.build[c].match[t] # Unset
    BY <2>2, <2>3 DEF N!Answered
  <2>5. b = c
    BY <1>3, <2>2, <2>3, <2>4
  <2> QED
    BY <2>2, <2>3, <2>5
<1>5. all = pairs("latest") \cup pairs("laggard") \cup pairs("behind") \cup pairs("unknown") \cup pairs("ahead")
  <2>1. N!Answered(f) = in("latest") \cup in("laggard") \cup in("behind") \cup in("unknown") \cup in("ahead")
    BY <1>2
  <2> HIDE DEF in
  <2> QED
    BY <2>1 DEF N!_patch_pairs
<1>6. IsFiniteSet(all) /\ \A p : IsFiniteSet(pairs(p))
  <2>1. IsFiniteSet(TapeDevices \X AppTitles)
    BY FS_Product DEF Finite
  <2>2. all \subseteq TapeDevices \X AppTitles /\ \A p : pairs(p) \subseteq TapeDevices \X AppTitles
    BY DEF N!_patch_pairs, N!_in_the_fleet
  <2> HIDE DEF all, pairs
  <2> QED
    BY <2>1, <2>2, FS_Subset
<1>7. pairs("laggard") \cup pairs("behind") = N!_patch_pairs(f, on, {m \in N!Answered(f) : m.state = "behind"})
  <2>1. {m \in N!Answered(f) : m.state = "behind"} = in("laggard") \cup in("behind")
    BY <1>2
  <2> HIDE DEF in
  <2> QED
    BY <2>1 DEF N!_patch_pairs
<1>8. N!Laggards(f, on) = {p[2] : p \in pairs("laggard") \cup pairs("behind")}
  BY <1>7 DEF N!Laggards
<1>9. \A p : Cardinality(pairs(p)) \in Nat /\ N!Part(f, on, p) = Cardinality(pairs(p))
  BY <1>6, FS_CardinalityType, TapeCounts DEF N!Part
<1>10. N!Total(f, on) = Cardinality(all)
  BY TapeCounts DEF N!Total
<1> HIDE DEF pairs
<1> DEFINE late == pairs("laggard") \cup pairs("behind")
<1>11. Cardinality(pairs("laggard")) + Cardinality(pairs("behind")) = Cardinality(late) /\ IsFiniteSet(late)
  <2>1. pairs("laggard") \cap pairs("behind") = {}
    BY <1>4
  <2> DEFINE p == pairs("laggard")
             q == pairs("behind")
  <2>2. IsFiniteSet(p) /\ IsFiniteSet(q)
    BY <1>6
  <2> HIDE DEF p, q
  <2>3. IsFiniteSet(p \cup q)
    BY <2>2, FS_Union
  <2>4. Cardinality(p) + Cardinality(q) = Cardinality(p \cup q)
    BY <2>1, <2>3, TwoParts DEF p, q
  <2> QED
    BY <2>3, <2>4 DEF p, q
<1>12. Cardinality({p[2] : p \in late}) <= Cardinality(late)
  <2> HIDE DEF late
  <2> DEFINE lagged == {p[2] : p \in late}
             second == [p \in late |-> p[2]]
  <2>1. second \in Surjection(late, lagged)
    BY DEF Surjection
  <2> HIDE DEF lagged, second
  <2>2. Cardinality(lagged) <= Cardinality(late)
    BY <1>11, <2>1, FS_Surjection
  <2> QED
    BY <2>2 DEF lagged
<1> DEFINE early == pairs("latest") \cup pairs("unknown") \cup pairs("ahead")
<1>13. /\ Cardinality(pairs("latest")) + Cardinality(pairs("unknown")) + Cardinality(pairs("ahead")) = Cardinality(early)
       /\ IsFiniteSet(early)
  <2>1. /\ pairs("latest") \cap pairs("unknown") = {} /\ pairs("latest") \cap pairs("ahead") = {}
        /\ pairs("unknown") \cap pairs("ahead") = {}
    BY <1>4
  <2>2. IsFiniteSet(early)
    <3>1. early \subseteq all
      BY <1>5
    <3> HIDE DEF early, all
    <3> QED
      BY <1>6, <3>1, FS_Subset
  <2> QED
    BY <2>1, <2>2, ThreeParts
<1>14. Cardinality(early) + Cardinality(late) = Cardinality(all)
  <2>1. early \cup late = all
    BY <1>5
  <2>2. early \cap late = {}
    <3>1. pairs("latest") \cap pairs("laggard") = {} /\ pairs("latest") \cap pairs("behind") = {}
      BY <1>4
    <3>2. pairs("unknown") \cap pairs("laggard") = {} /\ pairs("unknown") \cap pairs("behind") = {}
      BY <1>4
    <3>3. pairs("ahead") \cap pairs("laggard") = {} /\ pairs("ahead") \cap pairs("behind") = {}
      BY <1>4
    <3> QED
      BY <3>1, <3>2, <3>3
  <2> HIDE DEF early, late, all
  <2> QED
    BY <1>6, <2>1, <2>2, TwoParts
<1> HIDE DEF late, early, all
<1> QED
  BY <1>8, <1>9, <1>10, <1>11, <1>12, <1>13, <1>14 DEF late

-----------------------------------------------------------------------------
(* Stored answers and the catalog list.                                     *)

A == INSTANCE Served WITH Bands <- SeverityBands, BandOf <- SeverityOf, Kev <- Exploited, Cap <- IdCap, None <- Unset

LEMMA ServedCounts == \A S : A!Cardinality(S) = Cardinality(S)
  BY DEF A!Cardinality, Cardinality

\* Nothing that is stored or told is mistaken for nothing.
ServedAssumption ==
    /\ IdCap \in Nat /\ Unset \notin Int /\ Unset # "covered"
    /\ Unset \notin SeverityBands /\ "total" \notin SeverityBands /\ "kev" \notin SeverityBands
    /\ \A t, k, b : [total |-> t, kev |-> k, bands |-> b] # Unset
    /\ \A a, c, i, t : [assessment |-> a, counts |-> c, ids |-> i, truncated |-> t] # Unset
    /\ \A v, a, c, o, n : A!Effect(v, a, c, o, n) # Unset

\* What an epoch holds of a build is a set of findings, or nothing.
Library(holding) == \A build : holding[build] = Unset \/ IsFiniteSet(holding[build])

\* A row as the judge left it, of any epoch, with its counts whole or broken.
Written(app) ==
    \E holding, build, target, signature, devices, matched :
        /\ Library(holding)
        /\ LET whole == A!Entry(holding, build, target, signature, devices, matched)
           IN  app = whole \/ app = A!Broken(whole)

\* What the judge writes of a build: no count is over the total, and a list that is not
\* cut short is all the findings.
Sound(answer) ==
    /\ answer.counts # Unset =>
          /\ answer.counts.total \in Nat
          /\ answer.counts.kev \in Nat /\ answer.counts.kev <= answer.counts.total
          /\ \A band \in SeverityBands : answer.counts.bands[band] \in Nat /\ answer.counts.bands[band] <= answer.counts.total
          /\ ~answer.truncated => IsFiniteSet(answer.ids) /\ Cardinality(answer.ids) = answer.counts.total

LEMMA CappedIsWhole ==
    ASSUME ServedAssumption, NEW ids, IsFiniteSet(ids), ~(Cardinality(ids) > IdCap)
    PROVE  A!Capped(ids) = ids
<1>1. \E S \in SUBSET ids : Cardinality(S) = Cardinality(ids)
  OBVIOUS
<1>2. A!Capped(ids) = CHOOSE S \in SUBSET ids : Cardinality(S) = Cardinality(ids)
  BY ServedCounts DEF A!Capped
<1>3. A!Capped(ids) \in SUBSET ids /\ Cardinality(A!Capped(ids)) = Cardinality(ids)
  BY <1>1, <1>2
<1> QED
  BY <1>3, FS_Subset

LEMMA JudgedIsSound ==
    ASSUME ServedAssumption, NEW holding, Library(holding), NEW build
    PROVE  LET answer == A!Judged(holding, build) IN
           /\ Sound(answer)
           /\ answer.assessment = "covered" => answer.counts # Unset
           /\ answer.assessment \in {"covered", Unset}
           /\ build = Unset => answer.assessment = Unset
<1> DEFINE answer == A!Judged(holding, build)
           ids == holding[build]
<1>1. CASE build = Unset \/ ids = Unset
  <2>1. answer = A!NoAnswer
    BY <1>1 DEF A!Judged
  <2> QED
    BY <2>1 DEF A!NoAnswer, Sound, ServedAssumption
<1>2. CASE build # Unset /\ ids # Unset
  <2>1. IsFiniteSet(ids)
    BY <1>2 DEF Library
  <2> DEFINE counts == [total |-> Cardinality(ids), kev |-> Cardinality(ids \cap Exploited),
                        bands |-> [b \in SeverityBands |-> Cardinality({i \in ids : SeverityOf[i] = b})]]
  <2>2. answer = [assessment |-> "covered", counts |-> counts,
                  ids |-> A!Capped(ids), truncated |-> Cardinality(ids) > IdCap]
    BY <1>2, ServedCounts DEF A!Judged, A!Covered
  <2>3. counts # Unset
    BY DEF ServedAssumption
  <2>4. counts.total \in Nat /\ counts.kev \in Nat /\ counts.kev <= counts.total
    <3>1. IsFiniteSet(ids \cap Exploited) /\ Cardinality(ids \cap Exploited) <= Cardinality(ids)
      BY <2>1, FS_Subset
    <3> QED
      BY <2>1, <3>1, FS_CardinalityType
  <2>5. ASSUME NEW band \in SeverityBands
        PROVE  counts.bands[band] \in Nat /\ counts.bands[band] <= counts.total
    <3> DEFINE T == {i \in ids : SeverityOf[i] = band}
    <3>1. T \in SUBSET ids
      OBVIOUS
    <3>2. counts.bands[band] = Cardinality(T) /\ counts.total = Cardinality(ids)
      OBVIOUS
    <3> HIDE DEF T, counts
    <3>3. IsFiniteSet(T) /\ Cardinality(T) <= Cardinality(ids)
      BY <2>1, <3>1, FS_Subset
    <3> QED
      BY <2>1, <3>2, <3>3, FS_CardinalityType
  <2>6. ~answer.truncated => IsFiniteSet(answer.ids) /\ Cardinality(answer.ids) = answer.counts.total
    <3>1. answer.ids = A!Capped(ids) /\ answer.counts.total = Cardinality(ids)
      BY <2>2
    <3>2. answer.truncated = (Cardinality(ids) > IdCap)
      <4> HIDE DEF answer, counts, ids
      <4> QED
        BY <2>2
    <3>3. ~(Cardinality(ids) > IdCap) => A!Capped(ids) = ids
      BY <2>1, CappedIsWhole
    <3> HIDE DEF answer, ids
    <3> QED
      BY <2>1, <3>1, <3>2, <3>3
  <2>7. answer.counts = counts /\ answer.assessment = "covered"
    BY <2>2
  <2> HIDE DEF counts, answer
  <2>8. Sound(answer)
    BY <2>4, <2>5, <2>6, <2>7 DEF Sound
  <2> QED
    BY <1>2, <2>3, <2>7, <2>8 DEF answer
<1> QED
  BY <1>1, <1>2

\* What a row is, for the properties: two sound answers, the second of the version to update
\* to, whole where it is an answer at all.
LEMMA RowIsSound ==
    ASSUME ServedAssumption, NEW app, Written(app)
    PROVE  /\ Sound(app.answer) /\ Sound(app.target)
           /\ app.target.assessment = "covered" => app.target.counts # Unset /\ app.version # Unset
           /\ app.answer.assessment \in {"covered", Unset}
           /\ app.version = app.build /\ app.answer.counts # Unset => app.target.counts = app.answer.counts
           /\ app.answer # Unset
<1>1. PICK holding, build, target, signature, devices, matched :
          /\ Library(holding)
          /\ LET whole == A!Entry(holding, build, target, signature, devices, matched)
             IN  app = whole \/ app = A!Broken(whole)
  BY DEF Written
<1> DEFINE mine == A!Judged(holding, build)
           theirs == A!Judged(holding, target)
           whole == A!Entry(holding, build, target, signature, devices, matched)
<1>2. /\ whole = [build |-> build, version |-> target, signature |-> signature, devices |-> devices,
                 matched |-> matched, answer |-> mine, target |-> theirs]
  BY DEF A!Entry
<1>3. mine = [assessment |-> mine.assessment, counts |-> mine.counts, ids |-> mine.ids, truncated |-> mine.truncated]
  BY DEF A!Judged, A!NoAnswer
<1>4. /\ Sound(mine) /\ Sound(theirs) /\ mine.assessment \in {"covered", Unset}
      /\ theirs.assessment = "covered" => theirs.counts # Unset /\ target # Unset
  <2>1. target = Unset => theirs.assessment # "covered"
    BY <1>1, JudgedIsSound DEF ServedAssumption
  <2> HIDE DEF mine, theirs
  <2> QED
    BY <1>1, <2>1, JudgedIsSound DEF mine, theirs
<1> HIDE DEF mine, theirs
<1>5. CASE app = whole
  <2>1. mine # Unset
    BY <1>3 DEF ServedAssumption
  <2>2. target = build => theirs = mine
    BY DEF mine, theirs
  <2> QED
    BY <1>2, <1>4, <1>5, <2>1, <2>2
<1>6. CASE app = A!Broken(whole)
  <2> DEFINE broken == [mine EXCEPT !.counts = Unset]
  <2>1. broken = [assessment |-> mine.assessment, counts |-> Unset, ids |-> mine.ids, truncated |-> mine.truncated]
    BY <1>3
  <2>2. app = [build |-> build, version |-> target, signature |-> signature, devices |-> devices,
               matched |-> matched, answer |-> broken, target |-> theirs]
    BY <1>2, <1>6 DEF A!Broken
  <2>3. Sound(broken) /\ broken # Unset /\ broken.assessment = mine.assessment /\ broken.counts = Unset
    BY <2>1 DEF Sound, ServedAssumption
  <2> HIDE DEF broken
  <2> QED
    BY <1>4, <2>2, <2>3
<1> QED
  BY <1>1, <1>5, <1>6

\* What the three lists have of a row.
Found(app, epoch) == A!served(app, epoch) /\ app.answer.counts # Unset /\ app.answer.counts.total > 0
Clean(app, epoch) == A!served(app, epoch) /\ app.answer.counts # Unset /\ app.answer.counts.total = 0
Unheard(app, epoch) == ~A!served(app, epoch) \/ app.answer.counts = Unset

LEMMA TotalIsCounted ==
    ASSUME ServedAssumption, NEW answer
    PROVE  /\ A!counted(answer, "total") = IF answer.counts = Unset THEN Unset ELSE answer.counts.total
           /\ A!counted(answer, "kev") = IF answer.counts = Unset THEN Unset ELSE answer.counts.kev
           /\ \A band \in SeverityBands :
                 A!counted(answer, band) = IF answer.counts = Unset THEN Unset ELSE answer.counts.bands[band]
  BY DEF A!counted, ServedAssumption

LEMMA MatchesSay ==
    ASSUME ServedAssumption, NEW app, Written(app), NEW epoch
    PROVE  /\ A!Matches(app, "all", epoch)
           /\ A!Matches(app, "findings", epoch) <=> Found(app, epoch)
           /\ A!Matches(app, "clean", epoch) <=> Clean(app, epoch)
           /\ A!Matches(app, "unknown_app", epoch) <=> Unheard(app, epoch)
           /\ A!Matches(app, "kev", epoch) => Found(app, epoch)
           /\ A!Matches(app, "patchable", epoch) => Found(app, epoch)
<1>1. app.answer.counts # Unset =>
          /\ app.answer.counts.total \in Nat /\ app.answer.counts.total # Unset
          /\ app.answer.counts.kev \in Nat /\ app.answer.counts.kev <= app.answer.counts.total
  BY RowIsSound DEF Sound, ServedAssumption
<1>2. Unset # 0
  BY DEF ServedAssumption
<1>3. /\ A!counted(app.answer, "total") = IF app.answer.counts = Unset THEN Unset ELSE app.answer.counts.total
      /\ A!counted(app.answer, "kev") = IF app.answer.counts = Unset THEN Unset ELSE app.answer.counts.kev
  BY TotalIsCounted
<1>4. A!Matches(app, "all", epoch)
  BY DEF A!Matches
<1>5. A!Matches(app, "findings", epoch) <=> Found(app, epoch)
  BY <1>1, <1>2, <1>3 DEF A!Matches, Found, A!Above
<1>6. A!Matches(app, "clean", epoch) <=> Clean(app, epoch)
  BY <1>1, <1>2, <1>3 DEF A!Matches, Clean
<1>7. A!Matches(app, "unknown_app", epoch) <=> Unheard(app, epoch)
  BY <1>1, <1>2, <1>3 DEF A!Matches, Unheard
<1>8. A!Matches(app, "kev", epoch) => Found(app, epoch)
  BY <1>1, <1>2, <1>3 DEF A!Matches, Found, A!Above
<1>9. A!Matches(app, "patchable", epoch) => Found(app, epoch)
  BY <1>1, <1>2, <1>3 DEF A!Matches, Found, A!Above
<1> QED
  BY <1>4, <1>5, <1>6, <1>7, <1>8, <1>9

\* The rows a list's filters let through.
Chosen(apps, installed, join) ==
    {app \in apps : /\ installed => app.devices > 0
                    /\ join = "matched" => app.matched
                    /\ join = "unmatched" => ~app.matched}
Passed(apps, vuln, band, installed, join, epoch) ==
    {app \in Chosen(apps, installed, join) :
        /\ A!Matches(app, vuln, epoch)
        /\ band # Unset => A!served(app, epoch) /\ A!Above(A!counted(app.answer, band), 0)}

Page(apps, vuln, band, installed, join, asof, epoch) ==
    A!list_catalog(apps, A!Request(vuln, band, installed, join), asof, epoch)

LEMMA PageIsFiltered ==
    ASSUME NEW apps, NEW asof, asof # Unset, NEW vuln, NEW band, NEW installed \in BOOLEAN, NEW join, NEW epoch
    PROVE  /\ Page(apps, vuln, band, installed, join, asof, epoch).items = Passed(apps, vuln, band, installed, join, epoch)
           /\ Page(apps, vuln, band, installed, join, asof, epoch).total
                 = Cardinality(Passed(apps, vuln, band, installed, join, epoch))
<1> DEFINE request == A!Request(vuln, band, installed, join)
           listed == {app \in apps :
                        /\ request.installed_only => app.devices > 0
                        /\ request.jamf = "matched" => app.matched
                        /\ request.jamf = "unmatched" => ~app.matched
                        /\ A!Matches(app, request.vuln, epoch)
                        /\ request.band # Unset =>
                              A!served(app, epoch) /\ A!Above(A!counted(app.answer, request.band), 0)}
<1>1. request.vuln = vuln /\ request.band = band /\ request.jamf = join /\ request.installed_only = installed
  BY DEF A!Request
<1>2. listed = Passed(apps, vuln, band, installed, join, epoch)
  <2> HIDE DEF request
  <2>1. listed = {app \in apps :
                    /\ installed => app.devices > 0
                    /\ join = "matched" => app.matched
                    /\ join = "unmatched" => ~app.matched
                    /\ A!Matches(app, vuln, epoch)
                    /\ band # Unset => A!served(app, epoch) /\ A!Above(A!counted(app.answer, band), 0)}
    BY <1>1, Zenon
  <2> QED
    BY <2>1 DEF Passed, Chosen
<1>3. /\ A!list_catalog(apps, request, asof, epoch).items = listed
      /\ A!list_catalog(apps, request, asof, epoch).total = A!Cardinality(listed)
  <2> HIDE DEF request
  <2> QED
    BY DEF A!list_catalog
<1> HIDE DEF listed, request
<1>4. Page(apps, vuln, band, installed, join, asof, epoch) = A!list_catalog(apps, request, asof, epoch)
  BY DEF Page, request
<1> QED
  BY <1>2, <1>3, <1>4, ServedCounts

Whole(apps, asof, epoch) == Page(apps, "all", Unset, FALSE, "all", asof, epoch)

OnDevices(apps) == {r \in apps : r.devices > 0}
Joined(apps) == {r \in apps : r.matched}
NotJoined(apps) == {r \in apps : ~r.matched}

LEMMA PageIsSummed ==
    ASSUME NEW apps, NEW asof, asof # Unset, NEW epoch
    PROVE  /\ Whole(apps, asof, epoch).summary.entries = Cardinality(apps)
           /\ Whole(apps, asof, epoch).summary.installed = Cardinality(OnDevices(apps))
           /\ Whole(apps, asof, epoch).summary.matched = Cardinality(Joined(apps))
           /\ Whole(apps, asof, epoch).summary.unmatched = Cardinality(NotJoined(apps))
           /\ Whole(apps, asof, epoch).judged = (epoch # Unset /\ \E r \in apps : A!served(r, epoch))
           /\ Whole(apps, asof, epoch).release = epoch
<1> DEFINE request == A!Request("all", Unset, FALSE, "all")
           list == A!list_catalog(apps, request, asof, epoch)
<1> HIDE DEF request
<1>1. /\ list.summary = [entries |-> A!Cardinality(apps), installed |-> A!Cardinality({r \in apps : r.devices > 0}),
                         matched |-> A!Cardinality({r \in apps : r.matched}),
                         unmatched |-> A!Cardinality({r \in apps : ~r.matched})]
      /\ list.judged = (epoch # Unset /\ \E r \in apps : A!served(r, epoch))
      /\ list.release = epoch
  BY DEF A!list_catalog
<1> HIDE DEF list
<1>2. Whole(apps, asof, epoch) = list
  BY DEF Whole, Page, list, request
<1>3. /\ list.summary.entries = Cardinality(apps)
      /\ list.summary.installed = Cardinality(OnDevices(apps))
      /\ list.summary.matched = Cardinality(Joined(apps))
      /\ list.summary.unmatched = Cardinality(NotJoined(apps))
  BY <1>1, ServedCounts DEF OnDevices, Joined, NotJoined
<1> QED
  BY <1>1, <1>2, <1>3, Zenon

\* A page that is not narrowed to what is installed or matched.
OfAll(apps, vuln, band, asof, epoch) == Page(apps, vuln, band, FALSE, "all", asof, epoch)
AllPassed(apps, vuln, band, epoch) == Passed(apps, vuln, band, FALSE, "all", epoch)

LEMMA WholeIsFiltered ==
    ASSUME NEW apps, NEW asof, asof # Unset, NEW vuln, NEW band, NEW epoch
    PROVE  /\ OfAll(apps, vuln, band, asof, epoch).items = AllPassed(apps, vuln, band, epoch)
           /\ OfAll(apps, vuln, band, asof, epoch).total = Cardinality(AllPassed(apps, vuln, band, epoch))
<1> DEFINE no == FALSE
<1>1. no \in BOOLEAN
  OBVIOUS
<1> HIDE DEF no
<1>2. /\ Page(apps, vuln, band, no, "all", asof, epoch).items = Passed(apps, vuln, band, no, "all", epoch)
      /\ Page(apps, vuln, band, no, "all", asof, epoch).total
            = Cardinality(Passed(apps, vuln, band, no, "all", epoch))
  BY <1>1, PageIsFiltered
<1> QED
  BY <1>2, Zenon DEF no, OfAll, AllPassed

LEMMA ListIsPassed ==
    ASSUME NEW apps, NEW asof, asof # Unset, NEW vuln, NEW epoch
    PROVE  A!Listed(apps, vuln, asof, epoch) = {app \in apps : A!Matches(app, vuln, epoch)}
<1>1. A!Listed(apps, vuln, asof, epoch) = OfAll(apps, vuln, Unset, asof, epoch).items
  BY DEF A!Listed, OfAll, Page
<1>2. A!Listed(apps, vuln, asof, epoch) = AllPassed(apps, vuln, Unset, epoch)
  BY <1>1, WholeIsFiltered
<1> QED
  BY <1>2 DEF AllPassed, Passed, Chosen

\* A cell of the app's page and the list's filter say one thing of a row: vuln_answer.assess
\* and the SQL of list_catalog, for rows of any epoch, with counts whole or broken.
THEOREM ServedCellIsFilter ==
    ASSUME ServedAssumption, NEW apps, \A app \in apps : Written(app), NEW asof, NEW epoch
    PROVE  A!CellIsFilter(apps, asof, epoch)
<1> SUFFICES ASSUME asof # Unset
             PROVE  /\ \A app \in apps, vuln \in {"findings", "clean", "unknown_app"} :
                           app \in A!Listed(apps, vuln, asof, epoch) <=> A!assess(asof, apps, epoch, app) = vuln
                    /\ \A vuln \in {"kev", "patchable"} :
                           A!Listed(apps, vuln, asof, epoch) \subseteq A!Listed(apps, "findings", asof, epoch)
                    /\ \A band \in SeverityBands :
                           A!list_catalog(apps, A!Request("all", band, FALSE, "all"), asof, epoch).items
                               \subseteq A!Listed(apps, "findings", asof, epoch)
  BY DEF A!CellIsFilter
<1>1. \A vuln : A!Listed(apps, vuln, asof, epoch) = {app \in apps : A!Matches(app, vuln, epoch)}
  BY ListIsPassed
<1>2. ASSUME NEW app \in apps
      PROVE  /\ A!assess(asof, apps, epoch, app) = "findings" <=> Found(app, epoch)
             /\ A!assess(asof, apps, epoch, app) = "clean" <=> Clean(app, epoch)
             /\ A!assess(asof, apps, epoch, app) = "unknown_app" <=> Unheard(app, epoch)
  <2>1. app.answer.counts # Unset => app.answer.counts.total \in Nat
    BY RowIsSound DEF Sound
  <2>2. app \in A!stored_corpus(apps, epoch) <=> A!served(app, epoch) /\ app.answer.counts # Unset
    BY RowIsSound DEF A!stored_corpus, A!stored_build, A!served
  <2> QED
    BY <2>1, <2>2 DEF A!assess, Found, Clean, Unheard
<1>3. \A app \in apps, vuln \in {"findings", "clean", "unknown_app"} :
          app \in A!Listed(apps, vuln, asof, epoch) <=> A!assess(asof, apps, epoch, app) = vuln
  BY <1>1, <1>2, MatchesSay
<1>4. \A vuln \in {"kev", "patchable"} : A!Listed(apps, vuln, asof, epoch) \subseteq A!Listed(apps, "findings", asof, epoch)
  BY <1>1, MatchesSay
<1>5. ASSUME NEW band \in SeverityBands,
             NEW app \in A!list_catalog(apps, A!Request("all", band, FALSE, "all"), asof, epoch).items
      PROVE  app \in A!Listed(apps, "findings", asof, epoch)
  <2>1. band # Unset
    BY DEF ServedAssumption
  <2>2. app \in AllPassed(apps, "all", band, epoch)
    <3>1. app \in OfAll(apps, "all", band, asof, epoch).items
      BY <1>5 DEF OfAll, Page
    <3> QED
      BY <3>1, WholeIsFiltered
  <2>3. app \in apps /\ A!served(app, epoch) /\ A!Above(A!counted(app.answer, band), 0)
    BY <2>1, <2>2 DEF AllPassed, Passed, Chosen
  <2>4. A!counted(app.answer, band) = IF app.answer.counts = Unset THEN Unset ELSE app.answer.counts.bands[band]
    BY TotalIsCounted
  <2>5. app.answer.counts # Unset => app.answer.counts.total \in Nat /\ app.answer.counts.bands[band] \in Nat
                                     /\ app.answer.counts.bands[band] <= app.answer.counts.total
    BY <2>3, RowIsSound DEF Sound
  <2>6. Found(app, epoch)
    BY <2>3, <2>4, <2>5 DEF Found, A!Above
  <2> QED
    BY <1>1, <2>3, <2>6, MatchesSay
<1> QED
  BY <1>3, <1>4, <1>5

\* What an update closes less what it opens is the difference of the totals.
LEMMA GainIsDifference ==
    ASSUME NEW S, NEW T, IsFiniteSet(S), IsFiniteSet(T)
    PROVE  Cardinality(S \ T) - Cardinality(T \ S) = Cardinality(S) - Cardinality(T)
<1>1. Cardinality(S \ T) = Cardinality(S) - Cardinality(S \cap T)
  BY FS_Difference
<1>2. Cardinality(T \ S) = Cardinality(T) - Cardinality(T \cap S)
  BY FS_Difference
<1>3. S \cap T = T \cap S
  OBVIOUS
<1>4. IsFiniteSet(S \cap T) /\ Cardinality(S) \in Nat /\ Cardinality(T) \in Nat
  BY FS_Subset, FS_CardinalityType
<1>5. Cardinality(S \cap T) \in Nat
  BY <1>4, FS_CardinalityType
<1> QED
  BY <1>1, <1>2, <1>3, <1>4, <1>5

\* The list's filter of worthwhile updates passes a row exactly when the effect told of that
\* update closes more than it opens, whether the two lists of findings were cut short or not.
THEOREM ServedPayoffIsEffect ==
    ASSUME ServedAssumption, NEW apps, \A app \in apps : Written(app), NEW asof, NEW epoch
    PROVE  A!PayoffIsEffect(apps, asof, epoch)
<1> SUFFICES ASSUME asof # Unset, NEW app \in apps, A!stored_build(app) # Unset
             PROVE  LET effect == A!update_effect(asof, epoch, app)
                        gain == IF effect.net # Unset THEN effect.net ELSE effect.closes - effect.opens
                        worth == effect # Unset /\ effect.assessment = "covered"
                    IN  /\ app \in A!Listed(apps, "patchable", asof, epoch) <=> worth /\ gain > 0
                        /\ worth => gain = A!NetClosed(app)
  BY DEF A!PayoffIsEffect, A!Covered
<1> DEFINE mine == app.answer
           theirs == app.target
           effect == A!update_effect(asof, epoch, app)
           gain == IF effect.net # Unset THEN effect.net ELSE effect.closes - effect.opens
           worth == effect # Unset /\ effect.assessment = "covered"
           may == A!served(app, epoch) /\ app.version \notin {Unset, app.build} /\ theirs.assessment = "covered"
<1>1. mine.assessment = "covered" /\ mine.counts # Unset
  BY DEF A!stored_build, A!Covered
<1>2. mine.counts.total \in Nat /\ theirs.counts # Unset => theirs.counts.total \in Nat /\ theirs.counts.total # Unset
  BY <1>1, RowIsSound DEF Sound, ServedAssumption
<1>3. mine.counts.total \in Nat /\ mine.counts.total # Unset
  BY <1>1, RowIsSound DEF Sound, ServedAssumption
<1>4. A!counted(mine, "total") = mine.counts.total
  BY <1>1, TotalIsCounted
<1>5. theirs.counts # Unset => A!counted(theirs, "total") = theirs.counts.total
  BY TotalIsCounted
<1>6. theirs.assessment = "covered" => theirs.counts # Unset /\ app.version # Unset
  BY RowIsSound
<1>7. theirs.assessment = "covered" => A!NetClosed(app) = mine.counts.total - theirs.counts.total
  <2> SUFFICES ASSUME theirs.assessment = "covered" PROVE A!NetClosed(app) = mine.counts.total - theirs.counts.total
    OBVIOUS
  <2>1. theirs.counts # Unset
    BY <1>6
  <2> HIDE DEF mine, theirs
  <2> QED
    BY <1>2, <1>3, <1>4, <1>5, <2>1 DEF A!NetClosed, mine, theirs
<1>8. worth <=> may
  <2>1. CASE ~(A!served(app, epoch) /\ app.version \notin {Unset, app.build})
    BY <2>1 DEF A!update_effect
  <2>2. CASE A!served(app, epoch) /\ app.version \notin {Unset, app.build} /\ theirs.assessment # "covered"
    <3>1. effect = A!Effect(app.version, Unset, Unset, Unset, Unset)
      BY <2>2 DEF A!update_effect, A!Covered
    <3>2. effect.assessment = Unset
      BY <3>1 DEF A!Effect
    <3> QED
      BY <2>2, <3>2 DEF ServedAssumption
  <2>3. CASE may
    <3>1. A!counted(mine, "total") # Unset /\ A!counted(theirs, "total") # Unset
      BY <1>2, <1>3, <1>4, <1>5, <1>6, <2>3
    <3>2. \E c, o, n : effect = A!Effect(app.version, "covered", c, o, n)
      BY <2>3, <3>1 DEF A!update_effect, A!Covered
    <3>3. effect # Unset /\ effect.assessment = "covered"
      BY <3>2 DEF ServedAssumption, A!Effect
    <3> QED
      BY <2>3, <3>3
  <2> QED
    BY <2>1, <2>2, <2>3
<1>9. may => gain = A!NetClosed(app)
  <2> SUFFICES ASSUME may PROVE gain = mine.counts.total - theirs.counts.total
    BY <1>7
  <2>1. theirs.counts # Unset /\ theirs.counts.total \in Nat /\ theirs.counts.total # Unset
    BY <1>2, <1>3, <1>6
  <2>2. A!counted(mine, "total") # Unset /\ A!counted(theirs, "total") # Unset
    BY <1>3, <1>4, <1>5, <2>1
  <2>3. CASE mine.truncated \/ theirs.truncated
    <3>1. effect = A!Effect(app.version, "covered", Unset, Unset, A!counted(mine, "total") - A!counted(theirs, "total"))
      BY <2>2, <2>3 DEF A!update_effect, A!Covered
    <3>2. effect.net = mine.counts.total - theirs.counts.total
      BY <1>4, <1>5, <2>1, <3>1 DEF A!Effect
    <3>3. effect.net # Unset
      <4>1. mine.counts.total - theirs.counts.total \in Int
        BY <1>3, <2>1
      <4> QED
        BY <3>2, <4>1 DEF ServedAssumption
    <3> QED
      BY <3>2, <3>3
  <2>4. CASE ~(mine.truncated \/ theirs.truncated)
    <3>1. effect = A!Effect(app.version, "covered", Cardinality(mine.ids \ theirs.ids), Cardinality(theirs.ids \ mine.ids), Unset)
      BY <2>4, ServedCounts DEF A!update_effect, A!Covered
    <3>2. gain = Cardinality(mine.ids \ theirs.ids) - Cardinality(theirs.ids \ mine.ids)
      BY <3>1 DEF A!Effect
    <3>3. /\ IsFiniteSet(mine.ids) /\ Cardinality(mine.ids) = mine.counts.total
          /\ IsFiniteSet(theirs.ids) /\ Cardinality(theirs.ids) = theirs.counts.total
      BY <1>1, <2>1, <2>4, RowIsSound DEF Sound
    <3> HIDE DEF mine, theirs, gain
    <3> QED
      BY <3>2, <3>3, GainIsDifference
  <2> QED
    BY <2>3, <2>4
<1>10. app \in A!Listed(apps, "patchable", asof, epoch) <=> A!Matches(app, "patchable", epoch)
  BY ListIsPassed
<1>11. A!Matches(app, "patchable", epoch) <=>
           A!served(app, epoch) /\ mine.counts.total > 0 /\ theirs.assessment = "covered" /\ A!NetClosed(app) > 0
  <2>1. theirs.assessment = "covered" => A!NetClosed(app) \in Int /\ A!NetClosed(app) # Unset
    BY <1>2, <1>3, <1>6, <1>7 DEF ServedAssumption
  <2>2. A!served(app, epoch) => app.signature = epoch
    BY DEF A!served
  <2> QED
    BY <1>3, <1>4, <2>1, <2>2 DEF A!Matches, A!Above, A!Covered
\* A build is not its own update, and what has nothing to close is not worth one.
<1>12. theirs.assessment = "covered" /\ A!NetClosed(app) > 0 => mine.counts.total > 0 /\ app.version \notin {Unset, app.build}
  <2> SUFFICES ASSUME theirs.assessment = "covered", A!NetClosed(app) > 0
               PROVE  mine.counts.total > 0 /\ app.version \notin {Unset, app.build}
    OBVIOUS
  <2>1. mine.counts.total - theirs.counts.total > 0 /\ theirs.counts.total \in Nat
    BY <1>2, <1>3, <1>6, <1>7
  <2>2. app.version = app.build => theirs.counts = mine.counts
    BY <1>1, RowIsSound
  <2> QED
    BY <1>3, <1>6, <2>1, <2>2
<1> HIDE DEF mine, theirs, effect, gain, worth
<1>13. (app \in A!Listed(apps, "patchable", asof, epoch) <=> worth /\ gain > 0) /\ (worth => gain = A!NetClosed(app))
  BY <1>8, <1>9, <1>10, <1>11, <1>12
<1> QED
  BY <1>13 DEF worth, gain, effect

\* Whatever the list is narrowed to, the three lists are parts of it.
LEMMA ThreeListsClose ==
    ASSUME ServedAssumption, NEW apps, IsFiniteSet(apps), \A app \in apps : Written(app),
           NEW asof, asof # Unset, NEW epoch, NEW installed \in BOOLEAN, NEW join
    PROVE  Page(apps, "findings", Unset, installed, join, asof, epoch).total
             + Page(apps, "clean", Unset, installed, join, asof, epoch).total
             + Page(apps, "unknown_app", Unset, installed, join, asof, epoch).total
               = Cardinality(Chosen(apps, installed, join))
<1> DEFINE chosen == Chosen(apps, installed, join)
           found == {app \in chosen : Found(app, epoch)}
           clean == {app \in chosen : Clean(app, epoch)}
           unknown == {app \in chosen : Unheard(app, epoch)}
<1>0. chosen \subseteq apps
  BY DEF Chosen
<1>1. \A vuln : Page(apps, vuln, Unset, installed, join, asof, epoch).total
                    = Cardinality({app \in chosen : A!Matches(app, vuln, epoch)})
  <2> SUFFICES ASSUME NEW vuln
               PROVE  Page(apps, vuln, Unset, installed, join, asof, epoch).total
                        = Cardinality({app \in chosen : A!Matches(app, vuln, epoch)})
    OBVIOUS
  <2>1. Passed(apps, vuln, Unset, installed, join, epoch) = {app \in chosen : A!Matches(app, vuln, epoch)}
    BY DEF Passed
  <2> QED
    BY <2>1, PageIsFiltered
<1> HIDE DEF chosen
<1>2. /\ {app \in chosen : A!Matches(app, "findings", epoch)} = found
      /\ {app \in chosen : A!Matches(app, "clean", epoch)} = clean
      /\ {app \in chosen : A!Matches(app, "unknown_app", epoch)} = unknown
  BY <1>0, MatchesSay
<1>3. \A app \in chosen : app.answer.counts # Unset => app.answer.counts.total \in Nat
  BY <1>0, RowIsSound DEF Sound
<1>4. found \cup clean \cup unknown = chosen
  BY <1>3 DEF Found, Clean, Unheard
<1>5. found \cap clean = {} /\ found \cap unknown = {} /\ clean \cap unknown = {}
  BY <1>3 DEF Found, Clean, Unheard
<1>6. IsFiniteSet(chosen)
  BY <1>0, FS_Subset
<1> HIDE DEF found, clean, unknown
<1>7. Cardinality(found) + Cardinality(clean) + Cardinality(unknown) = Cardinality(chosen)
  BY <1>4, <1>5, <1>6, ThreeParts
<1> QED
  BY <1>1, <1>2, <1>7 DEF chosen

\* The three lists share out the rows of the summary above them, whatever it is narrowed to,
\* and a page that shows a judged row says so and of which release (list_catalog).
THEOREM ServedListCloses ==
    ASSUME ServedAssumption, NEW apps, IsFiniteSet(apps), \A app \in apps : Written(app),
           NEW asof, NEW epoch, epoch # Unset
    PROVE  A!ListCloses(apps, asof, epoch)
<1> SUFFICES ASSUME asof # Unset PROVE A!ListCloses(apps, asof, epoch)
  BY DEF A!ListCloses
<1> DEFINE count(vuln, installed, join) == Page(apps, vuln, Unset, installed, join, asof, epoch).total
           three(installed, join) ==
               count("findings", installed, join) + count("clean", installed, join) + count("unknown_app", installed, join)
           list == Whole(apps, asof, epoch)
<1>1. \A installed \in BOOLEAN : \A join : three(installed, join) = Cardinality(Chosen(apps, installed, join))
  BY ThreeListsClose
<1>2. /\ Chosen(apps, FALSE, "all") = apps
      /\ Chosen(apps, TRUE, "all") = OnDevices(apps)
      /\ Chosen(apps, FALSE, "matched") = Joined(apps)
      /\ Chosen(apps, FALSE, "unmatched") = NotJoined(apps)
  BY DEF Chosen, OnDevices, Joined, NotJoined
<1>3. /\ list.summary.entries = three(FALSE, "all") /\ list.summary.installed = three(TRUE, "all")
      /\ list.summary.matched = three(FALSE, "matched") /\ list.summary.unmatched = three(FALSE, "unmatched")
  <2>1. /\ list.summary.entries = Cardinality(apps)
        /\ list.summary.installed = Cardinality(OnDevices(apps))
        /\ list.summary.matched = Cardinality(Joined(apps))
        /\ list.summary.unmatched = Cardinality(NotJoined(apps))
    BY PageIsSummed
  <2> HIDE DEF three, list
  <2> QED
    BY <1>1, <1>2, <2>1
<1>4. count("findings", FALSE, "all") + count("clean", FALSE, "all") > 0 => list.judged /\ list.release # Unset
  <2> DEFINE found == {app \in apps : Found(app, epoch)}
             clean == {app \in apps : Clean(app, epoch)}
  <2>1. \A vuln : count(vuln, FALSE, "all") = Cardinality({app \in apps : A!Matches(app, vuln, epoch)})
    <3> SUFFICES ASSUME NEW vuln
                 PROVE  count(vuln, FALSE, "all") = Cardinality({app \in apps : A!Matches(app, vuln, epoch)})
      OBVIOUS
    <3>1. AllPassed(apps, vuln, Unset, epoch) = {app \in apps : A!Matches(app, vuln, epoch)}
      BY <1>2 DEF AllPassed, Passed
    <3>2. OfAll(apps, vuln, Unset, asof, epoch).total = Cardinality(AllPassed(apps, vuln, Unset, epoch))
      BY WholeIsFiltered
    <3>3. count(vuln, FALSE, "all") = OfAll(apps, vuln, Unset, asof, epoch).total
      BY Zenon DEF OfAll
    <3> QED
      BY <3>1, <3>2, <3>3, Zenon
  <2>2. /\ {app \in apps : A!Matches(app, "findings", epoch)} = found
        /\ {app \in apps : A!Matches(app, "clean", epoch)} = clean
    BY MatchesSay
  <2>3. count("findings", FALSE, "all") = Cardinality(found) /\ count("clean", FALSE, "all") = Cardinality(clean)
    <3> HIDE DEF count, found, clean
    <3> QED
      BY <2>1, <2>2
  <2>4. found = {} /\ clean = {} => Cardinality(found) + Cardinality(clean) = 0
    BY FS_EmptySet
  <2>5. (\E app \in apps : A!served(app, epoch)) => list.judged /\ list.release # Unset
    BY PageIsSummed
  <2>6. found # {} \/ clean # {} => \E app \in apps : A!served(app, epoch)
    BY DEF Found, Clean
  <2> HIDE DEF found, clean, count, list
  <2>7. count("findings", FALSE, "all") + count("clean", FALSE, "all") = Cardinality(found) + Cardinality(clean)
    BY <2>3, Zenon
  <2>8. ~(0 > 0)
    OBVIOUS
  <2> QED
    BY <2>4, <2>5, <2>6, <2>7, <2>8, Zenon
<1> HIDE DEF list
<1> QED
  BY <1>3, <1>4 DEF A!ListCloses, Page, Whole, list

-----------------------------------------------------------------------------
(* Title matching and version questions.                                    *)

M == INSTANCE Matching WITH Empty <- Empty, Contains <- PartOf, Matches <- Patterns, Digits <- DigitsOf, Unknown <- Unset

LEMMA MatchingCounts == \A S : M!Cardinality(S) = Cardinality(S)
  BY DEF M!Cardinality, Cardinality

MatchingAssumption == M!TextsAssumption /\ M!DigitsAssumption /\ M!RelationsAssumption

\* A component is a number, and only a component that is there is above zero.
LEMMA ComponentsAreNumbers ==
    ASSUME M!DigitsAssumption, NEW a \in Texts, NEW i
    PROVE  /\ M!At(a, i) \in Nat
           /\ M!At(a, i) > 0 => i \in DOMAIN DigitsOf[a]
           /\ i \in DOMAIN DigitsOf[a] => i \in Nat /\ i >= 1 /\ 1..i \subseteq DOMAIN DigitsOf[a]
<1>1. DigitsOf[a] \in Seq(Nat)
  BY DEF M!DigitsAssumption
<1>2. i \in DOMAIN DigitsOf[a] => DigitsOf[a][i] \in Nat
  BY <1>1
<1>3. M!At(a, i) \in Nat /\ (M!At(a, i) > 0 => i \in DOMAIN DigitsOf[a])
  BY <1>2 DEF M!At
<1>4. i \in DOMAIN DigitsOf[a] => i \in Nat /\ i >= 1 /\ 1..i \subseteq DOMAIN DigitsOf[a]
  BY <1>1
<1> QED
  BY <1>3, <1>4

\* Two texts are in one order only.
LEMMA NewerIsOneWay ==
    ASSUME M!DigitsAssumption, NEW a \in Texts, NEW b \in Texts
    PROVE  ~(M!Newer(a, b) /\ M!Newer(b, a))
<1> SUFFICES ASSUME NEW i \in DOMAIN DigitsOf[a], M!At(a, i) > M!At(b, i), \A k \in 1..(i - 1) : M!At(a, k) = M!At(b, k),
                    NEW j \in DOMAIN DigitsOf[b], M!At(b, j) > M!At(a, j), \A k \in 1..(j - 1) : M!At(b, k) = M!At(a, k)
             PROVE  FALSE
  BY DEF M!Newer
<1>1. i \in Nat /\ i >= 1 /\ j \in Nat /\ j >= 1
  BY ComponentsAreNumbers
<1>2. M!At(a, i) \in Nat /\ M!At(b, i) \in Nat /\ M!At(a, j) \in Nat /\ M!At(b, j) \in Nat
  BY ComponentsAreNumbers
<1>3. CASE i < j
  BY <1>1, <1>2, <1>3
<1>4. CASE j < i
  BY <1>1, <1>2, <1>4
<1>5. CASE i = j
  BY <1>2, <1>5
<1> QED
  BY <1>1, <1>3, <1>4, <1>5

\* What is newer than one text is newer than a third, or the third is newer than the one.
LEMMA NewerIsDense ==
    ASSUME M!DigitsAssumption, NEW a \in Texts, NEW b \in Texts, NEW c \in Texts, M!Newer(a, b)
    PROVE  M!Newer(a, c) \/ M!Newer(c, b)
<1>1. PICK i \in DOMAIN DigitsOf[a] : M!At(a, i) > M!At(b, i) /\ \A k \in 1..(i - 1) : M!At(a, k) = M!At(b, k)
  BY DEF M!Newer
<1>2. i \in Nat /\ i >= 1 /\ 1..i \subseteq DOMAIN DigitsOf[a]
  BY ComponentsAreNumbers
<1>3. \A k : M!At(a, k) \in Nat /\ M!At(b, k) \in Nat /\ M!At(c, k) \in Nat
  BY ComponentsAreNumbers
<1>4. \A k : M!At(c, k) > 0 => k \in DOMAIN DigitsOf[c]
  BY ComponentsAreNumbers
<1> DEFINE D == {k \in 1..i : M!At(a, k) # M!At(c, k)}
<1>5. CASE D = {}
  <2>1. \A k \in 1..i : M!At(a, k) = M!At(c, k)
    BY <1>5
  <2>2. M!At(c, i) > M!At(b, i) /\ \A k \in 1..(i - 1) : M!At(c, k) = M!At(b, k)
    BY <1>1, <1>2, <2>1
  <2>3. i \in DOMAIN DigitsOf[c]
    BY <1>3, <1>4, <2>2
  <2> QED
    BY <2>2, <2>3 DEF M!Newer
<1>6. CASE D # {}
  <2>1. PICK k \in D : \A m \in D : k <= m
    <3>1. D \subseteq Nat
      BY <1>2
    <3> HIDE DEF D
    <3> QED
      BY <1>6, <3>1, LeastExists
  <2>2. k \in 1..i /\ M!At(a, k) # M!At(c, k) /\ \A m \in 1..(k - 1) : M!At(a, m) = M!At(c, m)
    BY <1>2, <2>1
  <2>3. CASE M!At(a, k) > M!At(c, k)
    BY <1>2, <2>2, <2>3 DEF M!Newer
  <2>4. CASE M!At(c, k) > M!At(a, k)
    <3>1. M!At(a, k) >= M!At(b, k) /\ \A m \in 1..(k - 1) : M!At(c, m) = M!At(b, m)
      BY <1>1, <1>2, <1>3, <2>2
    <3>2. M!At(c, k) > M!At(b, k)
      BY <1>3, <2>4, <3>1
    <3>3. k \in DOMAIN DigitsOf[c]
      BY <1>3, <1>4, <3>2
    <3> QED
      BY <3>1, <3>2, <3>3 DEF M!Newer
  <2> QED
    BY <1>3, <2>2, <2>3, <2>4
<1> QED
  BY <1>5, <1>6

\* compare_versions orders any texts: never both ways, and nothing falls in between unordered.
THEOREM VersionsAreOrdered ==
    ASSUME M!DigitsAssumption, NEW a \in Texts, NEW b \in Texts, NEW c \in Texts
    PROVE  M!CompareIsAnOrder(a, b, c)
  BY NewerIsOneWay, NewerIsDense DEF M!CompareIsAnOrder

LEMMA NewerIsTransitive ==
    ASSUME M!DigitsAssumption, NEW a \in Texts, NEW b \in Texts, NEW c \in Texts, M!Newer(a, b), M!Newer(b, c)
    PROVE  M!Newer(a, c)
  BY NewerIsOneWay, NewerIsDense

-----------------------------------------------------------------------------
\* A group that matched has a bundle it pins, if it pins any.
LEMMA PinnedIsAsked ==
    ASSUME M!TextsAssumption, NEW title, NEW facts, NEW group, facts.bundle \in Texts \cup {Unset},
           M!evaluate_group(title, facts, group) = "matched", M!Pins(group) # {}
    PROVE  M!Fold(facts.bundle) \in M!Pins(group)
<1>1. PICK test \in group : test.about = "bundle" /\ test.operator = "is"
  BY DEF M!Pins
<1>2. M!evaluate_test(title, facts, test) \in {"pass", "fail", "not_applicable"}
  BY DEF M!evaluate_test
<1>3. M!evaluate_test(title, facts, test) = "pass"
  BY <1>1, <1>2 DEF M!evaluate_group
<1>4. M!Actual(title, facts, test) = M!Known1(facts.bundle)
  BY <1>1 DEF M!Actual
<1>5. M!Known1(facts.bundle) # {} /\ \E x \in M!Known1(facts.bundle) : M!compare("is", x, test.value)
  BY <1>1, <1>3, <1>4 DEF M!evaluate_test
<1>6. facts.bundle # Unset /\ facts.bundle = test.value
  BY <1>5 DEF M!Known1, M!compare
<1>7. test.value \in M!Pins(group)
  BY <1>1 DEF M!Pins
<1> QED
  BY <1>6, <1>7 DEF M!Fold

\* A title that decides anything of an app is among the candidates its index gives for that
\* app: matching.py's index by bundle id loses no answer, only titles that would say nothing.
THEOREM IndexIsComplete ==
    ASSUME M!TextsAssumption, NEW title, NEW facts, facts.bundle \in Texts \cup {Unset}
    PROVE  M!IndexLosesNothing(title, facts)
<1> SUFFICES ASSUME M!admitted(title), M!_decide(title, facts) # "none"
             PROVE  M!Broad(title) \/ M!Fold(facts.bundle) \in M!Keys(title)
  BY DEF M!IndexLosesNothing, M!candidates
<1>1. CASE M!detection_for(title) = "extension_attribute"
  BY <1>1 DEF M!_decide, M!Keys
<1>2. CASE M!detection_for(title) # "extension_attribute"
  <2>1. M!detection_for(title) = "inventory"
    BY <1>2 DEF M!admitted
  <2>2. PICK g \in title.requirements : M!evaluate_group(title, facts, g) = "matched"
    BY DEF M!_decide
  <2>3. CASE M!Pins(g) = {}
    BY <2>1, <2>3 DEF M!Broad
  <2>4. CASE M!Pins(g) # {}
    <3>1. M!Fold(facts.bundle) \in M!Pins(g)
      BY <2>2, <2>4, PinnedIsAsked
    <3> QED
      BY <1>2, <3>1 DEF M!Keys, M!required_bundle_ids
  <2> QED
    BY <2>3, <2>4
<1> QED
  BY <1>1, <1>2

-----------------------------------------------------------------------------
\* A title as its row and its patch list give it: days are numbered.
Title(title) ==
    /\ title.current \in Texts
    /\ title.patches \in Seq([version : Texts, released : Nat \cup {Unset}])

LEMMA LowestIsLeast ==
    ASSUME NEW T \in SUBSET Nat, T # {}
    PROVE  M!Lowest(T) \in T /\ \A x \in T : M!Lowest(T) <= x
  BY LeastExists DEF M!Lowest

LEMMA OneVersion ==
    ASSUME NEW title, NEW v
    PROVE  /\ M!Installed(title, <<v>>) = v
           /\ \A i \in DOMAIN <<v>> : <<v>>[i] = v
           /\ <<v>> # <<>>
<1>1. DOMAIN <<v>> = {1} /\ <<v>>[1] = v
  OBVIOUS
<1> DEFINE listed == {i \in DOMAIN <<v>> : M!Listed(title, <<v>>[i]) # {}}
<1>2. listed = {} \/ listed = {1}
  BY <1>1
<1>3. listed = {1} => M!Lowest(listed) = 1
  <2>1. {1} \in SUBSET Nat /\ {1} # {}
    OBVIOUS
  <2> QED
    BY <2>1, LowestIsLeast
<1>4. M!Installed(title, <<v>>) = v
  <2>1. M!Installed(title, <<v>>) = <<v>>[IF listed = {} THEN 1 ELSE M!Lowest(listed)]
    BY DEF M!Installed
  <2> HIDE DEF listed
  <2> QED
    BY <1>1, <1>2, <1>3, <2>1
<1> QED
  BY <1>1, <1>4

LEMMA StateOfOne ==
    ASSUME NEW title, NEW v
    PROVE  M!State(title, <<v>>) =
              IF v = title.current THEN "latest"
              ELSE IF M!Newer(v, title.current) THEN "ahead"
              ELSE IF M!Listed(title, v) # {} THEN "behind" ELSE "unknown"
<1>1. (\E i \in DOMAIN <<v>> : <<v>>[i] = title.current) <=> v = title.current
  <2>1. DOMAIN <<v>> = {1} /\ <<v>>[1] = v
    OBVIOUS
  <2> QED
    BY <2>1
<1> QED
  BY <1>1, OneVersion DEF M!State

Owes(title, v) == M!State(title, <<v>>) \in {"behind", "unknown"}

LEMMA ClassifyOne ==
    ASSUME NEW title, NEW v
    PROVE  /\ M!classify(title, <<v>>).state = M!State(title, <<v>>)
           /\ M!classify(title, <<v>>).first = IF Owes(title, v) THEN M!first_newer(title, v) ELSE Unset
           /\ M!classify(title, <<v>>).missed = IF Owes(title, v) THEN Cardinality(M!Missed(title, v)) ELSE 0
  BY OneVersion, MatchingCounts DEF M!classify, Owes

Dates(title, v) == {title.patches[i].released : i \in M!Missed(title, v)} \ {Unset}

\* The newer version missed fewer releases and, where it is dated, so is the older one.
LEMMA UpgradeMissesLess ==
    ASSUME MatchingAssumption, NEW title, Title(title), NEW v \in Texts, NEW w \in Texts, M!Newer(w, v)
    PROVE  /\ M!Missed(title, w) \subseteq M!Missed(title, v) /\ Dates(title, w) \subseteq Dates(title, v)
           /\ Dates(title, v) \subseteq Nat
           /\ IsFiniteSet(M!Missed(title, v))
<1>1. \A i \in DOMAIN title.patches : title.patches[i].version \in Texts /\ title.patches[i].released \in Nat \cup {Unset}
  <2> SUFFICES ASSUME NEW i \in DOMAIN title.patches
               PROVE  title.patches[i].version \in Texts /\ title.patches[i].released \in Nat \cup {Unset}
    OBVIOUS
  <2> DEFINE Listing == [version : Texts, released : Nat \cup {Unset}]
  <2>1. title.patches \in Seq(Listing)
    BY DEF Title
  <2> HIDE DEF Listing
  <2>2. title.patches[i] \in Listing
    BY <2>1
  <2> QED
    BY <2>2 DEF Listing
<1>2. M!Missed(title, w) \subseteq M!Missed(title, v)
  BY <1>1, NewerIsTransitive DEF M!Missed, M!Patches, MatchingAssumption
<1>3. M!Missed(title, v) \subseteq DOMAIN title.patches
  BY DEF M!Missed, M!Patches
<1>4. IsFiniteSet(DOMAIN title.patches)
  <2>1. DOMAIN title.patches = 1..Len(title.patches) /\ Len(title.patches) \in Nat
    BY DEF Title
  <2> DEFINE n == Len(title.patches)
  <2> HIDE DEF n
  <2>2. IsFiniteSet(1..n)
    BY <2>1, FS_Interval DEF n
  <2> QED
    BY <2>1, <2>2 DEF n
<1> QED
  BY <1>1, <1>2, <1>3, <1>4, FS_Subset DEF Dates

LEMMA UpgradeIsNoLater ==
    ASSUME MatchingAssumption, NEW title, Title(title), NEW v \in Texts, NEW w \in Texts,
           M!Newer(w, v), ~M!Newer(w, title.current), M!first_newer(title, w) # Unset
    PROVE  M!first_newer(title, v) # Unset /\ M!first_newer(title, v) <= M!first_newer(title, w)
<1>1. Dates(title, w) \subseteq Dates(title, v) /\ Dates(title, v) \subseteq Nat
  BY UpgradeMissesLess
<1>2. \A x : M!first_newer(title, x) = IF Dates(title, x) = {} THEN M!ReleasedAt(title, title.current) ELSE M!Lowest(Dates(title, x))
  BY DEF M!first_newer, Dates
<1>3. Unset \notin Nat
  BY DEF MatchingAssumption, M!TextsAssumption
<1>4. CASE Dates(title, w) # {}
  <2>1. M!Lowest(Dates(title, w)) \in Dates(title, w)
    BY <1>1, <1>4, LowestIsLeast
  <2>2. M!Lowest(Dates(title, v)) \in Dates(title, v) /\ M!Lowest(Dates(title, v)) <= M!Lowest(Dates(title, w))
    BY <1>1, <1>4, <2>1, LowestIsLeast
  <2> QED
    BY <1>1, <1>2, <1>3, <1>4, <2>2
\* The current version dates the newer one, and the older one missed it.
<1>5. CASE Dates(title, w) = {}
  <2>1. M!first_newer(title, w) = M!ReleasedAt(title, title.current)
    BY <1>2, <1>5
  <2> DEFINE i == M!Lowest(M!Listed(title, title.current))
  <2>2. M!Listed(title, title.current) # {} /\ title.patches[i].released # Unset
    BY <2>1 DEF M!ReleasedAt
  <2>3. M!first_newer(title, w) = title.patches[i].released
    BY <2>1, <2>2 DEF M!ReleasedAt
  <2>4. i \in M!Listed(title, title.current)
    <3>1. M!Listed(title, title.current) \subseteq Nat
      BY DEF M!Listed, M!Patches, Title
    <3> QED
      BY <2>2, <3>1, LowestIsLeast
  <2> HIDE DEF i
  <2>5. i \in DOMAIN title.patches /\ title.patches[i].version = title.current
    BY <2>4 DEF M!Listed, M!Patches
  <2>6. M!Newer(title.current, v)
    BY NewerIsDense DEF MatchingAssumption, Title
  <2>7. title.patches[i].released \in Dates(title, v)
    BY <2>2, <2>5, <2>6 DEF Dates, M!Missed, M!Patches
  <2>8. M!Lowest(Dates(title, v)) \in Dates(title, v) /\ M!Lowest(Dates(title, v)) <= title.patches[i].released
    BY <1>1, <2>7, LowestIsLeast
  <2> QED
    BY <1>1, <1>2, <1>3, <2>3, <2>7, <2>8
<1> QED
  BY <1>4, <1>5

\* A newer version of an app missed no more releases, is not behind where the older one was
\* not, and its first missed release is no earlier: classify, for any list of patches.
THEOREM UpgradesNeverHurt ==
    ASSUME MatchingAssumption, NEW title, Title(title), NEW v \in Texts, NEW w \in Texts
    PROVE  M!UpgradingNeverHurts(title, v, w)
<1> DEFINE old == M!classify(title, <<v>>)
           new == M!classify(title, <<w>>)
<1> SUFFICES ASSUME M!Newer(w, v)
             PROVE  /\ new.missed <= old.missed
                    /\ old.state \in {"latest", "ahead"} => new.state = "ahead"
                    /\ new.first # Unset => old.first # Unset /\ old.first <= new.first
  BY DEF M!UpgradingNeverHurts
<1>1. title.current \in Texts
  BY DEF Title
<1>2. w # v
  BY NewerIsOneWay DEF MatchingAssumption
<1>3. old.state \in {"latest", "ahead"} => new.state = "ahead"
  <2>1. old.state \in {"latest", "ahead"} => v = title.current \/ M!Newer(v, title.current)
    BY ClassifyOne, StateOfOne
  <2>2. v = title.current \/ M!Newer(v, title.current) => M!Newer(w, title.current) /\ w # title.current
    BY <1>1, NewerIsTransitive, NewerIsOneWay DEF MatchingAssumption
  <2>3. M!Newer(w, title.current) /\ w # title.current => new.state = "ahead"
    BY ClassifyOne, StateOfOne
  <2> QED
    BY <2>1, <2>2, <2>3
<1>4. Owes(title, w) => Owes(title, v) /\ ~M!Newer(w, title.current)
  <2>1. old.state \in {"latest", "ahead", "behind", "unknown"}
    BY ClassifyOne, StateOfOne
  <2>2. Owes(title, w) => new.state # "ahead"
    BY ClassifyOne DEF Owes
  <2>3. Owes(title, w) => ~M!Newer(w, title.current)
    BY StateOfOne DEF Owes
  <2>4. old.state = M!State(title, <<v>>)
    BY ClassifyOne
  <2> HIDE DEF old, new
  <2> QED
    BY <1>3, <2>1, <2>2, <2>3, <2>4 DEF Owes
<1>5. /\ IsFiniteSet(M!Missed(title, v)) /\ Cardinality(M!Missed(title, v)) \in Nat
      /\ Cardinality(M!Missed(title, w)) <= Cardinality(M!Missed(title, v))
  BY UpgradeMissesLess, FS_Subset, FS_CardinalityType
<1>6. new.missed <= old.missed
  BY <1>4, <1>5, ClassifyOne
<1>7. new.first # Unset => old.first # Unset /\ old.first <= new.first
  BY <1>4, ClassifyOne, UpgradeIsNoLater
<1> QED
  BY <1>3, <1>6, <1>7

-----------------------------------------------------------------------------
(* The evidence report.                                                     *)

E == INSTANCE Evidence WITH Assessments <- Verdicts, Definitions <- Attributes, NoFacts <- Unset

\* Facts as a read gives them.
AppLists == E!Partial(Identities \X Versions, Verdicts)

LEMMA PartialIsFunction ==
    ASSUME NEW D, NEW R, NEW f \in E!Partial(D, R)
    PROVE  f \in [DOMAIN f -> R] /\ DOMAIN f \subseteq D
  BY DEF E!Partial

LEMMA SameFunction ==
    ASSUME NEW D, NEW R, NEW f \in E!Partial(D, R), NEW g \in E!Partial(D, R)
    PROVE  f = g <=> /\ \A x \in DOMAIN f : x \in DOMAIN g /\ f[x] = g[x]
                     /\ \A x \in DOMAIN g : x \in DOMAIN f
<1>1. f \in [DOMAIN f -> R] /\ g \in [DOMAIN g -> R]
  BY PartialIsFunction
<1>2. ASSUME \A x \in DOMAIN f : x \in DOMAIN g /\ f[x] = g[x], \A x \in DOMAIN g : x \in DOMAIN f
      PROVE  f = g
  <2>1. DOMAIN f = DOMAIN g
    BY <1>2
  <2> QED
    BY <1>1, <1>2, <2>1
<1> QED
  BY <1>2

LEMMA EvidenceCounts == \A S : E!Cardinality(S) = Cardinality(S)
  BY DEF E!Cardinality, Cardinality

\* Where one version of an app was and another one is, each list has one key of it.
LEMMA RenewedHasOne ==
    ASSUME NEW before \in AppLists, NEW after \in AppLists, IsFiniteSet(DOMAIN before), IsFiniteSet(DOMAIN after),
           NEW i, E!Renewed(before, after, i)
    PROVE  \E a \in DOMAIN before, b \in DOMAIN after :
              /\ E!KeysOf(before, i) = {a} /\ E!KeysOf(after, i) = {b} /\ a # b
              /\ a[1] = i /\ b[1] = i /\ i \in Identities
<1>1. ASSUME NEW apps, IsFiniteSet(DOMAIN apps), Cardinality(E!KeysOf(apps, i)) = 1
      PROVE  \E x \in DOMAIN apps : E!KeysOf(apps, i) = {x} /\ x[1] = i
  <2>1. IsFiniteSet(E!KeysOf(apps, i))
    BY <1>1, FS_Subset DEF E!KeysOf
  <2>2. PICK x : E!KeysOf(apps, i) = {x}
    BY <1>1, <2>1, FS_Singleton
  <2>3. x \in DOMAIN apps /\ x[1] = i
    BY <2>2 DEF E!KeysOf
  <2> QED
    BY <2>2, <2>3
<1>2. PICK a \in DOMAIN before : E!KeysOf(before, i) = {a} /\ a[1] = i
  BY <1>1, EvidenceCounts DEF E!Renewed
<1>3. PICK b \in DOMAIN after : E!KeysOf(after, i) = {b} /\ b[1] = i
  BY <1>1, EvidenceCounts DEF E!Renewed
<1>4. a # b
  BY <1>2, <1>3 DEF E!Renewed
<1>5. a \in Identities \X Versions
  BY PartialIsFunction DEF AppLists
<1> QED
  BY <1>2, <1>3, <1>4, <1>5

\* A change of version names the one key there was and the one there is.
LEMMA VersionChangeNames ==
    ASSUME NEW before \in AppLists, NEW after \in AppLists, IsFiniteSet(DOMAIN before), IsFiniteSet(DOMAIN after),
           NEW c \in E!VersionChanges(before, after)
    PROVE  \E i : /\ E!Renewed(before, after, i) /\ c.reason = "version_changed"
                  /\ E!KeysOf(before, i) = {c.from} /\ E!KeysOf(after, i) = {c.to}
<1>1. PICK i \in Identities :
          /\ E!Renewed(before, after, i)
          /\ c = [reason |-> "version_changed", from |-> CHOOSE k \in E!KeysOf(before, i) : TRUE,
                  to |-> CHOOSE k \in E!KeysOf(after, i) : TRUE]
  BY DEF E!VersionChanges
<1>2. PICK a \in DOMAIN before, b \in DOMAIN after : E!KeysOf(before, i) = {a} /\ E!KeysOf(after, i) = {b}
  BY <1>1, RenewedHasOne
<1>3. c.from \in E!KeysOf(before, i) /\ c.to \in E!KeysOf(after, i) /\ c.reason = "version_changed"
  BY <1>1, <1>2
<1> QED
  BY <1>1, <1>2, <1>3

\* A key of an app that was not renewed is told by itself, if it differs.
Single(before, after, k) ==
    /\ k \in DOMAIN before \cup DOMAIN after
    /\ ~E!Renewed(before, after, k[1])
    /\ E!Differs(before, after, k)

LEMMA ChangesAre ==
    ASSUME NEW before, NEW after, NEW c
    PROVE  c \in E!AppChanges(before, after) <=>
              \/ c \in E!VersionChanges(before, after)
              \/ \E k : Single(before, after, k) /\ c = [reason |-> E!Reason(before, after, k), from |-> k, to |-> k]
  BY DEF E!AppChanges, E!Paired, Single

LEMMA RenewedIsTold ==
    ASSUME NEW before \in AppLists, NEW after \in AppLists, IsFiniteSet(DOMAIN before), IsFiniteSet(DOMAIN after),
           NEW i, E!Renewed(before, after, i)
    PROVE  \E c \in E!AppChanges(before, after) :
              /\ c.reason = "version_changed"
              /\ E!KeysOf(before, i) = {c.from} /\ E!KeysOf(after, i) = {c.to}
<1>1. PICK a \in DOMAIN before, b \in DOMAIN after : E!KeysOf(before, i) = {a} /\ E!KeysOf(after, i) = {b} /\ i \in Identities
  BY RenewedHasOne
<1> DEFINE c == [reason |-> "version_changed", from |-> CHOOSE k \in E!KeysOf(before, i) : TRUE,
                 to |-> CHOOSE k \in E!KeysOf(after, i) : TRUE]
<1>2. c \in E!VersionChanges(before, after)
  BY <1>1 DEF E!VersionChanges
<1>3. c.from = a /\ c.to = b /\ c.reason = "version_changed"
  BY <1>1
<1> HIDE DEF c
<1> QED
  BY <1>1, <1>2, <1>3, ChangesAre

\* The list after the told changes is the list that is there.
LEMMA AppsReplay ==
    ASSUME NEW before \in AppLists, NEW after \in AppLists, IsFiniteSet(DOMAIN before), IsFiniteSet(DOMAIN after)
    PROVE  E!Replayed(before, E!AppChanges(before, after)) = DOMAIN after
<1> DEFINE changes == E!AppChanges(before, after)
           gone == {c.from : c \in {x \in changes : x.reason \in {"removed", "version_changed"}}}
           came == {c.to : c \in {x \in changes : x.reason \in {"installed", "version_changed"}}}
<1>1. ASSUME NEW c \in changes, c.reason = "version_changed"
      PROVE  \E i : /\ E!Renewed(before, after, i)
                    /\ E!KeysOf(before, i) = {c.from} /\ E!KeysOf(after, i) = {c.to}
  <2>1. CASE c \in E!VersionChanges(before, after)
    BY <2>1, VersionChangeNames
  <2>2. CASE c \notin E!VersionChanges(before, after)
    <3>1. PICK k : c = [reason |-> E!Reason(before, after, k), from |-> k, to |-> k]
      BY <2>2, ChangesAre
    <3>2. c.reason \in {"installed", "removed", "assessment_changed"}
      BY <3>1 DEF E!Reason
    <3> QED
      BY <1>1, <3>2
  <2> QED
    BY <2>1, <2>2
<1>2. ASSUME NEW c \in changes, c.reason \in {"installed", "removed"}
      PROVE  Single(before, after, c.from) /\ c.to = c.from /\ c.reason = E!Reason(before, after, c.from)
  <2>1. c \notin E!VersionChanges(before, after)
    BY <1>2, VersionChangeNames
  <2>2. PICK k : Single(before, after, k) /\ c = [reason |-> E!Reason(before, after, k), from |-> k, to |-> k]
    BY <2>1, ChangesAre
  <2> QED
    BY <2>2
<1>3. ASSUME NEW k, Single(before, after, k)
      PROVE  \E c \in changes : c.from = k /\ c.to = k /\ c.reason = E!Reason(before, after, k)
  <2> DEFINE c == [reason |-> E!Reason(before, after, k), from |-> k, to |-> k]
  <2>1. c \in changes
    BY <1>3, ChangesAre
  <2> QED
    BY <2>1
<1> HIDE DEF changes
\* What is there stays, or is the one key of a renewed app, or came by itself.
<1>4. ASSUME NEW k \in DOMAIN after PROVE k \in (DOMAIN before \ gone) \cup came
  <2>1. CASE E!Renewed(before, after, k[1])
    <3>1. PICK c \in changes : /\ c.reason = "version_changed" /\ E!KeysOf(after, k[1]) = {c.to}
      BY <2>1, RenewedIsTold DEF changes
    <3>2. k \in E!KeysOf(after, k[1])
      BY DEF E!KeysOf
    <3> QED
      BY <3>1, <3>2
  <2>2. CASE ~E!Renewed(before, after, k[1]) /\ k \notin DOMAIN before
    <3>1. Single(before, after, k) /\ E!Reason(before, after, k) = "installed"
      BY <2>2 DEF Single, E!Differs, E!Reason
    <3> QED
      BY <1>3, <3>1
  <2>3. CASE ~E!Renewed(before, after, k[1]) /\ k \in DOMAIN before
    <3>1. ASSUME NEW c \in changes, c.reason \in {"removed", "version_changed"} PROVE c.from # k
      <4>1. CASE c.reason = "removed"
        <5>1. c.from \notin DOMAIN after
          BY <1>2, <4>1 DEF E!Reason, Single
        <5> QED
          BY <5>1
      <4>2. CASE c.reason = "version_changed"
        <5>1. PICK i : E!Renewed(before, after, i) /\ E!KeysOf(before, i) = {c.from}
          BY <1>1, <4>2
        <5>2. c.from[1] = i
          BY <5>1 DEF E!KeysOf
        <5> QED
          BY <2>3, <5>1, <5>2
      <4> QED
        BY <3>1, <4>1, <4>2
    <3> QED
      BY <2>3, <3>1
  <2> QED
    BY <2>1, <2>2, <2>3
\* What is not there came in no change, and left in one if it was there.
<1>5. ASSUME NEW k, k \notin DOMAIN after PROVE k \notin (DOMAIN before \ gone) \cup came
  <2>1. ASSUME NEW c \in changes, c.reason \in {"installed", "version_changed"} PROVE c.to # k
    <3>1. CASE c.reason = "installed"
      <4>1. Single(before, after, c.to) /\ c.to \notin DOMAIN before
        BY <1>2, <3>1 DEF E!Reason
      <4> QED
        BY <1>5, <4>1 DEF Single
    <3>2. CASE c.reason = "version_changed"
      <4>1. PICK i : E!KeysOf(after, i) = {c.to}
        BY <1>1, <3>2
      <4> QED
        BY <1>5, <4>1 DEF E!KeysOf
    <3> QED
      BY <2>1, <3>1, <3>2
  <2>2. ASSUME k \in DOMAIN before PROVE k \in gone
    <3>1. CASE E!Renewed(before, after, k[1])
      <4>1. PICK c \in changes : c.reason = "version_changed" /\ E!KeysOf(before, k[1]) = {c.from}
        BY <3>1, RenewedIsTold DEF changes
      <4>2. k \in E!KeysOf(before, k[1])
        BY <2>2 DEF E!KeysOf
      <4> QED
        BY <4>1, <4>2
    <3>2. CASE ~E!Renewed(before, after, k[1])
      <4>1. Single(before, after, k) /\ E!Reason(before, after, k) = "removed"
        BY <1>5, <2>2, <3>2 DEF Single, E!Differs, E!Reason
      <4> QED
        BY <1>3, <4>1
    <3> QED
      BY <3>1, <3>2
  <2> QED
    BY <2>1, <2>2
<1> HIDE DEF gone, came
<1>6. (DOMAIN before \ gone) \cup came = DOMAIN after
  BY <1>4, <1>5
<1> QED
  BY <1>6 DEF E!Replayed, gone, came, changes

\* An app of which both lists have the same key was not renewed at that key.
LEMMA BothIsSingle ==
    ASSUME NEW before \in AppLists, NEW after \in AppLists, IsFiniteSet(DOMAIN before), IsFiniteSet(DOMAIN after),
           NEW k \in DOMAIN before \cap DOMAIN after
    PROVE  ~E!Renewed(before, after, k[1])
<1> SUFFICES ASSUME E!Renewed(before, after, k[1]) PROVE FALSE
  OBVIOUS
<1>1. PICK a \in DOMAIN before, b \in DOMAIN after : E!KeysOf(before, k[1]) = {a} /\ E!KeysOf(after, k[1]) = {b} /\ a # b
  BY RenewedHasOne
<1>2. k \in E!KeysOf(before, k[1]) /\ k \in E!KeysOf(after, k[1])
  BY DEF E!KeysOf
<1> QED
  BY <1>1, <1>2

\* Something is told of two lists exactly when they differ.
LEMMA AppsDiffer ==
    ASSUME NEW before \in AppLists, NEW after \in AppLists, IsFiniteSet(DOMAIN before), IsFiniteSet(DOMAIN after)
    PROVE  E!AppChanges(before, after) # {} <=> before # after
<1>1. ASSUME before = after PROVE E!AppChanges(before, after) = {}
  <2>1. \A i : ~E!Renewed(before, after, i)
    BY <1>1 DEF E!Renewed
  <2>2. \A k : ~Single(before, after, k)
    BY <1>1 DEF Single, E!Differs
  <2>3. E!VersionChanges(before, after) = {}
    BY <2>1 DEF E!VersionChanges
  <2> QED
    BY <2>2, <2>3, ChangesAre
<1>2. ASSUME before # after PROVE E!AppChanges(before, after) # {}
  <2>1. PICK k \in DOMAIN before \cup DOMAIN after : E!Differs(before, after, k)
    <3>1. \/ \E x \in DOMAIN before : x \notin DOMAIN after \/ before[x] # after[x]
          \/ \E x \in DOMAIN after : x \notin DOMAIN before
      BY <1>2, SameFunction DEF AppLists
    <3> QED
      BY <3>1 DEF E!Differs
  <2>2. CASE E!Renewed(before, after, k[1])
    BY <2>2, RenewedIsTold
  <2>3. CASE ~E!Renewed(before, after, k[1])
    <3>1. Single(before, after, k)
      BY <2>1, <2>3 DEF Single
    <3> QED
      BY <3>1, ChangesAre
  <2> QED
    BY <2>2, <2>3
<1> QED
  BY <1>1, <1>2

\* What an inventory read gives, its app list finite.
Facts(f) == E!IsFacts(f) /\ ("apps" \in DOMAIN f => IsFiniteSet(DOMAIN f["apps"]))

LEMMA SectionsDiffer ==
    ASSUME E!SectionsAssumption, NEW prev, Facts(prev), NEW cur, Facts(cur), NEW s \in DOMAIN prev \cap DOMAIN cur
    PROVE  E!SectionChanges(s, prev[s], cur[s]) # {} <=>
              ~(IF s = "apps" THEN prev[s] = cur[s]
                ELSE \A x \in DOMAIN prev[s] \cap DOMAIN cur[s] :
                        IF s = "ea" THEN prev[s][x].values = cur[s][x].values ELSE prev[s][x] = cur[s][x])
<1>1. CASE s = "apps"
  <2>1. prev[s] \in AppLists /\ cur[s] \in AppLists /\ IsFiniteSet(DOMAIN prev[s]) /\ IsFiniteSet(DOMAIN cur[s])
    BY <1>1 DEF Facts, E!IsFacts, E!AppLists, E!AppKeys, AppLists
  <2>2. E!SectionChanges(s, prev[s], cur[s]) = E!AppChanges(prev[s], cur[s])
    BY <1>1 DEF E!SectionChanges
  <2> QED
    BY <1>1, <2>1, <2>2, AppsDiffer
<1>2. CASE s = "ea"
  <2>1. E!SectionChanges(s, prev[s], cur[s]) =
            {[field |-> x, from |-> prev[s][x].values, to |-> cur[s][x].values] : x \in E!ChangedAttributes(prev[s], cur[s])}
    BY <1>2 DEF E!SectionChanges
  <2>2. E!SectionChanges(s, prev[s], cur[s]) # {} <=> E!ChangedAttributes(prev[s], cur[s]) # {}
    BY <2>1
  <2> QED
    BY <1>2, <2>2 DEF E!ChangedAttributes
<1>3. CASE s \notin {"apps", "ea"}
  <2>1. E!SectionChanges(s, prev[s], cur[s]) =
            {[field |-> x, from |-> prev[s][x], to |-> cur[s][x]] : x \in E!ChangedFields(prev[s], cur[s])}
    BY <1>3 DEF E!SectionChanges
  <2>2. E!SectionChanges(s, prev[s], cur[s]) # {} <=> E!ChangedFields(prev[s], cur[s]) # {}
    BY <2>1
  <2> QED
    BY <1>3, <2>2 DEF E!ChangedFields
<1> QED
  BY <1>1, <1>2, <1>3

\* The change log of two reads says changed exactly when they differ in a section both have,
\* and its app changes turn the first list into the second (evidence.py).
THEOREM EvidenceTellsAll ==
    ASSUME E!SectionsAssumption, NEW prev, Facts(prev), NEW cur, Facts(cur)
    PROVE  E!ChangesTellAll(prev, cur)
<1> SUFFICES ASSUME prev # Unset
             PROVE  /\ E!Kind(prev, cur) = "changed" <=> ~E!KeepsKnown(prev, cur)
                    /\ "apps" \in DOMAIN prev \cap DOMAIN cur =>
                          LET before == prev["apps"]  after == cur["apps"]
                              changes == E!AppChanges(before, after)
                          IN /\ E!Replayed(before, changes) = DOMAIN after
                             /\ \A k \in DOMAIN before \cap DOMAIN after :
                                   before[k] # after[k] => \E c \in changes : k \in {c.from, c.to}
  BY DEF E!ChangesTellAll
<1>1. E!Kind(prev, cur) = "changed" <=> E!Meaningful(prev, cur) # {}
  BY DEF E!Kind
<1>2. E!Meaningful(prev, cur) # {} <=> \E s \in DOMAIN prev \cap DOMAIN cur : E!SectionChanges(s, prev[s], cur[s]) # {}
  <2> DEFINE tell(s) == {<<s, c>> : c \in E!SectionChanges(s, prev[s], cur[s])}
  <2>1. E!Meaningful(prev, cur) = UNION {tell(s) : s \in DOMAIN prev \cap DOMAIN cur}
    BY DEF E!Meaningful
  <2>2. \A s : tell(s) # {} <=> E!SectionChanges(s, prev[s], cur[s]) # {}
    OBVIOUS
  <2> HIDE DEF tell
  <2> QED
    BY <2>1, <2>2
<1>3. E!Kind(prev, cur) = "changed" <=> ~E!KeepsKnown(prev, cur)
  BY <1>1, <1>2, SectionsDiffer DEF E!KeepsKnown
<1>4. ASSUME "apps" \in DOMAIN prev \cap DOMAIN cur
      PROVE  /\ E!Replayed(prev["apps"], E!AppChanges(prev["apps"], cur["apps"])) = DOMAIN cur["apps"]
             /\ \A k \in DOMAIN prev["apps"] \cap DOMAIN cur["apps"] :
                   prev["apps"][k] # cur["apps"][k]
                       => \E c \in E!AppChanges(prev["apps"], cur["apps"]) : k \in {c.from, c.to}
  <2> DEFINE before == prev["apps"]
             after == cur["apps"]
  <2>1. before \in AppLists /\ after \in AppLists /\ IsFiniteSet(DOMAIN before) /\ IsFiniteSet(DOMAIN after)
    BY <1>4 DEF Facts, E!IsFacts, E!AppLists, E!AppKeys, AppLists
  <2> HIDE DEF before, after
  <2>2. E!Replayed(before, E!AppChanges(before, after)) = DOMAIN after
    BY <2>1, AppsReplay
  <2>3. ASSUME NEW k \in DOMAIN before \cap DOMAIN after, before[k] # after[k]
        PROVE  \E c \in E!AppChanges(before, after) : k \in {c.from, c.to}
    <3>1. Single(before, after, k)
      BY <2>1, <2>3, BothIsSingle DEF Single, E!Differs
    <3> DEFINE c == [reason |-> E!Reason(before, after, k), from |-> k, to |-> k]
    <3>2. c \in E!AppChanges(before, after)
      BY <3>1, ChangesAre
    <3>3. c.from = k
      OBVIOUS
    <3> HIDE DEF c
    <3> QED
      BY <3>2, <3>3
  <2> QED
    BY <2>2, <2>3 DEF before, after
<1> QED
  BY <1>3, <1>4

-----------------------------------------------------------------------------
(* The change log and its filters.                                          *)

D == INSTANCE Changes WITH Fields <- FieldLevels, Kinds <- KindLevels, EntryFields <- EntryLevels, None <- Unset

\* Entries as an observation holds them: none of them is nothing.
Entries(S) == Unset \notin S

LEMMA ChangeHas ==
    ASSUME NEW change, NEW old, NEW new
    PROVE  LET c == D!Change(change, old, new) IN
           /\ c.change = change /\ c.old = old /\ c.new = new
           /\ c.kind = (IF new = Unset THEN old ELSE new).kind
           /\ c.id = (IF new = Unset THEN old ELSE new).id
  BY DEF D!Change

\* What diff.py tells of two observations turns the one into the other, pairs only entries of
\* one identity, and leaves no pair of one identity untold.
THEOREM DiffsReplay ==
    ASSUME NEW old, NEW new, Entries(old), Entries(new)
    PROVE  D!DiffReplays(old, new)
<1> DEFINE gone == old \ new
           came == new \ old
<1> SUFFICES ASSUME NEW m \in D!Pairings(gone, came),
                    NEW changes,
                    changes = {D!Change("updated", p[1], p[2]) : p \in m}
                                \cup {D!Change("removed", g, Unset) : g \in gone \ {p[1] : p \in m}}
                                \cup {D!Change("added", Unset, c) : c \in came \ {p[2] : p \in m}}
             PROVE  /\ (old \ {c.old : c \in changes}) \cup ({c.new : c \in changes} \ {Unset}) = new
                    /\ \A c \in changes : c.change = "updated" => c.old.id = c.new.id
                    /\ \A c, d \in changes : c.change = "removed" /\ d.change = "added" => ~D!SameIdentity(c, d)
  BY DEF D!DiffReplays, D!diff_entries
<1>1. /\ m \subseteq gone \X came
      /\ \A p \in m : D!SameIdentity(p[1], p[2])
      /\ \A g \in gone \ {p[1] : p \in m}, c \in came \ {p[2] : p \in m} : ~D!SameIdentity(g, c)
  BY DEF D!Pairings
<1>2. \A p \in m : p[1] \in gone /\ p[2] \in came
  BY <1>1
<1>3. ASSUME NEW c \in changes
      PROVE  \/ c.change = "updated" /\ \E p \in m : c.old = p[1] /\ c.new = p[2]
             \/ /\ c.change = "removed" /\ c.old \in gone \ {p[1] : p \in m} /\ c.new = Unset
                /\ c.kind = c.old.kind /\ c.id = c.old.id
             \/ /\ c.change = "added" /\ c.new \in came \ {p[2] : p \in m} /\ c.old = Unset
                /\ c.kind = c.new.kind /\ c.id = c.new.id
  <2>1. CASE \E p \in m : c = D!Change("updated", p[1], p[2])
    BY <2>1, ChangeHas
  <2>2. CASE \E g \in gone \ {p[1] : p \in m} : c = D!Change("removed", g, Unset)
    BY <2>2, ChangeHas
  <2>3. CASE \E x \in came \ {p[2] : p \in m} : c = D!Change("added", Unset, x)
    <3>1. PICK x \in came \ {p[2] : p \in m} : c = D!Change("added", Unset, x)
      BY <2>3
    <3>2. x # Unset
      BY DEF Entries
    <3> QED
      BY <3>1, <3>2, ChangeHas
  <2> QED
    BY <2>1, <2>2, <2>3
\* Everything that went is the old side of a change, and everything that came the new side of one.
<1>4. gone \subseteq {c.old : c \in changes}
  <2> SUFFICES ASSUME NEW g \in gone PROVE \E c \in changes : c.old = g
    OBVIOUS
  <2>1. CASE g \in {p[1] : p \in m}
    <3>1. PICK p \in m : g = p[1]
      BY <2>1
    <3>2. D!Change("updated", p[1], p[2]) \in changes
      BY <3>1
    <3> QED
      BY <3>1, <3>2, ChangeHas
  <2>2. CASE g \notin {p[1] : p \in m}
    <3>1. D!Change("removed", g, Unset) \in changes
      BY <2>2
    <3> QED
      BY <3>1, ChangeHas
  <2> QED
    BY <2>1, <2>2
<1>5. came \subseteq {c.new : c \in changes}
  <2> SUFFICES ASSUME NEW x \in came PROVE \E c \in changes : c.new = x
    OBVIOUS
  <2>1. CASE x \in {p[2] : p \in m}
    <3>1. PICK p \in m : x = p[2]
      BY <2>1
    <3>2. D!Change("updated", p[1], p[2]) \in changes
      BY <3>1
    <3> QED
      BY <3>1, <3>2, ChangeHas
  <2>2. CASE x \notin {p[2] : p \in m}
    <3>1. D!Change("added", Unset, x) \in changes
      BY <2>2
    <3> QED
      BY <3>1, ChangeHas
  <2> QED
    BY <2>1, <2>2
<1>6. \A c \in changes : c.old \in gone \cup {Unset} /\ c.new \in came \cup {Unset}
  BY <1>2, <1>3
<1>7. (old \ {c.old : c \in changes}) \cup ({c.new : c \in changes} \ {Unset}) = new
  BY <1>4, <1>5, <1>6 DEF Entries
<1>8. \A c \in changes : c.change = "updated" => c.old.id = c.new.id
  BY <1>1, <1>3 DEF D!SameIdentity
<1>9. \A c, d \in changes : c.change = "removed" /\ d.change = "added" => ~D!SameIdentity(c, d)
  <2> SUFFICES ASSUME NEW c \in changes, NEW d \in changes, c.change = "removed", d.change = "added"
               PROVE  ~D!SameIdentity(c, d)
    OBVIOUS
  <2>1. c.old \in gone \ {p[1] : p \in m} /\ c.kind = c.old.kind /\ c.id = c.old.id
    BY <1>3
  <2>2. d.new \in came \ {p[2] : p \in m} /\ d.kind = d.new.kind /\ d.id = d.new.id
    BY <1>3
  <2>3. ~D!SameIdentity(c.old, d.new)
    BY <1>1, <2>1, <2>2
  <2> QED
    BY <2>1, <2>2, <2>3 DEF D!SameIdentity
<1> QED
  BY <1>7, <1>8, <1>9

-----------------------------------------------------------------------------
LEMMA ChangesCount == \A S : D!Cardinality(S) = Cardinality(S)
  BY DEF D!Cardinality, Cardinality

\* The token a text filter resolves to keeps every row the text matched: api/changes.py
\* resolves one only where all of them share it.
THEOREM TokensKeepRows ==
    ASSUME NEW observations, IsFiniteSet(observations), NEW text, NEW contains, \A f, x : <<f, x>> # Unset
    PROVE  D!TokenKeepsRows(observations, text, contains)
<1> DEFINE stamps == {D!device_dimensions(o) : o \in observations}
           found == {s \in stamps : D!MatchesText(s, text, contains)}
           tokens == {D!canonical_identity(s) : s \in found} \ {Unset}
           token == D!_resolve_user_filter(stamps, text, contains)
<1> SUFFICES ASSUME token # Unset, NEW s \in found PROVE D!canonical_identity(s) = token
  BY DEF D!TokenKeepsRows
<1>1. D!canonical_identity(s) # Unset
  <2>1. PICK f \in D!Names : s[f] # Unset
    BY DEF D!MatchesText
  <2>2. PICK i \in 1..3 : D!IdentityFields[i] = f
    <3>1. f \in {"username", "email", "realName"}
      BY DEF D!Names
    <3>2. D!IdentityFields[1] = "username" /\ D!IdentityFields[2] = "email" /\ D!IdentityFields[3] = "realName"
      BY DEF D!IdentityFields
    <3>3. 1 \in 1..3 /\ 2 \in 1..3 /\ 3 \in 1..3
      OBVIOUS
    <3> QED
      BY <3>1, <3>2, <3>3
  <2> QED
    BY <2>1, <2>2 DEF D!canonical_identity
<1>2. D!canonical_identity(s) \in tokens
  BY <1>1
<1>3. Cardinality(tokens) = 1 /\ token = CHOOSE t \in tokens : TRUE
  BY ChangesCount DEF D!_resolve_user_filter
<1>4. IsFiniteSet(tokens)
  <2>1. IsFiniteSet(stamps)
    <3> DEFINE H == [o \in observations |-> D!device_dimensions(o)]
    <3>1. H \in Surjection(observations, stamps)
      BY DEF Surjection
    <3> HIDE DEF H, stamps
    <3> QED
      BY <3>1, FS_Surjection
  <2>2. IsFiniteSet(found)
    <3> HIDE DEF stamps
    <3> QED
      BY <2>1, FS_Subset
  <2> DEFINE all == {D!canonical_identity(x) : x \in found}
             G == [x \in found |-> D!canonical_identity(x)]
  <2> HIDE DEF found
  <2>3. G \in Surjection(found, all)
    BY DEF Surjection
  <2>4. IsFiniteSet(all)
    <3> HIDE DEF G, all
    <3> QED
      BY <2>2, <2>3, FS_Surjection
  <2> HIDE DEF all
  <2>5. IsFiniteSet(all \ {Unset})
    BY <2>4, FS_RemoveElement
  <2> QED
    BY <2>5 DEF all
<1>5. PICK x : tokens = {x}
  <2> HIDE DEF tokens
  <2> QED
    BY <1>3, <1>4, FS_Singleton
<1> QED
  BY <1>2, <1>3, <1>5

-----------------------------------------------------------------------------
(* What is content of a record, and what its current state takes of it.     *)

K == INSTANCE Contract WITH Lists <- SectionLists, Values <- AttributeValues, None <- Unset

LEMMA RangeOf ==
    ASSUME NEW f
    PROVE  K!Range(f) = {f[x] : x \in DOMAIN f}
  BY DEF K!Range

LEMMA RestrictTo ==
    ASSUME NEW f, NEW S
    PROVE  /\ DOMAIN K!Restrict(f, S) = S
           /\ \A x \in S : K!Restrict(f, S)[x] = f[x]
  BY DEF K!Restrict

\* An attribute of the record, where it was found.
LEMMA HoistedAre ==
    ASSUME NEW raw, NEW sections, NEW quarantined, NEW item, NEW key
    PROVE  <<item, key>> \in K!hoist_extension_attributes(raw, sections, quarantined) <=>
              /\ key \in K!Sources(raw) /\ K!Admits(sections, key)
              /\ item \in K!Range(K!Array(raw, key)) /\ ~K!IsQuarantined(item, quarantined)
<1> DEFINE from(k) == K!Range(K!Array(raw, k))
<1>1. <<item, key>> \in UNION {from(k) \X {k} : k \in {s \in K!Sources(raw) : K!Admits(sections, s)}} <=>
          key \in K!Sources(raw) /\ K!Admits(sections, key) /\ item \in from(key)
  <2> HIDE DEF from
  <2> QED
    OBVIOUS
<1> QED
  BY <1>1 DEF K!hoist_extension_attributes

LEMMA HoistedIsPair ==
    ASSUME NEW raw, NEW sections, NEW quarantined, NEW p \in K!hoist_extension_attributes(raw, sections, quarantined)
    PROVE  p = <<p[1], p[2]>>
  BY DEF K!hoist_extension_attributes

\* A record read off a page that was asked for some sections says what the whole record says of
\* them, in its content and in its current state (canonicalize_computer, normalize_computer).
THEOREM PagesReadAsDetails ==
    ASSUME NEW detail, NEW sections, NEW quarantined
    PROVE  K!PageReadsAsDetail(detail, sections, quarantined)
<1> DEFINE shows == K!Page(detail, sections)
<1>1. DOMAIN shows = DOMAIN detail \cap sections /\ \A k \in DOMAIN shows : shows[k] = detail[k]
  BY RestrictTo DEF K!Page
<1> HIDE DEF shows
<1>2. \A name \in sections : name \in DOMAIN shows <=> name \in DOMAIN detail
  BY <1>1
<1>3. ASSUME NEW key \in sections
      PROVE  /\ key \in K!Sources(shows) <=> key \in K!Sources(detail)
             /\ key \in K!Sources(detail) => K!Array(shows, key) = K!Array(detail, key)
  BY <1>1 DEF K!Sources, K!Nested, K!Array
<1>4. K!hoist_extension_attributes(shows, sections, quarantined) = K!hoist_extension_attributes(detail, sections, quarantined)
  <2>1. ASSUME NEW item, NEW key
        PROVE  <<item, key>> \in K!hoist_extension_attributes(shows, sections, quarantined)
                 <=> <<item, key>> \in K!hoist_extension_attributes(detail, sections, quarantined)
    BY <1>3, HoistedAre DEF K!Admits
  <2> QED
    BY <2>1, HoistedIsPair
<1>5. \A name \in sections : /\ K!_list_section(shows, name) = K!_list_section(detail, name)
                             /\ K!_scalar_section(shows, name) = K!_scalar_section(detail, name)
  BY <1>1 DEF K!_list_section, K!_scalar_section
<1>6. K!canonicalize_computer(shows, sections, quarantined) = K!canonicalize_computer(detail, sections, quarantined)
  BY <1>4, <1>5 DEF K!canonicalize_computer
<1>7. K!normalize_computer(shows, sections, quarantined) = K!normalize_computer(detail, sections, quarantined)
  BY <1>1, <1>4, <1>5, Zenon DEF K!normalize_computer
<1> QED
  BY <1>6, <1>7 DEF K!PageReadsAsDetail, shows

\* A computer record as Jamf gives one: attributes are found in objects that may carry them,
\* in a section nobody knows, or in their own.
Details(detail) ==
    /\ \A k \in DOMAIN detail :
          detail[k] = [body |-> detail[k].body, items |-> detail[k].items, attributes |-> detail[k].attributes]
    /\ \A k \in DOMAIN detail \ {EA} : detail[k].attributes # Unset => k \in Carriers \cup {Strange}

\* An attribute is not its values, and a list of attributes is there.
AttributesAssumption == Id # AttributeValues /\ EA \notin Carriers /\ Unset \in Absences

\* What is kept of an attribute that has an id is heard by that id.
LEMMA KeptById ==
    ASSUME AttributesAssumption, NEW item
    PROVE  LET kept == K!canonical_document(K!Sorted(item), {Id, AttributeValues}) IN
           /\ Id \in DOMAIN kept <=> Id \in DOMAIN item /\ item[Id] \notin Absences
           /\ Id \in DOMAIN kept => kept[Id] = item[Id] /\ kept # <<>>
<1> DEFINE sorted == K!Sorted(item)
           chosen == K!_select(sorted, {Id, AttributeValues})
           kept == K!_prune(chosen)
<1>1. (Id \in DOMAIN sorted <=> Id \in DOMAIN item) /\ (Id \in DOMAIN item => sorted[Id] = item[Id])
  BY DEF AttributesAssumption, K!Sorted
<1> HIDE DEF sorted
<1>2. /\ Id \in DOMAIN chosen <=> Id \in DOMAIN sorted
      /\ Id \in DOMAIN chosen => chosen[Id] = sorted[Id]
  BY RestrictTo DEF K!_select
<1> HIDE DEF chosen
<1>3. /\ Id \in DOMAIN kept <=> Id \in DOMAIN chosen /\ chosen[Id] \notin Absences
      /\ Id \in DOMAIN kept => kept[Id] = chosen[Id]
  BY RestrictTo DEF K!_prune
<1>4. Id \in DOMAIN kept => kept # <<>>
  OBVIOUS
<1> HIDE DEF kept
<1> QED
  BY <1>1, <1>2, <1>3, <1>4, Zenon DEF K!canonical_document, kept, chosen, sorted

\* The content of a record and its current state name the same extension attributes, none of
\* them quarantined (hoist_extension_attributes serves both).
THEOREM ViewsNameOneSet ==
    ASSUME AttributesAssumption, NEW detail, NEW sections, NEW quarantined
    PROVE  K!ViewsNameTheSame(detail, sections, quarantined)
<1> DEFINE hoisted == K!hoist_extension_attributes(detail, sections, quarantined)
           view == {<<K!Sorted(p[1]), p[2]>> : p \in {q \in hoisted : K!Identified(q[1])}}
           kept == {K!canonical_document(K!Sorted(item), {Id, AttributeValues}) : item \in {p[1] : p \in hoisted}} \ {<<>>}
<1> SUFFICES ASSUME EA \in sections
             PROVE  /\ {p[1][Id] : p \in view} = {e[Id] : e \in {x \in kept : Id \in DOMAIN x}}
                    /\ quarantined \cap {p[1][Id] : p \in view} = {}
  <2>1. K!normalize_computer(detail, sections, quarantined).attributes = IF EA \notin sections THEN Unset ELSE view
    BY DEF K!normalize_computer
  <2>2. ASSUME EA \in sections PROVE K!canonicalize_computer(detail, sections, quarantined)[EA] = kept
    <3>1. K!Allowed[EA] = {Id, AttributeValues}
      BY DEF K!Allowed, K!SECTIONS
    <3>2. K!canonicalize_computer(detail, sections, quarantined)[EA] = K!_entries(EA, {p[1] : p \in hoisted})
      BY <2>2 DEF K!canonicalize_computer
    <3> HIDE DEF hoisted
    <3>3. K!_entries(EA, {p[1] : p \in hoisted}) = kept
      BY <3>1 DEF K!_entries
    <3> QED
      BY <3>2, <3>3
  <2> HIDE DEF view, kept
  <2> QED
    BY <2>1, <2>2 DEF K!ViewsNameTheSame
<1>1. \A p : K!Identified(p[1]) => K!Sorted(p[1])[Id] = p[1][Id]
  BY DEF AttributesAssumption, K!Sorted, K!Identified
<1>2. \A p \in hoisted : ~K!IsQuarantined(p[1], quarantined)
  BY DEF K!hoist_extension_attributes
<1> HIDE DEF hoisted
<1> DEFINE named == {q \in hoisted : K!Identified(q[1])}
<1>3. {p[1][Id] : p \in view} = {p[1][Id] : p \in named}
  <2>1. ASSUME NEW p \in view PROVE \E q \in named : p[1][Id] = q[1][Id]
    <3>1. PICK q \in named : p = <<K!Sorted(q[1]), q[2]>>
      OBVIOUS
    <3> QED
      BY <1>1, <3>1
  <2>2. ASSUME NEW q \in named PROVE \E p \in view : p[1][Id] = q[1][Id]
    <3> DEFINE p == <<K!Sorted(q[1]), q[2]>>
    <3>1. p \in view /\ p[1] = K!Sorted(q[1])
      OBVIOUS
    <3> HIDE DEF p, view
    <3> QED
      BY <1>1, <3>1
  <2> HIDE DEF view, named
  <2> QED
    BY <2>1, <2>2
<1>4. {e[Id] : e \in {x \in kept : Id \in DOMAIN x}} = {p[1][Id] : p \in named}
  <2> DEFINE heard == {x \in kept : Id \in DOMAIN x}
  <2>1. ASSUME NEW e \in heard PROVE \E q \in named : e[Id] = q[1][Id]
    <3>1. PICK q \in hoisted : e = K!canonical_document(K!Sorted(q[1]), {Id, AttributeValues})
      OBVIOUS
    <3>2. Id \in DOMAIN e
      OBVIOUS
    <3> HIDE DEF heard, kept
    <3> QED
      BY <3>1, <3>2, KeptById DEF K!Identified
  <2>2. ASSUME NEW q \in named PROVE \E e \in heard : e[Id] = q[1][Id]
    <3> DEFINE e == K!canonical_document(K!Sorted(q[1]), {Id, AttributeValues})
    <3>1. Id \in DOMAIN e /\ e[Id] = q[1][Id] /\ e # <<>>
      BY KeptById DEF K!Identified
    <3>2. e \in {K!canonical_document(K!Sorted(item), {Id, AttributeValues}) : item \in {p[1] : p \in hoisted}}
      OBVIOUS
    <3> HIDE DEF e
    <3> QED
      BY <3>1, <3>2
  <2> HIDE DEF heard, named
  <2>3. {e[Id] : e \in heard} = {p[1][Id] : p \in named}
    BY <2>1, <2>2
  <2> QED
    BY <2>3 DEF heard
<1> HIDE DEF view, kept
<1>5. \A p \in named : p[1][Id] \notin quarantined
  BY <1>2 DEF K!Identified, K!IsQuarantined
<1> HIDE DEF named
<1>6. quarantined \cap {p[1][Id] : p \in named} = {}
  BY <1>5
<1> QED
  BY <1>3, <1>4, <1>6

\* Every attribute of a record is hoisted or its section is reported as not admitted, and only
\* a section nobody knows is (hoist_extension_attributes, _report_unadmitted).
THEOREM DropsAreSaid ==
    ASSUME AttributesAssumption, NEW detail, Details(detail), NEW scope
    PROVE  K!NothingDropsUnsaid(detail, scope)
<1> DEFINE sections == scope \cup Carriers
<1> SUFFICES ASSUME EA \in scope
             PROVE  /\ \A k \in K!Sources(detail) : \A item \in K!Range(K!Array(detail, k)) :
                          <<item, k>> \in K!hoist_extension_attributes(detail, sections, {})
                          \/ k \in K!unadmitted(detail, sections)
                    /\ K!unadmitted(detail, sections) \subseteq {Strange}
  BY DEF K!NothingDropsUnsaid, K!with_extension_attribute_carriers
<1>1. ASSUME NEW k \in K!Sources(detail), NEW item \in K!Range(K!Array(detail, k)), k \notin K!unadmitted(detail, sections)
      PROVE  <<item, k>> \in K!hoist_extension_attributes(detail, sections, {})
  <2>1. K!Array(detail, k) # <<>>
    BY RangeOf
  <2>2. K!Admits(sections, k)
    BY <1>1, <2>1 DEF K!unadmitted
  <2>3. ~K!IsQuarantined(item, {})
    BY DEF K!IsQuarantined
  <2> QED
    BY <2>2, <2>3, HoistedAre
<1>2. ASSUME NEW k \in K!unadmitted(detail, sections) PROVE k = Strange
  <2>1. k \in K!Sources(detail) /\ k \notin sections
    BY DEF K!unadmitted, K!Admits
  <2>2. k \in DOMAIN detail \ {EA} /\ detail[k].attributes # Unset
    BY <2>1 DEF K!Sources, K!Nested
  <2> QED
    BY <2>1, <2>2 DEF Details
<1> QED
  BY <1>1, <1>2

\* An attribute is hoisted, from wherever.
Hoisted(raw, sections, quarantined, x) ==
    \E key : <<x, key>> \in K!hoist_extension_attributes(raw, sections, quarantined)

\* It is the one a carrier shows, or one of those that no carrier has.
ShownOrElsewhere(detail, item, sections, quarantined, x) ==
    \/ x = item /\ ~K!IsQuarantined(item, quarantined)
    \/ \E key \in K!Sources(detail) \ Carriers :
          key \in sections /\ x \in K!Range(K!Array(detail, key)) /\ ~K!IsQuarantined(x, quarantined)

\* The attributes of a record in which one carrier shows the item: which one does not matter.
LEMMA ShownIsHoisted ==
    ASSUME AttributesAssumption, NEW detail, Details(detail), NEW item, <<item>> # Unset,
           NEW scope, EA \in scope, NEW quarantined,
           NEW j \in Carriers \cap DOMAIN detail, NEW x
    PROVE  Hoisted(K!Show(detail, item, j), scope \cup Carriers, quarantined, x)
             <=> ShownOrElsewhere(detail, item, scope \cup Carriers, quarantined, x)
<1> DEFINE shown == K!Show(detail, item, j)
           sections == scope \cup Carriers
<1>1. /\ DOMAIN shown = DOMAIN detail
      /\ \A k \in DOMAIN detail \ Carriers : shown[k] = detail[k]
      /\ \A k \in DOMAIN detail \cap Carriers : shown[k].attributes = IF k = j THEN <<item>> ELSE Unset
  BY DEF K!Show, Details
<1> HIDE DEF shown
<1>2. \A key : key \in K!Sources(shown) <=> key = j \/ key \in K!Sources(detail) \ Carriers
  BY <1>1 DEF K!Sources, K!Nested, AttributesAssumption
<1>3. K!Array(shown, j) = <<item>> /\ \A key \in K!Sources(detail) \ Carriers : K!Array(shown, key) = K!Array(detail, key)
  BY <1>1 DEF K!Array, K!Sources, K!Nested, AttributesAssumption
<1>4. K!Range(<<item>>) = {item}
  BY RangeOf
<1>5. \A key : K!Admits(sections, key) <=> key \in sections
  BY DEF K!Admits
<1>6. j \in sections /\ j \in Carriers
  OBVIOUS
<1> HIDE DEF sections
<1>7. \A key : <<x, key>> \in K!hoist_extension_attributes(shown, sections, quarantined) <=>
          /\ key = j \/ key \in K!Sources(detail) \ Carriers
          /\ key \in sections
          /\ x \in K!Range(K!Array(shown, key)) /\ ~K!IsQuarantined(x, quarantined)
  BY <1>2, <1>5, HoistedAre
<1>8. (\E key : <<x, key>> \in K!hoist_extension_attributes(shown, sections, quarantined)) <=>
                \/ x = item /\ ~K!IsQuarantined(item, quarantined)
                \/ \E key \in K!Sources(detail) \ Carriers :
                      key \in sections /\ x \in K!Range(K!Array(detail, key)) /\ ~K!IsQuarantined(x, quarantined)
  <2>1. ASSUME NEW key, <<x, key>> \in K!hoist_extension_attributes(shown, sections, quarantined)
        PROVE  \/ x = item /\ ~K!IsQuarantined(item, quarantined)
               \/ \E k \in K!Sources(detail) \ Carriers :
                     k \in sections /\ x \in K!Range(K!Array(detail, k)) /\ ~K!IsQuarantined(x, quarantined)
    <3>1. CASE key = j
      BY <1>3, <1>4, <1>7, <2>1, <3>1
    <3>2. CASE key \in K!Sources(detail) \ Carriers
      BY <1>3, <1>7, <2>1, <3>2
    <3> QED
      BY <1>7, <2>1, <3>1, <3>2
  <2>2. ASSUME x = item, ~K!IsQuarantined(item, quarantined)
        PROVE  <<x, j>> \in K!hoist_extension_attributes(shown, sections, quarantined)
    BY <1>3, <1>4, <1>6, <1>7, <2>2
  <2>3. ASSUME NEW key \in K!Sources(detail) \ Carriers, key \in sections,
               x \in K!Range(K!Array(detail, key)), ~K!IsQuarantined(x, quarantined)
        PROVE  <<x, key>> \in K!hoist_extension_attributes(shown, sections, quarantined)
    BY <1>3, <1>7, <2>3
  <2> QED
    BY <2>1, <2>2, <2>3
<1> QED
  BY <1>8 DEF shown, sections, Hoisted, ShownOrElsewhere

\* Where an administrator shows an attribute changes nothing of the content of the record, so no
\* span of its history begins (canonicalize_computer).
THEOREM DisplayIsNoContent ==
    ASSUME AttributesAssumption, NEW detail, Details(detail), NEW item, <<item>> # Unset,
           NEW scope, NEW quarantined
    PROVE  K!DisplayIsNotContent(detail, item, scope, quarantined)
<1> DEFINE sections == K!with_extension_attribute_carriers(scope)
<1> SUFFICES ASSUME NEW j \in Carriers \cap DOMAIN detail, NEW k \in Carriers \cap DOMAIN detail
             PROVE  K!canonicalize_computer(K!Show(detail, item, j), sections, quarantined)
                      = K!canonicalize_computer(K!Show(detail, item, k), sections, quarantined)
  BY DEF K!DisplayIsNotContent
<1> DEFINE one == K!Show(detail, item, j)
           other == K!Show(detail, item, k)
<1>1. /\ DOMAIN one = DOMAIN other
      /\ \A name \in DOMAIN one : one[name].body = other[name].body /\ one[name].items = other[name].items
  BY DEF K!Show, Details
<1>2. ASSUME EA \in sections
      PROVE  {p[1] : p \in K!hoist_extension_attributes(one, sections, quarantined)}
                = {p[1] : p \in K!hoist_extension_attributes(other, sections, quarantined)}
  <2>1. EA \in scope /\ sections = scope \cup Carriers
    BY <1>2 DEF K!with_extension_attribute_carriers, AttributesAssumption
  <2> HIDE DEF one, other, sections
  <2>2. \A x : Hoisted(one, sections, quarantined, x) <=> Hoisted(other, sections, quarantined, x)
    BY <2>1, ShownIsHoisted DEF one, other
  <2>3. ASSUME NEW raw, NEW x
        PROVE  x \in {p[1] : p \in K!hoist_extension_attributes(raw, sections, quarantined)}
                 <=> Hoisted(raw, sections, quarantined, x)
    <3> DEFINE hoisted == K!hoist_extension_attributes(raw, sections, quarantined)
    <3>1. \A p \in hoisted : p = <<p[1], p[2]>>
      BY HoistedIsPair
    <3> HIDE DEF hoisted
    <3>2. x \in {p[1] : p \in hoisted} <=> \E key : <<x, key>> \in hoisted
      BY <3>1
    <3> QED
      BY <3>2 DEF hoisted, Hoisted
  <2> QED
    BY <2>2, <2>3
<1> HIDE DEF one, other, sections
<1>3. \A name : /\ K!_list_section(one, name) = K!_list_section(other, name)
                /\ K!_scalar_section(one, name) = K!_scalar_section(other, name)
  BY <1>1 DEF K!_list_section, K!_scalar_section
<1> QED
  BY <1>2, <1>3 DEF K!canonicalize_computer, one, other
=============================================================================
