------------------------------ MODULE Baseline ------------------------------
(***************************************************************************)
(* The evidence report: the spans of the observation ledger read as one     *)
(* section's history (baseline/intervals.py), a verdict of every rule over  *)
(* it (baseline/evaluator.py), and the sums and sentences of the page       *)
(* (baseline/report.py, baseline/page.py).                                  *)
(*                                                                          *)
(* A span is [digest, first, last], a subject's spans a sequence in the     *)
(* order they were observed and collected.  Time is in fractions of a       *)
(* second; a device's own clock is whole.                                   *)
(***************************************************************************)
EXTENDS Integers, Sequences, FiniteSets, SequencesExt

CONSTANTS None,
          Second,         \* fractions of a second
          Version,        \* CONTRACT_VERSION
          NotCollected    \* Jamf's word for a field it did not ask for

BaselineAssumption == Second \in Nat \ {0}

Low(a, b) == IF a < b THEN a ELSE b
High(a, b) == IF a < b THEN b ELSE a

-----------------------------------------------------------------------------
(* Intervals.                                                               *)

Read(spans, as_of) == SelectSeq(spans, LAMBDA s : s.first <= as_of)

\* Spans side by side with one digest are one island; inner is the widest hole in it.
Island(span) == [digest |-> span.digest, starts |-> span.first, last |-> span.last, inner |-> 0, count |-> span.count]
_ISLANDS(spans, as_of) ==
    LET Grow(islands, span) ==
            LET top == Len(islands) IN
            IF islands # <<>> /\ islands[top].digest = span.digest
            THEN [islands EXCEPT ![top] =
                     [@ EXCEPT !.last = High(@, span.last), !.inner = High(@, span.first - islands[top].last),
                               !.count = @ + span.count]]
            ELSE Append(islands, Island(span))
    IN FoldLeft(Grow, <<>>, Read(spans, as_of))

\* The query orders islands by where they start and says nothing of two that start together.
Answers(islands) ==
    {f \in [DOMAIN islands -> DOMAIN islands] :
        /\ \A i, j \in DOMAIN islands : f[i] = f[j] => i = j
        /\ \A i, j \in DOMAIN islands : i < j => islands[f[i]].starts <= islands[f[j]].starts}

Interval(state, digest, opens, closes, gap, count) ==
    [state |-> state, digest |-> digest, starts |-> opens, ends |-> closes, gap |-> gap, count |-> count]
_gap(state, opens, closes) == Interval(state, None, opens, closes, closes - opens, 0)

_tail(from, to, gone) ==
    LET Cut(acc, window) ==
            LET opens == High(window[1], acc.cursor)
                closes == Low(IF window[2] = None THEN to ELSE window[2], to)
                before == IF acc.cursor < opens THEN <<_gap("not_observed", acc.cursor, opens)>> ELSE <<>>
            IN IF closes <= opens THEN acc
               ELSE [pieces |-> acc.pieces \o before \o <<_gap("departed", opens, closes)>>, cursor |-> closes]
        end == FoldLeft(Cut, [pieces |-> <<>>, cursor |-> from], gone)
    IN end.pieces \o (IF end.cursor < to THEN <<_gap("not_observed", end.cursor, to)>> ELSE <<>>)

\* A bug: a state ends where it was last seen.
EndOf_Seen(islands, i, as_of) == Low(High(islands[i].last, islands[i].starts), as_of)

\* A state is carried to where the next one was first seen; the last one is carried nowhere.
EndOf(islands, i, as_of) ==
    Low(High(IF i < Len(islands) THEN islands[i + 1].starts ELSE islands[i].last, islands[i].starts), as_of)

Observed(islands, i, as_of) ==
    LET ends == EndOf(islands, i, as_of) IN
    Interval("observed", islands[i].digest, islands[i].starts, ends,
             High(High(islands[i].inner, ends - islands[i].last), 0), islands[i].count)

_cover(islands, gone, from, as_of) ==
    LET first == islands[1].starts
        head == IF from < first THEN <<_gap("not_observed", from, first)>> ELSE <<>>
        seen == [i \in DOMAIN islands |-> Observed(islands, i, as_of)]
        all == head \o seen \o _tail(Low(islands[Len(islands)].last, as_of), as_of, gone)
        Kept(i) == i.ends > from \/ (i.ends = from /\ i.starts = from)
        clip(i) == IF i.starts >= from THEN i ELSE [i EXCEPT !.starts = from, !.gap = Low(@, i.ends - from)]
        kept == SelectSeq(all, Kept)
    IN [k \in DOMAIN kept |-> clip(kept[k])]

\* The departures of an id, oldest first: one that a census ended, or one still open.
departure_windows(rows, id) ==
    LET mine == SelectSeq(rows, LAMBDA r : r.id = id)
    IN [i \in DOMAIN mine |-> <<mine[i].at, IF mine[i].open THEN None ELSE mine[i].returned>>]

section_intervals(islands, gone, from, as_of) == IF islands = <<>> THEN <<>> ELSE _cover(islands, gone, from, as_of)

-----------------------------------------------------------------------------
(* Verdicts.  A document maps fields to values; a version is the sequence   *)
(* of its numbers, or a value that is not one.                              *)
AtLeast(v, w) ==
    \/ \E i \in DOMAIN v : (i > Len(w) \/ v[i] > w[i]) /\ \A j \in 1..(i - 1) : v[j] = w[j]
    \/ v = w

\* None: the predicate cannot be asked of this value.
satisfies(rule, value) ==
    IF rule.operator # "version_at_least" THEN {value.text \in rule.operand}
    ELSE IF value.version = None THEN {} ELSE {AtLeast(value.version, rule.operand)}

\* A bug: what was not reported is read as false.
_verdict_Falsy(rule, document, hashed) ==
    IF rule.field \in hashed \cap DOMAIN document /\ TRUE \in satisfies(rule, document[rule.field]) THEN "met" ELSE "unmet"

_verdict(rule, document, hashed) ==
    IF rule.field \notin hashed \cap DOMAIN document \/ document[rule.field] = NotCollected THEN "not_reported"
    ELSE LET said == satisfies(rule, document[rule.field]) IN
         IF said = {} THEN "not_reported" ELSE IF TRUE \in said THEN "met" ELSE "unmet"

\* What a document says under the version of the contract it was recorded under.
evaluate(rule, digest, bodies, hashed) ==
    IF digest.version # Version THEN "not_reported" ELSE _verdict(rule, bodies[digest], hashed)

Verdict(interval, rule, bodies, hashed) ==
    IF interval.state # "observed" THEN interval.state
    ELSE IF interval.digest = None THEN "not_reported" ELSE evaluate(rule, interval.digest, bodies, hashed)

-----------------------------------------------------------------------------
(* The report over one window.                                              *)
States == {"met", "unmet", "not_reported", "not_observed", "departed"}
UNANSWERED == States \ {"met", "unmet"}
_floor(t) == t \div Second

\* A bug: a length is floored, not the instants it lies between.
_seconds_Length(interval) == (interval.ends - interval.starts) \div Second
_seconds(interval) == _floor(interval.ends) - _floor(interval.starts)

\* The seconds of each state, of a sequence of intervals under a rule.
Counted(intervals, rule, bodies, hashed) ==
    [state \in States |->
        FoldLeft(LAMBDA sum, i : sum + (IF Verdict(i, rule, bodies, hashed) = state THEN _seconds(i) ELSE 0), 0, intervals)]

_totals(acc) ==
    LET unanswered == acc["not_reported"] + acc["not_observed"] + acc["departed"] IN
    [met |-> acc["met"], unmet |-> acc["unmet"], notObserved |-> unanswered,
     window |-> acc["met"] + acc["unmet"] + unanswered, parts |-> {s \in UNANSWERED : acc[s] # 0}]

\* The window asked for: up to the ledger's last word, a quarter long, and never empty.
Asked(start, as_of, heartbeat, quarter) ==
    LET at == IF as_of = None THEN heartbeat ELSE as_of
        from == IF start = None THEN at - quarter ELSE start
    IN IF heartbeat = None \/ from >= at THEN {} ELSE {<<from, at>>}

\* The report of one Mac: a row for each rule and interval, the newest collection behind a row, the
\* contracts it rests on, and what each rule adds up to.
evidence_report(cover, heartbeat, rules, bodies, hashed) ==
    [rows |-> {[rule |-> rule, interval |-> cover[i], state |-> Verdict(cover[i], rule, bodies, hashed),
                collected |-> IF cover[i].state = "observed" THEN heartbeat ELSE None] :
                   rule \in rules, i \in DOMAIN cover},
     versions |-> {cover[i].digest.version : i \in {k \in DOMAIN cover : cover[k].digest # None}},
     byRule |-> [rule \in rules |-> _totals(Counted(cover, rule, bodies, hashed))]]

\* The sentences of the page; the newest collection read, or the ledger's last word, dates it.
Newest(report, heartbeat) ==
    LET told == {r.collected : r \in {x \in report.rows : x.collected # None}} IN
    IF told = {} THEN heartbeat ELSE CHOOSE x \in told : \A y \in told : y <= x

notices(report, from, as_of, heartbeat, oldest) ==
    (IF report.rows = {} THEN {"no_observation"} ELSE {})
      \cup (IF report.versions \subseteq {Version} THEN {} ELSE {"unknown_contract"})
      \cup (IF \E rule \in DOMAIN report.byRule : "not_observed" \in report.byRule[rule].parts
            THEN {"not_observed_part"} ELSE {})
      \cup (IF _floor(as_of) > _floor(Newest(report, heartbeat)) THEN {"stale_tail"} ELSE {})
      \cup (IF from < oldest THEN {"old_window"} ELSE {})

-----------------------------------------------------------------------------
(* Properties.                                                              *)

Holds(intervals, t) == {i \in DOMAIN intervals : intervals[i].starts <= t /\ t < intervals[i].ends}

\* Whatever was observed and whoever left, and however islands that start together are ordered, the
\* intervals of a subject are contiguous and cover the window exactly (section_intervals, _cover).
CoverIsExact(spans, gone, from, as_of) ==
    LET islands == _ISLANDS(spans, as_of) IN
    islands # <<>> =>
        \A f \in Answers(islands) :
            LET cover == _cover([i \in DOMAIN islands |-> islands[f[i]]], gone, from, as_of) IN
            /\ cover # <<>> /\ cover[1].starts = from /\ cover[Len(cover)].ends = as_of
            /\ \A i \in 1..(Len(cover) - 1) : cover[i].starts <= cover[i].ends /\ cover[i].ends = cover[i + 1].starts

\* What the ledger witnessed at an instant is what the report says of it: the digest of the span it
\* lies in, and between two spans the earlier one's.  No interval assumes more than it lasts.
WitnessedIsTold(history, islands, gone, from, as_of) ==
    LET spans == Read(history, as_of)
        cover == section_intervals(islands, gone, from, as_of) IN
    /\ \A k \in DOMAIN cover : 0 <= cover[k].gap /\ cover[k].gap <= cover[k].ends - cover[k].starts
    /\ \A i \in DOMAIN spans, t \in from..(as_of - 1) :
        LET until == IF i < Len(spans) THEN spans[i + 1].first ELSE spans[i].last IN
        spans[i].first <= t /\ t < until =>
            \A k \in Holds(cover, t) : cover[k].state = "observed" /\ cover[k].digest = spans[i].digest

\* Met, unmet and what nothing answers for add up to the window on the seconds printed, and no
\* second of a field that was not reported is counted for or against a Mac (_totals, _seconds).
SumCloses(spans, gone, from, as_of, rule, bodies, hashed) ==
    LET cover == section_intervals(_ISLANDS(spans, as_of), gone, from, as_of)
        told == _totals(Counted(cover, rule, bodies, hashed))
        answered == {t \in from..(as_of - 1) :
                        \E k \in Holds(cover, t) :
                            /\ cover[k].state = "observed" /\ cover[k].digest # None
                            /\ cover[k].digest.version = Version
                            /\ rule.field \in hashed \cap DOMAIN bodies[cover[k].digest]
                            /\ bodies[cover[k].digest][rule.field] # NotCollected}
    IN cover # <<>> =>
        /\ told.window = _floor(as_of) - _floor(from)
        /\ answered = {} => told.met = 0 /\ told.unmet = 0

\* The page says what it cannot answer for, a stretch nothing was observed behind or a contract its
\* rules cannot read, and never of a window that was observed throughout (notices).
PageSaysSo(spans, gone, from, as_of, heartbeat, rules, bodies, hashed) ==
    LET cover == section_intervals(_ISLANDS(spans, as_of), gone, from, as_of)
        report == evidence_report(cover, heartbeat, rules, bodies, hashed)
        said == notices(report, from, as_of, heartbeat, from)
        blind == {t \in from..(as_of - 1) : \E k \in Holds(cover, t) : cover[k].state # "observed"}
    IN /\ said = {} =>
             \A t \in blind : \E k \in Holds(cover, t) : cover[k].state = "departed" \/ _seconds(cover[k]) = 0
       /\ "unknown_contract" \notin said =>
             \A r \in report.rows : r.interval.digest # None => r.interval.digest.version = Version
       /\ blind = {} /\ cover # <<>> => "not_observed_part" \notin said
=============================================================================
