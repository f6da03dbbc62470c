------------------------------- MODULE Served -------------------------------
(***************************************************************************)
(* What a reader is told of a stored vulnerability answer (core/vuln_answer,  *)
(* core/vuln_read, core/vuln_targets) and the catalog's list of builds, whose *)
(* filters are the same rule in SQL (api/catalog).                           *)
(*                                                                          *)
(* Library says what the loaded epoch holds of a build: the set of its        *)
(* findings, or nothing.  A list of ids is capped at Cap; counts are not.     *)
(***************************************************************************)
EXTENDS Integers, FiniteSets, FiniteSetsExt

CONSTANTS Bands, BandOf, Kev, Cap, None

Covered == "covered"

\* The columns the judge writes of one build: counts, capped ids, whether the cap dropped one.
Capped(ids) == CHOOSE S \in SUBSET ids : Cardinality(S) = IF Cardinality(ids) > Cap THEN Cap ELSE Cardinality(ids)
NoAnswer == [assessment |-> None, counts |-> None, ids |-> {}, truncated |-> FALSE]
Judged(library, build) ==
    IF build = None \/ library[build] = None THEN NoAnswer
    ELSE LET ids == library[build] IN
         [assessment |-> Covered,
          counts |-> [total |-> Cardinality(ids), kev |-> Cardinality(ids \cap Kev),
                      bands |-> [b \in Bands |-> Cardinality({i \in ids : BandOf[i] = b})]],
          ids |-> Capped(ids), truncated |-> Cardinality(ids) > Cap]

\* A row: its build, the epoch it was judged under, its own answer and that of the build to update to.
Entry(library, build, target, signature, devices, matched) ==
    [build |-> build, version |-> target, signature |-> signature, devices |-> devices, matched |-> matched,
     answer |-> Judged(library, build), target |-> Judged(library, target)]
\* A row whose stored counts are not what the library writes.
Broken(row) == [row EXCEPT !.answer.counts = None]

-----------------------------------------------------------------------------
(* One answer: served while the epoch that judged it is the one that answers.  *)

served(row, epoch) == row.answer.assessment = Covered /\ row.signature = epoch
counted(answer, what) ==
    IF answer.counts = None THEN None
    ELSE IF what \in Bands THEN answer.counts.bands[what] ELSE answer.counts[what]
Above(n, least) == n # None /\ n > least

stored_build(row) ==
    IF row.answer.assessment # Covered \/ row.answer.counts = None THEN None ELSE row.answer
stored_corpus(rows, epoch) == {row \in rows : served(row, epoch) /\ stored_build(row) # None}

\* assess: the cell of a build.
assess(asof, rows, epoch, row) ==
    IF asof = None THEN "off"
    ELSE IF row \notin stored_corpus(rows, epoch) THEN "unknown_app"
    ELSE IF row.answer.counts.total = 0 THEN "clean" ELSE "findings"

Effect(version, assessment, closes, opens, net) ==
    [version |-> version, assessment |-> assessment, closes |-> closes, opens |-> opens, net |-> net]
update_effect_Exact(asof, epoch, row) ==
    LET mine == row.answer  theirs == row.target IN
    IF asof = None \/ row.version \in {None, row.build} \/ ~served(row, epoch) THEN None
    ELSE IF theirs.assessment # Covered THEN Effect(row.version, None, None, None, None)
    ELSE Effect(row.version, Covered, Cardinality(mine.ids \ theirs.ids), Cardinality(theirs.ids \ mine.ids), None)
update_effect(asof, epoch, row) ==
    LET mine == row.answer  theirs == row.target  here == counted(mine, "total")  there == counted(theirs, "total") IN
    IF asof = None \/ row.version \in {None, row.build} \/ ~served(row, epoch) THEN None
    ELSE IF theirs.assessment # Covered THEN Effect(row.version, None, None, None, None)
    ELSE IF mine.truncated \/ theirs.truncated
    THEN IF None \in {here, there} THEN None ELSE Effect(row.version, Covered, None, None, here - there)
    ELSE Effect(row.version, Covered, Cardinality(mine.ids \ theirs.ids), Cardinality(theirs.ids \ mine.ids), None)

\* load_title_updates: one line per matched title, the reference's first.
load_title_updates(asof, epoch, row, titles, reference, targets) ==
    LET line(t) == update_effect(asof, epoch, [row EXCEPT !.version = targets[t].version, !.target = targets[t].target])
        told == {t \in titles : line(t) # None}
    IN [first |-> IF reference \in told THEN reference ELSE IF told = {} THEN None ELSE Min(told),
        lines |-> [t \in told |-> line(t)]]

-----------------------------------------------------------------------------
(* The catalog's list.                                                        *)

Filters == {"findings", "kev", "clean", "unknown_app", "patchable"}
NetClosed(row) ==
    IF None \in {counted(row.answer, "total"), counted(row.target, "total")} THEN None
    ELSE counted(row.answer, "total") - counted(row.target, "total")
Matches(row, vuln, epoch) ==
    LET total == counted(row.answer, "total") IN
    CASE vuln = "all" -> TRUE
      [] vuln = "findings" -> served(row, epoch) /\ Above(total, 0)
      [] vuln = "kev" -> served(row, epoch) /\ Above(counted(row.answer, "kev"), 0)
      [] vuln = "clean" -> served(row, epoch) /\ total = 0
      [] vuln = "unknown_app" -> ~served(row, epoch) \/ total = None
      [] vuln = "patchable" ->
            /\ served(row, epoch) /\ Above(total, 0)
            /\ row.target.assessment = Covered /\ row.signature = epoch /\ Above(NetClosed(row), 0)

Refused == [outcome |-> "no_answer"]
list_catalog(rows, request, asof, epoch) ==
    LET filtered == request.vuln # "all" \/ request.band # None
        listed == {row \in rows :
            /\ request.installed_only => row.devices > 0
            /\ request.jamf = "matched" => row.matched
            /\ request.jamf = "unmatched" => ~row.matched
            /\ Matches(row, request.vuln, epoch)
            /\ request.band # None => served(row, epoch) /\ Above(counted(row.answer, request.band), 0)}
    IN IF filtered /\ asof = None THEN Refused
       ELSE [outcome |-> "listed", items |-> listed, total |-> Cardinality(listed),
             summary |-> [entries |-> Cardinality(rows), installed |-> Cardinality({r \in rows : r.devices > 0}),
                          matched |-> Cardinality({r \in rows : r.matched}),
                          unmatched |-> Cardinality({r \in rows : ~r.matched})],
             judged |-> epoch # None /\ \E r \in rows : served(r, epoch),
             release |-> IF asof = None THEN None ELSE epoch]

Request(vuln, band, installed_only, jamf) ==
    [vuln |-> vuln, band |-> band, installed_only |-> installed_only, jamf |-> jamf]
Listed(rows, vuln, asof, epoch) == list_catalog(rows, Request(vuln, None, FALSE, "all"), asof, epoch).items

-----------------------------------------------------------------------------
(* A build is on the list of what its cell says and on no other of the three,  *)
(* and the narrower lists are lists of builds with findings.                  *)
CellIsFilter(rows, asof, epoch) ==
    asof # None =>
        /\ \A row \in rows, vuln \in {"findings", "clean", "unknown_app"} :
               row \in Listed(rows, vuln, asof, epoch) <=> assess(asof, rows, epoch, row) = vuln
        /\ \A vuln \in {"kev", "patchable"} : Listed(rows, vuln, asof, epoch) \subseteq Listed(rows, "findings", asof, epoch)
        /\ \A band \in Bands :
               list_catalog(rows, Request("all", band, FALSE, "all"), asof, epoch).items
                   \subseteq Listed(rows, "findings", asof, epoch)

(* What the easily patchable list ranks by is what its rows say an update      *)
(* closes, and no row that says so is left off.                               *)
PayoffIsEffect(rows, asof, epoch) ==
    asof # None =>
        \A row \in rows :
            LET effect == update_effect(asof, epoch, row)
                gain == IF effect.net # None THEN effect.net ELSE effect.closes - effect.opens
                told == effect # None /\ effect.assessment = Covered
            IN stored_build(row) # None =>
                  /\ row \in Listed(rows, "patchable", asof, epoch) <=> told /\ gain > 0
                  /\ told => gain = NetClosed(row)

(* The numbers over the list close: the three states are all there is, by      *)
(* title and by device, and a list with an answer in it is a judged one.       *)
ListCloses(rows, asof, epoch) ==
    LET count(vuln, installed, jamf) == list_catalog(rows, Request(vuln, None, installed, jamf), asof, epoch).total
        three(installed, jamf) ==
            count("findings", installed, jamf) + count("clean", installed, jamf) + count("unknown_app", installed, jamf)
        page == list_catalog(rows, Request("all", None, FALSE, "all"), asof, epoch)
    IN asof # None =>
        /\ page.summary.entries = three(FALSE, "all")
        /\ page.summary.installed = three(TRUE, "all")
        /\ page.summary.matched = three(FALSE, "matched") /\ page.summary.unmatched = three(FALSE, "unmatched")
        /\ count("findings", FALSE, "all") + count("clean", FALSE, "all") > 0 => page.judged /\ page.release # None
=============================================================================
