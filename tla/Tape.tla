-------------------------------- MODULE Tape --------------------------------
(***************************************************************************)
(* What one night of the posture tape says of a fleet (core/posture.py):    *)
(* every count over one and the same state of the tables.  Closing has the  *)
(* counts one after the other.                                              *)
(***************************************************************************)
EXTENDS Integers, FiniteSets

CONSTANTS Devices, Builds, Titles,
          Week,    \* days a departure waits before the device has left the fleet
          Laggard, \* days a newer release may be out
          None

TapeAssumption == Week \in Nat /\ Laggard \in Nat /\ None \notin Int

(* A fleet is                                                               *)
(*   device  [Devices -> [active, departed, seen]], departed and seen a day *)
(*   holds   a set of <<device, build>>                                     *)
(*   build   [Builds -> [mac, match, answer]], match[t] is None or          *)
(*           [state, newer], answer is None or [covered, epoch, total, kev] *)
(*   epoch   the corpus that answers now, None without a library            *)

left_the_fleet(departed, at) == departed <= at - Week
gone_for_good(f, d, at) == f.device[d].departed # None /\ left_the_fleet(f.device[d].departed, at)
_in_the_fleet(f, at) == {d \in Devices : ~gone_for_good(f, d, at)}
_devices_on_active_connections(f, at) == {d \in _in_the_fleet(f, at) : f.device[d].active}

\* A build somebody in the fleet has.
_installed(f, at) == {b \in Builds : f.build[b].mac /\ \E d \in _in_the_fleet(f, at) : <<d, b>> \in f.holds}

Values(f, at) ==
    LET counted == _devices_on_active_connections(f, at) IN
    [total |-> Cardinality(counted),
     stale |-> Cardinality({d \in counted : f.device[d].seen = None \/ f.device[d].seen < at - Week}),
     departed |-> Cardinality(_devices_on_active_connections(f, at - 1) \ _in_the_fleet(f, at)),
     installed |-> Cardinality(_installed(f, at))]

-----------------------------------------------------------------------------
(* The patch states at the grain of a device and a title.                   *)
Answered(f) == {f.build[b].match[t] : b \in Builds, t \in Titles} \ {None}
_patch_pairs(f, at, criteria) ==
    {p \in _in_the_fleet(f, at) \X Titles :
        \E b \in Builds : <<p[1], b>> \in f.holds /\ f.build[b].match[p[2]] \in criteria}

Parts == {"latest", "laggard", "behind", "unknown", "ahead"}

\* A bug: a behind pair whose title dates nothing newer is in neither half.
PartOf_Undated(m, at) ==
    IF m.state # "behind" THEN m.state
    ELSE IF m.newer = None THEN "nowhere"
    ELSE IF m.newer < at - Laggard THEN "laggard" ELSE "behind"

\* The five keys: a pair that is behind is late, or it is not or nothing newer is dated.
PartOf(m, at) ==
    IF m.state # "behind" THEN m.state
    ELSE IF m.newer # None /\ m.newer < at - Laggard THEN "laggard" ELSE "behind"

Part(f, at, part) == Cardinality(_patch_pairs(f, at, {m \in Answered(f) : PartOf(m, at) = part}))
Total(f, at) == Cardinality(_patch_pairs(f, at, Answered(f)))
Laggards(f, at) == {p[2] : p \in _patch_pairs(f, at, {m \in Answered(f) : m.state = "behind"})}

-----------------------------------------------------------------------------
(* The four vulnerability keys, absent until the tenant was ever judged.    *)
served(answer, epoch) == answer # None /\ answer.covered /\ answer.epoch = epoch

EverJudged(f) == f.epoch # None /\ \E b \in Builds : f.build[b].answer # None

_vuln_values(f, at) ==
    LET answered(b) == served(f.build[b].answer, f.epoch)
        affected == {b \in _installed(f, at) : answered(b) /\ f.build[b].answer.total > 0}
    IN [affected |-> Cardinality(affected),
        kev |-> Cardinality({b \in _installed(f, at) : answered(b) /\ f.build[b].answer.kev > 0}),
        unknown |-> Cardinality({b \in _installed(f, at) : ~answered(b)}),
        devices |-> Cardinality({d \in _devices_on_active_connections(f, at) :
                                    \E b \in affected : <<d, b>> \in f.holds})]

-----------------------------------------------------------------------------
(* Properties.                                                              *)

\* The fleet a day ago is the fleet now and what left it in between (devices.departed_24h,
\* the same predicate at two instants).
DepartedIsTheGap(f, at) == Values(f, at - 1).total = Values(f, at).total + Values(f, at).departed

OneBuildEach(f, at) ==
    \A d \in Devices, t \in Titles : Cardinality({b \in Builds : <<d, b>> \in f.holds /\ f.build[b].match[t] # None}) <= 1

\* With at most one build of a title on a device the five parts are the pairs, and a title
\* has laggards when a pair of it is in a behind part (_partitions).
PartsAddUp(f, at) ==
    OneBuildEach(f, at) =>
        /\ Part(f, at, "latest") + Part(f, at, "laggard") + Part(f, at, "behind")
             + Part(f, at, "unknown") + Part(f, at, "ahead") = Total(f, at)
        /\ Part(f, at, "laggard") + Part(f, at, "behind") >= Cardinality(Laggards(f, at))

\* A reader who takes the affected and the unknown off the installed has the builds the
\* answering corpus found clean, and none when it has judged nothing yet (_vuln_values).
RestIsClean(f, at) ==
    EverJudged(f) =>
        LET v == _vuln_values(f, at) IN
        /\ Values(f, at).installed - v.affected - v.unknown
             = Cardinality({b \in _installed(f, at) :
                   served(f.build[b].answer, f.epoch) /\ f.build[b].answer.total = 0})
        /\ v.kev <= v.affected
        /\ v.affected = 0 => v.devices = 0
=============================================================================
