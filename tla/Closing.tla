------------------------------ MODULE Closing ------------------------------
(***************************************************************************)
(* What a run does after its close has committed (core/runs.py, finish):    *)
(* the ration of a standing failure, the alarm, and for a sweep the night   *)
(* on the posture tape (core/posture.py), one COUNT after another while the *)
(* fleet moves.  The runs of one connection, one sentence of refusal.  The  *)
(* lock and the fence are in Runs.                                          *)
(***************************************************************************)
EXTENDS Naturals, Sequences, FiniteSets

CONSTANTS Runs,
          Sweeps,   \* the runs of the device sweep class: one of them is open at a time
          Builds,   \* builds of one title on one device
          MaxDay,   \* bound: midnights
          MaxMoves  \* bound: commits of others while a night is counted

ClosingAssumption == Sweeps \subseteq Runs /\ MaxDay \in Nat /\ MaxMoves \in Nat

VARIABLES
    day,    \* the UTC day
    run,    \* [Runs -> [pc, ok, standing, day]]: where its close is, its verdict
    alarms, \* <<run, day, "told" or "lost">>: run.failed events, the ones that could not be written
    fleet,  \* [holds, state]: the builds on the device, the part each is in
    counts, \* [Runs -> the counts so far, in the order of Keys]
    tape,   \* [run, counts]: the snapshots
    moves

vars == <<day, run, alarms, fleet, counts, tape, moves>>

Keys == <<"total", "latest", "laggard", "behind", "unknown", "ahead">>
Parts == {Keys[i] : i \in 2..Len(Keys)}
Nights == [run: Sweeps, counts: Seq(Nat)]
Fleets == [holds: SUBSET Builds, state: [Builds -> Parts]]
Pcs == {"new", "open", "released", "allowed", "capture", "counted", "closed", "lost", "dead"}

TypeOK ==
    /\ day \in 0..MaxDay /\ moves \in 0..MaxMoves
    /\ run \in [Runs -> [pc: Pcs, ok: BOOLEAN, standing: BOOLEAN, day: 0..MaxDay]]
    /\ alarms \subseteq Runs \X (0..MaxDay) \X {"told", "lost"}
    /\ fleet \in Fleets
    /\ \A r \in Runs : Len(counts[r]) <= Len(Keys)
    /\ tape \subseteq Nights

Init ==
    /\ day = 0 /\ moves = 0
    /\ run = [r \in Runs |-> [pc |-> "new", ok |-> FALSE, standing |-> FALSE, day |-> 0]]
    /\ alarms = {} /\ tape = {}
    /\ counts = [r \in Runs |-> <<>>]
    /\ fleet \in Fleets

At(r, pc) == run[r].pc = pc
Goes(r, pc) == run' = [run EXCEPT ![r].pc = pc]

Midnight ==
    /\ day < MaxDay /\ day' = day + 1
    /\ UNCHANGED <<run, alarms, fleet, counts, tape, moves>>

Acquire(r) ==
    /\ At(r, "new")
    /\ r \in Sweeps => \A s \in Sweeps : ~At(s, "open")
    /\ Goes(r, "open")
    /\ UNCHANGED <<day, alarms, fleet, counts, tape, moves>>

\* finish: the verdict, committed alone.
Release(r, ok, standing) ==
    /\ At(r, "open")
    /\ run' = [run EXCEPT ![r] = [pc |-> "released", ok |-> ok, standing |-> standing /\ ~ok, day |-> day]]
    /\ UNCHANGED <<day, alarms, fleet, counts, tape, moves>>

\* Another run of the connection closed with this sentence today.
_already_alarmed_today(r) ==
    \E s \in Runs \ {r} :
        run[s].pc \notin {"new", "open"} /\ run[s].standing /\ run[s].day = run[r].day

\* The night a sweep counts next, or the end.
After(r) == IF r \in Sweeps THEN "capture" ELSE "closed"

Ration(r) ==
    /\ At(r, "released")
    /\ Goes(r, IF run[r].ok \/ (run[r].standing /\ _already_alarmed_today(r)) THEN After(r) ELSE "allowed")
    /\ UNCHANGED <<day, alarms, fleet, counts, tape, moves>>

\* _emit_after_release: in a transaction of its own, lost when it cannot be written.
Alarm(r) ==
    /\ At(r, "allowed")
    /\ \E outcome \in {"told", "lost"} : alarms' = alarms \cup {<<r, run[r].day, outcome>>}
    /\ Goes(r, After(r))
    /\ UNCHANGED <<day, fleet, counts, tape, moves>>

-----------------------------------------------------------------------------
(* The night: six counts at READ COMMITTED, the identity, the rows.         *)

\* One device, one title: a pair is counted when some build on the device is in the part.
Pairs(part) == IF \E b \in fleet.holds : part = "total" \/ fleet.state[b] = part THEN 1 ELSE 0

Count(r) ==
    /\ At(r, "capture")
    /\ counts' = [counts EXCEPT ![r] = Append(@, Pairs(Keys[Len(@) + 1]))]
    /\ IF Len(counts'[r]) = Len(Keys) THEN Goes(r, "counted") ELSE UNCHANGED run
    /\ UNCHANGED <<day, alarms, fleet, tape, moves>>

\* A bug: the parts may fall short of the whole.
_partitions_Within(c) == c[2] + c[3] + c[4] + c[5] + c[6] <= c[1]
_partitions(c) == c[2] + c[3] + c[4] + c[5] + c[6] = c[1]

\* record_full_sweep_snapshot: the rows, or the night is lost and the sweep's verdict stands.
Capture(r) ==
    /\ At(r, "counted")
    /\ IF _partitions(counts[r])
       THEN tape' = tape \cup {[run |-> r, counts |-> counts[r]]} /\ Goes(r, "closed")
       ELSE Goes(r, "lost") /\ UNCHANGED tape
    /\ counts' = [counts EXCEPT ![r] = <<>>]
    /\ UNCHANGED <<day, alarms, fleet, moves>>

\* The process dies or the bookkeeping times out.
Die(r) ==
    /\ run[r].pc \in {"released", "allowed", "capture", "counted"}
    /\ Goes(r, "dead")
    /\ counts' = [counts EXCEPT ![r] = <<>>]
    /\ UNCHANGED <<day, alarms, fleet, tape, moves>>

\* A webhook's ingest replaces the builds of the device, a refresh of the catalog judges
\* one of them anew.
Move ==
    /\ moves < MaxMoves /\ moves' = moves + 1
    /\ \E r \in Runs : At(r, "capture")
    /\ \/ \E holds \in SUBSET Builds : fleet' = [fleet EXCEPT !.holds = holds]
       \/ \E b \in Builds, part \in Parts : fleet' = [fleet EXCEPT !.state[b] = part]
    /\ UNCHANGED <<day, run, alarms, counts, tape>>

Next ==
    \/ Midnight \/ Move
    \/ \E r \in Runs :
          \/ Acquire(r) \/ Ration(r) \/ Alarm(r) \/ Count(r) \/ Capture(r) \/ Die(r)
          \/ \E ok, standing \in BOOLEAN : Release(r, ok, standing)
Spec == Init /\ [][Next]_vars

-----------------------------------------------------------------------------
(* Properties.                                                              *)

Closed(r) == run[r].pc \in {"closed", "lost"}
Standing(d) == {r \in Runs : run[r].standing /\ run[r].day = d}

\* A night on the tape adds up, whoever commits while it is counted; and of a standing
\* failure the pager hears at most once a day (_partitions, _already_alarmed_today).
ClosingSound ==
    /\ TypeOK
    /\ \A night \in tape : night.counts[2] + night.counts[3] + night.counts[4] + night.counts[5] + night.counts[6]
                            = night.counts[1]
    /\ \A d \in 0..MaxDay : Cardinality({a \in alarms : a[2] = d /\ a[3] = "told" /\ a[1] \in Standing(d)}) <= 1

\* One run.failed per connection and UTC day: when the runs refused on a day have closed
\* and none of them died, one of them was told, or tried to (docs/runs.md).
EveryDayIsHeard ==
    \A d \in 0..MaxDay :
        Standing(d) # {} /\ (\A r \in Standing(d) : Closed(r))
            => \E a \in alarms : a[1] \in Standing(d)

\* The parts of a night are the whole always, so a night nobody moved in is written
\* (docs/posture-snapshot.md).
QuietNightIsWritten == moves = 0 => \A r \in Sweeps : ~At(r, "lost")
=============================================================================
