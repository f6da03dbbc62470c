----------------------------- MODULE Summaries -----------------------------
(***************************************************************************)
(* Inventory summaries of one tenant, summaries/service.py: collectors turn *)
(* committed device.inventory events into state and jobs, workers ask the   *)
(* model and publish a briefing, an operator edits the settings meanwhile.  *)
(*                                                                          *)
(* A transaction that holds the settings row is one step.  A call of the    *)
(* model is not: the worker claims the job, waits, looks at settings and    *)
(* state again, and writes, in separate transactions or statements.  Time   *)
(* is what is left of each deadline; retention (days) is a choice, for the  *)
(* other clocks run in minutes.                                             *)
(***************************************************************************)
EXTENDS Evidence, FiniteSetsExt

CONSTANTS
    Devices,
    Readings,    \* the inventories a device may report, Malformed among them
    Held,        \* what the devices' states may hold at the start
    Malformed,   \* an event whose identity or time cannot be read
    Workers, Collectors,
    MayStall,    \* workers that may outstay their call's time limit
    MaxEvents,   \* bound: device.inventory events
    MaxTime,     \* bound: device times
    MaxEdits,    \* bound: edits of settings, flag or consent
    MaxConfigs,  \* bound: values of the configuration key
    Ttl, Lease, CallTime, Backoff, \* minutes
    MaxAttempts, MaxPending,
    NoState

Events == 1..MaxEvents
Live == {"pending", "processing"}
Terminal == {"completed", "cached", "dropped", "failed"}

\* An event without a row in the queue, and one whose row the retention has deleted.
NoJob == [status |-> "none"]
Gone == [status |-> "gone"]

LocalOutcomes == {"no_updates", "baseline", "incomplete"}

SummariesAssumption ==
    /\ {Ttl, Lease, CallTime, Backoff, MaxAttempts, MaxConfigs} \subseteq Nat \ {0}
    /\ {MaxEvents, MaxTime, MaxEdits, MaxPending} \subseteq Nat
    /\ CallTime < Lease
    /\ MayStall \subseteq Workers

VARIABLES
    settings, \* [enabled, config] of the settings row and the saved provider
    flag, consent, edits,
    outbox,   \* device.inventory rows, in the order of created_at
    state,    \* InventorySummaryState per device
    job,      \* InventorySummaryJob per source event
    point,    \* summary_status of the event's history point
    counted,  \* metric increments an event has caused
    briefed,  \* briefings enqueued for an event
    batch,    \* events a collector has selected and not yet handled
    worker    \* what a worker is doing

tables == <<outbox, state, job, point, counted, briefed>>
operator == <<settings, flag, consent, edits>>
vars == <<operator, tables, batch, worker>>

Idle == [pc |-> "idle"]

TypeOK ==
    /\ settings \in [enabled: BOOLEAN, config: 1..MaxConfigs]
    /\ flag \in BOOLEAN /\ consent \in BOOLEAN
    /\ \A e \in Events :
           /\ outbox[e].phase \in {"none", "open", "committed"}
           /\ counted[e] \in Nat /\ briefed[e] \in Nat
           /\ job[e] \notin {NoJob, Gone} => /\ job[e].status \in Live \cup Terminal
                                             /\ job[e].attempts \in Nat
    /\ batch \in [Collectors -> SUBSET Events]
    /\ \A w \in Workers : worker[w].pc \in {"idle", "call", "publish"}

Init ==
    /\ settings = [enabled |-> TRUE, config |-> 1]
    /\ flag = TRUE /\ consent = TRUE /\ edits = 0
    /\ outbox = [e \in Events |-> [phase |-> "none"]]
    /\ \E r \in Held :
           state = [d \in Devices |-> IF r = NoFacts THEN NoState
                                      ELSE [facts |-> r, time |-> 0, source |-> 0, status |-> "baseline"]]
    /\ job = [e \in Events |-> NoJob]
    /\ point = [e \in Events |-> "unavailable"]
    /\ counted = [e \in Events |-> 0]
    /\ briefed = [e \in Events |-> 0]
    /\ batch = [c \in Collectors |-> {}]
    /\ worker = [w \in Workers |-> Idle]

-----------------------------------------------------------------------------
(* Ingest: an id and created_at are taken when the row is written, and the  *)
(* row is seen when its transaction commits.                                *)
Opened == {e \in Events : outbox[e].phase # "none"}
Committed == {e \in Events : outbox[e].phase = "committed"}

OpenEvent(d, t, r) ==
    LET e == Cardinality(Opened) + 1 IN
    /\ e \in Events
    /\ outbox' = [outbox EXCEPT ![e] = [phase |-> "open", device |-> d, time |-> t, reading |-> r,
                                        ttl |-> Ttl, admitted |-> TRUE, collected |-> FALSE]]
    /\ UNCHANGED <<operator, state, job, point, counted, briefed, batch, worker>>

CommitEvent(e) ==
    /\ outbox[e].phase = "open"
    /\ outbox' = [outbox EXCEPT ![e].phase = "committed"]
    /\ UNCHANGED <<operator, state, job, point, counted, briefed, batch, worker>>

-----------------------------------------------------------------------------
(* The operator.  Turning summaries on again moves enabled_at past every    *)
(* event written so far.                                                    *)
AiOn == settings.enabled /\ flag

SaveSettings(on, c) ==
    /\ edits < MaxEdits
    /\ settings # [enabled |-> on, config |-> c]
    /\ on => flag /\ consent
    /\ settings' = [enabled |-> on, config |-> c]
    /\ outbox' = IF on /\ ~settings.enabled
                 THEN [e \in Events |-> IF e \in Opened THEN [outbox[e] EXCEPT !.admitted = FALSE] ELSE outbox[e]]
                 ELSE outbox
    /\ edits' = edits + 1
    /\ UNCHANGED <<flag, consent, state, job, point, counted, briefed, batch, worker>>

SetFlag ==
    /\ edits < MaxEdits
    /\ flag' = ~flag
    /\ edits' = edits + 1
    /\ UNCHANGED <<settings, consent, tables, batch, worker>>

SetConsent ==
    /\ edits < MaxEdits
    /\ consent' = ~consent
    /\ edits' = edits + 1
    /\ UNCHANGED <<settings, flag, tables, batch, worker>>

-----------------------------------------------------------------------------
Jobs == {e \in Events : job[e] \notin {NoJob, Gone}}
LiveJobs == {e \in Jobs : job[e].status \in Live}
Cached(k) == \E e \in Jobs : job[e].key = k /\ job[e].status = "completed"

Uncollected == {e \in Committed : outbox[e].admitted /\ ~outbox[e].collected}

\* What finish() writes but for the job row and the device's state.
Outcome(e, s, point0) ==
    /\ point' = [point0 EXCEPT ![e] = s]
    /\ counted' = [counted EXCEPT ![e] = @ + 1]
    /\ briefed' = [briefed EXCEPT ![e] = @ + (IF s \in {"completed", "cached"} THEN 1 ELSE 0)]

(* One pass: retention, then the list of the events to look at.             *)
BeginCollect(c) ==
    /\ batch[c] = {}
    /\ \E old \in SUBSET {e \in Jobs : job[e].status \in Terminal /\ outbox[e].ttl = 0} :
           job' = [e \in Events |-> IF e \in old THEN Gone ELSE job[e]]
    /\ batch' = [batch EXCEPT ![c] = IF AiOn THEN Uncollected ELSE {}]
    /\ UNCHANGED <<operator, outbox, state, point, counted, briefed, worker>>

\* The row is locked and its receipt looked at again.
StillUncollected(e) == ~outbox[e].collected
Stale(e) ==
    LET s == state[outbox[e].device] IN s # NoState /\ outbox[e].time < s.time

Known(d) == IF state[d] = NoState THEN NoFacts ELSE state[d].facts

Verdict(e) ==
    LET d == outbox[e].device
        kind == Kind(Known(d), outbox[e].reading)
        key == <<settings.config, Meaningful(Known(d), outbox[e].reading)>>
    IN IF kind = "unchanged" THEN "no_updates"
       ELSE IF kind # "changed" THEN kind
       ELSE IF outbox[e].ttl = 0 THEN "dropped"
       ELSE IF Cached(key) THEN "cached"
       ELSE IF Cardinality(LiveJobs) >= MaxPending THEN "dropped"
       ELSE "pending"

NewJob(e, s) ==
    [status |-> s, attempts |-> 0, wait |-> 0, config |-> settings.config,
     key |-> <<settings.config, Meaningful(Known(outbox[e].device), outbox[e].reading)>>,
     born |-> Cardinality({x \in Events : x \in Opened /\ outbox[x].collected})]

Observe(e) ==
    LET d == outbox[e].device
        s == Verdict(e)
    IN /\ state' = [state EXCEPT ![d] = [facts |-> Merge(Known(d), outbox[e].reading),
                                         time |-> outbox[e].time, source |-> e, status |-> s]]
       /\ job' = IF s \in {"pending", "cached"} THEN [job EXCEPT ![e] = NewJob(e, s)] ELSE job
       /\ IF s = "pending"
          THEN point' = [point EXCEPT ![e] = s] /\ UNCHANGED <<counted, briefed>>
          ELSE Outcome(e, s, point)

CollectOne(c, e) ==
    /\ e \in batch[c]
    /\ e = Min(batch[c])
    /\ settings.enabled
    /\ batch' = [batch EXCEPT ![c] = @ \ {e}]
    /\ IF StillUncollected(e)
       THEN /\ outbox' = [outbox EXCEPT ![e].collected = TRUE]
            /\ IF outbox[e].reading = Malformed \/ Stale(e)
               THEN /\ counted' = [counted EXCEPT ![e] = @ + 1]
                    /\ UNCHANGED <<state, job, point, briefed>>
               ELSE Observe(e)
       ELSE UNCHANGED tables
    /\ UNCHANGED <<operator, worker>>

\* Summaries were switched off between two events, or the process died.
AbandonCollect(c) ==
    /\ batch[c] # {}
    /\ batch' = [batch EXCEPT ![c] = {}]
    /\ UNCHANGED <<operator, tables, worker>>

-----------------------------------------------------------------------------
Competing(e) ==
    \E x \in Jobs \ {e} : job[x].key = job[e].key /\ job[x].status = "processing" /\ job[x].wait > 0

Ready_Twins == {e \in LiveJobs : job[e].wait = 0}
Ready == {e \in LiveJobs : job[e].wait = 0 /\ ~Competing(e)}
Next1 == CHOOSE e \in Ready : \A x \in Ready : job[e].born <= job[x].born

\* finish() with a device row that is read and written under the same lock.
FinishNow(e, s) ==
    LET d == outbox[e].device IN
    /\ job' = [job EXCEPT ![e].status = s]
    /\ state' = IF state[d].source = e THEN [state EXCEPT ![d].status = s] ELSE state
    /\ Outcome(e, s, point)

Claim(w, e) ==
    /\ job' = [job EXCEPT ![e].status = "processing", ![e].attempts = @ + 1, ![e].wait = Lease]
    /\ worker' = [worker EXCEPT ![w] = [pc |-> "call", job |-> e, left |-> CallTime,
                                         config |-> job[e].config, attempts |-> job[e].attempts + 1]]
    /\ UNCHANGED <<state, point, counted, briefed>>

Pick(w) ==
    /\ worker[w] = Idle
    /\ Ready # {}
    /\ LET e == Next1
           s == IF outbox[e].ttl = 0 \/ ~AiOn \/ settings.config # job[e].config THEN "dropped"
                ELSE IF Cached(job[e].key) THEN "cached" ELSE "processing"
       IN IF s = "processing" THEN Claim(w, e) ELSE FinishNow(e, s) /\ UNCHANGED worker
    /\ UNCHANGED <<operator, outbox, batch>>

\* The attempt failed in a way that is worth another one.
RetryLater(w) ==
    LET e == worker[w].job IN
    /\ worker[w].pc = "call"
    /\ job[e] # Gone
    /\ worker[w].attempts < MaxAttempts
    /\ job' = [job EXCEPT ![e].status = "pending", ![e].wait = Backoff * worker[w].attempts]
    /\ worker' = [worker EXCEPT ![w] = Idle]
    /\ UNCHANGED <<operator, outbox, state, point, counted, briefed, batch>>

\* The second look at consent, flag, settings and clock after a good answer.
Publishable(w) ==
    /\ consent /\ AiOn
    /\ settings.config = worker[w].config
    /\ outbox[worker[w].job].ttl > 0

Answers(w) ==
    {"failed"} \cup (IF ~flag \/ ~consent THEN {"dropped"} ELSE {})
               \cup {IF Publishable(w) THEN "completed" ELSE "dropped"}

\* The outcome is decided and the device row read.
Reply(w) ==
    LET e == worker[w].job IN
    /\ worker[w].pc = "call"
    /\ \E s \in Answers(w) :
           worker' = [worker EXCEPT ![w] = [pc |-> "publish", job |-> e, left |-> worker[w].left, status |-> s,
                                            owns |-> state[outbox[e].device].source = e]]
    /\ UNCHANGED <<operator, tables, batch>>

\* finish() after a call: nobody looks at who holds the job now.
Publish(w) ==
    LET e == worker[w].job
        s == worker[w].status
        d == outbox[e].device
    IN /\ worker[w].pc = "publish"
       /\ IF job[e] = Gone
          THEN UNCHANGED <<job, state, point, counted, briefed>>
          ELSE /\ job' = [job EXCEPT ![e].status = s]
               /\ state' = IF worker[w].owns THEN [state EXCEPT ![d].status = s] ELSE state
               /\ Outcome(e, s, point)
       /\ worker' = [worker EXCEPT ![w] = Idle]
       /\ UNCHANGED <<operator, outbox, batch>>

Crash(w) ==
    /\ worker[w] # Idle
    /\ worker' = [worker EXCEPT ![w] = Idle]
    /\ UNCHANGED <<operator, tables, batch>>

-----------------------------------------------------------------------------
Less(n) == IF n > 0 THEN n - 1 ELSE 0
Running == {e \in Opened : outbox[e].ttl > 0} \cup {e \in LiveJobs : job[e].wait > 0}

\* A call cannot outlast its time limit, unless its worker is stalled.
Tick ==
    /\ \A w \in Workers \ MayStall : worker[w] # Idle => worker[w].left > 0
    /\ Running # {} \/ \E w \in Workers : worker[w] # Idle /\ worker[w].left > 0
    /\ outbox' = [e \in Events |-> IF e \in Opened THEN [outbox[e] EXCEPT !.ttl = Less(@)] ELSE outbox[e]]
    /\ job' = [e \in Events |-> IF e \in LiveJobs THEN [job[e] EXCEPT !.wait = Less(@)] ELSE job[e]]
    /\ worker' = [w \in Workers |-> IF worker[w] = Idle THEN Idle ELSE [worker[w] EXCEPT !.left = Less(@)]]
    /\ UNCHANGED <<operator, state, point, counted, briefed, batch>>

Next ==
    \/ \E d \in Devices, t \in 1..MaxTime, r \in Readings : OpenEvent(d, t, r)
    \/ \E e \in Events : CommitEvent(e)
    \/ \E on \in BOOLEAN, c \in 1..MaxConfigs : SaveSettings(on, c)
    \/ SetFlag
    \/ SetConsent
    \/ \E c \in Collectors : BeginCollect(c)
    \/ \E c \in Collectors, e \in Events : CollectOne(c, e)
    \/ \E c \in Collectors : AbandonCollect(c)
    \/ \E w \in Workers : Pick(w)
    \/ \E w \in Workers : RetryLater(w)
    \/ \E w \in Workers : Reply(w)
    \/ \E w \in Workers : Publish(w)
    \/ \E w \in Workers : Crash(w)
    \/ Tick

Spec == Init /\ [][Next]_vars

(* The worker loop runs for ever, a call ends by its time limit, and a pass *)
(* that is begun again and again handles its first event in the end.        *)
Fairness ==
    /\ WF_vars(Tick)
    /\ \A e \in Events : WF_vars(CommitEvent(e))
    /\ \A c \in Collectors : WF_vars(BeginCollect(c)) /\ SF_vars(\E e \in Events : CollectOne(c, e))
    /\ \A w \in Workers : WF_vars(Pick(w)) /\ WF_vars(Reply(w)) /\ WF_vars(Publish(w))

FairSpec == Spec /\ Fairness

-----------------------------------------------------------------------------
\* Every observation is counted under one outcome, once, whichever of two collectors and
\* two workers met it, and is briefed at most once, as long as no call outstays its lease.
CountedOnce ==
    \A e \in Events :
        /\ counted[e] = IF e \in Opened /\ outbox[e].collected /\ e \notin LiveJobs THEN 1 ELSE 0
        /\ briefed[e] <= counted[e]

\* The model is never asked the same question by two workers at the same time.
OneCallPerKey ==
    \A v, w \in Workers : v # w /\ worker[v].pc = "call" /\ worker[w].pc = "call" =>
        job[worker[v].job].key # job[worker[w].job].key

\* The backlog keeps its limit, whatever retries, lapsed leases and cached answers do.
BacklogBounded == Cardinality(LiveJobs) <= MaxPending

\* A history point that has an outcome has the one of the job of its own event.
PointTellsJob ==
    \A e \in Jobs : IF e \in LiveJobs THEN point[e] = "pending" ELSE point[e] = job[e].status

\* What collect() and finish() keep between them: one count, one call, one outcome.
SummariesSound == TypeOK /\ CountedOnce /\ OneCallPerKey /\ BacklogBounded /\ PointTellsJob

\* A device's state tells the outcome of the event it was last built from.
StateTellsSource ==
    \A d \in Devices :
        LET e == IF state[d] = NoState THEN 0 ELSE state[d].source IN
        e \in Jobs => state[d].status = IF e \in LiveJobs THEN "pending" ELSE job[e].status

\* The facts a device is compared with never go back to an older device time, in whatever
\* order its events are committed and collected (the stale check of collect()).
FactsForward ==
    [][\A d \in Devices : state[d] # NoState => state'[d].time >= state[d].time]_vars

\* Every job ends, whatever crashes and retries meet: its time to live is never extended.
EveryJobEnds == \A e \in Events : e \in LiveJobs ~> e \notin LiveJobs

\* An event that commits after one with a higher id is collected all the same.
EveryEventCollected ==
    \A e \in Events : e \in Uncollected ~> e \notin Uncollected \/ ~AiOn
=============================================================================
