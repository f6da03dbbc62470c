---------------------------- MODULE Submissions ----------------------------
(***************************************************************************)
(* The cases one organization sends to the intelligence service             *)
(* (core/submissions.py, api/submissions.py): all requests here are about    *)
(* the same fields.  A case's key is its idempotency key and the only means *)
(* to ask about it or withdraw it.  The consent row's lock serializes the   *)
(* clicks that create a case and the case's own lock is held over a request.*)
(*                                                                          *)
(* A key is a number.  The service is external: it knows a key or not, and  *)
(* may refuse one as taken by somebody else's case.                         *)
(***************************************************************************)
EXTENDS Naturals, Sequences

CONSTANTS
    Clerks,                     \* requests served at the same time
    MaxCases, MaxKeys, MaxFaults, MaxClicks, \* bounds
    None

SubmissionsAssumption == {MaxCases, MaxKeys, MaxFaults, MaxClicks} \subseteq Nat

VARIABLES
    cases,   \* the rows: state, key, whether the words are still here, withdrawn_at, a pause the service asked for
    consent, \* the clerk that holds the consent row
    job,     \* what each clerk is doing
    svc,     \* at the service: the state of every key minted
    late,    \* keys whose post is still on its way
    delayed, \* keys a post reached after its sender had given up
    clicks, faults

vars == <<cases, consent, job, svc, late, delayed, clicks, faults>>

Idle == [at |-> "idle"]
Cases == DOMAIN cases
Keys == DOMAIN svc
States == {"pending", "open", "closed", "withdrawn", "expired"}

TypeOK ==
    /\ \A c \in Cases : cases[c].state \in States /\ cases[c].key \in Keys
    /\ consent \in Clerks \cup {None}
    /\ svc \in Seq({"unknown", "taken", "open", "closed", "old", "withdrawn"})
    /\ late \cup delayed \subseteq Keys

Init ==
    /\ cases = <<>> /\ consent = None /\ job = [k \in Clerks |-> Idle]
    /\ svc = <<>> /\ late = {} /\ delayed = {}
    /\ clicks = 0 /\ faults = 0

\* The case's row is locked by whoever has a request out about it.
Free(c) == \A k \in Clerks : job[k].at = "posting" => job[k].case # c
Goes(k, j) == job' = [job EXCEPT ![k] = j]
Put(c, row) == cases' = [cases EXCEPT ![c] = row]
Fault == faults < MaxFaults /\ faults' = faults + 1
forget(row) == [row EXCEPT !.withdrawn = TRUE, !.words = FALSE]

\* A fresh key, which may be another's.
mint_case_key == Len(svc) < MaxKeys /\ \E state \in {"unknown", "taken"} : svc' = Append(svc, state)

----------------------------------------------------------------------------
(* Requests.                                                                *)

Click(k, j) ==
    /\ job[k] = Idle /\ clicks < MaxClicks
    /\ clicks' = clicks + 1
    /\ Goes(k, j)
    /\ UNCHANGED <<cases, svc, late, delayed, faults>>

submit(k) == consent = None /\ consent' = k /\ Click(k, [at |-> "drafting"])

status(k) == \E c \in Cases : Click(k, [at |-> "locking", op |-> "status", case |-> c]) /\ UNCHANGED consent

withdraw_case(k) ==
    \E c \in Cases :
        /\ cases[c].state # "withdrawn"
        /\ Click(k, [at |-> "forgetting", case |-> c])
        /\ UNCHANGED consent

Sending(c, fresh) == [at |-> "locking", op |-> "send", case |-> c, fresh |-> fresh]
Live(c) == cases[c].state \in {"pending", "open"} /\ ~cases[c].withdrawn

\* The same fields answer the live case, or make one; commit frees the consent row.
Draft(k) ==
    /\ job[k].at = "drafting"
    /\ consent' = None
    /\ \/ \E c \in Cases :
            /\ Live(c)
            /\ Goes(k, IF cases[c].state = "pending" /\ ~cases[c].wait THEN Sending(c, FALSE) ELSE Idle)
            /\ UNCHANGED <<cases, svc>>
       \/ /\ \A c \in Cases : ~Live(c)
          /\ Len(cases) < MaxCases /\ mint_case_key
          /\ cases' = Append(cases, [state |-> "pending", key |-> Len(svc'), words |-> TRUE,
                                     withdrawn |-> FALSE, wait |-> FALSE])
          /\ Goes(k, Sending(Len(cases'), FALSE))
    /\ UNCHANGED <<late, delayed, clicks, faults>>

\* A case withdrawn here is never sent.
send(row) == row.state = "pending" /\ ~row.withdrawn /\ ~row.wait

\* Each reads the row again once it holds the lock.
Lock(k) ==
    /\ job[k].at = "locking" /\ Free(job[k].case)
    /\ LET row == cases[job[k].case]
           goes == CASE job[k].op = "send" -> send(row)
                     [] job[k].op = "status" -> row.state \notin {"pending", "expired"} /\ ~row.wait
                     [] job[k].op = "withdraw" -> row.state # "withdrawn"
       IN  Goes(k, IF goes THEN [job[k] EXCEPT !.at = "posting"] ELSE Idle)
    /\ UNCHANGED <<cases, consent, svc, late, delayed, clicks, faults>>

\* withdraw stores the act, and clears the words, before its request leaves.
Forget(k) ==
    /\ job[k].at = "forgetting" /\ Free(job[k].case)
    /\ Put(job[k].case, forget(cases[job[k].case]))
    /\ Goes(k, [at |-> "locking", op |-> "withdraw", case |-> job[k].case])
    /\ UNCHANGED <<consent, svc, late, delayed, clicks, faults>>

----------------------------------------------------------------------------
(* Answers.                                                                 *)

Knows(key) == svc[key] \in {"open", "closed", "withdrawn"}
\* What the service keeps once a post arrives; the same key again is the same case.
Arrived(key) == IF svc[key] = "unknown" THEN [svc EXCEPT ![key] = "open"] ELSE svc
Ended(key) == IF Knows(key) THEN [svc EXCEPT ![key] = "withdrawn"] ELSE svc

Sent(k) ==
    /\ job[k].at = "posting" /\ job[k].op = "send"
    /\ LET c == job[k].case  key == cases[c].key IN
       /\ svc' = Arrived(key) /\ svc'[key] = "open"
       /\ Put(c, [cases[c] EXCEPT !.state = "open", !.wait = FALSE])
    /\ Goes(k, Idle)
    /\ UNCHANGED <<consent, late, delayed, clicks, faults>>

\* A bug: any refusal gets a fresh key.
Conflict_Any(k) ==
    /\ job[k].at = "posting" /\ job[k].op = "send"
    /\ IF job[k].fresh THEN Goes(k, Idle) /\ UNCHANGED <<cases, svc>>
       ELSE /\ mint_case_key
            /\ Put(job[k].case, [cases[job[k].case] EXCEPT !.key = Len(svc'), !.wait = FALSE])
            /\ Goes(k, Sending(job[k].case, TRUE))
    /\ UNCHANGED <<consent, late, delayed, clicks, faults>>

\* A taken key: one fresh key, stored before it is sent.
Conflict(k) ==
    /\ job[k].at = "posting" /\ job[k].op = "send" /\ svc[cases[job[k].case].key] = "taken"
    /\ IF job[k].fresh THEN Goes(k, Idle) /\ UNCHANGED <<cases, svc>>
       ELSE /\ mint_case_key
            /\ Put(job[k].case, [cases[job[k].case] EXCEPT !.key = Len(svc'), !.wait = FALSE])
            /\ Goes(k, Sending(job[k].case, TRUE))
    /\ UNCHANGED <<consent, late, delayed, clicks, faults>>

StatusRead(k) ==
    /\ job[k].at = "posting" /\ job[k].op = "status"
    /\ LET c == job[k].case  there == svc[cases[c].key] IN
       Put(c, CASE there = "withdrawn" -> [forget(cases[c]) EXCEPT !.state = there, !.wait = TRUE]
                [] there \in {"open", "closed"} -> [cases[c] EXCEPT !.state = there, !.wait = TRUE]
                [] OTHER -> [cases[c] EXCEPT !.state = "expired", !.wait = TRUE])
    /\ Goes(k, Idle)
    /\ UNCHANGED <<consent, svc, late, delayed, clicks, faults>>

\* 200, or the service's own 404: it holds nothing under the key.
Withdrawn(k) ==
    /\ job[k].at = "posting" /\ job[k].op = "withdraw"
    /\ svc' = Ended(cases[job[k].case].key)
    /\ Put(job[k].case, [forget(cases[job[k].case]) EXCEPT !.state = "withdrawn", !.wait = FALSE])
    /\ Goes(k, Idle)
    /\ UNCHANGED <<consent, late, delayed, clicks, faults>>

Refused(k) ==
    /\ job[k].at = "posting"
    /\ \E wait \in BOOLEAN : Put(job[k].case, [cases[job[k].case] EXCEPT !.wait = wait \/ job[k].op = "status"])
    /\ Goes(k, Idle)
    /\ UNCHANGED <<consent, svc, late, delayed, clicks, faults>>

\* No answer: the request is lost, arrived, or will.
Unanswered(k) ==
    /\ job[k].at = "posting"
    /\ LET key == cases[job[k].case].key IN
       \/ UNCHANGED <<svc, late>>
       \/ job[k].op = "send" /\ svc' = Arrived(key) /\ UNCHANGED late
       \/ job[k].op = "send" /\ late' = late \cup {key} /\ UNCHANGED svc
       \/ job[k].op = "withdraw" /\ svc' = Ended(key) /\ UNCHANGED late
    /\ Goes(k, Idle) /\ Fault
    /\ UNCHANGED <<cases, consent, delayed, clicks>>

Crash(k) ==
    /\ job[k] # Idle
    /\ consent' = IF consent = k THEN None ELSE consent
    /\ Goes(k, Idle) /\ Fault
    /\ UNCHANGED <<cases, svc, late, delayed, clicks>>

----------------------------------------------------------------------------
(* The service, the clock and the nightly cleanup.                          *)

LateArrives(key) ==
    /\ key \in late
    /\ svc' = Arrived(key)
    /\ late' = late \ {key} /\ delayed' = delayed \cup {key}
    /\ UNCHANGED <<cases, consent, job, clicks, faults>>

\* A review closes the case, and ninety days later the service forgets it.
ServiceMoves(key) ==
    /\ svc' = [svc EXCEPT ![key] = CASE @ = "open" -> "closed" [] @ = "closed" -> "old" [] OTHER -> @]
    /\ svc' # svc
    /\ UNCHANGED <<cases, consent, job, late, delayed, clicks, faults>>

PauseEnds(c) ==
    /\ cases[c].wait
    /\ Put(c, [cases[c] EXCEPT !.wait = FALSE])
    /\ UNCHANGED <<consent, job, svc, late, delayed, clicks, faults>>

\* Ninety days after a close this instance knows of, or expired there.
Past(row) == (row.state = "closed" /\ svc[row.key] = "old") \/ row.state = "expired"

\* One UPDATE: a row under a request makes it wait.
forget_closed ==
    /\ \E c \in Cases : Past(cases[c]) /\ cases[c].words
    /\ \A c \in Cases : Past(cases[c]) /\ cases[c].words => Free(c)
    /\ cases' = [c \in Cases |-> [cases[c] EXCEPT !.words = @ /\ ~Past(cases[c])]]
    /\ UNCHANGED <<consent, job, svc, late, delayed, clicks, faults>>

Answer(k) == Sent(k) \/ Conflict(k) \/ StatusRead(k) \/ Withdrawn(k) \/ Refused(k)
Fails(k) == Unanswered(k) \/ Crash(k)

Next ==
    \/ \E k \in Clerks : submit(k) \/ status(k) \/ withdraw_case(k) \/ Draft(k) \/ Lock(k) \/ Forget(k)
                         \/ Answer(k) \/ Fails(k)
    \/ \E key \in Keys : LateArrives(key) \/ ServiceMoves(key)
    \/ \E c \in Cases : PauseEnds(c)
    \/ forget_closed

\* A request ends; the cleanup runs every night, and waits for a row's lock.
Spec == Init /\ [][Next]_vars /\ SF_vars(forget_closed) /\ \A k \in Clerks : WF_vars(Answer(k))

----------------------------------------------------------------------------
(* Properties.                                                              *)

Posts(k) == job[k].at = "posting" /\ job[k].op = "send"
Holds(key) == svc[key] \in {"open", "closed"}

\* Racing clicks and a withdrawal: no request with the words of a case is out once the case
\* was withdrawn here, and one case at most is live for the same fields (submit, send).
NothingSentWithdrawn ==
    /\ \A k \in Clerks : Posts(k) => ~cases[job[k].case].withdrawn /\ cases[job[k].case].words
    /\ \A c, d \in Cases : Live(c) /\ Live(d) => c = d

\* Whatever the service holds can be withdrawn: its key is still some row's key, after lost
\* answers, retries, conflicts and crashes (send stores a key before it leaves).
HeldIsWithdrawable == \A key \in Keys : (Holds(key) \/ (key \in late /\ svc[key] = "unknown")) => \E c \in Cases : cases[c].key = key

\* A case shown as withdrawn is held nowhere, unless a post overtook its withdrawal.
WithdrawnIsGone ==
    \A c \in Cases : cases[c].state = "withdrawn" /\ cases[c].key \notin delayed => ~Holds(cases[c].key)

SubmissionsSound == TypeOK /\ NothingSentWithdrawn /\ HeldIsWithdrawable /\ WithdrawnIsGone

\* What was written on a case goes once the service's clock for it ran out here
\* (forget_closed).
ExpiredIsForgotten ==
    \A c \in 1..MaxCases :
        (c \in Cases /\ (cases[c].state = "expired" \/ (cases[c].state = "closed" /\ svc[cases[c].key] = "old")))
            ~> (c \in Cases /\ ~cases[c].words)

\* The same without the exception: a withdrawal the service answered with its own 404 means it
\* holds nothing under the key (withdraw's docstring).
WithdrawnIsGoneForGood == \A c \in Cases : cases[c].state = "withdrawn" => ~Holds(cases[c].key)
=============================================================================
