------------------------------ MODULE SignIns ------------------------------
(***************************************************************************)
(* The Jamf sign-in one connection keeps between its runs                   *)
(* (mdm/jamf/sign_in.py) and the requests made with it (mdm/jamf/client.py). *)
(* A held sign-in is a token, the lock a token request is made under, and a  *)
(* pool of HTTP connections that runs lease.  It is stamped with the secret  *)
(* and the mode it was built from; a settings change retires it, and so does *)
(* the tick that keeps the registry in step with the row.                   *)
(*                                                                          *)
(* A held sign-in occupies a slot; under no_cache a run has one of its own,  *)
(* never registered.  The renewal of slot h is the actor h.  Jamf Pro is     *)
(* external: it issues tokens and may refuse any request as made with a dead *)
(* one.                                                                     *)
(***************************************************************************)
EXTENDS Naturals, Sequences, FiniteSets

CONSTANTS
    Workers,        \* requests of runs and webhooks made at the same time
    MaxHeld,        \* slots
    MaxRetries,     \* _MAX_TRANSIENT_RETRIES
    Settings,       \* the rows the connection goes through, one saved after the other
    Lifetimes,      \* Jamf names the lifetime of a token (TRUE) or does not
    None

Modes == {"no_cache", "cache_and_hold", "perpetual"}
Deleted == [secret |-> "none", mode |-> "no_cache", active |-> FALSE]
Rows == [secret : {"old", "new"}, mode : Modes, active : BOOLEAN] \cup {Deleted}

stamp(r) == <<r.secret, r.mode>>
Slots == 1 .. MaxHeld

SignInsAssumption ==
    /\ MaxHeld \in Nat /\ MaxRetries \in Nat /\ Settings \in Seq(Rows) \ {<<>>} /\ Lifetimes \subseteq BOOLEAN
    /\ IsFiniteSet(Workers) /\ Workers \cap Slots = {}
    /\ None \notin Workers /\ None \notin Slots /\ None \notin {stamp(r) : r \in Rows}

VARIABLES
    saved,   \* the last of Settings that is stored
    editing, \* a change is stored and its sign-in not yet forgotten
    held,    \* the slots
    current, \* SIGN_INS: the registered slot, or None
    job,     \* what every worker and every renewal is doing
    tick     \* sign_in_tick: None, or what it is about to keep

vars == <<saved, editing, held, current, job, tick>>

Actors == Workers \cup Slots
Tokens == 1 .. Cardinality(Workers) + 1
row == Settings[saved]

Off == [at |-> "off"]

\* HeldSignIn with its TokenState: token 0 is none, or one past its deadline;
\* `endless` that Jamf named no lifetime, `cool` the failure cooldown.
Built(r, private) ==
    [stamp |-> stamp(r), token |-> 0, endless |-> FALSE, cool |-> FALSE, lock |-> None,
     open |-> FALSE, leases |-> 0, retired |-> private, doomed |-> FALSE]

Blank == [Built([secret |-> None, mode |-> None], TRUE) EXCEPT !.stamp = None]

\* The slot is leased, by a run or by its own renewal.
Leased(a) == job[a].at \in {"leased", "waiting", "posting", "getting", "backoff"}
Live(s) == s.token # 0

TypeOK ==
    /\ saved \in DOMAIN Settings /\ editing \in BOOLEAN
    /\ current \in Slots \cup {None}
    /\ \A h \in Slots : held[h].token \in Tokens \cup {0} /\ held[h].leases \in 0 .. Cardinality(Actors)
    /\ \A a \in Actors : job[a].at \in {"off", "read", "built", "leased", "waiting", "posting", "getting", "backoff", "watching", "failed"}

Init ==
    /\ saved = 1 /\ editing = FALSE
    /\ held = [h \in Slots |-> Blank]
    /\ current = None
    /\ job = [a \in Actors |-> Off]
    /\ tick = None

----------------------------------------------------------------------------
(* The registry.                                                            *)

\* A bug: retiring closes the pool at once.
Retire_Closes(s) == [s EXCEPT !.retired = TRUE, !.doomed = FALSE, !.open = FALSE]

\* retire: the pool closes once nobody uses it.
Retire(s) == [s EXCEPT !.retired = TRUE, !.doomed = FALSE, !.open = s.leases > 0 /\ s.open]

\* A slot nobody is left to use is blank again.
Tidy(h, s, jobs) ==
    IF s.retired /\ s.leases = 0 /\ \A w \in Workers : jobs[w].at \notin {"off", "read"} => jobs[w].slot # h
    THEN Blank ELSE s

\* The lease and the lock a cancelled actor lets go of.
Unlocked(s, a) == IF s.lock = a THEN [s EXCEPT !.lock = None] ELSE s
Returned(s) == [s EXCEPT !.leases = @ - 1, !.open = @ /\ ~(s.retired /\ s.leases = 1)]
Cancelled(h) == IF Leased(h) THEN Returned(Unlocked(held[h], h)) ELSE held[h]

\* held_for gives slot h: the registered one if it was built from the same
\* settings, else a new one, and the old one is to be retired.
held_for(r, h) ==
    IF r.mode # "no_cache" /\ current # None /\ held[current].stamp = stamp(r)
    THEN h = current /\ UNCHANGED <<held, current>>
    ELSE /\ held[h] = Blank /\ \A g \in Slots : held[g] = Blank => h <= g
         /\ held' = [g \in Slots |-> IF g = h THEN Built(r, r.mode = "no_cache")
                                     ELSE IF g = current THEN [held[g] EXCEPT !.doomed = TRUE] ELSE held[g]]
         /\ current' = IF r.mode = "no_cache" THEN None ELSE h

\* A registered sign-in is not retired, so start_renewal starts one that is not running.
Renewing(jobs, r, h) ==
    IF r.mode = "perpetual" /\ jobs[h] = Off THEN [jobs EXCEPT ![h] = [at |-> "watching"]] ELSE jobs

\* Popped from the registry and retired, its renewal cancelled.
forget(h) ==
    /\ job' = [job EXCEPT ![h] = Off]
    /\ held' = [held EXCEPT ![h] = Tidy(h, Retire(Cancelled(h)), job')]
    /\ current' = IF current = h THEN None ELSE current

\* The task that _retire_soon started.
RetireSoon(h) == held[h].doomed /\ forget(h) /\ UNCHANGED <<saved, editing, tick>>

----------------------------------------------------------------------------
(* The connection's settings.                                               *)

\* update_connection stores the change, and then forgets what was built before it.
update_connection ==
    /\ ~editing /\ saved < Len(Settings) /\ Settings[saved + 1] # Deleted
    /\ saved' = saved + 1 /\ editing' = TRUE
    /\ UNCHANGED <<held, current, job, tick>>

\* delete_connection: a run that beats refuses it; the row goes, then its sign-in.
delete_connection ==
    /\ ~editing /\ saved < Len(Settings) /\ Settings[saved + 1] = Deleted
    /\ \A w \in Workers : job[w] = Off
    /\ saved' = saved + 1 /\ editing' = TRUE
    /\ UNCHANGED <<held, current, job, tick>>

Forgets ==
    /\ editing /\ editing' = FALSE
    /\ IF current = None THEN UNCHANGED <<held, current, job>> ELSE forget(current)
    /\ UNCHANGED <<saved, tick>>

\* sign_in_tick: hold and renew a perpetual one, then retire what has no use.
sign_in_tick ==
    /\ tick = None
    /\ tick' = [keep |-> row.active /\ row.mode # "no_cache"]
    /\ IF row.active /\ row.mode = "perpetual"
       THEN \E h \in Slots : held_for(row, h) /\ job' = Renewing(job, row, h)
       ELSE UNCHANGED <<held, current, job>>
    /\ UNCHANGED <<saved, editing>>

retire_absent ==
    /\ tick # None /\ tick' = None
    /\ IF tick.keep \/ current = None THEN UNCHANGED <<held, current, job>> ELSE forget(current)
    /\ UNCHANGED <<saved, editing>>

----------------------------------------------------------------------------
(* A run: its row, its client, its lease, and its requests one by one.      *)

Others == UNCHANGED <<saved, editing, tick>>
Goes(a, j) == job' = [job EXCEPT ![a] = j]
Lent(s) == [s EXCEPT !.open = TRUE, !.leases = @ + 1]

Read(w) ==
    /\ job[w] = Off /\ row.active
    /\ Goes(w, [at |-> "read", row |-> row])
    /\ Others /\ UNCHANGED <<held, current>>

\* The row may be an older one by now.
get_mdm_client(w) ==
    /\ job[w].at = "read"
    /\ LET r == job[w].row IN
       \E h \in Slots : /\ held_for(r, h)
                        /\ job' = [Renewing(job, r, h) EXCEPT ![w] = [at |-> "built", slot |-> h]]
    /\ Others

lease(w) ==
    /\ job[w].at = "built"
    /\ held' = [held EXCEPT ![job[w].slot] = Lent(@)]
    /\ Goes(w, [job[w] EXCEPT !.at = "leased"])
    /\ Others /\ UNCHANGED current

Release(w) ==
    /\ job[w].at = "leased"
    /\ Goes(w, Off)
    /\ held' = [held EXCEPT ![job[w].slot] = Tidy(job[w].slot, Returned(@), job')]
    /\ Others /\ UNCHANGED current

----------------------------------------------------------------------------
(* Signing in.  j is the request or the renewal, s its sign-in as it stands. *)

Puts(j, s) == held' = [held EXCEPT ![j.slot] = s]
Back(a, j) == Goes(a, [at |-> "leased", slot |-> j.slot])

\* With a token the request is sent; the renewal is done, and waits again.
Has(a, j, s) ==
    IF a \in Slots
    THEN Puts(j, Returned(s)) /\ Goes(a, [at |-> "watching"])
    ELSE Puts(j, s) /\ Goes(a, [at |-> "getting", slot |-> j.slot, token |-> s.token, again |-> j.again, tries |-> j.tries])

\* Without one the request is refused in the failure's words, and the renewal backs off.
HasNot(a, j, s) ==
    IF a \in Slots
    THEN Puts(j, Returned(s)) /\ Goes(a, [at |-> "failed"])
    ELSE Puts(j, s) /\ Back(a, j)

Asks(a, j, s) ==
    IF s.cool THEN HasNot(a, j, s)
    ELSE Puts(j, [s EXCEPT !.lock = a]) /\ Goes(a, [at |-> "posting", slot |-> j.slot, again |-> j.again, tries |-> j.tries])

\* A bug: whoever waited for the lock asks all the same.
Locked_Asks(a) ==
    /\ job[a].at = "waiting" /\ held[job[a].slot].lock = None
    /\ Asks(a, job[a], held[job[a].slot])
    /\ Others /\ UNCHANGED current

\* The token is looked at again under the lock.
Locked(a) ==
    /\ job[a].at = "waiting" /\ held[job[a].slot].lock = None
    /\ LET s == held[job[a].slot] IN IF Live(s) THEN Has(a, job[a], s) ELSE Asks(a, job[a], s)
    /\ Others /\ UNCHANGED current

\* A live token is used as it is; a free lock is had at once.
_authenticate(a, j, s) ==
    CASE Live(s) -> Has(a, j, s)
      [] ~Live(s) /\ s.lock = None -> Asks(a, j, s)
      [] OTHER -> Puts(j, s) /\ Goes(a, [at |-> "waiting", slot |-> j.slot, again |-> j.again, tries |-> j.tries])

\* A token is told apart from the others of its sign-in that are on their way.
Getting(h) == {w \in Workers : job[w].at = "getting" /\ job[w].slot = h}
Fresh(h) == CHOOSE t \in Tokens : \A w \in Getting(h) : job[w].token # t

\* Jamf issues a token, and names its lifetime or not.
Issued(a) ==
    /\ job[a].at = "posting"
    /\ LET h == job[a].slot IN
       \E named \in Lifetimes :
           Has(a, job[a], [held[h] EXCEPT !.token = Fresh(h), !.endless = ~named, !.cool = FALSE, !.lock = None])
    /\ Others /\ UNCHANGED current

\* A refusal is shared for five seconds; no answer is nobody else's matter.
NotIssued(a) ==
    /\ job[a].at = "posting"
    /\ \E refused \in BOOLEAN : HasNot(a, job[a], [held[job[a].slot] EXCEPT !.lock = None, !.cool = @ \/ refused])
    /\ Others /\ UNCHANGED current

----------------------------------------------------------------------------
(* Requests.                                                                *)

Request(w) ==
    /\ job[w].at = "leased"
    /\ _authenticate(w, [slot |-> job[w].slot, again |-> FALSE, tries |-> 0], held[job[w].slot])
    /\ Others /\ UNCHANGED current

Answered(w) ==
    /\ job[w].at = "getting"
    /\ Back(w, job[w])
    /\ Others /\ UNCHANGED <<held, current>>

\* A bug: any refusal wipes the token that is held.
_forget_Any(s, token) == [s EXCEPT !.token = 0, !.endless = FALSE]

\* Only the token that was refused is forgotten.
_forget(s, token) == IF s.token = token THEN [s EXCEPT !.token = 0, !.endless = FALSE] ELSE s

\* The first 401 is worth a new token, the second is the answer.
Refused(w) ==
    /\ job[w].at = "getting"
    /\ IF job[w].again THEN Back(w, job[w]) /\ UNCHANGED held
       ELSE _authenticate(w, [job[w] EXCEPT !.again = TRUE], _forget(held[job[w].slot], job[w].token))
    /\ Others /\ UNCHANGED current

\* 429 and its kind are waited out a number of times.
Transient(w) ==
    /\ job[w].at = "getting"
    /\ IF job[w].tries = MaxRetries THEN Back(w, job[w])
       ELSE Goes(w, [at |-> "backoff", slot |-> job[w].slot, again |-> job[w].again, tries |-> job[w].tries + 1])
    /\ Others /\ UNCHANGED <<held, current>>

Resend(w) ==
    /\ job[w].at = "backoff"
    /\ _authenticate(w, job[w], held[job[w].slot])
    /\ Others /\ UNCHANGED current

\* A webhook's time is up, or the connection failed twice: whatever was held is let go.
CutShort(w) ==
    /\ job[w].at \in {"waiting", "posting", "getting", "backoff"}
    /\ Puts(job[w], Unlocked(held[job[w].slot], w))
    /\ Back(w, job[w])
    /\ Others /\ UNCHANGED current

----------------------------------------------------------------------------
(* The renewal, and time.                                                   *)

\* renew_until_retired: it sleeps until the token is due, and has nothing to
\* renew when Jamf named no lifetime.
Renew(h) ==
    /\ job[h].at = "watching"
    /\ IF Live(held[h]) /\ held[h].endless
       THEN Goes(h, Off) /\ UNCHANGED held
       ELSE ~Live(held[h]) /\ _authenticate(h, [slot |-> h, again |-> FALSE, tries |-> 0], Lent(held[h]))
    /\ Others /\ UNCHANGED current

Again(h) ==
    /\ job[h].at = "failed" /\ Goes(h, [at |-> "watching"])
    /\ Others /\ UNCHANGED <<held, current>>

\* The token enters its margin; the cooldown is over.
Due(h) ==
    /\ Live(held[h]) /\ ~held[h].endless
    /\ held' = [held EXCEPT ![h].token = 0]
    /\ Others /\ UNCHANGED <<current, job>>

Cooled(h) ==
    /\ held[h].cool
    /\ held' = [held EXCEPT ![h].cool = FALSE]
    /\ Others /\ UNCHANGED <<current, job>>

Signs(a) == Locked(a) \/ Issued(a) \/ NotIssued(a)
Works(w) ==
    \/ Read(w) \/ get_mdm_client(w) \/ lease(w) \/ Request(w) \/ Release(w)
    \/ Answered(w) \/ Refused(w) \/ Transient(w) \/ Resend(w) \/ CutShort(w)

Next ==
    \/ \E w \in Workers : Works(w)
    \/ \E a \in Actors : Signs(a)
    \/ \E h \in Slots : RetireSoon(h) \/ Renew(h) \/ Again(h) \/ Due(h) \/ Cooled(h)
    \/ update_connection \/ delete_connection \/ Forgets \/ sign_in_tick \/ retire_absent

\* asyncio's lock is first come, first served; every HTTP call has a timeout; a run
\* has so many requests to make; the tick runs every minute.
Fairness ==
    /\ \A a \in Actors :
           /\ SF_vars(Locked(a)) /\ WF_vars(Issued(a) \/ NotIssued(a))
    /\ \A w \in Workers : SF_vars(Release(w)) /\ WF_vars(Answered(w) \/ Refused(w) \/ Transient(w)) /\ WF_vars(Resend(w))
    /\ \A h \in Slots : WF_vars(RetireSoon(h))
    /\ WF_vars(Forgets) /\ WF_vars(sign_in_tick) /\ WF_vars(retire_absent)

Spec == Init /\ [][Next]_vars /\ Fairness

----------------------------------------------------------------------------
(* Safety.                                                                  *)

\* One token request of a sign-in is in flight at a time, and its sender holds the lock.
OneRequestPerSignIn == \A a \in Actors : job[a].at = "posting" => held[job[a].slot].lock = a

\* A pool is open while anyone uses it, and closed once it is retired and nobody does.
PoolsAreLent ==
    \A h \in Slots :
        LET users == {a \in Actors : Leased(a) /\ job[a].slot = h} IN
        /\ held[h].leases = Cardinality(users)
        /\ users # {} => held[h].open
        /\ held[h].retired /\ users = {} => ~held[h].open

\* Nothing renews a retired sign-in.
RetiredIsQuiet == \A h \in Slots : held[h].retired => job[h] = Off

SignInsSound == TypeOK /\ OneRequestPerSignIn /\ PoolsAreLent /\ RetiredIsQuiet

\* A sign-in that stays what it was keeps its live token, but for the deadline and a 401.
TokensAreKept ==
    \A h \in Slots :
        Live(held[h]) /\ held'[h].stamp = held[h].stamp /\ held'[h].token # held[h].token
            => \/ job' = job /\ held'[h].token = 0
               \/ \E w \in Getting(h) : job[w].token = held[h].token /\ job'[w] # job[w]

\* A token is lost to nothing but its deadline and a 401 to a request made with it: not to
\* another's late 401, and not to a token request nobody needed.
LiveTokenIsKept == [][TokensAreKept]_vars

----------------------------------------------------------------------------
(* Liveness.                                                                *)

\* Every request ends, however often its token dies or its lock is taken.
EveryRequestEnds ==
    \A w \in Workers : job[w].at \in {"waiting", "posting", "getting", "backoff"} ~> job[w].at \in {"leased", "off"}

\* What the row no longer allows, or a perpetual row's older sign-in, does not stay registered.
Unwanted ==
    /\ current # None
    /\ \/ ~row.active \/ row.mode = "no_cache"
       \/ row.mode = "perpetual" /\ held[current].stamp # stamp(row)
UnwantedIsRetired == Unwanted ~> ~Unwanted

\* The comment on the forget of update_connection: nothing keeps signing in with
\* the settings an edit replaced.
Stale == \E h \in Slots : job[h] # Off /\ held[h].stamp # stamp(row)
StaleStops == Stale ~> ~Stale
=============================================================================
