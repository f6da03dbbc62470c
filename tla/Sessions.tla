------------------------------ MODULE Sessions ------------------------------
(***************************************************************************)
(* Who may act: core/auth, api/auth, api/accounts, api/tokens and            *)
(* core/tenancy.  An account lives in its home tenant and may be a guest in  *)
(* others; a session or an API token is a row that names the account and     *)
(* the tenant it acts for.  A request presents one of them, is resolved      *)
(* against the row, admitted against the account, and then does its work;    *)
(* every other request may come between two of these steps.  The database    *)
(* shows a request only the rows of the tenant it is bound to: sessions and  *)
(* accounts are at home, a token is where it was issued.                     *)
(*                                                                          *)
(* What a password, a code or a secret proves is left out: SignIn is a right *)
(* password, AnswerChallenge and confirm a right code.  A token has all the  *)
(* roles of its owner, and a deadline of its own.  A step of time is longer  *)
(* than the interval at which last_seen_at is written again.                *)
(***************************************************************************)
EXTENDS Naturals

CONSTANTS
    Accounts,    \* operators of one home tenant
    Tenants,
    Main,        \* the home of every account
    Roles,
    Admin,       \* Role.admin, the one role with ACCOUNT_WRITE
    Minters,     \* the roles with TOKEN_CREATE
    GuestRoles,  \* the roles account_tenants grants
    FirstAdmins, \* who administers at first
    Enrolled,    \* who has a second factor at first
    BreakGlass,  \* the accounts no policy asks for a second factor
    Requests,    \* requests that are in progress at once
    Life,        \* session_lifetime_seconds, in steps of time
    MaxCreds,    \* bound: sessions and tokens ever issued
    MaxChanges,  \* bound: changes to accounts, factors, policies and guests
    Nobody

SessionsAssumption ==
    /\ Main \in Tenants /\ Admin \in Roles /\ Minters \subseteq Roles
    /\ GuestRoles \subseteq Roles
    /\ FirstAdmins \subseteq Accounts /\ FirstAdmins # {}
    /\ Nobody \notin Accounts
    /\ Life \in Nat \ {0} /\ MaxCreds \in Nat /\ MaxChanges \in Nat

VARIABLES
    roles,      \* account_roles
    active,     \* accounts whose status is active
    guests,     \* account_tenants
    factor,     \* auth_identities: how far every account's second factor has come
    policy,     \* tenants.mfa_required: who needs one where
    changes,    \* how often one of these five has been changed
    cred,       \* sessions and api_tokens
    issued,     \* how many there have been
    request,    \* what every request has read
    cut,        \* history: what was to end with a commit: a logout, a switch, a revocation,
                \* a password change or reset, a factor removed, an account disabled
    overlapped  \* history: an account was edited while another edit had been weighed

vars == <<roles, active, guests, factor, policy, changes, cred, issued, request, cut, overlapped>>
people == <<roles, active, guests, factor, policy, changes, overlapped>>

Creds == 1..MaxCreds
Purged == [kind |-> "none", owner |-> Nobody, acts |-> Main, code |-> FALSE, live |-> FALSE,
           life |-> 0, age |-> 0, idle |-> 0]
Rows == [kind: {"session", "token"}, owner: Accounts, acts: Tenants,
         code: BOOLEAN,  \* identity_id is the second factor
         live: BOOLEAN,
         life: 0..Life,  \* steps until expires_at
         age: 0..1,      \* 1 once last_seen_at is older than _SESSION_TOUCH_INTERVAL
         idle: 0..Life]  \* history: steps since it was last admitted

NoEdit == [target |-> Nobody, was |-> {}, wasUp |-> FALSE, then |-> {}, up |-> FALSE, stale |-> FALSE]
Edits == [target: Accounts, was: SUBSET Roles, wasUp: BOOLEAN, then: SUBSET Roles, up: BOOLEAN,
          stale: BOOLEAN]  \* history: another edit was committed since
Idle == [at |-> "idle", cred |-> 0, late |-> FALSE, age |-> 0, who |-> Nobody, saw |-> "none",
         lost |-> FALSE, tenant |-> Main, can |-> {}, edit |-> NoEdit]
Places == {"idle", "challenged", "password", "code", "resolved", "served", "enrolling", "editing"}
Factors == {"none", "pending", "confirmed"}
Policies == {"off", "admins", "everyone"}
Frames == [at: Places,
           cred: 0..MaxCreds,
           late: BOOLEAN,  \* history: what it presented had been cut before it came
           age: 0..1, who: Accounts \cup {Nobody},
           saw: Factors \cup {"removed"}, \* the factor that was read with the account
           lost: BOOLEAN,  \* the factor was removed since the session or the code was read
           tenant: Tenants, can: SUBSET Roles, edit: Edits \cup {NoEdit}]

TypeOK ==
    /\ roles \in [Accounts -> SUBSET Roles] /\ active \subseteq Accounts
    /\ guests \subseteq Accounts \X Tenants
    /\ factor \in [Accounts -> Factors] /\ policy \in [Tenants -> Policies]
    /\ changes \in 0..MaxChanges
    /\ issued \in 0..MaxCreds /\ cred \in [1..issued -> Rows \cup {Purged}]
    /\ request \in [Requests -> Frames]
    /\ cut \subseteq 1..issued /\ overlapped \in BOOLEAN

Init ==
    /\ roles = [a \in Accounts |-> IF a \in FirstAdmins THEN {Admin} ELSE Roles \ {Admin}]
    /\ active = Accounts /\ guests \in SUBSET (Accounts \X (Tenants \ {Main})) /\ changes = 0
    /\ factor = [a \in Accounts |-> IF a \in Enrolled THEN "confirmed" ELSE "none"]
    /\ policy = [t \in Tenants |-> "off"]
    /\ issued = 0 /\ cred = [c \in 1..0 |-> Purged]
    /\ request = [r \in Requests |-> Idle]
    /\ cut = {} /\ overlapped = FALSE

-----------------------------------------------------------------------------
(* Rows.                                                                    *)

There(c) == cred[c].kind # "none"
OfKind(c, kind, a) == cred[c].kind = kind /\ cred[c].owner = a

\* membership_roles: an account is a member where it lives, and where it is a guest.
Member(a, t) == t = Main \/ <<a, t>> \in guests
membership_roles(a, t) == IF t = Main THEN roles[a] ELSE GuestRoles

\* create_session and create_token: the row and its entry in the unscoped index.
Issue(kind, a, t, code, base) ==
    /\ issued < MaxCreds /\ issued' = issued + 1
    /\ cred' = [c \in 1..(issued + 1) |->
                   IF c <= issued THEN base[c]
                   ELSE [kind |-> kind, owner |-> a, acts |-> t, code |-> code, live |-> TRUE,
                         life |-> Life, age |-> 0, idle |-> 0]]

\* The rows of C carry revoked_at.
Revoked(C) == [c \in 1..issued |-> IF c \in C THEN [cred[c] EXCEPT !.live = FALSE] ELSE cred[c]]

\* revoke_all_sessions, under the tenant of the account: every session lives there.
SessionsOf(a) == {c \in 1..issued : OfKind(c, "session", a)}

TokensOf_None(a) == {}

\* revoke_all_tokens: the tokens of the account that were issued there.
TokensOf(a) == {c \in 1..issued : OfKind(c, "token", a) /\ cred[c].acts = Main}

\* Everything the account ever held.
Held(a) == {c \in 1..issued : cred[c].owner = a}

Change == changes < MaxChanges /\ changes' = changes + 1

To(r, frame) == request' = [request EXCEPT ![r] = frame]

-----------------------------------------------------------------------------
(* Signing in.                                                              *)

\* login: the account is read; one with a second factor gets a challenge.
SignIn(r, a) ==
    /\ request[r].at = "idle" /\ a \in active
    /\ To(r, [Idle EXCEPT !.at = IF factor[a] = "confirmed" THEN "challenged" ELSE "password", !.who = a])
    /\ UNCHANGED <<people, cred, issued, cut>>

\* login_mfa: the account is read again, with its factor; the challenge names it.
AnswerChallenge(r) ==
    /\ request[r].at = "challenged"
    /\ To(r, IF request[r].who \in active /\ factor[request[r].who] = "confirmed"
               THEN [request[r] EXCEPT !.at = "code", !.lost = FALSE]
               ELSE Idle)
    /\ UNCHANGED <<people, cred, issued, cut>>

\* The commit of the sign-in.  A session that refers to a factor somebody removed is refused.
OpenSession(r) ==
    /\ request[r].at \in {"password", "code"}
    /\ IF request[r].at = "code" /\ request[r].lost
         THEN UNCHANGED <<cred, issued>>
         ELSE Issue("session", request[r].who, Main, request[r].at = "code", cred)
    /\ To(r, Idle)
    /\ UNCHANGED <<people, cut>>

-----------------------------------------------------------------------------
(* The gate of every request.                                               *)

\* resolve_acting_session and the first half of _authenticate_bearer: the index, the row.
resolve(r, c) ==
    /\ request[r].at = "idle"
    /\ There(c) /\ cred[c].live /\ cred[c].life > 0
    /\ To(r, [Idle EXCEPT !.at = "resolved", !.cred = c, !.late = c \in cut, !.age = cred[c].age,
                          !.who = cred[c].owner])
    /\ UNCHANGED <<people, cred, issued, cut>>

Touched_WholeRow(c) == [cred[c] EXCEPT !.life = Life, !.age = 0, !.idle = 0, !.live = TRUE]
Touched_TimerStays(c) == [cred[c] EXCEPT !.age = 0, !.idle = 0]

\* The row that is written back slides the timer, and nothing else of the row changes.
Touched(c) == [cred[c] EXCEPT !.life = Life, !.age = 0, !.idle = 0]

\* policy_asks
policy_asks(can, t) == policy[t] = "everyone" \/ (policy[t] = "admins" /\ Admin \in can)

\* enrolment_required: the policy asks, and nothing confirmed answers.
enrolment_required(a, can, t) == a \notin BreakGlass /\ factor[a] # "confirmed" /\ policy_asks(can, t)

\* The principal: who acts, where, and what he may do there.
Served(r, at, c, can) ==
    To(r, [request[r] EXCEPT !.at = at, !.age = 0, !.saw = factor[cred[c].owner],
                             !.tenant = cred[c].acts, !.can = can])

\* _authenticate_session: an account that may not act here loses the session, and an old
\* last_seen_at is written again.  One that owes a second factor may do no more than enrol.
_authenticate_session(r) ==
    LET c == request[r].cred
        a == cred[c].owner
        t == cred[c].acts
    IN  /\ request[r].at = "resolved"
        /\ \/ /\ cred[c].kind = "session" /\ a \in active /\ Member(a, t)
              /\ cred' = [cred EXCEPT ![c] = IF request[r].age = 1 THEN Touched(c) ELSE [@ EXCEPT !.idle = 0]]
              /\ LET can == membership_roles(a, t)
                 IN  Served(r, IF enrolment_required(a, can, t) THEN "enrolling" ELSE "served", c, can)
              /\ UNCHANGED cut
           \/ /\ cred[c].kind = "session" /\ ~(a \in active /\ Member(a, t))
              /\ cred' = Revoked({c}) /\ cut' = cut \cup {c}
              /\ To(r, Idle)
        /\ UNCHANGED <<people, issued>>

Visible_Anywhere(c) == TRUE

\* Is the account of the token among the rows of the tenant the token is bound to?
Visible(c) == cred[c].acts = Main

\* The second half of _authenticate_bearer: the account, in the token's tenant.
_authenticate_bearer(r) ==
    LET c == request[r].cred
    IN  /\ request[r].at = "resolved" /\ cred[c].kind = "token"
        /\ IF Visible(c) /\ cred[c].owner \in active
             THEN Served(r, "served", c, roles[cred[c].owner])
             ELSE To(r, Idle)
        /\ UNCHANGED <<people, cred, issued, cut>>

authenticate(r) == _authenticate_session(r) \/ _authenticate_bearer(r)

-----------------------------------------------------------------------------
(* What a request that was admitted may do.                                 *)

BySession(r) == request[r].at \in {"served", "enrolling"} /\ cred[request[r].cred].kind = "session"
May(r, some) == request[r].at = "served" /\ request[r].can \cap some # {}

\* Any route that does nothing of the kind below, is refused, or fails at its commit.
Answer(r) ==
    /\ request[r].at \in {"served", "enrolling", "editing"}
    /\ To(r, Idle)
    /\ UNCHANGED <<people, cred, issued, cut>>

\* logout is public: it resolves the session and does not ask for the account.
logout(r) ==
    /\ request[r].at = "resolved" /\ cred[request[r].cred].kind = "session"
    /\ cred' = Revoked({request[r].cred}) /\ cut' = cut \cup {request[r].cred}
    /\ To(r, Idle)
    /\ UNCHANGED <<people, issued>>

\* change_password: every other session of the account ends; its password is at home.
change_password(r) ==
    LET others == SessionsOf(request[r].who) \ {request[r].cred}
    IN  /\ BySession(r) /\ request[r].at = "served" /\ request[r].tenant = Main
        /\ cred' = Revoked(others) /\ cut' = cut \cup others
        /\ To(r, Idle)
        /\ UNCHANGED <<people, issued>>

\* switch_tenant: the session that asks ends, and a new one of the same sign-in acts for t.  One
\* that refers to a factor somebody removed is refused.
switch_tenant(r, t) ==
    LET c == request[r].cred
    IN  /\ BySession(r) /\ request[r].at = "served" /\ Member(request[r].who, t)
        /\ ~(cred[c].code /\ request[r].lost)
        /\ Issue("session", request[r].who, t, cred[c].code, Revoked({c}))
        /\ cut' = cut \cup {c}
        /\ To(r, Idle)
        /\ UNCHANGED people

\* create_token, in the tenant the session acts for.
create_token(r) ==
    /\ BySession(r) /\ May(r, Minters)
    /\ Issue("token", request[r].who, request[r].tenant, FALSE, cred)
    /\ To(r, Idle)
    /\ UNCHANGED <<people, cut>>

\* revoke_token: one's own, in the tenant the caller acts for.
revoke_token(r, c) ==
    /\ May(r, Minters)
    /\ OfKind(c, "token", request[r].who) /\ cred[c].acts = request[r].tenant /\ cred[c].live
    /\ cred' = Revoked({c}) /\ cut' = cut \cup {c}
    /\ To(r, Idle)
    /\ UNCHANGED <<people, issued>>

\* The identity of a factor is a row of the home tenant.
EnrolsAtHome(r) == BySession(r) /\ request[r].tenant = Main

\* enrol: a fresh secret.  One that replaces the secret of another changes nothing here.
enrol(r) ==
    /\ EnrolsAtHome(r) /\ request[r].saw = "none" /\ factor[request[r].who] = "none"
    /\ Change
    /\ factor' = [factor EXCEPT ![request[r].who] = "pending"]
    /\ To(r, Idle)
    /\ UNCHANGED <<roles, active, policy, overlapped, guests, cred, issued, cut>>

\* confirm: the row that was read waited for its code, and nobody has removed it since.
confirm(r) ==
    /\ EnrolsAtHome(r) /\ request[r].saw = "pending"
    /\ Change
    /\ factor' = [factor EXCEPT ![request[r].who] = "confirmed"]
    /\ To(r, Idle)
    /\ UNCHANGED <<roles, active, policy, overlapped, guests, cred, issued, cut>>

-----------------------------------------------------------------------------
(* Administration.                                                          *)

Administers(r) == May(r, {Admin}) /\ request[r].tenant = Main

\* reset_password: everything that signed in with the old one ends.
reset_password(r, a) ==
    /\ Administers(r)
    /\ cred' = Revoked(SessionsOf(a) \cup TokensOf(a)) /\ cut' = cut \cup Held(a)
    /\ To(r, Idle)
    /\ UNCHANGED <<people, issued>>

\* remove_second_factor: the sessions end, and whoever has read the row of the factor has lost it.
remove_second_factor(r, a) ==
    /\ Administers(r) /\ a # request[r].who /\ factor[a] # "none"
    /\ Change
    /\ factor' = [factor EXCEPT ![a] = "none"]
    /\ cred' = Revoked(SessionsOf(a)) /\ cut' = cut \cup SessionsOf(a)
    /\ request' = [q \in Requests |->
           IF q = r THEN Idle
           ELSE IF request[q].who = a
             THEN [request[q] EXCEPT !.lost = TRUE, !.saw = IF @ = "none" THEN @ ELSE "removed"]
           ELSE request[q]]
    /\ UNCHANGED <<roles, active, policy, overlapped, guests, issued>>

\* put_mfa_policy: of the tenant the caller acts for.
put_mfa_policy(r, p) ==
    /\ May(r, {Admin}) /\ policy[request[r].tenant] # p
    /\ Change
    /\ policy' = [policy EXCEPT ![request[r].tenant] = p]
    /\ To(r, Idle)
    /\ UNCHANGED <<roles, active, factor, overlapped, guests, cred, issued, cut>>

\* _active_admin_ids
_active_admin_ids == {a \in active : Admin \in roles[a]}

\* An edit that takes the role away, or the account out of use.
Demotes(e) == e.was # e.then /\ Admin \in e.was /\ Admin \notin e.then
Disables(e) == e.wasUp /\ ~e.up

Allowed_DemotionsOnly(e, self) == Demotes(e) => ~self /\ _active_admin_ids \ {e.target} # {}

\* _assert_not_last_admin, and nobody does it to himself.
Allowed(e, self) == Demotes(e) \/ Disables(e) => ~self /\ _active_admin_ids \ {e.target} # {}

\* update_account loads the account and asks whether it may be changed so.
Weigh(r, a, then, up) ==
    LET e == [target |-> a, was |-> roles[a], wasUp |-> a \in active, then |-> then, up |-> up, stale |-> FALSE]
    IN  /\ Administers(r)
        /\ e.was # then \/ e.wasUp # up
        /\ Allowed(e, a = request[r].who)
        /\ To(r, [request[r] EXCEPT !.at = "editing", !.edit = e])
        /\ UNCHANGED <<people, cred, issued, cut>>

\* _replace_manual_roles deletes the rows it can see and inserts the new ones: those another
\* edit of the account inserted in between are seen, or stay if no row is there twice.
Kept(e) ==
    {{}} \cup IF roles[e.target] # e.was /\ roles[e.target] \cap e.then = {} THEN {roles[e.target]} ELSE {}

\* The rest of update_account: what differs from what was loaded is written, and a disabled
\* account's sessions and tokens end in the same commit.
update_account(r) ==
    LET e == request[r].edit
        a == e.target
    IN  /\ request[r].at = "editing" /\ Change
        /\ IF e.then = e.was
             THEN roles' = roles
             ELSE \E kept \in Kept(e) : roles' = [roles EXCEPT ![a] = kept \cup e.then]
        /\ active' = IF e.up = e.wasUp THEN active ELSE IF e.up THEN active \cup {a} ELSE active \ {a}
        /\ cred' = Revoked(IF Disables(e) THEN SessionsOf(a) \cup TokensOf(a) ELSE {})
        /\ cut' = IF Disables(e) THEN cut \cup Held(a) ELSE cut
        /\ overlapped' = (overlapped \/ e.stale)
        /\ request' = [q \in Requests |->
               IF q = r THEN Idle
               ELSE IF request[q].at = "editing" THEN [request[q] EXCEPT !.edit.stale = TRUE]
               ELSE request[q]]
        /\ UNCHANGED <<guests, factor, policy, issued>>

-----------------------------------------------------------------------------
\* account_tenants is written by hand.
Invite(a, t) ==
    /\ t # Main
    /\ Change
    /\ guests' = IF <<a, t>> \in guests THEN guests \ {<<a, t>>} ELSE guests \cup {<<a, t>>}
    /\ UNCHANGED <<roles, active, factor, policy, overlapped, cred, issued, request, cut>>

Later(n, top) == IF n < top THEN n + 1 ELSE top

\* Time passes: the timer of every session runs, for what a request holds of a row too.
Tick ==
    /\ cred' = [c \in 1..issued |->
           IF cred[c].kind = "session"
             THEN [cred[c] EXCEPT !.life = IF @ = 0 THEN 0 ELSE @ - 1, !.age = 1, !.idle = Later(@, Life)]
           ELSE cred[c]]
    /\ request' = [r \in Requests |->
           IF request[r].at = "resolved" THEN [request[r] EXCEPT !.age = 1] ELSE request[r]]
    /\ UNCHANGED <<people, issued, cut>>

\* A token reaches its own expires_at, if it has one.
Expire(c) ==
    /\ cred[c].kind = "token" /\ cred[c].life > 0
    /\ cred' = [cred EXCEPT ![c].life = 0]
    /\ UNCHANGED <<people, issued, request, cut>>

\* hourly_session_cleanup takes a session that has been revoked or expired for a day: no
\* request that presented it is still in progress.
hourly_session_cleanup(c) ==
    /\ \A r \in Requests : request[r].cred # c
    /\ cred[c].kind = "session" /\ (~cred[c].live \/ cred[c].life = 0)
    /\ cred' = [cred EXCEPT ![c] = Purged]
    /\ UNCHANGED <<people, issued, request, cut>>

Next ==
    \/ \E r \in Requests :
        \/ AnswerChallenge(r) \/ OpenSession(r) \/ authenticate(r) \/ Answer(r)
        \/ logout(r) \/ change_password(r) \/ create_token(r) \/ update_account(r)
        \/ enrol(r) \/ confirm(r) \/ \E p \in Policies : put_mfa_policy(r, p)
        \/ \E a \in Accounts :
            \/ SignIn(r, a) \/ reset_password(r, a) \/ remove_second_factor(r, a)
            \/ \E then \in SUBSET Roles, up \in BOOLEAN : Weigh(r, a, then, up)
        \/ \E t \in Tenants : switch_tenant(r, t)
        \/ \E c \in 1..issued : resolve(r, c) \/ revoke_token(r, c)
    \/ \E a \in Accounts, t \in Tenants : Invite(a, t)
    \/ \E c \in 1..issued : Expire(c) \/ hourly_session_cleanup(c)
    \/ Tick

Spec == Init /\ [][Next]_vars

-----------------------------------------------------------------------------
(* Properties.                                                              *)

\* What a logout, a switch, a revocation, a password change or reset, a removed factor or a
\* disabled account was to end admits no request that comes after the commit: not when a
\* request that was under way writes the row back, not when the account is enabled again,
\* and not for the tokens the commit did not see because they were issued in another tenant.
CutIsFinal ==
    \A r \in Requests : request[r].at \in {"served", "enrolling", "editing"} => ~request[r].late

\* expires_at is Life after the last request that was admitted, although it is written only
\* when last_seen_at is old, by a request that read the row some time ago (core/auth.py:48).
TimerFollowsUse == \A c \in 1..issued :
    cred[c].kind = "session" => cred[c].life = Life - cred[c].idle

\* Somebody is left who can administer, unless two edits of accounts overlapped.
AdminsRemain == overlapped \/ _active_admin_ids # {}

SessionsSound == TypeOK /\ CutIsFinal /\ TimerFollowsUse /\ AdminsRemain

\* api/accounts.py:89: a change that would leave nobody able to administer is refused.
SomebodyAdministers == _active_admin_ids # {}

\* api/auth.py:549: a token acts for the tenant it was issued under for its whole life.
\* A token whose row was found in order, of an account in use, admits its request.
TokenActsWhereIssued ==
    [][\A r \in Requests :
           request[r].at = "resolved" /\ request'[r].at = "idle" /\ cred[request[r].cred].kind = "token"
               => cred[request[r].cred].owner \notin active]_vars
=============================================================================
