--------------------------- MODULE SessionsProofs ---------------------------
(***************************************************************************)
(* Theorems about Sessions, for every set of accounts, tenants, roles and   *)
(* requests, every lifetime and every number of credentials.                *)
(***************************************************************************)
EXTENDS Sessions, TLAPS

\* What a request holds fits where it is: a resolved one names a row, an editing one an edit.
Placed ==
    \A r \in Requests :
        /\ request[r].at # "idle" => request[r].who \in Accounts
        /\ request[r].at \in {"resolved", "served", "enrolling", "editing"}
               => request[r].cred \in 1..issued /\ There(request[r].cred)
        /\ request[r].at = "editing" => request[r].edit \in Edits

\* What was cut does not live, but for the tokens that were issued elsewhere.
Dead(c) == ~There(c) \/ ~cred[c].live \/ (cred[c].kind = "token" /\ cred[c].acts # Main)
CutIsDead == \A c \in cut : Dead(c)

\* Of what was cut only such a token is still found in order.
LateIsAbroad ==
    \A r \in Requests : request[r].at = "resolved" /\ request[r].late
        => cred[request[r].cred].kind = "token" /\ cred[request[r].cred].acts # Main

\* A row that was written lately has its whole life before it, and a request that found a
\* row in that state still does: only time ages a row, and it ages both.
FreshIsWhole ==
    /\ \A c \in 1..issued : cred[c].kind = "session" /\ cred[c].age = 0 => cred[c].life = Life
    /\ \A r \in Requests : request[r].at = "resolved" /\ request[r].age = 0
           => cred[request[r].cred].age = 0

\* An edit that no other has overtaken was weighed against the accounts as they are.
Weighed(e) ==
    /\ e.was = roles[e.target] /\ e.wasUp = (e.target \in active)
    /\ Demotes(e) \/ Disables(e) => _active_admin_ids \ {e.target} # {}
EditsWeighed ==
    \A r \in Requests : request[r].at = "editing" /\ ~request[r].edit.stale
        => Weighed(request[r].edit)

IInv ==
    /\ TypeOK /\ Placed
    /\ CutIsDead /\ LateIsAbroad /\ CutIsFinal
    /\ FreshIsWhole /\ TimerFollowsUse
    /\ EditsWeighed /\ AdminsRemain
-----------------------------------------------------------------------------
(* What the steps are built from.                                           *)

\* A session's or a token's row, or the hole a purged one leaves.
Table(n) == [1..n -> Rows \cup {Purged}]

\* One field of a frame at a time.
LEMMA Fields ==
    ASSUME NEW f \in Frames
    PROVE  /\ \A at \in Places : [f EXCEPT !.at = at] \in Frames
           /\ \A c \in 0..MaxCreds : [f EXCEPT !.cred = c] \in Frames
           /\ \A late \in BOOLEAN : [f EXCEPT !.late = late] \in Frames
           /\ \A age \in {0, 1} : [f EXCEPT !.age = age] \in Frames
           /\ \A who \in Accounts : [f EXCEPT !.who = who] \in Frames
           /\ \A saw \in Factors \cup {"removed"} : [f EXCEPT !.saw = saw] \in Frames
           /\ \A lost \in BOOLEAN : [f EXCEPT !.lost = lost] \in Frames
           /\ \A t \in Tenants : [f EXCEPT !.tenant = t] \in Frames
           /\ \A can \in SUBSET Roles : [f EXCEPT !.can = can] \in Frames
<1>1. \A at \in Places : [f EXCEPT !.at = at] \in Frames
  BY DEF Frames
<1>2. \A c \in 0..MaxCreds : [f EXCEPT !.cred = c] \in Frames
  BY DEF Frames
<1>3. \A late \in BOOLEAN : [f EXCEPT !.late = late] \in Frames
  BY DEF Frames
<1>4. \A age \in {0, 1} : [f EXCEPT !.age = age] \in Frames
  BY DEF Frames
<1>5. \A who \in Accounts : [f EXCEPT !.who = who] \in Frames
  BY DEF Frames
<1>6. \A saw \in Factors \cup {"removed"} : [f EXCEPT !.saw = saw] \in Frames
  BY DEF Frames
<1>7. \A lost \in BOOLEAN : [f EXCEPT !.lost = lost] \in Frames
  BY DEF Frames
<1>8. \A t \in Tenants : [f EXCEPT !.tenant = t] \in Frames
  BY DEF Frames
<1>9. \A can \in SUBSET Roles : [f EXCEPT !.can = can] \in Frames
  BY DEF Frames
<1> QED
  BY <1>1, <1>2, <1>3, <1>4, <1>5, <1>6, <1>7, <1>8, <1>9

LEMMA EditFits == ASSUME NEW f \in Frames, NEW e \in Edits PROVE [f EXCEPT !.edit = e] \in Frames
  BY DEF Frames

LEMMA IdleFits == ASSUME SessionsAssumption PROVE Idle \in Frames
<1>1. NoEdit \in Edits \cup {NoEdit}
  OBVIOUS
<1> QED
  BY <1>1 DEF Idle, Frames, Places, Factors, SessionsAssumption

\* Revoking takes the life of the rows that are named and changes nothing else.
LEMMA Revokes ==
    ASSUME TypeOK, NEW C, \A c \in C : cred[c] \in Rows
    PROVE  /\ Revoked(C) \in Table(issued)
           /\ \A c \in 1..issued :
                  /\ Revoked(C)[c].kind = cred[c].kind /\ Revoked(C)[c].owner = cred[c].owner
                  /\ Revoked(C)[c].acts = cred[c].acts /\ Revoked(C)[c].life = cred[c].life
                  /\ Revoked(C)[c].age = cred[c].age /\ Revoked(C)[c].idle = cred[c].idle
                  /\ c \in C => ~Revoked(C)[c].live
                  /\ c \notin C => Revoked(C)[c] = cred[c]
                  /\ Revoked(C)[c].live => cred[c].live
<1>1. ASSUME NEW c \in 1..issued
      PROVE  /\ cred[c] \in Rows \cup {Purged}
             /\ c \in C => cred[c] \in Rows /\ [cred[c] EXCEPT !.live = FALSE] \in Rows
  BY DEF TypeOK, Rows
<1> QED
  BY <1>1 DEF Revoked, Table, Rows, Purged

\* A new row follows the others.
LEMMA Issues ==
    ASSUME SessionsAssumption, TypeOK, NEW kind \in {"session", "token"}, NEW a \in Accounts,
           NEW t \in Tenants, NEW code \in BOOLEAN, NEW base \in Table(issued), Issue(kind, a, t, code, base)
    PROVE  /\ issued' = issued + 1 /\ issued' \in 0..MaxCreds /\ cred' \in Table(issued')
           /\ \A c \in 1..issued : cred'[c] = base[c]
           /\ cred'[issued'] = [kind |-> kind, owner |-> a, acts |-> t, code |-> code, live |-> TRUE,
                                life |-> Life, age |-> 0, idle |-> 0]
<1> DEFINE new == [kind |-> kind, owner |-> a, acts |-> t, code |-> code, live |-> TRUE, life |-> Life,
                   age |-> 0, idle |-> 0]
<1>1. new \in Rows
  BY DEF Rows, SessionsAssumption
<1> HIDE DEF new
<1>2. issued \in Nat /\ MaxCreds \in Nat /\ issued < MaxCreds /\ issued' = issued + 1
  BY DEF Issue, TypeOK, SessionsAssumption
<1>3. cred' = [c \in 1..(issued + 1) |-> IF c <= issued THEN base[c] ELSE new]
  BY DEF Issue, new
<1>4. cred' \in Table(issued')
  BY <1>1, <1>2, <1>3 DEF Table
<1>5. \A c \in 1..issued : cred'[c] = base[c]
  BY <1>2, <1>3
<1>6. cred'[issued'] = new
  BY <1>2, <1>3
<1> QED
  BY <1>2, <1>4, <1>5, <1>6 DEF new

\* A request that takes a frame leaves the others theirs.
LEMMA Turns ==
    ASSUME TypeOK, NEW r \in Requests, NEW f \in Frames, To(r, f)
    PROVE  /\ request' \in [Requests -> Frames]
           /\ request'[r] = f
           /\ \A q \in Requests : q # r => request'[q] = request[q]
  BY DEF To, TypeOK

\* What an account may do in a tenant is a set of roles.
LEMMA RolesFit ==
    ASSUME SessionsAssumption, TypeOK, NEW a \in Accounts, NEW t \in Tenants
    PROVE  membership_roles(a, t) \in SUBSET Roles
  BY DEF membership_roles, TypeOK, SessionsAssumption

\* Whoever got as far as the gate or beyond names a row.
LEMMA HeldRow ==
    ASSUME TypeOK, Placed, NEW r \in Requests,
           request[r].at \in {"resolved", "served", "enrolling", "editing"}
    PROVE  request[r].cred \in 1..issued /\ cred[request[r].cred] \in Rows
<1>1. request[r].cred \in 1..issued /\ There(request[r].cred)
  BY DEF Placed
<1>2. cred[request[r].cred] \in Rows \cup {Purged}
  BY <1>1 DEF TypeOK
<1> QED
  BY <1>1, <1>2 DEF There, Purged
-----------------------------------------------------------------------------
(* Types.                                                                   *)

\* The parts of TypeOK that are about the accounts, and the tables.
Sets ==
    /\ roles \in [Accounts -> SUBSET Roles] /\ active \subseteq Accounts
    /\ guests \subseteq Accounts \X Tenants
    /\ factor \in [Accounts -> Factors] /\ policy \in [Tenants -> Policies]
    /\ changes \in 0..MaxChanges /\ overlapped \in BOOLEAN
Tables ==
    /\ issued \in 0..MaxCreds /\ cred \in Table(issued)
    /\ request \in [Requests -> Frames] /\ cut \subseteq 1..issued

LEMMA Typed == (TypeOK <=> Sets /\ Tables) /\ (TypeOK' <=> Sets' /\ Tables')
  BY DEF TypeOK, Sets, Tables, Table

\* One request's place among the rows.
PlacedAt(q, n, table) ==
    /\ q.at # "idle" => q.who \in Accounts
    /\ q.at \in {"resolved", "served", "enrolling", "editing"} => q.cred \in 1..n /\ table[q.cred].kind # "none"
    /\ q.at = "editing" => q.edit \in Edits

\* A step that turns one request keeps the others placed, as long as no row goes.
LEMMA StaysPlaced ==
    ASSUME SessionsAssumption, TypeOK, Placed, NEW r \in Requests, NEW f \in Frames, To(r, f),
           issued' >= issued, issued' \in Nat,
           \A c \in 1..issued : There(c) => There(c)',
           PlacedAt(f, issued', cred')
    PROVE  Placed'
<1>1. /\ request'[r] = f
      /\ \A q \in Requests : q # r => request'[q] = request[q]
  BY Turns
<1>2. ASSUME NEW q \in Requests PROVE PlacedAt(request'[q], issued', cred')
  <2>1. CASE q = r
    BY <1>1, <2>1
  <2>2. CASE q # r
    <3>1. request'[q] = request[q]
      BY <1>1, <2>2
    <3>2. issued \in Nat /\ issued' \in Nat /\ issued' >= issued
      BY DEF TypeOK, SessionsAssumption
    <3> QED
      BY <3>1, <3>2 DEF Placed, PlacedAt, There
  <2> QED
    BY <2>1, <2>2
<1> QED
  BY <1>2 DEF Placed, PlacedAt, There
\* What the commits revoke are rows.
LEMMA Revocable ==
    ASSUME TypeOK, NEW a
    PROVE  /\ SessionsOf(a) \subseteq 1..issued /\ TokensOf(a) \subseteq 1..issued
           /\ \A c \in SessionsOf(a) \cup TokensOf(a) : cred[c] \in Rows
           /\ Held(a) \subseteq 1..issued
<1>1. \A c \in 1..issued : cred[c] \in Rows \cup {Purged}
  BY DEF TypeOK
<1> QED
  BY <1>1 DEF SessionsOf, TokensOf, OfKind, Held, Purged

LEMMA InitTyped == ASSUME SessionsAssumption, Init PROVE TypeOK /\ Placed
<1>1. Idle \in Frames
  BY IdleFits
<1>2. roles \in [Accounts -> SUBSET Roles]
  BY DEF Init, SessionsAssumption
<1>3. Sets
  <2>1. changes \in 0..MaxChanges /\ active \subseteq Accounts /\ overlapped \in BOOLEAN
    <3>1. changes = 0 /\ active = Accounts /\ overlapped = FALSE
      BY DEF Init
    <3>2. 0 \in 0..MaxChanges
      BY DEF SessionsAssumption
    <3>3. overlapped \in BOOLEAN
      BY <3>1
    <3> QED
      BY <3>1, <3>2, <3>3
  <2>2. factor \in [Accounts -> Factors] /\ policy \in [Tenants -> Policies]
    BY DEF Init, Factors, Policies
  <2>3. guests \subseteq Accounts \X Tenants
    <3>1. guests \subseteq Accounts \X (Tenants \ {Main})
      BY DEF Init
    <3> QED
      BY <3>1
  <2> QED
    BY <1>2, <2>1, <2>2, <2>3 DEF Sets
<1>4. Tables
  BY <1>1 DEF Init, Tables, Table, SessionsAssumption
<1>5. Placed
  BY DEF Init, Placed, Idle
<1> QED
  BY <1>3, <1>4, <1>5, Typed

\* The steps of a sign-in.
LEMMA SignInTyped ==
    ASSUME SessionsAssumption, TypeOK, Placed, NEW r \in Requests,
           (\E a \in Accounts : SignIn(r, a)) \/ AnswerChallenge(r) \/ OpenSession(r)
    PROVE  TypeOK' /\ Placed'
<1>1. Idle \in Frames /\ request[r] \in Frames /\ issued \in Nat
  BY IdleFits DEF TypeOK, SessionsAssumption
<1>2. CASE \E a \in Accounts : SignIn(r, a)
  <2> PICK a \in Accounts : SignIn(r, a)
    BY <1>2
  <2> DEFINE at == IF factor[a] = "confirmed" THEN "challenged" ELSE "password"
             g == [Idle EXCEPT !.at = at]
             f == [g EXCEPT !.who = a]
  <2>0. at \in {"challenged", "password"}
    OBVIOUS
  <2> HIDE DEF at
  <2>1. f \in Frames /\ PlacedAt(f, issued', cred')
    <3>1. g \in Frames
      BY <1>1, <2>0, Fields DEF Places
    <3>2. g.at = at
      BY <1>1 DEF Frames
    <3> HIDE DEF g
    <3>3. f \in Frames
      BY <3>1, Fields
    <3>4. f.at = at /\ f.who = a
      BY <3>1, <3>2 DEF Frames
    <3> HIDE DEF f
    <3> QED
      BY <2>0, <3>3, <3>4 DEF PlacedAt
  <2>2. To(r, f) /\ UNCHANGED <<people, cred, issued, cut>>
    BY DEF SignIn, at
  <2> HIDE DEF f, g
  <2>3. request' \in [Requests -> Frames] /\ Placed'
    BY <1>1, <2>1, <2>2, Turns, StaysPlaced DEF There
  <2> QED
    BY <2>2, <2>3, Typed DEF Sets, Tables, Table, people
<1>3. CASE AnswerChallenge(r)
  <2> DEFINE right == request[r].who \in active /\ factor[request[r].who] = "confirmed"
             g == [request[r] EXCEPT !.at = "code"]
             h == [g EXCEPT !.lost = FALSE]
             f == IF right THEN h ELSE Idle
  <2>0. request[r].who \in Accounts
    BY <1>3 DEF AnswerChallenge, Placed
  <2>1. f \in Frames /\ PlacedAt(f, issued', cred')
    <3>1. g \in Frames
      BY <1>1, Fields DEF Places
    <3>2. g.at = "code" /\ g.who = request[r].who
      BY <1>1 DEF Frames
    <3> HIDE DEF g
    <3>3. h \in Frames
      BY <3>1, Fields
    <3>4. h.at = "code" /\ h.who = request[r].who
      BY <3>1, <3>2 DEF Frames
    <3> HIDE DEF h, right
    <3>5. CASE right
      BY <2>0, <3>3, <3>4, <3>5 DEF PlacedAt
    <3>6. CASE ~right
      BY <1>1, <3>6 DEF PlacedAt, Idle
    <3> QED
      BY <3>5, <3>6
  <2>2. To(r, f) /\ UNCHANGED <<people, cred, issued, cut>>
    BY <1>3 DEF AnswerChallenge
  <2> HIDE DEF f
  <2>3. request' \in [Requests -> Frames] /\ Placed'
    BY <1>1, <2>1, <2>2, Turns, StaysPlaced DEF There
  <2> QED
    BY <2>2, <2>3, Typed DEF Sets, Tables, Table, people
<1>4. CASE OpenSession(r)
  <2>0. request[r].who \in Accounts
    BY <1>4 DEF OpenSession, Placed
  <2>1. To(r, Idle) /\ UNCHANGED <<people, cut>>
    BY <1>4 DEF OpenSession
  <2>2. /\ issued' \in 0..MaxCreds /\ issued' >= issued /\ cred' \in Table(issued')
        /\ \A c \in 1..issued : cred'[c] = cred[c]
    <3>1. CASE UNCHANGED <<cred, issued>>
      BY <1>1, <3>1, Typed DEF Tables
    <3>2. CASE Issue("session", request[r].who, Main, request[r].at = "code", cred)
      <4>1. cred \in Table(issued) /\ Main \in Tenants /\ (request[r].at = "code") \in BOOLEAN
        BY Typed DEF Tables, SessionsAssumption
      <4>2. PICK a \in Accounts, t \in Tenants, code \in BOOLEAN, base \in Table(issued) :
                a = request[r].who /\ t = Main /\ code = (request[r].at = "code") /\ base = cred
        BY <2>0, <4>1
      <4>3. Issue("session", a, t, code, base)
        BY <3>2, <4>2 DEF Issue
      <4>4. /\ issued' = issued + 1 /\ issued' \in 0..MaxCreds /\ cred' \in Table(issued')
            /\ \A c \in 1..issued : cred'[c] = base[c]
        BY <4>3, Issues
      <4> QED
        BY <1>1, <4>2, <4>4
    <3> QED
      BY <1>4, <3>1, <3>2 DEF OpenSession
  <2>3. issued' \in Nat /\ PlacedAt(Idle, issued', cred')
    BY <2>2 DEF PlacedAt, Idle, SessionsAssumption
  <2>4. request' \in [Requests -> Frames] /\ Placed'
    BY <1>1, <2>1, <2>2, <2>3, Turns, StaysPlaced DEF There
  <2>5. cut' \subseteq 1..issued'
    BY <1>1, <2>1, <2>2, <2>3, Typed DEF Tables
  <2> QED
    BY <2>1, <2>2, <2>4, <2>5, Typed DEF Sets, Tables, Table, people
<1> QED
  BY <1>2, <1>3, <1>4
\* A step of one request, put together.
LEMMA Assemble ==
    ASSUME SessionsAssumption, TypeOK, Placed, NEW r \in Requests, NEW f \in Frames, To(r, f),
           Sets', issued' \in 0..MaxCreds, issued' >= issued, cred' \in Table(issued'),
           cut' \subseteq 1..issued', \A c \in 1..issued : There(c) => There(c)',
           PlacedAt(f, issued', cred')
    PROVE  TypeOK' /\ Placed'
<1>1. issued' \in Nat
  BY DEF SessionsAssumption
<1>2. request' \in [Requests -> Frames] /\ Placed'
  BY <1>1, Turns, StaysPlaced
<1> QED
  BY <1>2, Typed DEF Tables

\* A request that is over, after a commit that may have revoked rows and cut more of them.
LEMMA Ends ==
    ASSUME SessionsAssumption, TypeOK, Placed, NEW r \in Requests, To(r, Idle), Sets',
           NEW C \in SUBSET (1..issued), NEW D \in SUBSET (1..issued),
           \A c \in C : cred[c] \in Rows,
           cred' = Revoked(C), cut' = cut \cup D, issued' = issued
    PROVE  TypeOK' /\ Placed'
<1>1. /\ cred' \in Table(issued') /\ \A c \in 1..issued : There(c) => There(c)'
  BY Revokes DEF There
<1>2. issued' \in 0..MaxCreds /\ issued' >= issued /\ cut' \subseteq 1..issued'
  BY DEF TypeOK, SessionsAssumption
<1>3. PlacedAt(Idle, issued', cred') /\ Idle \in Frames
  BY IdleFits DEF PlacedAt, Idle
<1> QED
  BY <1>1, <1>2, <1>3, Assemble

\* The frames the gate makes, and what a request is left with when a factor is removed.
ServedFrame(f, at, saw, t, can) ==
    [f EXCEPT !.at = at, !.age = 0, !.saw = saw, !.tenant = t, !.can = can]
ResolvedFrame(f, c, late, age, who) ==
    [f EXCEPT !.at = "resolved", !.cred = c, !.late = late, !.age = age, !.who = who]
Bereft(f) == [f EXCEPT !.lost = TRUE, !.saw = IF @ = "none" THEN @ ELSE "removed"]

LEMMA FrameFits ==
    ASSUME NEW f \in Frames, NEW at \in {"served", "enrolling"}, NEW saw \in Factors,
           NEW t \in Tenants, NEW can \in SUBSET Roles
    PROVE  /\ ServedFrame(f, at, saw, t, can) \in Frames
           /\ ServedFrame(f, at, saw, t, can).at = at
           /\ ServedFrame(f, at, saw, t, can).who = f.who
           /\ ServedFrame(f, at, saw, t, can).cred = f.cred
           /\ ServedFrame(f, at, saw, t, can).late = f.late
<1> DEFINE g1 == [f EXCEPT !.at = at]
           g2 == [g1 EXCEPT !.age = 0]
           g3 == [g2 EXCEPT !.saw = saw]
           g4 == [g3 EXCEPT !.tenant = t]
           g5 == [g4 EXCEPT !.can = can]
<1>1. ServedFrame(f, at, saw, t, can) = g5
  BY DEF ServedFrame
<1>2. g1 \in Frames /\ g1.at = at /\ g1.who = f.who /\ g1.cred = f.cred /\ g1.late = f.late
  <2>1. g1 \in Frames
    BY Fields DEF Places
  <2> QED
    BY <2>1 DEF Frames
<1> HIDE DEF g1
<1>3. g2 \in Frames /\ g2.at = at /\ g2.who = f.who /\ g2.cred = f.cred /\ g2.late = f.late
  BY <1>2, Fields DEF Frames
<1> HIDE DEF g2
<1>4. g3 \in Frames /\ g3.at = at /\ g3.who = f.who /\ g3.cred = f.cred /\ g3.late = f.late
  BY <1>3, Fields DEF Frames
<1> HIDE DEF g3
<1>5. g4 \in Frames /\ g4.at = at /\ g4.who = f.who /\ g4.cred = f.cred /\ g4.late = f.late
  BY <1>4, Fields DEF Frames
<1> HIDE DEF g4
<1>6. g5 \in Frames /\ g5.at = at /\ g5.who = f.who /\ g5.cred = f.cred /\ g5.late = f.late
  BY <1>5, Fields DEF Frames
<1> QED
  BY <1>1, <1>6

LEMMA ResolvedFits ==
    ASSUME NEW f \in Frames, NEW c \in 0..MaxCreds, NEW late \in BOOLEAN, NEW age \in {0, 1},
           NEW who \in Accounts
    PROVE  /\ ResolvedFrame(f, c, late, age, who) \in Frames
           /\ ResolvedFrame(f, c, late, age, who).at = "resolved"
           /\ ResolvedFrame(f, c, late, age, who).cred = c
           /\ ResolvedFrame(f, c, late, age, who).late = late
           /\ ResolvedFrame(f, c, late, age, who).age = age
           /\ ResolvedFrame(f, c, late, age, who).who = who
<1> DEFINE g1 == [f EXCEPT !.at = "resolved"]
           g2 == [g1 EXCEPT !.cred = c]
           g3 == [g2 EXCEPT !.late = late]
           g4 == [g3 EXCEPT !.age = age]
           g5 == [g4 EXCEPT !.who = who]
<1>1. ResolvedFrame(f, c, late, age, who) = g5
  BY DEF ResolvedFrame
<1>2. g1 \in Frames /\ g1.at = "resolved"
  <2>1. g1 \in Frames
    BY Fields DEF Places
  <2> QED
    BY <2>1 DEF Frames
<1> HIDE DEF g1
<1>3. g2 \in Frames /\ g2.at = "resolved" /\ g2.cred = c
  BY <1>2, Fields DEF Frames
<1> HIDE DEF g2
<1>4. g3 \in Frames /\ g3.at = "resolved" /\ g3.cred = c /\ g3.late = late
  BY <1>3, Fields DEF Frames
<1> HIDE DEF g3
<1>5. g4 \in Frames /\ g4.at = "resolved" /\ g4.cred = c /\ g4.late = late /\ g4.age = age
  BY <1>4, Fields DEF Frames
<1> HIDE DEF g4
<1>6. g5 \in Frames /\ g5.at = "resolved" /\ g5.cred = c /\ g5.late = late /\ g5.age = age /\ g5.who = who
  BY <1>5, Fields DEF Frames
<1> QED
  BY <1>1, <1>6

LEMMA BereftFits ==
    ASSUME NEW f \in Frames
    PROVE  /\ Bereft(f) \in Frames
           /\ Bereft(f).at = f.at /\ Bereft(f).cred = f.cred /\ Bereft(f).late = f.late
           /\ Bereft(f).age = f.age /\ Bereft(f).who = f.who /\ Bereft(f).edit = f.edit
<1> DEFINE saw == IF f.saw = "none" THEN f.saw ELSE "removed"
           g1 == [f EXCEPT !.lost = TRUE]
           g2 == [g1 EXCEPT !.saw = saw]
<1>1. saw \in Factors \cup {"removed"}
  BY DEF Frames
<1>2. Bereft(f) = g2
  BY DEF Bereft, Frames
<1> HIDE DEF saw
<1>3. g1 \in Frames
  BY Fields
<1>4. /\ g1.at = f.at /\ g1.cred = f.cred /\ g1.late = f.late /\ g1.age = f.age
      /\ g1.who = f.who /\ g1.edit = f.edit
  BY DEF Frames
<1> HIDE DEF g1
<1>5. g2 \in Frames
  BY <1>1, <1>3, Fields
<1>6. /\ g2.at = g1.at /\ g2.cred = g1.cred /\ g2.late = g1.late /\ g2.age = g1.age
      /\ g2.who = g1.who /\ g2.edit = g1.edit
  BY <1>3 DEF Frames
<1> HIDE DEF g2
<1> QED
  BY <1>2, <1>4, <1>5, <1>6

LEMMA RowFits ==
    ASSUME SessionsAssumption, NEW row \in Rows
    PROVE  /\ [row EXCEPT !.life = Life, !.age = 0, !.idle = 0] \in Rows
           /\ [row EXCEPT !.idle = 0] \in Rows
<1>1. 0 \in 0..Life /\ Life \in 0..Life /\ 0 \in 0..1
  BY DEF SessionsAssumption
<1> QED
  BY <1>1 DEF Rows

\* The gate.
LEMMA GateTyped ==
    ASSUME SessionsAssumption, TypeOK, Placed, NEW r \in Requests,
           (\E c \in 1..issued : resolve(r, c)) \/ authenticate(r)
    PROVE  TypeOK' /\ Placed'
<1>1. Idle \in Frames /\ request[r] \in Frames /\ issued \in Nat /\ issued \in 0..MaxCreds
  BY IdleFits DEF TypeOK, SessionsAssumption
<1>2. ASSUME NEW c \in 1..issued, resolve(r, c) PROVE TypeOK' /\ Placed'
  <2> PICK late \in BOOLEAN : late = (c \in cut)
    <3>1. CASE c \in cut
      <4>1. (c \in cut) = TRUE
        BY <3>1
      <4> QED
        BY <4>1, Zenon
    <3>2. CASE c \notin cut
      <4>1. (c \in cut) = FALSE
        BY <3>2
      <4> QED
        BY <4>1, Zenon
    <3> QED
      BY <3>1, <3>2
  <2> DEFINE f == ResolvedFrame(Idle, c, late, cred[c].age, cred[c].owner)
  <2>1. cred[c] \in Rows /\ There(c)
    <3>1. cred[c] \in Rows \cup {Purged} /\ There(c)
      BY <1>2 DEF resolve, TypeOK
    <3> QED
      BY <3>1 DEF There, Purged
  <2>2. UNCHANGED <<people, cred, issued, cut>> /\ To(r, f)
    BY <1>2 DEF resolve, ResolvedFrame
  <2>3. f \in Frames /\ f.at = "resolved" /\ f.cred = c /\ f.who = cred[c].owner /\ cred[c].owner \in Accounts
    <3>1. c \in 0..MaxCreds /\ cred[c].age \in {0, 1} /\ cred[c].owner \in Accounts
      BY <1>1, <2>1 DEF Rows, SessionsAssumption
    <3>2. PICK age \in {0, 1}, who \in Accounts : age = cred[c].age /\ who = cred[c].owner
      BY <3>1
    <3>3. PICK idle \in Frames, d \in 0..MaxCreds : idle = Idle /\ d = c
      BY <1>1, <3>1
    <3>4. /\ ResolvedFrame(idle, d, late, age, who) \in Frames
          /\ ResolvedFrame(idle, d, late, age, who).at = "resolved"
          /\ ResolvedFrame(idle, d, late, age, who).cred = d
          /\ ResolvedFrame(idle, d, late, age, who).who = who
      BY ONLY ResolvedFits, idle \in Frames, d \in 0..MaxCreds, late \in BOOLEAN, age \in {0, 1}, who \in Accounts
    <3> QED
      BY <3>1, <3>2, <3>3, <3>4
  <2>4. PlacedAt(f, issued', cred')
    BY <1>1, <2>1, <2>2, <2>3 DEF PlacedAt, There
  <2>5. Sets'
    BY <2>2, Typed DEF Sets, people
  <2>6. /\ issued' \in 0..MaxCreds /\ issued' >= issued /\ cred' \in Table(issued')
        /\ cut' \subseteq 1..issued' /\ \A d \in 1..issued : There(d) => There(d)'
    BY <1>1, <2>2, Typed DEF Tables, There
  <2> HIDE DEF f
  <2> QED
    BY <2>2, <2>3, <2>4, <2>5, <2>6, Assemble
<1> DEFINE c == request[r].cred
           a == cred[c].owner
           t == cred[c].acts
<1>3. request[r].at = "resolved" => c \in 1..issued /\ cred[c] \in Rows /\ There(c) /\ a \in Accounts /\ t \in Tenants
  BY HeldRow DEF Placed, Rows
<1>4. CASE _authenticate_session(r)
  <2>1. request[r].at = "resolved" /\ UNCHANGED <<people, issued>> /\ cred[c].kind = "session"
    BY <1>4 DEF _authenticate_session
  <2>2. Sets'
    BY <2>1, Typed DEF Sets, people
  <2> DEFINE can == membership_roles(a, t)
             at == IF enrolment_required(a, can, t) THEN "enrolling" ELSE "served"
  <2>3. CASE /\ cred' = [cred EXCEPT ![c] = IF request[r].age = 1 THEN Touched(c) ELSE [@ EXCEPT !.idle = 0]]
             /\ Served(r, at, c, can) /\ UNCHANGED cut
    <3> DEFINE row == IF request[r].age = 1 THEN Touched(c) ELSE [cred[c] EXCEPT !.idle = 0]
               f == ServedFrame(request[r], at, factor[a], t, can)
    <3>1. row \in Rows /\ row.kind # "none"
      BY <1>3, <2>1, RowFits DEF Rows, Touched
    <3>2. cred' = [cred EXCEPT ![c] = row]
      BY <2>3
    <3> HIDE DEF row
    <3>3. cred' \in Table(issued') /\ \A d \in 1..issued : There(d) => There(d)'
      BY <1>3, <2>1, <3>1, <3>2, Typed DEF Tables, Table, There
    <3>4. can \in SUBSET Roles /\ factor[a] \in Factors /\ at \in {"served", "enrolling"}
      BY <1>3, <2>1, RolesFit DEF TypeOK
    <3>8. To(r, f)
      BY <2>3 DEF Served, ServedFrame
    <3> HIDE DEF can, at
    <3>5. f \in Frames /\ f.at = at /\ f.who = request[r].who /\ f.cred = c
      BY <1>1, <1>3, <2>1, <3>4, FrameFits
    <3>6. request[r].who \in Accounts
      BY <2>1 DEF Placed
    <3>7. PlacedAt(f, issued', cred')
      BY <1>3, <2>1, <3>3, <3>4, <3>5, <3>6 DEF PlacedAt, There
    <3>9. issued' \in 0..MaxCreds /\ issued' >= issued /\ cut' \subseteq 1..issued'
      BY <1>1, <2>1, <2>3, Typed DEF Tables
    <3> HIDE DEF f
    <3> QED
      BY <2>2, <3>3, <3>5, <3>7, <3>8, <3>9, Assemble
  <2>4. CASE cred' = Revoked({c}) /\ cut' = cut \cup {c} /\ To(r, Idle)
    BY <1>3, <2>1, <2>2, <2>4, Ends
  <2> QED
    BY <1>4, <2>3, <2>4 DEF _authenticate_session
<1>5. CASE _authenticate_bearer(r)
  <2>1. request[r].at = "resolved" /\ UNCHANGED <<people, cred, issued, cut>>
    BY <1>5 DEF _authenticate_bearer
  <2>2. Sets'
    BY <2>1, Typed DEF Sets, people
  <2>3. /\ issued' \in 0..MaxCreds /\ issued' >= issued /\ cred' \in Table(issued')
        /\ cut' \subseteq 1..issued' /\ \A d \in 1..issued : There(d) => There(d)'
    BY <1>1, <2>1, Typed DEF Tables, There
  <2>4. CASE To(r, Idle)
    <3>1. PlacedAt(Idle, issued', cred')
      BY DEF PlacedAt, Idle
    <3> QED
      BY <1>1, <2>2, <2>3, <2>4, <3>1, Assemble
  <2>5. CASE Served(r, "served", c, roles[a])
    <3> DEFINE f == ServedFrame(request[r], "served", factor[a], t, roles[a])
    <3>1. roles[a] \in SUBSET Roles /\ factor[a] \in Factors
      BY <1>3, <2>1 DEF TypeOK
    <3>2. f \in Frames /\ f.at = "served" /\ f.who = request[r].who /\ f.cred = c
      BY <1>1, <1>3, <2>1, <3>1, FrameFits, SMTT(30)
    <3>3. request[r].who \in Accounts
      BY <2>1 DEF Placed
    <3>4. PlacedAt(f, issued', cred')
      BY <1>3, <2>1, <3>2, <3>3 DEF PlacedAt, There
    <3>5. To(r, f)
      BY <2>5 DEF Served, ServedFrame
    <3> HIDE DEF f
    <3> QED
      BY <2>2, <2>3, <3>2, <3>4, <3>5, Assemble
  <2> QED
    BY <1>5, <2>4, <2>5 DEF _authenticate_bearer
<1> QED
  BY <1>2, <1>4, <1>5 DEF authenticate
\* A request that ends with a new row, one of the old ones revoked at most.
LEMMA EndsWithRow ==
    ASSUME SessionsAssumption, TypeOK, Placed, NEW r \in Requests, To(r, Idle), UNCHANGED people,
           NEW kind \in {"session", "token"}, NEW a \in Accounts, NEW t \in Tenants, NEW code \in BOOLEAN,
           NEW base \in Table(issued), Issue(kind, a, t, code, base),
           \A c \in 1..issued : base[c].kind = cred[c].kind, cut' \subseteq 1..issued
    PROVE  TypeOK' /\ Placed'
<1>1. /\ issued' = issued + 1 /\ issued' \in 0..MaxCreds /\ cred' \in Table(issued')
      /\ \A c \in 1..issued : cred'[c] = base[c]
  BY Issues, ZenonT(30)
<1>2. issued \in Nat /\ issued' >= issued /\ cut' \subseteq 1..issued'
  <2>1. issued \in Nat
    BY DEF TypeOK, SessionsAssumption
  <2>2. issued' = issued + 1
    BY <1>1
  <2>3. 1..issued \subseteq 1..issued'
    BY <2>1, <2>2
  <2>4. cut' \subseteq 1..issued'
    BY <2>3
  <2> QED
    BY <2>1, <2>2, <2>4
<1>3. \A c \in 1..issued : There(c) => There(c)'
  BY <1>1 DEF There
<1>4. PlacedAt(Idle, issued', cred') /\ Idle \in Frames
  BY IdleFits DEF PlacedAt, Idle
<1>5. Sets'
  BY Typed DEF Sets, people
<1> QED
  BY <1>1, <1>2, <1>3, <1>4, <1>5, Assemble

\* What a request that was admitted does.
LEMMA RouteTyped ==
    ASSUME SessionsAssumption, TypeOK, Placed, NEW r \in Requests,
           \/ Answer(r) \/ logout(r) \/ change_password(r) \/ create_token(r) \/ enrol(r) \/ confirm(r)
           \/ \E p \in Policies : put_mfa_policy(r, p)
           \/ \E t \in Tenants : switch_tenant(r, t)
           \/ \E c \in 1..issued : revoke_token(r, c)
    PROVE  TypeOK' /\ Placed'
<1> DEFINE c == request[r].cred
           a == request[r].who
<1>0. issued \in Nat /\ cred \in Table(issued) /\ Sets
  BY Typed DEF Tables, SessionsAssumption
<1>1. request[r].at \in {"resolved", "served", "enrolling"} => c \in 1..issued /\ cred[c] \in Rows
  BY HeldRow
<1>2. request[r].at \in {"served", "enrolling", "editing"} => a \in Accounts
  BY DEF Placed
<1>3. UNCHANGED people => Sets'
  BY <1>0 DEF Sets, people
<1>4. Revoked({}) = cred /\ cut \cup {} = cut
  BY <1>0 DEF Revoked, Table
<1>5. CASE Answer(r)
  <2>1. To(r, Idle) /\ Sets' /\ cred' = Revoked({}) /\ cut' = cut \cup {} /\ issued' = issued
    BY <1>3, <1>4, <1>5 DEF Answer
  <2> QED
    BY <2>1, Ends
<1>6. CASE logout(r)
  <2>1. To(r, Idle) /\ Sets' /\ cred' = Revoked({c}) /\ cut' = cut \cup {c} /\ issued' = issued
    BY <1>3, <1>6 DEF logout
  <2>2. {c} \in SUBSET (1..issued) /\ \A d \in {c} : cred[d] \in Rows
    BY <1>1, <1>6 DEF logout
  <2> QED
    BY <2>1, <2>2, Ends
<1>7. CASE change_password(r)
  <2> DEFINE others == SessionsOf(a) \ {c}
  <2>1. To(r, Idle) /\ Sets' /\ cred' = Revoked(others) /\ cut' = cut \cup others /\ issued' = issued
    BY <1>3, <1>7 DEF change_password
  <2>2. others \in SUBSET (1..issued) /\ \A d \in others : cred[d] \in Rows
    BY Revocable
  <2> HIDE DEF others
  <2> QED
    BY <2>1, <2>2, Ends
<1>8. CASE create_token(r)
  <2>1. PICK b \in Accounts, t \in Tenants, base \in Table(issued) :
            b = a /\ t = request[r].tenant /\ base = cred
    BY <1>0, <1>2, <1>8 DEF create_token, BySession, TypeOK, Frames
  <2>2. Issue("token", b, t, FALSE, base) /\ To(r, Idle) /\ UNCHANGED people /\ cut' = cut
    BY <1>8, <2>1 DEF create_token, Issue
  <2>3. cut' \subseteq 1..issued /\ \A d \in 1..issued : base[d].kind = cred[d].kind
    BY <2>1, <2>2 DEF TypeOK
  <2> QED
    BY <2>2, <2>3, EndsWithRow
<1>9. CASE enrol(r) \/ confirm(r)
  <2>1. a \in Accounts /\ changes \in Nat /\ MaxChanges \in Nat
    BY <1>0, <1>2, <1>9 DEF enrol, confirm, EnrolsAtHome, BySession, Sets, SessionsAssumption
  <2>2. To(r, Idle) /\ cred' = Revoked({}) /\ cut' = cut \cup {} /\ issued' = issued
    BY <1>4, <1>9 DEF enrol, confirm
  <2>3. factor' = [factor EXCEPT ![a] = "pending"] \/ factor' = [factor EXCEPT ![a] = "confirmed"]
    BY <1>9 DEF enrol, confirm
  <2>4. factor' \in [Accounts -> Factors]
    <3>1. factor \in [Accounts -> Factors]
      BY <1>0 DEF Sets
    <3>2. "pending" \in Factors /\ "confirmed" \in Factors
      BY DEF Factors
    <3>3. \A x \in Factors : [factor EXCEPT ![a] = x] \in [Accounts -> Factors]
      BY <3>1
    <3> HIDE DEF a
    <3> QED
      BY <2>3, <3>2, <3>3, Zenon
  <2>5. changes' \in 0..MaxChanges /\ UNCHANGED <<roles, active, guests, policy, overlapped>>
    BY <1>9, <2>1 DEF enrol, confirm, Change
  <2>6. Sets'
    BY <1>0, <2>4, <2>5 DEF Sets
  <2> QED
    BY <2>2, <2>6, Ends
<1>12. ASSUME NEW p \in Policies, put_mfa_policy(r, p) PROVE TypeOK' /\ Placed'
  <2>1. request[r].tenant \in Tenants /\ changes \in Nat /\ MaxChanges \in Nat
    BY <1>0 DEF TypeOK, Frames, Sets, SessionsAssumption
  <2>2. To(r, Idle) /\ cred' = Revoked({}) /\ cut' = cut \cup {} /\ issued' = issued
    BY <1>4, <1>12 DEF put_mfa_policy
  <2>3. policy' \in [Tenants -> Policies]
    BY <1>0, <1>12, <2>1 DEF put_mfa_policy, Sets
  <2>4. changes' \in 0..MaxChanges /\ UNCHANGED <<roles, active, guests, factor, overlapped>>
    BY <1>12, <2>1 DEF put_mfa_policy, Change
  <2>5. Sets'
    BY <1>0, <2>3, <2>4 DEF Sets
  <2> QED
    BY <2>2, <2>5, Ends
<1>10. CASE \E t \in Tenants : switch_tenant(r, t)
  <2> PICK t \in Tenants : switch_tenant(r, t)
    BY <1>10
  <2>1. c \in 1..issued /\ cred[c] \in Rows /\ a \in Accounts
    BY <1>1, <1>2 DEF switch_tenant, BySession
  <2>2. /\ Revoked({c}) \in Table(issued)
        /\ \A d \in 1..issued : Revoked({c})[d].kind = cred[d].kind
    BY <2>1, Revokes
  <2>3. PICK b \in Accounts, code \in BOOLEAN, base \in Table(issued) :
            b = a /\ code = cred[c].code /\ base = Revoked({c})
    BY <2>1, <2>2 DEF Rows
  <2>4. Issue("session", b, t, code, base) /\ To(r, Idle) /\ UNCHANGED people /\ cut' = cut \cup {c}
    BY <2>3 DEF switch_tenant, Issue
  <2>5. cut' \subseteq 1..issued /\ \A d \in 1..issued : base[d].kind = cred[d].kind
    BY <2>1, <2>2, <2>3, <2>4 DEF TypeOK
  <2> QED
    BY <2>4, <2>5, EndsWithRow
<1>11. ASSUME NEW d \in 1..issued, revoke_token(r, d) PROVE TypeOK' /\ Placed'
  <2>1. To(r, Idle) /\ Sets' /\ cred' = Revoked({d}) /\ cut' = cut \cup {d} /\ issued' = issued
    BY <1>3, <1>11 DEF revoke_token
  <2>2. {d} \in SUBSET (1..issued) /\ \A e \in {d} : cred[e] \in Rows
    <3>1. cred[d] \in Rows \cup {Purged} /\ cred[d].kind = "token"
      BY <1>11 DEF revoke_token, OfKind, TypeOK
    <3> QED
      BY <3>1 DEF Purged
  <2> QED
    BY <2>1, <2>2, Ends
<1> QED
  BY <1>5, <1>6, <1>7, <1>8, <1>9, <1>10, <1>11, <1>12

\* Administration.
LEMMA AdminTyped ==
    ASSUME SessionsAssumption, TypeOK, Placed, NEW r \in Requests,
           \/ \E a \in Accounts :
                 \/ reset_password(r, a) \/ remove_second_factor(r, a)
                 \/ \E then \in SUBSET Roles, up \in BOOLEAN : Weigh(r, a, then, up)
           \/ update_account(r)
    PROVE  TypeOK' /\ Placed'
<1>0. issued \in Nat /\ issued \in 0..MaxCreds /\ cred \in Table(issued) /\ Sets /\ request[r] \in Frames
      /\ cut \subseteq 1..issued /\ changes \in Nat /\ MaxChanges \in Nat
  BY Typed DEF Tables, Sets, SessionsAssumption
<1>1. UNCHANGED people => Sets'
  BY <1>0 DEF Sets, people
<1>2. ASSUME NEW a \in Accounts, reset_password(r, a) PROVE TypeOK' /\ Placed'
  <2> DEFINE C == SessionsOf(a) \cup TokensOf(a)
  <2>1. /\ To(r, Idle) /\ Sets' /\ cred' = Revoked(C) /\ cut' = cut \cup Held(a) /\ issued' = issued
    BY <1>1, <1>2 DEF reset_password
  <2>2. C \in SUBSET (1..issued) /\ Held(a) \in SUBSET (1..issued) /\ \A d \in C : cred[d] \in Rows
    BY Revocable
  <2> HIDE DEF C
  <2> QED
    BY <2>1, <2>2, Ends
<1>3. ASSUME NEW a \in Accounts, remove_second_factor(r, a) PROVE TypeOK' /\ Placed'
  <2>1. /\ cred' = Revoked(SessionsOf(a)) /\ cut' = cut \cup SessionsOf(a) /\ issued' = issued
        /\ UNCHANGED <<roles, active, guests, policy, overlapped>>
    BY <1>3 DEF remove_second_factor
  <2>2. SessionsOf(a) \in SUBSET (1..issued) /\ \A d \in SessionsOf(a) : cred[d] \in Rows
    BY Revocable
  <2>3. Sets'
    <3>1. factor' \in [Accounts -> Factors] /\ changes' \in 0..MaxChanges
      <4>1. factor' = [factor EXCEPT ![a] = "none"] /\ changes < MaxChanges /\ changes' = changes + 1
        BY <1>3 DEF remove_second_factor, Change
      <4>2. factor' \in [Accounts -> Factors]
        BY <1>0, <4>1 DEF Sets, Factors
      <4> QED
        BY <1>0, <4>1, <4>2
    <3> QED
      BY <1>0, <2>1, <3>1 DEF Sets
  <2>4. cred' \in Table(issued) /\ \A d \in 1..issued : There(d) => There(d)'
    BY <2>1, <2>2, Revokes DEF There
  <2>5. ASSUME NEW q \in Requests
        PROVE  request'[q] \in Frames /\ PlacedAt(request'[q], issued', cred')
    <3>0. request[q] \in Frames /\ Idle \in Frames
      BY IdleFits DEF TypeOK
    <3>1. request'[q] \in {Idle, Bereft(request[q]), request[q]}
      BY <1>3 DEF remove_second_factor, Bereft
    <3>2. CASE request'[q] = Idle
      BY <3>0, <3>2 DEF PlacedAt, Idle
    <3>3. CASE request'[q] = Bereft(request[q])
      <4>1. /\ request'[q] \in Frames /\ request'[q].at = request[q].at /\ request'[q].who = request[q].who
            /\ request'[q].cred = request[q].cred /\ request'[q].edit = request[q].edit
        BY <3>0, <3>3, BereftFits
      <4> QED
        BY <2>1, <2>4, <4>1 DEF Placed, PlacedAt, There
    <3>4. CASE request'[q] = request[q]
      BY <2>1, <2>4, <3>0, <3>4 DEF Placed, PlacedAt, There
    <3> QED
      BY <3>1, <3>2, <3>3, <3>4
  <2>6. request' \in [Requests -> Frames]
    BY <1>3, <2>5 DEF remove_second_factor
  <2>7. cut' \subseteq 1..issued'
    BY <1>0, <2>1, <2>2
  <2> QED
    BY <1>0, <2>1, <2>3, <2>4, <2>5, <2>6, <2>7, Typed DEF Tables, Placed, PlacedAt, There
<1>4. ASSUME NEW a \in Accounts, NEW then \in SUBSET Roles, NEW up \in BOOLEAN, Weigh(r, a, then, up)
      PROVE  TypeOK' /\ Placed'
  <2> DEFINE e == [target |-> a, was |-> roles[a], wasUp |-> a \in active, then |-> then, up |-> up, stale |-> FALSE]
             g == [request[r] EXCEPT !.at = "editing"]
             f == [g EXCEPT !.edit = e]
  <2>1. e \in Edits
    BY <1>0 DEF Edits, Sets
  <2>2. To(r, f) /\ UNCHANGED <<people, cred, issued, cut>> /\ request[r].at = "served"
    BY <1>4 DEF Weigh, Administers, May
  <2> HIDE DEF e
  <2>3. g \in Frames
    BY <1>0, Fields DEF Places
  <2>4. f \in Frames
    BY <2>1, <2>3, EditFits
  <2>5. f.at = "editing" /\ f.edit = e /\ f.who = request[r].who /\ f.cred = request[r].cred
    BY <1>0 DEF Frames
  <2>6. request[r].who \in Accounts /\ request[r].cred \in 1..issued /\ There(request[r].cred)
    BY <2>2 DEF Placed
  <2> HIDE DEF f
  <2>7. PlacedAt(f, issued', cred')
    BY <2>1, <2>2, <2>5, <2>6 DEF PlacedAt, There
  <2>8. /\ Sets' /\ issued' \in 0..MaxCreds /\ issued' >= issued /\ cred' \in Table(issued')
        /\ cut' \subseteq 1..issued' /\ \A d \in 1..issued : There(d) => There(d)'
    BY <1>0, <1>1, <2>2 DEF There
  <2> QED
    BY <2>2, <2>4, <2>7, <2>8, Assemble
<1>5. CASE update_account(r)
  <2> DEFINE e == request[r].edit
             C == IF Disables(e) THEN SessionsOf(e.target) \cup TokensOf(e.target) ELSE {}
  <2>1. e \in Edits /\ request[r].at = "editing"
    BY <1>5 DEF update_account, Placed
  <2>2. /\ C \in SUBSET (1..issued) /\ \A d \in C : cred[d] \in Rows
        /\ Held(e.target) \subseteq 1..issued
    BY Revocable
  <2>3. cred' = Revoked(C) /\ issued' = issued /\ cut' \subseteq 1..issued
    BY <1>0, <1>5, <2>2 DEF update_account
  <2> HIDE DEF C
  <2>4. cred' \in Table(issued) /\ \A d \in 1..issued : There(d) => There(d)'
    BY <2>2, <2>3, Revokes DEF There
  <2>5. Sets'
    <3> HIDE DEF e
    <3>1. e.target \in Accounts /\ e.then \in SUBSET Roles /\ e.stale \in BOOLEAN
      BY <2>1 DEF Edits
    <3>2. roles' \in [Accounts -> SUBSET Roles]
      <4>1. \A kept \in Kept(e) : kept \in SUBSET Roles
        BY <1>0, <3>1 DEF Kept, Sets
      <4>2. \/ roles' = roles
            \/ \E kept \in Kept(e) : roles' = [roles EXCEPT ![e.target] = kept \cup e.then]
        BY <1>5 DEF update_account, e
      <4> QED
        BY <1>0, <3>1, <4>1, <4>2 DEF Sets
    <3>3. active' \subseteq Accounts /\ overlapped' \in BOOLEAN /\ changes' \in 0..MaxChanges
      BY <1>0, <1>5, <3>1 DEF update_account, Change, Sets, e
    <3>4. UNCHANGED <<guests, factor, policy>>
      BY <1>5 DEF update_account
    <3> QED
      BY <1>0, <3>2, <3>3, <3>4 DEF Sets
  <2>6. ASSUME NEW q \in Requests
        PROVE  request'[q] \in Frames /\ PlacedAt(request'[q], issued', cred')
    <3>0. request[q] \in Frames /\ Idle \in Frames
      BY IdleFits DEF TypeOK
    <3>1. CASE q = r
      <4>1. request'[q] = Idle
        BY <1>5, <3>1 DEF update_account
      <4> QED
        BY <3>0, <4>1 DEF PlacedAt, Idle
    <3>2. CASE q # r /\ request[q].at = "editing"
      <4>1. request'[q] = [request[q] EXCEPT !.edit.stale = TRUE]
        BY <1>5, <3>2 DEF update_account
      <4>2. request[q].edit \in Edits
        BY <3>2 DEF Placed
      <4> DEFINE d == [request[q].edit EXCEPT !.stale = TRUE]
      <4>3. d \in Edits
        BY <4>2 DEF Edits
      <4>4. request'[q] = [request[q] EXCEPT !.edit = d]
        BY <4>1
      <4> HIDE DEF d
      <4>5. request'[q] \in Frames
        BY <3>0, <4>3, <4>4, EditFits
      <4>6. /\ request'[q].at = "editing" /\ request'[q].edit = d
            /\ request'[q].who = request[q].who /\ request'[q].cred = request[q].cred
        BY <3>0, <3>2, <4>4 DEF Frames
      <4>7. /\ request[q].who \in Accounts
            /\ request[q].cred \in 1..issued /\ There(request[q].cred)
        BY <3>2 DEF Placed
      <4> QED
        BY <2>3, <2>4, <4>3, <4>5, <4>6, <4>7 DEF PlacedAt, There
    <3>3. CASE q # r /\ request[q].at # "editing"
      <4>1. request'[q] = request[q]
        BY <1>5, <3>3 DEF update_account
      <4> QED
        BY <2>3, <2>4, <3>0, <4>1 DEF Placed, PlacedAt, There
    <3> QED
      BY <3>1, <3>2, <3>3
  <2>7. request' \in [Requests -> Frames]
    BY <1>5, <2>6 DEF update_account
  <2> QED
    BY <1>0, <2>3, <2>4, <2>5, <2>6, <2>7, Typed DEF Tables, Placed, PlacedAt, There
<1> QED
  BY <1>2, <1>3, <1>4, <1>5

\* A row one step of time later.
Aged(row) ==
    [row EXCEPT !.life = IF @ = 0 THEN 0 ELSE @ - 1, !.age = 1, !.idle = Later(@, Life)]

LEMMA AgedFits ==
    ASSUME SessionsAssumption, NEW row \in Rows
    PROVE  /\ Aged(row) \in Rows
           /\ Aged(row).kind = row.kind /\ Aged(row).owner = row.owner /\ Aged(row).acts = row.acts
           /\ Aged(row).live = row.live /\ Aged(row).age = 1
           /\ Aged(row).life = (IF row.life = 0 THEN 0 ELSE row.life - 1)
           /\ Aged(row).idle = Later(row.idle, Life)
<1> DEFINE n == IF row.life = 0 THEN 0 ELSE row.life - 1
           m == Later(row.idle, Life)
           g1 == [row EXCEPT !.life = n]
           g2 == [g1 EXCEPT !.age = 1]
           g3 == [g2 EXCEPT !.idle = m]
<1>1. row.life \in 0..Life /\ row.idle \in 0..Life /\ Life \in Nat
  BY DEF Rows, SessionsAssumption
<1>2. n \in 0..Life /\ m \in 0..Life /\ 1 \in 0..1
  BY <1>1 DEF Later
<1>3. Aged(row) = g3
  BY DEF Aged
<1> HIDE DEF n, m
<1>4. g1 \in Rows
  BY <1>2 DEF Rows
<1> HIDE DEF g1
<1>5. g2 \in Rows
  BY <1>2, <1>4 DEF Rows
<1> HIDE DEF g2
<1>6. g3 \in Rows
  BY <1>2, <1>5 DEF Rows
<1>7. /\ Aged(row).kind = row.kind /\ Aged(row).owner = row.owner /\ Aged(row).acts = row.acts
      /\ Aged(row).live = row.live /\ Aged(row).age = 1
  BY DEF Rows, Aged
<1>8. Aged(row).life = n /\ Aged(row).idle = m
  BY DEF Rows, Aged, n, m
<1> QED
  BY <1>3, <1>6, <1>7, <1>8 DEF n, m

\* What nobody asks for: an invitation, time, a token's deadline, the cleanup.
LEMMA RestTyped ==
    ASSUME SessionsAssumption, TypeOK, Placed,
           \/ \E a \in Accounts, t \in Tenants : Invite(a, t)
           \/ \E c \in 1..issued : Expire(c) \/ hourly_session_cleanup(c)
           \/ Tick
    PROVE  TypeOK' /\ Placed'
<1>0. issued \in Nat /\ cred \in Table(issued) /\ Sets /\ Tables /\ changes \in Nat /\ MaxChanges \in Nat
  BY Typed DEF Tables, Sets, SessionsAssumption
<1>1. ASSUME NEW a \in Accounts, NEW t \in Tenants, Invite(a, t) PROVE TypeOK' /\ Placed'
  <2>1. Sets'
    BY <1>0, <1>1 DEF Invite, Change, Sets
  <2>2. Tables' /\ Placed'
    BY <1>0, <1>1 DEF Invite, Tables, Placed, There
  <2> QED
    BY <2>1, <2>2, Typed
<1>2. ASSUME NEW c \in 1..issued, hourly_session_cleanup(c) PROVE TypeOK' /\ Placed'
  <2>1. UNCHANGED <<people, issued, request, cut>> /\ cred' = [cred EXCEPT ![c] = Purged]
    BY <1>2 DEF hourly_session_cleanup
  <2>2. Sets' /\ Tables'
    BY <1>0, <2>1 DEF Sets, Tables, Table, people
  <2>3. \A d \in 1..issued : d # c => cred'[d] = cred[d]
    BY <1>0, <2>1 DEF Table
  <2>4. \A r \in Requests : request[r].cred # c
    BY <1>2 DEF hourly_session_cleanup
  <2>5. Placed'
    BY <2>1, <2>3, <2>4 DEF Placed, There
  <2> QED
    BY <2>2, <2>5, Typed
<1>4. ASSUME NEW c \in 1..issued, Expire(c) PROVE TypeOK' /\ Placed'
  <2>1. UNCHANGED <<people, issued, request, cut>> /\ cred' = [cred EXCEPT ![c] = [cred[c] EXCEPT !.life = 0]]
    BY <1>4 DEF Expire
  <2>2. cred[c] \in Rows
    BY <1>0, <1>4 DEF Expire, Table, Purged
  <2>3. [cred[c] EXCEPT !.life = 0] \in Rows /\ [cred[c] EXCEPT !.life = 0].kind = cred[c].kind
    BY <2>2 DEF Rows, SessionsAssumption
  <2>4. Sets' /\ Tables' /\ \A d \in 1..issued : There(d) => There(d)'
    BY <1>0, <2>1, <2>3 DEF Sets, Tables, Table, people, There
  <2>5. Placed'
    BY <2>1, <2>4 DEF Placed, There
  <2> QED
    BY <2>4, <2>5, Typed
<1>3. CASE Tick
  <2>1. UNCHANGED <<people, issued, cut>>
    BY <1>3 DEF Tick
  <2>2. \A c \in 1..issued : cred[c] \in Rows \/ cred[c] = Purged
    BY <1>0 DEF Table
  <2>3. cred' = [c \in 1..issued |-> IF cred[c].kind = "session" THEN Aged(cred[c]) ELSE cred[c]]
    BY <1>3 DEF Tick, Aged
  <2>4. cred' \in Table(issued) /\ \A c \in 1..issued : There(c) => There(c)'
    <3>1. ASSUME NEW c \in 1..issued
          PROVE  cred'[c] \in Rows \cup {Purged} /\ (There(c) => There(c)')
      <4>1. CASE cred[c].kind = "session"
        <5>1. cred[c] \in Rows
          BY <2>2, <4>1 DEF Purged
        <5>2. cred'[c] = Aged(cred[c]) /\ Aged(cred[c]) \in Rows /\ Aged(cred[c]).kind = cred[c].kind
          BY <2>3, <4>1, <5>1, AgedFits
        <5> QED
          BY <4>1, <5>2 DEF There
      <4>2. CASE cred[c].kind # "session"
        BY <2>2, <2>3, <4>2 DEF There
      <4> QED
        BY <4>1, <4>2
    <3> QED
      BY <2>3, <3>1 DEF Table
  <2>5. ASSUME NEW r \in Requests
        PROVE  /\ request'[r] \in Frames /\ request'[r].at = request[r].at /\ request'[r].who = request[r].who
               /\ request'[r].cred = request[r].cred /\ request'[r].edit = request[r].edit
    <3>1. request[r] \in Frames
      BY DEF TypeOK
    <3>2. request'[r] = IF request[r].at = "resolved" THEN [request[r] EXCEPT !.age = 1] ELSE request[r]
      BY <1>3 DEF Tick
    <3>3. [request[r] EXCEPT !.age = 1] \in Frames
      BY <3>1, Fields
    <3> QED
      BY <3>1, <3>2, <3>3 DEF Frames
  <2>6. request' \in [Requests -> Frames]
    BY <1>3, <2>5 DEF Tick
  <2>7. Sets' /\ Tables'
    BY <1>0, <2>1, <2>4, <2>6 DEF Sets, Tables, people
  <2>8. Placed'
    BY <2>1, <2>4, <2>5 DEF Placed, There
  <2> QED
    BY <2>7, <2>8, Typed
<1> QED
  BY <1>1, <1>2, <1>3, <1>4

LEMMA TypeStep ==
    ASSUME SessionsAssumption, TypeOK, Placed, [Next]_vars PROVE TypeOK' /\ Placed'
<1>1. CASE UNCHANGED vars
  <2>1. Sets' /\ Tables'
    BY <1>1, Typed DEF vars, Sets, Tables
  <2>2. Placed'
    BY <1>1 DEF vars, Placed, There
  <2> QED
    BY <2>1, <2>2, Typed
<1>2. CASE Next
  BY <1>2, SignInTyped, GateTyped, RouteTyped, AdminTyped, RestTyped DEF Next
<1> QED
  BY <1>1, <1>2
-----------------------------------------------------------------------------
(* What a step does to the rows.                                            *)

\* A row stays, perhaps revoked; or its timer starts again; or it ages; or it is a token and its
\* deadline comes; or it is purged.
RowMoves(c) ==
    \/ /\ cred'[c].kind = cred[c].kind /\ cred'[c].acts = cred[c].acts
       /\ cred'[c].life = cred[c].life /\ cred'[c].age = cred[c].age /\ cred'[c].idle = cred[c].idle
       /\ cred'[c].live => cred[c].live
    \/ /\ cred'[c].kind = cred[c].kind /\ cred'[c].acts = cred[c].acts
       /\ cred'[c].life = Life /\ cred'[c].age = 0 /\ cred'[c].idle = 0
       /\ cred'[c].live => cred[c].live
    \/ Tick /\ cred[c] \in Rows /\ cred'[c] = Aged(cred[c])
    \/ /\ cred'[c].kind = "token" /\ cred[c].kind = "token" /\ cred'[c].acts = cred[c].acts
       /\ cred'[c].age = cred[c].age /\ cred'[c].live = cred[c].live
    \/ cred'[c] = Purged
RowsMove ==
    /\ issued' \in Nat /\ issued' >= issued /\ cut \subseteq cut'
    /\ \A c \in 1..issued : RowMoves(c)
    /\ \A c \in 1..issued' : c \notin 1..issued => cred'[c].life = Life /\ cred'[c].idle = 0
    /\ \A c \in cut' : c \in cut \/ Dead(c)'

LEMMA RowsStay == ASSUME SessionsAssumption, TypeOK, UNCHANGED <<cred, issued, cut>> PROVE RowsMove
<1>1. issued \in Nat
  BY DEF TypeOK, SessionsAssumption
<1> QED
  BY <1>1 DEF RowsMove, RowMoves

LEMMA RowsRevoked ==
    ASSUME SessionsAssumption, TypeOK, NEW C, NEW D, \A c \in C : cred[c] \in Rows,
           cred' = Revoked(C), cut' = cut \cup D, issued' = issued, \A d \in D : Dead(d)'
    PROVE  RowsMove
<1>1. issued \in Nat
  BY DEF TypeOK, SessionsAssumption
<1>2. \A c \in 1..issued : RowMoves(c)
  BY Revokes DEF RowMoves
<1> QED
  BY <1>1, <1>2 DEF RowsMove

LEMMA RowsIssued ==
    ASSUME SessionsAssumption, TypeOK, NEW kind \in {"session", "token"}, NEW a \in Accounts,
           NEW t \in Tenants, NEW code \in BOOLEAN,
           NEW C \in SUBSET (1..issued), \A c \in C : cred[c] \in Rows,
           NEW base \in Table(issued), base = Revoked(C),
           Issue(kind, a, t, code, base), cut' = cut \cup C
    PROVE  RowsMove
<1>1. \A c \in 1..issued :
             /\ base[c].kind = cred[c].kind /\ base[c].acts = cred[c].acts /\ base[c].life = cred[c].life
             /\ base[c].age = cred[c].age /\ base[c].idle = cred[c].idle
             /\ c \in C => ~base[c].live
             /\ base[c].live => cred[c].live
  BY Revokes
<1>2. /\ issued' = issued + 1 /\ \A c \in 1..issued : cred'[c] = base[c]
      /\ cred'[issued'] = [kind |-> kind, owner |-> a, acts |-> t, code |-> code, live |-> TRUE,
                           life |-> Life, age |-> 0, idle |-> 0]
  BY Issues
<1>3. cred'[issued'].life = Life /\ cred'[issued'].idle = 0
  BY <1>2
<1>7. issued \in Nat
  BY DEF TypeOK, SessionsAssumption
<1>4. \A c \in 1..issued : RowMoves(c)
  BY <1>1, <1>2 DEF RowMoves
<1>5. \A c \in C : Dead(c)'
  BY <1>1, <1>2 DEF Dead
<1>6. \A c \in 1..issued' : c \notin 1..issued => c = issued'
  BY <1>2, <1>7
<1>8. issued' \in Nat /\ issued' >= issued /\ cut \subseteq cut'
  BY <1>2, <1>7
<1>9. \A c \in 1..issued' : c \notin 1..issued => cred'[c].life = Life /\ cred'[c].idle = 0
  BY <1>3, <1>6
<1>10. \A c \in cut' : c \in cut \/ Dead(c)'
  <2>1. \A c \in cut' : c \in cut \/ c \in C
    OBVIOUS
  <2> QED
    BY <1>5, <2>1
<1> QED
  BY <1>4, <1>8, <1>9, <1>10 DEF RowsMove

\* What a reset or a disabled account cuts is dead, but for tokens from elsewhere.
LEMMA HeldIsDead ==
    ASSUME TypeOK, NEW a, cred' = Revoked(SessionsOf(a) \cup TokensOf(a))
    PROVE  \A d \in Held(a) : Dead(d)'
<1> DEFINE C == SessionsOf(a) \cup TokensOf(a)
<1>1. \A c \in C : cred[c] \in Rows
  BY Revocable
<1>2. ASSUME NEW d \in Held(a) PROVE Dead(d)'
  <2>1. d \in 1..issued /\ cred[d].owner = a /\ (cred[d] \in Rows \/ cred[d] = Purged)
    BY DEF Held, TypeOK
  <2>2. d \in C \/ ~There(d) \/ (cred[d].kind = "token" /\ cred[d].acts # Main)
    BY <2>1 DEF SessionsOf, TokensOf, OfKind, Rows, Purged, There
  <2> HIDE DEF C
  <2>3. /\ Revoked(C)[d].kind = cred[d].kind /\ Revoked(C)[d].acts = cred[d].acts
        /\ d \in C => ~Revoked(C)[d].live
    BY <1>1, <2>1, Revokes
  <2>4. cred' = Revoked(C)
    BY DEF C
  <2> QED
    BY <2>2, <2>3, <2>4 DEF Dead, There
<1> QED
  BY <1>2

\* What is revoked is dead.
LEMMA RevokedIsDead ==
    ASSUME TypeOK, NEW C \in SUBSET (1..issued), \A c \in C : cred[c] \in Rows, cred' = Revoked(C)
    PROVE  \A d \in C : Dead(d)'
  BY Revokes DEF Dead

LEMMA RowStep ==
    ASSUME SessionsAssumption, TypeOK, Placed, FreshIsWhole, Next PROVE RowsMove
<1>0. issued \in Nat /\ cred \in Table(issued)
  BY Typed DEF Tables, SessionsAssumption
<1>1. Revoked({}) = cred /\ cut \cup {} = cut
  BY <1>0 DEF Revoked, Table
<1>2. ASSUME NEW r \in Requests,
             \/ AnswerChallenge(r) \/ _authenticate_bearer(r) \/ Answer(r) \/ enrol(r) \/ confirm(r)
             \/ (\E p \in Policies : put_mfa_policy(r, p))
             \/ (\E a \in Accounts : SignIn(r, a))
             \/ (\E a \in Accounts, then \in SUBSET Roles, up \in BOOLEAN : Weigh(r, a, then, up))
             \/ (\E c \in 1..issued : resolve(r, c))
      PROVE  RowsMove
  <2>1. UNCHANGED <<cred, issued, cut>>
    BY <1>2 DEF AnswerChallenge, _authenticate_bearer, Answer, enrol, confirm, put_mfa_policy, SignIn, Weigh,
       resolve
  <2> QED
    BY <2>1, RowsStay
<1>3. ASSUME NEW a \in Accounts, NEW t \in Tenants, Invite(a, t) PROVE RowsMove
  BY <1>3, RowsStay DEF Invite
<1>4. ASSUME NEW r \in Requests, OpenSession(r) PROVE RowsMove
  <2>1. CASE UNCHANGED <<cred, issued>>
    BY <1>4, <2>1, RowsStay DEF OpenSession
  <2>2. CASE Issue("session", request[r].who, Main, request[r].at = "code", cred)
    <3>0. (request[r].at = "code") \in BOOLEAN
      OBVIOUS
    <3>1. PICK b \in Accounts, t \in Tenants, code \in BOOLEAN, base \in Table(issued) :
            b = request[r].who /\ t = Main /\ code = (request[r].at = "code") /\ base = cred
      BY <1>0, <1>4, <3>0 DEF OpenSession, Placed, SessionsAssumption
    <3>2. Issue("session", b, t, code, base) /\ base = Revoked({}) /\ cut' = cut \cup {}
      BY <1>1, <1>4, <2>2, <3>1 DEF OpenSession, Issue
    <3> QED
      BY <3>2, RowsIssued
  <2> QED
    BY <1>4, <2>1, <2>2 DEF OpenSession
<1>5. ASSUME NEW r \in Requests, _authenticate_session(r) PROVE RowsMove
  <2> DEFINE c == request[r].cred
  <2>1. /\ request[r].at = "resolved" /\ issued' = issued /\ cred[c].kind = "session"
        /\ c \in 1..issued /\ cred[c] \in Rows
    BY <1>5, HeldRow DEF _authenticate_session
  <2>2. CASE /\ cred' = [cred EXCEPT ![c] = IF request[r].age = 1 THEN Touched(c) ELSE [@ EXCEPT !.idle = 0]]
             /\ cut' = cut
    <3>1. \A d \in 1..issued : d # c => cred'[d] = cred[d]
      BY <1>0, <2>1, <2>2 DEF Table
    <3>2. RowMoves(c)
      <4>1. CASE request[r].age = 1
        <5>1. cred'[c] = Touched(c)
          BY <1>0, <2>1, <2>2, <4>1 DEF Table
        <5> QED
          BY <2>1, <5>1 DEF Touched, RowMoves, Rows
      <4>2. CASE request[r].age # 1
        <5>1. cred'[c] = [cred[c] EXCEPT !.idle = 0]
          BY <1>0, <2>1, <2>2, <4>2 DEF Table
        <5>2. request[r].age = 0
          BY <4>2 DEF TypeOK, Frames
        <5>3. cred[c].age = 0 /\ cred[c].life = Life
          BY <2>1, <5>2 DEF FreshIsWhole
        <5> QED
          BY <2>1, <5>1, <5>3 DEF RowMoves, Rows
      <4> QED
        BY <4>1, <4>2
    <3>3. \A d \in 1..issued : RowMoves(d)
      BY <3>1, <3>2 DEF RowMoves
    <3> QED
      BY <1>0, <2>1, <2>2, <3>3 DEF RowsMove
  <2>3. CASE cred' = Revoked({c}) /\ cut' = cut \cup {c}
    BY <2>1, <2>3, RowsRevoked, RevokedIsDead
  <2> QED
    BY <1>5, <2>2, <2>3 DEF _authenticate_session
<1>6. ASSUME NEW r \in Requests, logout(r) PROVE RowsMove
  <2>1. request[r].cred \in 1..issued /\ cred[request[r].cred] \in Rows
    BY <1>6, HeldRow DEF logout
  <2> QED
    BY <1>6, <2>1, RowsRevoked, RevokedIsDead DEF logout
<1>7. ASSUME NEW r \in Requests, change_password(r) PROVE RowsMove
  <2> DEFINE others == SessionsOf(request[r].who) \ {request[r].cred}
  <2>1. cred' = Revoked(others) /\ cut' = cut \cup others /\ issued' = issued
    BY <1>7 DEF change_password
  <2>2. others \in SUBSET (1..issued) /\ \A d \in others : cred[d] \in Rows
    BY Revocable
  <2> HIDE DEF others
  <2> QED
    BY <2>1, <2>2, RowsRevoked, RevokedIsDead
<1>8. ASSUME NEW r \in Requests, NEW t \in Tenants, switch_tenant(r, t) PROVE RowsMove
  <2> DEFINE c == request[r].cred
  <2>1. c \in 1..issued /\ cred[c] \in Rows /\ request[r].who \in Accounts
    BY <1>8, HeldRow DEF switch_tenant, BySession, Placed
  <2>5. Revoked({c}) \in Table(issued)
    BY <2>1, Revokes
  <2>2. PICK b \in Accounts, code \in BOOLEAN, base \in Table(issued), C \in SUBSET (1..issued) :
            b = request[r].who /\ code = cred[c].code /\ base = Revoked({c}) /\ C = {c}
    BY <2>1, <2>5 DEF Rows
  <2>3. Issue("session", b, t, code, base) /\ cut' = cut \cup C /\ base = Revoked(C)
    BY <1>8, <2>2 DEF switch_tenant, Issue
  <2>4. \A d \in C : cred[d] \in Rows
    BY <2>1, <2>2
  <2> QED
    BY <2>3, <2>4, RowsIssued
<1>9. ASSUME NEW r \in Requests, create_token(r) PROVE RowsMove
  <2>1. PICK b \in Accounts, t \in Tenants, base \in Table(issued) :
            b = request[r].who /\ t = request[r].tenant /\ base = cred
    BY <1>0, <1>9 DEF create_token, BySession, Placed, TypeOK, Frames
  <2>2. Issue("token", b, t, FALSE, base) /\ base = Revoked({}) /\ cut' = cut \cup {}
    BY <1>1, <1>9, <2>1 DEF create_token, Issue
  <2> QED
    BY <2>2, RowsIssued
<1>10. ASSUME NEW r \in Requests, NEW d \in 1..issued, revoke_token(r, d) PROVE RowsMove
  <2>1. cred[d] \in Rows
    <3>1. cred[d] \in Rows \cup {Purged} /\ cred[d].kind = "token"
      BY <1>10 DEF revoke_token, OfKind, TypeOK
    <3> QED
      BY <3>1 DEF Purged
  <2> QED
    BY <1>10, <2>1, RowsRevoked, RevokedIsDead DEF revoke_token
<1>11. ASSUME NEW r \in Requests, NEW a \in Accounts, reset_password(r, a) PROVE RowsMove
  BY <1>11, RowsRevoked, Revocable, HeldIsDead DEF reset_password
<1>12. ASSUME NEW r \in Requests, NEW a \in Accounts, remove_second_factor(r, a) PROVE RowsMove
  BY <1>12, RowsRevoked, Revocable, RevokedIsDead DEF remove_second_factor
<1>13. ASSUME NEW r \in Requests, update_account(r) PROVE RowsMove
  <2> DEFINE e == request[r].edit
             a == e.target
  <2>1. issued' = issued
    BY <1>13 DEF update_account
  <2>2. CASE Disables(e)
    <3>1. cred' = Revoked(SessionsOf(a) \cup TokensOf(a)) /\ cut' = cut \cup Held(a)
      BY <1>13, <2>2 DEF update_account
    <3> QED
      BY <2>1, <3>1, RowsRevoked, Revocable, HeldIsDead
  <2>3. CASE ~Disables(e)
    <3>1. UNCHANGED <<cred, issued, cut>>
      BY <1>1, <1>13, <2>3 DEF update_account
    <3> QED
      BY <3>1, RowsStay
  <2> QED
    BY <2>2, <2>3
<1>14. ASSUME NEW c \in 1..issued, hourly_session_cleanup(c) PROVE RowsMove
  <2>1. \A d \in 1..issued : RowMoves(d)
    BY <1>0, <1>14 DEF hourly_session_cleanup, RowMoves, Table
  <2> QED
    BY <1>0, <1>14, <2>1 DEF hourly_session_cleanup, RowsMove
<1>16. ASSUME NEW c \in 1..issued, Expire(c) PROVE RowsMove
  <2>1. cred' = [cred EXCEPT ![c] = [cred[c] EXCEPT !.life = 0]] /\ UNCHANGED <<issued, cut>>
    BY <1>16 DEF Expire
  <2>2. cred[c] \in Rows /\ cred[c].kind = "token"
    BY <1>0, <1>16 DEF Expire, Table, Purged
  <2>3. RowMoves(c)
    <3>1. cred'[c] = [cred[c] EXCEPT !.life = 0]
      BY <1>0, <2>1 DEF Table
    <3> QED
      BY <2>2, <3>1 DEF RowMoves, Rows
  <2>4. \A d \in 1..issued : RowMoves(d)
    BY <1>0, <2>1, <2>3 DEF RowMoves, Table
  <2> QED
    BY <1>0, <2>1, <2>4 DEF RowsMove
<1>15. CASE Tick
  <2>1. \A c \in 1..issued : RowMoves(c)
    <3>1. \A c \in 1..issued : cred[c] \in Rows \/ cred[c] = Purged
      BY <1>0 DEF Table
    <3>2. cred' = [c \in 1..issued |-> IF cred[c].kind = "session" THEN Aged(cred[c]) ELSE cred[c]]
      BY <1>15 DEF Tick, Aged
    <3> QED
      BY <1>15, <3>1, <3>2 DEF RowMoves, Purged
  <2>2. UNCHANGED <<issued, cut>>
    BY <1>15 DEF Tick
  <2> QED
    BY <1>0, <2>1, <2>2 DEF RowsMove
<1> QED
  BY <1>2, <1>3, <1>4, <1>5, <1>6, <1>7, <1>8, <1>9, <1>10, <1>11, <1>12, <1>13, <1>14, <1>15, <1>16
     DEF Next, authenticate
-----------------------------------------------------------------------------
(* What a step does to the requests.                                        *)

\* A request comes to the gate with a row that is in order, keeps what it found there while
\* time may pass, and is admitted with the row it came with.
FrameMoves(r) ==
    /\ request'[r].at = "resolved" =>
           \/ /\ request[r].at = "resolved" /\ request'[r].cred = request[r].cred
              /\ request'[r].late = request[r].late
              /\ request'[r].age = 0 => request[r].age = 0
           \/ /\ request'[r].cred \in 1..issued /\ UNCHANGED <<cred, issued, cut>>
              /\ There(request'[r].cred) /\ cred[request'[r].cred].live
              /\ request'[r].late = (request'[r].cred \in cut)
              /\ request'[r].age = cred[request'[r].cred].age
    /\ request'[r].at \in {"served", "enrolling", "editing"} =>
           \/ request[r].at \in {"served", "enrolling", "editing"} /\ request'[r].late = request[r].late
           \/ /\ request[r].at = "resolved" /\ request'[r].late = request[r].late
              /\ (cred[request[r].cred].kind = "session" \/ cred[request[r].cred].acts = Main)
    /\ request'[r].at = "editing" =>
           \/ request[r].at = "editing" /\ request'[r].edit = request[r].edit
           \/ request'[r].edit.stale
           \/ Weighed(request'[r].edit)

LEMMA FrameStep ==
    ASSUME SessionsAssumption, TypeOK, Placed, Next, NEW r \in Requests PROVE FrameMoves(r)
<1>0. request[r] \in Frames /\ Idle \in Frames /\ Idle.at = "idle"
  BY IdleFits DEF TypeOK, Idle
<1>1. CASE request'[r] = request[r]
  BY <1>1 DEF FrameMoves
<1>2. CASE request'[r].at \notin {"resolved", "served", "enrolling", "editing"}
  BY <1>2 DEF FrameMoves
<1>3. ASSUME NEW q \in Requests,
             \/ Answer(q) \/ OpenSession(q) \/ logout(q) \/ change_password(q) \/ create_token(q)
             \/ enrol(q) \/ confirm(q) \/ (\E p \in Policies : put_mfa_policy(q, p))
             \/ (\E t \in Tenants : switch_tenant(q, t))
             \/ (\E c \in 1..issued : revoke_token(q, c))
             \/ (\E a \in Accounts : reset_password(q, a))
      PROVE  To(q, Idle)
  BY <1>3 DEF Answer, OpenSession, logout, change_password, create_token, enrol, confirm, put_mfa_policy,
     switch_tenant, revoke_token, reset_password
<1>4. ASSUME NEW q \in Requests, NEW f \in Frames, To(q, f), q # r \/ f.at \notin {"resolved", "served", "enrolling", "editing"}
      PROVE  FrameMoves(r)
  <2>1. q # r => request'[r] = request[r]
    BY <1>4, Turns
  <2>2. q = r => request'[r] = f
    BY <1>4, Turns
  <2> QED
    BY <1>1, <1>2, <1>4, <2>1, <2>2
<1>5. ASSUME NEW q \in Requests, To(q, Idle) PROVE FrameMoves(r)
  BY <1>0, <1>4, <1>5
<1>6. ASSUME NEW q \in Requests, NEW a \in Accounts, SignIn(q, a) PROVE FrameMoves(r)
  <2> DEFINE at == IF factor[a] = "confirmed" THEN "challenged" ELSE "password"
             g == [Idle EXCEPT !.at = at]
             f == [g EXCEPT !.who = a]
  <2>1. To(q, f)
    BY <1>6 DEF SignIn
  <2>2. at \in {"challenged", "password"}
    OBVIOUS
  <2> HIDE DEF at
  <2>3. g \in Frames /\ g.at = at
    <3>1. g \in Frames
      BY <1>0, <2>2, Fields DEF Places
    <3> QED
      BY <1>0, <3>1 DEF Frames
  <2> HIDE DEF g
  <2>4. f \in Frames /\ f.at = at
    <3>1. f \in Frames
      BY <2>3, Fields
    <3>2. f.at = g.at
      BY <2>3 DEF Frames
    <3> QED
      BY <2>3, <3>1, <3>2
  <2> HIDE DEF f
  <2> QED
    BY <1>4, <2>1, <2>2, <2>4
<1>7. ASSUME NEW q \in Requests, AnswerChallenge(q) PROVE FrameMoves(r)
  <2> DEFINE g == [request[q] EXCEPT !.at = "code"]
             f == [g EXCEPT !.lost = FALSE]
  <2>1. To(q, f) \/ To(q, Idle)
    BY <1>7 DEF AnswerChallenge
  <2>2. request[q] \in Frames
    BY DEF TypeOK
  <2>3. g \in Frames /\ g.at = "code"
    <3>1. g \in Frames
      BY <2>2, Fields DEF Places
    <3> QED
      BY <2>2, <3>1 DEF Frames
  <2> HIDE DEF g
  <2>4. f \in Frames /\ f.at = "code"
    <3>1. f \in Frames
      BY <2>3, Fields
    <3>2. f.at = g.at
      BY <2>3 DEF Frames
    <3> QED
      BY <2>3, <3>1, <3>2
  <2> HIDE DEF f
  <2> QED
    BY <1>4, <1>5, <2>1, <2>4
<1>8. ASSUME NEW q \in Requests, NEW c \in 1..issued, resolve(q, c) PROVE FrameMoves(r)
  <2> DEFINE f == [Idle EXCEPT !.at = "resolved", !.cred = c, !.late = c \in cut, !.age = cred[c].age,
                               !.who = cred[c].owner]
  <2>1. There(c) /\ cred[c].live /\ UNCHANGED <<cred, issued, cut>> /\ request' = [request EXCEPT ![q] = f]
    BY <1>8 DEF resolve, To
  <2>2. f.at = "resolved" /\ f.cred = c /\ f.late = (c \in cut) /\ f.age = cred[c].age
    BY <1>0 DEF Frames
  <2> HIDE DEF f
  <2>3. q = r => request'[r] = f
    BY <2>1 DEF TypeOK
  <2>4. q # r => request'[r] = request[r]
    BY <2>1 DEF TypeOK
  <2> QED
    BY <1>1, <2>1, <2>2, <2>3, <2>4 DEF FrameMoves
<1>9. ASSUME NEW q \in Requests, authenticate(q) PROVE FrameMoves(r)
  <2> DEFINE c == request[q].cred
             a == cred[c].owner
             t == cred[c].acts
             at == IF enrolment_required(a, membership_roles(a, t), t) THEN "enrolling" ELSE "served"
             Admitted(where, can) ==
                 /\ Served(q, where, c, can) /\ request[q].at = "resolved"
                 /\ (cred[c].kind = "session" \/ cred[c].acts = Main)
  <2>1. \/ To(q, Idle)
        \/ at \in {"served", "enrolling"} /\ Admitted(at, membership_roles(a, t))
        \/ Admitted("served", roles[a])
    <3>1. at \in {"served", "enrolling"}
      OBVIOUS
    <3> HIDE DEF at
    <3>2. CASE _authenticate_session(q)
      <4>1. To(q, Idle) \/ (Served(q, at, c, membership_roles(a, t)) /\ cred[c].kind = "session")
        BY <3>2 DEF _authenticate_session, at
      <4> QED
        BY <3>1, <3>2, <4>1 DEF _authenticate_session
    <3>3. CASE _authenticate_bearer(q)
      BY <3>3 DEF _authenticate_bearer, Visible
    <3> QED
      BY <1>9, <3>2, <3>3 DEF authenticate
  <2> HIDE DEF at
  <2>2. CASE To(q, Idle)
    BY <1>5, <2>2
  <2>3. ASSUME NEW can, NEW where \in {"served", "enrolling"}, Admitted(where, can) PROVE FrameMoves(r)
    <3>1. /\ q # r => request'[r] = request[r]
          /\ q = r => /\ request'[r].at = where /\ request'[r].late = request[r].late
      <4>1. request' = [request EXCEPT ![q] = [request[q] EXCEPT !.at = where, !.age = 0,
                            !.saw = factor[cred[c].owner], !.tenant = cred[c].acts, !.can = can]]
        BY <2>3 DEF Served, To
      <4>2. request[q] \in Frames
        BY DEF TypeOK
      <4> QED
        BY <4>1, <4>2 DEF TypeOK, Frames
    <3> QED
      BY <1>1, <2>3, <3>1 DEF FrameMoves
  <2> HIDE DEF Admitted
  <2> QED
    BY <2>1, <2>2, <2>3
<1>10. ASSUME NEW q \in Requests, NEW a \in Accounts, NEW then \in SUBSET Roles, NEW up \in BOOLEAN,
              Weigh(q, a, then, up)
       PROVE  FrameMoves(r)
  <2> DEFINE e == [target |-> a, was |-> roles[a], wasUp |-> a \in active, then |-> then, up |-> up, stale |-> FALSE]
  <2>1. request[q].at = "served" /\ request' = [request EXCEPT ![q] = [request[q] EXCEPT !.at = "editing", !.edit = e]]
    BY <1>10 DEF Weigh, Administers, May, To
  <2>4. Weighed(e)
    BY <1>10 DEF Weigh, Allowed, Weighed
  <2> HIDE DEF e
  <2>2. request[q] \in Frames
    BY DEF TypeOK
  <2>3. /\ q # r => request'[r] = request[r]
        /\ q = r => /\ request'[r].at = "editing" /\ request'[r].late = request[r].late
                    /\ request'[r].edit = e
    BY <2>1, <2>2 DEF TypeOK, Frames
  <2> QED
    BY <1>1, <2>1, <2>3, <2>4 DEF FrameMoves
<1>11. ASSUME NEW q \in Requests, update_account(q) PROVE FrameMoves(r)
  <2>1. request'[r] = IF r = q THEN Idle
                      ELSE IF request[r].at = "editing" THEN [request[r] EXCEPT !.edit.stale = TRUE]
                      ELSE request[r]
    BY <1>11 DEF update_account
  <2>2. CASE r # q /\ request[r].at = "editing"
    <3>1. request'[r].at = "editing" /\ request'[r].late = request[r].late
      BY <1>0, <2>1, <2>2 DEF Frames
    <3>2. request'[r].edit = [request[r].edit EXCEPT !.stale = TRUE] /\ request[r].edit \in Edits
      BY <1>0, <2>1, <2>2 DEF Frames, Placed
    <3>3. request'[r].edit.stale
      BY <3>2 DEF Edits
    <3> QED
      BY <2>2, <3>1, <3>3 DEF FrameMoves
  <2> QED
    BY <1>0, <1>1, <1>2, <2>1, <2>2
<1>12. ASSUME NEW a \in Accounts, NEW t \in Tenants, Invite(a, t) PROVE FrameMoves(r)
  BY <1>1, <1>12 DEF Invite
<1>13. ASSUME NEW c \in 1..issued, hourly_session_cleanup(c) PROVE FrameMoves(r)
  BY <1>1, <1>13 DEF hourly_session_cleanup
<1>15. ASSUME NEW q \in Requests, NEW a \in Accounts, remove_second_factor(q, a) PROVE FrameMoves(r)
  <2>1. request'[r] \in {Idle, Bereft(request[r]), request[r]}
    BY <1>15 DEF remove_second_factor, Bereft
  <2>2. CASE request'[r] = Bereft(request[r])
    <3>1. /\ request'[r].at = request[r].at /\ request'[r].cred = request[r].cred
          /\ request'[r].late = request[r].late /\ request'[r].age = request[r].age
          /\ request'[r].edit = request[r].edit
      BY <1>0, <2>2, BereftFits
    <3> QED
      BY <3>1 DEF FrameMoves
  <2> QED
    BY <1>0, <1>1, <1>2, <2>1, <2>2
<1>16. ASSUME NEW c \in 1..issued, Expire(c) PROVE FrameMoves(r)
  BY <1>1, <1>16 DEF Expire
<1>14. CASE Tick
  <2>1. request'[r] = IF request[r].at = "resolved" THEN [request[r] EXCEPT !.age = 1] ELSE request[r]
    BY <1>14 DEF Tick
  <2>2. CASE request[r].at = "resolved"
    <3>1. /\ request'[r].at = "resolved" /\ request'[r].cred = request[r].cred
          /\ request'[r].late = request[r].late /\ request'[r].age = 1
      BY <1>0, <2>1, <2>2 DEF Frames
    <3> QED
      BY <2>2, <3>1 DEF FrameMoves
  <2> QED
    BY <1>1, <2>1, <2>2
<1> QED
  BY <1>3, <1>5, <1>6, <1>7, <1>8, <1>9, <1>10, <1>11, <1>12, <1>13, <1>14, <1>15, <1>16 DEF Next

-----------------------------------------------------------------------------
(* What was cut, and the timers.                                            *)

\* A row that is dead stays dead, and a row a request holds is not purged under it.
LEMMA CutStep ==
    ASSUME SessionsAssumption, TypeOK, Placed, CutIsDead, LateIsAbroad, CutIsFinal, FreshIsWhole, Next
    PROVE  CutIsDead' /\ LateIsAbroad' /\ CutIsFinal'
<1>1. RowsMove
  BY RowStep
<1>2. Placed'
  BY TypeStep
<1>3. issued \in Nat /\ cut \subseteq 1..issued
  BY DEF TypeOK, SessionsAssumption
<1>4. \A c \in 1..issued : There(c)' =>
          /\ cred'[c].kind = cred[c].kind /\ cred'[c].acts = cred[c].acts
          /\ cred'[c].live => cred[c].live
  <2>1. ASSUME NEW c \in 1..issued, There(c)', RowMoves(c)
        PROVE  /\ cred'[c].kind = cred[c].kind /\ cred'[c].acts = cred[c].acts
               /\ cred'[c].live => cred[c].live
    BY <2>1, AgedFits DEF RowMoves, There, Purged
  <2> QED
    BY <1>1, <2>1 DEF RowsMove
<1>5. CutIsDead'
  <2>1. ASSUME NEW c \in cut' PROVE Dead(c)'
    <3>1. CASE c \in cut
      <4>1. Dead(c) /\ c \in 1..issued
        BY <1>3, <3>1 DEF CutIsDead
      <4>2. There(c)' => There(c)
        BY <1>4, <4>1 DEF There
      <4> QED
        BY <1>4, <4>1, <4>2 DEF Dead
    <3> QED
      BY <1>1, <3>1 DEF RowsMove
  <2> QED
    BY <2>1 DEF CutIsDead
<1>6. LateIsAbroad'
  <2>1. ASSUME NEW r \in Requests, request'[r].at = "resolved", request'[r].late
        PROVE  cred'[request'[r].cred].kind = "token" /\ cred'[request'[r].cred].acts # Main
    <3>1. FrameMoves(r)
      BY FrameStep
    <3>2. CASE /\ request[r].at = "resolved" /\ request'[r].cred = request[r].cred
               /\ request'[r].late = request[r].late
      <4>1. cred[request[r].cred].kind = "token" /\ cred[request[r].cred].acts # Main
        BY <2>1, <3>2 DEF LateIsAbroad
      <4>2. request[r].cred \in 1..issued /\ cred'[request'[r].cred].kind # "none"
        <5>1. cred'[request'[r].cred].kind # "none"
          BY <1>2, <2>1 DEF Placed, There
        <5>2. request[r].cred \in 1..issued
          BY <3>2 DEF Placed
        <5> QED
          BY <5>1, <5>2
      <4> QED
        BY <1>4, <3>2, <4>1, <4>2 DEF There
    <3>3. CASE /\ request'[r].cred \in 1..issued /\ UNCHANGED <<cred, issued, cut>>
               /\ There(request'[r].cred) /\ cred[request'[r].cred].live
               /\ request'[r].late = (request'[r].cred \in cut)
      BY <2>1, <3>3 DEF CutIsDead, Dead
    <3> QED
      BY <2>1, <3>1, <3>2, <3>3 DEF FrameMoves
  <2> QED
    BY <2>1 DEF LateIsAbroad
<1>7. CutIsFinal'
  <2>1. ASSUME NEW r \in Requests, request'[r].at \in {"served", "enrolling", "editing"} PROVE ~request'[r].late
    <3>1. FrameMoves(r)
      BY FrameStep
    <3> QED
      BY <2>1, <3>1 DEF FrameMoves, CutIsFinal, LateIsAbroad
  <2> QED
    BY <2>1 DEF CutIsFinal
<1> QED
  BY <1>5, <1>6, <1>7

LEMMA TimerStep ==
    ASSUME SessionsAssumption, TypeOK, Placed, FreshIsWhole, TimerFollowsUse, Next
    PROVE  FreshIsWhole' /\ TimerFollowsUse'
<1>1. RowsMove
  BY RowStep
<1>2. Placed'
  BY TypeStep
<1>3. issued \in Nat /\ Life \in Nat
  BY DEF TypeOK, SessionsAssumption
<1>4. ASSUME NEW c \in 1..issued, RowMoves(c), cred'[c].kind = "session"
      PROVE  /\ cred'[c].life = Life - cred'[c].idle
             /\ cred'[c].age = 0 => cred'[c].life = Life /\ (cred[c].age = 0 \/ cred'[c].life = Life)
  <2>1. CASE cred[c] \in Rows /\ cred'[c] = Aged(cred[c])
    <3>1. /\ cred'[c].kind = cred[c].kind /\ cred'[c].age = 1
          /\ cred'[c].life = (IF cred[c].life = 0 THEN 0 ELSE cred[c].life - 1)
          /\ cred'[c].idle = Later(cred[c].idle, Life)
      BY <2>1, AgedFits
    <3>2. cred[c].life = Life - cred[c].idle /\ cred[c].life \in 0..Life /\ cred[c].idle \in 0..Life
      BY <1>4, <2>1, <3>1 DEF TimerFollowsUse, Rows
    <3> QED
      BY <1>3, <3>1, <3>2 DEF Later
  <2>2. CASE /\ cred'[c].kind = cred[c].kind
             /\ cred'[c].life = cred[c].life /\ cred'[c].age = cred[c].age /\ cred'[c].idle = cred[c].idle
    BY <1>4, <2>2 DEF FreshIsWhole, TimerFollowsUse
  <2>3. CASE cred'[c].life = Life /\ cred'[c].age = 0 /\ cred'[c].idle = 0
    BY <1>3, <2>3
  <2>4. CASE cred'[c] = Purged
    BY <1>4, <2>4 DEF Purged
  <2> QED
    BY <1>4, <2>1, <2>2, <2>3, <2>4 DEF RowMoves
<1>5. ASSUME NEW c \in 1..issued', cred'[c].kind = "session"
      PROVE  cred'[c].life = Life - cred'[c].idle /\ (cred'[c].age = 0 => cred'[c].life = Life)
  <2>1. CASE c \in 1..issued
    BY <1>1, <1>4, <1>5, <2>1 DEF RowsMove
  <2>2. CASE c \notin 1..issued
    BY <1>1, <1>3, <2>2 DEF RowsMove
  <2> QED
    BY <2>1, <2>2
<1>6. ASSUME NEW r \in Requests, request'[r].at = "resolved", request'[r].age = 0
      PROVE  cred'[request'[r].cred].age = 0
  <2>1. FrameMoves(r)
    BY FrameStep
  <2>2. CASE /\ request[r].at = "resolved" /\ request'[r].cred = request[r].cred
             /\ request[r].age = 0
    <3> DEFINE c == request[r].cred
    <3>1. c \in 1..issued /\ cred[c].age = 0 /\ There(c)'
      BY <1>2, <1>6, <2>2 DEF Placed, FreshIsWhole, There
    <3>2. ~Tick
      <4>1. ASSUME Tick PROVE FALSE
        <5>1. request'[r] = [request[r] EXCEPT !.age = 1] /\ request[r] \in Frames
          BY <2>2, <4>1 DEF Tick, TypeOK
        <5> QED
          BY <1>6, <5>1 DEF Frames
      <4> QED
        BY <4>1
    <3>3. RowMoves(c)
      BY <1>1, <3>1 DEF RowsMove
    <3> QED
      BY <2>2, <3>1, <3>2, <3>3 DEF RowMoves, There, Purged
  <2>3. CASE UNCHANGED cred /\ request'[r].age = cred[request'[r].cred].age
    BY <1>6, <2>3
  <2> QED
    BY <1>6, <2>1, <2>2, <2>3 DEF FrameMoves
<1> QED
  BY <1>5, <1>6 DEF FreshIsWhole, TimerFollowsUse

-----------------------------------------------------------------------------
(* Administrators.                                                          *)

\* Only an edit changes who may administer.
LEMMA OnlyEdits ==
    ASSUME Next, \A q \in Requests : ~update_account(q)
    PROVE  UNCHANGED <<roles, active, overlapped>>
<1>1. ASSUME NEW q \in Requests,
             \/ AnswerChallenge(q) \/ OpenSession(q) \/ authenticate(q) \/ Answer(q) \/ logout(q)
             \/ change_password(q) \/ create_token(q) \/ enrol(q) \/ confirm(q)
             \/ \E p \in Policies : put_mfa_policy(q, p)
      PROVE  UNCHANGED <<roles, active, overlapped>>
  BY <1>1 DEF AnswerChallenge, OpenSession, authenticate, _authenticate_session, _authenticate_bearer, Answer,
     logout, change_password, create_token, enrol, confirm, put_mfa_policy, people
<1>2. ASSUME NEW q \in Requests, NEW a \in Accounts,
             \/ SignIn(q, a) \/ reset_password(q, a) \/ remove_second_factor(q, a)
             \/ \E then \in SUBSET Roles, up \in BOOLEAN : Weigh(q, a, then, up)
      PROVE  UNCHANGED <<roles, active, overlapped>>
  BY <1>2 DEF SignIn, reset_password, remove_second_factor, Weigh, people
<1>3. ASSUME NEW q \in Requests,
             (\E t \in Tenants : switch_tenant(q, t)) \/ (\E c \in 1..issued : resolve(q, c) \/ revoke_token(q, c))
      PROVE  UNCHANGED <<roles, active, overlapped>>
  BY <1>3 DEF switch_tenant, resolve, revoke_token, people
<1>4. CASE \/ \E a \in Accounts, t \in Tenants : Invite(a, t)
           \/ \E c \in 1..issued : Expire(c) \/ hourly_session_cleanup(c)
           \/ Tick
  BY <1>4 DEF Invite, Expire, hourly_session_cleanup, Tick, people
<1> QED
  BY <1>1, <1>2, <1>3, <1>4 DEF Next

LEMMA EditStep ==
    ASSUME SessionsAssumption, TypeOK, Placed, EditsWeighed, AdminsRemain, Next
    PROVE  EditsWeighed' /\ AdminsRemain'
<1>1. CASE \A q \in Requests : ~update_account(q)
  <2>1. UNCHANGED <<roles, active, overlapped>>
    BY <1>1, OnlyEdits
  <2>2. _active_admin_ids' = _active_admin_ids
    BY <2>1 DEF _active_admin_ids
  <2>3. ASSUME NEW r \in Requests, request'[r].at = "editing", ~request'[r].edit.stale
        PROVE  Weighed(request'[r].edit)
    <3>1. FrameMoves(r)
      BY FrameStep
    <3> QED
      BY <2>3, <3>1 DEF FrameMoves, EditsWeighed
  <2>4. EditsWeighed'
    <3>1. ASSUME NEW e, Weighed(e)
          PROVE  /\ e.was = roles'[e.target] /\ e.wasUp = (e.target \in active')
                 /\ Demotes(e) \/ Disables(e) => _active_admin_ids' \ {e.target} # {}
      BY <2>1, <2>2, <3>1 DEF Weighed
    <3> QED
      BY <2>1, <2>2, <2>3, <3>1 DEF EditsWeighed, Weighed
  <2> QED
    BY <2>1, <2>2, <2>4 DEF AdminsRemain
<1>2. ASSUME NEW q \in Requests, update_account(q) PROVE EditsWeighed' /\ AdminsRemain'
  <2> PICK e \in Edits : e = request[q].edit
    BY <1>2 DEF update_account, Placed
  <2>1. request[q].at = "editing"
    BY <1>2 DEF update_account
  <2>2. ASSUME NEW r \in Requests, request'[r].at = "editing" PROVE request'[r].edit.stale
    <3>1. request'[r] = IF r = q THEN Idle
                        ELSE IF request[r].at = "editing" THEN [request[r] EXCEPT !.edit.stale = TRUE]
                        ELSE request[r]
      BY <1>2 DEF update_account
    <3>2. r # q /\ request[r].at = "editing"
      BY <2>2, <3>1 DEF Idle
    <3>3. request'[r].edit = [request[r].edit EXCEPT !.stale = TRUE] /\ request[r].edit \in Edits
      BY <3>1, <3>2 DEF TypeOK, Frames, Placed
    <3> QED
      BY <3>3 DEF Edits
  <2>3. EditsWeighed'
    BY <2>2 DEF EditsWeighed
  <2>4. overlapped' = (overlapped \/ e.stale)
    BY <1>2 DEF update_account
  <2>5. ASSUME ~overlapped, ~e.stale PROVE _active_admin_ids' # {}
    <3> DEFINE a == e.target
    <3>1. a \in Accounts /\ e.was = roles[a] /\ e.wasUp = (a \in active)
          /\ (Demotes(e) \/ Disables(e) => _active_admin_ids \ {a} # {})
      BY <2>1, <2>5 DEF EditsWeighed, Weighed, Edits
    <3>2. /\ roles' = IF e.then = e.was THEN roles ELSE [roles EXCEPT ![a] = e.then]
          /\ active' = IF e.up = e.wasUp THEN active ELSE IF e.up THEN active \cup {a} ELSE active \ {a}
      <4>1. Kept(e) = {{}}
        BY <3>1 DEF Kept
      <4> QED
        BY <1>2, <4>1 DEF update_account
    <3>3. \A b \in Accounts : b # a => roles'[b] = roles[b] /\ (b \in active' <=> b \in active)
      BY <3>2 DEF TypeOK
    <3>4. active \subseteq Accounts
      BY DEF TypeOK
    <3>5. CASE Demotes(e) \/ Disables(e)
      <4>1. PICK b \in _active_admin_ids : b # a
        BY <3>1, <3>5
      <4> QED
        BY <3>3, <3>4, <4>1 DEF _active_admin_ids
    <3>6. CASE ~Demotes(e) /\ ~Disables(e)
      <4>1. PICK b \in _active_admin_ids : TRUE
        BY <2>5 DEF AdminsRemain
      <4>2. CASE b # a
        BY <3>3, <3>4, <4>1, <4>2 DEF _active_admin_ids
      <4>3. CASE b = a
        <5>1. a \in active /\ Admin \in roles[a]
          BY <4>1, <4>3 DEF _active_admin_ids
        <5>2. Admin \in roles'[a]
          BY <3>1, <3>2, <3>6, <5>1 DEF Demotes, TypeOK
        <5>3. a \in active'
          BY <3>1, <3>2, <3>6, <5>1 DEF Disables
        <5> QED
          BY <5>2, <5>3 DEF _active_admin_ids
      <4> QED
        BY <4>2, <4>3
    <3> QED
      BY <3>5, <3>6
  <2> QED
    BY <2>3, <2>4, <2>5 DEF AdminsRemain
<1> QED
  BY <1>1, <1>2

-----------------------------------------------------------------------------
LEMMA InitIInv == ASSUME SessionsAssumption, Init PROVE IInv
<1>1. TypeOK /\ Placed
  BY InitTyped
<1>2. \A r \in Requests : request[r].at = "idle"
  BY DEF Init, Idle
<1>3. issued = 0 /\ cut = {} /\ 1..issued = {}
  BY DEF Init
<1>4. CutIsDead /\ LateIsAbroad /\ CutIsFinal /\ FreshIsWhole /\ TimerFollowsUse /\ EditsWeighed
  BY <1>2, <1>3 DEF CutIsDead, LateIsAbroad, CutIsFinal, FreshIsWhole, TimerFollowsUse, EditsWeighed
<1>5. AdminsRemain
  <2>1. PICK a \in FirstAdmins : a \in Accounts
    BY DEF SessionsAssumption
  <2>2. a \in active /\ Admin \in roles[a]
    BY <2>1 DEF Init
  <2> QED
    BY <2>2 DEF AdminsRemain, _active_admin_ids
<1> QED
  BY <1>1, <1>4, <1>5 DEF IInv

LEMMA IInvStays == ASSUME SessionsAssumption, IInv, UNCHANGED vars PROVE IInv'
  BY DEF IInv, vars, TypeOK, Placed, There, CutIsDead, Dead, LateIsAbroad, CutIsFinal, FreshIsWhole,
     TimerFollowsUse, EditsWeighed, Weighed, AdminsRemain, _active_admin_ids

\* The invariant that induction needs holds throughout: what was cut is dead where its commit
\* could see it, a request that came for it found nothing or a token from elsewhere, time ages
\* a row and what a request holds of it alike, and an edit that no other has overtaken was
\* weighed against the accounts as they are.
THEOREM Inductive == ASSUME SessionsAssumption PROVE Spec => []IInv
<1>1. Init => IInv
  BY InitIInv
<1>2. IInv /\ [Next]_vars => IInv'
  <2>1. ASSUME IInv, Next PROVE IInv'
    BY <2>1, TypeStep, CutStep, TimerStep, EditStep DEF IInv
  <2> QED
    BY <2>1, IInvStays
<1> QED
  BY <1>1, <1>2, PTL DEF Spec

\* Whoever was logged out, switched, revoked, reset or disabled is not admitted again with what
\* he held; a session's timer follows its use although its row is seldom written; and edits of
\* accounts that do not overlap leave somebody who administers.
THEOREM SessionsAreSound == ASSUME SessionsAssumption PROVE Spec => []SessionsSound
<1>1. IInv => SessionsSound
  BY DEF IInv, SessionsSound
<1> QED
  BY <1>1, Inductive, PTL

\* Where there is one tenant, a token of an account in use is admitted whenever its row is found
\* in order: it takes a second tenant for a token to be refused where it was issued.
THEOREM TokensActAtHome ==
    ASSUME SessionsAssumption, Tenants = {Main} PROVE Spec => TokenActsWhereIssued
<1> DEFINE Admits(r) ==
        request[r].at = "resolved" /\ request'[r].at = "idle" /\ cred[request[r].cred].kind = "token"
            => cred[request[r].cred].owner \notin active
<1>1. TypeOK /\ Placed /\ [Next]_vars => [\A r \in Requests : Admits(r)]_vars
  <2> SUFFICES ASSUME TypeOK, Placed, Next, NEW r \in Requests,
                      request[r].at = "resolved", request'[r].at = "idle", cred[request[r].cred].kind = "token"
               PROVE  cred[request[r].cred].owner \notin active
    OBVIOUS
  <2>1. request[r].cred \in 1..issued /\ cred[request[r].cred] \in Rows
    BY HeldRow
  <2>2. Visible(request[r].cred)
    BY <2>1 DEF Rows, Visible
  <2>3. ASSUME NEW q \in Requests, NEW f, To(q, f), q # r PROVE FALSE
    BY <2>3 DEF To, TypeOK
  <2>4. ASSUME NEW q \in Requests,
               \/ AnswerChallenge(q) \/ OpenSession(q) \/ Answer(q) \/ change_password(q) \/ create_token(q)
               \/ enrol(q) \/ confirm(q) \/ logout(q)
               \/ \E p \in Policies : put_mfa_policy(q, p)
        PROVE  FALSE
    BY <2>3, <2>4 DEF AnswerChallenge, OpenSession, Answer, change_password, create_token, enrol, confirm,
       put_mfa_policy, logout, EnrolsAtHome, BySession, May
  <2>5. ASSUME NEW q \in Requests, NEW a \in Accounts,
               \/ SignIn(q, a) \/ reset_password(q, a)
               \/ \E then \in SUBSET Roles, up \in BOOLEAN : Weigh(q, a, then, up)
        PROVE  FALSE
    BY <2>3, <2>5 DEF SignIn, reset_password, Weigh, Administers, May
  <2>11. ASSUME NEW q \in Requests, NEW a \in Accounts, remove_second_factor(q, a) PROVE FALSE
    <3>1. r # q
      BY <2>11 DEF remove_second_factor, Administers, May
    <3>2. request'[r] \in {Bereft(request[r]), request[r]}
      BY <2>11, <3>1 DEF remove_second_factor, Bereft
    <3>3. request[r] \in Frames
      BY SMTT(30) DEF TypeOK
    <3> QED
      BY <3>2, <3>3, BereftFits
  <2>6. ASSUME NEW q \in Requests,
               \/ \E t \in Tenants : switch_tenant(q, t)
               \/ \E c \in 1..issued : resolve(q, c) \/ revoke_token(q, c)
        PROVE  FALSE
    BY <2>3, <2>6 DEF switch_tenant, resolve, revoke_token, BySession, May
  <2>7. ASSUME NEW q \in Requests, update_account(q) PROVE FALSE
    BY <2>7 DEF update_account
  <2>8. CASE Tick
    <3>1. request'[r] = [request[r] EXCEPT !.age = 1] /\ request[r] \in Frames
      BY <2>8 DEF Tick, TypeOK
    <3> QED
      BY <3>1 DEF Frames
  <2>9. CASE \/ \E a \in Accounts, t \in Tenants : Invite(a, t)
             \/ \E c \in 1..issued : Expire(c) \/ hourly_session_cleanup(c)
    BY <2>9 DEF Invite, Expire, hourly_session_cleanup
  <2>10. ASSUME NEW q \in Requests, authenticate(q) PROVE cred[request[r].cred].owner \notin active
    <3>1. q = r
      BY <2>3, <2>10 DEF authenticate, _authenticate_session, _authenticate_bearer, Served
    <3>2. _authenticate_bearer(r)
      BY <2>10, <3>1 DEF authenticate, _authenticate_session
    <3>3. CASE cred[request[r].cred].owner \in active
      <4>1. Served(r, "served", request[r].cred, roles[cred[request[r].cred].owner])
        BY <2>2, <3>2, <3>3 DEF _authenticate_bearer
      <4>2. request[r] \in Frames
        BY DEF TypeOK
      <4>3. request'[r].at = "served"
        BY <4>1, <4>2 DEF Served, To, TypeOK, Frames
      <4> QED
        BY <4>3
    <3> QED
      BY <3>3
  <2> QED
    BY <2>4, <2>5, <2>6, <2>7, <2>8, <2>9, <2>10, <2>11 DEF Next
<1>2. IInv => TypeOK /\ Placed
  BY DEF IInv
<1> QED
  BY <1>1, <1>2, Inductive, PTL DEF Spec, TokenActsWhereIssued
=============================================================================
