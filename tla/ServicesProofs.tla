--------------------------- MODULE ServicesProofs ---------------------------
(***************************************************************************)
(* Theorems about the systems of Services, one after the other, for all the *)
(* values of their parameters.  A step of Services is a step of one of them *)
(* or leaves it alone, so what a system's own steps keep is kept.           *)
(***************************************************************************)
EXTENDS Services, Queues, FiniteSetTheorems, SequenceTheorems, TLAPS

\* Nobody has an account.
Unclaimed == \A a \in Procs \cup {"env"} : ~accounts[a]

\* A process that is past the accounts' step holds a claim token unless somebody has an
\* account: ClaimIsOpen, with the two steps between the count and the end of the lifespan.
TokenIsHeld ==
    \A p \in Procs : pc[p] \in {"look", "add", "up", "claim"} /\ Unclaimed => token[p]

StartupInv == B!TypeOK /\ B!MigrationsInTurn /\ B!ReadableAtStart /\ TokenIsHeld

-----------------------------------------------------------------------------
\* The instance's counting of a set is counting.
LEMMA StartupCounts == \A T : B!Cardinality(T) = Cardinality(T) /\ B!IsFiniteSet(T) = IsFiniteSet(T)
  BY DEF B!Cardinality, Cardinality, B!IsFiniteSet, IsFiniteSet

\* The accounts are counted in one query: it finds none exactly where there is none.
LEMMA CountsNone == ASSUME IsFiniteSet(Procs), B!TypeOK PROVE B!account_count = 0 <=> Unclaimed
<1> DEFINE A == {a \in DOMAIN accounts : accounts[a]}
<1>1. DOMAIN accounts = Procs \cup {"env"}
  BY DEF B!TypeOK
<1>2. IsFiniteSet(Procs \cup {"env"})
  BY FS_AddElement
<1>3. IsFiniteSet(A)
  BY <1>1, <1>2, FS_Subset
<1>4. Cardinality(A) = 0 <=> A = {}
  BY <1>3, FS_EmptySet
<1>5. A = {} <=> Unclaimed
  BY <1>1 DEF Unclaimed
<1> QED
  BY <1>4, <1>5, StartupCounts DEF B!account_count

\* Releases and revisions are numbers.
LEMMA Releases ==
    ASSUME B!StartupAssumption, B!TypeOK
    PROVE  schema \in Nat /\ Oldest[schema] \in Nat /\ \A p \in Procs : image[p] \in Nat
<1>1. Images \subseteq Nat
  BY DEF B!StartupAssumption
<1>2. \A n \in Images \cup {0} : Oldest[n] \in Nat
  BY DEF B!StartupAssumption
<1>3. schema \in Images \cup {0} /\ \A p \in Procs : image[p] \in Images
  BY DEF B!TypeOK
<1>4. schema \in Nat
  <2>1. CASE schema = 0
    BY <2>1
  <2>2. CASE schema \in Images
    BY <1>1, <2>2
  <2> QED
    BY <1>3, <2>1, <2>2
<1>5. Oldest[schema] \in Nat
  BY <1>2, <1>3
<1>6. \A p \in Procs : image[p] \in Nat
  BY <1>1, <1>3
<1> QED
  BY <1>4, <1>5, <1>6

\* The database starts empty and every process down.
LEMMA StartupInit == ASSUME B!StartupAssumption, B!Init PROVE StartupInv
<1>1. B!TypeOK
  BY DEF B!StartupAssumption, B!Init, B!TypeOK, B!Booting
<1>2. B!MigrationsInTurn /\ B!ReadableAtStart /\ TokenIsHeld
  BY DEF B!Init, B!MigrationsInTurn, B!ReadableAtStart, TokenIsHeld
<1> QED
  BY <1>1, <1>2 DEF StartupInv

\* Every step keeps the shape of the rows and of the processes.
LEMMA StartupTypeStep == ASSUME B!StartupAssumption, B!TypeOK, [B!Next]_(B!vars) PROVE B!TypeOK'
<1> USE DEF B!TypeOK, B!To, B!rows, B!bounds, B!Booting
<1>1. ASSUME NEW p \in Procs, B!Boot(p) PROVE B!TypeOK'
  BY <1>1 DEF B!Boot
<1>2. ASSUME NEW p \in Procs, B!init_db(p) PROVE B!TypeOK'
  <2>1. CASE B!TakeLock(p)
    BY <2>1 DEF B!TakeLock
  <2>2. CASE B!_run_migrations(p)
    BY <2>2 DEF B!_run_migrations
  <2>3. CASE B!Unlock(p)
    BY <2>3 DEF B!Unlock
  <2> QED
    BY <1>2, <2>1, <2>2, <2>3 DEF B!init_db
<1>3. ASSUME NEW p \in Procs, B!bootstrap_tenants(p) PROVE B!TypeOK'
  BY <1>3 DEF B!bootstrap_tenants, B!ReadTenants, B!InsertTenants
<1>4. ASSUME NEW p \in Procs, B!bootstrap_accounts(p) PROVE B!TypeOK'
  <2>1. CASE B!CountAccounts(p)
    <3>1. CASE B!account_count > 0 \/ p \notin EnvAdmin
      <4>1. (B!account_count = 0) \in BOOLEAN
        OBVIOUS
      <4> QED
        BY <2>1, <3>1, <4>1 DEF B!CountAccounts
    <3>2. CASE ~(B!account_count > 0 \/ p \notin EnvAdmin)
      BY <2>1, <3>2 DEF B!CountAccounts
    <3> QED
      BY <3>1, <3>2
  <2>2. CASE B!CreateEnvAdmin(p)
    BY <2>2 DEF B!CreateEnvAdmin
  <2> QED
    BY <1>4, <2>1, <2>2 DEF B!bootstrap_accounts
<1>5. ASSUME NEW p \in Procs, B!migrate_legacy_siem_webhook(p) PROVE B!TypeOK'
  BY <1>5 DEF B!migrate_legacy_siem_webhook, B!CountDestinations, B!AddDestination
<1>6. ASSUME NEW p \in Procs, B!Claim(p) \/ B!setup(p) \/ B!SetupFails(p) PROVE B!TypeOK'
  BY <1>6 DEF B!Claim, B!setup, B!SetupFails
<1>7. ASSUME NEW p \in Procs, B!Edit(p) PROVE B!TypeOK'
  <2>1. others' \in BOOLEAN
    BY <1>7, ZenonT(20) DEF B!Edit
  <2>2. siem' \in Nat /\ operator' \in BOOLEAN
    BY <1>7 DEF B!Edit
  <2>3. UNCHANGED <<pc, image, schema, lock, tenants, accounts, token>>
    BY <1>7 DEF B!Edit
  <2> QED
    BY <2>1, <2>2, <2>3
<1>8. ASSUME NEW p \in Procs, B!Crash(p) PROVE B!TypeOK'
  BY <1>8 DEF B!Crash
<1>9. ASSUME NEW p \in Procs, B!Deploy(p) PROVE B!TypeOK'
  BY <1>9 DEF B!Deploy
<1>10. CASE UNCHANGED B!vars
  BY <1>10 DEF B!vars
<1> QED
  BY <1>1, <1>2, <1>3, <1>4, <1>5, <1>6, <1>7, <1>8, <1>9, <1>10 DEF B!Next, B!lifespan

\* Nobody migrates but the holder of the lock, so a schema is still what it was when the
\* process that holds the lock looked at it.
LEMMA TurnStep ==
    ASSUME B!StartupAssumption, B!TypeOK, B!MigrationsInTurn, B!ReadableAtStart, [B!Next]_(B!vars)
    PROVE  B!MigrationsInTurn' /\ B!ReadableAtStart'
<1> USE DEF B!TypeOK, B!MigrationsInTurn, B!ReadableAtStart, B!To, B!Booting
<1>1. ASSUME NEW p \in Procs, B!Boot(p) PROVE B!MigrationsInTurn' /\ B!ReadableAtStart'
  BY <1>1 DEF B!Boot
<1>2. ASSUME NEW p \in Procs, B!TakeLock(p) PROVE B!MigrationsInTurn' /\ B!ReadableAtStart'
  BY <1>2 DEF B!TakeLock, B!StartupAssumption
<1>3. ASSUME NEW p \in Procs, B!_run_migrations(p) PROVE B!MigrationsInTurn' /\ B!ReadableAtStart'
  <2>1. lock = p /\ UNCHANGED <<lock, image>>
    BY <1>3 DEF B!_run_migrations
  <2>2. \A q \in Procs \ {p} : pc'[q] \notin {"migrate", "unlock", "refuse"}
    BY <1>3, <2>1 DEF B!_run_migrations
  <2>3. CASE schema <= image[p]
    BY <1>3, <2>1, <2>2, <2>3 DEF B!_run_migrations
  <2>4. CASE ~(schema <= image[p])
    <3>1. schema \in Nat /\ image[p] \in Nat /\ Oldest[schema] \in Nat
      BY Releases
    <3>2. schema' = schema
      BY <1>3, <2>4 DEF B!_run_migrations
    <3>3. pc'[p] = "unlock" => Oldest[schema] # 0 /\ Oldest[schema] <= image[p] /\ image[p] < schema
      BY <1>3, <2>4, <3>1 DEF B!_run_migrations, B!_starts_on_a_newer_schema
    <3> QED
      BY <2>1, <2>2, <3>2, <3>3
  <2> QED
    BY <2>3, <2>4
<1>4. ASSUME NEW p \in Procs, B!Unlock(p) PROVE B!MigrationsInTurn' /\ B!ReadableAtStart'
  <2>1. \A q \in Procs \ {p} : pc[q] \notin {"migrate", "unlock", "refuse"}
    BY <1>4 DEF B!Unlock
  <2>2. pc' = [pc EXCEPT ![p] = pc'[p]] /\ pc'[p] \in {"tenants", "failed"}
    BY <1>4 DEF B!Unlock
  <2> QED
    BY <2>1, <2>2
<1>5. ASSUME NEW p \in Procs, B!bootstrap_tenants(p) PROVE B!MigrationsInTurn' /\ B!ReadableAtStart'
  BY <1>5 DEF B!bootstrap_tenants, B!ReadTenants, B!InsertTenants
<1>6. ASSUME NEW p \in Procs, B!bootstrap_accounts(p) PROVE B!MigrationsInTurn' /\ B!ReadableAtStart'
  BY <1>6 DEF B!bootstrap_accounts, B!CountAccounts, B!CreateEnvAdmin
<1>7. ASSUME NEW p \in Procs, B!migrate_legacy_siem_webhook(p) PROVE B!MigrationsInTurn' /\ B!ReadableAtStart'
  BY <1>7 DEF B!migrate_legacy_siem_webhook, B!CountDestinations, B!AddDestination
<1>8. ASSUME NEW p \in Procs, B!Claim(p) \/ B!setup(p) \/ B!SetupFails(p) PROVE B!MigrationsInTurn' /\ B!ReadableAtStart'
  BY <1>8 DEF B!Claim, B!setup, B!SetupFails
<1>9. ASSUME NEW p \in Procs, B!Edit(p) PROVE B!MigrationsInTurn' /\ B!ReadableAtStart'
  BY <1>9 DEF B!Edit
<1>10. ASSUME NEW p \in Procs, B!Crash(p) PROVE B!MigrationsInTurn' /\ B!ReadableAtStart'
  BY <1>10 DEF B!Crash
<1>11. ASSUME NEW p \in Procs, B!Deploy(p) PROVE B!MigrationsInTurn' /\ B!ReadableAtStart'
  BY <1>11 DEF B!Deploy
<1>12. CASE UNCHANGED B!vars
  BY <1>12 DEF B!vars
<1> QED
  BY <1>1, <1>2, <1>3, <1>4, <1>5, <1>6, <1>7, <1>8, <1>9, <1>10, <1>11, <1>12
     DEF B!Next, B!lifespan, B!init_db

\* A token is dropped only where its process made an account, or died with it.
LEMMA TokenStep ==
    ASSUME B!StartupAssumption, B!TypeOK, TokenIsHeld, [B!Next]_(B!vars)
    PROVE  TokenIsHeld'
<1> USE DEF B!TypeOK, TokenIsHeld, Unclaimed, B!To, B!Booting, B!rows
<1>1. ASSUME NEW p \in Procs, B!Boot(p) PROVE TokenIsHeld'
  BY <1>1 DEF B!Boot
<1>2. ASSUME NEW p \in Procs, B!init_db(p) PROVE TokenIsHeld'
  BY <1>2 DEF B!init_db, B!TakeLock, B!_run_migrations, B!Unlock
<1>3. ASSUME NEW p \in Procs, B!bootstrap_tenants(p) PROVE TokenIsHeld'
  BY <1>3 DEF B!bootstrap_tenants, B!ReadTenants, B!InsertTenants
<1>4. ASSUME NEW p \in Procs, B!CountAccounts(p) PROVE TokenIsHeld'
  <2>1. B!account_count = 0 <=> Unclaimed
    BY CountsNone, StartupCounts DEF B!StartupAssumption
  <2>2. CASE B!account_count > 0 \/ p \notin EnvAdmin
    <3>1. /\ token' = [token EXCEPT ![p] = B!account_count = 0]
          /\ pc' = [pc EXCEPT ![p] = "look"] /\ UNCHANGED accounts
      BY <1>4, <2>2 DEF B!CountAccounts
    <3>2. Unclaimed => token'[p]
      BY <2>1, <3>1
    <3>3. \A q \in Procs \ {p} : token'[q] = token[q] /\ pc'[q] = pc[q]
      BY <3>1
    <3> QED
      BY <3>1, <3>2, <3>3
  <2>3. CASE ~(B!account_count > 0 \/ p \notin EnvAdmin)
    BY <1>4, <2>3 DEF B!CountAccounts
  <2> QED
    BY <2>2, <2>3
<1>5. ASSUME NEW p \in Procs, B!CreateEnvAdmin(p) PROVE TokenIsHeld'
  BY <1>5 DEF B!CreateEnvAdmin
<1>6. ASSUME NEW p \in Procs, B!migrate_legacy_siem_webhook(p) PROVE TokenIsHeld'
  BY <1>6 DEF B!migrate_legacy_siem_webhook, B!CountDestinations, B!AddDestination
<1>7. ASSUME NEW p \in Procs, B!Claim(p) \/ B!SetupFails(p) PROVE TokenIsHeld'
  BY <1>7 DEF B!Claim, B!SetupFails
<1>8. ASSUME NEW p \in Procs, B!setup(p) PROVE TokenIsHeld'
  <2>1. accounts'[p]
    BY <1>8 DEF B!setup
  <2> QED
    BY <2>1
<1>9. ASSUME NEW p \in Procs, B!Edit(p) PROVE TokenIsHeld'
  BY <1>9 DEF B!Edit
<1>10. ASSUME NEW p \in Procs, B!Crash(p) PROVE TokenIsHeld'
  BY <1>10 DEF B!Crash
<1>11. ASSUME NEW p \in Procs, B!Deploy(p) PROVE TokenIsHeld'
  BY <1>11 DEF B!Deploy
<1>12. CASE UNCHANGED B!vars
  BY <1>12 DEF B!vars
<1> QED
  BY <1>1, <1>2, <1>3, <1>4, <1>5, <1>6, <1>7, <1>8, <1>9, <1>10, <1>11, <1>12
     DEF B!Next, B!lifespan, B!bootstrap_accounts

\* What a step of the composition is for the processes that start.
LEMMA StartupAlone == [Next]_vars => [B!Next]_(B!vars)
  BY DEF Next, vars, boot, B!vars, B!rows, B!bounds

\* Migrations run in turn, a process starts on a schema its release can read, and an
\* instance without an account offers its claim wherever it is up (init_db,
\* bootstrap_accounts, api/auth.setup).
THEOREM StartsSound == Spec => []StartupSound
<1>1. Init => StartupInv
  BY ServicesAssumption, StartupInit DEF Init
<1>2. StartupInv /\ [Next]_vars => StartupInv'
  BY ServicesAssumption, StartupAlone, StartupTypeStep, TurnStep, TokenStep DEF StartupInv
<1>3. StartupInv => StartupSound
  <2>1. B!TypeOK /\ TokenIsHeld => B!ClaimIsOpen
    BY ServicesAssumption, CountsNone, StartupCounts DEF B!StartupAssumption, TokenIsHeld, B!ClaimIsOpen
  <2> QED
    BY <2>1 DEF StartupInv, StartupSound, B!StartupSound
<1> QED
  BY <1>1, <1>2, <1>3, PTL DEF Spec

\* The schema never goes back, whichever image is deployed after which: an older image
\* that finds a newer schema starts on it or refuses, and migrates nothing.
THEOREM NeverDowngrades == Spec => ForwardOnly
<1>1. Init => B!TypeOK
  BY ServicesAssumption, StartupInit DEF Init, StartupInv
<1>2. B!TypeOK /\ [Next]_vars => B!TypeOK'
  BY ServicesAssumption, StartupAlone, StartupTypeStep
<1>3. B!TypeOK /\ [Next]_vars => [schema' >= schema]_(B!vars)
  <2> SUFFICES ASSUME B!TypeOK, B!Next PROVE schema' >= schema
    BY StartupAlone
  <2>1. schema \in Nat /\ \A p \in Procs : image[p] \in Nat
    BY ServicesAssumption, Releases
  <2>2. ASSUME NEW p \in Procs, B!_run_migrations(p) PROVE schema' >= schema
    BY <2>1, <2>2 DEF B!_run_migrations
  <2>3. ASSUME NEW p \in Procs, B!TakeLock(p) \/ B!Unlock(p) \/ B!Boot(p) PROVE schema' >= schema
    BY <2>1, <2>3 DEF B!TakeLock, B!Unlock, B!Boot
  <2>4. ASSUME NEW p \in Procs, B!bootstrap_tenants(p) \/ B!bootstrap_accounts(p) \/ B!migrate_legacy_siem_webhook(p)
        PROVE schema' >= schema
    BY <2>1, <2>4 DEF B!bootstrap_tenants, B!ReadTenants, B!InsertTenants, B!bootstrap_accounts, B!CountAccounts,
       B!CreateEnvAdmin, B!migrate_legacy_siem_webhook, B!CountDestinations, B!AddDestination
  <2>5. ASSUME NEW p \in Procs, B!Claim(p) \/ B!setup(p) \/ B!SetupFails(p) \/ B!Edit(p) \/ B!Crash(p) \/ B!Deploy(p)
        PROVE schema' >= schema
    BY <2>1, <2>5 DEF B!Claim, B!setup, B!SetupFails, B!Edit, B!Crash, B!Deploy
  <2> QED
    BY <2>2, <2>3, <2>4, <2>5 DEF B!Next, B!lifespan, B!init_db
<1> QED
  BY <1>1, <1>2, <1>3, PTL DEF Spec, ForwardOnly, B!ForwardOnly

-----------------------------------------------------------------------------
(* Sessions: what SessionsProofs proves of one population holds of the two   *)
(* that Services may pick.                                                  *)

HP == INSTANCE SessionsProofs WITH
    Accounts <- Homebodies, Tenants <- {Main}, Minters <- {},
    GuestRoles <- {}, FirstAdmins <- Homebodies, MaxCreds <- MaxHomeCreds,
    MaxChanges <- MaxAccountChanges, changes <- r_changes,
    issued <- r_issued
FP == INSTANCE SessionsProofs WITH
    Accounts <- Travellers, FirstAdmins <- Travellers,
    Requests <- Visits, MaxChanges <- MaxTravelChanges,
    changes <- r_changes, issued <- r_issued

\* The population that is at home only.
LEMMA HomeIsSound == H!Init /\ [][H!Next]_(H!vars) => []H!SessionsSound
<1>0. H!Idle = HP!Idle /\ H!Purged = HP!Purged
  BY DEF H!Idle, HP!Idle, H!NoEdit, HP!NoEdit, H!Purged, HP!Purged
<1>1. HP!SessionsAssumption
  BY ServicesAssumption DEF H!SessionsAssumption, HP!SessionsAssumption
<1>2. H!Init => HP!Init
  BY <1>0 DEF H!Init, HP!Init
<1> USE DEF H!Administers, HP!Administers, H!AdminsRemain, HP!AdminsRemain, H!Allowed,
            HP!Allowed, H!Answer, HP!Answer, H!AnswerChallenge, HP!AnswerChallenge,
            H!BySession, HP!BySession, H!Change, HP!Change, H!Creds, HP!Creds,
            H!CutIsFinal, HP!CutIsFinal, H!Demotes, HP!Demotes, H!Disables, HP!Disables,
            H!Edits, HP!Edits, H!EnrolsAtHome, HP!EnrolsAtHome, H!Expire, HP!Expire,
            H!Factors, HP!Factors, H!Frames, HP!Frames, H!Held, HP!Held, H!Idle,
            HP!Idle, H!Init, HP!Init, H!Invite, HP!Invite, H!Issue, HP!Issue, H!Kept,
            HP!Kept, H!Later, HP!Later, H!May, HP!May, H!Member, HP!Member, H!Next,
            HP!Next, H!NoEdit, HP!NoEdit, H!OfKind, HP!OfKind, H!OpenSession,
            HP!OpenSession, H!Places, HP!Places, H!Policies, HP!Policies, H!Purged,
            HP!Purged, H!Revoked, HP!Revoked, H!Rows, HP!Rows, H!Served, HP!Served,
            H!SessionsOf, HP!SessionsOf, H!SessionsSound, HP!SessionsSound, H!SignIn,
            HP!SignIn, H!There, HP!There, H!Tick, HP!Tick, H!TimerFollowsUse,
            HP!TimerFollowsUse, H!To, HP!To, H!TokensOf, HP!TokensOf, H!Touched,
            HP!Touched, H!TypeOK, HP!TypeOK, H!Visible, HP!Visible, H!Weigh, HP!Weigh,
            H!_active_admin_ids, HP!_active_admin_ids, H!_authenticate_bearer,
            HP!_authenticate_bearer, H!_authenticate_session, HP!_authenticate_session,
            H!authenticate, HP!authenticate, H!change_password, HP!change_password,
            H!confirm, HP!confirm, H!create_token, HP!create_token, H!enrol, HP!enrol,
            H!enrolment_required, HP!enrolment_required, H!hourly_session_cleanup,
            HP!hourly_session_cleanup, H!logout, HP!logout, H!membership_roles,
            HP!membership_roles, H!people, HP!people, H!policy_asks, HP!policy_asks,
            H!put_mfa_policy, HP!put_mfa_policy, H!remove_second_factor,
            HP!remove_second_factor, H!reset_password, HP!reset_password, H!resolve,
            HP!resolve, H!revoke_token, HP!revoke_token, H!switch_tenant,
            HP!switch_tenant, H!update_account, HP!update_account, H!vars, HP!vars
<1>3. [H!Next]_(H!vars) => [HP!Next]_(HP!vars)
  BY Zenon
<1>4. HP!SessionsSound => H!SessionsSound
  OBVIOUS
<1>5. HP!Spec => []HP!SessionsSound
  BY <1>1, HP!SessionsAreSound
<1> HIDE DEF H!Administers, HP!Administers, H!AdminsRemain, HP!AdminsRemain, H!Allowed,
             HP!Allowed, H!Answer, HP!Answer, H!AnswerChallenge, HP!AnswerChallenge,
             H!BySession, HP!BySession, H!Change, HP!Change, H!Creds, HP!Creds,
             H!CutIsFinal, HP!CutIsFinal, H!Demotes, HP!Demotes, H!Disables,
             HP!Disables, H!Edits, HP!Edits, H!EnrolsAtHome, HP!EnrolsAtHome, H!Expire,
             HP!Expire, H!Factors, HP!Factors, H!Frames, HP!Frames, H!Held, HP!Held,
             H!Idle, HP!Idle, H!Init, HP!Init, H!Invite, HP!Invite, H!Issue, HP!Issue,
             H!Kept, HP!Kept, H!Later, HP!Later, H!May, HP!May, H!Member, HP!Member,
             H!Next, HP!Next, H!NoEdit, HP!NoEdit, H!OfKind, HP!OfKind, H!OpenSession,
             HP!OpenSession, H!Places, HP!Places, H!Policies, HP!Policies, H!Purged,
             HP!Purged, H!Revoked, HP!Revoked, H!Rows, HP!Rows, H!Served, HP!Served,
             H!SessionsOf, HP!SessionsOf, H!SessionsSound, HP!SessionsSound, H!SignIn,
             HP!SignIn, H!There, HP!There, H!Tick, HP!Tick, H!TimerFollowsUse,
             HP!TimerFollowsUse, H!To, HP!To, H!TokensOf, HP!TokensOf, H!Touched,
             HP!Touched, H!TypeOK, HP!TypeOK, H!Visible, HP!Visible, H!Weigh, HP!Weigh,
             H!_active_admin_ids, HP!_active_admin_ids, H!_authenticate_bearer,
             HP!_authenticate_bearer, H!_authenticate_session, HP!_authenticate_session,
             H!authenticate, HP!authenticate, H!change_password, HP!change_password,
             H!confirm, HP!confirm, H!create_token, HP!create_token, H!enrol, HP!enrol,
             H!enrolment_required, HP!enrolment_required, H!hourly_session_cleanup,
             HP!hourly_session_cleanup, H!logout, HP!logout, H!membership_roles,
             HP!membership_roles, H!people, HP!people, H!policy_asks, HP!policy_asks,
             H!put_mfa_policy, HP!put_mfa_policy, H!remove_second_factor,
             HP!remove_second_factor, H!reset_password, HP!reset_password, H!resolve,
             HP!resolve, H!revoke_token, HP!revoke_token, H!switch_tenant,
             HP!switch_tenant, H!update_account, HP!update_account, H!vars, HP!vars
<1> QED
  BY <1>2, <1>3, <1>4, <1>5, PTL DEF HP!Spec

\* The population of which some are guests elsewhere.
LEMMA GuestsAreSound == F!Init /\ [][F!Next]_(F!vars) => []F!SessionsSound
<1>0. F!Idle = FP!Idle /\ F!Purged = FP!Purged
  BY DEF F!Idle, FP!Idle, F!NoEdit, FP!NoEdit, F!Purged, FP!Purged
<1>1. FP!SessionsAssumption
  BY ServicesAssumption DEF F!SessionsAssumption, FP!SessionsAssumption
<1>2. F!Init => FP!Init
  BY <1>0 DEF F!Init, FP!Init
<1> USE DEF F!Administers, FP!Administers, F!AdminsRemain, FP!AdminsRemain, F!Allowed,
            FP!Allowed, F!Answer, FP!Answer, F!AnswerChallenge, FP!AnswerChallenge,
            F!BySession, FP!BySession, F!Change, FP!Change, F!Creds, FP!Creds,
            F!CutIsFinal, FP!CutIsFinal, F!Demotes, FP!Demotes, F!Disables, FP!Disables,
            F!Edits, FP!Edits, F!EnrolsAtHome, FP!EnrolsAtHome, F!Expire, FP!Expire,
            F!Factors, FP!Factors, F!Frames, FP!Frames, F!Held, FP!Held, F!Idle,
            FP!Idle, F!Init, FP!Init, F!Invite, FP!Invite, F!Issue, FP!Issue, F!Kept,
            FP!Kept, F!Later, FP!Later, F!May, FP!May, F!Member, FP!Member, F!Next,
            FP!Next, F!NoEdit, FP!NoEdit, F!OfKind, FP!OfKind, F!OpenSession,
            FP!OpenSession, F!Places, FP!Places, F!Policies, FP!Policies, F!Purged,
            FP!Purged, F!Revoked, FP!Revoked, F!Rows, FP!Rows, F!Served, FP!Served,
            F!SessionsOf, FP!SessionsOf, F!SessionsSound, FP!SessionsSound, F!SignIn,
            FP!SignIn, F!There, FP!There, F!Tick, FP!Tick, F!TimerFollowsUse,
            FP!TimerFollowsUse, F!To, FP!To, F!TokensOf, FP!TokensOf, F!Touched,
            FP!Touched, F!TypeOK, FP!TypeOK, F!Visible, FP!Visible, F!Weigh, FP!Weigh,
            F!_active_admin_ids, FP!_active_admin_ids, F!_authenticate_bearer,
            FP!_authenticate_bearer, F!_authenticate_session, FP!_authenticate_session,
            F!authenticate, FP!authenticate, F!change_password, FP!change_password,
            F!confirm, FP!confirm, F!create_token, FP!create_token, F!enrol, FP!enrol,
            F!enrolment_required, FP!enrolment_required, F!hourly_session_cleanup,
            FP!hourly_session_cleanup, F!logout, FP!logout, F!membership_roles,
            FP!membership_roles, F!people, FP!people, F!policy_asks, FP!policy_asks,
            F!put_mfa_policy, FP!put_mfa_policy, F!remove_second_factor,
            FP!remove_second_factor, F!reset_password, FP!reset_password, F!resolve,
            FP!resolve, F!revoke_token, FP!revoke_token, F!switch_tenant,
            FP!switch_tenant, F!update_account, FP!update_account, F!vars, FP!vars
<1>3. [F!Next]_(F!vars) => [FP!Next]_(FP!vars)
  BY Zenon
<1>4. FP!SessionsSound => F!SessionsSound
  OBVIOUS
<1>5. FP!Spec => []FP!SessionsSound
  BY <1>1, FP!SessionsAreSound
<1> HIDE DEF F!Administers, FP!Administers, F!AdminsRemain, FP!AdminsRemain, F!Allowed,
             FP!Allowed, F!Answer, FP!Answer, F!AnswerChallenge, FP!AnswerChallenge,
             F!BySession, FP!BySession, F!Change, FP!Change, F!Creds, FP!Creds,
             F!CutIsFinal, FP!CutIsFinal, F!Demotes, FP!Demotes, F!Disables,
             FP!Disables, F!Edits, FP!Edits, F!EnrolsAtHome, FP!EnrolsAtHome, F!Expire,
             FP!Expire, F!Factors, FP!Factors, F!Frames, FP!Frames, F!Held, FP!Held,
             F!Idle, FP!Idle, F!Init, FP!Init, F!Invite, FP!Invite, F!Issue, FP!Issue,
             F!Kept, FP!Kept, F!Later, FP!Later, F!May, FP!May, F!Member, FP!Member,
             F!Next, FP!Next, F!NoEdit, FP!NoEdit, F!OfKind, FP!OfKind, F!OpenSession,
             FP!OpenSession, F!Places, FP!Places, F!Policies, FP!Policies, F!Purged,
             FP!Purged, F!Revoked, FP!Revoked, F!Rows, FP!Rows, F!Served, FP!Served,
             F!SessionsOf, FP!SessionsOf, F!SessionsSound, FP!SessionsSound, F!SignIn,
             FP!SignIn, F!There, FP!There, F!Tick, FP!Tick, F!TimerFollowsUse,
             FP!TimerFollowsUse, F!To, FP!To, F!TokensOf, FP!TokensOf, F!Touched,
             FP!Touched, F!TypeOK, FP!TypeOK, F!Visible, FP!Visible, F!Weigh, FP!Weigh,
             F!_active_admin_ids, FP!_active_admin_ids, F!_authenticate_bearer,
             FP!_authenticate_bearer, F!_authenticate_session, FP!_authenticate_session,
             F!authenticate, FP!authenticate, F!change_password, FP!change_password,
             F!confirm, FP!confirm, F!create_token, FP!create_token, F!enrol, FP!enrol,
             F!enrolment_required, FP!enrolment_required, F!hourly_session_cleanup,
             FP!hourly_session_cleanup, F!logout, FP!logout, F!membership_roles,
             FP!membership_roles, F!people, FP!people, F!policy_asks, FP!policy_asks,
             F!put_mfa_policy, FP!put_mfa_policy, F!remove_second_factor,
             FP!remove_second_factor, F!reset_password, FP!reset_password, F!resolve,
             FP!resolve, F!revoke_token, FP!revoke_token, F!switch_tenant,
             FP!switch_tenant, F!update_account, FP!update_account, F!vars, FP!vars
<1> QED
  BY <1>2, <1>3, <1>4, <1>5, PTL DEF FP!Spec

\* A logout, a switch, a revocation, a changed password, a removed factor and a disabled
\* account end what they were to end, for every request under way; a session ends when it
\* was not used for its lifetime; and somebody can administer unless two edits overlapped:
\* at home and with guests (core/auth, api/auth, api/accounts).
THEOREM SessionsHold == Spec => []SessionsSound
<1>1. /\ Init /\ which = "guests" => F!Init
      /\ Init /\ ~(which = "guests") => H!Init
  BY DEF Init
<1>2. which = "guests" /\ [Next]_vars => (which = "guests")' /\ [F!Next]_(F!vars)
  BY DEF Next, vars, sessions, F!vars
<1>3. ~(which = "guests") /\ [Next]_vars => ~(which = "guests")' /\ [H!Next]_(H!vars)
  BY DEF Next, vars, sessions, H!vars
<1>4. /\ which = "guests" /\ F!SessionsSound => SessionsSound
      /\ ~(which = "guests") /\ H!SessionsSound => SessionsSound
  BY DEF SessionsSound
<1> QED
  BY <1>1, <1>2, <1>3, <1>4, HomeIsSound, GuestsAreSound, PTL DEF Spec

-----------------------------------------------------------------------------
(* Membership.                                                              *)

\* Dates order the two histories: a device's span is dated by a report, and a report by a
\* clock that had not yet reached the read; a definition that opened later than the first
\* follows another one.  A departure is open where the last catalog pass missed the group,
\* and a group that is gone does not come back.
CausesInOrder ==
    /\ device.last <= read.at /\ read.at <= now /\ jamf.report <= now
    /\ group.first > 0 => group.follows
    /\ group.departed <=> read.gone
    /\ read.gone => ~jamf.exists

MembershipInv == G!CauseIsTold /\ CausesInOrder

\* The catalog, Jamf and our clock start together.
LEMMA MembershipInit == ASSUME G!MembershipAssumption, G!Init PROVE MembershipInv
<1>1. PICK c \in Criteria, f \in Facts :
          /\ jamf = [criteria |-> c, fact |-> f, exists |-> TRUE, report |-> 0]
          /\ group = [criteria |-> c, first |-> 0, follows |-> FALSE, departed |-> FALSE]
          /\ device = [member |-> f \in c, last |-> 0]
  BY DEF G!Init
<1>2. G!TypeOK
  BY <1>1 DEF G!Init, G!TypeOK, G!Causes, G!MembershipAssumption
<1> QED
  BY <1>1, <1>2 DEF G!Init, MembershipInv, G!CauseIsTold, CausesInOrder

\* What a read of the device records, and that it is in order: the row's cause is told from
\* the spans as they were, and the report was written before the read.
LEMMA IngestTells ==
    ASSUME G!MembershipAssumption, MembershipInv, G!Tick, G!Ingest,
           UNCHANGED <<jamf, group>>, read' = [read EXCEPT !.at = now'],
           sweep' \in {"idle", "devices"}
    PROVE  MembershipInv'
<1> USE DEF G!MembershipAssumption, MembershipInv, G!CauseIsTold, CausesInOrder, G!TypeOK
<1>1. /\ now \in Nat /\ now' = now + 1 /\ now' \in 0..MaxMoments
      /\ read.at \in Nat /\ device.last \in Nat /\ jamf.report \in Nat /\ group.first \in Nat
  BY DEF G!Tick
<1>2. /\ read' = [at |-> now', gone |-> read.gone]
      /\ jamf' = jamf /\ group' = group
  OBVIOUS
<1>3. CASE jamf.report < device.last
  <2>1. UNCHANGED <<device, g_row>>
    BY <1>3 DEF G!Ingest
  <2> QED
    BY <1>1, <1>2, <2>1
<1>4. CASE ~(jamf.report < device.last)
  <2>1. /\ device' = [member |-> G!IsMember(jamf), last |-> jamf.report]
        /\ g_row' = IF G!IsMember(jamf) = device.member THEN g_row
                  ELSE [cause |-> G!_membership_cause(device), moved |-> group.first > read.at, gone |-> read.gone]
    BY <1>4 DEF G!Ingest
  <2>2. G!IsMember(jamf) \in BOOLEAN
    BY DEF G!IsMember
  <2>3. G!_membership_cause(device) \in G!Causes
    BY DEF G!_membership_cause, G!Causes
  <2>4. (group.first > read.at) \in BOOLEAN
    OBVIOUS
  <2>5. G!TypeOK'
    <3>1. device' \in [member: BOOLEAN, last: 0..MaxMoments]
      BY <2>1, <2>2
    <3>2. g_row' \in [cause: G!Causes, moved: BOOLEAN, gone: BOOLEAN]
      BY <2>1, <2>3, <2>4
    <3> QED
      BY <1>1, <1>2, <3>1, <3>2
  <2>6. CausesInOrder'
    BY <1>1, <1>2, <2>1
  <2>7. CASE G!IsMember(jamf) = device.member
    BY <2>1, <2>5, <2>6, <2>7
  <2>8. CASE G!IsMember(jamf) # device.member
    <3>1. g_row' = [cause |-> G!_membership_cause(device), moved |-> group.first > read.at, gone |-> read.gone]
      BY <2>1, <2>8
    <3>2. ASSUME read.gone PROVE g_row'.cause = "deleted"
      <4>1. ~G!IsMember(jamf)
        BY <3>2 DEF G!IsMember
      <4>2. device.member
        BY <2>2, <2>8, <4>1
      <4> QED
        BY <3>1, <3>2, <4>2 DEF G!_membership_cause
    <3>3. ASSUME group.first > read.at, ~read.gone PROVE g_row'.cause = "criteria"
      <4>1. group.follows /\ group.first > device.last /\ ~group.departed
        BY <1>1, <3>3
      <4> QED
        BY <3>1, <4>1 DEF G!_membership_cause
    <3>4. g_row'.gone = read.gone /\ g_row'.moved = (group.first > read.at)
      BY <3>1
    <3> QED
      BY <2>5, <2>6, <3>2, <3>3, <3>4
  <2> QED
    BY <2>7, <2>8
<1> QED
  BY <1>3, <1>4

\* Every step keeps the order and tells the cause.
LEMMA MembershipStep == ASSUME G!MembershipAssumption, MembershipInv, [G!Next]_(G!vars) PROVE MembershipInv'
<1> USE DEF G!MembershipAssumption, MembershipInv, G!CauseIsTold, CausesInOrder, G!TypeOK
<1>1. CASE G!Edit
  BY <1>1 DEF G!Edit, G!Tick
<1>2. CASE G!Delete
  <2>1. jamf' = [criteria |-> jamf.criteria, fact |-> jamf.fact, exists |-> FALSE, report |-> jamf.report]
    BY <1>2 DEF G!Delete
  <2>2. now \in Nat /\ now' = now + 1 /\ now' \in 0..MaxMoments /\ UNCHANGED <<group, device, sweep, g_row, read>>
    BY <1>2 DEF G!Delete, G!Tick
  <2>3. G!TypeOK'
    BY <2>1, <2>2
  <2>4. CausesInOrder'
    BY <2>1, <2>2
  <2> QED
    BY <2>2, <2>3, <2>4
<1>3. CASE G!CheckIn
  <2>1. PICK f \in Facts : jamf' = [jamf EXCEPT !.fact = f, !.report = now']
    BY <1>3 DEF G!CheckIn
  <2>2. jamf' = [criteria |-> jamf.criteria, fact |-> f, exists |-> jamf.exists, report |-> now']
    BY <2>1
  <2>3. now \in Nat /\ now' = now + 1 /\ now' \in 0..MaxMoments /\ UNCHANGED <<group, device, sweep, g_row, read>>
    BY <1>3 DEF G!CheckIn, G!Tick
  <2>4. G!TypeOK'
    BY <2>2, <2>3
  <2>5. CausesInOrder'
    BY <2>2, <2>3
  <2> QED
    BY <2>3, <2>4, <2>5
<1>4. CASE G!CatalogPass
  <2>1. G!Tick /\ group' = G!Observed /\ read' = [read EXCEPT !.gone = ~jamf.exists]
    BY <1>4 DEF G!CatalogPass
  <2>2. UNCHANGED <<jamf, device, g_row>> /\ sweep' \in {"idle", "devices"}
    BY <1>4 DEF G!CatalogPass
  <2>3. CASE ~jamf.exists
    <3>1. group' = [criteria |-> group.criteria, first |-> group.first, follows |-> group.follows, departed |-> TRUE]
      BY <2>1, <2>3 DEF G!Observed
    <3>2. read' = [at |-> read.at, gone |-> TRUE]
      BY <2>1, <2>3
    <3>3. now \in Nat /\ now' = now + 1 /\ now' \in 0..MaxMoments
      BY <2>1 DEF G!Tick
    <3>4. G!TypeOK'
      BY <2>2, <3>1, <3>2, <3>3
    <3>5. CausesInOrder'
      BY <2>2, <2>3, <3>1, <3>2, <3>3
    <3> QED
      BY <2>2, <3>4, <3>5
  <2>4. CASE jamf.exists /\ jamf.criteria = group.criteria
    BY <2>1, <2>2, <2>4 DEF G!Observed, G!Tick
  <2>5. CASE jamf.exists /\ jamf.criteria # group.criteria
    BY <2>1, <2>2, <2>5 DEF G!Observed, G!Tick
  <2> QED
    BY <2>3, <2>4, <2>5
<1>5. CASE G!DeviceLoop
  BY <1>5, IngestTells DEF G!DeviceLoop
<1>6. CASE G!Webhook
  BY <1>6, IngestTells DEF G!Webhook
<1>7. CASE UNCHANGED G!vars
  BY <1>7 DEF G!vars
<1> QED
  BY <1>1, <1>2, <1>3, <1>4, <1>5, <1>6, <1>7 DEF G!Next

\* What a step of the composition is for the group and the device.
LEMMA MembershipAlone == [Next]_vars => [G!Next]_(G!vars)
  BY DEF Next, vars, membership, G!vars

\* A row of a membership says that the group was deleted once the catalog has missed it, and
\* that its criteria changed where they did after the device was last read, whatever dates
\* the reports carry (_membership_cause).
THEOREM CausesAreTold == Spec => []CauseIsTold
<1>1. Init => MembershipInv
  BY ServicesAssumption, MembershipInit DEF Init
<1>2. MembershipInv /\ [Next]_vars => MembershipInv'
  BY ServicesAssumption, MembershipAlone, MembershipStep
<1>3. MembershipInv => CauseIsTold
  BY DEF MembershipInv, CauseIsTold
<1> QED
  BY <1>1, <1>2, <1>3, PTL DEF Spec

-----------------------------------------------------------------------------
(* Lane.                                                                    *)

Queue == {c \in Interactive : at[c] \in L!Waiting}
Lent == {c \in L!Serial : at[c] \in L!Holding}

\* The lane is lent to one call at most, and `busy' tells that it is.
LentOnce ==
    /\ busy <=> Lent # {}
    /\ \A c, d \in Lent : c = d

\* A free lane has nobody of the people asleep before it; a summary's call that sleeps there
\* without a timer has one of them awake, who will look.
NobodyOverslept ==
    ~busy => /\ \A c \in Interactive : at[c] # "asleep"
             /\ \A c \in Background : at[c] = "asleep" /\ ~timer[c] => \E d \in Interactive : at[d] = "awake"

LaneInv ==
    /\ L!TypeOK /\ LentOnce /\ NobodyOverslept
    /\ interactive_waiters = Cardinality(Queue)
    /\ Cardinality(L!OnWire) <= WireSlots

\* The instance's counting of a set is counting.
LEMMA LaneCounts == \A T : L!Cardinality(T) = Cardinality(T) /\ L!IsFiniteSet(T) = IsFiniteSet(T)
  BY DEF L!Cardinality, Cardinality, L!IsFiniteSet, IsFiniteSet

\* Every set of calls is finite.
LEMMA CallsAreFinite ==
    ASSUME L!LaneAssumption
    PROVE  /\ \A T \in SUBSET L!Calls : IsFiniteSet(T) /\ Cardinality(T) \in Nat
           /\ Interactive \subseteq L!Calls /\ Background \subseteq L!Calls /\ L!Serial \subseteq L!Calls
           /\ Direct \subseteq L!Calls
<1>1. \A T \in SUBSET L!Calls : IsFiniteSet(T)
  BY FS_Subset, LaneCounts DEF L!LaneAssumption
<1>2. \A T \in SUBSET L!Calls : Cardinality(T) \in Nat
  BY <1>1, FS_CardinalityType
<1> QED
  BY <1>1, <1>2 DEF L!Calls, L!Serial

\* A set that loses or gains a call counts one less or one more.
LEMMA OneMore ==
    ASSUME L!LaneAssumption, NEW T \in SUBSET L!Calls, NEW c \in L!Calls
    PROVE  /\ c \notin T => Cardinality(T \cup {c}) = Cardinality(T) + 1
           /\ c \in T => Cardinality(T \ {c}) = Cardinality(T) - 1 /\ Cardinality(T) > 0
<1>1. IsFiniteSet(T) /\ Cardinality(T) \in Nat
  BY CallsAreFinite
<1>2. c \notin T => Cardinality(T \cup {c}) = Cardinality(T) + 1
  BY <1>1, FS_AddElement
<1>3. c \in T => Cardinality(T \ {c}) = Cardinality(T) - 1
  BY <1>1, FS_RemoveElement
<1>4. c \in T => Cardinality(T) # 0
  BY <1>1, FS_EmptySet
<1> QED
  BY <1>1, <1>2, <1>3, <1>4

\* Nobody calls at first.
LEMMA LaneInit == ASSUME L!LaneAssumption, L!Init PROVE LaneInv
<1>1. Queue = {} /\ Lent = {} /\ L!OnWire = {}
  BY CallsAreFinite DEF L!Init, Queue, Lent, L!OnWire, L!Waiting, L!Holding
<1>2. Cardinality(Queue) = 0 /\ Cardinality(L!OnWire) = 0
  BY <1>1, FS_EmptySet
<1>3. L!TypeOK
  BY DEF L!Init, L!TypeOK
<1>4. LentOnce /\ NobodyOverslept
  BY <1>1, CallsAreFinite DEF L!Init, LentOnce, NobodyOverslept
<1> QED
  BY <1>2, <1>3, <1>4 DEF L!Init, LaneInv, L!LaneAssumption

\* A call takes the free lane: it leaves the queue, and everybody looks again.
LEMMA TakesLane ==
    ASSUME L!LaneAssumption, LaneInv, NEW c \in L!Serial, NEW waiters \in Nat,
           at[c] \in {"new", "awake"}, waiters = Cardinality(Queue \cup ({c} \cap Interactive)),
           ~busy, busy' = TRUE, interactive_waiters' = waiters - L!Queued(c), L!Notified(c, "slot"), UNCHANGED resting
    PROVE  LaneInv'
<1> USE CallsAreFinite DEF LaneInv, L!TypeOK, L!Waiting, L!Holding
<1>1. Queue' = Queue \ {c}
  BY DEF L!Notified, Queue
<1>2. Lent' = {c}
  BY DEF L!Notified, Lent, LentOnce
<1>3. L!OnWire' = L!OnWire
  BY DEF L!Notified, L!OnWire
<1>4. interactive_waiters' = Cardinality(Queue')
  <2>1. Queue \cup {c} \in SUBSET L!Calls /\ Queue \in SUBSET L!Calls
    BY DEF Queue
  <2>2. CASE c \in Interactive
    <3>1. {c} \cap Interactive = {c} /\ (Queue \cup {c}) \ {c} = Queue'
      BY <1>1, <2>2
    <3>2. Cardinality((Queue \cup {c}) \ {c}) = waiters - 1
      BY <2>1, <3>1, OneMore
    <3> QED
      BY <2>2, <3>1, <3>2 DEF L!Queued
  <2>3. CASE c \notin Interactive
    <3>1. Queue \cup ({c} \cap Interactive) = Queue /\ Queue' = Queue
      BY <1>1, <2>3 DEF Queue
    <3>2. L!Queued(c) = 0
      BY <2>3 DEF L!Queued
    <3>3. interactive_waiters' = waiters
      BY <3>2
    <3> QED
      BY <3>1, <3>3
  <2> QED
    BY <2>2, <2>3
<1>5. L!TypeOK'
  <2>1. /\ at' \in [L!Calls -> {"new", "ended", "failed"} \cup L!Waiting \cup L!Holding]
        /\ timer' \in [L!Calls -> BOOLEAN]
    BY DEF L!Notified
  <2>2. Queue' \in SUBSET L!Calls
    BY <1>1 DEF Queue
  <2> QED
    BY <1>4, <2>1, <2>2
<1>6. LentOnce' /\ NobodyOverslept'
  BY <1>2 DEF LentOnce, NobodyOverslept
<1> QED
  BY <1>3, <1>4, <1>5, <1>6

\* A call that finds the lane lent, or its pause not over, or somebody before it, sleeps.  It
\* sleeps without a timer before a free lane only behind a person's call that is awake.
LEMMA GoesToSleep ==
    ASSUME L!LaneAssumption, LaneInv, NEW c \in L!Serial, NEW waiters \in Nat,
           at[c] \in {"new", "awake"}, waiters = Cardinality(Queue \cup ({c} \cap Interactive)),
           busy \/ L!Pause(c) \/ (c \in Background /\ waiters > 0),
           at' = [at EXCEPT ![c] = "asleep"], timer' = [timer EXCEPT ![c] = L!Pause(c) /\ ~busy],
           interactive_waiters' = waiters, UNCHANGED <<busy, resting>>
    PROVE  LaneInv'
<1> USE CallsAreFinite DEF LaneInv, L!TypeOK, L!Waiting, L!Holding
<1>1. Queue' = Queue \cup ({c} \cap Interactive)
  BY DEF Queue
<1>2. Lent' = Lent /\ L!OnWire' = L!OnWire
  BY DEF Lent, L!OnWire
<1>3. (L!Pause(c) /\ ~busy) \in BOOLEAN
  OBVIOUS
<1>4. L!TypeOK'
  BY <1>3
<1>5. LentOnce'
  BY <1>2 DEF LentOnce
<1>6. NobodyOverslept'
  <2> SUFFICES ASSUME ~busy PROVE NobodyOverslept'
    BY DEF NobodyOverslept
  <2>1. c \in Background /\ (L!Pause(c) \/ waiters > 0)
    BY DEF L!Pause, L!LaneAssumption
  <2>2. c \notin Interactive
    BY <2>1 DEF L!LaneAssumption
  <2>3. \A i \in Interactive : at'[i] = at[i]
    BY <2>2
  <2>4. ASSUME ~timer'[c] PROVE \E d \in Interactive : at'[d] = "awake"
    <3>1. Queue # {}
      <4>1. waiters > 0 /\ waiters = Cardinality(Queue)
        BY <1>1, <2>1, <2>2, <2>4 DEF Queue
      <4> QED
        BY <4>1, FS_EmptySet
    <3>2. PICK d \in Interactive : at[d] \in L!Waiting
      BY <3>1 DEF Queue
    <3>3. at[d] = "awake"
      BY <3>2 DEF NobodyOverslept
    <3> QED
      BY <2>3, <3>3
  <2> QED
    BY <2>1, <2>2, <2>3, <2>4 DEF NobodyOverslept, L!LaneAssumption
<1> QED
  BY <1>1, <1>2, <1>4, <1>5, <1>6

\* A call looks at the lane, with itself counted in the queue.
LEMMA AcquireKeeps == ASSUME L!LaneAssumption, LaneInv, NEW c \in L!Calls, L!acquire(c) PROVE LaneInv'
<1> USE CallsAreFinite DEF LaneInv, L!TypeOK, L!Waiting, L!Holding
<1>1. c \in L!Serial
  BY DEF L!acquire
<1>2. Queue \in SUBSET L!Calls
  BY DEF Queue
<1>3. PICK waiters :
          /\ L!Attempt(c, waiters)
          /\ \/ at[c] = "new" /\ waiters = interactive_waiters + L!Queued(c)
             \/ at[c] = "awake" /\ waiters = interactive_waiters
  BY DEF L!acquire
<1>4. waiters \in Nat /\ at[c] \in {"new", "awake"}
  BY <1>3 DEF L!Queued
<1>5. waiters = Cardinality(Queue \cup ({c} \cap Interactive))
  <2>1. CASE c \notin Interactive
    <3>1. Queue \cup ({c} \cap Interactive) = Queue
      BY <2>1
    <3>2. waiters = interactive_waiters
      BY <1>3, <2>1 DEF L!Queued
    <3> QED
      BY <3>1, <3>2
  <2>2. CASE c \in Interactive /\ at[c] = "awake"
    <3>1. Queue \cup ({c} \cap Interactive) = Queue
      BY <2>2 DEF Queue
    <3> QED
      BY <1>3, <2>2, <3>1
  <2>3. CASE c \in Interactive /\ at[c] = "new"
    <3>1. Queue \cup ({c} \cap Interactive) = Queue \cup {c} /\ c \notin Queue
      BY <2>3 DEF Queue
    <3>2. Cardinality(Queue \cup {c}) = Cardinality(Queue) + 1
      BY <1>2, <3>1, OneMore
    <3> QED
      BY <1>3, <2>3, <3>1, <3>2 DEF L!Queued
  <2> QED
    BY <1>4, <2>1, <2>2, <2>3
<1>6. CASE ~busy /\ busy' = TRUE
  <2>1. interactive_waiters' = waiters - L!Queued(c) /\ L!Notified(c, "slot") /\ UNCHANGED resting
    BY <1>3, <1>6 DEF L!Attempt
  <2> QED
    BY <1>1, <1>4, <1>5, <1>6, <2>1, TakesLane
<1>7. CASE ~(~busy /\ busy' = TRUE)
  <2>1. /\ busy \/ L!Pause(c) \/ (c \in Background /\ waiters > 0)
        /\ at' = [at EXCEPT ![c] = "asleep"]
        /\ timer' = [timer EXCEPT ![c] = L!Pause(c) /\ ~busy]
        /\ interactive_waiters' = waiters
        /\ UNCHANGED <<busy, resting>>
    BY <1>3, <1>7 DEF L!Attempt
  <2> QED
    BY <1>1, <1>4, <1>5, <2>1, GoesToSleep
<1> QED
  BY <1>6, <1>7

\* The holder gives the lane back and everybody looks again; a call to another server leaves
\* nothing but its slot.
LEMMA LeaveKeeps ==
    ASSUME L!LaneAssumption, LaneInv, NEW c \in L!Calls, NEW place \in {"ended", "failed"},
           at[c] \in L!Holding, L!Leave(c, place)
    PROVE  LaneInv'
<1> USE CallsAreFinite DEF LaneInv, L!TypeOK, L!Waiting, L!Holding
<1>1. at'[c] = place /\ \A x \in L!Calls \ {c} : at'[x] = at[x] \/ (at[x] = "asleep" /\ at'[x] = "awake")
  BY DEF L!Leave, L!release, L!Notified, L!Unnotified
<1>2. L!TypeOK'
  BY DEF L!Leave, L!release, L!Notified, L!Unnotified, L!lane
<1>3. Queue' = Queue /\ Lent' = Lent \ {c} /\ L!OnWire' = L!OnWire \ {c}
  BY <1>1, <1>2 DEF Queue, Lent, L!OnWire
<1>4. Cardinality(L!OnWire') <= WireSlots
  <2>1. L!OnWire \in SUBSET L!Calls
    BY DEF L!OnWire
  <2>2. CASE c \in L!OnWire
    BY <1>3, <2>1, <2>2, OneMore DEF L!LaneAssumption
  <2>3. CASE c \notin L!OnWire
    BY <1>3, <2>3 DEF L!LaneAssumption
  <2> QED
    BY <2>2, <2>3
<1>5. interactive_waiters' = interactive_waiters
  BY DEF L!Leave, L!release, L!lane
<1>6. CASE c \in L!Serial
  <2>1. busy' = FALSE /\ L!Notified(c, place)
    BY <1>6 DEF L!Leave, L!release
  <2>2. Lent' = {}
    BY <1>3, <1>6 DEF LentOnce, Lent
  <2>3. \A x \in L!Calls : at'[x] # "asleep"
    BY <2>1 DEF L!Notified
  <2> QED
    BY <1>2, <1>3, <1>4, <1>5, <2>1, <2>2, <2>3 DEF LentOnce, NobodyOverslept
<1>7. CASE c \notin L!Serial
  <2>1. busy' = busy /\ L!Unnotified(c, place)
    BY <1>7 DEF L!Leave, L!lane
  <2>2. Lent' = Lent
    BY <1>3, <1>7 DEF Lent
  <2>3. \A x \in L!Serial : at'[x] = at[x] /\ timer'[x] = timer[x]
    BY <1>7, <2>1 DEF L!Unnotified
  <2>4. NobodyOverslept'
    BY <2>1, <2>3 DEF NobodyOverslept, L!Serial
  <2> QED
    BY <1>2, <1>3, <1>4, <1>5, <2>1, <2>2, <2>4 DEF LentOnce
<1> QED
  BY <1>6, <1>7

\* A call that waits gives up its place, and everybody looks again.
LEMMA GiveUpKeeps ==
    ASSUME L!LaneAssumption, LaneInv, NEW c \in L!Calls, L!GiveUp(c)
    PROVE  LaneInv'
<1> USE CallsAreFinite DEF LaneInv, L!TypeOK, L!Waiting, L!Holding
<1>1. CASE at[c] \in L!Holding
  BY <1>1, LeaveKeeps DEF L!GiveUp
<1>2. CASE at[c] \in L!Waiting
  <2>1. interactive_waiters' = interactive_waiters - L!Queued(c) /\ L!Notified(c, "failed") /\ UNCHANGED <<busy, resting>>
    BY <1>2 DEF L!GiveUp
  <2>2. \A x \in L!Calls : at'[x] # "asleep"
    BY <2>1 DEF L!Notified
  <2>3. Queue' = Queue \ {c} /\ Lent' = Lent /\ L!OnWire' = L!OnWire
    BY <1>2, <2>1 DEF L!Notified, Queue, Lent, L!OnWire
  <2>4. Queue \in SUBSET L!Calls /\ Queue' \in SUBSET L!Calls
    BY <2>3 DEF Queue
  <2>5. interactive_waiters' = Cardinality(Queue')
    <3>1. CASE c \in Interactive
      <4>1. c \in Queue
        BY <1>2, <3>1 DEF Queue
      <4> QED
        BY <2>1, <2>3, <2>4, <3>1, <4>1, OneMore DEF L!Queued
    <3>2. CASE c \notin Interactive
      <4>1. Queue' = Queue
        BY <2>3, <3>2 DEF Queue
      <4> QED
        BY <2>1, <3>2, <4>1 DEF L!Queued
    <3> QED
      BY <3>1, <3>2
  <2>6. L!TypeOK'
    BY <2>1, <2>4, <2>5 DEF L!Notified
  <2> QED
    BY <2>1, <2>2, <2>3, <2>5, <2>6 DEF LentOnce, NobodyOverslept
<1> QED
  BY <1>1, <1>2 DEF L!GiveUp

\* Every step keeps the lane.
LEMMA LaneStep == ASSUME L!LaneAssumption, LaneInv, [L!Next]_(L!vars) PROVE LaneInv'
<1> USE CallsAreFinite DEF LaneInv, L!TypeOK, L!Waiting, L!Holding
<1>1. CASE L!PauseOver
  <2>1. Queue' = Queue /\ Lent' = Lent /\ L!OnWire' = L!OnWire
    BY <1>1 DEF L!PauseOver, Queue, Lent, L!OnWire
  <2> QED
    BY <1>1, <2>1 DEF L!PauseOver, LentOnce, NobodyOverslept
<1>2. ASSUME NEW c \in L!Calls, L!acquire(c) PROVE LaneInv'
  BY <1>2, AcquireKeeps
<1>3. ASSUME NEW c \in L!Calls, L!WaitExpires(c) PROVE LaneInv'
  <2>1. UNCHANGED L!lane /\ at' = [at EXCEPT ![c] = "awake"] /\ timer' = [timer EXCEPT ![c] = FALSE]
    BY <1>3 DEF L!WaitExpires
  <2>2. at[c] = "asleep"
    BY <1>3 DEF L!WaitExpires
  <2>3. Queue' = Queue /\ Lent' = Lent /\ L!OnWire' = L!OnWire
    BY <2>1, <2>2 DEF Queue, Lent, L!OnWire
  <2>4. NobodyOverslept'
    BY <2>1, <2>2 DEF NobodyOverslept, L!lane
  <2>5. L!TypeOK'
    BY <2>1 DEF L!lane
  <2> QED
    BY <2>1, <2>3, <2>4, <2>5 DEF LentOnce, L!lane
<1>4. ASSUME NEW c \in L!Calls, L!Straight(c) PROVE LaneInv'
  <2>1. UNCHANGED <<timer, L!lane>> /\ at' = [at EXCEPT ![c] = "slot"] /\ at[c] = "new" /\ c \notin L!Serial
    BY <1>4 DEF L!Straight, L!LaneAssumption
  <2>2. Queue' = Queue /\ Lent' = Lent /\ L!OnWire' = L!OnWire
    BY <2>1 DEF Queue, Lent, L!OnWire, L!Serial
  <2>3. NobodyOverslept'
    BY <2>1 DEF NobodyOverslept, L!lane, L!Serial
  <2>4. L!TypeOK'
    BY <2>1 DEF L!lane
  <2> QED
    BY <2>1, <2>2, <2>3, <2>4 DEF LentOnce, L!lane
<1>5. ASSUME NEW c \in L!Calls, L!_wire_slots(c) PROVE LaneInv'
  <2>1. UNCHANGED <<timer, L!lane>> /\ at' = [at EXCEPT ![c] = "wire"] /\ at[c] = "slot" /\ Cardinality(L!OnWire) < WireSlots
    BY <1>5, LaneCounts DEF L!_wire_slots
  <2>2. Queue' = Queue /\ Lent' = Lent /\ L!OnWire' = L!OnWire \cup {c} /\ c \notin L!OnWire
    BY <2>1 DEF Queue, Lent, L!OnWire
  <2>3. NobodyOverslept'
    BY <2>1 DEF NobodyOverslept, L!lane
  <2>4. L!TypeOK'
    BY <2>1 DEF L!lane
  <2>5. Cardinality(L!OnWire') <= WireSlots
    <3>1. L!OnWire \in SUBSET L!Calls
      BY DEF L!OnWire
    <3>2. Cardinality(L!OnWire') = Cardinality(L!OnWire) + 1 /\ Cardinality(L!OnWire) \in Nat
      BY <2>2, <3>1, OneMore
    <3> QED
      BY <2>1, <3>2 DEF L!LaneAssumption
  <2> QED
    BY <2>1, <2>2, <2>3, <2>4, <2>5 DEF LentOnce, L!lane
<1>6. ASSUME NEW c \in L!Calls, L!Reply(c) PROVE LaneInv'
  BY <1>6, LeaveKeeps DEF L!Reply
<1>7. ASSUME NEW c \in L!Calls, L!GiveUp(c) PROVE LaneInv'
  BY <1>7, GiveUpKeeps
<1>8. CASE UNCHANGED L!vars
  <2>1. Queue' = Queue /\ Lent' = Lent /\ L!OnWire' = L!OnWire
    BY <1>8 DEF L!vars, Queue, Lent, L!OnWire
  <2> QED
    BY <1>8, <2>1 DEF L!vars, LentOnce, NobodyOverslept
<1> QED
  BY <1>1, <1>2, <1>3, <1>4, <1>5, <1>6, <1>7, <1>8 DEF L!Next, L!Progress

\* What the run checks follows: the holder is one, and whoever sleeps before a free lane
\* has somebody who will wake him.
LEMMA LaneHolds == ASSUME L!LaneAssumption, LaneInv PROVE L!LaneSound
<1> USE CallsAreFinite DEF LaneInv, L!TypeOK
<1>1. Cardinality(Lent) = (IF busy THEN 1 ELSE 0)
  <2>1. CASE Lent = {}
    BY <2>1, FS_EmptySet DEF LentOnce
  <2>2. CASE Lent # {}
    <3>1. PICK c \in Lent : TRUE
      BY <2>2
    <3>2. Lent = {c}
      BY <3>1 DEF LentOnce
    <3> QED
      BY <2>2, <3>2, FS_Singleton DEF LentOnce
  <2> QED
    BY <2>1, <2>2
<1>2. ASSUME NEW c \in L!Serial, at[c] = "asleep", ~timer[c], ~busy
      PROVE  \E d \in L!Serial : at[d] = "awake" \/ (at[d] = "asleep" /\ timer[d])
  BY <1>2 DEF NobodyOverslept, L!Serial
<1> QED
  BY <1>1, <1>2, LaneCounts DEF L!LaneSound, Lent, Queue


\* What a step of the composition is for the calls.
LEMMA LaneAlone == [Next]_vars => [L!Next]_(L!vars)
  BY DEF Next, vars, lane, L!vars

\* One serial call has the lane whatever was cancelled on the way, the count of people
\* waiting is right, no more exchanges than slots are on the wire, and nobody sleeps before a
\* free lane without somebody who will wake him (_SerialLane, _wire_slots).
THEOREM LaneIsSound == Spec => []LaneSound
<1>1. Init => LaneInv
  BY ServicesAssumption, LaneInit DEF Init
<1>2. LaneInv /\ [Next]_vars => LaneInv'
  BY ServicesAssumption, LaneAlone, LaneStep
<1>3. LaneInv => LaneSound
  BY ServicesAssumption, LaneHolds DEF LaneSound
<1> QED
  BY <1>1, <1>2, <1>3, PTL DEF Spec

-----------------------------------------------------------------------------
(* Closing.                                                                 *)

\* Who has paged, or was allowed to and is about to.
Heard(r) == N!At(r, "allowed") \/ \E a \in alarms : a[1] = r

\* A verdict is there from the release on; an alarm is of a run that is past its ration, it
\* is the only one of its run, and carries the day of the verdict.
VerdictFirst == \A r \in Runs : run[r].pc \in {"new", "open"} => ~run[r].standing
AlarmsFollow ==
    /\ \A a \in alarms : /\ a[2] = run[a[1]].day
                         /\ run[a[1]].pc \notin {"new", "open", "released", "allowed"}
    /\ \A a, b \in alarms : a[1] = b[1] => a = b

\* Of the runs refused on one day one at most has paged or may.
HeardOnce ==
    \A r, s \in Runs :
        run[r].standing /\ run[s].standing /\ run[r].day = run[s].day /\ Heard(r) /\ Heard(s) => r = s

\* A sweep that captures has some of the six counts, one that has counted has them all.
CountsInOrder ==
    /\ counts \in [Runs -> Seq(Nat)]
    /\ \A r \in Runs : /\ N!At(r, "capture") => r \in Sweeps /\ Len(counts[r]) < 6
                       /\ N!At(r, "counted") => r \in Sweeps /\ Len(counts[r]) = 6
                       /\ run[r].pc \notin {"capture", "counted"} => counts[r] = <<>>
RunsTyped == run \in [Runs -> [pc: N!Pcs, ok: BOOLEAN, standing: BOOLEAN, day: 0..MaxDay]]
NightsAddUp ==
    \A night \in tape : night.counts[2] + night.counts[3] + night.counts[4] + night.counts[5] + night.counts[6]
                            = night.counts[1]

ClosingInv ==
    N!TypeOK /\ VerdictFirst /\ AlarmsFollow /\ HeardOnce /\ CountsInOrder /\ NightsAddUp

\* The instance's counting of a set is counting.
LEMMA ClosingCounts == \A T : N!Cardinality(T) = Cardinality(T)
  BY DEF N!Cardinality, Cardinality

\* There are six counts.
LEMMA SixKeys == Len(N!Keys) = 6 /\ N!Parts \subseteq {"latest", "laggard", "behind", "unknown", "ahead"}
  BY DEF N!Keys, N!Parts

\* Nothing has closed at first.
LEMMA ClosingInit == ASSUME N!ClosingAssumption, N!Init PROVE ClosingInv
<1>1. N!TypeOK
  BY SixKeys DEF N!ClosingAssumption, N!Init, N!TypeOK, N!Pcs
<1>2. VerdictFirst /\ AlarmsFollow /\ HeardOnce /\ CountsInOrder /\ NightsAddUp
  BY DEF N!Init, VerdictFirst, AlarmsFollow, HeardOnce, Heard, CountsInOrder, NightsAddUp, N!At
<1> QED
  BY <1>1, <1>2 DEF ClosingInv

\* A close that goes from one place to another after its release, and pages nobody: what it
\* may not do is to be allowed to page while another one of its day is.
LEMMA GoesKeeps ==
    ASSUME N!ClosingAssumption, ClosingInv, NEW r \in Runs, NEW place \in N!Pcs \ {"new", "open", "released"},
           run[r].pc \notin {"new", "open"},
           place = "allowed" =>
               N!At(r, "released") /\ (run[r].standing => ~N!_already_alarmed_today(r)),
           N!Goes(r, place), UNCHANGED alarms
    PROVE  RunsTyped' /\ VerdictFirst' /\ AlarmsFollow' /\ HeardOnce'
<1>1. RunsTyped /\ VerdictFirst /\ AlarmsFollow /\ HeardOnce /\ \A a \in alarms : a[1] \in Runs
  BY DEF ClosingInv, N!TypeOK, RunsTyped
<1>2. /\ RunsTyped'
      /\ run'[r].pc = place /\ run'[r].standing = run[r].standing /\ run'[r].day = run[r].day
      /\ \A s \in Runs \ {r} : run'[s] = run[s]
  BY <1>1 DEF N!Goes, RunsTyped
<1>3. VerdictFirst'
  BY <1>1, <1>2 DEF VerdictFirst
<1>4. place = "allowed" => \A a \in alarms : a[1] # r
  BY <1>1 DEF AlarmsFollow, N!At
<1>5. AlarmsFollow'
  BY <1>1, <1>2, <1>4 DEF AlarmsFollow
<1>6. \A s \in Runs : Heard(s)' => Heard(s) \/ (s = r /\ place = "allowed")
  BY <1>2 DEF Heard, N!At
<1>7. HeardOnce'
  <2> SUFFICES ASSUME NEW s \in Runs, NEW t \in Runs, run'[s].standing, run'[t].standing,
                      run'[s].day = run'[t].day, Heard(s)', Heard(t)'
               PROVE  s = t
    BY DEF HeardOnce
  <2>1. /\ run[s].standing /\ run[t].standing /\ run[s].day = run[t].day
    BY <1>2
  <2>2. CASE Heard(s) /\ Heard(t)
    BY <1>1, <2>1, <2>2 DEF HeardOnce
  <2>3. CASE place = "allowed" /\ (s = r \/ t = r)
    BY <1>1, <2>1, <2>3 DEF VerdictFirst, N!_already_alarmed_today
  <2> QED
    BY <1>6, <2>2, <2>3
<1> QED
  BY <1>2, <1>3, <1>5, <1>7

\* What a step does to the counts of one sweep, and where its close goes with them.
LEMMA CountsKeep ==
    ASSUME CountsInOrder, NEW r \in Runs, NEW c \in Seq(Nat),
           counts' = [counts EXCEPT ![r] = c],
           N!At(r, "capture")' => r \in Sweeps /\ Len(c) < 6,
           N!At(r, "counted")' => r \in Sweeps /\ Len(c) = 6,
           run'[r].pc \notin {"capture", "counted"} => c = <<>>,
           \A s \in Runs \ {r} : run'[s] = run[s]
    PROVE  CountsInOrder' /\ \A s \in Runs : Len(counts'[s]) <= 6
<1>1. counts \in [Runs -> Seq(Nat)]
  BY DEF CountsInOrder
<1>2. counts' \in [Runs -> Seq(Nat)] /\ counts'[r] = c /\ \A s \in Runs \ {r} : counts'[s] = counts[s]
  BY <1>1
<1>3. ASSUME NEW s \in Runs
      PROVE  /\ N!At(s, "capture")' => s \in Sweeps /\ Len(counts'[s]) < 6
             /\ N!At(s, "counted")' => s \in Sweeps /\ Len(counts'[s]) = 6
             /\ run'[s].pc \notin {"capture", "counted"} => counts'[s] = <<>>
  <2>1. CASE s = r
    BY <1>2, <2>1
  <2>2. CASE s # r
    BY <1>2, <2>2 DEF CountsInOrder, N!At
  <2> QED
    BY <2>1, <2>2
<1>4. CountsInOrder'
  BY <1>2, <1>3 DEF CountsInOrder
<1>5. \A s \in Runs : Len(counts'[s]) <= 6
  <2> SUFFICES ASSUME NEW s \in Runs PROVE Len(counts'[s]) <= 6
    OBVIOUS
  <2>1. Len(<<>>) = 0
    OBVIOUS
  <2>2. ASSUME run'[s].pc \in {"capture", "counted"} PROVE Len(counts'[s]) <= 6
    <3>1. PICK n \in Nat : n = Len(counts'[s])
      BY <1>2
    <3>2. n < 6 \/ n = 6
      BY <1>3, <2>2, <3>1 DEF N!At
    <3>3. n <= 6
      BY <3>2
    <3> QED
      BY <3>1, <3>3
  <2> QED
    BY <1>3, <2>1, <2>2
<1> QED
  BY <1>4, <1>5

\* The same for a step that counts nothing.
LEMMA CountsRest ==
    ASSUME ClosingInv, NEW r \in Runs, UNCHANGED counts,
           N!At(r, "capture")' => r \in Sweeps /\ counts[r] = <<>>,
           N!At(r, "counted")' => FALSE,
           run[r].pc \notin {"capture", "counted"},
           \A s \in Runs \ {r} : run'[s] = run[s]
    PROVE  CountsInOrder' /\ \A s \in Runs : Len(counts'[s]) <= 6
<1>1. CountsInOrder
  BY DEF ClosingInv
<1>2. counts \in [Runs -> Seq(Nat)] /\ counts[r] = <<>> /\ Len(<<>>) = 0
  BY <1>1 DEF CountsInOrder
<1>3. counts' = [counts EXCEPT ![r] = <<>>] /\ <<>> \in Seq(Nat)
  BY <1>2
<1>4. Len(<<>>) < 6
  BY <1>2
<1> QED
  BY <1>1, <1>3, <1>4, CountsKeep

\* The shape of the state, from the shapes of its parts.
LEMMA ClosingTyped ==
    ASSUME ClosingInv
    PROVE  /\ RunsTyped /\ day \in 0..MaxDay /\ moves \in 0..MaxMoves
           /\ alarms \subseteq Runs \X (0..MaxDay) \X {"told", "lost"}
           /\ \A a \in alarms : a[1] \in Runs
           /\ fleet \in N!Fleets /\ tape \subseteq N!Nights
  BY DEF ClosingInv, N!TypeOK, RunsTyped
LEMMA ClosingKept ==
    ASSUME ClosingInv, RunsTyped', VerdictFirst', AlarmsFollow', HeardOnce', CountsInOrder', NightsAddUp',
           \A s \in Runs : Len(counts'[s]) <= 6,
           day' \in 0..MaxDay, moves' \in 0..MaxMoves,
           alarms' \subseteq Runs \X (0..MaxDay) \X {"told", "lost"}, fleet' \in N!Fleets, tape' \subseteq N!Nights
    PROVE  ClosingInv'
  BY SixKeys DEF ClosingInv, N!TypeOK, RunsTyped

\* The night: one count after another.
LEMMA CountStep ==
    ASSUME N!ClosingAssumption, ClosingInv, NEW r \in Runs, N!Count(r)
    PROVE  ClosingInv'
<1>1. N!At(r, "capture") /\ r \in Sweeps /\ Len(counts[r]) < 6 /\ UNCHANGED <<day, alarms, fleet, tape, moves>>
  BY DEF N!Count, ClosingInv, CountsInOrder
<1>2. CountsInOrder /\ counts[r] \in Seq(Nat) /\ counts \in [Runs -> Seq(Nat)]
  BY DEF ClosingInv, CountsInOrder
<1>3. PICK n \in Nat : counts' = [counts EXCEPT ![r] = Append(counts[r], n)]
  BY DEF N!Count, N!Pairs
<1>4. Append(counts[r], n) \in Seq(Nat) /\ counts'[r] = Append(counts[r], n)
  BY <1>2, <1>3
<1>5. Len(counts'[r]) = Len(counts[r]) + 1 /\ Len(counts[r]) \in Nat
  BY <1>2, <1>4
<1>6. NightsAddUp'
  BY <1>1 DEF ClosingInv, NightsAddUp
<1>7. CASE Len(counts'[r]) = 6
  <2>1. N!Goes(r, "counted")
    BY <1>7, SixKeys DEF N!Count
  <2>2. RunsTyped' /\ VerdictFirst' /\ AlarmsFollow' /\ HeardOnce'
    BY <1>1, <2>1, GoesKeeps DEF N!Pcs, N!At
  <2>3. run'[r].pc = "counted" /\ \A s \in Runs \ {r} : run'[s] = run[s]
    BY <2>1, ClosingTyped DEF N!Goes, RunsTyped
  <2>4. CountsInOrder' /\ \A s \in Runs : Len(counts'[s]) <= 6
    BY <1>1, <1>2, <1>3, <1>4, <1>7, <2>3, CountsKeep DEF N!At
  <2> QED
    BY <1>1, <1>6, <2>2, <2>4, ClosingTyped, ClosingKept
<1>8. CASE Len(counts'[r]) # 6
  <2>1. UNCHANGED run
    BY <1>8, SixKeys DEF N!Count
  <2>2. Len(counts'[r]) < 6
    BY <1>1, <1>5, <1>8
  <2>3. CountsInOrder' /\ \A s \in Runs : Len(counts'[s]) <= 6
    BY <1>1, <1>2, <1>3, <1>4, <2>1, <2>2, CountsKeep DEF N!At
  <2>4. RunsTyped' /\ VerdictFirst' /\ AlarmsFollow' /\ HeardOnce'
    BY <1>1, <2>1, ClosingTyped DEF ClosingInv, RunsTyped, VerdictFirst, AlarmsFollow, HeardOnce, Heard, N!At
  <2> QED
    BY <1>1, <1>6, <2>3, <2>4, ClosingTyped, ClosingKept
<1> QED
  BY <1>7, <1>8

\* The rows are written where the counts add up, or none is.
LEMMA CaptureStep ==
    ASSUME N!ClosingAssumption, ClosingInv, NEW r \in Runs, N!Capture(r)
    PROVE  ClosingInv'
<1>1. N!At(r, "counted") /\ r \in Sweeps /\ Len(counts[r]) = 6 /\ UNCHANGED <<day, alarms, fleet, moves>>
  BY DEF N!Capture, ClosingInv, CountsInOrder
<1>2. CountsInOrder /\ counts[r] \in Seq(Nat)
  BY DEF ClosingInv, CountsInOrder
<1>3. PICK place \in {"closed", "lost"} : N!Goes(r, place)
  BY DEF N!Capture
<1>4. RunsTyped' /\ VerdictFirst' /\ AlarmsFollow' /\ HeardOnce'
  BY <1>1, <1>3, GoesKeeps DEF N!Pcs, N!At
<1>5. run'[r].pc = place /\ \A s \in Runs \ {r} : run'[s] = run[s]
  BY <1>3, ClosingTyped DEF N!Goes, RunsTyped
<1>6. counts' = [counts EXCEPT ![r] = <<>>] /\ <<>> \in Seq(Nat)
  BY DEF N!Capture
<1>7. CountsInOrder' /\ \A s \in Runs : Len(counts'[s]) <= 6
  BY <1>2, <1>5, <1>6, CountsKeep DEF N!At
<1>8. tape' \subseteq N!Nights /\ NightsAddUp'
  <2>1. NightsAddUp /\ tape \subseteq N!Nights
    BY ClosingTyped DEF ClosingInv
  <2>2. CASE N!_partitions(counts[r])
    <3>1. tape' = tape \cup {[run |-> r, counts |-> counts[r]]}
      BY <2>2 DEF N!Capture
    <3>2. counts[r][2] + counts[r][3] + counts[r][4] + counts[r][5] + counts[r][6] = counts[r][1]
      BY <2>2 DEF N!_partitions
    <3>3. [run |-> r, counts |-> counts[r]] \in N!Nights
      BY <1>1, <1>2 DEF N!Nights
    <3> QED
      BY <2>1, <3>1, <3>2, <3>3 DEF NightsAddUp
  <2>3. CASE ~N!_partitions(counts[r])
    BY <2>1, <2>3 DEF N!Capture, NightsAddUp
  <2> QED
    BY <2>2, <2>3
<1> QED
  BY <1>1, <1>4, <1>7, <1>8, ClosingTyped, ClosingKept

\* A run opens, or is released with its verdict of today.
LEMMA OpensAndCloses ==
    ASSUME N!ClosingAssumption, ClosingInv, NEW r \in Runs,
           N!Acquire(r) \/ \E ok, standing \in BOOLEAN : N!Release(r, ok, standing)
    PROVE  ClosingInv'
<1>1. RunsTyped /\ VerdictFirst /\ AlarmsFollow /\ HeardOnce /\ NightsAddUp
  BY ClosingTyped DEF ClosingInv
<1>2. run[r].pc \in {"new", "open"} /\ UNCHANGED <<day, alarms, fleet, counts, tape, moves>>
  BY DEF N!Acquire, N!Release, N!At
<1>3. PICK v \in [pc: N!Pcs, ok: BOOLEAN, standing: BOOLEAN, day: 0..MaxDay] :
          /\ run' = [run EXCEPT ![r] = v]
          /\ (v.pc = "open" /\ ~v.standing) \/ v.pc = "released"
  <2>1. CASE N!Acquire(r)
    <3>1. run' = [run EXCEPT ![r] = [run[r] EXCEPT !.pc = "open"]]
      BY <2>1 DEF N!Acquire, N!Goes
    <3>2. [run[r] EXCEPT !.pc = "open"] \in [pc: N!Pcs, ok: BOOLEAN, standing: BOOLEAN, day: 0..MaxDay]
      BY <1>1 DEF RunsTyped, N!Pcs
    <3>3. ~[run[r] EXCEPT !.pc = "open"].standing /\ [run[r] EXCEPT !.pc = "open"].pc = "open"
      BY <1>1, <1>2 DEF VerdictFirst, RunsTyped
    <3> QED
      BY <3>1, <3>2, <3>3
  <2>2. ASSUME NEW ok \in BOOLEAN, NEW standing \in BOOLEAN, N!Release(r, ok, standing)
        PROVE  \E v \in [pc: N!Pcs, ok: BOOLEAN, standing: BOOLEAN, day: 0..MaxDay] :
                   run' = [run EXCEPT ![r] = v] /\ v.pc = "released"
    <3>1. (standing /\ ~ok) \in BOOLEAN /\ day \in 0..MaxDay
      BY ClosingTyped
    <3>2. [pc |-> "released", ok |-> ok, standing |-> standing /\ ~ok, day |-> day]
              \in [pc: N!Pcs, ok: BOOLEAN, standing: BOOLEAN, day: 0..MaxDay]
      BY <3>1 DEF N!Pcs
    <3> QED
      BY <2>2, <3>2 DEF N!Release
  <2> QED
    BY <2>1, <2>2
<1>4. run'[r] = v /\ (\A s \in Runs \ {r} : run'[s] = run[s]) /\ RunsTyped'
  BY <1>1, <1>3 DEF RunsTyped
<1>5. VerdictFirst'
  BY <1>1, <1>3, <1>4 DEF VerdictFirst
<1>6. \A a \in alarms : a[1] \in Runs /\ a[1] # r
  BY <1>1, <1>2, ClosingTyped DEF AlarmsFollow
<1>7. AlarmsFollow'
  BY <1>1, <1>2, <1>4, <1>6 DEF AlarmsFollow
<1>8. ~Heard(r)' /\ \A s \in Runs \ {r} : Heard(s)' => Heard(s)
  BY <1>2, <1>3, <1>4, <1>6 DEF Heard, N!At
<1>9. HeardOnce'
  BY <1>1, <1>4, <1>8 DEF HeardOnce
<1>10. CountsInOrder' /\ \A s \in Runs : Len(counts'[s]) <= 6
  BY <1>2, <1>3, <1>4, CountsRest DEF N!At
<1> QED
  BY <1>1, <1>2, <1>4, <1>5, <1>7, <1>9, <1>10, ClosingTyped, ClosingKept DEF NightsAddUp

\* The ration: who may page, with the day's other verdicts in view.
LEMMA RationStep ==
    ASSUME N!ClosingAssumption, ClosingInv, NEW r \in Runs, N!Ration(r)
    PROVE  ClosingInv'
<1>1. PICK place \in {"allowed", "capture", "closed"} :
          /\ N!Goes(r, place)
          /\ place = "allowed" => (run[r].standing => ~N!_already_alarmed_today(r))
          /\ place = "capture" => r \in Sweeps
  BY DEF N!Ration, N!After
<1>2. N!At(r, "released") /\ UNCHANGED <<day, alarms, fleet, counts, tape, moves>>
  BY DEF N!Ration
<1>3. RunsTyped' /\ VerdictFirst' /\ AlarmsFollow' /\ HeardOnce'
  BY <1>1, <1>2, GoesKeeps DEF N!Pcs, N!At
<1>4. run'[r].pc = place /\ \A s \in Runs \ {r} : run'[s] = run[s]
  BY <1>1, ClosingTyped DEF N!Goes, RunsTyped
<1>5. counts[r] = <<>>
  BY <1>2 DEF ClosingInv, CountsInOrder, N!At
<1>6. CountsInOrder' /\ \A s \in Runs : Len(counts'[s]) <= 6
  BY <1>1, <1>2, <1>4, <1>5, CountsRest DEF N!At
<1>7. NightsAddUp'
  BY <1>2 DEF ClosingInv, NightsAddUp
<1> QED
  BY <1>2, <1>3, <1>6, <1>7, ClosingTyped, ClosingKept

\* The page, heard or lost: it takes the place of the leave to page.
LEMMA AlarmStep ==
    ASSUME N!ClosingAssumption, ClosingInv, NEW r \in Runs, N!Alarm(r)
    PROVE  ClosingInv'
<1>1. PICK outcome \in {"told", "lost"} : alarms' = alarms \cup {<<r, run[r].day, outcome>>}
  BY DEF N!Alarm
<1>2. N!At(r, "allowed") /\ N!Goes(r, N!After(r)) /\ UNCHANGED <<day, fleet, counts, tape, moves>>
  BY DEF N!Alarm
<1>3. N!After(r) \in {"capture", "closed"} /\ (N!After(r) = "capture" => r \in Sweeps)
  BY DEF N!After
<1>4. RunsTyped /\ VerdictFirst /\ AlarmsFollow /\ HeardOnce /\ NightsAddUp /\ CountsInOrder
  BY ClosingTyped DEF ClosingInv
<1>5. /\ run'[r].pc = N!After(r) /\ run'[r].standing = run[r].standing /\ run'[r].day = run[r].day
      /\ \A s \in Runs \ {r} : run'[s] = run[s]
      /\ RunsTyped'
  BY <1>2, <1>3, <1>4 DEF N!Goes, N!Pcs, RunsTyped
<1>6. alarms' \subseteq Runs \X (0..MaxDay) \X {"told", "lost"}
  <2>1. run[r].day \in 0..MaxDay
    BY <1>4 DEF RunsTyped
  <2> QED
    BY <1>1, <2>1, ClosingTyped
<1>7. \A a \in alarms : a[1] \in Runs /\ a[1] # r
  BY <1>2, <1>4, ClosingTyped DEF AlarmsFollow, N!At
<1>8. \A a \in alarms' : a \in alarms \/ (a[1] = r /\ a[2] = run[r].day /\ a = <<r, run[r].day, outcome>>)
  BY <1>1
<1>9. AlarmsFollow'
  <2>1. \A a \in alarms' : a[2] = run'[a[1]].day /\ run'[a[1]].pc \notin {"new", "open", "released", "allowed"}
    <3>1. ASSUME NEW a \in alarms PROVE a[2] = run'[a[1]].day /\ run'[a[1]].pc \notin {"new", "open", "released", "allowed"}
      BY <1>4, <1>5, <1>7 DEF AlarmsFollow
    <3> QED
      BY <1>3, <1>5, <1>8, <3>1
  <2>2. \A a, b \in alarms' : a[1] = b[1] => a = b
    BY <1>4, <1>7, <1>8 DEF AlarmsFollow
  <2> QED
    BY <2>1, <2>2 DEF AlarmsFollow
<1>10. HeardOnce'
  <2>1. \A s \in Runs : Heard(s)' => Heard(s)
    <3>1. ASSUME NEW s \in Runs, s # r, Heard(s)' PROVE Heard(s)
      <4>1. \A a \in alarms' : a[1] = s => a \in alarms
        BY <1>8, <3>1
      <4> QED
        BY <1>5, <3>1, <4>1 DEF Heard, N!At
    <3>2. Heard(r)
      BY <1>2 DEF Heard
    <3> QED
      BY <3>1, <3>2
  <2>2. \A s \in Runs : run'[s].standing = run[s].standing /\ run'[s].day = run[s].day
    BY <1>5
  <2> QED
    BY <1>4, <2>1, <2>2 DEF HeardOnce
<1>11. VerdictFirst'
  BY <1>3, <1>4, <1>5 DEF VerdictFirst
<1>12. counts[r] = <<>>
  BY <1>2, <1>4 DEF CountsInOrder, N!At
<1>13. CountsInOrder' /\ \A s \in Runs : Len(counts'[s]) <= 6
  BY <1>2, <1>3, <1>5, <1>12, CountsRest DEF N!At
<1> QED
  BY <1>2, <1>4, <1>5, <1>6, <1>9, <1>10, <1>11, <1>13, ClosingTyped, ClosingKept DEF NightsAddUp

\* The process that closes dies.
LEMMA DieStep ==
    ASSUME N!ClosingAssumption, ClosingInv, NEW r \in Runs, N!Die(r)
    PROVE  ClosingInv'
<1>1. /\ N!Goes(r, "dead") /\ run[r].pc \notin {"new", "open"}
      /\ counts' = [counts EXCEPT ![r] = <<>>] /\ UNCHANGED <<day, alarms, fleet, tape, moves>>
  BY DEF N!Die
<1>2. RunsTyped' /\ VerdictFirst' /\ AlarmsFollow' /\ HeardOnce'
  BY <1>1, GoesKeeps DEF N!Pcs
<1>3. run'[r].pc = "dead" /\ \A s \in Runs \ {r} : run'[s] = run[s]
  BY <1>1, ClosingTyped DEF N!Goes, RunsTyped
<1>4. CountsInOrder /\ <<>> \in Seq(Nat)
  BY DEF ClosingInv
<1>5. CountsInOrder' /\ \A s \in Runs : Len(counts'[s]) <= 6
  BY <1>1, <1>3, <1>4, CountsKeep DEF N!At
<1>6. NightsAddUp'
  BY <1>1 DEF ClosingInv, NightsAddUp
<1> QED
  BY <1>1, <1>2, <1>5, <1>6, ClosingTyped, ClosingKept

\* Every step keeps what a day may page and what a night may say.
LEMMA ClosingStep == ASSUME N!ClosingAssumption, ClosingInv, [N!Next]_(N!vars) PROVE ClosingInv'
<1>1. CASE UNCHANGED <<run, alarms, counts, tape>> /\ day' \in 0..MaxDay /\ moves' \in 0..MaxMoves /\ fleet' \in N!Fleets
  <2>1. RunsTyped' /\ VerdictFirst' /\ AlarmsFollow' /\ HeardOnce' /\ CountsInOrder' /\ NightsAddUp'
    BY <1>1, ClosingTyped
       DEF ClosingInv, RunsTyped, VerdictFirst, AlarmsFollow, HeardOnce, Heard, N!At, CountsInOrder, NightsAddUp
  <2>2. \A s \in Runs : Len(counts'[s]) <= 6
    BY <1>1, SixKeys DEF ClosingInv, N!TypeOK
  <2> QED
    BY <1>1, <2>1, <2>2, ClosingTyped, ClosingKept
<1>2. CASE N!Midnight
  <2>1. day' \in 0..MaxDay
    BY <1>2, ClosingTyped DEF N!Midnight, N!ClosingAssumption
  <2> QED
    BY <1>1, <1>2, <2>1, ClosingTyped DEF N!Midnight
<1>3. CASE N!Move
  <2>1. UNCHANGED <<day, run, alarms, counts, tape>> /\ moves' \in 0..MaxMoves
    BY <1>3, ClosingTyped DEF N!Move, N!ClosingAssumption
  <2>2. fleet' \in N!Fleets
    <3>1. CASE \E holds \in SUBSET Builds : fleet' = [fleet EXCEPT !.holds = holds]
      BY <3>1, ClosingTyped DEF N!Fleets
    <3>2. CASE \E b \in Builds, part \in N!Parts : fleet' = [fleet EXCEPT !.state[b] = part]
      BY <3>2, ClosingTyped DEF N!Fleets
    <3> QED
      BY <1>3, <3>1, <3>2 DEF N!Move
  <2> QED
    BY <1>1, <2>1, <2>2, ClosingTyped
<1>4. CASE UNCHANGED N!vars
  BY <1>1, <1>4, ClosingTyped DEF N!vars
<1>5. ASSUME NEW r \in Runs, N!Acquire(r) \/ \E ok, standing \in BOOLEAN : N!Release(r, ok, standing) PROVE ClosingInv'
  BY <1>5, OpensAndCloses
<1>6. ASSUME NEW r \in Runs, N!Ration(r) \/ N!Alarm(r) PROVE ClosingInv'
  BY <1>6, RationStep, AlarmStep
<1>7. ASSUME NEW r \in Runs, N!Count(r) \/ N!Capture(r) \/ N!Die(r) PROVE ClosingInv'
  BY <1>7, CountStep, CaptureStep, DieStep
<1> QED
  BY <1>2, <1>3, <1>4, <1>5, <1>6, <1>7 DEF N!Next

\* What the run checks follows: the pages of one day about a standing failure are of one run,
\* and a run pages once.
LEMMA ClosingHolds == ASSUME N!ClosingAssumption, ClosingInv PROVE N!ClosingSound
<1> USE DEF ClosingInv, N!TypeOK
<1>1. ASSUME NEW d \in 0..MaxDay
      PROVE  Cardinality({a \in alarms : a[2] = d /\ a[3] = "told" /\ a[1] \in N!Standing(d)}) <= 1
  <2> DEFINE T == {a \in alarms : a[2] = d /\ a[3] = "told" /\ a[1] \in N!Standing(d)}
  <2>1. ASSUME NEW a \in T, NEW b \in T PROVE a = b
    <3>1. a[1] \in Runs /\ b[1] \in Runs /\ Heard(a[1]) /\ Heard(b[1])
      BY DEF Heard
    <3>2. /\ run[a[1]].standing /\ run[b[1]].standing /\ run[a[1]].day = d /\ run[b[1]].day = d
      BY DEF N!Standing
    <3>3. a[1] = b[1]
      BY <3>1, <3>2 DEF HeardOnce
    <3> QED
      BY <3>3 DEF AlarmsFollow
  <2>2. CASE T = {}
    <3>1. Cardinality(T) = 0
      BY <2>2, FS_EmptySet
    <3> QED
      BY <3>1
  <2>3. CASE T # {}
    <3>1. PICK a \in T : T = {a}
      BY <2>1, <2>3
    <3>2. Cardinality(T) = 1
      BY <3>1, FS_Singleton
    <3> QED
      BY <3>2
  <2> QED
    BY <2>2, <2>3
<1> QED
  BY <1>1, ClosingCounts DEF N!ClosingSound, NightsAddUp


\* What a step of the composition is for the runs that close.
LEMMA ClosingAlone == [Next]_vars => [N!Next]_(N!vars)
  BY DEF Next, vars, closing, N!vars

\* A night on the tape adds up, whoever commits while it is counted, and of a standing failure
\* the pager hears at most once a day (_partitions, _already_alarmed_today).
THEOREM ClosesAreSound == Spec => []ClosingSound
<1>1. Init => ClosingInv
  BY ServicesAssumption, ClosingInit DEF Init
<1>2. ClosingInv /\ [Next]_vars => ClosingInv'
  BY ServicesAssumption, ClosingAlone, ClosingStep
<1>3. ClosingInv => ClosingSound
  BY ServicesAssumption, ClosingHolds DEF ClosingSound
<1> QED
  BY <1>1, <1>2, <1>3, PTL DEF Spec

-----------------------------------------------------------------------------
(* Exchange.                                                                *)

EarnedTyped == earned \in Seq(Nat) /\ identity \in Nat /\ (x_job.at = "posting" => x_job.identity \in Nat)

\* A withdrawal is of the receipt that is held, and it waits to be withdrawn.
WithdrawsTheHeld == x_job.at = "withdrawing" => X!pending /\ receipt = x_job.receipt

\* A withdrawal on its way can end nothing but a receipt that waits to be withdrawn, and no
\* upload is under way before it is settled.
LateIsOfTheHeld ==
    \A r \in x_late : r \in withdrawn \cup expired \/ (X!pending /\ receipt = r /\ x_job.at \notin {"posting", "storing"})

\* What an upload has just earned is live and nobody's yet.
EarnedIsFree ==
    x_job.at = "storing" /\ x_job.block # None => x_job.block \in X!Receipts \ (withdrawn \cup owed \cup {receipt})

ExchangeInv == X!ExchangeSound /\ EarnedTyped /\ WithdrawsTheHeld /\ LateIsOfTheHeld /\ EarnedIsFree

LEMMA ExchangeInit == ASSUME X!ExchangeAssumption, X!Init PROVE ExchangeInv
<1>1. /\ tier \in BOOLEAN /\ identity = 0 /\ receipt = None /\ status = "none" /\ retry = FALSE
      /\ attempted \in BOOLEAN /\ x_job.at = "idle" /\ earned = <<>>
      /\ withdrawn = {} /\ expired = {} /\ x_late = {} /\ owed = {}
  BY DEF X!Init, X!Idle
<1>2. X!ExchangeSound
  BY <1>1 DEF X!ExchangeSound, X!TypeOK, X!ContributingIsLive, X!StatusTellsReceipt, X!Receipts
<1>3. EarnedTyped /\ WithdrawsTheHeld /\ LateIsOfTheHeld /\ EarnedIsFree
  BY <1>1 DEF EarnedTyped, WithdrawsTheHeld, LateIsOfTheHeld, EarnedIsFree
<1> QED
  BY <1>2, <1>3 DEF ExchangeInv

\* The receipts so far are the numbers up to the last.
LEMMA Earns == ASSUME ExchangeInv PROVE X!Receipts = 1..Len(earned) /\ Len(earned) \in Nat
  BY DEF ExchangeInv, EarnedTyped, X!Receipts

\* An accepted upload adds the next number to the receipts.
LEMMA OneMoreEarned ==
    ASSUME ExchangeInv, NEW i \in Nat, earned' = Append(earned, i)
    PROVE  /\ earned' \in Seq(Nat) /\ X!Receipts' = X!Receipts \cup {Len(earned) + 1}
           /\ Len(earned) + 1 \notin X!Receipts
<1>1. earned \in Seq(Nat) /\ X!Receipts = 1..Len(earned) /\ Len(earned) \in Nat
  BY Earns DEF ExchangeInv, EarnedTyped
<1>2. earned' \in Seq(Nat) /\ Len(earned') = Len(earned) + 1
  BY <1>1, AppendProperties
<1>3. X!Receipts' = 1..(Len(earned) + 1)
  BY <1>2 DEF X!Receipts
<1> QED
  BY <1>1, <1>2, <1>3

\* When consent ends the receipt held waits to be withdrawn, unless it has already expired.
LEMMA MarksHeld ==
    ASSUME ExchangeInv, X!mark_withdrawal, UNCHANGED <<retry, attempted, X!service>>, tier' \in BOOLEAN
    PROVE  /\ X!ExchangeSound'
           /\ X!pending => UNCHANGED <<receipt, status>>
           /\ owed' \subseteq owed \cup {receipt}
           /\ receipt' \in {receipt, None}
  BY DEF X!mark_withdrawal, ExchangeInv, X!ExchangeSound, X!TypeOK, X!ContributingIsLive, X!StatusTellsReceipt, X!pending, X!service,
         X!Receipts

LEMMA ConsentStep == ASSUME ExchangeInv, X!TurnOff \/ X!TurnOn \/ X!ResetUuid PROVE ExchangeInv'
<1>1. CASE X!TurnOn
  BY <1>1 DEF X!TurnOn, X!held, X!service, ExchangeInv, X!ExchangeSound, X!TypeOK, X!ContributingIsLive, X!StatusTellsReceipt,
     EarnedTyped, WithdrawsTheHeld, LateIsOfTheHeld, EarnedIsFree, X!pending, X!Receipts
<1>2. CASE X!TurnOff \/ X!ResetUuid
  <2>1. X!mark_withdrawal /\ UNCHANGED <<retry, attempted, x_job, X!service>> /\ tier' \in BOOLEAN /\ identity' \in Nat
    <3>1. tier \in BOOLEAN /\ identity \in Nat
      BY DEF ExchangeInv, X!ExchangeSound, X!TypeOK, EarnedTyped
    <3>2. CASE X!TurnOff
      BY <3>1, <3>2 DEF X!TurnOff
    <3>3. CASE X!ResetUuid
      BY <3>1, <3>3 DEF X!ResetUuid
    <3> QED
      BY <1>2, <3>2, <3>3
  <2>2. /\ X!ExchangeSound' /\ (X!pending => UNCHANGED <<receipt, status>>)
        /\ owed' \subseteq owed \cup {receipt} /\ receipt' \in {receipt, None}
    BY <2>1, MarksHeld
  <2>3. UNCHANGED <<x_job, earned, withdrawn, expired, x_late>>
    BY <2>1 DEF X!service
  <2>4. EarnedTyped' /\ WithdrawsTheHeld' /\ LateIsOfTheHeld'
    BY <2>1, <2>2, <2>3 DEF ExchangeInv, EarnedTyped, WithdrawsTheHeld, LateIsOfTheHeld, X!pending
  <2>5. EarnedIsFree'
    BY <2>2, <2>3 DEF ExchangeInv, EarnedIsFree, X!Receipts
  <2> QED
    BY <2>2, <2>4, <2>5 DEF ExchangeInv
<1> QED
  BY <1>1, <1>2

\* A step that leaves the receipts alone, and starts neither a withdrawal nor an upload while
\* a receipt waits.
LEMMA JobGoesOn ==
    ASSUME ExchangeInv, UNCHANGED <<tier, identity, receipt, status, earned, withdrawn, expired, x_late, owed>>,
           retry' \in BOOLEAN, attempted' \in BOOLEAN,
           x_job'.at = "posting" => x_job'.identity = identity /\ ~X!pending,
           x_job'.at = "withdrawing" => X!pending /\ x_job'.receipt = receipt,
           x_job'.at # "storing"
    PROVE  ExchangeInv'
<1>1. X!ExchangeSound' /\ EarnedTyped' /\ WithdrawsTheHeld'
  BY DEF ExchangeInv, X!ExchangeSound, X!TypeOK, X!ContributingIsLive, X!StatusTellsReceipt, EarnedTyped, WithdrawsTheHeld, X!pending,
         X!Receipts
<1>2. LateIsOfTheHeld'
  BY DEF ExchangeInv, LateIsOfTheHeld, X!pending
<1>3. EarnedIsFree'
  BY DEF ExchangeInv, EarnedIsFree, X!Receipts
<1> QED
  BY <1>1, <1>2, <1>3 DEF ExchangeInv

\* An upload starts only when nothing waits to be withdrawn.
LEMMA StartsInOrder ==
    ASSUME NEW by
    PROVE  /\ X!run_exchange(by).at = "posting" => X!run_exchange(by).identity = identity /\ ~X!pending
           /\ X!run_exchange(by).at = "withdrawing" => X!pending /\ X!run_exchange(by).receipt = receipt
           /\ X!run_exchange(by).at # "storing" /\ X!After(by).at \in {"idle", "redemption"}
  BY DEF X!run_exchange, X!Withdrawing, X!Posting, X!After, X!Idle

\* The answer to a withdrawal, of the receipt that is held.
LEMMA WithdrawStep == ASSUME X!ExchangeAssumption, ExchangeInv, X!Withdraw PROVE ExchangeInv'
<1>1. /\ x_job.at = "withdrawing" /\ receipt = x_job.receipt /\ X!pending /\ receipt # None
  BY DEF X!Withdraw, ExchangeInv, WithdrawsTheHeld, X!ExchangeSound, X!StatusTellsReceipt, X!pending
<1>2. /\ withdrawn' = withdrawn \cup X!Ends(receipt) /\ receipt' = None /\ status' \in {"withdrawn", "ended"}
      /\ UNCHANGED <<tier, identity, retry, earned, expired, x_late, owed>>
      /\ X!AfterWithdrawal(TRUE)
  BY <1>1 DEF X!Withdraw, X!consent
<1>3. x_job'.at \in {"due", "posting"} /\ (x_job'.at = "posting" => x_job'.identity = identity) /\ attempted' = attempted
  BY <1>2 DEF X!AfterWithdrawal, X!Posting
<1>4. x_late \subseteq X!Receipts /\ X!Receipts' = X!Receipts /\ X!Ends(receipt) \subseteq X!Receipts
  BY <1>2 DEF ExchangeInv, X!ExchangeSound, X!TypeOK, X!Ends, X!Receipts
<1>5. \A r \in x_late' : r \in withdrawn' \cup expired'
  <2> SUFFICES ASSUME NEW r \in x_late, r \notin withdrawn \cup expired PROVE r \in withdrawn'
    BY <1>2
  <2>1. r = receipt
    BY DEF ExchangeInv, LateIsOfTheHeld
  <2> QED
    BY <1>2, <1>4, <2>1 DEF X!Ends
<1>6. X!ExchangeSound'
  BY <1>2, <1>3, <1>4 DEF ExchangeInv, X!ExchangeSound, X!TypeOK, X!ContributingIsLive, X!StatusTellsReceipt
<1>7. EarnedTyped' /\ WithdrawsTheHeld' /\ LateIsOfTheHeld' /\ EarnedIsFree'
  BY <1>2, <1>3, <1>5 DEF ExchangeInv, EarnedTyped, WithdrawsTheHeld, LateIsOfTheHeld, EarnedIsFree
<1> QED
  BY <1>6, <1>7 DEF ExchangeInv

\* No answer: the receipt still waits, and what may have arrived ends no other.
LEMMA UnheardStep == ASSUME ExchangeInv, X!WithdrawUnanswered PROVE ExchangeInv'
<1>1. /\ x_job.at = "withdrawing" /\ receipt = x_job.receipt /\ X!pending /\ receipt \in X!Receipts
  BY DEF X!WithdrawUnanswered, ExchangeInv, WithdrawsTheHeld, X!ExchangeSound, X!StatusTellsReceipt, X!pending, X!TypeOK
<1>2. /\ withdrawn' \in {withdrawn, withdrawn \cup X!Ends(receipt)} /\ x_late' \in {x_late, x_late \cup {receipt}}
      /\ UNCHANGED <<tier, identity, retry, earned, expired, owed, receipt, status>>
      /\ X!AfterWithdrawal(FALSE)
  BY <1>1 DEF X!WithdrawUnanswered, X!Unresolved, X!consent
<1>3. x_job'.at \in {"due", "idle", "redemption"} /\ attempted' \in BOOLEAN
  <2>1. attempted' = attempted \/ attempted' = TRUE
    BY <1>2 DEF X!AfterWithdrawal
  <2>2. attempted \in BOOLEAN
    BY DEF ExchangeInv, X!ExchangeSound, X!TypeOK
  <2>3. x_job'.at \in {"due", "idle", "redemption"}
    BY <1>2 DEF X!AfterWithdrawal, X!After, X!Idle
  <2> QED
    BY <2>1, <2>2, <2>3
<1>4. X!Receipts' = X!Receipts /\ X!Ends(receipt) \subseteq X!Receipts
  BY <1>2 DEF X!Ends, X!Receipts
<1>5. X!ExchangeSound'
  BY <1>1, <1>2, <1>3, <1>4 DEF ExchangeInv, X!ExchangeSound, X!TypeOK, X!ContributingIsLive, X!StatusTellsReceipt, X!pending
<1>6. LateIsOfTheHeld'
  BY <1>1, <1>2, <1>3 DEF ExchangeInv, LateIsOfTheHeld, X!pending
<1>7. EarnedTyped' /\ WithdrawsTheHeld' /\ EarnedIsFree'
  BY <1>2, <1>3 DEF ExchangeInv, EarnedTyped, WithdrawsTheHeld, EarnedIsFree
<1> QED
  BY <1>5, <1>6, <1>7 DEF ExchangeInv

\* A withdrawal that arrives late ends receipts only while one waits: none is in use, and no
\* upload has just earned one.
LEMMA LateStep == ASSUME ExchangeInv, NEW r \in X!Receipts, X!LateArrives(r) PROVE ExchangeInv'
<1>1. /\ r \in x_late /\ withdrawn' = withdrawn \cup X!Ends(r) /\ x_late' = x_late \ {r}
      /\ UNCHANGED <<tier, identity, receipt, status, retry, attempted, x_job, earned, expired, owed>>
  BY DEF X!LateArrives, X!consent, X!held
<1>2. X!Ends(r) = {} \/ (X!pending /\ x_job.at \notin {"posting", "storing"})
  BY <1>1 DEF ExchangeInv, LateIsOfTheHeld, X!Ends
<1>3. X!Ends(r) \subseteq X!Receipts /\ X!Receipts' = X!Receipts /\ X!pending' = X!pending
  BY <1>1 DEF X!Ends, X!Receipts, X!pending
<1>4. X!ExchangeSound'
  BY <1>1, <1>2, <1>3 DEF ExchangeInv, X!ExchangeSound, X!TypeOK, X!ContributingIsLive, X!StatusTellsReceipt, X!pending
<1>5. EarnedTyped' /\ WithdrawsTheHeld' /\ LateIsOfTheHeld'
  BY <1>1, <1>3 DEF ExchangeInv, EarnedTyped, WithdrawsTheHeld, LateIsOfTheHeld
<1>6. EarnedIsFree'
  BY <1>1, <1>2, <1>3 DEF ExchangeInv, EarnedIsFree
<1> QED
  BY <1>4, <1>5, <1>6 DEF ExchangeInv

\* The service takes the upload and may issue the next receipt, whoever hears of it.
LEMMA PostStep == ASSUME X!ExchangeAssumption, ExchangeInv, X!PostAccepted \/ X!PostFails PROVE ExchangeInv'
<1>1. /\ x_job.at = "posting" /\ x_job.identity \in Nat
      /\ UNCHANGED <<tier, identity, receipt, status, retry, attempted, withdrawn, expired, x_late, owed>>
  BY DEF X!PostAccepted, X!PostFails, X!consent, X!held, ExchangeInv, EarnedTyped
<1>2. earned' \in {earned, Append(earned, x_job.identity)}
  BY DEF X!PostAccepted, X!PostFails
<1>3. /\ x_job'.at \in {"posting", "storing"}
      /\ x_job'.at = "posting" => x_job'.identity = x_job.identity
      /\ x_job'.at = "storing" /\ x_job'.block # None => earned' = Append(earned, x_job.identity) /\ x_job'.block = Len(earned) + 1
  <2>1. CASE X!PostAccepted
    BY <2>1 DEF X!PostAccepted
  <2>2. CASE X!PostFails
    BY <1>1, <2>2 DEF X!PostFails, X!Failed
  <2> QED
    BY <2>1, <2>2
<1>4. /\ earned' \in Seq(Nat) /\ X!Receipts \subseteq X!Receipts'
      /\ earned' = Append(earned, x_job.identity) => Len(earned) + 1 \in X!Receipts' \ X!Receipts
  <2>1. CASE earned' = earned
    BY <2>1, Earns, AppendProperties DEF ExchangeInv, EarnedTyped, X!Receipts
  <2>2. CASE earned' = Append(earned, x_job.identity)
    BY <1>1, <2>2, OneMoreEarned
  <2> QED
    BY <1>2, <2>1, <2>2
<1>5. X!ExchangeSound'
  BY <1>1, <1>4 DEF ExchangeInv, X!ExchangeSound, X!TypeOK, X!ContributingIsLive, X!StatusTellsReceipt
<1>6. EarnedTyped' /\ WithdrawsTheHeld'
  BY <1>1, <1>3, <1>4 DEF ExchangeInv, EarnedTyped, WithdrawsTheHeld
<1>7. LateIsOfTheHeld'
  BY <1>1 DEF ExchangeInv, LateIsOfTheHeld, X!pending
<1>8. EarnedIsFree'
  <2>1. withdrawn \cup owed \subseteq X!Receipts /\ receipt \in X!Receipts \cup {None}
    BY DEF ExchangeInv, X!ExchangeSound, X!TypeOK
  <2> QED
    BY <1>1, <1>3, <1>4, <2>1 DEF EarnedIsFree
<1> QED
  BY <1>5, <1>6, <1>7, <1>8 DEF ExchangeInv

\* The receipt just earned replaces the one held; it is in use only if consent still stands
\* and nothing waits.
LEMMA StoreStep == ASSUME ExchangeInv, X!Store PROVE ExchangeInv'
<1>1. /\ x_job.at = "storing" /\ attempted' = TRUE /\ tier' \in BOOLEAN /\ x_job'.at = "delivering"
      /\ UNCHANGED <<identity, retry, earned, withdrawn, expired, x_late>>
  BY DEF X!Store, X!service
<1>2. \A r \in x_late : r \in withdrawn \cup expired
  BY <1>1 DEF ExchangeInv, LateIsOfTheHeld
<1>3. EarnedTyped' /\ WithdrawsTheHeld' /\ LateIsOfTheHeld' /\ EarnedIsFree'
  BY <1>1, <1>2 DEF ExchangeInv, EarnedTyped, WithdrawsTheHeld, LateIsOfTheHeld, EarnedIsFree
<1>4. CASE x_job.block # None
  <2>1. x_job.block \in X!Receipts \ (withdrawn \cup owed \cup {receipt}) /\ X!Receipts' = X!Receipts
    BY <1>1, <1>4 DEF ExchangeInv, EarnedIsFree, X!Receipts
  <2>2. /\ receipt' = x_job.block
        /\ \/ status' = "contributing" /\ owed' = owed
           \/ status' = "withdrawal_pending" /\ owed' = owed \cup {x_job.block}
    BY <1>4 DEF X!Store, X!after_exchange
  <2>3. X!ExchangeSound'
    BY <1>1, <1>4, <2>1, <2>2 DEF ExchangeInv, X!ExchangeSound, X!TypeOK, X!ContributingIsLive, X!StatusTellsReceipt
  <2> QED
    BY <1>3, <2>3 DEF ExchangeInv
<1>5. CASE x_job.block = None
  <2>1. X!mark_withdrawal \/ UNCHANGED <<receipt, status, owed>>
    BY <1>5 DEF X!Store
  <2>2. X!ExchangeSound'
    BY <1>1, <2>1 DEF X!mark_withdrawal, ExchangeInv, X!ExchangeSound, X!TypeOK, X!ContributingIsLive, X!StatusTellsReceipt, X!pending,
       X!Receipts
  <2> QED
    BY <1>3, <2>2 DEF ExchangeInv
<1> QED
  BY <1>4, <1>5

\* A receipt the service has ended is dropped.
LEMMA RedeemStep == ASSUME ExchangeInv, X!Redeem PROVE ExchangeInv'
<1>1. /\ x_job.at = "redeeming" /\ x_job'.at \in {"idle", "delivering"} /\ retry' \in BOOLEAN
      /\ UNCHANGED <<tier, identity, attempted, earned, withdrawn, expired, x_late, owed>>
      /\ \/ UNCHANGED <<receipt, status>>
         \/ receipt \in withdrawn \cup expired /\ receipt' = None /\ status' \in {"ended", "withdrawn"}
  <2>1. /\ x_job.at = "redeeming" /\ UNCHANGED <<tier, identity, attempted, earned, withdrawn, expired, x_late, owed>>
    BY DEF X!Redeem, X!consent, X!service
  <2>2. retry \in BOOLEAN /\ (retry' = retry \/ retry' = FALSE)
    BY DEF X!Redeem, X!held, ExchangeInv, X!ExchangeSound, X!TypeOK
  <2>3. /\ x_job'.at \in {"idle", "delivering"}
        /\ \/ UNCHANGED <<receipt, status>>
           \/ receipt \in withdrawn \cup expired /\ receipt' = None /\ status' \in {"ended", "withdrawn"}
    BY DEF X!Redeem, X!held, X!Idle
  <2> QED
    BY <2>1, <2>2, <2>3
<1>2. X!ExchangeSound'
  BY <1>1 DEF ExchangeInv, X!ExchangeSound, X!TypeOK, X!ContributingIsLive, X!StatusTellsReceipt, X!Receipts
<1>3. LateIsOfTheHeld'
  BY <1>1 DEF ExchangeInv, LateIsOfTheHeld, X!pending
<1>4. EarnedTyped' /\ WithdrawsTheHeld' /\ EarnedIsFree'
  BY <1>1 DEF ExchangeInv, EarnedTyped, WithdrawsTheHeld, EarnedIsFree
<1> QED
  BY <1>2, <1>3, <1>4 DEF ExchangeInv

\* A receipt that expires authorizes less, never more.
LEMMA ExpireStep == ASSUME ExchangeInv, NEW r \in X!Receipts, X!Expire(r) PROVE ExchangeInv'
<1>1. expired' = expired \cup {r}
      /\ UNCHANGED <<tier, identity, receipt, status, retry, attempted, x_job, earned, withdrawn, x_late, owed>>
  BY DEF X!Expire, X!consent, X!held
<1> QED
  BY <1>1 DEF ExchangeInv, X!ExchangeSound, X!TypeOK, X!ContributingIsLive, X!StatusTellsReceipt, EarnedTyped, WithdrawsTheHeld,
     LateIsOfTheHeld, EarnedIsFree, X!pending, X!Receipts

LEMMA ExchangeStep == ASSUME X!ExchangeAssumption, ExchangeInv, [X!Next]_(X!vars) PROVE ExchangeInv'
<1> USE DEF X!consent, X!held, X!service
<1>0. retry \in BOOLEAN /\ attempted \in BOOLEAN /\ tier \in BOOLEAN
  BY DEF ExchangeInv, X!ExchangeSound, X!TypeOK
<1>1. CASE X!TurnOff \/ X!TurnOn \/ X!ResetUuid
  BY <1>1, ConsentStep
<1>2. CASE X!Tick
  BY <1>0, <1>2, JobGoesOn DEF X!Tick, X!Withdrawing, X!Idle
<1>3. CASE X!Due
  <2>1. PICK j \in {X!run_exchange("tick"), X!After("tick")} : x_job' = j
    BY <1>3 DEF X!Due
  <2>2. UNCHANGED <<tier, identity, receipt, status, retry, attempted, earned, withdrawn, expired, x_late, owed>>
    BY <1>3 DEF X!Due
  <2> QED
    <3>1. /\ x_job'.at = "posting" => x_job'.identity = identity /\ ~X!pending
          /\ x_job'.at = "withdrawing" => X!pending /\ x_job'.receipt = receipt
          /\ x_job'.at # "storing"
      BY <2>1, StartsInOrder
    <3> QED
      BY <1>0, <2>2, <3>1, JobGoesOn
<1>4. CASE X!SendNow
  <2>1. x_job' = X!run_exchange("button")
        /\ UNCHANGED <<tier, identity, receipt, status, retry, attempted, earned, withdrawn, expired, x_late, owed>>
    BY <1>4 DEF X!SendNow
  <2> QED
    <3>1. /\ x_job'.at = "posting" => x_job'.identity = identity /\ ~X!pending
          /\ x_job'.at = "withdrawing" => X!pending /\ x_job'.receipt = receipt
          /\ x_job'.at # "storing"
      BY <2>1, StartsInOrder
    <3> QED
      BY <1>0, <2>1, <3>1, JobGoesOn
<1>5. CASE X!Withdraw
  BY <1>5, WithdrawStep
<1>6. CASE X!WithdrawUnanswered
  BY <1>6, UnheardStep
<1>7. CASE X!PostAccepted \/ X!PostFails
  BY <1>7, PostStep
<1>8. CASE X!Store
  BY <1>8, StoreStep
<1>9. CASE X!Deliver
  <2>1. x_job'.at \in {"idle", "redemption"} /\ retry' \in BOOLEAN
        /\ UNCHANGED <<tier, identity, receipt, status, attempted, earned, withdrawn, expired, x_late, owed>>
    BY <1>0, <1>9 DEF X!Deliver, X!Owing, X!After, X!Idle
  <2> QED
    BY <1>0, <2>1, JobGoesOn
<1>10. CASE X!RedemptionDue \/ X!RedeemFails \/ X!Crash \/ X!NextDay
  <2>1. /\ x_job'.at \in {"idle", "redeeming"} \/ x_job' = x_job
        /\ retry' \in BOOLEAN /\ attempted' \in BOOLEAN
        /\ UNCHANGED <<tier, identity, receipt, status, earned, withdrawn, expired, x_late, owed>>
    <3>1. CASE X!RedemptionDue
      BY <1>0, <3>1 DEF X!RedemptionDue, X!Idle
    <3>2. CASE X!RedeemFails
      <4>1. retry' \in BOOLEAN
        BY <1>0, <3>2 DEF X!RedeemFails
      <4> QED
        BY <1>0, <3>2, <4>1 DEF X!RedeemFails, X!Idle
    <3>3. CASE X!Crash
      BY <1>0, <3>3 DEF X!Crash, X!Idle
    <3>4. CASE X!NextDay
      BY <1>0, <3>4 DEF X!NextDay
    <3> QED
      BY <1>10, <3>1, <3>2, <3>3, <3>4
  <2>2. CASE x_job' = x_job
    BY <1>0, <2>1, <2>2 DEF ExchangeInv, X!ExchangeSound, X!TypeOK, X!ContributingIsLive, X!StatusTellsReceipt, EarnedTyped,
       WithdrawsTheHeld, LateIsOfTheHeld, EarnedIsFree, X!pending, X!Receipts
  <2> QED
    BY <2>1, <2>2, JobGoesOn
<1>11. CASE X!Redeem
  BY <1>11, RedeemStep
<1>12. CASE \E r \in X!Receipts : X!LateArrives(r) \/ X!Expire(r)
  BY <1>12, LateStep, ExpireStep
<1>13. CASE UNCHANGED X!vars
  BY <1>13 DEF X!vars, ExchangeInv, X!ExchangeSound, X!TypeOK, X!ContributingIsLive, X!StatusTellsReceipt, EarnedTyped,
     WithdrawsTheHeld, LateIsOfTheHeld, EarnedIsFree, X!pending, X!Receipts
<1> QED
  BY <1>1, <1>2, <1>3, <1>4, <1>5, <1>6, <1>7, <1>8, <1>9, <1>10, <1>11, <1>12, <1>13 DEF X!Next, X!Work

\* What a step of the composition is for the exchange.
LEMMA ExchangeAlone == [Next]_vars => [X!Next]_(X!vars)
  BY DEF Next, vars, exchange, X!vars, X!consent, X!held, X!service, X!bounds

\* A receipt in use was not ended by a withdrawal of this instance's own, however late one
\* arrived and wherever the job crashed; what waits to be withdrawn is a receipt, and one in
\* use is never owed (core/participation.py, core/sharing.py).
THEOREM ReceiptsAreSound == Spec => []ExchangeSound
<1>1. Init => ExchangeInv
  BY ServicesAssumption, ExchangeInit DEF Init
<1>2. ExchangeInv /\ [Next]_vars => ExchangeInv'
  BY ServicesAssumption, ExchangeAlone, ExchangeStep
<1>3. ExchangeInv => ExchangeSound
  BY DEF ExchangeInv, ExchangeSound
<1> QED
  BY <1>1, <1>2, <1>3, PTL DEF Spec

-----------------------------------------------------------------------------
(* Intelligence.                                                            *)

Ops == {"activate", "rotate", "refresh", "disconnect", "tick"}
AccessJobs ==
    [at: {"idle"}] \cup [at: {"lock"}, op: Ops] \cup [at: {"request"}, op: Ops, key: Nat \cup {None}]
        \cup [at: {"download", "done", "failed"}, key: Nat \cup {None}]
AccessTyped ==
    /\ issued \in Nat /\ secrets \in Nat /\ today \in 0..MaxAccessDays /\ lost \in BOOLEAN
    /\ credential \in 1 .. issued \cup {None} /\ live \in 1 .. issued \cup {None}
    /\ entitlement \in {"paid", "expired", "revoked"}
    /\ i_job \in [Processes -> AccessJobs]
    /\ last \in 0 .. today \cup {None}

\* A request is made by the holder of the row, with the credential of the row: nobody
\* replaces it meanwhile, and the day of a scheduled one is still open.
RequestHoldsRow ==
    \A w \in Processes :
        i_job[w].at = "request" =>
            /\ i_row = w /\ i_job[w].key = credential
            /\ i_job[w].op # "activate" => credential # None
            /\ i_job[w].op = "tick" => last # today
            /\ i_job[w].op # "disconnect"

AccessInv == I!AccessSound /\ AccessTyped /\ RequestHoldsRow

\* Nobody has activated anything at first.
LEMMA AccessInit == ASSUME I!IntelligenceAssumption, I!Init PROVE AccessInv
<1>1. I!AccessSound
  BY DEF I!IntelligenceAssumption, I!Init, I!AccessSound, I!TypeOK, I!KeyIsLive, I!EndedIsTold
<1>2. AccessTyped /\ RequestHoldsRow
  <2>1. MaxSecrets \in Nat /\ MaxAccessDays \in Nat
    BY DEF I!IntelligenceAssumption
  <2>2. I!Idle \in AccessJobs /\ I!Idle.at # "request"
    BY DEF I!Idle, AccessJobs
  <2>3. i_job \in [Processes -> AccessJobs] /\ \A w \in Processes : i_job[w].at # "request"
    BY <2>2 DEF I!Init
  <2>4. issued = 0 /\ secrets = MaxSecrets /\ today = 0 /\ lost = FALSE /\ credential = None /\ live = None
        /\ entitlement = "paid" /\ last = None
    BY DEF I!Init
  <2>5. 0 \in Nat /\ 0 \in 0..MaxAccessDays
    BY <2>1
  <2>6. AccessTyped
    BY <2>1, <2>3, <2>4, <2>5 DEF AccessTyped
  <2> QED
    BY <2>3, <2>6 DEF RequestHoldsRow
<1> QED
  BY <1>1, <1>2 DEF AccessInv

\* A process whose job is not a request goes on to something that is none either, and changes
\* nothing of the row or what is in it.
LEMMA RequestsRest ==
    ASSUME AccessInv, NEW w \in Processes, NEW to \in AccessJobs, I!Goes(w, to), to.at # "request",
           \A v \in Processes : i_job[v].at = "request" => v = w \/ UNCHANGED <<credential, last, today, i_row>>
    PROVE  i_job' \in [Processes -> AccessJobs] /\ RequestHoldsRow'
<1>1. i_job \in [Processes -> AccessJobs] /\ RequestHoldsRow
  BY DEF AccessInv, AccessTyped
<1>2. i_job'[w] = to /\ (\A v \in Processes \ {w} : i_job'[v] = i_job[v]) /\ i_job' \in [Processes -> AccessJobs]
  BY <1>1 DEF I!Goes
<1> QED
  BY <1>1, <1>2 DEF RequestHoldsRow

\* A grant replaces the credential at the service and in the row at once.
LEMMA AccessGrant ==
    ASSUME I!IntelligenceAssumption, AccessInv, NEW w \in Processes, i_job[w].at = "request", I!activate(w)
    PROVE  AccessInv'
<1>1. /\ issued' = issued + 1 /\ live' = issued + 1 /\ credential' = issued + 1
      /\ secrets' = (IF i_job[w].op = "activate" THEN secrets - 1 ELSE secrets)
      /\ shown' = "paid" /\ until' = TRUE /\ error' = FALSE /\ last' = None /\ i_row' = None
      /\ UNCHANGED <<entitlement, lost, twice, today>>
      /\ i_job[w].op = "activate" => secrets > 0
  BY DEF I!activate, I!Issue, I!Grantable, I!ghosts, I!bounds
<1>2. issued' \in Nat /\ secrets' \in Nat
  BY <1>1 DEF AccessInv, AccessTyped
<1>3. PICK to \in AccessJobs : I!Goes(w, to) /\ to.at # "request"
  BY DEF I!activate, AccessJobs, Ops, I!Idle
<1>4. \A v \in Processes : i_job[v].at = "request" => v = w
  BY DEF AccessInv, RequestHoldsRow
<1>5. i_job' \in [Processes -> AccessJobs] /\ RequestHoldsRow'
  BY <1>3, <1>4, RequestsRest
<1>6. AccessTyped'
  BY <1>1, <1>2, <1>5 DEF AccessInv, AccessTyped
<1>7. I!AccessSound'
  BY <1>1, <1>2, <1>6 DEF AccessInv, I!AccessSound, I!TypeOK, I!KeyIsLive, I!EndedIsTold, AccessTyped
<1> QED
  BY <1>5, <1>6, <1>7 DEF AccessInv

\* A grant that is refused or not heard of leaves what is held; one whose reply is lost is
\* remembered as such.
LEMMA AccessRefusal ==
    ASSUME I!IntelligenceAssumption, AccessInv, NEW w \in Processes, i_job[w].at = "request", I!refusal(w)
    PROVE  AccessInv'
<1>1. /\ error' = TRUE /\ i_row' = None /\ I!Goes(w, I!Idle) /\ UNCHANGED <<credential, shown, until, last, twice, today>>
  BY DEF I!refusal, I!ghosts, I!bounds, I!Fault
<1>2. UNCHANGED I!service \/ (I!Grantable(w) /\ I!Issue(w) /\ lost' = TRUE)
  BY DEF I!refusal
<1>3. \A v \in Processes : i_job[v].at = "request" => v = w
  BY DEF AccessInv, RequestHoldsRow
<1>4. I!Idle \in AccessJobs /\ I!Idle.at # "request"
  BY DEF AccessJobs, I!Idle
<1>5. i_job' \in [Processes -> AccessJobs] /\ RequestHoldsRow'
  BY <1>1, <1>3, <1>4, RequestsRest
<1>6. CASE UNCHANGED I!service
  <2>1. AccessTyped'
    BY <1>1, <1>5, <1>6 DEF AccessInv, AccessTyped, I!service
  <2>2. I!AccessSound'
    BY <1>1, <1>6 DEF AccessInv, I!AccessSound, I!TypeOK, I!KeyIsLive, I!EndedIsTold, I!service
  <2> QED
    BY <1>5, <2>1, <2>2 DEF AccessInv
<1>7. CASE I!Grantable(w) /\ I!Issue(w) /\ lost' = TRUE
  <2>1. /\ issued' = issued + 1 /\ live' = issued + 1 /\ UNCHANGED entitlement
        /\ secrets' = (IF i_job[w].op = "activate" THEN secrets - 1 ELSE secrets)
        /\ i_job[w].op = "activate" => secrets > 0
    BY <1>7 DEF I!Issue, I!Grantable
  <2>2. issued \in Nat /\ issued' \in Nat /\ secrets' \in Nat
    BY <2>1 DEF AccessInv, AccessTyped
  <2>3. credential' \in 1..issued' \cup {None} /\ live' \in 1..issued' \cup {None}
    BY <1>1, <2>1, <2>2 DEF AccessInv, AccessTyped
  <2>4. AccessTyped'
    BY <1>1, <1>5, <1>7, <2>1, <2>2, <2>3 DEF AccessInv, AccessTyped
  <2>5. I!AccessSound'
    BY <1>1, <1>7, <2>3 DEF AccessInv, I!AccessSound, I!TypeOK, I!KeyIsLive, I!EndedIsTold
  <2> QED
    BY <1>5, <2>4, <2>5 DEF AccessInv
<1> QED
  BY <1>2, <1>6, <1>7

\* A refresh asks with the credential of the row: unless a reply was lost it is the one the
\* service honours, which then says nothing but how the access stands.
LEMMA AccessAnswer ==
    ASSUME I!IntelligenceAssumption, AccessInv, NEW w \in Processes, i_job[w].at = "request",
           I!Answered(w) \/ I!Unavailable(w)
    PROVE  AccessInv'
<1>1. /\ i_job[w].key = credential /\ credential # None /\ (i_job[w].op = "tick" => last # today)
      /\ \A v \in Processes : i_job[v].at = "request" => v = w
  BY DEF AccessInv, RequestHoldsRow, I!Answered, I!Unavailable, I!Grants
<1>2. twice' = FALSE /\ last' = today /\ i_row' = None /\ UNCHANGED <<credential, I!service, today>>
  <2>1. twice = FALSE
    BY DEF AccessInv, I!AccessSound, I!TypeOK
  <2>2. twice' = (twice \/ (i_job[w].op = "tick" /\ last = today))
    BY DEF I!Answered, I!Unavailable, I!Asked
  <2>3. last' = today /\ i_row' = None /\ UNCHANGED <<credential, I!service, today>>
    BY DEF I!Answered, I!Unavailable, I!bounds, I!Fault
  <2> QED
    BY <1>1, <2>1, <2>2, <2>3
<1>3. i_job[w].key \in Nat \cup {None}
  <2>1. i_job[w] \in AccessJobs
    BY DEF AccessInv, AccessTyped
  <2> QED
    BY <2>1 DEF AccessJobs
<1>4. CASE I!Answered(w)
  <2> DEFINE said == I!Says(i_job[w].key)
  <2>1. /\ shown' = said
        /\ until' = (IF said = "paid" THEN TRUE ELSE IF said = "revoked" THEN FALSE ELSE until)
        /\ error' = (said # "paid")
    BY <1>4 DEF I!Answered
  <2>2. /\ said \in {"paid", "expired", "revoked", "credential_invalid"}
        /\ said = "credential_invalid" => lost
    BY <1>1 DEF I!Says, AccessInv, AccessTyped, I!AccessSound, I!KeyIsLive
  <2>3. PICK to \in AccessJobs : I!Goes(w, to) /\ to.at # "request"
    BY <1>3, <1>4 DEF I!Answered, AccessJobs, I!Idle
  <2>4. i_job' \in [Processes -> AccessJobs] /\ RequestHoldsRow'
    BY <1>1, <2>3, RequestsRest
  <2>5. AccessTyped'
    BY <1>2, <2>4 DEF AccessInv, AccessTyped, I!service
  <2>6. error' \in BOOLEAN /\ until' \in BOOLEAN
    BY <2>1 DEF AccessInv, I!AccessSound, I!TypeOK
  <2>7. last' \in 0..MaxAccessDays \cup {None} /\ i_row' \in Processes \cup {None} /\ twice' \in BOOLEAN
    BY <1>2 DEF AccessInv, AccessTyped
  <2>8. I!AccessSound'
    BY <1>2, <2>1, <2>2, <2>6, <2>7 DEF AccessInv, I!AccessSound, I!TypeOK, I!KeyIsLive, I!EndedIsTold, I!service
  <2> QED
    BY <2>4, <2>5, <2>8 DEF AccessInv
<1>5. CASE I!Unavailable(w)
  <2>1. error' = TRUE /\ I!Goes(w, I!Idle) /\ UNCHANGED <<shown, until>>
    BY <1>5 DEF I!Unavailable
  <2>2. I!Idle \in AccessJobs /\ I!Idle.at # "request"
    BY DEF AccessJobs, I!Idle
  <2>3. i_job' \in [Processes -> AccessJobs] /\ RequestHoldsRow'
    BY <1>1, <2>1, <2>2, RequestsRest
  <2>4. AccessTyped'
    BY <1>2, <2>3 DEF AccessInv, AccessTyped, I!service
  <2>5. last' \in 0..MaxAccessDays \cup {None}
    BY <1>2 DEF AccessInv, AccessTyped
  <2>6. I!AccessSound'
    BY <1>2, <2>1, <2>5 DEF AccessInv, I!AccessSound, I!TypeOK, I!KeyIsLive, I!EndedIsTold, I!service
  <2> QED
    BY <2>3, <2>4, <2>6 DEF AccessInv
<1> QED
  BY <1>4, <1>5

\* The row is taken for a request, or its credential is dropped, while nobody else holds it.
LEMMA AccessLock ==
    ASSUME I!IntelligenceAssumption, AccessInv, NEW w \in Processes, I!locked_settings(w)
    PROVE  AccessInv'
<1>1. /\ i_job[w].at = "lock" /\ i_row = None /\ i_job[w].op \in Ops
      /\ UNCHANGED <<issued, live, secrets, entitlement, lost, twice, today>>
  BY DEF I!locked_settings, AccessInv, AccessTyped, AccessJobs, I!service, I!ghosts, I!bounds
<1>2. \A v \in Processes : i_job[v].at # "request"
  BY <1>1 DEF AccessInv, RequestHoldsRow, I!IntelligenceAssumption
<1>3. I!Idle \in AccessJobs /\ I!Idle.at # "request"
  BY DEF AccessJobs, I!Idle
<1>4. CASE i_job[w].op = "disconnect"
  <2>1. /\ credential' = None /\ shown' = "disconnected" /\ until' = FALSE /\ error' = FALSE
        /\ I!Goes(w, I!Idle) /\ UNCHANGED <<i_row, last, fetched>>
    BY <1>4 DEF I!locked_settings
  <2>2. i_job' \in [Processes -> AccessJobs] /\ RequestHoldsRow'
    BY <1>2, <1>3, <2>1, RequestsRest
  <2>3. AccessTyped'
    BY <1>1, <2>1, <2>2 DEF AccessInv, AccessTyped
  <2>4. I!AccessSound'
    BY <1>1, <2>1 DEF AccessInv, I!AccessSound, I!TypeOK, I!KeyIsLive, I!EndedIsTold
  <2> QED
    BY <2>2, <2>3, <2>4 DEF AccessInv
<1>5. CASE i_job[w].op # "disconnect"
  <2>1. UNCHANGED <<credential, shown, until, error, last, fetched>>
    BY <1>5 DEF I!locked_settings, I!status
  <2>2. CASE I!Refuses(i_job[w].op)
    <3>1. I!Goes(w, I!Idle) /\ UNCHANGED i_row
      BY <1>5, <2>2 DEF I!locked_settings
    <3>2. i_job' \in [Processes -> AccessJobs] /\ RequestHoldsRow'
      BY <1>2, <1>3, <3>1, RequestsRest
    <3>3. AccessTyped' /\ I!AccessSound'
      BY <1>1, <2>1, <3>1, <3>2 DEF AccessInv, AccessTyped, I!AccessSound, I!TypeOK, I!KeyIsLive, I!EndedIsTold
    <3> QED
      BY <3>2, <3>3 DEF AccessInv
  <2>3. CASE ~I!Refuses(i_job[w].op)
    <3> DEFINE to == [at |-> "request", op |-> i_job[w].op, key |-> credential]
    <3>1. I!Goes(w, to) /\ i_row' = w
      BY <1>5, <2>3 DEF I!locked_settings
    <3>2. i_job \in [Processes -> AccessJobs] /\ credential \in Nat \cup {None}
      BY DEF AccessInv, AccessTyped
    <3>3. to \in AccessJobs
      BY <1>1, <3>2 DEF AccessJobs
    <3>4. i_job'[w] = to /\ (\A v \in Processes \ {w} : i_job'[v] = i_job[v]) /\ i_job' \in [Processes -> AccessJobs]
      BY <3>1, <3>2, <3>3 DEF I!Goes
    <3>5. i_job[w].op # "activate" => credential # None
      BY <2>3 DEF I!Refuses
    <3>6. i_job[w].op = "tick" => last # today
      BY <2>3 DEF I!Refuses, I!Due
    <3>7. RequestHoldsRow'
      BY <1>1, <1>2, <1>5, <2>1, <3>1, <3>4, <3>5, <3>6 DEF RequestHoldsRow
    <3>8. AccessTyped' /\ I!AccessSound'
      BY <1>1, <2>1, <3>1, <3>4 DEF AccessInv, AccessTyped, I!AccessSound, I!TypeOK, I!KeyIsLive, I!EndedIsTold
    <3> QED
      BY <3>7, <3>8 DEF AccessInv
  <2> QED
    BY <2>2, <2>3
<1> QED
  BY <1>4, <1>5

\* A process that holds no row, or gives it up, goes somewhere else; nothing it could change
\* besides is among what the service and the row agree on.
LEMMA AccessAside ==
    ASSUME I!IntelligenceAssumption, AccessInv, NEW w \in Processes, NEW to \in AccessJobs,
           I!Goes(w, to), to.at # "request", i_row' = i_row \/ (i_row = w /\ i_row' = None),
           error' \in BOOLEAN, UNCHANGED <<credential, shown, until, last, I!service, twice, today>>
    PROVE  AccessInv'
<1>1. \A v \in Processes : i_job[v].at = "request" => v = w \/ UNCHANGED i_row
  BY DEF AccessInv, RequestHoldsRow
<1>2. i_job' \in [Processes -> AccessJobs] /\ RequestHoldsRow'
  BY <1>1, RequestsRest
<1>3. AccessTyped'
  BY <1>2 DEF AccessInv, AccessTyped, I!service
<1>4. I!AccessSound'
  BY DEF AccessInv, I!AccessSound, I!TypeOK, I!KeyIsLive, I!EndedIsTold, I!service
<1> QED
  BY <1>2, <1>3, <1>4 DEF AccessInv

\* Every step keeps it.
LEMMA AccessStep == ASSUME I!IntelligenceAssumption, AccessInv, [I!Next]_(I!vars) PROVE AccessInv'
<1>0. I!Idle \in AccessJobs /\ I!Idle.at # "request" /\ error \in BOOLEAN /\ \A w \in Processes : i_job[w] \in AccessJobs
  BY DEF AccessJobs, I!Idle, AccessInv, AccessTyped, I!AccessSound, I!TypeOK
<1>1. ASSUME NEW w \in Processes, I!Press(w) PROVE AccessInv'
  <2>1. PICK op \in Ops : I!Goes(w, [at |-> "lock", op |-> op])
    BY <1>1 DEF I!Press, Ops
  <2>2. [at |-> "lock", op |-> op] \in AccessJobs /\ [at |-> "lock", op |-> op].at # "request"
    BY DEF AccessJobs
  <2>3. UNCHANGED <<credential, shown, until, error, last, i_row, I!service, twice, today>>
    BY <1>1 DEF I!Press, I!status, I!ghosts
  <2> QED
    BY <1>0, <2>1, <2>2, <2>3, AccessAside
<1>2. ASSUME NEW w \in Processes, I!Tick(w) PROVE AccessInv'
  <2>1. I!Goes(w, [at |-> "lock", op |-> "tick"])
    BY <1>2 DEF I!Tick
  <2>2. [at |-> "lock", op |-> "tick"] \in AccessJobs /\ [at |-> "lock", op |-> "tick"].at # "request"
    BY DEF AccessJobs, Ops
  <2>3. UNCHANGED <<credential, shown, until, error, last, i_row, I!service, twice, today>>
    BY <1>2 DEF I!Tick, I!status, I!ghosts, I!bounds
  <2> QED
    BY <1>0, <2>1, <2>2, <2>3, AccessAside
<1>3. ASSUME NEW w \in Processes, I!Works(w) PROVE AccessInv'
  <2>1. CASE I!locked_settings(w)
    BY <2>1, AccessLock
  <2>2. CASE I!activate(w)
    BY <2>2, AccessGrant DEF I!activate
  <2>3. CASE I!refusal(w)
    BY <2>3, AccessRefusal DEF I!refusal
  <2>4. CASE I!Answered(w) \/ I!Unavailable(w)
    BY <2>4, AccessAnswer DEF I!Answered, I!Unavailable
  <2>5. CASE I!Download(w)
    <3>1. i_job[w] \in [at: {"download", "done", "failed"}, key: Nat \cup {None}]
      BY <1>0, <2>5 DEF I!Download, AccessJobs
    <3>2. PICK to \in {[i_job[w] EXCEPT !.at = "done"], [i_job[w] EXCEPT !.at = "failed"]} : I!Goes(w, to)
      BY <2>5 DEF I!Download
    <3>3. to \in AccessJobs /\ to.at # "request"
      BY <3>1, <3>2 DEF AccessJobs
    <3>4. UNCHANGED <<credential, shown, until, error, last, i_row, I!service, twice, today>>
      BY <2>5 DEF I!Download, I!status, I!ghosts, I!bounds, I!Fault
    <3> QED
      BY <1>0, <3>2, <3>3, <3>4, AccessAside
  <2>6. CASE I!Finish(w)
    <3>1. UNCHANGED <<credential, shown, until, last, i_row, I!service, twice, today>> /\ I!Goes(w, I!Idle)
      BY <2>6 DEF I!Finish, I!ghosts, I!bounds
    <3>2. error' \in BOOLEAN
      BY <2>6 DEF I!Finish
    <3> QED
      BY <1>0, <3>1, <3>2, AccessAside
  <2> QED
    BY <1>3, <2>1, <2>2, <2>3, <2>4, <2>5, <2>6 DEF I!Works, I!refresh
<1>4. ASSUME NEW w \in Processes, I!Crash(w) PROVE AccessInv'
  <2>1. /\ I!Goes(w, I!Idle) /\ i_row' = (IF i_row = w THEN None ELSE i_row)
        /\ UNCHANGED <<credential, shown, until, error, last, twice, today>>
    BY <1>4 DEF I!Crash, I!status, I!ghosts, I!Fault
  <2>2. CASE UNCHANGED I!service
    BY <1>0, <2>1, <2>2, AccessAside
  <2>3. CASE i_job[w].at = "request" /\ i_job[w].op \in I!Grants /\ I!Grantable(w) /\ I!Issue(w) /\ lost' = TRUE
    <3>1. \A v \in Processes : i_job[v].at = "request" => v = w
      BY <2>3 DEF AccessInv, RequestHoldsRow
    <3>2. i_job' \in [Processes -> AccessJobs] /\ RequestHoldsRow'
      BY <1>0, <2>1, <3>1, RequestsRest
    <3>3. /\ issued' = issued + 1 /\ live' = issued + 1 /\ UNCHANGED entitlement
          /\ secrets' = (IF i_job[w].op = "activate" THEN secrets - 1 ELSE secrets)
          /\ i_job[w].op = "activate" => secrets > 0
      BY <2>3 DEF I!Issue, I!Grantable
    <3>4. issued \in Nat /\ issued' \in Nat /\ secrets' \in Nat
      BY <3>3 DEF AccessInv, AccessTyped
    <3>5. credential' \in 1..issued' \cup {None} /\ live' \in 1..issued' \cup {None}
      BY <2>1, <3>3, <3>4 DEF AccessInv, AccessTyped
    <3>6. AccessTyped'
      BY <2>1, <2>3, <3>2, <3>3, <3>4, <3>5 DEF AccessInv, AccessTyped
    <3>7. i_row' \in Processes \cup {None}
      BY <2>1 DEF AccessInv, I!AccessSound, I!TypeOK
    <3>8. I!AccessSound'
      BY <2>1, <2>3, <3>5, <3>7 DEF AccessInv, I!AccessSound, I!TypeOK, I!KeyIsLive, I!EndedIsTold
    <3> QED
      BY <3>2, <3>6, <3>8 DEF AccessInv
  <2> QED
    BY <1>4, <2>2, <2>3 DEF I!Crash
<1>5. CASE I!Entitlement
  <2>1. /\ entitlement' \in {"paid", "expired", "revoked"}
        /\ UNCHANGED <<credential, shown, until, error, last, i_row, i_job, live, issued, secrets, lost, twice, today>>
    BY <1>5 DEF I!Entitlement, I!status, I!ghosts, I!Fault
  <2> QED
    BY <2>1 DEF AccessInv, AccessTyped, I!AccessSound, I!TypeOK, I!KeyIsLive, I!EndedIsTold, RequestHoldsRow
<1>6. CASE I!NextDay
  <2>1. /\ today < MaxAccessDays /\ today' = today + 1
        /\ UNCHANGED <<credential, shown, until, error, last, i_row, i_job, I!service, twice>>
    BY <1>6 DEF I!NextDay, I!status, I!ghosts
  <2>2. today \in Nat /\ today' \in 0..MaxAccessDays /\ last \in 0..today' \cup {None} /\ last # today'
    BY <2>1 DEF AccessInv, AccessTyped, I!IntelligenceAssumption
  <2>3. AccessTyped'
    BY <2>1, <2>2 DEF AccessInv, AccessTyped, I!service
  <2>4. RequestHoldsRow'
    BY <2>1, <2>2 DEF AccessInv, RequestHoldsRow
  <2>5. I!AccessSound'
    BY <2>1 DEF AccessInv, I!AccessSound, I!TypeOK, I!KeyIsLive, I!EndedIsTold, I!service
  <2> QED
    BY <2>3, <2>4, <2>5 DEF AccessInv
<1>7. CASE UNCHANGED I!vars
  <2>1. UNCHANGED <<credential, shown, until, error, last, i_row, i_job, I!service, twice, today>>
    BY <1>7 DEF I!vars, I!status, I!ghosts, I!bounds
  <2> QED
    BY <2>1 DEF AccessInv, AccessTyped, I!AccessSound, I!TypeOK, I!KeyIsLive, I!EndedIsTold, RequestHoldsRow, I!service
<1> QED
  BY <1>1, <1>2, <1>3, <1>4, <1>5, <1>6, <1>7 DEF I!Next


\* What a step of the composition is for the access.
LEMMA AccessAlone == [Next]_vars => [I!Next]_(I!vars)
  BY DEF Next, vars, intelligence, I!vars, I!status, I!service, I!ghosts, I!bounds

\* While no reply of a grant was lost the credential held is the one the service honours,
\* whichever processes activated and rotated at once; an end is shown where there is one; a
\* day's scheduled refresh is made once (core/intelligence.py).
THEOREM AccessIsSound == Spec => []AccessSound
<1>1. Init => AccessInv
  BY ServicesAssumption, AccessInit DEF Init
<1>2. AccessInv /\ [Next]_vars => AccessInv'
  BY ServicesAssumption, AccessAlone, AccessStep
<1>3. AccessInv => AccessSound
  BY DEF AccessInv, AccessSound
<1> QED
  BY <1>1, <1>2, <1>3, PTL DEF Spec

-----------------------------------------------------------------------------
(* Submissions.                                                             *)

CaseRows == [state: U!States, key: Nat, words: BOOLEAN, withdrawn: BOOLEAN, wait: BOOLEAN]
Answers == {"unknown", "taken", "open", "closed", "old", "withdrawn"}
Posted == [at: {"locking", "posting"}, op: {"send", "status", "withdraw"}, case: Nat]
Resent == [at: {"locking", "posting"}, op: {"send"}, case: Nat, fresh: BOOLEAN]
CaseJobs == [at: {"idle", "drafting"}] \cup [at: {"forgetting"}, case: Nat] \cup Posted \cup Resent

RowsTyped == cases \in Seq(CaseRows) /\ svc \in Seq(Answers) /\ \A c \in U!Cases : cases[c].key \in U!Keys
KeysTyped == u_late \subseteq U!Keys /\ delayed \subseteq U!Keys /\ u_consent \in Clerks \cup {None}
JobsTyped ==
    /\ u_job \in [Clerks -> CaseJobs]
    /\ \A k \in Clerks : u_job[k].at \in {"forgetting", "locking", "posting"} => u_job[k].case \in U!Cases

\* What a row says agrees with itself and, once a close was heard of, with the service.
RowsAgree ==
    \A c \in U!Cases :
        /\ U!Live(c) => cases[c].words
        /\ cases[c].state = "withdrawn" => cases[c].withdrawn
        /\ cases[c].state = "closed" => svc[cases[c].key] \in {"closed", "old", "withdrawn"}
KeysDiffer == \A c, d \in U!Cases : cases[c].key = cases[d].key => c = d
OneIsLive == \A c, d \in U!Cases : U!Live(c) /\ U!Live(d) => c = d

\* A request is out for one clerk and case: it sends what is pending and was not withdrawn, and
\* asks about what is neither pending nor given up.
PostsInOrder ==
    /\ \A k \in Clerks :
          u_job[k].at = "posting" =>
              /\ u_job[k].op = "send" => cases[u_job[k].case].state = "pending" /\ ~cases[u_job[k].case].withdrawn
              /\ u_job[k].op = "status" => cases[u_job[k].case].state \notin {"pending", "expired"}
    /\ \A k, l \in Clerks : u_job[k].at = "posting" /\ u_job[l].at = "posting" /\ u_job[k].case = u_job[l].case => k = l

CasesInv ==
    /\ RowsTyped /\ KeysTyped /\ JobsTyped
    /\ RowsAgree /\ KeysDiffer /\ OneIsLive /\ PostsInOrder
    /\ U!HeldIsWithdrawable /\ U!WithdrawnIsGone

\* No case at first.
LEMMA CasesInit == ASSUME U!Init PROVE CasesInv
<1>1. cases = <<>> /\ svc = <<>> /\ u_late = {} /\ delayed = {} /\ u_consent = None /\ u_job = [k \in Clerks |-> U!Idle]
  BY DEF U!Init
<1>2. U!Cases = {} /\ U!Keys = {}
  BY <1>1 DEF U!Cases, U!Keys
<1>3. RowsTyped /\ KeysTyped
  BY <1>1, <1>2 DEF RowsTyped, KeysTyped
<1>4. JobsTyped /\ PostsInOrder
  BY <1>1 DEF JobsTyped, PostsInOrder, U!Idle, CaseJobs
<1> QED
  BY <1>2, <1>3, <1>4 DEF CasesInv, RowsAgree, KeysDiffer, OneIsLive, U!HeldIsWithdrawable, U!WithdrawnIsGone

\* What the run checks follows.
LEMMA CasesHold == ASSUME CasesInv PROVE U!SubmissionsSound
<1>1. \A c \in U!Cases : cases[c] \in CaseRows /\ cases[c].state \in U!States /\ cases[c].key \in U!Keys
  <2>1. cases \in Seq(CaseRows)
    BY DEF CasesInv, RowsTyped
  <2>2. \A c \in U!Cases : cases[c] \in CaseRows
    BY <2>1, LenProperties, ElementOfSeq DEF U!Cases
  <2> QED
    BY <2>2 DEF CasesInv, RowsTyped, CaseRows
<1>2. U!TypeOK
  BY <1>1 DEF CasesInv, RowsTyped, KeysTyped, U!TypeOK, Answers
<1>3. U!NothingSentWithdrawn
  <2>1. ASSUME NEW k \in Clerks, U!Posts(k)
        PROVE  ~cases[u_job[k].case].withdrawn /\ cases[u_job[k].case].words
    BY <2>1 DEF CasesInv, JobsTyped, PostsInOrder, RowsAgree, U!Posts, U!Live
  <2> QED
    BY <2>1 DEF CasesInv, OneIsLive, U!NothingSentWithdrawn
<1> QED
  BY <1>2, <1>3 DEF CasesInv, U!SubmissionsSound

\* Rows, keys and their places.
LEMMA Places ==
    ASSUME CasesInv
    PROVE  /\ cases \in Seq(CaseRows) /\ U!Cases = 1..Len(cases) /\ Len(cases) \in Nat
           /\ svc \in Seq(Answers) /\ U!Keys = 1..Len(svc) /\ Len(svc) \in Nat
           /\ \A c \in U!Cases : cases[c] \in CaseRows /\ cases[c].key \in U!Keys
           /\ \A key \in U!Keys : svc[key] \in Answers
<1>1. cases \in Seq(CaseRows) /\ svc \in Seq(Answers) /\ \A c \in U!Cases : cases[c].key \in U!Keys
  BY DEF CasesInv, RowsTyped
<1>2. U!Cases = 1..Len(cases) /\ Len(cases) \in Nat /\ U!Keys = 1..Len(svc) /\ Len(svc) \in Nat
  BY <1>1, LenProperties DEF U!Cases, U!Keys
<1>3. \A c \in 1..Len(cases) : cases[c] \in CaseRows
  BY <1>1, ElementOfSeq
<1>4. \A key \in 1..Len(svc) : svc[key] \in Answers
  BY <1>1, ElementOfSeq
<1> QED
  BY <1>1, <1>2, <1>3, <1>4

\* One row is put in its place.
LEMMA PutsRow ==
    ASSUME CasesInv, NEW c \in U!Cases, NEW row \in CaseRows, U!Put(c, row)
    PROVE  /\ cases' \in Seq(CaseRows) /\ U!Cases' = U!Cases /\ cases'[c] = row
           /\ \A d \in U!Cases \ {c} : cases'[d] = cases[d]
<1>1. cases' = [cases EXCEPT ![c] = row]
  BY DEF U!Put
<1>2. cases \in Seq(CaseRows) /\ U!Cases = 1..Len(cases)
  BY Places
<1>3. cases' \in Seq(CaseRows) /\ Len(cases') = Len(cases)
  BY <1>1, <1>2, ExceptSeq
<1>4. U!Cases' = U!Cases
  BY <1>2, <1>3, LenProperties DEF U!Cases
<1> QED
  BY <1>1, <1>2, <1>3, <1>4 DEF U!Cases

\* One key gets an answer.
LEMMA PutsAnswer ==
    ASSUME CasesInv, NEW key \in U!Keys, NEW s \in Answers, svc' = [svc EXCEPT ![key] = s]
    PROVE  /\ svc' \in Seq(Answers) /\ U!Keys' = U!Keys /\ svc'[key] = s
           /\ \A k \in U!Keys \ {key} : svc'[k] = svc[k]
<1>1. svc \in Seq(Answers) /\ U!Keys = 1..Len(svc)
  BY Places
<1>2. svc' \in Seq(Answers) /\ Len(svc') = Len(svc)
  BY <1>1, ExceptSeq
<1>3. U!Keys' = U!Keys
  BY <1>1, <1>2, LenProperties DEF U!Keys
<1> QED
  BY <1>1, <1>2, <1>3 DEF U!Keys

\* A clerk goes on to something that is no request.
LEMMA ClerkGoes ==
    ASSUME CasesInv, NEW k \in Clerks, NEW j \in CaseJobs, U!Goes(k, j),
           j.at \in {"forgetting", "locking"} => j.case \in U!Cases', j.at # "posting", U!Cases \subseteq U!Cases'
    PROVE  /\ JobsTyped'
           /\ \A l \in Clerks : u_job'[l].at = "posting" => u_job'[l] = u_job[l] /\ l # k
<1>1. u_job \in [Clerks -> CaseJobs]
  BY DEF CasesInv, JobsTyped
<1>2. u_job'[k] = j /\ (\A l \in Clerks \ {k} : u_job'[l] = u_job[l]) /\ u_job' \in [Clerks -> CaseJobs]
  BY <1>1 DEF U!Goes
<1> QED
  BY <1>2 DEF CasesInv, JobsTyped

\* Requests that stay as they were, about rows that stay as they were, stay in order.
LEMMA PostsRest ==
    ASSUME CasesInv,
           \A l \in Clerks : u_job'[l].at = "posting" =>
               /\ u_job'[l] = u_job[l]
               /\ cases'[u_job[l].case].state = cases[u_job[l].case].state
               /\ cases'[u_job[l].case].withdrawn = cases[u_job[l].case].withdrawn
    PROVE  PostsInOrder'
  BY DEF CasesInv, PostsInOrder

\* A step changes one row that nobody has a request about afterwards, and what the service
\* says to its key.
LEMMA RowStep ==
    ASSUME CasesInv, NEW c \in U!Cases, NEW row \in CaseRows, U!Put(c, row), row.key = cases[c].key,
           NEW s \in Answers, svc' = [svc EXCEPT ![row.key] = s], UNCHANGED <<u_late, delayed>>,
           u_consent' \in Clerks \cup {None}, JobsTyped',
           \A l \in Clerks : u_job'[l].at = "posting" => u_job'[l] = u_job[l] /\ u_job[l].case # c,
           row.state \in {"pending", "open"} /\ ~row.withdrawn => row.words /\ U!Live(c),
           row.state = "withdrawn" => row.withdrawn /\ (s \in {"open", "closed"} => row.key \in delayed),
           row.state = "closed" => s \in {"closed", "old", "withdrawn"}
    PROVE  CasesInv'
<1>1. /\ cases' \in Seq(CaseRows) /\ U!Cases' = U!Cases /\ cases'[c] = row
      /\ \A d \in U!Cases \ {c} : cases'[d] = cases[d]
  BY PutsRow
<1>2. row.key \in U!Keys /\ \A d \in U!Cases : cases[d].key \in U!Keys
  BY Places
<1>3. /\ svc' \in Seq(Answers) /\ U!Keys' = U!Keys /\ svc'[row.key] = s
      /\ \A k \in U!Keys \ {row.key} : svc'[k] = svc[k]
  BY <1>2, PutsAnswer
<1>4. \A d \in U!Cases \ {c} : cases[d].key # row.key
  BY DEF CasesInv, KeysDiffer
<1>5. RowsTyped' /\ KeysTyped'
  BY <1>1, <1>2, <1>3 DEF CasesInv, RowsTyped, KeysTyped
<1>6. \A d \in U!Cases : U!Live(d)' => U!Live(d)
  BY <1>1 DEF U!Live
<1>7. RowsAgree'
  <2>1. ASSUME NEW d \in U!Cases \ {c}
        PROVE  /\ U!Live(d)' => cases'[d].words
               /\ cases'[d].state = "withdrawn" => cases'[d].withdrawn
               /\ cases'[d].state = "closed" => svc'[cases'[d].key] \in {"closed", "old", "withdrawn"}
    BY <1>1, <1>2, <1>3, <1>4, <1>6 DEF CasesInv, RowsAgree
  <2> QED
    BY <1>1, <1>3, <2>1 DEF RowsAgree, U!Live
<1>8. KeysDiffer' /\ OneIsLive'
  BY <1>1, <1>6 DEF CasesInv, KeysDiffer, OneIsLive
<1>9. PostsInOrder'
  BY <1>1, PostsRest DEF CasesInv, JobsTyped
<1>10. U!HeldIsWithdrawable'
  BY <1>1, <1>3 DEF CasesInv, U!HeldIsWithdrawable, U!Holds
<1>11. U!WithdrawnIsGone'
  <2>1. ASSUME NEW d \in U!Cases \ {c}, cases'[d].state = "withdrawn", cases'[d].key \notin delayed'
        PROVE  ~U!Holds(cases[d].key)'
    BY <1>1, <1>2, <1>3, <1>4, <2>1 DEF CasesInv, U!WithdrawnIsGone, U!Holds
  <2> QED
    BY <1>1, <1>3, <2>1 DEF U!WithdrawnIsGone, U!Holds
<1> QED
  BY <1>5, <1>7, <1>8, <1>9, <1>10, <1>11 DEF CasesInv

\* A step changes what the service says to one key, or what is under way to it, and no row.
LEMMA ServiceStep ==
    ASSUME CasesInv, NEW key \in U!Keys, NEW s \in Answers, svc' = [svc EXCEPT ![key] = s],
           UNCHANGED <<cases, u_consent>>, u_late' \subseteq u_late \cup {key}, delayed \subseteq delayed', delayed' \subseteq U!Keys,
           JobsTyped', \A l \in Clerks : u_job'[l].at = "posting" => u_job'[l] = u_job[l],
           svc[key] \in {"closed", "old", "withdrawn"} => s \in {"closed", "old", "withdrawn"},
           s \in {"open", "closed"} =>
               \/ U!Holds(key) \/ key \in delayed'
               \/ \A c \in U!Cases : cases[c].key = key => cases[c].state # "withdrawn",
           s \in {"open", "closed"} \/ key \in u_late' =>
               U!Holds(key) \/ (key \in u_late /\ svc[key] = "unknown") \/ (\E c \in U!Cases : cases[c].key = key)
                   \/ s \notin {"open", "closed", "unknown"}
    PROVE  CasesInv'
<1>1. U!Cases' = U!Cases /\ \A d \in U!Cases : cases[d].key \in U!Keys
  BY Places DEF U!Cases
<1>2. /\ svc' \in Seq(Answers) /\ U!Keys' = U!Keys /\ svc'[key] = s
      /\ \A k \in U!Keys \ {key} : svc'[k] = svc[k]
  BY PutsAnswer
<1>3. RowsTyped' /\ KeysTyped'
  BY <1>1, <1>2 DEF CasesInv, RowsTyped, KeysTyped
<1>4. \A d \in U!Cases : U!Live(d)' <=> U!Live(d)
  BY DEF U!Live
<1>5. RowsAgree'
  BY <1>1, <1>2, <1>4 DEF CasesInv, RowsAgree
<1>6. KeysDiffer' /\ OneIsLive'
  BY <1>1, <1>4 DEF CasesInv, KeysDiffer, OneIsLive
<1>7. PostsInOrder'
  BY PostsRest
<1>8. U!HeldIsWithdrawable'
  <2>1. ASSUME NEW k \in U!Keys, U!Holds(k)' \/ (k \in u_late' /\ svc'[k] = "unknown")
        PROVE  \E c \in U!Cases : cases[c].key = k
    BY <1>2, <2>1 DEF CasesInv, U!HeldIsWithdrawable, U!Holds
  <2> QED
    BY <1>1, <1>2, <2>1 DEF U!HeldIsWithdrawable
<1>9. U!WithdrawnIsGone'
  BY <1>1, <1>2 DEF CasesInv, U!WithdrawnIsGone, U!Holds
<1> QED
  BY <1>3, <1>5, <1>6, <1>7, <1>8, <1>9 DEF CasesInv

\* A step of a clerk that changes no row, or only what a request does not look at.
LEMMA RowsStay ==
    ASSUME CasesInv, cases' \in Seq(CaseRows), U!Cases' = U!Cases,
           \A c \in U!Cases :
               /\ cases'[c].state = cases[c].state /\ cases'[c].key = cases[c].key
               /\ cases'[c].withdrawn = cases[c].withdrawn
               /\ cases'[c].words = cases[c].words \/ cases[c].state \in {"closed", "expired"},
           UNCHANGED <<svc, u_late, delayed>>, u_consent' \in Clerks \cup {None},
           JobsTyped', \A l \in Clerks : u_job'[l].at = "posting" => u_job'[l] = u_job[l]
    PROVE  CasesInv'
<1>1. RowsTyped' /\ KeysTyped'
  BY DEF CasesInv, RowsTyped, KeysTyped, U!Keys
<1>2. \A d \in U!Cases : U!Live(d)' <=> U!Live(d)
  BY DEF U!Live
<1>3. RowsAgree'
  <2>1. \A c \in U!Cases : U!Live(c) => cases[c].state \in {"pending", "open"}
    BY DEF U!Live
  <2> QED
    BY <1>2, <2>1 DEF CasesInv, RowsAgree
<1>4. KeysDiffer' /\ OneIsLive'
  BY <1>2 DEF CasesInv, KeysDiffer, OneIsLive
<1>5. PostsInOrder'
  BY PostsRest DEF CasesInv, JobsTyped
<1>6. U!HeldIsWithdrawable' /\ U!WithdrawnIsGone'
  BY DEF CasesInv, U!HeldIsWithdrawable, U!WithdrawnIsGone, U!Holds, U!Keys
<1> QED
  BY <1>1, <1>3, <1>4, <1>5, <1>6 DEF CasesInv

\* A key is minted: it is none of those that are there, and nobody has posted under it.
LEMMA Mints ==
    ASSUME CasesInv, U!mint_case_key
    PROVE  /\ svc' \in Seq(Answers) /\ U!Keys \subseteq U!Keys' /\ Len(svc') \in U!Keys' \ U!Keys
           /\ \A key \in U!Keys' : key \in U!Keys \/ key = Len(svc')
           /\ \A key \in U!Keys : svc'[key] = svc[key]
           /\ svc'[Len(svc')] \in {"unknown", "taken"} /\ Len(svc') \in Nat
<1>1. svc \in Seq(Answers) /\ U!Keys = 1..Len(svc) /\ Len(svc) \in Nat
  BY Places
<1>2. PICK first \in {"unknown", "taken"} : svc' = Append(svc, first)
  BY DEF U!mint_case_key
<1>3. first \in Answers
  BY DEF Answers
<1>4. svc' \in Seq(Answers) /\ Len(svc') = Len(svc) + 1 /\ svc'[Len(svc) + 1] = first
      /\ \A key \in 1..Len(svc) : svc'[key] = svc[key]
  BY <1>1, <1>2, <1>3, AppendProperties
<1>5. U!Keys' = 1..Len(svc')
  BY <1>4, LenProperties DEF U!Keys
<1> QED
  BY <1>1, <1>4, <1>5

\* The same fields answer the live case, or make one under a key of its own.
LEMMA DraftStep == ASSUME CasesInv, NEW k \in Clerks, U!Draft(k) PROVE CasesInv'
<1>1. u_consent' = None /\ UNCHANGED <<u_late, delayed>>
  BY DEF U!Draft
<1>2. U!Idle \in CaseJobs /\ U!Idle.at = "idle"
  BY DEF U!Idle, CaseJobs
<1>3. \A c \in Nat : U!Sending(c, FALSE) \in CaseJobs /\ U!Sending(c, FALSE).at = "locking" /\ U!Sending(c, FALSE).case = c
  BY DEF U!Sending, CaseJobs, Resent
<1>4. CASE UNCHANGED <<cases, svc>>
  <2>1. PICK c \in U!Cases : U!Goes(k, IF cases[c].state = "pending" /\ ~cases[c].wait THEN U!Sending(c, FALSE) ELSE U!Idle)
    <3>1. ASSUME Len(cases) < MaxCases, U!mint_case_key PROVE FALSE
      BY <1>4, <3>1, Mints DEF U!Keys
    <3> QED
      BY <3>1 DEF U!Draft
  <2>2. PICK j \in {U!Sending(c, FALSE), U!Idle} : U!Goes(k, j)
    BY <2>1
  <2>3. c \in Nat /\ U!Cases' = U!Cases
    BY <1>4, Places DEF U!Cases
  <2>4. JobsTyped' /\ \A l \in Clerks : u_job'[l].at = "posting" => u_job'[l] = u_job[l]
    BY <1>2, <1>3, <2>2, <2>3, ClerkGoes
  <2> QED
    BY <1>1, <1>4, <2>3, <2>4, RowsStay, Places
<1>5. CASE ~UNCHANGED <<cases, svc>>
  <2> DEFINE row == [state |-> "pending", key |-> Len(svc'), words |-> TRUE, withdrawn |-> FALSE, wait |-> FALSE]
             n == Len(cases) + 1
  <2>1. /\ \A c \in U!Cases : ~U!Live(c)
        /\ U!mint_case_key /\ cases' = Append(cases, row) /\ U!Goes(k, U!Sending(Len(cases'), FALSE))
    BY <1>5 DEF U!Draft
  <2>2. /\ svc' \in Seq(Answers) /\ U!Keys \subseteq U!Keys' /\ Len(svc') \in U!Keys' \ U!Keys
        /\ \A key \in U!Keys' : key \in U!Keys \/ key = Len(svc')
        /\ \A key \in U!Keys : svc'[key] = svc[key]
        /\ svc'[Len(svc')] \in {"unknown", "taken"} /\ Len(svc') \in Nat
    BY <2>1, Mints
  <2>3. /\ cases \in Seq(CaseRows) /\ U!Cases = 1..Len(cases) /\ Len(cases) \in Nat
        /\ \A c \in U!Cases : cases[c] \in CaseRows /\ cases[c].key \in U!Keys
    BY Places
  <2>4. row \in CaseRows
    BY <2>2 DEF CaseRows, U!States
  <2>5. /\ cases' \in Seq(CaseRows) /\ Len(cases') = n /\ cases'[n] = row
        /\ \A c \in U!Cases : cases'[c] = cases[c]
    BY <2>1, <2>3, <2>4, AppendProperties
  <2>6. U!Cases' = U!Cases \cup {n} /\ n \notin U!Cases /\ n \in Nat
    <3>1. U!Cases' = 1..n
      BY <2>5, LenProperties DEF U!Cases
    <3> QED
      BY <2>3, <3>1
  <2>7. RowsTyped' /\ KeysTyped'
    <3>1. \A c \in U!Cases' : cases'[c].key \in U!Keys'
      BY <2>2, <2>3, <2>5, <2>6
    <3>2. u_late' \subseteq U!Keys' /\ delayed' \subseteq U!Keys' /\ u_consent' \in Clerks \cup {None}
      BY <1>1, <2>2 DEF CasesInv, KeysTyped
    <3> QED
      BY <2>2, <2>5, <3>1, <3>2 DEF RowsTyped, KeysTyped
  <2>8. JobsTyped' /\ \A l \in Clerks : u_job'[l].at = "posting" => u_job'[l] = u_job[l]
    BY <1>3, <2>1, <2>5, <2>6, ClerkGoes
  <2>9. \A c \in U!Cases : ~U!Live(c)'
    BY <2>1, <2>5 DEF U!Live
  <2>10. RowsAgree'
    <3>1. ASSUME NEW c \in U!Cases
          PROVE  /\ U!Live(c)' => cases'[c].words
                 /\ cases'[c].state = "withdrawn" => cases'[c].withdrawn
                 /\ cases'[c].state = "closed" => svc'[cases'[c].key] \in {"closed", "old", "withdrawn"}
      BY <2>2, <2>3, <2>5, <2>9 DEF CasesInv, RowsAgree
    <3>2. row.words /\ row.state = "pending"
      OBVIOUS
    <3> QED
      BY <2>5, <2>6, <3>1, <3>2 DEF RowsAgree
  <2>11. KeysDiffer'
    <3>1. \A c \in U!Cases : cases'[c].key = cases[c].key /\ cases'[c].key # cases'[n].key
      BY <2>2, <2>3, <2>5
    <3> QED
      BY <2>6, <3>1 DEF CasesInv, KeysDiffer
  <2>12. OneIsLive'
    BY <2>6, <2>9 DEF OneIsLive
  <2>13. PostsInOrder'
    BY <2>5, <2>8, PostsRest DEF CasesInv, JobsTyped
  <2>14. U!HeldIsWithdrawable'
    <3>1. ASSUME NEW key \in U!Keys', U!Holds(key)' \/ (key \in u_late' /\ svc'[key] = "unknown")
          PROVE  \E c \in U!Cases' : cases'[c].key = key
      <4>1. key \in U!Keys
        BY <1>1, <2>2, <3>1 DEF U!Holds, CasesInv, KeysTyped
      <4>2. PICK c \in U!Cases : cases[c].key = key
        BY <1>1, <2>2, <3>1, <4>1 DEF CasesInv, U!HeldIsWithdrawable, U!Holds
      <4> QED
        BY <2>5, <2>6, <4>2
    <3> QED
      BY <3>1 DEF U!HeldIsWithdrawable
  <2>15. U!WithdrawnIsGone'
    <3>1. ASSUME NEW c \in U!Cases, cases'[c].state = "withdrawn", cases'[c].key \notin delayed' PROVE ~U!Holds(cases[c].key)'
      BY <1>1, <2>2, <2>3, <2>5, <3>1 DEF CasesInv, U!WithdrawnIsGone, U!Holds
    <3>2. cases'[n].state = "pending"
      BY <2>5
    <3> QED
      BY <2>5, <2>6, <3>1, <3>2 DEF U!WithdrawnIsGone
  <2> QED
    BY <2>7, <2>8, <2>10, <2>11, <2>12, <2>13, <2>14, <2>15 DEF CasesInv
<1> QED
  BY <1>4, <1>5

\* The lock is taken for a request the row still calls for.
LEMMA LockStep == ASSUME CasesInv, NEW k \in Clerks, U!Lock(k) PROVE CasesInv'
<1> DEFINE row == cases[u_job[k].case]
<1>1. /\ u_job[k].at = "locking" /\ U!Free(u_job[k].case) /\ UNCHANGED <<cases, u_consent, svc, u_late, delayed>>
      /\ U!Cases' = U!Cases /\ u_job[k] \in CaseJobs /\ u_job[k].case \in U!Cases
  BY DEF U!Lock, CasesInv, JobsTyped, U!Cases
<1>2. U!Idle \in CaseJobs /\ U!Idle.at = "idle"
  BY DEF U!Idle, CaseJobs
<1>3. CASE U!Goes(k, U!Idle)
  <2>1. JobsTyped' /\ \A l \in Clerks : u_job'[l].at = "posting" => u_job'[l] = u_job[l]
    BY <1>1, <1>2, <1>3, ClerkGoes
  <2> QED
    BY <1>1, <2>1, RowsStay, Places DEF CasesInv, KeysTyped
<1>4. CASE ~U!Goes(k, U!Idle)
  <2> DEFINE j == [u_job[k] EXCEPT !.at = "posting"]
  <2>1. /\ U!Goes(k, j)
        /\ u_job[k].op = "send" => U!send(row)
        /\ u_job[k].op = "status" => row.state \notin {"pending", "expired"}
    BY <1>4 DEF U!Lock
  <2>2. u_job[k] \in Posted \cup Resent
    BY <1>1 DEF CaseJobs
  <2>3. j \in Posted \cup Resent /\ j.at = "posting" /\ j.op = u_job[k].op /\ j.case = u_job[k].case
    BY <2>2 DEF Posted, Resent
  <2>4. j \in CaseJobs
    BY <2>3 DEF CaseJobs
  <2>5. u_job'[k] = j /\ (\A l \in Clerks \ {k} : u_job'[l] = u_job[l]) /\ u_job' \in [Clerks -> CaseJobs]
    BY <2>1, <2>4 DEF U!Goes, CasesInv, JobsTyped
  <2>6. JobsTyped'
    BY <1>1, <2>3, <2>5 DEF CasesInv, JobsTyped
  <2>7. PostsInOrder'
    <3>1. ASSUME NEW l \in Clerks, u_job'[l].at = "posting"
          PROVE  /\ u_job'[l].op = "send" => cases[u_job'[l].case].state = "pending" /\ ~cases[u_job'[l].case].withdrawn
                 /\ u_job'[l].op = "status" => cases[u_job'[l].case].state \notin {"pending", "expired"}
      <4>1. CASE l = k
        BY <2>1, <2>3, <2>5, <4>1 DEF U!send
      <4>2. CASE l # k
        BY <2>5, <3>1, <4>2 DEF CasesInv, PostsInOrder
      <4> QED
        BY <4>1, <4>2
    <3>2. \A l \in Clerks \ {k} : u_job'[l].at = "posting" => u_job'[l].case # u_job'[k].case
      BY <1>1, <2>3, <2>5 DEF U!Free
    <3>3. \A l, m \in Clerks : u_job'[l].at = "posting" /\ u_job'[m].at = "posting" /\ u_job'[l].case = u_job'[m].case => l = m
      <4>1. \A l, m \in Clerks :
                u_job[l].at = "posting" /\ u_job[m].at = "posting" /\ u_job[l].case = u_job[m].case => l = m
        BY DEF CasesInv, PostsInOrder
      <4> QED
        BY <2>5, <3>2, <4>1
    <3> QED
      BY <1>1, <3>1, <3>3 DEF PostsInOrder
  <2>8. RowsTyped' /\ KeysTyped' /\ RowsAgree' /\ KeysDiffer' /\ OneIsLive' /\ U!HeldIsWithdrawable' /\ U!WithdrawnIsGone'
    BY <1>1 DEF CasesInv, RowsTyped, KeysTyped, RowsAgree, KeysDiffer, OneIsLive, U!HeldIsWithdrawable, U!WithdrawnIsGone,
       U!Live, U!Holds, U!Keys
  <2> QED
    BY <2>6, <2>7, <2>8 DEF CasesInv
<1> QED
  BY <1>3, <1>4

\* A withdrawal is stored, and the words cleared, before it is asked for.
LEMMA ForgetStep == ASSUME CasesInv, NEW k \in Clerks, U!Forget(k) PROVE CasesInv'
<1> DEFINE c == u_job[k].case
           row == U!forget(cases[c])
<1>1. /\ u_job[k].at = "forgetting" /\ U!Free(c) /\ U!Put(c, row) /\ UNCHANGED <<u_consent, svc, u_late, delayed>>
      /\ U!Goes(k, [at |-> "locking", op |-> "withdraw", case |-> c]) /\ c \in U!Cases
  BY DEF U!Forget, CasesInv, JobsTyped
<1>2. row \in CaseRows /\ row.key = cases[c].key /\ row.withdrawn /\ row.state = cases[c].state
  BY <1>1, Places DEF U!forget, CaseRows
<1>3. U!Cases' = U!Cases
  BY <1>1, <1>2, PutsRow
<1>4. c \in Nat /\ svc[row.key] \in Answers /\ svc' = [svc EXCEPT ![row.key] = svc[row.key]]
  BY <1>1, <1>2, Places
<1>5. [at |-> "locking", op |-> "withdraw", case |-> c] \in CaseJobs
  BY <1>4 DEF CaseJobs, Posted
<1>6. JobsTyped' /\ \A l \in Clerks : u_job'[l].at = "posting" => u_job'[l] = u_job[l]
  BY <1>1, <1>3, <1>5, ClerkGoes
<1>7. \A l \in Clerks : u_job'[l].at = "posting" => u_job[l].case # c
  BY <1>1, <1>6 DEF U!Free
<1>8. /\ row.state = "withdrawn" => (svc[row.key] \in {"open", "closed"} => row.key \in delayed)
      /\ row.state = "closed" => svc[row.key] \in {"closed", "old", "withdrawn"}
  BY <1>1, <1>2 DEF CasesInv, U!WithdrawnIsGone, RowsAgree, U!Holds
<1> HIDE DEF c, row
<1>9. /\ UNCHANGED <<u_late, delayed>> /\ u_consent' \in Clerks \cup {None} /\ JobsTyped'
      /\ \A l \in Clerks : u_job'[l].at = "posting" => u_job'[l] = u_job[l] /\ u_job[l].case # c
  BY <1>1, <1>6, <1>7 DEF CasesInv, KeysTyped
<1>10. /\ row.state \in {"pending", "open"} /\ ~row.withdrawn => row.words /\ U!Live(c)
       /\ row.state = "withdrawn" => row.withdrawn /\ (svc[row.key] \in {"open", "closed"} => row.key \in delayed)
       /\ row.state = "closed" => svc[row.key] \in {"closed", "old", "withdrawn"}
  BY <1>2, <1>8
<1> QED
  BY <1>1, <1>2, <1>4, <1>9, <1>10, RowStep, ZenonT(30)

\* The clerk that has a request out is the only one about its case.
LEMMA OnePoster ==
    ASSUME CasesInv, NEW k \in Clerks, u_job[k].at = "posting", U!Goes(k, U!Idle), U!Cases' = U!Cases
    PROVE  /\ u_job[k].case \in U!Cases /\ JobsTyped'
           /\ \A l \in Clerks : u_job'[l].at = "posting" => u_job'[l] = u_job[l] /\ u_job[l].case # u_job[k].case
<1>1. U!Idle \in CaseJobs /\ U!Idle.at = "idle"
  BY DEF U!Idle, CaseJobs
<1>2. JobsTyped' /\ \A l \in Clerks : u_job'[l].at = "posting" => u_job'[l] = u_job[l] /\ l # k
  BY <1>1, ClerkGoes
<1> QED
  BY <1>2 DEF CasesInv, JobsTyped, PostsInOrder

\* An answer that stores a row, and what the service then says to its key.
LEMMA SentStep == ASSUME CasesInv, NEW k \in Clerks, U!Sent(k) PROVE CasesInv'
<1> DEFINE c == u_job[k].case
           row == [cases[c] EXCEPT !.state = "open", !.wait = FALSE]
<1>1. /\ u_job[k].at = "posting" /\ u_job[k].op = "send" /\ U!Goes(k, U!Idle) /\ U!Put(c, row)
      /\ svc' = U!Arrived(cases[c].key) /\ svc'[cases[c].key] = "open" /\ UNCHANGED <<u_consent, u_late, delayed>>
      /\ c \in U!Cases
  BY DEF U!Sent, CasesInv, JobsTyped
<1>2. /\ cases[c] \in CaseRows /\ cases[c].state = "pending" /\ ~cases[c].withdrawn /\ U!Live(c) /\ cases[c].words
  BY <1>1, Places DEF CasesInv, PostsInOrder, RowsAgree, U!Live
<1>3. /\ row \in CaseRows /\ row.key = cases[c].key /\ ~row.withdrawn /\ row.state = "open" /\ row.words
  BY <1>2 DEF CaseRows, U!States
<1>4. U!Cases' = U!Cases
  BY <1>1, <1>3, PutsRow
<1>5. row.key \in U!Keys /\ svc \in Seq(Answers)
  BY <1>1, <1>3, Places
<1>6. svc' = [svc EXCEPT ![row.key] = "open"]
  <2>1. CASE svc[cases[c].key] = "unknown"
    BY <1>1, <1>3, <2>1 DEF U!Arrived
  <2>2. CASE svc[cases[c].key] # "unknown"
    BY <1>1, <1>3, <1>5, <2>2 DEF U!Arrived
  <2> QED
    BY <2>1, <2>2
<1> HIDE DEF c, row
<1>7. /\ JobsTyped'
      /\ \A l \in Clerks : u_job'[l].at = "posting" => u_job'[l] = u_job[l] /\ u_job[l].case # c
  BY <1>1, <1>4, OnePoster DEF c
<1>8. /\ UNCHANGED <<u_late, delayed>> /\ u_consent' \in Clerks \cup {None} /\ JobsTyped'
      /\ \A l \in Clerks : u_job'[l].at = "posting" => u_job'[l] = u_job[l] /\ u_job[l].case # c
  BY <1>1, <1>4, <1>7 DEF CasesInv, KeysTyped
<1>9. /\ row.state \in {"pending", "open"} /\ ~row.withdrawn => row.words /\ U!Live(c)
      /\ row.state = "withdrawn" => row.withdrawn /\ ("open" \in {"open", "closed"} => row.key \in delayed)
      /\ row.state = "closed" => "open" \in {"closed", "old", "withdrawn"}
  BY <1>2, <1>3
<1>10. "open" \in Answers
  BY DEF Answers
<1> QED
  BY <1>1, <1>3, <1>6, <1>8, <1>9, <1>10, RowStep

LEMMA StatusStep == ASSUME CasesInv, NEW k \in Clerks, U!StatusRead(k) PROVE CasesInv'
<1> DEFINE c == u_job[k].case
           there == svc[cases[c].key]
           row == CASE there = "withdrawn" -> [U!forget(cases[c]) EXCEPT !.state = there, !.wait = TRUE]
                    [] there \in {"open", "closed"} -> [cases[c] EXCEPT !.state = there, !.wait = TRUE]
                    [] OTHER -> [cases[c] EXCEPT !.state = "expired", !.wait = TRUE]
<1>0. JobsTyped /\ RowsAgree /\ PostsInOrder
  BY SMTT(30) DEF CasesInv
<1>1. /\ u_job[k].at = "posting" /\ u_job[k].op = "status" /\ U!Goes(k, U!Idle) /\ U!Put(c, row)
      /\ UNCHANGED <<u_consent, svc, u_late, delayed>> /\ c \in U!Cases
  <2>1. u_job[k].at = "posting" /\ u_job[k].op = "status" /\ U!Goes(k, U!Idle)
    BY DEF U!StatusRead
  <2>2. U!Put(c, row)
    BY Zenon DEF U!StatusRead
  <2>3. UNCHANGED <<u_consent, svc, u_late, delayed>>
    BY DEF U!StatusRead
  <2>4. c \in U!Cases
    BY <1>0, <2>1 DEF JobsTyped
  <2> QED
    BY <2>1, <2>2, <2>3, <2>4
<1>2. /\ cases[c] \in CaseRows /\ cases[c].state \notin {"pending", "expired"} /\ there \in Answers
      /\ cases[c].state = "closed" => there \notin {"open"}
      /\ cases[c].state = "withdrawn" => cases[c].withdrawn
      /\ U!Live(c) => cases[c].words
  <2>1. cases[c] \in CaseRows /\ there \in Answers
    BY <1>1, Places, SMTT(30)
  <2>2. cases[c].state \notin {"pending", "expired"}
    BY <1>0, <1>1, SMTT(30) DEF PostsInOrder
  <2>3. cases[c].state = "closed" => there \in {"closed", "old", "withdrawn"}
    BY <1>0, <1>1, SMTT(30) DEF RowsAgree
  <2>4. (cases[c].state = "withdrawn" => cases[c].withdrawn) /\ (U!Live(c) => cases[c].words)
    BY <1>0, <1>1, SMTT(30) DEF RowsAgree
  <2> QED
    BY <2>1, <2>2, <2>3, <2>4, SMTT(30)
<1>3. /\ row \in CaseRows /\ row.key = cases[c].key
      /\ row.state = IF there \in {"open", "closed", "withdrawn"} THEN there ELSE "expired"
      /\ there = "withdrawn" => row.withdrawn
      /\ there # "withdrawn" => row.withdrawn = cases[c].withdrawn /\ row.words = cases[c].words
  <2>1. CASE there = "withdrawn"
    BY <1>2, <2>1 DEF CaseRows, U!States, U!forget
  <2>2. CASE there \in {"open", "closed"}
    BY <1>2, <2>2 DEF CaseRows, U!States
  <2>3. CASE there \notin {"open", "closed", "withdrawn"}
    BY <1>2, <2>3 DEF CaseRows, U!States
  <2> QED
    BY <2>1, <2>2, <2>3, ZenonT(30)
<1> HIDE DEF row
<1>4. cases[c].state \in U!States
  BY <1>2 DEF CaseRows
<1>5. row.state \in {"pending", "open"} /\ ~row.withdrawn => row.words /\ U!Live(c)
  <2>1. CASE there = "open"
    <3>1. row.withdrawn = cases[c].withdrawn /\ row.words = cases[c].words
      BY <1>3, <2>1
    <3>2. cases[c].withdrawn \/ cases[c].state = "open"
      BY <1>2, <1>4, <2>1 DEF U!States
    <3> QED
      BY <1>2, <3>1, <3>2 DEF U!Live
  <2>2. CASE there # "open"
    BY <1>3, <2>2
  <2> QED
    BY <2>1, <2>2
<1>6. U!Cases' = U!Cases
  BY <1>1, <1>3, PutsRow
<1>7. svc' = [svc EXCEPT ![row.key] = there]
  BY <1>1, <1>3, Places
<1> HIDE DEF c, there
<1>8. /\ JobsTyped'
      /\ \A l \in Clerks : u_job'[l].at = "posting" => u_job'[l] = u_job[l] /\ u_job[l].case # c
  BY <1>1, <1>6, OnePoster DEF c
<1>9. /\ UNCHANGED <<u_late, delayed>> /\ u_consent' \in Clerks \cup {None} /\ JobsTyped'
      /\ \A l \in Clerks : u_job'[l].at = "posting" => u_job'[l] = u_job[l] /\ u_job[l].case # c
  BY <1>1, <1>8 DEF CasesInv, KeysTyped
<1>10. /\ row.state \in {"pending", "open"} /\ ~row.withdrawn => row.words /\ U!Live(c)
       /\ row.state = "withdrawn" => row.withdrawn /\ (there \in {"open", "closed"} => row.key \in delayed)
       /\ row.state = "closed" => there \in {"closed", "old", "withdrawn"}
  BY <1>2, <1>3, <1>5
<1> QED
  BY <1>1, <1>2, <1>3, <1>7, <1>9, <1>10, RowStep, ZenonT(30)

LEMMA WithdrawnStep == ASSUME CasesInv, NEW k \in Clerks, U!Withdrawn(k) PROVE CasesInv'
<1> DEFINE c == u_job[k].case
           there == svc[cases[c].key]
           s == IF U!Knows(cases[c].key) THEN "withdrawn" ELSE there
           row == [U!forget(cases[c]) EXCEPT !.state = "withdrawn", !.wait = FALSE]
<1>1. /\ u_job[k].at = "posting" /\ U!Goes(k, U!Idle) /\ U!Put(c, row) /\ svc' = U!Ended(cases[c].key)
      /\ UNCHANGED <<u_consent, u_late, delayed>> /\ c \in U!Cases
  BY DEF U!Withdrawn, CasesInv, JobsTyped
<1>2. cases[c] \in CaseRows /\ there \in Answers /\ svc \in Seq(Answers) /\ cases[c].key \in U!Keys
  BY <1>1, Places
<1>3. row \in CaseRows /\ row.key = cases[c].key /\ row.withdrawn /\ row.state = "withdrawn"
  BY <1>2 DEF CaseRows, U!States, U!forget
<1>4. U!Cases' = U!Cases
  BY <1>1, <1>3, PutsRow
<1> HIDE DEF row
<1>5. svc' = [svc EXCEPT ![row.key] = s] /\ s \in Answers /\ s \notin {"open", "closed"}
  <2>1. CASE U!Knows(cases[c].key)
    <3>1. svc' = [svc EXCEPT ![cases[c].key] = "withdrawn"] /\ s = "withdrawn"
      BY <1>1, <2>1 DEF U!Ended
    <3> QED
      BY <1>3, <3>1 DEF Answers
  <2>2. CASE ~U!Knows(cases[c].key)
    <3>1. svc' = svc /\ s = there
      BY <1>1, <2>2 DEF U!Ended
    <3>2. svc = [svc EXCEPT ![cases[c].key] = there]
      BY <1>2
    <3> QED
      BY <1>2, <1>3, <2>2, <3>1, <3>2 DEF U!Knows
  <2> QED
    BY <2>1, <2>2
<1> HIDE DEF c, there, s
<1>6. /\ JobsTyped'
      /\ \A l \in Clerks : u_job'[l].at = "posting" => u_job'[l] = u_job[l] /\ u_job[l].case # c
  BY <1>1, <1>4, OnePoster DEF c
<1>7. /\ UNCHANGED <<u_late, delayed>> /\ u_consent' \in Clerks \cup {None} /\ JobsTyped'
      /\ \A l \in Clerks : u_job'[l].at = "posting" => u_job'[l] = u_job[l] /\ u_job[l].case # c
  BY <1>1, <1>6 DEF CasesInv, KeysTyped
<1>8. /\ row.state \in {"pending", "open"} /\ ~row.withdrawn => row.words /\ U!Live(c)
      /\ row.state = "withdrawn" => row.withdrawn /\ (s \in {"open", "closed"} => row.key \in delayed)
      /\ row.state = "closed" => s \in {"closed", "old", "withdrawn"}
  BY <1>3, <1>5
<1>9. c \in U!Cases /\ U!Put(c, row) /\ row \in CaseRows /\ row.key = cases[c].key
  BY <1>1, <1>3
<1> QED
  BY <1>5, <1>7, <1>8, <1>9, RowStep

LEMMA RefusedStep == ASSUME CasesInv, NEW k \in Clerks, U!Refused(k) PROVE CasesInv'
<1>1. PICK wait \in BOOLEAN : U!Put(u_job[k].case, [cases[u_job[k].case] EXCEPT !.wait = wait \/ u_job[k].op = "status"])
  BY DEF U!Refused
<1> DEFINE c == u_job[k].case
           row == [cases[c] EXCEPT !.wait = wait \/ u_job[k].op = "status"]
<1>2. u_job[k].at = "posting" /\ U!Goes(k, U!Idle) /\ UNCHANGED <<u_consent, svc, u_late, delayed>> /\ c \in U!Cases
  BY DEF U!Refused, CasesInv, JobsTyped
<1>3. (wait \/ u_job[k].op = "status") \in BOOLEAN
  OBVIOUS
<1>4. cases[c] \in CaseRows
  BY <1>2, Places
<1>5. /\ row \in CaseRows /\ row.key = cases[c].key /\ row.state = cases[c].state
      /\ row.withdrawn = cases[c].withdrawn /\ row.words = cases[c].words
  BY <1>3, <1>4 DEF CaseRows
<1>6. /\ cases' \in Seq(CaseRows) /\ U!Cases' = U!Cases /\ cases'[c] = row
      /\ \A d \in U!Cases \ {c} : cases'[d] = cases[d]
  BY <1>1, <1>2, <1>5, PutsRow
<1> HIDE DEF c, row
<1> QED
  BY <1>2, <1>5, <1>6, OnePoster, RowsStay DEF CasesInv, KeysTyped

\* A taken key is given up for one that nobody has posted under, before it is sent again.
LEMMA ConflictStep == ASSUME CasesInv, NEW k \in Clerks, U!Conflict(k) PROVE CasesInv'
<1> DEFINE c == u_job[k].case
           row == [cases[c] EXCEPT !.key = Len(svc'), !.wait = FALSE]
<1>1. /\ u_job[k].at = "posting" /\ u_job[k].op = "send" /\ svc[cases[c].key] = "taken"
      /\ UNCHANGED <<u_consent, u_late, delayed>> /\ c \in U!Cases
  BY DEF U!Conflict, CasesInv, JobsTyped
<1>2. CASE u_job[k].fresh
  <2>1. U!Goes(k, U!Idle) /\ UNCHANGED <<cases, svc>> /\ U!Cases' = U!Cases
    BY <1>2 DEF U!Conflict, U!Cases
  <2> QED
    BY <1>1, <2>1, OnePoster, RowsStay, Places DEF CasesInv, KeysTyped
<1>3. CASE ~u_job[k].fresh
  <2>1. U!mint_case_key /\ U!Put(c, row) /\ U!Goes(k, U!Sending(c, TRUE))
    BY <1>3 DEF U!Conflict
  <2>2. /\ svc' \in Seq(Answers) /\ U!Keys \subseteq U!Keys' /\ Len(svc') \in U!Keys' \ U!Keys
        /\ \A key \in U!Keys' : key \in U!Keys \/ key = Len(svc')
        /\ \A key \in U!Keys : svc'[key] = svc[key]
        /\ svc'[Len(svc')] \in {"unknown", "taken"} /\ Len(svc') \in Nat
    BY <2>1, Mints
  <2>3. cases[c] \in CaseRows /\ cases[c].state = "pending" /\ c \in Nat /\ \A d \in U!Cases : cases[d].key \in U!Keys
    BY <1>1, Places DEF CasesInv, PostsInOrder
  <2>4. /\ row \in CaseRows /\ row.key = Len(svc') /\ row.state = "pending"
        /\ row.withdrawn = cases[c].withdrawn /\ row.words = cases[c].words
    BY <2>2, <2>3 DEF CaseRows
  <2>5. /\ cases' \in Seq(CaseRows) /\ U!Cases' = U!Cases /\ cases'[c] = row
        /\ \A d \in U!Cases \ {c} : cases'[d] = cases[d]
    BY <1>1, <2>1, <2>4, PutsRow
  <2> HIDE DEF row
  <2>6. RowsTyped' /\ KeysTyped'
    <3>1. \A d \in U!Cases' : cases'[d].key \in U!Keys'
      BY <2>2, <2>3, <2>4, <2>5
    <3>2. u_late' \subseteq U!Keys' /\ delayed' \subseteq U!Keys' /\ u_consent' \in Clerks \cup {None}
      BY <1>1, <2>2 DEF CasesInv, KeysTyped
    <3> QED
      BY <2>2, <2>5, <3>1, <3>2 DEF RowsTyped, KeysTyped
  <2>7. JobsTyped' /\ \A l \in Clerks : u_job'[l].at = "posting" => u_job'[l] = u_job[l] /\ l # k
    <3>1. U!Sending(c, TRUE) \in CaseJobs /\ U!Sending(c, TRUE).at = "locking" /\ U!Sending(c, TRUE).case = c
      BY <2>3 DEF U!Sending, CaseJobs, Resent
    <3> QED
      BY <1>1, <2>1, <2>5, <3>1, ClerkGoes
  <2>8. \A d \in U!Cases : U!Live(d)' <=> U!Live(d)
    BY <2>3, <2>4, <2>5 DEF U!Live
  <2>9. RowsAgree'
    BY <2>2, <2>3, <2>4, <2>5, <2>8 DEF CasesInv, RowsAgree
  <2>10. KeysDiffer' /\ OneIsLive'
    BY <2>2, <2>3, <2>4, <2>5, <2>8 DEF CasesInv, KeysDiffer, OneIsLive
  <2>11. PostsInOrder'
    BY <1>1, <2>3, <2>4, <2>5, <2>7, PostsRest DEF CasesInv, JobsTyped
  <2>12. U!HeldIsWithdrawable'
    <3>1. ASSUME NEW key \in U!Keys', U!Holds(key)' \/ (key \in u_late' /\ svc'[key] = "unknown")
          PROVE  \E d \in U!Cases' : cases'[d].key = key
      <4>1. key \in U!Keys
        BY <1>1, <2>2, <3>1 DEF U!Holds, CasesInv, KeysTyped
      <4>2. PICK d \in U!Cases : cases[d].key = key
        BY <1>1, <2>2, <3>1, <4>1 DEF CasesInv, U!HeldIsWithdrawable, U!Holds
      <4>3. d # c
        BY <1>1, <2>2, <3>1, <4>1, <4>2 DEF U!Holds
      <4> QED
        BY <2>5, <4>2, <4>3
    <3> QED
      BY <3>1 DEF U!HeldIsWithdrawable
  <2>13. U!WithdrawnIsGone'
    BY <1>1, <2>2, <2>3, <2>4, <2>5 DEF CasesInv, U!WithdrawnIsGone, U!Holds
  <2> QED
    BY <2>6, <2>7, <2>9, <2>10, <2>11, <2>12, <2>13 DEF CasesInv
<1> QED
  BY <1>2, <1>3

\* No answer: what the service may have done is about the key of the row, which stays.
LEMMA UnansweredStep == ASSUME CasesInv, NEW k \in Clerks, U!Unanswered(k) PROVE CasesInv'
<1> DEFINE c == u_job[k].case
           key == cases[c].key
<1>1. /\ u_job[k].at = "posting" /\ U!Goes(k, U!Idle) /\ UNCHANGED <<cases, u_consent, delayed>> /\ c \in U!Cases /\ U!Cases' = U!Cases
  BY DEF U!Unanswered, CasesInv, JobsTyped, U!Cases
<1>2. JobsTyped' /\ \A l \in Clerks : u_job'[l].at = "posting" => u_job'[l] = u_job[l]
  BY <1>1, OnePoster
<1>3. key \in U!Keys /\ svc[key] \in Answers /\ svc = [svc EXCEPT ![key] = svc[key]]
  BY <1>1, Places
<1>4. \A d \in U!Cases : cases[d].key = key => d = c
  BY <1>1 DEF CasesInv, KeysDiffer
<1>5. CASE UNCHANGED svc
  <2>1. u_late' \subseteq u_late \cup {key}
    BY <1>1 DEF U!Unanswered
  <2>2. delayed' \subseteq U!Keys
    BY <1>1 DEF CasesInv, KeysTyped
  <2> QED
    BY <1>1, <1>2, <1>3, <1>5, <2>1, <2>2, ServiceStep DEF U!Holds
<1>6. CASE u_job[k].op = "send" /\ svc' = U!Arrived(key) /\ UNCHANGED u_late /\ svc' # svc
  <2>1. svc' = [svc EXCEPT ![key] = "open"] /\ svc[key] = "unknown"
    BY <1>6 DEF U!Arrived
  <2>2. \A d \in U!Cases : cases[d].key = key => cases[d].state # "withdrawn"
    BY <1>1, <1>4, <1>6 DEF CasesInv, PostsInOrder
  <2>3. delayed' \subseteq U!Keys /\ "open" \in Answers
    BY <1>1 DEF CasesInv, KeysTyped, Answers
  <2> QED
    BY <1>1, <1>2, <1>3, <1>6, <2>1, <2>2, <2>3, ServiceStep, ZenonT(30)
<1>7. CASE svc' = U!Ended(key) /\ UNCHANGED u_late /\ svc' # svc
  <2>1. svc' = [svc EXCEPT ![key] = "withdrawn"]
    BY <1>7 DEF U!Ended
  <2>2. delayed' \subseteq U!Keys /\ "withdrawn" \in Answers
    BY <1>1 DEF CasesInv, KeysTyped, Answers
  <2> QED
    BY <1>1, <1>2, <1>3, <1>7, <2>1, <2>2, ServiceStep, ZenonT(30)
<1> QED
  BY <1>5, <1>6, <1>7 DEF U!Unanswered

\* Every step keeps the cases in order.
LEMMA CasesStep == ASSUME U!SubmissionsAssumption, CasesInv, [U!Next]_(U!vars) PROVE CasesInv'
<1>0. /\ U!Idle \in CaseJobs /\ U!Idle.at = "idle" /\ cases \in Seq(CaseRows)
      /\ u_consent \in Clerks \cup {None} /\ u_late \subseteq U!Keys /\ delayed \subseteq U!Keys
  BY Places DEF U!Idle, CaseJobs, CasesInv, KeysTyped
<1>1. ASSUME NEW k \in Clerks, NEW j \in CaseJobs, U!Goes(k, j), UNCHANGED <<cases, svc, u_late, delayed>>,
             j.at \in {"forgetting", "locking"} => j.case \in U!Cases, j.at # "posting",
             u_consent' \in Clerks \cup {None}
      PROVE  CasesInv'
  <2>1. U!Cases' = U!Cases
    BY <1>1 DEF U!Cases
  <2>2. JobsTyped' /\ \A l \in Clerks : u_job'[l].at = "posting" => u_job'[l] = u_job[l]
    BY <1>1, <2>1, ClerkGoes
  <2> QED
    BY <1>0, <1>1, <2>1, <2>2, RowsStay
<1>2. ASSUME NEW k \in Clerks, U!submit(k) \/ U!status(k) \/ U!withdraw_case(k) PROVE CasesInv'
  <2>1. CASE U!submit(k)
    <3>1. [at |-> "drafting"] \in CaseJobs
      BY DEF CaseJobs
    <3> QED
      BY <1>1, <2>1, <3>1 DEF U!submit, U!Click
  <2>2. CASE U!status(k) \/ U!withdraw_case(k)
    <3>1. PICK c \in U!Cases :
            \E j \in {[at |-> "locking", op |-> "status", case |-> c], [at |-> "forgetting", case |-> c]} :
              U!Click(k, j) /\ UNCHANGED u_consent
      BY <2>2 DEF U!status, U!withdraw_case
    <3>2. PICK j \in {[at |-> "locking", op |-> "status", case |-> c], [at |-> "forgetting", case |-> c]} :
              U!Click(k, j) /\ UNCHANGED u_consent
      BY <3>1
    <3>3. c \in Nat
      BY Places
    <3>4. j \in CaseJobs /\ j.at \in {"locking", "forgetting"} /\ j.case = c
      BY <3>2, <3>3 DEF CaseJobs, Posted
    <3> QED
      BY <1>0, <1>1, <3>2, <3>4 DEF U!Click
  <2> QED
    BY <1>2, <2>1, <2>2
<1>3. ASSUME NEW k \in Clerks, U!Draft(k) \/ U!Lock(k) \/ U!Forget(k) PROVE CasesInv'
  BY <1>3, DraftStep, LockStep, ForgetStep
<1>4. ASSUME NEW k \in Clerks, U!Answer(k) PROVE CasesInv'
  BY <1>4, SentStep, ConflictStep, StatusStep, WithdrawnStep, RefusedStep DEF U!Answer
<1>5. ASSUME NEW k \in Clerks, U!Unanswered(k) PROVE CasesInv'
  BY <1>5, UnansweredStep
<1>6. ASSUME NEW k \in Clerks, U!Crash(k) PROVE CasesInv'
  <2>1. U!Goes(k, U!Idle) /\ UNCHANGED <<cases, svc, u_late, delayed>> /\ u_consent' \in Clerks \cup {None}
    BY <1>0, <1>6 DEF U!Crash
  <2> QED
    BY <1>0, <1>1, <2>1
<1>7. ASSUME NEW key \in U!Keys, U!LateArrives(key) PROVE CasesInv'
  <2>1. /\ key \in u_late /\ svc' = U!Arrived(key) /\ u_late' = u_late \ {key} /\ delayed' = delayed \cup {key}
        /\ UNCHANGED <<cases, u_consent, u_job>>
    BY <1>7 DEF U!LateArrives
  <2>2. JobsTyped'
    BY <2>1 DEF CasesInv, JobsTyped, U!Cases
  <2>3. svc[key] \in Answers /\ svc = [svc EXCEPT ![key] = svc[key]]
    BY Places
  <2>4. CASE svc[key] = "unknown"
    <3>1. svc' = [svc EXCEPT ![key] = "open"] /\ "open" \in Answers
      BY <2>1, <2>4 DEF U!Arrived, Answers
    <3> QED
      BY <1>0, <2>1, <2>2, <2>4, <3>1, ServiceStep
  <2>5. CASE svc[key] # "unknown"
    <3>1. svc' = [svc EXCEPT ![key] = svc[key]]
      BY <2>1, <2>3, <2>5 DEF U!Arrived
    <3> QED
      BY <1>0, <2>1, <2>2, <2>3, <2>5, <3>1, ServiceStep DEF U!Holds
  <2> QED
    BY <2>4, <2>5
<1>8. ASSUME NEW key \in U!Keys, U!ServiceMoves(key) PROVE CasesInv'
  <2>1. UNCHANGED <<cases, u_consent, u_job, u_late, delayed>> /\ svc' # svc
        /\ svc' = [svc EXCEPT ![key] = CASE @ = "open" -> "closed" [] @ = "closed" -> "old" [] OTHER -> @]
    BY <1>8 DEF U!ServiceMoves
  <2>2. JobsTyped'
    BY <2>1 DEF CasesInv, JobsTyped, U!Cases
  <2>3. svc[key] \in Answers /\ svc = [svc EXCEPT ![key] = svc[key]]
    BY Places
  <2>4. CASE svc[key] = "open"
    <3>1. svc' = [svc EXCEPT ![key] = "closed"] /\ "closed" \in Answers
      BY <2>1, <2>4 DEF Answers
    <3> QED
      BY <1>0, <2>1, <2>2, <2>4, <3>1, ServiceStep DEF U!Holds
  <2>5. CASE svc[key] = "closed"
    <3>1. svc' = [svc EXCEPT ![key] = "old"] /\ "old" \in Answers
      BY <2>1, <2>5 DEF Answers
    <3> QED
      BY <1>0, <2>1, <2>2, <2>5, <3>1, ServiceStep DEF U!Holds
  <2>6. CASE svc[key] \notin {"open", "closed"}
    BY <2>1, <2>3, <2>6
  <2> QED
    BY <2>4, <2>5, <2>6
<1>9. ASSUME NEW c \in U!Cases, U!PauseEnds(c) PROVE CasesInv'
  <2> DEFINE row == [cases[c] EXCEPT !.wait = FALSE]
  <2>1. U!Put(c, row) /\ UNCHANGED <<u_consent, u_job, svc, u_late, delayed>>
    BY <1>9 DEF U!PauseEnds
  <2>2. /\ row \in CaseRows /\ row.key = cases[c].key /\ row.state = cases[c].state
        /\ row.withdrawn = cases[c].withdrawn /\ row.words = cases[c].words
    BY Places DEF CaseRows
  <2>3. /\ cases' \in Seq(CaseRows) /\ U!Cases' = U!Cases /\ cases'[c] = row
        /\ \A d \in U!Cases \ {c} : cases'[d] = cases[d]
    BY <2>1, <2>2, PutsRow
  <2>4. JobsTyped'
    BY <2>1, <2>3 DEF CasesInv, JobsTyped
  <2> QED
    BY <1>0, <2>1, <2>2, <2>3, <2>4, RowsStay
<1>10. CASE U!forget_closed
  <2>1. /\ cases' = [c \in U!Cases |-> [cases[c] EXCEPT !.words = @ /\ ~U!Past(cases[c])]]
        /\ UNCHANGED <<u_consent, u_job, svc, u_late, delayed>>
    BY <1>10 DEF U!forget_closed
  <2>2. ASSUME NEW c \in U!Cases
        PROVE  /\ [cases[c] EXCEPT !.words = @ /\ ~U!Past(cases[c])] \in CaseRows
               /\ cases'[c].state = cases[c].state /\ cases'[c].key = cases[c].key
               /\ cases'[c].withdrawn = cases[c].withdrawn
               /\ cases'[c].words = cases[c].words \/ cases[c].state \in {"closed", "expired"}
    <3>1. cases[c] \in CaseRows
      BY Places
    <3>2. (cases[c].words /\ ~U!Past(cases[c])) \in BOOLEAN
      OBVIOUS
    <3>3. cases'[c] = [cases[c] EXCEPT !.words = cases[c].words /\ ~U!Past(cases[c])]
      BY <2>1
    <3>4. cases[c].words \in BOOLEAN
      BY <3>1 DEF CaseRows
    <3>5. ~U!Past(cases[c]) => (cases[c].words /\ ~U!Past(cases[c])) = cases[c].words
      BY <3>4
    <3>6. U!Past(cases[c]) => cases[c].state \in {"closed", "expired"}
      BY DEF U!Past
    <3> QED
      BY <3>1, <3>2, <3>3, <3>5, <3>6 DEF CaseRows
  <2>3. U!Cases = 1..Len(cases) /\ Len(cases) \in Nat
    BY Places
  <2>4. cases' \in Seq(CaseRows) /\ U!Cases' = U!Cases
    <3>1. DOMAIN cases' = U!Cases /\ \A c \in U!Cases : cases'[c] = [cases[c] EXCEPT !.words = @ /\ ~U!Past(cases[c])]
      BY <2>1
    <3>2. cases' \in [1..Len(cases) -> CaseRows]
      BY <2>1, <2>2, <2>3
    <3> QED
      BY <2>3, <3>1, <3>2, SeqDef DEF U!Cases
  <2>5. JobsTyped'
    BY <2>1, <2>4 DEF CasesInv, JobsTyped
  <2> QED
    BY <1>0, <2>1, <2>2, <2>4, <2>5, RowsStay
<1>11. CASE UNCHANGED U!vars
  <2>1. UNCHANGED <<cases, u_consent, u_job, svc, u_late, delayed>>
    BY <1>11 DEF U!vars
  <2>2. JobsTyped' /\ U!Cases' = U!Cases
    BY <2>1 DEF CasesInv, JobsTyped, U!Cases
  <2> QED
    BY <1>0, <2>1, <2>2, RowsStay
<1> QED
  BY <1>2, <1>3, <1>4, <1>5, <1>6, <1>7, <1>8, <1>9, <1>10, <1>11 DEF U!Next, U!Fails


\* What a step of the composition is for the cases.
LEMMA CasesAlone == [Next]_vars => [U!Next]_(U!vars)
  BY DEF Next, vars, submissions, U!vars

\* No words of a case leave once it was withdrawn here, one case at most is live for the same
\* fields, what the service holds can still be withdrawn, and a case shown as withdrawn is
\* held nowhere unless a post overtook its withdrawal (core/submissions.py).
THEOREM SubmissionsAreSound == Spec => []SubmissionsSound
<1>1. Init => CasesInv
  BY CasesInit DEF Init
<1>2. CasesInv /\ [Next]_vars => CasesInv'
  BY ServicesAssumption, CasesAlone, CasesStep
<1>3. CasesInv => SubmissionsSound
  BY CasesHold DEF SubmissionsSound
<1> QED
  BY <1>1, <1>2, <1>3, PTL DEF Spec

-----------------------------------------------------------------------------
(* Summaries.                                                               *)

Outcomes == Y!LocalOutcomes \cup Y!Live \cup Y!Terminal \cup {"unavailable"}
EventRows ==
    [phase: {"open", "committed"}, device: Devices, time: Nat, reading: Readings, ttl: Nat, admitted: BOOLEAN,
     collected: BOOLEAN]
IsJob(j) ==
    /\ j = [status |-> j.status, attempts |-> j.attempts, wait |-> j.wait, config |-> j.config, key |-> j.key,
            born |-> j.born]
    /\ j.status \in Y!Live \cup Y!Terminal
    /\ j.attempts \in Nat /\ j.wait \in Nat /\ j.config \in Nat /\ j.born \in Nat
CallFrames == [pc: {"call"}, job: Y!Events, left: Nat, config: Nat, attempts: Nat]
Publications == [pc: {"publish"}, job: Y!Events, left: Nat, status: Y!Terminal, owns: BOOLEAN]

OperatorTyped == settings \in [enabled: BOOLEAN, config: 1..MaxConfigs] /\ flag \in BOOLEAN /\ y_consent \in BOOLEAN
OutboxTyped == outbox \in [Y!Events -> {[phase |-> "none"]} \cup EventRows]
QueueTyped ==
    /\ y_job = [e \in Y!Events |-> y_job[e]] /\ \A e \in Y!Events : y_job[e] \in {Y!NoJob, Y!Gone} \/ IsJob(y_job[e])
    /\ point \in [Y!Events -> Outcomes] /\ counted \in [Y!Events -> Nat] /\ briefed \in [Y!Events -> Nat]
WorkersTyped == worker \in [Summarizers -> {Y!Idle} \cup CallFrames \cup Publications]

\* Events are numbered as they are opened and looked at once they are committed; before it is
\* collected an event has no job.
EventsInOrder == \E n \in 0..MaxEvents : Y!Opened = 1..n
BatchesCommitted == batch \in [Collectors -> SUBSET Y!Events] /\ \A c \in Collectors : batch[c] \subseteq Y!Committed
CollectedIsOpen == \A e \in Y!Events : y_job[e] # Y!NoJob => e \in Y!Opened /\ outbox[e].collected

\* A worker at a call has the lease of its job, for longer than the call may last, and nobody
\* has that of another job with the same question.
LeaseOutlastsCall ==
    \A w \in Summarizers :
        worker[w] # Y!Idle =>
            /\ y_job[worker[w].job].status = "processing"
            /\ worker[w].left < y_job[worker[w].job].wait
HeldKeysDiffer ==
    \A v, w \in Summarizers :
        v # w /\ worker[v] # Y!Idle /\ worker[w] # Y!Idle => y_job[worker[v].job].key # y_job[worker[w].job].key

QueueInv ==
    /\ OperatorTyped /\ OutboxTyped /\ QueueTyped /\ WorkersTyped
    /\ EventsInOrder /\ BatchesCommitted /\ CollectedIsOpen /\ LeaseOutlastsCall /\ HeldKeysDiffer
    /\ Y!CountedOnce /\ Y!BacklogBounded /\ Y!PointTellsJob

\* Counting does not depend on where it is done.
LEMMA SummaryCounts == \A T : Y!Cardinality(T) = Cardinality(T)
  BY DEF Y!Cardinality, Cardinality

\* What the status of an event's job says of it.
LEMMA WhichJob ==
    ASSUME QueueTyped, NEW e \in Y!Events
    PROVE  /\ e \in Y!Jobs <=> y_job[e].status \in Y!Live \cup Y!Terminal
           /\ e \in Y!LiveJobs <=> y_job[e].status \in Y!Live
           /\ y_job[e] = Y!NoJob <=> y_job[e].status = "none"
           /\ y_job[e] = Y!Gone <=> y_job[e].status = "gone"
           /\ y_job[e].status \in Y!Live \cup Y!Terminal => IsJob(y_job[e])
  BY DEF QueueTyped, Y!Jobs, Y!LiveJobs, IsJob, Y!NoJob, Y!Gone, Y!Live, Y!Terminal

\* Claiming a job or putting it back changes no more than its status, attempts and wait.
LEMMA JobEdits ==
    ASSUME NEW a, IsJob(a), NEW n \in Nat, NEW t \in Nat
    PROVE  /\ LET i == [a EXCEPT !.status = "processing", !.attempts = @ + 1, !.wait = n]
              IN  IsJob(i) /\ i.status = "processing" /\ i.wait = n /\ i.key = a.key
           /\ LET i == [a EXCEPT !.status = "pending", !.wait = t]
              IN  IsJob(i) /\ i.status = "pending"
<1>1. a.attempts + 1 \in Nat /\ "processing" \in Y!Live /\ "pending" \in Y!Live
  BY DEF IsJob, Y!Live
<1>2. ASSUME NEW b, IsJob(b)
      PROVE  /\ \A s \in Y!Live : LET i == [b EXCEPT !.status = s] IN IsJob(i) /\ i.status = s /\ i.key = b.key
             /\ \A m \in Nat : LET i == [b EXCEPT !.attempts = m] IN IsJob(i) /\ i.status = b.status /\ i.key = b.key
             /\ \A m \in Nat : LET i == [b EXCEPT !.wait = m]
                               IN  IsJob(i) /\ i.status = b.status /\ i.wait = m /\ i.key = b.key
  BY <1>2 DEF IsJob
<1>3. LET i == [[[a EXCEPT !.status = "processing"] EXCEPT !.attempts = a.attempts + 1] EXCEPT !.wait = n]
      IN  IsJob(i) /\ i.status = "processing" /\ i.wait = n /\ i.key = a.key
  <2> DEFINE b == [a EXCEPT !.status = "processing"]
             c == [b EXCEPT !.attempts = a.attempts + 1]
  <2>1. IsJob(b) /\ b.status = "processing" /\ b.key = a.key
    BY <1>1, <1>2
  <2> HIDE DEF b
  <2>2. IsJob(c) /\ c.status = "processing" /\ c.key = a.key
    BY <1>1, <1>2, <2>1
  <2> HIDE DEF c
  <2>3. LET i == [c EXCEPT !.wait = n] IN IsJob(i) /\ i.status = "processing" /\ i.wait = n /\ i.key = a.key
    BY <1>2, <2>2
  <2> QED
    BY <2>3 DEF b, c
<1>4. LET i == [[a EXCEPT !.status = "pending"] EXCEPT !.wait = t]
      IN  IsJob(i) /\ i.status = "pending"
  <2> DEFINE b == [a EXCEPT !.status = "pending"]
  <2>1. IsJob(b) /\ b.status = "pending"
    BY <1>1, <1>2
  <2> HIDE DEF b
  <2>2. LET i == [b EXCEPT !.wait = t] IN IsJob(i) /\ i.status = "pending"
    BY <1>2, <2>1
  <2> QED
    BY <2>2 DEF b
<1>5. /\ [a EXCEPT !.status = "processing", !.attempts = @ + 1, !.wait = n]
            = [[[a EXCEPT !.status = "processing"] EXCEPT !.attempts = a.attempts + 1] EXCEPT !.wait = n]
      /\ [a EXCEPT !.status = "pending", !.wait = t] = [[a EXCEPT !.status = "pending"] EXCEPT !.wait = t]
  BY DEF IsJob
<1> QED
  BY <1>3, <1>4, <1>5

\* The live jobs are finitely many.
LEMMA LiveIsFinite ==
    ASSUME Y!SummariesAssumption
    PROVE  /\ \A T : T \subseteq Y!Events => IsFiniteSet(T) /\ Cardinality(T) \in Nat
           /\ IsFiniteSet(Y!LiveJobs) /\ Cardinality(Y!LiveJobs) \in Nat
<1>1. MaxEvents \in Nat
  BY DEF Y!SummariesAssumption
<1>2. IsFiniteSet(Y!Events)
  BY <1>1, FS_Interval DEF Y!Events
<1>3. Y!LiveJobs \subseteq Y!Events
  BY DEF Y!LiveJobs, Y!Jobs
<1> QED
  BY <1>2, <1>3, FS_Subset, FS_CardinalityType

\* What a worker's frame says of it.
LEMMA WhichFrame ==
    ASSUME WorkersTyped, NEW w \in Summarizers
    PROVE  /\ worker[w] # Y!Idle <=> worker[w].pc \in {"call", "publish"}
           /\ worker[w].pc = "call" => worker[w] \in CallFrames
           /\ worker[w].pc = "publish" => worker[w] \in Publications
           /\ worker[w] # Y!Idle => worker[w].job \in Y!Events /\ worker[w].left \in Nat
  BY DEF WorkersTyped, Y!Idle, CallFrames, Publications

\* The backlog keeps its limit where nothing joins it.
LEMMA NoneJoins ==
    ASSUME Y!SummariesAssumption, Y!BacklogBounded, Y!LiveJobs' \subseteq Y!LiveJobs
    PROVE  Y!BacklogBounded'
<1>2. IsFiniteSet(Y!LiveJobs)
  BY LiveIsFinite
<1>3. Cardinality(Y!LiveJobs') <= Cardinality(Y!LiveJobs) /\ Cardinality(Y!LiveJobs) \in Nat /\ Cardinality(Y!LiveJobs') \in Nat
  BY <1>2, FS_Subset, FS_CardinalityType
<1> QED
  BY <1>3, SummaryCounts DEF Y!BacklogBounded, Y!SummariesAssumption

LEMMA QueueInit == ASSUME Y!SummariesAssumption, Y!Init PROVE QueueInv
<1>1. /\ settings = [enabled |-> TRUE, config |-> 1] /\ flag = TRUE /\ y_consent = TRUE
      /\ outbox = [e \in Y!Events |-> [phase |-> "none"]] /\ y_job = [e \in Y!Events |-> Y!NoJob]
      /\ point = [e \in Y!Events |-> "unavailable"] /\ counted = [e \in Y!Events |-> 0] /\ briefed = [e \in Y!Events |-> 0]
      /\ batch = [c \in Collectors |-> {}] /\ worker = [w \in Summarizers |-> Y!Idle]
  BY DEF Y!Init
<1>2. OperatorTyped /\ OutboxTyped /\ QueueTyped /\ WorkersTyped
  BY <1>1 DEF Y!SummariesAssumption, OperatorTyped, OutboxTyped, QueueTyped, WorkersTyped, Outcomes
<1>3. Y!Opened = {} /\ Y!LiveJobs = {} /\ Y!Jobs = {}
  BY <1>1 DEF Y!Opened, Y!LiveJobs, Y!Jobs
<1>4. EventsInOrder /\ BatchesCommitted /\ CollectedIsOpen /\ LeaseOutlastsCall /\ HeldKeysDiffer
  <2>1. 1..0 = {} /\ 0 \in 0..MaxEvents
    BY DEF Y!SummariesAssumption
  <2> QED
    BY <1>1, <1>3, <2>1 DEF EventsInOrder, BatchesCommitted, CollectedIsOpen, LeaseOutlastsCall, HeldKeysDiffer
<1>5. Y!CountedOnce /\ Y!PointTellsJob
  BY <1>1, <1>3 DEF Y!CountedOnce, Y!PointTellsJob
<1>6. Y!BacklogBounded
  BY <1>3, FS_EmptySet, SummaryCounts DEF Y!BacklogBounded, Y!SummariesAssumption
<1> QED
  BY <1>2, <1>4, <1>5, <1>6 DEF QueueInv

LEMMA SummariesHold == ASSUME Y!SummariesAssumption, QueueInv PROVE Y!SummariesSound
<1>1. Y!TypeOK
  <2>1. \A e \in Y!Events : outbox[e].phase \in {"none", "open", "committed"}
    BY DEF QueueInv, OutboxTyped, EventRows
  <2>2. \A e \in Y!Events : y_job[e] \notin {Y!NoJob, Y!Gone} => y_job[e].status \in Y!Live \cup Y!Terminal /\ y_job[e].attempts \in Nat
    BY DEF QueueInv, QueueTyped, IsJob
  <2>3. \A w \in Summarizers : worker[w].pc \in {"idle", "call", "publish"}
    BY DEF QueueInv, WorkersTyped, Y!Idle, CallFrames, Publications
  <2>4. \A e \in Y!Events : counted[e] \in Nat /\ briefed[e] \in Nat
    BY DEF QueueInv, QueueTyped
  <2> QED
    BY <2>1, <2>2, <2>3, <2>4 DEF QueueInv, OperatorTyped, BatchesCommitted, Y!TypeOK
<1>2. Y!OneCallPerKey
  BY WhichFrame DEF QueueInv, Y!OneCallPerKey, HeldKeysDiffer
<1> QED
  BY <1>1, <1>2 DEF QueueInv, Y!SummariesSound

\* A step of the outbox or the operator: events are opened, committed, passed over or age.
LEMMA OutboxMoves ==
    ASSUME Y!SummariesAssumption, QueueInv, OutboxTyped', OperatorTyped', EventsInOrder',
           UNCHANGED <<y_job, point, counted, briefed, batch, worker>>,
           \A x \in Y!Events :
               /\ x \in Y!Opened => x \in Y!Opened' /\ outbox'[x].collected = outbox[x].collected
               /\ x \in Y!Committed => x \in Y!Committed'
               /\ x \in Y!Opened' \ Y!Opened => ~outbox'[x].collected
    PROVE  QueueInv'
<1>1. QueueTyped' /\ WorkersTyped' /\ LeaseOutlastsCall' /\ HeldKeysDiffer'
  BY DEF QueueInv, QueueTyped, WorkersTyped, LeaseOutlastsCall, HeldKeysDiffer
<1>2. Y!Jobs' = Y!Jobs /\ Y!LiveJobs' = Y!LiveJobs
  BY DEF Y!Jobs, Y!LiveJobs
<1>3. BatchesCommitted' /\ CollectedIsOpen'
  BY DEF QueueInv, BatchesCommitted, CollectedIsOpen
<1>4. Y!CountedOnce' /\ Y!PointTellsJob'
  BY <1>2 DEF QueueInv, Y!CountedOnce, Y!PointTellsJob
<1>5. Y!BacklogBounded'
  BY <1>2, NoneJoins DEF QueueInv
<1> QED
  BY <1>1, <1>3, <1>4, <1>5 DEF QueueInv

LEMMA OpensStep ==
    ASSUME Y!SummariesAssumption, QueueInv, NEW d \in Devices, NEW t \in 1..MaxTime, NEW r \in Readings, Y!OpenEvent(d, t, r)
    PROVE  QueueInv'
<1> DEFINE e == Cardinality(Y!Opened) + 1
           new == [phase |-> "open", device |-> d, time |-> t, reading |-> r, ttl |-> Ttl, admitted |-> TRUE,
                   collected |-> FALSE]
<1>1. PICK n \in 0..MaxEvents : Y!Opened = 1..n
  BY DEF QueueInv, EventsInOrder
<1>2. e = n + 1 /\ n \in Nat /\ MaxEvents \in Nat
  <2>1. n \in Nat /\ MaxEvents \in Nat
    BY DEF Y!SummariesAssumption
  <2>2. Cardinality(1..n) = n
    BY <2>1, FS_Interval
  <2> QED
    BY <1>1, <2>1, <2>2
<1>3. e \in Y!Events /\ outbox' = [outbox EXCEPT ![e] = new]
  BY SummaryCounts DEF Y!OpenEvent
<1>4. UNCHANGED <<settings, flag, y_consent, y_job, point, counted, briefed, batch, worker>>
  BY DEF Y!OpenEvent, Y!operator
<1> HIDE DEF e
<1>5. new \in EventRows
  BY DEF Y!SummariesAssumption, EventRows
<1> HIDE DEF new
<1>6. OutboxTyped' /\ outbox'[e] = new /\ \A x \in Y!Events \ {e} : outbox'[x] = outbox[x]
  BY <1>3, <1>5 DEF QueueInv, OutboxTyped
<1>7. new.phase = "open" /\ new.collected = FALSE
  BY DEF new
<1>8. Y!Opened' = Y!Opened \cup {e} /\ e \notin Y!Opened
  BY <1>1, <1>2, <1>3, <1>6, <1>7 DEF Y!Opened, Y!Events
<1>9. EventsInOrder'
  BY <1>1, <1>2, <1>3, <1>8 DEF EventsInOrder, Y!Events
<1>10. OperatorTyped'
  BY <1>4 DEF QueueInv, OperatorTyped
<1>11. \A x \in Y!Events :
           /\ x \in Y!Opened => x \in Y!Opened' /\ outbox'[x].collected = outbox[x].collected
           /\ x \in Y!Committed => x \in Y!Committed'
           /\ x \in Y!Opened' \ Y!Opened => ~outbox'[x].collected
  BY <1>6, <1>7, <1>8 DEF Y!Committed, Y!Opened
<1> QED
  BY <1>4, <1>6, <1>9, <1>10, <1>11, OutboxMoves

LEMMA OperatorStep ==
    ASSUME Y!SummariesAssumption, QueueInv,
           \/ \E e \in Y!Events : Y!CommitEvent(e)
           \/ \E on \in BOOLEAN, c \in 1..MaxConfigs : Y!SaveSettings(on, c)
           \/ Y!SetFlag \/ Y!SetConsent
    PROVE  QueueInv'
<1>1. UNCHANGED <<y_job, point, counted, briefed, batch, worker>> /\ OperatorTyped'
  <2>1. OperatorTyped
    BY DEF QueueInv
  <2>2. CASE \E e \in Y!Events : Y!CommitEvent(e)
    BY <2>1, <2>2 DEF Y!CommitEvent, Y!operator, OperatorTyped
  <2>3. CASE \E on \in BOOLEAN, c \in 1..MaxConfigs : Y!SaveSettings(on, c)
    <3>1. PICK on \in BOOLEAN, c \in 1..MaxConfigs : Y!SaveSettings(on, c)
      BY <2>3
    <3>2. [enabled |-> on, config |-> c] \in [enabled: BOOLEAN, config: 1..MaxConfigs]
      OBVIOUS
    <3> QED
      BY <2>1, <3>1, <3>2 DEF Y!SaveSettings, OperatorTyped
  <2>4. CASE Y!SetFlag
    BY <2>1, <2>4 DEF Y!SetFlag, Y!tables, OperatorTyped
  <2>5. CASE Y!SetConsent
    BY <2>1, <2>5 DEF Y!SetConsent, Y!tables, OperatorTyped
  <2> QED
    BY <2>2, <2>3, <2>4, <2>5
<1>2. /\ OutboxTyped'
      /\ \A x \in Y!Events :
             /\ x \in Y!Opened <=> outbox'[x].phase # "none"
             /\ x \in Y!Opened => outbox'[x].collected = outbox[x].collected
             /\ x \in Y!Committed => outbox'[x].phase = "committed"
  <2>1. CASE \E e \in Y!Events : Y!CommitEvent(e)
    <3>1. PICK e \in Y!Events : outbox[e].phase = "open" /\ outbox' = [outbox EXCEPT ![e].phase = "committed"]
      BY <2>1 DEF Y!CommitEvent
    <3>2. outbox[e] \in EventRows
      BY <3>1 DEF QueueInv, OutboxTyped
    <3>3. [outbox[e] EXCEPT !.phase = "committed"] \in EventRows
      BY <3>2 DEF EventRows
    <3> QED
      BY <3>1, <3>2, <3>3 DEF QueueInv, OutboxTyped, Y!Opened, Y!Committed, EventRows
  <2>2. CASE \E on \in BOOLEAN, c \in 1..MaxConfigs : Y!SaveSettings(on, c)
    <3>1. \/ outbox' = outbox
          \/ outbox' = [e \in Y!Events |-> IF e \in Y!Opened THEN [outbox[e] EXCEPT !.admitted = FALSE] ELSE outbox[e]]
      BY <2>2 DEF Y!SaveSettings
    <3>2. ASSUME NEW e \in Y!Opened PROVE outbox[e] \in EventRows /\ [outbox[e] EXCEPT !.admitted = FALSE] \in EventRows
      <4>1. outbox[e] \in EventRows
        BY DEF QueueInv, OutboxTyped, Y!Opened
      <4>2. \A x \in EventRows : [x EXCEPT !.admitted = FALSE] \in EventRows
        BY DEF EventRows
      <4> QED
        BY <4>1, <4>2
    <3> QED
      BY <3>1, <3>2 DEF QueueInv, OutboxTyped, Y!Opened, Y!Committed, EventRows
  <2>3. CASE Y!SetFlag \/ Y!SetConsent
    BY <2>3 DEF Y!SetFlag, Y!SetConsent, Y!tables, QueueInv, OutboxTyped, Y!Opened, Y!Committed
  <2> QED
    BY <2>1, <2>2, <2>3
<1>3. Y!Opened' = Y!Opened /\ Y!Committed \subseteq Y!Committed'
  BY <1>2 DEF Y!Opened, Y!Committed
<1>4. EventsInOrder'
  BY <1>3 DEF QueueInv, EventsInOrder
<1> QED
  BY <1>1, <1>2, <1>3, <1>4, OutboxMoves

\* A job moves on, and its event has an outcome when it ends.
LEMMA JobMoves ==
    ASSUME Y!SummariesAssumption, QueueInv, NEW e \in Y!LiveJobs, NEW j, IsJob(j), y_job' = [y_job EXCEPT ![e] = j],
           UNCHANGED <<settings, flag, y_consent, outbox, batch>>,
           \/ j.status \in Y!Live /\ UNCHANGED <<point, counted, briefed>>
           \/ j.status \in Y!Terminal /\ Y!Outcome(e, j.status, point),
           WorkersTyped', LeaseOutlastsCall', HeldKeysDiffer'
    PROVE  QueueInv'
<1>1. e \in Y!Events /\ y_job[e].status \in Y!Live /\ y_job[e] # Y!NoJob
  BY WhichJob DEF QueueInv, Y!LiveJobs, Y!Jobs
<1>2. y_job'[e] = j /\ \A x \in Y!Events \ {e} : y_job'[x] = y_job[x]
  BY <1>1 DEF QueueInv, QueueTyped
<1>3. /\ point' \in [Y!Events -> Outcomes] /\ counted' \in [Y!Events -> Nat] /\ briefed' \in [Y!Events -> Nat]
      /\ \A x \in Y!Events \ {e} : point'[x] = point[x] /\ counted'[x] = counted[x] /\ briefed'[x] = briefed[x]
      /\ j.status \in Y!Live => point'[e] = point[e] /\ counted'[e] = counted[e] /\ briefed'[e] = briefed[e]
      /\ j.status \in Y!Terminal => point'[e] = j.status /\ counted'[e] = counted[e] + 1 /\ briefed'[e] <= briefed[e] + 1
  BY <1>1 DEF Y!Outcome, QueueInv, QueueTyped, Outcomes, Y!Live, Y!Terminal
<1>4. QueueTyped'
  BY <1>1, <1>2, <1>3 DEF QueueInv, QueueTyped
<1>5. /\ \A x \in Y!Events \ {e} : (x \in Y!Jobs' <=> x \in Y!Jobs) /\ (x \in Y!LiveJobs' <=> x \in Y!LiveJobs)
      /\ e \in Y!Jobs' /\ (e \in Y!LiveJobs' <=> j.status \in Y!Live) /\ e \in Y!Jobs
  <2>1. /\ \A x \in Y!Events : (x \in Y!Jobs <=> y_job[x].status \in Y!Live \cup Y!Terminal) /\ (x \in Y!LiveJobs <=> y_job[x].status \in Y!Live)
        /\ \A x \in Y!Events : x \in Y!LiveJobs' <=> x \in Y!Jobs' /\ y_job'[x].status \in Y!Live
        /\ \A x \in Y!Events : x \in Y!Jobs' <=> y_job'[x] \notin {Y!NoJob, Y!Gone}
    BY WhichJob DEF QueueInv, Y!LiveJobs, Y!Jobs
  <2>2. j \notin {Y!NoJob, Y!Gone}
    BY DEF IsJob, Y!NoJob, Y!Gone, Y!Live, Y!Terminal
  <2> QED
    BY <1>1, <1>2, <2>1, <2>2 DEF Y!Jobs
<1>6. Y!Opened' = Y!Opened /\ Y!Committed' = Y!Committed
  BY DEF Y!Opened, Y!Committed
<1>7. CollectedIsOpen' /\ EventsInOrder' /\ BatchesCommitted' /\ OperatorTyped' /\ OutboxTyped'
  BY <1>1, <1>2, <1>6 DEF QueueInv, CollectedIsOpen, EventsInOrder, BatchesCommitted, OperatorTyped, OutboxTyped
<1>8. Y!CountedOnce'
  <2>1. e \in Y!Opened /\ outbox[e].collected /\ counted[e] = 0 /\ briefed[e] = 0
    BY <1>1 DEF QueueInv, CollectedIsOpen, Y!CountedOnce, QueueTyped
  <2>2. j.status \in Y!Live \cup Y!Terminal /\ Y!Live \cap Y!Terminal = {}
    BY DEF IsJob, Y!Live, Y!Terminal
  <2>3. counted'[e] = (IF e \in Y!LiveJobs' THEN 0 ELSE 1) /\ briefed'[e] <= counted'[e]
    BY <1>3, <1>5, <2>1, <2>2
  <2> QED
    BY <1>3, <1>5, <1>6, <2>1, <2>3 DEF QueueInv, Y!CountedOnce
<1>9. Y!PointTellsJob'
  <2>1. IF e \in Y!LiveJobs' THEN point'[e] = "pending" ELSE point'[e] = y_job'[e].status
    BY <1>1, <1>2, <1>3, <1>5 DEF QueueInv, Y!PointTellsJob, IsJob
  <2>2. ASSUME NEW x \in Y!Jobs', x # e PROVE IF x \in Y!LiveJobs' THEN point'[x] = "pending" ELSE point'[x] = y_job'[x].status
    BY <1>2, <1>3, <1>5, <2>2 DEF QueueInv, Y!PointTellsJob, Y!Jobs
  <2> QED
    BY <2>1, <2>2 DEF Y!PointTellsJob
<1>10. Y!BacklogBounded'
  BY <1>5, NoneJoins DEF QueueInv, Y!LiveJobs, Y!Jobs
<1> QED
  BY <1>4, <1>7, <1>8, <1>9, <1>10 DEF QueueInv

\* The job that is picked is ready: nobody holds it, or another with its question.
LEMMA PickedIsFree ==
    ASSUME Y!SummariesAssumption, QueueInv, Y!Ready # {}
    PROVE  /\ Y!Next1 \in Y!LiveJobs /\ y_job[Y!Next1].wait = 0
           /\ \A v \in Summarizers : worker[v] # Y!Idle => worker[v].job # Y!Next1 /\ y_job[worker[v].job].key # y_job[Y!Next1].key
<1>1. \E e \in Y!Ready : \A x \in Y!Ready : y_job[e].born <= y_job[x].born
  <2>1. \A e \in Y!Ready : y_job[e].born \in Nat
    BY WhichJob DEF Y!Ready, Y!LiveJobs, Y!Jobs, IsJob, QueueInv
  <2>2. {y_job[e].born : e \in Y!Ready} \in SUBSET Nat /\ {y_job[e].born : e \in Y!Ready} # {}
    BY <2>1
  <2>3. PICK n \in {y_job[e].born : e \in Y!Ready} : \A m \in {y_job[e].born : e \in Y!Ready} : n <= m
    BY <2>2, LeastExists
  <2> QED
    BY <2>3
<1>2. Y!Next1 \in Y!Ready
  BY <1>1 DEF Y!Next1
<1>3. Y!Next1 \in Y!LiveJobs /\ y_job[Y!Next1].wait = 0 /\ ~Y!Competing(Y!Next1)
  BY <1>2 DEF Y!Ready
<1>4. ASSUME NEW v \in Summarizers, worker[v] # Y!Idle
      PROVE  worker[v].job # Y!Next1 /\ y_job[worker[v].job].key # y_job[Y!Next1].key
  <2>1. /\ worker[v].job \in Y!Events /\ worker[v].left \in Nat /\ y_job[worker[v].job].status = "processing"
        /\ worker[v].left < y_job[worker[v].job].wait
    BY <1>4, WhichFrame DEF QueueInv, LeaseOutlastsCall
  <2>2. worker[v].job \in Y!Jobs /\ y_job[worker[v].job].wait \in Nat
    BY <2>1, WhichJob DEF QueueInv, Y!Live, IsJob
  <2> QED
    BY <1>3, <2>1, <2>2 DEF Y!Competing
<1> QED
  BY <1>3, <1>4

LEMMA PickStep == ASSUME Y!SummariesAssumption, QueueInv, NEW w \in Summarizers, Y!Pick(w) PROVE QueueInv'
<1> DEFINE e == Y!Next1
<1>1. /\ worker[w] = Y!Idle /\ Y!Ready # {} /\ UNCHANGED <<settings, flag, y_consent, outbox, batch>>
  BY DEF Y!Pick, Y!operator
<1>2. /\ e \in Y!LiveJobs /\ y_job[e].wait = 0
      /\ \A v \in Summarizers : worker[v] # Y!Idle => worker[v].job # e /\ y_job[worker[v].job].key # y_job[e].key
  BY <1>1, PickedIsFree
<1>3. \/ Y!Claim(w, e)
      \/ \E s \in {"dropped", "cached"} : Y!FinishNow(e, s) /\ UNCHANGED worker
  BY DEF Y!Pick
<1> HIDE DEF e
<1>4. e \in Y!Events /\ IsJob(y_job[e])
  BY <1>2, WhichJob DEF QueueInv, Y!LiveJobs, Y!Jobs
<1>5. WorkersTyped /\ LeaseOutlastsCall /\ HeldKeysDiffer
  BY DEF QueueInv
<1>6. y_job = [x \in Y!Events |-> y_job[x]]
  BY DEF QueueInv, QueueTyped
<1>7. CASE \E s \in {"dropped", "cached"} : Y!FinishNow(e, s) /\ UNCHANGED worker
  <2>1. PICK s \in {"dropped", "cached"} : y_job' = [y_job EXCEPT ![e].status = s] /\ Y!Outcome(e, s, point) /\ UNCHANGED worker
    BY <1>7 DEF Y!FinishNow
  <2> DEFINE j == [y_job[e] EXCEPT !.status = s]
  <2>2. IsJob(j) /\ j.status = s /\ s \in Y!Terminal /\ y_job' = [y_job EXCEPT ![e] = j]
    BY <1>4, <2>1 DEF IsJob, Y!Terminal
  <2>3. \A x \in Y!Events : x # e => y_job'[x] = y_job[x]
    BY <1>6, <2>1
  <2>4. \A v \in Summarizers : worker[v] # Y!Idle => y_job'[worker[v].job] = y_job[worker[v].job]
    BY <1>2, <1>5, <2>3, WhichFrame
  <2>5. WorkersTyped' /\ LeaseOutlastsCall' /\ HeldKeysDiffer'
    <3>1. worker' = worker
      BY <2>1
    <3>2. WorkersTyped' /\ LeaseOutlastsCall'
      BY <1>5, <2>4, <3>1 DEF WorkersTyped, LeaseOutlastsCall
    <3>3. HeldKeysDiffer'
      BY <1>5, <2>4, <3>1 DEF HeldKeysDiffer
    <3> QED
      BY <3>2, <3>3
  <2> HIDE DEF j
  <2> QED
    BY <1>1, <1>2, <2>1, <2>2, <2>5, JobMoves
<1>8. CASE Y!Claim(w, e)
  <2> DEFINE j == [y_job[e] EXCEPT !.status = "processing", !.attempts = @ + 1, !.wait = Lease]
             f == [pc |-> "call", job |-> e, left |-> CallTime, config |-> y_job[e].config, attempts |-> y_job[e].attempts + 1]
  <2>1. y_job' = [y_job EXCEPT ![e] = j] /\ worker' = [worker EXCEPT ![w] = f] /\ UNCHANGED <<point, counted, briefed>>
    BY <1>8 DEF Y!Claim
  <2>2. /\ IsJob(j) /\ j.status = "processing" /\ "processing" \in Y!Live /\ j.wait = Lease /\ j.key = y_job[e].key
        /\ f \in CallFrames /\ CallTime < Lease /\ f.job = e /\ f.left = CallTime
    <3>1. IsJob(j) /\ j.status = "processing" /\ "processing" \in Y!Live /\ j.wait = Lease /\ j.key = y_job[e].key
      <4>1. Lease \in Nat
        BY DEF Y!SummariesAssumption
      <4> QED
        BY <1>4, <4>1, JobEdits DEF Y!Live
    <3>2. f \in CallFrames /\ CallTime < Lease /\ f.job = e /\ f.left = CallTime
      BY <1>4 DEF IsJob, CallFrames, Y!SummariesAssumption
    <3> QED
      BY <3>1, <3>2
  <2> HIDE DEF j, f
  <2>3. y_job'[e] = j /\ \A x \in Y!Events : x # e => y_job'[x] = y_job[x]
    BY <1>4, <1>6, <2>1
  <2>4. WorkersTyped' /\ worker'[w] = f /\ \A v \in Summarizers : v # w => worker'[v] = worker[v]
    BY <1>5, <2>1, <2>2 DEF WorkersTyped
  <2>5. \A v \in Summarizers : worker[v] # Y!Idle => y_job'[worker[v].job] = y_job[worker[v].job]
    BY <1>2, <1>5, <2>3, WhichFrame
  <2>6. LeaseOutlastsCall' /\ HeldKeysDiffer'
    BY <1>2, <1>5, <2>2, <2>3, <2>4, <2>5 DEF LeaseOutlastsCall, HeldKeysDiffer
  <2> QED
    BY <1>1, <1>2, <2>1, <2>2, <2>4, <2>6, JobMoves
<1> QED
  BY <1>3, <1>7, <1>8

\* A worker lets go of its job, which moves on.
LEMMA LetsGo ==
    ASSUME Y!SummariesAssumption, QueueInv, NEW w \in Summarizers, worker[w] # Y!Idle, worker' = [worker EXCEPT ![w] = Y!Idle],
           UNCHANGED <<settings, flag, y_consent, outbox, batch>>, NEW j, IsJob(j),
           y_job' = [y_job EXCEPT ![worker[w].job] = j],
           \/ j.status \in Y!Live /\ UNCHANGED <<point, counted, briefed>>
           \/ j.status \in Y!Terminal /\ Y!Outcome(worker[w].job, j.status, point)
    PROVE  QueueInv'
<1>1. WorkersTyped /\ LeaseOutlastsCall /\ HeldKeysDiffer /\ QueueTyped
  BY DEF QueueInv
<1>2. worker[w].job \in Y!Events /\ y_job[worker[w].job].status = "processing"
  BY <1>1, WhichFrame DEF LeaseOutlastsCall
<1>3. worker[w].job \in Y!LiveJobs
  BY <1>1, <1>2, WhichJob DEF Y!Live
<1>4. WorkersTyped' /\ worker'[w] = Y!Idle /\ \A v \in Summarizers : v # w => worker'[v] = worker[v]
  BY <1>1 DEF WorkersTyped
<1>5. \A v \in Summarizers : v # w /\ worker[v] # Y!Idle => worker[v].job # worker[w].job /\ worker[v].job \in Y!Events
  BY <1>1, WhichFrame DEF HeldKeysDiffer
<1>6. \A v \in Summarizers : v # w /\ worker[v] # Y!Idle => y_job'[worker[v].job] = y_job[worker[v].job]
  BY <1>1, <1>2, <1>5 DEF QueueTyped
<1>7. LeaseOutlastsCall' /\ HeldKeysDiffer'
  BY <1>1, <1>4, <1>6 DEF LeaseOutlastsCall, HeldKeysDiffer
<1> QED
  BY <1>3, <1>4, <1>7, JobMoves

LEMMA RetryStep == ASSUME Y!SummariesAssumption, QueueInv, NEW w \in Summarizers, Y!RetryLater(w) PROVE QueueInv'
<1> DEFINE e == worker[w].job
           j == [y_job[e] EXCEPT !.status = "pending", !.wait = Backoff * worker[w].attempts]
<1>1. /\ worker[w].pc = "call" /\ y_job' = [y_job EXCEPT ![e] = j] /\ worker' = [worker EXCEPT ![w] = Y!Idle]
      /\ UNCHANGED <<settings, flag, y_consent, outbox, point, counted, briefed, batch>>
  BY DEF Y!RetryLater, Y!operator
<1>2. worker[w] # Y!Idle /\ e \in Y!Events /\ worker[w].attempts \in Nat /\ y_job[e].status = "processing"
  BY <1>1, WhichFrame DEF QueueInv, CallFrames, LeaseOutlastsCall
<1>3. IsJob(y_job[e])
  BY <1>2, WhichJob DEF QueueInv, Y!Live
<1>4. Backoff * worker[w].attempts \in Nat
  BY <1>2 DEF Y!SummariesAssumption
<1>5. IsJob(j) /\ j.status = "pending" /\ "pending" \in Y!Live
  <2>2. \A t \in Nat : LET i == [y_job[e] EXCEPT !.status = "pending", !.wait = t] IN IsJob(i) /\ i.status = "pending"
    BY <1>3, JobEdits
  <2> QED
    BY <1>4, <2>2 DEF Y!Live
<1> HIDE DEF j
<1> QED
  BY <1>1, <1>2, <1>5, LetsGo

LEMMA PublishStep == ASSUME Y!SummariesAssumption, QueueInv, NEW w \in Summarizers, Y!Publish(w) PROVE QueueInv'
<1> DEFINE e == worker[w].job
           s == worker[w].status
           j == [y_job[e] EXCEPT !.status = s]
<1>1. worker[w].pc = "publish" /\ worker' = [worker EXCEPT ![w] = Y!Idle] /\ UNCHANGED <<settings, flag, y_consent, outbox, batch>>
  BY DEF Y!Publish, Y!operator
<1>2. worker[w] # Y!Idle /\ e \in Y!Events /\ s \in Y!Terminal /\ y_job[e].status = "processing"
  BY <1>1, WhichFrame DEF QueueInv, Publications, LeaseOutlastsCall
<1>3. IsJob(y_job[e]) /\ y_job[e] # Y!Gone
  BY <1>2, WhichJob DEF QueueInv, Y!Live
<1>4. y_job' = [y_job EXCEPT ![e] = j] /\ Y!Outcome(e, s, point)
  BY <1>3 DEF Y!Publish
<1>5. IsJob(j) /\ j.status = s
  BY <1>2, <1>3 DEF IsJob
<1> HIDE DEF j
<1> QED
  BY <1>1, <1>2, <1>4, <1>5, LetsGo

\* The worker forgets its job, or has its answer.
LEMMA WorkerStep == ASSUME QueueInv, NEW w \in Summarizers, Y!Reply(w) \/ Y!Crash(w) PROVE QueueInv'
<1>1. UNCHANGED <<settings, flag, y_consent, outbox, y_job, point, counted, briefed, batch>>
  BY DEF Y!Reply, Y!Crash, Y!operator, Y!tables
<1>2. PICK f \in {Y!Idle} \cup Publications :
          worker' = [worker EXCEPT ![w] = f] /\ (f # Y!Idle => worker[w] # Y!Idle /\ f.job = worker[w].job /\ f.left = worker[w].left)
  <2>1. CASE Y!Crash(w)
    BY <2>1 DEF Y!Crash
  <2>2. CASE Y!Reply(w)
    <3>1. PICK s \in Y!Answers(w) :
              worker' = [worker EXCEPT ![w] = [pc |-> "publish", job |-> worker[w].job, left |-> worker[w].left, status |-> s,
                                               owns |-> state[outbox[worker[w].job].device].source = worker[w].job]]
      BY <2>2 DEF Y!Reply
    <3>2. s \in Y!Terminal
      BY DEF Y!Answers, Y!Terminal
    <3>3. worker[w] # Y!Idle /\ worker[w].job \in Y!Events /\ worker[w].left \in Nat
      BY <2>2, WhichFrame DEF Y!Reply, QueueInv
    <3> DEFINE f == [pc |-> "publish", job |-> worker[w].job, left |-> worker[w].left, status |-> s,
                     owns |-> state[outbox[worker[w].job].device].source = worker[w].job]
    <3>4. f \in Publications /\ f.job = worker[w].job /\ f.left = worker[w].left
      BY <3>2, <3>3 DEF Publications
    <3> HIDE DEF f
    <3> QED
      BY <3>1, <3>3, <3>4 DEF f
  <2> QED
    BY <2>1, <2>2
<1>3. WorkersTyped' /\ worker'[w] = f /\ \A v \in Summarizers : v # w => worker'[v] = worker[v]
  BY <1>2 DEF QueueInv, WorkersTyped
<1>4. LeaseOutlastsCall' /\ HeldKeysDiffer'
  BY <1>1, <1>2, <1>3 DEF QueueInv, LeaseOutlastsCall, HeldKeysDiffer
<1>5. Y!Opened' = Y!Opened /\ Y!Committed' = Y!Committed /\ Y!Jobs' = Y!Jobs /\ Y!LiveJobs' = Y!LiveJobs
  BY <1>1 DEF Y!Opened, Y!Committed, Y!Jobs, Y!LiveJobs
<1> QED
  BY <1>1, <1>3, <1>4, <1>5 DEF QueueInv, OperatorTyped, OutboxTyped, QueueTyped, EventsInOrder, BatchesCommitted,
     CollectedIsOpen, Y!CountedOnce, Y!BacklogBounded, Y!PointTellsJob

\* The retention deletes rows that have ended; a pass selects what is committed.
LEMMA BeginStep == ASSUME Y!SummariesAssumption, QueueInv, NEW c \in Collectors, Y!BeginCollect(c) PROVE QueueInv'
<1>1. UNCHANGED <<settings, flag, y_consent, outbox, point, counted, briefed, worker>>
  BY DEF Y!BeginCollect, Y!operator
<1>2. PICK old \in SUBSET {e \in Y!Jobs : y_job[e].status \in Y!Terminal} : y_job' = [e \in Y!Events |-> IF e \in old THEN Y!Gone ELSE y_job[e]]
  BY DEF Y!BeginCollect
<1>3. Y!Opened' = Y!Opened /\ Y!Committed' = Y!Committed /\ Y!Uncollected \subseteq Y!Committed /\ Y!Committed \subseteq Y!Events
  BY <1>1 DEF Y!Opened, Y!Committed, Y!Uncollected
<1>4. \A e \in Y!Events : y_job'[e] = y_job[e] \/ (y_job'[e] = Y!Gone /\ y_job[e].status \in Y!Terminal /\ e \in Y!Jobs)
  BY <1>2
<1>5. QueueTyped'
  BY <1>1, <1>2, <1>4 DEF QueueInv, QueueTyped
<1>6. Y!LiveJobs' = Y!LiveJobs /\ Y!Jobs' \subseteq Y!Jobs /\ \A e \in Y!Jobs' : y_job'[e] = y_job[e]
  <2>1. \A e \in Y!Events : y_job'[e] = Y!Gone => e \notin Y!Jobs'
    BY DEF Y!Jobs
  <2>2. \A e \in Y!Events : y_job[e].status \in Y!Terminal => e \notin Y!LiveJobs
    BY DEF Y!LiveJobs, Y!Live, Y!Terminal
  <2> QED
    BY <1>4, <2>1, <2>2 DEF Y!LiveJobs, Y!Jobs
<1>7. \A w \in Summarizers : worker[w] # Y!Idle => y_job'[worker[w].job] = y_job[worker[w].job]
  BY <1>4, WhichFrame DEF QueueInv, LeaseOutlastsCall, Y!Terminal
<1>8. WorkersTyped' /\ LeaseOutlastsCall' /\ HeldKeysDiffer'
  BY <1>1, <1>7 DEF QueueInv, WorkersTyped, LeaseOutlastsCall, HeldKeysDiffer
<1>9. batch' \in [Collectors -> SUBSET Y!Events] /\ \A d \in Collectors : batch'[d] \subseteq Y!Committed
  <2>1. PICK b \in {{}, Y!Uncollected} : batch' = [batch EXCEPT ![c] = b]
    BY DEF Y!BeginCollect
  <2> QED
    BY <1>3, <2>1 DEF QueueInv, BatchesCommitted
<1>10. CollectedIsOpen'
  BY <1>1, <1>3, <1>4 DEF QueueInv, CollectedIsOpen, Y!Jobs
<1>11. Y!CountedOnce' /\ Y!PointTellsJob'
  BY <1>1, <1>3, <1>6 DEF QueueInv, Y!CountedOnce, Y!PointTellsJob
<1>12. Y!BacklogBounded'
  BY <1>6, NoneJoins DEF QueueInv
<1> QED
  BY <1>1, <1>3, <1>5, <1>8, <1>9, <1>10, <1>11, <1>12
     DEF QueueInv, OperatorTyped, OutboxTyped, EventsInOrder, BatchesCommitted

\* An event that is looked at has no job yet, and nothing was told of it.
LEMMA NotYetTold ==
    ASSUME QueueInv, NEW e \in Y!Committed, ~outbox[e].collected
    PROVE  /\ e \in Y!Events /\ outbox[e] \in EventRows /\ e \in Y!Opened
           /\ y_job[e] = Y!NoJob /\ e \notin Y!Jobs /\ e \notin Y!LiveJobs /\ counted[e] = 0 /\ briefed[e] = 0
<1>1. e \in Y!Events /\ outbox[e] \in EventRows /\ e \in Y!Opened
  BY DEF Y!Committed, Y!Opened, QueueInv, OutboxTyped
<1>2. y_job[e] = Y!NoJob
  BY <1>1 DEF QueueInv, CollectedIsOpen
<1>3. e \notin Y!Jobs /\ e \notin Y!LiveJobs
  BY <1>2 DEF Y!Jobs, Y!LiveJobs
<1>4. counted[e] = 0 /\ briefed[e] = 0
  BY <1>1, <1>3 DEF QueueInv, Y!CountedOnce, QueueTyped
<1> QED
  BY <1>1, <1>2, <1>3, <1>4

\* Collecting an event tells its outcome, or makes its job where the backlog has room.
LEMMA CollectedStep ==
    ASSUME Y!SummariesAssumption, QueueInv, NEW e \in Y!Committed, ~outbox[e].collected,
           outbox' = [outbox EXCEPT ![e].collected = TRUE], UNCHANGED <<settings, flag, y_consent, worker>>,
           BatchesCommitted',
           \/ /\ UNCHANGED y_job
              /\ \/ counted' = [counted EXCEPT ![e] = @ + 1] /\ UNCHANGED <<point, briefed>>
                 \/ \E s \in Outcomes : Y!Outcome(e, s, point)
           \/ \E j : /\ IsJob(j) /\ y_job' = [y_job EXCEPT ![e] = j]
                     /\ \/ /\ j.status = "pending" /\ Cardinality(Y!LiveJobs) < MaxPending
                           /\ point' = [point EXCEPT ![e] = "pending"] /\ UNCHANGED <<counted, briefed>>
                        \/ j.status = "cached" /\ Y!Outcome(e, "cached", point)
    PROVE  QueueInv'
<1>1. /\ e \in Y!Events /\ outbox[e] \in EventRows /\ e \in Y!Opened
      /\ y_job[e] = Y!NoJob /\ e \notin Y!Jobs /\ e \notin Y!LiveJobs /\ counted[e] = 0 /\ briefed[e] = 0
  BY NotYetTold
<1>2. /\ OutboxTyped' /\ outbox'[e].collected /\ outbox'[e].phase = "committed"
      /\ \A x \in Y!Events \ {e} : outbox'[x] = outbox[x]
  <2>1. [outbox[e] EXCEPT !.collected = TRUE] \in EventRows
    BY <1>1 DEF EventRows
  <2> QED
    BY <1>1, <2>1 DEF QueueInv, OutboxTyped, EventRows, Y!Committed
<1>3. Y!Opened' = Y!Opened /\ Y!Committed' = Y!Committed
  BY <1>1, <1>2 DEF Y!Opened, Y!Committed
<1>4. /\ point' \in [Y!Events -> Outcomes] /\ counted' \in [Y!Events -> Nat] /\ briefed' \in [Y!Events -> Nat]
      /\ \A x \in Y!Events \ {e} : point'[x] = point[x] /\ counted'[x] = counted[x] /\ briefed'[x] = briefed[x]
  <2>1. point \in [Y!Events -> Outcomes] /\ counted \in [Y!Events -> Nat] /\ briefed \in [Y!Events -> Nat]
    BY DEF QueueInv, QueueTyped
  <2>2. CASE counted' = [counted EXCEPT ![e] = @ + 1] /\ UNCHANGED <<point, briefed>>
    BY <1>1, <2>1, <2>2
  <2>3. CASE \E s \in Outcomes : Y!Outcome(e, s, point)
    BY <1>1, <2>1, <2>3 DEF Y!Outcome
  <2>4. CASE point' = [point EXCEPT ![e] = "pending"] /\ UNCHANGED <<counted, briefed>>
    BY <1>1, <2>1, <2>4 DEF Outcomes, Y!Live
  <2>5. "cached" \in Outcomes
    BY DEF Outcomes, Y!Terminal
  <2> QED
    BY <2>2, <2>3, <2>4, <2>5
<1>5. \A w \in Summarizers : worker[w] # Y!Idle => worker[w].job \in Y!Events \ {e}
  BY <1>1, WhichFrame DEF QueueInv, LeaseOutlastsCall, Y!NoJob
<1>6. \A x \in Y!Events \ {e} : y_job'[x] = y_job[x]
  BY DEF QueueInv, QueueTyped
<1>7. WorkersTyped' /\ LeaseOutlastsCall' /\ HeldKeysDiffer'
  <2>1. worker' = worker
    OBVIOUS
  <2>2. WorkersTyped' /\ LeaseOutlastsCall'
    BY <1>5, <1>6, <2>1 DEF QueueInv, WorkersTyped, LeaseOutlastsCall
  <2>3. HeldKeysDiffer'
    BY <1>5, <1>6, <2>1 DEF QueueInv, HeldKeysDiffer
  <2> QED
    BY <2>2, <2>3
<1>8. /\ QueueTyped'
      /\ y_job'[e] = Y!NoJob \/ (IsJob(y_job'[e]) /\ y_job'[e].status \in {"pending", "cached"})
  BY <1>1, <1>4, <1>6 DEF QueueInv, QueueTyped
<1>9. \A x \in Y!Events \ {e} : (x \in Y!Jobs' <=> x \in Y!Jobs) /\ (x \in Y!LiveJobs' <=> x \in Y!LiveJobs)
  BY <1>6 DEF Y!Jobs, Y!LiveJobs
<1>10. OperatorTyped' /\ EventsInOrder' /\ CollectedIsOpen'
  BY <1>1, <1>2, <1>3, <1>6 DEF QueueInv, OperatorTyped, EventsInOrder, CollectedIsOpen
<1>11. CASE UNCHANGED y_job
  <2>1. Y!Jobs' = Y!Jobs /\ Y!LiveJobs' = Y!LiveJobs
    BY <1>11 DEF Y!Jobs, Y!LiveJobs
  <2>2. counted'[e] = 1 /\ briefed'[e] <= 1
    <3>1. CASE counted' = [counted EXCEPT ![e] = @ + 1] /\ UNCHANGED <<point, briefed>>
      BY <1>1, <3>1 DEF QueueInv, QueueTyped
    <3>2. CASE \E s : Y!Outcome(e, s, point)
      BY <1>1, <3>2 DEF Y!Outcome, QueueInv, QueueTyped
    <3>3. \A j : IsJob(j) => j # Y!NoJob
      BY DEF IsJob, Y!NoJob, Y!Live, Y!Terminal
    <3>4. \A j : IsJob(j) => y_job' # [y_job EXCEPT ![e] = j]
      BY <1>1, <1>11, <3>3 DEF QueueInv, QueueTyped
    <3> QED
      BY <3>1, <3>2, <3>4
  <2>3. Y!CountedOnce'
    BY <1>1, <1>2, <1>3, <1>4, <2>1, <2>2 DEF QueueInv, Y!CountedOnce
  <2>4. Y!PointTellsJob'
    BY <1>1, <1>4, <1>11, <2>1 DEF QueueInv, Y!PointTellsJob, Y!Jobs
  <2>5. Y!BacklogBounded'
    BY <2>1, NoneJoins DEF QueueInv
  <2> QED
    BY <1>2, <1>7, <1>8, <1>10, <2>3, <2>4, <2>5 DEF QueueInv
<1>12. CASE y_job' # y_job
  <2>1. PICK j : /\ IsJob(j) /\ y_job' = [y_job EXCEPT ![e] = j]
                 /\ \/ /\ j.status = "pending" /\ Cardinality(Y!LiveJobs) < MaxPending
                       /\ point' = [point EXCEPT ![e] = "pending"] /\ UNCHANGED <<counted, briefed>>
                    \/ j.status = "cached" /\ Y!Outcome(e, "cached", point)
    BY <1>12
  <2>2. y_job'[e] = j /\ j \notin {Y!NoJob, Y!Gone} /\ e \in Y!Jobs'
    BY <1>1, <2>1 DEF QueueInv, QueueTyped, IsJob, Y!NoJob, Y!Gone, Y!Live, Y!Terminal, Y!Jobs
  <2>3. e \in Y!LiveJobs' <=> j.status = "pending"
    BY <2>1, <2>2 DEF Y!LiveJobs, Y!Live
  <2>4. /\ counted'[e] = (IF j.status = "pending" THEN 0 ELSE 1) /\ briefed'[e] <= counted'[e]
        /\ point'[e] = j.status
    BY <1>1, <2>1 DEF Y!Outcome, QueueInv, QueueTyped
  <2>5. Y!CountedOnce'
    BY <1>1, <1>2, <1>3, <1>4, <1>9, <2>1, <2>3, <2>4 DEF QueueInv, Y!CountedOnce
  <2>6. Y!PointTellsJob'
    <3>1. IF e \in Y!LiveJobs' THEN point'[e] = "pending" ELSE point'[e] = y_job'[e].status
      BY <2>1, <2>2, <2>3, <2>4
    <3>2. ASSUME NEW x \in Y!Jobs', x # e PROVE IF x \in Y!LiveJobs' THEN point'[x] = "pending" ELSE point'[x] = y_job'[x].status
      BY <1>4, <1>6, <1>9, <3>2 DEF QueueInv, Y!PointTellsJob, Y!Jobs
    <3> QED
      BY <3>1, <3>2 DEF Y!PointTellsJob
  <2>7. Y!BacklogBounded'
    <3>1. CASE j.status = "cached"
      <4>1. Y!LiveJobs' \subseteq Y!LiveJobs
        BY <1>9, <2>3, <3>1 DEF Y!LiveJobs, Y!Jobs
      <4> QED
        BY <4>1, NoneJoins DEF QueueInv
    <3>2. CASE j.status = "pending"
      <4>1. Y!LiveJobs' = Y!LiveJobs \cup {e}
        BY <1>1, <1>9, <2>3, <3>2 DEF Y!LiveJobs, Y!Jobs
      <4>3. IsFiniteSet(Y!LiveJobs) /\ Cardinality(Y!LiveJobs) \in Nat
        BY LiveIsFinite
      <4>4. Cardinality(Y!LiveJobs') = Cardinality(Y!LiveJobs) + 1
        BY <1>1, <4>1, <4>3, FS_AddElement
      <4>5. Cardinality(Y!LiveJobs) < MaxPending /\ MaxPending \in Nat
        BY <2>1, <3>2 DEF Y!SummariesAssumption
      <4> QED
        BY <4>3, <4>4, <4>5, SummaryCounts DEF Y!BacklogBounded
    <3> QED
      BY <2>1, <3>1, <3>2
  <2> QED
    BY <1>2, <1>7, <1>8, <1>10, <2>5, <2>6, <2>7 DEF QueueInv
<1> QED
  BY <1>11, <1>12

LEMMA CollectStep ==
    ASSUME Y!SummariesAssumption, QueueInv, NEW c \in Collectors, NEW e \in Y!Events, Y!CollectOne(c, e)
    PROVE  QueueInv'
<1>1. e \in batch[c] /\ batch' = [batch EXCEPT ![c] = @ \ {e}] /\ UNCHANGED <<settings, flag, y_consent, worker>>
  BY DEF Y!CollectOne, Y!operator
<1>2. e \in Y!Committed
  BY <1>1 DEF QueueInv, BatchesCommitted
<1>3. CASE outbox[e].collected
  <2>1. UNCHANGED <<outbox, state, y_job, point, counted, briefed>>
    BY <1>3 DEF Y!CollectOne, Y!StillUncollected, Y!tables
  <2>2. Y!Opened' = Y!Opened /\ Y!Committed' = Y!Committed /\ Y!Jobs' = Y!Jobs /\ Y!LiveJobs' = Y!LiveJobs
    BY <2>1 DEF Y!Opened, Y!Committed, Y!Jobs, Y!LiveJobs
  <2>3. BatchesCommitted'
    BY <1>1, <2>2 DEF QueueInv, BatchesCommitted
  <2> QED
    BY <1>1, <2>1, <2>2, <2>3 DEF QueueInv, OperatorTyped, OutboxTyped, QueueTyped, WorkersTyped, EventsInOrder,
       CollectedIsOpen, LeaseOutlastsCall, HeldKeysDiffer, Y!CountedOnce, Y!BacklogBounded, Y!PointTellsJob
<1>4. CASE ~outbox[e].collected
  <2>1. outbox' = [outbox EXCEPT ![e].collected = TRUE]
    BY <1>4 DEF Y!CollectOne, Y!StillUncollected
  <2>2. \/ counted' = [counted EXCEPT ![e] = @ + 1] /\ UNCHANGED <<y_job, point, briefed>>
        \/ Y!Observe(e)
    BY <1>4 DEF Y!CollectOne, Y!StillUncollected
  <2>3. BatchesCommitted'
    <3>1. outbox[e] \in EventRows /\ e \in Y!Events
      BY <1>2, <1>4, NotYetTold
    <3>2. \A x \in Y!Events : outbox'[x].phase = outbox[x].phase
      BY <2>1, <3>1 DEF QueueInv, OutboxTyped, EventRows
    <3>3. Y!Committed' = Y!Committed
      BY <3>2 DEF Y!Committed
    <3> QED
      BY <1>1, <3>3 DEF QueueInv, BatchesCommitted
  <2>4. CASE counted' = [counted EXCEPT ![e] = @ + 1] /\ UNCHANGED <<y_job, point, briefed>>
    BY <1>1, <1>2, <1>4, <2>1, <2>3, <2>4, CollectedStep
  <2>5. CASE Y!Observe(e)
    <3> DEFINE s == Y!Verdict(e)
               j == Y!NewJob(e, s)
    <3>1. /\ y_job' = IF s \in {"pending", "cached"} THEN [y_job EXCEPT ![e] = j] ELSE y_job
          /\ IF s = "pending" THEN point' = [point EXCEPT ![e] = s] /\ UNCHANGED <<counted, briefed>>
             ELSE Y!Outcome(e, s, point)
      BY <2>5 DEF Y!Observe
    <3>2. /\ s \in Y!LocalOutcomes \cup {"dropped", "cached", "pending"}
          /\ s = "pending" => ~(Cardinality(Y!LiveJobs) >= MaxPending)
      BY SummaryCounts DEF Y!Verdict, Y!Kind, Y!LocalOutcomes
    <3>3. Cardinality(Y!LiveJobs) \in Nat /\ MaxPending \in Nat
      BY LiveIsFinite DEF Y!SummariesAssumption
    <3>4. s \in {"pending", "cached"} => IsJob(j) /\ j.status = s
      <4>1. settings.config \in Nat
        BY DEF QueueInv, OperatorTyped, Y!SummariesAssumption
      <4>2. Cardinality({x \in Y!Events : x \in Y!Opened /\ outbox[x].collected}) \in Nat
        BY LiveIsFinite
      <4> QED
        BY <4>1, <4>2, SummaryCounts DEF Y!NewJob, IsJob, Y!Live, Y!Terminal
    <3>5. s \in Outcomes
      BY <3>2 DEF Outcomes, Y!Live, Y!Terminal
    <3> HIDE DEF s, j
    <3>6. CASE s \in {"pending", "cached"}
      <4>1. IsJob(j) /\ y_job' = [y_job EXCEPT ![e] = j] /\ j.status = s
        BY <3>1, <3>4, <3>6
      <4>2. \/ /\ s = "pending" /\ Cardinality(Y!LiveJobs) < MaxPending
               /\ point' = [point EXCEPT ![e] = "pending"] /\ UNCHANGED <<counted, briefed>>
            \/ s = "cached" /\ Y!Outcome(e, "cached", point)
        BY <3>1, <3>2, <3>3, <3>6
      <4> QED
        BY <1>1, <1>2, <1>4, <2>1, <2>3, <4>1, <4>2, CollectedStep
    <3>7. CASE s \notin {"pending", "cached"}
      BY <1>1, <1>2, <1>4, <2>1, <2>3, <3>1, <3>5, <3>7, CollectedStep
    <3> QED
      BY <3>6, <3>7
  <2> QED
    BY <2>2, <2>4, <2>5
<1> QED
  BY <1>3, <1>4

\* Time passes for everybody alike, and no call lasts longer than it may.
LEMMA SummariesTick == ASSUME Y!SummariesAssumption, MayStall = {}, QueueInv, Y!Tick PROVE QueueInv'
<1>1. /\ \A w \in Summarizers : worker[w] # Y!Idle => worker[w].left > 0
      /\ outbox' = [e \in Y!Events |-> IF e \in Y!Opened THEN [outbox[e] EXCEPT !.ttl = Y!Less(@)] ELSE outbox[e]]
      /\ y_job' = [e \in Y!Events |-> IF e \in Y!LiveJobs THEN [y_job[e] EXCEPT !.wait = Y!Less(@)] ELSE y_job[e]]
      /\ worker' = [w \in Summarizers |-> IF worker[w] = Y!Idle THEN Y!Idle ELSE [worker[w] EXCEPT !.left = Y!Less(@)]]
      /\ UNCHANGED <<settings, flag, y_consent, point, counted, briefed, batch>>
  BY DEF Y!Tick, Y!operator
<1>2. \A n \in Nat : Y!Less(n) \in Nat /\ (n > 0 => Y!Less(n) = n - 1)
  BY DEF Y!Less
<1>3. /\ OutboxTyped'
      /\ \A e \in Y!Events : outbox'[e].phase = outbox[e].phase /\ (e \in Y!Opened => outbox'[e].collected = outbox[e].collected)
  <2>1. \A e \in Y!Opened : outbox[e] \in EventRows
    BY DEF QueueInv, OutboxTyped, Y!Opened
  <2>2. \A x \in EventRows : [x EXCEPT !.ttl = Y!Less(@)] \in EventRows
    BY <1>2 DEF EventRows
  <2> QED
    BY <1>1, <2>1, <2>2 DEF QueueInv, OutboxTyped, EventRows
<1>4. Y!Opened' = Y!Opened /\ Y!Committed' = Y!Committed
  BY <1>3 DEF Y!Opened, Y!Committed
<1>5. \A e \in Y!LiveJobs : IsJob(y_job[e]) /\ e \in Y!Events
  BY WhichJob DEF QueueInv, Y!LiveJobs, Y!Jobs
<1>6. \A e \in Y!LiveJobs :
          /\ IsJob(y_job'[e]) /\ y_job'[e].status = y_job[e].status /\ y_job'[e].key = y_job[e].key
          /\ y_job'[e].wait = Y!Less(y_job[e].wait)
  <2>1. ASSUME NEW j, IsJob(j)
        PROVE  LET i == [j EXCEPT !.wait = Y!Less(@)]
               IN  IsJob(i) /\ i.status = j.status /\ i.key = j.key /\ i.wait = Y!Less(j.wait)
    <3>1. Y!Less(j.wait) \in Nat
      BY <1>2, <2>1 DEF IsJob
    <3> QED
      BY <2>1, <3>1 DEF IsJob
  <2> QED
    BY <1>1, <1>5, <2>1
<1>7. \A e \in Y!Events \ Y!LiveJobs : y_job'[e] = y_job[e]
  BY <1>1
<1>8. QueueTyped'
  BY <1>1, <1>6, <1>7 DEF QueueInv, QueueTyped
<1>9. Y!Jobs' = Y!Jobs /\ Y!LiveJobs' = Y!LiveJobs /\ \A e \in Y!Events : y_job'[e].status = y_job[e].status
  <2>1. \A e \in Y!Events : y_job'[e].status = y_job[e].status
    BY <1>6, <1>7
  <2>2. \A e \in Y!Events : y_job'[e] \in {Y!NoJob, Y!Gone} <=> y_job[e] \in {Y!NoJob, Y!Gone}
    <3>1. \A j : IsJob(j) => j \notin {Y!NoJob, Y!Gone}
      BY DEF IsJob, Y!NoJob, Y!Gone, Y!Live, Y!Terminal
    <3> QED
      BY <1>5, <1>6, <1>7, <3>1
  <2>3. Y!Jobs' = Y!Jobs
    BY <2>2 DEF Y!Jobs
  <2> QED
    BY <2>1, <2>3 DEF Y!Jobs, Y!LiveJobs
<1>10. /\ WorkersTyped'
       /\ \A w \in Summarizers :
              /\ worker'[w] = Y!Idle <=> worker[w] = Y!Idle
              /\ worker[w] # Y!Idle => worker'[w].job = worker[w].job /\ worker'[w].left = worker[w].left - 1
  <2>1. ASSUME NEW w \in Summarizers
        PROVE  /\ worker'[w] \in {Y!Idle} \cup CallFrames \cup Publications /\ (worker'[w] = Y!Idle <=> worker[w] = Y!Idle)
               /\ worker[w] # Y!Idle => worker'[w].job = worker[w].job /\ worker'[w].left = worker[w].left - 1
    <3>1. CASE worker[w] = Y!Idle
      BY <1>1, <3>1
    <3>2. CASE worker[w] # Y!Idle
      <4>1. worker[w] \in CallFrames \cup Publications /\ worker[w].left > 0
        BY <1>1, <3>2 DEF QueueInv, WorkersTyped
      <4>2. Y!Less(worker[w].left) = worker[w].left - 1 /\ worker[w].left - 1 \in Nat
        BY <1>2, <4>1 DEF CallFrames, Publications
      <4>3. worker'[w] = [worker[w] EXCEPT !.left = worker[w].left - 1]
        BY <1>1, <3>2, <4>2
      <4> QED
        BY <3>2, <4>1, <4>2, <4>3 DEF CallFrames, Publications, Y!Idle
    <3> QED
      BY <3>1, <3>2
  <2>2. worker' = [w \in Summarizers |-> worker'[w]]
    BY <1>1
  <2> QED
    BY <2>1, <2>2 DEF WorkersTyped
<1>11. LeaseOutlastsCall' /\ HeldKeysDiffer'
  <2>1. ASSUME NEW w \in Summarizers, worker[w] # Y!Idle
        PROVE  /\ y_job'[worker[w].job].status = "processing" /\ y_job'[worker[w].job].key = y_job[worker[w].job].key
               /\ worker[w].left - 1 < y_job'[worker[w].job].wait
    <3>1. /\ worker[w].job \in Y!Events /\ worker[w].left \in Nat /\ y_job[worker[w].job].status = "processing"
          /\ worker[w].left < y_job[worker[w].job].wait
      BY <2>1, WhichFrame DEF QueueInv, LeaseOutlastsCall
    <3>2. worker[w].job \in Y!LiveJobs /\ y_job[worker[w].job].wait \in Nat
      BY <1>5, <3>1, WhichJob DEF QueueInv, Y!Live, IsJob
    <3> QED
      BY <1>2, <1>6, <3>1, <3>2
  <2>2. LeaseOutlastsCall'
    BY <1>10, <2>1 DEF LeaseOutlastsCall
  <2>3. HeldKeysDiffer'
    BY <1>10, <2>1 DEF QueueInv, HeldKeysDiffer
  <2> QED
    BY <2>2, <2>3
<1>12. OperatorTyped' /\ EventsInOrder' /\ BatchesCommitted'
  BY <1>1, <1>4 DEF QueueInv, OperatorTyped, EventsInOrder, BatchesCommitted
<1>13. CollectedIsOpen'
  <2>1. \A e \in Y!Events : y_job'[e] # Y!NoJob => y_job[e] # Y!NoJob
    <3>1. \A j : IsJob(j) => j # Y!NoJob
      BY DEF IsJob, Y!NoJob, Y!Live, Y!Terminal
    <3> QED
      BY <1>5, <1>7, <3>1
  <2> QED
    BY <1>3, <1>4, <2>1 DEF QueueInv, CollectedIsOpen
<1>14. Y!CountedOnce' /\ Y!PointTellsJob'
  BY <1>1, <1>3, <1>4, <1>9 DEF QueueInv, Y!CountedOnce, Y!PointTellsJob, Y!Jobs
<1>15. Y!BacklogBounded'
  BY <1>9, NoneJoins DEF QueueInv
<1> QED
  BY <1>3, <1>8, <1>10, <1>11, <1>12, <1>13, <1>14, <1>15 DEF QueueInv

LEMMA QueueStep == ASSUME Y!SummariesAssumption, MayStall = {}, QueueInv, [Y!Next]_(Y!vars) PROVE QueueInv'
<1>1. CASE \E d \in Devices, t \in 1..MaxTime, r \in Readings : Y!OpenEvent(d, t, r)
  BY <1>1, OpensStep
<1>2. CASE \/ \E e \in Y!Events : Y!CommitEvent(e)
           \/ \E on \in BOOLEAN, c \in 1..MaxConfigs : Y!SaveSettings(on, c)
           \/ Y!SetFlag \/ Y!SetConsent
  BY <1>2, OperatorStep
<1>3. CASE \E c \in Collectors : Y!BeginCollect(c)
  BY <1>3, BeginStep
<1>4. CASE \E c \in Collectors, e \in Y!Events : Y!CollectOne(c, e)
  BY <1>4, CollectStep
<1>5. CASE (\E c \in Collectors : Y!AbandonCollect(c)) \/ UNCHANGED Y!vars
  <2>1. UNCHANGED <<settings, flag, y_consent, outbox, y_job, point, counted, briefed, worker>>
    BY <1>5 DEF Y!AbandonCollect, Y!vars, Y!operator, Y!tables
  <2>2. batch' = batch \/ \E c \in Collectors : batch' = [batch EXCEPT ![c] = {}]
    BY <1>5 DEF Y!AbandonCollect, Y!vars
  <2>3. Y!Opened' = Y!Opened /\ Y!Committed' = Y!Committed /\ Y!Jobs' = Y!Jobs /\ Y!LiveJobs' = Y!LiveJobs
    BY <2>1 DEF Y!Opened, Y!Committed, Y!Jobs, Y!LiveJobs
  <2>4. BatchesCommitted'
    BY <2>2, <2>3 DEF QueueInv, BatchesCommitted
  <2> QED
    BY <2>1, <2>3, <2>4 DEF QueueInv, OperatorTyped, OutboxTyped, QueueTyped, WorkersTyped, EventsInOrder,
       CollectedIsOpen, LeaseOutlastsCall, HeldKeysDiffer, Y!CountedOnce, Y!BacklogBounded, Y!PointTellsJob
<1>6. CASE \E w \in Summarizers : Y!Pick(w)
  BY <1>6, PickStep
<1>7. CASE \E w \in Summarizers : Y!RetryLater(w)
  BY <1>7, RetryStep
<1>8. CASE \E w \in Summarizers : Y!Publish(w)
  BY <1>8, PublishStep
<1>9. CASE \E w \in Summarizers : Y!Reply(w) \/ Y!Crash(w)
  BY <1>9, WorkerStep
<1>10. CASE Y!Tick
  BY <1>10, SummariesTick
<1> QED
  BY <1>1, <1>2, <1>3, <1>4, <1>5, <1>6, <1>7, <1>8, <1>9, <1>10 DEF Y!Next


\* What a step of the composition is for the summaries.
LEMMA QueueAlone == [Next]_vars => [Y!Next]_(Y!vars)
  BY DEF Next, vars, summaries, Y!vars, Y!tables, Y!operator

\* Where no worker outstays its call, every observation is counted once and briefed at most
\* once, the model is never asked one question twice at a time, the backlog keeps its limit,
\* and a history point tells the outcome of its own job (summaries/service.py).
THEOREM SummariesAreSound == ASSUME MayStall = {} PROVE Spec => []SummariesSound
<1>1. Init => QueueInv
  BY ServicesAssumption, QueueInit DEF Init
<1>2. QueueInv /\ [Next]_vars => QueueInv'
  BY ServicesAssumption, QueueAlone, QueueStep
<1>3. QueueInv => SummariesSound
  BY ServicesAssumption, SummariesHold DEF SummariesSound
<1> QED
  BY <1>1, <1>2, <1>3, PTL DEF Spec

-----------------------------------------------------------------------------
(* SignIns.                                                                 *)

Stamps == {S!stamp(r) : r \in S!Rows}
Stands ==
    [stamp: Stamps \cup {None}, token: S!Tokens \cup {0}, endless: BOOLEAN, cool: BOOLEAN, lock: S!Actors \cup {None},
     open: BOOLEAN, leases: Nat, retired: BOOLEAN, doomed: BOOLEAN]
Carries == [at: {"waiting", "posting", "backoff"}, slot: S!Slots, again: BOOLEAN, tries: Nat]
Gets == [at: {"getting"}, slot: S!Slots, token: S!Tokens, again: BOOLEAN, tries: Nat]
WorkersJobs == {S!Off} \cup [at: {"read"}, row: S!Rows] \cup [at: {"built", "leased"}, slot: S!Slots] \cup Carries \cup Gets
RenewalsJobs(h) ==
    {S!Off} \cup [at: {"watching", "failed"}] \cup [at: {"waiting", "posting"}, slot: {h}, again: BOOLEAN, tries: Nat]
JobsOf(a) == IF a \in S!Slots THEN RenewalsJobs(a) ELSE WorkersJobs

RegistryTyped ==
    /\ saved \in DOMAIN Settings /\ editing \in BOOLEAN /\ current \in S!Slots \cup {None}
    /\ held \in [S!Slots -> Stands]
ActorsTyped == s_job = [a \in S!Actors |-> s_job[a]] /\ \A a \in S!Actors : s_job[a] \in JobsOf(a)

\* The registered sign-in is not retired, and a slot that is blank is nobody's.
CurrentIsKept == current # None => ~held[current].retired
BlankIsFree ==
    /\ \A h \in S!Slots : held[h].stamp = None => held[h].retired /\ held[h].token = 0
    /\ \A w \in Requesters : s_job[w].at \notin {"off", "read"} => held[s_job[w].slot].stamp # None

\* A token is asked for where there is none.
PostingIsNeeded == \A a \in S!Actors : s_job[a].at = "posting" => held[s_job[a].slot].token = 0

\* The leases of a slot are counted, and what is counted decides whether its pool is open.
Users(h) == {a \in S!Actors : S!Leased(a) /\ s_job[a].slot = h}
LeasesCounted ==
    \A h \in S!Slots :
        /\ held[h].leases = Cardinality(Users(h))
        /\ held[h].leases # 0 => held[h].open
        /\ held[h].retired /\ held[h].leases = 0 => ~held[h].open

SignInsInv ==
    /\ RegistryTyped /\ ActorsTyped /\ CurrentIsKept /\ BlankIsFree /\ PostingIsNeeded /\ LeasesCounted
    /\ S!OneRequestPerSignIn /\ S!RetiredIsQuiet

\* What has an actor at slot h: its renewal that runs, or the run that uses it.
At(a, h) == IF a \in S!Slots THEN a = h /\ s_job[a] # S!Off ELSE s_job[a].at \notin {"off", "read"} /\ s_job[a].slot = h
LeasedAt == {"leased", "waiting", "posting", "getting", "backoff"}

\* Counting does not depend on where it is done.
LEMMA SignInCounts == \A T : S!Cardinality(T) = Cardinality(T) /\ (S!IsFiniteSet(T) <=> IsFiniteSet(T))
  BY DEF S!Cardinality, Cardinality, S!IsFiniteSet, IsFiniteSet

\* The actors are finitely many, and so are the users of a slot.
LEMMA ActorsAreFinite ==
    ASSUME S!SignInsAssumption
    PROVE  /\ IsFiniteSet(Requesters) /\ IsFiniteSet(S!Actors) /\ Cardinality(Requesters) \in Nat /\ Cardinality(S!Actors) \in Nat
           /\ \A T : T \subseteq S!Actors => IsFiniteSet(T) /\ Cardinality(T) \in Nat /\ Cardinality(T) <= Cardinality(S!Actors)
<1>1. IsFiniteSet(Requesters) /\ MaxHeld \in Nat
  BY SignInCounts DEF S!SignInsAssumption
<1>2. IsFiniteSet(S!Slots)
  BY <1>1, FS_Interval DEF S!Slots
<1>3. IsFiniteSet(S!Actors)
  BY <1>1, <1>2, FS_Union DEF S!Actors
<1> QED
  BY <1>1, <1>3, FS_Subset, FS_CardinalityType

\* What is known of an actor.
LEMMA WhichActor ==
    ASSUME S!SignInsAssumption, ActorsTyped
    PROVE  /\ \A w \in Requesters : w \in S!Actors /\ w \notin S!Slots /\ w # None /\ s_job[w] \in WorkersJobs
           /\ \A h \in S!Slots : h \in S!Actors /\ h # None /\ s_job[h] \in RenewalsJobs(h)
           /\ \A a \in S!Actors : a \in S!Slots \/ a \in Requesters
<1>1. Requesters \cap S!Slots = {} /\ None \notin Requesters \cup S!Slots
  BY DEF S!SignInsAssumption
<1> QED
  BY <1>1 DEF ActorsTyped, JobsOf, S!Actors

LEMMA WhichWorker ==
    ASSUME S!SignInsAssumption, ActorsTyped, NEW w \in Requesters
    PROVE  /\ s_job[w].at \in {"off", "read", "built", "leased", "waiting", "posting", "getting", "backoff"}
           /\ s_job[w].at = "off" <=> s_job[w] = S!Off
           /\ s_job[w].at = "read" => s_job[w].row \in S!Rows
           /\ s_job[w].at \notin {"off", "read"} => s_job[w].slot \in S!Slots
           /\ s_job[w].at \in {"waiting", "posting", "getting", "backoff"} => s_job[w].again \in BOOLEAN /\ s_job[w].tries \in Nat
           /\ s_job[w].at = "getting" => s_job[w].token \in S!Tokens
           /\ S!Leased(w) <=> s_job[w].at \notin {"off", "read", "built"}
<1>1. s_job[w] \in WorkersJobs
  BY WhichActor
<1>2. ASSUME NEW j \in WorkersJobs
      PROVE  /\ j.at \in {"off", "read", "built", "leased", "waiting", "posting", "getting", "backoff"}
             /\ j.at = "off" <=> j = S!Off
             /\ j.at = "read" => j.row \in S!Rows
             /\ j.at \notin {"off", "read"} => j.slot \in S!Slots
             /\ j.at \in {"waiting", "posting", "getting", "backoff"} => j.again \in BOOLEAN /\ j.tries \in Nat
             /\ j.at = "getting" => j.token \in S!Tokens
  BY DEF WorkersJobs, S!Off, Carries, Gets
<1> QED
  BY <1>1, <1>2 DEF S!Leased

LEMMA WhichRenewal ==
    ASSUME S!SignInsAssumption, ActorsTyped, NEW h \in S!Slots
    PROVE  /\ s_job[h].at \in {"off", "watching", "failed", "waiting", "posting"}
           /\ s_job[h].at = "off" <=> s_job[h] = S!Off
           /\ s_job[h].at \in {"waiting", "posting"} => s_job[h].slot = h /\ s_job[h].again \in BOOLEAN /\ s_job[h].tries \in Nat
           /\ S!Leased(h) <=> s_job[h].at \in {"waiting", "posting"}
<1>1. s_job[h] \in RenewalsJobs(h)
  BY WhichActor
<1>2. ASSUME NEW j \in RenewalsJobs(h)
      PROVE  /\ j.at \in {"off", "watching", "failed", "waiting", "posting"}
             /\ j.at = "off" <=> j = S!Off
             /\ j.at \in {"waiting", "posting"} => j.slot = h /\ j.again \in BOOLEAN /\ j.tries \in Nat
  BY DEF RenewalsJobs, S!Off
<1> QED
  BY <1>1, <1>2 DEF S!Leased

\* Whoever is at work at a slot has that slot.
LEMMA WhereAt ==
    ASSUME S!SignInsAssumption, ActorsTyped, NEW a \in S!Actors, s_job[a].at \in LeasedAt
    PROVE  s_job[a].slot \in S!Slots /\ At(a, s_job[a].slot) /\ S!Leased(a)
<1>1. CASE a \in S!Slots
  BY <1>1, WhichRenewal DEF LeasedAt, At
<1>2. CASE a \notin S!Slots
  <2>1. a \in Requesters
    BY <1>2, WhichActor
  <2> QED
    BY <1>2, <2>1, WhichWorker DEF LeasedAt, At
<1> QED
  BY <1>1, <1>2

LEMMA SignInsInit == ASSUME S!SignInsAssumption, S!Init PROVE SignInsInv
<1>1. /\ saved = 1 /\ editing = FALSE /\ current = None
      /\ held = [h \in S!Slots |-> S!Blank] /\ s_job = [a \in S!Actors |-> S!Off]
  BY DEF S!Init
<1>2. Settings \in Seq(S!Rows) /\ Settings # <<>>
  BY DEF S!SignInsAssumption
<1>3. 1 \in DOMAIN Settings
  BY <1>2
<1>4. S!Blank \in Stands /\ S!Blank.retired /\ S!Blank.token = 0 /\ S!Blank.leases = 0 /\ ~S!Blank.open /\ S!Blank.stamp = None
  BY DEF S!Blank, S!Built, S!stamp, Stands
<1>5. RegistryTyped
  BY <1>1, <1>3, <1>4 DEF RegistryTyped
<1>6. ActorsTyped
  BY <1>1 DEF ActorsTyped, JobsOf, WorkersJobs, RenewalsJobs
<1>7. \A a \in S!Actors : s_job[a].at = "off" /\ s_job[a] = S!Off /\ ~S!Leased(a)
  BY <1>1 DEF S!Off, S!Leased
<1>8. CurrentIsKept /\ BlankIsFree /\ PostingIsNeeded /\ S!OneRequestPerSignIn /\ S!RetiredIsQuiet
  BY <1>1, <1>4, <1>7 DEF CurrentIsKept, BlankIsFree, PostingIsNeeded, S!OneRequestPerSignIn, S!RetiredIsQuiet, S!Actors
<1>9. \A h \in S!Slots : Users(h) = {}
  BY <1>7 DEF Users
<1>10. LeasesCounted
  BY <1>1, <1>4, <1>9, FS_EmptySet, SignInCounts DEF LeasesCounted
<1> QED
  BY <1>5, <1>6, <1>8, <1>10 DEF SignInsInv

\* The users of the slots where one actor moves, at slot h and nowhere else.
LEMMA UsersMove ==
    ASSUME S!SignInsAssumption, SignInsInv, NEW a \in S!Actors, NEW h \in S!Slots, At(a, h), NEW j, s_job' = [s_job EXCEPT ![a] = j],
           j.at \in LeasedAt => j.slot = h
    PROVE  /\ \A g \in S!Slots \ {h} : Users(g)' = Users(g)
           /\ Cardinality(Users(h)') =
                  Cardinality(Users(h)) + (IF j.at \in LeasedAt THEN 1 ELSE 0) - (IF S!Leased(a) THEN 1 ELSE 0)
<1>1. ActorsTyped
  BY DEF SignInsInv
<1>2. s_job'[a] = j /\ \A b \in S!Actors \ {a} : s_job'[b] = s_job[b]
  BY <1>1 DEF ActorsTyped
<1>3. S!Leased(a) => s_job[a].slot = h
  <2>1. CASE a \in S!Slots
    BY <1>1, <2>1, WhichRenewal DEF At
  <2>2. CASE a \notin S!Slots
    BY <2>2 DEF At
  <2> QED
    BY <2>1, <2>2
<1>4. \A b \in S!Actors \ {a} : \A g \in S!Slots : b \in Users(g)' <=> b \in Users(g)
  BY <1>2 DEF Users, S!Leased
<1>5. \A g \in S!Slots :
                       /\ a \in Users(g)' <=> j.at \in LeasedAt /\ g = h
                       /\ a \in Users(g) <=> S!Leased(a) /\ g = h
  BY <1>2, <1>3 DEF Users, S!Leased, LeasedAt
<1>6. \A g \in S!Slots : Users(g) \subseteq S!Actors /\ Users(g)' \subseteq S!Actors
  BY DEF Users
<1>7. ASSUME NEW g \in S!Slots \ {h} PROVE Users(g)' = Users(g)
  <2>1. \A b \in S!Actors : b \in Users(g)' <=> b \in Users(g)
    BY <1>4, <1>5
  <2> QED
    BY <1>6, <2>1
<1>8. IsFiniteSet(Users(h)) /\ Cardinality(Users(h)) \in Nat /\ IsFiniteSet(Users(h) \ {a})
  BY <1>6, ActorsAreFinite
<1>9. Cardinality(Users(h)') = Cardinality(Users(h)) + (IF j.at \in LeasedAt THEN 1 ELSE 0) - (IF S!Leased(a) THEN 1 ELSE 0)
  <2>1. Cardinality(Users(h) \ {a}) = Cardinality(Users(h)) - (IF S!Leased(a) THEN 1 ELSE 0)
    BY <1>5, <1>8, FS_RemoveElement
  <2>2. CASE j.at \in LeasedAt
    <3>1. Users(h)' = (Users(h) \ {a}) \cup {a}
      BY <1>4, <1>5, <1>6, <2>2
    <3>2. Cardinality((Users(h) \ {a}) \cup {a}) = Cardinality(Users(h) \ {a}) + 1
      BY <1>8, FS_AddElement
    <3> QED
      BY <1>8, <2>1, <2>2, <3>1, <3>2
  <2>3. CASE j.at \notin LeasedAt
    <3>1. Users(h)' = Users(h) \ {a}
      BY <1>4, <1>5, <1>6, <2>3
    <3> QED
      BY <1>8, <2>1, <2>3, <3>1
  <2> QED
    BY <2>2, <2>3
<1> QED
  BY <1>7, <1>9

\* One actor moves at its slot, whose sign-in stays what it was but for lease, lock and token.
LEMMA ActorMoves ==
    ASSUME S!SignInsAssumption, SignInsInv, NEW a \in S!Actors, NEW h \in S!Slots, At(a, h), NEW s \in Stands,
           NEW j \in JobsOf(a), held' = [held EXCEPT ![h] = s], s_job' = [s_job EXCEPT ![a] = j],
           UNCHANGED <<saved, editing, current>>,
           j.at \notin {"off", "read", "watching", "failed"} => j.slot = h,
           s.stamp = held[h].stamp, s.retired = held[h].retired,
           s.leases = held[h].leases + (IF j.at \in LeasedAt THEN 1 ELSE 0) - (IF S!Leased(a) THEN 1 ELSE 0),
           s.leases # 0 => s.open, s.retired /\ s.leases = 0 => ~s.open,
           s.lock = held[h].lock \/ held[h].lock \in {None, a},
           j.at = "posting" => s.lock = a /\ s.token = 0,
           \/ s.token = held[h].token
           \/ s_job[a].at = "posting"
           \/ /\ s.token = 0 /\ a \in Requesters
              /\ s_job[a].at = "getting" /\ s_job[a].token = held[h].token /\ j.at # "getting"
    PROVE  SignInsInv' /\ S!TokensAreKept
<1>1. /\ RegistryTyped /\ ActorsTyped /\ CurrentIsKept /\ BlankIsFree /\ PostingIsNeeded /\ LeasesCounted
      /\ S!OneRequestPerSignIn /\ S!RetiredIsQuiet
  BY DEF SignInsInv
<1>2. /\ held'[h] = s /\ \A g \in S!Slots \ {h} : held'[g] = held[g]
      /\ s_job'[a] = j /\ \A b \in S!Actors \ {a} : s_job'[b] = s_job[b]
  BY <1>1 DEF RegistryTyped, ActorsTyped
<1>3. RegistryTyped' /\ ActorsTyped'
  BY <1>1, <1>2 DEF RegistryTyped, ActorsTyped
<1>4. CurrentIsKept' /\ S!RetiredIsQuiet'
  <2>1. CurrentIsKept'
    BY <1>1, <1>2 DEF CurrentIsKept, RegistryTyped
  <2>2. a \in S!Slots => ~held[a].retired /\ a = h
    BY <1>1 DEF S!RetiredIsQuiet, At
  <2>3. \A g \in S!Slots : held'[g].retired = held[g].retired /\ (g # a => s_job'[g] = s_job[g])
    BY <1>2 DEF S!Actors
  <2> QED
    BY <1>1, <2>1, <2>2, <2>3 DEF S!RetiredIsQuiet
<1>5. BlankIsFree'
  <2>1. \A g \in S!Slots : held'[g].stamp = held[g].stamp /\ held'[g].retired = held[g].retired
    BY <1>2
  <2>2. held[h].stamp # None
    <3>1. CASE a \in S!Slots
      BY <1>1, <3>1 DEF BlankIsFree, S!RetiredIsQuiet, At
    <3>2. CASE a \notin S!Slots
      BY <1>1, <3>2 DEF BlankIsFree, At, S!Actors
    <3> QED
      BY <3>1, <3>2
  <2>3. ASSUME NEW w \in Requesters, s_job'[w].at \notin {"off", "read"} PROVE held'[s_job'[w].slot].stamp # None
    <3>1. CASE w = a
      <4>1. j.at \notin {"watching", "failed"}
        BY <3>1, WhichActor, <1>1 DEF JobsOf, WorkersJobs, S!Off, Carries, Gets
      <4> QED
        BY <1>2, <2>1, <2>2, <2>3, <3>1, <4>1
    <3>2. CASE w # a
      <4>1. s_job'[w] = s_job[w] /\ s_job[w].slot \in S!Slots
        BY <1>1, <1>2, <2>3, <3>2, WhichWorker DEF S!Actors
      <4> QED
        BY <1>1, <2>1, <2>3, <4>1 DEF BlankIsFree
    <3> QED
      BY <3>1, <3>2
  <2>4. \A g \in S!Slots : held'[g].stamp = None => held'[g].token = held[g].token
    BY <1>2, <2>2
  <2> QED
    BY <1>1, <2>1, <2>3, <2>4 DEF BlankIsFree
<1>6. \A b \in S!Actors \ {a} : s_job[b].at = "posting" /\ s_job[b].slot = h => held[h].lock = b /\ s.lock = b /\ s.token = 0
  <2>1. ASSUME NEW b \in S!Actors \ {a}, s_job[b].at = "posting", s_job[b].slot = h PROVE held[h].lock = b /\ s.lock = b /\ s.token = 0
    <3>1. held[h].lock = b /\ held[h].token = 0 /\ b # None
      BY <1>1, <2>1, WhichActor DEF S!OneRequestPerSignIn, PostingIsNeeded
    <3>2. ~(s_job[a].at = "posting")
      <4>1. s_job[a].at = "posting" => held[s_job[a].slot].lock = a /\ s_job[a].slot = h
        <5>1. CASE a \in S!Slots
          BY <1>1, <5>1, WhichRenewal DEF At, S!OneRequestPerSignIn
        <5>2. CASE a \notin S!Slots
          BY <1>1, <5>2 DEF At, S!OneRequestPerSignIn
        <5> QED
          BY <5>1, <5>2
      <4> QED
        BY <2>1, <3>1, <4>1
    <3> QED
      BY <2>1, <3>1, <3>2
  <2> QED
    BY <2>1
<1>7. S!OneRequestPerSignIn' /\ PostingIsNeeded'
  <2>1. ASSUME NEW b \in S!Actors, s_job'[b].at = "posting" PROVE held'[s_job'[b].slot].lock = b /\ held'[s_job'[b].slot].token = 0
    <3>1. CASE b = a
      BY <1>2, <2>1, <3>1
    <3>2. CASE b # a /\ s_job[b].slot = h
      BY <1>2, <1>6, <2>1, <3>2
    <3>3. CASE b # a /\ s_job[b].slot # h
      <4>1. s_job'[b] = s_job[b] /\ s_job[b].slot \in S!Slots
        BY <1>1, <1>2, <2>1, <3>3, WhereAt DEF LeasedAt
      <4> QED
        BY <1>1, <1>2, <2>1, <3>3, <4>1 DEF S!OneRequestPerSignIn, PostingIsNeeded
    <3> QED
      BY <3>1, <3>2, <3>3
  <2> QED
    BY <2>1 DEF S!OneRequestPerSignIn, PostingIsNeeded
<1>8. LeasesCounted'
  <2>1. j.at \in LeasedAt => j.slot = h
    BY DEF LeasedAt
  <2>2. /\ \A g \in S!Slots \ {h} : Users(g)' = Users(g)
        /\ Cardinality(Users(h)') =
               Cardinality(Users(h)) + (IF j.at \in LeasedAt THEN 1 ELSE 0) - (IF S!Leased(a) THEN 1 ELSE 0)
    BY <2>1, UsersMove, ZenonT(30)
  <2>3. held[h].leases = Cardinality(Users(h))
    BY <1>1, SignInCounts DEF LeasesCounted
  <2>4. s.leases = Cardinality(Users(h)')
    BY <2>2, <2>3
  <2>5. ASSUME NEW g \in S!Slots
        PROVE  /\ held'[g].leases = Cardinality(Users(g)')
               /\ held'[g].leases # 0 => held'[g].open
               /\ held'[g].retired /\ held'[g].leases = 0 => ~held'[g].open
    <3>1. CASE g = h
      BY <1>2, <2>4, <3>1
    <3>2. CASE g # h
      BY <1>1, <1>2, <2>2, <3>2, SignInCounts DEF LeasesCounted
    <3> QED
      BY <3>1, <3>2
  <2> QED
    BY <2>5, SignInCounts DEF LeasesCounted
<1>9. S!TokensAreKept
  <2>1. ASSUME NEW g \in S!Slots, S!Live(held[g]), held'[g].token # held[g].token
        PROVE  \E w \in S!Getting(g) : s_job[w].token = held[g].token /\ s_job'[w] # s_job[w]
    <3>1. g = h /\ held[h].token # 0 /\ s.token # held[h].token
      BY <1>2, <2>1 DEF S!Live
    <3>2. s_job[a].at # "posting"
      <4>1. s_job[a].at = "posting" => s_job[a].slot = h
        <5>1. CASE a \in S!Slots
          BY <1>1, <5>1, WhichRenewal DEF At
        <5>2. CASE a \notin S!Slots
          BY <5>2 DEF At
        <5> QED
          BY <5>1, <5>2
      <4> QED
        BY <1>1, <3>1, <4>1 DEF PostingIsNeeded
    <3>3. a \in Requesters /\ s_job[a].at = "getting" /\ s_job[a].token = held[h].token /\ j.at # "getting"
      BY <3>1, <3>2
    <3>4. s_job[a].slot = h
      BY <1>1, <3>3, WhichActor DEF At
    <3> QED
      BY <1>2, <3>1, <3>3, <3>4 DEF S!Getting
  <2> QED
    BY <2>1 DEF S!TokensAreKept
<1> QED
  BY <1>3, <1>4, <1>5, <1>7, <1>8, <1>9 DEF SignInsInv

\* How a sign-in stands while actor a works on it: open, and leased by a.
Fit(a, h, s) ==
    /\ s \in Stands /\ s.stamp = held[h].stamp /\ s.retired = held[h].retired /\ s.open
    /\ s.leases = held[h].leases + (IF S!Leased(a) THEN 0 ELSE 1)
    /\ s.lock = held[h].lock \/ held[h].lock \in {None, a}
    /\ \/ s.token = held[h].token
       \/ s_job[a].at = "posting"
       \/ s.token = 0 /\ a \in Requesters /\ s_job[a].at = "getting" /\ s_job[a].token = held[h].token

\* A run that signs in has its lease.
Works_At(a, h) == At(a, h) /\ (a \in Requesters => S!Leased(a))
Calls(h, j) == j.slot = h /\ j.again \in BOOLEAN /\ j.tries \in Nat

\* A lease is counted, and so there is one to give back.
LEMMA LeaseIsCounted ==
    ASSUME S!SignInsAssumption, SignInsInv, NEW a \in S!Actors, NEW h \in S!Slots, At(a, h), S!Leased(a)
    PROVE  held[h].leases # 0 /\ held[h].leases \in Nat /\ held[h].open
<1>1. a \in Users(h)
  <2>1. s_job[a].slot = h
    BY WhichRenewal DEF SignInsInv, At
  <2> QED
    BY <2>1 DEF Users
<1>2. IsFiniteSet(Users(h)) /\ Cardinality(Users(h)) \in Nat
  BY ActorsAreFinite DEF Users
<1>3. Cardinality(Users(h)) # 0
  BY <1>1, <1>2, FS_EmptySet
<1> QED
  BY <1>2, <1>3, SignInCounts DEF SignInsInv, LeasesCounted

\* What a lease given back or taken, a lock let go of and a token that is forgotten leave alone.
LEMMA ReturnedStands ==
    ASSUME NEW s \in Stands, s.leases # 0
    PROVE  /\ S!Returned(s) \in Stands /\ S!Returned(s).leases = s.leases - 1
           /\ S!Returned(s).open <=> s.open /\ ~(s.retired /\ s.leases = 1)
           /\ S!Returned(s).stamp = s.stamp /\ S!Returned(s).retired = s.retired /\ S!Returned(s).lock = s.lock
           /\ S!Returned(s).token = s.token
<1>1. s.leases - 1 \in Nat
  BY DEF Stands
<1> QED
  BY <1>1 DEF S!Returned, Stands

LEMMA LentStands ==
    ASSUME NEW s \in Stands
    PROVE  /\ S!Lent(s) \in Stands /\ S!Lent(s).leases = s.leases + 1 /\ S!Lent(s).open
           /\ S!Lent(s).stamp = s.stamp /\ S!Lent(s).retired = s.retired /\ S!Lent(s).lock = s.lock /\ S!Lent(s).token = s.token
<1> DEFINE r == [s EXCEPT !.open = TRUE]
<1>1. /\ r \in Stands /\ r.open /\ r.leases = s.leases /\ r.stamp = s.stamp /\ r.retired = s.retired
      /\ r.lock = s.lock /\ r.token = s.token
  BY DEF Stands
<1>2. S!Lent(s) = [r EXCEPT !.leases = s.leases + 1]
  BY DEF S!Lent, Stands
<1> HIDE DEF r
<1>3. s.leases + 1 \in Nat
  BY DEF Stands
<1> QED
  BY <1>1, <1>2, <1>3 DEF Stands

LEMMA UnlockedStands ==
    ASSUME NEW s \in Stands, NEW a \in S!Actors
    PROVE  /\ [s EXCEPT !.lock = a] \in Stands
           /\ S!Unlocked(s, a) \in Stands /\ S!Unlocked(s, a).lock = (IF s.lock = a THEN None ELSE s.lock)
           /\ S!Unlocked(s, a).stamp = s.stamp /\ S!Unlocked(s, a).retired = s.retired /\ S!Unlocked(s, a).open = s.open
           /\ S!Unlocked(s, a).token = s.token /\ S!Unlocked(s, a).leases = s.leases
  BY DEF S!Unlocked, Stands

LEMMA ForgottenStands ==
    ASSUME NEW s \in Stands, NEW t
    PROVE  /\ S!_forget(s, t) \in Stands /\ S!_forget(s, t).token = (IF s.token = t THEN 0 ELSE s.token)
           /\ S!_forget(s, t).stamp = s.stamp /\ S!_forget(s, t).retired = s.retired
           /\ S!_forget(s, t).open = s.open /\ S!_forget(s, t).lock = s.lock /\ S!_forget(s, t).leases = s.leases
  BY DEF S!_forget, Stands

LEMMA HasStep ==
    ASSUME S!SignInsAssumption, SignInsInv, NEW a \in S!Actors, NEW h \in S!Slots, Works_At(a, h), NEW j, Calls(h, j),
           NEW s, Fit(a, h, s), S!Live(s), S!Has(a, j, s), UNCHANGED <<saved, editing, current>>
    PROVE  SignInsInv' /\ S!TokensAreKept
<1>1. s \in Stands /\ s.token \in S!Tokens /\ held[h] \in Stands /\ At(a, h) /\ j.slot = h
  BY DEF Fit, S!Live, Stands, SignInsInv, RegistryTyped, Works_At, Calls
<1>2. CASE a \in S!Slots
  <2>1. ~held[h].retired /\ ~s.retired
    BY <1>2 DEF SignInsInv, S!RetiredIsQuiet, Works_At, At, Fit
  <2>2. s.leases # 0 /\ s.leases \in Nat /\ held[h].leases \in Nat
    BY <1>1, LeaseIsCounted DEF Fit, Stands
  <2>3. /\ S!Returned(s) \in Stands /\ S!Returned(s).leases = s.leases - 1 /\ S!Returned(s).open
        /\ S!Returned(s).stamp = s.stamp /\ S!Returned(s).retired = s.retired /\ S!Returned(s).lock = s.lock
        /\ S!Returned(s).token = s.token
    BY <1>1, <2>1, <2>2, ReturnedStands DEF Fit
  <2> DEFINE i == [at |-> "watching"]
             r == S!Returned(s)
  <2>4. i \in JobsOf(a) /\ i.at = "watching" /\ i.at \notin LeasedAt
    BY <1>2 DEF JobsOf, RenewalsJobs, LeasedAt
  <2>5. held' = [held EXCEPT ![h] = r] /\ s_job' = [s_job EXCEPT ![a] = i]
    BY <1>1, <1>2 DEF S!Has, S!Puts, S!Goes
  <2>6. r.leases = held[h].leases + (IF i.at \in LeasedAt THEN 1 ELSE 0) - (IF S!Leased(a) THEN 1 ELSE 0)
    BY <2>2, <2>3, <2>4 DEF Fit
  <2>7. \/ r.token = held[h].token
        \/ s_job[a].at = "posting"
    BY <2>3 DEF Fit, S!Live
  <2>8. r.lock = held[h].lock \/ held[h].lock \in {None, a}
    BY <2>3 DEF Fit
  <2>9. r.stamp = held[h].stamp /\ r.retired = held[h].retired
    BY <2>3 DEF Fit
  <2> HIDE DEF i, r
  <2> QED
    BY <1>1, <2>1, <2>3, <2>4, <2>5, <2>6, <2>7, <2>8, <2>9, ActorMoves DEF r
<1>3. CASE a \notin S!Slots
  <2> DEFINE i == [at |-> "getting", slot |-> j.slot, token |-> s.token, again |-> j.again, tries |-> j.tries]
  <2>1. a \in Requesters /\ S!Leased(a)
    BY <1>3, WhichActor DEF SignInsInv, Works_At
  <2>2. i \in JobsOf(a) /\ i.at = "getting" /\ i.at \in LeasedAt /\ i.slot = h
    BY <1>1, <1>3 DEF JobsOf, WorkersJobs, Gets, LeasedAt, Calls
  <2>3. held' = [held EXCEPT ![h] = s] /\ s_job' = [s_job EXCEPT ![a] = i]
    BY <1>1, <1>3 DEF S!Has, S!Puts, S!Goes
  <2>4. s.leases = held[h].leases /\ s.leases # 0 /\ s.leases \in Nat /\ s.open
    BY <1>1, <2>1, LeaseIsCounted DEF Fit, Stands
  <2>5. s.leases = held[h].leases + (IF i.at \in LeasedAt THEN 1 ELSE 0) - (IF S!Leased(a) THEN 1 ELSE 0)
    BY <2>1, <2>2, <2>4
  <2>6. s.token = held[h].token \/ s_job[a].at = "posting"
    BY DEF Fit, S!Live
  <2>7. /\ s.stamp = held[h].stamp /\ s.retired = held[h].retired
        /\ s.lock = held[h].lock \/ held[h].lock \in {None, a}
    BY DEF Fit
  <2> HIDE DEF i
  <2> QED
    BY <1>1, <2>2, <2>3, <2>4, <2>5, <2>6, <2>7, ActorMoves
<1> QED
  BY <1>2, <1>3

LEMMA HasNotStep ==
    ASSUME S!SignInsAssumption, SignInsInv, NEW a \in S!Actors, NEW h \in S!Slots, Works_At(a, h), NEW j, Calls(h, j),
           NEW s, Fit(a, h, s), S!HasNot(a, j, s), UNCHANGED <<saved, editing, current>>
    PROVE  SignInsInv' /\ S!TokensAreKept
<1>1. s \in Stands /\ held[h] \in Stands /\ At(a, h) /\ j.slot = h
  BY DEF Fit, Stands, SignInsInv, RegistryTyped, Works_At, Calls
<1>2. CASE a \in S!Slots
  <2>1. ~held[h].retired /\ ~s.retired
    BY <1>2 DEF SignInsInv, S!RetiredIsQuiet, Works_At, At, Fit
  <2>2. s.leases # 0 /\ s.leases \in Nat /\ held[h].leases \in Nat
    BY <1>1, LeaseIsCounted DEF Fit, Stands
  <2>3. /\ S!Returned(s) \in Stands /\ S!Returned(s).leases = s.leases - 1 /\ S!Returned(s).open
        /\ S!Returned(s).stamp = s.stamp /\ S!Returned(s).retired = s.retired /\ S!Returned(s).lock = s.lock
        /\ S!Returned(s).token = s.token
    BY <1>1, <2>1, <2>2, ReturnedStands DEF Fit
  <2> DEFINE i == [at |-> "failed"]
             r == S!Returned(s)
  <2>4. i \in JobsOf(a) /\ i.at = "failed" /\ i.at \notin LeasedAt
    BY <1>2 DEF JobsOf, RenewalsJobs, LeasedAt
  <2>5. held' = [held EXCEPT ![h] = r] /\ s_job' = [s_job EXCEPT ![a] = i]
    BY <1>1, <1>2 DEF S!HasNot, S!Puts, S!Goes
  <2>6. r.leases = held[h].leases + (IF i.at \in LeasedAt THEN 1 ELSE 0) - (IF S!Leased(a) THEN 1 ELSE 0)
    BY <2>2, <2>3, <2>4 DEF Fit
  <2>7. a \notin Requesters
    BY <1>2, WhichActor DEF SignInsInv
  <2>8. r.token = held[h].token \/ s_job[a].at = "posting"
    BY <2>3, <2>7 DEF Fit
  <2>9. /\ r.stamp = held[h].stamp /\ r.retired = held[h].retired
        /\ r.lock = held[h].lock \/ held[h].lock \in {None, a}
    BY <2>3 DEF Fit
  <2> HIDE DEF i, r
  <2> QED
    BY <1>1, <2>1, <2>3, <2>4, <2>5, <2>6, <2>8, <2>9, ActorMoves DEF r
<1>3. CASE a \notin S!Slots
  <2> DEFINE i == [at |-> "leased", slot |-> j.slot]
  <2>1. a \in Requesters /\ S!Leased(a)
    BY <1>3, WhichActor DEF SignInsInv, Works_At
  <2>2. i \in JobsOf(a) /\ i.at = "leased" /\ i.at \in LeasedAt /\ i.slot = h
    BY <1>1, <1>3 DEF JobsOf, WorkersJobs, LeasedAt
  <2>3. held' = [held EXCEPT ![h] = s] /\ s_job' = [s_job EXCEPT ![a] = i]
    BY <1>1, <1>3 DEF S!HasNot, S!Puts, S!Back, S!Goes
  <2>4. s.leases = held[h].leases /\ s.leases # 0 /\ s.leases \in Nat /\ s.open
    BY <1>1, <2>1, LeaseIsCounted DEF Fit, Stands
  <2>5. s.leases = held[h].leases + (IF i.at \in LeasedAt THEN 1 ELSE 0) - (IF S!Leased(a) THEN 1 ELSE 0)
    BY <2>1, <2>2, <2>4
  <2>6. /\ s.stamp = held[h].stamp /\ s.retired = held[h].retired
        /\ s.lock = held[h].lock \/ held[h].lock \in {None, a}
        /\ \/ s.token = held[h].token
           \/ s_job[a].at = "posting"
           \/ s.token = 0 /\ a \in Requesters /\ s_job[a].at = "getting" /\ s_job[a].token = held[h].token
    BY DEF Fit
  <2> HIDE DEF i
  <2> QED
    BY <1>1, <2>2, <2>3, <2>4, <2>5, <2>6, ActorMoves
<1> QED
  BY <1>2, <1>3

\* Asking for a token, or waiting for the lock: the actor goes on with its lease.
LEMMA GoesOn ==
    ASSUME S!SignInsAssumption, SignInsInv, NEW a \in S!Actors, NEW h \in S!Slots, Works_At(a, h), NEW j, Calls(h, j),
           NEW s, Fit(a, h, s), NEW stage \in {"waiting", "posting"}, NEW r \in Stands,
           r.stamp = s.stamp, r.retired = s.retired, r.leases = s.leases, r.open, r.token = s.token,
           r.lock = held[h].lock \/ held[h].lock \in {None, a},
           stage = "posting" => r.lock = a /\ r.token = 0,
           held' = [held EXCEPT ![h] = r],
           s_job' = [s_job EXCEPT ![a] = [at |-> stage, slot |-> h, again |-> j.again, tries |-> j.tries]],
           UNCHANGED <<saved, editing, current>>
    PROVE  SignInsInv' /\ S!TokensAreKept
<1> DEFINE i == [at |-> stage, slot |-> h, again |-> j.again, tries |-> j.tries]
<1>1. s \in Stands /\ held[h] \in Stands /\ At(a, h)
  BY DEF Fit, Stands, SignInsInv, RegistryTyped, Works_At
<1>2. i \in JobsOf(a) /\ i.at = stage /\ i.at \in LeasedAt /\ i.slot = h /\ i.at # "getting"
  <2>1. a \in S!Slots => a = h
    BY DEF Works_At, At
  <2> QED
    BY <2>1 DEF JobsOf, WorkersJobs, RenewalsJobs, Carries, LeasedAt, Calls
<1>3. r.leases \in Nat /\ held[h].leases \in Nat
  BY <1>1 DEF Stands
<1>4. r.leases = held[h].leases + (IF i.at \in LeasedAt THEN 1 ELSE 0) - (IF S!Leased(a) THEN 1 ELSE 0) /\ r.leases # 0
  BY <1>1, <1>2, <1>3, LeaseIsCounted DEF Fit
<1>5. /\ r.stamp = held[h].stamp /\ r.retired = held[h].retired
      /\ \/ r.token = held[h].token
         \/ s_job[a].at = "posting"
         \/ r.token = 0 /\ a \in Requesters /\ s_job[a].at = "getting" /\ s_job[a].token = held[h].token
  BY DEF Fit
<1>6. s_job' = [s_job EXCEPT ![a] = i]
  OBVIOUS
<1> HIDE DEF i
<1> QED
  BY <1>1, <1>2, <1>4, <1>5, <1>6, ActorMoves

LEMMA AsksStep ==
    ASSUME S!SignInsAssumption, SignInsInv, NEW a \in S!Actors, NEW h \in S!Slots, Works_At(a, h), NEW j, Calls(h, j),
           NEW s, Fit(a, h, s), ~S!Live(s), s.lock = None, S!Asks(a, j, s), UNCHANGED <<saved, editing, current>>
    PROVE  SignInsInv' /\ S!TokensAreKept
<1>1. CASE s.cool
  BY <1>1, HasNotStep DEF S!Asks
<1>2. CASE ~s.cool
  <2> DEFINE r == [s EXCEPT !.lock = a]
  <2>1. /\ r \in Stands /\ r.lock = a /\ r.stamp = s.stamp /\ r.retired = s.retired /\ r.leases = s.leases
        /\ r.open /\ r.token = s.token
    BY UnlockedStands DEF Fit, Stands
  <2>2. s.token = 0 /\ held[h].lock \in {None, a}
    BY DEF S!Live, Fit
  <2>3. /\ held' = [held EXCEPT ![h] = r]
        /\ s_job' = [s_job EXCEPT ![a] = [at |-> "posting", slot |-> h, again |-> j.again, tries |-> j.tries]]
    BY <1>2 DEF S!Asks, S!Puts, S!Goes, Calls
  <2> HIDE DEF r
  <2> QED
    BY <2>1, <2>2, <2>3, GoesOn
<1> QED
  BY <1>1, <1>2

LEMMA AuthenticateStep ==
    ASSUME S!SignInsAssumption, SignInsInv, NEW a \in S!Actors, NEW h \in S!Slots, Works_At(a, h), NEW j, Calls(h, j),
           NEW s, Fit(a, h, s), s.lock = held[h].lock, S!_authenticate(a, j, s), UNCHANGED <<saved, editing, current>>
    PROVE  SignInsInv' /\ S!TokensAreKept
<1>1. CASE S!Live(s)
  BY <1>1, HasStep DEF S!_authenticate
<1>2. CASE ~S!Live(s) /\ s.lock = None
  BY <1>2, AsksStep DEF S!_authenticate
<1>3. CASE ~S!Live(s) /\ s.lock # None
  <2>1. /\ held' = [held EXCEPT ![h] = s]
        /\ s_job' = [s_job EXCEPT ![a] = [at |-> "waiting", slot |-> h, again |-> j.again, tries |-> j.tries]]
    BY <1>3 DEF S!_authenticate, S!Puts, S!Goes, Calls
  <2>2. s \in Stands /\ s.open
    BY DEF Fit
  <2> QED
    BY <2>1, <2>2, GoesOn
<1> QED
  BY <1>1, <1>2, <1>3

LEMMA FitAsIs ==
    ASSUME S!SignInsAssumption, SignInsInv, NEW a \in S!Actors, NEW h \in S!Slots, At(a, h), S!Leased(a)
    PROVE  Fit(a, h, held[h]) /\ Works_At(a, h) /\ held[h] \in Stands
<1>1. held[h] \in Stands
  BY DEF SignInsInv, RegistryTyped
<1> QED
  BY <1>1, LeaseIsCounted DEF Fit, Works_At

\* What an actor brings that waits, posts, or is to try again.
LEMMA CallsAsIs ==
    ASSUME S!SignInsAssumption, SignInsInv, NEW a \in S!Actors, s_job[a].at \in {"waiting", "posting", "backoff"}
    PROVE  s_job[a].slot \in S!Slots /\ At(a, s_job[a].slot) /\ S!Leased(a) /\ Calls(s_job[a].slot, s_job[a])
<1>1. ActorsTyped
  BY DEF SignInsInv
<1>2. s_job[a].again \in BOOLEAN /\ s_job[a].tries \in Nat
  <2>1. CASE a \in S!Slots
    BY <1>1, <2>1, WhichRenewal
  <2>2. CASE a \notin S!Slots
    <3>1. a \in Requesters
      BY <1>1, <2>2, WhichActor
    <3> QED
      BY <1>1, <3>1, WhichWorker
  <2> QED
    BY <2>1, <2>2
<1> QED
  BY <1>1, <1>2, WhereAt DEF LeasedAt, Calls

LEMMA LockedStep == ASSUME S!SignInsAssumption, SignInsInv, NEW a \in S!Actors, S!Locked(a) PROVE SignInsInv' /\ S!TokensAreKept
<1> DEFINE h == s_job[a].slot
<1>1. s_job[a].at = "waiting" /\ held[h].lock = None /\ UNCHANGED <<saved, editing, current>>
  BY DEF S!Locked, S!Others
<1>2. h \in S!Slots /\ At(a, h) /\ S!Leased(a) /\ Calls(h, s_job[a])
  BY <1>1, CallsAsIs
<1>3. Fit(a, h, held[h]) /\ Works_At(a, h)
  BY <1>2, FitAsIs
<1>4. CASE S!Live(held[h])
  <2>1. S!Has(a, s_job[a], held[h])
    BY <1>4 DEF S!Locked
  <2> QED
    BY <1>1, <1>2, <1>3, <1>4, <2>1, HasStep
<1>5. CASE ~S!Live(held[h])
  <2>1. S!Asks(a, s_job[a], held[h])
    BY <1>5 DEF S!Locked
  <2> QED
    BY <1>1, <1>2, <1>3, <1>5, <2>1, AsksStep
<1> QED
  BY <1>4, <1>5

\* There is one token more than there are requests it could be taken for.
LEMMA FreshIsToken == ASSUME S!SignInsAssumption, ActorsTyped, NEW h \in S!Slots PROVE S!Fresh(h) \in S!Tokens
<1>1. IsFiniteSet(Requesters) /\ Cardinality(Requesters) \in Nat
  BY ActorsAreFinite
<1>2. S!Tokens = 1 .. Cardinality(Requesters) + 1
  BY SignInCounts DEF S!Tokens
<1>3. IsFiniteSet(S!Tokens) /\ Cardinality(S!Tokens) = Cardinality(Requesters) + 1
  BY <1>1, <1>2, FS_Interval
<1>4. \E t \in S!Tokens : \A w \in S!Getting(h) : s_job[w].token # t
  <2> SUFFICES ASSUME \A t \in S!Tokens : \E w \in S!Getting(h) : s_job[w].token = t
               PROVE  FALSE
    OBVIOUS
  <2> DEFINE f == [t \in S!Tokens |-> CHOOSE w \in S!Getting(h) : s_job[w].token = t]
  <2>1. \A t \in S!Tokens : f[t] \in Requesters /\ s_job[f[t]].token = t
    BY DEF S!Getting
  <2>2. f \in [S!Tokens -> Requesters]
    BY <2>1
  <2> HIDE DEF f
  <2>3. Cardinality(Requesters) < Cardinality(S!Tokens)
    BY <1>1, <1>3
  <2>4. \E x, y \in S!Tokens : x # y /\ f[x] = f[y]
    BY <1>1, <1>3, <2>2, <2>3, FS_PigeonHole
  <2> QED
    BY <2>1, <2>4
<1> QED
  BY <1>4 DEF S!Fresh

LEMMA IssuedStep == ASSUME S!SignInsAssumption, SignInsInv, NEW a \in S!Actors, S!Issued(a) PROVE SignInsInv' /\ S!TokensAreKept
<1> DEFINE h == s_job[a].slot
<1>1. s_job[a].at = "posting" /\ UNCHANGED <<saved, editing, current>>
  BY DEF S!Issued, S!Others
<1>2. h \in S!Slots /\ At(a, h) /\ S!Leased(a) /\ Calls(h, s_job[a])
  BY <1>1, CallsAsIs
<1>3. Fit(a, h, held[h]) /\ Works_At(a, h) /\ held[h] \in Stands /\ held[h].lock = a
  BY <1>1, <1>2, FitAsIs DEF SignInsInv, S!OneRequestPerSignIn
<1>4. PICK named \in Lifetimes :
          S!Has(a, s_job[a], [held[h] EXCEPT !.token = S!Fresh(h), !.endless = ~named, !.cool = FALSE, !.lock = None])
  BY DEF S!Issued
<1>5. S!Fresh(h) \in S!Tokens /\ named \in BOOLEAN /\ S!Fresh(h) # 0
  <2>1. S!Fresh(h) \in S!Tokens
    BY <1>2, FreshIsToken DEF SignInsInv
  <2>2. 0 \notin S!Tokens
    BY DEF S!Tokens
  <2> QED
    BY <2>1, <2>2 DEF S!SignInsAssumption
<1> DEFINE s == [held[h] EXCEPT !.token = S!Fresh(h), !.endless = ~named, !.cool = FALSE, !.lock = None]
<1>6. /\ s \in Stands /\ s.token = S!Fresh(h) /\ s.lock = None /\ s.stamp = held[h].stamp /\ s.retired = held[h].retired
      /\ s.open = held[h].open /\ s.leases = held[h].leases
  <2> DEFINE s1 == [held[h] EXCEPT !.token = S!Fresh(h)]
             s2 == [s1 EXCEPT !.endless = ~named]
             s3 == [s2 EXCEPT !.cool = FALSE]
  <2>1. /\ s1 \in Stands /\ s1.token = S!Fresh(h) /\ s1.stamp = held[h].stamp /\ s1.retired = held[h].retired
        /\ s1.open = held[h].open /\ s1.leases = held[h].leases
    BY <1>3, <1>5 DEF Stands
  <2>2. s = [[[s1 EXCEPT !.endless = ~named] EXCEPT !.cool = FALSE] EXCEPT !.lock = None]
    BY <1>3 DEF Stands
  <2> HIDE DEF s1, s
  <2>3. (~named) \in BOOLEAN
    BY <1>5
  <2>4. /\ s2 \in Stands /\ s2.token = s1.token /\ s2.stamp = s1.stamp /\ s2.retired = s1.retired
        /\ s2.open = s1.open /\ s2.leases = s1.leases
    BY <2>1, <2>3 DEF Stands
  <2> HIDE DEF s2
  <2>5. /\ s3 \in Stands /\ s3.token = s2.token /\ s3.stamp = s2.stamp /\ s3.retired = s2.retired
        /\ s3.open = s2.open /\ s3.leases = s2.leases
    BY <2>4 DEF Stands
  <2>6. s = [s3 EXCEPT !.lock = None]
    BY <2>2 DEF s2
  <2> HIDE DEF s3
  <2> QED
    BY <2>1, <2>4, <2>5, <2>6 DEF Stands
<1>7. S!Has(a, s_job[a], s)
  BY <1>4
<1> HIDE DEF s
<1>8. Fit(a, h, s) /\ S!Live(s)
  BY <1>1, <1>3, <1>5, <1>6 DEF Fit, S!Live
<1> QED
  BY <1>1, <1>2, <1>3, <1>7, <1>8, HasStep

LEMMA NotIssuedStep == ASSUME S!SignInsAssumption, SignInsInv, NEW a \in S!Actors, S!NotIssued(a) PROVE SignInsInv' /\ S!TokensAreKept
<1> DEFINE h == s_job[a].slot
<1>1. s_job[a].at = "posting" /\ UNCHANGED <<saved, editing, current>>
  BY DEF S!NotIssued, S!Others
<1>2. h \in S!Slots /\ At(a, h) /\ S!Leased(a) /\ Calls(h, s_job[a])
  BY <1>1, CallsAsIs
<1>3. Fit(a, h, held[h]) /\ Works_At(a, h) /\ held[h] \in Stands /\ held[h].lock = a
  BY <1>1, <1>2, FitAsIs DEF SignInsInv, S!OneRequestPerSignIn
<1>4. PICK refused \in BOOLEAN : S!HasNot(a, s_job[a], [held[h] EXCEPT !.lock = None, !.cool = @ \/ refused])
  BY DEF S!NotIssued
<1> DEFINE s == [held[h] EXCEPT !.lock = None, !.cool = @ \/ refused]
<1>5. /\ s \in Stands /\ s.token = held[h].token /\ s.lock = None /\ s.stamp = held[h].stamp
      /\ s.retired = held[h].retired /\ s.open = held[h].open /\ s.leases = held[h].leases
  <2> DEFINE s1 == [held[h] EXCEPT !.lock = None]
             c == held[h].cool \/ refused
  <2>1. /\ s1 \in Stands /\ s1.lock = None /\ s1.token = held[h].token /\ s1.stamp = held[h].stamp
        /\ s1.retired = held[h].retired /\ s1.open = held[h].open /\ s1.leases = held[h].leases
    BY <1>3 DEF Stands
  <2>2. s = [s1 EXCEPT !.cool = c]
    BY <1>3 DEF Stands
  <2>3. c \in BOOLEAN
    OBVIOUS
  <2> HIDE DEF s1, s, c
  <2> QED
    BY <2>1, <2>2, <2>3 DEF Stands
<1>6. S!HasNot(a, s_job[a], s)
  BY <1>4
<1> HIDE DEF s
<1>7. Fit(a, h, s)
  BY <1>3, <1>5 DEF Fit
<1> QED
  BY <1>1, <1>2, <1>3, <1>6, <1>7, HasNotStep

\* A run goes on with its lease and asks nothing of the sign-in.
LEMMA RunGoesOn ==
    ASSUME S!SignInsAssumption, SignInsInv, NEW w \in Requesters, S!Leased(w), NEW s \in {held[s_job[w].slot], S!Unlocked(held[s_job[w].slot], w)},
           NEW j \in WorkersJobs, j.at \in {"leased", "backoff"}, j.slot = s_job[w].slot,
           held' = [held EXCEPT ![s_job[w].slot] = s], s_job' = [s_job EXCEPT ![w] = j], UNCHANGED <<saved, editing, current>>
    PROVE  SignInsInv' /\ S!TokensAreKept
<1> DEFINE h == s_job[w].slot
<1>1. h \in S!Slots /\ At(w, h) /\ w \in S!Actors /\ w \notin S!Slots
  BY WhichWorker, WhichActor DEF SignInsInv, At
<1>2. held[h] \in Stands /\ held[h].leases # 0 /\ held[h].leases \in Nat /\ held[h].open
  BY <1>1, FitAsIs, LeaseIsCounted
<1>3. /\ s \in Stands /\ s.stamp = held[h].stamp /\ s.retired = held[h].retired /\ s.leases = held[h].leases
      /\ s.open = held[h].open /\ s.token = held[h].token /\ (s.lock = held[h].lock \/ held[h].lock = w)
  <2>1. CASE s = held[h]
    BY <1>2, <2>1
  <2>2. CASE s = S!Unlocked(held[h], w)
    <3>1. \A x \in Stands : LET u == S!Unlocked(x, w) IN
             /\ u \in Stands /\ u.stamp = x.stamp /\ u.retired = x.retired /\ u.leases = x.leases
             /\ u.open = x.open /\ u.token = x.token /\ (u.lock = x.lock \/ x.lock = w)
      <4>1. ASSUME NEW x \in Stands
            PROVE  LET u == S!Unlocked(x, w) IN
                   /\ u \in Stands /\ u.stamp = x.stamp /\ u.retired = x.retired /\ u.leases = x.leases
                   /\ u.open = x.open /\ u.token = x.token /\ (u.lock = x.lock \/ x.lock = w)
        BY <1>1, UnlockedStands
      <4> QED
        BY <4>1
    <3> QED
      BY <1>2, <2>2, <3>1
  <2> QED
    BY <2>1, <2>2
<1>4. j \in JobsOf(w) /\ j.at \in LeasedAt /\ j.at # "posting"
  BY <1>1 DEF JobsOf, LeasedAt
<1>5. s.leases = held[h].leases + (IF j.at \in LeasedAt THEN 1 ELSE 0) - (IF S!Leased(w) THEN 1 ELSE 0)
  BY <1>2, <1>3, <1>4
<1> QED
  BY <1>1, <1>2, <1>3, <1>4, <1>5, ActorMoves

LEMMA RequestStep ==
    ASSUME S!SignInsAssumption, SignInsInv, NEW w \in Requesters, S!Request(w) \/ S!Refused(w) \/ S!Resend(w)
    PROVE  SignInsInv' /\ S!TokensAreKept
<1> DEFINE h == s_job[w].slot
<1>1. s_job[w].at \in {"leased", "getting", "backoff"} /\ UNCHANGED <<saved, editing, current>>
  BY DEF S!Request, S!Refused, S!Resend, S!Others
<1>2. ActorsTyped /\ w \in S!Actors /\ w \notin S!Slots /\ S!Leased(w) /\ h \in S!Slots /\ At(w, h)
  BY <1>1, WhichActor, WhichWorker DEF SignInsInv, At
<1>3. Fit(w, h, held[h]) /\ Works_At(w, h) /\ held[h] \in Stands
  BY <1>2, FitAsIs
<1>4. CASE S!Request(w)
  <2> DEFINE j == [slot |-> h, again |-> FALSE, tries |-> 0]
  <2>1. Calls(h, j) /\ S!_authenticate(w, j, held[h])
    BY <1>4 DEF S!Request, Calls
  <2> HIDE DEF j
  <2> QED
    BY <1>1, <1>2, <1>3, <2>1, AuthenticateStep
<1>5. CASE S!Resend(w)
  <2>1. Calls(h, s_job[w]) /\ S!_authenticate(w, s_job[w], held[h])
    BY <1>2, <1>5, CallsAsIs DEF S!Resend
  <2> QED
    BY <1>1, <1>2, <1>3, <2>1, AuthenticateStep
<1>6. CASE S!Refused(w) /\ s_job[w].again
  <2> DEFINE j == [at |-> "leased", slot |-> h]
  <2>1. s_job' = [s_job EXCEPT ![w] = j] /\ held' = held
    BY <1>6 DEF S!Refused, S!Back, S!Goes
  <2>2. held' = [held EXCEPT ![h] = held[h]]
    BY <1>2, <2>1 DEF SignInsInv, RegistryTyped
  <2>3. j \in WorkersJobs /\ j.at = "leased" /\ j.slot = h
    BY <1>2 DEF WorkersJobs
  <2> HIDE DEF j
  <2> QED
    BY <1>1, <1>2, <2>1, <2>2, <2>3, RunGoesOn
<1>7. CASE S!Refused(w) /\ ~s_job[w].again
  <2> DEFINE j == [s_job[w] EXCEPT !.again = TRUE]
             s == S!_forget(held[h], s_job[w].token)
  <2>1. s_job[w].at = "getting" /\ S!_authenticate(w, j, s)
    BY <1>7 DEF S!Refused
  <2>2. Calls(h, j)
    <3>1. s_job[w] \in Gets
      BY <1>2, <2>1, WhichActor DEF WorkersJobs, S!Off, Carries, Gets
    <3> QED
      BY <3>1 DEF Calls, Gets
  <2>3. /\ s \in Stands /\ s.token = (IF held[h].token = s_job[w].token THEN 0 ELSE held[h].token)
        /\ s.stamp = held[h].stamp /\ s.retired = held[h].retired /\ s.open = held[h].open /\ s.lock = held[h].lock
        /\ s.leases = held[h].leases
    BY <1>3, ForgottenStands
  <2> HIDE DEF j, s
  <2>4. Fit(w, h, s)
    BY <1>3, <2>1, <2>3 DEF Fit
  <2> QED
    BY <1>1, <1>2, <1>3, <2>1, <2>2, <2>3, <2>4, AuthenticateStep
<1> QED
  BY <1>4, <1>5, <1>6, <1>7

LEMMA AnswerStep ==
    ASSUME S!SignInsAssumption, SignInsInv, NEW w \in Requesters, S!Answered(w) \/ S!Transient(w) \/ S!CutShort(w)
    PROVE  SignInsInv' /\ S!TokensAreKept
<1> DEFINE h == s_job[w].slot
           i == [at |-> "leased", slot |-> h]
<1>1. /\ s_job[w].at \in {"waiting", "posting", "getting", "backoff"} /\ UNCHANGED <<saved, editing, current>>
  BY DEF S!Answered, S!Transient, S!CutShort, S!Others
<1>2. S!Leased(w) /\ h \in S!Slots /\ s_job[w].again \in BOOLEAN /\ s_job[w].tries \in Nat
  BY <1>1, WhichWorker DEF SignInsInv
<1>3. i \in WorkersJobs /\ i.at = "leased" /\ i.slot = h
  BY <1>2 DEF WorkersJobs
<1>4. held = [held EXCEPT ![h] = held[h]]
  BY <1>2 DEF SignInsInv, RegistryTyped
<1>5. CASE s_job' = [s_job EXCEPT ![w] = i] /\ held' = held
  <2> HIDE DEF i
  <2> QED
    BY <1>1, <1>2, <1>3, <1>4, <1>5, RunGoesOn
<1>6. CASE s_job' = [s_job EXCEPT ![w] = i] /\ held' = [held EXCEPT ![h] = S!Unlocked(held[h], w)]
  <2> HIDE DEF i
  <2> QED
    BY <1>1, <1>2, <1>3, <1>6, RunGoesOn
<1>7. CASE /\ s_job' = [s_job EXCEPT ![w] = [at |-> "backoff", slot |-> h, again |-> s_job[w].again, tries |-> s_job[w].tries + 1]]
           /\ held' = held
  <2> DEFINE j == [at |-> "backoff", slot |-> h, again |-> s_job[w].again, tries |-> s_job[w].tries + 1]
  <2>1. j \in WorkersJobs /\ j.at = "backoff" /\ j.slot = h
    BY <1>2 DEF WorkersJobs, Carries
  <2>2. s_job' = [s_job EXCEPT ![w] = j]
    BY <1>7
  <2> HIDE DEF j
  <2> QED
    BY <1>1, <1>2, <1>4, <1>7, <2>1, <2>2, RunGoesOn
<1> QED
  BY <1>5, <1>6, <1>7 DEF S!Answered, S!Transient, S!CutShort, S!Back, S!Goes, S!Puts

\* A slot nobody is left to use is blank again: its last user, or its renewal, has stopped.
LEMMA Blanked ==
    ASSUME S!SignInsAssumption, SignInsInv, NEW a \in S!Actors, NEW h \in S!Slots, At(a, h) \/ s_job[a] = S!Off,
           held' = [held EXCEPT ![h] = S!Blank], s_job' = [s_job EXCEPT ![a] = S!Off],
           \A w \in Requesters : s_job'[w].at \notin {"off", "read"} => s_job'[w].slot # h, s_job'[h] = S!Off,
           saved' = saved, editing' \in BOOLEAN, current' \in {current, None}, current' # h
    PROVE  SignInsInv' /\ S!TokensAreKept
<1>1. /\ RegistryTyped /\ ActorsTyped /\ CurrentIsKept /\ BlankIsFree /\ PostingIsNeeded /\ LeasesCounted
      /\ S!OneRequestPerSignIn /\ S!RetiredIsQuiet
  BY DEF SignInsInv
<1>2. /\ S!Blank \in Stands /\ S!Blank.retired /\ S!Blank.token = 0 /\ S!Blank.leases = 0 /\ ~S!Blank.open /\ S!Blank.stamp = None
      /\ S!Blank.lock = None
  BY DEF S!Blank, S!Built, S!stamp, Stands
<1>3. S!Off \in JobsOf(a) /\ S!Off.at = "off"
  BY DEF JobsOf, WorkersJobs, RenewalsJobs, S!Off
<1>4. /\ held'[h] = S!Blank /\ \A g \in S!Slots \ {h} : held'[g] = held[g]
      /\ s_job'[a] = S!Off /\ \A b \in S!Actors \ {a} : s_job'[b] = s_job[b]
  BY <1>1 DEF RegistryTyped, ActorsTyped
<1>5. RegistryTyped' /\ ActorsTyped'
  <2> HIDE DEF S!Off, S!Blank
  <2> QED
    BY <1>1, <1>2, <1>3, <1>4 DEF RegistryTyped, ActorsTyped
<1>6. CurrentIsKept'
  BY <1>1, <1>4 DEF CurrentIsKept, RegistryTyped
<1>7. BlankIsFree'
  <2>1. ASSUME NEW w \in Requesters, s_job'[w].at \notin {"off", "read"} PROVE held'[s_job'[w].slot].stamp # None
    <3>1. w # a
      BY <1>3, <1>4, <2>1
    <3>2. s_job'[w] = s_job[w] /\ s_job[w].slot \in S!Slots \ {h}
      BY <1>1, <1>4, <2>1, <3>1, WhichWorker DEF S!Actors
    <3> QED
      BY <1>1, <1>4, <2>1, <3>2 DEF BlankIsFree
  <2> QED
    BY <1>1, <1>2, <1>4, <2>1 DEF BlankIsFree
<1>8. \A b \in S!Actors : s_job'[b].at \in LeasedAt =>
                                                   /\ b # a /\ s_job'[b] = s_job[b]
                                                   /\ s_job[b].slot \in S!Slots \ {h}
  <2>1. ASSUME NEW b \in S!Actors, s_job'[b].at \in LeasedAt PROVE b # a /\ s_job'[b] = s_job[b] /\ s_job[b].slot \in S!Slots \ {h}
    <3>1. b # a /\ s_job'[b] = s_job[b]
      BY <1>3, <1>4, <2>1 DEF LeasedAt
    <3>2. s_job[b].slot \in S!Slots
      BY <1>1, <2>1, <3>1, WhereAt
    <3>3. CASE b \in S!Slots
      BY <1>1, <1>3, <2>1, <3>1, <3>2, <3>3, WhichRenewal DEF LeasedAt
    <3>4. CASE b \notin S!Slots
      <4>1. b \in Requesters
        BY <1>1, <3>4, WhichActor
      <4> QED
        BY <2>1, <3>1, <3>2, <4>1 DEF LeasedAt
    <3> QED
      BY <3>1, <3>2, <3>3, <3>4
  <2> QED
    BY <2>1
<1>9. S!OneRequestPerSignIn' /\ PostingIsNeeded'
  BY <1>1, <1>4, <1>8 DEF S!OneRequestPerSignIn, PostingIsNeeded, LeasedAt
<1>10. S!RetiredIsQuiet'
  <2>1. ASSUME NEW g \in S!Slots, g # h, held'[g].retired PROVE s_job'[g] = S!Off
    <3>1. s_job[g] = S!Off
      BY <1>1, <1>4, <2>1 DEF S!RetiredIsQuiet
    <3> QED
      BY <1>4, <3>1 DEF S!Actors
  <2> QED
    BY <2>1 DEF S!RetiredIsQuiet
<1>11. LeasesCounted'
  <2>1. Users(h)' = {}
    BY <1>8 DEF Users, S!Leased, LeasedAt
  <2>2. \A g \in S!Slots \ {h} : Users(g)' = Users(g)
    <3>1. \A g \in S!Slots \ {h} : a \notin Users(g)
      <4>1. S!Leased(a) => s_job[a].slot = h
        <5>1. CASE s_job[a] = S!Off
          BY <1>3, <5>1 DEF S!Leased
        <5>2. CASE At(a, h) /\ a \in S!Slots
          BY <1>1, <5>2, WhichRenewal DEF At
        <5>3. CASE At(a, h) /\ a \notin S!Slots
          BY <5>3 DEF At
        <5> QED
          BY <5>1, <5>2, <5>3
      <4> QED
        BY <4>1 DEF Users
    <3>2. \A g \in S!Slots \ {h} : a \notin Users(g)'
      BY <1>8 DEF Users, S!Leased, LeasedAt
    <3>3. \A g \in S!Slots \ {h} : \A b \in S!Actors \ {a} : b \in Users(g)' <=> b \in Users(g)
      BY <1>4 DEF Users, S!Leased
    <3>4. \A g \in S!Slots : Users(g) \subseteq S!Actors /\ Users(g)' \subseteq S!Actors
      BY DEF Users
    <3>5. ASSUME NEW g \in S!Slots \ {h} PROVE Users(g)' = Users(g)
      <4>1. \A b \in S!Actors : b \in Users(g)' <=> b \in Users(g)
        BY <3>1, <3>2, <3>3
      <4> QED
        BY <3>4, <4>1
    <3> QED
      BY <3>5
  <2>3. Cardinality({}) = 0
    BY FS_EmptySet
  <2>4. ASSUME NEW g \in S!Slots
        PROVE  /\ held'[g].leases = Cardinality(Users(g)')
               /\ held'[g].leases # 0 => held'[g].open
               /\ held'[g].retired /\ held'[g].leases = 0 => ~held'[g].open
    <3>1. CASE g = h
      BY <1>2, <1>4, <2>1, <2>3, <3>1
    <3>2. CASE g # h
      BY <1>1, <1>4, <2>2, <3>2, SignInCounts DEF LeasesCounted
    <3> QED
      BY <3>1, <3>2
  <2> QED
    BY <2>4, SignInCounts DEF LeasesCounted
<1>12. S!TokensAreKept
  <2>1. \A g \in S!Slots : S!Live(held[g]) /\ held'[g].token # held[g].token => held'[g].stamp # held[g].stamp
    BY <1>1, <1>2, <1>4 DEF BlankIsFree, S!Live
  <2> QED
    BY <2>1 DEF S!TokensAreKept
<1> QED
  BY <1>5, <1>6, <1>7, <1>9, <1>10, <1>11, <1>12 DEF SignInsInv

LEMMA ReleaseStep ==
    ASSUME S!SignInsAssumption, SignInsInv, NEW w \in Requesters, S!lease(w) \/ S!Release(w)
    PROVE  SignInsInv' /\ S!TokensAreKept
<1> DEFINE h == s_job[w].slot
<1>1. s_job[w].at \in {"built", "leased"} /\ UNCHANGED <<saved, editing, current>>
  BY DEF S!lease, S!Release, S!Others
<1>2. /\ ActorsTyped /\ w \in S!Actors /\ w \notin S!Slots /\ h \in S!Slots /\ At(w, h) /\ held[h] \in Stands
      /\ held[h].leases \in Nat
  <2>1. ActorsTyped /\ RegistryTyped
    BY DEF SignInsInv
  <2>2. w \in S!Actors /\ w \notin S!Slots /\ h \in S!Slots /\ At(w, h)
    BY <1>1, <2>1, WhichActor, WhichWorker DEF At
  <2> QED
    BY <2>1, <2>2 DEF RegistryTyped, Stands
<1>3. CASE S!lease(w)
  <2> DEFINE i == [s_job[w] EXCEPT !.at = "leased"]
             s == S!Lent(held[h])
  <2>1. s_job[w].at = "built" /\ held' = [held EXCEPT ![h] = s] /\ s_job' = [s_job EXCEPT ![w] = i]
    BY <1>3 DEF S!lease, S!Goes
  <2>2. s_job[w] \in [at: {"built", "leased"}, slot: S!Slots]
    BY <1>2, <2>1, WhichActor DEF WorkersJobs, S!Off, Carries, Gets
  <2>3. i \in JobsOf(w) /\ i.at = "leased" /\ i.slot = h /\ i.at \in LeasedAt
    BY <1>2, <2>2 DEF JobsOf, WorkersJobs, LeasedAt
  <2>4. /\ s \in Stands /\ s.leases = held[h].leases + 1 /\ s.open /\ s.stamp = held[h].stamp
        /\ s.retired = held[h].retired /\ s.lock = held[h].lock /\ s.token = held[h].token
    BY <1>2, LentStands
  <2>5. ~S!Leased(w)
    BY <2>1 DEF S!Leased
  <2> HIDE DEF i, s
  <2>6. s.leases = held[h].leases + (IF i.at \in LeasedAt THEN 1 ELSE 0) - (IF S!Leased(w) THEN 1 ELSE 0) /\ s.leases # 0
    BY <1>2, <2>3, <2>4, <2>5
  <2> QED
    BY <1>1, <1>2, <2>1, <2>3, <2>4, <2>6, ActorMoves
<1>4. CASE S!Release(w)
  <2> DEFINE s == S!Returned(held[h])
  <2>1. /\ s_job[w].at = "leased" /\ held' = [held EXCEPT ![h] = S!Tidy(h, s, s_job')] /\ s_job' = [s_job EXCEPT ![w] = S!Off]
    BY <1>4 DEF S!Release, S!Goes
  <2>2. S!Leased(w)
    BY <2>1 DEF S!Leased
  <2>3. held[h].leases # 0 /\ held[h].open
    BY <1>2, <2>2, LeaseIsCounted
  <2>4. /\ s \in Stands /\ s.leases = held[h].leases - 1 /\ (s.open <=> ~(held[h].retired /\ held[h].leases = 1))
        /\ s.stamp = held[h].stamp /\ s.retired = held[h].retired /\ s.lock = held[h].lock /\ s.token = held[h].token
    BY <1>2, <2>3, ReturnedStands
  <2> HIDE DEF s
  <2>5. CASE held' = [held EXCEPT ![h] = s]
    <3>1. S!Off \in JobsOf(w) /\ S!Off.at = "off" /\ S!Off.at \notin LeasedAt
      BY DEF JobsOf, WorkersJobs, RenewalsJobs, S!Off, LeasedAt
    <3>2. s.leases = held[h].leases + (IF S!Off.at \in LeasedAt THEN 1 ELSE 0) - (IF S!Leased(w) THEN 1 ELSE 0)
      BY <1>2, <2>2, <2>4, <3>1
    <3>3. (s.leases # 0 => s.open) /\ (s.retired /\ s.leases = 0 => ~s.open)
      BY <1>2, <2>4
    <3> HIDE DEF S!Off
    <3> QED
      BY <1>1, <1>2, <2>1, <2>4, <2>5, <3>1, <3>2, <3>3, ActorMoves
  <2>6. CASE held' # [held EXCEPT ![h] = s]
    <3>1. /\ s.retired /\ held' = [held EXCEPT ![h] = S!Blank]
          /\ \A v \in Requesters : s_job'[v].at \notin {"off", "read"} => s_job'[v].slot # h
      BY <2>1, <2>6 DEF S!Tidy
    <3>2. s_job[h] = S!Off /\ current # h
      BY <1>2, <2>4, <3>1, WhichActor DEF SignInsInv, S!RetiredIsQuiet, CurrentIsKept
    <3>3. s_job'[h] = S!Off
      BY <1>2, <2>1, <3>2 DEF ActorsTyped, S!Actors
    <3>4. editing' \in BOOLEAN /\ saved' = saved /\ current' = current
      BY <1>1 DEF SignInsInv, RegistryTyped
    <3> QED
      BY <1>2, <2>1, <3>1, <3>2, <3>3, <3>4, Blanked
  <2> QED
    BY <2>5, <2>6
<1> QED
  BY <1>3, <1>4

\* Retired, a sign-in keeps its pool for who still has a lease of it, and its renewal is gone.
LEMMA RetiredStep ==
    ASSUME S!SignInsAssumption, SignInsInv, NEW h \in S!Slots, NEW r \in Stands,
           held' = [held EXCEPT ![h] = r], s_job' = [s_job EXCEPT ![h] = S!Off],
           r.retired, r.stamp = held[h].stamp, r.token = held[h].token,
           r.leases = held[h].leases - (IF S!Leased(h) THEN 1 ELSE 0), r.open <=> r.leases # 0,
           r.lock = held[h].lock \/ held[h].lock = h,
           saved' = saved, editing' \in BOOLEAN, current' \in {current, None}, current' # h
    PROVE  SignInsInv' /\ S!TokensAreKept
<1>1. /\ RegistryTyped /\ ActorsTyped /\ CurrentIsKept /\ BlankIsFree /\ PostingIsNeeded /\ LeasesCounted
      /\ S!OneRequestPerSignIn /\ S!RetiredIsQuiet
  BY DEF SignInsInv
<1>2. h \in S!Actors /\ h # None /\ h \notin Requesters
  BY <1>1, WhichActor
<1>3. S!Off \in JobsOf(h) /\ S!Off.at = "off" /\ S!Off.at \notin LeasedAt
  BY DEF JobsOf, WorkersJobs, RenewalsJobs, S!Off, LeasedAt
<1>4. /\ held'[h] = r /\ \A g \in S!Slots \ {h} : held'[g] = held[g]
      /\ s_job'[h] = S!Off /\ \A b \in S!Actors \ {h} : s_job'[b] = s_job[b]
  BY <1>1, <1>2 DEF RegistryTyped, ActorsTyped
<1>5. RegistryTyped' /\ ActorsTyped'
  <2> HIDE DEF S!Off
  <2> QED
    BY <1>1, <1>2, <1>3, <1>4 DEF RegistryTyped, ActorsTyped
<1>6. CurrentIsKept'
  BY <1>1, <1>4 DEF CurrentIsKept, RegistryTyped
<1>7. BlankIsFree'
  <2>1. \A g \in S!Slots : held'[g].stamp = held[g].stamp /\ held'[g].token = held[g].token
    BY <1>4
  <2>2. \A g \in S!Slots : held[g].retired => held'[g].retired
    BY <1>4
  <2>3. ASSUME NEW w \in Requesters, s_job'[w].at \notin {"off", "read"} PROVE held'[s_job'[w].slot].stamp # None
    <3>1. s_job'[w] = s_job[w] /\ s_job[w].slot \in S!Slots
      BY <1>1, <1>2, <1>4, <2>3, WhichWorker DEF S!Actors
    <3> QED
      BY <1>1, <2>1, <2>3, <3>1 DEF BlankIsFree
  <2> QED
    BY <1>1, <2>1, <2>2, <2>3 DEF BlankIsFree
<1>8. S!OneRequestPerSignIn' /\ PostingIsNeeded'
  <2>1. ASSUME NEW b \in S!Actors, s_job'[b].at = "posting" PROVE held'[s_job'[b].slot].lock = b /\ held'[s_job'[b].slot].token = 0
    <3>1. b # h
      BY <1>3, <1>4, <2>1
    <3>2. s_job'[b] = s_job[b] /\ s_job[b].slot \in S!Slots
      BY <1>1, <1>4, <2>1, <3>1, WhereAt DEF LeasedAt
    <3>3. held[s_job[b].slot].lock = b /\ held[s_job[b].slot].token = 0
      BY <1>1, <2>1, <3>2 DEF S!OneRequestPerSignIn, PostingIsNeeded
    <3> QED
      BY <1>4, <3>1, <3>2, <3>3
  <2> QED
    BY <2>1 DEF S!OneRequestPerSignIn, PostingIsNeeded
<1>9. S!RetiredIsQuiet'
  <2>1. ASSUME NEW g \in S!Slots, g # h, held'[g].retired PROVE s_job'[g] = S!Off
    <3>1. s_job[g] = S!Off
      BY <1>1, <1>4, <2>1 DEF S!RetiredIsQuiet
    <3> QED
      BY <1>4, <2>1, <3>1 DEF S!Actors
  <2> QED
    BY <1>4, <2>1 DEF S!RetiredIsQuiet
<1>10. LeasesCounted'
  <2>1. /\ \A g \in S!Slots \ {h} : Users(g)' = Users(g)
        /\ Cardinality(Users(h)') = Cardinality(Users(h)) - (IF S!Leased(h) THEN 1 ELSE 0)
    <3>1. CASE s_job[h] = S!Off
      <4>1. s_job' = s_job /\ ~S!Leased(h)
        BY <1>1, <1>2, <1>3, <3>1 DEF ActorsTyped, S!Leased
      <4>2. \A g \in S!Slots : Users(g)' = Users(g)
        BY <4>1 DEF Users, S!Leased
      <4>3. Cardinality(Users(h)) \in Nat
        BY ActorsAreFinite DEF Users
      <4> QED
        BY <4>1, <4>2, <4>3
    <3>2. CASE s_job[h] # S!Off
      <4>1. At(h, h)
        BY <3>2 DEF At
      <4>2. Cardinality(Users(h)) \in Nat
        BY ActorsAreFinite DEF Users
      <4> HIDE DEF S!Off
      <4>3. /\ \A g \in S!Slots \ {h} : Users(g)' = Users(g)
            /\ Cardinality(Users(h)') = Cardinality(Users(h)) + 0 - (IF S!Leased(h) THEN 1 ELSE 0)
        BY <1>2, <1>3, <4>1, UsersMove
      <4> QED
        BY <4>2, <4>3
    <3> QED
      BY <3>1, <3>2
  <2>2. ASSUME NEW g \in S!Slots
        PROVE  /\ held'[g].leases = Cardinality(Users(g)')
               /\ held'[g].leases # 0 => held'[g].open
               /\ held'[g].retired /\ held'[g].leases = 0 => ~held'[g].open
    <3>1. CASE g = h
      <4>1. held[h].leases = Cardinality(Users(h))
        BY <1>1, SignInCounts DEF LeasesCounted
      <4> QED
        BY <1>4, <2>1, <3>1, <4>1, ZenonT(30)
    <3>2. CASE g # h
      BY <1>1, <1>4, <2>1, <3>2, SignInCounts DEF LeasesCounted
    <3> QED
      BY <3>1, <3>2
  <2> QED
    BY <2>2, SignInCounts DEF LeasesCounted
<1>11. S!TokensAreKept
  BY <1>4 DEF S!TokensAreKept
<1> QED
  BY <1>5, <1>6, <1>7, <1>8, <1>9, <1>10, <1>11 DEF SignInsInv

LEMMA PoppedStep ==
    ASSUME S!SignInsAssumption, SignInsInv, NEW h \in S!Slots, S!forget(h), saved' = saved, editing' \in BOOLEAN
    PROVE  SignInsInv' /\ S!TokensAreKept
<1> DEFINE c == S!Cancelled(h)
           r == S!Retire(c)
<1>1. /\ s_job' = [s_job EXCEPT ![h] = S!Off] /\ held' = [held EXCEPT ![h] = S!Tidy(h, r, s_job')]
      /\ current' = IF current = h THEN None ELSE current
  BY DEF S!forget
<1>2. RegistryTyped /\ ActorsTyped /\ held[h] \in Stands /\ held[h].leases \in Nat /\ h \in S!Actors /\ h # None
  <2>1. RegistryTyped /\ ActorsTyped
    BY DEF SignInsInv
  <2> QED
    BY <2>1, WhichActor DEF RegistryTyped, Stands
<1>3. /\ c \in Stands /\ c.leases = held[h].leases - (IF S!Leased(h) THEN 1 ELSE 0)
      /\ c.leases # 0 => c.open
      /\ c.stamp = held[h].stamp /\ c.token = held[h].token /\ (c.lock = held[h].lock \/ held[h].lock = h)
  <2>1. CASE S!Leased(h)
    <3>1. s_job[h] # S!Off /\ At(h, h)
      BY <1>2, <2>1, WhichRenewal DEF At, S!Off
    <3>2. held[h].leases # 0 /\ held[h].open /\ ~held[h].retired
      BY <1>2, <2>1, <3>1, LeaseIsCounted DEF SignInsInv, S!RetiredIsQuiet
    <3> DEFINE u == S!Unlocked(held[h], h)
    <3>3. /\ u \in Stands /\ u.lock = (IF held[h].lock = h THEN None ELSE held[h].lock)
          /\ u.stamp = held[h].stamp /\ u.retired = held[h].retired /\ u.open = held[h].open
          /\ u.token = held[h].token /\ u.leases = held[h].leases
      BY <1>2, UnlockedStands
    <3>4. c = S!Returned(u)
      BY <2>1 DEF S!Cancelled
    <3> HIDE DEF u, c
    <3>5. /\ S!Returned(u) \in Stands /\ S!Returned(u).leases = u.leases - 1
          /\ S!Returned(u).open <=> u.open /\ ~(u.retired /\ u.leases = 1)
          /\ S!Returned(u).stamp = u.stamp /\ S!Returned(u).lock = u.lock /\ S!Returned(u).token = u.token
      BY <3>2, <3>3, ReturnedStands
    <3> QED
      BY <1>2, <2>1, <3>2, <3>3, <3>4, <3>5
  <2>2. CASE ~S!Leased(h)
    <3>1. c = held[h]
      BY <2>2 DEF S!Cancelled
    <3>2. held[h].leases # 0 => held[h].open
      BY DEF SignInsInv, LeasesCounted
    <3> HIDE DEF c
    <3> QED
      BY <1>2, <2>2, <3>1, <3>2
  <2> QED
    BY <2>1, <2>2
<1> HIDE DEF c
<1>4. /\ r \in Stands /\ r.retired /\ r.leases = c.leases /\ (r.open <=> r.leases # 0)
      /\ r.stamp = c.stamp /\ r.token = c.token /\ r.lock = c.lock
  <2> DEFINE c1 == [c EXCEPT !.retired = TRUE]
             c2 == [c1 EXCEPT !.doomed = FALSE]
             o == c.leases > 0 /\ c.open
  <2>1. /\ c1 \in Stands /\ c1.retired /\ c1.leases = c.leases /\ c1.stamp = c.stamp /\ c1.token = c.token
        /\ c1.lock = c.lock
    BY <1>3 DEF Stands
  <2>2. r = [[c1 EXCEPT !.doomed = FALSE] EXCEPT !.open = c.leases > 0 /\ c.open]
    BY <1>3 DEF S!Retire, Stands
  <2> HIDE DEF c1, r
  <2>3. /\ c2 \in Stands /\ c2.retired /\ c2.leases = c.leases /\ c2.stamp = c.stamp /\ c2.token = c.token
        /\ c2.lock = c.lock
    BY <2>1 DEF Stands
  <2>4. r = [c2 EXCEPT !.open = o] /\ o \in BOOLEAN /\ (o <=> c.leases # 0)
    <3>1. c.leases \in Nat
      BY <1>3 DEF Stands
    <3> QED
      BY <1>3, <2>2, <3>1
  <2> HIDE DEF c2, o
  <2> QED
    BY <2>3, <2>4 DEF Stands
<1> HIDE DEF r
<1>5. current' \in {current, None} /\ current' # h
  BY <1>1, <1>2
<1>6. CASE held' = [held EXCEPT ![h] = r]
  BY <1>1, <1>3, <1>4, <1>5, <1>6, RetiredStep
<1>7. CASE held' # [held EXCEPT ![h] = r]
  <2>1. /\ held' = [held EXCEPT ![h] = S!Blank]
        /\ \A w \in Requesters : s_job'[w].at \notin {"off", "read"} => s_job'[w].slot # h
    BY <1>1, <1>7 DEF S!Tidy
  <2>2. s_job'[h] = S!Off /\ (At(h, h) \/ s_job[h] = S!Off)
    BY <1>1, <1>2 DEF ActorsTyped, At
  <2> QED
    BY <1>1, <1>2, <1>5, <2>1, <2>2, Blanked
<1> QED
  BY <1>6, <1>7


\* A sign-in is held for a row: the registered one, or a new one in a blank slot.
LEMMA HeldForSlots ==
    ASSUME S!SignInsAssumption, SignInsInv, NEW r \in S!Rows, NEW h \in S!Slots, S!held_for(r, h)
    PROVE  /\ held' \in [S!Slots -> Stands]
           /\ \A g \in S!Slots :
                               /\ held'[g].token = held[g].token /\ held'[g].lock = held[g].lock
                               /\ held'[g].open = held[g].open /\ held'[g].leases = held[g].leases
                               /\ g # h => held'[g].stamp = held[g].stamp /\ held'[g].retired = held[g].retired
           /\ held'[h].stamp # None
           /\ held'[h].retired => r.mode = "no_cache" /\ held[h].retired
           /\ current' \in S!Slots \cup {None} /\ CurrentIsKept'
<1>1. /\ RegistryTyped /\ CurrentIsKept /\ held \in [S!Slots -> Stands] /\ current \in S!Slots \cup {None}
  BY DEF SignInsInv, RegistryTyped
<1>2. S!stamp(r) # None /\ S!stamp(r) \in Stamps /\ None \notin S!Slots
  BY DEF S!SignInsAssumption, Stamps
<1>3. CASE r.mode # "no_cache" /\ current # None /\ held[current].stamp = S!stamp(r)
  <2>1. h = current /\ held' = held /\ current' = current
    BY <1>3 DEF S!held_for
  <2> QED
    BY <1>1, <1>2, <1>3, <2>1 DEF CurrentIsKept
<1>4. CASE ~(r.mode # "no_cache" /\ current # None /\ held[current].stamp = S!stamp(r))
  <2> DEFINE n == S!Built(r, r.mode = "no_cache")
             d(g) == [held[g] EXCEPT !.doomed = TRUE]
  <2>1. /\ held[h] = S!Blank
        /\ held' = [g \in S!Slots |-> IF g = h THEN n ELSE IF g = current THEN d(g) ELSE held[g]]
        /\ current' = IF r.mode = "no_cache" THEN None ELSE h
    BY <1>4 DEF S!held_for
  <2>2. /\ S!Blank.retired /\ S!Blank.token = 0 /\ S!Blank.leases = 0 /\ S!Blank.open = FALSE /\ S!Blank.stamp = None
        /\ S!Blank.lock = None
    BY DEF S!Blank, S!Built, S!stamp
  <2>3. /\ n \in Stands /\ n.token = 0 /\ n.leases = 0 /\ n.open = FALSE /\ n.lock = None /\ n.stamp = S!stamp(r)
        /\ n.retired <=> r.mode = "no_cache"
    BY <1>2 DEF S!Built, Stands
  <2>4. ASSUME NEW g \in S!Slots
        PROVE  /\ d(g) \in Stands /\ d(g).token = held[g].token /\ d(g).lock = held[g].lock
               /\ d(g).open = held[g].open /\ d(g).leases = held[g].leases
               /\ d(g).stamp = held[g].stamp /\ d(g).retired = held[g].retired
    <3>1. held[g] \in Stands
      BY <1>1
    <3> QED
      BY <3>1 DEF Stands
  <2> HIDE DEF n, d, S!Blank
  <2>5. ASSUME NEW g \in S!Slots
        PROVE  /\ held'[g] \in Stands /\ held'[g].token = held[g].token /\ held'[g].lock = held[g].lock
               /\ held'[g].open = held[g].open /\ held'[g].leases = held[g].leases
               /\ g # h => held'[g].stamp = held[g].stamp /\ held'[g].retired = held[g].retired
    <3>1. CASE g = h
      BY <2>1, <2>2, <2>3, <3>1
    <3>2. CASE g # h /\ g = current
      BY <2>1, <2>4, <3>2
    <3>3. CASE g # h /\ g # current
      BY <1>1, <2>1, <3>3
    <3> QED
      BY <3>1, <3>2, <3>3
  <2>6. held' \in [S!Slots -> Stands]
    BY <2>1, <2>5
  <2>7. held'[h] = n
    BY <2>1
  <2>8. current' \in S!Slots \cup {None} /\ CurrentIsKept'
    BY <1>2, <2>1, <2>3, <2>7 DEF CurrentIsKept
  <2> QED
    BY <1>2, <2>1, <2>2, <2>3, <2>5, <2>6, <2>7, <2>8
<1> QED
  BY <1>3, <1>4

LEMMA HeldForStep ==
    ASSUME S!SignInsAssumption, SignInsInv, NEW r \in S!Rows, NEW h \in S!Slots, S!held_for(r, h), UNCHANGED <<saved, editing>>,
           s_job' = [b \in S!Actors |-> s_job'[b]],
           \A b \in S!Actors :
               \/ s_job'[b] = s_job[b]
               \/ b = h /\ r.mode = "perpetual" /\ s_job[b] = S!Off /\ s_job'[b] = [at |-> "watching"]
               \/ b \in Requesters /\ s_job[b].at = "read" /\ s_job'[b] = [at |-> "built", slot |-> h]
    PROVE  SignInsInv' /\ S!TokensAreKept
<1>1. /\ RegistryTyped /\ ActorsTyped /\ CurrentIsKept /\ BlankIsFree /\ PostingIsNeeded /\ LeasesCounted
      /\ S!OneRequestPerSignIn /\ S!RetiredIsQuiet
  BY DEF SignInsInv
<1>2. /\ held' \in [S!Slots -> Stands]
      /\ \A g \in S!Slots :
                          /\ held'[g].token = held[g].token /\ held'[g].lock = held[g].lock
                          /\ held'[g].open = held[g].open /\ held'[g].leases = held[g].leases
                          /\ g # h => held'[g].stamp = held[g].stamp /\ held'[g].retired = held[g].retired
      /\ held'[h].stamp # None
      /\ held'[h].retired => r.mode = "no_cache" /\ held[h].retired
      /\ current' \in S!Slots \cup {None} /\ CurrentIsKept'
  BY HeldForSlots
<1>3. RegistryTyped'
  BY <1>1, <1>2 DEF RegistryTyped
<1>4. \A b \in S!Actors :
                        \/ s_job'[b] = s_job[b]
                        \/ /\ s_job[b].at \in {"off", "read"} /\ s_job'[b].at \in {"watching", "built"}
                           /\ s_job'[b].at = "built" => b \in Requesters /\ s_job'[b].slot = h
                           /\ s_job'[b].at = "watching" => b = h
  BY DEF S!Off
<1>5. ActorsTyped'
  <2>1. ASSUME NEW b \in S!Actors PROVE s_job'[b] \in JobsOf(b)
    <3>1. CASE s_job'[b] = s_job[b]
      BY <1>1, <3>1 DEF ActorsTyped
    <3>2. CASE b = h /\ s_job'[b] = [at |-> "watching"]
      BY <3>2 DEF JobsOf, RenewalsJobs
    <3>3. CASE b \in Requesters /\ s_job'[b] = [at |-> "built", slot |-> h]
      <4>1. b \notin S!Slots
        BY <1>1, <3>3, WhichActor
      <4> QED
        BY <3>3, <4>1 DEF JobsOf, WorkersJobs
    <3> QED
      BY <3>1, <3>2, <3>3
  <2> QED
    BY <2>1 DEF ActorsTyped
<1>6. BlankIsFree'
  <2>1. ASSUME NEW w \in Requesters, s_job'[w].at \notin {"off", "read"} PROVE held'[s_job'[w].slot].stamp # None
    <3>1. w \in S!Actors /\ w \notin S!Slots
      BY <1>1, WhichActor
    <3>2. CASE s_job'[w] = s_job[w]
      <4>1. s_job[w].slot \in S!Slots /\ held[s_job[w].slot].stamp # None
        BY <1>1, <2>1, <3>2, WhichWorker DEF BlankIsFree
      <4> QED
        BY <1>2, <3>2, <4>1
    <3>3. CASE s_job'[w] # s_job[w]
      <4>1. s_job'[w].slot = h
        BY <1>4, <3>1, <3>3
      <4> QED
        BY <1>2, <4>1
    <3> QED
      BY <3>2, <3>3
  <2>2. \A g \in S!Slots : held'[g].stamp = None => held'[g].retired /\ held'[g].token = 0
    BY <1>1, <1>2 DEF BlankIsFree
  <2> QED
    BY <2>1, <2>2 DEF BlankIsFree
<1>7. S!OneRequestPerSignIn' /\ PostingIsNeeded'
  <2>1. ASSUME NEW b \in S!Actors, s_job'[b].at = "posting" PROVE held'[s_job'[b].slot].lock = b /\ held'[s_job'[b].slot].token = 0
    <3>1. s_job'[b] = s_job[b] /\ s_job[b].slot \in S!Slots
      BY <1>1, <1>4, <2>1, WhereAt DEF LeasedAt
    <3> QED
      BY <1>1, <1>2, <2>1, <3>1 DEF S!OneRequestPerSignIn, PostingIsNeeded
  <2> QED
    BY <2>1 DEF S!OneRequestPerSignIn, PostingIsNeeded
<1>8. S!RetiredIsQuiet'
  <2>1. ASSUME NEW g \in S!Slots, held'[g].retired PROVE s_job'[g] = S!Off
    <3>1. held[g].retired /\ (g = h => r.mode = "no_cache") /\ g \in S!Actors /\ g \notin Requesters
      BY <1>1, <1>2, <2>1, WhichActor
    <3>2. s_job[g] = S!Off
      BY <1>1, <3>1 DEF S!RetiredIsQuiet
    <3> QED
      BY <3>1, <3>2
  <2> QED
    BY <2>1 DEF S!RetiredIsQuiet
<1>9. LeasesCounted'
  <2>1. ASSUME NEW g \in S!Slots PROVE Users(g)' = Users(g)
    <3>1. \A b \in S!Actors : b \in Users(g)' <=> b \in Users(g)
      BY <1>4 DEF Users, S!Leased
    <3>2. Users(g) \subseteq S!Actors /\ Users(g)' \subseteq S!Actors
      BY DEF Users
    <3> QED
      BY <3>1, <3>2
  <2> QED
    BY <1>1, <1>2, <2>1, SignInCounts DEF LeasesCounted
<1>10. S!TokensAreKept
  BY <1>2 DEF S!TokensAreKept
<1> QED
  BY <1>2, <1>3, <1>5, <1>6, <1>7, <1>8, <1>9, <1>10 DEF SignInsInv

LEMMA RowIsRow == ASSUME S!SignInsAssumption, SignInsInv PROVE S!row \in S!Rows
<1>1. Settings \in Seq(S!Rows) /\ saved \in DOMAIN Settings
  BY DEF S!SignInsAssumption, SignInsInv, RegistryTyped
<1>2. \A i \in DOMAIN Settings : Settings[i] \in S!Rows
  BY <1>1
<1> QED
  BY <1>1, <1>2 DEF S!row

\* The client of a run, and the tick.
LEMMA ClientStep == ASSUME S!SignInsAssumption, SignInsInv, NEW w \in Requesters, S!get_mdm_client(w) PROVE SignInsInv' /\ S!TokensAreKept
<1> DEFINE r == s_job[w].row
<1>1. s_job[w].at = "read" /\ r \in S!Rows /\ w \in S!Actors /\ w \notin S!Slots /\ UNCHANGED <<saved, editing>>
  BY WhichActor, WhichWorker DEF S!get_mdm_client, S!Others, SignInsInv
<1>2. PICK h \in S!Slots : S!held_for(r, h) /\ s_job' = [S!Renewing(s_job, r, h) EXCEPT ![w] = [at |-> "built", slot |-> h]]
  BY DEF S!get_mdm_client
<1>3. s_job = [a \in S!Actors |-> s_job[a]] /\ h \in S!Actors /\ h # w
  BY <1>1, WhichActor DEF SignInsInv, ActorsTyped
<1> DEFINE i == [at |-> "built", slot |-> h]
           v == [at |-> "watching"]
<1>4. S!Renewing(s_job, r, h) = s_job \/ (r.mode = "perpetual" /\ s_job[h] = S!Off /\ S!Renewing(s_job, r, h) = [s_job EXCEPT ![h] = v])
  BY DEF S!Renewing
<1>5. s_job' = [S!Renewing(s_job, r, h) EXCEPT ![w] = i]
  BY <1>2
<1> HIDE DEF i, v
<1>6. s_job' = [b \in S!Actors |-> s_job'[b]]
  BY <1>3, <1>4, <1>5
<1>7. \A b \in S!Actors :
                        \/ s_job'[b] = s_job[b]
                        \/ b = h /\ r.mode = "perpetual" /\ s_job[b] = S!Off /\ s_job'[b] = v
                        \/ b = w /\ s_job'[b] = i
  BY <1>1, <1>3, <1>4, <1>5
<1> QED
  BY <1>1, <1>2, <1>6, <1>7, HeldForStep DEF i, v

\* Nothing of the sign-ins moves.
LEMMA SavedStep ==
    ASSUME S!SignInsAssumption, SignInsInv, UNCHANGED <<held, current, s_job>>, saved' \in DOMAIN Settings, editing' \in BOOLEAN
    PROVE  SignInsInv' /\ S!TokensAreKept
<1>1. SignInsInv'
  BY ZenonT(30) DEF SignInsInv, RegistryTyped, ActorsTyped, CurrentIsKept, BlankIsFree, PostingIsNeeded, LeasesCounted, Users, S!Leased,
         S!OneRequestPerSignIn, S!RetiredIsQuiet
<1>2. S!TokensAreKept
  BY DEF S!TokensAreKept
<1> QED
  BY <1>1, <1>2

LEMMA TickStep ==
    ASSUME S!SignInsAssumption, SignInsInv, S!sign_in_tick \/ S!retire_absent \/ S!Forgets
    PROVE  SignInsInv' /\ S!TokensAreKept
<1>1. RegistryTyped /\ ActorsTyped
  BY DEF SignInsInv
<1>2. CASE UNCHANGED <<held, current, s_job>>
  <2>1. saved' = saved /\ editing' \in BOOLEAN
    BY <1>1 DEF S!sign_in_tick, S!retire_absent, S!Forgets, RegistryTyped
  <2> QED
    BY <1>1, <1>2, <2>1, SavedStep DEF RegistryTyped
<1>3. CASE current # None /\ S!forget(current) /\ (S!retire_absent \/ S!Forgets)
  <2>1. saved' = saved /\ editing' \in BOOLEAN /\ current \in S!Slots
    BY <1>1, <1>3 DEF S!retire_absent, S!Forgets, RegistryTyped
  <2> QED
    BY <1>3, <2>1, PoppedStep
<1>4. CASE S!sign_in_tick /\ S!row.active /\ S!row.mode = "perpetual"
  <2>1. PICK h \in S!Slots : S!held_for(S!row, h) /\ s_job' = S!Renewing(s_job, S!row, h)
    BY <1>4 DEF S!sign_in_tick
  <2>2. S!row \in S!Rows /\ UNCHANGED <<saved, editing>>
    BY <1>4, RowIsRow DEF S!sign_in_tick
  <2>3. h \in S!Actors /\ s_job = [a \in S!Actors |-> s_job[a]]
    BY <1>1, WhichActor DEF ActorsTyped
  <2> DEFINE v == [at |-> "watching"]
  <2>4. s_job' = s_job \/ (S!row.mode = "perpetual" /\ s_job[h] = S!Off /\ s_job' = [s_job EXCEPT ![h] = v])
    BY <2>1 DEF S!Renewing
  <2> HIDE DEF v
  <2>5. s_job' = [b \in S!Actors |-> s_job'[b]]
    BY <2>3, <2>4
  <2>6. \A b \in S!Actors :
                          \/ s_job'[b] = s_job[b]
                          \/ b = h /\ S!row.mode = "perpetual" /\ s_job[b] = S!Off /\ s_job'[b] = v
    BY <2>3, <2>4
  <2> QED
    BY <2>1, <2>2, <2>5, <2>6, HeldForStep DEF v
<1> QED
  BY <1>2, <1>3, <1>4 DEF S!sign_in_tick, S!retire_absent, S!Forgets

\* An actor moves that has no lease and takes none.
LEMMA IdleMoves ==
    ASSUME S!SignInsAssumption, SignInsInv, NEW a \in S!Actors, NEW j \in JobsOf(a), ~S!Leased(a), j.at \in {"off", "read", "watching", "failed"},
           a \in S!Slots => ~held[a].retired, held' = held, s_job' = [s_job EXCEPT ![a] = j], UNCHANGED <<saved, editing, current>>
    PROVE  SignInsInv' /\ S!TokensAreKept
<1>1. /\ RegistryTyped /\ ActorsTyped /\ CurrentIsKept /\ BlankIsFree /\ PostingIsNeeded /\ LeasesCounted
      /\ S!OneRequestPerSignIn /\ S!RetiredIsQuiet
  BY DEF SignInsInv
<1>2. s_job'[a] = j /\ \A b \in S!Actors \ {a} : s_job'[b] = s_job[b]
  BY <1>1 DEF ActorsTyped
<1>3. RegistryTyped' /\ ActorsTyped' /\ CurrentIsKept'
  BY <1>1, <1>2 DEF RegistryTyped, ActorsTyped, CurrentIsKept
<1>4. a \in Requesters => j.at \in {"off", "read"}
  BY <1>1, WhichActor DEF JobsOf, WorkersJobs, S!Off, Carries, Gets
<1>5. BlankIsFree'
  BY <1>1, <1>2, <1>4 DEF BlankIsFree, S!Actors
<1>6. S!OneRequestPerSignIn' /\ PostingIsNeeded'
  BY <1>1, <1>2 DEF S!OneRequestPerSignIn, PostingIsNeeded
<1>7. S!RetiredIsQuiet'
  BY <1>1, <1>2 DEF S!RetiredIsQuiet, S!Actors
<1>8. LeasesCounted'
  <2>1. ASSUME NEW g \in S!Slots PROVE Users(g)' = Users(g)
    <3>1. \A b \in S!Actors : b \in Users(g)' <=> b \in Users(g)
      BY <1>2 DEF Users, S!Leased
    <3>2. Users(g) \subseteq S!Actors /\ Users(g)' \subseteq S!Actors
      BY DEF Users
    <3> QED
      BY <3>1, <3>2
  <2> QED
    BY <1>1, <2>1, SignInCounts DEF LeasesCounted
<1>9. S!TokensAreKept
  BY DEF S!TokensAreKept
<1> QED
  BY <1>3, <1>5, <1>6, <1>7, <1>8, <1>9 DEF SignInsInv

LEMMA ReadStep == ASSUME S!SignInsAssumption, SignInsInv, NEW w \in Requesters, S!Read(w) PROVE SignInsInv' /\ S!TokensAreKept
<1> DEFINE j == [at |-> "read", row |-> S!row]
<1>1. s_job[w] = S!Off /\ s_job' = [s_job EXCEPT ![w] = j] /\ UNCHANGED <<saved, editing, held, current>>
  BY DEF S!Read, S!Goes, S!Others
<1>2. w \in S!Actors /\ w \notin S!Slots /\ ~S!Leased(w)
  BY <1>1, WhichActor DEF SignInsInv, S!Leased, S!Off
<1>3. j \in JobsOf(w) /\ j.at = "read"
  BY <1>2, RowIsRow DEF JobsOf, WorkersJobs
<1> HIDE DEF j
<1> QED
  BY <1>1, <1>2, <1>3, IdleMoves

\* The renewal of a slot whose token is to be renewed, or is not, or was not.
LEMMA RenewStep == ASSUME S!SignInsAssumption, SignInsInv, NEW h \in S!Slots, S!Renew(h) \/ S!Again(h) PROVE SignInsInv' /\ S!TokensAreKept
<1>1. /\ s_job[h].at \in {"watching", "failed"} /\ UNCHANGED <<saved, editing, current>>
  BY DEF S!Renew, S!Again, S!Others
<1>2. ActorsTyped /\ h \in S!Actors /\ h \notin Requesters /\ s_job[h] # S!Off /\ ~S!Leased(h) /\ ~held[h].retired
  BY <1>1, WhichActor, WhichRenewal DEF SignInsInv, S!RetiredIsQuiet
<1>3. CASE held' = held /\ \E j \in {S!Off, [at |-> "watching"]} : s_job' = [s_job EXCEPT ![h] = j]
  <2>1. PICK j \in {S!Off, [at |-> "watching"]} : s_job' = [s_job EXCEPT ![h] = j]
    BY <1>3
  <2>2. j \in JobsOf(h) /\ j.at \in {"off", "watching"}
    BY DEF JobsOf, RenewalsJobs, S!Off
  <2> QED
    BY <1>1, <1>2, <1>3, <2>1, <2>2, IdleMoves
<1>4. CASE ~S!Live(held[h]) /\ S!_authenticate(h, [slot |-> h, again |-> FALSE, tries |-> 0], S!Lent(held[h]))
  <2> DEFINE j == [slot |-> h, again |-> FALSE, tries |-> 0]
             s == S!Lent(held[h])
  <2>1. held[h] \in Stands
    BY DEF SignInsInv, RegistryTyped
  <2>2. /\ s \in Stands /\ s.leases = held[h].leases + 1 /\ s.open
        /\ s.stamp = held[h].stamp /\ s.retired = held[h].retired /\ s.lock = held[h].lock /\ s.token = held[h].token
    BY <2>1, LentStands
  <2>3. Calls(h, j) /\ S!_authenticate(h, j, s)
    BY <1>4 DEF Calls
  <2> HIDE DEF j, s
  <2>4. Works_At(h, h) /\ Fit(h, h, s)
    BY <1>2, <2>2 DEF Works_At, At, Fit
  <2> QED
    BY <1>1, <1>2, <2>2, <2>3, <2>4, AuthenticateStep
<1> QED
  BY <1>3, <1>4 DEF S!Renew, S!Again, S!Goes

\* The token enters its margin; the cooldown is over.
LEMMA TimeStep == ASSUME S!SignInsAssumption, SignInsInv, NEW h \in S!Slots, S!Due(h) \/ S!Cooled(h) PROVE SignInsInv' /\ S!TokensAreKept
<1>1. /\ RegistryTyped /\ ActorsTyped /\ CurrentIsKept /\ BlankIsFree /\ PostingIsNeeded /\ LeasesCounted
      /\ S!OneRequestPerSignIn /\ S!RetiredIsQuiet /\ held[h] \in Stands
  BY DEF SignInsInv, RegistryTyped
<1>2. UNCHANGED <<saved, editing, current, s_job>>
  BY DEF S!Due, S!Cooled, S!Others
<1>3. \E s \in Stands : /\ held' = [held EXCEPT ![h] = s]
                        /\ s.stamp = held[h].stamp /\ s.lock = held[h].lock /\ s.open = held[h].open
                        /\ s.leases = held[h].leases /\ s.retired = held[h].retired /\ s.token \in {0, held[h].token}
  <2>1. CASE S!Due(h)
    <3> DEFINE s == [held[h] EXCEPT !.token = 0]
    <3>1. /\ s \in Stands /\ s.stamp = held[h].stamp /\ s.lock = held[h].lock /\ s.open = held[h].open
          /\ s.leases = held[h].leases /\ s.retired = held[h].retired /\ s.token \in {0, held[h].token}
      BY <1>1 DEF Stands
    <3>2. held' = [held EXCEPT ![h] = s]
      BY <2>1 DEF S!Due
    <3> QED
      BY <3>1, <3>2
  <2>2. CASE S!Cooled(h)
    <3> DEFINE s == [held[h] EXCEPT !.cool = FALSE]
    <3>1. /\ s \in Stands /\ s.stamp = held[h].stamp /\ s.lock = held[h].lock /\ s.open = held[h].open
          /\ s.leases = held[h].leases /\ s.retired = held[h].retired /\ s.token \in {0, held[h].token}
      BY <1>1 DEF Stands
    <3>2. held' = [held EXCEPT ![h] = s]
      BY <2>2 DEF S!Cooled
    <3> QED
      BY <3>1, <3>2
  <2> QED
    BY <2>1, <2>2
<1>4. PICK s \in Stands : /\ held' = [held EXCEPT ![h] = s]
                          /\ s.stamp = held[h].stamp /\ s.lock = held[h].lock /\ s.open = held[h].open
                          /\ s.leases = held[h].leases /\ s.retired = held[h].retired /\ s.token \in {0, held[h].token}
  BY <1>3
<1>5. \A g \in S!Slots :
                       /\ held'[g].stamp = held[g].stamp /\ held'[g].lock = held[g].lock /\ held'[g].open = held[g].open
                       /\ held'[g].leases = held[g].leases /\ held'[g].retired = held[g].retired
                       /\ held'[g].token \in {0, held[g].token}
  BY <1>1, <1>4 DEF RegistryTyped
<1>6. RegistryTyped' /\ ActorsTyped'
  BY <1>1, <1>2, <1>4 DEF RegistryTyped, ActorsTyped
<1>7. CurrentIsKept' /\ S!RetiredIsQuiet'
  BY <1>1, <1>2, <1>5 DEF CurrentIsKept, S!RetiredIsQuiet, RegistryTyped
<1>8. BlankIsFree'
  <2>1. \A w \in Requesters : s_job[w].at \notin {"off", "read"} => s_job[w].slot \in S!Slots
    BY <1>1, WhichWorker
  <2> QED
    BY <1>1, <1>2, <1>5, <2>1 DEF BlankIsFree
<1>9. S!OneRequestPerSignIn' /\ PostingIsNeeded'
  <2>1. \A a \in S!Actors : s_job[a].at = "posting" => s_job[a].slot \in S!Slots
    BY <1>1, WhereAt DEF LeasedAt
  <2> QED
    BY <1>1, <1>2, <1>5, <2>1 DEF S!OneRequestPerSignIn, PostingIsNeeded
<1>10. LeasesCounted'
  <2>1. \A g \in S!Slots : Users(g)' = Users(g)
    BY <1>2 DEF Users, S!Leased
  <2> QED
    BY <1>1, <1>5, <2>1, SignInCounts DEF LeasesCounted
<1>11. S!TokensAreKept
  BY <1>2, <1>5 DEF S!TokensAreKept
<1> QED
  BY <1>6, <1>7, <1>8, <1>9, <1>10, <1>11 DEF SignInsInv

\* What the run checks follows.
LEMMA SignInsHold == ASSUME S!SignInsAssumption, SignInsInv PROVE S!SignInsSound
<1>1. RegistryTyped /\ ActorsTyped /\ LeasesCounted /\ S!OneRequestPerSignIn /\ S!RetiredIsQuiet
  BY DEF SignInsInv
<1>2. \A h \in S!Slots :
                       /\ IsFiniteSet(Users(h)) /\ Cardinality(Users(h)) \in Nat
                       /\ Cardinality(Users(h)) <= Cardinality(S!Actors) /\ Cardinality(S!Actors) \in Nat
  BY ActorsAreFinite DEF Users
<1>3. \A h \in S!Slots : held[h].leases = Cardinality(Users(h))
  BY <1>1, SignInCounts DEF LeasesCounted
<1>4. S!TypeOK
  <2>1. \A h \in S!Slots : held[h].token \in S!Tokens \cup {0}
    BY <1>1 DEF RegistryTyped, Stands
  <2>2. \A h \in S!Slots : held[h].leases \in 0 .. Cardinality(S!Actors)
    BY <1>2, <1>3
  <2>3. ASSUME NEW a \in S!Actors
        PROVE  s_job[a].at \in {"off", "read", "built", "leased", "waiting", "posting", "getting", "backoff", "watching", "failed"}
    <3>1. CASE a \in S!Slots
      BY <1>1, <3>1, WhichRenewal
    <3>2. CASE a \notin S!Slots
      <4>1. a \in Requesters
        BY <1>1, <3>2, WhichActor
      <4> QED
        BY <1>1, <4>1, WhichWorker
    <3> QED
      BY <3>1, <3>2
  <2> QED
    BY <1>1, <2>1, <2>2, <2>3, SignInCounts DEF S!TypeOK, RegistryTyped
<1>5. S!PoolsAreLent
  <2>1. ASSUME NEW h \in S!Slots
        PROVE  /\ held[h].leases = Cardinality(Users(h))
               /\ Users(h) # {} => held[h].open
               /\ held[h].retired /\ Users(h) = {} => ~held[h].open
    <3>1. Cardinality(Users(h)) = 0 <=> Users(h) = {}
      BY <1>2, FS_EmptySet
    <3> QED
      BY <1>1, <1>3, <3>1 DEF LeasesCounted
  <2> QED
    BY <2>1, SignInCounts DEF S!PoolsAreLent, Users
<1> QED
  BY <1>1, <1>4, <1>5 DEF S!SignInsSound

\* Every step keeps the invariant, and loses no token but as LiveTokenIsKept allows.
LEMMA SignInsStep == ASSUME S!SignInsAssumption, SignInsInv, [S!Next]_(S!vars) PROVE SignInsInv' /\ S!TokensAreKept
<1>1. CASE UNCHANGED S!vars
  BY <1>1, SavedStep DEF S!vars, SignInsInv, RegistryTyped
<1>2. ASSUME NEW w \in Requesters, S!Works(w) PROVE SignInsInv' /\ S!TokensAreKept
  BY <1>2, ReadStep, ClientStep, ReleaseStep, RequestStep, AnswerStep DEF S!Works
<1>3. ASSUME NEW a \in S!Actors, S!Signs(a) PROVE SignInsInv' /\ S!TokensAreKept
  BY <1>3, LockedStep, IssuedStep, NotIssuedStep DEF S!Signs
<1>4. ASSUME NEW h \in S!Slots, S!RetireSoon(h) \/ S!Renew(h) \/ S!Again(h) \/ S!Due(h) \/ S!Cooled(h) PROVE SignInsInv' /\ S!TokensAreKept
  <2>1. CASE S!RetireSoon(h)
    <3>1. S!forget(h) /\ saved' = saved /\ editing' \in BOOLEAN
      BY <2>1 DEF S!RetireSoon, SignInsInv, RegistryTyped
    <3> QED
      BY <3>1, PoppedStep
  <2> QED
    BY <1>4, <2>1, RenewStep, TimeStep
<1>5. CASE S!update_connection \/ S!delete_connection
  <2>1. UNCHANGED <<held, current, s_job>> /\ editing' \in BOOLEAN
    BY <1>5 DEF S!update_connection, S!delete_connection
  <2>2. saved' \in DOMAIN Settings
    <3>1. saved' = saved + 1 /\ saved < Len(Settings) /\ saved \in DOMAIN Settings
      BY <1>5 DEF S!update_connection, S!delete_connection, SignInsInv, RegistryTyped
    <3>2. Settings \in Seq(S!Rows)
      BY DEF S!SignInsAssumption
    <3> QED
      BY <3>1, <3>2
  <2> QED
    BY <2>1, <2>2, SavedStep
<1> QED
  BY <1>1, <1>2, <1>3, <1>4, <1>5, TickStep DEF S!Next

\* What a step of the composition is for the sign-ins.
LEMMA SignInsAlone == [Next]_vars => [S!Next]_(S!vars)
  BY DEF Next, vars, sign_ins, S!vars

\* One token request of a Jamf sign-in is in flight at a time, its pool is open while a run has a
\* lease and closed once it is retired and nobody has, nothing renews a retired one, and a live
\* token is lost to nothing but its deadline and a 401 to a request made with it
\* (mdm/jamf/sign_in.py).
THEOREM SignInsAreKept == Spec => SignInsStand
<1>1. Init => SignInsInv
  BY ServicesAssumption, SignInsInit DEF Init
<1>2. SignInsInv /\ [Next]_vars => SignInsInv' /\ [S!TokensAreKept]_(S!vars)
  BY ServicesAssumption, SignInsAlone, SignInsStep
<1>3. SignInsInv => S!SignInsSound
  BY ServicesAssumption, SignInsHold
<1>4. Spec => []S!SignInsSound
  BY <1>1, <1>2, <1>3, PTL DEF Spec
<1>5. Spec => S!LiveTokenIsKept
  BY <1>1, <1>2, PTL DEF Spec, S!LiveTokenIsKept
<1> QED
  BY <1>4, <1>5, PTL DEF SignInsStand
=============================================================================
