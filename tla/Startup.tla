------------------------------ MODULE Startup ------------------------------
(***************************************************************************)
(* How a process comes up: main.lifespan, core/database.init_db and          *)
(* core/bootstrap.  Every process of the deployment runs the whole of it     *)
(* against one database: it waits for the migration lock, migrates the       *)
(* schema to the revision its image carries (or, where a newer image has     *)
(* been there, starts without migrating if the stamp that image left says    *)
(* its release can read the schema), makes the two tenants, decides how the  *)
(* first administrator is made, and turns SIEM_WEBHOOK_URL into a            *)
(* destination.  Only the migration is under a lock.                         *)
(*                                                                          *)
(* An image is a release: a number, which is also the revision its           *)
(* migrations lead to.  Min[n] is the oldest release that reads revision n   *)
(* (schema_release), 0 where no migration up to n stamped one.               *)
(***************************************************************************)
EXTENDS Naturals, FiniteSets

CONSTANTS
    Procs,       \* processes
    Images,      \* the releases that may be deployed
    Min,         \* [0 .. newest -> release]
    Webhook,     \* SIEM_WEBHOOK_URL is set
    EnvAdmin,    \* processes with INITIAL_ADMIN_EMAIL and its password set
    MaxCrashes,  \* bound: processes killed
    MaxDeploys,  \* bound: images replaced
    MaxEdits,    \* bound: destinations an operator creates or deletes
    None

StartupAssumption ==
    /\ IsFiniteSet(Procs) /\ None \notin Procs
    /\ Images \subseteq Nat \ {0} /\ Images # {}
    /\ \A n \in Images \cup {0} : n \in DOMAIN Min /\ Min[n] \in Nat
    /\ Webhook \in BOOLEAN /\ EnvAdmin \subseteq Procs
    /\ {MaxCrashes, MaxDeploys, MaxEdits} \subseteq Nat

VARIABLES
    pc,        \* where the lifespan of every process is
    image,     \* the image every process runs
    schema,    \* alembic_version
    lock,      \* the holder of MIGRATION_LOCK_KEY, or None
    tenants,   \* the two tenants exist
    accounts,  \* accounts: "env", or the process the setup page was answered by
    token,     \* _claim_token of every process
    siem,      \* destinations: how many rows came from SIEM_WEBHOOK_URL
    others,    \* destinations an operator made are there
    operator,  \* an operator has created or deleted a destination
    crashes, deploys, edits

vars == <<pc, image, schema, lock, tenants, accounts, token, siem, others, operator, crashes, deploys, edits>>
rows == <<tenants, accounts, siem, others>>
bounds == <<crashes, deploys, edits>>

Booting == {"lock", "migrate", "unlock", "refuse", "tenants", "insert", "count", "admin", "look", "add"}

TypeOK ==
    /\ pc \in [Procs -> {"down", "up", "failed"} \cup Booting \cup {"claim"}]
    /\ image \in [Procs -> Images]
    /\ schema \in {0} \cup Images
    /\ lock \in Procs \cup {None}
    /\ tenants \in BOOLEAN
    /\ accounts \in [Procs \cup {"env"} -> BOOLEAN]
    /\ token \in [Procs -> BOOLEAN]
    /\ siem \in Nat /\ others \in BOOLEAN /\ operator \in BOOLEAN

Init ==
    /\ pc = [p \in Procs |-> "down"]
    /\ image \in [Procs -> Images]
    /\ schema = 0 /\ lock = None
    /\ tenants = FALSE
    /\ accounts = [a \in Procs \cup {"env"} |-> FALSE]
    /\ token = [p \in Procs |-> FALSE]
    /\ siem = 0 /\ others = FALSE /\ operator = FALSE
    /\ crashes = 0 /\ deploys = 0 /\ edits = 0

account_count == Cardinality({a \in DOMAIN accounts : accounts[a]})

To(p, place) == pc' = [pc EXCEPT ![p] = place]

\* The container starts: nothing of the last process is left.
Boot(p) ==
    /\ pc[p] \in {"down", "failed"}
    /\ To(p, "lock")
    /\ token' = [token EXCEPT ![p] = FALSE]
    /\ UNCHANGED <<image, schema, lock, rows, operator, bounds>>

\* pg_try_advisory_lock, and else pg_advisory_lock.
TakeLock(p) ==
    /\ pc[p] = "lock" /\ lock = None
    /\ lock' = p /\ To(p, "migrate")
    /\ UNCHANGED <<image, schema, rows, token, operator, bounds>>

\* The stamp is read from the database, and is at or below this release.
_starts_on_a_newer_schema(p) == Min[schema] # 0 /\ image[p] >= Min[schema]

\* The schema stepped down to what the image carries.
_run_migrations_Down(p) ==
    /\ pc[p] = "migrate"
    /\ schema' = image[p] /\ To(p, "unlock")
    /\ UNCHANGED <<image, lock, rows, token, operator, bounds>>

\* One transaction for all the revisions there are between.
_run_migrations(p) ==
    /\ pc[p] = "migrate"
    /\ IF schema <= image[p]
         THEN schema' = image[p] /\ To(p, "unlock")
         ELSE /\ UNCHANGED schema
              /\ To(p, IF _starts_on_a_newer_schema(p) THEN "unlock" ELSE "refuse")
    /\ UNCHANGED <<image, lock, rows, token, operator, bounds>>

\* finally: the lock is given back on every way out.
Unlock(p) ==
    /\ pc[p] \in {"unlock", "refuse"}
    /\ lock' = None
    /\ To(p, IF pc[p] = "unlock" THEN "tenants" ELSE "failed")
    /\ UNCHANGED <<image, schema, rows, token, operator, bounds>>

init_db(p) == TakeLock(p) \/ _run_migrations(p) \/ Unlock(p)

\* bootstrap_tenants: what exists is read, and what was missing is inserted under
\* its own id, so that a process that was second fails.
ReadTenants(p) ==
    /\ pc[p] = "tenants"
    /\ To(p, IF tenants THEN "count" ELSE "insert")
    /\ UNCHANGED <<image, schema, lock, rows, token, operator, bounds>>

InsertTenants(p) ==
    /\ pc[p] = "insert"
    /\ IF tenants
         THEN To(p, "failed") /\ UNCHANGED tenants
         ELSE To(p, "count") /\ tenants' = TRUE
    /\ UNCHANGED <<image, schema, lock, accounts, siem, others, token, operator, bounds>>

bootstrap_tenants(p) == ReadTenants(p) \/ InsertTenants(p)

\* bootstrap_accounts: with no account, one from the environment or a claim token.
CountAccounts(p) ==
    /\ pc[p] = "count"
    /\ IF account_count > 0 \/ p \notin EnvAdmin
         THEN token' = [token EXCEPT ![p] = account_count = 0] /\ To(p, "look")
         ELSE To(p, "admin") /\ UNCHANGED token
    /\ UNCHANGED <<image, schema, lock, rows, operator, bounds>>

\* create_account: the address of an account is unique.
CreateEnvAdmin(p) ==
    /\ pc[p] = "admin"
    /\ IF accounts["env"]
         THEN To(p, "failed") /\ UNCHANGED accounts
         ELSE To(p, "look") /\ accounts' = [accounts EXCEPT !["env"] = TRUE]
    /\ UNCHANGED <<image, schema, lock, tenants, siem, others, token, operator, bounds>>

bootstrap_accounts(p) == CountAccounts(p) \/ CreateEnvAdmin(p)

\* migrate_legacy_siem_webhook: a row is added where the count found none.
CountDestinations(p) ==
    /\ pc[p] = "look"
    /\ To(p, IF Webhook /\ siem = 0 /\ ~others THEN "add" ELSE "up")
    /\ UNCHANGED <<image, schema, lock, rows, token, operator, bounds>>

AddDestination(p) ==
    /\ pc[p] = "add"
    /\ siem' = siem + 1 /\ To(p, "up")
    /\ UNCHANGED <<image, schema, lock, tenants, accounts, others, token, operator, bounds>>

migrate_legacy_siem_webhook(p) == CountDestinations(p) \/ AddDestination(p)

\* api/auth.setup: the count, then the token of the process that was asked, and the
\* account committed after them; the token is dropped once it has been.
Claim(p) ==
    /\ pc[p] = "up" /\ account_count = 0 /\ token[p]
    /\ To(p, "claim")
    /\ UNCHANGED <<image, schema, lock, rows, token, operator, bounds>>

setup(p) ==
    /\ pc[p] = "claim"
    /\ accounts' = [accounts EXCEPT ![p] = TRUE]
    /\ token' = [token EXCEPT ![p] = FALSE]
    /\ To(p, "up")
    /\ UNCHANGED <<image, schema, lock, tenants, siem, others, operator, bounds>>

\* Consumed as soon as it matched.
SetupFails_Consumed(p) ==
    /\ pc[p] = "claim" /\ crashes < MaxCrashes /\ crashes' = crashes + 1
    /\ To(p, "up") /\ token' = [token EXCEPT ![p] = FALSE]
    /\ UNCHANGED <<image, schema, lock, rows, operator, deploys, edits>>

\* The request fails between the two: the token is there for the next one.
SetupFails(p) ==
    /\ pc[p] = "claim" /\ crashes < MaxCrashes /\ crashes' = crashes + 1
    /\ To(p, "up")
    /\ UNCHANGED <<image, schema, lock, rows, token, operator, deploys, edits>>

\* Destinations are made and deleted for good by hand.
Edit(p) ==
    /\ pc[p] = "up" /\ edits < MaxEdits /\ edits' = edits + 1
    /\ \/ siem > 0 /\ siem' = 0 /\ UNCHANGED others
       \/ others' = ~others /\ UNCHANGED siem
    /\ operator' = TRUE
    /\ UNCHANGED <<pc, image, schema, lock, tenants, accounts, token, crashes, deploys>>

\* A process dies at any point, and its connections with it.
Crash(p) ==
    /\ crashes < MaxCrashes /\ crashes' = crashes + 1
    /\ pc[p] \in Booting \cup {"up", "claim"}
    /\ To(p, "down")
    /\ token' = [token EXCEPT ![p] = FALSE]
    /\ lock' = IF lock = p THEN None ELSE lock
    /\ UNCHANGED <<image, schema, rows, operator, deploys, edits>>

Deploy(p) ==
    /\ deploys < MaxDeploys /\ deploys' = deploys + 1
    /\ pc[p] \in {"down", "failed", "up"}
    /\ \E n \in Images \ {image[p]} : image' = [image EXCEPT ![p] = n]
    /\ To(p, "down")
    /\ token' = [token EXCEPT ![p] = FALSE]
    /\ UNCHANGED <<schema, lock, rows, operator, crashes, edits>>

lifespan(p) ==
    Boot(p) \/ init_db(p) \/ bootstrap_tenants(p) \/ bootstrap_accounts(p) \/ migrate_legacy_siem_webhook(p)

Next == \E p \in Procs :
    \/ lifespan(p) \/ Claim(p) \/ setup(p) \/ SetupFails(p)
    \/ Edit(p) \/ Crash(p) \/ Deploy(p)

Spec == Init /\ [][Next]_vars

\* The container is started again whenever it stops, and nothing in a lifespan
\* waits for more than the lock.
Fairness == \A p \in Procs : SF_vars(TakeLock(p)) /\ WF_vars(lifespan(p)) /\ WF_vars(setup(p))
FairSpec == Spec /\ Fairness

-----------------------------------------------------------------------------
(* One process migrates at a time, no process goes on to the tenants on a     *)
(* schema it cannot read, and an instance without an account always offers a  *)
(* claim where it is up, whatever failed on the way.                          *)
MigrationsInTurn ==
    \A p \in Procs : pc[p] \in {"migrate", "unlock", "refuse"} => lock = p

ReadableAtStart ==
    \A p \in Procs : pc[p] = "unlock" =>
        schema = image[p] \/ (Min[schema] # 0 /\ Min[schema] <= image[p] /\ image[p] < schema)

ClaimIsOpen ==
    \A p \in Procs : pc[p] \in {"up", "claim"} /\ account_count = 0 => token[p]

StartupSound == TypeOK /\ MigrationsInTurn /\ ReadableAtStart /\ ClaimIsOpen

(* The schema never goes back, whichever image starts after which.            *)
ForwardOnly == [][schema' >= schema]_vars

(* A process whose image can read the schema comes up in the end, however     *)
(* many were started with it and whichever of them lost the race for the      *)
(* tenants or the first account.                                              *)
Readable(p) == schema <= image[p] \/ (Min[schema] # 0 /\ Min[schema] <= image[p])
ComesUp == \A p \in Procs : []<>(pc[p] = "up" \/ ~Readable(p))

(* migrate_legacy_siem_webhook says it can never resurrect or duplicate what  *)
(* an operator has since changed.                                             *)
NeverResurrects == [][operator => siem' <= siem]_vars
=============================================================================
