---------------------------- MODULE Deployment ----------------------------
(***************************************************************************)
(* The containers of docker-compose.prod.yml: api and worker each run the  *)
(* migrations and then their service, and are restarted when that ends.    *)
(* The worker's service is WorkerLoop, the api's the webhook and the debug *)
(* request that calls process_once.  A restart of the running api is only  *)
(* a pause of both, which may pause anyway, and is left out.               *)
(***************************************************************************)
EXTENDS WorkerLoop

CONSTANTS
    Files,      \* number of migration files
    Statements, \* number of statements of each
    Locks       \* the locks of each on tables

ASSUME SchemaAssumption ==
    /\ Files \in Nat
    /\ Statements \in [1..Files -> Nat \ {0}]

ASSUME LocksAssumption ==
    \A f \in 1..Files : \A i \in 1..Statements[f] : \A l \in Locks[<<f, i>>] :
        l[2] \in {"share", "exclusive"}

Containers == {"api", "worker"}

VARIABLES
    stage, file, statement, existing, created, recorded, blocked,
    objects, versions

Schema == INSTANCE Migrations

schema == <<stage, file, statement, existing, created, recorded, blocked,
            objects, versions>>
deployment == <<vars, schema>>

DeploymentInit == Init /\ Schema!Init

---------------------------------------------------------------------------

MigrateContainer(c) == Schema!Migrate(c) /\ UNCHANGED vars

\* Mutant: the worker starts beside its migrations (";" or "&" instead of "&&")
StartWorker_Beside == Start /\ UNCHANGED schema

\* python -m app.database.migrate && python -m app.workers.message_worker
StartWorker == stage["worker"] = "up" /\ Start /\ UNCHANGED schema

RunWorker == Process /\ UNCHANGED schema

\* the process returns from run_forever: the container has ended
WorkerExits == Exit /\ Schema!Rollback("worker")

\* the container dies while it migrates ...
DieMigrating(c) ==
    /\ stage[c] # "up"
    /\ Schema!Die(c)
    /\ Upset
    /\ UNCHANGED <<mode, pc, left, timer, backoff, connection, shutdown, queue, age, stopping,
                   errors>>

\* ... or while its service runs
KillWorker == Kill /\ stage["worker"] = "up" /\ Schema!Rollback("worker")

ServeRequest == stage["api"] = "up" /\ Api /\ UNCHANGED schema

Around == (Surroundings \/ Tick) /\ UNCHANGED schema

DeploymentNext ==
    \/ \E c \in Containers : MigrateContainer(c) \/ DieMigrating(c)
    \/ StartWorker \/ RunWorker \/ WorkerExits \/ KillWorker
    \/ ServeRequest \/ Around

DeploymentSpec == DeploymentInit /\ [][DeploymentNext]_deployment

\* restart: unless-stopped; a started process takes its steps; time passes
FairDeployment ==
    /\ DeploymentSpec
    /\ \A c \in Containers : WF_deployment(MigrateContainer(c))
    /\ WF_deployment(StartWorker)
    /\ WF_deployment(RunWorker \/ WorkerExits)
    /\ WF_deployment(Tick /\ UNCHANGED schema)

---------------------------------------------------------------------------

\* process_once never runs on a schema that lacks a table or a column: the
\* worker starts after its own runner, or the api's, has committed them all,
\* whoever of the two dies on the way.
DrainsOnFullSchema ==
    pc # "down" => objects = Schema!Objects /\ versions = 1..Files

\* Of all runs, however they race, one reports a file as applied.
ReportedOnce == Schema!ReportedOnce

\* The two runners never wait for one another.
NoCrosswiseWait == Schema!NoCrosswiseWait

===========================================================================
