---------------------------- MODULE Migrations ----------------------------
(***************************************************************************)
(* run_migrations of migrate.py, which docker-compose.prod.yml runs at the *)
(* start of both the api and the worker container, so that two runners may *)
(* be at work on one database.  A run is one transaction: PostgreSQL rolls *)
(* back DDL, too.                                                          *)
(*                                                                         *)
(* A statement makes something, an object or what ALTER TABLE and UPDATE   *)
(* change, unless it is there.  CREATE ... IF NOT EXISTS waits for another *)
(* open transaction that has created the same, and then either skips or    *)
(* fails (the catalogue's unique index does).  ALTER TABLE locks the table *)
(* against all others (the one UPDATE comes after an ALTER of its table),  *)
(* CREATE INDEX against those, both until the transaction ends and whether *)
(* or not there is anything to make.                                       *)
(*                                                                         *)
(* At first the database is empty, or the postgres container has run the   *)
(* same files when it made it (docker-entrypoint-initdb.d), without        *)
(* recording them, or an earlier release has applied the first files.      *)
(***************************************************************************)
EXTENDS Naturals

CONSTANTS
    Containers,     \* containers that run the migrations when they start
    Files,          \* number of migration files, applied in the order of their names
    Statements,     \* number of statements of each file
    Locks           \* pairs of a table and "exclusive" or "share" that each locks

VARIABLES
    stage,      \* where each container is: migrating, or "up"
    file,       \* the file its runner has come to
    statement,  \* ... and the statement in it
    existing,   \* the versions its runner has read
    created,    \* objects its open transaction has created
    recorded,   \* versions its open transaction has inserted
    blocked,    \* its statement waits for another transaction
    objects,    \* committed objects
    versions    \* committed rows of schema_migrations

runner == <<stage, file, statement, existing, created, recorded, blocked>>
database == <<objects, versions>>
vars == <<runner, database>>

Table == <<0, 0>>       \* schema_migrations
ObjectsOf(f) == {<<f, i>> : i \in 1..Statements[f]}
FileObjects == UNION {ObjectsOf(f) : f \in 1..Files}
Objects == FileObjects \cup {Table}

TypeOK ==
    /\ stage \in [Containers -> {"down", "table", "read", "execute", "record", "commit", "up"}]
    /\ file \in [Containers -> 1..Files + 1]
    /\ statement \in [Containers -> Nat \ {0}]
    /\ existing \in [Containers -> SUBSET (1..Files)]
    /\ created \in [Containers -> SUBSET Objects]
    /\ recorded \in [Containers -> SUBSET (1..Files)]
    /\ blocked \in [Containers -> BOOLEAN]
    /\ objects \subseteq Objects
    /\ versions \subseteq 1..Files

Init ==
    /\ stage = [c \in Containers |-> "down"]
    /\ file = [c \in Containers |-> 1]
    /\ statement = [c \in Containers |-> 1]
    /\ existing = [c \in Containers |-> {}]
    /\ created = [c \in Containers |-> {}]
    /\ recorded = [c \in Containers |-> {}]
    /\ blocked = [c \in Containers |-> FALSE]
    /\ \/ objects \in {{}, FileObjects} /\ versions = {}
       \/ \E f \in 1..Files :
            objects = {Table} \cup UNION {ObjectsOf(g) : g \in 1..f} /\ versions = 1..f

---------------------------------------------------------------------------
(* A statement in an open transaction. *)

Go(c, to) == stage' = [stage EXCEPT ![c] = to]

\* the statements its transaction has executed, <<f, i>> the i-th of file f
Executed(c) ==
    {o \in FileObjects :
        /\ stage[c] \in {"execute", "record", "commit"}
        /\ o[1] \notin existing[c]
        /\ \/ o[1] < file[c]
           \/ o[1] = file[c] /\ (stage[c] = "record" \/ o[2] < statement[c])}

LocksOf(o) == IF o = Table THEN {} ELSE Locks[o]
Held(c) == UNION {LocksOf(o) : o \in Executed(c)}

Conflict(k, l) == k[1] = l[1] /\ "exclusive" \in {k[2], l[2]}

\* the transaction of c lets no other execute o
Hinders(c, o) == o \in created[c] \/ \E k \in Held(c), l \in LocksOf(o) : Conflict(k, l)

Hindered(c, o) == \E d \in Containers \ {c} : Hinders(d, o)

\* what it makes is there, or is made; blocked or not, the statement succeeds
Make(c, o) ==
    /\ ~Hindered(c, o)
    /\ created' = [created EXCEPT ![c] = IF o \in objects THEN @ ELSE @ \cup {o}]
    /\ blocked' = [blocked EXCEPT ![c] = FALSE]

Block(c, o) ==
    /\ Hindered(c, o)
    /\ ~blocked[c]
    /\ blocked' = [blocked EXCEPT ![c] = TRUE]
    /\ UNCHANGED <<stage, file, statement, existing, created, recorded, database>>

\* the transaction is over, and with it what the runner had in memory
End(c) ==
    /\ file' = [file EXCEPT ![c] = 1]
    /\ statement' = [statement EXCEPT ![c] = 1]
    /\ existing' = [existing EXCEPT ![c] = {}]
    /\ created' = [created EXCEPT ![c] = {}]
    /\ recorded' = [recorded EXCEPT ![c] = {}]
    /\ blocked' = [blocked EXCEPT ![c] = FALSE]

Rollback(c) == Go(c, "down") /\ End(c) /\ UNCHANGED database

\* the other transaction committed what this one was about to create; ALTER and
\* UPDATE look only when they have the lock
Collide(c, o) ==
    /\ blocked[c]
    /\ o \in objects
    /\ \A l \in LocksOf(o) : l[2] = "share"
    /\ Rollback(c)

---------------------------------------------------------------------------
(* run_migrations. *)

Boot(c) ==
    /\ stage[c] = "down"
    /\ Go(c, "table")
    /\ UNCHANGED <<file, statement, existing, created, recorded, blocked, database>>

\* Mutant: CREATE TABLE without IF NOT EXISTS
EnsureTable_Plain(c) ==
    /\ stage[c] = "table"
    /\ \/ /\ Table \notin objects
          /\ Make(c, Table)
          /\ Go(c, "read")
          /\ UNCHANGED <<file, statement, existing, recorded, database>>
       \/ Block(c, Table)
       \/ Table \in objects /\ Rollback(c)

EnsureTable(c) ==
    /\ stage[c] = "table"
    /\ \/ /\ Make(c, Table)
          /\ Go(c, "read")
          /\ UNCHANGED <<file, statement, existing, recorded, database>>
       \/ Block(c, Table)
       \/ Collide(c, Table)

\* the files from f on that are not recorded
Pending(done, f) == {g \in f..Files : g \notin done}

\* Mutant: glob without sorted
Turn_Unsorted(c, done, f) ==
    /\ statement' = [statement EXCEPT ![c] = 1]
    /\ \/ /\ Pending(done, 1) \ recorded'[c] = {}
          /\ Go(c, "commit")
          /\ file' = [file EXCEPT ![c] = Files + 1]
       \/ /\ Go(c, "execute")
          /\ \E g \in Pending(done, 1) \ recorded'[c] : file' = [file EXCEPT ![c] = g]

\* the next of them in order, or COMMIT
Turn(c, done, f) ==
    /\ statement' = [statement EXCEPT ![c] = 1]
    /\ IF Pending(done, f) = {}
       THEN /\ Go(c, "commit")
            /\ file' = [file EXCEPT ![c] = Files + 1]
       ELSE /\ Go(c, "execute")
            /\ \E g \in Pending(done, f) :
                /\ \A h \in Pending(done, f) : g <= h
                /\ file' = [file EXCEPT ![c] = g]

ReadVersions(c) ==
    /\ stage[c] = "read"
    /\ existing' = [existing EXCEPT ![c] = versions]
    /\ UNCHANGED recorded
    /\ Turn(c, versions, 1)
    /\ UNCHANGED <<created, blocked, database>>

Execute(c) ==
    LET o == <<file[c], statement[c]>> IN
    /\ stage[c] = "execute"
    /\ \/ /\ Make(c, o)
          /\ IF statement[c] = Statements[file[c]]
             THEN Go(c, "record") /\ UNCHANGED statement
             ELSE UNCHANGED stage /\ statement' = [statement EXCEPT ![c] = @ + 1]
          /\ UNCHANGED <<file, existing, recorded, database>>
       \/ Block(c, o)
       \/ Collide(c, o)

\* Mutant: the version counts as applied although the row was there
Recorded_Anyway(c) == {file[c]}

\* the rows that INSERT ... ON CONFLICT DO NOTHING inserts
Recorded(c) == {file[c]} \ versions

\* Mutant: the version is recorded at once, outside the transaction
Record_Autocommit(c) ==
    /\ stage[c] = "record"
    /\ versions' = versions \cup {file[c]}
    /\ UNCHANGED recorded
    /\ Turn(c, existing[c], file[c] + 1)
    /\ UNCHANGED <<existing, created, blocked, objects>>

\* _record_migration; it waits for another transaction that inserted the same version
Record(c) ==
    /\ stage[c] = "record"
    /\ \A d \in Containers \ {c} : file[c] \notin recorded[d]
    /\ recorded' = [recorded EXCEPT ![c] = @ \cup Recorded(c)]
    /\ Turn(c, existing[c], file[c] + 1)
    /\ UNCHANGED <<existing, created, blocked, database>>

\* the container goes on to uvicorn or to the worker
Commit(c) ==
    /\ stage[c] = "commit"
    /\ Go(c, "up")
    /\ objects' = objects \cup created[c]
    /\ versions' = versions \cup recorded[c]
    /\ End(c)

\* the container dies, with its transaction, and is started again
Die(c) == stage[c] # "down" /\ Rollback(c)

Migrate(c) ==
    \/ Boot(c) \/ EnsureTable(c) \/ ReadVersions(c) \/ Execute(c) \/ Record(c) \/ Commit(c)

Next == \E c \in Containers : Migrate(c) \/ Die(c)

Spec == Init /\ [][Next]_vars

---------------------------------------------------------------------------

\* A service only runs on the complete schema, all of it recorded: neither a
\* runner that died half way, nor one that collided with the other, nor files
\* that the postgres container applied leaves a gap for the next start.
UpMeansMigrated ==
    \A c \in Containers : stage[c] = "up" => objects = Objects /\ versions = 1..Files

\* A file is reported as applied by one runner only, however the runners race:
\* none has recorded a version that another has, or that is committed already.
ReportedOnce ==
    \A c \in Containers :
        /\ recorded[c] \cap versions = {}
        /\ \A d \in Containers \ {c} : recorded[c] \cap recorded[d] = {}

\* What the runner is about to execute is hindered by the other's transaction,
\* or the version it is about to record is inserted by it.
WaitsFor(c, d) ==
    \/ stage[c] = "table" /\ Hinders(d, Table)
    \/ stage[c] = "execute" /\ Hinders(d, <<file[c], statement[c]>>)
    \/ stage[c] = "record" /\ file[c] \in recorded[d]

\* Two runners never wait for one another, be it for what the other creates,
\* for the tables it alters or for the version it records: the second one is
\* held up before it has made or locked anything.
NoCrosswiseWait == \A c, d \in Containers : c # d => ~(WaitsFor(c, d) /\ WaitsFor(d, c))

\* What a runner sees as made, whether or not it is committed.
Made(c) == objects \cup created[c]

\* A runner leaves nothing behind it that is neither made nor recorded.
NothingLeftBy(c) ==
    /\ existing[c] \subseteq versions
    /\ \A f \in recorded[c] : ObjectsOf(f) \subseteq Made(c)
    /\ stage[c] \in {"read", "execute", "record", "commit"} => Table \in Made(c)
    /\ stage[c] \in {"execute", "record", "commit"} =>
        \A f \in 1..Files : f < file[c] =>
            ObjectsOf(f) \subseteq Made(c) /\ f \in versions \cup recorded[c]
    /\ stage[c] = "execute" =>
        /\ file[c] <= Files
        /\ statement[c] <= Statements[file[c]]
        /\ \A i \in 1..(statement[c] - 1) : <<file[c], i>> \in Made(c)
    /\ stage[c] = "record" => file[c] <= Files /\ ObjectsOf(file[c]) \subseteq Made(c)
    /\ stage[c] = "commit" => file[c] = Files + 1

\* Inductive strengthening of UpMeansMigrated; a recorded file has its objects.
NothingSkipped ==
    /\ UpMeansMigrated
    /\ \A f \in versions : ObjectsOf(f) \subseteq objects
    /\ \A c \in Containers : NothingLeftBy(c)

===========================================================================
