------------------------- MODULE Deployment_proofs -------------------------
(***************************************************************************)
(* That the worker only ever runs on the complete schema, that a migration *)
(* is reported once, that the two runners never wait for one another, and  *)
(* that WorkerLoop's limits hold for the worker of a deployment too: for   *)
(* any number of migration files and statements, whatever they lock.       *)
(***************************************************************************)
EXTENDS Deployment, WorkerLoop_proofs

\* The statements a runner has behind it; files and statements come in one order.
Passed(c, f, i) ==
    /\ stage[c] \in {"execute", "record", "commit"}
    /\ f < file[c] \/ (f = file[c] /\ (stage[c] = "record" \/ i < statement[c]))

\* Why no two runners wait for each other: only one at a time has objects that
\* are not committed, since the other would have had to make them first, or
\* wait with nothing of its own.
OneMaker ==
    /\ \A c, d \in Containers : c # d => created[c] = {} \/ created[d] = {}
    /\ \A c \in Containers :
        /\ created[c] \cap objects = {}
        /\ Schema!Table \in created[c] => stage[c] \in {"read", "execute", "record", "commit"}
        /\ \A f \in 1..Files : \A i \in 1..Statements[f] :
            <<f, i>> \in created[c] => Passed(c, f, i)

\* A runner goes through files that another has committed since it read the versions.
Stale(c) == stage[c] \in {"execute", "record", "commit"} /\ existing[c] # versions

\* A commit leaves nothing to make: what the files make is there only with their
\* versions, except where schema_migrations is missing, and of two runners the
\* one that commits leaves one stale runner at most.
OneStale ==
    /\ versions # {} => Schema!Table \in objects
    /\ Schema!Table \in objects =>
        \A f \in 1..Files : \A o \in Schema!ObjectsOf(f) : o \in objects => f \in versions
    /\ \A c \in Containers :
        /\ Stale(c) => versions = 1..Files
        /\ stage[c] = "execute" => file[c] \notin existing[c]
        /\ recorded[c] # {} => stage[c] \in {"execute", "record", "commit"}
    /\ \A c, d \in Containers : c # d => ~(Stale(c) /\ Stale(d))

\* Others wait for a runner that has made or locked something, and only one has.
AtWork(c) == created[c] # {} \/ Schema!Held(c) # {}
OneAtWork == \A c, d \in Containers : c # d => ~(AtWork(c) /\ AtWork(d))

SchemaInv ==
    /\ Schema!TypeOK /\ Schema!ReportedOnce /\ Schema!NothingSkipped /\ OneMaker
    /\ OneStale /\ OneAtWork

\* An empty database satisfies the invariant of the migrations.
LEMMA SchemaStart == Schema!Init => SchemaInv
<1> SUFFICES ASSUME Schema!Init PROVE SchemaInv
  OBVIOUS
<1> USE SchemaAssumption
<1>1. objects \subseteq Schema!Objects /\ versions \subseteq 1..Files
  BY DEF Schema!Init, Schema!Objects, Schema!FileObjects
<1>2. Schema!TypeOK
  <2>1. 1 \in 1..Files + 1
    OBVIOUS
  <2>2. blocked \in [Containers -> BOOLEAN]
    BY Zenon DEF Schema!Init
  <2> QED
    BY <1>1, <2>1, <2>2 DEF Schema!Init, Schema!TypeOK
<1>3. Schema!ReportedOnce
  BY DEF Schema!Init, Schema!ReportedOnce
<1>4. \A f \in versions : Schema!ObjectsOf(f) \subseteq objects
  BY DEF Schema!Init
<1>5. Schema!NothingSkipped
  BY <1>4 DEF Schema!Init, Schema!NothingSkipped, Schema!NothingLeftBy, Schema!UpMeansMigrated
<1>6. OneMaker
  BY DEF Schema!Init, OneMaker
<1>7. OneStale
  <2>1. \A c \in Containers : stage[c] = "down" /\ recorded[c] = {}
    BY DEF Schema!Init
  <2>2. CASE objects \in {{}, Schema!FileObjects} /\ versions = {}
    <3>1. Schema!Table \notin Schema!FileObjects
      BY DEF Schema!Table, Schema!FileObjects, Schema!ObjectsOf
    <3>2. Schema!Table \notin objects
      BY <2>2, <3>1
    <3> QED
      BY <2>1, <2>2, <3>2 DEF OneStale, Stale
  <2>3. ASSUME NEW f \in 1..Files,
               objects = {Schema!Table} \cup UNION {Schema!ObjectsOf(g) : g \in 1..f},
               versions = 1..f
        PROVE  OneStale
    <3>1. Schema!Table \in objects
      BY <2>3
    <3>2. ASSUME NEW g \in 1..Files, NEW o \in Schema!ObjectsOf(g), o \in objects
          PROVE  g \in versions
      <4>1. PICK i \in 1..Statements[g] : o = <<g, i>>
        BY DEF Schema!ObjectsOf
      <4>2. o # Schema!Table
        BY <4>1 DEF Schema!Table
      <4>3. PICK h \in 1..f : o \in Schema!ObjectsOf(h)
        BY <2>3, <3>2, <4>2
      <4>4. h = g
        BY <4>1, <4>3 DEF Schema!ObjectsOf
      <4> QED
        BY <2>3, <4>3, <4>4
    <3> QED
      BY <2>1, <3>1, <3>2 DEF OneStale, Stale
  <2> QED
    BY <2>2, <2>3 DEF Schema!Init
<1>8. OneAtWork
  <2>1. \A c \in Containers : created[c] = {} /\ Schema!Executed(c) = {}
    BY DEF Schema!Init, Schema!Executed
  <2>2. \A c \in Containers : Schema!Held(c) = {}
    BY <2>1 DEF Schema!Held
  <2> QED
    BY <2>1, <2>2 DEF OneAtWork, AtWork
<1> QED
  BY <1>2, <1>3, <1>5, <1>6, <1>7, <1>8 DEF SchemaInv

\* What a statement makes is an object, and all objects are made by statements.
LEMMA ObjectFacts ==
    /\ Schema!Table \in Schema!Objects
    /\ \A f \in 1..Files : \A i \in 1..Statements[f] :
            <<f, i>> \in Schema!ObjectsOf(f) /\ <<f, i>> \in Schema!Objects
    /\ \A f \in 1..Files : \A o \in Schema!ObjectsOf(f) :
            \E i \in 1..Statements[f] : o = <<f, i>>
    /\ \A o \in Schema!Objects :
            o = Schema!Table \/ \E f \in 1..Files : o \in Schema!ObjectsOf(f)
<1>1. \A f : \A i \in 1..Statements[f] : <<f, i>> \in Schema!ObjectsOf(f)
  BY DEF Schema!ObjectsOf
<1>2. \A f : \A o \in Schema!ObjectsOf(f) : \E i \in 1..Statements[f] : o = <<f, i>>
  BY DEF Schema!ObjectsOf
<1>3. \A f \in 1..Files : Schema!ObjectsOf(f) \subseteq Schema!FileObjects
  BY DEF Schema!FileObjects
<1>4. \A o \in Schema!FileObjects : \E f \in 1..Files : o \in Schema!ObjectsOf(f)
  BY DEF Schema!FileObjects
<1> QED
  BY <1>1, <1>2, <1>3, <1>4, Zenon DEF Schema!Objects

\* Every step of the migrations keeps the types.
LEMMA SchemaTypes ==
    ASSUME Schema!TypeOK, Schema!NothingSkipped, NEW c \in Containers,
           Schema!Migrate(c) \/ Schema!Rollback(c)
    PROVE  Schema!TypeOK'
<1>0. /\ stage[c] \in {"execute", "record"} => file[c] \in 1..Files
      /\ stage[c] = "execute" => statement[c] \in 1..Statements[file[c]]
  <2>1. file[c] \in 1..Files + 1 /\ statement[c] \in Nat \ {0}
    BY DEF Schema!TypeOK
  <2>2. stage[c] \in {"execute", "record"} => file[c] <= Files
    BY DEF Schema!NothingSkipped, Schema!NothingLeftBy
  <2>3. stage[c] \in {"execute", "record"} => file[c] \in 1..Files
    BY <2>1, <2>2, SchemaAssumption
  <2>4. stage[c] = "execute" => statement[c] <= Statements[file[c]]
    BY DEF Schema!NothingSkipped, Schema!NothingLeftBy
  <2>5. file[c] \in 1..Files => Statements[file[c]] \in Nat
    BY SchemaAssumption
  <2> QED
    BY <2>1, <2>3, <2>4, <2>5
<1> USE SchemaAssumption DEF Schema!TypeOK, Schema!Go
<1>1. Schema!Table \in Schema!Objects
      /\ \A f \in 1..Files : \A i \in 1..Statements[f] : <<f, i>> \in Schema!Objects
  BY ObjectFacts, Zenon
<1>2. CASE Schema!Rollback(c)
  BY <1>2 DEF Schema!Rollback, Schema!End, Schema!database
<1>3. CASE Schema!Boot(c)
  BY <1>3 DEF Schema!Boot, Schema!database
<1>4. ASSUME NEW o, Schema!Make(c, o), o \in Schema!Objects
      PROVE  created' \in [Containers -> SUBSET Schema!Objects]
             /\ blocked' \in [Containers -> BOOLEAN]
  BY <1>4 DEF Schema!Make
<1>5. ASSUME NEW o, Schema!Block(c, o) PROVE Schema!TypeOK'
  BY <1>5 DEF Schema!Block, Schema!database
<1>6. ASSUME NEW o, Schema!Collide(c, o) PROVE Schema!TypeOK'
  BY <1>6 DEF Schema!Collide, Schema!Rollback, Schema!End, Schema!database
<1>7. CASE Schema!EnsureTable(c)
  BY <1>1, <1>4, <1>5, <1>6, <1>7 DEF Schema!EnsureTable, Schema!database
<1>8. ASSUME NEW done, NEW f \in Nat \ {0}, Schema!Turn(c, done, f)
      PROVE  /\ stage' \in [Containers -> {"down", "table", "read", "execute", "record",
                                           "commit", "up"}]
             /\ file' \in [Containers -> 1..Files + 1]
             /\ statement' \in [Containers -> Nat \ {0}]
  <2>1. \A g \in Schema!Pending(done, f) : g \in 1..Files + 1
    BY DEF Schema!Pending
  <2>2. Files + 1 \in 1..Files + 1
    OBVIOUS
  <2>3. CASE Schema!Pending(done, f) = {}
    <3>1. /\ stage' = [stage EXCEPT ![c] = "commit"]
          /\ file' = [file EXCEPT ![c] = Files + 1]
          /\ statement' = [statement EXCEPT ![c] = 1]
      BY <1>8, <2>3, Zenon DEF Schema!Turn
    <3> QED
      BY <2>2, <3>1
  <2>4. CASE Schema!Pending(done, f) # {}
    <3>1. /\ stage' = [stage EXCEPT ![c] = "execute"]
          /\ \E g \in Schema!Pending(done, f) : file' = [file EXCEPT ![c] = g]
          /\ statement' = [statement EXCEPT ![c] = 1]
      BY <1>8, <2>4, Zenon DEF Schema!Turn
    <3> QED
      BY <2>1, <3>1
  <2> QED
    BY <2>3, <2>4
<1>9. CASE Schema!ReadVersions(c)
  BY <1>8, <1>9 DEF Schema!ReadVersions, Schema!database
<1>10. CASE Schema!Execute(c)
  <2> DEFINE o == <<file[c], statement[c]>>
  <2>1. stage[c] = "execute" /\ o \in Schema!Objects
    BY <1>0, <1>1, <1>10 DEF Schema!Execute
  <2>2. CASE Schema!Block(c, o)
    BY <2>2, <1>5
  <2>3. CASE Schema!Collide(c, o)
    BY <2>3, <1>6
  <2>4. CASE Schema!Make(c, o) /\ ~Schema!Block(c, o) /\ ~Schema!Collide(c, o)
    <3>1. created' \in [Containers -> SUBSET Schema!Objects]
          /\ blocked' \in [Containers -> BOOLEAN]
      BY <2>1, <2>4, <1>4
    <3>2. /\ stage' = [stage EXCEPT ![c] = "record"] \/ stage' = stage
          /\ statement' = statement \/ statement' = [statement EXCEPT ![c] = @ + 1]
          /\ UNCHANGED <<file, existing, recorded, objects, versions>>
      BY <1>10, <2>4, Zenon DEF Schema!Execute, Schema!database
    <3> QED
      BY <3>1, <3>2
  <2> QED
    BY <1>10, <2>2, <2>3, <2>4 DEF Schema!Execute
<1>11. CASE Schema!Record(c)
  <2>1. existing[c] \subseteq 1..Files /\ file[c] \in 1..Files /\ file[c] + 1 \in Nat \ {0}
    BY <1>0, <1>11 DEF Schema!Record
  <2>2. recorded' \in [Containers -> SUBSET (1..Files)]
    BY <1>11, <2>1 DEF Schema!Record, Schema!Recorded
  <2> QED
    BY <1>8, <1>11, <2>1, <2>2 DEF Schema!Record, Schema!database
<1>12. CASE Schema!Commit(c)
  <2>1. objects' \subseteq Schema!Objects /\ versions' \subseteq 1..Files
    BY <1>12 DEF Schema!Commit
  <2> QED
    BY <1>12, <2>1 DEF Schema!Commit, Schema!End
<1> QED
  BY <1>2, <1>3, <1>7, <1>9, <1>10, <1>11, <1>12 DEF Schema!Migrate

\* No step makes a second runner report a file.
LEMMA SchemaReports ==
    ASSUME Schema!TypeOK, Schema!ReportedOnce, NEW c \in Containers,
           Schema!Migrate(c) \/ Schema!Rollback(c)
    PROVE  Schema!ReportedOnce'
<1> USE DEF Schema!ReportedOnce
<1>0. recorded \in [Containers -> SUBSET (1..Files)]
  BY DEF Schema!TypeOK
<1>1. ASSUME Schema!Rollback(c) PROVE Schema!ReportedOnce'
  BY <1>0, <1>1 DEF Schema!Rollback, Schema!End, Schema!database
<1>2. ASSUME UNCHANGED <<recorded, versions>> PROVE Schema!ReportedOnce'
  BY <1>2
<1>3. CASE Schema!Boot(c)
  BY <1>2, <1>3 DEF Schema!Boot, Schema!database
<1>4. CASE Schema!EnsureTable(c)
  BY <1>1, <1>2, <1>4 DEF Schema!EnsureTable, Schema!Block, Schema!Collide, Schema!database
<1>5. CASE Schema!ReadVersions(c)
  BY <1>2, <1>5 DEF Schema!ReadVersions, Schema!database
<1>6. CASE Schema!Execute(c)
  BY <1>1, <1>2, <1>6 DEF Schema!Execute, Schema!Block, Schema!Collide, Schema!database
<1>7. CASE Schema!Record(c)
  BY <1>0, <1>7 DEF Schema!Record, Schema!Recorded, Schema!database
<1>8. CASE Schema!Commit(c)
  BY <1>0, <1>8 DEF Schema!Commit, Schema!End
<1> QED
  BY <1>1, <1>3, <1>4, <1>5, <1>6, <1>7, <1>8 DEF Schema!Migrate

\* A step of one runner leaves what the others see, or adds to it.
LEMMA SchemaGrows ==
    ASSUME Schema!TypeOK, NEW c \in Containers, Schema!Migrate(c) \/ Schema!Rollback(c)
    PROVE  /\ objects \subseteq objects' /\ versions \subseteq versions'
           /\ \A d \in Containers \ {c} :
                /\ stage'[d] = stage[d] /\ file'[d] = file[d] /\ statement'[d] = statement[d]
                /\ existing'[d] = existing[d] /\ created'[d] = created[d]
                /\ recorded'[d] = recorded[d]
<1> USE DEF Schema!TypeOK, Schema!Go
<1> DEFINE Grows == /\ objects \subseteq objects' /\ versions \subseteq versions'
                    /\ \A d \in Containers \ {c} :
                        /\ stage'[d] = stage[d] /\ file'[d] = file[d]
                        /\ statement'[d] = statement[d] /\ existing'[d] = existing[d]
                        /\ created'[d] = created[d] /\ recorded'[d] = recorded[d]
<1>1. ASSUME Schema!Rollback(c) PROVE Grows
  BY <1>1 DEF Schema!Rollback, Schema!End, Schema!database
<1>2. ASSUME NEW o, Schema!Block(c, o) \/ Schema!Collide(c, o) PROVE Grows
  BY <1>1, <1>2 DEF Schema!Block, Schema!Collide, Schema!database
<1>3. ASSUME NEW done, NEW f, Schema!Turn(c, done, f)
      PROVE  \A d \in Containers \ {c} :
                stage'[d] = stage[d] /\ file'[d] = file[d] /\ statement'[d] = statement[d]
  BY <1>3 DEF Schema!Turn
<1>4. CASE Schema!Boot(c)
  BY <1>4 DEF Schema!Boot, Schema!database
<1>5. CASE Schema!EnsureTable(c)
  BY <1>2, <1>5 DEF Schema!EnsureTable, Schema!Make, Schema!database
<1>6. CASE Schema!ReadVersions(c)
  BY <1>3, <1>6 DEF Schema!ReadVersions, Schema!database
<1>7. CASE Schema!Execute(c)
  BY <1>2, <1>7 DEF Schema!Execute, Schema!Make, Schema!database
<1>8. CASE Schema!Record(c)
  BY <1>3, <1>8 DEF Schema!Record, Schema!database
<1>9. CASE Schema!Commit(c)
  BY <1>9 DEF Schema!Commit, Schema!End
<1> QED
  BY <1>1, <1>4, <1>5, <1>6, <1>7, <1>8, <1>9 DEF Schema!Migrate

\* Nothing that a runner sees is lost by another's step.
LEMMA OthersKeep ==
    ASSUME Schema!TypeOK, NEW c \in Containers, Schema!Migrate(c) \/ Schema!Rollback(c),
           NEW d \in Containers \ {c}, Schema!NothingLeftBy(d)
    PROVE  Schema!NothingLeftBy(d)'
<1>1. /\ objects \subseteq objects' /\ versions \subseteq versions'
      /\ stage'[d] = stage[d] /\ file'[d] = file[d] /\ statement'[d] = statement[d]
      /\ existing'[d] = existing[d] /\ created'[d] = created[d]
      /\ recorded'[d] = recorded[d]
  BY SchemaGrows
<1>2. Schema!Made(d) \subseteq Schema!Made(d)'
  BY <1>1 DEF Schema!Made
<1>3. (versions \cup recorded[d]) \subseteq (versions \cup recorded[d])'
  BY <1>1
<1> QED
  BY <1>1, <1>2, <1>3 DEF Schema!NothingLeftBy

\* Whoever is up is up on the complete schema: the last file is behind a runner that commits.
LEMMA CommitIsComplete ==
    ASSUME SchemaInv, NEW c \in Containers, Schema!Commit(c)
    PROVE  objects' = Schema!Objects /\ versions' = 1..Files
<1>1. /\ \A f \in 1..Files : Schema!ObjectsOf(f) \subseteq objects'
      /\ 1..Files \subseteq versions'
      /\ Schema!Table \in objects'
  <2>1. stage[c] = "commit" /\ file[c] = Files + 1
    BY DEF SchemaInv, Schema!NothingSkipped, Schema!NothingLeftBy, Schema!Commit
  <2>2. \A f \in 1..Files : f < file[c]
    BY <2>1, SchemaAssumption
  <2> QED
    BY <2>1, <2>2 DEF SchemaInv, Schema!NothingSkipped, Schema!NothingLeftBy, Schema!Made,
                      Schema!Commit
<1>2. objects' \subseteq Schema!Objects /\ versions' \subseteq 1..Files
  BY DEF SchemaInv, Schema!TypeOK, Schema!Commit
<1> QED
  BY <1>1, <1>2, ObjectFacts

\* A container leaves no statement of a file behind that it goes past.
LEMMA SchemaSkips ==
    ASSUME SchemaInv, NEW c \in Containers, Schema!Migrate(c) \/ Schema!Rollback(c)
    PROVE  Schema!NothingSkipped'
<1> USE SchemaAssumption DEF SchemaInv
<1>1. ASSUME NEW d \in Containers \ {c} PROVE Schema!NothingLeftBy(d)'
  BY OthersKeep DEF Schema!NothingSkipped
<1>2. /\ Schema!NothingLeftBy(c)
      /\ stage[c] \in {"execute", "record"} => file[c] \in 1..Files
  <2>1. Schema!NothingLeftBy(c) /\ file[c] \in 1..Files + 1
    BY DEF Schema!NothingSkipped, Schema!TypeOK
  <2> QED
    BY <2>1 DEF Schema!NothingLeftBy
<1>3. ASSUME ~Schema!Commit(c)
      PROVE  UNCHANGED <<objects, versions>> /\ stage'[c] # "up"
  <2> USE DEF Schema!TypeOK, Schema!Go
  <2>1. CASE Schema!Rollback(c)
    BY <2>1 DEF Schema!Rollback, Schema!database
  <2>2. CASE Schema!Boot(c) \/ Schema!EnsureTable(c)
    BY <2>2 DEF Schema!Boot, Schema!EnsureTable, Schema!Block, Schema!Collide,
                Schema!Rollback, Schema!database
  <2>3. CASE Schema!Execute(c)
    BY <2>3 DEF Schema!Execute, Schema!Block, Schema!Collide,
                Schema!Rollback, Schema!database
  <2>4. ASSUME NEW done, NEW f, Schema!Turn(c, done, f) PROVE stage'[c] # "up"
    BY <2>4 DEF Schema!Turn
  <2>5. CASE Schema!ReadVersions(c) \/ Schema!Record(c)
    BY <2>4, <2>5 DEF Schema!ReadVersions, Schema!Record, Schema!database
  <2> QED
    BY <1>3, <2>1, <2>2, <2>3, <2>5 DEF Schema!Migrate
<1>4. \A f \in versions' : Schema!ObjectsOf(f) \subseteq objects'
  <2>1. CASE Schema!Commit(c)
    BY <2>1, CommitIsComplete DEF Schema!Objects, Schema!FileObjects
  <2>2. CASE ~Schema!Commit(c)
    BY <2>2, <1>3 DEF Schema!NothingSkipped
  <2> QED
    BY <2>1, <2>2
<1>5. Schema!UpMeansMigrated'
  <2>1. CASE Schema!Commit(c)
    BY <2>1, CommitIsComplete DEF Schema!UpMeansMigrated, Schema!Objects, Schema!FileObjects, Schema!Table, Schema!ObjectsOf
  <2>2. CASE ~Schema!Commit(c)
    <3>1. \A d \in Containers : stage'[d] = "up" => d # c /\ stage[d] = "up"
      BY <2>2, <1>3, SchemaGrows
    <3> QED
      BY <2>2, <1>3, <3>1 DEF Schema!NothingSkipped, Schema!UpMeansMigrated
  <2> QED
    BY <2>1, <2>2
<1>6. Schema!NothingLeftBy(c)'
  <2>1. ASSUME Schema!Rollback(c) \/ Schema!Commit(c) PROVE Schema!NothingLeftBy(c)'
    <3>1. stage'[c] \in {"down", "up"} /\ existing'[c] = {} /\ recorded'[c] = {}
      BY <2>1 DEF Schema!Rollback, Schema!Commit, Schema!End, Schema!Go, Schema!TypeOK
    <3> QED
      BY <3>1 DEF Schema!NothingLeftBy
  <2>2. ASSUME UNCHANGED <<stage, file, statement, existing, created, recorded, objects, versions>>
        PROVE  Schema!NothingLeftBy(c)'
    BY <2>2, <1>2 DEF Schema!NothingLeftBy, Schema!Made
  <2>3. ASSUME NEW o, Schema!Block(c, o) \/ Schema!Collide(c, o)
        PROVE  Schema!NothingLeftBy(c)'
    BY <2>1, <2>2, <2>3 DEF Schema!Block, Schema!Collide, Schema!database
  <2>4. CASE Schema!Boot(c)
    <3>1. /\ stage'[c] = "table"
          /\ UNCHANGED <<file, statement, existing, created, recorded, objects, versions>>
      BY <2>4 DEF Schema!Boot, Schema!Go, Schema!TypeOK, Schema!database
    <3> QED
      BY <3>1, <1>2 DEF Schema!NothingLeftBy, Schema!Made
  <2>5. ASSUME NEW o, Schema!Make(c, o), UNCHANGED objects
        PROVE  o \in Schema!Made(c)' /\ Schema!Made(c) \subseteq Schema!Made(c)'
    BY <2>5 DEF Schema!Make, Schema!Made, Schema!TypeOK
  <2>6. CASE Schema!EnsureTable(c)
    <3>1. CASE Schema!Make(c, Schema!Table) /\ Schema!Go(c, "read")
                /\ UNCHANGED <<file, statement, existing, recorded, objects, versions>>
      <4>1. stage'[c] = "read" /\ Schema!Table \in Schema!Made(c)'
            /\ Schema!Made(c) \subseteq Schema!Made(c)'
        BY <3>1, <2>5 DEF Schema!Go, Schema!TypeOK
      <4> QED
        BY <3>1, <4>1, <1>2 DEF Schema!NothingLeftBy
    <3> QED
      BY <2>3, <2>6, <3>1 DEF Schema!EnsureTable, Schema!database
  <2>7. ASSUME NEW done, NEW f \in Nat \ {0}, Schema!Turn(c, done, f),
               UNCHANGED <<created, objects, versions>>,
               done \subseteq versions, recorded[c] \subseteq recorded'[c],
               recorded' \in [Containers -> SUBSET (1..Files)],
               Schema!Table \in Schema!Made(c),
               \A g \in recorded'[c] : Schema!ObjectsOf(g) \subseteq Schema!Made(c),
               \A g \in 1..Files : g < f =>
                    Schema!ObjectsOf(g) \subseteq Schema!Made(c)
                    /\ g \in versions \cup recorded'[c],
               existing'[c] \subseteq versions
        PROVE  Schema!NothingLeftBy(c)'
    <3>1. Schema!Made(c)' = Schema!Made(c)
      BY <2>7 DEF Schema!Made
    <3>2. \A g \in versions : Schema!ObjectsOf(g) \subseteq Schema!Made(c)
      BY DEF Schema!NothingSkipped, Schema!Made
    <3>3. statement'[c] = 1
      BY <2>7 DEF Schema!Turn, Schema!TypeOK
    <3>4. CASE Schema!Pending(done, f) = {}
      <4>1. stage'[c] = "commit" /\ file'[c] = Files + 1
        BY <2>7, <3>4 DEF Schema!Turn, Schema!TypeOK, Schema!Go
      <4>2. \A g \in 1..Files : g < f \/ g \in versions
        BY <2>7, <3>4 DEF Schema!Pending
      <4>3. \A g \in 1..Files : Schema!ObjectsOf(g) \subseteq Schema!Made(c)
                                /\ g \in versions \cup recorded'[c]
        BY <2>7, <3>2, <4>2
      <4> QED
        BY <2>7, <3>1, <3>3, <4>1, <4>3 DEF Schema!NothingLeftBy
    <3>5. CASE Schema!Pending(done, f) # {}
      <4>1. PICK g \in Schema!Pending(done, f) :
                    /\ \A h \in Schema!Pending(done, f) : g <= h
                    /\ file' = [file EXCEPT ![c] = g]
        BY <2>7, <3>5, Zenon DEF Schema!Turn
      <4>2. stage'[c] = "execute" /\ file'[c] = g /\ g \in 1..Files
        BY <2>7, <3>5, <4>1 DEF Schema!Turn, Schema!TypeOK, Schema!Go, Schema!Pending
      <4>3. \A h \in 1..Files : h < g => h < f \/ h \in versions
        BY <2>7, <4>1 DEF Schema!Pending
      <4>4. \A h \in 1..Files : h < g => Schema!ObjectsOf(h) \subseteq Schema!Made(c)
                                /\ h \in versions \cup recorded'[c]
        BY <2>7, <3>2, <4>3
      <4>5. 1 <= Statements[g] /\ 1..(1 - 1) = {}
        BY <4>2
      <4> QED
        BY <2>7, <3>1, <3>3, <4>2, <4>4, <4>5 DEF Schema!NothingLeftBy
    <3> QED
      BY <3>4, <3>5
  <2>8. CASE Schema!ReadVersions(c)
    <3>1. /\ Schema!Turn(c, versions, 1) /\ existing'[c] = versions
          /\ UNCHANGED <<created, recorded, objects, versions>>
      BY <2>8 DEF Schema!ReadVersions, Schema!TypeOK, Schema!database
    <3>2. /\ Schema!Table \in Schema!Made(c)
          /\ \A g \in recorded[c] : Schema!ObjectsOf(g) \subseteq Schema!Made(c)
      BY <2>8, <1>2 DEF Schema!ReadVersions, Schema!NothingLeftBy
    <3>3. recorded' \in [Containers -> SUBSET (1..Files)]
      BY <3>1 DEF Schema!TypeOK
    <3>4. \A g \in 1..Files : ~(g < 1)
      OBVIOUS
    <3> QED
      BY <2>7, <3>1, <3>2, <3>3, <3>4
  <2>9. CASE Schema!Record(c)
    <3>1. /\ Schema!Turn(c, existing[c], file[c] + 1)
          /\ recorded'[c] = recorded[c] \cup Schema!Recorded(c)
          /\ UNCHANGED <<existing, created, objects, versions>>
      BY <2>9 DEF Schema!Record, Schema!TypeOK, Schema!database
    <3>2. recorded'[c] \subseteq recorded[c] \cup {file[c]}
          /\ file[c] \in versions \cup recorded'[c]
      BY <3>1 DEF Schema!Recorded
    <3>3. /\ Schema!Table \in Schema!Made(c)
          /\ existing[c] \subseteq versions
          /\ \A g \in recorded[c] : Schema!ObjectsOf(g) \subseteq Schema!Made(c)
          /\ Schema!ObjectsOf(file[c]) \subseteq Schema!Made(c)
          /\ \A g \in 1..Files : g < file[c] =>
                Schema!ObjectsOf(g) \subseteq Schema!Made(c) /\ g \in versions \cup recorded[c]
          /\ file[c] \in 1..Files
      BY <2>9, <1>2 DEF Schema!Record, Schema!NothingLeftBy
    <3>4. \A g \in 1..Files : g < file[c] + 1 =>
                Schema!ObjectsOf(g) \subseteq Schema!Made(c) /\ g \in versions \cup recorded'[c]
      <4>1. \A g \in 1..Files : g < file[c] + 1 => g < file[c] \/ g = file[c]
        BY <3>3
      <4> QED
        BY <3>1, <3>2, <3>3, <4>1
    <3>5. recorded' \in [Containers -> SUBSET (1..Files)]
      BY SchemaTypes DEF Schema!TypeOK
    <3>6. file[c] + 1 \in Nat \ {0}
      BY <3>3
    <3>7. \A g \in recorded'[c] : Schema!ObjectsOf(g) \subseteq Schema!Made(c)
      BY <3>2, <3>3
    <3> QED
      BY <2>7, <3>1, <3>3, <3>4, <3>5, <3>6, <3>7
  <2>10. CASE Schema!Execute(c)
    <3> DEFINE o == <<file[c], statement[c]>>
    <3>1. CASE /\ Schema!Make(c, o)
               /\ IF statement[c] = Statements[file[c]]
                  THEN Schema!Go(c, "record") /\ UNCHANGED statement
                  ELSE UNCHANGED stage /\ statement' = [statement EXCEPT ![c] = @ + 1]
               /\ UNCHANGED <<file, existing, recorded, objects, versions>>
      <4>1. o \in Schema!Made(c)' /\ Schema!Made(c) \subseteq Schema!Made(c)'
        BY <3>1, <2>5
      <4>2. /\ stage[c] = "execute" /\ file[c] \in 1..Files
            /\ statement[c] \in Nat \ {0} /\ Statements[file[c]] \in Nat
            /\ statement[c] <= Statements[file[c]]
            /\ \A i \in 1..(statement[c] - 1) : <<file[c], i>> \in Schema!Made(c)
        BY <2>10, <1>2 DEF Schema!Execute, Schema!NothingLeftBy, Schema!TypeOK
      <4>3. \A i \in 1..statement[c] : <<file[c], i>> \in Schema!Made(c)'
        <5>1. \A i \in 1..statement[c] : i = statement[c] \/ i \in 1..(statement[c] - 1)
          BY <4>2
        <5> QED
          BY <4>1, <4>2, <5>1
      <4>4. CASE statement[c] = Statements[file[c]]
        <5>1. stage'[c] = "record"
          BY <3>1, <4>4 DEF Schema!Go, Schema!TypeOK
        <5>2. Schema!ObjectsOf(file[c]) \subseteq Schema!Made(c)'
          BY <4>2, <4>3, <4>4, ObjectFacts
        <5> QED
          BY <1>2, <3>1, <4>1, <4>2, <5>1, <5>2 DEF Schema!NothingLeftBy
      <4>5. CASE statement[c] # Statements[file[c]]
        <5>1. stage'[c] = "execute" /\ statement'[c] = statement[c] + 1
          BY <3>1, <4>2, <4>5 DEF Schema!TypeOK
        <5>2. statement[c] + 1 <= Statements[file[c]] /\ (statement[c] + 1) - 1 = statement[c]
          BY <4>2, <4>5
        <5> QED
          BY <1>2, <3>1, <4>1, <4>2, <4>3, <5>1, <5>2 DEF Schema!NothingLeftBy
      <4> QED
        BY <4>4, <4>5
    <3> QED
      BY <2>3, <2>10, <3>1, Zenon DEF Schema!Execute, Schema!database
  <2> QED
    BY <2>1, <2>4, <2>6, <2>8, <2>9, <2>10 DEF Schema!Migrate
<1> QED
  BY <1>1, <1>4, <1>5, <1>6 DEF Schema!NothingSkipped

\* A runner that makes an object while another has some uncommitted would have
\* come to a statement that the other has not passed, though it passed none less.
LEMMA MakerIsAlone ==
    ASSUME Schema!TypeOK, Schema!NothingSkipped, OneMaker,
           NEW c \in Containers, NEW d \in Containers \ {c}, NEW o \in Schema!Objects,
           \/ stage[d] = "table" /\ o = Schema!Table
           \/ stage[d] = "execute" /\ o = <<file[d], statement[d]>>,
           Schema!Make(d, o), o \notin objects
    PROVE  created[c] = {}
<1> SUFFICES ASSUME created[c] # {} PROVE FALSE
  OBVIOUS
<1> USE SchemaAssumption
<1>1. created[d] = {} /\ o \notin created[c]
  BY DEF OneMaker, Schema!Make, Schema!Hindered, Schema!Hinders
<1>2. PICK p \in created[c] : p \in Schema!Objects /\ p \notin objects
  BY DEF OneMaker, Schema!TypeOK
<1>3. /\ Schema!NothingLeftBy(c) /\ Schema!NothingLeftBy(d)
      /\ Schema!Made(d) = objects
      /\ o \notin Schema!Made(c)
  BY <1>1 DEF Schema!NothingSkipped, Schema!Made
<1>4. stage[c] \in {"read", "execute", "record", "commit"} /\ Schema!Table \in Schema!Made(c)
  <2>1. stage[c] \in {"read", "execute", "record", "commit"}
    <3>1. CASE p = Schema!Table
      BY <1>2, <3>1 DEF OneMaker
    <3>2. CASE p # Schema!Table
      <4>1. PICK f \in 1..Files : p \in Schema!ObjectsOf(f)
        BY <1>2, <3>2, ObjectFacts
      <4>2. PICK i \in 1..Statements[f] : p = <<f, i>>
        BY <4>1, ObjectFacts
      <4> QED
        BY <1>2, <4>2 DEF OneMaker, Passed
    <3> QED
      BY <3>1, <3>2
  <2> QED
    BY <1>3, <2>1 DEF Schema!NothingLeftBy
<1>5. stage[d] = "execute" /\ o = <<file[d], statement[d]>>
  BY <1>3, <1>4
<1>6. Schema!Table \in objects
  BY <1>3, <1>5 DEF Schema!NothingLeftBy
<1>7. PICK f \in 1..Files : \E i \in 1..Statements[f] : p = <<f, i>>
  BY <1>2, <1>6, ObjectFacts
<1>8. PICK i \in 1..Statements[f] : p = <<f, i>>
  BY <1>7
<1>9. Passed(c, f, i)
  BY <1>2, <1>8 DEF OneMaker
<1>10. /\ file[d] \in 1..Files /\ statement[d] \in 1..Statements[file[d]]
       /\ file[c] \in 1..Files + 1 /\ statement[c] \in Nat \ {0}
  <2>1. /\ file[d] \in 1..Files + 1 /\ file[d] <= Files /\ statement[d] \in Nat \ {0}
        /\ statement[d] <= Statements[file[d]]
        /\ file[c] \in 1..Files + 1 /\ statement[c] \in Nat \ {0}
    BY <1>3, <1>5 DEF Schema!TypeOK, Schema!NothingLeftBy
  <2>2. file[d] \in 1..Files
    BY <2>1
  <2>3. Statements[file[d]] \in Nat
    BY <2>2
  <2> QED
    BY <2>1, <2>2, <2>3
\* c has not passed what d is about to make
<1>11. ~(file[d] < file[c])
  <2> SUFFICES ASSUME file[d] < file[c] PROVE FALSE
    OBVIOUS
  <2>1. Schema!ObjectsOf(file[d]) \subseteq Schema!Made(c)
    BY <1>3, <1>9, <1>10 DEF Schema!NothingLeftBy, Passed
  <2> QED
    BY <1>3, <1>5, <1>10, <2>1, ObjectFacts
<1>12. ~(file[d] = file[c] /\ stage[c] = "record")
  BY <1>3, <1>5, <1>10, ObjectFacts DEF Schema!NothingLeftBy
<1>13. ~(file[d] = file[c] /\ stage[c] = "execute" /\ statement[d] < statement[c])
  <2> SUFFICES ASSUME file[d] = file[c], stage[c] = "execute", statement[d] < statement[c]
               PROVE  FALSE
    OBVIOUS
  <2>1. statement[d] \in 1..(statement[c] - 1)
    BY <1>10
  <2> QED
    BY <1>3, <1>5, <2>1 DEF Schema!NothingLeftBy
\* so d has passed p, which then is committed
<1>14. stage[c] # "commit"
  BY <1>3, <1>10, <1>11 DEF Schema!NothingLeftBy
<1>15. f < file[d] \/ (f = file[d] /\ i < statement[d])
  BY <1>9, <1>10, <1>11, <1>12, <1>13, <1>14 DEF Passed
<1>16. CASE f < file[d]
  <2>1. Schema!ObjectsOf(f) \subseteq objects
    BY <1>3, <1>5, <1>16 DEF Schema!NothingLeftBy
  <2> QED
    BY <1>2, <1>8, <2>1, ObjectFacts
<1>17. CASE f = file[d] /\ i < statement[d]
  <2>1. i \in 1..(statement[d] - 1)
    BY <1>10, <1>17
  <2> QED
    BY <1>2, <1>3, <1>5, <1>8, <1>17, <2>1 DEF Schema!NothingLeftBy
<1> QED
  BY <1>15, <1>16, <1>17

\* Only one runner at a time has objects that are not committed.
LEMMA MakersStep ==
    ASSUME Schema!TypeOK, Schema!NothingSkipped, OneMaker, NEW c \in Containers,
           Schema!Migrate(c) \/ Schema!Rollback(c)
    PROVE  OneMaker'
<1> USE SchemaAssumption
<1> DEFINE Has(d) == /\ Schema!Table \in created[d] =>
                            stage[d] \in {"read", "execute", "record", "commit"}
                     /\ \A f \in 1..Files : \A i \in 1..Statements[f] :
                            <<f, i>> \in created[d] => Passed(d, f, i)
\* of the others nothing changes but that objects become committed
<1>1. \A d \in Containers \ {c} :
        /\ stage'[d] = stage[d] /\ file'[d] = file[d] /\ statement'[d] = statement[d]
        /\ created'[d] = created[d]
  BY SchemaGrows
<1>2. \A d \in Containers \ {c} : Has(d)'
  BY <1>1 DEF OneMaker, Passed
<1>3. ASSUME created'[c] \subseteq created[c], Has(c)',
             objects' = objects \/ (objects' = objects \cup created[c] /\ created'[c] = {})
      PROVE  OneMaker'
  <2>1. \A d \in Containers : created'[d] \cap objects' = {}
    BY <1>1, <1>3 DEF OneMaker
  <2>2. \A d, e \in Containers : d # e => created'[d] = {} \/ created'[e] = {}
    BY <1>1, <1>3 DEF OneMaker
  <2> QED
    BY <1>2, <1>3, <2>1, <2>2 DEF OneMaker
<1>4. ASSUME Schema!Rollback(c) PROVE OneMaker'
  <2>1. created'[c] = {} /\ objects' = objects
    BY <1>4 DEF Schema!Rollback, Schema!End, Schema!database, Schema!TypeOK
  <2> QED
    BY <1>3, <2>1
<1>5. CASE Schema!Commit(c)
  <2>1. created'[c] = {} /\ objects' = objects \cup created[c]
    BY <1>5 DEF Schema!Commit, Schema!End, Schema!TypeOK
  <2> QED
    BY <1>3, <2>1
<1>6. ASSUME NEW o, Schema!Block(c, o) \/ Schema!Collide(c, o) PROVE OneMaker'
  <2>1. CASE Schema!Block(c, o)
    BY <1>3, <2>1 DEF Schema!Block, Schema!database, OneMaker, Passed
  <2>2. CASE Schema!Collide(c, o)
    BY <1>4, <2>2 DEF Schema!Collide
  <2> QED
    BY <1>6, <2>1, <2>2
<1>7. CASE Schema!Boot(c)
  <2>1. stage[c] = "down" /\ UNCHANGED <<created, objects>>
    BY <1>7 DEF Schema!Boot, Schema!database
  <2>2. created[c] \cap Schema!Objects = {}
    BY <2>1, ObjectFacts DEF OneMaker, Passed
  <2>3. created'[c] = {}
    BY <2>1, <2>2 DEF Schema!TypeOK
  <2> QED
    BY <1>3, <2>1, <2>3
<1>8. ASSUME NEW o \in Schema!Objects, Schema!Make(c, o), UNCHANGED objects, Has(c)',
             \/ stage[c] = "table" /\ o = Schema!Table
             \/ stage[c] = "execute" /\ o = <<file[c], statement[c]>>
      PROVE  OneMaker'
  <2>1. created'[c] \subseteq created[c] \cup {o}
        /\ (o \in objects => created'[c] = created[c])
    BY <1>8 DEF Schema!Make, Schema!TypeOK
  <2>2. CASE o \in objects
    BY <1>3, <1>8, <2>1, <2>2
  <2>3. CASE o \notin objects
    <3>1. \A d \in Containers \ {c} : created[d] = {}
      BY <1>8, <2>3, MakerIsAlone
    <3>2. \A d, e \in Containers : d # e => created'[d] = {} \/ created'[e] = {}
      BY <1>1, <3>1
    <3>3. \A d \in Containers : created'[d] \cap objects' = {}
      BY <1>1, <1>8, <2>1, <2>3, <3>1 DEF OneMaker
    <3> QED
      BY <1>2, <1>8, <3>2, <3>3 DEF OneMaker
  <2> QED
    BY <2>2, <2>3
<1>9. CASE Schema!EnsureTable(c)
  <2>1. CASE Schema!Make(c, Schema!Table) /\ Schema!Go(c, "read")
                /\ UNCHANGED <<file, statement, existing, recorded, objects, versions>>
    <3>1. stage[c] = "table" /\ stage'[c] = "read"
          /\ created'[c] \subseteq created[c] \cup {Schema!Table}
      BY <1>9, <2>1 DEF Schema!EnsureTable, Schema!Go, Schema!Make, Schema!TypeOK
    <3>2. ASSUME NEW f \in 1..Files, NEW i \in 1..Statements[f] PROVE <<f, i>> \notin created'[c]
      <4>1. <<f, i>> \notin created[c]
        BY <3>1 DEF OneMaker, Passed
      <4>2. f # 0
        OBVIOUS
      <4>3. <<f, i>> # Schema!Table
        BY <4>2 DEF Schema!Table
      <4> QED
        BY <3>1, <4>1, <4>3
    <3> QED
      BY <1>8, <2>1, <3>1, <3>2, ObjectFacts
  <2> QED
    BY <1>6, <1>9, <2>1 DEF Schema!EnsureTable, Schema!database
<1>10. ASSUME NEW done, NEW f \in Nat \ {0}, Schema!Turn(c, done, f),
              UNCHANGED <<created, objects>>,
              stage[c] \in {"read", "record"},
              \A g \in 1..Files : \A i \in 1..Statements[g] : <<g, i>> \in created[c] => g < f
       PROVE  OneMaker'
  <2>1. CASE Schema!Pending(done, f) = {}
    <3>1. stage'[c] = "commit" /\ file'[c] = Files + 1
      BY <1>10, <2>1 DEF Schema!Turn, Schema!TypeOK, Schema!Go
    <3>2. Has(c)'
      BY <1>10, <3>1 DEF Passed
    <3> QED
      BY <1>3, <1>10, <3>2
  <2>2. CASE Schema!Pending(done, f) # {}
    <3>1. PICK g \in Schema!Pending(done, f) : file' = [file EXCEPT ![c] = g]
      BY <1>10, <2>2, Zenon DEF Schema!Turn
    <3>2. stage'[c] = "execute" /\ file'[c] = g /\ g \in f..Files
      BY <1>10, <2>2, <3>1 DEF Schema!Turn, Schema!TypeOK, Schema!Go, Schema!Pending
    <3>3. Has(c)'
      BY <1>10, <3>2 DEF Passed
    <3> QED
      BY <1>3, <1>10, <3>3
  <2> QED
    BY <2>1, <2>2
<1>11. CASE Schema!ReadVersions(c)
  <2>1. /\ stage[c] = "read" /\ Schema!Turn(c, versions, 1)
        /\ UNCHANGED <<created, objects>>
    BY <1>11 DEF Schema!ReadVersions, Schema!database
  <2>2. \A g \in 1..Files : \A i \in 1..Statements[g] : <<g, i>> \notin created[c]
    BY <2>1 DEF OneMaker, Passed
  <2> QED
    BY <1>10, <2>1, <2>2
<1>12. CASE Schema!Record(c)
  <2>1. /\ stage[c] = "record" /\ Schema!Turn(c, existing[c], file[c] + 1)
        /\ UNCHANGED <<created, objects>>
    BY <1>12 DEF Schema!Record, Schema!database
  <2>2. file[c] + 1 \in Nat \ {0}
    BY DEF Schema!TypeOK
  <2>3. file[c] \in Nat
    BY DEF Schema!TypeOK
  <2>4. \A g \in 1..Files : \A i \in 1..Statements[g] : <<g, i>> \in created[c] => g < file[c] + 1
    <3> SUFFICES ASSUME NEW g \in 1..Files, NEW i \in 1..Statements[g], <<g, i>> \in created[c]
                 PROVE  g < file[c] + 1
      OBVIOUS
    <3>1. Passed(c, g, i)
      BY DEF OneMaker
    <3>2. g <= file[c]
      BY <2>1, <2>3, <3>1 DEF Passed
    <3> QED
      BY <2>3, <3>2
  <2> QED
    BY <1>10, <2>1, <2>2, <2>4
<1>13. CASE Schema!Execute(c)
  <2> DEFINE o == <<file[c], statement[c]>>
  <2>1. CASE /\ Schema!Make(c, o)
             /\ IF statement[c] = Statements[file[c]]
                THEN Schema!Go(c, "record") /\ UNCHANGED statement
                ELSE UNCHANGED stage /\ statement' = [statement EXCEPT ![c] = @ + 1]
             /\ UNCHANGED <<file, existing, recorded, objects, versions>>
    <3>1. /\ stage[c] = "execute" /\ file[c] \in 1..Files
          /\ statement[c] \in 1..Statements[file[c]]
      <4>1. /\ stage[c] = "execute" /\ file[c] \in 1..Files + 1 /\ file[c] <= Files
            /\ statement[c] \in Nat \ {0} /\ statement[c] <= Statements[file[c]]
        BY <1>13 DEF Schema!Execute, Schema!NothingSkipped, Schema!NothingLeftBy, Schema!TypeOK
      <4>2. file[c] \in 1..Files
        BY <4>1
      <4>3. Statements[file[c]] \in Nat
        BY <4>2
      <4> QED
        BY <4>1, <4>2, <4>3
    <3>2. o \in Schema!Objects /\ created'[c] \subseteq created[c] \cup {o}
      BY <2>1, <3>1, ObjectFacts DEF Schema!Make, Schema!TypeOK
    <3>3. /\ file'[c] = file[c]
          /\ stage'[c] = "record" \/ (stage'[c] = "execute" /\ statement'[c] = statement[c] + 1)
      BY <2>1, <3>1 DEF Schema!Go, Schema!TypeOK
    <3>4. ASSUME NEW f \in 1..Files, NEW i \in 1..Statements[f], <<f, i>> \in created'[c]
          PROVE  Passed(c, f, i)'
      <4>1. (f = file[c] /\ i = statement[c]) \/ <<f, i>> \in created[c]
        BY <3>2, <3>4
      <4>2. f < file[c] \/ (f = file[c] /\ i <= statement[c])
        BY <3>1, <4>1 DEF OneMaker, Passed
      <4> QED
        BY <3>1, <3>3, <4>2 DEF Passed
    <3>5. Has(c)'
      BY <3>3, <3>4
    <3> QED
      BY <1>8, <2>1, <3>1, <3>2, <3>5
  <2> QED
    BY <1>6, <1>13, <2>1, Zenon DEF Schema!Execute, Schema!database
<1> QED
  BY <1>4, <1>5, <1>7, <1>9, <1>11, <1>12, <1>13 DEF Schema!Migrate

\* Only a commit changes the database.
LEMMA OnlyCommitWrites ==
    ASSUME Schema!TypeOK, NEW c \in Containers, Schema!Migrate(c) \/ Schema!Rollback(c),
           ~Schema!Commit(c)
    PROVE  UNCHANGED <<objects, versions>>
<1>1. Schema!Rollback(c) => UNCHANGED <<objects, versions>>
  BY DEF Schema!Rollback, Schema!database
<1>2. ASSUME NEW o, Schema!Block(c, o) \/ Schema!Collide(c, o)
      PROVE  UNCHANGED <<objects, versions>>
  BY <1>1, <1>2 DEF Schema!Block, Schema!Collide, Schema!database
<1>3. CASE Schema!EnsureTable(c)
  BY <1>2, <1>3 DEF Schema!EnsureTable, Schema!database
<1>4. CASE Schema!Execute(c)
  BY <1>2, <1>4 DEF Schema!Execute, Schema!database
<1>5. CASE Schema!Boot(c) \/ Schema!ReadVersions(c) \/ Schema!Record(c)
  BY <1>5 DEF Schema!Boot, Schema!ReadVersions, Schema!Record, Schema!database
<1> QED
  BY <1>1, <1>3, <1>4, <1>5 DEF Schema!Migrate

\* What a runner's step does to the place it has come to: it goes on from there
\* or leaves the transaction, and it goes past no file that is not recorded.
LEMMA Moves ==
    ASSUME SchemaInv, NEW c \in Containers, Schema!Migrate(c) \/ Schema!Rollback(c)
    PROVE  \/ /\ stage'[c] \in {"down", "up", "table", "read"}
              /\ recorded'[c] = {}
              /\ \/ created'[c] \subseteq created[c]
                 \/ stage[c] = "table" /\ stage'[c] = "read" /\ Schema!Make(c, Schema!Table)
           \/ /\ stage[c] = "read"
              /\ existing'[c] = versions /\ UNCHANGED created
              /\ Schema!Turn(c, versions, 1)
           \/ /\ stage[c] = "record"
              /\ UNCHANGED <<created, existing>>
              /\ Schema!Turn(c, existing[c], file[c] + 1)
           \/ /\ stage[c] = "execute" /\ stage'[c] = "execute"
              /\ UNCHANGED <<created, file, statement, existing, recorded>>
           \/ /\ stage[c] = "execute" /\ UNCHANGED <<file, existing, recorded>>
              /\ Schema!Make(c, <<file[c], statement[c]>>)
              /\ \/ stage'[c] = "record" /\ UNCHANGED statement
                 \/ stage'[c] = "execute" /\ statement'[c] = statement[c] + 1
<1> USE DEF SchemaInv, Schema!TypeOK, Schema!Go
<1>0. stage[c] \in {"down", "table", "read", "up"} => recorded[c] = {}
  BY DEF OneStale
<1>1. ASSUME Schema!Rollback(c) \/ Schema!Commit(c)
      PROVE  stage'[c] \in {"down", "up"} /\ recorded'[c] = {} /\ created'[c] = {}
  BY <1>1 DEF Schema!Rollback, Schema!Commit, Schema!End
<1>2. CASE Schema!Boot(c)
  BY <1>0, <1>2 DEF Schema!Boot
<1>3. CASE Schema!EnsureTable(c)
  <2>1. CASE Schema!Make(c, Schema!Table) /\ Schema!Go(c, "read") /\ UNCHANGED recorded
    BY <1>0, <1>3, <2>1 DEF Schema!EnsureTable
  <2>2. CASE Schema!Block(c, Schema!Table)
    BY <1>0, <1>3, <2>2 DEF Schema!EnsureTable, Schema!Block
  <2>3. CASE Schema!Collide(c, Schema!Table)
    BY <1>1, <2>3 DEF Schema!Collide
  <2> QED
    BY <1>3, <2>1, <2>2, <2>3 DEF Schema!EnsureTable
<1>4. CASE Schema!ReadVersions(c)
  BY <1>4 DEF Schema!ReadVersions
<1>5. CASE Schema!Record(c)
  BY <1>5 DEF Schema!Record
<1>6. CASE Schema!Execute(c)
  <2> DEFINE o == <<file[c], statement[c]>>
  <2>1. CASE /\ Schema!Make(c, o)
             /\ IF statement[c] = Statements[file[c]]
                THEN Schema!Go(c, "record") /\ UNCHANGED statement
                ELSE UNCHANGED stage /\ statement' = [statement EXCEPT ![c] = @ + 1]
             /\ UNCHANGED <<file, existing, recorded>>
    <3>1. CASE statement[c] = Statements[file[c]]
      BY <1>6, <2>1, <3>1 DEF Schema!Execute
    <3>2. CASE statement[c] # Statements[file[c]]
      BY <1>6, <2>1, <3>2 DEF Schema!Execute
    <3> QED
      BY <3>1, <3>2
  <2>2. CASE Schema!Block(c, o)
    BY <1>6, <2>2 DEF Schema!Execute, Schema!Block
  <2>3. CASE Schema!Collide(c, o)
    BY <1>1, <2>3 DEF Schema!Collide
  <2> QED
    BY <1>6, <2>1, <2>2, <2>3, Zenon DEF Schema!Execute
<1> QED
  BY <1>1, <1>2, <1>3, <1>4, <1>5, <1>6 DEF Schema!Migrate

\* Where a runner goes on to the next file, it has passed none that it must apply.
LEMMA TurnsPast ==
    ASSUME Schema!TypeOK, NEW c \in Containers, NEW done, NEW f \in Nat \ {0},
           Schema!Turn(c, done, f)
    PROVE  /\ stage'[c] \in {"execute", "commit"} /\ statement'[c] = 1
           /\ stage'[c] = "execute" => file'[c] \notin done
           /\ \A g \in 1..Files : g \notin done /\ g < file'[c] => g < f
<1> USE SchemaAssumption DEF Schema!TypeOK, Schema!Go
<1>1. CASE Schema!Pending(done, f) = {}
  <2>1. stage'[c] = "commit" /\ statement'[c] = 1
    BY <1>1 DEF Schema!Turn
  <2>2. ASSUME NEW g \in 1..Files, g \notin done PROVE g < f
    <3>1. g \notin f..Files
      BY <1>1, <2>2, Zenon DEF Schema!Pending
    <3> QED
      BY <3>1
  <2> QED
    BY <2>1, <2>2
<1>2. CASE Schema!Pending(done, f) # {}
  <2>1. PICK g \in Schema!Pending(done, f) :
            /\ \A h \in Schema!Pending(done, f) : g <= h
            /\ file' = [file EXCEPT ![c] = g]
    BY <1>2, Zenon DEF Schema!Turn
  <2>2. stage'[c] = "execute" /\ statement'[c] = 1 /\ file'[c] = g
    BY <1>2, <2>1 DEF Schema!Turn
  <2>3. g \notin done /\ g \in Nat
    BY <2>1 DEF Schema!Pending
  <2>4. \A h \in 1..Files : h \notin done /\ h < g => h < f
    BY <2>1, <2>3 DEF Schema!Pending
  <2> QED
    BY <2>2, <2>3, <2>4
<1> QED
  BY <1>1, <1>2

\* A commit completes the schema, and makes at most the one other runner stale.
LEMMA StaleStep ==
    ASSUME SchemaInv, NEW c \in Containers, Schema!Migrate(c) \/ Schema!Rollback(c)
    PROVE  OneStale'
<1> USE DEF OneStale
<1>1. \A d \in Containers \ {c} :
        /\ stage'[d] = stage[d] /\ file'[d] = file[d] /\ existing'[d] = existing[d]
        /\ recorded'[d] = recorded[d]
  BY SchemaGrows DEF SchemaInv
<1>2. CASE Schema!Commit(c)
  <2>1. objects' = Schema!Objects /\ versions' = 1..Files
    BY <1>2, CommitIsComplete
  <2>2. stage'[c] = "up" /\ recorded'[c] = {}
    BY <1>2 DEF SchemaInv, Schema!Commit, Schema!Go, Schema!End, Schema!TypeOK
  <2>3. ~Stale(c)'
    BY <2>2 DEF Stale
  <2>4. \A d, e \in Containers : d # e => d = c \/ e = c
    BY DEF Containers
  <2>5. Schema!Table \in objects'
    BY <2>1, ObjectFacts
  <2> QED
    BY <1>1, <2>1, <2>2, <2>3, <2>4, <2>5 DEF SchemaInv
<1>3. CASE ~Schema!Commit(c)
  <2>1. UNCHANGED <<objects, versions>>
    BY <1>3, OnlyCommitWrites DEF SchemaInv
  <2>2. \A d \in Containers \ {c} : Stale(d)' <=> Stale(d)
    BY <1>1, <2>1 DEF Stale
  <2>3. ASSUME Stale(c)' => Stale(c), stage'[c] = "execute" => file'[c] \notin existing'[c],
               recorded'[c] # {} => stage'[c] \in {"execute", "record", "commit"}
        PROVE  OneStale'
    <3>1. \A d \in Containers : Stale(d)' => Stale(d)
      BY <2>2, <2>3
    <3>2. \A d \in Containers :
            /\ stage'[d] = "execute" => file'[d] \notin existing'[d]
            /\ recorded'[d] # {} => stage'[d] \in {"execute", "record", "commit"}
      BY <1>1, <2>3 DEF SchemaInv
    <3> QED
      BY <2>1, <3>1, <3>2 DEF SchemaInv
  <2>4. CASE stage'[c] \in {"down", "up", "table", "read"} /\ recorded'[c] = {}
    BY <2>3, <2>4 DEF Stale
  <2>5. CASE stage[c] = "read" /\ existing'[c] = versions /\ Schema!Turn(c, versions, 1)
    <3>1. /\ stage'[c] \in {"execute", "commit"}
          /\ stage'[c] = "execute" => file'[c] \notin versions
      BY <2>5, TurnsPast DEF SchemaInv
    <3> QED
      BY <2>1, <2>3, <2>5, <3>1 DEF Stale
  <2>6. CASE stage[c] = "record" /\ existing' = existing
                /\ Schema!Turn(c, existing[c], file[c] + 1)
    <3>1. file[c] + 1 \in Nat \ {0}
      BY SchemaAssumption DEF SchemaInv, Schema!TypeOK
    <3>2. /\ stage'[c] \in {"execute", "commit"}
          /\ stage'[c] = "execute" => file'[c] \notin existing[c]
      BY <2>6, <3>1, TurnsPast DEF SchemaInv
    <3> QED
      BY <2>1, <2>3, <2>6, <3>2 DEF Stale
  <2>7. CASE stage[c] = "execute" /\ stage'[c] \in {"execute", "record"}
                /\ UNCHANGED <<file, existing>>
    BY <2>1, <2>3, <2>7 DEF Stale, SchemaInv
  <2> QED
    BY <2>4, <2>5, <2>6, <2>7, Moves
<1> QED
  BY <1>2, <1>3

\* What a runner has locked without making anything was committed after it read
\* the versions.
LEMMA IdleLocksAreStale ==
    ASSUME SchemaInv, NEW c \in Containers, created[c] = {}, NEW p \in Schema!Executed(c)
    PROVE  Stale(c) /\ objects = Schema!Objects
<1> USE SchemaAssumption DEF SchemaInv
<1>1. /\ p \in Schema!FileObjects /\ p[1] \notin existing[c]
      /\ stage[c] \in {"execute", "record", "commit"}
      /\ p[1] < file[c] \/ (p[1] = file[c] /\ (stage[c] = "record" \/ p[2] < statement[c]))
  BY DEF Schema!Executed
<1>2. PICK f \in 1..Files : p \in Schema!ObjectsOf(f)
  BY <1>1 DEF Schema!FileObjects
<1>3. PICK i \in 1..Statements[f] : p = <<f, i>>
  BY <1>2 DEF Schema!ObjectsOf
<1>4. Schema!NothingLeftBy(c) /\ Schema!Made(c) = objects /\ Schema!Table \in objects
  BY <1>1 DEF Schema!NothingSkipped, Schema!NothingLeftBy, Schema!Made
<1>5. p \in objects
  <2>1. CASE f < file[c]
    BY <1>1, <1>2, <1>4, <2>1 DEF Schema!NothingLeftBy
  <2>2. CASE f = file[c] /\ stage[c] = "record"
    BY <1>2, <1>4, <2>2 DEF Schema!NothingLeftBy
  <2>3. CASE f = file[c] /\ stage[c] # "record" /\ i < statement[c]
    <3>1. stage[c] = "execute"
      BY <1>1, <1>4, <2>3 DEF Schema!NothingLeftBy
    <3>2. statement[c] \in Nat /\ i \in 1..(statement[c] - 1)
      BY <2>3 DEF Schema!TypeOK
    <3> QED
      BY <1>3, <1>4, <2>3, <3>1, <3>2 DEF Schema!NothingLeftBy
  <2> QED
    BY <1>1, <1>3, <2>1, <2>2, <2>3
<1>6. f \in versions /\ f \notin existing[c]
  BY <1>1, <1>2, <1>3, <1>4, <1>5 DEF OneStale
<1>7. Stale(c) /\ versions = 1..Files
  BY <1>1, <1>6 DEF Stale, OneStale
<1>8. Schema!Objects \subseteq objects
  BY <1>4, <1>7, ObjectFacts DEF Schema!NothingSkipped
<1> QED
  BY <1>7, <1>8 DEF Schema!TypeOK

\* A runner that begins to work finds no other at work: the other would have
\* what is to be made already, and wait or be waited for at the same statement.
LEMMA NewcomerIsAlone ==
    ASSUME SchemaInv, NEW c \in Containers, NEW d \in Containers \ {c}, NEW o \in Schema!Objects,
           \/ stage[d] = "table" /\ o = Schema!Table
           \/ stage[d] = "execute" /\ o = <<file[d], statement[d]>>,
           Schema!Make(d, o), ~AtWork(d), o \in objects => stage[d] = "execute"
    PROVE  ~AtWork(c)
<1> SUFFICES ASSUME AtWork(c) PROVE FALSE
  OBVIOUS
<1> USE SchemaAssumption DEF SchemaInv
<1>1. created[d] = {} /\ Schema!NothingLeftBy(d)
  BY DEF AtWork, Schema!NothingSkipped
<1>2. created[c] = {} => Stale(c) /\ objects = Schema!Objects
  <2> SUFFICES ASSUME created[c] = {} PROVE Stale(c) /\ objects = Schema!Objects
    OBVIOUS
  <2>1. Schema!Executed(c) # {}
    BY DEF AtWork, Schema!Held
  <2> QED
    BY <2>1, IdleLocksAreStale
<1>3. CASE o \notin objects
  <2>1. created[c] = {}
    BY <1>3, MakerIsAlone
  <2> QED
    BY <1>2, <1>3, <2>1
<1>4. CASE o \in objects
  <2>1. stage[d] = "execute" /\ o = <<file[d], statement[d]>> /\ Schema!Table \in objects
    BY <1>1, <1>4 DEF Schema!NothingLeftBy, Schema!Made, Schema!Table, Schema!TypeOK
  <2>2. file[d] \in 1..Files /\ statement[d] \in 1..Statements[file[d]]
    <3>1. /\ file[d] \in 1..Files + 1 /\ file[d] <= Files /\ statement[d] \in Nat \ {0}
          /\ statement[d] <= Statements[file[d]]
      BY <1>1, <2>1 DEF Schema!TypeOK, Schema!NothingLeftBy
    <3>2. file[d] \in 1..Files
      BY <3>1
    <3>3. Statements[file[d]] \in Nat
      BY <3>2
    <3> QED
      BY <3>1, <3>2, <3>3
  <2>3. file[d] \in versions /\ file[d] \notin existing[d]
    BY <1>4, <2>1, <2>2, ObjectFacts DEF OneStale
  <2>4. Stale(d) /\ versions = 1..Files
    BY <2>1, <2>3 DEF Stale, OneStale
  <2>5. Schema!Objects \subseteq objects
    BY <2>1, <2>4, ObjectFacts DEF Schema!NothingSkipped
  <2>6. created[c] = {}
    BY <2>5 DEF OneMaker, Schema!TypeOK
  <2> QED
    BY <1>2, <2>4, <2>6 DEF OneStale
<1> QED
  BY <1>3, <1>4

\* Of two runners one at most has made or locked something that is not committed.
LEMMA AtWorkStep ==
    ASSUME SchemaInv, NEW c \in Containers, Schema!Migrate(c) \/ Schema!Rollback(c)
    PROVE  OneAtWork'
<1> USE SchemaAssumption
<1>0. Schema!TypeOK
  BY DEF SchemaInv
<1>1. \A d \in Containers \ {c} : AtWork(d)' <=> AtWork(d)
  <2>1. \A d \in Containers \ {c} :
            /\ stage'[d] = stage[d] /\ file'[d] = file[d] /\ statement'[d] = statement[d]
            /\ existing'[d] = existing[d] /\ created'[d] = created[d]
    BY <1>0, SchemaGrows
  <2>2. \A d \in Containers \ {c} : Schema!Executed(d)' = Schema!Executed(d)
    BY <2>1 DEF Schema!Executed
  <2>3. \A d \in Containers \ {c} : Schema!Held(d)' = Schema!Held(d)
    BY <2>2 DEF Schema!Held
  <2> QED
    BY <2>1, <2>3 DEF AtWork
<1>2. ASSUME AtWork(c)' => AtWork(c) PROVE OneAtWork'
  BY <1>1, <1>2 DEF SchemaInv, OneAtWork
<1>3. ASSUME created'[c] \subseteq created[c], Schema!Executed(c)' \subseteq Schema!Executed(c)
      PROVE  OneAtWork'
  BY <1>2, <1>3 DEF AtWork, Schema!Held
<1>4. ASSUME \A d \in Containers \ {c} : ~AtWork(d) PROVE OneAtWork'
  BY <1>1, <1>4 DEF OneAtWork
<1>5. ASSUME stage'[c] \notin {"execute", "record", "commit"} PROVE Schema!Executed(c)' = {}
  BY <1>5 DEF Schema!Executed
<1>6. CASE stage'[c] \in {"down", "up", "table", "read"} /\ created'[c] \subseteq created[c]
  BY <1>3, <1>5, <1>6
<1>7. CASE stage[c] = "table" /\ stage'[c] = "read" /\ Schema!Make(c, Schema!Table)
  <2>1. CASE Schema!Table \in objects
    <3>1. created'[c] = created[c]
      BY <1>0, <1>7, <2>1 DEF Schema!Make, Schema!TypeOK
    <3> QED
      BY <1>3, <1>5, <1>7, <3>1
  <2>2. CASE Schema!Table \notin objects
    BY <1>2, <1>4, <1>7, <2>2, NewcomerIsAlone, ObjectFacts DEF AtWork
  <2> QED
    BY <2>1, <2>2
<1>8. CASE stage[c] = "read" /\ existing'[c] = versions /\ UNCHANGED created
              /\ Schema!Turn(c, versions, 1)
  <2>1. /\ stage'[c] \in {"execute", "commit"} /\ statement'[c] = 1
        /\ \A g \in 1..Files : g \notin versions /\ g < file'[c] => g < 1
    BY <1>0, <1>8, TurnsPast
  <2>2. ASSUME NEW p \in Schema!Executed(c)' PROVE FALSE
    <3>1. /\ p \in Schema!FileObjects /\ p[1] \notin versions
          /\ p[1] < file'[c] \/ p[2] < 1
      BY <1>8, <2>1 DEF Schema!Executed
    <3>2. p[1] \in 1..Files /\ p[2] \in Nat \ {0}
      BY <3>1 DEF Schema!FileObjects, Schema!ObjectsOf
    <3> QED
      BY <2>1, <3>1, <3>2
  <2> QED
    BY <1>3, <1>8, <2>2
<1>9. CASE stage[c] = "record" /\ UNCHANGED <<created, existing>>
              /\ Schema!Turn(c, existing[c], file[c] + 1)
  <2>0. file[c] \in Nat /\ file[c] + 1 \in Nat \ {0}
    BY <1>0 DEF Schema!TypeOK
  <2>1. /\ stage'[c] \in {"execute", "commit"} /\ statement'[c] = 1
        /\ \A g \in 1..Files : g \notin existing[c] /\ g < file'[c] => g < file[c] + 1
    BY <1>0, <1>9, <2>0, TurnsPast
  <2>2. ASSUME NEW p \in Schema!Executed(c)' PROVE p \in Schema!Executed(c)
    <3>1. /\ p \in Schema!FileObjects /\ p[1] \notin existing[c]
          /\ p[1] < file'[c] \/ p[2] < 1
      BY <1>9, <2>1 DEF Schema!Executed
    <3>2. p[1] \in 1..Files /\ p[2] \in Nat \ {0}
      BY <3>1 DEF Schema!FileObjects, Schema!ObjectsOf
    <3>3. p[1] < file[c] + 1
      BY <2>1, <3>1, <3>2
    <3>4. p[1] < file[c] \/ p[1] = file[c]
      BY <2>0, <3>2, <3>3
    <3> QED
      BY <1>9, <3>1, <3>4 DEF Schema!Executed
  <2> QED
    BY <1>3, <1>9, <2>2
<1>10. CASE /\ stage[c] = "execute" /\ stage'[c] = "execute"
            /\ UNCHANGED <<created, file, statement, existing>>
  BY <1>3, <1>10 DEF Schema!Executed
<1>11. CASE stage[c] = "execute" /\ Schema!Make(c, <<file[c], statement[c]>>)
  <2>1. CASE AtWork(c)
    BY <1>2, <2>1
  <2>2. CASE ~AtWork(c)
    <3>1. <<file[c], statement[c]>> \in Schema!Objects
      <4>1. /\ file[c] \in 1..Files + 1 /\ file[c] <= Files /\ statement[c] \in Nat \ {0}
            /\ statement[c] <= Statements[file[c]]
        BY <1>11 DEF SchemaInv, Schema!NothingSkipped, Schema!TypeOK, Schema!NothingLeftBy
      <4>2. file[c] \in 1..Files
        BY <4>1
      <4>3. Statements[file[c]] \in Nat
        BY <4>2
      <4>4. statement[c] \in 1..Statements[file[c]]
        BY <4>1, <4>3
      <4> QED
        BY <4>2, <4>4, ObjectFacts
    <3> QED
      BY <1>4, <1>11, <2>2, <3>1, NewcomerIsAlone
  <2> QED
    BY <2>1, <2>2
<1> QED
  BY <1>6, <1>7, <1>8, <1>9, <1>10, <1>11, Moves

\* Neither waits for the other: one of them is not at work, and a version is
\* only inserted by the runner that has made what its file makes.
LEMMA NoOneWaitsBack ==
    ASSUME SchemaInv
    PROVE  Schema!NoCrosswiseWait
<1> SUFFICES ASSUME NEW c \in Containers, NEW d \in Containers, c # d,
                    Schema!WaitsFor(c, d), Schema!WaitsFor(d, c)
             PROVE  FALSE
  BY DEF Schema!NoCrosswiseWait
<1> USE SchemaAssumption DEF SchemaInv
<1>1. ASSUME NEW e \in Containers, NEW o, Schema!Hinders(e, o) PROVE AtWork(e)
  BY <1>1 DEF Schema!Hinders, AtWork
<1>2. ~(AtWork(c) /\ AtWork(d))
  BY DEF OneAtWork
<1>3. ASSUME NEW e \in Containers, NEW h \in Containers, e # h,
             stage[e] = "record", file[e] \in recorded[h]
      PROVE  FALSE
  <2>1. file[e] \in 1..Files /\ file[e] \notin versions
    BY <1>3 DEF Schema!TypeOK, Schema!ReportedOnce
  <2>2. /\ Schema!ObjectsOf(file[e]) \subseteq Schema!Made(e)
        /\ Schema!ObjectsOf(file[e]) \subseteq Schema!Made(h)
        /\ Schema!Table \in Schema!Made(e) /\ Schema!Table \in Schema!Made(h)
    <3>1. stage[h] \in {"execute", "record", "commit"}
      BY <1>3 DEF OneStale
    <3> QED
      BY <1>3, <3>1 DEF Schema!NothingSkipped, Schema!NothingLeftBy
  <2>3. PICK o \in Schema!ObjectsOf(file[e]) : TRUE
    <3>1. 1 \in 1..Statements[file[e]]
      BY <2>1
    <3> QED
      BY <2>1, <3>1, ObjectFacts
  <2>4. CASE Schema!Table \in objects
    <3>1. o \notin objects
      BY <2>1, <2>4 DEF OneStale
    <3> QED
      BY <1>3, <2>2, <3>1 DEF Schema!Made, OneMaker
  <2>5. CASE Schema!Table \notin objects
    BY <1>3, <2>2, <2>5 DEF Schema!Made, OneMaker
  <2> QED
    BY <2>4, <2>5
<1> QED
  BY <1>1, <1>2, <1>3 DEF Schema!WaitsFor

\* A step of a runner, or its end, keeps the invariant of the schema.
LEMMA SchemaStep ==
    ASSUME SchemaInv, NEW c \in Containers, Schema!Migrate(c) \/ Schema!Rollback(c)
    PROVE  SchemaInv'
  BY SchemaTypes, SchemaReports, SchemaSkips, MakersStep, StaleStep, AtWorkStep DEF SchemaInv

---------------------------------------------------------------------------

DeploymentInv == LoopInv /\ SchemaInv /\ (pc # "down" => stage["worker"] = "up")

\* A deployment starts in its invariant.
LEMMA DeploymentStart == DeploymentInit => DeploymentInv
<1> SUFFICES ASSUME DeploymentInit PROVE DeploymentInv
  OBVIOUS
<1>1. LoopInv /\ SchemaInv
  BY LoopInit, SchemaStart DEF DeploymentInit
<1>2. pc = "down"
  BY DEF DeploymentInit, Init
<1> QED
  BY <1>1, <1>2 DEF DeploymentInv

\* What the two invariants read: a step that leaves it alone keeps them.
LEMMA Unread ==
    /\ LoopInv /\ UNCHANGED vars => LoopInv'
    /\ SchemaInv /\ UNCHANGED schema => SchemaInv'
<1>1. LoopInv /\ UNCHANGED vars => LoopInv'
  BY LoopStep
<1>2. SchemaInv /\ UNCHANGED schema => SchemaInv'
  <2> SUFFICES ASSUME SchemaInv, UNCHANGED schema PROVE SchemaInv'
    OBVIOUS
  <2>1. /\ stage' = stage /\ file' = file /\ statement' = statement /\ existing' = existing
        /\ created' = created /\ recorded' = recorded /\ objects' = objects
        /\ versions' = versions
        /\ blocked' = blocked
    BY DEF schema
  <2>2. Schema!TypeOK'
    BY <2>1 DEF SchemaInv, Schema!TypeOK
  <2>3. Schema!ReportedOnce'
    BY <2>1 DEF SchemaInv, Schema!ReportedOnce
  <2>4. Schema!NothingSkipped'
    BY <2>1 DEF SchemaInv, Schema!NothingSkipped, Schema!UpMeansMigrated,
                Schema!NothingLeftBy, Schema!Made
  <2>5. OneMaker'
    BY <2>1 DEF SchemaInv, OneMaker, Passed
  <2>6. OneStale'
    BY <2>1 DEF SchemaInv, OneStale, Stale
  <2>7. \A c \in Containers : Schema!Held(c)' = Schema!Held(c)
    BY <2>1 DEF Schema!Held, Schema!Executed
  <2>8. OneAtWork'
    BY <2>1, <2>7 DEF SchemaInv, OneAtWork, AtWork
  <2> QED
    BY <2>2, <2>3, <2>4, <2>5, <2>6, <2>8 DEF SchemaInv
<1> QED
  BY <1>1, <1>2

\* Every step of a deployment keeps it.
LEMMA DeploymentStep == DeploymentInv /\ [DeploymentNext]_deployment => DeploymentInv'
<1> SUFFICES ASSUME DeploymentInv, [DeploymentNext]_deployment PROVE DeploymentInv'
  OBVIOUS
<1> USE DEF DeploymentInv
<1>0. "worker" \in Containers
  BY DEF Containers
\* the service goes on, or starts, and the schema stays as it is
<1>1. ASSUME [Next]_vars, UNCHANGED schema, pc' # "down" => stage["worker"] = "up"
      PROVE  DeploymentInv'
  BY <1>1, LoopStep, Unread DEF schema
<1>2. ASSUME NEW c \in Containers, MigrateContainer(c) PROVE DeploymentInv'
  <2>1. LoopInv' /\ SchemaInv' /\ pc' = pc
    BY <1>2, Unread, SchemaStep DEF MigrateContainer, vars
  <2>2. pc # "down" => stage'["worker"] = "up"
    <3>1. CASE c = "worker"
      <4>1. Schema!Migrate(c) => stage[c] # "up"
        BY DEF Schema!Migrate, Schema!Boot, Schema!EnsureTable, Schema!ReadVersions,
               Schema!Execute, Schema!Record, Schema!Commit
      <4> QED
        BY <1>2, <3>1, <4>1 DEF MigrateContainer
    <3>2. CASE c # "worker"
      <4>1. Schema!TypeOK /\ Schema!Migrate(c) /\ "worker" \in Containers \ {c}
        BY <1>0, <1>2, <3>2, Zenon DEF MigrateContainer, SchemaInv
      <4>2. stage'["worker"] = stage["worker"]
        BY <4>1, SchemaGrows
      <4> QED
        BY <4>2
    <3> QED
      BY <3>1, <3>2
  <2> QED
    BY <2>1, <2>2
<1>3. ASSUME NEW c \in Containers, DieMigrating(c) PROVE DeploymentInv'
  <2>1. SchemaInv'
    BY <1>3, SchemaStep DEF DieMigrating, Schema!Die
  <2>2. LoopInv'
    <3>1. UNCHANGED <<mode, pc, left, timer, backoff, connection, shutdown, queue, age,
                      stopping, errors>>
          /\ upsets' \in 0..MaxUpsets
      BY <1>3, LoopAssumption DEF DieMigrating, Upset, LoopInv, TypeOK
    <3>2. TypeOK'
      BY <3>1 DEF LoopInv, TypeOK, connection, queue
    <3>3. WaitsFit'
      BY <3>1 DEF LoopInv, WaitsFit, connection, queue, WaitLimit, QueueNotifyActive
    <3> QED
      BY <3>2, <3>3 DEF LoopInv
  <2>3. pc' # "down" => stage'["worker"] = "up"
    <3>1. pc' = pc /\ stage[c] # "up"
      BY <1>3 DEF DieMigrating
    <3>2. CASE c = "worker"
      BY <3>1, <3>2
    <3>3. CASE c # "worker"
      <4>1. Schema!TypeOK /\ Schema!Rollback(c) /\ "worker" \in Containers \ {c}
        BY <1>0, <1>3, <3>3, Zenon DEF DieMigrating, Schema!Die, SchemaInv
      <4>2. stage'["worker"] = stage["worker"]
        BY <4>1, SchemaGrows
      <4> QED
        BY <3>1, <4>2
    <3> QED
      BY <3>2, <3>3
  <2> QED
    BY <2>1, <2>2, <2>3
<1>4. CASE StartWorker
  BY <1>1, <1>4 DEF StartWorker, Next
<1>5. CASE RunWorker
  <2>1. pc # "down"
    BY <1>5 DEF RunWorker, Process, Check, Settle, PutBack, Defer, Lock, DrainErrorHolding,
                Raises, NoMessage, BatchFull, DrainError, Listen, StillConnected,
                ConnectFails, WaitFails, Notified, WaitOver, SleepOver
  <2> QED
    BY <1>1, <1>5, <2>1 DEF RunWorker, Next
<1>6. CASE WorkerExits \/ KillWorker
  <2>0. Schema!Rollback("worker")
    BY <1>6, Zenon DEF WorkerExits, KillWorker
  <2>1. SchemaInv'
    BY <1>0, <2>0, SchemaStep
  <2>2. LoopInv'
    BY <1>6, LoopStep DEF WorkerExits, KillWorker, Next
  <2>3. pc' = "down"
    BY <1>6 DEF WorkerExits, KillWorker, Exit, Kill, Halt
  <2> QED
    BY <2>1, <2>2, <2>3
<1>7. CASE ServeRequest
  <2>1. pc' = pc
    BY <1>7 DEF ServeRequest, Api, Enqueue, ProcessElsewhere
  <2> QED
    BY <1>1, <1>7, <2>1 DEF ServeRequest, Next
<1>8. CASE Around
  <2>1. pc' = pc
    BY <1>8 DEF Around, Surroundings, Notify, NotifyInVain, Sent, BecomeDue,
                ConnectionDrops, RequestShutdown, Tick
  <2> QED
    BY <1>1, <1>8, <2>1 DEF Around, Next
<1>9. CASE UNCHANGED deployment
  BY <1>1, <1>9 DEF deployment, vars
<1> QED
  BY <1>2, <1>3, <1>4, <1>5, <1>6, <1>7, <1>8, <1>9 DEF DeploymentNext

\* So it holds in every state.
LEMMA DeploymentIsInvariant == DeploymentSpec => []DeploymentInv
  BY DeploymentStart, DeploymentStep, PTL DEF DeploymentSpec

\* The worker never asks for a row on an incomplete schema, whichever
\* container dies or restarts while both migrate.
THEOREM WorkerHasItsSchema == DeploymentSpec => []DrainsOnFullSchema
<1>1. DeploymentInv => DrainsOnFullSchema
  BY DEF DeploymentInv, DrainsOnFullSchema, SchemaInv, Schema!NothingSkipped,
         Schema!UpMeansMigrated, Containers
<1> QED
  BY DeploymentIsInvariant, <1>1, PTL

\* However the two containers race, one of them reports a file as applied.
THEOREM MigrationsReportedOnce == DeploymentSpec => []ReportedOnce
<1>1. DeploymentInv => ReportedOnce
  BY DEF DeploymentInv, ReportedOnce, SchemaInv
<1> QED
  BY DeploymentIsInvariant, <1>1, PTL

\* The two runners never wait for each other: whichever tables the files alter
\* and index, in whichever order, the second runner is held up before it has
\* made or locked anything.
THEOREM MigrationsNeverDeadlock == DeploymentSpec => []NoCrosswiseWait
<1>1. DeploymentInv => NoCrosswiseWait
  BY NoOneWaitsBack DEF DeploymentInv, NoCrosswiseWait
<1> QED
  BY DeploymentIsInvariant, <1>1, PTL

\* The worker of a deployment, too, asks for every due row within WaitLimit.
THEOREM DeployedRowsAreSeen == DeploymentSpec => []SeenInTime
<1>1. DeploymentInv => SeenInTime
  BY DEF DeploymentInv, LoopInv, WaitsFit, SeenInTime
<1> QED
  BY DeploymentIsInvariant, <1>1, PTL

\* ... and honours a shutdown signal within it.
THEOREM DeployedShutdownIsHonoured == DeploymentSpec => []StopsInTime
<1>1. DeploymentInv => StopsInTime
  BY DEF DeploymentInv, LoopInv, WaitsFit, StopsInTime
<1> QED
  BY DeploymentIsInvariant, <1>1, PTL

============================================================================
