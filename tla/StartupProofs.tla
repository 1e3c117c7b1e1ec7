---------------------------- MODULE StartupProofs ----------------------------
(***************************************************************************)
(* Proofs about Startup, for any number of instances, tables and users.    *)
(***************************************************************************)
EXTENDS Startup, TLAPS

\* An instance that still tries to connect has an attempt left.
ConnectInv == \A i \in Instance : phase[i] = "connect" => attempt[i] < MaxRetries

\* Tables before the one an instance migrates exist, the one whose columns it compares, and
\* all of them once it counts.
TableInv ==
    \A i \in Instance :
        /\ \A k \in 1..(next[i] - 1) : Tables[k] \in tables
        /\ phase[i] = "columns" => Tables[next[i]] \in tables
        /\ phase[i] \in Seeding \cup {"serving"} => tables = Range(Tables)

\* The users are those of one instance, all of them, or none.
SeedInv ==
    /\ users = {} \/ \E i \in Instance : users = {i} \X SeedUser
    /\ \A i \in Instance : phase[i] = "serving" => users # {}

\* An instance has lost if it has failed for a conflict or will, unless it fails before.  One
\* whose lookup has failed has not: what it creates may have been there before anybody began.
Lost(i) ==
    \/ phase[i] = "conflict"
    \/ phase[i] = "create" /\ Tables[next[i]] \in tables
    \/ phase[i] = "seed" /\ users # {}

\* There is an instance that has not lost: the last one that created or inserted something.
AheadInv == Instance # {} => \E i \in Instance : ~Lost(i)

IInv == TypeOK /\ ConnectInv /\ TableInv /\ SeedInv /\ AheadInv

-----------------------------------------------------------------------------

LEMMA TablesFacts ==
  /\ Tables \in Seq(STRING)
  /\ Len(Tables) \in Nat
  /\ 1 <= Len(Tables)
  /\ Range(Tables) = {Tables[k] : k \in 1..Len(Tables)}
  /\ \A k, l \in 1..Len(Tables) : Tables[k] = Tables[l] => k = l
<1>1. Tables \in Seq(STRING) /\ Tables # <<>>
  BY StartupAssumption
<1>2. Len(Tables) \in Nat /\ DOMAIN Tables = 1..Len(Tables)
  BY <1>1
<1>3. 1 <= Len(Tables)
  BY <1>1, <1>2
<1>4. Range(Tables) = {Tables[k] : k \in 1..Len(Tables)}
  BY <1>2 DEF Range
<1>5. \A k, l \in 1..Len(Tables) : Tables[k] = Tables[l] => k = l
  BY <1>2, StartupAssumption DEF IsInjective
<1>6. QED
  BY <1>1, <1>2, <1>3, <1>4, <1>5

LEMMA InitInv == Init => IInv
<1> SUFFICES ASSUME Init PROVE IInv
  OBVIOUS
<1>1. TypeOK
  BY TablesFacts, StartupAssumption DEF Init, TypeOK, Migrating, Seeding, Failed
<1>2. TableInv
  BY DEF Init, TableInv, Seeding
<1>3. SeedInv
  BY DEF Init, SeedInv
<1>4. AheadInv
  BY DEF Init, AheadInv, Lost
<1>5. ConnectInv
  BY StartupAssumption DEF Init, ConnectInv
<1>6. QED
  BY <1>1, <1>2, <1>3, <1>4, <1>5 DEF IInv

Phases == {"connect", "serving"} \cup Migrating \cup Seeding \cup Failed

\* A table that exists takes the instance one position on, or to the seeding.
LEMMA MigratedType ==
  ASSUME NEW i \in Instance, TypeOK, Migrated(i)
  PROVE  /\ phase' \in [Instance -> Phases]
         /\ next' \in [Instance -> 1..Len(Tables)]
<1> USE TablesFacts DEF TypeOK, Phases, Migrating, Seeding, Failed
<1>1. CASE next[i] = Len(Tables)
  BY <1>1 DEF Migrated
<1>2. CASE next[i] # Len(Tables)
  <2>1. phase' = [phase EXCEPT ![i] = "hasTable"] /\ next' = [next EXCEPT ![i] = next[i] + 1]
    BY <1>2 DEF Migrated
  <2>2. next[i] + 1 \in 1..Len(Tables)
    BY <1>2
  <2>3. QED
    BY <2>1, <2>2
<1>3. QED
  BY <1>1, <1>2

LEMMA NextTypeOK == TypeOK /\ ConnectInv /\ [Next]_vars => TypeOK'
<1> SUFFICES ASSUME TypeOK, ConnectInv, [Next]_vars PROVE TypeOK'
  OBVIOUS
<1>0. /\ Phases = {"connect", "serving"} \cup Migrating \cup Seeding \cup Failed
      /\ phase \in [Instance -> Phases]
  BY DEF Phases, TypeOK
<1>1. ASSUME NEW i \in Instance, Connect(i) PROVE TypeOK'
  BY <1>1 DEF Connect, TypeOK, Migrating, Seeding, Failed
<1>2. ASSUME NEW i \in Instance, Retry(i) PROVE TypeOK'
  <2>1. phase' \in [Instance -> Phases]
    BY <1>2, <1>0 DEF GivesUp, Retry, Phases, Failed
  <2>2. attempt' \in [Instance -> 0..MaxRetries]
    <3>1. attempt' = [attempt EXCEPT ![i] = attempt[i] + 1] /\ attempt[i] < MaxRetries
      BY <1>2 DEF GivesUp, Retry, ConnectInv
    <3>2. attempt[i] + 1 \in 0..MaxRetries
      BY <3>1, StartupAssumption DEF TypeOK
    <3>3. QED
      BY <3>1, <3>2 DEF TypeOK
  <2>3. QED
    BY <1>0, <1>2, <2>1, <2>2 DEF GivesUp, Retry, TypeOK
<1>3. ASSUME NEW i \in Instance, HasTable(i) PROVE TypeOK'
  BY <1>3 DEF HasTable, TypeOK, Migrating, Seeding, Failed
<1>12. ASSUME NEW i \in Instance, MigrateColumns(i) PROVE TypeOK'
  BY <1>0, <1>12, MigratedType DEF MigrateColumns, TypeOK
<1>4. ASSUME NEW i \in Instance, CreateTable(i) PROVE TypeOK'
  <2>1. CASE tables' = tables \cup {Tables[next[i]]} /\ Migrated(i)
    <3>1. Tables[next[i]] \in Range(Tables)
      BY TablesFacts DEF TypeOK
    <3>2. QED
      BY <1>0, <1>4, <2>1, <3>1, MigratedType DEF CreateTable, TypeOK
  <2>2. CASE /\ phase' = [phase EXCEPT ![i] = IF @ = "guess" THEN "misled" ELSE "conflict"]
             /\ UNCHANGED <<tables, next>>
    BY <1>4, <2>2 DEF CreateTable, TypeOK, Migrating, Seeding, Failed
  <2>3. QED
    BY <1>4, <2>1, <2>2 DEF CreateTable
<1>5. ASSUME NEW i \in Instance, Count(i) PROVE TypeOK'
  BY <1>5 DEF SeedsIfEmpty, Count, TypeOK, Migrating, Seeding, Failed
<1>6. ASSUME NEW i \in Instance, Seed(i) PROVE TypeOK'
  BY <1>6 DEF Taken, Seed, TypeOK, Migrating, Seeding, Failed
<1>7. ASSUME NEW i \in Instance, StatementFails(i) PROVE TypeOK'
  BY <1>7 DEF StatementFails, TypeOK, Migrating, Seeding, Failed
<1>8. ASSUME NEW i \in Instance, Crash(i) PROVE TypeOK'
  BY <1>8 DEF Crash, TypeOK, Migrating, Seeding, Failed
<1>9. ASSUME NEW i \in Instance, Again(i) PROVE TypeOK'
  <2>1. 1 \in 1..Len(Tables) /\ 0 \in 0..MaxRetries
    BY TablesFacts, StartupAssumption
  <2>2. QED
    BY <1>9, <2>1 DEF Again, TypeOK, Migrating, Seeding, Failed
<1>10. CASE Database
  BY <1>10 DEF Database, TypeOK
<1>11. CASE UNCHANGED vars
  BY <1>11 DEF vars, TypeOK
<1>13. QED
  BY <1>1, <1>2, <1>3, <1>4, <1>5, <1>6, <1>7, <1>8, <1>9, <1>10, <1>11, <1>12
     DEF Next, Step, Over

LEMMA NextConnectInv == TypeOK /\ ConnectInv /\ [Next]_vars => ConnectInv'
<1> SUFFICES ASSUME TypeOK, ConnectInv, [Next]_vars PROVE ConnectInv'
  OBVIOUS
<1> USE DEF ConnectInv
<1>0. phase \in [Instance -> Phases] /\ attempt \in [Instance -> 0..MaxRetries]
  BY DEF Phases, TypeOK
<1>1. ASSUME NEW i \in Instance, Retry(i) PROVE ConnectInv'
  <2>1. attempt' = [attempt EXCEPT ![i] = attempt[i] + 1] /\ attempt[i] < MaxRetries
    BY <1>1 DEF GivesUp, Retry
  <2>2. CASE attempt[i] + 1 = MaxRetries
    BY <1>0, <1>1, <2>1, <2>2 DEF GivesUp, Retry
  <2>3. CASE attempt[i] + 1 # MaxRetries
    <3>1. attempt[i] + 1 < MaxRetries
      BY <1>0, <2>1, <2>3, StartupAssumption
    <3>2. QED
      BY <1>0, <1>1, <2>1, <2>3, <3>1 DEF GivesUp, Retry
  <2>4. QED
    BY <2>2, <2>3
<1>2. ASSUME NEW i \in Instance, Again(i) PROVE ConnectInv'
  BY <1>0, <1>2, StartupAssumption DEF Again
<1>3. ASSUME NEW i \in Instance,
             Connect(i) \/ Count(i) \/ Seed(i) \/ StatementFails(i) \/ Crash(i)
      PROVE  ConnectInv'
  BY <1>0, <1>3 DEF SeedsIfEmpty, Taken, Connect, Count, Seed, StatementFails, Crash
<1>4. ASSUME NEW i \in Instance, HasTable(i) \/ MigrateColumns(i) \/ CreateTable(i)
      PROVE  ConnectInv'
  BY <1>0, <1>4 DEF HasTable, MigrateColumns, CreateTable, Migrated
<1>5. CASE Database
  BY <1>5 DEF Database
<1>6. CASE UNCHANGED vars
  BY <1>6 DEF vars
<1>7. QED
  BY <1>1, <1>2, <1>3, <1>4, <1>5, <1>6 DEF Next, Step, Over

\* Once instance i is past its last table, all of them exist.
LEMMA MigratedTables ==
  ASSUME NEW i \in Instance, TypeOK, TableInv, tables \subseteq tables',
         tables' \subseteq Range(Tables), Tables[next[i]] \in tables', Migrated(i)
  PROVE  /\ \A k \in 1..(next'[i] - 1) : Tables[k] \in tables'
         /\ phase'[i] # "columns"
         /\ phase'[i] \in Seeding \cup {"serving"} => tables' = Range(Tables)
<1> USE TablesFacts DEF TypeOK
<1>1. \A k \in 1..next[i] : Tables[k] \in tables'
  <2>1. \A k \in 1..next[i] : k = next[i] \/ k \in 1..(next[i] - 1)
    OBVIOUS
  <2>2. QED
    BY <2>1 DEF TableInv
<1>2. CASE next[i] = Len(Tables)
  <2>1. tables' = Range(Tables)
    BY <1>1, <1>2
  <2>2. next'[i] = next[i] /\ phase'[i] = "count"
    BY <1>2 DEF Migrated
  <2>3. QED
    BY <1>1, <2>1, <2>2
<1>3. CASE next[i] # Len(Tables)
  <2>1. next'[i] = next[i] + 1 /\ phase'[i] = "hasTable"
    BY <1>3 DEF Migrated
  <2>2. next'[i] - 1 = next[i]
    BY <2>1
  <2>3. QED
    BY <1>1, <2>1, <2>2 DEF Seeding
<1>4. QED
  BY <1>2, <1>3

LEMMA NextTableInv == TypeOK /\ TypeOK' /\ TableInv /\ [Next]_vars => TableInv'
<1> SUFFICES ASSUME TypeOK, TypeOK', TableInv, [Next]_vars PROVE TableInv'
  OBVIOUS
<1>0. /\ phase \in [Instance -> Phases] /\ next \in [Instance -> 1..Len(Tables)]
      /\ tables \subseteq Range(Tables) /\ tables' \subseteq Range(Tables)
  BY DEF Phases, TypeOK
<1>1. ASSUME NEW i \in Instance, Tables[next[i]] \in tables', tables \subseteq tables', Migrated(i)
      PROVE  TableInv'
  <2>1. \A j \in Instance : j # i => next'[j] = next[j] /\ phase'[j] = phase[j]
    BY <1>0, <1>1 DEF Migrated
  <2>2. \A j \in Instance : j # i =>
           /\ \A k \in 1..(next'[j] - 1) : Tables[k] \in tables'
           /\ phase'[j] = "columns" => Tables[next'[j]] \in tables'
           /\ phase'[j] \in Seeding \cup {"serving"} => tables' = Range(Tables)
    BY <1>0, <1>1, <2>1 DEF TableInv
  <2>3. /\ \A k \in 1..(next'[i] - 1) : Tables[k] \in tables'
        /\ phase'[i] # "columns"
        /\ phase'[i] \in Seeding \cup {"serving"} => tables' = Range(Tables)
    BY <1>0, <1>1, MigratedTables
  <2>4. QED
    BY <2>2, <2>3 DEF TableInv
<1>2. ASSUME NEW i \in Instance, HasTable(i) PROVE TableInv'
  BY <1>0, <1>2 DEF HasTable, TableInv, Seeding
<1>9. ASSUME NEW i \in Instance, MigrateColumns(i) PROVE TableInv'
  BY <1>1, <1>9 DEF MigrateColumns, TableInv
<1>3. ASSUME NEW i \in Instance, CreateTable(i) PROVE TableInv'
  <2>1. CASE tables' = tables \cup {Tables[next[i]]} /\ Migrated(i)
    BY <1>1, <2>1
  <2>2. CASE /\ phase' = [phase EXCEPT ![i] = IF @ = "guess" THEN "misled" ELSE "conflict"]
             /\ UNCHANGED <<tables, next>>
    BY <1>0, <2>2 DEF TableInv, Seeding
  <2>3. QED
    BY <1>3, <2>1, <2>2 DEF CreateTable
<1>4. ASSUME NEW i \in Instance,
             Connect(i) \/ Retry(i) \/ Count(i) \/ Seed(i) \/ StatementFails(i) \/ Crash(i)
      PROVE  TableInv'
  <2>1. UNCHANGED <<tables, next>>
    BY <1>4 DEF GivesUp, SeedsIfEmpty, Taken, Connect, Retry, Count, Seed, StatementFails, Crash
  <2>2. \A j \in Instance :
           /\ phase'[j] = "columns" => phase[j] = "columns"
           /\ phase'[j] \in Seeding \cup {"serving"} => phase[j] \in Seeding \cup {"serving"}
    BY <1>0, <1>4 DEF GivesUp, SeedsIfEmpty, Taken, Connect, Retry, Count, Seed,
         StatementFails, Crash, Seeding, Migrating
  <2>3. QED
    BY <2>1, <2>2 DEF TableInv
<1>5. ASSUME NEW i \in Instance, Again(i) PROVE TableInv'
  BY <1>0, <1>5 DEF Again, TableInv, Seeding
<1>6. CASE Database
  BY <1>6 DEF Database, TableInv
<1>7. CASE UNCHANGED vars
  BY <1>7 DEF vars, TableInv
<1>8. QED
  BY <1>2, <1>3, <1>4, <1>5, <1>6, <1>7, <1>9 DEF Next, Step, Over

\* An insert by instance i is the first one: it finds no user.
LEMMA NextSeedInv == TypeOK /\ SeedInv /\ [Next]_vars => SeedInv'
<1> SUFFICES ASSUME TypeOK, SeedInv, [Next]_vars PROVE SeedInv'
  OBVIOUS
<1>0. phase \in [Instance -> Phases] /\ users \subseteq Instance \X SeedUser
  BY DEF Phases, TypeOK
<1>1. ASSUME NEW i \in Instance, Seed(i) PROVE SeedInv'
  <2>1. CASE /\ Names \cap SeedUser = {}
             /\ users' = users \cup ({i} \X SeedUser)
             /\ phase' = [phase EXCEPT ![i] = "serving"]
    <3>1. \A row \in users : row[2] \in Names \cap SeedUser
      BY <1>0 DEF Names
    <3>2. users = {} /\ users' = {i} \X SeedUser
      BY <2>1, <3>1
    <3>3. users' # {}
      <4>1. PICK n \in SeedUser : TRUE
        BY StartupAssumption
      <4>2. <<i, n>> \in users'
        BY <3>2, <4>1
      <4>3. QED
        BY <4>2
    <3>4. QED
      BY <3>2, <3>3 DEF SeedInv
  <2>2. CASE phase' = [phase EXCEPT ![i] = "conflict"] /\ UNCHANGED users
    BY <1>0, <2>2 DEF SeedInv
  <2>3. QED
    BY <1>1, <2>1, <2>2 DEF Taken, Seed
<1>2. ASSUME NEW i \in Instance, Count(i) PROVE SeedInv'
  BY <1>0, <1>2 DEF SeedsIfEmpty, Count, SeedInv
<1>3. ASSUME NEW i \in Instance,
             \/ Connect(i) \/ Retry(i) \/ HasTable(i) \/ MigrateColumns(i) \/ CreateTable(i)
             \/ StatementFails(i) \/ Crash(i) \/ Again(i)
      PROVE  SeedInv'
  <2>1. users' = users
    BY <1>3 DEF GivesUp, Connect, Retry, HasTable, MigrateColumns, CreateTable,
         StatementFails, Crash, Again
  <2>2. \A j \in Instance : phase'[j] = "serving" => phase[j] = "serving"
    BY <1>0, <1>3 DEF GivesUp, Connect, Retry, HasTable, MigrateColumns, CreateTable, Migrated,
         StatementFails, Crash, Again
  <2>3. QED
    BY <2>1, <2>2 DEF SeedInv
<1>4. CASE Database
  BY <1>4 DEF Database, SeedInv
<1>5. CASE UNCHANGED vars
  BY <1>5 DEF vars, SeedInv
<1>6. QED
  BY <1>1, <1>2, <1>3, <1>4, <1>5 DEF Next, Step, Over

\* Whoever creates or inserts something is ahead; every other step leaves the one that is
\* ahead there, or moves it where it has not lost.
LEMMA NextAheadInv == TypeOK /\ SeedInv /\ AheadInv /\ [Next]_vars => AheadInv'
<1> SUFFICES ASSUME TypeOK, SeedInv, AheadInv, [Next]_vars, Instance # {}
             PROVE  \E i \in Instance : ~Lost(i)'
  BY DEF AheadInv
<1>0. phase \in [Instance -> Phases] /\ users \subseteq Instance \X SeedUser
  BY DEF Phases, TypeOK
<1>1. PICK a \in Instance : ~Lost(a)
  BY DEF AheadInv
<1>2. ASSUME NEW i \in Instance, CreateTable(i), Tables[next[i]] \notin tables
      PROVE  ~Lost(i)'
  BY <1>0, <1>2 DEF CreateTable, Migrated, Lost
<1>3. ASSUME NEW i \in Instance, Seed(i), phase' = [phase EXCEPT ![i] = "serving"]
      PROVE  ~Lost(i)'
  BY <1>0, <1>3 DEF Lost
<1>4. ASSUME NEW i \in Instance, UNCHANGED <<tables, users>>, i # a,
             phase'[a] = phase[a], next'[a] = next[a]
      PROVE  ~Lost(a)'
  BY <1>1, <1>4 DEF Lost
<1>5. ASSUME NEW i \in Instance, CreateTable(i), Tables[next[i]] \in tables
      PROVE  ~Lost(a)'
  <2>1. CASE i = a
    <3>1. phase[a] = "guess"
      BY <1>1, <1>5, <2>1 DEF Lost, CreateTable
    <3>2. phase'[a] = "misled"
      BY <1>0, <1>5, <2>1, <3>1 DEF CreateTable
    <3>3. QED
      BY <3>2 DEF Lost
  <2>2. CASE i # a
    BY <1>0, <1>4, <1>5, <2>2 DEF CreateTable
  <2>3. QED
    BY <2>1, <2>2
<1>6. ASSUME NEW i \in Instance, Seed(i), phase' = [phase EXCEPT ![i] = "conflict"]
      PROVE  ~Lost(a)'
  <2>1. UNCHANGED users /\ users # {}
    BY <1>0, <1>6 DEF Taken, Seed, Names
  <2>2. i # a
    BY <1>1, <1>6, <2>1 DEF Taken, Lost, Seed
  <2>3. QED
    BY <1>0, <1>4, <1>6, <2>1, <2>2 DEF Taken, Seed
<1>7. ASSUME NEW i \in Instance, HasTable(i) \/ MigrateColumns(i) PROVE ~Lost(a)'
  <2>1. CASE i = a
    BY <1>0, <1>7, <2>1 DEF HasTable, MigrateColumns, Migrated, Lost
  <2>2. CASE i # a
    BY <1>0, <1>4, <1>7, <2>2 DEF HasTable, MigrateColumns, Migrated, TypeOK
  <2>3. QED
    BY <2>1, <2>2
<1>8. ASSUME NEW i \in Instance,
             Connect(i) \/ Retry(i) \/ Count(i) \/ StatementFails(i) \/ Crash(i) \/ Again(i)
      PROVE  ~Lost(a)'
  <2>1. CASE i = a
    BY <1>0, <1>8, <2>1 DEF GivesUp, SeedsIfEmpty, Connect, Retry, Count, StatementFails,
         Crash, Again, Lost
  <2>2. CASE i # a
    BY <1>0, <1>4, <1>8, <2>2 DEF GivesUp, SeedsIfEmpty, Connect, Retry, Count,
         StatementFails, Crash, Again, TypeOK
  <2>3. QED
    BY <2>1, <2>2
<1>9. CASE Database \/ UNCHANGED vars
  BY <1>1, <1>9 DEF Database, vars, Lost
<1>10. ASSUME NEW i \in Instance, CreateTable(i) PROVE \E j \in Instance : ~Lost(j)'
  BY <1>2, <1>5, <1>10
<1>11. ASSUME NEW i \in Instance, Seed(i) PROVE \E j \in Instance : ~Lost(j)'
  BY <1>3, <1>6, <1>11 DEF Taken, Seed
<1>12. QED
  BY <1>7, <1>8, <1>9, <1>10, <1>11 DEF Next, Step, Over

-----------------------------------------------------------------------------

\* The inductive invariant: types, tables created in order, one seeding, somebody ahead.
THEOREM Inductive == Spec => []IInv
<1>1. Init => IInv
  BY InitInv
<1>2. IInv /\ [Next]_vars => IInv'
  BY NextTypeOK, NextConnectInv, NextTableInv, NextSeedInv, NextAheadInv DEF IInv
<1>3. QED
  BY <1>1, <1>2, PTL DEF Spec

\* Every variable keeps its type, however often instances retry and start again.
THEOREM TypeCorrect == Spec => []TypeOK
<1>1. IInv => TypeOK
  BY DEF IInv
<1>2. QED
  BY <1>1, Inductive, PTL

\* No user is seeded twice, for any number of instances that count at the same time.
THEOREM SeededOnce == Spec => []OneRowPerUser
<1>1. IInv => OneRowPerUser
  BY DEF IInv, SeedInv, OneRowPerUser
<1>2. QED
  BY <1>1, Inductive, PTL

\* Whoever serves finds all tables and all users.
THEOREM SeededToServe == Spec => []ServingIsSeeded
<1>1. IInv => ServingIsSeeded
  <2> SUFFICES ASSUME IInv, NEW i \in Instance, phase[i] = "serving"
               PROVE  tables = Range(Tables) /\ Names = SeedUser
    BY DEF ServingIsSeeded
  <2>1. tables = Range(Tables)
    BY DEF IInv, TableInv
  <2>2. PICK j \in Instance : users = {j} \X SeedUser
    BY DEF IInv, SeedInv
  <2>3. Names = SeedUser
    <3>1. \A n \in SeedUser : <<j, n>> \in users /\ <<j, n>>[2] = n
      BY <2>2
    <3>2. \A row \in users : row[2] \in SeedUser
      BY <2>2
    <3>3. QED
      BY <3>1, <3>2 DEF Names
  <2>4. QED
    BY <2>1, <2>3
<1>2. QED
  BY <1>1, Inductive, PTL

\* However many instances start together, one of them does not lose to another.
THEOREM OneGoesAhead == Spec => []NotAllLose
<1>1. IInv => NotAllLose
  BY DEF IInv, AheadInv, Lost, NotAllLose
<1>2. QED
  BY <1>1, Inductive, PTL

-----------------------------------------------------------------------------
(* What instances never do to the database *)

\* No table is dropped, and the users, once seeded, are never touched again, by whichever
\* instance starts, fails, crashes or starts again.
Kept == tables \subseteq tables' /\ (users # {} => users' = users)

\* The users are inserted by one statement that the unique index refuses from then on.
THEOREM StorageKept == Spec => [][Kept]_vars
<1>1. TypeOK /\ [Next]_vars => [Kept]_vars
  <2> SUFFICES ASSUME TypeOK, [Next]_vars
               PROVE  Kept
    OBVIOUS
  <2>1. ASSUME NEW i \in Instance, Seed(i)
        PROVE  Kept
    <3>1. CASE users # {} /\ ~Taken
      <4>1. PICK row \in users : TRUE
        BY <3>1
      <4>2. row[2] \in Names \cap SeedUser
        BY <4>1 DEF Names, TypeOK
      <4>3. QED
        BY <3>1, <4>2 DEF Taken
    <3>2. QED
      BY <2>1, <3>1 DEF Seed, Kept
  <2>2. ASSUME NEW i \in Instance, CreateTable(i)
        PROVE  Kept
    BY <2>2 DEF CreateTable, Kept
  <2>3. CASE UNCHANGED <<tables, users>>
    BY <2>3 DEF Kept
  <2>4. QED
    BY <2>1, <2>2, <2>3 DEF Next, Step, Over, Connect, Retry, HasTable, MigrateColumns,
       Count, StatementFails, Crash, Again, Database, vars
<1>2. QED
  BY <1>1, TypeCorrect, PTL DEF Spec
=============================================================================
