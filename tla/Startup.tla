------------------------------- MODULE Startup -------------------------------
(***************************************************************************)
(* Starting instances of the service on one database: Start (cmd), up to   *)
(* the server, with connectWithRetry, MigrateTable and SeedTable           *)
(* (internal/db).  Migration looks for each table and then creates it,     *)
(* seeding counts the users and then inserts them: instances that start    *)
(* together race between the two, and the one that comes too late fails.   *)
(* gorm's HasTable has no error to return: a lookup that fails is a table  *)
(* that is not there, and the next statement tries to create it.           *)
(*                                                                         *)
(* Only the three tables and the seeded users are modelled; the unique     *)
(* index on user names is there when the users table is (gorm creates a    *)
(* missing index whether or not it finds the table).                       *)
(***************************************************************************)
EXTENDS Integers, Sequences, FiniteSets, Functions

CONSTANTS Instance,    \* processes that start on the database
          Tables,      \* the tables, in the order of their migration
          SeedUser,    \* names of the users to seed
          MaxRetries,  \* attempts of connectWithRetry
          Faults       \* what may go wrong: "db", "crash"

ASSUME StartupAssumption ==
    /\ Tables \in Seq(STRING) \ {<<>>}
    /\ IsInjective(Tables)
    /\ SeedUser # {}
    /\ MaxRetries \in Nat \ {0}

VARIABLES
    reachable,  \* the database answers
    tables,     \* tables that exist
    users,      \* rows <<i, name>> of the users table, i for the id instance i made up
    phase,      \* phase[i]: the step of Start it has come to, or how it ended
    attempt,    \* attempt[i]: failed attempts to connect
    next        \* next[i]: position in Tables of its migration

vars == <<reachable, tables, users, phase, attempt, next>>

\* "conflict": another instance was faster; "misled": the lookup of a table has failed, and
\* the table was there.
Failed == {"gaveUp", "conflict", "misled", "dbError", "crashed"}

\* "create" and "guess" are one place in the code, after a lookup that found no table and
\* after one that failed.
Migrating == {"hasTable", "columns", "create", "guess"}
Seeding == {"count", "seed"}

Init ==
    /\ reachable \in BOOLEAN
    /\ tables = {}
    /\ users = {}
    /\ phase = [i \in Instance |-> "connect"]
    /\ attempt = [i \in Instance |-> 0]
    /\ next = [i \in Instance |-> 1]

-----------------------------------------------------------------------------
(* connectWithRetry *)

Connect(i) ==
    /\ phase[i] = "connect"
    /\ reachable
    /\ phase' = [phase EXCEPT ![i] = "hasTable"]
    /\ UNCHANGED <<reachable, tables, users, attempt, next>>

\* Mutant: one attempt more than there are retries.
GivesUpLater(i) == attempt[i] = MaxRetries

GivesUp(i) == attempt[i] + 1 = MaxRetries

\* Mutant: failed attempts are not counted.
RetryForever(i) ==
    /\ phase[i] = "connect"
    /\ ~reachable
    /\ attempt' = [attempt EXCEPT ![i] = (@ + 1) % MaxRetries]
    /\ UNCHANGED <<reachable, tables, users, phase, next>>

\* A failed attempt is followed by a pause, the last one too, before Start gives up.
Retry(i) ==
    /\ phase[i] = "connect"
    /\ ~reachable
    /\ attempt' = [attempt EXCEPT ![i] = @ + 1]
    /\ phase' = [phase EXCEPT ![i] = IF GivesUp(i) THEN "gaveUp" ELSE "connect"]
    /\ UNCHANGED <<reachable, tables, users, next>>

-----------------------------------------------------------------------------
(* MigrateTable *)

\* Instance i is done with a table: on to the next one, or to the seeding.
Migrated(i) ==
    IF next[i] = Len(Tables)
    THEN phase' = [phase EXCEPT ![i] = "count"] /\ UNCHANGED next
    ELSE phase' = [phase EXCEPT ![i] = "hasTable"] /\ next' = [next EXCEPT ![i] = @ + 1]

HasTable(i) ==
    /\ phase[i] = "hasTable"
    /\ phase' = [phase EXCEPT ![i] =
                    IF ~reachable THEN "guess"
                    ELSE IF Tables[next[i]] \in tables THEN "columns" ELSE "create"]
    /\ UNCHANGED <<reachable, tables, users, attempt, next>>

\* The columns and indexes of a table that is there are compared with the model's.
MigrateColumns(i) ==
    /\ phase[i] = "columns"
    /\ reachable
    /\ Migrated(i)
    /\ UNCHANGED <<reachable, tables, users, attempt>>

\* CREATE TABLE fails if the table is there.
CreateTable(i) ==
    /\ phase[i] \in {"create", "guess"}
    /\ reachable
    /\ \/ /\ Tables[next[i]] \notin tables
          /\ tables' = tables \cup {Tables[next[i]]}
          /\ Migrated(i)
       \/ /\ Tables[next[i]] \in tables
          /\ phase' = [phase EXCEPT ![i] = IF @ = "guess" THEN "misled" ELSE "conflict"]
          /\ UNCHANGED <<tables, next>>
    /\ UNCHANGED <<reachable, users, attempt>>

-----------------------------------------------------------------------------
(* SeedTable *)

Names == {row[2] : row \in users}

\* Mutant: a table that is not empty is an error.
FailsIfSeeded == IF users = {} THEN "seed" ELSE "conflict"

SeedsIfEmpty == IF users = {} THEN "seed" ELSE "serving"

Count(i) ==
    /\ phase[i] = "count"
    /\ reachable
    /\ phase' = [phase EXCEPT ![i] = SeedsIfEmpty]
    /\ UNCHANGED <<reachable, tables, users, attempt, next>>

\* Mutant: the users are inserted one by one, and an error leaves those before it.
SeedRowByRow(i) ==
    /\ phase[i] = "seed"
    /\ reachable
    /\ \/ /\ \E S \in SUBSET (SeedUser \ Names) : users' = users \cup ({i} \X S)
          /\ phase' = [phase EXCEPT ![i] = "dbError"]
       \/ /\ Names = {}
          /\ users' = users \cup ({i} \X SeedUser)
          /\ phase' = [phase EXCEPT ![i] = "serving"]
    /\ UNCHANGED <<reachable, tables, attempt, next>>

\* Mutant: user names have no unique index.
NeverTaken == FALSE

Taken == Names \cap SeedUser # {}

\* One insert: of all the users, or of none if their names are taken by now.  After it,
\* Start makes the server and listens.
Seed(i) ==
    /\ phase[i] = "seed"
    /\ reachable
    /\ \/ /\ ~Taken
          /\ users' = users \cup ({i} \X SeedUser)
          /\ phase' = [phase EXCEPT ![i] = "serving"]
       \/ /\ Taken
          /\ phase' = [phase EXCEPT ![i] = "conflict"]
          /\ UNCHANGED users
    /\ UNCHANGED <<reachable, tables, attempt, next>>

\* A statement other than the lookup of a table fails because the database is away: Start
\* returns its error.
StatementFails(i) ==
    /\ phase[i] \in (Migrating \ {"hasTable"}) \cup Seeding
    /\ ~reachable
    /\ phase' = [phase EXCEPT ![i] = "dbError"]
    /\ UNCHANGED <<reachable, tables, users, attempt, next>>

-----------------------------------------------------------------------------
(* The world around *)

\* The database goes away or comes back, with what it had stored.
Database ==
    /\ "db" \in Faults
    /\ reachable' = ~reachable
    /\ UNCHANGED <<tables, users, phase, attempt, next>>

Crash(i) ==
    /\ "crash" \in Faults
    /\ phase[i] \notin Failed
    /\ phase' = [phase EXCEPT ![i] = "crashed"]
    /\ UNCHANGED <<reachable, tables, users, attempt, next>>

\* An instance that has failed is started again.
Again(i) ==
    /\ phase[i] \in Failed
    /\ phase' = [phase EXCEPT ![i] = "connect"]
    /\ attempt' = [attempt EXCEPT ![i] = 0]
    /\ next' = [next EXCEPT ![i] = 1]
    /\ UNCHANGED <<reachable, tables, users>>

Step(i) ==
    \/ Connect(i) \/ Retry(i)
    \/ HasTable(i) \/ MigrateColumns(i) \/ CreateTable(i)
    \/ Count(i) \/ Seed(i)
    \/ StatementFails(i)

\* Every instance serves.
Over ==
    /\ \A i \in Instance : phase[i] = "serving"
    /\ UNCHANGED vars

Next ==
    \/ \E i \in Instance : Step(i) \/ Crash(i) \/ Again(i)
    \/ Database
    \/ Over

Spec == Init /\ [][Next]_vars

\* An instance goes on whether or not the database answers.
FairSpec == Spec /\ \A i \in Instance : WF_vars(Step(i))

-----------------------------------------------------------------------------
(* Properties *)

TypeOK ==
    /\ reachable \in BOOLEAN
    /\ tables \subseteq Range(Tables)
    /\ users \subseteq Instance \X SeedUser
    /\ phase \in [Instance -> {"connect", "serving"} \cup Migrating \cup Seeding \cup Failed]
    /\ attempt \in [Instance -> 0..MaxRetries]
    /\ next \in [Instance -> 1..Len(Tables)]

\* Nobody is seeded twice, under two ids, by instances that all counted no user.
OneRowPerUser == \A row, other \in users : row[2] = other[2] => row = other

\* An instance that serves has every table and every user: no error, crash, lost race or
\* failed lookup of any instance leaves out a table, or leaves a half-seeded one that the
\* next count takes for a full one.
ServingIsSeeded ==
    (\E i \in Instance : phase[i] = "serving") => tables = Range(Tables) /\ Names = SeedUser

\* Instances that start together never all lose to one another: whoever found no table, or
\* no user, and was too late was so because another one had gone ahead, and that one does
\* not fail for it.  A start that is misled by an outage loses to nobody, and they may all
\* be misled.
NotAllLose == Instance # {} => \E i \in Instance : phase[i] # "conflict"

\* A start ends, served or failed, even if the database never answers.
StartEnds ==
    \A i \in Instance : phase[i] = "connect" ~> phase[i] \in Failed \cup {"serving"}
=============================================================================
