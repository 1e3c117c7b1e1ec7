----------------------------- MODULE UserHistory -----------------------------
(***************************************************************************)
(* Saving what a user has been shown: the goroutine that runs Fethcher.    *)
(* SaveUserTransactionsHistory (internal/core), which validates the        *)
(* request's token once more, and TransactionRepository.SaveUserHistory    *)
(* (internal/repository), which reads the user's rows, leaves out what it  *)
(* has read and inserts the rest.  Two such goroutines of one user race    *)
(* between the read and the insert, on the unique index idx_user_tx.       *)
(***************************************************************************)
EXTENDS Integers, Sequences, FiniteSets, Storage

CONSTANTS Job,      \* calls of SaveUserTransactionsHistory
          User,     \* subjects of tokens
          Hash,     \* hashes of transactions
          Batches,  \* the lists of hashes a call may carry: functions into Hash
          Faults    \* what may go wrong: "db", "token" (it expires), "halt"

ASSUME HistoryAssumption ==
    /\ "stranger" \notin User
    /\ \A b \in Batches :
          DOMAIN b # {} /\ IsFiniteSet(DOMAIN b) /\ Range(b) \subseteq Hash

VARIABLES
    history,  \* rows <<user, hash>> of the user_transactions table
    job,      \* job[j]: "idle", "validate", "read", "insert" or how it ended
    who,      \* who[j]: the subject of its token, "stranger" if it is not valid
    batch,    \* batch[j]: the hashes it is to save
    known     \* known[j]: the hashes it has read

vars == <<history, job, who, batch, known>>

Running == {"validate", "read", "insert"}

\* The hashes of user u in the table.
HashesOf(u) == {h \in Hash : <<u, h>> \in history}

Init ==
    /\ history = {}
    /\ job = [j \in Job |-> "idle"]
    /\ who = [j \in Job |-> "stranger"]
    /\ batch = [j \in Job |-> <<>>]
    /\ known = [j \in Job |-> {}]

-----------------------------------------------------------------------------

\* The handler starts the goroutine: a token came with the request, records go back.
Start(j, u, b) ==
    /\ job[j] = "idle"
    /\ job' = [job EXCEPT ![j] = "validate"]
    /\ who' = [who EXCEPT ![j] = u]
    /\ batch' = [batch EXCEPT ![j] = b]
    /\ UNCHANGED <<history, known>>

\* Mutant: the error of the validation is logged and the job goes on.
Lenient(j) == TRUE

Valid(j) == who[j] \in User

Validate(j) ==
    /\ job[j] = "validate"
    /\ \/ Valid(j) /\ job' = [job EXCEPT ![j] = "read"]
       \/ /\ who[j] \notin User \/ "token" \in Faults
          /\ job' = [job EXCEPT ![j] = "invalid"]
    /\ UNCHANGED <<history, who, batch, known>>

\* Mutant: the rows of every user are taken for the user's own.
AllHashes(j) == {row[2] : row \in history}

OwnHashes(j) == HashesOf(who[j])

Read(j) ==
    /\ job[j] = "read"
    /\ \/ /\ known' = [known EXCEPT ![j] = OwnHashes(j)]
          /\ job' = [job EXCEPT ![j] = "insert"]
       \/ /\ "db" \in Faults
          /\ job' = [job EXCEPT ![j] = "failed"]
          /\ UNCHANGED known
    /\ UNCHANGED <<history, who, batch>>

\* Hashes of the batch that were not there when the table was read.
Fresh(j) == [i \in {k \in DOMAIN batch[j] : batch[j][k] \notin known[j]} |-> batch[j][i]]

\* Mutant: the unique index is on the hash alone.
UniqueByHash(j) == Accepts({row[2] : row \in history}, Fresh(j))

\* gorm and the unique index of user and hash accept the rows.
Unique(j) == Accepts(HashesOf(who[j]), Fresh(j))

\* Mutant: the rows are inserted one by one, and those before the refused one stay.
InsertRowByRow(j) ==
    /\ job[j] = "insert"
    /\ history' = history \cup {<<who[j], h>> : h \in Range(Fresh(j))}
    /\ job' = [job EXCEPT ![j] = IF Unique(j) THEN "recorded" ELSE "refused"]
    /\ UNCHANGED <<who, batch, known>>

\* Mutant: an insert is tried again until it is accepted.
InsertRetries(j) ==
    /\ job[j] = "insert" /\ Unique(j)
    /\ history' = history \cup {<<who[j], h>> : h \in Range(Fresh(j))}
    /\ job' = [job EXCEPT ![j] = "recorded"]
    /\ UNCHANGED <<who, batch, known>>

\* One insert, of all or nothing; of an empty list if everything was there (an error too).
Insert(j) ==
    /\ job[j] = "insert"
    /\ \/ /\ Unique(j)
          /\ history' = history \cup {<<who[j], h>> : h \in Range(Fresh(j))}
          /\ job' = [job EXCEPT ![j] = "recorded"]
       \/ /\ ~Unique(j)
          /\ job' = [job EXCEPT ![j] = "refused"]
          /\ UNCHANGED history
       \/ /\ "db" \in Faults
          /\ job' = [job EXCEPT ![j] = "failed"]
          /\ UNCHANGED history
    /\ UNCHANGED <<who, batch, known>>

\* The process ends; goroutines under way are gone, the table stays.
Halt ==
    /\ "halt" \in Faults
    /\ job' = [j \in Job |-> IF job[j] \in Running THEN "killed" ELSE job[j]]
    /\ UNCHANGED <<history, who, batch, known>>

Step(j) == Validate(j) \/ Read(j) \/ Insert(j)

\* Every job has ended.
Over ==
    /\ \A j \in Job : job[j] \notin Running \cup {"idle"}
    /\ UNCHANGED vars

Next ==
    \/ \E j \in Job : Step(j) \/ \E u \in User \cup {"stranger"}, b \in Batches : Start(j, u, b)
    \/ Halt
    \/ Over

Spec == Init /\ [][Next]_vars

FairSpec == Spec /\ \A j \in Job : WF_vars(Step(j))

-----------------------------------------------------------------------------
(* Properties *)

TypeOK ==
    /\ history \subseteq User \X Hash
    /\ job \in [Job -> Running \cup {"idle", "recorded", "refused", "failed", "invalid", "killed"}]
    /\ who \in [Job -> User \cup {"stranger"}]
    /\ batch \in [Job -> Batches \cup {<<>>}]
    /\ known \in [Job -> SUBSET Hash]

\* The rows job j is about.
Rows(j) == {<<who[j], h>> : h \in Range(batch[j])}

\* A row of a user comes from a job of that user that carried the hash: nobody's history
\* shows what somebody else has asked for.
OwnRequestsOnly ==
    \A row \in history : \E j \in Job : job[j] = "recorded" /\ row \in Rows(j)

\* A job that has recorded has recorded its whole batch, for good, although it inserted only
\* what it had not read before.
RecordedIsThere == \A j \in Job : job[j] = "recorded" => Rows(j) \subseteq history

\* A job is refused for three reasons only: there was nothing new, its batch named a new
\* hash twice, or another job of the same user recorded one of its hashes meanwhile.
RefusedForAReason ==
    \A j \in Job : job[j] = "refused" =>
        \/ DOMAIN Fresh(j) = {}
        \/ ~IsInjective(Fresh(j))
        \/ \E k \in Job \ {j} : /\ job[k] = "recorded" /\ who[k] = who[j]
                                /\ Range(Fresh(k)) \cap Range(Fresh(j)) # {}

\* A refused job for one hash has lost nothing.
SingleIsThere ==
    \A j \in Job : job[j] = "refused" /\ Cardinality(DOMAIN batch[j]) = 1
        => Rows(j) \subseteq history

\* README.md:9: "Maintains per-user history of all transactions queried".
AllIsThere == \A j \in Job : job[j] \in {"recorded", "refused"} => Rows(j) \subseteq history

\* Every job comes to an end.
JobsEnd == \A j \in Job : job[j] = "validate" ~> job[j] \notin Running

\* The ledger's view of a job.
Outcome(j) == IF job[j] = "idle" THEN "none"
              ELSE IF job[j] \in Running THEN "open"
              ELSE IF job[j] = "recorded" THEN "recorded" ELSE "dropped"

\* The jobs keep the ledger's promise: all or nothing, and nothing goes away.
Ledger == INSTANCE HistoryLedger WITH
    User <- User \cup {"stranger"},
    entry <- [j \in Job |-> Rows(j)],
    outcome <- [j \in Job |-> Outcome(j)]

KeepsLedger == Ledger!Spec
=============================================================================
