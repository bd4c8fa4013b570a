------------------------------- MODULE Database -------------------------------
(***************************************************************************)
(* DeterministicDatabase, packages/kernel/src/database.ts: the committed   *)
(* rows of one service and the transactions of its tasks, with the parts   *)
(* of DeterministicServiceRuntime that end them: a task that ends and a    *)
(* process that crashes or stops.                                          *)
(*                                                                         *)
(* A transaction works on a copy of the rows.  commit schedules an event   *)
(* at the present time and its task waits; the event decides against the   *)
(* rows of then and resumes the task.  A key stands for a table and a key. *)
(* A task may sleep between any two operations, so each is an action.      *)
(***************************************************************************)
EXTENDS Integers, Sequences, FiniteSets

CONSTANTS
    Tasks,           \* the controlled tasks the service runs at a time
    Keys,
    Rows,
    Checked,         \* the rows that pass the checks and have the unique fields
    UniqueFields,    \* [Rows -> the values of a row's unique fields]
    InitialRows,     \* definition.initial
    MaxTransactions, \* bound: transactions begun in a run
    MaxGeneration    \* bound: crashes and stops

\* An optional row is a set of at most one.
Optional(S) == {{}} \cup {{x} : x \in S}

Tables == [Keys -> Optional(Rows)]

\* #constraint: undefined.
Consistent(rows) ==
    \A k \in Keys : \A row \in rows[k] :
        /\ row \in Checked
        /\ \A other \in Keys \ {k} : \A r \in rows[other] : UniqueFields[r] # UniqueFields[row]

ASSUME DatabaseAssumption ==
    /\ MaxTransactions \in Nat /\ MaxGeneration \in Nat
    /\ Checked \subseteq Rows
    /\ UniqueFields \in [Rows -> Rows]
    /\ InitialRows \in Tables /\ Consistent(InitialRows)

VARIABLES
    committed,   \* #committed
    revision,    \* #revision
    counter,     \* #counter
    open,        \* #open: the open transaction of each task
    pending,     \* #pending: the submitted transactions
    agenda,      \* the commit events due now, in order
    tasks,       \* what each task does
    generation,  \* the process generation of the service
    outcome      \* the outcome of the last commit that was answered

vars == <<committed, revision, counter, open, pending, agenda, tasks, generation, outcome>>

Change == [before : Optional(Rows), after : Optional(Rows)]

Transaction == [id : Nat, task : Tasks, generation : Nat, base : Nat,
                snapshot : Tables, writes : [Keys -> Optional(Change)], staged : BOOLEAN]

-----------------------------------------------------------------------------
(* Parts of the operations                                                  *)

\* The rows x started from: a first write keeps the row it found.
Before(x) == [k \in Keys |-> IF x.writes[k] = {} THEN x.snapshot[k]
                             ELSE UNION {c.before : c \in x.writes[k]}]

\* changes: a row that was inserted and deleted again is none.
Changes(x) == {k \in Keys : \E c \in x.writes[k] : c.before # {} \/ c.after # {}}

\* The candidate: the committed rows with the changes of x.
Candidate(x) == [k \in Keys |-> IF k \in Changes(x) THEN x.snapshot[k] ELSE committed[k]]

\* Faulty variant: only a row that the transaction itself wrote can conflict.
ConflictingRows(x) == \E k \in Changes(x) : \E c \in x.writes[k] : c.before # committed[k]

Conflicting(x) == revision # x.base

Acceptable(x) == Consistent(Candidate(x))

\* A new transaction of t.
Begun(t) == [id |-> counter, task |-> t, generation |-> generation, base |-> revision,
             snapshot |-> committed, writes |-> [k \in Keys |-> {}], staged |-> FALSE]

\* Faulty variant: the next transaction is given the same number.
BeginReusing(t) ==
    /\ counter < MaxTransactions
    /\ counter' = counter

\* The number of a new transaction: #counter++.
TakeNumber(t) ==
    /\ counter < MaxTransactions
    /\ counter' = counter + 1

-----------------------------------------------------------------------------
(* The operations of a task                                                 *)

\* A work of the service starts a controlled task.
Start(t) ==
    /\ tasks[t] = "none"
    /\ tasks' = [tasks EXCEPT ![t] = "running"]
    /\ UNCHANGED <<committed, revision, counter, open, pending, agenda, generation, outcome>>

Begin(t) ==
    /\ tasks[t] = "running" /\ open[t] = {}
    /\ TakeNumber(t)
    /\ open' = [open EXCEPT ![t] = {Begun(t)}]
    /\ UNCHANGED <<committed, revision, pending, agenda, tasks, generation, outcome>>

\* #write
Write(x, k, after) ==
    /\ open' = [open EXCEPT ![x.task] =
                   {[x EXCEPT !.snapshot[k] = after, !.staged = TRUE,
                              !.writes[k] = {[before |-> Before(x)[k], after |-> after]}]}]
    /\ UNCHANGED <<committed, revision, counter, pending, agenda, tasks, generation, outcome>>

\* insert of an absent key, update of a present one.
Put(t, k, row) == tasks[t] = "running" /\ \E x \in open[t] : Write(x, k, {row})

Delete(t, k) == tasks[t] = "running" /\ \E x \in open[t] : x.snapshot[k] # {} /\ Write(x, k, {})

Rollback(t) ==
    /\ tasks[t] = "running" /\ open[t] # {}
    /\ open' = [open EXCEPT ![t] = {}]
    /\ UNCHANGED <<committed, revision, counter, pending, agenda, tasks, generation, outcome>>

\* commit, and the task waits.  Before it does it may begin the next one.
Commit(t) ==
    /\ tasks[t] = "running"
    /\ \E x \in open[t] :
          /\ pending' = pending \cup {x}
          /\ agenda' = Append(agenda, x.id)
    /\ tasks' = [tasks EXCEPT ![t] = "waiting"]
    /\ \/ /\ open' = [open EXCEPT ![t] = {}]
          /\ UNCHANGED counter
       \/ /\ TakeNumber(t)
          /\ open' = [open EXCEPT ![t] = {Begun(t)}]
    /\ UNCHANGED <<committed, revision, generation, outcome>>

\* Faulty variant: the transaction a task leaves open stays open.
LeftOpenBehind(t) == open[t]

\* #finish rolls back what the task leaves open.
LeftOpen(t) == {}

\* The task ends, completed or failed.
Finish(t) ==
    /\ tasks[t] = "running"
    /\ tasks' = [tasks EXCEPT ![t] = "none"]
    /\ open' = [open EXCEPT ![t] = LeftOpen(t)]
    /\ UNCHANGED <<committed, revision, counter, pending, agenda, generation, outcome>>

-----------------------------------------------------------------------------
(* The events                                                               *)

\* operations.complete: the outcome resumes the task.
Answer(x, result) ==
    /\ outcome' = [id |-> x.id, result |-> result]
    /\ tasks' = [tasks EXCEPT ![x.task] = "running"]

Reject(x) ==
    /\ \/ Answer(x, "COMMIT_FAILED")
       \/ Conflicting(x) /\ Answer(x, "TRANSACTION_CONFLICT")
       \/ ~Conflicting(x) /\ ~Acceptable(x) /\ Answer(x, "CONSTRAINT_VIOLATION")
    /\ UNCHANGED <<committed, revision>>

Accept(x) ==
    /\ ~Conflicting(x) /\ Acceptable(x)
    /\ committed' = Candidate(x)
    /\ revision' = IF x.staged THEN revision + 1 ELSE revision
    /\ Answer(x, "committed")

\* #dispatch: inert if the transaction is no longer pending.
Dispatch ==
    /\ agenda # <<>>
    /\ agenda' = Tail(agenda)
    /\ LET found == {x \in pending : x.id = Head(agenda)}
       IN  /\ pending' = pending \ found
           /\ \/ found = {} /\ UNCHANGED <<committed, revision, tasks, outcome>>
              \/ \E x \in found : Reject(x) \/ Accept(x)
    /\ UNCHANGED <<counter, open, generation>>

\* abandonGeneration, of the pending ones.
Abandoned(g) == {x \in pending : x.generation = g}

\* A crash or a stop: #transition rolls the open transactions back, cancels
\* the pending ones and abandons the tasks.
Crash ==
    /\ generation < MaxGeneration
    /\ open' = [t \in Tasks |-> {x \in open[t] : x.generation # generation}]
    /\ pending' = pending \ Abandoned(generation)
    /\ tasks' = [t \in Tasks |-> "none"]
    /\ generation' = generation + 1
    /\ UNCHANGED <<committed, revision, counter, agenda, outcome>>

Init ==
    /\ committed = InitialRows
    /\ revision = 0 /\ counter = 0 /\ generation = 0
    /\ open = [t \in Tasks |-> {}]
    /\ pending = {} /\ agenda = <<>>
    /\ tasks = [t \in Tasks |-> "none"]
    /\ outcome = [id |-> 0, result |-> "none"]

Next ==
    \/ Dispatch \/ Crash
    \/ \E t \in Tasks :
          \/ Start(t) \/ Begin(t) \/ Rollback(t) \/ Commit(t) \/ Finish(t)
          \/ \E k \in Keys : Delete(t, k) \/ \E row \in Rows : Put(t, k, row)

Spec == Init /\ [][Next]_vars

-----------------------------------------------------------------------------
(* Properties                                                               *)

\* Every variable stays in its type; a transaction's number and base were
\* given before.
TypeOK ==
    /\ committed \in Tables
    /\ revision \in Nat /\ counter \in Nat /\ generation \in Nat
    /\ open \in [Tasks -> SUBSET Transaction]
    /\ pending \subseteq Transaction
    /\ agenda \in Seq(Nat)
    /\ tasks \in [Tasks -> {"none", "running", "waiting"}]
    /\ outcome \in [id : Nat, result : {"none", "committed", "COMMIT_FAILED",
                                        "TRANSACTION_CONFLICT", "CONSTRAINT_VIOLATION"}]
    /\ \A x \in pending \cup UNION {open[t] : t \in Tasks} : x.id < counter /\ x.base <= revision

\* A task waits exactly for a commit that is pending, whose event is due
\* once; what is open belongs to a task that is there, and nothing of an
\* earlier process is left: no task waits for ever and none finds a
\* transaction that is not its own.
TransactionsMatch ==
    /\ \A t \in Tasks :
          /\ tasks[t] = "waiting" <=> \E x \in pending : x.task = t
          /\ \A x \in open[t] : tasks[t] # "none" /\ x.task = t /\ x.generation = generation
    /\ \A x \in pending :
          /\ x.generation = generation
          /\ \E i \in DOMAIN agenda : agenda[i] = x.id
          /\ \A y \in pending : (y.task = x.task \/ y.id = x.id) => y = x
    /\ \A i, j \in DOMAIN agenda : i # j => agenda[i] # agenda[j]

\* To the tasks the database is a serial store (DB-INV-2, DB-INV-4): a
\* commit is atomic over the very rows its transaction started from, only an
\* overtaken one is told of a conflict, a crash keeps what is committed and
\* nothing else (DB-INV-3).
Seen(x, submitted) == [id |-> x.id, task |-> x.task, start |-> Before(x), local |-> x.snapshot,
                       wrote |-> x.staged, overtaken |-> x.base # revision, submitted |-> submitted]

Active == {Seen(x, TRUE) : x \in pending} \cup {Seen(x, FALSE) : x \in UNION {open[t] : t \in Tasks}}

Serial == INSTANCE SerialStore WITH
    store <- committed, active <- Active, Numbers <- 0..(MaxTransactions - 1)

ImplementsSerialStore == Serial!Spec
=============================================================================
