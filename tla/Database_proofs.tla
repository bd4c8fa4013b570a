--------------------------- MODULE Database_proofs ---------------------------
(***************************************************************************)
(* Theorems about Database, for any tasks, keys, rows and constraints that *)
(* satisfy its assumption.                                                 *)
(***************************************************************************)
EXTENDS Database, TLAPS

-----------------------------------------------------------------------------
(* Transactions                                                             *)

LEMMA BeginType ==
    ASSUME TypeOK, NEW t \in Tasks
    PROVE  /\ Begun(t) \in Transaction
           /\ Begun(t).id = counter /\ Begun(t).task = t /\ Begun(t).base = revision
           /\ Begun(t).generation = generation
  <1>1. [k \in Keys |-> {}] \in [Keys -> Optional(Change)]
    BY DEF Optional
  <1> QED
    BY <1>1 DEF Begun, Transaction, TypeOK

LEMMA BeforeType ==
    ASSUME NEW x \in Transaction
    PROVE  Before(x) \in Tables
  <1>1. ASSUME NEW k \in Keys, x.writes[k] # {} PROVE UNION {c.before : c \in x.writes[k]} \in Optional(Rows)
    <2>1. x.writes[k] \in Optional(Change)
      BY DEF Transaction
    <2>2. PICK c \in Change : x.writes[k] = {c}
      BY <1>1, <2>1 DEF Optional
    <2>3. UNION {d.before : d \in x.writes[k]} = c.before
      BY <2>2
    <2> QED
      BY <2>2, <2>3 DEF Change
  <1>2. \A k \in Keys : x.snapshot[k] \in Optional(Rows)
    BY DEF Transaction, Tables
  <1> QED
    BY <1>1, <1>2 DEF Before, Tables

\* x after a write of key k.
Written(x, k, after) == [x EXCEPT !.snapshot[k] = after, !.staged = TRUE,
                                  !.writes[k] = {[before |-> Before(x)[k], after |-> after]}]

LEMMA WrittenFields ==
    ASSUME NEW x \in Transaction, NEW k \in Keys, NEW after \in Optional(Rows)
    PROVE  Written(x, k, after) =
              [id |-> x.id, task |-> x.task, generation |-> x.generation, base |-> x.base,
               snapshot |-> [x.snapshot EXCEPT ![k] = after],
               writes |-> [x.writes EXCEPT ![k] = {[before |-> Before(x)[k], after |-> after]}],
               staged |-> TRUE]
  <1> DEFINE w == {[before |-> Before(x)[k], after |-> after]}
  <1>1. Written(x, k, after) = [x EXCEPT !.snapshot = [x.snapshot EXCEPT ![k] = after],
                                         !.staged = TRUE,
                                         !.writes = [x.writes EXCEPT ![k] = w]]
    BY DEF Written, Transaction
  <1> HIDE DEF w
  <1>2. Written(x, k, after) = [id |-> x.id, task |-> x.task, generation |-> x.generation, base |-> x.base,
                                snapshot |-> [x.snapshot EXCEPT ![k] = after],
                                writes |-> [x.writes EXCEPT ![k] = w], staged |-> TRUE]
    BY <1>1 DEF Transaction
  <1> QED
    BY <1>2 DEF w

LEMMA WrittenType ==
    ASSUME NEW x \in Transaction, NEW k \in Keys, NEW after \in Optional(Rows)
    PROVE  /\ Written(x, k, after) \in Transaction
           /\ Written(x, k, after).id = x.id /\ Written(x, k, after).task = x.task
           /\ Written(x, k, after).base = x.base /\ Written(x, k, after).generation = x.generation
  <1> DEFINE w == {[before |-> Before(x)[k], after |-> after]}
  <1>1. Before(x)[k] \in Optional(Rows)
    BY BeforeType DEF Tables
  <1>2. w \in Optional(Change)
    BY <1>1 DEF Optional, Change
  <1> HIDE DEF w
  <1>3. [x.snapshot EXCEPT ![k] = after] \in Tables /\ [x.writes EXCEPT ![k] = w] \in [Keys -> Optional(Change)]
    BY <1>2 DEF Transaction, Tables
  <1>4. Written(x, k, after) = [id |-> x.id, task |-> x.task, generation |-> x.generation, base |-> x.base,
                                snapshot |-> [x.snapshot EXCEPT ![k] = after],
                                writes |-> [x.writes EXCEPT ![k] = w], staged |-> TRUE]
    BY WrittenFields DEF w
  <1> QED
    BY <1>3, <1>4 DEF Transaction

LEMMA WrittenRows ==
    ASSUME NEW x \in Transaction, NEW k \in Keys, NEW after \in Optional(Rows), NEW y, y = Written(x, k, after)
    PROVE  /\ \A j \in Keys \ {k} : y.snapshot[j] = x.snapshot[j] /\ y.writes[j] = x.writes[j]
           /\ y.snapshot[k] = after
           /\ y.writes[k] = {[before |-> Before(x)[k], after |-> after]}
           /\ y.staged = TRUE
  <1> DEFINE w == {[before |-> Before(x)[k], after |-> after]}
  <1>1. y = [id |-> x.id, task |-> x.task, generation |-> x.generation, base |-> x.base,
             snapshot |-> [x.snapshot EXCEPT ![k] = after],
             writes |-> [x.writes EXCEPT ![k] = w], staged |-> TRUE]
    BY WrittenFields DEF w
  <1> HIDE DEF w
  <1>2. x.snapshot \in [Keys -> Optional(Rows)] /\ x.writes \in [Keys -> Optional(Change)]
    BY DEF Transaction, Tables
  <1> QED
    BY <1>1, <1>2 DEF w

LEMMA WriteIsWritten ==
    ASSUME NEW x, NEW k, NEW after, Write(x, k, after)
    PROVE  open' = [open EXCEPT ![x.task] = {Written(x, k, after)}]
  BY DEF Write, Written

\* The rows the constraints are checked on, and are replaced by, are rows.
LEMMA CandidateType ==
    ASSUME TypeOK, NEW x \in Transaction
    PROVE  Candidate(x) \in Tables
  BY DEF Candidate, Transaction, Tables, TypeOK

-----------------------------------------------------------------------------
(* Type correctness                                                         *)

\* The transactions and the answers of a commit event.
LEMMA DispatchType == ASSUME TypeOK, Dispatch PROVE TypeOK'
  <1> DEFINE found == {x \in pending : x.id = Head(agenda)}
  <1>1. /\ agenda' = Tail(agenda) /\ pending' = pending \ found
        /\ counter' = counter /\ open' = open /\ generation' = generation
    BY DEF Dispatch
  <1>2. agenda' \in Seq(Nat) /\ pending' \subseteq pending
    BY <1>1 DEF TypeOK, Dispatch
  <1>3. /\ committed' \in Tables /\ revision' \in Nat /\ revision' >= revision
        /\ tasks' \in [Tasks -> {"none", "running", "waiting"}]
        /\ outcome' \in [id : Nat, result : {"none", "committed", "COMMIT_FAILED",
                                             "TRANSACTION_CONFLICT", "CONSTRAINT_VIOLATION"}]
    <2>1. CASE UNCHANGED <<committed, revision, tasks, outcome>>
      BY <2>1 DEF TypeOK
    <2>2. ASSUME NEW x \in pending, Reject(x) \/ Accept(x)
          PROVE  <1>3
      <3>1. x \in Transaction
        BY DEF TypeOK
      <3>2. ASSUME NEW result \in {"committed", "COMMIT_FAILED", "TRANSACTION_CONFLICT", "CONSTRAINT_VIOLATION"},
                   Answer(x, result)
            PROVE  /\ tasks' \in [Tasks -> {"none", "running", "waiting"}]
                   /\ outcome' \in [id : Nat, result : {"none", "committed", "COMMIT_FAILED",
                                                        "TRANSACTION_CONFLICT", "CONSTRAINT_VIOLATION"}]
        BY <3>1, <3>2 DEF Answer, TypeOK, Transaction
      <3>3. CASE Reject(x)
        BY <3>2, <3>3 DEF Reject, TypeOK
      <3>4. CASE Accept(x)
        BY <3>1, <3>2, <3>4, CandidateType DEF Accept, TypeOK
      <3> QED
        BY <2>2, <3>3, <3>4
    <2> QED
      BY <2>1, <2>2 DEF Dispatch
  <1> QED
    BY <1>1, <1>2, <1>3 DEF TypeOK, Transaction

LEMMA OperationType ==
    ASSUME TypeOK, NEW t \in Tasks
    PROVE  /\ Start(t) \/ Rollback(t) \/ Finish(t) => TypeOK'
           /\ Begin(t) => TypeOK'
           /\ Commit(t) => TypeOK'
           /\ \A k \in Keys : Delete(t, k) => TypeOK'
           /\ \A k \in Keys, row \in Rows : Put(t, k, row) => TypeOK'
  <1>1. ASSUME Start(t) \/ Rollback(t) \/ Finish(t) PROVE TypeOK'
    <2>1. /\ open' \in [Tasks -> SUBSET Transaction] /\ \A u \in Tasks : open'[u] \subseteq open[u]
          /\ tasks' \in [Tasks -> {"none", "running", "waiting"}]
          /\ UNCHANGED <<committed, revision, counter, pending, agenda, generation, outcome>>
      BY <1>1 DEF Start, Rollback, Finish, LeftOpen, TypeOK
    <2> QED
      BY <2>1 DEF TypeOK
  <1>2. ASSUME Begin(t) PROVE TypeOK'
    <2>1. /\ open' \in [Tasks -> SUBSET Transaction]
          /\ \A u \in Tasks : open'[u] \subseteq open[u] \cup {Begun(t)}
      BY <1>2, BeginType DEF Begin, TypeOK
    <2>2. counter' = counter + 1 /\ UNCHANGED <<committed, revision, pending, agenda, tasks, generation, outcome>>
      BY <1>2 DEF Begin, TakeNumber
    <2> QED
      BY <2>1, <2>2, BeginType DEF TypeOK, Transaction
  <1>3. ASSUME Commit(t) PROVE TypeOK'
    <2>1. PICK x \in open[t] : pending' = pending \cup {x} /\ agenda' = Append(agenda, x.id)
      BY <1>3 DEF Commit
    <2>2. x \in Transaction /\ x.id \in Nat
      BY DEF TypeOK, Transaction
    <2>3. pending' \subseteq Transaction /\ agenda' \in Seq(Nat)
      BY <2>1, <2>2 DEF TypeOK
    <2>4. /\ tasks' \in [Tasks -> {"none", "running", "waiting"}]
          /\ UNCHANGED <<committed, revision, generation, outcome>>
      BY <1>3 DEF Commit, TypeOK
    <2>5. /\ open' \in [Tasks -> SUBSET Transaction] /\ counter' \in Nat /\ counter' >= counter
          /\ \A u \in Tasks : \A y \in open'[u] : y.id < counter' /\ y.base <= revision
      <3>1. CASE open' = [open EXCEPT ![t] = {}] /\ UNCHANGED counter
        BY <3>1 DEF TypeOK
      <3>2. CASE TakeNumber(t) /\ open' = [open EXCEPT ![t] = {Begun(t)}]
        <4>1. counter' = counter + 1
          BY <3>2 DEF TakeNumber
        <4>2. \A u \in Tasks : open'[u] \subseteq open[u] \cup {Begun(t)}
          BY <3>2 DEF TypeOK
        <4> QED
          BY <3>2, <4>1, <4>2, BeginType DEF TypeOK, Transaction
      <3> QED
        BY <1>3, <3>1, <3>2 DEF Commit
    <2> QED
      BY <2>1, <2>2, <2>3, <2>4, <2>5 DEF TypeOK, Transaction
  <1>4. ASSUME NEW x \in open[t], NEW k \in Keys, NEW after \in Optional(Rows), Write(x, k, after)
        PROVE  TypeOK'
    <2>1. x \in Transaction /\ x.id < counter /\ x.base <= revision /\ x.task \in Tasks
      BY DEF TypeOK, Transaction
    <2> DEFINE y == Written(x, k, after)
    <2>4. /\ y \in Transaction /\ y.id < counter /\ y.base <= revision
          /\ open' = [open EXCEPT ![x.task] = {y}]
      BY <1>4, <2>1, WriteIsWritten, WrittenType
    <2> HIDE DEF y
    <2>2. /\ open' \in [Tasks -> SUBSET Transaction]
          /\ \A u \in Tasks : open'[u] \subseteq open[u] \cup {y}
      BY <2>1, <2>4 DEF TypeOK
    <2>3. UNCHANGED <<committed, revision, counter, pending, agenda, tasks, generation, outcome>>
      BY <1>4 DEF Write
    <2> QED
      BY <2>2, <2>3, <2>4 DEF TypeOK
  <1>5. \A row \in Rows : {row} \in Optional(Rows)
    BY DEF Optional
  <1>6. {} \in Optional(Rows)
    BY DEF Optional
  <1>7. \A k \in Keys : Delete(t, k) => TypeOK'
    BY <1>4, <1>6 DEF Delete
  <1>8. \A k \in Keys, row \in Rows : Put(t, k, row) => TypeOK'
    BY <1>4, <1>5 DEF Put
  <1> QED
    BY <1>1, <1>2, <1>3, <1>7, <1>8

\* The database keeps its types, and no transaction is numbered or based
\* beyond what was given.
THEOREM TypeCorrectness == Spec => []TypeOK
  <1>1. Init => TypeOK
    BY DatabaseAssumption DEF Init, TypeOK
  <1>2. TypeOK /\ [Next]_vars => TypeOK'
    <2>1. ASSUME TypeOK, Crash PROVE TypeOK'
      <3>1. /\ open' \in [Tasks -> SUBSET Transaction] /\ \A u \in Tasks : open'[u] \subseteq open[u]
            /\ pending' \subseteq pending /\ tasks' \in [Tasks -> {"none", "running", "waiting"}]
            /\ generation' \in Nat /\ UNCHANGED <<committed, revision, counter, agenda, outcome>>
        BY <2>1 DEF Crash, Abandoned, TypeOK
      <3> QED
        BY <2>1, <3>1 DEF TypeOK
    <2>2. ASSUME TypeOK, UNCHANGED vars PROVE TypeOK'
      BY <2>2 DEF TypeOK, vars
    <2>3. ASSUME TypeOK, Next PROVE TypeOK'
      BY <2>1, <2>3, DispatchType, OperationType DEF Next
    <2> QED
      BY <2>2, <2>3
  <1> QED
    BY <1>1, <1>2, PTL DEF Spec

-----------------------------------------------------------------------------
(* The transactions of the tasks                                            *)

\* Numbers: those in the agenda were given, no open transaction has one of
\* them, and no two open ones have the same.
Numbered ==
    /\ \A i \in DOMAIN agenda : agenda[i] < counter
    /\ \A t \in Tasks : \A x \in open[t] : \A i \in DOMAIN agenda : agenda[i] # x.id
    /\ \A t, u \in Tasks : \A x \in open[t], y \in open[u] : x.id = y.id => x = y

AtMostOneOpen == \A t \in Tasks : \A x, y \in open[t] : x = y

MatchInv == TransactionsMatch /\ Numbered /\ AtMostOneOpen

\* The events of a sequence of commit events are distinct.
Distinct(s) == \A i, j \in DOMAIN s : i # j => s[i] # s[j]

LEMMA AppendEvent ==
    ASSUME NEW s \in Seq(Nat), NEW n \in Nat, Distinct(s), \A i \in DOMAIN s : s[i] # n
    PROVE  /\ Distinct(Append(s, n))
           /\ \A i \in DOMAIN Append(s, n) : Append(s, n)[i] = n \/ \E j \in DOMAIN s : Append(s, n)[i] = s[j]
           /\ \E i \in DOMAIN Append(s, n) : Append(s, n)[i] = n
           /\ \A j \in DOMAIN s : \E i \in DOMAIN Append(s, n) : Append(s, n)[i] = s[j]
  <1>1. /\ DOMAIN Append(s, n) = 1..(Len(s) + 1) /\ DOMAIN s = 1..Len(s) /\ Len(s) \in Nat
        /\ Append(s, n)[Len(s) + 1] = n
        /\ \A j \in 1..Len(s) : Append(s, n)[j] = s[j]
    OBVIOUS
  <1>2. \A i \in DOMAIN Append(s, n) : i = Len(s) + 1 \/ (i \in DOMAIN s /\ i # Len(s) + 1)
    BY <1>1
  <1>3. \A i \in DOMAIN Append(s, n) : Append(s, n)[i] = n \/ \E j \in DOMAIN s : Append(s, n)[i] = s[j]
    BY <1>1, <1>2
  <1>4. \A j \in DOMAIN s : j \in DOMAIN Append(s, n) /\ Append(s, n)[j] = s[j]
    BY <1>1
  <1>5. Len(s) + 1 \in DOMAIN Append(s, n)
    BY <1>1
  <1>6. ASSUME NEW i \in DOMAIN Append(s, n), NEW j \in DOMAIN Append(s, n), i # j
        PROVE  Append(s, n)[i] # Append(s, n)[j]
    <2>1. CASE i \in DOMAIN s /\ j \in DOMAIN s
      BY <1>4, <1>6, <2>1 DEF Distinct
    <2>2. CASE i = Len(s) + 1 /\ j \in DOMAIN s
      BY <1>1, <1>4, <2>2
    <2>3. CASE j = Len(s) + 1 /\ i \in DOMAIN s
      BY <1>1, <1>4, <2>3
    <2> QED
      BY <1>2, <1>6, <2>1, <2>2, <2>3
  <1>7. Distinct(Append(s, n))
    BY <1>6 DEF Distinct
  <1> QED
    BY <1>1, <1>3, <1>4, <1>5, <1>7

LEMMA TailEvent ==
    ASSUME NEW s \in Seq(Nat), s # <<>>, Distinct(s)
    PROVE  /\ Distinct(Tail(s)) /\ Tail(s) \in Seq(Nat)
           /\ \A i \in DOMAIN Tail(s) : Tail(s)[i] # Head(s) /\ \E j \in DOMAIN s : Tail(s)[i] = s[j]
           /\ \A j \in DOMAIN s : s[j] # Head(s) => \E i \in DOMAIN Tail(s) : Tail(s)[i] = s[j]
  <1>1. /\ DOMAIN Tail(s) = 1..(Len(s) - 1) /\ DOMAIN s = 1..Len(s) /\ Len(s) \in Nat \ {0}
        /\ Head(s) = s[1] /\ \A i \in 1..(Len(s) - 1) : Tail(s)[i] = s[i + 1]
        /\ Tail(s) \in Seq(Nat)
    OBVIOUS
  <1>2. ASSUME NEW j \in DOMAIN s, s[j] # Head(s)
        PROVE  j - 1 \in DOMAIN Tail(s) /\ Tail(s)[j - 1] = s[j]
    BY <1>1, <1>2
  <1>3. ASSUME NEW i \in DOMAIN Tail(s)
        PROVE  i + 1 \in DOMAIN s /\ i + 1 # 1 /\ 1 \in DOMAIN s /\ Tail(s)[i] = s[i + 1]
    BY <1>1
  <1>4. ASSUME NEW i \in DOMAIN Tail(s), NEW j \in DOMAIN Tail(s), i # j
        PROVE  Tail(s)[i] # Tail(s)[j]
    BY <1>1, <1>3, <1>4 DEF Distinct
  <1>5. ASSUME NEW i \in DOMAIN Tail(s) PROVE Tail(s)[i] # Head(s) /\ \E j \in DOMAIN s : Tail(s)[i] = s[j]
    BY <1>1, <1>3 DEF Distinct
  <1>6. Distinct(Tail(s))
    BY <1>4 DEF Distinct
  <1> QED
    BY <1>1, <1>2, <1>5, <1>6

\* What changes no number and takes nothing from the agenda or the pending.
LEMMA OpenOnly ==
    ASSUME TypeOK, MatchInv, NEW t \in Tasks, NEW S \in SUBSET Transaction,
           open' = [open EXCEPT ![t] = S],
           \A x \in S : \E y \in open[t] : x.id = y.id /\ x.task = y.task /\ x.generation = y.generation,
           \A x, y \in S : x = y,
           UNCHANGED <<counter, pending, agenda, generation>>,
           tasks' \in [Tasks -> {"none", "running", "waiting"}],
           \A u \in Tasks : (tasks'[u] = "waiting" <=> tasks[u] = "waiting"),
           \A u \in Tasks : open'[u] # {} /\ tasks[u] # "none" => tasks'[u] # "none"
    PROVE  MatchInv'
  <1>1. \A u \in Tasks : open'[u] = IF u = t THEN S ELSE open[u]
    BY DEF TypeOK
  <1>2. \A u \in Tasks : \A x \in open'[u] : \E y \in open[u] :
            /\ x.id = y.id /\ x.task = y.task /\ x.generation = y.generation
    BY <1>1
  <1>3. \A u \in Tasks : \A x, y \in open'[u] : x = y
    BY <1>1 DEF MatchInv, AtMostOneOpen
  <1>4. \A u \in Tasks : \A x \in open'[u] : x.task = u /\ x.generation = generation' /\ tasks'[u] # "none"
    BY <1>2 DEF MatchInv, TransactionsMatch
  <1>5. TransactionsMatch'
    BY <1>4 DEF MatchInv, TransactionsMatch
  <1>0. \A u, v \in Tasks : \A x \in open[u], y \in open[v] : x.id = y.id => x = y
    BY DEF MatchInv, Numbered
  <1>6. \A u, v \in Tasks : \A x \in open'[u], y \in open'[v] : x.id = y.id => x = y
    <2> TAKE u, v \in Tasks
    <2> TAKE x \in open'[u], y \in open'[v]
    <2> HAVE x.id = y.id
    <2>1. PICK x0 \in open[u] : x.id = x0.id /\ x.task = x0.task
      BY <1>2
    <2>2. PICK y0 \in open[v] : y.id = y0.id /\ y.task = y0.task
      BY <1>2
    <2>5. x0.id = y0.id
      BY <2>1, <2>2
    <2>3. x0 = y0
      BY <1>0, <2>5
    <2>4. u = v
      BY <1>4, <2>1, <2>2, <2>3
    <2> QED
      BY <1>3, <2>4
  <1>7. \A u \in Tasks : \A x \in open'[u] : \A i \in DOMAIN agenda' : agenda'[i] # x.id
    BY <1>2 DEF MatchInv, Numbered
  <1> QED
    BY <1>3, <1>5, <1>6, <1>7 DEF MatchInv, Numbered, AtMostOneOpen

LEMMA InitMatch == Init => MatchInv
  BY DEF Init, MatchInv, TransactionsMatch, Numbered, AtMostOneOpen

LEMMA WriteMatch ==
    ASSUME TypeOK, MatchInv, NEW t \in Tasks, NEW x \in open[t], tasks[t] = "running",
           NEW k \in Keys, NEW after \in Optional(Rows), Write(x, k, after)
    PROVE  MatchInv'
  <1> DEFINE y == Written(x, k, after)
  <1>1. x \in Transaction /\ x.task = t
    BY DEF TypeOK, MatchInv, TransactionsMatch
  <1>8. y \in Transaction /\ y.id = x.id /\ y.task = x.task /\ y.generation = x.generation
    BY <1>1, WrittenType
  <1>9. open' = [open EXCEPT ![x.task] = {y}]
    BY WriteIsWritten
  <1>2. /\ y \in Transaction /\ y.id = x.id /\ y.task = x.task /\ y.generation = x.generation
        /\ open' = [open EXCEPT ![t] = {y}]
    BY <1>1, <1>8, <1>9
  <1>3. UNCHANGED <<counter, pending, agenda, generation, tasks>>
    BY DEF Write
  <1> HIDE DEF y
  <1>4. \A u \in Tasks : open'[u] # {} /\ tasks[u] # "none" => tasks'[u] # "none"
    BY <1>3
  <1>5. tasks' \in [Tasks -> {"none", "running", "waiting"}] /\ \A u \in Tasks : tasks'[u] = tasks[u]
    BY <1>3 DEF TypeOK
  <1>6. /\ {y} \in SUBSET Transaction
        /\ \A z \in {y} : \E w \in open[t] : z.id = w.id /\ z.task = w.task /\ z.generation = w.generation
        /\ \A z, w \in {y} : z = w
    BY <1>2
  <1>7. \A u \in Tasks : (tasks'[u] = "waiting" <=> tasks[u] = "waiting")
    BY <1>5
  <1> QED
    BY <1>2, <1>3, <1>4, <1>5, <1>6, <1>7, OpenOnly

LEMMA TaskMatch ==
    ASSUME TypeOK, MatchInv, NEW t \in Tasks, Start(t) \/ Rollback(t) \/ Finish(t)
    PROVE  MatchInv'
  <1>1. PICK S \in {open[t], {}} : open' = [open EXCEPT ![t] = S]
    BY DEF Start, Rollback, Finish, LeftOpen, TypeOK
  <1>2. /\ S \in SUBSET Transaction
        /\ \A x \in S : \E y \in open[t] : x.id = y.id /\ x.task = y.task /\ x.generation = y.generation
        /\ \A x, y \in S : x = y
    BY DEF TypeOK, MatchInv, AtMostOneOpen
  <1>3. /\ UNCHANGED <<counter, pending, agenda, generation>>
        /\ tasks' \in [Tasks -> {"none", "running", "waiting"}]
        /\ \A u \in Tasks : (tasks'[u] = "waiting" <=> tasks[u] = "waiting")
        /\ \A u \in Tasks : open'[u] # {} /\ tasks[u] # "none" => tasks'[u] # "none"
    BY DEF Start, Rollback, Finish, LeftOpen, TypeOK
  <1> QED
    BY <1>1, <1>2, <1>3, OpenOnly

\* A transaction that was given the next number.
LEMMA BeginMatch ==
    ASSUME TypeOK, MatchInv, NEW t \in Tasks, Begin(t)
    PROVE  MatchInv'
  <1> DEFINE b == Begun(t)
  <1>1. b.id = counter /\ b.task = t /\ b.generation = generation
    BY BeginType
  <1> HIDE DEF b
  <1>2. /\ tasks[t] = "running" /\ counter' = counter + 1
        /\ open' = [open EXCEPT ![t] = {b}]
        /\ UNCHANGED <<committed, revision, pending, agenda, tasks, generation, outcome>>
    BY DEF Begin, TakeNumber, b
  <1>3. \A u \in Tasks : open'[u] = IF u = t THEN {b} ELSE open[u]
    BY <1>2 DEF TypeOK
  <1>4. /\ \A u \in Tasks : \A x \in open[u] : x.id < counter /\ x.id \in Nat
        /\ \A i \in DOMAIN agenda : agenda[i] \in Nat /\ agenda[i] < counter
        /\ counter \in Nat
    BY DEF TypeOK, Transaction, MatchInv, Numbered
  <1>5. TransactionsMatch'
    <2>1. \A u \in Tasks : \A x \in open'[u] : tasks'[u] # "none" /\ x.task = u /\ x.generation = generation'
      BY <1>1, <1>2, <1>3 DEF MatchInv, TransactionsMatch
    <2> QED
      BY <1>2, <2>1 DEF MatchInv, TransactionsMatch
  <1>6. Numbered'
    <2>1. \A u \in Tasks : \A x \in open'[u] : \A i \in DOMAIN agenda' : agenda'[i] # x.id
      BY <1>1, <1>2, <1>3, <1>4 DEF MatchInv, Numbered
    <2>2. \A u \in Tasks : \A x \in open'[u] : x = b \/ (x \in open[u] /\ x.id < counter /\ x.id \in Nat)
      BY <1>3, <1>4
    <2>3. \A u, v \in Tasks : \A x \in open'[u], y \in open'[v] : x.id = y.id => x = y
      BY <1>1, <1>4, <2>2 DEF MatchInv, Numbered
    <2>4. \A i \in DOMAIN agenda' : agenda'[i] < counter'
      BY <1>2, <1>4
    <2> QED
      BY <2>1, <2>3, <2>4 DEF Numbered
  <1>7. AtMostOneOpen'
    BY <1>3 DEF MatchInv, AtMostOneOpen
  <1> QED
    BY <1>5, <1>6, <1>7 DEF MatchInv

LEMMA CommitMatch ==
    ASSUME TypeOK, MatchInv, NEW t \in Tasks, Commit(t)
    PROVE  MatchInv'
  <1> DEFINE b == Begun(t)
  <1>1. PICK x \in open[t] : pending' = pending \cup {x} /\ agenda' = Append(agenda, x.id)
    BY DEF Commit
  <1>2. b.id = counter /\ b.task = t /\ b.generation = generation
    BY BeginType
  <1>3. /\ tasks[t] = "running" /\ generation' = generation
        /\ tasks' = [tasks EXCEPT ![t] = "waiting"]
    BY DEF Commit
  <1>4. PICK S : /\ open' = [open EXCEPT ![t] = S]
                 /\ \/ S = {} /\ counter' = counter
                    \/ S = {b} /\ counter' = counter + 1
    BY DEF Commit, TakeNumber
  <1> HIDE DEF b
  <1>5. \A u \in Tasks : /\ open'[u] = IF u = t THEN S ELSE open[u]
                         /\ tasks'[u] = IF u = t THEN "waiting" ELSE tasks[u]
    BY <1>3, <1>4 DEF TypeOK
  <1>6. /\ x.id \in Nat /\ x.id < counter /\ x.task = t /\ x.generation = generation
        /\ counter \in Nat /\ agenda \in Seq(Nat) /\ Distinct(agenda)
        /\ \A i \in DOMAIN agenda : agenda[i] \in Nat /\ agenda[i] < counter /\ agenda[i] # x.id
        /\ \A u \in Tasks : \A y \in open[u] : y.id \in Nat /\ y.id < counter
    BY DEF TypeOK, Transaction, MatchInv, TransactionsMatch, Numbered, Distinct
  <1>7. /\ Distinct(agenda')
        /\ \A i \in DOMAIN agenda' : agenda'[i] = x.id \/ \E j \in DOMAIN agenda : agenda'[i] = agenda[j]
        /\ \E i \in DOMAIN agenda' : agenda'[i] = x.id
        /\ \A j \in DOMAIN agenda : \E i \in DOMAIN agenda' : agenda'[i] = agenda[j]
    BY <1>1, <1>6, AppendEvent
  <1>8. \A y \in pending : y.task # t /\ y.id # x.id
    <2>1. \A y \in pending : y.task # t
      BY <1>3 DEF MatchInv, TransactionsMatch
    <2>2. \A y \in pending : \E i \in DOMAIN agenda : agenda[i] = y.id
      BY DEF MatchInv, TransactionsMatch
    <2> QED
      BY <1>6, <2>1, <2>2
  <1>9. TransactionsMatch'
    <2>1. ASSUME NEW u \in Tasks PROVE tasks'[u] = "waiting" <=> \E y \in pending' : y.task = u
      <3>1. CASE u = t
        BY <1>1, <1>5, <1>6, <3>1
      <3>2. CASE u # t
        BY <1>1, <1>5, <1>6, <3>2 DEF MatchInv, TransactionsMatch
      <3> QED
        BY <3>1, <3>2
    <2>2. ASSUME NEW u \in Tasks, NEW y \in open'[u]
          PROVE  tasks'[u] # "none" /\ y.task = u /\ y.generation = generation'
      <3>1. CASE u = t
        BY <1>2, <1>3, <1>4, <1>5, <3>1
      <3>2. CASE u # t
        BY <1>3, <1>5, <3>2 DEF MatchInv, TransactionsMatch
      <3> QED
        BY <3>1, <3>2
    <2>3. ASSUME NEW y \in pending'
          PROVE  y.generation = generation' /\ \E i \in DOMAIN agenda' : agenda'[i] = y.id
      <3>1. CASE y = x
        BY <1>3, <1>6, <1>7, <3>1
      <3>2. CASE y \in pending
        <4>1. y.generation = generation /\ \E i \in DOMAIN agenda : agenda[i] = y.id
          BY <3>2 DEF MatchInv, TransactionsMatch
        <4> QED
          BY <1>3, <1>7, <4>1
      <3> QED
        BY <1>1, <3>1, <3>2
    <2>4. ASSUME NEW y \in pending', NEW z \in pending', z.task = y.task \/ z.id = y.id
          PROVE  z = y
      <3>1. CASE y \in pending /\ z \in pending
        BY <2>4, <3>1 DEF MatchInv, TransactionsMatch
      <3>2. CASE y = x \/ z = x
        BY <1>1, <1>6, <1>8, <2>4, <3>2
      <3> QED
        BY <1>1, <3>1, <3>2
    <2>5. \A i, j \in DOMAIN agenda' : i # j => agenda'[i] # agenda'[j]
      BY <1>7 DEF Distinct
    <2> QED
      BY <2>1, <2>2, <2>3, <2>4, <2>5 DEF TransactionsMatch
  <1>10. Numbered'
    <2>1. \A i \in DOMAIN agenda' : agenda'[i] \in Nat /\ agenda'[i] < counter /\ agenda'[i] < counter'
      BY <1>4, <1>6, <1>7
    <2>2. ASSUME NEW u \in Tasks, NEW y \in open'[u]
          PROVE  \/ y = b /\ y.id = counter
                 \/ u # t /\ y \in open[u] /\ y.id \in Nat /\ y.id < counter
      BY <1>2, <1>4, <1>5, <1>6
    <2>3. ASSUME NEW u \in Tasks, NEW y \in open'[u], NEW i \in DOMAIN agenda'
          PROVE  agenda'[i] # y.id
      <3>1. CASE y.id = counter
        BY <1>6, <2>1, <3>1
      <3>2. CASE u # t /\ y \in open[u]
        <4>1. y.id # x.id
          <5>1. y.id = x.id => y = x
            BY <3>2 DEF MatchInv, Numbered
          <5>2. y.task = u
            BY <3>2 DEF MatchInv, TransactionsMatch
          <5> QED
            BY <1>6, <3>2, <5>1, <5>2
        <4>2. \A j \in DOMAIN agenda : agenda[j] # y.id
          BY <3>2 DEF MatchInv, Numbered
        <4> QED
          BY <1>7, <4>1, <4>2
      <3> QED
        BY <2>2, <3>1, <3>2
    <2>4. ASSUME NEW u \in Tasks, NEW v \in Tasks, NEW y \in open'[u], NEW z \in open'[v], y.id = z.id
          PROVE  y = z
      <3>1. CASE y \in open[u] /\ z \in open[v]
        BY <2>4, <3>1 DEF MatchInv, Numbered
      <3>2. CASE ~(y \in open[u] /\ z \in open[v])
        BY <1>6, <2>2, <2>4, <3>2
      <3> QED
        BY <3>1, <3>2
    <2> QED
      BY <2>1, <2>3, <2>4 DEF Numbered
  <1>11. AtMostOneOpen'
    BY <1>4, <1>5 DEF MatchInv, AtMostOneOpen
  <1> QED
    BY <1>9, <1>10, <1>11 DEF MatchInv

\* The commit event of at most one pending transaction, whose task goes on.
LEMMA DispatchMatch ==
    ASSUME TypeOK, MatchInv, Dispatch
    PROVE  MatchInv'
  <1> DEFINE found == {x \in pending : x.id = Head(agenda)}
  <1>1. /\ agenda # <<>> /\ agenda' = Tail(agenda) /\ pending' = pending \ found
        /\ counter' = counter /\ open' = open /\ generation' = generation
    BY DEF Dispatch
  <1>2. /\ \A u \in Tasks : tasks'[u] = IF \E x \in found : x.task = u THEN "running" ELSE tasks[u]
    <2>1. CASE found = {} /\ UNCHANGED tasks
      BY <2>1
    <2>2. ASSUME NEW x \in found, Reject(x) \/ Accept(x)
          PROVE  <1>2
      <3>1. x.task \in Tasks /\ tasks' = [tasks EXCEPT ![x.task] = "running"]
        BY <2>2 DEF Reject, Accept, Answer, TypeOK, Transaction
      <3>2. \A y \in found : y = x
        BY DEF MatchInv, TransactionsMatch
      <3> HIDE DEF found
      <3> QED
        BY <2>2, <3>1, <3>2 DEF TypeOK
    <2> QED
      BY <2>1, <2>2 DEF Dispatch
  <1>3. /\ Distinct(agenda')
        /\ \A i \in DOMAIN agenda' : agenda'[i] # Head(agenda) /\ \E j \in DOMAIN agenda : agenda'[i] = agenda[j]
        /\ \A j \in DOMAIN agenda : agenda[j] # Head(agenda) => \E i \in DOMAIN agenda' : agenda'[i] = agenda[j]
    <2>1. agenda \in Seq(Nat) /\ Distinct(agenda)
      BY DEF TypeOK, MatchInv, TransactionsMatch, Distinct
    <2> QED
      BY <1>1, <2>1, TailEvent
  <1>4. \A x \in pending' : x \in pending /\ x.id # Head(agenda)
    BY <1>1
  <1>5. \A x \in found : x \in pending
    OBVIOUS
  <1>6. TransactionsMatch'
    <2>1. ASSUME NEW u \in Tasks PROVE tasks'[u] = "waiting" <=> \E y \in pending' : y.task = u
      <3>1. CASE \E x \in found : x.task = u
        <4>1. PICK x \in found : x.task = u
          BY <3>1
        <4>2. \A y \in pending : y.task = u => y = x
          BY <4>1 DEF MatchInv, TransactionsMatch
        <4> QED
          BY <1>1, <1>2, <4>1, <4>2
      <3>2. CASE ~\E x \in found : x.task = u
        BY <1>1, <1>2, <3>2 DEF MatchInv, TransactionsMatch
      <3> QED
        BY <3>1, <3>2
    <2>2. \A u \in Tasks : \A y \in open'[u] : tasks'[u] # "none" /\ y.task = u /\ y.generation = generation'
      BY <1>1, <1>2 DEF MatchInv, TransactionsMatch
    <2>3. ASSUME NEW y \in pending' PROVE \E i \in DOMAIN agenda' : agenda'[i] = y.id
      <3>1. PICK j \in DOMAIN agenda : agenda[j] = y.id
        BY <1>4 DEF MatchInv, TransactionsMatch
      <3> QED
        BY <1>3, <1>4, <3>1
    <2>4. \A y \in pending' : /\ y.generation = generation'
                              /\ \A z \in pending' : (z.task = y.task \/ z.id = y.id) => z = y
      BY <1>1, <1>4 DEF MatchInv, TransactionsMatch
    <2> QED
      BY <1>3, <2>1, <2>2, <2>3, <2>4 DEF TransactionsMatch, Distinct
  <1>7. Numbered'
    <2>1. \A i \in DOMAIN agenda' : agenda'[i] < counter'
      BY <1>1, <1>3 DEF MatchInv, Numbered
    <2>2. \A u \in Tasks : \A x \in open'[u] : \A i \in DOMAIN agenda' : agenda'[i] # x.id
      BY <1>1, <1>3 DEF MatchInv, Numbered
    <2> QED
      BY <1>1, <2>1, <2>2 DEF MatchInv, Numbered
  <1> QED
    BY <1>1, <1>6, <1>7 DEF MatchInv, AtMostOneOpen

\* Nothing of the generation that ends is left.
LEMMA CrashMatch ==
    ASSUME TypeOK, MatchInv, Crash
    PROVE  MatchInv'
  <1>1. pending' = {}
    BY DEF Crash, Abandoned, MatchInv, TransactionsMatch
  <1>2. \A u \in Tasks : open'[u] = {} /\ tasks'[u] = "none"
    BY DEF Crash, MatchInv, TransactionsMatch
  <1>3. UNCHANGED <<counter, agenda>>
    BY DEF Crash
  <1> QED
    BY <1>1, <1>2, <1>3 DEF MatchInv, TransactionsMatch, Numbered, AtMostOneOpen

LEMMA NextMatch == TypeOK /\ MatchInv /\ [Next]_vars => MatchInv'
  <1>1. ASSUME TypeOK, MatchInv, NEW t \in Tasks, NEW k \in Keys, Delete(t, k) PROVE MatchInv'
    BY <1>1, WriteMatch DEF Delete, Optional
  <1>2. ASSUME TypeOK, MatchInv, NEW t \in Tasks, NEW k \in Keys, NEW row \in Rows, Put(t, k, row) PROVE MatchInv'
    BY <1>2, WriteMatch DEF Put, Optional
  <1>3. ASSUME MatchInv, UNCHANGED vars PROVE MatchInv'
    BY <1>3 DEF vars, MatchInv, TransactionsMatch, Numbered, AtMostOneOpen
  <1> QED
    BY <1>1, <1>2, <1>3, TaskMatch, BeginMatch, CommitMatch, DispatchMatch, CrashMatch DEF Next

\* Each task that waits for a commit has exactly one pending transaction and
\* one event that will answer it, and nothing outlives its task or process.
THEOREM NobodyWaitsInVain == Spec => []TransactionsMatch
  <1>1. MatchInv => TransactionsMatch
    BY DEF MatchInv
  <1> QED
    BY <1>1, InitMatch, NextMatch, TypeCorrectness, PTL DEF Spec

-----------------------------------------------------------------------------
(* The rows of a transaction                                                *)

Opened == UNION {open[t] : t \in Tasks}

\* What a transaction x knows of the rows: its copy has its writes, and one
\* that has staged nothing has written nothing.
Recorded(x) ==
    /\ \A k \in Keys : \A c \in x.writes[k] : c.after = x.snapshot[k]
    /\ ~x.staged => \A k \in Keys : x.writes[k] = {}

\* Until it is overtaken, it started from the rows that are committed.
Faithful ==
    \A x \in pending \cup Opened : Recorded(x) /\ (x.base = revision => Before(x) = committed)

LEMMA BegunFaithful ==
    ASSUME TypeOK, NEW t \in Tasks
    PROVE  Recorded(Begun(t)) /\ Before(Begun(t)) = committed
  <1>1. Before(Begun(t)) = committed
    BY DEF Before, Begun, TypeOK, Tables
  <1> QED
    BY <1>1 DEF Recorded, Begun

LEMMA WrittenFaithful ==
    ASSUME NEW x \in Transaction, Recorded(x), NEW k \in Keys, NEW after \in Optional(Rows)
    PROVE  Recorded(Written(x, k, after)) /\ Before(Written(x, k, after)) = Before(x)
  <1> DEFINE y == Written(x, k, after)
  <1>2. /\ \A j \in Keys \ {k} : y.snapshot[j] = x.snapshot[j] /\ y.writes[j] = x.writes[j]
        /\ y.snapshot[k] = after
        /\ y.writes[k] = {[before |-> Before(x)[k], after |-> after]}
        /\ y.staged = TRUE
    BY WrittenRows
  <1> HIDE DEF y
  <1>3. UNION {c.before : c \in y.writes[k]} = Before(x)[k]
    BY <1>2
  <1>4. \A j \in Keys : Before(y)[j] = Before(x)[j]
    BY <1>2, <1>3 DEF Before
  <1>5. Before(y) = Before(x)
    <2>1. Before(y) = [j \in Keys |-> Before(y)[j]] /\ Before(x) = [j \in Keys |-> Before(x)[j]]
      BY Zenon DEF Before
    <2> QED
      BY <1>4, <2>1, Zenon
  <1>6. Recorded(y)
    BY <1>2 DEF Recorded
  <1> QED
    BY <1>5, <1>6 DEF y

\* The candidate of a transaction that was not overtaken is its copy.
LEMMA CandidateIsCopy ==
    ASSUME TypeOK, NEW x \in pending, Recorded(x), Before(x) = committed
    PROVE  /\ Candidate(x) = x.snapshot
           /\ ~x.staged => x.snapshot = committed
  <1>1. x \in Transaction
    BY DEF TypeOK
  <1>2. ASSUME NEW k \in Keys, k \notin Changes(x) PROVE x.snapshot[k] = committed[k]
    <2>1. CASE x.writes[k] = {}
      BY <2>1 DEF Before
    <2>2. CASE x.writes[k] # {}
      <3>6. x.writes[k] \in Optional(Change)
        BY <1>1 DEF Transaction
      <3>1. PICK c \in Change : x.writes[k] = {c}
        BY <2>2, <3>6 DEF Optional
      <3>2. c.before = {} /\ c.after = {}
        BY <1>2, <3>1 DEF Changes
      <3>3. Before(x)[k] = UNION {d.before : d \in x.writes[k]}
        BY <2>2 DEF Before
      <3>4. UNION {d.before : d \in x.writes[k]} = {}
        BY <3>1, <3>2
      <3>5. c.after = x.snapshot[k] /\ Before(x)[k] = committed[k]
        BY <3>1 DEF Recorded
      <3> QED
        BY <3>2, <3>3, <3>4, <3>5
    <2> QED
      BY <2>1, <2>2
  <1>3. Candidate(x) = x.snapshot
    BY <1>1, <1>2 DEF Candidate, Transaction, Tables
  <1>4. ~x.staged => x.snapshot = committed
    BY <1>1 DEF Recorded, Before, Transaction, Tables, TypeOK
  <1> QED
    BY <1>3, <1>4

\* Nothing is committed, and only a transaction with a faithful record comes.
LEMMA SameRows ==
    ASSUME Faithful, committed' = committed, revision' = revision,
           NEW b, Recorded(b), b.base = revision => Before(b) = committed,
           pending' \subseteq pending \cup Opened, Opened' \subseteq Opened \cup {b}
    PROVE  Faithful'
  <1>1. \A y \in pending' \cup Opened' : y = b \/ y \in pending \cup Opened
    OBVIOUS
  <1> QED
    BY <1>1 DEF Faithful

LEMMA OpenedChange ==
    ASSUME TypeOK, NEW t \in Tasks, NEW S, open' = [open EXCEPT ![t] = S]
    PROVE  \A y : y \in Opened' <=> (y \in S \/ \E u \in Tasks \ {t} : y \in open[u])
  <1>1. \A u \in Tasks : open'[u] = IF u = t THEN S ELSE open[u]
    BY DEF TypeOK
  <1>2. \A y : y \in Opened' <=> \E u \in Tasks : y \in open'[u]
    BY DEF Opened
  <1> QED
    BY <1>1, <1>2

LEMMA DispatchFaithful ==
    ASSUME TypeOK, MatchInv, Faithful, Dispatch
    PROVE  Faithful'
  <1>1. pending' \subseteq pending /\ Opened' = Opened
    BY DEF Dispatch, Opened
  <1>2. CASE UNCHANGED <<committed, revision>>
    BY <1>1, <1>2 DEF Faithful
  <1>3. ASSUME NEW x \in pending, Accept(x) PROVE Faithful'
    <2>1. x.base = revision /\ committed' = Candidate(x) /\ revision' = IF x.staged THEN revision + 1 ELSE revision
      BY <1>3 DEF Accept, Conflicting
    <2>2. Candidate(x) = x.snapshot /\ (~x.staged => x.snapshot = committed)
      BY <2>1, CandidateIsCopy DEF Faithful
    <2>3. CASE x.staged
      <3>1. \A y \in pending \cup Opened : y.base \in Nat /\ y.base <= revision /\ revision \in Nat
        BY DEF TypeOK, Transaction, Opened
      <3>2. \A y \in pending \cup Opened : y.base # revision'
        BY <2>1, <2>3, <3>1
      <3> QED
        BY <1>1, <3>2 DEF Faithful
    <2>4. CASE ~x.staged
      BY <1>1, <2>1, <2>2, <2>4 DEF Faithful
    <2> QED
      BY <2>3, <2>4
  <1> QED
    BY <1>2, <1>3 DEF Dispatch, Reject

LEMMA NextFaithful == TypeOK /\ MatchInv /\ Faithful /\ [Next]_vars => Faithful'
  <1> SUFFICES ASSUME TypeOK, MatchInv, Faithful, [Next]_vars PROVE Faithful'
    OBVIOUS
  <1>1. ASSUME NEW t \in Tasks, Start(t) \/ Rollback(t) \/ Finish(t) PROVE Faithful'
    <2>1. PICK S \in {open[t], {}} : open' = [open EXCEPT ![t] = S]
      BY <1>1 DEF Start, Rollback, Finish, LeftOpen, TypeOK
    <2>2. pending' \cup Opened' \subseteq pending \cup Opened
      BY <1>1, <2>1, OpenedChange DEF Start, Rollback, Finish, Opened
    <2>3. UNCHANGED <<committed, revision>>
      BY <1>1 DEF Start, Rollback, Finish
    <2> QED
      BY <2>2, <2>3 DEF Faithful
  <1>2. ASSUME NEW t \in Tasks, Begin(t) PROVE Faithful'
    <2> DEFINE b == Begun(t)
    <2>1. open' = [open EXCEPT ![t] = {b}] /\ pending' = pending /\ committed' = committed /\ revision' = revision
      BY <1>2 DEF Begin
    <2>2. Recorded(b) /\ Before(b) = committed
      BY BegunFaithful
    <2> HIDE DEF b
    <2>3. Opened' \subseteq Opened \cup {b}
      BY <2>1, OpenedChange DEF Opened
    <2> QED
      BY <2>1, <2>2, <2>3, SameRows
  <1>3. ASSUME NEW t \in Tasks, Commit(t) PROVE Faithful'
    <2> DEFINE b == Begun(t)
    <2>1. PICK x \in open[t] : pending' = pending \cup {x}
      BY <1>3 DEF Commit
    <2>2. PICK S \in {{}, {b}} : open' = [open EXCEPT ![t] = S]
      BY <1>3 DEF Commit
    <2>3. Recorded(b) /\ Before(b) = committed
      BY BegunFaithful
    <2>4. committed' = committed /\ revision' = revision
      BY <1>3 DEF Commit
    <2> HIDE DEF b
    <2>5. Opened' \subseteq Opened \cup {b}
      BY <2>2, OpenedChange DEF Opened
    <2>6. pending' \subseteq pending \cup Opened
      BY <2>1 DEF Opened
    <2> QED
      BY <2>3, <2>4, <2>5, <2>6, SameRows
  <1>4. ASSUME NEW t \in Tasks, NEW x \in open[t], NEW k \in Keys, NEW after \in Optional(Rows), Write(x, k, after)
        PROVE  Faithful'
    <2> DEFINE y == Written(x, k, after)
    <2>1. x \in Transaction /\ x.task = t /\ x \in pending \cup Opened
      BY DEF TypeOK, MatchInv, TransactionsMatch, Opened
    <2>2. Recorded(x) /\ (x.base = revision => Before(x) = committed)
      BY <2>1 DEF Faithful
    <2>3. Recorded(y) /\ Before(y) = Before(x)
      BY <2>1, <2>2, <1>4, WrittenFaithful
    <2>4. y.base = x.base
      BY <2>1, <1>4, WrittenType
    <2>5. open' = [open EXCEPT ![x.task] = {y}]
      BY <1>4, WriteIsWritten
    <2>6. pending' = pending /\ committed' = committed /\ revision' = revision
      BY <1>4 DEF Write
    <2> HIDE DEF y
    <2>7. Opened' \subseteq Opened \cup {y}
      BY <2>1, <2>5, OpenedChange DEF Opened
    <2> QED
      BY <2>2, <2>3, <2>4, <2>6, <2>7, SameRows
  <1>5. ASSUME Crash PROVE Faithful'
    <2>1. pending' \subseteq pending /\ UNCHANGED <<committed, revision>>
      BY <1>5 DEF Crash, Abandoned
    <2>2. \A u \in Tasks : open'[u] \subseteq open[u]
      BY <1>5 DEF Crash, TypeOK
    <2>3. Opened' \subseteq Opened
      BY <2>2 DEF Opened
    <2> QED
      BY <2>1, <2>3 DEF Faithful
  <1>6. ASSUME UNCHANGED vars PROVE Faithful'
    BY <1>6 DEF vars, Faithful, Opened
  <1>7. ASSUME NEW t \in Tasks, NEW k \in Keys, Delete(t, k) PROVE Faithful'
    BY <1>4, <1>7 DEF Delete, Optional
  <1>8. ASSUME NEW t \in Tasks, NEW k \in Keys, NEW row \in Rows, Put(t, k, row) PROVE Faithful'
    BY <1>4, <1>8 DEF Put, Optional
  <1> QED
    BY <1>1, <1>2, <1>3, <1>5, <1>6, <1>7, <1>8, DispatchFaithful DEF Next

\* The inductive invariant of the database.
IInv == TypeOK /\ MatchInv /\ Faithful

LEMMA Inductive == Spec => []IInv
  <1>1. Init => Faithful
    BY DEF Init, Faithful, Opened
  <1> QED
    BY <1>1, InitMatch, NextMatch, NextFaithful, TypeCorrectness, PTL DEF Spec, IInv

-----------------------------------------------------------------------------
(* The refinement                                                           *)

LEMMA ActiveMembers ==
    \A a : a \in Active <=> \/ \E x \in pending : a = Seen(x, TRUE)
                            \/ \E x \in Opened : a = Seen(x, FALSE)
  BY DEF Active, Opened

\* What the tasks see of a transaction tells which one it is.
LEMMA SeenTellsApart ==
    ASSUME TypeOK, MatchInv, NEW x \in pending \cup Opened, NEW y \in pending \cup Opened,
           NEW s, NEW r, Seen(x, s) = Seen(y, r)
    PROVE  x = y /\ s = r
  <1>1. x.id = y.id /\ s = r
    BY DEF Seen
  <1>2. \A z \in pending : \E i \in DOMAIN agenda : agenda[i] = z.id
    BY DEF MatchInv, TransactionsMatch
  <1>3. \A z \in Opened : \A i \in DOMAIN agenda : agenda[i] # z.id
    BY DEF Opened, MatchInv, Numbered
  <1>4. CASE x \in pending /\ y \in pending
    BY <1>1, <1>4 DEF MatchInv, TransactionsMatch
  <1>5. CASE x \in Opened /\ y \in Opened
    <2>1. \A z, w \in Opened : z.id = w.id => z = w
      BY DEF Opened, MatchInv, Numbered
    <2> QED
      BY <1>1, <1>5, <2>1
  <1>6. CASE x \in pending /\ y \in Opened
    BY <1>1, <1>2, <1>3, <1>6
  <1>7. CASE x \in Opened /\ y \in pending
    BY <1>1, <1>2, <1>3, <1>7
  <1> QED
    BY <1>1, <1>4, <1>5, <1>6, <1>7

LEMMA PendingNotOpened == ASSUME MatchInv PROVE pending \cap Opened = {}
  <1>1. \A z \in pending : \E i \in DOMAIN agenda : agenda[i] = z.id
    BY DEF MatchInv, TransactionsMatch
  <1>2. \A z \in Opened : \A i \in DOMAIN agenda : agenda[i] # z.id
    BY DEF Opened, MatchInv, Numbered
  <1> QED
    BY <1>1, <1>2

LEMMA ActiveMembersNext ==
    ASSUME revision' = revision
    PROVE  \A a : a \in Active' <=> \/ \E x \in pending' : a = Seen(x, TRUE)
                                    \/ \E x \in Opened' : a = Seen(x, FALSE)
  BY DEF Active, Opened, Seen

\* The views of the tasks, field by field.
View == [id : Nat, task : Tasks, start : Tables, local : Tables,
         wrote : BOOLEAN, overtaken : BOOLEAN, submitted : BOOLEAN]

LEMMA SeenType ==
    ASSUME TypeOK, NEW x \in Transaction, NEW s \in BOOLEAN
    PROVE  Seen(x, s) \in View
  <1>1. Before(x) \in Tables
    BY BeforeType
  <1> QED
    BY <1>1 DEF Seen, View, Transaction

LEMMA ViewExcept ==
    ASSUME NEW v \in View
    PROVE  /\ \A l \in Tables : [v EXCEPT !.local = l, !.wrote = TRUE] =
                   [id |-> v.id, task |-> v.task, start |-> v.start, local |-> l,
                    wrote |-> TRUE, overtaken |-> v.overtaken, submitted |-> v.submitted]
           /\ [v EXCEPT !.submitted = TRUE] =
                   [id |-> v.id, task |-> v.task, start |-> v.start, local |-> v.local,
                    wrote |-> v.wrote, overtaken |-> v.overtaken, submitted |-> TRUE]
           /\ \A o : [v EXCEPT !.overtaken = o] =
                   [id |-> v.id, task |-> v.task, start |-> v.start, local |-> v.local,
                    wrote |-> v.wrote, overtaken |-> o, submitted |-> v.submitted]
  <1>1. ASSUME NEW l \in Tables, NEW b
        PROVE  [v EXCEPT !.local = l, !.wrote = b] =
                   [id |-> v.id, task |-> v.task, start |-> v.start, local |-> l,
                    wrote |-> b, overtaken |-> v.overtaken, submitted |-> v.submitted]
    <2> DEFINE w == [v EXCEPT !.local = l]
    <2>1. w = [id |-> v.id, task |-> v.task, start |-> v.start, local |-> l,
               wrote |-> v.wrote, overtaken |-> v.overtaken, submitted |-> v.submitted]
      BY DEF View
    <2>2. w \in View
      BY <2>1 DEF View
    <2>3. [v EXCEPT !.local = l, !.wrote = b] = [w EXCEPT !.wrote = b]
      BY Zenon
    <2> HIDE DEF w
    <2>4. [w EXCEPT !.wrote = b] =
             [id |-> w.id, task |-> w.task, start |-> w.start, local |-> w.local,
              wrote |-> b, overtaken |-> w.overtaken, submitted |-> w.submitted]
      BY <2>2 DEF View
    <2> QED
      BY <2>1, <2>3, <2>4
  <1>2. ASSUME NEW b
        PROVE  [v EXCEPT !.submitted = b] =
                   [id |-> v.id, task |-> v.task, start |-> v.start, local |-> v.local,
                    wrote |-> v.wrote, overtaken |-> v.overtaken, submitted |-> b]
    BY DEF View
  <1>3. ASSUME NEW o
        PROVE  [v EXCEPT !.overtaken = o] =
                   [id |-> v.id, task |-> v.task, start |-> v.start, local |-> v.local,
                    wrote |-> v.wrote, overtaken |-> o, submitted |-> v.submitted]
    BY DEF View
  <1>4. ASSUME NEW l \in Tables
        PROVE  [v EXCEPT !.local = l, !.wrote = TRUE] =
                   [id |-> v.id, task |-> v.task, start |-> v.start, local |-> l,
                    wrote |-> TRUE, overtaken |-> v.overtaken, submitted |-> v.submitted]
    BY <1>1, Zenon
  <1>5. [v EXCEPT !.submitted = TRUE] =
            [id |-> v.id, task |-> v.task, start |-> v.start, local |-> v.local,
             wrote |-> v.wrote, overtaken |-> v.overtaken, submitted |-> TRUE]
    BY <1>2, Zenon
  <1> QED
    BY <1>3, <1>4, <1>5

\* The open transaction x is replaced by those of N.
LEMMA OpenReplaced ==
    ASSUME TypeOK, MatchInv, NEW x \in Opened, NEW N,
           revision' = revision, pending' = pending,
           \A y : y \in Opened' <=> (y \in Opened /\ y # x) \/ y \in N
    PROVE  Active' = (Active \ {Seen(x, FALSE)}) \cup {Seen(y, FALSE) : y \in N}
  <1>1. ASSUME NEW a, a \in Active' PROVE a \in (Active \ {Seen(x, FALSE)}) \cup {Seen(y, FALSE) : y \in N}
    <2>1. CASE \E y \in pending' : a = Seen(y, TRUE)
      <3>1. PICK y \in pending : a = Seen(y, TRUE)
        BY <2>1
      <3>2. a # Seen(x, FALSE)
        BY <3>1 DEF Seen
      <3> QED
        BY <3>1, <3>2, ActiveMembers
    <2>2. CASE \E y \in Opened' : a = Seen(y, FALSE)
      <3>1. PICK y : a = Seen(y, FALSE) /\ ((y \in Opened /\ y # x) \/ y \in N)
        BY <2>2
      <3>2. y \in Opened /\ y # x => a # Seen(x, FALSE)
        BY <3>1, SeenTellsApart
      <3> QED
        BY <3>1, <3>2, ActiveMembers
    <2> QED
      BY <1>1, <2>1, <2>2, ActiveMembersNext
  <1>2. ASSUME NEW a, a \in (Active \ {Seen(x, FALSE)}) \cup {Seen(y, FALSE) : y \in N} PROVE a \in Active'
    BY <1>2, ActiveMembers, ActiveMembersNext
  <1> QED
    BY <1>1, <1>2

LEMMA OpenAdded ==
    ASSUME revision' = revision, pending' = pending, NEW N,
           \A y : y \in Opened' <=> y \in Opened \/ y \in N
    PROVE  Active' = Active \cup {Seen(y, FALSE) : y \in N}
  <1>1. ASSUME NEW a PROVE a \in Active' <=> a \in Active \cup {Seen(y, FALSE) : y \in N}
    BY ActiveMembers, ActiveMembersNext
  <1> QED
    BY <1>1

LEMMA InitImplements == Init => Serial!Init
  <1> SUFFICES ASSUME Init PROVE Serial!Init
    OBVIOUS
  <1>1. Active = {}
    BY DEF Init, Active
  <1>2. committed \in [Keys -> {{}} \cup {{r} : r \in Rows}] /\ Consistent(committed)
    BY DatabaseAssumption DEF Init, Tables, Optional
  <1>3. generation = 0 /\ outcome.result = "none"
    BY DEF Init
  <1> QED
    BY <1>1, <1>2, <1>3 DEF Serial!Init

LEMMA ActiveUnchanged ==
    ASSUME revision' = revision, pending' = pending, Opened' = Opened
    PROVE  Active' = Active
  <1>1. ASSUME NEW a PROVE a \in Active' <=> a \in Active
    BY ActiveMembers, ActiveMembersNext
  <1> QED
    BY <1>1

\* A task that ends, or gives up, rolls its open transaction back.
LEMMA TaskImplements ==
    ASSUME TypeOK, MatchInv, NEW t \in Tasks, Start(t) \/ Rollback(t) \/ Finish(t)
    PROVE  [Serial!Next]_(Serial!vars)
  <1>1. UNCHANGED <<committed, revision, pending, generation, outcome>>
    BY DEF Start, Rollback, Finish
  <1>2. CASE open' = open
    BY <1>1, <1>2, ActiveUnchanged DEF Opened, Serial!vars
  <1>3. ASSUME NEW x \in open[t], open' = [open EXCEPT ![t] = {}] PROVE Serial!RollBack(Seen(x, FALSE)) /\ x \in Opened
    <2>1. x \in Opened /\ \A y \in open[t] : y = x
      BY DEF Opened, MatchInv, AtMostOneOpen
    <2>8. PICK none : none = {} /\ open' = [open EXCEPT ![t] = none]
      BY <1>3
    <2>7. \A y : y \in Opened' <=> (y \in none \/ \E u \in Tasks \ {t} : y \in open[u])
      BY <2>8, OpenedChange
    <2>2. \A y : y \in Opened' <=> \E u \in Tasks \ {t} : y \in open[u]
      BY <2>7, <2>8
    <2>3. \A u \in Tasks \ {t} : x \notin open[u]
      BY DEF MatchInv, TransactionsMatch
    <2>4. \A y : y \in Opened' <=> y \in Opened /\ y # x
      BY <2>1, <2>2, <2>3 DEF Opened
    <2>5. Active' = (Active \ {Seen(x, FALSE)}) \cup {Seen(y, FALSE) : y \in {}}
      BY <1>1, <2>1, <2>4, OpenReplaced
    <2>6. Active' = Active \ {Seen(x, FALSE)}
      BY <2>5
    <2> QED
      BY <1>1, <2>1, <2>6 DEF Serial!RollBack, Seen
  <1>4. CASE open[t] # {} /\ open' = [open EXCEPT ![t] = {}]
    <2>1. PICK x \in open[t] : TRUE
      BY <1>4
    <2>2. Serial!RollBack(Seen(x, FALSE)) /\ Seen(x, FALSE) \in Active
      BY <1>3, <1>4, <2>1, ActiveMembers
    <2> QED
      BY <2>2 DEF Serial!Next
  <1>5. \/ open' = open
        \/ open[t] # {} /\ open' = [open EXCEPT ![t] = {}]
    <2>1. open' = open \/ open' = [open EXCEPT ![t] = {}]
      BY DEF Start, Rollback, Finish, LeftOpen
    <2>2. open[t] = {} => [open EXCEPT ![t] = {}] = open
      BY DEF TypeOK
    <2> QED
      BY <2>1, <2>2
  <1> QED
    BY <1>2, <1>4, <1>5

\* The transaction a task begins is the one the specification adds.
LEMMA BegunIsNew ==
    ASSUME TypeOK, MatchInv, NEW t \in Tasks, counter < MaxTransactions
    PROVE  /\ Seen(Begun(t), FALSE) = Serial!New(counter, t)
           /\ counter \in Serial!Fresh
  <1>1. Before(Begun(t)) = committed
    BY BegunFaithful
  <1>2. Seen(Begun(t), FALSE) = Serial!New(counter, t)
    BY <1>1 DEF Seen, Serial!New, Begun
  <1>3. \A x \in pending \cup Opened : x.id # counter
    BY DEF TypeOK, Transaction, Opened
  <1>4. \A a \in Active : a.id # counter
    BY <1>3, ActiveMembers DEF Seen
  <1>5. counter \in 0..(MaxTransactions - 1)
    BY DatabaseAssumption DEF TypeOK
  <1> QED
    BY <1>2, <1>4, <1>5 DEF Serial!Fresh

LEMMA BeginImplements ==
    ASSUME TypeOK, MatchInv, NEW t \in Tasks, Begin(t)
    PROVE  Serial!Begin
  <1> DEFINE b == Begun(t)
  <1>1. /\ counter < MaxTransactions /\ open[t] = {} /\ open' = [open EXCEPT ![t] = {b}]
        /\ UNCHANGED <<committed, revision, pending, generation, outcome>>
    BY DEF Begin, TakeNumber
  <1>2. Seen(b, FALSE) = Serial!New(counter, t) /\ counter \in Serial!Fresh
    BY <1>1, BegunIsNew
  <1> HIDE DEF b
  <1>7. \A y : y \in Opened' <=> (y \in {b} \/ \E u \in Tasks \ {t} : y \in open[u])
    BY <1>1, OpenedChange
  <1>3. \A y : y \in Opened' <=> y \in Opened \/ y \in {b}
    BY <1>1, <1>7 DEF Opened
  <1>4. Active' = Active \cup {Seen(y, FALSE) : y \in {b}}
    BY <1>1, <1>3, OpenAdded
  <1>5. Active' = Active \cup {Serial!New(counter, t)}
    BY <1>2, <1>4
  <1>6. \A a \in Active : a.task = t => a.submitted
    <2>1. \A x \in Opened : x.task # t
      BY <1>1 DEF Opened, MatchInv, TransactionsMatch
    <2> QED
      BY <2>1, ActiveMembers DEF Seen
  <1> QED
    BY <1>1, <1>2, <1>5, <1>6 DEF Serial!Begin

LEMMA WriteImplements ==
    ASSUME TypeOK, MatchInv, NEW t \in Tasks, NEW x \in open[t], Faithful,
           NEW k \in Keys, NEW after \in Optional(Rows), Write(x, k, after)
    PROVE  Serial!Next
  <1> DEFINE y == Written(x, k, after)
  <1>1. x \in Transaction /\ x.task = t /\ x \in Opened
    BY DEF TypeOK, MatchInv, TransactionsMatch, Opened
  <1>2. UNCHANGED <<committed, revision, pending, generation, outcome>>
    BY DEF Write
  <1>3. open' = [open EXCEPT ![t] = {y}]
    BY <1>1, WriteIsWritten
  <1>4. Before(y) = Before(x)
    BY <1>1, WrittenFaithful DEF Faithful
  <1>5. y = [id |-> x.id, task |-> x.task, generation |-> x.generation, base |-> x.base,
             snapshot |-> [x.snapshot EXCEPT ![k] = after],
             writes |-> [x.writes EXCEPT ![k] = {[before |-> Before(x)[k], after |-> after]}],
             staged |-> TRUE]
    BY <1>1, WrittenFields
  <1> HIDE DEF y
  <1>6. \A z : z \in Opened' <=> (z \in Opened /\ z # x) \/ z \in {y}
    <2>1. \A z : z \in Opened' <=> (z \in {y} \/ \E u \in Tasks \ {t} : z \in open[u])
      BY <1>3, OpenedChange
    <2>2. \A z \in open[t] : z = x
      BY DEF MatchInv, AtMostOneOpen
    <2>3. \A u \in Tasks \ {t} : x \notin open[u]
      BY DEF MatchInv, TransactionsMatch
    <2> QED
      BY <2>1, <2>2, <2>3 DEF Opened
  <1>7. Active' = (Active \ {Seen(x, FALSE)}) \cup {Seen(z, FALSE) : z \in {y}}
    BY <1>1, <1>2, <1>6, OpenReplaced
  <1>8. Active' = (Active \ {Seen(x, FALSE)}) \cup {Seen(y, FALSE)}
    BY <1>7
  <1>9. Seen(y, FALSE) = [Seen(x, FALSE) EXCEPT !.local = [@ EXCEPT ![k] = after], !.wrote = TRUE]
    <2> DEFINE v == Seen(x, FALSE)
               l == [x.snapshot EXCEPT ![k] = after]
    <2>1. y.id = x.id /\ y.task = x.task /\ y.base = x.base /\ y.snapshot = l /\ y.staged = TRUE
      BY <1>5
    <2>2. v \in View /\ v.local = x.snapshot
      BY <1>1, SeenType DEF Seen
    <2>6. [v.local EXCEPT ![k] = after] \in Tables
      BY <1>1, <2>2 DEF View, Tables
    <2>3. Seen(y, FALSE) = [id |-> v.id, task |-> v.task, start |-> v.start, local |-> l,
                            wrote |-> TRUE, overtaken |-> v.overtaken, submitted |-> v.submitted]
      BY <1>4, <2>1 DEF Seen
    <2> HIDE DEF v
    <2>4. [v EXCEPT !.local = [v.local EXCEPT ![k] = after], !.wrote = TRUE] =
             [id |-> v.id, task |-> v.task, start |-> v.start, local |-> [v.local EXCEPT ![k] = after],
              wrote |-> TRUE, overtaken |-> v.overtaken, submitted |-> v.submitted]
      BY <2>2, <2>6, ViewExcept
    <2>5. Seen(y, FALSE) = [v EXCEPT !.local = [v.local EXCEPT ![k] = after], !.wrote = TRUE]
      BY <2>2, <2>3, <2>4
    <2> QED
      BY <2>5 DEF v
  <1>10. after \in {{}} \cup {{r} : r \in Rows}
    BY DEF Optional
  <1>11. ~Seen(x, FALSE).submitted
    BY DEF Seen
  <1>12. Serial!Write(Seen(x, FALSE))
    BY <1>2, <1>8, <1>9, <1>10, <1>11 DEF Serial!Write
  <1>13. Seen(x, FALSE) \in Active
    BY <1>1, ActiveMembers
  <1> QED
    BY <1>12, <1>13 DEF Serial!Next

\* The open transaction x of task t is replaced by those of S.
LEMMA OpenedAfter ==
    ASSUME TypeOK, MatchInv, NEW t \in Tasks, NEW x \in open[t], NEW S, open' = [open EXCEPT ![t] = S]
    PROVE  x \in Opened /\ \A y : y \in Opened' <=> (y \in Opened /\ y # x) \/ y \in S
  <1>1. \A y : y \in Opened' <=> (y \in S \/ \E u \in Tasks \ {t} : y \in open[u])
    BY OpenedChange
  <1>2. \A y \in open[t] : y = x
    BY DEF MatchInv, AtMostOneOpen
  <1>3. \A u \in Tasks \ {t} : x \notin open[u]
    BY DEF MatchInv, TransactionsMatch
  <1> QED
    BY <1>1, <1>2, <1>3 DEF Opened

LEMMA CommitImplements ==
    ASSUME TypeOK, MatchInv, NEW t \in Tasks, Commit(t)
    PROVE  Serial!Next
  <1> DEFINE b == Begun(t)
  <1>1. PICK x \in open[t] : pending' = pending \cup {x}
    BY DEF Commit
  <1> DEFINE v == Seen(x, FALSE)
  <1>2. UNCHANGED <<committed, revision, generation, outcome>>
    BY DEF Commit
  <1>3. PICK S \in {{}, {b}} : open' = [open EXCEPT ![t] = S] /\ (S = {b} => counter < MaxTransactions)
    BY DEF Commit, TakeNumber
  <1>4. x \in Transaction /\ x.task = t
    BY DEF TypeOK, MatchInv, TransactionsMatch
  <1>5. x \in Opened /\ \A y : y \in Opened' <=> (y \in Opened /\ y # x) \/ y \in S
    BY <1>3, OpenedAfter
  <1>6. Seen(x, TRUE) = [v EXCEPT !.submitted = TRUE]
    <2>1. v \in View
      BY <1>4, SeenType
    <2>2. [v EXCEPT !.submitted = TRUE] =
             [id |-> v.id, task |-> v.task, start |-> v.start, local |-> v.local,
              wrote |-> v.wrote, overtaken |-> v.overtaken, submitted |-> TRUE]
      BY <2>1, ViewExcept
    <2> QED
      BY <2>2 DEF Seen
  <1> DEFINE more == {Seen(y, FALSE) : y \in S}
  <1>7. more \in {{}} \cup {{Serial!New(n, t)} : n \in Serial!Fresh}
    <2>1. CASE S = {}
      BY <2>1
    <2>2. CASE S = {b}
      <3>1. Seen(b, FALSE) = Serial!New(counter, t) /\ counter \in Serial!Fresh
        BY <1>3, <2>2, BegunIsNew
      <3>2. more = {Seen(b, FALSE)}
        BY <2>2
      <3> QED
        BY <3>1, <3>2
    <2> QED
      BY <1>3, <2>1, <2>2
  <1>8. Active' = (Active \ {v}) \cup {Seen(x, TRUE)} \cup more
    <2>1. \A a : a \in Active' <=> \/ \E y \in pending' : a = Seen(y, TRUE)
                                   \/ \E y \in Opened' : a = Seen(y, FALSE)
      BY <1>2, ActiveMembersNext
    <2>2. \A y \in pending : Seen(y, TRUE) # v
      BY DEF Seen
    <2>3. \A y \in Opened : y # x => Seen(y, FALSE) # v
      BY <1>5, SeenTellsApart
    <2> HIDE DEF v
    <2>4. ASSUME NEW a, a \in Active' PROVE a \in (Active \ {v}) \cup {Seen(x, TRUE)} \cup more
      <3>1. CASE \E y \in pending' : a = Seen(y, TRUE)
        <4>1. PICK y \in pending' : a = Seen(y, TRUE)
          BY <3>1
        <4>2. y \in pending \/ y = x
          BY <1>1
        <4> QED
          BY <2>2, <4>1, <4>2, ActiveMembers
      <3>2. CASE \E y \in Opened' : a = Seen(y, FALSE)
        <4>1. PICK y \in Opened' : a = Seen(y, FALSE)
          BY <3>2
        <4>2. (y \in Opened /\ y # x) \/ y \in S
          BY <1>5
        <4> QED
          BY <2>3, <4>1, <4>2, ActiveMembers
      <3> QED
        BY <2>1, <2>4, <3>1, <3>2
    <2>5. ASSUME NEW a, a \in (Active \ {v}) \cup {Seen(x, TRUE)} \cup more PROVE a \in Active'
      BY <1>1, <1>5, <2>1, <2>5, ActiveMembers DEF v
    <2> QED
      BY <2>4, <2>5
  <1>9. v.task = t /\ ~v.submitted /\ v \in Active
    BY <1>4, <1>5, ActiveMembers DEF Seen
  <1> HIDE DEF v, more
  <1>10. Serial!Submit(v)
    BY <1>2, <1>6, <1>7, <1>8, <1>9 DEF Serial!Submit
  <1> QED
    BY <1>9, <1>10 DEF Serial!Next

LEMMA CrashImplements == ASSUME MatchInv, Crash PROVE Serial!Crash
  <1>1. pending' = {} /\ \A u \in Tasks : open'[u] = {}
    BY DEF Crash, Abandoned, MatchInv, TransactionsMatch
  <1>2. Active' = {}
    BY <1>1 DEF Active
  <1>3. generation' = generation + 1 /\ UNCHANGED <<committed, outcome>>
    BY DEF Crash
  <1> QED
    BY <1>2, <1>3 DEF Serial!Crash

LEMMA RejectImplements ==
    ASSUME TypeOK, MatchInv, Faithful, NEW x \in pending, pending' = pending \ {x}, open' = open,
           Reject(x), generation' = generation
    PROVE  Serial!Refuse(Seen(x, TRUE))
  <1> DEFINE v == Seen(x, TRUE)
  <1>1. UNCHANGED <<committed, revision>>
    BY DEF Reject
  <1>2. Active' = Active \ {v}
    <2>1. Opened' = Opened
      BY DEF Opened
    <2>2. \A y \in Opened : Seen(y, FALSE) # v
      BY DEF Seen
    <2>3. \A y \in pending : y # x => Seen(y, TRUE) # v
      BY SeenTellsApart
    <2> HIDE DEF v
    <2>4. ASSUME NEW a, a \in Active' PROVE a \in Active \ {v}
      BY <1>1, <2>1, <2>2, <2>3, <2>4, ActiveMembers, ActiveMembersNext
    <2>5. ASSUME NEW a, a \in Active \ {v} PROVE a \in Active'
      BY <1>1, <2>1, <2>5, ActiveMembers, ActiveMembersNext DEF v
    <2> QED
      BY <2>4, <2>5
  <1>3. v.submitted /\ v.id = x.id /\ v.local = x.snapshot /\ (v.overtaken <=> Conflicting(x))
    BY DEF Seen, Conflicting
  <1>4. ~Conflicting(x) => (Acceptable(x) <=> Consistent(v.local))
    <2>1. ~Conflicting(x) => Candidate(x) = x.snapshot
      BY CandidateIsCopy DEF Faithful, Conflicting
    <2> QED
      BY <1>3, <2>1 DEF Acceptable
  <1>5. \/ outcome' = [id |-> v.id, result |-> "COMMIT_FAILED"]
        \/ v.overtaken /\ outcome' = [id |-> v.id, result |-> "TRANSACTION_CONFLICT"]
        \/ ~v.overtaken /\ ~Consistent(v.local) /\ outcome' = [id |-> v.id, result |-> "CONSTRAINT_VIOLATION"]
    BY <1>3, <1>4 DEF Reject, Answer
  <1> HIDE DEF v
  <1>6. Serial!Refuse(v)
    BY <1>1, <1>2, <1>3, <1>5 DEF Serial!Refuse
  <1> QED
    BY <1>6 DEF v

LEMMA AcceptImplements ==
    ASSUME TypeOK, MatchInv, Faithful, NEW x \in pending, pending' = pending \ {x}, open' = open,
           Accept(x), generation' = generation
    PROVE  Serial!Commit(Seen(x, TRUE))
  <1> DEFINE v == Seen(x, TRUE)
             Overtake(w) == [w EXCEPT !.overtaken = @ \/ v.wrote]
  <1>1. /\ x.base = revision /\ committed' = Candidate(x) /\ Acceptable(x)
        /\ revision' = IF x.staged THEN revision + 1 ELSE revision
        /\ outcome' = [id |-> x.id, result |-> "committed"]
    BY DEF Accept, Conflicting, Answer
  <1>2. Candidate(x) = x.snapshot /\ Before(x) = committed
    BY <1>1, CandidateIsCopy DEF Faithful
  <1>3. /\ v.submitted /\ v.id = x.id /\ v.local = x.snapshot /\ v.wrote = x.staged
        /\ v.start = Before(x) /\ ~v.overtaken
    BY <1>1 DEF Seen
  <1>4. ASSUME NEW y \in pending \cup Opened, NEW s \in BOOLEAN
        PROVE  Overtake(Seen(y, s)) = Seen(y, s)'
    <2>1. y \in Transaction /\ y.base \in Nat /\ y.base <= revision /\ revision \in Nat
      BY DEF TypeOK, Transaction, Opened
    <2>2. Seen(y, s) \in View /\ Seen(y, s).overtaken = (y.base # revision)
      BY <2>1, SeenType DEF Seen
    <2>3. (Seen(y, s).overtaken \/ v.wrote) = (y.base # revision')
      <3>1. CASE x.staged
        <4>1. y.base # revision'
          BY <1>1, <2>1, <3>1
        <4>2. v.wrote
          BY <1>3, <3>1, Zenon
        <4> HIDE DEF v
        <4> QED
          BY <4>1, <4>2, Zenon
      <3>2. CASE ~x.staged
        BY <1>1, <1>3, <2>2, <3>2
      <3> QED
        BY <3>1, <3>2
    <2>4. Overtake(Seen(y, s)) =
             [id |-> Seen(y, s).id, task |-> Seen(y, s).task, start |-> Seen(y, s).start,
              local |-> Seen(y, s).local, wrote |-> Seen(y, s).wrote,
              overtaken |-> Seen(y, s).overtaken \/ v.wrote, submitted |-> Seen(y, s).submitted]
      BY <2>2, ViewExcept
    <2> QED
      BY <2>3, <2>4 DEF Seen
  <1>5. Active' = {Overtake(w) : w \in Active \ {v}}
    <2>1. Opened' = Opened
      BY DEF Opened
    <2>2. \A a : a \in Active' <=> \/ \E y \in pending \ {x} : a = Seen(y, TRUE)'
                                   \/ \E y \in Opened : a = Seen(y, FALSE)'
      BY <2>1 DEF Active, Opened
    <2>3. \A y \in Opened : Seen(y, FALSE) # v
      BY DEF Seen
    <2>4. \A y \in pending : y # x => Seen(y, TRUE) # v
      BY SeenTellsApart
    <2>5. /\ \A y \in pending : Overtake(Seen(y, TRUE)) = Seen(y, TRUE)'
          /\ \A y \in Opened : Overtake(Seen(y, FALSE)) = Seen(y, FALSE)'
      BY <1>4
    <2>6. \A w : w \in Active \ {v} <=> \/ \E y \in pending \ {x} : w = Seen(y, TRUE)
                                      \/ \E y \in Opened : w = Seen(y, FALSE)
      BY <2>3, <2>4, ActiveMembers
    <2> HIDE DEF Overtake, v
    <2>7. ASSUME NEW a, a \in Active' PROVE \E w \in Active \ {v} : a = Overtake(w)
      <3>1. CASE \E y \in pending \ {x} : a = Seen(y, TRUE)'
        <4>1. PICK y \in pending \ {x} : a = Seen(y, TRUE)'
          BY <3>1
        <4>2. Seen(y, TRUE) \in Active \ {v} /\ a = Overtake(Seen(y, TRUE))
          BY <2>5, <2>6, <4>1
        <4> QED
          BY <4>2
      <3>2. CASE \E y \in Opened : a = Seen(y, FALSE)'
        <4>1. PICK y \in Opened : a = Seen(y, FALSE)'
          BY <3>2
        <4>2. Seen(y, FALSE) \in Active \ {v} /\ a = Overtake(Seen(y, FALSE))
          BY <2>5, <2>6, <4>1
        <4> QED
          BY <4>2
      <3> QED
        BY <2>2, <2>7, <3>1, <3>2
    <2>8. ASSUME NEW w \in Active \ {v} PROVE Overtake(w) \in Active'
      <3>1. CASE \E y \in pending \ {x} : w = Seen(y, TRUE)
        <4>1. PICK y \in pending \ {x} : w = Seen(y, TRUE)
          BY <3>1
        <4>2. Overtake(w) = Seen(y, TRUE)'
          BY <2>5, <4>1
        <4> QED
          BY <2>2, <4>2
      <3>2. CASE \E y \in Opened : w = Seen(y, FALSE)
        <4>1. PICK y \in Opened : w = Seen(y, FALSE)
          BY <3>2
        <4>2. Overtake(w) = Seen(y, FALSE)'
          BY <2>5, <4>1
        <4> QED
          BY <2>2, <4>2
      <3> QED
        BY <2>6, <3>1, <3>2
    <2> QED
      BY <2>7, <2>8
  <1>6. Consistent(v.local) /\ v.start = committed /\ committed' = v.local
    BY <1>1, <1>2, <1>3 DEF Acceptable
  <1>7. outcome' = [id |-> v.id, result |-> "committed"]
    BY <1>1, <1>3
  <1>8. Active' = {[w EXCEPT !.overtaken = @ \/ v.wrote] : w \in Active \ {v}}
    BY <1>5
  <1> HIDE DEF v
  <1>9. Serial!Commit(v)
    BY <1>3, <1>6, <1>7, <1>8 DEF Serial!Commit
  <1> QED
    BY <1>9 DEF v

LEMMA DispatchImplements ==
    ASSUME TypeOK, MatchInv, Faithful, Dispatch
    PROVE  [Serial!Next]_(Serial!vars)
  <1> DEFINE found == {x \in pending : x.id = Head(agenda)}
  <1>1. pending' = pending \ found /\ open' = open /\ generation' = generation
    BY DEF Dispatch
  <1>2. CASE found = {} /\ UNCHANGED <<committed, revision, tasks, outcome>>
    <2>1. pending' = pending /\ Opened' = Opened
      BY <1>1, <1>2 DEF Opened
    <2> QED
      BY <1>1, <1>2, <2>1, ActiveUnchanged DEF Serial!vars
  <1>3. ASSUME NEW x \in found, Reject(x) \/ Accept(x) PROVE Serial!Next
    <2>1. x \in pending /\ \A y \in found : y = x
      BY DEF MatchInv, TransactionsMatch
    <2>2. pending' = pending \ {x}
      BY <1>1, <2>1
    <2>3. Seen(x, TRUE) \in Active
      BY <2>1, ActiveMembers
    <2>4. Serial!Refuse(Seen(x, TRUE)) \/ Serial!Commit(Seen(x, TRUE))
      BY <1>1, <1>3, <2>1, <2>2, RejectImplements, AcceptImplements
    <2> QED
      BY <2>3, <2>4 DEF Serial!Next
  <1> QED
    BY <1>2, <1>3 DEF Dispatch

\* The database implements a serial store: every step is a step of it or
\* leaves what the tasks see as it is.
THEOREM DatabaseIsSerial == Spec => ImplementsSerialStore
  <1>1. IInv /\ [Next]_vars => [Serial!Next]_(Serial!vars)
    <2> SUFFICES ASSUME TypeOK, MatchInv, Faithful, [Next]_vars PROVE [Serial!Next]_(Serial!vars)
      BY DEF IInv
    <2>1. CASE Dispatch
      BY <2>1, DispatchImplements
    <2>2. CASE Crash
      BY <2>2, CrashImplements DEF Serial!Next
    <2>3. ASSUME NEW t \in Tasks, Start(t) \/ Rollback(t) \/ Finish(t) PROVE [Serial!Next]_(Serial!vars)
      BY <2>3, TaskImplements
    <2>4. ASSUME NEW t \in Tasks, Begin(t) PROVE Serial!Next
      BY <2>4, BeginImplements DEF Serial!Next
    <2>5. ASSUME NEW t \in Tasks, Commit(t) PROVE Serial!Next
      BY <2>5, CommitImplements
    <2>6. ASSUME NEW t \in Tasks, NEW k \in Keys, Delete(t, k) PROVE Serial!Next
      BY <2>6, WriteImplements DEF Delete, Optional
    <2>7. ASSUME NEW t \in Tasks, NEW k \in Keys, NEW row \in Rows, Put(t, k, row) PROVE Serial!Next
      BY <2>7, WriteImplements DEF Put, Optional
    <2>8. CASE UNCHANGED vars
      <3>1. UNCHANGED <<committed, revision, pending, open, generation, outcome>> /\ Opened' = Opened
        BY <2>8 DEF vars, Opened
      <3> QED
        BY <3>1, ActiveUnchanged DEF Serial!vars
    <2> QED
      BY <2>1, <2>2, <2>3, <2>4, <2>5, <2>6, <2>7, <2>8 DEF Next
  <1> QED
    BY <1>1, InitImplements, Inductive, PTL DEF Spec, ImplementsSerialStore, Serial!Spec
=============================================================================
