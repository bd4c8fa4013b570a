------------------------------ MODULE Provider ------------------------------
(***************************************************************************)
(* What an external provider promises: the terms of a request are those    *)
(* offered at the instant it arrives, whatever is offered later.  A        *)
(* request is refused at once, or promised for a time; what was promised   *)
(* is carried out once, at that time, and answered then unless the terms   *)
(* said that the answer gets lost.                                         *)
(***************************************************************************)
EXTENDS Naturals, Sequences

CONSTANT Requests

VARIABLES now,
          going,      \* the run has not failed
          offer,      \* [refusal, delay, drop]: the terms for each request at this instant
          promised,   \* what is promised and not yet carried out
          applied,    \* the requests carried out, in order
          answer      \* the answer sent to each request

Init == /\ now = 0
        /\ going = TRUE
        /\ promised = <<>>
        /\ applied = <<>>
        /\ answer = [r \in Requests |-> "none"]

Refuse(r) == /\ offer[r].refusal # "none"
             /\ answer' = [answer EXCEPT ![r] = offer[r].refusal]
             /\ UNCHANGED <<promised, applied>>

Promise(r) == /\ offer[r].refusal = "none"
              /\ promised' = [q \in DOMAIN promised \cup {r} |->
                    IF q = r THEN [due |-> now' + offer[r].delay, drop |-> offer[r].drop] ELSE promised[q]]
              /\ UNCHANGED <<applied, answer>>

Arrive(r) == /\ r \notin DOMAIN promised
             /\ answer[r] = "none"
             /\ \A i \in DOMAIN applied : applied[i] # r
             /\ Refuse(r) \/ Promise(r)

CarryOut(r) == /\ r \in DOMAIN promised
               /\ now' = promised[r].due
               /\ promised' = [q \in DOMAIN promised \ {r} |-> promised[q]]
               /\ applied' = Append(applied, r)
               /\ answer' = IF promised[r].drop THEN answer ELSE [answer EXCEPT ![r] = "ok"]

\* A run that fails carries out nothing more.
Halt == going' = FALSE /\ promised' = <<>> /\ UNCHANGED <<offer, applied, answer>>

\* The offers change by themselves; time never passes a promise by.
Next == /\ going = TRUE
        /\ now' >= now
        /\ \A r \in DOMAIN promised : now' <= promised[r].due
        /\ \/ Halt
           \/ going' = TRUE /\ UNCHANGED <<promised, applied, answer>>
           \/ going' = TRUE /\ offer' = offer /\ \E r \in Requests : Arrive(r) \/ CarryOut(r)

Spec == Init /\ [][Next]_<<now, going, offer, promised, applied, answer>>
=============================================================================
