------------------------------ MODULE DatabaseMC ------------------------------
(***************************************************************************)
(* Two tasks, which are interchangeable, and two keys.  The rows cash and  *)
(* debt differ in their unique field; debt fails its check.  One key is    *)
(* there from the start.                                                   *)
(***************************************************************************)
EXTENDS Database, TLC

CONSTANTS t1, t2, first, second, cash, debt

Names == [r \in Rows |-> r]

CashFirst == [k \in Keys |-> IF k = first THEN {cash} ELSE {}]

Interchangeable == Permutations(Tasks)
=============================================================================
