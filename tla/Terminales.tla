----------------------------- MODULE Terminales -----------------------------
(***************************************************************************)
(* What a telephone promises, seen from outside: the number of chains of   *)
(* activity it has.  A chain is a pending call attempt or a pending        *)
(* hang-up, each of which leads to the next.  A telephone starts with one  *)
(* chain; from then on it never loses one, and being called may add one.   *)
(***************************************************************************)
EXTENDS Naturals

CONSTANT Terminal     \* the telephones

VARIABLE hilos        \* chains of each telephone

TypeOK == hilos \in [Terminal -> Nat]

Init == hilos = [n \in Terminal |-> 0]

(***************************************************************************)
(* The telephone starts: its first chain.                                  *)
(***************************************************************************)
Arranca(n) ==
  /\ hilos[n] = 0
  /\ hilos' = [hilos EXCEPT ![n] = 1]

(***************************************************************************)
(* A call reaches a telephone that has no attempt to give up.              *)
(***************************************************************************)
Bifurca(n) ==
  /\ hilos[n] > 0
  /\ hilos' = [hilos EXCEPT ![n] = @ + 1]

Next == \E n \in Terminal : Arranca(n) \/ Bifurca(n)

Spec == Init /\ [][Next]_hilos
=============================================================================
