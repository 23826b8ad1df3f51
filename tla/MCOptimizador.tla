---------------------------- MODULE MCOptimizador ---------------------------
(***************************************************************************)
(* Instances of Optimizador for TLC: lists with one, two and three speeds, *)
(* fast ones and a very slow one.                                          *)
(***************************************************************************)
EXTENDS Optimizador

MCListas == {<<1000000>>, <<2000000, 5000000>>, <<64000, 1000, 2000000>>,
             <<1000000, 2000000, 5000000>>}

MCObjetivos == {-1, 0, 1}

MCTasas == <<64000, 96000>>
=============================================================================
