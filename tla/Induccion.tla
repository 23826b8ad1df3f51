------------------------------ MODULE Induccion -----------------------------
(***************************************************************************)
(* Induction over finite sets and over the naturals, as the existence of a *)
(* least counterexample, and what it gives: the sum of the values of a     *)
(* function (SumFunction of module Functions) does not depend on the order *)
(* in which they are added.  Nothing here is about the program.            *)
(***************************************************************************)
EXTENDS Functions, FiniteSetTheorems, WellFoundedInduction, TLAPS

(***************************************************************************)
(* Any collection of subsets of a finite set has one that contains no      *)
(* other.                                                                  *)
(***************************************************************************)
LEMMA SubconjuntoMinimo ==
  ASSUME NEW S, IsFiniteSet(S), NEW B, B \subseteq SUBSET S, B # {}
  PROVE  \E T \in B : \A U \in B : ~(U \subseteq T /\ U # T)
<1>1. IsWellFoundedOn(StrictSubsetOrdering(S), SUBSET S)
  BY FS_StrictSubsetOrderingWellFounded, FS_FiniteSubsetsOfFinite, Zenon
<1>2. PICK T \in B : \A U \in B : ~(<<U, T>> \in StrictSubsetOrdering(S))
  BY <1>1, WFMin
<1> QED
  BY <1>2 DEF StrictSubsetOrdering

(***************************************************************************)
(* Any set of naturals that is not empty has a least element.              *)
(***************************************************************************)
LEMMA NaturalMinimo ==
  ASSUME NEW B, B \subseteq Nat, B # {}
  PROVE  \E n \in B : \A m \in B : n <= m
<1>1. PICK n \in B : TRUE
  OBVIOUS
<1> DEFINE I == 0 .. n
           Tramos == {0 .. m : m \in B \cap I}
<1>2. Tramos \subseteq SUBSET I /\ Tramos # {}
  <2>1. 0 .. n \in Tramos
    BY <1>1
  <2>2. ASSUME NEW m \in B \cap (0 .. n)
        PROVE  0 .. m \in SUBSET (0 .. n)
    OBVIOUS
  <2> QED
    BY <2>1, <2>2
<1>3. IsFiniteSet(I)
  BY <1>1, FS_Interval
<1>4. PICK T \in Tramos : \A U \in Tramos : ~(U \subseteq T /\ U # T)
  <2> HIDE DEF Tramos, I
  <2> QED
    BY <1>2, <1>3, SubconjuntoMinimo
<1>5. PICK k \in B \cap (0 .. n) : T = 0 .. k
  BY <1>4
<1>6. ASSUME NEW m \in B, m < k
      PROVE  FALSE
  <2>1. m \in Nat /\ k \in Nat /\ n \in Nat /\ m \in B \cap (0 .. n)
    BY <1>1, <1>6
  <2>2. 0 .. m \in Tramos
    BY <2>1
  <2>3. 0 .. m \subseteq 0 .. k /\ 0 .. m # 0 .. k
    <3>1. k \in 0 .. k /\ k \notin 0 .. m
      BY <1>6, <2>1
    <3> QED
      BY <1>6, <2>1, <3>1
  <2> QED
    BY <1>4, <1>5, <2>2, <2>3
<1> QED
  BY <1>5, <1>6

-----------------------------------------------------------------------------
(***************************************************************************)
(* The recursion behind the sum, and that it defines a function.           *)
(***************************************************************************)
Alguno(s) == CHOOSE x \in s : TRUE

Recurre(g, f, S) ==
  g = [s \in SUBSET S |-> IF s = {} THEN 0 ELSE f[Alguno(s)] + g[s \ {Alguno(s)}]]

(***************************************************************************)
(* What is chosen of a set is in it.                                       *)
(***************************************************************************)
LEMMA AlgunoEsta == \A s : s # {} => Alguno(s) \in s
  BY DEF Alguno

(***************************************************************************)
(* Two functions with the same recursion agree where both are defined.     *)
(***************************************************************************)
LEMMA RecurreUnica ==
  ASSUME NEW f, NEW S, IsFiniteSet(S), NEW T, NEW g, NEW h,
         Recurre(g, f, S), Recurre(h, f, T), NEW W \in SUBSET (S \cap T)
  PROVE  g[W] = h[W]
<1> DEFINE B == {U \in SUBSET (S \cap T) : g[U] # h[U]}
<1>1. SUFFICES ASSUME B # {}
               PROVE  FALSE
  OBVIOUS
<1>2. IsFiniteSet(S \cap T) /\ B \subseteq SUBSET (S \cap T)
  BY FS_Intersection
<1>3. PICK U \in B : \A V \in B : ~(V \subseteq U /\ V # U)
  <2> HIDE DEF B
  <2> QED
    BY <1>1, <1>2, SubconjuntoMinimo
<1>4. /\ U \in SUBSET S /\ U \in SUBSET T
      /\ g[U] = IF U = {} THEN 0 ELSE f[Alguno(U)] + g[U \ {Alguno(U)}]
      /\ h[U] = IF U = {} THEN 0 ELSE f[Alguno(U)] + h[U \ {Alguno(U)}]
  BY <1>3 DEF Recurre
<1>5. U # {}
  BY <1>3, <1>4
<1>6. g[U \ {Alguno(U)}] = h[U \ {Alguno(U)}]
  BY <1>3, <1>5, AlgunoEsta
<1> QED
  BY <1>3, <1>4, <1>6

(***************************************************************************)
(* The recursion over the subsets of a finite set has a solution.          *)
(***************************************************************************)
LEMMA RecurreExiste ==
  ASSUME NEW f, NEW S, IsFiniteSet(S)
  PROVE  \E g : Recurre(g, f, S)
<1> DEFINE B == {U \in SUBSET S : ~ \E g : Recurre(g, f, U)}
           F(U) == CHOOSE g : Recurre(g, f, U)
           resto(U) == U \ {Alguno(U)}
<1>1. SUFFICES ASSUME B # {}
               PROVE  FALSE
  OBVIOUS
<1>2. PICK T \in B : \A V \in B : ~(V \subseteq T /\ V # T)
  <2>1. B \subseteq SUBSET S
    OBVIOUS
  <2> HIDE DEF B
  <2> QED
    BY <1>1, <2>1, SubconjuntoMinimo
<1>3. T \in SUBSET S /\ ~ \E g : Recurre(g, f, T)
  BY <1>2
<1>4. ASSUME NEW U \in SUBSET T, U # T
      PROVE  Recurre(F(U), f, U) /\ IsFiniteSet(U)
  <2>1. U \notin B /\ U \in SUBSET S
    BY <1>2, <1>3, <1>4
  <2>2. \E g : Recurre(g, f, U)
    BY <2>1
  <2>3. IsFiniteSet(U)
    BY <2>1, FS_Subset
  <2> QED
    BY <2>2, <2>3
<1> DEFINE g == [U \in SUBSET T |->
                   IF U = {} THEN 0 ELSE f[Alguno(U)] + F(resto(U))[resto(U)]]
<1>5. ASSUME NEW W \in SUBSET T, W # T
      PROVE  F(W)[W] = g[W]
  <2>1. Recurre(F(W), f, W) /\ IsFiniteSet(W)
    BY <1>4, <1>5
  <2>2. F(W)[W] = IF W = {} THEN 0 ELSE f[Alguno(W)] + F(W)[resto(W)]
    <3> HIDE DEF F
    <3> QED
      BY <2>1 DEF Recurre
  <2>3. g[W] = IF W = {} THEN 0 ELSE f[Alguno(W)] + F(resto(W))[resto(W)]
    <3> HIDE DEF F
    <3> QED
      BY <1>5
  <2>4. ASSUME W # {}
        PROVE  F(W)[resto(W)] = F(resto(W))[resto(W)]
    <3> DEFINE R == resto(W)
    <3>1. R \in SUBSET T /\ R # T /\ R \in SUBSET (W \cap R)
      BY <1>5, <2>4, AlgunoEsta
    <3> HIDE DEF R
    <3>2. Recurre(F(R), f, R)
      BY <1>4, <3>1
    <3>3. F(W)[R] = F(R)[R]
      <4> HIDE DEF F
      <4> QED
        BY <2>1, <3>1, <3>2, RecurreUnica
    <3> QED
      BY <3>3 DEF R
  <2> HIDE DEF F, g, resto
  <2> QED
    BY <2>2, <2>3, <2>4
<1>6. Recurre(g, f, T)
  <2>1. ASSUME NEW U \in SUBSET T, U # {}
        PROVE  F(resto(U))[resto(U)] = g[resto(U)]
    <3> DEFINE R == resto(U)
    <3>1. R \in SUBSET T /\ R # T
      BY <2>1, AlgunoEsta
    <3> HIDE DEF R
    <3>2. F(R)[R] = g[R]
      BY <1>5, <3>1
    <3> QED
      BY <3>2 DEF R
  <2> HIDE DEF F
  <2>2. \A U \in SUBSET T :
          (IF U = {} THEN 0 ELSE f[Alguno(U)] + F(resto(U))[resto(U)])
          = (IF U = {} THEN 0 ELSE f[Alguno(U)] + g[resto(U)])
    BY <2>1
  <2> QED
    BY <2>2 DEF Recurre
<1> QED
  BY <1>3, <1>6

-----------------------------------------------------------------------------
(***************************************************************************)
(* Sums.                                                                   *)
(***************************************************************************)

(***************************************************************************)
(* The sum of the community modules is such a solution.                    *)
(***************************************************************************)
LEMMA SumaRecursiva ==
  ASSUME NEW f, NEW S, IsFiniteSet(S)
  PROVE  \E g : Recurre(g, f, S) /\ SumFunctionOnSet(f, S) = g[S]
<1> DEFINE iter[s \in SUBSET S] ==
             IF s = {} THEN 0 ELSE f[Alguno(s)] + iter[s \ {Alguno(s)}]
<1>1. SumFunctionOnSet(f, S) = iter[S]
  BY DEF SumFunctionOnSet, FoldFunctionOnSet, MapThenFoldSet, Alguno
<1>2. Recurre(iter, f, S)
  <2>1. \E g : Recurre(g, f, S)
    BY RecurreExiste
  <2>2. \E g : g = [s \in SUBSET S |->
                     IF s = {} THEN 0 ELSE f[Alguno(s)] + g[s \ {Alguno(s)}]]
    BY <2>1 DEF Recurre
  <2>3. iter = [s \in SUBSET S |->
                  IF s = {} THEN 0 ELSE f[Alguno(s)] + iter[s \ {Alguno(s)}]]
    BY <2>2, Zenon
  <2> QED
    BY <2>3, Zenon DEF Recurre
<1> QED
  BY <1>1, <1>2

(***************************************************************************)
(* The sum over no elements is zero.                                       *)
(***************************************************************************)
LEMMA SumaVacia == ASSUME NEW f PROVE SumFunctionOnSet(f, {}) = 0
<1>1. IsFiniteSet({})
  BY FS_EmptySet
<1>2. PICK g : Recurre(g, f, {}) /\ SumFunctionOnSet(f, {}) = g[{}]
  BY <1>1, SumaRecursiva
<1> QED
  BY <1>2 DEF Recurre

(***************************************************************************)
(* The sum is an element chosen and the sum over the others.               *)
(***************************************************************************)
LEMMA SumaPaso ==
  ASSUME NEW f, NEW S, IsFiniteSet(S), S # {}
  PROVE  SumFunctionOnSet(f, S) =
           f[Alguno(S)] + SumFunctionOnSet(f, S \ {Alguno(S)})
<1> DEFINE R == S \ {Alguno(S)}
<1>1. R \in SUBSET (S \cap R) /\ IsFiniteSet(R)
  BY FS_Subset
<1>2. PICK g : Recurre(g, f, S) /\ SumFunctionOnSet(f, S) = g[S]
  BY SumaRecursiva
<1>3. g[S] = f[Alguno(S)] + g[R]
  BY <1>2 DEF Recurre
<1> HIDE DEF R
<1>4. PICK h : Recurre(h, f, R) /\ SumFunctionOnSet(f, R) = h[R]
  BY <1>1, SumaRecursiva
<1>5. g[R] = h[R]
  BY <1>1, <1>2, <1>4, RecurreUnica
<1> QED
  BY <1>2, <1>3, <1>4, <1>5 DEF R

(***************************************************************************)
(* A sum of integers is an integer, and any one of them may be added last. *)
(***************************************************************************)
LEMMA SumaElemento ==
  ASSUME NEW S, IsFiniteSet(S), NEW f, \A x \in S : f[x] \in Int
  PROVE  /\ SumFunctionOnSet(f, S) \in Int
         /\ \A x \in S : SumFunctionOnSet(f, S) = f[x] + SumFunctionOnSet(f, S \ {x})
<1> DEFINE Suma(U) == SumFunctionOnSet(f, U)
           Bien(U) == Suma(U) \in Int /\ \A x \in U : Suma(U) = f[x] + Suma(U \ {x})
           B == {U \in SUBSET S : ~Bien(U)}
<1>1. SUFFICES ASSUME B # {}
               PROVE  FALSE
  OBVIOUS
<1>2. PICK T \in B : \A V \in B : ~(V \subseteq T /\ V # T)
  <2>1. B \subseteq SUBSET S
    OBVIOUS
  <2> HIDE DEF B
  <2> QED
    BY <1>1, <2>1, SubconjuntoMinimo
<1>3. T \in SUBSET S /\ ~Bien(T)
  BY <1>2
<1>4. \A U \in SUBSET T : U # T => Bien(U)
  <2> HIDE DEF Bien
  <2> QED
    BY <1>2, <1>3
<1>5. \A U \in SUBSET T : U # {} => Suma(U) = f[Alguno(U)] + Suma(U \ {Alguno(U)})
  BY <1>3, FS_Subset, SumaPaso
<1>6. Suma({}) = 0
  BY SumaVacia
<1> HIDE DEF Suma
<1>7. CASE T = {}
  BY <1>3, <1>6, <1>7
<1>8. CASE T # {}
  <2> DEFINE c == Alguno(T)
             R == T \ {c}
  <2>1. c \in T
    BY <1>8, AlgunoEsta
  <2>2. Suma(T) = f[c] + Suma(R)
    BY <1>5, <1>8
  <2>3. R \in SUBSET T /\ R # T
    BY <2>1
  <2> HIDE DEF c
  <2>4. Bien(R)
    <3> HIDE DEF Bien, R
    <3> QED
      BY <1>4, <2>3
  <2>5. Suma(T) \in Int
    BY <1>3, <2>1, <2>2, <2>4
  <2>6. ASSUME NEW x \in T, x # c
        PROVE  Suma(T) = f[x] + Suma(T \ {x})
    <3>1. /\ T \ {x} \in SUBSET T /\ T \ {x} # T /\ c \in T \ {x}
          /\ R \ {x} \in SUBSET T /\ R \ {x} # T /\ x \in R
          /\ (T \ {x}) \ {c} = R \ {x}
      BY <2>1, <2>6
    <3>2. Bien(T \ {x}) /\ Bien(R \ {x})
      <4> HIDE DEF Bien, R
      <4> QED
        BY <1>4, <3>1
    <3>3. Suma(R) = f[x] + Suma(R \ {x})
      BY <2>4, <3>1
    <3>4. Suma(T \ {x}) = f[c] + Suma(R \ {x})
      BY <3>1, <3>2
    <3>5. f[x] \in Int /\ f[c] \in Int /\ Suma(R \ {x}) \in Int
      BY <1>3, <2>1, <2>6, <3>2
    <3> HIDE DEF R
    <3> QED
      BY <2>2, <3>3, <3>4, <3>5
  <2> QED
    BY <1>3, <2>2, <2>5, <2>6
<1> QED
  BY <1>7, <1>8

(***************************************************************************)
(* The sum depends only on the values added.                               *)
(***************************************************************************)
LEMMA SumaIgual ==
  ASSUME NEW S, IsFiniteSet(S), NEW f, NEW g, \A x \in S : f[x] = g[x]
  PROVE  SumFunctionOnSet(f, S) = SumFunctionOnSet(g, S)
<1> DEFINE B == {U \in SUBSET S : SumFunctionOnSet(f, U) # SumFunctionOnSet(g, U)}
<1>1. SUFFICES ASSUME B # {}
               PROVE  FALSE
  OBVIOUS
<1>2. PICK T \in B : \A V \in B : ~(V \subseteq T /\ V # T)
  <2>1. B \subseteq SUBSET S
    OBVIOUS
  <2> HIDE DEF B
  <2> QED
    BY <1>1, <2>1, SubconjuntoMinimo
<1>3. T \in SUBSET S /\ SumFunctionOnSet(f, T) # SumFunctionOnSet(g, T)
  BY <1>2
<1>4. T # {}
  BY <1>3, SumaVacia
<1>5. Alguno(T) \in T
  BY <1>4, AlgunoEsta
<1>6. SumFunctionOnSet(f, T \ {Alguno(T)}) = SumFunctionOnSet(g, T \ {Alguno(T)})
  BY <1>2, <1>3, <1>5
<1>7. IsFiniteSet(T)
  BY <1>3, FS_Subset
<1> QED
  BY <1>3, <1>4, <1>5, <1>6, <1>7, SumaPaso

(***************************************************************************)
(* A sum of zeros is zero.                                                 *)
(***************************************************************************)
LEMMA SumaDeCeros ==
  ASSUME NEW S, IsFiniteSet(S), NEW f, \A x \in S : f[x] = 0
  PROVE  SumFunctionOnSet(f, S) = 0
<1> DEFINE B == {U \in SUBSET S : SumFunctionOnSet(f, U) # 0}
<1>1. SUFFICES ASSUME B # {}
               PROVE  FALSE
  OBVIOUS
<1>2. PICK T \in B : \A V \in B : ~(V \subseteq T /\ V # T)
  <2>1. B \subseteq SUBSET S
    OBVIOUS
  <2> HIDE DEF B
  <2> QED
    BY <1>1, <2>1, SubconjuntoMinimo
<1>3. T \in SUBSET S /\ SumFunctionOnSet(f, T) # 0
  BY <1>2
<1>4. T # {}
  BY <1>3, SumaVacia
<1>5. Alguno(T) \in T
  BY <1>4, AlgunoEsta
<1>6. SumFunctionOnSet(f, T \ {Alguno(T)}) = 0
  BY <1>2, <1>3, <1>5
<1>7. IsFiniteSet(T)
  BY <1>3, FS_Subset
<1> QED
  BY <1>3, <1>4, <1>5, <1>6, <1>7, SumaPaso

(***************************************************************************)
(* Changing one value of a function changes its sum by as much, and a new  *)
(* value adds to it.                                                       *)
(***************************************************************************)
LEMMA SumaCambiaUno ==
  ASSUME NEW D, IsFiniteSet(D), NEW f \in [D -> Int], NEW g \in [D -> Int],
         NEW d \in D, \A x \in D \ {d} : g[x] = f[x]
  PROVE  SumFunction(f) \in Int /\ SumFunction(g) = SumFunction(f) - f[d] + g[d]
<1> DEFINE R == D \ {d}
<1>1. IsFiniteSet(R)
  BY FS_Subset
<1>2. SumFunctionOnSet(g, R) = SumFunctionOnSet(f, R)
  BY <1>1, SumaIgual
<1>3. /\ SumFunctionOnSet(f, D) = f[d] + SumFunctionOnSet(f, R)
      /\ SumFunctionOnSet(g, D) = g[d] + SumFunctionOnSet(g, R)
      /\ SumFunctionOnSet(f, D) \in Int
  BY SumaElemento
<1>4. SumFunctionOnSet(f, R) \in Int
  BY <1>1, SumaElemento
<1>5. f[d] \in Int /\ g[d] \in Int
  OBVIOUS
<1> HIDE DEF R
<1> QED
  BY <1>2, <1>3, <1>4, <1>5 DEF SumFunction

(***************************************************************************)
(* A function with one more argument adds its value to the sum.            *)
(***************************************************************************)
LEMMA SumaUnoMas ==
  ASSUME NEW D, IsFiniteSet(D), NEW f \in [D -> Int], NEW d, d \notin D,
         NEW g \in [D \cup {d} -> Int], \A x \in D : g[x] = f[x]
  PROVE  SumFunction(f) \in Int /\ SumFunction(g) = SumFunction(f) + g[d]
<1> DEFINE E == D \cup {d}
<1>1. IsFiniteSet(E) /\ d \in E /\ E \ {d} = D /\ \A x \in E : g[x] \in Int
  BY FS_AddElement
<1>2. SumFunctionOnSet(g, D) = SumFunctionOnSet(f, D)
  BY SumaIgual
<1>3. SumFunctionOnSet(f, D) \in Int
  BY SumaElemento
<1>4. DOMAIN g = E /\ DOMAIN f = D /\ g[d] \in Int
  OBVIOUS
<1> HIDE DEF E
<1>5. SumFunctionOnSet(g, E) = g[d] + SumFunctionOnSet(g, D)
  BY <1>1, SumaElemento
<1> QED
  BY <1>2, <1>3, <1>4, <1>5 DEF SumFunction
=============================================================================
