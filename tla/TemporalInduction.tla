-------------------------- MODULE TemporalInduction --------------------------
(***************************************************************************)
(* Induction on natural numbers, in the form in which proofs of liveness   *)
(* need it.  To show that F(n) holds for every n, where F(n) says that     *)
(* what is n steps away comes about, take the function U whose value at n  *)
(* is the truth of F(n): for one behaviour that is a function like any     *)
(* other, and Available names it for the provers.                          *)
(***************************************************************************)
EXTENDS Naturals, FiniteSetTheorems, TLAPS

Available(U) == TRUE

\* A function that is true at 0, and at n + 1 whenever it is at n, is true
\* everywhere: below a number where it is not there would be, for each such
\* number, another one, and finitely many holes would hold one pigeon more.
THEOREM FunctionInduction ==
  ASSUME NEW U, U[0], \A n \in Nat : U[n] => U[n + 1]
  PROVE  \A n \in Nat : U[n]
<1>. SUFFICES ASSUME NEW k \in Nat, ~U[k] PROVE FALSE
  OBVIOUS
<1>. DEFINE Fails == {n \in 0 .. k : ~U[n]}
            below == [n \in Fails |-> n - 1]
<1>1. IsFiniteSet(Fails)
  <2>1. IsFiniteSet(0 .. k) /\ Fails \in SUBSET (0 .. k)
    BY FS_Interval
  <2>. HIDE DEF Fails
  <2>. QED
    BY <2>1, FS_Subset
<1>2. k \in Fails /\ \A n \in Fails : n - 1 \in Fails /\ n - 1 # k
  OBVIOUS
<1>3. below \in [Fails -> Fails \ {k}] /\ \A m, n \in Fails : m # n => below[m] # below[n]
  BY <1>2
<1>. HIDE DEF Fails, below
<1>4. IsFiniteSet(Fails \ {k}) /\ Cardinality(Fails \ {k}) < Cardinality(Fails)
  <2>1. Cardinality(Fails) \in Nat
    BY <1>1, FS_CardinalityType
  <2>2. IsFiniteSet(Fails \ {k}) /\ Cardinality(Fails \ {k}) = Cardinality(Fails) - 1
    BY <1>1, <1>2, FS_RemoveElement
  <2>. QED
    BY <2>1, <2>2
<1>. QED
  BY <1>1, <1>3, <1>4, FS_PigeonHole

\* What is true of the empty set, and of a set with one element more whenever it
\* is of the set, is true of a finite set.
THEOREM FiniteInduction ==
  ASSUME NEW U, NEW S, IsFiniteSet(S), U[{}],
         \A T \in SUBSET S, x \in S : U[T] => U[T \cup {x}]
  PROVE  U[S]
<1>. DEFINE Sized(n) == \A T \in SUBSET S : IsFiniteSet(T) /\ Cardinality(T) = n => U[T]
            V == [n \in Nat |-> Sized(n)]
<1>1. Sized(0)
  BY FS_EmptySet
<1>2. ASSUME NEW n \in Nat, Sized(n) PROVE Sized(n + 1)
  <2>. SUFFICES ASSUME NEW T \in SUBSET S, IsFiniteSet(T), Cardinality(T) = n + 1 PROVE U[T]
    OBVIOUS
  <2>1. PICK x \in T : TRUE
    BY FS_EmptySet
  <2>2. IsFiniteSet(T \ {x}) /\ Cardinality(T \ {x}) = n
    <3>1. IsFiniteSet(T \ {x}) /\ Cardinality(T \ {x}) = Cardinality(T) - 1
      BY <2>1, FS_RemoveElement
    <3>. QED
      BY <3>1
  <2>3. T = (T \ {x}) \cup {x} /\ x \in S /\ T \ {x} \in SUBSET S
    BY <2>1
  <2>4. U[T \ {x}]
    BY <1>2, <2>2, <2>3
  <2>. QED
    BY <2>3, <2>4
<1>3. \A n \in Nat : V[n]
  <2>1. \A n \in Nat : V[n] <=> Sized(n)
    OBVIOUS
  <2>. HIDE DEF V, Sized
  <2>2. V[0] /\ \A n \in Nat : V[n] => V[n + 1]
    BY <1>1, <1>2, <2>1
  <2>. QED
    BY <2>2, FunctionInduction
<1>4. Cardinality(S) \in Nat
  BY FS_CardinalityType
<1>5. Sized(Cardinality(S))
  BY <1>3, <1>4
<1>. QED
  BY <1>5
=============================================================================
