---------------------------- MODULE GasLimitProofs ----------------------------
(***************************************************************************)
(* Proofs about CalcGasLimit and the chain of gas limits it drives.        *)
(*                                                                         *)
(* The argument has two halves.  Under GasHypotheses(B) no uint64          *)
(* operation of CalcGasLimit wraps for a parent gas limit in               *)
(* [MinGasLimit, B] (NoWrap): the function is then CalcExact, the same     *)
(* branches over the integers.  CalcExact keeps the gas limit in           *)
(* [MinGasLimit, B], so that interval is an invariant of the chain, and    *)
(* its result lies within the specification's bounds and within            *)
(* [gasFloor, gasCeil] when the parent does; these facts are linear        *)
(* arithmetic once decay and contrib are known to be non-negative.         *)
(***************************************************************************)
EXTENDS GasLimit, TLAPS

D == GasLimitBoundDivisor

(* CalcGasLimit over the integers, with no operation reduced modulo 2^Width. *)
CalcExact(gasUsed, parentLimit, floor, ceil) ==
  LET decay == parentLimit \div D - 1
      raw   == parentLimit - decay + (gasUsed + gasUsed \div 2) \div D
      limit == IF raw < MinGasLimit THEN MinGasLimit ELSE raw
  IN  IF limit < floor
        THEN IF parentLimit + decay > floor THEN floor ELSE parentLimit + decay
      ELSE IF limit > ceil
        THEN IF parentLimit - decay < ceil THEN ceil ELSE parentLimit - decay
      ELSE limit

(* The chain invariant: the head's gas limit stays in [MinGasLimit, B].    *)
Inv(B) ==
  /\ gasLimit \in MinGasLimit .. B
  /\ gasFloor \in GasFloors
  /\ gasCeil \in GasCeils

LEMMA ConstantFacts ==
  /\ D \in Nat \ {0}
  /\ MinGasLimit \in Nat
  /\ Modulus \in Nat \ {0}
BY ConstantsAssumption, WordAssumption DEF D

(* The quotients CalcGasLimit takes, for a divisor of at least 1.          *)
LEMMA DivFacts ==
  ASSUME NEW x \in Nat, NEW d \in Nat \ {0}
  PROVE  /\ x \div d \in 0 .. x
         /\ x >= d => x \div d >= 1
OBVIOUS

(* No operation of CalcGasLimit wraps for a parent in [MinGasLimit, B].   *)
LEMMA NoWrap ==
  ASSUME NEW B, GasHypotheses(B),
         NEW l \in MinGasLimit .. B, NEW u \in 0 .. l,
         NEW f \in Nat, NEW c \in Nat
  PROVE  CalcGasLimit(u, l, f, c) = CalcExact(u, l, f, c)
<1>. DEFINE decay == l \div D - 1
            contrib == (u + u \div 2) \div D
<1>1. /\ B \in Nat /\ 3 * B < Modulus /\ D <= MinGasLimit
  BY DEF GasHypotheses, D
<1>2. /\ l \div D \in 1 .. l
      /\ u \div 2 \in 0 .. u
      /\ contrib \in 0 .. u + u \div 2
  BY <1>1, ConstantFacts, DivFacts
<1>3. /\ decay \in 0 .. l - 1
      /\ l + decay < Modulus
      /\ l - decay + contrib < Modulus
      /\ u + u \div 2 < Modulus
  BY <1>1, <1>2, ConstantFacts
<1>4. Decay(l) = decay
  <2>1. (l \div D - 1) % Modulus = decay
    BY <1>3, ConstantFacts
  <2>. QED  BY <2>1 DEF Decay, Minus, Quot, D
<1>5. Contrib(u) = contrib
  <2>1. (u + u \div 2) % Modulus = u + u \div 2
    BY <1>2, <1>3, ConstantFacts
  <2>. QED  BY <2>1 DEF Contrib, Add, Quot, D
<1>6. Minus(l, Decay(l)) = l - decay
  <2>1. (l - decay) % Modulus = l - decay
    BY <1>1, <1>3, ConstantFacts
  <2>. QED  BY <1>4, <2>1 DEF Minus
<1>7. Add(l, Decay(l)) = l + decay
  <2>1. (l + decay) % Modulus = l + decay
    BY <1>1, <1>3, ConstantFacts
  <2>. QED  BY <1>4, <2>1 DEF Add
<1>8. Add(Minus(l, Decay(l)), Contrib(u)) = l - decay + contrib
  <2>1. (l - decay + contrib) % Modulus = l - decay + contrib
    BY <1>1, <1>2, <1>3, ConstantFacts
  <2>. QED  BY <1>5, <1>6, <2>1 DEF Add
<1>. QED  BY <1>6, <1>7, <1>8 DEF CalcGasLimit, CalcExact

(* What one exact step guarantees: the result stays in [MinGasLimit, B],  *)
(* in [floor, ceil] when the parent is, and within the specification's    *)
(* bounds around the parent.                                               *)
LEMMA ExactStep ==
  ASSUME NEW B, GasHypotheses(B),
         NEW l \in MinGasLimit .. B, NEW u \in 0 .. l,
         NEW f \in 0 .. B, NEW c \in MinGasLimit .. B
  PROVE  LET n == CalcExact(u, l, f, c)
             decay == l \div D - 1
         IN  /\ n \in MinGasLimit .. B
             /\ f <= l /\ l <= c => f <= n /\ n <= c
             /\ n <= l + decay \/ n <= c
             /\ l - decay <= n
<1>. DEFINE decay == l \div D - 1
            contrib == (u + u \div 2) \div D
<1>1. /\ B \in Nat /\ D <= MinGasLimit
  BY DEF GasHypotheses, D
<1>2. /\ decay \in 0 .. l - 1
      /\ contrib \in Nat
  BY <1>1, ConstantFacts, DivFacts
<1>. QED  BY <1>1, <1>2, ConstantFacts DEF CalcExact

(* One block: the invariant is kept, and the new gas limit obeys both     *)
(* properties the run checks.                                              *)
LEMMA NewBlockStep ==
  ASSUME NEW B, GasHypotheses(B), Inv(B), NewBlock
  PROVE  /\ Inv(B)'
         /\ WithinSpecBounds(gasLimit, gasLimit')
         /\ gasFloor <= gasCeil /\ InTargetRange => InTargetRange'
<1>1. PICK u \in 0 .. gasLimit :
        gasLimit' = CalcGasLimit(u, gasLimit, gasFloor, gasCeil)
  BY DEF NewBlock
<1>2. /\ gasLimit \in MinGasLimit .. B
      /\ gasFloor \in 0 .. B /\ gasCeil \in MinGasLimit .. B
      /\ UNCHANGED <<gasFloor, gasCeil>>
  BY DEF Inv, GasHypotheses, NewBlock
<1>3. gasLimit' = CalcExact(u, gasLimit, gasFloor, gasCeil)
  BY <1>1, <1>2, NoWrap, ConstantFacts
<1>4. LET n == CalcExact(u, gasLimit, gasFloor, gasCeil)
          decay == gasLimit \div D - 1
      IN  /\ n \in MinGasLimit .. B
          /\ gasFloor <= gasLimit /\ gasLimit <= gasCeil
               => gasFloor <= n /\ n <= gasCeil
          /\ n <= gasLimit + decay \/ n <= gasCeil
          /\ gasLimit - decay <= n
  BY <1>1, <1>2, ExactStep
<1>5. Inv(B)'
  BY <1>2, <1>3, <1>4 DEF Inv
<1>6. WithinSpecBounds(gasLimit, gasLimit')
  BY <1>3, <1>4 DEF WithinSpecBounds, D
<1>7. gasFloor <= gasCeil /\ InTargetRange => InTargetRange'
  BY <1>2, <1>3, <1>4 DEF InTargetRange
<1>. QED  BY <1>5, <1>6, <1>7

(* The gas limit of every block stays in [MinGasLimit, B].                 *)
LEMMA InvHolds ==
  ASSUME NEW B, GasHypotheses(B)
  PROVE  Spec => []Inv(B)
<1>1. Init => Inv(B)
  BY DEF Init, Inv, GasHypotheses
<1>2. Inv(B) /\ [Next]_vars => Inv(B)'
  BY NewBlockStep DEF Next, vars, Inv
<1>. QED  BY <1>1, <1>2, PTL DEF Spec

(* Once the head's gas limit is in [gasFloor, gasCeil], every block        *)
(* CalcGasLimit builds keeps it there, whatever gas its parent used        *)
(* (CalcGasLimit, lines 257-267), for every divisor, minimum and           *)
(* configuration in which its uint64 arithmetic does not wrap.             *)
THEOREM StaysInRange ==
  ASSUME NEW B, GasHypotheses(B)
  PROVE  Spec => StaysInTargetRange
<1>1. Inv(B) /\ [Next]_vars
        => [gasFloor <= gasCeil /\ InTargetRange => InTargetRange']_vars
  BY NewBlockStep DEF Next, vars, InTargetRange
<1>. QED  BY <1>1, InvHolds, PTL DEF Spec, StaysInTargetRange

(* For a parent at or above MinGasLimit, CalcGasLimit's result is at least *)
(* MinGasLimit, at most max(gasCeil, parent + decay) and at least parent - *)
(* decay, the bounds of the specification (lines 238-269), under the same *)
(* hypotheses; with a ceiling below MinGasLimit the run gas_limit_low_ceil *)
(* shows the first bound fail.                                            *)
THEOREM SpecBounds ==
  ASSUME NEW B, GasHypotheses(B)
  PROVE  Spec => RespectsSpecBounds
<1>1. Inv(B) /\ [Next]_vars
        => [gasLimit >= MinGasLimit => WithinSpecBounds(gasLimit, gasLimit')]_vars
  BY NewBlockStep DEF Next, vars
<1>. QED  BY <1>1, InvHolds, PTL DEF Spec, RespectsSpecBounds
=============================================================================
