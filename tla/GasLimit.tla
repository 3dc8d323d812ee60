------------------------------- MODULE GasLimit -------------------------------
(***************************************************************************)
(* CalcGasLimit (src/unnamed/part_000, core/block_validator.go) and the    *)
(* control loop it drives: every new block takes as gas limit the value    *)
(* CalcGasLimit computes from its parent's gas used and gas limit, under   *)
(* the miner's configured gas floor and ceiling.                           *)
(*                                                                         *)
(* All arithmetic is the code's unsigned, truncating arithmetic on words   *)
(* of Width bits: every +, - and / of the source is reduced modulo         *)
(* 2^Width, so the underflow of decay for a parent gas limit below the     *)
(* bound divisor is kept.                                                  *)
(***************************************************************************)
EXTENDS Naturals

CONSTANTS
  Width,                 \* word width of the arithmetic (64 in the code)
  GasLimitBoundDivisor,  \* params.GasLimitBoundDivisor
  MinGasLimit,           \* params.MinGasLimit
  GasFloors,             \* possible values of the gasFloor argument
  GasCeils,              \* possible values of the gasCeil argument
  InitialGasLimits       \* possible gas limits of the first parent

ASSUME ConstantsAssumption ==
  /\ Width \in Nat \ {0}
  /\ GasLimitBoundDivisor \in Nat \ {0}
  /\ MinGasLimit \in Nat
  /\ GasFloors \subseteq Nat
  /\ GasCeils \subseteq Nat
  /\ InitialGasLimits \subseteq Nat

Modulus == 2 ^ Width
Word == 0 .. (Modulus - 1)

(* The gas values the code handles are uint64 words.  That 2^Width is a    *)
(* positive natural is a fact of arithmetic the provers cannot derive (^   *)
(* is not interpreted), so it is stated here, where TLC evaluates it.      *)
ASSUME WordAssumption ==
  /\ Modulus \in Nat \ {0}
  /\ MinGasLimit \in Word
  /\ GasFloors \cup GasCeils \cup InitialGasLimits \subseteq Word

(* Unsigned Width-bit addition, subtraction and division.                  *)
Add(a, b) == (a + b) % Modulus
Minus(a, b) == (a - b) % Modulus
Quot(a, b) == a \div b

(* contrib := (parent.GasUsed() + parent.GasUsed()/2) / GasLimitBoundDivisor *)
Contrib(gasUsed) ==
  Quot(Add(gasUsed, Quot(gasUsed, 2)), GasLimitBoundDivisor)

(* decay := parent.GasLimit()/GasLimitBoundDivisor - 1                      *)
Decay(gasLimit) == Minus(Quot(gasLimit, GasLimitBoundDivisor), 1)

(* Mutant: below the floor, the limit is raised by decay but not capped    *)
(* at the floor.                                                           *)
CalcGasLimitNoFloorCap(gasUsed, gasLimit, gasFloor, gasCeil) ==
  LET decay == Decay(gasLimit)
      raw   == Add(Minus(gasLimit, decay), Contrib(gasUsed))
      limit == IF raw < MinGasLimit THEN MinGasLimit ELSE raw
  IN  IF limit < gasFloor THEN Add(gasLimit, decay)
      ELSE IF limit > gasCeil
        THEN IF Minus(gasLimit, decay) < gasCeil THEN gasCeil
             ELSE Minus(gasLimit, decay)
      ELSE limit

(* Mutant: below the floor, the limit is left where the parent had it.   *)
CalcGasLimitStuckBelowFloor(gasUsed, gasLimit, gasFloor, gasCeil) ==
  LET decay == Decay(gasLimit)
      raw   == Add(Minus(gasLimit, decay), Contrib(gasUsed))
      limit == IF raw < MinGasLimit THEN MinGasLimit ELSE raw
      down  == Minus(gasLimit, decay)
  IN  IF limit < gasFloor THEN gasLimit
      ELSE IF limit > gasCeil
        THEN IF down < gasCeil THEN gasCeil ELSE down
      ELSE limit

(* Mutant: the MinGasLimit clamp is missing.                               *)
CalcGasLimitNoMinimum(gasUsed, gasLimit, gasFloor, gasCeil) ==
  LET decay == Decay(gasLimit)
      limit == Add(Minus(gasLimit, decay), Contrib(gasUsed))
      up    == Add(gasLimit, decay)
      down  == Minus(gasLimit, decay)
  IN  IF limit < gasFloor
        THEN IF up > gasFloor THEN gasFloor ELSE up
      ELSE IF limit > gasCeil
        THEN IF down < gasCeil THEN gasCeil ELSE down
      ELSE limit

(* CalcGasLimit(parent, gasFloor, gasCeil), lines 238-269.                 *)
CalcGasLimit(gasUsed, gasLimit, gasFloor, gasCeil) ==
  LET decay == Decay(gasLimit)
      raw   == Add(Minus(gasLimit, decay), Contrib(gasUsed))
      limit == IF raw < MinGasLimit THEN MinGasLimit ELSE raw
      up    == Add(gasLimit, decay)
      down  == Minus(gasLimit, decay)
  IN  IF limit < gasFloor
        THEN IF up > gasFloor THEN gasFloor ELSE up
      ELSE IF limit > gasCeil
        THEN IF down < gasCeil THEN gasCeil ELSE down
      ELSE limit

-----------------------------------------------------------------------------
VARIABLES
  gasLimit,   \* gas limit of the current head block, the next parent
  gasFloor,   \* the miner's configured floor (read-only after start)
  gasCeil     \* the miner's configured ceiling (read-only after start)

vars == <<gasLimit, gasFloor, gasCeil>>

Init ==
  /\ gasLimit \in InitialGasLimits
  /\ gasFloor \in GasFloors
  /\ gasCeil \in GasCeils

(* A block is built on the head and becomes the new head.  Its parent used *)
(* any amount of gas up to its own gas limit.                              *)
NewBlock ==
  /\ \E gasUsed \in 0 .. gasLimit :
       gasLimit' = CalcGasLimit(gasUsed, gasLimit, gasFloor, gasCeil)
  /\ UNCHANGED <<gasFloor, gasCeil>>

Next == NewBlock

(* The chain keeps growing.                                                *)
Spec == Init /\ [][Next]_vars /\ WF_vars(NewBlock)

-----------------------------------------------------------------------------
(* Configurations in which no uint64 operation of CalcGasLimit wraps, for  *)
(* a bound B on every gas limit: the chain's gas limits start at or above  *)
(* MinGasLimit (the header rules require it), the miner's ceiling is not   *)
(* below MinGasLimit, the divisor is not above MinGasLimit (256 by the     *)
(* comments of lines 239 and 242, against 5000), and three times B is      *)
(* still a word.                                                           *)
GasHypotheses(B) ==
  /\ B \in Nat
  /\ 3 * B < Modulus
  /\ GasLimitBoundDivisor <= MinGasLimit
  /\ InitialGasLimits \subseteq MinGasLimit .. B
  /\ GasCeils \subseteq MinGasLimit .. B
  /\ GasFloors \subseteq 0 .. B

TypeOK ==
  /\ gasLimit \in Word
  /\ gasFloor \in GasFloors
  /\ gasCeil \in GasCeils

InTargetRange == gasFloor <= gasLimit /\ gasLimit <= gasCeil

(* Once the head's gas limit lies in [gasFloor, gasCeil], no block built   *)
(* by CalcGasLimit takes it out again, whatever gas the parents use.       *)
StaysInTargetRange ==
  [][gasFloor <= gasCeil /\ InTargetRange => InTargetRange']_vars

(* From any starting gas limit the loop reaches [gasFloor, gasCeil] and    *)
(* stays there, when the floor is not above the ceiling.                   *)
ConvergesToTargetRange ==
  (gasFloor <= gasCeil) => <>[]InTargetRange

(* The bounds the specification gives CalcGasLimit, for a parent whose gas *)
(* limit is at least MinGasLimit: the result is at least MinGasLimit, at   *)
(* most max(gasCeil, parentGasLimit + decay), and it never falls by more   *)
(* than decay below the parent's gas limit.                                *)
WithinSpecBounds(parent, next) ==
  LET decay == parent \div GasLimitBoundDivisor - 1
  IN  /\ MinGasLimit <= next
      /\ next <= parent + decay \/ next <= gasCeil
      /\ parent - decay <= next

RespectsSpecBounds ==
  [][gasLimit >= MinGasLimit => WithinSpecBounds(gasLimit, gasLimit')]_vars

(* The bounds of the specification claimed for every parent: "Result      *)
(* always in [MinGasLimit, max(ceiling, parentGasLimit+decay)]".  The code *)
(* does not check its input, so a parent below MinGasLimit is allowed.     *)
SpecBoundsForAllParents ==
  [][WithinSpecBounds(gasLimit, gasLimit')]_vars
=============================================================================
