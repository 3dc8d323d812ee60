------------------------------ MODULE MCGasLimit ------------------------------
(***************************************************************************)
(* Model-checking instance of GasLimit.  The code reads the divisor and    *)
(* the minimum from params; the comments of CalcGasLimit (lines 239, 242)  *)
(* give the divisor as 256, and the minimum is 5000.  Both are scaled down *)
(* by 16, to 16 and 312, keeping their ratio, so that every gas-used value *)
(* of every parent can be enumerated.                                      *)
(***************************************************************************)
EXTENDS GasLimit

MCWidth == 30
MCDivisor == 16
MCMinGasLimit == 312
MCGasFloors == {200, 312, 400}
MCGasCeils == {360, 400, 480}
MCInitialGasLimits == {312, 319, 350, 520}

(* Parents below MinGasLimit, one of them below the divisor, which         *)
(* CalcGasLimit accepts without a check.                                   *)
MCLowInitialGasLimits == {10, 100}

(* A miner ceiling below MinGasLimit, which the miner's configuration     *)
(* does not forbid.                                                        *)
MCLowGasCeils == {200}

(* The worked example of the specification, under the divisor it names    *)
(* (1024): parent gas limit 10,000,000, gas used 9,000,000, floor          *)
(* 8,000,000 and ceiling 12,000,000 give 10,003,419.                       *)
SpecExample == INSTANCE GasLimit WITH Width <- 30, GasLimitBoundDivisor <- 1024,
                                      MinGasLimit <- 5000

ASSUME WorkedExample ==
  /\ SpecExample!Contrib(9000000) = 13183
  /\ SpecExample!Decay(10000000) = 9764
  /\ SpecExample!CalcGasLimit(9000000, 10000000, 8000000, 12000000) = 10003419

(* The code's constants: divisor 256, minimum 5000.                        *)
Code == INSTANCE GasLimit WITH Width <- 30, GasLimitBoundDivisor <- 256,
                               MinGasLimit <- 5000

(* Under the code's constants, a parent at MinGasLimit with a ceiling of   *)
(* 4,000 gets a child gas limit of 4,982: the ceiling branch returns       *)
(* parent - decay without the MinGasLimit clamp.                           *)
ASSUME LowCeilExample ==
  Code!CalcGasLimit(0, 5000, 0, 4000) = 4982
=============================================================================
