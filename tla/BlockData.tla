------------------------------ MODULE BlockData -------------------------------
(***************************************************************************)
(* The data BlockValidator's calls work on, shared by the detailed model   *)
(* (BlockValidator) and the promise it keeps (ValidatorAbstract): the      *)
(* content checks a block can fail, the errors of core/block_validator.go  *)
(* and what the chain can say about the parent.                           *)
(***************************************************************************)

(* The two calls: ValidateBody and ValidateState.                          *)
Phases == {"body", "state"}

(* Content checks; "uncles" stands for engine.VerifyUncles.               *)
ContentChecks == {"uncles", "uncleRoot", "txRoot", "gasUsed",
                  "bloom", "receiptRoot", "stateRoot"}

Nil == "nil"
None == "none"          \* the call has not returned
Errors == {"KnownBlock", "EngineError", "UncleRootMismatch",
           "TxRootMismatch", "UnknownAncestor", "PrunedAncestor",
           "GasUsedMismatch", "BloomMismatch", "ReceiptRootMismatch",
           "StateRootMismatch"}
Results == Errors \cup {Nil}

(* The error a failed content check returns.                               *)
ErrorOf == [uncles |-> "EngineError", uncleRoot |-> "UncleRootMismatch",
            txRoot |-> "TxRootMismatch", gasUsed |-> "GasUsedMismatch",
            bloom |-> "BloomMismatch", receiptRoot |-> "ReceiptRootMismatch",
            stateRoot |-> "StateRootMismatch"]

ParentStatus == {"state", "pruned", "unknown"}
=============================================================================
