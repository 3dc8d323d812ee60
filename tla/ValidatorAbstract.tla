--------------------------- MODULE ValidatorAbstract ---------------------------
(***************************************************************************)
(* What ValidateBody and ValidateState promise the block-import pipeline,  *)
(* with each call one atomic step.  A call returns an error that applies   *)
(* to the block and the chain as they are when it returns, or nil, and nil *)
(* only when the block passes every content check the call is             *)
(* responsible for.  ValidateState is called only after ValidateBody       *)
(* returned nil.  The chain may change between the steps: the block may be *)
(* written by another import and the parent's state may be pruned.         *)
(*                                                                         *)
(* A nil promises nothing about the chain: whether the block is known and  *)
(* whether the parent's state is kept may change while the call runs.     *)
(***************************************************************************)
EXTENDS BlockData

VARIABLES
  faults,   \* the content checks the block fails
  known,    \* the block is in the chain with its state
  parent,   \* "state", "pruned" or "unknown"
  pc,       \* "body", "state": that call is in progress; "done"
  ret       \* ret[p]: what call p returned, or None

vars == <<faults, known, parent, pc, ret>>

(* The content checks each call is responsible for, and the errors it can  *)
(* return.                                                                 *)
CallChecks == [body  |-> {"uncles", "uncleRoot", "txRoot"},
               state |-> {"gasUsed", "bloom", "receiptRoot", "stateRoot"}]
CallErrors == [body  |-> {"KnownBlock", "UnknownAncestor", "PrunedAncestor"}
                           \cup {ErrorOf[c] : c \in CallChecks.body},
               state |-> {ErrorOf[c] : c \in CallChecks.state}]

(* Error e names a rule the block breaks in the current chain.            *)
Applicable(e) ==
  CASE e = "KnownBlock"      -> known
    [] e = "PrunedAncestor"  -> parent = "pruned"
    [] e = "UnknownAncestor" -> parent = "unknown"
    [] OTHER                 -> \E c \in faults : ErrorOf[c] = e

(* What call p may return now.                                            *)
Outcomes(p) ==
  {e \in CallErrors[p] : Applicable(e)}
    \cup {e \in {Nil} : faults \cap CallChecks[p] = {}}

Init ==
  /\ faults \in SUBSET ContentChecks
  /\ known \in BOOLEAN
  /\ parent \in ParentStatus
  /\ pc = "body"
  /\ ret = [p \in Phases |-> None]

Call(p) ==
  /\ pc = p
  /\ \E e \in Outcomes(p) :
       /\ ret' = [ret EXCEPT ![p] = e]
       /\ pc' = IF p = "body" /\ e = Nil THEN "state" ELSE "done"
  /\ UNCHANGED <<faults, known, parent>>

BlockWritten ==
  /\ ~known
  /\ known' = TRUE
  /\ UNCHANGED <<faults, parent, pc, ret>>

ParentPruned ==
  /\ parent = "state"
  /\ parent' = "pruned"
  /\ UNCHANGED <<faults, known, pc, ret>>

Next == (\E p \in Phases : Call(p)) \/ BlockWritten \/ ParentPruned

SafetySpec == Init /\ [][Next]_vars

(* A call in progress returns.                                             *)
Spec == SafetySpec /\ WF_vars(\E p \in Phases : Call(p))
=============================================================================
