--------------------------- MODULE BlockValidator ---------------------------
(***************************************************************************)
(* BlockValidator.ValidateBody and BlockValidator.ValidateState            *)
(* (src/unnamed/part_000, core/block_validator.go) for one block on its   *)
(* way through import: ValidateBody, then, if it returned nil, external    *)
(* execution and ValidateState.                                           *)
(*                                                                         *)
(* Each function runs its cheap checks sequentially, then starts one       *)
(* goroutine per entry of validateFuns; every goroutine sends its result   *)
(* on the buffered channel validateRes, and the calling goroutine receives *)
(* len(validateFuns) results, returning the first non-nil one.             *)
(*                                                                         *)
(* Data is abstracted to what the checks tell apart: the block is the set  *)
(* of content checks it fails (faults) and the chain view is two answers,  *)
(* HasBlockAndState(block) and the status of the parent.  The validator    *)
(* takes no lock on the chain, so the chain may change under it: the      *)
(* block may be written by another import path and the parent's state may *)
(* be pruned (two environment actions).                                    *)
(***************************************************************************)
EXTENDS Naturals, Sequences, FiniteSets, BlockData

(* The closures of validateFuns, in slice order.                          *)
ValidateFuns == [body  |-> <<"known", "txRoot", "ancestor">>,
                 state |-> <<"bloom", "receiptRoot", "stateRoot">>]
Funs == {"known", "txRoot", "ancestor", "bloom", "receiptRoot", "stateRoot"}
NumFuns(p) == Len(ValidateFuns[p])

(* A goroutine is named by the call that started it and its slot.         *)
Goroutines == Phases \X (1..3)

(* Where the calling goroutine is while call p receives its results.      *)
WaitPc == [body |-> "bodyWait", state |-> "stateWait"]

VARIABLES
  faults,   \* the content checks the block fails (fixed per block)
  known,    \* bc.HasBlockAndState(block.Hash(), block.NumberU64())
  parent,   \* "state": HasBlockAndState(parent); "pruned": only HasBlock
  pc,       \* calling goroutine: "body", "bodyWait", "state", "stateWait", "done"
  g,        \* g[x]: "idle", "run" (checking), "send" (result ready), "done"
  fn,       \* fn[x]: the closure goroutine x runs (tmpFunc)
  res,      \* res[x]: the result goroutine x computed
  ch,       \* ch[p]: every value sent on validateRes of call p, in order
  taken,    \* taken[p]: how many of them the receiving loop took (its i)
  ret       \* ret[p]: what call p returned, or None

chain == <<faults, known, parent>>
vars == <<faults, known, parent, pc, g, fn, res, ch, taken, ret>>

-----------------------------------------------------------------------------
(* ChainView answers.                                                     *)
ParentHasState == parent = "state"
ParentHasBlock == parent # "unknown"

(* Mutant: the ancestor closure tests HasBlock with the wrong polarity.     *)
CheckSwappedAncestor(f) ==
  CASE f = "known"    -> IF known THEN "KnownBlock" ELSE Nil
    [] f = "ancestor" -> IF ParentHasState THEN Nil
                         ELSE IF ParentHasBlock THEN "UnknownAncestor"
                         ELSE "PrunedAncestor"
    [] OTHER          -> IF f \in faults THEN ErrorOf[f] ELSE Nil

(* What closure f of validateFuns returns in the current state (lines      *)
(* 132-152 and 182-216).                                                   *)
Check(f) ==
  CASE f = "known"    -> IF known THEN "KnownBlock" ELSE Nil
    [] f = "ancestor" -> IF ParentHasState THEN Nil
                         ELSE IF ParentHasBlock THEN "PrunedAncestor"
                         ELSE "UnknownAncestor"
    [] OTHER          -> IF f \in faults THEN ErrorOf[f] ELSE Nil

(* Mutant: the uncle-hash comparison of line 126 is left out.             *)
BodyPreCheckNoUncleRoot ==
  IF known THEN "KnownBlock"
  ELSE IF "uncles" \in faults THEN ErrorOf["uncles"]
  ELSE Nil

(* The sequential checks of ValidateBody before the goroutines start, in   *)
(* the order of their early returns (lines 119-130).                       *)
BodyPreCheck ==
  IF known THEN "KnownBlock"
  ELSE IF "uncles" \in faults THEN ErrorOf["uncles"]
  ELSE IF "uncleRoot" \in faults THEN ErrorOf["uncleRoot"]
  ELSE Nil

(* The synchronous gas-used check of ValidateState (lines 176-178).       *)
StatePreCheck == IF "gasUsed" \in faults THEN ErrorOf["gasUsed"] ELSE Nil

(* Mutant: a channel with a single buffer slot.                           *)
ChanCapOne(p) == 1

(* make(chan error, len(validateFuns)).                                   *)
ChanCap(p) == NumFuns(p)

(* The values buffered in validateRes of call p.                           *)
Buffered(p) == Len(ch[p]) - taken[p]

(* Call p returns e to the import pipeline, which goes on to execution   *)
(* and ValidateState only after ValidateBody returned nil.                 *)
Return(p, e) ==
  /\ ret' = [ret EXCEPT ![p] = e]
  /\ pc' = IF p = "body" /\ e = Nil THEN "state" ELSE "done"

(* Mutant: the loop starts one goroutine fewer than there are closures.   *)
SpawnOneShort(p) ==
  /\ g' = [x \in Goroutines |-> IF x[1] = p /\ x[2] < NumFuns(p) THEN "run"
                                ELSE g[x]]
  /\ fn' = [x \in Goroutines |-> IF x[1] = p THEN ValidateFuns[p][x[2]]
                                 ELSE fn[x]]
  /\ pc' = WaitPc[p]

(* The for loop of lines 155-160: goroutine <<p, i>> runs validateFuns[i], *)
(* bound through tmpFunc when it is started.                               *)
Spawn(p) ==
  /\ g' = [x \in Goroutines |-> IF x[1] = p THEN "run" ELSE g[x]]
  /\ fn' = [x \in Goroutines |-> IF x[1] = p THEN ValidateFuns[p][x[2]]
                                 ELSE fn[x]]
  /\ pc' = WaitPc[p]

-----------------------------------------------------------------------------
Init ==
  /\ faults \in SUBSET ContentChecks
  /\ known \in BOOLEAN
  /\ parent \in ParentStatus
  /\ pc = "body"
  /\ g = [x \in Goroutines |-> "idle"]
  /\ fn = [x \in Goroutines |-> None]
  /\ res = [x \in Goroutines |-> None]
  /\ ch = [p \in Phases |-> <<>>]
  /\ taken = [p \in Phases |-> 0]
  /\ ret = [p \in Phases |-> None]

(* ValidateBody up to the start of its goroutines (lines 117-160).        *)
ValidateBody ==
  /\ pc = "body"
  /\ \/ /\ BodyPreCheck # Nil
        /\ Return("body", BodyPreCheck)
        /\ UNCHANGED <<g, fn>>
     \/ /\ BodyPreCheck = Nil
        /\ Spawn("body")
        /\ UNCHANGED ret
  /\ UNCHANGED <<chain, res, ch, taken>>

(* ValidateState up to the start of its goroutines (lines 174-224).       *)
ValidateState ==
  /\ pc = "state"
  /\ \/ /\ StatePreCheck # Nil
        /\ Return("state", StatePreCheck)
        /\ UNCHANGED <<g, fn>>
     \/ /\ StatePreCheck = Nil
        /\ Spawn("state")
        /\ UNCHANGED ret
  /\ UNCHANGED <<chain, res, ch, taken>>

(* Goroutine x evaluates its closure against the chain as it is now.      *)
RunCheck(x) ==
  /\ g[x] = "run"
  /\ res' = [res EXCEPT ![x] = Check(fn[x])]
  /\ g' = [g EXCEPT ![x] = "send"]
  /\ UNCHANGED <<chain, pc, fn, ch, taken, ret>>

(* validateRes <- tmpFunc(): blocks while the buffer is full.             *)
SendResult(x) ==
  /\ g[x] = "send"
  /\ Buffered(x[1]) < ChanCap(x[1])
  /\ ch' = [ch EXCEPT ![x[1]] = Append(@, res[x])]
  /\ g' = [g EXCEPT ![x] = "done"]
  /\ UNCHANGED <<chain, pc, fn, res, taken, ret>>

(* Mutant: the receiving loop stops one result early.                      *)
CollectOneShort(p) ==
  /\ pc = WaitPc[p]
  /\ Buffered(p) > 0
  /\ taken' = [taken EXCEPT ![p] = @ + 1]
  /\ LET r == ch[p][taken[p] + 1]
     IN  \/ /\ r # Nil
            /\ Return(p, r)
         \/ /\ r = Nil
            /\ taken[p] + 1 = NumFuns(p) - 1
            /\ Return(p, Nil)
         \/ /\ r = Nil
            /\ taken[p] + 1 < NumFuns(p) - 1
            /\ UNCHANGED <<pc, ret>>
  /\ UNCHANGED <<chain, g, fn, res, ch>>

(* One iteration of the receiving loop (lines 161-167 and 225-231).       *)
Collect(p) ==
  /\ pc = WaitPc[p]
  /\ Buffered(p) > 0
  /\ taken' = [taken EXCEPT ![p] = @ + 1]
  /\ LET r == ch[p][taken[p] + 1]
     IN  \/ /\ r # Nil
            /\ Return(p, r)
         \/ /\ r = Nil
            /\ taken[p] + 1 = NumFuns(p)
            /\ Return(p, Nil)
         \/ /\ r = Nil
            /\ taken[p] + 1 < NumFuns(p)
            /\ UNCHANGED <<pc, ret>>
  /\ UNCHANGED <<chain, g, fn, res, ch>>

(* Environment: another import path writes the block with its state.      *)
BlockWritten ==
  /\ ~known
  /\ known' = TRUE
  /\ UNCHANGED <<faults, parent, pc, g, fn, res, ch, taken, ret>>

(* Environment: the parent's state is pruned, the parent block stays.     *)
ParentPruned ==
  /\ parent = "state"
  /\ parent' = "pruned"
  /\ UNCHANGED <<faults, known, pc, g, fn, res, ch, taken, ret>>

Validator ==
  \/ ValidateBody
  \/ ValidateState
  \/ \E p \in Phases : Collect(p)

Goroutine(x) == RunCheck(x) \/ SendResult(x)

Environment == BlockWritten \/ ParentPruned

Next == Validator \/ (\E x \in Goroutines : Goroutine(x)) \/ Environment

(* The Go scheduler eventually runs every runnable goroutine; the          *)
(* environment is not required to act.                                    *)
Fairness ==
  /\ WF_vars(Validator)
  /\ \A x \in Goroutines : WF_vars(Goroutine(x))

Spec == Init /\ [][Next]_vars /\ Fairness

-----------------------------------------------------------------------------
TypeOK ==
  /\ faults \in SUBSET ContentChecks
  /\ known \in BOOLEAN
  /\ parent \in ParentStatus
  /\ pc \in {"body", "bodyWait", "state", "stateWait", "done"}
  /\ g \in [Goroutines -> {"idle", "run", "send", "done"}]
  /\ fn \in [Goroutines -> Funs \cup {None}]
  /\ res \in [Goroutines -> Results \cup {None}]
  /\ ch \in [Phases -> Seq(Results)]
  /\ taken \in [Phases -> 0..3]
  /\ ret \in [Phases -> Results \cup {None}]

(* No false accept.  When ValidateState returns nil the block fails no     *)
(* content check, and every closure of both calls was run by some         *)
(* goroutine that finished and reported nil: success is never reported    *)
(* while a check is pending or was skipped (ValidateBody, ValidateState).  *)
AcceptedBlockIsValid ==
  ret["state"] = Nil =>
    /\ faults = {}
    /\ \A p \in Phases : \A i \in 1..NumFuns(p) :
         \E x \in Goroutines : /\ x[1] = p
                               /\ fn[x] = ValidateFuns[p][i]
                               /\ g[x] = "done"
                               /\ res[x] = Nil

(* The refinement mapping: the calling goroutine is inside call p from    *)
(* its start until it returns, whether it is still running its cheap      *)
(* checks or already receiving results.                                    *)
AbstractPc ==
  IF pc \in {"body", "bodyWait"} THEN "body"
  ELSE IF pc \in {"state", "stateWait"} THEN "state"
  ELSE "done"

Abstract == INSTANCE ValidatorAbstract WITH pc <- AbstractPc

(* No false reject.  Every error either call returns names a rule the      *)
(* block really breaks in the current chain: KnownBlock only for a block   *)
(* that is known with its state, PrunedAncestor only for a parent whose    *)
(* block is kept but whose state is not, UnknownAncestor only for a parent *)
(* that is missing, a mismatch only for the field that is wrong.           *)
ErrorsAreApplicable ==
  \A p \in Phases : ret[p] \in Errors => Abstract!Applicable(ret[p])

(* ValidateBody and ValidateState, with their goroutines, the channel and  *)
(* the chain changing under them, implement the atomic calls of            *)
(* ValidatorAbstract: each call returns once, an error of its own that     *)
(* applies when it returns, or nil only for a block whose content passes   *)
(* the call's checks, and ValidateState runs only after a nil from         *)
(* ValidateBody.                                                           *)
ImplementsAbstract == Abstract!Spec

(* Both calls always return to the import pipeline.                        *)
ValidationTerminates == <>(pc = "done")

(* No goroutine leak: every goroutine a call started eventually delivers   *)
(* its result and exits, even when the call returned on an earlier error   *)
(* and nobody receives from its channel any more.                          *)
NoGoroutineLeak == <>[](\A x \in Goroutines : g[x] \in {"idle", "done"})
=============================================================================
