---------------------- MODULE BlockValidatorRefinement ----------------------
(***************************************************************************)
(* Proofs that BlockValidator implements ValidatorAbstract: every step of  *)
(* ValidateBody, ValidateState, their goroutines and the chain is a step   *)
(* of the atomic calls of the abstract specification or leaves its state   *)
(* alone, under the mapping AbstractPc.                                    *)
(*                                                                         *)
(* Two facts carry the argument.  First, every error the validator holds,  *)
(* as a goroutine's result, in a channel or as a return value, applies to  *)
(* the chain and belongs to its call (AInv).  This is inductive because    *)
(* the chain only moves one way: a block once known stays known, a pruned  *)
(* parent stays pruned and a missing one stays missing, so an error that   *)
(* applied when a closure computed it still applies when the call returns  *)
(* it.  Second, when a call returns nil all its goroutines finished with   *)
(* nil (IInv, from BlockValidatorProofs), so the block passes the call's   *)
(* content checks.                                                         *)
(***************************************************************************)
EXTENDS BlockValidatorProofs

(* Error e applies to a chain in which the block fails the checks F, is   *)
(* known iff K, and whose parent has status P (Abstract!Applicable with    *)
(* the chain as arguments, so that old results can be judged against a new *)
(* chain).                                                                 *)
AppIn(e, F, K, P) ==
  CASE e = "KnownBlock"      -> K = TRUE
    [] e = "PrunedAncestor"  -> P = "pruned"
    [] e = "UnknownAncestor" -> P = "unknown"
    [] OTHER                 -> \E c \in F : ErrorOf[c] = e

(* Result r, held for call p, is nil, none, or an error of p that applies.  *)
ROk(p, r, F, K, P) ==
  r \in Errors => AppIn(r, F, K, P) /\ r \in Abstract!CallErrors[p]

ResultOk(p, r) == ROk(p, r, faults, known, parent)

AInv ==
  /\ \A x \in Goroutines : ResultOk(x[1], res[x])
  /\ \A p \in Phases : \A i \in 1 .. Len(ch[p]) : ResultOk(p, ch[p][i])
  /\ \A p \in Phases : ResultOk(p, ret[p])

-----------------------------------------------------------------------------
(* AppIn on the current chain is the abstract specification's Applicable.  *)
LEMMA AppInApplicable ==
  ASSUME NEW e, known \in BOOLEAN
  PROVE  AppIn(e, faults, known, parent) <=> Abstract!Applicable(e)
BY DEF AppIn, Abstract!Applicable, ErrorOf, Abstract!ErrorOf

(* The chain only moves one way: no step changes the block, unknows it,    *)
(* or changes a parent whose state is already gone.                        *)
LEMMA ChainStep ==
  ASSUME [Next]_vars
  PROVE  /\ faults' = faults
         /\ known => known'
         /\ parent # "state" => parent' = parent
<1>1. CASE Validator \/ \E x \in Goroutines : Goroutine(x)
  <2>1. UNCHANGED chain
    BY <1>1 DEF Validator, ValidateBody, ValidateState, Collect, Goroutine,
                RunCheck, SendResult
  <2>. QED  BY <2>1 DEF chain
<1>2. CASE Environment \/ UNCHANGED vars
  BY <1>2 DEF Environment, BlockWritten, ParentPruned, vars
<1>. QED  BY <1>1, <1>2 DEF Next

(* An error that applies keeps applying across such a step.               *)
LEMMA ROkStable ==
  ASSUME NEW p, NEW r, NEW F, NEW K, NEW K2, NEW P, NEW P2,
         ROk(p, r, F, K, P), K = TRUE => K2 = TRUE, P # "state" => P2 = P
  PROVE  ROk(p, r, F, K2, P2)
BY DEF ROk, AppIn

(* What a closure computes is an error of its call that applies now         *)
(* (lines 132-152 and 182-216).                                            *)
LEMMA CheckOk ==
  ASSUME NEW p \in Phases, NEW i \in 1 .. 3, known \in BOOLEAN,
         parent \in ParentStatus
  PROVE  ResultOk(p, Check(ValidateFuns[p][i]))
<1>1. CASE p = "body" /\ i = 1
  BY <1>1 DEF ResultOk, ROk, AppIn, Check, ValidateFuns, Abstract!CallErrors,
              Abstract!CallChecks, Abstract!ErrorOf, ErrorOf, Errors, Nil
<1>2. CASE p = "body" /\ i = 2
  BY <1>2 DEF ResultOk, ROk, AppIn, Check, ValidateFuns, Abstract!CallErrors,
              Abstract!CallChecks, Abstract!ErrorOf, ErrorOf, Errors, Nil
<1>3. CASE p = "body" /\ i = 3
  BY <1>3 DEF ResultOk, ROk, AppIn, Check, ValidateFuns, Abstract!CallErrors,
              Abstract!CallChecks, Abstract!ErrorOf, ErrorOf, Errors, Nil,
              ParentHasState, ParentHasBlock, ParentStatus
<1>4. CASE p = "state"
  BY <1>4 DEF ResultOk, ROk, AppIn, Check, ValidateFuns, Abstract!CallErrors,
              Abstract!CallChecks, Abstract!ErrorOf, ErrorOf, Errors, Nil
<1>. QED  BY <1>1, <1>2, <1>3, <1>4 DEF Phases

(* So is what the cheap checks return (lines 119-129 and 176-178).         *)
LEMMA PreCheckOk ==
  ASSUME known \in BOOLEAN
  PROVE  /\ ResultOk("body", BodyPreCheck)
         /\ ResultOk("state", StatePreCheck)
BY DEF ResultOk, ROk, AppIn, BodyPreCheck, StatePreCheck, Abstract!CallErrors,
       Abstract!CallChecks, Abstract!ErrorOf, ErrorOf, Errors, Nil

-----------------------------------------------------------------------------
LEMMA InitAInv == Init => AInv
BY DEF Init, AInv, ResultOk, ROk, Errors, None

(* Every step keeps AInv: a new result is computed by a closure or a cheap *)
(* check, or moved from a goroutine to the channel and from the channel to *)
(* the return value.                                                       *)
LEMMA NextAInv == IInv /\ AInv /\ [Next]_vars => AInv'
<1>. SUFFICES ASSUME IInv, AInv, [Next]_vars PROVE AInv'
  OBVIOUS
<1>. DEFINE Ok(p, r) == ROk(p, r, faults', known', parent')
<1>0. /\ faults' = faults /\ (known => known') /\ (parent # "state" => parent' = parent)
      /\ TypeOK
  BY ChainStep DEF IInv
<1>a. ASSUME NEW p, NEW r, ResultOk(p, r) PROVE Ok(p, r)
  <2>1. known \in BOOLEAN
    BY <1>0 DEF TypeOK
  <2>. QED  BY <1>0, <1>a, <2>1, ROkStable DEF ResultOk
<1>b. AInv' <=> /\ \A x \in Goroutines : Ok(x[1], res'[x])
                /\ \A p \in Phases : \A i \in 1 .. Len(ch'[p]) : Ok(p, ch'[p][i])
                /\ \A p \in Phases : Ok(p, ret'[p])
  BY DEF AInv, ResultOk
(* Every fact AInv states of the old state still holds after the step.     *)
<1>1. /\ \A x \in Goroutines : Ok(x[1], res[x])
      /\ \A p \in Phases : \A i \in 1 .. Len(ch[p]) : Ok(p, ch[p][i])
      /\ \A p \in Phases : Ok(p, ret[p])
  BY <1>a DEF AInv
<1>2. CASE ValidateBody
  <2>1. UNCHANGED <<res, ch>>
    BY <1>2 DEF ValidateBody
  <2>2. ret' = ret \/ ret' = [ret EXCEPT !["body"] = BodyPreCheck]
    BY <1>2 DEF ValidateBody, Return
  <2>3. Ok("body", BodyPreCheck)
    BY <1>0, <1>a, PreCheckOk DEF TypeOK
  <2>4. \A x \in Goroutines : Ok(x[1], res'[x])
    BY <1>1, <2>1
  <2>5. \A q \in Phases : \A i \in 1 .. Len(ch'[q]) : Ok(q, ch'[q][i])
    BY <1>1, <2>1
  <2>6. ASSUME NEW q \in Phases PROVE Ok(q, ret'[q])
    <3>1. ret'[q] = ret[q] \/ (q = "body" /\ ret'[q] = BodyPreCheck)
      BY <1>0, <2>2 DEF TypeOK
    <3>. QED  BY <1>1, <2>3, <3>1
  <2>. QED  BY <1>b, <2>4, <2>5, <2>6
<1>3. CASE ValidateState
  <2>1. UNCHANGED <<res, ch>>
    BY <1>3 DEF ValidateState
  <2>2. ret' = ret \/ ret' = [ret EXCEPT !["state"] = StatePreCheck]
    BY <1>3 DEF ValidateState, Return
  <2>3. Ok("state", StatePreCheck)
    BY <1>0, <1>a, PreCheckOk DEF TypeOK
  <2>4. \A x \in Goroutines : Ok(x[1], res'[x])
    BY <1>1, <2>1
  <2>5. \A q \in Phases : \A i \in 1 .. Len(ch'[q]) : Ok(q, ch'[q][i])
    BY <1>1, <2>1
  <2>6. ASSUME NEW q \in Phases PROVE Ok(q, ret'[q])
    <3>1. ret'[q] = ret[q] \/ (q = "state" /\ ret'[q] = StatePreCheck)
      BY <1>0, <2>2 DEF TypeOK
    <3>. QED  BY <1>1, <2>3, <3>1
  <2>. QED  BY <1>b, <2>4, <2>5, <2>6
<1>4. ASSUME NEW p \in Phases, Collect(p)
      PROVE  AInv'
  <2>1. UNCHANGED <<res, ch>>
    BY <1>4 DEF Collect
  <2>2. /\ taken[p] \in 0 .. 3 /\ ch[p] \in Seq(Results)
        /\ taken[p] + 1 \in 1 .. Len(ch[p])
    BY <1>0, <1>4 DEF TypeOK, Collect, Buffered
  <2>3. \/ ret' = ret
        \/ ret' = [ret EXCEPT ![p] = ch[p][taken[p] + 1]]
        \/ ret' = [ret EXCEPT ![p] = Nil]
    BY <1>4 DEF Collect, Return
  <2>4. Ok(p, ch[p][taken[p] + 1]) /\ Ok(p, Nil)
    BY <1>1, <2>2 DEF ROk, Errors, Nil
  <2>5. \A x \in Goroutines : Ok(x[1], res'[x])
    BY <1>1, <2>1
  <2>6. \A q \in Phases : \A i \in 1 .. Len(ch'[q]) : Ok(q, ch'[q][i])
    BY <1>1, <2>1
  <2>7. ASSUME NEW q \in Phases PROVE Ok(q, ret'[q])
    <3>1. \/ ret'[q] = ret[q]
          \/ q = p /\ ret'[q] = ch[p][taken[p] + 1]
          \/ q = p /\ ret'[q] = Nil
      BY <1>0, <2>3 DEF TypeOK
    <3>. QED  BY <1>1, <2>4, <3>1
  <2>. QED  BY <1>b, <2>5, <2>6, <2>7
<1>5. ASSUME NEW x \in Goroutines, RunCheck(x)
      PROVE  AInv'
  <2>1. UNCHANGED <<ch, ret>> /\ res' = [res EXCEPT ![x] = Check(fn[x])]
    BY <1>5 DEF RunCheck
  <2>2. fn[x] = ValidateFuns[x[1]][x[2]] /\ x[1] \in Phases /\ x[2] \in 1 .. 3
    BY <1>5 DEF RunCheck, IInv, Goroutine_Inv, GoroutineOk, Goroutines
  <2>3. Ok(x[1], Check(fn[x]))
    BY <1>0, <1>a, <2>2, CheckOk DEF TypeOK
  <2>. QED  BY <1>0, <1>1, <1>b, <2>1, <2>3 DEF TypeOK
<1>6. ASSUME NEW x \in Goroutines, SendResult(x)
      PROVE  AInv'
  <2>. DEFINE p == x[1]
  <2>1. UNCHANGED <<res, ret>> /\ ch' = [ch EXCEPT ![p] = Append(@, res[x])]
    BY <1>6 DEF SendResult
  <2>2. p \in Phases /\ ch[p] \in Seq(Results) /\ res[x] \in Results
    BY <1>0, <1>6 DEF SendResult, IInv, Goroutine_Inv, GoroutineOk, TypeOK, Goroutines
  <2>3. \A i \in 1 .. Len(ch'[p]) : ch'[p][i] = ch[p][i] \/ ch'[p][i] = res[x]
    BY <1>0, <2>1, <2>2 DEF TypeOK
  <2>4. \A q \in Phases \ {p} : ch'[q] = ch[q]
    BY <1>0, <2>1 DEF TypeOK
  <2>5. \A i \in 1 .. Len(ch'[p]) : Ok(p, ch'[p][i])
    <3>1. \A i \in 1 .. Len(ch'[p]) : i \in 1 .. Len(ch[p]) \/ ch'[p][i] = res[x]
      BY <1>0, <2>1, <2>2 DEF TypeOK
    <3>. QED  BY <1>1, <2>1, <2>2, <3>1 DEF TypeOK
  <2>. QED  BY <1>1, <1>b, <2>1, <2>4, <2>5
<1>7. CASE Environment \/ UNCHANGED vars
  <2>1. UNCHANGED <<res, ch, ret>>
    BY <1>7 DEF Environment, BlockWritten, ParentPruned, vars
  <2>. QED  BY <1>1, <1>b, <2>1
<1>. QED  BY <1>2, <1>3, <1>4, <1>5, <1>6, <1>7 DEF Next, Validator, Goroutine

-----------------------------------------------------------------------------
(* When a call returns nil, all its goroutines finished with nil, so the   *)
(* block passes every content check the call is responsible for: the      *)
(* cheap ones before the goroutines started, and one closure per other.    *)
LEMMA NilPasses ==
  ASSUME IInv, NEW p \in Phases,
         \A x \in GoroutinesOf(p) : g[x] = "done" /\ res[x] = Nil
  PROVE  faults \cap Abstract!CallChecks[p] = {}
<1>1. \A x \in GoroutinesOf(p) : /\ fn[x] = ValidateFuns[p][x[2]]
                                 /\ fn[x] \in ContentChecks => fn[x] \notin faults
  BY DEF IInv, Goroutine_Inv, GoroutineOk, GoroutinesOf, Goroutines
<1>2. /\ p = "body" => faults \cap {"uncles", "uncleRoot"} = {}
      /\ p = "state" => "gasUsed" \notin faults
  <2>1. GoroutineOk(<<p, 1>>) /\ <<p, 1>> \in GoroutinesOf(p)
    BY DEF IInv, Goroutine_Inv, Goroutines, GoroutinesOf
  <2>. QED  BY <2>1 DEF GoroutineOk
<1>3. CASE p = "body"
  <2>1. fn[<<p, 2>>] = "txRoot" /\ "txRoot" \notin faults
    BY <1>1, <1>3 DEF GoroutinesOf, Goroutines, ValidateFuns, ContentChecks
  <2>. QED  BY <1>2, <1>3, <2>1 DEF Abstract!CallChecks
<1>4. CASE p = "state"
  <2>0. \A i \in 1 .. 3 : <<p, i>> \in GoroutinesOf(p)
    BY DEF GoroutinesOf, Goroutines
  <2>1. /\ fn[<<p, 1>>] = "bloom" /\ fn[<<p, 2>>] = "receiptRoot"
        /\ fn[<<p, 3>>] = "stateRoot"
    BY <1>1, <1>4, <2>0 DEF ValidateFuns
  <2>2. /\ "bloom" \notin faults
        /\ "receiptRoot" \notin faults
        /\ "stateRoot" \notin faults
    BY <1>1, <2>0, <2>1 DEF ContentChecks
  <2>. QED  BY <1>2, <1>4, <2>2 DEF Abstract!CallChecks
<1>. QED  BY <1>3, <1>4 DEF Phases

(* A call returning e from where AbstractPc puts it is an abstract call    *)
(* step, provided e is one of the call's possible outcomes.                *)
LEMMA ReturnRefines ==
  ASSUME NEW p \in Phases, NEW e, AbstractPc = p,
         e \in Abstract!Outcomes(p), Return(p, e), UNCHANGED chain
  PROVE  Abstract!Call(p)
<1>1. AbstractPc' = IF p = "body" /\ e = Nil THEN "state" ELSE "done"
  BY DEF Return, AbstractPc
<1>. QED  BY <1>1 DEF Abstract!Call, Return, chain, Abstract!Nil, Nil

(* A step that leaves the chain, the caller's position and the results     *)
(* alone is an abstract stutter.                                           *)
LEMMA StutterRefines ==
  ASSUME UNCHANGED <<chain, ret>>, AbstractPc' = AbstractPc
  PROVE  UNCHANGED Abstract!vars
BY DEF Abstract!vars, chain

(* Every step of the detailed model is a step of ValidatorAbstract or     *)
(* leaves its state unchanged.                                             *)
LEMMA StepRefines ==
  IInv /\ AInv /\ [Next]_vars => [Abstract!Next]_Abstract!vars
<1>. SUFFICES ASSUME IInv, AInv, [Next]_vars
              PROVE  [Abstract!Next]_Abstract!vars
  OBVIOUS
<1>0. TypeOK
  BY DEF IInv
<1>1. CASE ValidateBody
  <2>1. pc = "body" /\ AbstractPc = "body" /\ UNCHANGED chain
    BY <1>1 DEF ValidateBody, AbstractPc, chain
  <2>2. CASE BodyPreCheck # Nil /\ Return("body", BodyPreCheck)
    <3>1. BodyPreCheck \in Abstract!Outcomes("body")
      <4>1. ResultOk("body", BodyPreCheck) /\ BodyPreCheck \in Errors
        BY <1>0, <2>2, PreCheckOk, PreCheckResult DEF TypeOK, Results
      <4>2. Abstract!Applicable(BodyPreCheck)
        BY <1>0, <4>1, AppInApplicable DEF ResultOk, ROk, TypeOK
      <4>. QED  BY <4>1, <4>2 DEF Abstract!Outcomes, ResultOk, ROk
    <3>. QED  BY <2>1, <2>2, <3>1, ReturnRefines DEF Abstract!Next, Abstract!Phases, Phases
  <2>3. CASE BodyPreCheck = Nil /\ Spawn("body") /\ UNCHANGED ret
    <3>1. AbstractPc' = "body"
      BY <2>3 DEF Spawn, WaitPc, AbstractPc
    <3>. QED  BY <2>1, <2>3, <3>1, StutterRefines
  <2>. QED  BY <1>1, <2>2, <2>3 DEF ValidateBody
<1>2. CASE ValidateState
  <2>1. pc = "state" /\ AbstractPc = "state" /\ UNCHANGED chain
    BY <1>2 DEF ValidateState, AbstractPc, chain
  <2>2. CASE StatePreCheck # Nil /\ Return("state", StatePreCheck)
    <3>1. StatePreCheck \in Abstract!Outcomes("state")
      <4>1. ResultOk("state", StatePreCheck) /\ StatePreCheck \in Errors
        BY <1>0, <2>2, PreCheckOk, PreCheckResult DEF TypeOK, Results
      <4>2. Abstract!Applicable(StatePreCheck)
        BY <1>0, <4>1, AppInApplicable DEF ResultOk, ROk, TypeOK
      <4>. QED  BY <4>1, <4>2 DEF Abstract!Outcomes, ResultOk, ROk
    <3>. QED  BY <2>1, <2>2, <3>1, ReturnRefines DEF Abstract!Next, Abstract!Phases, Phases
  <2>3. CASE StatePreCheck = Nil /\ Spawn("state") /\ UNCHANGED ret
    <3>1. AbstractPc' = "state"
      BY <2>3 DEF Spawn, WaitPc, AbstractPc
    <3>. QED  BY <2>1, <2>3, <3>1, StutterRefines
  <2>. QED  BY <1>2, <2>2, <2>3 DEF ValidateState
<1>3. ASSUME NEW p \in Phases, Collect(p)
      PROVE  [Abstract!Next]_Abstract!vars
  <2>. DEFINE r == ch[p][taken[p] + 1]
  <2>1. /\ pc = WaitPc[p] /\ AbstractPc = p /\ UNCHANGED chain
        /\ taken[p] \in 0 .. 3 /\ ch[p] \in Seq(Results)
        /\ taken[p] + 1 \in 1 .. Len(ch[p])
    BY <1>0, <1>3 DEF Collect, WaitPc, AbstractPc, chain, Phases, TypeOK, Buffered
  <2>2. CASE r # Nil /\ Return(p, r)
    <3>1. r \in Errors /\ ResultOk(p, r)
      BY <2>1, <2>2 DEF AInv, Results
    <3>2. Abstract!Applicable(r)
      BY <1>0, <3>1, AppInApplicable DEF ResultOk, ROk, TypeOK
    <3>3. r \in Abstract!Outcomes(p)
      BY <3>1, <3>2 DEF Abstract!Outcomes, ResultOk, ROk
    <3>. QED  BY <2>1, <2>2, <3>3, ReturnRefines DEF Abstract!Next, Abstract!Phases, Phases
  <2>3. CASE r = Nil /\ taken[p] + 1 = NumFuns(p) /\ Return(p, Nil)
    <3>1. ret[p] = None
      BY <1>3 DEF Collect, WaitPc, IInv, Progress, Phases
    <3>2. \A x \in GoroutinesOf(p) : g[x] = "done" /\ res[x] = Nil
      BY <2>1, <2>3, <3>1, AllNil, ValidateFunsType
    <3>3. Nil \in Abstract!Outcomes(p)
      BY <3>2, NilPasses DEF Abstract!Outcomes, Abstract!Nil, Nil
    <3>. QED  BY <2>1, <2>3, <3>3, ReturnRefines DEF Abstract!Next, Abstract!Phases, Phases
  <2>4. CASE r = Nil /\ taken[p] + 1 < NumFuns(p) /\ UNCHANGED <<pc, ret>>
    <3>1. AbstractPc' = AbstractPc
      BY <2>4 DEF AbstractPc
    <3>. QED  BY <2>1, <2>4, <3>1, StutterRefines
  <2>. QED  BY <1>3, <2>2, <2>3, <2>4 DEF Collect
<1>4. CASE \E x \in Goroutines : Goroutine(x)
  <2>1. UNCHANGED <<chain, pc, ret>>
    BY <1>4 DEF Goroutine, RunCheck, SendResult, chain
  <2>2. AbstractPc' = AbstractPc
    BY <2>1 DEF AbstractPc
  <2>. QED  BY <2>1, <2>2, StutterRefines
<1>5. CASE BlockWritten
  <2>1. UNCHANGED <<pc, ret, faults, parent>> /\ ~known /\ known' = TRUE
    BY <1>5 DEF BlockWritten
  <2>2. AbstractPc' = AbstractPc
    BY <2>1 DEF AbstractPc
  <2>. QED  BY <2>1, <2>2 DEF Abstract!Next, Abstract!BlockWritten
<1>6. CASE ParentPruned
  <2>1. UNCHANGED <<pc, ret, faults, known>> /\ parent = "state" /\ parent' = "pruned"
    BY <1>6 DEF ParentPruned
  <2>2. AbstractPc' = AbstractPc
    BY <2>1 DEF AbstractPc
  <2>. QED  BY <2>1, <2>2 DEF Abstract!Next, Abstract!ParentPruned
<1>7. CASE UNCHANGED vars
  <2>1. UNCHANGED <<chain, pc, ret>>
    BY <1>7 DEF vars, chain
  <2>2. AbstractPc' = AbstractPc
    BY <2>1 DEF AbstractPc
  <2>. QED  BY <2>1, <2>2, StutterRefines
<1>. QED  BY <1>1, <1>2, <1>3, <1>4, <1>5, <1>6, <1>7
          DEF Next, Validator, Environment

-----------------------------------------------------------------------------
(* AInv holds in every reachable state.                                    *)
THEOREM AInvHolds == Spec => []AInv
<1>1. Spec => []IInv
  BY IInvHolds
<1>. QED  BY <1>1, InitAInv, NextAInv, PTL DEF Spec

(* No false reject: every error ValidateBody or ValidateState returns      *)
(* applies to the block and the chain as they are, however the goroutines  *)
(* interleave with another import writing the block or the parent's state  *)
(* being pruned (core/block_validator.go, lines 119-167 and 176-231).      *)
THEOREM NoFalseReject == Spec => []ErrorsAreApplicable
<1>1. IInv /\ AInv => ErrorsAreApplicable
  <2>. SUFFICES ASSUME IInv, AInv, NEW p \in Phases, ret[p] \in Errors
                PROVE  Abstract!Applicable(ret[p])
    BY DEF ErrorsAreApplicable
  <2>1. ResultOk(p, ret[p]) /\ known \in BOOLEAN
    BY DEF AInv, IInv, TypeOK
  <2>. QED  BY <2>1, AppInApplicable DEF ResultOk, ROk
<1>. QED  BY <1>1, IInvHolds, AInvHolds, PTL

(* ValidateBody and ValidateState implement the atomic calls of            *)
(* ValidatorAbstract (the safety part of ImplementsAbstract): each returns *)
(* once, with an error of its own that applies or with nil for a block     *)
(* whose content passes the call's checks, and ValidateState runs only     *)
(* after a nil from ValidateBody.                                          *)
THEOREM Refinement == Spec => Abstract!SafetySpec
<1>1. Init => Abstract!Init
  BY DEF Init, Abstract!Init, AbstractPc, Abstract!ContentChecks, ContentChecks,
         Abstract!ParentStatus, ParentStatus, Abstract!Phases, Phases,
         Abstract!None, None
<1>2. IInv /\ AInv /\ [Next]_vars => [Abstract!Next]_Abstract!vars
  BY StepRefines
<1>. QED  BY <1>1, <1>2, IInvHolds, AInvHolds, PTL DEF Spec, Abstract!SafetySpec
=============================================================================
