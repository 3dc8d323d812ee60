------------------------ MODULE BlockValidatorProofs ------------------------
(***************************************************************************)
(* Proofs about BlockValidator for every behaviour: the type invariant and *)
(* AcceptedBlockIsValid, the absence of a false accept by ValidateBody and *)
(* ValidateState.                                                          *)
(*                                                                         *)
(* AcceptedBlockIsValid is not inductive: whether the receiving loop may   *)
(* return nil depends on what is still in flight.  The argument counts.    *)
(* Each goroutine of a call sends exactly once, so the length of the       *)
(* channel's history equals the number of finished goroutines, and its     *)
(* non-nil entries are as many as the finished goroutines whose check      *)
(* failed.  When the loop has taken len(validateFuns) results and all were *)
(* nil, every goroutine of the call has finished, and none failed.         *)
(***************************************************************************)
EXTENDS BlockValidator, FiniteSetTheorems, TLAPS

(* The goroutines call p starts, those that have sent their result, and   *)
(* those among them whose check failed.                                    *)
GoroutinesOf(p) == {x \in Goroutines : x[1] = p}
DoneOf(p) == {x \in GoroutinesOf(p) : g[x] = "done"}
FailedOf(p) == {x \in DoneOf(p) : res[x] # Nil}

(* The positions of the channel's history that hold an error.              *)
ErrSlots(s) == {i \in 1 .. Len(s) : s[i] # Nil}

(* The calling goroutine's progress: which calls have returned and which  *)
(* goroutines, channels and loop counters are still untouched.             *)
Progress ==
  /\ pc = "body" => /\ ch["body"] = << >>
                   /\ taken["body"] = 0
                   /\ \A x \in GoroutinesOf("body") : g[x] = "idle"
  /\ pc \in {"body", "bodyWait"} => ret["body"] = None
  /\ pc \in {"body", "bodyWait", "state"} =>
       /\ ch["state"] = << >>
       /\ taken["state"] = 0
       /\ \A x \in GoroutinesOf("state") : g[x] = "idle"
  /\ pc \in {"body", "bodyWait", "state", "stateWait"} => ret["state"] = None
  /\ pc \in {"state", "stateWait"} => ret["body"] = Nil
  /\ ret["state"] # None => ret["body"] = Nil

(* What a started goroutine runs and what its result says.                 *)
GoroutineOk(x) ==
  /\ g[x] # "idle" => fn[x] = ValidateFuns[x[1]][x[2]]
  /\ g[x] \in {"send", "done"} => res[x] \in Results
  /\ g[x] \in {"send", "done"} /\ res[x] = Nil /\ fn[x] \in ContentChecks
       => fn[x] \notin faults
  /\ g[x] # "idle" /\ x[1] = "body" => faults \cap {"uncles", "uncleRoot"} = {}
  /\ g[x] # "idle" /\ x[1] = "state" => "gasUsed" \notin faults

Goroutine_Inv == \A x \in Goroutines : GoroutineOk(x)

(* The channel of call p against the goroutines that sent on it.          *)
ChannelOk(p) ==
  /\ Len(ch[p]) = Cardinality(DoneOf(p))
  /\ Cardinality(ErrSlots(ch[p])) = Cardinality(FailedOf(p))
  /\ taken[p] <= Len(ch[p])
  /\ ret[p] = None => \A i \in 1 .. taken[p] : ch[p][i] = Nil
  /\ ret[p] = Nil => \A x \in GoroutinesOf(p) : g[x] = "done" /\ res[x] = Nil

Channel_Inv == \A p \in Phases : ChannelOk(p)

IInv == TypeOK /\ Progress /\ Goroutine_Inv /\ Channel_Inv

-----------------------------------------------------------------------------
(* Adding a new element to a finite set adds one to its size.              *)
LEMMA AddNew ==
  ASSUME NEW S, NEW x, IsFiniteSet(S), x \notin S
  PROVE  /\ IsFiniteSet(S \cup {x})
         /\ Cardinality(S \cup {x}) = Cardinality(S) + 1
BY FS_AddElement

(* Each call starts three goroutines.                                      *)
LEMMA GoroutinesOfCard ==
  ASSUME NEW p \in Phases
  PROVE  /\ IsFiniteSet(GoroutinesOf(p))
         /\ Cardinality(GoroutinesOf(p)) = 3
<1>1. GoroutinesOf(p) = ({<<p, 1>>} \cup {<<p, 2>>}) \cup {<<p, 3>>}
  BY DEF GoroutinesOf, Goroutines
<1>2. IsFiniteSet({<<p, 1>>}) /\ Cardinality({<<p, 1>>}) = 1
  BY FS_Singleton
<1>3. IsFiniteSet({<<p, 1>>} \cup {<<p, 2>>})
      /\ Cardinality({<<p, 1>>} \cup {<<p, 2>>}) = 2
  <2>1. <<p, 2>> \notin {<<p, 1>>}
    OBVIOUS
  <2>2. /\ IsFiniteSet({<<p, 1>>} \cup {<<p, 2>>})
        /\ Cardinality({<<p, 1>>} \cup {<<p, 2>>}) = Cardinality({<<p, 1>>}) + 1
    BY <1>2, <2>1, AddNew, Zenon
  <2>. QED  BY <1>2, <2>2
<1>4. IsFiniteSet(({<<p, 1>>} \cup {<<p, 2>>}) \cup {<<p, 3>>})
      /\ Cardinality(({<<p, 1>>} \cup {<<p, 2>>}) \cup {<<p, 3>>}) = 3
  <2>1. <<p, 3>> \notin {<<p, 1>>} \cup {<<p, 2>>}
    OBVIOUS
  <2>2. /\ IsFiniteSet(({<<p, 1>>} \cup {<<p, 2>>}) \cup {<<p, 3>>})
        /\ Cardinality(({<<p, 1>>} \cup {<<p, 2>>}) \cup {<<p, 3>>})
             = Cardinality({<<p, 1>>} \cup {<<p, 2>>}) + 1
    BY <1>3, <2>1, AddNew, Zenon
  <2>. QED  BY <1>3, <2>2
<1>. QED  BY <1>1, <1>4

(* The finished and the failed goroutines of a call are finite sets.       *)
LEMMA DoneFinite ==
  ASSUME NEW p \in Phases
  PROVE  /\ IsFiniteSet(DoneOf(p))
         /\ IsFiniteSet(FailedOf(p))
         /\ Cardinality(DoneOf(p)) <= 3
<1>1. DoneOf(p) \subseteq GoroutinesOf(p) /\ FailedOf(p) \subseteq GoroutinesOf(p)
  BY DEF DoneOf, FailedOf
<1>. QED  BY <1>1, GoroutinesOfCard, FS_Subset

(* The error positions of a history of length n are finite.               *)
LEMMA ErrSlotsFinite ==
  ASSUME NEW s \in Seq(Results)
  PROVE  IsFiniteSet(ErrSlots(s))
BY FS_Interval, FS_Subset DEF ErrSlots

(* Each call has three closures, one per goroutine slot.                   *)
LEMMA ValidateFunsType ==
  ASSUME NEW p \in Phases, NEW i \in 1 .. 3
  PROVE  /\ NumFuns(p) = 3
         /\ ValidateFuns[p][i] \in Funs
BY DEF NumFuns, ValidateFuns, Phases, Funs

(* A closure returns nil or an error, and nil from a content check means   *)
(* the block passes that check (lines 138-143 and 182-216).                *)
LEMMA CheckResult ==
  ASSUME NEW f \in Funs
  PROVE  /\ Check(f) \in Results
         /\ Check(f) = Nil /\ f \in ContentChecks => f \notin faults
BY DEF Check, Funs, ContentChecks, Results, Errors, ErrorOf, Nil

(* The cheap checks return nil or an error.                                *)
LEMMA PreCheckResult ==
  /\ BodyPreCheck \in Results
  /\ StatePreCheck \in Results
  /\ BodyPreCheck = Nil => faults \cap {"uncles", "uncleRoot"} = {}
  /\ StatePreCheck = Nil => "gasUsed" \notin faults
BY DEF BodyPreCheck, StatePreCheck, Results, Errors, ErrorOf, Nil

(* The heart of AcceptedBlockIsValid.  When the receiving loop of call p   *)
(* has taken three nil results, all three goroutines have finished and     *)
(* reported nil: there is no result it has not seen.                      *)
LEMMA AllNil ==
  ASSUME IInv, NEW p \in Phases, ret[p] = None,
         taken[p] + 1 = 3, taken[p] + 1 <= Len(ch[p]), ch[p][taken[p] + 1] = Nil
  PROVE  \A x \in GoroutinesOf(p) : g[x] = "done" /\ res[x] = Nil
<1>1. ChannelOk(p) /\ TypeOK
  BY DEF IInv, Channel_Inv
<1>2. \A i \in 1 .. 3 : ch[p][i] = Nil
  <2>1. taken[p] \in 0 .. 3
    BY <1>1 DEF TypeOK
  <2>. QED  BY <1>1, <2>1 DEF ChannelOk
<1>3. IsFiniteSet(DoneOf(p)) /\ IsFiniteSet(FailedOf(p)) /\ Cardinality(DoneOf(p)) <= 3
  BY DoneFinite
<1>4. Len(ch[p]) = 3
  BY <1>1, <1>3 DEF ChannelOk
<1>5. ErrSlots(ch[p]) = {}
  BY <1>2, <1>4 DEF ErrSlots
<1>6. FailedOf(p) = {}
  BY <1>1, <1>3, <1>5, FS_EmptySet DEF ChannelOk
<1>7. DoneOf(p) = GoroutinesOf(p)
  <2>1. Cardinality(DoneOf(p)) = 3
    BY <1>1, <1>4 DEF ChannelOk
  <2>2. DoneOf(p) \subseteq GoroutinesOf(p)
    BY DEF DoneOf
  <2>. QED  BY <2>1, <2>2, GoroutinesOfCard, FS_Subset
<1>. QED  BY <1>6, <1>7 DEF DoneOf, FailedOf

(* A step that leaves call q's channel, loop counter, result and           *)
(* goroutines alone keeps ChannelOk(q).                                     *)
LEMMA ChannelFrame ==
  ASSUME NEW q \in Phases, ChannelOk(q),
         ch'[q] = ch[q], taken'[q] = taken[q], ret'[q] = ret[q],
         \A x \in GoroutinesOf(q) : g'[x] = g[x] /\ res'[x] = res[x]
  PROVE  ChannelOk(q)'
<1>1. DoneOf(q)' = DoneOf(q) /\ FailedOf(q)' = FailedOf(q)
  BY DEF DoneOf, FailedOf, GoroutinesOf
<1>2. ErrSlots(ch[q])' = ErrSlots(ch[q])
  BY DEF ErrSlots
<1>. QED  BY <1>1, <1>2 DEF ChannelOk

-----------------------------------------------------------------------------
(* The initial state: nothing started, nothing sent, nothing returned.     *)
LEMMA InitIInv == Init => IInv
<1>. SUFFICES ASSUME Init PROVE IInv
  OBVIOUS
<1>1. TypeOK
  BY DEF Init, TypeOK, Goroutines, Phases, ParentStatus, None, Funs, Results
<1>2. Progress
  BY DEF Init, Progress, GoroutinesOf, Phases, None, Nil
<1>3. Goroutine_Inv
  BY DEF Init, Goroutine_Inv, GoroutineOk
<1>4. ASSUME NEW p \in Phases
      PROVE  /\ DoneOf(p) = {}
             /\ FailedOf(p) = {}
             /\ ErrSlots(ch[p]) = {}
  <2>1. DoneOf(p) = {}
    BY DEF Init, DoneOf, GoroutinesOf
  <2>2. ErrSlots(ch[p]) = {}
    BY DEF Init, ErrSlots
  <2>. QED  BY <2>1, <2>2 DEF FailedOf
<1>5. Channel_Inv
  <2>1. SUFFICES ASSUME NEW p \in Phases PROVE ChannelOk(p)
    BY DEF Channel_Inv
  <2>2. ch[p] = << >> /\ taken[p] = 0 /\ ret[p] = None
    BY DEF Init
  <2>3. Cardinality(DoneOf(p)) = 0 /\ Cardinality(FailedOf(p)) = 0
        /\ Cardinality(ErrSlots(ch[p])) = 0
    BY <1>4, FS_EmptySet
  <2>. QED  BY <2>2, <2>3 DEF ChannelOk, None, Nil
<1>. QED  BY <1>1, <1>2, <1>3, <1>5 DEF IInv
-----------------------------------------------------------------------------
(* One iteration of the receiving loop keeps the invariant.               *)
LEMMA CollectIInv ==
  ASSUME IInv, NEW p \in Phases, Collect(p)
  PROVE  IInv'
<1>. DEFINE r == ch[p][taken[p] + 1]
<1>1. /\ TypeOK /\ Progress /\ Goroutine_Inv /\ ChannelOk(p)
      /\ ChannelOk("body") /\ ChannelOk("state")
  BY DEF IInv, Channel_Inv, Phases
<1>2. /\ Len(ch[p]) <= 3
      /\ taken[p] \in 0 .. 3
      /\ taken[p] + 1 <= Len(ch[p])
      /\ ret[p] = None
      /\ r \in Results
      /\ NumFuns(p) = 3
  <2>1. Len(ch[p]) <= 3
    BY <1>1, DoneFinite DEF ChannelOk
  <2>0. taken[p] \in 0 .. 3 /\ ch[p] \in Seq(Results)
    BY <1>1 DEF TypeOK
  <2>2. taken[p] + 1 <= Len(ch[p])
    BY <2>0 DEF Collect, Buffered
  <2>3. ret[p] = None
    BY <1>1 DEF Collect, WaitPc, Progress, Phases
  <2>4. r \in Results
    BY <2>0, <2>2
  <2>. QED  BY <1>1, <2>1, <2>2, <2>3, <2>4, ValidateFunsType DEF TypeOK
<1>0. /\ pc = WaitPc[p]
      /\ taken' = [taken EXCEPT ![p] = @ + 1]
      /\ UNCHANGED <<faults, known, parent, g, fn, res, ch>>
  BY DEF Collect, chain
<1>6. \A q \in Phases : /\ DoneOf(q)' = DoneOf(q)
                       /\ FailedOf(q)' = FailedOf(q)
                       /\ ErrSlots(ch[q])' = ErrSlots(ch[q])
                       /\ ch'[q] = ch[q]
  BY <1>0 DEF DoneOf, FailedOf, ErrSlots, GoroutinesOf
<1>7. taken'[p] = taken[p] + 1 /\ \A q \in Phases \ {p} : taken'[q] = taken[q]
  BY <1>0, <1>1 DEF TypeOK
<1>3. CASE r # Nil /\ Return(p, r)
  <2>1. TypeOK'
    BY <1>0, <1>1, <1>2, <1>3 DEF Return, TypeOK
  <2>2. Progress'
    <3>a. CASE p = "body"
      BY <1>0, <1>1, <1>3, <1>7, <3>a DEF Return, Progress, WaitPc, Phases, TypeOK, None, Nil
    <3>b. CASE p = "state"
      BY <1>0, <1>1, <1>3, <1>7, <3>b DEF Return, Progress, WaitPc, Phases, TypeOK, None, Nil
    <3>. QED  BY <3>a, <3>b DEF Phases
  <2>3. Goroutine_Inv'
    BY <1>0, <1>1 DEF Goroutine_Inv, GoroutineOk
  <2>4. Channel_Inv'
    <3>1. SUFFICES ASSUME NEW q \in Phases PROVE ChannelOk(q)'
      BY DEF Channel_Inv
    <3>2. CASE q = p
      BY <1>0, <1>1, <1>2, <1>3, <1>6, <1>7, <3>2 DEF Return, ChannelOk, TypeOK, Results, Errors, Nil, None
    <3>3. CASE q # p
      <4>1. ChannelOk(q) /\ ret'[q] = ret[q]
        BY <1>3, <3>3 DEF IInv, Channel_Inv, Return, TypeOK
      <4>. QED  BY <1>0, <1>7, <3>3, <4>1, ChannelFrame
    <3>. QED  BY <3>2, <3>3
  <2>. QED  BY <2>1, <2>2, <2>3, <2>4 DEF IInv
<1>4. CASE r = Nil /\ taken[p] + 1 = NumFuns(p) /\ Return(p, Nil)
  <2>1. \A x \in GoroutinesOf(p) : g[x] = "done" /\ res[x] = Nil
    BY <1>2, <1>4, AllNil
  <2>2. TypeOK'
    BY <1>0, <1>1, <1>2, <1>4 DEF Return, TypeOK, Results
  <2>3. Progress'
    <3>a. CASE p = "body"
      BY <1>0, <1>1, <1>4, <1>7, <3>a DEF Return, Progress, WaitPc, Phases, TypeOK, None, Nil
    <3>b. CASE p = "state"
      BY <1>0, <1>1, <1>4, <1>7, <3>b DEF Return, Progress, WaitPc, Phases, TypeOK, None, Nil
    <3>. QED  BY <3>a, <3>b DEF Phases
  <2>4. Goroutine_Inv'
    BY <1>0, <1>1 DEF Goroutine_Inv, GoroutineOk
  <2>5. Channel_Inv'
    <3>1. SUFFICES ASSUME NEW q \in Phases PROVE ChannelOk(q)'
      BY DEF Channel_Inv
    <3>2. CASE q = p
      BY <1>0, <1>1, <1>2, <1>4, <1>6, <1>7, <2>1, <3>2 DEF Return, ChannelOk, TypeOK, GoroutinesOf, Nil, None
    <3>3. CASE q # p
      <4>1. ChannelOk(q) /\ ret'[q] = ret[q]
        BY <1>4, <3>3 DEF IInv, Channel_Inv, Return, TypeOK
      <4>. QED  BY <1>0, <1>7, <3>3, <4>1, ChannelFrame
    <3>. QED  BY <3>2, <3>3
  <2>. QED  BY <2>2, <2>3, <2>4, <2>5 DEF IInv
<1>5. CASE r = Nil /\ taken[p] + 1 < NumFuns(p) /\ UNCHANGED <<pc, ret>>
  <2>1. TypeOK'
    BY <1>0, <1>1, <1>2, <1>5 DEF TypeOK
  <2>2. Progress'
    BY <1>0, <1>1, <1>5, <1>7 DEF Progress, WaitPc, Phases
  <2>3. Goroutine_Inv'
    BY <1>0, <1>1 DEF Goroutine_Inv, GoroutineOk
  <2>4. Channel_Inv'
    <3>1. SUFFICES ASSUME NEW q \in Phases PROVE ChannelOk(q)'
      BY DEF Channel_Inv
    <3>2. CASE q = p
      BY <1>0, <1>1, <1>2, <1>5, <1>6, <1>7, <3>2 DEF ChannelOk, TypeOK
    <3>3. CASE q # p
      <4>1. ChannelOk(q)
        BY DEF IInv, Channel_Inv
      <4>. QED  BY <1>0, <1>5, <1>7, <3>3, <4>1, ChannelFrame
    <3>. QED  BY <3>2, <3>3
  <2>. QED  BY <2>1, <2>2, <2>3, <2>4 DEF IInv
<1>. QED  BY <1>3, <1>4, <1>5 DEF Collect
(* A goroutine's send on validateRes keeps the invariant: the channel and *)
(* the set of finished goroutines grow together.                          *)
LEMMA SendResultIInv ==
  ASSUME IInv, NEW x \in Goroutines, SendResult(x)
  PROVE  IInv'
<1>. DEFINE p == x[1]
            n == Len(ch[p])
<1>0. /\ g[x] = "send"
      /\ ch' = [ch EXCEPT ![p] = Append(@, res[x])]
      /\ g' = [g EXCEPT ![x] = "done"]
      /\ UNCHANGED <<faults, known, parent, pc, fn, res, taken, ret>>
  BY DEF SendResult, chain
<1>1. /\ TypeOK /\ Progress /\ Goroutine_Inv /\ GoroutineOk(x) /\ ChannelOk(p)
      /\ p \in Phases /\ x \in GoroutinesOf(p)
  BY DEF IInv, Channel_Inv, Goroutine_Inv, Goroutines, GoroutinesOf
<1>2. /\ res[x] \in Results
      /\ ch[p] \in Seq(Results)
      /\ ch'[p] = Append(ch[p], res[x])
      /\ \A q \in Phases \ {p} : ch'[q] = ch[q]
      /\ \A y \in Goroutines \ {x} : g'[y] = g[y]
  BY <1>0, <1>1 DEF GoroutineOk, TypeOK
<1>8. /\ Len(ch'[p]) = n + 1
      /\ \A i \in 1 .. n : ch'[p][i] = ch[p][i]
      /\ ch'[p][n + 1] = res[x]
  BY <1>2
<1>3. TypeOK'
  BY <1>0, <1>1, <1>2 DEF TypeOK
<1>4. Progress'
  <2>1. pc = "body" => p # "body"
    BY <1>0, <1>1 DEF Progress, GoroutinesOf
  <2>2. pc \in {"body", "bodyWait", "state"} => p # "state"
    BY <1>0, <1>1 DEF Progress, GoroutinesOf
  <2>. QED  BY <1>0, <1>1, <1>2, <2>1, <2>2 DEF Progress, GoroutinesOf, Goroutines, Phases
<1>5. Goroutine_Inv'
  BY <1>0, <1>1 DEF Goroutine_Inv, GoroutineOk, TypeOK
<1>6. ChannelOk(p)'
  <2>1. x \notin DoneOf(p) /\ DoneOf(p)' = DoneOf(p) \cup {x}
    BY <1>0, <1>1 DEF DoneOf, GoroutinesOf, TypeOK
  <2>2. IsFiniteSet(DoneOf(p)) /\ IsFiniteSet(FailedOf(p))
    BY <1>1, DoneFinite
  <2>3. Len(ch'[p]) = Cardinality(DoneOf(p)')
    <3>1. Cardinality(DoneOf(p) \cup {x}) = Cardinality(DoneOf(p)) + 1
      BY <2>1, <2>2, AddNew
    <3>. QED  BY <1>1, <1>8, <2>1, <3>1 DEF ChannelOk
  <2>4. IsFiniteSet(ErrSlots(ch[p]))
    BY <1>2, ErrSlotsFinite
  <2>5. Cardinality(ErrSlots(ch'[p])) = Cardinality(FailedOf(p)')
    <3>1. CASE res[x] = Nil
      <4>1. ErrSlots(ch'[p]) = ErrSlots(ch[p])
        BY <1>2, <1>8, <3>1 DEF ErrSlots
      <4>2. FailedOf(p)' = FailedOf(p)
        BY <1>0, <2>1, <3>1 DEF FailedOf
      <4>. QED  BY <1>1, <4>1, <4>2 DEF ChannelOk, ErrSlots
    <3>2. CASE res[x] # Nil
      <4>1. ErrSlots(ch'[p]) = ErrSlots(ch[p]) \cup {n + 1}
            /\ n + 1 \notin ErrSlots(ch[p])
        BY <1>2, <1>8, <3>2 DEF ErrSlots
      <4>2. FailedOf(p)' = FailedOf(p) \cup {x} /\ x \notin FailedOf(p)
        BY <1>0, <2>1, <3>2 DEF FailedOf
      <4>3. Cardinality(ErrSlots(ch[p]) \cup {n + 1}) = Cardinality(ErrSlots(ch[p])) + 1
        BY <2>4, <4>1, AddNew
      <4>4. Cardinality(FailedOf(p) \cup {x}) = Cardinality(FailedOf(p)) + 1
        BY <2>2, <4>2, AddNew
      <4>. QED  BY <1>1, <4>1, <4>2, <4>3, <4>4 DEF ChannelOk
    <3>. QED  BY <3>1, <3>2
  <2>6. ret[p] # Nil
    BY <1>0, <1>1 DEF ChannelOk
  <2>7. taken[p] <= Len(ch'[p])
        /\ (ret[p] = None => \A i \in 1 .. taken[p] : ch'[p][i] = Nil)
    <3>1. /\ taken[p] \in 0 .. 3
          /\ taken[p] <= n
          /\ ret[p] = None => \A i \in 1 .. taken[p] : ch[p][i] = Nil
      BY <1>1 DEF ChannelOk, TypeOK
    <3>. QED  BY <3>1, <1>2, <1>8
  <2>. QED  BY <1>0, <2>3, <2>5, <2>6, <2>7 DEF ChannelOk
<1>7. Channel_Inv'
  <2>1. SUFFICES ASSUME NEW q \in Phases PROVE ChannelOk(q)'
    BY DEF Channel_Inv
  <2>2. CASE q = p
    BY <1>6, <2>2
  <2>3. CASE q # p
    <3>1. ChannelOk(q) /\ \A y \in GoroutinesOf(q) : y # x
      BY <2>3 DEF IInv, Channel_Inv, GoroutinesOf
    <3>. QED  BY <1>0, <1>2, <2>3, <3>1, ChannelFrame DEF GoroutinesOf
  <2>. QED  BY <2>2, <2>3
<1>. QED  BY <1>3, <1>4, <1>5, <1>7 DEF IInv
(* A goroutine running its closure keeps the invariant.                   *)
LEMMA RunCheckIInv ==
  ASSUME IInv, NEW x \in Goroutines, RunCheck(x)
  PROVE  IInv'
<1>. DEFINE p == x[1]
<1>0. /\ g[x] = "run"
      /\ res' = [res EXCEPT ![x] = Check(fn[x])]
      /\ g' = [g EXCEPT ![x] = "send"]
      /\ UNCHANGED <<faults, known, parent, pc, fn, ch, taken, ret>>
  BY DEF RunCheck, chain
<1>1. /\ TypeOK /\ Progress /\ Goroutine_Inv /\ GoroutineOk(x)
      /\ p \in Phases /\ x[2] \in 1 .. 3 /\ x \in GoroutinesOf(p)
  BY DEF IInv, Goroutine_Inv, Goroutines, GoroutinesOf
<1>2. /\ fn[x] \in Funs
      /\ Check(fn[x]) \in Results
      /\ Check(fn[x]) = Nil /\ fn[x] \in ContentChecks => fn[x] \notin faults
  <2>1. fn[x] \in Funs
    BY <1>0, <1>1, ValidateFunsType DEF GoroutineOk
  <2>. QED  BY <2>1, CheckResult
<1>3. TypeOK'
  BY <1>0, <1>1, <1>2 DEF TypeOK, Results
<1>4. Progress'
  BY <1>0, <1>1 DEF Progress, GoroutinesOf, TypeOK
<1>5. Goroutine_Inv'
  <2>1. SUFFICES ASSUME NEW y \in Goroutines PROVE GoroutineOk(y)'
    BY DEF Goroutine_Inv
  <2>2. CASE y = x
    BY <1>0, <1>1, <1>2, <2>2 DEF GoroutineOk, TypeOK
  <2>3. CASE y # x
    BY <1>0, <1>1, <2>3 DEF Goroutine_Inv, GoroutineOk, TypeOK
  <2>. QED  BY <2>2, <2>3
<1>6. Channel_Inv'
  <2>1. SUFFICES ASSUME NEW q \in Phases PROVE ChannelOk(q)'
    BY DEF Channel_Inv
  <2>2. ChannelOk(q)
    BY DEF IInv, Channel_Inv
  <2>3. CASE q = p
    <3>1. DoneOf(q)' = DoneOf(q) /\ FailedOf(q)' = FailedOf(q)
      BY <1>0, <1>1, <2>3 DEF DoneOf, FailedOf, GoroutinesOf, TypeOK
    <3>2. ret[q] # Nil
      BY <1>0, <1>1, <2>2, <2>3 DEF ChannelOk
    <3>. QED  BY <1>0, <2>2, <3>1, <3>2 DEF ChannelOk, ErrSlots
  <2>4. CASE q # p
    BY <1>0, <1>1, <2>2, <2>4, ChannelFrame DEF GoroutinesOf, TypeOK
  <2>. QED  BY <2>3, <2>4
<1>. QED  BY <1>3, <1>4, <1>5, <1>6 DEF IInv
(* Starting the goroutines of call p, once its cheap checks passed, keeps *)
(* the invariant: the call's channel is still empty.                       *)
LEMMA SpawnIInv ==
  ASSUME IInv, NEW p \in Phases,
         pc = IF p = "body" THEN "body" ELSE "state",
         Spawn(p),
         UNCHANGED <<faults, known, parent, res, ch, taken, ret>>,
         p = "body" => faults \cap {"uncles", "uncleRoot"} = {},
         p = "state" => "gasUsed" \notin faults
  PROVE  IInv'
<1>1. /\ TypeOK /\ Progress /\ Goroutine_Inv
      /\ ch[p] = << >> /\ taken[p] = 0 /\ ret[p] = None
      /\ \A x \in GoroutinesOf(p) : g[x] = "idle"
  BY DEF IInv, Progress, Phases
<1>2. /\ \A x \in GoroutinesOf(p) : g'[x] = "run" /\ fn'[x] = ValidateFuns[p][x[2]]
      /\ \A x \in Goroutines \ GoroutinesOf(p) : g'[x] = g[x] /\ fn'[x] = fn[x]
      /\ pc' = WaitPc[p]
  BY DEF Spawn, GoroutinesOf
<1>3. TypeOK'
  <2>1. \A x \in GoroutinesOf(p) : ValidateFuns[p][x[2]] \in Funs
    BY ValidateFunsType DEF GoroutinesOf, Goroutines
  <2>2. g' \in [Goroutines -> {"idle", "run", "send", "done"}]
        /\ fn' \in [Goroutines -> Funs \cup {None}]
    BY <1>1, <1>2, <2>1 DEF Spawn, TypeOK
  <2>. QED  BY <1>1, <1>2, <2>2 DEF TypeOK, WaitPc, Phases
<1>4. Progress'
  <2>1. CASE p = "body"
    BY <1>1, <1>2, <2>1 DEF Progress, WaitPc, GoroutinesOf
  <2>2. CASE p = "state"
    BY <1>1, <1>2, <2>2 DEF Progress, WaitPc, GoroutinesOf
  <2>. QED  BY <2>1, <2>2 DEF Phases
<1>5. Goroutine_Inv'
  <2>1. SUFFICES ASSUME NEW y \in Goroutines PROVE GoroutineOk(y)'
    BY DEF Goroutine_Inv
  <2>2. CASE y \in GoroutinesOf(p)
    BY <1>2, <2>2 DEF GoroutineOk, GoroutinesOf, Phases
  <2>3. CASE y \notin GoroutinesOf(p)
    BY <1>1, <1>2, <2>3 DEF Goroutine_Inv, GoroutineOk
  <2>. QED  BY <2>2, <2>3
<1>6. Channel_Inv'
  <2>1. SUFFICES ASSUME NEW q \in Phases PROVE ChannelOk(q)'
    BY DEF Channel_Inv
  <2>2. CASE q = p
    <3>1. DoneOf(p)' = {} /\ FailedOf(p)' = {} /\ ErrSlots(ch[p])' = {}
      BY <1>1, <1>2 DEF DoneOf, FailedOf, ErrSlots
    <3>2. Cardinality(DoneOf(p)') = 0 /\ Cardinality(FailedOf(p)') = 0
          /\ Cardinality(ErrSlots(ch[p])') = 0
      BY <3>1, FS_EmptySet
    <3>. QED  BY <1>1, <2>2, <3>2 DEF ChannelOk, None, Nil
  <2>3. CASE q # p
    <3>1. ChannelOk(q) /\ \A x \in GoroutinesOf(q) : x \in Goroutines \ GoroutinesOf(p)
      BY <2>3 DEF IInv, Channel_Inv, GoroutinesOf
    <3>. QED  BY <1>2, <3>1, ChannelFrame
  <2>. QED  BY <2>2, <2>3
<1>. QED  BY <1>3, <1>4, <1>5, <1>6 DEF IInv

(* A call returning the error of one of its cheap checks keeps the         *)
(* invariant.                                                              *)
LEMMA PreCheckFailIInv ==
  ASSUME IInv, NEW p \in Phases, NEW e \in Errors,
         pc = IF p = "body" THEN "body" ELSE "state",
         Return(p, e),
         UNCHANGED <<faults, known, parent, g, fn, res, ch, taken>>
  PROVE  IInv'
<1>1. /\ TypeOK /\ Progress /\ Goroutine_Inv /\ Channel_Inv
      /\ ret' = [ret EXCEPT ![p] = e] /\ pc' = "done"
  BY DEF IInv, Return, Errors, Nil
<1>2. TypeOK'
  BY <1>1 DEF TypeOK, Results
<1>3. Progress'
  BY <1>1 DEF Progress, TypeOK, Phases, Errors, None, Nil
<1>4. Goroutine_Inv'
  BY <1>1 DEF Goroutine_Inv, GoroutineOk
<1>5. Channel_Inv'
  <2>1. SUFFICES ASSUME NEW q \in Phases PROVE ChannelOk(q)'
    BY DEF Channel_Inv
  <2>2. CASE q = p
    <3>1. DoneOf(q)' = DoneOf(q) /\ FailedOf(q)' = FailedOf(q)
          /\ ErrSlots(ch[q])' = ErrSlots(ch[q])
      BY DEF DoneOf, FailedOf, ErrSlots, GoroutinesOf
    <3>. QED  BY <1>1, <2>2, <3>1 DEF Channel_Inv, ChannelOk, TypeOK, Errors, None, Nil
  <2>3. CASE q # p
    BY <1>1, <2>3, ChannelFrame DEF Channel_Inv, TypeOK
  <2>. QED  BY <2>2, <2>3
<1>. QED  BY <1>2, <1>3, <1>4, <1>5 DEF IInv
(* The chain changing under the validator keeps the invariant: no part of  *)
(* it depends on whether the block is known or the parent's state is kept. *)
LEMMA EnvironmentIInv ==
  ASSUME IInv, Environment \/ UNCHANGED vars
  PROVE  IInv'
<1>1. /\ known' \in BOOLEAN /\ parent' \in ParentStatus
      /\ UNCHANGED <<faults, pc, g, fn, res, ch, taken, ret>>
  BY DEF IInv, TypeOK, Environment, BlockWritten, ParentPruned, vars, ParentStatus
<1>2. \A q \in Phases : /\ DoneOf(q)' = DoneOf(q) /\ FailedOf(q)' = FailedOf(q)
                       /\ ErrSlots(ch[q])' = ErrSlots(ch[q])
  BY <1>1 DEF DoneOf, FailedOf, ErrSlots, GoroutinesOf
<1>. QED  BY <1>1, <1>2 DEF IInv, TypeOK, Progress, GoroutinesOf, Goroutine_Inv,
                           GoroutineOk, Channel_Inv, ChannelOk

(* Every step of the validator, its goroutines and the chain keeps the     *)
(* invariant.                                                              *)
LEMMA NextIInv == IInv /\ [Next]_vars => IInv'
<1>. SUFFICES ASSUME IInv, [Next]_vars PROVE IInv'
  OBVIOUS
<1>1. CASE ValidateBody
  <2>1. UNCHANGED <<faults, known, parent, res, ch, taken>> /\ pc = "body"
    BY <1>1 DEF ValidateBody, chain
  <2>2. CASE BodyPreCheck # Nil /\ Return("body", BodyPreCheck) /\ UNCHANGED <<g, fn>>
    BY <2>1, <2>2, PreCheckResult, PreCheckFailIInv DEF Phases, Results
  <2>3. CASE BodyPreCheck = Nil /\ Spawn("body") /\ UNCHANGED ret
    BY <2>1, <2>3, PreCheckResult, SpawnIInv DEF Phases
  <2>. QED  BY <1>1, <2>2, <2>3 DEF ValidateBody
<1>2. CASE ValidateState
  <2>1. UNCHANGED <<faults, known, parent, res, ch, taken>> /\ pc = "state"
    BY <1>2 DEF ValidateState, chain
  <2>2. CASE StatePreCheck # Nil /\ Return("state", StatePreCheck) /\ UNCHANGED <<g, fn>>
    BY <2>1, <2>2, PreCheckResult, PreCheckFailIInv DEF Phases, Results
  <2>3. CASE StatePreCheck = Nil /\ Spawn("state") /\ UNCHANGED ret
    BY <2>1, <2>3, PreCheckResult, SpawnIInv DEF Phases
  <2>. QED  BY <1>2, <2>2, <2>3 DEF ValidateState
<1>3. CASE \E p \in Phases : Collect(p)
  BY <1>3, CollectIInv
<1>4. CASE \E x \in Goroutines : RunCheck(x)
  BY <1>4, RunCheckIInv
<1>5. CASE \E x \in Goroutines : SendResult(x)
  BY <1>5, SendResultIInv
<1>6. CASE Environment \/ UNCHANGED vars
  BY <1>6, EnvironmentIInv
<1>. QED  BY <1>1, <1>2, <1>3, <1>4, <1>5, <1>6 DEF Next, Validator, Goroutine

-----------------------------------------------------------------------------
(* IInv implies the property: a nil from ValidateState means ValidateBody *)
(* returned nil before it, both calls' goroutines all finished with nil,   *)
(* and so neither a cheap check nor a closure found a fault.               *)
LEMMA IInvAccepted == IInv => AcceptedBlockIsValid
<1>. SUFFICES ASSUME IInv, ret["state"] = Nil
              PROVE  /\ faults = {}
                     /\ \A p \in Phases : \A i \in 1 .. NumFuns(p) :
                          \E x \in Goroutines : /\ x[1] = p
                                                /\ fn[x] = ValidateFuns[p][i]
                                                /\ g[x] = "done"
                                                /\ res[x] = Nil
  BY DEF AcceptedBlockIsValid
<1>1. ret["body"] = Nil
  BY DEF IInv, Progress, None, Nil
<1>2. \A p \in Phases : \A x \in GoroutinesOf(p) : g[x] = "done" /\ res[x] = Nil
  BY <1>1 DEF IInv, Channel_Inv, ChannelOk, Phases
<1>3. \A x \in Goroutines : /\ g[x] = "done" /\ res[x] = Nil
                            /\ fn[x] = ValidateFuns[x[1]][x[2]]
  BY <1>2 DEF IInv, Goroutine_Inv, GoroutineOk, GoroutinesOf, Goroutines
<1>4. faults = {}
  <2>1. \A x \in Goroutines : fn[x] \in ContentChecks => fn[x] \notin faults
    BY <1>3 DEF IInv, Goroutine_Inv, GoroutineOk
  <2>2. \A c \in {"txRoot", "bloom", "receiptRoot", "stateRoot"} :
          \E x \in Goroutines : fn[x] = c
    <3>1. /\ fn[<<"body", 2>>] = "txRoot"
          /\ fn[<<"state", 1>>] = "bloom"
          /\ fn[<<"state", 2>>] = "receiptRoot"
          /\ fn[<<"state", 3>>] = "stateRoot"
      BY <1>3 DEF Goroutines, Phases, ValidateFuns
    <3>. QED  BY <3>1 DEF Goroutines, Phases
  <2>3. /\ faults \cap {"uncles", "uncleRoot"} = {}
        /\ "gasUsed" \notin faults
    <3>1. GoroutineOk(<<"body", 1>>) /\ GoroutineOk(<<"state", 1>>)
      BY DEF IInv, Goroutine_Inv, Goroutines, Phases
    <3>2. g[<<"body", 1>>] = "done" /\ g[<<"state", 1>>] = "done"
      BY <1>3 DEF Goroutines, Phases
    <3>. QED  BY <3>1, <3>2 DEF GoroutineOk
  <2>4. faults \subseteq ContentChecks
    BY DEF IInv, TypeOK
  <2>. QED  BY <2>1, <2>2, <2>3, <2>4 DEF ContentChecks
<1>5. ASSUME NEW p \in Phases, NEW i \in 1 .. NumFuns(p)
      PROVE  \E x \in Goroutines : /\ x[1] = p
                                   /\ fn[x] = ValidateFuns[p][i]
                                   /\ g[x] = "done"
                                   /\ res[x] = Nil
  <2>1. i \in 1 .. 3 /\ <<p, i>> \in Goroutines
    BY ValidateFunsType DEF Goroutines
  <2>. QED  BY <1>3, <2>1
<1>. QED  BY <1>4, <1>5

-----------------------------------------------------------------------------
(* The invariant holds in every reachable state.                          *)
THEOREM IInvHolds == Spec => []IInv
BY InitIInv, NextIInv, PTL DEF Spec

(* Type correctness of the validator, its goroutines and their channels.   *)
THEOREM TypeCorrect == Spec => []TypeOK
BY IInvHolds, PTL DEF IInv

(* No false accept: whenever ValidateState returns nil, the block fails no *)
(* content check and every closure of ValidateBody and ValidateState was   *)
(* run to completion and reported nil (core/block_validator.go, lines      *)
(* 117-231), whatever the interleaving of the goroutines and of the chain  *)
(* changing under them.                                                    *)
THEOREM NoFalseAccept == Spec => []AcceptedBlockIsValid
BY IInvHolds, IInvAccepted, PTL
=============================================================================
