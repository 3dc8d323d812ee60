--------------------------- MODULE RemoteWorkProofs ---------------------------
(***************************************************************************)
(* Proofs about the remote-work API and the sealer loop (RemoteWork).      *)
(*                                                                         *)
(* TrueMeansApplied is a property of the step in which a call returns: its *)
(* answer must agree with what the loop did.  The call reads that answer   *)
(* from its private reply channel, written by the loop one step earlier,   *)
(* so the property rests on an invariant about the calls still waiting:   *)
(* a waiting SubmitWork whose reply says true had its solution accepted,   *)
(* and a waiting SubmitHashrate has its solver id in the rate table.  The  *)
(* loop only ever adds to wins and to the table's domain, so what the      *)
(* reply reports stays true until the client takes it, whatever the other  *)
(* client and the loop do in between.                                      *)
(***************************************************************************)
EXTENDS RemoteWork, TLAPS

(* The shape of the client-side state the proof reasons about.             *)
Shape ==
  /\ cpc \in [Clients -> {"idle", "send", "wait"}]
  /\ DOMAIN op = Clients
  /\ DOMAIN arg = Clients
  /\ DOMAIN reply = Clients
  /\ DOMAIN ret = Clients

(* What the replies of the calls still waiting report is true.             *)
ReplyInv ==
  \A c \in Clients :
    /\ cpc[c] = "wait" /\ op[c] = "SubmitWork" /\ reply[c] # None
       /\ reply[c].ok => <<c, arg[c].work>> \in wins
    /\ cpc[c] = "wait" /\ op[c] = "SubmitHashrate" => arg[c].id \in DOMAIN rates

IInv == Shape /\ ReplyInv

LEMMA InitIInv == Init => IInv
BY DEF Init, IInv, Shape, ReplyInv

(* The loop never takes a package out of wins or an id out of the table.   *)
LEMMA LoopGrows ==
  ASSUME [Next]_vars
  PROVE  wins \subseteq wins' /\ DOMAIN rates \subseteq DOMAIN rates'
<1>1. ASSUME NEW c \in Clients, Handle(c)
      PROVE  wins \subseteq wins' /\ DOMAIN rates \subseteq DOMAIN rates'
  BY <1>1 DEF Handle
<1>2. ASSUME NEW c \in Clients, Client(c) PROVE UNCHANGED <<rates, wins>>
  BY <1>2 DEF Client, GetWork, GetWorkAbort, GetWorkReceive, SubmitWork,
     SubmitWorkAbort, SubmitWorkReceive, SubmitHashrate, SubmitHashrateAbort,
     SubmitHashrateReceive, GetHashrate, HashrateAbort, HashrateReceive,
     Enter, Abort, Receive, loopVars
<1>3. ASSUME NewWork \/ Exit \/ UNCHANGED vars PROVE UNCHANGED <<rates, wins>>
  BY <1>3 DEF NewWork, Exit, vars, loopVars
<1>. QED  BY <1>1, <1>2, <1>3 DEF Next

(* A step of client c alone: the loop, the history and the other clients *)
(* are left as they are, and c is not left waiting on a reply.             *)
OwnStep(c) ==
  /\ UNCHANGED <<loopVars, wins>>
  /\ \A d \in Clients \ {c} :
       /\ cpc'[d] = cpc[d] /\ op'[d] = op[d]
       /\ arg'[d] = arg[d] /\ reply'[d] = reply[d]
  /\ cpc'[c] # "wait"
  /\ Shape'

LEMMA EnterStep ==
  ASSUME Shape, NEW c \in Clients, NEW o, NEW a, NEW r, Enter(c, o, a, r)
  PROVE  OwnStep(c)
BY DEF Enter, OwnStep, Shape

LEMMA AbortStep ==
  ASSUME Shape, NEW c \in Clients, NEW o, NEW r, Abort(c, o, r)
  PROVE  OwnStep(c)
BY DEF Abort, Return, OwnStep, Shape

LEMMA ReceiveStep ==
  ASSUME Shape, NEW c \in Clients, NEW o, NEW r, Receive(c, o, r)
  PROVE  OwnStep(c)
BY DEF Receive, Return, OwnStep, Shape

(* Every step of client c is one of its own: it enters a call, loses its   *)
(* send to exitCh, or takes its reply.                                     *)
LEMMA ClientStep ==
  ASSUME Shape, NEW c \in Clients, Client(c)
  PROVE  OwnStep(c)
<1>1. CASE \/ GetWork(c) \/ GetHashrate(c)
           \/ \E a \in [work : 0 .. MaxWork, valid : BOOLEAN] : SubmitWork(c, a)
           \/ \E a \in [rate : Rates, id : SolverIds] : SubmitHashrate(c, a)
  BY <1>1, EnterStep DEF GetWork, GetHashrate, SubmitWork, SubmitHashrate
<1>2. CASE GetWorkAbort(c) \/ SubmitWorkAbort(c) \/ SubmitHashrateAbort(c)
           \/ HashrateAbort(c)
  BY <1>2, AbortStep DEF GetWorkAbort, SubmitWorkAbort, SubmitHashrateAbort,
     HashrateAbort
<1>3. CASE GetWorkReceive(c) \/ SubmitWorkReceive(c) \/ SubmitHashrateReceive(c)
           \/ HashrateReceive(c)
  BY <1>3, ReceiveStep DEF GetWorkReceive, SubmitWorkReceive,
     SubmitHashrateReceive, HashrateReceive
<1>. QED  BY <1>1, <1>2, <1>3 DEF Client

LEMMA NextIInv == IInv /\ [Next]_vars => IInv'
<1>. SUFFICES ASSUME IInv, [Next]_vars PROVE IInv'
  OBVIOUS
<1>0. wins \subseteq wins' /\ DOMAIN rates \subseteq DOMAIN rates'
  BY LoopGrows
<1>1. ASSUME NEW c \in Clients, Handle(c) PROVE IInv'
  <2>1. Shape'
    BY <1>1 DEF Handle, IInv, Shape
  <2>2. ASSUME NEW d \in Clients PROVE ReplyInv!(d)'
    <3>1. CASE d = c
      <4>1. CASE op[c] = "SubmitWork"
        <5>1. reply'[c].ok = Accepts(arg[c])
          BY <1>1, <4>1 DEF Handle, Answer, Reply, IInv, Shape
        <5>2. Accepts(arg[c]) => <<c, arg[c].work>> \in wins'
          BY <1>1, <4>1 DEF Handle, Accepts
        <5>. QED  BY <1>1, <3>1, <4>1, <5>1, <5>2 DEF Handle
      <4>2. CASE op[c] = "SubmitHashrate"
        BY <1>1, <3>1, <4>2 DEF Handle
      <4>3. CASE op[c] # "SubmitWork" /\ op[c] # "SubmitHashrate"
        BY <1>1, <3>1, <4>3 DEF Handle
      <4>. QED  BY <4>1, <4>2, <4>3
    <3>5. CASE d # c
      BY <1>0, <1>1, <3>5 DEF Handle, IInv, Shape, ReplyInv
    <3>. QED  BY <3>1, <3>5
  <2>. QED  BY <2>1, <2>2 DEF IInv, ReplyInv
<1>2. ASSUME NEW c \in Clients, Client(c) PROVE IInv'
  <2>1. OwnStep(c)
    BY <1>2, ClientStep DEF IInv
  <2>. QED  BY <2>1 DEF OwnStep, IInv, ReplyInv, loopVars
<1>3. ASSUME NewWork \/ Exit \/ UNCHANGED vars PROVE IInv'
  BY <1>3 DEF NewWork, Exit, vars, loopVars, clientVars, IInv, Shape, ReplyInv
<1>. QED  BY <1>1, <1>2, <1>3 DEF Next

(* The step in which a call returns true reads a reply the invariant      *)
(* vouches for; a call that lost its send to exitCh returns false.         *)
LEMMA StepApplied ==
  ASSUME IInv, [Next]_vars, NEW c \in Clients
  PROVE  AppliedIfTrue(c)
<1>. SUFFICES ASSUME Returns(c), ret'[c].ok
              PROVE  /\ op[c] = "SubmitWork" => <<c, arg[c].work>> \in wins
                     /\ op[c] = "SubmitHashrate" => arg[c].id \in DOMAIN rates'
  BY DEF AppliedIfTrue
<1>0. DOMAIN rates \subseteq DOMAIN rates'
  BY LoopGrows
<1>1. ASSUME NEW d \in Clients, Handle(d) PROVE FALSE
  BY <1>1 DEF Handle, Returns, IInv, Shape
<1>2. ASSUME NEW d \in Clients \ {c}, Client(d) PROVE FALSE
  <2>1. cpc'[c] = cpc[c]
    BY <1>2, ClientStep DEF IInv, OwnStep
  <2>. QED  BY <2>1 DEF Returns
<1>3. ASSUME NewWork \/ Exit \/ UNCHANGED vars PROVE FALSE
  BY <1>3 DEF NewWork, Exit, vars, clientVars, Returns
<1>4. ASSUME Client(c)
      PROVE  /\ op[c] = "SubmitWork" => <<c, arg[c].work>> \in wins
             /\ op[c] = "SubmitHashrate" => arg[c].id \in DOMAIN rates'
  <2>1. CASE SubmitWorkReceive(c)
    BY <2>1 DEF SubmitWorkReceive, Receive, Return, Reply, IInv, Shape, ReplyInv
  <2>2. CASE SubmitHashrateReceive(c)
    BY <1>0, <2>2 DEF SubmitHashrateReceive, Receive, IInv, ReplyInv
  <2>3. CASE GetWorkReceive(c) \/ HashrateReceive(c)
    BY <2>3 DEF GetWorkReceive, HashrateReceive, Receive
  <2>4. CASE GetWorkAbort(c) \/ SubmitWorkAbort(c) \/ SubmitHashrateAbort(c)
             \/ HashrateAbort(c)
    BY <2>4 DEF GetWorkAbort, SubmitWorkAbort, SubmitHashrateAbort,
       HashrateAbort, Abort, Return, Reply, IInv, Shape
  <2>5. CASE \/ GetWork(c) \/ GetHashrate(c)
             \/ \E a \in [work : 0 .. MaxWork, valid : BOOLEAN] : SubmitWork(c, a)
             \/ \E a \in [rate : Rates, id : SolverIds] : SubmitHashrate(c, a)
    BY <2>5 DEF GetWork, GetHashrate, SubmitWork, SubmitHashrate, Enter, Returns
  <2>. QED  BY <1>4, <2>1, <2>2, <2>3, <2>4, <2>5 DEF Client
<1>. QED  BY <1>1, <1>2, <1>3, <1>4 DEF Next

(* A true answer from the remote-work API is never given for work that    *)
(* was not done: SubmitWork returns true only for a solution the loop      *)
(* accepted from this very call, and SubmitHashrate only once the loop     *)
(* holds a rate under the call's solver id, for any number of clients      *)
(* racing, and also when the engine shuts down mid-call (api.go lines      *)
(* 74-84 and 99-107).                                                      *)
THEOREM SubmitTrueMeansApplied == Spec => TrueMeansApplied
<1>1. Init => IInv
  BY InitIInv
<1>2. IInv /\ [Next]_vars => IInv'
  BY NextIInv
<1>3. IInv /\ [Next]_vars => [\A c \in Clients : AppliedIfTrue(c)]_vars
  BY StepApplied
<1>. QED  BY <1>1, <1>2, <1>3, PTL DEF Spec, TrueMeansApplied
=============================================================================
