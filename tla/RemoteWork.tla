------------------------------ MODULE RemoteWork ------------------------------
(***************************************************************************)
(* The remote-work API of the inihash engine (src/consensus/inihash/       *)
(* api.go) and the remote sealer loop it talks to.                         *)
(*                                                                         *)
(* Every API call is made by an RPC client goroutine.  It sends a request  *)
(* carrying a private buffered reply channel on an unbuffered channel of   *)
(* the loop (fetchWorkCh, submitWorkCh, submitRateCh, fetchRateCh), racing *)
(* the send against exitCh, and then waits for the reply.  The loop owns   *)
(* the current work package, the sealed packages and the hash-rate table;  *)
(* it handles one request per iteration and writes the reply before it     *)
(* takes the next.  The loop lives in the engine's sealer, which is not    *)
(* among the sources: it is modelled from the specification (section 4.3). *)
(*                                                                         *)
(* A work package is a number: 0 is "no work yet", and each new package    *)
(* the local miner hands to the loop supersedes the previous one.          *)
(***************************************************************************)
EXTENDS Naturals, FiniteSets, Functions

CONSTANTS
  Clients,     \* RPC callers
  SolverIds,   \* identifiers remote miners report hash rates under
  Rates,       \* hash rates a miner may report
  MaxWork,     \* number of work packages the local miner produces
  None         \* no value: an empty channel, no argument, no call yet

ASSUME RemoteWorkAssumption ==
  /\ IsFiniteSet(Clients) /\ Clients # {}
  /\ IsFiniteSet(SolverIds)
  /\ Rates \subseteq Nat
  /\ MaxWork \in Nat \ {0}

Works == 1 .. MaxWork

(* What a call returns: whether it succeeded (the error is nil, or the     *)
(* boolean result), a value (a package or a rate) and the error.           *)
Reply(ok, val, err) == [ok |-> ok, val |-> val, err |-> err]

(* errEthashStopped: what GetWork returns once the engine is closed.       *)
errEthashStopped == "stopped"

VARIABLES
  remote,    \* api.inihash.remote # nil: the engine runs a remote sealer
  loop,      \* "running", or "exited" once the loop returned and exitCh is closed
  current,   \* the current work package (0: none yet)
  sealed,    \* packages a solution was accepted for
  rates,     \* the hash-rate table: solver id -> latest reported rate
  cpc,       \* cpc[c]: "idle", "send" (offering the request), "wait" (for the reply)
  op,        \* op[c]: the API method client c is in
  arg,       \* arg[c]: its arguments
  reply,     \* reply[c]: the private reply channel (capacity 1), None if empty
  ret,       \* ret[c]: what c's last call returned
  wins       \* history: pairs <<c, w>> of accepted submissions

clientVars == <<cpc, op, arg, reply, ret>>
loopVars == <<remote, loop, current, sealed, rates>>
vars == <<loopVars, clientVars, wins>>

-----------------------------------------------------------------------------
(* The engine is built with or without a remote sealer; with one, its loop *)
(* is running and has no work yet.                                         *)
Init ==
  /\ remote \in BOOLEAN
  /\ loop = "running"
  /\ current = 0
  /\ sealed = {}
  /\ rates = [s \in {} |-> 0]
  /\ cpc = [c \in Clients |-> "idle"]
  /\ op = [c \in Clients |-> None]
  /\ arg = [c \in Clients |-> None]
  /\ reply = [c \in Clients |-> None]
  /\ ret = [c \in Clients |-> None]
  /\ wins = {}

(* Client c enters method o with arguments a.  Without a remote sealer the *)
(* method returns r at once; otherwise it makes its reply channel and goes *)
(* on to offer the request.                                                *)
Enter(c, o, a, r) ==
  /\ cpc[c] = "idle"
  /\ \/ /\ ~remote
        /\ ret' = [ret EXCEPT ![c] = r]
        /\ UNCHANGED <<cpc, op, arg>>
     \/ /\ remote
        /\ cpc' = [cpc EXCEPT ![c] = "send"]
        /\ op' = [op EXCEPT ![c] = o]
        /\ arg' = [arg EXCEPT ![c] = a]
        /\ UNCHANGED ret
  /\ UNCHANGED <<loopVars, reply, wins>>

(* The call of client c returns r; its arguments are gone.                 *)
Return(c, r) ==
  /\ cpc' = [cpc EXCEPT ![c] = "idle"]
  /\ op' = [op EXCEPT ![c] = None]
  /\ arg' = [arg EXCEPT ![c] = None]
  /\ ret' = [ret EXCEPT ![c] = r]

(* The request send of client c loses its select to the closed exitCh.     *)
Abort(c, o, r) ==
  /\ cpc[c] = "send"
  /\ op[c] = o
  /\ loop = "exited"
  /\ Return(c, r)
  /\ UNCHANGED <<loopVars, reply, wins>>

(* Client c takes the reply the loop wrote on its private channel.         *)
Receive(c, o, r) ==
  /\ cpc[c] = "wait"
  /\ op[c] = o
  /\ reply[c] # None
  /\ reply' = [reply EXCEPT ![c] = None]
  /\ Return(c, r)
  /\ UNCHANGED <<loopVars, wins>>

(* GetWork: "not supported" without a remote sealer.                       *)
GetWork(c) == Enter(c, "GetWork", None, Reply(FALSE, 0, "notSupported"))

(* Mutant: GetWork's send does not race against exitCh.                   *)
GetWorkNoExitCase(c) == FALSE

(* GetWork's send select: exitCh wins, errEthashStopped.                   *)
GetWorkAbort(c) == Abort(c, "GetWork", Reply(FALSE, 0, errEthashStopped))

(* GetWork's reply select: the package from workCh, or the error from      *)
(* errc; the loop writes exactly one of them.                              *)
GetWorkReceive(c) == Receive(c, "GetWork", reply[c])

(* SubmitWork(nonce, hash): the solution names a package (0: one the loop  *)
(* never issued) and its nonce verifies or not; false without a remote.    *)
SubmitWork(c, a) == Enter(c, "SubmitWork", a, Reply(FALSE, 0, "nil"))

SubmitWorkAbort(c) == Abort(c, "SubmitWork", Reply(FALSE, 0, "nil"))

(* Mutant: SubmitWork answers true once the loop replied, whatever error   *)
(* it replied with, as SubmitHashrate does after <-done.                   *)
SubmitWorkReceiveIgnoresErr(c) ==
  Receive(c, "SubmitWork", Reply(TRUE, 0, "nil"))

(* err := <-errc; return err == nil.                                       *)
SubmitWorkReceive(c) == Receive(c, "SubmitWork", Reply(reply[c].ok, 0, "nil"))

(* SubmitHashrate(rate, id): false without a remote sealer.                *)
SubmitHashrate(c, a) == Enter(c, "SubmitHashrate", a, Reply(FALSE, 0, "nil"))

SubmitHashrateAbort(c) == Abort(c, "SubmitHashrate", Reply(FALSE, 0, "nil"))

(* <-done; return true.                                                    *)
SubmitHashrateReceive(c) == Receive(c, "SubmitHashrate", Reply(TRUE, 0, "nil"))

(* GetHashrate returns Hashrate(): the local miner's rate (abstracted to   *)
(* 0) plus, through fetchRateCh, the remote rates; only the local rate     *)
(* without a remote sealer or once the loop has exited.                    *)
GetHashrate(c) == Enter(c, "GetHashrate", None, Reply(TRUE, 0, "nil"))

HashrateAbort(c) == Abort(c, "GetHashrate", Reply(TRUE, 0, "nil"))

HashrateReceive(c) == Receive(c, "GetHashrate", Reply(TRUE, reply[c].val, "nil"))

(* The loop's answer to client c's request (specification, section 4.3).  *)
Accepts(a) ==
  /\ current # 0
  /\ a.work = current
  /\ a.valid
  /\ current \notin sealed

Answer(c) ==
  CASE op[c] = "GetWork"        -> IF current = 0 THEN Reply(FALSE, 0, "noWork")
                                   ELSE Reply(TRUE, current, "nil")
    [] op[c] = "SubmitWork"     -> Reply(Accepts(arg[c]), 0, "nil")
    [] op[c] = "SubmitHashrate" -> Reply(TRUE, 0, "nil")
    [] op[c] = "GetHashrate"    -> Reply(TRUE, SumFunction(rates), "nil")

(* The send of client c is taken by the running loop, which handles the    *)
(* request and writes the reply in the same iteration.                     *)
Handle(c) ==
  /\ cpc[c] = "send"
  /\ loop = "running"
  /\ reply' = [reply EXCEPT ![c] = Answer(c)]
  /\ cpc' = [cpc EXCEPT ![c] = "wait"]
  /\ IF op[c] = "SubmitWork" /\ Accepts(arg[c])
       THEN /\ sealed' = sealed \cup {current}
            /\ wins' = wins \cup {<<c, current>>}
       ELSE UNCHANGED <<sealed, wins>>
  /\ IF op[c] = "SubmitHashrate"
       THEN rates' = [s \in DOMAIN rates \cup {arg[c].id} |->
                        IF s = arg[c].id THEN arg[c].rate ELSE rates[s]]
       ELSE UNCHANGED rates
  /\ UNCHANGED <<remote, loop, current, op, arg, ret>>

(* The local miner hands the loop a new block to seal; the previous        *)
(* package becomes stale.                                                  *)
NewWork ==
  /\ remote
  /\ loop = "running"
  /\ current < MaxWork
  /\ current' = current + 1
  /\ UNCHANGED <<remote, loop, sealed, rates, clientVars, wins>>

(* The engine is closed: the loop returns and exitCh is closed.            *)
Exit ==
  /\ remote
  /\ loop = "running"
  /\ loop' = "exited"
  /\ UNCHANGED <<remote, current, sealed, rates, clientVars, wins>>

Client(c) ==
  \/ GetWork(c) \/ GetWorkAbort(c) \/ GetWorkReceive(c)
  \/ \E a \in [work : 0 .. MaxWork, valid : BOOLEAN] :
       SubmitWork(c, a)
  \/ SubmitWorkAbort(c) \/ SubmitWorkReceive(c)
  \/ \E a \in [rate : Rates, id : SolverIds] : SubmitHashrate(c, a)
  \/ SubmitHashrateAbort(c) \/ SubmitHashrateReceive(c)
  \/ GetHashrate(c) \/ HashrateAbort(c) \/ HashrateReceive(c)

Next ==
  \/ \E c \in Clients : Client(c) \/ Handle(c)
  \/ NewWork
  \/ Exit

(* The loop's select picks uniformly among ready cases, so a request that  *)
(* stays offered is eventually taken; a client that can return does.       *)
(* Neither new work nor shutdown is required to happen.                    *)
Fairness ==
  \A c \in Clients :
    /\ WF_vars(Handle(c))
    /\ WF_vars(GetWorkAbort(c)) /\ WF_vars(GetWorkReceive(c))
    /\ WF_vars(SubmitWorkAbort(c)) /\ WF_vars(SubmitWorkReceive(c))
    /\ WF_vars(SubmitHashrateAbort(c)) /\ WF_vars(SubmitHashrateReceive(c))
    /\ WF_vars(HashrateAbort(c)) /\ WF_vars(HashrateReceive(c))

Spec == Init /\ [][Next]_vars /\ Fairness

-----------------------------------------------------------------------------
TypeOK ==
  /\ remote \in BOOLEAN
  /\ loop \in {"running", "exited"}
  /\ current \in 0 .. MaxWork
  /\ sealed \subseteq Works
  /\ rates \in UNION {[S -> Rates] : S \in SUBSET SolverIds}
  /\ cpc \in [Clients -> {"idle", "send", "wait"}]
  /\ op \in [Clients -> {"GetWork", "SubmitWork", "SubmitHashrate", "GetHashrate", None}]
  /\ reply \in [Clients -> [ok : BOOLEAN, val : Nat, err : {"nil", "noWork"}] \cup {None}]
  /\ wins \subseteq Clients \X Works

(* Client c's call returns now: it was offered or waiting, and is idle.  *)
Returns(c) == cpc[c] # "idle" /\ cpc'[c] = "idle"

(* If client c's call returns true now, its work was done: for SubmitWork *)
(* the loop accepted c's solution for the package it names, for           *)
(* SubmitHashrate the loop holds a rate under the call's solver id.       *)
AppliedIfTrue(c) ==
  Returns(c) /\ ret'[c].ok =>
    /\ op[c] = "SubmitWork" => <<c, arg[c].work>> \in wins
    /\ op[c] = "SubmitHashrate" => arg[c].id \in DOMAIN rates'

(* A true answer is never given for work that was not done.  When         *)
(* SubmitWork returns true, the loop accepted this very call's solution    *)
(* for the package it names; when SubmitHashrate returns true, the loop    *)
(* has recorded a rate under the call's solver id.  Either call may lose   *)
(* its send to the closed exitCh, and the other client may race it on the  *)
(* same package or id (api.go, SubmitWork lines 74-84, SubmitHashrate      *)
(* lines 99-107).                                                          *)
TrueMeansApplied == [][\A c \in Clients : AppliedIfTrue(c)]_vars

(* No call hangs: every call a client makes eventually returns, also when  *)
(* the engine shuts down while the request is being offered.               *)
CallsReturn == \A c \in Clients : (cpc[c] # "idle") ~> (cpc[c] = "idle")
=============================================================================
