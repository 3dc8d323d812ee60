# TLA+ models of the chain's block validator, gas-limit rule, remote-mining API and bootnode lists

This directory holds TLA+ specifications of four parts of the code under
`src/`. Each part has TLC configurations that model-check it on small
instances. The block validator's safety properties, and the fact that it
implements an abstract specification of atomic calls, also have TLAPS proofs
that cover every behaviour.

## The system and its parts

| Part | Source | Concurrency | Module(s) |
|---|---|---|---|
| `BlockValidator.ValidateBody` / `ValidateState` | `src/unnamed/part_000` lines 98-232 (`core/block_validator.go`) | Goroutine fan-out and fan-in over a buffered channel; the chain can change under the validator | `BlockData`, `BlockValidator`, `ValidatorAbstract`, `BlockValidatorProofs`, `BlockValidatorRefinement` |
| `CalcGasLimit` | `src/unnamed/part_000` lines 238-269 | None; a pure function iterated block after block | `GasLimit`, `MCGasLimit`, `GasLimitProofs` |
| Remote-mining RPC API | `src/consensus/inihash/api.go` | RPC goroutines rendezvous with the single remote-sealer loop over unbuffered channels, and race against `exitCh` | `RemoteWork`, `MCRemoteWork`, `RemoteWorkProofs` |
| Bootnode lists | `src/params/bootnodes.go` lines 23-88 | None | `Bootnodes` (the enode lists; `V5Bootnodes` and `KnownDNSNetwork` are not modelled) |
| CI workflow | `src/unnamed/part_000` lines 1-66 | None | Not modelled: build configuration |

How the parts interact:

- During block import, `ValidateBody` runs first.
- If it returns nil, the block is executed, and then `ValidateState` checks the result of that execution.
- The miner builds each new block with `CalcGasLimit(parent, floor, ceil)`.
- Remote miners fetch that block's work package through `GetWork` and return solutions through `SubmitWork`.

### BlockValidator (`BlockValidator.tla`)

**State.**
- The block is abstracted to `faults`, the set of content checks it fails.
- The chain view is two answers: `known` (the block is already in the chain with its state) and `parent` (the parent is in the chain with its state, is pruned, or is unknown).
- The calling goroutine has a program counter `pc`.
- Each goroutine `<<call, slot>>` has a status `g`, the closure `fn` it was started with, and its result `res`.
- Each call's channel `validateRes` is kept as the sequence `ch` of every value sent on it. The loop counter `taken` is the receiving loop's `i`, so the values still buffered are `Len(ch) - taken`.
- `ret` holds what each call returned.

**Actions.**
- `ValidateBody` models the whole of lines 117-160. It runs the pre-checks of lines 119-129 in their early-return order, and then starts one goroutine per `validateFuns` entry with `tmpFunc` bound.
- `ValidateState` models lines 174-224 in the same way.
- `RunCheck` evaluates a closure against the chain as it is at that moment.
- `SendResult` is the buffered send. It blocks while the buffer is full.
- `Collect` is one iteration of the receiving loop (lines 161-167 and 225-231).
- `BlockWritten` and `ParentPruned` model other import paths changing the chain. The code takes no lock on the chain, so these steps can happen at any point.

**Abstract specification (`ValidatorAbstract.tla`).**
- It keeps the chain (`faults`, `known`, `parent`), the caller's position `pc` (`body`, `state` or `done`) and `ret`.
- `Call(p)` is one atomic step. It returns either one of the call's own errors that applies to the chain at that moment, or nil if the block passes every content check the call is responsible for:
  - `ValidateBody` covers uncles, uncle root and transaction root;
  - `ValidateState` covers gas used, bloom, receipt root and state root.
- A nil from `ValidateBody` enables `ValidateState`.
- `BlockData.tla` holds the data both levels share: the checks, the errors and the parent statuses.

**Refinement mapping.** `BlockValidator` instantiates the abstract module with `pc <- AbstractPc`. `AbstractPc` maps `bodyWait` to `body` and `stateWait` to `state`. Under this mapping:
- an early return and the receive that ends a call are the abstract `Call`;
- starting goroutines, running a closure, a send, and a receive that does not end the call are stutters.

### CalcGasLimit (`GasLimit.tla`)

- The code's `uint64` arithmetic is modelled as `+`, `-` and `/` modulo `2^Width`, so the underflow of `decay` is kept.
- `NewBlock` builds a child on the head block. The parent may have used any amount of gas up to its limit.
- The divisor and the minimum are constants. The code reads them from `params`, which is not under `src/`. The comments of `CalcGasLimit` (lines 239 and 242) give the divisor as 256, and the minimum is 5000. `MCGasLimit` scales both down by 16, to 16 and 312, which keeps their ratio. The scaling lets TLC enumerate every gas-used value of every parent.
- The `SpecExample` instance in `MCGasLimit` checks the specification's worked example under the divisor that example names (1024). That check is an `ASSUME`, which TLC evaluates on every run. The `Code` instance, with divisor 256 and minimum 5000, holds the counterexample `LowCeilExample` in the same way.
- `WordAssumption` states that the gas values are `uint64` words, and that `2^Width` is a positive natural. The provers do not interpret `^`, so they cannot derive that arithmetic fact themselves.

### Bootnode lists (`Bootnodes.tla`)

- Each `[]string` of enode URLs is a sequence of parsed URLs `Enode(key, host, port)`. The key is abbreviated to its first 8 hex digits.
- The variable `network` is chosen in `Init`, so an invariant is checked against every list.
- The V5 ENR records are base64-encoded RLP and are not decoded. `KnownDNSNetwork` only concatenates strings.

### Remote-mining API (`RemoteWork.tla`)

- `remote` records whether the engine was built with a remote sealer (`api.inihash.remote != nil`). `Init` chooses it, so both builds are checked.
- Each client has a program counter `cpc` with three states:
  - `send`: offering the request, in the select against `exitCh`;
  - `wait`: waiting for the reply on its private buffered channel;
  - `idle`.
- Each method has one action per code path of `api.go`, and each action sets what the method returns in `ret`:
  - `GetWork`, `SubmitWork`, `SubmitHashrate` and `GetHashrate` enter the method. Without a remote they return at once (`"not supported"` or `false`);
  - `...Abort`: `exitCh` wins the send select (`errEthashStopped`, or `false`);
  - `...Receive`: the reply is taken. For `GetWork` the reply is the package or the error; for `SubmitWork` it is `err == nil`; for `SubmitHashrate` it is `true` after `<-done`.
- The helpers `Enter`, `Abort`, `Receive` and `Return` hold what the four methods share.
- `GetHashrate` calls `Hashrate()`, which is not under `src/`. Its select against `exitCh` (`HashrateAbort`) and its reply (`HashrateReceive`) are modelled from the specification.
- The remote-sealer loop is not under `src/`, so `Handle`, `Answer`, `Accepts`, `NewWork` and `Exit` are modelled from the specification and marked `spec_modelled` in `PROJECT.json`. The loop takes one request per iteration and writes the reply in that same iteration.

## Runs

| Run | Config | Expect | What it shows |
|---|---|---|---|
| `block_validator` | `BlockValidator.cfg` | pass, 26,260 states | No bad block is accepted (`AcceptedBlockIsValid`); every returned error applies to the current chain (`ErrorsAreApplicable`); both calls return (`ValidationTerminates`); no goroutine stays blocked on its send after an early return (`NoGoroutineLeak`); the validator implements `ValidatorAbstract`, fairness included (`ImplementsAbstract`) |
| `gas_limit` | `MCGasLimit.cfg` | pass, 792 states | Once in [floor, ceil], the gas limit stays there; it reaches that range from any start; for parents at or above MinGasLimit it obeys the specification's bounds |
| `gas_limit_low_parent` | `MCGasLimitLowParent.cfg` | violation | For a parent limit below the divisor, `decay` underflows and the result drops below MinGasLimit (10 -> 9 in the model) |
| `gas_limit_low_ceil` | `MCGasLimitLowCeil.cfg` | violation | With a configured ceiling below MinGasLimit, a parent at MinGasLimit gets a child below it (312 -> 294 in the model, 5000 -> 4982 under the code's divisor 256 with a ceiling of 4000). The ceiling branch has no MinGasLimit clamp. This case came up while proving `SpecBounds`. |
| `bootnodes` | `Bootnodes.cfg` | violation | `TestnetBootnodes` lines 38 and 39 give two different keys the endpoint `bootnode-b.genesis-testnet.inichain.com:30304`. Only one of them can be reached there. The list's pattern suggests that line 39 was meant for `bootnode-c`. |
| `remote_work` | `MCRemoteWork.cfg` | pass, 496,756 states | `SubmitWork` returns true only for a solution the loop accepted from that very call, and `SubmitHashrate` only once the loop holds a rate under the call's id, with the other client racing and the engine exiting at any point (`TrueMeansApplied`); every API call returns, including when the engine exits mid-call (`CallsReturn`) |

**Bounds.** Each bound is chosen so that the interesting cases happen:
- `BlockValidator` enumerates every subset of the seven content checks and every chain view. The environment can change the chain at any step.
- `MCGasLimit` uses three floors and three ceilings: below, at and above MinGasLimit, including floor > ceil. Its starting limits lie below, inside and above the range.
- `MCRemoteWork` checks both builds, with and without a remote sealer. It has two clients, so two `SubmitWork` calls can race for the same package. It has two packages, so a solution can arrive for a stale package.

**Mutants.** Each property of a passing run has a mutant in `PROJECT.json`. The mutant is an operator defined in the module just before the definition it replaces, and it models a plausible bug:
- the receiving loop stopping one result early;
- a swapped ancestor error;
- one goroutine too few;
- a channel with capacity one;
- a missing floor cap, a stuck floor branch or a missing MinGasLimit clamp;
- `SubmitWork` returning true on any reply, ignoring the error;
- no `exitCh` case in `GetWork`;
- `ValidateBody` without the uncle-root pre-check.

TLC finds the property violated under each mutant.

## Fairness

**BlockValidator.**
- `WF` on the validating goroutine: it is never descheduled forever while it can receive.
- `WF` on each worker goroutine: Go's scheduler eventually runs every runnable goroutine.
- The environment gets no fairness, because the chain is not required to change.

**GasLimit.** `WF` on `NewBlock`, because the chain keeps growing.

**RemoteWork.**
- `WF` on `Handle`: the loop's `select` picks uniformly among the cases that are ready.
- `WF` on `Abort` and on `Receive`.
- `NewWork` and `Exit` get no fairness.

## Proofs (TLAPS)

### `BlockValidatorProofs.tla`

- `NoFalseAccept`: `Spec => []AcceptedBlockIsValid`.
- `TypeCorrect`: `Spec => []TypeOK`.

Both theorems follow from `IInvHolds`, which states `Spec => []IInv`. `IInv` has four parts:

- `Progress`:
  - which calls have returned, for each value of `pc`;
  - which channels and goroutines are still untouched;
  - `ValidateState` returns only after `ValidateBody` returned nil.
- `Goroutine_Inv`:
  - a started goroutine runs the closure of its slot;
  - a nil from a content check means the block passes that check;
  - goroutines exist only if the cheap pre-checks passed.
- `Channel_Inv`: the counting argument, for each call.
  - Every goroutine sends exactly once, so the length of the channel's history equals the number of finished goroutines.
  - The history's non-nil entries are as many as the finished goroutines that failed.
  - All values the loop has taken so far were nil.
  - If the call returned nil, all of its goroutines finished with nil.
- `TypeOK`.

`AcceptedBlockIsValid` on its own is not inductive. Whether the loop may return nil after three nils depends on the goroutines still in flight, and the counting in `Channel_Inv` is what rules them out.

**The key lemma, `AllNil`.** The loop has taken three nils, so the history has at least three entries. It has at most three, because that is the number of goroutines. So all three goroutines are finished (`FS_Subset`), and none failed, because the history has no error slot (`FS_EmptySet`).

**Structure of the proof.** There is one lemma per action: `CollectIInv`, `SendResultIInv`, `RunCheckIInv`, `SpawnIInv`, `PreCheckFailIInv` and `EnvironmentIInv`. `NextIInv` combines them. TLC checked `IInv` as an invariant of the run before it was proved.

### `BlockValidatorRefinement.tla`

- `NoFalseReject`: `Spec => []ErrorsAreApplicable`.
- `Refinement`: `Spec => Abstract!SafetySpec`. `BlockValidator` implements the safety part of `ValidatorAbstract`.

Both theorems rest on `AInvHolds`, which states `Spec => []AInv`. `ErrorsAreApplicable` is not inductive on its own: an error sitting in the channel, or returned by a finished goroutine, was computed against an earlier chain. `AInv` therefore states, for every such result and for every returned value, that it is an error of its call that applies to the current chain. It stays true because the chain only moves one way:
- `known` only becomes true;
- `parent` only goes from `state` to `pruned`;
- `faults` never changes.

The lemma `ROkStable` states that monotonicity. It is stated over the chain's components as parameters, so that it can be applied to the primed state.

The refinement step (`StepRefines`) has one case per action:
- An early return or a receive that returns an error is an abstract `Call`. `AInv` shows that the error is among the abstract outcomes.
- A receive that returns nil is an abstract `Call` with nil. `AllNil` from `BlockValidatorProofs` and `NilPasses` show that every check of the call passed. The cheap checks passed before the goroutines started, and each goroutine ran its own closure and reported nil.
- Every other step is a stutter under `AbstractPc`.

### `RemoteWorkProofs.tla`

- `SubmitTrueMeansApplied`: `Spec => TrueMeansApplied`. It holds for any number of clients, solver ids and packages.

`TrueMeansApplied` is about the step in which a call returns, but the answer it returns was written by the loop one step earlier, on the call's private reply channel. So the proof rests on an invariant about the calls still waiting, `ReplyInv`:
- a waiting `SubmitWork` whose reply says true had its solution accepted (`<<c, work>>` is in `wins`);
- a waiting `SubmitHashrate` has its solver id in the rate table.

`LoopGrows` shows that the loop never removes anything from `wins` or from the table's domain, so a reply stays true while the other client and the loop act. `ClientStep` shows that a client's step leaves the loop and the other clients alone. It rests on one lemma each for `Enter`, `Abort` and `Receive`. `StepApplied` then has one case per way of returning:
- a `...Receive` reads a reply that `ReplyInv` vouches for;
- an `...Abort` returns false;
- no other step returns.

What the property depends on is `api.go`: the `exitCh` branches return false, and `SubmitWork` returns `err == nil` rather than true on any reply. The invariant depends on the loop, which is modelled from the specification.

### `GasLimitProofs.tla`

- `StaysInRange`: `Spec => StaysInTargetRange`.
- `SpecBounds`: `Spec => RespectsSpecBounds`.

`StaysInRange` and `SpecBounds` hold under `GasHypotheses(B)`, for any bound `B`. The hypotheses are these, and the code's constants and realistic configurations satisfy all of them:
- the chain's gas limits start in `[MinGasLimit, B]`;
- the ceilings lie in `[MinGasLimit, B]`;
- the floors are at most `B`;
- the divisor is at most MinGasLimit (256 and 5000 in the code);
- `3 * B < 2^Width`, which for `uint64` means gas limits up to about 6.1e18.

The `gas_limit` run's instance satisfies the hypotheses with `B = 520`. TLC checked that, and `Inv(520)`, on the run.

The hypotheses are what the properties need:
- A ceiling below MinGasLimit breaks `RespectsSpecBounds` (run `gas_limit_low_ceil`).
- A parent below the divisor breaks it as well (run `gas_limit_low_parent`).
- A ceiling below the divisor also breaks `StaysInTargetRange`. With the ceiling as the parent's limit, `decay` wraps and the ceiling branch returns the ceiling plus one.

The argument:
- **`NoWrap`.** Under the hypotheses, for a parent in `[MinGasLimit, B]`, no `uint64` operation wraps, so `CalcGasLimit` equals `CalcExact`, the same branches over the integers. For gas limits up to about 6.1e18, this rules out the `gasUsed + gasUsed/2` overflow of line 240.
- **`ExactStep`.** `CalcExact` keeps the limit in `[MinGasLimit, B]`, keeps it in `[floor, ceil]` when the parent is in that range, and respects the specification's bounds. This is linear arithmetic once `decay` is known to be in `[0, parent)` and `contrib` to be non-negative.
- **`InvHolds`.** `Inv(B)`, stating that the gas limit lies in `[MinGasLimit, B]`, is invariant. Both action properties follow from it and from `NewBlockStep`.

### Assumptions

- `BlockValidator` has no constants.
- `RemoteWork` assumes finitely many clients (`RemoteWorkAssumption`).
- `GasLimit` assumes its constants are naturals and `uint64` words (`ConstantsAssumption`, `WordAssumption`). The range theorems add `GasHypotheses(B)` as hypotheses.

**What TLAPS cannot reach here, so TLC checks it:**
- The liveness properties (`ValidationTerminates`, `NoGoroutineLeak`, `ConvergesToTargetRange`, `CallsReturn`) and the fairness part of `ImplementsAbstract`. They rest on fairness and `ENABLED`.
- `GasLimit` outside `GasHypotheses`, where the wrapped arithmetic is the point. The violation runs cover it.
- The type invariant of `RemoteWork`. The hash-rate sum, `SumFunction`, is a fold, and what a fold computes needs induction over data.

## Not modelled

- **The bodies of the checks.** Computing hashes, tries, blooms and receipts is abstracted to one bit per check: the check fails or passes.
- **`statedb.IntermediateRoot` and the transaction dump.** The dump on a state-root mismatch (lines 199-211) only builds an error string.
- **`NewBlockValidator`.** It only stores its arguments.
- **Block numbers.** The `NumberU64()-1` at genesis is not modelled, because genesis is never validated.
- **`GetHashrate`'s local hash-rate meter, and the `Hashrate()` function itself.** These are not under `src/`.
- **`V5Bootnodes` and `KnownDNSNetwork`.** The first are encoded records; the second is string concatenation for one genesis hash.
- **The CI workflow.** It is build configuration.
