# Relayer discovery: TLA+ models, model checking and proofs

This directory holds a TLA+ development for the relayer-discovery protocol of
axelar-amplifier-solana. It covers:

- the design note `src/unnamed/part_000`: the data model, the ITS example
  and the relayer steps;
- the gateway IDL binding
  `src/bindings/generated/axelar-solana-gateway/src/program.ts`: the
  instructions the relayer and the ITS call;
- the protocol description `spec.md`, where the relayer code itself is not in
  the repository: the round bound, cancellation, serialisation of the shared
  payer and the gas-budget check.

## The system

A cross-chain message approved at the Solana gateway must be executed on its
destination program, but the relayer does not know which accounts that
program needs. Relayer discovery solves this in four stages:

1. **Publication.** Each destination program publishes a *transaction PDA*
   holding a serialized `RelayerTransaction`, the descriptor.
2. **Conversion.** The relayer converts the descriptor into a concrete
   instruction. Each account reference is resolved (`IncomingMessage`,
   `MessagePayload`, `Payer(lamports)` or a fixed account), and the data
   elements (`Bytes`, `Message`) are concatenated.
3. **Resolution loop.** The relayer simulates the instruction. The program's
   handler leaves the next descriptor as return data. The relayer repeats
   until a descriptor is `is_final`.
4. **Execution.** The relayer checks the final descriptor's payer request
   against its gas budget, tops up a shared payer account to exactly the
   request, and executes. The destination's execute entry point calls
   `validateMessage` on the gateway, which consumes the approval.

The parties interact as follows:

- **Gateway and relayer.** The gateway owns the incoming-message and
  message-payload PDAs. The relayer opens, writes, commits and closes the
  payload.
- **ITS.** The Interchain Token Service stores its descriptor once, then
  answers two build-transaction rounds.
- **Concurrent attempts.** Relay attempts run concurrently and share only the
  payer and the ledger.

## Modules

| Module | Models | State / actions |
|---|---|---|
| `Gateway` | gateway IDL (`program.ts`) | `incoming[m]` (None/Approved/Executed), `payload[m]` (None/Open/Committed), `written[m]`, `content[m]`; actions `ApproveMessage`, `InitializeMessagePayload`, `WriteMessagePayload`, `CommitMessagePayload`, `CloseMessagePayload`; `CanValidateMessage`/`ValidateMessage` are the guard and effect of the `validateMessage` CPI. Guards come from the IDL errors (`MessageAlreadyInitialised`, `MessagePayloadAlreadyInitialized`, `MessagePayloadAlreadyCommitted`, `MessageNotApproved`); each action changes only accounts marked `isMut`. |
| `Discovery` | part_000 lines 29-57 | `AccountRefs`, `DataRefs`, `Instructions`, `Descriptors`; `ResolveAccount`, `DataBytes`, `Materialize(All)` (the conversion); `Requested(d)`, the lamports of all `Payer` references, as the cardinality of (slot, lamport) pairs. |
| `Its` | part_000 lines 70-217 | `StoredDescriptor`, `BuildTransaction1`, `BuildTransaction2` (with the descriptors they return), `Handler` (dispatch on the selector byte), `Simulate` (the return data of the last instruction, or an error if any handler fails), `ExecuteSucceeds` (the EXECUTE handler is not in the repository, so it is modelled from the spec: validateMessage and a readable payload). A second program, `LOOPER`, never returns a final descriptor. |
| `Relayer` | part_000 lines 59-65 and 219-225; spec sections 4-5 | per attempt: `phase`, `desc`, `round`, `seen`, `err`, `target`; shared: `payerBal`, `lock`, `dest`, `itsPdaSet`. Actions `Fetch`, `SimulateRound`, `RejectFunding`, `AcquirePayer`, `ReadBalance`, `TopUp`, `Execute`, `Cancel`, `ExecuteAnswerLost`, plus the environment (gateway steps and the one-time `InitTransactionPda`). |
| `RelaySpec` | spec sections 4.4, 4.6, 5 and 7 | The abstract relay: `approval[m]`, `outcome[a]` (Running/Executed/Failed), `relays[a]`; actions `Approve`, `Succeed`, `GiveUp`, `FailAfterLanding`; every attempt eventually finishes (weak fairness). |
| `GatewayVerification` | gateway IDL (`program.ts`) | The verification side: `configured`, `operator`, `epoch`, `lastRotation`, `now`, `tracker[vs]`, `session[r]` (open, verified slots, accumulated weight, signing set), `incoming[m]`; actions `InitializeConfig`, `InitializePayloadVerificationSession`, `VerifySignature`, `ApproveMessage`, `RotateSigners`, `TransferOperatorship`, `ValidateMessage`, `Tick`. History variables `signed` and `byOperator` record what was verified and which rotations the operator signed. |
| `MCRelayer`, `MCGatewayVerification` | — | model values for TLC |
| `RelayerProofs` | — | TLAPS proofs about `Relayer` (types, at-most-once, payer, refinement) |
| `HandlerProofs` | — | TLAPS proofs about the discovery chain (`DestInv`) |
| `GatewayVerificationProofs` | — | TLAPS proofs about `GatewayVerification` (types, tracker numbering, refinement of `Gateway`, the session invariants, the quorum invariants given the weight count, the weight step) |

### Data abstraction

- **Addresses.** An address is a pair `<<name, owner>>`, where the owner is
  the message a PDA belongs to, or `"global"`.
- **Instruction data.** A `Bytes` element is one selector token, and a
  serialized `Message` is the token `<<"message", m>>`.
- **Payloads.** A payload is its kind: `TransferNoData`, `TransferWithData`
  or `OtherPayload`. That kind is what the handlers' `match` arms tell apart.
- **Missing handler arms.** The match arms the code leaves empty ("handle the
  rest of the cases here") leave no return data. The relayer fails those with
  `DecodeError`.
- **Token-manager load.** Line 160 of build_transaction_2 calls
  `TokenManager::load(accounts[1])`, where `accounts` is the
  `Vec<RelayerAccount>` declared at line 150. That Vec shadows the handler's
  parameter, and its element 1 is `IncomingMessage`. The constant
  `Bt2TokenManagerFrom` chooses between the code as written (`"ShadowVec"`:
  the load sees the incoming-message reference and fails) and the intended
  reading (`"HandlerAccounts"`: the handler's own `accounts[1]`).

## Runs

| Run | cfg | Expect | What it shows |
|---|---|---|---|
| `relay_core` | `MCRelayer.cfg` | pass (8837 states) | Checks `TypeOK`, `AtMostOnceExecution`, `PayerCoversRequest`, `PayerBalanceBounded` and `Termination` on two concurrent attempts for one message. The destination is ITS, LOOPER or a program without a PDA. Gateway steps interleave freely, and the payer lock spans balance check to execution. |
| `over_budget` | `MCRelayerOverBudget.cfg` | pass (7702 states) | The gas budget (1) is below the transfer cost (2). Every attempt fails with `FundingMismatch`, and the payer never grows. |
| `doc_payload_slot` | `MCRelayerDocSlot.cfg` | violation | `HandlersAcceptCommittedTransfer` on `build_transaction_2` as written: payload from `accounts[1]`, token manager from the shadowing Vec. The payload read fails first (finding 1). |
| `token_manager_shadow` | `MCRelayerTokenManager.cfg` | violation | The same property with the payload read corrected (`Bt2PayloadSlot = 0`). The token-manager load of line 160 still fails (finding 2). |
| `fund_only_lock` | `MCRelayerFundLock.cfg` | violation | The lock covers only the balance check and the top-up (finding 3). |
| `relay_refinement` | `MCRelayerRefinement.cfg` | pass (8837 states) | `ImplementsRelaySpec`: the relayer, lost answers included, implements `RelaySpec` under the mapping below, fairness included. |
| `lost_execute_answer` | `MCRelayerLostAnswer.cfg` | violation | `ExecutionReported`: an executed message always has an attempt reporting `Executed`. It fails when the answer is lost (finding 4). |
| `gateway_verification` | `MCGatewayVerification.cfg` | pass (1,011,927 states, about 2 min) | `VerificationTypeOK`, `ApprovalBackedByQuorum`, `SessionWeightCounted`, `RotationSignedByLatest`, `EpochsNumberSets` and `ImplementsGateway` on the verification model (below). |

The code choices the runs compare are constants of the model:

- `Bt2PayloadSlot` is the index `build_transaction_2` reads the payload at:
  0 is the corrected code, 1 is the code as written.
- `Bt2TokenManagerFrom` is the `accounts` line 160 loads the token manager
  from: `"ShadowVec"` is the code as written, `"HandlerAccounts"` the
  corrected code.
- `LockSpan` is how long an attempt holds the payer: `"execute"` keeps it
  through execution, `"fund"` releases it after the top-up.

**The relay runs use the corrected ITS example.** As written, the ITS
example never completes discovery (findings 1 and 2). The runs about the
relayer itself (`relay_core`, `over_budget`, `fund_only_lock`,
`relay_refinement`, `lost_execute_answer`) need a destination whose discovery
can succeed, so they set both constants to the corrected code. What they
show is about the relayer's loop, funding and execution, not about the ITS
handlers. No passing run claims that the handlers, as written, accept a
transfer.

**Bounds.**

- **Messages and attempts.** There is one message and two attempts (a retry
  racing the original). The message kind is chosen nondeterministically.
- **Rounds.** `MaxRounds = 3`. The ITS chain needs 2 rounds (stored, then
  build_transaction_1, then final), and LOOPER hits the bound.
- **Payer.** `TransferCost = 2` and `GasBudget = 3`, so a top-up of a
  partly funded payer differs from a full one. The payer starts at 0.
- **Two messages.** A second message multiplies the state space past the
  run budget. It adds nothing new for these properties, which are per
  message or about the one payer. The theorems cover any number of messages.

**Fairness.** Each attempt's own steps are weakly fair (`WF_vars(RelayerStep(a))`).
A relay task keeps running while it can step. Cancellation, the gateway and the
ITS setup are other parties and get no fairness.

**Mutants.** Each property is killed by a plausible bug, listed in
PROJECT.json under "mutants":

- an off-by-one round bound;
- `validateMessage` accepting an executed message;
- releasing the payer after the top-up;
- topping up the whole request instead of the shortfall;
- failing without releasing the payer;
- dropping the gas-budget check;
- cancellation overwriting an attempt that already executed;
- `verifySignature` counting a verified slot again;
- `approveMessage` without `MessageAlreadyInitialised`;
- `rotateSigners` accepting any retained signing set;
- `rotateSigners` not advancing the epoch.

## Findings

1. **The ITS example's chain never reaches a final descriptor.**
   - `relayer_discovery_build_transaction_2` reads the payload from
     `accounts[1]` (part_000:144).
   - The descriptor `build_transaction_1` returns (part_000:122-125) puts the
     message payload at index 0 and the token manager at index 1.
   - So every committed transfer fails simulation (`doc_payload_slot`).
     This run uses the code as written for line 160 too. The payload read
     fails first.
2. **build_transaction_2 loads the token manager from the wrong accounts.**
   - Line 160 calls `TokenManager::load(accounts[1])`. Here `accounts` is the
     `Vec<RelayerAccount>` of line 150, which shadows the handler's
     parameter and holds `IncomingMessage` at index 1.
   - So even with line 144 corrected, every committed transfer fails
     simulation (`token_manager_shadow`). The chain reaches its final
     descriptor only when both lines are corrected.
3. **Serialising only funding is not enough.**
   - The lock must cover the payer from the balance read through execution.
   - If it covers only check-and-top-up, attempt A tops up and attempt B
     reads that balance and tops up nothing. Then A executes and spends it,
     and B executes with an empty payer (`fund_only_lock`).

4. **A lost execute answer is reported as a failure.**
   - Step 5 (part_000:225) executes the transaction. Spec section 5 reports
     a timeout at execute as `Cancelled`, and section 4.6 leaves any retry to
     the caller.
   - When the transaction lands after the timeout, `validateMessage` has
     consumed the approval and the payer paid, but the attempt reports
     `Cancelled` (`ExecuteAnswerLost`). No attempt ever reports `Executed`
     (`lost_execute_answer`).
   - A retry then fails with `MessageNotApproved`, so execution stays at most
     once (`AtMostOnceExecution` still holds, and the step is a
     `FailAfterLanding` of `RelaySpec`). Its top-up stays in the payer.

## The lost answer and the abstract relay

`ExecuteAnswerLost(a)` is the execute call of a Funded attempt whose
transaction lands (`Land`: the approval is consumed and the request is
spent) while the attempt fails with `Cancelled`. It is part of `Next` but
gets no fairness, since the network decides it.

`RelaySpec` is what a relayer promises, with no descriptors, rounds or payer.
`Relayer` implements it through

    Abs == INSTANCE RelaySpec WITH approval <- incoming,
                                  outcome  <- outcomeBar,
                                  relays   <- target

where `outcomeBar[a]` is `Executed`, `Failed` or `Running` according to the
attempt's phase. Steps map as follows:

- a successful `Execute` maps to `Succeed`;
- `ExecuteAnswerLost` maps to `FailAfterLanding`;
- every other failure maps to `GiveUp`;
- the gateway's approval maps to `Approve`;
- all other steps are stutters.

The abstract fairness (each attempt eventually finishes) follows from the
relayer's `WF_vars(RelayerStep(a))`, and TLC checks that part.

## The verification model (`GatewayVerification`)

The IDL gives each instruction's accounts, arguments and errors. Each guard is
the condition an error names, and an instruction that fails changes nothing.

- **`initializeConfig`.** It records the operator, creates a tracker for each
  initial signer set at epochs 1..n (`VerifierSetAlreadyInitialised` if one
  repeats), and sets the epoch to n.
- **`verifySignature(r, vs, pos, key)`.** It needs an open session
  (`InvalidVerificationSessionPDA`) and a tracker for `vs`
  (`InvalidVerifierSetTrackerProvided`) that is younger than the retention
  (`VerifierSetTooOld`). It also needs a slot inside the set
  (`SlotIsOutOfBounds`), a valid signature (`InvalidDigitalSignature`) and a
  slot not already verified (`SlotAlreadyVerified`). It marks the slot and
  adds the leaf's weight.
- **One signing set per session.** A session counts the signatures of one
  verifier set. The IDL fixes this only through the leaf's
  `signingVerifierSet` and the tracker account, so this is our reading.
- **`approveMessage`.** It needs a session whose weight reached the set's
  quorum (`SigningSessionNotValid`), the message in the batch
  (`LeafNodeNotPartOfMerkleRoot`) and no incoming-message PDA yet
  (`MessageAlreadyInitialised`).
- **`rotateSigners(new)`.** It needs a valid session over `new`'s root and no
  tracker for `new` (`VerifierSetTrackerAlreadyInitialised`). Unless the
  optional operator account signs, the signing set must be the latest
  (`ProofNotSignedByLatestVerifierSet`) and the cooldown over
  (`RotationCooldownNotDone`). It advances the epoch, and both branches
  record the rotation time.
- **`transferOperatorship`.** The operator or the upgrade authority must sign
  (`OperatorOrUpgradeAuthorityMustBeSigner`).

Properties:

- **`ApprovalBackedByQuorum`.** Every approved message lies in a batch that
  a quorum of one set signed, counted from the `signed` history rather than
  the session's own counter.
- **`SessionWeightCounted`.** A session's weight, the counter
  `verifySignature` keeps in the session PDA, equals the `SignedWeight` of
  its signing set in the history. Racing signature transactions never make
  the counter drift. The mutant without the `SlotAlreadyVerified` check
  (`VerifySignatureRecounting`) breaks it.
- **`RotationSignedByLatest`.** A set installed by a rotation the operator
  did not sign was signed by a quorum of the set one epoch older.
- **`EpochsNumberSets`.** The trackers number the known sets 1..epoch,
  one set per epoch. The latest set, which `rotateSigners` checks a proof
  against, is therefore unique and exists once the gateway is configured.
  It rests on `VerifierSetAlreadyInitialised`,
  `VerifierSetTrackerAlreadyInitialised` and the epoch advancing with each
  new tracker. The mutant that writes the tracker without advancing the
  epoch breaks it.
- **`ImplementsGateway`.** The verified gateway implements `Gateway`'s
  message lifecycle (`GW!GatewaySpec`, with no payload PDAs touched), so no
  later session re-approves an executed message.

**Bounds.** The instance has one message in one batch root and three verifier
sets (the initial one with unit weights, one where a single heavy signer
meets the quorum, and one sharing signers with the first). The retention is
2, so the initial set ages out after two rotations. The cooldown is 1 with a
clock bounded at 2, and there are two operators and the upgrade authority.
This lets a rotation signed by an outdated but retained set, a
weight-sufficient single signature, and operator bypasses all happen.

**Symmetry and deadlock.** Symmetry over the two operators is sound
because no property names an operator. `CHECK_DEADLOCK FALSE` is set because
the gateway is passive: with finitely many roots and a bounded clock, every
session and rotation is eventually used up, and the real program then simply
receives no more instructions.

## Proofs (checked by tlapm)

### `RelayerProofs`

The proofs need only the ASSUMEs of the modules: `Messages` and `Attempts`
non-empty, `MaxRounds` a positive natural, the balances and costs naturals.
They hold for every value of the constants.

- `TypeCorrect`: `Spec => []TypeOK`.
- `AtMostOnce`: `Spec => []AtMostOnceExecution`.
- `IInvInvariant`: `Spec => []IInv`, from `InitIInv` and `NextIInv`.
- `PayerCovered`: `LockSpan = "execute"` implies `Spec => []PayerCoversRequest`.
- `PayerBounded`: `LockSpan = "execute"` implies
  `Spec => []PayerBalanceBounded`. It goes through `BInv` = `PInv /\
  BudgetInv /\ PayerBalanceBounded`. `BudgetInv` says a holder's request
  passed the gas-budget check, which `AcquirePayer` establishes. Since the
  holder's read balance is still the payer's (`SeenInv`), a top-up raises the
  payer to at most that request, and executions only spend.
- `Refinement`: `Spec => Abs!AbsSafety`. Init maps to `AbsInit`, and under
  `IInv` every step maps to an abstract step or a stutter. The lemmas are
  `QuietSteps` (steps that leave `incoming` and every outcome alone),
  `LandingRefines` (a successful `Execute` and `ExecuteAnswerLost`, with
  `LandFacts` giving that the approval was there) and `EnvironmentRefines`.

`IInv` (in `Relayer`) = `TypeOK /\ DescriptorInv /\ ExecutedInv /\ StartInv
/\ AtMostOnceExecution`. Its conjuncts are needed for these reasons:

- **The bare type invariant is not inductive.** `desc'` after a simulation is
  whatever the handler returned. The proof needs to know that an attempt in a
  loop holds the stored, looping or build_transaction_1 descriptor, and that
  an attempt in a funding phase holds `FinalDescriptor(target[a], m)`.
  `SimulateKnown` then shows the handlers return only such descriptors.
- **The payer stays a natural.** `RequestedFinal` shows that the final
  descriptor requests exactly `TransferCost`. This keeps `payerBal` a natural
  through top-up and execution.
- **The round count.** `StartInv` (`round = 0` before fetching) keeps `round`
  within `MaxRounds`.
- **Only one attempt executes.** The final instruction validates the
  attempt's own message (`ExecuteValidatesTarget`), so execution needs
  `incoming[target] = "Approved"`. `ExecutedInv` says every executed
  attempt's message is `"Executed"`. Together they rule out a second
  executed attempt for one message.

**The payer proof.** `PayerCovered` rests on `PInv` = `IInv /\ LockInv /\
SeenInv /\ PayerCoversRequest`:

- `LockInv`: an attempt in CheckBalance, TopUp or Funded holds the lock.
  So at most one attempt is there (`HolderUnique`), and only it can change
  `payerBal`. This needs the lock's free value `NoAttempt` to be distinct
  from every attempt (the assumption `AttemptsAssumption`).
- `SeenInv`: in TopUp, the balance the holder read is still the payer's
  balance.
- Adding the shortfall therefore reaches the request, which `RequestedFinal`
  fixes at `TransferCost`.

With `LockSpan = "fund"`, `LockInv` fails for Funded, and so does the
property (`fund_only_lock`).

**Lemma layout.** There is one lemma per action group: `FetchKeepsIInv`,
`SimulateRoundKeepsIInv`, `FundingKeepsIInv`, `ExecuteKeepsIInv`,
`CancelKeepsIInv` and `EnvironmentKeepsIInv`. Every failure path goes through
`FailKeepsIInv`.

### `HandlerProofs`: the descriptor a looping attempt holds

- `DestInvariant`: `Spec => [](IInv /\ DestInv)`. `DestInv` (in `Relayer`)
  says that an attempt in `Decoded` whose message goes to the ITS holds
  `StoredDescriptor` or `Bt1Descriptor(target)`, and any other attempt in
  `Decoded` holds `LoopDescriptor`. `DescriptorInv` alone allows
  build_transaction_1's result for *another* message. `DestInv` holds for
  every value of `Bt2PayloadSlot` and `Bt2TokenManagerFrom`, and it is
  inductive given `IInv`:
  - `Fetch` decodes what the destination's transaction PDA holds.
  - A simulation round decodes what the handler returned
    (`SimulateStored`, `SimulateBt1`, `SimulateLoop`). When
    build_transaction_2 succeeds it returns a final descriptor, so the
    attempt leaves `Decoded`.
  - Every other step moves the attempt out of `Decoded`
    (`LeaveLoopKeepsDest`).

The materialization lemmas (`MaterializeStored`, `MaterializeBt1`) compute the
concrete accounts of the one-instruction descriptors. `ResolvePayload` needs
Zenon, since SMT cannot translate the `CASE` over the reference kinds.

No theorem states `HandlersAcceptCommittedTransfer`. It is false for the
code (findings 1 and 2), and a theorem assuming the corrected lines would
say nothing about the program.

### `GatewayVerificationProofs`

- `VerificationTypeCorrect`: `VSpec => []VerificationTypeOK`. It is inductive
  as stated. `LeafTyped` gives positive leaf weights from the members'
  sequence type, and `InitialTrackersTyped` bounds the trackers that
  `initializeConfig` writes by `Len(InitialSignerSets)`, the new epoch.
- `EpochsNumbered`: `VSpec => []EpochsNumberSets`, with
  `VerificationTypeOK` as the strengthening.
  - A rotation's `epoch + 1` is new because every tracker is at most
    `epoch`.
  - `initializeConfig` gives each initial set its position
    (`InitialTrackerOf`). When no set repeats, position e holds the set with
    tracker e (`InitialTrackerAt`).
- `GatewayRefinement`: `VSpec => ImplementsGateway`. The mapping is the
  identity on `incoming`, with the payload PDAs constant.
  - `approveMessage` maps to `GW!ApproveMessage` and `validateMessage` to
    `GW!GatewayExecute`.
  - Every other instruction leaves `incoming` alone and is a stutter.

- The session invariants `VInv`, proved as `VInvInvariant`. They do not
  fix a signed session's weight, which is `SessionWeightCounted` (below):
  `VSpec => []VInv`. `VInv` is the conjunction of six invariants, all
  checked by TLC on the gateway instance before the proof.
  - `VerificationTypeOK` and `EpochsNumberSets`.
  - `ConfigInv`: before `initializeConfig` there is no tracker and the
    epoch is 0; after it, the epoch is at least the number of initial sets.
  - `SessionHistory`: a session with no signing set has an empty bitmap,
    zero weight and no history. Otherwise its history is exactly
    {set} × bitmap, and the bitmap lies within the set's positions.
  - `ApprovedBySession`: every approved message has a valid session over a
    batch holding it.
  - `RotatedBySession`: every set installed by a rotation the operator did
    not sign has a valid session whose signing set's tracker is one less.

  The argument rests on `SessionValidKept`: no instruction closes a
  session, and `verifySignature` only adds weight for the session's own
  set, so a valid session stays valid with the same set. For a rotation
  (`RotateSignersRotated`), the signing set of the new set's session
  cannot be the new set itself. It is at epoch ≥ 1 (`ConfigInv` and a
  non-empty `InitialSignerSets`), while the new set has no tracker
  (`TrackedIsNotNew`). So the rotation does not move the tracker of any
  recorded signing set. The proof uses the assumption `NoSetAssumption`:
  the model's "no signing set yet" value is not a verifier-set root.
- `ApprovalQuorumIfCounted` and `RotationLatestIfCounted`:
  `VSpec => [](SessionWeightCounted => ApprovalBackedByQuorum)`, and the
  same for `RotationSignedByLatest`. Each follows from `VInv`: the valid
  session behind an approval or rotation has weight ≥ its set's quorum,
  and `SessionWeightCounted` turns that weight into `SignedWeight`.
- `SignedWeightOfSlots`: under `SessionHistory`, `SignedWeight` of a
  session's set is the `MapThenSumSet` of the leaf weights over the
  session's bitmap. So `SessionWeightCounted` says exactly that the
  counter is that sum.

**Left to TLC.** These stay with TLC:

- **Liveness.** `Termination` needs fairness and ENABLED, which tlapm cannot
  handle.
- **`SessionWeightCounted`.** This is the one step missing for
  `ApprovalBackedByQuorum` and `RotationSignedByLatest` to hold
  unconditionally. `ApprovalQuorumIfCounted` and `RotationLatestIfCounted`
  prove everything else. By `SignedWeightOfSlots` and the guards of
  `verifySignature` (`pos \notin slots`, `weight += LeafWeight`), each
  signature adds one fresh slot's weight to both sides. Concluding that the two stay equal needs the
  add-one-element law
  `MapThenSumSet(f, S \cup {x}) = MapThenSumSet(f, S) + f(x)` for
  `x \notin S`. That law holds by induction over finite sets, and the
  library's induction theorems take an operator parameter that the
  installed provers cannot instantiate.
- **`HandlersAcceptCommittedTransfer`.** It is false for the code as
  written. TLC shows the counterexamples (`doc_payload_slot`,
  `token_manager_shadow`).

## Not modelled

- **Outbound calls.** `callContract` and `callContractOffchainData` mark
  every account `isMut: false`. They write nothing and emit only a log the
  relayer does not read, so they change no modelled state.
- **Cryptography.** Merkle proofs and signatures are abstracted to
  membership and key equality. The domain separator and the curve kinds are
  left out.
- **Integer width.** Epochs and weights are naturals. Overflowing a u128
  (`EpochCalculationOverflow`) would take more than 2^64 rotations or
  signatures, so it is not a hazard of any reachable run.
- **The events coder.** `coder/events.ts` only throws ("program does not
  have events"), so there is no state to model.

## Plan for later work

1. **Verification proofs.** The sum law for `MapThenSumSet`, once a prover
   can instantiate the finite-set induction theorem. A session fact still
   unproved: a session's signing set had a tracker when it signed.
2. **Wire codec.** A model of the descriptor's Borsh encoding, with a
   round-trip check.
