---------------------------- MODULE HandlerProofs ----------------------------
(***************************************************************************)
(* Proofs about the discovery chain as the relayer simulates it: a        *)
(* looping attempt holds the descriptor its destination published or      *)
(* returned (DestInv).                                                     *)
(***************************************************************************)
EXTENDS RelayerProofs

(***************************************************************************)
(* What one simulation of each looping descriptor returns.                 *)
(***************************************************************************)

\* Materializing an instruction resolves its account references one by one.
LEMMA ResolveNth ==
    ASSUME NEW ix, NEW t, NEW i \in DOMAIN ix.accounts
    PROVE  Materialize(ix, t).accounts[i] = ResolveAccount(ix.accounts[i], t)
BY DEF Materialize

\* A MessagePayload reference resolves to the payload PDA of the message.
LEMMA ResolvePayload ==
    ASSUME NEW t
    PROVE  ResolveAccount(MessagePayloadRef, t).addr = MessagePayloadPda(t)
BY Zenon DEF ResolveAccount, MessagePayloadRef

\* The stored descriptor, materialized for message t: build_transaction_1
\* on the payload PDA of t.
LEMMA MaterializeStored ==
    ASSUME NEW t \in Messages
    PROVE  /\ DOMAIN MaterializeAll(StoredDescriptor, t) = 1..1
           /\ MaterializeAll(StoredDescriptor, t)[1].program = ITS
           /\ MaterializeAll(StoredDescriptor, t)[1].data[1] = "BUILD_TRANSACTION_1"
           /\ MaterializeAll(StoredDescriptor, t)[1].accounts[1].addr
                = MessagePayloadPda(t)
<1> DEFINE ix == StoredDescriptor.instructions[1]
<1>1. /\ DOMAIN MaterializeAll(StoredDescriptor, t) = 1..1
      /\ MaterializeAll(StoredDescriptor, t)[1].program = ITS
      /\ MaterializeAll(StoredDescriptor, t)[1].data[1] = "BUILD_TRANSACTION_1"
  BY MaterializeLoopingDescriptors
<1>2. DOMAIN StoredDescriptor.instructions = 1..1
  BY DEF StoredDescriptor
<1>3. MaterializeAll(StoredDescriptor, t)[1] = Materialize(ix, t)
  BY <1>2 DEF MaterializeAll, ix
<1>4. ix.accounts = <<MessagePayloadRef>>
  BY DEF StoredDescriptor, ix
<1>5. QED
  BY <1>1, <1>3, <1>4, ResolveNth, ResolvePayload

\* The build_transaction_1 result for message m, materialized for message
\* t: build_transaction_2 on the payload PDA of t and m's token manager.
LEMMA MaterializeBt1 ==
    ASSUME NEW t \in Messages, NEW m \in Messages
    PROVE  /\ DOMAIN MaterializeAll(Bt1Descriptor(m), t) = 1..1
           /\ MaterializeAll(Bt1Descriptor(m), t)[1].program = ITS
           /\ MaterializeAll(Bt1Descriptor(m), t)[1].data[1] = "BUILD_TRANSACTION_2"
           /\ MaterializeAll(Bt1Descriptor(m), t)[1].accounts[1].addr
                = MessagePayloadPda(t)
           /\ MaterializeAll(Bt1Descriptor(m), t)[1].accounts[2].addr[1]
                = "token_manager"
<1> DEFINE ix == Bt1Descriptor(m).instructions[1]
<1>1. DOMAIN Bt1Descriptor(m).instructions = 1..1
  BY DEF Bt1Descriptor
<1>2. MaterializeAll(Bt1Descriptor(m), t)[1] = Materialize(ix, t)
  BY <1>1 DEF MaterializeAll, ix
<1>3. ix.accounts = <<MessagePayloadRef, Fixed(<<"token_manager", m>>, TRUE)>>
  BY DEF Bt1Descriptor, ix
<1>4. /\ Materialize(ix, t).program = ITS
      /\ Materialize(ix, t).data[1] = "BUILD_TRANSACTION_2"
  BY DEF Materialize, ix, Bt1Descriptor, DataBytes, BytesRef
<1>5. ResolveAccount(Fixed(<<"token_manager", m>>, TRUE), t).addr[1] = "token_manager"
  BY Zenon DEF ResolveAccount, Fixed
<1>6. /\ Materialize(ix, t).accounts[1] = ResolveAccount(MessagePayloadRef, t)
      /\ Materialize(ix, t).accounts[2]
           = ResolveAccount(Fixed(<<"token_manager", m>>, TRUE), t)
  <2>1. 1 \in DOMAIN ix.accounts /\ 2 \in DOMAIN ix.accounts
    BY <1>3
  <2>2. ix.accounts[1] = MessagePayloadRef
    BY <1>3
  <2>3. ix.accounts[2] = Fixed(<<"token_manager", m>>, TRUE)
    BY <1>3
  <2>4. /\ Materialize(ix, t).accounts[1] = ResolveAccount(ix.accounts[1], t)
        /\ Materialize(ix, t).accounts[2] = ResolveAccount(ix.accounts[2], t)
    BY <2>1, ResolveNth
  <2>5. QED
    BY <2>2, <2>3, <2>4
<1>7. DOMAIN MaterializeAll(Bt1Descriptor(m), t) = 1..1
  BY <1>1 DEF MaterializeAll
<1>8. QED
  BY <1>2, <1>4, <1>5, <1>6, <1>7, ResolvePayload

\* A readable payload PDA yields the payload of its own message.
LEMMA PayloadAtOwn ==
    ASSUME NEW t \in Messages, PayloadReadable(t)
    PROVE  PayloadAt(MessagePayloadPda(t)) = content[t]
BY DEF PayloadAt, MessagePayloadPda

\* build_transaction_1 on the payload PDA of t returns the
\* build_transaction_1 result for t itself.
LEMMA SimulateStored ==
    ASSUME NEW t \in Messages,
           Simulate(MaterializeAll(StoredDescriptor, t)).status = "Ok"
    PROVE  Simulate(MaterializeAll(StoredDescriptor, t)).tx = Bt1Descriptor(t)
<1> DEFINE c == MaterializeAll(StoredDescriptor, t)
<1>1. /\ DOMAIN c = 1..1
      /\ c[1].program = ITS /\ c[1].data[1] = "BUILD_TRANSACTION_1"
      /\ c[1].accounts[1].addr = MessagePayloadPda(t)
  BY MaterializeStored
<1>2. Simulate(c) = Handler(c[1])
  BY <1>1, SimulateOne
<1>3. Handler(c[1]) = BuildTransaction1(c[1].accounts)
  BY <1>1 DEF Handler, ITS, LOOPER
<1>4. Handler(c[1]).status = "Ok"
  BY <1>2
<1>5. Handler(c[1]) = Returned(Bt1Descriptor(t))
  BY <1>1, <1>3, <1>4 DEF BuildTransaction1, HandlerError, NoReturnData,
                         Returned, MessagePayloadPda
<1>6. QED
  BY <1>2, <1>5 DEF Returned

\* A successful build_transaction_2 returns a final descriptor.
LEMMA SimulateBt1 ==
    ASSUME NEW t \in Messages, NEW m \in Messages,
           Simulate(MaterializeAll(Bt1Descriptor(m), t)).status = "Ok"
    PROVE  Simulate(MaterializeAll(Bt1Descriptor(m), t)).tx.is_final = TRUE
<1> DEFINE c == MaterializeAll(Bt1Descriptor(m), t)
<1>1. /\ DOMAIN c = 1..1
      /\ c[1].program = ITS /\ c[1].data[1] = "BUILD_TRANSACTION_2"
  BY MaterializeBt1
<1>2. Simulate(c) = Handler(c[1])
  BY <1>1, SimulateOne
<1>3. Handler(c[1]) = BuildTransaction2(c[1].accounts, MessageOf(c[1].data[2]))
  BY <1>1 DEF Handler, ITS, LOOPER
<1>4. QED
  BY <1>2, <1>3 DEF BuildTransaction2, HandlerError, NoReturnData, Returned,
                    FinalDescriptor

\* The looping program returns its own descriptor again.
LEMMA SimulateLoop ==
    ASSUME NEW t \in Messages,
           Simulate(MaterializeAll(LoopDescriptor, t)).status = "Ok"
    PROVE  Simulate(MaterializeAll(LoopDescriptor, t)).tx = LoopDescriptor
<1> DEFINE c == MaterializeAll(LoopDescriptor, t)
<1>1. DOMAIN c = 1..1 /\ c[1].program = LOOPER
  BY MaterializeLoopingDescriptors
<1>2. Simulate(c) = Handler(c[1])
  BY <1>1, SimulateOne
<1>3. QED
  BY <1>1, <1>2 DEF Handler, ITS, LOOPER, Returned


(***************************************************************************)
(* DestInv: a looping attempt holds the descriptor of its destination's   *)
(* chain.  It needs IInv for the types and for the messages attempts      *)
(* target; the chain steps rest on SimulateStored, SimulateBt1 and        *)
(* SimulateLoop.                                                          *)
(***************************************************************************)

\* The looping program's descriptor is neither of the ITS chain's.
LEMMA LoopIsNotIts ==
    ASSUME NEW m
    PROVE  /\ LoopDescriptor # StoredDescriptor
           /\ LoopDescriptor # Bt1Descriptor(m)
<1>1. /\ LoopDescriptor.instructions[1].program = LOOPER
      /\ StoredDescriptor.instructions[1].program = ITS
      /\ Bt1Descriptor(m).instructions[1].program = ITS
  BY DEF LoopDescriptor, StoredDescriptor, Bt1Descriptor
<1>2. QED
  BY <1>1 DEF ITS, LOOPER

\* A step that moves attempt a to a phase other than Decoded, leaving the
\* descriptors and destinations alone, keeps DestInv.
LEMMA LeaveLoopKeepsDest ==
    ASSUME DestInv, TypeOK, NEW a \in Attempts, NEW x, x # "Decoded",
           phase' = [phase EXCEPT ![a] = x], UNCHANGED <<dest, target, desc>>
    PROVE  DestInv'
BY DEF DestInv, TypeOK

\* A step that decodes descriptor d for attempt a keeps DestInv when d is
\* the one its destination's chain holds next, or d is final.
LEMMA DecodeKeepsDest ==
    ASSUME DestInv, TypeOK, NEW a \in Attempts, NEW d, Decode(a, d),
           UNCHANGED <<dest, target>>,
           d.is_final = FALSE =>
              IF dest[target[a]] = ITS
              THEN d \in {StoredDescriptor, Bt1Descriptor(target[a])}
              ELSE d = LoopDescriptor
    PROVE  DestInv'
BY DEF DestInv, TypeOK, Decode

\* Fetching decodes the descriptor the destination's transaction PDA holds:
\* the stored ITS descriptor, or the looping program's.
LEMMA FetchKeepsDest ==
    ASSUME IInv, DestInv, NEW a \in Attempts, Fetch(a)
    PROVE  DestInv'
<1> DEFINE p == dest[target[a]]
<1>1. TypeOK /\ UNCHANGED <<dest, target>>
  BY DEF IInv, Fetch
<1>2. CASE HasTransactionPda(p, itsPdaSet)
  <2>1. Decode(a, TransactionPdaBytes(p))
    BY <1>2 DEF Fetch
  <2>2. IF p = ITS THEN TransactionPdaBytes(p) = StoredDescriptor
                   ELSE TransactionPdaBytes(p) = LoopDescriptor
    BY DEF TransactionPdaBytes
  <2>3. QED
    BY <1>1, <2>1, <2>2, DecodeKeepsDest
<1>3. CASE ~HasTransactionPda(p, itsPdaSet)
  <2>1. Fail(a, "AccountNotFound") /\ UNCHANGED desc
    BY <1>3 DEF Fetch
  <2>2. QED
    BY <1>1, <2>1, LeaveLoopKeepsDest DEF Fail
<1>4. QED
  BY <1>2, <1>3

\* A simulation round decodes what the handler of the held descriptor
\* returned: build_transaction_1's result after the stored descriptor, a
\* final descriptor after that, the looping descriptor again after itself.
LEMMA SimulateRoundKeepsDest ==
    ASSUME IInv, DestInv, NEW a \in Attempts, SimulateRound(a)
    PROVE  DestInv'
<1> DEFINE t == target[a]
           r == Simulate(MaterializeAll(desc[a], t))
<1>1. TypeOK /\ UNCHANGED <<dest, target>> /\ t \in Messages
      /\ phase[a] = "Decoded"
  BY DEF IInv, TypeOK, SimulateRound
<1>2. IF dest[t] = ITS THEN desc[a] \in {StoredDescriptor, Bt1Descriptor(t)}
                       ELSE desc[a] = LoopDescriptor
  BY <1>1 DEF DestInv
<1>3. CASE r.status = "Ok" /\ round[a] < MaxRounds /\ Decode(a, r.tx)
  <2>1. r.status = "Ok"
    BY <1>3
  <2>2. r.tx.is_final = FALSE =>
          IF dest[t] = ITS THEN r.tx \in {StoredDescriptor, Bt1Descriptor(t)}
                           ELSE r.tx = LoopDescriptor
    <3>1. CASE desc[a] = StoredDescriptor
      BY <1>1, <1>2, <2>1, <3>1, SimulateStored, LoopIsNotIts
    <3>2. CASE desc[a] = Bt1Descriptor(t)
      BY <1>1, <2>1, <3>2, SimulateBt1
    <3>3. CASE desc[a] = LoopDescriptor
      BY <1>1, <1>2, <2>1, <3>3, SimulateLoop, LoopIsNotIts
    <3>4. QED
      BY <1>2, <3>1, <3>2, <3>3
  <2>3. QED
    BY <1>1, <1>3, <2>2, DecodeKeepsDest
<1>4. CASE ~(r.status = "Ok" /\ round[a] < MaxRounds /\ Decode(a, r.tx))
  <2>1. \E e \in Errors : Fail(a, e) /\ UNCHANGED desc
    BY <1>4 DEF SimulateRound, Errors
  <2>2. QED
    BY <1>1, <2>1, LeaveLoopKeepsDest DEF Fail
<1>5. QED
  BY <1>3, <1>4


\* The funding, execution and cancellation steps move an attempt between
\* phases outside the loop and keep its descriptor.
LEMMA OtherStepsKeepDest ==
    ASSUME IInv, DestInv, NEW a \in Attempts,
           \/ RejectFunding(a) \/ AcquirePayer(a) \/ ReadBalance(a)
           \/ TopUp(a) \/ Execute(a) \/ Cancel(a) \/ ExecuteAnswerLost(a)
    PROVE  DestInv'
<1>1. TypeOK
  BY DEF IInv
<1>2. UNCHANGED <<dest, target, desc>>
  BY DEF RejectFunding, AcquirePayer, ReadBalance, TopUp, Execute, Cancel,
         ExecuteAnswerLost, gwVars
<1>3. \E x \in {"Failed", "CheckBalance", "TopUp", "Funded", "Executed"} :
        phase' = [phase EXCEPT ![a] = x]
  BY DEF RejectFunding, AcquirePayer, ReadBalance, TopUp, Execute, Cancel,
         ExecuteAnswerLost, Fail
<1>4. QED
  BY <1>1, <1>2, <1>3, LeaveLoopKeepsDest

\* No attempt has decoded anything initially.
THEOREM InitDestInv == Init => DestInv
BY DEF Init, DestInv

\* DestInv is preserved by every step, given IInv.
THEOREM NextDestInv == IInv /\ DestInv /\ [Next]_vars => DestInv'
<1> SUFFICES ASSUME IInv, DestInv, [Next]_vars PROVE DestInv'
  OBVIOUS
<1>1. ASSUME NEW a \in Attempts, RelayerStep(a) \/ Cancel(a) \/ ExecuteAnswerLost(a)
      PROVE  DestInv'
  BY <1>1, FetchKeepsDest, SimulateRoundKeepsDest, OtherStepsKeepDest
     DEF RelayerStep
<1>2. CASE Environment \/ UNCHANGED vars
  BY <1>2 DEF Environment, InitTransactionPda, vars, relVars, DestInv
<1>3. QED
  BY <1>1, <1>2 DEF Next

\* Whatever attempts, cancellations and gateway steps interleave, an
\* attempt in the discovery loop holds a descriptor of the chain its
\* message's destination program publishes and returns
\* (program.ts getAccountInfo + decode, then simulate and decode the
\* return data): the ITS chain built for its own message, or the looping
\* program's.
THEOREM DestInvariant == Spec => [](IInv /\ DestInv)
<1>1. Init => IInv /\ DestInv
  BY InitIInv, InitDestInv
<1>2. IInv /\ DestInv /\ [Next]_vars => (IInv /\ DestInv)'
  BY NextIInv, NextDestInv
<1>3. QED
  BY <1>1, <1>2, PTL DEF Spec

=============================================================================
