---------------------------- MODULE RelayerProofs ----------------------------
(***************************************************************************)
(* Proofs about the relayer-discovery model: type correctness and that a  *)
(* message is executed by at most one relay attempt, for every value of   *)
(* the constants.  Both rest on IInv (module Relayer), which pins down    *)
(* which descriptors an attempt can hold.                                  *)
(***************************************************************************)
EXTENDS Relayer, TLAPS, FiniteSetTheorems

USE MessagesAssumption, TransferCostAssumption, Bt2PayloadSlotAssumption,
    AttemptsAssumption, MaxRoundsAssumption, GasBudgetAssumption,
    PayerStartAssumption, LockSpanAssumption

-----------------------------------------------------------------------------
(***************************************************************************)
(* Lemmas about the descriptors the programs publish and return.           *)
(***************************************************************************)

\* A tuple of elements of S is a finite sequence over S.
LEMMA OneInSeq == ASSUME NEW S, NEW x \in S PROVE <<x>> \in Seq(S)
BY SMT

LEMMA PairInSeq ==
    ASSUME NEW S, NEW x \in S, NEW y \in S PROVE <<x, y>> \in Seq(S)
BY SMT

LEMMA TupleInSeq ==
    ASSUME NEW S, NEW n \in Nat, NEW s \in [1..n -> S] PROVE s \in Seq(S)
BY SMT

LEMMA Tuple16InSeq ==
    ASSUME NEW S, NEW x1 \in S, NEW x2 \in S, NEW x3 \in S, NEW x4 \in S,
           NEW x5 \in S, NEW x6 \in S, NEW x7 \in S, NEW x8 \in S,
           NEW x9 \in S, NEW x10 \in S, NEW x11 \in S, NEW x12 \in S,
           NEW x13 \in S, NEW x14 \in S, NEW x15 \in S, NEW x16 \in S
    PROVE  <<x1, x2, x3, x4, x5, x6, x7, x8,
             x9, x10, x11, x12, x13, x14, x15, x16>> \in Seq(S)
BY SMT

\* Every message id and "global" own addresses.
LEMMA OwnersOfMessages == \A m \in Messages : m \in Owners
BY DEF Owners

\* The ITS and LOOPER descriptors are RelayerTransactions.
LEMMA FixedDescriptorsTyped ==
    /\ StoredDescriptor \in Descriptors
    /\ LoopDescriptor \in Descriptors
BY DEF StoredDescriptor, LoopDescriptor, Descriptors, Instructions,
       AccountRefs, DataRefs, MessagePayloadRef, BytesRef, Selectors,
       ITS, LOOPER, Programs

\* build_transaction_1 returns a RelayerTransaction.
LEMMA Bt1DescriptorTyped ==
    ASSUME NEW m \in Messages
    PROVE  Bt1Descriptor(m) \in Descriptors
<1>1. <<"token_manager", m>> \in Addresses
  BY DEF Addresses, AddressNames, Owners
<1>2. Fixed(<<"token_manager", m>>, TRUE) \in AccountRefs
  BY <1>1 DEF Fixed, AccountRefs
<1>3. MessagePayloadRef \in AccountRefs
  BY DEF MessagePayloadRef, AccountRefs
<1>4. <<BytesRef("BUILD_TRANSACTION_2"), MessageRef>> \in Seq(DataRefs)
  <2>1. {BytesRef("BUILD_TRANSACTION_2"), MessageRef} \subseteq DataRefs
    BY DEF BytesRef, MessageRef, DataRefs, Selectors
  <2>2. QED
    BY <2>1, PairInSeq
<1>5. <<MessagePayloadRef, Fixed(<<"token_manager", m>>, TRUE)>> \in Seq(AccountRefs)
  BY <1>2, <1>3, PairInSeq
<1>6. Bt1Descriptor(m).instructions[1] \in Instructions
  BY <1>4, <1>5 DEF Bt1Descriptor, Instructions, ITS, Programs
<1>7. QED
  BY <1>6 DEF Bt1Descriptor, Descriptors

\* build_transaction_2 returns a RelayerTransaction.
LEMMA FinalDescriptorTyped ==
    ASSUME NEW msg \in Messages, NEW m \in Messages
    PROVE  FinalDescriptor(msg, m) \in Descriptors
<1>1. \A n \in AddressNames, o \in Owners, w \in BOOLEAN :
          Fixed(<<n, o>>, w) \in AccountRefs
  BY DEF Fixed, AccountRefs, Addresses
<1>2. {msg, m, "global"} \subseteq Owners
  BY DEF Owners
<1>3. PayerRef(TransferCost) \in AccountRefs
  BY DEF PayerRef, AccountRefs
<1>4. {IncomingMessageRef, MessagePayloadRef} \subseteq AccountRefs
  BY DEF IncomingMessageRef, MessagePayloadRef, AccountRefs
<1>5. TransferAccounts(msg, m) \in Seq(AccountRefs)
  <2>1. /\ "signing_pda" \in AddressNames /\ "gateway_root" \in AddressNames
        /\ "gateway_program" \in AddressNames /\ "system_program" \in AddressNames
        /\ "its_root" \in AddressNames /\ "token_manager" \in AddressNames
        /\ "token_manager_ata" \in AddressNames /\ "token_mint" \in AddressNames
        /\ "token_2022" \in AddressNames /\ "ata_program" \in AddressNames
        /\ "rent" \in AddressNames /\ "destination" \in AddressNames
        /\ "destination_ata" \in AddressNames
    BY DEF AddressNames
  <2>2. QED
    BY <1>1, <1>2, <1>3, <1>4, <2>1, Tuple16InSeq DEF TransferAccounts
<1>6. <<BytesRef("EXECUTE"), MessageRef>> \in Seq(DataRefs)
  <2>1. {BytesRef("EXECUTE"), MessageRef} \subseteq DataRefs
    BY DEF BytesRef, MessageRef, DataRefs, Selectors
  <2>2. QED
    BY <2>1, PairInSeq
<1>7. FinalDescriptor(msg, m).instructions[1] \in Instructions
  BY <1>5, <1>6 DEF FinalDescriptor, Instructions, ITS, Programs
<1>8. QED
  BY <1>7 DEF FinalDescriptor, Descriptors

\* The final ITS instruction asks the payer for exactly
\* INTERCHAIN_TRANSFER_COST lamports: its only Payer reference is the first
\* account of its only instruction.
LEMMA RequestedFinal ==
    ASSUME NEW msg \in Messages, NEW m \in Messages
    PROVE  Requested(FinalDescriptor(msg, m)) = TransferCost
<1> DEFINE d == FinalDescriptor(msg, m)
           ta == TransferAccounts(msg, m)
<1>1. /\ DOMAIN d.instructions = {1}
      /\ d.instructions[1].accounts = ta
  BY DEF FinalDescriptor
<1>2. /\ DOMAIN ta = 1..16
      /\ ta[1] = PayerRef(TransferCost)
      /\ \A k \in 2..16 : ta[k].kind # "Payer"
  <2>1. DOMAIN ta = 1..16 /\ ta[1] = PayerRef(TransferCost)
    BY DEF TransferAccounts
  <2>2. ASSUME NEW k \in 2..16 PROVE ta[k].kind # "Payer"
    <3>1. k \in {2, 3} \/ k \in 4..16
      OBVIOUS
    <3>2. CASE k \in {2, 3}
      BY <3>2 DEF TransferAccounts, IncomingMessageRef, MessagePayloadRef
    <3>3. CASE k \in 4..16
      BY <3>3 DEF TransferAccounts, Fixed
    <3>4. QED
      BY <3>1, <3>2, <3>3
  <2>3. QED
    BY <2>1, <2>2
<1>3. PayerSlots(d) = {<<1, 1>>}
  BY <1>1, <1>2 DEF PayerSlots, PayerRef
<1>4. PayerUnits(d) = {<<1, 1>>} \X (1..TransferCost)
  BY <1>1, <1>2, <1>3 DEF PayerUnits, PayerRef
<1>5. IsFiniteSet({<<1, 1>>}) /\ Cardinality({<<1, 1>>}) = 1
  BY FS_Singleton
<1>6. IsFiniteSet(1..TransferCost) /\ Cardinality(1..TransferCost) = TransferCost
  <2>1. Cardinality(1..TransferCost) = IF 1 > TransferCost THEN 0 ELSE TransferCost - 1 + 1
    BY FS_Interval
  <2>2. QED
    BY <2>1, FS_Interval
<1>7. Cardinality({<<1, 1>>} \X (1..TransferCost)) = 1 * TransferCost
  BY <1>5, <1>6, FS_Product
<1>8. QED
  BY <1>4, <1>7 DEF Requested

LEMMA KnownDescriptorsTyped ==
    KnownDescriptors \subseteq Descriptors \cup {NoDescriptor}
BY FixedDescriptorsTyped, Bt1DescriptorTyped, FinalDescriptorTyped
   DEF KnownDescriptors

-----------------------------------------------------------------------------
(***************************************************************************)
(* Lemmas about simulation: what a handler can return, and the concrete   *)
(* instruction each known descriptor materializes to.                      *)
(***************************************************************************)

\* get_incoming_payload_from_account succeeds only on the payload PDA of a
\* message.
LEMMA PayloadAtOwner ==
    ASSUME NEW a, PayloadAt(a) # "Unreadable"
    PROVE  a[2] \in Messages
BY DEF PayloadAt, MessagePayloadPda

\* A handler that leaves return data returns the looping descriptor, the
\* build_transaction_1 result for some message, or a final descriptor for
\* the message serialized in the instruction data.
LEMMA HandlerOk ==
    ASSUME NEW cix, Handler(cix).status = "Ok"
    PROVE  \/ Handler(cix).tx = LoopDescriptor
           \/ /\ cix.program = ITS /\ cix.data[1] = "BUILD_TRANSACTION_1"
              /\ \E m \in Messages : Handler(cix).tx = Bt1Descriptor(m)
           \/ /\ cix.program = ITS /\ cix.data[1] = "BUILD_TRANSACTION_2"
              /\ \E m \in Messages :
                    Handler(cix).tx = FinalDescriptor(MessageOf(cix.data[2]), m)
<1>1. CASE cix.program = ITS /\ cix.data[1] = "BUILD_TRANSACTION_1"
  <2> DEFINE p == PayloadAt(cix.accounts[1].addr)
  <2>1. Handler(cix) = BuildTransaction1(cix.accounts)
    BY <1>1 DEF Handler, ITS, LOOPER
  <2>2. p # "Unreadable" /\ IsTransfer(p)
    <3>1. p # "Unreadable"
      <4>1. SUFFICES ASSUME p = "Unreadable" PROVE FALSE
        OBVIOUS
      <4>2. Handler(cix) = HandlerError
        BY <2>1, <4>1 DEF BuildTransaction1, IsTransfer
      <4>3. QED
        BY <4>2 DEF HandlerError
    <3>2. IsTransfer(p)
      <4>1. SUFFICES ASSUME ~IsTransfer(p) PROVE FALSE
        OBVIOUS
      <4>2. Handler(cix) \in {HandlerError, NoReturnData}
        BY <2>1, <4>1 DEF BuildTransaction1, IsTransfer
      <4>3. QED
        BY <4>2 DEF HandlerError, NoReturnData
    <3>3. QED
      BY <3>1, <3>2
  <2>3. cix.accounts[1].addr[2] \in Messages
    BY <2>2, PayloadAtOwner
  <2>4. Handler(cix).tx = Bt1Descriptor(cix.accounts[1].addr[2])
    BY <2>1, <2>2 DEF BuildTransaction1, Returned
  <2>5. QED
    BY <1>1, <2>3, <2>4
<1>2. CASE cix.program = ITS /\ cix.data[1] = "BUILD_TRANSACTION_2"
  <2> DEFINE a == cix.accounts[Bt2PayloadSlot + 1].addr
  <2>1. Handler(cix) = BuildTransaction2(cix.accounts, MessageOf(cix.data[2]))
    BY <1>2 DEF Handler, ITS, LOOPER
  <2>2. /\ PayloadAt(a) = "TransferNoData"
        /\ TokenManagerLoads(cix.accounts, MessageOf(cix.data[2]), a[2])
    BY <1>2, <2>1 DEF BuildTransaction2, HandlerError, NoReturnData
  <2>3. a[2] \in Messages
    BY <2>2, PayloadAtOwner
  <2>4. Handler(cix).tx = FinalDescriptor(MessageOf(cix.data[2]), a[2])
    BY <2>1, <2>2 DEF BuildTransaction2, Returned
  <2>5. QED
    BY <1>2, <2>3, <2>4
<1>3. CASE ~(cix.program = ITS /\ cix.data[1] = "BUILD_TRANSACTION_1")
           /\ ~(cix.program = ITS /\ cix.data[1] = "BUILD_TRANSACTION_2")
  BY <1>3 DEF Handler, Returned, HandlerError, ITS, LOOPER
<1>4. QED
  BY <1>1, <1>2, <1>3

\* A simulation with a single instruction that succeeds returns what that
\* instruction's handler returned.
LEMMA SimulateOne ==
    ASSUME NEW cixs, DOMAIN cixs = 1..1, Simulate(cixs).status = "Ok"
    PROVE  Simulate(cixs) = Handler(cixs[1])
<1>1. Len(cixs) = 1
  BY SMT
<1>2. QED
  BY <1>1 DEF Simulate, HandlerError

\* The concrete first instruction of each descriptor an attempt simulates.
LEMMA MaterializeLoopingDescriptors ==
    ASSUME NEW t \in Messages
    PROVE  /\ DOMAIN MaterializeAll(StoredDescriptor, t) = 1..1
           /\ MaterializeAll(StoredDescriptor, t)[1].program = ITS
           /\ MaterializeAll(StoredDescriptor, t)[1].data[1] = "BUILD_TRANSACTION_1"
           /\ DOMAIN MaterializeAll(LoopDescriptor, t) = 1..1
           /\ MaterializeAll(LoopDescriptor, t)[1].program = LOOPER
           /\ \A m \in Messages :
                 /\ DOMAIN MaterializeAll(Bt1Descriptor(m), t) = 1..1
                 /\ MessageOf(MaterializeAll(Bt1Descriptor(m), t)[1].data[2]) = t
<1>1. /\ DOMAIN MaterializeAll(StoredDescriptor, t) = 1..1
      /\ MaterializeAll(StoredDescriptor, t)[1].program = ITS
      /\ MaterializeAll(StoredDescriptor, t)[1].data[1] = "BUILD_TRANSACTION_1"
  BY DEF MaterializeAll, Materialize, StoredDescriptor, DataBytes, BytesRef
<1>2. /\ DOMAIN MaterializeAll(LoopDescriptor, t) = 1..1
      /\ MaterializeAll(LoopDescriptor, t)[1].program = LOOPER
  BY DEF MaterializeAll, Materialize, LoopDescriptor
<1>3. ASSUME NEW m \in Messages
      PROVE  /\ DOMAIN MaterializeAll(Bt1Descriptor(m), t) = 1..1
             /\ MessageOf(MaterializeAll(Bt1Descriptor(m), t)[1].data[2]) = t
  <2> DEFINE ix == Bt1Descriptor(m).instructions[1]
  <2>1. DOMAIN Bt1Descriptor(m).instructions = 1..1
    BY DEF Bt1Descriptor
  <2>2. ix.data = <<BytesRef("BUILD_TRANSACTION_2"), MessageRef>>
    BY DEF Bt1Descriptor
  <2>3. Materialize(ix, t).data[2] = MessageBytes(t)
    BY <2>2 DEF Materialize, DataBytes, MessageRef
  <2>4. QED
    BY <2>1, <2>3 DEF MaterializeAll, MessageBytes, MessageOf
<1>4. QED
  BY <1>1, <1>2, <1>3

\* A successful simulation of a non-final descriptor that an attempt can
\* hold returns the looping descriptor, a build_transaction_1 result, or a
\* final descriptor built for the message being relayed.
LEMMA SimulateKnown ==
    ASSUME NEW t \in Messages,
           NEW d \in {StoredDescriptor, LoopDescriptor}
                     \cup {Bt1Descriptor(m) : m \in Messages},
           Simulate(MaterializeAll(d, t)).status = "Ok"
    PROVE  \/ Simulate(MaterializeAll(d, t)).tx
                 \in {LoopDescriptor} \cup {Bt1Descriptor(m) : m \in Messages}
           \/ \E m \in Messages :
                 Simulate(MaterializeAll(d, t)).tx = FinalDescriptor(t, m)
<1> DEFINE c == MaterializeAll(d, t)
<1>1. DOMAIN c = 1..1
  BY MaterializeLoopingDescriptors
<1>2. Simulate(c) = Handler(c[1])
  BY <1>1, SimulateOne
<1>3. Handler(c[1]).status = "Ok"
  BY <1>2
<1>4. CASE Handler(c[1]).tx = LoopDescriptor
  BY <1>2, <1>4
<1>5. CASE \E m \in Messages : Handler(c[1]).tx = Bt1Descriptor(m)
  BY <1>2, <1>5
<1>6. CASE /\ c[1].program = ITS /\ c[1].data[1] = "BUILD_TRANSACTION_2"
           /\ \E m \in Messages :
                 Handler(c[1]).tx = FinalDescriptor(MessageOf(c[1].data[2]), m)
  <2>1. d \notin {StoredDescriptor, LoopDescriptor}
    BY <1>6, MaterializeLoopingDescriptors DEF ITS, LOOPER
  <2>2. MessageOf(c[1].data[2]) = t
    BY <2>1, MaterializeLoopingDescriptors
  <2>3. QED
    BY <1>2, <1>6, <2>2
<1>7. QED
  BY <1>3, <1>4, <1>5, <1>6, HandlerOk

\* The final ITS instruction validates, through the gateway, the message the
\* attempt relays: its EXECUTE succeeds only while that message is approved.
LEMMA ExecuteValidatesTarget ==
    ASSUME NEW t \in Messages, NEW m \in Messages,
           \A i \in DOMAIN MaterializeAll(FinalDescriptor(t, m), t) :
               ExecuteSucceeds(MaterializeAll(FinalDescriptor(t, m), t)[i])
    PROVE  CanValidateMessage(t)
<1> DEFINE ix == FinalDescriptor(t, m).instructions[1]
<1>1. 1 \in DOMAIN MaterializeAll(FinalDescriptor(t, m), t)
  BY DEF MaterializeAll, FinalDescriptor
<1>2. ix.data = <<BytesRef("EXECUTE"), MessageRef>>
  BY DEF FinalDescriptor
<1>3. MessageOf(Materialize(ix, t).data[2]) = t
  BY <1>2 DEF Materialize, DataBytes, MessageRef, MessageBytes, MessageOf
<1>4. QED
  BY <1>1, <1>3 DEF MaterializeAll, ExecuteSucceeds

-----------------------------------------------------------------------------
(***************************************************************************)
(* IInv is an inductive invariant of the relayer.                          *)
(***************************************************************************)

\* The initial states satisfy IInv.
THEOREM InitIInv == Init => IInv
<1> SUFFICES ASSUME Init PROVE IInv
  OBVIOUS
<1>1. TypeOK
  <2>1. GatewayTypeOK
    BY DEF Init, GatewayInit, GatewayTypeOK, IncomingStatus, PayloadStatus
  <2>2. round \in [Attempts -> 0..MaxRounds] /\ seen \in [Attempts -> Nat]
    BY DEF Init
  <2>3. phase \in [Attempts -> Phases] /\ err \in [Attempts -> Errors]
    BY DEF Init, Phases, Errors
  <2>4. desc \in [Attempts -> Descriptors \cup {NoDescriptor}]
    BY DEF Init
  <2>5. QED
    BY <2>1, <2>2, <2>3, <2>4 DEF Init, TypeOK
<1>2. DescriptorInv
  BY DEF Init, DescriptorInv, KnownDescriptors, FundingPhases
<1>3. ExecutedInv /\ StartInv /\ AtMostOnceExecution
  BY DEF Init, ExecutedInv, StartInv, AtMostOnceExecution
<1>4. QED
  BY <1>1, <1>2, <1>3 DEF IInv

\* An attempt that stops with an error keeps IInv: it leaves the ledger,
\* the payer balance and its descriptor alone.
LEMMA FailKeepsIInv ==
    ASSUME IInv, NEW a \in Attempts, NEW e \in Errors, Fail(a, e),
           UNCHANGED <<gwVars, dest, itsPdaSet, target, desc, round, seen, payerBal>>
    PROVE  IInv'
<1>1. TypeOK'
  BY DEF IInv, TypeOK, GatewayTypeOK, gwVars, Fail, Phases
<1>2. DescriptorInv'
  BY DEF IInv, TypeOK, DescriptorInv, Fail, FundingPhases
<1>3. (ExecutedInv /\ StartInv /\ AtMostOnceExecution)'
  BY DEF IInv, TypeOK, ExecutedInv, StartInv, AtMostOnceExecution, Fail, gwVars
<1>4. QED
  BY <1>1, <1>2, <1>3 DEF IInv

\* Fetching the transaction PDA decodes the stored, non-final descriptor
\* of the ITS or of the looping program, or fails with AccountNotFound.
LEMMA FetchKeepsIInv ==
    ASSUME IInv, NEW a \in Attempts, Fetch(a)
    PROVE  IInv'
<1> DEFINE p == dest[target[a]]
           d == TransactionPdaBytes(p)
<1>1. CASE HasTransactionPda(p, itsPdaSet)
  <2>1. /\ Decode(a, d) /\ UNCHANGED <<err, lock>>
        /\ UNCHANGED <<gwVars, dest, itsPdaSet, target, seen, payerBal>>
        /\ phase[a] = "Start"
    BY <1>1 DEF Fetch
  <2>2. d \in {StoredDescriptor, LoopDescriptor} /\ d.is_final = FALSE
    BY DEF TransactionPdaBytes, StoredDescriptor, LoopDescriptor
  <2>3. d \in Descriptors
    BY <2>2, FixedDescriptorsTyped
  <2>4. round[a] = 0
    BY <2>1 DEF IInv, StartInv
  <2>5. /\ desc' = [desc EXCEPT ![a] = d]
        /\ round' = [round EXCEPT ![a] = 1]
        /\ phase' = [phase EXCEPT ![a] = "Decoded"]
    <3>1. desc' = [desc EXCEPT ![a] = d]
      BY <2>1 DEF Decode
    <3>2. round' = [round EXCEPT ![a] = 1]
      BY <2>1, <2>4 DEF Decode
    <3>3. phase' = [phase EXCEPT ![a] = "Decoded"]
      BY <2>1, <2>2 DEF Decode
    <3>4. QED
      BY <3>1, <3>2, <3>3
  <2>6. TypeOK'
    BY <2>1, <2>3, <2>5 DEF IInv, TypeOK, GatewayTypeOK, gwVars, Phases
  <2>7. DescriptorInv'
    BY <2>1, <2>2, <2>5 DEF IInv, TypeOK, DescriptorInv, KnownDescriptors,
                            FundingPhases
  <2>8. (ExecutedInv /\ StartInv /\ AtMostOnceExecution)'
    BY <2>1, <2>5 DEF IInv, TypeOK, ExecutedInv, StartInv, AtMostOnceExecution,
                      gwVars
  <2>9. QED
    BY <2>6, <2>7, <2>8 DEF IInv
<1>2. CASE ~HasTransactionPda(p, itsPdaSet)
  <2>1. /\ Fail(a, "AccountNotFound")
        /\ UNCHANGED <<gwVars, dest, itsPdaSet, target, desc, round, seen, payerBal>>
    BY <1>2 DEF Fetch
  <2>2. QED
    BY <2>1, FailKeepsIInv DEF Errors
<1>3. QED
  BY <1>1, <1>2

\* A simulation round either fails, or decodes a descriptor a handler
\* returned: a non-final one to loop on, or the final descriptor for the
\* attempt's own message.
LEMMA SimulateRoundKeepsIInv ==
    ASSUME IInv, NEW a \in Attempts, SimulateRound(a)
    PROVE  IInv'
<1> DEFINE r == Simulate(MaterializeAll(desc[a], target[a]))
           Looping == {StoredDescriptor, LoopDescriptor}
                      \cup {Bt1Descriptor(m) : m \in Messages}
<1>1. phase[a] = "Decoded" /\ UNCHANGED <<gwVars, dest, itsPdaSet, target, seen, payerBal>>
  BY DEF SimulateRound
<1>2. CASE /\ r.status = "Ok" /\ round[a] < MaxRounds
           /\ Decode(a, r.tx) /\ UNCHANGED <<err, lock>>
  <2>1. desc[a] \in Looping /\ target[a] \in Messages
    BY <1>1 DEF IInv, DescriptorInv, TypeOK
  <2>2. \/ r.tx = LoopDescriptor
        \/ \E m \in Messages : r.tx = Bt1Descriptor(m)
        \/ \E m \in Messages : r.tx = FinalDescriptor(target[a], m)
    <3>1. \/ r.tx \in {LoopDescriptor} \cup {Bt1Descriptor(m) : m \in Messages}
          \/ \E m \in Messages : r.tx = FinalDescriptor(target[a], m)
      BY <1>2, <2>1, SimulateKnown
    <3>2. QED
      BY <3>1, Zenon
  <2>3. r.tx \in KnownDescriptors
    BY <2>1, <2>2 DEF KnownDescriptors
  <2>4. r.tx \in Descriptors
    BY <2>2, <2>1, FixedDescriptorsTyped, Bt1DescriptorTyped, FinalDescriptorTyped
  <2>5. /\ desc' = [desc EXCEPT ![a] = r.tx]
        /\ round' = [round EXCEPT ![a] = round[a] + 1]
        /\ phase' = [phase EXCEPT ![a] = IF r.tx.is_final THEN "Final" ELSE "Decoded"]
    BY <1>2 DEF Decode
  <2>6. round[a] + 1 \in 0..MaxRounds
    BY <1>2 DEF IInv, TypeOK
  <2>7. TypeOK'
    BY <1>1, <1>2, <2>4, <2>5, <2>6 DEF IInv, TypeOK, GatewayTypeOK, gwVars, Phases
  <2>8. DescriptorInv'
    <3>1. CASE r.tx = LoopDescriptor \/ \E m \in Messages : r.tx = Bt1Descriptor(m)
      <4>1. r.tx.is_final = FALSE
        <5>1. CASE r.tx = LoopDescriptor
          BY <5>1 DEF LoopDescriptor
        <5>2. CASE \E m \in Messages : r.tx = Bt1Descriptor(m)
          <6>1. PICK m \in Messages : r.tx = Bt1Descriptor(m)
            BY <5>2
          <6>2. QED
            BY <6>1 DEF Bt1Descriptor
        <5>3. QED
          BY <3>1, <5>1, <5>2
      <4>2. QED
        BY <1>1, <1>2, <2>3, <2>5, <3>1, <4>1
           DEF IInv, TypeOK, DescriptorInv, FundingPhases
    <3>2. CASE \E m \in Messages : r.tx = FinalDescriptor(target[a], m)
      <4>1. r.tx.is_final = TRUE
        BY <3>2 DEF FinalDescriptor
      <4>2. QED
        BY <1>1, <1>2, <2>3, <2>5, <3>2, <4>1
           DEF IInv, TypeOK, DescriptorInv, FundingPhases
    <3>3. QED
      BY <2>2, <3>1, <3>2
  <2>9. (ExecutedInv /\ StartInv /\ AtMostOnceExecution)'
    BY <1>1, <1>2, <2>5 DEF IInv, TypeOK, ExecutedInv, StartInv,
                            AtMostOnceExecution, gwVars
  <2>10. QED
    BY <2>7, <2>8, <2>9 DEF IInv
<1>3. CASE ~(/\ r.status = "Ok" /\ round[a] < MaxRounds
             /\ Decode(a, r.tx) /\ UNCHANGED <<err, lock>>)
  <2>1. \E e \in Errors : Fail(a, e) /\ UNCHANGED <<desc, round>>
    BY <1>3 DEF SimulateRound, Errors
  <2>2. QED
    BY <1>1, <2>1, FailKeepsIInv
<1>4. QED
  BY <1>2, <1>3

\* An attempt in a funding phase requests INTERCHAIN_TRANSFER_COST lamports.
LEMMA RequestedInFunding ==
    ASSUME IInv, NEW a \in Attempts, phase[a] \in FundingPhases
    PROVE  Requested(desc[a]) = TransferCost
<1>1. PICK m \in Messages : desc[a] = FinalDescriptor(target[a], m)
  BY DEF IInv, DescriptorInv
<1>2. target[a] \in Messages
  BY DEF IInv, TypeOK
<1>3. QED
  BY <1>1, <1>2, RequestedFinal

\* The steps that move an attempt forward through the funding phases,
\* rejecting the request, taking the payer, reading and topping up its
\* balance, keep IInv.
LEMMA FundingKeepsIInv ==
    ASSUME IInv, NEW a \in Attempts,
           RejectFunding(a) \/ AcquirePayer(a) \/ ReadBalance(a) \/ TopUp(a)
    PROVE  IInv'
<1>1. CASE RejectFunding(a)
  BY <1>1, FailKeepsIInv DEF RejectFunding, Errors
<1>2. CASE AcquirePayer(a)
  <2>1. TypeOK'
    BY <1>2 DEF AcquirePayer, IInv, TypeOK, GatewayTypeOK, gwVars, Phases
  <2>2. DescriptorInv'
    BY <1>2 DEF AcquirePayer, IInv, TypeOK, DescriptorInv, FundingPhases
  <2>3. (ExecutedInv /\ StartInv /\ AtMostOnceExecution)'
    BY <1>2 DEF AcquirePayer, IInv, TypeOK, ExecutedInv, StartInv,
                AtMostOnceExecution, gwVars
  <2>4. QED
    BY <2>1, <2>2, <2>3 DEF IInv
<1>3. CASE ReadBalance(a)
  <2>1. TypeOK'
    BY <1>3 DEF ReadBalance, IInv, TypeOK, GatewayTypeOK, gwVars, Phases
  <2>2. DescriptorInv'
    BY <1>3 DEF ReadBalance, IInv, TypeOK, DescriptorInv, FundingPhases
  <2>3. (ExecutedInv /\ StartInv /\ AtMostOnceExecution)'
    BY <1>3 DEF ReadBalance, IInv, TypeOK, ExecutedInv, StartInv,
                AtMostOnceExecution, gwVars
  <2>4. QED
    BY <2>1, <2>2, <2>3 DEF IInv
<1>4. CASE TopUp(a)
  <2>1. Requested(desc[a]) = TransferCost
    BY <1>4, RequestedInFunding DEF TopUp, FundingPhases
  <2>2. Shortfall(a) \in Nat
    BY <2>1 DEF Shortfall, IInv, TypeOK
  <2>3. TypeOK'
    BY <1>4, <2>2 DEF TopUp, IInv, TypeOK, GatewayTypeOK, gwVars, Phases,
                      NoAttempt
  <2>4. DescriptorInv'
    BY <1>4 DEF TopUp, IInv, TypeOK, DescriptorInv, FundingPhases
  <2>5. (ExecutedInv /\ StartInv /\ AtMostOnceExecution)'
    BY <1>4 DEF TopUp, IInv, TypeOK, ExecutedInv, StartInv,
                AtMostOnceExecution, gwVars
  <2>6. QED
    BY <2>3, <2>4, <2>5 DEF IInv
<1>5. QED
  BY <1>1, <1>2, <1>3, <1>4

\* A final transaction that lands consumes the approval of the attempt's
\* own message, which no executed attempt can have consumed before, and
\* leaves the payer a natural.
LEMMA LandFacts ==
    ASSUME IInv, NEW a \in Attempts, phase[a] = "Funded", ExecutionSucceeds(a),
           Land(a)
    PROVE  /\ incoming' = [incoming EXCEPT ![target[a]] = "Executed"]
           /\ incoming[target[a]] = "Approved"
           /\ payerBal' \in Nat
           /\ \A b \in Attempts : phase[b] = "Executed" => target[b] # target[a]
<1> DEFINE t == target[a]
<1>1. t \in Messages
  BY DEF IInv, TypeOK
<1>2. PICK m \in Messages : desc[a] = FinalDescriptor(t, m)
  BY DEF IInv, DescriptorInv, FundingPhases
<1>3. incoming[t] = "Approved"
  <2>1. \A i \in DOMAIN MaterializeAll(FinalDescriptor(t, m), t) :
            ExecuteSucceeds(MaterializeAll(FinalDescriptor(t, m), t)[i])
    BY <1>2 DEF ExecutionSucceeds
  <2>2. QED
    BY <1>1, <2>1, ExecuteValidatesTarget DEF CanValidateMessage
<1>4. payerBal' \in Nat
  <2>1. Requested(desc[a]) = TransferCost
    BY RequestedInFunding DEF FundingPhases
  <2>2. QED
    BY <2>1 DEF Land, ExecutionSucceeds, IInv, TypeOK
<1>5. \A b \in Attempts : phase[b] = "Executed" => target[b] # t
  BY <1>3 DEF IInv, ExecutedInv
<1>6. QED
  BY <1>3, <1>4, <1>5 DEF Land, ValidateMessage

\* A successful execution consumes the approval of its own message; a
\* failed one changes nothing on the ledger.
LEMMA ExecuteKeepsIInv ==
    ASSUME IInv, NEW a \in Attempts, Execute(a)
    PROVE  IInv'
<1> DEFINE t == target[a]
<1>1. phase[a] = "Funded" /\ t \in Messages
  BY DEF Execute, IInv, TypeOK
<1>2. CASE ExecutionSucceeds(a)
  <2>1. /\ Land(a)
        /\ phase' = [phase EXCEPT ![a] = "Executed"]
        /\ lock' = IF lock = a THEN NoAttempt ELSE lock
        /\ UNCHANGED <<err, payload, written, content, dest, itsPdaSet,
                       target, desc, round, seen>>
    BY <1>2 DEF Execute
  <2>2. /\ incoming' = [incoming EXCEPT ![t] = "Executed"]
        /\ payerBal' \in Nat
        /\ \A b \in Attempts : phase[b] = "Executed" => target[b] # t
    BY <1>1, <1>2, <2>1, LandFacts
  <2>6. TypeOK'
    BY <1>1, <2>1, <2>2 DEF IInv, TypeOK, GatewayTypeOK, IncomingStatus,
                            Phases, NoAttempt
  <2>7. DescriptorInv'
    BY <2>1 DEF IInv, TypeOK, DescriptorInv, FundingPhases
  <2>8. ExecutedInv'
    BY <1>1, <2>1, <2>2 DEF IInv, TypeOK, GatewayTypeOK, ExecutedInv
  <2>9. StartInv'
    BY <2>1 DEF IInv, TypeOK, StartInv
  <2>10. AtMostOnceExecution'
    BY <1>1, <2>1, <2>2 DEF IInv, TypeOK, GatewayTypeOK, ExecutedInv, AtMostOnceExecution
  <2>11. QED
    BY <2>6, <2>7, <2>8, <2>9, <2>10 DEF IInv
<1>3. CASE ~ExecutionSucceeds(a)
  <2>1. /\ Fail(a, "ExecutionFailure")
        /\ UNCHANGED <<gwVars, dest, itsPdaSet, target, desc, round, seen, payerBal>>
    BY <1>3 DEF Execute, gwVars
  <2>2. QED
    BY <2>1, FailKeepsIInv DEF Errors
<1>4. QED
  BY <1>2, <1>3

\* A landed transaction whose answer is lost consumes the approval like a
\* success, and the attempt fails: no executed attempt is added.
LEMMA AnswerLostKeepsIInv ==
    ASSUME IInv, NEW a \in Attempts, ExecuteAnswerLost(a)
    PROVE  IInv'
<1> DEFINE t == target[a]
<1>1. /\ phase[a] = "Funded" /\ t \in Messages
      /\ ExecutionSucceeds(a) /\ Land(a)
      /\ phase' = [phase EXCEPT ![a] = "Failed"]
      /\ err' = [err EXCEPT ![a] = "Cancelled"]
      /\ lock' = IF lock = a THEN NoAttempt ELSE lock
      /\ UNCHANGED <<payload, written, content, dest, itsPdaSet, target, desc, round, seen>>
  BY DEF ExecuteAnswerLost, Fail, IInv, TypeOK
<1>2. /\ incoming' = [incoming EXCEPT ![t] = "Executed"]
      /\ payerBal' \in Nat
  BY <1>1, LandFacts
<1>3. TypeOK'
  BY <1>1, <1>2 DEF IInv, TypeOK, GatewayTypeOK, IncomingStatus, Phases,
                    Errors, NoAttempt
<1>4. DescriptorInv'
  BY <1>1 DEF IInv, TypeOK, DescriptorInv, FundingPhases
<1>5. ExecutedInv'
  BY <1>1, <1>2 DEF IInv, TypeOK, GatewayTypeOK, ExecutedInv
<1>6. StartInv'
  BY <1>1 DEF IInv, TypeOK, StartInv
<1>7. AtMostOnceExecution'
  BY <1>1, <1>2 DEF IInv, TypeOK, GatewayTypeOK, ExecutedInv, AtMostOnceExecution
<1>8. QED
  BY <1>3, <1>4, <1>5, <1>6, <1>7 DEF IInv

\* Cancellation at a suspension point is a failure.
LEMMA CancelKeepsIInv ==
    ASSUME IInv, NEW a \in Attempts, Cancel(a)
    PROVE  IInv'
BY FailKeepsIInv DEF Cancel, Errors

\* The gateway's own instructions and the ITS setup leave the relay
\* attempts alone; no gateway instruction resets an executed message.
LEMMA EnvironmentKeepsIInv ==
    ASSUME IInv, Environment
    PROVE  IInv'
<1>1. CASE GatewayNext /\ UNCHANGED relVars
  <2>1. PICK m \in Messages :
           \/ ApproveMessage(m)
           \/ InitializeMessagePayload(m)
           \/ WriteMessagePayload(m)
           \/ CommitMessagePayload(m)
           \/ CloseMessagePayload(m)
    BY <1>1 DEF GatewayNext
  <2>2. GatewayTypeOK'
    BY <2>1 DEF IInv, TypeOK, GatewayTypeOK, ApproveMessage,
                InitializeMessagePayload, WriteMessagePayload,
                CommitMessagePayload, CloseMessagePayload, IncomingStatus,
                PayloadStatus
  <2>3. \A x \in Messages : incoming[x] = "Executed" => incoming'[x] = "Executed"
    BY <2>1 DEF IInv, TypeOK, GatewayTypeOK, ApproveMessage, InitializeMessagePayload,
                WriteMessagePayload, CommitMessagePayload, CloseMessagePayload
  <2>4. QED
    BY <1>1, <2>2, <2>3 DEF IInv, TypeOK, DescriptorInv, ExecutedInv, StartInv,
                            AtMostOnceExecution, relVars, FundingPhases
<1>2. CASE InitTransactionPda
  BY <1>2 DEF InitTransactionPda, IInv, TypeOK, GatewayTypeOK, gwVars,
              DescriptorInv, ExecutedInv, StartInv, AtMostOnceExecution
<1>3. QED
  BY <1>1, <1>2 DEF Environment

\* Every step of the relayer, its environment, or a stutter keeps IInv.
THEOREM NextIInv == IInv /\ [Next]_vars => IInv'
<1> SUFFICES ASSUME IInv, [Next]_vars PROVE IInv'
  OBVIOUS
<1>1. ASSUME NEW a \in Attempts, RelayerStep(a) PROVE IInv'
  <2>1. CASE Fetch(a)
    BY <2>1, FetchKeepsIInv
  <2>2. CASE SimulateRound(a)
    BY <2>2, SimulateRoundKeepsIInv
  <2>3. CASE RejectFunding(a) \/ AcquirePayer(a) \/ ReadBalance(a) \/ TopUp(a)
    BY <2>3, FundingKeepsIInv
  <2>4. CASE Execute(a)
    BY <2>4, ExecuteKeepsIInv
  <2>5. QED
    BY <1>1, <2>1, <2>2, <2>3, <2>4 DEF RelayerStep
<1>2. ASSUME NEW a \in Attempts, Cancel(a) \/ ExecuteAnswerLost(a) PROVE IInv'
  BY <1>2, CancelKeepsIInv, AnswerLostKeepsIInv
<1>3. CASE Environment
  BY <1>3, EnvironmentKeepsIInv
<1>4. CASE UNCHANGED vars
  BY <1>4 DEF vars, gwVars, relVars, IInv, TypeOK, GatewayTypeOK,
              DescriptorInv, ExecutedInv, StartInv, AtMostOnceExecution
<1>5. QED
  BY <1>1, <1>2, <1>3, <1>4 DEF Next

\* IInv holds in every reachable state.
THEOREM IInvInvariant == Spec => []IInv
BY InitIInv, NextIInv, PTL DEF Spec

\* The relayer's variables always have their types: a decoded descriptor is
\* a RelayerTransaction, the round counter stays within MaxRounds, and the
\* payer balance never goes negative whatever attempts interleave.
THEOREM TypeCorrect == Spec => []TypeOK
BY IInvInvariant, PTL DEF IInv

\* A message is executed by at most one relay attempt, and every attempt
\* reporting success has consumed its message's approval at the gateway
\* (validateMessage in the final ITS instruction), for any number of
\* attempts and messages.
THEOREM AtMostOnce == Spec => []AtMostOnceExecution
BY IInvInvariant, PTL DEF IInv

-----------------------------------------------------------------------------
(***************************************************************************)
(* The shared payer, with the lock held from the balance check to the end *)
(* of execution (LockSpan = "execute").                                    *)
(***************************************************************************)

\* An attempt between the balance check and execution holds the lock, so
\* at most one attempt is there.
LEMMA HolderUnique ==
    ASSUME LockInv, NEW a \in Attempts, NEW b \in Attempts,
           phase[a] \in HoldingPhases, phase[b] \in HoldingPhases
    PROVE  a = b
BY DEF LockInv

\* A step of attempt a outside the holding phases leaves the payer, the
\* balances read and the other attempts alone, and releases the lock only
\* if a held it; it keeps the payer conjuncts of PInv.
LEMMA OutsideHoldingKeepsPInv ==
    ASSUME PInv, NEW a \in Attempts,
           phase[a] \notin HoldingPhases, phase'[a] \notin HoldingPhases,
           phase' = [phase EXCEPT ![a] = phase'[a]],
           \A b \in Attempts \ {a} : desc'[b] = desc[b],
           UNCHANGED <<payerBal, seen>>,
           lock' = lock \/ (lock = a /\ lock' = NoAttempt)
    PROVE  (LockInv /\ SeenInv /\ PayerCoversRequest)'
<1>1. \A b \in Attempts : phase[b] \in HoldingPhases => b # a /\ lock' = lock
  BY DEF PInv, LockInv
<1>2. LockInv'
  BY <1>1 DEF PInv, LockInv, IInv, TypeOK, HoldingPhases
<1>3. SeenInv'
  BY DEF PInv, SeenInv, IInv, TypeOK, HoldingPhases
<1>4. PayerCoversRequest'
  BY DEF PInv, PayerCoversRequest, IInv, TypeOK, HoldingPhases
<1>5. QED
  BY <1>2, <1>3, <1>4

\* The relayer steps that never enter or leave the holding phases.
LEMMA LoopStepsKeepPInv ==
    ASSUME PInv, NEW a \in Attempts,
           Fetch(a) \/ SimulateRound(a) \/ RejectFunding(a)
    PROVE  (LockInv /\ SeenInv /\ PayerCoversRequest)'
<1>1. phase \in [Attempts -> Phases] /\ desc \in [Attempts -> Descriptors \cup {NoDescriptor}]
  BY DEF PInv, IInv, TypeOK
<1>2. phase[a] \in {"Start", "Decoded", "Final"}
  BY DEF Fetch, SimulateRound, RejectFunding
<1>3. \E x \in {"Decoded", "Final", "Failed"} :
         /\ phase' = [phase EXCEPT ![a] = x]
         /\ \A b \in Attempts \ {a} : desc'[b] = desc[b]
         /\ UNCHANGED <<payerBal, seen>>
         /\ lock' = lock \/ (lock = a /\ lock' = NoAttempt)
  BY <1>1 DEF Fetch, SimulateRound, RejectFunding, Decode, Fail
<1>4. QED
  BY <1>1, <1>2, <1>3, OutsideHoldingKeepsPInv DEF HoldingPhases

\* Taking the free payer: no attempt was holding it.
LEMMA AcquireKeepsPInv ==
    ASSUME PInv, NEW a \in Attempts, AcquirePayer(a)
    PROVE  (LockInv /\ SeenInv /\ PayerCoversRequest)'
<1>1. \A b \in Attempts : phase[b] \notin HoldingPhases
  BY AttemptsAssumption DEF AcquirePayer, PInv, LockInv
<1>2. phase' = [phase EXCEPT ![a] = "CheckBalance"] /\ lock' = a
      /\ UNCHANGED <<desc, seen, payerBal>>
  BY DEF AcquirePayer
<1>3. QED
  BY <1>1, <1>2 DEF PInv, IInv, TypeOK, LockInv, SeenInv, PayerCoversRequest,
                    HoldingPhases

\* Reading the balance: the holder records the payer's current balance.
LEMMA ReadBalanceKeepsPInv ==
    ASSUME PInv, NEW a \in Attempts, ReadBalance(a)
    PROVE  (LockInv /\ SeenInv /\ PayerCoversRequest)'
<1>1. phase' = [phase EXCEPT ![a] = "TopUp"] /\ seen' = [seen EXCEPT ![a] = payerBal]
      /\ UNCHANGED <<desc, payerBal, lock>> /\ phase[a] = "CheckBalance"
  BY DEF ReadBalance
<1>2. \A b \in Attempts \ {a} : phase[b] \notin HoldingPhases
  BY <1>1, HolderUnique DEF PInv, HoldingPhases
<1>3. QED
  BY <1>1, <1>2 DEF PInv, IInv, TypeOK, LockInv, SeenInv, PayerCoversRequest,
                    HoldingPhases

\* Topping up: the balance the holder read is still the payer's, so adding
\* the shortfall brings the payer to at least the request; the holder
\* keeps the lock.
LEMMA TopUpKeepsPInv ==
    ASSUME LockSpan = "execute", PInv, NEW a \in Attempts, TopUp(a)
    PROVE  (LockInv /\ SeenInv /\ PayerCoversRequest)'
<1>1. /\ phase' = [phase EXCEPT ![a] = "Funded"] /\ phase[a] = "TopUp"
      /\ payerBal' = payerBal + Shortfall(a)
      /\ UNCHANGED <<desc, seen, lock>>
  BY DEF TopUp
<1>2. \A b \in Attempts \ {a} : phase[b] \notin HoldingPhases
  BY <1>1, HolderUnique DEF PInv, HoldingPhases
<1>3. Requested(desc[a]) = TransferCost /\ seen[a] = payerBal /\ payerBal \in Nat
  BY <1>1, RequestedInFunding DEF PInv, SeenInv, FundingPhases, IInv, TypeOK
<1>4. payerBal' >= Requested(desc[a])
  BY <1>1, <1>3 DEF Shortfall
<1>5. QED
  BY <1>1, <1>2, <1>4 DEF PInv, IInv, TypeOK, LockInv, SeenInv,
                         PayerCoversRequest, HoldingPhases

\* Executing or cancelling the holder: it leaves the holding phases and
\* no other attempt is in them.
LEMMA LeaveKeepsPInv ==
    ASSUME PInv, NEW a \in Attempts, Execute(a) \/ Cancel(a) \/ ExecuteAnswerLost(a)
    PROVE  (LockInv /\ SeenInv /\ PayerCoversRequest)'
<1>1. phase \in [Attempts -> Phases]
  BY DEF PInv, IInv, TypeOK
<1>2. /\ phase' = [phase EXCEPT ![a] = phase'[a]]
      /\ phase'[a] \in {"Executed", "Failed"}
      /\ UNCHANGED <<desc, seen>>
      /\ lock' \in {lock, NoAttempt}
  BY <1>1 DEF Execute, Cancel, ExecuteAnswerLost, Fail
<1>3. CASE phase[a] \in HoldingPhases
  <2>1. \A b \in Attempts \ {a} : phase[b] \notin HoldingPhases
    BY <1>3, HolderUnique DEF PInv
  <2>2. QED
    BY <1>2, <2>1 DEF PInv, IInv, TypeOK, LockInv, SeenInv,
                      PayerCoversRequest, HoldingPhases
<1>4. CASE phase[a] \notin HoldingPhases
  <2>1. UNCHANGED payerBal
    BY <1>4 DEF Execute, Cancel, ExecuteAnswerLost, HoldingPhases
  <2>2. lock' = lock \/ (lock = a /\ lock' = NoAttempt)
    BY DEF Execute, Cancel, ExecuteAnswerLost, Fail
  <2>3. QED
    BY <1>1, <1>2, <1>4, <2>1, <2>2, OutsideHoldingKeepsPInv DEF HoldingPhases
<1>5. QED
  BY <1>3, <1>4

\* The initial states satisfy PInv: no attempt has reached the payer.
THEOREM InitPInv == Init => PInv
BY InitIInv DEF Init, PInv, LockInv, SeenInv, PayerCoversRequest, HoldingPhases

\* With the lock held through execution, every step keeps PInv.
THEOREM NextPInv ==
    ASSUME LockSpan = "execute"
    PROVE  PInv /\ [Next]_vars => PInv'
<1> SUFFICES ASSUME PInv, [Next]_vars PROVE PInv'
  OBVIOUS
<1>1. IInv'
  BY NextIInv DEF PInv
<1>2. ASSUME NEW a \in Attempts, RelayerStep(a) \/ Cancel(a) \/ ExecuteAnswerLost(a)
      PROVE  (LockInv /\ SeenInv /\ PayerCoversRequest)'
  BY <1>2, LoopStepsKeepPInv, AcquireKeepsPInv, ReadBalanceKeepsPInv,
     TopUpKeepsPInv, LeaveKeepsPInv DEF RelayerStep
<1>3. ASSUME Environment \/ UNCHANGED vars
      PROVE  (LockInv /\ SeenInv /\ PayerCoversRequest)'
  BY <1>3 DEF Environment, InitTransactionPda, relVars, vars, PInv, LockInv,
              SeenInv, PayerCoversRequest
<1>4. QED
  BY <1>1, <1>2, <1>3 DEF Next, PInv

\* When the relayer holds the shared payer from its balance check until its
\* execution ends, an attempt that has topped the payer up always finds
\* the payer holding at least the lamports its final descriptor requests,
\* however many concurrent attempts relay the same or other messages.
THEOREM PayerCovered ==
    ASSUME LockSpan = "execute"
    PROVE  Spec => []PayerCoversRequest
<1>1. Spec => []PInv
  BY InitPInv, NextPInv, PTL DEF Spec
<1>2. QED
  BY <1>1, PTL DEF PInv

-----------------------------------------------------------------------------
(***************************************************************************)
(* The payer bound.  BInv adds to PInv that the holder's request passed   *)
(* the gas-budget check.  A top-up then raises the payer only to that     *)
(* request, and executions only spend from it.                             *)
(***************************************************************************)

\* A step that puts no attempt into a holding phase and changes the
\* descriptor of no holder keeps BudgetInv.
LEMMA BudgetStep ==
    ASSUME BudgetInv,
           \A b \in Attempts : phase'[b] \in HoldingPhases =>
                                  phase[b] \in HoldingPhases /\ desc'[b] = desc[b]
    PROVE  BudgetInv'
BY DEF BudgetInv

\* Initially the payer holds its starting balance and no attempt holds it.
THEOREM InitBInv == Init => BInv
BY InitPInv DEF Init, BInv, BudgetInv, PayerBalanceBounded, HoldingPhases

\* With the lock held through execution, every step keeps BInv.
THEOREM NextBInv ==
    ASSUME LockSpan = "execute"
    PROVE  BInv /\ [Next]_vars => BInv'
<1> SUFFICES ASSUME BInv, [Next]_vars PROVE BInv'
  OBVIOUS
<1>1. PInv'
  BY NextPInv DEF BInv
<1>2. /\ phase \in [Attempts -> Phases] /\ payerBal \in Nat
      /\ desc \in [Attempts -> Descriptors \cup {NoDescriptor}]
  BY DEF BInv, PInv, IInv, TypeOK
<1>3. /\ GasBudget \in Nat /\ PayerStart \in Nat /\ TransferCost \in Nat
      /\ payerBal <= IF PayerStart > GasBudget THEN PayerStart ELSE GasBudget
  BY GasBudgetAssumption, PayerStartAssumption, TransferCostAssumption
  DEF BInv, PayerBalanceBounded
<1>4. ASSUME NEW a \in Attempts, Fetch(a) \/ SimulateRound(a) \/ RejectFunding(a)
      PROVE  (BudgetInv /\ PayerBalanceBounded)'
  <2>1. phase[a] \in {"Start", "Decoded", "Final"}
    BY <1>4 DEF Fetch, SimulateRound, RejectFunding
  <2>2. \E x \in {"Decoded", "Final", "Failed"} :
           /\ phase' = [phase EXCEPT ![a] = x]
           /\ \A b \in Attempts \ {a} : desc'[b] = desc[b]
           /\ UNCHANGED payerBal
    BY <1>2, <1>4 DEF Fetch, SimulateRound, RejectFunding, Decode, Fail
  <2>3. BudgetInv'
    BY <1>2, <2>1, <2>2, BudgetStep DEF BInv, HoldingPhases
  <2>4. QED
    BY <2>2, <2>3 DEF BInv, PayerBalanceBounded
<1>5. ASSUME NEW a \in Attempts, AcquirePayer(a) \/ ReadBalance(a)
      PROVE  (BudgetInv /\ PayerBalanceBounded)'
  BY <1>2, <1>5 DEF AcquirePayer, ReadBalance, BInv, BudgetInv,
                    PayerBalanceBounded, HoldingPhases
<1>6. ASSUME NEW a \in Attempts, TopUp(a)
      PROVE  (BudgetInv /\ PayerBalanceBounded)'
  <2>1. /\ phase' = [phase EXCEPT ![a] = "Funded"] /\ phase[a] = "TopUp"
        /\ payerBal' = payerBal + Shortfall(a)
        /\ UNCHANGED <<desc, seen>>
    BY <1>6 DEF TopUp
  <2>2. /\ Requested(desc[a]) = TransferCost
        /\ Requested(desc[a]) <= GasBudget
        /\ seen[a] = payerBal
    BY <2>1, RequestedInFunding
    DEF BInv, PInv, SeenInv, BudgetInv, HoldingPhases, FundingPhases
  <2>3. PayerBalanceBounded'
    BY <1>2, <1>3, <2>1, <2>2 DEF Shortfall, PayerBalanceBounded
  <2>4. BudgetInv'
    BY <1>2, <2>1 DEF BInv, BudgetInv, HoldingPhases
  <2>5. QED
    BY <2>3, <2>4
<1>7. ASSUME NEW a \in Attempts, Execute(a) \/ Cancel(a) \/ ExecuteAnswerLost(a)
      PROVE  (BudgetInv /\ PayerBalanceBounded)'
  <2>1. /\ phase' = [phase EXCEPT ![a] = phase'[a]]
        /\ phase'[a] \in {"Executed", "Failed"}
        /\ UNCHANGED desc
    BY <1>2, <1>7 DEF Execute, Cancel, ExecuteAnswerLost, Fail
  <2>2. BudgetInv'
    BY <1>2, <2>1 DEF BInv, BudgetInv, HoldingPhases
  <2>3. \/ payerBal' = payerBal
        \/ phase[a] = "Funded" /\ payerBal' = payerBal - Requested(desc[a])
    <3>1. CASE Execute(a)
      BY <3>1 DEF Execute, Land
    <3>2. CASE Cancel(a)
      BY <3>2 DEF Cancel
    <3>3. CASE ExecuteAnswerLost(a)
      BY <3>3 DEF ExecuteAnswerLost, Land
    <3>4. QED
      BY <1>7, <3>1, <3>2, <3>3
  <2>4. CASE payerBal' = payerBal
    BY <1>3, <2>2, <2>4 DEF PayerBalanceBounded
  <2>5. CASE phase[a] = "Funded" /\ payerBal' = payerBal - Requested(desc[a])
    <3>0. IInv
      BY DEF BInv, PInv
    <3>1. Requested(desc[a]) = TransferCost
      BY <3>0, <2>5, RequestedInFunding DEF FundingPhases
    <3>2. QED
      BY <1>2, <1>3, <2>2, <2>5, <3>1 DEF PayerBalanceBounded
  <2>6. QED
    BY <2>2, <2>3, <2>4, <2>5
<1>8. ASSUME Environment \/ UNCHANGED vars
      PROVE  (BudgetInv /\ PayerBalanceBounded)'
  BY <1>8 DEF Environment, InitTransactionPda, relVars, vars, BInv, BudgetInv,
              PayerBalanceBounded
<1>9. QED
  BY <1>1, <1>4, <1>5, <1>6, <1>7, <1>8 DEF Next, RelayerStep, BInv

(* With the lock held through execution, top-ups never stack: the payer  *)
(* never holds more than the larger of its starting balance and one       *)
(* message's gas budget, since a top-up raises it only to a request that  *)
(* passed the gas-budget check (step 4), for any number of attempts.      *)
THEOREM PayerBounded ==
    ASSUME LockSpan = "execute"
    PROVE  Spec => []PayerBalanceBounded
<1>1. Spec => []BInv
  BY InitBInv, NextBInv, PTL DEF Spec
<1>2. QED
  BY <1>1, PTL DEF BInv

-----------------------------------------------------------------------------
(***************************************************************************)
(* Refinement: Spec implements the safety part of RelaySpec under the     *)
(* mapping Abs of Relayer.  Along IInv, every step of Next is a step of   *)
(* RelaySpec or leaves the mapped state alone.                             *)
(***************************************************************************)

\* Setting one attempt's phase to x changes the mapped outcomes only there.
LEMMA OutcomeUpdate ==
    ASSUME TypeOK, NEW a \in Attempts, NEW x \in Phases,
           phase' = [phase EXCEPT ![a] = x]
    PROVE  outcomeBar' = [outcomeBar EXCEPT ![a] =
                            IF x = "Executed" THEN "Executed"
                            ELSE IF x = "Failed" THEN "Failed" ELSE "Running"]
BY DEF TypeOK, outcomeBar, Outcome

\* A step of a running attempt that leaves the gateway alone and does not
\* execute is either RelaySpec's GiveUp or a stutter of it.
LEMMA QuietStepRefines ==
    ASSUME TypeOK, NEW a \in Attempts, phase[a] \notin Terminal,
           NEW x \in Phases \ {"Executed"}, phase' = [phase EXCEPT ![a] = x],
           UNCHANGED <<incoming, target>>
    PROVE  [Abs!AbsNext]_Abs!avars
<1>1. outcomeBar[a] = "Running"
  BY DEF TypeOK, outcomeBar, Outcome, Terminal
<1>2. CASE x = "Failed"
  <2>1. Abs!GiveUp(a)
    BY <1>1, <1>2, OutcomeUpdate DEF Abs!GiveUp
  <2>2. QED
    BY <2>1 DEF Abs!AbsNext, Abs!Finish
<1>3. CASE x # "Failed"
  <2>1. outcomeBar' = [outcomeBar EXCEPT ![a] = "Running"]
    BY <1>3, OutcomeUpdate
  <2>2. outcomeBar' = outcomeBar
    BY <1>1, <2>1 DEF outcomeBar
  <2>3. QED
    BY <2>2 DEF Abs!avars
<1>4. QED
  BY <1>2, <1>3

\* The relayer steps other than a landing execution change one attempt's
\* phase to a phase other than Executed and leave the gateway alone.
LEMMA QuietSteps ==
    ASSUME IInv, NEW a \in Attempts,
           \/ Fetch(a) \/ SimulateRound(a) \/ RejectFunding(a) \/ AcquirePayer(a)
           \/ ReadBalance(a) \/ TopUp(a) \/ Cancel(a)
           \/ (Execute(a) /\ ~ExecutionSucceeds(a))
    PROVE  [Abs!AbsNext]_Abs!avars
<1>1. phase \in [Attempts -> Phases]
  BY DEF IInv, TypeOK
<1>2. phase[a] \notin Terminal
  BY DEF Fetch, SimulateRound, RejectFunding, AcquirePayer, ReadBalance,
         TopUp, Cancel, Execute, Terminal, SuspensionPoints
<1>3. \E x \in Phases \ {"Executed"} : phase' = [phase EXCEPT ![a] = x]
  BY <1>1 DEF Fetch, SimulateRound, RejectFunding, AcquirePayer, ReadBalance,
              TopUp, Cancel, Execute, Decode, Fail, Phases
<1>4. UNCHANGED <<incoming, target>>
  BY DEF Fetch, SimulateRound, RejectFunding, AcquirePayer, ReadBalance,
         TopUp, Cancel, Execute, gwVars
<1>5. QED
  BY <1>2, <1>3, <1>4, QuietStepRefines DEF IInv

\* A landing execution is RelaySpec's Succeed when the answer arrives and
\* its FailAfterLanding when the answer is lost.
LEMMA LandingRefines ==
    ASSUME IInv, NEW a \in Attempts,
           \/ Execute(a) /\ ExecutionSucceeds(a)
           \/ ExecuteAnswerLost(a)
    PROVE  [Abs!AbsNext]_Abs!avars
<1> DEFINE t == target[a]
<1>1. /\ phase[a] = "Funded" /\ ExecutionSucceeds(a) /\ Land(a)
      /\ UNCHANGED target
  BY DEF Execute, ExecuteAnswerLost
<1>2. /\ incoming' = [incoming EXCEPT ![t] = "Executed"]
      /\ incoming[t] = "Approved"
  BY <1>1, LandFacts
<1>3. outcomeBar[a] = "Running"
  BY <1>1 DEF IInv, TypeOK, outcomeBar, Outcome
<1>4. CASE Execute(a) /\ ExecutionSucceeds(a)
  <2>1. phase' = [phase EXCEPT ![a] = "Executed"]
    BY <1>4 DEF Execute
  <2>2. outcomeBar' = [outcomeBar EXCEPT ![a] = "Executed"]
    BY <2>1, OutcomeUpdate DEF IInv, Phases
  <2>3. Abs!Succeed(a)
    BY <1>1, <1>2, <1>3, <2>2 DEF Abs!Succeed
  <2>4. QED
    BY <2>3 DEF Abs!AbsNext, Abs!Finish
<1>5. CASE ExecuteAnswerLost(a)
  <2>1. phase' = [phase EXCEPT ![a] = "Failed"]
    BY <1>5 DEF ExecuteAnswerLost, Fail
  <2>2. outcomeBar' = [outcomeBar EXCEPT ![a] = "Failed"]
    BY <2>1, OutcomeUpdate DEF IInv, Phases
  <2>3. Abs!FailAfterLanding(a)
    BY <1>1, <1>2, <1>3, <2>2 DEF Abs!FailAfterLanding
  <2>4. QED
    BY <2>3 DEF Abs!AbsNext, Abs!Finish
<1>6. QED
  BY <1>4, <1>5

\* The gateway's approval is RelaySpec's Approve; its payload instructions
\* and the ITS setup leave the mapped state alone.
LEMMA EnvironmentRefines ==
    ASSUME IInv, Environment
    PROVE  [Abs!AbsNext]_Abs!avars
<1>1. CASE GatewayNext /\ UNCHANGED relVars
  <2>1. outcomeBar' = outcomeBar
    BY <1>1 DEF relVars, outcomeBar, Outcome
  <2>2. PICK m \in Messages :
           \/ ApproveMessage(m)
           \/ InitializeMessagePayload(m)
           \/ WriteMessagePayload(m)
           \/ CommitMessagePayload(m)
           \/ CloseMessagePayload(m)
    BY <1>1 DEF GatewayNext
  <2>3. CASE ApproveMessage(m)
    <3>1. Abs!Approve(m)
      BY <1>1, <2>1, <2>3 DEF ApproveMessage, Abs!Approve, relVars
    <3>2. QED
      BY <3>1 DEF Abs!AbsNext
  <2>4. CASE ~ApproveMessage(m)
    BY <1>1, <2>1, <2>2, <2>4 DEF InitializeMessagePayload, WriteMessagePayload,
                                  CommitMessagePayload, CloseMessagePayload,
                                  Abs!avars, relVars
  <2>5. QED
    BY <2>3, <2>4
<1>2. CASE InitTransactionPda
  <2>1. UNCHANGED <<incoming, target, phase>>
    BY <1>2 DEF InitTransactionPda, gwVars
  <2>2. outcomeBar' = outcomeBar
    BY <2>1 DEF outcomeBar, Outcome
  <2>3. QED
    BY <2>1, <2>2 DEF Abs!avars
<1>3. QED
  BY <1>1, <1>2 DEF Environment

\* The relayer with the gateway implements RelaySpec's safety: from the
\* start, attempts report one outcome each; a reported execution, or a
\* failure after the final transaction landed, consumes an approval the
\* gateway gave; every other relayer, gateway and ITS step leaves the
\* approvals and outcomes alone, for any number of attempts and messages.
THEOREM Refinement == Spec => Abs!AbsSafety
<1>1. Init => Abs!AbsInit
  BY DEF Init, GatewayInit, Abs!AbsInit, outcomeBar, Outcome
<1>2. IInv /\ [Next]_vars => [Abs!AbsNext]_Abs!avars
  <2> SUFFICES ASSUME IInv, [Next]_vars PROVE [Abs!AbsNext]_Abs!avars
    OBVIOUS
  <2>1. ASSUME NEW a \in Attempts, RelayerStep(a) \/ Cancel(a) \/ ExecuteAnswerLost(a)
        PROVE  [Abs!AbsNext]_Abs!avars
    <3>1. CASE (Execute(a) /\ ExecutionSucceeds(a)) \/ ExecuteAnswerLost(a)
      BY <3>1, LandingRefines
    <3>2. CASE ~((Execute(a) /\ ExecutionSucceeds(a)) \/ ExecuteAnswerLost(a))
      BY <2>1, <3>2, QuietSteps DEF RelayerStep
    <3>3. QED
      BY <3>1, <3>2
  <2>2. CASE Environment
    BY <2>2, EnvironmentRefines
  <2>3. CASE UNCHANGED vars
    BY <2>3 DEF vars, gwVars, relVars, Abs!avars, outcomeBar, Outcome
  <2>4. QED
    BY <2>1, <2>2, <2>3 DEF Next
<1>3. QED
  BY <1>1, <1>2, IInvInvariant, PTL DEF Spec, Abs!AbsSafety

=============================================================================
