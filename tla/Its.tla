--------------------------------- MODULE Its ---------------------------------
(***************************************************************************)
(* The destination side of relayer discovery, from the worked example of  *)
(* part_000: the descriptor the Interchain Token Service stores once in   *)
(* its transaction PDA, the two build-transaction handlers a simulation   *)
(* runs, and the execution of the final instruction.  A second program,   *)
(* LOOPER, stands for the misbehaving handler of the spec (section 4.4)   *)
(* that never marks its descriptor final.                                  *)
(*                                                                         *)
(* A handler returns a descriptor (its return data), NoReturnData when    *)
(* the code has no arm for the payload (the "handle the rest of the cases *)
(* here" matches and the empty else-branch), or HandlerError when it      *)
(* cannot deserialize an account it was handed.                            *)
(***************************************************************************)
EXTENDS Discovery

CONSTANTS
    TransferCost,    \* INTERCHAIN_TRANSFER_COST, lamports asked of the payer
    Bt2PayloadSlot,  \* 0-based index build_transaction_2 reads the payload at
    Bt2TokenManagerFrom  \* which `accounts` line 160 loads the token manager from

ASSUME TransferCostAssumption == TransferCost \in Nat
ASSUME Bt2PayloadSlotAssumption == Bt2PayloadSlot \in {0, 1}

\* "ShadowVec": the code as written, where `accounts` at line 160 is the
\* Vec<RelayerAccount> declared at line 150, shadowing the handler's
\* parameter; "HandlerAccounts": the handler's own accounts, as intended.
ASSUME Bt2TokenManagerFromAssumption ==
    Bt2TokenManagerFrom \in {"ShadowVec", "HandlerAccounts"}

\* What a handler leaves as return data: a descriptor (status "Ok"),
\* nothing ("NoReturnData") or an error ("HandlerError").
Returned(d) == [status |-> "Ok", tx |-> d]
NoReturnData == [status |-> "NoReturnData", tx |-> NoDescriptor]
HandlerError == [status |-> "HandlerError", tx |-> NoDescriptor]

\* The descriptor the one-time setup call stores in the transaction PDA.
StoredDescriptor ==
    [is_final |-> FALSE,
     instructions |-> <<[program  |-> ITS,
                         accounts |-> <<MessagePayloadRef>>,
                         data     |-> <<BytesRef("BUILD_TRANSACTION_1")>>]>>]

\* get_incoming_payload_from_account: the payload held by the account at
\* address a, or "Unreadable" when a is not a readable payload PDA.
PayloadAt(a) ==
    IF \E m \in Messages : a = MessagePayloadPda(m) /\ PayloadReadable(m)
    THEN content[a[2]]
    ELSE "Unreadable"

IsTransfer(p) == p \in {"TransferNoData", "TransferWithData"}

\* The descriptor build_transaction_1 returns for a transfer whose payload
\* and token manager belong to message m.
Bt1Descriptor(m) ==
    [is_final |-> FALSE,
     instructions |->
       <<[program  |-> ITS,
          accounts |-> <<MessagePayloadRef, Fixed(<<"token_manager", m>>, TRUE)>>,
          data     |-> <<BytesRef("BUILD_TRANSACTION_2"), MessageRef>>]>>]

\* relayer_discovery_build_transaction_1: accounts[0] is the payload.
BuildTransaction1(accts) ==
    LET p == PayloadAt(accts[1].addr)
        m == accts[1].addr[2]
    IN CASE p = "Unreadable" -> HandlerError
         [] IsTransfer(p) -> Returned(Bt1Descriptor(m))
         [] OTHER -> NoReturnData

\* The accounts of the final ITS instruction for message msg (command id)
\* whose payload and token manager belong to message m.
TransferAccounts(msg, m) ==
    << PayerRef(TransferCost), IncomingMessageRef, MessagePayloadRef,
       Fixed(<<"signing_pda", msg>>, FALSE),
       Fixed(<<"gateway_root", "global">>, FALSE),
       Fixed(<<"gateway_program", "global">>, FALSE),
       Fixed(<<"system_program", "global">>, FALSE),
       Fixed(<<"its_root", "global">>, FALSE),
       Fixed(<<"token_manager", m>>, TRUE),
       Fixed(<<"token_manager_ata", m>>, TRUE),
       Fixed(<<"token_mint", m>>, TRUE),
       Fixed(<<"token_2022", "global">>, FALSE),
       Fixed(<<"ata_program", "global">>, FALSE),
       Fixed(<<"rent", "global">>, FALSE),
       Fixed(<<"destination", m>>, TRUE),
       Fixed(<<"destination_ata", m>>, TRUE) >>

\* The final descriptor build_transaction_2 returns for message msg.
FinalDescriptor(msg, m) ==
    [is_final |-> TRUE,
     instructions |->
       <<[program  |-> ITS,
          accounts |-> TransferAccounts(msg, m),
          data     |-> <<BytesRef("EXECUTE"), MessageRef>>]>>]

\* TokenManager::load(accounts[1]) at line 160 succeeds only on a token
\* manager account.  In the code `accounts` is the Vec of line 150, whose
\* element 1 is RelayerAccount::IncomingMessage.
TokenManagerLoads(accts, msg, m) ==
    IF Bt2TokenManagerFrom = "ShadowVec"
    THEN LET r == TransferAccounts(msg, m)[2]
         IN  r.kind = "Account" /\ r.addr[1] = "token_manager"
    ELSE accts[2].addr[1] = "token_manager"

(***************************************************************************)
(* relayer_discovery_build_transaction_2: the payload is read from        *)
(* accounts[Bt2PayloadSlot] (the code reads accounts[1]), the token       *)
(* manager is loaded at line 160, the message comes from the data.        *)
(***************************************************************************)
BuildTransaction2(accts, msg) ==
    LET p == PayloadAt(accts[Bt2PayloadSlot + 1].addr)
        m == accts[Bt2PayloadSlot + 1].addr[2]
    IN IF p = "Unreadable" \/ ~TokenManagerLoads(accts, msg, m)
       THEN HandlerError   \* either load fails
       ELSE IF p = "TransferNoData"
            THEN Returned(FinalDescriptor(msg, m))
            ELSE NoReturnData

\* The looping program's stored descriptor, which its handler returns again.
LoopDescriptor ==
    [is_final |-> FALSE,
     instructions |-> <<[program |-> LOOPER, accounts |-> <<>>,
                         data |-> <<BytesRef("LOOP")>>]>>]

\* The message a serialized Message token stands for.
MessageOf(tok) == tok[2]

\* The program entry point, dispatching on the first data byte.
Handler(cix) ==
    CASE cix.program = ITS /\ cix.data[1] = "BUILD_TRANSACTION_1" ->
            BuildTransaction1(cix.accounts)
      [] cix.program = ITS /\ cix.data[1] = "BUILD_TRANSACTION_2" ->
            BuildTransaction2(cix.accounts, MessageOf(cix.data[2]))
      [] cix.program = LOOPER -> Returned(LoopDescriptor)
      [] OTHER -> HandlerError

\* simulateTransaction: every instruction runs; the return data is the
\* last instruction's.
Simulate(cixs) ==
    IF \E i \in DOMAIN cixs : Handler(cixs[i]).status = "HandlerError"
    THEN HandlerError
    ELSE Handler(cixs[Len(cixs)])

(***************************************************************************)
(* The ITS EXECUTE entry point for message msg: validates the message at  *)
(* the gateway (CPI to validateMessage), reads the payload and spends the *)
(* payer's lamports.                                                       *)
(***************************************************************************)
ExecuteSucceeds(cix) ==
    /\ cix.program = ITS
    /\ cix.data[1] = "EXECUTE"
    /\ CanValidateMessage(MessageOf(cix.data[2]))
    /\ PayloadAt(cix.accounts[3].addr) = "TransferNoData"

\* Every descriptor a relay attempt can hold: nothing yet, one stored in a
\* transaction PDA, or one a handler returned.
KnownDescriptors ==
    {NoDescriptor, StoredDescriptor, LoopDescriptor}
    \cup {Bt1Descriptor(m) : m \in Messages}
    \cup {FinalDescriptor(msg, m) : msg, m \in Messages}

\* Program p has published a transaction PDA (the ITS once set up).
HasTransactionPda(p, itsPdaSet) == (p = ITS /\ itsPdaSet) \/ p = LOOPER

\* The descriptor stored in the transaction PDA of program p.
TransactionPdaBytes(p) == IF p = ITS THEN StoredDescriptor ELSE LoopDescriptor

=============================================================================
