------------------------------ MODULE Discovery ------------------------------
(***************************************************************************)
(* The relayer-discovery data model of part_000 (RelayerTransaction,      *)
(* RelayerInstruction, RelayerAccount, RelayerData) and the conversion of  *)
(* a RelayerInstruction into a regular instruction: each account reference *)
(* resolved in order, each data element serialized and concatenated in     *)
(* order.                                                                  *)
(*                                                                         *)
(* Data abstraction.  An address is a pair <<name, owner>>: the name of    *)
(* the PDA or program and the message it belongs to ("global" when it     *)
(* belongs to none).  A Bytes element of the source always holds a single *)
(* selector byte, and the serialized Message is one token <<"message", m>>,*)
(* so the concatenation of the data elements is the sequence of their     *)
(* tokens, in order.                                                       *)
(***************************************************************************)
EXTENDS Gateway, Sequences, FiniteSets

\* Program ids: the Interchain Token Service, a program whose discovery
\* chain never ends, and any program with no transaction PDA.
ITS == "its"
LOOPER == "looper"
NOT_ENABLED == "not_enabled"
Programs == {ITS, LOOPER, NOT_ENABLED}

\* The selector bytes the destination programs dispatch on.
Selectors == {"BUILD_TRANSACTION_1", "BUILD_TRANSACTION_2", "EXECUTE", "LOOP"}

Owners == Messages \cup {"global"}
AddressNames == {"incoming_message", "message_payload", "payer",
                 "signing_pda", "gateway_root", "gateway_program",
                 "system_program", "its_root", "token_manager",
                 "token_manager_ata", "token_mint", "token_2022",
                 "ata_program", "rent", "destination", "destination_ata"}
Addresses == AddressNames \X Owners

IncomingMessagePda(m) == <<"incoming_message", m>>
MessagePayloadPda(m) == <<"message_payload", m>>
PayerAccount == <<"payer", "global">>

(* RelayerAccount: Account(AccountMeta) | IncomingMessage | MessagePayload *)
(* | Payer(lamports).                                                      *)
AccountRefs ==
    [kind : {"Account"}, addr : Addresses, signer : BOOLEAN, writable : BOOLEAN]
    \cup [kind : {"IncomingMessage", "MessagePayload"}]
    \cup [kind : {"Payer"}, amount : Nat]

Fixed(addr, w) == [kind |-> "Account", addr |-> addr, signer |-> FALSE, writable |-> w]
IncomingMessageRef == [kind |-> "IncomingMessage"]
MessagePayloadRef == [kind |-> "MessagePayload"]
PayerRef(lamports) == [kind |-> "Payer", amount |-> lamports]

(* RelayerData: Bytes(Vec<u8>) | Message.                                  *)
DataRefs == [kind : {"Bytes"}, byte : Selectors] \cup [kind : {"Message"}]

BytesRef(sel) == [kind |-> "Bytes", byte |-> sel]
MessageRef == [kind |-> "Message"]

Instructions ==
    [program : Programs, accounts : Seq(AccountRefs), data : Seq(DataRefs)]

\* RelayerTransaction; the spec requires at least one instruction.
Descriptors ==
    [is_final : BOOLEAN, instructions : Seq(Instructions) \ {<<>>}]

\* The descriptor an attempt holds before it has fetched one.
NoDescriptor == [is_final |-> FALSE, instructions |-> <<>>]

\* The token a serialized Message contributes to instruction data.
MessageBytes(m) == <<"message", m>>

\* A materialized AccountMeta and instruction.
AccountMetas == [addr : Addresses, signer : BOOLEAN, writable : BOOLEAN]
DataTokens == Selectors \cup {MessageBytes(m) : m \in Messages}
ConcreteInstructions ==
    [program : Programs, accounts : Seq(AccountMetas), data : Seq(DataTokens)]

(***************************************************************************)
(* Account resolution for the relay of message m: a hardcoded account     *)
(* passes through, the IncomingMessage and MessagePayload references      *)
(* become the PDAs of m, and Payer becomes the relayer's payer, signing.  *)
(***************************************************************************)
ResolveAccount(r, m) ==
    CASE r.kind = "Account" ->
            [addr |-> r.addr, signer |-> r.signer, writable |-> r.writable]
      [] r.kind = "IncomingMessage" ->
            [addr |-> IncomingMessagePda(m), signer |-> FALSE, writable |-> TRUE]
      [] r.kind = "MessagePayload" ->
            [addr |-> MessagePayloadPda(m), signer |-> FALSE, writable |-> FALSE]
      [] r.kind = "Payer" ->
            [addr |-> PayerAccount, signer |-> TRUE, writable |-> TRUE]

\* Serialization of one data element: the byte itself, or the message.
DataBytes(d, m) == IF d.kind = "Bytes" THEN d.byte ELSE MessageBytes(m)

\* RelayerInstruction -> Instruction, order of accounts and data preserved.
Materialize(ix, m) ==
    [program  |-> ix.program,
     accounts |-> [i \in DOMAIN ix.accounts |-> ResolveAccount(ix.accounts[i], m)],
     data     |-> [i \in DOMAIN ix.data |-> DataBytes(ix.data[i], m)]]

MaterializeAll(d, m) ==
    [i \in DOMAIN d.instructions |-> Materialize(d.instructions[i], m)]

(***************************************************************************)
(* The lamports the Payer references of a descriptor request, summed over *)
(* all its instructions: the number of (instruction, account, lamport)    *)
(* triples a Payer reference accounts for.                                 *)
(***************************************************************************)
PayerSlots(d) ==
    UNION {{<<i, j>> : j \in {k \in DOMAIN d.instructions[i].accounts :
                               d.instructions[i].accounts[k].kind = "Payer"}}
           : i \in DOMAIN d.instructions}

PayerUnits(d) ==
    UNION {{<<s, u>> : u \in 1..d.instructions[s[1]].accounts[s[2]].amount}
           : s \in PayerSlots(d)}

Requested(d) == Cardinality(PayerUnits(d))

=============================================================================
