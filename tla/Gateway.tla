------------------------------- MODULE Gateway -------------------------------
(***************************************************************************)
(* The part of the Axelar Solana gateway program that a relayer meets when *)
(* it delivers an incoming cross-chain message: the incoming-message PDA   *)
(* that approveMessage creates and validateMessage consumes, and the       *)
(* message-payload PDA that the relayer opens, fills, commits and closes   *)
(* (initialize/write/commit/closeMessagePayload).                          *)
(*                                                                         *)
(* The source is the program's IDL binding (program.ts): it fixes, for     *)
(* each instruction, which accounts it may write (isMut) and the errors    *)
(* it can return.  Each action below takes its guard from those errors     *)
(* and changes only the accounts the IDL marks mutable.  Verifier-set      *)
(* rotation and signature verification are not part of this module: an    *)
(* approval is an environment step here.                                   *)
(***************************************************************************)
EXTENDS Naturals

CONSTANTS
    Messages        \* command ids of the incoming messages (model values)

ASSUME MessagesAssumption == Messages # {}

\* The payload kinds an ITS message can carry (GMPPayload in part_000):
\* an InterchainTransfer with or without data, or any other GMP payload.
PayloadKinds == {"TransferNoData", "TransferWithData", "OtherPayload"}

\* Status of an incoming-message PDA: absent, approved, or executed.
IncomingStatus == {"None", "Approved", "Executed"}

\* Status of a message-payload PDA: absent, open for writes, or committed.
PayloadStatus == {"None", "Open", "Committed"}

VARIABLES
    incoming,   \* incoming[m] : status of the incoming-message PDA of m
    payload,    \* payload[m]  : status of the message-payload PDA of m
    written,    \* written[m]  : the payload bytes of m have been written
    content     \* content[m]  : the payload the source chain sent for m

gwVars == <<incoming, payload, written, content>>

GatewayTypeOK ==
    /\ incoming \in [Messages -> IncomingStatus]
    /\ payload \in [Messages -> PayloadStatus]
    /\ written \in [Messages -> BOOLEAN]
    /\ content \in [Messages -> PayloadKinds]

\* No PDA exists yet; the payload of every message is fixed by its sender.
GatewayInit ==
    /\ incoming = [m \in Messages |-> "None"]
    /\ payload = [m \in Messages |-> "None"]
    /\ written = [m \in Messages |-> FALSE]
    /\ content \in [Messages -> PayloadKinds]

(***************************************************************************)
(* approveMessage: writes incomingMessagePda; fails with                   *)
(* MessageAlreadyInitialised when the PDA already exists.                  *)
(***************************************************************************)
ApproveMessage(m) ==
    /\ incoming[m] = "None"
    /\ incoming' = [incoming EXCEPT ![m] = "Approved"]
    /\ UNCHANGED <<payload, written, content>>

(***************************************************************************)
(* initializeMessagePayload: reads incomingMessagePda (which must exist),  *)
(* creates messagePayloadPda; MessagePayloadAlreadyInitialized otherwise.  *)
(***************************************************************************)
InitializeMessagePayload(m) ==
    /\ incoming[m] # "None"
    /\ payload[m] = "None"
    /\ payload' = [payload EXCEPT ![m] = "Open"]
    /\ written' = [written EXCEPT ![m] = FALSE]
    /\ UNCHANGED <<incoming, content>>

(***************************************************************************)
(* writeMessagePayload: writes bytes at an offset of an open payload;      *)
(* MessagePayloadAlreadyCommitted once committed.  The bytes are the       *)
(* message's payload: the model records only that they are present.       *)
(***************************************************************************)
WriteMessagePayload(m) ==
    /\ payload[m] = "Open"
    /\ ~written[m]
    /\ written' = [written EXCEPT ![m] = TRUE]
    /\ UNCHANGED <<incoming, payload, content>>

(***************************************************************************)
(* commitMessagePayload: seals the buffer (hashes it); a second commit     *)
(* fails with MessagePayloadAlreadyCommitted.  Nothing checks that the     *)
(* buffer was written first.                                               *)
(***************************************************************************)
CommitMessagePayload(m) ==
    /\ payload[m] = "Open"
    /\ payload' = [payload EXCEPT ![m] = "Committed"]
    /\ UNCHANGED <<incoming, written, content>>

(***************************************************************************)
(* closeMessagePayload: closes messagePayloadPda, whatever its status.     *)
(***************************************************************************)
CloseMessagePayload(m) ==
    /\ payload[m] # "None"
    /\ payload' = [payload EXCEPT ![m] = "None"]
    /\ written' = [written EXCEPT ![m] = FALSE]
    /\ UNCHANGED <<incoming, content>>

\* Fault variant: validateMessage accepting any existing incoming message.
CanValidateMessageAnyStatus(m) == incoming[m] # "None"

(***************************************************************************)
(* validateMessage, called by the destination program through CPI: writes *)
(* incomingMessagePda; MessageNotApproved unless it is approved.  These    *)
(* two operators are the guard and the effect, used inside the relayer's  *)
(* execution step.                                                         *)
(***************************************************************************)
CanValidateMessage(m) == incoming[m] = "Approved"

ValidateMessage(m) == [incoming EXCEPT ![m] = "Executed"]

\* A payload a program can deserialize: committed and written.
PayloadReadable(m) == payload[m] = "Committed" /\ written[m]

GatewayNext ==
    \E m \in Messages :
        \/ ApproveMessage(m)
        \/ InitializeMessagePayload(m)
        \/ WriteMessagePayload(m)
        \/ CommitMessagePayload(m)
        \/ CloseMessagePayload(m)

\* A destination program's execution as the gateway sees it: the
\* validateMessage CPI succeeds and consumes the approval.
GatewayExecute(m) ==
    /\ CanValidateMessage(m)
    /\ incoming' = ValidateMessage(m)
    /\ UNCHANGED <<payload, written, content>>

\* The gateway as the relayer sees it: approvals appear, payload PDAs are
\* managed, and approved messages are executed once.
GatewaySpec ==
    GatewayInit /\ [][GatewayNext \/ \E m \in Messages : GatewayExecute(m)]_gwVars

=============================================================================
