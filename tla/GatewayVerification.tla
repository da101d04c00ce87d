------------------------- MODULE GatewayVerification -------------------------
(***************************************************************************)
(* The gateway's verification side (program.ts IDL): initializeConfig,    *)
(* payload verification sessions, verifySignature, approveMessage against *)
(* a session, rotateSigners, transferOperatorship, and the validateMessage *)
(* CPI of a destination program.  The IDL fixes each instruction's        *)
(* accounts (which it may write: isMut), its arguments and the gateway's  *)
(* errors; each guard below is the condition an error of the IDL names,  *)
(* and an instruction that fails changes nothing.                          *)
(*                                                                         *)
(* Data abstraction: a Merkle root is a model value; a verifier set is    *)
(* the sequence of its leaves (the leaf at position i is Members[vs][i+1],*)
(* setSize is its length); a signature is the key that made it, valid     *)
(* exactly when it is the leaf's signer; a Merkle proof is valid exactly  *)
(* when the leaf is in the set or the message in the batch, so forged     *)
(* proofs are inputs the model never enumerates.  The domain separator   *)
(* and the keys' curve kinds are left out.                                 *)
(***************************************************************************)
EXTENDS Naturals, Sequences, FiniteSetsExt

CONSTANTS
    Messages,           \* cross-chain messages (model values)
    Signers,            \* signer public keys
    VerifierSets,       \* verifier-set Merkle roots
    Members,            \* Members[vs] : sequence of [signer, weight] leaves of vs
    Quorum,             \* Quorum[vs]  : the quorum every leaf of vs carries
    MessageRoots,       \* payload Merkle roots of message batches
    BatchOf,            \* BatchOf[r]  : the messages under batch root r
    InitialSignerSets,  \* initializeConfig's initialSignerSets
    Retention,          \* initializeConfig's previousVerifierRetention
    MinRotationDelay,   \* initializeConfig's minimumRotationDelay
    Operators,          \* keys that can be named operator
    UpgradeAuthority,   \* the gateway program's upgrade authority
    MaxTime             \* bound on the clock

ASSUME VerifierSetsAssumption ==
    /\ \A vs \in VerifierSets :
          /\ Members[vs] \in Seq([signer : Signers, weight : Nat \ {0}])
          /\ Quorum[vs] \in Nat \ {0}
    /\ InitialSignerSets \in Seq(VerifierSets) /\ InitialSignerSets # <<>>
    /\ Retention \in Nat \ {0} /\ MinRotationDelay \in Nat /\ MaxTime \in Nat
    /\ MessageRoots \cap VerifierSets = {}
    /\ \A r \in MessageRoots : BatchOf[r] \subseteq Messages

\* A session's payload root: a message batch, or a new verifier set to rotate to.
PayloadRoots == MessageRoots \cup VerifierSets

NoSet == "no_set"

\* A session that no signature has reached yet records no signing set,
\* which is not the root of any verifier set.
ASSUME NoSetAssumption == NoSet \notin VerifierSets

NoTracker == 0

\* The positions (slots) of the leaves of verifier set vs.
Positions(vs) == 0 .. Len(Members[vs]) - 1
LeafWeight(vs, pos) == Members[vs][pos + 1].weight

\* A signature over the payload root checks against the leaf's signer key
\* only when the key that produced it is that signer (either curve kind).
SignatureValid(vs, pos, key) == Members[vs][pos + 1].signer = key

VARIABLES
    configured,   \* the gatewayConfigPda exists
    operator,     \* the operator recorded in the gateway config
    epoch,        \* the current verifier-set epoch
    lastRotation, \* time of the last rotation
    now,          \* the clock
    tracker,      \* tracker[vs] : epoch in vs's verifier-set tracker PDA, NoTracker if none
    session,      \* session[r]  : verification session PDA of payload root r
    incoming,     \* incoming[m] : "None", "Approved", "Executed"
    signed,       \* history: signed[r], the (set, position) pairs verified for r
    byOperator    \* history: the verifier sets an operator-signed rotation installed

vars == <<configured, operator, epoch, lastRotation, now, tracker, session,
          incoming, signed, byOperator>>

NoSession == [open |-> FALSE, slots |-> {}, weight |-> 0, set |-> NoSet]

VerificationTypeOK ==
    /\ configured \in BOOLEAN
    /\ operator \in Operators \cup {UpgradeAuthority}
    /\ epoch \in Nat /\ lastRotation \in 0..MaxTime /\ now \in 0..MaxTime
    /\ tracker \in [VerifierSets -> 0..epoch]
    /\ session \in [PayloadRoots -> [open : BOOLEAN, slots : SUBSET Nat,
                                      weight : Nat, set : VerifierSets \cup {NoSet}]]
    /\ incoming \in [Messages -> {"None", "Approved", "Executed"}]
    /\ signed \in [PayloadRoots -> SUBSET (VerifierSets \X Nat)]
    /\ byOperator \subseteq VerifierSets

VInit ==
    /\ configured = FALSE
    /\ operator \in Operators
    /\ epoch = 0 /\ lastRotation = 0 /\ now = 0
    /\ tracker = [vs \in VerifierSets |-> NoTracker]
    /\ session = [r \in PayloadRoots |-> NoSession]
    /\ incoming = [m \in Messages |-> "None"]
    /\ signed = [r \in PayloadRoots |-> {}]
    /\ byOperator = {}

(* initializeConfig: signed by the upgrade authority; creates the config  *)
(* and a tracker for each initial signer set, at epochs 1..n.             *)
InitializeConfig(op) ==
    /\ ~configured
    /\ \A i, j \in DOMAIN InitialSignerSets :
          i # j => InitialSignerSets[i] # InitialSignerSets[j]  \* VerifierSetAlreadyInitialised
    /\ configured' = TRUE
    /\ operator' = op
    /\ epoch' = Len(InitialSignerSets)
    /\ tracker' = [vs \in VerifierSets |->
                     IF \E i \in DOMAIN InitialSignerSets : InitialSignerSets[i] = vs
                     THEN CHOOSE i \in DOMAIN InitialSignerSets : InitialSignerSets[i] = vs
                     ELSE NoTracker]
    /\ lastRotation' = now
    /\ UNCHANGED <<now, session, incoming, signed, byOperator>>

\* initializePayloadVerificationSession: VerificationSessionPDAInitialised.
InitializePayloadVerificationSession(r) ==
    /\ configured
    /\ ~session[r].open
    /\ session' = [session EXCEPT ![r].open = TRUE]
    /\ UNCHANGED <<configured, operator, epoch, lastRotation, now, tracker,
                   incoming, signed, byOperator>>

\* Fault variant: verifySignature counting a slot already verified again.
VerifySignatureRecounting(r, vs, pos, key) ==
    /\ configured
    /\ session[r].open                                \* InvalidVerificationSessionPDA
    /\ tracker[vs] # NoTracker                        \* InvalidVerifierSetTrackerProvided
    /\ epoch - tracker[vs] < Retention                \* VerifierSetTooOld
    /\ session[r].set \in {NoSet, vs}
    /\ pos \in Positions(vs)                          \* SlotIsOutOfBounds, InvalidMerkleProof
    /\ SignatureValid(vs, pos, key)                   \* InvalidDigitalSignature
    /\ session' = [session EXCEPT ![r].slots = @ \cup {pos},
                                  ![r].weight = @ + LeafWeight(vs, pos),
                                  ![r].set = vs]
    /\ signed' = [signed EXCEPT ![r] = @ \cup {<<vs, pos>>}]
    /\ UNCHANGED <<configured, operator, epoch, lastRotation, now, tracker,
                   incoming, byOperator>>

\* verifySignature for the leaf at position pos of set vs, signed with key:
\* marks the slot in the session's bitmap and adds the leaf's weight to its
\* accumulated weight.
VerifySignature(r, vs, pos, key) ==
    /\ configured
    /\ session[r].open                                \* InvalidVerificationSessionPDA
    /\ tracker[vs] # NoTracker                        \* InvalidVerifierSetTrackerProvided
    /\ epoch - tracker[vs] < Retention                \* VerifierSetTooOld
    /\ session[r].set \in {NoSet, vs}                  \* one signing verifier set per session
    /\ pos \in Positions(vs)                          \* SlotIsOutOfBounds, InvalidMerkleProof
    /\ SignatureValid(vs, pos, key)                   \* InvalidDigitalSignature
    /\ pos \notin session[r].slots                    \* SlotAlreadyVerified
    /\ session' = [session EXCEPT ![r].slots = @ \cup {pos},
                                  ![r].weight = @ + LeafWeight(vs, pos),
                                  ![r].set = vs]
    /\ signed' = [signed EXCEPT ![r] = @ \cup {<<vs, pos>>}]
    /\ UNCHANGED <<configured, operator, epoch, lastRotation, now, tracker,
                   incoming, byOperator>>

\* A session is valid once its accumulated weight reaches its set's quorum.
SessionValid(r) ==
    /\ session[r].open
    /\ session[r].set # NoSet
    /\ session[r].weight >= Quorum[session[r].set]

\* Fault variant: approveMessage without the MessageAlreadyInitialised check.
ApproveMessageReinitialising(r, m) ==
    /\ configured
    /\ r \in MessageRoots
    /\ SessionValid(r)
    /\ m \in BatchOf[r]
    /\ incoming' = [incoming EXCEPT ![m] = "Approved"]
    /\ UNCHANGED <<configured, operator, epoch, lastRotation, now, tracker,
                   session, signed, byOperator>>

\* approveMessage: SigningSessionNotValid, LeafNodeNotPartOfMerkleRoot,
\* MessageAlreadyInitialised; creates the incoming-message PDA.
ApproveMessage(r, m) ==
    /\ configured
    /\ r \in MessageRoots
    /\ SessionValid(r)
    /\ m \in BatchOf[r]
    /\ incoming[m] = "None"
    /\ incoming' = [incoming EXCEPT ![m] = "Approved"]
    /\ UNCHANGED <<configured, operator, epoch, lastRotation, now, tracker,
                   session, signed, byOperator>>

\* Fault variant: rotateSigners writing the new tracker without advancing
\* the current epoch.
RotateSignersKeepingEpoch(new, operatorSigns) ==
    /\ configured
    /\ SessionValid(new)
    /\ tracker[new] = NoTracker
    /\ \/ operatorSigns
       \/ /\ tracker[session[new].set] = epoch
          /\ now - lastRotation >= MinRotationDelay
    /\ tracker' = [tracker EXCEPT ![new] = epoch + 1]
    /\ lastRotation' = now
    /\ byOperator' = IF operatorSigns THEN byOperator \cup {new} ELSE byOperator
    /\ UNCHANGED <<configured, operator, epoch, now, session, incoming, signed>>

\* Fault variant: rotateSigners accepting any signing set within retention.
RotateSignersAnySigningSet(new, operatorSigns) ==
    /\ configured
    /\ SessionValid(new)
    /\ tracker[new] = NoTracker
    /\ \/ operatorSigns
       \/ now - lastRotation >= MinRotationDelay
    /\ epoch' = epoch + 1
    /\ tracker' = [tracker EXCEPT ![new] = epoch + 1]
    /\ lastRotation' = now
    /\ byOperator' = IF operatorSigns THEN byOperator \cup {new} ELSE byOperator
    /\ UNCHANGED <<configured, operator, now, session, incoming, signed>>

(* rotateSigners to the set whose root the session signed: the session    *)
(* must be valid (SigningSessionNotValid) and the new tracker new         *)
(* (VerifierSetTrackerAlreadyInitialised).  Unless the optional operator  *)
(* signs, the signing set must be the latest one                          *)
(* (ProofNotSignedByLatestVerifierSet) and the cooldown over              *)
(* (RotationCooldownNotDone).                                              *)
RotateSigners(new, operatorSigns) ==
    /\ configured
    /\ SessionValid(new)
    /\ tracker[new] = NoTracker
    /\ \/ operatorSigns
       \/ /\ tracker[session[new].set] = epoch
          /\ now - lastRotation >= MinRotationDelay
    /\ epoch' = epoch + 1
    /\ tracker' = [tracker EXCEPT ![new] = epoch + 1]
    /\ lastRotation' = now
    /\ byOperator' = IF operatorSigns THEN byOperator \cup {new} ELSE byOperator
    /\ UNCHANGED <<configured, operator, now, session, incoming, signed>>

\* transferOperatorship: OperatorOrUpgradeAuthorityMustBeSigner.
TransferOperatorship(signer, newOperator) ==
    /\ configured
    /\ signer \in {operator, UpgradeAuthority}
    /\ operator' = newOperator
    /\ UNCHANGED <<configured, epoch, lastRotation, now, tracker, session,
                   incoming, signed, byOperator>>

\* validateMessage, called by the destination program: MessageNotApproved.
ValidateMessage(m) ==
    /\ incoming[m] = "Approved"
    /\ incoming' = [incoming EXCEPT ![m] = "Executed"]
    /\ UNCHANGED <<configured, operator, epoch, lastRotation, now, tracker,
                   session, signed, byOperator>>

Tick ==
    /\ now < MaxTime
    /\ now' = now + 1
    /\ UNCHANGED <<configured, operator, epoch, lastRotation, tracker, session,
                   incoming, signed, byOperator>>

VNext ==
    \/ \E op \in Operators : InitializeConfig(op)
    \/ \E r \in PayloadRoots : InitializePayloadVerificationSession(r)
    \/ \E r \in PayloadRoots, vs \in VerifierSets :
          \E pos \in Positions(vs), key \in Signers : VerifySignature(r, vs, pos, key)
    \/ \E r \in MessageRoots, m \in Messages : ApproveMessage(r, m)
    \/ \E new \in VerifierSets, o \in BOOLEAN : RotateSigners(new, o)
    \/ \E s, o \in Operators \cup {UpgradeAuthority} : TransferOperatorship(s, o)
    \/ \E m \in Messages : ValidateMessage(m)
    \/ Tick

VSpec == VInit /\ [][VNext]_vars

-----------------------------------------------------------------------------
(***************************************************************************)
(* Properties.                                                             *)
(***************************************************************************)

\* The weight of the distinct leaves of vs whose signatures were verified
\* for root r, from the history rather than the session's own counter.
SignedWeight(r, vs) ==
    MapThenSumSet(LAMBDA pos : LeafWeight(vs, pos),
                  {pos \in Positions(vs) : <<vs, pos>> \in signed[r]})

(* Every message the gateway approved was in a batch that a quorum of one *)
(* verifier set signed, counting each signer once: concurrent or repeated *)
(* verifySignature calls on one session, and signatures of several sets,  *)
(* never add up to an approval the set's quorum did not give.             *)
ApprovalBackedByQuorum ==
    \A m \in Messages : incoming[m] # "None" =>
        \E r \in MessageRoots, vs \in VerifierSets :
            m \in BatchOf[r] /\ SignedWeight(r, vs) >= Quorum[vs]

(* A session's accumulated weight is the weight of the distinct leaves of *)
(* its signing set whose signatures were verified for it: the counter     *)
(* verifySignature keeps in the session PDA never drifts from the history, *)
(* whatever order the signature transactions of racing relayers land in  *)
(* (the SlotAlreadyVerified bitmap keeps a slot from counting twice).     *)
SessionWeightCounted ==
    \A r \in PayloadRoots :
        session[r].set # NoSet => session[r].weight = SignedWeight(r, session[r].set)

(* Every verifier set installed by a rotation the operator did not sign   *)
(* was signed by a quorum of the set that was the latest when it was      *)
(* installed (the one whose epoch precedes it), however the rotations,    *)
(* the cooldown and the retention of older sets interleave.               *)
RotationSignedByLatest ==
    \A vs \in VerifierSets :
        tracker[vs] > Len(InitialSignerSets) /\ vs \notin byOperator =>
            \E prev \in VerifierSets :
                /\ tracker[prev] = tracker[vs] - 1
                /\ SignedWeight(vs, prev) >= Quorum[prev]

(* The verifier-set trackers number the sets the gateway knows 1..epoch, *)
(* one set per epoch: no two sets share an epoch and no epoch up to the   *)
(* current one is missing, so the "latest verifier set" that rotateSigners *)
(* checks a proof against (ProofNotSignedByLatestVerifierSet) is unique and *)
(* exists.  initializeConfig rejects a repeated initial set               *)
(* (VerifierSetAlreadyInitialised) and rotateSigners a known one          *)
(* (VerifierSetTrackerAlreadyInitialised) while advancing the epoch.       *)
EpochsNumberSets ==
    /\ \A v, w \in VerifierSets :
          tracker[v] # NoTracker /\ tracker[v] = tracker[w] => v = w
    /\ \A e \in 1..epoch : \E vs \in VerifierSets : tracker[vs] = e

\* The verified gateway seen through the relayer's gateway model: no payload
\* PDA is touched by these instructions.
GW == INSTANCE Gateway WITH incoming <- incoming,
                            payload <- [m \in Messages |-> "None"],
                            written <- [m \in Messages |-> FALSE],
                            content <- [m \in Messages |-> "OtherPayload"]

(* The verified gateway implements the gateway the relayer model assumes: *)
(* an incoming message goes from none to approved to executed and never   *)
(* back, so no session signed later can approve an executed message again *)
(* (approveMessage, MessageAlreadyInitialised; validateMessage).           *)
ImplementsGateway == GW!GatewaySpec


-----------------------------------------------------------------------------
(***************************************************************************)
(* The invariants the proofs rest on (GatewayVerificationProofs).  None    *)
(* mentions a sum: with SessionWeightCounted, which TLC checks, they give *)
(* ApprovalBackedByQuorum and RotationSignedByLatest.                      *)
(***************************************************************************)

\* Before initializeConfig no tracker exists; after it the epoch counts at
\* least the initial signer sets.
ConfigInv ==
    /\ ~configured => epoch = 0 /\ \A vs \in VerifierSets : tracker[vs] = NoTracker
    /\ configured => epoch >= Len(InitialSignerSets)

\* A session's bitmap and the history agree: the verified (set, position)
\* pairs are the signing set paired with the marked slots.
SessionHistory ==
    \A r \in PayloadRoots :
        /\ session[r].set = NoSet =>
              signed[r] = {} /\ session[r].slots = {} /\ session[r].weight = 0
        /\ session[r].set # NoSet =>
              /\ signed[r] = {session[r].set} \X session[r].slots
              /\ session[r].slots \subseteq Positions(session[r].set)

\* Every approved message lies in a batch whose session is valid.
ApprovedBySession ==
    \A m \in Messages : incoming[m] # "None" =>
        \E r \in MessageRoots : m \in BatchOf[r] /\ SessionValid(r)

\* Every set a rotation the operator did not sign installed has a valid
\* session signed by the set one epoch older.
RotatedBySession ==
    \A vs \in VerifierSets :
        tracker[vs] > Len(InitialSignerSets) /\ vs \notin byOperator =>
            /\ SessionValid(vs)
            /\ tracker[session[vs].set] = tracker[vs] - 1

VInv == VerificationTypeOK /\ EpochsNumberSets /\ ConfigInv /\ SessionHistory
        /\ ApprovedBySession /\ RotatedBySession

=============================================================================
