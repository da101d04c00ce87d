-------------------- MODULE GatewayVerificationProofs ----------------------
(***************************************************************************)
(* Proofs about the gateway's verification side: the variables keep their *)
(* types, and the verified gateway implements the gateway the relayer     *)
(* model assumes (ImplementsGateway).  The quorum invariants              *)
(* (ApprovalBackedByQuorum, RotationSignedByLatest) compare a session's   *)
(* counter with a sum over a set (MapThenSumSet), whose add-one-element   *)
(* law needs induction over finite sets; they stay with TLC.              *)
(***************************************************************************)
EXTENDS GatewayVerification, TLAPS, SequenceTheorems

\* The leaf at a valid position of a verifier set is a signer with a
\* positive weight.
LEMMA LeafTyped ==
    ASSUME NEW vs \in VerifierSets, NEW pos \in Positions(vs)
    PROVE  /\ pos \in Nat
           /\ LeafWeight(vs, pos) \in Nat \ {0}
<1>1. Members[vs] \in Seq([signer : Signers, weight : Nat \ {0}])
  BY VerifierSetsAssumption
<1>2. Len(Members[vs]) \in Nat
  BY <1>1, LenProperties
<1>3. pos \in Nat /\ pos + 1 \in 1..Len(Members[vs])
  BY <1>2 DEF Positions
<1>4. Members[vs][pos + 1] \in [signer : Signers, weight : Nat \ {0}]
  BY <1>1, <1>3, ElementOfSeq
<1>5. QED
  BY <1>3, <1>4 DEF LeafWeight

\* The tracker initializeConfig writes for verifier set vs: the position
\* of vs among the initial signer sets, NoTracker when it is not one.
InitialTracker(vs) ==
    IF \E i \in DOMAIN InitialSignerSets : InitialSignerSets[i] = vs
    THEN CHOOSE i \in DOMAIN InitialSignerSets : InitialSignerSets[i] = vs
    ELSE NoTracker

\* initializeConfig's trackers are exactly InitialTracker.
LEMMA InitializeConfigTrackers ==
    ASSUME NEW op, InitializeConfig(op)
    PROVE  tracker' = [vs \in VerifierSets |-> InitialTracker(vs)]
BY DEF InitializeConfig, InitialTracker

\* A set with an initial tracker sits at that position of the initial sets.
LEMMA InitialTrackerOf ==
    ASSUME NEW vs \in VerifierSets, InitialTracker(vs) # NoTracker
    PROVE  /\ InitialTracker(vs) \in DOMAIN InitialSignerSets
           /\ InitialSignerSets[InitialTracker(vs)] = vs
<1>1. \E i \in DOMAIN InitialSignerSets : InitialSignerSets[i] = vs
  BY DEF InitialTracker
<1>2. QED
  BY <1>1 DEF InitialTracker

\* With no initial set repeated, position e holds the set whose tracker is e.
LEMMA InitialTrackerAt ==
    ASSUME \A i, j \in DOMAIN InitialSignerSets :
              i # j => InitialSignerSets[i] # InitialSignerSets[j],
           NEW e \in DOMAIN InitialSignerSets
    PROVE  InitialTracker(InitialSignerSets[e]) = e
<1>1. \E i \in DOMAIN InitialSignerSets :
          InitialSignerSets[i] = InitialSignerSets[e]
  OBVIOUS
<1>2. InitialTracker(InitialSignerSets[e]) \in DOMAIN InitialSignerSets
      /\ InitialSignerSets[InitialTracker(InitialSignerSets[e])] = InitialSignerSets[e]
  BY <1>1 DEF InitialTracker
<1>3. QED
  BY <1>2

\* initializeConfig numbers the initial signer sets 1..n: every tracker it
\* writes is an epoch up to the new current epoch.
LEMMA InitialTrackersTyped ==
    ASSUME NEW vs \in VerifierSets
    PROVE  InitialTracker(vs) \in 0..Len(InitialSignerSets)
<1>1. InitialSignerSets \in Seq(VerifierSets)
  BY VerifierSetsAssumption
<1>2. DOMAIN InitialSignerSets = 1..Len(InitialSignerSets)
  BY <1>1
<1>3. CASE InitialTracker(vs) # NoTracker
  BY <1>1, <1>2, <1>3, InitialTrackerOf
<1>4. CASE InitialTracker(vs) = NoTracker
  BY <1>1, <1>4 DEF NoTracker
<1>5. QED
  BY <1>3, <1>4

\* verifySignature's update of a session record keeps it a session record.
LEMMA SessionUpdateTyped ==
    ASSUME NEW s \in [open : BOOLEAN, slots : SUBSET Nat, weight : Nat,
                      set : VerifierSets \cup {NoSet}],
           NEW P \in SUBSET Nat, NEW w \in Nat, NEW v \in VerifierSets
    PROVE  [s EXCEPT !.slots = P, !.weight = w, !.set = v]
             \in [open : BOOLEAN, slots : SUBSET Nat, weight : Nat,
                  set : VerifierSets \cup {NoSet}]
OBVIOUS

\* Initially no config, tracker, session or incoming message exists.
LEMMA VInitTyped == VInit => VerificationTypeOK
<1> SUFFICES ASSUME VInit PROVE VerificationTypeOK
  OBVIOUS
<1>1. lastRotation \in 0..MaxTime /\ now \in 0..MaxTime /\ epoch \in Nat
  BY VerifierSetsAssumption DEF VInit
<1>2. tracker \in [VerifierSets -> 0..epoch]
  BY DEF VInit, NoTracker
<1>3. NoSession \in [open : BOOLEAN, slots : SUBSET Nat, weight : Nat,
                     set : VerifierSets \cup {NoSet}]
  BY DEF NoSession
<1>4. session \in [PayloadRoots -> [open : BOOLEAN, slots : SUBSET Nat,
                                    weight : Nat, set : VerifierSets \cup {NoSet}]]
  BY <1>3 DEF VInit
<1>5. QED
  BY <1>1, <1>2, <1>4 DEF VInit, VerificationTypeOK

\* Every instruction keeps the types: trackers never name an epoch beyond
\* the current one, sessions count positions and positive weights.
LEMMA VNextTyped == VerificationTypeOK /\ [VNext]_vars => VerificationTypeOK'
<1> SUFFICES ASSUME VerificationTypeOK, [VNext]_vars PROVE VerificationTypeOK'
  OBVIOUS
<1>1. ASSUME NEW op \in Operators, InitializeConfig(op) PROVE VerificationTypeOK'
  <2>1. epoch' = Len(InitialSignerSets) /\ epoch' \in Nat
    BY <1>1, VerifierSetsAssumption DEF InitializeConfig
  <2>2. tracker' \in [VerifierSets -> 0..epoch']
    BY <1>1, <2>1, InitialTrackersTyped, InitializeConfigTrackers
  <2>3. UNCHANGED <<now, session, incoming, signed, byOperator>>
        /\ configured' = TRUE /\ operator' = op /\ lastRotation' = now
    BY <1>1 DEF InitializeConfig
  <2>4. QED
    BY <2>1, <2>2, <2>3 DEF VerificationTypeOK
<1>2. ASSUME NEW r \in PayloadRoots, InitializePayloadVerificationSession(r)
      PROVE  VerificationTypeOK'
  BY <1>2 DEF InitializePayloadVerificationSession, VerificationTypeOK
<1>3. ASSUME NEW r \in PayloadRoots, NEW vs \in VerifierSets,
             NEW pos \in Positions(vs), NEW key \in Signers,
             VerifySignature(r, vs, pos, key)
      PROVE  VerificationTypeOK'
  <2>1. pos \in Nat /\ LeafWeight(vs, pos) \in Nat
    BY LeafTyped
  <2>2. session[r] \in [open : BOOLEAN, slots : SUBSET Nat, weight : Nat,
                        set : VerifierSets \cup {NoSet}]
    BY DEF VerificationTypeOK
  <2>3. [session[r] EXCEPT !.slots = @ \cup {pos},
                           !.weight = @ + LeafWeight(vs, pos), !.set = vs]
          \in [open : BOOLEAN, slots : SUBSET Nat, weight : Nat,
                set : VerifierSets \cup {NoSet}]
    <3>1. session[r].slots \cup {pos} \in SUBSET Nat
          /\ session[r].weight + LeafWeight(vs, pos) \in Nat
      BY <2>1, <2>2
    <3>2. QED
      BY <2>2, <3>1, SessionUpdateTyped
  <2>4. session' \in [PayloadRoots -> [open : BOOLEAN, slots : SUBSET Nat,
                                      weight : Nat, set : VerifierSets \cup {NoSet}]]
    BY <1>3, <2>3 DEF VerifySignature, VerificationTypeOK
  <2>5. signed' \in [PayloadRoots -> SUBSET (VerifierSets \X Nat)]
    BY <1>3, <2>1 DEF VerifySignature, VerificationTypeOK
  <2>6. QED
    BY <1>3, <2>4, <2>5 DEF VerifySignature, VerificationTypeOK
<1>4. ASSUME NEW r \in MessageRoots, NEW m \in Messages, ApproveMessage(r, m)
      PROVE  VerificationTypeOK'
  BY <1>4 DEF ApproveMessage, VerificationTypeOK
<1>5. ASSUME NEW new \in VerifierSets, NEW o \in BOOLEAN, RotateSigners(new, o)
      PROVE  VerificationTypeOK'
  BY <1>5 DEF RotateSigners, VerificationTypeOK
<1>6. ASSUME NEW s \in Operators \cup {UpgradeAuthority},
             NEW o \in Operators \cup {UpgradeAuthority},
             TransferOperatorship(s, o)
      PROVE  VerificationTypeOK'
  BY <1>6 DEF TransferOperatorship, VerificationTypeOK
<1>7. ASSUME NEW m \in Messages, ValidateMessage(m) PROVE VerificationTypeOK'
  BY <1>7 DEF ValidateMessage, VerificationTypeOK
<1>8. CASE Tick
  BY <1>8, VerifierSetsAssumption DEF Tick, VerificationTypeOK
<1>9. CASE UNCHANGED vars
  BY <1>9 DEF vars, VerificationTypeOK
<1>10. QED
  BY <1>1, <1>2, <1>3, <1>4, <1>5, <1>6, <1>7, <1>8, <1>9 DEF VNext

\* Whatever instructions the gateway runs, its accounts keep their types:
\* each verifier-set tracker holds an epoch no later than the config's
\* current epoch (initializeConfig numbering the initial sets, rotateSigners
\* writing epoch + 1 as it advances the epoch), and a session's bitmap and
\* weight count positions and positive leaf weights (verifySignature).
THEOREM VerificationTypeCorrect == VSpec => []VerificationTypeOK
BY VInitTyped, VNextTyped, PTL DEF VSpec


(***************************************************************************)
(* Refinement: the relayer's gateway model, with the payload PDAs held at *)
(* their initial values, is implemented by the verified gateway.  The     *)
(* mapping is the identity on incoming; approveMessage is the abstract    *)
(* approval, validateMessage the abstract execution, and every other      *)
(* instruction leaves the incoming-message PDAs alone and stutters.       *)
(***************************************************************************)

\* The initial gateway is the abstract initial gateway.
LEMMA GatewayInitRefined == VInit => GW!GatewayInit
BY DEF VInit, GW!GatewayInit, GW!PayloadKinds

\* approveMessage for a message of a signed batch is the abstract approval.
LEMMA ApproveRefined ==
    ASSUME NEW r \in MessageRoots, NEW m \in Messages, ApproveMessage(r, m)
    PROVE  GW!GatewayNext
<1>1. GW!ApproveMessage(m)
  BY DEF ApproveMessage, GW!ApproveMessage
<1>2. QED
  BY <1>1 DEF GW!GatewayNext

\* validateMessage is the abstract execution of an approved message.
LEMMA ValidateRefined ==
    ASSUME NEW m \in Messages, ValidateMessage(m)
    PROVE  GW!GatewayExecute(m)
BY DEF ValidateMessage, GW!GatewayExecute, GW!CanValidateMessage,
       GW!ValidateMessage

\* Every gateway instruction is an abstract gateway step or leaves the
\* incoming-message PDAs, the abstract state, unchanged.
LEMMA GatewayStepRefined ==
    [VNext]_vars =>
        [GW!GatewayNext \/ \E m \in Messages : GW!GatewayExecute(m)]_GW!gwVars
<1> SUFFICES ASSUME [VNext]_vars
             PROVE  [GW!GatewayNext \/ \E m \in Messages : GW!GatewayExecute(m)]_GW!gwVars
  OBVIOUS
<1>1. CASE \E r \in MessageRoots, m \in Messages : ApproveMessage(r, m)
  BY <1>1, ApproveRefined
<1>2. CASE \E m \in Messages : ValidateMessage(m)
  BY <1>2, ValidateRefined
<1>3. CASE \/ \E op \in Operators : InitializeConfig(op)
           \/ \E r \in PayloadRoots : InitializePayloadVerificationSession(r)
           \/ \E r \in PayloadRoots, vs \in VerifierSets :
                 \E pos \in Positions(vs), key \in Signers :
                    VerifySignature(r, vs, pos, key)
           \/ \E new \in VerifierSets, o \in BOOLEAN : RotateSigners(new, o)
           \/ \E s, o \in Operators \cup {UpgradeAuthority} :
                 TransferOperatorship(s, o)
           \/ Tick
           \/ UNCHANGED vars
  <2>1. UNCHANGED incoming
    <3>1. ASSUME NEW op \in Operators, InitializeConfig(op) PROVE UNCHANGED incoming
      BY <3>1 DEF InitializeConfig
    <3>2. ASSUME NEW r \in PayloadRoots, InitializePayloadVerificationSession(r)
          PROVE  UNCHANGED incoming
      BY <3>2 DEF InitializePayloadVerificationSession
    <3>3. ASSUME NEW r \in PayloadRoots, NEW vs \in VerifierSets,
                 NEW pos \in Positions(vs), NEW key \in Signers,
                 VerifySignature(r, vs, pos, key)
          PROVE  UNCHANGED incoming
      BY <3>3 DEF VerifySignature
    <3>4. ASSUME NEW new \in VerifierSets, NEW o \in BOOLEAN, RotateSigners(new, o)
          PROVE  UNCHANGED incoming
      BY <3>4 DEF RotateSigners
    <3>5. ASSUME NEW s \in Operators \cup {UpgradeAuthority},
                 NEW o \in Operators \cup {UpgradeAuthority},
                 TransferOperatorship(s, o)
          PROVE  UNCHANGED incoming
      BY <3>5 DEF TransferOperatorship
    <3>6. CASE Tick \/ UNCHANGED vars
      BY <3>6 DEF Tick, vars
    <3>7. QED
      BY <1>3, <3>1, <3>2, <3>3, <3>4, <3>5, <3>6
  <2>2. QED
    BY <2>1 DEF GW!gwVars
<1>4. QED
  BY <1>1, <1>2, <1>3 DEF VNext

\* The verified gateway (approveMessage guarded by MessageAlreadyInitialised,
\* validateMessage by MessageNotApproved) implements the gateway the relayer
\* model assumes: an incoming message goes from none to approved to
\* executed, never back, whatever sessions, signatures and rotations
\* interleave.
THEOREM GatewayRefinement == VSpec => ImplementsGateway
<1>1. VInit => GW!GatewayInit
  BY GatewayInitRefined
<1>2. [VNext]_vars =>
        [GW!GatewayNext \/ \E m \in Messages : GW!GatewayExecute(m)]_GW!gwVars
  BY GatewayStepRefined
<1>3. QED
  BY <1>1, <1>2, PTL DEF VSpec, ImplementsGateway, GW!GatewaySpec


(***************************************************************************)
(* EpochsNumberSets.  It is inductive together with the types, which bound *)
(* every tracker by the current epoch: a rotation's epoch + 1 is then new. *)
(***************************************************************************)

\* initializeConfig numbers the distinct initial sets by their positions.
LEMMA InitializeConfigNumbers ==
    ASSUME NEW op \in Operators, InitializeConfig(op)
    PROVE  EpochsNumberSets'
<1>1. tracker' = [vs \in VerifierSets |-> InitialTracker(vs)]
  BY InitializeConfigTrackers
<1>2. /\ InitialSignerSets \in Seq(VerifierSets)
      /\ DOMAIN InitialSignerSets = 1..Len(InitialSignerSets)
      /\ epoch' = Len(InitialSignerSets)
  BY VerifierSetsAssumption DEF InitializeConfig
<1>3. ASSUME NEW v \in VerifierSets, NEW w \in VerifierSets,
             tracker'[v] # NoTracker, tracker'[v] = tracker'[w]
      PROVE  v = w
  <2>1. InitialTracker(v) # NoTracker /\ InitialTracker(w) = InitialTracker(v)
    BY <1>1, <1>3
  <2>2. InitialSignerSets[InitialTracker(v)] = v
        /\ InitialSignerSets[InitialTracker(w)] = w
    BY <2>1, InitialTrackerOf
  <2>3. QED
    BY <2>1, <2>2
<1>4. ASSUME NEW e \in 1..epoch' PROVE \E vs \in VerifierSets : tracker'[vs] = e
  <2>1. e \in DOMAIN InitialSignerSets /\ InitialSignerSets[e] \in VerifierSets
    BY <1>2
  <2>2. InitialTracker(InitialSignerSets[e]) = e
    BY <2>1, InitialTrackerAt DEF InitializeConfig
  <2>3. QED
    BY <1>1, <2>1, <2>2
<1>5. QED
  BY <1>3, <1>4 DEF EpochsNumberSets

\* rotateSigners gives a set without a tracker the next epoch.
LEMMA RotateSignersNumbers ==
    ASSUME VerificationTypeOK, EpochsNumberSets,
           NEW new \in VerifierSets, NEW o \in BOOLEAN, RotateSigners(new, o)
    PROVE  EpochsNumberSets'
<1>1. /\ tracker' = [tracker EXCEPT ![new] = epoch + 1]
      /\ epoch' = epoch + 1
      /\ tracker[new] = NoTracker
  BY DEF RotateSigners
<1>2. tracker \in [VerifierSets -> 0..epoch] /\ epoch \in Nat
  BY DEF VerificationTypeOK
<1>3. ASSUME NEW v \in VerifierSets, NEW w \in VerifierSets,
             tracker'[v] # NoTracker, tracker'[v] = tracker'[w]
      PROVE  v = w
  BY <1>1, <1>2, <1>3 DEF EpochsNumberSets, NoTracker
<1>4. ASSUME NEW e \in 1..epoch' PROVE \E vs \in VerifierSets : tracker'[vs] = e
  <2>1. CASE e = epoch + 1
    BY <1>1, <1>2, <2>1
  <2>2. CASE e \in 1..epoch
    <3>1. PICK vs \in VerifierSets : tracker[vs] = e
      BY <2>2 DEF EpochsNumberSets
    <3>2. vs # new
      BY <1>1, <2>2, <3>1 DEF NoTracker
    <3>3. QED
      BY <1>1, <1>2, <3>1, <3>2
  <2>3. QED
    BY <1>1, <1>2, <2>1, <2>2
<1>5. QED
  BY <1>3, <1>4 DEF EpochsNumberSets

\* The other instructions leave the trackers and the epoch alone.
LEMMA NextNumbers ==
    ASSUME VerificationTypeOK, EpochsNumberSets, [VNext]_vars
    PROVE  EpochsNumberSets'
<1>1. CASE \E op \in Operators : InitializeConfig(op)
  BY <1>1, InitializeConfigNumbers
<1>2. CASE \E new \in VerifierSets, o \in BOOLEAN : RotateSigners(new, o)
  BY <1>2, RotateSignersNumbers
<1>3. CASE UNCHANGED <<tracker, epoch>>
  BY <1>3 DEF EpochsNumberSets
<1>4. ASSUME NEW r \in PayloadRoots, NEW vs \in VerifierSets,
             NEW pos \in Positions(vs), NEW key \in Signers,
             VerifySignature(r, vs, pos, key)
      PROVE  UNCHANGED <<tracker, epoch>>
  BY <1>4 DEF VerifySignature
<1>5. QED
  BY <1>1, <1>2, <1>3, <1>4
     DEF VNext, InitializePayloadVerificationSession, ApproveMessage,
         TransferOperatorship, ValidateMessage, Tick, vars

\* Whatever initializeConfig, rotations, sessions and signatures
\* interleave, the verifier-set trackers number the known sets 1..epoch,
\* one set per epoch: the latest verifier set rotateSigners checks against
\* is unique, and exists once the gateway is configured.
THEOREM EpochsNumbered == VSpec => []EpochsNumberSets
<1>1. VInit => VerificationTypeOK /\ EpochsNumberSets
  BY VInitTyped DEF VInit, EpochsNumberSets
<1>2. VerificationTypeOK /\ EpochsNumberSets /\ [VNext]_vars
        => (VerificationTypeOK /\ EpochsNumberSets)'
  BY VNextTyped, NextNumbers
<1>3. QED
  BY <1>1, <1>2, PTL DEF VSpec


(***************************************************************************)
(* The sum-free invariants (VInv).  Sessions are never closed and their   *)
(* weight only grows, so a valid session stays valid with the same       *)
(* signing set; approvals and rotations are then backed by a session for *)
(* ever.                                                                   *)
(***************************************************************************)

\* The sessions and history after verifySignature(q, vs, pos, key).
LEMMA VerifySignatureEffect ==
    ASSUME VerificationTypeOK, NEW q \in PayloadRoots, NEW vs \in VerifierSets,
           NEW pos \in Positions(vs), NEW key \in Signers,
           VerifySignature(q, vs, pos, key)
    PROVE  /\ \A x \in PayloadRoots \ {q} : session'[x] = session[x]
           /\ session'[q].open = session[q].open
           /\ session'[q].slots = session[q].slots \cup {pos}
           /\ session'[q].weight = session[q].weight + LeafWeight(vs, pos)
           /\ session'[q].set = vs
           /\ signed' = [signed EXCEPT ![q] = @ \cup {<<vs, pos>>}]
<1>1. session' = [session EXCEPT ![q].slots = session[q].slots \cup {pos},
                                 ![q].weight = session[q].weight + LeafWeight(vs, pos),
                                 ![q].set = vs]
  BY DEF VerifySignature
<1>2. session \in [PayloadRoots -> [open : BOOLEAN, slots : SUBSET Nat,
                                    weight : Nat, set : VerifierSets \cup {NoSet}]]
  BY DEF VerificationTypeOK
<1>3. /\ \A x \in PayloadRoots \ {q} : session'[x] = session[x]
      /\ session'[q].open = session[q].open
      /\ session'[q].slots = session[q].slots \cup {pos}
      /\ session'[q].weight = session[q].weight + LeafWeight(vs, pos)
      /\ session'[q].set = vs
  <2> DEFINE P == session[q].slots \cup {pos}
             w == session[q].weight + LeafWeight(vs, pos)
  <2>1. session' = [session EXCEPT ![q].slots = P, ![q].weight = w, ![q].set = vs]
    BY <1>1 DEF P, w
  <2>2. /\ \A x \in PayloadRoots \ {q} : session'[x] = session[x]
        /\ session'[q].open = session[q].open
        /\ session'[q].slots = P /\ session'[q].weight = w /\ session'[q].set = vs
    BY <1>2, <2>1
  <2>3. QED
    BY <2>2 DEF P, w
<1>4. signed' = [signed EXCEPT ![q] = @ \cup {<<vs, pos>>}]
  BY DEF VerifySignature
<1>5. QED
  BY <1>3, <1>4

\* A valid session stays valid and keeps its signing set: no instruction
\* closes a session, verifySignature only adds weight for the session's own
\* set, and the quorum of a set is fixed.
LEMMA SessionValidKept ==
    ASSUME VerificationTypeOK, [VNext]_vars, NEW r \in PayloadRoots, SessionValid(r)
    PROVE  SessionValid(r)' /\ session'[r].set = session[r].set
<1>1. session[r] \in [open : BOOLEAN, slots : SUBSET Nat, weight : Nat,
                      set : VerifierSets \cup {NoSet}]
  BY DEF VerificationTypeOK
<1>2. CASE UNCHANGED session
  BY <1>2 DEF SessionValid
<1>3. ASSUME NEW q \in PayloadRoots, InitializePayloadVerificationSession(q)
      PROVE  SessionValid(r)' /\ session'[r].set = session[r].set
  <2>1. q # r
    BY <1>3 DEF InitializePayloadVerificationSession, SessionValid
  <2>2. session'[r] = session[r]
    BY <1>3, <2>1 DEF InitializePayloadVerificationSession
  <2>3. QED
    BY <2>2 DEF SessionValid
<1>4. ASSUME NEW q \in PayloadRoots, NEW vs \in VerifierSets,
             NEW pos \in Positions(vs), NEW key \in Signers,
             VerifySignature(q, vs, pos, key)
      PROVE  SessionValid(r)' /\ session'[r].set = session[r].set
  <2>1. CASE q # r
    <3>1. session'[r] = session[r]
      BY <1>4, <2>1, VerifySignatureEffect
    <3>2. QED
      BY <3>1 DEF SessionValid
  <2>2. CASE q = r
    <3>1. session[r].set = vs
      BY <1>4, <2>2 DEF VerifySignature, SessionValid
    <3>2. LeafWeight(vs, pos) \in Nat
      BY LeafTyped
    <3>3. /\ session'[r].open = session[r].open
          /\ session'[r].weight = session[r].weight + LeafWeight(vs, pos)
          /\ session'[r].set = vs
      BY <1>4, <2>2, VerifySignatureEffect
    <3>4. Quorum[vs] \in Nat
      BY VerifierSetsAssumption
    <3>5. QED
      BY <1>1, <3>1, <3>2, <3>3, <3>4 DEF SessionValid
  <2>3. QED
    BY <2>1, <2>2
<1>5. QED
  BY <1>2, <1>3, <1>4
     DEF VNext, InitializeConfig, ApproveMessage, RotateSigners,
         TransferOperatorship, ValidateMessage, Tick, vars

\* initializeConfig creates the trackers and sets the epoch to the number
\* of initial sets; a rotation needs the config and only raises the epoch;
\* nothing else writes the config, the epoch or a tracker.
LEMMA ConfigKept ==
    ASSUME VerificationTypeOK, ConfigInv, [VNext]_vars
    PROVE  ConfigInv'
<1>1. CASE \E op \in Operators : InitializeConfig(op)
  BY <1>1 DEF InitializeConfig, ConfigInv
<1>2. ASSUME NEW new \in VerifierSets, NEW o \in BOOLEAN, RotateSigners(new, o)
      PROVE  ConfigInv'
  <2>1. configured' /\ epoch' = epoch + 1 /\ epoch \in Nat
    BY <1>2 DEF RotateSigners, VerificationTypeOK
  <2>2. epoch >= Len(InitialSignerSets)
    BY <1>2 DEF RotateSigners, ConfigInv
  <2>3. QED
    BY <2>1, <2>2 DEF ConfigInv
<1>3. CASE UNCHANGED <<configured, epoch, tracker>>
  BY <1>3 DEF ConfigInv
<1>4. ASSUME NEW r \in PayloadRoots, NEW vs \in VerifierSets,
             NEW pos \in Positions(vs), NEW key \in Signers,
             VerifySignature(r, vs, pos, key)
      PROVE  UNCHANGED <<configured, epoch, tracker>>
  BY <1>4 DEF VerifySignature
<1>5. QED
  BY <1>1, <1>2, <1>3, <1>4
     DEF VNext, InitializePayloadVerificationSession, ApproveMessage,
         TransferOperatorship, ValidateMessage, Tick, vars

\* initializePayloadVerificationSession only opens a session; it touches
\* neither its slots, its weight, its signing set nor the history.
LEMMA OpenSessionKeepsHistory ==
    ASSUME VerificationTypeOK, NEW q \in PayloadRoots,
           InitializePayloadVerificationSession(q), NEW r \in PayloadRoots
    PROVE  /\ session'[r].slots = session[r].slots
           /\ session'[r].weight = session[r].weight
           /\ session'[r].set = session[r].set
           /\ signed' = signed
BY DEF InitializePayloadVerificationSession, VerificationTypeOK

\* verifySignature adds the pair it verified to the history of the session
\* exactly as it adds the slot to the session's bitmap.
LEMMA VerifySignatureHistory ==
    ASSUME VerificationTypeOK, SessionHistory, NEW q \in PayloadRoots,
           NEW vs \in VerifierSets, NEW pos \in Positions(vs), NEW key \in Signers,
           VerifySignature(q, vs, pos, key), NEW r \in PayloadRoots
    PROVE  /\ session'[r].set = NoSet =>
                 signed'[r] = {} /\ session'[r].slots = {} /\ session'[r].weight = 0
           /\ session'[r].set # NoSet =>
                 /\ signed'[r] = {session'[r].set} \X session'[r].slots
                 /\ session'[r].slots \subseteq Positions(session'[r].set)
<1>1. signed' = [signed EXCEPT ![q] = @ \cup {<<vs, pos>>}]
      /\ signed \in [PayloadRoots -> SUBSET (VerifierSets \X Nat)]
  BY VerifySignatureEffect DEF VerificationTypeOK
<1>2. CASE r # q
  <2>1. session'[r] = session[r] /\ signed'[r] = signed[r]
    BY <1>1, <1>2, VerifySignatureEffect
  <2>2. QED
    BY <2>1 DEF SessionHistory
<1>3. CASE r = q
  <2>1. /\ session'[q].slots = session[q].slots \cup {pos}
        /\ session'[q].set = vs
        /\ signed'[q] = signed[q] \cup {<<vs, pos>>}
    BY <1>1, VerifySignatureEffect
  <2>2. session[q].set \in {NoSet, vs}
    BY DEF VerifySignature
  <2>3. vs # NoSet
    BY NoSetAssumption
  <2>4. CASE session[q].set = NoSet
    <3>1. signed[q] = {} /\ session[q].slots = {}
      BY <2>4 DEF SessionHistory
    <3>2. QED
      BY <1>3, <2>1, <2>3, <3>1
  <2>5. CASE session[q].set = vs
    <3>1. /\ signed[q] = {vs} \X session[q].slots
          /\ session[q].slots \subseteq Positions(vs)
      BY <2>3, <2>5 DEF SessionHistory
    <3>2. QED
      BY <1>3, <2>1, <2>3, <3>1
  <2>6. QED
    BY <2>2, <2>4, <2>5
<1>4. QED
  BY <1>2, <1>3

\* The bitmap, the weight and the signing set of every session move with
\* the history of verified signatures, whatever instruction runs.
LEMMA HistoryKept ==
    ASSUME VerificationTypeOK, SessionHistory, [VNext]_vars
    PROVE  SessionHistory'
<1>1. ASSUME NEW q \in PayloadRoots, NEW vs \in VerifierSets,
             NEW pos \in Positions(vs), NEW key \in Signers,
             VerifySignature(q, vs, pos, key)
      PROVE  SessionHistory'
  BY <1>1, VerifySignatureHistory DEF SessionHistory
<1>2. ASSUME NEW q \in PayloadRoots, InitializePayloadVerificationSession(q)
      PROVE  SessionHistory'
  BY <1>2, OpenSessionKeepsHistory DEF SessionHistory
<1>3. CASE UNCHANGED <<session, signed>>
  BY <1>3 DEF SessionHistory
<1>4. QED
  BY <1>1, <1>2, <1>3
     DEF VNext, InitializeConfig, ApproveMessage, RotateSigners,
         TransferOperatorship, ValidateMessage, Tick, vars

\* Only approveMessage and validateMessage write an incoming-message PDA.
LEMMA IncomingWriters ==
    ASSUME [VNext]_vars
    PROVE  \/ \E r \in MessageRoots, m \in Messages : ApproveMessage(r, m)
           \/ \E m \in Messages : ValidateMessage(m)
           \/ UNCHANGED incoming
<1>1. ASSUME NEW q \in PayloadRoots, NEW vs \in VerifierSets,
             NEW pos \in Positions(vs), NEW key \in Signers,
             VerifySignature(q, vs, pos, key)
      PROVE  UNCHANGED incoming
  BY <1>1 DEF VerifySignature
<1>2. ASSUME NEW new \in VerifierSets, NEW o \in BOOLEAN, RotateSigners(new, o)
      PROVE  UNCHANGED incoming
  BY <1>2 DEF RotateSigners
<1>3. QED
  BY <1>1, <1>2
     DEF VNext, InitializeConfig, InitializePayloadVerificationSession,
         TransferOperatorship, Tick, vars

\* A message leaves "None" only through approveMessage, which needs a valid
\* session over a batch holding it; the session stays valid for ever.
LEMMA ApprovedKept ==
    ASSUME VerificationTypeOK, ApprovedBySession, [VNext]_vars
    PROVE  ApprovedBySession'
<1> SUFFICES ASSUME NEW m \in Messages, incoming'[m] # "None"
             PROVE  \E r \in MessageRoots : m \in BatchOf[r] /\ SessionValid(r)'
  BY DEF ApprovedBySession
<1>1. CASE incoming[m] # "None"
  <2>1. PICK r \in MessageRoots : m \in BatchOf[r] /\ SessionValid(r)
    BY <1>1 DEF ApprovedBySession
  <2>2. SessionValid(r)'
    BY <2>1, SessionValidKept DEF PayloadRoots
  <2>3. QED
    BY <2>1, <2>2
<1>2. CASE incoming[m] = "None"
  <2>1. ASSUME NEW r \in MessageRoots, NEW m2 \in Messages, ApproveMessage(r, m2)
        PROVE  \E r2 \in MessageRoots : m \in BatchOf[r2] /\ SessionValid(r2)'
    <3>1. m2 = m
      BY <1>2, <2>1 DEF ApproveMessage, VerificationTypeOK
    <3>2. m \in BatchOf[r] /\ SessionValid(r)'
      BY <2>1, <3>1 DEF ApproveMessage, SessionValid
    <3>3. QED
      BY <3>2
  <2>2. ASSUME NEW m2 \in Messages, ValidateMessage(m2)
        PROVE  FALSE
    BY <1>2, <2>2 DEF ValidateMessage, VerificationTypeOK
  <2>3. CASE UNCHANGED incoming
    BY <1>2, <2>3
  <2>4. QED
    BY <2>1, <2>2, <2>3, IncomingWriters
<1>3. QED
  BY <1>1, <1>2

\* There is at least one initial signer set.
LEMMA InitialSetsNonEmpty == Len(InitialSignerSets) \in Nat \ {0}
BY VerifierSetsAssumption, EmptySeq, LenProperties

\* A set whose tracker is at an epoch of the initial sets or later is not a
\* set still without a tracker.
LEMMA TrackedIsNotNew ==
    ASSUME NEW new \in VerifierSets,
           tracker[new] = NoTracker, NEW v \in VerifierSets,
           tracker[v] >= Len(InitialSignerSets)
    PROVE  v # new
BY InitialSetsNonEmpty DEF NoTracker

\* The rotation to a new set: if the operator does not sign it, the
\* session's signing set had the latest epoch, which precedes the new one,
\* and every earlier rotation keeps its signing set's tracker.
LEMMA RotateSignersRotated ==
    ASSUME VerificationTypeOK, ConfigInv, RotatedBySession,
           NEW new \in VerifierSets, NEW o \in BOOLEAN, RotateSigners(new, o),
           NEW vs \in VerifierSets,
           tracker'[vs] > Len(InitialSignerSets), vs \notin byOperator'
    PROVE  SessionValid(vs)' /\ tracker'[session'[vs].set] = tracker'[vs] - 1
<1>1. /\ configured /\ SessionValid(new) /\ tracker[new] = NoTracker
      /\ tracker' = [tracker EXCEPT ![new] = epoch + 1]
      /\ byOperator' = IF o THEN byOperator \cup {new} ELSE byOperator
      /\ session' = session
  BY DEF RotateSigners
<1>2. /\ tracker \in [VerifierSets -> 0..epoch] /\ epoch \in Nat
      /\ epoch >= Len(InitialSignerSets)
      /\ session \in [PayloadRoots -> [open : BOOLEAN, slots : SUBSET Nat,
                                        weight : Nat, set : VerifierSets \cup {NoSet}]]
  BY <1>1 DEF VerificationTypeOK, ConfigInv
<1>3. CASE vs = new
  <2>1. ~o
    BY <1>1, <1>3
  <2>2. tracker[session[new].set] = epoch
    BY <1>1, <2>1 DEF RotateSigners
  <2>3. session[new].set \in VerifierSets
    BY <1>1, <1>2 DEF SessionValid, PayloadRoots
  <2>4. session[new].set # new
    BY <1>1, <1>2, <2>2, <2>3, TrackedIsNotNew
  <2>5. QED
    BY <1>1, <1>2, <1>3, <2>2, <2>3, <2>4 DEF SessionValid
<1>4. CASE vs # new
  <2>1. tracker'[vs] = tracker[vs] /\ vs \notin byOperator
    BY <1>1, <1>2, <1>4
  <2>2. SessionValid(vs) /\ tracker[session[vs].set] = tracker[vs] - 1
    BY <2>1 DEF RotatedBySession
  <2>3. session[vs].set \in VerifierSets
    BY <1>2, <2>2 DEF SessionValid, PayloadRoots
  <2>4. tracker[session[vs].set] >= Len(InitialSignerSets)
    BY <1>2, <2>1, <2>2, <2>3
  <2>5. session[vs].set # new
    BY <1>1, <1>2, <2>3, <2>4, TrackedIsNotNew
  <2>6. QED
    BY <1>1, <1>2, <2>1, <2>2, <2>3, <2>5 DEF SessionValid
<1>5. QED
  BY <1>3, <1>4

\* Every set installed by a rotation the operator did not sign keeps a
\* valid session signed by the set one epoch before it, whatever runs next.
LEMMA RotatedKept ==
    ASSUME VerificationTypeOK, ConfigInv, RotatedBySession, [VNext]_vars
    PROVE  RotatedBySession'
<1> SUFFICES ASSUME NEW vs \in VerifierSets,
                    tracker'[vs] > Len(InitialSignerSets), vs \notin byOperator'
             PROVE  SessionValid(vs)' /\ tracker'[session'[vs].set] = tracker'[vs] - 1
  BY DEF RotatedBySession
<1>1. ASSUME NEW op \in Operators, InitializeConfig(op)
      PROVE  FALSE
  BY <1>1, InitializeConfigTrackers, InitialTrackersTyped
<1>2. CASE \E new \in VerifierSets, o \in BOOLEAN : RotateSigners(new, o)
  BY <1>2, RotateSignersRotated
<1>3. CASE UNCHANGED <<tracker, byOperator>>
  <2>1. SessionValid(vs) /\ tracker[session[vs].set] = tracker[vs] - 1
    BY <1>3 DEF RotatedBySession
  <2>2. SessionValid(vs)' /\ session'[vs].set = session[vs].set
    BY <2>1, SessionValidKept DEF PayloadRoots
  <2>3. QED
    BY <1>3, <2>1, <2>2
<1>4. ASSUME NEW q \in PayloadRoots, NEW v \in VerifierSets,
             NEW pos \in Positions(v), NEW key \in Signers,
             VerifySignature(q, v, pos, key)
      PROVE  UNCHANGED <<tracker, byOperator>>
  BY <1>4 DEF VerifySignature
<1>5. QED
  BY <1>1, <1>2, <1>3, <1>4
     DEF VNext, InitializePayloadVerificationSession, ApproveMessage,
         TransferOperatorship, ValidateMessage, Tick, vars

\* The sum-free invariants hold from the start and every instruction keeps
\* them.
LEMMA VInitInv == VInit => VInv
<1> SUFFICES ASSUME VInit PROVE VInv
  OBVIOUS
<1>1. VerificationTypeOK /\ EpochsNumberSets
  BY VInitTyped DEF VInit, EpochsNumberSets
<1>2. ConfigInv
  BY DEF VInit, ConfigInv
<1>3. SessionHistory
  BY DEF VInit, SessionHistory, NoSession
<1>4. ApprovedBySession /\ RotatedBySession
  BY InitialSetsNonEmpty DEF VInit, ApprovedBySession, RotatedBySession, NoTracker
<1>5. QED
  BY <1>1, <1>2, <1>3, <1>4 DEF VInv

LEMMA VNextInv == VInv /\ [VNext]_vars => VInv'
<1> SUFFICES ASSUME VInv, [VNext]_vars PROVE VInv'
  OBVIOUS
<1>1. VerificationTypeOK'
  BY VNextTyped DEF VInv
<1>2. EpochsNumberSets'
  BY NextNumbers DEF VInv
<1>3. ConfigInv'
  BY ConfigKept DEF VInv
<1>4. SessionHistory'
  BY HistoryKept DEF VInv
<1>5. ApprovedBySession'
  BY ApprovedKept DEF VInv
<1>6. RotatedBySession'
  BY RotatedKept DEF VInv
<1>7. QED
  BY <1>1, <1>2, <1>3, <1>4, <1>5, <1>6 DEF VInv

\* In every run, each approved message has a valid session over a batch
\* holding it, each rotation the operator did not sign has a valid session
\* signed by the set of the preceding epoch, and the history of verified
\* signatures of each session is exactly its signing set paired with the
\* slots of its bitmap (a session no signature reached has no history and
\* zero weight).  That a signed session's weight is the sum of its slots'
\* weights (SessionWeightCounted) is not part of it.
THEOREM VInvInvariant == VSpec => []VInv
BY VInitInv, VNextInv, PTL DEF VSpec

\* Where each session's weight is the weight of its verified leaves, the
\* session behind an approval is a quorum of its signing set.
LEMMA ApprovalFromCount ==
    VInv /\ SessionWeightCounted => ApprovalBackedByQuorum
<1> SUFFICES ASSUME VInv, SessionWeightCounted, NEW m \in Messages,
                    incoming[m] # "None"
             PROVE  \E r \in MessageRoots, vs \in VerifierSets :
                       m \in BatchOf[r] /\ SignedWeight(r, vs) >= Quorum[vs]
  BY DEF ApprovalBackedByQuorum
<1>1. PICK r \in MessageRoots : m \in BatchOf[r] /\ SessionValid(r)
  BY DEF VInv, ApprovedBySession
<1>2. session[r].set \in VerifierSets
  BY <1>1 DEF VInv, VerificationTypeOK, SessionValid, PayloadRoots
<1>3. session[r].weight = SignedWeight(r, session[r].set)
  BY <1>1 DEF SessionWeightCounted, SessionValid, PayloadRoots
<1>4. QED
  BY <1>1, <1>2, <1>3 DEF SessionValid

\* Where each session's weight is the weight of its verified leaves, the
\* session behind a rotation the operator did not sign is a quorum of the
\* set one epoch before the new one.
LEMMA RotationFromCount ==
    VInv /\ SessionWeightCounted => RotationSignedByLatest
<1> SUFFICES ASSUME VInv, SessionWeightCounted, NEW vs \in VerifierSets,
                    tracker[vs] > Len(InitialSignerSets), vs \notin byOperator
             PROVE  \E prev \in VerifierSets :
                       /\ tracker[prev] = tracker[vs] - 1
                       /\ SignedWeight(vs, prev) >= Quorum[prev]
  BY DEF RotationSignedByLatest
<1>1. SessionValid(vs) /\ tracker[session[vs].set] = tracker[vs] - 1
  BY DEF VInv, RotatedBySession
<1>2. session[vs].set \in VerifierSets
  BY <1>1 DEF VInv, VerificationTypeOK, SessionValid, PayloadRoots
<1>3. session[vs].weight = SignedWeight(vs, session[vs].set)
  BY <1>1 DEF SessionWeightCounted, SessionValid, PayloadRoots
<1>4. QED
  BY <1>1, <1>2, <1>3 DEF SessionValid

\* Every approval is backed by a quorum of one verifier set in every state
\* where the sessions' weights count their verified leaves (which TLC
\* checks as SessionWeightCounted): racing verifySignature calls and
\* signatures of several sets cannot approve a message otherwise.
THEOREM ApprovalQuorumIfCounted ==
    VSpec => [](SessionWeightCounted => ApprovalBackedByQuorum)
BY VInvInvariant, ApprovalFromCount, PTL

\* Every rotation the operator did not sign is backed by a quorum of the
\* latest set at the time in every state where the sessions' weights count
\* their verified leaves.
THEOREM RotationLatestIfCounted ==
    VSpec => [](SessionWeightCounted => RotationSignedByLatest)
BY VInvInvariant, RotationFromCount, PTL

\* Under the history invariant, the weight a session's signing set signed
\* for it is the sum of the leaf weights over the session's slot bitmap:
\* SessionWeightCounted says exactly that the counter verifySignature
\* keeps is that sum.
LEMMA SignedWeightOfSlots ==
    ASSUME VerificationTypeOK, SessionHistory, NEW r \in PayloadRoots,
           session[r].set # NoSet
    PROVE  SignedWeight(r, session[r].set)
             = MapThenSumSet(LAMBDA pos : LeafWeight(session[r].set, pos),
                             session[r].slots)
<1> DEFINE vs == session[r].set
<1>1. /\ signed[r] = {vs} \X session[r].slots
      /\ session[r].slots \subseteq Positions(vs)
  BY DEF SessionHistory, vs
<1>2. {pos \in Positions(vs) : <<vs, pos>> \in signed[r]} = session[r].slots
  BY <1>1
<1>3. QED
  BY <1>2, Zenon DEF SignedWeight, vs

=============================================================================
