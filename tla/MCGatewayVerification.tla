----------------------- MODULE MCGatewayVerification -----------------------
(***************************************************************************)
(* A small instance of GatewayVerification: one message in one batch,     *)
(* three verifier sets over three signers with unequal weights (v1 is the *)
(* initial set; v2 and v3 can be rotated to), two operators.              *)
(***************************************************************************)
EXTENDS GatewayVerification, TLC

CONSTANTS m1, s1, s2, s3, v1, v2, v3, b1, op1, op2, ua

MCMessages == {m1}
MCSigners == {s1, s2, s3}
MCVerifierSets == {v1, v2, v3}

\* v1: three signers of weight 1, quorum 2; v2: s3 alone reaches the
\* quorum 2; v3: two signers, both needed.
MCMembers ==
    v1 :> << [signer |-> s1, weight |-> 1], [signer |-> s2, weight |-> 1],
             [signer |-> s3, weight |-> 1] >>
    @@ v2 :> << [signer |-> s2, weight |-> 1], [signer |-> s3, weight |-> 2] >>
    @@ v3 :> << [signer |-> s1, weight |-> 1], [signer |-> s2, weight |-> 1] >>

MCQuorum == v1 :> 2 @@ v2 :> 2 @@ v3 :> 2

MCMessageRoots == {b1}
MCBatchOf == b1 :> {m1}
MCInitialSignerSets == <<v1>>
MCOperators == {op1, op2}

\* The two operator keys play the same role.
MCSymmetry == Permutations(MCOperators)

=============================================================================
