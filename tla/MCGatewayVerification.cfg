CONSTANTS
    m1 = m1
    s1 = s1
    s2 = s2
    s3 = s3
    v1 = v1
    v2 = v2
    v3 = v3
    b1 = b1
    op1 = op1
    op2 = op2
    ua = ua
    Messages <- MCMessages
    Signers <- MCSigners
    VerifierSets <- MCVerifierSets
    Members <- MCMembers
    Quorum <- MCQuorum
    MessageRoots <- MCMessageRoots
    BatchOf <- MCBatchOf
    InitialSignerSets <- MCInitialSignerSets
    Operators <- MCOperators
    UpgradeAuthority = ua
    Retention = 2
    MinRotationDelay = 1
    MaxTime = 2
SPECIFICATION VSpec
SYMMETRY MCSymmetry
CHECK_DEADLOCK FALSE
INVARIANTS
    VerificationTypeOK
    ApprovalBackedByQuorum
    SessionWeightCounted
    RotationSignedByLatest
    EpochsNumberSets
PROPERTIES
    ImplementsGateway
