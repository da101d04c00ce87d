------------------------------ MODULE MCRelayer ------------------------------
(***************************************************************************)
(* Small instances of Relayer for TLC: one message and two relay attempts *)
(* for it, a retry racing the first attempt over the shared payer.        *)
(***************************************************************************)
EXTENDS Relayer

CONSTANTS m1, a1, a2

MCOneMessage == {m1}
MCAttempts == {a1, a2}

=============================================================================
