------------------------------ MODULE RelaySpec ------------------------------
(***************************************************************************)
(* What a relayer promises for its relay attempts, with no descriptors,   *)
(* rounds or payer: each attempt relays one message and ends Executed or  *)
(* Failed.  An attempt executes only a message the gateway approved, and  *)
(* executing consumes the approval.  An attempt may fail after its final  *)
(* transaction landed (its answer was lost), and then the approval is     *)
(* consumed as well.  The gateway approves messages at any time.  Every   *)
(* attempt eventually ends (spec sections 4.4, 4.6, 5 and 7).             *)
(***************************************************************************)
CONSTANTS Messages, Attempts

VARIABLES
    approval,   \* approval[m] : "None", "Approved" or "Executed" at the gateway
    outcome,    \* outcome[a]  : "Running", "Executed" or "Failed"
    relays      \* relays[a]   : the message attempt a relays

avars == <<approval, outcome, relays>>

Outcomes == {"Running", "Executed", "Failed"}

AbsTypeOK ==
    /\ approval \in [Messages -> {"None", "Approved", "Executed"}]
    /\ outcome \in [Attempts -> Outcomes]
    /\ relays \in [Attempts -> Messages]

AbsInit ==
    /\ approval = [m \in Messages |-> "None"]
    /\ outcome = [a \in Attempts |-> "Running"]
    /\ relays \in [Attempts -> Messages]

\* The gateway approves a message once.
Approve(m) ==
    /\ approval[m] = "None"
    /\ approval' = [approval EXCEPT ![m] = "Approved"]
    /\ UNCHANGED <<outcome, relays>>

\* Attempt a executes its approved message and reports it.
Succeed(a) ==
    /\ outcome[a] = "Running"
    /\ approval[relays[a]] = "Approved"
    /\ approval' = [approval EXCEPT ![relays[a]] = "Executed"]
    /\ outcome' = [outcome EXCEPT ![a] = "Executed"]
    /\ UNCHANGED relays

\* Attempt a reports a failure and leaves the gateway alone.
GiveUp(a) ==
    /\ outcome[a] = "Running"
    /\ outcome' = [outcome EXCEPT ![a] = "Failed"]
    /\ UNCHANGED <<approval, relays>>

\* Attempt a reports a failure although its transaction consumed the approval.
FailAfterLanding(a) ==
    /\ outcome[a] = "Running"
    /\ approval[relays[a]] = "Approved"
    /\ approval' = [approval EXCEPT ![relays[a]] = "Executed"]
    /\ outcome' = [outcome EXCEPT ![a] = "Failed"]
    /\ UNCHANGED relays

Finish(a) == Succeed(a) \/ GiveUp(a) \/ FailAfterLanding(a)

AbsNext ==
    \/ \E m \in Messages : Approve(m)
    \/ \E a \in Attempts : Finish(a)

\* A running attempt is not left running forever.
AbsSpec == AbsInit /\ [][AbsNext]_avars /\ \A a \in Attempts : WF_avars(Finish(a))

AbsSafety == AbsInit /\ [][AbsNext]_avars

=============================================================================
