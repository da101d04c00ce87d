------------------------------- MODULE Relayer -------------------------------
(***************************************************************************)
(* The relayer side of relayer discovery (part_000, "Relayer" steps 1-5,  *)
(* and the loop "while (!is_final) simulate; execute"), composed with the *)
(* gateway and the destination programs.  Each relay attempt is an        *)
(* independent task that fetches the destination's transaction PDA,       *)
(* simulates non-final descriptors until one is final, checks the payer   *)
(* request against the gas budget, tops the shared payer up to exactly    *)
(* the request and executes.  Attempts run concurrently and share only    *)
(* the payer account and the ledger.                                       *)
(*                                                                         *)
(* The round bound, the cancellation at suspension points and the lock    *)
(* serialising access to the payer come from the spec (sections 4.4, 4.5, *)
(* 5): the relayer code is not in the repository.                          *)
(***************************************************************************)
EXTENDS Its

CONSTANTS
    Attempts,       \* relay attempts (model values); several may target one message
    MaxRounds,      \* configured maximum number of decoded descriptors
    GasBudget,      \* lamports of the gas budget allotted to relay a message
    PayerStart,     \* balance of the payer account when the relayer starts
    LockSpan        \* "fund": lock held over check-and-top-up only;
                    \* "execute": held from the balance check to the end of execution

\* The value of the payer lock when no attempt holds it.
NoAttempt == "none"

ASSUME AttemptsAssumption == Attempts # {} /\ NoAttempt \notin Attempts
ASSUME MaxRoundsAssumption == MaxRounds \in Nat \ {0}
ASSUME GasBudgetAssumption == GasBudget \in Nat
ASSUME PayerStartAssumption == PayerStart \in Nat
ASSUME LockSpanAssumption == LockSpan \in {"fund", "execute"}

Phases == {"Start", "Decoded", "Final", "CheckBalance", "TopUp", "Funded",
           "Executed", "Failed"}

Errors == {"none", "AccountNotFound", "DecodeError", "SimulationFailure",
           "RpcFailure", "MaxRoundsExceeded", "FundingMismatch",
           "ExecutionFailure", "Cancelled"}

\* The phases at which an attempt waits on the network and can be cancelled.
SuspensionPoints == {"Start", "Decoded", "CheckBalance", "TopUp", "Funded"}

Terminal == {"Executed", "Failed"}

VARIABLES
    dest,       \* dest[m]    : the destination program of message m
    itsPdaSet,  \* the ITS one-time setup has written its transaction PDA
    target,     \* target[a]  : the message attempt a relays
    phase,      \* phase[a]   : where attempt a is in the resolution loop
    desc,       \* desc[a]    : the descriptor attempt a currently holds
    round,      \* round[a]   : number of descriptors attempt a has decoded
    seen,       \* seen[a]    : payer balance attempt a read before topping up
    err,        \* err[a]     : why attempt a failed
    payerBal,   \* lamports in the shared payer account
    lock        \* the attempt holding the payer, or NoAttempt

relVars == <<dest, itsPdaSet, target, phase, desc, round, seen, err, payerBal, lock>>
vars == <<gwVars, relVars>>

TypeOK ==
    /\ GatewayTypeOK
    /\ dest \in [Messages -> Programs]
    /\ itsPdaSet \in BOOLEAN
    /\ target \in [Attempts -> Messages]
    /\ phase \in [Attempts -> Phases]
    /\ desc \in [Attempts -> Descriptors \cup {NoDescriptor}]
    /\ round \in [Attempts -> 0..MaxRounds]
    /\ seen \in [Attempts -> Nat]
    /\ err \in [Attempts -> Errors]
    /\ payerBal \in Nat
    /\ lock \in Attempts \cup {NoAttempt}

Init ==
    /\ GatewayInit
    /\ dest \in [Messages -> Programs]
    /\ itsPdaSet = FALSE
    /\ target \in [Attempts -> Messages]
    /\ phase = [a \in Attempts |-> "Start"]
    /\ desc = [a \in Attempts |-> NoDescriptor]
    /\ round = [a \in Attempts |-> 0]
    /\ seen = [a \in Attempts |-> 0]
    /\ err = [a \in Attempts |-> "none"]
    /\ payerBal = PayerStart
    /\ lock = NoAttempt

(***************************************************************************)
(* The one-time ITS setup: find_program_address with the single seed and  *)
(* init_pda_raw_bytes of the serialized StoredDescriptor; creating an      *)
(* existing PDA fails.                                                     *)
(***************************************************************************)
InitTransactionPda ==
    /\ ~itsPdaSet
    /\ itsPdaSet' = TRUE
    /\ UNCHANGED <<gwVars, dest, target, phase, desc, round, seen, err, payerBal, lock>>

\* Attempt a stops with error e, giving the payer back if it holds it.
\* Fault variant: failing without giving the payer back.
FailKeepingPayer(a, e) ==
    /\ phase' = [phase EXCEPT ![a] = "Failed"]
    /\ err' = [err EXCEPT ![a] = e]
    /\ lock' = lock

Fail(a, e) ==
    /\ phase' = [phase EXCEPT ![a] = "Failed"]
    /\ err' = [err EXCEPT ![a] = e]
    /\ lock' = IF lock = a THEN NoAttempt ELSE lock

\* Attempt a has decoded descriptor d: loop again unless it is final.
Decode(a, d) ==
    /\ desc' = [desc EXCEPT ![a] = d]
    /\ round' = [round EXCEPT ![a] = @ + 1]
    /\ phase' = [phase EXCEPT ![a] = IF d.is_final THEN "Final" ELSE "Decoded"]

(***************************************************************************)
(* Step 1-2: getAccountInfo on the transaction PDA of the destination and *)
(* decode it; AccountNotFound when the program published nothing.          *)
(***************************************************************************)
Fetch(a) ==
    LET p == dest[target[a]] IN
    /\ phase[a] = "Start"
    /\ IF HasTransactionPda(p, itsPdaSet)
       THEN Decode(a, TransactionPdaBytes(p)) /\ UNCHANGED <<err, lock>>
       ELSE Fail(a, "AccountNotFound") /\ UNCHANGED <<desc, round>>
    /\ UNCHANGED <<gwVars, dest, itsPdaSet, target, seen, payerBal>>

(***************************************************************************)
(* Steps 2-3, the loop body: materialize the non-final descriptor,        *)
(* simulateTransaction, decode the return data.  A handler error is a     *)
(* SimulationFailure, missing return data a DecodeError, a transport      *)
(* failure an RpcFailure; the round bound stops a chain that never ends.  *)
(***************************************************************************)
\* Fault variant: the round bound tested with <= instead of <.
SimulateRoundOffByOne(a) ==
    LET r == Simulate(MaterializeAll(desc[a], target[a])) IN
    /\ phase[a] = "Decoded"
    /\ \/ /\ r.status = "HandlerError"
          /\ Fail(a, "SimulationFailure") /\ UNCHANGED <<desc, round>>
       \/ /\ r.status = "NoReturnData"
          /\ Fail(a, "DecodeError") /\ UNCHANGED <<desc, round>>
       \/ /\ r.status = "Ok"
          /\ round[a] > MaxRounds
          /\ Fail(a, "MaxRoundsExceeded") /\ UNCHANGED <<desc, round>>
       \/ /\ r.status = "Ok"
          /\ round[a] <= MaxRounds
          /\ Decode(a, r.tx) /\ UNCHANGED <<err, lock>>
       \/ Fail(a, "RpcFailure") /\ UNCHANGED <<desc, round>>
    /\ UNCHANGED <<gwVars, dest, itsPdaSet, target, seen, payerBal>>

SimulateRound(a) ==
    LET r == Simulate(MaterializeAll(desc[a], target[a])) IN
    /\ phase[a] = "Decoded"
    /\ \/ /\ r.status = "HandlerError"
          /\ Fail(a, "SimulationFailure") /\ UNCHANGED <<desc, round>>
       \/ /\ r.status = "NoReturnData"
          /\ Fail(a, "DecodeError") /\ UNCHANGED <<desc, round>>
       \/ /\ r.status = "Ok"
          /\ round[a] = MaxRounds
          /\ Fail(a, "MaxRoundsExceeded") /\ UNCHANGED <<desc, round>>
       \/ /\ r.status = "Ok"
          /\ round[a] < MaxRounds
          /\ Decode(a, r.tx) /\ UNCHANGED <<err, lock>>
       \/ Fail(a, "RpcFailure") /\ UNCHANGED <<desc, round>>
    /\ UNCHANGED <<gwVars, dest, itsPdaSet, target, seen, payerBal>>

(***************************************************************************)
(* Step 4: the final descriptor's Payer request must fit the gas budget,  *)
(* else FundingMismatch and no transfer.  Within budget, the attempt      *)
(* waits for exclusive use of the payer.                                   *)
(***************************************************************************)
RejectFunding(a) ==
    /\ phase[a] = "Final"
    /\ Requested(desc[a]) > GasBudget
    /\ Fail(a, "FundingMismatch")
    /\ UNCHANGED <<gwVars, dest, itsPdaSet, target, desc, round, seen, payerBal>>

\* Fault variant: the gas-budget check left out.
AcquirePayerNoBudgetCheck(a) ==
    /\ phase[a] = "Final"
    /\ lock = NoAttempt
    /\ lock' = a
    /\ phase' = [phase EXCEPT ![a] = "CheckBalance"]
    /\ UNCHANGED <<gwVars, dest, itsPdaSet, target, desc, round, seen, err, payerBal>>

AcquirePayer(a) ==
    /\ phase[a] = "Final"
    /\ Requested(desc[a]) <= GasBudget
    /\ lock = NoAttempt
    /\ lock' = a
    /\ phase' = [phase EXCEPT ![a] = "CheckBalance"]
    /\ UNCHANGED <<gwVars, dest, itsPdaSet, target, desc, round, seen, err, payerBal>>

\* getBalance of the payer account.
ReadBalance(a) ==
    /\ phase[a] = "CheckBalance"
    /\ seen' = [seen EXCEPT ![a] = payerBal]
    /\ phase' = [phase EXCEPT ![a] = "TopUp"]
    /\ UNCHANGED <<gwVars, dest, itsPdaSet, target, desc, round, err, payerBal, lock>>

\* Transfer exactly the shortfall between the request and the balance read.
\* Fault variant: transferring the whole request, ignoring the balance.
ShortfallIgnoringBalance(a) == Requested(desc[a])

Shortfall(a) ==
    IF Requested(desc[a]) > seen[a] THEN Requested(desc[a]) - seen[a] ELSE 0

\* Fault variant: the payer released right after the top-up.
TopUpReleasing(a) ==
    /\ phase[a] = "TopUp"
    /\ payerBal' = payerBal + Shortfall(a)
    /\ phase' = [phase EXCEPT ![a] = "Funded"]
    /\ lock' = NoAttempt
    /\ UNCHANGED <<gwVars, dest, itsPdaSet, target, desc, round, seen, err>>

TopUp(a) ==
    /\ phase[a] = "TopUp"
    /\ payerBal' = payerBal + Shortfall(a)
    /\ phase' = [phase EXCEPT ![a] = "Funded"]
    /\ lock' = IF LockSpan = "fund" THEN NoAttempt ELSE lock
    /\ UNCHANGED <<gwVars, dest, itsPdaSet, target, desc, round, seen, err>>

(***************************************************************************)
(* Step 5: execute the materialized final transaction.  It is atomic: it  *)
(* succeeds when every instruction does and the payer covers the request, *)
(* spending the requested lamports and consuming the approval; otherwise  *)
(* nothing on the ledger changes.                                          *)
(***************************************************************************)
ExecutionSucceeds(a) ==
    LET cixs == MaterializeAll(desc[a], target[a]) IN
    /\ \A i \in DOMAIN cixs : ExecuteSucceeds(cixs[i])
    /\ payerBal >= Requested(desc[a])

\* The ledger effect of a landed final transaction: the approval is consumed
\* and the requested lamports leave the payer.
Land(a) ==
    /\ incoming' = ValidateMessage(target[a])
    /\ payerBal' = payerBal - Requested(desc[a])

Execute(a) ==
    /\ phase[a] = "Funded"
    /\ IF ExecutionSucceeds(a)
       THEN /\ Land(a)
            /\ phase' = [phase EXCEPT ![a] = "Executed"]
            /\ lock' = IF lock = a THEN NoAttempt ELSE lock
            /\ UNCHANGED err
       ELSE /\ Fail(a, "ExecutionFailure")
            /\ UNCHANGED <<incoming, payerBal>>
    /\ UNCHANGED <<payload, written, content, dest, itsPdaSet, target, desc, round, seen>>

\* External cancellation, taking effect at the next suspension point.
\* Fault variant: a late cancellation overwriting the result of an attempt
\* that already ended.
CancelOverwriting(a) ==
    /\ phase[a] \in SuspensionPoints \cup {"Executed"}
    /\ Fail(a, "Cancelled")
    /\ UNCHANGED <<gwVars, dest, itsPdaSet, target, desc, round, seen, payerBal>>

Cancel(a) ==
    /\ phase[a] \in SuspensionPoints
    /\ Fail(a, "Cancelled")
    /\ UNCHANGED <<gwVars, dest, itsPdaSet, target, desc, round, seen, payerBal>>

(***************************************************************************)
(* The timeout at the execute suspension point fires after the final      *)
(* transaction has landed but before its answer reaches the relayer: the  *)
(* ledger effect happens and the attempt ends Failed(Cancelled) (section  *)
(* 5; section 4.6 leaves the executor's retry policy to the caller).      *)
(***************************************************************************)
ExecuteAnswerLost(a) ==
    /\ phase[a] = "Funded"
    /\ ExecutionSucceeds(a)
    /\ Land(a)
    /\ Fail(a, "Cancelled")
    /\ UNCHANGED <<payload, written, content, dest, itsPdaSet, target, desc, round, seen>>

\* The steps the relayer's task for attempt a takes by itself.
RelayerStep(a) ==
    \/ Fetch(a)
    \/ SimulateRound(a)
    \/ RejectFunding(a)
    \/ AcquirePayer(a)
    \/ ReadBalance(a)
    \/ TopUp(a)
    \/ Execute(a)

Environment ==
    \/ GatewayNext /\ UNCHANGED relVars
    \/ InitTransactionPda

Next ==
    \/ \E a \in Attempts : RelayerStep(a) \/ Cancel(a) \/ ExecuteAnswerLost(a)
    \/ Environment

\* Each attempt's task is scheduled as long as it can step; cancellation
\* and the other parties (gateway, ITS setup) are not obliged to act.
Fairness == \A a \in Attempts : WF_vars(RelayerStep(a))

Spec == Init /\ [][Next]_vars /\ Fairness

-----------------------------------------------------------------------------
(***************************************************************************)
(* Properties.                                                             *)
(***************************************************************************)

(* A message is executed by at most one relay attempt, and an attempt     *)
(* that reports success has consumed the gateway approval: concurrent or  *)
(* retried attempts for one command id (step 5, validateMessage) never    *)
(* both succeed.                                                           *)
AtMostOnceExecution ==
    \A a \in Attempts : phase[a] = "Executed" =>
        /\ incoming[target[a]] = "Executed"
        /\ \A b \in Attempts \ {a} :
              target[b] = target[a] => phase[b] # "Executed"

(* Once an attempt has topped the payer up, the payer holds at least what *)
(* the final descriptor requests until that attempt executes: no other    *)
(* concurrent relay spends the funds between top-up and execution         *)
(* (section 5, shared payer).                                              *)
PayerCoversRequest ==
    \A a \in Attempts : phase[a] = "Funded" => payerBal >= Requested(desc[a])

(* Top-ups never stack: the payer never holds more than the larger of its *)
(* starting balance and one message's gas budget, whatever sequence of    *)
(* failed and retried relays ran (section 4.5, "never more").             *)
PayerBalanceBounded ==
    payerBal <= IF PayerStart > GasBudget THEN PayerStart ELSE GasBudget

(* The ITS discovery handlers never reject a simulation of a transfer     *)
(* whose payload is committed: build_transaction_1 and _2 find the payload *)
(* where the previous round put it (part_000, relayer steps 2-4).         *)
HandlersAcceptCommittedTransfer ==
    [][\A a \in Attempts :
         ( /\ phase[a] = "Decoded" /\ dest[target[a]] = ITS
           /\ phase'[a] = "Failed" /\ err'[a] = "SimulationFailure" )
         => ~(PayloadReadable(target[a]) /\ IsTransfer(content[target[a]]))
      ]_vars

(* Every message the ledger shows executed is reported executed by an     *)
(* attempt that relayed it: no attempt reports a failure for a final      *)
(* transaction that landed (section 7, every outcome surfaced to the      *)
(* caller, who decides retries on it).                                     *)
ExecutionReported ==
    \A m \in Messages : incoming[m] = "Executed" =>
        \E a \in Attempts : target[a] = m /\ phase[a] = "Executed"

(* Every relay attempt ends, executed or failed, even when the destination *)
(* never marks a descriptor final and other attempts hold the payer       *)
(* (section 4.4, round bound; section 5, cancellation).                    *)
Termination == \A a \in Attempts : <>(phase[a] \in Terminal)

-----------------------------------------------------------------------------
(***************************************************************************)
(* Refinement: the relayer composed with the gateway implements RelaySpec *)
(* under the mapping that reads each attempt's reported outcome off its   *)
(* phase, keeps the gateway's incoming-message status as the approval and *)
(* the attempt's target as the message it relays.  Every loop, funding    *)
(* and payer step is a stutter of RelaySpec.                               *)
(***************************************************************************)
Outcome(a) ==
    IF phase[a] = "Executed" THEN "Executed"
    ELSE IF phase[a] = "Failed" THEN "Failed"
    ELSE "Running"

outcomeBar == [a \in Attempts |-> Outcome(a)]

Abs == INSTANCE RelaySpec WITH approval <- incoming, outcome <- outcomeBar,
                               relays <- target

(* The relayer keeps RelaySpec's promise: an attempt's reported outcome   *)
(* changes once, from running to executed or failed; it executes only an  *)
(* approved message and consumes the approval; a failure after a landed   *)
(* transaction is the only failure that touches the gateway; and every    *)
(* attempt ends (part_000 relayer steps 1-5 with the loop's error paths). *)
ImplementsRelaySpec == Abs!AbsSpec

-----------------------------------------------------------------------------
(***************************************************************************)
(* The inductive invariant behind TypeOK and AtMostOnceExecution.  Every  *)
(* descriptor an attempt holds is one the programs publish or return; an  *)
(* attempt that loops holds a non-final one; an attempt past the final    *)
(* round holds the final ITS descriptor built for its own message, whose  *)
(* execution validates that message; an executed attempt has consumed     *)
(* the approval of its message.                                            *)
(***************************************************************************)
FundingPhases == {"Final", "CheckBalance", "TopUp", "Funded"}

DescriptorInv ==
    \A a \in Attempts :
        /\ desc[a] \in KnownDescriptors
        /\ phase[a] = "Decoded" =>
              desc[a] \in {StoredDescriptor, LoopDescriptor}
                         \cup {Bt1Descriptor(m) : m \in Messages}
        /\ phase[a] \in FundingPhases =>
              \E m \in Messages : desc[a] = FinalDescriptor(target[a], m)

ExecutedInv ==
    \A a \in Attempts : phase[a] = "Executed" => incoming[target[a]] = "Executed"

\* An attempt that has not fetched yet has decoded nothing.
StartInv == \A a \in Attempts : phase[a] = "Start" => round[a] = 0

\* A looping attempt holds the descriptor its destination published or
\* returned: the ITS chain for its own message, or the looping program's.
DestInv ==
    \A a \in Attempts :
        phase[a] = "Decoded" =>
            IF dest[target[a]] = ITS
            THEN desc[a] \in {StoredDescriptor, Bt1Descriptor(target[a])}
            ELSE desc[a] = LoopDescriptor

IInv == TypeOK /\ DescriptorInv /\ ExecutedInv /\ StartInv /\ AtMostOnceExecution

(***************************************************************************)
(* With the payer held from the balance check to the end of execution     *)
(* (LockSpan = "execute"), PayerCoversRequest follows from PInv: only the *)
(* lock holder is between the balance check and execution, so the        *)
(* balance it read is still the payer's balance when it tops up.          *)
(***************************************************************************)
HoldingPhases == {"CheckBalance", "TopUp", "Funded"}

LockInv == \A a \in Attempts : phase[a] \in HoldingPhases => lock = a

SeenInv == \A a \in Attempts : phase[a] = "TopUp" => seen[a] = payerBal

PInv == IInv /\ LockInv /\ SeenInv /\ PayerCoversRequest

\* The request of an attempt holding the payer passed the gas-budget check.
BudgetInv == \A a \in Attempts : phase[a] \in HoldingPhases => Requested(desc[a]) <= GasBudget

BInv == PInv /\ BudgetInv /\ PayerBalanceBounded

=============================================================================
