-------------------------------- MODULE Fees --------------------------------
(***************************************************************************)
(* The network fee: CachedFee and update_cached_fee of src/src/money.rs,   *)
(* deposit_req, which answers with a minimum deposit computed from it, and *)
(* DaemonRPC::get_fee with the retries of DaemonRPC::request, which both   *)
(* of them wait for.                                                       *)
(*                                                                         *)
(* Every task that asks the daemon is a record: what it waits for and the  *)
(* number of attempts behind it.  The daemon estimates a fee per byte.     *)
(***************************************************************************)
EXTENDS Integers

CONSTANTS
    Requests,   \* calls of deposit_req
    PerByte     \* the fees per byte the daemon may estimate, above 0

MaxConnAttempts == 5
KnownFee == 4157        \* the older fee get_fee falls back to
TransactionSize == 2000 \* the average size of a transaction in bytes
DepositFactor == 5

Updater == "update_cached_fee"
Tasks == Requests \cup {Updater}

VARIABLES
    fee,        \* CachedFee.fee; 0 as long as it is not known
    estimate,   \* the fee per byte the daemon would answer now
    task,       \* what each task is about, and its attempts in the loop of request
    minAmt,     \* the min_amt each call was answered with
    charged     \* what a transaction cost at the estimate get_fee used for the call

vars == <<fee, estimate, task, minAmt, charged>>

Idle == [at |-> "idle", attempts |-> 0]
Asking == [at |-> "asking", attempts |-> 0]
Done == [at |-> "done", attempts |-> 0]

Init ==
    /\ fee = 0
    /\ estimate \in PerByte
    /\ task = [t \in Tasks |-> Idle]
    /\ minAmt = [r \in Requests |-> 0]
    /\ charged = [r \in Requests |-> 0]

EstimateChanges == estimate' \in PerByte \ {estimate} /\ UNCHANGED <<fee, task, minAmt, charged>>

(* What get_fee makes of the answer of the daemon, and of no answer.       *)
Fallback(answer) == answer * TransactionSize

(* deposit_req answers with five times the fee; only an authorised call    *)
(* comes here.                                                             *)
Answer(r, cost, perByte) ==
    /\ minAmt' = [minAmt EXCEPT ![r] = cost * DepositFactor]
    /\ charged' = [charged EXCEPT ![r] = perByte * TransactionSize]
    /\ task' = [task EXCEPT ![r] = Done]

Deny(r) == task[r] = Idle /\ task' = [task EXCEPT ![r] = Done] /\ UNCHANGED <<fee, estimate, minAmt, charged>>

GetFeeCached(r) ==
    /\ task[r] = Idle
    /\ fee /= 0
    /\ Answer(r, fee, fee)
    /\ UNCHANGED <<fee, estimate>>

GetFeeAsks(r) ==
    /\ task[r] = Idle
    /\ fee = 0
    /\ task' = [task EXCEPT ![r] = Asking]
    /\ UNCHANGED <<fee, estimate, minAmt, charged>>

-----------------------------------------------------------------------------
(* One pass of update_cached_fee: ask, store what came, sleep.             *)
UpdaterAsks ==
    /\ task[Updater] = Idle
    /\ task' = [task EXCEPT ![Updater] = Asking]
    /\ UNCHANGED <<fee, estimate, minAmt, charged>>

Completes(t, perByte) ==
    IF t = Updater
    THEN fee' = perByte /\ task' = [task EXCEPT ![t] = Idle] /\ UNCHANGED <<minAmt, charged>>
    ELSE Answer(t, Fallback(perByte), perByte) /\ UNCHANGED fee

DaemonAnswers(t) ==
    /\ task[t].at = "asking"
    /\ Completes(t, estimate)
    /\ UNCHANGED estimate

(* A connection that times out is tried again, four times.                 *)
TimesOut(t) ==
    /\ task[t].at = "asking"
    /\ task[t].attempts < MaxConnAttempts - 1
    /\ task' = [task EXCEPT ![t].attempts = @ + 1]
    /\ UNCHANGED <<fee, estimate, minAmt, charged>>

(* The last time-out, any other error of the connection, a body that is no *)
(* JSON, or a fee that is no number: get_fee returns an error.             *)
AskFails(t) ==
    /\ task[t].at = "asking"
    /\ IF t = Updater
       THEN task' = [task EXCEPT ![t] = Idle] /\ UNCHANGED <<minAmt, charged>>
       ELSE Answer(t, Fallback(KnownFee), KnownFee)
    /\ UNCHANGED <<fee, estimate>>

(* An answer without the fields is indexed all the same: the panic ends    *)
(* the process, and the cache starts from 0.                               *)
DaemonRefuses(t) ==
    /\ task[t].at = "asking"
    /\ fee' = 0
    /\ task' = [u \in Tasks |-> IF u = Updater \/ task[u] = Idle THEN Idle ELSE Done]
    /\ UNCHANGED <<estimate, minAmt, charged>>

DepositReq(r) == Deny(r) \/ GetFeeCached(r) \/ GetFeeAsks(r)
Request(t) == DaemonAnswers(t) \/ TimesOut(t) \/ AskFails(t) \/ DaemonRefuses(t)

Next ==
    \/ EstimateChanges
    \/ UpdaterAsks
    \/ \E r \in Requests : DepositReq(r)
    \/ \E t \in Tasks : Request(t)

Spec == Init /\ [][Next]_vars

-----------------------------------------------------------------------------
(* Every deposit_req that was answered asks for five times what a          *)
(* transaction of average size costs at the estimate its fee came from.    *)
(* The comment in CachedFee::get_fee says that the fee of the daemon is    *)
(* per byte and is multiplied by that size.                                *)
MinimumIsFiveFees == \A r \in Requests : minAmt[r] = DepositFactor * charged[r]
=============================================================================
