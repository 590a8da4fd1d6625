---------------------------- MODULE Withdrawals ----------------------------
(***************************************************************************)
(* The path of a withdrawal: withdraw_monero answers 200 OK and sends a    *)
(* TransferReq into an unbounded channel; the two tasks of send_monero     *)
(* move it to the Vec pending_requests under a tokio Mutex and hand it to  *)
(* the wallet, retrying on a later pass whatever fails.                    *)
(*                                                                         *)
(* A queue holds the identities of calls; what TransferReq holds of call c *)
(* is req[c].  The program has no such identity: it serves the properties. *)
(***************************************************************************)
EXTENDS FinancialInfo, Sequences, SequencesExt

CONSTANTS
  Calls,            \* calls to withdraw_monero
  Users,            \* user names
  NoInfo,           \* money_db has no record under the name
  Forms,            \* the WithdrawMoneroReqs, [username |-> .., amt |-> ..]
  NetFees,          \* fees CachedFee::get_uptodate_fee may report
  TransferFees,     \* fees a transfer may turn out to cost
  NoFee,            \* the wallet has not reported a fee
  NoCall,           \* no call
  NoReq,            \* no request
  Records,          \* what the other tasks may write into money_db
  MaxAbandoned      \* bound: answers to transfers the sender misses, per call

TransferReqs ==
  [username: Users, dst: Addrs, amt: Nat, addr_index: Indices]

ASSUME WithdrawalsAssumption ==
  /\ Forms \subseteq [username: Users, amt: Nat]
  /\ NetFees \subseteq Nat /\ NoFee \notin Nat
  /\ TransferFees \subseteq Nat
  /\ NoCall \notin Calls /\ NoReq \notin TransferReqs
  /\ Records \subseteq FinancialInfos /\ NoInfo \notin FinancialInfos
  /\ MaxAbandoned \in Nat

VARIABLES
  moneyDB,          \* the sled tree money_db
  stage,            \* progress of each call; "fee" and "send" are inside it
  form,             \* the arguments of a call in progress
  req,              \* the TransferReq built for a call
  channel,          \* monero_tx_send / monero_tx_req
  taken,            \* the request the receiver holds while it waits to push
  pending,          \* pending_requests
  lockQueue,        \* its Mutex: the holder, then the waiters, first come first
  sender,           \* the loop of the sending task
  payments,         \* history: transfers the wallet made for a call
  unserved,         \* transfers the wallet holds that nobody waits for
  abandoned         \* history: transfers the sender stopped waiting for

handler == <<stage, form, req>>
queues  == <<channel, taken, pending, lockQueue>>
wallet  == <<payments, unserved, abandoned>>
vars    == <<moneyDB, handler, queues, sender, wallet>>

Senders ==
  [ pc: {"yield", "lock", "scan", "rpc", "insert", "flush"}, i: Nat \ {0},
    fee: Nat \cup {NoFee}, info: FinancialInfos \cup {NoInfo} ]

Idle == [pc |-> "yield", i |-> 1, fee |-> NoFee, info |-> NoInfo]

TypeOK ==
  /\ moneyDB \in [Users -> FinancialInfos \cup {NoInfo}]
  /\ stage \in [Calls -> {"new", "fee", "send", "refused", "accepted",
                          "dropped", "settled", "lost"}]
  /\ form \in [Calls -> Forms \cup {NoReq}]
  /\ req \in [Calls -> TransferReqs \cup {NoReq}]
  /\ channel \in Seq(Calls)
  /\ taken \in Calls \cup {NoCall}
  /\ pending \in Seq(Calls)
  /\ lockQueue \in Seq({"receiver", "sender"})
  /\ sender \in Senders
  /\ payments \in [Calls -> Nat]
  /\ unserved \in [Calls -> Nat]
  /\ abandoned \in [Calls -> Nat]

Init ==
  /\ moneyDB \in [Users -> Records \cup {NoInfo}]
  /\ stage = [c \in Calls |-> "new"]
  /\ form = [c \in Calls |-> NoReq]
  /\ req = [c \in Calls |-> NoReq]
  /\ channel = <<>>
  /\ taken = NoCall
  /\ pending = <<>>
  /\ lockQueue = <<>>
  /\ sender = Idle
  /\ payments = [c \in Calls |-> 0]
  /\ unserved = [c \in Calls |-> 0]
  /\ abandoned = [c \in Calls |-> 0]

-----------------------------------------------------------------------------
(* withdraw_monero, one instance per call.                                 *)

WithdrawDenied(c) ==                       \* unknown user or wrong cookie
  /\ stage[c] = "new"
  /\ stage' = [stage EXCEPT ![c] = "refused"]
  /\ UNCHANGED <<moneyDB, form, req, queues, sender, wallet>>

WithdrawAuthorized(c) ==
  /\ stage[c] = "new"
  /\ \E f \in Forms : form' = [form EXCEPT ![c] = f]
  /\ stage' = [stage EXCEPT ![c] = "fee"]
  /\ UNCHANGED <<moneyDB, req, queues, sender, wallet>>

(* get_uptodate_fee has answered net_fee; the record is read and checked.  *)
WithdrawRefused(c, net_fee) ==
  /\ stage[c] = "fee"
  /\ LET info == moneyDB[form[c].username]
     IN  ~ /\ net_fee # NoFee
           /\ info # NoInfo
           /\ Withdrawable(info, form[c].amt, net_fee)
  /\ stage' = [stage EXCEPT ![c] = "refused"]
  /\ form' = [form EXCEPT ![c] = NoReq]
  /\ UNCHANGED <<moneyDB, req, queues, sender, wallet>>

WithdrawChecked(c, net_fee) ==
  /\ stage[c] = "fee"
  /\ net_fee # NoFee
  /\ LET username == form[c].username
         info == moneyDB[username]
     IN  /\ info # NoInfo
         /\ Withdrawable(info, form[c].amt, net_fee)
         /\ req' = [req EXCEPT ![c] =
                      [ username |-> username, dst |-> info.xmr_addr,
                        amt |-> AmtToSend(form[c].amt, net_fee),
                        addr_index |-> info.addr_index ]]
  /\ stage' = [stage EXCEPT ![c] = "send"]
  /\ form' = [form EXCEPT ![c] = NoReq]
  /\ UNCHANGED <<moneyDB, queues, sender, wallet>>

(* The send cannot fail: the receiving task never ends, or the process does. *)
WithdrawSend(c) ==
  /\ stage[c] = "send"
  /\ channel' = Append(channel, c)
  /\ stage' = [stage EXCEPT ![c] = "accepted"]
  /\ UNCHANGED <<moneyDB, form, req, taken, pending, lockQueue, sender, wallet>>

Withdraw(c) ==
  \/ WithdrawSend(c)
  \/ \E net_fee \in NetFees \cup {NoFee} :
       WithdrawRefused(c, net_fee) \/ WithdrawChecked(c, net_fee)

-----------------------------------------------------------------------------
(* The receiving task: recv, look at the balance, lock, push.              *)

Covered(c) == GetBalance(moneyDB[req[c].username]) >= req[c].amt

ReceiverDrop ==
  /\ channel # <<>> /\ taken = NoCall
  /\ ~ Covered(Head(channel))
  /\ stage' = [stage EXCEPT ![Head(channel)] = "dropped"]
  /\ channel' = Tail(channel)
  /\ UNCHANGED <<moneyDB, form, req, taken, pending, lockQueue, sender, wallet>>

(* Mutant: the request stays in the channel.                               *)
ReceiverTakeKeeps ==
  /\ channel # <<>> /\ taken = NoCall
  /\ Covered(Head(channel))
  /\ taken' = Head(channel)
  /\ lockQueue' = Append(lockQueue, "receiver")
  /\ UNCHANGED <<moneyDB, handler, channel, pending, sender, wallet>>

ReceiverTake ==
  /\ channel # <<>> /\ taken = NoCall
  /\ Covered(Head(channel))
  /\ taken' = Head(channel)
  /\ channel' = Tail(channel)
  /\ lockQueue' = Append(lockQueue, "receiver")
  /\ UNCHANGED <<moneyDB, handler, pending, sender, wallet>>

(* Mutant: the newest request goes first.                                  *)
ReceiverPushFront ==
  /\ taken # NoCall
  /\ lockQueue # <<>> /\ Head(lockQueue) = "receiver"
  /\ pending' = <<taken>> \o pending
  /\ taken' = NoCall
  /\ lockQueue' = Tail(lockQueue)
  /\ UNCHANGED <<moneyDB, handler, channel, sender, wallet>>

ReceiverPush ==
  /\ taken # NoCall
  /\ lockQueue # <<>> /\ Head(lockQueue) = "receiver"
  /\ pending' = Append(pending, taken)
  /\ taken' = NoCall
  /\ lockQueue' = Tail(lockQueue)
  /\ UNCHANGED <<moneyDB, handler, channel, sender, wallet>>

Receiver == ReceiverDrop \/ ReceiverTake \/ ReceiverPush

-----------------------------------------------------------------------------
(* The sending task.  The guard lives until the end of the loop iteration, *)
(* through every transfer and the five seconds of sleep.                   *)

SenderLock ==                              \* after yield_now
  /\ sender.pc = "yield"
  /\ lockQueue' = Append(lockQueue, "sender")
  /\ sender' = [sender EXCEPT !.pc = "lock"]
  /\ UNCHANGED <<moneyDB, handler, channel, taken, pending, wallet>>

(* Mutant: the Vec is scanned without waiting for the lock.                *)
SenderBeginUnlocked ==
  /\ sender.pc = "lock"
  /\ sender' = [Idle EXCEPT !.pc = "scan"]
  /\ UNCHANGED <<moneyDB, handler, queues, wallet>>

SenderBegin ==
  /\ sender.pc = "lock"
  /\ lockQueue # <<>> /\ Head(lockQueue) = "sender"
  /\ sender' = [Idle EXCEPT !.pc = "scan"]
  /\ UNCHANGED <<moneyDB, handler, queues, wallet>>

SenderEndPass ==
  /\ sender.pc = "scan" /\ sender.i > Len(pending)
  /\ lockQueue' = Tail(lockQueue)
  /\ sender' = Idle
  /\ UNCHANGED <<moneyDB, handler, channel, taken, pending, wallet>>

(* Mutant: the Err arm tries the same request again.                       *)
SenderSkipStays == sender' = [sender EXCEPT !.pc = "scan", !.fee = NoFee]

(* The Err arm: the request stays where it is, the next one is looked at.  *)
SenderSkip == sender' = [sender EXCEPT !.pc = "scan", !.i = @ + 1, !.fee = NoFee]

(* wallet.transfer: the request reaches the wallet, or no connection is    *)
(* made.  long_request retries only a connection that timed out.           *)
TransferDelivered ==
  /\ sender.pc = "scan" /\ sender.i <= Len(pending)
  /\ sender' = [sender EXCEPT !.pc = "rpc", !.fee = NoFee]
  /\ UNCHANGED <<moneyDB, handler, queues, wallet>>

TransferUndelivered ==
  /\ sender.pc = "scan" /\ sender.i <= Len(pending)
  /\ SenderSkip
  /\ UNCHANGED <<moneyDB, handler, queues, wallet>>

Current == pending[sender.i]

(* The wallet works on one request at a time, oldest first.                *)
WalletReady == sender.pc = "rpc" /\ sender.fee = NoFee
               /\ \A c \in Calls : unserved[c] = 0

WalletPays ==
  /\ WalletReady
  /\ \E fee \in TransferFees : sender' = [sender EXCEPT !.fee = fee]
  /\ payments' = [payments EXCEPT ![Current] = @ + 1]
  /\ UNCHANGED <<moneyDB, handler, queues, unserved, abandoned>>

WalletRefuses ==                           \* the answer has no "result"
  /\ WalletReady
  /\ SenderSkip
  /\ UNCHANGED <<moneyDB, handler, queues, wallet>>

WalletServesAbandoned(c) ==
  /\ unserved[c] > 0
  /\ unserved' = [unserved EXCEPT ![c] = @ - 1]
  /\ payments' \in {payments, [payments EXCEPT ![c] = @ + 1]}
  /\ UNCHANGED <<moneyDB, handler, queues, sender, abandoned>>

(* The sender stops waiting for what it asked the wallet.                  *)
Abandon ==
  /\ abandoned' = [abandoned EXCEPT ![Current] = @ + 1]
  /\ unserved' = IF sender.fee = NoFee
                 THEN [unserved EXCEPT ![Current] = @ + 1] ELSE unserved

(* Mutant: a missed answer counts as a payment.                            *)
AnswerLostSettles ==
  /\ sender.pc = "rpc"
  /\ abandoned[Current] < MaxAbandoned
  /\ Abandon
  /\ pending' = RemoveAt(pending, sender.i)
  /\ stage' = [stage EXCEPT ![Current] = "settled"]
  /\ sender' = [sender EXCEPT !.pc = "scan", !.fee = NoFee]
  /\ UNCHANGED <<moneyDB, form, req, channel, taken, lockQueue, payments>>

(* The connection breaks, or the answer is unreadable: the Err arm.        *)
AnswerLost ==
  /\ sender.pc = "rpc"
  /\ abandoned[Current] < MaxAbandoned
  /\ Abandon
  /\ SenderSkip
  /\ UNCHANGED <<moneyDB, handler, queues, payments>>

(* The Ok arm: read the record, charge the fee, insert, flush, insert the  *)
(* same copy again, remove the request.                                    *)
SenderCredit ==
  /\ sender.pc = "rpc" /\ sender.fee # NoFee
  /\ LET fee == ChargedFee(req[Current].amt, sender.fee)
     IN  sender' = [sender EXCEPT
           !.pc = "insert",
           !.info = [moneyDB[req[Current].username] EXCEPT
                       !.service_fee_total = (@ + fee) % Modulus]]
  /\ UNCHANGED <<moneyDB, handler, queues, wallet>>

SenderInsert ==
  /\ sender.pc = "insert"
  /\ moneyDB' = [moneyDB EXCEPT ![req[Current].username] = sender.info]
  /\ sender' = [sender EXCEPT !.pc = "flush"]
  /\ UNCHANGED <<handler, queues, wallet>>

(* Mutants: the request is not removed; the first one is, whatever i is.   *)
SenderSettleKeeps ==
  /\ sender.pc = "flush"
  /\ moneyDB' = [moneyDB EXCEPT ![req[Current].username] = sender.info]
  /\ stage' = [stage EXCEPT ![Current] = "settled"]
  /\ sender' = [sender EXCEPT !.pc = "scan", !.fee = NoFee, !.info = NoInfo]
  /\ UNCHANGED <<form, req, queues, wallet>>

SenderSettleFirst ==
  /\ sender.pc = "flush"
  /\ moneyDB' = [moneyDB EXCEPT ![req[Current].username] = sender.info]
  /\ pending' = Tail(pending)
  /\ stage' = [stage EXCEPT ![Head(pending)] = "settled"]
  /\ sender' = [sender EXCEPT !.pc = "scan", !.fee = NoFee, !.info = NoInfo]
  /\ UNCHANGED <<form, req, channel, taken, lockQueue, wallet>>

SenderSettle ==
  /\ sender.pc = "flush"
  /\ moneyDB' = [moneyDB EXCEPT ![req[Current].username] = sender.info]
  /\ pending' = RemoveAt(pending, sender.i)
  /\ stage' = [stage EXCEPT ![Current] = "settled"]
  /\ sender' = [sender EXCEPT !.pc = "scan", !.fee = NoFee, !.info = NoInfo]
  /\ UNCHANGED <<form, req, channel, taken, lockQueue, wallet>>

Sender ==
  \/ SenderLock \/ SenderBegin \/ SenderEndPass
  \/ TransferDelivered \/ TransferUndelivered
  \/ SenderCredit \/ SenderInsert \/ SenderSettle

Wallet ==
  \/ WalletPays \/ WalletRefuses
  \/ \E c \in Calls : WalletServesAbandoned(c)

-----------------------------------------------------------------------------
(* Every other writer of money_db, whatever it does; none removes a record. *)
OtherTasksWrite ==
  /\ \E u \in Users, info \in Records : moneyDB' = [moneyDB EXCEPT ![u] = info]
  /\ UNCHANGED <<handler, queues, sender, wallet>>

(* The process stops and starts again.  Channel, Vec and handlers are in   *)
(* memory only; a registration sled had not flushed yet may be gone.  A    *)
(* crash with nothing under way is left out.                               *)
Crash ==
  /\ \E c \in Calls : stage[c] \in {"fee", "send", "accepted"}
  /\ stage' = [c \in Calls |->
                 CASE stage[c] = "accepted"        -> "lost"
                   [] stage[c] \in {"fee", "send"} -> "refused"
                   [] OTHER                        -> stage[c]]
  /\ form' = [c \in Calls |-> NoReq]
  /\ channel' = <<>> /\ taken' = NoCall /\ pending' = <<>> /\ lockQueue' = <<>>
  /\ sender' = Idle
  /\ IF sender.pc = "rpc" THEN Abandon ELSE UNCHANGED <<unserved, abandoned>>
  /\ \E gone \in SUBSET Users :
       moneyDB' = [u \in Users |-> IF u \in gone THEN NoInfo ELSE moneyDB[u]]
  /\ UNCHANGED <<req, payments>>

Next ==
  \/ \E c \in Calls : WithdrawDenied(c) \/ WithdrawAuthorized(c) \/ Withdraw(c)
  \/ Receiver \/ Sender \/ Wallet \/ AnswerLost
  \/ OtherTasksWrite \/ Crash

Spec == Init /\ [][Next]_vars

(* tokio runs a task that can run, and its Mutex is first come first       *)
(* served; the wallet answers sooner or later, since nothing in the        *)
(* program ends the wait for an answer that never comes.                   *)
Fairness ==
  /\ \A c \in Calls : WF_vars(Withdraw(c))
  /\ WF_vars(Receiver)
  /\ WF_vars(Sender)
  /\ WF_vars(Wallet)

FairSpec == Spec /\ Fairness

-----------------------------------------------------------------------------
(* Properties.                                                             *)

(* Every accepted request, in the order of acceptance.                     *)
Queue == pending \o (IF taken = NoCall THEN <<>> ELSE <<taken>>) \o channel

(* The calls answered 200 OK and not yet dealt with are exactly the ones   *)
(* in the Vec, the receiver's hands and the channel, each once: no handover *)
(* between the tasks of send_monero loses or doubles a request.            *)
QueueIsOutstanding ==
  /\ \A i, j \in 1..Len(Queue) : Queue[i] = Queue[j] => i = j
  /\ ToSet(Queue) = {c \in Calls : stage[c] = "accepted"}

(* A call is paid twice only if the sender missed an answer for it: the    *)
(* retry in the Err arm of send_monero is the only source of duplicates.   *)
DuplicateNeedsAbandon == \A c \in Calls : payments[c] <= 1 + abandoned[c]

(* When a call is settled the wallet holds no other request for it, so the *)
(* money it moved is final.                                                *)
SettledIsQuiet == \A c \in Calls : stage[c] = "settled" => unserved[c] = 0

(* The inductive invariant behind the three: a call under way has what the *)
(* code is about to unwrap, the sender scans under the lock and its index  *)
(* stays inside the Vec while it waits, and each transfer the wallet made  *)
(* or still holds for a call is one the sender gave up or the one that     *)
(* settles the call.                                                       *)
Holding  == sender.pc \in {"rpc", "insert", "flush"}
Answered == Holding /\ sender.fee # NoFee

UnderWay ==
  /\ \A c \in Calls :
       /\ stage[c] = "fee" => form[c] \in Forms
       /\ stage[c] \in {"send", "accepted"} =>
            req[c] \in TransferReqs /\ moneyDB[req[c].username] # NoInfo
  /\ sender.pc \notin {"yield", "lock"} =>
       lockQueue # <<>> /\ Head(lockQueue) = "sender"
  /\ Holding => sender.i \in 1..Len(pending)
  /\ sender.pc \in {"insert", "flush"} => sender.fee # NoFee /\ sender.info # NoInfo

AccountedFor(c) ==
  /\ payments[c] + unserved[c] <=
       abandoned[c] + (IF \/ stage[c] \in {"settled", "lost"}
                          \/ Answered /\ Current = c THEN 1 ELSE 0)
  /\ payments[c] + unserved[c] > 0 =>
       c \in ToSet(pending) \/ stage[c] \in {"settled", "lost"}
  /\ stage[c] = "settled" \/ Answered => unserved[c] = 0
  /\ Answered /\ Current = c => payments[c] > 0

Accounted == \A c \in Calls : AccountedFor(c)

IInv == TypeOK /\ QueueIsOutstanding /\ UnderWay /\ Accounted

(* Requests are never reordered: a step adds one at the end, removes one,  *)
(* or loses them all.                                                      *)
OrderKept ==
  [][ \/ Queue' = Queue \/ Queue' = <<>>
      \/ \E c \in Calls : Queue' = Append(Queue, c)
      \/ \E i \in 1..Len(Queue) : Queue' = RemoveAt(Queue, i) ]_vars

(* The pipeline implements the abstract payouts.                           *)
Outcome ==
  [c \in Calls |-> IF stage[c] \in {"fee", "send"} THEN "new" ELSE stage[c]]

Abstract == INSTANCE Payouts WITH stage <- Outcome

ImplementsPayouts == Abstract!Spec

(* A request the wallet keeps failing does not block the ones behind it:   *)
(* the sender reaches every accepted call, or the receiver drops it.       *)
NoHeadOfLineBlocking ==
  \A c \in Calls :
    stage[c] = "accepted" ~>
      \/ stage[c] \in {"dropped", "settled", "lost"}
      \/ sender.pc = "scan" /\ sender.i <= Len(pending) /\ Current = c

=============================================================================
