------------------------------ MODULE Account ------------------------------
(***************************************************************************)
(* One account and one operation at a time: a deposit, a purchase, or a    *)
(* withdrawal that nothing disturbs, from withdraw_monero to the refresh   *)
(* of the record by update_acc_balances, at the network fee it was quoted. *)
(* No concurrency here: what is checked is the arithmetic of money.rs over *)
(* a sequence of legal operations.  The sums of deposits, of purchases and *)
(* of fees stay below 2^64 piconero and are not wrapped; get_balance is.   *)
(***************************************************************************)
EXTENDS FinancialInfo

CONSTANTS
  Deposits,         \* amounts that may arrive
  Amounts,          \* amounts a withdrawal may ask for
  Prices,           \* amounts a purchase may cost
  NetFees,          \* network fees
  TheAddr,          \* the address attached to the account
  TheIndex,         \* the index of its subaddress
  MaxOperations     \* bound: operations in a behaviour

ASSUME AccountAssumption ==
  /\ Deposits \subseteq Nat /\ Amounts \subseteq Nat /\ Prices \subseteq Nat
  /\ NetFees \subseteq Nat
  /\ TheAddr \in Addrs /\ TheIndex \in Indices
  /\ MaxOperations \in Nat

VARIABLES
  info,             \* the record
  unlocked,         \* what the wallet holds on the subaddress
  deposited, spent, \* history: totals over the deposits and the purchases
  asked,            \* history: total over the withdrawals of amt
  withdrawals,      \* history: how many withdrawals
  prudent,          \* history: each left at least two piconero available
  operations

vars == <<info, unlocked, deposited, spent, asked, withdrawals, prudent,
          operations>>

(* The record as update_acc_balances leaves it.                            *)
TypeOK ==
  /\ info \in FinancialInfos /\ info.xmr_addr = TheAddr
  /\ info.balance = unlocked /\ info.out_fees = info.service_fee_total
  /\ unlocked \in Nat /\ deposited \in Nat /\ spent \in Nat /\ asked \in Nat
  /\ withdrawals \in Nat /\ prudent \in BOOLEAN
  /\ operations \in Nat

Init ==
  /\ info = [NewFinancialInfo(TheIndex, TheIndex) EXCEPT !.xmr_addr = TheAddr]
  /\ unlocked = 0 /\ deposited = 0 /\ spent = 0 /\ asked = 0
  /\ withdrawals = 0 /\ prudent = TRUE /\ operations = 0

Operation == operations < MaxOperations /\ operations' = operations + 1

Deposit(x) ==
  /\ Operation
  /\ unlocked' = unlocked + x
  /\ info' = [info EXCEPT !.balance = unlocked + x]
  /\ deposited' = deposited + x
  /\ UNCHANGED <<spent, asked, withdrawals, prudent>>

Buy(price) ==
  /\ Operation
  /\ CanSpend(info, price)
  /\ info' = [info EXCEPT !.amount_spent = @ + price]
  /\ spent' = spent + price
  /\ UNCHANGED <<unlocked, deposited, asked, withdrawals, prudent>>

(* Mutant: the wallet is assumed to cover whatever the balance covered.    *)
WithdrawUncovered(amt, net_fee) ==
  LET sent == AmtToSend(amt, net_fee)
      charged == ChargedFee(sent, net_fee)
  IN  /\ Operation
      /\ Withdrawable(info, amt, net_fee)
      /\ GetBalance(info) >= sent
      /\ unlocked' = unlocked - (sent + net_fee)
      /\ info' = [info EXCEPT !.balance = unlocked - (sent + net_fee),
                              !.service_fee_total = @ + charged,
                              !.out_fees = @ + charged]
      /\ asked' = asked + amt
      /\ withdrawals' = withdrawals + 1
      /\ prudent' = (prudent /\ amt + 2 <= GetBalance(info))
      /\ UNCHANGED <<deposited, spent>>

(* The checks of withdraw_monero, of the receiving task and of the wallet, *)
(* then the credit by the sending task and the refresh of the record.      *)
Withdraw(amt, net_fee) ==
  LET sent == AmtToSend(amt, net_fee)
      charged == ChargedFee(sent, net_fee)
  IN  /\ Operation
      /\ Withdrawable(info, amt, net_fee)
      /\ GetBalance(info) >= sent
      /\ unlocked >= sent + net_fee
      /\ unlocked' = unlocked - (sent + net_fee)
      /\ info' = [info EXCEPT !.balance = unlocked - (sent + net_fee),
                              !.service_fee_total = @ + charged,
                              !.out_fees = @ + charged]
      /\ asked' = asked + amt
      /\ withdrawals' = withdrawals + 1
      /\ prudent' = (prudent /\ amt + 2 <= GetBalance(info))
      /\ UNCHANGED <<deposited, spent>>

Next ==
  \/ \E x \in Deposits : Deposit(x)
  \/ \E price \in Prices : Buy(price)
  \/ \E amt \in Amounts, net_fee \in NetFees : Withdraw(amt, net_fee)

Spec == Init /\ [][Next]_vars

-----------------------------------------------------------------------------
(* What get_balance computes before it wraps.                              *)
Available == unlocked - info.service_fee_total - info.amount_spent

(* The account is short of deposits minus purchases minus amounts asked    *)
(* for by zero to two piconero per withdrawal: the two roundings of the    *)
(* service fee, 2 * (amt / 100) and (amt_sent + fee) / 49, drift apart by  *)
(* no more, always to the disadvantage of the user.                        *)
DriftBounded ==
  /\ Available <= deposited - spent - asked
  /\ deposited - spent - asked - 2 * withdrawals <= Available

(* get_balance never wraps around for a user whose withdrawals each leave  *)
(* two piconero: the wrap needs an amount above what withdraw_monero ought *)
(* to allow (it compares the balance with the minimum only) or the drift.  *)
PrudentNeverWraps == prudent => Available >= 0

=============================================================================
