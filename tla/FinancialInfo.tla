--------------------------- MODULE FinancialInfo ---------------------------
(***************************************************************************)
(* The record money_db keeps for a user, and the arithmetic of money.rs on *)
(* it: u64 in piconero, with the wrap-around of the release profile        *)
(* (Cargo.toml: overflow-checks = false).                                  *)
(***************************************************************************)
EXTENDS Integers

CONSTANTS
  Modulus,      \* 2^64 in the program; small in the model-checked instances
  Addrs,        \* Monero addresses a user may attach
  NoAddr,       \* xmr_addr: None
  Indices       \* subaddress indices the wallet may hand out

ASSUME ModulusAssumption == Modulus \in Nat \ {0}
ASSUME AddrAssumption    == NoAddr \notin Addrs

Larger(a, b) == IF a > b THEN a ELSE b

(***************************************************************************)
(* deposit_addr is identified by the index the wallet minted it at; of the *)
(* two Vec<Transfer> only what get_balance computes from them is kept:     *)
(* out_fees, the sum of the service fees of transfers_out.                 *)
(***************************************************************************)
FinancialInfos ==
  [ xmr_addr: Addrs \cup {NoAddr}, deposit_addr: Indices, addr_index: Indices,
    out_fees: Nat, balance: Nat, pending_balance: Nat,
    service_fee_total: Nat, amount_spent: Nat ]

(* Mutant: the index is stored counting from zero.                         *)
NewFinancialInfoFromZero(addr_index, deposit_addr) ==
  [ xmr_addr |-> NoAddr, deposit_addr |-> deposit_addr,
    addr_index |-> addr_index - 1, out_fees |-> 0, balance |-> 0,
    pending_balance |-> 0, service_fee_total |-> 0, amount_spent |-> 0 ]

NewFinancialInfo(addr_index, deposit_addr) ==
  [ xmr_addr |-> NoAddr, deposit_addr |-> deposit_addr,
    addr_index |-> addr_index, out_fees |-> 0, balance |-> 0,
    pending_balance |-> 0, service_fee_total |-> 0, amount_spent |-> 0 ]

(* self.balance - max(..) - self.amount_spent, both subtractions wrapping. *)
GetBalance(info) ==
  (info.balance - Larger(info.service_fee_total, info.out_fees)
                - info.amount_spent) % Modulus

(* spend_money: checked_sub of the available balance, then the increment.  *)
(* Mutants: the price is compared with the balance the wallet reports; the *)
(* last purchase replaces the sum of all.                                  *)
CanSpendOfBalance(info, amount_spent) == info.balance >= amount_spent
SpendLast(info, amount_spent) == [info EXCEPT !.amount_spent = amount_spent]

CanSpend(info, amount_spent) == GetBalance(info) >= amount_spent
Spend(info, amount_spent) ==
  [info EXCEPT !.amount_spent = (@ + amount_spent) % Modulus]

(* The two forms of the service fee: quoted by withdraw_monero from the    *)
(* amount asked for, charged by send_monero from what left the wallet.     *)
QuotedFee(amt) == 2 * (amt \div 100)
ChargedFee(amt, fee) == (amt + fee) \div 49

MinAmount(net_fee) == net_fee * 5

(* Mutant: the service fee is taken on top of what is sent.                *)
AmtToSendFeeOnTop(amt, net_fee) == amt - net_fee

(* What withdraw_monero hands to the queue for an accepted withdrawal.     *)
AmtToSend(amt, net_fee) == amt - (net_fee + QuotedFee(amt))

(* The conditions withdraw_monero checks, whatever denial each one yields. *)
Withdrawable(info, amt, net_fee) ==
  /\ amt >= MinAmount(net_fee)
  /\ GetBalance(info) >= MinAmount(net_fee)
  /\ amt >= net_fee + QuotedFee(amt)
  /\ info.xmr_addr # NoAddr

=============================================================================
