------------------------------ MODULE Payouts ------------------------------
(***************************************************************************)
(* What the withdrawal pipeline promises, without its queue, its lock and  *)
(* its tasks.  A call to withdraw_monero is refused or accepted; the       *)
(* wallet pays accepted calls only, possibly several times; a call is      *)
(* settled after a payment and never paid again; it is dropped only        *)
(* unpaid; a restart forgets every outstanding call, and the wallet may    *)
(* still pay one of those afterwards.                                      *)
(***************************************************************************)
EXTENDS Naturals

CONSTANT Calls        \* calls to withdraw_monero

VARIABLES
  stage,              \* what became of a call: "new", "refused" (a denial, or
                      \* a connection a restart cut), "accepted", "dropped",
                      \* "settled", "lost"
  payments            \* transfers the wallet made for a call

Init ==
  /\ stage = [c \in Calls |-> "new"]
  /\ payments = [c \in Calls |-> 0]

Move(c, from, to) ==
  /\ stage[c] = from
  /\ stage' = [stage EXCEPT ![c] = to]
  /\ UNCHANGED payments

Accept(c) == Move(c, "new", "accepted")
Refuse(c) == Move(c, "new", "refused")
Drop(c)   == payments[c] = 0 /\ Move(c, "accepted", "dropped")
Settle(c) == payments[c] > 0 /\ Move(c, "accepted", "settled")

Pay(c) ==
  /\ stage[c] \in {"accepted", "lost"}
  /\ payments' = [payments EXCEPT ![c] = @ + 1]
  /\ UNCHANGED stage

Restart ==
  /\ \E inFlight \in SUBSET {c \in Calls : stage[c] = "new"} :
       stage' = [c \in Calls |->
                   IF stage[c] = "accepted" THEN "lost"
                   ELSE IF c \in inFlight THEN "refused" ELSE stage[c]]
  /\ UNCHANGED payments

Next ==
  \/ \E c \in Calls : Accept(c) \/ Refuse(c) \/ Drop(c) \/ Settle(c) \/ Pay(c)
  \/ Restart

Spec == Init /\ [][Next]_<<stage, payments>>

=============================================================================
