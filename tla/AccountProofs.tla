--------------------------- MODULE AccountProofs ---------------------------
(***************************************************************************)
(* The arithmetic of an account, for every amount and every fee.           *)
(***************************************************************************)
EXTENDS Account, TLAPS

LEMMA DivisionBy ==
  ASSUME NEW amt \in Nat
  PROVE  /\ amt \div 100 \in Nat /\ amt % 100 \in 0..99
         /\ amt = 100 * (amt \div 100) + (amt % 100)
<1>1. amt \div 100 \in Nat
  OBVIOUS
<1>2. amt % 100 \in 0..99
  OBVIOUS
<1>3. amt = 100 * (amt \div 100) + (amt % 100)
  OBVIOUS
<1> QED BY <1>1, <1>2, <1>3

(* The fee charged exceeds the fee quoted by the part of amt below a       *)
(* hundred, divided by 49: nothing, one or two piconero.  The algebra of   *)
(* the comment in get_balance is exact only for the multiples of 100.      *)
THEOREM FeeDrift ==
  ASSUME NEW amt \in Nat, NEW net_fee \in Nat
  PROVE  /\ ChargedFee(AmtToSend(amt, net_fee), net_fee)
              = QuotedFee(amt) + (amt % 100) \div 49
         /\ (amt % 100) \div 49 \in 0..2
<1> DEFINE q == amt \div 100
           r == amt % 100
<1>1. q \in Nat /\ r \in 0..99 /\ amt = 100 * q + r
  BY DivisionBy
<1>2. AmtToSend(amt, net_fee) + net_fee = 49 * (2 * q) + r
  BY <1>1 DEF AmtToSend, QuotedFee
<1>3. ChargedFee(AmtToSend(amt, net_fee), net_fee) = (49 * (2 * q) + r) \div 49
  BY <1>2 DEF ChargedFee
<1>4. QuotedFee(amt) = 2 * q
  BY DEF QuotedFee
<1> HIDE DEF q, r
<1>5. (49 * (2 * q) + r) \div 49 = 2 * q + r \div 49
  BY <1>1
<1>6. r \div 49 \in 0..2
  BY <1>1
<1>7. (amt % 100) \div 49 = r \div 49
  BY DEF r
<1> QED BY <1>3, <1>4, <1>5, <1>6, <1>7

LEMMA AccountTypeInit == Init => TypeOK
BY AccountAssumption DEF Init, TypeOK, NewFinancialInfo, FinancialInfos

LEMMA WithdrawFacts ==
  ASSUME TypeOK, NEW amt \in Amounts, NEW net_fee \in NetFees, Withdraw(amt, net_fee)
  PROVE  /\ amt \in Nat /\ net_fee \in Nat /\ QuotedFee(amt) \in Nat
         /\ AmtToSend(amt, net_fee) \in Nat
         /\ AmtToSend(amt, net_fee) + net_fee = amt - QuotedFee(amt)
         /\ \E drift \in 0..2 :
              ChargedFee(AmtToSend(amt, net_fee), net_fee) = QuotedFee(amt) + drift
<1>1. amt \in Nat /\ net_fee \in Nat
  BY AccountAssumption
<1>2. QuotedFee(amt) \in Nat
  BY <1>1 DEF QuotedFee
<1>3. amt >= net_fee + QuotedFee(amt)
  BY DEF Withdraw, Withdrawable
<1> QED BY <1>1, <1>2, <1>3, FeeDrift DEF AmtToSend

LEMMA AccountTypeStep == TypeOK /\ [Next]_vars => TypeOK'
<1> SUFFICES ASSUME TypeOK, [Next]_vars PROVE TypeOK'
  OBVIOUS
<1>1. ASSUME NEW x \in Deposits, Deposit(x) PROVE TypeOK'
  BY <1>1, AccountAssumption DEF TypeOK, Deposit, Operation, FinancialInfos
<1>2. ASSUME NEW price \in Prices, Buy(price) PROVE TypeOK'
  BY <1>2, AccountAssumption DEF TypeOK, Buy, Operation, FinancialInfos
<1>3. ASSUME NEW amt \in Amounts, NEW net_fee \in NetFees, Withdraw(amt, net_fee)
      PROVE  TypeOK'
  <2> DEFINE sent == AmtToSend(amt, net_fee)
             charged == ChargedFee(sent, net_fee)
  <2>1. /\ amt \in Nat /\ net_fee \in Nat /\ QuotedFee(amt) \in Nat /\ sent \in Nat
        /\ charged \in Nat
    BY <1>3, WithdrawFacts
  <2>2. /\ Operation /\ unlocked >= sent + net_fee
        /\ unlocked' = unlocked - (sent + net_fee)
        /\ info' = [info EXCEPT !.balance = unlocked - (sent + net_fee),
                                !.service_fee_total = @ + charged,
                                !.out_fees = @ + charged]
        /\ asked' = asked + amt
        /\ withdrawals' = withdrawals + 1 /\ prudent' \in BOOLEAN
        /\ UNCHANGED <<deposited, spent>>
    BY <1>3 DEF Withdraw, TypeOK
  <2> HIDE DEF sent, charged
  <2>3. unlocked' \in Nat
    BY <2>1, <2>2 DEF TypeOK
  <2>4. info' \in FinancialInfos
    <3>1. /\ info.service_fee_total + charged \in Nat
          /\ info.out_fees + charged \in Nat /\ info \in FinancialInfos
      BY <2>1 DEF TypeOK, FinancialInfos
    <3> QED BY <2>2, <2>3, <3>1 DEF FinancialInfos
  <2> QED BY <2>1, <2>2, <2>3, <2>4 DEF TypeOK, Operation, FinancialInfos
<1>4. CASE UNCHANGED vars
  BY <1>4 DEF TypeOK, vars
<1> QED BY <1>1, <1>2, <1>3, <1>4 DEF Next

(* Type correctness of the account.                                        *)
THEOREM AccountTypeCorrect == Spec => []TypeOK
BY AccountTypeInit, AccountTypeStep, PTL DEF Spec

AInv == TypeOK /\ DriftBounded /\ PrudentNeverWraps

(* While nothing has wrapped, what get_balance returns is no more than what *)
(* is available.                                                           *)
LEMMA NoWrap ==
  ASSUME TypeOK, Available >= 0
  PROVE  GetBalance(info) \in Nat /\ GetBalance(info) <= Available
<1>1. Available \in Nat
  BY DEF TypeOK, Available, FinancialInfos
<1>2. GetBalance(info) = Available % Modulus
  <2>1. Larger(info.service_fee_total, info.out_fees) = info.service_fee_total
    BY DEF Larger, TypeOK
  <2> QED BY <2>1 DEF TypeOK, GetBalance, Available
<1>3. \A a \in Nat : a % Modulus \in Nat /\ a % Modulus <= a
  BY ModulusAssumption
<1> QED BY <1>1, <1>2, <1>3

LEMMA AccountStep == AInv /\ [Next]_vars => AInv'
<1> SUFFICES ASSUME AInv, [Next]_vars PROVE DriftBounded' /\ PrudentNeverWraps'
  BY AccountTypeStep DEF AInv
<1>0. /\ unlocked \in Nat /\ info.service_fee_total \in Nat /\ info.amount_spent \in Nat
      /\ deposited \in Nat /\ spent \in Nat /\ asked \in Nat /\ withdrawals \in Nat
      /\ info \in FinancialInfos
  BY DEF AInv, TypeOK, FinancialInfos
<1>1. ASSUME NEW x \in Deposits, Deposit(x)
      PROVE  DriftBounded' /\ PrudentNeverWraps'
  <2>1. x \in Nat
    BY AccountAssumption
  <2>2. Available' = Available + x
    BY <1>0, <1>1, <2>1 DEF Deposit, Available, FinancialInfos
  <2> QED BY <1>0, <1>1, <2>1, <2>2
          DEF AInv, DriftBounded, PrudentNeverWraps, Deposit, Available
<1>2. ASSUME NEW price \in Prices, Buy(price)
      PROVE  DriftBounded' /\ PrudentNeverWraps'
  <2>1. price \in Nat /\ GetBalance(info) >= price
    BY <1>2, AccountAssumption DEF Buy, CanSpend
  <2>2. Available' = Available - price
    BY <1>0, <1>2, <2>1 DEF Buy, Available, FinancialInfos
  <2>3. prudent => Available >= price
    BY <1>0, <2>1, NoWrap DEF AInv, PrudentNeverWraps, Available
  <2> QED BY <1>0, <1>2, <2>1, <2>2, <2>3
          DEF AInv, DriftBounded, PrudentNeverWraps, Buy, Available
<1>3. ASSUME NEW amt \in Amounts, NEW net_fee \in NetFees, Withdraw(amt, net_fee)
      PROVE  DriftBounded' /\ PrudentNeverWraps'
  <2> DEFINE sent == AmtToSend(amt, net_fee)
             charged == ChargedFee(sent, net_fee)
  <2>1. /\ amt \in Nat /\ net_fee \in Nat /\ QuotedFee(amt) \in Nat
        /\ sent \in Nat /\ sent + net_fee = amt - QuotedFee(amt)
    BY <1>3, WithdrawFacts DEF AInv
  <2>2. PICK drift \in 0..2 : charged = QuotedFee(amt) + drift
    BY <1>3, WithdrawFacts DEF AInv
  <2>3. /\ unlocked' = unlocked - (sent + net_fee)
        /\ info' = [info EXCEPT !.balance = unlocked - (sent + net_fee),
                                !.service_fee_total = @ + charged,
                                !.out_fees = @ + charged]
        /\ asked' = asked + amt /\ withdrawals' = withdrawals + 1
        /\ prudent' = (prudent /\ amt + 2 <= GetBalance(info))
        /\ UNCHANGED <<deposited, spent>>
    BY <1>3 DEF Withdraw
  <2> HIDE DEF sent, charged
  <2>4. Available' = Available - amt - drift
    <3>1. /\ info'.service_fee_total = info.service_fee_total + charged
          /\ info'.amount_spent = info.amount_spent
      BY <1>0, <2>3 DEF FinancialInfos
    <3> QED BY <1>0, <2>1, <2>2, <2>3, <3>1 DEF Available
  <2>5. DriftBounded'
    BY <1>0, <2>1, <2>2, <2>3, <2>4 DEF AInv, DriftBounded, Available
  <2>6. PrudentNeverWraps'
    <3>1. SUFFICES ASSUME prudent' PROVE Available' >= 0
      BY DEF PrudentNeverWraps
    <3>2. Available >= 0 /\ amt + 2 <= GetBalance(info)
      BY <2>3, <3>1 DEF AInv, PrudentNeverWraps
    <3>3. GetBalance(info) \in Nat /\ GetBalance(info) <= Available
      BY <3>2, NoWrap DEF AInv
    <3> QED BY <1>0, <2>1, <2>2, <2>4, <3>2, <3>3 DEF Available
  <2> QED BY <2>5, <2>6
<1>4. CASE UNCHANGED vars
  BY <1>4 DEF AInv, DriftBounded, PrudentNeverWraps, Available, vars
<1> QED BY <1>1, <1>2, <1>3, <1>4 DEF Next

(* An account follows its deposits, purchases and withdrawals to within    *)
(* two piconero per withdrawal.                                            *)
THEOREM AccountFollows == Spec => []DriftBounded
<1>1. Init => AInv
  BY AccountTypeInit
  DEF Init, AInv, DriftBounded, PrudentNeverWraps, Available, NewFinancialInfo
<1>2. AInv /\ [Next]_vars => AInv'
  BY AccountStep
<1>3. AInv => DriftBounded
  BY DEF AInv
<1> QED BY <1>1, <1>2, <1>3, PTL DEF Spec

(* The balance of a user who always leaves two piconero never wraps.       *)
THEOREM PrudentSafe == Spec => []PrudentNeverWraps
<1>1. Init => AInv
  BY AccountTypeInit
  DEF Init, AInv, DriftBounded, PrudentNeverWraps, Available, NewFinancialInfo
<1>2. AInv /\ [Next]_vars => AInv'
  BY AccountStep
<1>3. AInv => PrudentNeverWraps
  BY DEF AInv
<1> QED BY <1>1, <1>2, <1>3, PTL DEF Spec

=============================================================================
