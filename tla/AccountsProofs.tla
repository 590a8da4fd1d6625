--------------------------- MODULE AccountsProofs ---------------------------
(***************************************************************************)
(* Proofs about the concurrent use of money_db, for any users, editors,    *)
(* amounts and deposits and any modulus: what the records show and what    *)
(* they keep while tasks that do not know of each other write them.        *)
(***************************************************************************)
EXTENDS Accounts, FiniteSetTheorems, SequenceTheorems, WellFoundedInduction, TLAPS

(* The users who have a record, and who holds a copy of it: an editor from *)
(* its read to its last write, update_acc_balances while it waits for the  *)
(* lock and in its batch.                                                  *)
Registered(u) == moneyDB[u] # NoInfo
Busy(e) == editor[e].pc \in {"pending", "paid", "write", "flush"}
Holds(e) == editor[e].pc \in {"pending", "write", "flush"}
Reading(u) == updater.pc = "lock" /\ KeyOrder[updater.key] = u
Held(u, info) ==
  /\ info # NoInfo
  /\ \/ info = moneyDB[u] \/ info = updater.batch[u]
     \/ Reading(u) /\ info = updater.info
     \/ \E e \in Editors : Holds(e) /\ Job(e).user = u /\ info = editor[e].info

(* Nothing is copied, spent or charged before a user has a record.         *)
Registrations ==
  /\ \A u \in Users : fresh[u] # 0 => ~ Registered(u)
  /\ \A u \in Users : ~ Registered(u) =>
       spent[u] = 0 /\ charged[u] = 0 /\ current[u] = {} /\ updater.batch[u] = NoInfo
  /\ \A e \in Editors : Busy(e) => Job(e) \in Jobs /\ Registered(Job(e).user)
  /\ \A e \in Editors : Holds(e) => editor[e].info # NoInfo

(* The round of update_acc_balances: what it has not reached is not in its *)
(* batch.                                                                  *)
Round ==
  /\ updater.pc = "lock" =>
       /\ updater.key <= Len(KeyOrder) /\ updater.info # NoInfo
       /\ Registered(KeyOrder[updater.key])
  /\ \A k \in updater.key..Len(KeyOrder) : updater.batch[KeyOrder[k]] = NoInfo
  /\ updater.pc \in {"sleep", "balance", "full"} => updater.fulls = Unanswered

(* update_transfers has the lock until it stores, or has slept after an    *)
(* error.                                                                  *)
Locking == refresher.pc \in {"rpc", "error"} => lockQueue # <<>> /\ Head(lockQueue) = "writer"

(* Aligned records: all copies of a record have the index of its deposit   *)
(* address, and so has the slot at that index.                             *)
Alignment ==
  aligned =>
    /\ IsAligned(moneyDB)
    /\ \A k \in DOMAIN refresher.indices : refresher.indices[k] = k
    /\ \A k \in DOMAIN allTransfers : allTransfers[k].addr_index = k
    /\ \A u \in Users : \A info \in FinancialInfos : Held(u, info) =>
         OwnIndex(info) /\ info.addr_index = moneyDB[u].addr_index

(* The wallet loses nothing, and its answers are never more than what a    *)
(* subaddress that has not paid holds now.                                 *)
Wallet ==
  \A i \in Indices :
    /\ funds[i].unlocked + funds[i].locked + funds[i].paid = funds[i].received
    /\ funds[i].paid = 0 =>
         /\ funds[i].out_fees = 0
         /\ updater.balances[i] # NoAnswer => updater.balances[i] <= funds[i].unlocked
         /\ updater.fulls[i] # NoAnswer =>
              /\ updater.fulls[i] <= funds[i].received
              /\ updater.balances[i] # NoAnswer => updater.balances[i] <= updater.fulls[i]

(* A copy of the record of a subaddress that has not paid shows no more    *)
(* than it holds and than the wallet has answered.                         *)
Shown(info, i) ==
  /\ info.out_fees = 0
  /\ info.balance <= funds[i].unlocked /\ info.pending_balance <= funds[i].received
  /\ updater.balances[i] # NoAnswer => info.balance <= updater.balances[i]
  /\ updater.fulls[i] # NoAnswer => info.balance <= updater.fulls[i]
Showing ==
  aligned =>
    /\ \A u \in Users : \A info \in FinancialInfos :
         Held(u, info) /\ funds[info.addr_index].paid = 0 => Shown(info, info.addr_index)
    /\ \A k \in DOMAIN allTransfers :
         funds[k].paid = 0 => allTransfers[k].out_fees = 0

(* Who is charged has paid.                                                *)
Charging ==
  aligned => \A u \in Users : Registered(u) /\ funds[moneyDB[u].addr_index].paid = 0 =>
    /\ charged[u] = 0
    /\ \A e \in Editors :
         Job(e) \in Jobs /\ Job(e).user = u /\ (At(e, "credit", "paid") \/ At(e, "credit", "write")) =>
           FeeOf(Job(e)) = 0

(* A copy that is up to date has every purchase and every fee, its own     *)
(* included, and of a subaddress that has not paid the balance for them.   *)
Right(u, info, s, c) ==
  /\ info.amount_spent = s % Modulus /\ info.service_fee_total = c % Modulus
  /\ aligned /\ funds[moneyDB[u].addr_index].paid = 0 => s <= info.balance
Buying(e) == IF At(e, "spend", "write") THEN Job(e).amt ELSE 0
Fee(e) == IF At(e, "credit", "write") THEN FeeOf(Job(e)) ELSE 0
RightAt(u) ==
  Registered(u) /\ ~ overlapped[u] =>
    /\ Right(u, moneyDB[u], spent[u], charged[u])
    /\ \A e \in Editors :
         e \in current[u] /\ editor[e].pc \in {"write", "flush"} /\ Job(e).user = u =>
           Right(u, editor[e].info, spent[u] + Buying(e), charged[u] + Fee(e))
    /\ "updater" \in current[u] =>
         /\ updater.batch[u] # NoInfo => Right(u, updater.batch[u], spent[u], charged[u])
         /\ Reading(u) => Right(u, updater.info, spent[u], charged[u])
UpToDate == \A u \in Users : RightAt(u)

AccountsInv ==
  /\ TypeOK /\ Registrations /\ Round /\ Locking /\ Alignment /\ Wallet /\ Showing
  /\ Charging /\ UpToDate

-----------------------------------------------------------------------------
(* The indices that values() yields.                                       *)

LEMMA PartFinite ==
  ASSUME NEW L \in Nat, NEW P \in SUBSET (1..L)
  PROVE  IsFiniteSet(P) /\ Cardinality(P) \in Nat
<1>1. IsFiniteSet(1..L)
  BY FS_Interval
<1>2. IsFiniteSet(P)
  BY <1>1, FS_Subset
<1> QED BY <1>2, FS_CardinalityType

LEMMA NthIn ==
  ASSUME NEW L \in Nat, NEW P \in SUBSET (1..L), NEW n \in 1..Cardinality(P)
  PROVE  Nth(P, n) \in P
<1> DEFINE upto(k) == P \cap (1..k)
           S == {k \in Nat : Cardinality(upto(k)) >= n}
<1>1. IsFiniteSet(P) /\ Cardinality(P) \in Nat /\ n \in Nat
  <2>1. IsFiniteSet(P) /\ Cardinality(P) \in Nat
    BY PartFinite
  <2> QED BY <2>1
<1>2. \A k \in Nat : IsFiniteSet(upto(k)) /\ Cardinality(upto(k)) \in Nat
  BY <1>1, FS_Subset, FS_CardinalityType
<1>3. L \in S
  <2>1. upto(L) = P
    OBVIOUS
  <2> QED BY <1>1, <2>1
<1>4. PICK k \in S : \A j \in S : ~ (j < k)
  <2>1. PICK k \in S : \A j \in S : ~ (<<j, k>> \in OpToRel(<, Nat))
    <3> HIDE DEF S
    <3>1. S \subseteq Nat /\ S # {}
      BY <1>3 DEF S
    <3> QED BY <3>1, NatLessThanWellFounded, WFMin
  <2>2. \A j \in S : ~ (j < k)
    BY <2>1 DEF OpToRel
  <2> QED BY <2>2
<1>5. k # 0
  <2>1. upto(0) = {}
    OBVIOUS
  <2>2. Cardinality(upto(0)) = 0
    BY <2>1, FS_EmptySet
  <2> QED BY <1>4, <2>2
<1>6. k \in Nat /\ k - 1 \in Nat /\ k - 1 \notin S
  BY <1>4, <1>5
<1>7. Cardinality(upto(k - 1)) < n /\ Cardinality(upto(k)) >= n
  BY <1>1, <1>2, <1>4, <1>6
<1>8. k \in P
  <2> SUFFICES ASSUME k \notin P PROVE FALSE
    OBVIOUS
  <2>1. upto(k) = upto(k - 1)
    BY <1>6
  <2> QED BY <1>2, <1>6, <1>7, <2>1
<1>9. upto(k) = upto(k - 1) \cup {k} /\ k \notin upto(k - 1)
  BY <1>6, <1>8
<1>10. Cardinality(upto(k)) = Cardinality(upto(k - 1)) + 1
  BY <1>2, <1>6, <1>9, FS_AddElement
<1>11. Cardinality(upto(k)) = n
  <2> DEFINE a == Cardinality(upto(k - 1))
             b == Cardinality(upto(k))
  <2>1. a \in Nat /\ b \in Nat
    BY <1>2, <1>6
  <2>2. a < n /\ b >= n /\ b = a + 1
    BY <1>7, <1>10
  <2> HIDE DEF a, b
  <2>3. b = n
    BY <1>1, <2>1, <2>2
  <2> QED BY <2>3 DEF b
<1> QED BY <1>8, <1>11 DEF Nth

LEMMA KeyOrderFacts ==
  /\ Len(KeyOrder) \in Nat
  /\ \A k \in 1..Len(KeyOrder) : KeyOrder[k] \in Users
  /\ \A u \in Users : \E k \in 1..Len(KeyOrder) : KeyOrder[k] = u
  /\ \A j, k \in 1..Len(KeyOrder) : KeyOrder[j] = KeyOrder[k] => j = k
<1>1. KeyOrder \in Seq(Users) /\ DOMAIN KeyOrder = 1..Len(KeyOrder) /\ Len(KeyOrder) \in Nat
  BY AccountsAssumption, LenProperties
<1> QED BY <1>1, AccountsAssumption, ElementOfSeq DEF ToSet

LEMMA IndicesTyped ==
  ASSUME NEW db \in [Users -> Infos]
  PROVE  IndicesIn(db) \in Seq(Indices)
<1> DEFINE P == Places(db)
<1>1. Len(KeyOrder) \in Nat /\ P \in SUBSET (1..Len(KeyOrder))
  BY KeyOrderFacts DEF Places
<1>2. IsFiniteSet(P) /\ Cardinality(P) \in Nat
  BY <1>1, PartFinite
<1>3. ASSUME NEW n \in 1..Cardinality(P)
      PROVE  db[KeyOrder[Nth(P, n)]].addr_index \in Indices
  <2>1. Nth(P, n) \in P
    BY <1>1, NthIn
  <2>2. KeyOrder[Nth(P, n)] \in Users /\ db[KeyOrder[Nth(P, n)]] # NoInfo
    BY <2>1, KeyOrderFacts DEF Places
  <2> QED BY <2>2 DEF Infos, FinancialInfos
<1> QED BY <1>2, <1>3 DEF IndicesIn

(* They are the same as long as the same users have records, with the same *)
(* indices.                                                                *)
LEMMA IndicesSame ==
  ASSUME NEW db \in [Users -> Infos], NEW new \in [Users -> Infos],
         \A u \in Users : db[u] = NoInfo <=> new[u] = NoInfo,
         \A u \in Users : db[u] # NoInfo => new[u].addr_index = db[u].addr_index
  PROVE  IndicesIn(new) = IndicesIn(db)
<1>1. Places(new) = Places(db)
  BY KeyOrderFacts DEF Places
<1> DEFINE P == Places(db)
<1>2. Len(KeyOrder) \in Nat /\ P \in SUBSET (1..Len(KeyOrder))
  BY KeyOrderFacts DEF Places
<1>3. ASSUME NEW n \in 1..Cardinality(P)
      PROVE  new[KeyOrder[Nth(P, n)]].addr_index = db[KeyOrder[Nth(P, n)]].addr_index
  <2>1. Nth(P, n) \in P
    BY <1>2, NthIn
  <2> QED BY <2>1, KeyOrderFacts DEF Places
<1> QED BY <1>1, <1>3 DEF IndicesIn

-----------------------------------------------------------------------------
(* Records.                                                                *)

(* A record that differs in what its user asked for only.                  *)
SameFunds(info, new) ==
  /\ new.addr_index = info.addr_index /\ new.deposit_addr = info.deposit_addr
  /\ new.out_fees = info.out_fees /\ new.balance = info.balance
  /\ new.pending_balance = info.pending_balance

LEMMA InfoFields ==
  ASSUME NEW info \in FinancialInfos
  PROVE  /\ info.addr_index \in Indices /\ info.deposit_addr \in Indices
         /\ info.out_fees \in Nat /\ info.balance \in Nat /\ info.pending_balance \in Nat
         /\ info.service_fee_total \in Nat /\ info.amount_spent \in Nat
         /\ info # NoInfo
BY AccountsAssumption DEF FinancialInfos

LEMMA NatMod ==
  ASSUME NEW x \in Int
  PROVE  x % Modulus \in Nat
BY ModulusAssumption

LEMMA AttachedInfo ==
  ASSUME NEW info \in FinancialInfos, NEW addr \in Addrs
  PROVE  LET new == [info EXCEPT !.xmr_addr = addr]
         IN  /\ new \in FinancialInfos /\ SameFunds(info, new)
             /\ new.amount_spent = info.amount_spent
             /\ new.service_fee_total = info.service_fee_total
BY DEF FinancialInfos, SameFunds

LEMMA SpentInfo ==
  ASSUME NEW info \in FinancialInfos, NEW amt \in Nat
  PROVE  LET new == Spend(info, amt)
         IN  /\ new \in FinancialInfos /\ SameFunds(info, new)
             /\ new.amount_spent = (info.amount_spent + amt) % Modulus
             /\ new.service_fee_total = info.service_fee_total
<1>1. info.amount_spent + amt \in Int
  BY InfoFields
<1>2. (info.amount_spent + amt) % Modulus \in Nat
  BY <1>1, NatMod
<1> DEFINE x == (info.amount_spent + amt) % Modulus
           new == [info EXCEPT !.amount_spent = x]
<1>3. x \in Nat /\ Spend(info, amt) = new
  BY <1>2 DEF Spend
<1> HIDE DEF x
<1>4. /\ new \in FinancialInfos /\ SameFunds(info, new)
      /\ new.amount_spent = x /\ new.service_fee_total = info.service_fee_total
  BY <1>3 DEF FinancialInfos, SameFunds
<1> QED BY <1>3, <1>4 DEF x

LEMMA FeedInfo ==
  ASSUME NEW info \in FinancialInfos, NEW fee \in Nat
  PROVE  LET new == [info EXCEPT !.service_fee_total = (@ + fee) % Modulus]
         IN  /\ new \in FinancialInfos /\ SameFunds(info, new)
             /\ new.amount_spent = info.amount_spent
             /\ new.service_fee_total = (info.service_fee_total + fee) % Modulus
<1>1. info.service_fee_total + fee \in Int
  BY InfoFields
<1> DEFINE x == (info.service_fee_total + fee) % Modulus
           new == [info EXCEPT !.service_fee_total = x]
<1>2. x \in Nat
  BY <1>1, NatMod
<1> HIDE DEF x
<1>3. /\ new \in FinancialInfos /\ SameFunds(info, new)
      /\ new.amount_spent = info.amount_spent /\ new.service_fee_total = x
  BY <1>2 DEF FinancialInfos, SameFunds
<1> QED BY <1>3 DEF x

LEMMA NewInfo ==
  ASSUME NEW i \in Indices
  PROVE  LET new == NewFinancialInfo(i, i)
         IN  /\ new \in FinancialInfos /\ new.addr_index = i /\ OwnIndex(new)
             /\ new.out_fees = 0 /\ new.balance = 0 /\ new.pending_balance = 0
             /\ new.amount_spent = 0 /\ new.service_fee_total = 0
BY DEF NewFinancialInfo, FinancialInfos, OwnIndex

LEMMA JobFields ==
  ASSUME NEW j \in Jobs
  PROVE  /\ j.kind \in {"attach", "spend", "credit"} /\ j.user \in Users
         /\ j.amt \in Nat /\ j.fee \in Nat /\ j.addr \in Addrs /\ FeeOf(j) \in Nat
<1>1. /\ j.kind \in {"attach", "spend", "credit"} /\ j.user \in Users
      /\ j.amt \in Nat /\ j.fee \in Nat /\ j.addr \in Addrs
  BY AccountsAssumption
<1>2. FeeOf(j) \in Nat
  BY <1>1 DEF FeeOf, ChargedFee
<1> QED BY <1>1, <1>2

-----------------------------------------------------------------------------
(* Types.                                                                  *)

LEMMA TypedParts ==
  ASSUME TypeOK
  PROVE  /\ \A u \in Users : moneyDB[u] \in Infos /\ updater.batch[u] \in Infos
         /\ updater \in Updaters /\ refresher \in Refreshers
         /\ updater.pc \in {"sleep", "balance", "full", "records", "lock"}
         /\ updater.indices \in Seq(Indices)
         /\ updater.balances \in Answers /\ updater.fulls \in Answers
         /\ updater.key \in 1..(Len(KeyOrder) + 1) /\ updater.info \in Infos
         /\ updater.batch \in [Users -> Infos]
         /\ refresher.indices \in Seq(Indices)
         /\ \A e \in Editors :
              /\ editor[e] \in Edits /\ editor[e].info \in Infos
              /\ editor[e].job \in Jobs \cup {NoJob}
              /\ editor[e].pc \in {"start", "pending", "paid", "write", "flush", "done"}
<1>1. updater \in Updaters /\ refresher \in Refreshers /\ editor \in [Editors -> Edits]
      /\ moneyDB \in [Users -> Infos]
  BY DEF TypeOK
<1> QED BY <1>1 DEF Updaters, Refreshers, Edits

LEMMA AsleepTyped ==
  /\ Asleep \in Updaters /\ Unanswered \in Answers
  /\ \A indices \in Seq(Indices) :
       [Asleep EXCEPT !.pc = "balance", !.indices = indices] \in Updaters
<1>1. <<>> \in Seq(Indices) /\ 1 \in 1..(Len(KeyOrder) + 1)
  BY KeyOrderFacts, EmptySeq
<1>2. Unanswered \in Answers
  BY DEF Unanswered, Answers
<1> QED BY <1>1, <1>2 DEF Asleep, Updaters, Infos

LEMMA BalancesTyped ==
  ASSUME TypeOK, NEW indices \in Seq(Indices), NEW b \in BOOLEAN
  PROVE  Balances(indices, b) \in Answers
<1>1. \A i \in Indices : funds[i].unlocked \in Nat /\ funds[i].locked \in Nat
  BY DEF TypeOK, Funds
<1> QED BY <1>1 DEF Balances, Answers

LEMMA SlotTyped ==
  ASSUME TypeOK, NEW info \in FinancialInfos
  PROVE  Slot(info) \in Transfers
<1>1. info.addr_index \in DOMAIN allTransfers => allTransfers[info.addr_index] \in Transfers
  BY ElementOfSeq, LenProperties DEF TypeOK
<1> QED BY <1>1, InfoFields DEF Slot, Transfers

(* What update_acc_balances changes in a record, and what it leaves.       *)
BalanceOf(info, i) ==
  IF updater.balances[i] # NoAnswer THEN updater.balances[i] ELSE info.balance
PendingOf(info, i) ==
  IF updater.fulls[i] # NoAnswer THEN (updater.fulls[i] - BalanceOf(info, i)) % Modulus
                                 ELSE info.pending_balance

LEMMA RefreshedInfo ==
  ASSUME TypeOK, NEW info \in FinancialInfos
  PROVE  LET i == Slot(info).addr_index
             new == Refreshed(info)
         IN  /\ i \in Indices /\ new \in FinancialInfos /\ new.addr_index = i
             /\ new.deposit_addr = info.deposit_addr /\ new.out_fees = Slot(info).out_fees
             /\ new.balance = BalanceOf(info, i) /\ new.pending_balance = PendingOf(info, i)
             /\ new.amount_spent = info.amount_spent
             /\ new.service_fee_total = info.service_fee_total
<1> DEFINE i == Slot(info).addr_index
           x == Slot(info).out_fees
           b == BalanceOf(info, i)
           p == PendingOf(info, i)
           new == [info EXCEPT !.addr_index = i, !.out_fees = x,
                               !.balance = b, !.pending_balance = p]
<1>1. i \in Indices /\ x \in Nat
  BY SlotTyped DEF Transfers
<1>2. b \in Nat
  BY <1>1, TypedParts, InfoFields DEF BalanceOf, Answers
<1>3. p \in Nat
  <2>1. CASE updater.fulls[i] # NoAnswer
    <3>1. updater.fulls[i] \in Nat
      BY <1>1, <2>1, TypedParts DEF Answers
    <3>2. updater.fulls[i] - b \in Int
      BY <1>2, <3>1
    <3> QED BY <2>1, <3>2, NatMod DEF PendingOf
  <2>2. CASE updater.fulls[i] = NoAnswer
    BY <2>2, InfoFields DEF PendingOf
  <2> QED BY <2>1, <2>2
<1>4. Refreshed(info) = new
  BY DEF Refreshed, BalanceOf, PendingOf
<1> HIDE DEF i, x, b, p
<1>5. /\ new \in FinancialInfos /\ new.addr_index = i /\ new.deposit_addr = info.deposit_addr
      /\ new.out_fees = x /\ new.balance = b /\ new.pending_balance = p
      /\ new.amount_spent = info.amount_spent /\ new.service_fee_total = info.service_fee_total
  BY <1>1, <1>2, <1>3 DEF FinancialInfos
<1> QED BY <1>1, <1>4, <1>5 DEF i, x, b, p

-----------------------------------------------------------------------------
(* The steps of an editor, by what they do to the record and to the copies *)
(* of it.                                                                  *)

Becomes(e, pc, job, info) ==
  /\ editor' \in [Editors -> Edits]
  /\ editor'[e].pc = pc /\ editor'[e].job = job /\ editor'[e].info = info
  /\ \A f \in Editors \ {e} : editor'[f] = editor[f]

(* It takes a copy and changes it.                                         *)
Taken(e, j, new) ==
  LET old == moneyDB[j.user]
  IN  /\ Registered(j.user) /\ new \in FinancialInfos /\ SameFunds(old, new)
      /\ new.amount_spent =
           IF j.kind = "spend" THEN (old.amount_spent + j.amt) % Modulus ELSE old.amount_spent
      /\ new.service_fee_total =
           IF j.kind = "credit" THEN (old.service_fee_total + FeeOf(j)) % Modulus
                                ELSE old.service_fee_total
      /\ j.kind = "spend" => CanSpend(old, j.amt)
      /\ j.kind = "credit" => editor[e].pc = "paid" /\ Job(e) = j
EditorReads(e) ==
  /\ editor[e].pc \in {"start", "paid"}
  /\ \E j \in Jobs, new \in FinancialInfos :
       Taken(e, j, new) /\ Becomes(e, "write", j, new) /\ Copies(e, j.user)
  /\ UNCHANGED <<moneyDB, funds, overlapped, spent, charged>>

(* It writes its copy.                                                     *)
EditorWrites(e) ==
  /\ editor[e].pc \in {"write", "flush"} /\ editor[e].info \in FinancialInfos
  /\ Insert(e, Job(e).user, editor[e].info)
  /\ \/ Becomes(e, "done", Job(e), NoInfo)
     \/ editor[e].pc = "write" /\ Becomes(e, "flush", Job(e), editor[e].info)
  /\ spent' = [spent EXCEPT ![Job(e).user] = spent[Job(e).user] + Buying(e)]
  /\ charged' = [charged EXCEPT ![Job(e).user] = charged[Job(e).user] + Fee(e)]
  /\ UNCHANGED funds

(* It takes a withdrawal, or is denied a purchase.                         *)
EditorStarts(e) ==
  /\ editor[e].pc = "start"
  /\ \/ Becomes(e, "done", Job(e), editor[e].info)
     \/ \E j \in Jobs : Registered(j.user) /\ Becomes(e, "pending", j, moneyDB[j.user])
  /\ UNCHANGED <<moneyDB, funds, current, overlapped, spent, charged>>

(* The wallet pays for it.                                                 *)
Paid(f, out, fee) ==
  [f EXCEPT !.unlocked = f.unlocked - out, !.paid = f.paid + out,
            !.out_fees = f.out_fees + fee]
EditorPays(e) ==
  LET i == editor[e].info.addr_index
      out == Job(e).amt + Job(e).fee
  IN  /\ At(e, "credit", "pending") /\ funds[i].unlocked >= out
      /\ funds' = [funds EXCEPT ![i] = Paid(funds[i], out, FeeOf(Job(e)))]
      /\ Becomes(e, "paid", Job(e), NoInfo)
      /\ UNCHANGED <<moneyDB, current, overlapped, spent, charged>>

LEMMA BecomesBy ==
  ASSUME TypeOK, NEW e \in Editors, NEW l \in Edits, editor' = [editor EXCEPT ![e] = l]
  PROVE  Becomes(e, l.pc, l.job, l.info)
BY DEF TypeOK, Becomes

LEMMA ReadsBecome ==
  ASSUME TypeOK, NEW e \in Editors, NEW j \in Jobs, NEW new \in FinancialInfos, Reads(e, j, new)
  PROVE  /\ Becomes(e, "write", j, new) /\ Copies(e, j.user)
         /\ UNCHANGED <<moneyDB, overlapped, spent, charged>>
<1> DEFINE l == [pc |-> "write", job |-> j, info |-> new]
<1>1. l \in Edits /\ l.pc = "write" /\ l.job = j /\ l.info = new
  BY DEF Edits, Infos
<1>2. editor' = [editor EXCEPT ![e] = l]
  BY DEF Reads
<1> HIDE DEF l
<1>3. Becomes(e, "write", j, new)
  BY <1>1, <1>2, BecomesBy
<1> QED BY <1>3 DEF Reads

LEMMA WritesBecome ==
  ASSUME TypeOK, NEW e \in Editors, NEW pc \in {"done", "flush"}, Writes(e, pc, editor[e].info)
  PROVE  /\ Insert(e, Job(e).user, editor[e].info)
         /\ Becomes(e, pc, Job(e), IF pc = "done" THEN NoInfo ELSE editor[e].info)
<1> DEFINE info == IF pc = "done" THEN NoInfo ELSE editor[e].info
           l == [editor[e] EXCEPT !.pc = pc, !.info = info]
<1>1. editor[e] \in Edits /\ info \in Infos
  BY TypedParts DEF Infos
<1>2. editor' = [editor EXCEPT ![e] = l]
  BY DEF Writes
<1> HIDE DEF info
<1>3. l \in Edits /\ l.pc = pc /\ l.job = Job(e) /\ l.info = info
  BY <1>1 DEF Edits, Job
<1> HIDE DEF l
<1>4. Becomes(e, pc, Job(e), info)
  BY <1>2, <1>3, BecomesBy
<1> QED BY <1>4 DEF Writes, info

LEMMA EditorSteps ==
  ASSUME TypeOK, Registrations, NEW e \in Editors, Editor(e)
  PROVE  /\ EditorReads(e) \/ EditorWrites(e) \/ EditorStarts(e) \/ EditorPays(e)
         /\ UNCHANGED <<minted, fresh, allTransfers, lockQueue, refresher, updater, aligned>>
<1>0. UNCHANGED <<minted, fresh, allTransfers, lockQueue, refresher, updater, aligned>>
  BY DEF Editor
<1>1. \A u \in Users : Registered(u) => moneyDB[u] \in FinancialInfos
  BY TypedParts DEF Registered, Infos
<1>2. Holds(e) => editor[e].info \in FinancialInfos
  BY TypedParts DEF Registrations, Infos
<1>3. Busy(e) => Job(e) \in Jobs /\ Registered(Job(e).user)
  BY DEF Registrations
<1>4. spent \in [Users -> Nat] /\ charged \in [Users -> Nat] /\ editor[e] \in Edits
  BY TypedParts DEF TypeOK
<1>5. ASSUME NEW j \in Jobs, AttachRead(e, j) PROVE EditorReads(e)
  <2> DEFINE new == [moneyDB[j.user] EXCEPT !.xmr_addr = j.addr]
  <2>1. editor[e].pc = "start" /\ j.kind = "attach" /\ Registered(j.user) /\ UNCHANGED funds
        /\ Reads(e, j, new)
    BY <1>5 DEF AttachRead, Starts, Registered
  <2>2. Taken(e, j, new) /\ new \in FinancialInfos
    BY <1>1, <2>1, JobFields, AttachedInfo DEF Taken
  <2> HIDE DEF new
  <2> QED BY <2>1, <2>2, ReadsBecome DEF EditorReads
<1>6. ASSUME NEW j \in Jobs, SpendRead(e, j) PROVE EditorReads(e)
  <2> DEFINE new == Spend(moneyDB[j.user], j.amt)
  <2>1. editor[e].pc = "start" /\ j.kind = "spend" /\ Registered(j.user) /\ UNCHANGED funds
        /\ Reads(e, j, new) /\ CanSpend(moneyDB[j.user], j.amt)
    BY <1>6 DEF SpendRead, Starts, Registered
  <2>2. Taken(e, j, new) /\ new \in FinancialInfos
    BY <1>1, <2>1, JobFields, SpentInfo DEF Taken
  <2> HIDE DEF new
  <2> QED BY <2>1, <2>2, ReadsBecome DEF EditorReads
<1>7. CASE CreditRead(e)
  <2> DEFINE j == Job(e)
             new == [moneyDB[j.user] EXCEPT !.service_fee_total = (@ + FeeOf(j)) % Modulus]
  <2>1. editor[e].pc = "paid" /\ j.kind = "credit" /\ UNCHANGED funds /\ Reads(e, j, new)
    BY <1>7 DEF CreditRead, At
  <2>2. j \in Jobs /\ Registered(j.user)
    BY <1>3, <2>1 DEF Busy
  <2>3. Taken(e, j, new) /\ new \in FinancialInfos
    BY <1>1, <2>1, <2>2, JobFields, FeedInfo DEF Taken
  <2> HIDE DEF new, j
  <2>4. Becomes(e, "write", j, new) /\ Copies(e, j.user)
        /\ UNCHANGED <<moneyDB, overlapped, spent, charged>>
    BY <2>1, <2>2, <2>3, ReadsBecome
  <2> QED BY <1>0, <2>1, <2>2, <2>3, <2>4 DEF EditorReads
<1>8. ASSUME NEW pc \in {"done", "flush"}, Writes(e, pc, editor[e].info),
             editor[e].pc \in {"write", "flush"}, pc = "flush" => editor[e].pc = "write",
             UNCHANGED funds,
             spent' = [spent EXCEPT ![Job(e).user] = spent[Job(e).user] + Buying(e)],
             charged' = [charged EXCEPT ![Job(e).user] = charged[Job(e).user] + Fee(e)]
      PROVE  EditorWrites(e)
  BY <1>2, <1>8, WritesBecome DEF EditorWrites, Holds
<1>9. ASSUME AttachWrite(e) \/ SpendWrite(e) \/ CreditInsert(e) \/ CreditInsertAgain(e)
      PROVE  EditorWrites(e)
  <2>1. editor[e].pc \in {"write", "flush"}
    BY <1>9 DEF AttachWrite, SpendWrite, CreditInsert, CreditInsertAgain, At
  <2>2. Job(e) \in Jobs /\ Job(e).user \in Users
    BY <1>3, <2>1, JobFields DEF Busy
  <2>3. CASE AttachWrite(e)
    <3>1. Buying(e) = 0 /\ Fee(e) = 0
      BY <2>3 DEF AttachWrite, At, Buying, Fee
    <3> QED BY <1>4, <1>8, <2>1, <2>2, <2>3, <3>1 DEF AttachWrite
  <2>4. CASE SpendWrite(e)
    <3>1. Buying(e) = Job(e).amt /\ Fee(e) = 0
      BY <2>4 DEF SpendWrite, At, Buying, Fee
    <3> QED BY <1>4, <1>8, <2>1, <2>2, <2>4, <3>1 DEF SpendWrite
  <2>5. CASE CreditInsert(e)
    <3>1. Buying(e) = 0 /\ Fee(e) = FeeOf(Job(e)) /\ editor[e].pc = "write"
      BY <2>5 DEF CreditInsert, At, Buying, Fee
    <3> QED BY <1>4, <1>8, <2>1, <2>2, <2>5, <3>1 DEF CreditInsert
  <2>6. CASE CreditInsertAgain(e)
    <3>1. Buying(e) = 0 /\ Fee(e) = 0
      BY <2>6 DEF CreditInsertAgain, At, Buying, Fee
    <3> QED BY <1>4, <1>8, <2>1, <2>2, <2>6, <3>1 DEF CreditInsertAgain
  <2> QED BY <1>9, <2>3, <2>4, <2>5, <2>6
<1>10. ASSUME NEW j \in Jobs, SpendDenied(e, j) PROVE EditorStarts(e)
  <2> DEFINE l == [editor[e] EXCEPT !.pc = "done"]
  <2>1. l \in Edits /\ l.pc = "done" /\ l.job = Job(e) /\ l.info = editor[e].info
    BY <1>4 DEF Edits, Job
  <2>2. editor' = [editor EXCEPT ![e] = l] /\ editor[e].pc = "start"
        /\ UNCHANGED <<moneyDB, funds, current, overlapped, spent, charged>>
    BY <1>10 DEF SpendDenied, Starts
  <2> HIDE DEF l
  <2> QED BY <2>1, <2>2, BecomesBy DEF EditorStarts
<1>11. ASSUME NEW j \in Jobs, CreditTake(e, j) PROVE EditorStarts(e)
  <2> DEFINE l == [pc |-> "pending", job |-> j, info |-> moneyDB[j.user]]
  <2>1. l \in Edits /\ l.pc = "pending" /\ l.job = j /\ l.info = moneyDB[j.user]
    BY JobFields DEF Edits, TypeOK
  <2>2. editor' = [editor EXCEPT ![e] = l] /\ editor[e].pc = "start" /\ Registered(j.user)
        /\ UNCHANGED <<moneyDB, funds, current, overlapped, spent, charged>>
    BY <1>11 DEF CreditTake, Starts, Registered
  <2> HIDE DEF l
  <2>3. Becomes(e, "pending", j, moneyDB[j.user])
    BY <2>1, <2>2, BecomesBy
  <2> QED BY <2>2, <2>3 DEF EditorStarts
<1>12. CASE CreditPay(e)
  <2> DEFINE i == editor[e].info.addr_index
             out == Job(e).amt + Job(e).fee
             l == [editor[e] EXCEPT !.pc = "paid", !.info = NoInfo]
  <2>1. l \in Edits /\ l.pc = "paid" /\ l.job = Job(e) /\ l.info = NoInfo
    BY <1>4 DEF Edits, Job, Infos
  <2>2. /\ editor' = [editor EXCEPT ![e] = l]
        /\ At(e, "credit", "pending") /\ funds[i].unlocked >= out
        /\ UNCHANGED <<moneyDB, current, overlapped, spent, charged>>
    BY <1>12 DEF CreditPay
  <2>3. funds' = [funds EXCEPT ![i] = Paid(funds[i], out, FeeOf(Job(e)))]
    BY <1>12 DEF CreditPay, Paid
  <2> HIDE DEF l
  <2>4. Becomes(e, "paid", Job(e), NoInfo)
    BY <2>1, <2>2, BecomesBy
  <2> QED BY <1>0, <2>2, <2>3, <2>4 DEF EditorPays
<1> QED BY <1>0, <1>5, <1>6, <1>7, <1>9, <1>10, <1>11, <1>12 DEF Editor

-----------------------------------------------------------------------------
(* The steps of update_acc_balances, in the same way.                      *)

NoBatch == [u \in Users |-> NoInfo]
UpdaterBecomes(pc, balances, fulls, key, info, batch) ==
  /\ updater' \in Updaters
  /\ updater'.pc = pc /\ updater'.balances = balances /\ updater'.fulls = fulls
  /\ updater'.key = key /\ updater'.info = info /\ updater'.batch = batch
SameRecords == UNCHANGED <<moneyDB, current, overlapped>>

(* The answers of the wallet that it still has after the step.             *)
Keeps(pc, key, info, batch) ==
  UpdaterBecomes(pc, updater.balances, updater.fulls, key, info, batch)

UpdaterBegins ==
  /\ updater.pc = "sleep" /\ SameRecords
  /\ UpdaterBecomes("balance", Unanswered, Unanswered, 1, NoInfo, NoBatch)
UpdaterAsks ==
  /\ updater.pc = "balance" /\ SameRecords
  /\ \E b \in {Unanswered, Balances(updater.indices, TRUE)} :
       UpdaterBecomes("full", b, updater.fulls, updater.key, updater.info, updater.batch)
UpdaterAsksFull ==
  /\ updater.pc = "full" /\ SameRecords
  /\ \E b \in {Unanswered, Balances(updater.indices, FALSE)} :
       UpdaterBecomes("records", updater.balances, b, updater.key, updater.info, updater.batch)
UpdaterSkips ==
  /\ updater.pc = "records" /\ updater.key <= Len(KeyOrder) /\ SameRecords
  /\ ~ Registered(KeyOrder[updater.key])
  /\ Keeps("records", updater.key + 1, updater.info, updater.batch)
UpdaterCopies ==
  LET u == KeyOrder[updater.key]
  IN  /\ updater.pc = "records" /\ updater.key <= Len(KeyOrder) /\ Registered(u)
      /\ Keeps("lock", updater.key, moneyDB[u], updater.batch)
      /\ Copies("updater", u)
      /\ UNCHANGED <<moneyDB, overlapped>>
UpdaterComputes ==
  /\ updater.pc = "lock" /\ SameRecords
  /\ updater.key <= Len(KeyOrder) /\ updater.info \in FinancialInfos
  /\ Keeps("records", updater.key + 1, NoInfo,
           [updater.batch EXCEPT ![KeyOrder[updater.key]] = Refreshed(updater.info)])
Written == {u \in Users : updater.batch[u] # NoInfo}
UpdaterWrites ==
  /\ updater.pc = "records" /\ updater.key > Len(KeyOrder)
  /\ moneyDB' = [u \in Users |-> IF u \in Written THEN updater.batch[u] ELSE moneyDB[u]]
  /\ overlapped' = [u \in Users |->
       overlapped[u] \/ (u \in Written /\ "updater" \notin current[u])]
  /\ current' = [u \in Users |-> IF u \in Written THEN {} ELSE current[u]]
  /\ UpdaterBecomes("sleep", Unanswered, Unanswered, 1, NoInfo, NoBatch)

LEMMA AsleepFields ==
  /\ Asleep \in Updaters /\ Asleep.pc = "sleep"
  /\ Asleep.balances = Unanswered /\ Asleep.fulls = Unanswered
  /\ Asleep.key = 1 /\ Asleep.info = NoInfo /\ Asleep.batch = NoBatch
BY AsleepTyped DEF Asleep, NoBatch

LEMMA UpdaterSteps ==
  ASSUME TypeOK, Round, Updater
  PROVE  /\ \/ UpdaterBegins \/ UpdaterAsks \/ UpdaterAsksFull \/ UpdaterSkips
            \/ UpdaterCopies \/ UpdaterComputes \/ UpdaterWrites
         /\ UNCHANGED <<fresh, minted, funds, allTransfers, refresher, editor, aligned,
                        spent, charged>>
<1>1. /\ updater \in Updaters /\ updater.key \in Nat /\ Len(KeyOrder) \in Nat
      /\ updater.key \in 1..(Len(KeyOrder) + 1)
  BY TypedParts, KeyOrderFacts
<1>2. CASE UpdaterBegin
  <2> DEFINE l == [Asleep EXCEPT !.pc = "balance", !.indices = IndicesIn(moneyDB)]
  <2>1. l \in Updaters
    BY AsleepTyped, IndicesTyped DEF TypeOK
  <2>2. /\ l.pc = "balance" /\ l.balances = Unanswered /\ l.fulls = Unanswered
        /\ l.key = 1 /\ l.info = NoInfo /\ l.batch = NoBatch
    BY AsleepFields DEF Updaters
  <2>3. updater' = l /\ updater.pc = "sleep" /\ SameRecords
        /\ UNCHANGED <<fresh, minted, funds, allTransfers, refresher, editor, aligned,
                       spent, charged>>
    BY <1>2 DEF UpdaterBegin, SameRecords, environment, history
  <2> HIDE DEF l
  <2>4. UpdaterBegins
    BY <2>1, <2>2, <2>3 DEF UpdaterBegins, UpdaterBecomes
  <2> QED BY <2>3, <2>4
<1>3. CASE UpdaterBalance
  <2>1. PICK b \in {Unanswered, Balances(updater.indices, TRUE)} :
          updater' = [updater EXCEPT !.pc = "full", !.balances = b]
    BY <1>3 DEF UpdaterBalance
  <2>2. b \in Answers
    BY AsleepTyped, BalancesTyped, TypedParts
  <2>3. UpdaterBecomes("full", b, updater.fulls, updater.key, updater.info, updater.batch)
    BY <1>1, <2>1, <2>2 DEF UpdaterBecomes, Updaters
  <2>4. updater.pc = "balance" /\ SameRecords
        /\ UNCHANGED <<fresh, minted, funds, allTransfers, refresher, editor, aligned,
                       spent, charged>>
    BY <1>3 DEF UpdaterBalance, SameRecords, environment, history
  <2>5. UpdaterAsks
    BY <2>3, <2>4 DEF UpdaterAsks
  <2> QED BY <2>4, <2>5
<1>4. CASE UpdaterFull
  <2>1. PICK b \in {Unanswered, Balances(updater.indices, FALSE)} :
          updater' = [updater EXCEPT !.pc = "records", !.fulls = b]
    BY <1>4 DEF UpdaterFull
  <2>2. b \in Answers
    BY AsleepTyped, BalancesTyped, TypedParts
  <2>3. UpdaterBecomes("records", updater.balances, b, updater.key, updater.info, updater.batch)
    BY <1>1, <2>1, <2>2 DEF UpdaterBecomes, Updaters
  <2>4. updater.pc = "full" /\ SameRecords
        /\ UNCHANGED <<fresh, minted, funds, allTransfers, refresher, editor, aligned,
                       spent, charged>>
    BY <1>4 DEF UpdaterFull, SameRecords, environment, history
  <2>5. UpdaterAsksFull
    BY <2>3, <2>4 DEF UpdaterAsksFull
  <2> QED BY <2>4, <2>5
<1>5. CASE UpdaterRead
  <2> DEFINE u == KeyOrder[updater.key]
  <2>1. updater.pc = "records" /\ updater.key <= Len(KeyOrder)
        /\ UNCHANGED <<fresh, minted, funds, allTransfers, refresher, editor, aligned,
                       spent, charged, moneyDB, overlapped>>
    BY <1>5 DEF UpdaterRead, environment
  <2>2. u \in Users /\ moneyDB[u] \in Infos /\ updater.key + 1 \in 1..(Len(KeyOrder) + 1)
    BY <1>1, <2>1, KeyOrderFacts, TypedParts
  <2>3. CASE moneyDB[u] = NoInfo
    <3>1. updater' = [updater EXCEPT !.key = updater.key + 1] /\ UNCHANGED current
      BY <1>5, <2>3 DEF UpdaterRead
    <3>2. Keeps("records", updater.key + 1, updater.info, updater.batch)
      BY <1>1, <2>1, <2>2, <3>1 DEF Keeps, UpdaterBecomes, Updaters
    <3>3. UpdaterSkips
      BY <2>1, <2>3, <3>1, <3>2 DEF UpdaterSkips, SameRecords, Registered
    <3> QED BY <2>1, <3>3
  <2>4. CASE moneyDB[u] # NoInfo
    <3>1. updater' = [updater EXCEPT !.pc = "lock", !.info = moneyDB[u]]
          /\ Copies("updater", u)
      BY <1>5, <2>4 DEF UpdaterRead
    <3>2. Keeps("lock", updater.key, moneyDB[u], updater.batch)
      BY <1>1, <2>2, <3>1 DEF Keeps, UpdaterBecomes, Updaters
    <3>3. UpdaterCopies
      BY <2>1, <2>4, <3>1, <3>2 DEF UpdaterCopies, Registered
    <3> QED BY <2>1, <3>3
  <2> QED BY <2>3, <2>4
<1>6. CASE UpdaterCompute
  <2> DEFINE u == KeyOrder[updater.key]
             info == Refreshed(updater.info)
             batch == [updater.batch EXCEPT ![u] = info]
             l == [updater EXCEPT !.pc = "records", !.key = updater.key + 1,
                                  !.info = NoInfo, !.batch = batch]
  <2>1. updater.pc = "lock" /\ SameRecords
        /\ UNCHANGED <<fresh, minted, funds, allTransfers, refresher, editor, aligned,
                       spent, charged>>
    BY <1>6 DEF UpdaterCompute, SameRecords, environment, history
  <2>2. updater.key <= Len(KeyOrder) /\ updater.info \in FinancialInfos
    BY <2>1, TypedParts DEF Round, Infos
  <2>3. updater.key + 1 \in 1..(Len(KeyOrder) + 1) /\ info \in Infos /\ NoInfo \in Infos
    BY <1>1, <2>2, RefreshedInfo DEF Infos
  <2>4. batch \in [Users -> Infos]
    BY <2>3, TypedParts
  <2>5. updater' = l
    BY <1>6 DEF UpdaterCompute
  <2> HIDE DEF batch
  <2>6. /\ l \in Updaters /\ l.pc = "records" /\ l.balances = updater.balances
        /\ l.fulls = updater.fulls /\ l.key = updater.key + 1 /\ l.info = NoInfo
        /\ l.batch = batch
    BY <1>1, <2>3, <2>4 DEF Updaters
  <2> HIDE DEF l
  <2>7. Keeps("records", updater.key + 1, NoInfo, batch)
    BY <2>5, <2>6 DEF Keeps, UpdaterBecomes
  <2>8. UpdaterComputes
    BY <2>1, <2>2, <2>7 DEF UpdaterComputes, batch
  <2> QED BY <2>1, <2>8
<1>7. CASE UpdaterApply
  <2>1. updater.pc = "records" /\ updater.key > Len(KeyOrder) /\ updater' = Asleep
        /\ UNCHANGED <<fresh, minted, funds, allTransfers, refresher, editor, aligned,
                       spent, charged>>
    BY <1>7 DEF UpdaterApply, environment
  <2>2. /\ moneyDB' = [u \in Users |-> IF u \in Written THEN updater.batch[u] ELSE moneyDB[u]]
        /\ overlapped' = [u \in Users |->
             overlapped[u] \/ (u \in Written /\ "updater" \notin current[u])]
        /\ current' = [u \in Users |-> IF u \in Written THEN {} ELSE current[u]]
    BY <1>7 DEF UpdaterApply, Written
  <2>3. UpdaterBecomes("sleep", Unanswered, Unanswered, 1, NoInfo, NoBatch)
    BY <2>1, AsleepFields DEF UpdaterBecomes
  <2>4. UpdaterWrites
    BY <2>1, <2>2, <2>3 DEF UpdaterWrites
  <2> QED BY <2>1, <2>4
<1> QED BY <1>2, <1>3, <1>4, <1>5, <1>6, <1>7 DEF Updater

-----------------------------------------------------------------------------
(* The lock.                                                               *)

LEMMA QueueFacts ==
  ASSUME NEW q \in Seq({"reader", "writer"}), NEW x \in {"reader", "writer"}
  PROVE  /\ Append(q, x) \in Seq({"reader", "writer"}) /\ Append(q, x) # <<>>
         /\ q # <<>> => Tail(q) \in Seq({"reader", "writer"}) /\ Head(Append(q, x)) = Head(q)
<1>1. /\ Append(q, x) \in Seq({"reader", "writer"}) /\ Len(q) \in Nat
      /\ Len(Append(q, x)) = Len(q) + 1 /\ \A k \in 1..Len(q) : Append(q, x)[k] = q[k]
  BY AppendProperties, LenProperties
<1>2. Append(q, x) # <<>>
  BY <1>1, EmptySeq
<1>3. ASSUME q # <<>> PROVE Tail(q) \in Seq({"reader", "writer"}) /\ Head(Append(q, x)) = Head(q)
  <2>1. Len(q) \in Nat \ {0} /\ 1 \in 1..Len(q)
    BY <1>1, <1>3, EmptySeq
  <2>2. Append(q, x)[1] = q[1]
    BY <1>1, <2>1
  <2>3. Head(Append(q, x)) = Append(q, x)[1] /\ Head(q) = q[1]
    BY <1>1, <1>2, <1>3, HeadTailProperties
  <2> QED BY <1>3, <2>2, <2>3, HeadTailProperties
<1> QED BY <1>1, <1>2, <1>3

LEMMA RefresherSteps ==
  ASSUME TypeOK, Locking, Refresher \/ RefresherFail
  PROVE  /\ refresher' \in Refreshers /\ lockQueue' \in Seq({"reader", "writer"}) /\ Locking'
         /\ refresher'.indices \in {refresher.indices, <<>>, IndicesIn(moneyDB)}
         /\ allTransfers' \in {allTransfers, GetTransfers(refresher.indices)}
         /\ UNCHANGED <<moneyDB, fresh, minted, funds, updater, editor, current, overlapped,
                        aligned, spent, charged>>
<1> USE DEF environment, history
<1>1. /\ refresher \in Refreshers /\ lockQueue \in Seq({"reader", "writer"})
      /\ IndicesIn(moneyDB) \in Seq(Indices) /\ <<>> \in Seq(Indices)
  BY IndicesTyped, EmptySeq DEF TypeOK
<1>2. CASE RefresherAsk
  <2>1. refresher.pc = "sleep" /\ lockQueue' = Append(lockQueue, "writer")
        /\ refresher' = [pc |-> "lock", indices |-> IndicesIn(moneyDB)]
    BY <1>2 DEF RefresherAsk
  <2>2. refresher' \in Refreshers /\ refresher'.pc = "lock"
        /\ refresher'.indices = IndicesIn(moneyDB)
    BY <1>1, <2>1 DEF Refreshers
  <2>3. lockQueue' \in Seq({"reader", "writer"})
    BY <1>1, <2>1, QueueFacts
  <2> QED BY <1>2, <2>2, <2>3 DEF RefresherAsk, Locking
<1>3. CASE RefresherLock
  <2>1. refresher' \in Refreshers /\ refresher'.indices = refresher.indices
    BY <1>1, <1>3 DEF RefresherLock, Refreshers
  <2> QED BY <1>1, <1>3, <2>1 DEF RefresherLock, Locking
<1>4. CASE RefresherFail
  <2>1. refresher' \in Refreshers /\ refresher'.indices = refresher.indices
    BY <1>1, <1>4 DEF RefresherFail, Refreshers
  <2> QED BY <1>1, <1>4, <2>1 DEF RefresherFail, Locking
<1>5. CASE RefresherStore \/ RefresherRetry
  <2>0. refresher' = [pc |-> "sleep", indices |-> <<>>]
    BY <1>5 DEF RefresherStore, RefresherRetry
  <2>1. refresher' \in Refreshers /\ refresher'.indices = <<>> /\ refresher'.pc = "sleep"
    BY <1>1, <2>0 DEF Refreshers
  <2>2. lockQueue # <<>> /\ lockQueue' = Tail(lockQueue)
    BY <1>5 DEF RefresherStore, RefresherRetry, Locking
  <2>3. lockQueue' \in Seq({"reader", "writer"})
    BY <1>1, <2>2, QueueFacts
  <2> QED BY <1>5, <2>1, <2>3 DEF RefresherStore, RefresherRetry, Locking
<1> QED BY <1>2, <1>3, <1>4, <1>5 DEF Refresher

LEMMA UpdaterLocks ==
  ASSUME TypeOK, Locking, Updater
  PROVE  lockQueue' \in Seq({"reader", "writer"}) /\ Locking'
<1> USE DEF environment, history
<1>1. lockQueue \in Seq({"reader", "writer"})
  BY DEF TypeOK
<1>2. CASE UNCHANGED <<lockQueue, refresher>>
  BY <1>1, <1>2 DEF Locking
<1>3. CASE lockQueue' = Append(lockQueue, "reader") /\ UNCHANGED refresher
  <2>1. /\ lockQueue' \in Seq({"reader", "writer"}) /\ lockQueue' # <<>>
        /\ lockQueue # <<>> => Head(lockQueue') = Head(lockQueue)
    BY <1>1, <1>3, QueueFacts
  <2> QED BY <1>3, <2>1 DEF Locking
<1>4. CASE UpdaterCompute
  <2>1. /\ lockQueue # <<>> /\ Head(lockQueue) = "reader" /\ lockQueue' = Tail(lockQueue)
        /\ UNCHANGED refresher
    BY <1>4 DEF UpdaterCompute
  <2>2. lockQueue' \in Seq({"reader", "writer"})
    BY <1>1, <2>1, QueueFacts
  <2> QED BY <2>1, <2>2 DEF Locking
<1> QED BY <1>2, <1>3, <1>4
        DEF Updater, UpdaterBegin, UpdaterBalance, UpdaterFull, UpdaterRead, UpdaterApply

(* What the wallet does by itself: nothing is lost, nothing is paid.       *)
Received ==
  /\ funds' \in [Indices -> Funds]
  /\ \A i \in Indices :
       /\ funds'[i].paid = funds[i].paid /\ funds'[i].out_fees = funds[i].out_fees
       /\ funds'[i].unlocked >= funds[i].unlocked /\ funds'[i].received >= funds[i].received
       /\ \E x \in Nat :
            /\ funds'[i].received = funds[i].received + x
            /\ funds'[i].unlocked + funds'[i].locked = funds[i].unlocked + funds[i].locked + x

LEMMA WalletSteps ==
  ASSUME TypeOK, NEW i \in Indices, Unlock(i) \/ \E x \in Deposits : Deposit(i, x)
  PROVE  /\ Received
         /\ UNCHANGED <<moneyDB, minted, fresh, allTransfers, lockQueue, refresher, updater,
                        editor, current, overlapped, aligned, spent, charged>>
<1> USE DEF history
<1>1. funds \in [Indices -> Funds]
  BY DEF TypeOK
<1>2. \A k \in Indices :
        /\ funds[k].unlocked \in Nat /\ funds[k].locked \in Nat /\ funds[k].received \in Nat
        /\ funds[k].paid \in Nat /\ funds[k].out_fees \in Nat /\ funds[k].deposits \in Nat
  BY <1>1 DEF Funds
<1>3. CASE Unlock(i)
  <2> DEFINE a == funds[i].unlocked + funds[i].locked
             l == [funds[i] EXCEPT !.locked = 0, !.unlocked = a]
  <2>1. funds' = [funds EXCEPT ![i] = l] /\ a \in Nat
    <3>1. funds' = [funds EXCEPT ![i] = l]
      BY <1>3 DEF Unlock
    <3> QED BY <1>2, <3>1
  <2> HIDE DEF a
  <2>2. /\ l \in Funds /\ l.paid = funds[i].paid /\ l.out_fees = funds[i].out_fees
        /\ l.locked = 0 /\ l.unlocked = a /\ l.received = funds[i].received
    BY <1>1, <2>1 DEF Funds
  <2> HIDE DEF l
  <2>3. Received
    BY <1>1, <1>2, <2>1, <2>2 DEF Received, a
  <2> QED BY <1>3, <2>3 DEF Unlock
<1>4. ASSUME NEW x \in Deposits, Deposit(i, x)
      PROVE  Received /\ UNCHANGED <<moneyDB, minted, fresh, allTransfers, lockQueue, refresher,
                        updater, editor, current, overlapped, aligned, spent, charged>>
  <2> DEFINE a == funds[i].locked + x
             b == funds[i].received + x
             d == funds[i].deposits + 1
             l == [funds[i] EXCEPT !.locked = a, !.received = b, !.deposits = d]
  <2>0. x \in Nat
    BY AccountsAssumption
  <2>1. funds' = [funds EXCEPT ![i] = l] /\ a \in Nat /\ b \in Nat /\ d \in Nat
    <3>1. funds' = [funds EXCEPT ![i] = l]
      BY <1>4 DEF Deposit
    <3> QED BY <1>2, <2>0, <3>1
  <2> HIDE DEF a, b, d
  <2>2. /\ l \in Funds /\ l.paid = funds[i].paid /\ l.out_fees = funds[i].out_fees
        /\ l.locked = a /\ l.unlocked = funds[i].unlocked /\ l.received = b
    BY <1>1, <2>1 DEF Funds
  <2> HIDE DEF l
  <2>3. ASSUME NEW k \in Indices
        PROVE  /\ funds'[k] \in Funds
               /\ funds'[k].paid = funds[k].paid /\ funds'[k].out_fees = funds[k].out_fees
               /\ funds'[k].unlocked >= funds[k].unlocked /\ funds'[k].received >= funds[k].received
               /\ \E y \in Nat :
                    /\ funds'[k].received = funds[k].received + y
                    /\ funds'[k].unlocked + funds'[k].locked = funds[k].unlocked + funds[k].locked + y
    <3>1. CASE k = i
      <4>1. funds'[k] = l
        BY <1>1, <2>1, <3>1
      <4>2. l.unlocked + l.locked = funds[k].unlocked + funds[k].locked + x
        BY <1>2, <2>0, <2>2, <3>1 DEF a
      <4>3. l.received = funds[k].received + x
        BY <2>2, <3>1 DEF b
      <4> QED BY <1>2, <2>0, <2>2, <3>1, <4>1, <4>2, <4>3
    <3>2. CASE k # i
      <4>1. funds'[k] = funds[k]
        BY <1>1, <2>1, <3>2
      <4>2. funds[k].received = funds[k].received + 0
            /\ funds[k].unlocked + funds[k].locked = funds[k].unlocked + funds[k].locked + 0
        BY <1>2
      <4> QED BY <1>1, <1>2, <4>1, <4>2
    <3> QED BY <3>1, <3>2
  <2>4. Received
    BY <1>1, <2>1, <2>3 DEF Received
  <2> QED BY <1>4, <2>4 DEF Deposit
<1> QED BY <1>3, <1>4

-----------------------------------------------------------------------------
(* Every step is one of these.                                             *)

Mints ==
  /\ minted' \in 0..MaxMinted /\ fresh' \in [Users -> 0..MaxMinted]
  /\ \A u \in Users : fresh'[u] # fresh[u] => ~ Registered(u)
  /\ UNCHANGED <<moneyDB, funds, allTransfers, lockQueue, refresher, updater, editor,
                 current, overlapped, aligned, spent, charged>>
Registers ==
  \E u \in Users :
    /\ fresh[u] \in Indices /\ ~ Registered(u)
    /\ moneyDB' = [moneyDB EXCEPT ![u] = NewFinancialInfo(fresh[u], fresh[u])]
    /\ fresh' = [fresh EXCEPT ![u] = 0]
    /\ aligned' \in BOOLEAN /\ (aligned' => aligned /\ IsAligned(moneyDB'))
    /\ UNCHANGED <<minted, funds, allTransfers, lockQueue, refresher, updater, editor,
                   current, overlapped, spent, charged>>
Receives ==
  /\ Received
  /\ UNCHANGED <<moneyDB, minted, fresh, allTransfers, lockQueue, refresher, updater,
                 editor, current, overlapped, aligned, spent, charged>>
Refreshes ==
  /\ refresher' \in Refreshers /\ lockQueue' \in Seq({"reader", "writer"}) /\ Locking'
  /\ refresher'.indices \in {refresher.indices, <<>>, IndicesIn(moneyDB)}
  /\ allTransfers' \in {allTransfers, GetTransfers(refresher.indices)}
  /\ UNCHANGED <<moneyDB, minted, fresh, funds, updater, editor, current, overlapped,
                 aligned, spent, charged>>
Updates ==
  /\ \/ UpdaterBegins \/ UpdaterAsks \/ UpdaterAsksFull \/ UpdaterSkips
     \/ UpdaterCopies \/ UpdaterComputes \/ UpdaterWrites
  /\ lockQueue' \in Seq({"reader", "writer"}) /\ Locking'
  /\ UNCHANGED <<fresh, minted, funds, allTransfers, refresher, editor, aligned,
                 spent, charged>>
Edit(e) ==
  /\ EditorReads(e) \/ EditorWrites(e) \/ EditorStarts(e) \/ EditorPays(e)
  /\ UNCHANGED <<minted, fresh, allTransfers, lockQueue, refresher, updater, aligned>>

LEMMA Steps ==
  ASSUME TypeOK, Registrations, Round, Locking, Next
  PROVE  \/ Mints \/ Registers \/ Receives \/ Refreshes \/ Updates \/ \E e \in Editors : Edit(e)
<1> USE DEF environment, history
<1>1. /\ minted \in 0..MaxMinted /\ fresh \in [Users -> 0..MaxMinted] /\ MaxMinted \in Nat
      /\ 1..MaxMinted \subseteq Indices
  BY AccountsAssumption DEF TypeOK
<1>2. ASSUME NEW u \in Users, CreateAddress(u) PROVE Mints
  <2>1. minted + 1 \in 0..MaxMinted /\ minted' = minted + 1
        /\ fresh' = [fresh EXCEPT ![u] = minted + 1] /\ ~ Registered(u)
    BY <1>1, <1>2 DEF CreateAddress, Registered
  <2> QED BY <1>1, <1>2, <2>1 DEF CreateAddress, Mints
<1>3. CASE CreateAddressLost
  <2>1. minted + 1 \in 0..MaxMinted /\ minted' = minted + 1 /\ fresh' = fresh
    BY <1>1, <1>3 DEF CreateAddressLost
  <2> QED BY <1>1, <1>3, <2>1 DEF CreateAddressLost, Mints
<1>4. ASSUME NEW u \in Users, Register(u) PROVE Registers
  <2>1. fresh[u] \in Indices /\ ~ Registered(u)
    BY <1>1, <1>4 DEF Register, Registrations
  <2>2. aligned' \in BOOLEAN /\ (aligned' => aligned /\ IsAligned(moneyDB'))
    BY <1>4, Zenon DEF Register
  <2> QED BY <1>4, <2>1, <2>2 DEF Register, Registers
<1>5. ASSUME NEW i \in Indices, Unlock(i) \/ \E x \in Deposits : Deposit(i, x) PROVE Receives
  BY <1>5, WalletSteps DEF Receives
<1>6. CASE Refresher \/ RefresherFail
  <2>1. UNCHANGED minted
    BY <1>6 DEF Refresher, RefresherFail, RefresherAsk, RefresherLock, RefresherStore,
                RefresherRetry
  <2> QED BY <1>6, <2>1, RefresherSteps DEF Refreshes
<1>7. CASE Updater
  BY <1>7, UpdaterSteps, UpdaterLocks DEF Updates
<1>8. ASSUME NEW e \in Editors, Editor(e) PROVE Edit(e)
  BY <1>8, EditorSteps DEF Edit
<1> QED BY <1>2, <1>3, <1>4, <1>5, <1>6, <1>7, <1>8 DEF Next

LEMMA TypeStep ==
  ASSUME TypeOK, Registrations, Round, Locking, [Next]_vars
  PROVE  TypeOK'
<1>1. /\ moneyDB \in [Users -> Infos] /\ funds \in [Indices -> Funds]
      /\ current \in [Users -> SUBSET (Editors \cup {"updater"})]
      /\ overlapped \in [Users -> BOOLEAN] /\ aligned \in BOOLEAN
      /\ spent \in [Users -> Nat] /\ charged \in [Users -> Nat]
      /\ allTransfers \in Seq(Transfers)
  BY DEF TypeOK
<1>2. CASE UNCHANGED vars
  BY <1>2 DEF TypeOK, vars, environment, history
<1>3. CASE Mints
  BY <1>3 DEF Mints, TypeOK
<1>4. CASE Registers
  <2>1. PICK u \in Users :
          /\ fresh[u] \in Indices
          /\ moneyDB' = [moneyDB EXCEPT ![u] = NewFinancialInfo(fresh[u], fresh[u])]
          /\ fresh' = [fresh EXCEPT ![u] = 0] /\ aligned' \in BOOLEAN
          /\ UNCHANGED <<minted, funds, allTransfers, lockQueue, refresher, updater, editor,
                         current, overlapped, spent, charged>>
    BY <1>4 DEF Registers
  <2>2. NewFinancialInfo(fresh[u], fresh[u]) \in Infos
    BY <2>1, NewInfo DEF Infos
  <2>3. moneyDB' \in [Users -> Infos]
    BY <1>1, <2>1, <2>2
  <2>4. fresh' \in [Users -> 0..MaxMinted]
    BY <2>1, AccountsAssumption DEF TypeOK
  <2> QED BY <2>1, <2>3, <2>4 DEF TypeOK
<1>5. CASE Receives
  BY <1>5 DEF Receives, Received, TypeOK
<1>6. CASE Refreshes
  <2>1. refresher.indices \in Seq(Indices)
    BY TypedParts
  <2>2. GetTransfers(refresher.indices) \in Seq(Transfers)
    <3> DEFINE is == refresher.indices
    <3>1. Len(is) \in Nat /\ DOMAIN is = 1..Len(is) /\ \A k \in 1..Len(is) : is[k] \in Indices
      BY <2>1, LenProperties, ElementOfSeq
    <3>2. \A k \in ToSet(is) : funds[k].out_fees \in Nat
      BY <1>1, <3>1 DEF ToSet, Funds
    <3>3. \A k \in 1..Len(is) :
            (IF k \in ToSet(is) THEN funds[k].out_fees ELSE 0) \in Nat
      BY <3>2
    <3> HIDE DEF is
    <3>4. \A k \in 1..Len(is) :
            [ addr_index |-> is[k],
              out_fees |-> IF k \in ToSet(is) THEN funds[k].out_fees ELSE 0 ] \in Transfers
      BY <3>1, <3>3 DEF Transfers
    <3> DEFINE s == [k \in 1..Len(is) |->
            [ addr_index |-> is[k],
              out_fees |-> IF k \in ToSet(is) THEN funds[k].out_fees ELSE 0 ]]
    <3>5. s \in Seq(Transfers)
      BY <3>1, <3>4
    <3> QED BY <3>1, <3>5 DEF GetTransfers, is
  <2>3. allTransfers' \in Seq(Transfers)
    BY <1>1, <1>6, <2>2 DEF Refreshes
  <2> QED BY <1>6, <2>3 DEF Refreshes, TypeOK
<1>7. CASE Updates
  <2>1. updater' \in Updaters
    BY <1>7 DEF Updates, UpdaterBegins, UpdaterAsks, UpdaterAsksFull, UpdaterSkips,
                UpdaterCopies, UpdaterComputes, UpdaterWrites, Keeps, UpdaterBecomes
  <2>2. /\ moneyDB' \in [Users -> Infos] /\ overlapped' \in [Users -> BOOLEAN]
        /\ current' \in [Users -> SUBSET (Editors \cup {"updater"})]
    <3>1. CASE SameRecords
      BY <1>1, <3>1 DEF SameRecords
    <3>2. CASE UpdaterCopies
      BY <1>1, <3>2 DEF UpdaterCopies, Copies
    <3>3. CASE UpdaterWrites
      <4>1. moneyDB' \in [Users -> Infos]
        BY <1>1, <3>3, TypedParts DEF UpdaterWrites
      <4>2. overlapped' \in [Users -> BOOLEAN]
        BY <1>1, <3>3 DEF UpdaterWrites
      <4>3. current' \in [Users -> SUBSET (Editors \cup {"updater"})]
        BY <1>1, <3>3 DEF UpdaterWrites
      <4> QED BY <4>1, <4>2, <4>3
    <3> QED BY <1>7, <3>1, <3>2, <3>3
            DEF Updates, UpdaterBegins, UpdaterAsks, UpdaterAsksFull, UpdaterSkips, UpdaterComputes
  <2> QED BY <1>7, <2>1, <2>2 DEF Updates, TypeOK
<1>8. ASSUME NEW e \in Editors, Edit(e) PROVE TypeOK'
  <2>1. CASE EditorReads(e)
    <3>1. PICK u : Copies(e, u)
      BY <2>1 DEF EditorReads
    <3>2. current' \in [Users -> SUBSET (Editors \cup {"updater"})]
      BY <1>1, <3>1 DEF Copies
    <3>3. editor' \in [Editors -> Edits]
      BY <2>1 DEF EditorReads, Becomes
    <3> QED BY <1>8, <2>1, <3>2, <3>3 DEF Edit, EditorReads, TypeOK
  <2>2. CASE EditorWrites(e)
    <3> DEFINE u == Job(e).user
               info == editor[e].info
    <3>1. Job(e) \in Jobs /\ u \in Users /\ Job(e).amt \in Nat /\ FeeOf(Job(e)) \in Nat
      BY <2>2, JobFields DEF EditorWrites, Registrations, Busy
    <3>2. info \in Infos /\ editor' \in [Editors -> Edits]
          /\ moneyDB' = [moneyDB EXCEPT ![u] = info]
          /\ overlapped' = [overlapped EXCEPT ![u] = overlapped[u] \/ e \notin current[u]]
          /\ current' = [current EXCEPT ![u] = current[u] \cap {e}]
          /\ spent' = [spent EXCEPT ![u] = spent[u] + Buying(e)]
          /\ charged' = [charged EXCEPT ![u] = charged[u] + Fee(e)] /\ UNCHANGED funds
      BY <2>2 DEF EditorWrites, Insert, Becomes, Infos
    <3>3. Buying(e) \in Nat /\ Fee(e) \in Nat
      BY <3>1 DEF Buying, Fee
    <3> HIDE DEF u, info
    <3>4. spent' \in [Users -> Nat] /\ charged' \in [Users -> Nat]
      BY <1>1, <3>1, <3>2, <3>3
    <3>5. overlapped' \in [Users -> BOOLEAN]
      BY <1>1, <3>1, <3>2
    <3>6. moneyDB' \in [Users -> Infos] /\ current' \in [Users -> SUBSET (Editors \cup {"updater"})]
      BY <1>1, <3>1, <3>2
    <3> QED BY <1>8, <3>2, <3>4, <3>5, <3>6 DEF Edit, TypeOK
  <2>3. CASE EditorStarts(e)
    BY <1>8, <2>3 DEF Edit, EditorStarts, Becomes, TypeOK
  <2>4. CASE EditorPays(e)
    <3> DEFINE i == editor[e].info.addr_index
               out == Job(e).amt + Job(e).fee
               fee == FeeOf(Job(e))
               f == funds[i]
               new == Paid(f, out, fee)
    <3>1. Job(e) \in Jobs /\ editor[e].info \in FinancialInfos
      BY <2>4, TypedParts DEF EditorPays, At, Registrations, Busy, Holds, Infos
    <3>2. i \in Indices /\ out \in Nat /\ fee \in Nat /\ f \in Funds
      BY <1>1, <3>1, InfoFields, JobFields
    <3>3. funds' = [funds EXCEPT ![i] = new] /\ f.unlocked >= out
      BY <2>4 DEF EditorPays
    <3> HIDE DEF i, out, fee, f
    <3>4. f.unlocked - out \in Nat /\ f.paid + out \in Nat /\ f.out_fees + fee \in Nat
      BY <3>2, <3>3 DEF Funds
    <3>5. new \in Funds
      BY <3>2, <3>4 DEF Paid, Funds
    <3>6. funds' \in [Indices -> Funds]
      BY <1>1, <3>2, <3>3, <3>5
    <3> QED BY <1>8, <2>4, <3>6 DEF Edit, EditorPays, Becomes, TypeOK
  <2> QED BY <1>8, <2>1, <2>2, <2>3, <2>4 DEF Edit
<1> QED BY <1>2, <1>3, <1>4, <1>5, <1>6, <1>7, <1>8, Steps

-----------------------------------------------------------------------------
(* Registrations.                                                          *)

Base == TypeOK /\ Registrations /\ Round /\ Locking

(* No record is ever removed, and only a registration adds one.            *)
LEMMA RecordsStay ==
  ASSUME Base, [Next]_vars, NEW u \in Users
  PROVE  /\ Registered(u) => Registered(u)'
         /\ ~ Registered(u) /\ Registered(u)' =>
              /\ Registers /\ fresh[u] \in Indices
              /\ moneyDB'[u] = NewFinancialInfo(fresh[u], fresh[u])
<1> USE DEF Registered
<1>1. moneyDB \in [Users -> Infos]
  BY DEF Base, TypeOK
<1>2. CASE UNCHANGED moneyDB
  BY <1>2
<1>3. CASE Registers
  <2>1. PICK v \in Users :
          /\ fresh[v] \in Indices
          /\ moneyDB' = [moneyDB EXCEPT ![v] = NewFinancialInfo(fresh[v], fresh[v])]
    BY <1>3 DEF Registers
  <2>2. NewFinancialInfo(fresh[v], fresh[v]) # NoInfo
    BY <2>1, NewInfo, InfoFields
  <2> QED BY <1>1, <1>3, <2>1, <2>2
<1>4. CASE UpdaterWrites
  <2>1. moneyDB'[u] = IF u \in Written THEN updater.batch[u] ELSE moneyDB[u]
    BY <1>4 DEF UpdaterWrites
  <2>2. u \in Written => updater.batch[u] # NoInfo /\ moneyDB[u] # NoInfo
    BY DEF Base, Registrations, Written
  <2> QED BY <2>1, <2>2
<1>5. ASSUME NEW e \in Editors, EditorWrites(e)
      PROVE  Registered(u) <=> Registered(u)'
  <2>1. moneyDB' = [moneyDB EXCEPT ![Job(e).user] = editor[e].info]
        /\ editor[e].info \in FinancialInfos /\ Busy(e)
    BY <1>5 DEF EditorWrites, Insert, Busy
  <2>2. Job(e) \in Jobs /\ moneyDB[Job(e).user] # NoInfo
    BY <2>1 DEF Base, Registrations
  <2>3. Job(e).user \in Users /\ editor[e].info # NoInfo
    BY <2>1, <2>2, JobFields, InfoFields
  <2> QED BY <1>1, <2>1, <2>2, <2>3
<1>6. UNCHANGED vars => UNCHANGED moneyDB
  BY DEF vars
<1>7. Mints \/ Receives \/ Refreshes => UNCHANGED moneyDB
  BY DEF Mints, Receives, Refreshes
<1>8. Updates => UNCHANGED moneyDB \/ UpdaterWrites
  BY DEF Updates, SameRecords, UpdaterBegins, UpdaterAsks, UpdaterAsksFull, UpdaterSkips,
         UpdaterCopies, UpdaterComputes
<1>9. \A e \in Editors : Edit(e) => UNCHANGED moneyDB \/ EditorWrites(e)
  BY DEF Edit, EditorReads, EditorStarts, EditorPays
<1> QED BY <1>2, <1>3, <1>4, <1>5, <1>6, <1>7, <1>8, <1>9, Steps DEF Base

LEMMA RegistrationsStep ==
  ASSUME Base, [Next]_vars
  PROVE  Registrations'
<1> USE DEF Registered
<1>1. ASSUME NEW u \in Users, fresh'[u] # 0 PROVE ~ Registered(u)'
  <2>1. CASE Registers
    <3>1. PICK v \in Users :
            /\ fresh' = [fresh EXCEPT ![v] = 0]
            /\ moneyDB' = [moneyDB EXCEPT ![v] = NewFinancialInfo(fresh[v], fresh[v])]
      BY <2>1 DEF Registers
    <3>2. fresh \in [Users -> 0..MaxMinted] /\ moneyDB \in [Users -> Infos]
      BY DEF Base, TypeOK
    <3>3. u # v /\ fresh[u] # 0
      BY <1>1, <3>1, <3>2
    <3> QED BY <3>1, <3>2, <3>3 DEF Base, Registrations
  <2>2. CASE ~ Registers
    <3>1. fresh'[u] = fresh[u] \/ ~ Registered(u)
      <4>1. Mints => fresh'[u] = fresh[u] \/ ~ Registered(u)
        BY DEF Mints
      <4>2. Receives \/ Refreshes \/ Updates \/ (\E e \in Editors : Edit(e)) \/ UNCHANGED vars
              => fresh'[u] = fresh[u]
        BY DEF Receives, Refreshes, Updates, Edit, vars
      <4> QED BY <2>2, <4>1, <4>2, Steps DEF Base
    <3> QED BY <1>1, <2>2, <3>1, RecordsStay DEF Base, Registrations
  <2> QED BY <2>1, <2>2
<1>2. ASSUME NEW u \in Users, ~ Registered(u)'
      PROVE  /\ spent'[u] = 0 /\ charged'[u] = 0 /\ current'[u] = {}
             /\ updater'.batch[u] = NoInfo
  <2>0. ~ Registered(u)
    BY <1>2, RecordsStay
  <2>1. /\ spent[u] = 0 /\ charged[u] = 0 /\ current[u] = {}
        /\ updater.batch[u] = NoInfo
    BY <2>0 DEF Base, Registrations
  <2>2. /\ spent \in [Users -> Nat] /\ charged \in [Users -> Nat]
        /\ current \in [Users -> SUBSET (Editors \cup {"updater"})]
        /\ updater.batch \in [Users -> Infos]
    BY TypedParts DEF Base, TypeOK
  <2>3. CASE Mints \/ Registers \/ Receives \/ Refreshes \/ UNCHANGED vars
    BY <2>1, <2>3 DEF Mints, Registers, Receives, Refreshes, vars, history
  <2>4. CASE Updates
    <3>1. spent'[u] = 0 /\ charged'[u] = 0
      BY <2>1, <2>4 DEF Updates
    <3>2. CASE UpdaterBegins
      BY <2>1, <3>1, <3>2 DEF UpdaterBegins, UpdaterBecomes, SameRecords, NoBatch
    <3>3. CASE UpdaterAsks \/ UpdaterAsksFull \/ UpdaterSkips
      BY <2>1, <3>1, <3>3 DEF UpdaterAsks, UpdaterAsksFull, UpdaterSkips, Keeps,
                              UpdaterBecomes, SameRecords
    <3>4. CASE UpdaterCopies
      <4>1. KeyOrder[updater.key] # u /\ updater'.batch = updater.batch
            /\ current' = [current EXCEPT ![KeyOrder[updater.key]] = @ \cup {"updater"}]
        BY <2>0, <3>4 DEF UpdaterCopies, Keeps, UpdaterBecomes, Copies
      <4> QED BY <2>1, <2>2, <3>1, <4>1
    <3>5. CASE UpdaterComputes
      <4>1. KeyOrder[updater.key] # u
        BY <2>0, <3>5 DEF UpdaterComputes, Base, Round
      <4>2. current' = current
            /\ updater'.batch = [updater.batch EXCEPT ![KeyOrder[updater.key]] = Refreshed(updater.info)]
        BY <3>5 DEF UpdaterComputes, Keeps, UpdaterBecomes, SameRecords
      <4> QED BY <2>1, <2>2, <3>1, <4>1, <4>2
    <3>6. CASE UpdaterWrites
      BY <2>1, <3>1, <3>6 DEF UpdaterWrites, UpdaterBecomes, NoBatch
    <3> QED BY <2>4, <3>2, <3>3, <3>4, <3>5, <3>6 DEF Updates
  <2>5. ASSUME NEW e \in Editors, Edit(e)
        PROVE  /\ spent'[u] = 0 /\ charged'[u] = 0 /\ current'[u] = {}
               /\ updater'.batch[u] = NoInfo
    <3>0. updater'.batch[u] = NoInfo
      BY <2>1, <2>5 DEF Edit
    <3>1. CASE EditorReads(e)
      <4>1. PICK j \in Jobs : Registered(j.user) /\ Copies(e, j.user)
        BY <3>1 DEF EditorReads, Taken
      <4> QED BY <2>0, <2>1, <2>2, <3>0, <3>1, <4>1 DEF Copies, EditorReads
    <3>2. CASE EditorWrites(e)
      <4>1. Job(e).user # u
        BY <2>0, <3>2 DEF EditorWrites, Base, Registrations, Busy
      <4> QED BY <2>1, <2>2, <3>0, <3>2, <4>1 DEF EditorWrites, Insert
    <3>3. CASE EditorStarts(e) \/ EditorPays(e)
      BY <2>1, <3>0, <3>3 DEF EditorStarts, EditorPays
    <3> QED BY <2>5, <3>1, <3>2, <3>3 DEF Edit
  <2> QED BY <2>3, <2>4, <2>5, Steps DEF Base
<1>3. ASSUME NEW e \in Editors
      PROVE  /\ Busy(e)' => Job(e)' \in Jobs /\ Registered(Job(e).user)'
             /\ Holds(e)' => editor'[e].info # NoInfo
  <2>1. CASE editor'[e] = editor[e]
    BY <2>1, JobFields, RecordsStay DEF Base, Registrations, Busy, Holds, Job
  <2>2. CASE editor'[e] # editor[e]
    <3>1. Edit(e)
      <4>1. PICK f \in Editors : Edit(f)
        BY <2>2, Steps DEF Base, Mints, Registers, Receives, Refreshes, Updates, vars
      <4>2. \A g \in Editors \ {f} : editor'[g] = editor[g]
        BY <4>1 DEF Edit, EditorReads, EditorWrites, EditorStarts, EditorPays, Becomes
      <4> QED BY <2>2, <4>1, <4>2
    <3>2. CASE EditorReads(e)
      <4>1. PICK j \in Jobs, new \in FinancialInfos :
              Registered(j.user) /\ Becomes(e, "write", j, new)
        BY <3>2 DEF EditorReads, Taken
      <4> QED BY <4>1, JobFields, RecordsStay, InfoFields DEF Becomes, Job
    <3>3. CASE EditorWrites(e)
      <4>1. Job(e) \in Jobs /\ Registered(Job(e).user)
        BY <3>3 DEF EditorWrites, Base, Registrations, Busy
      <4>2. Registered(Job(e).user)'
        BY <4>1, <3>3, JobFields, RecordsStay DEF EditorWrites, Becomes, Job
      <4>3. Job(e)' = Job(e) /\ (editor'[e].pc = "done" \/ editor'[e].info = editor[e].info)
        BY <3>3 DEF EditorWrites, Becomes, Job
      <4> QED BY <3>3, <4>1, <4>2, <4>3, InfoFields DEF EditorWrites, Holds
    <3>4. CASE EditorStarts(e)
      <4>1. CASE Becomes(e, "done", Job(e), editor[e].info)
        BY <4>1 DEF Becomes, Busy, Holds
      <4>2. ASSUME NEW j \in Jobs, Registered(j.user), Becomes(e, "pending", j, moneyDB[j.user])
            PROVE  Job(e)' \in Jobs /\ Registered(Job(e).user)' /\ editor'[e].info # NoInfo
        BY <4>2, JobFields, RecordsStay DEF Becomes, Job
      <4> QED BY <3>4, <4>1, <4>2 DEF EditorStarts
    <3>5. CASE EditorPays(e)
      <4>1. Job(e) \in Jobs /\ Registered(Job(e).user)
        BY <3>5 DEF EditorPays, At, Base, Registrations, Busy
      <4>2. editor'[e].pc = "paid" /\ Job(e)' = Job(e)
        BY <3>5 DEF EditorPays, Becomes, Job
      <4> QED BY <4>1, <4>2, JobFields, RecordsStay DEF Holds
    <3> QED BY <3>1, <3>2, <3>3, <3>4, <3>5 DEF Edit
  <2> QED BY <2>1, <2>2
<1> QED BY <1>1, <1>2, <1>3 DEF Registrations

-----------------------------------------------------------------------------
(* What a step does to the round, the copies, the wallet and its answers.  *)

LEMMA RoundStep ==
  ASSUME Base, [Next]_vars
  PROVE  Round'
<1> USE DEF Registered
<1>1. \A k \in 1..Len(KeyOrder) : KeyOrder[k] \in Users
  BY KeyOrderFacts
<1>2. /\ updater.key \in 1..(Len(KeyOrder) + 1) /\ updater.key \in Nat /\ Len(KeyOrder) \in Nat
      /\ updater.batch \in [Users -> Infos]
  BY TypedParts, KeyOrderFacts DEF Base
<1>3. CASE UNCHANGED updater
  <2>1. updater.pc = "lock" => updater.key <= Len(KeyOrder) /\ Registered(KeyOrder[updater.key])
    BY DEF Base, Round
  <2>2. updater.pc = "lock" => Registered(KeyOrder[updater.key])'
    BY <1>1, <1>2, <1>3, <2>1, RecordsStay
  <2> QED BY <1>3, <2>2 DEF Base, Round
<1>4. CASE Updates
  <2>1. CASE UpdaterBegins \/ UpdaterWrites
    BY <1>1, <2>1 DEF UpdaterBegins, UpdaterWrites, UpdaterBecomes, NoBatch, Round
  <2>2. CASE UpdaterAsks \/ UpdaterAsksFull
    BY <2>2 DEF UpdaterAsks, UpdaterAsksFull, UpdaterBecomes, Base, Round
  <2>3. CASE UpdaterSkips
    BY <1>2, <2>3 DEF UpdaterSkips, Keeps, UpdaterBecomes, Base, Round
  <2>4. CASE UpdaterCopies
    <3>1. /\ updater'.pc = "lock" /\ updater'.key = updater.key
          /\ updater'.batch = updater.batch /\ updater'.info = moneyDB[KeyOrder[updater.key]]
          /\ updater.key <= Len(KeyOrder) /\ moneyDB[KeyOrder[updater.key]] # NoInfo
          /\ UNCHANGED moneyDB
      BY <2>4 DEF UpdaterCopies, Keeps, UpdaterBecomes
    <3> QED BY <3>1 DEF Base, Round
  <2>5. CASE UpdaterComputes
    <3> DEFINE k0 == updater.key
               info == Refreshed(updater.info)
    <3>1. /\ updater'.pc = "records" /\ updater'.key = k0 + 1 /\ k0 <= Len(KeyOrder)
          /\ updater'.batch = [updater.batch EXCEPT ![KeyOrder[k0]] = info]
      BY <2>5 DEF UpdaterComputes, Keeps, UpdaterBecomes
    <3>2. ASSUME NEW k \in (k0 + 1)..Len(KeyOrder)
          PROVE  updater'.batch[KeyOrder[k]] = NoInfo
      <4>1. k \in 1..Len(KeyOrder) /\ k0 \in 1..Len(KeyOrder) /\ k # k0
            /\ k \in k0..Len(KeyOrder)
        BY <1>2, <3>1
      <4>2. KeyOrder[k] # KeyOrder[k0] /\ KeyOrder[k] \in Users
        BY <4>1, KeyOrderFacts
      <4>3. updater.batch[KeyOrder[k]] = NoInfo
        BY <4>1 DEF Base, Round
      <4> QED BY <1>2, <3>1, <4>2, <4>3
    <3> QED BY <3>1, <3>2 DEF Round
  <2> QED BY <1>4, <2>1, <2>2, <2>3, <2>4, <2>5 DEF Updates
<1>5. ~ Updates => UNCHANGED updater
  BY Steps DEF Base, Mints, Registers, Receives, Refreshes, Edit, vars
<1> QED BY <1>3, <1>4, <1>5

LEMMA HeldRegistered ==
  ASSUME Base, NEW u \in Users, NEW info, Held(u, info)
  PROVE  Registered(u)
BY DEF Base, Held, Registered, Reading, Registrations, Round, Holds, Busy

(* A copy is an earlier copy, up to what the user asked for, or one that   *)
(* update_acc_balances has refreshed, or a new record.                     *)
LEMMA HeldStep ==
  ASSUME Base, [Next]_vars, NEW u \in Users, NEW info \in FinancialInfos, Held(u, info)'
  PROVE  \/ \E old \in FinancialInfos : Held(u, old) /\ SameFunds(old, info)
         \/ UpdaterComputes /\ Updates /\ Reading(u) /\ info = Refreshed(updater.info)
         \/ ~ Registered(u) /\ Registered(u)'
<1> DEFINE Old == \E old \in FinancialInfos : Held(u, old) /\ SameFunds(old, info)
<1>0. info # NoInfo
  BY InfoFields
<1>1. Held(u, info) => Old
  BY DEF SameFunds
<1>2. CASE info = moneyDB'[u]
  <2>1. CASE ~ Registered(u)
    BY <1>0, <1>2, <2>1 DEF Registered
  <2>2. CASE Registered(u)
    <3>1. CASE moneyDB'[u] = moneyDB[u]
      BY <1>0, <1>1, <1>2, <3>1 DEF Held
    <3>2. CASE UpdaterWrites
      <4>1. moneyDB'[u] = IF u \in Written THEN updater.batch[u] ELSE moneyDB[u]
        BY <3>2 DEF UpdaterWrites
      <4>2. Held(u, info)
        BY <1>0, <1>2, <4>1 DEF Held
      <4> QED BY <1>1, <4>2
    <3>3. ASSUME NEW e \in Editors, EditorWrites(e) PROVE Old
      <4>1. moneyDB' = [moneyDB EXCEPT ![Job(e).user] = editor[e].info] /\ Holds(e)
        BY <3>3 DEF EditorWrites, Insert, Holds
      <4>2. moneyDB'[u] = IF u = Job(e).user THEN editor[e].info ELSE moneyDB[u]
        BY <4>1 DEF Base, TypeOK
      <4>3. Held(u, info)
        BY <1>0, <1>2, <4>1, <4>2 DEF Held
      <4> QED BY <1>1, <4>3
    <3>4. CASE Registers
      <4>1. moneyDB'[u] = moneyDB[u]
        BY <2>2, <3>4 DEF Registers
      <4> QED BY <3>1, <4>1
    <3>5. Mints \/ Receives \/ Refreshes \/ UNCHANGED vars => UNCHANGED moneyDB
      BY DEF Mints, Receives, Refreshes, vars
    <3>6. Updates => UNCHANGED moneyDB \/ UpdaterWrites
      BY DEF Updates, SameRecords, UpdaterBegins, UpdaterAsks, UpdaterAsksFull, UpdaterSkips,
             UpdaterCopies, UpdaterComputes
    <3>7. \A e \in Editors : Edit(e) => UNCHANGED moneyDB \/ EditorWrites(e)
      BY DEF Edit, EditorReads, EditorStarts, EditorPays
    <3> QED BY <3>1, <3>2, <3>3, <3>4, <3>5, <3>6, <3>7, Steps DEF Base
  <2> QED BY <2>1, <2>2
<1>3. CASE info = updater'.batch[u] \/ (Reading(u)' /\ info = updater'.info)
  <2>1. CASE UNCHANGED updater
    <3>1. Held(u, info)
      BY <1>0, <1>3, <2>1 DEF Held, Reading
    <3> QED BY <1>1, <3>1
  <2>2. CASE Updates
    <3>1. CASE UpdaterBegins \/ UpdaterWrites
      <4>1. updater'.pc # "lock" /\ updater'.batch[u] = NoInfo
        BY <3>1 DEF UpdaterBegins, UpdaterWrites, UpdaterBecomes, NoBatch
      <4> QED BY <1>0, <1>3, <4>1 DEF Reading
    <3>2. CASE UpdaterAsks \/ UpdaterAsksFull \/ UpdaterSkips
      <4>1. updater'.pc # "lock" /\ updater'.batch = updater.batch
        BY <3>2 DEF UpdaterAsks, UpdaterAsksFull, UpdaterSkips, Keeps, UpdaterBecomes
      <4>2. Held(u, info)
        BY <1>0, <1>3, <4>1 DEF Held, Reading
      <4> QED BY <1>1, <4>2
    <3>3. CASE UpdaterCopies
      <4>1. updater'.key = updater.key /\ updater'.batch = updater.batch
            /\ updater'.info = moneyDB[KeyOrder[updater.key]]
        BY <3>3 DEF UpdaterCopies, Keeps, UpdaterBecomes
      <4>2. Held(u, info)
        BY <1>0, <1>3, <4>1 DEF Held, Reading
      <4> QED BY <1>1, <4>2
    <3>4. CASE UpdaterComputes
      <4> DEFINE new == Refreshed(updater.info)
      <4>1. /\ updater'.pc = "records" /\ updater.pc = "lock" /\ updater.key <= Len(KeyOrder)
            /\ updater'.batch = [updater.batch EXCEPT ![KeyOrder[updater.key]] = new]
        BY <3>4 DEF UpdaterComputes, Keeps, UpdaterBecomes
      <4>2. info = updater'.batch[u]
        BY <1>3, <4>1 DEF Reading
      <4>3. CASE u = KeyOrder[updater.key]
        <5>1. info = new
          BY <4>1, <4>2, <4>3, TypedParts DEF Base
        <5> QED BY <2>2, <3>4, <4>1, <4>3, <5>1 DEF Reading
      <4>4. CASE u # KeyOrder[updater.key]
        <5>1. Held(u, info)
          BY <1>0, <4>1, <4>2, <4>4, TypedParts DEF Base, Held
        <5> QED BY <1>1, <5>1
      <4> QED BY <4>3, <4>4
    <3> QED BY <2>2, <3>1, <3>2, <3>3, <3>4 DEF Updates
  <2>3. ~ Updates => UNCHANGED updater
    BY Steps DEF Base, Mints, Registers, Receives, Refreshes, Edit, vars
  <2> QED BY <2>1, <2>2, <2>3
<1>4. ASSUME NEW e \in Editors, Holds(e)', Job(e)'.user = u, info = editor'[e].info
      PROVE  Old
  <2>1. CASE editor'[e] = editor[e]
    <3>1. Held(u, info)
      BY <1>0, <1>4, <2>1 DEF Held, Holds, Job
    <3> QED BY <1>1, <3>1
  <2>2. CASE editor'[e] # editor[e]
    <3>1. Edit(e)
      <4>1. PICK f \in Editors : Edit(f)
        BY <2>2, Steps DEF Base, Mints, Registers, Receives, Refreshes, Updates, vars
      <4>2. \A g \in Editors \ {f} : editor'[g] = editor[g]
        BY <4>1 DEF Edit, EditorReads, EditorWrites, EditorStarts, EditorPays, Becomes
      <4> QED BY <2>2, <4>1, <4>2
    <3>2. CASE EditorReads(e)
      <4>1. PICK j \in Jobs, new \in FinancialInfos :
              Taken(e, j, new) /\ Becomes(e, "write", j, new)
        BY <3>2 DEF EditorReads
      <4>2. j.user = u /\ new = info
        BY <1>4, <4>1 DEF Becomes, Job
      <4>3. SameFunds(moneyDB[u], info) /\ moneyDB[u] # NoInfo
        BY <4>1, <4>2 DEF Taken, Registered
      <4>4. Held(u, moneyDB[u]) /\ moneyDB[u] \in FinancialInfos
        BY <4>3, TypedParts DEF Held, Base, Infos
      <4> QED BY <4>3, <4>4
    <3>3. CASE EditorWrites(e)
      <4>1. Job(e)' = Job(e) /\ (editor'[e].pc = "done" \/ editor'[e].info = editor[e].info)
            /\ Holds(e)
        BY <3>3 DEF EditorWrites, Becomes, Job, Holds
      <4>2. Held(u, info)
        BY <1>0, <1>4, <4>1 DEF Held, Holds
      <4> QED BY <1>1, <4>2
    <3>4. CASE EditorStarts(e)
      <4>1. ~ Becomes(e, "done", Job(e), editor[e].info)
        BY <1>4 DEF Becomes, Holds
      <4>2. PICK j \in Jobs : Becomes(e, "pending", j, moneyDB[j.user])
        BY <3>4, <4>1 DEF EditorStarts
      <4>3. Held(u, info)
        BY <1>0, <1>4, <4>2 DEF Becomes, Job, Held
      <4> QED BY <1>1, <4>3
    <3>5. ~ EditorPays(e)
      BY <1>4 DEF EditorPays, Becomes, Holds
    <3> QED BY <3>1, <3>2, <3>3, <3>4, <3>5 DEF Edit
  <2> QED BY <2>1, <2>2
<1> QED BY <1>2, <1>3, <1>4 DEF Held

LEMMA FundsStep ==
  ASSUME Base, [Next]_vars, NEW i \in Indices
  PROVE  /\ funds[i] \in Funds /\ funds'[i] \in Funds
         /\ funds[i].unlocked + funds[i].locked + funds[i].paid = funds[i].received =>
              funds'[i].unlocked + funds'[i].locked + funds'[i].paid = funds'[i].received
         /\ funds'[i].paid = 0 =>
              /\ funds[i].paid = 0 /\ funds'[i].out_fees = funds[i].out_fees
              /\ funds'[i].unlocked >= funds[i].unlocked
              /\ funds'[i].received >= funds[i].received
<1>1. funds \in [Indices -> Funds]
  BY DEF Base, TypeOK
<1>2. /\ funds[i] \in Funds /\ funds[i].unlocked \in Nat /\ funds[i].locked \in Nat
      /\ funds[i].received \in Nat /\ funds[i].paid \in Nat /\ funds[i].out_fees \in Nat
  BY <1>1 DEF Funds
<1>3. CASE UNCHANGED funds
  BY <1>2, <1>3
<1>4. CASE Receives
  <2>1. /\ funds'[i] \in Funds /\ funds'[i].unlocked \in Nat /\ funds'[i].locked \in Nat
        /\ funds'[i].received \in Nat /\ funds'[i].paid \in Nat
    BY <1>4 DEF Receives, Received, Funds
  <2>2. PICK x \in Nat :
          /\ funds'[i].paid = funds[i].paid /\ funds'[i].out_fees = funds[i].out_fees
          /\ funds'[i].unlocked >= funds[i].unlocked /\ funds'[i].received >= funds[i].received
          /\ funds'[i].received = funds[i].received + x
          /\ funds'[i].unlocked + funds'[i].locked = funds[i].unlocked + funds[i].locked + x
    BY <1>4 DEF Receives, Received
  <2> QED BY <1>2, <2>1, <2>2
<1>5. ASSUME NEW e \in Editors, EditorPays(e)
      PROVE  /\ funds'[i] \in Funds
             /\ funds[i].unlocked + funds[i].locked + funds[i].paid = funds[i].received =>
                  funds'[i].unlocked + funds'[i].locked + funds'[i].paid = funds'[i].received
             /\ funds'[i].paid = 0 =>
                  /\ funds[i].paid = 0 /\ funds'[i].out_fees = funds[i].out_fees
                  /\ funds'[i].unlocked >= funds[i].unlocked
                  /\ funds'[i].received >= funds[i].received
  <2> DEFINE j == Job(e)
             k == editor[e].info.addr_index
             out == j.amt + j.fee
             fee == FeeOf(j)
             new == Paid(funds[i], out, fee)
  <2>1. j \in Jobs
    BY <1>5 DEF EditorPays, At, Base, Registrations, Busy
  <2>2. out \in Nat /\ fee \in Nat /\ (out = 0 => fee = 0)
    <3>1. j.amt \in Nat /\ j.fee \in Nat
      BY <2>1, JobFields
    <3> QED BY <3>1 DEF FeeOf, ChargedFee
  <2>3. funds[k].unlocked >= out
        /\ funds' = [funds EXCEPT ![k] = Paid(funds[k], out, fee)]
    BY <1>5 DEF EditorPays
  <2>4. CASE i # k
    <3>1. funds'[i] = funds[i]
      BY <1>1, <2>3, <2>4
    <3> QED BY <1>2, <3>1
  <2>5. CASE i = k
    <3>1. funds'[i] = new /\ funds[i].unlocked >= out
      BY <1>1, <2>3, <2>5
    <3> HIDE DEF out, fee
    <3> DEFINE a == funds[i].unlocked - out
               b == funds[i].paid + out
               c == funds[i].out_fees + fee
    <3>2. a \in Nat /\ b \in Nat /\ c \in Nat
      BY <1>2, <2>2, <3>1
    <3>3. new = [funds[i] EXCEPT !.unlocked = a, !.paid = b, !.out_fees = c]
      BY DEF Paid
    <3> HIDE DEF a, b, c, new
    <3>4. /\ new \in Funds /\ new.unlocked = a /\ new.paid = b /\ new.out_fees = c
          /\ new.locked = funds[i].locked /\ new.received = funds[i].received
      BY <1>2, <3>2, <3>3 DEF Funds
    <3>5. a + funds[i].locked + b = funds[i].unlocked + funds[i].locked + funds[i].paid
      BY <1>2, <2>2 DEF a, b
    <3>6. b = 0 => out = 0 /\ funds[i].paid = 0 /\ a >= funds[i].unlocked
                   /\ c = funds[i].out_fees
      <4> SUFFICES ASSUME b = 0
                   PROVE  out = 0 /\ funds[i].paid = 0 /\ a >= funds[i].unlocked
                          /\ c = funds[i].out_fees
        OBVIOUS
      <4>1. out = 0 /\ funds[i].paid = 0
        BY <1>2, <2>2 DEF b
      <4>2. fee = 0
        BY <2>2, <4>1
      <4>3. a >= funds[i].unlocked
        BY <1>2, <4>1 DEF a
      <4>4. c = funds[i].out_fees
        BY <1>2, <4>2 DEF c
      <4> QED BY <4>1, <4>3, <4>4
    <3> QED BY <1>2, <3>1, <3>4, <3>5, <3>6
  <2> QED BY <2>4, <2>5
<1>6. ~ Receives /\ (\A e \in Editors : ~ EditorPays(e)) => UNCHANGED funds
  BY Steps DEF Base, Mints, Registers, Refreshes, Updates, Edit, EditorReads, EditorWrites,
               EditorStarts, vars, environment
<1> QED BY <1>2, <1>3, <1>4, <1>5, <1>6

(* An answer is the one it had, or what the subaddress holds now.          *)
LEMMA AnswersStep ==
  ASSUME Base, [Next]_vars, NEW i \in Indices
  PROVE  \/ /\ updater'.balances[i] \in {NoAnswer, updater.balances[i]}
            /\ updater'.fulls[i] \in {NoAnswer, updater.fulls[i]}
         \/ /\ updater'.balances[i] = funds[i].unlocked /\ updater'.fulls[i] = NoAnswer
            /\ UNCHANGED funds
         \/ /\ updater'.balances[i] = updater.balances[i]
            /\ updater'.fulls[i] = funds[i].unlocked + funds[i].locked /\ UNCHANGED funds
<1>1. \A b \in BOOLEAN :
        Balances(updater.indices, b)[i] \in
          {NoAnswer, funds[i].unlocked + (IF b THEN 0 ELSE funds[i].locked)}
  BY DEF Balances
<1>2. Unanswered[i] = NoAnswer
  BY DEF Unanswered
<1>3. CASE UpdaterBegins \/ UpdaterWrites
  BY <1>2, <1>3 DEF UpdaterBegins, UpdaterWrites, UpdaterBecomes
<1>4. CASE UpdaterAsks /\ UNCHANGED funds
  <2>1. updater.fulls = Unanswered
    BY <1>4 DEF UpdaterAsks, Base, Round
  <2>2. updater'.fulls[i] = NoAnswer
    BY <1>2, <1>4, <2>1 DEF UpdaterAsks, UpdaterBecomes
  <2>3. updater'.balances[i] = NoAnswer \/ updater'.balances[i] = funds[i].unlocked + 0
    BY <1>1, <1>2, <1>4 DEF UpdaterAsks, UpdaterBecomes
  <2>4. funds[i].unlocked + 0 = funds[i].unlocked
    BY DEF Base, TypeOK, Funds
  <2> QED BY <1>4, <2>2, <2>3, <2>4
<1>5. CASE UpdaterAsksFull /\ UNCHANGED funds
  BY <1>1, <1>2, <1>5 DEF UpdaterAsksFull, UpdaterBecomes
<1>6. CASE UpdaterSkips \/ UpdaterCopies \/ UpdaterComputes
  BY <1>6 DEF UpdaterSkips, UpdaterCopies, UpdaterComputes, Keeps, UpdaterBecomes
<1>7. ~ Updates => UNCHANGED updater
  BY Steps DEF Base, Mints, Registers, Receives, Refreshes, Edit, vars
<1> QED BY <1>3, <1>4, <1>5, <1>6, <1>7 DEF Updates

LEMMA WalletStep ==
  ASSUME Base, Wallet, [Next]_vars
  PROVE  Wallet'
<1> SUFFICES ASSUME NEW i \in Indices
             PROVE  /\ funds'[i].unlocked + funds'[i].locked + funds'[i].paid = funds'[i].received
                    /\ funds'[i].paid = 0 =>
                         /\ funds'[i].out_fees = 0
                         /\ updater'.balances[i] # NoAnswer =>
                              updater'.balances[i] <= funds'[i].unlocked
                         /\ updater'.fulls[i] # NoAnswer =>
                              /\ updater'.fulls[i] <= funds'[i].received
                              /\ updater'.balances[i] # NoAnswer =>
                                   updater'.balances[i] <= updater'.fulls[i]
  BY DEF Wallet
<1>1. funds'[i].unlocked + funds'[i].locked + funds'[i].paid = funds'[i].received
  BY FundsStep DEF Wallet
<1>2. /\ funds[i].unlocked \in Nat /\ funds[i].locked \in Nat /\ funds[i].paid \in Nat
      /\ funds[i].received \in Nat /\ funds'[i].unlocked \in Nat /\ funds'[i].received \in Nat
  BY FundsStep DEF Funds
<1>3. /\ updater.balances[i] \in Nat \cup {NoAnswer} /\ updater.fulls[i] \in Nat \cup {NoAnswer}
      /\ NoAnswer \notin Nat
  BY TypedParts, AccountsAssumption DEF Base, Answers
<1>4. ASSUME funds'[i].paid = 0
      PROVE  /\ funds[i].paid = 0 /\ funds'[i].out_fees = 0
             /\ funds'[i].unlocked >= funds[i].unlocked /\ funds'[i].received >= funds[i].received
             /\ funds[i].unlocked + funds[i].locked = funds[i].received
  <2>1. funds[i].paid = 0 /\ funds'[i].out_fees = funds[i].out_fees
        /\ funds'[i].unlocked >= funds[i].unlocked /\ funds'[i].received >= funds[i].received
    BY <1>4, FundsStep
  <2>2. funds[i].out_fees = 0 /\ funds[i].unlocked + funds[i].locked + funds[i].paid = funds[i].received
    BY <2>1 DEF Wallet
  <2> QED BY <1>2, <2>1, <2>2
<1>5. ASSUME funds'[i].paid = 0, updater'.balances[i] # NoAnswer
      PROVE  updater'.balances[i] <= funds'[i].unlocked
  <2>1. CASE updater'.balances[i] = updater.balances[i]
    <3>1. updater.balances[i] <= funds[i].unlocked /\ updater.balances[i] \in Nat
      BY <1>3, <1>4, <1>5, <2>1 DEF Wallet
    <3> QED BY <1>2, <1>4, <1>5, <2>1, <3>1
  <2>2. CASE updater'.balances[i] = funds[i].unlocked
    BY <1>2, <1>4, <1>5, <2>2
  <2> QED BY <1>5, <2>1, <2>2, AnswersStep
<1>6. ASSUME funds'[i].paid = 0, updater'.fulls[i] # NoAnswer
      PROVE  updater'.fulls[i] <= funds'[i].received
  <2>1. CASE updater'.fulls[i] = updater.fulls[i]
    <3>1. updater.fulls[i] <= funds[i].received /\ updater.fulls[i] \in Nat
      BY <1>3, <1>4, <1>6, <2>1 DEF Wallet
    <3> QED BY <1>2, <1>4, <1>6, <2>1, <3>1
  <2>2. CASE updater'.fulls[i] = funds[i].unlocked + funds[i].locked
    BY <1>2, <1>4, <1>6, <2>2
  <2> QED BY <1>6, <2>1, <2>2, AnswersStep
<1>7. ASSUME funds'[i].paid = 0, updater'.fulls[i] # NoAnswer, updater'.balances[i] # NoAnswer
      PROVE  updater'.balances[i] <= updater'.fulls[i]
  <2>1. CASE updater'.balances[i] = updater.balances[i] /\ updater'.fulls[i] = updater.fulls[i]
    BY <1>4, <1>7, <2>1 DEF Wallet
  <2>2. CASE updater'.balances[i] = updater.balances[i]
             /\ updater'.fulls[i] = funds[i].unlocked + funds[i].locked
    <3>1. updater.balances[i] <= funds[i].unlocked /\ updater.balances[i] \in Nat
      BY <1>3, <1>4, <1>7, <2>2 DEF Wallet
    <3> QED BY <1>2, <2>2, <3>1
  <2> QED BY <1>7, <2>1, <2>2, AnswersStep
<1> QED BY <1>1, <1>4, <1>5, <1>6, <1>7

-----------------------------------------------------------------------------
(* Indices.                                                                *)

LEMMA HeldNew ==
  ASSUME Base, [Next]_vars, NEW u \in Users, ~ Registered(u),
         NEW info \in FinancialInfos, Held(u, info)'
  PROVE  Registers /\ fresh[u] \in Indices /\ info = NewFinancialInfo(fresh[u], fresh[u])
<1>1. Registered(u)'
  <2>1. ASSUME NEW old \in FinancialInfos PROVE ~ Held(u, old)
    BY HeldRegistered
  <2>2. ~ Reading(u)
    BY DEF Reading, Base, Round
  <2> QED BY <2>1, <2>2, HeldStep
<1>2. Registers /\ fresh[u] \in Indices /\ moneyDB'[u] = NewFinancialInfo(fresh[u], fresh[u])
  BY <1>1, RecordsStay
<1>3. UNCHANGED <<updater, editor>>
  BY <1>2 DEF Registers
<1>4. ~ Held(u, info)
  BY HeldRegistered
<1>5. info = moneyDB'[u]
  BY <1>3, <1>4 DEF Held, Reading, Holds, Job
<1> QED BY <1>2, <1>5

LEMMA AlignedBefore ==
  ASSUME Base, [Next]_vars, aligned'
  PROVE  aligned /\ (Registers => IsAligned(moneyDB'))
<1>1. UNCHANGED aligned \/ Registers
  BY Steps DEF Base, Mints, Receives, Refreshes, Updates, Edit, vars, history
<1>2. Registers => aligned /\ IsAligned(moneyDB')
  BY DEF Registers
<1> QED BY <1>1, <1>2

LEMMA SlotAligned ==
  ASSUME Alignment, aligned, NEW info \in FinancialInfos
  PROVE  Slot(info).addr_index = info.addr_index
BY DEF Alignment, Slot

LEMMA CopiesAligned ==
  ASSUME Base, Alignment, [Next]_vars, aligned', NEW u \in Users,
         NEW info \in FinancialInfos, Held(u, info)'
  PROVE  OwnIndex(info) /\ (Registered(u) => info.addr_index = moneyDB[u].addr_index)
<1>1. aligned
  BY AlignedBefore
<1>2. ASSUME NEW old \in FinancialInfos, Held(u, old)
      PROVE  OwnIndex(old) /\ old.addr_index = moneyDB[u].addr_index
  BY <1>1, <1>2 DEF Alignment
<1>3. ASSUME NEW old \in FinancialInfos, Held(u, old), SameFunds(old, info)
      PROVE  OwnIndex(info) /\ info.addr_index = moneyDB[u].addr_index
  BY <1>2, <1>3 DEF SameFunds, OwnIndex
<1>4. CASE UpdaterComputes /\ Reading(u) /\ info = Refreshed(updater.info)
  <2>1. updater.info \in FinancialInfos /\ Held(u, updater.info)
    BY <1>4, InfoFields DEF UpdaterComputes, Held
  <2>2. info.addr_index = updater.info.addr_index /\ info.deposit_addr = updater.info.deposit_addr
    BY <1>1, <1>4, <2>1, RefreshedInfo, SlotAligned DEF Base
  <2> QED BY <1>2, <2>1, <2>2 DEF OwnIndex
<1>5. CASE ~ Registered(u)
  BY <1>5, HeldNew, NewInfo
<1> QED BY <1>3, <1>4, <1>5, HeldStep

LEMMA IndexStays ==
  ASSUME Base, Alignment, [Next]_vars, aligned', NEW u \in Users, Registered(u)
  PROVE  /\ moneyDB[u] \in FinancialInfos /\ moneyDB'[u] \in FinancialInfos
         /\ Held(u, moneyDB[u])
         /\ moneyDB'[u].addr_index = moneyDB[u].addr_index
<1>1. Registered(u)' /\ TypeOK'
  BY RecordsStay, TypeStep DEF Base
<1>2. moneyDB[u] \in FinancialInfos /\ moneyDB'[u] \in FinancialInfos
  BY <1>1 DEF Base, TypeOK, Infos, Registered
<1>3. Held(u, moneyDB[u])
  BY DEF Held, Registered
<1>4. ASSUME NEW info \in FinancialInfos, info = moneyDB'[u]
      PROVE  info.addr_index = moneyDB[u].addr_index
  <2>1. Held(u, info)'
    BY <1>1, <1>4 DEF Held, Registered
  <2> QED BY <2>1, CopiesAligned
<1> QED BY <1>2, <1>3, <1>4

LEMMA AlignmentStep ==
  ASSUME Base, Alignment, [Next]_vars
  PROVE  Alignment'
<1> SUFFICES ASSUME aligned' PROVE Alignment'
  BY DEF Alignment
<1>1. aligned /\ TypeOK'
  BY AlignedBefore, TypeStep DEF Base
<1>2. IsAligned(moneyDB')
  <2>1. CASE Registers
    BY <2>1, AlignedBefore
  <2>2. CASE ~ Registers
    <3>1. moneyDB \in [Users -> Infos] /\ moneyDB' \in [Users -> Infos]
      BY <1>1 DEF Base, TypeOK
    <3>2. \A u \in Users : moneyDB[u] = NoInfo <=> moneyDB'[u] = NoInfo
      BY <2>2, RecordsStay DEF Registered
    <3>3. \A u \in Users : moneyDB[u] # NoInfo => moneyDB'[u].addr_index = moneyDB[u].addr_index
      BY IndexStays DEF Registered
    <3>4. IndicesIn(moneyDB') = IndicesIn(moneyDB)
      BY <3>1, <3>2, <3>3, IndicesSame
    <3> QED BY <1>1, <3>4 DEF Alignment, IsAligned
  <2> QED BY <2>1, <2>2
<1>3. ASSUME NEW k \in DOMAIN refresher'.indices PROVE refresher'.indices[k] = k
  <2>1. CASE Refreshes
    <3>1. CASE refresher'.indices = <<>>
      BY <1>3, <3>1
    <3>2. CASE refresher'.indices \in {refresher.indices, IndicesIn(moneyDB)}
      BY <1>1, <1>3, <3>2 DEF Alignment, IsAligned
    <3> QED BY <2>1, <3>1, <3>2 DEF Refreshes
  <2>2. CASE UNCHANGED refresher
    BY <1>1, <1>3, <2>2 DEF Alignment
  <2> QED BY <2>1, <2>2, Steps DEF Base, Mints, Registers, Receives, Updates, Edit, vars
<1>4. ASSUME NEW k \in DOMAIN allTransfers' PROVE allTransfers'[k].addr_index = k
  <2>1. CASE allTransfers' = GetTransfers(refresher.indices)
    <3>1. k \in DOMAIN refresher.indices /\ allTransfers'[k].addr_index = refresher.indices[k]
      BY <1>4, <2>1 DEF GetTransfers
    <3> QED BY <1>1, <3>1 DEF Alignment
  <2>2. CASE UNCHANGED allTransfers
    BY <1>1, <1>4, <2>2 DEF Alignment
  <2> QED BY <2>1, <2>2, Steps DEF Base, Mints, Registers, Receives, Refreshes, Updates, Edit, vars
<1>5. ASSUME NEW u \in Users, NEW info \in FinancialInfos, Held(u, info)'
      PROVE  OwnIndex(info) /\ info.addr_index = moneyDB'[u].addr_index
  <2>1. CASE Registered(u)
    BY <1>5, <2>1, CopiesAligned, IndexStays
  <2>2. CASE ~ Registered(u)
    <3>1. info = NewFinancialInfo(fresh[u], fresh[u]) /\ fresh[u] \in Indices
      BY <1>5, <2>2, HeldNew
    <3>2. Registered(u)'
      BY <1>5, <2>2, HeldStep, HeldRegistered DEF Reading, Base, Round
    <3>3. moneyDB'[u] = NewFinancialInfo(fresh[u], fresh[u])
      BY <2>2, <3>2, RecordsStay
    <3> QED BY <3>1, <3>3, NewInfo
  <2> QED BY <2>1, <2>2
<1> QED BY <1>2, <1>3, <1>4, <1>5 DEF Alignment

-----------------------------------------------------------------------------
(* Arithmetic modulo Modulus.                                              *)

LEMMA Quotient ==
  ASSUME NEW M \in Nat \ {0}, NEW x \in Nat
  PROVE  x \div M \in Nat /\ x % M \in 0..(M - 1) /\ x = (x \div M) * M + (x % M)
OBVIOUS

LEMMA RemainderLess ==
  ASSUME NEW x \in Nat
  PROVE  x % Modulus \in Nat /\ x % Modulus <= x
<1> DEFINE q == x \div Modulus
           r == x % Modulus
<1>1. q \in Nat /\ r \in Nat /\ x = q * Modulus + r
  BY ModulusAssumption, Quotient
<1>2. q * Modulus \in Nat
  BY <1>1, ModulusAssumption
<1> HIDE DEF q, r
<1>3. r <= x
  BY <1>1, <1>2
<1> QED BY <1>1, <1>3 DEF r

-----------------------------------------------------------------------------
(* What the records show.                                                  *)

LEMMA ShownStep ==
  ASSUME Base, [Next]_vars, NEW i \in Indices, NEW info \in FinancialInfos,
         Shown(info, i), funds'[i].paid = 0
  PROVE  Shown(info, i)'
<1>1. /\ funds[i].unlocked \in Nat /\ funds[i].locked \in Nat /\ funds[i].received \in Nat
      /\ funds'[i].unlocked \in Nat /\ funds'[i].received \in Nat
      /\ funds'[i].unlocked >= funds[i].unlocked /\ funds'[i].received >= funds[i].received
  BY FundsStep DEF Funds
<1>2. info.balance \in Nat /\ info.pending_balance \in Nat
  BY InfoFields
<1>3. info.out_fees = 0 /\ info.balance <= funds[i].unlocked
      /\ info.pending_balance <= funds[i].received
  BY DEF Shown
<1>4. info.balance <= funds'[i].unlocked /\ info.pending_balance <= funds'[i].received
  BY <1>1, <1>2, <1>3
<1>5. info.balance <= funds[i].unlocked + funds[i].locked
  BY <1>1, <1>2, <1>3
<1>6. updater'.balances[i] # NoAnswer => info.balance <= updater'.balances[i]
  BY <1>3, AnswersStep DEF Shown
<1>7. updater'.fulls[i] # NoAnswer => info.balance <= updater'.fulls[i]
  BY <1>5, AnswersStep DEF Shown
<1> QED BY <1>3, <1>4, <1>6, <1>7 DEF Shown

LEMMA RefreshedShown ==
  ASSUME Base, Alignment, Wallet, Showing, aligned, NEW u \in Users,
         NEW info \in FinancialInfos, Held(u, info), funds[info.addr_index].paid = 0
  PROVE  LET new == Refreshed(info)
             i == info.addr_index
         IN  /\ new \in FinancialInfos /\ new.addr_index = i /\ Shown(new, i)
             /\ info.balance <= new.balance
<1> DEFINE i == info.addr_index
           new == Refreshed(info)
           b == updater.balances[i]
           f == updater.fulls[i]
<1>1. /\ i \in Indices /\ new \in FinancialInfos /\ new.addr_index = i
      /\ new.out_fees = Slot(info).out_fees
      /\ new.balance = BalanceOf(info, i) /\ new.pending_balance = PendingOf(info, i)
  BY InfoFields, RefreshedInfo, SlotAligned DEF Base
<1>2. Shown(info, i)
  BY DEF Showing
<1>3. new.out_fees = 0
  <2>1. i \in DOMAIN allTransfers => allTransfers[i].out_fees = 0
    BY DEF Showing
  <2> QED BY <1>1, <1>2, <2>1 DEF Slot, Shown
<1>4. /\ b \in Nat \cup {NoAnswer} /\ f \in Nat \cup {NoAnswer} /\ NoAnswer \notin Nat
      /\ info.balance \in Nat /\ info.pending_balance \in Nat
      /\ funds[i].unlocked \in Nat /\ funds[i].received \in Nat
  BY <1>1, InfoFields, TypedParts, AccountsAssumption DEF Base, Answers, TypeOK, Funds
<1>5. /\ b # NoAnswer => b <= funds[i].unlocked /\ info.balance <= b
      /\ f # NoAnswer => f <= funds[i].received /\ info.balance <= f
      /\ b # NoAnswer /\ f # NoAnswer => b <= f
      /\ info.balance <= funds[i].unlocked /\ info.pending_balance <= funds[i].received
  BY <1>1, <1>2 DEF Wallet, Shown
<1>6. /\ new.balance = IF b # NoAnswer THEN b ELSE info.balance
      /\ new.pending_balance = IF f # NoAnswer THEN (f - new.balance) % Modulus
                                               ELSE info.pending_balance
  BY <1>1 DEF BalanceOf, PendingOf
<1> HIDE DEF b, f, i, new
<1>7. /\ new.balance \in Nat /\ new.balance <= funds[i].unlocked /\ info.balance <= new.balance
      /\ b # NoAnswer => new.balance <= b
      /\ f # NoAnswer => new.balance <= f
  BY <1>4, <1>5, <1>6
<1>8. new.pending_balance <= funds[i].received
  <2>1. CASE f # NoAnswer
    <3>1. f - new.balance \in Nat /\ f \in Nat
      BY <1>4, <1>7, <2>1
    <3>2. (f - new.balance) % Modulus \in Nat /\ (f - new.balance) % Modulus <= f - new.balance
      BY <3>1, RemainderLess
    <3>3. new.pending_balance = (f - new.balance) % Modulus
      BY <1>6, <2>1
    <3>4. f <= funds[i].received
      BY <1>5, <2>1
    <3> QED BY <1>4, <1>7, <3>1, <3>2, <3>3, <3>4
  <2>2. CASE f = NoAnswer
    BY <1>5, <1>6, <2>2
  <2> QED BY <2>1, <2>2
<1>9. Shown(new, i)
  BY <1>3, <1>7, <1>8 DEF Shown, b, f
<1> QED BY <1>1, <1>7, <1>9 DEF new, i

LEMMA ShowingStep ==
  ASSUME Base, Alignment, Wallet, Showing, [Next]_vars
  PROVE  Showing'
<1> SUFFICES ASSUME aligned' PROVE Showing'
  BY DEF Showing
<1>1. aligned
  BY AlignedBefore
<1>2. ASSUME NEW u \in Users, NEW info \in FinancialInfos, Held(u, info)',
             funds'[info.addr_index].paid = 0
      PROVE  Shown(info, info.addr_index)'
  <2> DEFINE i == info.addr_index
  <2>1. i \in Indices /\ funds[i].paid = 0
    BY <1>2, InfoFields, FundsStep
  <2>2. ASSUME NEW old \in FinancialInfos, Held(u, old), SameFunds(old, info)
        PROVE  Shown(info, i)
    <3>1. Shown(old, i)
      BY <1>1, <2>1, <2>2 DEF Showing, SameFunds
    <3> QED BY <2>2, <3>1 DEF SameFunds, Shown
  <2>3. ASSUME UpdaterComputes, Reading(u), info = Refreshed(updater.info)
        PROVE  Shown(info, i)
    <3>1. updater.info \in FinancialInfos /\ Held(u, updater.info)
      BY <2>3, InfoFields DEF UpdaterComputes, Held
    <3>2. updater.info.addr_index = i
      BY <1>1, <2>3, <3>1, RefreshedInfo, SlotAligned DEF Base
    <3> QED BY <1>1, <2>1, <2>3, <3>1, <3>2, RefreshedShown
  <2>4. ASSUME ~ Registered(u)
        PROVE  Shown(info, i)
    <3>1. info.out_fees = 0 /\ info.balance = 0 /\ info.pending_balance = 0
      BY <1>2, <2>4, HeldNew, NewInfo
    <3>2. /\ funds[i].unlocked \in Nat /\ funds[i].received \in Nat
          /\ updater.balances[i] \in Nat \cup {NoAnswer} /\ updater.fulls[i] \in Nat \cup {NoAnswer}
      BY <2>1, TypedParts DEF Base, Answers, TypeOK, Funds
    <3> QED BY <3>1, <3>2 DEF Shown
  <2>5. Shown(info, i)
    BY <1>2, <2>2, <2>3, <2>4, HeldStep
  <2> QED BY <1>2, <2>1, <2>5, ShownStep
<1>3. ASSUME NEW k \in DOMAIN allTransfers', funds'[k].paid = 0
      PROVE  allTransfers'[k].out_fees = 0
  <2>1. k \in Indices
    <3>1. Alignment' /\ TypeOK'
      BY AlignmentStep, TypeStep DEF Base
    <3>2. allTransfers'[k] \in Transfers /\ allTransfers'[k].addr_index = k
      BY <1>3, <3>1, ElementOfSeq, LenProperties DEF Alignment, TypeOK
    <3> QED BY <3>2 DEF Transfers
  <2>2. funds[k].paid = 0 /\ funds[k].out_fees = 0
    BY <1>3, <2>1, FundsStep DEF Wallet
  <2>3. CASE allTransfers' = GetTransfers(refresher.indices)
    BY <1>3, <2>2, <2>3 DEF GetTransfers
  <2>4. CASE UNCHANGED allTransfers
    BY <1>1, <1>3, <2>2, <2>4 DEF Showing
  <2> QED BY <2>3, <2>4, Steps DEF Base, Mints, Registers, Receives, Refreshes, Updates, Edit, vars
<1> QED BY <1>2, <1>3 DEF Showing

-----------------------------------------------------------------------------
(* Who is charged.                                                         *)

LEMMA EditorAlone ==
  ASSUME Base, [Next]_vars, NEW e \in Editors, editor'[e] # editor[e]
  PROVE  Edit(e)
<1>1. PICK f \in Editors : Edit(f)
  BY Steps DEF Base, Mints, Registers, Receives, Refreshes, Updates, vars
<1>2. \A g \in Editors \ {f} : editor'[g] = editor[g]
  BY <1>1 DEF Edit, EditorReads, EditorWrites, EditorStarts, EditorPays, Becomes
<1> QED BY <1>1, <1>2

LEMMA UnpaidBefore ==
  ASSUME Base, Alignment, [Next]_vars, aligned', NEW u \in Users, Registered(u),
         funds'[moneyDB'[u].addr_index].paid = 0
  PROVE  /\ aligned /\ moneyDB[u].addr_index \in Indices
         /\ moneyDB'[u].addr_index = moneyDB[u].addr_index
         /\ funds[moneyDB[u].addr_index].paid = 0
<1>1. /\ moneyDB[u].addr_index \in Indices
      /\ moneyDB'[u].addr_index = moneyDB[u].addr_index
  BY IndexStays, InfoFields
<1> QED BY <1>1, AlignedBefore, FundsStep

LEMMA ChargingStep ==
  ASSUME Base, Alignment, Charging, [Next]_vars
  PROVE  Charging'
<1> SUFFICES ASSUME aligned', NEW u \in Users, Registered(u)',
                    funds'[moneyDB'[u].addr_index].paid = 0
             PROVE  /\ charged'[u] = 0
                    /\ \A e \in Editors :
                         /\ Job(e)' \in Jobs /\ Job(e)'.user = u
                         /\ At(e, "credit", "paid")' \/ At(e, "credit", "write")'
                         => FeeOf(Job(e)') = 0
  BY DEF Charging, FeeOf
<1>1. CASE ~ Registered(u)
  <2>1. UNCHANGED <<charged, editor>>
    BY <1>1, RecordsStay DEF Registers
  <2>2. charged[u] = 0
    BY <1>1 DEF Base, Registrations
  <2>3. ASSUME NEW e \in Editors, Job(e)'.user = u
        PROVE  ~ (At(e, "credit", "paid")' \/ At(e, "credit", "write")')
    BY <1>1, <2>1, <2>3 DEF Base, Registrations, Busy, At, Job
  <2> QED BY <2>1, <2>2, <2>3
<1>2. CASE Registered(u)
  <2> DEFINE i == moneyDB[u].addr_index
  <2>1. aligned /\ i \in Indices /\ moneyDB'[u].addr_index = i /\ funds[i].paid = 0
        /\ funds'[i].paid = 0
    BY <1>2, UnpaidBefore
  <2>2. charged[u] = 0
    BY <1>2, <2>1 DEF Charging
  <2>3. ASSUME NEW e \in Editors, Job(e) \in Jobs, Job(e).user = u,
               At(e, "credit", "paid") \/ At(e, "credit", "write")
        PROVE  FeeOf(Job(e)) = 0
    BY <1>2, <2>1, <2>3 DEF Charging
  <2>4. charged'[u] = 0
    <3>1. CASE UNCHANGED charged
      BY <2>2, <3>1
    <3>2. ASSUME NEW e \in Editors, EditorWrites(e) PROVE charged'[u] = 0
      <4>1. Job(e) \in Jobs /\ charged \in [Users -> Nat]
            /\ charged' = [charged EXCEPT ![Job(e).user] = charged[Job(e).user] + Fee(e)]
        BY <3>2 DEF EditorWrites, Base, Registrations, Busy, TypeOK
      <4>2. CASE Job(e).user = u
        <5>1. Fee(e) = 0
          BY <2>3, <4>1, <4>2 DEF Fee
        <5> QED BY <2>2, <4>1, <4>2, <5>1
      <4>3. CASE Job(e).user # u
        BY <2>2, <4>1, <4>3
      <4> QED BY <4>2, <4>3
    <3> QED BY <3>1, <3>2, Steps DEF Base, Mints, Registers, Receives, Refreshes, Updates, Edit,
               EditorReads, EditorStarts, EditorPays, vars, history
  <2>5. ASSUME NEW e \in Editors, Job(e)' \in Jobs, Job(e)'.user = u,
               At(e, "credit", "paid")' \/ At(e, "credit", "write")'
        PROVE  FeeOf(Job(e)') = 0
    <3>1. CASE editor'[e] = editor[e]
      BY <2>3, <2>5, <3>1 DEF Job, At
    <3>2. CASE EditorReads(e)
      <4>1. PICK j \in Jobs, new \in FinancialInfos :
              Taken(e, j, new) /\ Becomes(e, "write", j, new)
        BY <3>2 DEF EditorReads
      <4>2. Job(e)' = j /\ j.kind = "credit"
        BY <2>5, <4>1 DEF Becomes, Job, At
      <4>3. Job(e) = j /\ At(e, "credit", "paid")
        BY <4>1, <4>2 DEF Taken, At
      <4> QED BY <2>3, <2>5, <4>2, <4>3
    <3>3. ~ EditorWrites(e) /\ ~ EditorStarts(e)
      BY <2>5 DEF EditorWrites, EditorStarts, Becomes, At
    <3>4. CASE EditorPays(e)
      <4> DEFINE k == editor[e].info.addr_index
                 out == Job(e).amt + Job(e).fee
                 fee == FeeOf(Job(e))
      <4>1. Job(e)' = Job(e) /\ editor[e].pc = "pending"
            /\ funds' = [funds EXCEPT ![k] = Paid(funds[k], out, fee)]
        BY <3>4 DEF EditorPays, Becomes, Job, At
      <4>2. Holds(e) /\ editor[e].info \in FinancialInfos /\ Held(u, editor[e].info)
        BY <2>5, <4>1, TypedParts DEF Base, Registrations, Holds, Infos, Held
      <4>3. k = i
        BY <2>1, <4>2 DEF Alignment
      <4>4. Job(e).amt \in Nat /\ Job(e).fee \in Nat
        BY <2>5, <4>1, JobFields
      <4>5. out = 0
        <5>1. funds[i] \in Funds /\ funds[i].paid \in Nat
          BY <2>1, FundsStep DEF Funds
        <5>2. funds'[i] = Paid(funds[i], out, fee)
          BY <2>1, <4>1, <4>3 DEF Base, TypeOK
        <5> HIDE DEF out, fee, i
        <5>3. funds'[i].paid = funds[i].paid + out
          BY <5>1, <5>2 DEF Paid, Funds
        <5>4. out \in Nat
          BY <4>4 DEF out
        <5> QED BY <2>1, <5>1, <5>3, <5>4 DEF i
      <4> QED BY <4>1, <4>4, <4>5 DEF FeeOf, ChargedFee
    <3> QED BY <3>1, <3>2, <3>3, <3>4, EditorAlone DEF Edit
  <2> QED BY <2>4, <2>5
<1> QED BY <1>1, <1>2

-----------------------------------------------------------------------------
(* What the records keep.                                                  *)

LEMMA RemainderUnique ==
  ASSUME NEW M \in Nat \ {0}, NEW k \in Int, NEW j \in Int,
         NEW r \in 0..(M - 1), NEW s \in 0..(M - 1), k * M + r = j * M + s
  PROVE  r = s
<1>1. ASSUME NEW d \in Nat \ {0} PROVE d * M >= M
  OBVIOUS
<1>2. CASE k > j
  <2>1. (k - j) * M >= M
    BY <1>1, <1>2
  <2>2. (k - j) * M = s - r
    OBVIOUS
  <2> QED BY <2>1, <2>2
<1>3. CASE j > k
  <2>1. (j - k) * M >= M
    BY <1>1, <1>3
  <2>2. (j - k) * M = r - s
    OBVIOUS
  <2> QED BY <2>1, <2>2
<1> QED BY <1>2, <1>3

LEMMA RemainderShift ==
  ASSUME NEW y \in Nat, NEW z \in Nat, NEW q \in Int, z = q * Modulus + y
  PROVE  y % Modulus = z % Modulus
<1> DEFINE d == y \div Modulus
           e == z \div Modulus
           s == y % Modulus
           t == z % Modulus
<1>1. /\ d \in Nat /\ s \in 0..(Modulus - 1) /\ y = d * Modulus + s
      /\ e \in Nat /\ t \in 0..(Modulus - 1) /\ z = e * Modulus + t
  BY ModulusAssumption, Quotient
<1> HIDE DEF d, e, s, t
<1>2. Modulus \in Nat \ {0}
  BY ModulusAssumption
<1>3. (q + d) * Modulus + s = e * Modulus + t
  BY <1>1, <1>2
<1>4. q + d \in Int /\ e \in Int
  BY <1>1
<1>5. s = t
  BY <1>1, <1>2, <1>3, <1>4, RemainderUnique
<1> QED BY <1>5 DEF s, t

LEMMA RemainderAdd ==
  ASSUME NEW x \in Nat, NEW y \in Nat
  PROVE  ((x % Modulus) + y) % Modulus = (x + y) % Modulus
<1> DEFINE q == x \div Modulus
           r == x % Modulus
<1>1. q \in Nat /\ r \in Nat /\ x = q * Modulus + r
  BY ModulusAssumption, Quotient
<1> HIDE DEF q, r
<1>2. r + y \in Nat /\ x + y \in Nat /\ q \in Int /\ x + y = q * Modulus + (r + y)
  BY <1>1, ModulusAssumption
<1>3. (r + y) % Modulus = (x + y) % Modulus
  BY <1>2, RemainderShift
<1> QED BY <1>3 DEF r

(* What is left of b after purchases for x that it covers.                 *)
LEMMA RemainderLeft ==
  ASSUME NEW b \in Nat, NEW x \in Nat, x <= b
  PROVE  (b - (x % Modulus)) % Modulus <= b - x
<1> DEFINE q == x \div Modulus
           r == x % Modulus
<1>1. q \in Nat /\ r \in Nat /\ r <= x /\ x = q * Modulus + r
  BY ModulusAssumption, Quotient, RemainderLess
<1> HIDE DEF q, r
<1>2. b - r \in Nat /\ b - x \in Nat /\ q \in Int /\ b - r = q * Modulus + (b - x)
  BY <1>1, ModulusAssumption
<1>3. (b - x) % Modulus = (b - r) % Modulus
  BY <1>2, RemainderShift
<1>4. (b - x) % Modulus <= b - x
  BY <1>2, RemainderLess
<1> QED BY <1>3, <1>4 DEF r

LEMMA RemainderZero == 0 % Modulus = 0
<1>1. 0 % Modulus \in Nat /\ 0 % Modulus <= 0
  BY RemainderLess
<1> QED BY <1>1

(* What a copy has is still right after a step that does not change what   *)
(* it should have.                                                         *)
RightThen(u, info, s, c) ==
  /\ info.amount_spent = s % Modulus /\ info.service_fee_total = c % Modulus
  /\ aligned' /\ funds'[moneyDB'[u].addr_index].paid = 0 => s <= info.balance

LEMMA RightKeeps ==
  ASSUME Base, Alignment, [Next]_vars, NEW u \in Users, Registered(u),
         NEW info, NEW s, NEW c, Right(u, info, s, c)
  PROVE  RightThen(u, info, s, c)
BY UnpaidBefore DEF Right, RightThen

RecordRight(u) == RightThen(u, moneyDB'[u], spent'[u], charged'[u])
CopyRight(u, e) ==
  e \in current'[u] /\ editor'[e].pc \in {"write", "flush"} /\ Job(e)'.user = u =>
    RightThen(u, editor'[e].info, spent'[u] + Buying(e)', charged'[u] + Fee(e)')
BatchRight(u) ==
  "updater" \in current'[u] =>
    /\ updater'.batch[u] # NoInfo => RightThen(u, updater'.batch[u], spent'[u], charged'[u])
    /\ Reading(u)' => RightThen(u, updater'.info, spent'[u], charged'[u])
AllRight(u) == RecordRight(u) /\ BatchRight(u) /\ \A e \in Editors : CopyRight(u, e)

LEMMA AllRightThen ==
  ASSUME NEW u \in Users, Registered(u)' /\ ~ overlapped'[u] => AllRight(u)
  PROVE  RightAt(u)'
BY DEF RightAt, Right, RightThen, AllRight, RecordRight, CopyRight, BatchRight, Job

(* The invariant of a user whose record has no overlap, in parts.          *)
LEMMA RightParts ==
  ASSUME UpToDate, NEW u \in Users, Registered(u), ~ overlapped[u]
  PROVE  /\ Right(u, moneyDB[u], spent[u], charged[u])
         /\ \A e \in Editors :
              e \in current[u] /\ editor[e].pc \in {"write", "flush"} /\ Job(e).user = u =>
                Right(u, editor[e].info, spent[u] + Buying(e), charged[u] + Fee(e))
         /\ "updater" \in current[u] /\ updater.batch[u] # NoInfo =>
              Right(u, updater.batch[u], spent[u], charged[u])
         /\ "updater" \in current[u] /\ Reading(u) =>
              Right(u, updater.info, spent[u], charged[u])
BY DEF UpToDate, RightAt

LEMMA RightSame ==
  ASSUME Base, Alignment, UpToDate, [Next]_vars, NEW u \in Users, Registered(u),
         ~ overlapped[u], moneyDB'[u] = moneyDB[u],
         spent'[u] = spent[u], charged'[u] = charged[u]
  PROVE  /\ RecordRight(u)
         /\ \A e \in Editors :
              editor'[e] = editor[e] /\ (e \in current'[u] => e \in current[u])
                => CopyRight(u, e)
         /\ UNCHANGED updater /\ ("updater" \in current'[u] => "updater" \in current[u])
              => BatchRight(u)
<1>1. RecordRight(u)
  BY RightParts, RightKeeps DEF RecordRight
<1>2. ASSUME NEW e \in Editors, editor'[e] = editor[e], e \in current'[u] => e \in current[u]
      PROVE  CopyRight(u, e)
  <2>1. Buying(e)' = Buying(e) /\ Fee(e)' = Fee(e) /\ Job(e)' = Job(e)
    BY <1>2 DEF Buying, Fee, At, Job
  <2> SUFFICES ASSUME e \in current[u], editor[e].pc \in {"write", "flush"}, Job(e).user = u
               PROVE  RightThen(u, editor[e].info, spent[u] + Buying(e), charged[u] + Fee(e))
    BY <1>2, <2>1 DEF CopyRight
  <2>2. Right(u, editor[e].info, spent[u] + Buying(e), charged[u] + Fee(e))
    BY RightParts
  <2> QED BY <2>2, RightKeeps
<1>3. ASSUME UNCHANGED updater, "updater" \in current'[u] => "updater" \in current[u]
      PROVE  BatchRight(u)
  BY <1>3, RightParts, RightKeeps DEF BatchRight, Reading
<1> QED BY <1>1, <1>2, <1>3

LEMMA RefreshedRight ==
  ASSUME Base, Alignment, Wallet, Showing, NEW u \in Users,
         NEW info \in FinancialInfos, Held(u, info), NEW s \in Nat, NEW c, Right(u, info, s, c)
  PROVE  Right(u, Refreshed(info), s, c)
<1> DEFINE new == Refreshed(info)
<1>1. /\ new \in FinancialInfos /\ new.amount_spent = info.amount_spent
      /\ new.service_fee_total = info.service_fee_total
  BY RefreshedInfo DEF Base
<1>2. ASSUME aligned, funds[moneyDB[u].addr_index].paid = 0
      PROVE  s <= new.balance
  <2>1. info.addr_index = moneyDB[u].addr_index
    BY <1>2 DEF Alignment
  <2>2. info.balance <= new.balance
    BY <1>2, <2>1, RefreshedShown
  <2>3. s <= info.balance
    BY <1>2 DEF Right
  <2>4. info.balance \in Nat /\ new.balance \in Nat
    BY <1>1, InfoFields
  <2> HIDE DEF new
  <2> QED BY <2>2, <2>3, <2>4
<1> QED BY <1>1, <1>2 DEF Right

LEMMA UpdateRight ==
  ASSUME Base, Alignment, Wallet, Showing, UpToDate, [Next]_vars, Updates,
         NEW u \in Users, Registered(u), ~ overlapped'[u]
  PROVE  AllRight(u)
<1>1. /\ spent'[u] = spent[u] /\ charged'[u] = charged[u] /\ spent[u] \in Nat
      /\ \A e \in Editors : editor'[e] = editor[e]
      /\ moneyDB \in [Users -> Infos]
      /\ current \in [Users -> SUBSET (Editors \cup {"updater"})]
  BY DEF Updates, Base, TypeOK
<1>2. ~ overlapped[u]
  <2>1. CASE UNCHANGED overlapped
    BY <2>1
  <2>2. CASE UpdaterWrites
    BY <2>2 DEF UpdaterWrites
  <2> QED BY <2>1, <2>2 DEF Updates, UpdaterBegins, UpdaterAsks, UpdaterAsksFull, UpdaterSkips,
                            UpdaterCopies, UpdaterComputes, SameRecords
<1>3. CASE SameRecords
  <2>1. RecordRight(u) /\ \A e \in Editors : CopyRight(u, e)
    BY <1>1, <1>2, <1>3, RightSame DEF SameRecords
  <2>2. CASE UpdaterBegins \/ UpdaterWrites
    <3>1. updater'.batch[u] = NoInfo /\ updater'.pc # "lock"
      BY <2>2 DEF UpdaterBegins, UpdaterWrites, UpdaterBecomes, NoBatch
    <3> QED BY <2>1, <3>1 DEF AllRight, BatchRight, Reading
  <2>3. CASE UpdaterAsks \/ UpdaterAsksFull \/ UpdaterSkips
    <3>1. updater'.batch = updater.batch /\ updater'.pc # "lock"
      BY <2>3 DEF UpdaterAsks, UpdaterAsksFull, UpdaterSkips, Keeps, UpdaterBecomes
    <3>2. BatchRight(u)
      BY <1>1, <1>2, <1>3, <3>1, RightParts, RightKeeps DEF BatchRight, Reading, SameRecords
    <3> QED BY <2>1, <3>2 DEF AllRight
  <2>4. CASE UpdaterComputes
    <3> DEFINE info == updater.info
               new == Refreshed(info)
    <3>1. /\ updater.pc = "lock" /\ info \in FinancialInfos /\ updater'.pc # "lock"
          /\ updater'.batch = [updater.batch EXCEPT ![KeyOrder[updater.key]] = new]
      BY <2>4 DEF UpdaterComputes, Keeps, UpdaterBecomes
    <3>2. updater'.batch[u] = IF u = KeyOrder[updater.key] THEN new ELSE updater.batch[u]
      BY <3>1, TypedParts DEF Base
    <3>3. ASSUME "updater" \in current[u], u = KeyOrder[updater.key]
          PROVE  RightThen(u, new, spent[u], charged[u])
      <4>1. Reading(u) /\ Held(u, info)
        BY <3>1, <3>3, InfoFields DEF Reading, Held
      <4>2. Right(u, info, spent[u], charged[u])
        BY <1>2, <3>3, <4>1, RightParts
      <4>3. Right(u, new, spent[u], charged[u])
        BY <1>1, <3>1, <4>1, <4>2, RefreshedRight
      <4> HIDE DEF new
      <4> QED BY <4>3, RightKeeps
    <3> HIDE DEF new
    <3>4. ASSUME "updater" \in current[u], u # KeyOrder[updater.key], updater.batch[u] # NoInfo
          PROVE  RightThen(u, updater.batch[u], spent[u], charged[u])
      BY <1>2, <3>4, RightParts, RightKeeps
    <3>5. BatchRight(u)
      BY <1>1, <1>3, <3>1, <3>2, <3>3, <3>4 DEF BatchRight, Reading, SameRecords
    <3> QED BY <2>1, <3>5 DEF AllRight
  <2>5. CASE UpdaterCopies
    <3>1. current' = current
      BY <1>3 DEF SameRecords
    <3>2. /\ updater'.batch = updater.batch /\ updater'.key = updater.key
          /\ updater'.info = moneyDB[KeyOrder[updater.key]]
      BY <2>5 DEF UpdaterCopies, Keeps, UpdaterBecomes
    <3>3. BatchRight(u)
      BY <1>1, <1>2, <3>1, <3>2, RightParts, RightKeeps DEF BatchRight, Reading
    <3> QED BY <2>1, <3>3 DEF AllRight
  <2> QED BY <2>2, <2>3, <2>4, <2>5 DEF Updates
<1>4. CASE UpdaterCopies
  <2> DEFINE v == KeyOrder[updater.key]
  <2>1. /\ moneyDB' = moneyDB /\ current' = [current EXCEPT ![v] = current[v] \cup {"updater"}]
        /\ updater'.batch = updater.batch /\ updater'.key = updater.key
        /\ updater'.info = moneyDB[v] /\ updater.key <= Len(KeyOrder)
    BY <1>4 DEF UpdaterCopies, Keeps, UpdaterBecomes, Copies
  <2>2. \A e \in Editors : e \in current'[u] => e \in current[u]
    BY <1>1, <2>1, AccountsAssumption
  <2>3. RecordRight(u) /\ \A e \in Editors : CopyRight(u, e)
    BY <1>1, <1>2, <2>1, <2>2, RightSame
  <2>4. CASE u = v
    <3>1. updater.batch[u] = NoInfo
      <4>1. updater.key \in updater.key..Len(KeyOrder)
        BY <2>1, TypedParts, KeyOrderFacts DEF Base
      <4> QED BY <2>4, <4>1 DEF Base, Round
    <3>2. Right(u, moneyDB[u], spent[u], charged[u])
      BY <1>2, RightParts
    <3>3. BatchRight(u)
      BY <1>1, <2>1, <2>4, <3>1, <3>2, RightKeeps DEF BatchRight
    <3> QED BY <2>3, <3>3 DEF AllRight
  <2>5. CASE u # v
    <3>1. current'[u] = current[u] /\ ~ Reading(u)'
      BY <1>1, <2>1, <2>5 DEF Reading
    <3>2. BatchRight(u)
      BY <1>1, <1>2, <2>1, <3>1, RightParts, RightKeeps DEF BatchRight
    <3> QED BY <2>3, <3>2 DEF AllRight
  <2> QED BY <2>4, <2>5
<1>5. CASE UpdaterWrites
  <2>1. /\ moneyDB'[u] = IF u \in Written THEN updater.batch[u] ELSE moneyDB[u]
        /\ current'[u] = IF u \in Written THEN {} ELSE current[u]
        /\ u \in Written => "updater" \in current[u]
        /\ updater'.batch[u] = NoInfo /\ updater'.pc # "lock"
    BY <1>5 DEF UpdaterWrites, UpdaterBecomes, NoBatch
  <2>2. BatchRight(u)
    BY <2>1 DEF BatchRight, Reading
  <2>3. CASE u \in Written
    <3>1. Right(u, updater.batch[u], spent[u], charged[u])
      BY <1>2, <2>1, <2>3, RightParts DEF Written
    <3>2. RecordRight(u)
      BY <1>1, <2>1, <2>3, <3>1, RightKeeps DEF RecordRight
    <3>3. \A e \in Editors : CopyRight(u, e)
      BY <2>1, <2>3 DEF CopyRight
    <3> QED BY <2>2, <3>2, <3>3 DEF AllRight
  <2>4. CASE u \notin Written
    BY <1>1, <1>2, <2>1, <2>2, <2>4, RightSame DEF AllRight
  <2> QED BY <2>3, <2>4
<1> QED BY <1>3, <1>4, <1>5 DEF Updates, UpdaterBegins, UpdaterAsks, UpdaterAsksFull,
                                UpdaterSkips, UpdaterComputes

(* A purchase that the record allows is covered by the subaddress.         *)
LEMMA SpendCovered ==
  ASSUME Base, Alignment, Showing, Charging, aligned, NEW u \in Users, Registered(u),
         funds[moneyDB[u].addr_index].paid = 0, NEW s \in Nat,
         Right(u, moneyDB[u], s, charged[u]), NEW amt \in Nat, CanSpend(moneyDB[u], amt)
  PROVE  s + amt <= moneyDB[u].balance
<1> DEFINE info == moneyDB[u]
           b == info.balance
<1>1. info \in FinancialInfos /\ Held(u, info) /\ b \in Nat
  BY InfoFields, TypedParts DEF Registered, Base, Infos, Held
<1>2. info.out_fees = 0
  BY <1>1 DEF Showing, Shown
<1>3. info.service_fee_total = 0
  BY RemainderZero DEF Charging, Right
<1>4. s <= b /\ info.amount_spent = s % Modulus
  BY DEF Right
<1>5. GetBalance(info) = (b - (s % Modulus)) % Modulus
  <2>1. Larger(info.service_fee_total, info.out_fees) = 0
    BY <1>2, <1>3 DEF Larger
  <2>2. b - 0 - (s % Modulus) = b - (s % Modulus)
    BY <1>1, RemainderLess
  <2> QED BY <1>4, <2>1, <2>2 DEF GetBalance
<1>6. (b - (s % Modulus)) % Modulus <= b - s
  BY <1>1, <1>4, RemainderLeft
<1>7. (b - (s % Modulus)) % Modulus \in Nat
  <2>1. b - (s % Modulus) \in Int
    BY <1>1, RemainderLess
  <2> QED BY <2>1, NatMod
<1>8. (b - (s % Modulus)) % Modulus >= amt
  BY <1>5 DEF CanSpend
<1> DEFINE g == (b - (s % Modulus)) % Modulus
<1> HIDE DEF g, b
<1>9. g \in Nat /\ g <= b - s /\ g >= amt /\ b \in Nat
  BY <1>1, <1>6, <1>7, <1>8 DEF g
<1>10. s + amt <= b
  BY <1>4, <1>9
<1> QED BY <1>10 DEF b

LEMMA TakenRight ==
  ASSUME Base, Alignment, Showing, Charging, [Next]_vars, NEW u \in Users, Registered(u),
         NEW s \in Nat, NEW e \in Editors, NEW j \in Jobs, NEW new \in FinancialInfos,
         Right(u, moneyDB[u], s, charged[u]), Taken(e, j, new), j.user = u
  PROVE  RightThen(u, new, s + (IF j.kind = "spend" THEN j.amt ELSE 0),
                   charged[u] + (IF j.kind = "credit" THEN FeeOf(j) ELSE 0))
<1> DEFINE old == moneyDB[u]
           c == charged[u]
           bought == IF j.kind = "spend" THEN j.amt ELSE 0
           fee == IF j.kind = "credit" THEN FeeOf(j) ELSE 0
<1>1. j.amt \in Nat /\ FeeOf(j) \in Nat /\ c \in Nat
  BY JobFields DEF Base, TypeOK
<1>2. old.amount_spent = s % Modulus /\ old.service_fee_total = c % Modulus
  BY DEF Right
<1>3. new.amount_spent = (s + bought) % Modulus
  <2>1. CASE j.kind = "spend"
    <3>1. ((s % Modulus) + j.amt) % Modulus = (s + j.amt) % Modulus
      BY <1>1, RemainderAdd
    <3> QED BY <1>2, <2>1, <3>1 DEF Taken
  <2>2. CASE j.kind # "spend"
    <3>1. s + 0 = s
      OBVIOUS
    <3> QED BY <1>2, <2>2, <3>1 DEF Taken
  <2> QED BY <2>1, <2>2
<1>4. new.service_fee_total = (c + fee) % Modulus
  <2>1. CASE j.kind = "credit"
    <3>1. ((c % Modulus) + FeeOf(j)) % Modulus = (c + FeeOf(j)) % Modulus
      BY <1>1, RemainderAdd
    <3> QED BY <1>2, <2>1, <3>1 DEF Taken
  <2>2. CASE j.kind # "credit"
    <3>1. c + 0 = c
      BY <1>1
    <3> QED BY <1>2, <2>2, <3>1 DEF Taken
  <2> QED BY <2>1, <2>2
<1>5. ASSUME aligned', funds'[moneyDB'[u].addr_index].paid = 0
      PROVE  s + bought <= new.balance
  <2>1. aligned /\ funds[moneyDB[u].addr_index].paid = 0 /\ new.balance = old.balance
    BY <1>5, UnpaidBefore DEF Taken, SameFunds
  <2>2. CASE j.kind = "spend"
    <3>1. CanSpend(old, j.amt)
      BY <2>2 DEF Taken
    <3>2. s + j.amt <= old.balance
      BY <1>1, <2>1, <3>1, SpendCovered
    <3> QED BY <2>1, <2>2, <3>2
  <2>3. CASE j.kind # "spend"
    <3>1. s <= old.balance /\ s + 0 = s
      BY <2>1 DEF Right
    <3> QED BY <2>1, <2>3, <3>1
  <2> QED BY <2>2, <2>3
<1> QED BY <1>3, <1>4, <1>5 DEF RightThen

LEMMA EditRight ==
  ASSUME Base, Alignment, Showing, Charging, UpToDate, [Next]_vars, NEW e \in Editors, Edit(e),
         NEW u \in Users, Registered(u), ~ overlapped'[u]
  PROVE  AllRight(u)
<1>1. /\ spent \in [Users -> Nat] /\ charged \in [Users -> Nat]
      /\ current \in [Users -> SUBSET (Editors \cup {"updater"})]
      /\ moneyDB \in [Users -> Infos] /\ overlapped \in [Users -> BOOLEAN]
      /\ UNCHANGED updater /\ "updater" # e
  BY AccountsAssumption DEF Base, TypeOK, Edit
<1>2. CASE EditorReads(e)
  <2>1. PICK j \in Jobs, new \in FinancialInfos :
          Taken(e, j, new) /\ Becomes(e, "write", j, new) /\ Copies(e, j.user)
    BY <1>2 DEF EditorReads
  <2>2. /\ UNCHANGED <<moneyDB, overlapped, spent, charged>>
        /\ current' = [current EXCEPT ![j.user] = current[j.user] \cup {e}]
        /\ \A f \in Editors \ {e} : editor'[f] = editor[f]
        /\ editor'[e].pc = "write" /\ Job(e)' = j /\ editor'[e].info = new
    BY <1>2, <2>1 DEF EditorReads, Copies, Becomes, Job
  <2>3. \A t : t \in current'[u] => t \in current[u] \/ t = e
    BY <1>1, <2>2, JobFields
  <2>4. /\ RecordRight(u) /\ BatchRight(u)
        /\ \A f \in Editors \ {e} : CopyRight(u, f)
    BY <1>1, <2>2, <2>3, RightSame
  <2>5. CopyRight(u, e)
    <3> SUFFICES ASSUME j.user = u PROVE CopyRight(u, e)
      BY <2>2 DEF CopyRight
    <3>1. Right(u, moneyDB[u], spent[u], charged[u]) /\ spent[u] \in Nat
      BY <1>1, <2>2, RightParts
    <3>2. RightThen(u, new, spent[u] + (IF j.kind = "spend" THEN j.amt ELSE 0),
                    charged[u] + (IF j.kind = "credit" THEN FeeOf(j) ELSE 0))
      BY <2>1, <3>1, TakenRight
    <3>3. /\ Buying(e)' = IF j.kind = "spend" THEN j.amt ELSE 0
          /\ Fee(e)' = IF j.kind = "credit" THEN FeeOf(j) ELSE 0
      BY <2>2 DEF Buying, Fee, At, Job, FeeOf
    <3> QED BY <2>2, <3>2, <3>3 DEF CopyRight
  <2> QED BY <2>4, <2>5 DEF AllRight
<1>3. CASE EditorWrites(e)
  <2> DEFINE v == Job(e).user
             info == editor[e].info
             b == Buying(e)
             c == Fee(e)
  <2>1. /\ moneyDB' = [moneyDB EXCEPT ![v] = info]
        /\ overlapped' = [overlapped EXCEPT ![v] = overlapped[v] \/ e \notin current[v]]
        /\ current' = [current EXCEPT ![v] = current[v] \cap {e}]
        /\ spent' = [spent EXCEPT ![v] = spent[v] + b]
        /\ charged' = [charged EXCEPT ![v] = charged[v] + c]
        /\ editor[e].pc \in {"write", "flush"} /\ Job(e)' = Job(e)
        /\ editor'[e].pc = "done" \/ (editor'[e].pc = "flush" /\ editor'[e].info = info)
        /\ \A f \in Editors \ {e} : editor'[f] = editor[f]
    BY <1>3 DEF EditorWrites, Insert, Becomes, Job
  <2>2. v \in Users /\ b \in Nat /\ c \in Nat
    <3>1. Job(e) \in Jobs
      BY <2>1 DEF Base, Registrations, Busy
    <3> QED BY <3>1, JobFields DEF Buying, Fee
  <2> HIDE DEF b, c
  <2>3. CASE u # v
    <3>1. /\ moneyDB'[u] = moneyDB[u] /\ spent'[u] = spent[u] /\ charged'[u] = charged[u]
          /\ current'[u] = current[u] /\ ~ overlapped[u]
      BY <1>1, <2>1, <2>3
    <3>2. RecordRight(u) /\ BatchRight(u) /\ \A f \in Editors \ {e} : CopyRight(u, f)
      BY <1>1, <2>1, <3>1, RightSame
    <3>3. CopyRight(u, e)
      BY <2>1, <2>3 DEF CopyRight
    <3> QED BY <3>2, <3>3 DEF AllRight
  <2>4. CASE u = v
    <3>1. /\ moneyDB'[u] = info /\ spent'[u] = spent[u] + b /\ charged'[u] = charged[u] + c
          /\ e \in current[u] /\ current'[u] \subseteq {e} /\ ~ overlapped[u]
      BY <1>1, <2>1, <2>2, <2>4
    <3>2. Right(u, info, spent[u] + b, charged[u] + c)
      BY <2>1, <2>4, <3>1, RightParts DEF b, c
    <3>3. RightThen(u, info, spent'[u], charged'[u])
      BY <3>1, <3>2, RightKeeps
    <3>4. RecordRight(u)
      BY <3>1, <3>3 DEF RecordRight
    <3>5. BatchRight(u)
      BY <1>1, <3>1 DEF BatchRight
    <3>6. CopyRight(u, e)
      <4> SUFFICES ASSUME editor'[e].pc \in {"write", "flush"}
                   PROVE  RightThen(u, editor'[e].info, spent'[u] + Buying(e)',
                                    charged'[u] + Fee(e)')
        BY DEF CopyRight
      <4>1. editor'[e].info = info /\ Buying(e)' = 0 /\ Fee(e)' = 0
        BY <2>1 DEF Buying, Fee, At
      <4>2. spent'[u] + 0 = spent'[u] /\ charged'[u] + 0 = charged'[u]
        BY <1>1, <2>2, <3>1
      <4> QED BY <3>3, <4>1, <4>2
    <3>7. \A f \in Editors \ {e} : CopyRight(u, f)
      BY <3>1 DEF CopyRight
    <3> QED BY <3>4, <3>5, <3>6, <3>7 DEF AllRight
  <2> QED BY <2>3, <2>4
<1>4. CASE EditorStarts(e) \/ EditorPays(e)
  <2>1. /\ UNCHANGED <<moneyDB, current, overlapped, spent, charged>>
        /\ editor'[e].pc \notin {"write", "flush"}
        /\ \A f \in Editors \ {e} : editor'[f] = editor[f]
    BY <1>4 DEF EditorStarts, EditorPays, Becomes
  <2>2. RecordRight(u) /\ BatchRight(u) /\ \A f \in Editors \ {e} : CopyRight(u, f)
    BY <1>1, <2>1, RightSame
  <2>3. CopyRight(u, e)
    BY <2>1 DEF CopyRight
  <2> QED BY <2>2, <2>3 DEF AllRight
<1> QED BY <1>2, <1>3, <1>4 DEF Edit

LEMMA UpToDateStep ==
  ASSUME Base, Alignment, Wallet, Showing, Charging, UpToDate, [Next]_vars
  PROVE  UpToDate'
<1> SUFFICES ASSUME NEW u \in Users, Registered(u)', ~ overlapped'[u] PROVE AllRight(u)
  BY AllRightThen DEF UpToDate
<1>1. CASE ~ Registered(u)
  <2>1. /\ Registers /\ fresh[u] \in Indices
        /\ moneyDB'[u] = NewFinancialInfo(fresh[u], fresh[u])
    BY <1>1, RecordsStay
  <2>2. spent[u] = 0 /\ charged[u] = 0 /\ current[u] = {}
    BY <1>1 DEF Base, Registrations
  <2>3. spent'[u] = 0 /\ charged'[u] = 0 /\ current'[u] = {}
    BY <2>1, <2>2 DEF Registers
  <2>4. /\ moneyDB'[u].amount_spent = 0 /\ moneyDB'[u].service_fee_total = 0
        /\ moneyDB'[u].balance = 0
    BY <2>1, NewInfo
  <2>5. RecordRight(u)
    BY <2>3, <2>4, RemainderZero DEF RecordRight, RightThen
  <2> QED BY <2>3, <2>5 DEF AllRight, BatchRight, CopyRight
<1>2. CASE Registered(u)
  <2>1. CASE Mints \/ Registers \/ Receives \/ Refreshes \/ UNCHANGED vars
    <3>1. moneyDB'[u] = moneyDB[u]
      <4>1. CASE Registers
        <5>1. PICK v \in Users :
                ~ Registered(v)
                /\ moneyDB' = [moneyDB EXCEPT ![v] = NewFinancialInfo(fresh[v], fresh[v])]
          BY <4>1 DEF Registers
        <5> QED BY <1>2, <5>1 DEF Base, TypeOK
      <4> QED BY <2>1, <4>1 DEF Mints, Receives, Refreshes, vars
    <3>2. UNCHANGED <<updater, editor, current, overlapped, spent, charged>>
      BY <2>1 DEF Mints, Registers, Receives, Refreshes, vars, history
    <3> QED BY <1>2, <3>1, <3>2, RightSame DEF AllRight
  <2>2. CASE Updates
    BY <1>2, <2>2, UpdateRight
  <2>3. ASSUME NEW e \in Editors, Edit(e) PROVE AllRight(u)
    BY <1>2, <2>3, EditRight
  <2> QED BY <2>1, <2>2, <2>3, Steps DEF Base
<1> QED BY <1>1, <1>2

-----------------------------------------------------------------------------
(* The invariant.                                                          *)

LEMMA AccountsInit == Init => AccountsInv
<1> SUFFICES ASSUME Init PROVE AccountsInv
  OBVIOUS
<1>1. /\ \A u \in Users : moneyDB[u] = NoInfo /\ fresh[u] = 0 /\ current[u] = {}
                          /\ spent[u] = 0 /\ charged[u] = 0 /\ updater.batch[u] = NoInfo
      /\ updater.pc = "sleep" /\ updater.balances = Unanswered /\ updater.fulls = Unanswered
      /\ \A e \in Editors : editor[e].pc = "start"
      /\ allTransfers = <<>> /\ refresher = [pc |-> "sleep", indices |-> <<>>]
  BY AsleepFields DEF Init, NoBatch
<1>2. \A i \in Indices : funds[i] = [ unlocked |-> 0, locked |-> 0, paid |-> 0,
                                      out_fees |-> 0, received |-> 0, deposits |-> 0 ]
  BY DEF Init
<1>3. \A i \in Indices : Unanswered[i] = NoAnswer
  BY DEF Unanswered
<1>4. TypeOK
  <2>1. moneyDB \in [Users -> Infos] /\ current \in [Users -> SUBSET (Editors \cup {"updater"})]
        /\ overlapped \in [Users -> BOOLEAN] /\ aligned \in BOOLEAN
        /\ spent \in [Users -> Nat] /\ charged \in [Users -> Nat]
    BY DEF Init, Infos
  <2>2. minted \in 0..MaxMinted /\ fresh \in [Users -> 0..MaxMinted]
    BY AccountsAssumption DEF Init
  <2>3. funds \in [Indices -> Funds]
    BY DEF Init, Funds
  <2>4. allTransfers \in Seq(Transfers) /\ lockQueue \in Seq({"reader", "writer"})
    BY EmptySeq DEF Init
  <2>5. refresher \in Refreshers
    <3>1. <<>> \in Seq(Indices)
      BY EmptySeq
    <3> QED BY <1>1, <3>1 DEF Refreshers
  <2>6. updater \in Updaters
    BY AsleepTyped DEF Init
  <2>7. editor \in [Editors -> Edits]
    BY DEF Init, Edits, Infos
  <2> QED BY <2>1, <2>2, <2>3, <2>4, <2>5, <2>6, <2>7 DEF TypeOK
<1>5. Registrations
  BY <1>1 DEF Registrations, Registered, Busy, Holds
<1>6. Round
  <2>1. updater.key = 1
    BY AsleepFields DEF Init
  <2> QED BY <1>1, <2>1, KeyOrderFacts DEF Round
<1>7. Locking
  BY <1>1 DEF Locking
<1>8. \A u \in Users : \A info : ~ Held(u, info)
  BY <1>1 DEF Held, Reading, Holds
<1>9. Alignment
  <2>1. Places(moneyDB) = {}
    BY <1>1, KeyOrderFacts DEF Places
  <2>2. Cardinality(Places(moneyDB)) = 0
    BY <2>1, FS_EmptySet
  <2>3. DOMAIN IndicesIn(moneyDB) = 1..0
    BY <2>2 DEF IndicesIn
  <2>4. IsAligned(moneyDB)
    BY <2>3 DEF IsAligned
  <2>5. DOMAIN refresher.indices = {} /\ DOMAIN allTransfers = {}
    <3>1. DOMAIN <<>> = {}
      BY EmptySeq
    <3> QED BY <1>1, <3>1
  <2> QED BY <1>8, <2>4, <2>5 DEF Alignment
<1>10. Wallet
  BY <1>1, <1>2, <1>3 DEF Wallet
<1>11. Showing
  <2>1. DOMAIN allTransfers = {}
    BY <1>1, EmptySeq
  <2> QED BY <1>8, <2>1 DEF Showing
<1>12. Charging /\ UpToDate
  BY <1>1 DEF Charging, UpToDate, RightAt, Registered
<1> QED BY <1>4, <1>5, <1>6, <1>7, <1>9, <1>10, <1>11, <1>12 DEF AccountsInv

LEMMA LockingStep ==
  ASSUME Base, [Next]_vars
  PROVE  Locking'
<1>1. CASE UNCHANGED <<refresher, lockQueue>>
  BY <1>1 DEF Base, Locking
<1> QED BY <1>1, Steps DEF Base, Mints, Registers, Receives, Refreshes, Updates, Edit, vars

LEMMA AccountsStep == AccountsInv /\ [Next]_vars => AccountsInv'
<1> SUFFICES ASSUME AccountsInv, [Next]_vars PROVE AccountsInv'
  OBVIOUS
<1>1. Base /\ Alignment /\ Wallet /\ Showing /\ Charging /\ UpToDate
  BY DEF AccountsInv, Base
<1>2. TypeOK' /\ Registrations' /\ Round' /\ Locking'
  BY <1>1, TypeStep, RegistrationsStep, RoundStep, LockingStep DEF Base
<1>3. Alignment' /\ Wallet' /\ Showing'
  BY <1>1, AlignmentStep, WalletStep, ShowingStep
<1>4. Charging' /\ UpToDate'
  BY <1>1, ChargingStep, UpToDateStep
<1> QED BY <1>2, <1>3, <1>4 DEF AccountsInv

(* The records, their copies, the wallet and its answers always relate as  *)
(* AccountsInv says: the invariant that the properties below follow from.  *)
THEOREM AccountsInductive == Spec => []AccountsInv
BY AccountsInit, AccountsStep, PTL DEF Spec

(* Every variable keeps its type: no index outside those the wallet may    *)
(* hand out, and no negative balance, gets into a record, a slot or a      *)
(* batch, and Tail is never taken of an empty lock queue.                  *)
THEOREM AccountsTypeCorrect == Spec => []TypeOK
<1>1. AccountsInv => TypeOK
  BY DEF AccountsInv
<1> QED BY <1>1, AccountsInductive, PTL

(* A record of which no two copies overlapped has every purchase and every *)
(* service fee, whatever update_acc_balances and the second insert of the  *)
(* sending task write.                                                     *)
THEOREM RecordsKept == Spec => []KeptUnlessOverlap
<1>1. AccountsInv => KeptUnlessOverlap
  BY DEF AccountsInv, KeptUnlessOverlap, UpToDate, RightAt, Right, Registered
<1> QED BY <1>1, AccountsInductive, PTL

(* Users whose records always had the indices 1, 2, 3, ... in key order    *)
(* keep their own subaddress, however refreshes and registrations meet.    *)
THEOREM IndicesKept == Spec => []AlignedKeepsIndex
<1>1. AccountsInv => AlignedKeepsIndex
  <2> SUFFICES ASSUME AccountsInv, aligned, NEW u \in Users, moneyDB[u] # NoInfo
               PROVE  OwnIndex(moneyDB[u])
    BY DEF AlignedKeepsIndex
  <2>1. moneyDB[u] \in FinancialInfos /\ Held(u, moneyDB[u])
    BY TypedParts DEF AccountsInv, Infos, Held
  <2> QED BY <2>1 DEF AccountsInv, Alignment
<1> QED BY <1>1, AccountsInductive, PTL

(* The record of a subaddress that has paid nothing shows no balance the   *)
(* subaddress does not hold, and its pending balance, computed from two    *)
(* answers of the wallet at different times, did not wrap.                 *)
THEOREM RecordsCredible == Spec => []Credible
<1>1. AccountsInv => Credible
  <2> SUFFICES ASSUME AccountsInv, NEW u \in Users, Quiet(u)
               PROVE  /\ moneyDB[u].balance <= funds[moneyDB[u].addr_index].unlocked
                      /\ moneyDB[u].pending_balance <= funds[moneyDB[u].addr_index].received
    BY DEF Credible
  <2>1. moneyDB[u] \in FinancialInfos /\ Held(u, moneyDB[u])
    BY TypedParts DEF AccountsInv, Infos, Held, Quiet
  <2> QED BY <2>1 DEF AccountsInv, Showing, Shown, Quiet
<1> QED BY <1>1, AccountsInductive, PTL

(* A user who withdraws nothing, and whose operations do not overlap, has  *)
(* bought for no more than the subaddress holds.                           *)
THEOREM PurchasesCovered == Spec => []CoveredUnlessOverlap
<1>1. AccountsInv => CoveredUnlessOverlap
  <2> SUFFICES ASSUME AccountsInv, NEW u \in Users, Quiet(u), ~ overlapped[u]
               PROVE  spent[u] <= funds[moneyDB[u].addr_index].unlocked
    BY DEF CoveredUnlessOverlap, Covered
  <2> DEFINE info == moneyDB[u]
             i == info.addr_index
  <2>1. info \in FinancialInfos /\ Held(u, info) /\ aligned /\ funds[i].paid = 0
    BY TypedParts DEF AccountsInv, Infos, Held, Quiet
  <2>2. spent[u] <= info.balance
    BY <2>1 DEF AccountsInv, UpToDate, RightAt, Right, Registered, Quiet
  <2>3. info.balance <= funds[i].unlocked
    BY <2>1 DEF AccountsInv, Showing, Shown
  <2>4. spent[u] \in Nat /\ info.balance \in Nat /\ funds[i].unlocked \in Nat
    BY <2>1, InfoFields DEF AccountsInv, TypeOK, Funds
  <2> HIDE DEF info, i
  <2>5. spent[u] <= funds[i].unlocked
    BY <2>2, <2>3, <2>4
  <2> QED BY <2>5 DEF i, info
<1> QED BY <1>1, AccountsInductive, PTL
=============================================================================
