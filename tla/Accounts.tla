------------------------------ MODULE Accounts ------------------------------
(***************************************************************************)
(* Everything that reads and writes money_db at the same time: the tasks   *)
(* update_transfers and update_acc_balances, which copy what the wallet    *)
(* knows into every record, the registrations that add records, and the    *)
(* handlers and the sending task that read one record and write it back.   *)
(* Each of them works on its own copy; nothing joins the read to the write.*)
(*                                                                         *)
(* RwLock all_transfers has one reader task and one writer task, so that   *)
(* it is the queue lockQueue: the holder, then the one that waits.         *)
(***************************************************************************)
EXTENDS FinancialInfo, Sequences, SequencesExt, FiniteSets

CONSTANTS
  Users,
  KeyOrder,         \* the users in the order in which sled keeps their keys
  NoInfo,           \* money_db has no record under the name
  Editors,          \* tasks that read one record and write it back, once
  Jobs,             \* what it may be: [kind, user, amt, fee, addr]
  NoJob,            \* an editor that has not begun
  Deposits,         \* amounts that may arrive at a subaddress
  NoAnswer,         \* no balance: the RPC failed or was not asked for it
  MaxMinted,        \* bound: subaddresses the wallet creates
  MaxDeposits       \* bound: deposits per subaddress

ASSUME AccountsAssumption ==
  /\ KeyOrder \in Seq(Users) /\ ToSet(KeyOrder) = Users
  /\ \A j, k \in 1..Len(KeyOrder) : KeyOrder[j] = KeyOrder[k] => j = k
  /\ NoInfo \notin FinancialInfos /\ NoAnswer \notin Nat
  /\ Jobs \subseteq [ kind: {"attach", "spend", "credit"}, user: Users,
                      amt: Nat, fee: Nat, addr: Addrs ]
  /\ Deposits \subseteq Nat
  /\ MaxMinted \in Nat /\ MaxDeposits \in Nat
  /\ 1..MaxMinted \subseteq Indices /\ Indices \subseteq Nat \ {0}
  /\ "updater" \notin Editors

VARIABLES
  moneyDB,          \* the sled tree money_db
  minted,           \* the last subaddress index the wallet created
  fresh,            \* a registration holds this index for a user, or 0
  funds,            \* the wallet: what each subaddress holds and has paid
  allTransfers,     \* the Vec under the RwLock
  lockQueue,        \* the RwLock
  refresher,        \* the loop of update_transfers
  updater,          \* the loop of update_acc_balances
  editor,           \* the read-modify-write of each editor
  current,          \* history: whose copy of a record is still up to date
  overlapped,       \* history: a write undid another write to the record
  aligned,          \* history: the records, in key order, always had the
                    \* indices 1, 2, 3, ...
  spent, charged    \* history: purchases and service fees of each user

environment == <<minted, funds>>
history == <<current, overlapped, aligned, spent, charged>>
vars == <<moneyDB, fresh, environment, allTransfers, lockQueue, refresher,
          updater, editor, history>>

Transfers == [addr_index: Indices, out_fees: Nat]
Funds == [ unlocked: Nat, locked: Nat, paid: Nat, out_fees: Nat,
           received: Nat, deposits: Nat ]
Infos == FinancialInfos \cup {NoInfo}

(* The locals of the two loops and of an editor.                           *)
Answers == [Indices -> Nat \cup {NoAnswer}]
Refreshers == [pc: {"sleep", "lock", "rpc", "error"}, indices: Seq(Indices)]
Updaters == [
  pc: {"sleep", "balance", "full", "records", "lock"}, indices: Seq(Indices),
  balances: Answers, fulls: Answers, key: 1..(Len(KeyOrder) + 1),
  info: Infos, batch: [Users -> Infos] ]
Edits == [
  pc: {"start", "pending", "paid", "write", "flush", "done"},
  job: Jobs \cup {NoJob}, info: Infos ]

TypeOK ==
  /\ moneyDB \in [Users -> Infos]
  /\ minted \in 0..MaxMinted
  /\ fresh \in [Users -> 0..MaxMinted]
  /\ funds \in [Indices -> Funds]
  /\ allTransfers \in Seq(Transfers)
  /\ lockQueue \in Seq({"reader", "writer"})
  /\ refresher \in Refreshers
  /\ updater \in Updaters
  /\ editor \in [Editors -> Edits]
  /\ current \in [Users -> SUBSET (Editors \cup {"updater"})]
  /\ overlapped \in [Users -> BOOLEAN] /\ aligned \in BOOLEAN
  /\ spent \in [Users -> Nat] /\ charged \in [Users -> Nat]

Unanswered == [i \in Indices |-> NoAnswer]
Asleep ==
  [ pc |-> "sleep", indices |-> <<>>, balances |-> Unanswered,
    fulls |-> Unanswered, key |-> 1, info |-> NoInfo,
    batch |-> [u \in Users |-> NoInfo] ]

Init ==
  /\ moneyDB = [u \in Users |-> NoInfo]
  /\ minted = 0
  /\ fresh = [u \in Users |-> 0]
  /\ funds = [i \in Indices |-> [ unlocked |-> 0, locked |-> 0, paid |-> 0,
                                  out_fees |-> 0, received |-> 0, deposits |-> 0 ]]
  /\ allTransfers = <<>>
  /\ lockQueue = <<>>
  /\ refresher = [pc |-> "sleep", indices |-> <<>>]
  /\ updater = Asleep
  /\ editor = [e \in Editors |-> [pc |-> "start", job |-> NoJob, info |-> NoInfo]]
  /\ current = [u \in Users |-> {}]
  /\ overlapped = [u \in Users |-> FALSE]
  /\ aligned = TRUE
  /\ spent = [u \in Users |-> 0]
  /\ charged = [u \in Users |-> 0]

-----------------------------------------------------------------------------
(* money_db.                                                               *)

(* values(): the subaddress indices of the records, in key order.          *)
Places(db) == {k \in 1..Len(KeyOrder) : db[KeyOrder[k]] # NoInfo}
Nth(places, n) == CHOOSE k \in places : Cardinality(places \cap (1..k)) = n
IndicesIn(db) ==
  [n \in 1..Cardinality(Places(db)) |->
     db[KeyOrder[Nth(Places(db), n)]].addr_index]

IsAligned(db) == \A k \in DOMAIN IndicesIn(db) : IndicesIn(db)[k] = k

(* Task t takes a copy of the record of u.                                 *)
Copies(t, u) == current' = [current EXCEPT ![u] = @ \cup {t}]

(* Task t writes the record of u from the copy it took: every other copy   *)
(* is out of date, and if its own was, a write is undone.                  *)
Insert(t, u, info) ==
  /\ moneyDB' = [moneyDB EXCEPT ![u] = info]
  /\ overlapped' = [overlapped EXCEPT ![u] = @ \/ t \notin current[u]]
  /\ current' = [current EXCEPT ![u] = @ \cap {t}]

-----------------------------------------------------------------------------
(* register: create_address, then the insert of a new record.              *)

CreateAddress(u) ==
  /\ moneyDB[u] = NoInfo /\ fresh[u] = 0
  /\ minted < MaxMinted
  /\ minted' = minted + 1
  /\ fresh' = [fresh EXCEPT ![u] = minted + 1]
  /\ UNCHANGED <<moneyDB, funds, allTransfers, lockQueue, refresher, updater,
                 editor, history>>

(* The wallet creates the address and the answer is lost: register denies. *)
CreateAddressLost ==
  /\ minted < MaxMinted
  /\ minted' = minted + 1
  /\ UNCHANGED <<moneyDB, fresh, funds, allTransfers, lockQueue, refresher,
                 updater, editor, history>>

Register(u) ==
  /\ fresh[u] # 0
  /\ moneyDB' = [moneyDB EXCEPT ![u] = NewFinancialInfo(fresh[u], fresh[u])]
  /\ aligned' = (aligned /\ IsAligned(moneyDB'))
  /\ fresh' = [fresh EXCEPT ![u] = 0]
  /\ UNCHANGED <<environment, allTransfers, lockQueue, refresher, updater,
                 editor, current, overlapped, spent, charged>>

-----------------------------------------------------------------------------
(* The wallet: deposits arrive locked and are unlocked ten blocks later.   *)

Deposit(i, x) ==
  /\ i <= minted /\ funds[i].deposits < MaxDeposits
  /\ funds' = [funds EXCEPT ![i].locked = @ + x, ![i].received = @ + x,
                            ![i].deposits = @ + 1]
  /\ UNCHANGED <<moneyDB, minted, fresh, allTransfers, lockQueue, refresher,
                 updater, editor, history>>

Unlock(i) ==
  /\ funds[i].locked > 0
  /\ funds' = [funds EXCEPT ![i].locked = 0, ![i].unlocked = @ + funds[i].locked]
  /\ UNCHANGED <<moneyDB, minted, fresh, allTransfers, lockQueue, refresher,
                 updater, editor, history>>

(* Mutant: the arms of the match on unlocked are swapped.                  *)
BalancesSwapped(indices, unlocked) ==
  [i \in Indices |-> IF i \notin ToSet(indices) THEN NoAnswer
     ELSE funds[i].unlocked + (IF unlocked THEN funds[i].locked ELSE 0)]

(* get_balance for the indices asked for, unlocked or full.                *)
Balances(indices, unlocked) ==
  [i \in Indices |-> IF i \notin ToSet(indices) THEN NoAnswer
     ELSE funds[i].unlocked + (IF unlocked THEN 0 ELSE funds[i].locked)]

(* get_transfers: slot k is labelled with the k-th index asked for, and    *)
(* holds the transfers of subaddress k if it was asked for.                *)
GetTransfers(indices) ==
  [k \in DOMAIN indices |->
     [ addr_index |-> indices[k],
       out_fees |-> IF k \in ToSet(indices) THEN funds[k].out_fees ELSE 0 ]]

-----------------------------------------------------------------------------
(* update_transfers.  The write guard is held during the RPC and, when the *)
(* RPC fails, during thirty seconds of sleep.                              *)

RefresherAsk ==
  /\ refresher.pc = "sleep"
  /\ refresher' = [pc |-> "lock", indices |-> IndicesIn(moneyDB)]
  /\ lockQueue' = Append(lockQueue, "writer")
  /\ UNCHANGED <<moneyDB, fresh, environment, allTransfers, updater, editor,
                 history>>

RefresherLock ==
  /\ refresher.pc = "lock"
  /\ lockQueue # <<>> /\ Head(lockQueue) = "writer"
  /\ refresher' = [refresher EXCEPT !.pc = "rpc"]
  /\ UNCHANGED <<moneyDB, fresh, environment, allTransfers, lockQueue, updater,
                 editor, history>>

RefresherStore ==
  /\ refresher.pc = "rpc"
  /\ allTransfers' = GetTransfers(refresher.indices)
  /\ lockQueue' = Tail(lockQueue)
  /\ refresher' = [pc |-> "sleep", indices |-> <<>>]
  /\ UNCHANGED <<moneyDB, fresh, environment, updater, editor, history>>

RefresherFail ==
  /\ refresher.pc = "rpc"
  /\ refresher' = [refresher EXCEPT !.pc = "error"]
  /\ UNCHANGED <<moneyDB, fresh, environment, allTransfers, lockQueue, updater,
                 editor, history>>

(* Mutant: the RPC is retried under the guard.                             *)
RefresherRetryInside ==
  /\ refresher.pc = "error"
  /\ refresher' = [refresher EXCEPT !.pc = "rpc"]
  /\ UNCHANGED <<moneyDB, fresh, environment, allTransfers, lockQueue, updater,
                 editor, history>>

RefresherRetry ==                          \* continue drops the guard
  /\ refresher.pc = "error"
  /\ lockQueue' = Tail(lockQueue)
  /\ refresher' = [pc |-> "sleep", indices |-> <<>>]
  /\ UNCHANGED <<moneyDB, fresh, environment, allTransfers, updater, editor,
                 history>>

Refresher ==
  \/ RefresherAsk \/ RefresherLock \/ RefresherStore \/ RefresherRetry

-----------------------------------------------------------------------------
(* update_acc_balances.                                                    *)

UpdaterBegin ==
  /\ updater.pc = "sleep"
  /\ updater' = [Asleep EXCEPT !.pc = "balance", !.indices = IndicesIn(moneyDB)]
  /\ UNCHANGED <<moneyDB, fresh, environment, allTransfers, lockQueue, refresher,
                 editor, history>>

UpdaterBalance ==
  /\ updater.pc = "balance"
  /\ updater' \in { [updater EXCEPT !.pc = "full", !.balances = b] :
                      b \in {Unanswered, Balances(updater.indices, TRUE)} }
  /\ UNCHANGED <<moneyDB, fresh, environment, allTransfers, lockQueue, refresher,
                 editor, history>>

UpdaterFull ==
  /\ updater.pc = "full"
  /\ updater' \in { [updater EXCEPT !.pc = "records", !.fulls = b] :
                      b \in {Unanswered, Balances(updater.indices, FALSE)} }
  /\ UNCHANGED <<moneyDB, fresh, environment, allTransfers, lockQueue, refresher,
                 editor, history>>

(* The iterator yields the next record, or there is no record at this key. *)
UpdaterRead ==
  /\ updater.pc = "records" /\ updater.key <= Len(KeyOrder)
  /\ LET u == KeyOrder[updater.key]
     IN  IF moneyDB[u] = NoInfo
         THEN /\ updater' = [updater EXCEPT !.key = @ + 1]
              /\ UNCHANGED <<lockQueue, current>>
         ELSE /\ updater' = [updater EXCEPT !.pc = "lock", !.info = moneyDB[u]]
              /\ lockQueue' = Append(lockQueue, "reader")
              /\ Copies("updater", u)
  /\ UNCHANGED <<moneyDB, fresh, environment, allTransfers, refresher, editor,
                 overlapped, aligned, spent, charged>>

(* Mutant: get(index) instead of get(index - 1).                           *)
SlotOneOff(info) ==
  IF info.addr_index + 1 \in DOMAIN allTransfers
  THEN allTransfers[info.addr_index + 1]
  ELSE [addr_index |-> info.addr_index, out_fees |-> info.out_fees]

(* The slot at the index of the record, or the transfers it already has.   *)
Slot(info) ==
  IF info.addr_index \in DOMAIN allTransfers
  THEN allTransfers[info.addr_index]
  ELSE [addr_index |-> info.addr_index, out_fees |-> info.out_fees]

(* What becomes of a record: the slot's transfers and label, then the      *)
(* balances of the subaddress the label names.                             *)
Refreshed(info) ==
  LET transfers == Slot(info)
      i == transfers.addr_index
      balance == IF updater.balances[i] # NoAnswer THEN updater.balances[i]
                                                   ELSE info.balance
      pending == IF updater.fulls[i] # NoAnswer
                 THEN (updater.fulls[i] - balance) % Modulus ELSE info.pending_balance
  IN  [info EXCEPT !.addr_index = i, !.out_fees = transfers.out_fees,
                   !.balance = balance, !.pending_balance = pending]

UpdaterCompute ==
  /\ updater.pc = "lock"
  /\ lockQueue # <<>> /\ Head(lockQueue) = "reader"
  /\ updater' = [updater EXCEPT !.pc = "records", !.key = @ + 1, !.info = NoInfo,
       !.batch = [@ EXCEPT ![KeyOrder[updater.key]] = Refreshed(updater.info)]]
  /\ lockQueue' = Tail(lockQueue)
  /\ UNCHANGED <<moneyDB, fresh, environment, allTransfers, refresher, editor,
                 history>>

(* apply_batch writes the records in the batch at once.                    *)
UpdaterApply ==
  /\ updater.pc = "records" /\ updater.key > Len(KeyOrder)
  /\ LET batch == updater.batch
         written == {u \in Users : batch[u] # NoInfo}
     IN  /\ moneyDB' = [u \in Users |-> IF u \in written THEN batch[u] ELSE moneyDB[u]]
         /\ overlapped' = [u \in Users |->
              overlapped[u] \/ (u \in written /\ "updater" \notin current[u])]
         /\ current' = [u \in Users |-> IF u \in written THEN {} ELSE current[u]]
  /\ updater' = Asleep
  /\ UNCHANGED <<fresh, environment, allTransfers, lockQueue, refresher, editor,
                 aligned, spent, charged>>

Updater ==
  \/ UpdaterBegin \/ UpdaterBalance \/ UpdaterFull
  \/ UpdaterRead \/ UpdaterCompute \/ UpdaterApply

-----------------------------------------------------------------------------
(* The editors: attach_xmr_address, new_software, and the Ok arm of the    *)
(* sending task for a transfer out of the user's subaddress.               *)

Job(e) == editor[e].job
FeeOf(j) == ChargedFee(j.amt, j.fee)

(* An editor whose user has a record, as the unwrap after get wants it.    *)
Starts(e, j, kind) ==
  /\ editor[e].pc = "start" /\ j.kind = kind /\ moneyDB[j.user] # NoInfo

At(e, kind, pc) == editor[e].pc = pc /\ Job(e).kind = kind

Reads(e, j, info) ==
  /\ editor' = [editor EXCEPT ![e] = [pc |-> "write", job |-> j, info |-> info]]
  /\ Copies(e, j.user)
  /\ UNCHANGED <<moneyDB, overlapped, spent, charged>>

Writes(e, pc, info) ==
  /\ Insert(e, Job(e).user, info)
  /\ editor' = [editor EXCEPT ![e].pc = pc,
                              ![e].info = IF pc = "done" THEN NoInfo ELSE info]

AttachRead(e, j) ==
  /\ Starts(e, j, "attach")
  /\ Reads(e, j, [moneyDB[j.user] EXCEPT !.xmr_addr = j.addr])
  /\ UNCHANGED funds

AttachWrite(e) ==
  /\ At(e, "attach", "write")
  /\ Writes(e, "done", editor[e].info)
  /\ UNCHANGED <<funds, spent, charged>>

SpendRead(e, j) ==
  /\ Starts(e, j, "spend")
  /\ CanSpend(moneyDB[j.user], j.amt)
  /\ Reads(e, j, Spend(moneyDB[j.user], j.amt))
  /\ UNCHANGED funds

SpendDenied(e, j) ==
  /\ Starts(e, j, "spend")
  /\ ~ CanSpend(moneyDB[j.user], j.amt)
  /\ editor' = [editor EXCEPT ![e].pc = "done"]
  /\ UNCHANGED <<moneyDB, funds, current, overlapped, spent, charged>>

SpendWrite(e) ==
  /\ At(e, "spend", "write")
  /\ Writes(e, "done", editor[e].info)
  /\ spent' = [spent EXCEPT ![Job(e).user] = @ + Job(e).amt]
  /\ UNCHANGED <<funds, charged>>

(* The receiving task takes the withdrawal if the balance covers it; the   *)
(* transfer is made from the index the record has now.                     *)
CreditTake(e, j) ==
  /\ Starts(e, j, "credit")
  /\ GetBalance(moneyDB[j.user]) >= j.amt
  /\ editor' = [editor EXCEPT ![e] = [pc |-> "pending", job |-> j,
                                        info |-> moneyDB[j.user]]]
  /\ UNCHANGED <<moneyDB, funds, current, overlapped, spent, charged>>

(* The wallet transfers what the subaddress can pay.  One task makes all   *)
(* transfers, so that no other one is under way.                           *)
CreditPay(e) ==
  LET j == Job(e)
      i == editor[e].info.addr_index
      out == j.amt + j.fee
  IN  /\ At(e, "credit", "pending")
      /\ \A f \in Editors \ {e} :
           \A pc \in {"paid", "write", "flush"} : ~ At(f, "credit", pc)
      /\ funds[i].unlocked >= out
      /\ funds' = [funds EXCEPT ![i].unlocked = @ - out, ![i].paid = @ + out,
                                ![i].out_fees = @ + FeeOf(j)]
      /\ editor' = [editor EXCEPT ![e].pc = "paid", ![e].info = NoInfo]
      /\ UNCHANGED <<moneyDB, current, overlapped, spent, charged>>

CreditRead(e) ==
  /\ At(e, "credit", "paid")
  /\ Reads(e, Job(e), [moneyDB[Job(e).user] EXCEPT
       !.service_fee_total = (@ + FeeOf(Job(e))) % Modulus])
  /\ UNCHANGED funds

CreditInsert(e) ==
  /\ At(e, "credit", "write")
  /\ Writes(e, "flush", editor[e].info)
  /\ charged' = [charged EXCEPT ![Job(e).user] = @ + FeeOf(Job(e))]
  /\ UNCHANGED <<funds, spent>>

(* Mutant: the fee is charged again before the second insert.              *)
CreditInsertTwice(e) ==
  /\ At(e, "credit", "flush")
  /\ Writes(e, "done", [editor[e].info EXCEPT
       !.service_fee_total = (@ + FeeOf(Job(e))) % Modulus])
  /\ UNCHANGED <<funds, spent, charged>>

CreditInsertAgain(e) ==                    \* the same copy, after the flush
  /\ At(e, "credit", "flush")
  /\ Writes(e, "done", editor[e].info)
  /\ UNCHANGED <<funds, spent, charged>>

Editor(e) ==
  /\ \/ \E j \in Jobs : \/ AttachRead(e, j) \/ SpendRead(e, j)
                        \/ SpendDenied(e, j) \/ CreditTake(e, j)
     \/ AttachWrite(e) \/ SpendWrite(e) \/ CreditPay(e)
     \/ CreditRead(e) \/ CreditInsert(e) \/ CreditInsertAgain(e)
  /\ UNCHANGED <<minted, fresh, allTransfers, lockQueue, refresher, updater,
                 aligned>>

Next ==
  \/ \E u \in Users : CreateAddress(u) \/ Register(u)
  \/ CreateAddressLost
  \/ \E i \in Indices : Unlock(i) \/ \E x \in Deposits : Deposit(i, x)
  \/ Refresher \/ RefresherFail \/ Updater
  \/ \E e \in Editors : Editor(e)

Spec == Init /\ [][Next]_vars

(* tokio runs a task that can run, a sleep ends, an RPC answers or fails.  *)
(* RefresherFail is one way update_transfers goes on, never the only one   *)
(* assumed: the RPC may fail every time.                                   *)
FairSpec == Spec /\ WF_vars(Refresher \/ RefresherFail) /\ WF_vars(Updater)

-----------------------------------------------------------------------------
(* Properties.                                                             *)

(* As long as no two copies of a user's record overlapped, the record has  *)
(* every purchase and every service fee, in u64: the batch of              *)
(* update_acc_balances and the second insert of the sending task never     *)
(* lose one by themselves.                                                 *)
KeptUnlessOverlap ==
  \A u \in Users :
    moneyDB[u] # NoInfo /\ ~ overlapped[u] =>
      /\ moneyDB[u].amount_spent = spent[u] % Modulus
      /\ moneyDB[u].service_fee_total = charged[u] % Modulus

(* Users whose records, in key order, always had the indices 1, 2, 3, ...  *)
(* keep their own subaddress: get_transfers fills its Vec by index and     *)
(* labels it by position.                                                  *)
OwnIndex(info) == info.addr_index = info.deposit_addr
AlignedKeepsIndex ==
  aligned => \A u \in Users : moneyDB[u] # NoInfo => OwnIndex(moneyDB[u])

(* A subaddress that has paid nothing: its record shows no more than it    *)
(* ever received, so the subtraction behind pending_balance did not wrap.  *)
Quiet(u) ==
  moneyDB[u] # NoInfo /\ aligned /\ funds[moneyDB[u].addr_index].paid = 0

Credible ==
  \A u \in Users : Quiet(u) =>
    LET info == moneyDB[u]
    IN  /\ info.balance <= funds[info.addr_index].unlocked
        /\ info.pending_balance <= funds[info.addr_index].received

(* A user who withdraws nothing and whose operations never overlap cannot  *)
(* buy for more than the subaddress holds.                                 *)
Covered(u) == spent[u] <= funds[moneyDB[u].addr_index].unlocked
CoveredUnlessOverlap == \A u \in Users : Quiet(u) /\ ~ overlapped[u] => Covered(u)

(* A record names the subaddress its deposit address belongs to.           *)
SubaddressFollowsAddress ==
  \A u \in Users : moneyDB[u] # NoInfo => OwnIndex(moneyDB[u])

(* The balances are refreshed again and again, even if update_transfers    *)
(* fails every time and sleeps on the lock.                                *)
BalancesKeepRefreshing == []<>(updater.pc = "sleep")

=============================================================================
