------------------------------ MODULE Software ------------------------------
(***************************************************************************)
(* new_software: a creator pays for an item, which gets the next software  *)
(* id and an upload id.  The handler does not wait for anything, but calls *)
(* run on several threads, and the trees money_db, software_db and         *)
(* upload_id_db share one sled log, of which a crash keeps what was        *)
(* flushed.  The counter of ids starts again after the largest stored id.  *)
(*                                                                         *)
(* An item and its upload id are named after the call that made them.      *)
(***************************************************************************)
EXTENDS Integers, FiniteSets

CONSTANTS
  Calls,            \* calls of new_software
  Users,
  Creator,          \* who makes each call
  Funds,            \* what each user has for all purchases together
  Price,            \* 4271880000 piconero
  None,             \* no entry under a key, nothing read
  MaxCrashes        \* bound: crashes in a behaviour

Ids == Nat

ASSUME SoftwareAssumption ==
  /\ IsFiniteSet(Calls)
  /\ Creator \in [Calls -> Users]
  /\ Funds \in [Users -> Nat]
  /\ Price \in Nat \ {0}
  /\ None \notin Calls /\ None \notin Nat
  /\ MaxCrashes \in Nat

(* The locals of a call: its place, the amount_spent read, its id.         *)
Locals ==
  [ pc: {"start", "spend", "charged", "id", "stored", "ok", "denied", "large", "cut"},
    read: Nat \cup {None}, id: Ids \cup {None} ]

VARIABLES
  spent,            \* money_db: amount_spent of each user
  software,         \* software_db: the id of the item of each call
  uploadIds,        \* upload_id_db: the id its upload id leads to
  flushed,          \* the three trees as a restart would find them
  currentSoftId,    \* the atomic counter of ids
  call,             \* the locals of each call
  crashes,
  overlapped        \* history: users with two calls between read and write

trees == <<spent, software, uploadIds>>
vars == <<trees, flushed, currentSoftId, call, crashes, overlapped>>

TypeOK ==
  /\ spent \in [Users -> Nat]
  /\ software \in [Calls -> Ids \cup {None}]
  /\ uploadIds \in [Calls -> Ids \cup {None}]
  /\ currentSoftId \in Ids
  /\ call \in [Calls -> Locals]
  /\ crashes \in 0..MaxCrashes
  /\ overlapped \subseteq Users
  /\ \A c \in Calls : call[c].pc = "spend" => call[c].read # None
  /\ \A c \in Calls : call[c].pc \in {"id", "stored"} => call[c].id # None

Init ==
  /\ spent = [u \in Users |-> 0]
  /\ software = [c \in Calls |-> None]
  /\ uploadIds = [c \in Calls |-> None]
  /\ flushed = trees
  /\ currentSoftId = 0
  /\ call = [c \in Calls |-> [pc |-> "start", read |-> None, id |-> None]]
  /\ crashes = 0
  /\ overlapped = {}

-----------------------------------------------------------------------------
(* The captcha, which stays valid, the cookie or the balance is refused.   *)
Refuse(c) ==
  /\ call[c].pc = "start"
  /\ call' = [call EXCEPT ![c].pc = "denied"]
  /\ UNCHANGED <<trees, flushed, currentSoftId, crashes, overlapped>>

Spending(u) == {c \in Calls : call[c].pc = "spend" /\ Creator[c] = u}

(* Mutant: the balance is looked at, and the record read when it is        *)
(* written.                                                                *)
SpendMoneyUnread(c) ==
  /\ call[c].pc = "start"
  /\ spent[Creator[c]] + Price <= Funds[Creator[c]]
  /\ call' = [call EXCEPT ![c].pc = "spend"]
  /\ UNCHANGED <<trees, flushed, currentSoftId, crashes, overlapped>>

(* The record is read and the copy charged.                                *)
SpendMoney(c) ==
  /\ call[c].pc = "start"
  /\ spent[Creator[c]] + Price <= Funds[Creator[c]]
  /\ call' = [call EXCEPT ![c] =
       [pc |-> "spend", read |-> spent[Creator[c]], id |-> None]]
  /\ overlapped' = IF Spending(Creator[c]) = {} THEN overlapped
                   ELSE overlapped \cup {Creator[c]}
  /\ UNCHANGED <<trees, flushed, currentSoftId, crashes>>

(* Mutant: the record read is written back.                                *)
InsertRead(c) ==
  /\ call[c].pc = "spend"
  /\ call' = [call EXCEPT ![c] = [pc |-> "charged", read |-> None, id |-> None]]
  /\ UNCHANGED <<trees, flushed, currentSoftId, crashes, overlapped>>

InsertMoney(c) ==
  /\ call[c].pc = "spend"
  /\ spent' = [spent EXCEPT ![Creator[c]] = call[c].read + Price]
  /\ call' = [call EXCEPT ![c] = [pc |-> "charged", read |-> None, id |-> None]]
  /\ UNCHANGED <<software, uploadIds, flushed, currentSoftId, crashes, overlapped>>

(* The size is looked at once the money is spent.                          *)
TooLarge(c) ==
  /\ call[c].pc = "charged"
  /\ call' = [call EXCEPT ![c].pc = "large"]
  /\ UNCHANGED <<trees, flushed, currentSoftId, crashes, overlapped>>

FetchAddId(c) ==
  /\ call[c].pc = "charged"
  /\ call' = [call EXCEPT ![c] = [pc |-> "id", read |-> None, id |-> currentSoftId]]
  /\ currentSoftId' = currentSoftId + 1
  /\ UNCHANGED <<trees, flushed, crashes, overlapped>>

(* Mutant: the upload id is inserted first.                                *)
InsertUploadIdFirst(c) ==
  /\ call[c].pc = "id"
  /\ uploadIds' = [uploadIds EXCEPT ![c] = call[c].id]
  /\ call' = [call EXCEPT ![c].pc = "stored"]
  /\ UNCHANGED <<spent, software, flushed, currentSoftId, crashes, overlapped>>

(* An item that was stored under the id is no longer there.                *)
InsertSoftware(c) ==
  /\ call[c].pc = "id"
  /\ software' = [d \in Calls |-> IF d = c THEN call[c].id
                                  ELSE IF software[d] = call[c].id THEN None
                                  ELSE software[d]]
  /\ call' = [call EXCEPT ![c].pc = "stored"]
  /\ UNCHANGED <<spent, uploadIds, flushed, currentSoftId, crashes, overlapped>>

InsertUploadId(c) ==
  /\ call[c].pc = "stored"
  /\ uploadIds' = [uploadIds EXCEPT ![c] = call[c].id]
  /\ call' = [call EXCEPT ![c].pc = "ok"]
  /\ UNCHANGED <<spent, software, flushed, currentSoftId, crashes, overlapped>>

Flush ==
  /\ flushed # trees
  /\ flushed' = trees
  /\ UNCHANGED <<trees, currentSoftId, call, crashes, overlapped>>

(* Mutant: the number of items is taken for the next id.                   *)
FollowsNumber(n, items) == n = Cardinality({c \in Calls : items[c] # None})

(* max() + 1, or 0: the keys of software_db, decoded.                      *)
Follows(n, items) ==
  LET stored == {items[c] : c \in {d \in Calls : items[d] # None}}
  IN  IF stored = {} THEN n = 0
      ELSE n - 1 \in stored /\ \A id \in stored : id < n

Restart ==
  /\ crashes < MaxCrashes /\ crashes' = crashes + 1
  /\ spent' = flushed[1] /\ software' = flushed[2] /\ uploadIds' = flushed[3]
  /\ \E n \in 0..currentSoftId : Follows(n, flushed[2]) /\ currentSoftId' = n
  /\ call' = [c \in Calls |->
       IF call[c].pc \in {"start", "denied", "large", "ok"} THEN call[c]
       ELSE [pc |-> "cut", read |-> None, id |-> None]]
  /\ UNCHANGED <<flushed, overlapped>>

Handle(c) ==
  \/ Refuse(c) \/ SpendMoney(c) \/ InsertMoney(c) \/ TooLarge(c)
  \/ FetchAddId(c) \/ InsertSoftware(c) \/ InsertUploadId(c)

Next == (\E c \in Calls : Handle(c)) \/ Flush \/ Restart

Spec == Init /\ [][Next]_vars

-----------------------------------------------------------------------------
(* Properties.                                                             *)

(* An upload id leads to the item it was given out for: the unwrap of      *)
(* upload_software, and nobody uploads in the place of another.            *)
UploadIdLeadsHome ==
  \A c \in Calls : uploadIds[c] # None => software[c] = uploadIds[c]

(* No item takes the id of another, though ids are given out again after a *)
(* restart: only a restart takes an item away.                             *)
ItemsKept ==
  [][crashes' = crashes =>
       \A c \in Calls : software[c] # None => software'[c] = software[c]]_vars

(* What a user has spent is the price of the items, and of at most the     *)
(* calls under way, too large or cut off by a restart: only these keep     *)
(* money for nothing, and no item goes unpaid unless two calls overlapped. *)
Bought(u) == {c \in Calls : Creator[c] = u /\ software[c] # None}
Pending(u) ==
  {c \in Calls : Creator[c] = u /\ software[c] = None
                 /\ call[c].pc \in {"charged", "id", "large", "cut", "ok"}}
ChargesExplained ==
  \A u \in Users : u \in overlapped \/
    /\ Price * Cardinality(Bought(u)) <= spent[u]
    /\ spent[u] <= Price * Cardinality(Bought(u) \cup Pending(u))

=============================================================================
