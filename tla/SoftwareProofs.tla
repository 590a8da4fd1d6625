--------------------------- MODULE SoftwareProofs ---------------------------
(***************************************************************************)
(* Proofs about new_software, for any calls and creators, any price and    *)
(* any number of crashes: ids are unique, upload ids lead home, only a     *)
(* restart takes an item away, and what users have spent is explained.     *)
(***************************************************************************)
EXTENDS Software, FiniteSetTheorems, TLAPS

(* Steps of a call after which its item may be stored, and after which its *)
(* creator has paid.                                                       *)
Later == {"stored", "ok", "cut"}
Paid(u) ==
  {c \in Calls : Creator[c] = u
                 /\ call[c].pc \in {"charged", "id", "stored", "large", "cut", "ok"}}
Charged(u) ==
  {c \in Calls : Creator[c] = u
                 /\ (software[c] # None \/ call[c].pc \in {"charged", "id"})}
Kept(u) == {c \in Calls : Creator[c] = u /\ flushed[2][c] # None}

(* What a flush keeps has the types of the trees.                          *)
FlushedOK ==
  /\ flushed \in [Users -> Nat] \X [Calls -> Ids \cup {None}] \X [Calls -> Ids \cup {None}]

(* The item of a call appears with its insert, on disk later still.        *)
NotYet ==
  \A c \in Calls : call[c].pc \notin Later =>
    software[c] = None /\ uploadIds[c] = None /\ flushed[2][c] = None /\ flushed[3][c] = None

(* Stored ids are unique and behind the counter, on disk too.              *)
Unique(items) ==
  \A c, d \in Calls : items[c] # None /\ items[c] = items[d] => c = d
Stored ==
  /\ Unique(software) /\ Unique(flushed[2])
  /\ \A c \in Calls : software[c] # None => software[c] < currentSoftId
  /\ \A c \in Calls : call[c].pc = "stored" => software[c] = call[c].id

(* An id a call is about to store is behind the counter, is nobody's else  *)
(* and is not stored yet.                                                  *)
Reserved ==
  \A c \in Calls : call[c].pc = "id" =>
    /\ call[c].id < currentSoftId
    /\ \A d \in Calls : software[d] # call[c].id
    /\ \A d \in Calls : call[d].pc = "id" /\ call[d].id = call[c].id => c = d

(* Upload ids lead home, on disk too: they are written after the item.     *)
Home ==
  /\ UploadIdLeadsHome
  /\ \A c \in Calls : flushed[3][c] # None => flushed[2][c] = flushed[3][c]

(* A user whose calls do not overlap has one between read and write, and   *)
(* it has read what is still on record.                                    *)
Alone ==
  \A c \in Calls : call[c].pc = "spend" /\ Creator[c] \notin overlapped =>
    /\ call[c].read = spent[Creator[c]]
    /\ \A d \in Calls : call[d].pc = "spend" /\ Creator[d] = Creator[c] => c = d

(* The price of what is stored or about to be is spent, and no more than   *)
(* the price of what was paid.                                             *)
SpentBy(u) ==
  /\ Price * Cardinality(Charged(u)) <= spent[u]
  /\ spent[u] <= Price * Cardinality(Paid(u))
  /\ Price * Cardinality(Kept(u)) <= flushed[1][u]
  /\ flushed[1][u] <= Price * Cardinality(Paid(u))
Spent == \A u \in Users \ overlapped : SpentBy(u)

IdsInv == TypeOK /\ FlushedOK /\ NotYet /\ Stored /\ Reserved /\ Home
MoneyInv == IdsInv /\ Alone /\ Spent

-----------------------------------------------------------------------------
(* The ids.                                                                *)

LEMMA IdsInit == Init => IdsInv
BY SoftwareAssumption
   DEF Init, IdsInv, TypeOK, Locals, FlushedOK, NotYet, Stored, Unique, Reserved, Home,
       UploadIdLeadsHome, trees, Ids

(* Restart: the counter follows the ids on disk.                           *)
LEMMA FollowsAll ==
  ASSUME NEW items \in [Calls -> Ids \cup {None}], NEW n \in Ids, Follows(n, items),
         NEW c \in Calls, items[c] # None
  PROVE  items[c] < n
BY SoftwareAssumption DEF Follows, Ids

LEMMA TypeStep ==
  ASSUME TypeOK, FlushedOK, [Next]_vars
  PROVE  TypeOK' /\ FlushedOK'
<1> USE SoftwareAssumption DEF TypeOK, FlushedOK, Ids, trees
<1>1. ASSUME NEW c \in Calls, Refuse(c) PROVE TypeOK' /\ FlushedOK'
  BY <1>1 DEF Refuse, Locals
<1>2. ASSUME NEW c \in Calls, SpendMoney(c) PROVE TypeOK' /\ FlushedOK'
  <2>1. spent[Creator[c]] \in Nat
    OBVIOUS
  <2>2. [pc |-> "spend", read |-> spent[Creator[c]], id |-> None] \in Locals
    BY <2>1 DEF Locals
  <2>3. call' \in [Calls -> Locals]
    BY <1>2, <2>2 DEF SpendMoney
  <2> QED BY <1>2, <2>1, <2>3 DEF SpendMoney
<1>3. ASSUME NEW c \in Calls, InsertMoney(c) PROVE TypeOK' /\ FlushedOK'
  <2>1. call[c].read \in Nat /\ Creator[c] \in Users
    BY <1>3 DEF InsertMoney, Locals
  <2>2. call' \in [Calls -> Locals]
    BY <1>3 DEF InsertMoney, Locals
  <2> QED BY <1>3, <2>1, <2>2 DEF InsertMoney
<1>4. ASSUME NEW c \in Calls, TooLarge(c) PROVE TypeOK' /\ FlushedOK'
  BY <1>4 DEF TooLarge, Locals
<1>5. ASSUME NEW c \in Calls, FetchAddId(c) PROVE TypeOK' /\ FlushedOK'
  <2>1. [pc |-> "id", read |-> None, id |-> currentSoftId] \in Locals
    BY DEF Locals
  <2>2. call' \in [Calls -> Locals]
    BY <1>5, <2>1 DEF FetchAddId
  <2> QED BY <1>5, <2>2 DEF FetchAddId
<1>6. ASSUME NEW c \in Calls, InsertSoftware(c) PROVE TypeOK' /\ FlushedOK'
  BY <1>6 DEF InsertSoftware, Locals
<1>7. ASSUME NEW c \in Calls, InsertUploadId(c) PROVE TypeOK' /\ FlushedOK'
  BY <1>7 DEF InsertUploadId, Locals
<1>8. CASE Flush
  BY <1>8 DEF Flush
<1>9. CASE Restart
  <2>1. PICK n \in 0..currentSoftId : currentSoftId' = n
    BY <1>9 DEF Restart
  <2>2. call' \in [Calls -> Locals]
    BY <1>9 DEF Restart, Locals
  <2>3. /\ \A c \in Calls : call'[c].pc = "spend" => call'[c].read # None
        /\ \A c \in Calls : call'[c].pc \in {"id", "stored"} => call'[c].id # None
    BY <1>9 DEF Restart
  <2> QED BY <1>9, <2>1, <2>2, <2>3 DEF Restart
<1>10. CASE UNCHANGED vars
  BY <1>10 DEF vars
<1> QED
  BY <1>1, <1>2, <1>3, <1>4, <1>5, <1>6, <1>7, <1>8, <1>9, <1>10 DEF Next, Handle

(* A fresh id is stored under a new name; everything else stays.           *)
LEMMA Inserted ==
  ASSUME IdsInv, NEW c \in Calls, InsertSoftware(c)
  PROVE  /\ call[c].id \in Ids /\ software[c] = None
         /\ software' = [software EXCEPT ![c] = call[c].id]
         /\ \A d \in Calls : d # c => software'[d] = software[d]
         /\ software'[c] = call[c].id
<1>1. call[c].id \in Ids /\ call[c].id # None
  BY SoftwareAssumption DEF IdsInv, TypeOK, Locals, InsertSoftware
<1>2. software[c] = None /\ \A d \in Calls : software[d] # call[c].id
  BY DEF IdsInv, NotYet, Reserved, Later, InsertSoftware
<1>3. \A d \in Calls : software'[d] = IF d = c THEN call[c].id ELSE software[d]
  BY <1>2 DEF InsertSoftware
<1> QED BY <1>1, <1>2, <1>3 DEF InsertSoftware, IdsInv, TypeOK

LEMMA IdsStep ==
  ASSUME IdsInv, [Next]_vars
  PROVE  IdsInv'
<1> DEFINE Goal == NotYet' /\ Stored' /\ Reserved' /\ Home'
<1> USE SoftwareAssumption
<1>0. TypeOK' /\ FlushedOK'
  BY TypeStep DEF IdsInv
<1>1a. ASSUME NEW c \in Calls, Refuse(c) PROVE Goal
  BY <1>1a DEF IdsInv, TypeOK, Locals, Ids, Later, NotYet, Stored, Unique, Reserved, Home,
     UploadIdLeadsHome, Refuse, trees
<1>1b. ASSUME NEW c \in Calls, SpendMoney(c) PROVE Goal
  BY <1>1b DEF IdsInv, TypeOK, Locals, Ids, Later, NotYet, Stored, Unique, Reserved, Home,
     UploadIdLeadsHome, SpendMoney, trees
<1>1c. ASSUME NEW c \in Calls, InsertMoney(c) PROVE Goal
  BY <1>1c DEF IdsInv, TypeOK, Locals, Ids, Later, NotYet, Stored, Unique, Reserved, Home,
     UploadIdLeadsHome, InsertMoney, trees
<1>1d. ASSUME NEW c \in Calls, TooLarge(c) PROVE Goal
  BY <1>1d DEF IdsInv, TypeOK, Locals, Ids, Later, NotYet, Stored, Unique, Reserved, Home,
     UploadIdLeadsHome, TooLarge, trees
<1>2. ASSUME NEW c \in Calls, FetchAddId(c) PROVE Goal
  BY <1>2 DEF IdsInv, TypeOK, Locals, Ids, Later, NotYet, Stored, Unique, Reserved, Home,
     UploadIdLeadsHome, FetchAddId, trees
<1>3. ASSUME NEW c \in Calls, InsertSoftware(c) PROVE Goal
  <2> USE <1>3, Inserted
  <2>1. NotYet'
    BY DEF IdsInv, TypeOK, Locals, Later, NotYet, InsertSoftware
  <2>2. Stored'
    BY DEF IdsInv, TypeOK, Locals, Ids, Stored, Unique, Reserved, InsertSoftware
  <2>3. Reserved'
    BY DEF IdsInv, TypeOK, Locals, Reserved, InsertSoftware
  <2>4. Home'
    BY DEF IdsInv, TypeOK, Locals, Later, NotYet, Home, UploadIdLeadsHome, InsertSoftware
  <2> QED BY <2>1, <2>2, <2>3, <2>4
<1>4. ASSUME NEW c \in Calls, InsertUploadId(c) PROVE Goal
  <2>1. /\ software' = software /\ flushed' = flushed /\ currentSoftId' = currentSoftId
        /\ call[c].pc = "stored" /\ software[c] = call[c].id
        /\ call' = [call EXCEPT ![c].pc = "ok"]
        /\ uploadIds' = [uploadIds EXCEPT ![c] = call[c].id]
    BY <1>4 DEF InsertUploadId, IdsInv, Stored
  <2>2. NotYet'
    BY <2>1 DEF IdsInv, TypeOK, Locals, NotYet, Later
  <2>3. Stored'
    BY <2>1 DEF IdsInv, TypeOK, Locals, Stored, Unique
  <2>4. Reserved'
    BY <2>1 DEF IdsInv, TypeOK, Locals, Reserved
  <2>5. Home'
    BY <2>1 DEF IdsInv, TypeOK, Locals, Home, UploadIdLeadsHome
  <2> QED BY <2>2, <2>3, <2>4, <2>5
<1>5. ASSUME Flush PROVE Goal
  BY <1>5 DEF IdsInv, TypeOK, Ids, Later, NotYet, Stored, Unique, Reserved, Home,
     UploadIdLeadsHome, Flush, trees
<1>6. ASSUME Restart PROVE Goal
  <2>1. PICK n \in 0..currentSoftId : Follows(n, flushed[2]) /\ currentSoftId' = n
    BY <1>6 DEF Restart
  <2>2. n \in Ids /\ flushed[2] \in [Calls -> Ids \cup {None}]
    BY DEF IdsInv, TypeOK, FlushedOK, Ids
  <2>3. \A c \in Calls : flushed[2][c] # None => flushed[2][c] < n
    BY <2>1, <2>2, FollowsAll
  <2>4. \A c \in Calls : /\ call'[c].pc \in {"start", "denied", "large", "ok", "cut"}
                         /\ call'[c].pc # "cut" => call'[c].pc = call[c].pc
    BY <1>6 DEF Restart
  <2>5. software' = flushed[2] /\ uploadIds' = flushed[3] /\ flushed' = flushed
    BY <1>6 DEF Restart
  <2>6. NotYet'
    BY <2>4, <2>5 DEF IdsInv, NotYet, Later
  <2>7. Stored'
    BY <2>1, <2>3, <2>4, <2>5 DEF IdsInv, Stored, Unique
  <2>8. Reserved'
    BY <2>4 DEF Reserved
  <2>9. Home'
    BY <2>5 DEF IdsInv, Home, UploadIdLeadsHome
  <2> QED BY <2>6, <2>7, <2>8, <2>9
<1>7. ASSUME UNCHANGED vars PROVE Goal
  BY <1>7 DEF IdsInv, TypeOK, NotYet, Stored, Unique, Reserved, Home, UploadIdLeadsHome, vars, trees
<1> QED
  BY <1>0, <1>1a, <1>1b, <1>1c, <1>1d, <1>2, <1>3, <1>4, <1>5, <1>6, <1>7
  DEF IdsInv, Next, Handle

(* Ids and upload ids of new_software are right after any crash.           *)
THEOREM IdsInductive == Spec => []IdsInv
<1>1. Init => IdsInv
  BY IdsInit
<1>2. IdsInv /\ [Next]_vars => IdsInv'
  BY IdsStep
<1> QED BY <1>1, <1>2, PTL DEF Spec

(* The upload id answered to a creator leads to the item made for it: the  *)
(* unwrap of upload_software.                                              *)
THEOREM UploadIdsRight == Spec => []UploadIdLeadsHome
<1>1. IdsInv => UploadIdLeadsHome
  BY DEF IdsInv, Home
<1> QED BY <1>1, IdsInductive, PTL

(* No step but a restart takes an item away or gives its id to another.    *)
THEOREM ItemsStay == Spec => ItemsKept
<1>1. ASSUME IdsInv, [Next]_vars
      PROVE  [crashes' = crashes =>
                \A c \in Calls : software[c] # None => software'[c] = software[c]]_vars
  <2>1. CASE \E c \in Calls : InsertSoftware(c)
    BY <2>1, <1>1, Inserted
  <2>2. CASE \E c \in Calls : \/ Refuse(c) \/ SpendMoney(c) \/ InsertMoney(c) \/ TooLarge(c)
                              \/ FetchAddId(c) \/ InsertUploadId(c)
    BY <2>2 DEF Refuse, SpendMoney, InsertMoney, TooLarge, FetchAddId, InsertUploadId, trees
  <2>3. CASE Flush
    BY <2>3 DEF Flush, trees
  <2>4. CASE Restart
    <3>1. crashes \in Int /\ crashes' = crashes + 1
      BY <1>1, <2>4, SoftwareAssumption DEF Restart, IdsInv, TypeOK
    <3> QED BY <3>1
  <2>5. CASE UNCHANGED vars
    BY <2>5
  <2> QED BY <1>1, <2>1, <2>2, <2>3, <2>4, <2>5 DEF Next, Handle
<1> QED BY <1>1, IdsInductive, PTL DEF Spec, ItemsKept

-----------------------------------------------------------------------------
(* The money.                                                              *)

LEMMA PriceOf ==
  ASSUME NEW S \in SUBSET Calls
  PROVE  IsFiniteSet(S) /\ Cardinality(S) \in Nat /\ Price * Cardinality(S) \in Nat
<1>1. IsFiniteSet(S) /\ Cardinality(S) \in Nat
  BY SoftwareAssumption, FS_Subset, FS_CardinalityType
<1> QED BY <1>1, SoftwareAssumption

LEMMA PriceOfPart ==
  ASSUME NEW T \in SUBSET Calls, NEW S \in SUBSET T
  PROVE  Price * Cardinality(S) <= Price * Cardinality(T)
<1>1. Cardinality(S) <= Cardinality(T) /\ Cardinality(S) \in Nat /\ Cardinality(T) \in Nat
  BY PriceOf, FS_Subset
<1>2. \A m, n \in Nat : m <= n => Price * m <= Price * n
  BY SoftwareAssumption
<1> QED BY <1>1, <1>2

LEMMA PriceOfOneMore ==
  ASSUME NEW S \in SUBSET Calls, NEW c \in Calls, c \notin S
  PROVE  Price * Cardinality(S \cup {c}) = Price * Cardinality(S) + Price
<1>1. Cardinality(S \cup {c}) = Cardinality(S) + 1 /\ Cardinality(S) \in Nat
  BY PriceOf, FS_AddElement
<1>2. \A n \in Nat : Price * (n + 1) = Price * n + Price
  BY SoftwareAssumption
<1> QED BY <1>1, <1>2

LEMMA InCalls ==
  ASSUME NEW u
  PROVE  Charged(u) \in SUBSET Calls /\ Paid(u) \in SUBSET Calls /\ Kept(u) \in SUBSET Calls
BY DEF Charged, Paid, Kept

(* Where a step leaves the records alone it is enough that no call becomes *)
(* charged or unpaid.                                                      *)
LEMMA SpentSame ==
  ASSUME TypeOK, FlushedOK, NEW u \in Users, SpentBy(u),
         spent' = spent, flushed' = flushed,
         Charged(u)' \subseteq Charged(u), Paid(u) \subseteq Paid(u)',
         Paid(u)' \in SUBSET Calls
  PROVE  SpentBy(u)'
<1>1. /\ Price * Cardinality(Charged(u)') <= Price * Cardinality(Charged(u))
      /\ Price * Cardinality(Paid(u)) <= Price * Cardinality(Paid(u)')
  BY InCalls, PriceOfPart
<1>2. /\ Price * Cardinality(Charged(u)') \in Nat /\ Price * Cardinality(Charged(u)) \in Nat
      /\ Price * Cardinality(Paid(u)) \in Nat /\ Price * Cardinality(Paid(u)') \in Nat
  BY InCalls, PriceOf
<1>3. Kept(u)' = Kept(u)
  BY DEF Kept
<1>4. spent[u] \in Nat /\ flushed[1][u] \in Nat
  BY DEF TypeOK, FlushedOK
<1> QED BY <1>1, <1>2, <1>3, <1>4 DEF SpentBy

LEMMA AloneStep ==
  ASSUME IdsInv, Alone, [Next]_vars
  PROVE  Alone'
<1> USE SoftwareAssumption DEF IdsInv, TypeOK, Locals, Alone
<1>1. ASSUME NEW c \in Calls, Refuse(c) PROVE Alone'
  BY <1>1 DEF Refuse, trees
<1>2. ASSUME NEW c \in Calls, SpendMoney(c) PROVE Alone'
  <2>1. /\ spent' = spent /\ overlapped \subseteq overlapped'
        /\ call' = [call EXCEPT ![c] = [pc |-> "spend", read |-> spent[Creator[c]], id |-> None]]
        /\ Creator[c] \notin overlapped' => Spending(Creator[c]) = {}
    BY <1>2 DEF SpendMoney, trees
  <2>2. Creator[c] \notin overlapped' =>
          \A d \in Calls : call[d].pc = "spend" => Creator[d] # Creator[c]
    BY <2>1 DEF Spending
  <2> QED BY <2>1, <2>2
<1>3. ASSUME NEW c \in Calls, InsertMoney(c) PROVE Alone'
  <2>1. /\ call[c].pc = "spend" /\ overlapped' = overlapped
        /\ call' = [call EXCEPT ![c] = [pc |-> "charged", read |-> None, id |-> None]]
        /\ \A u \in Users \ {Creator[c]} : spent'[u] = spent[u]
    BY <1>3 DEF InsertMoney
  <2>2. \A d \in Calls : Creator[d] \in Users
    OBVIOUS
  <2> QED BY <2>1, <2>2
<1>4. ASSUME NEW c \in Calls, TooLarge(c) PROVE Alone'
  BY <1>4 DEF TooLarge, trees
<1>5. ASSUME NEW c \in Calls, FetchAddId(c) PROVE Alone'
  BY <1>5 DEF FetchAddId, trees
<1>6. ASSUME NEW c \in Calls, InsertSoftware(c) PROVE Alone'
  BY <1>6 DEF InsertSoftware
<1>7. ASSUME NEW c \in Calls, InsertUploadId(c) PROVE Alone'
  BY <1>7 DEF InsertUploadId
<1>8. CASE Flush \/ UNCHANGED vars
  BY <1>8 DEF Flush, vars, trees
<1>9. CASE Restart
  <2>1. \A c \in Calls : call'[c].pc # "spend"
    BY <1>9 DEF Restart
  <2> QED BY <2>1
<1> QED
  BY <1>1, <1>2, <1>3, <1>4, <1>5, <1>6, <1>7, <1>8, <1>9 DEF Next, Handle

LEMMA SpentStep ==
  ASSUME IdsInv, Alone, [Next]_vars, NEW u \in Users, u \notin overlapped', SpentBy(u)
  PROVE  SpentBy(u)'
<1> USE SoftwareAssumption DEF IdsInv, TypeOK, Locals
<1>0. Paid(u)' \in SUBSET Calls /\ Charged(u)' \in SUBSET Calls /\ Kept(u)' \in SUBSET Calls
  BY DEF Paid, Charged, Kept
<1>1. ASSUME NEW c \in Calls, Refuse(c) PROVE SpentBy(u)'
  BY <1>0, <1>1, SpentSame DEF Refuse, trees, Paid, Charged
<1>2. ASSUME NEW c \in Calls, SpendMoney(c) PROVE SpentBy(u)'
  BY <1>0, <1>2, SpentSame DEF SpendMoney, trees, Paid, Charged
<1>3. ASSUME NEW c \in Calls, InsertMoney(c) PROVE SpentBy(u)'
  <2>1. /\ call[c].pc = "spend" /\ u \notin overlapped
        /\ call' = [call EXCEPT ![c] = [pc |-> "charged", read |-> None, id |-> None]]
        /\ software' = software /\ flushed' = flushed
        /\ spent' = [spent EXCEPT ![Creator[c]] = call[c].read + Price]
    BY <1>3 DEF InsertMoney
  <2>2. CASE Creator[c] # u
    <3>1. Paid(u)' = Paid(u) /\ Charged(u)' = Charged(u) /\ Kept(u)' = Kept(u)
      BY <2>1, <2>2 DEF Paid, Charged, Kept
    <3>2. spent'[u] = spent[u]
      BY <2>1, <2>2
    <3> QED BY <2>1, <3>1, <3>2 DEF SpentBy
  <2>3. CASE Creator[c] = u
    <3>1. call[c].read = spent[u] /\ spent'[u] = spent[u] + Price
      BY <2>1, <2>3 DEF Alone
    <3>2. software[c] = None
      BY <2>1 DEF NotYet, Later
    <3>3. /\ Paid(u)' = Paid(u) \cup {c} /\ c \notin Paid(u)
          /\ Charged(u)' = Charged(u) \cup {c} /\ c \notin Charged(u)
          /\ Kept(u)' = Kept(u)
      BY <2>1, <2>3, <3>2 DEF Paid, Charged, Kept
    <3>4. /\ Price * Cardinality(Paid(u)') = Price * Cardinality(Paid(u)) + Price
          /\ Price * Cardinality(Charged(u)') = Price * Cardinality(Charged(u)) + Price
      BY <3>3, InCalls, PriceOfOneMore
    <3>5. /\ Price * Cardinality(Paid(u)) \in Nat /\ Price * Cardinality(Charged(u)) \in Nat
          /\ Price * Cardinality(Kept(u)) \in Nat
          /\ spent[u] \in Nat /\ flushed[1][u] \in Nat /\ Price \in Nat
      BY InCalls, PriceOf DEF FlushedOK
    <3> QED BY <2>1, <3>1, <3>3, <3>4, <3>5 DEF SpentBy
  <2> QED BY <2>2, <2>3
<1>4. ASSUME NEW c \in Calls, TooLarge(c) PROVE SpentBy(u)'
  BY <1>0, <1>4, SpentSame DEF TooLarge, trees, Paid, Charged
<1>5. ASSUME NEW c \in Calls, FetchAddId(c) PROVE SpentBy(u)'
  BY <1>0, <1>5, SpentSame DEF FetchAddId, trees, Paid, Charged
<1>6. ASSUME NEW c \in Calls, InsertSoftware(c) PROVE SpentBy(u)'
  <2>1. call[c].pc = "id" /\ (\A d \in Calls : d # c => software'[d] = software[d])
    BY <1>6, Inserted DEF InsertSoftware
  <2>2. Charged(u)' \subseteq Charged(u) /\ Paid(u) \subseteq Paid(u)'
    BY <1>6, <2>1 DEF InsertSoftware, Paid, Charged
  <2> QED BY <1>0, <1>6, <2>2, SpentSame DEF InsertSoftware
<1>7. ASSUME NEW c \in Calls, InsertUploadId(c) PROVE SpentBy(u)'
  BY <1>0, <1>7, SpentSame DEF InsertUploadId, Paid, Charged
<1>8. CASE Flush
  <2>1. /\ spent' = spent /\ flushed'[1] = spent /\ flushed'[2] = software
        /\ Paid(u)' = Paid(u) /\ Charged(u)' = Charged(u)
    BY <1>8 DEF Flush, trees, Paid, Charged
  <2>2. Kept(u)' \subseteq Charged(u)
    BY <2>1 DEF Kept, Charged
  <2>3. Price * Cardinality(Kept(u)') <= Price * Cardinality(Charged(u))
    BY <2>2, InCalls, PriceOfPart
  <2>4. /\ Price * Cardinality(Kept(u)') \in Nat /\ Price * Cardinality(Charged(u)) \in Nat
        /\ spent[u] \in Nat
    BY <1>0, InCalls, PriceOf
  <2> QED BY <2>1, <2>3, <2>4 DEF SpentBy
<1>9. CASE Restart
  <2>1. /\ spent' = flushed[1] /\ software' = flushed[2] /\ flushed' = flushed
        /\ \A c \in Calls : /\ call'[c].pc \in {"start", "denied", "large", "ok", "cut"}
                            /\ call'[c].pc # "cut" => call'[c].pc = call[c].pc
    BY <1>9 DEF Restart
  <2>2. Charged(u)' \subseteq Kept(u) /\ Kept(u)' = Kept(u)
    BY <2>1 DEF Charged, Kept
  <2>3. Paid(u) \subseteq Paid(u)'
    <3>1. \A c \in Calls : call[c].pc \in {"charged", "id", "stored"} => call'[c].pc = "cut"
      BY <1>9 DEF Restart
    <3>2. \A c \in Calls : call[c].pc \in {"large", "cut", "ok"} => call'[c].pc \in {"large", "cut", "ok"}
      BY <1>9 DEF Restart
    <3> QED BY <3>1, <3>2 DEF Paid
  <2>4. /\ Price * Cardinality(Charged(u)') <= Price * Cardinality(Kept(u))
        /\ Price * Cardinality(Paid(u)) <= Price * Cardinality(Paid(u)')
    BY <1>0, <2>2, <2>3, InCalls, PriceOfPart
  <2>5. /\ Price * Cardinality(Charged(u)') \in Nat /\ Price * Cardinality(Kept(u)) \in Nat
        /\ Price * Cardinality(Paid(u)) \in Nat /\ Price * Cardinality(Paid(u)') \in Nat
        /\ flushed[1][u] \in Nat
    BY <1>0, InCalls, PriceOf DEF FlushedOK
  <2> QED BY <2>1, <2>2, <2>4, <2>5 DEF SpentBy
<1>10. CASE UNCHANGED vars
  BY <1>0, <1>10, SpentSame DEF vars, trees, Paid, Charged
<1> QED
  BY <1>1, <1>2, <1>3, <1>4, <1>5, <1>6, <1>7, <1>8, <1>9, <1>10 DEF Next, Handle

THEOREM MoneyInductive == Spec => []MoneyInv
<1>1. Init => MoneyInv
  <2>1. ASSUME Init PROVE MoneyInv
    <3>1. Alone
      BY <2>1 DEF Init, Alone
    <3>2. ASSUME NEW u \in Users PROVE SpentBy(u)
      <4>1. Paid(u) = {} /\ Charged(u) = {} /\ Kept(u) = {} /\ spent[u] = 0 /\ flushed[1][u] = 0
        BY <2>1 DEF Init, Paid, Charged, Kept, trees
      <4>2. Price * Cardinality({}) = 0
        BY FS_EmptySet, SoftwareAssumption
      <4> QED BY <4>1, <4>2 DEF SpentBy
    <3> QED BY <2>1, <3>1, <3>2, IdsInit DEF MoneyInv, Spent
  <2> QED BY <2>1
<1>2. MoneyInv /\ [Next]_vars => MoneyInv'
  <2>1. ASSUME MoneyInv, [Next]_vars PROVE MoneyInv'
    <3>1. overlapped \subseteq overlapped'
      BY <2>1 DEF Next, Handle, Refuse, SpendMoney, InsertMoney, TooLarge, FetchAddId,
         InsertSoftware, InsertUploadId, Flush, Restart, vars
    <3>2. ASSUME NEW u \in Users \ overlapped' PROVE SpentBy(u)'
      BY <2>1, <3>1, <3>2, SpentStep DEF MoneyInv, Spent
    <3> QED BY <2>1, <3>2, IdsStep, AloneStep DEF MoneyInv, Spent
  <2> QED BY <2>1
<1> QED BY <1>1, <1>2, PTL DEF Spec

(* What a user has spent is explained by items and calls.                  *)
THEOREM SpentIsExplained == Spec => []ChargesExplained
<1>1. ASSUME MoneyInv PROVE ChargesExplained
  <2> SUFFICES ASSUME NEW u \in Users, u \notin overlapped
               PROVE  /\ Price * Cardinality(Bought(u)) <= spent[u]
                      /\ spent[u] <= Price * Cardinality(Bought(u) \cup Pending(u))
    BY DEF ChargesExplained
  <2>1. SpentBy(u) /\ spent[u] \in Nat
    BY <1>1 DEF MoneyInv, Spent, IdsInv, TypeOK
  <2>2. Bought(u) \subseteq Charged(u)
    BY DEF Bought, Charged
  <2>3. Paid(u) \subseteq Bought(u) \cup Pending(u)
    <3>1. \A c \in Calls : call[c].pc = "stored" => software[c] # None
      BY <1>1 DEF MoneyInv, IdsInv, Stored, TypeOK
    <3> QED BY <3>1 DEF Paid, Bought, Pending
  <2>4. /\ Bought(u) \in SUBSET Calls /\ (Bought(u) \cup Pending(u)) \in SUBSET Calls
    BY DEF Bought, Pending
  <2>5. /\ Price * Cardinality(Bought(u)) <= Price * Cardinality(Charged(u))
        /\ Price * Cardinality(Paid(u)) <= Price * Cardinality(Bought(u) \cup Pending(u))
    BY <2>2, <2>3, <2>4, InCalls, PriceOfPart
  <2>6. /\ Price * Cardinality(Bought(u)) \in Nat /\ Price * Cardinality(Charged(u)) \in Nat
        /\ Price * Cardinality(Paid(u)) \in Nat
        /\ Price * Cardinality(Bought(u) \cup Pending(u)) \in Nat
    BY <2>4, InCalls, PriceOf
  <2> QED BY <2>1, <2>5, <2>6 DEF SpentBy
<1> QED BY <1>1, MoneyInductive, PTL

(* Types.                                                                  *)
THEOREM TypeCorrect == Spec => []TypeOK
<1>1. IdsInv => TypeOK
  BY DEF IdsInv
<1> QED BY <1>1, IdsInductive, PTL

=============================================================================
