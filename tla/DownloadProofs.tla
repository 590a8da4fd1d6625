--------------------------- MODULE DownloadProofs ---------------------------
(***************************************************************************)
(* Proofs about download_software beside search_software, for any users,   *)
(* items and downloads, any time and any number of crashes: who owns an    *)
(* item is on its list, and who downloads it again is not counted again.   *)
(* And for any items, counts and titles that match: a search finds the     *)
(* best of them.                                                           *)
(***************************************************************************)
EXTENDS Download, FiniteSetTheorems, NaturalsInduction, WellFoundedInduction, TLAPS

(* What a flush keeps has the types of the trees.                          *)
Trees == [Items -> (SUBSET Entries) \cup {Absent}] \X [Users -> (SUBSET Items) \cup {Absent}]
OneEachSecond(entries) == \A e, f \in entries : e.time = f.time => e = f
Distinct ==
  /\ flushed \in Trees
  /\ \A i \in Items : flushed[1][i] # Absent => OneEachSecond(flushed[1][i])
  /\ \A d \in Downloads : OneEachSecond(download[d].downloads)

(* A download has its copies only while it works on them.                  *)
Shape ==
  /\ \A d \in Downloads : ~ Active(d) => download[d].list = {}
  /\ \A d \in Downloads : download[d].pc # "add" => download[d].downloads = {}

(* Items whose list is not what one download at a time would make of it.   *)
Mixed == crossed \cup collided

(* The copy of a list is what stands in the tree, and the list the search  *)
(* found missing is missing, unless the history has the item.              *)
Current(d) ==
  download[d].downloads = IF counts[Item(d)] = Absent THEN {} ELSE counts[Item(d)]
Fresh ==
  /\ \A d \in Downloads : download[d].pc = "add" => Item(d) \in crossed \/ Current(d)
  /\ \A d, e \in Downloads :
       download[d].pc = "add" /\ download[e].pc = "add" /\ d # e /\ Item(d) = Item(e)
         => Item(d) \in crossed
  /\ \A d \in Downloads : download[d].pc = "add" /\ search = Item(d) => Item(d) \in crossed
  /\ search # NoItem => search \in crossed \/ counts[search] = Absent

(* What is owned, on disk too, and what a download is about to make owned. *)
ListedOrMixed(u, i) == Listed(u, i) \/ i \in Mixed
Backed ==
  /\ OwnedIsListed
  /\ \A u \in Users, i \in Items : flushed[2][u] # Absent /\ i \in flushed[2][u] =>
       i \in Mixed \/ (flushed[1][i] # Absent /\ \E e \in flushed[1][i] : e.user = u)
  /\ \A d \in Downloads : \A i \in download[d].list : ListedOrMixed(User(d), i)
  /\ \A d \in Downloads : download[d].pc = "own" => ListedOrMixed(User(d), Item(d))

(* The entries of an item, in the tree or in the copy of a download.       *)
Held(e, i) ==
  \/ counts[i] # Absent /\ e \in counts[i]
  \/ \E d \in Downloads : Item(d) = i /\ e \in download[d].downloads
OnDisk(e, i) == flushed[1][i] # Absent /\ e \in flushed[1][i]
Asked(u, i) == [user |-> u, item |-> i] \in Requests
Plainly(u, i) == u \notin twice /\ [user |-> u, item |-> i] \notin halfway
Owning(u, i) == \E d \in Downloads : download[d].pc = "own" /\ User(d) = u /\ Item(d) = i

(* A user with one download at a time has one that is under way, and its   *)
(* list is what stands in the tree.                                        *)
Alone ==
  \A d \in Downloads : Active(d) /\ User(d) \notin twice =>
    /\ \A e \in Downloads : Active(e) /\ User(e) = User(d) => e = d
    /\ download[d].pc = "create" => ownership[User(d)] = Absent /\ download[d].list = {}
    /\ download[d].pc # "create" => ownership[User(d)] = download[d].list
    /\ download[d].pc # "own" => Item(d) \notin download[d].list

(* A download that was counted is owned or is about to be, and is counted  *)
(* in one entry, whichever copy of the list is looked at.                  *)
Once ==
  /\ \A i \in Items : \A e \in Entries : Held(e, i) \/ OnDisk(e, i) => Asked(e.user, i)
  /\ \A i \in Items : \A e, f \in Entries :
       e.user = f.user /\ Plainly(e.user, i) =>
         /\ Held(e, i) /\ Held(f, i) => e = f
         /\ OnDisk(e, i) /\ OnDisk(f, i) => e = f
  /\ \A i \in Items : \A e \in Entries :
       Held(e, i) /\ Plainly(e.user, i) => Owns(e.user, i) \/ Owning(e.user, i)

DownloadInv == TypeOK /\ Distinct /\ Shape /\ Fresh /\ Backed /\ Alone /\ Once

-----------------------------------------------------------------------------
(* What a step does to the downloads, field by field.                      *)

Others(d) == \A e \in Downloads \ {d} : download'[e] = download[e]
SameRequest(d) == download'[d].request = download[d].request
Keeps(d) ==
  /\ SameRequest(d)
  /\ download'[d].list = download[d].list /\ download'[d].downloads = download[d].downloads
ListOf(u) == IF ownership[u] = Absent THEN {} ELSE ownership[u]
CountsOf(i) == IF counts[i] = Absent THEN {} ELSE counts[i]

LEMMA Typed ==
  ASSUME TypeOK, NEW d \in Downloads
  PROVE  /\ download[d] \in Locals
         /\ download[d].pc # "start" => /\ download[d].request \in Requests
                                        /\ User(d) \in Users /\ Item(d) \in Items
         /\ download[d].list \subseteq Items /\ download[d].downloads \subseteq Entries
         /\ User(d) \in Users => ListOf(User(d)) \subseteq Items
         /\ Item(d) \in Items => CountsOf(Item(d)) \subseteq Entries
<1>1. download[d] \in Locals
  BY DEF TypeOK
<1>2. download[d].pc # "start" => download[d].request \in Requests
  BY <1>1 DEF TypeOK, Locals
<1>3. download[d].pc # "start" => User(d) \in Users /\ Item(d) \in Items
  BY <1>2, DownloadAssumption DEF User, Item
<1>4. download[d].list \subseteq Items /\ download[d].downloads \subseteq Entries
  BY <1>1 DEF Locals
<1>5. User(d) \in Users => ListOf(User(d)) \subseteq Items
  BY DEF TypeOK, ListOf
<1>6. Item(d) \in Items => CountsOf(Item(d)) \subseteq Entries
  BY DEF TypeOK, CountsOf
<1> QED BY <1>1, <1>2, <1>3, <1>4, <1>5, <1>6

LEMMA Effects ==
  ASSUME TypeOK, NEW d \in Downloads
  PROVE  /\ \A r \in Requests : Request(d, r) =>
              /\ download'[d].pc = "sending" /\ download'[d].request = r
              /\ download'[d].list = download[d].list
              /\ download'[d].downloads = download[d].downloads
              /\ download' \in [Downloads -> Locals] /\ Others(d)
         /\ ReadOwned(d) =>
              /\ download'[d].pc = (IF ownership[User(d)] = Absent THEN "create"
                                    ELSE IF Item(d) \in ownership[User(d)] THEN "own"
                                    ELSE "count")
              /\ download'[d].list = ListOf(User(d)) /\ SameRequest(d)
              /\ download'[d].downloads = download[d].downloads
              /\ download' \in [Downloads -> Locals] /\ Others(d)
         /\ CreateOwned(d) =>
              /\ download'[d].pc = "count" /\ Keeps(d)
              /\ download' \in [Downloads -> Locals] /\ Others(d)
         /\ ReadCounts(d) =>
              /\ download'[d].pc = "add" /\ download'[d].list = download[d].list
              /\ download'[d].downloads = CountsOf(Item(d)) /\ SameRequest(d)
              /\ download' \in [Downloads -> Locals] /\ Others(d)
         /\ AddCount(d) =>
              /\ download'[d].pc = "own" /\ download'[d].list = download[d].list
              /\ download'[d].downloads = {} /\ SameRequest(d)
              /\ download' \in [Downloads -> Locals] /\ Others(d)
         /\ WriteOwned(d) =>
              /\ download'[d].pc = "done" /\ download'[d].list = {}
              /\ download'[d].downloads = download[d].downloads /\ SameRequest(d)
              /\ download' \in [Downloads -> Locals] /\ Others(d)
<1> USE DEF Others, SameRequest, Keeps
<1>0. download \in [Downloads -> Locals] /\ download[d] \in Locals
  BY DEF TypeOK
<1>1. ASSUME NEW r \in Requests, Request(d, r)
      PROVE  /\ download'[d].pc = "sending" /\ download'[d].request = r
             /\ download'[d].list = download[d].list
             /\ download'[d].downloads = download[d].downloads
             /\ download' \in [Downloads -> Locals] /\ Others(d)
  <2> DEFINE l == [download[d] EXCEPT !.pc = "sending", !.request = r]
  <2>1. download' = [download EXCEPT ![d] = l]
    BY <1>1 DEF Request
  <2>2. l \in Locals
    BY <1>0 DEF Locals
  <2>3. download'[d] = l /\ Others(d) /\ download' \in [Downloads -> Locals]
    BY <1>0, <2>1, <2>2
  <2> QED BY <1>0, <2>3 DEF Locals
<1>2. ASSUME ReadOwned(d)
      PROVE  /\ download'[d].pc = (IF ownership[User(d)] = Absent THEN "create"
                                   ELSE IF Item(d) \in ownership[User(d)] THEN "own"
                                   ELSE "count")
             /\ download'[d].list = ListOf(User(d)) /\ SameRequest(d)
             /\ download'[d].downloads = download[d].downloads
             /\ download' \in [Downloads -> Locals] /\ Others(d)
  <2> DEFINE at == IF ownership[User(d)] = Absent THEN "create"
                   ELSE IF Item(d) \in ownership[User(d)] THEN "own" ELSE "count"
             l == [download[d] EXCEPT !.list = ListOf(User(d)), !.pc = at]
  <2>1. download' = [download EXCEPT ![d] = l]
    BY <1>2 DEF ReadOwned, ListOf
  <2>2. download[d].pc = "sending" /\ at \in {"create", "own", "count"}
    BY <1>2 DEF ReadOwned
  <2> HIDE DEF at
  <2>3. ListOf(User(d)) \subseteq Items
    BY <2>2, Typed
  <2>4. l \in Locals
    BY <1>0, <2>2, <2>3 DEF Locals
  <2>5. download'[d] = l /\ Others(d) /\ download' \in [Downloads -> Locals]
    BY <1>0, <2>1, <2>4
  <2>6. l.pc = at /\ l.list = ListOf(User(d)) /\ l.request = download[d].request
        /\ l.downloads = download[d].downloads
    BY <1>0 DEF Locals
  <2> QED BY <2>5, <2>6 DEF at
<1>3. ASSUME CreateOwned(d)
      PROVE  /\ download'[d].pc = "count" /\ Keeps(d)
             /\ download' \in [Downloads -> Locals] /\ Others(d)
  <2> DEFINE l == [download[d] EXCEPT !.pc = "count"]
  <2>1. download' = [download EXCEPT ![d] = l]
    BY <1>3 DEF CreateOwned, Goes
  <2>2. l \in Locals
    BY <1>0 DEF Locals
  <2>3. download'[d] = l /\ Others(d) /\ download' \in [Downloads -> Locals]
    BY <1>0, <2>1, <2>2
  <2> QED BY <1>0, <2>3 DEF Locals
<1>4. ASSUME ReadCounts(d)
      PROVE  /\ download'[d].pc = "add" /\ download'[d].list = download[d].list
             /\ download'[d].downloads = CountsOf(Item(d)) /\ SameRequest(d)
             /\ download' \in [Downloads -> Locals] /\ Others(d)
  <2> DEFINE l == [download[d] EXCEPT !.pc = "add", !.downloads = CountsOf(Item(d))]
  <2>1. download' = [download EXCEPT ![d] = l]
    BY <1>4 DEF ReadCounts, CountsOf
  <2>2. CountsOf(Item(d)) \subseteq Entries
    BY <1>4, Typed DEF ReadCounts
  <2>3. l \in Locals
    BY <1>0, <2>2 DEF Locals
  <2>4. download'[d] = l /\ Others(d) /\ download' \in [Downloads -> Locals]
    BY <1>0, <2>1, <2>3
  <2> QED BY <1>0, <2>4 DEF Locals
<1>5. ASSUME AddCount(d)
      PROVE  /\ download'[d].pc = "own" /\ download'[d].list = download[d].list
             /\ download'[d].downloads = {} /\ SameRequest(d)
             /\ download' \in [Downloads -> Locals] /\ Others(d)
  <2> DEFINE l == [download[d] EXCEPT !.pc = "own", !.downloads = {}]
  <2>1. download' = [download EXCEPT ![d] = l]
    BY <1>5 DEF AddCount
  <2>2. l \in Locals
    BY <1>0 DEF Locals
  <2>3. download'[d] = l /\ Others(d) /\ download' \in [Downloads -> Locals]
    BY <1>0, <2>1, <2>2
  <2> QED BY <1>0, <2>3 DEF Locals
<1>6. ASSUME WriteOwned(d)
      PROVE  /\ download'[d].pc = "done" /\ download'[d].list = {}
             /\ download'[d].downloads = download[d].downloads /\ SameRequest(d)
             /\ download' \in [Downloads -> Locals] /\ Others(d)
  <2> DEFINE l == [download[d] EXCEPT !.pc = "done", !.list = {}]
  <2>1. download' = [download EXCEPT ![d] = l]
    BY <1>6 DEF WriteOwned
  <2>2. l \in Locals
    BY <1>0 DEF Locals
  <2>3. download'[d] = l /\ Others(d) /\ download' \in [Downloads -> Locals]
    BY <1>0, <2>1, <2>2
  <2> QED BY <1>0, <2>3 DEF Locals
<1> QED BY <1>1, <1>2, <1>3, <1>4, <1>5, <1>6

(* What a download writes to the list of its item.                         *)
Entry(d) == [time |-> now, user |-> User(d)]
Added(d) == IF SameSecond(d) THEN {} ELSE {Entry(d)}

LEMMA AddCountWrites ==
  ASSUME TypeOK, NEW d \in Downloads, AddCount(d)
  PROVE  /\ download[d].pc = "add" /\ User(d) \in Users /\ Item(d) \in Items
         /\ Entry(d) \in Entries /\ Added(d) \subseteq Entries
         /\ counts'[Item(d)] = download[d].downloads \cup Added(d)
         /\ counts'[Item(d)] \in SUBSET Entries /\ counts'[Item(d)] # Absent
         /\ \A i \in Items : i # Item(d) => counts'[i] = counts[i]
         /\ counts' \in [Items -> (SUBSET Entries) \cup {Absent}]
<1>1. download[d].pc = "add" /\ User(d) \in Users /\ Item(d) \in Items
      /\ download[d].downloads \subseteq Entries
  BY Typed DEF AddCount
<1>2. Entry(d) \in Entries
  BY <1>1 DEF TypeOK, Entries, Entry
<1>3. Added(d) \subseteq Entries
  BY <1>2 DEF Added
<1>4. counts' = [counts EXCEPT ![Item(d)] = download[d].downloads \cup Added(d)]
  BY DEF AddCount, Added, Entry
<1>5. counts \in [Items -> (SUBSET Entries) \cup {Absent}]
  BY DEF TypeOK
<1>6. /\ counts'[Item(d)] = download[d].downloads \cup Added(d)
      /\ \A i \in Items : i # Item(d) => counts'[i] = counts[i]
      /\ counts' \in [Items -> (SUBSET Entries) \cup {Absent}]
  BY <1>1, <1>3, <1>4, <1>5
<1>7. counts'[Item(d)] \in SUBSET Entries
  BY <1>1, <1>3, <1>6
<1>8. counts'[Item(d)] # Absent
  BY <1>7, DownloadAssumption DEF Entries
<1> QED BY <1>1, <1>2, <1>3, <1>6, <1>7, <1>8

LEMMA WriteOwnedWrites ==
  ASSUME TypeOK, NEW d \in Downloads, WriteOwned(d)
  PROVE  /\ download[d].pc = "own" /\ User(d) \in Users /\ Item(d) \in Items
         /\ ownership'[User(d)] = download[d].list \cup {Item(d)}
         /\ ownership'[User(d)] # Absent
         /\ \A u \in Users : u # User(d) => ownership'[u] = ownership[u]
         /\ ownership' \in [Users -> (SUBSET Items) \cup {Absent}]
<1>1. download[d].pc = "own" /\ User(d) \in Users /\ Item(d) \in Items
      /\ download[d].list \subseteq Items
  BY Typed DEF WriteOwned
<1>2. ownership' = [ownership EXCEPT ![User(d)] = download[d].list \cup {Item(d)}]
  BY DEF WriteOwned
<1>3. ownership \in [Users -> (SUBSET Items) \cup {Absent}]
  BY DEF TypeOK
<1>4. download[d].list \cup {Item(d)} \in SUBSET Items
  BY <1>1
<1>5. download[d].list \cup {Item(d)} # Absent
  BY <1>4, DownloadAssumption
<1> QED BY <1>1, <1>2, <1>3, <1>4, <1>5

LEMMA CreateOwnedWrites ==
  ASSUME TypeOK, NEW d \in Downloads, CreateOwned(d)
  PROVE  /\ download[d].pc = "create" /\ User(d) \in Users /\ Item(d) \in Items
         /\ ownership'[User(d)] = {} /\ {} # Absent
         /\ \A u \in Users : u # User(d) => ownership'[u] = ownership[u]
         /\ ownership' \in [Users -> (SUBSET Items) \cup {Absent}]
<1>1. download[d].pc = "create" /\ User(d) \in Users /\ Item(d) \in Items
  BY Typed DEF CreateOwned, Goes
<1>2. ownership' = [ownership EXCEPT ![User(d)] = {}]
  BY DEF CreateOwned
<1>3. {} # Absent
  BY DownloadAssumption
<1> QED BY <1>1, <1>2, <1>3 DEF TypeOK

LEMMA SearchWrites ==
  ASSUME TypeOK, SearchInserts
  PROVE  /\ search \in Items /\ counts'[search] = {} /\ {} # Absent
         /\ \A i \in Items : i # search => counts'[i] = counts[i]
         /\ counts' \in [Items -> (SUBSET Entries) \cup {Absent}]
<1>1. search \in Items /\ counts' = [counts EXCEPT ![search] = {}]
  BY DEF SearchInserts, TypeOK
<1>2. {} # Absent
  BY DownloadAssumption
<1> QED BY <1>1, <1>2 DEF TypeOK

LEMMA CrashRestores ==
  ASSUME TypeOK, flushed \in Trees, Crash
  PROVE  /\ counts' = flushed[1] /\ ownership' = flushed[2] /\ search' = NoItem
         /\ download' \in [Downloads -> Locals]
         /\ \A d \in Downloads :
              /\ download'[d].pc \in {"start", "cut"}
              /\ download[d].pc = "start" => download'[d] = download[d]
              /\ download[d].pc # "start" =>
                   /\ download'[d].list = {} /\ download'[d].downloads = {}
                   /\ download'[d].pc = "cut" /\ SameRequest(d)
<1>1. counts' = flushed[1] /\ ownership' = flushed[2] /\ search' = NoItem
  BY DEF Crash
<1>2. ASSUME NEW d \in Downloads
      PROVE  LET l == [New EXCEPT !.pc = "cut", !.request = download[d].request]
             IN  /\ l \in Locals /\ l.pc = "cut" /\ l.request = download[d].request
                 /\ l.list = {} /\ l.downloads = {}
  <2>1. download[d].request \in Requests \cup {NoRequest}
    BY Typed DEF Locals
  <2> QED BY <2>1 DEF New, Locals
<1>3. download \in [Downloads -> Locals]
  BY DEF TypeOK
<1>4. download' = [d \in Downloads |->
        IF download[d].pc = "start" THEN download[d]
        ELSE [New EXCEPT !.pc = "cut", !.request = download[d].request]]
  BY DEF Crash
<1>5. download' \in [Downloads -> Locals]
  BY <1>2, <1>3, <1>4
<1> QED BY <1>1, <1>2, <1>4, <1>5 DEF SameRequest

-----------------------------------------------------------------------------
(* Types.                                                                  *)

LEMMA DownloadInit == Init => DownloadInv
<1> SUFFICES ASSUME Init PROVE DownloadInv
  OBVIOUS
<1> USE DownloadAssumption DEF Init
<1>1. New \in Locals /\ New.pc = "start" /\ New.list = {} /\ New.downloads = {}
  BY DEF New, Locals
<1>2. /\ \A d \in Downloads : download[d] = New
      /\ \A i \in Items : counts[i] = Absent /\ flushed[1][i] = Absent
      /\ \A u \in Users : ownership[u] = Absent /\ flushed[2][u] = Absent
  BY DEF trees
<1>3. TypeOK
  BY <1>1, <1>2 DEF TypeOK
<1>4. Distinct
  BY <1>1, <1>2 DEF Distinct, Trees, trees, OneEachSecond
<1>5. Shape /\ Fresh
  BY <1>1, <1>2 DEF Shape, Fresh
<1>6. Backed
  BY <1>1, <1>2 DEF Backed, OwnedIsListed, Owns
<1>7. Alone
  BY <1>1, <1>2 DEF Alone, Active
<1>8. Once
  BY <1>1, <1>2 DEF Once, Held, OnDisk
<1> QED BY <1>3, <1>4, <1>5, <1>6, <1>7, <1>8 DEF DownloadInv

LEMMA HistoryTyped ==
  ASSUME TypeOK, [Next]_vars
  PROVE  /\ crossed' \subseteq Items /\ collided' \subseteq Items /\ twice' \subseteq Users
         /\ halfway' \subseteq Requests
         /\ crossed \subseteq crossed' /\ collided \subseteq collided' /\ twice \subseteq twice'
         /\ halfway \subseteq halfway'
<1> DEFINE Goal == /\ crossed' \subseteq Items /\ collided' \subseteq Items
                   /\ twice' \subseteq Users /\ halfway' \subseteq Requests
                   /\ crossed \subseteq crossed' /\ collided \subseteq collided'
                   /\ twice \subseteq twice' /\ halfway \subseteq halfway'
<1>0. crossed \subseteq Items /\ collided \subseteq Items /\ twice \subseteq Users
      /\ halfway \subseteq Requests
  BY DEF TypeOK
<1>1. ASSUME UNCHANGED history PROVE Goal
  BY <1>0, <1>1 DEF history
<1>2. ASSUME NEW d \in Downloads, ReadOwned(d) PROVE Goal
  BY <1>0, <1>2, Typed DEF ReadOwned, Starts
<1>3. ASSUME NEW d \in Downloads, ReadCounts(d) PROVE Goal
  BY <1>0, <1>3, Typed DEF ReadCounts, Crosses
<1>4. ASSUME NEW d \in Downloads, AddCount(d) PROVE Goal
  BY <1>0, <1>4, Typed DEF AddCount
<1>5. ASSUME NEW i \in Items, SearchReads(i) PROVE Goal
  BY <1>0, <1>5 DEF SearchReads, Crosses
<1>6. ASSUME Crash PROVE Goal
  BY <1>0, <1>6 DEF Crash
<1> HIDE DEF Goal
<1>7. Goal
  BY <1>1, <1>2, <1>3, <1>4, <1>5, <1>6
     DEF Next, Handle, Request, CreateOwned, WriteOwned, SearchInserts, Tick, Flush, vars
<1> QED BY <1>7 DEF Goal

(* TypeOK from its parts, the history apart.                               *)
LEMMA TypedAgain ==
  ASSUME TypeOK, [Next]_vars,
         counts' \in [Items -> (SUBSET Entries) \cup {Absent}],
         ownership' \in [Users -> (SUBSET Items) \cup {Absent}],
         download' \in [Downloads -> Locals],
         now' \in 0..MaxTime, search' \in Items \cup {NoItem}, crashes' \in 0..MaxCrashes,
         \A d \in Downloads : download'[d].pc # "start" => download'[d].request # NoRequest,
         \A i \in Items : counts'[i] # Absent => OneEachSecond(counts'[i])
  PROVE  TypeOK'
BY HistoryTyped DEF TypeOK, OneEachSecond

LEMMA TypeStep ==
  ASSUME TypeOK, Distinct, [Next]_vars
  PROVE  TypeOK' /\ Distinct'
<1> DEFINE Fine == /\ counts' \in [Items -> (SUBSET Entries) \cup {Absent}]
                   /\ \A i \in Items : counts'[i] # Absent => OneEachSecond(counts'[i])
           Asks == /\ download' \in [Downloads -> Locals]
                   /\ \A d \in Downloads : /\ OneEachSecond(download'[d].downloads)
                                           /\ download'[d].pc # "start" =>
                                                download'[d].request # NoRequest
<1>0. /\ counts \in [Items -> (SUBSET Entries) \cup {Absent}]
      /\ ownership \in [Users -> (SUBSET Items) \cup {Absent}]
      /\ download \in [Downloads -> Locals]
      /\ now \in 0..MaxTime /\ search \in Items \cup {NoItem} /\ crashes \in 0..MaxCrashes
      /\ \A d \in Downloads : download[d].pc # "start" => download[d].request # NoRequest
      /\ \A i \in Items : counts[i] # Absent => OneEachSecond(counts[i])
  BY DEF TypeOK, OneEachSecond
<1>1. ASSUME UNCHANGED counts PROVE Fine
  BY <1>0, <1>1
<1>2. ASSUME UNCHANGED download PROVE Asks
  BY <1>0, <1>2 DEF Distinct
<1>3. ASSUME UNCHANGED flushed, Asks PROVE Distinct'
  BY <1>3 DEF Distinct
<1>4. ASSUME NEW d \in Downloads, Others(d), download' \in [Downloads -> Locals],
             OneEachSecond(download'[d].downloads), download'[d].request # NoRequest
      PROVE  Asks
  BY <1>0, <1>4 DEF Others, Distinct
<1>5. ASSUME NEW d \in Downloads, Others(d), download' \in [Downloads -> Locals],
             OneEachSecond(download'[d].downloads), SameRequest(d), download[d].pc # "start"
      PROVE  Asks
  BY <1>0, <1>4, <1>5 DEF SameRequest
<1>6. \A d \in Downloads : OneEachSecond(download[d].downloads)
  BY DEF Distinct
<1>7. ASSUME NEW d \in Downloads, NEW r \in Requests, Request(d, r) PROVE TypeOK' /\ Distinct'
  <2>1. UNCHANGED <<trees, flushed, now, search, crashes>> /\ r # NoRequest
    BY <1>7, DownloadAssumption DEF Request
  <2>2. Asks
    BY <1>4, <1>6, <1>7, <2>1, Effects
  <2> QED BY <1>0, <1>1, <1>3, <2>1, <2>2, TypedAgain DEF trees
<1>8. ASSUME NEW d \in Downloads, ReadOwned(d) PROVE TypeOK' /\ Distinct'
  <2>1. UNCHANGED <<trees, flushed, now, search, crashes>> /\ download[d].pc = "sending"
    BY <1>8 DEF ReadOwned
  <2>2. Asks
    BY <1>5, <1>6, <1>8, <2>1, Effects
  <2> QED BY <1>0, <1>1, <1>3, <2>1, <2>2, TypedAgain DEF trees
<1>9. ASSUME NEW d \in Downloads, CreateOwned(d) PROVE TypeOK' /\ Distinct'
  <2>1. UNCHANGED <<counts, flushed, now, search, crashes>>
    BY <1>9 DEF CreateOwned
  <2>2. Asks
    BY <1>5, <1>6, <1>9, Effects, CreateOwnedWrites DEF Keeps
  <2> QED BY <1>0, <1>1, <1>3, <1>9, <2>1, <2>2, TypedAgain, CreateOwnedWrites
<1>10. ASSUME NEW d \in Downloads, ReadCounts(d) PROVE TypeOK' /\ Distinct'
  <2>1. UNCHANGED <<trees, flushed, now, search, crashes>> /\ download[d].pc = "count"
    BY <1>10 DEF ReadCounts
  <2>2. OneEachSecond(CountsOf(Item(d)))
    BY <1>0, <2>1, Typed DEF CountsOf, OneEachSecond
  <2>3. Asks
    BY <1>5, <1>10, <2>1, <2>2, Effects
  <2> QED BY <1>0, <1>1, <1>3, <2>1, <2>3, TypedAgain DEF trees
<1>11. ASSUME NEW d \in Downloads, AddCount(d) PROVE TypeOK' /\ Distinct'
  <2>1. UNCHANGED <<ownership, flushed, now, search, crashes>>
    BY <1>11 DEF AddCount
  <2>2. OneEachSecond({})
    BY DEF OneEachSecond
  <2>3. Asks
    BY <1>5, <1>11, <2>2, Effects, AddCountWrites
  <2>4. OneEachSecond(download[d].downloads \cup Added(d))
    BY <1>6 DEF OneEachSecond, Added, SameSecond, Entry
  <2>5. Fine
    BY <1>0, <1>11, <2>4, AddCountWrites
  <2> QED BY <1>0, <1>3, <2>1, <2>3, <2>5, TypedAgain
<1>12. ASSUME NEW d \in Downloads, WriteOwned(d) PROVE TypeOK' /\ Distinct'
  <2>1. UNCHANGED <<counts, flushed, now, search, crashes>>
    BY <1>12 DEF WriteOwned
  <2>2. Asks
    BY <1>5, <1>6, <1>12, Effects, WriteOwnedWrites
  <2> QED BY <1>0, <1>1, <1>3, <1>12, <2>1, <2>2, TypedAgain, WriteOwnedWrites
<1>13. ASSUME NEW i \in Items, SearchReads(i) PROVE TypeOK' /\ Distinct'
  <2>1. UNCHANGED <<trees, flushed, now, download, crashes>> /\ search' = i
    BY <1>13 DEF SearchReads
  <2> QED BY <1>0, <1>1, <1>2, <1>3, <2>1, TypedAgain DEF trees
<1>14. ASSUME SearchInserts PROVE TypeOK' /\ Distinct'
  <2>1. UNCHANGED <<ownership, flushed, now, download, crashes>> /\ search' = NoItem
    BY <1>14 DEF SearchInserts
  <2>2. Fine
    BY <1>0, <1>14, SearchWrites DEF OneEachSecond
  <2> QED BY <1>0, <1>2, <1>3, <2>1, <2>2, TypedAgain
<1>15. ASSUME Tick PROVE TypeOK' /\ Distinct'
  <2>1. UNCHANGED <<trees, flushed, download, search, crashes>>
        /\ now < MaxTime /\ now' = now + 1
    BY <1>15 DEF Tick
  <2>2. now' \in 0..MaxTime
    BY <1>0, <2>1, DownloadAssumption
  <2> QED BY <1>0, <1>1, <1>2, <1>3, <2>1, <2>2, TypedAgain DEF trees
<1>16. ASSUME Flush PROVE TypeOK' /\ Distinct'
  <2>1. UNCHANGED <<trees, now, download, search, crashes>> /\ flushed' = <<counts, ownership>>
    BY <1>16 DEF Flush, trees
  <2>2. Distinct'
    BY <1>0, <1>2, <2>1 DEF Distinct, Trees
  <2> QED BY <1>0, <1>1, <1>2, <2>1, <2>2, TypedAgain DEF trees
<1>17. ASSUME Crash PROVE TypeOK' /\ Distinct'
  <2>1. UNCHANGED <<flushed, now>> /\ crashes < MaxCrashes /\ crashes' = crashes + 1
    BY <1>17 DEF Crash
  <2>2. crashes' \in 0..MaxCrashes
    BY <1>0, <2>1, DownloadAssumption
  <2>3. flushed \in Trees
    BY DEF Distinct
  <2>4. Asks
    BY <1>0, <1>6, <1>17, <2>3, CrashRestores DEF OneEachSecond, SameRequest
  <2>5. Fine /\ ownership' \in [Users -> (SUBSET Items) \cup {Absent}]
    BY <1>17, <2>3, CrashRestores DEF Trees, Distinct
  <2>6. search' = NoItem
    BY <1>17 DEF Crash
  <2> QED BY <1>0, <1>3, <2>1, <2>2, <2>4, <2>5, <2>6, TypedAgain
<1>18. ASSUME UNCHANGED vars PROVE TypeOK' /\ Distinct'
  BY <1>0, <1>1, <1>2, <1>3, <1>18, TypedAgain DEF vars, trees
<1> QED
  BY <1>7, <1>8, <1>9, <1>10, <1>11, <1>12, <1>13, <1>14, <1>15, <1>16, <1>17, <1>18
     DEF Next, Handle

LEMMA ShapeStep == ASSUME TypeOK, Distinct, Shape, [Next]_vars PROVE Shape'
<1> USE DEF Shape, Active, Others
<1>1. ASSUME NEW d \in Downloads, NEW r \in Requests, Request(d, r) PROVE Shape'
  <2>1. download[d].pc = "start"
    BY <1>1 DEF Request
  <2> QED BY <1>1, <2>1, Effects
<1>2. ASSUME NEW d \in Downloads, ReadOwned(d) PROVE Shape'
  <2>1. download[d].pc = "sending"
    BY <1>2 DEF ReadOwned
  <2>2. download'[d].pc \in {"create", "count", "own"}
    BY <1>2, Effects
  <2> QED BY <1>2, <2>1, <2>2, Effects
<1>3. ASSUME NEW d \in Downloads, CreateOwned(d) PROVE Shape'
  BY <1>3, Effects, CreateOwnedWrites DEF Keeps
<1>4. ASSUME NEW d \in Downloads, ReadCounts(d) PROVE Shape'
  BY <1>4, Effects
<1>5. ASSUME NEW d \in Downloads, AddCount(d) PROVE Shape'
  BY <1>5, Effects
<1>6. ASSUME NEW d \in Downloads, WriteOwned(d) PROVE Shape'
  BY <1>6, Effects, WriteOwnedWrites
<1>7. ASSUME UNCHANGED download PROVE Shape'
  BY <1>7
<1>8. ASSUME Crash PROVE Shape'
  BY <1>8, CrashRestores DEF Distinct
<1> QED
  BY <1>1, <1>2, <1>3, <1>4, <1>5, <1>6, <1>7, <1>8
     DEF Next, Handle, SearchReads, SearchInserts, Tick, Flush, vars

-----------------------------------------------------------------------------
(* Who owns an item is on its list.                                        *)

LEMMA FreshStep == ASSUME TypeOK, Distinct, Fresh, [Next]_vars PROVE Fresh'
<1> DEFINE Adds(d) == download[d].pc = "add"
<1>1. ASSUME UNCHANGED <<counts, search, crossed>>,
             \A e \in Downloads : Adds(e)' => Adds(e) /\ download'[e] = download[e]
      PROVE  Fresh'
  BY <1>1 DEF Fresh, Current, Item
<1>2. ASSUME NEW d \in Downloads, Others(d), UNCHANGED <<counts, search, crossed>>,
             download'[d].pc # "add"
      PROVE  Fresh'
  BY <1>1, <1>2 DEF Others
<1>3. ASSUME NEW d \in Downloads,
             (\E r \in Requests : Request(d, r)) \/ CreateOwned(d) \/ WriteOwned(d) \/ ReadOwned(d)
      PROVE  Fresh'
  <2>1. UNCHANGED <<counts, search, crossed>>
    BY <1>3 DEF Request, CreateOwned, WriteOwned, ReadOwned, trees, history
  <2>2. Others(d) /\ download'[d].pc # "add"
    BY <1>3, Effects
  <2> QED BY <1>2, <2>1, <2>2
<1>4. ASSUME NEW d \in Downloads, ReadCounts(d) PROVE Fresh'
  <2>1. /\ download'[d].pc = "add" /\ download'[d].downloads = CountsOf(Item(d))
        /\ Item(d)' = Item(d) /\ Others(d)
    BY <1>4, Effects DEF SameRequest, Item
  <2>2. /\ UNCHANGED <<counts, search>> /\ download[d].pc = "count"
        /\ crossed' = IF Adding(Item(d)) # {} \/ search = Item(d)
                      THEN crossed \cup {Item(d)} ELSE crossed
    BY <1>4 DEF ReadCounts, Crosses, trees
  <2>3. Current(d)'
    BY <2>1, <2>2 DEF Current, CountsOf
  <2>4. \A e \in Downloads \ {d} : Adds(e)' = Adds(e) /\ Item(e)' = Item(e)
                                   /\ Current(e)' = Current(e)
    BY <2>1, <2>2 DEF Others, Item, Current
  <2>5. ASSUME NEW e \in Downloads \ {d}, Adds(e), Item(e) = Item(d)
        PROVE  Item(d) \in crossed'
    BY <2>2, <2>5 DEF Adding
  <2> QED BY <2>1, <2>2, <2>3, <2>4, <2>5 DEF Fresh
<1>5. ASSUME NEW d \in Downloads, AddCount(d) PROVE Fresh'
  <2>1. Others(d) /\ download'[d].pc = "own" /\ UNCHANGED <<search, crossed>>
    BY <1>5, Effects DEF AddCount
  <2>2. /\ download[d].pc = "add" /\ Item(d) \in Items
        /\ \A i \in Items : i # Item(d) => counts'[i] = counts[i]
    BY <1>5, AddCountWrites
  <2>3. ASSUME NEW e \in Downloads, Adds(e)'
        PROVE  e # d /\ Adds(e) /\ Item(e)' = Item(e) /\ Item(e) \in Items
               /\ (Item(e) = Item(d) => Item(e) \in crossed)
               /\ (Item(e) # Item(d) => Current(e)' = Current(e))
    BY <2>1, <2>2, <2>3, Typed DEF Others, Item, Current, Fresh
  <2>4. search # NoItem => search \in Items /\ (search = Item(d) => search \in crossed)
    BY <2>2 DEF TypeOK, Fresh
  <2> QED BY <2>1, <2>2, <2>3, <2>4 DEF Fresh
<1>6. ASSUME NEW i \in Items, SearchReads(i) PROVE Fresh'
  <2>1. /\ UNCHANGED <<counts, download>> /\ search' = i /\ counts[i] = Absent
        /\ crossed' = IF Adding(i) # {} \/ search = i THEN crossed \cup {i} ELSE crossed
    BY <1>6 DEF SearchReads, Crosses, trees
  <2>2. \A d \in Downloads : Item(d)' = Item(d) /\ Current(d)' = Current(d)
    BY <2>1 DEF Item, Current
  <2>3. ASSUME NEW d \in Downloads, Adds(d), Item(d) = i PROVE i \in crossed'
    BY <2>1, <2>3 DEF Adding
  <2> QED BY <2>1, <2>2, <2>3 DEF Fresh
<1>7. ASSUME SearchInserts PROVE Fresh'
  <2>1. UNCHANGED <<download, crossed>> /\ search' = NoItem /\ search # NoItem
    BY <1>7 DEF SearchInserts, history
  <2>2. NoItem \notin Items
    BY DownloadAssumption
  <2>3. ASSUME NEW d \in Downloads, Adds(d)
        PROVE  /\ Item(d)' = Item(d) /\ Item(d) \in Items
               /\ Item(d) = search => Item(d) \in crossed
               /\ Item(d) # search => Current(d)' = Current(d)
    BY <1>7, <2>1, <2>3, Typed, SearchWrites DEF Item, Current, Fresh
  <2> QED BY <2>1, <2>2, <2>3 DEF Fresh
<1>8. ASSUME Crash PROVE Fresh'
  <2>1. search' = NoItem /\ \A d \in Downloads : ~ Adds(d)'
    BY <1>8, CrashRestores DEF Distinct
  <2> QED BY <2>1 DEF Fresh
<1>9. ASSUME Tick \/ Flush \/ UNCHANGED vars PROVE Fresh'
  BY <1>1, <1>9 DEF Tick, Flush, vars, trees, history
<1> QED BY <1>3, <1>4, <1>5, <1>6, <1>7, <1>8, <1>9 DEF Next, Handle

LEMMA ListedStays ==
  ASSUME TypeOK, Distinct, Fresh, [Next]_vars, ~ Crash, NEW u \in Users, NEW i \in Items,
         ListedOrMixed(u, i)
  PROVE  ListedOrMixed(u, i)'
<1>1. Mixed \subseteq Mixed'
  BY HistoryTyped DEF Mixed
<1>2. ASSUME UNCHANGED counts PROVE ListedOrMixed(u, i)'
  BY <1>1, <1>2 DEF ListedOrMixed, Listed
<1>3. ASSUME NEW d \in Downloads, AddCount(d) PROVE ListedOrMixed(u, i)'
  <2>1. CASE i = Item(d) /\ i \notin Mixed
    <3>1. Current(d)
      BY <1>3, <2>1, AddCountWrites DEF Fresh, Mixed
    <3>2. PICK e \in counts[i] : counts[i] # Absent /\ e.user = u
      BY <2>1 DEF ListedOrMixed, Listed
    <3>3. e \in counts'[i] /\ counts'[i] # Absent
      BY <1>3, <2>1, <3>1, <3>2, AddCountWrites DEF Current
    <3> QED BY <3>2, <3>3 DEF ListedOrMixed, Listed
  <2>2. CASE i # Item(d)
    BY <1>1, <1>3, <2>2, AddCountWrites DEF ListedOrMixed, Listed
  <2> QED BY <1>1, <2>1, <2>2 DEF ListedOrMixed
<1>4. ASSUME SearchInserts PROVE ListedOrMixed(u, i)'
  <2>1. search # NoItem
    BY <1>4 DEF SearchInserts
  <2>2. CASE i = search
    BY <1>1, <2>1, <2>2 DEF ListedOrMixed, Listed, Fresh, Mixed
  <2>3. CASE i # search
    BY <1>1, <1>4, <2>3, SearchWrites DEF ListedOrMixed, Listed
  <2> QED BY <2>2, <2>3
<1> QED
  BY <1>2, <1>3, <1>4
     DEF Next, Handle, Request, ReadOwned, CreateOwned, ReadCounts, WriteOwned, SearchReads,
         Tick, Flush, vars, trees

LEMMA BackedStep ==
  ASSUME TypeOK, Distinct, Shape, Fresh, Backed, [Next]_vars
  PROVE  Backed'
<1> DEFINE Owned == \A u \in Users, i \in Items : Owns(u, i) => ListedOrMixed(u, i)
           Disk == \A u \in Users, i \in Items :
                     flushed[2][u] # Absent /\ i \in flushed[2][u] =>
                       i \in Mixed \/ (flushed[1][i] # Absent
                                       /\ \E e \in flushed[1][i] : e.user = u)
           Copy(d) == /\ \A i \in download[d].list : ListedOrMixed(User(d), i)
                      /\ download[d].pc = "own" => ListedOrMixed(User(d), Item(d))
<1>1. Backed <=> Owned /\ Disk /\ \A d \in Downloads : Copy(d)
  BY DEF Backed, OwnedIsListed, ListedOrMixed, Mixed
<1>2. Backed' <=> Owned' /\ Disk' /\ \A d \in Downloads : Copy(d)'
  BY DEF Backed, OwnedIsListed, ListedOrMixed, Mixed
<1>3. Mixed \subseteq Mixed'
  BY HistoryTyped DEF Mixed
<1>4. ASSUME UNCHANGED flushed PROVE Disk'
  BY <1>1, <1>3, <1>4
<1>5. ASSUME UNCHANGED ownership, ~ Crash PROVE Owned'
  BY <1>1, <1>5, ListedStays DEF Owns
<1>6. ASSUME NEW d \in Downloads, download'[d] = download[d], ~ Crash PROVE Copy(d)'
  <2>1. User(d)' = User(d) /\ Item(d)' = Item(d)
    BY <1>6 DEF User, Item
  <2>2. download[d].pc # "start" => User(d) \in Users /\ Item(d) \in Items
        /\ download[d].list \subseteq Items
    BY Typed
  <2>3. download[d].pc = "start" => download[d].list = {}
    BY DEF Shape, Active
  <2> QED BY <1>1, <1>6, <2>1, <2>2, <2>3, ListedStays
<1>7. ASSUME NEW d \in Downloads, Others(d), ~ Crash, UNCHANGED flushed, Owned', Copy(d)'
      PROVE  Backed'
  BY <1>2, <1>4, <1>6, <1>7 DEF Others
<1>8. ASSUME NEW d \in Downloads, Others(d), ~ Crash, UNCHANGED flushed, Owned',
             Keeps(d), download'[d].pc # "own", download[d].pc # "start"
      PROVE  Backed'
  <2>1. User(d)' = User(d) /\ Item(d)' = Item(d)
    BY <1>8 DEF Keeps, SameRequest, User, Item
  <2>2. User(d) \in Users /\ download[d].list \subseteq Items
    BY <1>8, Typed
  <2>3. Copy(d)'
    BY <1>1, <1>8, <2>1, <2>2, ListedStays DEF Keeps
  <2> QED BY <1>7, <1>8, <2>3
<1>9. CASE Crash
  <2>1. /\ counts' = flushed[1] /\ ownership' = flushed[2] /\ UNCHANGED flushed
        /\ \A d \in Downloads : download'[d].pc # "own" /\ download'[d].list = {}
    BY <1>9, CrashRestores DEF Distinct, Shape, Active, Crash
  <2>2. Owned'
    BY <1>1, <1>3, <2>1 DEF Owns, ListedOrMixed, Listed
  <2> QED BY <1>2, <1>4, <2>1, <2>2
<1>10. ASSUME ~ Crash, NEW d \in Downloads, NEW r \in Requests, Request(d, r) PROVE Backed'
  <2>1. download[d].pc = "start" /\ UNCHANGED <<ownership, flushed>>
    BY <1>10 DEF Request, trees
  <2>2. download'[d].list = {} /\ download'[d].pc = "sending" /\ Others(d)
    BY <1>10, <2>1, Effects DEF Shape, Active
  <2> QED BY <1>5, <1>7, <1>10, <2>1, <2>2
<1>11. ASSUME ~ Crash, NEW d \in Downloads, ReadOwned(d) PROVE Backed'
  <2>1. download[d].pc = "sending" /\ UNCHANGED <<ownership, flushed>>
    BY <1>11 DEF ReadOwned, trees
  <2>2. User(d) \in Users /\ Item(d) \in Items /\ User(d)' = User(d) /\ Item(d)' = Item(d)
        /\ ListOf(User(d)) \subseteq Items
    BY <1>11, <2>1, Typed, Effects DEF SameRequest, User, Item
  <2>3. \A i \in ListOf(User(d)) : Owns(User(d), i)
    BY DEF ListOf, Owns
  <2>4. download'[d].list = ListOf(User(d)) /\ Others(d)
        /\ (download'[d].pc = "own" => Item(d) \in ListOf(User(d)))
    BY <1>11, Effects DEF ListOf
  <2>5. Copy(d)'
    BY <1>1, <1>11, <2>2, <2>3, <2>4, ListedStays
  <2> QED BY <1>5, <1>7, <1>11, <2>1, <2>4, <2>5
<1>12. ASSUME ~ Crash, NEW d \in Downloads, CreateOwned(d) PROVE Backed'
  <2>1. Owned'
    BY <1>1, <1>12, CreateOwnedWrites, ListedStays DEF Owns
  <2>2. UNCHANGED flushed
    BY <1>12 DEF CreateOwned
  <2> QED BY <1>8, <1>12, <2>1, <2>2, Effects, CreateOwnedWrites
<1>13. ASSUME ~ Crash, NEW d \in Downloads, ReadCounts(d) PROVE Backed'
  <2>1. download[d].pc = "count" /\ UNCHANGED <<ownership, flushed>>
    BY <1>13 DEF ReadCounts, trees
  <2>2. User(d)' = User(d) /\ User(d) \in Users /\ download[d].list \subseteq Items
    BY <1>13, <2>1, Typed, Effects DEF SameRequest, User
  <2>3. download'[d].list = download[d].list /\ download'[d].pc = "add" /\ Others(d)
    BY <1>13, Effects
  <2>4. Copy(d)'
    BY <1>1, <1>13, <2>2, <2>3, ListedStays
  <2> QED BY <1>5, <1>7, <1>13, <2>1, <2>3, <2>4
<1>14. ASSUME ~ Crash, NEW d \in Downloads, AddCount(d) PROVE Backed'
  <2>1. UNCHANGED <<ownership, flushed>>
        /\ collided' = IF SameSecond(d) THEN collided \cup {Item(d)} ELSE collided
    BY <1>14 DEF AddCount
  <2>2. User(d)' = User(d) /\ Item(d)' = Item(d)
    BY <1>14, Effects DEF SameRequest, User, Item
  <2>3. download'[d].list = download[d].list /\ download[d].list \subseteq Items /\ Others(d)
    BY <1>14, Typed, Effects
  <2>4. ListedOrMixed(User(d), Item(d))'
    <3>1. CASE SameSecond(d)
      BY <2>1, <2>2, <3>1 DEF ListedOrMixed, Mixed
    <3>2. CASE ~ SameSecond(d)
      <4>1. Entry(d) \in counts'[Item(d)] /\ counts'[Item(d)] # Absent
        BY <1>14, <3>2, AddCountWrites DEF Added
      <4>2. Entry(d).user = User(d)
        BY DEF Entry
      <4> QED BY <2>2, <4>1, <4>2 DEF ListedOrMixed, Listed
    <3> QED BY <3>1, <3>2
  <2>5. Copy(d)'
    BY <1>1, <1>14, <2>2, <2>3, <2>4, ListedStays, AddCountWrites
  <2> QED BY <1>5, <1>7, <1>14, <2>1, <2>3, <2>5
<1>15. ASSUME ~ Crash, NEW d \in Downloads, WriteOwned(d) PROVE Backed'
  <2>1. UNCHANGED flushed /\ download'[d].list = {} /\ download'[d].pc = "done" /\ Others(d)
    BY <1>15, Effects DEF WriteOwned
  <2>2. ASSUME NEW u \in Users, NEW i \in Items, Owns(u, i)' PROVE ListedOrMixed(u, i)
    <3>1. CASE u = User(d)
      <4>1. i \in download[d].list \cup {Item(d)}
        BY <1>15, <2>2, <3>1, WriteOwnedWrites DEF Owns
      <4> QED BY <1>1, <1>15, <3>1, <4>1, WriteOwnedWrites
    <3>2. CASE u # User(d)
      BY <1>1, <1>15, <2>2, <3>2, WriteOwnedWrites DEF Owns
    <3> QED BY <3>1, <3>2
  <2>3. Owned'
    BY <1>15, <2>2, ListedStays
  <2> QED BY <1>7, <1>15, <2>1, <2>3
<1>16. ASSUME ~ Crash, UNCHANGED <<ownership, download, flushed>> PROVE Backed'
  BY <1>2, <1>4, <1>5, <1>6, <1>16
<1>17. ASSUME ~ Crash, Flush PROVE Backed'
  <2>1. UNCHANGED <<ownership, counts, download>> /\ flushed' = <<counts, ownership>>
    BY <1>17 DEF Flush, trees
  <2>2. Disk'
    BY <1>1, <1>3, <2>1 DEF Owns, ListedOrMixed, Listed
  <2> QED BY <1>2, <1>5, <1>6, <1>17, <2>1, <2>2
<1> QED
  BY <1>9, <1>10, <1>11, <1>12, <1>13, <1>14, <1>15, <1>16, <1>17
     DEF Next, Handle, SearchReads, SearchInserts, Tick, vars, trees

-----------------------------------------------------------------------------
(* Who downloads an item again is not counted again.                       *)

LEMMA AloneStep ==
  ASSUME TypeOK, Distinct, Shape, Alone, [Next]_vars
  PROVE  Alone'
<1> DEFINE Right(d) ==
             Active(d) /\ User(d) \notin twice =>
               /\ \A e \in Downloads : Active(e) /\ User(e) = User(d) => e = d
               /\ download[d].pc = "create" =>
                    ownership[User(d)] = Absent /\ download[d].list = {}
               /\ download[d].pc # "create" => ownership[User(d)] = download[d].list
               /\ download[d].pc # "own" => Item(d) \notin download[d].list
<1>1. /\ Alone <=> \A d \in Downloads : Right(d)
      /\ Alone' <=> \A d \in Downloads : Right(d)'
  BY DEF Alone
<1> HIDE DEF Right
<1>2. twice \subseteq twice'
  BY HistoryTyped
<1>3. ASSUME NEW d \in Downloads, Others(d), NEW e \in Downloads \ {d}
      PROVE  Active(e)' = Active(e) /\ User(e)' = User(e) /\ Item(e)' = Item(e)
             /\ download'[e] = download[e]
  BY <1>3 DEF Others, Active, User, Item
<1>4. \A d \in Downloads : Active(d) => User(d) \in Users
  BY Typed DEF Active
<1>5. ASSUME NEW d \in Downloads, Others(d), SameRequest(d), Active(d),
             \A u \in Users : u # User(d) => ownership'[u] = ownership[u],
             Right(d)'
      PROVE  Alone'
  <2> SUFFICES ASSUME NEW e \in Downloads \ {d} PROVE Right(e)'
    BY <1>1, <1>5
  <2> SUFFICES ASSUME Active(e), User(e) \notin twice PROVE Right(e)'
    BY <1>2, <1>3, <1>5 DEF Right
  <2>1. User(e) # User(d) /\ ownership'[User(e)] = ownership[User(e)]
    BY <1>1, <1>4, <1>5 DEF Right
  <2>2. User(d)' = User(d)
    BY <1>5 DEF SameRequest, User
  <2>3. Right(e)
    BY <1>1
  <2> QED BY <1>3, <1>5, <2>1, <2>2, <2>3 DEF Right
<1>6. ASSUME NEW d \in Downloads, Others(d), UNCHANGED ownership, ~ Active(d)' PROVE Alone'
  <2> SUFFICES ASSUME NEW e \in Downloads \ {d} PROVE Right(e)'
    BY <1>1, <1>6 DEF Right
  <2> QED BY <1>1, <1>2, <1>3, <1>6 DEF Right
<1>7. ASSUME NEW d \in Downloads, NEW r \in Requests, Request(d, r) PROVE Alone'
  <2>1. UNCHANGED ownership
    BY <1>7 DEF Request, trees
  <2>2. Others(d) /\ ~ Active(d)'
    BY <1>7, Effects DEF Active
  <2> QED BY <1>6, <2>1, <2>2
<1>8. ASSUME NEW d \in Downloads, ReadOwned(d) PROVE Alone'
  <2>1. /\ download[d].pc = "sending" /\ UNCHANGED ownership
        /\ twice' = IF \E e \in Downloads \ {d} : Active(e) /\ User(e) = User(d)
                    THEN twice \cup {User(d)} ELSE twice
    BY <1>8 DEF ReadOwned, Starts, trees
  <2>2. /\ User(d)' = User(d) /\ Item(d)' = Item(d) /\ Others(d)
        /\ download'[d].list = ListOf(User(d))
        /\ download'[d].pc = (IF ownership[User(d)] = Absent THEN "create"
                              ELSE IF Item(d) \in ownership[User(d)] THEN "own" ELSE "count")
    BY <1>8, Effects DEF SameRequest, User, Item
  <2>3. Right(d)'
    BY <1>3, <2>1, <2>2 DEF Right, ListOf
  <2>4. ASSUME NEW e \in Downloads \ {d}, Active(e), User(e) \notin twice' PROVE Right(e)'
    <3>1. Right(e) /\ User(e) # User(d)
      BY <1>1, <2>1, <2>4
    <3> QED BY <1>2, <1>3, <2>1, <2>2, <2>4, <3>1 DEF Right
  <2>5. ASSUME NEW e \in Downloads \ {d} PROVE Right(e)'
    BY <1>3, <2>2, <2>4 DEF Right
  <2> QED BY <1>1, <2>3, <2>5
<1>9. ASSUME NEW d \in Downloads, CreateOwned(d) PROVE Alone'
  <2>1. /\ User(d)' = User(d) /\ Item(d)' = Item(d) /\ Others(d) /\ SameRequest(d)
        /\ download'[d].list = download[d].list /\ download'[d].pc = "count"
    BY <1>9, Effects DEF Keeps, SameRequest, User, Item
  <2>2. Active(d) /\ download[d].pc = "create"
    BY <1>9, CreateOwnedWrites DEF Active
  <2>3. Right(d)'
    <3> SUFFICES ASSUME User(d) \notin twice PROVE Right(d)'
      BY <1>2, <2>1 DEF Right
    <3>1. download[d].list = {} /\ \A e \in Downloads : Active(e) /\ User(e) = User(d) => e = d
      BY <1>1, <2>2 DEF Right
    <3>2. ownership'[User(d)] = {}
      BY <1>9, CreateOwnedWrites
    <3>3. \A e \in Downloads : Active(e)' /\ User(e)' = User(d)' => e = d
      BY <1>3, <2>1, <3>1
    <3> QED BY <2>1, <3>1, <3>2, <3>3 DEF Right
  <2> QED BY <1>5, <1>9, <2>1, <2>2, <2>3, CreateOwnedWrites
<1>10. ASSUME NEW d \in Downloads, ReadCounts(d) \/ AddCount(d) PROVE Alone'
  <2>1. /\ User(d)' = User(d) /\ Item(d)' = Item(d) /\ Others(d) /\ SameRequest(d)
        /\ download'[d].list = download[d].list /\ download'[d].pc \in {"add", "own"}
    BY <1>10, Effects DEF SameRequest, User, Item
  <2>2. Active(d) /\ download[d].pc \in {"count", "add"} /\ UNCHANGED ownership
    BY <1>10 DEF ReadCounts, AddCount, Active, trees
  <2>3. Right(d)'
    BY <1>1, <1>2, <1>3, <2>1, <2>2 DEF Right
  <2> QED BY <1>5, <2>1, <2>2, <2>3
<1>11. ASSUME NEW d \in Downloads, WriteOwned(d) PROVE Alone'
  <2>1. Others(d) /\ SameRequest(d) /\ ~ Active(d)'
    BY <1>11, Effects DEF Active
  <2>2. Active(d) /\ Right(d)'
    BY <1>11, <2>1, WriteOwnedWrites DEF Active, Right
  <2> QED BY <1>5, <1>11, <2>1, <2>2, WriteOwnedWrites
<1>12. ASSUME Crash PROVE Alone'
  <2>1. \A d \in Downloads : ~ Active(d)'
    BY <1>12, CrashRestores DEF Distinct, Active
  <2> QED BY <1>1, <2>1 DEF Right
<1>13. ASSUME UNCHANGED <<ownership, download, twice>> PROVE Alone'
  BY <1>13 DEF Alone, Active, User, Item
<1> QED
  BY <1>7, <1>8, <1>9, <1>10, <1>11, <1>12, <1>13
     DEF Next, Handle, SearchReads, SearchInserts, Tick, Flush, vars, trees, history

(* Where an entry comes from.                                              *)
Counts(d, e, i) == AddCount(d) /\ Item(d) = i /\ e = Entry(d)

LEMMA HeldBefore ==
  ASSUME TypeOK, Distinct, Shape, [Next]_vars, ~ Crash, NEW i \in Items, NEW e, Held(e, i)'
  PROVE  Held(e, i) \/ \E d \in Downloads : Counts(d, e, i)
<1>1. ASSUME UNCHANGED counts,
             \A d \in Downloads : /\ download'[d].downloads = download[d].downloads
                                  /\ Item(d)' = Item(d) \/ download[d].downloads = {}
      PROVE  Held(e, i)
  BY <1>1 DEF Held
<1>2. ASSUME NEW d \in Downloads, NEW r \in Requests, Request(d, r) PROVE Held(e, i)
  <2>1. download[d].downloads = {} /\ UNCHANGED counts
    BY <1>2 DEF Request, Shape, trees
  <2> QED BY <1>1, <1>2, <2>1, Effects DEF Others, Item
<1>3. ASSUME NEW d \in Downloads, ReadOwned(d) \/ CreateOwned(d) \/ WriteOwned(d)
      PROVE  Held(e, i)
  <2>1. UNCHANGED counts
    BY <1>3 DEF ReadOwned, CreateOwned, WriteOwned, trees
  <2> QED BY <1>1, <1>3, <2>1, Effects DEF Others, Keeps, SameRequest, Item
<1>4. ASSUME NEW d \in Downloads, ReadCounts(d) PROVE Held(e, i)
  <2>1. UNCHANGED counts
    BY <1>4 DEF ReadCounts, trees
  <2>2. download'[d].downloads = CountsOf(Item(d)) /\ Item(d)' = Item(d) /\ Others(d)
    BY <1>4, Effects DEF SameRequest, Item
  <2> QED BY <2>1, <2>2 DEF Held, Others, Item, CountsOf
<1>5. ASSUME NEW d \in Downloads, AddCount(d) PROVE Held(e, i) \/ Counts(d, e, i)
  <2>1. download'[d].downloads = {} /\ Others(d)
    BY <1>5, Effects
  <2>2. CASE counts'[i] # Absent /\ e \in counts'[i]
    <3>1. CASE i = Item(d)
      BY <1>5, <2>2, <3>1, AddCountWrites DEF Held, Counts, Added
    <3>2. CASE i # Item(d)
      BY <1>5, <2>2, <3>2, AddCountWrites DEF Held
    <3> QED BY <3>1, <3>2
  <2>3. ASSUME NEW c \in Downloads, Item(c)' = i, e \in download'[c].downloads
        PROVE  Held(e, i)
    BY <2>1, <2>3 DEF Held, Others, Item
  <2> QED BY <2>2, <2>3 DEF Held
<1>6. ASSUME SearchInserts PROVE Held(e, i)
  <2>1. UNCHANGED download
    BY <1>6 DEF SearchInserts
  <2> QED BY <1>6, <2>1, SearchWrites DEF Held, Item
<1>7. ASSUME UNCHANGED <<counts, download>> PROVE Held(e, i)
  BY <1>7 DEF Held, Item
<1> QED
  BY <1>2, <1>3, <1>4, <1>5, <1>6, <1>7
     DEF Next, Handle, SearchReads, Tick, Flush, vars, trees

(* What is owned or about to be stays so.                                  *)
LEMMA OwningStays ==
  ASSUME TypeOK, Alone, [Next]_vars, ~ Crash, NEW u \in Users, NEW i \in Items,
         u \notin twice, Owns(u, i) \/ Owning(u, i)
  PROVE  (Owns(u, i) \/ Owning(u, i))'
<1>1. ASSUME NEW d \in Downloads, Others(d), download[d].pc # "own", Owning(u, i)
      PROVE  Owning(u, i)'
  BY <1>1 DEF Owning, Others, User, Item
<1>2. ASSUME NEW d \in Downloads, Others(d), download[d].pc # "own", UNCHANGED ownership
      PROVE  (Owns(u, i) \/ Owning(u, i))'
  BY <1>1, <1>2 DEF Owns
<1>3. ASSUME NEW d \in Downloads,
             (\E r \in Requests : Request(d, r)) \/ ReadOwned(d) \/ ReadCounts(d) \/ AddCount(d)
      PROVE  (Owns(u, i) \/ Owning(u, i))'
  <2>1. download[d].pc # "own" /\ UNCHANGED ownership
    BY <1>3 DEF Request, ReadOwned, ReadCounts, AddCount, trees
  <2>2. Others(d)
    BY <1>3, Effects
  <2> QED BY <1>2, <2>1, <2>2
<1>4. ASSUME NEW d \in Downloads, CreateOwned(d) PROVE (Owns(u, i) \/ Owning(u, i))'
  <2>1. Others(d) /\ download[d].pc = "create"
    BY <1>4, Effects, CreateOwnedWrites
  <2>2. User(d) = u => ~ Owns(u, i)
    BY <2>1 DEF Alone, Active, Owns
  <2> QED BY <1>1, <1>4, <2>1, <2>2, CreateOwnedWrites DEF Owns
<1>5. ASSUME NEW d \in Downloads, WriteOwned(d) PROVE (Owns(u, i) \/ Owning(u, i))'
  <2>1. Others(d) /\ download[d].pc = "own"
    BY <1>5, Effects, WriteOwnedWrites
  <2>2. CASE Owns(u, i)
    <3>1. User(d) = u => i \in download[d].list
      BY <2>1, <2>2 DEF Alone, Active, Owns
    <3> QED BY <1>5, <2>2, <3>1, WriteOwnedWrites DEF Owns
  <2>3. ASSUME NEW c \in Downloads, download[c].pc = "own", User(c) = u, Item(c) = i
        PROVE  (Owns(u, i) \/ Owning(u, i))'
    <3>1. CASE c = d
      BY <1>5, <2>3, <3>1, WriteOwnedWrites DEF Owns
    <3>2. CASE c # d
      BY <2>1, <2>3, <3>2 DEF Owning, Others, User, Item
    <3> QED BY <3>1, <3>2
  <2> QED BY <2>2, <2>3 DEF Owning
<1>6. ASSUME UNCHANGED <<ownership, download>> PROVE (Owns(u, i) \/ Owning(u, i))'
  BY <1>6 DEF Owns, Owning, User, Item
<1> QED
  BY <1>3, <1>4, <1>5, <1>6
     DEF Next, Handle, SearchReads, SearchInserts, Tick, Flush, vars, trees

LEMMA OnceStep ==
  ASSUME TypeOK, Distinct, Shape, Alone, Once, [Next]_vars
  PROVE  Once'
<1>1. \A u, i : Plainly(u, i)' => Plainly(u, i)
  BY HistoryTyped DEF Plainly
<1>2. \A i \in Items : \A e \in Entries : OnDisk(e, i)' => OnDisk(e, i) \/ Held(e, i)
  <2>1. CASE Flush
    BY <2>1 DEF Flush, trees, OnDisk, Held
  <2>2. CASE UNCHANGED flushed
    BY <2>2 DEF OnDisk
  <2> QED BY <2>1, <2>2
       DEF Next, Handle, Request, ReadOwned, CreateOwned, ReadCounts, AddCount, WriteOwned,
           SearchReads, SearchInserts, Tick, Crash, vars
<1>3. CASE Crash
  <2>1. /\ counts' = flushed[1] /\ UNCHANGED flushed
        /\ \A d \in Downloads : download'[d].downloads = {}
    BY <1>3, CrashRestores DEF Distinct, Shape, Crash
  <2>2. \A e, i : (Held(e, i)' => OnDisk(e, i)) /\ OnDisk(e, i)' = OnDisk(e, i)
    BY <2>1 DEF Held, OnDisk
  <2>3. ASSUME NEW i \in Items, NEW e \in Entries, Held(e, i)', Plainly(e.user, i)'
        PROVE  Owns(e.user, i)'
    <3>1. [user |-> e.user, item |-> i] \in Requests
      BY <2>2, <2>3 DEF Once, Asked
    <3>2. Listed(e.user, i)'
      BY <2>1, <2>3 DEF Held, Listed
    <3>3. halfway' = halfway \cup
            {r \in Requests : Listed(r.user, r.item)' /\ ~ Owns(r.user, r.item)'}
      BY <1>3 DEF Crash
    <3>4. [user |-> e.user, item |-> i] \notin halfway'
      BY <2>3 DEF Plainly
    <3> DEFINE r == [user |-> e.user, item |-> i]
    <3>5. r.user = e.user /\ r.item = i
      OBVIOUS
    <3> HIDE DEF r
    <3> QED BY <3>1, <3>2, <3>3, <3>4, <3>5 DEF r
  <2> QED BY <1>1, <2>2, <2>3 DEF Once, Asked
<1>4. CASE ~ Crash
  <2>1. ASSUME NEW d \in Downloads, NEW i \in Items, NEW e, Counts(d, e, i)
        PROVE  /\ e \in Entries /\ e.user = User(d) /\ Asked(e.user, i) /\ Owning(e.user, i)'
               /\ Plainly(e.user, i) =>
                    \A f \in Entries : Held(f, i) => f.user # e.user
    <3>1. e = Entry(d) /\ e.user = User(d) /\ i = Item(d) /\ AddCount(d)
      BY <2>1 DEF Counts, Entry
    <3>2. e \in Entries /\ download[d].pc = "add"
      BY <3>1, AddCountWrites
    <3>3. download[d].request \in Requests
      BY <3>2, Typed
    <3>4. Asked(e.user, i)
      BY <3>1, <3>3, DownloadAssumption DEF Asked, User, Item
    <3>5. Owning(e.user, i)'
      BY <3>1, Effects DEF Owning, SameRequest, User, Item
    <3>6. Plainly(e.user, i) => ~ Owns(e.user, i) /\ ~ Owning(e.user, i)
      BY <3>1, <3>2 DEF Alone, Active, Plainly, Owns, Owning
    <3>7. Plainly(e.user, i) => \A f \in Entries : Held(f, i) => f.user # e.user
      BY <3>6 DEF Once
    <3> QED BY <3>1, <3>2, <3>4, <3>5, <3>7
  <2>2. \A i \in Items : \A e \in Entries : Held(e, i)' \/ OnDisk(e, i)' => Asked(e.user, i)
    BY <1>2, <1>4, <2>1, HeldBefore DEF Once
  <2>3. ASSUME NEW i \in Items, NEW e \in Entries, NEW f \in Entries, e.user = f.user,
               Plainly(e.user, i)', Held(e, i)', Held(f, i)'
        PROVE  e = f
    <3>1. Plainly(e.user, i)
      BY <1>1, <2>3
    <3>2. CASE Held(e, i) /\ Held(f, i)
      BY <2>3, <3>1, <3>2 DEF Once
    <3>3. ASSUME NEW d \in Downloads, Counts(d, e, i) PROVE e = f
      <4>1. ~ Held(f, i)
        BY <2>1, <2>3, <3>1, <3>3
      <4>2. PICK c \in Downloads : Counts(c, f, i)
        BY <1>4, <2>3, <4>1, HeldBefore
      <4>3. Owning(e.user, i)' /\ download[c].pc = "add" /\ download[d].pc = "add"
            /\ User(c) = User(d)
        BY <2>1, <2>3, <3>3, <4>2 DEF Counts, AddCount
      <4>4. c = d
        BY <2>1, <3>1, <3>3, <4>3 DEF Alone, Active, Plainly
      <4> QED BY <3>3, <4>2, <4>4 DEF Counts
    <3>4. ASSUME NEW d \in Downloads, Counts(d, f, i) PROVE e = f
      <4>1. ~ Held(e, i)
        BY <2>1, <2>3, <3>1, <3>4
      <4>2. PICK c \in Downloads : Counts(c, e, i)
        BY <1>4, <2>3, <4>1, HeldBefore
      <4> QED BY <3>3, <4>2
    <3> QED BY <1>4, <2>3, <3>2, <3>3, <3>4, HeldBefore
  <2>4. ASSUME NEW i \in Items, NEW e \in Entries, NEW f \in Entries, e.user = f.user,
               Plainly(e.user, i)', OnDisk(e, i)', OnDisk(f, i)'
        PROVE  e = f
    <3>1. Plainly(e.user, i)
      BY <1>1, <2>4
    <3>2. CASE UNCHANGED flushed
      BY <2>4, <3>1, <3>2 DEF Once, OnDisk
    <3>3. CASE Flush
      <4>1. Held(e, i) /\ Held(f, i)
        BY <2>4, <3>3 DEF Flush, trees, OnDisk, Held
      <4> QED BY <2>4, <3>1, <4>1 DEF Once
    <3> QED BY <3>2, <3>3
         DEF Next, Handle, Request, ReadOwned, CreateOwned, ReadCounts, AddCount, WriteOwned,
             SearchReads, SearchInserts, Tick, Crash, vars
  <2>5. ASSUME NEW i \in Items, NEW e \in Entries, Held(e, i)', Plainly(e.user, i)'
        PROVE  (Owns(e.user, i) \/ Owning(e.user, i))'
    <3>1. Plainly(e.user, i) /\ e.user \in Users
      BY <1>1, <2>5 DEF Entries
    <3>2. CASE Held(e, i)
      BY <1>4, <3>1, <3>2, OwningStays DEF Once, Plainly
    <3>3. CASE \E d \in Downloads : Counts(d, e, i)
      BY <2>1, <3>3
    <3> QED BY <1>4, <2>5, <3>2, <3>3, HeldBefore
  <2> QED BY <2>2, <2>3, <2>4, <2>5 DEF Once, Asked
<1> QED BY <1>3, <1>4

-----------------------------------------------------------------------------
(* The inductive invariant: what each download has read and what it will   *)
(* make of it.                                                             *)
THEOREM DownloadInductive == Spec => []DownloadInv
<1>1. Init => DownloadInv
  BY DownloadInit
<1>2. DownloadInv /\ [Next]_vars => DownloadInv'
  BY TypeStep, ShapeStep, FreshStep, BackedStep, AloneStep, OnceStep DEF DownloadInv
<1> QED BY <1>1, <1>2, PTL DEF Spec

(* Type correctness of download_software, one entry per second included.   *)
THEOREM TypeCorrect == Spec => []TypeOK
<1>1. DownloadInv => TypeOK
  BY DEF DownloadInv
<1> QED BY <1>1, DownloadInductive, PTL

(* Who owns an item is on its list: download_software writes the list      *)
(* first, and one log flushes both.                                        *)
THEOREM OwnersListed == Spec => []OwnedIsListed
<1>1. DownloadInv => OwnedIsListed
  BY DEF DownloadInv, Backed
<1> QED BY <1>1, DownloadInductive, PTL

(* A user who downloads an item again is not counted again, unless two of  *)
(* their downloads overlapped or a restart found one counted and not owned.*)
THEOREM NobodyCountedTwice == Spec => []CountedOnce
<1>1. DownloadInv => CountedOnce
  <2> SUFFICES ASSUME DownloadInv, NEW u \in Users, NEW i \in Items, counts[i] # Absent,
                      Plainly(u, i)
               PROVE  Cardinality({e \in counts[i] : e.user = u}) <= 1
    BY DEF CountedOnce, Plainly
  <2>1. counts[i] \subseteq Entries
    BY DEF DownloadInv, TypeOK
  <2>2. \A e, f \in {x \in counts[i] : x.user = u} : e = f
    BY <2>1 DEF DownloadInv, Once, Held
  <2>3. CASE {e \in counts[i] : e.user = u} = {}
    BY <2>3, FS_EmptySet
  <2>4. ASSUME NEW e \in {x \in counts[i] : x.user = u}
        PROVE  Cardinality({x \in counts[i] : x.user = u}) <= 1
    <3>1. {x \in counts[i] : x.user = u} = {e}
      BY <2>2
    <3>2. Cardinality({e}) = 1
      BY FS_Singleton
    <3> QED BY <3>1, <3>2
  <2> QED BY <2>3, <2>4
<1> QED BY <1>1, DownloadInductive, PTL

-----------------------------------------------------------------------------
(* The search: folds over a list, by induction over its length.            *)

(* Induction, for a set of numbers.                                        *)
LEMMA NumbersByInduction ==
  ASSUME NEW T, 0 \in T, \A k \in Nat : k \in T => k + 1 \in T
  PROVE  Nat \subseteq T
<1> DEFINE Left == Nat \ T
<1>1. SUFFICES ASSUME Left # {} PROVE FALSE
  OBVIOUS
<1>2. PICK k \in Left : \A j \in Left : ~ (<<j, k>> \in OpToRel(<, Nat))
  <2>1. Left \subseteq Nat
    OBVIOUS
  <2> HIDE DEF Left
  <2> QED BY <1>1, <2>1, NatLessThanWellFounded, WFMin
<1>3. \A j \in Left : ~ (j < k)
  BY <1>2 DEF OpToRel
<1>4. k \in Nat /\ k # 0
  BY <1>2
<1>5. k - 1 \in Nat /\ k - 1 \notin Left
  BY <1>3, <1>4
<1>6. (k - 1) + 1 \in T
  BY <1>5
<1>7. k \notin T
  OBVIOUS
<1> QED BY <1>4, <1>6, <1>7

(* f begins with b at m, and F takes each value to the next, up to n.      *)
IsFold(f, F, b, m, n) == \A k \in m..n : f[k] = IF k = m THEN b ELSE F[k][f[k - 1]]

(* A function that is given by its first value and a step exists.          *)
LEMMA FoldExists ==
  ASSUME NEW S, NEW b \in S, NEW m \in Int, NEW n \in Int, NEW F \in [m..n -> [S -> S]]
  PROVE  \E f \in [m..n -> S] : IsFold(f, F, b, m, n)
<1> DEFINE Upto(l, g) ==
      /\ g \in [m..(m + l) -> S]
      /\ g[m] = b
      /\ \A k \in (m + 1)..(m + l) : k <= n => g[k] = F[k][g[k - 1]]
<1> DEFINE T == {l \in Nat : \E g : Upto(l, g)}
<1>1. 0 \in T
  <2>1. Upto(0, [k \in m..m |-> b])
    OBVIOUS
  <2> QED BY <2>1
<1>2. ASSUME NEW l \in Nat, l \in T PROVE l + 1 \in T
  <2>1. PICK g : Upto(l, g)
    BY <1>2
  <2> DEFINE z == m + l + 1
  <2> DEFINE v == IF z <= n THEN F[z][g[z - 1]] ELSE b
  <2> DEFINE h == [k \in m..z |-> IF k = z THEN v ELSE g[k]]
  <2>2. z \in Int /\ z - 1 = m + l /\ z - 1 \in m..(m + l) /\ m + (l + 1) = z
    OBVIOUS
  <2>3. v \in S
    <3>1. ASSUME z <= n PROVE F[z][g[z - 1]] \in S
      <4>1. z \in m..n
        BY <2>2, <3>1
      <4>2. g[z - 1] \in S
        BY <2>1, <2>2
      <4> QED BY <4>1, <4>2
    <3> QED BY <3>1
  <2> HIDE DEF v
  <2>4. h \in [m..z -> S] /\ h[m] = b /\ h[z] = v /\ \A k \in m..(m + l) : h[k] = g[k]
    BY <2>1, <2>2, <2>3
  <2>5. ASSUME NEW k \in (m + 1)..z, k <= n PROVE h[k] = F[k][h[k - 1]]
    <3>1. CASE k = z
      <4>1. h[k - 1] = g[k - 1]
        BY <2>2, <2>4, <3>1
      <4>2. v = F[z][g[z - 1]]
        BY <2>5, <3>1 DEF v
      <4> QED BY <2>4, <3>1, <4>1, <4>2
    <3>2. CASE k # z
      <4>1. k \in (m + 1)..(m + l) /\ k \in m..(m + l) /\ k - 1 \in m..(m + l)
        BY <2>2, <3>2
      <4>2. h[k] = g[k] /\ h[k - 1] = g[k - 1]
        BY <2>4, <4>1
      <4> QED BY <2>1, <2>5, <4>1, <4>2
    <3> QED BY <3>1, <3>2
  <2>6. Upto(l + 1, h)
    <3> HIDE DEF h, z
    <3> QED BY <2>2, <2>4, <2>5
  <2>7. l + 1 \in Nat
    OBVIOUS
  <2> HIDE DEF Upto
  <2> QED BY <2>6, <2>7
<1>3. Nat \subseteq T
  <2> HIDE DEF T
  <2> QED BY <1>1, <1>2, NumbersByInduction
<1>4. CASE m <= n
  <2>1. n - m \in Nat /\ m + (n - m) = n
    BY <1>4
  <2>2. PICK g : Upto(n - m, g)
    BY <1>3, <2>1
  <2>3. g \in [m..n -> S] /\ g[m] = b /\ \A k \in (m + 1)..n : g[k] = F[k][g[k - 1]]
    BY <2>1, <2>2
  <2>4. \A k \in m..n : k # m => k \in (m + 1)..n
    OBVIOUS
  <2>5. \A k \in m..n : g[k] = IF k = m THEN b ELSE F[k][g[k - 1]]
    BY <2>3, <2>4
  <2> QED BY <2>3, <2>5 DEF IsFold
<1>5. CASE ~ (m <= n)
  <2> DEFINE e == [k \in m..n |-> b]
  <2>1. m..n = {}
    BY <1>5
  <2>2. e \in [m..n -> S]
    BY <2>1
  <2> QED BY <2>1, <2>2 DEF IsFold
<1> QED BY <1>4, <1>5

(* Whatever the order asked for, an item has a rank and comes before those *)
(* of a higher rank.                                                       *)
LEMMA BeforeRank ==
  ASSUME NEW alg \in SearchAlgs, NEW downloads \in [Stock -> Tallies]
  PROVE  \E rank \in [Stock -> Int] :
           \A i, j \in Stock : Before(alg, downloads, i, j) <=> rank[i] < rank[j]
<1>1. Stock \subseteq Int /\ \A i \in Stock : downloads[i] \in Int
  BY SearchAssumption
<1>2. CASE alg = "Newest"
  <2> DEFINE rank == [i \in Stock |-> 0 - i]
  <2>1. rank \in [Stock -> Int]
    BY <1>1
  <2>2. ASSUME NEW i \in Stock, NEW j \in Stock PROVE Before(alg, downloads, i, j) <=> rank[i] < rank[j]
    BY <1>1, <1>2 DEF Before
  <2> QED BY <2>1, <2>2
<1>3. CASE alg = "Oldest"
  <2> DEFINE rank == [i \in Stock |-> i]
  <2>1. rank \in [Stock -> Int]
    BY <1>1
  <2>2. ASSUME NEW i \in Stock, NEW j \in Stock PROVE Before(alg, downloads, i, j) <=> rank[i] < rank[j]
    BY <1>1, <1>3 DEF Before
  <2> QED BY <2>1, <2>2
<1>4. CASE alg = "MostDownloaded"
  <2> DEFINE rank == [i \in Stock |-> 0 - downloads[i]]
  <2>1. rank \in [Stock -> Int]
    BY <1>1
  <2>2. ASSUME NEW i \in Stock, NEW j \in Stock PROVE Before(alg, downloads, i, j) <=> rank[i] < rank[j]
    BY <1>1, <1>4 DEF Before
  <2> QED BY <2>1, <2>2
<1>5. CASE alg = "LeastDownloaded"
  <2> DEFINE rank == [i \in Stock |-> downloads[i]]
  <2>1. rank \in [Stock -> Int]
    BY <1>1
  <2>2. ASSUME NEW i \in Stock, NEW j \in Stock PROVE Before(alg, downloads, i, j) <=> rank[i] < rank[j]
    BY <1>1, <1>5 DEF Before
  <2> QED BY <2>1, <2>2
<1> QED BY <1>2, <1>3, <1>4, <1>5 DEF SearchAlgs

(* The fold of reduce finds a result that no other result comes after.     *)
LEMMA WorstIsWorst ==
  ASSUME NEW alg \in SearchAlgs, NEW downloads \in [Stock -> Tallies],
         NEW results \in Seq(Stock), Len(results) > 0
  PROVE  /\ Worst(alg, downloads, results) \in DOMAIN results
         /\ \A k \in DOMAIN results :
              ~ Before(alg, downloads, results[Worst(alg, downloads, results)], results[k])
<1> DEFINE last == Len(results)
<1> DEFINE after(w, k) == Before(alg, downloads, results[w], results[k])
<1> DEFINE worst[k \in 1..last] ==
      IF k = 1 THEN 1 ELSE IF after(worst[k - 1], k) THEN k ELSE worst[k - 1]
<1>1. last \in Nat \ {0} /\ DOMAIN results = 1..last /\ \A k \in 1..last : results[k] \in Stock
  OBVIOUS
<1>2. PICK rank \in [Stock -> Int] :
        \A i, j \in Stock : Before(alg, downloads, i, j) <=> rank[i] < rank[j]
  BY BeforeRank
<1>3. \A w, k \in 1..last : after(w, k) <=> rank[results[w]] < rank[results[k]]
  BY <1>1, <1>2
<1>4. Worst(alg, downloads, results) = worst[last]
  BY DEF Worst
<1>5. worst = [k \in 1..last |->
                 IF k = 1 THEN 1 ELSE IF after(worst[k - 1], k) THEN k ELSE worst[k - 1]]
  <2> DEFINE F == [k \in 1..last |-> [w \in 1..last |-> IF after(w, k) THEN k ELSE w]]
  <2> HIDE DEF after
  <2> DEFINE P == 1..last
  <2>1. F \in [1..last -> [P -> P]]
    BY <1>1
  <2>2. 1 \in P /\ 1 \in Int /\ last \in Int
    BY <1>1
  <2> HIDE DEF F, P
  <2>3. PICK f \in [1..last -> P] :
          \A k \in 1..last : f[k] = IF k = 1 THEN 1 ELSE F[k][f[k - 1]]
    <3>1. \E f \in [1..last -> P] : IsFold(f, F, 1, 1, last)
      BY <2>1, <2>2, FoldExists
    <3> QED BY <3>1 DEF IsFold
  <2>4. ASSUME NEW k \in 1..last, k # 1 PROVE F[k][f[k - 1]] = IF after(f[k - 1], k) THEN k ELSE f[k - 1]
    <3>1. k - 1 \in 1..last
      BY <1>1, <2>4
    <3>2. f[k - 1] \in 1..last
      BY <2>3, <3>1 DEF P
    <3> QED BY <3>1, <3>2 DEF F
  <2>5. f = [k \in 1..last |-> IF k = 1 THEN 1 ELSE IF after(f[k - 1], k) THEN k ELSE f[k - 1]]
    BY <2>3, <2>4
  <2> QED BY <2>5
<1> HIDE DEF worst
<1> DEFINE T == {k \in Nat : k + 1 \in 1..last =>
                   /\ worst[k + 1] \in 1..last
                   /\ \A j \in 1..(k + 1) : ~ after(worst[k + 1], j)}
<1>6. Nat \subseteq T
  <2>1. 0 \in T
    <3>1. worst[1] = 1 /\ 1 \in 1..last
      BY <1>1, <1>5
    <3>2. rank[results[1]] \in Int
      BY <1>1, <1>2
    <3>3. ~ after(1, 1)
      <4> HIDE DEF after
      <4> QED BY <1>3, <3>1, <3>2
    <3> HIDE DEF after
    <3> QED BY <3>1, <3>3
  <2>2. ASSUME NEW k \in Nat, k \in T PROVE k + 1 \in T
    <3> HIDE DEF after
    <3>1. SUFFICES ASSUME k + 2 \in 1..last
                   PROVE  /\ worst[k + 2] \in 1..last
                          /\ \A j \in 1..(k + 2) : ~ after(worst[k + 2], j)
      OBVIOUS
    <3>2. k + 1 \in 1..last /\ worst[k + 1] \in 1..last
          /\ \A j \in 1..(k + 1) : ~ after(worst[k + 1], j)
      BY <1>1, <2>2, <3>1
    <3>3. worst[k + 2] = IF after(worst[k + 1], k + 2) THEN k + 2 ELSE worst[k + 1]
      BY <1>1, <1>5, <3>1
    <3>4. worst[k + 2] \in 1..last
      BY <3>1, <3>2, <3>3
    <3>5. ASSUME NEW j \in 1..(k + 2) PROVE ~ after(worst[k + 2], j)
      <4> DEFINE r(x) == rank[results[x]]
      <4>1. j \in 1..last /\ (j \in 1..(k + 1) \/ j = k + 2)
        BY <1>1, <3>1
      <4>2. \A x \in 1..last : r(x) \in Int
        BY <1>1, <1>2
      <4>3. \A w, x \in 1..last : after(w, x) <=> r(w) < r(x)
        BY <1>3
      <4> HIDE DEF r
      <4> QED BY <3>1, <3>2, <3>3, <4>1, <4>2, <4>3
    <3> QED BY <3>4, <3>5
  <2> HIDE DEF T
  <2> QED BY <2>1, <2>2, NumbersByInduction
<1>7. last - 1 \in Nat /\ (last - 1) + 1 = last /\ last \in 1..last
  BY <1>1
<1>8. worst[last] \in 1..last /\ \A j \in 1..last : ~ after(worst[last], j)
  <2> HIDE DEF after
  <2> QED BY <1>6, <1>7
<1> QED BY <1>1, <1>4, <1>8

LEMMA VisitType ==
  ASSUME NEW alg \in SearchAlgs, NEW downloads \in [Stock -> Tallies],
         NEW capacity \in Nat \ {0}, NEW results \in Seq(Stock), NEW i \in Stock
  PROVE  Visit(alg, downloads, capacity, results, i) \in Seq(Stock)
<1> DEFINE w == Worst(alg, downloads, results)
<1> HIDE DEF w
<1>1. [results EXCEPT ![w] = i] \in Seq(Stock)
  <2> DEFINE last == Len(results)
  <2> DEFINE new == [results EXCEPT ![w] = i]
  <2>1. last \in Nat /\ DOMAIN results = 1..last /\ \A k \in 1..last : results[k] \in Stock
    OBVIOUS
  <2> HIDE DEF last
  <2>2. new \in [1..last -> Stock]
    BY <2>1
  <2> HIDE DEF new
  <2>3. new \in Seq(Stock)
    BY <2>1, <2>2
  <2> QED BY <2>3 DEF new
<1> QED BY <1>1 DEF Visit, w

(* results holds the best of the items seen so far: they were seen, each   *)
(* is there once, and one that is not there had to give way.               *)
BestOf(alg, downloads, capacity, seen, results) ==
  /\ results \in Seq(Stock) /\ Len(results) <= capacity
  /\ \A j, k \in DOMAIN results : results[j] = results[k] => j = k
  /\ \A k \in DOMAIN results : results[k] \in seen
  /\ \A i \in seen :
       \/ \E k \in DOMAIN results : results[k] = i
       \/ /\ Len(results) = capacity
          /\ \A k \in DOMAIN results : ~ Before(alg, downloads, i, results[k])

LEMMA VisitKeepsBest ==
  ASSUME NEW alg \in SearchAlgs, NEW downloads \in [Stock -> Tallies],
         NEW capacity \in Nat \ {0}, NEW seen \in SUBSET Stock, NEW results,
         BestOf(alg, downloads, capacity, seen, results), NEW i \in Stock \ seen
  PROVE  BestOf(alg, downloads, capacity, seen \cup {i},
                Visit(alg, downloads, capacity, results, i))
<1> DEFINE last == Len(results)
<1> DEFINE w == Worst(alg, downloads, results)
<1> DEFINE before(x, y) == Before(alg, downloads, x, y)
<1> DEFINE new == Visit(alg, downloads, capacity, results, i)
<1>1. /\ results \in Seq(Stock) /\ last \in Nat /\ last <= capacity
      /\ DOMAIN results = 1..last
      /\ \A k \in 1..last : results[k] \in Stock /\ results[k] \in seen /\ results[k] # i
  BY DEF BestOf
<1>2. \A x \in seen : \/ \E k \in 1..last : results[k] = x
                      \/ last = capacity /\ \A k \in 1..last : ~ before(x, results[k])
  BY <1>1 DEF BestOf
<1>3. \A j, k \in 1..last : results[j] = results[k] => j = k
  BY <1>1 DEF BestOf
<1>4. new = IF last < capacity THEN Append(results, i)
            ELSE IF before(i, results[w]) THEN [results EXCEPT ![w] = i] ELSE results
  BY DEF Visit
<1>5. new \in Seq(Stock)
  BY <1>1, VisitType
<1>6. PICK rank \in [Stock -> Int] : \A x, y \in Stock : before(x, y) <=> rank[x] < rank[y]
  BY BeforeRank
<1>7. last > 0 => w \in 1..last /\ \A k \in 1..last : ~ before(results[w], results[k])
  BY <1>1, WorstIsWorst
<1> HIDE DEF last, w, before, new
<1>8. SUFFICES /\ new \in Seq(Stock) /\ Len(new) <= capacity
               /\ \A j, k \in DOMAIN new : new[j] = new[k] => j = k
               /\ \A k \in DOMAIN new : new[k] \in seen \cup {i}
               /\ \A x \in seen \cup {i} :
                    \/ \E k \in DOMAIN new : new[k] = x
                    \/ Len(new) = capacity /\ \A k \in DOMAIN new : ~ before(x, new[k])
  BY DEF BestOf, before, new
<1>9. CASE last < capacity
  <2>1. new = Append(results, i)
    BY <1>4, <1>9
  <2>2. /\ Len(new) = last + 1 /\ DOMAIN new = 1..(last + 1)
        /\ new[last + 1] = i /\ \A k \in 1..last : new[k] = results[k]
    BY <1>1, <2>1 DEF last
  <2>3. \A k \in 1..(last + 1) : k \in 1..last \/ k = last + 1
    BY <1>1
  <2>4. \A x \in seen : \E k \in 1..last : results[k] = x
    BY <1>1, <1>2, <1>9
  <2>5. \A k \in 1..last : k \in 1..(last + 1)
    BY <1>1
  <2>6. last + 1 \in 1..(last + 1) /\ last + 1 <= capacity
    BY <1>1, <1>9
  <2>7. \A x \in seen \cup {i} : \E k \in 1..(last + 1) : new[k] = x
    <3>1. \A x \in seen : \E k \in 1..(last + 1) : new[k] = x
      BY <2>2, <2>4, <2>5
    <3>2. \E k \in 1..(last + 1) : new[k] = i
      BY <2>2, <2>6
    <3> QED BY <3>1, <3>2
  <2>8. \A j, k \in 1..(last + 1) : new[j] = new[k] => j = k
    BY <1>1, <1>3, <2>2, <2>3
  <2>9. \A k \in 1..(last + 1) : new[k] \in seen \cup {i}
    BY <1>1, <2>2, <2>3
  <2> QED BY <1>5, <2>2, <2>6, <2>7, <2>8, <2>9
<1>10. CASE last = capacity /\ before(i, results[w])
  <2>1. new = [results EXCEPT ![w] = i]
    BY <1>1, <1>4, <1>10
  <2>2. w \in 1..last /\ \A k \in 1..last : ~ before(results[w], results[k])
    BY <1>7, <1>10
  <2>3. /\ Len(new) = last /\ DOMAIN new = 1..last
        /\ new[w] = i /\ \A k \in 1..last : k # w => new[k] = results[k]
    BY <1>1, <2>1, <2>2 DEF last
  <2>4. \A j, k \in 1..last : new[j] = new[k] => j = k
    BY <1>1, <1>3, <2>3
  <2>5. \A k \in 1..last : new[k] \in seen \cup {i}
    BY <1>1, <2>3
  <2>6. \A k \in 1..last : new[k] \in Stock /\ (new[k] = i \/ new[k] = results[k])
    BY <1>1, <2>3
  <2>7. results[w] \in Stock /\ before(i, results[w])
    BY <1>1, <1>10, <2>2
  <2>8. \A x \in Stock : rank[x] \in Int
    BY <1>6
  <2>9. ASSUME NEW x \in seen, \A k \in 1..last : results[k] # x
        PROVE  \A k \in 1..last : ~ before(x, new[k])
    <3>1. \A k \in 1..last : ~ before(x, results[k])
      BY <1>2, <2>9
    <3>2. ~ before(x, results[w]) /\ x \in Stock
      BY <2>2, <3>1
    <3>3. ~ before(x, i)
      BY <1>6, <2>7, <2>8, <3>2
    <3> QED BY <2>6, <3>1, <3>3
  <2>10. \A k \in 1..last : ~ before(results[w], new[k])
    <3>1. ~ before(results[w], i)
      BY <1>6, <2>7, <2>8
    <3> QED BY <2>2, <2>6, <3>1
  <2>11. ASSUME NEW x \in seen
         PROVE  \/ \E k \in 1..last : new[k] = x
                \/ \A k \in 1..last : ~ before(x, new[k])
    <3>1. CASE x = results[w]
      BY <2>10, <3>1
    <3>2. ASSUME NEW k \in 1..last, results[k] = x, x # results[w] PROVE new[k] = x
      BY <2>3, <3>2
    <3>3. CASE \A k \in 1..last : results[k] # x
      BY <2>9, <3>3
    <3> QED BY <3>1, <3>2, <3>3
  <2>12. \E k \in 1..last : new[k] = i
    BY <2>2, <2>3
  <2>13. \A x \in seen \cup {i} : \/ \E k \in 1..last : new[k] = x
                                  \/ \A k \in 1..last : ~ before(x, new[k])
    BY <2>11, <2>12
  <2> QED BY <1>1, <1>5, <1>10, <2>3, <2>4, <2>5, <2>13
<1>11. CASE last = capacity /\ ~ before(i, results[w])
  <2>1. new = results
    BY <1>1, <1>4, <1>11
  <2>2. w \in 1..last /\ \A k \in 1..last : ~ before(results[w], results[k])
    BY <1>7, <1>11
  <2>3. \A k \in 1..last : ~ before(i, results[k])
    <3>1. \A x \in Stock : rank[x] \in Int
      BY <1>6
    <3>2. results[w] \in Stock
      BY <1>1, <2>2
    <3> QED BY <1>1, <1>6, <1>11, <2>2, <3>1, <3>2
  <2>4. \A x \in seen \cup {i} : \/ \E k \in 1..last : results[k] = x
                                 \/ \A k \in 1..last : ~ before(x, results[k])
    BY <1>2, <2>3
  <2>5. Len(results) = last
    BY DEF last
  <2> QED BY <1>1, <1>3, <1>11, <2>1, <2>4, <2>5
<1> QED BY <1>1, <1>9, <1>10, <1>11

LEMMA CountUpto ==
  ASSUME NEW last \in Nat
  PROVE  IsFiniteSet(1..last) /\ Cardinality(1..last) = last
<1>1. 1 \in Int /\ last \in Int
  OBVIOUS
<1>2. IsFiniteSet(1..last) /\ Cardinality(1..last) = IF 1 > last THEN 0 ELSE last - 1 + 1
  BY <1>1, FS_Interval
<1> QED BY <1>2

(* The search answers the best of the items it sees.                       *)
LEMMA SearchIsBest ==
  ASSUME NEW alg \in SearchAlgs, NEW downloads \in [Stock -> Tallies],
         NEW matching \in Seq(Stock), NEW stored \in Nat, NEW n \in Nat \ {0},
         \A j, k \in DOMAIN matching : matching[j] = matching[k] => j = k,
         Len(matching) <= stored
  PROVE  IsBest(alg, downloads, matching, n,
                SearchSoftware(alg, downloads, stored, matching, n))
<1> DEFINE last == Len(matching)
<1> DEFINE capacity == IF stored < n THEN stored ELSE n
<1> DEFINE visit(results, k) == Visit(alg, downloads, capacity, results, matching[k])
<1> DEFINE found[k \in 0..last] == IF k = 0 THEN <<>> ELSE visit(found[k - 1], k)
<1> DEFINE results == SearchSoftware(alg, downloads, stored, matching, n)
<1> DEFINE seen(k) == {matching[j] : j \in 1..k}
<1>1. /\ last \in Nat /\ DOMAIN matching = 1..last
      /\ \A k \in 1..last : matching[k] \in Stock
      /\ capacity \in Nat /\ capacity <= n /\ capacity <= stored
      /\ capacity < n => capacity = stored
      /\ 0 < last => capacity \in Nat \ {0}
  OBVIOUS
<1>2. results = found[last]
  BY DEF SearchSoftware
<1> HIDE DEF results, capacity
<1>3. found = [k \in 0..last |-> IF k = 0 THEN <<>> ELSE visit(found[k - 1], k)]
  <2> DEFINE S == Seq(Stock)
  <2> DEFINE F == [k \in 0..last |-> [r \in S |-> IF k = 0 THEN r ELSE visit(r, k)]]
  <2>1. \A k \in 1..last, r \in S : visit(r, k) \in S
    BY <1>1, VisitType
  <2> HIDE DEF visit, last
  <2>2. <<>> \in S /\ 0 \in Int /\ last \in Int /\ F \in [0..last -> [S -> S]]
    BY <1>1, <2>1
  <2> HIDE DEF F, S
  <2>3. PICK f \in [0..last -> S] : \A k \in 0..last : f[k] = IF k = 0 THEN <<>> ELSE F[k][f[k - 1]]
    <3>1. \E f \in [0..last -> S] : IsFold(f, F, <<>>, 0, last)
      BY <2>2, FoldExists
    <3> QED BY <3>1 DEF IsFold
  <2>4. ASSUME NEW k \in 0..last, k # 0 PROVE F[k][f[k - 1]] = visit(f[k - 1], k)
    <3>1. k - 1 \in 0..last
      BY <1>1, <2>4
    <3>2. f[k - 1] \in S
      BY <2>3, <3>1
    <3> QED BY <2>4, <3>2 DEF F
  <2>5. f = [k \in 0..last |-> IF k = 0 THEN <<>> ELSE visit(f[k - 1], k)]
    BY <2>3, <2>4
  <2> QED BY <2>5
<1> HIDE DEF found
<1> DEFINE best(k) == BestOf(alg, downloads, capacity, seen(k), found[k])
<1> DEFINE T == {k \in Nat : k <= last => best(k)}
<1>4. Nat \subseteq T
  <2>1. 0 \in T
    <3>1. found[0] = <<>>
      BY <1>1, <1>3
    <3>2. seen(0) = {}
      OBVIOUS
    <3>3. <<>> \in Seq(Stock) /\ Len(<<>>) = 0 /\ DOMAIN <<>> = {}
      OBVIOUS
    <3>4. best(0)
      BY <1>1, <3>1, <3>2, <3>3 DEF BestOf
    <3> QED BY <3>4
  <2>2. ASSUME NEW k \in Nat, k \in T PROVE k + 1 \in T
    <3>1. SUFFICES ASSUME k + 1 <= last PROVE best(k + 1)
      OBVIOUS
    <3> DEFINE i == matching[k + 1]
    <3>2. k + 1 \in 1..last /\ k <= last /\ best(k)
      BY <1>1, <2>2, <3>1
    <3>3. found[k + 1] = Visit(alg, downloads, capacity, found[k], i)
      BY <1>1, <1>3, <3>1
    <3>4. seen(k) \subseteq Stock /\ i \in Stock /\ seen(k + 1) = seen(k) \cup {i}
      <4>1. \A j \in 1..k : j \in 1..last
        BY <1>1, <3>2
      <4>2. \A j \in 1..(k + 1) : j \in 1..k \/ j = k + 1
        OBVIOUS
      <4>3. \A j \in 1..k : j \in 1..(k + 1)
        OBVIOUS
      <4>4. k + 1 \in 1..(k + 1)
        OBVIOUS
      <4> QED BY <1>1, <3>2, <4>1, <4>2, <4>3, <4>4
    <3>5. i \notin seen(k)
      <4>1. ASSUME NEW j \in 1..k PROVE matching[j] # i
        <5>1. j \in 1..last /\ j # k + 1
          BY <1>1, <3>2, <4>1
        <5> QED BY <1>1, <3>2, <5>1
      <4> QED BY <4>1
    <3>6. capacity \in Nat \ {0}
      BY <1>1, <3>1
    <3> HIDE DEF seen, i
    <3>7. BestOf(alg, downloads, capacity, seen(k) \cup {i}, found[k + 1])
      BY <3>2, <3>3, <3>4, <3>5, <3>6, VisitKeepsBest
    <3> QED BY <3>4, <3>7
  <2> HIDE DEF T
  <2> QED BY <2>1, <2>2, NumbersByInduction
<1>5. BestOf(alg, downloads, capacity, seen(last), results)
  <2>1. best(last)
    <3>1. last \in T
      BY <1>1, <1>4
    <3> HIDE DEF best
    <3> QED BY <1>1, <3>1
  <2> QED BY <1>2, <2>1
<1> DEFINE size == Len(results)
<1> DEFINE range == ToSet(results)
<1>6. results \in Seq(Stock) /\ size \in Nat /\ DOMAIN results = 1..size
  BY <1>5 DEF BestOf
<1>7. range = {results[k] : k \in 1..size}
  BY <1>6 DEF ToSet
<1> DEFINE there(i) == \E k \in 1..size : results[k] = i
<1> DEFINE gaveWay(i) == \A k \in 1..size : ~ Before(alg, downloads, i, results[k])
<1>8. /\ size <= capacity
      /\ \A j, k \in 1..size : results[j] = results[k] => j = k
      /\ \A k \in 1..size : results[k] \in seen(last)
      /\ \A i \in seen(last) : there(i) \/ (size = capacity /\ gaveWay(i))
  <2> HIDE DEF seen, last
  <2> QED BY <1>5, <1>6 DEF BestOf
<1> HIDE DEF size, range
<1>9. ToSet(matching) = seen(last)
  BY <1>1 DEF ToSet
<1>10. Cardinality(range) = size
  <2>1. results \in Bijection(1..size, range)
    BY <1>6, <1>7, <1>8 DEF Bijection, Injection, Surjection, IsInjective
  <2>2. IsFiniteSet(1..size) /\ Cardinality(1..size) = size
    BY <1>6, CountUpto
  <2>3. ExistsBijection(1..size, range)
    BY <2>1 DEF ExistsBijection
  <2> QED BY <2>2, <2>3, FS_Bijection
<1>11. range \subseteq seen(last)
  BY <1>7, <1>8
<1>12. size <= capacity /\ size <= n
  BY <1>1, <1>6, <1>8
<1>13. ASSUME NEW i \in seen(last) \ range
       PROVE  size = capacity /\ \A j \in range : ~ Before(alg, downloads, i, j)
  <2>1. i \in seen(last) /\ i \notin range
    BY <1>13
  <2> HIDE DEF seen, last
  <2>2. ~ there(i)
    BY <1>7, <2>1
  <2>3. size = capacity /\ gaveWay(i)
    <3> HIDE DEF there, gaveWay
    <3> QED BY <1>8, <2>1, <2>2
  <2> QED BY <1>7, <2>3
<1>14. seen(last) \ range # {} => size = n
  <2>1. SUFFICES ASSUME seen(last) \ range # {}, capacity = stored PROVE FALSE
    BY <1>1, <1>12, <1>13
  <2>2. IsFiniteSet(seen(last)) /\ Cardinality(seen(last)) <= last
    <3>1. matching \in Surjection(1..last, seen(last))
      BY <1>1 DEF Surjection
    <3>2. IsFiniteSet(1..last) /\ Cardinality(1..last) = last
      BY <1>1, CountUpto
    <3> QED BY <3>1, <3>2, FS_Surjection
  <2>3. IsFiniteSet(range) /\ Cardinality(seen(last)) \in Nat
    BY <1>11, <2>2, FS_Subset, FS_CardinalityType
  <2>4. Cardinality(range) <= Cardinality(seen(last))
        /\ (Cardinality(range) = Cardinality(seen(last)) => range = seen(last))
    BY <1>11, <2>2, FS_Subset
  <2>5. size = stored
    BY <1>13, <2>1
  <2> HIDE DEF seen, size, range, last
  <2>6. range = seen(last)
    BY <1>1, <1>6, <1>10, <2>2, <2>3, <2>4, <2>5 DEF last
  <2> QED BY <2>1, <2>6
<1> HIDE DEF seen
<1>15. IsBest(alg, downloads, matching, n, results)
  BY <1>9, <1>10, <1>11, <1>12, <1>13, <1>14 DEF IsBest, size, range
<1> QED BY <1>15 DEF results

(* Whatever matches, in whatever order the keys come and however often     *)
(* each item was downloaded, search_software finds the best of them.       *)
THEOREM BestFound == Spec => []SearchFindsBest
<1>1. ASSUME NEW alg \in SearchAlgs, NEW downloads \in [Stock -> Tallies],
             NEW matching \in Matches, NEW n \in Limits
      PROVE  IsBest(alg, downloads, matching, n,
                    SearchSoftware(alg, downloads, Cardinality(Stock), matching, n))
  <2>1. PICK S \in SUBSET Stock : matching \in SetToSeqs(S)
    BY <1>1 DEF Matches
  <2>2. IsFiniteSet(S) /\ IsFiniteSet(Stock) /\ Cardinality(S) <= Cardinality(Stock)
    BY FS_Subset, SearchAssumption
  <2>3. Cardinality(S) \in Nat /\ Cardinality(Stock) \in Nat /\ n \in Nat \ {0}
    BY <2>2, FS_CardinalityType, SearchAssumption
  <2> DEFINE last == Cardinality(S)
  <2>4. /\ matching \in [1..last -> Stock]
        /\ \A j, k \in 1..last : j # k => matching[j] # matching[k]
    BY <2>1 DEF SetToSeqs
  <2> HIDE DEF last
  <2>5. matching \in Seq(Stock) /\ Len(matching) = last /\ DOMAIN matching = 1..last
    BY <2>3, <2>4 DEF last
  <2>6. \A j, k \in DOMAIN matching : matching[j] = matching[k] => j = k
    BY <2>4, <2>5
  <2>7. Len(matching) <= Cardinality(Stock)
    BY <2>2, <2>5 DEF last
  <2> QED BY <2>3, <2>5, <2>6, <2>7, SearchIsBest
<1>2. SearchFindsBest
  BY <1>1 DEF SearchFindsBest
<1> QED BY <1>2, PTL DEF Spec
=============================================================================
