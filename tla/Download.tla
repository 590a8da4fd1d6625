------------------------------ MODULE Download ------------------------------
(***************************************************************************)
(* download_software and search_software on the trees they share.  For     *)
(* each item download_count_db keeps who downloaded it and when; for each  *)
(* user software_ownership_db keeps which items they have.  A download     *)
(* reads, changes and writes both; a search reads the counts, and the      *)
(* reading puts an empty list where it finds none.  The handlers run on    *)
(* several threads: each call of the database is a step, awaits or not.    *)
(*                                                                         *)
(* The list of an item is a BTreeSet ordered by the second of the download *)
(* alone: there is one entry per second.                                   *)
(***************************************************************************)
EXTENDS Integers, FiniteSets, Search

CONSTANTS
  Downloads,        \* requests on a websocket of download_software
  Requests,         \* what they may ask: [user, item]
  Users,
  Items,            \* the ids of software_db
  Absent,           \* no entry under a key
  NoRequest, NoItem,
  MaxTime,          \* bound: seconds that pass
  MaxCrashes        \* bound: crashes in a behaviour

ASSUME DownloadAssumption ==
  /\ Requests \subseteq [user: Users, item: Items]
  /\ NoRequest \notin Requests /\ NoItem \notin Items
  /\ MaxTime \in Nat /\ MaxCrashes \in Nat
  /\ \A list \in SUBSET Items : list # Absent
  /\ \A list \in SUBSET [time: 0..MaxTime, user: Users] : list # Absent

VARIABLES
  counts,           \* download_count_db
  ownership,        \* software_ownership_db
  flushed,          \* both as a restart would find them
  now,              \* unix time, in seconds
  download,         \* the locals of each request
  search,           \* the id whose list the search has found missing
  crashes,
  crossed,          \* history: items whose list two tasks worked on at once
  collided,         \* history: items with two downloads in one second
  twice,            \* history: users with two downloads at the same time
  halfway           \* history: a restart found the download counted, not owned

trees == <<counts, ownership>>
history == <<crossed, collided, twice, halfway>>
vars == <<trees, flushed, now, download, search, crashes, history>>

Entries == [time: 0..MaxTime, user: Users]

(* The locals of download_software.                                        *)
Locals == [
  pc: {"start", "sending", "create", "count", "add", "own", "done", "cut"},
  request: Requests \cup {NoRequest},
  list: SUBSET Items, downloads: SUBSET Entries ]

TypeOK ==
  /\ counts \in [Items -> (SUBSET Entries) \cup {Absent}]
  /\ ownership \in [Users -> (SUBSET Items) \cup {Absent}]
  /\ now \in 0..MaxTime
  /\ download \in [Downloads -> Locals]
  /\ search \in Items \cup {NoItem}
  /\ crashes \in 0..MaxCrashes
  /\ crossed \subseteq Items /\ collided \subseteq Items /\ twice \subseteq Users
  /\ halfway \subseteq Requests
  /\ \A d \in Downloads : download[d].pc # "start" => download[d].request # NoRequest
  /\ \A i \in Items : counts[i] # Absent =>
       \A e, f \in counts[i] : e.time = f.time => e = f

New == [pc |-> "start", request |-> NoRequest, list |-> {}, downloads |-> {}]

Init ==
  /\ counts = [i \in Items |-> Absent]
  /\ ownership = [u \in Users |-> Absent]
  /\ flushed = trees
  /\ now = 0
  /\ download = [d \in Downloads |-> New]
  /\ search = NoItem
  /\ crashes = 0
  /\ crossed = {} /\ collided = {} /\ twice = {} /\ halfway = {}

-----------------------------------------------------------------------------
User(d) == download[d].request.user
Item(d) == download[d].request.item

Goes(d, from, to) ==
  download[d].pc = from /\ download' = [download EXCEPT ![d].pc = to]

Active(d) == download[d].pc \in {"create", "count", "add", "own"}
Adding(i) == {d \in Downloads : download[d].pc = "add" /\ Item(d) = i}

(* Task t reads the list of i and will write it.                           *)
Crosses(i) ==
  crossed' = IF Adding(i) # {} \/ search = i THEN crossed \cup {i} ELSE crossed

Listed(u, i) == counts[i] # Absent /\ \E e \in counts[i] : e.user = u
Owns(u, i) == ownership[u] # Absent /\ i \in ownership[u]

(* A message: cookie, id, and the item is there.                           *)
Request(d, r) ==
  /\ download[d].pc = "start"
  /\ download' = [download EXCEPT ![d].pc = "sending", ![d].request = r]
  /\ UNCHANGED <<trees, flushed, now, search, crashes, history>>

Starts(d) ==
  twice' = IF \E e \in Downloads \ {d} : Active(e) /\ User(e) = User(d)
           THEN twice \cup {User(d)} ELSE twice

(* Mutant: an item that is owned is not looked for in the list.            *)
ReadOwnedOnly(d) ==
  /\ download[d].pc = "sending"
  /\ download' = [download EXCEPT ![d].pc = IF ownership[User(d)] = Absent
                                            THEN "create" ELSE "count"]
  /\ Starts(d)
  /\ UNCHANGED <<trees, flushed, now, search, crashes, crossed, collided, halfway>>

(* The files are sent.  get_or_insert on software_ownership_db: the get.   *)
ReadOwned(d) ==
  /\ download[d].pc = "sending"
  /\ LET list == ownership[User(d)]
     IN  download' = [download EXCEPT
           ![d].list = IF list = Absent THEN {} ELSE list,
           ![d].pc = IF list = Absent THEN "create"
                     ELSE IF Item(d) \in list THEN "own" ELSE "count"]
  /\ Starts(d)
  /\ UNCHANGED <<trees, flushed, now, search, crashes, crossed, collided, halfway>>

(* The insert of an empty list, over whatever is there by now.             *)
CreateOwned(d) ==
  /\ Goes(d, "create", "count")
  /\ ownership' = [ownership EXCEPT ![User(d)] = {}]
  /\ UNCHANGED <<counts, flushed, now, search, crashes, history>>

ReadCounts(d) ==
  /\ download[d].pc = "count"
  /\ LET downloads == counts[Item(d)]
     IN  download' = [download EXCEPT ![d].pc = "add",
           ![d].downloads = IF downloads = Absent THEN {} ELSE downloads]
  /\ Crosses(Item(d))
  /\ UNCHANGED <<trees, flushed, now, search, crashes, collided, twice, halfway>>

SameSecond(d) == \E e \in download[d].downloads : e.time = now

(* Mutant: the set is written back as it was read.                         *)
AddCountLost(d) ==
  /\ Goes(d, "add", "own")
  /\ counts' = [counts EXCEPT ![Item(d)] = download[d].downloads]
  /\ UNCHANGED <<ownership, flushed, now, search, crashes, history>>

(* Mutant: the set is ordered by time and user.                            *)
AddCountAll(d) ==
  /\ download[d].pc = "add"
  /\ download' = [download EXCEPT ![d].pc = "own", ![d].downloads = {}]
  /\ counts' = [counts EXCEPT ![Item(d)] =
       download[d].downloads \cup {[time |-> now, user |-> User(d)]}]
  /\ UNCHANGED <<ownership, flushed, now, search, crashes, history>>

(* BTreeSet::insert leaves an entry of the same second where it is.        *)
AddCount(d) ==
  /\ download[d].pc = "add"
  /\ download' = [download EXCEPT ![d].pc = "own", ![d].downloads = {}]
  /\ counts' = [counts EXCEPT ![Item(d)] = download[d].downloads \cup
       (IF SameSecond(d) THEN {} ELSE {[time |-> now, user |-> User(d)]})]
  /\ collided' = IF SameSecond(d) THEN collided \cup {Item(d)} ELSE collided
  /\ UNCHANGED <<ownership, flushed, now, search, crashes, crossed, twice, halfway>>

WriteOwned(d) ==
  /\ download[d].pc = "own"
  /\ ownership' = [ownership EXCEPT ![User(d)] = download[d].list \cup {Item(d)}]
  /\ download' = [download EXCEPT ![d].pc = "done", ![d].list = {}]
  /\ UNCHANGED <<counts, flushed, now, search, crashes, history>>

Handle(d) ==
  \/ \E r \in Requests : Request(d, r)
  \/ ReadOwned(d) \/ CreateOwned(d) \/ ReadCounts(d) \/ AddCount(d)
  \/ WriteOwned(d)

-----------------------------------------------------------------------------
(* search_software: get_or_insert on download_count_db for any item, in    *)
(* the comparison or for the answer.                                       *)
SearchReads(i) ==
  /\ search = NoItem /\ counts[i] = Absent
  /\ search' = i
  /\ Crosses(i)
  /\ UNCHANGED <<trees, flushed, now, download, crashes, collided, twice, halfway>>

SearchInserts ==
  /\ search # NoItem
  /\ counts' = [counts EXCEPT ![search] = {}]
  /\ search' = NoItem
  /\ UNCHANGED <<ownership, flushed, now, download, crashes, history>>

-----------------------------------------------------------------------------
Tick ==
  /\ now < MaxTime /\ now' = now + 1
  /\ UNCHANGED <<trees, flushed, download, search, crashes, history>>

Flush ==
  /\ flushed # trees
  /\ flushed' = trees
  /\ UNCHANGED <<trees, now, download, search, crashes, history>>

(* A crash, or the panic of a send to a client that is gone.               *)
Crash ==
  /\ crashes < MaxCrashes /\ crashes' = crashes + 1
  /\ counts' = flushed[1] /\ ownership' = flushed[2]
  /\ download' = [d \in Downloads |->
       IF download[d].pc = "start" THEN download[d]
       ELSE [New EXCEPT !.pc = "cut", !.request = download[d].request]]
  /\ search' = NoItem
  /\ halfway' = halfway \cup
       {r \in Requests : Listed(r.user, r.item)' /\ ~ Owns(r.user, r.item)'}
  /\ UNCHANGED <<flushed, now, crossed, collided, twice>>

Next ==
  \/ \E d \in Downloads : Handle(d)
  \/ \E i \in Items : SearchReads(i)
  \/ SearchInserts
  \/ Tick \/ Flush \/ Crash

Spec == Init /\ [][Next]_vars

-----------------------------------------------------------------------------
(* Properties.                                                             *)

(* Who owns an item is on its list, through crashes too since the list is  *)
(* written first, unless another task worked on the list at the same time  *)
(* or two downloads were in the same second.                               *)
OwnedIsListed ==
  \A u \in Users, i \in Items : Owns(u, i) =>
    Listed(u, i) \/ i \in crossed \cup collided

(* A user who downloads an item again is not counted again, unless two of  *)
(* their downloads ran at the same time or a restart came between the list *)
(* and the ownership.                                                      *)
CountedOnce ==
  \A u \in Users, i \in Items : counts[i] # Absent =>
    \/ Cardinality({e \in counts[i] : e.user = u}) <= 1
    \/ u \in twice
    \/ [user |-> u, item |-> i] \in halfway

(* search_software answers the best of the items that match, whatever the  *)
(* order in which it sees them and however often each was downloaded.  It  *)
(* is a function of the counts: once, in the initial state, it is checked  *)
(* for all of them.                                                        *)
SearchFindsBest ==
  Init => \A alg \in SearchAlgs, downloads \in [Stock -> Tallies], matching \in Matches, n \in Limits :
    IsBest(alg, downloads, matching, n,
           SearchSoftware(alg, downloads, Cardinality(Stock), matching, n))

=============================================================================
