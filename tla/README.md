# A TLA+ verification of coinstribute_backend

coinstribute is a small marketplace server: users register, receive a Monero
subaddress, deposit, withdraw, pay for and download software. The server is one
process (`src/src`, warp on tokio) over one sled database, next to a Monero
wallet RPC daemon and a Monero node it calls through `src/crates/monero_wallet`.

This directory models the parts where money and sessions can go wrong, checks
them with TLC and proves the central results with TLAPS. Paths below are
relative to `src/src` unless they start with `crates/`.

## 1. Inventory

| component | state | operations | talks to |
|---|---|---|---|
| withdrawals (`money.rs` 338-532, 723-788) | unbounded channel `monero_tx_*`, Vec `pending_requests` under a tokio Mutex, locals of two tasks | `withdraw_monero`; receiving and sending task of `send_monero` | `auth_db`, `cookie_db`, `money_db`, wallet (`transfer`), node (`get_fee`) |
| accounts (`money.rs` 34-91, 222-302, 547-712) | `money_db`; `all_transfers` under an RwLock | `update_transfers`, `update_acc_balances`, `attach_xmr_address`, `spend_money`, `get_balance` | wallet (`get_balance`, `get_transfers`), every handler that owns a record |
| fee cache (`money.rs` 534-545, 650-686) | `CachedFee` (atomics) | `update_cached_fee`, `get_fee`, `get_uptodate_fee` | node |
| authentication (`auth.rs`) | `auth_db`, `cookie_db`, `captcha_db` | `register`, `login`, `create_captcha`, `verify_auth_cookie`, two sweeping threads | wallet (`create_address`), `money_db` |
| software catalogue (`software.rs` 72-207, 584-742, 890-970) | `software_db`, `upload_id_db`, id counter | `new_software`, `search_software` | `money_db`, `captcha_db` |
| upload (`software.rs` 211-582) | locals of a websocket session, files | `upload_software` | `software_db`, file system |
| download (`software.rs` 742-888) | `download_count_db`, `software_ownership_db` | `download_software`, and `search_software` by its `get_or_insert` | file system |
| logging (`logging.rs`) | channel of 200, buffer under a Mutex, channel of 1 | `Log::send`, `logging_service` | every handler, `update_acc_balances` |
| database layer (`db.rs`) | a sled tree per table, one log | `get`, `insert`, `remove`, `iter`, `apply_batch` | everything |
| wallet client (`crates/monero_wallet`) | none | `request` (5 connection attempts), `long_request` (2) and the calls built on them | wallet daemon, node |
| start-up (`main.rs`) | none of its own | opens the trees, spawns the tasks, binds the routes | everything |

How they interact: the handlers and the background tasks share nothing but the
sled trees, the channel, the Mutex and the RwLock. Every change to a record of
`money_db` is a read, a change to a copy and an insert, without a transaction
or compare-and-swap; sled makes each single call atomic and `apply_batch`
atomic. A panic ends the process (`panic = "abort"`), arithmetic wraps
(`overflow-checks = false`).

What is hard: the interleavings of these read-modify-writes, over awaits; the
wallet call whose answer is lost; a restart, which forgets what is in memory
and what sled had not flushed; the two locks held across RPCs and sleeps; the
order and index arithmetic of the Vecs; roundings and wrap-around. The list,
with a line for each, is under `hazards` in `PROJECT.json`.

What makes each component correct:

* withdrawals: nothing accepted is lost or doubled by a hand-over; the queue
  keeps its order; a payment is repeated only where an answer was missed; a
  request that keeps failing does not hold up the others.
* accounts: a record loses a purchase or a fee only when copies overlap; it
  keeps its own subaddress; its balances are ones the wallet reported; the
  refresh goes on.
* arithmetic: the balance follows the operations up to a known rounding.
* authentication: a captcha is spent once; a session belongs to who knows the
  password; user, record and cookie agree; expired cookies go.
* logging: no line is lost, doubled or reordered, the file has no gap, the
  buffer stays near its threshold, and nobody waits for ever between the
  channels, the Mutex and the disk.
* catalogue: an upload id leads to the item it was given out for; no item takes
  the id of another; what a creator has spent is explained by items and calls;
  a search answers the best of the items that match.
* upload: what is published has all its files, whole, whatever was interrupted;
  what an interrupted upload leaves behind does not keep later ones from
  succeeding.
* download: who owns an item is on its list, and is there once.
* fee cache: the minimum deposit is five fees of a transaction.

## 2. Modules

| module | models |
|---|---|
| `FinancialInfo` | the record of `money_db` and the arithmetic on it, as operators |
| `Payouts` | what the withdrawal pipeline promises: accepted, dropped, settled, lost; paid when |
| `Withdrawals` | `withdraw_monero` and `send_monero`, the wallet's `transfer`, restarts |
| `WithdrawalsProofs` | inductive invariant, safety and refinement of `Withdrawals` |
| `Account` | one account, one operation at a time: the arithmetic over legal histories |
| `AccountProofs` | the rounding bound and the absence of wrap-around, for all values |
| `Accounts` | everything that reads and writes `money_db` concurrently |
| `AccountsProofs` | inductive invariant of `Accounts`: what records show, and what they keep |
| `Auth` | registration, login, captchas, cookies, both sweeping threads, flush and crash |
| `AuthProofs` | inductive invariant of `Auth`, its captchas, sessions and records |
| `Software` | `new_software`: charge, counter of ids, items and upload ids, flush and crash |
| `SoftwareProofs` | inductive invariants of `Software` for ids and for money |
| `Search` | `search_software` as a function, and what "the best" means |
| `Upload` | the websocket sessions of `upload_software` and the files they share |
| `UploadProofs` | inductive invariant of `Upload`: published files and images are there and whole |
| `Download` | the lists `download_software` keeps, beside `search_software`, flush and crash |
| `DownloadProofs` | inductive invariant of `Download`: owners are listed, and counted once; `Search` finds the best |
| `Fees` | `CachedFee`, `update_cached_fee`, `deposit_req`, the attempts of `get_fee` |
| `Journal` | what the log promises: lines reach the file once and in order, a restart loses what has not |
| `Logging` | `Log::send`, both tasks of `logging_service`, the file, restarts |
| `LoggingProofs` | inductive invariant, bound and refinement of `Logging` |
| `MC*` | constants for TLC; one `.cfg` per question |

Operators whose comment starts with *Mutant* are wrong on purpose: each is a
plausible mistake in the definition below it, and shows that a property can
tell the difference. No specification uses them.

### Withdrawals

A queue holds identities of calls; the `TransferReq` of call c is `req[c]`.
`stage[c]` is "new", "fee" (awaiting the fee, line 351), "send" (checked, line
466), then "accepted" (200 OK is certain), "refused", "dropped" (the receiver
found the balance too low and says nothing, 736), "settled" (removed after an
Ok, 773) or "lost" (a restart). `lockQueue` is the Mutex, first come first
served. The sender's `pc` marks where it can be interrupted: before and in
`lock().await`, at the head of the scan, in the RPC, between the two inserts
around `flush_async().await`. `WithdrawChecked` reads the record and builds the
request in one step, since no await lies between 378 and 467.

The wallet is external. A transfer request is delivered or not
(`long_request` repeats only connections that timed out, so nothing is sent
twice by it); the wallet then pays or refuses; `AnswerLost` is the sender
missing the answer, after which the wallet may still pay
(`WalletServesAbandoned`). The wallet serves one request at a time.
`OtherTasksWrite` lets every other task write any record at any time, which
covers `update_acc_balances`, `attach_xmr_address` and `new_software`.

`Payouts` knows neither queue nor lock nor task; the refinement maps "fee" and
"send" to "new".

### Account

One action per complete operation. The withdrawal runs the checks of
`withdraw_monero`, of the receiving task and of the wallet, then the charge of
the sending task and the refresh. The network fee charged is the one quoted,
and `transfers_out` has caught up with `service_fee_total`, which is why
`out_fees = service_fee_total` is in its type invariant.

### Accounts

`updater` and `refresher` are the loops of `update_acc_balances` and
`update_transfers`; `editor[e]` is a task that reads one record, changes its
copy and writes it, once: `attach_xmr_address`, the charge of `new_software`,
and a withdrawal from the receiver's check on (transfer, read, insert, flush,
insert). Which of these it is, it chooses from the constant `Jobs`. The
updater goes record by record in key order; it reads the record, then waits for
the RwLock, then computes; the batch is written at the end. `GetTransfers` is
kept exactly as the code has it: slot k carries the k-th index as its label and
the transfers of subaddress k. The indices a pass collects are read in one step
(the code's iterator is not a snapshot; what it may miss is a record inserted
during the same pass).

A round of answers of the wallet is a total function of the indices, with
`NoAnswer` for those it was not asked about. `IndicesIn` are the places, in key
order, that the records with an index have, as `values()` yields them.

History variables: `current[u]` are the tasks whose copy of u's record is up to
date; `overlapped[u]` becomes true when a task writes from one that is not;
`spent[u]` and `charged[u]` count without a width, and `KeptUnlessOverlap`
compares them with the record modulo `Modulus`, as the u64 would have them;
`aligned` stays true while the records in key order have indices 1, 2, 3, ....

### Auth

A `User`, a record and a cookie are named after the call that wrote them, so
that who registered, whose record it is and whose session it is can be
compared. The four trees share one log: `flushed` is what a restart finds, and
`Flush` may come between any two writes. A panic is a restart. `expired` holds
cookies older than ninety days; a pass of a sweeping thread compares with the
time at its beginning (`due`) and yields keys in any order.

### Logging

`Send` begins `Log::send`; tokio's channel hands permits to the waiting sends in
order (`Grant`), and the line enters the channel when the task that has one runs
again (`Push`), or never, when hyper has dropped the handler (`Cancel`). The
collector holds one line between `recv` and the push under the Mutex; the
formatting at line 87 and the two `push_str` are one step, as nothing waits
between them. `len` is the length of the String in bytes, the lengths of lines
come from `Sizes`, and the lines themselves are named by task and number. The
guard is dropped before the message to the writer is sent (line 95), so `pc` =
"force" does not hold the lock.

The writer has a step for each place where it waits: the first look of
`select!`, the wait in it, asking for the lock, holding it. `select!` may leave
the message in the channel when the ninety seconds end at the same time.
`write_all` goes through `tokio::fs::File`: a write copies a chunk and a
blocking thread writes it, the next write waits for that one and reports its
error. So `write_all` returns, and the String is cleared, while the last chunk
(`chunk`) is still being written, and an error meets the `unwrap` of line 80
with the next write only. A chunk is cut between lines; the code may cut inside
one, which changes nothing but where a failed write stops. `DiskFails` keeps
what was not written in `chunk` and stops the disk until the panic.

The refinement of `Journal` reads what is pending from the chunk, the rest of
the String, the line the collector holds and the channel, in this order.

### Software

One instance of `new_software` per call: the record is read and written in two
steps (136-137), because calls run on several threads although none of them
awaits; then the size is looked at, the id taken from the atomic counter, the
item and the upload id inserted. An item and its upload id are named after the
call. A restart takes the trees back to `flushed` and sets the counter to the
largest stored id plus one (`Follows`, `main.rs` 79-93): ids that were given out
and not flushed are given out again. `overlapped` records users with two calls
between read and write. `Search` translates the fold of `search_software` and
its `reduce`; only the four comparators that are not `todo!()` are there.

### Upload

`session[s]` holds the locals of a websocket; `cached`, `game` and `images` are
the three directories. The content of a file is the number of its chunks that
stand there in order, or `Corrupt`. Clients keep to the protocol but hang up,
come back, announce too little, send what is no zstd or an image in parts. Each
step between two messages that touches the disk is an action, so sessions meet
on a cached file between the check, the copy and the removal; `fs::copy` is two
steps, because it truncates its destination first. A panic (`CheckFails`,
`ChunkNotZst`, `NothingToMove`) ends all sessions and leaves the disk.
What a session has received are pairs of a file and a chunk of it, and the file
is complete when there are as many pairs as chunks, which is how the code adds up
the sizes. `clean` are the files a session found no leftover of; `shared`, `torn` and `cut`
record files two sessions worked on, copies a restart interrupted, images whose
session ended before they were whole.

### Download

A download reads and writes two trees. `get_or_insert` (`db.rs` 88) is a get
and an insert: `CreateOwned` writes the empty list over whatever is there by
then, and so does a search for the counts (`SearchReads`, `SearchInserts`);
what the search answers is a function of the counts, `Search`. The
list of an item is a `BTreeSet` ordered by the second alone, hence `SameSecond`.
The send that fails panics, which is a crash.

### Fees

Each task that waits for the daemon is a record with its attempts. `charged` is
what the estimate behind an answer makes of a transaction of 2000 bytes, to
which `MinimumIsFiveFees` compares the answer.

## 3. Runs

| run | cfg | question | result |
|---|---|---|---|
| withdrawals | `MCWithdrawals.cfg` | three calls of one user, two records, one lost answer per call, any number of crashes: conservation, order, duplicates, refinement, and under fairness no head-of-line blocking | holds |
| account | `MCAccount.cfg` | four operations, amounts 5..200 around the divisions by 100 and 49, fees 1 and 7 | holds |
| accounts | `MCAccounts.cfg` | two tasks, each a purchase of 60 or 40 or a withdrawal of 40, a deposit of 100, both refreshing tasks | holds |
| accounts_index | `MCAccountsIndex.cfg` | two users, three subaddresses, registrations in any order, lost answers of `create_address`, an attached address; does the refresh go on though `update_transfers` always fails? | holds |
| accounts_swap | `MCAccountsSwap.cfg` | does a record keep the index of its deposit address? | no |
| auth | `MCAuth.cfg` | two calls that register one name (two passwords) or log in, two captchas, both sweeps, one crash; under fairness, do expired cookies go? | holds |
| logging | `MCLogging.cfg` | a handler and a task, two lines each, any number of restarts: bound, order and completeness of the file, under fairness the arrival of lines and of senders | holds |
| software | `MCSoftware.cfg` | two calls of one creator and one of another, two crashes, flushes at any time: ids, upload ids, charges | holds |
| upload | `MCUpload.cfg` | two sessions, an item of two files and one of one of them, one image, a hang-up or a crash, any panics | holds |
| upload_live | `MCUploadLive.cfg` | one session at a time, three interruptions, an oversized item and one that is no zstd: does a client that comes back succeed? | yes |
| download | `MCDownload.cfg` | three downloads of two users and two items, two seconds, a crash, a search; and all searches of up to four items | holds |
| fees | `MCFees.cfg` | is the minimum deposit five fees, warm cache or not? | no |

### Bounds

* Three calls are the least with a failing request at the head, one settled
  behind it and one arriving: removal in the middle, both sides of it. They
  are symmetric. One missed answer per call (`MaxAbandoned`) already gives the
  duplicate; crashes are unbounded since they cost no state.
* `MaxOperations` = 4 lets two withdrawals' drift meet a purchase; the proofs
  remove the bound. `Modulus` = 4096 exceeds every sum that does not wrap.
* `MaxDeposits` = 1: a deposit of 100 pays for 60 and 40 but not for 60 twice,
  so that both the refusal and the success of the second purchase are reached,
  and a withdrawal of 40 with a fee of 9 leaves less than the other purchase.
  `MaxMinted` = 3 leaves a gap in the indices or gives both users one.
* `Auth`, `MaxCrashes` = 1: a second crash finds no state the first could not
  leave. Two calls are the least for a race, and a third is not needed by any
  property; `AuthProofs` covers every number of both.
* `Software`, `MaxCrashes` = 2: an id is given out, lost, given out again, and
  lost again after an item with it was stored. Alice can pay for both her calls
  and Bob for his: a refusal needs no money.
* `Upload`: file a has two chunks, so that a leftover can be half of it; both
  items need a and one needs b as well, so that a session may publish while
  another is halfway. `MaxCuts` = 1 with two sessions, since panics are unbounded;
  3 with one session, so that leftovers of two files and an image meet.
  `UploadProofs` removes these bounds for what is published.
* `Download`: `MaxTime` = 1 gives two seconds, enough for downloads in one second
  and in different ones; Alice may ask for one item twice or for two. Searches:
  counts 0..2 give ties, n from 1 to 3 with four items makes results give way.
  One crash in the run; `DownloadProofs` covers any number, and any time.
* `Capacity` = 1 and two tasks make a send wait with one before it; two lines of
  length 1 or one of length 2 cross `Threshold` = 1; four lines of lengths 1, 2,
  2, 2 reach the bound of `BufferBounded` exactly. The mutant that does not wait for the message exceeds it. The proofs
  remove these bounds.
* The specifications with bounded histories (`Account`, `Auth`, `Logging`,
  `Software`, `Download`) really stop, and are checked without deadlock checking;
  the others never do.

### Fairness

`Withdrawals`: weak fairness of the handlers past authorisation, of each task
and of the wallet. tokio runs a task that is ready, its Mutex is fair, a sleep
ends; that the wallet answers or the connection breaks is an assumption the
code does not enforce (hyper has a connection timeout, no read timeout).
`AnswerLost`, refusals and crashes are never required. `Accounts`: the same for
the two refreshing tasks, with the failure of an RPC as one of the ways on.
`Auth`: the sweeping thread is scheduled. `Logging`: the channel, each task that
has a permit, the collector and the writer are scheduled, the sleep of the
writer ends, and a write that has begun ends, well or with an error; no send is
ever required to begin. `LinesArrive` makes no promise once the disk has failed,
because the code makes none: if no line comes afterwards, nobody is told.
`Upload`: the server works on, and a client that has not hung up goes on sending;
`RetriesSucceed` is about clients that come back for ever. With two files this is
not enough: leftovers of both may alternate, if the file that has one is always
checked first. The files of a session are a `HashMap`, whose order is drawn
anew for each session (`RandomState`): no file is checked last for ever, which is
strong fairness of `CheckPasses` for each file.

### Findings

1. Users whose names sort otherwise than they registered get each other's
   subaddress index, balance and withdrawals (`get_transfers`); run
   `accounts_swap`.
2. Once the cache of the network fee is warm, the minimum deposit is 2000 times
   smaller than before: `get_fee` multiplies only the fallback by the size of a
   transaction; run `fees`.

Behaviours the properties allow for, each with the history variable that records
it, so that the property shows nothing else goes wrong: two purchases at once are
paid from one balance (`overlapped`); a second removal of a captcha aborts the
server (`CallPanics`, `CaptchaSweepPanics`); the cookie sweep removes a cookie
newer than the one that expired (`LiveSpared` promises only those open when the
pass began); a registration replaces the User of another under way (`raced`); a
denial of `new_software` for the size, or a restart, keeps the money (`Pending`);
two uploads of one file spoil it or abort the server (`shared`), and a restart
during a copy leaves a published file cut short (`torn`) and an image that is
never finished (`cut`); two downloads in one second count as one (`collided`).

The comment at `money.rs` 64-66 takes the fee charged, (amt_sent + network_fee)
/ 49, for the fee quoted, 2 * (amt / 100). The roundings differ by up to two
piconero per withdrawal, which `FeeDrift` proves and `DriftBounded` accounts for.

## 4. Proofs

`Withdrawals`. `QueueIsOutstanding`, `DuplicateNeedsAbandon` and
`SettledIsQuiet` are not inductive: whether a settle step is right depends on
the sender's index being inside the Vec while it waits, hence on the lock being
held through the scan, and on where each payment of a call stands. `IInv` adds
this: `UnderWay` (a call under way has what the code unwraps; the sender scans
under the lock; its index is valid while it holds a request) and `Accounted`
(payments plus requests still with the wallet are at most the missed answers,
plus one if the call was just answered, settled or lost). `WithdrawalsProofs`
proves `Init => IInv`, `IInv /\ [Next]_vars => IInv'` with a lemma per conjunct
and a step per action, then `TypeCorrect`, `NothingMislaid`,
`DuplicatesExplained`, `SettledFinal`, `OrderPreserved` and, by mapping each
step to a step of `Payouts` or a stutter, `Refinement`. Assumed:
`WithdrawalsAssumption`, `ModulusAssumption`, `AddrAssumption`, all evaluated by
TLC.

`Account`. `FeeDrift` is arithmetic: with amt = 100 q + r, the fee charged is
(98 q + r) / 49 = 2 q + r / 49 with r < 100. Each withdrawal thus moves the
available balance by `amt` plus zero to two; `AccountFollows` and `PrudentSafe`
follow by induction over the operations, for every `Modulus`;
`AccountTypeCorrect` says that no field leaves the width.

`Accounts`. None of the properties is inductive, because tasks write copies of
records, and each copy was read at a time of its own. `Held(u, info)` is every
place a copy of u's record can be: the tree, the batch of the updater, its local
while it waits for the lock, the locals of an editor between its read and its last
write. `AccountsInv` speaks about all of them at once:

* `Registrations`, `Round`, `Locking`: there is no copy of what is not there yet;
  the batch holds what the updater has passed; the refresher stores under the lock.
* `Alignment`: while the records in key order have the indices 1, 2, ..., every
  copy has the index of its deposit address, and slot k of the transfers is
  labelled k. This is what makes writing a stale copy harmless for the index.
* `Wallet`, `Showing`, `Charging`: of a subaddress that has paid nothing, the
  answers under way and the copies show no more than it holds, and nothing was
  charged. Answers of two calls of one round may be of different times, hence the
  comparison between `balances` and `fulls`.
* `UpToDate`: a copy in `current[u]` has every purchase and every fee, its own
  included, modulo `Modulus`, and for an unpaid subaddress the balance to pay them.

What a step of each task does is stated once (`EditorSteps`, `UpdaterSteps`,
`RefresherSteps`, `WalletSteps`); `HeldStep` says where a copy after a step comes
from: a copy before it, or the record the step made of one. Then there is a lemma
per conjunct. `values()` is a `SelectSeq`, whose recursion the provers cannot see
through: `NthIn` proves what is needed of the k-th index from a least
counterexample (`WFMin`), as the induction theorems of the library cannot be
instantiated. The sums modulo `Modulus` rest on `RemainderAdd` and
`RemainderLeft`, proved from the quotient. `AccountsTypeCorrect`,
`RecordsKept`, `IndicesKept`, `RecordsCredible` and `PurchasesCovered` follow, for
any users, jobs, amounts and deposits. Assumed: `AccountsAssumption`,
`ModulusAssumption`, evaluated by TLC.

`Logging`. `BufferBounded` is not inductive: that a push past the threshold
cannot be repeated depends on where the collector and the writer are. `Overfull`
says it: past the threshold, the collector is about to send its message, or the
message waits, or the writer is past `select!`; a line length further, two of
these hold; another one further, all three, so the collector cannot push. With
`LockHeld` (who writes holds the lock, and the collector holds a line exactly
while it waits for the lock) and the types it is `IInv`, proved inductive with a
lemma per conjunct and a step per action. `StringBounded` follows for every
threshold and line length, and `JournalKept` maps each step to a step of
`Journal` or a stutter; `LockHeld` is what makes clearing the String right.
Assumed: `LoggingAssumption`, evaluated by TLC.

`Auth`. That a session is its owner's is not inductive: it depends on what a
call under way remembers and on what a restart would find. `AuthInv` adds
`Owned` (each entry, in memory and on disk, was written by a call for that
name, one that is far enough), `Peaceful` (as long as no registration replaced
a User: the user, record and cookie in memory fit each other, so do those on
disk, the user on disk is the one in memory or none, and each call under way
still knows what is on record), `Kinds`, `Spent` (a captcha that let a call
through is gone and is not made again) and `Sweeping` (the cookies a pass found
alive are not due, so the sweep cannot have picked one, and they belong to
answered calls, so none of them is issued anew). `AuthProofs` proves it with a
lemma per conjunct; `HandleFrame` and `BackgroundFrame` say once what a step
leaves alone. `CaptchaOnce`, `SessionsRightful`, `RecordsKept` and
`LiveOnesSpared` follow. Assumed: `AuthAssumption`, evaluated by TLC.

`Software`. `IdsInv`: an item and an upload id belong to a call that is far
enough (`NotYet`); stored ids are below the counter and different, on disk too
(`Stored`); a call that holds an id holds one nobody has (`Reserved`); an upload
id leads home on disk too (`Home`: it is written after the item, and one log
flushes both). `UploadIdsRight` and `ItemsStay` follow. `MoneyInv` adds that a
user without overlap has one call between read and write, which read what is
still on record (`Alone`), and that the price of what is stored or about to be is
spent, and no more than the price of what was paid, in memory and on disk
(`Spent`). `SpentIsExplained` follows. The set of calls is finite
(`SoftwareAssumption`), which cardinalities need.

`Upload`. That a published item is whole depends on what each session has in hand.
`UploadInv` says, of a session that finishes, that the files it has moved are there
and intact (`Places`, `FilesWhole`), and that the one it is moving is whole where
it stands: in the cache until it is copied, in the game files after. No other
session can spoil that, because two open sessions with a file in common are in
`shared` (`Apart`). Of images it says that one that is there is whole, or a
session is about to write it, or one ended before it did (`ImagesWhole`).
`Effects` and `Steps` say once what each step does; the invariant is proved with a
lemma per conjunct, and `FilesStay` and `UploadsIntact` follow. `CleanUploads`
needs that the content of a file counts the chunks that were sent: `CleanSent`
says that a file the session found clean and shares with nobody stands in the
cache with as many chunks as the session has sent of it, by the cardinality of a
set of pairs, and that a session which checks its files has sent them all. Assumed:
`UploadAssumption`, evaluated by TLC.

`Download`. `DownloadInv`: the copy of a list that a download will write back is
what stands in the tree unless the history has the item (`Fresh`); what is owned
or about to be is listed, on disk too (`Backed`); a user without overlap has one
download under way, whose copy of the ownership is what stands there (`Alone`);
and an entry of such a user, in the tree or in any copy of the list, is the only
one and belongs to an item the user owns or is about to own (`Once`). Stale copies
count: another user's download may bring back an entry that was overwritten.
`OwnersListed` and `NobodyCountedTwice` follow for any number of crashes, which
takes a history of all restarts (`halfway` only grows). Assumed:
`DownloadAssumption`, evaluated by TLC.

`Search`. `BestFound`: whatever items match, in any order of their keys, with any
counts and any `num_results` but 0, the answer is the best of them. The two folds
of the code are recursive functions; `FoldExists` proves that such a function is
there, and `NumbersByInduction` gives induction for a set of numbers, which the
provers can instantiate where they cannot take a predicate. `BeforeRank` reduces
the four comparators to one rank, `WorstIsWorst` is about `reduce`, and
`VisitKeepsBest` is the invariant of the loop, `BestOf`: who was seen and is not
among the results had to give way, and comes before none of them. Assumed:
`SearchAssumption`, evaluated by TLC.

Only model-checked: `NoHeadOfLineBlocking`, `BalancesKeepRefreshing`,
`ExpiredCookieGoes`, `LinesArrive`, `SendersServed` and `RetriesSucceed`: liveness
is out of the prover's reach. Every invariant and every action property that a
passing run checks is proved.

## 5. Not modelled

* The read-only handlers (`get_balance`, `server_profits`, `view_captcha`,
  `view_software_image`), routes, CORS, wording of responses: nothing they do
  changes state.
* Hashing, salts, formats of JSON and bincode, blockchain confirmations beyond
  locked and unlocked. The wallet takes the amount and the fee of a transfer
  from the subaddress and leaves the change there.
* `set_daemon`, `set_refresh_time`, and the functions of `daemon_rpc.rs`
  nothing calls.
* Of `upload_software`: the two limits on the header (one of them is a `todo!()`),
  chunks that come in several messages, clients that leave the protocol, and
  `title_image_hash`, which no code ever links to an item.
* Of `search_software`: the comparators that are `todo!()`, and
  `num_results` = 0, where the first item that matches panics.
* Crashes in `Accounts` (they are in `Withdrawals`, `Auth` and `Software`), and a
  name registered twice there (it is in `Auth`).

## 6. Plan

Done: every component of the inventory that changes state.

Left: a composition of `Auth` with `Accounts`, so that a double registration
meets the refresh.
