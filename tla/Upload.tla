------------------------------- MODULE Upload -------------------------------
(***************************************************************************)
(* upload_software: the websocket sessions that bring the files of an item *)
(* to the server, and what they leave on disk.  A session keeps its place  *)
(* in locals; the directories .cached_files, .game_files and .game_images  *)
(* are shared by all sessions, and their files are named by hash.          *)
(*                                                                         *)
(* The content of a file is the number of its chunks that stand there in   *)
(* order, or Corrupt: only the whole of it has the right hash.  Clients    *)
(* keep to the protocol (the header, then for each chunk its size and hash *)
(* and the chunk in one message, the hash of the image, the image, and one *)
(* message more), but may hang up, upload again, announce less than they   *)
(* send, send a file that is not compressed or an image in parts.          *)
(*                                                                         *)
(* The release profile aborts the process on a panic, which ends every     *)
(* session and leaves the disk as it is.                                   *)
(***************************************************************************)
EXTENDS Integers, FiniteSets

CONSTANTS
  Sessions,         \* websocket connections
  Items,            \* items new_software has stored, each with an upload id
  Files, Images,    \* by hash
  FilesOf, ImageOf, \* what the client of an item has
  Chunks,           \* into how many chunks the client cuts a file
  Plain,            \* files that are not zstd
  CompressedSize,   \* what new_software was told, in chunks
  NoItem,           \* a connection that is not open
  NoFile,           \* no file is being moved
  Absent, Corrupt,
  MaxCuts           \* bound: connections lost and crashes

ASSUME UploadAssumption ==
  /\ FilesOf \in [Items -> (SUBSET Files) \ {{}}]
  /\ ImageOf \in [Items -> Images]
  /\ Chunks \in [Files -> Nat \ {0}]
  /\ Plain \subseteq Files
  /\ CompressedSize \in [Items -> Nat]
  /\ NoItem \notin Items /\ NoFile \notin Files
  /\ Absent \notin Nat /\ Corrupt \notin Nat /\ Absent # Corrupt
  /\ Absent \notin {"empty", "whole", "corrupt"}
  /\ MaxCuts \in Nat
  /\ \A i \in Items :                \* what a client has is finite
       IsFiniteSet(UNION {{f} \X (1..Chunks[f]) : f \in FilesOf[i]})

VARIABLES
  session,          \* the locals of each session
  cached,           \* .cached_files
  game,             \* .game_files
  images,           \* .game_images
  published,        \* items with files and a creation_time
  cuts,
  shared,           \* history: files two sessions worked on at the same time
  torn,             \* history: files whose copy a restart interrupted
  cut               \* history: images whose session ended before they were whole

disk == <<cached, game, images>>
history == <<shared, torn, cut>>
vars == <<session, disk, published, cuts, history>>

Contents == Nat \cup {Corrupt}

Closed ==
  [ pc |-> "closed", item |-> NoItem, sent |-> [f \in Files |-> 0],
    created |-> FALSE, todo |-> {}, file |-> NoFile, read |-> Absent,
    clean |-> {} ]

(* The locals of upload_software.                                          *)
Locals == [
  pc: {"closed", "chunks", "image hash", "create", "image", "finish",
       "check", "copy", "copying", "remove"},
  item: Items \cup {NoItem}, sent: [Files -> Nat], created: BOOLEAN,
  todo: SUBSET Files, file: Files \cup {NoFile}, read: Contents \cup {Absent},
  clean: SUBSET Files ]

TypeOK ==
  /\ session \in [Sessions -> Locals]
  /\ cached \in [Files -> Contents \cup {Absent}]
  /\ game \in [Files -> Contents \cup {Absent}]
  /\ images \in [Images -> {Absent, "empty", "whole", "corrupt"}]
  /\ published \subseteq Items
  /\ cuts \in 0..MaxCuts
  /\ shared \subseteq Files /\ torn \subseteq Files /\ cut \subseteq Images
  /\ \A s \in Sessions : session[s].pc # "closed" => session[s].item # NoItem
  /\ \A s \in Sessions :
       session[s].pc \in {"copy", "copying", "remove"} => session[s].file \in session[s].todo

Init ==
  /\ session = [s \in Sessions |-> Closed]
  /\ cached = [f \in Files |-> Absent]
  /\ game = [f \in Files |-> Absent]
  /\ images = [g \in Images |-> Absent]
  /\ published = {}
  /\ cuts = 0
  /\ shared = {} /\ torn = {} /\ cut = {}

-----------------------------------------------------------------------------
Goes(s, from, to) ==
  session[s].pc = from /\ session' = [session EXCEPT ![s].pc = to]

Open(s) == session[s].pc # "closed"
HasFile(s, f) == Open(s) /\ f \in FilesOf[session[s].item]
Image(s) == ImageOf[session[s].item]
Received(s) == UNION {{f} \X (1..session[s].sent[f]) : f \in Files}
AllChunks(i) == UNION {{f} \X (1..Chunks[f]) : f \in FilesOf[i]}

(* The size of what a session has received with one chunk more.            *)
Total(s) == Cardinality(Received(s)) + 1

(* The images that will not be finished if the sessions in S end.          *)
Unfinished(S) ==
  {Image(s) : s \in {t \in S : session[t].pc = "image" /\ session[t].created}}

Break(s) ==
  /\ session' = [session EXCEPT ![s] = Closed]
  /\ cut' = cut \cup Unfinished({s})

(* A panic or a crash: every session ends where it is.                     *)
Restart ==
  /\ session' = [s \in Sessions |-> Closed]
  /\ cut' = cut \cup Unfinished(Sessions)
  /\ torn' = torn \cup {session[s].file : s \in {t \in Sessions : session[t].pc = "copying"}}

Crash ==
  /\ cuts < MaxCuts /\ cuts' = cuts + 1
  /\ Restart
  /\ UNCHANGED <<disk, published, shared>>

(* The client hangs up.  The session notices when it waits for a message.  *)
HangUp(s) ==
  /\ session[s].pc \in {"chunks", "image hash", "image", "finish"}
  /\ cuts < MaxCuts /\ cuts' = cuts + 1
  /\ Break(s)
  /\ UNCHANGED <<disk, published, shared, torn>>

-----------------------------------------------------------------------------
(* The header: the upload id, which is never removed, leads to the item.   *)
Header(s, i) ==
  /\ session[s].pc = "closed"
  /\ session' = [session EXCEPT ![s] =
       [Closed EXCEPT !.pc = "chunks", !.item = i,
                      !.clean = {f \in FilesOf[i] : cached[f] = Absent}]]
  /\ shared' = shared \cup {f \in FilesOf[i] : \E t \in Sessions : HasFile(t, f)}
  /\ UNCHANGED <<disk, published, cuts, torn, cut>>

(* Mutant: the file is opened with truncate(true).                         *)
AppendedTruncating(content, n) == IF n = 1 THEN 1 ELSE Corrupt

(* What a file holds with chunk n appended.                                *)
Appended(content, n) ==
  CASE content = Absent  -> IF n = 1 THEN 1 ELSE Corrupt
    [] content = Corrupt -> Corrupt
    [] OTHER             -> IF n = content + 1 THEN n ELSE Corrupt

NextChunk(s, f) ==
  /\ session[s].pc = "chunks"
  /\ HasFile(s, f) /\ session[s].sent[f] < Chunks[f]

TooMuch(s) == Total(s) > CompressedSize[session[s].item]

(* The size and hash of a chunk, then the chunk.  Opening the cached file  *)
(* and writing to it are one step: whoever removes the file in between     *)
(* shares it.                                                              *)
Chunk(s, f) ==
  /\ NextChunk(s, f) /\ ~ TooMuch(s)
  /\ session[s].sent[f] = 0 => f \notin Plain
  /\ cached' = [cached EXCEPT ![f] = Appended(@, session[s].sent[f] + 1)]
  /\ session' = [session EXCEPT ![s].sent[f] = @ + 1,
       ![s].pc = IF Total(s) = Cardinality(AllChunks(session[s].item))
                 THEN "image hash" ELSE "chunks"]
  /\ UNCHANGED <<game, images, published, cuts, history>>

ChunkTooMuch(s, f) ==
  /\ NextChunk(s, f) /\ TooMuch(s)
  /\ Break(s)
  /\ UNCHANGED <<disk, published, cuts, shared, torn>>

(* "The file given is NOT a zst file"                                      *)
ChunkNotZst(s, f) ==
  /\ NextChunk(s, f) /\ ~ TooMuch(s)
  /\ session[s].sent[f] = 0 /\ f \in Plain
  /\ cached' = [cached EXCEPT ![f] = Absent]
  /\ Restart
  /\ UNCHANGED <<game, images, published, cuts, shared>>

-----------------------------------------------------------------------------
(* The image.  A file of this name is taken for the image.                 *)
ImageHash(s) ==
  /\ Goes(s, "image hash", IF images[Image(s)] = Absent THEN "create" ELSE "image")
  /\ UNCHANGED <<disk, published, cuts, history>>

CreateImage(s) ==
  /\ session[s].pc = "create"
  /\ session' = [session EXCEPT ![s].pc = "image", ![s].created = TRUE]
  /\ images' = [images EXCEPT ![Image(s)] = IF @ = Absent THEN "empty" ELSE @]
  /\ UNCHANGED <<cached, game, published, cuts, history>>

ImageKnown(s) ==
  /\ Goes(s, "image", "finish") /\ ~ session[s].created
  /\ UNCHANGED <<disk, published, cuts, history>>

(* The image in one message, over what another session may have written.   *)
ImageWhole(s) ==
  /\ Goes(s, "image", "finish") /\ session[s].created
  /\ \E content \in IF images[Image(s)] = "corrupt" THEN {"corrupt", "whole"} ELSE {"whole"} :
       images' = [images EXCEPT ![Image(s)] = content]
  /\ UNCHANGED <<cached, game, published, cuts, history>>

(* A part of the image in one message: it is written again and again until *)
(* the size is reached, and the hash differs.                              *)
ImageInParts(s) ==
  /\ session[s].pc = "image" /\ session[s].created
  /\ images' = [images EXCEPT ![Image(s)] = "corrupt"]
  /\ Break(s)
  /\ UNCHANGED <<cached, game, published, cuts, shared, torn>>

-----------------------------------------------------------------------------
(* The last message: file by file the hash, the copy and the removal.      *)
Finish(s) ==
  /\ session[s].pc = "finish"
  /\ session' = [session EXCEPT ![s].pc = "check", ![s].todo = FilesOf[session[s].item]]
  /\ UNCHANGED <<disk, published, cuts, history>>

Checks(s, f) == session[s].pc = "check" /\ f \in session[s].todo

(* Mutant: the file is taken off the list when its hash is right.          *)
CheckPassesEarly(s, f) ==
  /\ Checks(s, f) /\ cached[f] = Chunks[f]
  /\ session' = [session EXCEPT ![s].pc = "copy", ![s].file = f, ![s].todo = @ \ {f}]
  /\ UNCHANGED <<disk, published, cuts, history>>

(* Mutant: the hash is computed and not compared.                          *)
CheckNothing(s, f) ==
  /\ Checks(s, f) /\ cached[f] # Absent
  /\ session' = [session EXCEPT ![s].pc = "copy", ![s].file = f]
  /\ UNCHANGED <<disk, published, cuts, history>>

CheckPasses(s, f) ==
  /\ Checks(s, f) /\ cached[f] = Chunks[f]
  /\ session' = [session EXCEPT ![s].pc = "copy", ![s].file = f]
  /\ UNCHANGED <<disk, published, cuts, history>>

(* Mutant: the file that failed stays.                                     *)
CheckFailsKeeping(s, f) ==
  /\ Checks(s, f) /\ cached[f] # Chunks[f]
  /\ Restart
  /\ UNCHANGED <<disk, published, cuts, shared>>

(* The hash differs: remove and panic.  No file: the unwrap panics.        *)
CheckFails(s, f) ==
  /\ Checks(s, f) /\ cached[f] # Chunks[f]
  /\ cached' = [cached EXCEPT ![f] = Absent]
  /\ Restart
  /\ UNCHANGED <<game, images, published, cuts, shared>>

Moved(s) == session[s].file

(* fs::copy opens the source, then truncates the destination.              *)
CopyOpen(s) ==
  /\ session[s].pc = "copy" /\ cached[Moved(s)] # Absent
  /\ session' = [session EXCEPT ![s].pc = "copying", ![s].read = cached[Moved(s)]]
  /\ game' = [game EXCEPT ![Moved(s)] = 0]
  /\ UNCHANGED <<cached, images, published, cuts, history>>

(* It is corrupt if another session appends to the source or writes longer *)
(* to the destination at the same time.                                    *)
Copy(s) ==
  /\ session[s].pc = "copying"
  /\ session' = [session EXCEPT ![s].pc = "remove", ![s].read = Absent]
  /\ \E content \in {session[s].read} \cup ({cached[Moved(s)], game[Moved(s)]} \cap {Corrupt}) :
       game' = [game EXCEPT ![Moved(s)] = content]
  /\ torn' = torn \ {Moved(s)}
  /\ UNCHANGED <<cached, images, published, cuts, shared, cut>>

Remove(s) ==
  /\ session[s].pc = "remove" /\ cached[Moved(s)] # Absent
  /\ cached' = [cached EXCEPT ![Moved(s)] = Absent]
  /\ session' = [session EXCEPT ![s].pc = "check", ![s].file = NoFile,
                                ![s].todo = @ \ {Moved(s)}]
  /\ UNCHANGED <<game, images, published, cuts, history>>

(* The unwraps of copy and remove_file: another session removed the file.  *)
NothingToMove(s) ==
  /\ session[s].pc \in {"copy", "remove"} /\ cached[Moved(s)] = Absent
  /\ Restart
  /\ UNCHANGED <<disk, published, cuts, shared>>

(* Mutant: the item is written as soon as the hashes are being checked.    *)
PublishEarly(s) ==
  /\ session[s].pc = "check"
  /\ published' = published \cup {session[s].item}
  /\ Break(s)
  /\ UNCHANGED <<disk, cuts, shared, torn>>

(* files and creation_time are set in the copy of the item the header took *)
(* and the item is inserted.  Nothing else changes an item once it exists. *)
Publish(s) ==
  /\ session[s].pc = "check" /\ session[s].todo = {}
  /\ published' = published \cup {session[s].item}
  /\ Break(s)
  /\ UNCHANGED <<disk, cuts, shared, torn>>

(* A message of the client, and what the session does between messages.    *)
Message(s) ==
  \/ \E f \in Files : Chunk(s, f) \/ ChunkTooMuch(s, f) \/ ChunkNotZst(s, f)
  \/ ImageHash(s) \/ ImageKnown(s) \/ ImageWhole(s) \/ Finish(s)

Work(s) ==
  \/ CreateImage(s) \/ CopyOpen(s) \/ Copy(s) \/ Remove(s) \/ NothingToMove(s)
  \/ Publish(s)
  \/ \E f \in Files : CheckPasses(s, f) \/ CheckFails(s, f)

Next ==
  \/ \E s \in Sessions :
       \/ \E i \in Items : Header(s, i)
       \/ Message(s) \/ ImageInParts(s) \/ Work(s) \/ HangUp(s)
  \/ Crash

Spec == Init /\ [][Next]_vars

(* The server works on, and a client that has not hung up goes on sending. *)
(* The files of a session are a HashMap, whose order is random: no order   *)
(* is avoided for ever.                                                    *)
FairSpec ==
  /\ Spec
  /\ \A s \in Sessions : WF_vars(Work(s)) /\ WF_vars(Message(s))
  /\ \A f \in Files : SF_vars(\E s \in Sessions : CheckPasses(s, f))

-----------------------------------------------------------------------------
(* Properties.                                                             *)

(* What a download of an item sends is what its creator uploaded, unless   *)
(* two sessions worked on the file at the same time, or the file is being  *)
(* uploaded again, or a restart interrupted that.  Its image is whole too, *)
(* unless a session left the image unfinished or is about to write it.     *)
FileIntact(f) ==
  \/ game[f] = Chunks[f]
  \/ f \in shared \cup torn
  \/ \E s \in Sessions : session[s].pc = "copying" /\ Moved(s) = f
ImageIntact(g) == images[g] = "whole" \/ g \in cut \cup Unfinished(Sessions)
PublishedIntact ==
  \A i \in published : ImageIntact(ImageOf[i]) /\ \A f \in FilesOf[i] : FileIntact(f)

(* The unwrap of File::open in download_software: every file of an item    *)
(* that can be downloaded is there, whatever was interrupted.              *)
PublishedHasFiles == \A i \in published : \A f \in FilesOf[i] : game[f] # Absent

(* A session that found no leftover of its file and shared it with nobody  *)
(* finds it whole when it checks the hash: its client does not abort the   *)
(* server.                                                                 *)
CleanUploadPasses ==
  \A s \in Sessions : \A f \in session[s].clean \ shared :
    Checks(s, f) => cached[f] = Chunks[f]

(* What is left of interrupted uploads does not keep the next ones from    *)
(* succeeding: a client that keeps coming back gets its item published.    *)
Tries(i) == \E s \in Sessions : Header(s, i)
Publishable ==
  {i \in Items : Cardinality(AllChunks(i)) <= CompressedSize[i] /\ FilesOf[i] \cap Plain = {}}
RetriesSucceed ==
  \A i \in Publishable : []<><<Tries(i)>>_vars => <>(i \in published)

=============================================================================
