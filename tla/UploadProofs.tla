---------------------------- MODULE UploadProofs ----------------------------
(***************************************************************************)
(* Proofs about upload_software, for any sessions, items and files, chunks *)
(* of any number and any number of interruptions: a published item keeps   *)
(* its files and its image, and they are what its creator uploaded.        *)
(***************************************************************************)
EXTENDS Upload, FiniteSetTheorems, TLAPS

(* Where a session is: a file in hand, past the files it has moved, past   *)
(* the hash of its image, past the image.                                  *)
Moving(s) == session[s].pc \in {"copy", "copying", "remove"}
Finishing(s) == session[s].pc = "check" \/ Moving(s)
HasHash(s) == session[s].pc \in {"image", "finish"} \/ Finishing(s)
HasImage(s) == session[s].pc = "finish" \/ Finishing(s)
Done(s) == FilesOf[session[s].item] \ session[s].todo

(* The files a session moves are its own, and those it has moved stay.     *)
Present(f) == game[f] # Absent
Places ==
  /\ \A s \in Sessions : Finishing(s) =>
       session[s].todo \subseteq FilesOf[session[s].item] /\ \A f \in Done(s) : Present(f)
  /\ \A s \in Sessions : session[s].pc \in {"copying", "remove"} => Present(Moved(s))
  /\ \A s \in Sessions : session[s].pc = "copying" => session[s].read # Absent
  /\ \A i \in published : \A f \in FilesOf[i] : Present(f)

(* Two open sessions with a file in common are in the history.             *)
Apart ==
  \A s, t \in Sessions : s # t => \A f \in Files : HasFile(s, f) /\ HasFile(t, f) => f \in shared

(* A file nobody shares is what its session found it to be: whole in the   *)
(* cache until it is copied, whole in the game files after.                *)
Whole(s, f) ==
  /\ session[s].pc = "copy" => cached[f] = Chunks[f]
  /\ session[s].pc = "copying" =>
       cached[f] = Chunks[f] /\ session[s].read = Chunks[f] /\ game[f] = 0
  /\ session[s].pc = "remove" => game[f] = Chunks[f]
FilesWhole ==
  /\ \A s \in Sessions : Moving(s) => Moved(s) \in shared \/ Whole(s, Moved(s))
  /\ \A s \in Sessions : Finishing(s) => \A f \in Done(s) : FileIntact(f)
  /\ \A i \in published : \A f \in FilesOf[i] : FileIntact(f)

(* An image that is there is whole, or a session is about to write it or   *)
(* ended before it did.                                                    *)
ImagesWhole ==
  /\ \A g \in Images : images[g] # Absent => ImageIntact(g)
  /\ \A g \in Images : images[g] = "corrupt" => g \in cut
  /\ \A s \in Sessions : HasHash(s) => images[Image(s)] # Absent
  /\ \A i \in published : images[ImageOf[i]] # Absent

(* A session has sent what it has not moved yet, and all of it once it     *)
(* has left the chunks; the cached file of a clean upload is what it sent. *)
Sent(s, f) == session[s].sent[f]
Moves(s, f) == Finishing(s) => f \in session[s].todo
SentOf(s) ==
  /\ \A f \in Files : f \in FilesOf[session[s].item] => Sent(s, f) <= Chunks[f]
  /\ \A f \in Files : f \notin FilesOf[session[s].item] => Sent(s, f) = 0
  /\ session[s].pc # "chunks" =>
       \A f \in FilesOf[session[s].item] : Sent(s, f) = Chunks[f]
CleanOf(s) ==
  /\ session[s].clean \subseteq FilesOf[session[s].item]
  /\ \A f \in session[s].clean \ shared : Moves(s, f) =>
       cached[f] = IF Sent(s, f) = 0 THEN Absent ELSE Sent(s, f)
CleanAt(s) == IF Open(s) THEN SentOf(s) /\ CleanOf(s) ELSE session[s] = Closed
CleanSent == \A s \in Sessions : CleanAt(s)

UploadInv == TypeOK /\ Places /\ Apart /\ FilesWhole /\ ImagesWhole /\ CleanSent

-----------------------------------------------------------------------------
LEMMA ClosedTyped == Closed \in Locals
BY UploadAssumption DEF Closed, Locals, Contents

LEMMA UploadInit == Init => UploadInv
<1> SUFFICES ASSUME Init PROVE UploadInv
  OBVIOUS
<1> USE UploadAssumption DEF Init
<1>1. \A s \in Sessions : session[s].pc = "closed"
  BY DEF Closed
<1>2. TypeOK
  <2>1. session \in [Sessions -> Locals]
    BY ClosedTyped
  <2> QED BY <1>1, <2>1 DEF TypeOK
<1>3. Places
  BY <1>1 DEF Places, Finishing, Moving
<1>4. Apart
  BY <1>1 DEF Apart, HasFile, Open
<1>5. FilesWhole
  BY <1>1 DEF FilesWhole, Finishing, Moving
<1>6. ImagesWhole
  BY <1>1 DEF ImagesWhole, HasHash, Finishing, Moving
<1>7. CleanSent
  BY <1>1 DEF CleanSent, CleanAt, Open
<1> QED BY <1>2, <1>3, <1>4, <1>5, <1>6, <1>7 DEF UploadInv

-----------------------------------------------------------------------------
(* Types.                                                                  *)

LEMMA OpenTyped ==
  ASSUME TypeOK, NEW s \in Sessions, session[s].pc # "closed"
  PROVE  /\ session[s].item \in Items /\ Image(s) \in Images
         /\ FilesOf[session[s].item] \subseteq Files
         /\ session[s].todo \subseteq Files
         /\ Moving(s) => Moved(s) \in Files /\ Moved(s) \in session[s].todo
BY UploadAssumption DEF TypeOK, Locals, Image, Moving, Moved

LEMMA UnfinishedTyped ==
  ASSUME TypeOK, NEW S \in SUBSET Sessions
  PROVE  Unfinished(S) \subseteq Images
<1> SUFFICES ASSUME NEW s \in S, session[s].pc = "image" PROVE Image(s) \in Images
  BY DEF Unfinished
<1> QED BY OpenTyped

LEMMA BreakTyped ==
  ASSUME TypeOK, NEW s \in Sessions, Break(s)
  PROVE  /\ session' \in [Sessions -> Locals]
         /\ session'[s].pc = "closed"
         /\ \A t \in Sessions \ {s} : session'[t] = session[t]
         /\ cut' \subseteq Images
<1>1. cut' \subseteq Images
  BY UnfinishedTyped DEF TypeOK, Break
<1> QED BY <1>1, ClosedTyped DEF TypeOK, Break, Closed

LEMMA RestartTyped ==
  ASSUME TypeOK, Restart
  PROVE  /\ session' \in [Sessions -> Locals]
         /\ \A s \in Sessions : session'[s].pc = "closed"
         /\ cut' \subseteq Images /\ torn' \subseteq Files
<1>1. session' \in [Sessions -> Locals] /\ \A s \in Sessions : session'[s].pc = "closed"
  BY ClosedTyped DEF Restart, Closed
<1>2. cut' \subseteq Images
  BY UnfinishedTyped DEF TypeOK, Restart
<1>3. torn' \subseteq Files
  <2> SUFFICES ASSUME NEW s \in Sessions, session[s].pc = "copying"
               PROVE  session[s].file \in Files
    BY DEF TypeOK, Restart
  <2> QED BY OpenTyped DEF Moving, Moved
<1> QED BY <1>1, <1>2, <1>3

(* A step of one session that stays typed and open.                        *)
LEMMA SessionTyped ==
  ASSUME TypeOK, NEW s \in Sessions, NEW l \in Locals,
         l.pc # "closed" => l.item # NoItem,
         l.pc \in {"copy", "copying", "remove"} => l.file \in l.todo,
         session' = [session EXCEPT ![s] = l],
         cached' \in [Files -> Contents \cup {Absent}],
         game' \in [Files -> Contents \cup {Absent}],
         images' \in [Images -> {Absent, "empty", "whole", "corrupt"}],
         published' \subseteq Items, cuts' \in 0..MaxCuts,
         shared' \subseteq Files, torn' \subseteq Files, cut' \subseteq Images
  PROVE  TypeOK'
BY DEF TypeOK

LEMMA LocalsFields ==
  ASSUME TypeOK, NEW s \in Sessions
  PROVE  /\ session[s] \in Locals
         /\ session[s].pc # "closed" => session[s].item # NoItem
         /\ Moving(s) => session[s].file \in session[s].todo
         /\ session[s].read \in Contents \cup {Absent}
         /\ session[s].sent \in [Files -> Nat]
         /\ session[s].todo \subseteq Files
<1>1. session[s] \in Locals
  BY DEF TypeOK
<1> QED BY <1>1 DEF TypeOK, Moving, Locals

LEMMA TypeStep == ASSUME TypeOK, [Next]_vars PROVE TypeOK'
<1> USE UploadAssumption DEF disk, history
<1>0. \A s \in Sessions : session[s] \in Locals
  BY DEF TypeOK
<1>1. ASSUME NEW s \in Sessions, NEW i \in Items, Header(s, i) PROVE TypeOK'
  <2> DEFINE l == [Closed EXCEPT !.pc = "chunks", !.item = i,
                                 !.clean = {f \in FilesOf[i] : cached[f] = Absent}]
  <2>1. l \in Locals /\ l.pc = "chunks" /\ l.item = i
    BY DEF Locals, Closed, Contents
  <2>2. session' = [session EXCEPT ![s] = l] /\ shared' \subseteq Files
    BY <1>1 DEF Header, TypeOK
  <2> HIDE DEF l
  <2> QED BY <1>1, <2>1, <2>2, SessionTyped DEF Header, TypeOK
<1>2. ASSUME NEW s \in Sessions, NEW f \in Files, Chunk(s, f) PROVE TypeOK'
  <2> DEFINE next == IF Total(s) = Cardinality(AllChunks(session[s].item))
                     THEN "image hash" ELSE "chunks"
             sent == [session[s].sent EXCEPT ![f] = session[s].sent[f] + 1]
             l == [session[s] EXCEPT !.sent = sent, !.pc = next]
  <2>1. session[s] \in Locals /\ next \in {"image hash", "chunks"} /\ sent \in [Files -> Nat]
    BY <1>0, LocalsFields
  <2>2. session' = [session EXCEPT ![s] = l]
    BY <1>2 DEF Chunk
  <2> HIDE DEF next, sent
  <2>3. l \in Locals /\ l.pc = next /\ l.item = session[s].item
    BY <2>1 DEF Locals
  <2>4. l.item # NoItem
    BY <1>2, <2>3 DEF Chunk, NextChunk, TypeOK
  <2>5. cached' \in [Files -> Contents \cup {Absent}]
    <3>1. session[s].sent[f] + 1 \in Nat
      BY LocalsFields
    <3>2. Appended(cached[f], session[s].sent[f] + 1) \in Contents
      BY <3>1 DEF Appended, Contents
    <3> QED BY <1>2, <3>2 DEF Chunk, TypeOK
  <2> HIDE DEF l
  <2> QED BY <1>2, <2>1, <2>2, <2>3, <2>4, <2>5, SessionTyped DEF Chunk, TypeOK
<1>3. ASSUME NEW s \in Sessions, Break(s), UNCHANGED <<cached, game>>,
             images' \in [Images -> {Absent, "empty", "whole", "corrupt"}],
             published' \subseteq Items, cuts' \in 0..MaxCuts, UNCHANGED <<shared, torn>>
      PROVE  TypeOK'
  BY <1>3, BreakTyped DEF TypeOK
<1>4. ASSUME Restart, cached' \in [Files -> Contents \cup {Absent}],
             UNCHANGED <<game, images, published, shared>>, cuts' \in 0..MaxCuts
      PROVE  TypeOK'
  BY <1>4, RestartTyped DEF TypeOK
<1>5. ASSUME NEW s \in Sessions, NEW from, NEW to \in {"image hash", "create", "image", "finish"},
             from # "closed", Goes(s, from, to), UNCHANGED <<cached, game>>,
             images' \in [Images -> {Absent, "empty", "whole", "corrupt"}],
             UNCHANGED <<published, cuts, history>>
      PROVE  TypeOK'
  <2> DEFINE l == [session[s] EXCEPT !.pc = to]
  <2>1. l \in Locals /\ l.pc = to /\ l.item = session[s].item
    BY <1>0 DEF Locals
  <2>3. l.item # NoItem
    BY <1>5, <2>1, LocalsFields DEF Goes
  <2>2. session' = [session EXCEPT ![s] = l]
    BY <1>5 DEF Goes
  <2> HIDE DEF l
  <2> QED BY <1>5, <2>1, <2>2, <2>3, SessionTyped DEF TypeOK
<1>6. ASSUME NEW s \in Sessions, CreateImage(s) PROVE TypeOK'
  <2> DEFINE l == [session[s] EXCEPT !.pc = "image", !.created = TRUE]
  <2>1. l \in Locals /\ l.pc = "image" /\ l.item = session[s].item
    BY <1>0 DEF Locals
  <2>4. l.item # NoItem
    BY <1>6, <2>1, LocalsFields DEF CreateImage
  <2>2. session' = [session EXCEPT ![s] = l]
    BY <1>6 DEF CreateImage
  <2>3. images' \in [Images -> {Absent, "empty", "whole", "corrupt"}]
    BY <1>6 DEF CreateImage, TypeOK
  <2> HIDE DEF l
  <2> QED BY <1>6, <2>1, <2>2, <2>3, <2>4, SessionTyped DEF CreateImage, TypeOK
<1>7. ASSUME NEW s \in Sessions, Finish(s) PROVE TypeOK'
  <2> DEFINE l == [session[s] EXCEPT !.pc = "check", !.todo = FilesOf[session[s].item]]
  <2>3. FilesOf[session[s].item] \subseteq Files
    BY <1>7, OpenTyped DEF Finish
  <2>1. l \in Locals /\ l.pc = "check" /\ l.item = session[s].item
    BY <1>0, <2>3 DEF Locals
  <2>4. l.item # NoItem
    BY <1>7, <2>1, LocalsFields DEF Finish
  <2>2. session' = [session EXCEPT ![s] = l]
    BY <1>7 DEF Finish
  <2> HIDE DEF l
  <2> QED BY <1>7, <2>1, <2>2, <2>4, SessionTyped DEF Finish, TypeOK
<1>8. ASSUME NEW s \in Sessions, NEW f \in Files, CheckPasses(s, f) PROVE TypeOK'
  <2> DEFINE l == [session[s] EXCEPT !.pc = "copy", !.file = f]
  <2>1. l \in Locals /\ l.item = session[s].item /\ l.file = f /\ l.todo = session[s].todo
    BY <1>0 DEF Locals
  <2>3. l.item # NoItem /\ l.file \in l.todo
    BY <1>8, <2>1, LocalsFields DEF CheckPasses, Checks
  <2>2. session' = [session EXCEPT ![s] = l]
    BY <1>8 DEF CheckPasses
  <2> HIDE DEF l
  <2> QED BY <1>8, <2>1, <2>2, <2>3, SessionTyped DEF CheckPasses, TypeOK
<1>9. ASSUME NEW s \in Sessions, CopyOpen(s) PROVE TypeOK'
  <2> DEFINE l == [session[s] EXCEPT !.pc = "copying", !.read = cached[Moved(s)]]
  <2>1. session[s].pc = "copy" /\ Moved(s) \in Files /\ cached[Moved(s)] \in Contents
    BY <1>9, OpenTyped DEF CopyOpen, Moving, TypeOK
  <2>2. l \in Locals /\ l.item = session[s].item
        /\ l.file = session[s].file /\ l.todo = session[s].todo
    BY <1>0, <2>1 DEF Locals
  <2>5. l.item # NoItem /\ l.file \in l.todo
    BY <2>1, <2>2, LocalsFields DEF Moving
  <2>3. session' = [session EXCEPT ![s] = l]
    BY <1>9 DEF CopyOpen
  <2>4. game' \in [Files -> Contents \cup {Absent}]
    BY <1>9 DEF CopyOpen, TypeOK, Contents
  <2> HIDE DEF l
  <2> QED BY <1>9, <2>2, <2>3, <2>4, <2>5, SessionTyped DEF CopyOpen, TypeOK
<1>10. ASSUME NEW s \in Sessions, Copy(s) PROVE TypeOK'
  <2> DEFINE l == [session[s] EXCEPT !.pc = "remove", !.read = Absent]
  <2>1. l \in Locals /\ l.item = session[s].item
        /\ l.file = session[s].file /\ l.todo = session[s].todo
    BY <1>0 DEF Locals
  <2>5. l.item # NoItem /\ l.file \in l.todo
    BY <1>10, <2>1, LocalsFields DEF Copy, Moving
  <2>2. session' = [session EXCEPT ![s] = l]
    BY <1>10 DEF Copy
  <2>3. game' \in [Files -> Contents \cup {Absent}]
    <3>1. session[s].read \in Contents \cup {Absent}
      BY DEF TypeOK, Locals
    <3> QED BY <1>10, <3>1 DEF Copy, TypeOK, Contents
  <2>4. torn' \subseteq Files
    BY <1>10 DEF Copy, TypeOK
  <2> HIDE DEF l
  <2> QED BY <1>10, <2>1, <2>2, <2>3, <2>4, <2>5, SessionTyped DEF Copy, TypeOK
<1>11. ASSUME NEW s \in Sessions, Remove(s) PROVE TypeOK'
  <2> DEFINE l == [session[s] EXCEPT !.pc = "check", !.file = NoFile, !.todo = @ \ {Moved(s)}]
  <2>1. l \in Locals /\ l.pc = "check" /\ l.item = session[s].item
    BY <1>0, LocalsFields DEF Locals
  <2>4. l.item # NoItem
    BY <1>11, <2>1, LocalsFields DEF Remove
  <2>2. session' = [session EXCEPT ![s] = l]
    BY <1>11 DEF Remove, Moved
  <2>3. cached' \in [Files -> Contents \cup {Absent}]
    BY <1>11 DEF Remove, TypeOK
  <2> HIDE DEF l
  <2> QED BY <1>11, <2>1, <2>2, <2>3, <2>4, SessionTyped DEF Remove, TypeOK
<1>12. ASSUME NEW s \in Sessions, Message(s) PROVE TypeOK'
  <2>1. ASSUME NEW f \in Files, ChunkTooMuch(s, f) PROVE TypeOK'
    BY <1>3, <2>1 DEF ChunkTooMuch, TypeOK
  <2>2. ASSUME NEW f \in Files, ChunkNotZst(s, f) PROVE TypeOK'
    BY <1>4, <2>2 DEF ChunkNotZst, TypeOK
  <2>3. CASE ImageHash(s)
    BY <1>5, <2>3 DEF ImageHash, TypeOK
  <2>4. CASE ImageKnown(s)
    BY <1>5, <2>4 DEF ImageKnown, TypeOK
  <2>5. CASE ImageWhole(s)
    <3>1. images' \in [Images -> {Absent, "empty", "whole", "corrupt"}]
      BY <2>5 DEF ImageWhole, TypeOK
    <3> QED BY <1>5, <2>5, <3>1 DEF ImageWhole
  <2> QED BY <1>2, <1>7, <1>12, <2>1, <2>2, <2>3, <2>4, <2>5 DEF Message
<1>13. ASSUME NEW s \in Sessions, Work(s) PROVE TypeOK'
  <2>1. CASE NothingToMove(s)
    BY <1>4, <2>1 DEF NothingToMove, TypeOK
  <2>2. CASE Publish(s)
    <3>1. published' \subseteq Items
      BY <2>2, OpenTyped DEF Publish, TypeOK
    <3> QED BY <1>3, <2>2, <3>1 DEF Publish, TypeOK
  <2>3. ASSUME NEW f \in Files, CheckFails(s, f) PROVE TypeOK'
    BY <1>4, <2>3 DEF CheckFails, TypeOK
  <2> QED BY <1>6, <1>8, <1>9, <1>10, <1>11, <1>13, <2>1, <2>2, <2>3 DEF Work
<1>14. ASSUME NEW s \in Sessions, ImageInParts(s) PROVE TypeOK'
  <2>1. images' \in [Images -> {Absent, "empty", "whole", "corrupt"}]
    BY <1>14 DEF ImageInParts, TypeOK
  <2> QED BY <1>3, <1>14, <2>1 DEF ImageInParts, TypeOK
<1>15. ASSUME NEW s \in Sessions, HangUp(s) PROVE TypeOK'
  <2>0. cuts < MaxCuts /\ cuts' = cuts + 1 /\ cuts \in 0..MaxCuts
    BY <1>15 DEF HangUp, TypeOK
  <2>1. cuts' \in 0..MaxCuts
    BY <2>0
  <2> QED BY <1>3, <1>15, <2>1 DEF HangUp, TypeOK
<1>16. ASSUME Crash PROVE TypeOK'
  <2>1. cuts' \in 0..MaxCuts
    BY <1>16 DEF Crash, TypeOK
  <2> QED BY <1>4, <1>16, <2>1 DEF Crash, TypeOK
<1>17. CASE UNCHANGED vars
  BY <1>17 DEF vars, TypeOK
<1> QED BY <1>1, <1>12, <1>13, <1>14, <1>15, <1>16, <1>17 DEF Next

-----------------------------------------------------------------------------
(* What a step does to the sessions, field by field.                       *)

Others(s) == \A t \in Sessions \ {s} : session'[t] = session[t]
SameItem(s) == session'[s].item = session[s].item
SameFiles(s) ==
  SameItem(s) /\ session'[s].todo = session[s].todo /\ session'[s].file = session[s].file

LEMMA GoesEffect ==
  ASSUME TypeOK, NEW s \in Sessions, NEW from, NEW to, Goes(s, from, to)
  PROVE  /\ session'[s].pc = to /\ session'[s].created = session[s].created
         /\ SameItem(s) /\ Others(s)
<1>1. session \in [Sessions -> Locals] /\ session[s] \in Locals
  BY DEF TypeOK
<1> QED BY <1>1 DEF Goes, Locals, SameItem, Others

LEMMA Effects ==
  ASSUME TypeOK, NEW s \in Sessions
  PROVE  /\ \A i \in Items : Header(s, i) =>
              session'[s].pc = "chunks" /\ session'[s].item = i /\ Others(s)
         /\ \A f \in Files : Chunk(s, f) =>
              session'[s].pc \in {"chunks", "image hash"} /\ SameItem(s) /\ Others(s)
         /\ CreateImage(s) =>
              session'[s].pc = "image" /\ session'[s].created /\ SameItem(s) /\ Others(s)
         /\ Finish(s) =>
              /\ session'[s].pc = "check" /\ session'[s].todo = FilesOf[session[s].item]
              /\ SameItem(s) /\ Others(s)
         /\ \A f \in Files : CheckPasses(s, f) =>
              /\ session'[s].pc = "copy" /\ session'[s].file = f
              /\ session'[s].todo = session[s].todo /\ SameItem(s) /\ Others(s)
         /\ CopyOpen(s) =>
              /\ session'[s].pc = "copying" /\ session'[s].read = cached[Moved(s)]
              /\ SameFiles(s) /\ Others(s)
         /\ Copy(s) => session'[s].pc = "remove" /\ SameFiles(s) /\ Others(s)
         /\ Remove(s) =>
              /\ session'[s].pc = "check" /\ session'[s].todo = session[s].todo \ {Moved(s)}
              /\ SameItem(s) /\ Others(s)
<1> USE DEF Others, SameItem, SameFiles
<1>0. session \in [Sessions -> Locals] /\ session[s] \in Locals
  BY DEF TypeOK
<1>1. ASSUME NEW i \in Items, Header(s, i)
      PROVE  session'[s].pc = "chunks" /\ session'[s].item = i /\ Others(s)
  BY <1>0, <1>1 DEF Header, Closed
<1>2. ASSUME NEW f \in Files, Chunk(s, f)
      PROVE  session'[s].pc \in {"chunks", "image hash"} /\ SameItem(s) /\ Others(s)
  BY <1>0, <1>2 DEF Chunk, Locals
<1>3. ASSUME CreateImage(s)
      PROVE  session'[s].pc = "image" /\ session'[s].created /\ SameItem(s) /\ Others(s)
  <2> DEFINE l == [session[s] EXCEPT !.pc = "image", !.created = TRUE]
  <2>1. session' = [session EXCEPT ![s] = l]
    BY <1>3 DEF CreateImage
  <2>2. session'[s] = l /\ Others(s)
    BY <1>0, <2>1
  <2> QED BY <1>0, <2>2 DEF Locals
<1>4. Finish(s) =>
        /\ session'[s].pc = "check" /\ session'[s].todo = FilesOf[session[s].item]
        /\ SameItem(s) /\ Others(s)
  BY <1>0 DEF Finish, Locals
<1>5. ASSUME NEW f \in Files, CheckPasses(s, f)
      PROVE  /\ session'[s].pc = "copy" /\ session'[s].file = f
             /\ session'[s].todo = session[s].todo /\ SameItem(s) /\ Others(s)
  BY <1>0, <1>5 DEF CheckPasses, Locals
<1>6. ASSUME CopyOpen(s)
      PROVE  /\ session'[s].pc = "copying" /\ session'[s].read = cached[Moved(s)]
             /\ SameFiles(s) /\ Others(s)
  <2> DEFINE l == [session[s] EXCEPT !.pc = "copying", !.read = cached[Moved(s)]]
  <2>1. session' = [session EXCEPT ![s] = l]
    BY <1>6 DEF CopyOpen
  <2>2. session'[s] = l /\ Others(s)
    BY <1>0, <2>1
  <2> QED BY <1>0, <2>2 DEF Locals
<1>7. ASSUME Copy(s)
      PROVE  session'[s].pc = "remove" /\ SameFiles(s) /\ Others(s)
  <2> DEFINE l == [session[s] EXCEPT !.pc = "remove", !.read = Absent]
  <2>1. session' = [session EXCEPT ![s] = l]
    BY <1>7 DEF Copy
  <2>2. session'[s] = l /\ Others(s)
    BY <1>0, <2>1
  <2> QED BY <1>0, <2>2 DEF Locals
<1>8. ASSUME Remove(s)
      PROVE  /\ session'[s].pc = "check" /\ session'[s].todo = session[s].todo \ {Moved(s)}
             /\ SameItem(s) /\ Others(s)
  <2> DEFINE l == [session[s] EXCEPT !.pc = "check", !.file = NoFile, !.todo = @ \ {Moved(s)}]
  <2>1. session' = [session EXCEPT ![s] = l]
    BY <1>8 DEF Remove, Moved
  <2>2. session'[s] = l /\ Others(s)
    BY <1>0, <2>1
  <2> QED BY <1>0, <2>2 DEF Locals
<1> QED BY <1>1, <1>2, <1>3, <1>4, <1>5, <1>6, <1>7, <1>8

-----------------------------------------------------------------------------
(* The steps that move no file leave a session short of its last message,  *)
(* or end it.                                                              *)
Early(s) ==
  /\ ~ Finishing(s) /\ session'[s].pc \notin {"check", "copy", "copying", "remove"}
  /\ Others(s)
  /\ \/ session'[s].pc = "closed"
     \/ SameItem(s) /\ session[s].pc # "closed"
     \/ \E i \in Items : Header(s, i)
  /\ UNCHANGED <<game, published, torn>>
  /\ \A f \in Files : cached'[f] # cached[f] => HasFile(s, f)

LEMMA EarlySteps ==
  ASSUME TypeOK, NEW s \in Sessions,
         \/ \E i \in Items : Header(s, i)
         \/ \E f \in Files : Chunk(s, f) \/ ChunkTooMuch(s, f)
         \/ ImageHash(s) \/ ImageKnown(s) \/ ImageWhole(s) \/ CreateImage(s)
         \/ ImageInParts(s) \/ HangUp(s)
  PROVE  Early(s) /\ shared \subseteq shared'
<1> USE DEF Early, Others, Finishing, Moving, disk, history
<1>1. ASSUME NEW i \in Items, Header(s, i) PROVE Early(s) /\ shared \subseteq shared'
  BY <1>1, Effects DEF Header
<1>2. ASSUME NEW f \in Files, Chunk(s, f) PROVE Early(s) /\ shared \subseteq shared'
  <2>1. session[s].pc = "chunks" /\ HasFile(s, f)
    BY <1>2 DEF Chunk, NextChunk
  <2>2. cached' = [cached EXCEPT ![f] = Appended(@, session[s].sent[f] + 1)]
        /\ UNCHANGED <<game, images, published, cuts, history>>
    BY <1>2 DEF Chunk
  <2>3. cached \in [Files -> Contents \cup {Absent}]
    BY DEF TypeOK
  <2> QED BY <1>2, <2>1, <2>2, <2>3, Effects
<1>3. ASSUME NEW f \in Files, ChunkTooMuch(s, f) PROVE Early(s) /\ shared \subseteq shared'
  BY <1>3, BreakTyped DEF ChunkTooMuch, NextChunk
<1>4. CASE ImageHash(s)
  <2> DEFINE to == IF images[Image(s)] = Absent THEN "create" ELSE "image"
  <2>1. Goes(s, "image hash", to) /\ to \in {"create", "image"}
        /\ UNCHANGED <<disk, published, cuts, history>>
    BY <1>4 DEF ImageHash
  <2> HIDE DEF to
  <2>2. session'[s].pc = to /\ SameItem(s) /\ Others(s)
    BY <2>1, GoesEffect
  <2> QED BY <2>1, <2>2 DEF Goes
<1>5. CASE ImageKnown(s)
  <2>1. Goes(s, "image", "finish") /\ UNCHANGED <<disk, published, cuts, history>>
    BY <1>5 DEF ImageKnown
  <2>2. session'[s].pc = "finish" /\ SameItem(s) /\ Others(s)
    BY <2>1, GoesEffect
  <2> QED BY <2>1, <2>2 DEF Goes
<1>6. CASE ImageWhole(s)
  <2>1. Goes(s, "image", "finish") /\ UNCHANGED <<cached, game, published, cuts, history>>
    BY <1>6 DEF ImageWhole
  <2>2. session'[s].pc = "finish" /\ SameItem(s) /\ Others(s)
    BY <2>1, GoesEffect
  <2> QED BY <2>1, <2>2 DEF Goes
<1>7. CASE CreateImage(s)
  BY <1>7, Effects DEF CreateImage
<1>8. CASE ImageInParts(s)
  BY <1>8, BreakTyped DEF ImageInParts
<1>9. CASE HangUp(s)
  BY <1>9, BreakTyped DEF HangUp
<1> QED BY <1>1, <1>2, <1>3, <1>4, <1>5, <1>6, <1>7, <1>8, <1>9

(* The steps of a session in the order of what they touch.                 *)
LEMMA Steps ==
  ASSUME TypeOK, [Next]_vars
  PROVE  \/ UNCHANGED vars
         \/ \E s \in Sessions : Early(s) /\ shared \subseteq shared'
         \/ Restart /\ UNCHANGED <<game, images, published, shared>>
         \/ \E s \in Sessions :
              \/ Finish(s) \/ CopyOpen(s) \/ Copy(s) \/ Remove(s) \/ Publish(s)
              \/ \E f \in Files : CheckPasses(s, f)
<1>1. ASSUME NEW s \in Sessions, Message(s) \/ Work(s) \/ (\E i \in Items : Header(s, i))
                                 \/ ImageInParts(s) \/ HangUp(s)
      PROVE  \/ Early(s) /\ shared \subseteq shared'
             \/ Restart /\ UNCHANGED <<game, images, published, shared>>
             \/ Finish(s) \/ CopyOpen(s) \/ Copy(s) \/ Remove(s) \/ Publish(s)
             \/ \E f \in Files : CheckPasses(s, f)
  <2>1. ASSUME NEW f \in Files, ChunkNotZst(s, f) \/ CheckFails(s, f)
        PROVE  Restart /\ UNCHANGED <<game, images, published, shared>>
    BY <2>1 DEF ChunkNotZst, CheckFails
  <2>2. ASSUME NothingToMove(s)
        PROVE  Restart /\ UNCHANGED <<game, images, published, shared>>
    BY <2>2 DEF NothingToMove, disk
  <2> QED BY <1>1, <2>1, <2>2, EarlySteps DEF Message, Work
<1>2. ASSUME Crash PROVE Restart /\ UNCHANGED <<game, images, published, shared>>
  BY <1>2 DEF Crash, disk
<1> QED BY <1>1, <1>2 DEF Next

LEMMA RestartCloses ==
  ASSUME TypeOK, Restart
  PROVE  \A s \in Sessions : ~ Finishing(s)' /\ ~ Moving(s)' /\ session'[s].pc = "closed"
BY RestartTyped DEF Finishing, Moving

LEMMA PublishCloses ==
  ASSUME TypeOK, NEW s \in Sessions, Publish(s)
  PROVE  /\ session[s].pc = "check" /\ session[s].todo = {}
         /\ published' = published \cup {session[s].item}
         /\ Others(s) /\ session'[s].pc = "closed"
         /\ UNCHANGED <<game, cached, images, shared, torn>>
BY BreakTyped DEF Publish, Others, disk

-----------------------------------------------------------------------------
(* The places of the files.                                                *)

LEMMA PresentStays ==
  ASSUME TypeOK, Places, [Next]_vars, NEW f \in Files, Present(f)
  PROVE  Present(f)'
<1> USE UploadAssumption DEF Present
<1>1. game \in [Files -> Contents \cup {Absent}] /\ Absent \notin Contents
  BY DEF TypeOK, Contents
<1>2. ASSUME NEW s \in Sessions, CopyOpen(s) PROVE game'[f] # Absent
  BY <1>1, <1>2 DEF CopyOpen
<1>3. ASSUME NEW s \in Sessions, Copy(s) PROVE game'[f] # Absent
  <2>1. session[s].read # Absent
    BY <1>3 DEF Copy, Places
  <2> QED BY <1>1, <1>3, <2>1 DEF Copy, Contents
<1>4. ASSUME UNCHANGED game PROVE game'[f] # Absent
  BY <1>4
<1> QED
  BY <1>2, <1>3, <1>4, Steps
     DEF vars, disk, Early, Finish, Remove, Publish, CheckPasses

LEMMA PlacesStep == ASSUME TypeOK, Places, [Next]_vars PROVE Places'
<1> DEFINE Owns(s) == Finishing(s) => session[s].todo \subseteq FilesOf[session[s].item]
                                      /\ \A f \in Done(s) : Present(f)
           Opened(s) == session[s].pc \in {"copying", "remove"} => Present(Moved(s))
           Read(s) == session[s].pc = "copying" => session[s].read # Absent
           Out == \A i \in published : \A f \in FilesOf[i] : Present(f)
<1>1. \A s \in Sessions : Finishing(s) => Done(s) \subseteq Files
  BY OpenTyped DEF Finishing, Moving, Done
<1>2. \A i \in published : FilesOf[i] \subseteq Files
  BY UploadAssumption DEF TypeOK
<1>3. ASSUME NEW s \in Sessions, session'[s] = session[s]
      PROVE  Owns(s)' /\ Opened(s)' /\ Read(s)'
  <2>1. Moving(s) => Moved(s) \in Files
    BY OpenTyped DEF Moving
  <2> QED BY <1>1, <1>3, <2>1, PresentStays DEF Places, Finishing, Moving, Done, Moved
<1>4. ASSUME UNCHANGED published PROVE Out'
  BY <1>2, <1>4, PresentStays DEF Places
<1>5. CASE UNCHANGED vars
  BY <1>3, <1>4, <1>5 DEF vars, Places
<1>6. ASSUME NEW s \in Sessions, Early(s) PROVE Places'
  <2>1. Owns(s)' /\ Opened(s)' /\ Read(s)'
    BY <1>6 DEF Early, Finishing, Moving
  <2> QED BY <1>3, <1>4, <1>6, <2>1 DEF Early, Others, Places
<1>7. CASE Restart /\ UNCHANGED <<game, images, published, shared>>
  <2>1. \A s \in Sessions : Owns(s)' /\ Opened(s)' /\ Read(s)'
    BY <1>7, RestartCloses
  <2> QED BY <1>4, <1>7, <2>1 DEF Places
<1>8. ASSUME NEW s \in Sessions, Finish(s) PROVE Places'
  <2>1. Owns(s)' /\ Opened(s)' /\ Read(s)'
    BY <1>8, Effects DEF SameItem, Done
  <2>2. Out'
    BY <1>4, <1>8 DEF Finish
  <2> QED BY <1>3, <1>8, <2>1, <2>2, Effects DEF Others, Places
<1>9. ASSUME NEW s \in Sessions, NEW f \in Files, CheckPasses(s, f) PROVE Places'
  <2>1. Finishing(s) /\ UNCHANGED published
    BY <1>9 DEF CheckPasses, Checks, Finishing
  <2>2. session'[s].pc = "copy" /\ Done(s)' = Done(s)
    BY <1>9, Effects DEF SameItem, Done
  <2>3. Owns(s)' /\ Opened(s)' /\ Read(s)'
    BY <1>1, <1>9, <2>1, <2>2, Effects, PresentStays DEF SameItem, Places
  <2> QED BY <1>3, <1>4, <1>9, <2>1, <2>3, Effects DEF Others, Places
<1>10. ASSUME NEW s \in Sessions, CopyOpen(s) PROVE Places'
  <2>1. Finishing(s) /\ Moved(s) \in Files /\ UNCHANGED published
    BY <1>10, OpenTyped DEF CopyOpen, Finishing, Moving
  <2>2. /\ session'[s].pc = "copying" /\ session'[s].read = cached[Moved(s)]
        /\ Done(s)' = Done(s) /\ Moved(s)' = Moved(s)
    BY <1>10, Effects DEF SameFiles, SameItem, Done, Moved
  <2>3. Present(Moved(s))'
    BY <1>10, <2>1, <2>2, UploadAssumption DEF CopyOpen, Present, TypeOK
  <2>4. Owns(s)' /\ Opened(s)' /\ Read(s)'
    BY <1>1, <1>10, <2>1, <2>2, <2>3, Effects, PresentStays
       DEF SameFiles, SameItem, Places, CopyOpen
  <2> QED BY <1>3, <1>4, <1>10, <2>1, <2>4, Effects DEF Others, Places
<1>11. ASSUME NEW s \in Sessions, Copy(s) PROVE Places'
  <2>1. Finishing(s) /\ Moved(s) \in Files /\ Present(Moved(s)) /\ UNCHANGED published
    BY <1>11, OpenTyped DEF Copy, Finishing, Moving, Places
  <2>2. session'[s].pc = "remove" /\ Done(s)' = Done(s) /\ Moved(s)' = Moved(s)
    BY <1>11, Effects DEF SameFiles, SameItem, Done, Moved
  <2>3. Owns(s)' /\ Opened(s)' /\ Read(s)'
    BY <1>1, <1>11, <2>1, <2>2, Effects, PresentStays DEF SameFiles, SameItem, Places
  <2> QED BY <1>3, <1>4, <1>11, <2>1, <2>3, Effects DEF Others, Places
<1>12. ASSUME NEW s \in Sessions, Remove(s) PROVE Places'
  <2>1. Finishing(s) /\ Moved(s) \in Files /\ Present(Moved(s)) /\ UNCHANGED published
    BY <1>12, OpenTyped DEF Remove, Finishing, Moving, Places
  <2>2. session'[s].pc = "check" /\ Done(s)' \subseteq Done(s) \cup {Moved(s)}
    BY <1>12, Effects DEF SameItem, Done
  <2>3. Owns(s)' /\ Opened(s)' /\ Read(s)'
    BY <1>1, <1>12, <2>1, <2>2, Effects, PresentStays DEF SameItem, Places
  <2> QED BY <1>3, <1>4, <1>12, <2>1, <2>3, Effects DEF Others, Places
<1>13. ASSUME NEW s \in Sessions, Publish(s) PROVE Places'
  <2>1. Owns(s)' /\ Opened(s)' /\ Read(s)'
    BY <1>13, PublishCloses DEF Finishing, Moving
  <2>2. \A f \in FilesOf[session[s].item] : Present(f)
    BY <1>13, PublishCloses DEF Places, Finishing, Done
  <2>3. Out'
    BY <1>1, <1>2, <1>13, <2>2, PublishCloses, PresentStays DEF Places, Finishing, Done
  <2> QED BY <1>3, <1>13, <2>1, <2>3, PublishCloses DEF Others, Places
<1> QED
  BY <1>5, <1>6, <1>7, <1>8, <1>9, <1>10, <1>11, <1>12, <1>13, Steps

-----------------------------------------------------------------------------
(* The files are whole.                                                    *)

LEMMA ApartStep == ASSUME TypeOK, Apart, [Next]_vars PROVE Apart'
<1> DEFINE Keeps(s) == \A f \in Files : HasFile(s, f)' => HasFile(s, f)
<1>1. ASSUME \A s \in Sessions : Keeps(s), shared \subseteq shared' PROVE Apart'
  BY <1>1 DEF Apart
<1>2. ASSUME NEW s \in Sessions, session'[s] = session[s] PROVE Keeps(s)
  BY <1>2 DEF HasFile, Open
<1>3. ASSUME NEW s \in Sessions, Others(s), shared \subseteq shared',
             SameItem(s), session[s].pc # "closed"
      PROVE  Apart'
  <2>1. Keeps(s)
    BY <1>3 DEF HasFile, Open, SameItem
  <2> QED BY <1>1, <1>2, <1>3, <2>1 DEF Others
<1>4. ASSUME NEW s \in Sessions, NEW i \in Items, Header(s, i) PROVE Apart'
  <2>1. session'[s].item = i /\ Others(s)
    BY <1>4, Effects
  <2>2. shared' = shared \cup {f \in FilesOf[i] : \E t \in Sessions : HasFile(t, f)}
    BY <1>4 DEF Header
  <2>3. \A t \in Sessions \ {s} : Keeps(t)
    BY <1>2, <2>1 DEF Others
  <2>4. \A f \in Files : HasFile(s, f)' => f \in FilesOf[i]
    BY <2>1 DEF HasFile
  <2>5. ASSUME NEW t \in Sessions, NEW u \in Sessions, t # u, NEW f \in Files,
               HasFile(t, f)', HasFile(u, f)'
        PROVE  f \in shared'
    <3>1. CASE t # s /\ u # s
      BY <2>2, <2>3, <2>5, <3>1 DEF Apart
    <3>2. CASE t = s
      BY <2>2, <2>3, <2>4, <2>5, <3>2
    <3>3. CASE u = s
      BY <2>2, <2>3, <2>4, <2>5, <3>3
    <3> QED BY <3>1, <3>2, <3>3
  <2> QED BY <2>5 DEF Apart
<1>5. CASE UNCHANGED vars
  BY <1>1, <1>2, <1>5 DEF vars, history
<1>6. ASSUME NEW s \in Sessions, Early(s), shared \subseteq shared' PROVE Apart'
  <2>1. CASE session'[s].pc = "closed"
    <3>1. Keeps(s)
      BY <2>1 DEF HasFile, Open
    <3> QED BY <1>1, <1>2, <1>6, <3>1 DEF Early, Others
  <2> QED BY <1>3, <1>4, <1>6, <2>1 DEF Early
<1>7. CASE Restart /\ UNCHANGED <<game, images, published, shared>>
  <2>1. \A s \in Sessions : Keeps(s)
    BY <1>7, RestartCloses DEF HasFile, Open
  <2> QED BY <1>1, <1>7, <2>1
<1>8. ASSUME NEW s \in Sessions,
             \/ Finish(s) \/ CopyOpen(s) \/ Copy(s) \/ Remove(s)
             \/ \E f \in Files : CheckPasses(s, f)
      PROVE  Apart'
  <2>1. SameItem(s) /\ Others(s)
    BY <1>8, Effects DEF SameFiles
  <2>2. session[s].pc # "closed" /\ shared' = shared
    BY <1>8 DEF Finish, CopyOpen, Copy, Remove, CheckPasses, Checks, history
  <2> QED BY <1>3, <2>1, <2>2
<1>9. ASSUME NEW s \in Sessions, Publish(s) PROVE Apart'
  <2>1. Keeps(s)
    BY <1>9, PublishCloses DEF HasFile, Open
  <2> QED BY <1>1, <1>2, <1>9, <2>1, PublishCloses DEF Others
<1> QED BY <1>5, <1>6, <1>7, <1>8, <1>9, Steps

(* What Copy leaves is what the check of the hash found.                   *)
LEMMA CopyIsWhole ==
  ASSUME TypeOK, FilesWhole, NEW s \in Sessions, Copy(s)
  PROVE  Moved(s) \in shared \/ game'[Moved(s)] = Chunks[Moved(s)]
<1> SUFFICES ASSUME Moved(s) \notin shared PROVE game'[Moved(s)] = Chunks[Moved(s)]
  OBVIOUS
<1>1. session[s].pc = "copying" /\ Moved(s) \in Files
  BY OpenTyped DEF Copy, Moving
<1>2. /\ cached[Moved(s)] = Chunks[Moved(s)] /\ session[s].read = Chunks[Moved(s)]
      /\ game[Moved(s)] = 0 /\ Corrupt # 0 /\ Corrupt # Chunks[Moved(s)]
  BY <1>1, UploadAssumption DEF FilesWhole, Whole, Moving
<1>3. game \in [Files -> Contents \cup {Absent}]
  BY DEF TypeOK
<1> QED BY <1>1, <1>2, <1>3 DEF Copy

LEMMA IntactStays ==
  ASSUME TypeOK, FilesWhole, [Next]_vars, NEW f \in Files, FileIntact(f)
  PROVE  FileIntact(f)'
<1>1. game \in [Files -> Contents \cup {Absent}]
  BY DEF TypeOK
<1>2. ASSUME NEW s \in Sessions, Others(s), session[s].pc # "copying",
             UNCHANGED <<game, torn>>, shared \subseteq shared'
      PROVE  FileIntact(f)'
  BY <1>2 DEF FileIntact, Others, Moved
<1>3. CASE UNCHANGED vars
  BY <1>3 DEF vars, disk, history, FileIntact, Moved
<1>4. ASSUME NEW s \in Sessions, Early(s), shared \subseteq shared' PROVE FileIntact(f)'
  BY <1>2, <1>4 DEF Early, Finishing, Moving
<1>5. CASE Restart /\ UNCHANGED <<game, images, published, shared>>
  BY <1>5 DEF FileIntact, Restart, Moved
<1>6. ASSUME NEW s \in Sessions,
             Finish(s) \/ Remove(s) \/ \E g \in Files : CheckPasses(s, g)
      PROVE  FileIntact(f)'
  <2>1. Others(s)
    BY <1>6, Effects
  <2> QED BY <1>2, <1>6, <2>1 DEF Finish, Remove, CheckPasses, Checks, disk, history
<1>7. ASSUME NEW s \in Sessions, Publish(s) PROVE FileIntact(f)'
  BY <1>2, <1>7, PublishCloses
<1>8. ASSUME NEW s \in Sessions, CopyOpen(s) PROVE FileIntact(f)'
  <2>1. Others(s) /\ session'[s].pc = "copying" /\ Moved(s)' = Moved(s)
    BY <1>8, Effects DEF SameFiles, Moved
  <2>2. UNCHANGED <<shared, torn>> /\ (f # Moved(s) => game'[f] = game[f])
        /\ session[s].pc = "copy"
    BY <1>1, <1>8 DEF CopyOpen, history
  <2>3. CASE f = Moved(s)
    BY <2>1, <2>3 DEF FileIntact
  <2>4. CASE f # Moved(s)
    BY <2>1, <2>2, <2>4 DEF FileIntact, Others, Moved
  <2> QED BY <2>3, <2>4
<1>9. ASSUME NEW s \in Sessions, Copy(s) PROVE FileIntact(f)'
  <2>1. Others(s) /\ shared' = shared /\ torn' = torn \ {Moved(s)}
    BY <1>9, Effects DEF Copy
  <2>2. CASE f = Moved(s)
    BY <1>9, <2>1, <2>2, CopyIsWhole DEF FileIntact
  <2>3. CASE f # Moved(s)
    <3>1. game'[f] = game[f]
      BY <1>1, <1>9, <2>3 DEF Copy
    <3> QED BY <2>1, <2>3, <3>1 DEF FileIntact, Others, Moved
  <2> QED BY <2>2, <2>3
<1> QED BY <1>3, <1>4, <1>5, <1>6, <1>7, <1>8, <1>9, Steps

LEMMA FilesStep ==
  ASSUME TypeOK, Places, Apart, FilesWhole, [Next]_vars
  PROVE  FilesWhole'
<1> DEFINE InHand(s) == Moving(s) => Moved(s) \in shared \/ Whole(s, Moved(s))
           Behind(s) == Finishing(s) => \A f \in Done(s) : FileIntact(f)
           Out == \A i \in published : \A f \in FilesOf[i] : FileIntact(f)
<1>1. \A s \in Sessions : Finishing(s) => Done(s) \subseteq Files
  BY OpenTyped DEF Finishing, Moving, Done
<1>2. \A i \in published : FilesOf[i] \subseteq Files
  BY UploadAssumption DEF TypeOK
<1>3. \A s \in Sessions : Moving(s) => Moved(s) \in Files /\ HasFile(s, Moved(s))
  BY OpenTyped DEF Moving, Places, Finishing, HasFile, Open
<1>4. ASSUME UNCHANGED published PROVE Out'
  BY <1>2, <1>4, IntactStays DEF FilesWhole
<1>5. ASSUME NEW t \in Sessions, session'[t] = session[t] PROVE Behind(t)'
  BY <1>1, <1>5, IntactStays DEF FilesWhole, Finishing, Moving, Done
<1>6. ASSUME NEW s \in Sessions, Others(s), shared \subseteq shared',
             \A f \in Files : cached'[f] # cached[f] \/ game'[f] # game[f] => HasFile(s, f),
             NEW t \in Sessions \ {s}
      PROVE  InHand(t)' /\ Behind(t)'
  <2>1. session'[t] = session[t]
    BY <1>6 DEF Others
  <2>2. InHand(t)'
    <3> SUFFICES ASSUME Moving(t), Moved(t) \notin shared
                 PROVE  Whole(t, Moved(t))'
      BY <1>6, <2>1 DEF Moving, Moved
    <3>1. ~ HasFile(s, Moved(t))
      BY <1>3 DEF Apart
    <3>2. cached'[Moved(t)] = cached[Moved(t)] /\ game'[Moved(t)] = game[Moved(t)]
      BY <1>3, <1>6, <3>1
    <3>3. Whole(t, Moved(t))
      BY DEF FilesWhole
    <3> QED BY <2>1, <3>2, <3>3 DEF Whole, Moved
  <2> QED BY <1>5, <2>1, <2>2
<1>7. CASE UNCHANGED vars
  <2>1. \A s \in Sessions : InHand(s)'
    BY <1>7 DEF vars, disk, history, FilesWhole, Moving, Moved, Whole
  <2> QED BY <1>4, <1>5, <1>7, <2>1 DEF vars, FilesWhole
<1>8. ASSUME NEW s \in Sessions, Early(s), shared \subseteq shared' PROVE FilesWhole'
  <2>1. InHand(s)' /\ Behind(s)'
    BY <1>8 DEF Early, Finishing, Moving
  <2> QED BY <1>4, <1>6, <1>8, <2>1 DEF Early, FilesWhole
<1>9. CASE Restart /\ UNCHANGED <<game, images, published, shared>>
  <2>1. \A s \in Sessions : InHand(s)' /\ Behind(s)'
    BY <1>9, RestartCloses
  <2> QED BY <1>4, <1>9, <2>1 DEF FilesWhole
<1>10. ASSUME NEW s \in Sessions, Finish(s) PROVE FilesWhole'
  <2>1. InHand(s)' /\ Behind(s)'
    BY <1>10, Effects DEF SameItem, Done, Moving
  <2>2. UNCHANGED <<cached, game, published, shared>>
    BY <1>10 DEF Finish, disk, history
  <2> QED BY <1>4, <1>6, <1>10, <2>1, <2>2, Effects DEF FilesWhole
<1>11. ASSUME NEW s \in Sessions, NEW f \in Files, CheckPasses(s, f) PROVE FilesWhole'
  <2>1. Finishing(s) /\ cached[f] = Chunks[f] /\ UNCHANGED <<cached, game, published, shared>>
    BY <1>11 DEF CheckPasses, Checks, Finishing, disk, history
  <2>2. session'[s].pc = "copy" /\ Done(s)' = Done(s) /\ Moved(s)' = f /\ Others(s)
    BY <1>11, Effects DEF SameItem, Done, Moved
  <2>3. InHand(s)'
    BY <2>1, <2>2 DEF Whole
  <2>4. Behind(s)'
    BY <1>1, <2>1, <2>2, IntactStays DEF FilesWhole
  <2> QED BY <1>4, <1>6, <2>1, <2>2, <2>3, <2>4 DEF FilesWhole
<1>12. ASSUME NEW s \in Sessions, CopyOpen(s) PROVE FilesWhole'
  <2>1. session[s].pc = "copy" /\ Moving(s) /\ Finishing(s) /\ Moved(s) \in Files
    BY <1>12, OpenTyped DEF CopyOpen, Finishing, Moving
  <2>2. /\ session'[s].pc = "copying" /\ session'[s].read = cached[Moved(s)]
        /\ Done(s)' = Done(s) /\ Moved(s)' = Moved(s) /\ Others(s)
    BY <1>12, Effects DEF SameFiles, SameItem, Done, Moved
  <2>3. game' = [game EXCEPT ![Moved(s)] = 0] /\ UNCHANGED <<cached, published, shared>>
        /\ game \in [Files -> Contents \cup {Absent}]
    BY <1>12 DEF CopyOpen, history, TypeOK
  <2>4. InHand(s)'
    BY <2>1, <2>2, <2>3 DEF FilesWhole, Whole
  <2>5. Behind(s)'
    BY <1>1, <2>1, <2>2, IntactStays DEF FilesWhole
  <2>6. \A f \in Files : cached'[f] # cached[f] \/ game'[f] # game[f] => HasFile(s, f)
    BY <1>3, <2>1, <2>3
  <2> QED BY <1>4, <1>6, <2>2, <2>3, <2>4, <2>5, <2>6 DEF FilesWhole
<1>13. ASSUME NEW s \in Sessions, Copy(s) PROVE FilesWhole'
  <2>1. Moving(s) /\ Finishing(s) /\ Moved(s) \in Files
    BY <1>13, OpenTyped DEF Copy, Finishing, Moving
  <2>2. /\ session'[s].pc = "remove" /\ Done(s)' = Done(s) /\ Moved(s)' = Moved(s)
        /\ Others(s)
    BY <1>13, Effects DEF SameFiles, SameItem, Done, Moved
  <2>3. UNCHANGED <<cached, published, shared>>
        /\ \A f \in Files : game'[f] # game[f] => f = Moved(s)
    BY <1>13 DEF Copy, TypeOK
  <2>4. InHand(s)'
    BY <1>13, <2>2, <2>3, CopyIsWhole DEF Whole
  <2>5. Behind(s)'
    BY <1>1, <2>1, <2>2, IntactStays DEF FilesWhole
  <2>6. \A f \in Files : cached'[f] # cached[f] \/ game'[f] # game[f] => HasFile(s, f)
    BY <1>3, <2>1, <2>3
  <2> QED BY <1>4, <1>6, <2>2, <2>3, <2>4, <2>5, <2>6 DEF FilesWhole
<1>14. ASSUME NEW s \in Sessions, Remove(s) PROVE FilesWhole'
  <2>1. session[s].pc = "remove" /\ Moving(s) /\ Finishing(s) /\ Moved(s) \in Files
    BY <1>14, OpenTyped DEF Remove, Finishing, Moving
  <2>2. session'[s].pc = "check" /\ Done(s)' \subseteq Done(s) \cup {Moved(s)} /\ Others(s)
    BY <1>14, Effects DEF SameItem, Done
  <2>3. UNCHANGED <<game, published, shared>>
        /\ \A f \in Files : cached'[f] # cached[f] => f = Moved(s)
    BY <1>14 DEF Remove, TypeOK, history
  <2>4. FileIntact(Moved(s))
    BY <2>1 DEF FilesWhole, Whole, FileIntact
  <2>5. InHand(s)' /\ Behind(s)'
    BY <1>1, <2>1, <2>2, <2>4, IntactStays DEF FilesWhole, Moving
  <2>6. \A f \in Files : cached'[f] # cached[f] \/ game'[f] # game[f] => HasFile(s, f)
    BY <1>3, <2>1, <2>3
  <2> QED BY <1>4, <1>6, <2>2, <2>3, <2>5, <2>6 DEF FilesWhole
<1>15. ASSUME NEW s \in Sessions, Publish(s) PROVE FilesWhole'
  <2>1. InHand(s)' /\ Behind(s)'
    BY <1>15, PublishCloses DEF Finishing, Moving
  <2>2. \A f \in FilesOf[session[s].item] : f \in Files /\ FileIntact(f)
    BY <1>1, <1>15, PublishCloses DEF FilesWhole, Finishing, Done
  <2>3. Out'
    BY <1>2, <1>15, <2>2, PublishCloses, IntactStays DEF FilesWhole
  <2> QED BY <1>6, <1>15, <2>1, <2>3, PublishCloses DEF FilesWhole
<1> QED
  BY <1>7, <1>8, <1>9, <1>10, <1>11, <1>12, <1>13, <1>14, <1>15, Steps

-----------------------------------------------------------------------------
(* The images are whole.                                                   *)

Excused == cut \cup Unfinished(Sessions)
Writes(s) == session[s].pc = "image" /\ session[s].created

LEMMA UnfinishedIs ==
  ASSUME NEW S, NEW g
  PROVE  g \in Unfinished(S) <=> \E s \in S : Writes(s) /\ Image(s) = g
BY DEF Unfinished, Writes

(* A session that stops writing its image leaves it whole or in the        *)
(* history.                                                                *)
LEMMA StillExcused ==
  ASSUME NEW s \in Sessions, Others(s), cut \subseteq cut',
         Writes(s) => Image(s) \in cut' \/ (Writes(s)' /\ SameItem(s))
  PROVE  Excused \subseteq Excused'
<1> SUFFICES ASSUME NEW g \in Excused PROVE g \in Excused'
  OBVIOUS
<1>1. CASE g \in cut
  BY <1>1 DEF Excused
<1>2. ASSUME NEW t \in Sessions, Writes(t), Image(t) = g PROVE g \in Excused'
  <2>1. CASE t = s /\ g \in cut'
    BY <2>1 DEF Excused
  <2>2. CASE ~ (t = s /\ g \in cut')
    <3>1. Writes(t)' /\ Image(t)' = g
      BY <1>2, <2>2 DEF Others, SameItem, Writes, Image
    <3> QED BY <3>1 DEF Excused, Unfinished, Writes
  <2> QED BY <2>1, <2>2
<1> QED BY <1>1, <1>2, UnfinishedIs DEF Excused

(* A step that writes no image.                                            *)
LEMMA ImagesKept ==
  ASSUME TypeOK, ImagesWhole, UNCHANGED images, cut \subseteq cut', Excused \subseteq Excused',
         \A t \in Sessions : HasHash(t)' => images[Image(t)'] # Absent,
         \A i \in published' : images[ImageOf[i]] # Absent
  PROVE  ImagesWhole'
BY DEF ImagesWhole, ImageIntact, Excused

LEMMA ImageStep ==
  ASSUME TypeOK, ImagesWhole, NEW s \in Sessions,
         ImageHash(s) \/ CreateImage(s) \/ ImageKnown(s) \/ ImageWhole(s) \/ ImageInParts(s)
  PROVE  ImagesWhole'
<1>1. session[s].pc # "closed" /\ Image(s) \in Images
  BY OpenTyped DEF ImageHash, CreateImage, ImageKnown, ImageWhole, ImageInParts, Goes
<1>2. images \in [Images -> {Absent, "empty", "whole", "corrupt"}] /\ Absent # "whole"
      /\ Absent # "empty" /\ Absent # "corrupt" /\ cut \subseteq Images
  BY UploadAssumption DEF TypeOK
<1>3. \A t \in Sessions : HasHash(t) => Image(t) \in Images
  BY OpenTyped DEF HasHash, Finishing, Moving
<1>4. \A i \in published : ImageOf[i] \in Images
  BY UploadAssumption DEF TypeOK
<1>5. ASSUME Others(s), NEW t \in Sessions \ {s}
      PROVE  HasHash(t)' = HasHash(t) /\ Image(t)' = Image(t)
  BY <1>5 DEF Others, HasHash, Finishing, Moving, Image
<1>6. CASE ImageHash(s)
  <2> DEFINE to == IF images[Image(s)] = Absent THEN "create" ELSE "image"
  <2>1. Goes(s, "image hash", to) /\ UNCHANGED <<images, published, cut>>
    BY <1>6 DEF ImageHash, disk, history
  <2> HIDE DEF to
  <2>2. session[s].pc = "image hash" /\ session'[s].pc = to /\ SameItem(s) /\ Others(s)
    BY <2>1, GoesEffect DEF Goes
  <2>3. HasHash(s)' => images[Image(s)'] # Absent
    BY <2>2 DEF to, HasHash, Finishing, Moving, SameItem, Image
  <2>4. Excused \subseteq Excused'
    BY <2>1, <2>2, StillExcused DEF Writes
  <2> QED BY <1>5, <2>1, <2>2, <2>3, <2>4, ImagesKept DEF ImagesWhole
<1>7. CASE CreateImage(s)
  <2>1. session'[s].pc = "image" /\ session'[s].created /\ SameItem(s) /\ Others(s)
    BY <1>7, Effects
  <2>2. session[s].pc = "create" /\ UNCHANGED <<published, cut>>
        /\ images' = [images EXCEPT ![Image(s)] = IF @ = Absent THEN "empty" ELSE @]
    BY <1>7 DEF CreateImage, history
  <2>3. Excused \subseteq Excused'
    BY <2>1, <2>2, StillExcused DEF Writes
  <2>4. Image(s)' = Image(s) /\ Image(s) \in Excused'
    <3>1. Image(s)' = Image(s) /\ Writes(s)'
      BY <2>1 DEF SameItem, Image, Writes
    <3> QED BY <3>1 DEF Excused, Unfinished, Writes
  <2>5. \A g \in Images :
          /\ images[g] # Absent => images'[g] = images[g]
          /\ images'[g] # images[g] => g = Image(s) /\ images'[g] = "empty"
    BY <1>1, <1>2, <2>2
  <2>6. images'[Image(s)] # Absent
    BY <1>1, <1>2, <2>2
  <2>7. \A g \in Images : images'[g] # Absent => ImageIntact(g)'
    BY <2>3, <2>4, <2>5 DEF ImagesWhole, ImageIntact, Excused
  <2>8. \A g \in Images : images'[g] = "corrupt" => g \in cut'
    BY <2>2, <2>5 DEF ImagesWhole
  <2>9. \A t \in Sessions : HasHash(t)' => images'[Image(t)'] # Absent
    BY <1>3, <1>5, <2>1, <2>4, <2>5, <2>6 DEF ImagesWhole
  <2>10. \A i \in published' : images'[ImageOf[i]] # Absent
    BY <1>4, <2>2, <2>5 DEF ImagesWhole
  <2> QED BY <2>7, <2>8, <2>9, <2>10 DEF ImagesWhole
<1>8. CASE ImageKnown(s)
  <2>1. Goes(s, "image", "finish") /\ ~ session[s].created /\ UNCHANGED <<images, published, cut>>
    BY <1>8 DEF ImageKnown, disk, history
  <2>2. session[s].pc = "image" /\ SameItem(s) /\ Others(s)
    BY <2>1, GoesEffect DEF Goes
  <2>3. images[Image(s)'] # Absent
    BY <2>2 DEF ImagesWhole, HasHash, SameItem, Image
  <2>4. Excused \subseteq Excused'
    BY <2>1, <2>2, StillExcused DEF Writes
  <2> QED BY <1>5, <2>1, <2>2, <2>3, <2>4, ImagesKept DEF ImagesWhole
<1>9. CASE ImageWhole(s)
  <2>1. Goes(s, "image", "finish") /\ UNCHANGED <<published, cut>>
    BY <1>9 DEF ImageWhole, history
  <2>2. session[s].pc = "image" /\ SameItem(s) /\ Others(s)
    BY <2>1, GoesEffect DEF Goes
  <2>3. PICK content \in {"corrupt", "whole"} :
          /\ images' = [images EXCEPT ![Image(s)] = content]
          /\ content = "corrupt" => images[Image(s)] = "corrupt"
    BY <1>9 DEF ImageWhole
  <2>4. /\ \A g \in Images : g # Image(s) => images'[g] = images[g]
        /\ images'[Image(s)] = content
    BY <1>1, <1>2, <2>3
  <2>5. \A g \in Images : images'[g] = "corrupt" => g \in cut'
    BY <2>1, <2>3, <2>4 DEF ImagesWhole
  <2>6. ASSUME NEW g \in Images, g # Image(s), g \in Excused PROVE g \in Excused'
    <3>1. CASE g \in cut
      BY <2>1, <3>1 DEF Excused
    <3>2. ASSUME NEW t \in Sessions, Writes(t), Image(t) = g PROVE g \in Excused'
      <4>1. Writes(t)' /\ Image(t)' = g
        BY <2>2, <2>6, <3>2 DEF Others, Writes, Image
      <4> QED BY <4>1 DEF Excused, Unfinished, Writes
    <3> QED BY <2>6, <3>1, <3>2, UnfinishedIs DEF Excused
  <2>7. \A g \in Images : images'[g] # Absent => ImageIntact(g)'
    <3> SUFFICES ASSUME NEW g \in Images, images'[g] # Absent PROVE ImageIntact(g)'
      OBVIOUS
    <3>1. CASE g = Image(s)
      BY <2>4, <2>5, <3>1 DEF ImageIntact
    <3>2. CASE g # Image(s)
      BY <2>4, <2>6, <3>2 DEF ImagesWhole, ImageIntact, Excused
    <3> QED BY <3>1, <3>2
  <2>8. \A g \in Images : images[g] # Absent => images'[g] # Absent
    BY <1>2, <2>4
  <2>9. Image(s)' = Image(s) /\ images'[Image(s)] # Absent
    BY <1>2, <2>2, <2>4 DEF SameItem, Image
  <2>10. \A t \in Sessions : HasHash(t)' => images'[Image(t)'] # Absent
    BY <1>3, <1>5, <2>2, <2>8, <2>9 DEF ImagesWhole
  <2>11. \A i \in published' : images'[ImageOf[i]] # Absent
    BY <1>4, <2>1, <2>8 DEF ImagesWhole
  <2> QED BY <2>5, <2>7, <2>10, <2>11 DEF ImagesWhole
<1>10. CASE ImageInParts(s)
  <2>1. /\ Writes(s) /\ Break(s) /\ UNCHANGED published
        /\ images' = [images EXCEPT ![Image(s)] = "corrupt"]
    BY <1>10 DEF ImageInParts, Writes
  <2>2. Others(s) /\ session'[s].pc = "closed"
    BY <2>1, BreakTyped DEF Others
  <2>3. cut \subseteq cut' /\ Image(s) \in cut'
    BY <2>1 DEF Break, Unfinished, Writes
  <2>4. Excused \subseteq Excused'
    BY <2>2, <2>3, StillExcused
  <2>5. /\ \A g \in Images : g # Image(s) => images'[g] = images[g]
        /\ images'[Image(s)] = "corrupt"
    BY <1>1, <1>2, <2>1
  <2>6. \A g \in Images : images'[g] = "corrupt" => g \in cut'
    BY <2>3, <2>5 DEF ImagesWhole
  <2>7. \A g \in Images : images'[g] # Absent => ImageIntact(g)'
    BY <2>3, <2>4, <2>5 DEF ImagesWhole, ImageIntact, Excused
  <2>8. \A g \in Images : images[g] # Absent => images'[g] # Absent
    BY <1>2, <2>5
  <2>9. ~ HasHash(s)'
    BY <2>2 DEF HasHash, Finishing, Moving
  <2>10. \A t \in Sessions : HasHash(t)' => images'[Image(t)'] # Absent
    BY <1>3, <1>5, <2>2, <2>8, <2>9 DEF ImagesWhole
  <2>11. \A i \in published' : images'[ImageOf[i]] # Absent
    BY <1>4, <2>1, <2>8 DEF ImagesWhole
  <2> QED BY <2>6, <2>7, <2>10, <2>11 DEF ImagesWhole
<1> QED BY <1>6, <1>7, <1>8, <1>9, <1>10

LEMMA ImagesStep == ASSUME TypeOK, ImagesWhole, [Next]_vars PROVE ImagesWhole'
<1>1. ASSUME NEW t \in Sessions, session'[t] = session[t]
      PROVE  HasHash(t)' => images[Image(t)'] # Absent
  BY <1>1 DEF ImagesWhole, HasHash, Finishing, Moving, Image
<1>2. ASSUME NEW s \in Sessions, Others(s), UNCHANGED <<images, cut, published>>, ~ Writes(s),
             HasHash(s)' => images[Image(s)'] # Absent
      PROVE  ImagesWhole'
  BY <1>1, <1>2, StillExcused, ImagesKept DEF Others, ImagesWhole
<1>3. ASSUME NEW s \in Sessions, Break(s), UNCHANGED images,
             \A i \in published' : images[ImageOf[i]] # Absent
      PROVE  ImagesWhole'
  <2>1. Others(s) /\ session'[s].pc = "closed" /\ cut \subseteq cut'
    BY <1>3, BreakTyped DEF Others, Break
  <2>2. Excused \subseteq Excused'
    BY <1>3, <2>1, StillExcused DEF Break, Unfinished, Writes
  <2>3. ~ HasHash(s)'
    BY <2>1 DEF HasHash, Finishing, Moving
  <2> QED BY <1>1, <1>3, <2>1, <2>2, <2>3, ImagesKept DEF Others
<1>4. ASSUME Restart, UNCHANGED <<images, published>> PROVE ImagesWhole'
  <2>1. cut \subseteq cut' /\ Excused \subseteq Excused'
    BY <1>4 DEF Restart, Excused
  <2>2. \A t \in Sessions : ~ HasHash(t)'
    BY <1>4, RestartTyped DEF HasHash, Finishing, Moving
  <2> QED BY <1>4, <2>1, <2>2, ImagesKept DEF ImagesWhole
<1>5. CASE UNCHANGED vars
  <2>1. UNCHANGED <<images, cut, published, session>>
    BY <1>5 DEF vars, disk, history
  <2>2. Excused' = Excused
    BY <2>1 DEF Excused, Unfinished, Image
  <2> QED BY <1>1, <2>1, <2>2, ImagesKept DEF ImagesWhole
<1>6. ASSUME NEW s \in Sessions, NEW i \in Items, Header(s, i) PROVE ImagesWhole'
  <2>1. Others(s) /\ session'[s].pc = "chunks"
    BY <1>6, Effects
  <2>2. session[s].pc = "closed" /\ UNCHANGED <<images, cut, published>>
    BY <1>6 DEF Header, disk
  <2> QED BY <1>2, <2>1, <2>2 DEF Writes, HasHash, Finishing, Moving
<1>7. ASSUME NEW s \in Sessions, NEW f \in Files, Chunk(s, f) PROVE ImagesWhole'
  <2>1. Others(s) /\ session'[s].pc \in {"chunks", "image hash"}
    BY <1>7, Effects
  <2>2. session[s].pc = "chunks" /\ UNCHANGED <<images, cut, published>>
    BY <1>7 DEF Chunk, NextChunk, history
  <2> QED BY <1>2, <2>1, <2>2 DEF Writes, HasHash, Finishing, Moving
<1>8. ASSUME NEW s \in Sessions,
             \/ Finish(s) \/ CopyOpen(s) \/ Copy(s) \/ Remove(s)
             \/ \E f \in Files : CheckPasses(s, f)
      PROVE  ImagesWhole'
  <2>1. SameItem(s) /\ Others(s)
    BY <1>8, Effects DEF SameFiles
  <2>2. session[s].pc \in {"finish", "check", "copy", "copying", "remove"}
        /\ UNCHANGED <<images, cut, published>>
    BY <1>8 DEF Finish, CopyOpen, Copy, Remove, CheckPasses, Checks, disk, history
  <2>3. images[Image(s)'] # Absent
    BY <2>1, <2>2 DEF ImagesWhole, HasHash, Finishing, Moving, SameItem, Image
  <2> QED BY <1>2, <2>1, <2>2, <2>3 DEF Writes
<1>9. ASSUME NEW s \in Sessions, Publish(s) PROVE ImagesWhole'
  <2>1. Break(s) /\ UNCHANGED images /\ published' = published \cup {session[s].item}
    BY <1>9 DEF Publish, disk
  <2>2. images[ImageOf[session[s].item]] # Absent
    BY <1>9 DEF Publish, ImagesWhole, HasHash, Finishing, Image
  <2> QED BY <1>3, <2>1, <2>2 DEF ImagesWhole
<1>10. ASSUME NEW s \in Sessions, (\E f \in Files : ChunkTooMuch(s, f)) \/ HangUp(s)
       PROVE  ImagesWhole'
  BY <1>3, <1>10 DEF ChunkTooMuch, HangUp, ImagesWhole, disk
<1>11. ASSUME NEW s \in Sessions,
              NothingToMove(s) \/ \E f \in Files : ChunkNotZst(s, f) \/ CheckFails(s, f)
       PROVE  ImagesWhole'
  BY <1>4, <1>11 DEF NothingToMove, ChunkNotZst, CheckFails, disk
<1>12. ASSUME Crash PROVE ImagesWhole'
  BY <1>4, <1>12 DEF Crash, disk
<1> QED
  BY <1>5, <1>6, <1>7, <1>8, <1>9, <1>10, <1>11, <1>12, ImageStep DEF Next, Message, Work

-----------------------------------------------------------------------------
(* What a session has sent, and the cached files of clean uploads.         *)

Counted(n) == UNION {{f} \X (1..n[f]) : f \in Files}

(* Chunks counted file by file: as many as a client has only if each file  *)
(* is complete.                                                            *)
LEMMA CountedAll ==
  ASSUME NEW i \in Items, NEW n \in [Files -> Nat],
         \A f \in Files : f \in FilesOf[i] => n[f] <= Chunks[f],
         \A f \in Files : f \notin FilesOf[i] => n[f] = 0
  PROVE  /\ IsFiniteSet(Counted(n))
         /\ Cardinality(Counted(n)) = Cardinality(AllChunks(i)) =>
              \A f \in FilesOf[i] : n[f] = Chunks[f]
<1> USE UploadAssumption
<1>1. IsFiniteSet(AllChunks(i))
  BY DEF AllChunks
<1>2. Counted(n) \subseteq AllChunks(i)
  <2> SUFFICES ASSUME NEW f \in Files, NEW k \in 1..n[f]
               PROVE  <<f, k>> \in AllChunks(i)
    BY DEF Counted
  <2>1. f \in FilesOf[i] /\ k \in 1..Chunks[f]
    OBVIOUS
  <2> QED BY <2>1 DEF AllChunks
<1>3. IsFiniteSet(Counted(n))
  BY <1>1, <1>2, FS_Subset
<1>4. ASSUME Cardinality(Counted(n)) = Cardinality(AllChunks(i)), NEW f \in FilesOf[i]
      PROVE  n[f] = Chunks[f]
  <2>1. Counted(n) = AllChunks(i)
    BY <1>1, <1>2, <1>4, FS_Subset
  <2>2. f \in Files /\ Chunks[f] \in Nat \ {0} /\ n[f] \in Nat /\ n[f] <= Chunks[f]
    OBVIOUS
  <2>3. <<f, Chunks[f]>> \in AllChunks(i)
    BY <2>2 DEF AllChunks
  <2>4. PICK g \in Files : <<f, Chunks[f]>> \in {g} \X (1..n[g])
    BY <2>1, <2>3 DEF Counted
  <2> QED BY <2>2, <2>4
<1> QED BY <1>3, <1>4

(* One chunk more.                                                         *)
LEMMA CountedMore ==
  ASSUME NEW n \in [Files -> Nat], NEW f \in Files, IsFiniteSet(Counted(n))
  PROVE  Cardinality(Counted([n EXCEPT ![f] = n[f] + 1])) = Cardinality(Counted(n)) + 1
<1> DEFINE m == [n EXCEPT ![f] = n[f] + 1]
<1>1. m \in [Files -> Nat] /\ m[f] = n[f] + 1 /\ \A g \in Files : g # f => m[g] = n[g]
  OBVIOUS
<1> HIDE DEF m
<1>2. Counted(m) = Counted(n) \cup {<<f, n[f] + 1>>}
  <2>1. ASSUME NEW c \in Counted(m) PROVE c \in Counted(n) \cup {<<f, n[f] + 1>>}
    <3>1. PICK g \in Files : c \in {g} \X (1..m[g])
      BY DEF Counted
    <3>2. PICK k \in 1..m[g] : c = <<g, k>>
      BY <3>1
    <3>3. CASE g = f /\ k = n[f] + 1
      BY <3>2, <3>3
    <3>4. CASE ~ (g = f /\ k = n[f] + 1)
      <4>1. k \in 1..n[g]
        BY <1>1, <3>2, <3>4
      <4> QED BY <3>2, <4>1 DEF Counted
    <3> QED BY <3>3, <3>4
  <2>2. ASSUME NEW g \in Files, NEW k \in 1..n[g] PROVE <<g, k>> \in Counted(m)
    <3>1. k \in 1..m[g]
      BY <1>1
    <3> QED BY <3>1 DEF Counted
  <2>3. <<f, n[f] + 1>> \in Counted(m)
    <3>1. n[f] + 1 \in 1..m[f]
      BY <1>1
    <3> QED BY <3>1 DEF Counted
  <2>4. Counted(n) \subseteq Counted(m)
    BY <2>2 DEF Counted
  <2> QED BY <2>1, <2>3, <2>4
<1>3. <<f, n[f] + 1>> \notin Counted(n)
  <2> SUFFICES ASSUME NEW g \in Files, <<f, n[f] + 1>> \in {g} \X (1..n[g]) PROVE FALSE
    BY DEF Counted
  <2> QED OBVIOUS
<1>4. Cardinality(Counted(m)) = Cardinality(Counted(n)) + 1
  BY <1>2, <1>3, FS_AddElement
<1> QED BY <1>4 DEF m

SameSent(s) ==
  session'[s].sent = session[s].sent /\ session'[s].clean = session[s].clean

(* A session that does not receive keeps what it has sent.                 *)
LEMMA SentEffects ==
  ASSUME TypeOK, NEW s \in Sessions
  PROVE  /\ \A from, to : Goes(s, from, to) => SameSent(s)
         /\ CreateImage(s) \/ Finish(s) \/ CopyOpen(s) \/ Copy(s) \/ Remove(s) => SameSent(s)
         /\ \A f \in Files : CheckPasses(s, f) => SameSent(s)
<1> USE DEF SameSent
<1>0. session \in [Sessions -> Locals] /\ session[s] \in Locals
  BY DEF TypeOK
<1>1. ASSUME NEW from, NEW to, Goes(s, from, to) PROVE SameSent(s)
  BY <1>0, <1>1 DEF Goes, Locals
<1>2. CASE CreateImage(s)
  <2> DEFINE l == [session[s] EXCEPT !.pc = "image", !.created = TRUE]
  <2>1. session'[s] = l
    BY <1>0, <1>2 DEF CreateImage
  <2> QED BY <1>0, <2>1 DEF Locals
<1>3. CASE Finish(s)
  <2> DEFINE l == [session[s] EXCEPT !.pc = "check", !.todo = FilesOf[session[s].item]]
  <2>1. session'[s] = l
    BY <1>0, <1>3 DEF Finish
  <2> QED BY <1>0, <2>1 DEF Locals
<1>4. CASE CopyOpen(s)
  <2> DEFINE l == [session[s] EXCEPT !.pc = "copying", !.read = cached[Moved(s)]]
  <2>1. session'[s] = l
    BY <1>0, <1>4 DEF CopyOpen
  <2> QED BY <1>0, <2>1 DEF Locals
<1>5. CASE Copy(s)
  <2> DEFINE l == [session[s] EXCEPT !.pc = "remove", !.read = Absent]
  <2>1. session'[s] = l
    BY <1>0, <1>5 DEF Copy
  <2> QED BY <1>0, <2>1 DEF Locals
<1>6. CASE Remove(s)
  <2> DEFINE l == [session[s] EXCEPT !.pc = "check", !.file = NoFile,
                                     !.todo = session[s].todo \ {Moved(s)}]
  <2>1. session'[s] = l
    BY <1>0, <1>6 DEF Remove
  <2> QED BY <1>0, <2>1 DEF Locals
<1>7. ASSUME NEW f \in Files, CheckPasses(s, f) PROVE SameSent(s)
  <2> DEFINE l == [session[s] EXCEPT !.pc = "copy", !.file = f]
  <2>1. session'[s] = l
    BY <1>0, <1>7 DEF CheckPasses
  <2> QED BY <1>0, <2>1 DEF Locals
<1> QED BY <1>1, <1>2, <1>3, <1>4, <1>5, <1>6, <1>7

(* The header opens a session that has sent nothing; a chunk is one more.  *)
LEMMA ReceiveEffects ==
  ASSUME TypeOK, NEW s \in Sessions
  PROVE  /\ \A i \in Items : Header(s, i) =>
              /\ session'[s].sent = [f \in Files |-> 0]
              /\ session'[s].clean = {f \in FilesOf[i] : cached[f] = Absent}
         /\ \A f \in Files : Chunk(s, f) =>
              /\ session'[s].sent = [session[s].sent EXCEPT ![f] = session[s].sent[f] + 1]
              /\ session'[s].clean = session[s].clean
              /\ session'[s].pc = IF Total(s) = Cardinality(AllChunks(session[s].item))
                                  THEN "image hash" ELSE "chunks"
<1>0. session \in [Sessions -> Locals] /\ session[s] \in Locals
  BY DEF TypeOK
<1>1. ASSUME NEW i \in Items, Header(s, i)
      PROVE  /\ session'[s].sent = [f \in Files |-> 0]
             /\ session'[s].clean = {f \in FilesOf[i] : cached[f] = Absent}
  <2> DEFINE l == [Closed EXCEPT !.pc = "chunks", !.item = i,
                                 !.clean = {f \in FilesOf[i] : cached[f] = Absent}]
  <2>1. session'[s] = l
    BY <1>0, <1>1 DEF Header
  <2> QED BY <2>1 DEF Closed
<1>2. ASSUME NEW f \in Files, Chunk(s, f)
      PROVE  /\ session'[s].sent = [session[s].sent EXCEPT ![f] = session[s].sent[f] + 1]
             /\ session'[s].clean = session[s].clean
             /\ session'[s].pc = IF Total(s) = Cardinality(AllChunks(session[s].item))
                                 THEN "image hash" ELSE "chunks"
  <2> DEFINE next == IF Total(s) = Cardinality(AllChunks(session[s].item))
                     THEN "image hash" ELSE "chunks"
             sent == [session[s].sent EXCEPT ![f] = session[s].sent[f] + 1]
             l == [session[s] EXCEPT !.sent = sent, !.pc = next]
  <2>1. session' = [session EXCEPT ![s] = l]
    BY <1>2 DEF Chunk
  <2> HIDE DEF next, sent
  <2>2. session'[s] = l
    BY <1>0, <2>1
  <2>3. session'[s].sent = sent /\ session'[s].clean = session[s].clean
        /\ session'[s].pc = next
    BY <1>0, <2>2 DEF Locals
  <2> QED BY <2>3 DEF next, sent
<1> QED BY <1>1, <1>2

(* The sessions that do not move: a cached file that changes under one of  *)
(* them is shared.                                                         *)
LEMMA CleanKept ==
  ASSUME TypeOK, CleanSent, NEW t \in Sessions, session'[t] = session[t],
         shared \subseteq shared',
         \A f \in Files : cached'[f] # cached[f] /\ HasFile(t, f) => f \in shared'
  PROVE  CleanAt(t)'
<1>1. CASE ~ Open(t)
  BY <1>1 DEF CleanSent, CleanAt, Open, Closed
<1>2. CASE Open(t)
  <2>1. SentOf(t) /\ CleanOf(t) /\ Open(t)'
    BY <1>2 DEF CleanSent, CleanAt, Open
  <2>2. SentOf(t)'
    BY <2>1 DEF SentOf, Sent
  <2>3. CleanOf(t)'
    <3> SUFFICES ASSUME NEW f \in session[t].clean \ shared', Moves(t, f)
                 PROVE  cached'[f] = IF Sent(t, f) = 0 THEN Absent ELSE Sent(t, f)
      BY <2>1 DEF CleanOf, Moves, Finishing, Moving, Sent
    <3>1. f \in FilesOf[session[t].item] /\ f \in Files /\ HasFile(t, f) /\ f \notin shared
      BY <1>2, <2>1, OpenTyped DEF CleanOf, HasFile, Open
    <3>2. cached'[f] = cached[f]
      BY <3>1
    <3> QED BY <2>1, <3>1, <3>2 DEF CleanOf
  <2> QED BY <2>1, <2>2, <2>3 DEF CleanAt
<1> QED BY <1>1, <1>2

(* A session that goes on without a chunk, the cached files it still has   *)
(* to move untouched.                                                      *)
LEMMA CleanGoesOn ==
  ASSUME TypeOK, CleanSent, NEW s \in Sessions, SameItem(s), SameSent(s), Open(s), Open(s)',
         session'[s].pc # "chunks" => session[s].pc # "chunks",
         \A f \in Files : Moves(s, f)' => Moves(s, f) /\ cached'[f] = cached[f],
         shared \subseteq shared'
  PROVE  CleanAt(s)'
<1>1. SentOf(s) /\ CleanOf(s) /\ FilesOf[session[s].item] \subseteq Files
  BY OpenTyped DEF CleanSent, CleanAt, Open
<1>2. SentOf(s)'
  BY <1>1 DEF SentOf, Sent, SameItem, SameSent
<1>3. CleanOf(s)'
  <2> SUFFICES ASSUME NEW f \in session[s].clean \ shared', Moves(s, f)'
               PROVE  cached'[f] = IF Sent(s, f) = 0 THEN Absent ELSE Sent(s, f)
    BY <1>1 DEF CleanOf, Sent, SameItem, SameSent
  <2>1. f \in Files
    BY <1>1 DEF CleanOf
  <2> QED BY <1>1, <2>1 DEF CleanOf
<1> QED BY <1>2, <1>3 DEF CleanAt

LEMMA CleanChunk ==
  ASSUME TypeOK, CleanSent, NEW s \in Sessions, NEW f \in Files, Chunk(s, f)
  PROVE  CleanAt(s)'
<1> DEFINE n == session[s].sent
           m == [n EXCEPT ![f] = n[f] + 1]
           i == session[s].item
<1>1. session[s].pc = "chunks" /\ f \in FilesOf[i] /\ n[f] < Chunks[f]
      /\ cached' = [cached EXCEPT ![f] = Appended(cached[f], n[f] + 1)] /\ UNCHANGED shared
  BY DEF Chunk, NextChunk, HasFile, history
<1>2. i \in Items /\ FilesOf[i] \subseteq Files /\ n \in [Files -> Nat]
      /\ Chunks \in [Files -> Nat \ {0}]
  BY <1>1, OpenTyped, LocalsFields, UploadAssumption
<1>3. SentOf(s) /\ CleanOf(s)
  BY <1>1 DEF CleanSent, CleanAt, Open
<1>4. session'[s].sent = m /\ session'[s].clean = session[s].clean /\ session'[s].item = i
      /\ session'[s].pc = IF Total(s) = Cardinality(AllChunks(i)) THEN "image hash" ELSE "chunks"
  BY Effects, ReceiveEffects DEF SameItem
<1>5. m \in [Files -> Nat] /\ m[f] = n[f] + 1 /\ \A g \in Files : g # f => m[g] = n[g]
  BY <1>2
<1>6. /\ \A g \in Files : g \in FilesOf[i] => n[g] <= Chunks[g]
      /\ \A g \in Files : g \notin FilesOf[i] => n[g] = 0
  BY <1>3 DEF SentOf, Sent
<1>7. IsFiniteSet(Counted(n)) /\ Total(s) = Cardinality(Counted(n)) + 1
  BY <1>2, <1>6, CountedAll DEF Total, Received, Counted
<1>8. Cardinality(Counted(m)) = Total(s)
  BY <1>2, <1>7, CountedMore
<1> HIDE DEF n, m, i
<1>9. \A g \in Files : g \in FilesOf[i] => m[g] <= Chunks[g]
  BY <1>1, <1>2, <1>5, <1>6
<1>10. \A g \in Files : g \notin FilesOf[i] => m[g] = 0
  BY <1>1, <1>5, <1>6
<1>11. Total(s) = Cardinality(AllChunks(i)) => \A g \in FilesOf[i] : m[g] = Chunks[g]
  BY <1>2, <1>5, <1>8, <1>9, <1>10, CountedAll
<1>12. SentOf(s)'
  BY <1>4, <1>9, <1>10, <1>11 DEF SentOf, Sent
<1>13. CleanOf(s)'
  <2>1. session'[s].clean \subseteq FilesOf[session'[s].item]
    BY <1>3, <1>4 DEF CleanOf, i
  <2>2. ASSUME NEW g \in session[s].clean \ shared
        PROVE  cached'[g] = IF m[g] = 0 THEN Absent ELSE m[g]
    <3>1. g \in Files /\ cached[g] = IF n[g] = 0 THEN Absent ELSE n[g]
      BY <1>1, <1>2, <1>3 DEF CleanOf, Sent, Moves, Finishing, Moving, n, i
    <3>2. CASE g # f
      BY <1>1, <1>5, <3>1, <3>2 DEF TypeOK
    <3>3. CASE g = f
      <4>1. cached'[f] = Appended(cached[f], n[f] + 1)
        BY <1>1, <3>1, <3>3 DEF TypeOK
      <4>2. n[f] \in Nat
        BY <1>2
      <4>3. Appended(cached[f], n[f] + 1) = n[f] + 1
        BY <3>1, <3>3, <4>2, UploadAssumption DEF Appended
      <4> QED BY <1>5, <3>3, <4>1, <4>2, <4>3
    <3> QED BY <3>2, <3>3
  <2> QED BY <1>1, <1>4, <2>1, <2>2 DEF CleanOf, Sent
<1>14. Open(s)'
  BY <1>4 DEF Open
<1> QED BY <1>12, <1>13, <1>14 DEF CleanAt

LEMMA CleanStep == ASSUME TypeOK, Places, Apart, CleanSent, [Next]_vars PROVE CleanSent'
<1> USE DEF disk, history
<1>1. ASSUME NEW s \in Sessions, Others(s), CleanAt(s)', shared \subseteq shared',
             \A f \in Files : cached'[f] # cached[f] => HasFile(s, f)
      PROVE  CleanSent'
  <2>1. \A t \in Sessions \ {s} : CleanAt(t)'
    BY <1>1, CleanKept DEF Others, Apart
  <2> QED BY <1>1, <2>1 DEF CleanSent
<1>2. ASSUME NEW s \in Sessions, Break(s), UNCHANGED <<cached, shared>> PROVE CleanSent'
  <2>1. session'[s] = Closed /\ Others(s)
    BY <1>2 DEF Break, Others, TypeOK
  <2>2. CleanAt(s)'
    BY <2>1 DEF CleanAt, Open, Closed
  <2> QED BY <1>1, <1>2, <2>1, <2>2
<1>3. ASSUME Restart PROVE CleanSent'
  BY <1>3 DEF Restart, CleanSent, CleanAt, Open, Closed
<1>4. CASE UNCHANGED vars
  BY <1>4, CleanKept DEF vars, CleanSent
<1>5. ASSUME NEW s \in Sessions, NEW i \in Items, Header(s, i) PROVE CleanSent'
  <2>1. /\ session'[s].pc = "chunks" /\ session'[s].item = i /\ Others(s)
        /\ session'[s].sent = [f \in Files |-> 0]
        /\ session'[s].clean = {f \in FilesOf[i] : cached[f] = Absent}
    BY <1>5, Effects, ReceiveEffects
  <2>2. UNCHANGED cached /\ shared \subseteq shared'
    BY <1>5 DEF Header
  <2>3. Open(s)'
    BY <2>1 DEF Open
  <2>4. SentOf(s)'
    BY <2>1, UploadAssumption DEF SentOf, Sent
  <2>5. CleanOf(s)'
    BY <2>1, <2>2, UploadAssumption DEF CleanOf, Sent
  <2> QED BY <1>1, <2>1, <2>2, <2>3, <2>4, <2>5 DEF CleanAt
<1>6. ASSUME NEW s \in Sessions, NEW f \in Files, Chunk(s, f) PROVE CleanSent'
  <2>1. HasFile(s, f) /\ UNCHANGED shared
        /\ \A g \in Files : cached'[g] # cached[g] => g = f
    BY <1>6 DEF Chunk, NextChunk, TypeOK
  <2>2. Others(s)
    BY <1>6, Effects
  <2> QED BY <1>1, <1>6, <2>1, <2>2, CleanChunk
<1>7. ASSUME NEW s \in Sessions, Others(s), SameItem(s), SameSent(s), Open(s),
             session'[s].pc \notin {"closed", "chunks"}, session[s].pc # "chunks",
             \A f \in Files : Moves(s, f)' => Moves(s, f), UNCHANGED <<cached, shared>>
      PROVE  CleanSent'
  <2>1. CleanAt(s)'
    BY <1>7, CleanGoesOn DEF Open
  <2> QED BY <1>1, <1>7, <2>1
<1>8. ASSUME NEW s \in Sessions,
             ImageHash(s) \/ ImageKnown(s) \/ ImageWhole(s) \/ CreateImage(s) \/ Finish(s)
      PROVE  CleanSent'
  <2>1. /\ Others(s) /\ SameItem(s) /\ SameSent(s)
        /\ session'[s].pc \notin {"closed", "chunks"}
        /\ session[s].pc \in {"image hash", "create", "image", "finish"}
        /\ UNCHANGED <<cached, shared>>
    <3> DEFINE to == IF images[Image(s)] = Absent THEN "create" ELSE "image"
    <3>1. CASE ImageHash(s)
      <4>1. Goes(s, "image hash", to) /\ to \in {"create", "image"}
            /\ UNCHANGED <<cached, shared>>
        BY <3>1 DEF ImageHash
      <4> HIDE DEF to
      <4> QED BY <4>1, GoesEffect, SentEffects DEF Goes
    <3>2. CASE ImageKnown(s) \/ ImageWhole(s)
      <4>1. Goes(s, "image", "finish") /\ UNCHANGED <<cached, shared>>
        BY <3>2 DEF ImageKnown, ImageWhole
      <4>2. SameSent(s)
        BY <4>1, SentEffects
      <4>3. session'[s].pc = "finish" /\ SameItem(s) /\ Others(s) /\ session[s].pc = "image"
        BY <4>1, GoesEffect DEF Goes
      <4> QED BY <4>1, <4>2, <4>3
    <3>3. CASE CreateImage(s) \/ Finish(s)
      BY <3>3, Effects, SentEffects DEF CreateImage, Finish
    <3> QED BY <1>8, <3>1, <3>2, <3>3
  <2>2. \A f \in Files : Moves(s, f)
    BY <2>1 DEF Moves, Finishing, Moving
  <2> QED BY <1>7, <2>1, <2>2 DEF Open
<1>9. ASSUME NEW s \in Sessions, CopyOpen(s) \/ Copy(s) \/ \E f \in Files : CheckPasses(s, f)
      PROVE  CleanSent'
  <2>1. /\ Others(s) /\ SameItem(s) /\ SameSent(s) /\ session'[s].todo = session[s].todo
        /\ session'[s].pc \notin {"closed", "chunks"}
        /\ session[s].pc \in {"check", "copy", "copying"} /\ UNCHANGED <<cached, shared>>
    BY <1>9, Effects, SentEffects DEF SameFiles, CopyOpen, Copy, CheckPasses, Checks
  <2>2. Finishing(s)
    BY <2>1 DEF Finishing, Moving
  <2>3. \A f \in Files : Moves(s, f)' => Moves(s, f)
    <3>1. Finishing(s)'
      BY <1>9, Effects DEF Finishing, Moving
    <3> QED BY <2>1, <3>1 DEF Moves
  <2> QED BY <1>7, <2>1, <2>3 DEF Open
<1>10. \A s \in Sessions : Moving(s) => HasFile(s, Moved(s))
  BY OpenTyped DEF Places, Finishing, Moving, HasFile, Open
<1>11. ASSUME NEW s \in Sessions, Remove(s) PROVE CleanSent'
  <2>1. /\ Others(s) /\ SameItem(s) /\ SameSent(s) /\ session'[s].pc = "check"
        /\ session'[s].todo = session[s].todo \ {Moved(s)}
    BY <1>11, Effects, SentEffects
  <2>2. session[s].pc = "remove" /\ Moving(s) /\ Finishing(s) /\ UNCHANGED shared
        /\ \A f \in Files : cached'[f] # cached[f] => f = Moved(s)
    BY <1>11 DEF Remove, Moving, Finishing, TypeOK
  <2>3. \A f \in Files : Moves(s, f)' => Moves(s, f) /\ cached'[f] = cached[f]
    BY <2>1, <2>2 DEF Moves, Finishing
  <2>4. CleanAt(s)'
    BY <2>1, <2>2, <2>3, CleanGoesOn DEF Open
  <2>5. HasFile(s, Moved(s))
    BY <1>10, <2>2
  <2> QED BY <1>1, <2>1, <2>2, <2>4, <2>5
<1>12. ASSUME NEW s \in Sessions,
              \/ \E f \in Files : ChunkTooMuch(s, f)
              \/ ImageInParts(s) \/ HangUp(s) \/ Publish(s)
       PROVE  CleanSent'
  BY <1>2, <1>12 DEF ChunkTooMuch, ImageInParts, HangUp, Publish
<1>13. ASSUME NEW s \in Sessions,
              NothingToMove(s) \/ \E f \in Files : ChunkNotZst(s, f) \/ CheckFails(s, f)
       PROVE  CleanSent'
  BY <1>3, <1>13 DEF NothingToMove, ChunkNotZst, CheckFails
<1>14. ASSUME Crash PROVE CleanSent'
  BY <1>3, <1>14 DEF Crash
<1> QED
  BY <1>4, <1>5, <1>6, <1>8, <1>9, <1>11, <1>12, <1>13, <1>14 DEF Next, Message, Work

-----------------------------------------------------------------------------
(* The inductive invariant: what each session that finishes has in hand    *)
(* and behind it.                                                          *)
THEOREM UploadInductive == Spec => []UploadInv
<1>1. Init => UploadInv
  BY UploadInit
<1>2. UploadInv /\ [Next]_vars => UploadInv'
  BY TypeStep, PlacesStep, ApartStep, FilesStep, ImagesStep, CleanStep DEF UploadInv
<1> QED BY <1>1, <1>2, PTL DEF Spec

(* Type correctness of upload_software.                                    *)
THEOREM TypeCorrect == Spec => []TypeOK
<1>1. UploadInv => TypeOK
  BY DEF UploadInv
<1> QED BY <1>1, UploadInductive, PTL

(* The unwrap of File::open in download_software: a published item keeps   *)
(* its files, for any sessions, panics and crashes.                        *)
THEOREM FilesStay == Spec => []PublishedHasFiles
<1>1. UploadInv => PublishedHasFiles
  BY DEF UploadInv, Places, Present, PublishedHasFiles
<1> QED BY <1>1, UploadInductive, PTL

(* What upload_software publishes is what the creator sent, unless two     *)
(* sessions or a restart met on a file, or an image was left unfinished.   *)
THEOREM UploadsIntact == Spec => []PublishedIntact
<1>1. UploadInv => PublishedIntact
  <2> SUFFICES ASSUME UploadInv, NEW i \in published
               PROVE  ImageIntact(ImageOf[i]) /\ \A f \in FilesOf[i] : FileIntact(f)
    BY DEF PublishedIntact
  <2>1. ImageOf[i] \in Images
    BY UploadAssumption DEF UploadInv, TypeOK
  <2> QED BY <2>1 DEF UploadInv, FilesWhole, ImagesWhole
<1> QED BY <1>1, UploadInductive, PTL

(* A client whose upload found no leftovers and met no other one has its   *)
(* files taken: the hash check that would abort the server passes.         *)
THEOREM CleanUploads == Spec => []CleanUploadPasses
<1>1. UploadInv => CleanUploadPasses
  <2> SUFFICES ASSUME UploadInv, NEW s \in Sessions, NEW f \in session[s].clean \ shared,
                      Checks(s, f)
               PROVE  cached[f] = Chunks[f]
    BY DEF CleanUploadPasses
  <2>1. session[s].pc = "check" /\ f \in session[s].todo /\ Open(s)
    BY DEF Checks, Open
  <2>2. SentOf(s) /\ CleanOf(s) /\ f \in Files
    BY <2>1, OpenTyped DEF UploadInv, CleanSent, CleanAt, Open
  <2>3. Sent(s, f) = Chunks[f]
    BY <2>1, <2>2 DEF SentOf, CleanOf
  <2>4. cached[f] = IF Sent(s, f) = 0 THEN Absent ELSE Sent(s, f)
    BY <2>1, <2>2 DEF CleanOf, Moves
  <2> QED BY <2>2, <2>3, <2>4, UploadAssumption
<1> QED BY <1>1, UploadInductive, PTL
=============================================================================
