------------------------------ MODULE Logging ------------------------------
(***************************************************************************)
(* logging_service: tasks send a line to a bounded channel and wait while  *)
(* it is full; the collector, the loop at the end of logging_service,      *)
(* appends each line to a String under a Mutex and, when the String is     *)
(* long, asks the writer, the spawned task, to write at once; the writer   *)
(* writes the String to the file whenever it is asked or 90 s have passed. *)
(*                                                                         *)
(* A String is the sequence of its lines and its length in bytes.  The     *)
(* file is a tokio::fs::File, which copies a chunk and has a blocking      *)
(* thread write it: write_all returns when the last chunk has been copied, *)
(* and an error of the disk is the result of the next write.               *)
(***************************************************************************)
EXTENDS Integers, FiniteSets, Sequences, SequencesExt

CONSTANTS
  Tasks,            \* everything that logs, one line at a time
  Handlers,         \* those that end when the client goes away
  Capacity,         \* of the channel: 200
  Threshold,        \* length of the String above which it is written: 65000
  Sizes,            \* lengths of lines
  MaxSize,          \* the longest line
  MaxLines          \* bound: lines per task

ASSUME LoggingAssumption ==
  /\ Handlers \subseteq Tasks
  /\ Capacity \in Nat \ {0} /\ Threshold \in Nat /\ MaxSize \in Nat
  /\ Sizes \subseteq 1..MaxSize
  /\ MaxLines \in Nat

VARIABLES
  sent,             \* how many lines each task has begun to send
  waiting,          \* sends that wait for a permit of the channel, in order
  granted,          \* sends that have a permit and have not pushed yet
  log_ev,           \* the channel
  collector,        \* the loop over log_ev, and the line it holds
  logs_to_write,    \* the String: its lines
  len,              \*             its length
  lockQueue,        \* the Mutex: the holder, then the one that waits
  force_write,      \* the channel of capacity 1 has a message
  writer,           \* the spawned task, and what write_all has left to copy
  chunk,            \* what the blocking thread is writing
  disk,             \* "failed": its last write ended with an error
  file

senders  == <<sent, waiting, granted>>
buffer   == <<logs_to_write, len>>
device   == <<chunk, disk, file>>
vars == <<senders, log_ev, collector, buffer, lockQueue, force_write, writer, device>>

Lines == Tasks \X (1..MaxLines)

TypeOK ==
  /\ sent \in [Tasks -> 0..MaxLines]
  /\ waiting \in Seq(Lines) /\ granted \subseteq Lines
  /\ log_ev \in Seq(Lines)
  /\ collector \in [pc: {"recv", "lock", "force"}, held: Seq(Lines)]
  /\ logs_to_write \in Seq(Lines) /\ len \in Nat
  /\ lockQueue \in Seq({"collector", "writer"})
  /\ force_write \in BOOLEAN
  /\ writer \in [pc: {"poll", "select", "woken", "lock", "write"}, buf: Seq(Lines)]
  /\ chunk \in Seq(Lines) /\ disk \in {"ok", "failed"} /\ file \in Seq(Lines)

Init ==
  /\ sent = [t \in Tasks |-> 0] /\ waiting = <<>> /\ granted = {}
  /\ log_ev = <<>>
  /\ collector = [pc |-> "recv", held |-> <<>>]
  /\ logs_to_write = <<>> /\ len = 0
  /\ lockQueue = <<>> /\ force_write = FALSE
  /\ writer = [pc |-> "poll", buf |-> <<>>]
  /\ chunk = <<>> /\ disk = "ok" /\ file = <<>>

-----------------------------------------------------------------------------
(* Log::send.  A permit of the channel goes to the send that has waited    *)
(* longest; one that has a permit pushes when its task runs.               *)

Waits(l) == \E i \in DOMAIN waiting : waiting[i] = l
Sending(l) == Waits(l) \/ l \in granted

Send(t) ==
  /\ sent[t] < MaxLines /\ \A l \in Lines : l[1] = t => ~ Sending(l)
  /\ sent' = [sent EXCEPT ![t] = @ + 1]
  /\ waiting' = Append(waiting, <<t, sent[t] + 1>>)
  /\ UNCHANGED <<granted, log_ev, collector, buffer, lockQueue, force_write,
                 writer, device>>

Grant ==
  /\ waiting # <<>>
  /\ Len(log_ev) + Cardinality(granted) < Capacity
  /\ granted' = granted \cup {Head(waiting)}
  /\ waiting' = Tail(waiting)
  /\ UNCHANGED <<sent, log_ev, collector, buffer, lockQueue, force_write,
                 writer, device>>

Push(l) ==
  /\ l \in granted
  /\ granted' = granted \ {l}
  /\ log_ev' = Append(log_ev, l)
  /\ UNCHANGED <<sent, waiting, collector, buffer, lockQueue, force_write,
                 writer, device>>

(* The connection is closed and the handler dropped: it never pushes.      *)
Cancel(l) ==
  /\ l[1] \in Handlers
  /\ \/ \E i \in DOMAIN waiting :
          waiting[i] = l /\ waiting' = RemoveAt(waiting, i) /\ UNCHANGED granted
     \/ l \in granted /\ granted' = granted \ {l} /\ UNCHANGED waiting
  /\ UNCHANGED <<sent, log_ev, collector, buffer, lockQueue, force_write,
                 writer, device>>

-----------------------------------------------------------------------------
(* The loop at the end of logging_service.                                 *)

CollectorRecv ==
  /\ collector.pc = "recv" /\ log_ev # <<>>
  /\ collector' = [pc |-> "lock", held |-> <<Head(log_ev)>>]
  /\ log_ev' = Tail(log_ev)
  /\ lockQueue' = Append(lockQueue, "collector")
  /\ UNCHANGED <<senders, buffer, force_write, writer, device>>

(* Mutant: the guard is not dropped when the String is long.               *)
CollectorPushKeeps(size) ==
  /\ collector.pc = "lock"
  /\ lockQueue # <<>> /\ Head(lockQueue) = "collector"
  /\ logs_to_write' = logs_to_write \o collector.held
  /\ len' = len + size
  /\ lockQueue' = IF len' > Threshold THEN lockQueue ELSE Tail(lockQueue)
  /\ collector' = [pc |-> IF len' > Threshold THEN "force" ELSE "recv",
                   held |-> <<>>]
  /\ UNCHANGED <<senders, log_ev, force_write, writer, device>>

(* The guard is dropped before force_write_sender.send.                    *)
CollectorPush(size) ==
  /\ collector.pc = "lock"
  /\ lockQueue # <<>> /\ Head(lockQueue) = "collector"
  /\ logs_to_write' = logs_to_write \o collector.held
  /\ len' = len + size
  /\ lockQueue' = Tail(lockQueue)
  /\ collector' = [pc |-> IF len' > Threshold THEN "force" ELSE "recv",
                   held |-> <<>>]
  /\ UNCHANGED <<senders, log_ev, force_write, writer, device>>

(* Mutant: try_send, which does not wait for a place.                      *)
CollectorForceTries ==
  /\ collector.pc = "force"
  /\ force_write' = TRUE
  /\ collector' = [collector EXCEPT !.pc = "recv"]
  /\ UNCHANGED <<senders, log_ev, buffer, lockQueue, writer, device>>

CollectorForce ==
  /\ collector.pc = "force" /\ ~ force_write
  /\ force_write' = TRUE
  /\ collector' = [collector EXCEPT !.pc = "recv"]
  /\ UNCHANGED <<senders, log_ev, buffer, lockQueue, writer, device>>

Collector ==
  \/ CollectorRecv \/ CollectorForce \/ \E size \in Sizes : CollectorPush(size)

-----------------------------------------------------------------------------
(* The spawned task.                                                       *)

(* select! looks at the channel first; the sleep has only begun.           *)
WriterPoll ==
  /\ writer.pc = "poll"
  /\ writer' = [writer EXCEPT !.pc = IF force_write THEN "woken" ELSE "select"]
  /\ force_write' = FALSE
  /\ UNCHANGED <<senders, log_ev, collector, buffer, lockQueue, device>>

(* Mutant: no sleep, the String is written when it is long only.           *)
WriterWakeAsked ==
  /\ writer.pc = "select" /\ force_write
  /\ writer' = [writer EXCEPT !.pc = "woken"]
  /\ force_write' = FALSE
  /\ UNCHANGED <<senders, log_ev, collector, buffer, lockQueue, device>>

(* A message, or the end of the sleep, which leaves a message where it is. *)
WriterWake ==
  /\ writer.pc = "select"
  /\ writer' = [writer EXCEPT !.pc = "woken"]
  /\ force_write' \in {FALSE, force_write}
  /\ UNCHANGED <<senders, log_ev, collector, buffer, lockQueue, device>>

WriterAsk ==
  /\ writer.pc = "woken"
  /\ writer' = [writer EXCEPT !.pc = "lock"]
  /\ lockQueue' = Append(lockQueue, "writer")
  /\ UNCHANGED <<senders, log_ev, collector, buffer, force_write, device>>

(* Mutant: try_lock, whatever it returns.                                  *)
WriterLockTries ==
  /\ writer.pc = "lock"
  /\ writer' = [pc |-> "write", buf |-> logs_to_write]
  /\ UNCHANGED <<senders, log_ev, collector, buffer, lockQueue, force_write,
                 device>>

WriterLock ==
  /\ writer.pc = "lock"
  /\ lockQueue # <<>> /\ Head(lockQueue) = "writer"
  /\ writer' = [pc |-> "write", buf |-> logs_to_write]
  /\ UNCHANGED <<senders, log_ev, collector, buffer, lockQueue, force_write,
                 device>>

(* Mutant: write instead of write_all.                                     *)
WriterCopyOnce ==
  /\ writer.pc = "write" /\ writer.buf # <<>>
  /\ chunk = <<>> /\ disk = "ok"
  /\ \E n \in 1..Len(writer.buf) :
       /\ chunk' = SubSeq(writer.buf, 1, n)
       /\ writer' = [writer EXCEPT !.buf = <<>>]
  /\ UNCHANGED <<senders, log_ev, collector, buffer, lockQueue, force_write,
                 disk, file>>

(* write_all, one chunk: the one before has been written.                  *)
WriterCopy ==
  /\ writer.pc = "write" /\ writer.buf # <<>>
  /\ chunk = <<>> /\ disk = "ok"
  /\ \E n \in 1..Len(writer.buf) :
       /\ chunk' = SubSeq(writer.buf, 1, n)
       /\ writer' = [writer EXCEPT !.buf = SubSeq(writer.buf, n + 1, Len(writer.buf))]
  /\ UNCHANGED <<senders, log_ev, collector, buffer, lockQueue, force_write,
                 disk, file>>

WriterClear ==
  /\ writer.pc = "write" /\ writer.buf = <<>>
  /\ writer' = [writer EXCEPT !.pc = "poll"]
  /\ logs_to_write' = <<>> /\ len' = 0
  /\ lockQueue' = Tail(lockQueue)
  /\ UNCHANGED <<senders, log_ev, collector, force_write, device>>

(* Everything in memory is gone; the file is opened for appending.         *)
Restart ==
  /\ waiting' = <<>> /\ granted' = {} /\ log_ev' = <<>>
  /\ collector' = [pc |-> "recv", held |-> <<>>]
  /\ logs_to_write' = <<>> /\ len' = 0
  /\ lockQueue' = <<>> /\ force_write' = FALSE
  /\ writer' = [pc |-> "poll", buf |-> <<>>]
  /\ chunk' = <<>> /\ disk' = "ok"
  /\ UNCHANGED <<sent, file>>

WriterPanics ==                            \* write_all(..).unwrap()
  /\ writer.pc = "write" /\ writer.buf # <<>> /\ disk = "failed"
  /\ Restart

Writer ==
  \/ WriterPoll \/ WriterWake \/ WriterAsk \/ WriterLock
  \/ WriterCopy \/ WriterClear \/ WriterPanics

-----------------------------------------------------------------------------
(* The blocking thread.  What a failed write had left of its chunk stays   *)
(* in chunk until the next write reports the error.                        *)

DiskWrites ==
  /\ chunk # <<>> /\ disk = "ok"
  /\ file' = Append(file, Head(chunk))
  /\ chunk' = Tail(chunk)
  /\ UNCHANGED <<senders, log_ev, collector, buffer, lockQueue, force_write,
                 writer, disk>>

DiskFails ==
  /\ chunk # <<>> /\ disk = "ok"
  /\ disk' = "failed"
  /\ UNCHANGED <<senders, log_ev, collector, buffer, lockQueue, force_write,
                 writer, chunk, file>>

Next ==
  \/ \E t \in Tasks : Send(t)
  \/ \E l \in Lines : Push(l) \/ Cancel(l)
  \/ Grant \/ Collector \/ Writer
  \/ DiskWrites \/ DiskFails
  \/ Restart

Spec == Init /\ [][Next]_vars

(* tokio runs what can run, the sleep of the writer ends, and a write that *)
(* has begun ends, well or not.                                            *)
Fairness ==
  /\ WF_vars(Grant) /\ \A l \in Lines : WF_vars(Push(l))
  /\ WF_vars(Collector) /\ WF_vars(Writer)
  /\ WF_vars(DiskWrites \/ DiskFails)

FairSpec == Spec /\ Fairness

-----------------------------------------------------------------------------
(* Properties.                                                             *)

(* The writer is past select!, and will empty the String.                  *)
Awake == writer.pc \notin {"poll", "select"}

(* The String is at most three lines longer than the length at which it is *)
(* written, however slow the disk: one line that crosses it, one pushed    *)
(* while the message waits, one while the writer waits for the lock.       *)
BufferBounded == len <= Threshold + 3 * MaxSize

(* Why: what has been pushed past the threshold, and what the collector    *)
(* and the writer are then at.                                             *)
Overfull ==
  /\ len > Threshold => collector.pc = "force" \/ force_write \/ Awake
  /\ len > Threshold + MaxSize =>
       \/ collector.pc = "force" /\ (force_write \/ Awake)
       \/ force_write /\ Awake
  /\ len > Threshold + 2 * MaxSize =>
       collector.pc = "force" /\ force_write /\ Awake

(* The writer copies under the lock, and holds the whole String.           *)
LockHeld ==
  /\ writer.pc = "write" => lockQueue # <<>> /\ Head(lockQueue) = "writer"
  /\ (collector.held = <<>>) = (collector.pc # "lock")
  /\ writer.pc # "write" => writer.buf = <<>>

(* The inductive invariant.                                                *)
IInv == TypeOK /\ BufferBounded /\ Overfull /\ LockHeld

(* What was accepted and is not in the file, oldest line first.            *)
Unwritten == IF writer.pc = "write" THEN writer.buf ELSE logs_to_write
Pending == chunk \o (Unwritten \o (collector.held \o log_ev))

(* The tasks, the lock and the chunks implement the journal: no line is    *)
(* lost but by a restart, none is doubled, none overtakes another, and the *)
(* file has no gap even after a failed write.                              *)
J == INSTANCE Journal WITH pending <- Pending, file <- file
ImplementsJournal == J!Spec

(* A line that was accepted reaches the file or is lost in a restart,      *)
(* unless the disk has failed: the last write before a quiet time fails    *)
(* and nobody is told.                                                     *)
LinesArrive ==
  \A l \in Lines :
    (\E i \in DOMAIN Pending : Pending[i] = l)
      ~> (disk = "failed" \/ ~ \E i \in DOMAIN Pending : Pending[i] = l)

(* The tasks that wait on a full channel get on: no cycle of waiting goes  *)
(* through the Mutex, the two channels and the disk.                       *)
SendersServed == \A l \in Lines : Sending(l) ~> ~ Sending(l)

=============================================================================
