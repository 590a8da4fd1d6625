--------------------------- MODULE LoggingProofs ---------------------------
(***************************************************************************)
(* Proofs about the log, for any number of tasks and lines, any capacity   *)
(* of the channel and any threshold: the bound on the String, with the     *)
(* inductive invariant behind it, and the refinement of Journal.           *)
(***************************************************************************)
EXTENDS Logging, SequenceTheorems, TLAPS

-----------------------------------------------------------------------------
(* Sequences.                                                              *)

(* A sequence stays one when an element is removed.                        *)
LEMMA RemoveAtType ==
  ASSUME NEW S, NEW s \in Seq(S), NEW i \in 1..Len(s)
  PROVE  RemoveAt(s, i) \in Seq(S)
<1>1. Len(s) \in Nat /\ (\A k \in 1..Len(s) : s[k] \in S)
  BY LenProperties, ElementOfSeq
<1>2. SubSeq(s, 1, i - 1) \in Seq(S)
  <2>1. 1 \in Int /\ i - 1 \in Int /\ (\A k \in 1..(i - 1) : s[k] \in S)
    BY <1>1
  <2> QED BY <2>1, SubSeqProperties
<1>3. SubSeq(s, i + 1, Len(s)) \in Seq(S)
  <2>1. i + 1 \in Int /\ Len(s) \in Int /\ (\A k \in (i + 1)..Len(s) : s[k] \in S)
    BY <1>1
  <2> QED BY <2>1, SubSeqProperties
<1> QED BY <1>2, <1>3, ConcatProperties DEF RemoveAt

(* A sequence that is not empty is its head followed by its tail.          *)
LEMMA HeadThenTail ==
  ASSUME NEW S, NEW s \in Seq(S), s # <<>>
  PROVE  /\ Head(s) \in S /\ Tail(s) \in Seq(S)
         /\ <<Head(s)>> \o Tail(s) = s
<1>1. /\ Head(s) \in S /\ Tail(s) \in Seq(S) /\ Len(Tail(s)) = Len(s) - 1
      /\ \A i \in 1..Len(Tail(s)) : Tail(s)[i] = s[i + 1]
  BY HeadTailProperties
<1>2. Len(s) \in Nat /\ Len(s) > 0
  BY EmptySeq, LenProperties
<1>3. s[1] = Head(s) /\ 1 \in 1..Len(s)
  BY <1>2
<1>4. <<Head(s)>> \o Tail(s) = s
  <2>1. <<Head(s)>> \in Seq(S) /\ Len(<<Head(s)>>) = 1 /\ <<Head(s)>>[1] = Head(s)
    BY <1>1
  <2>2. /\ <<Head(s)>> \o Tail(s) \in Seq(S)
        /\ Len(<<Head(s)>> \o Tail(s)) = 1 + Len(Tail(s))
        /\ \A j \in 1..(1 + Len(Tail(s))) :
             (<<Head(s)>> \o Tail(s))[j] =
               IF j <= 1 THEN <<Head(s)>>[j] ELSE Tail(s)[j - 1]
    BY <1>1, <2>1, ConcatProperties
  <2>3. Len(<<Head(s)>> \o Tail(s)) = Len(s)
    BY <1>1, <1>2, <2>2
  <2>4. ASSUME NEW j \in 1..Len(s)
        PROVE  (<<Head(s)>> \o Tail(s))[j] = s[j]
    <3>1. CASE j = 1
      BY <3>1, <2>1, <2>2, <1>1, <1>2, <1>3
    <3>2. CASE j # 1
      <4>1. j - 1 \in 1..Len(Tail(s)) /\ j - 1 + 1 = j
        BY <3>2, <1>1, <1>2
      <4> QED BY <3>2, <4>1, <2>2, <1>1, <1>2
    <3> QED BY <3>1, <3>2
  <2> QED BY <2>2, <2>3, <2>4, SeqEqual
<1> QED BY <1>1, <1>4

-----------------------------------------------------------------------------
(* Types.                                                                  *)

LEMMA SizesNat ==
  ASSUME NEW size \in Sizes
  PROVE  size \in Nat /\ 1 <= size /\ size <= MaxSize
BY LoggingAssumption

(* The next line of a task is one of the lines.                            *)
LEMMA NextLine ==
  ASSUME TypeOK, NEW t \in Tasks, sent[t] < MaxLines
  PROVE  <<t, sent[t] + 1>> \in Lines /\ sent[t] + 1 \in 0..MaxLines
<1>1. sent[t] \in 0..MaxLines /\ MaxLines \in Nat
  BY LoggingAssumption DEF TypeOK
<1> QED BY <1>1 DEF Lines

(* A part of a sequence of lines.                                          *)
LEMMA PartOfLines ==
  ASSUME NEW s \in Seq(Lines), NEW n \in 1..Len(s)
  PROVE  /\ SubSeq(s, 1, n) \in Seq(Lines)
         /\ SubSeq(s, n + 1, Len(s)) \in Seq(Lines)
         /\ SubSeq(s, 1, n) \o SubSeq(s, n + 1, Len(s)) = s
<1>1. Len(s) \in Nat /\ (\A i \in 1..Len(s) : s[i] \in Lines)
  BY LenProperties, ElementOfSeq
<1>2. SubSeq(s, 1, n) \in Seq(Lines)
  <2>1. 1 \in Int /\ n \in Int /\ (\A i \in 1..n : s[i] \in Lines)
    BY <1>1
  <2> QED BY <2>1, SubSeqProperties
<1>3. SubSeq(s, n + 1, Len(s)) \in Seq(Lines)
  <2>1. n + 1 \in Int /\ Len(s) \in Int
        /\ (\A i \in (n + 1)..Len(s) : s[i] \in Lines)
    BY <1>1
  <2> QED BY <2>1, SubSeqProperties
<1>4. SubSeq(s, 1, n) \o SubSeq(s, n + 1, Len(s)) = SubSeq(s, 1, Len(s))
  <2>1. 1 \in 1..(Len(s) + 1) /\ n \in (1 - 1)..Len(s) /\ Len(s) \in n..Len(s)
    BY <1>1
  <2> QED BY <2>1, ConcatAdjacentSubSeq
<1> QED BY <1>2, <1>3, <1>4, SubSeqFull

(* Each step keeps every variable in its type.                             *)
LEMMA TypeStep ==
  ASSUME TypeOK, LockHeld, [Next]_vars
  PROVE  TypeOK'
<1> USE DEF senders, buffer, device
<1>0. <<>> \in Seq(Lines) /\ <<>> \in Seq({"collector", "writer"})
  BY EmptySeq
<1>1. ASSUME NEW t \in Tasks, Send(t) PROVE TypeOK'
  <2>1. <<t, sent[t] + 1>> \in Lines /\ sent[t] + 1 \in 0..MaxLines
    BY <1>1, NextLine DEF Send
  <2>2. waiting' \in Seq(Lines)
    BY <1>1, <2>1, AppendProperties DEF Send, TypeOK
  <2>3. sent' \in [Tasks -> 0..MaxLines]
    BY <1>1, <2>1 DEF Send, TypeOK
  <2> QED BY <1>1, <2>2, <2>3 DEF Send, TypeOK
<1>2. CASE Grant
  <2>1. Head(waiting) \in Lines /\ Tail(waiting) \in Seq(Lines)
    BY <1>2, HeadTailProperties DEF Grant, TypeOK
  <2> QED BY <1>2, <2>1 DEF Grant, TypeOK
<1>3. ASSUME NEW l \in Lines, Push(l) PROVE TypeOK'
  <2>1. log_ev' \in Seq(Lines)
    BY <1>3, AppendProperties DEF Push, TypeOK
  <2> QED BY <1>3, <2>1 DEF Push, TypeOK
<1>4. ASSUME NEW l \in Lines, Cancel(l) PROVE TypeOK'
  <2>1. waiting' \in Seq(Lines)
    <3>1. CASE waiting' = waiting
      BY <3>1 DEF TypeOK
    <3>2. CASE \E i \in DOMAIN waiting : waiting' = RemoveAt(waiting, i)
      <4>1. DOMAIN waiting = 1..Len(waiting)
        BY LenProperties DEF TypeOK
      <4>2. PICK i \in 1..Len(waiting) : waiting' = RemoveAt(waiting, i)
        BY <3>2, <4>1
      <4> QED BY <4>2, RemoveAtType DEF TypeOK
    <3> QED BY <1>4, <3>1, <3>2 DEF Cancel
  <2>2. granted' \subseteq Lines
    BY <1>4 DEF Cancel, TypeOK
  <2> QED BY <1>4, <2>1, <2>2 DEF Cancel, TypeOK
<1>5. CASE CollectorRecv
  <2>1. Head(log_ev) \in Lines /\ Tail(log_ev) \in Seq(Lines)
    BY <1>5, HeadTailProperties DEF CollectorRecv, TypeOK
  <2>2. lockQueue' \in Seq({"collector", "writer"})
    BY <1>5, AppendProperties DEF CollectorRecv, TypeOK
  <2>3. <<Head(log_ev)>> \in Seq(Lines)
    BY <2>1
  <2> QED BY <1>5, <2>1, <2>2, <2>3 DEF CollectorRecv, TypeOK
<1>6. ASSUME NEW size \in Sizes, CollectorPush(size) PROVE TypeOK'
  <2>1. logs_to_write' \in Seq(Lines)
    BY <1>6, ConcatProperties DEF CollectorPush, TypeOK
  <2>2. len' \in Nat
    BY <1>6, SizesNat DEF CollectorPush, TypeOK
  <2>3. lockQueue' \in Seq({"collector", "writer"})
    BY <1>6, HeadTailProperties DEF CollectorPush, TypeOK
  <2> QED BY <1>0, <1>6, <2>1, <2>2, <2>3 DEF CollectorPush, TypeOK
<1>7. CASE CollectorForce
  BY <1>7 DEF CollectorForce, TypeOK
<1>8. CASE WriterPoll \/ WriterWake
  BY <1>8 DEF WriterPoll, WriterWake, TypeOK
<1>9. CASE WriterAsk
  <2>1. lockQueue' \in Seq({"collector", "writer"})
    BY <1>9, AppendProperties DEF WriterAsk, TypeOK
  <2> QED BY <1>9, <2>1 DEF WriterAsk, TypeOK
<1>10. CASE WriterLock
  BY <1>10 DEF WriterLock, TypeOK
<1>11. CASE WriterCopy
  <2>1. writer.buf \in Seq(Lines)
    BY DEF TypeOK
  <2>2. PICK n \in 1..Len(writer.buf) :
          /\ chunk' = SubSeq(writer.buf, 1, n)
          /\ writer' = [writer EXCEPT !.buf = SubSeq(writer.buf, n + 1, Len(writer.buf))]
    BY <1>11 DEF WriterCopy
  <2>3. /\ SubSeq(writer.buf, 1, n) \in Seq(Lines)
        /\ SubSeq(writer.buf, n + 1, Len(writer.buf)) \in Seq(Lines)
    BY <2>1, PartOfLines
  <2> QED BY <1>11, <2>2, <2>3 DEF WriterCopy, TypeOK
<1>12. CASE WriterClear
  <2>1. lockQueue # <<>>
    BY <1>12 DEF WriterClear, LockHeld
  <2>2. lockQueue' \in Seq({"collector", "writer"})
    BY <1>12, <2>1, HeadTailProperties DEF WriterClear, TypeOK
  <2> QED BY <1>0, <1>12, <2>2 DEF WriterClear, TypeOK
<1>13. CASE Restart \/ WriterPanics
  <2>1. Restart
    BY <1>13 DEF WriterPanics
  <2>2. /\ sent' \in [Tasks -> 0..MaxLines] /\ file' \in Seq(Lines)
        /\ waiting' \in Seq(Lines) /\ granted' \subseteq Lines
        /\ log_ev' \in Seq(Lines) /\ logs_to_write' \in Seq(Lines) /\ len' \in Nat
    BY <1>0, <2>1 DEF Restart, TypeOK
  <2>3. collector' \in [pc: {"recv", "lock", "force"}, held: Seq(Lines)]
    BY <1>0, <2>1 DEF Restart
  <2>4. writer' \in [pc: {"poll", "select", "woken", "lock", "write"}, buf: Seq(Lines)]
    BY <1>0, <2>1 DEF Restart
  <2>5. /\ lockQueue' \in Seq({"collector", "writer"}) /\ force_write' \in BOOLEAN
        /\ chunk' \in Seq(Lines) /\ disk' \in {"ok", "failed"}
    BY <1>0, <2>1 DEF Restart
  <2> QED BY <2>2, <2>3, <2>4, <2>5 DEF TypeOK
<1>14. CASE DiskWrites
  <2>1. Head(chunk) \in Lines /\ Tail(chunk) \in Seq(Lines)
    BY <1>14, HeadTailProperties DEF DiskWrites, TypeOK
  <2>2. file' \in Seq(Lines)
    BY <1>14, <2>1, AppendProperties DEF DiskWrites, TypeOK
  <2> QED BY <1>14, <2>1, <2>2 DEF DiskWrites, TypeOK
<1>15. CASE DiskFails \/ UNCHANGED vars
  BY <1>15 DEF DiskFails, vars, TypeOK
<1> QED
  BY <1>1, <1>2, <1>3, <1>4, <1>5, <1>6, <1>7, <1>8, <1>9, <1>10, <1>11,
     <1>12, <1>13, <1>14, <1>15
  DEF Next, Collector, Writer

-----------------------------------------------------------------------------
(* The lock.                                                               *)

(* Who asks for the lock queues behind its holder, and nobody but the      *)
(* holder leaves.                                                          *)
LEMMA LockStep ==
  ASSUME TypeOK, LockHeld, [Next]_vars
  PROVE  LockHeld'
<1> USE DEF senders, buffer, device
<1>1. CASE CollectorRecv
  <2>1. collector' = [pc |-> "lock", held |-> <<Head(log_ev)>>]
    BY <1>1 DEF CollectorRecv
  <2>2. collector'.pc = "lock" /\ collector'.held # <<>>
    BY <2>1
  <2>3. lockQueue # <<>> => lockQueue' # <<>> /\ Head(lockQueue') = Head(lockQueue)
    <3> SUFFICES ASSUME lockQueue # <<>>
                 PROVE  lockQueue' # <<>> /\ Head(lockQueue') = Head(lockQueue)
      OBVIOUS
    <3>1. lockQueue \in Seq({"collector", "writer"})
      BY DEF TypeOK
    <3>2. Head(Append(lockQueue, "collector")) = Head(lockQueue)
      BY <3>1, HeadTailAppend
    <3>3. Append(lockQueue, "collector") # <<>>
      BY <3>1, AppendProperties
    <3> QED BY <1>1, <3>2, <3>3 DEF CollectorRecv
  <2> QED BY <1>1, <2>2, <2>3 DEF CollectorRecv, LockHeld
<1>2. ASSUME NEW size \in Sizes, CollectorPush(size) PROVE LockHeld'
  <2>1. writer.pc # "write"
    BY <1>2 DEF CollectorPush, LockHeld
  <2>2. collector'.held = <<>> /\ collector'.pc # "lock"
    BY <1>2 DEF CollectorPush
  <2> QED BY <1>2, <2>1, <2>2 DEF CollectorPush, LockHeld
<1>3. CASE CollectorForce
  BY <1>3 DEF CollectorForce, LockHeld, TypeOK
<1>4. CASE WriterPoll \/ WriterWake
  BY <1>4 DEF WriterPoll, WriterWake, LockHeld, TypeOK
<1>5. CASE WriterAsk
  BY <1>5 DEF WriterAsk, LockHeld, TypeOK
<1>6. CASE WriterLock
  BY <1>6 DEF WriterLock, LockHeld
<1>7. CASE WriterCopy
  <2>1. writer'.pc = "write"
    BY <1>7 DEF WriterCopy, TypeOK
  <2> QED BY <1>7, <2>1 DEF WriterCopy, LockHeld
<1>8. CASE WriterClear
  <2>1. writer'.pc = "poll" /\ writer'.buf = <<>>
    BY <1>8 DEF WriterClear, TypeOK
  <2> QED BY <1>8, <2>1 DEF WriterClear, LockHeld
<1>9. CASE Restart \/ WriterPanics
  BY <1>9 DEF Restart, WriterPanics, LockHeld
<1>10. CASE \/ \E t \in Tasks : Send(t)
            \/ \E l \in Lines : Push(l) \/ Cancel(l)
            \/ Grant \/ DiskWrites \/ DiskFails \/ UNCHANGED vars
  BY <1>10 DEF Send, Push, Cancel, Grant, DiskWrites, DiskFails, vars, LockHeld
<1> QED
  BY <1>1, <1>2, <1>3, <1>4, <1>5, <1>6, <1>7, <1>8, <1>9, <1>10
  DEF Next, Collector, Writer

-----------------------------------------------------------------------------
(* The length of the String.                                               *)

(* Each push past the threshold stops the collector until its message is   *)
(* taken, and a writer that has taken one will empty the String.           *)
LEMMA OverfullStep ==
  ASSUME TypeOK, Overfull, LockHeld, [Next]_vars
  PROVE  Overfull'
<1> USE DEF senders, buffer, device
<1>0. len \in Nat /\ Threshold \in Nat /\ MaxSize \in Nat
  BY LoggingAssumption DEF TypeOK
<1>1. ASSUME NEW size \in Sizes, CollectorPush(size) PROVE Overfull'
  <2>1. /\ collector.pc = "lock" /\ len' = len + size
        /\ collector'.pc = IF len' > Threshold THEN "force" ELSE "recv"
        /\ UNCHANGED <<force_write, writer>>
    BY <1>1 DEF CollectorPush
  <2>2. size \in Nat /\ 1 <= size /\ size <= MaxSize
    BY SizesNat
  <2>3. /\ len <= Threshold + 2 * MaxSize
        /\ len > Threshold => force_write \/ Awake
        /\ len > Threshold + MaxSize => force_write /\ Awake
    BY <1>0, <2>1 DEF Overfull
  <2>4. Awake' = Awake
    BY <2>1 DEF Awake
  <2>5. len' > Threshold + MaxSize => len > Threshold
    BY <1>0, <2>1, <2>2
  <2>6. len' > Threshold + 2 * MaxSize => len > Threshold + MaxSize
    BY <1>0, <2>1, <2>2
  <2>7. len' > Threshold => collector'.pc = "force"
    BY <2>1
  <2>8. len' > Threshold + MaxSize => len' > Threshold
    BY <1>0, <2>1, <2>2
  <2>9. len' > Threshold + 2 * MaxSize => len' > Threshold
    BY <1>0, <2>1, <2>2
  <2> QED BY <2>1, <2>3, <2>4, <2>5, <2>6, <2>7, <2>8, <2>9 DEF Overfull
<1>2. CASE CollectorRecv
  BY <1>2 DEF CollectorRecv, Overfull, Awake
<1>3. CASE CollectorForce
  <2>1. ~ force_write /\ force_write' /\ UNCHANGED <<len, writer>>
    BY <1>3 DEF CollectorForce
  <2>2. len <= Threshold + 2 * MaxSize
    BY <1>0, <2>1 DEF Overfull
  <2>3. len > Threshold + MaxSize => Awake
    BY <2>1 DEF Overfull
  <2> QED BY <1>0, <2>1, <2>2, <2>3 DEF Overfull, Awake
<1>4. CASE WriterPoll \/ WriterWake
  <2>1. writer.pc \in {"poll", "select"} /\ UNCHANGED <<len, collector>>
    BY <1>4 DEF WriterPoll, WriterWake
  <2>2. ~ Awake
    BY <2>1 DEF Awake
  <2>3. /\ len <= Threshold + 2 * MaxSize
        /\ len > Threshold + MaxSize => collector.pc = "force" /\ force_write
        /\ len > Threshold => collector.pc = "force" \/ force_write
    BY <1>0, <2>2 DEF Overfull
  <2>4. Awake' \/ (~ force_write /\ ~ force_write')
    BY <1>4 DEF WriterPoll, WriterWake, Awake, TypeOK
  <2> QED BY <1>0, <2>1, <2>3, <2>4 DEF Overfull
<1>5. CASE WriterAsk \/ WriterLock \/ WriterCopy
  <2>1. Awake'
    <3>1. CASE WriterAsk
      BY <3>1 DEF WriterAsk, Awake, TypeOK
    <3>2. CASE WriterLock
      BY <3>2 DEF WriterLock, Awake
    <3>3. CASE WriterCopy
      <4>1. writer'.pc = writer.pc /\ writer.pc = "write"
        BY <3>3 DEF WriterCopy, TypeOK
      <4> QED BY <4>1 DEF Awake
    <3> QED BY <1>5, <3>1, <3>2, <3>3
  <2>2. UNCHANGED <<len, collector, force_write>>
    BY <1>5 DEF WriterAsk, WriterLock, WriterCopy
  <2>3. Awake
    BY <1>5 DEF WriterAsk, WriterLock, WriterCopy, Awake
  <2> QED BY <2>1, <2>2, <2>3 DEF Overfull
<1>6. CASE WriterClear \/ Restart \/ WriterPanics
  <2>1. len' = 0
    BY <1>6 DEF WriterClear, Restart, WriterPanics
  <2> QED BY <1>0, <2>1 DEF Overfull
<1>7. CASE \/ \E t \in Tasks : Send(t)
           \/ \E l \in Lines : Push(l) \/ Cancel(l)
           \/ Grant \/ DiskWrites \/ DiskFails \/ UNCHANGED vars
  BY <1>7
  DEF Send, Push, Cancel, Grant, DiskWrites, DiskFails, vars, Overfull, Awake
<1> QED
  BY <1>1, <1>2, <1>3, <1>4, <1>5, <1>6, <1>7 DEF Next, Collector, Writer

(* What the bound says is part of Overfull but for the last line pushed:   *)
(* that the three of them are under way leaves room for no further one.    *)
LEMMA BoundStep ==
  ASSUME TypeOK, BufferBounded, Overfull, [Next]_vars
  PROVE  BufferBounded'
<1> USE DEF senders, buffer, device
<1>0. len \in Nat /\ Threshold \in Nat /\ MaxSize \in Nat
  BY LoggingAssumption DEF TypeOK
<1>1. ASSUME NEW size \in Sizes, CollectorPush(size) PROVE BufferBounded'
  <2>1. collector.pc = "lock" /\ len' = len + size
    BY <1>1 DEF CollectorPush
  <2>2. size \in Nat /\ size <= MaxSize
    BY SizesNat
  <2>3. len <= Threshold + 2 * MaxSize
    BY <1>0, <2>1 DEF Overfull
  <2> QED BY <1>0, <2>1, <2>2, <2>3 DEF BufferBounded
<1>2. CASE WriterClear \/ Restart \/ WriterPanics
  <2>1. len' = 0
    BY <1>2 DEF WriterClear, Restart, WriterPanics
  <2> QED BY <1>0, <2>1 DEF BufferBounded
<1>3. CASE \/ \E t \in Tasks : Send(t)
           \/ \E l \in Lines : Push(l) \/ Cancel(l)
           \/ Grant \/ DiskWrites \/ DiskFails \/ UNCHANGED vars
           \/ CollectorRecv \/ CollectorForce
           \/ WriterPoll \/ WriterWake \/ WriterAsk \/ WriterLock \/ WriterCopy
  <2>1. len' = len
    BY <1>3
    DEF Send, Push, Cancel, Grant, DiskWrites, DiskFails, vars, CollectorRecv,
        CollectorForce, WriterPoll, WriterWake, WriterAsk, WriterLock, WriterCopy
  <2> QED BY <2>1 DEF BufferBounded
<1> QED BY <1>1, <1>2, <1>3 DEF Next, Collector, Writer

-----------------------------------------------------------------------------
(* The invariant.                                                          *)

LEMMA InitIInv == Init => IInv
<1> SUFFICES ASSUME Init PROVE IInv
  OBVIOUS
<1>0. /\ <<>> \in Seq(Lines) /\ <<>> \in Seq({"collector", "writer"})
      /\ Threshold \in Nat /\ MaxSize \in Nat /\ MaxLines \in Nat
  BY EmptySeq, LoggingAssumption
<1>1. TypeOK
  <2>1. sent \in [Tasks -> 0..MaxLines] /\ granted \subseteq Lines /\ len \in Nat
    BY <1>0 DEF Init
  <2>2. /\ collector \in [pc: {"recv", "lock", "force"}, held: Seq(Lines)]
        /\ writer \in [pc: {"poll", "select", "woken", "lock", "write"}, buf: Seq(Lines)]
    BY <1>0 DEF Init
  <2> QED BY <1>0, <2>1, <2>2 DEF Init, TypeOK
<1>2. BufferBounded /\ Overfull
  BY <1>0 DEF Init, BufferBounded, Overfull
<1>3. LockHeld
  BY DEF Init, LockHeld
<1> QED BY <1>1, <1>2, <1>3 DEF IInv

(* IInv holds always: the types, the bound, why it holds, and the lock.    *)
THEOREM Inductive == Spec => []IInv
<1>1. IInv /\ [Next]_vars => IInv'
  BY TypeStep, BoundStep, OverfullStep, LockStep DEF IInv
<1> QED BY InitIInv, <1>1, PTL DEF Spec

(* The String never holds more than the threshold and three lines.         *)
THEOREM StringBounded == Spec => []BufferBounded
<1>1. IInv => BufferBounded
  BY DEF IInv
<1> QED BY <1>1, Inductive, PTL

-----------------------------------------------------------------------------
(* The refinement.                                                         *)

(* The four parts of Pending are sequences of lines.                       *)
LEMMA PendingType ==
  ASSUME TypeOK
  PROVE  /\ chunk \in Seq(Lines) /\ Unwritten \in Seq(Lines)
         /\ collector.held \in Seq(Lines) /\ log_ev \in Seq(Lines)
         /\ collector.held \o log_ev \in Seq(Lines)
         /\ Unwritten \o (collector.held \o log_ev) \in Seq(Lines)
         /\ Pending \in Seq(Lines)
<1>1. /\ chunk \in Seq(Lines) /\ Unwritten \in Seq(Lines)
      /\ collector.held \in Seq(Lines) /\ log_ev \in Seq(Lines)
  BY DEF TypeOK, Unwritten
<1>2. collector.held \o log_ev \in Seq(Lines)
  BY <1>1, ConcatProperties
<1>3. Unwritten \o (collector.held \o log_ev) \in Seq(Lines)
  BY <1>1, <1>2, ConcatProperties
<1>4. chunk \o (Unwritten \o (collector.held \o log_ev)) \in Seq(Lines)
  BY <1>1, <1>3, ConcatProperties
<1> QED BY <1>1, <1>2, <1>3, <1>4 DEF Pending

(* Appending to the right part of a concatenation appends to the whole.    *)
LEMMA AppendToRight ==
  ASSUME NEW s \in Seq(Lines), NEW t \in Seq(Lines), NEW l \in Lines
  PROVE  s \o Append(t, l) = Append(s \o t, l)
<1>1. <<l>> \in Seq(Lines) /\ s \o t \in Seq(Lines)
  BY ConcatProperties
<1>2. s \o (t \o <<l>>) = (s \o t) \o <<l>>
  BY <1>1, ConcatAssociative
<1>3. Append(t, l) = t \o <<l>> /\ Append(s \o t, l) = (s \o t) \o <<l>>
  BY <1>1, AppendIsConcat
<1> QED BY <1>2, <1>3

(* A line that enters the channel is the youngest of those pending.        *)
LEMMA PushAccepts ==
  ASSUME TypeOK, NEW l \in Lines, Push(l)
  PROVE  J!Accept(l)
<1>1. Pending' = chunk \o (Unwritten \o (collector.held \o Append(log_ev, l)))
  BY DEF Push, Pending, Unwritten, buffer, device
<1>2. collector.held \o Append(log_ev, l) = Append(collector.held \o log_ev, l)
  BY PendingType, AppendToRight
<1>3. Unwritten \o Append(collector.held \o log_ev, l)
        = Append(Unwritten \o (collector.held \o log_ev), l)
  BY PendingType, AppendToRight
<1>4. chunk \o Append(Unwritten \o (collector.held \o log_ev), l)
        = Append(chunk \o (Unwritten \o (collector.held \o log_ev)), l)
  BY PendingType, AppendToRight
<1>5. Pending' = Append(Pending, l)
  BY <1>1, <1>2, <1>3, <1>4 DEF Pending
<1>6. file' = file
  BY DEF Push, device
<1> QED BY <1>5, <1>6 DEF J!Accept

(* The line the disk writes is the oldest of those pending.                *)
LEMMA DiskWritesWrites ==
  ASSUME TypeOK, DiskWrites
  PROVE  J!Write
<1> DEFINE c == Unwritten \o (collector.held \o log_ev)
<1>1. /\ chunk \in Seq(Lines) /\ chunk # <<>> /\ c \in Seq(Lines)
      /\ Head(chunk) \in Lines /\ Tail(chunk) \in Seq(Lines)
  <2>1. chunk # <<>>
    BY DEF DiskWrites
  <2>2. collector.held \o log_ev \in Seq(Lines)
    BY PendingType, ConcatProperties
  <2> QED BY <2>1, <2>2, PendingType, ConcatProperties, HeadTailProperties
<1>2. Pending = chunk \o c
  BY DEF Pending
<1>3. Pending' = Tail(chunk) \o c
  BY DEF DiskWrites, Pending, Unwritten, buffer
<1> HIDE DEF c
<1>4. <<Head(chunk)>> \o Tail(chunk) = chunk
  BY <1>1, HeadThenTail
<1>5. Pending = <<Head(chunk)>> \o (Tail(chunk) \o c)
  BY <1>1, <1>2, <1>4, ConcatAssociative
<1>6. Tail(chunk) \o c \in Seq(Lines)
  BY <1>1, ConcatProperties
<1>7. Pending # <<>> /\ Head(Pending) = Head(chunk) /\ Tail(Pending) = Pending'
  <2> DEFINE h == Head(chunk)
             r == Tail(chunk) \o c
  <2>1. h \in Lines /\ r \in Seq(Lines) /\ Pending = <<h>> \o r /\ Pending' = r
    BY <1>1, <1>3, <1>5, <1>6
  <2> HIDE DEF h, r
  <2>2. /\ Len(Pending) = 1 + Len(r) /\ Len(r) \in Nat
        /\ \A i \in 1..(1 + Len(r)) :
             Pending[i] = IF i <= 1 THEN <<h>>[i] ELSE r[i - 1]
    <3>1. <<h>> \in Seq(Lines) /\ Len(<<h>>) = 1
      BY <2>1
    <3> QED BY <2>1, <3>1, ConcatProperties, LenProperties
  <2>3. Pending \in Seq(Lines) /\ Pending # <<>>
    BY <2>2, PendingType, EmptySeq
  <2>4. Head(Pending) = h
    <3>1. Pending[1] = h
      BY <2>2
    <3> QED BY <2>3, <3>1
  <2>5. /\ Tail(Pending) \in Seq(Lines) /\ Len(Tail(Pending)) = Len(r)
        /\ \A i \in 1..Len(r) : Tail(Pending)[i] = Pending[i + 1]
    BY <2>2, <2>3, HeadTailProperties
  <2>6. \A i \in 1..Len(r) : Tail(Pending)[i] = r[i]
    <3> SUFFICES ASSUME NEW i \in 1..Len(r) PROVE Tail(Pending)[i] = r[i]
      OBVIOUS
    <3>1. i + 1 \in 1..(1 + Len(r)) /\ ~ (i + 1 <= 1) /\ (i + 1) - 1 = i
      BY <2>2
    <3> QED BY <2>2, <2>5, <3>1
  <2>7. Tail(Pending) = r
    BY <2>1, <2>5, <2>6, SeqEqual
  <2> QED BY <2>1, <2>3, <2>4, <2>7 DEF h
<1>8. file' = Append(file, Head(chunk))
  BY DEF DiskWrites
<1> QED BY <1>7, <1>8 DEF J!Write

(* The steps that only pass lines on.                                      *)
LEMMA HandOver ==
  ASSUME TypeOK, LockHeld,
         \/ CollectorRecv \/ (\E size \in Sizes : CollectorPush(size))
         \/ WriterLock \/ WriterCopy \/ WriterClear
  PROVE  Pending' = Pending /\ file' = file
<1> USE DEF senders, buffer, device
<1>0. <<>> \in Seq(Lines)
  BY EmptySeq
<1>1. CASE CollectorRecv
  <2>1. /\ collector.held = <<>> /\ log_ev # <<>> /\ log_ev \in Seq(Lines)
        /\ UNCHANGED <<chunk, Unwritten, file>>
    BY <1>1 DEF CollectorRecv, LockHeld, TypeOK, Unwritten
  <2>2. collector'.held = <<Head(log_ev)>> /\ log_ev' = Tail(log_ev)
    BY <1>1 DEF CollectorRecv
  <2>3. /\ <<Head(log_ev)>> \in Seq(Lines) /\ Tail(log_ev) \in Seq(Lines)
        /\ <<Head(log_ev)>> \o Tail(log_ev) = log_ev
    BY <2>1, HeadThenTail
  <2>4. <<>> \o log_ev = log_ev
    BY <2>1, ConcatEmptySeq
  <2> QED BY <2>1, <2>2, <2>3, <2>4 DEF Pending
<1>2. ASSUME NEW size \in Sizes, CollectorPush(size)
      PROVE  Pending' = Pending /\ file' = file
  <2>1. writer.pc # "write"
    BY <1>2 DEF CollectorPush, LockHeld
  <2>2. Unwritten = logs_to_write /\ Unwritten' = logs_to_write \o collector.held
    BY <1>2, <2>1 DEF CollectorPush, Unwritten
  <2>3. collector'.held = <<>> /\ UNCHANGED <<chunk, log_ev, file>>
    BY <1>2 DEF CollectorPush
  <2>4. (Unwritten \o collector.held) \o log_ev = Unwritten \o (collector.held \o log_ev)
    <3> DEFINE held == collector.held
    <3>1. /\ Unwritten \in Seq(Lines) /\ held \in Seq(Lines)
          /\ log_ev \in Seq(Lines)
      BY PendingType
    <3> HIDE DEF held
    <3>2. (Unwritten \o held) \o log_ev = Unwritten \o (held \o log_ev)
      BY <3>1, ConcatAssociative
    <3> QED BY <3>2 DEF held
  <2>5. <<>> \o log_ev = log_ev
    BY PendingType, ConcatEmptySeq
  <2> QED BY <2>2, <2>3, <2>4, <2>5 DEF Pending
<1>3. CASE WriterLock
  <2>1. writer.pc = "lock" /\ writer' = [pc |-> "write", buf |-> logs_to_write]
        /\ UNCHANGED <<logs_to_write, chunk, collector, log_ev, file>>
    BY <1>3 DEF WriterLock
  <2>2. Unwritten' = Unwritten
    BY <2>1 DEF Unwritten
  <2> QED BY <2>1, <2>2 DEF Pending
<1>4. CASE WriterCopy
  <2>1. /\ writer.pc = "write" /\ chunk = <<>> /\ writer.buf \in Seq(Lines)
        /\ UNCHANGED <<collector, log_ev, file>>
    BY <1>4 DEF WriterCopy, TypeOK
  <2>2. PICK n \in 1..Len(writer.buf) :
          /\ chunk' = SubSeq(writer.buf, 1, n)
          /\ writer' = [writer EXCEPT !.buf = SubSeq(writer.buf, n + 1, Len(writer.buf))]
    BY <1>4 DEF WriterCopy
  <2>3. /\ Unwritten = writer.buf
        /\ Unwritten' = SubSeq(writer.buf, n + 1, Len(writer.buf))
    BY <2>1, <2>2 DEF Unwritten, TypeOK
  <2> DEFINE rest == collector.held \o log_ev
             a == SubSeq(writer.buf, 1, n)
             b == SubSeq(writer.buf, n + 1, Len(writer.buf))
  <2>4. /\ a \in Seq(Lines) /\ b \in Seq(Lines) /\ a \o b = writer.buf
        /\ rest \in Seq(Lines) /\ writer.buf \o rest \in Seq(Lines)
    BY <2>1, <2>3, PartOfLines, PendingType
  <2>5. Pending = <<>> \o (writer.buf \o rest) /\ Pending' = a \o (b \o rest)
    BY <2>1, <2>2, <2>3 DEF Pending
  <2> HIDE DEF rest, a, b
  <2>6. (a \o b) \o rest = a \o (b \o rest)
    <3>1. a \in Seq(Lines) /\ b \in Seq(Lines) /\ rest \in Seq(Lines)
      BY <2>4
    <3> QED BY <3>1, ConcatAssociative
  <2>7. <<>> \o (writer.buf \o rest) = writer.buf \o rest
    BY <2>4, ConcatEmptySeq
  <2> QED BY <2>1, <2>4, <2>5, <2>6, <2>7
<1>5. CASE WriterClear
  <2>1. /\ Unwritten = <<>> /\ Unwritten' = <<>>
        /\ UNCHANGED <<chunk, collector, log_ev, file>>
    BY <1>5 DEF WriterClear, Unwritten, TypeOK
  <2> QED BY <2>1 DEF Pending
<1> QED BY <1>1, <1>2, <1>3, <1>4, <1>5

LEMMA RestartRestarts ==
  ASSUME Restart
  PROVE  J!Restart
<1>1. /\ chunk' = <<>> /\ Unwritten' = <<>> /\ collector'.held = <<>>
      /\ log_ev' = <<>> /\ file' = file
  BY DEF Restart, Unwritten
<1>2. <<>> \o <<>> = <<>>
  BY EmptySeq, ConcatEmptySeq
<1>3. Pending' = <<>>
  BY <1>1, <1>2 DEF Pending
<1> QED BY <1>1, <1>3 DEF J!Restart

LEMMA JournalStep ==
  ASSUME IInv, [Next]_vars
  PROVE  [J!Next]_<<Pending, file>>
<1>0. TypeOK /\ LockHeld
  BY DEF IInv
<1>1. CASE \E l \in Lines : Push(l)
  BY <1>0, <1>1, PushAccepts DEF J!Next
<1>2. CASE DiskWrites
  BY <1>0, <1>2, DiskWritesWrites DEF J!Next
<1>3. CASE Restart \/ WriterPanics
  BY <1>3, RestartRestarts DEF WriterPanics, J!Next
<1>4. CASE \/ CollectorRecv \/ \E size \in Sizes : CollectorPush(size)
           \/ WriterLock \/ WriterCopy \/ WriterClear
  BY <1>0, <1>4, HandOver
<1>5. CASE CollectorForce \/ WriterPoll \/ WriterWake \/ WriterAsk
  <2>1. collector'.held = collector.held /\ Unwritten' = Unwritten
    <3>1. CASE CollectorForce
      BY <1>0, <3>1 DEF CollectorForce, TypeOK, Unwritten, buffer
    <3>2. CASE WriterPoll \/ WriterWake \/ WriterAsk
      <4>1. writer.pc # "write" /\ writer'.pc # "write"
        BY <1>0, <3>2 DEF WriterPoll, WriterWake, WriterAsk, TypeOK
      <4> QED BY <3>2, <4>1 DEF WriterPoll, WriterWake, WriterAsk, Unwritten, buffer
    <3> QED BY <1>5, <3>1, <3>2
  <2>2. UNCHANGED <<chunk, log_ev, file>>
    BY <1>5 DEF CollectorForce, WriterPoll, WriterWake, WriterAsk, device
  <2> QED BY <2>1, <2>2 DEF Pending
<1>6. CASE \/ \E t \in Tasks : Send(t)
           \/ \E l \in Lines : Cancel(l)
           \/ Grant \/ DiskFails \/ UNCHANGED vars
  <2>1. UNCHANGED <<chunk, logs_to_write, writer, collector, log_ev, file>>
    BY <1>6 DEF Send, Cancel, Grant, DiskFails, vars, senders, buffer, device
  <2> QED BY <2>1 DEF Pending, Unwritten
<1> QED
  BY <1>1, <1>2, <1>3, <1>4, <1>5, <1>6 DEF Next, Collector, Writer

(* The tasks, the lock, the two channels and the chunks implement the      *)
(* journal: what is accepted reaches the file once and in order, and only  *)
(* a restart loses a line.                                                 *)
THEOREM JournalKept == Spec => ImplementsJournal
<1>1. Init => J!Init
  <2>1. <<>> \o <<>> = <<>>
    BY EmptySeq, ConcatEmptySeq
  <2> QED BY <2>1 DEF Init, J!Init, Pending, Unwritten
<1>2. IInv /\ [Next]_vars => [J!Next]_<<Pending, file>>
  BY JournalStep
<1> QED BY <1>1, <1>2, Inductive, PTL DEF Spec, ImplementsJournal, J!Spec

=============================================================================
