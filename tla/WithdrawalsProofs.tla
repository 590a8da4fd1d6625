------------------------- MODULE WithdrawalsProofs -------------------------
(***************************************************************************)
(* Proofs about the withdrawal pipeline, for any number of calls, users,   *)
(* requests and retries: the inductive invariant IInv, what follows from   *)
(* it, the order of the queue, and the refinement of Payouts.              *)
(***************************************************************************)
EXTENDS Withdrawals, SequenceTheorems, TLAPS

Accepted == {c \in Calls : stage[c] = "accepted"}
InHand   == IF taken = NoCall THEN <<>> ELSE <<taken>>

-----------------------------------------------------------------------------
(* What Append, Tail and RemoveAt do to a sequence without repetitions,    *)
(* and how they distribute over \o.                                        *)

NoRepeat(s) == \A i, j \in 1..Len(s) : s[i] = s[j] => i = j

(* RemoveAt(s, i) keeps the elements before i and shifts the later ones,   *)
(* as Vec::remove does.                                                    *)
LEMMA RemoveAtProperties ==
  ASSUME NEW S, NEW s \in Seq(S), NEW i \in 1..Len(s)
  PROVE  /\ RemoveAt(s, i) \in Seq(S)
         /\ Len(RemoveAt(s, i)) = Len(s) - 1
         /\ \A j \in 1..(Len(s) - 1) :
              RemoveAt(s, i)[j] = IF j < i THEN s[j] ELSE s[j + 1]
<1> DEFINE a == SubSeq(s, 1, i - 1)
           b == SubSeq(s, i + 1, Len(s))
<1>0. Len(s) \in Nat /\ (\A k \in 1..Len(s) : s[k] \in S)
  BY LenProperties, ElementOfSeq
<1>1. /\ a \in Seq(S) /\ Len(a) = i - 1
      /\ \A k \in 1..(i - 1) : a[k] = s[k]
  <2>1. \A k \in 1..(i - 1) : s[k] \in S
    BY <1>0
  <2>2. i - 1 \in Int /\ (IF 1 <= i - 1 THEN i - 1 - 1 + 1 ELSE 0) = i - 1
    BY <1>0
  <2>3. /\ a \in Seq(S) /\ Len(a) = IF 1 <= i - 1 THEN i - 1 - 1 + 1 ELSE 0
        /\ \A k \in 1..(i - 1 - 1 + 1) : a[k] = s[1 + k - 1]
    BY <2>1, <2>2, SubSeqProperties
  <2> QED BY <2>2, <2>3, <1>0
<1>2. /\ b \in Seq(S) /\ Len(b) = Len(s) - i
      /\ \A k \in 1..(Len(s) - i) : b[k] = s[i + k]
  <2>1. \A k \in (i + 1)..Len(s) : s[k] \in S
    BY <1>0
  <2>2. /\ b \in Seq(S)
        /\ Len(b) = IF i + 1 <= Len(s) THEN Len(s) - (i + 1) + 1 ELSE 0
        /\ \A k \in 1..(Len(s) - (i + 1) + 1) : b[k] = s[i + 1 + k - 1]
    BY <2>1, <1>0, SubSeqProperties
  <2> QED BY <2>2, <1>0
<1>3. /\ a \o b \in Seq(S)
      /\ Len(a \o b) = Len(a) + Len(b)
      /\ \A j \in 1..(Len(a) + Len(b)) :
           (a \o b)[j] = IF j <= Len(a) THEN a[j] ELSE b[j - Len(a)]
  BY <1>1, <1>2, ConcatProperties
<1>4. RemoveAt(s, i) = a \o b
  BY DEF RemoveAt
<1> HIDE DEF a, b
<1>5. Len(a) + Len(b) = Len(s) - 1
  BY <1>0, <1>1, <1>2
<1>6. ASSUME NEW j \in 1..(Len(s) - 1)
      PROVE  (a \o b)[j] = IF j < i THEN s[j] ELSE s[j + 1]
  <2>1. CASE j < i
    BY <2>1, <1>0, <1>1, <1>3, <1>5
  <2>2. CASE ~ (j < i)
    <3>1. j - Len(a) \in 1..(Len(s) - i) /\ i + (j - Len(a)) = j + 1
      BY <2>2, <1>0, <1>1
    <3> QED BY <2>2, <3>1, <1>0, <1>1, <1>2, <1>3, <1>5
  <2> QED BY <2>1, <2>2
<1> QED BY <1>3, <1>4, <1>5, <1>6

(* Removing one occurrence from a sequence without repetitions removes the *)
(* element.                                                                *)
LEMMA RemoveAtNoRepeat ==
  ASSUME NEW S, NEW s \in Seq(S), NEW i \in 1..Len(s), NoRepeat(s)
  PROVE  /\ NoRepeat(RemoveAt(s, i))
         /\ ToSet(RemoveAt(s, i)) = ToSet(s) \ {s[i]}
<1> DEFINE r == RemoveAt(s, i)
<1>1. /\ Len(s) \in Nat /\ DOMAIN s = 1..Len(s)
      /\ r \in Seq(S) /\ Len(r) = Len(s) - 1 /\ DOMAIN r = 1..(Len(s) - 1)
      /\ \A j \in 1..(Len(s) - 1) : r[j] = IF j < i THEN s[j] ELSE s[j + 1]
  BY RemoveAtProperties, LenProperties
<1> HIDE DEF r
<1>2. NoRepeat(r)
  <2>1. SUFFICES ASSUME NEW j \in 1..Len(r), NEW k \in 1..Len(r), r[j] = r[k]
                 PROVE  j = k
    BY DEF NoRepeat
  <2>2. PICK jj \in 1..Len(s) : r[j] = s[jj] /\ jj = IF j < i THEN j ELSE j + 1
    BY <1>1
  <2>3. PICK kk \in 1..Len(s) : r[k] = s[kk] /\ kk = IF k < i THEN k ELSE k + 1
    BY <1>1
  <2>4. jj = kk
    BY <2>1, <2>2, <2>3 DEF NoRepeat
  <2> QED BY <2>2, <2>3, <2>4, <1>1
<1>3. \A x : x \in ToSet(r) => x \in ToSet(s) /\ x # s[i]
  <2>1. SUFFICES ASSUME NEW j \in 1..Len(r)
                 PROVE  r[j] \in ToSet(s) /\ r[j] # s[i]
    BY <1>1 DEF ToSet
  <2>2. PICK jj \in 1..Len(s) : r[j] = s[jj] /\ jj = IF j < i THEN j ELSE j + 1
    BY <1>1
  <2>3. jj # i
    BY <2>2, <1>1
  <2> QED BY <2>2, <2>3, <1>1 DEF NoRepeat, ToSet
<1>4. \A x : x \in ToSet(s) /\ x # s[i] => x \in ToSet(r)
  <2>1. SUFFICES ASSUME NEW k \in 1..Len(s), s[k] # s[i]
                 PROVE  s[k] \in ToSet(r)
    BY <1>1 DEF ToSet
  <2>2. PICK j \in 1..(Len(s) - 1) : k = IF j < i THEN j ELSE j + 1
    <3>1. CASE k < i
      BY <3>1, <1>1
    <3>2. CASE k > i
      <4>1. k - 1 \in 1..(Len(s) - 1) /\ ~ (k - 1 < i) /\ (k - 1) + 1 = k
        BY <3>2, <1>1
      <4> QED BY <4>1
    <3> QED BY <2>1, <3>1, <3>2, <1>1
  <2>3. r[j] = s[k]
    BY <2>2, <1>1
  <2> QED BY <2>3, <1>1 DEF ToSet
<1>5. ToSet(r) = ToSet(s) \ {s[i]}
  BY <1>3, <1>4
<1> QED BY <1>2, <1>5 DEF r

(* Appending a new element.                                                *)
LEMMA AppendNoRepeat ==
  ASSUME NEW S, NEW s \in Seq(S), NEW e \in S, NoRepeat(s), e \notin ToSet(s)
  PROVE  /\ NoRepeat(Append(s, e))
         /\ ToSet(Append(s, e)) = ToSet(s) \cup {e}
<1> DEFINE a == Append(s, e)
<1>1. /\ Len(s) \in Nat /\ DOMAIN s = 1..Len(s)
      /\ a \in Seq(S) /\ Len(a) = Len(s) + 1 /\ DOMAIN a = 1..(Len(s) + 1)
      /\ \A j \in 1..Len(s) : a[j] = s[j]
      /\ a[Len(s) + 1] = e
  BY AppendProperties, LenProperties
<1> HIDE DEF a
<1>2. \A j \in 1..Len(s) : s[j] \in ToSet(s)
  BY <1>1 DEF ToSet
<1>3. NoRepeat(a)
  <2>1. SUFFICES ASSUME NEW j \in 1..Len(a), NEW k \in 1..Len(a), a[j] = a[k]
                 PROVE  j = k
    BY DEF NoRepeat
  <2>2. CASE j \in 1..Len(s) /\ k \in 1..Len(s)
    BY <2>1, <2>2, <1>1 DEF NoRepeat
  <2>3. CASE j \in 1..Len(s) /\ k = Len(s) + 1
    BY <2>1, <2>3, <1>1, <1>2
  <2>4. CASE j = Len(s) + 1 /\ k \in 1..Len(s)
    BY <2>1, <2>4, <1>1, <1>2
  <2> QED BY <2>2, <2>3, <2>4, <1>1
<1>4. ToSet(a) \subseteq ToSet(s) \cup {e}
  <2>1. SUFFICES ASSUME NEW j \in 1..(Len(s) + 1) PROVE a[j] \in ToSet(s) \cup {e}
    BY <1>1 DEF ToSet
  <2>2. CASE j \in 1..Len(s)
    BY <2>2, <1>1, <1>2
  <2> QED BY <2>2, <1>1
<1>5. e \in ToSet(a)
  BY <1>1 DEF ToSet
<1>6. ToSet(s) \subseteq ToSet(a)
  <2>1. SUFFICES ASSUME NEW j \in 1..Len(s) PROVE s[j] \in ToSet(a)
    BY <1>1 DEF ToSet
  <2> QED BY <1>1 DEF ToSet
<1> QED BY <1>3, <1>4, <1>5, <1>6 DEF a

(* Removing from the left part of a concatenation, and appending to the    *)
(* right part, are the same on the whole.                                  *)
LEMMA RemoveAtConcat ==
  ASSUME NEW S, NEW s \in Seq(S), NEW t \in Seq(S), NEW i \in 1..Len(s)
  PROVE  RemoveAt(s, i) \o t = RemoveAt(s \o t, i)
<1> DEFINE rest == RemoveAt(s, i)
           both == s \o t
           l == rest \o t
           r == RemoveAt(both, i)
<1>1. Len(s) \in Nat /\ Len(t) \in Nat
  BY LenProperties
<1>2. /\ rest \in Seq(S) /\ Len(rest) = Len(s) - 1
      /\ \A j \in 1..(Len(s) - 1) : rest[j] = IF j < i THEN s[j] ELSE s[j + 1]
  BY RemoveAtProperties
<1>3. /\ both \in Seq(S) /\ Len(both) = Len(s) + Len(t)
      /\ \A j \in 1..(Len(s) + Len(t)) :
           both[j] = IF j <= Len(s) THEN s[j] ELSE t[j - Len(s)]
  BY ConcatProperties
<1> HIDE DEF rest, both
<1>4. /\ l \in Seq(S) /\ Len(l) = Len(s) - 1 + Len(t)
      /\ \A j \in 1..(Len(s) - 1 + Len(t)) :
           l[j] = IF j <= Len(s) - 1 THEN rest[j] ELSE t[j - (Len(s) - 1)]
  <2>1. /\ l \in Seq(S) /\ Len(l) = Len(rest) + Len(t)
        /\ \A j \in 1..(Len(rest) + Len(t)) :
             l[j] = IF j <= Len(rest) THEN rest[j] ELSE t[j - Len(rest)]
    BY <1>2, ConcatProperties
  <2> QED BY <2>1, <1>1, <1>2
<1>5. /\ r \in Seq(S) /\ Len(r) = Len(s) + Len(t) - 1
      /\ \A j \in 1..(Len(s) + Len(t) - 1) :
           r[j] = IF j < i THEN both[j] ELSE both[j + 1]
  <2>1. i \in 1..Len(both)
    BY <1>1, <1>3
  <2>2. /\ r \in Seq(S) /\ Len(r) = Len(both) - 1
        /\ \A j \in 1..(Len(both) - 1) :
             r[j] = IF j < i THEN both[j] ELSE both[j + 1]
    BY <1>3, <2>1, RemoveAtProperties
  <2> QED BY <2>2, <1>3
<1> HIDE DEF l, r
<1>6. ASSUME NEW j \in 1..Len(l)
      PROVE  l[j] = r[j]
  <2>0. j \in 1..(Len(s) - 1 + Len(t)) /\ j \in 1..(Len(s) + Len(t) - 1)
    BY <1>1, <1>4
  <2>1. CASE j < i
    <3>1. j \in 1..(Len(s) - 1) /\ j \in 1..(Len(s) + Len(t)) /\ j <= Len(s)
      BY <2>0, <2>1, <1>1
    <3>2. l[j] = rest[j]
      BY <3>1, <2>0, <1>1, <1>4
    <3>3. rest[j] = s[j]
      BY <3>1, <2>1, <1>2
    <3>4. r[j] = both[j]
      BY <2>0, <2>1, <1>5
    <3>5. both[j] = s[j]
      BY <3>1, <1>3
    <3> QED BY <3>2, <3>3, <3>4, <3>5
  <2>2. CASE ~ (j < i) /\ j <= Len(s) - 1
    <3>1. /\ j \in 1..(Len(s) - 1) /\ j + 1 \in 1..(Len(s) + Len(t))
          /\ j + 1 <= Len(s)
      BY <2>0, <2>2, <1>1
    <3>2. l[j] = rest[j]
      BY <3>1, <2>0, <1>1, <1>4
    <3>3. rest[j] = s[j + 1]
      BY <3>1, <2>2, <1>2
    <3>4. r[j] = both[j + 1]
      BY <2>0, <2>2, <1>5
    <3>5. both[j + 1] = s[j + 1]
      BY <3>1, <1>3
    <3> QED BY <3>2, <3>3, <3>4, <3>5
  <2>3. CASE j > Len(s) - 1
    <3>1. l[j] = t[j - (Len(s) - 1)]
      BY <2>3, <1>1, <1>4
    <3>2. r[j] = both[j + 1]
      BY <2>3, <1>1, <1>4, <1>5
    <3>3. both[j + 1] = t[j + 1 - Len(s)]
      BY <2>3, <1>1, <1>3, <1>4
    <3>4. j - (Len(s) - 1) = j + 1 - Len(s)
      BY <1>1
    <3> QED BY <3>1, <3>2, <3>3, <3>4
  <2> QED BY <2>1, <2>2, <2>3, <1>1, <1>4
<1>7. Len(l) = Len(r)
  BY <1>1, <1>4, <1>5
<1>8. l = r
  BY <1>4, <1>5, <1>6, <1>7, SeqEqual
<1> QED BY <1>8 DEF l, r, rest, both

LEMMA RemoveAtOfRight ==
  ASSUME NEW S, NEW s \in Seq(S), NEW t \in Seq(S), NEW i \in 1..Len(t)
  PROVE  s \o RemoveAt(t, i) = RemoveAt(s \o t, Len(s) + i)
<1> DEFINE rest == RemoveAt(t, i)
           both == s \o t
           l == s \o rest
           r == RemoveAt(both, Len(s) + i)
<1>1. Len(s) \in Nat /\ Len(t) \in Nat
  BY LenProperties
<1>2. /\ rest \in Seq(S) /\ Len(rest) = Len(t) - 1
      /\ \A j \in 1..(Len(t) - 1) : rest[j] = IF j < i THEN t[j] ELSE t[j + 1]
  BY RemoveAtProperties
<1>3. /\ both \in Seq(S) /\ Len(both) = Len(s) + Len(t)
      /\ \A j \in 1..(Len(s) + Len(t)) :
           both[j] = IF j <= Len(s) THEN s[j] ELSE t[j - Len(s)]
  BY ConcatProperties
<1> HIDE DEF rest, both
<1>4. /\ l \in Seq(S) /\ Len(l) = Len(s) + Len(t) - 1
      /\ \A j \in 1..(Len(s) + Len(t) - 1) :
           l[j] = IF j <= Len(s) THEN s[j] ELSE rest[j - Len(s)]
  <2>1. /\ l \in Seq(S) /\ Len(l) = Len(s) + Len(rest)
        /\ \A j \in 1..(Len(s) + Len(rest)) :
             l[j] = IF j <= Len(s) THEN s[j] ELSE rest[j - Len(s)]
    BY <1>2, ConcatProperties
  <2> QED BY <2>1, <1>1, <1>2
<1>5. /\ r \in Seq(S) /\ Len(r) = Len(s) + Len(t) - 1
      /\ \A j \in 1..(Len(s) + Len(t) - 1) :
           r[j] = IF j < Len(s) + i THEN both[j] ELSE both[j + 1]
  <2>1. Len(s) + i \in 1..Len(both)
    BY <1>1, <1>3
  <2>2. /\ r \in Seq(S) /\ Len(r) = Len(both) - 1
        /\ \A j \in 1..(Len(both) - 1) :
             r[j] = IF j < Len(s) + i THEN both[j] ELSE both[j + 1]
    BY <1>3, <2>1, RemoveAtProperties
  <2> QED BY <2>2, <1>3
<1> HIDE DEF l, r
<1>6. ASSUME NEW j \in 1..(Len(s) + Len(t) - 1)
      PROVE  l[j] = r[j]
  <2>1. CASE j <= Len(s)
    <3>1. j < Len(s) + i /\ j \in 1..(Len(s) + Len(t))
      BY <2>1, <1>1
    <3> QED BY <2>1, <3>1, <1>3, <1>4, <1>5
  <2>2. CASE Len(s) < j /\ j < Len(s) + i
    <3>1. /\ j - Len(s) \in 1..(Len(t) - 1) /\ j - Len(s) < i
          /\ j \in 1..(Len(s) + Len(t)) /\ ~ (j <= Len(s))
      BY <2>2, <1>1
    <3>2. l[j] = t[j - Len(s)]
      BY <3>1, <1>2, <1>4
    <3>3. r[j] = t[j - Len(s)]
      BY <2>2, <3>1, <1>3, <1>5
    <3> QED BY <3>2, <3>3
  <2>3. CASE Len(s) + i <= j
    <3>1. /\ j - Len(s) \in 1..(Len(t) - 1) /\ ~ (j - Len(s) < i)
          /\ j + 1 \in 1..(Len(s) + Len(t)) /\ ~ (j <= Len(s)) /\ ~ (j + 1 <= Len(s))
          /\ j - Len(s) + 1 = j + 1 - Len(s) /\ ~ (j < Len(s) + i)
      BY <2>3, <1>1
    <3>2. l[j] = t[j + 1 - Len(s)]
      BY <3>1, <1>2, <1>4
    <3>3. r[j] = t[j + 1 - Len(s)]
      BY <3>1, <1>3, <1>5
    <3> QED BY <3>2, <3>3
  <2> QED BY <2>1, <2>2, <2>3, <1>1
<1>7. l = r
  BY <1>4, <1>5, <1>6, SeqEqual
<1> QED BY <1>7 DEF l, r, rest, both

(* A sequence that is not empty is its head followed by its tail, and its  *)
(* tail is what is left when the head is removed.                          *)
LEMMA HeadThenTail ==
  ASSUME NEW S, NEW s \in Seq(S), s # <<>>
  PROVE  /\ Head(s) \in S /\ Tail(s) \in Seq(S)
         /\ <<Head(s)>> \o Tail(s) = s
         /\ Tail(s) = RemoveAt(s, 1)
         /\ 1 \in 1..Len(s) /\ s[1] = Head(s)
<1>1. /\ Head(s) \in S /\ Tail(s) \in Seq(S) /\ Len(Tail(s)) = Len(s) - 1
      /\ \A i \in 1..Len(Tail(s)) : Tail(s)[i] = s[i + 1]
  BY HeadTailProperties
<1>2. Len(s) \in Nat /\ Len(s) > 0
  BY EmptySeq, LenProperties
<1>3. s[1] = Head(s) /\ 1 \in 1..Len(s)
  BY <1>2
<1>4. /\ RemoveAt(s, 1) \in Seq(S) /\ Len(RemoveAt(s, 1)) = Len(s) - 1
      /\ \A j \in 1..(Len(s) - 1) :
           RemoveAt(s, 1)[j] = IF j < 1 THEN s[j] ELSE s[j + 1]
  BY <1>3, RemoveAtProperties
<1>5. Tail(s) = RemoveAt(s, 1)
  <2>1. \A j \in 1..Len(Tail(s)) : Tail(s)[j] = RemoveAt(s, 1)[j]
    BY <1>1, <1>2, <1>4
  <2> QED BY <1>1, <1>4, <2>1, SeqEqual
<1>6. <<Head(s)>> \o Tail(s) = s
  <2>1. <<Head(s)>> \in Seq(S) /\ Len(<<Head(s)>>) = 1 /\ <<Head(s)>>[1] = Head(s)
    BY <1>1
  <2>2. /\ <<Head(s)>> \o Tail(s) \in Seq(S)
        /\ Len(<<Head(s)>> \o Tail(s)) = 1 + Len(Tail(s))
        /\ \A j \in 1..(1 + Len(Tail(s))) :
             (<<Head(s)>> \o Tail(s))[j] =
               IF j <= 1 THEN <<Head(s)>>[j] ELSE Tail(s)[j - 1]
    BY <1>1, <2>1, ConcatProperties
  <2>3. Len(<<Head(s)>> \o Tail(s)) = Len(s)
    BY <1>1, <1>2, <2>2
  <2>4. ASSUME NEW j \in 1..Len(s)
        PROVE  (<<Head(s)>> \o Tail(s))[j] = s[j]
    <3>1. CASE j = 1
      BY <3>1, <2>1, <2>2, <1>1, <1>2, <1>3
    <3>2. CASE j # 1
      <4>1. j - 1 \in 1..Len(Tail(s)) /\ j - 1 + 1 = j
        BY <3>2, <1>1, <1>2
      <4> QED BY <3>2, <4>1, <2>2, <1>1, <1>2
    <3> QED BY <3>1, <3>2
  <2> QED BY <2>2, <2>3, <2>4, SeqEqual
<1> QED BY <1>1, <1>3, <1>5, <1>6

-----------------------------------------------------------------------------
(* The arithmetic of a withdrawal stays within the naturals.               *)

LEMMA ChargedFeeNat ==
  ASSUME NEW amt \in Nat, NEW fee \in Nat
  PROVE  ChargedFee(amt, fee) \in Nat
BY DEF ChargedFee

LEMMA AmtToSendNat ==
  ASSUME NEW amt \in Nat, NEW net_fee \in Nat, amt >= net_fee + QuotedFee(amt)
  PROVE  AmtToSend(amt, net_fee) \in Nat
BY DEF AmtToSend, QuotedFee

LEMMA ChargedInfo ==
  ASSUME NEW info \in FinancialInfos, NEW fee \in Nat
  PROVE  [info EXCEPT !.service_fee_total = (@ + fee) % Modulus] \in FinancialInfos
<1>1. info.service_fee_total \in Nat
  BY DEF FinancialInfos
<1>2. (info.service_fee_total + fee) % Modulus \in Nat
  BY <1>1, ModulusAssumption
<1> QED BY <1>2 DEF FinancialInfos

-----------------------------------------------------------------------------
(* Types.                                                                  *)

(* \o is associative on queues.                                             *)
LEMMA QueuesAssociative ==
  \A s, t, u \in Seq(Calls) : (s \o t) \o u = s \o (t \o u)
BY ConcatAssociative

(* A call in the Vec is accepted, and holds the place its index says.      *)
LEMMA PendingInQueue ==
  ASSUME TypeOK
  PROVE  /\ Queue \in Seq(Calls)
         /\ InHand \in Seq(Calls)
         /\ Len(pending) \in Nat /\ Len(Queue) \in Nat
         /\ Len(pending) <= Len(Queue)
         /\ \A i \in 1..Len(pending) :
              /\ pending[i] \in Calls
              /\ i \in 1..Len(Queue) /\ Queue[i] = pending[i]
<1> DEFINE rest == InHand \o channel
<1>1. pending \in Seq(Calls) /\ InHand \in Seq(Calls) /\ channel \in Seq(Calls)
  BY DEF TypeOK, InHand
<1>2. rest \in Seq(Calls)
  BY <1>1, ConcatProperties
<1>3. Queue = pending \o rest
  <2>1. Queue = (pending \o InHand) \o channel
    BY DEF Queue, InHand
  <2> QED BY <1>1, <2>1, QueuesAssociative
<1> HIDE DEF rest
<1>4. Len(pending) \in Nat /\ Len(rest) \in Nat
  BY <1>1, <1>2, LenProperties
<1>5. /\ Queue \in Seq(Calls)
      /\ Len(Queue) = Len(pending) + Len(rest)
      /\ \A i \in 1..(Len(pending) + Len(rest)) :
           Queue[i] = IF i <= Len(pending) THEN pending[i] ELSE rest[i - Len(pending)]
  BY <1>1, <1>2, <1>3, ConcatProperties
<1> QED BY <1>1, <1>4, <1>5, ElementOfSeq

LEMMA CurrentAccepted ==
  ASSUME TypeOK, QueueIsOutstanding, UnderWay, Holding
  PROVE  /\ Current \in Calls /\ stage[Current] = "accepted"
         /\ sender.i \in 1..Len(Queue) /\ Queue[sender.i] = Current
<1>1. sender.i \in 1..Len(pending)
  BY DEF UnderWay
<1>2. /\ Current \in Calls
      /\ sender.i \in 1..Len(Queue) /\ Queue[sender.i] = Current
  BY <1>1, PendingInQueue DEF Current
<1>3. Current \in ToSet(Queue)
  BY <1>2, PendingInQueue, LenProperties DEF ToSet
<1> QED BY <1>2, <1>3 DEF QueueIsOutstanding

LEMMA IdleType == Idle \in Senders
BY DEF Idle, Senders

LEMMA SkipType ==
  ASSUME sender \in Senders, SenderSkip
  PROVE  sender' \in Senders
<1>1. sender.i + 1 \in Nat \ {0}
  BY DEF Senders
<1> QED BY <1>1 DEF SenderSkip, Senders

LEMMA AbandonType ==
  ASSUME TypeOK, Current \in Calls, Abandon
  PROVE  unserved' \in [Calls -> Nat] /\ abandoned' \in [Calls -> Nat]
<1>1. abandoned[Current] + 1 \in Nat /\ unserved[Current] + 1 \in Nat
  BY DEF TypeOK
<1>2. abandoned' \in [Calls -> Nat]
  BY <1>1 DEF TypeOK, Abandon
<1>3. unserved' \in [Calls -> Nat]
  <2>1. CASE sender.fee = NoFee
    BY <1>1, <2>1 DEF TypeOK, Abandon
  <2>2. CASE sender.fee # NoFee
    BY <2>2 DEF TypeOK, Abandon
  <2> QED BY <2>1, <2>2
<1> QED BY <1>2, <1>3

LEMMA CheckedReq ==
  ASSUME TypeOK, UnderWay, NEW c \in Calls, NEW net_fee \in NetFees \cup {NoFee},
         WithdrawChecked(c, net_fee)
  PROVE  /\ req' \in [Calls -> TransferReqs \cup {NoReq}]
         /\ req'[c] \in TransferReqs /\ req'[c].username = form[c].username
         /\ \A d \in Calls \ {c} : req'[d] = req[d]
<1> DEFINE username == form[c].username
           info == moneyDB[username]
           made == [ username |-> username, dst |-> info.xmr_addr,
                     amt |-> AmtToSend(form[c].amt, net_fee),
                     addr_index |-> info.addr_index ]
<1>1. username \in Users /\ form[c].amt \in Nat
  BY WithdrawalsAssumption DEF UnderWay, WithdrawChecked
<1>2. info \in FinancialInfos
  BY <1>1 DEF TypeOK, WithdrawChecked
<1>3. net_fee \in Nat /\ form[c].amt >= net_fee + QuotedFee(form[c].amt)
      /\ info.xmr_addr # NoAddr
  BY WithdrawalsAssumption DEF WithdrawChecked, Withdrawable
<1>4. info.xmr_addr \in Addrs /\ info.addr_index \in Indices
  BY <1>2, <1>3 DEF FinancialInfos
<1>5. AmtToSend(form[c].amt, net_fee) \in Nat
  BY <1>1, <1>3, AmtToSendNat
<1>6. made \in TransferReqs
  BY <1>1, <1>4, <1>5 DEF TransferReqs
<1>7. req' = [req EXCEPT ![c] = made]
  BY DEF WithdrawChecked
<1>8. made.username = form[c].username
  OBVIOUS
<1> HIDE DEF made
<1> QED BY <1>6, <1>7, <1>8 DEF TypeOK

LEMMA CreditedInfo ==
  ASSUME TypeOK, QueueIsOutstanding, UnderWay, SenderCredit
  PROVE  /\ sender'.info \in FinancialInfos
         /\ \E info \in FinancialInfos :
              sender' = [sender EXCEPT !.pc = "insert", !.info = info]
<1> DEFINE info == moneyDB[req[Current].username]
           fee == ChargedFee(req[Current].amt, sender.fee)
           charged == [info EXCEPT !.service_fee_total = (@ + fee) % Modulus]
<1>1. /\ Current \in Calls /\ stage[Current] = "accepted"
      /\ sender.fee \in Nat
  BY CurrentAccepted DEF SenderCredit, Holding, TypeOK, Senders
<1>2. info \in FinancialInfos /\ req[Current].amt \in Nat
  BY <1>1 DEF UnderWay, TransferReqs, TypeOK
<1>3. charged \in FinancialInfos
  BY <1>1, <1>2, ChargedFeeNat, ChargedInfo
<1>4. sender' = [sender EXCEPT !.pc = "insert", !.info = charged]
  BY DEF SenderCredit
<1> HIDE DEF charged
<1> QED BY <1>3, <1>4 DEF TypeOK, Senders

LEMMA SkipScans ==
  ASSUME sender \in Senders, SenderSkip
  PROVE  ~ Holding' /\ ~ Answered'
<1>1. sender'.pc = "scan"
  BY DEF SenderSkip, Senders
<1> QED BY <1>1 DEF Holding, Answered

LEMMA TypeInit == Init => TypeOK
BY WithdrawalsAssumption, IdleType DEF Init, TypeOK, FinancialInfos

LEMMA TypeStep == IInv /\ [Next]_vars => TypeOK'
<1> SUFFICES ASSUME IInv, [Next]_vars PROVE TypeOK'
  OBVIOUS
<1> USE DEF IInv
<1>1. ASSUME NEW c \in Calls, WithdrawDenied(c) PROVE TypeOK'
  BY <1>1 DEF TypeOK, WithdrawDenied, queues, wallet
<1>2. ASSUME NEW c \in Calls, WithdrawAuthorized(c) PROVE TypeOK'
  BY <1>2 DEF TypeOK, WithdrawAuthorized, queues, wallet
<1>3. ASSUME NEW c \in Calls, NEW net_fee \in NetFees \cup {NoFee},
             WithdrawRefused(c, net_fee) PROVE TypeOK'
  BY <1>3 DEF TypeOK, WithdrawRefused, queues, wallet
<1>4. ASSUME NEW c \in Calls, NEW net_fee \in NetFees \cup {NoFee},
             WithdrawChecked(c, net_fee) PROVE TypeOK'
  BY <1>4, CheckedReq DEF TypeOK, WithdrawChecked, queues, wallet
<1>5. ASSUME NEW c \in Calls, WithdrawSend(c) PROVE TypeOK'
  <2>1. channel' \in Seq(Calls)
    BY <1>5, AppendProperties DEF TypeOK, WithdrawSend
  <2> QED BY <1>5, <2>1 DEF TypeOK, WithdrawSend, wallet
<1>6. CASE ReceiverDrop
  BY <1>6, HeadTailProperties DEF TypeOK, ReceiverDrop, wallet
<1>7. CASE ReceiverTake
  BY <1>7, HeadTailProperties, AppendProperties
  DEF TypeOK, ReceiverTake, handler, wallet
<1>8. CASE ReceiverPush
  BY <1>8, HeadTailProperties, AppendProperties
  DEF TypeOK, ReceiverPush, handler, wallet
<1>9. CASE SenderLock
  BY <1>9, AppendProperties DEF TypeOK, Senders, SenderLock, handler, wallet
<1>10. CASE SenderBegin
  <2>1. sender' \in Senders
    BY <1>10, IdleType DEF SenderBegin, Senders
  <2> QED BY <1>10, <2>1 DEF TypeOK, SenderBegin, handler, queues, wallet
<1>11. CASE SenderEndPass
  <2>1. lockQueue' \in Seq({"receiver", "sender"})
    BY <1>11, HeadTailProperties DEF TypeOK, UnderWay, SenderEndPass
  <2> QED BY <1>11, <2>1, IdleType DEF TypeOK, SenderEndPass, handler, wallet
<1>12. CASE TransferDelivered
  BY <1>12 DEF TypeOK, Senders, TransferDelivered, handler, queues, wallet
<1>13. CASE TransferUndelivered
  BY <1>13, SkipType DEF TypeOK, TransferUndelivered, handler, queues, wallet
<1>14. CASE WalletPays
  <2>1. Current \in Calls
    BY <1>14, CurrentAccepted DEF WalletPays, WalletReady, Holding
  <2>2. payments' \in [Calls -> Nat]
    BY <1>14, <2>1 DEF TypeOK, WalletPays
  <2>3. sender' \in Senders
    BY <1>14, WithdrawalsAssumption DEF TypeOK, Senders, WalletPays
  <2> QED BY <1>14, <2>2, <2>3 DEF TypeOK, WalletPays, handler, queues
<1>15. CASE WalletRefuses
  BY <1>15, SkipType DEF TypeOK, WalletRefuses, handler, queues, wallet
<1>16. ASSUME NEW c \in Calls, WalletServesAbandoned(c) PROVE TypeOK'
  <2>1. unserved[c] - 1 \in Nat /\ payments[c] + 1 \in Nat
    BY <1>16 DEF TypeOK, WalletServesAbandoned
  <2>2. unserved' \in [Calls -> Nat] /\ payments' \in [Calls -> Nat]
    BY <1>16, <2>1 DEF TypeOK, WalletServesAbandoned
  <2> QED BY <1>16, <2>2 DEF TypeOK, WalletServesAbandoned, handler, queues
<1>17. CASE AnswerLost
  <2>1. Current \in Calls
    BY <1>17, CurrentAccepted DEF AnswerLost, Holding
  <2>2. unserved' \in [Calls -> Nat] /\ abandoned' \in [Calls -> Nat]
    BY <1>17, <2>1, AbandonType DEF AnswerLost
  <2> QED BY <1>17, <2>2, SkipType DEF TypeOK, AnswerLost, handler, queues
<1>18. CASE SenderCredit
  <2>1. sender' \in Senders
    BY <1>18, CreditedInfo DEF SenderCredit, TypeOK, Senders
  <2> QED BY <1>18, <2>1 DEF TypeOK, SenderCredit, handler, queues, wallet
<1>19. CASE SenderInsert
  <2>1. sender.info \in FinancialInfos /\ sender' \in Senders
    BY <1>19 DEF TypeOK, Senders, UnderWay, SenderInsert
  <2>2. moneyDB' \in [Users -> FinancialInfos \cup {NoInfo}]
    BY <1>19, <2>1 DEF TypeOK, SenderInsert
  <2> QED BY <1>19, <2>1, <2>2 DEF TypeOK, SenderInsert, handler, queues, wallet
<1>20. CASE SenderSettle
  <2>1. sender.info \in FinancialInfos /\ sender' \in Senders
    BY <1>20 DEF TypeOK, Senders, UnderWay, SenderSettle
  <2>2. moneyDB' \in [Users -> FinancialInfos \cup {NoInfo}]
    BY <1>20, <2>1 DEF TypeOK, SenderSettle
  <2>3. pending' \in Seq(Calls)
    BY <1>20, RemoveAtProperties DEF TypeOK, UnderWay, Holding, SenderSettle
  <2> QED BY <1>20, <2>1, <2>2, <2>3 DEF TypeOK, SenderSettle, wallet
<1>21. CASE OtherTasksWrite
  <2>1. moneyDB' \in [Users -> FinancialInfos \cup {NoInfo}]
    BY <1>21, WithdrawalsAssumption DEF TypeOK, OtherTasksWrite
  <2> QED BY <1>21, <2>1 DEF TypeOK, OtherTasksWrite, handler, queues, wallet
<1>22. CASE Crash
  <2>1. unserved' \in [Calls -> Nat] /\ abandoned' \in [Calls -> Nat]
    <3>1. CASE sender.pc = "rpc"
      <4>1. Current \in Calls
        BY <3>1, CurrentAccepted DEF Holding
      <4> QED BY <1>22, <3>1, <4>1, AbandonType DEF Crash
    <3>2. CASE sender.pc # "rpc"
      BY <1>22, <3>2 DEF TypeOK, Crash
    <3> QED BY <3>1, <3>2
  <2>2. stage' \in [Calls -> {"new", "fee", "send", "refused", "accepted",
                              "dropped", "settled", "lost"}]
    BY <1>22 DEF TypeOK, Crash
  <2>3. moneyDB' \in [Users -> FinancialInfos \cup {NoInfo}]
    BY <1>22 DEF TypeOK, Crash
  <2> QED BY <1>22, <2>1, <2>2, <2>3, IdleType, EmptySeq DEF TypeOK, Crash
<1>23. CASE UNCHANGED vars
  BY <1>23 DEF TypeOK, vars, handler, queues, wallet
<1> QED
  BY <1>1, <1>2, <1>3, <1>4, <1>5, <1>6, <1>7, <1>8, <1>9, <1>10, <1>11,
     <1>12, <1>13, <1>14, <1>15, <1>16, <1>17, <1>18, <1>19, <1>20, <1>21,
     <1>22, <1>23
  DEF Next, Withdraw, Receiver, Sender, Wallet

-----------------------------------------------------------------------------
(* The queue: what each step does to it and to the calls outstanding.      *)

LEMMA QueueStep ==
  ASSUME IInv, TypeOK', [Next]_vars
  PROVE  \/ Queue' = Queue /\ Accepted' = Accepted
         \/ \E c \in Calls : /\ c \notin Accepted
                           /\ Queue' = Append(Queue, c)
                           /\ Accepted' = Accepted \cup {c}
         \/ \E i \in 1..Len(Queue) : /\ Queue' = RemoveAt(Queue, i)
                                   /\ Accepted' = Accepted \ {Queue[i]}
         \/ Queue' = <<>> /\ Accepted' = {}
<1> USE DEF IInv
<1> DEFINE Kept == Queue' = Queue /\ Accepted' = Accepted
           Grown == \E c \in Calls : /\ c \notin Accepted
                                    /\ Queue' = Append(Queue, c)
                                    /\ Accepted' = Accepted \cup {c}
           Cut == \E i \in 1..Len(Queue) : /\ Queue' = RemoveAt(Queue, i)
                                          /\ Accepted' = Accepted \ {Queue[i]}
           Cleared == Queue' = <<>> /\ Accepted' = {}
<1> SUFFICES Kept \/ Grown \/ Cut \/ Cleared
  OBVIOUS
<1>0. /\ pending \in Seq(Calls) /\ InHand \in Seq(Calls) /\ channel \in Seq(Calls)
      /\ Queue = (pending \o InHand) \o channel
      /\ pending \o InHand \in Seq(Calls)
  BY PendingInQueue, ConcatProperties DEF TypeOK, Queue, InHand
<1>1. ASSUME UNCHANGED <<pending, taken, channel>>,
             \A c \in Calls : stage'[c] = "accepted" <=> stage[c] = "accepted"
      PROVE  Kept
  BY <1>1 DEF Queue, Accepted
<1>2. ASSUME NEW c \in Calls, WithdrawSend(c)
      PROVE  Grown
  <2>1. c \notin Accepted /\ Accepted' = Accepted \cup {c}
    BY <1>2 DEF WithdrawSend, Accepted, TypeOK
  <2>2. Queue' = (pending \o InHand) \o Append(channel, c)
    BY <1>2 DEF WithdrawSend, Queue, InHand
  <2>3. Append(channel, c) = channel \o <<c>>
    BY <1>0, AppendIsConcat
  <2>4. <<c>> \in Seq(Calls)
    OBVIOUS
  <2>5. Queue' = Queue \o <<c>>
    BY <1>0, <2>2, <2>3, <2>4, QueuesAssociative
  <2>6. Queue' = Append(Queue, c)
    BY <2>5, PendingInQueue, AppendIsConcat
  <2> QED BY <2>1, <2>6
<1>3. ASSUME channel # <<>>, taken = NoCall, channel' = Tail(channel),
             UNCHANGED pending
      PROVE  /\ Queue = pending \o channel
             /\ Queue = (pending \o <<Head(channel)>>) \o Tail(channel)
             /\ pending \o <<Head(channel)>> \in Seq(Calls)
  <2>1. Queue = pending \o channel
    BY <1>0, <1>3, ConcatEmptySeq DEF InHand
  <2>2. /\ Head(channel) \in Calls /\ Tail(channel) \in Seq(Calls)
        /\ <<Head(channel)>> \o Tail(channel) = channel
    BY <1>0, <1>3, HeadThenTail
  <2>3. <<Head(channel)>> \in Seq(Calls)
    BY <2>2
  <2>4. /\ pending \o <<Head(channel)>> \in Seq(Calls)
        /\ (pending \o <<Head(channel)>>) \o Tail(channel) = pending \o channel
    BY <1>0, <2>2, <2>3, QueuesAssociative, ConcatProperties
  <2> QED BY <2>1, <2>4
<1>4. CASE ReceiverDrop
  <2>1. /\ channel # <<>> /\ taken = NoCall /\ taken' = NoCall
        /\ channel' = Tail(channel) /\ pending' = pending
    BY <1>4 DEF ReceiverDrop
  <2>2. Queue' = pending \o Tail(channel)
    <3>1. Queue' = (pending \o <<>>) \o Tail(channel)
      BY <2>1 DEF Queue
    <3> QED BY <3>1, <1>0, ConcatEmptySeq
  <2>3. /\ Head(channel) \in Calls /\ Tail(channel) \in Seq(Calls)
        /\ Tail(channel) = RemoveAt(channel, 1)
        /\ 1 \in 1..Len(channel) /\ channel[1] = Head(channel)
    BY <1>0, <2>1, HeadThenTail
  <2>4. Queue = pending \o channel
    BY <1>3, <2>1
  <2>5. /\ Len(pending) \in Nat /\ Len(channel) \in Nat
        /\ Len(pending) + 1 \in 1..Len(Queue)
        /\ Queue[Len(pending) + 1] = Head(channel)
    <3>1. /\ Len(pending \o channel) = Len(pending) + Len(channel)
          /\ \A i \in 1..(Len(pending) + Len(channel)) :
               (pending \o channel)[i] =
                 IF i <= Len(pending) THEN pending[i] ELSE channel[i - Len(pending)]
      BY <1>0, ConcatProperties
    <3>2. Len(pending) \in Nat /\ Len(channel) \in Nat /\ Len(channel) >= 1
      BY <1>0, <2>3, LenProperties
    <3>3. (pending \o channel)[Len(pending) + 1] = channel[Len(pending) + 1 - Len(pending)]
      BY <3>1, <3>2
    <3>4. Len(pending) + 1 - Len(pending) = 1
      BY <3>2
    <3>5. Len(pending) + 1 \in 1..(Len(pending) + Len(channel))
      BY <3>2
    <3> QED BY <2>3, <2>4, <3>1, <3>2, <3>3, <3>4, <3>5
  <2>6. Queue' = RemoveAt(Queue, Len(pending) + 1)
    BY <1>0, <2>2, <2>3, <2>4, RemoveAtOfRight
  <2>7. Accepted' = Accepted \ {Head(channel)}
    BY <1>4, <2>3 DEF ReceiverDrop, Accepted, TypeOK
  <2> QED BY <2>5, <2>6, <2>7
<1>5. CASE ReceiverTake
  <2>1. /\ channel # <<>> /\ taken = NoCall /\ taken' = Head(channel)
        /\ channel' = Tail(channel) /\ pending' = pending
    BY <1>5 DEF ReceiverTake
  <2>2. taken' # NoCall
    BY <1>0, <2>1, HeadThenTail, WithdrawalsAssumption
  <2>3. Queue' = (pending \o <<Head(channel)>>) \o Tail(channel)
    BY <2>1, <2>2 DEF Queue
  <2> QED BY <1>3, <1>5, <2>1, <2>3 DEF ReceiverTake, handler, Accepted
<1>6. CASE ReceiverPush
  <2>1. /\ taken # NoCall /\ taken' = NoCall /\ channel' = channel
        /\ pending' = Append(pending, taken)
    BY <1>6 DEF ReceiverPush
  <2>2. pending' = pending \o InHand
    BY <1>0, <2>1, AppendIsConcat DEF InHand, TypeOK
  <2>3. Queue' = ((pending \o InHand) \o <<>>) \o channel
    BY <2>1, <2>2 DEF Queue
  <2> QED BY <1>0, <1>6, <2>3, ConcatEmptySeq DEF ReceiverPush, handler, Accepted
<1>7. CASE SenderSettle
  <2> DEFINE i == sender.i
             rest == InHand \o channel
  <2>1. /\ i \in 1..Len(pending) /\ Current \in Calls
        /\ i \in 1..Len(Queue) /\ Queue[i] = Current
    BY <1>7, CurrentAccepted DEF SenderSettle, Holding, UnderWay
  <2>2. rest \in Seq(Calls) /\ Queue = pending \o rest
    <3>1. rest \in Seq(Calls)
      BY <1>0, ConcatProperties
    <3>2. Queue = (pending \o InHand) \o channel
      BY DEF Queue, InHand
    <3> QED BY <1>0, <3>2, QueuesAssociative
  <2>3. RemoveAt(pending, i) \in Seq(Calls)
    BY <1>0, <2>1, RemoveAtProperties
  <2>4. Queue' = (RemoveAt(pending, i) \o InHand) \o channel
    BY <1>7 DEF SenderSettle, Queue, InHand
  <2>5. Queue' = RemoveAt(pending, i) \o rest
    BY <1>0, <2>3, <2>4, QueuesAssociative
  <2>6. Queue' = RemoveAt(Queue, i)
    <3> HIDE DEF rest, i
    <3>1. RemoveAt(pending, i) \o rest = RemoveAt(pending \o rest, i)
      BY <1>0, <2>1, <2>2, RemoveAtConcat
    <3> QED BY <2>2, <2>5, <3>1
  <2>7. Accepted' = Accepted \ {Current}
    BY <1>7, <2>1 DEF SenderSettle, Accepted, TypeOK
  <2> QED BY <2>1, <2>6, <2>7
<1>8. CASE Crash
  <2>1. Queue' = <<>>
    <3>1. Queue' = (<<>> \o <<>>) \o <<>>
      BY <1>8 DEF Crash, Queue
    <3> QED BY <3>1, ConcatEmptySeq, EmptySeq
  <2>2. Accepted' = {}
    BY <1>8 DEF Crash, Accepted, TypeOK
  <2> QED BY <2>1, <2>2
<1>9. ASSUME NEW c \in Calls, WithdrawDenied(c) PROVE Kept
  BY <1>1, <1>9 DEF WithdrawDenied, queues, TypeOK
<1>10. ASSUME NEW c \in Calls, WithdrawAuthorized(c) PROVE Kept
  BY <1>1, <1>10 DEF WithdrawAuthorized, queues, TypeOK
<1>11. ASSUME NEW c \in Calls, NEW net_fee \in NetFees \cup {NoFee},
              WithdrawRefused(c, net_fee) PROVE Kept
  BY <1>1, <1>11 DEF WithdrawRefused, queues, TypeOK
<1>12. ASSUME NEW c \in Calls, NEW net_fee \in NetFees \cup {NoFee},
              WithdrawChecked(c, net_fee) PROVE Kept
  BY <1>1, <1>12 DEF WithdrawChecked, queues, TypeOK
<1>13. CASE SenderLock \/ SenderEndPass
  BY <1>1, <1>13 DEF SenderLock, SenderEndPass, handler
<1>14. CASE \/ SenderBegin \/ TransferDelivered \/ TransferUndelivered
            \/ SenderCredit \/ SenderInsert
  BY <1>1, <1>14
  DEF SenderBegin, TransferDelivered, TransferUndelivered, SenderCredit,
      SenderInsert, handler, queues
<1>15. CASE Wallet \/ AnswerLost \/ OtherTasksWrite \/ UNCHANGED vars
  BY <1>1, <1>15
  DEF Wallet, WalletPays, WalletRefuses, WalletServesAbandoned, AnswerLost,
      OtherTasksWrite, vars, handler, queues
<1> HIDE DEF Kept, Grown, Cut, Cleared
<1> QED
  BY <1>2, <1>4, <1>5, <1>6, <1>7, <1>8, <1>9, <1>10, <1>11, <1>12, <1>13,
     <1>14, <1>15
  DEF Next, Withdraw, Receiver, Sender

LEMMA QueueIsOutstandingStep ==
  IInv /\ TypeOK' /\ [Next]_vars => QueueIsOutstanding'
<1> SUFFICES ASSUME IInv, TypeOK', [Next]_vars PROVE QueueIsOutstanding'
  OBVIOUS
<1>1. Queue \in Seq(Calls) /\ NoRepeat(Queue) /\ ToSet(Queue) = Accepted
  BY PendingInQueue DEF IInv, QueueIsOutstanding, NoRepeat, Accepted
<1>2. SUFFICES NoRepeat(Queue') /\ ToSet(Queue') = Accepted'
  BY DEF QueueIsOutstanding, NoRepeat, Accepted
<1>3. CASE Queue' = Queue /\ Accepted' = Accepted
  BY <1>1, <1>3
<1>4. ASSUME NEW c \in Calls, c \notin Accepted, Queue' = Append(Queue, c),
             Accepted' = Accepted \cup {c}
      PROVE  NoRepeat(Queue') /\ ToSet(Queue') = Accepted'
  BY <1>1, <1>4, AppendNoRepeat
<1>5. ASSUME NEW i \in 1..Len(Queue), Queue' = RemoveAt(Queue, i),
             Accepted' = Accepted \ {Queue[i]}
      PROVE  NoRepeat(Queue') /\ ToSet(Queue') = Accepted'
  BY <1>1, <1>5, RemoveAtNoRepeat
<1>6. CASE Queue' = <<>> /\ Accepted' = {}
  BY <1>6 DEF NoRepeat, ToSet
<1> QED BY <1>3, <1>4, <1>5, <1>6, QueueStep

-----------------------------------------------------------------------------
(* What a call under way may rely on.                                      *)

LEMMA UnderWayStep == IInv /\ TypeOK' /\ [Next]_vars => UnderWay'
<1> SUFFICES ASSUME IInv, TypeOK', [Next]_vars PROVE UnderWay'
  OBVIOUS
<1> USE DEF IInv
<1> DEFINE Calling == \A c \in Calls :
             /\ stage[c] = "fee" => form[c] \in Forms
             /\ stage[c] \in {"send", "accepted"} =>
                  req[c] \in TransferReqs /\ moneyDB[req[c].username] # NoInfo
           Locking == sender.pc \notin {"yield", "lock"} =>
                        lockQueue # <<>> /\ Head(lockQueue) = "sender"
           Inside == Holding => sender.i \in 1..Len(pending)
           Crediting == sender.pc \in {"insert", "flush"} =>
                          sender.fee # NoFee /\ sender.info # NoInfo
<1>0. Calling /\ Locking /\ Inside /\ Crediting
  BY DEF UnderWay
<1>1. SUFFICES Calling' /\ Locking' /\ Inside' /\ Crediting'
  BY DEF UnderWay
<1>2. Calling'
  <2>1. ASSUME NEW c \in Calls, WithdrawDenied(c) PROVE Calling'
    BY <1>0, <2>1 DEF WithdrawDenied, TypeOK
  <2>2. ASSUME NEW c \in Calls, WithdrawAuthorized(c) PROVE Calling'
    BY <1>0, <2>2 DEF WithdrawAuthorized, TypeOK
  <2>3. ASSUME NEW c \in Calls, NEW net_fee \in NetFees \cup {NoFee},
               WithdrawRefused(c, net_fee) PROVE Calling'
    BY <1>0, <2>3 DEF WithdrawRefused, TypeOK
  <2>4. ASSUME NEW c \in Calls, NEW net_fee \in NetFees \cup {NoFee},
               WithdrawChecked(c, net_fee) PROVE Calling'
    <3>1. /\ stage' = [stage EXCEPT ![c] = "send"] /\ moneyDB' = moneyDB
          /\ form' = [form EXCEPT ![c] = NoReq]
          /\ moneyDB[form[c].username] # NoInfo
      BY <2>4 DEF WithdrawChecked
    <3>2. /\ req'[c] \in TransferReqs /\ req'[c].username = form[c].username
          /\ \A d \in Calls \ {c} : req'[d] = req[d]
      BY <2>4, CheckedReq
    <3> QED BY <1>0, <3>1, <3>2 DEF TypeOK
  <2>5. ASSUME NEW c \in Calls, WithdrawSend(c) PROVE Calling'
    BY <1>0, <2>5 DEF WithdrawSend, TypeOK
  <2>6. CASE ReceiverDrop
    BY <1>0, <2>6 DEF ReceiverDrop, TypeOK
  <2>7. CASE SenderInsert \/ SenderSettle
    <3>1. sender.info # NoInfo
      BY <1>0, <2>7 DEF SenderInsert, SenderSettle
    <3>2. /\ \E u : moneyDB' = [moneyDB EXCEPT ![u] = sender.info]
          /\ form' = form /\ req' = req
          /\ \A c \in Calls : stage'[c] \in {"fee", "send", "accepted"} =>
                              stage'[c] = stage[c]
      BY <2>7 DEF SenderInsert, SenderSettle, handler, TypeOK
    <3> QED BY <1>0, <3>1, <3>2 DEF TypeOK, TransferReqs
  <2>8. CASE OtherTasksWrite
    <3>1. /\ \E u, info : moneyDB' = [moneyDB EXCEPT ![u] = info] /\ info # NoInfo
          /\ stage' = stage /\ form' = form /\ req' = req
      BY <2>8, WithdrawalsAssumption DEF OtherTasksWrite, handler
    <3> QED BY <1>0, <3>1 DEF TypeOK, TransferReqs
  <2>9. CASE Crash
    BY <2>9 DEF Crash, TypeOK
  <2>10. ASSUME UNCHANGED <<moneyDB, handler>> PROVE Calling'
    BY <1>0, <2>10 DEF handler
  <2>11. CASE ReceiverTake \/ ReceiverPush
    BY <2>10, <2>11 DEF ReceiverTake, ReceiverPush
  <2>12. CASE \/ SenderLock \/ SenderBegin \/ SenderEndPass
              \/ TransferDelivered \/ TransferUndelivered \/ SenderCredit
    BY <2>10, <2>12
    DEF SenderLock, SenderBegin, SenderEndPass, TransferDelivered,
        TransferUndelivered, SenderCredit
  <2>13. CASE Wallet \/ AnswerLost \/ UNCHANGED vars
    BY <2>10, <2>13
    DEF Wallet, WalletPays, WalletRefuses, WalletServesAbandoned, AnswerLost, vars
  <2> HIDE DEF Calling
  <2> QED
    BY <2>1, <2>2, <2>3, <2>4, <2>5, <2>6, <2>7, <2>8, <2>9, <2>11, <2>12, <2>13
    DEF Next, Withdraw, Receiver, Sender
<1>3. Locking'
  <2>1. lockQueue \in Seq({"receiver", "sender"})
    BY DEF TypeOK
  <2>2. ASSUME NEW who \in {"receiver", "sender"},
               lockQueue' = Append(lockQueue, who),
               sender'.pc \notin {"yield", "lock"} => sender.pc \notin {"yield", "lock"}
        PROVE  Locking'
    BY <1>0, <2>1, <2>2, AppendProperties, HeadTailAppend
  <2>3. ASSUME lockQueue' = lockQueue,
               sender'.pc \notin {"yield", "lock"} => sender.pc \notin {"yield", "lock"}
        PROVE  Locking'
    BY <1>0, <2>3
  <2>4. ASSUME UNCHANGED <<queues, sender>> PROVE Locking'
    BY <1>0, <2>4 DEF queues
  <2>5. ASSUME NEW c \in Calls, WithdrawSend(c) PROVE Locking'
    BY <2>3, <2>5 DEF WithdrawSend
  <2>6. CASE ReceiverDrop
    BY <2>3, <2>6 DEF ReceiverDrop
  <2>7. CASE ReceiverTake
    BY <2>2, <2>7 DEF ReceiverTake
  <2>8. CASE ReceiverPush
    BY <1>0, <2>8 DEF ReceiverPush
  <2>9. CASE SenderLock
    BY <2>2, <2>9 DEF SenderLock, TypeOK, Senders
  <2>10. CASE SenderBegin
    BY <2>10 DEF SenderBegin, queues
  <2>11. CASE SenderEndPass \/ Crash
    BY <2>11 DEF SenderEndPass, Crash, Idle
  <2>12. CASE TransferDelivered \/ TransferUndelivered \/ WalletRefuses \/ AnswerLost
    BY <2>3, <2>12
    DEF TransferDelivered, TransferUndelivered, WalletRefuses, AnswerLost,
        WalletReady, SenderSkip, queues, TypeOK, Senders
  <2>13. CASE WalletPays \/ SenderCredit \/ SenderInsert \/ SenderSettle
    BY <2>3, <2>13
    DEF WalletPays, WalletReady, SenderCredit, SenderInsert, SenderSettle,
        queues, TypeOK, Senders
  <2>14. ASSUME NEW c \in Calls,
                \/ WithdrawDenied(c) \/ WithdrawAuthorized(c)
                \/ \E net_fee \in NetFees \cup {NoFee} :
                     WithdrawRefused(c, net_fee) \/ WithdrawChecked(c, net_fee)
                \/ WalletServesAbandoned(c)
         PROVE  Locking'
    BY <2>4, <2>14
    DEF WithdrawDenied, WithdrawAuthorized, WithdrawRefused, WithdrawChecked,
        WalletServesAbandoned
  <2>15. CASE OtherTasksWrite \/ UNCHANGED vars
    BY <2>4, <2>15 DEF OtherTasksWrite, vars
  <2> HIDE DEF Locking
  <2> QED
    BY <2>5, <2>6, <2>7, <2>8, <2>9, <2>10, <2>11, <2>12, <2>13, <2>14, <2>15
    DEF Next, Withdraw, Receiver, Sender, Wallet
<1>4. Inside' /\ Crediting'
  <2>1. ASSUME UNCHANGED <<pending, sender>> PROVE Inside' /\ Crediting'
    BY <1>0, <2>1 DEF Holding
  <2>2. CASE ReceiverPush
    <3>1. ~ Holding /\ sender.pc \in {"yield", "lock"}
      BY <1>0, <2>2 DEF ReceiverPush, Holding
    <3> QED BY <2>2, <3>1 DEF ReceiverPush, Holding
  <2>3. CASE SenderLock \/ SenderBegin \/ SenderEndPass \/ Crash
    BY <2>3 DEF SenderLock, SenderBegin, SenderEndPass, Crash, Idle, Holding,
                TypeOK, Senders
  <2>4. CASE TransferDelivered
    BY <2>4, LenProperties DEF TransferDelivered, queues, Holding, TypeOK, Senders
  <2>5. CASE TransferUndelivered \/ WalletRefuses \/ AnswerLost \/ SenderSettle
    <3>1. sender \in Senders
      BY DEF TypeOK
    <3>2. sender'.pc = "scan"
      BY <2>5, <3>1 DEF TransferUndelivered, WalletRefuses, AnswerLost,
                        SenderSettle, SenderSkip, Senders
    <3> QED BY <3>2 DEF Holding
  <2>6. CASE WalletPays
    BY <1>0, <2>6 DEF WalletPays, WalletReady, queues, Holding, TypeOK, Senders
  <2>7. CASE SenderCredit
    <3>1. sender'.info \in FinancialInfos
      BY <2>7, CreditedInfo
    <3>2. /\ sender.pc = "rpc" /\ sender.fee # NoFee /\ pending' = pending
          /\ sender'.fee = sender.fee /\ sender'.i = sender.i
      BY <2>7 DEF SenderCredit, queues, TypeOK, Senders
    <3> QED BY <1>0, <3>1, <3>2, WithdrawalsAssumption DEF Holding
  <2>8. CASE SenderInsert
    BY <1>0, <2>8 DEF SenderInsert, queues, Holding, TypeOK, Senders
  <2>9. ASSUME NEW c \in Calls, Withdraw(c) PROVE Inside' /\ Crediting'
    BY <2>1, <2>9
    DEF Withdraw, WithdrawSend, WithdrawRefused, WithdrawChecked, queues
  <2>10. ASSUME NEW c \in Calls,
                WithdrawDenied(c) \/ WithdrawAuthorized(c) \/ WalletServesAbandoned(c)
         PROVE  Inside' /\ Crediting'
    BY <2>1, <2>10
    DEF WithdrawDenied, WithdrawAuthorized, WalletServesAbandoned, queues
  <2>11. CASE ReceiverDrop \/ ReceiverTake \/ OtherTasksWrite \/ UNCHANGED vars
    BY <2>1, <2>11 DEF ReceiverDrop, ReceiverTake, OtherTasksWrite, vars, queues
  <2> HIDE DEF Inside, Crediting
  <2> QED
    BY <2>2, <2>3, <2>4, <2>5, <2>6, <2>7, <2>8, <2>9, <2>10, <2>11
    DEF Next, Receiver, Sender, Wallet
<1> QED BY <1>2, <1>3, <1>4

-----------------------------------------------------------------------------
(* Every payment is accounted for.                                         *)

LEMMA PendingAccepted ==
  ASSUME TypeOK, QueueIsOutstanding
  PROVE  \A c \in ToSet(pending) : c \in Calls /\ stage[c] = "accepted"
<1>1. ASSUME NEW i \in 1..Len(pending)
      PROVE  pending[i] \in Calls /\ stage[pending[i]] = "accepted"
  <2>1. pending[i] \in Calls /\ pending[i] \in ToSet(Queue)
    BY PendingInQueue, LenProperties DEF ToSet
  <2> QED BY <2>1 DEF QueueIsOutstanding
<1> QED BY <1>1, LenProperties DEF ToSet, TypeOK

LEMMA ChannelAccepted ==
  ASSUME TypeOK, QueueIsOutstanding, channel # <<>>, taken = NoCall
  PROVE  /\ Head(channel) \in Calls /\ stage[Head(channel)] = "accepted"
         /\ Head(channel) \notin ToSet(pending)
<1>1. channel \in Seq(Calls) /\ pending \in Seq(Calls)
  BY DEF TypeOK
<1>2. Queue = pending \o channel
  <2>1. Queue = (pending \o <<>>) \o channel
    BY DEF Queue
  <2> QED BY <1>1, <2>1, ConcatEmptySeq
<1>3. /\ Len(pending) \in Nat /\ Len(channel) \in Nat /\ Len(channel) >= 1
      /\ Head(channel) \in Calls /\ channel[1] = Head(channel)
  BY <1>1, HeadThenTail, LenProperties
<1>4. /\ Queue \in Seq(Calls) /\ Len(Queue) = Len(pending) + Len(channel)
      /\ \A i \in 1..(Len(pending) + Len(channel)) :
           Queue[i] = IF i <= Len(pending) THEN pending[i] ELSE channel[i - Len(pending)]
  BY <1>1, <1>2, ConcatProperties
<1>5. /\ Len(pending) + 1 \in 1..Len(Queue)
      /\ Queue[Len(pending) + 1] = Head(channel)
  <2>1. Len(pending) + 1 - Len(pending) = 1
    BY <1>3
  <2> QED BY <1>3, <1>4, <2>1
<1>6. Head(channel) \in ToSet(Queue)
  BY <1>4, <1>5, LenProperties DEF ToSet
<1>7. Head(channel) \notin ToSet(pending)
  <2>1. SUFFICES ASSUME NEW i \in 1..Len(pending), pending[i] = Head(channel)
                 PROVE  FALSE
    BY <1>1, LenProperties DEF ToSet
  <2>2. i \in 1..Len(Queue) /\ Queue[i] = Queue[Len(pending) + 1]
    BY <1>3, <1>4, <1>5, <2>1
  <2> QED BY <1>3, <1>5, <2>2 DEF QueueIsOutstanding
<1> QED BY <1>3, <1>6, <1>7 DEF QueueIsOutstanding

(* What the sender gives up moves from one side of the account to the other. *)
LEMMA AbandonAccounted ==
  ASSUME IInv, sender.pc = "rpc", Abandon, payments' = payments, NEW c \in Calls
  PROVE  /\ payments'[c] + unserved'[c] <=
              abandoned'[c] + (IF stage[c] \in {"settled", "lost"} THEN 1 ELSE 0)
         /\ payments'[c] + unserved'[c] > 0 =>
              c \in ToSet(pending) \/ stage[c] \in {"settled", "lost"}
         /\ stage[c] = "settled" => unserved'[c] = 0
<1> USE DEF IInv
<1>1. Holding
  BY DEF Holding
<1>2. Current \in Calls /\ stage[Current] = "accepted"
  BY <1>1, CurrentAccepted
<1>3. Current \in ToSet(pending)
  <2>1. sender.i \in 1..Len(pending)
    BY <1>1 DEF UnderWay
  <2> QED BY <2>1, LenProperties DEF ToSet, Current, TypeOK
<1>4. /\ payments[c] \in Nat /\ unserved[c] \in Nat /\ abandoned[c] \in Nat
      /\ payments[c] + unserved[c] <=
           abandoned[c] + (IF \/ stage[c] \in {"settled", "lost"}
                              \/ Answered /\ Current = c THEN 1 ELSE 0)
      /\ payments[c] + unserved[c] > 0 =>
           c \in ToSet(pending) \/ stage[c] \in {"settled", "lost"}
      /\ stage[c] = "settled" => unserved[c] = 0
  BY DEF TypeOK, Accounted, AccountedFor
<1>5. CASE c # Current
  <2>1. unserved'[c] = unserved[c] /\ abandoned'[c] = abandoned[c]
    BY <1>2, <1>5 DEF Abandon, TypeOK
  <2> QED BY <1>4, <1>5, <2>1
<1>6. CASE c = Current /\ sender.fee = NoFee
  <2>1. unserved'[c] = unserved[c] + 1 /\ abandoned'[c] = abandoned[c] + 1
    BY <1>2, <1>6 DEF Abandon, TypeOK
  <2>2. ~ Answered
    BY <1>6 DEF Answered
  <2> QED BY <1>2, <1>3, <1>4, <1>6, <2>1, <2>2
<1>7. CASE c = Current /\ sender.fee # NoFee
  <2>1. unserved'[c] = unserved[c] /\ abandoned'[c] = abandoned[c] + 1
    BY <1>2, <1>7 DEF Abandon, TypeOK
  <2> QED BY <1>2, <1>3, <1>4, <1>7, <2>1
<1> QED BY <1>5, <1>6, <1>7

LEMMA AccountedStep == IInv /\ TypeOK' /\ [Next]_vars => Accounted'
<1> SUFFICES ASSUME IInv, TypeOK', [Next]_vars PROVE Accounted'
  OBVIOUS
<1> USE DEF IInv
<1> DEFINE Done(c) == stage[c] \in {"settled", "lost"}
           Paying(c) == Answered /\ Current = c
<1>1. \A c \in Calls :
        /\ payments[c] \in Nat /\ unserved[c] \in Nat /\ abandoned[c] \in Nat
        /\ payments'[c] \in Nat /\ unserved'[c] \in Nat /\ abandoned'[c] \in Nat
  BY DEF TypeOK
(* Steps that touch neither the wallet nor the sender's turn.              *)
<1>2. ASSUME UNCHANGED <<payments, unserved, abandoned, sender>>,
             ToSet(pending) \subseteq ToSet(pending'),
             Holding => pending' = pending,
             \A d \in Calls : stage'[d] = "settled" <=> stage[d] = "settled",
             \A d \in Calls : stage'[d] = "lost" <=> stage[d] = "lost"
      PROVE  Accounted'
  <2>1. Answered' <=> Answered
    BY <1>2 DEF Answered, Holding
  <2>2. \A c \in Calls : Paying(c)' <=> Paying(c)
    BY <1>2, <2>1 DEF Answered, Current
  <2> SUFFICES ASSUME NEW c \in Calls
      PROVE /\ payments'[c] + unserved'[c] <=
                 abandoned'[c] + (IF Done(c)' \/ Paying(c)' THEN 1 ELSE 0)
            /\ payments'[c] + unserved'[c] > 0 => c \in ToSet(pending') \/ Done(c)'
            /\ stage'[c] = "settled" \/ Answered' => unserved'[c] = 0
            /\ Paying(c)' => payments'[c] > 0
    BY DEF Accounted, AccountedFor, Paying
  <2>3. /\ payments[c] + unserved[c] <=
             abandoned[c] + (IF Done(c) \/ Paying(c) THEN 1 ELSE 0)
        /\ payments[c] + unserved[c] > 0 => c \in ToSet(pending) \/ Done(c)
        /\ stage[c] = "settled" \/ Answered => unserved[c] = 0
        /\ Paying(c) => payments[c] > 0
    BY DEF Accounted, AccountedFor, Paying
  <2>4. /\ payments'[c] = payments[c] /\ unserved'[c] = unserved[c]
        /\ abandoned'[c] = abandoned[c]
    BY <1>2
  <2>5. c \in ToSet(pending) => c \in ToSet(pending')
    BY <1>2
  <2>6. stage'[c] = "settled" <=> stage[c] = "settled"
    BY <1>2
  <2>7. stage'[c] = "lost" <=> stage[c] = "lost"
    BY <1>2
  <2>8. Done(c)' <=> Done(c)
    BY <2>6, <2>7
  <2> HIDE DEF Paying, Done
  <2> QED BY <1>1, <2>1, <2>2, <2>3, <2>4, <2>5, <2>6, <2>8
(* Steps of the sender before it has an answer.                            *)
<1>3. ASSUME UNCHANGED <<handler, payments, unserved, abandoned, pending>>,
             ~ Answered, ~ Answered'
      PROVE  Accounted'
  BY <1>1, <1>3 DEF Accounted, AccountedFor, handler
(* Steps of the sender with its answer in hand.                            *)
<1>4. ASSUME UNCHANGED <<handler, payments, unserved, abandoned, pending>>,
             Answered, Answered', sender'.i = sender.i
      PROVE  Accounted'
  BY <1>1, <1>4 DEF Accounted, AccountedFor, handler, Current
<1>5. ASSUME NEW c \in Calls, WithdrawDenied(c) \/ WithdrawAuthorized(c) \/ Withdraw(c)
      PROVE  Accounted'
  <2>1. /\ \A d \in Calls : stage'[d] = "settled" <=> stage[d] = "settled"
        /\ \A d \in Calls : stage'[d] = "lost" <=> stage[d] = "lost"
    BY <1>5 DEF WithdrawDenied, WithdrawAuthorized, Withdraw, WithdrawSend,
                WithdrawRefused, WithdrawChecked, TypeOK
  <2>2. UNCHANGED <<payments, unserved, abandoned, sender, pending>>
    BY <1>5 DEF WithdrawDenied, WithdrawAuthorized, Withdraw, WithdrawSend,
                WithdrawRefused, WithdrawChecked, queues, wallet
  <2> QED BY <1>2, <2>1, <2>2
<1>6. CASE ReceiverDrop
  <2>1. Head(channel) \in Calls /\ stage[Head(channel)] = "accepted"
    BY <1>6, ChannelAccepted, HeadThenTail DEF ReceiverDrop, TypeOK
  <2>2. /\ \A d \in Calls : stage'[d] = "settled" <=> stage[d] = "settled"
        /\ \A d \in Calls : stage'[d] = "lost" <=> stage[d] = "lost"
    BY <1>6, <2>1 DEF ReceiverDrop, TypeOK
  <2> QED BY <1>2, <1>6, <2>2 DEF ReceiverDrop, wallet
<1>7. CASE ReceiverTake \/ OtherTasksWrite \/ UNCHANGED vars
  BY <1>2, <1>7 DEF ReceiverTake, OtherTasksWrite, vars, handler, queues, wallet
<1>8. CASE ReceiverPush
  <2>1. ~ Holding
    BY <1>8 DEF ReceiverPush, UnderWay, Holding
  <2>2. ToSet(pending) \subseteq ToSet(pending')
    <3>1. /\ Len(pending) \in Nat /\ DOMAIN pending = 1..Len(pending)
          /\ DOMAIN pending' = 1..(Len(pending) + 1)
          /\ \A i \in 1..Len(pending) : pending'[i] = pending[i]
      BY <1>8, AppendProperties, LenProperties DEF ReceiverPush, TypeOK
    <3> QED BY <3>1 DEF ToSet
  <2> QED BY <1>2, <1>8, <2>1, <2>2 DEF ReceiverPush, handler, wallet
<1>9. CASE SenderLock \/ SenderBegin \/ SenderEndPass
  <2>1. ~ Answered /\ ~ Answered'
    <3>1. sender.pc \in {"yield", "lock", "scan"}
      BY <1>9 DEF SenderLock, SenderBegin, SenderEndPass
    <3>2. sender'.pc \in {"yield", "lock", "scan"}
      BY <1>9 DEF SenderLock, SenderBegin, SenderEndPass, Idle, TypeOK, Senders
    <3> QED BY <3>1, <3>2 DEF Answered, Holding
  <2> QED BY <1>3, <1>9, <2>1
          DEF SenderLock, SenderBegin, SenderEndPass, queues, wallet
<1>10. CASE TransferDelivered
  <2>1. ~ Answered /\ ~ Answered'
    BY <1>10 DEF TransferDelivered, Answered, Holding, TypeOK, Senders
  <2> QED BY <1>3, <1>10, <2>1 DEF TransferDelivered, queues, wallet
<1>11. CASE TransferUndelivered \/ WalletRefuses
  <2>1. ~ Answered
    BY <1>11 DEF TransferUndelivered, WalletRefuses, WalletReady, Answered, Holding
  <2>2. ~ Answered'
    BY <1>11, SkipScans DEF TransferUndelivered, WalletRefuses, TypeOK
  <2> QED BY <1>3, <1>11, <2>1, <2>2
          DEF TransferUndelivered, WalletRefuses, queues, wallet
<1>12. CASE WalletPays
  <2>1. /\ sender.pc = "rpc" /\ sender.fee = NoFee
        /\ \A d \in Calls : unserved[d] = 0
        /\ UNCHANGED <<stage, pending, unserved, abandoned>>
        /\ payments' = [payments EXCEPT ![Current] = @ + 1]
    BY <1>12 DEF WalletPays, WalletReady, handler, queues
  <2>2. ~ Answered /\ Holding
    BY <2>1 DEF Answered, Holding
  <2>3. /\ Current \in Calls /\ stage[Current] = "accepted"
        /\ sender.i \in 1..Len(pending)
    BY <2>2, CurrentAccepted DEF UnderWay
  <2>4. Current \in ToSet(pending)
    BY <2>3, LenProperties DEF ToSet, Current, TypeOK
  <2>5. Answered' /\ sender'.i = sender.i
    BY <1>12, WithdrawalsAssumption
    DEF WalletPays, WalletReady, Answered, Holding, TypeOK, Senders
  <2>6. Current' = Current
    BY <2>1, <2>5 DEF Current
  <2> SUFFICES ASSUME NEW c \in Calls PROVE AccountedFor(c)'
    BY DEF Accounted
  <2>7. AccountedFor(c)
    BY DEF Accounted
  <2>8. CASE c = Current
    <3>1. payments'[c] = payments[c] + 1 /\ unserved[c] = 0
      BY <2>1, <2>3, <2>8 DEF TypeOK
    <3> QED BY <1>1, <2>1, <2>2, <2>3, <2>4, <2>5, <2>6, <2>7, <2>8, <3>1
            DEF AccountedFor
  <2>9. CASE c # Current
    <3>1. payments'[c] = payments[c]
      BY <2>1, <2>3, <2>9 DEF TypeOK
    <3> QED BY <1>1, <2>1, <2>2, <2>6, <2>7, <2>9, <3>1 DEF AccountedFor
  <2> QED BY <2>8, <2>9
<1>13. ASSUME NEW c \in Calls, WalletServesAbandoned(c) PROVE Accounted'
  <2>1. /\ unserved[c] > 0 /\ unserved' = [unserved EXCEPT ![c] = @ - 1]
        /\ payments' \in {payments, [payments EXCEPT ![c] = @ + 1]}
        /\ UNCHANGED <<stage, pending, abandoned, sender>>
    BY <1>13 DEF WalletServesAbandoned, handler, queues
  <2>2. ~ Answered /\ ~ Answered'
    <3>1. ~ Answered
      BY <1>1, <2>1 DEF Accounted, AccountedFor
    <3> QED BY <2>1, <3>1 DEF Answered, Holding
  <2> SUFFICES ASSUME NEW d \in Calls PROVE AccountedFor(d)'
    BY DEF Accounted
  <2>3. AccountedFor(d)
    BY DEF Accounted
  <2>4. CASE d = c
    <3>1. /\ unserved'[d] = unserved[d] - 1
          /\ payments'[d] \in {payments[d], payments[d] + 1}
      BY <2>1, <2>4 DEF TypeOK
    <3>2. /\ payments'[d] + unserved'[d] <= payments[d] + unserved[d]
          /\ payments[d] + unserved[d] > 0 /\ unserved[d] # 0
      BY <1>1, <2>1, <2>4, <3>1
    <3> QED BY <1>1, <2>1, <2>2, <2>3, <3>2 DEF AccountedFor
  <2>5. CASE d # c
    <3>1. unserved'[d] = unserved[d] /\ payments'[d] = payments[d]
      BY <2>1, <2>5 DEF TypeOK
    <3> QED BY <1>1, <2>1, <2>2, <2>3, <3>1 DEF AccountedFor
  <2> QED BY <2>4, <2>5
<1>14. CASE AnswerLost
  <2>1. ~ Answered'
    BY <1>14, SkipScans DEF AnswerLost, TypeOK
  <2>2. UNCHANGED <<stage, pending, payments>> /\ sender.pc = "rpc" /\ Abandon
    BY <1>14 DEF AnswerLost, handler, queues
  <2> SUFFICES ASSUME NEW c \in Calls PROVE AccountedFor(c)'
    BY DEF Accounted
  <2>3. /\ payments'[c] + unserved'[c] <=
             abandoned'[c] + (IF stage[c] \in {"settled", "lost"} THEN 1 ELSE 0)
        /\ payments'[c] + unserved'[c] > 0 =>
             c \in ToSet(pending) \/ stage[c] \in {"settled", "lost"}
        /\ stage[c] = "settled" => unserved'[c] = 0
    BY <2>2, AbandonAccounted
  <2> QED BY <2>1, <2>2, <2>3 DEF AccountedFor
<1>15. CASE SenderCredit \/ SenderInsert
  <2>0. sender \in Senders
    BY DEF TypeOK
  <2>1. Answered /\ Answered' /\ sender'.i = sender.i
    <3>1. CASE SenderCredit
      BY <2>0, <3>1 DEF SenderCredit, Answered, Holding, Senders
    <3>2. CASE SenderInsert
      BY <2>0, <3>2 DEF SenderInsert, UnderWay, Answered, Holding, Senders
    <3> QED BY <1>15, <3>1, <3>2
  <2> QED BY <1>4, <1>15, <2>1 DEF SenderCredit, SenderInsert, queues, wallet
<1>16. CASE SenderSettle
  <2>1. Answered /\ sender.i \in 1..Len(pending)
    BY <1>16 DEF SenderSettle, UnderWay, Answered, Holding
  <2>2. ~ Answered'
    BY <1>16 DEF SenderSettle, Answered, Holding, TypeOK, Senders
  <2>3. Current \in Calls /\ stage[Current] = "accepted"
    BY <2>1, CurrentAccepted DEF Answered
  <2>4. ToSet(pending') = ToSet(pending) \ {Current}
    <3>1. NoRepeat(pending)
      BY PendingInQueue DEF NoRepeat, QueueIsOutstanding
    <3> QED BY <1>16, <2>1, <3>1, RemoveAtNoRepeat DEF SenderSettle, Current, TypeOK
  <2>5. /\ stage' = [stage EXCEPT ![Current] = "settled"]
        /\ UNCHANGED <<payments, unserved, abandoned>>
    BY <1>16 DEF SenderSettle, wallet
  <2> SUFFICES ASSUME NEW c \in Calls PROVE AccountedFor(c)'
    BY DEF Accounted
  <2>6. AccountedFor(c)
    BY DEF Accounted
  <2>7. CASE c = Current
    <3>1. stage'[c] = "settled"
      BY <2>3, <2>5, <2>7 DEF TypeOK
    <3> QED BY <1>1, <2>1, <2>2, <2>5, <2>6, <2>7, <3>1 DEF AccountedFor
  <2>8. CASE c # Current
    <3>1. stage'[c] = stage[c]
      BY <2>3, <2>5, <2>8 DEF TypeOK
    <3> QED BY <1>1, <2>1, <2>2, <2>4, <2>5, <2>6, <2>8, <3>1 DEF AccountedFor
  <2> QED BY <2>7, <2>8
<1>17. CASE Crash
  <2>1. ~ Answered'
    BY <1>17 DEF Crash, Idle, Answered, Holding
  <2> SUFFICES ASSUME NEW c \in Calls PROVE AccountedFor(c)'
    BY DEF Accounted
  <2>2. AccountedFor(c)
    BY DEF Accounted
  <2>3. /\ payments' = payments
        /\ stage'[c] = "settled" <=> stage[c] = "settled"
        /\ stage'[c] = "lost" <=> stage[c] \in {"accepted", "lost"}
    BY <1>17 DEF Crash, TypeOK
  <2>4. c \in ToSet(pending) => stage[c] = "accepted"
    BY PendingAccepted
  <2>5. Answered /\ Current = c => stage[c] = "accepted"
    BY CurrentAccepted DEF Answered
  <2>6. CASE sender.pc = "rpc"
    <3>1. Abandon
      BY <1>17, <2>6 DEF Crash
    <3>2. /\ payments'[c] + unserved'[c] <=
               abandoned'[c] + (IF stage[c] \in {"settled", "lost"} THEN 1 ELSE 0)
          /\ payments'[c] + unserved'[c] > 0 =>
               c \in ToSet(pending) \/ stage[c] \in {"settled", "lost"}
          /\ stage[c] = "settled" => unserved'[c] = 0
      BY <2>3, <2>6, <3>1, AbandonAccounted
    <3> QED BY <1>1, <2>1, <2>3, <2>4, <3>2 DEF AccountedFor
  <2>7. CASE sender.pc # "rpc"
    <3>1. unserved' = unserved /\ abandoned' = abandoned
      BY <1>17, <2>7 DEF Crash
    <3> QED BY <1>1, <2>1, <2>2, <2>3, <2>4, <2>5, <3>1 DEF AccountedFor
  <2> QED BY <2>6, <2>7
<1> HIDE DEF Done, Paying
<1> QED
  BY <1>5, <1>6, <1>7, <1>8, <1>9, <1>10, <1>11, <1>12, <1>13, <1>14, <1>15,
     <1>16, <1>17
  DEF Next, Receiver, Sender, Wallet

-----------------------------------------------------------------------------
(* The theorems.                                                           *)

LEMMA InitIInv == Init => IInv
<1> SUFFICES ASSUME Init PROVE IInv
  OBVIOUS
<1>1. TypeOK
  BY TypeInit
<1>2. Queue = <<>>
  <2>1. Queue = (<<>> \o <<>>) \o <<>>
    BY DEF Init, Queue
  <2> QED BY <2>1, ConcatEmptySeq, EmptySeq
<1>3. QueueIsOutstanding
  BY <1>2 DEF QueueIsOutstanding, Init, ToSet
<1>4. UnderWay
  BY DEF UnderWay, Init, Idle, Holding
<1>5. Accounted
  BY DEF Accounted, AccountedFor, Init, Idle, Answered, Holding
<1> QED BY <1>1, <1>3, <1>4, <1>5 DEF IInv

LEMMA IInvStep == IInv /\ [Next]_vars => IInv'
BY TypeStep, QueueIsOutstandingStep, UnderWayStep, AccountedStep DEF IInv

(* IInv holds in every state of every run of the pipeline.                 *)
THEOREM Inductive == Spec => []IInv
<1>1. Init => IInv
  BY InitIInv
<1>2. IInv /\ [Next]_vars => IInv'
  BY IInvStep
<1> QED BY <1>1, <1>2, PTL DEF Spec

(* The variables keep their types: in particular the amounts handed to the *)
(* wallet and the records written back are those of the code's types.      *)
THEOREM TypeCorrect == Spec => []TypeOK
<1>1. IInv => TypeOK
  BY DEF IInv
<1> QED BY <1>1, Inductive, PTL

(* A withdrawal that got a 200 OK and is not dealt with is in exactly one  *)
(* place of the pipeline, however the two tasks of send_monero interleave. *)
THEOREM NothingMislaid == Spec => []QueueIsOutstanding
<1>1. IInv => QueueIsOutstanding
  BY DEF IInv
<1> QED BY <1>1, Inductive, PTL

(* Paying twice takes an answer the sender missed.                         *)
THEOREM DuplicatesExplained == Spec => []DuplicateNeedsAbandon
<1>1. IInv => DuplicateNeedsAbandon
  <2> SUFFICES ASSUME IInv, NEW c \in Calls
               PROVE  payments[c] <= 1 + abandoned[c]
    BY DEF DuplicateNeedsAbandon
  <2>1. /\ payments[c] \in Nat /\ unserved[c] \in Nat /\ abandoned[c] \in Nat
        /\ AccountedFor(c)
    BY DEF IInv, TypeOK, Accounted
  <2> QED BY <2>1 DEF AccountedFor
<1> QED BY <1>1, Inductive, PTL

(* Nothing more is paid for a settled call.                                *)
THEOREM SettledFinal == Spec => []SettledIsQuiet
<1>1. IInv => SettledIsQuiet
  BY DEF IInv, Accounted, AccountedFor, SettledIsQuiet
<1> QED BY <1>1, Inductive, PTL

(* The queue is first in, first out, but for requests taken out of it.     *)
THEOREM OrderPreserved == Spec => OrderKept
<1> DEFINE Step == \/ Queue' = Queue \/ Queue' = <<>>
                   \/ \E c \in Calls : Queue' = Append(Queue, c)
                   \/ \E i \in 1..Len(Queue) : Queue' = RemoveAt(Queue, i)
<1>1. IInv /\ IInv' /\ [Next]_vars => Step
  BY QueueStep DEF IInv
<1> QED BY <1>1, Inductive, PTL DEF Spec, OrderKept

-----------------------------------------------------------------------------
(* The pipeline implements Payouts.                                        *)

LEMMA OutcomeMove ==
  ASSUME TypeOK, TypeOK', NEW c \in Calls, NEW s,
         stage' = [stage EXCEPT ![c] = s], s \notin {"fee", "send"}
  PROVE  Outcome' = [Outcome EXCEPT ![c] = s]
BY DEF Outcome, TypeOK

LEMMA RefinementStep ==
  IInv /\ IInv' /\ [Next]_vars => [Abstract!Next]_<<Outcome, payments>>
<1> SUFFICES ASSUME IInv, IInv', [Next]_vars
             PROVE  Abstract!Next \/ UNCHANGED <<Outcome, payments>>
  OBVIOUS
<1> USE DEF IInv
<1>1. ASSUME UNCHANGED <<payments, handler>>
      PROVE  UNCHANGED <<Outcome, payments>>
  BY <1>1 DEF Outcome, handler
<1>2. ASSUME NEW c \in Calls,
             \/ WithdrawDenied(c)
             \/ \E net_fee \in NetFees \cup {NoFee} : WithdrawRefused(c, net_fee)
      PROVE  Abstract!Refuse(c)
  <2>1. /\ stage[c] \in {"new", "fee"} /\ payments' = payments
        /\ stage' = [stage EXCEPT ![c] = "refused"]
    BY <1>2 DEF WithdrawDenied, WithdrawRefused, wallet
  <2>2. Outcome[c] = "new" /\ Outcome' = [Outcome EXCEPT ![c] = "refused"]
    BY <2>1, OutcomeMove DEF Outcome
  <2> QED BY <2>1, <2>2 DEF Abstract!Refuse, Abstract!Move
<1>3. ASSUME NEW c \in Calls,
             \/ WithdrawAuthorized(c)
             \/ \E net_fee \in NetFees \cup {NoFee} : WithdrawChecked(c, net_fee)
      PROVE  UNCHANGED <<Outcome, payments>>
  <2>1. /\ payments' = payments /\ stage[c] \in {"new", "fee"}
        /\ \E s \in {"fee", "send"} : stage' = [stage EXCEPT ![c] = s]
    BY <1>3 DEF WithdrawAuthorized, WithdrawChecked, wallet
  <2> QED BY <2>1 DEF Outcome, TypeOK
<1>4. ASSUME NEW c \in Calls, WithdrawSend(c)
      PROVE  Abstract!Accept(c)
  <2>1. /\ stage[c] = "send" /\ payments' = payments
        /\ stage' = [stage EXCEPT ![c] = "accepted"]
    BY <1>4 DEF WithdrawSend, wallet
  <2>2. Outcome[c] = "new" /\ Outcome' = [Outcome EXCEPT ![c] = "accepted"]
    BY <2>1, OutcomeMove DEF Outcome
  <2> QED BY <2>1, <2>2 DEF Abstract!Accept, Abstract!Move
<1>5. CASE ReceiverDrop
  <2> DEFINE c == Head(channel)
  <2>1. /\ c \in Calls /\ stage[c] = "accepted" /\ c \notin ToSet(pending)
        /\ payments' = payments /\ stage' = [stage EXCEPT ![c] = "dropped"]
    BY <1>5, ChannelAccepted DEF ReceiverDrop, wallet
  <2>2. payments[c] = 0
    <3>1. payments[c] \in Nat /\ unserved[c] \in Nat /\ AccountedFor(c)
      BY <2>1 DEF Accounted, TypeOK
    <3> HIDE DEF c
    <3> QED BY <2>1, <3>1 DEF AccountedFor
  <2>3. Outcome[c] = "accepted" /\ Outcome' = [Outcome EXCEPT ![c] = "dropped"]
    BY <2>1, OutcomeMove DEF Outcome
  <2>4. Abstract!Drop(c)
    BY <2>1, <2>2, <2>3 DEF Abstract!Drop, Abstract!Move
  <2> QED BY <2>1, <2>4 DEF Abstract!Next
<1>6. CASE SenderSettle
  <2>1. Answered /\ Holding
    BY <1>6 DEF SenderSettle, UnderWay, Answered, Holding
  <2>2. Current \in Calls /\ stage[Current] = "accepted"
    BY <2>1, CurrentAccepted
  <2>3. payments[Current] > 0
    BY <2>1, <2>2 DEF Accounted, AccountedFor
  <2>4. payments' = payments /\ stage' = [stage EXCEPT ![Current] = "settled"]
    BY <1>6 DEF SenderSettle, wallet
  <2>5. Outcome[Current] = "accepted" /\ Outcome' = [Outcome EXCEPT ![Current] = "settled"]
    BY <2>2, <2>4, OutcomeMove DEF Outcome
  <2>6. Abstract!Settle(Current)
    BY <2>3, <2>4, <2>5 DEF Abstract!Settle, Abstract!Move
  <2> QED BY <2>2, <2>6 DEF Abstract!Next
<1>7. CASE WalletPays
  <2>1. Current \in Calls /\ stage[Current] = "accepted"
    BY <1>7, CurrentAccepted DEF WalletPays, WalletReady, Holding
  <2>2. /\ payments' = [payments EXCEPT ![Current] = @ + 1]
        /\ UNCHANGED Outcome
    BY <1>7 DEF WalletPays, Outcome, handler
  <2>3. Abstract!Pay(Current)
    BY <2>1, <2>2 DEF Abstract!Pay, Outcome
  <2> QED BY <2>1, <2>3 DEF Abstract!Next
<1>8. ASSUME NEW c \in Calls, WalletServesAbandoned(c)
      PROVE  Abstract!Pay(c) \/ UNCHANGED <<Outcome, payments>>
  <2>1. stage[c] \in {"accepted", "lost"}
    <3>1. payments[c] \in Nat /\ unserved[c] \in Nat /\ unserved[c] > 0
      BY <1>8 DEF WalletServesAbandoned, TypeOK
    <3>2. AccountedFor(c)
      BY DEF Accounted
    <3> QED BY <3>1, <3>2, PendingAccepted DEF AccountedFor
  <2>2. /\ payments' \in {payments, [payments EXCEPT ![c] = @ + 1]}
        /\ UNCHANGED Outcome
    BY <1>8 DEF WalletServesAbandoned, Outcome, handler
  <2> QED BY <2>1, <2>2 DEF Abstract!Pay, Outcome
<1>9. CASE Crash
  <2> DEFINE cut == {c \in Calls : stage[c] \in {"fee", "send"}}
  <2>1. /\ payments' = payments
        /\ stage' = [c \in Calls |->
                        CASE stage[c] = "accepted"        -> "lost"
                          [] stage[c] \in {"fee", "send"} -> "refused"
                          [] OTHER                        -> stage[c]]
    BY <1>9 DEF Crash
  <2>2. cut \in SUBSET {c \in Calls : Outcome[c] = "new"}
    BY DEF Outcome
  <2>3. Outcome' = [c \in Calls |->
                      IF Outcome[c] = "accepted" THEN "lost"
                      ELSE IF c \in cut THEN "refused" ELSE Outcome[c]]
    <3> SUFFICES ASSUME NEW c \in Calls
                 PROVE  Outcome'[c] = IF Outcome[c] = "accepted" THEN "lost"
                                      ELSE IF c \in cut THEN "refused" ELSE Outcome[c]
      BY DEF Outcome
    <3>1. CASE stage[c] = "accepted"
      BY <2>1, <3>1 DEF Outcome
    <3>2. CASE stage[c] \in {"fee", "send"}
      BY <2>1, <3>2 DEF Outcome
    <3>3. CASE stage[c] \notin {"accepted", "fee", "send"}
      BY <2>1, <3>3 DEF Outcome
    <3> QED BY <3>1, <3>2, <3>3
  <2>4. Abstract!Restart
    BY <2>1, <2>2, <2>3 DEF Abstract!Restart
  <2> QED BY <2>4 DEF Abstract!Next
<1>10. CASE \/ ReceiverTake \/ ReceiverPush \/ SenderLock \/ SenderBegin
            \/ SenderEndPass \/ TransferDelivered \/ TransferUndelivered
            \/ SenderCredit \/ SenderInsert
  BY <1>1, <1>10
  DEF ReceiverTake, ReceiverPush, SenderLock, SenderBegin, SenderEndPass,
      TransferDelivered, TransferUndelivered, SenderCredit, SenderInsert, wallet
<1>11. CASE WalletRefuses \/ AnswerLost \/ OtherTasksWrite \/ UNCHANGED vars
  BY <1>1, <1>11 DEF WalletRefuses, AnswerLost, OtherTasksWrite, vars, wallet
<1> QED
  BY <1>2, <1>3, <1>4, <1>5, <1>6, <1>7, <1>8, <1>9, <1>10, <1>11
  DEF Next, Withdraw, Receiver, Sender, Wallet, Abstract!Next

(* Whatever the tasks, the lock, the retries and restarts do, what happens *)
(* to a call is what Payouts allows: it is paid only once accepted, settled *)
(* only once paid, dropped only unpaid, and never paid after it settled.   *)
THEOREM Refinement == Spec => ImplementsPayouts
<1>1. Init => Abstract!Init
  BY DEF Init, Abstract!Init, Outcome
<1>2. IInv /\ IInv' /\ [Next]_vars => [Abstract!Next]_<<Outcome, payments>>
  BY RefinementStep
<1> QED BY <1>1, <1>2, Inductive, PTL DEF Spec, ImplementsPayouts, Abstract!Spec

=============================================================================
