-------------------------- MODULE Pipeline_proofs ---------------------------
(***************************************************************************)
(* Proofs about Pipeline, for every number of worker threads, every size   *)
(* of the rings, every threshold and every set of task objects.            *)
(***************************************************************************)
EXTENDS Pipeline, SequenceTheorems, FiniteSetTheorems, TLAPS

USE SizesAssumption, LayoutAssumption

(* A ring as one sequence: what is queued, and the overflow behind it.     *)
RingType == [queue : Seq(Tasks), overflow : Seq(Tasks)]
All(r)   == r.queue \o r.overflow
Bounded(r) == r \in RingType /\ Len(r.queue) <= Cap

-----------------------------------------------------------------------------
(* Sequences without repetition and their elements.                        *)

LEMMA AppendSet ==
    ASSUME NEW S, NEW s \in Seq(S), NEW t \in S
    PROVE  /\ Append(s, t) \in Seq(S) /\ ToSet(Append(s, t)) = ToSet(s) \cup {t}
           /\ t \notin ToSet(s) /\ NoneTwice(s) => NoneTwice(Append(s, t))
<1>1. /\ Append(s, t) \in Seq(S) /\ Len(Append(s, t)) = Len(s) + 1
      /\ \A i \in 1..Len(s) : Append(s, t)[i] = s[i]
      /\ Append(s, t)[Len(s) + 1] = t
  BY AppendProperties
<1>2. /\ DOMAIN s = 1..Len(s) /\ DOMAIN Append(s, t) = 1..(Len(s) + 1) /\ Len(s) \in Nat
  BY <1>1, LenProperties
<1>3. ToSet(Append(s, t)) = ToSet(s) \cup {t}
  BY <1>1, <1>2 DEF ToSet
<1>4. ASSUME t \notin ToSet(s), NoneTwice(s) PROVE NoneTwice(Append(s, t))
  <2>1. \A i \in 1..Len(s) : s[i] # t
    BY <1>2, <1>4 DEF ToSet
  <2> QED BY <1>1, <1>2, <1>4, <2>1 DEF NoneTwice
<1> QED BY <1>1, <1>3, <1>4

LEMMA TailSet ==
    ASSUME NEW S, NEW s \in Seq(S), s # <<>>, NoneTwice(s)
    PROVE  /\ Head(s) \in ToSet(s) /\ ToSet(Tail(s)) = ToSet(s) \ {Head(s)}
           /\ NoneTwice(Tail(s))
<1>1. /\ Head(s) = s[1] /\ Tail(s) \in Seq(S) /\ Len(Tail(s)) = Len(s) - 1
      /\ \A i \in 1..Len(Tail(s)) : Tail(s)[i] = s[i + 1]
      /\ Len(s) \in Nat \ {0}
  BY HeadTailProperties, EmptySeq
<1>2. DOMAIN s = 1..Len(s) /\ DOMAIN Tail(s) = 1..(Len(s) - 1)
  BY <1>1, LenProperties
<1>3. Head(s) \in ToSet(s)
  BY <1>1, <1>2 DEF ToSet
<1>4. ToSet(Tail(s)) = ToSet(s) \ {Head(s)}
  <2>1. ASSUME NEW x \in ToSet(Tail(s)) PROVE x \in ToSet(s) \ {Head(s)}
    <3>1. PICK i \in 1..(Len(s) - 1) : x = Tail(s)[i]
      BY <1>2 DEF ToSet
    <3>2. x = s[i + 1] /\ i + 1 \in 1..Len(s) /\ i + 1 # 1 /\ 1 \in 1..Len(s)
      BY <1>1, <3>1
    <3>3. x # s[1]
      BY <3>2 DEF NoneTwice
    <3> QED BY <1>1, <1>2, <3>2, <3>3 DEF ToSet
  <2>2. ASSUME NEW x \in ToSet(s) \ {Head(s)} PROVE x \in ToSet(Tail(s))
    <3>1. PICK i \in 1..Len(s) : x = s[i]
      BY <1>2 DEF ToSet
    <3>2. i - 1 \in 1..(Len(s) - 1) /\ x = Tail(s)[i - 1]
      BY <1>1, <3>1
    <3> QED BY <1>2, <3>2 DEF ToSet
  <2> QED BY <2>1, <2>2
<1>5. NoneTwice(Tail(s))
  <2>1. ASSUME NEW i \in 1..Len(Tail(s)), NEW j \in 1..Len(Tail(s)), Tail(s)[i] = Tail(s)[j]
        PROVE  i = j
    <3>1. s[i + 1] = s[j + 1] /\ i + 1 \in 1..Len(s) /\ j + 1 \in 1..Len(s)
      BY <1>1, <2>1
    <3>2. i + 1 = j + 1
      BY <3>1 DEF NoneTwice
    <3> QED BY <3>2
  <2> QED BY <2>1 DEF NoneTwice
<1> QED BY <1>3, <1>4, <1>5

LEMMA ConcatSet ==
    ASSUME NEW S, NEW s \in Seq(S), NEW t \in Seq(S)
    PROVE  /\ s \o t \in Seq(S) /\ ToSet(s \o t) = ToSet(s) \cup ToSet(t)
           /\ NoneTwice(s \o t) => ToSet(s) \cap ToSet(t) = {} /\ NoneTwice(s)
<1>1. /\ s \o t \in Seq(S) /\ Len(s \o t) = Len(s) + Len(t)
      /\ \A i \in 1..(Len(s) + Len(t)) :
            (s \o t)[i] = IF i <= Len(s) THEN s[i] ELSE t[i - Len(s)]
  BY ConcatProperties
<1>2. /\ DOMAIN s = 1..Len(s) /\ DOMAIN t = 1..Len(t) /\ Len(s) \in Nat /\ Len(t) \in Nat
      /\ DOMAIN (s \o t) = 1..(Len(s) + Len(t))
  BY <1>1, LenProperties
<1>3. \A i \in 1..Len(s) : (s \o t)[i] = s[i] /\ i \in 1..(Len(s) + Len(t))
  BY <1>1, <1>2
<1>4. \A i \in 1..Len(t) : (s \o t)[i + Len(s)] = t[i] /\ i + Len(s) \in 1..(Len(s) + Len(t))
  BY <1>1, <1>2
<1>5. ToSet(s \o t) = ToSet(s) \cup ToSet(t)
  <2>1. ASSUME NEW x \in ToSet(s \o t) PROVE x \in ToSet(s) \cup ToSet(t)
    <3>1. PICK i \in 1..(Len(s) + Len(t)) : x = (s \o t)[i]
      BY <1>2 DEF ToSet
    <3>2. CASE i <= Len(s)
      BY <1>1, <1>2, <3>1, <3>2 DEF ToSet
    <3>3. CASE ~(i <= Len(s))
      <4>1. x = t[i - Len(s)] /\ i - Len(s) \in 1..Len(t)
        BY <1>1, <1>2, <3>1, <3>3
      <4> QED BY <1>2, <4>1 DEF ToSet
    <3> QED BY <3>2, <3>3
  <2>2. ToSet(s) \subseteq ToSet(s \o t)
    BY <1>2, <1>3 DEF ToSet
  <2>3. ToSet(t) \subseteq ToSet(s \o t)
    BY <1>2, <1>4 DEF ToSet
  <2> QED BY <2>1, <2>2, <2>3
<1>6. ASSUME NoneTwice(s \o t) PROVE ToSet(s) \cap ToSet(t) = {} /\ NoneTwice(s)
  <2>1. NoneTwice(s)
    BY <1>1, <1>3, <1>6 DEF NoneTwice
  <2>2. ASSUME NEW x \in ToSet(s), x \in ToSet(t) PROVE FALSE
    <3>1. PICK i \in 1..Len(s) : x = s[i]
      BY <1>2 DEF ToSet
    <3>2. PICK j \in 1..Len(t) : x = t[j]
      BY <1>2, <2>2 DEF ToSet
    <3>3. i # j + Len(s)
      BY <1>2
    <3>4. (s \o t)[i] = (s \o t)[j + Len(s)]
      BY <1>3, <1>4, <3>1, <3>2
    <3> QED BY <1>1, <1>3, <1>4, <1>6, <3>3, <3>4 DEF NoneTwice
  <2> QED BY <2>1, <2>2
<1> QED BY <1>1, <1>5, <1>6

(* A sequence without repetition has as many elements as places.           *)
LEMMA LengthIsCount ==
    ASSUME NEW S, NEW s \in Seq(S), NoneTwice(s)
    PROVE  IsFiniteSet(ToSet(s)) /\ Cardinality(ToSet(s)) = Len(s)
<1>1. s \in [1..Len(s) -> ToSet(s)] /\ Len(s) \in Nat /\ DOMAIN s = 1..Len(s)
  BY LenProperties DEF ToSet
<1>2. s \in Bijection(1..Len(s), ToSet(s))
  BY <1>1 DEF ToSet, NoneTwice, Bijection, Injection, Surjection, IsInjective
<1>3. ExistsBijection(1..Len(s), ToSet(s))
  BY <1>2 DEF ExistsBijection
<1> QED BY <1>1, <1>3, FS_CountingElements, FS_NatBijection

-----------------------------------------------------------------------------
(* Rings.                                                                  *)

LEMMA SplitSeq ==
    ASSUME NEW S, NEW s \in Seq(S), NEW n \in 0..Len(s)
    PROVE  /\ SubSeq(s, 1, n) \in Seq(S) /\ Len(SubSeq(s, 1, n)) = n
           /\ SubSeq(s, n + 1, Len(s)) \in Seq(S) /\ Len(SubSeq(s, n + 1, Len(s))) = Len(s) - n
           /\ SubSeq(s, 1, n) \o SubSeq(s, n + 1, Len(s)) = s
<1>1. Len(s) \in Nat /\ \A i \in 1..Len(s) : s[i] \in S
  BY LenProperties, ElementOfSeq
<1>2. SubSeq(s, 1, n) \in Seq(S) /\ Len(SubSeq(s, 1, n)) = IF 1 <= n THEN n - 1 + 1 ELSE 0
  BY <1>1, SubSeqProperties
<1>3. /\ SubSeq(s, n + 1, Len(s)) \in Seq(S)
      /\ Len(SubSeq(s, n + 1, Len(s))) = IF n + 1 <= Len(s) THEN Len(s) - (n + 1) + 1 ELSE 0
  <2>1. \A i \in (n + 1)..Len(s) : s[i] \in S
    BY <1>1
  <2> QED BY <1>1, <2>1, SubSeqProperties
<1>4. SubSeq(s, 1, n) \o SubSeq(s, n + 1, Len(s)) = SubSeq(s, 1, Len(s))
  <2>1. 1 \in 1..(Len(s) + 1) /\ n \in (1 - 1)..Len(s) /\ Len(s) \in n..Len(s)
    BY <1>1
  <2> QED BY <2>1, ConcatAdjacentSubSeq
<1>5. SubSeq(s, 1, Len(s)) = s
  BY SubSeqFull
<1>6. Len(SubSeq(s, 1, n)) = n
  BY <1>1, <1>2
<1>7. Len(SubSeq(s, n + 1, Len(s))) = Len(s) - n
  BY <1>1, <1>3
<1> QED BY <1>2, <1>3, <1>4, <1>5, <1>6, <1>7

LEMMA TailConcat ==
    ASSUME NEW S, NEW s \in Seq(S), NEW t \in Seq(S), s # <<>>
    PROVE  /\ s \o t \in Seq(S) /\ s \o t # <<>>
           /\ Head(s \o t) = Head(s) /\ Tail(s \o t) = Tail(s) \o t
<1>1. Len(s) \in Nat \ {0} /\ Len(t) \in Nat
  BY EmptySeq, LenProperties
<1> DEFINE all   == s \o t
           down  == Tail(s)
           left  == down \o t
           right == Tail(all)
<1>2. /\ all \in Seq(S) /\ Len(all) = Len(s) + Len(t)
      /\ \A i \in 1..(Len(s) + Len(t)) : all[i] = IF i <= Len(s) THEN s[i] ELSE t[i - Len(s)]
  BY ConcatProperties
<1>5. /\ down \in Seq(S) /\ Len(down) = Len(s) - 1
      /\ \A i \in 1..(Len(s) - 1) : down[i] = s[i + 1]
  BY HeadTailProperties
<1> HIDE DEF all, down
<1>3. all # <<>>
  BY <1>1, <1>2, EmptySeq
<1>4. Head(all) = Head(s)
  BY <1>1, <1>2
<1>6. /\ left \in Seq(S) /\ Len(left) = Len(s) - 1 + Len(t)
      /\ \A i \in 1..(Len(s) - 1 + Len(t)) :
            left[i] = IF i <= Len(s) - 1 THEN down[i] ELSE t[i - (Len(s) - 1)]
  <2>1. /\ left \in Seq(S) /\ Len(left) = Len(down) + Len(t)
        /\ \A i \in 1..(Len(down) + Len(t)) :
              left[i] = IF i <= Len(down) THEN down[i] ELSE t[i - Len(down)]
    BY <1>5, ConcatProperties
  <2> HIDE DEF left
  <2> QED BY <1>1, <1>5, <2>1
<1>7. /\ right \in Seq(S) /\ Len(right) = Len(s) + Len(t) - 1
      /\ \A i \in 1..(Len(s) + Len(t) - 1) : right[i] = all[i + 1]
  <2>1. /\ right \in Seq(S) /\ Len(right) = Len(all) - 1
        /\ \A i \in 1..Len(right) : right[i] = all[i + 1]
    BY <1>2, <1>3, HeadTailProperties
  <2> HIDE DEF right
  <2> QED BY <1>1, <1>2, <2>1
<1> HIDE DEF left, right
<1>8. ASSUME NEW i \in 1..(Len(s) - 1 + Len(t)) PROVE left[i] = right[i]
  <2>1. i + 1 \in 1..(Len(s) + Len(t)) /\ i \in 1..(Len(s) + Len(t) - 1)
    BY <1>1
  <2>2. i + 1 - Len(s) = i - (Len(s) - 1) /\ (i + 1 <= Len(s) <=> i <= Len(s) - 1)
    BY <1>1
  <2>3. CASE i <= Len(s) - 1
    BY <1>1, <1>2, <1>5, <1>6, <1>7, <2>1, <2>3
  <2>4. CASE ~(i <= Len(s) - 1)
    BY <1>1, <1>2, <1>6, <1>7, <2>1, <2>2, <2>4
  <2> QED BY <2>3, <2>4
<1>9. left = right
  BY <1>1, <1>6, <1>7, <1>8, SeqEqual
<1> QED BY <1>2, <1>3, <1>4, <1>9 DEF all, down, left, right

LEMMA DrainAll ==
    ASSUME NEW r, Bounded(r)
    PROVE  /\ Bounded(Drain(r)) /\ All(Drain(r)) = All(r)
           /\ Len(Drain(r).queue) < Cap => Drain(r).overflow = <<>>
           /\ CanPull(r) => CanPull(Drain(r))
           /\ r.overflow = <<>> => Drain(r).overflow = <<>> /\ Drain(r).queue = r.queue
<1>1. PICK q \in Seq(Tasks) : q = r.queue
  BY DEF Bounded, RingType
<1>2. PICK o \in Seq(Tasks) : o = r.overflow
  BY DEF Bounded, RingType
<1>3. Len(q) \in Nat /\ Len(o) \in Nat /\ Len(q) <= Cap
  BY <1>1, LenProperties DEF Bounded
<1>4. PICK n \in 0..Len(o) : n = IF Cap - Len(q) < Len(o) THEN Cap - Len(q) ELSE Len(o)
  BY <1>3
<1>5. Len(q) + n <= Cap /\ (n < Len(o) => Len(q) + n = Cap)
  BY <1>3, <1>4
<1> DEFINE up   == SubSeq(o, 1, n)
           rest == SubSeq(o, n + 1, Len(o))
<1>6. up \in Seq(Tasks) /\ Len(up) = n
  BY SplitSeq
<1>7. rest \in Seq(Tasks) /\ Len(rest) = Len(o) - n
  BY SplitSeq
<1>8. up \o rest = o
  BY SplitSeq
<1>9. /\ Drain(r) = [queue |-> q \o up, overflow |-> rest]
      /\ Drain(r).queue = q \o up /\ Drain(r).overflow = rest
  BY <1>1, <1>2, <1>4 DEF Drain
<1> HIDE DEF up, rest
<1>10. q \o up \in Seq(Tasks) /\ Len(q \o up) = Len(q) + n
  BY <1>6, ConcatProperties
<1>11. Bounded(Drain(r))
  <2>1. Drain(r) \in RingType
    BY <1>7, <1>9, <1>10 DEF RingType
  <2> QED BY <1>5, <1>9, <1>10, <2>1 DEF Bounded
<1>12. All(Drain(r)) = All(r)
  <2>1. (q \o up) \o rest = q \o (up \o rest)
    BY ConcatAssociative
  <2> QED BY <1>1, <1>2, <1>8, <1>9, <2>1 DEF All
<1>13. ASSUME Len(Drain(r).queue) < Cap PROVE Drain(r).overflow = <<>>
  <2>1. Len(rest) = 0
    BY <1>3, <1>4, <1>5, <1>7, <1>9, <1>10, <1>13
  <2>2. rest = <<>>
    BY <2>1, EmptySeq
  <2> QED BY <1>9, <2>2
<1>14. ASSUME r.overflow = <<>> PROVE Drain(r).overflow = <<>> /\ Drain(r).queue = r.queue
  <2>1. Len(o) = 0
    BY <1>2, <1>14, EmptySeq
  <2>2. up = <<>> /\ rest = <<>>
    BY <1>4, <1>6, <1>7, <2>1, EmptySeq
  <2>3. q \o <<>> = q
    BY ConcatEmptySeq
  <2> QED BY <1>1, <1>9, <2>2, <2>3
<1>15. ASSUME CanPull(r) PROVE CanPull(Drain(r))
  <2>0. Len(q) # 0
    BY <1>1, <1>15, EmptySeq DEF CanPull
  <2>1. Len(q \o up) # 0
    BY <1>3, <1>4, <1>10, <2>0
  <2> QED BY <1>9, <1>10, <2>1, EmptySeq DEF CanPull
<1> QED BY <1>11, <1>12, <1>13, <1>14, <1>15

LEMMA PushAll ==
    ASSUME NEW r, Bounded(r), NEW t \in Tasks
    PROVE  /\ Bounded(PushTo(r, t)) /\ All(PushTo(r, t)) = Append(All(r), t)
           /\ GetFree(r) > 0 => PushTo(r, t).overflow = <<>>
           /\ CanPull(r) => CanPull(PushTo(r, t))
<1> DEFINE d == Drain(r)
<1>1. /\ Bounded(d) /\ All(d) = All(r) /\ (Len(d.queue) < Cap => d.overflow = <<>>)
      /\ CanPull(r) => CanPull(d)
  BY DrainAll
<1>2. ASSUME GetFree(r) > 0 PROVE Len(d.queue) < Cap
  <2>1. r.overflow = <<>> /\ Cap - Len(r.queue) > 0
    BY <1>2 DEF GetFree
  <2>2. Len(r.queue) \in Nat
    BY LenProperties DEF Bounded, RingType
  <2> QED BY <2>1, <2>2, DrainAll
<1>3. /\ PushTo(r, t) = IF Len(d.queue) < Cap THEN [d EXCEPT !.queue = Append(@, t)]
                        ELSE [d EXCEPT !.overflow = Append(@, t)]
  BY DEF PushTo
<1> HIDE DEF d
<1>4. d \in RingType /\ d.queue \in Seq(Tasks) /\ d.overflow \in Seq(Tasks) /\ Len(d.queue) \in Nat
  BY <1>1, LenProperties DEF Bounded, RingType
<1>5. CASE Len(d.queue) < Cap
  <2>0. PushTo(r, t) = [d EXCEPT !.queue = Append(@, t)]
    BY <1>3, <1>5
  <2>1. PushTo(r, t).queue = Append(d.queue, t) /\ PushTo(r, t).overflow = <<>>
    BY <1>1, <1>3, <1>4, <1>5 DEF RingType
  <2>2. Append(d.queue, t) \in Seq(Tasks) /\ Len(Append(d.queue, t)) = Len(d.queue) + 1
    BY <1>4, AppendProperties
  <2>3. Bounded(PushTo(r, t))
    <3>1. PushTo(r, t) \in RingType
      BY <1>4, <2>0, <2>2 DEF RingType
    <3>2. Len(d.queue) + 1 <= Cap
      BY <1>4, <1>5
    <3> QED BY <2>1, <2>2, <3>1, <3>2 DEF Bounded
  <2>4. All(PushTo(r, t)) = Append(d.queue, t)
    BY <2>1, <2>2, ConcatEmptySeq DEF All
  <2>5. All(d) = d.queue
    BY <1>1, <1>4, <1>5, ConcatEmptySeq DEF All
  <2>6. CanPull(PushTo(r, t))
    BY <1>4, <2>1, <2>2, EmptySeq DEF CanPull
  <2> QED BY <1>1, <2>1, <2>3, <2>4, <2>5, <2>6
<1>6. CASE ~(Len(d.queue) < Cap)
  <2>1. PushTo(r, t).queue = d.queue /\ PushTo(r, t).overflow = Append(d.overflow, t)
    BY <1>3, <1>4, <1>6 DEF RingType
  <2>2. Append(d.overflow, t) \in Seq(Tasks) /\ <<t>> \in Seq(Tasks)
        /\ Append(d.overflow, t) = d.overflow \o <<t>>
    BY <1>4, AppendProperties, AppendIsConcat
  <2>3. Bounded(PushTo(r, t))
    BY <1>1, <1>3, <1>4, <1>6, <2>2 DEF Bounded, RingType
  <2>4. All(PushTo(r, t)) = All(d) \o <<t>>
    <3>1. PICK u \in Seq(Tasks) : u = <<t>>
      BY <2>2
    <3>2. PICK q \in Seq(Tasks) : q = d.queue
      BY <1>4
    <3>3. PICK o \in Seq(Tasks) : o = d.overflow
      BY <1>4
    <3>4. q \o (o \o u) = (q \o o) \o u
      BY ConcatAssociative
    <3> QED BY <2>1, <2>2, <3>1, <3>2, <3>3, <3>4 DEF All
  <2>5. All(d) \in Seq(Tasks)
    BY <1>4, ConcatProperties DEF All
  <2>6. CanPull(d) => CanPull(PushTo(r, t))
    BY <2>1 DEF CanPull
  <2> QED BY <1>1, <1>2, <1>6, <2>3, <2>4, <2>5, <2>6, AppendIsConcat
<1> QED BY <1>5, <1>6

LEMMA PulledAll ==
    ASSUME NEW r, Bounded(r), CanPull(r)
    PROVE  /\ Bounded(Pulled(r)) /\ All(r) # <<>> /\ All(Pulled(r)) = Tail(All(r))
           /\ Head(r.queue) = Head(All(r)) /\ Head(r.queue) \in Tasks
           /\ Pulled(r).overflow = r.overflow /\ Len(Pulled(r).queue) = Len(r.queue) - 1
<1>1. PICK q \in Seq(Tasks) : q = r.queue
  BY DEF Bounded, RingType
<1>2. PICK o \in Seq(Tasks) : o = r.overflow
  BY DEF Bounded, RingType
<1>3. q # <<>> /\ Len(q) \in Nat \ {0} /\ Len(q) <= Cap
  BY <1>1, EmptySeq DEF Bounded, CanPull
<1>4. Tail(q) \in Seq(Tasks) /\ Len(Tail(q)) = Len(q) - 1 /\ Head(q) \in Tasks
  BY <1>3, HeadTailProperties
<1>5. Pulled(r) \in RingType /\ Pulled(r).queue = Tail(q) /\ Pulled(r).overflow = o
  BY <1>1, <1>2, <1>4 DEF Pulled, Bounded, RingType
<1>6. Bounded(Pulled(r))
  BY <1>3, <1>4, <1>5 DEF Bounded
<1>7. q \o o # <<>> /\ Head(q \o o) = Head(q) /\ Tail(q \o o) = Tail(q) \o o
  BY <1>3, TailConcat
<1> QED BY <1>1, <1>2, <1>4, <1>5, <1>6, <1>7 DEF All

(* What is in a ring, and that it is in there once.                        *)
Elements(r) == ToSet(r.queue) \cup ToSet(r.overflow)
Sound(r)    == Bounded(r) /\ NoneTwice(All(r))

LEMMA ElementsAll ==
    ASSUME NEW r, Bounded(r)
    PROVE  /\ All(r) \in Seq(Tasks) /\ Elements(r) = ToSet(All(r))
           /\ Elements(r) \subseteq Tasks
<1>1. PICK q \in Seq(Tasks) : q = r.queue
  BY DEF Bounded, RingType
<1>2. PICK o \in Seq(Tasks) : o = r.overflow
  BY DEF Bounded, RingType
<1>3. q \o o \in Seq(Tasks) /\ ToSet(q \o o) = ToSet(q) \cup ToSet(o)
  BY ConcatSet
<1>4. \A s \in Seq(Tasks) : ToSet(s) \subseteq Tasks
  BY LenProperties, ElementOfSeq DEF ToSet
<1> QED BY <1>1, <1>2, <1>3, <1>4 DEF All, Elements

LEMMA RingDrain ==
    ASSUME NEW r, Sound(r)
    PROVE  Sound(Drain(r)) /\ Elements(Drain(r)) = Elements(r)
BY DrainAll, ElementsAll DEF Sound

LEMMA RingPush ==
    ASSUME NEW r, Sound(r), NEW t \in Tasks, t \notin Elements(r)
    PROVE  Sound(PushTo(r, t)) /\ Elements(PushTo(r, t)) = Elements(r) \cup {t}
<1>1. Bounded(PushTo(r, t)) /\ All(PushTo(r, t)) = Append(All(r), t)
  BY PushAll DEF Sound
<1>2. All(r) \in Seq(Tasks) /\ t \notin ToSet(All(r)) /\ NoneTwice(All(r))
  BY ElementsAll DEF Sound
<1>3. /\ ToSet(Append(All(r), t)) = ToSet(All(r)) \cup {t}
      /\ NoneTwice(Append(All(r), t))
  BY <1>2, AppendSet
<1> QED BY <1>1, <1>3, ElementsAll DEF Sound

LEMMA RingPull ==
    ASSUME NEW r, Sound(r), CanPull(r)
    PROVE  /\ Sound(Pulled(r)) /\ Elements(Pulled(r)) = Elements(r) \ {Head(r.queue)}
           /\ Head(r.queue) \in Elements(r) /\ Head(r.queue) \in Tasks
<1>1. /\ Bounded(Pulled(r)) /\ All(r) # <<>> /\ All(Pulled(r)) = Tail(All(r))
      /\ Head(r.queue) = Head(All(r)) /\ Head(r.queue) \in Tasks
  BY PulledAll DEF Sound
<1>2. All(r) \in Seq(Tasks) /\ NoneTwice(All(r)) /\ Elements(r) = ToSet(All(r))
  BY ElementsAll DEF Sound
<1>3. /\ Head(All(r)) \in ToSet(All(r)) /\ ToSet(Tail(All(r))) = ToSet(All(r)) \ {Head(All(r))}
      /\ NoneTwice(Tail(All(r)))
  BY <1>1, <1>2, TailSet
<1> QED BY <1>1, <1>2, <1>3, ElementsAll DEF Sound

-----------------------------------------------------------------------------
(* Places a task object can be in, and steps that move one.                *)

Fresh   == <<"fresh", 0>>
Free    == <<"free", 0>>
Got     == <<"got", 0>>
Hand(w) == <<"hand", w>>
Hands   == {Hand(w) : w \in W}
Places  == Rings \cup {Fresh, Free, Got} \cup Hands

At(p) ==
    IF p \in Rings THEN Elements(ring[p])
    ELSE IF p = Fresh THEN fresh
    ELSE IF p = Free THEN task_free_list
    ELSE IF p = Got THEN got
    ELSE hand[p[2]]

RingsSound == ring \in [Rings -> RingType] /\ \A r \in Rings : Sound(ring[r])
Placed ==
    /\ \A p, q \in Places : p # q => At(p) \cap At(q) = {}
    /\ \A t \in Tasks : \E p \in Places : t \in At(p)

Stays == \A p \in Places : At(p)' = At(p)
Moves(a, b, X) ==
    /\ X \subseteq At(a)
    /\ At(a)' = At(a) \ X /\ At(b)' = At(b) \cup X
    /\ \A p \in Places \ {a, b} : At(p)' = At(p)

LEMMA NamesOfRings ==
    /\ In \in Inner /\ Err(0) \in Inner
    /\ \A w \in W : To(w) \in Inner /\ From(w) \in Inner /\ Err(w) \in Inner
    /\ Ready \notin Inner /\ Failed \notin Inner /\ Ready # Failed
    /\ Rings = Inner \cup {Ready, Failed}
    /\ \A v, w \in W : (To(v) = To(w) <=> v = w) /\ (From(v) = From(w) <=> v = w)
                       /\ To(v) # From(w)
    /\ \A w \in W : To(w) # In /\ From(w) # In
    /\ \A v \in W, w \in Threads : To(v) # Err(w) /\ From(v) # Err(w)
    /\ \A w \in Threads : In # Err(w)
BY DEF In, To, From, Err, Ready, Failed, Inner, Rings, W, Threads

LEMMA NamesOfPlaces ==
    /\ Fresh \notin Rings /\ Free \notin Rings /\ Got \notin Rings
    /\ \A w \in W : Hand(w) \notin Rings /\ Hand(w) \notin {Fresh, Free, Got} /\ Hand(w)[2] = w
    /\ Fresh # Free /\ Fresh # Got /\ Free # Got
BY DEF Fresh, Free, Got, Hand, In, To, From, Err, Ready, Failed, Inner, Rings

LEMMA AtPlaces ==
    /\ \A r \in Rings : r \in Places /\ At(r) = Elements(ring[r])
    /\ Fresh \in Places /\ At(Fresh) = fresh
    /\ Free \in Places /\ At(Free) = task_free_list
    /\ Got \in Places /\ At(Got) = got
    /\ \A w \in W : Hand(w) \in Places /\ At(Hand(w)) = hand[w]
    /\ \A p \in Places : p \in Rings \/ p \in {Fresh, Free, Got} \/ \E w \in W : p = Hand(w)
BY NamesOfPlaces DEF At, Places, Hands

LEMMA StayKeeps ==
    ASSUME Placed, Stays
    PROVE  /\ \A p, q \in Places : p # q => At(p)' \cap At(q)' = {}
           /\ \A t \in Tasks : \E r \in Places : t \in At(r)'
BY DEF Placed, Stays

LEMMA MoveKeeps ==
    ASSUME Placed, NEW a \in Places, NEW b \in Places, a # b, NEW X, Moves(a, b, X)
    PROVE  /\ \A p, q \in Places : p # q => At(p)' \cap At(q)' = {}
           /\ \A t \in Tasks : \E p \in Places : t \in At(p)'
<1>1. /\ X \subseteq At(a) /\ At(a)' = At(a) \ X /\ At(b)' = At(b) \cup X
      /\ \A p \in Places : p # a /\ p # b => At(p)' = At(p)
  BY DEF Moves
<1>2. ASSUME NEW p \in Places, NEW q \in Places, p # q PROVE At(p)' \cap At(q)' = {}
  <2>2. \A r \in Places : r # a => At(r) \cap At(a) = {}
    BY DEF Placed
  <2>3. At(p) \cap At(q) = {}
    BY <1>2 DEF Placed
  <2>4. CASE p = b
    <3>1. CASE q = a
      BY <1>1, <2>3, <2>4, <3>1
    <3>2. CASE q # a
      BY <1>1, <1>2, <2>2, <2>3, <2>4, <3>2
    <3> QED BY <3>1, <3>2
  <2>5. CASE q = b
    <3>1. CASE p = a
      BY <1>1, <2>3, <2>5, <3>1
    <3>2. CASE p # a
      BY <1>1, <1>2, <2>2, <2>3, <2>5, <3>2
    <3> QED BY <3>1, <3>2
  <2>6. CASE p # b /\ q # b
    BY <1>1, <1>2, <2>3, <2>6
  <2> QED BY <2>4, <2>5, <2>6
<1>3. ASSUME NEW t \in Tasks PROVE \E p \in Places : t \in At(p)'
  <2>1. PICK p \in Places : t \in At(p)
    BY DEF Placed
  <2>2. CASE t \in X
    BY <1>1, <2>2
  <2>3. CASE t \notin X
    BY <1>1, <2>1, <2>3
  <2> QED BY <2>2, <2>3
<1> QED BY <1>2, <1>3

PlacesHold == RingsSound /\ Placed

(* A step that only moves overflows up leaves every task where it is.      *)
LEMMA Tidy ==
    ASSUME PlacesHold, NEW now, ring' = now, now = [r \in Rings |-> now[r]],
           \A r \in Rings : now[r] = ring[r] \/ now[r] = Drain(ring[r]),
           UNCHANGED <<fresh, task_free_list, got, hand>>
    PROVE  Stays /\ PlacesHold'
<1>1. \A r \in Rings : Sound(now[r]) /\ Elements(now[r]) = Elements(ring[r])
  BY RingDrain DEF PlacesHold, RingsSound
<1>2. now \in [Rings -> RingType]
  BY <1>1 DEF Sound, Bounded
<1>3. RingsSound'
  BY <1>1, <1>2 DEF RingsSound
<1>4. Stays
  BY <1>1 DEF Stays, At
<1>5. Placed'
  BY <1>4, StayKeeps DEF PlacesHold, Placed
<1> QED BY <1>3, <1>4, <1>5 DEF PlacesHold

(* Nothing that holds a task changes.                                      *)
LEMMA Idle ==
    ASSUME PlacesHold, UNCHANGED <<ring, fresh, task_free_list, got, hand>>
    PROVE  Stays /\ PlacesHold'
<1>1. ring = [r \in Rings |-> ring[r]]
  BY DEF PlacesHold, RingsSound
<1> QED BY <1>1, Tidy

(* One task from a ring to another.                                        *)
LEMMA Shift ==
    ASSUME PlacesHold, NEW a \in Rings, NEW b \in Rings, a # b, CanPull(ring[a]),
           ring' = Move(a, b), UNCHANGED <<fresh, task_free_list, got, hand>>
    PROVE  /\ \E x \in Tasks : Moves(a, b, {x})
           /\ PlacesHold'
<1> DEFINE x == Head(ring[a].queue)
<1>1. ring \in [Rings -> RingType] /\ \A r \in Rings : Sound(ring[r])
  BY DEF PlacesHold, RingsSound
<1>2. /\ Sound(Pulled(ring[a])) /\ Elements(Pulled(ring[a])) = Elements(ring[a]) \ {x}
      /\ x \in Elements(ring[a]) /\ x \in Tasks
  BY <1>1, RingPull
<1>3. x \notin Elements(ring[b])
  BY <1>2, AtPlaces DEF PlacesHold, Placed
<1>4. Sound(PushTo(ring[b], x)) /\ Elements(PushTo(ring[b], x)) = Elements(ring[b]) \cup {x}
  BY <1>1, <1>2, <1>3, RingPush
<1>5. /\ ring' = [ring EXCEPT ![a] = Pulled(ring[a]), ![b] = PushTo(ring[b], x)]
      /\ ring'[a] = Pulled(ring[a]) /\ ring'[b] = PushTo(ring[b], x)
      /\ \A r \in Rings \ {a, b} : ring'[r] = ring[r]
  BY <1>1 DEF Move
<1>6. RingsSound'
  <2>1. \A r \in Rings : Sound(ring'[r])
    BY <1>1, <1>2, <1>4, <1>5
  <2>2. ring' \in [Rings -> RingType]
    BY <1>1, <1>5, <2>1 DEF Sound, Bounded
  <2> QED BY <2>1, <2>2 DEF RingsSound
<1>7. Moves(a, b, {x})
  <2>1. At(a) = Elements(ring[a]) /\ At(a)' = Elements(ring'[a])
    BY DEF At
  <2>2. At(b) = Elements(ring[b]) /\ At(b)' = Elements(ring'[b])
    BY DEF At
  <2>3. ASSUME NEW p \in Places \ {a, b} PROVE At(p)' = At(p)
    BY <1>5 DEF At
  <2> QED BY <1>2, <1>4, <1>5, <2>1, <2>2, <2>3 DEF Moves
<1>8. Placed'
  BY <1>7, AtPlaces, MoveKeeps DEF PlacesHold, Placed
<1> QED BY <1>2, <1>6, <1>7, <1>8 DEF PlacesHold

(* One task from a ring to a thread or to the callback.                    *)
LEMMA TakeOut ==
    ASSUME PlacesHold, NEW a \in Rings, NEW b \in Places \ Rings, CanPull(ring[a]),
           ring' = [ring EXCEPT ![a] = Pulled(@)],
           At(b)' = At(b) \cup {Head(ring[a].queue)},
           \A p \in Places \ Rings : p # b => At(p)' = At(p)
    PROVE  /\ Head(ring[a].queue) \in Tasks
           /\ Moves(a, b, {Head(ring[a].queue)})
           /\ PlacesHold'
<1> DEFINE x == Head(ring[a].queue)
<1>1. ring \in [Rings -> RingType] /\ \A r \in Rings : Sound(ring[r])
  BY DEF PlacesHold, RingsSound
<1>2. /\ Sound(Pulled(ring[a])) /\ Elements(Pulled(ring[a])) = Elements(ring[a]) \ {x}
      /\ x \in Elements(ring[a]) /\ x \in Tasks
  BY <1>1, RingPull
<1>3. ring'[a] = Pulled(ring[a]) /\ \A r \in Rings \ {a} : ring'[r] = ring[r]
  BY <1>1
<1>4. RingsSound'
  <2>1. \A r \in Rings : Sound(ring'[r])
    BY <1>1, <1>2, <1>3
  <2>2. ring' \in [Rings -> RingType]
    BY <1>1, <1>2 DEF Sound, Bounded
  <2> QED BY <2>1, <2>2 DEF RingsSound
<1>5. Moves(a, b, {x})
  <2>1. At(a) = Elements(ring[a]) /\ At(a)' = Elements(ring'[a])
    BY DEF At
  <2>2. ASSUME NEW p \in Rings, p # a PROVE At(p)' = At(p)
    BY <1>3, <2>2 DEF At
  <2> QED BY <1>2, <1>3, <2>1, <2>2 DEF Moves
<1>6. a # b /\ a \in Places
  BY AtPlaces
<1>7. Placed'
  BY <1>5, <1>6, MoveKeeps DEF PlacesHold, Placed
<1> QED BY <1>2, <1>4, <1>5, <1>7 DEF PlacesHold

(* One task from the main thread or a worker to a ring.                    *)
LEMMA PutIn ==
    ASSUME PlacesHold, NEW a \in Places \ Rings, NEW b \in Rings, NEW x \in Tasks, x \in At(a),
           NEW r0 \in {ring[b], Drain(ring[b])}, ring' = [ring EXCEPT ![b] = PushTo(r0, x)],
           At(a)' = At(a) \ {x},
           \A p \in Places \ Rings : p # a => At(p)' = At(p)
    PROVE  Moves(a, b, {x}) /\ PlacesHold'
<1>1. ring \in [Rings -> RingType] /\ \A r \in Rings : Sound(ring[r])
  BY DEF PlacesHold, RingsSound
<1>2. a # b /\ a \in Places /\ b \in Places /\ At(b) = Elements(ring[b])
  BY AtPlaces
<1>3. x \notin Elements(ring[b])
  BY <1>2 DEF PlacesHold, Placed
<1>4. Sound(r0) /\ Elements(r0) = Elements(ring[b])
  BY <1>1, RingDrain
<1>5. Sound(PushTo(r0, x)) /\ Elements(PushTo(r0, x)) = Elements(ring[b]) \cup {x}
  BY <1>3, <1>4, RingPush
<1>6. ring'[b] = PushTo(r0, x) /\ \A r \in Rings \ {b} : ring'[r] = ring[r]
  BY <1>1
<1>7. RingsSound'
  <2>1. \A r \in Rings : Sound(ring'[r])
    BY <1>1, <1>5, <1>6
  <2>2. ring' \in [Rings -> RingType]
    BY <1>1, <1>5 DEF Sound, Bounded
  <2> QED BY <2>1, <2>2 DEF RingsSound
<1>8. Moves(a, b, {x})
  <2>1. At(b)' = Elements(ring'[b])
    BY DEF At
  <2>2. ASSUME NEW p \in Rings, p # b PROVE At(p)' = At(p)
    BY <1>6, <2>2 DEF At
  <2> QED BY <1>2, <1>5, <1>6, <2>1, <2>2 DEF Moves
<1>9. Placed'
  BY <1>2, <1>8, MoveKeeps DEF PlacesHold, Placed
<1> QED BY <1>7, <1>8, <1>9 DEF PlacesHold

-----------------------------------------------------------------------------
(* What the threads know.                                                  *)

Types ==
    /\ hand \in [W -> SUBSET Tasks]
    /\ fresh \cup task_free_list \cup got \cup late \subseteq Tasks
    /\ thread \in [Threads -> {"off", "run", "dead"}] /\ started \in [Threads -> BOOLEAN]
    /\ need_shutdown \in [Threads -> BOOLEAN]
    /\ sys \in {"err", "in", "out"} \X Nat \X (0..Fallback)
    /\ pc \in [W -> {"call", "loop", "work"}]
    /\ stop \in {"none", "wait", "scheduling", "ending", "ended", "crashed"}
    /\ torn \subseteq {"drain", "count"}

\* A thread that is not "started" is off, one that does not run is in no function, and a
\* worker holds one task exactly while it works.
Control ==
    /\ \A t \in Threads : ~started[t] => thread[t] = "off"
    /\ \A w \in W : thread[w] # "run" => pc[w] = "call"
    /\ \A w \in W : pc[w] = "work" => \E t \in Tasks : hand[w] = {t}
    /\ \A w \in W : pc[w] # "work" => hand[w] = {}
    /\ stop = "ended" => \A t \in Threads : ~started[t]

\* The queue a thread is about to push to without asking has room, and that of node in,
\* once a worker is chosen, a task.
Room ==
    /\ sys[1] = "in" /\ sys[3] # 0 => CanPull(ring[In])
    /\ sys[1] = "in" /\ sys[3] \in W => GetFree(ring[To(sys[3])]) > 0
    /\ \A w \in W : pc[w] = "work" => GetFree(ring[From(w)]) > 0

\* The count is that of the tasks in the rings and in the hands of the workers.
Busy    == Rings \cup Hands
InUse   == UNION {At(p) : p \in Busy}
Counted == IsFiniteSet(InUse) /\ task_wip_count = Cardinality(InUse)

\* Tasks that are left inside when the threads are told to stop were pushed after that.
Within     == Inner \cup Hands
CleanInside ==
    stop \in {"scheduling", "ending", "ended"} /\ torn = {} =>
        \A p \in Within : At(p) \subseteq late

\* Before a torn drain all of it holds; after one, where nothing moves any more, what a lost
\* task does not disturb.
IInv == Types /\ PlacesHold /\ Control /\ Backpressure /\ Room /\ Counted /\ CleanInside

RingsBounded == ring \in [Rings -> RingType] /\ \A r \in Rings : Bounded(ring[r])
Rest == Types /\ Control /\ Backpressure /\ RingsBounded /\ task_wip_count \in Nat
Ind  == IF "drain" \in torn THEN Rest ELSE IInv

\* Every step but a torn drain.
Steps == Main \/ System \/ (\E w \in W : Worker(w)) \/ Over

-----------------------------------------------------------------------------
(* The input rings of the nodes err and out are inside, each a ring that   *)
(* ends at the system thread.                                              *)
LEMMA InputsInside ==
    ASSUME sys[2] \in Nat, sys[2] > 0, sys[2] <= Len(Inputs)
    PROVE  Inputs[sys[2]] \in Inner /\ \A w \in W : Inputs[sys[2]] # To(w)
<1>1. ErrInputs \in Seq(Inner) /\ \A k \in DOMAIN ErrInputs, w \in W : ErrInputs[k] # To(w)
  <2>1. CASE Sink = "out"
    <3>1. ErrInputs = [k \in 1..(Workers + 1) |-> Err(k - 1)]
      BY <2>1 DEF ErrInputs
    <3>2. \A k \in 1..(Workers + 1) : k - 1 \in Threads
      BY DEF Threads
    <3>3. ErrInputs \in [1..(Workers + 1) -> Inner]
      BY <3>1, <3>2, NamesOfRings DEF Inner
    <3>4. Workers + 1 \in Nat
      OBVIOUS
    <3>5. ErrInputs \in Seq(Inner)
      BY <3>3, <3>4, SeqDef
    <3> QED BY <3>1, <3>2, <3>5 DEF Err, To
  <2>2. CASE Sink # "out"
    <3>1. ErrInputs = [k \in 1..(2 * Workers + 1) |->
                          IF k % 2 = 1 /\ k > 1 THEN From(k \div 2) ELSE Err(k \div 2)]
      BY <2>2 DEF ErrInputs
    <3>2. \A k \in 1..(2 * Workers + 1) : /\ k \div 2 \in Threads
                                          /\ k > 1 => k \div 2 \in W
      BY DEF Threads, W
    <3>3. ErrInputs \in [1..(2 * Workers + 1) -> Inner]
      BY <3>1, <3>2 DEF Inner
    <3>4. 2 * Workers + 1 \in Nat
      OBVIOUS
    <3>5. ErrInputs \in Seq(Inner)
      BY <3>3, <3>4, SeqDef
    <3> QED BY <3>1, <3>5 DEF Err, From, To
  <2> QED BY <2>1, <2>2
<1>2. OutInputs \in Seq(Inner) /\ \A k \in DOMAIN OutInputs, w \in W : OutInputs[k] # To(w)
  <2>1. CASE Sink = "out"
    <3>1. OutInputs = [k \in 1..Workers |-> From(k)]
      BY <2>1 DEF OutInputs, W
    <3>2. OutInputs \in [1..Workers -> Inner] /\ Workers \in Nat
      BY <3>1 DEF Inner, W
    <3>3. OutInputs \in Seq(Inner)
      BY <3>2, SeqDef
    <3> QED BY <3>1, <3>3 DEF From, To
  <2>2. CASE Sink # "out"
    BY <2>2, EmptySeq DEF OutInputs
  <2> QED BY <2>1, <2>2
<1>3. Inputs \in Seq(Inner) /\ \A k \in DOMAIN Inputs, w \in W : Inputs[k] # To(w)
  BY <1>1, <1>2 DEF Inputs
<1>4. DOMAIN Inputs = 1..Len(Inputs) /\ Len(Inputs) \in Nat
  BY <1>3, LenProperties
<1>5. sys[2] \in DOMAIN Inputs /\ sys[2] \in 1..Len(Inputs)
  BY <1>4
<1> QED BY <1>3, <1>5, ElementOfSeq

(* What the system thread and the workers do to tasks: nothing, or one     *)
(* task goes from a place inside to another one or to an endpoint.         *)
InsideStep ==
    /\ PlacesHold'
    /\ Stays \/ \E a \in Within, b \in Busy, x \in Tasks : a # b /\ Moves(a, b, {x})
    /\ UNCHANGED <<task_wip_count, late, torn, stop>>

LEMMA NodeErrOutMoves ==
    ASSUME IInv, FanN1 \/ FanN1Move
    PROVE  InsideStep
<1>1. Endpoint \in {Ready, Failed} /\ Endpoint \in Rings
  BY NamesOfRings DEF Endpoint
<1>2. PlacesHold /\ ring \in [Rings -> RingType] /\ sys[2] \in Nat
  BY DEF IInv, PlacesHold, RingsSound, Types
<1>3. UNCHANGED <<objects, stop, hand>>
  BY DEF FanN1, FanN1Move
<1>4. CASE FanN1
  <2>1. ring' = ring \/ ring' = [ring EXCEPT ![Endpoint] = Drain(@)]
    BY <1>4 DEF FanN1
  <2>2. ring' = [r \in Rings |-> ring'[r]] /\ \A r \in Rings : ring'[r] \in {ring[r], Drain(ring[r])}
    BY <1>2, <2>1
  <2>3. Stays /\ PlacesHold'
    BY <1>2, <1>3, <2>2, Tidy DEF objects
  <2> QED BY <1>3, <2>3 DEF InsideStep, objects
<1>5. CASE FanN1Move
  <2>1. CASE UNCHANGED ring
    <3>1. Stays /\ PlacesHold'
      BY <1>2, <1>3, <2>1, Idle DEF objects
    <3> QED BY <1>3, <3>1 DEF InsideStep, objects
  <2>2. CASE ~UNCHANGED ring
    <3>1. /\ sys[2] > 0 /\ ~(sys[2] > Len(Inputs)) /\ CanPull(ring[Inputs[sys[2]]])
          /\ ring' = Move(Inputs[sys[2]], Endpoint)
      BY <1>5, <2>2 DEF FanN1Move
    <3>2. Len(Inputs) \in Nat => sys[2] <= Len(Inputs)
      BY <1>2, <3>1
    <3>3. Len(Inputs) \in Nat
      BY DEF Inputs, ErrInputs, OutInputs, W
    <3>4. Inputs[sys[2]] \in Inner
      BY <1>2, <3>1, <3>2, <3>3, InputsInside
    <3>5. /\ Inputs[sys[2]] \in Rings /\ Inputs[sys[2]] # Endpoint
          /\ Inputs[sys[2]] \in Within /\ Endpoint \in Busy
      BY <1>1, <3>4, NamesOfRings DEF Within, Busy
    <3>6. PlacesHold' /\ \E x \in Tasks : Moves(Inputs[sys[2]], Endpoint, {x})
      BY <1>1, <1>2, <1>3, <3>1, <3>5, Shift DEF objects
    <3> QED BY <1>3, <3>5, <3>6 DEF InsideStep, objects
  <2> QED BY <2>1, <2>2
<1> QED BY <1>4, <1>5

LEMMA SystemEnds ==
    ASSUME IInv, SysEnd
    PROVE  InsideStep
BY Idle DEF IInv, SysEnd, rings, objects, InsideStep

LEMMA NodeInMoves ==
    ASSUME IInv, Fan1N \/ Fan1NFallback \/ Fan1NMove
    PROVE  InsideStep
<1>1. PlacesHold /\ ring \in [Rings -> RingType]
  BY DEF IInv, PlacesHold, RingsSound
<1>2. UNCHANGED <<objects, stop, hand>>
  BY DEF Fan1N, Fan1NFallback, Fan1NMove
<1>3. CASE Fan1N \/ Fan1NFallback
  <2>1. \/ ring' = ring
        \/ ring' = [r \in Rings |-> IF \E w \in W : r = To(w) THEN Drain(ring[r]) ELSE ring[r]]
    BY <1>3 DEF Fan1N, Fan1NFallback, rings
  <2>2. ring' = [r \in Rings |-> ring'[r]] /\ \A r \in Rings : ring'[r] \in {ring[r], Drain(ring[r])}
    BY <1>1, <2>1
  <2>3. Stays /\ PlacesHold'
    BY <1>1, <1>2, <2>2, Tidy DEF objects
  <2> QED BY <1>2, <2>3 DEF InsideStep, objects
<1>4. CASE Fan1NMove
  <2>1. sys[3] \in W /\ ring' = Move(In, To(sys[3]))
    BY <1>4 DEF Fan1NMove
  <2>2. /\ In \in Rings /\ To(sys[3]) \in Rings /\ In # To(sys[3])
        /\ In \in Within /\ To(sys[3]) \in Busy
    BY <2>1, NamesOfRings DEF Within, Busy
  <2>3. CanPull(ring[In])
    BY <1>4 DEF Fan1NMove, IInv, Room, W
  <2>4. PlacesHold' /\ \E x \in Tasks : Moves(In, To(sys[3]), {x})
    BY <1>1, <1>2, <2>1, <2>2, <2>3, Shift DEF objects
  <2> QED BY <1>2, <2>2, <2>4 DEF InsideStep, objects
<1> QED BY <1>3, <1>4

LEMMA WorkerMoves ==
    ASSUME IInv, NEW w \in W, Worker(w)
    PROVE  InsideStep
<1>1. PlacesHold /\ ring \in [Rings -> RingType] /\ hand \in [W -> SUBSET Tasks]
  BY DEF IInv, PlacesHold, RingsSound, Types
<1>2. UNCHANGED <<objects, stop>>
  BY DEF Worker, WorkerEnd, WorkerCall, WorkerPull, WorkerPush
<1>3. /\ To(w) \in Rings /\ From(w) \in Rings /\ Err(w) \in Rings /\ From(w) # Err(w)
      /\ To(w) \in Within /\ From(w) \in Busy /\ Err(w) \in Busy
      /\ Hand(w) \in Within /\ Hand(w) \in Busy /\ w \in Threads
  BY NamesOfRings DEF Within, Busy, Hands, W, Threads
<1>4. /\ Hand(w) \in Places \ Rings /\ At(Hand(w)) = hand[w]
      /\ \A p \in Places \ Rings : p # Hand(w) =>
            p \in {Fresh, Free, Got} \/ \E v \in W : v # w /\ p = Hand(v)
  BY AtPlaces, NamesOfPlaces
<1>5. CASE WorkerEnd(w)
  <2>1. Stays /\ PlacesHold'
    BY <1>1, <1>5, Idle DEF WorkerEnd, rings, objects
  <2> QED BY <1>2, <2>1 DEF InsideStep, objects
<1>6. CASE WorkerCall(w)
  <2> DEFINE e == [ring EXCEPT ![Err(w)] = Drain(@)]
  <2>1. ring' = ring \/ ring' = e \/ ring' = [e EXCEPT ![From(w)] = Drain(@)]
    BY <1>6 DEF WorkerCall
  <2>2. ring' = [r \in Rings |-> ring'[r]] /\ \A r \in Rings : ring'[r] \in {ring[r], Drain(ring[r])}
    BY <1>1, <1>3, <2>1
  <2>3. UNCHANGED <<fresh, task_free_list, got, hand>>
    BY <1>6 DEF WorkerCall, objects
  <2>4. Stays /\ PlacesHold'
    BY <1>1, <2>2, <2>3, Tidy
  <2> QED BY <1>2, <2>4 DEF InsideStep, objects
<1>7. CASE WorkerPull(w)
  <2>1. CASE UNCHANGED <<ring, hand>>
    <3>1. Stays /\ PlacesHold'
      BY <1>1, <1>2, <2>1, Idle DEF objects
    <3> QED BY <1>2, <3>1 DEF InsideStep, objects
  <2>2. CASE ~UNCHANGED <<ring, hand>>
    <3>1. /\ pc[w] = "loop" /\ CanPull(ring[To(w)])
          /\ hand' = [hand EXCEPT ![w] = {Head(ring[To(w)].queue)}]
          /\ ring' = [ring EXCEPT ![To(w)] = Pulled(@)]
      BY <1>7, <2>2 DEF WorkerPull
    <3>2. hand[w] = {}
      BY <3>1 DEF IInv, Control
    <3>3. At(Hand(w))' = hand'[w]
      BY <1>4, NamesOfPlaces DEF At
    <3>4. At(Hand(w))' = At(Hand(w)) \cup {Head(ring[To(w)].queue)}
      BY <1>1, <1>4, <3>1, <3>2, <3>3
    <3>5. \A p \in Places \ Rings : p # Hand(w) => At(p)' = At(p)
      BY <1>1, <1>2, <1>4, <3>1, NamesOfPlaces DEF At, objects
    <3>6. /\ Head(ring[To(w)].queue) \in Tasks /\ PlacesHold'
          /\ Moves(To(w), Hand(w), {Head(ring[To(w)].queue)})
      BY <1>1, <1>3, <1>4, <3>1, <3>4, <3>5, TakeOut
    <3> QED BY <1>2, <1>3, <1>4, <3>6 DEF InsideStep, objects
  <2> QED BY <2>1, <2>2
<1>8. CASE WorkerPush(w)
  <2>1. PICK t \in hand[w], to \in {From(w), Err(w)} : ring' = [ring EXCEPT ![to] = PushTo(@, t)]
    BY <1>8 DEF WorkerPush
  <2>2. hand' = [hand EXCEPT ![w] = {}] /\ pc[w] = "work"
    BY <1>8 DEF WorkerPush
  <2>3. hand[w] = {t} /\ t \in Tasks
    BY <2>1, <2>2 DEF IInv, Control
  <2>4. to \in Rings /\ to \in Busy /\ ring' = [ring EXCEPT ![to] = PushTo(ring[to], t)]
    BY <1>1, <1>3, <2>1
  <2>5. At(Hand(w))' = hand'[w]
    BY <1>4, NamesOfPlaces DEF At
  <2>6. At(Hand(w))' = At(Hand(w)) \ {t} /\ t \in At(Hand(w))
    BY <1>1, <1>4, <2>2, <2>3, <2>5
  <2>7. \A p \in Places \ Rings : p # Hand(w) => At(p)' = At(p)
    BY <1>1, <1>2, <1>4, <2>2, NamesOfPlaces DEF At, objects
  <2>8. Moves(Hand(w), to, {t}) /\ PlacesHold'
    BY <1>1, <1>4, <2>3, <2>4, <2>6, <2>7, PutIn
  <2> QED BY <1>2, <1>3, <1>4, <2>3, <2>4, <2>8 DEF InsideStep, objects
<1> QED BY <1>5, <1>6, <1>7, <1>8 DEF Worker

LEMMA PushMoves ==
    ASSUME IInv, Push
    PROVE  /\ PlacesHold'
           /\ \E a \in {Fresh, Free}, t \in Tasks :
                 /\ Moves(a, In, {t})
                 /\ late' = IF stop \in {"ending", "ended"} THEN late \cup {t} ELSE late
<1>1. PlacesHold /\ ring \in [Rings -> RingType] /\ fresh \cup task_free_list \subseteq Tasks
  BY DEF IInv, PlacesHold, RingsSound, Types
<1>2. In \in Rings /\ hand' = hand /\ got' = got /\ stop' = stop
  BY NamesOfRings DEF Push, control
<1>3. PICK t : /\ t = IF task_free_list # {} THEN CHOOSE x \in task_free_list : TRUE
                      ELSE CHOOSE x \in fresh : TRUE
               /\ task_free_list' = task_free_list \ {t} /\ fresh' = fresh \ {t}
               /\ ring' = [ring EXCEPT ![In] = PushTo(Drain(@), t)]
               /\ late' = IF stop \in {"ending", "ended"} THEN late \cup {t} ELSE late
  BY DEF Push
<1>4. IF task_free_list # {} THEN t \in task_free_list ELSE t \in fresh
  BY <1>3 DEF Push
<1>5. fresh \cap task_free_list = {}
  BY <1>1, AtPlaces, NamesOfPlaces DEF PlacesHold, Placed
<1>6. t \in Tasks
  BY <1>1, <1>4
<1>7. ring' = [ring EXCEPT ![In] = PushTo(Drain(ring[In]), t)]
  BY <1>1, <1>2, <1>3
<1>8. /\ At(Fresh)' = fresh' /\ At(Free)' = task_free_list' /\ At(Got)' = got
      /\ \A w \in W : At(Hand(w))' = hand[w]
  BY <1>2, NamesOfPlaces DEF At
<1>9. \A p \in Places \ Rings : p \in {Fresh, Free, Got} \/ \E w \in W : p = Hand(w)
  BY AtPlaces
<1>10. CASE task_free_list # {}
  <2>1. t \in At(Free) /\ At(Free)' = At(Free) \ {t} /\ fresh' = fresh
    BY <1>3, <1>4, <1>5, <1>8, <1>10, AtPlaces
  <2>2. \A p \in Places \ Rings : p # Free => At(p)' = At(p)
    BY <1>8, <1>9, <2>1, AtPlaces
  <2>3. Free \in Places \ Rings
    BY AtPlaces, NamesOfPlaces
  <2>4. Moves(Free, In, {t}) /\ PlacesHold'
    BY <1>1, <1>2, <1>6, <1>7, <2>1, <2>2, <2>3, PutIn
  <2> QED BY <1>3, <1>6, <2>4
<1>11. CASE task_free_list = {}
  <2>1. t \in At(Fresh) /\ At(Fresh)' = At(Fresh) \ {t} /\ task_free_list' = task_free_list
    BY <1>3, <1>4, <1>8, <1>11, AtPlaces
  <2>2. \A p \in Places \ Rings : p # Fresh => At(p)' = At(p)
    BY <1>8, <1>9, <2>1, AtPlaces
  <2>3. Fresh \in Places \ Rings
    BY AtPlaces, NamesOfPlaces
  <2>4. Moves(Fresh, In, {t}) /\ PlacesHold'
    BY <1>1, <1>2, <1>6, <1>7, <2>1, <2>2, <2>3, PutIn
  <2> QED BY <1>3, <1>6, <2>4
<1> QED BY <1>10, <1>11

LEMMA PullMoves ==
    ASSUME IInv, Pull
    PROVE  PlacesHold' /\ \E node \in {Failed, Ready}, x \in Tasks : Moves(node, Got, {x}) /\ got' = {x}
<1>1. PlacesHold
  BY DEF IInv
<1>2. PICK node \in {Failed, Ready} : /\ CanPull(ring[node]) /\ got' = {Head(ring[node].queue)}
                                     /\ ring' = [ring EXCEPT ![node] = Pulled(@)]
  BY DEF Pull
<1>3. node \in Rings /\ Got \in Places \ Rings
  BY NamesOfRings, NamesOfPlaces, AtPlaces
<1>4. got = {} /\ UNCHANGED <<fresh, task_free_list, hand>>
  BY DEF Pull
<1>5. At(Got)' = At(Got) \cup {Head(ring[node].queue)}
  BY <1>2, <1>4, AtPlaces, NamesOfPlaces DEF At
<1>6. \A p \in Places \ Rings : p # Got => At(p)' = At(p)
  BY <1>4, NamesOfPlaces DEF At
<1>7. /\ Head(ring[node].queue) \in Tasks /\ PlacesHold'
      /\ Moves(node, Got, {Head(ring[node].queue)})
  BY <1>1, <1>2, <1>3, <1>5, <1>6, TakeOut
<1> QED BY <1>2, <1>7

LEMMA PullAckMoves ==
    ASSUME IInv, PullAck
    PROVE  PlacesHold' /\ Moves(Got, Free, got)
<1>1. /\ RingsSound /\ Placed /\ ring' = ring /\ fresh' = fresh /\ hand' = hand
      /\ got' = {} /\ task_free_list' = task_free_list \cup got
  BY DEF IInv, PlacesHold, PullAck, rings
<1>2. /\ At(Got)' = {} /\ At(Got) = got
      /\ At(Free)' = At(Free) \cup got
  BY <1>1, AtPlaces, NamesOfPlaces DEF At
<1>3. \A p \in Places \ {Got, Free} : At(p)' = At(p)
  BY <1>1 DEF At
<1>4. Moves(Got, Free, got)
  BY <1>2, <1>3 DEF Moves
<1>5. Placed'
  BY <1>1, <1>4, AtPlaces, NamesOfPlaces, MoveKeeps DEF Placed
<1>6. RingsSound'
  BY <1>1 DEF RingsSound
<1> QED BY <1>4, <1>5, <1>6 DEF PlacesHold

\* The steps of the main thread that touch no task, and no step at all.
Steering == Start \/ StopSoft \/ StopSchedule \/ StopScheduleTorn \/ StopShutdown \/ StopEnd \/ StopHard

LEMMA SteeringStays ==
    ASSUME IInv, Steering \/ UNCHANGED vars
    PROVE  PlacesHold' /\ Stays
BY Idle DEF IInv, Steering, Start, StopSoft, StopSchedule, StopScheduleTorn, StopShutdown, StopEnd, StopHard, rings, objects, vars

(* Each step of Next is one of these.                                      *)
LEMMA StepKinds ==
    ASSUME IInv, [Steps]_vars
    PROVE  \/ Push \/ Pull \/ PullAck \/ (Steering \/ UNCHANGED vars)
           \/ System /\ InsideStep
           \/ (\E w \in W : Worker(w)) /\ InsideStep
BY NodeErrOutMoves, NodeInMoves, WorkerMoves, SystemEnds
   DEF Steps, Main, System, Over, Steering

LEMMA PlacesStep == IInv /\ [Steps]_vars => PlacesHold'
BY StepKinds, PushMoves, PullMoves, PullAckMoves, SteeringStays DEF InsideStep

-----------------------------------------------------------------------------
(* Types and control, one step per action.                                 *)

LEMMA SysTypes ==
    ASSUME Types
    PROVE  /\ sys[1] \in {"err", "in", "out"} /\ sys[2] \in Nat /\ sys[3] \in 0..Fallback
           /\ NodeAfter[sys[1]] \in {"err", "in", "out"} /\ 0 \in 0..Fallback
           /\ Fallback \in 0..Fallback /\ W \subseteq 0..Fallback
BY DEF Types, NodeAfter, Fallback, W

LEMMA TypesStep ==
    ASSUME IInv, [Steps]_vars
    PROVE  Types'
<1> USE DEF IInv, Types
<1>1. CASE Push
  <2>1. /\ fresh' \subseteq fresh /\ task_free_list' \subseteq task_free_list /\ got' = got
        /\ UNCHANGED <<torn, control, sys, pc, hand>>
    BY <1>1 DEF Push
  <2>2. late' \subseteq Tasks
    <3>1. PICK t \in Tasks : late' = IF stop \in {"ending", "ended"} THEN late \cup {t} ELSE late
      BY <1>1, PushMoves
    <3> QED BY <3>1
  <2> QED BY <2>1, <2>2 DEF control
<1>2. CASE Pull
  <2>1. got' \subseteq Tasks
    BY <1>2, PullMoves
  <2> QED BY <1>2, <2>1 DEF Pull, control
<1>3. CASE PullAck
  BY <1>3 DEF PullAck, control
<1>4. CASE Start
  <2>1. PICK failed \in Failing \cup {Workers + 1}, refused \in SUBSET Pinned :
           /\ started' = [t \in Threads |-> t < failed]
           /\ thread' = [t \in Threads |-> IF t >= failed THEN "off"
                                           ELSE IF t \in refused THEN "dead" ELSE "run"]
    BY <1>4 DEF Start
  <2>2. /\ thread' \in [Threads -> {"off", "run", "dead"}]
        /\ started' \in [Threads -> BOOLEAN]
    BY <2>1
  <2>3. /\ need_shutdown' \in [Threads -> BOOLEAN] /\ stop' = "none" /\ late' = {}
        /\ torn' = torn \ {"count"} /\ UNCHANGED <<fresh, task_free_list, got, sys, pc, hand>>
    BY <1>4 DEF Start
  <2> QED BY <2>2, <2>3
<1>5. CASE StopSoft \/ StopSchedule \/ StopScheduleTorn \/ StopShutdown \/ StopEnd \/ StopHard
  BY <1>5 DEF StopSoft, StopSchedule, StopScheduleTorn, StopShutdown, StopEnd, StopHard, rings, objects
<1>6. CASE System
  <2>1. UNCHANGED <<objects, need_shutdown, stop, pc, hand>>
    BY <1>6 DEF System, SysEnd, FanN1, FanN1Move, Fan1N, Fan1NFallback, Fan1NMove, rings
  <2>2. \/ SysReturn \/ SysOff
        \/ \E k \in Nat, w \in 0..Fallback : Goto(k, w)
    <3>1. CASE SysEnd
      BY <1>6, <3>1 DEF SysEnd
    <3>2. CASE FanN1
      BY <1>6, <3>2, SysTypes DEF FanN1
    <3>3. CASE FanN1Move
      BY <1>6, <3>3, SysTypes DEF FanN1Move
    <3>4. CASE Fan1N
      <4>1. \A r : Unsaturated(r) \subseteq 0..Fallback
        BY SysTypes DEF Unsaturated
      <4> QED BY <1>6, <3>4, <4>1, SysTypes DEF Fan1N
    <3>5. CASE Fan1NFallback
      <4>1. Roomy(ring) \subseteq 0..Fallback
        BY SysTypes DEF Roomy
      <4> QED BY <1>6, <3>5, <4>1, SysTypes DEF Fan1NFallback
    <3>6. CASE Fan1NMove
      BY <1>6, <3>6, SysTypes DEF Fan1NMove
    <3> QED BY <1>6, <3>1, <3>2, <3>3, <3>4, <3>5, <3>6 DEF System
  <2>3. 0 \in Threads
    BY DEF Threads
  <2>4. sys' \in {"err", "in", "out"} \X Nat \X (0..Fallback)
    BY <2>2, SysTypes DEF SysReturn, SysOff, Goto
  <2>5. thread' \in [Threads -> {"off", "run", "dead"}] /\ started' \in [Threads -> BOOLEAN]
    BY <2>2, <2>3 DEF SysReturn, SysOff, Goto
  <2> QED BY <2>1, <2>4, <2>5 DEF objects
<1>7. ASSUME NEW w \in W, Worker(w) PROVE Types'
  <2>1. UNCHANGED <<objects, need_shutdown, stop, sys>>
    BY <1>7 DEF Worker, WorkerEnd, WorkerCall, WorkerPull, WorkerPush
  <2>2. pc' \in [W -> {"call", "loop", "work"}]
    BY <1>7 DEF Worker, WorkerEnd, WorkerCall, WorkerPull, WorkerPush, WorkerReturn, WorkerOn
  <2>3. thread' \in [Threads -> {"off", "run", "dead"}] /\ started' \in [Threads -> BOOLEAN]
    BY <1>7 DEF Worker, WorkerEnd, WorkerCall, WorkerPull, WorkerPush, WorkerReturn, WorkerOn,
               WorkerOff
  <2>4. CanPull(ring[To(w)]) => Head(ring[To(w)].queue) \in Tasks
    BY RingPull, NamesOfRings DEF PlacesHold, RingsSound
  <2>5. hand' \in [W -> SUBSET Tasks]
    BY <1>7, <2>4 DEF Worker, WorkerEnd, WorkerCall, WorkerPull, WorkerPush
  <2> QED BY <2>1, <2>2, <2>3, <2>5 DEF objects
<1>8. CASE UNCHANGED vars
  BY <1>8 DEF vars, objects, control
<1> QED BY <1>1, <1>2, <1>3, <1>4, <1>5, <1>6, <1>7, <1>8 DEF Steps, Main, Over

LEMMA ControlStep ==
    ASSUME IInv, [Steps]_vars
    PROVE  Control'
<1> USE DEF IInv, Types, Control
<1>1. CASE Push \/ Pull \/ PullAck
  BY <1>1 DEF Push, Pull, PullAck, control
<1>2. CASE Start
  <2>0. UNCHANGED <<pc, hand>> /\ stop' = "none" /\ \A t \in Threads : ~started[t]
    BY <1>2 DEF Start
  <2>1. UNCHANGED <<pc, hand>> /\ stop' = "none" /\ \A w \in W : pc[w] = "call"
    BY <2>0 DEF Threads, W
  <2>2. \A t \in Threads : ~started'[t] => thread'[t] = "off"
    <3>1. PICK failed \in Failing \cup {Workers + 1}, refused \in SUBSET Pinned :
             /\ started' = [t \in Threads |-> t < failed]
             /\ thread' = [t \in Threads |-> IF t >= failed THEN "off"
                                             ELSE IF t \in refused THEN "dead" ELSE "run"]
      BY <1>2 DEF Start
    <3>2. failed \in Nat /\ \A t \in Threads : ~(t < failed) => t >= failed
      BY <3>1 DEF Threads
    <3> QED BY <3>1, <3>2
  <2> QED BY <2>1, <2>2
<1>3. CASE StopSoft \/ StopSchedule \/ StopScheduleTorn \/ StopShutdown \/ StopEnd \/ StopHard
  BY <1>3 DEF StopSoft, StopSchedule, StopScheduleTorn, StopShutdown, StopEnd, StopHard
<1>4. CASE System
  <2>1. UNCHANGED <<objects, need_shutdown, stop, pc, hand>>
    BY <1>4 DEF System, SysEnd, FanN1, FanN1Move, Fan1N, Fan1NFallback, Fan1NMove, rings
  <2>2. SysOff \/ UNCHANGED <<thread, started>>
    BY <1>4 DEF System, SysEnd, FanN1, FanN1Move, Fan1N, Fan1NFallback, Fan1NMove, SysReturn, Goto
  <2>3. 0 \in Threads /\ 0 \notin W
    BY DEF Threads, W
  <2>4. \A w \in W : thread'[w] = thread[w]
    BY <2>2, <2>3 DEF SysOff, Threads, W
  <2>5. \A t \in Threads : ~started'[t] => thread'[t] = "off"
    BY <2>2, <2>3 DEF SysOff
  <2>6. \A t \in Threads : ~started[t] => ~started'[t]
    BY <2>2, <2>3 DEF SysOff
  <2> QED BY <2>1, <2>4, <2>5, <2>6
<1>5. ASSUME NEW w \in W, Worker(w) PROVE Control'
  <2>1. stop' = stop /\ w \in Threads /\ W \subseteq Threads /\ thread[w] = "run"
    BY <1>5 DEF Worker, WorkerEnd, WorkerCall, WorkerPull, WorkerPush, Running, Threads, W
  <2>2. \/ UNCHANGED <<thread, started>>
        \/ WorkerOff(w) /\ pc'[w] = "call"
    BY <1>5 DEF Worker, WorkerEnd, WorkerCall, WorkerPull, WorkerPush, WorkerReturn, WorkerOn
  <2>3. \A v \in W : v # w => pc'[v] = pc[v] /\ hand'[v] = hand[v]
    BY <1>5 DEF Worker, WorkerEnd, WorkerCall, WorkerPull, WorkerPush, WorkerReturn, WorkerOn
  <2>4. CanPull(ring[To(w)]) => Head(ring[To(w)].queue) \in Tasks
    BY RingPull, NamesOfRings DEF PlacesHold, RingsSound
  <2>5. /\ pc'[w] = "work" => \E t \in Tasks : hand'[w] = {t}
        /\ pc'[w] # "work" => hand'[w] = {}
    BY <1>5, <2>4 DEF Worker, WorkerEnd, WorkerCall, WorkerPull, WorkerPush, WorkerReturn, WorkerOn
  <2>6. /\ \A t \in Threads : ~started'[t] => thread'[t] = "off"
        /\ \A v \in W : thread'[v] # "run" => pc'[v] = "call"
        /\ stop' = "ended" => \A t \in Threads : ~started'[t]
    BY <2>1, <2>2, <2>3 DEF WorkerOff
  <2> QED BY <2>3, <2>5, <2>6
<1>6. CASE UNCHANGED vars
  BY <1>6 DEF vars, control
<1> QED BY <1>1, <1>2, <1>3, <1>4, <1>5, <1>6 DEF Steps, Main, Over

-----------------------------------------------------------------------------
(* Backpressure.                                                           *)

LEMMA RoomOfRing ==
    ASSUME NEW r, Bounded(r)
    PROVE  /\ r.overflow = <<>> => /\ Drain(r).overflow = <<>>
                                   /\ GetFree(Drain(r)) = GetFree(r)
                                   /\ Available(Drain(r)) < Threshold => GetFree(Drain(r)) > 0
           /\ CanPull(r) => /\ Pulled(r).overflow = r.overflow
                            /\ GetFree(r) > 0 => GetFree(Pulled(r)) > 0
<1>1. Len(r.queue) \in Nat /\ Bounded(Drain(r))
  BY LenProperties, DrainAll DEF Bounded, RingType
<1>2. ASSUME r.overflow = <<>>
      PROVE  /\ Drain(r).overflow = <<>> /\ GetFree(Drain(r)) = GetFree(r)
             /\ Available(Drain(r)) < Threshold => GetFree(Drain(r)) > 0
  <2>1. Drain(r).overflow = <<>> /\ Drain(r).queue = r.queue
    BY <1>2, DrainAll
  <2> QED BY <1>1, <1>2, <2>1 DEF GetFree, Available
<1>3. ASSUME CanPull(r)
      PROVE  Pulled(r).overflow = r.overflow /\ (GetFree(r) > 0 => GetFree(Pulled(r)) > 0)
  <2>1. Pulled(r).overflow = r.overflow /\ Len(Pulled(r).queue) = Len(r.queue) - 1
    BY <1>3, PulledAll
  <2> QED BY <1>1, <2>1 DEF GetFree
<1> QED BY <1>2, <1>3

LEMMA NoOverflow ==
    ASSUME Backpressure
    PROVE  /\ \A w \in W : ring[To(w)].overflow = <<>> /\ ring[From(w)].overflow = <<>>
           /\ ring[Ready].overflow = <<>> /\ ring[Failed].overflow = <<>>
<1>1. \A w \in W : w \in Threads
  BY DEF W, Threads
<1>2. \A w \in W : To(w) \in Rings /\ From(w) \in Rings
  BY NamesOfRings
<1>3. \A w \in W : /\ ~(To(w) = In \/ \E v \in W : To(w) = Err(v))
                   /\ ~(From(w) = In \/ \E v \in W : From(w) = Err(v))
  BY <1>1, NamesOfRings
<1>4. /\ Ready \in Rings /\ ~(Ready = In \/ \E v \in W : Ready = Err(v))
      /\ Failed \in Rings /\ ~(Failed = In \/ \E v \in W : Failed = Err(v))
  BY NamesOfRings
<1> QED BY <1>2, <1>3, <1>4 DEF Backpressure

(* Each action keeps the overflows where they may be, and the room that a  *)
(* thread goes by.                                                         *)
LEMMA RoomStep ==
    ASSUME IInv, [Steps]_vars
    PROVE  Backpressure' /\ Room'
<1>1. /\ ring \in [Rings -> RingType] /\ \A r \in Rings : Bounded(ring[r])
      /\ Backpressure /\ Room /\ Types /\ Control
  BY DEF IInv, PlacesHold, RingsSound, Sound
<1>2. /\ \A w \in W : ring[To(w)].overflow = <<>> /\ ring[From(w)].overflow = <<>>
      /\ ring[Ready].overflow = <<>> /\ ring[Failed].overflow = <<>>
  BY <1>1, NoOverflow
<1>3. W \subseteq Threads /\ Fallback \notin W /\ 0 \notin W
  BY DEF W, Threads, Fallback
<1>4. CASE Push
  <2>1. PICK t : /\ ring' = [ring EXCEPT ![In] = PushTo(Drain(@), t)]
                 /\ t = IF task_free_list # {} THEN CHOOSE x \in task_free_list : TRUE
                         ELSE CHOOSE x \in fresh : TRUE
    BY <1>4 DEF Push
  <2>2. t \in Tasks
    BY <1>1, <1>4, <2>1 DEF Push, Types
  <2>3. CanPull(ring[In]) => CanPull(PushTo(Drain(ring[In]), t))
    BY <1>1, <2>2, DrainAll, PushAll, NamesOfRings
  <2>4. ring'[In] = PushTo(Drain(ring[In]), t) /\ \A r \in Rings : r # In => ring'[r] = ring[r]
    BY <1>1, <2>1, NamesOfRings
  <2>5. sys' = sys /\ pc' = pc
    BY <1>4 DEF Push
  <2>6. Backpressure'
    BY <1>1, <2>4 DEF Backpressure
  <2>7. \A w \in W : ring'[To(w)] = ring[To(w)] /\ ring'[From(w)] = ring[From(w)]
    BY <2>4, NamesOfRings
  <2> QED BY <1>1, <2>3, <2>4, <2>5, <2>6, <2>7 DEF Room
<1>5. CASE Pull
  <2>1. PICK node \in {Failed, Ready} : CanPull(ring[node]) /\ ring' = [ring EXCEPT ![node] = Pulled(@)]
    BY <1>5 DEF Pull
  <2>2. node \in Rings /\ \A r \in Inner : r # node
    BY NamesOfRings
  <2>3. ring'[node] = Pulled(ring[node]) /\ \A r \in Rings : r # node => ring'[r] = ring[r]
    BY <1>1, <2>1, <2>2
  <2>4. Backpressure'
    BY <1>1, <2>1, <2>2, <2>3, RoomOfRing DEF Backpressure
  <2>5. sys' = sys /\ pc' = pc /\ ring'[In] = ring[In]
    BY <1>5, <2>2, <2>3, NamesOfRings DEF Pull
  <2>6. \A w \in W : ring'[To(w)] = ring[To(w)] /\ ring'[From(w)] = ring[From(w)]
    BY <2>2, <2>3, NamesOfRings
  <2> QED BY <1>1, <2>4, <2>5, <2>6 DEF Room
<1>6. CASE PullAck \/ Steering \/ UNCHANGED vars
  BY <1>1, <1>6 DEF PullAck, Steering, Start, StopSoft, StopSchedule, StopScheduleTorn, StopShutdown, StopEnd, StopHard, rings, vars,
                    Backpressure, Room
<1>7. CASE SysEnd
  BY <1>1, <1>7 DEF SysEnd, SysOff, rings, Backpressure, Room
<1>8. CASE FanN1 \/ FanN1Move
  <2>1. sys'[3] = 0 /\ pc' = pc
    BY <1>8 DEF FanN1, FanN1Move, SysReturn, SysOff, Goto
  <2>2. Endpoint \in {Ready, Failed} /\ Endpoint \in Rings /\ \A r \in Inner : r # Endpoint
    BY NamesOfRings DEF Endpoint
  <2>3. CASE UNCHANGED ring
    BY <1>1, <1>3, <2>1, <2>3 DEF Backpressure, Room
  <2>4. CASE FanN1 /\ ~UNCHANGED ring
    <3>1. ring' = [ring EXCEPT ![Endpoint] = Drain(@)]
      BY <2>4 DEF FanN1
    <3>2. ring'[Endpoint].overflow = <<>> /\ \A r \in Rings : r # Endpoint => ring'[r] = ring[r]
      BY <1>1, <1>2, <2>2, <3>1, RoomOfRing
    <3>3. Backpressure'
      BY <1>1, <3>2 DEF Backpressure
    <3>4. \A w \in W : ring'[From(w)] = ring[From(w)]
      BY <2>2, <3>2, NamesOfRings
    <3> QED BY <1>1, <1>3, <2>1, <3>3, <3>4 DEF Room
  <2>5. CASE FanN1Move /\ ~UNCHANGED ring
    <3> DEFINE i == Inputs[sys[2]]
    <3>1. /\ sys[2] > 0 /\ ~(sys[2] > Len(Inputs)) /\ CanPull(ring[i])
          /\ GetFree(ring[Endpoint]) # 0 /\ ring' = Move(i, Endpoint)
      BY <2>5 DEF FanN1Move
    <3>2. sys[2] \in Nat /\ Len(Inputs) \in Nat
      BY <1>1 DEF Types, Inputs, ErrInputs, OutInputs, W
    <3>3. i \in Inner
      BY <3>1, <3>2, InputsInside
    <3> HIDE DEF i
    <3>4. i \in Rings /\ i # Endpoint /\ Head(ring[i].queue) \in Tasks
      BY <1>1, <2>2, <3>1, <3>3, PulledAll, NamesOfRings
    <3>5. GetFree(ring[Endpoint]) > 0
      <4>1. Len(ring[Endpoint].queue) \in Nat /\ Len(ring[Endpoint].queue) <= Cap
        BY <1>1, <2>2, LenProperties DEF Bounded, RingType
      <4> QED BY <3>1, <4>1 DEF GetFree
    <3>6. /\ ring'[i] = Pulled(ring[i]) /\ ring'[Endpoint].overflow = <<>>
          /\ \A r \in Rings : r # i /\ r # Endpoint => ring'[r] = ring[r]
      BY <1>1, <2>2, <3>1, <3>4, <3>5, PushAll DEF Move
    <3>7. Backpressure'
      BY <1>1, <3>1, <3>4, <3>6, RoomOfRing DEF Backpressure
    <3>8. ASSUME NEW w \in W, GetFree(ring[From(w)]) > 0 PROVE GetFree(ring'[From(w)]) > 0
      <4>1. From(w) \in Rings /\ From(w) # Endpoint
        BY <2>2, NamesOfRings
      <4>2. CASE From(w) = i
        BY <1>1, <3>1, <3>4, <3>6, <3>8, <4>2, RoomOfRing
      <4>3. CASE From(w) # i
        BY <3>6, <3>8, <4>1, <4>3
      <4> QED BY <4>2, <4>3
    <3> QED BY <1>1, <1>3, <2>1, <3>7, <3>8 DEF Room
  <2> QED BY <1>8, <2>3, <2>4, <2>5
<1>9. CASE Fan1N
  <2>1. pc' = pc
    BY <1>9 DEF Fan1N
  <2>2. CASE UNCHANGED ring /\ sys'[3] = 0
    BY <1>1, <1>3, <2>1, <2>2 DEF Backpressure, Room
  <2>3. CASE ~(UNCHANGED ring /\ sys'[3] = 0)
    <3> DEFINE drained == [r \in Rings |-> IF \E w \in W : r = To(w) THEN Drain(ring[r]) ELSE ring[r]]
    <3>1. /\ CanPull(ring[In]) /\ ring' = drained
          /\ \/ \E w \in Unsaturated(drained) : Goto(sys[2], w)
             \/ Goto(sys[2], Fallback)
      BY <1>9, <2>3 DEF Fan1N, SysReturn, SysOff, Goto
    <3>2. /\ \A w \in W : ring'[To(w)] = Drain(ring[To(w)])
          /\ \A r \in Rings : (\A w \in W : r # To(w)) => ring'[r] = ring[r]
      BY <3>1, NamesOfRings
    <3>3. \A w \in W : To(w) \in Rings /\ From(w) \in Rings /\ In \in Rings
      BY NamesOfRings
    <3>4. ring'[In] = ring[In] /\ \A w \in W : ring'[From(w)] = ring[From(w)]
      BY <3>2, <3>3, NamesOfRings
    <3>5. \A w \in W : /\ ring'[To(w)].overflow = <<>>
                       /\ Available(ring'[To(w)]) < Threshold => GetFree(ring'[To(w)]) > 0
      BY <1>1, <1>2, <3>2, <3>3, RoomOfRing
    <3>6. Backpressure'
      BY <1>1, <3>2, <3>5 DEF Backpressure
    <3>7. sys'[3] \in W => GetFree(ring'[To(sys'[3])]) > 0
      <4>1. CASE Goto(sys[2], Fallback)
        BY <1>3, <4>1 DEF Goto
      <4>2. ASSUME NEW w \in Unsaturated(drained), Goto(sys[2], w) PROVE GetFree(ring'[To(sys'[3])]) > 0
        <5>1. w \in W /\ Available(ring'[To(w)]) < Threshold
          BY <3>1, <4>2 DEF Unsaturated
        <5>2. sys'[3] = w
          BY <4>2 DEF Goto
        <5> QED BY <3>5, <5>1, <5>2
      <4> QED BY <3>1, <4>1, <4>2
    <3> QED BY <1>1, <2>1, <3>1, <3>4, <3>6, <3>7 DEF Room
  <2> QED BY <2>2, <2>3
<1>10. CASE Fan1NFallback
  <2>1. /\ ring' = ring /\ pc' = pc /\ sys[1] = "in" /\ sys[3] # 0
        /\ \/ \E w \in Roomy(ring) : Goto(sys[2], w)
           \/ Goto(sys[2] + 1, 0)
    BY <1>10 DEF Fan1NFallback, rings, Fallback
  <2>2. sys'[3] \in W => GetFree(ring[To(sys'[3])]) > 0
    BY <1>3, <2>1 DEF Goto, Roomy
  <2> QED BY <1>1, <2>1, <2>2 DEF Room, Backpressure
<1>11. CASE Fan1NMove
  <2> DEFINE w == sys[3]
  <2>1. /\ w \in W /\ ring' = Move(In, To(w)) /\ pc' = pc /\ sys'[3] = 0
        /\ CanPull(ring[In]) /\ GetFree(ring[To(w)]) > 0
    BY <1>1, <1>3, <1>11 DEF Fan1NMove, Goto, Room
  <2> HIDE DEF w
  <2>2. /\ In \in Rings /\ To(w) \in Rings /\ In # To(w) /\ Head(ring[In].queue) \in Tasks
        /\ \A v \in W : From(v) # In /\ From(v) # To(w) /\ From(v) \in Rings
    BY <1>1, <2>1, PulledAll, NamesOfRings
  <2>3. /\ ring'[In] = Pulled(ring[In]) /\ ring'[To(w)].overflow = <<>>
        /\ \A r \in Rings : r # In /\ r # To(w) => ring'[r] = ring[r]
    BY <1>1, <2>1, <2>2, PushAll DEF Move
  <2>4. Backpressure'
    BY <1>1, <2>3 DEF Backpressure
  <2> QED BY <1>1, <1>3, <2>1, <2>2, <2>3, <2>4 DEF Room
<1>12. ASSUME NEW w \in W, Worker(w) PROVE Backpressure' /\ Room'
  <2>1. sys' = sys /\ \A v \in W : v # w => pc'[v] = pc[v]
    BY <1>1, <1>12 DEF Worker, WorkerEnd, WorkerCall, WorkerPull, WorkerPush, WorkerReturn, WorkerOn,
                       Types
  <2>2. /\ To(w) \in Rings /\ From(w) \in Rings /\ Err(w) \in Rings /\ In \in Rings
        /\ From(w) # Err(w) /\ To(w) # Err(w) /\ To(w) # From(w)
        /\ In # To(w) /\ In # From(w) /\ In # Err(w) /\ w \in Threads
    BY <1>3, NamesOfRings
  <2>3. \A v \in W : /\ To(v) \in Rings /\ To(v) # From(w) /\ To(v) # Err(w)
                     /\ From(v) \in Rings /\ From(v) # To(w) /\ From(v) # Err(w)
                     /\ v # w => To(v) # To(w) /\ From(v) # From(w)
    BY <2>2, NamesOfRings
  <2>4. CASE WorkerEnd(w)
    BY <1>1, <2>4 DEF WorkerEnd, rings, Backpressure, Room
  <2>5. CASE WorkerCall(w)
    <3> DEFINE e == [ring EXCEPT ![Err(w)] = Drain(@)]
    <3>1. ring' = ring \/ ring' = e \/ ring' = [e EXCEPT ![From(w)] = Drain(@)]
      BY <2>5 DEF WorkerCall
    <3>2. /\ ring'[From(w)] = ring[From(w)] \/ ring'[From(w)] = Drain(ring[From(w)])
          /\ \A r \in Rings : r # From(w) /\ r # Err(w) => ring'[r] = ring[r]
      BY <1>1, <2>2, <3>1
    <3>3. ring'[From(w)].overflow = <<>>
      BY <1>1, <1>2, <2>2, <3>2, RoomOfRing
    <3>4. Backpressure'
      BY <1>1, <3>2, <3>3 DEF Backpressure
    <3>5. pc'[w] # "work"
      BY <1>1, <2>5 DEF WorkerCall, WorkerReturn, WorkerOn, Types
    <3>6. /\ ring'[In] = ring[In] /\ \A v \in W : ring'[To(v)] = ring[To(v)]
          /\ \A v \in W : v # w => ring'[From(v)] = ring[From(v)]
      BY <2>2, <2>3, <3>2
    <3> QED BY <1>1, <2>1, <3>4, <3>5, <3>6 DEF Room
  <2>6. CASE WorkerPull(w)
    <3>1. CASE pc'[w] # "work"
      <4>1. ring' = ring
        BY <1>1, <2>6, <3>1 DEF WorkerPull, WorkerOn, Types
      <4> QED BY <1>1, <2>1, <3>1, <4>1 DEF Backpressure, Room
    <3>2. CASE pc'[w] = "work"
      <4>1. /\ CanPull(ring[To(w)]) /\ GetFree(ring[From(w)]) > 0
            /\ ring' = [ring EXCEPT ![To(w)] = Pulled(@)]
        BY <1>1, <2>6, <3>2 DEF WorkerPull, WorkerReturn, Types
      <4>2. /\ ring'[To(w)] = Pulled(ring[To(w)])
            /\ \A r \in Rings : r # To(w) => ring'[r] = ring[r]
        BY <1>1, <2>2, <4>1
      <4>3. /\ ring'[To(w)].overflow = <<>>
            /\ GetFree(ring[To(w)]) > 0 => GetFree(ring'[To(w)]) > 0
        BY <1>1, <1>2, <2>2, <4>1, <4>2, RoomOfRing
      <4>4. Backpressure'
        BY <1>1, <4>2, <4>3 DEF Backpressure
      <4>5. /\ ring'[In] = ring[In] /\ \A v \in W : ring'[From(v)] = ring[From(v)]
            /\ \A v \in W : GetFree(ring[To(v)]) > 0 => GetFree(ring'[To(v)]) > 0
        BY <2>2, <2>3, <4>2, <4>3
      <4> QED BY <1>1, <2>1, <4>1, <4>4, <4>5 DEF Room
    <3> QED BY <3>1, <3>2
  <2>7. CASE WorkerPush(w)
    <3>1. PICK to \in {From(w), Err(w)}, t \in hand[w] : ring' = [ring EXCEPT ![to] = PushTo(@, t)]
      BY <2>7 DEF WorkerPush
    <3>2. pc[w] = "work" /\ pc'[w] # "work"
      BY <1>1, <2>7 DEF WorkerPush, WorkerOn, Types
    <3>3. t \in Tasks /\ GetFree(ring[From(w)]) > 0
      BY <1>1, <3>1, <3>2 DEF Control, Room
    <3>4. /\ ring'[to] = PushTo(ring[to], t)
          /\ \A r \in Rings : r # to => ring'[r] = ring[r]
      BY <1>1, <2>2, <3>1
    <3>5. to = From(w) => ring'[to].overflow = <<>>
      BY <1>1, <2>2, <3>3, <3>4, PushAll
    <3>6. Backpressure'
      BY <1>1, <3>1, <3>4, <3>5 DEF Backpressure
    <3>7. /\ ring'[In] = ring[In] /\ \A v \in W : ring'[To(v)] = ring[To(v)]
          /\ \A v \in W : v # w => ring'[From(v)] = ring[From(v)]
      BY <2>2, <2>3, <3>1, <3>4
    <3> QED BY <1>1, <2>1, <3>2, <3>6, <3>7 DEF Room
  <2> QED BY <1>12, <2>4, <2>5, <2>6, <2>7 DEF Worker
<1> QED
  BY <1>4, <1>5, <1>6, <1>7, <1>8, <1>9, <1>10, <1>11, <1>12 DEF Steps, Main, System, Steering, Over

-----------------------------------------------------------------------------
(* The count, and what is left when the threads are told to stop.          *)

LEMMA BusyPlaces ==
    /\ Within \subseteq Busy /\ Busy \subseteq Places /\ Busy = Within \cup {Ready, Failed}
    /\ In \in Within /\ Ready \in Busy \ Within /\ Failed \in Busy \ Within
    /\ Fresh \in Places \ Busy /\ Free \in Places \ Busy /\ Got \in Places \ Busy
BY NamesOfRings, NamesOfPlaces, AtPlaces DEF Within, Busy, Hands, Places, Hand, Ready, Failed

LEMMA CountStep ==
    ASSUME IInv, [Steps]_vars
    PROVE  Counted'
<1>1. Placed /\ IsFiniteSet(InUse) /\ task_wip_count = Cardinality(InUse)
  BY DEF IInv, PlacesHold, Counted
<1>2. ASSUME InUse' = InUse, task_wip_count' = task_wip_count PROVE Counted'
  BY <1>1, <1>2 DEF Counted
<1>3. ASSUME Stays PROVE InUse' = InUse
  BY <1>3, BusyPlaces DEF Stays, InUse
<1>4. CASE Push
  <2>1. PICK a \in {Fresh, Free}, t \in Tasks : Moves(a, In, {t})
    BY <1>4, PushMoves
  <2>2. a \in Places /\ a \notin Busy /\ In \in Busy /\ Busy \subseteq Places
    BY BusyPlaces
  <2>3. t \notin InUse
    BY <1>1, <2>1, <2>2 DEF Moves, InUse, Placed
  <2>4. \A p \in Busy : At(p)' = IF p = In THEN At(p) \cup {t} ELSE At(p)
    BY <2>1, <2>2 DEF Moves
  <2>5. InUse' = InUse \cup {t}
    BY <2>2, <2>4 DEF InUse
  <2>6. IsFiniteSet(InUse') /\ Cardinality(InUse') = Cardinality(InUse) + 1
    BY <1>1, <2>3, <2>5, FS_AddElement
  <2> QED BY <1>1, <1>4, <2>6 DEF Push, Counted
<1>5. CASE Pull
  <2>1. PICK node \in {Failed, Ready}, x \in Tasks : Moves(node, Got, {x})
    BY <1>5, PullMoves
  <2>2. node \in Busy /\ Got \notin Busy /\ Busy \subseteq Places
    BY BusyPlaces
  <2>3. x \in InUse /\ \A p \in Busy : p # node => x \notin At(p)
    BY <1>1, <2>1, <2>2 DEF Moves, InUse, Placed
  <2>4. \A p \in Busy : At(p)' = IF p = node THEN At(p) \ {x} ELSE At(p)
    BY <2>1, <2>2 DEF Moves
  <2>5. InUse' = InUse \ {x}
    BY <2>3, <2>4 DEF InUse
  <2>6. IsFiniteSet(InUse') /\ Cardinality(InUse') = Cardinality(InUse) - 1
    BY <1>1, <2>3, <2>5, FS_RemoveElement
  <2> QED BY <1>1, <1>5, <2>6 DEF Pull, Counted
<1>6. CASE PullAck
  <2>1. \A p \in Busy : At(p)' = At(p)
    BY <1>6, PullAckMoves, BusyPlaces DEF Moves
  <2>2. InUse' = InUse
    BY <2>1 DEF InUse
  <2> QED BY <1>2, <1>6, <2>2 DEF PullAck
<1>7. CASE Steering \/ UNCHANGED vars
  <2>1. task_wip_count' = task_wip_count
    BY <1>7 DEF Steering, Start, StopSoft, StopSchedule, StopScheduleTorn, StopShutdown, StopEnd, StopHard, vars, objects
  <2> QED BY <1>2, <1>3, <1>7, <2>1, SteeringStays
<1>8. CASE InsideStep
  <2>1. task_wip_count' = task_wip_count
    BY <1>8 DEF InsideStep
  <2>2. ASSUME NEW a \in Within, NEW b \in Busy, NEW x \in Tasks, a # b, Moves(a, b, {x})
        PROVE  InUse' = InUse
    <3>1. a \in Busy /\ x \in At(a) /\ Busy \subseteq Places
      BY <2>2, BusyPlaces DEF Moves
    <3>2. \A p \in Busy : At(p)' = IF p = a THEN At(p) \ {x} ELSE IF p = b THEN At(p) \cup {x}
                                   ELSE At(p)
      BY <2>2, <3>1 DEF Moves
    <3> QED BY <2>2, <3>1, <3>2 DEF InUse
  <2> QED BY <1>2, <1>3, <1>8, <2>1, <2>2 DEF InsideStep
<1> QED BY <1>4, <1>5, <1>6, <1>7, <1>8, StepKinds

(* Where the end of phase 1 tests the count, nothing is left inside.       *)
LEMMA NoneLeft ==
    ASSUME IInv, task_wip_count <= Available(ring[Failed]) + Available(ring[Ready])
    PROVE  \A p \in Within : At(p) = {}
<1>1. /\ Placed /\ \A r \in Rings : Sound(ring[r])
      /\ IsFiniteSet(InUse) /\ task_wip_count = Cardinality(InUse)
  BY DEF IInv, PlacesHold, RingsSound, Counted
<1>2. ASSUME NEW r \in Rings
      PROVE  /\ IsFiniteSet(ToSet(ring[r].queue)) /\ ToSet(ring[r].queue) \subseteq At(r)
             /\ Cardinality(ToSet(ring[r].queue)) = Available(ring[r])
  <2>1. PICK q \in Seq(Tasks) : q = ring[r].queue
    BY <1>1 DEF Sound, Bounded, RingType
  <2>2. PICK o \in Seq(Tasks) : o = ring[r].overflow
    BY <1>1 DEF Sound, Bounded, RingType
  <2>3. NoneTwice(q)
    BY <1>1, <2>1, <2>2, ConcatSet DEF Sound, All
  <2>4. IsFiniteSet(ToSet(q)) /\ Cardinality(ToSet(q)) = Len(q)
    BY <2>3, LengthIsCount
  <2> QED BY <2>1, <2>4, AtPlaces DEF Available, Elements
<1> DEFINE F == ToSet(ring[Failed].queue)
           R == ToSet(ring[Ready].queue)
<1>3. Ready \in Rings /\ Failed \in Rings /\ Ready # Failed /\ Rings \subseteq Places
  BY NamesOfRings, AtPlaces
<1>4. /\ IsFiniteSet(F) /\ F \subseteq At(Failed) /\ Cardinality(F) = Available(ring[Failed])
      /\ IsFiniteSet(R) /\ R \subseteq At(Ready) /\ Cardinality(R) = Available(ring[Ready])
  BY <1>2, <1>3
<1> HIDE DEF F, R
<1>5. F \cap R = {}
  BY <1>1, <1>3, <1>4 DEF Placed
<1>6. IsFiniteSet(F \cup R) /\ Cardinality(F \cup R) = Cardinality(F) + Cardinality(R)
  <2>1. /\ IsFiniteSet(F \cup R) /\ Cardinality(F) \in Nat /\ Cardinality(R) \in Nat
        /\ Cardinality(F \cup R) = Cardinality(F) + Cardinality(R) - Cardinality(F \cap R)
    BY <1>4, FS_Union, FS_CardinalityType
  <2>2. Cardinality(F \cap R) = 0
    BY <1>5, FS_EmptySet
  <2> QED BY <2>1, <2>2
<1>7. F \cup R \subseteq InUse
  BY <1>3, <1>4, BusyPlaces DEF InUse
<1>8. InUse = F \cup R
  <2>1. Cardinality(InUse) <= Cardinality(F \cup R)
    BY <1>1, <1>4, <1>6
  <2>2. /\ Cardinality(F \cup R) <= Cardinality(InUse)
        /\ Cardinality(InUse) = Cardinality(F \cup R) => InUse = F \cup R
    BY <1>1, <1>7, FS_Subset
  <2>3. Cardinality(InUse) \in Nat /\ Cardinality(F \cup R) \in Nat
    BY <1>1, <1>6, FS_CardinalityType
  <2> QED BY <2>1, <2>2, <2>3
<1>9. ASSUME NEW p \in Within PROVE At(p) = {}
  <2>1. p \in Busy /\ p \in Places /\ p # Ready /\ p # Failed
    BY BusyPlaces
  <2>2. At(p) \subseteq F \cup R
    BY <1>8, <2>1 DEF InUse
  <2>3. At(p) \cap At(Failed) = {} /\ At(p) \cap At(Ready) = {}
    BY <1>1, <1>3, <2>1 DEF Placed
  <2> QED BY <1>4, <2>2, <2>3
<1> QED BY <1>9

LEMMA CleanStep ==
    ASSUME IInv, [Steps]_vars
    PROVE  CleanInside'
<1>1. Placed /\ CleanInside
  BY DEF IInv, PlacesHold
<1>2. CASE Push
  <2>1. PICK a \in {Fresh, Free}, t \in Tasks :
           /\ Moves(a, In, {t})
           /\ late' = IF stop \in {"ending", "ended"} THEN late \cup {t} ELSE late
    BY <1>2, PushMoves
  <2>2. stop' = stop /\ stop # "scheduling" /\ torn' = torn
    BY <1>2 DEF Push, Unblocked, control
  <2>3. \A p \in Within : At(p)' = IF p = In THEN At(p) \cup {t} ELSE At(p)
    BY <2>1, BusyPlaces DEF Moves
  <2> QED BY <1>1, <2>1, <2>2, <2>3 DEF CleanInside
<1>3. CASE Pull
  <2>1. \A p \in Within : At(p)' = At(p)
    BY <1>3, PullMoves, BusyPlaces DEF Moves
  <2> QED BY <1>1, <1>3, <2>1 DEF Pull, control, CleanInside
<1>4. CASE PullAck
  <2>1. \A p \in Within : At(p)' = At(p)
    BY <1>4, PullAckMoves, BusyPlaces DEF Moves
  <2>2. \A p \in Within : At(p) \cap got = {}
    BY <1>1, BusyPlaces, AtPlaces DEF Placed
  <2> QED BY <1>1, <1>4, <2>1, <2>2 DEF PullAck, control, CleanInside
<1>5. CASE Steering \/ UNCHANGED vars
  <2>1. \A p \in Within : At(p)' = At(p)
    BY <1>5, SteeringStays, BusyPlaces DEF Stays
  <2>2. CASE StopSchedule
    <3>1. \A p \in Within : At(p) = {}
      BY <2>2, NoneLeft DEF StopSchedule
    <3> QED BY <2>1, <3>1 DEF CleanInside
  <2>3. CASE ~StopSchedule
    BY <1>1, <1>5, <2>1, <2>3
       DEF Steering, Start, StopSoft, StopScheduleTorn, StopShutdown, StopEnd, StopHard,
           objects, vars, control, CleanInside
  <2> QED BY <2>2, <2>3
<1>6. CASE InsideStep
  <2>1. late' = late /\ stop' = stop /\ torn' = torn
    BY <1>6 DEF InsideStep
  <2>2. CASE Stays
    BY <1>1, <2>1, <2>2, BusyPlaces DEF Stays, CleanInside
  <2>3. ASSUME NEW a \in Within, NEW b \in Busy, NEW x \in Tasks, a # b, Moves(a, b, {x})
        PROVE  CleanInside'
    <3>1. x \in At(a) /\ \A p \in Within : At(p)' \subseteq At(p) \cup {x}
      BY <2>3, BusyPlaces DEF Moves
    <3> QED BY <1>1, <2>1, <3>1 DEF CleanInside
  <2> QED BY <1>6, <2>2, <2>3 DEF InsideStep
<1> QED BY <1>2, <1>3, <1>4, <1>5, <1>6, StepKinds

-----------------------------------------------------------------------------
(* The invariant.                                                          *)

LEMMA InitInv == Init => IInv
<1> SUFFICES ASSUME Init PROVE IInv
  OBVIOUS
<1>1. /\ <<>> \in Seq(Tasks) /\ Len(<<>>) = 0 /\ <<>> \o <<>> = <<>>
      /\ ToSet(<<>>) = {} /\ NoneTwice(<<>>)
  <2>1. PICK e \in Seq(Tasks) : e = <<>>
    BY EmptySeq
  <2>2. Len(e) = 0 /\ e \o e = e /\ DOMAIN e = {}
    BY <2>1, EmptySeq, ConcatEmptySeq, LenProperties
  <2> QED BY <2>1, <2>2 DEF ToSet, NoneTwice
<1>2. \A r \in Rings : ring[r].queue = <<>> /\ ring[r].overflow = <<>>
  BY DEF Init
<1>3. ring \in [Rings -> RingType]
  BY <1>1 DEF Init, RingType
<1>4. \A r \in Rings : Sound(ring[r]) /\ Elements(ring[r]) = {}
  <2> SUFFICES ASSUME NEW r \in Rings PROVE Sound(ring[r]) /\ Elements(ring[r]) = {}
    OBVIOUS
  <2>1. ring[r] \in RingType /\ ring[r].queue = <<>> /\ ring[r].overflow = <<>>
    BY <1>2, <1>3
  <2>2. Bounded(ring[r])
    BY <1>1, <2>1 DEF Bounded
  <2>3. All(ring[r]) = <<>> /\ Elements(ring[r]) = {}
    BY <1>1, <2>1 DEF All, Elements
  <2> QED BY <1>1, <2>2, <2>3 DEF Sound
<1>5. /\ At(Fresh) = Tasks /\ \A p \in Places : p # Fresh => At(p) = {}
  BY <1>4, AtPlaces DEF Init
<1>6. PlacesHold
  BY <1>3, <1>4, <1>5, AtPlaces DEF PlacesHold, RingsSound, Placed
<1>7. Types /\ Control
  <2>1. sys \in {"err", "in", "out"} \X Nat \X (0..Fallback)
    BY DEF Init, Fallback
  <2>2. hand \in [W -> SUBSET Tasks] /\ fresh \cup task_free_list \cup got \cup late \subseteq Tasks
    BY DEF Init
  <2> QED BY <2>1, <2>2 DEF Init, Types, Control
<1>8. Backpressure /\ Room
  BY <1>2 DEF Init, Backpressure, Room
<1>9. Counted
  <2>1. InUse = {}
    BY <1>5, BusyPlaces DEF InUse
  <2> QED BY <2>1, FS_EmptySet DEF Counted, Init
<1>10. CleanInside
  BY DEF Init, CleanInside
<1> QED BY <1>6, <1>7, <1>8, <1>9, <1>10 DEF IInv

LEMMA StepInv == IInv /\ [Steps]_vars => IInv'
BY TypesStep, ControlStep, PlacesStep, RoomStep, CountStep, CleanStep DEF IInv

-----------------------------------------------------------------------------
(* A torn drain.                                                           *)

LEMMA DrainedTornBounded ==
    ASSUME NEW r, Bounded(r)
    PROVE  Bounded(DrainedTorn(r)) /\ DrainedTorn(r).overflow = <<>>
<1>1. PICK all \in Seq(Tasks) : all = r.queue \o r.overflow
  BY ConcatProperties DEF Bounded, RingType
<1>2. Len(all) \in Nat /\ \A i \in 1..Len(all) : all[i] \in Tasks
  BY LenProperties, ElementOfSeq
<1>3. PICK kept \in 0..Cap : kept = Len(all) % (Cap + 1)
  BY <1>2
<1>4. kept <= Len(all)
  BY <1>2, <1>3
<1>5. PICK from \in Nat : from = Len(all) - kept
  BY <1>2, <1>4
<1> DEFINE q == SubSeq(all, from + 1, Len(all))
<1>6. q \in Seq(Tasks) /\ Len(q) = kept
  <2>1. from \in 0..Len(all)
    BY <1>2, <1>3, <1>5
  <2>2. q \in Seq(Tasks) /\ Len(q) = Len(all) - from
    BY <2>1, SplitSeq
  <2> QED BY <1>2, <1>5, <2>2
<1>7. <<>> \in Seq(Tasks)
  BY EmptySeq
<1>8. DrainedTorn(r) = [queue |-> q, overflow |-> <<>>]
  BY <1>1, <1>3, <1>5 DEF DrainedTorn
<1> HIDE DEF q
<1> QED BY <1>3, <1>6, <1>7, <1>8 DEF Bounded, RingType

LEMMA DrainTornStep ==
    ASSUME IInv, DrainTorn
    PROVE  Ind'
<1>1. Types /\ Control /\ Backpressure /\ RingsBounded /\ task_wip_count \in Nat
  BY FS_CardinalityType DEF IInv, PlacesHold, RingsSound, Sound, RingsBounded, Counted
<1>2. PICK r \in {In} \cup {Err(w) : w \in W} : ring' = [ring EXCEPT ![r] = DrainedTorn(@)]
  BY DEF DrainTorn
<1>3. r \in Rings
  BY NamesOfRings
<1>4. Bounded(ring[r])
  BY <1>1, <1>3 DEF RingsBounded
<1>5. Bounded(DrainedTorn(ring[r])) /\ DrainedTorn(ring[r]).overflow = <<>>
  BY <1>4, DrainedTornBounded
<1>6. ring'[r] = DrainedTorn(ring[r]) /\ \A s \in Rings : s # r => ring'[s] = ring[s]
  BY <1>1, <1>2, <1>3 DEF RingsBounded
<1>7. RingsBounded'
  <2>1. ring' \in [Rings -> RingType]
    BY <1>1, <1>2, <1>3, <1>5 DEF RingsBounded, Bounded
  <2> QED BY <1>1, <1>5, <1>6, <2>1 DEF RingsBounded
<1>8. Backpressure'
  BY <1>1, <1>5, <1>6 DEF Backpressure
<1>9. /\ torn' = torn \cup {"drain"}
      /\ UNCHANGED <<task_wip_count, task_free_list, fresh, got, late, control, sys, pc, hand>>
  BY DEF DrainTorn
<1>10. Types' /\ Control' /\ task_wip_count' \in Nat
  BY <1>1, <1>9 DEF Types, Control, control
<1> QED BY <1>7, <1>8, <1>9, <1>10 DEF Ind, Rest

(* After it every action is disabled.                                      *)
LEMMA TornIsLast ==
    ASSUME "drain" \in torn, [Next]_vars
    PROVE  UNCHANGED vars
<1>1. ~Alive
  BY DEF Alive
<1>2. ~(Push \/ Pull \/ PullAck \/ Start) /\ ~DrainTorn
  BY <1>1 DEF Push, Pull, PullAck, Start, DrainTorn, Unblocked
<1>3. ~(StopSoft \/ StopSchedule \/ StopScheduleTorn \/ StopShutdown \/ StopEnd \/ StopHard)
  BY <1>1 DEF StopSoft, StopSchedule, StopScheduleTorn, StopShutdown, StopEnd, StopHard
<1>4. ~System
  BY <1>1 DEF System, SysEnd, FanN1, FanN1Move, Fan1N, Fan1NFallback, Fan1NMove, Running
<1>5. \A w \in W : ~Worker(w)
  BY <1>1 DEF Worker, WorkerEnd, WorkerCall, WorkerPull, WorkerPush, Running
<1> QED BY <1>2, <1>3, <1>4, <1>5 DEF Next, Main, Over

LEMMA TornStays ==
    ASSUME IInv, [Steps]_vars, "drain" \notin torn
    PROVE  "drain" \notin torn'
<1>1. CASE Push \/ Pull \/ PullAck
  BY <1>1 DEF Push, Pull, PullAck
<1>2. CASE Steering \/ UNCHANGED vars
  BY <1>2 DEF Steering, Start, StopSoft, StopSchedule, StopScheduleTorn, StopShutdown, StopEnd, StopHard,
              objects, vars
<1>3. CASE InsideStep
  BY <1>3 DEF InsideStep
<1> QED BY <1>1, <1>2, <1>3, StepKinds

LEMMA IndStep == Ind /\ [Next]_vars => Ind'
<1> SUFFICES ASSUME Ind, [Next]_vars PROVE Ind'
  OBVIOUS
<1>1. CASE "drain" \in torn
  <2>1. UNCHANGED vars /\ Rest
    BY <1>1, TornIsLast DEF Ind
  <2>2. /\ ring' = ring /\ task_wip_count' = task_wip_count /\ torn' = torn /\ fresh' = fresh
        /\ task_free_list' = task_free_list /\ got' = got /\ late' = late /\ thread' = thread
        /\ started' = started /\ need_shutdown' = need_shutdown /\ stop' = stop
        /\ sys' = sys /\ pc' = pc /\ hand' = hand
    BY <2>1 DEF vars, rings, objects, control
  <2>3. Types' /\ Control'
    BY <2>1, <2>2 DEF Rest, Types, Control
  <2>4. Backpressure' /\ RingsBounded' /\ task_wip_count' \in Nat
    BY <2>1, <2>2 DEF Rest, Backpressure, RingsBounded
  <2> QED BY <1>1, <2>2, <2>3, <2>4 DEF Ind, Rest
<1>2. CASE "drain" \notin torn /\ DrainTorn
  BY <1>2, DrainTornStep DEF Ind
<1>3. CASE "drain" \notin torn /\ [Steps]_vars
  <2>1. IInv /\ IInv'
    BY <1>3, StepInv DEF Ind
  <2> QED BY <1>3, <2>1, TornStays DEF Ind
<1> QED BY <1>1, <1>2, <1>3 DEF Next, Steps

LEMMA Invariance == Spec => []Ind
<1>1. Init => Ind
  BY InitInv DEF Ind, Init
<1> QED BY <1>1, IndStep, PTL DEF Spec

(* What holds before a torn drain and after it.                            *)
LEMMA IndRest == Ind => Rest
BY FS_CardinalityType DEF Ind, Rest, IInv, PlacesHold, RingsSound, Sound, RingsBounded, Counted

(* The types, and the size of every queue (pipeline.coffee, the rings that  *)
(* napi_pipeline.coffee links).                                            *)
THEOREM TypesCorrect == Spec => []TypeOK
<1>1. Ind => TypeOK
  <2> SUFFICES ASSUME Ind PROVE TypeOK
    OBVIOUS
  <2>1. Types /\ Control /\ task_wip_count \in Nat /\ \A r \in Rings : Bounded(ring[r])
    BY IndRest DEF Rest, RingsBounded
  <2>2. \A r \in Rings : Len(ring[r].queue) <= Cap /\ Content(r) \subseteq Tasks
    BY <2>1, ElementsAll DEF Bounded, Content, Elements
  <2>3. \A w \in W : hand[w] \subseteq Tasks /\ (hand[w] # {} <=> pc[w] = "work")
    BY <2>1 DEF Types, Control
  <2> QED BY <2>1, <2>2, <2>3 DEF Types, TypeOK
<1> QED BY <1>1, Invariance, PTL

(* Until a drain is torn, each task object is in one place, whatever the   *)
(* threads do: the free list, the callback, one worker or one ring, and    *)
(* there only once.                                                        *)
THEOREM EachObjectOnce == Spec => []OnePlace
<1>1. Ind => OnePlace
  <2> SUFFICES ASSUME Ind, "drain" \notin torn PROVE OnePlace
    BY DEF OnePlace
  <2>1. /\ Types /\ Placed /\ \A r \in Rings : Sound(ring[r])
    BY DEF Ind, IInv, PlacesHold, RingsSound
  <2>2. \A r \in Rings : Content(r) = At(r) /\ At(r) \subseteq Tasks
    BY <2>1, AtPlaces, ElementsAll DEF Content, Elements, Sound
  <2>3. /\ At(Fresh) = fresh /\ At(Free) = task_free_list /\ At(Got) = got
        /\ \A w \in W : At(Hand(w)) = hand[w]
    BY AtPlaces
  <2>4. DOMAIN hand = W /\ \A w \in W : hand[w] \subseteq Tasks
    BY <2>1 DEF Types
  <2>5. Rings = Inner \cup {Ready, Failed}
    BY NamesOfRings
  <2>6. fresh \cup task_free_list \cup got \cup Inside \cup Outside = Tasks
    <3>1. fresh \cup task_free_list \cup got \cup Inside \cup Outside \subseteq Tasks
      BY <2>1, <2>2, <2>4, <2>5 DEF Types, Inside, Outside, Held
    <3>2. ASSUME NEW t \in Tasks
          PROVE  t \in fresh \cup task_free_list \cup got \cup Inside \cup Outside
      <4>1. PICK p \in Places : t \in At(p)
        BY <2>1 DEF Placed
      <4> QED BY <2>2, <2>3, <2>5, <4>1, AtPlaces DEF Inside, Outside, Held
    <3> QED BY <3>1, <3>2
  <2>7. \A r \in Rings : NoneTwice(ring[r].queue \o ring[r].overflow)
    BY <2>1 DEF Sound, All
  <2>8. Apart([r \in Rings |-> Content(r)])
    BY <2>1, <2>2, AtPlaces DEF Apart, Placed
  <2>9. Apart(hand)
    <3>1. \A v, w \in W : v # w => Hand(v) # Hand(w)
      BY DEF Hand
    <3> QED BY <2>1, <2>3, <2>4, <3>1, AtPlaces DEF Apart, Placed
  <2>10. Apart(<<fresh, task_free_list, got, Held, UNION {Content(r) : r \in Rings}>>)
    <3> DEFINE H == Held
               C == UNION {Content(r) : r \in Rings}
    <3>1. /\ fresh \cap task_free_list = {} /\ fresh \cap got = {} /\ task_free_list \cap got = {}
      BY <2>1, <2>3, AtPlaces, NamesOfPlaces DEF Placed
    <3>2. fresh \cap H = {} /\ task_free_list \cap H = {} /\ got \cap H = {}
      BY <2>1, <2>3, AtPlaces, NamesOfPlaces DEF Placed, Held
    <3>3. \A r \in Rings : /\ Content(r) \cap fresh = {} /\ Content(r) \cap task_free_list = {}
                           /\ Content(r) \cap got = {}
                           /\ \A w \in W : Content(r) \cap hand[w] = {}
      BY <2>1, <2>2, <2>3, AtPlaces, NamesOfPlaces DEF Placed
    <3>4. fresh \cap C = {} /\ task_free_list \cap C = {} /\ got \cap C = {} /\ H \cap C = {}
      BY <3>3 DEF Held
    <3> HIDE DEF H, C
    <3>5. Apart(<<fresh, task_free_list, got, H, C>>)
      BY <3>1, <3>2, <3>4 DEF Apart
    <3> QED BY <3>5 DEF H, C
  <2> QED BY <2>6, <2>7, <2>8, <2>9, <2>10 DEF OnePlace
<1> QED BY <1>1, Invariance, PTL

LEMMA InUseIsInside ==
    /\ InUse = Inside \cup Outside
    /\ \A S : (\A p \in Within : At(p) \subseteq S) => Inside \subseteq S
<1>1. Rings = Inner \cup {Ready, Failed} /\ \A r \in Rings : Content(r) = At(r)
  BY NamesOfRings, AtPlaces DEF Content, Elements
<1>2. \A w \in W : At(Hand(w)) = hand[w]
  BY AtPlaces
<1>3. Held = UNION {At(p) : p \in Hands}
  BY <1>2 DEF Held, Hands
<1> QED BY <1>1, <1>3 DEF InUse, Inside, Outside, Busy, Within

(* task_wip_count, by which stop_soft decides that all tasks are done      *)
(* (pipeline.coffee), is the number of tasks pushed and not yet pulled,    *)
(* until a drain is torn.                                                  *)
THEOREM CountIsHonest == Spec => []WipHonest
<1>1. Ind => WipHonest
  BY InUseIsInside DEF Ind, IInv, Counted, WipHonest
<1> QED BY <1>1, Invariance, PTL

(* Only the ring the main thread pushes to and the error rings overflow:   *)
(* wherever a node asks for room first, the room is there when it pushes.  *)
THEOREM BackpressureHolds == Spec => []Backpressure
<1>1. Ind => Backpressure
  BY IndRest DEF Rest
<1> QED BY <1>1, Invariance, PTL

(* When stop_soft tells the threads to stop, and after, nothing pushed     *)
(* before is left inside, unless a count it went by, or a drain, was torn. *)
THEOREM StopLeavesNothing == Spec => []StopClean
<1>1. Ind => StopClean
  BY InUseIsInside DEF Ind, IInv, CleanInside, StopClean
<1> QED BY <1>1, Invariance, PTL

(* When stop_soft answers no thread runs and no worker holds a task, on    *)
(* whatever count it went.                                                 *)
THEOREM StopAnswersTrue == Spec => []StopTrue
<1>1. Ind => StopTrue
  BY IndRest DEF Rest, Control, StopTrue
<1> QED BY <1>1, Invariance, PTL
=============================================================================
