--------------------------- MODULE NifRing_proofs ---------------------------
(***************************************************************************)
(* A ring of src/tpl/erlang_nif/message_ring.hpp, whatever its size and    *)
(* however its offsets and its overflow list stand, is a queue: what is in *)
(* it leaves it in the order it came.                                      *)
(***************************************************************************)
EXTENDS NifRing, SequenceTheorems, TLAPS

\* A ring of things of V as its operations leave it; one of size 0 has never
\* been used.
WellFormed(r, V) ==
    /\ r = [size |-> r.size, slot |-> r.slot, send |-> r.send, recv |-> r.recv,
            overflow |-> r.overflow, idx |-> r.idx]
    /\ r.size \in Nat /\ r.slot \in [0..(r.size - 1) -> V]
    /\ r.send \in Nat /\ r.recv \in Nat
    /\ r.size > 0 => r.send < r.size /\ r.recv < r.size
    /\ r.size = 0 => r.send = 0 /\ r.recv = 0
    /\ r.overflow \in Seq(V) /\ r.idx \in 0..Len(r.overflow)

\* How much of the overflow a drain moves.
Moved(r) == IF FreePush(r) < Len(r.overflow) - r.idx THEN FreePush(r)
            ELSE Len(r.overflow) - r.idx

\* The slot of the k-th task, and how far a slot is ahead of the next free one.
SlotOf(r, k) == IF r.recv + k - 1 < r.size THEN r.recv + k - 1 ELSE r.recv + k - 1 - r.size
Ahead(r, i)  == IF i >= r.send THEN i - r.send ELSE i - r.send + r.size

-----------------------------------------------------------------------------
(* Offsets                                                                 *)

LEMMA Wrap ==
    ASSUME NEW s \in Nat \ {0}, NEW a \in 0..(2 * s - 1)
    PROVE  a % s = IF a < s THEN a ELSE a - s
<1>1. CASE a < s
  BY <1>1
<1>2. CASE a >= s
  BY <1>2
<1> QED BY <1>1, <1>2

\* What is available grows by what the sender's offset advances.
LEMMA Grows ==
    ASSUME NEW s \in Nat, NEW send \in 0..(s - 1), NEW recv \in 0..(s - 1), NEW n \in Nat,
           NEW was, was = (IF send >= recv THEN send - recv ELSE s + send - recv),
           n <= s - 1 - was,
           NEW to, to = (IF send + n < s THEN send + n ELSE send + n - s)
    PROVE  (IF to >= recv THEN to - recv ELSE s + to - recv) = was + n
<1>1. CASE send >= recv
  BY <1>1
<1>2. CASE send < recv
  BY <1>2
<1> QED BY <1>1, <1>2

\* One step of an offset by less than the size, and the same for sizes and
\* offsets that are fields of a ring.
LEMMA Advanced ==
    ASSUME NEW s \in Nat \ {0}, NEW a \in 0..(s - 1), NEW b \in 0..s
    PROVE  /\ (a + b) % s = IF a + b < s THEN a + b ELSE a + b - s
           /\ (a + b) % s \in 0..(s - 1)
<1> DEFINE c == a + b
<1>1. c \in 0..(2 * s - 1)
  OBVIOUS
<1> HIDE DEF c
<1>2. c % s = IF c < s THEN c ELSE c - s
  BY <1>1, Wrap
<1>3. c % s \in 0..(s - 1)
  BY <1>1, <1>2
<1> QED BY <1>2, <1>3 DEF c

LEMMA NewRingFormed ==
    ASSUME NEW V, Nothing \in V, NEW size \in Nat
    PROVE  WellFormed(NewRing(size), V) /\ NewRing(size).size = size
BY DEF WellFormed, NewRing

LEMMA Measures ==
    ASSUME NEW V, NEW r, WellFormed(r, V), r.size > 0
    PROVE  /\ Available(r) \in 0..(r.size - 1) /\ FreePush(r) = r.size - 1 - Available(r)
           /\ Moved(r) \in Nat /\ Moved(r) <= FreePush(r) /\ Moved(r) <= Len(r.overflow) - r.idx
<1>1. Available(r) \in 0..(r.size - 1) /\ FreePush(r) = r.size - 1 - Available(r)
  BY DEF WellFormed, Available, FreePush
<1>2. Len(r.overflow) \in Nat /\ r.idx \in 0..Len(r.overflow)
  BY DEF WellFormed
<1> HIDE DEF WellFormed
<1> QED BY <1>1, <1>2 DEF Moved, WellFormed

\* What a drain makes of the fields of a ring.
LEMMA DrainedFields ==
    ASSUME NEW V, NEW r, WellFormed(r, V), r.size > 0
    PROVE  LET d == Drained(r)
               n == Moved(r)
               all == r.idx + n = Len(r.overflow)
           IN  /\ d = [size |-> d.size, slot |-> d.slot, send |-> d.send, recv |-> d.recv,
                       overflow |-> d.overflow, idx |-> d.idx]
               /\ d.size = r.size /\ d.recv = r.recv
               /\ d.slot = [i \in 0..(r.size - 1) |->
                              IF Ahead(r, i) < n THEN r.overflow[r.idx + 1 + Ahead(r, i)]
                              ELSE r.slot[i]]
               /\ d.send = IF r.send + n < r.size THEN r.send + n ELSE r.send + n - r.size
               /\ d.overflow = IF all THEN <<>> ELSE r.overflow
               /\ d.idx = IF all THEN 0 ELSE r.idx + n
<1> DEFINE n == Moved(r)
           all == r.idx + n = Len(r.overflow)
           slot == [i \in 0..(r.size - 1) |->
                      LET a == (i - r.send + r.size) % r.size IN
                      IF a < n THEN r.overflow[r.idx + 1 + a] ELSE r.slot[i]]
<1>1. DOMAIN r.slot = 0..(r.size - 1)
  BY DEF WellFormed
<1>2. Drained(r) = [r EXCEPT !.slot = slot, !.send = (@ + n) % r.size,
                             !.overflow = IF all THEN <<>> ELSE @,
                             !.idx = IF all THEN 0 ELSE @ + n]
  BY <1>1 DEF Drained, Moved
<1>3. ASSUME NEW i \in 0..(r.size - 1) PROVE (i - r.send + r.size) % r.size = Ahead(r, i)
  <2>1. /\ r.size \in Nat \ {0} /\ r.send \in 0..(r.size - 1)
        /\ i - r.send + r.size \in 0..(2 * r.size - 1)
    BY DEF WellFormed
  <2> DEFINE b == i - r.send + r.size
             s == r.size
  <2>3. s \in Nat \ {0} /\ b \in 0..(2 * s - 1)
    BY <2>1
  <2> HIDE DEF b, s
  <2>4. b % s = IF b < s THEN b ELSE b - s
    BY <2>3, Wrap
  <2>5. (IF b < s THEN b ELSE b - s) = Ahead(r, i)
    BY <2>1 DEF Ahead, b, s
  <2>6. b % s = Ahead(r, i)
    BY <2>4, <2>5
  <2> QED BY <2>6, Zenon DEF b, s
<1>4. slot = [i \in 0..(r.size - 1) |->
                IF Ahead(r, i) < n THEN r.overflow[r.idx + 1 + Ahead(r, i)] ELSE r.slot[i]]
  BY <1>3
<1>5. (r.send + n) % r.size = IF r.send + n < r.size THEN r.send + n ELSE r.send + n - r.size
  <2>1. /\ r.size \in Nat \ {0} /\ r.send \in 0..(r.size - 1) /\ n \in 0..(r.size - 1)
    BY Measures DEF WellFormed
  <2> DEFINE a == r.send
             s == r.size
  <2> HIDE DEF a, s, n
  <2>2. s \in Nat \ {0} /\ a \in 0..(s - 1) /\ n \in 0..s
    BY <2>1 DEF a, s
  <2>3. (a + n) % s = IF a + n < s THEN a + n ELSE a + n - s
    BY <2>2, Advanced
  <2> QED BY <2>3 DEF a, s
<1> HIDE DEF n, all, slot
<1>6. LET d == Drained(r)
      IN  /\ d = [size |-> d.size, slot |-> d.slot, send |-> d.send, recv |-> d.recv,
                  overflow |-> d.overflow, idx |-> d.idx]
          /\ d.size = r.size /\ d.recv = r.recv /\ d.slot = slot
          /\ d.send = (r.send + n) % r.size
          /\ d.overflow = IF all THEN <<>> ELSE r.overflow
          /\ d.idx = IF all THEN 0 ELSE r.idx + n
  BY <1>2 DEF WellFormed
<1> QED BY <1>4, <1>5, <1>6 DEF n, all

LEMMA DrainedFormed ==
    ASSUME NEW V, NEW r, WellFormed(r, V), r.size > 0
    PROVE  /\ WellFormed(Drained(r), V) /\ Drained(r).size = r.size
           /\ Available(Drained(r)) = Available(r) + Moved(r)
<1> DEFINE d == Drained(r)
           n == Moved(r)
<1>1. /\ d = [size |-> d.size, slot |-> d.slot, send |-> d.send, recv |-> d.recv,
              overflow |-> d.overflow, idx |-> d.idx]
      /\ d.size = r.size /\ d.recv = r.recv
      /\ d.slot = [i \in 0..(r.size - 1) |->
                     IF Ahead(r, i) < n THEN r.overflow[r.idx + 1 + Ahead(r, i)] ELSE r.slot[i]]
      /\ d.send = IF r.send + n < r.size THEN r.send + n ELSE r.send + n - r.size
      /\ d.overflow = IF r.idx + n = Len(r.overflow) THEN <<>> ELSE r.overflow
      /\ d.idx = IF r.idx + n = Len(r.overflow) THEN 0 ELSE r.idx + n
  BY DrainedFields
<1>2. /\ r.size \in Nat \ {0} /\ r.send \in 0..(r.size - 1) /\ r.recv \in 0..(r.size - 1)
      /\ r.slot \in [0..(r.size - 1) -> V] /\ r.overflow \in Seq(V)
      /\ r.idx \in 0..Len(r.overflow) /\ Len(r.overflow) \in Nat
  BY DEF WellFormed
<1>3. /\ Available(r) \in 0..(r.size - 1) /\ n \in Nat
      /\ n <= r.size - 1 - Available(r) /\ n <= Len(r.overflow) - r.idx
  BY Measures
<1> HIDE DEF d, n
<1>4. d.slot \in [0..(r.size - 1) -> V]
  <2>1. ASSUME NEW i \in 0..(r.size - 1), Ahead(r, i) < n
        PROVE  r.overflow[r.idx + 1 + Ahead(r, i)] \in V
    <3>1. Ahead(r, i) \in Nat
      BY <1>2 DEF Ahead
    <3>2. r.idx + 1 + Ahead(r, i) \in 1..Len(r.overflow)
      BY <1>2, <1>3, <2>1, <3>1
    <3> QED BY <1>2, <3>2
  <2> QED BY <1>1, <1>2, <2>1
<1>5. d.send \in 0..(r.size - 1)
  <2>1. d.send = IF r.send + n < r.size THEN r.send + n ELSE r.send + n - r.size
    BY <1>1
  <2>2. n < r.size
    BY <1>2, <1>3
  <2>3. CASE r.send + n < r.size
    BY <1>2, <1>3, <2>1, <2>3
  <2>4. CASE r.send + n >= r.size
    <3>1. d.send = r.send + n - r.size
      BY <1>2, <1>3, <2>1, <2>4
    <3> QED BY <1>2, <1>3, <2>2, <2>4, <3>1
  <2> QED BY <1>2, <1>3, <2>3, <2>4
<1>6. d.overflow \in Seq(V) /\ d.idx \in 0..Len(d.overflow)
  <2>1. CASE r.idx + n = Len(r.overflow)
    <3>1. d.overflow = <<>> /\ d.idx = 0
      BY <1>1, <2>1
    <3> QED BY <3>1
  <2>2. CASE r.idx + n # Len(r.overflow)
    <3>1. d.overflow = r.overflow /\ d.idx = r.idx + n
      BY <1>1, <2>2
    <3> QED BY <1>2, <1>3, <3>1
  <2> QED BY <2>1, <2>2
<1>7. WellFormed(d, V)
  BY <1>1, <1>2, <1>4, <1>5, <1>6 DEF WellFormed
<1>8. Available(d) = Available(r) + n
  <2>1. d.send = IF r.send + n < r.size THEN r.send + n ELSE r.send + n - r.size
    BY <1>1
  <2>2. Available(d) = IF d.send >= r.recv THEN d.send - r.recv ELSE r.size + d.send - r.recv
    BY <1>1 DEF Available
  <2>3. Available(r) = IF r.send >= r.recv THEN r.send - r.recv ELSE r.size + r.send - r.recv
    BY DEF Available
  <2> DEFINE was == Available(r)
             to == d.send
             size == r.size
             send == r.send
             recv == r.recv
  <2>4. /\ size \in Nat /\ send \in 0..(size - 1) /\ recv \in 0..(size - 1) /\ n \in Nat
        /\ was = (IF send >= recv THEN send - recv ELSE size + send - recv)
        /\ n <= size - 1 - was
        /\ to = (IF send + n < size THEN send + n ELSE send + n - size)
    BY <1>2, <1>3, <2>1, <2>3
  <2> HIDE DEF was, to, size, send, recv
  <2>5. (IF to >= recv THEN to - recv ELSE size + to - recv) = was + n
    BY <2>4, Grows
  <2>6. Available(d) = (IF to >= recv THEN to - recv ELSE size + to - recv)
    BY <2>2 DEF to, size, recv
  <2>7. Available(d) = was + n
    BY <2>5, <2>6
  <2> QED BY <2>7 DEF was
<1> QED BY <1>1, <1>7, <1>8 DEF d, n

\* A torn drain writes tasks of the overflow to the slots; which, and over which, it does
\* not care.
LEMMA TornFormed ==
    ASSUME NEW V, NEW r, WellFormed(r, V), r.size > 0
    PROVE  WellFormed(DrainedTorn(r), V)
<1> DEFINE n == Len(r.overflow) - r.idx
           after(i) == (r.send + n - 1 - i) % r.size
           slot == [i \in 0..(r.size - 1) |->
                      IF after(i) < n THEN r.overflow[Len(r.overflow) - after(i)] ELSE r.slot[i]]
           d == DrainedTorn(r)
<1>1. /\ r.size \in Nat \ {0} /\ r.send \in 0..(r.size - 1) /\ r.recv \in 0..(r.size - 1)
      /\ r.slot \in [0..(r.size - 1) -> V] /\ r.overflow \in Seq(V)
      /\ r.idx \in 0..Len(r.overflow) /\ Len(r.overflow) \in Nat
      /\ DOMAIN r.slot = 0..(r.size - 1)
  BY DEF WellFormed
<1>2. d = [r EXCEPT !.slot = slot, !.send = (@ + n) % r.size, !.overflow = <<>>, !.idx = 0]
  BY <1>1 DEF DrainedTorn
<1>3. n \in Nat /\ n <= Len(r.overflow)
  BY <1>1
<1> HIDE DEF slot, n, d
<1>4. /\ d = [size |-> d.size, slot |-> d.slot, send |-> d.send, recv |-> d.recv,
              overflow |-> d.overflow, idx |-> d.idx]
      /\ d.size = r.size /\ d.recv = r.recv /\ d.slot = slot /\ d.send = (r.send + n) % r.size
      /\ d.overflow = <<>> /\ d.idx = 0
  BY <1>2 DEF WellFormed
<1>5. \A x \in Int : x % r.size \in 0..(r.size - 1)
  BY <1>1
<1>6. d.send \in 0..(r.size - 1)
  BY <1>1, <1>3, <1>4, <1>5
<1>7. slot \in [0..(r.size - 1) -> V]
  <2>1. ASSUME NEW i \in 0..(r.size - 1), after(i) < n
        PROVE  r.overflow[Len(r.overflow) - after(i)] \in V
    <3>1. after(i) \in Nat
      <4>1. r.send + n - 1 - i \in Int
        BY <1>1, <1>3
      <4>2. (r.send + n - 1 - i) % r.size \in 0..(r.size - 1)
        BY <1>5, <4>1
      <4>3. 0..(r.size - 1) \subseteq Nat
        BY <1>1
      <4> QED BY <4>2, <4>3
    <3> HIDE DEF after
    <3>2. Len(r.overflow) - after(i) \in 1..Len(r.overflow)
      BY <1>1, <1>3, <2>1, <3>1
    <3> QED BY <1>1, <3>2
  <2> HIDE DEF after
  <2> QED BY <1>1, <2>1 DEF slot
<1>8. <<>> \in Seq(V) /\ Len(<<>>) = 0
  OBVIOUS
<1> QED BY <1>1, <1>4, <1>6, <1>7, <1>8 DEF WellFormed, d

-----------------------------------------------------------------------------
(* The tasks of a ring                                                     *)

LEMMA InsideAt ==
    ASSUME NEW V, NEW r, WellFormed(r, V), r.size > 0
    PROVE  /\ Inside(r) \in Seq(V)
           /\ Len(Inside(r)) = Available(r) + Len(r.overflow) - r.idx
           /\ \A k \in 1..Available(r) :
                 SlotOf(r, k) \in 0..(r.size - 1) /\ Inside(r)[k] = r.slot[SlotOf(r, k)]
           /\ \A k \in (Available(r) + 1)..Len(Inside(r)) :
                 Inside(r)[k] = r.overflow[r.idx + k - Available(r)]
<1> DEFINE A == Available(r)
           s == [i \in 1..A |-> r.slot[(r.recv + i - 1) % r.size]]
           t == SubSeq(r.overflow, r.idx + 1, Len(r.overflow))
<1>1. A \in 0..(r.size - 1)
  BY Measures
<1>2. /\ r.size \in Nat \ {0} /\ r.recv \in 0..(r.size - 1)
      /\ r.slot \in [0..(r.size - 1) -> V] /\ r.overflow \in Seq(V)
      /\ r.idx \in 0..Len(r.overflow) /\ Len(r.overflow) \in Nat
  BY DEF WellFormed
<1> HIDE DEF A
<1>3. ASSUME NEW k \in 1..A
      PROVE  SlotOf(r, k) \in 0..(r.size - 1) /\ (r.recv + k - 1) % r.size = SlotOf(r, k)
  <2> DEFINE a == r.recv
             n == r.size
             b == k - 1
  <2>1. n \in Nat \ {0} /\ a \in 0..(n - 1) /\ b \in 0..n
    BY <1>1, <1>2
  <2>2. a + b = r.recv + k - 1 /\ a + b \in Int
    BY <1>1, <2>1
  <2> HIDE DEF a, b, n
  <2>3. (a + b) % n = (IF a + b < n THEN a + b ELSE a + b - n) /\ (a + b) % n \in 0..(n - 1)
    BY <2>1, Advanced
  <2>4. (a + b) % n = SlotOf(r, k)
    <3>1. SlotOf(r, k) = IF a + b < n THEN a + b ELSE a + b - n
      BY <1>1, <1>2, <2>1, <2>2 DEF SlotOf, n, a, b
    <3> QED BY <2>3, <3>1
  <2> QED BY <2>2, <2>3, <2>4 DEF n
<1>4. s \in Seq(V) /\ Len(s) = A /\ \A k \in 1..A : s[k] = r.slot[SlotOf(r, k)]
  <2>1. s \in [1..A -> V] /\ \A k \in 1..A : s[k] = r.slot[SlotOf(r, k)]
    BY <1>2, <1>3
  <2> HIDE DEF s
  <2> QED BY <1>1, <2>1
<1>5. t \in Seq(V) /\ Len(t) = Len(r.overflow) - r.idx
      /\ \A k \in 1..Len(t) : t[k] = r.overflow[r.idx + k]
  <2>1. \A i \in (r.idx + 1)..Len(r.overflow) : r.overflow[i] \in V
    BY <1>2
  <2>2. r.idx + 1 \in Int /\ Len(r.overflow) \in Int
    BY <1>2
  <2>3. /\ t \in Seq(V)
        /\ Len(t) = IF r.idx + 1 <= Len(r.overflow) THEN Len(r.overflow) - (r.idx + 1) + 1 ELSE 0
        /\ \A k \in 1..(Len(r.overflow) - (r.idx + 1) + 1) : t[k] = r.overflow[r.idx + 1 + k - 1]
    BY <2>1, <2>2, SubSeqProperties
  <2>4. Len(t) = Len(r.overflow) - r.idx
    BY <1>2, <2>3
  <2> HIDE DEF t
  <2>5. ASSUME NEW k \in 1..Len(t) PROVE t[k] = r.overflow[r.idx + k]
    <3>1. k \in 1..(Len(r.overflow) - (r.idx + 1) + 1) /\ r.idx + 1 + k - 1 = r.idx + k
      BY <1>2, <2>4
    <3> QED BY <2>3, <3>1
  <2> QED BY <2>3, <2>4, <2>5
<1>6. Inside(r) = s \o t
  BY DEF Inside, A
<1> HIDE DEF s, t
<1>7. /\ Inside(r) \in Seq(V) /\ Len(Inside(r)) = Len(s) + Len(t)
      /\ \A k \in 1..(Len(s) + Len(t)) : Inside(r)[k] = IF k <= Len(s) THEN s[k] ELSE t[k - Len(s)]
  <2>1. s \in Seq(V) /\ t \in Seq(V)
    BY <1>4, <1>5
  <2>2. /\ s \o t \in Seq(V) /\ Len(s \o t) = Len(s) + Len(t)
        /\ \A k \in 1..(Len(s) + Len(t)) : (s \o t)[k] = IF k <= Len(s) THEN s[k] ELSE t[k - Len(s)]
    BY <2>1, ConcatProperties
  <2> QED BY <1>6, <2>2
<1>8. \A k \in 1..A : Inside(r)[k] = r.slot[SlotOf(r, k)]
  BY <1>1, <1>4, <1>5, <1>7
<1>9. \A k \in (A + 1)..Len(Inside(r)) : Inside(r)[k] = r.overflow[r.idx + k - A]
  <2> SUFFICES ASSUME NEW k \in (A + 1)..Len(Inside(r)) PROVE Inside(r)[k] = r.overflow[r.idx + k - A]
    OBVIOUS
  <2>1. k - A \in 1..Len(t) /\ k \in 1..(Len(s) + Len(t)) /\ ~(k <= Len(s))
    BY <1>1, <1>4, <1>5, <1>7
  <2>2. t[k - A] = r.overflow[r.idx + (k - A)]
    BY <1>5, <2>1
  <2>3. r.idx + (k - A) = r.idx + k - A
    BY <1>1, <1>2
  <2> QED BY <1>4, <1>7, <2>1, <2>2, <2>3
<1>10. Len(Inside(r)) = A + Len(r.overflow) - r.idx
  BY <1>1, <1>2, <1>4, <1>5, <1>7
<1> QED BY <1>3, <1>7, <1>8, <1>9, <1>10 DEF A

\* Where the slot of the k-th task is, seen from the sender's offset.
LEMMA AheadOf ==
    ASSUME NEW V, NEW r, WellFormed(r, V), r.size > 0, NEW k \in 1..(r.size - 1)
    PROVE  /\ SlotOf(r, k) \in 0..(r.size - 1)
           /\ Ahead(r, SlotOf(r, k)) = IF k <= Available(r) THEN k - 1 - Available(r) + r.size
                                       ELSE k - 1 - Available(r)
<1> DEFINE A == Available(r)
           s == r.size
           send == r.send
           recv == r.recv
<1>1. /\ s \in Nat \ {0} /\ send \in 0..(s - 1) /\ recv \in 0..(s - 1) /\ k \in 1..(s - 1)
      /\ A = (IF send >= recv THEN send - recv ELSE s + send - recv)
  BY DEF WellFormed, Available
<1> DEFINE p == IF recv + k - 1 < s THEN recv + k - 1 ELSE recv + k - 1 - s
           h == IF p >= send THEN p - send ELSE p - send + s
<1>2. SlotOf(r, k) = p /\ Ahead(r, p) = h
  BY DEF SlotOf, Ahead
<1> HIDE DEF A, s, send, recv
<1>3. p \in 0..(s - 1) /\ h = IF k <= A THEN k - 1 - A + s ELSE k - 1 - A
  <2>1. CASE send >= recv
    <3>1. A = send - recv
      BY <1>1, <2>1
    <3>2. CASE recv + k - 1 < s
      BY <1>1, <2>1, <3>1, <3>2
    <3>3. CASE recv + k - 1 >= s
      BY <1>1, <2>1, <3>1, <3>3
    <3> QED BY <1>1, <3>2, <3>3
  <2>2. CASE send < recv
    <3>1. A = s + send - recv
      BY <1>1, <2>2
    <3>2. CASE recv + k - 1 < s
      BY <1>1, <2>2, <3>1, <3>2
    <3>3. CASE recv + k - 1 >= s
      BY <1>1, <2>2, <3>1, <3>3
    <3> QED BY <1>1, <3>2, <3>3
  <2> QED BY <1>1, <2>1, <2>2
<1> HIDE DEF p, h
<1>4. Ahead(r, SlotOf(r, k)) = h
  BY <1>2
<1> QED BY <1>2, <1>3, <1>4 DEF A, s

(* push_and_get_free_nonbackpressure_push_size: moving the overflow up into *)
(* the slots changes nothing of what is in the ring, nor of its order.     *)
THEOREM DrainKeeps ==
    ASSUME NEW V, NEW r, WellFormed(r, V), r.size > 0
    PROVE  Inside(Drained(r)) = Inside(r)
<1> DEFINE d == Drained(r)
           n == Moved(r)
           A == Available(r)
<1>1. /\ d.size = r.size /\ d.recv = r.recv
      /\ d.slot = [i \in 0..(r.size - 1) |->
                     IF Ahead(r, i) < n THEN r.overflow[r.idx + 1 + Ahead(r, i)] ELSE r.slot[i]]
      /\ d.overflow = IF r.idx + n = Len(r.overflow) THEN <<>> ELSE r.overflow
      /\ d.idx = IF r.idx + n = Len(r.overflow) THEN 0 ELSE r.idx + n
  BY DrainedFields
<1>2. /\ r.size \in Nat \ {0} /\ r.overflow \in Seq(V)
      /\ r.idx \in 0..Len(r.overflow) /\ Len(r.overflow) \in Nat
  BY DEF WellFormed
<1>3. /\ A \in 0..(r.size - 1) /\ n \in Nat
      /\ n <= r.size - 1 - A /\ n <= Len(r.overflow) - r.idx
  BY Measures
<1>4. WellFormed(d, V) /\ Available(d) = A + n
  BY DrainedFormed
<1>5. /\ Inside(r) \in Seq(V) /\ Len(Inside(r)) = A + Len(r.overflow) - r.idx
      /\ \A k \in 1..A : Inside(r)[k] = r.slot[SlotOf(r, k)]
      /\ \A k \in (A + 1)..Len(Inside(r)) : Inside(r)[k] = r.overflow[r.idx + k - A]
  BY InsideAt
<1> HIDE DEF d
<1>6. /\ Inside(d) \in Seq(V) /\ Len(Inside(d)) = A + n + Len(d.overflow) - d.idx
      /\ \A k \in 1..(A + n) : Inside(d)[k] = d.slot[SlotOf(d, k)]
      /\ \A k \in (A + n + 1)..Len(Inside(d)) : Inside(d)[k] = d.overflow[d.idx + k - (A + n)]
  <2>1. d.size > 0
    BY <1>1
  <2> QED BY <1>4, <2>1, InsideAt
<1> HIDE DEF n, A
<1>7. Len(Inside(d)) = Len(Inside(r))
  <2>1. CASE r.idx + n = Len(r.overflow)
    <3>1. d.overflow = <<>> /\ d.idx = 0 /\ Len(<<>>) = 0
      BY <1>1, <2>1
    <3> QED BY <1>2, <1>3, <1>5, <1>6, <2>1, <3>1
  <2>2. CASE r.idx + n # Len(r.overflow)
    <3>1. d.overflow = r.overflow /\ d.idx = r.idx + n
      BY <1>1, <2>2
    <3> QED BY <1>2, <1>3, <1>5, <1>6, <3>1
  <2> QED BY <2>1, <2>2
<1>8. ASSUME NEW k \in 1..(A + n) PROVE Inside(d)[k] = Inside(r)[k]
  <2> DEFINE p == SlotOf(r, k)
  <2>1. k \in 1..(r.size - 1)
    BY <1>2, <1>3
  <2>2. /\ p \in 0..(r.size - 1)
        /\ Ahead(r, p) = IF k <= A THEN k - 1 - A + r.size ELSE k - 1 - A
    BY <2>1, AheadOf DEF A
  <2>3. Inside(d)[k] = d.slot[p]
    BY <1>1, <1>6 DEF SlotOf
  <2> HIDE DEF p
  <2>4. d.slot[p] = IF Ahead(r, p) < n THEN r.overflow[r.idx + 1 + Ahead(r, p)] ELSE r.slot[p]
    BY <1>1, <2>2
  <2>5. CASE k <= A
    <3>1. ~(Ahead(r, p) < n)
      BY <1>2, <1>3, <2>2, <2>5
    <3>2. Inside(r)[k] = r.slot[p]
      BY <1>3, <1>5, <2>5 DEF p
    <3> QED BY <2>3, <2>4, <3>1, <3>2
  <2>6. CASE k > A
    <3>1. Ahead(r, p) = k - 1 - A
      BY <1>3, <2>2, <2>6
    <3>2. Ahead(r, p) < n /\ r.idx + 1 + Ahead(r, p) = r.idx + k - A
      BY <1>2, <1>3, <2>6, <3>1
    <3>3. k \in (A + 1)..Len(Inside(r))
      BY <1>2, <1>3, <1>5, <2>6
    <3> QED BY <1>5, <2>3, <2>4, <3>2, <3>3
  <2> QED BY <1>3, <2>5, <2>6
<1>9. ASSUME NEW k \in (A + n + 1)..Len(Inside(d)) PROVE Inside(d)[k] = Inside(r)[k]
  <2>1. r.idx + n # Len(r.overflow)
    BY <1>2, <1>3, <1>5, <1>7
  <2>2. d.overflow = r.overflow /\ d.idx = r.idx + n
    BY <1>1, <2>1
  <2>3. d.idx + k - (A + n) = r.idx + k - A
    <3>1. r.idx \in Int /\ n \in Int /\ A \in Int /\ k \in Int
      BY <1>2, <1>3
    <3>2. (r.idx + n) + k - (A + n) = r.idx + k - A
      BY <3>1
    <3> QED BY <2>2, <3>2
  <2>4. k \in (A + 1)..Len(Inside(r))
    BY <1>2, <1>3, <1>5, <1>7
  <2> QED BY <1>5, <1>6, <2>2, <2>3, <2>4
<1>10. \A k \in 1..Len(Inside(d)) : Inside(d)[k] = Inside(r)[k]
  BY <1>3, <1>8, <1>9
<1> QED BY <1>5, <1>6, <1>7, <1>10, SeqEqual DEF d

-----------------------------------------------------------------------------
(* Pushing and pulling                                                     *)

LEMMA StoreAppends ==
    ASSUME NEW V, NEW r, WellFormed(r, V), r.size > 0, FreePush(r) > 0, r.overflow = <<>>, NEW t \in V
    PROVE  /\ WellFormed(Store(r, t), V) /\ Store(r, t).size = r.size
           /\ Inside(Store(r, t)) = Append(Inside(r), t)
<1> DEFINE d == Store(r, t)
           A == Available(r)
<1>1. /\ r.size \in Nat \ {0} /\ r.send \in 0..(r.size - 1) /\ r.recv \in 0..(r.size - 1)
      /\ r.slot \in [0..(r.size - 1) -> V] /\ r.overflow = <<>> /\ r.idx = 0
      /\ Len(r.overflow) = 0
  BY DEF WellFormed
<1>2. A \in 0..(r.size - 1) /\ A + 1 \in 1..(r.size - 1)
  BY <1>1, Measures
<1>3. (r.send + 1) % r.size = (IF r.send + 1 < r.size THEN r.send + 1 ELSE r.send + 1 - r.size)
      /\ (r.send + 1) % r.size \in 0..(r.size - 1)
  <2> DEFINE a == r.send
             s == r.size
  <2> HIDE DEF a, s
  <2>1. s \in Nat \ {0} /\ a \in 0..(s - 1) /\ 1 \in 0..s
    BY <1>1 DEF a, s
  <2>2. (a + 1) % s = (IF a + 1 < s THEN a + 1 ELSE a + 1 - s) /\ (a + 1) % s \in 0..(s - 1)
    BY <2>1, Advanced
  <2> QED BY <2>2 DEF a, s
<1>4. /\ d = [size |-> d.size, slot |-> d.slot, send |-> d.send, recv |-> d.recv,
              overflow |-> d.overflow, idx |-> d.idx]
      /\ d.size = r.size /\ d.recv = r.recv /\ d.overflow = r.overflow /\ d.idx = r.idx
      /\ d.slot = [r.slot EXCEPT ![r.send] = t] /\ d.send = (r.send + 1) % r.size
  <2> DEFINE slot == [r.slot EXCEPT ![r.send] = t]
             send == (r.send + 1) % r.size
  <2>1. d = [r EXCEPT !.slot = slot, !.send = send]
    BY DEF Store
  <2> HIDE DEF d, slot, send
  <2>2. /\ d = [size |-> d.size, slot |-> d.slot, send |-> d.send, recv |-> d.recv,
                overflow |-> d.overflow, idx |-> d.idx]
        /\ d.size = r.size /\ d.recv = r.recv /\ d.overflow = r.overflow /\ d.idx = r.idx
        /\ d.slot = slot /\ d.send = send
    BY <2>1 DEF WellFormed
  <2> QED BY <2>2 DEF slot, send
<1> HIDE DEF d
<1>5. WellFormed(d, V)
  BY <1>1, <1>3, <1>4 DEF WellFormed
<1>6. Available(d) = A + 1
  <2> DEFINE was == Available(r)
             to == d.send
             size == r.size
             send == r.send
             recv == r.recv
  <2>1. /\ size \in Nat /\ send \in 0..(size - 1) /\ recv \in 0..(size - 1) /\ 1 \in Nat
        /\ was = (IF send >= recv THEN send - recv ELSE size + send - recv)
        /\ 1 <= size - 1 - was
        /\ to = (IF send + 1 < size THEN send + 1 ELSE send + 1 - size)
    <3>1. was = (IF send >= recv THEN send - recv ELSE size + send - recv)
      BY DEF Available
    <3>2. to = (IF send + 1 < size THEN send + 1 ELSE send + 1 - size)
      BY <1>3, <1>4
    <3>3. 1 <= size - 1 - was
      BY <1>1, <1>2
    <3> QED BY <1>1, <3>1, <3>2, <3>3
  <2>2. Available(d) = (IF to >= recv THEN to - recv ELSE size + to - recv)
    BY <1>4 DEF Available
  <2> HIDE DEF was, to, size, send, recv
  <2>3. (IF to >= recv THEN to - recv ELSE size + to - recv) = was + 1
    BY <2>1, Grows
  <2>4. Available(d) = was + 1
    BY <2>2, <2>3
  <2> QED BY <2>4 DEF was
<1>7. /\ Inside(r) \in Seq(V) /\ Len(Inside(r)) = A
      /\ \A k \in 1..A : Inside(r)[k] = r.slot[SlotOf(r, k)]
  BY <1>1, <1>2, InsideAt
<1>8. /\ Inside(d) \in Seq(V) /\ Len(Inside(d)) = A + 1
      /\ \A k \in 1..(A + 1) : Inside(d)[k] = d.slot[SlotOf(d, k)]
  <2>1. d.size > 0 /\ Len(d.overflow) = 0 /\ d.idx = 0
    BY <1>1, <1>4
  <2>2. /\ Inside(d) \in Seq(V) /\ Len(Inside(d)) = Available(d) + Len(d.overflow) - d.idx
        /\ \A k \in 1..Available(d) : Inside(d)[k] = d.slot[SlotOf(d, k)]
    BY <1>5, <2>1, InsideAt
  <2> QED BY <1>2, <1>6, <2>1, <2>2
<1> HIDE DEF A
<1>9. ASSUME NEW k \in 1..(A + 1) PROVE Inside(d)[k] = Append(Inside(r), t)[k]
  <2> DEFINE p == SlotOf(r, k)
  <2>1. k \in 1..(r.size - 1)
    BY <1>1, <1>2
  <2>2. /\ p \in 0..(r.size - 1)
        /\ Ahead(r, p) = IF k <= A THEN k - 1 - A + r.size ELSE k - 1 - A
    BY <1>1, <2>1, AheadOf DEF A
  <2>3. Inside(d)[k] = d.slot[p]
    BY <1>4, <1>8 DEF SlotOf
  <2> HIDE DEF p
  <2>4. Ahead(r, p) = 0 <=> p = r.send
    BY <1>1, <2>2 DEF Ahead
  <2>5. CASE k <= A
    <3>1. Ahead(r, p) # 0
      BY <1>1, <1>2, <2>2, <2>5
    <3>2. d.slot[p] = r.slot[p]
      BY <1>1, <1>4, <2>2, <2>4, <3>1
    <3>3. Inside(r)[k] = r.slot[p]
      BY <1>2, <1>7, <2>5 DEF p
    <3> QED BY <1>2, <1>7, <2>3, <2>5, <3>2, <3>3
  <2>6. CASE k = A + 1
    <3>1. Ahead(r, p) = 0
      BY <1>2, <2>2, <2>6
    <3>2. d.slot[p] = t
      BY <1>1, <1>4, <2>2, <2>4, <3>1
    <3> QED BY <1>2, <1>7, <2>3, <2>6, <3>2
  <2>7. k <= A \/ k = A + 1
    BY <1>1, <1>2
  <2> QED BY <2>5, <2>6, <2>7
<1>10. Append(Inside(r), t) \in Seq(V) /\ Len(Append(Inside(r), t)) = A + 1
  BY <1>7
<1>11. Inside(d) = Append(Inside(r), t)
  BY <1>8, <1>9, <1>10, SeqEqual
<1> QED BY <1>4, <1>5, <1>11 DEF d

\* A drained ring with room has no overflow.
LEMMA DrainedRoom ==
    ASSUME NEW V, NEW r, WellFormed(r, V), r.size > 0, FreePush(Drained(r)) > 0
    PROVE  Drained(r).overflow = <<>>
<1>1. /\ Available(r) \in 0..(r.size - 1) /\ FreePush(r) = r.size - 1 - Available(r)
      /\ Moved(r) \in Nat
  BY Measures
<1>2. Available(Drained(r)) = Available(r) + Moved(r) /\ Drained(r).size = r.size
  BY DrainedFormed
<1>3. r.size \in Nat /\ Len(r.overflow) \in Nat /\ r.idx \in Nat
  BY DEF WellFormed
<1>4. FreePush(Drained(r)) = r.size - 1 - (Available(r) + Moved(r))
  BY <1>2 DEF FreePush
<1>5. Moved(r) < FreePush(r)
  BY <1>1, <1>3, <1>4
<1>6. r.idx + Moved(r) = Len(r.overflow)
  BY <1>1, <1>3, <1>5 DEF Moved
<1>7. Drained(r).overflow = IF r.idx + Moved(r) = Len(r.overflow) THEN <<>> ELSE r.overflow
  BY DrainedFields
<1> QED BY <1>6, <1>7

(* push: the task goes behind all that is in the ring, whether it gets a   *)
(* slot or a place in the overflow list.                                   *)
THEOREM PushAppends ==
    ASSUME NEW V, NEW r, WellFormed(r, V), r.size > 0, NEW t \in V
    PROVE  /\ WellFormed(Pushed(r, t), V) /\ Pushed(r, t).size = r.size
           /\ Inside(Pushed(r, t)) = Append(Inside(r), t)
<1> DEFINE d == Drained(r)
<1>1. WellFormed(d, V) /\ d.size = r.size /\ Inside(d) = Inside(r)
  BY DrainedFormed, DrainKeeps
<1>2. CASE FreePush(d) > 0
  <2>1. d.overflow = <<>>
    BY <1>2, DrainedRoom
  <2>2. Pushed(r, t) = Store(d, t)
    BY <1>2 DEF Pushed
  <2> HIDE DEF d
  <2>3. d.size > 0
    BY <1>1
  <2> QED BY <1>1, <1>2, <2>1, <2>2, <2>3, StoreAppends
<1>3. CASE ~(FreePush(d) > 0)
  <2> DEFINE e == [d EXCEPT !.overflow = Append(@, t)]
  <2>1. Pushed(r, t) = e
    BY <1>3 DEF Pushed
  <2> HIDE DEF d
  <2>2. d.overflow \in Seq(V) /\ d.idx \in 0..Len(d.overflow) /\ Len(d.overflow) \in Nat
    BY <1>1 DEF WellFormed
  <2>3. /\ Append(d.overflow, t) \in Seq(V) /\ Len(Append(d.overflow, t)) = Len(d.overflow) + 1
        /\ \A k \in 1..Len(d.overflow) : Append(d.overflow, t)[k] = d.overflow[k]
        /\ Append(d.overflow, t)[Len(d.overflow) + 1] = t
    BY <2>2
  <2>4. /\ e = [size |-> e.size, slot |-> e.slot, send |-> e.send, recv |-> e.recv,
                overflow |-> e.overflow, idx |-> e.idx]
        /\ e.size = d.size /\ e.slot = d.slot /\ e.send = d.send /\ e.recv = d.recv
        /\ e.overflow = Append(d.overflow, t) /\ e.idx = d.idx
    <3> DEFINE o == Append(d.overflow, t)
    <3>1. e = [d EXCEPT !.overflow = o]
      OBVIOUS
    <3> HIDE DEF e, o
    <3>2. /\ e = [size |-> e.size, slot |-> e.slot, send |-> e.send, recv |-> e.recv,
                  overflow |-> e.overflow, idx |-> e.idx]
          /\ e.size = d.size /\ e.slot = d.slot /\ e.send = d.send /\ e.recv = d.recv
          /\ e.overflow = o /\ e.idx = d.idx
      BY <1>1, <3>1 DEF WellFormed
    <3> QED BY <3>2 DEF o
  <2> HIDE DEF e
  <2>5. WellFormed(e, V)
    BY <1>1, <2>2, <2>3, <2>4 DEF WellFormed
  <2>6. Available(e) = Available(d) /\ \A k : SlotOf(e, k) = SlotOf(d, k)
    BY <2>4 DEF Available, SlotOf
  <2> DEFINE A == Available(d)
             n == Len(d.overflow)
  <2>7. d.size > 0 /\ e.size > 0
    BY <1>1, <2>4
  <2>8. A \in Nat
    BY <1>1, <2>7, Measures
  <2>9. /\ Inside(d) \in Seq(V) /\ Len(Inside(d)) = A + n - d.idx
        /\ \A k \in 1..A : Inside(d)[k] = d.slot[SlotOf(d, k)]
        /\ \A k \in (A + 1)..Len(Inside(d)) : Inside(d)[k] = d.overflow[d.idx + k - A]
    BY <1>1, <2>7, InsideAt
  <2>10. /\ Inside(e) \in Seq(V) /\ Len(Inside(e)) = A + (n + 1) - d.idx
         /\ \A k \in 1..A : Inside(e)[k] = d.slot[SlotOf(d, k)]
         /\ \A k \in (A + 1)..Len(Inside(e)) :
               Inside(e)[k] = Append(d.overflow, t)[d.idx + k - A]
    <3>1. /\ Inside(e) \in Seq(V) /\ Len(Inside(e)) = Available(e) + Len(e.overflow) - e.idx
          /\ \A k \in 1..Available(e) : Inside(e)[k] = e.slot[SlotOf(e, k)]
          /\ \A k \in (Available(e) + 1)..Len(Inside(e)) :
                Inside(e)[k] = e.overflow[e.idx + k - Available(e)]
      BY <2>5, <2>7, InsideAt
    <3>2. Available(e) = A
      BY <2>6
    <3>3. Len(e.overflow) = n + 1
      BY <2>3, <2>4
    <3> HIDE DEF A, n
    <3>4. Inside(e) \in Seq(V) /\ Len(Inside(e)) = A + (n + 1) - d.idx
      BY <2>4, <3>1, <3>2, <3>3
    <3>5. \A k \in 1..A : Inside(e)[k] = d.slot[SlotOf(d, k)]
      BY <2>4, <2>6, <3>1, <3>2
    <3>6. \A k \in (A + 1)..Len(Inside(e)) :
             Inside(e)[k] = Append(d.overflow, t)[d.idx + k - A]
      BY <2>4, <3>1, <3>2
    <3> QED BY <3>4, <3>5, <3>6
  <2> HIDE DEF A, n
  <2>11. Append(Inside(d), t) \in Seq(V) /\ Len(Append(Inside(d), t)) = Len(Inside(e))
    BY <2>2, <2>8, <2>9, <2>10 DEF n
  <2>12. ASSUME NEW k \in 1..Len(Inside(e)) PROVE Inside(e)[k] = Append(Inside(d), t)[k]
    <3>1. CASE k <= A
      <4>1. k \in 1..Len(Inside(d)) /\ k \in 1..A
        BY <2>2, <2>8, <2>9, <3>1 DEF n
      <4>2. Append(Inside(d), t)[k] = Inside(d)[k]
        BY <2>9, <4>1
      <4> QED BY <2>9, <2>10, <4>1, <4>2
    <3>2. CASE k > A /\ k <= Len(Inside(d))
      <4>1. k \in (A + 1)..Len(Inside(d)) /\ k \in (A + 1)..Len(Inside(e)) /\ k \in 1..Len(Inside(d))
        BY <2>8, <3>2
      <4>2. d.idx + k - A \in 1..n
        BY <2>2, <2>8, <2>9, <4>1 DEF n
      <4>3. Append(Inside(d), t)[k] = Inside(d)[k]
        BY <2>9, <4>1
      <4> QED BY <2>3, <2>9, <2>10, <4>1, <4>2, <4>3 DEF n
    <3>3. CASE k = Len(Inside(d)) + 1
      <4>1. k \in (A + 1)..Len(Inside(e)) /\ d.idx + k - A = n + 1
        BY <2>2, <2>8, <2>9, <2>10, <3>3 DEF n
      <4>2. Append(Inside(d), t)[k] = t
        BY <2>9, <3>3
      <4> QED BY <2>3, <2>10, <4>1, <4>2 DEF n
    <3>4. k <= Len(Inside(d)) + 1
      BY <2>2, <2>8, <2>9, <2>10 DEF n
    <3> QED BY <2>2, <2>8, <2>9, <3>1, <3>2, <3>3, <3>4 DEF n
  <2>13. Inside(e) = Append(Inside(d), t)
    BY <2>10, <2>11, <2>12, SeqEqual
  <2> QED BY <1>1, <2>1, <2>4, <2>5, <2>13
<1> QED BY <1>2, <1>3

LEMMA PulledFormed ==
    ASSUME NEW V, NEW r, WellFormed(r, V), r.size > 0
    PROVE  /\ WellFormed(Pulled(r), V) /\ Pulled(r).size = r.size
           /\ Pulled(r).send = r.send /\ Pulled(r).slot = r.slot
           /\ Pulled(r).overflow = r.overflow /\ Pulled(r).idx = r.idx
           /\ Pulled(r).recv = IF r.recv + 1 < r.size THEN r.recv + 1 ELSE r.recv + 1 - r.size
<1> DEFINE d == Pulled(r)
<1>1. /\ r.size \in Nat \ {0} /\ r.send \in 0..(r.size - 1) /\ r.recv \in 0..(r.size - 1)
  BY DEF WellFormed
<1>2. (r.recv + 1) % r.size = (IF r.recv + 1 < r.size THEN r.recv + 1 ELSE r.recv + 1 - r.size)
      /\ (r.recv + 1) % r.size \in 0..(r.size - 1)
  <2> DEFINE a == r.recv
             s == r.size
  <2> HIDE DEF a, s
  <2>1. s \in Nat \ {0} /\ a \in 0..(s - 1) /\ 1 \in 0..s
    BY <1>1 DEF a, s
  <2>2. (a + 1) % s = (IF a + 1 < s THEN a + 1 ELSE a + 1 - s) /\ (a + 1) % s \in 0..(s - 1)
    BY <2>1, Advanced
  <2> QED BY <2>2 DEF a, s
<1>3. /\ d = [size |-> d.size, slot |-> d.slot, send |-> d.send, recv |-> d.recv,
              overflow |-> d.overflow, idx |-> d.idx]
      /\ d.size = r.size /\ d.send = r.send /\ d.overflow = r.overflow /\ d.idx = r.idx
      /\ d.slot = r.slot /\ d.recv = (r.recv + 1) % r.size
  BY DEF Pulled, WellFormed
<1> HIDE DEF d
<1>4. WellFormed(d, V)
  BY <1>1, <1>2, <1>3 DEF WellFormed
<1> QED BY <1>2, <1>3, <1>4 DEF d

(* pull: what comes out is the first that went in, the rest stays as it    *)
(* is; only the sender moves the overflow, so a ring whose slots are empty *)
(* has nothing to pull.                                                    *)
THEOREM PullTakes ==
    ASSUME NEW V, NEW r, WellFormed(r, V), CanPull(r)
    PROVE  /\ WellFormed(Pulled(r), V) /\ Pulled(r).size = r.size /\ First(r) \in V
           /\ Inside(r) # <<>> /\ First(r) = Head(Inside(r)) /\ Inside(Pulled(r)) = Tail(Inside(r))
<1> DEFINE d == Pulled(r)
           A == Available(r)
<1>1. /\ r.size \in Nat \ {0} /\ r.send \in 0..(r.size - 1) /\ r.recv \in 0..(r.size - 1)
      /\ r.slot \in [0..(r.size - 1) -> V] /\ r.send # r.recv
      /\ r.overflow \in Seq(V) /\ r.idx \in 0..Len(r.overflow) /\ Len(r.overflow) \in Nat
  BY DEF WellFormed, CanPull
<1>2. A \in 1..(r.size - 1)
  BY <1>1 DEF Available
<1>3. r.size > 0
  BY <1>1
<1>4. /\ d.size = r.size /\ d.send = r.send /\ d.overflow = r.overflow /\ d.idx = r.idx
      /\ d.slot = r.slot /\ d.recv = IF r.recv + 1 < r.size THEN r.recv + 1 ELSE r.recv + 1 - r.size
      /\ WellFormed(d, V)
  BY <1>3, PulledFormed
<1> HIDE DEF d
<1>5. WellFormed(d, V) /\ d.size > 0
  BY <1>3, <1>4
<1>6. Available(d) = A - 1
  <2> DEFINE was == Available(r)
             to == d.recv
             size == r.size
             send == r.send
             recv == r.recv
  <2>1. /\ size \in Nat /\ send \in 0..(size - 1) /\ recv \in 0..(size - 1) /\ send # recv
        /\ was = (IF send >= recv THEN send - recv ELSE size + send - recv)
        /\ to = (IF recv + 1 < size THEN recv + 1 ELSE recv + 1 - size)
    BY <1>1, <1>4 DEF Available
  <2>2. Available(d) = (IF send >= to THEN send - to ELSE size + send - to)
    BY <1>4 DEF Available
  <2> HIDE DEF was, to, size, send, recv
  <2>3. (IF send >= to THEN send - to ELSE size + send - to) = was - 1
    BY <2>1
  <2>4. Available(d) = was - 1
    BY <2>2, <2>3
  <2> QED BY <2>4 DEF was
<1>7. ASSUME NEW k \in 1..(A - 1) PROVE SlotOf(d, k) = SlotOf(r, k + 1)
  <2> DEFINE to == d.recv
             size == r.size
             recv == r.recv
  <2>1. /\ size \in Nat /\ recv \in 0..(size - 1) /\ k \in 1..(size - 1)
        /\ to = (IF recv + 1 < size THEN recv + 1 ELSE recv + 1 - size)
    BY <1>1, <1>2, <1>4
  <2>2. /\ SlotOf(d, k) = IF to + k - 1 < size THEN to + k - 1 ELSE to + k - 1 - size
        /\ SlotOf(r, k + 1) = IF recv + (k + 1) - 1 < size THEN recv + (k + 1) - 1
                              ELSE recv + (k + 1) - 1 - size
    BY <1>4 DEF SlotOf
  <2> HIDE DEF to, size, recv
  <2>3. (IF to + k - 1 < size THEN to + k - 1 ELSE to + k - 1 - size)
           = (IF recv + (k + 1) - 1 < size THEN recv + (k + 1) - 1 ELSE recv + (k + 1) - 1 - size)
    BY <2>1
  <2> QED BY <2>2, <2>3
<1>8. SlotOf(r, 1) = r.recv
  BY <1>1 DEF SlotOf
<1>9. /\ Inside(r) \in Seq(V) /\ Len(Inside(r)) = A + Len(r.overflow) - r.idx
      /\ \A k \in 1..A : Inside(r)[k] = r.slot[SlotOf(r, k)]
      /\ \A k \in (A + 1)..Len(Inside(r)) : Inside(r)[k] = r.overflow[r.idx + k - A]
  BY <1>1, InsideAt
<1>10. /\ Inside(d) \in Seq(V) /\ Len(Inside(d)) = A - 1 + Len(r.overflow) - r.idx
       /\ \A k \in 1..(A - 1) : Inside(d)[k] = r.slot[SlotOf(d, k)]
       /\ \A k \in (A - 1 + 1)..Len(Inside(d)) : Inside(d)[k] = r.overflow[r.idx + k - (A - 1)]
  BY <1>4, <1>5, <1>6, InsideAt
<1> HIDE DEF A
<1>11. Inside(r) # <<>> /\ Inside(r)[1] = r.slot[r.recv]
  <2>1. 1 \in 1..A /\ Len(Inside(r)) > 0
    BY <1>1, <1>2, <1>9
  <2> QED BY <1>8, <1>9, <2>1
<1>12. First(r) = Head(Inside(r)) /\ First(r) \in V
  BY <1>1, <1>9, <1>11 DEF First
<1>13. /\ Tail(Inside(r)) \in Seq(V) /\ Len(Tail(Inside(r))) = Len(Inside(d))
       /\ \A k \in 1..Len(Inside(d)) : Tail(Inside(r))[k] = Inside(r)[k + 1]
  <2>1. /\ Tail(Inside(r)) \in Seq(V) /\ Len(Tail(Inside(r))) = Len(Inside(r)) - 1
        /\ \A k \in 1..Len(Tail(Inside(r))) : Tail(Inside(r))[k] = Inside(r)[k + 1]
    BY <1>9, <1>11, HeadTailProperties
  <2>2. Len(Tail(Inside(r))) = Len(Inside(d))
    BY <1>1, <1>2, <1>9, <1>10, <2>1
  <2> QED BY <2>1, <2>2
<1>14. ASSUME NEW k \in 1..Len(Inside(d)) PROVE Inside(d)[k] = Inside(r)[k + 1]
  <2>1. CASE k <= A - 1
    <3>1. k \in 1..(A - 1) /\ k + 1 \in 1..A
      BY <1>2, <2>1
    <3> QED BY <1>7, <1>9, <1>10, <3>1
  <2>2. CASE k > A - 1
    <3>1. k \in (A - 1 + 1)..Len(Inside(d))
      BY <1>2, <2>2
    <3>2. k + 1 \in (A + 1)..Len(Inside(r))
      BY <1>1, <1>2, <1>9, <1>10, <3>1
    <3>3. r.idx + k - (A - 1) = r.idx + (k + 1) - A
      BY <1>1, <1>2
    <3> QED BY <1>9, <1>10, <3>1, <3>2, <3>3
  <2> QED BY <1>2, <2>1, <2>2
<1>15. Inside(d) = Tail(Inside(r))
  BY <1>10, <1>13, <1>14, SeqEqual
<1> QED BY <1>4, <1>5, <1>11, <1>12, <1>15 DEF d
=============================================================================
