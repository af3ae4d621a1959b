------------------------- MODULE NifPipeline_proofs -------------------------
(***************************************************************************)
(* Proofs about NifPipeline, for every number of nodes, pads, rings, tasks *)
(* and functions, every flow and every index and size Erlang may pass.     *)
(*                                                                         *)
(* That no pad keeps a deleted ring rests on where rings are: link puts a  *)
(* ring on one output and one input and counts 2, ep_i and ep_o put it on  *)
(* one pad and count 0, and nothing copies a ring to a further pad.  So a  *)
(* ring that goes when its count is used up has no pad left but those that *)
(* are being written over.  That no task is deleted rests on the reference *)
(* the constructor keeps: Erlang's own is never the last.                  *)
(* The domains need what NifRing_proofs shows of a ring, and that a ring   *)
(* goes before its count is below 0.                                       *)
(*                                                                         *)
(* That tasks are kept while no pad lets go of a ring and no drain is torn *)
(* rests on the way a task has before it.  A ring has                      *)
(* one reader, a node writes the tasks of one input to one output, so      *)
(* behind a ring there is one next ring at most; without cycles no ring    *)
(* comes twice.  So a task is in one place of its way, and of two tasks    *)
(* from one node the earlier is never behind the later.                    *)
(***************************************************************************)
EXTENDS NifPipeline, NifRing_proofs, FiniteSetTheorems

Sides == {"i", "o"}
Pad   == RingId \cup {Nothing}

\* The pads are lists, the counts and the phases of a ring are there.
Shape ==
    /\ pads \in [Node -> [i : Seq(Pad), o : Seq(Pad)]]
    /\ ref_count \in [RingId -> Int]
    /\ life \in [RingId -> {"unmade", "made", "deleted"}]

\* The pad k of side s of the node n holds the ring r.
Holds(n, s, k, r) == k \in DOMAIN pads[n][s] /\ pads[n][s][k] = r

\* On each side at most one pad holds a ring.
OneEnd ==
    \A r \in RingId, s \in Sides : \A n, m \in Node : \A k, l \in Nat :
        Holds(n, s, k, r) /\ Holds(m, s, l, r) => n = m /\ k = l

\* A ring with pads on both sides has a count of 2 and lies on a link of the flow.
BothEnds ==
    \A r \in RingId : \A n, m \in Node : \A k, l \in Nat :
        Holds(n, "o", k, r) /\ Holds(m, "i", l, r) => ref_count[r] = 2 /\ <<n, m>> \in Flow

\* A ring on a pad is made and not deleted.
HeldMade ==
    \A r \in RingId, s \in Sides : \A n \in Node : \A k \in Nat : Holds(n, s, k, r) => Made(r)

\* Nothing was destroyed, and what Erlang has a term of has its two references.
Referenced ==
    /\ refs \in [Object -> Int] /\ term \subseteq Object /\ gone = {}
    /\ \A o \in term : refs[o] = MadeRefs

IInv == Shape /\ OneEnd /\ BothEnds /\ HeldMade /\ Referenced

-----------------------------------------------------------------------------

LEMMA InvImpliesAlive == IInv => Alive
<1> SUFFICES ASSUME IInv PROVE Alive
  OBVIOUS
<1>1. ASSUME NEW n \in Node, NEW r \in HeldBy(n) PROVE Made(r)
  <2>0. pads[n] \in [i : Seq(Pad), o : Seq(Pad)]
    BY DEF IInv, Shape
  <2>1. PICK s \in Sides, k \in Nat : Holds(n, s, k, r) /\ r # Nothing
    <3>1. PICK s \in Sides : \E k \in DOMAIN pads[n][s] : pads[n][s][k] = r
      BY <1>1 DEF HeldBy, Sides
    <3>2. pads[n][s] \in Seq(Pad)
      BY <2>0 DEF Sides
    <3>3. r # Nothing
      BY <1>1 DEF HeldBy
    <3>4. PICK k \in DOMAIN pads[n][s] : pads[n][s][k] = r
      BY <3>1
    <3>5. k \in Nat
      BY <3>2, <3>4
    <3> QED BY <3>3, <3>4, <3>5 DEF Holds
  <2>2. r \in RingId
    <3>1. pads[n][s] \in Seq(Pad)
      BY <2>0 DEF Sides
    <3> QED BY <2>1, <3>1 DEF Holds, Pad
  <2> QED BY <2>1, <2>2 DEF IInv, HeldMade
<1>2. gone = {}
  BY DEF IInv, Referenced
<1> QED BY <1>1, <1>2 DEF Alive

\* A step after which every ring is where it was, or on fewer pads.
LEMMA Fewer ==
    ASSUME IInv, Shape', UNCHANGED <<ref_count, life>>,
           \A r \in RingId, s \in Sides : \A n \in Node : \A k \in Nat :
               Holds(n, s, k, r)' => Holds(n, s, k, r)
    PROVE  OneEnd' /\ BothEnds' /\ HeldMade'
<1>1. OneEnd /\ BothEnds /\ HeldMade
  BY DEF IInv
<1>2. OneEnd'
  BY <1>1 DEF OneEnd
<1>3. BothEnds'
  <2> SUFFICES ASSUME NEW r \in RingId, NEW n \in Node, NEW m \in Node, NEW k \in Nat, NEW l \in Nat,
                      Holds(n, "o", k, r)', Holds(m, "i", l, r)'
               PROVE  ref_count'[r] = 2 /\ <<n, m>> \in Flow
    BY DEF BothEnds
  <2>1. Holds(n, "o", k, r) /\ Holds(m, "i", l, r)
    BY DEF Sides
  <2> QED BY <1>1, <2>1 DEF BothEnds
<1>4. HeldMade'
  BY <1>1 DEF HeldMade, Made
<1> QED BY <1>2, <1>3, <1>4

LEMMA UnsignedNat == ASSUME NEW x \in Int PROVE Unsigned(x) \in Nat
  BY PipelineAssumption DEF Unsigned

LEMMA PadAddStep ==
    ASSUME IInv, NEW n \in Node, NEW side \in Sides, PadAdd(n, side)
    PROVE  Shape' /\ OneEnd' /\ BothEnds' /\ HeldMade'
<1>1. Shape
  BY DEF IInv
<1>2. pads[n].i \in Seq(Pad) /\ pads[n].o \in Seq(Pad) /\ Nothing \in Pad
  BY <1>1 DEF Shape, Pad
<1>3. pads' = [pads EXCEPT ![n][side] = Append(@, Nothing)] /\ UNCHANGED <<ref_count, life>>
  BY DEF PadAdd, heap
<1>4. Shape'
  <2>1. Append(pads[n].i, Nothing) \in Seq(Pad) /\ Append(pads[n].o, Nothing) \in Seq(Pad)
    BY <1>2
  <2>2. CASE side = "i"
    BY <1>1, <1>3, <2>1, <2>2 DEF Shape
  <2>3. CASE side = "o"
    BY <1>1, <1>3, <2>1, <2>3 DEF Shape
  <2> QED BY <2>2, <2>3 DEF Sides
<1>5. ASSUME NEW r \in RingId, NEW s \in Sides, NEW m \in Node, NEW k \in Nat, Holds(m, s, k, r)'
      PROVE  Holds(m, s, k, r)
  <2>1. CASE m = n /\ s = side
    <3>1. pads'[m][s] = Append(pads[m][s], Nothing)
      BY <1>1, <1>3, <2>1 DEF Shape, Sides
    <3>2. pads[m][s] \in Seq(Pad)
      BY <1>2, <2>1 DEF Sides
    <3>3. r # Nothing
      BY PipelineAssumption DEF RingId
    <3> QED BY <1>5, <3>1, <3>2, <3>3 DEF Holds
  <2>2. CASE ~(m = n /\ s = side)
    <3>1. pads'[m][s] = pads[m][s]
      BY <1>1, <1>3, <2>2 DEF Shape, Sides
    <3> QED BY <1>5, <3>1 DEF Holds
  <2> QED BY <2>1, <2>2
<1> QED BY <1>3, <1>4, <1>5, Fewer

LEMMA PadResetStep ==
    ASSUME IInv, NEW n \in Node, PadReset(n)
    PROVE  Shape' /\ OneEnd' /\ BothEnds' /\ HeldMade'
<1>1. Shape
  BY DEF IInv
<1>2. pads' = [pads EXCEPT ![n] = [i |-> <<>>, o |-> <<>>]] /\ UNCHANGED <<ref_count, life>>
  BY DEF PadReset, heap
<1>3. Shape'
  BY <1>1, <1>2 DEF Shape
<1>4. ASSUME NEW r \in RingId, NEW s \in Sides, NEW m \in Node, NEW k \in Nat, Holds(m, s, k, r)'
      PROVE  Holds(m, s, k, r)
  <2>1. m # n
    BY <1>1, <1>2, <1>4 DEF Shape, Holds, Sides
  <2>2. pads'[m] = pads[m]
    BY <1>1, <1>2, <2>1 DEF Shape
  <2> QED BY <1>4, <2>2 DEF Holds
<1> QED BY <1>2, <1>3, <1>4, Fewer

LEMMA EpStep ==
    ASSUME IInv, NEW n \in Node, NEW side \in Sides, NEW size \in Sizes, Ep(n, side, size)
    PROVE  Shape' /\ OneEnd' /\ BothEnds' /\ HeldMade'
<1>1. Shape /\ OneEnd /\ BothEnds /\ HeldMade
  BY DEF IInv
<1>2. PICK r \in RingId : /\ life[r] = "unmade" /\ life' = [life EXCEPT ![r] = "made"]
                          /\ pads' = [pads EXCEPT ![n][side] = <<r>>]
  BY DEF Ep, Fresh
<1>3. UNCHANGED ref_count
  BY DEF Ep
<1>4. Shape'
  <2>1. <<r>> \in Seq(Pad)
    BY DEF Pad
  <2>2. CASE side = "i"
    BY <1>1, <1>2, <1>3, <2>1, <2>2 DEF Shape
  <2>3. CASE side = "o"
    BY <1>1, <1>2, <1>3, <2>1, <2>3 DEF Shape
  <2> QED BY <2>2, <2>3 DEF Sides
<1>5. ASSUME NEW q \in RingId, NEW s \in Sides, NEW m \in Node, NEW k \in Nat, Holds(m, s, k, q)'
      PROVE  Holds(m, s, k, q) \/ (q = r /\ m = n /\ s = side /\ k = 1)
  <2>1. CASE m = n /\ s = side
    <3>1. pads'[m][s] = <<r>>
      BY <1>1, <1>2, <2>1 DEF Shape, Sides
    <3> QED BY <1>5, <2>1, <3>1 DEF Holds
  <2>2. CASE ~(m = n /\ s = side)
    <3>1. pads'[m][s] = pads[m][s]
      BY <1>1, <1>2, <2>2 DEF Shape, Sides
    <3> QED BY <1>5, <3>1 DEF Holds
  <2> QED BY <2>1, <2>2
<1>6. ASSUME NEW s \in Sides, NEW m \in Node, NEW k \in Nat PROVE ~Holds(m, s, k, r)
  BY <1>1, <1>2 DEF HeldMade, Made
<1>7. OneEnd'
  <2> SUFFICES ASSUME NEW q \in RingId, NEW s \in Sides, NEW m \in Node, NEW p \in Node,
                      NEW k \in Nat, NEW l \in Nat, Holds(m, s, k, q)', Holds(p, s, l, q)'
               PROVE  m = p /\ k = l
    BY DEF OneEnd
  <2>1. CASE q = r
    BY <1>5, <1>6, <2>1
  <2>2. CASE q # r
    <3>1. Holds(m, s, k, q) /\ Holds(p, s, l, q)
      BY <1>5, <2>2
    <3> QED BY <1>1, <3>1 DEF OneEnd
  <2> QED BY <2>1, <2>2
<1>8. BothEnds'
  <2> SUFFICES ASSUME NEW q \in RingId, NEW m \in Node, NEW p \in Node, NEW k \in Nat, NEW l \in Nat,
                      Holds(m, "o", k, q)', Holds(p, "i", l, q)'
               PROVE  ref_count'[q] = 2 /\ <<m, p>> \in Flow
    BY DEF BothEnds
  <2>1. "i" \in Sides /\ "o" \in Sides /\ "i" # "o"
    BY DEF Sides
  <2>2. q # r
    BY <1>5, <1>6, <2>1
  <2>3. Holds(m, "o", k, q) /\ Holds(p, "i", l, q)
    BY <1>5, <2>1, <2>2
  <2> QED BY <1>1, <1>3, <2>3 DEF BothEnds
<1>9. HeldMade'
  <2> SUFFICES ASSUME NEW q \in RingId, NEW s \in Sides, NEW m \in Node, NEW k \in Nat,
                      Holds(m, s, k, q)'
               PROVE  life'[q] = "made"
    BY DEF HeldMade, Made
  <2>1. CASE q = r
    BY <1>1, <1>2, <2>1 DEF Shape
  <2>2. CASE q # r
    <3>1. Holds(m, s, k, q)
      BY <1>5, <2>2
    <3> QED BY <1>1, <1>2, <2>2, <3>1 DEF HeldMade, Made, Shape
  <2> QED BY <2>1, <2>2
<1> QED BY <1>4, <1>7, <1>8, <1>9

\* A ring that a link takes off a pad is on no other pad of that side.
LEMMA LinkStep ==
    ASSUME IInv, NEW n \in Node, NEW dst \in Node, NEW i \in Int, NEW j \in Int, NEW size \in Sizes,
           Link(n, dst, i, j, size)
    PROVE  Shape' /\ OneEnd' /\ BothEnds' /\ HeldMade'
<1>1. Shape /\ OneEnd /\ BothEnds /\ HeldMade
  BY DEF IInv
<1> DEFINE x == Unsigned(i) + 1
           y == Unsigned(j) + 1
           O == pads[n].o[x]
           I == pads[dst].i[y]
           left == Released(Released(ref_count, O), I)
<1>2. PICK r \in RingId :
         /\ life[r] = "unmade"
         /\ ref_count' = [left EXCEPT ![r] = 2]
         /\ life' = [q \in RingId |-> IF q = r THEN "made"
                                      ELSE IF q \in Freed(left, {O, I}) THEN "deleted" ELSE life[q]]
         /\ pads' = [pads EXCEPT ![n].o[x] = r, ![dst].i[y] = r]
  <2>1. PICK r \in RingId, a \in {x}, b \in {y} :
           /\ Fresh(r)
           /\ LET there == pads[n].o[a]
                  here  == pads[dst].i[b]
                  rest  == Released(Released(ref_count, there), here)
                  freed == Freed(rest, {there, here})
              IN  /\ LetGo({there, here})
                  /\ ref_count' = [rest EXCEPT ![r] = 2]
                  /\ life' = [q \in RingId |-> IF q = r THEN "made"
                                               ELSE IF q \in freed THEN "deleted" ELSE life[q]]
           /\ ring' = [ring EXCEPT ![r] = NewRing(Unsigned(size))]
           /\ pads' = [pads EXCEPT ![n].o[a] = r, ![dst].i[b] = r]
    <3>1. Link(n, dst, i, j, size)
      OBVIOUS
    <3> QED BY <3>1, Zenon DEF Link
  <2>2. a = x /\ b = y
    OBVIOUS
  <2>3. life[r] = "unmade"
    BY <2>1 DEF Fresh
  <2> QED BY Zenon, <2>1, <2>2, <2>3
<1>3. /\ pads[n].o \in Seq(Pad) /\ x \in 1..Len(pads[n].o)
      /\ pads[dst].i \in Seq(Pad) /\ y \in 1..Len(pads[dst].i)
  <2>1. pads[n].o \in Seq(Pad) /\ pads[dst].i \in Seq(Pad)
    BY <1>1 DEF Shape
  <2>2. Unsigned(i) \in Nat /\ Unsigned(j) \in Nat
    BY UnsignedNat
  <2>3. Unsigned(i) < Len(pads[n].o) /\ Unsigned(j) < Len(pads[dst].i)
    BY DEF Link
  <2> QED BY <2>1, <2>2, <2>3
<1>4. x \in Nat /\ y \in Nat
  BY <1>3
<1> HIDE DEF x, y
<1>5. O \in Pad /\ I \in Pad /\ Nothing \notin RingId
  <2>1. O \in Pad /\ I \in Pad
    BY <1>3
  <2>2. Nothing \notin RingId
    BY PipelineAssumption DEF RingId
  <2> QED BY <2>1, <2>2
<1>6. left \in [RingId -> Int]
  BY <1>1, <1>5 DEF Released, Shape, Pad
<1>7. /\ [pads[n].o EXCEPT ![x] = r] \in Seq(Pad)
      /\ [pads[dst].i EXCEPT ![y] = r] \in Seq(Pad)
  BY <1>3 DEF Pad
<1>8. /\ pads' \in [Node -> [i : Seq(Pad), o : Seq(Pad)]]
      /\ \A m \in Node :
            /\ pads'[m].o = IF m = n THEN [pads[n].o EXCEPT ![x] = r] ELSE pads[m].o
            /\ pads'[m].i = IF m = dst THEN [pads[dst].i EXCEPT ![y] = r] ELSE pads[m].i
  <2> DEFINE no == [pads[n].o EXCEPT ![x] = r]
             ni == [pads[dst].i EXCEPT ![y] = r]
             half == [pads EXCEPT ![n] = [@ EXCEPT !.o = no]]
  <2>1. pads \in [Node -> [i : Seq(Pad), o : Seq(Pad)]]
    BY <1>1 DEF Shape
  <2>2. no \in Seq(Pad) /\ ni \in Seq(Pad)
    BY <1>7
  <2>3. /\ half \in [Node -> [i : Seq(Pad), o : Seq(Pad)]]
        /\ \A m \in Node : /\ half[m].o = IF m = n THEN no ELSE pads[m].o
                           /\ half[m].i = pads[m].i
    <3> HIDE DEF no
    <3> QED BY <2>1, <2>2
  <2>4. pads' = [half EXCEPT ![dst] = [@ EXCEPT !.i = ni]]
    BY <1>2, <2>1, <2>3
  <2> HIDE DEF no, ni, half
  <2>5. /\ pads' \in [Node -> [i : Seq(Pad), o : Seq(Pad)]]
        /\ \A m \in Node : /\ pads'[m].o = IF m = n THEN no ELSE pads[m].o
                           /\ pads'[m].i = IF m = dst THEN ni ELSE pads[m].i
    BY <2>2, <2>3, <2>4
  <2> QED BY <2>5 DEF no, ni
<1>9. Shape'
  <2>1. ref_count' \in [RingId -> Int]
    BY <1>2, <1>6
  <2>2. life' \in [RingId -> {"unmade", "made", "deleted"}]
    BY <1>1, <1>2 DEF Shape
  <2> QED BY <1>8, <2>1, <2>2 DEF Shape
<1>10. ASSUME NEW q \in RingId, NEW m \in Node, NEW k \in Nat, Holds(m, "o", k, q)'
       PROVE  \/ q = r /\ m = n /\ k = x
              \/ Holds(m, "o", k, q) /\ ~(m = n /\ k = x)
  <2>1. CASE m = n
    BY <1>3, <1>8, <1>10, <2>1 DEF Holds
  <2>2. CASE m # n
    BY <1>8, <1>10, <2>2 DEF Holds
  <2> QED BY <2>1, <2>2
<1>11. ASSUME NEW q \in RingId, NEW m \in Node, NEW k \in Nat, Holds(m, "i", k, q)'
       PROVE  \/ q = r /\ m = dst /\ k = y
              \/ Holds(m, "i", k, q) /\ ~(m = dst /\ k = y)
  <2>1. CASE m = dst
    BY <1>3, <1>8, <1>11, <2>1 DEF Holds
  <2>2. CASE m # dst
    BY <1>8, <1>11, <2>2 DEF Holds
  <2> QED BY <2>1, <2>2
<1>12. Holds(n, "o", x, O) /\ Holds(dst, "i", y, I)
  BY <1>3 DEF Holds
<1>13. ASSUME NEW s \in Sides, NEW m \in Node, NEW k \in Nat PROVE ~Holds(m, s, k, r)
  BY <1>1, <1>2 DEF HeldMade, Made
<1> HIDE DEF left
<1>14. ASSUME NEW q \in RingId, q # r, NEW m \in Node, NEW k \in Nat, Holds(m, "o", k, q)'
       PROVE  /\ Holds(m, "o", k, q) /\ q # O
              /\ q = I => ref_count[q] = 2
  <2>1. Holds(m, "o", k, q) /\ ~(m = n /\ k = x)
    BY <1>10, <1>14
  <2>2. q # O
    BY <1>1, <1>4, <1>12, <2>1 DEF OneEnd, Sides
  <2>3. q = I => ref_count[q] = 2
    BY <1>1, <1>4, <1>12, <2>1 DEF BothEnds
  <2> QED BY <2>1, <2>2, <2>3
<1>15. ASSUME NEW q \in RingId, q # r, NEW m \in Node, NEW k \in Nat, Holds(m, "i", k, q)'
       PROVE  /\ Holds(m, "i", k, q) /\ q # I
              /\ q = O => ref_count[q] = 2
  <2>1. Holds(m, "i", k, q) /\ ~(m = dst /\ k = y)
    BY <1>11, <1>15
  <2>2. q # I
    BY <1>1, <1>4, <1>12, <2>1 DEF OneEnd, Sides
  <2>3. q = O => ref_count[q] = 2
    BY <1>1, <1>4, <1>12, <2>1 DEF BothEnds
  <2> QED BY <2>1, <2>2, <2>3
<1>16. /\ \A q \in RingId : q # O /\ q # I => left[q] = ref_count[q]
       /\ \A q \in RingId : q = O /\ q # I => left[q] = ref_count[q] - 1
       /\ \A q \in RingId : q # O /\ q = I => left[q] = ref_count[q] - 1
  BY <1>1, <1>5 DEF left, Released, Shape, Pad
<1>17. OneEnd'
  <2> SUFFICES ASSUME NEW q \in RingId, NEW s \in Sides, NEW m \in Node, NEW p \in Node,
                      NEW k \in Nat, NEW l \in Nat, Holds(m, s, k, q)', Holds(p, s, l, q)'
               PROVE  m = p /\ k = l
    BY DEF OneEnd
  <2>1. CASE q = r
    BY <1>10, <1>11, <1>13, <2>1 DEF Sides
  <2>2. CASE q # r
    <3>1. Holds(m, s, k, q) /\ Holds(p, s, l, q)
      BY <1>14, <1>15, <2>2 DEF Sides
    <3> QED BY <1>1, <3>1 DEF OneEnd
  <2> QED BY <2>1, <2>2
<1>18. BothEnds'
  <2> SUFFICES ASSUME NEW q \in RingId, NEW m \in Node, NEW p \in Node, NEW k \in Nat, NEW l \in Nat,
                      Holds(m, "o", k, q)', Holds(p, "i", l, q)'
               PROVE  ref_count'[q] = 2 /\ <<m, p>> \in Flow
    BY DEF BothEnds
  <2>1. CASE q = r
    <3>1. m = n /\ p = dst
      BY <1>10, <1>11, <1>13, <2>1 DEF Sides
    <3>2. <<n, dst>> \in Flow
      BY Zenon DEF Link
    <3> QED BY <1>2, <1>6, <2>1, <3>1, <3>2
  <2>2. CASE q # r
    <3>1. Holds(m, "o", k, q) /\ Holds(p, "i", l, q) /\ q # O /\ q # I
      BY <1>14, <1>15, <2>2
    <3>2. ref_count[q] = 2 /\ <<m, p>> \in Flow
      BY <1>1, <3>1 DEF BothEnds
    <3> QED BY <1>2, <1>6, <1>16, <2>2, <3>1, <3>2
  <2> QED BY <2>1, <2>2
<1>19. HeldMade'
  <2> SUFFICES ASSUME NEW q \in RingId, NEW s \in Sides, NEW m \in Node, NEW k \in Nat,
                      Holds(m, s, k, q)'
               PROVE  life'[q] = "made"
    BY DEF HeldMade, Made
  <2>1. CASE q = r
    BY <1>2, <2>1
  <2>2. CASE q # r
    <3>1. /\ Holds(m, s, k, q)
          /\ \/ q # O /\ (q = I => ref_count[q] = 2)
             \/ q # I /\ (q = O => ref_count[q] = 2)
      <4>1. CASE s = "o"
        BY <1>14, <2>2, <4>1
      <4>2. CASE s = "i"
        BY <1>15, <2>2, <4>2
      <4> QED BY <4>1, <4>2 DEF Sides
    <3>2. q \notin Freed(left, {O, I})
      <4>1. left[q] \in Int
        BY <1>6
      <4>2. q \in {O, I} => left[q] = 1
        BY <1>16, <3>1
      <4> QED BY <4>1, <4>2 DEF Freed
    <3>3. life[q] = "made"
      BY <1>1, <3>1 DEF HeldMade, Made
    <3> QED BY <1>2, <2>2, <3>2, <3>3
  <2> QED BY <2>1, <2>2
<1> QED BY <1>9, <1>17, <1>18, <1>19

\* The steps of tasks, and those that end badly.
Running(n) ==
    \/ TaskPush(n) \/ TaskPull(n) \/ Race(n)
    \/ \E j \in 1..MaxPads[n].i : Fan(n, j)
    \/ \E side \in Sides : DrainTorn(n, side)

\* They leave the objects, the pads and the counts of the rings alone.
LEMMA RunningStays ==
    ASSUME NEW n \in Node, Running(n)
    PROVE  UNCHANGED <<refs, term, gone, pads, fn_index, started, ref_count, life, relinked>>
<1>1. ASSUME NEW what, Break(what)
      PROVE  UNCHANGED <<refs, term, gone, pads, fn_index, started, ref_count, life, relinked>>
  BY <1>1 DEF Break, build, heap, hist
<1>2. CASE TaskPush(n)
  <2>1. \/ Break("deleted ring") \/ Break("ring of size 0")
        \/ UNCHANGED <<refs, term, gone, build, heap, relinked>>
    BY <1>2, Zenon DEF TaskPush
  <2> QED BY <1>1, <2>1 DEF build, heap
<1>3. CASE TaskPull(n)
  <2>1. \/ Break("deleted ring") \/ Break("deleted task")
        \/ UNCHANGED <<refs, term, gone, build, heap, relinked>>
    BY <1>3, Zenon DEF TaskPull
  <2> QED BY <1>1, <2>1 DEF build, heap
<1>4. CASE Race(n)
  <2>1. Break("race")
    BY <1>4, Zenon DEF Race
  <2> QED BY <1>1, <2>1
<1>5. ASSUME NEW j \in 1..MaxPads[n].i, Fan(n, j)
      PROVE  UNCHANGED <<refs, term, gone, pads, fn_index, started, ref_count, life, relinked>>
  <2>1. \/ Break("deleted ring") \/ Break("ring of size 0")
        \/ UNCHANGED <<refs, term, gone, build, heap, hist>>
    BY <1>5, Zenon DEF Fan
  <2> QED BY <1>1, <2>1 DEF build, heap, hist
<1>6. ASSUME NEW side \in Sides, DrainTorn(n, side)
      PROVE  UNCHANGED <<refs, term, gone, pads, fn_index, started, ref_count, life, relinked>>
  <2>1. UNCHANGED <<refs, term, gone, build, heap, hist>>
    BY <1>6, Zenon DEF DrainTorn
  <2> QED BY <2>1 DEF build, heap, hist
<1> QED BY <1>2, <1>3, <1>4, <1>5, <1>6 DEF Running

\* The terms and references of Erlang: the last one is never given back.
LEMMA ReferencedStep == Referenced /\ [Next]_vars => Referenced'
<1> SUFFICES ASSUME Referenced, [Next]_vars PROVE Referenced'
  OBVIOUS
<1>1. ASSUME NEW o \in Object, New(o) PROVE Referenced'
  BY <1>1 DEF Referenced, New, MadeRefs
<1>2. ASSUME NEW o \in Object, Forget(o) PROVE Referenced'
  <2>1. refs[o] = MadeRefs /\ MadeRefs # 1
    BY <1>2 DEF Referenced, Forget, MadeRefs
  <2> QED BY <1>2, <2>1 DEF Referenced, Forget, MadeRefs
<1>3. CASE UNCHANGED <<refs, term, gone>>
  BY <1>3 DEF Referenced
<1>4. ASSUME NEW n \in Node,
             \/ \E side \in Sides : PadAdd(n, side) \/ \E size \in Sizes : Ep(n, side, size)
             \/ PadReset(n) \/ \E k \in Ints : FnSet(n, k)
      PROVE  Referenced'
  BY <1>3, <1>4 DEF PadAdd, Ep, PadReset, FnSet
<1>l. ASSUME NEW n \in Node, NEW dst \in Node, NEW i \in Ints, NEW j \in Ints, NEW size \in Sizes,
             Link(n, dst, i, j, size)
      PROVE  Referenced'
  <2>1. UNCHANGED <<refs, term, gone>>
    BY <1>l, Zenon DEF Link
  <2> QED BY <1>3, <2>1
<1>5. CASE \E n \in Node : Running(n)
  BY <1>3, <1>5, RunningStays
<1>6. CASE Start
  BY <1>3, <1>6 DEF Start
<1>7. CASE UNCHANGED vars
  BY <1>3, <1>7 DEF vars
<1> QED BY <1>1, <1>2, <1>4, <1>l, <1>5, <1>6, <1>7 DEF Next, Sides, Running

\* A step that leaves pads, counts and rings' lives alone.
LEMMA StillStep ==
    ASSUME IInv, UNCHANGED <<pads, ref_count, life>>
    PROVE  Shape' /\ OneEnd' /\ BothEnds' /\ HeldMade'
<1>1. Shape /\ OneEnd /\ BothEnds /\ HeldMade
  BY DEF IInv
<1>2. Shape'
  BY <1>1 DEF Shape
<1>3. ASSUME NEW r \in RingId, NEW s \in Sides, NEW n \in Node, NEW k \in Nat, Holds(n, s, k, r)'
      PROVE  Holds(n, s, k, r)
  BY <1>3 DEF Holds
<1> QED BY <1>2, <1>3, Fewer

LEMMA IInvStep == IInv /\ [Next]_vars => IInv'
<1> SUFFICES ASSUME IInv, [Next]_vars PROVE Shape' /\ OneEnd' /\ BothEnds' /\ HeldMade'
  BY ReferencedStep DEF IInv
<1>1. CASE \E o \in Object : New(o) \/ Forget(o)
  BY <1>1, StillStep DEF New, Forget, build, heap
<1>2. ASSUME NEW n \in Node, NEW side \in Sides, PadAdd(n, side)
      PROVE  Shape' /\ OneEnd' /\ BothEnds' /\ HeldMade'
  BY <1>2, PadAddStep
<1>3. ASSUME NEW n \in Node, NEW side \in Sides, NEW size \in Sizes, Ep(n, side, size)
      PROVE  Shape' /\ OneEnd' /\ BothEnds' /\ HeldMade'
  BY <1>3, EpStep
<1>4. ASSUME NEW n \in Node, PadReset(n) PROVE Shape' /\ OneEnd' /\ BothEnds' /\ HeldMade'
  BY <1>4, PadResetStep
<1>5. ASSUME NEW n \in Node, NEW k \in Ints, FnSet(n, k)
      PROVE  Shape' /\ OneEnd' /\ BothEnds' /\ HeldMade'
  BY <1>5, StillStep DEF FnSet, heap
<1>6. ASSUME NEW n \in Node, NEW dst \in Node, NEW i \in Ints, NEW j \in Ints, NEW size \in Sizes,
             Link(n, dst, i, j, size)
      PROVE  Shape' /\ OneEnd' /\ BothEnds' /\ HeldMade'
  BY <1>6, LinkStep, PipelineAssumption
<1>7. CASE \E n \in Node : Running(n)
  BY <1>7, StillStep, RunningStays
<1>8. CASE Start
  BY <1>8, StillStep DEF Start, heap
<1>9. CASE UNCHANGED vars
  BY <1>9, StillStep DEF vars, build, heap
<1> QED BY <1>1, <1>2, <1>3, <1>4, <1>5, <1>6, <1>7, <1>8, <1>9 DEF Next, Sides, Running

LEMMA InitIInv == Init => IInv
<1> SUFFICES ASSUME Init PROVE IInv
  OBVIOUS
<1>1. Shape /\ Referenced
  BY DEF Init, Shape, Referenced
<1>2. ASSUME NEW r \in RingId, NEW s \in Sides, NEW n \in Node, NEW k \in Nat PROVE ~Holds(n, s, k, r)
  BY DEF Init, Holds, Sides
<1>3. OneEnd /\ HeldMade
  BY <1>2 DEF OneEnd, HeldMade
<1>4. BothEnds
  BY <1>2 DEF BothEnds, Sides
<1> QED BY <1>1, <1>3, <1>4 DEF IInv

(* erlang_nif_pipeline.coffee 77-192, class_generator.coffee 106-121: in   *)
(* whatever order pads are added, linked, linked again and reset, no pad   *)
(* is left with a ring that was deleted, and no ring holds a task whose    *)
(* destructor has run.                                                     *)
THEOREM NothingDangles == Spec => []Alive
<1>1. Init => IInv
  BY InitIInv
<1>2. IInv /\ [Next]_vars => IInv'
  BY IInvStep
<1>3. IInv => Alive
  BY InvImpliesAlive
<1> QED BY <1>1, <1>2, <1>3, PTL DEF Spec

-----------------------------------------------------------------------------
(* The domains of the variables                                            *)

Thing == Object \cup {Nothing}

\* Every ring is as its operations leave one.
RingsFormed == ring = [r \in RingId |-> ring[r]] /\ \A r \in RingId : WellFormed(ring[r], Thing)

\* No count is below 0 before its ring is deleted.
CountsUp == \A r \in RingId : life[r] # "deleted" => ref_count[r] \in 0..2

Plain ==
    /\ refs \in [Object -> -1..MadeRefs]
    /\ fn_index \in [Node -> 0..Fns] /\ started \in BOOLEAN

Domains == RingsFormed /\ CountsUp /\ Plain

LEMMA OneRing ==
    ASSUME RingsFormed, NEW r \in RingId, NEW x, WellFormed(x, Thing), ring' = [ring EXCEPT ![r] = x]
    PROVE  RingsFormed'
<1>1. ring' = [q \in RingId |-> IF q = r THEN x ELSE ring[q]]
  BY Zenon DEF RingsFormed
<1>2. \A q \in RingId : WellFormed(ring'[q], Thing)
  BY <1>1 DEF RingsFormed
<1>3. ring' = [q \in RingId |-> ring'[q]]
  BY <1>1
<1> QED BY <1>2, <1>3 DEF RingsFormed

\* A drain and a push, as task_push and fan_n1_mod_out do them.
LEMMA PushedFormed ==
    ASSUME NEW x, WellFormed(x, Thing), x.size # 0, NEW t \in Thing
    PROVE  WellFormed(Pushed(Drained(x), t), Thing) /\ Pushed(Drained(x), t).size = x.size
<1>1. x.size > 0
  BY DEF WellFormed
<1>2. WellFormed(Drained(x), Thing) /\ Drained(x).size = x.size
  BY <1>1, DrainedFormed
<1>3. Drained(x).size > 0
  BY <1>1, <1>2
<1> HIDE DEF Thing
<1> QED BY <1>2, <1>3, PushAppends

LEMMA NewFormed == ASSUME NEW size, IntArg(size) PROVE WellFormed(NewRing(Unsigned(size)), Thing)
<1>1. size \in Int
  BY DEF IntArg
<1>2. Unsigned(size) \in Nat /\ Nothing \in Thing
  BY <1>1, UnsignedNat DEF Thing
<1> QED BY <1>2, NewRingFormed

\* A ring that is pulled from has slots.
LEMMA PullFormed ==
    ASSUME NEW x, WellFormed(x, Thing), CanPull(x)
    PROVE  WellFormed(Pulled(x), Thing) /\ First(x) \in Thing /\ x.size > 0
<1>1. x.size > 0
  BY DEF WellFormed, CanPull
<1> HIDE DEF Thing
<1> QED BY <1>1, PullTakes

LEMMA RingsStep == IInv /\ Domains /\ [Next]_vars => RingsFormed'
<1> SUFFICES ASSUME IInv, Domains, [Next]_vars PROVE RingsFormed'
  OBVIOUS
<1>0. RingsFormed
  BY DEF Domains
<1>1. ASSUME UNCHANGED ring PROVE RingsFormed'
  BY <1>0, <1>1 DEF RingsFormed
<1>2. ASSUME NEW o \in Object, New(o) \/ Forget(o) PROVE RingsFormed'
  BY <1>1, <1>2 DEF New, Forget
<1>3. ASSUME NEW n \in Node, NEW side \in Sides, PadAdd(n, side) PROVE RingsFormed'
  BY <1>1, <1>3 DEF PadAdd
<1>4. ASSUME NEW n \in Node, NEW side \in Sides, NEW size \in Sizes, Ep(n, side, size) PROVE RingsFormed'
  <2>1. PICK r \in RingId : ring' = [ring EXCEPT ![r] = NewRing(Unsigned(size))]
    BY <1>4 DEF Ep
  <2>2. IntArg(size)
    BY <1>4 DEF Ep
  <2> QED BY <1>0, <2>1, <2>2, NewFormed, OneRing
<1>5. ASSUME NEW n \in Node, PadReset(n) \/ \E k \in Ints : FnSet(n, k) PROVE RingsFormed'
  BY <1>1, <1>5 DEF PadReset, FnSet
<1>6. ASSUME NEW n \in Node, NEW dst \in Node, NEW i \in Ints, NEW j \in Ints, NEW size \in Sizes,
             Link(n, dst, i, j, size)
      PROVE  RingsFormed'
  <2>1. PICK r \in RingId : ring' = [ring EXCEPT ![r] = NewRing(Unsigned(size))]
    BY <1>6, Zenon DEF Link
  <2>2. IntArg(size)
    BY <1>6, Zenon DEF Link
  <2> QED BY <1>0, <2>1, <2>2, NewFormed, OneRing
<1>7. ASSUME NEW n \in Node, TaskPush(n) PROVE RingsFormed'
  <2> DEFINE r == pads[n].i[1]
             t == Len(pushed) + 1
  <2>1. t \in term /\ pads[n].i # <<>> /\ r # Nothing
    BY <1>7 DEF TaskPush, ClassArg
  <2>2. pads[n].i \in Seq(Pad)
    BY DEF IInv, Shape
  <2>3. r \in RingId
    BY <2>1, <2>2 DEF Pad
  <2>4. t \in Thing
    BY <2>1 DEF IInv, Referenced, Thing
  <2>5. \/ UNCHANGED ring
        \/ ring[r].size # 0 /\ ring' = [ring EXCEPT ![r] = Pushed(Drained(ring[r]), t)]
    BY <1>7, Zenon DEF TaskPush, Break
  <2> HIDE DEF r, t
  <2>6. CASE ring[r].size # 0 /\ ring' = [ring EXCEPT ![r] = Pushed(Drained(ring[r]), t)]
    <3>1. WellFormed(ring[r], Thing)
      BY <1>0, <2>3 DEF RingsFormed
    <3>2. WellFormed(Pushed(Drained(ring[r]), t), Thing)
      BY <2>4, <2>6, <3>1, PushedFormed
    <3> QED BY <1>0, <2>3, <2>6, <3>2, OneRing
  <2> QED BY <1>1, <2>5, <2>6
<1>8. ASSUME NEW n \in Node, TaskPull(n) PROVE RingsFormed'
  <2> DEFINE r == pads[n].o[1]
  <2>1. pads[n].o # <<>> /\ r # Nothing
    BY <1>8 DEF TaskPull
  <2>2. pads[n].o \in Seq(Pad)
    BY DEF IInv, Shape
  <2>3. r \in RingId
    BY <2>1, <2>2 DEF Pad
  <2>4. \/ UNCHANGED ring
        \/ CanPull(ring[r]) /\ ring' = [ring EXCEPT ![r] = Pulled(ring[r])]
    BY <1>8, Zenon DEF TaskPull, Break
  <2> HIDE DEF r
  <2>5. CASE CanPull(ring[r]) /\ ring' = [ring EXCEPT ![r] = Pulled(ring[r])]
    <3>1. WellFormed(ring[r], Thing)
      BY <1>0, <2>3 DEF RingsFormed
    <3>2. WellFormed(Pulled(ring[r]), Thing)
      BY <2>5, <3>1, PullFormed
    <3> QED BY <1>0, <2>3, <2>5, <3>2, OneRing
  <2> QED BY <1>1, <2>4, <2>5
<1>9. ASSUME NEW n \in Node, NEW j \in 1..MaxPads[n].i, Fan(n, j) PROVE RingsFormed'
  <2> DEFINE i == pads[n].i[j]
             o == pads[n].o[1]
             into == Pushed(Drained(ring[o]), First(ring[i]))
             half == [ring EXCEPT ![o] = into]
  <2>1. j \in DOMAIN pads[n].i /\ pads[n].o # <<>> /\ o # Nothing
    BY <1>9 DEF Fan
  <2>2. pads[n].i \in Seq(Pad) /\ pads[n].o \in Seq(Pad)
    BY DEF IInv, Shape
  <2>3. i \in Pad /\ o \in RingId
    BY <2>1, <2>2 DEF Pad
  <2>4. \/ UNCHANGED ring
        \/ ring[o].size # 0 /\ ring' = [ring EXCEPT ![o] = Drained(ring[o])]
        \/ /\ ring[o].size # 0 /\ i # Nothing /\ CanPull(ring[i])
           /\ ring' = [half EXCEPT ![i] = Pulled(half[i])]
    BY <1>9, Zenon DEF Fan, Break
  <2> HIDE DEF i, o
  <2>d. CASE ring[o].size # 0 /\ ring' = [ring EXCEPT ![o] = Drained(ring[o])]
    <3>1. WellFormed(ring[o], Thing)
      BY <1>0, <2>3 DEF RingsFormed
    <3>2. ring[o].size > 0
      BY <2>d, <3>1 DEF WellFormed
    <3>3. WellFormed(Drained(ring[o]), Thing)
      <4> HIDE DEF Thing
      <4> QED BY <3>1, <3>2, DrainedFormed
    <3> QED BY <1>0, <2>3, <2>d, <3>3, OneRing
  <2>5. CASE /\ ring[o].size # 0 /\ i # Nothing /\ CanPull(ring[i])
             /\ ring' = [half EXCEPT ![i] = Pulled(half[i])]
    <3>0. i \in RingId
      BY <2>3, <2>5 DEF Pad
    <3>1. WellFormed(ring[i], Thing) /\ WellFormed(ring[o], Thing)
      BY <1>0, <2>3, <3>0 DEF RingsFormed
    <3>2. First(ring[i]) \in Thing /\ ring[i].size > 0
      BY <2>5, <3>1, PullFormed
    <3>3. WellFormed(into, Thing) /\ into.size = ring[o].size
      BY <2>5, <3>1, <3>2, PushedFormed
    <3> HIDE DEF into
    <3>4. half = [q \in RingId |-> IF q = o THEN into ELSE ring[q]]
      BY <1>0, Zenon DEF RingsFormed
    <3>5. WellFormed(half[i], Thing) /\ half[i].size > 0
      <4>1. CASE i = o
        BY <2>3, <3>0, <3>2, <3>3, <3>4, <4>1
      <4>2. CASE i # o
        BY <2>3, <3>0, <3>1, <3>2, <3>4, <4>2
      <4> QED BY <4>1, <4>2
    <3> HIDE DEF half
    <3>6. WellFormed(Pulled(half[i]), Thing)
      <4> HIDE DEF Thing
      <4> QED BY <3>5, PulledFormed
    <3>7. ring' = [q \in RingId |-> IF q = i THEN Pulled(half[i]) ELSE half[q]]
      BY <2>5, <3>4, Zenon
    <3>8. \A q \in RingId : WellFormed(ring'[q], Thing)
      <4> SUFFICES ASSUME NEW q \in RingId PROVE WellFormed(ring'[q], Thing)
        OBVIOUS
      <4>1. CASE q = i
        BY <3>6, <3>7, <4>1
      <4>2. CASE q # i /\ q = o
        BY <3>3, <3>4, <3>7, <4>2
      <4>3. CASE q # i /\ q # o
        <5>1. ring'[q] = ring[q]
          BY <3>4, <3>7, <4>3
        <5> QED BY <1>0, <5>1 DEF RingsFormed
      <4> QED BY <4>1, <4>2, <4>3
    <3>9. ring' = [q \in RingId |-> ring'[q]]
      BY <3>7
    <3> QED BY <3>8, <3>9 DEF RingsFormed
  <2> QED BY <1>1, <2>4, <2>d, <2>5
<1>12. ASSUME NEW n \in Node, NEW side \in Sides, DrainTorn(n, side) PROVE RingsFormed'
  <2> DEFINE r == pads[n][side][1]
  <2>1. /\ pads[n][side] # <<>> /\ r # Nothing /\ CanTear(ring[r])
        /\ ring' = [ring EXCEPT ![r] = DrainedTorn(ring[r])]
    BY <1>12, Zenon DEF DrainTorn
  <2>2. pads[n][side] \in Seq(Pad)
    BY DEF IInv, Shape, Sides
  <2>3. r \in RingId
    BY <2>1, <2>2 DEF Pad
  <2> HIDE DEF r
  <2>4. WellFormed(ring[r], Thing)
    BY <1>0, <2>3 DEF RingsFormed
  <2>5. ring[r].size > 0
    BY <2>1, <2>4 DEF CanTear, WellFormed
  <2>6. WellFormed(DrainedTorn(ring[r]), Thing)
    <3> HIDE DEF Thing
    <3> QED BY <2>4, <2>5, TornFormed
  <2> QED BY <1>0, <2>1, <2>3, <2>6, OneRing
<1>13. ASSUME NEW n \in Node, Race(n) PROVE RingsFormed'
  BY <1>1, <1>13 DEF Race, Break
<1>10. CASE Start
  BY <1>1, <1>10 DEF Start
<1>11. CASE UNCHANGED vars
  BY <1>1, <1>11 DEF vars
<1> QED BY <1>2, <1>3, <1>4, <1>5, <1>6, <1>7, <1>8, <1>9, <1>10, <1>11, <1>12, <1>13 DEF Next, Sides

LEMMA CountsUpStep == IInv /\ Domains /\ [Next]_vars => CountsUp'
<1> SUFFICES ASSUME IInv, Domains, [Next]_vars PROVE CountsUp'
  OBVIOUS
<1>0. CountsUp /\ Shape
  BY DEF Domains, IInv
<1>1. ASSUME UNCHANGED <<ref_count, life>> PROVE CountsUp'
  BY <1>0, <1>1 DEF CountsUp
<1>2. ASSUME NEW o \in Object, New(o) \/ Forget(o) PROVE CountsUp'
  BY <1>1, <1>2 DEF New, Forget, heap
<1>3. ASSUME NEW n \in Node, NEW side \in Sides, NEW size \in Sizes, Ep(n, side, size) PROVE CountsUp'
  <2>1. PICK r \in RingId : life[r] = "unmade" /\ life' = [life EXCEPT ![r] = "made"]
    BY <1>3 DEF Ep, Fresh
  <2>2. UNCHANGED ref_count
    BY <1>3 DEF Ep
  <2> QED BY <1>0, <2>1, <2>2 DEF CountsUp, Shape
<1>4. ASSUME NEW n \in Node, NEW dst \in Node, NEW i \in Ints, NEW j \in Ints, NEW size \in Sizes,
             Link(n, dst, i, j, size)
      PROVE  CountsUp'
  <2>1. PICK r \in RingId, x \in {Unsigned(i) + 1}, y \in {Unsigned(j) + 1} :
           /\ ref_count' = [Released(Released(ref_count, pads[n].o[x]), pads[dst].i[y]) EXCEPT ![r] = 2]
           /\ life' = [q \in RingId |->
                 IF q = r THEN "made"
                 ELSE IF q \in Freed(Released(Released(ref_count, pads[n].o[x]), pads[dst].i[y]),
                                     {pads[n].o[x], pads[dst].i[y]}) THEN "deleted" ELSE life[q]]
    BY <1>4, Zenon DEF Link
  <2> DEFINE O == pads[n].o[x]
             I == pads[dst].i[y]
             left == Released(Released(ref_count, O), I)
  <2>2. pads[n].o \in Seq(Pad) /\ pads[dst].i \in Seq(Pad) /\ Nothing \notin RingId
    BY <1>0, PipelineAssumption DEF Shape, RingId
  <2>3. /\ Unsigned(i) < Len(pads[n].o) /\ Unsigned(j) < Len(pads[dst].i)
        /\ Unsigned(i) \in Nat /\ Unsigned(j) \in Nat
    <3>1. Unsigned(i) < Len(pads[n].o) /\ Unsigned(j) < Len(pads[dst].i)
      BY <1>4, Zenon DEF Link
    <3> QED BY <3>1, UnsignedNat, PipelineAssumption
  <2>4. O \in Pad /\ I \in Pad
    <3>1. x \in 1..Len(pads[n].o) /\ y \in 1..Len(pads[dst].i)
      BY <2>2, <2>3
    <3> QED BY <2>2, <3>1
  <2> HIDE DEF O, I
  <2>5. /\ left \in [RingId -> Int]
        /\ \A q \in RingId : q \notin {O, I} => left[q] = ref_count[q]
        /\ \A q \in RingId : left[q] <= ref_count[q]
    BY <1>0, <2>2, <2>4 DEF Released, Shape, Pad
  <2> HIDE DEF left
  <2>6. /\ ref_count' = [left EXCEPT ![r] = 2]
        /\ life' = [q \in RingId |-> IF q = r THEN "made"
                                     ELSE IF q \in Freed(left, {O, I}) THEN "deleted" ELSE life[q]]
    BY <2>1 DEF left, O, I
  <2>7. ASSUME NEW q \in RingId, life'[q] # "deleted" PROVE ref_count'[q] \in 0..2
    <3>1. CASE q = r
      BY <2>5, <2>6, <3>1
    <3>2. CASE q # r
      <4>1. life[q] # "deleted" /\ q \notin Freed(left, {O, I}) /\ ref_count'[q] = left[q]
        BY <2>5, <2>6, <2>7, <3>2
      <4>2. ref_count[q] \in 0..2
        BY <1>0, <4>1 DEF CountsUp
      <4>3. CASE q \in {O, I}
        <5>1. ~(left[q] <= 0) /\ left[q] \in Int /\ left[q] <= ref_count[q]
          BY <2>2, <2>5, <4>1, <4>3 DEF Freed
        <5> QED BY <4>1, <4>2, <5>1
      <4>4. CASE q \notin {O, I}
        BY <2>5, <4>1, <4>2, <4>4
      <4> QED BY <4>3, <4>4
    <3> QED BY <3>1, <3>2
  <2> QED BY <2>7 DEF CountsUp
<1>5. ASSUME NEW n \in Node,
             \/ \E side \in Sides : PadAdd(n, side)
             \/ PadReset(n) \/ \E k \in Ints : FnSet(n, k)
      PROVE  CountsUp'
  BY <1>1, <1>5 DEF PadAdd, PadReset, FnSet, heap
<1>6. CASE \E n \in Node : Running(n)
  BY <1>1, <1>6, RunningStays
<1>7. CASE Start
  BY <1>1, <1>7 DEF Start, heap
<1>8. CASE UNCHANGED vars
  BY <1>1, <1>8 DEF vars, heap
<1> QED BY <1>2, <1>3, <1>4, <1>5, <1>6, <1>7, <1>8 DEF Next, Sides, Running

LEMMA PlainStep == IInv /\ Domains /\ [Next]_vars => Plain'
<1> SUFFICES ASSUME IInv, Domains, [Next]_vars PROVE Plain'
  OBVIOUS
<1>0. Plain /\ Referenced
  BY DEF Domains, IInv
<1>1. ASSUME UNCHANGED <<refs, fn_index, started>> PROVE Plain'
  BY <1>0, <1>1 DEF Plain
<1>2. ASSUME NEW o \in Object, New(o) PROVE Plain'
  BY <1>0, <1>2 DEF Plain, New, MadeRefs, build
<1>3. ASSUME NEW o \in Object, Forget(o) PROVE Plain'
  <2>1. refs[o] = 2
    BY <1>0, <1>3 DEF Referenced, Forget, MadeRefs
  <2> QED BY <1>0, <1>3, <2>1 DEF Plain, Forget, MadeRefs, build
<1>4. ASSUME NEW n \in Node, NEW k \in Ints, FnSet(n, k) PROVE Plain'
  <2>1. k \in (-Half32)..(Half32 - 1) /\ Unsigned(Unsigned(k) - 1) < Fns
    BY <1>4 DEF FnSet, IntArg
  <2>2. Half32 \in Nat \ {0} /\ Fns \in 0..(Half32 - 1)
    BY PipelineAssumption
  <2>3. Unsigned(k) = IF k >= 0 THEN k ELSE k + 2 * Half32
    BY <2>1, <2>2 DEF Unsigned
  <2>4. k \in 0..Fns
    BY <2>1, <2>2, <2>3 DEF Unsigned
  <2> QED BY <1>0, <1>4, <2>4 DEF Plain, FnSet
<1>5. ASSUME NEW n \in Node,
             \/ \E side \in Sides : PadAdd(n, side) \/ \E size \in Sizes : Ep(n, side, size)
             \/ PadReset(n)
      PROVE  Plain'
  BY <1>1, <1>5 DEF PadAdd, Ep, PadReset
<1>6. ASSUME NEW n \in Node, NEW dst \in Node, NEW i \in Ints, NEW j \in Ints, NEW size \in Sizes,
             Link(n, dst, i, j, size)
      PROVE  Plain'
  <2>1. UNCHANGED <<refs, fn_index, started>>
    BY <1>6, Zenon DEF Link
  <2> QED BY <1>1, <2>1
<1>7. CASE \E n \in Node : Running(n)
  BY <1>1, <1>7, RunningStays
<1>8. CASE Start
  BY <1>0, <1>8 DEF Start, Plain
<1>9. CASE UNCHANGED vars
  BY <1>1, <1>9 DEF vars, build
<1> QED BY <1>2, <1>3, <1>4, <1>5, <1>6, <1>7, <1>8, <1>9 DEF Next, Sides, Running

LEMMA PipelineInit == Init => IInv /\ Domains
<1> SUFFICES ASSUME Init PROVE IInv /\ Domains
  OBVIOUS
<1>1. IInv
  BY InitIInv
<1>2. CountsUp
  BY DEF Init, CountsUp
<1>3. Plain
  <2>1. 0 \in 0..Fns /\ -1 \in -1..MadeRefs
    BY PipelineAssumption DEF MadeRefs
  <2> QED BY <2>1 DEF Init, Plain
<1>4. WellFormed(NewRing(0), Thing)
  BY NewRingFormed DEF Thing
<1>5. RingsFormed
  BY <1>4 DEF Init, RingsFormed
<1> QED BY <1>1, <1>2, <1>3, <1>5 DEF Domains

(* erlang_nif_pipeline.coffee 77-239: whatever indices, sizes and function *)
(* numbers Erlang passes, with a sign or without, a ring that is not       *)
(* deleted has a count of 0, 1 or 2 and offsets inside its slots, and a    *)
(* node has no function that was never registered.                         *)
THEOREM PipelineTypes == Spec => []TypeOK
<1>1. Init => IInv /\ Domains
  BY PipelineInit
<1>2. (IInv /\ Domains) /\ [Next]_vars => (IInv /\ Domains)'
  BY IInvStep, RingsStep, CountsUpStep, PlainStep DEF Domains
<1>3. IInv /\ Domains => TypeOK
  <2> SUFFICES ASSUME IInv, Domains PROVE TypeOK
    OBVIOUS
  <2>1. \A n \in Node : HeldBy(n) \subseteq RingId
    <3> SUFFICES ASSUME NEW n \in Node, NEW r \in HeldBy(n) PROVE r \in RingId
      OBVIOUS
    <3>1. PICK s \in Sides : \E k \in DOMAIN pads[n][s] : pads[n][s][k] = r
      BY DEF HeldBy, Sides
    <3>2. pads[n][s] \in Seq(Pad)
      BY DEF IInv, Shape, Sides
    <3>3. r # Nothing
      BY DEF HeldBy
    <3> QED BY <3>1, <3>2, <3>3 DEF Pad
  <2>2. ASSUME NEW r \in RingId, Made(r)
        PROVE  /\ ring[r].idx <= Len(ring[r].overflow)
               /\ ref_count[r] \in 0..2
               /\ ring[r].size > 0 => ring[r].send < ring[r].size /\ ring[r].recv < ring[r].size
    <3>1. WellFormed(ring[r], Thing) /\ ref_count[r] \in 0..2
      BY <2>2 DEF Domains, RingsFormed, CountsUp, Made
    <3> QED BY <3>1 DEF WellFormed
  <2>3. /\ refs \in [Object -> -1..MadeRefs] /\ term \subseteq Object /\ gone \subseteq Object
        /\ life \in [RingId -> {"unmade", "made", "deleted"}]
        /\ fn_index \in [Node -> 0..Fns] /\ started \in BOOLEAN
    BY DEF IInv, Domains, Plain, Referenced, Shape
  <2> QED BY <2>1, <2>2, <2>3 DEF TypeOK
<1> QED BY <1>1, <1>2, <1>3, PTL DEF Spec

-----------------------------------------------------------------------------
(* The way of a task: the rings that follow one another.  A ring has one   *)
(* input pad at most, and its node has one output that is written to, so   *)
(* that behind a ring there is one ring at most; and no ring comes again.  *)

In(q, k, u) == k \in DOMAIN Inside(ring[q]) /\ Inside(ring[q])[k] = u
Entry(n)    == pads[n].i[1]
Exit(n)     == pads[n].o[1]

\* fan_n1_mod_out moves what is in r to q.
Leads(r, q) == \E n \in Node : (\E j \in Nat : Holds(n, "i", j, r)) /\ Holds(n, "o", 1, q)
Closed(S)   == \A r \in S, q \in RingId : Leads(r, q) => q \in S

\* A ring and all that follow it.
Beyond(r)   == {q \in RingId : \A S \in SUBSET RingId : r \in S /\ Closed(S) => q \in S}

LEMMA BeyondSelf == ASSUME NEW r \in RingId PROVE r \in Beyond(r)
BY DEF Beyond

LEMMA BeyondStep ==
    ASSUME NEW r, NEW q \in Beyond(r), NEW p \in RingId, Leads(q, p)
    PROVE  p \in Beyond(r)
<1> SUFFICES ASSUME NEW S \in SUBSET RingId, r \in S, Closed(S) PROVE p \in S
  BY DEF Beyond
<1>1. q \in S
  BY DEF Beyond
<1> QED BY <1>1 DEF Closed

\* What follows a ring follows the next one.
LEMMA BeyondNext ==
    ASSUME OneEnd, NEW r \in RingId, NEW p \in RingId, Leads(r, p), NEW q \in Beyond(r), q # r
    PROVE  q \in Beyond(p)
<1> SUFFICES ASSUME NEW S \in SUBSET RingId, p \in S, Closed(S) PROVE q \in S
  BY DEF Beyond
<1>1. ASSUME NEW x \in RingId, Leads(r, x) PROVE x = p
  <2>1. PICK n \in Node, j \in Nat : Holds(n, "i", j, r) /\ Holds(n, "o", 1, p)
    BY DEF Leads
  <2>2. PICK m \in Node, l \in Nat : Holds(m, "i", l, r) /\ Holds(m, "o", 1, x)
    BY <1>1 DEF Leads
  <2>3. n = m
    BY <2>1, <2>2 DEF OneEnd, Sides
  <2> QED BY <2>1, <2>2, <2>3 DEF Holds
<1>2. Closed(S \cup {r})
  BY <1>1 DEF Closed
<1>3. q \in S \cup {r}
  BY <1>2 DEF Beyond
<1> QED BY <1>3

\* The way never comes back: the flow has no cycle.
LEMMA NeverBack ==
    ASSUME BothEnds, NEW r \in RingId, NEW p \in RingId, Leads(r, p)
    PROVE  r \notin Beyond(p)
<1>1. PICK rank \in [Node -> 0..Cardinality(Node)] : \A e \in Flow : rank[e[1]] < rank[e[2]]
  BY PipelineAssumption
<1>2. Cardinality(Node) \in Nat
  BY PipelineAssumption, FS_CardinalityType
<1>3. \A n \in Node : rank[n] \in Nat
  BY <1>2
<1>4. \A n, m \in Node : <<n, m>> \in Flow => rank[n] < rank[m]
  BY <1>1
<1>5. PICK n \in Node, j \in Nat : Holds(n, "i", j, r) /\ Holds(n, "o", 1, p)
  BY DEF Leads
<1> DEFINE S == {q \in RingId : \A m \in Node : \A k \in Nat : Holds(m, "i", k, q) => rank[n] < rank[m]}
<1>6. p \in S
  BY <1>4, <1>5 DEF BothEnds
<1>7. Closed(S)
  <2> SUFFICES ASSUME NEW a \in S, NEW x \in RingId, Leads(a, x), NEW m \in Node, NEW k \in Nat,
                      Holds(m, "i", k, x)
               PROVE  rank[n] < rank[m]
    BY DEF Closed
  <2>1. PICK b \in Node, l \in Nat : Holds(b, "i", l, a) /\ Holds(b, "o", 1, x)
    BY DEF Leads
  <2>2. rank[n] < rank[b]
    BY <2>1
  <2>3. <<b, m>> \in Flow
    BY <2>1 DEF BothEnds
  <2> QED BY <1>3, <1>4, <2>2, <2>3
<1>8. r \notin S
  BY <1>3, <1>5
<1> QED BY <1>6, <1>7, <1>8 DEF Beyond

LEMMA BeyondStays ==
    ASSUME UNCHANGED pads, NEW r PROVE Beyond(r)' = Beyond(r)
<1>1. \A n \in Node, k \in Nat : \A q : Holds(n, "i", k, q)' <=> Holds(n, "i", k, q)
  BY DEF Holds
<1>2. \A n \in Node, k \in Nat : \A q : Holds(n, "o", k, q)' <=> Holds(n, "o", k, q)
  BY DEF Holds
<1>3. \A x, q \in RingId : Leads(x, q)' <=> Leads(x, q)
  BY <1>1, <1>2 DEF Leads
<1>4. \A S \in SUBSET RingId : Closed(S)' <=> Closed(S)
  BY <1>3 DEF Closed
<1> QED BY <1>4 DEF Beyond

\* No pad lets go of a ring: what is linked only adds to the ways there are.
Grown ==
    \A n \in Node, s \in Sides : \A k \in Nat, q \in RingId : Holds(n, s, k, q) => Holds(n, s, k, q)'

LEMMA BeyondGrows == ASSUME Grown, NEW r PROVE Beyond(r) \subseteq Beyond(r)'
<1>1. ASSUME NEW x \in RingId, NEW q \in RingId, Leads(x, q) PROVE Leads(x, q)'
  <2>1. PICK n \in Node, j \in Nat : Holds(n, "i", j, x) /\ Holds(n, "o", 1, q)
    BY <1>1 DEF Leads
  <2>2. Holds(n, "i", j, x)' /\ Holds(n, "o", 1, q)'
    BY <2>1 DEF Grown, Sides
  <2> QED BY <2>2 DEF Leads
<1>2. \A S \in SUBSET RingId : Closed(S)' => Closed(S)
  BY <1>1 DEF Closed
<1> QED BY <1>2 DEF Beyond

-----------------------------------------------------------------------------
(* What a step does to the places of the tasks                             *)

Sent == 1..Len(pushed)

\* The history, and the rings hold what was pushed.
Known ==
    /\ pushed \in Seq(Node) /\ Len(pushed) <= Tasks
    /\ pulled \in Seq([task : Sent, at : Node])
    /\ \A q \in RingId : Inside(ring[q]) \in Seq(Sent) /\ (Inside(ring[q]) # <<>> => Made(q))

\* A task is in one place.
OnePlace ==
    \A q, p \in RingId : \A k, l \in Nat : \A u \in Sent : In(q, k, u) /\ In(p, l, u) => q = p /\ k = l
OneExit == \A x, y \in DOMAIN pulled : pulled[x].task = pulled[y].task => x = y
NotBoth == \A x \in DOMAIN pulled : \A q \in RingId : \A k \in Nat : ~In(q, k, pulled[x].task)
Somewhere ==
    \A u \in Sent : \/ \E q \in RingId : \E k \in Nat : In(q, k, u)
                    \/ \E x \in DOMAIN pulled : pulled[x].task = u

\* A task is on the way that begins where it was pushed.
OnWay == \A q \in RingId : \A k \in Nat : \A u \in Sent : In(q, k, u) => q \in Beyond(Entry(pushed[u]))

\* Of two tasks pushed at one node the earlier is ahead, in a ring and on the way.
Earlier(s, t) == s < t /\ pushed[s] = pushed[t]
InLine ==
    \A s, t \in Sent : \A a, b \in RingId : \A j, k \in Nat :
        Earlier(s, t) /\ In(a, j, s) /\ In(b, k, t) => a \in Beyond(b) /\ (a = b => j < k)

\* Where the later one came out the earlier one does not come out any more.
LeftInLine ==
    \A s \in Sent : \A y \in DOMAIN pulled : \A a \in RingId : \A j \in Nat :
        Earlier(s, pulled[y].task) /\ In(a, j, s)
        => a \in Beyond(Exit(pulled[y].at)) /\ a # Exit(pulled[y].at)
OutInLine ==
    \A x, y \in DOMAIN pulled :
        pulled[x].at = pulled[y].at /\ Earlier(pulled[x].task, pulled[y].task) => x < y

\* Where tasks went in and came out there is a ring still.
Doors ==
    /\ \A u \in Sent : Entry(pushed[u]) \in RingId /\ Holds(pushed[u], "i", 1, Entry(pushed[u]))
    /\ \A x \in DOMAIN pulled :
          Exit(pulled[x].at) \in RingId /\ Holds(pulled[x].at, "o", 1, Exit(pulled[x].at))

Lines == OnePlace /\ OneExit /\ NotBoth /\ Somewhere /\ OnWay /\ InLine /\ LeftInLine /\ OutInLine

LEMMA EmptyRing == ASSUME NEW size \in Nat PROVE Inside(NewRing(size)) = <<>>
<1> DEFINE r == NewRing(size)
<1>1. r.send = 0 /\ r.recv = 0 /\ r.overflow = <<>> /\ r.idx = 0
  BY DEF NewRing
<1>2. Available(r) = 0
  BY <1>1 DEF Available
<1> HIDE DEF r
<1>3. [i \in 1..Available(r) |-> r.slot[(r.recv + i - 1) % r.size]] = <<>>
  BY <1>2
<1>4. SubSeq(r.overflow, r.idx + 1, Len(r.overflow)) = <<>>
  BY <1>1
<1>5. Inside(r) = <<>> \o <<>>
  BY <1>3, <1>4 DEF Inside
<1> QED BY <1>5 DEF r

\* A task joins a ring.
LEMMA Joined ==
    ASSUME Known, NEW r \in RingId, NEW t \in Nat,
           \A q \in RingId : Inside(ring'[q]) = IF q = r THEN Append(Inside(ring[q]), t)
                                                ELSE Inside(ring[q])
    PROVE  /\ Len(Inside(ring[r])) \in Nat
           /\ \A k \in Nat, u \in Nat : In(r, k, u) => k <= Len(Inside(ring[r]))
           /\ \A q \in RingId, k \in Nat, u \in Nat :
                 In(q, k, u)' <=> In(q, k, u) \/ (q = r /\ k = Len(Inside(ring[r])) + 1 /\ u = t)
<1>1. Inside(ring[r]) \in Seq(Sent)
  BY DEF Known
<1>2. Len(Inside(ring[r])) \in Nat /\ \A k \in Nat, u \in Nat : In(r, k, u) => k <= Len(Inside(ring[r]))
  BY <1>1 DEF In
<1>3. ASSUME NEW q \in RingId, NEW k \in Nat, NEW u \in Nat
      PROVE  In(q, k, u)' <=> In(q, k, u) \/ (q = r /\ k = Len(Inside(ring[r])) + 1 /\ u = t)
  <2>1. CASE q = r
    <3> DEFINE s == Inside(ring[r])
    <3>1. Inside(ring'[q]) = Append(s, t)
      BY <2>1
    <3> HIDE DEF s
    <3>2. s \in Seq(Sent) /\ t \in Sent \cup {t}
      BY <1>1 DEF s
    <3>3. DOMAIN Append(s, t) = 1..(Len(s) + 1) /\ DOMAIN s = 1..Len(s) /\ Len(s) \in Nat
          /\ Append(s, t)[Len(s) + 1] = t /\ \A l \in 1..Len(s) : Append(s, t)[l] = s[l]
      BY <3>2
    <3> QED BY <2>1, <3>1, <3>3 DEF In, s
  <2>2. CASE q # r
    BY <2>2 DEF In
  <2> QED BY <2>1, <2>2
<1> QED BY <1>2, <1>3

\* The first task leaves a ring.
LEMMA Taken ==
    ASSUME Known, NEW r \in RingId, Inside(ring[r]) # <<>>,
           \A q \in RingId : Inside(ring'[q]) = IF q = r THEN Tail(Inside(ring[q]))
                                                ELSE Inside(ring[q])
    PROVE  /\ Head(Inside(ring[r])) \in Sent /\ In(r, 1, Head(Inside(ring[r])))
           /\ \A q \in RingId, k \in Nat, u \in Nat :
                 In(q, k, u)' <=> IF q = r THEN k # 0 /\ In(r, k + 1, u) ELSE In(q, k, u)
<1> DEFINE s == Inside(ring[r])
<1>1. s \in Seq(Sent) /\ s # <<>>
  BY DEF Known
<1> HIDE DEF s
<1>2. /\ Len(s) \in Nat \ {0} /\ DOMAIN s = 1..Len(s) /\ Head(s) = s[1]
      /\ DOMAIN Tail(s) = 1..(Len(s) - 1) /\ \A l \in 1..(Len(s) - 1) : Tail(s)[l] = s[l + 1]
  BY <1>1
<1>3. Head(s) \in Sent
  BY <1>1, <1>2
<1>4. In(r, 1, Head(s))
  BY <1>2 DEF In, s
<1>5. ASSUME NEW q \in RingId, NEW k \in Nat, NEW u \in Nat
      PROVE  In(q, k, u)' <=> IF q = r THEN k # 0 /\ In(r, k + 1, u) ELSE In(q, k, u)
  <2>1. CASE q = r
    <3>1. Inside(ring'[q]) = Tail(s)
      BY <2>1 DEF s
    <3> QED BY <1>2, <2>1, <3>1 DEF In, s
  <2>2. CASE q # r
    BY <2>2 DEF In
  <2> QED BY <2>1, <2>2
<1> QED BY <1>3, <1>4, <1>5 DEF s

\* The first task of a ring moves to another one.
LEMMA Hopped ==
    ASSUME Known, NEW i \in RingId, NEW o \in RingId, i # o, Inside(ring[i]) # <<>>,
           \A q \in RingId : Inside(ring'[q]) =
               IF q = i THEN Tail(Inside(ring[i]))
               ELSE IF q = o THEN Append(Inside(ring[o]), Head(Inside(ring[i])))
               ELSE Inside(ring[q])
    PROVE  /\ Head(Inside(ring[i])) \in Sent /\ In(i, 1, Head(Inside(ring[i])))
           /\ Len(Inside(ring[o])) \in Nat
           /\ \A k \in Nat, u \in Nat : In(o, k, u) => k <= Len(Inside(ring[o]))
           /\ \A q \in RingId, k \in Nat, u \in Nat :
                 In(q, k, u)' <=>
                    \/ q = i /\ k # 0 /\ In(i, k + 1, u)
                    \/ q # i /\ In(q, k, u)
                    \/ q = o /\ k = Len(Inside(ring[o])) + 1 /\ u = Head(Inside(ring[i]))
<1> DEFINE s == Inside(ring[i])
           z == Inside(ring[o])
<1>1. s \in Seq(Sent) /\ s # <<>> /\ z \in Seq(Sent)
  BY DEF Known
<1> HIDE DEF s, z
<1>2. /\ Len(s) \in Nat \ {0} /\ DOMAIN s = 1..Len(s) /\ Head(s) = s[1]
      /\ DOMAIN Tail(s) = 1..(Len(s) - 1) /\ \A l \in 1..(Len(s) - 1) : Tail(s)[l] = s[l + 1]
  BY <1>1
<1>3. Head(s) \in Sent
  BY <1>1, <1>2
<1>4. In(i, 1, Head(s))
  BY <1>2 DEF In, s
<1>5. /\ DOMAIN Append(z, Head(s)) = 1..(Len(z) + 1) /\ DOMAIN z = 1..Len(z) /\ Len(z) \in Nat
      /\ Append(z, Head(s))[Len(z) + 1] = Head(s)
      /\ \A l \in 1..Len(z) : Append(z, Head(s))[l] = z[l]
  BY <1>1, <1>3
<1>6. \A k \in Nat, u \in Nat : In(o, k, u) => k <= Len(z)
  BY <1>5 DEF In, z
<1>7. ASSUME NEW q \in RingId, NEW k \in Nat, NEW u \in Nat
      PROVE  In(q, k, u)' <=> \/ q = i /\ k # 0 /\ In(i, k + 1, u)
                              \/ q # i /\ In(q, k, u)
                              \/ q = o /\ k = Len(z) + 1 /\ u = Head(s)
  <2>1. CASE q = i
    <3>1. Inside(ring'[q]) = Tail(s)
      BY <2>1 DEF s
    <3> QED BY <1>2, <2>1, <3>1 DEF In, s
  <2>2. CASE q = o
    <3>1. Inside(ring'[q]) = Append(z, Head(s))
      BY <2>2 DEF s, z
    <3> QED BY <1>5, <2>2, <3>1 DEF In, z
  <2>3. CASE q # i /\ q # o
    BY <2>3 DEF In
  <2> QED BY <2>1, <2>2, <2>3
<1> QED BY <1>3, <1>4, <1>5, <1>6, <1>7 DEF s, z

-----------------------------------------------------------------------------
(* The places of the tasks, step by step                                   *)

LEMMA OutSent ==
    ASSUME Known
    PROVE  /\ DOMAIN pulled = 1..Len(pulled) /\ Len(pulled) \in Nat
           /\ \A x \in DOMAIN pulled : pulled[x].task \in Sent /\ pulled[x].at \in Node
<1> DEFINE V == [task : Sent, at : Node]
<1>1. pulled \in Seq(V)
  BY DEF Known
<1>2. \A v \in V : v.task \in Sent /\ v.at \in Node
  OBVIOUS
<1> HIDE DEF V
<1> QED BY <1>1, <1>2

\* Before the first task is pushed.
NothingYet == pushed = <<>> /\ pulled = <<>> /\ \A q \in RingId : Inside(ring[q]) = <<>>

LEMMA NothingYetLines == NothingYet => Known /\ Lines /\ Doors
<1> SUFFICES ASSUME NothingYet PROVE Known /\ Lines /\ Doors
  OBVIOUS
<1>1. Known
  <2>1. \A V : <<>> \in Seq(V)
    OBVIOUS
  <2>2. Len(<<>>) = 0 /\ Tasks \in Nat
    BY PipelineAssumption
  <2>3. Len(pushed) <= Tasks
    BY <2>2 DEF NothingYet
  <2> QED BY <2>1, <2>3 DEF Known, NothingYet
<1>2. Sent = {} /\ DOMAIN pulled = {}
  BY DEF Sent, NothingYet
<1>3. OnePlace /\ OneExit /\ NotBoth /\ Somewhere
  BY <1>2 DEF OnePlace, OneExit, NotBoth, Somewhere
<1>4. OnWay /\ InLine /\ LeftInLine /\ OutInLine
  BY <1>2 DEF OnWay, InLine, LeftInLine, OutInLine
<1>5. Doors
  BY <1>2 DEF Doors
<1> QED BY <1>1, <1>3, <1>4, <1>5 DEF Lines

LEMMA EmptyKept == NothingYet' => Known' /\ Lines' /\ Doors'
BY NothingYetLines, PTL

\* A step that leaves the doors where they are.
LEMMA DoorsStay ==
    ASSUME Known, Doors, Grown, UNCHANGED <<pushed, pulled>>
    PROVE  /\ Doors'
           /\ \A u \in Sent : Entry(pushed[u])' = Entry(pushed[u])
           /\ \A x \in DOMAIN pulled : Exit(pulled[x].at)' = Exit(pulled[x].at)
<1>1. Sent' = Sent
  BY DEF Sent
<1>2. ASSUME NEW u \in Sent
      PROVE  /\ Entry(pushed[u])' = Entry(pushed[u]) /\ Entry(pushed[u]) \in RingId
             /\ Holds(pushed[u], "i", 1, Entry(pushed[u]))'
  <2> DEFINE n == pushed[u]
             e == Entry(n)
  <2>1. n \in Node
    <3>1. pushed \in Seq(Node)
      BY DEF Known
    <3> QED BY <3>1 DEF Sent
  <2>2. e \in RingId /\ Holds(n, "i", 1, e)
    BY DEF Doors
  <2>n. n' = n
    OBVIOUS
  <2>3. 1 \in DOMAIN pads'[n].i /\ pads'[n].i[1] = e
    <3> HIDE DEF n, e
    <3> QED BY <2>1, <2>2 DEF Grown, Sides, Holds
  <2>4. Entry(n)' = e
    BY <2>3 DEF Entry
  <2> QED BY <2>2, <2>3, <2>4 DEF Holds
<1>3. ASSUME NEW x \in DOMAIN pulled
      PROVE  /\ Exit(pulled[x].at)' = Exit(pulled[x].at) /\ Exit(pulled[x].at) \in RingId
             /\ Holds(pulled[x].at, "o", 1, Exit(pulled[x].at))'
  <2> DEFINE n == pulled[x].at
             e == Exit(n)
  <2>1. n \in Node
    BY OutSent
  <2>2. e \in RingId /\ Holds(n, "o", 1, e)
    BY DEF Doors
  <2>3. 1 \in DOMAIN pads'[n].o /\ pads'[n].o[1] = e
    <3> HIDE DEF n, e
    <3> QED BY <2>1, <2>2 DEF Grown, Sides, Holds
  <2>4. Exit(n)' = e
    BY <2>3 DEF Exit
  <2> QED BY <2>2, <2>3, <2>4 DEF Holds
<1> QED BY <1>1, <1>2, <1>3 DEF Doors

\* A step that moves no task and takes no ring off a pad.
LEMMA StillKept ==
    ASSUME Known, Lines, Doors, Grown, UNCHANGED <<pushed, pulled>>,
           \A q \in RingId : Inside(ring'[q]) = Inside(ring[q])
                             /\ (Inside(ring[q]) # <<>> /\ Made(q) => Made(q)')
    PROVE  Known' /\ Lines' /\ Doors'
<1>1. Known'
  BY DEF Known, Sent
<1>2. \A q \in RingId, k \in Nat, u \in Nat : In(q, k, u)' <=> In(q, k, u)
  BY DEF In
<1>3. Sent' = Sent /\ Sent \subseteq Nat
  BY DEF Sent
<1>4. \A r : Beyond(r) \subseteq Beyond(r)'
  BY BeyondGrows
<1>5. /\ Doors'
      /\ \A u \in Sent : Entry(pushed[u])' = Entry(pushed[u])
      /\ \A x \in DOMAIN pulled : Exit(pulled[x].at)' = Exit(pulled[x].at)
  BY DoorsStay
<1>6. \A s, t : Earlier(s, t)' <=> Earlier(s, t)
  BY DEF Earlier
<1>7. \A x \in DOMAIN pulled : pulled[x].task \in Sent
  BY OutSent
<1>8. OnePlace' /\ OneExit' /\ NotBoth' /\ Somewhere'
  <2>1. OnePlace'
    BY <1>2, <1>3 DEF Lines, OnePlace
  <2>2. OneExit' /\ NotBoth'
    BY <1>2, <1>3, <1>7 DEF Lines, OneExit, NotBoth
  <2>3. Somewhere'
    BY <1>2, <1>3 DEF Lines, Somewhere
  <2> QED BY <2>1, <2>2, <2>3
<1>9. OnWay' /\ InLine'
  <2>1. OnWay'
    BY <1>2, <1>3, <1>4, <1>5 DEF Lines, OnWay
  <2>2. InLine'
    BY <1>2, <1>3, <1>4, <1>6 DEF Lines, InLine
  <2> QED BY <2>1, <2>2
<1>10. LeftInLine' /\ OutInLine'
  <2>1. LeftInLine'
    BY <1>2, <1>3, <1>4, <1>5, <1>6, <1>7 DEF Lines, LeftInLine
  <2>2. OutInLine'
    BY <1>6 DEF Lines, OutInLine
  <2> QED BY <2>1, <2>2
<1> QED BY <1>1, <1>5, <1>8, <1>9, <1>10 DEF Lines

LEMMA InSent == ASSUME Known, NEW q \in RingId, NEW k, NEW u, In(q, k, u) PROVE u \in Sent
<1>1. Inside(ring[q]) \in Seq(Sent)
  BY DEF Known
<1> QED BY <1>1 DEF In

\* task_push
LEMMA PushKept ==
    ASSUME Known, Lines, NEW n \in Node, NEW r \in RingId, r = Entry(n), Made(r),
           Len(pushed) < Tasks, pushed' = Append(pushed, n), UNCHANGED <<pads, pulled, life>>,
           \A q \in RingId : Inside(ring'[q]) = IF q = r THEN Append(Inside(ring[q]), Len(pushed) + 1)
                                                ELSE Inside(ring[q])
    PROVE  Known' /\ Lines'
<1>t. Len(pushed) \in Nat /\ Len(Inside(ring[r])) \in Nat
  BY DEF Known
<1>a. PICK t \in Nat : t = Len(pushed) + 1
  BY <1>t
<1>z. PICK z \in Nat : z = Len(Inside(ring[r])) + 1
  BY <1>t
<1>1. /\ Len(pushed) \in Nat /\ t \in Nat /\ t \notin Sent /\ Sent' = Sent \cup {t}
      /\ Sent \subseteq Nat /\ \A u \in Sent : u < t
      /\ pushed'[t] = n /\ \A u \in Sent : pushed'[u] = pushed[u]
  <2>1. pushed \in Seq(Node)
    BY DEF Known
  <2>2. Len(pushed) \in Nat /\ Len(pushed') = Len(pushed) + 1 /\ pushed' \in Seq(Node)
    BY <2>1
  <2>3. pushed'[t] = n /\ \A u \in Sent : pushed'[u] = pushed[u]
    BY <1>a, <2>1 DEF Sent
  <2> QED BY <1>a, <2>2, <2>3 DEF Sent
<1>2. /\ z \in Nat /\ \A k \in Nat, u \in Nat : In(r, k, u) => k < z
      /\ \A q \in RingId, k \in Nat, u \in Nat :
            In(q, k, u)' <=> In(q, k, u) \/ (q = r /\ k = z /\ u = t)
  <2>1. /\ Len(Inside(ring[r])) \in Nat
        /\ \A k \in Nat, u \in Nat : In(r, k, u) => k <= Len(Inside(ring[r]))
        /\ \A q \in RingId, k \in Nat, u \in Nat :
              In(q, k, u)' <=> In(q, k, u) \/ (q = r /\ k = z /\ u = t)
    BY <1>a, <1>z, Joined
  <2> QED BY <1>z, <2>1
<1>3. Known'
  <2>1. \A q \in RingId : Inside(ring[q]) \in Seq(Sent')
    <3>1. \A q \in RingId : Inside(ring[q]) \in Seq(Sent)
      BY DEF Known
    <3>2. Seq(Sent) \subseteq Seq(Sent')
      BY <1>1
    <3> QED BY <3>1, <3>2
  <2>2. Append(Inside(ring[r]), t) \in Seq(Sent')
    <3>1. t \in Sent'
      BY <1>1
    <3> QED BY <2>1, <3>1
  <2>3. \A q \in RingId : Inside(ring'[q]) \in Seq(Sent')
    BY <1>a, <2>1, <2>2
  <2>4. \A q \in RingId : Inside(ring'[q]) # <<>> => Made(q)'
    <3>1. \A q \in RingId : Made(q)' <=> Made(q)
      BY DEF Made
    <3> QED BY <3>1 DEF Known
  <2>5. pushed' \in Seq(Node) /\ Len(pushed') <= Tasks
    <3>1. pushed \in Seq(Node) /\ Tasks \in Nat
      BY PipelineAssumption DEF Known
    <3> QED BY <3>1
  <2>6. pulled' \in Seq([task : Sent', at : Node])
    <3> DEFINE A == [task : Sent, at : Node]
               B == [task : Sent', at : Node]
    <3>1. A \subseteq B
      BY <1>1
    <3> HIDE DEF A, B
    <3>2. Seq(A) \subseteq Seq(B)
      BY <3>1
    <3>3. pulled \in Seq(A)
      BY DEF Known, A
    <3> QED BY <3>2, <3>3 DEF B
  <2> QED BY <2>3, <2>4, <2>5, <2>6 DEF Known
<1>4. /\ \A q \in RingId, k \in Nat, u \in Nat : In(q, k, u) => u \in Sent
      /\ \A x \in DOMAIN pulled : pulled[x].task \in Sent
      /\ pulled' = pulled
  BY InSent, OutSent
<1>5. \A q : Beyond(q)' = Beyond(q)
  BY BeyondStays
<1>6. \A m : Entry(m)' = Entry(m) /\ Exit(m)' = Exit(m)
  BY DEF Entry, Exit
<1>7. \A s \in Sent', u \in Sent : Earlier(s, u)' => s \in Sent /\ Earlier(s, u)
  <2> SUFFICES ASSUME NEW s \in Sent', NEW u \in Sent, s < u, pushed'[s] = pushed'[u]
               PROVE  s \in Sent /\ pushed[s] = pushed[u]
    BY DEF Earlier
  <2>1. s # t
    BY <1>1
  <2> QED BY <1>1, <2>1
<1>8. OnePlace' /\ OneExit' /\ NotBoth'
  <2>0. OnePlace /\ OneExit /\ NotBoth
    BY DEF Lines
  <2>1. OnePlace'
    BY <1>1, <1>2, <1>4, <2>0 DEF OnePlace
  <2>2. OneExit'
    BY <2>0 DEF OneExit
  <2>3. NotBoth'
    <3>1. ASSUME NEW x \in DOMAIN pulled, NEW q \in RingId, NEW k \in Nat PROVE ~In(q, k, pulled[x].task)'
      <4>1. PICK u \in Sent : u = pulled[x].task
        BY <1>4
      <4>2. ~In(q, k, u) /\ u # t /\ u \in Nat
        BY <1>1, <2>0, <4>1 DEF NotBoth
      <4>3. ~In(q, k, u)'
        BY <1>2, <4>2
      <4> QED BY <1>4, <4>1, <4>3
    <3> QED BY <1>4, <3>1 DEF NotBoth
  <2> QED BY <2>1, <2>2, <2>3
<1>9. Somewhere'
  <2>0. Somewhere
    BY DEF Lines
  <2>1. In(r, z, t)'
    BY <1>1, <1>2
  <2>2. ASSUME NEW u \in Sent
        PROVE  \/ \E q \in RingId : \E k \in Nat : In(q, k, u)'
               \/ \E x \in DOMAIN pulled : pulled[x].task = u
    BY <1>1, <1>2, <2>0 DEF Somewhere
  <2>3. ASSUME NEW u \in Sent'
        PROVE  \/ \E q \in RingId : \E k \in Nat : In(q, k, u)'
               \/ \E x \in DOMAIN pulled' : pulled'[x].task = u
    <3>1. CASE u = t
      BY <2>1, <3>1
    <3>2. CASE u # t
      BY <1>1, <1>4, <2>2, <3>2
    <3> QED BY <3>1, <3>2
  <2> QED BY <2>3 DEF Somewhere
<1>10. OnWay'
  <2>0. OnWay /\ r \in Beyond(Entry(n))
    BY BeyondSelf DEF Lines
  <2> SUFFICES ASSUME NEW q \in RingId, NEW k \in Nat, NEW u \in Sent', In(q, k, u)'
               PROVE  q \in Beyond(Entry(pushed'[u]))
    BY <1>5, <1>6 DEF OnWay
  <2>1. CASE u = t
    <3>1. ~In(q, k, t)
      BY <1>1, <1>4
    <3>2. q = r
      BY <1>2, <2>1, <3>1
    <3>3. pushed'[u] = n
      BY <1>1, <2>1
    <3> QED BY <2>0, <3>2, <3>3
  <2>2. CASE u # t
    <3>1. u \in Sent /\ In(q, k, u)
      BY <1>1, <1>2, <2>2
    <3> QED BY <1>1, <2>0, <3>1 DEF OnWay
  <2> QED BY <2>1, <2>2
<1>11. InLine'
  <2>0. InLine /\ OnWay
    BY DEF Lines
  <2> SUFFICES ASSUME NEW s \in Sent', NEW u \in Sent', NEW a \in RingId, NEW b \in RingId,
                      NEW j \in Nat, NEW k \in Nat, Earlier(s, u)', In(a, j, s)', In(b, k, u)'
               PROVE  a \in Beyond(b) /\ (a = b => j < k)
    BY <1>5 DEF InLine
  <2>1. CASE u = t
    <3>1. s < t /\ pushed'[s] = n
      BY <1>1, <2>1 DEF Earlier
    <3>2. s \in Sent /\ pushed[s] = n /\ In(a, j, s)
      <4>1. s # t
        BY <1>1, <3>1
      <4>2. s \in Sent /\ s \in Nat
        BY <1>1, <4>1
      <4> QED BY <1>1, <1>2, <3>1, <4>1, <4>2
    <3>3. b = r /\ k = z
      BY <1>1, <1>2, <1>4, <2>1
    <3>4. a \in Beyond(r)
      BY <2>0, <3>2 DEF OnWay
    <3>5. a = r => j < z
      BY <1>1, <1>2, <3>2
    <3> QED BY <3>3, <3>4, <3>5
  <2>2. CASE u # t
    <3>1. u \in Sent /\ s \in Sent /\ Earlier(s, u)
      BY <1>1, <1>7, <2>2
    <3>2. In(a, j, s) /\ In(b, k, u)
      BY <1>1, <1>2, <3>1
    <3> QED BY <2>0, <3>1, <3>2 DEF InLine
  <2> QED BY <2>1, <2>2
<1>12. LeftInLine' /\ OutInLine'
  <2>0. LeftInLine /\ OutInLine
    BY DEF Lines
  <2>1. LeftInLine'
    <3> SUFFICES ASSUME NEW s \in Sent', NEW y \in DOMAIN pulled, NEW a \in RingId, NEW j \in Nat,
                        Earlier(s, pulled[y].task)', In(a, j, s)'
                 PROVE  a \in Beyond(Exit(pulled[y].at)) /\ a # Exit(pulled[y].at)
      BY <1>5, <1>6 DEF LeftInLine
    <3>1. s \in Sent /\ Earlier(s, pulled[y].task)
      BY <1>4, <1>7
    <3>2. In(a, j, s)
      BY <1>1, <1>2, <3>1
    <3> QED BY <2>0, <3>1, <3>2 DEF LeftInLine
  <2>2. OutInLine'
    BY <1>1, <1>4, <1>7, <2>0 DEF OutInLine
  <2> QED BY <2>1, <2>2
<1> QED BY <1>3, <1>8, <1>9, <1>10, <1>11, <1>12 DEF Lines

\* task_pull
LEMMA PullKept ==
    ASSUME Known, Lines, NEW n \in Node, NEW r \in RingId, r = Exit(n), Inside(ring[r]) # <<>>,
           pulled' = Append(pulled, [task |-> Head(Inside(ring[r])), at |-> n]),
           UNCHANGED <<pads, pushed, life>>,
           \A q \in RingId : Inside(ring'[q]) = IF q = r THEN Tail(Inside(ring[q]))
                                                ELSE Inside(ring[q])
    PROVE  Known' /\ Lines'
<1>h. PICK h \in Sent : h = Head(Inside(ring[r])) /\ In(r, 1, h)
  BY Taken
<1>l. PICK l \in Nat : l = Len(pulled) + 1
  BY OutSent
<1>1. /\ Sent' = Sent /\ Sent \subseteq Nat /\ h \in Nat
      /\ DOMAIN pulled' = DOMAIN pulled \cup {l} /\ l \notin DOMAIN pulled
      /\ DOMAIN pulled \subseteq Nat /\ \A x \in DOMAIN pulled : x < l
  <2>1. pulled \in Seq([task : Sent, at : Node])
    BY DEF Known
  <2>2. DOMAIN pulled = 1..Len(pulled) /\ DOMAIN pulled' = 1..(Len(pulled) + 1) /\ Len(pulled) \in Nat
    BY <2>1
  <2> QED BY <1>l, <2>2 DEF Sent
<1>2. /\ pulled'[l].task = h /\ pulled'[l].at = n
      /\ \A x \in DOMAIN pulled : pulled'[x] = pulled[x]
  <2>1. pulled \in Seq([task : Sent, at : Node]) /\ pulled' = Append(pulled, [task |-> h, at |-> n])
    BY <1>h DEF Known
  <2>2. pulled'[l] = [task |-> h, at |-> n] /\ \A x \in DOMAIN pulled : pulled'[x] = pulled[x]
    BY <1>l, <2>1
  <2>3. [task |-> h, at |-> n].task = h /\ [task |-> h, at |-> n].at = n
    OBVIOUS
  <2>4. pulled'[l].task = h /\ pulled'[l].at = n
    BY <2>2, <2>3, Zenon
  <2> QED BY <2>2, <2>4
<1>3. \A q \in RingId, k \in Nat, u \in Nat :
         In(q, k, u)' <=> IF q = r THEN k # 0 /\ In(r, k + 1, u) ELSE In(q, k, u)
  BY Taken
<1>4. \A q \in RingId, k \in Nat, u \in Nat : In(q, k, u) => u \in Sent /\ k # 0
  <2> SUFFICES ASSUME NEW q \in RingId, NEW k \in Nat, NEW u \in Nat, In(q, k, u) PROVE k # 0
    BY InSent
  <2>1. Inside(ring[q]) \in Seq(Sent)
    BY DEF Known
  <2> QED BY <2>1 DEF In
<1>5. /\ \A q : Beyond(q)' = Beyond(q)
      /\ \A m : Entry(m)' = Entry(m) /\ Exit(m)' = Exit(m)
      /\ \A s, u : Earlier(s, u)' <=> Earlier(s, u)
  BY BeyondStays DEF Entry, Exit, Earlier
<1>6. \A x \in DOMAIN pulled : pulled[x].task \in Sent
  BY OutSent
<1>7. OnePlace /\ OneExit /\ NotBoth /\ Somewhere /\ OnWay /\ InLine /\ LeftInLine /\ OutInLine
  BY DEF Lines
\* What is still in a ring was there.
<1>8. ASSUME NEW q \in RingId, NEW k \in Nat, NEW u \in Nat, In(q, k, u)'
      PROVE  /\ u \in Sent /\ u # h
             /\ \E j \in Nat : In(q, j, u) /\ j = (IF q = r THEN k + 1 ELSE k)
  <2>1. PICK j \in Nat : In(q, j, u) /\ j = (IF q = r THEN k + 1 ELSE k) /\ (q = r => k # 0)
    BY <1>3, <1>8
  <2>2. u \in Sent
    BY <1>4, <2>1
  <2>3. u # h
    <3> SUFFICES ASSUME u = h PROVE FALSE
      OBVIOUS
    <3>1. q = r /\ j = 1
      BY <1>7, <1>h, <2>1, <2>2 DEF OnePlace
    <3> QED BY <2>1, <3>1
  <2> QED BY <2>1, <2>2, <2>3
<1>9. Known'
  <2>1. \A q \in RingId : Inside(ring'[q]) \in Seq(Sent)
    <3>1. \A q \in RingId : Inside(ring[q]) \in Seq(Sent)
      BY DEF Known
    <3>2. Tail(Inside(ring[r])) \in Seq(Sent)
      BY <3>1
    <3> QED BY <3>1, <3>2
  <2>2. \A q \in RingId : Inside(ring'[q]) # <<>> => Made(q)'
    <3>1. \A q \in RingId : (Made(q)' <=> Made(q)) /\ (Inside(ring[q]) # <<>> => Made(q))
      BY DEF Made, Known
    <3> QED BY <3>1
  <2>3. pulled' \in Seq([task : Sent, at : Node])
    <3>1. pulled \in Seq([task : Sent, at : Node]) /\ [task |-> h, at |-> n] \in [task : Sent, at : Node]
      BY DEF Known
    <3>2. pulled' = Append(pulled, [task |-> h, at |-> n])
      BY <1>h
    <3> DEFINE V == [task : Sent, at : Node]
               e == [task |-> h, at |-> n]
    <3> HIDE DEF V, e
    <3>3. Append(pulled, e) \in Seq(V)
      BY <3>1 DEF V, e
    <3> QED BY <3>2, <3>3 DEF V, e
  <2> QED BY <1>1, <2>1, <2>2, <2>3 DEF Known
<1>10. OnePlace'
  <2> SUFFICES ASSUME NEW q \in RingId, NEW p \in RingId, NEW k \in Nat, NEW j \in Nat, NEW u \in Sent,
                      In(q, k, u)', In(p, j, u)'
               PROVE  q = p /\ k = j
    BY <1>1 DEF OnePlace
  <2>1. PICK a \in Nat : In(q, a, u) /\ a = (IF q = r THEN k + 1 ELSE k)
    BY <1>1, <1>8
  <2>2. PICK b \in Nat : In(p, b, u) /\ b = (IF p = r THEN j + 1 ELSE j)
    BY <1>1, <1>8
  <2>3. q = p /\ a = b
    BY <1>7, <2>1, <2>2 DEF OnePlace
  <2> QED BY <2>1, <2>2, <2>3
<1>11. OneExit'
  <2> SUFFICES ASSUME NEW x \in DOMAIN pulled, pulled[x].task = h PROVE FALSE
    BY <1>1, <1>2, <1>7 DEF OneExit
  <2> QED BY <1>7, <1>h DEF NotBoth
<1>12. NotBoth'
  <2>1. ASSUME NEW x \in DOMAIN pulled', NEW q \in RingId, NEW k \in Nat, NEW u \in Sent,
               u = pulled'[x].task, In(q, k, u)'
        PROVE  FALSE
    <3>1. u # h /\ \E j \in Nat : In(q, j, u)
      BY <1>1, <1>8, <2>1
    <3>2. x \in DOMAIN pulled /\ u = pulled[x].task
      BY <1>1, <1>2, <2>1, <3>1
    <3> QED BY <1>7, <3>1, <3>2 DEF NotBoth
  <2>2. \A x \in DOMAIN pulled' : pulled'[x].task \in Sent
    BY <1>1, <1>2, <1>6
  <2>3. ASSUME NEW x \in DOMAIN pulled', NEW q \in RingId, NEW k \in Nat PROVE ~In(q, k, pulled[x].task)'
    <3>1. PICK u \in Sent : u = pulled'[x].task
      BY <2>2
    <3>2. ~In(q, k, u)'
      BY <2>1, <3>1
    <3> QED BY <3>1, <3>2
  <2> QED BY <2>3 DEF NotBoth
<1>13. Somewhere'
  <2>1. ASSUME NEW u \in Sent
        PROVE  \/ \E q \in RingId : \E k \in Nat : In(q, k, u)'
               \/ \E x \in DOMAIN pulled' : pulled'[x].task = u
    <3>1. CASE u = h
      BY <1>1, <1>2, <3>1
    <3>2. CASE \E x \in DOMAIN pulled : pulled[x].task = u
      BY <1>1, <1>2, <3>2
    <3>3. CASE u # h /\ \E q \in RingId : \E k \in Nat : In(q, k, u)
      <4>1. PICK q \in RingId, k \in Nat : In(q, k, u)
        BY <3>3
      <4>2. k # 0
        BY <1>1, <1>4, <4>1
      <4>3. CASE q # r
        BY <1>1, <1>3, <4>1, <4>3
      <4>4. CASE q = r
        <5>1. k # 1
          BY <1>h, <3>3, <4>1, <4>4 DEF In
        <5>2. PICK j \in Nat : k = j + 1 /\ j # 0
          <6>1. k - 1 \in Nat /\ k = (k - 1) + 1 /\ k - 1 # 0
            BY <4>2, <5>1
          <6> QED BY <6>1
        <5>3. In(r, j, u)'
          BY <1>1, <1>3, <4>1, <4>4, <5>2
        <5> QED BY <5>3
      <4> QED BY <4>3, <4>4
    <3> QED BY <1>7, <3>1, <3>2, <3>3 DEF Somewhere
  <2> QED BY <1>1, <2>1 DEF Somewhere
<1>14. OnWay'
  <2> SUFFICES ASSUME NEW q \in RingId, NEW k \in Nat, NEW u \in Sent, In(q, k, u)'
               PROVE  q \in Beyond(Entry(pushed[u]))
    BY <1>1, <1>5 DEF OnWay
  <2> QED BY <1>1, <1>7, <1>8 DEF OnWay
<1>15. InLine'
  <2> SUFFICES ASSUME NEW s \in Sent, NEW u \in Sent, NEW a \in RingId, NEW b \in RingId,
                      NEW j \in Nat, NEW k \in Nat, Earlier(s, u), In(a, j, s)', In(b, k, u)'
               PROVE  a \in Beyond(b) /\ (a = b => j < k)
    BY <1>1, <1>5 DEF InLine
  <2>1. PICK f \in Nat : In(a, f, s) /\ f = (IF a = r THEN j + 1 ELSE j)
    BY <1>1, <1>8
  <2>2. PICK g \in Nat : In(b, g, u) /\ g = (IF b = r THEN k + 1 ELSE k)
    BY <1>1, <1>8
  <2>3. a \in Beyond(b) /\ (a = b => f < g)
    BY <1>7, <2>1, <2>2 DEF InLine
  <2> QED BY <2>1, <2>2, <2>3
<1>16. LeftInLine'
  <2> SUFFICES ASSUME NEW s \in Sent, NEW y \in DOMAIN pulled', NEW a \in RingId, NEW j \in Nat,
                      Earlier(s, pulled'[y].task), In(a, j, s)'
               PROVE  a \in Beyond(Exit(pulled'[y].at)) /\ a # Exit(pulled'[y].at)
    BY <1>1, <1>5 DEF LeftInLine
  <2>1. PICK f \in Nat : In(a, f, s) /\ f = (IF a = r THEN j + 1 ELSE j)
    BY <1>1, <1>8
  <2>2. CASE y = l
    <3>1. Earlier(s, h) /\ pulled'[y].at = n
      BY <1>2, <2>2
    <3>2. a \in Beyond(r) /\ (a = r => f < 1)
      BY <1>7, <1>h, <2>1, <3>1 DEF InLine
    <3>3. f # 0
      BY <1>1, <1>4, <2>1
    <3>4. a # r
      BY <3>2, <3>3
    <3> QED BY <3>1, <3>2, <3>4
  <2>3. CASE y # l
    <3>1. y \in DOMAIN pulled /\ pulled'[y] = pulled[y]
      BY <1>1, <1>2, <2>3
    <3> QED BY <1>7, <2>1, <3>1 DEF LeftInLine
  <2> QED BY <2>2, <2>3
<1>17. OutInLine'
  <2> SUFFICES ASSUME NEW x \in DOMAIN pulled', NEW y \in DOMAIN pulled',
                      pulled'[x].at = pulled'[y].at, Earlier(pulled'[x].task, pulled'[y].task)
               PROVE  x < y
    BY <1>5 DEF OutInLine
  <2>1. CASE x = l /\ y = l
    <3>1. Earlier(h, h)
      BY <1>2, <2>1
    <3> QED BY <1>1, <3>1 DEF Earlier
  <2>2. CASE x = l /\ y # l
    <3>1. y \in DOMAIN pulled /\ pulled[y].at = n /\ Earlier(h, pulled[y].task)
      BY <1>1, <1>2, <2>2
    <3>2. r # Exit(pulled[y].at)
      BY <1>7, <1>h, <3>1 DEF LeftInLine
    <3> QED BY <3>1, <3>2
  <2>3. CASE x # l /\ y = l
    BY <1>1, <2>3
  <2>4. CASE x # l /\ y # l
    BY <1>1, <1>2, <1>7, <2>4 DEF OutInLine
  <2> QED BY <2>1, <2>2, <2>3, <2>4
<1> QED BY <1>9, <1>10, <1>11, <1>12, <1>13, <1>14, <1>15, <1>16, <1>17 DEF Lines

\* fan_n1_mod_out
LEMMA FanKept ==
    ASSUME Known, Lines, OneEnd, BothEnds, NEW i \in RingId, NEW o \in RingId, Leads(i, o), Made(o),
           Inside(ring[i]) # <<>>, UNCHANGED <<pads, pushed, pulled, life>>,
           \A q \in RingId : Inside(ring'[q]) =
               IF q = i THEN Tail(Inside(ring[i]))
               ELSE IF q = o THEN Append(Inside(ring[o]), Head(Inside(ring[i])))
               ELSE Inside(ring[q])
    PROVE  Known' /\ Lines'
<1>0. i # o /\ i \notin Beyond(o)
  BY NeverBack, BeyondSelf
<1>h. PICK h \in Sent : h = Head(Inside(ring[i])) /\ In(i, 1, h)
  BY <1>0, Hopped
<1>z. PICK z \in Nat : z = Len(Inside(ring[o])) + 1
  BY <1>0, Hopped
<1>1. Sent' = Sent /\ Sent \subseteq Nat /\ h \in Nat
  BY DEF Sent
<1>2. \A k \in Nat, u \in Nat : In(o, k, u) => k < z
  <2>1. /\ Len(Inside(ring[o])) \in Nat
        /\ \A k \in Nat, u \in Nat : In(o, k, u) => k <= Len(Inside(ring[o]))
    BY <1>0, Hopped
  <2> QED BY <1>z, <2>1
<1>3. \A q \in RingId, k \in Nat, u \in Nat :
         In(q, k, u)' <=> \/ q = i /\ k # 0 /\ In(i, k + 1, u)
                          \/ q # i /\ In(q, k, u)
                          \/ q = o /\ k = z /\ u = h
  BY <1>0, <1>h, <1>z, Hopped
<1>4. \A q \in RingId, k \in Nat, u \in Nat : In(q, k, u) => u \in Sent /\ k # 0
  <2> SUFFICES ASSUME NEW q \in RingId, NEW k \in Nat, NEW u \in Nat, In(q, k, u) PROVE k # 0
    BY InSent
  <2>1. Inside(ring[q]) \in Seq(Sent)
    BY DEF Known
  <2> QED BY <2>1 DEF In
<1>5. /\ \A q : Beyond(q)' = Beyond(q)
      /\ \A m : Entry(m)' = Entry(m) /\ Exit(m)' = Exit(m)
      /\ \A s, u : Earlier(s, u)' <=> Earlier(s, u)
  BY BeyondStays DEF Entry, Exit, Earlier
<1>6. \A x \in DOMAIN pulled : pulled[x].task \in Sent
  BY OutSent
<1>7. OnePlace /\ OneExit /\ NotBoth /\ Somewhere /\ OnWay /\ InLine /\ LeftInLine /\ OutInLine
  BY DEF Lines
\* The task that moved is there; every other one is where it was.
<1>8. ASSUME NEW q \in RingId, NEW k \in Nat, NEW u \in Nat, In(q, k, u)'
      PROVE  /\ u \in Sent
             /\ u = h => q = o /\ k = z
             /\ u # h => \E j \in Nat : In(q, j, u) /\ j = (IF q = i THEN k + 1 ELSE k)
  <2>1. CASE u # h
    <3>1. PICK j \in Nat : In(q, j, u) /\ j = (IF q = i THEN k + 1 ELSE k)
      BY <1>3, <1>8, <2>1
    <3> QED BY <1>4, <2>1, <3>1
  <2>2. CASE u = h
    <3>1. ~(q = i /\ k # 0 /\ In(i, k + 1, u))
      <4> SUFFICES ASSUME k # 0, In(i, k + 1, h) PROVE FALSE
        BY <2>2
      <4>1. k + 1 = 1
        BY <1>7, <1>h DEF OnePlace
      <4> QED BY <4>1
    <3>2. ~(q # i /\ In(q, k, u))
      <4> SUFFICES ASSUME q # i, In(q, k, h) PROVE FALSE
        BY <2>2
      <4> QED BY <1>7, <1>h DEF OnePlace
    <3> QED BY <1>3, <1>8, <2>2, <3>1, <3>2
  <2> QED BY <2>1, <2>2
<1>9. Known'
  <2>1. \A q \in RingId : Inside(ring'[q]) \in Seq(Sent)
    <3>1. \A q \in RingId : Inside(ring[q]) \in Seq(Sent)
      BY DEF Known
    <3>2. Tail(Inside(ring[i])) \in Seq(Sent)
      BY <3>1
    <3>3. Append(Inside(ring[o]), Head(Inside(ring[i]))) \in Seq(Sent)
      BY <1>h, <3>1
    <3> QED BY <3>1, <3>2, <3>3
  <2>2. \A q \in RingId : Inside(ring'[q]) # <<>> => Made(q)'
    <3>1. \A q \in RingId : (Made(q)' <=> Made(q)) /\ (Inside(ring[q]) # <<>> => Made(q))
      BY DEF Made, Known
    <3> QED BY <3>1
  <2> QED BY <1>1, <2>1, <2>2 DEF Known
<1>10. OnePlace'
  <2> SUFFICES ASSUME NEW q \in RingId, NEW p \in RingId, NEW k \in Nat, NEW j \in Nat, NEW u \in Sent,
                      In(q, k, u)', In(p, j, u)'
               PROVE  q = p /\ k = j
    BY <1>1 DEF OnePlace
  <2>1. CASE u = h
    BY <1>1, <1>8, <2>1
  <2>2. CASE u # h
    <3>1. PICK a \in Nat : In(q, a, u) /\ a = (IF q = i THEN k + 1 ELSE k)
      BY <1>1, <1>8, <2>2
    <3>2. PICK b \in Nat : In(p, b, u) /\ b = (IF p = i THEN j + 1 ELSE j)
      BY <1>1, <1>8, <2>2
    <3>3. q = p /\ a = b
      BY <1>7, <3>1, <3>2 DEF OnePlace
    <3> QED BY <3>1, <3>2, <3>3
  <2> QED BY <2>1, <2>2
<1>11. OneExit' /\ OutInLine'
  BY <1>5, <1>7 DEF OneExit, OutInLine
<1>12. NotBoth'
  <2>1. ASSUME NEW x \in DOMAIN pulled, NEW q \in RingId, NEW k \in Nat, NEW u \in Sent,
               u = pulled[x].task, In(q, k, u)'
        PROVE  FALSE
    <3>1. \E p \in RingId : \E j \in Nat : In(p, j, u)
      BY <1>1, <1>8, <1>h, <2>1
    <3> QED BY <1>7, <2>1, <3>1 DEF NotBoth
  <2>2. ASSUME NEW x \in DOMAIN pulled, NEW q \in RingId, NEW k \in Nat PROVE ~In(q, k, pulled[x].task)'
    <3>1. PICK u \in Sent : u = pulled[x].task
      BY <1>6
    <3>2. ~In(q, k, u)'
      BY <2>1, <3>1
    <3> QED BY <3>1, <3>2
  <2> QED BY <2>2 DEF NotBoth
<1>13. Somewhere'
  <2>1. ASSUME NEW u \in Sent
        PROVE  \/ \E q \in RingId : \E k \in Nat : In(q, k, u)'
               \/ \E x \in DOMAIN pulled : pulled[x].task = u
    <3>1. CASE u = h
      <4>1. In(o, z, u)'
        BY <1>1, <1>3, <3>1
      <4> QED BY <4>1
    <3>2. CASE u # h /\ \E q \in RingId : \E k \in Nat : In(q, k, u)
      <4>1. PICK q \in RingId, k \in Nat : In(q, k, u)
        BY <3>2
      <4>2. k # 0
        BY <1>1, <1>4, <4>1
      <4>3. CASE q # i
        BY <1>1, <1>3, <4>1, <4>3
      <4>4. CASE q = i
        <5>1. k # 1
          BY <1>h, <3>2, <4>1, <4>4 DEF In
        <5>2. PICK j \in Nat : k = j + 1 /\ j # 0
          <6>1. k - 1 \in Nat /\ k = (k - 1) + 1 /\ k - 1 # 0
            BY <4>2, <5>1
          <6> QED BY <6>1
        <5>3. In(i, j, u)'
          BY <1>1, <1>3, <4>1, <4>4, <5>2
        <5> QED BY <5>3
      <4> QED BY <4>3, <4>4
    <3> QED BY <1>7, <3>1, <3>2 DEF Somewhere
  <2> QED BY <1>1, <2>1 DEF Somewhere
<1>14. OnWay'
  <2> SUFFICES ASSUME NEW q \in RingId, NEW k \in Nat, NEW u \in Sent, In(q, k, u)'
               PROVE  q \in Beyond(Entry(pushed[u]))
    BY <1>1, <1>5 DEF OnWay
  <2>1. CASE u = h
    <3>1. i \in Beyond(Entry(pushed[u]))
      BY <1>7, <1>h, <2>1 DEF OnWay
    <3>2. q = o
      BY <1>1, <1>8, <2>1
    <3> QED BY <3>1, <3>2, BeyondStep
  <2>2. CASE u # h
    BY <1>1, <1>7, <1>8, <2>2 DEF OnWay
  <2> QED BY <2>1, <2>2
<1>15. InLine'
  <2> SUFFICES ASSUME NEW s \in Sent, NEW u \in Sent, NEW a \in RingId, NEW b \in RingId,
                      NEW j \in Nat, NEW k \in Nat, Earlier(s, u), In(a, j, s)', In(b, k, u)'
               PROVE  a \in Beyond(b) /\ (a = b => j < k)
    BY <1>1, <1>5 DEF InLine
  <2>0. s # u
    BY <1>1 DEF Earlier
  <2>1. CASE s = h
    <3>1. a = o
      BY <1>1, <1>8, <2>1
    <3>2. PICK g \in Nat : In(b, g, u)
      BY <1>1, <1>8, <2>0, <2>1
    <3>3. i \in Beyond(b)
      BY <1>7, <1>h, <2>1, <3>2 DEF InLine
    <3>4. o \in Beyond(b)
      BY <3>3, BeyondStep
    <3> QED BY <1>0, <3>1, <3>3, <3>4
  <2>2. CASE u = h
    <3>1. b = o /\ k = z
      BY <1>1, <1>8, <2>2
    <3>2. PICK f \in Nat : In(a, f, s) /\ f = (IF a = i THEN j + 1 ELSE j)
      BY <1>1, <1>8, <2>0, <2>2
    <3>3. a \in Beyond(i) /\ (a = i => f < 1)
      BY <1>7, <1>h, <2>2, <3>2 DEF InLine
    <3>4. a # i
      BY <1>1, <1>4, <3>2, <3>3
    <3>5. a \in Beyond(o)
      BY <3>3, <3>4, BeyondNext
    <3>6. a = o => j < z
      BY <1>1, <1>2, <3>2, <3>4
    <3> QED BY <3>1, <3>5, <3>6
  <2>3. CASE s # h /\ u # h
    <3>1. PICK f \in Nat : In(a, f, s) /\ f = (IF a = i THEN j + 1 ELSE j)
      BY <1>1, <1>8, <2>3
    <3>2. PICK g \in Nat : In(b, g, u) /\ g = (IF b = i THEN k + 1 ELSE k)
      BY <1>1, <1>8, <2>3
    <3>3. a \in Beyond(b) /\ (a = b => f < g)
      BY <1>7, <3>1, <3>2 DEF InLine
    <3> QED BY <3>1, <3>2, <3>3
  <2> QED BY <2>1, <2>2, <2>3
<1>16. LeftInLine'
  <2> SUFFICES ASSUME NEW s \in Sent, NEW y \in DOMAIN pulled, NEW a \in RingId, NEW j \in Nat,
                      Earlier(s, pulled[y].task), In(a, j, s)'
               PROVE  a \in Beyond(Exit(pulled[y].at)) /\ a # Exit(pulled[y].at)
    BY <1>1, <1>5 DEF LeftInLine
  <2>1. CASE s = h
    <3>1. i \in Beyond(Exit(pulled[y].at))
      BY <1>7, <1>h, <2>1 DEF LeftInLine
    <3>2. a = o
      BY <1>1, <1>8, <2>1
    <3>3. o \in Beyond(Exit(pulled[y].at))
      BY <3>1, BeyondStep
    <3> QED BY <1>0, <3>1, <3>2, <3>3
  <2>2. CASE s # h
    <3>1. PICK f \in Nat : In(a, f, s)
      BY <1>1, <1>8, <2>2
    <3> QED BY <1>7, <3>1 DEF LeftInLine
  <2> QED BY <2>1, <2>2
<1> QED BY <1>9, <1>10, <1>11, <1>12, <1>13, <1>14, <1>15, <1>16 DEF Lines

LEMMA PushedInside ==
    ASSUME NEW x, WellFormed(x, Thing), x.size # 0, NEW t \in Thing
    PROVE  Inside(Pushed(Drained(x), t)) = Append(Inside(x), t)
<1>1. x.size > 0
  BY DEF WellFormed
<1> HIDE DEF Thing
<1>2. WellFormed(Drained(x), Thing) /\ Drained(x).size = x.size /\ Inside(Drained(x)) = Inside(x)
  BY <1>1, DrainedFormed, DrainKeeps
<1>3. Drained(x).size > 0
  BY <1>1, <1>2
<1> QED BY <1>2, <1>3, PushAppends

\* While the pipeline is built every ring is empty.
LEMMA BuildingEmpty ==
    ASSUME Known, pushed = <<>>
    PROVE  pulled = <<>> /\ \A q \in RingId : Inside(ring[q]) = <<>>
<1>1. Sent = {}
  BY DEF Sent
<1>2. \A q \in RingId : Inside(ring[q]) \in Seq({})
  BY <1>1 DEF Known
<1>3. [task : Sent, at : Node] = {}
  BY <1>1
<1>4. pulled \in Seq({})
  BY <1>3 DEF Known
<1>5. \A s \in Seq({}) : s = <<>>
  OBVIOUS
<1> QED BY <1>2, <1>4, <1>5

\* A pad more, on no ring.
LEMMA PadAddGrown ==
    ASSUME IInv, NEW n \in Node, NEW side \in Sides, PadAdd(n, side) PROVE Grown
<1>1. pads \in [Node -> [i : Seq(Pad), o : Seq(Pad)]]
  BY DEF IInv, Shape
<1>2. pads' = [pads EXCEPT ![n][side] = Append(@, Nothing)]
  BY DEF PadAdd
<1> SUFFICES ASSUME NEW m \in Node, NEW s \in Sides, NEW k \in Nat, NEW q \in RingId, Holds(m, s, k, q)
             PROVE  Holds(m, s, k, q)'
  BY DEF Grown
<1>3. CASE m = n /\ s = side
  <2>1. pads'[m][s] = Append(pads[m][s], Nothing)
    BY <1>1, <1>2, <1>3 DEF Sides
  <2>2. pads[m][s] \in Seq(Pad) /\ Nothing \in Pad
    BY <1>1 DEF Sides, Pad
  <2> QED BY <2>1, <2>2 DEF Holds
<1>4. CASE ~(m = n /\ s = side)
  <2>1. pads'[m][s] = pads[m][s]
    BY <1>1, <1>2, <1>4 DEF Sides
  <2> QED BY <2>1 DEF Holds
<1> QED BY <1>3, <1>4

\* A reset of pads that hold no ring.
LEMMA PadResetGrown ==
    ASSUME IInv, NEW n \in Node, PadReset(n), HeldBy(n) = {} PROVE Grown
<1>1. pads \in [Node -> [i : Seq(Pad), o : Seq(Pad)]]
  BY DEF IInv, Shape
<1>2. pads' = [pads EXCEPT ![n] = [i |-> <<>>, o |-> <<>>]]
  BY DEF PadReset
<1> SUFFICES ASSUME NEW m \in Node, NEW s \in Sides, NEW k \in Nat, NEW q \in RingId, Holds(m, s, k, q)
             PROVE  Holds(m, s, k, q)'
  BY DEF Grown
<1>3. m # n
  <2> SUFFICES ASSUME m = n PROVE FALSE
    OBVIOUS
  <2>1. q # Nothing
    BY PipelineAssumption DEF RingId
  <2>2. q \in HeldBy(n)
    BY <2>1 DEF HeldBy, Holds, Sides
  <2> QED BY <2>2
<1>4. pads'[m] = pads[m]
  BY <1>1, <1>2, <1>3
<1> QED BY <1>4 DEF Holds

\* An end of a node without pads.
LEMMA EpGrown ==
    ASSUME IInv, NEW n \in Node, NEW side \in Sides, NEW r, pads[n][side] = <<>>,
           pads' = [pads EXCEPT ![n][side] = <<r>>]
    PROVE  Grown
<1>1. pads \in [Node -> [i : Seq(Pad), o : Seq(Pad)]]
  BY DEF IInv, Shape
<1> SUFFICES ASSUME NEW m \in Node, NEW s \in Sides, NEW k \in Nat, NEW q \in RingId, Holds(m, s, k, q)
             PROVE  Holds(m, s, k, q)'
  BY DEF Grown
<1>2. ~(m = n /\ s = side)
  BY DEF Holds
<1>3. pads'[m][s] = pads[m][s]
  BY <1>1, <1>2 DEF Sides
<1> QED BY <1>3 DEF Holds

\* A link of two pads that hold no ring.
LEMMA LinkGrown ==
    ASSUME IInv, NEW n \in Node, NEW dst \in Node, NEW x, NEW y, NEW r,
           pads[n].o[x] = Nothing, pads[dst].i[y] = Nothing,
           pads' = [pads EXCEPT ![n].o[x] = r, ![dst].i[y] = r]
    PROVE  Grown
<1>1. pads \in [Node -> [i : Seq(Pad), o : Seq(Pad)]]
  BY DEF IInv, Shape
<1> DEFINE no == [pads[n].o EXCEPT ![x] = r]
           ni == [pads[dst].i EXCEPT ![y] = r]
           half == [pads EXCEPT ![n] = [@ EXCEPT !.o = no]]
           Pads == Seq(Pad) \cup {no, ni}
<1>2. /\ pads \in [Node -> [i : Pads, o : Pads]] /\ no \in Pads /\ ni \in Pads
  <2> HIDE DEF no, ni
  <2> QED BY <1>1
<1>3. /\ half \in [Node -> [i : Pads, o : Pads]]
      /\ \A m \in Node : /\ half[m].o = IF m = n THEN no ELSE pads[m].o
                         /\ half[m].i = pads[m].i
  <2> HIDE DEF no, Pads
  <2> QED BY <1>2
<1>a. pads' = [half EXCEPT ![dst] = [@ EXCEPT !.i = ni]]
  BY <1>2, <1>3
<1> HIDE DEF no, ni, half, Pads
<1>4. \A m \in Node : /\ pads'[m].o = IF m = n THEN no ELSE pads[m].o
                      /\ pads'[m].i = IF m = dst THEN ni ELSE pads[m].i
  <2> SUFFICES ASSUME NEW m \in Node
               PROVE  /\ pads'[m].o = IF m = n THEN no ELSE pads[m].o
                      /\ pads'[m].i = IF m = dst THEN ni ELSE pads[m].i
    OBVIOUS
  <2>1. pads'[m] = IF m = dst THEN [half[m] EXCEPT !.i = ni] ELSE half[m]
    BY <1>3, <1>a
  <2>2. half[m] \in [i : Pads, o : Pads]
    BY <1>3
  <2>3. pads'[m].o = half[m].o /\ pads'[m].i = IF m = dst THEN ni ELSE half[m].i
    BY <2>1, <2>2
  <2> QED BY <1>3, <2>3
<1> SUFFICES ASSUME NEW m \in Node, NEW s \in Sides, NEW k \in Nat, NEW q \in RingId, Holds(m, s, k, q)
             PROVE  Holds(m, s, k, q)'
  BY DEF Grown
<1>5. q # Nothing
  BY PipelineAssumption DEF RingId
<1>6. CASE s = "o" /\ m = n
  <2>1. k \in DOMAIN pads[n].o /\ pads[n].o[k] = q /\ pads'[m].o = no
    BY <1>4, <1>6 DEF Holds
  <2>2. k # x
    BY <1>5, <2>1
  <2>3. k \in DOMAIN no /\ no[k] = q
    BY <2>1, <2>2 DEF no
  <2> QED BY <1>6, <2>1, <2>3 DEF Holds
<1>7. CASE s = "i" /\ m = dst
  <2>1. k \in DOMAIN pads[dst].i /\ pads[dst].i[k] = q /\ pads'[m].i = ni
    BY <1>4, <1>7 DEF Holds
  <2>2. k # y
    BY <1>5, <2>1
  <2>3. k \in DOMAIN ni /\ ni[k] = q
    BY <2>1, <2>2 DEF ni
  <2> QED BY <1>7, <2>1, <2>3 DEF Holds
<1>8. CASE ~(s = "o" /\ m = n) /\ ~(s = "i" /\ m = dst)
  BY <1>4, <1>8 DEF Holds, Sides
<1> QED BY <1>6, <1>7, <1>8

\* A ring that was never made before holds nothing, before and after.
LEMMA FreshEmpty ==
    ASSUME RingsFormed, Known, NEW r \in RingId, ~Made(r), NEW size, IntArg(size),
           ring' = [ring EXCEPT ![r] = NewRing(Unsigned(size))]
    PROVE  \A q \in RingId : Inside(ring'[q]) = Inside(ring[q])
<1>1. ring' = [q \in RingId |-> IF q = r THEN NewRing(Unsigned(size)) ELSE ring[q]]
  BY Zenon DEF RingsFormed
<1>2. Inside(NewRing(Unsigned(size))) = <<>>
  <2>1. size \in Int
    BY DEF IntArg
  <2> QED BY <2>1, UnsignedNat, EmptyRing
<1>3. Inside(ring[r]) = <<>>
  BY DEF Known
<1> QED BY <1>1, <1>2, <1>3

\* Nothing undoes an undefined behaviour or a ring that was let go of.
LEMMA Onward == ASSUME [Next]_vars PROVE (relinked => relinked') /\ (Going' => Going)
<1>1. CASE UNCHANGED vars
  BY <1>1 DEF vars, hist, Going
<1>2. ASSUME NEW o \in Object, New(o) \/ Forget(o) PROVE relinked' = relinked /\ Going
  BY <1>2 DEF New, Forget, hist
<1>3. ASSUME NEW n \in Node, NEW side \in Sides, PadAdd(n, side) PROVE relinked' = relinked /\ Going
  BY <1>3 DEF PadAdd, Building
<1>4. ASSUME NEW n \in Node, NEW side \in Sides, NEW size \in Sizes, Ep(n, side, size)
      PROVE  relinked' = relinked /\ Going
  BY <1>4, Zenon DEF Ep, Building
<1>5. ASSUME NEW n \in Node, PadReset(n) PROVE (relinked => relinked') /\ Going
  BY <1>5, Zenon DEF PadReset, Building, LetGo
<1>6. ASSUME NEW n \in Node, NEW k \in Ints, FnSet(n, k) PROVE relinked' = relinked /\ Going
  BY <1>6 DEF FnSet, hist
<1>7. ASSUME NEW n \in Node, NEW dst \in Node, NEW i \in Ints, NEW j \in Ints, NEW size \in Sizes,
             Link(n, dst, i, j, size)
      PROVE  (relinked => relinked') /\ Going
  BY <1>7, Zenon DEF Link, Building, LetGo
<1>8. ASSUME NEW n \in Node, Running(n) PROVE relinked' = relinked /\ Going
  <2>1. Going
    BY <1>8, Zenon DEF Running, TaskPush, TaskPull, Race, Fan, DrainTorn
  <2> QED BY <1>8, <2>1, RunningStays
<1>9. CASE Start
  BY <1>9 DEF Start, hist
<1> QED BY <1>1, <1>2, <1>3, <1>4, <1>5, <1>6, <1>7, <1>8, <1>9 DEF Next, Sides, Running

LEMMA LinesStep ==
    ASSUME IInv, Domains, Known, Lines, Doors, [Next]_vars, ~relinked', Going'
    PROVE  Known' /\ Lines' /\ Doors'
<1>0. RingsFormed /\ Shape /\ OneEnd /\ BothEnds /\ HeldMade /\ gone = {}
  BY DEF IInv, Domains, Referenced
<1>f. ring = [q \in RingId |-> ring[q]] /\ \A q \in RingId : WellFormed(ring[q], Thing)
  BY <1>0 DEF RingsFormed
<1>g. ASSUME UNCHANGED pads PROVE Grown
  BY <1>g DEF Grown, Holds
<1>1. ASSUME UNCHANGED <<pads, ring, life, pushed, pulled>> PROVE Known' /\ Lines' /\ Doors'
  BY <1>1, <1>g, StillKept DEF Made
<1>b. ASSUME NEW what, what # "none", Break(what) PROVE FALSE
  BY <1>b DEF Break, Going
<1>2. ASSUME NEW o \in Object, New(o) \/ Forget(o) PROVE Known' /\ Lines' /\ Doors'
  BY <1>1, <1>2 DEF New, Forget, build, heap, hist, moved
<1>3. ASSUME NEW n \in Node, \/ \E side \in Sides : PadAdd(n, side)
                             \/ PadReset(n)
      PROVE  Known' /\ Lines' /\ Doors'
  <2>1. UNCHANGED <<ring, life, pushed, pulled>>
    BY <1>3 DEF PadAdd, PadReset, heap, moved
  <2>2. CASE pushed = <<>>
    <3>1. NothingYet'
      BY <2>1, <2>2, BuildingEmpty DEF NothingYet
    <3> QED BY <3>1, EmptyKept
  <2>3. CASE pushed # <<>>
    <3>1. Grown
      <4>1. CASE \E side \in Sides : PadAdd(n, side)
        BY <4>1, PadAddGrown
      <4>2. CASE PadReset(n)
        <5>1. HeldBy(n) \ {Nothing} = {}
          BY <2>3, <4>2, Zenon DEF PadReset, LetGo
        <5>2. HeldBy(n) = {}
          BY <5>1 DEF HeldBy
        <5> QED BY <4>2, <5>2, PadResetGrown
      <4> QED BY <1>3, <4>1, <4>2
    <3> QED BY <2>1, <3>1, StillKept DEF Made
  <2> QED BY <2>2, <2>3
<1>4. ASSUME NEW r \in RingId, ~Made(r), NEW size, IntArg(size),
             ring' = [ring EXCEPT ![r] = NewRing(Unsigned(size))],
             UNCHANGED <<pushed, pulled>>,
             pushed # <<>> => Grown /\ \A q \in RingId : Made(q) => Made(q)'
      PROVE  Known' /\ Lines' /\ Doors'
  <2>1. \A q \in RingId : Inside(ring'[q]) = Inside(ring[q])
    BY <1>0, <1>4, FreshEmpty
  <2>2. CASE pushed = <<>>
    <3>1. pulled = <<>> /\ \A q \in RingId : Inside(ring[q]) = <<>>
      BY <2>2, BuildingEmpty
    <3>2. NothingYet'
      BY <1>4, <2>1, <2>2, <3>1 DEF NothingYet
    <3> QED BY <3>2, EmptyKept
  <2>3. CASE pushed # <<>>
    BY <1>4, <2>1, <2>3, StillKept
  <2> QED BY <2>2, <2>3
<1>5. ASSUME NEW n \in Node, NEW side \in Sides, NEW size \in Sizes, Ep(n, side, size)
      PROVE  Known' /\ Lines' /\ Doors'
  <2>1. PICK r \in RingId : /\ life[r] = "unmade" /\ life' = [life EXCEPT ![r] = "made"]
                            /\ ring' = [ring EXCEPT ![r] = NewRing(Unsigned(size))]
                            /\ pads' = [pads EXCEPT ![n][side] = <<r>>]
    BY <1>5, Zenon DEF Ep, Fresh
  <2>2. IntArg(size) /\ pads[n][side] = <<>> /\ UNCHANGED <<pushed, pulled>>
    BY <1>5, Zenon DEF Ep, moved
  <2>3. Grown
    BY <2>1, <2>2, EpGrown
  <2>4. ~Made(r) /\ \A q \in RingId : Made(q) => Made(q)'
    BY <1>0, <2>1 DEF Made, Shape
  <2> QED BY <1>4, <2>1, <2>2, <2>3, <2>4
<1>6. ASSUME NEW n \in Node, NEW dst \in Node, NEW i \in Ints, NEW j \in Ints, NEW size \in Sizes,
             Link(n, dst, i, j, size)
      PROVE  Known' /\ Lines' /\ Doors'
  <2> DEFINE x == Unsigned(i) + 1
             y == Unsigned(j) + 1
             O == pads[n].o[x]
             I == pads[dst].i[y]
             left == Released(Released(ref_count, O), I)
  <2>1. PICK r \in RingId :
           /\ life[r] = "unmade" /\ LetGo({O, I})
           /\ life' = [q \in RingId |-> IF q = r THEN "made"
                                        ELSE IF q \in Freed(left, {O, I}) THEN "deleted" ELSE life[q]]
           /\ ring' = [ring EXCEPT ![r] = NewRing(Unsigned(size))]
           /\ pads' = [pads EXCEPT ![n].o[x] = r, ![dst].i[y] = r]
    <3>1. PICK r \in RingId, a \in {x}, b \in {y} :
             /\ Fresh(r)
             /\ LET there == pads[n].o[a]
                    here  == pads[dst].i[b]
                    rest  == Released(Released(ref_count, there), here)
                    freed == Freed(rest, {there, here})
                IN  /\ LetGo({there, here})
                    /\ ref_count' = [rest EXCEPT ![r] = 2]
                    /\ life' = [q \in RingId |-> IF q = r THEN "made"
                                                 ELSE IF q \in freed THEN "deleted" ELSE life[q]]
             /\ ring' = [ring EXCEPT ![r] = NewRing(Unsigned(size))]
             /\ pads' = [pads EXCEPT ![n].o[a] = r, ![dst].i[b] = r]
      BY <1>6, Zenon DEF Link
    <3>2. a = x /\ b = y
      OBVIOUS
    <3>3. life[r] = "unmade"
      BY <3>1 DEF Fresh
    <3> QED BY Zenon, <3>1, <3>2, <3>3
  <2>2. IntArg(size) /\ UNCHANGED <<pushed, pulled>>
    BY <1>6, Zenon DEF Link, moved
  <2> HIDE DEF x, y, left
  <2>3. ASSUME pushed # <<>> PROVE Grown /\ \A q \in RingId : Made(q) => Made(q)'
    <3>1. O = Nothing /\ I = Nothing
      BY <2>1, <2>3 DEF LetGo
    <3>2. Freed(left, {O, I}) = {}
      BY <3>1 DEF Freed
    <3>3. \A q \in RingId : Made(q) => Made(q)'
      BY <2>1, <3>2 DEF Made
    <3>4. Grown
      BY <2>1, <3>1, LinkGrown
    <3> QED BY <3>3, <3>4
  <2>4. ~Made(r)
    BY <2>1 DEF Made
  <2> QED BY <1>4, <2>1, <2>2, <2>3, <2>4
<1>7. ASSUME NEW n \in Node, NEW k \in Ints, FnSet(n, k) PROVE Known' /\ Lines' /\ Doors'
  BY <1>1, <1>7 DEF FnSet, heap, hist, moved
<1>8. ASSUME NEW n \in Node, TaskPush(n) PROVE Known' /\ Lines' /\ Doors'
  <2>1. Len(pushed) + 1 \in term /\ pads[n].i # <<>> /\ Entry(n) # Nothing /\ Len(pushed) < Tasks
    BY <1>8 DEF TaskPush, ClassArg, Entry
  <2>2. pads[n].i \in Seq(Pad)
    BY <1>0 DEF Shape
  <2>3. PICK r \in RingId : r = Entry(n)
    BY <2>1, <2>2 DEF Pad, Entry
  <2>4. PICK t \in Thing : t = Len(pushed) + 1
    BY <2>1 DEF IInv, Referenced, Thing
  <2>5. /\ Made(r) /\ ring[r].size # 0
        /\ ring' = [ring EXCEPT ![r] = Pushed(Drained(ring[r]), t)]
        /\ pushed' = Append(pushed, n) /\ UNCHANGED <<pads, life, pulled>>
    <3>1. \/ Break("deleted ring") \/ Break("ring of size 0")
          \/ /\ Made(r) /\ ring[r].size # 0
             /\ ring' = [ring EXCEPT ![r] = Pushed(Drained(ring[r]), t)]
             /\ pushed' = Append(pushed, n) /\ UNCHANGED <<build, heap, pulled>>
      BY <1>8, <2>3, <2>4, Zenon DEF TaskPush, Entry
    <3> QED BY <1>b, <3>1 DEF build, heap
  <2>6. Inside(Pushed(Drained(ring[r]), t)) = Append(Inside(ring[r]), t)
    BY <1>f, <2>5, PushedInside
  <2>7. ring' = [q \in RingId |-> IF q = r THEN Pushed(Drained(ring[r]), t) ELSE ring[q]]
    BY <1>f, <2>5, Zenon
  <2>8. \A q \in RingId : Inside(ring'[q]) = IF q = r THEN Append(Inside(ring[q]), Len(pushed) + 1)
                                             ELSE Inside(ring[q])
    BY <2>4, <2>6, <2>7
  <2>9. Known' /\ Lines'
    BY <2>1, <2>3, <2>5, <2>8, PushKept
  <2>10. Doors'
    <3>1. pushed \in Seq(Node) /\ Len(pushed) \in Nat
      BY DEF Known
    <3>2. \A u \in Sent' : pushed'[u] = n \/ (u \in Sent /\ pushed'[u] = pushed[u])
      BY <2>5, <3>1 DEF Sent
    <3>3. Holds(n, "i", 1, r)
      BY <2>1, <2>2, <2>3 DEF Holds, Entry
    <3>4. pads' = pads /\ pulled' = pulled
      BY <2>5
    <3>5. \A u \in Sent' : pads[pushed'[u]].i[1] \in RingId
                            /\ 1 \in DOMAIN pads[pushed'[u]].i
      BY <2>3, <3>2, <3>3 DEF Doors, Holds, Entry
    <3>6. \A z \in DOMAIN pulled : pads[pulled[z].at].o[1] \in RingId
                                   /\ 1 \in DOMAIN pads[pulled[z].at].o
      BY DEF Doors, Holds, Exit
    <3> QED BY <3>4, <3>5, <3>6 DEF Doors, Holds, Entry, Exit
  <2> QED BY <2>9, <2>10
<1>9. ASSUME NEW n \in Node, TaskPull(n) PROVE Known' /\ Lines' /\ Doors'
  <2>1. pads[n].o # <<>> /\ Exit(n) # Nothing
    BY <1>9 DEF TaskPull, Exit
  <2>2. pads[n].o \in Seq(Pad)
    BY <1>0 DEF Shape
  <2>3. PICK r \in RingId : r = Exit(n)
    BY <2>1, <2>2 DEF Pad, Exit
  <2>4. /\ CanPull(ring[r]) /\ ring' = [ring EXCEPT ![r] = Pulled(ring[r])]
        /\ pulled' = Append(pulled, [task |-> First(ring[r]), at |-> n])
        /\ UNCHANGED <<pads, life, pushed>>
    <3>1. \/ Break("deleted ring") \/ Break("deleted task")
          \/ /\ CanPull(ring[r]) /\ ring' = [ring EXCEPT ![r] = Pulled(ring[r])]
             /\ pulled' = Append(pulled, [task |-> First(ring[r]), at |-> n])
             /\ UNCHANGED <<build, heap, pushed>>
      BY <1>9, <2>3, Zenon DEF TaskPull, Exit
    <3> QED BY <1>b, <3>1 DEF build, heap
  <2>5. /\ Inside(ring[r]) # <<>> /\ First(ring[r]) = Head(Inside(ring[r]))
        /\ Inside(Pulled(ring[r])) = Tail(Inside(ring[r]))
    <3> HIDE DEF Thing
    <3> QED BY <1>f, <2>4, PullTakes
  <2>6. ring' = [q \in RingId |-> IF q = r THEN Pulled(ring[r]) ELSE ring[q]]
    BY <1>f, <2>4, Zenon
  <2>7. \A q \in RingId : Inside(ring'[q]) = IF q = r THEN Tail(Inside(ring[q])) ELSE Inside(ring[q])
    BY <2>5, <2>6
  <2>8. pulled' = Append(pulled, [task |-> Head(Inside(ring[r])), at |-> n])
    BY <2>4, <2>5
  <2>9. Known' /\ Lines'
    BY <2>3, <2>4, <2>5, <2>7, <2>8, PullKept
  <2>10. Doors'
    <3>1. DOMAIN pulled = 1..Len(pulled) /\ Len(pulled) \in Nat
      BY OutSent
    <3>2. pulled \in Seq([task : Sent, at : Node])
      BY DEF Known
    <3>3. \A z \in DOMAIN pulled' : \/ pulled'[z].at = n
                                    \/ z \in DOMAIN pulled /\ pulled'[z] = pulled[z]
      <4> DEFINE e == [task |-> Head(Inside(ring[r])), at |-> n]
                 R == [task : Sent, at : Node]
                 V == R \cup {e}
      <4>1. e.at = n /\ pulled' = Append(pulled, e)
        BY <2>8
      <4>2. pulled \in Seq(V) /\ e \in V
        <5>1. pulled \in Seq(R)
          BY <3>2
        <5> HIDE DEF e, R
        <5> QED BY <5>1
      <4> HIDE DEF e, V
      <4> QED BY <4>1, <4>2
    <3>4. pads' = pads /\ pushed' = pushed /\ Sent' = Sent
      BY <2>4 DEF Sent
    <3>5. pads[n].o[1] \in RingId /\ 1 \in DOMAIN pads[n].o
      BY <2>1, <2>2, <2>3 DEF Exit
    <3>6. \A z \in DOMAIN pulled' : pads[pulled'[z].at].o[1] \in RingId
                                    /\ 1 \in DOMAIN pads[pulled'[z].at].o
      BY <3>3, <3>5 DEF Doors, Holds, Exit
    <3>7. \A u \in Sent : pads[pushed[u]].i[1] \in RingId /\ 1 \in DOMAIN pads[pushed[u]].i
      BY DEF Doors, Holds, Entry
    <3> QED BY <3>4, <3>6, <3>7 DEF Doors, Holds, Entry, Exit
  <2> QED BY <2>9, <2>10
<1>10. ASSUME NEW n \in Node, NEW j \in 1..MaxPads[n].i, Fan(n, j) PROVE Known' /\ Lines' /\ Doors'
  <2>1. j \in DOMAIN pads[n].i /\ pads[n].o # <<>> /\ pads[n].o[1] # Nothing
    BY <1>10 DEF Fan
  <2>2. pads[n].i \in Seq(Pad) /\ pads[n].o \in Seq(Pad)
    BY <1>0 DEF Shape
  <2>3. PICK i \in Pad, o \in Pad : i = pads[n].i[j] /\ o = pads[n].o[1]
    BY <2>1, <2>2
  <2>o. o \in RingId
    BY <2>1, <2>3 DEF Pad
  <2> DEFINE into == Pushed(Drained(ring[o]), First(ring[i]))
             half == [ring EXCEPT ![o] = into]
  <2>4. /\ ring[o].size # 0 /\ UNCHANGED <<pads, life, pushed, pulled>>
        /\ \/ ring' = [ring EXCEPT ![o] = Drained(ring[o])]
           \/ i # Nothing /\ CanPull(ring[i]) /\ ring' = [half EXCEPT ![i] = Pulled(half[i])]
    <3>1. \/ Break("deleted ring") \/ Break("ring of size 0")
          \/ /\ ring[o].size # 0 /\ UNCHANGED <<build, heap, hist>>
             /\ \/ ring' = [ring EXCEPT ![o] = Drained(ring[o])]
                \/ i # Nothing /\ CanPull(ring[i]) /\ ring' = [half EXCEPT ![i] = Pulled(half[i])]
      BY <1>10, <2>3, Zenon DEF Fan
    <3> QED BY <1>b, <3>1 DEF build, heap, hist, moved
  <2>5. CASE ring' = [ring EXCEPT ![o] = Drained(ring[o])]
    <3>1. ring' = [q \in RingId |-> IF q = o THEN Drained(ring[o]) ELSE ring[q]]
      BY <1>f, <2>5, Zenon
    <3>2. ring[o].size > 0
      BY <1>f, <2>4, <2>o DEF WellFormed
    <3>3. Inside(Drained(ring[o])) = Inside(ring[o])
      <4> HIDE DEF Thing
      <4> QED BY <1>f, <2>o, <3>2, DrainKeeps
    <3>4. \A q \in RingId : Inside(ring'[q]) = Inside(ring[q])
      BY <3>1, <3>3
    <3> QED BY <1>g, <2>4, <3>4, StillKept DEF Made
  <2>6. CASE i # Nothing /\ CanPull(ring[i]) /\ ring' = [half EXCEPT ![i] = Pulled(half[i])]
    <3>i. i \in RingId
      BY <2>6 DEF Pad
    <3>a. Holds(n, "i", j, i) /\ Holds(n, "o", 1, o) /\ j \in Nat
      BY <2>1, <2>2, <2>3 DEF Holds
    <3>b. Leads(i, o) /\ Made(o)
      BY <1>0, <2>o, <3>a DEF Leads, HeldMade, Sides
    <3>c. i # o
      BY <1>0, <2>o, <3>i, <3>b, NeverBack, BeyondSelf
    <3>1. /\ Inside(ring[i]) # <<>> /\ First(ring[i]) = Head(Inside(ring[i])) /\ First(ring[i]) \in Thing
          /\ Inside(Pulled(ring[i])) = Tail(Inside(ring[i]))
      <4> HIDE DEF Thing
      <4> QED BY <1>f, <2>6, <3>i, PullTakes
    <3>2. Inside(into) = Append(Inside(ring[o]), Head(Inside(ring[i])))
      BY <1>f, <2>4, <2>o, <3>1, PushedInside
    <3> HIDE DEF into
    <3>3. half = [q \in RingId |-> IF q = o THEN into ELSE ring[q]]
      BY <1>f, Zenon
    <3>4. half[i] = ring[i]
      BY <3>c, <3>i, <3>3
    <3>5. ring' = [q \in RingId |-> IF q = i THEN Pulled(ring[i]) ELSE half[q]]
      BY <2>6, <3>3, <3>4, Zenon
    <3> HIDE DEF half
    <3>6. \A q \in RingId : Inside(ring'[q]) =
             IF q = i THEN Tail(Inside(ring[i]))
             ELSE IF q = o THEN Append(Inside(ring[o]), Head(Inside(ring[i])))
             ELSE Inside(ring[q])
      BY <3>1, <3>2, <3>3, <3>5
    <3>7. Known' /\ Lines'
      BY <1>0, <2>4, <2>o, <3>i, <3>b, <3>1, <3>6, FanKept
    <3>8. Doors'
      BY <1>g, <2>4, DoorsStay
    <3> QED BY <3>7, <3>8
  <2> QED BY <2>4, <2>5, <2>6
<1>r. ASSUME NEW n \in Node, Race(n) \/ \E side \in Sides : DrainTorn(n, side) PROVE FALSE
  <2>1. ASSUME Race(n) PROVE FALSE
    <3>1. Break("race")
      BY <2>1, Zenon DEF Race
    <3> QED BY <1>b, <3>1
  <2>2. ASSUME NEW side \in Sides, DrainTorn(n, side) PROVE FALSE
    <3>1. broken' = "torn drain"
      BY <2>2, Zenon DEF DrainTorn
    <3> QED BY <3>1 DEF Going
  <2> QED BY <1>r, <2>1, <2>2
<1>11. CASE Start
  BY <1>1, <1>11 DEF Start, heap, hist, moved
<1>12. CASE UNCHANGED vars
  BY <1>1, <1>12 DEF vars, build, heap, hist, moved
<1> QED BY <1>2, <1>3, <1>5, <1>6, <1>7, <1>8, <1>9, <1>10, <1>r, <1>11, <1>12 DEF Next, Sides

\* No ring holds more tasks than were pushed.
LEMMA FewInside ==
    ASSUME Known, OnePlace, NEW q \in RingId, NEW k \in Nat, NEW u, In(q, k, u)
    PROVE  k \in Task
<1> DEFINE s == Inside(ring[q])
           m == Len(s)
<1>1. s \in Seq(Sent) /\ Len(pushed) \in Nat /\ Len(pushed) <= Tasks
  BY DEF Known
<1>2. s \in [1..m -> Sent] /\ m \in Nat /\ k \in 1..m
  BY <1>1 DEF In
<1>c. \A l \in Nat : Cardinality(1..l) = l /\ IsFiniteSet(1..l)
  BY FS_Interval
<1>3. Cardinality(1..m) = m /\ IsFiniteSet(1..m)
  BY <1>2, <1>c
<1>4. Cardinality(Sent) = Len(pushed) /\ IsFiniteSet(Sent)
  BY <1>1, <1>c DEF Sent
<1>5. ~(Len(pushed) < m)
  <2> SUFFICES ASSUME Len(pushed) < m PROVE FALSE
    OBVIOUS
  <2> HIDE DEF m, s
  <2>1. PICK x, y \in 1..m : x # y /\ s[x] = s[y]
    BY <1>2, <1>3, <1>4, FS_PigeonHole
  <2>2. x \in Nat /\ y \in Nat /\ s[x] \in Sent
    BY <1>2
  <2>3. In(q, x, s[x]) /\ In(q, y, s[x])
    BY <1>2, <2>1 DEF In, s
  <2> QED BY <2>1, <2>2, <2>3 DEF OnePlace
<1>6. Tasks \in Nat
  BY PipelineAssumption
<1> QED BY <1>1, <1>2, <1>5, <1>6 DEF Task

LEMMA LinesKept == ASSUME ~relinked /\ Going => Known /\ Lines PROVE Kept
<1> SUFFICES ASSUME Known, Lines PROVE Kept
  BY DEF Kept
<1>0. OnePlace /\ OneExit /\ NotBoth /\ Somewhere /\ OutInLine
  BY DEF Lines
<1>1. DOMAIN pushed = Sent /\ Len(pushed) \in Nat /\ Len(pushed) <= Tasks /\ Tasks \in Nat
  BY PipelineAssumption DEF Known, Sent
<1>2. ASSUME NEW t \in Sent
      PROVE  Cardinality({x \in Places : TaskAt(x) = t})
                 + Cardinality({k \in DOMAIN pulled : pulled[k].task = t}) = 1
  <2> DEFINE A == {x \in Places : TaskAt(x) = t}
             B == {k \in DOMAIN pulled : pulled[k].task = t}
  <2>1. t # Nothing
    BY <1>1, PipelineAssumption DEF Sent
  <2>2. \A x \in A : x = <<x[1], x[2]>> /\ x[1] \in RingId /\ x[2] \in Nat /\ In(x[1], x[2], t)
    BY <2>1 DEF Places, TaskAt, In, Task
  <2>3. CASE \E q \in RingId : \E k \in Nat : In(q, k, t)
    <3>1. PICK q \in RingId, k \in Nat : In(q, k, t)
      BY <2>3
    <3>2. Made(q) /\ k \in Task
      <4>1. Inside(ring[q]) # <<>>
        BY <3>1 DEF In
      <4> QED BY <1>0, <3>1, <4>1, FewInside DEF Known
    <3>3. <<q, k>> \in A
      BY <3>1, <3>2 DEF Places, TaskAt, In
    <3>4. A = {<<q, k>>}
      <4>1. ASSUME NEW x \in A PROVE x = <<q, k>>
        <5>1. x[1] = q /\ x[2] = k
          BY <1>0, <2>2, <3>1 DEF OnePlace
        <5> QED BY <2>2, <5>1
      <4> QED BY <3>3, <4>1
    <3>5. B = {}
      BY <1>0, <3>1 DEF NotBoth
    <3> HIDE DEF A, B
    <3>6. Cardinality(A) = 1 /\ Cardinality(B) = 0
      BY <3>4, <3>5, FS_Singleton, FS_EmptySet
    <3> QED BY <3>6 DEF A, B
  <2>4. CASE \E y \in DOMAIN pulled : pulled[y].task = t
    <3>1. PICK y \in DOMAIN pulled : pulled[y].task = t
      BY <2>4
    <3>2. B = {y}
      BY <1>0, <3>1 DEF OneExit
    <3>3. A = {}
      BY <1>0, <2>2, <3>1 DEF NotBoth
    <3> HIDE DEF A, B
    <3>4. Cardinality(A) = 0 /\ Cardinality(B) = 1
      BY <3>2, <3>3, FS_Singleton, FS_EmptySet
    <3> QED BY <3>4 DEF A, B
  <2> QED BY <1>0, <2>3, <2>4 DEF Somewhere
<1>3. ASSUME NEW x \in DOMAIN pulled, NEW y \in DOMAIN pulled, x < y, pulled[x].at = pulled[y].at,
             pushed[pulled[x].task] = pushed[pulled[y].task]
      PROVE  pulled[x].task < pulled[y].task
  <2>1. /\ pulled[x].task \in Nat /\ pulled[y].task \in Nat
        /\ x \in Nat /\ y \in Nat
    BY OutSent DEF Sent
  <2>2. pulled[x].task # pulled[y].task
    BY <1>0, <1>3, <2>1 DEF OneExit
  <2>3. ~(pulled[y].task < pulled[x].task)
    BY <1>0, <1>3, <2>1 DEF OutInLine, Earlier
  <2> QED BY <2>1, <2>2, <2>3
<1> QED BY <1>1, <1>2, <1>3 DEF Kept

(* message_ring.hpp 123-186, erlang_nif_pipeline.coffee 139-239, 429-467:  *)
(* however the nodes are linked (without a cycle), before tasks are on     *)
(* their way or then, and whatever the sizes of the rings: until a pad     *)
(* lets go of a ring or a drain is torn no task is lost or doubled, and    *)
(* what goes in at one node comes out at one node in its order.            *)
THEOREM TasksKept == Spec => []Kept
<1> DEFINE Ways == ~relinked /\ Going => Known /\ Lines /\ Doors
<1>1. Init => IInv /\ Domains /\ Ways
  <2> SUFFICES ASSUME Init PROVE Known /\ Lines /\ Doors
    BY PipelineInit
  <2>1. NothingYet
    BY EmptyRing DEF Init, NothingYet
  <2> QED BY <2>1, NothingYetLines
<1>2. (IInv /\ Domains /\ Ways) /\ [Next]_vars => (IInv /\ Domains /\ Ways)'
  <2> SUFFICES ASSUME IInv, Domains, Ways, [Next]_vars PROVE IInv' /\ Domains' /\ Ways'
    OBVIOUS
  <2>1. IInv' /\ Domains'
    BY IInvStep, RingsStep, CountsUpStep, PlainStep DEF Domains
  <2>2. ASSUME ~relinked', Going' PROVE Known' /\ Lines' /\ Doors'
    <3>1. ~relinked /\ Going
      BY <2>2, Onward
    <3> QED BY <2>2, <3>1, LinesStep
  <2> QED BY <2>1, <2>2
<1>3. Ways => Kept
  BY LinesKept
<1> QED BY <1>1, <1>2, <1>3, PTL DEF Spec
=============================================================================
