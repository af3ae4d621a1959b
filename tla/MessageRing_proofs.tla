------------------------ MODULE MessageRing_proofs --------------------------
(***************************************************************************)
(* Proofs about MessageRing, for every size of the ring, every width of a  *)
(* size_t that holds twice that size, and every number of tasks.           *)
(***************************************************************************)
EXTENDS MessageRing, SequenceTheorems, TLAPS

USE SizeAssumption, WordAssumption

(* The offset after the last is the first.                                 *)
LEMMA SuccValue ==
    ASSUME NEW o \in Offsets
    PROVE  /\ Succ(o) = IF o + 1 = Size THEN 0 ELSE o + 1
           /\ Succ(o) \in Offsets
<1>1. CASE o + 1 = Size
  BY <1>1 DEF Succ, Offsets
<1>2. CASE o + 1 # Size
  BY <1>2 DEF Succ, Offsets
<1> QED BY <1>1, <1>2

(* Whatever has been read, the free space is a natural number.             *)
LEMMA FreeNat ==
    ASSUME send \in Offsets, recv \in Offsets, NEW ge \in BOOLEAN
    PROVE  Free(ge) \in Nat /\ Unsigned(Available(ge)) \in Nat
BY DEF Free, Unsigned, Available, Offsets

(* Each action keeps the types.                                            *)
LEMMA TypeStep == TypeOK /\ [Next]_vars => TypeOK'
<1> SUFFICES ASSUME TypeOK, [Next]_vars PROVE TypeOK'
  OBVIOUS
<1>1. CASE Push
  BY <1>1 DEF Push, receiverVars, TypeOK
<1>2. CASE Poll
  BY <1>2 DEF Poll, receiverVars, TypeOK
<1>3. CASE Ask
  BY <1>3 DEF Ask, receiverVars, TypeOK
<1>4. CASE Compare
  BY <1>4 DEF Compare, receiverVars, TypeOK
<1>5. CASE Measure
  <2>1. pfree' \in Nat
    BY <1>5, FreeNat DEF Measure, TypeOK
  <2> QED BY <1>5, <2>1 DEF Measure, receiverVars, TypeOK
<1>6. CASE Drain
  <2>1. idx + 1 \in 1..Len(overflow)
    BY <1>6 DEF Drain, TypeOK
  <2>2. overflow[idx + 1] \in Nat
    BY <2>1 DEF TypeOK
  <2> QED BY <1>6, <2>1, <2>2 DEF Drain, receiverVars, TypeOK
<1>7. CASE Drained
  <2>1. send' \in Offsets
    BY <1>7, SuccValue DEF Drained, TypeOK
  <2>2. CASE idx = Len(overflow)
    <3>1. overflow' = <<>> /\ overflow' \in Seq(Nat) /\ Len(overflow') = 0
      BY <1>7, <2>2 DEF Drained
    <3> QED BY <1>7, <2>1, <2>2, <3>1 DEF Drained, receiverVars, TypeOK
  <2>3. CASE idx # Len(overflow)
    BY <1>7, <2>1, <2>3 DEF Drained, receiverVars, TypeOK
  <2> QED BY <2>2, <2>3
<1>8. CASE WriteSlot
  BY <1>8 DEF WriteSlot, receiverVars, TypeOK
<1>9. CASE Publish
  BY <1>9, SuccValue DEF Publish, receiverVars, TypeOK
<1>10. CASE Overflow
  BY <1>10 DEF Overflow, receiverVars, TypeOK
<1>11. CASE Told
  BY <1>11 DEF Told, receiverVars, TypeOK
<1>12. CASE CanPull
  BY <1>12 DEF CanPull, senderVars, TypeOK
<1>13. CASE Take
  BY <1>13 DEF Take, senderVars, TypeOK
<1>14. CASE Advance
  BY <1>14, SuccValue DEF Advance, senderVars, TypeOK
<1>15. CASE CountBegin
  BY <1>15 DEF CountBegin, senderVars, TypeOK
<1>16. CASE Count
  BY <1>16, FreeNat DEF Count, senderVars, TypeOK
<1>17. CASE UNCHANGED vars
  BY <1>17 DEF vars, senderVars, receiverVars, TypeOK
<1> QED
  BY <1>1, <1>2, <1>3, <1>4, <1>5, <1>6, <1>7, <1>8, <1>9, <1>10, <1>11,
     <1>12, <1>13, <1>14, <1>15, <1>16, <1>17 DEF Next, Sending

(* The types hold at every step, after a torn read too (the volatile       *)
(* offsets, the overflow list and the index into it).                      *)
THEOREM TypeCorrect == Spec => []TypeOK
<1>1. Init => TypeOK
  BY DEF Init, TypeOK, Offsets
<1>2. TypeOK /\ [Next]_vars => TypeOK'
  BY TypeStep
<1> QED BY <1>1, <1>2, PTL DEF Spec

(* The two offsets name at most one slot less than the ring has.           *)
LEMMA OccupiedRange ==
    ASSUME TypeOK
    PROVE  Occupied \in 0..(Size - 1)
BY DEF TypeOK, Occupied, Offsets

(* Publishing: the slot at send is the one behind the last.                *)
LEMMA SendAdvances ==
    ASSUME TypeOK, Occupied < Size - 1, send' = Succ(send), recv' = recv
    PROVE  /\ Occupied' = Occupied + 1
           /\ send = Slot(Occupied)
           /\ \A k \in 0..(Size - 1) : Slot(k)' = Slot(k)
<1>1. send' = IF send + 1 = Size THEN 0 ELSE send + 1
  BY SuccValue DEF TypeOK
<1>2. Occupied' = Occupied + 1
  BY <1>1 DEF TypeOK, Occupied, Offsets
<1>3. send = Slot(Occupied)
  BY DEF TypeOK, Occupied, Slot, Offsets
<1>4. \A k \in 0..(Size - 1) : Slot(k)' = Slot(k)
  BY DEF Slot
<1> QED BY <1>2, <1>3, <1>4

(* Pulling: the slots move up by one.                                      *)
LEMMA ReceiveAdvances ==
    ASSUME TypeOK, Occupied > 0, recv' = Succ(recv), send' = send
    PROVE  /\ Occupied' = Occupied - 1
           /\ recv = Slot(0)
           /\ \A k \in 0..(Occupied - 2) : Slot(k)' = Slot(k + 1)
<1>1. recv' = IF recv + 1 = Size THEN 0 ELSE recv + 1
  BY SuccValue DEF TypeOK
<1>2. Occupied' = Occupied - 1
  BY <1>1 DEF TypeOK, Occupied, Offsets
<1>3. recv = Slot(0)
  BY DEF TypeOK, Slot, Offsets
<1>4. \A k \in 0..(Occupied - 2) : Slot(k)' = Slot(k + 1)
  <2>1. send \in 0..(Size - 1) /\ recv \in 0..(Size - 1)
    BY DEF TypeOK, Offsets
  <2> QED BY <1>1, <2>1 DEF Slot, Occupied
<1> QED BY <1>2, <1>3, <1>4

(* The slot at send is none of the occupied ones: a write there disturbs   *)
(* no task that waits to be pulled.                                        *)
LEMMA WriteIsApart ==
    ASSUME TypeOK, NEW k \in 0..(Occupied - 1)
    PROVE  Slot(k) \in Offsets /\ Slot(k) # send
BY DEF TypeOK, Slot, Occupied, Offsets

(* A free space that was measured while the other side may have moved: it  *)
(* is what is free now, or it exceeds the ring by the whole width.         *)
LEMMA Measured ==
    ASSUME TypeOK,
           pge => recv <= send, ~pge => send + 1 < Size
    PROVE  \/ Free(pge) = Size - 1 - Occupied
           \/ Free(pge) >= Word - Size /\ Occupied < Size - 1
BY WordAssumption DEF TypeOK, Free, Unsigned, Available, Occupied, Offsets

(* Each action keeps the invariant, one step per action; a step that has   *)
(* set torn is free.                                                       *)
LEMMA InvStep == Inv /\ [Next]_vars => Inv'
<1> SUFFICES ASSUME Inv, [Next]_vars PROVE Inv'
  OBVIOUS
<1>t. TypeOK /\ TypeOK'
  BY TypeStep DEF Inv
<1>o. Occupied \in 0..(Size - 1)
  BY <1>t, OccupiedRange
<1>s. send \in 0..(Size - 1) /\ recv \in 0..(Size - 1)
  BY <1>t DEF TypeOK, Offsets
<1>n. /\ idx \in Nat /\ Len(overflow) \in Nat /\ idx <= Len(overflow)
      /\ Len(pulled) \in Nat /\ next \in Nat
  <2>1. overflow \in Seq(Nat) /\ pulled \in Seq(Nat) /\ next \in Nat /\ idx \in Nat /\ idx <= Len(overflow)
    BY <1>t DEF TypeOK
  <2> QED BY <2>1
<1> USE DEF Inv
<1>1. CASE Push
  <2>u. Occupied' = Occupied /\ \A k \in Int : Slot(k)' = Slot(k)
    BY <1>1 DEF Push, receiverVars, Occupied, Slot
  <2>n. Unpublished = 0 /\ Unpublished' = 0 /\ InHand = 0 /\ InHand' = 1
    BY <1>1 DEF Push, Unpublished, InHand
  <2>1. Conserved'
    BY <1>1, <1>n, <1>o, <2>u, <2>n DEF Push, receiverVars, Conserved
  <2>2. InOrder' /\ ReceiverKnows'
    BY <1>1, <2>u DEF Push, receiverVars, InOrder, ReceiverKnows
  <2>3. RoomHonest' /\ SenderKnows'
    BY <1>1, <2>n DEF Push, RoomHonest, SenderKnows
  <2> QED BY <1>t, <2>1, <2>2, <2>3
<1>2. CASE Poll
  <2>u. Occupied' = Occupied /\ \A k \in Int : Slot(k)' = Slot(k)
    BY <1>2 DEF Poll, receiverVars, Occupied, Slot
  <2>n. Unpublished = 0 /\ Unpublished' = 0 /\ InHand = 0 /\ InHand' = 0
    BY <1>2 DEF Poll, Unpublished, InHand
  <2>1. InOrder' /\ Conserved' /\ ReceiverKnows'
    BY <1>2, <1>n, <1>o, <2>u, <2>n DEF Poll, receiverVars, InOrder, Conserved, ReceiverKnows
  <2>2. RoomHonest' /\ SenderKnows'
    BY <1>2, <2>n DEF Poll, RoomHonest, SenderKnows
  <2> QED BY <1>t, <2>1, <2>2
<1>3. CASE Ask
  <2>u. Occupied' = Occupied /\ \A k \in Int : Slot(k)' = Slot(k)
    BY <1>3 DEF Ask, receiverVars, Occupied, Slot
  <2>n. Unpublished = 0 /\ Unpublished' = 0 /\ InHand = 0 /\ InHand' = 0
    BY <1>3 DEF Ask, Unpublished, InHand
  <2>1. InOrder' /\ Conserved' /\ ReceiverKnows'
    BY <1>3, <1>n, <1>o, <2>u, <2>n DEF Ask, receiverVars, InOrder, Conserved, ReceiverKnows
  <2>2. RoomHonest' /\ SenderKnows'
    BY <1>3, <2>n DEF Ask, RoomHonest, SenderKnows
  <2> QED BY <1>t, <2>1, <2>2
<1>4. CASE Compare
  <2>u. Occupied' = Occupied /\ \A k \in Int : Slot(k)' = Slot(k)
    BY <1>4 DEF Compare, receiverVars, Occupied, Slot
  <2>n. Unpublished = 0 /\ Unpublished' = 0 /\ InHand' = InHand
    BY <1>4 DEF Compare, Unpublished, InHand
  <2>1. InOrder' /\ Conserved' /\ ReceiverKnows' /\ RoomHonest'
    BY <1>4, <1>t, <1>o, <2>u, <2>n DEF Compare, receiverVars, TypeOK, InOrder, Conserved, ReceiverKnows, RoomHonest
  <2>2. pge' => recv' <= send'
    BY <1>4 DEF Compare, receiverVars
  <2>3. ~pge' => send' + 1 < Size
    <3>1. send \in 0..(Size - 1) /\ recv \in 0..(Size - 1)
      BY <1>t DEF TypeOK, Offsets
    <3>2. CASE send >= recv
      BY <1>4, <3>2 DEF Compare
    <3>3. CASE ~(send >= recv)
      <4>1. send' = send
        BY <1>4 DEF Compare
      <4> QED BY <3>1, <3>3, <4>1
    <3> QED BY <3>2, <3>3
  <2>4. SenderKnows'
    BY <1>4, <2>2, <2>3 DEF Compare, SenderKnows
  <2> QED BY <1>t, <2>1, <2>4
<1>5. CASE Told
  <2>u. Occupied' = Occupied /\ \A k \in Int : Slot(k)' = Slot(k)
    BY <1>5 DEF Told, receiverVars, Occupied, Slot
  <2>n. Unpublished = 0 /\ Unpublished' = 0 /\ InHand = 0 /\ InHand' = 0
    BY <1>5 DEF Told, Unpublished, InHand
  <2>1. InOrder' /\ Conserved' /\ ReceiverKnows'
    BY <1>5, <1>n, <1>o, <2>u, <2>n DEF Told, receiverVars, InOrder, Conserved, ReceiverKnows
  <2>2. RoomHonest' /\ SenderKnows'
    BY <1>5, <2>n DEF Told, RoomHonest, SenderKnows
  <2> QED BY <1>t, <2>1, <2>2
<1>6. CASE Measure
  <2>u. Occupied' = Occupied /\ \A k \in Int : Slot(k)' = Slot(k)
    BY <1>6 DEF Measure, receiverVars, Occupied, Slot
  <2>1. CASE torn'
    BY <1>6, <1>t, <2>1 DEF InOrder, Conserved, RoomHonest, SenderKnows, ReceiverKnows
  <2>2. CASE ~torn'
    <3>1. ~torn
      BY <1>6, <1>t, <2>2 DEF Measure, TypeOK
    <3>2. (pge => recv <= send) /\ (~pge => send + 1 < Size)
      BY <1>6, <3>1 DEF Measure, SenderKnows
    <3>3. Free(pge) = Size - 1 - Occupied \/ (Free(pge) >= Word - Size /\ Occupied < Size - 1)
      BY <3>2, <1>t, Measured
    <3>n. Unpublished = 0 /\ Unpublished' = 0 /\ InHand' = InHand
      BY <1>6 DEF Measure, Unpublished, InHand
    <3>4. InOrder' /\ Conserved' /\ ReceiverKnows'
      BY <1>6, <1>t, <1>o, <2>u, <3>1, <3>n DEF Measure, receiverVars, TypeOK, InOrder, Conserved, ReceiverKnows
    <3>5. RoomHonest' /\ SenderKnows'
      BY <1>6, <1>t, <1>o, <2>u, <2>2, <3>1, <3>3, SizeAssumption, WordAssumption DEF Measure, receiverVars, TypeOK, RoomHonest, SenderKnows, Unpublished
    <3> QED BY <3>4, <3>5, <1>t
  <2> QED BY <2>1, <2>2
<1>7. CASE Drain
  <2>u. Occupied' = Occupied /\ \A k \in Int : Slot(k)' = Slot(k)
    BY <1>7 DEF Drain, receiverVars, Occupied, Slot
  <2>1. CASE torn'
    BY <1>7, <1>t, <2>1 DEF InOrder, Conserved, RoomHonest, SenderKnows, ReceiverKnows
  <2>2. CASE ~torn
    <3>1. idx + 1 \in (idx + 1)..Len(overflow)
      BY <1>7, <1>t DEF Drain, TypeOK
    <3>2. overflow[idx + 1] = Len(pulled) + Occupied + 1
      BY <1>7, <1>n, <1>o, <2>2, <3>1 DEF Drain, Conserved, Unpublished
    <3>3. Conserved'
      <4>n. Unpublished = 0 /\ Unpublished' = 1 /\ InHand' = InHand /\ InHand \in Int
        BY <1>7 DEF Drain, Unpublished, InHand
      <4>1. next' = Len(pulled)' + Occupied' + Unpublished' + (Len(overflow)' - idx') + InHand'
        BY <1>7, <1>n, <1>o, <2>2, <2>u, <4>n DEF Drain, receiverVars, Conserved
      <4>2. ASSUME NEW k \in 0..(Occupied - 1) PROVE ring'[Slot(k)] = Len(pulled) + 1 + k
        BY <1>7, <1>t, <2>2, WriteIsApart DEF Drain, Conserved, TypeOK
      <4>3. ring'[send] = Len(pulled) + Occupied + 1
        BY <1>7, <1>t, <3>2 DEF Drain, TypeOK
      <4>4. \A j \in (idx' + 1)..Len(overflow') :
               overflow'[j] = Len(pulled)' + Occupied' + Unpublished' + (j - idx')
        <5>1. idx' = idx + 1 /\ overflow' = overflow /\ pulled' = pulled
          BY <1>7 DEF Drain, receiverVars
        <5>2. ASSUME NEW j \in (idx + 2)..Len(overflow)
              PROVE  overflow[j] = Len(pulled) + Occupied + 1 + (j - (idx + 1))
          <6>1. j \in (idx + 1)..Len(overflow)
            BY <1>n
          <6>2. overflow[j] = Len(pulled) + Occupied + (j - idx)
            BY <1>n, <1>o, <2>2, <4>n, <6>1 DEF Conserved
          <6> QED BY <1>n, <1>o, <6>1, <6>2
        <5> QED BY <1>n, <2>u, <4>n, <5>1, <5>2
      <4> QED BY <1>7, <1>o, <2>u, <4>1, <4>2, <4>3, <4>4 DEF Drain, receiverVars, Conserved
    <3>4. InOrder' /\ ReceiverKnows'
      BY <1>7, <2>2, <2>u DEF Drain, receiverVars, InOrder, ReceiverKnows
    <3>5. RoomHonest' /\ SenderKnows'
      BY <1>7, <1>t, <1>o, <2>2, <2>u DEF Drain, receiverVars, RoomHonest, SenderKnows, Unpublished, TypeOK
    <3> QED BY <1>t, <3>3, <3>4, <3>5
  <2> QED BY <1>7, <2>1, <2>2 DEF Drain
<1>8. CASE Drained
  <2>1. CASE torn'
    BY <1>8, <1>t, <2>1 DEF InOrder, Conserved, RoomHonest, SenderKnows, ReceiverKnows
  <2>2. CASE ~torn
    <3>1. Occupied < Size - 1
      BY <1>8, <1>o, <1>t, <2>2 DEF Drained, SenderKnows, TypeOK
    <3>2. /\ Occupied' = Occupied + 1
          /\ send = Slot(Occupied)
          /\ \A k \in 0..(Size - 1) : Slot(k)' = Slot(k)
      BY <1>8, <1>t, <3>1, SendAdvances DEF Drained, receiverVars
    <3>3. Unpublished = 1 /\ Unpublished' = 0 /\ InHand' = InHand /\ InHand \in Int
      BY <1>8 DEF Drained, Unpublished, InHand
    <3>4. Conserved'
      <4>1. Len(overflow') - idx' = Len(overflow) - idx
        <5>1. CASE idx = Len(overflow)
          <6>1. overflow' = <<>> /\ idx' = 0 /\ Len(overflow') = 0
            BY <1>8, <5>1 DEF Drained
          <6> QED BY <1>n, <5>1, <6>1
        <5>2. CASE idx # Len(overflow)
          BY <1>8, <5>2 DEF Drained
        <5> QED BY <5>1, <5>2
      <4>2. next' = Len(pulled)' + Occupied' + Unpublished' + (Len(overflow)' - idx') + InHand'
        <5>1. next = Len(pulled) + Occupied + 1 + (Len(overflow) - idx) + InHand
          BY <2>2, <3>3 DEF Conserved
        <5>2. next' = next /\ pulled' = pulled
          BY <1>8 DEF Drained, receiverVars
        <5> QED BY <1>n, <1>o, <3>2, <3>3, <4>1, <5>1, <5>2
      <4>3. ASSUME NEW k \in 0..Occupied PROVE ring[Slot(k)] = Len(pulled) + 1 + k
        <5>1. CASE k = Occupied
          BY <1>t, <1>o, <2>2, <3>2, <3>3, <5>1 DEF Conserved, TypeOK
        <5>2. CASE k # Occupied
          BY <1>t, <1>o, <2>2, <5>2 DEF Conserved
        <5> QED BY <5>1, <5>2
      <4>4. \A k \in 0..(Occupied' - 1) : ring'[Slot(k)'] = Len(pulled') + 1 + k
        BY <1>8, <1>o, <3>1, <3>2, <4>3 DEF Drained, receiverVars
      <4>5. \A j \in (idx' + 1)..Len(overflow') :
               overflow'[j] = Len(pulled)' + Occupied' + Unpublished' + (j - idx')
        <5>1. CASE idx = Len(overflow)
          BY <1>8, <5>1 DEF Drained
        <5>2. CASE idx # Len(overflow)
          <6>1. overflow' = overflow /\ idx' = idx /\ pulled' = pulled
            BY <1>8, <5>2 DEF Drained, receiverVars
          <6>2. ASSUME NEW j \in (idx + 1)..Len(overflow)
                PROVE  overflow[j] = Len(pulled) + (Occupied + 1) + 0 + (j - idx)
            BY <1>n, <1>o, <2>2, <3>3 DEF Conserved
          <6> QED BY <3>2, <3>3, <6>1, <6>2
        <5> QED BY <5>1, <5>2
      <4> QED BY <1>8, <3>3, <4>2, <4>4, <4>5 DEF Conserved
    <3>5. InOrder' /\ ReceiverKnows'
      BY <1>8, <1>o, <2>2, <3>2 DEF Drained, receiverVars, InOrder, ReceiverKnows
    <3>6. RoomHonest' /\ SenderKnows'
      BY <1>8, <1>t, <1>o, <2>2, <3>2, <3>3 DEF Drained, receiverVars, RoomHonest, SenderKnows, TypeOK
    <3> QED BY <1>t, <3>4, <3>5, <3>6
  <2> QED BY <1>8, <2>1, <2>2 DEF Drained
<1>9. CASE WriteSlot
  <2>u. Occupied' = Occupied /\ \A k \in Int : Slot(k)' = Slot(k)
    BY <1>9 DEF WriteSlot, receiverVars, Occupied, Slot
  <2>1. CASE torn'
    BY <1>9, <1>t, <2>1 DEF InOrder, Conserved, RoomHonest, SenderKnows, ReceiverKnows
  <2>2. CASE ~torn
    <3>1. overflow = <<>> /\ idx = 0 /\ Len(overflow) = 0 /\ Occupied < Size - 1
      BY <1>9, <1>t, <2>2 DEF WriteSlot, SenderKnows, TypeOK
    <3>2. next = Len(pulled) + Occupied + 1
      BY <1>9, <1>t, <1>o, <2>2, <3>1 DEF WriteSlot, Conserved, Unpublished, InHand, TypeOK
    <3>3. Conserved'
      <4>1. next' = Len(pulled)' + Occupied' + Unpublished' + (Len(overflow)' - idx') + InHand'
        BY <1>9, <1>t, <1>o, <2>u, <3>1, <3>2 DEF WriteSlot, receiverVars, Unpublished, InHand, TypeOK
      <4>2. ASSUME NEW k \in 0..(Occupied - 1) PROVE ring'[Slot(k)] = Len(pulled) + 1 + k
        BY <1>9, <1>t, <2>2, WriteIsApart DEF WriteSlot, Conserved, TypeOK
      <4>3. ring'[send] = Len(pulled) + Occupied + 1
        BY <1>9, <1>t, <3>2 DEF WriteSlot, TypeOK
      <4>4. Len(overflow') < idx' + 1
        BY <1>9, <3>1 DEF WriteSlot
      <4> QED BY <1>9, <1>t, <1>o, <2>u, <4>1, <4>2, <4>3, <4>4, <3>1 DEF WriteSlot, receiverVars, Conserved
    <3>4. InOrder' /\ ReceiverKnows'
      BY <1>9, <2>2, <2>u DEF WriteSlot, receiverVars, InOrder, ReceiverKnows
    <3>5. RoomHonest' /\ SenderKnows'
      BY <1>9, <1>t, <1>o, <2>2, <2>u, <3>1 DEF WriteSlot, receiverVars, RoomHonest, SenderKnows, Unpublished, TypeOK
    <3> QED BY <1>t, <3>3, <3>4, <3>5
  <2> QED BY <1>9, <2>1, <2>2 DEF WriteSlot
<1>10. CASE Publish
  <2>1. CASE torn'
    BY <1>10, <1>t, <2>1 DEF InOrder, Conserved, RoomHonest, SenderKnows, ReceiverKnows
  <2>2. CASE ~torn
    <3>1. /\ Occupied < Size - 1
          /\ Unpublished = 1 /\ Unpublished' = 0 /\ InHand' = InHand /\ InHand = 0
      BY <1>10, <2>2 DEF Publish, RoomHonest, Unpublished, InHand
    <3>2. /\ Occupied' = Occupied + 1
          /\ send = Slot(Occupied)
          /\ \A k \in 0..(Size - 1) : Slot(k)' = Slot(k)
      BY <1>10, <1>t, <3>1, SendAdvances DEF Publish, receiverVars
    <3>3. overflow = <<>> /\ overflow' = <<>> /\ Len(overflow) = 0 /\ idx = 0 /\ idx' = 0
      BY <1>10, <1>t, <2>2 DEF Publish, SenderKnows, TypeOK
    <3>4. Conserved'
      <4>1. next' = Len(pulled)' + Occupied' + Unpublished' + (Len(overflow)' - idx') + InHand'
        BY <1>10, <1>t, <1>o, <2>2, <3>1, <3>2, <3>3 DEF Publish, receiverVars, Conserved, TypeOK
      <4>2. ASSUME NEW k \in 0..Occupied PROVE ring[Slot(k)] = Len(pulled) + 1 + k
        <5>1. CASE k = Occupied
          BY <1>t, <1>o, <2>2, <3>1, <3>2, <5>1 DEF Conserved, TypeOK
        <5>2. CASE k # Occupied
          BY <1>t, <1>o, <2>2, <5>2 DEF Conserved
        <5> QED BY <5>1, <5>2
      <4>3. \A k \in 0..(Occupied' - 1) : ring'[Slot(k)'] = Len(pulled') + 1 + k
        BY <1>10, <1>o, <3>1, <3>2, <4>2 DEF Publish, receiverVars
      <4> QED BY <1>10, <3>1, <3>3, <4>1, <4>3 DEF Conserved
    <3>5. InOrder' /\ ReceiverKnows'
      BY <1>10, <1>o, <2>2, <3>2 DEF Publish, receiverVars, InOrder, ReceiverKnows
    <3>6. RoomHonest' /\ SenderKnows'
      BY <1>10, <3>1 DEF Publish, RoomHonest, SenderKnows
    <3> QED BY <1>t, <3>4, <3>5, <3>6
  <2> QED BY <1>10, <2>1, <2>2 DEF Publish
<1>11. CASE Overflow
  <2>u. Occupied' = Occupied /\ \A k \in Int : Slot(k)' = Slot(k)
    BY <1>11 DEF Overflow, receiverVars, Occupied, Slot
  <2>1. CASE torn'
    BY <1>11, <1>t, <2>1 DEF InOrder, Conserved, RoomHonest, SenderKnows, ReceiverKnows
  <2>2. CASE ~torn
    <3>1. Len(overflow') = Len(overflow) + 1
      BY <1>11, <1>t DEF Overflow, TypeOK
    <3>2. next = Len(pulled) + Occupied + (Len(overflow) - idx) + 1
      BY <1>11, <1>t, <1>o, <2>2 DEF Overflow, Conserved, Unpublished, InHand, TypeOK
    <3>3. Conserved'
      <4>1. ASSUME NEW j \in (idx + 1)..(Len(overflow) + 1)
            PROVE  overflow'[j] = Len(pulled) + Occupied + (j - idx)
        <5>1. CASE j = Len(overflow) + 1
          BY <1>11, <1>t, <1>o, <3>2, <5>1 DEF Overflow, TypeOK
        <5>2. CASE j # Len(overflow) + 1
          <6>1. j \in (idx + 1)..Len(overflow) /\ j \in 1..Len(overflow)
            BY <1>n, <5>2
          <6>2. overflow'[j] = overflow[j]
            BY <1>11, <1>t, <6>1 DEF Overflow, TypeOK
          <6>3. overflow[j] = Len(pulled) + Occupied + (j - idx)
            BY <1>11, <1>t, <1>o, <2>2, <6>1 DEF Overflow, Conserved, Unpublished, TypeOK
          <6> QED BY <6>2, <6>3
        <5> QED BY <5>1, <5>2
      <4>2. Unpublished' = 0 /\ InHand' = 0
        BY <1>11 DEF Overflow, Unpublished, InHand
      <4>3. next' = next /\ idx' = idx /\ pulled' = pulled /\ ring' = ring
        BY <1>11 DEF Overflow, receiverVars
      <4>4. next' = Len(pulled)' + Occupied' + Unpublished' + (Len(overflow)' - idx') + InHand'
        BY <1>n, <1>o, <2>u, <3>1, <3>2, <4>2, <4>3
      <4>5. \A j \in (idx' + 1)..Len(overflow') :
               overflow'[j] = Len(pulled)' + Occupied' + Unpublished' + (j - idx')
        BY <1>n, <1>o, <2>u, <3>1, <4>1, <4>2, <4>3
      <4>6. \A k \in 0..(Occupied' - 1) : ring'[Slot(k)'] = Len(pulled') + 1 + k
        BY <1>o, <2>2, <2>u, <4>3 DEF Conserved
      <4> QED BY <4>2, <4>4, <4>5, <4>6 DEF Conserved
    <3>4. InOrder' /\ ReceiverKnows'
      BY <1>11, <2>2, <2>u DEF Overflow, receiverVars, InOrder, ReceiverKnows
    <3>5. RoomHonest' /\ SenderKnows'
      BY <1>11, <2>2, <2>u DEF Overflow, receiverVars, RoomHonest, SenderKnows, Unpublished
    <3> QED BY <1>t, <3>3, <3>4, <3>5
  <2> QED BY <1>11, <2>1, <2>2 DEF Overflow
<1>12. CASE CanPull
  <2>u. Occupied' = Occupied /\ \A k \in Int : Slot(k)' = Slot(k)
    BY <1>12 DEF CanPull, senderVars, Occupied, Slot
  <2>1. Occupied > 0
    BY <1>12, <1>s DEF CanPull, Occupied
  <2>2. Unpublished' = Unpublished /\ InHand' = InHand
    BY <1>12 DEF CanPull, senderVars, Unpublished, InHand
  <2>3. InOrder' /\ Conserved'
    BY <1>12, <1>o, <2>u, <2>2 DEF CanPull, senderVars, InOrder, Conserved
  <2>4. RoomHonest' /\ SenderKnows'
    BY <1>12, <2>u, <2>2 DEF CanPull, senderVars, RoomHonest, SenderKnows
  <2>5. ReceiverKnows'
    BY <1>12, <2>u, <2>1 DEF CanPull, senderVars, ReceiverKnows
  <2> QED BY <1>t, <2>3, <2>4, <2>5
<1>13. CASE CountBegin
  BY <1>13, <1>t, <1>o DEF CountBegin, senderVars, TypeOK, InOrder, Conserved, RoomHonest, SenderKnows, ReceiverKnows,
       Occupied, Slot, Unpublished, InHand
<1>14. CASE Count
  BY <1>14, <1>t, <1>o DEF Count, senderVars, TypeOK, InOrder, Conserved, RoomHonest, SenderKnows, ReceiverKnows,
       Occupied, Slot, Unpublished, InHand
<1>15. CASE Take
  <2>u. Occupied' = Occupied /\ \A k \in Int : Slot(k)' = Slot(k)
    BY <1>15 DEF Take, senderVars, Occupied, Slot
  <2>1. ~torn => held' = Len(pulled) + 1
    <3> SUFFICES ASSUME ~torn PROVE held' = Len(pulled) + 1
      OBVIOUS
    <3>1. Occupied > 0
      BY <1>15 DEF Take, ReceiverKnows
    <3>2. ring[Slot(0)] = Len(pulled) + 1
      BY <1>t, <1>o, <3>1 DEF Conserved, TypeOK
    <3>3. recv = Slot(0)
      BY <1>t DEF TypeOK, Slot, Offsets
    <3> QED BY <1>15, <3>2, <3>3 DEF Take
  <2>2. Unpublished' = Unpublished /\ InHand' = InHand
    BY <1>15 DEF Take, senderVars, Unpublished, InHand
  <2>3. InOrder' /\ Conserved'
    BY <1>15, <1>o, <2>u, <2>2 DEF Take, senderVars, InOrder, Conserved
  <2>4. RoomHonest' /\ SenderKnows'
    BY <1>15, <2>u, <2>2 DEF Take, senderVars, RoomHonest, SenderKnows
  <2>5. ReceiverKnows'
    BY <1>15, <2>u, <2>1 DEF Take, senderVars, ReceiverKnows
  <2> QED BY <1>t, <2>3, <2>4, <2>5
<1>16. CASE Advance
  <2>1. CASE torn'
    BY <1>16, <1>t, <2>1 DEF InOrder, Conserved, RoomHonest, SenderKnows, ReceiverKnows
  <2>2. CASE ~torn
    <3>1. Occupied > 0 /\ held = Len(pulled) + 1
      BY <1>16, <2>2 DEF Advance, ReceiverKnows
    <3>2. /\ Occupied' = Occupied - 1
          /\ \A k \in 0..(Occupied - 2) : Slot(k)' = Slot(k + 1)
      BY <1>16, <1>t, <3>1, ReceiveAdvances DEF Advance, senderVars
    <3>3. Len(pulled') = Len(pulled) + 1
      BY <1>16, <1>t DEF Advance, TypeOK
    <3>n. Unpublished' = Unpublished /\ InHand' = InHand /\ Unpublished \in Int /\ InHand \in Int
      BY <1>16 DEF Advance, senderVars, Unpublished, InHand
    <3>4. Conserved'
      <4>1. next' = Len(pulled)' + Occupied' + Unpublished' + (Len(overflow)' - idx') + InHand'
        <5>1. next = Len(pulled) + Occupied + Unpublished + (Len(overflow) - idx) + InHand
          BY <2>2 DEF Conserved
        <5>2. next' = next /\ overflow' = overflow /\ idx' = idx
          BY <1>16 DEF Advance, senderVars
        <5> QED BY <1>n, <1>o, <3>2, <3>3, <3>n, <5>1, <5>2
      <4>2. \A k \in 0..(Occupied' - 1) : ring'[Slot(k)'] = Len(pulled') + 1 + k
        <5> SUFFICES ASSUME NEW k \in 0..(Occupied - 2)
                     PROVE  ring[Slot(k + 1)] = (Len(pulled) + 1) + 1 + k
          <6>1. ring' = ring /\ (Occupied - 1) - 1 = Occupied - 2
            BY <1>16, <1>o DEF Advance
          <6> QED BY <3>2, <3>3, <6>1
        <5>1. k + 1 \in 0..(Occupied - 1)
          BY <1>o
        <5>2. ring[Slot(k + 1)] = Len(pulled) + 1 + (k + 1)
          BY <2>2, <5>1 DEF Conserved
        <5> QED BY <1>n, <5>1, <5>2
      <4>3. Unpublished' = 1 => ring'[send'] = Len(pulled)' + Occupied' + 1
        BY <1>16, <1>t, <1>o, <2>2, <3>2, <3>3, <3>n DEF Advance, senderVars, Conserved, TypeOK
      <4>4. \A j \in (idx' + 1)..Len(overflow') :
               overflow'[j] = Len(pulled)' + Occupied' + Unpublished' + (j - idx')
        BY <1>16, <1>t, <1>o, <2>2, <3>2, <3>3, <3>n DEF Advance, senderVars, Conserved, TypeOK
      <4> QED BY <4>1, <4>2, <4>3, <4>4 DEF Conserved
    <3>5. InOrder'
      <4> SUFFICES ASSUME NEW i \in 1..(Len(pulled) + 1) PROVE pulled'[i] = i
        BY <3>3 DEF InOrder
      <4>1. CASE i = Len(pulled) + 1
        BY <1>16, <1>t, <3>1, <4>1 DEF Advance, TypeOK
      <4>2. CASE i # Len(pulled) + 1
        <5>1. i \in 1..Len(pulled)
          BY <1>n, <4>2
        <5>2. pulled'[i] = pulled[i]
          BY <1>16, <1>t, <5>1 DEF Advance, TypeOK
        <5> QED BY <2>2, <5>1, <5>2 DEF InOrder
      <4> QED BY <4>1, <4>2
    <3>6. RoomHonest' /\ ReceiverKnows'
      BY <1>16, <1>t, <1>o, <2>2, <3>2, <3>n DEF Advance, senderVars, RoomHonest, ReceiverKnows, TypeOK
    <3>7. SenderKnows'
      <4>1. ppc = "measure" /\ pge => recv' <= send'
        <5> SUFFICES ASSUME ppc = "measure", pge PROVE recv' <= send'
          OBVIOUS
        <5>1. recv <= send
          BY <2>2 DEF SenderKnows
        <5>2. send \in 0..(Size - 1) /\ recv \in 0..(Size - 1)
          BY <1>t DEF TypeOK, Offsets
        <5>3. recv < send
          BY <3>1, <5>1, <5>2 DEF Occupied
        <5>4. recv' = recv + 1 /\ send' = send
          BY <1>16, <5>2, <5>3, SuccValue DEF Advance, senderVars, Offsets
        <5> QED BY <5>2, <5>3, <5>4
      <4> QED BY <1>16, <1>t, <1>o, <2>2, <3>2, <4>1 DEF Advance, senderVars, SenderKnows, TypeOK
    <3> QED BY <1>t, <3>4, <3>5, <3>6, <3>7
  <2> QED BY <1>16, <2>1, <2>2 DEF Advance, senderVars
<1>17. CASE UNCHANGED vars
  BY <1>17, <1>t DEF vars, senderVars, receiverVars, InOrder, Conserved, RoomHonest, SenderKnows, ReceiverKnows,
       Occupied, Slot, Unpublished, InHand
<1> QED
  BY <1>1, <1>2, <1>3, <1>4, <1>5, <1>6, <1>7, <1>8, <1>9, <1>10, <1>11, <1>12, <1>13, <1>14, <1>15, <1>16, <1>17 DEF Next, Sending

(* message_ring.hpp 111-187: at every step what each side of the ring knows *)
(* and what it has still to do agree with the slots and with the offsets,  *)
(* until a drain trusts a torn read: the invariant of the push, the drain  *)
(* and the pull together.                                                  *)
LEMMA InvHolds == Spec => []Inv
<1>1. Init => Inv
  BY DEF Init, Inv, TypeOK, InOrder, Conserved, RoomHonest, SenderKnows, ReceiverKnows,
         Occupied, Slot, Unpublished, InHand, Offsets
<1>2. Inv /\ [Next]_vars => Inv'
  BY InvStep
<1> QED BY <1>1, <1>2, PTL DEF Spec

(* The tasks come out in the order they went in, none lost and none twice, *)
(* through push, pull and the drain of the overflow of message_ring.hpp,   *)
(* as long as no drain has trusted a torn read.                            *)
THEOREM FifoUnlessTorn == Spec => []InOrder
<1>1. Inv => InOrder
  BY DEF Inv
<1> QED BY <1>1, InvHolds, PTL

(* Every task pushed and not pulled is in its place at every step: in the  *)
(* ring, in the slot being written, in the overflow behind it or in the    *)
(* sender's hand (push, drain_overflow and pull of message_ring.hpp).      *)
THEOREM NothingLost == Spec => []Conserved
<1>1. Inv => Conserved
  BY DEF Inv
<1> QED BY <1>1, InvHolds, PTL

(* message_ring.hpp 112-146: the free space a sender is told or drains by  *)
(* is there while it uses it, whatever the receiver does; the only other   *)
(* answer a torn read can give is off by the whole width of a size_t.      *)
THEOREM RoomIsThere == Spec => []RoomHonest
<1>1. Inv => RoomHonest
  BY DEF Inv
<1> QED BY <1>1, InvHolds, PTL

-----------------------------------------------------------------------------
(* The refinement.                                                         *)

(* As long as no read was torn the abstract queue holds the numbers that   *)
(* follow the last one pulled.                                             *)
Numbers(m, n) == [k \in 1..n |-> m + k]
Waiting == Numbers(Len(pulled), next - Len(pulled))

LEMMA NumbersSeq ==
    ASSUME NEW m \in Nat, NEW n \in Nat
    PROVE  /\ Numbers(m, n) \in Seq(Nat)
           /\ Len(Numbers(m, n)) = n
           /\ \A k \in 1..n : Numbers(m, n)[k] = m + k
<1>1. Numbers(m, n) \in [1..n -> Nat]
  BY DEF Numbers
<1> QED BY <1>1 DEF Numbers

LEMMA NumbersAppend ==
    ASSUME NEW m \in Nat, NEW n \in Nat
    PROVE  Numbers(m, n + 1) = Append(Numbers(m, n), m + n + 1)
<1> DEFINE s == Numbers(m, n + 1)
           t == Append(Numbers(m, n), m + n + 1)
<1>1. /\ Numbers(m, n) \in Seq(Nat) /\ Len(Numbers(m, n)) = n
      /\ \A k \in 1..n : Numbers(m, n)[k] = m + k
  BY NumbersSeq
<1>2. s \in Seq(Nat) /\ Len(s) = n + 1 /\ \A k \in 1..(n + 1) : s[k] = m + k
  <2>1. n + 1 \in Nat
    OBVIOUS
  <2> QED BY <2>1, NumbersSeq
<1>3. /\ t \in Seq(Nat) /\ Len(t) = n + 1
      /\ \A k \in 1..n : t[k] = m + k
      /\ t[n + 1] = m + n + 1
  BY <1>1, AppendProperties
<1>4. \A k \in 1..Len(s) : s[k] = t[k]
  <2> SUFFICES ASSUME NEW k \in 1..(n + 1) PROVE s[k] = t[k]
    BY <1>2
  <2>1. CASE k = n + 1
    BY <1>2, <1>3, <2>1
  <2>2. CASE k # n + 1
    <3>1. k \in 1..n
      BY <2>2
    <3> QED BY <1>2, <1>3, <3>1
  <2> QED BY <2>1, <2>2
<1> HIDE DEF s, t
<1>5. s = t
  BY <1>2, <1>3, <1>4, SeqEqual
<1> QED BY <1>5 DEF s, t

LEMMA NumbersTail ==
    ASSUME NEW m \in Nat, NEW n \in Nat, n > 0
    PROVE  /\ Numbers(m, n) # <<>> /\ Head(Numbers(m, n)) = m + 1
           /\ Numbers(m + 1, n - 1) = Tail(Numbers(m, n))
<1> DEFINE s == Numbers(m + 1, n - 1)
           t == Tail(Numbers(m, n))
<1>1. /\ Numbers(m, n) \in Seq(Nat) /\ Len(Numbers(m, n)) = n
      /\ \A k \in 1..n : Numbers(m, n)[k] = m + k
  BY NumbersSeq
<1>2. Numbers(m, n) # <<>> /\ Head(Numbers(m, n)) = m + 1
  BY <1>1
<1>3. s \in Seq(Nat) /\ Len(s) = n - 1 /\ \A k \in 1..(n - 1) : s[k] = m + 1 + k
  <2>1. n - 1 \in Nat /\ m + 1 \in Nat
    OBVIOUS
  <2> QED BY <2>1, NumbersSeq
<1>4. t \in Seq(Nat) /\ Len(t) = n - 1 /\ \A k \in 1..(n - 1) : t[k] = Numbers(m, n)[k + 1]
  BY <1>1, <1>2, HeadTailProperties
<1>5. \A k \in 1..Len(s) : s[k] = t[k]
  <2> SUFFICES ASSUME NEW k \in 1..(n - 1) PROVE s[k] = t[k]
    BY <1>3
  <2>1. k + 1 \in 1..n
    OBVIOUS
  <2> QED BY <1>1, <1>3, <1>4, <2>1
<1> HIDE DEF s, t
<1>6. s = t
  BY <1>3, <1>4, <1>5, SeqEqual
<1> QED BY <1>2, <1>6 DEF s, t

LEMMA ContentsAreWaiting ==
    ASSUME Inv, ~torn
    PROVE  Contents = Waiting /\ next - Len(pulled) \in Nat
<1>t. TypeOK /\ Conserved
  BY DEF Inv
<1>o. Occupied \in 0..(Size - 1)
  BY <1>t, OccupiedRange
<1>n. /\ idx \in Nat /\ Len(overflow) \in Nat /\ idx <= Len(overflow)
      /\ Len(pulled) \in Nat /\ next \in Nat
  <2>1. overflow \in Seq(Nat) /\ pulled \in Seq(Nat) /\ next \in Nat /\ idx \in Nat /\ idx <= Len(overflow)
    BY <1>t DEF TypeOK
  <2> QED BY <2>1
<1>u. Unpublished \in {0, 1} /\ InHand \in {0, 1}
  BY DEF Unpublished, InHand
<1>1. /\ next = Len(pulled) + Occupied + Unpublished + (Len(overflow) - idx) + InHand
      /\ \A k \in 0..(Occupied - 1) : ring[Slot(k)] = Len(pulled) + 1 + k
      /\ Unpublished = 1 => ring[send] = Len(pulled) + Occupied + 1
      /\ \A j \in (idx + 1)..Len(overflow) :
            overflow[j] = Len(pulled) + Occupied + Unpublished + (j - idx)
  BY <1>t DEF Conserved
<1>2. Behind + InHand = next - Len(pulled) /\ next - Len(pulled) \in Nat
  BY <1>n, <1>o, <1>u, <1>1 DEF Behind, InRing
<1>3. ASSUME NEW k \in 1..(next - Len(pulled))
      PROVE  (IF k <= Occupied THEN ring[Slot(k - 1)]
              ELSE IF k <= InRing THEN ring[send]
              ELSE IF k <= Behind THEN overflow[idx + k - InRing]
              ELSE next) = Len(pulled) + k
  <2>1. CASE k <= Occupied
    <3>1. k - 1 \in 0..(Occupied - 1)
      BY <1>o, <2>1
    <3>2. ring[Slot(k - 1)] = Len(pulled) + 1 + (k - 1)
      BY <1>1, <3>1
    <3> QED BY <1>n, <2>1, <3>2
  <2>2. CASE k > Occupied /\ k <= InRing
    <3>1. Unpublished = 1 /\ k = Occupied + 1
      BY <1>o, <1>u, <2>2 DEF InRing
    <3>2. ring[send] = Len(pulled) + k
      BY <1>n, <1>o, <1>1, <3>1
    <3> QED BY <1>o, <2>2, <3>2
  <2>3. CASE k > InRing /\ k <= Behind
    <3>1. idx + k - InRing \in (idx + 1)..Len(overflow)
      BY <1>n, <1>o, <1>u, <2>3 DEF InRing, Behind
    <3>2. overflow[idx + k - InRing] = Len(pulled) + Occupied + Unpublished + ((idx + k - InRing) - idx)
      BY <1>1, <3>1
    <3> QED BY <1>n, <1>o, <1>u, <2>3, <3>2 DEF InRing
  <2>4. CASE k > Behind
    <3>1. k = next - Len(pulled)
      BY <1>n, <1>o, <1>u, <1>2, <2>4 DEF Behind, InRing
    <3> QED BY <1>n, <1>o, <1>u, <2>4, <3>1 DEF Behind, InRing
  <2> QED BY <1>n, <1>o, <1>u, <2>1, <2>2, <2>3, <2>4 DEF InRing, Behind
<1> QED BY <1>2, <1>3 DEF Contents, Waiting, Numbers

(* A step of either thread puts a task in, gets one out, breaks the ring   *)
(* or changes nothing in the queue.                                        *)
LEMMA QueueStep == Inv /\ Inv' /\ [Next]_vars => [Queue!Next]_Queue!vars
<1> SUFFICES ASSUME Inv, Inv', [Next]_vars PROVE [Queue!Next]_Queue!vars
  OBVIOUS
<1> USE DEF Queue!vars
<1>k. ASSUME ~torn PROVE Contents = Waiting /\ next - Len(pulled) \in Nat
  BY <1>k, ContentsAreWaiting
<1>l. (Inv /\ ~torn => Contents = Waiting /\ next - Len(pulled) \in Nat)'
  BY ContentsAreWaiting, PTL
<1>n. pulled \in Seq(Nat) /\ next \in Nat /\ held \in Nat /\ torn \in BOOLEAN
  BY DEF Inv, TypeOK
<1>1. CASE torn /\ torn'
  BY <1>1
<1>2. CASE ~torn /\ torn'
  <2>1. torn' = TRUE /\ torn = FALSE
    BY <1>2, <1>n DEF Inv, TypeOK
  <2> QED BY <2>1 DEF Queue!Next, Queue!Break
<1>3. CASE ~torn /\ ~torn'
  <2>1. CASE Push
    <3>1. next' = next + 1 /\ pulled' = pulled /\ next < MaxTask /\ torn' = torn
      BY <2>1 DEF Push, receiverVars
    <3>2. next' - Len(pulled') = (next - Len(pulled)) + 1 /\ Len(pulled) \in Nat
      BY <1>n, <3>1
    <3>3. Waiting' = Append(Waiting, next')
      <4>1. Waiting' = Numbers(Len(pulled), (next - Len(pulled)) + 1)
        BY <3>1, <3>2 DEF Waiting, Numbers
      <4>2. next' = Len(pulled) + (next - Len(pulled)) + 1
        BY <1>n, <3>1, <3>2
      <4> QED BY <1>k, <1>3, <3>2, <4>1, <4>2, NumbersAppend DEF Waiting
    <3>4. next' \in 1..MaxTask
      BY <1>n, <3>1, MaxTaskAssumption
    <3> QED BY <1>k, <1>l, <1>3, <3>1, <3>3, <3>4 DEF Queue!Next, Queue!Put
  <2>2. CASE Advance
    <3>1. next' = next /\ pulled' = Append(pulled, held) /\ torn' = torn
      BY <2>2 DEF Advance, senderVars
    <3>2. Len(pulled') = Len(pulled) + 1 /\ Len(pulled) \in Nat
      BY <1>n, <3>1
    <3>3. next - Len(pulled) > 0
      <4>1. next' - Len(pulled') \in Nat
        BY <1>l, <1>3
      <4> QED BY <1>n, <3>1, <3>2, <4>1
    <3>4. held = Len(pulled) + 1
      BY <1>3, <2>2 DEF Advance, Inv, ReceiverKnows
    <3>5. Waiting # <<>> /\ Head(Waiting) = held
      BY <1>k, <1>3, <3>2, <3>3, <3>4, NumbersTail DEF Waiting
    <3>6. Waiting' = Tail(Waiting)
      <4>1. Waiting' = Numbers(Len(pulled) + 1, (next - Len(pulled)) - 1)
        <5>1. next' - Len(pulled') = (next - Len(pulled)) - 1
          BY <1>n, <3>1, <3>2
        <5> QED BY <3>1, <3>2, <5>1 DEF Waiting, Numbers
      <4> QED BY <1>k, <1>3, <3>2, <3>3, <4>1, NumbersTail DEF Waiting
    <3> QED BY <1>k, <1>l, <1>3, <3>1, <3>5, <3>6 DEF Queue!Next, Queue!Get
  <2>3. CASE next' = next /\ pulled' = pulled
    <3>1. Waiting' = Waiting
      BY <2>3 DEF Waiting, Numbers
    <3>2. torn' = torn
      BY <1>3, <1>n DEF Inv, TypeOK
    <3> QED BY <1>k, <1>l, <1>3, <2>3, <3>1, <3>2
  <2>4. Push \/ Advance \/ (next' = next /\ pulled' = pulled)
    BY DEF Next, Sending, Poll, Ask, Compare, Measure, Drain, Drained, WriteSlot, Publish, Overflow, Told,
           CanPull, Take, CountBegin, Count, vars, senderVars, receiverVars
  <2> QED BY <2>1, <2>2, <2>3, <2>4
<1>4. torn => torn'
  BY <1>n DEF Next, Sending, Push, Poll, Ask, Compare, Measure, Drain, Drained, WriteSlot, Publish, Overflow, Told,
         CanPull, Take, Advance, CountBegin, Count, vars, senderVars, receiverVars
<1> QED BY <1>1, <1>2, <1>3, <1>4

(* The ring implements the queue its callers think of (push, pull, drain,  *)
(* wrap-around and the two-step publication of message_ring.hpp): each     *)
(* step is one of the queue's or invisible in it, until a torn read.       *)
THEOREM RingIsQueue == Spec => IsQueue
<1>1. Init => Inv
  BY DEF Init, Inv, TypeOK, InOrder, Conserved, RoomHonest, SenderKnows, ReceiverKnows,
         Occupied, Slot, Unpublished, InHand, Offsets
<1>2. Inv /\ [Next]_vars => Inv'
  BY InvStep
<1>3. Init => Queue!Init
  <2>1. Init => /\ torn = FALSE /\ pulled = <<>>
                /\ Contents = [k \in 1..0 |-> 0]
    BY DEF Init, Contents, Behind, InRing, Occupied, Unpublished, InHand
  <2>2. [k \in 1..0 |-> 0] = <<>>
    OBVIOUS
  <2> QED BY <2>1, <2>2 DEF Queue!Init
<1>4. Inv /\ Inv' /\ [Next]_vars => [Queue!Next]_Queue!vars
  BY QueueStep
<1> QED BY <1>1, <1>2, <1>3, <1>4, PTL DEF Spec, IsQueue, Queue!Spec
=============================================================================
