------------------------- MODULE SlottedPageProofs -------------------------
(***************************************************************************)
(* What the calls of a slotted page do to it, for every page size: lemmas  *)
(* for the proofs about whoever works with such pages.                     *)
(***************************************************************************)
EXTENDS SlottedPage, WellFoundedInduction, TLAPS

-----------------------------------------------------------------------------
(* A page that inserts, updates and deletes can have left behind.          *)

AnyByte == Byte \cup {ZeroByte, EntryByte}
EntryType == [offset : 0 .. PageSize, length : 0 .. PageSize]
PageType ==
  [free_offset : 0 .. PageSize, dir : Seq(EntryType), byte : [Offset -> AnyByte]]

Start(p, s) == p.dir[s + 1].offset
End(p, s) == p.dir[s + 1].offset + p.dir[s + 1].length
LiveIn(p) == {s \in Slots(p) : ~deleted(p, s)}

(* Directory and records do not meet, and no two records share a byte.     *)
Apart(p) ==
  /\ dir_end(p) <= p.free_offset
  /\ \A s \in LiveIn(p) : p.free_offset <= Start(p, s) /\ End(p, s) <= PageSize
  /\ \A s, t \in LiveIn(p) :
       s # t => End(p, s) <= Start(p, t) \/ End(p, t) <= Start(p, s)

PageOK(p) == p \in PageType /\ Apart(p)

-----------------------------------------------------------------------------
(* Every set of numbers that has a member has a least one.                 *)
LEMMA LeastNatural ==
  ASSUME NEW T \in SUBSET Nat, T # {}
  PROVE  \E x \in T : \A y \in T : x <= y
<1> DEFINE R == {ss \in Nat \X Nat : ss[1] < ss[2]}
<1>1. R = OpToRel(<, Nat)
  BY Zenon DEF OpToRel
<1>2. IsWellFoundedOn(R, Nat)
  BY <1>1, NatLessThanWellFounded, Zenon
<1>3. PICK x \in T : \A y \in T : ~(<<y, x>> \in R)
  <2> HIDE DEF R
  <2> QED BY <1>2, WFMin
<1>4. ASSUME NEW y \in T PROVE x <= y
  <2>1. <<y, x>> \in Nat \X Nat /\ <<y, x>> \notin R
    BY <1>3, <1>4
  <2> QED BY <2>1
<1> QED BY <1>4

(* The slots of a page and the end of its directory are numbers.           *)
LEMMA PageNumbers ==
  ASSUME NEW p \in PageType
  PROVE  /\ p.free_offset \in 0 .. PageSize /\ p.free_offset \in Nat
         /\ Len(p.dir) \in Nat /\ dir_end(p) \in Nat
         /\ \A s \in Slots(p) : /\ s \in Nat /\ s + 1 \in 1 .. Len(p.dir)
                                /\ p.dir[s + 1] \in EntryType
                                /\ Start(p, s) \in Nat /\ End(p, s) \in Nat
<1>1. p.free_offset \in 0 .. PageSize /\ p.dir \in Seq(EntryType) /\ PageSize \in Nat
  BY PageSizeAssumption DEF PageType
<1>2. Len(p.dir) \in Nat /\ dir_end(p) \in Nat
  BY <1>1 DEF dir_end, HeaderSize, EntrySize
<1>3. ASSUME NEW s \in Slots(p)
      PROVE  s \in Nat /\ s + 1 \in 1 .. Len(p.dir) /\ p.dir[s + 1] \in EntryType
  BY <1>1, <1>2 DEF Slots
<1>4. ASSUME NEW s \in Slots(p)
      PROVE  Start(p, s) \in Nat /\ End(p, s) \in Nat
  <2>1. p.dir[s + 1].offset \in 0 .. PageSize /\ p.dir[s + 1].length \in 0 .. PageSize
    BY <1>3, <1>4 DEF EntryType
  <2> QED BY ONLY <1>1, <2>1 DEF Start, End
<1> QED BY <1>1, <1>2, <1>3, <1>4

(* insert takes the first deleted slot, or else a new one.                 *)
LEMMA NextSlot ==
  ASSUME NEW p \in PageType
  PROVE  /\ next_slot(p) \in 0 .. Len(p.dir)
         /\ next_slot(p) # Len(p.dir) => next_slot(p) \in Slots(p) /\ deleted(p, next_slot(p))
         /\ \A t \in Slots(p) : t < next_slot(p) => ~deleted(p, t)
<1> DEFINE Q(s) == /\ s < Len(p.dir) => deleted(p, s)
                   /\ \A t \in Slots(p) : t < s => ~deleted(p, t)
           T == {s \in 0 .. Len(p.dir) : s < Len(p.dir) => deleted(p, s)}
<1>1. Len(p.dir) \in Nat
  BY PageNumbers
<1>2. T \in SUBSET Nat /\ Len(p.dir) \in T
  BY <1>1
<1>3. PICK s \in T : \A t \in T : s <= t
  BY <1>2, LeastNatural
<1>4. s \in 0 .. Len(p.dir) /\ Q(s)
  BY <1>1, <1>3 DEF Slots
<1>5. next_slot(p) \in 0 .. Len(p.dir) /\ Q(next_slot(p))
  BY <1>4 DEF next_slot
<1> QED BY <1>1, <1>5 DEF Slots

(* Page q is page p with another entry in the slot.                        *)
EntrySet(p, q, slot, entry) ==
  /\ q \in PageType /\ q.free_offset = p.free_offset
  /\ Len(q.dir) = IF slot = Len(p.dir) THEN Len(p.dir) + 1 ELSE Len(p.dir)
  /\ q.dir[slot + 1] = entry
  /\ \A s \in Slots(p) : s # slot => q.dir[s + 1] = p.dir[s + 1]
  /\ \A i \in Offset : i >= HeaderSize + EntrySize * (slot + 1) => q.byte[i] = p.byte[i]

(* A write to an entry changes that entry and no other, and of the bytes   *)
(* only those of the entry.                                                *)
LEMMA SetEntry ==
  ASSUME NEW p \in PageType, NEW slot \in 0 .. Len(p.dir),
         NEW offset \in 0 .. PageSize, NEW length \in 0 .. PageSize
  PROVE  EntrySet(p, set_entry(p, slot, offset, length), slot,
                  [offset |-> offset, length |-> length])
<1> DEFINE q == set_entry(p, slot, offset, length)
           e == [offset |-> offset, length |-> length]
           N == IF slot = Len(p.dir) THEN Len(p.dir) + 1 ELSE Len(p.dir)
           d == [i \in 1 .. N |-> IF i = slot + 1 THEN e ELSE p.dir[i]]
           o == HeaderSize + EntrySize * slot
           b == copy(p.byte, o, [i \in 1 .. EntrySize |-> EntryByte])
<1>1. /\ p.free_offset \in 0 .. PageSize /\ p.dir \in Seq(EntryType) /\ Len(p.dir) \in Nat
      /\ p.byte \in [Offset -> AnyByte] /\ PageSize \in Nat /\ slot \in Nat
  BY PageSizeAssumption, PageNumbers DEF PageType
<1>2. q = [p EXCEPT !.dir = d, !.byte = b]
  BY DEF set_entry
<1>3. p = [free_offset |-> p.free_offset, dir |-> p.dir, byte |-> p.byte]
  BY DEF PageType
<1>4. q = [free_offset |-> p.free_offset, dir |-> d, byte |-> b]
  <2> HIDE DEF q, d, b
  <2> QED BY <1>2, <1>3
<1>5. N \in Nat /\ e \in EntryType /\ slot + 1 \in 1 .. N
  BY <1>1 DEF EntryType
<1>6. d \in Seq(EntryType) /\ Len(d) = N
  <2>1. d \in [1 .. N -> EntryType]
    <3>1. SUFFICES ASSUME NEW i \in 1 .. N, i # slot + 1 PROVE p.dir[i] \in EntryType
      BY <1>5
    <3>2. i \in 1 .. Len(p.dir)
      BY <1>1, <3>1
    <3> QED BY <1>1, <3>2
  <2> HIDE DEF d, N
  <2> QED BY <1>5, <2>1
<1>7. /\ Len([i \in 1 .. EntrySize |-> EntryByte]) = EntrySize
      /\ o + EntrySize = HeaderSize + EntrySize * (slot + 1)
  BY <1>1 DEF EntrySize, HeaderSize
<1>8. b \in [Offset -> AnyByte]
  <2>1. SUFFICES ASSUME NEW i \in Offset,
                        i >= o /\ i < o + Len([j \in 1 .. EntrySize |-> EntryByte])
                 PROVE  [j \in 1 .. EntrySize |-> EntryByte][i - o + 1] \in AnyByte
    BY <1>1 DEF copy
  <2>2. i - o + 1 \in 1 .. EntrySize
    BY <1>1, <1>7, <2>1 DEF Offset, EntrySize, HeaderSize
  <2> QED BY <2>2 DEF AnyByte
<1>9. \A i \in Offset : i >= HeaderSize + EntrySize * (slot + 1) => b[i] = p.byte[i]
  BY <1>1, <1>7 DEF copy, Offset, EntrySize, HeaderSize
<1>10. q \in PageType
  <2> HIDE DEF q, d, b
  <2> QED BY <1>1, <1>4, <1>6, <1>8 DEF PageType
<1>11. d[slot + 1] = e /\ \A s \in Slots(p) : s # slot => d[s + 1] = p.dir[s + 1]
  <2>1. ASSUME NEW s \in Slots(p), s # slot PROVE d[s + 1] = p.dir[s + 1]
    <3>1. s + 1 \in 1 .. N /\ s + 1 # slot + 1
      BY <1>1, <2>1, PageNumbers DEF Slots
    <3> QED BY <3>1
  <2> QED BY <1>5, <2>1
<1> HIDE DEF d, b
<1> QED BY <1>4, <1>6, <1>9, <1>10, <1>11 DEF EntrySet

(* A record of which neither the entry nor a byte has changed is the same. *)
LEMMA GetSame ==
  ASSUME NEW p \in PageType, NEW q \in PageType, NEW s \in Slots(p), s \in Slots(q),
         q.dir[s + 1] = p.dir[s + 1],
         ~deleted(p, s) => /\ End(p, s) <= PageSize
                           /\ \A i \in Offset : Start(p, s) <= i /\ i < End(p, s) =>
                                                  q.byte[i] = p.byte[i]
  PROVE  get(q, s) = get(p, s)
<1>1. CASE deleted(p, s)
  <2>1. deleted(q, s)
    BY <1>1 DEF deleted
  <2> QED BY <1>1, <2>1 DEF get
<1>2. CASE ~deleted(p, s)
  <2>1. ~deleted(q, s)
    BY <1>2 DEF deleted
  <2>2. ~(s >= Len(p.dir)) /\ ~(s >= Len(q.dir))
    BY PageNumbers DEF Slots
  <2>3. p.dir[s + 1] \in EntryType /\ PageSize \in Nat
    BY PageNumbers, PageSizeAssumption
  <2>4. ASSUME NEW i \in 1 .. p.dir[s + 1].length
        PROVE  q.byte[q.dir[s + 1].offset + i - 1] = p.byte[p.dir[s + 1].offset + i - 1]
    <3> DEFINE k == p.dir[s + 1].offset + i - 1
    <3>1. k \in Offset /\ Start(p, s) <= k /\ k < End(p, s)
      BY <1>2, <2>3 DEF Start, End, Offset, EntryType
    <3> HIDE DEF k
    <3>2. q.byte[k] = p.byte[k]
      BY <1>2, <3>1
    <3> QED BY <3>2 DEF k
  <2>5. get(p, s) = [i \in 1 .. p.dir[s + 1].length |-> p.byte[p.dir[s + 1].offset + i - 1]]
    BY <1>2, <2>2 DEF get
  <2>6. get(q, s) = [i \in 1 .. p.dir[s + 1].length |-> q.byte[q.dir[s + 1].offset + i - 1]]
    BY <2>1, <2>2 DEF get
  <2> QED BY <2>4, <2>5, <2>6
<1> QED BY <1>1, <1>2

(* Bytes that are copied to a page are found there, and the others are as  *)
(* they were.                                                              *)
LEMMA Copied ==
  ASSUME NEW byte \in [Offset -> AnyByte], NEW r \in Seq(Byte), NEW o \in Nat,
         o + Len(r) <= PageSize
  PROVE  /\ copy(byte, o, r) \in [Offset -> AnyByte]
         /\ \A i \in 1 .. Len(r) : o + i - 1 \in Offset /\ copy(byte, o, r)[o + i - 1] = r[i]
         /\ \A i \in Offset : i < o \/ i >= o + Len(r) => copy(byte, o, r)[i] = byte[i]
<1>1. Len(r) \in Nat /\ PageSize \in Nat
  BY PageSizeAssumption
<1>2. ASSUME NEW i \in Offset, i >= o /\ i < o + Len(r)
      PROVE  r[i - o + 1] \in AnyByte
  <2>1. i - o + 1 \in 1 .. Len(r)
    BY <1>1, <1>2 DEF Offset
  <2> QED BY <2>1 DEF AnyByte
<1>3. copy(byte, o, r) \in [Offset -> AnyByte]
  BY <1>2 DEF copy
<1>4. ASSUME NEW i \in 1 .. Len(r)
      PROVE  o + i - 1 \in Offset /\ copy(byte, o, r)[o + i - 1] = r[i]
  <2> DEFINE k == o + i - 1
  <2>1. k \in Offset /\ k >= o /\ k < o + Len(r) /\ k - o + 1 = i
    BY <1>1 DEF Offset
  <2> HIDE DEF k
  <2>2. copy(byte, o, r)[k] = r[k - o + 1]
    BY <2>1 DEF copy
  <2> QED BY <2>1, <2>2 DEF k
<1>5. \A i \in Offset : i < o \/ i >= o + Len(r) => copy(byte, o, r)[i] = byte[i]
  BY <1>1 DEF copy, Offset
<1> QED BY <1>3, <1>4, <1>5

(* A page after a record's bytes have been written at an offset and the    *)
(* entry of a slot has been made to say so: what insert and an update in   *)
(* place have in common.                                                   *)
stored(p, slot, f, offset, r) ==
  set_entry([p EXCEPT !.free_offset = f, !.byte = copy(@, offset, r)], slot, offset, Len(r))

(* Page q is page p with x under a slot, and nothing else has changed for  *)
(* who reads the other slots.                                              *)
Changed(p, q, slot, x) ==
  /\ PageOK(q)
  /\ Len(q.dir) = IF slot = Len(p.dir) THEN Len(p.dir) + 1 ELSE Len(p.dir)
  /\ get(q, slot) = x
  /\ \A s \in Slots(p) : s # slot => get(q, s) = get(p, s)

(* Between the directory and the end of the page, and away from all other  *)
(* records, a record can be written: it is there, and the others still     *)
(* are what they were.                                                     *)
LEMMA Stored ==
  ASSUME NEW p, PageOK(p), NEW r \in Seq(Byte), NEW slot \in 0 .. Len(p.dir),
         NEW f \in Nat, NEW offset \in Nat,
         f <= p.free_offset, f <= offset, offset + Len(r) <= PageSize,
         f >= dir_end(p) + IF slot = Len(p.dir) THEN EntrySize ELSE 0,
         \A t \in LiveIn(p) : t # slot =>
           offset + Len(r) <= Start(p, t) \/ End(p, t) <= offset
  PROVE  LET q == stored(p, slot, f, offset, r)
         IN  Changed(p, q, slot, r) /\ LiveIn(q) = LiveIn(p) \cup {slot}
<1> DEFINE m == [p EXCEPT !.free_offset = f, !.byte = copy(@, offset, r)]
           q == stored(p, slot, f, offset, r)
<1>1. /\ p \in PageType /\ Apart(p) /\ p.byte \in [Offset -> AnyByte] /\ p.dir \in Seq(EntryType)
      /\ Len(r) \in Nat /\ PageSize \in Nat /\ Len(p.dir) \in Nat /\ slot \in Nat
      /\ p.free_offset \in 0 .. PageSize /\ dir_end(p) \in Nat /\ offset \in 0 .. PageSize
      /\ Len(r) \in 0 .. PageSize
  BY PageSizeAssumption, PageNumbers DEF PageOK, PageType
<1>2. /\ copy(p.byte, offset, r) \in [Offset -> AnyByte]
      /\ \A i \in 1 .. Len(r) :
           offset + i - 1 \in Offset /\ copy(p.byte, offset, r)[offset + i - 1] = r[i]
      /\ \A i \in Offset :
           i < offset \/ i >= offset + Len(r) => copy(p.byte, offset, r)[i] = p.byte[i]
  BY <1>1, Copied
<1>3. p = [free_offset |-> p.free_offset, dir |-> p.dir, byte |-> p.byte]
  BY <1>1 DEF PageType
<1>4. m = [free_offset |-> f, dir |-> p.dir, byte |-> copy(p.byte, offset, r)]
  <2> DEFINE b == copy(p.byte, offset, r)
  <2>1. m = [p EXCEPT !.free_offset = f, !.byte = b]
    OBVIOUS
  <2> HIDE DEF m, b
  <2>2. m = [free_offset |-> f, dir |-> p.dir, byte |-> b]
    BY <1>3, <2>1
  <2> QED BY <2>2 DEF b
<1>5. m \in PageType
  <2>1. f \in 0 .. PageSize
    BY <1>1
  <2> HIDE DEF m
  <2> QED BY <1>1, <1>2, <1>4, <2>1 DEF PageType
<1>6. m.free_offset = f /\ m.dir = p.dir /\ m.byte = copy(p.byte, offset, r) /\ Slots(m) = Slots(p)
  <2> HIDE DEF m
  <2> QED BY <1>4 DEF Slots
<1>7. q = set_entry(m, slot, offset, Len(r))
  BY DEF stored
<1> HIDE DEF m, q
<1>8. /\ q \in PageType /\ q.free_offset = f
      /\ Len(q.dir) = IF slot = Len(p.dir) THEN Len(p.dir) + 1 ELSE Len(p.dir)
      /\ q.dir[slot + 1] = [offset |-> offset, length |-> Len(r)]
      /\ \A s \in Slots(p) : s # slot => q.dir[s + 1] = p.dir[s + 1]
      /\ \A i \in Offset : i >= HeaderSize + EntrySize * (slot + 1) =>
                             q.byte[i] = copy(p.byte, offset, r)[i]
  <2>1. slot \in 0 .. Len(m.dir) /\ offset \in 0 .. PageSize /\ Len(r) \in 0 .. PageSize
    BY <1>1, <1>6
  <2>2. /\ q \in PageType /\ q.free_offset = m.free_offset
        /\ Len(q.dir) = IF slot = Len(m.dir) THEN Len(m.dir) + 1 ELSE Len(m.dir)
        /\ q.dir[slot + 1] = [offset |-> offset, length |-> Len(r)]
        /\ \A s \in Slots(m) : s # slot => q.dir[s + 1] = m.dir[s + 1]
        /\ \A i \in Offset : i >= HeaderSize + EntrySize * (slot + 1) =>
                               q.byte[i] = m.byte[i]
    <3>1. EntrySet(m, q, slot, [offset |-> offset, length |-> Len(r)])
      BY ONLY <1>5, <1>7, <2>1, SetEntry
    <3> QED BY ONLY <3>1 DEF EntrySet
  <2> QED BY <1>6, <2>2
<1>9. dir_end(q) = dir_end(p) + IF slot = Len(p.dir) THEN EntrySize ELSE 0
  <2>1. CASE slot = Len(p.dir)
    BY <1>1, <1>8, <2>1 DEF dir_end, EntrySize, HeaderSize
  <2>2. CASE slot # Len(p.dir)
    BY <1>1, <1>8, <2>2 DEF dir_end
  <2> QED BY <2>1, <2>2
<1>10. /\ dir_end(q) \in Nat /\ HeaderSize + EntrySize * (slot + 1) \in Nat
       /\ HeaderSize + EntrySize * (slot + 1) <= dir_end(q) /\ dir_end(q) <= f
       /\ 0 < offset
  <2>1. dir_end(q) = HeaderSize + EntrySize * Len(q.dir)
    BY DEF dir_end
  <2>2. dir_end(q) <= f /\ Len(q.dir) \in Nat /\ slot + 1 <= Len(q.dir)
    <3>1. CASE slot = Len(p.dir)
      BY <1>1, <1>8, <1>9, <3>1
    <3>2. CASE slot # Len(p.dir)
      BY <1>1, <1>8, <1>9, <3>2
    <3> QED BY <3>1, <3>2
  <2> QED BY <1>1, <2>1, <2>2 DEF EntrySize, HeaderSize
<1>11. Slots(q) = Slots(p) \cup {slot}
  BY <1>1, <1>8 DEF Slots
<1>12. Start(q, slot) = offset /\ End(q, slot) = offset + Len(r) /\ ~deleted(q, slot)
  BY <1>1, <1>8, <1>10 DEF Start, End, deleted, SLOT_DELETED
<1>13. \A s \in Slots(p) : s # slot =>
         /\ Start(q, s) = Start(p, s) /\ End(q, s) = End(p, s)
         /\ deleted(q, s) <=> deleted(p, s)
  BY <1>8 DEF Start, End, deleted
<1>14. LiveIn(q) = LiveIn(p) \cup {slot}
  <2>1. ASSUME NEW s \in Slots(p), s # slot PROVE s \in LiveIn(q) <=> s \in LiveIn(p)
    BY <1>11, <1>13, <2>1 DEF LiveIn
  <2>2. slot \in LiveIn(q) /\ LiveIn(q) \subseteq Slots(p) \cup {slot}
    BY <1>11, <1>12 DEF LiveIn
  <2>3. LiveIn(p) \subseteq Slots(p)
    BY DEF LiveIn
  <2> QED BY <2>1, <2>2, <2>3
<1>15. ASSUME NEW s \in LiveIn(p), s # slot
       PROVE  /\ s \in Slots(p) /\ Start(p, s) \in Nat /\ End(p, s) \in Nat
              /\ Start(q, s) = Start(p, s) /\ End(q, s) = End(p, s)
              /\ p.free_offset <= Start(p, s) /\ End(p, s) <= PageSize
              /\ offset + Len(r) <= Start(p, s) \/ End(p, s) <= offset
  <2>1. s \in Slots(p)
    BY DEF LiveIn
  <2>2. p.free_offset <= Start(p, s) /\ End(p, s) <= PageSize
    BY <1>1 DEF Apart
  <2> QED BY <1>1, <1>13, <1>15, <2>1, <2>2, PageNumbers
<1>16. Apart(q)
  <2>1. dir_end(q) <= q.free_offset
    BY <1>8, <1>10
  <2>2. ASSUME NEW s \in LiveIn(q)
        PROVE  q.free_offset <= Start(q, s) /\ End(q, s) <= PageSize
    <3>1. CASE s = slot
      BY <1>8, <1>12, <3>1
    <3>2. CASE s # slot
      <4>1. s \in LiveIn(p)
        BY <1>14, <3>2
      <4> QED BY <1>1, <1>8, <1>15, <3>2, <4>1
    <3> QED BY <3>1, <3>2
  <2>3. ASSUME NEW s \in LiveIn(q), NEW t \in LiveIn(q), s # t
        PROVE  End(q, s) <= Start(q, t) \/ End(q, t) <= Start(q, s)
    <3>1. CASE s = slot
      <4>1. t \in LiveIn(p) /\ t # slot
        BY <1>14, <2>3, <3>1
      <4> QED BY <1>1, <1>12, <1>15, <3>1, <4>1
    <3>2. CASE t = slot
      <4>1. s \in LiveIn(p) /\ s # slot
        BY <1>14, <2>3, <3>2
      <4> QED BY <1>1, <1>12, <1>15, <3>2, <4>1
    <3>3. CASE s # slot /\ t # slot
      <4>1. s \in LiveIn(p) /\ t \in LiveIn(p)
        BY <1>14, <3>3
      <4>2. End(p, s) <= Start(p, t) \/ End(p, t) <= Start(p, s)
        BY <1>1, <2>3, <4>1 DEF Apart
      <4> QED BY <1>15, <3>3, <4>1, <4>2
    <3> QED BY <3>1, <3>2, <3>3
  <2> QED BY <2>1, <2>2, <2>3 DEF Apart
<1>17. get(q, slot) = r
  <2>1. get(q, slot) = [i \in 1 .. Len(r) |-> q.byte[offset + i - 1]]
    <3>1. ~(slot >= Len(q.dir))
      BY <1>1, <1>8
    <3> QED BY <1>8, <1>12, <3>1 DEF get
  <2>2. ASSUME NEW i \in 1 .. Len(r) PROVE q.byte[offset + i - 1] = r[i]
    <3> DEFINE k == offset + i - 1
    <3>1. k \in Offset /\ copy(p.byte, offset, r)[k] = r[i]
      BY <1>2
    <3>2. k >= HeaderSize + EntrySize * (slot + 1)
      BY <1>1, <1>10
    <3> HIDE DEF k
    <3>3. q.byte[k] = r[i]
      BY <1>8, <3>1, <3>2
    <3> QED BY <3>3 DEF k
  <2>3. r = [i \in 1 .. Len(r) |-> r[i]]
    OBVIOUS
  <2> QED BY <2>1, <2>2, <2>3
<1>18. ASSUME NEW s \in Slots(p), s # slot PROVE get(q, s) = get(p, s)
  <2>1. ASSUME ~deleted(p, s), NEW i \in Offset, Start(p, s) <= i, i < End(p, s)
        PROVE  q.byte[i] = p.byte[i]
    <3>1. s \in LiveIn(p) /\ i \in Nat
      BY <2>1 DEF LiveIn, Offset
    <3>2. i < offset \/ i >= offset + Len(r)
      BY <1>1, <1>15, <1>18, <2>1, <3>1
    <3>3. i >= HeaderSize + EntrySize * (slot + 1)
      BY <1>1, <1>10, <1>15, <1>18, <2>1, <3>1
    <3> QED BY <1>2, <1>8, <3>2, <3>3
  <2>2. ~deleted(p, s) => End(p, s) <= PageSize
    BY <1>1 DEF Apart, LiveIn
  <2>3. s \in Slots(q) /\ q.dir[s + 1] = p.dir[s + 1]
    BY <1>8, <1>11, <1>18
  <2> QED BY <1>1, <1>8, <2>1, <2>2, <2>3, GetSame
<1> QED BY <1>8, <1>14, <1>16, <1>17, <1>18 DEF PageOK, Changed, q

-----------------------------------------------------------------------------
(* What each call promises.                                                *)

(* An insert that finds room stores the record in the slot it answers, the *)
(* first deleted one or else a new one, and disturbs no other record.      *)
LEMMA InsertStores ==
  ASSUME NEW p, PageOK(p), NEW r \in Seq(Byte), fits(p, r)
  PROVE  LET n == next_slot(p)
         IN  /\ Changed(p, insert(p, r), n, r) /\ LiveIn(insert(p, r)) = LiveIn(p) \cup {n}
             /\ n \notin LiveIn(p)
<1> DEFINE n == next_slot(p)
           o == p.free_offset - Len(r)
           room == IF n = Len(p.dir) THEN EntrySize ELSE 0
<1>1. /\ p \in PageType /\ Apart(p) /\ PageSize \in Nat /\ Len(r) \in Nat /\ Len(p.dir) \in Nat
      /\ p.free_offset \in 0 .. PageSize /\ p.free_offset \in Nat /\ dir_end(p) \in Nat
  BY PageSizeAssumption, PageNumbers DEF PageOK
<1>2. n \in 0 .. Len(p.dir) /\ (n # Len(p.dir) => n \in Slots(p) /\ deleted(p, n))
  BY <1>1, NextSlot
<1>3. room \in Nat
  BY DEF EntrySize
<1>4. p.free_offset >= dir_end(p) + Len(r) + room
  BY DEF fits
<1>5. insert(p, r) = stored(p, n, o, o, r)
  BY DEF insert, stored
<1>6. o \in Nat /\ o <= p.free_offset /\ o + Len(r) <= PageSize /\ o >= dir_end(p) + room
  <2> HIDE DEF room, n
  <2> QED BY <1>1, <1>3, <1>4
<1>7. ASSUME NEW t \in LiveIn(p), t # n
      PROVE  o + Len(r) <= Start(p, t) \/ End(p, t) <= o
  BY <1>1 DEF Apart
<1>8. Changed(p, stored(p, n, o, o, r), n, r) /\ LiveIn(stored(p, n, o, o, r)) = LiveIn(p) \cup {n}
  <2> HIDE DEF n, o
  <2>1. o <= o
    BY <1>6
  <2>2. o >= dir_end(p) + IF n = Len(p.dir) THEN EntrySize ELSE 0
    BY <1>6
  <2> QED BY <1>2, <1>6, <1>7, <2>1, <2>2, Stored
<1>9. n \notin LiveIn(p)
  BY <1>1, <1>2 DEF LiveIn, Slots
<1> QED BY <1>5, <1>8, <1>9

(* A record that is deleted is gone, and no other one is.                  *)
LEMMA DeleteEmpties ==
  ASSUME NEW p, PageOK(p), NEW slot \in Slots(p)
  PROVE  /\ Changed(p, delete_slot(p, slot), slot, NoRecord)
         /\ LiveIn(delete_slot(p, slot)) = LiveIn(p) \ {slot}
         /\ deleted(delete_slot(p, slot), slot)
<1> DEFINE q == delete_slot(p, slot)
<1>1. /\ p \in PageType /\ Apart(p) /\ PageSize \in Nat /\ Len(p.dir) \in Nat /\ dir_end(p) \in Nat
      /\ slot \in 0 .. Len(p.dir) /\ slot # Len(p.dir) /\ slot < Len(p.dir) /\ slot \in Nat
      /\ p.free_offset \in Nat
  BY PageSizeAssumption, PageNumbers DEF PageOK, Slots
<1>2. /\ q = set_entry(p, slot, SLOT_DELETED, 0)
      /\ SLOT_DELETED \in 0 .. PageSize /\ 0 \in 0 .. PageSize
  BY <1>1 DEF delete_slot, SLOT_DELETED
<1> HIDE DEF q
<1>3. /\ q \in PageType /\ q.free_offset = p.free_offset /\ Len(q.dir) = Len(p.dir)
      /\ q.dir[slot + 1] = [offset |-> SLOT_DELETED, length |-> 0]
      /\ \A s \in Slots(p) : s # slot => q.dir[s + 1] = p.dir[s + 1]
      /\ \A i \in Offset : i >= HeaderSize + EntrySize * (slot + 1) => q.byte[i] = p.byte[i]
  <2>1. /\ q \in PageType /\ q.free_offset = p.free_offset
        /\ Len(q.dir) = IF slot = Len(p.dir) THEN Len(p.dir) + 1 ELSE Len(p.dir)
        /\ q.dir[slot + 1] = [offset |-> SLOT_DELETED, length |-> 0]
        /\ \A s \in Slots(p) : s # slot => q.dir[s + 1] = p.dir[s + 1]
        /\ \A i \in Offset : i >= HeaderSize + EntrySize * (slot + 1) => q.byte[i] = p.byte[i]
    <3>1. p \in PageType /\ slot \in 0 .. Len(p.dir)
      BY <1>1
    <3>2. EntrySet(p, q, slot, [offset |-> SLOT_DELETED, length |-> 0])
      BY ONLY <1>2, <3>1, SetEntry
    <3> QED BY ONLY <3>2 DEF EntrySet
  <2> QED BY <1>1, <2>1
<1>4. dir_end(q) = dir_end(p) /\ Slots(q) = Slots(p) /\ deleted(q, slot)
  BY <1>3 DEF dir_end, Slots, deleted
<1>5. \A s \in Slots(p) : s # slot =>
        /\ Start(q, s) = Start(p, s) /\ End(q, s) = End(p, s)
        /\ deleted(q, s) <=> deleted(p, s)
  BY <1>3 DEF Start, End, deleted
<1>6. LiveIn(q) = LiveIn(p) \ {slot}
  BY <1>4, <1>5 DEF LiveIn
<1>7. Apart(q)
  BY <1>1, <1>3, <1>4, <1>5, <1>6 DEF Apart, LiveIn
<1>8. get(q, slot) = NoRecord
  BY <1>4 DEF get
<1>9. /\ HeaderSize + EntrySize * (slot + 1) \in Nat
      /\ HeaderSize + EntrySize * (slot + 1) <= dir_end(p)
  BY <1>1 DEF dir_end, HeaderSize, EntrySize
<1>10. ASSUME NEW s \in Slots(p), s # slot PROVE get(q, s) = get(p, s)
  <2>1. ASSUME ~deleted(p, s)
        PROVE  /\ End(p, s) <= PageSize
               /\ \A i \in Offset : Start(p, s) <= i /\ i < End(p, s) => q.byte[i] = p.byte[i]
    <3>1. s \in LiveIn(p) /\ Start(p, s) \in Nat
      BY <1>1, <2>1, PageNumbers DEF LiveIn
    <3>2. Start(p, s) >= HeaderSize + EntrySize * (slot + 1) /\ End(p, s) <= PageSize
      <4>1. dir_end(p) <= p.free_offset /\ p.free_offset <= Start(p, s) /\ End(p, s) <= PageSize
        BY <1>1, <3>1 DEF Apart
      <4> QED BY <1>1, <1>9, <3>1, <4>1
    <3>3. \A i \in Offset : Start(p, s) <= i => i >= HeaderSize + EntrySize * (slot + 1)
      BY <1>9, <3>1, <3>2 DEF Offset
    <3> QED BY <1>3, <3>2, <3>3
  <2>2. s \in Slots(q) /\ q.dir[s + 1] = p.dir[s + 1]
    BY <1>3, <1>4, <1>10
  <2> QED BY <1>1, <1>3, <2>1, <2>2, GetSame
<1>11. PageOK(q)
  BY <1>3, <1>7 DEF PageOK
<1> QED BY <1>1, <1>3, <1>4, <1>6, <1>8, <1>10, <1>11 DEF Changed, q

(* A record that is no longer than the one before it takes its place.      *)
LEMMA UpdateInPlace ==
  ASSUME NEW p, PageOK(p), NEW r \in Seq(Byte), NEW slot \in Slots(p), in_place(p, slot, r)
  PROVE  Changed(p, update(p, slot, r), slot, r) /\ LiveIn(update(p, slot, r)) = LiveIn(p)
<1> DEFINE o == p.dir[slot + 1].offset
<1>1. /\ p \in PageType /\ Apart(p) /\ PageSize \in Nat /\ Len(p.dir) \in Nat /\ dir_end(p) \in Nat
      /\ slot \in 0 .. Len(p.dir) /\ slot # Len(p.dir) /\ p.free_offset \in Nat /\ Len(r) \in Nat
      /\ slot \in LiveIn(p) /\ p.dir[slot + 1] \in EntryType
  BY PageSizeAssumption, PageNumbers DEF PageOK, Slots, in_place, LiveIn
<1>2. /\ o \in Nat /\ p.free_offset <= o /\ p.dir[slot + 1].length >= Len(r)
      /\ o + p.dir[slot + 1].length <= PageSize /\ p.dir[slot + 1].length \in Nat
  BY <1>1 DEF Apart, Start, End, in_place, EntryType
<1>3. update(p, slot, r) = stored(p, slot, p.free_offset, o, r)
  <2> DEFINE m == [p EXCEPT !.byte = copy(@, o, r)]
             n == [p EXCEPT !.free_offset = p.free_offset, !.byte = copy(@, o, r)]
  <2>1. m = n
    <3> DEFINE b == copy(p.byte, o, r)
    <3>1. p = [free_offset |-> p.free_offset, dir |-> p.dir, byte |-> p.byte]
      BY <1>1 DEF PageType
    <3>2. m = [p EXCEPT !.byte = b] /\ n = [p EXCEPT !.free_offset = p.free_offset, !.byte = b]
      OBVIOUS
    <3> HIDE DEF m, n, b
    <3> QED BY <3>1, <3>2
  <2>2. update(p, slot, r) = set_entry(m, slot, o, Len(r))
    BY DEF update
  <2>3. stored(p, slot, p.free_offset, o, r) = set_entry(n, slot, o, Len(r))
    BY DEF stored
  <2> HIDE DEF m, n
  <2> QED BY <2>1, <2>2, <2>3
<1>4. p.free_offset >= dir_end(p) + IF slot = Len(p.dir) THEN EntrySize ELSE 0
  BY <1>1 DEF Apart
<1>5. ASSUME NEW t \in LiveIn(p), t # slot
      PROVE  o + Len(r) <= Start(p, t) \/ End(p, t) <= o
  <2>1. End(p, slot) <= Start(p, t) \/ End(p, t) <= Start(p, slot)
    BY <1>1, <1>5 DEF Apart
  <2>2. Start(p, t) \in Nat /\ End(p, t) \in Nat
    BY <1>1, PageNumbers DEF LiveIn
  <2>3. Start(p, slot) = o /\ End(p, slot) = o + p.dir[slot + 1].length
    BY DEF Start, End
  <2>4. /\ o \in Nat /\ Len(r) \in Nat /\ p.dir[slot + 1].length \in Nat
        /\ Len(r) <= p.dir[slot + 1].length
    BY <1>1, <1>2
  <2> HIDE DEF o
  <2> QED BY ONLY <2>1, <2>2, <2>3, <2>4
<1>6. o + Len(r) <= PageSize /\ p.free_offset <= p.free_offset
  <2>1. o \in Nat /\ Len(r) \in Nat /\ PageSize \in Nat /\ p.free_offset \in Nat
    BY <1>1, <1>2
  <2> HIDE DEF o
  <2> QED BY ONLY <1>2, <2>1
<1>7. /\ Changed(p, stored(p, slot, p.free_offset, o, r), slot, r)
      /\ LiveIn(stored(p, slot, p.free_offset, o, r)) = LiveIn(p) \cup {slot}
  <2>1. /\ PageOK(p) /\ r \in Seq(Byte) /\ slot \in 0 .. Len(p.dir)
        /\ p.free_offset \in Nat /\ o \in Nat
    BY <1>1, <1>2
  <2> HIDE DEF o
  <2> QED BY ONLY <1>2, <1>4, <1>5, <1>6, <2>1, Stored
<1> QED BY <1>1, <1>3, <1>7

(* A page that init has made has no records.                               *)
LEMMA InitEmpty == PageOK(init) /\ Len(init.dir) = 0 /\ LiveIn(init) = {}
<1>1. PageSize \in Nat /\ PageSize > HeaderSize
  BY PageSizeAssumption
<1>2. /\ init.free_offset = PageSize /\ init.dir = <<>> /\ Len(init.dir) = 0
      /\ init \in PageType
  BY <1>1 DEF init, PageType, AnyByte
<1>3. Slots(init) = {} /\ LiveIn(init) = {}
  BY <1>2 DEF Slots, LiveIn
<1>4. dir_end(init) <= init.free_offset
  BY <1>1, <1>2 DEF dir_end, HeaderSize, EntrySize
<1> QED BY <1>2, <1>3, <1>4 DEF PageOK, Apart

(* free_space, where it is not 0, is the gap between the directory and the *)
(* records, and an entry more than a record needs is always enough.        *)
LEMMA RoomFits ==
  ASSUME NEW p, PageOK(p), NEW r \in Seq(Byte), free_space(p) >= Len(r) + EntrySize + 4
  PROVE  fits(p, r)
<1>1. p.free_offset \in Nat /\ dir_end(p) \in Nat /\ Len(r) \in Nat
  BY PageNumbers DEF PageOK
<1>2. p.free_offset - dir_end(p) >= Len(r) + EntrySize + 4
  BY <1>1 DEF free_space, EntrySize
<1>3. CASE next_slot(p) = Len(p.dir)
  BY <1>1, <1>2, <1>3 DEF fits, EntrySize
<1>4. CASE next_slot(p) # Len(p.dir)
  BY <1>1, <1>2, <1>4 DEF fits, EntrySize
<1> QED BY <1>3, <1>4
=============================================================================
