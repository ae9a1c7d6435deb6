---------------------- MODULE SlottedPageClientProofs ----------------------
(***************************************************************************)
(* A slotted page keeps records apart and returns each one as it was       *)
(* stored: proofs for every page size and every set of records.            *)
(***************************************************************************)
EXTENDS SlottedPageClient, SlottedPageProofs, SequenceTheorems

-----------------------------------------------------------------------------
(* The inductive invariant: the page is in order, and what a live slot     *)
(* holds is a record.                                                      *)
RecordsOK(p) == \A s \in LiveIn(p) : get(p, s) \in Record
GoodPage(p) == PageOK(p) /\ RecordsOK(p)
IInv == GoodPage(page)

(* A page in order has fewer slots than bytes, so that no slot is Full.    *)
LEMMA SlotsAreFew ==
  ASSUME NEW p, PageOK(p)
  PROVE  Len(p.dir) \in 0 .. PageSize
<1>1. /\ Len(p.dir) \in Nat /\ dir_end(p) <= p.free_offset /\ p.free_offset \in 0 .. PageSize
      /\ PageSize \in Nat
  BY PageNumbers, PageSizeAssumption DEF PageOK, Apart
<1> QED BY <1>1 DEF dir_end, HeaderSize, EntrySize

-----------------------------------------------------------------------------
(* Every call leaves the page in order.                                    *)

(* A record that is inserted is the only one of its slot.                  *)
LEMMA InsertGood ==
  ASSUME NEW p, GoodPage(p), NEW r \in Record
  PROVE  GoodPage(insert(p, r))
<1> DEFINE n == next_slot(p)
           q == insert(p, r)
<1>1. CASE ~fits(p, r)
  BY <1>1 DEF insert
<1>2. CASE fits(p, r)
  <2>1. Changed(p, q, n, r) /\ LiveIn(q) = LiveIn(p) \cup {n}
    BY <1>2, InsertStores, RecordAssumption DEF GoodPage
  <2> QED BY <2>1 DEF GoodPage, RecordsOK, Changed, LiveIn
<1> QED BY <1>1, <1>2

(* A slot that is deleted is no longer live.                               *)
LEMMA DeleteGood ==
  ASSUME NEW p, GoodPage(p), NEW s \in Slots(p)
  PROVE  GoodPage(delete_slot(p, s))
<1> DEFINE q == delete_slot(p, s)
<1>1. Changed(p, q, s, NoRecord) /\ LiveIn(q) = LiveIn(p) \ {s}
  BY DeleteEmpties DEF GoodPage
<1> QED BY <1>1 DEF GoodPage, RecordsOK, Changed, LiveIn

(* A record that is written in place, or moved, keeps its slot.            *)
LEMMA UpdateGood ==
  ASSUME NEW p, GoodPage(p), NEW s \in Slots(p), NEW r \in Record
  PROVE  GoodPage(update(p, s, r))
<1>1. CASE in_place(p, s, r)
  <2>1. Changed(p, update(p, s, r), s, r) /\ LiveIn(update(p, s, r)) = LiveIn(p)
    BY <1>1, UpdateInPlace, RecordAssumption DEF GoodPage
  <2> QED BY <2>1 DEF GoodPage, RecordsOK, Changed, LiveIn
<1>2. CASE ~in_place(p, s, r)
  BY <1>2, DeleteGood, InsertGood DEF update
<1> QED BY <1>1, <1>2

(* So the invariant is kept by every call.                                 *)
LEMMA StepGood == IInv /\ [Next]_vars => IInv'
<1> SUFFICES ASSUME IInv, [Next]_vars PROVE IInv'
  OBVIOUS
<1>1. CASE UNCHANGED vars
  BY <1>1 DEF IInv, vars
<1>2. ASSUME NEW r \in Record, Insert(r) PROVE IInv'
  BY <1>2, InsertGood DEF IInv, Insert
<1>3. ASSUME NEW s \in Slots(page), Get(s) PROVE IInv'
  BY <1>3 DEF IInv, Get
<1>4. ASSUME NEW s \in Slots(page), Delete(s) PROVE IInv'
  BY <1>4, DeleteGood DEF IInv, Delete
<1>5. ASSUME NEW s \in Slots(page), NEW r \in Record, Update(s, r) PROVE IInv'
  BY <1>5, UpdateGood DEF IInv, Update
<1> QED BY <1>1, <1>2, <1>3, <1>4, <1>5 DEF Next

(* The page stays in order through any sequence of calls.                  *)
THEOREM PageStaysGood == Spec => []IInv
<1>1. Init => IInv
  BY InitEmpty DEF Init, IInv, GoodPage, RecordsOK
<1> QED BY <1>1, StepGood, PTL DEF Spec

-----------------------------------------------------------------------------
(* What the offsets and lengths of the header and the directory are.       *)
THEOREM TypeCorrect == Spec => []TypeOK
<1>1. IInv => TypeOK
  BY DEF IInv, GoodPage, PageOK, PageType, EntryType, AnyByte, TypeOK
<1> QED BY <1>1, PageStaysGood, PTL

(* The directory and the records never meet, and no two records share a    *)
(* byte.                                                                   *)
THEOREM RecordsStayApart == Spec => []NoOverlap
<1>1. IInv => NoOverlap
  BY DEF IInv, GoodPage, PageOK, Apart, LiveIn, Start, End, NoOverlap, Live, Entry
<1> QED BY <1>1, PageStaysGood, PTL

(* The table's test of free_space is enough for its insert.                *)
THEOREM RoomIsEnough == Spec => RoomMeansSuccess
<1> DEFINE A == \A r \in Record :
                  Insert(r) /\ free_space(page) >= Len(r) + EntrySize + 4 => ret' # Full
<1>1. ASSUME IInv PROVE A
  <2>1. SUFFICES ASSUME NEW r \in Record, Insert(r),
                        free_space(page) >= Len(r) + EntrySize + 4
                 PROVE  ret' # Full
    OBVIOUS
  <2>2. fits(page, r)
    BY <1>1, <2>1, RoomFits, RecordAssumption DEF IInv, GoodPage
  <2>3. ret' = next_slot(page)
    BY <2>1, <2>2 DEF Insert, insert_result
  <2>4. next_slot(page) \in 0 .. Len(page.dir) /\ Len(page.dir) \in 0 .. PageSize
    BY <1>1, NextSlot, SlotsAreFew DEF IInv, GoodPage, PageOK
  <2>5. next_slot(page) \in 0 .. PageSize
    BY <2>4, PageSizeAssumption
  <2> QED BY <2>3, <2>5, AnswersAssumption
<1>2. IInv => [A]_vars
  BY <1>1
<1> QED BY <1>2, PageStaysGood, PTL DEF RoomMeansSuccess

-----------------------------------------------------------------------------
(* The refinement: slots of the array are what get returns.                *)

AsArray(p) == [i \in 1 .. Len(p.dir) |-> get(p, i - 1)]

(* The answers of get are the records and NoRecord, and the deleted slots  *)
(* are the places of the array that hold NoRecord.                         *)
LEMMA ArrayTypes ==
  ASSUME NEW p, GoodPage(p)
  PROVE  /\ AsArray(p) \in Seq(Record \cup {NoRecord}) /\ Len(AsArray(p)) = Len(p.dir)
         /\ Len(p.dir) \in Nat
         /\ \A s \in Slots(p) : s + 1 \in 1 .. Len(p.dir) /\ AsArray(p)[s + 1] = get(p, s)
         /\ \A s \in Slots(p) : s \in LiveIn(p) <=> get(p, s) # NoRecord
<1>1. Len(p.dir) \in Nat
  BY PageNumbers DEF GoodPage, PageOK
<1>2. ASSUME NEW s \in Slots(p)
      PROVE  s \in Int /\ s + 1 \in 1 .. Len(p.dir) /\ AsArray(p)[s + 1] = get(p, s)
  <2>1. s \in Int /\ s + 1 \in 1 .. Len(p.dir) /\ (s + 1) - 1 = s
    BY <1>1 DEF Slots
  <2> QED BY <2>1 DEF AsArray
<1>3. ASSUME NEW s \in Slots(p)
      PROVE  /\ s \in LiveIn(p) => get(p, s) \in Record
             /\ s \notin LiveIn(p) => get(p, s) = NoRecord
  BY DEF GoodPage, RecordsOK, LiveIn, get
<1>4. NoRecord \notin Record
  BY AnswersAssumption, RecordAssumption
<1>5. AsArray(p) \in [1 .. Len(p.dir) -> Record \cup {NoRecord}]
  <2>1. SUFFICES ASSUME NEW i \in 1 .. Len(p.dir)
                 PROVE  get(p, i - 1) \in Record \cup {NoRecord}
    BY DEF AsArray
  <2>2. i - 1 \in Slots(p)
    BY <1>1 DEF Slots
  <2> QED BY <1>3, <2>2
<1> QED BY <1>1, <1>2, <1>3, <1>4, <1>5

(* A change to one slot of the page is a change to one place of the array. *)
LEMMA ArrayChanges ==
  ASSUME NEW p, GoodPage(p), NEW q, GoodPage(q), NEW slot \in 0 .. Len(p.dir), NEW x,
         Changed(p, q, slot, x), x \in Record \cup {NoRecord}
  PROVE  AsArray(q) = IF slot = Len(p.dir) THEN Append(AsArray(p), x)
                      ELSE [AsArray(p) EXCEPT ![slot + 1] = x]
<1> DEFINE S == Record \cup {NoRecord}
           t == AsArray(p)
           u == AsArray(q)
           v == IF slot = Len(p.dir) THEN Append(t, x) ELSE [t EXCEPT ![slot + 1] = x]
<1>1. t \in Seq(S) /\ u \in Seq(S) /\ Len(t) = Len(p.dir) /\ Len(u) = Len(q.dir)
  BY ArrayTypes
<1>2. Len(p.dir) \in Nat /\ slot \in Nat
  BY ArrayTypes
<1>3. /\ Len(q.dir) = IF slot = Len(p.dir) THEN Len(p.dir) + 1 ELSE Len(p.dir)
      /\ get(q, slot) = x
      /\ \A s \in Slots(p) : s # slot => get(q, s) = get(p, s)
  BY DEF Changed
<1>4. ASSUME NEW i \in 1 .. Len(q.dir)
      PROVE  u[i] = IF i = slot + 1 THEN x ELSE t[i]
  <2>1. u[i] = get(q, i - 1)
    BY DEF AsArray
  <2>2. CASE i = slot + 1
    BY <1>2, <1>3, <2>1, <2>2
  <2>3. CASE i # slot + 1
    <3>1. i \in 1 .. Len(p.dir) /\ i - 1 \in Slots(p) /\ i - 1 # slot
      BY <1>2, <1>3, <2>3 DEF Slots
    <3>2. t[i] = get(p, i - 1)
      BY <3>1 DEF AsArray
    <3> QED BY <1>3, <2>1, <2>3, <3>1, <3>2
  <2> QED BY <2>2, <2>3
<1>5. v \in Seq(S) /\ Len(v) = Len(u)
  <2> HIDE DEF t, u, S
  <2>0. x \in S
    BY DEF S
  <2>1. CASE slot = Len(p.dir)
    BY <1>1, <1>2, <1>3, <2>0, <2>1, AppendProperties
  <2>2. CASE slot # Len(p.dir)
    <3>1. slot + 1 \in 1 .. Len(t)
      BY <1>1, <1>2, <2>2
    <3> QED BY <1>1, <1>3, <2>0, <2>2, <3>1, ExceptSeq
  <2> QED BY <2>1, <2>2
<1>6. ASSUME NEW i \in 1 .. Len(u) PROVE u[i] = v[i]
  <2>1. u[i] = IF i = slot + 1 THEN x ELSE t[i]
    BY <1>1, <1>4
  <2> HIDE DEF t, u, S
  <2>0. x \in S
    BY DEF S
  <2>2. CASE slot = Len(p.dir)
    <3>1. i = slot + 1 \/ i \in 1 .. Len(t)
      BY <1>1, <1>2, <1>3, <2>2
    <3> QED BY <1>1, <1>2, <2>0, <2>1, <2>2, <3>1, AppendProperties
  <2>3. CASE slot # Len(p.dir)
    <3>1. slot + 1 \in 1 .. Len(t) /\ i \in 1 .. Len(t)
      BY <1>1, <1>2, <1>3, <2>3
    <3> QED BY <1>1, <2>0, <2>1, <2>3, <3>1, ExceptSeq
  <2> QED BY <2>2, <2>3
<1> QED
  <2> HIDE DEF t, u, v, S
  <2>1. u = v
    BY <1>1, <1>5, <1>6, SeqEqual
  <2> QED BY <2>1 DEF t, u, v

(* The array's own account of which of its places are free.                *)
LEMMA FreePlaces ==
  ASSUME NEW p, GoodPage(p)
  PROVE  Array!Deleted(AsArray(p)) = {s + 1 : s \in Slots(p) \ LiveIn(p)}
<1> DEFINE D == Array!Deleted(AsArray(p))
<1>1. D = {i \in 1 .. Len(p.dir) : AsArray(p)[i] = NoRecord}
  BY ArrayTypes DEF Array!Deleted
<1>2. ASSUME NEW i \in D PROVE i \in {s + 1 : s \in Slots(p) \ LiveIn(p)}
  <2>1. i - 1 \in Slots(p) /\ (i - 1) + 1 = i
    BY <1>1, ArrayTypes DEF Slots
  <2>2. i - 1 \notin LiveIn(p)
    BY <1>1, <2>1, ArrayTypes
  <2> QED BY <2>1, <2>2
<1>3. ASSUME NEW s \in Slots(p) \ LiveIn(p) PROVE s + 1 \in D
  BY <1>1, ArrayTypes
<1> QED BY <1>2, <1>3

(* An insert that finds room puts the record where the array says.         *)
LEMMA InsertPuts ==
  ASSUME NEW p, GoodPage(p), NEW r \in Record, fits(p, r)
  PROVE  LET n == next_slot(p)
             t == AsArray(p)
             u == AsArray(insert(p, r))
         IN  /\ n + 1 \in 1 .. Len(t) + 1 /\ (n + 1) - 1 = n
             /\ \/ /\ n + 1 \in Array!Deleted(t) /\ \A j \in Array!Deleted(t) : n + 1 <= j
                   /\ u = [t EXCEPT ![n + 1] = r]
                \/ Array!Deleted(t) = {} /\ n + 1 = Len(t) + 1 /\ u = Append(t, r)
<1> DEFINE n == next_slot(p)
<1>1. /\ n \in 0 .. Len(p.dir) /\ Len(p.dir) \in Nat
      /\ n # Len(p.dir) => n \in Slots(p) /\ deleted(p, n)
      /\ \A s \in Slots(p) : s < n => ~deleted(p, s)
  BY NextSlot, ArrayTypes DEF GoodPage, PageOK
<1>2. AsArray(insert(p, r)) = IF n = Len(p.dir) THEN Append(AsArray(p), r)
                              ELSE [AsArray(p) EXCEPT ![n + 1] = r]
  <2>1. Changed(p, insert(p, r), n, r)
    BY InsertStores, RecordAssumption DEF GoodPage
  <2> QED BY <1>1, <2>1, InsertGood, ArrayChanges
<1>3. Len(AsArray(p)) = Len(p.dir)
  BY ArrayTypes
<1>4. Array!Deleted(AsArray(p)) = {s + 1 : s \in Slots(p) \ LiveIn(p)}
  BY FreePlaces
<1>5. \A s \in Slots(p) \ LiveIn(p) : s \in Nat /\ s >= n
  BY <1>1 DEF LiveIn, Slots
<1>6. CASE n = Len(p.dir)
  <2>1. Slots(p) \ LiveIn(p) = {}
    BY <1>1, <1>5, <1>6 DEF Slots
  <2>2. Array!Deleted(AsArray(p)) = {}
    BY <1>4, <2>1
  <2>3. /\ n + 1 \in 1 .. Len(AsArray(p)) + 1 /\ (n + 1) - 1 = n /\ n + 1 = Len(AsArray(p)) + 1
        /\ AsArray(insert(p, r)) = Append(AsArray(p), r)
    <3> HIDE DEF n
    <3> QED BY <1>1, <1>2, <1>3, <1>6
  <2> QED BY <2>2, <2>3
<1>7. CASE n # Len(p.dir)
  <2>1. n \in Slots(p) \ LiveIn(p)
    BY <1>1, <1>7 DEF LiveIn
  <2>2. /\ n + 1 \in Array!Deleted(AsArray(p))
        /\ \A j \in Array!Deleted(AsArray(p)) : n + 1 <= j
    <3> HIDE DEF n
    <3> QED BY <1>1, <1>4, <1>5, <2>1
  <2>3. /\ n + 1 \in 1 .. Len(AsArray(p)) + 1 /\ (n + 1) - 1 = n
        /\ AsArray(insert(p, r)) = [AsArray(p) EXCEPT ![n + 1] = r]
    <3> HIDE DEF n
    <3> QED BY <1>1, <1>2, <1>3, <1>7
  <2> QED BY <2>2, <2>3
<1> QED BY <1>6, <1>7

(* Deleting a slot empties the place of the array.                         *)
LEMMA DeleteEmptiesPlace ==
  ASSUME NEW p, GoodPage(p), NEW s \in Slots(p)
  PROVE  AsArray(delete_slot(p, s)) = [AsArray(p) EXCEPT ![s + 1] = NoRecord]
<1>1. s \in 0 .. Len(p.dir) /\ s # Len(p.dir) /\ Changed(p, delete_slot(p, s), s, NoRecord)
  BY DeleteEmpties, ArrayTypes DEF GoodPage, Slots
<1> QED BY <1>1, DeleteGood, ArrayChanges

(* Every step of the page is a step of the array, or changes nothing of it.*)
LEMMA StepRefines == IInv /\ [Next]_vars => [Array!Next]_(Array!vars)
<1> SUFFICES ASSUME IInv, [Next]_vars PROVE [Array!Next]_(Array!vars)
  OBVIOUS
<1> DEFINE t == AsArray(page)
           u == AsArray(page')
<1>1. GoodPage(page) /\ Len(t) = Len(page.dir) /\ Len(page.dir) \in Nat
  BY ArrayTypes DEF IInv
<1>2. ASSUME NEW s \in Slots(page) PROVE s + 1 \in 1 .. Len(t) /\ t[s + 1] = get(page, s)
  BY <1>1, ArrayTypes
<1>3. t = [i \in 1 .. Len(page.dir) |-> get(page, i - 1)]
      /\ u = [i \in 1 .. Len(page'.dir) |-> get(page', i - 1)]
  BY DEF AsArray
<1>4. CASE UNCHANGED vars
  BY <1>4 DEF vars, Array!vars
<1>5. ASSUME NEW r \in Record, Insert(r) PROVE Array!Next
  <2> DEFINE n == next_slot(page)
  <2>1. CASE ~fits(page, r)
    BY <1>3, <1>5, <2>1 DEF Insert, insert, insert_result, Array!Next, Array!Insert
  <2>2. CASE fits(page, r)
    <3>1. /\ n + 1 \in 1 .. Len(t) + 1 /\ (n + 1) - 1 = n
          /\ \/ /\ n + 1 \in Array!Deleted(t) /\ \A j \in Array!Deleted(t) : n + 1 <= j
                /\ u = [t EXCEPT ![n + 1] = r]
             \/ Array!Deleted(t) = {} /\ n + 1 = Len(t) + 1 /\ u = Append(t, r)
      BY <1>1, <1>5, <2>2, InsertPuts DEF Insert
    <3>2. ret' = n /\ got' = NoRecord
      BY <1>5, <2>2 DEF Insert, insert_result
    <3> HIDE DEF n
    <3>3. Array!Put(t, r, n + 1) /\ ret' = (n + 1) - 1
      BY <1>3, <3>1, <3>2 DEF Array!Put
    <3> HIDE DEF t
    <3>4. Array!Insert(r)
      <4> USE DEF t
      <4> QED BY <1>3, <3>1, <3>2, <3>3 DEF Array!Insert
    <3> QED BY <3>4 DEF Array!Next
  <2> QED BY <2>1, <2>2
<1>6. ASSUME NEW s \in Slots(page), Get(s) PROVE Array!Next
  <2>1. Array!Get(s + 1)
    BY <1>2, <1>3, <1>6 DEF Get, Array!Get
  <2> QED BY <1>2, <1>3, <2>1 DEF Array!Next
<1>7. ASSUME NEW s \in Slots(page), Delete(s) PROVE Array!Next
  <2>1. u = [t EXCEPT ![s + 1] = NoRecord]
    BY <1>1, <1>7, DeleteEmptiesPlace DEF Delete
  <2>2. Array!Delete(s + 1)
    BY <1>3, <1>7, <2>1 DEF Delete, Array!Delete
  <2> QED BY <1>2, <1>3, <2>2 DEF Array!Next
<1>8. ASSUME NEW s \in Slots(page), NEW r \in Record, Update(s, r) PROVE Array!Next
  <2> DEFINE e == delete_slot(page, s)
  <2>1. Array!Update(s + 1, r)
    <3>1. CASE in_place(page, s, r)
      <4>1. u = [t EXCEPT ![s + 1] = r]
        <5>1. Changed(page, page', s, r)
          BY <1>1, <1>8, <3>1, UpdateInPlace, RecordAssumption DEF GoodPage, Update
        <5>2. GoodPage(page') /\ s \in 0 .. Len(page.dir) /\ s # Len(page.dir)
          BY <1>1, <1>8, UpdateGood DEF Update, Slots
        <5> QED BY <1>1, <5>1, <5>2, ArrayChanges
      <4>2. ret' = (s + 1) - 1 /\ got' = NoRecord
        BY <1>1, <1>8, <3>1 DEF Update, update_result, Slots
      <4> QED BY <1>3, <4>1, <4>2 DEF Array!Update
    <3>2. CASE ~in_place(page, s, r)
      <4>1. /\ GoodPage(e) /\ AsArray(e) = [t EXCEPT ![s + 1] = NoRecord]
            /\ Len(e.dir) = Len(page.dir) /\ deleted(e, s) /\ Slots(e) = Slots(page)
        <5>1. GoodPage(e) /\ AsArray(e) = [t EXCEPT ![s + 1] = NoRecord]
          BY <1>1, DeleteGood, DeleteEmptiesPlace
        <5>2. Changed(page, e, s, NoRecord) /\ deleted(e, s)
          BY <1>1, DeleteEmpties DEF GoodPage
        <5>3. s # Len(page.dir)
          BY <1>1 DEF Slots
        <5>4. Len(e.dir) = Len(page.dir)
          BY <5>2, <5>3 DEF Changed
        <5> HIDE DEF e, t
        <5> QED BY <5>1, <5>2, <5>4 DEF Slots
      <4>2. page' = insert(e, r) /\ ret' = insert_result(e, r) /\ got' = NoRecord
        BY <1>8, <3>2 DEF Update, update, update_result
      <4>3. CASE ~fits(e, r)
        <5>1. u = [t EXCEPT ![s + 1] = NoRecord] /\ ret' = Full
          BY <4>1, <4>2, <4>3 DEF insert, insert_result
        <5> QED BY <1>3, <4>2, <5>1 DEF Array!Update
      <4>4. CASE fits(e, r)
        <5> DEFINE n == next_slot(e)
                   v == AsArray(e)
        <5>1. /\ n + 1 \in 1 .. Len(v) + 1 /\ (n + 1) - 1 = n
              /\ \/ /\ n + 1 \in Array!Deleted(v) /\ \A j \in Array!Deleted(v) : n + 1 <= j
                    /\ u = [v EXCEPT ![n + 1] = r]
                 \/ Array!Deleted(v) = {} /\ n + 1 = Len(v) + 1 /\ u = Append(v, r)
          BY <4>1, <4>2, <4>4, InsertPuts
        <5>2. s + 1 \in Array!Deleted(v)
          BY <1>2, <4>1, FreePlaces DEF LiveIn
        <5>3. Array!Deleted(v) \subseteq 1 .. Len(t)
          BY <1>1, <4>1, ArrayTypes DEF Array!Deleted
        <5>4. ret' = n
          BY <4>2, <4>4 DEF insert_result
        <5>5. /\ n + 1 \in 1 .. Len(t) /\ ret' = (n + 1) - 1
              /\ n + 1 \in Array!Deleted(v) /\ \A j \in Array!Deleted(v) : n + 1 <= j
              /\ u = [v EXCEPT ![n + 1] = r]
          <6> HIDE DEF n, t, u, v
          <6> QED BY <5>1, <5>2, <5>3, <5>4
        <5>6. Array!Put(v, r, n + 1)
          <6> HIDE DEF n, v
          <6> QED BY <1>3, <5>5 DEF Array!Put
        <5>7. v = [[i \in 1 .. Len(page.dir) |-> get(page, i - 1)] EXCEPT ![s + 1] = NoRecord]
          BY <1>3, <4>1
        <5> HIDE DEF n, v
        <5> QED BY <1>3, <4>2, <5>5, <5>6, <5>7 DEF Array!Update
      <4> QED BY <4>3, <4>4
    <3> QED BY <3>1, <3>2
  <2> QED BY <1>2, <1>3, <2>1 DEF Array!Next
<1> QED BY <1>4, <1>5, <1>6, <1>7, <1>8 DEF Next

(* The page implements the array of slots: through inserts into new and    *)
(* reused slots, deletes and updates, what get returns is what was stored  *)
(* under that slot last.                                                   *)
THEOREM PageImplementsArray == Spec => ImplementsSlotArray
<1>1. Init => Array!Init
  <2>1. SUFFICES ASSUME Init PROVE [i \in 1 .. Len(page.dir) |-> get(page, i - 1)] = <<>>
    BY DEF Init, Array!Init
  <2>2. Len(page.dir) = 0
    BY <2>1, InitEmpty DEF Init
  <2> QED BY <2>2
<1> QED BY <1>1, StepRefines, PageStaysGood, PTL DEF Spec, ImplementsSlotArray, Array!Spec
=============================================================================
