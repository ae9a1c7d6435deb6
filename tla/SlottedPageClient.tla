------------------------- MODULE SlottedPageClient -------------------------
(***************************************************************************)
(* A slotted page under any sequence of calls by a caller that names slots *)
(* the page has.  The table inserts, gets and deletes; update is part of   *)
(* the class and has no caller yet.                                        *)
(***************************************************************************)
EXTENDS SlottedPage

CONSTANT Record   \* the byte strings that are stored

ASSUME RecordAssumption == Record \subseteq Seq(Byte)

VARIABLES page,
          ret,   \* the slot that the last call answered, or Full
          got    \* the record that the last call answered

vars == <<page, ret, got>>

Init == page = init /\ ret = Full /\ got = NoRecord

Insert(r) ==
  page' = insert(page, r) /\ ret' = insert_result(page, r) /\ got' = NoRecord

Get(s) == got' = get(page, s) /\ ret' = Full /\ UNCHANGED page

Delete(s) == page' = delete_slot(page, s) /\ ret' = Full /\ got' = NoRecord

Update(s, r) ==
  page' = update(page, s, r) /\ ret' = update_result(page, s, r) /\ got' = NoRecord

Next ==
  \/ \E r \in Record : Insert(r)
  \/ \E s \in Slots(page) :
       Get(s) \/ Delete(s) \/ \E r \in Record : Update(s, r)

Spec == Init /\ [][Next]_vars

-----------------------------------------------------------------------------
Live == {s \in Slots(page) : ~deleted(page, s)}
Entry(s) == page.dir[s + 1]

(* Offsets and lengths of the header and the directory stay on the page    *)
(* (no unsigned subtraction wraps), and bytes are bytes.                   *)
TypeOK ==
  /\ page.free_offset \in 0 .. PageSize
  /\ page.dir \in Seq([offset : 0 .. PageSize, length : 0 .. PageSize])
  /\ page.byte \in [Offset -> Byte \cup {ZeroByte, EntryByte}]

(* The directory and the records grow towards each other and never meet,   *)
(* and no two records share a byte: through inserts into new and reused    *)
(* slots, deletes that leave their bytes behind, and updates in place.     *)
NoOverlap ==
  /\ dir_end(page) <= page.free_offset
  /\ \A s \in Live : /\ page.free_offset <= Entry(s).offset
                     /\ Entry(s).offset + Entry(s).length <= PageSize
  /\ \A s, t \in Live :
       s # t => \/ Entry(s).offset + Entry(s).length <= Entry(t).offset
                \/ Entry(t).offset + Entry(t).length <= Entry(s).offset

(* The table's test of free_space, which asks for an entry and four bytes  *)
(* beside the record, is enough for the insert that follows it to succeed. *)
RoomMeansSuccess ==
  [][\A r \in Record :
       Insert(r) /\ free_space(page) >= Len(r) + EntrySize + 4 => ret' # Full]_vars

(* The page implements the array of slots: what get returns is what was    *)
(* stored under that slot last, byte for byte.                             *)
Array == INSTANCE SlotArray
           WITH slots <- [i \in 1 .. Len(page.dir) |-> get(page, i - 1)]
ImplementsSlotArray == Array!Spec
=============================================================================
