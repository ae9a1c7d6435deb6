---------------------------- MODULE SlottedPage ----------------------------
(***************************************************************************)
(* One heap page: records of any length packed from the end of the page    *)
(* towards its start, and a directory that grows towards them from behind  *)
(* the header.  The module holds no state: a page is a record of the       *)
(* header's free_offset, the directory and the bytes.  num_slots is the    *)
(* length of the directory, and slots count from 0, as in the code.        *)
(***************************************************************************)
EXTENDS Naturals, Sequences

CONSTANTS PageSize,   \* PAGE_SIZE, 4096 in the code
          Byte,       \* what a byte of a record can be
          ZeroByte,   \* what init leaves in a byte
          EntryByte,  \* what a byte of the directory is
          NoRecord,   \* get's nullptr
          Full        \* insert's UINT16_MAX

HeaderSize == 4   \* sizeof(SlottedPageHeader)
EntrySize == 4    \* sizeof(SlotEntry)
SLOT_DELETED == 0

ASSUME PageSizeAssumption == PageSize \in Nat /\ PageSize > HeaderSize
(* A pointer to a record is not null, and no page has UINT16_MAX slots.    *)
ASSUME AnswersAssumption == NoRecord \notin Seq(Byte) /\ Full \notin 0 .. PageSize

Offset == 0 .. PageSize - 1
Slots(p) == 0 .. Len(p.dir) - 1

init ==
  [free_offset |-> PageSize, dir |-> <<>>, byte |-> [o \in Offset |-> ZeroByte]]

dir_end(p) == HeaderSize + EntrySize * Len(p.dir)

(* Mutant: the free space is measured to the end of the page.              *)
free_space_to_end(p) == PageSize - dir_end(p)

free_space(p) ==
  IF p.free_offset <= dir_end(p) THEN 0 ELSE p.free_offset - dir_end(p)

(* byte with data copied to it at offset o (memcpy).                       *)
copy(byte, o, data) ==
  [i \in Offset |-> IF i >= o /\ i < o + Len(data) THEN data[i - o + 1]
                                                   ELSE byte[i]]

(* A write to the entry of a slot, the one behind the last included.       *)
set_entry(p, slot, offset, length) ==
  LET e == [offset |-> offset, length |-> length]
      o == HeaderSize + EntrySize * slot
  IN  [p EXCEPT
         !.dir = [i \in 1 .. IF slot = Len(@) THEN Len(@) + 1 ELSE Len(@) |->
                    IF i = slot + 1 THEN e ELSE @[i]],
         !.byte = copy(@, o, [i \in 1 .. EntrySize |-> EntryByte])]

deleted(p, slot) == p.dir[slot + 1].offset = SLOT_DELETED

(* The first deleted slot, else a new one.                                 *)
next_slot(p) ==
  CHOOSE s \in 0 .. Len(p.dir) :
    /\ s < Len(p.dir) => deleted(p, s)
    /\ \A t \in Slots(p) : t < s => ~deleted(p, t)

(* Mutant: a record is stored whether or not there is room.                *)
fits_always(p, data) == TRUE

(* Mutant: the directory entry of a new slot is not counted.               *)
fits_without_entry(p, data) == p.free_offset >= dir_end(p) + Len(data)

fits(p, data) ==
  p.free_offset >= dir_end(p) + Len(data)
                   + IF next_slot(p) = Len(p.dir) THEN EntrySize ELSE 0

insert_result(p, data) == IF fits(p, data) THEN next_slot(p) ELSE Full

insert(p, data) ==
  IF ~fits(p, data) THEN p
  ELSE LET offset == p.free_offset - Len(data)
           q      == [p EXCEPT !.free_offset = offset,
                               !.byte = copy(@, offset, data)]
       IN  set_entry(q, next_slot(p), offset, Len(data))

get(p, slot) ==
  IF slot >= Len(p.dir) \/ deleted(p, slot) THEN NoRecord
  ELSE [i \in 1 .. p.dir[slot + 1].length |->
          p.byte[p.dir[slot + 1].offset + i - 1]]

delete_slot(p, slot) ==
  IF slot >= Len(p.dir) THEN p ELSE set_entry(p, slot, SLOT_DELETED, 0)

in_place(p, slot, data) ==
  /\ slot < Len(p.dir)
  /\ ~deleted(p, slot) /\ p.dir[slot + 1].length >= Len(data)

(* Mutant: the shorter record overwrites the start of the data area.       *)
update_at_free_offset(p, slot, data) ==
  IF in_place(p, slot, data)
  THEN set_entry([p EXCEPT !.byte = copy(@, p.free_offset, data)],
                 slot, p.free_offset, Len(data))
  ELSE insert(delete_slot(p, slot), data)

update(p, slot, data) ==
  IF in_place(p, slot, data)
  THEN LET offset == p.dir[slot + 1].offset
       IN  set_entry([p EXCEPT !.byte = copy(@, offset, data)],
                     slot, offset, Len(data))
  ELSE insert(delete_slot(p, slot), data)

update_result(p, slot, data) ==
  IF in_place(p, slot, data) THEN slot
  ELSE insert_result(delete_slot(p, slot), data)
=============================================================================
