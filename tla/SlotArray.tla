----------------------------- MODULE SlotArray -----------------------------
(***************************************************************************)
(* What a slotted page promises to the table: an array of records, each    *)
(* under a slot number that stays the record's own until it is deleted.    *)
(***************************************************************************)
EXTENDS Naturals, Sequences

CONSTANTS Record,    \* the byte strings that are stored
          NoRecord,  \* what a deleted slot holds
          Full       \* the answer of an insert that found no room

VARIABLES slots,     \* slots[i]: what slot i - 1 holds
          ret,       \* the slot that the last call answered, or Full
          got        \* the record that the last call answered

vars == <<slots, ret, got>>

Init == slots = <<>> /\ ret = Full /\ got = NoRecord

Deleted(s) == {i \in 1 .. Len(s) : s[i] = NoRecord}

(* s with r in its first deleted slot, else in a new one behind the last.  *)
Put(s, r, i) ==
  \/ /\ i \in Deleted(s) /\ \A j \in Deleted(s) : i <= j
     /\ slots' = [s EXCEPT ![i] = r]
  \/ /\ Deleted(s) = {} /\ i = Len(s) + 1
     /\ slots' = Append(s, r)

Insert(r) ==
  /\ \/ \E i \in 1 .. Len(slots) + 1 : Put(slots, r, i) /\ ret' = i - 1
     \/ ret' = Full /\ UNCHANGED slots
  /\ got' = NoRecord

Get(i) == got' = slots[i] /\ ret' = Full /\ UNCHANGED slots

Delete(i) ==
  slots' = [slots EXCEPT ![i] = NoRecord] /\ ret' = Full /\ got' = NoRecord

(* In place, or deleted and inserted again; if that finds no room, the old *)
(* record is gone as well.                                                 *)
Update(i, r) ==
  /\ \/ slots' = [slots EXCEPT ![i] = r] /\ ret' = i - 1
     \/ LET emptied == [slots EXCEPT ![i] = NoRecord]
        IN  \/ \E j \in 1 .. Len(slots) : Put(emptied, r, j) /\ ret' = j - 1
            \/ slots' = emptied /\ ret' = Full
  /\ got' = NoRecord

Next ==
  \/ \E r \in Record : Insert(r)
  \/ \E i \in 1 .. Len(slots) :
       Get(i) \/ Delete(i) \/ \E r \in Record : Update(i, r)

Spec == Init /\ [][Next]_vars
=============================================================================
