---------------------------- MODULE OrderedIndex ----------------------------
(***************************************************************************)
(* What the B-tree promises to the table: a dictionary from keys to        *)
(* values.  A call is asked, and then answered: the answer and the change  *)
(* of the dictionary happen at once, are those of the call that was asked, *)
(* and follow from what the calls before it have left.                     *)
(***************************************************************************)
CONSTANTS Calls,      \* what may be asked: [name, key, val]
          NoCall,     \* nothing is being asked
          NotFound    \* find's -1

VARIABLES dict,   \* the set of <<key, value>> pairs of the dictionary
          asked,  \* the call that waits for its answer
          ret     \* what the last call returned

vars == <<dict, asked, ret>>

Values == {c.val : c \in Calls}
ValuesOf(k) == {v \in Values : <<k, v>> \in dict}
Without(k) == {e \in dict : e[1] # k}

Init == dict = {} /\ asked = NoCall /\ ret = "void"

Ask(c) == asked = NoCall /\ asked' = c /\ UNCHANGED <<dict, ret>>

(* The call that was asked is answered.                                    *)
Answer(name) == asked # NoCall /\ asked.name = name /\ asked' = NoCall

Insert ==
  /\ Answer("insert")
  /\ dict' = Without(asked.key) \cup {<<asked.key, asked.val>>}
  /\ ret' = "void"

Remove ==
  /\ Answer("remove")
  /\ dict' = Without(asked.key)
  /\ ret' = IF ValuesOf(asked.key) = {} THEN "false" ELSE "true"

Find ==
  /\ Answer("find")
  /\ ret' \in IF ValuesOf(asked.key) = {} THEN {NotFound} ELSE ValuesOf(asked.key)
  /\ UNCHANGED dict

Next == (\E c \in Calls : Ask(c)) \/ Insert \/ Remove \/ Find

Spec == Init /\ [][Next]_vars
=============================================================================
