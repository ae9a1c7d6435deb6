----------------------------- MODULE PageStore -----------------------------
(***************************************************************************)
(* What the page cache and the pager promise together to the code above    *)
(* them: one flat array of pages.  A page holds what was last written to   *)
(* it, whether or not it is cached, and after a crash it holds something   *)
(* it held no earlier than the last completed flush; but the page that the *)
(* flush wrote last may hold something it held before that flush.          *)
(***************************************************************************)
CONSTANTS Page,      \* the page numbers
          Content,   \* what a page can hold
          Zero,      \* what a page that was never written reads as
          None       \* no answer

VARIABLES mem,       \* mem[p]: what a reader of page p sees now
          versions,  \* versions[p]: what a crash may bring p back to
          ret        \* the content that the last call handed out

vars == <<mem, versions, ret>>

Init ==
  /\ mem = [p \in Page |-> Zero]
  /\ versions = [p \in Page |-> {Zero}]
  /\ ret = None

(* The caller gets a pointer to what page p holds.                         *)
Get(p) == ret' = mem[p] /\ UNCHANGED <<mem, versions>>

(* The caller changes page p through the pointer it was given.             *)
Write(p, c) ==
  /\ mem' = [mem EXCEPT ![p] = c]
  /\ versions' = [versions EXCEPT ![p] = @ \cup {c}]
  /\ ret' = None

(* A flush has completed: what is in memory is what a crash brings back,   *)
(* save for one page, the last that was written, which a crash may bring   *)
(* back to one earlier version of it.                                      *)
Checkpoint ==
  /\ \E last \in Page : \E old \in versions[last] :
       versions' = [p \in Page |-> {mem[p]} \cup (IF p = last THEN {old} ELSE {})]
  /\ ret' = None
  /\ UNCHANGED mem

(* The process dies and the file is opened again.  Each page may come back *)
(* at a version of its own: nothing orders the writes of two pages.        *)
Crash ==
  /\ \A p \in Page : mem'[p] \in versions[p]
  /\ mem' \in [Page -> Content]
  /\ versions' = [p \in Page |-> {mem'[p]}]
  /\ ret' = None

Next ==
  \/ \E p \in Page : Get(p)
  \/ \E p \in Page, c \in Content : Write(p, c)
  \/ Checkpoint
  \/ Crash

Spec == Init /\ [][Next]_vars
=============================================================================
