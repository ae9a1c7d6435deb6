-------------------------- MODULE PoolClientProofs --------------------------
(***************************************************************************)
(* The buffer pool serves any caller that works with no more pages at once *)
(* than it has room for: proofs for every capacity, window and file size.  *)
(*                                                                         *)
(* First the pool itself: what each of its operations does to a consistent *)
(* pool.  Then the caller: the inductive invariant and the theorems.       *)
(***************************************************************************)
EXTENDS PoolClient, FiniteSetTheorems, SequenceTheorems, WellFoundedInduction, TLAPS

(* A function on 1 .. n is a sequence of length n.                         *)
LEMMA FunctionIsSeq ==
  ASSUME NEW S, NEW n \in Nat, NEW f \in [1 .. n -> S]
  PROVE  f \in Seq(S) /\ Len(f) = n
  OBVIOUS

(* The types of a consistent pool's fields, of its list and its entries.   *)
LEMMA PoolTypes ==
  ASSUME NEW b, PoolOK(b)
  PROVE  /\ b.disk \in [Page -> Content]
         /\ b.num_pages \in Nat /\ b.next_page_id \in Nat
         /\ b.kept \in FileRecord /\ File(b) \in FileRecord
         /\ b.kept.disk \in [Page -> Content] /\ b.kept.num_pages \in Nat
         /\ File(b).disk = b.disk /\ File(b).num_pages = b.num_pages
         /\ b.lru \in Seq(Page) /\ Len(b.lru) \in Nat
         /\ \A i \in 1 .. Len(b.lru) : b.lru[i] \in Page
         /\ Cached(b) \subseteq Page
         /\ \A p \in Cached(b) : /\ b.entry[p] \in PageEntry
                                 /\ b.entry[p].buffer \in Content
                                 /\ b.entry[p].dirty \in BOOLEAN
<1>1. /\ b.disk \in [Page -> Content] /\ b.num_pages \in Nat /\ b.next_page_id \in Nat
      /\ b.kept \in FileRecord /\ b.lru \in Seq(Page)
  BY DEF PoolOK, PoolRecord
<1>2. /\ File(b) \in FileRecord /\ File(b).disk = b.disk /\ File(b).num_pages = b.num_pages
      /\ b.kept.disk \in [Page -> Content] /\ b.kept.num_pages \in Nat
  BY <1>1 DEF File, FileRecord
<1>3. /\ Len(b.lru) \in Nat /\ Cached(b) \subseteq Page
      /\ \A i \in 1 .. Len(b.lru) : b.lru[i] \in Page
  BY <1>1 DEF Cached
<1>4. \A p \in Cached(b) : /\ b.entry[p] \in PageEntry
                            /\ b.entry[p].buffer \in Content
                            /\ b.entry[p].dirty \in BOOLEAN
  BY DEF PoolOK, PageEntry
<1> QED BY <1>1, <1>2, <1>3, <1>4

(* A seek settles the file and changes nothing else.                       *)
LEMMA Seek ==
  ASSUME NEW b, PoolOK(b)
  PROVE  LET s == seek(b) IN
         /\ PoolOK(s) /\ Cached(s) = Cached(b) /\ s.lru = b.lru /\ s.entry = b.entry
         /\ s.next_page_id = b.next_page_id
         /\ s.disk = b.disk /\ s.num_pages = b.num_pages /\ s.kept = File(b)
<1> DEFINE k == File(b)
           s == seek(b)
<1>1. k \in FileRecord
  BY PoolTypes
<1>2. s = [b EXCEPT !.kept = k]
  BY DEF seek
<1> HIDE DEF k, s
<1>3. /\ s \in PoolRecord /\ s.lru = b.lru /\ s.entry = b.entry
      /\ s.next_page_id = b.next_page_id
      /\ s.disk = b.disk /\ s.num_pages = b.num_pages /\ s.kept = k
  BY <1>1, <1>2 DEF PoolOK, PoolRecord
<1>4. Cached(s) = Cached(b)
  BY <1>3 DEF Cached
<1> QED BY <1>3, <1>4 DEF PoolOK, k, s

(* Eviction and flush write a cached page to the file and nothing else.    *)
LEMMA WriteBack ==
  ASSUME NEW b, PoolOK(b), NEW p \in Cached(b)
  PROVE  LET w == write_back(b, p) IN
         /\ PoolOK(w) /\ Cached(w) = Cached(b)
         /\ w.lru = b.lru /\ w.entry = b.entry /\ w.next_page_id = b.next_page_id
         /\ w.disk = [b.disk EXCEPT ![p] = IF b.entry[p].dirty
                                           THEN b.entry[p].buffer ELSE b.disk[p]]
         /\ w.num_pages = IF b.entry[p].dirty /\ p >= b.num_pages
                          THEN p + 1 ELSE b.num_pages
         /\ w.kept = IF b.entry[p].dirty THEN File(b) ELSE b.kept
<1> DEFINE w == write_back(b, p)
<1>1. p \in Page /\ p \in Nat /\ b.num_pages \in Nat
  BY PoolTypes, LastPageAssumption DEF Page
<1>2. b.entry[p].buffer \in Content /\ b.entry[p].dirty \in BOOLEAN
      /\ b.disk \in [Page -> Content]
  BY PoolTypes
<1>3. /\ w.lru = b.lru /\ w.entry = b.entry /\ w.next_page_id = b.next_page_id
      /\ w.disk = [b.disk EXCEPT ![p] = IF b.entry[p].dirty
                                        THEN b.entry[p].buffer ELSE b.disk[p]]
      /\ w.num_pages = IF b.entry[p].dirty /\ p >= b.num_pages
                       THEN p + 1 ELSE b.num_pages
      /\ w.kept = IF b.entry[p].dirty THEN File(b) ELSE b.kept
      /\ w \in PoolRecord
  <2>1. CASE b.entry[p].dirty
    <3> DEFINE d == [b.disk EXCEPT ![p] = b.entry[p].buffer]
               n == IF p >= b.num_pages THEN p + 1 ELSE b.num_pages
               s == seek(b)
    <3>1. /\ PoolOK(s) /\ s.lru = b.lru /\ s.entry = b.entry
          /\ s.next_page_id = b.next_page_id
          /\ s.disk = b.disk /\ s.num_pages = b.num_pages /\ s.kept = File(b)
      BY Seek
    <3>2. d \in [Page -> Content] /\ n \in Nat
      BY <1>1, <1>2
    <3>3. w = [s EXCEPT !.disk = d, !.num_pages = n]
      <4>1. w = [s EXCEPT !.disk[p] = b.entry[p].buffer,
                          !.num_pages = IF p >= @ THEN p + 1 ELSE @]
        BY <2>1 DEF write_back, write_page
      <4> HIDE DEF w, s
      <4> QED BY <3>1, <4>1
    <3> HIDE DEF w, d, n, s
    <3>4. /\ w \in PoolRecord
          /\ w.lru = s.lru /\ w.entry = s.entry /\ w.kept = s.kept
          /\ w.next_page_id = s.next_page_id /\ w.disk = d /\ w.num_pages = n
      BY <3>1, <3>2, <3>3 DEF PoolOK, PoolRecord
    <3> QED BY <2>1, <3>1, <3>4 DEF d, n
  <2>2. CASE ~b.entry[p].dirty
    <3>1. w = b
      BY <2>2 DEF write_back
    <3> QED BY <1>1, <1>2, <2>2, <3>1 DEF PoolOK
  <2> QED BY <2>1, <2>2
<1>4. Cached(w) = Cached(b)
  BY <1>3 DEF Cached
<1> QED BY <1>3, <1>4 DEF PoolOK

(* Eviction takes the last page of the list out of the cache, and writes   *)
(* it first if it is dirty.                                                *)
LEMMA Evict ==
  ASSUME NEW b, PoolOK(b), Len(b.lru) > 0
  PROVE  LET e == evict(b)
             o == b.lru[Len(b.lru)] IN
         /\ o \in Cached(b)
         /\ PoolOK(e) /\ Cached(e) = Cached(b) \ {o}
         /\ Len(e.lru) = Len(b.lru) - 1
         /\ \A j \in 1 .. Len(b.lru) - 1 : e.lru[j] = b.lru[j]
         /\ \A q \in Cached(e) : e.entry[q] = b.entry[q]
         /\ e.next_page_id = b.next_page_id
         /\ e.disk = [b.disk EXCEPT ![o] = IF b.entry[o].dirty
                                           THEN b.entry[o].buffer ELSE b.disk[o]]
         /\ e.num_pages = IF b.entry[o].dirty /\ o >= b.num_pages
                          THEN o + 1 ELSE b.num_pages
<1> DEFINE L == Len(b.lru)
           o == b.lru[L]
           w == write_back(b, o)
           kept == [j \in 1 .. L - 1 |-> b.lru[j]]
           ent  == [q \in Cached(b) \ {o} |-> b.entry[q]]
           e == evict(b)
<1>1. L \in Nat /\ L > 0 /\ L - 1 \in Nat /\ o \in Cached(b)
  BY PoolTypes DEF Cached
<1>2. /\ PoolOK(w) /\ Cached(w) = Cached(b)
      /\ w.next_page_id = b.next_page_id
      /\ w.disk = [b.disk EXCEPT ![o] = IF b.entry[o].dirty
                                        THEN b.entry[o].buffer ELSE b.disk[o]]
      /\ w.num_pages = IF b.entry[o].dirty /\ o >= b.num_pages
                       THEN o + 1 ELSE b.num_pages
  BY <1>1, WriteBack
<1>3. kept \in Seq(Page) /\ Len(kept) = L - 1
  <2>1. kept \in [1 .. L - 1 -> Page]
    BY <1>1, PoolTypes
  <2> HIDE DEF kept
  <2> QED BY <1>1, <2>1, FunctionIsSeq
<1>4. ent \in EntryMap
  <2>1. ent \in [Cached(b) \ {o} -> PageEntry]
    BY PoolTypes
  <2>2. Cached(b) \ {o} \in SUBSET Page
    BY PoolTypes
  <2> QED BY <2>1, <2>2 DEF EntryMap
<1>5. e = [w EXCEPT !.lru = kept, !.entry = ent]
  BY DEF evict
<1>6. /\ e \in PoolRecord /\ e.lru = kept /\ e.entry = ent
      /\ e.next_page_id = w.next_page_id /\ e.disk = w.disk
      /\ e.num_pages = w.num_pages
  <2> HIDE DEF e, w, kept, ent
  <2> QED BY <1>2, <1>3, <1>4, <1>5 DEF PoolOK, PoolRecord
<1>7. \A i, j \in 1 .. L : b.lru[i] = b.lru[j] => i = j
  BY DEF PoolOK
<1>8. Cached(e) = Cached(b) \ {o}
  <2>1. Cached(e) = {b.lru[i] : i \in 1 .. L - 1}
    BY <1>3, <1>6 DEF Cached
  <2>2. Cached(b) = {b.lru[i] : i \in 1 .. L}
    BY DEF Cached
  <2> QED BY <1>1, <1>7, <2>1, <2>2
<1>9. PoolOK(e)
  <2>1. e.entry \in [Cached(e) -> PageEntry]
    BY <1>6, <1>8, PoolTypes
  <2>2. Len(e.lru) <= MaxPages
    BY <1>1, <1>3, <1>6, MaxPagesAssumption DEF PoolOK
  <2>3. \A i, j \in 1 .. Len(e.lru) : e.lru[i] = e.lru[j] => i = j
    BY <1>1, <1>3, <1>6, <1>7
  <2> QED BY <1>6, <2>1, <2>2, <2>3 DEF PoolOK
<1> QED BY <1>1, <1>2, <1>3, <1>6, <1>8, <1>9

(* The pages that were fetched more recently than q.                       *)
Ahead(b, q) ==
  {r \in Cached(b) : \E i, j \in 1 .. Len(b.lru) :
                       j < i /\ b.lru[j] = r /\ b.lru[i] = q}

(* Raising the page counter leaves everything else of the pool alone.      *)
LEMMA Bump ==
  ASSUME NEW b, PoolOK(b), NEW p \in Page
  PROVE  LET g == bump(b, p) IN
         /\ PoolOK(g) /\ Cached(g) = Cached(b)
         /\ g.lru = b.lru /\ g.entry = b.entry
         /\ g.disk = b.disk /\ g.num_pages = b.num_pages /\ g.kept = b.kept
         /\ g.next_page_id = IF p >= b.next_page_id THEN p + 1
                                                     ELSE b.next_page_id
<1> DEFINE g == bump(b, p)
           n == IF p >= b.next_page_id THEN p + 1 ELSE b.next_page_id
<1>1. n \in Nat
  BY PoolTypes, LastPageAssumption DEF Page
<1>2. g = [b EXCEPT !.next_page_id = n]
  BY DEF bump
<1>3. /\ g \in PoolRecord /\ g.lru = b.lru /\ g.entry = b.entry
      /\ g.disk = b.disk /\ g.num_pages = b.num_pages /\ g.kept = b.kept /\ g.next_page_id = n
  <2> HIDE DEF g, n
  <2> QED BY <1>1, <1>2 DEF PoolOK, PoolRecord
<1>4. Cached(g) = Cached(b)
  BY <1>3 DEF Cached
<1> QED BY <1>3, <1>4 DEF PoolOK

(* A hit moves the page to the front and keeps the rest in order.          *)
LEMMA PromoteInPlace ==
  ASSUME NEW b, PoolOK(b), NEW i \in 1 .. Len(b.lru)
  PROVE  LET g == [b EXCEPT !.lru = Promote(b.lru, i)]
             p == b.lru[i] IN
         /\ PoolOK(g) /\ Cached(g) = Cached(b)
         /\ g.entry = b.entry /\ g.disk = b.disk
         /\ g.num_pages = b.num_pages /\ g.kept = b.kept /\ g.next_page_id = b.next_page_id
         /\ Ahead(g, p) = {}
         /\ \A q \in Cached(b) \ {p} : Ahead(g, q) \subseteq Ahead(b, q) \cup {p}
<1> DEFINE L == Len(b.lru)
           p == b.lru[i]
           m == Promote(b.lru, i)
           g == [b EXCEPT !.lru = m]
<1>1. L \in Nat /\ i \in 1 .. L /\ b.lru \in Seq(Page)
  BY PoolTypes
<1>2. m \in [1 .. L -> Page]
  BY <1>1, PoolTypes DEF Promote
<1>3. m \in Seq(Page) /\ Len(m) = L
  <2> HIDE DEF m
  <2> QED BY <1>1, <1>2, FunctionIsSeq
<1>4. \A j \in 1 .. L : m[j] = IF j = 1 THEN b.lru[i]
                               ELSE IF j <= i THEN b.lru[j - 1] ELSE b.lru[j]
  BY <1>1 DEF Promote
<1> HIDE DEF m
<1>5. /\ g \in PoolRecord /\ g.lru = m /\ g.entry = b.entry /\ g.disk = b.disk
      /\ g.num_pages = b.num_pages /\ g.kept = b.kept /\ g.next_page_id = b.next_page_id
  BY <1>3 DEF PoolOK, PoolRecord
<1> HIDE DEF g
<1>6. \A j, k \in 1 .. L : b.lru[j] = b.lru[k] => j = k
  BY DEF PoolOK
<1>7. Cached(g) = Cached(b)
  <2>1. Cached(g) = {m[j] : j \in 1 .. L} /\ Cached(b) = {b.lru[j] : j \in 1 .. L}
    BY <1>3, <1>5 DEF Cached
  <2>2. ASSUME NEW j \in 1 .. L PROVE \E k \in 1 .. L : m[j] = b.lru[k]
    <3>1. CASE j = 1 BY <1>1, <1>4, <3>1
    <3>2. CASE j # 1 /\ j <= i
      <4>1. j - 1 \in 1 .. L /\ m[j] = b.lru[j - 1] BY <1>1, <1>4, <3>2
      <4> QED BY <4>1
    <3>3. CASE j # 1 /\ ~(j <= i) BY <1>1, <1>4, <3>3
    <3> QED BY <3>1, <3>2, <3>3
  <2>3. ASSUME NEW k \in 1 .. L PROVE \E j \in 1 .. L : m[j] = b.lru[k]
    <3>1. CASE k = i
      <4>1. 1 \in 1 .. L /\ m[1] = b.lru[k] BY <1>1, <1>4, <3>1
      <4> QED BY <4>1
    <3>2. CASE k < i
      <4>1. k + 1 \in 1 .. L /\ m[k + 1] = b.lru[k] BY <1>1, <1>4, <3>2
      <4> QED BY <4>1
    <3>3. CASE k > i
      <4>1. m[k] = b.lru[k] BY <1>1, <1>4, <3>3
      <4> QED BY <4>1
    <3> QED BY <1>1, <3>1, <3>2, <3>3
  <2> HIDE DEF L
  <2>4. Cached(g) \subseteq Cached(b)
    BY <2>1, <2>2
  <2>5. Cached(b) \subseteq Cached(g)
    BY <2>1, <2>3
  <2> QED BY <2>4, <2>5
<1>8. \A j, k \in 1 .. L : m[j] = m[k] => j = k
  BY <1>1, <1>4, <1>6
<1>9. PoolOK(g)
  BY <1>3, <1>5, <1>7, <1>8 DEF PoolOK
<1>10. Ahead(g, p) = {}
  <2>1. SUFFICES ASSUME NEW j \in 1 .. L, NEW k \in 1 .. L, j < k, m[k] = p
                 PROVE FALSE
    BY <1>3, <1>5 DEF Ahead
  <2>2. 1 \in 1 .. L /\ m[1] = p
    BY <1>1, <1>4
  <2> QED BY <1>8, <2>1, <2>2
<1>11. ASSUME NEW q \in Cached(b) \ {p}
       PROVE  Ahead(g, q) \subseteq Ahead(b, q) \cup {p}
  <2>1. SUFFICES ASSUME NEW r \in Cached(b), r # p,
                        NEW j \in 1 .. L, NEW k \in 1 .. L,
                        j < k, m[j] = r, m[k] = q
                 PROVE  r \in Ahead(b, q)
    BY <1>3, <1>5, <1>7 DEF Ahead
  <2> DEFINE src(x) == IF x <= i THEN x - 1 ELSE x
  <2>2. j # 1 /\ k # 1
    BY <1>4, <2>1, <1>11
  <2>3. src(j) \in 1 .. L /\ src(k) \in 1 .. L /\ src(j) < src(k)
    BY <1>1, <2>1, <2>2
  <2>4. b.lru[src(j)] = r /\ b.lru[src(k)] = q
    BY <1>4, <2>1, <2>2
  <2> HIDE DEF src
  <2> QED BY <2>3, <2>4 DEF Ahead
<1> QED BY <1>5, <1>7, <1>9, <1>10, <1>11 DEF g, m

(* A page read into a cache that has room goes to the front of the list.   *)
LEMMA ReadIn ==
  ASSUME NEW b, PoolOK(b), NEW p \in Page, p \notin Cached(b),
         Len(b.lru) < MaxPages
  PROVE  LET g == read_in(b, p) IN
         /\ PoolOK(g) /\ Cached(g) = Cached(b) \cup {p}
         /\ \A q \in Cached(b) : g.entry[q] = b.entry[q]
         /\ g.entry[p] = [buffer |-> b.disk[p], dirty |-> FALSE]
         /\ g.disk = b.disk /\ g.num_pages = b.num_pages /\ g.kept = File(b)
         /\ g.next_page_id = b.next_page_id
         /\ Ahead(g, p) = {}
         /\ \A q \in Cached(b) : Ahead(g, q) \subseteq Ahead(b, q) \cup {p}
<1> DEFINE L == Len(b.lru)
           m == PushFront(b.lru, p)
           ent == [q \in Cached(b) \cup {p} |->
                     IF q = p THEN [buffer |-> b.disk[p], dirty |-> FALSE]
                              ELSE b.entry[q]]
           g == read_in(b, p)
<1>1. L \in Nat /\ b.lru \in Seq(Page) /\ MaxPages \in Nat /\ L + 1 <= MaxPages
  BY PoolTypes, MaxPagesAssumption
<1>2. m \in Seq(Page) /\ Len(m) = L + 1
  <2>1. m \in [1 .. L + 1 -> Page]
    BY <1>1, PoolTypes DEF PushFront
  <2> HIDE DEF m
  <2> QED BY <1>1, <2>1, FunctionIsSeq
<1>3. \A j \in 1 .. L + 1 : m[j] = IF j = 1 THEN p ELSE b.lru[j - 1]
  BY <1>1 DEF PushFront
<1>4. ent \in [Cached(b) \cup {p} -> PageEntry] /\ ent \in EntryMap
  <2>1. [buffer |-> b.disk[p], dirty |-> FALSE] \in PageEntry
    BY PoolTypes DEF PageEntry
  <2>2. ent \in [Cached(b) \cup {p} -> PageEntry]
    BY <2>1, PoolTypes
  <2>3. Cached(b) \cup {p} \in SUBSET Page
    BY PoolTypes
  <2> HIDE DEF ent
  <2> QED BY <2>2, <2>3 DEF EntryMap
<1>5. g = [seek(b) EXCEPT !.lru = m, !.entry = ent]
  <2>1. seek(b).lru = b.lru
    BY Seek
  <2>2. g = [seek(b) EXCEPT !.lru = PushFront(seek(b).lru, p), !.entry = ent]
    BY DEF read_in
  <2> HIDE DEF ent, g
  <2> QED BY <2>1, <2>2
<1> HIDE DEF m, ent, g
<1>6. /\ g \in PoolRecord /\ g.lru = m /\ g.entry = ent /\ g.disk = b.disk
      /\ g.num_pages = b.num_pages /\ g.kept = File(b) /\ g.next_page_id = b.next_page_id
  <2> DEFINE s == seek(b)
  <2>1. /\ PoolOK(s) /\ s.next_page_id = b.next_page_id
        /\ s.disk = b.disk /\ s.num_pages = b.num_pages /\ s.kept = File(b)
    BY Seek
  <2>2. g = [s EXCEPT !.lru = m, !.entry = ent]
    BY <1>5
  <2> HIDE DEF s
  <2>3. /\ g \in PoolRecord /\ g.lru = m /\ g.entry = ent /\ g.disk = s.disk
        /\ g.num_pages = s.num_pages /\ g.kept = s.kept /\ g.next_page_id = s.next_page_id
    BY <1>2, <1>4, <2>1, <2>2 DEF PoolOK, PoolRecord
  <2> QED BY <2>1, <2>3
<1>7. Cached(g) = Cached(b) \cup {p}
  <2>1. Cached(g) = {m[j] : j \in 1 .. L + 1} /\ Cached(b) = {b.lru[j] : j \in 1 .. L}
    BY <1>2, <1>6 DEF Cached
  <2>2. ASSUME NEW j \in 1 .. L + 1 PROVE m[j] \in Cached(b) \cup {p}
    <3>1. CASE j = 1 BY <1>3, <3>1
    <3>2. CASE j # 1
      <4>1. j - 1 \in 1 .. L /\ m[j] = b.lru[j - 1] BY <1>1, <1>3, <3>2
      <4> QED BY <2>1, <4>1
    <3> QED BY <3>1, <3>2
  <2>3. ASSUME NEW k \in 1 .. L PROVE b.lru[k] \in Cached(g)
    <3>1. k + 1 \in 1 .. L + 1 /\ m[k + 1] = b.lru[k] BY <1>1, <1>3
    <3> QED BY <2>1, <3>1
  <2>4. p \in Cached(g)
    <3>1. 1 \in 1 .. L + 1 /\ m[1] = p BY <1>1, <1>3
    <3> QED BY <2>1, <3>1
  <2>5. Cached(g) \subseteq Cached(b) \cup {p}
    BY <2>1, <2>2
  <2>6. Cached(b) \subseteq Cached(g)
    BY <2>1, <2>3
  <2> QED BY <2>4, <2>5, <2>6
<1>8. \A j, k \in 1 .. L : b.lru[j] = b.lru[k] => j = k
  BY DEF PoolOK
<1>9. \A j \in 1 .. L : b.lru[j] # p
  BY DEF Cached
<1>10. ASSUME NEW j \in 1 .. L + 1, NEW k \in 1 .. L + 1, m[j] = m[k]
       PROVE  j = k
  <2>1. CASE j = 1
    BY <1>1, <1>3, <1>9, <1>10, <2>1
  <2>2. CASE j # 1
    <3>1. j - 1 \in 1 .. L /\ m[j] = b.lru[j - 1] /\ k # 1
      BY <1>1, <1>3, <1>9, <1>10, <2>2
    <3>2. k - 1 \in 1 .. L /\ m[k] = b.lru[k - 1]
      BY <1>1, <1>3, <3>1
    <3>3. j - 1 = k - 1
      BY <1>8, <1>10, <3>1, <3>2
    <3> QED BY <1>1, <3>3
  <2> QED BY <2>1, <2>2
<1>11. PoolOK(g)
  BY <1>1, <1>2, <1>4, <1>6, <1>7, <1>10 DEF PoolOK
<1>12. Ahead(g, p) = {}
  <2>1. SUFFICES ASSUME NEW j \in 1 .. L + 1, NEW k \in 1 .. L + 1, j < k, m[k] = p
                 PROVE FALSE
    BY <1>2, <1>6 DEF Ahead
  <2>2. 1 \in 1 .. L + 1 /\ m[1] = p
    BY <1>1, <1>3
  <2> QED BY <1>10, <2>1, <2>2
<1>13. ASSUME NEW q \in Cached(b)
       PROVE  Ahead(g, q) \subseteq Ahead(b, q) \cup {p}
  <2>1. SUFFICES ASSUME NEW r \in Cached(b), r # p,
                        NEW j \in 1 .. L + 1, NEW k \in 1 .. L + 1,
                        j < k, m[j] = r, m[k] = q
                 PROVE  r \in Ahead(b, q)
    BY <1>2, <1>6, <1>7 DEF Ahead
  <2>2. j # 1 /\ k # 1
    BY <1>1, <1>3, <2>1
  <2>3. /\ j - 1 \in 1 .. L /\ k - 1 \in 1 .. L /\ j - 1 < k - 1
        /\ b.lru[j - 1] = r /\ b.lru[k - 1] = q
    BY <1>1, <1>3, <2>1, <2>2
  <2> QED BY <2>3 DEF Ahead
<1>14. /\ \A q \in Cached(b) : g.entry[q] = b.entry[q]
       /\ g.entry[p] = [buffer |-> b.disk[p], dirty |-> FALSE]
  BY <1>6 DEF ent
<1> QED BY <1>6, <1>7, <1>11, <1>12, <1>13, <1>14 DEF g

(* get_page, as its callers see it: the page is in the cache, in front of  *)
(* all others.  No page moves forward but this one, and only the last page *)
(* of a full list leaves, written first if it was dirty.  A miss ends in a *)
(* read, whose seek has settled the file.                                  *)
Fetched(b, p, g) ==
  /\ PoolOK(g) /\ p \in Cached(g) /\ Cached(g) \subseteq Cached(b) \cup {p}
  /\ Ahead(g, p) = {}
  /\ \A q \in Cached(g) \ {p} : Ahead(g, q) \subseteq Ahead(b, q) \cup {p}
  /\ \A q \in Cached(b) \ Cached(g) :
       p \notin Cached(b) /\ Len(b.lru) = MaxPages /\ q = b.lru[MaxPages]
  /\ \A q \in Cached(g) \cap Cached(b) : g.entry[q] = b.entry[q]
  /\ p \notin Cached(b) => g.entry[p] = [buffer |-> b.disk[p], dirty |-> FALSE]
  /\ \A q \in Page :
       g.disk[q] = IF q \in Cached(b) \ Cached(g) /\ b.entry[q].dirty
                   THEN b.entry[q].buffer ELSE b.disk[q]
  /\ b.num_pages <= g.num_pages
  /\ \A q \in Cached(b) \ Cached(g) : b.entry[q].dirty => q < g.num_pages
  /\ g.num_pages = b.num_pages \/ \E q \in Cached(b) : g.num_pages = q + 1
  /\ g.kept = IF p \in Cached(b) THEN b.kept ELSE File(g)

(* A miss: a full cache makes room, and the page comes in front.           *)
LEMMA Load ==
  ASSUME NEW b, PoolOK(b), NEW p \in Page, p \notin Cached(b)
  PROVE  Fetched(b, p, load(b, p)) /\ load(b, p).next_page_id = b.next_page_id
<1> DEFINE L == Len(b.lru)
           g == load(b, p)
<1>1. /\ L \in Nat /\ MaxPages \in Nat \ {0} /\ L <= MaxPages
      /\ b.num_pages \in Nat /\ b.disk \in [Page -> Content]
      /\ Cached(b) \subseteq Page /\ Page \subseteq Nat
  BY PoolTypes, MaxPagesAssumption, LastPageAssumption DEF PoolOK, Page
<1>2. CASE L < MaxPages
  <2>1. g = read_in(b, p)
    BY <1>1, <1>2 DEF load
  <2> HIDE DEF g
  <2>2. /\ PoolOK(g) /\ Cached(g) = Cached(b) \cup {p}
        /\ \A q \in Cached(b) : g.entry[q] = b.entry[q]
        /\ g.entry[p] = [buffer |-> b.disk[p], dirty |-> FALSE]
        /\ g.disk = b.disk /\ g.num_pages = b.num_pages /\ g.kept = File(b)
        /\ g.next_page_id = b.next_page_id
        /\ Ahead(g, p) = {}
        /\ \A q \in Cached(b) : Ahead(g, q) \subseteq Ahead(b, q) \cup {p}
    BY <1>2, <2>1, ReadIn
  <2>3. g.kept = File(g)
    BY <2>2 DEF File
  <2>4. Fetched(b, p, g)
    BY <1>1, <2>2, <2>3 DEF Fetched
  <2> QED BY <2>2, <2>4 DEF g
<1>3. CASE L = MaxPages
  <2> DEFINE e == evict(b)
             o == b.lru[L]
  <2>1. g = read_in(e, p)
    BY <1>1, <1>3 DEF load
  <2>2. /\ o \in Cached(b)
        /\ PoolOK(e) /\ Cached(e) = Cached(b) \ {o}
        /\ Len(e.lru) = L - 1
        /\ \A j \in 1 .. L - 1 : e.lru[j] = b.lru[j]
        /\ \A q \in Cached(e) : e.entry[q] = b.entry[q]
        /\ e.next_page_id = b.next_page_id
        /\ e.disk = [b.disk EXCEPT ![o] = IF b.entry[o].dirty
                                          THEN b.entry[o].buffer ELSE b.disk[o]]
        /\ e.num_pages = IF b.entry[o].dirty /\ o >= b.num_pages
                         THEN o + 1 ELSE b.num_pages
    <3>1. Len(b.lru) > 0
      BY <1>1, <1>3
    <3> QED BY ONLY PoolOK(b), <3>1, Evict
  <2>3. ASSUME NEW q \in Cached(e) PROVE Ahead(e, q) \subseteq Ahead(b, q)
    <3>1. SUFFICES ASSUME NEW r \in Cached(e),
                          NEW j \in 1 .. L - 1, NEW k \in 1 .. L - 1,
                          j < k, e.lru[j] = r, e.lru[k] = q
                   PROVE  r \in Ahead(b, q)
      BY <2>2 DEF Ahead
    <3>2. j \in 1 .. L /\ k \in 1 .. L /\ b.lru[j] = r /\ b.lru[k] = q
      BY <1>1, <2>2, <3>1
    <3> QED BY <2>2, <3>1, <3>2 DEF Ahead
  <2> HIDE DEF g, e, o
  <2>4. /\ PoolOK(g) /\ Cached(g) = Cached(e) \cup {p}
        /\ \A q \in Cached(e) : g.entry[q] = e.entry[q]
        /\ g.entry[p] = [buffer |-> e.disk[p], dirty |-> FALSE]
        /\ g.disk = e.disk /\ g.num_pages = e.num_pages /\ g.kept = File(e)
        /\ g.next_page_id = e.next_page_id
        /\ Ahead(g, p) = {}
        /\ \A q \in Cached(e) : Ahead(g, q) \subseteq Ahead(e, q) \cup {p}
    BY <1>1, <1>3, <2>1, <2>2, ReadIn
  <2>5. /\ p # o /\ o \in Nat /\ Cached(b) \ Cached(g) = {o}
        /\ Cached(g) \ {p} = Cached(e) /\ Cached(g) \cap Cached(b) = Cached(e)
    BY <1>1, <2>2, <2>4
  <2>6. \A q \in Cached(g) \ {p} : Ahead(g, q) \subseteq Ahead(b, q) \cup {p}
    BY <2>3, <2>4, <2>5
  <2>7. \A q \in Cached(b) \ Cached(g) :
          p \notin Cached(b) /\ L = MaxPages /\ q = b.lru[MaxPages]
    BY <1>3, <2>5 DEF o
  <2>8. g.entry[p] = [buffer |-> b.disk[p], dirty |-> FALSE]
    BY <1>1, <2>2, <2>4, <2>5
  <2>9. \A q \in Page :
          g.disk[q] = IF q \in Cached(b) \ Cached(g) /\ b.entry[q].dirty
                      THEN b.entry[q].buffer ELSE b.disk[q]
    BY <1>1, <2>2, <2>4, <2>5
  <2>10. /\ b.num_pages <= g.num_pages
         /\ \A q \in Cached(b) \ Cached(g) : b.entry[q].dirty => q < g.num_pages
         /\ g.num_pages = b.num_pages \/ \E q \in Cached(b) : g.num_pages = q + 1
    BY <1>1, <2>2, <2>4, <2>5
  <2>11. g.kept = File(g)
    BY <2>4 DEF File
  <2>12. Fetched(b, p, g)
    BY <2>2, <2>4, <2>5, <2>6, <2>7, <2>8, <2>9, <2>10, <2>11 DEF Fetched
  <2> QED BY <2>2, <2>4, <2>12 DEF g
<1> QED BY <1>1, <1>2, <1>3

(* The contract of get_page, for a hit and for a miss.                     *)
THEOREM GetPageContract ==
  ASSUME NEW b, PoolOK(b), NEW p \in Page
  PROVE  /\ Fetched(b, p, get_page(b, p))
         /\ get_page(b, p).next_page_id =
              IF p >= b.next_page_id THEN p + 1 ELSE b.next_page_id
<1> DEFINE c == bump(b, p)
           g == get_page(b, p)
<1>1. /\ PoolOK(c) /\ Cached(c) = Cached(b) /\ c.lru = b.lru /\ c.entry = b.entry
      /\ c.disk = b.disk /\ c.num_pages = b.num_pages /\ c.kept = b.kept
      /\ c.next_page_id = IF p >= b.next_page_id THEN p + 1 ELSE b.next_page_id
  BY Bump
<1>2. \A q : Ahead(c, q) = Ahead(b, q)
  BY <1>1 DEF Ahead
<1>3. CASE p \in Cached(b)
  <2> DEFINE i == CHOOSE i \in 1 .. Len(b.lru) : b.lru[i] = p
  <2>1. i \in 1 .. Len(b.lru) /\ b.lru[i] = p
    BY <1>3 DEF Cached
  <2>2. g = [c EXCEPT !.lru = Promote(c.lru, i)]
    BY <1>1, <1>3 DEF get_page
  <2> HIDE DEF c, g, i
  <2>3. /\ PoolOK(g) /\ Cached(g) = Cached(c)
        /\ g.entry = c.entry /\ g.disk = c.disk
        /\ g.num_pages = c.num_pages /\ g.kept = c.kept /\ g.next_page_id = c.next_page_id
        /\ Ahead(g, p) = {}
        /\ \A q \in Cached(c) \ {p} : Ahead(g, q) \subseteq Ahead(c, q) \cup {p}
    BY <1>1, <2>1, <2>2, PromoteInPlace
  <2>4. b.num_pages \in Nat
    BY PoolTypes
  <2> QED BY <1>1, <1>2, <1>3, <2>3, <2>4 DEF Fetched, g
<1>4. CASE p \notin Cached(b)
  <2>1. g = load(c, p)
    BY <1>4 DEF get_page
  <2> HIDE DEF c, g
  <2>2. Fetched(c, p, g) /\ g.next_page_id = c.next_page_id
    BY <1>1, <1>4, <2>1, Load
  <2>3. Fetched(b, p, g)
    BY <1>1, <1>2, <2>2 DEF Fetched
  <2> QED BY <1>1, <2>2, <2>3 DEF g
<1> QED BY <1>3, <1>4

(* Setting a flag keeps the buffer of an entry.                            *)
LEMMA SetDirty ==
  ASSUME NEW e \in PageEntry, NEW d \in BOOLEAN
  PROVE  [e EXCEPT !.dirty = d] = [buffer |-> e.buffer, dirty |-> d]
  BY DEF PageEntry

(* Replacing one entry of the map keeps the pool consistent.               *)
LEMMA EntryUpdate ==
  ASSUME NEW b, PoolOK(b), NEW p \in Cached(b), NEW e \in PageEntry
  PROVE  LET g == [b EXCEPT !.entry = [b.entry EXCEPT ![p] = e]] IN
         /\ PoolOK(g) /\ Cached(g) = Cached(b) /\ g.lru = b.lru
         /\ g.entry[p] = e
         /\ \A q \in Cached(b) \ {p} : g.entry[q] = b.entry[q]
         /\ g.disk = b.disk /\ g.num_pages = b.num_pages /\ g.kept = b.kept
         /\ g.next_page_id = b.next_page_id
<1> DEFINE ent == [b.entry EXCEPT ![p] = e]
           g == [b EXCEPT !.entry = ent]
<1>1. ent \in [Cached(b) -> PageEntry] /\ Cached(b) \in SUBSET Page
  BY PoolTypes DEF PoolOK
<1>2. ent \in EntryMap
  BY <1>1 DEF EntryMap
<1>3. ent[p] = e /\ \A q \in Cached(b) \ {p} : ent[q] = b.entry[q]
  BY DEF PoolOK
<1> HIDE DEF ent
<1>4. /\ g \in PoolRecord /\ g.lru = b.lru /\ g.entry = ent /\ g.disk = b.disk
      /\ g.num_pages = b.num_pages /\ g.kept = b.kept /\ g.next_page_id = b.next_page_id
  BY <1>2 DEF PoolOK, PoolRecord
<1>5. Cached(g) = Cached(b)
  BY <1>4 DEF Cached
<1> QED BY <1>1, <1>3, <1>4, <1>5 DEF PoolOK, ent

(* Writing through a pointer changes one buffer, mark_dirty one flag.      *)
LEMMA StoreContract ==
  ASSUME NEW b, PoolOK(b), NEW p \in Cached(b), NEW c \in Content
  PROVE  LET g == store(b, p, c) IN
         /\ PoolOK(g) /\ Cached(g) = Cached(b) /\ g.lru = b.lru
         /\ g.entry[p] = [buffer |-> c, dirty |-> b.entry[p].dirty]
         /\ \A q \in Cached(b) \ {p} : g.entry[q] = b.entry[q]
         /\ g.disk = b.disk /\ g.num_pages = b.num_pages /\ g.kept = b.kept
         /\ g.next_page_id = b.next_page_id
<1> DEFINE e == [buffer |-> c, dirty |-> b.entry[p].dirty]
<1>1. e \in PageEntry
  BY PoolTypes DEF PageEntry
<1>2. [b.entry[p] EXCEPT !.buffer = c] = e
  BY PoolTypes DEF PageEntry
<1>3. store(b, p, c) = [b EXCEPT !.entry = [b.entry EXCEPT ![p] = e]]
  BY <1>2 DEF store, PoolOK, PoolRecord
<1> HIDE DEF e
<1> QED BY <1>1, <1>3, EntryUpdate DEF e

(* Setting the dirty flag of a cached page changes that flag only.         *)
LEMMA SetDirtyContract ==
  ASSUME NEW b, PoolOK(b), NEW p \in Cached(b), NEW d \in BOOLEAN
  PROVE  LET g == [b EXCEPT !.entry[p].dirty = d] IN
         /\ PoolOK(g) /\ Cached(g) = Cached(b) /\ g.lru = b.lru
         /\ g.entry[p].buffer = b.entry[p].buffer /\ g.entry[p].dirty = d
         /\ \A q \in Cached(b) \ {p} : g.entry[q] = b.entry[q]
         /\ g.disk = b.disk /\ g.num_pages = b.num_pages /\ g.kept = b.kept
         /\ g.next_page_id = b.next_page_id
<1> DEFINE e == [buffer |-> b.entry[p].buffer, dirty |-> d]
<1>1. e \in PageEntry
  BY PoolTypes DEF PageEntry
<1>2. [b.entry[p] EXCEPT !.dirty = d] = e
  BY PoolTypes, SetDirty
<1>3. [b EXCEPT !.entry[p].dirty = d] = [b EXCEPT !.entry = [b.entry EXCEPT ![p] = e]]
  BY <1>2 DEF PoolOK, PoolRecord
<1>4. e.buffer = b.entry[p].buffer /\ e.dirty = d
  OBVIOUS
<1> HIDE DEF e
<1> QED BY <1>1, <1>3, <1>4, EntryUpdate

(* mark_dirty sets one flag and changes nothing that a reader sees.        *)
LEMMA MarkDirtyContract ==
  ASSUME NEW b, PoolOK(b), NEW p \in Cached(b)
  PROVE  LET g == mark_dirty(b, p) IN
         /\ PoolOK(g) /\ Cached(g) = Cached(b) /\ g.lru = b.lru
         /\ g.entry[p].buffer = b.entry[p].buffer /\ g.entry[p].dirty = TRUE
         /\ \A q \in Cached(b) \ {p} : g.entry[q] = b.entry[q]
         /\ g.disk = b.disk /\ g.num_pages = b.num_pages /\ g.kept = b.kept
         /\ g.next_page_id = b.next_page_id
<1>1. PICK d \in BOOLEAN : d = TRUE
  OBVIOUS
<1>2. mark_dirty(b, p) = [b EXCEPT !.entry[p].dirty = d]
  BY <1>1 DEF mark_dirty
<1>3. LET g == mark_dirty(b, p) IN
         /\ PoolOK(g) /\ Cached(g) = Cached(b) /\ g.lru = b.lru
         /\ g.entry[p].buffer = b.entry[p].buffer /\ g.entry[p].dirty = d
         /\ \A q \in Cached(b) \ {p} : g.entry[q] = b.entry[q]
         /\ g.disk = b.disk /\ g.num_pages = b.num_pages /\ g.kept = b.kept
         /\ g.next_page_id = b.next_page_id
  BY <1>2, SetDirtyContract
<1> QED BY <1>1, <1>3

(* get_unused_page_num changes the page counter only.                      *)
LEMMA GetUnused ==
  ASSUME NEW b, PoolOK(b)
  PROVE  LET g == get_unused_page_num(b) IN
         /\ PoolOK(g) /\ Cached(g) = Cached(b)
         /\ g.lru = b.lru /\ g.entry = b.entry
         /\ g.disk = b.disk /\ g.num_pages = b.num_pages /\ g.kept = b.kept
         /\ g.next_page_id = b.next_page_id + 1
<1> DEFINE g == get_unused_page_num(b)
<1>1. b.next_page_id + 1 \in Nat
  BY PoolTypes
<1>2. g = [b EXCEPT !.next_page_id = b.next_page_id + 1]
  BY DEF get_unused_page_num
<1>3. /\ g \in PoolRecord /\ g.lru = b.lru /\ g.entry = b.entry
      /\ g.disk = b.disk /\ g.num_pages = b.num_pages /\ g.kept = b.kept
      /\ g.next_page_id = b.next_page_id + 1
  <2> HIDE DEF g
  <2> QED BY <1>1, <1>2 DEF PoolOK, PoolRecord
<1>4. Cached(g) = Cached(b)
  BY <1>3 DEF Cached
<1> QED BY <1>3, <1>4 DEF PoolOK

(* A pool over an existing file is consistent, empty, and numbers new      *)
(* pages from the file's end.                                              *)
LEMMA OpenContract ==
  ASSUME NEW disk \in [Page -> Content], NEW n \in Nat
  PROVE  LET g == Open(disk, n) IN
         /\ PoolOK(g) /\ Cached(g) = {} /\ Len(g.lru) = 0
         /\ g.disk = disk /\ g.num_pages = n /\ g.next_page_id = n
         /\ g.kept.disk = disk /\ g.kept.num_pages = n
<1> DEFINE g == Open(disk, n)
<1>1. [p \in {} |-> Zero] \in [{} -> PageEntry]
  OBVIOUS
<1>2. [p \in {} |-> Zero] \in EntryMap
  BY <1>1 DEF EntryMap
<1>3. g \in PoolRecord
  BY <1>2, EmptySeq DEF Open, PoolRecord, FileRecord
<1>4. /\ g.lru = <<>> /\ g.disk = disk /\ g.num_pages = n /\ g.next_page_id = n
      /\ g.entry = [p \in {} |-> Zero] /\ Len(<<>>) = 0
      /\ g.kept.disk = disk /\ g.kept.num_pages = n
  BY DEF Open
<1>5. Cached(g) = {}
  BY <1>4 DEF Cached
<1>6. Len(g.lru) <= MaxPages
  BY <1>4, MaxPagesAssumption
<1> QED BY <1>1, <1>3, <1>4, <1>5, <1>6 DEF PoolOK

(* Every nonempty set of natural numbers has a least element.              *)
LEMMA LeastIndex ==
  ASSUME NEW T \in SUBSET Nat, T # {}
  PROVE  \E x \in T : \A y \in T : x <= y
<1> DEFINE R == {ss \in Nat \X Nat : ss[1] < ss[2]}
<1>1. R = OpToRel(<, Nat)
  BY Zenon DEF OpToRel
<1>2. IsWellFoundedOn(R, Nat)
  BY <1>1, NatLessThanWellFounded, Zenon
<1>3. PICK x \in T : \A y \in T : ~(<<y, x>> \in R)
  <2> HIDE DEF R
  <2> QED BY <1>2, WFMin
<1> QED
  <2>1. ASSUME NEW y \in T PROVE x <= y
    <3>1. x \in Nat /\ y \in Nat /\ ~(y < x)
      BY <1>3
    <3> QED BY <3>1
  <2> QED BY <2>1

(* w is b after flush_all has visited the first i pages of the list.       *)
Flushed(b, i, w) ==
  LET Seen == {b.lru[j] : j \in 1 .. i}
  IN  /\ PoolOK(w) /\ w.lru = b.lru /\ w.entry = b.entry
      /\ w.next_page_id = b.next_page_id
      /\ \A q \in Page : w.disk[q] = IF q \in Seen /\ b.entry[q].dirty
                                     THEN b.entry[q].buffer ELSE b.disk[q]
      /\ b.num_pages <= w.num_pages
      /\ \A q \in Seen : b.entry[q].dirty => q < w.num_pages
      /\ w.num_pages = b.num_pages \/ \E q \in Seen : w.num_pages = q + 1

(* One round of the loop of flush_all.                                     *)
LEMMA FlushOne ==
  ASSUME NEW b, PoolOK(b), NEW i \in 1 .. Len(b.lru), NEW w, Flushed(b, i - 1, w)
  PROVE  Flushed(b, i, write_back(w, b.lru[i]))
<1> DEFINE p == b.lru[i]
           v == write_back(w, p)
           Old == {b.lru[j] : j \in 1 .. i - 1}
           Seen == {b.lru[j] : j \in 1 .. i}
<1>1. Seen = Old \cup {p} /\ i \in Nat /\ p \in Cached(b) /\ Seen \subseteq Cached(b)
  <2>1. Len(b.lru) \in Nat
    BY PoolTypes
  <2> QED BY <2>1 DEF Cached
<1>2. /\ PoolOK(w) /\ w.lru = b.lru /\ w.entry = b.entry
      /\ w.next_page_id = b.next_page_id
      /\ \A q \in Page : w.disk[q] = IF q \in Old /\ b.entry[q].dirty
                                     THEN b.entry[q].buffer ELSE b.disk[q]
      /\ b.num_pages <= w.num_pages
      /\ \A q \in Old : b.entry[q].dirty => q < w.num_pages
      /\ w.num_pages = b.num_pages \/ \E q \in Old : w.num_pages = q + 1
  BY DEF Flushed
<1>3. Cached(w) = Cached(b)
  BY <1>2 DEF Cached
<1> HIDE DEF v, p, Old, Seen
<1>4. p \in Cached(w)
  BY <1>1, <1>3
<1>5. /\ PoolOK(v) /\ v.lru = w.lru /\ v.entry = w.entry
      /\ v.next_page_id = w.next_page_id
      /\ v.disk = [w.disk EXCEPT ![p] = IF w.entry[p].dirty
                                        THEN w.entry[p].buffer ELSE w.disk[p]]
      /\ v.num_pages = IF w.entry[p].dirty /\ p >= w.num_pages
                       THEN p + 1 ELSE w.num_pages
  BY <1>2, <1>4, WriteBack DEF v
<1>6. /\ w.disk \in [Page -> Content] /\ w.num_pages \in Nat /\ b.num_pages \in Nat
      /\ Cached(b) \subseteq Page /\ Page \subseteq Nat /\ Seen \subseteq Nat
  BY <1>1, <1>2, PoolTypes, LastPageAssumption DEF Page
<1>7. \A q \in Page : v.disk[q] = IF q \in Seen /\ b.entry[q].dirty
                                  THEN b.entry[q].buffer ELSE b.disk[q]
  <2> SUFFICES ASSUME NEW q \in Page
               PROVE  v.disk[q] = IF q \in Seen /\ b.entry[q].dirty
                                  THEN b.entry[q].buffer ELSE b.disk[q]
    OBVIOUS
  <2>1. CASE q = p
    BY <1>1, <1>2, <1>5, <1>6, <2>1
  <2>2. CASE q # p
    BY <1>1, <1>2, <1>5, <1>6, <2>2
  <2> QED BY <2>1, <2>2
<1>8. /\ b.num_pages <= v.num_pages
      /\ \A q \in Seen : b.entry[q].dirty => q < v.num_pages
      /\ v.num_pages = b.num_pages \/ \E q \in Seen : v.num_pages = q + 1
  <2>1. p \in Seen /\ p \in Nat /\ w.num_pages <= v.num_pages /\ v.num_pages \in Nat
    BY <1>1, <1>5, <1>6
  <2>2. b.entry[p].dirty => p < v.num_pages
    BY <1>2, <1>5, <1>6, <2>1
  <2>3. \A q \in Seen : b.entry[q].dirty => q < v.num_pages
    BY <1>1, <1>2, <1>6, <2>1, <2>2
  <2>4. v.num_pages = b.num_pages \/ \E q \in Seen : v.num_pages = q + 1
    BY <1>1, <1>2, <1>5, <2>1
  <2> QED BY <1>2, <1>6, <2>1, <2>3, <2>4
<1> QED BY <1>2, <1>5, <1>7, <1>8 DEF Flushed, v, p, Seen

(* The loop of flush_all is defined for every list of pages: were it not,  *)
(* there would be a shortest list for which it is not.                     *)
LEMMA FlushDefined ==
  ASSUME NEW b, Len(b.lru) \in Nat
  PROVE  \E f : /\ f = [i \in 0 .. Len(b.lru) |->
                          IF i = 0 THEN b ELSE write_back(f[i - 1], b.lru[i])]
                /\ flush_all(b) = f[Len(b.lru)]
<1> DEFINE L == Len(b.lru)
           To(k, f) == [i \in 0 .. k |->
                          IF i = 0 THEN b ELSE write_back(f[i - 1], b.lru[i])]
           g == CHOOSE f : f = To(L, f)
           Bad == {k \in Nat : ~ \E f : f = To(k, f)}
<1>1. flush_all(b) = g[L]
  BY DEF flush_all
<1>2. Bad = {}
  <2>1. SUFFICES ASSUME Bad # {} PROVE FALSE
    OBVIOUS
  <2>2. PICK k \in Bad : \A j \in Bad : k <= j
    BY <2>1, LeastIndex
  <2>3. k # 0
    <3>1. SUFFICES ASSUME k = 0 PROVE FALSE
      OBVIOUS
    <3> DEFINE f == [i \in 0 .. 0 |-> b]
    <3>2. f = To(0, f)
      OBVIOUS
    <3> QED BY <2>2, <3>1, <3>2
  <2>4. k - 1 \in Nat /\ ~(k <= k - 1)
    BY <2>2, <2>3
  <2>5. PICK f : f = To(k - 1, f)
    BY <2>2, <2>4
  <2> DEFINE h == To(k, f)
  <2>6. ASSUME NEW i \in 0 .. k, i # 0 PROVE h[i - 1] = f[i - 1]
    <3>1. i - 1 \in 0 .. k - 1 /\ i - 1 \in 0 .. k
      BY <2>2, <2>6
    <3> QED BY <2>5, <3>1
  <2>7. h = To(k, h)
    BY <2>6
  <2> QED BY <2>2, <2>7
<1>3. g = To(L, g)
  BY <1>2
<1> QED BY <1>1, <1>3

(* flush_all writes every dirty page, and the file grows to cover them.    *)
LEMMA FlushContract ==
  ASSUME NEW b, PoolOK(b)
  PROVE  Flushed(b, Len(b.lru), flush_all(b))
<1> DEFINE L == Len(b.lru)
<1>1. L \in Nat
  BY PoolTypes
<1>2. PICK f : /\ f = [i \in 0 .. L |->
                         IF i = 0 THEN b ELSE write_back(f[i - 1], b.lru[i])]
               /\ flush_all(b) = f[L]
  BY <1>1, FlushDefined
<1> DEFINE Bad == {i \in 0 .. L : ~Flushed(b, i, f[i])}
<1>3. Bad = {}
  <2>1. SUFFICES ASSUME Bad # {} PROVE FALSE
    OBVIOUS
  <2>2. PICK i \in Bad : \A j \in Bad : i <= j
    <3>1. Bad \in SUBSET Nat
      BY <1>1
    <3> HIDE DEF Bad
    <3> QED BY <2>1, <3>1, LeastIndex
  <2>3. CASE i = 0
    <3>1. f[i] = b
      BY <1>1, <1>2, <2>3
    <3>2. b.num_pages <= b.num_pages
      BY PoolTypes
    <3>3. {b.lru[j] : j \in 1 .. 0} = {}
      OBVIOUS
    <3>4. Flushed(b, 0, b)
      BY <3>2, <3>3 DEF Flushed
    <3> QED BY <2>2, <2>3, <3>1, <3>4
  <2>4. CASE i # 0
    <3>0. i \in 0 .. L
      BY <2>2
    <3>1. /\ i \in 1 .. L /\ i - 1 \in 0 .. L /\ ~(i <= i - 1)
          /\ f[i] = write_back(f[i - 1], b.lru[i])
      BY ONLY <1>1, <1>2, <2>4, <3>0
    <3>2. Flushed(b, i - 1, f[i - 1])
      BY <2>2, <3>1
    <3>3. Flushed(b, i, f[i])
      BY <3>1, <3>2, FlushOne
    <3> QED BY <2>2, <3>3
  <2> QED BY <2>3, <2>4
<1>4. L \in 0 .. L
  BY <1>1
<1> QED BY <1>2, <1>3, <1>4

(* A restart keeps what was in the file or marked, and numbers new pages   *)
(* from the end of the file as the flush left it.                          *)
LEMMA RestartContract ==
  ASSUME NEW b, PoolOK(b)
  PROVE  LET g == Restarted(b) IN
         /\ PoolOK(g) /\ Cached(g) = {} /\ g.next_page_id = g.num_pages
         /\ \A q \in Page : g.disk[q] = IF q \in Cached(b) /\ b.entry[q].dirty
                                        THEN b.entry[q].buffer ELSE b.disk[q]
         /\ b.num_pages <= g.num_pages
         /\ \A q \in Cached(b) : b.entry[q].dirty => q < g.num_pages
         /\ g.num_pages = b.num_pages \/ \E q \in Cached(b) : g.num_pages = q + 1
<1> DEFINE f == flush_all(b)
           g == Restarted(b)
<1>1. /\ PoolOK(f)
      /\ \A q \in Page : f.disk[q] = IF q \in Cached(b) /\ b.entry[q].dirty
                                     THEN b.entry[q].buffer ELSE b.disk[q]
      /\ b.num_pages <= f.num_pages
      /\ \A q \in Cached(b) : b.entry[q].dirty => q < f.num_pages
      /\ f.num_pages = b.num_pages \/ \E q \in Cached(b) : f.num_pages = q + 1
  BY FlushContract DEF Flushed, Cached
<1>2. g = Open(f.disk, f.num_pages)
  BY DEF Restarted
<1> HIDE DEF f, g
<1>3. f.disk \in [Page -> Content] /\ f.num_pages \in Nat
  BY <1>1, PoolTypes
<1>4. /\ PoolOK(g) /\ Cached(g) = {}
      /\ g.disk = f.disk /\ g.num_pages = f.num_pages /\ g.next_page_id = f.num_pages
  BY <1>2, <1>3, OpenContract
<1> QED BY <1>1, <1>4 DEF g

-----------------------------------------------------------------------------
(* The inductive invariant.                                                *)

(* All pages ahead of a held page in the list were fetched after it.       *)
Recency ==
  held \subseteq Cached(pool) /\ \A q \in held : Ahead(pool, q) \subseteq recent[q]

(* What a clean page holds, if it is not being written, is on disk.        *)
CleanIsOnDisk ==
  \A p \in Cached(pool) \ unmarked :
    ~pool.entry[p].dirty => pool.entry[p].buffer = pool.disk[p]

(* Both copies of a page, cached and on disk, are recent versions of it.   *)
VersionsOK ==
  \A p \in Page : View(pool)[p] \in versions[p] /\ pool.disk[p] \in versions[p]

(* The counter is beyond the file, the cache and the pages in use.         *)
CounterOK ==
  /\ \A p \in taken \cup Cached(pool) : p < pool.next_page_id
  /\ pool.num_pages <= pool.next_page_id
  /\ \A p \in Page : p >= pool.num_pages => pool.disk[p] = Zero

(* flush_all saves the pages in list order, and nothing else happens.      *)
FlushOK ==
  phase # "open" =>
    /\ unmarked = {} /\ pos > 0
    /\ \A i \in 1 .. Len(pool.lru) :
         i < pos => pool.disk[pool.lru[i]] = pool.entry[pool.lru[i]].buffer

(* Without the stream's buffer the file lacks one page at most, the last   *)
(* that was written, and has a recent version of it and no page past its   *)
(* own end.                                                                *)
KeptOK ==
  /\ \E last \in Page : \A p \in Page \ {last} : pool.kept.disk[p] = pool.disk[p]
  /\ \A p \in Page : /\ pool.kept.disk[p] \in versions[p]
                     /\ p >= pool.kept.num_pages => pool.kept.disk[p] = Zero

IInv ==
  TypeOK /\ Recency /\ CleanIsOnDisk /\ VersionsOK /\ CounterOK /\ FlushOK /\ KeptOK

-----------------------------------------------------------------------------
(* A file that is settled is as the pager reads it.                        *)
LEMMA Settled ==
  ASSUME pool'.kept = File(pool'), VersionsOK', CounterOK'
  PROVE  KeptOK'
<1>1. pool'.kept.disk = pool'.disk /\ pool'.kept.num_pages = pool'.num_pages
  BY DEF File
<1>2. 0 \in Page
  BY LastPageAssumption DEF Page
<1> QED BY <1>1, <1>2 DEF KeptOK, VersionsOK, CounterOK

(* A step that leaves both files alone and forgets no version.             *)
LEMMA KeptKept ==
  ASSUME KeptOK, pool'.kept = pool.kept, pool'.disk = pool.disk,
         \A p \in Page : versions[p] \subseteq versions'[p]
  PROVE  KeptOK'
  BY DEF KeptOK

(* The caller's bookkeeping (recent) speaks of pages only.                 *)
LEMMA RecentTypes ==
  ASSUME TypeOK
  PROVE  held \subseteq Page /\ \A q \in held : recent[q] \subseteq Page
<1>1. PICK S \in SUBSET Page : recent \in [S -> SUBSET Page]
  BY DEF TypeOK
<1> QED BY <1>1 DEF held

(* If the list is full, all pages but one are ahead of the last one.       *)
LEMMA LastIsBehindAll ==
  ASSUME NEW b, PoolOK(b), Len(b.lru) = MaxPages
  PROVE  Cardinality(Ahead(b, b.lru[MaxPages])) = MaxPages - 1
<1> DEFINE S == Ahead(b, b.lru[MaxPages])
           f == [j \in 1 .. MaxPages - 1 |-> b.lru[j]]
<1>1. MaxPages \in Nat \ {0} /\ MaxPages - 1 \in Nat
  BY MaxPagesAssumption
<1>2. \A i, j \in 1 .. MaxPages : b.lru[i] = b.lru[j] => i = j
  BY DEF PoolOK
<1>3. \A j \in 1 .. MaxPages : b.lru[j] \in Cached(b)
  BY DEF Cached
<1>4. f \in [1 .. MaxPages - 1 -> S]
  <2>1. SUFFICES ASSUME NEW j \in 1 .. MaxPages - 1 PROVE b.lru[j] \in S
    OBVIOUS
  <2>2. j \in 1 .. MaxPages /\ MaxPages \in 1 .. MaxPages /\ j < MaxPages
    BY <1>1
  <2> QED BY <1>3, <2>2 DEF Ahead
<1>5. \A i, j \in 1 .. MaxPages - 1 : f[i] = f[j] => i = j
  BY <1>1, <1>2
<1>6. \A r \in S : \E j \in 1 .. MaxPages - 1 : f[j] = r
  <2>1. SUFFICES ASSUME NEW j \in 1 .. MaxPages, NEW i \in 1 .. MaxPages,
                        j < i, b.lru[i] = b.lru[MaxPages]
                 PROVE  j \in 1 .. MaxPages - 1
    BY DEF Ahead
  <2> QED BY <1>1, <2>1
<1>7. ExistsBijection(1 .. MaxPages - 1, S)
  <2> HIDE DEF S, f
  <2>1. f \in Bijection(1 .. MaxPages - 1, S)
    BY <1>4, <1>5, <1>6 DEF Bijection, Injection, Surjection, IsInjective
  <2> QED BY <2>1 DEF ExistsBijection
<1> QED BY <1>1, <1>7, FS_CountingElements

(* No pointer in use is lost to the eviction that a fetch brings about.    *)
LEMMA FetchKeepsHeld ==
  ASSUME TypeOK, Recency, NEW p \in Page, WithinWindow(p), NEW g, Fetched(pool, p, g)
  PROVE  held \subseteq Cached(g)
<1>1. SUFFICES ASSUME NEW q \in held, q \notin Cached(g) PROVE FALSE
  OBVIOUS
<1>2. /\ PoolOK(pool) /\ q \in Cached(pool) /\ p \notin Cached(pool)
      /\ Len(pool.lru) = MaxPages /\ q = pool.lru[MaxPages] /\ q # p
  BY <1>1 DEF TypeOK, Recency, Fetched
<1> DEFINE A == Ahead(pool, q)
           R == recent[q] \cup {p}
<1>3. /\ MaxPages \in Nat \ {0} /\ Window \in Nat /\ Window <= MaxPages
      /\ LastPage \in Nat
  BY MaxPagesAssumption, WindowAssumption, LastPageAssumption
<1>4. Cardinality(A) = MaxPages - 1
  BY <1>2, LastIsBehindAll
<1>5. A \subseteq recent[q] /\ p \notin A /\ R \subseteq Page
  BY <1>1, <1>2, RecentTypes DEF Recency, Ahead
<1>6. IsFiniteSet(Page)
  BY <1>3, FS_Interval DEF Page
<1>7. IsFiniteSet(R) /\ IsFiniteSet(A)
  BY <1>5, <1>6, FS_Subset
<1>8. Cardinality(A \cup {p}) = MaxPages /\ IsFiniteSet(A \cup {p})
  BY <1>3, <1>4, <1>5, <1>7, FS_AddElement
<1>9. Cardinality(A \cup {p}) <= Cardinality(R)
  BY <1>5, <1>7, FS_Subset
<1>10. Cardinality(R) < Window /\ Cardinality(R) \in Nat
  BY <1>1, <1>2, <1>7, FS_CardinalityType DEF WithinWindow
<1> QED BY <1>3, <1>8, <1>9, <1>10

(* A map from some set of pages to sets of pages has the type of recent.   *)
LEMMA RecentMap ==
  ASSUME NEW S \in SUBSET Page, NEW f \in [S -> SUBSET Page]
  PROVE  f \in UNION {[T -> SUBSET Page] : T \in SUBSET Page}
  OBVIOUS

(* A fetch changes what no reader sees.                                    *)
LEMMA FetchIsInvisible ==
  ASSUME IInv, NEW p \in Page, NEW g, Fetched(pool, p, g), held \subseteq Cached(g)
  PROVE  View(g) = View(pool)
<1>1. SUFFICES ASSUME NEW q \in Page PROVE View(g)[q] = View(pool)[q]
  BY DEF View
<1>2. CASE q \in Cached(g) /\ q \in Cached(pool)
  BY <1>1, <1>2 DEF View, Fetched
<1>3. CASE q \in Cached(g) /\ q \notin Cached(pool)
  BY <1>1, <1>3 DEF View, Fetched
<1>4. CASE q \notin Cached(g) /\ q \notin Cached(pool)
  BY <1>1, <1>4 DEF View, Fetched
<1>5. CASE q \notin Cached(g) /\ q \in Cached(pool)
  <2>1. q \notin unmarked
    BY <1>5 DEF IInv, TypeOK
  <2>2. ~pool.entry[q].dirty => pool.entry[q].buffer = pool.disk[q]
    BY <1>5, <2>1 DEF IInv, CleanIsOnDisk
  <2> QED BY <1>1, <1>5, <2>2 DEF View, Fetched
<1> QED BY <1>2, <1>3, <1>4, <1>5

(* get_page (a hit, a miss with room, a miss with an eviction) keeps the   *)
(* inductive invariant.                                                    *)
LEMMA GetPageStep ==
  ASSUME IInv, NEW p \in Page, GetPage(p)
  PROVE  IInv' /\ View(pool') = View(pool) /\ ret' = View(pool)[p]
<1> DEFINE g == get_page(pool, p)
<1>1. PoolOK(pool) /\ pool' = g /\ ret' = g.entry[p].buffer
  BY DEF IInv, TypeOK, GetPage
<1>2. /\ Fetched(pool, p, g)
      /\ g.next_page_id = IF p >= pool.next_page_id THEN p + 1
                                                    ELSE pool.next_page_id
  BY <1>1, GetPageContract
<1> HIDE DEF g
<1>3. held \subseteq Cached(g)
  BY <1>2, FetchKeepsHeld DEF IInv, GetPage
<1>4. View(g) = View(pool)
  BY <1>2, <1>3, FetchIsInvisible
<1>5. TypeOK'
  <2>1. recent' \in [held \cup {p} -> SUBSET Page] /\ held \cup {p} \subseteq Page
    BY RecentTypes DEF IInv, GetPage
  <2>2. recent' \in UNION {[T -> SUBSET Page] : T \in SUBSET Page}
    BY <2>1, RecentMap
  <2>3. PoolOK(pool')
    BY <1>1, <1>2 DEF Fetched
  <2>4. unmarked' \subseteq DOMAIN recent' /\ taken' \subseteq Page
    BY <2>1 DEF IInv, TypeOK, GetPage, held
  <2>5. ret' \in Content
    BY <1>1, <1>2, PoolTypes DEF Fetched
  <2> QED BY <2>2, <2>3, <2>4, <2>5 DEF IInv, TypeOK, GetPage, held
<1>6. Recency'
  <2>1. DOMAIN recent' = held \cup {p} /\ recent'[p] = {}
        /\ \A q \in held \ {p} : recent'[q] = recent[q] \cup {p}
    BY DEF GetPage
  <2> QED BY <1>1, <1>2, <1>3, <2>1 DEF IInv, Recency, held, Fetched
<1>7. CleanIsOnDisk'
  <2>1. SUFFICES ASSUME NEW q \in Cached(g) \ unmarked, ~g.entry[q].dirty
                 PROVE  g.entry[q].buffer = g.disk[q]
    BY <1>1 DEF CleanIsOnDisk, GetPage
  <2>2. q \in Page /\ g.disk[q] = pool.disk[q]
    BY <1>2, <2>1, PoolTypes DEF Fetched
  <2>3. CASE q \in Cached(pool)
    BY <1>2, <2>1, <2>2, <2>3 DEF IInv, CleanIsOnDisk, Fetched
  <2>4. CASE q \notin Cached(pool)
    BY <1>2, <2>1, <2>2, <2>4 DEF Fetched
  <2> QED BY <2>3, <2>4
<1>8. VersionsOK'
  <2>1. SUFFICES ASSUME NEW q \in Page
                 PROVE  View(g)[q] \in versions[q] /\ g.disk[q] \in versions[q]
    BY <1>1 DEF VersionsOK, GetPage
  <2>2. View(pool)[q] \in versions[q] /\ pool.disk[q] \in versions[q]
    BY DEF IInv, VersionsOK
  <2>3. q \in Cached(pool) => View(pool)[q] = pool.entry[q].buffer
    BY DEF View
  <2> QED BY <1>2, <1>4, <2>2, <2>3 DEF Fetched
<1>9. CounterOK'
  <2>1. /\ Page \subseteq Nat /\ Cached(pool) \subseteq Page /\ taken \subseteq Page
        /\ pool.next_page_id \in Nat /\ pool.num_pages \in Nat
        /\ g.num_pages \in Nat /\ g.next_page_id \in Nat
    BY <1>1, <1>2, PoolTypes, LastPageAssumption DEF IInv, TypeOK, Page, Fetched
  <2>2. pool.next_page_id <= g.next_page_id /\ p < g.next_page_id
    BY <1>2, <2>1
  <2>3. \A q \in taken \cup {p} \cup Cached(g) : q < g.next_page_id
    BY <1>2, <2>1, <2>2 DEF IInv, CounterOK, Fetched
  <2>4. g.num_pages <= g.next_page_id
    BY <1>2, <2>1, <2>2 DEF IInv, CounterOK, Fetched
  <2>5. \A q \in Page : q >= g.num_pages => g.disk[q] = Zero
    BY <1>2, <2>1 DEF IInv, CounterOK, Fetched
  <2> QED BY <1>1, <2>3, <2>4, <2>5 DEF CounterOK, GetPage
<1>10. FlushOK'
  BY DEF FlushOK, GetPage
<1>11. ret' = View(pool)[p]
  BY <1>1, <1>2, <1>4 DEF Fetched, View
<1>12. KeptOK'
  <2>1. CASE p \in Cached(pool)
    <3>1. /\ g.kept = pool.kept /\ \A q \in Page : g.disk[q] = pool.disk[q]
          /\ versions' = versions
      BY <1>2, <2>1 DEF Fetched, GetPage
    <3> QED BY <1>1, <3>1 DEF IInv, KeptOK
  <2>2. CASE p \notin Cached(pool)
    <3>1. g.kept = File(g)
      BY <1>2, <2>2 DEF Fetched
    <3> QED BY <1>1, <1>8, <1>9, <3>1, Settled
  <2> QED BY <2>1, <2>2
<1> QED BY <1>1, <1>4, <1>5, <1>6, <1>7, <1>8, <1>9, <1>10, <1>11, <1>12 DEF IInv

(* A write through a held pointer changes one buffer, what readers see of  *)
(* that page, and nothing on disk.                                         *)
LEMMA ModifyStep ==
  ASSUME IInv, NEW p \in Page, NEW c \in Content, Modify(p, c)
  PROVE  IInv' /\ View(pool') = [View(pool) EXCEPT ![p] = c]
<1> DEFINE g == store(pool, p, c)
<1>1. PoolOK(pool) /\ pool' = g /\ p \in Cached(pool)
  BY DEF IInv, TypeOK, Recency, Modify
<1>2. /\ PoolOK(g) /\ Cached(g) = Cached(pool) /\ g.lru = pool.lru
      /\ g.entry[p] = [buffer |-> c, dirty |-> pool.entry[p].dirty]
      /\ \A q \in Cached(pool) \ {p} : g.entry[q] = pool.entry[q]
      /\ g.disk = pool.disk /\ g.num_pages = pool.num_pages /\ g.kept = pool.kept
      /\ g.next_page_id = pool.next_page_id
  BY <1>1, StoreContract
<1> HIDE DEF g
<1>3. View(g) = [View(pool) EXCEPT ![p] = c]
  <2>1. \A q \in Page : View(g)[q] = IF q = p THEN c ELSE View(pool)[q]
    BY <1>1, <1>2 DEF View
  <2>2. \A q \in Page : [View(pool) EXCEPT ![p] = c][q]
                           = IF q = p THEN c ELSE View(pool)[q]
    BY DEF View
  <2> QED BY <2>1, <2>2 DEF View
<1>4. TypeOK'
  <2>1. versions' \in [Page -> SUBSET Content]
    BY DEF IInv, TypeOK, Modify
  <2> QED BY <1>1, <1>2, <2>1 DEF IInv, TypeOK, Modify, held
<1>5. Recency'
  BY <1>1, <1>2 DEF IInv, Recency, Modify, held, Ahead
<1>6. CleanIsOnDisk'
  BY <1>1, <1>2 DEF IInv, CleanIsOnDisk, Modify
<1>7. VersionsOK'
  BY <1>1, <1>2, <1>3 DEF IInv, TypeOK, VersionsOK, Modify, View
<1>8. CounterOK'
  BY <1>1, <1>2 DEF IInv, CounterOK, Modify
<1>9. FlushOK'
  BY DEF FlushOK, Modify
<1>10. KeptOK'
  <2>1. \A q \in Page : versions[q] \subseteq versions'[q]
    BY DEF IInv, TypeOK, Modify
  <2> QED BY <1>1, <1>2, <2>1, KeptKept DEF IInv
<1> QED BY <1>1, <1>3, <1>4, <1>5, <1>6, <1>7, <1>8, <1>9, <1>10 DEF IInv

(* mark_dirty keeps the invariant: the page may differ from the file now.  *)
LEMMA MarkDirtyStep ==
  ASSUME IInv, NEW p \in Page, MarkDirty(p)
  PROVE  IInv' /\ View(pool') = View(pool)
<1> DEFINE g == mark_dirty(pool, p)
<1>1. PoolOK(pool) /\ pool' = g /\ p \in Cached(pool)
  BY DEF IInv, TypeOK, Recency, MarkDirty
<1>2. /\ PoolOK(g) /\ Cached(g) = Cached(pool) /\ g.lru = pool.lru
      /\ g.entry[p].buffer = pool.entry[p].buffer /\ g.entry[p].dirty = TRUE
      /\ \A q \in Cached(pool) \ {p} : g.entry[q] = pool.entry[q]
      /\ g.disk = pool.disk /\ g.num_pages = pool.num_pages /\ g.kept = pool.kept
      /\ g.next_page_id = pool.next_page_id
  BY <1>1, MarkDirtyContract
<1> HIDE DEF g
<1>3. View(g) = View(pool)
  BY <1>2 DEF View
<1>4. TypeOK'
  BY <1>1, <1>2 DEF IInv, TypeOK, MarkDirty, held
<1>5. Recency'
  BY <1>1, <1>2 DEF IInv, Recency, MarkDirty, held, Ahead
<1>6. CleanIsOnDisk'
  BY <1>1, <1>2 DEF IInv, CleanIsOnDisk, MarkDirty
<1>7. VersionsOK'
  BY <1>1, <1>2, <1>3 DEF IInv, VersionsOK, MarkDirty
<1>8. CounterOK'
  BY <1>1, <1>2 DEF IInv, CounterOK, MarkDirty
<1>9. FlushOK'
  BY DEF FlushOK, MarkDirty
<1>10. KeptOK'
  BY <1>1, <1>2, KeptKept DEF IInv, MarkDirty
<1> QED BY <1>1, <1>3, <1>4, <1>5, <1>6, <1>7, <1>8, <1>9, <1>10 DEF IInv

(* A pointer that goes out of scope after its writes were marked dirty     *)
(* leaves no clean page that differs from the file.                        *)
LEMMA ReleaseStep ==
  ASSUME IInv, NEW p \in Page, Release(p)
  PROVE  IInv' /\ View(pool') = View(pool)
<1>1. /\ recent' = [q \in held \ {p} |-> recent[q]] /\ p \notin unmarked
      /\ UNCHANGED <<pool, unmarked, phase, pos, ret, versions, taken>>
  BY DEF Release
<1>2. TypeOK'
  <2>1. recent' \in [held \ {p} -> SUBSET Page] /\ held \ {p} \subseteq Page
    BY <1>1, RecentTypes DEF IInv
  <2>2. recent' \in UNION {[T -> SUBSET Page] : T \in SUBSET Page}
    BY <2>1, RecentMap
  <2>3. unmarked' \subseteq DOMAIN recent'
    BY <1>1, <2>1 DEF IInv, TypeOK, held
  <2> QED BY <1>1, <2>2, <2>3 DEF IInv, TypeOK, held
<1>3. Recency'
  BY <1>1 DEF IInv, Recency, held
<1> QED BY <1>1, <1>2, <1>3
        DEF IInv, CleanIsOnDisk, VersionsOK, CounterOK, FlushOK, KeptOK

(* get_unused_page_num keeps its counter beyond every page in use.         *)
LEMMA NewPageStep ==
  ASSUME IInv, NewPage
  PROVE  IInv' /\ View(pool') = View(pool) /\ pool.next_page_id \notin taken
<1> DEFINE g == get_unused_page_num(pool)
           n == pool.next_page_id
<1>1. PoolOK(pool) /\ pool' = g /\ taken' = taken \cup {n}
  BY DEF IInv, TypeOK, NewPage
<1>2. /\ PoolOK(g) /\ Cached(g) = Cached(pool)
      /\ g.lru = pool.lru /\ g.entry = pool.entry
      /\ g.disk = pool.disk /\ g.num_pages = pool.num_pages /\ g.kept = pool.kept
      /\ g.next_page_id = n + 1
  BY <1>1, GetUnused
<1>3. /\ n \in Page /\ Page \subseteq Nat /\ Cached(pool) \subseteq Page
      /\ taken \subseteq Page /\ pool.num_pages \in Nat
  BY <1>1, PoolTypes, LastPageAssumption DEF Page, NewPage, IInv, TypeOK
<1> HIDE DEF g
<1>4. View(g) = View(pool)
  BY <1>2 DEF View
<1>5. n \notin taken
  <2>1. \A q \in taken : q < n
    BY DEF IInv, CounterOK
  <2>2. n \in Page /\ Page \subseteq Nat
    BY <1>3
  <2> HIDE DEF n
  <2>3. ~(n < n)
    BY <2>2
  <2> QED BY <2>1, <2>3
<1>6. TypeOK'
  BY <1>1, <1>2, <1>3 DEF IInv, TypeOK, NewPage, held
<1>7. Recency'
  BY <1>1, <1>2 DEF IInv, Recency, NewPage, held, Ahead
<1>8. CleanIsOnDisk'
  BY <1>1, <1>2 DEF IInv, CleanIsOnDisk, NewPage
<1>9. VersionsOK'
  BY <1>1, <1>2, <1>4 DEF IInv, VersionsOK, NewPage
<1>10. CounterOK'
  <2>1. (\A q \in taken \cup Cached(pool) : q < n) /\ pool.num_pages <= n
    BY DEF IInv, CounterOK
  <2>2. \A q \in taken \cup {n} \cup Cached(pool) : q \in Nat
    BY <1>3
  <2> HIDE DEF n
  <2>3. (\A q \in taken \cup {n} \cup Cached(pool) : q < n + 1) /\ n \in Nat
    BY <1>3, <2>1, <2>2
  <2>4. pool.num_pages <= n + 1
    BY <1>3, <2>1, <2>3
  <2> QED BY <1>1, <1>2, <2>3, <2>4 DEF IInv, CounterOK, NewPage
<1>11. FlushOK'
  BY DEF FlushOK, NewPage
<1>12. KeptOK'
  BY <1>1, <1>2, KeptKept DEF IInv, NewPage
<1> QED BY <1>1, <1>4, <1>5, <1>6, <1>7, <1>8, <1>9, <1>10, <1>11, <1>12 DEF IInv

(* Entering flush_all with every write marked keeps the invariant.         *)
LEMMA FlushAllStep ==
  ASSUME IInv, NEW from \in {"flush", "close"}, FlushAll(from)
  PROVE  IInv' /\ View(pool') = View(pool)
<1>1. /\ phase' = from /\ pos' = 1 /\ unmarked = {}
      /\ UNCHANGED <<pool, recent, unmarked, ret, versions, taken>>
  BY DEF FlushAll
<1>2. TypeOK'
  BY <1>1 DEF IInv, TypeOK, held
<1>3. FlushOK'
  <2>1. \A i \in 1 .. Len(pool.lru) : ~(i < 1)
    BY PoolTypes DEF IInv, TypeOK
  <2> QED BY <1>1, <2>1 DEF FlushOK
<1> QED BY <1>1, <1>2, <1>3
        DEF IInv, Recency, held, CleanIsOnDisk, VersionsOK, CounterOK, KeptOK

(* One iteration of flush_all saves one page more of the list.             *)
LEMMA FlushStepStep ==
  ASSUME IInv, FlushStep
  PROVE  IInv' /\ View(pool') = View(pool)
<1> DEFINE p == pool.lru[pos]
           g == write_back(pool, p)
<1>1. PoolOK(pool) /\ pool' = g /\ pos \in 1 .. Len(pool.lru) /\ p \in Cached(pool)
  <2>1. PoolOK(pool) /\ pos \in Nat /\ pos > 0 /\ pos <= Len(pool.lru)
    BY DEF IInv, TypeOK, FlushOK, FlushStep
  <2>2. pos \in 1 .. Len(pool.lru)
    BY <2>1, PoolTypes
  <2> QED BY <2>1, <2>2 DEF FlushStep, Cached
<1>2. /\ PoolOK(g) /\ Cached(g) = Cached(pool)
      /\ g.lru = pool.lru /\ g.entry = pool.entry
      /\ g.next_page_id = pool.next_page_id
      /\ g.disk = [pool.disk EXCEPT ![p] = IF pool.entry[p].dirty
                                           THEN pool.entry[p].buffer ELSE pool.disk[p]]
      /\ g.num_pages = IF pool.entry[p].dirty /\ p >= pool.num_pages
                       THEN p + 1 ELSE pool.num_pages
      /\ g.kept = IF pool.entry[p].dirty THEN File(pool) ELSE pool.kept
  BY <1>1, WriteBack
<1>3. /\ p \in Page /\ Page \subseteq Nat /\ Cached(pool) \subseteq Page
      /\ pool.num_pages \in Nat /\ pool.next_page_id \in Nat /\ pos \in Nat
      /\ pool.disk \in [Page -> Content] /\ Len(pool.lru) \in Nat
      /\ \A i \in 1 .. Len(pool.lru) : pool.lru[i] \in Page /\ pool.lru[i] \in Cached(pool)
  BY <1>1, PoolTypes, LastPageAssumption DEF Page, Cached
<1>4. pool.entry[p].buffer \in Content /\ pool.entry[p].dirty \in BOOLEAN
  BY <1>1, PoolTypes
<1>5. /\ pos' = pos + 1 /\ unmarked = {}
      /\ UNCHANGED <<recent, unmarked, phase, ret, versions, taken>>
  BY DEF IInv, FlushOK, FlushStep
<1>6. ~pool.entry[p].dirty => pool.entry[p].buffer = pool.disk[p]
  BY <1>1, <1>5 DEF IInv, CleanIsOnDisk
<1> HIDE DEF g, p
<1>7. \A q \in Page : g.disk[q] = IF q = p THEN pool.entry[p].buffer ELSE pool.disk[q]
  BY <1>2, <1>3, <1>6
<1>8. View(g) = View(pool)
  BY <1>1, <1>2, <1>7 DEF View
<1>9. TypeOK'
  BY <1>1, <1>2, <1>3, <1>5 DEF IInv, TypeOK, held
<1>10. Recency'
  BY <1>1, <1>2, <1>5 DEF IInv, Recency, held, Ahead
<1>11. CleanIsOnDisk'
  BY <1>1, <1>2, <1>3, <1>5, <1>7 DEF IInv, CleanIsOnDisk
<1>12. VersionsOK'
  <2>1. SUFFICES ASSUME NEW q \in Page
                 PROVE  View(g)[q] \in versions[q] /\ g.disk[q] \in versions[q]
    BY <1>1, <1>5 DEF VersionsOK
  <2>2. View(pool)[q] \in versions[q] /\ pool.disk[q] \in versions[q]
    BY DEF IInv, VersionsOK
  <2>3. View(pool)[p] = pool.entry[p].buffer
    BY <1>1, <1>3 DEF View
  <2> QED BY <1>7, <1>8, <2>2, <2>3
<1>13. CounterOK'
  <2>1. \A q \in taken \cup Cached(g) : q < g.next_page_id
    BY <1>2 DEF IInv, CounterOK
  <2>2. p < pool.next_page_id /\ pool.num_pages <= pool.next_page_id
    BY <1>1 DEF IInv, CounterOK
  <2>3. g.num_pages <= g.next_page_id
    BY <1>2, <1>3, <2>2
  <2>4. \A q \in Page : q >= g.num_pages => g.disk[q] = Zero
    <3>1. SUFFICES ASSUME NEW q \in Page, q >= g.num_pages PROVE g.disk[q] = Zero
      OBVIOUS
    <3>2. q >= pool.num_pages
      BY <1>2, <1>3, <3>1
    <3>3. pool.disk[q] = Zero
      BY <3>2 DEF IInv, CounterOK
    <3>4. q = p => ~pool.entry[p].dirty
      BY <1>2, <1>3, <1>4, <3>1
    <3> QED BY <1>6, <1>7, <3>3, <3>4
  <2> QED BY <1>1, <1>5, <2>1, <2>3, <2>4 DEF CounterOK
<1>14. FlushOK'
  <2>1. SUFFICES ASSUME phase # "open", NEW i \in 1 .. Len(pool.lru), i < pos + 1
                 PROVE  g.disk[pool.lru[i]] = pool.entry[pool.lru[i]].buffer
    <3>1. pos + 1 > 0
      BY <1>3
    <3> QED BY <1>1, <1>2, <1>5, <2>1, <3>1 DEF FlushOK
  <2>2. CASE i = pos
    BY <1>3, <1>7, <2>2 DEF p
  <2>3. CASE i < pos
    <3>1. pool.disk[pool.lru[i]] = pool.entry[pool.lru[i]].buffer
      BY <2>1, <2>3 DEF IInv, FlushOK
    <3> QED BY <1>3, <1>7, <3>1
  <2> QED BY <1>3, <2>1, <2>2, <2>3
<1>15. KeptOK'
  <2>1. CASE pool.entry[p].dirty
    <3>1. g.kept.disk = pool.disk /\ g.kept.num_pages = pool.num_pages
      BY <1>2, <2>1 DEF File
    <3>2. \A q \in Page \ {p} : g.kept.disk[q] = g.disk[q]
      BY <1>7, <3>1
    <3>3. \A q \in Page : /\ pool.disk[q] \in versions[q]
                          /\ q >= pool.num_pages => pool.disk[q] = Zero
      BY DEF IInv, VersionsOK, CounterOK
    <3> QED BY <1>1, <1>3, <1>5, <3>1, <3>2, <3>3 DEF KeptOK
  <2>2. CASE ~pool.entry[p].dirty
    <3>1. g.kept = pool.kept /\ g.disk = pool.disk
      BY <1>2, <1>3, <2>2
    <3> QED BY <1>1, <1>5, <3>1, KeptKept DEF IInv
  <2> QED BY <2>1, <2>2
<1> QED BY <1>1, <1>8, <1>9, <1>10, <1>11, <1>12, <1>13, <1>14, <1>15 DEF IInv

(* A finished walk has saved every page.                                   *)
LEMMA SavedAll == IInv => FlushSavesAll
<1>1. SUFFICES ASSUME IInv, phase # "open", pos > Len(pool.lru)
               PROVE  pool.disk = View(pool)
  BY DEF FlushSavesAll
<1>2. /\ PoolOK(pool) /\ pos \in Nat /\ Len(pool.lru) \in Nat
      /\ pool.disk \in [Page -> Content]
  BY <1>1, PoolTypes DEF IInv, TypeOK
<1>3. SUFFICES ASSUME NEW q \in Page PROVE pool.disk[q] = View(pool)[q]
  BY <1>2 DEF View
<1>4. CASE q \in Cached(pool)
  <2>1. PICK i \in 1 .. Len(pool.lru) : pool.lru[i] = q
    BY <1>4 DEF Cached
  <2>2. i < pos
    BY <1>1, <1>2
  <2> QED BY <1>1, <1>4, <2>1, <2>2 DEF IInv, FlushOK, View
<1>5. CASE q \notin Cached(pool)
  BY <1>5 DEF View
<1> QED BY <1>4, <1>5

(* At the end of flush_all the file as the pager reads it is what readers  *)
(* see, and a crash brings that back, but for the page written last.       *)
LEMMA FlushDoneStep ==
  ASSUME IInv, FlushDone
  PROVE  /\ IInv' /\ pool' = pool
         /\ \E last \in Page : \A p \in Page \ {last} : pool.kept.disk[p] = View(pool)[p]
<1>1. /\ phase' = "open" /\ pos' = 0 /\ ret' = None
      /\ versions' = [p \in Page |-> {View(pool)[p], pool.kept.disk[p]}]
      /\ UNCHANGED <<pool, recent, unmarked, taken>>
  BY DEF FlushDone
<1>2. pool.disk = View(pool)
  BY SavedAll DEF FlushSavesAll, FlushDone
<1>3. View(pool) \in [Page -> Content] /\ pool.kept.disk \in [Page -> Content]
  BY PoolTypes DEF IInv, TypeOK, View
<1>4. TypeOK'
  BY <1>1, <1>3 DEF IInv, TypeOK, held
<1>5. VersionsOK'
  BY <1>1, <1>2, <1>3 DEF VersionsOK
<1>6. FlushOK'
  BY <1>1 DEF FlushOK
<1>7. KeptOK'
  BY <1>1 DEF IInv, KeptOK
<1>8. \E last \in Page : \A p \in Page \ {last} : pool.kept.disk[p] = View(pool)[p]
  BY <1>2 DEF IInv, KeptOK
<1> QED BY <1>1, <1>4, <1>5, <1>6, <1>7, <1>8
        DEF IInv, Recency, held, CleanIsOnDisk, CounterOK

(* What the file may be after a crash, and is after it was closed.         *)
LEMMA FilesLeft ==
  ASSUME IInv, NEW f \in {pool.kept, File(pool)}
  PROVE  /\ f.disk \in [Page -> Content] /\ f.num_pages \in Nat
         /\ \A p \in Page : /\ f.disk[p] \in versions[p]
                            /\ p >= f.num_pages => f.disk[p] = Zero
<1>1. PoolOK(pool)
  BY DEF IInv, TypeOK
<1>2. CASE f = pool.kept
  BY <1>1, <1>2, PoolTypes DEF IInv, KeptOK
<1>3. CASE f = File(pool)
  BY <1>1, <1>3, PoolTypes DEF IInv, VersionsOK, CounterOK
<1> QED BY <1>2, <1>3

(* Whatever the moment, the file alone brings back a consistent pool.      *)
LEMMA OpenAgainStep ==
  ASSUME IInv, NEW f \in {pool.kept, File(pool)}, OpenAgain(f)
  PROVE  IInv' /\ View(pool') = f.disk
<1> DEFINE g == Open(f.disk, f.num_pages)
<1>1. /\ f.disk \in [Page -> Content] /\ f.num_pages \in Nat /\ pool' = g
      /\ \A p \in Page : p >= f.num_pages => f.disk[p] = Zero
      /\ Page \subseteq Nat
  BY FilesLeft, LastPageAssumption DEF OpenAgain, Page
<1>2. /\ PoolOK(g) /\ Cached(g) = {} /\ Len(g.lru) = 0
      /\ g.disk = f.disk /\ g.num_pages = f.num_pages
      /\ g.next_page_id = f.num_pages
      /\ g.kept.disk = f.disk /\ g.kept.num_pages = f.num_pages
  BY <1>1, OpenContract
<1> HIDE DEF g
<1>3. View(g) = f.disk
  BY <1>1, <1>2 DEF View
<1>4. /\ recent' = NoPointers /\ unmarked' = {} /\ phase' = "open" /\ pos' = 0
      /\ ret' = None
      /\ versions' = [p \in Page |-> {f.disk[p]}]
      /\ taken' = {p \in Page : f.disk[p] # Zero}
  BY DEF OpenAgain
<1>5. TypeOK'
  <2>1. recent' \in [{} -> SUBSET Page]
    BY <1>4 DEF NoPointers
  <2>2. recent' \in UNION {[T -> SUBSET Page] : T \in SUBSET Page}
    BY <2>1, RecentMap
  <2> QED BY <1>1, <1>2, <1>4, <2>2 DEF TypeOK
<1>6. Recency'
  BY <1>4 DEF Recency, held, NoPointers
<1>7. CleanIsOnDisk'
  BY <1>1, <1>2 DEF CleanIsOnDisk
<1>8. VersionsOK'
  BY <1>1, <1>2, <1>3, <1>4 DEF VersionsOK
<1>9. CounterOK'
  <2>1. \A p \in Page : f.disk[p] # Zero => p < f.num_pages
    BY <1>1
  <2>2. f.num_pages <= f.num_pages
    BY <1>1
  <2> QED BY <1>1, <1>2, <1>4, <2>1, <2>2 DEF CounterOK
<1>10. FlushOK'
  BY <1>4 DEF FlushOK
<1>11. KeptOK'
  <2>1. 0 \in Page
    BY LastPageAssumption DEF Page
  <2> QED BY <1>1, <1>2, <1>4, <2>1 DEF KeptOK
<1> QED BY <1>1, <1>3, <1>5, <1>6, <1>7, <1>8, <1>9, <1>10, <1>11 DEF IInv

-----------------------------------------------------------------------------
(* An empty file and an empty cache satisfy the inductive invariant.       *)
LEMMA InitIInv == Init => IInv
<1>1. SUFFICES ASSUME Init PROVE IInv
  OBVIOUS
<1> DEFINE d == [p \in Page |-> Zero]
<1>2. d \in [Page -> Content] /\ 0 \in Nat /\ Page \subseteq Nat
  BY ZeroAssumption, LastPageAssumption DEF Page
<1>3. /\ PoolOK(pool) /\ Cached(pool) = {} /\ Len(pool.lru) = 0
      /\ pool.disk = d /\ pool.num_pages = 0 /\ pool.next_page_id = 0
      /\ pool.kept.disk = d /\ pool.kept.num_pages = 0
  BY <1>1, <1>2, OpenContract DEF Init
<1>4. /\ recent = NoPointers /\ unmarked = {} /\ phase = "open" /\ pos = 0
      /\ ret = None
      /\ versions = [p \in Page |-> {Zero}] /\ taken = {}
  BY <1>1 DEF Init
<1>5. TypeOK
  <2>1. recent \in [{} -> SUBSET Page]
    BY <1>4 DEF NoPointers
  <2>2. recent \in UNION {[T -> SUBSET Page] : T \in SUBSET Page}
    BY <2>1, RecentMap
  <2> QED BY <1>2, <1>3, <1>4, <2>2, ZeroAssumption DEF TypeOK
<1>6. KeptOK
  <2>1. 0 \in Page
    BY LastPageAssumption DEF Page
  <2> QED BY <1>3, <1>4, <2>1 DEF KeptOK
<1> QED BY <1>2, <1>3, <1>4, <1>5, <1>6
        DEF IInv, Recency, held, NoPointers, CleanIsOnDisk, VersionsOK, View,
            CounterOK, FlushOK

(* Every step of pool and caller keeps the inductive invariant.            *)
LEMMA NextIInv == IInv /\ [Next]_vars => IInv'
<1>1. SUFFICES ASSUME IInv, [Next]_vars PROVE IInv'
  OBVIOUS
<1>2. ASSUME NEW p \in Page, GetPage(p) PROVE IInv'
  BY <1>1, <1>2, GetPageStep
<1>3. ASSUME NEW p \in Page, MarkDirty(p) PROVE IInv'
  BY <1>1, <1>3, MarkDirtyStep
<1>4. ASSUME NEW p \in Page, Release(p) PROVE IInv'
  BY <1>1, <1>4, ReleaseStep
<1>5. ASSUME NEW p \in Page, NEW c \in Content, Modify(p, c) PROVE IInv'
  BY <1>1, <1>5, ModifyStep
<1>6. CASE NewPage
  BY <1>1, <1>6, NewPageStep
<1>7. ASSUME NEW from \in {"flush", "close"}, FlushAll(from) PROVE IInv'
  BY <1>1, <1>7, FlushAllStep
<1>8. CASE FlushStep
  BY <1>1, <1>8, FlushStepStep
<1>9. CASE FlushDone
  BY <1>1, <1>9, FlushDoneStep
<1>10. CASE Reopen \/ Crash
  <2>1. PICK f \in {pool.kept, File(pool)} : OpenAgain(f)
    BY <1>10 DEF Reopen, Crash
  <2> QED BY <1>1, <2>1, OpenAgainStep
<1>11. CASE UNCHANGED vars
  BY <1>1, <1>11 DEF vars, IInv, TypeOK, Recency, CleanIsOnDisk, VersionsOK,
                     CounterOK, FlushOK, KeptOK, held
<1> QED BY <1>1, <1>2, <1>3, <1>4, <1>5, <1>6, <1>7, <1>8, <1>9, <1>10, <1>11
        DEF Next

(* The inductive invariant holds in every reachable state: the pool and    *)
(* its caller agree whatever is cached, evicted, flushed or lost.          *)
THEOREM InductiveInvariant == Spec => []IInv
  BY InitIInv, NextIInv, PTL DEF Spec

(* The list, the map and the capacity stay consistent through every        *)
(* method of BufferPool.                                                   *)
THEOREM TypeCorrect == Spec => []TypeOK
<1>1. IInv => TypeOK
  BY DEF IInv
<1> QED BY <1>1, InductiveInvariant, PTL

(* A caller that works with at most max_pages pages at once never has its  *)
(* pointer's page evicted under it (buffer_pool.cpp 14-19), for every      *)
(* capacity: 256 in sql_engine.cpp, 512 in the benchmark, and any from 3.  *)
THEOREM PointersAreSafe == Spec => []NoDanglingPointer
<1>1. IInv => NoDanglingPointer
  BY DEF IInv, Recency, NoDanglingPointer
<1> QED BY <1>1, InductiveInvariant, PTL

(* When flush_all is done the file holds every write (buffer_pool.cpp      *)
(* 27-33), though flush_all looks only at cached pages that are dirty.     *)
THEOREM FlushIsComplete == Spec => []FlushSavesAll
  BY SavedAll, InductiveInvariant, PTL

(* get_unused_page_num hands out a page that is nowhere in use, also after *)
(* reopening and after a crash (buffer_pool.cpp 4-5).                      *)
THEOREM FreshPagesAreUnused == Spec => NeverHandsOutUsedPage
<1>1. IInv /\ [Next]_vars => [NewPage => pool.next_page_id \notin taken]_vars
  BY NewPageStep
<1> QED BY <1>1, InductiveInvariant, PTL DEF Spec, NeverHandsOutUsedPage

(* Each step of the pool and its caller is a step of the flat page array   *)
(* or changes nothing there: GetPage is its Get, Modify its Write, the end *)
(* of a flush its Checkpoint, reopening and crashing its Crash.            *)
LEMMA StoreStep == IInv /\ [Next]_vars => [Store!Next]_(Store!vars)
<1>1. SUFFICES ASSUME IInv, [Next]_vars PROVE [Store!Next]_(Store!vars)
  OBVIOUS
<1>2. ASSUME View(pool') = View(pool), versions' = versions, ret' = ret
      PROVE  UNCHANGED Store!vars
  BY <1>2 DEF Store!vars, View, Cached
<1>3. ASSUME NEW p \in Page, GetPage(p) PROVE Store!Next
  <2>1. /\ View(pool') = View(pool) /\ ret' = View(pool)[p]
        /\ versions' = versions
    BY <1>1, <1>3, GetPageStep DEF GetPage
  <2>2. Store!Get(p)
    BY <2>1 DEF Store!Get, View, Cached
  <2> QED BY <2>2 DEF Store!Next
<1>4. ASSUME NEW p \in Page, MarkDirty(p) PROVE UNCHANGED Store!vars
  BY <1>1, <1>2, <1>4, MarkDirtyStep DEF MarkDirty
<1>5. ASSUME NEW p \in Page, Release(p) PROVE UNCHANGED Store!vars
  BY <1>1, <1>2, <1>5, ReleaseStep DEF Release
<1>6. CASE NewPage
  BY <1>1, <1>2, <1>6, NewPageStep DEF NewPage
<1>7. ASSUME NEW from \in {"flush", "close"}, FlushAll(from)
      PROVE  UNCHANGED Store!vars
  BY <1>1, <1>2, <1>7, FlushAllStep DEF FlushAll
<1>8. CASE FlushStep
  BY <1>1, <1>2, <1>8, FlushStepStep DEF FlushStep
<1>9. ASSUME NEW p \in Page, NEW c \in Content, Modify(p, c) PROVE Store!Next
  <2>1. View(pool') = [View(pool) EXCEPT ![p] = c]
    BY <1>1, <1>9, ModifyStep
  <2>2. Store!Write(p, c)
    BY <1>9, <2>1 DEF Store!Write, Modify, View, Cached
  <2> QED BY <2>2 DEF Store!Next
<1>10. CASE FlushDone
  <2>1. /\ pool' = pool /\ ret' = None
        /\ versions' = [p \in Page |-> {View(pool)[p], pool.kept.disk[p]}]
    BY <1>1, <1>10, FlushDoneStep DEF FlushDone
  <2>2. PICK last \in Page : \A p \in Page \ {last} : pool.kept.disk[p] = View(pool)[p]
    BY <1>1, <1>10, FlushDoneStep
  <2> DEFINE old == pool.kept.disk[last]
  <2>3. old \in versions[last]
    BY <1>1 DEF IInv, KeptOK
  <2>4. versions' = [p \in Page |-> {View(pool)[p]} \cup (IF p = last THEN {old} ELSE {})]
    <3>1. \A p \in Page : {View(pool)[p], pool.kept.disk[p]}
                          = {View(pool)[p]} \cup (IF p = last THEN {old} ELSE {})
      BY <2>2
    <3> QED BY <2>1, <3>1
  <2> HIDE DEF old
  <2>5. Store!Checkpoint
    <3>1. View(pool') = View(pool)
      BY <2>1
    <3> QED BY <2>1, <2>3, <2>4, <3>1 DEF Store!Checkpoint, View, Cached
  <2> QED BY <2>5 DEF Store!Next
<1>11. CASE Reopen \/ Crash
  <2>1. PICK f \in {pool.kept, File(pool)} : OpenAgain(f)
    BY <1>11 DEF Reopen, Crash
  <2>2. /\ View(pool') = f.disk /\ ret' = None
        /\ versions' = [p \in Page |-> {f.disk[p]}]
    BY <1>1, <2>1, OpenAgainStep DEF OpenAgain
  <2>3. f.disk \in [Page -> Content] /\ \A p \in Page : f.disk[p] \in versions[p]
    BY <1>1, FilesLeft
  <2>4. Store!Crash
    BY <2>2, <2>3 DEF Store!Crash, View, Cached
  <2> QED BY <2>4 DEF Store!Next
<1>12. CASE UNCHANGED vars
  BY <1>12 DEF vars, Store!vars, View, Cached
<1> QED BY <1>1, <1>3, <1>4, <1>5, <1>6, <1>7, <1>8, <1>9, <1>10, <1>11, <1>12
        DEF Next

(* The pool implements the flat array of pages: every behaviour of pool,   *)
(* caller, crashes and restarts looks to a reader like one of PageStore.   *)
THEOREM PoolImplementsPageStore == Spec => ImplementsPageStore
<1>1. Init => Store!Init
  <2>1. ASSUME Init PROVE View(pool) = [p \in Page |-> Zero]
    BY <2>1 DEF Init, Open, View, Cached
  <2> QED BY <2>1 DEF Store!Init, Init
<1> QED BY <1>1, StoreStep, InductiveInvariant, PTL
        DEF Spec, ImplementsPageStore, Store!Spec
=============================================================================
