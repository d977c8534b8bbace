---------------------------- MODULE PagingProofs ----------------------------
(***************************************************************************)
(* Proofs about Paging, for any number of processes, pages and frames and  *)
(* any layout of the tables: reference counts cover the entries that name  *)
(* a frame, shared frames are write protected, and the page tables grant   *)
(* no more than the areas do.                                              *)
(***************************************************************************)
EXTENDS Paging, FiniteSetTheorems, TLAPS

PageEntries == [present : BOOLEAN, rw : BOOLEAN, frame : Frames \cup {Zero}]
Entries == [present : BOOLEAN, rw : BOOLEAN]
PageTables == [Procs -> [Pages -> PageEntries]]

-----------------------------------------------------------------------------
(* Numbers and sets                                                        *)

LEMMA LowestIsMember ==
  ASSUME NEW S, S \subseteq Nat, S # {}
  PROVE  Lowest(S) \in S
  <1>1. PICK x \in S : \A y \in S : ~(<<y, x>> \in OpToRel(<, Nat))
    BY WFMin, NatLessThanWellFounded, Zenon
  <1>2. \A y \in S : x <= y
    <2> TAKE y \in S
    <2>1. ~(<<y, x>> \in {ss \in Nat \X Nat : ss[1] < ss[2]})
      BY <1>1 DEF OpToRel
    <2> QED
      BY <2>1
  <1> QED
    BY <1>2 DEF Lowest

LEMMA PagesAreNumbers == Pages \subseteq Nat /\ IsFiniteSet(Procs \X Pages)
  BY LayoutAssumption, FS_Product DEF Pages

(* The entries that name a frame, as a set of their places                 *)
Places(entries, f) == {m \in Procs \X Pages : entries[m[1]][m[2]].frame = f}

LEMMA PlacesFinite ==
  ASSUME NEW e, NEW f
  PROVE  IsFiniteSet(Places(e, f)) /\ Cardinality(Places(e, f)) \in Nat
  <1>1. Places(e, f) \subseteq Procs \X Pages
    BY DEF Places
  <1>2. IsFiniteSet(Places(e, f))
    BY <1>1, PagesAreNumbers, FS_Subset
  <1> QED
    BY <1>2, FS_CardinalityType

LEMMA FewerPlaces ==
  ASSUME NEW e, NEW d, NEW f, Places(d, f) \subseteq Places(e, f)
  PROVE  Cardinality(Places(d, f)) <= Cardinality(Places(e, f))
  BY PlacesFinite, FS_Subset

LEMMA OnePlaceMore ==
  ASSUME NEW e, NEW d, NEW f, NEW m, Places(d, f) \subseteq Places(e, f) \cup {m}
  PROVE  Cardinality(Places(d, f)) <= Cardinality(Places(e, f)) + 1
  <1>1. IsFiniteSet(Places(e, f) \cup {m})
        /\ Cardinality(Places(e, f) \cup {m}) <= Cardinality(Places(e, f)) + 1
    BY PlacesFinite, FS_AddElement
  <1>2. Cardinality(Places(d, f)) <= Cardinality(Places(e, f) \cup {m})
    BY <1>1, FS_Subset
  <1>3. Cardinality(Places(e, f) \cup {m}) \in Nat
    BY <1>1, FS_CardinalityType
  <1> QED
    BY <1>1, <1>2, <1>3, PlacesFinite

LEMMA OnePlaceLess ==
  ASSUME NEW e, NEW d, NEW f, NEW m \in Places(e, f), Places(d, f) \subseteq Places(e, f) \ {m}
  PROVE  Cardinality(Places(d, f)) <= Cardinality(Places(e, f)) - 1
  <1>1. IsFiniteSet(Places(e, f) \ {m})
        /\ Cardinality(Places(e, f) \ {m}) = Cardinality(Places(e, f)) - 1
    BY PlacesFinite, FS_RemoveElement
  <1>2. Cardinality(Places(d, f)) <= Cardinality(Places(e, f) \ {m})
    BY <1>1, FS_Subset
  <1> QED
    BY <1>1, <1>2, PlacesFinite

LEMMA NoPlace ==
  ASSUME NEW e, NEW f, NEW m \in Places(e, f)
  PROVE  Cardinality(Places(e, f)) >= 1
  <1>1. Places(e, f) # {}
    OBVIOUS
  <1>2. Cardinality(Places(e, f)) # 0
    BY <1>1, PlacesFinite, FS_EmptySet
  <1> QED
    BY <1>2, PlacesFinite

LEMMA TwoPlaces ==
  ASSUME NEW e, NEW f, NEW m \in Places(e, f), NEW n \in Places(e, f), m # n
  PROVE  Cardinality(Places(e, f)) >= 2
  <1>1. Cardinality({m, n}) = 2 /\ IsFiniteSet({m, n})
    <2>1. IsFiniteSet({m}) /\ Cardinality({m}) = 1
      BY FS_Singleton
    <2>2. IsFiniteSet({m} \cup {n}) /\ Cardinality({m} \cup {n}) = 2
      BY <2>1, FS_AddElement
    <2>3. {m} \cup {n} = {m, n}
      OBVIOUS
    <2> QED
      BY <2>2, <2>3
  <1>2. {m, n} \in SUBSET Places(e, f)
    OBVIOUS
  <1>3. Cardinality({m, n}) <= Cardinality(Places(e, f))
    BY <1>2, PlacesFinite, FS_Subset
  <1> QED
    BY <1>1, <1>3, PlacesFinite

LEMMA AnotherPlace ==
  ASSUME NEW e, NEW f, NEW m \in Places(e, f), Cardinality(Places(e, f)) > 1
  PROVE  \E n \in Places(e, f) : n # m
  <1>1. SUFFICES ASSUME \A n \in Places(e, f) : n = m PROVE FALSE
    OBVIOUS
  <1>2. Places(e, f) = {m}
    BY <1>1
  <1> QED
    BY <1>2, FS_Singleton

-----------------------------------------------------------------------------
(* Reference counts                                                        *)

Covered(entries, counts) ==
  /\ counts \in [Frames -> Int]
  /\ \A f \in Frames : counts[f] >= Cardinality(Places(entries, f))

RefsInv == pte \in PageTables /\ Covered(pte, refs)

LEMMA RefsInvGives == RefsInv => RefsCoverMappings /\ refs \in [Frames -> Nat]
  <1> SUFFICES ASSUME RefsInv PROVE RefsCoverMappings /\ refs \in [Frames -> Nat]
    OBVIOUS
  <1>1. \A f \in Frames : refs[f] >= Cardinality(Places(pte, f)) /\ Cardinality(Places(pte, f)) \in Nat
    BY PlacesFinite DEF RefsInv, Covered
  <1>2. RefsCoverMappings
    BY <1>1 DEF RefsCoverMappings, Mappings, Places
  <1>3. refs \in [Frames -> Int] /\ \A f \in Frames : refs[f] \in Int /\ refs[f] >= 0
    BY <1>1 DEF RefsInv, Covered
  <1> QED
    BY <1>2, <1>3

LEMMA FreeFrameUnnamed ==
  ASSUME RefsInv, NEW f \in FreeFrames, NEW p \in Procs, NEW g \in Pages
  PROVE  pte[p][g].frame # f
  <1> SUFFICES ASSUME pte[p][g].frame = f PROVE FALSE
    OBVIOUS
  <1>1. f \in Frames /\ refs[f] = 0
    BY DEF FreeFrames
  <1>2. <<p, g>> \in Places(pte, f)
    BY DEF Places
  <1>3. Cardinality(Places(pte, f)) >= 1
    BY <1>2, NoPlace
  <1> QED
    BY <1>1, <1>3, PlacesFinite DEF RefsInv, Covered

LEMMA LastReference ==
  ASSUME RefsInv, NEW p \in Procs, NEW g \in Pages, pte[p][g].frame \in Frames, refs[pte[p][g].frame] <= 1,
         NEW q \in Procs, NEW h \in Pages, <<q, h>> # <<p, g>>
  PROVE  pte[q][h].frame # pte[p][g].frame
  <1> SUFFICES ASSUME pte[q][h].frame = pte[p][g].frame PROVE FALSE
    OBVIOUS
  <1> DEFINE f == pte[p][g].frame
  <1>1. <<p, g>> \in Places(pte, f) /\ <<q, h>> \in Places(pte, f)
    BY DEF Places
  <1> HIDE DEF f
  <1>2. Cardinality(Places(pte, f)) >= 2
    BY <1>1, TwoPlaces
  <1>3. f \in Frames /\ refs[f] <= 1
    BY DEF f
  <1> QED
    BY <1>2, <1>3, PlacesFinite DEF RefsInv, Covered

(* Entries that name their frame no longer, and no counts changed          *)
LEMMA SameRefs ==
  ASSUME RefsInv, pte' \in PageTables, refs' = refs,
         \A q \in Procs, h \in Pages : pte'[q][h].frame \in {pte[q][h].frame, Zero}
  PROVE  RefsInv'
  <1>1. \A f \in Frames : Places(pte', f) \subseteq Places(pte, f)
    BY LayoutAssumption DEF Places
  <1>2. \A f \in Frames : Cardinality(Places(pte', f)) <= Cardinality(Places(pte, f))
    BY <1>1, FewerPlaces
  <1>3. Covered(pte', refs')
    <2>1. refs' \in [Frames -> Int]
      BY DEF RefsInv, Covered
    <2>2. ASSUME NEW f \in Frames PROVE refs'[f] >= Cardinality(Places(pte', f))
      <3>1. Cardinality(Places(pte', f)) \in Nat /\ Cardinality(Places(pte, f)) \in Nat
        BY PlacesFinite
      <3> QED
        BY <1>2, <3>1 DEF RefsInv, Covered
    <2> QED
      BY <2>1, <2>2 DEF Covered
  <1> QED
    BY <1>3 DEF RefsInv

(* One entry comes to name another frame, and the counts follow: what      *)
(* get_pfn and put_pfn do around a change of an entry.                     *)
LEMMA EntrySwapped ==
  ASSUME RefsInv, pte' \in PageTables,
         NEW p \in Procs, NEW g \in Pages, NEW new \in Frames \cup {Zero}, NEW old,
         pte'[p][g].frame = new,
         old = Zero \/ old = pte[p][g].frame,
         refs' = Swapped(new, old),
         \A q \in Procs, h \in Pages : <<q, h>> # <<p, g>> => pte'[q][h].frame \in {pte[q][h].frame, Zero}
  PROVE  RefsInv'
  <1>1. refs' = [f \in Frames |-> refs[f] + (IF f = new THEN 1 ELSE 0) - (IF f = old THEN 1 ELSE 0)]
    BY DEF Swapped
  <1>2. refs \in [Frames -> Int] /\ \A f \in Frames : refs[f] \in Int
    BY DEF RefsInv, Covered
  <1>3. refs' \in [Frames -> Int]
    BY <1>1, <1>2
  <1>4. ASSUME NEW f \in Frames PROVE refs'[f] >= Cardinality(Places(pte', f))
    <2> DEFINE before == Cardinality(Places(pte, f))
               after == Cardinality(Places(pte', f))
    <2>1. before \in Nat /\ after \in Nat /\ refs[f] >= before
      BY PlacesFinite DEF RefsInv, Covered
    <2>2. refs'[f] = refs[f] + (IF f = new THEN 1 ELSE 0) - (IF f = old THEN 1 ELSE 0)
      BY <1>1
    <2>3. f # Zero
      BY LayoutAssumption
    <2>4. Places(pte', f) \subseteq Places(pte, f) \cup {<<p, g>>}
      BY <2>3 DEF Places
    <2>5. CASE f = new
      <3>1. CASE f = old
        <4>1. <<p, g>> \in Places(pte, f)
          BY <2>3, <3>1 DEF Places
        <4>2. after <= before
          BY <2>4, <4>1, FewerPlaces
        <4> HIDE DEF before, after
        <4> QED
          BY <1>2, <2>1, <2>2, <2>5, <3>1, <4>2 DEF after
      <3>2. CASE f # old
        <4>1. after <= before + 1
          BY <2>4, OnePlaceMore
        <4> HIDE DEF before, after
        <4> QED
          BY <1>2, <2>1, <2>2, <2>5, <3>2, <4>1 DEF after
      <3> QED
        BY <3>1, <3>2
    <2>6. CASE f # new
      <3>1. Places(pte', f) \subseteq Places(pte, f) \ {<<p, g>>}
        BY <2>4, <2>6 DEF Places
      <3>2. CASE f = old
        <4>1. <<p, g>> \in Places(pte, f)
          BY <2>3, <3>2 DEF Places
        <4>2. after <= before - 1
          BY <3>1, <4>1, OnePlaceLess
        <4> HIDE DEF before, after
        <4> QED
          BY <1>2, <2>1, <2>2, <2>6, <3>2, <4>2 DEF after
      <3>3. CASE f # old
        <4>1. after <= before
          BY <3>1, FewerPlaces
        <4> HIDE DEF before, after
        <4> QED
          BY <1>2, <2>1, <2>2, <2>6, <3>3, <4>1 DEF after
      <3> QED
        BY <3>2, <3>3
    <2> QED
      BY <2>5, <2>6
  <1> QED
    BY <1>3, <1>4 DEF RefsInv, Covered

(* The process p is gone: as many references go as entries given up.       *)
LEMMA GoneKeepsRefs ==
  ASSUME RefsInv, NEW p \in Procs, NEW e,
         \A g \in Pages : e[g].frame \in {pte[p][g].frame, Zero},
         Gone(p, e)
  PROVE  RefsInv'
  <1>1. pte' = [pte EXCEPT ![p] = [g \in Pages |-> NoPage]]
    BY DEF Gone
  <1>2. NoPage \in PageEntries /\ NoPage.frame = Zero
    BY DEF NoPage, PageEntries
  <1>3. pte' \in PageTables
    BY <1>1, <1>2 DEF RefsInv, PageTables
  <1>4. \A q \in Procs, h \in Pages : pte'[q][h] = IF q = p THEN NoPage ELSE pte[q][h]
    BY <1>1 DEF RefsInv, PageTables
  <1>5. refs' = [f \in Frames |-> refs[f] - Cardinality({g \in Pages : e[g].frame = f})]
    BY DEF Gone
  <1>6. ASSUME NEW f \in Frames
        PROVE  refs'[f] \in Int /\ refs'[f] >= Cardinality(Places(pte', f))
    <2> DEFINE A == {g \in Pages : e[g].frame = f}
               B == {p} \X A
               M == Places(pte, f)
    <2>1. IsFiniteSet(A) /\ Cardinality(A) \in Nat
      BY LayoutAssumption, FS_Subset, FS_CardinalityType
    <2>2. IsFiniteSet(B) /\ Cardinality(B) = Cardinality(A)
      <3>1. IsFiniteSet({p}) /\ Cardinality({p}) = 1
        BY FS_Singleton
      <3>2. IsFiniteSet(B) /\ Cardinality(B) = Cardinality({p}) * Cardinality(A)
        BY <2>1, <3>1, FS_Product
      <3> QED
        BY <2>1, <3>1, <3>2
    <2>3. f # Zero
      BY LayoutAssumption
    <2>4. B \subseteq M
      BY <2>3 DEF Places
    <2>5. Places(pte', f) \subseteq M \ B
      <3>1. \A m \in Places(pte', f) : m[1] # p /\ m \in M
        BY <1>2, <1>4, <2>3 DEF Places
      <3> QED
        BY <3>1
    <2>6. IsFiniteSet(M) /\ Cardinality(M) \in Nat /\ refs[f] >= Cardinality(M) /\ refs[f] \in Int
      BY PlacesFinite DEF RefsInv, Covered
    <2> HIDE DEF A, B, M
    <2>7. IsFiniteSet(M \ B) /\ Cardinality(M \ B) = Cardinality(M) - Cardinality(B)
      <3>1. M \cap B = B
        BY <2>4
      <3> QED
        BY <2>6, <3>1, FS_Difference
    <2>8. Cardinality(Places(pte', f)) <= Cardinality(M \ B)
      BY <2>5, <2>7, FS_Subset
    <2>9. refs'[f] = refs[f] - Cardinality(A)
      BY <1>5 DEF A
    <2>10. Cardinality(Places(pte', f)) \in Nat
      BY PlacesFinite
    <2> QED
      BY <2>1, <2>2, <2>6, <2>7, <2>8, <2>9, <2>10
  <1>7. refs' \in [Frames -> Int]
    BY <1>5, <1>6
  <1> QED
    BY <1>3, <1>6, <1>7 DEF RefsInv, Covered

-----------------------------------------------------------------------------
(* The other parts of the invariant                                        *)

CallInv ==
  \/ call = NoCall
  \/ /\ call \in [op : Ops, proc : alive, pages : SUBSET Pages, todo : SUBSET Pages,
                  arg : {0, 1, 3} \cup Procs]
     /\ call.todo \subseteq call.pages
     /\ call.op = "munmap" => call.arg = 0
     /\ call.op = "mprotect" => call.arg \in {1, 3}
     /\ call.op = "cfork" => call.arg \in Procs \ alive

TypeInv ==
  /\ alive \subseteq Procs
  /\ perm \in [Procs -> [Pages -> {0, 1, 3}]]
  /\ tab \in [Procs -> [Tables -> Entries]]
  /\ dir \in [Procs -> [Dirs -> Entries]]
  /\ content \in [Frames \cup {Zero} -> Values]
  /\ want \in [Procs -> {NoAccess} \cup Loads \cup Stores]
  /\ CallInv

(* Of two entries that name one frame neither can be written through.      *)
Sharing ==
  \A p, q \in Procs, g, h \in Pages :
    <<p, g>> # <<q, h>> /\ pte[p][g].frame \in Frames /\ pte[q][h].frame = pte[p][g].frame =>
      ~pte[p][g].rw

(* What a page may be used for: a call in progress has given the pages it  *)
(* is done with what their areas will have when it ends.                   *)
Changed(p, g) ==
  call # NoCall /\ call.op \in {"munmap", "mprotect"} /\ call.proc = p /\ g \in call.pages \ call.todo
Granted(p, g) == IF Changed(p, g) THEN call.arg ELSE perm[p][g]

(* A page that is reached has an area, and one that is writable, whatever  *)
(* the levels above it say, has an area that is.                           *)
PermInv ==
  \A p \in alive, g \in Pages :
    Reached(p, g) => Granted(p, g) # 0 /\ (pte[p][g].rw => Granted(p, g) = 3)

(* A process that does not exist has no pages, but for the child being     *)
(* made, which has pages of its parent's areas and can write to none.      *)
ChildInv ==
  \A p \in alive, c \in Procs \ alive, g \in Pages :
    pte[c][g].present =>
      /\ call # NoCall /\ call.op = "cfork" /\ call.arg = c
      /\ perm[call.proc][g] # 0
      /\ ~pte[c][g].rw

TablesInv == Sharing /\ PermInv /\ ChildInv
Inv == TypeInv /\ RefsInv /\ TablesInv

-----------------------------------------------------------------------------
(* A call that goes over pages is at one of them.                          *)
LEMMA AtFacts ==
  ASSUME CallInv, NEW op, Doing(op)
  PROVE  /\ call # NoCall /\ call.op = op
         /\ call \in [op : Ops, proc : alive, pages : SUBSET Pages, todo : SUBSET Pages,
                      arg : {0, 1, 3} \cup Procs]
         /\ call.proc \in alive /\ At \in call.todo /\ At \in Pages
  <1>1. /\ call # NoCall /\ call.op = op /\ call.todo # {}
        /\ call \in [op : Ops, proc : alive, pages : SUBSET Pages, todo : SUBSET Pages,
                     arg : {0, 1, 3} \cup Procs]
    BY DEF Doing, CallInv
  <1>2. call.todo \subseteq Pages /\ call.todo \subseteq Nat
    BY <1>1, PagesAreNumbers
  <1>3. At \in call.todo
    BY <1>1, <1>2, LowestIsMember DEF At
  <1> QED
    BY <1>1, <1>2, <1>3

LEMMA OnePageFacts ==
  ASSUME CallInv, NEW op, Doing(op), OnePage, alive' = alive
  PROVE  /\ CallInv'
         /\ call' # NoCall /\ call'.op = op /\ call'.proc = call.proc /\ call'.arg = call.arg
         /\ call'.pages = call.pages /\ call'.todo = call.todo \ {At}
  <1>1. /\ call # NoCall /\ call.op = op
        /\ call \in [op : Ops, proc : alive, pages : SUBSET Pages, todo : SUBSET Pages,
                     arg : {0, 1, 3} \cup Procs]
    BY AtFacts
  <1>2. call' = [call EXCEPT !.todo = call.todo \ {At}]
    BY DEF OnePage
  <1>3. /\ call' \in [op : Ops, proc : alive, pages : SUBSET Pages, todo : SUBSET Pages,
                     arg : {0, 1, 3} \cup Procs]
        /\ call'.op = op /\ call'.proc = call.proc /\ call'.arg = call.arg
        /\ call'.pages = call.pages /\ call'.todo = call.todo \ {At}
    BY <1>1, <1>2
  <1>4. call' # NoCall
    BY <1>3 DEF NoCall, Ops
  <1>5. CallInv'
    BY <1>1, <1>3 DEF CallInv
  <1> QED
    BY <1>3, <1>4, <1>5

(* Entries that lose their frame or their write bit share no more.         *)
LEMMA SharingKept ==
  ASSUME Sharing,
         \A q \in Procs, h \in Pages :
           \/ pte'[q][h].frame = Zero
           \/ pte'[q][h].frame = pte[q][h].frame /\ (pte'[q][h].rw => pte[q][h].rw)
  PROVE  Sharing'
  BY LayoutAssumption DEF Sharing

(* Neither does an entry that comes to name a frame no other entry names.  *)
LEMMA SharingAlone ==
  ASSUME Sharing, NEW p \in Procs, NEW g \in Pages,
         \A q \in Procs, h \in Pages : <<q, h>> # <<p, g>> =>
           \/ pte'[q][h].frame = Zero
           \/ /\ pte'[q][h].frame = pte[q][h].frame /\ (pte'[q][h].rw => pte[q][h].rw)
              /\ pte[q][h].frame # pte'[p][g].frame \/ pte'[p][g].frame = Zero
  PROVE  Sharing'
  BY LayoutAssumption DEF Sharing

LEMMA InvGives == Inv => TypeOK /\ RefsCoverMappings /\ SharedReadOnly /\ PermissionsKept
  <1> SUFFICES ASSUME Inv PROVE TypeOK /\ RefsCoverMappings /\ SharedReadOnly /\ PermissionsKept
    OBVIOUS
  <1>1. RefsCoverMappings /\ refs \in [Frames -> Nat]
    BY RefsInvGives DEF Inv
  <1>2. TypeOK
    BY <1>1 DEF Inv, TypeInv, CallInv, RefsInv, PageTables, PageEntries, Entries, TypeOK
  <1>3. SharedReadOnly
    <2> SUFFICES ASSUME NEW f \in Frames, Cardinality(Mappings(f)) > 1, NEW m \in Mappings(f)
                 PROVE  ~pte[m[1]][m[2]].rw
      BY DEF SharedReadOnly
    <2>1. Mappings(f) = Places(pte, f)
      BY DEF Mappings, Places
    <2>2. PICK n \in Places(pte, f) : n # m
      BY <2>1, AnotherPlace
    <2>3. /\ m[1] \in Procs /\ m[2] \in Pages /\ m = <<m[1], m[2]>> /\ pte[m[1]][m[2]].frame = f
          /\ n[1] \in Procs /\ n[2] \in Pages /\ n = <<n[1], n[2]>> /\ pte[n[1]][n[2]].frame = f
      BY <2>1 DEF Places
    <2> QED
      BY <2>2, <2>3 DEF Inv, TablesInv, Sharing
  <1>4. PermissionsKept
    BY DEF Inv, TablesInv, PermInv, Granted, Changed, Writable, PermissionsKept
  <1> QED
    BY <1>1, <1>2, <1>3, <1>4

-----------------------------------------------------------------------------
(* The first process has the pages of its segments, each in its own frame. *)
LEMMA InitInv == Init => Inv
  <1> SUFFICES ASSUME Init PROVE Inv
    OBVIOUS
  <1> DEFINE held(home) == [g \in Pages |-> IF g \in SegPages THEN PageEntry(home[g], TRUE) ELSE NoPage]
  <1>1. PICK p \in Procs, home \in [SegPages -> Frames] :
          /\ \A g, h \in SegPages : g # h => home[g] # home[h]
          /\ alive = {p}
          /\ perm = [r \in Procs |-> NoAreas]
          /\ pte = [r \in Procs |-> IF r = p THEN held(home) ELSE [g \in Pages |-> NoPage]]
          /\ tab = [r \in Procs |-> [t \in Tables |->
                     IF r = p /\ \E g \in SegPages : Table[g] = t THEN Entry(TRUE) ELSE NoEntry]]
          /\ dir = [r \in Procs |-> [d \in Dirs |->
                     IF r = p /\ \E g \in SegPages : DirOf(g) = d THEN Entry(TRUE) ELSE NoEntry]]
          /\ refs = [f \in Frames |-> IF \E g \in SegPages : home[g] = f THEN 1 ELSE 0]
          /\ content \in [Frames \cup {Zero} -> Values]
          /\ want = [r \in Procs |-> NoAccess]
          /\ call = NoCall
    BY DEF Init
  <1>2. /\ Entry(TRUE) \in Entries /\ NoEntry \in Entries
        /\ NoPage \in PageEntries /\ NoPage.frame = Zero /\ ~NoPage.present
        /\ \A f \in Frames : PageEntry(f, TRUE) \in PageEntries /\ PageEntry(f, TRUE).frame = f
    BY DEF Entry, NoEntry, Entries, NoPage, PageEntry, PageEntries
  <1>3. /\ pte \in PageTables
        /\ \A q \in Procs, g \in Pages :
             pte[q][g] = IF q = p /\ g \in SegPages THEN PageEntry(home[g], TRUE) ELSE NoPage
    BY <1>1, <1>2 DEF PageTables
  <1>4. TypeInv
    BY <1>1, <1>2 DEF TypeInv, CallInv, NoAreas
  <1> SegPages \subseteq Pages /\ \A g \in SegPages : home[g] \in Frames
    BY DEF Pages
  <1> HIDE DEF held
  <1>5. \A q \in Procs, g \in Pages : pte[q][g].frame = IF q = p /\ g \in SegPages THEN home[g] ELSE Zero
    BY <1>2, <1>3
  <1>6. RefsInv
    <2>1. refs \in [Frames -> Int]
      BY <1>1
    <2>2. ASSUME NEW f \in Frames PROVE refs[f] >= Cardinality(Places(pte, f))
      <3>1. f # Zero
        BY LayoutAssumption
      <3>2. CASE \E g \in SegPages : home[g] = f
        <4>1. PICK g \in SegPages : home[g] = f
          BY <3>2
        <4>2. Places(pte, f) \subseteq {<<p, g>>}
          <5> SUFFICES ASSUME NEW m \in Procs \X Pages, pte[m[1]][m[2]].frame = f
                       PROVE  m = <<p, g>>
            BY DEF Places
          <5>1. m[1] = p /\ m[2] \in SegPages /\ home[m[2]] = f
            BY <1>5, <3>1
          <5>2. m[2] = g
            BY <1>1, <4>1, <5>1
          <5> QED
            BY <5>1, <5>2
        <4>3. Cardinality(Places(pte, f)) <= 1
          <5>1. IsFiniteSet({<<p, g>>}) /\ Cardinality({<<p, g>>}) = 1
            BY FS_Singleton
          <5> QED
            BY <4>2, <5>1, FS_Subset
        <4>4. refs[f] = 1
          BY <1>1, <3>2
        <4> QED
          BY <4>3, <4>4, PlacesFinite
      <3>3. CASE ~\E g \in SegPages : home[g] = f
        <4>1. Places(pte, f) = {}
          BY <1>5, <3>1, <3>3 DEF Places
        <4>2. refs[f] = 0
          BY <1>1, <3>3
        <4> QED
          BY <4>1, <4>2, FS_EmptySet
      <3> QED
        BY <3>2, <3>3
    <2> QED
      BY <1>3, <2>1, <2>2 DEF RefsInv, Covered
  <1>7. Sharing
    <2> SUFFICES ASSUME NEW q \in Procs, NEW r \in Procs, NEW g \in Pages, NEW h \in Pages,
                        <<q, g>> # <<r, h>>, pte[q][g].frame \in Frames, pte[r][h].frame = pte[q][g].frame
                 PROVE  FALSE
      BY DEF Sharing
    <2>1. Zero \notin Frames
      BY LayoutAssumption
    <2>2. q = p /\ g \in SegPages /\ r = p /\ h \in SegPages /\ home[g] = home[h]
      BY <1>5, <2>1
    <2> QED
      BY <1>1, <2>2
  <1>8. PermInv
    <2>1. \A g \in Pages : pte[p][g].present => g \in SegPages
      BY <1>2, <1>3
    <2>2. \A g \in SegPages : Granted(p, g) = 3
      BY <1>1 DEF Granted, Changed, NoAreas
    <2> QED
      BY <1>1, <2>1, <2>2 DEF PermInv, Reached
  <1>9. ChildInv
    BY <1>1, <1>2, <1>3 DEF ChildInv
  <1> QED
    BY <1>4, <1>6, <1>7, <1>8, <1>9 DEF Inv, TablesInv

(* Nothing but content or the accesses under way changes.                  *)
LEMMA SameTables ==
  ASSUME Inv, UNCHANGED <<alive, perm, tables, refs, call>>
  PROVE  RefsInv' /\ TablesInv' /\ CallInv'
  <1> alive' = alive /\ perm' = perm /\ pte' = pte /\ tab' = tab /\ dir' = dir /\ refs' = refs /\ call' = call
    BY DEF tables
  <1>1. RefsInv'
    BY DEF Inv, RefsInv
  <1>2. TablesInv'
    BY DEF Inv, TablesInv, Sharing, PermInv, ChildInv, Granted, Changed, Reached
  <1>3. CallInv'
    BY DEF Inv, TypeInv, CallInv
  <1> QED
    BY <1>1, <1>2, <1>3

LEMMA AccessKeepsInv ==
  ASSUME Inv, NEW p \in Procs, NEW access \in Loads \cup Stores, Access(p, access)
  PROVE  Inv'
  <1>1. /\ UNCHANGED <<alive, perm, tables, refs, content, call>>
        /\ want' = [want EXCEPT ![p] = access]
    BY DEF Access
  <1>2. RefsInv' /\ TablesInv' /\ CallInv'
    BY <1>1, SameTables
  <1>3. want' \in [Procs -> {NoAccess} \cup Loads \cup Stores]
    BY <1>1 DEF Inv, TypeInv
  <1> QED
    BY <1>1, <1>2, <1>3 DEF Inv, TypeInv, tables

LEMMA HitKeepsInv ==
  ASSUME Inv, NEW p \in Procs, Hit(p)
  PROVE  Inv'
  <1>1. UNCHANGED <<alive, perm, tables, refs, call>> /\ want' = [want EXCEPT ![p] = NoAccess]
    BY DEF Hit
  <1>2. RefsInv' /\ TablesInv' /\ CallInv'
    BY <1>1, SameTables
  <1>3. want' \in [Procs -> {NoAccess} \cup Loads \cup Stores]
    BY <1>1 DEF Inv, TypeInv
  <1>4. content' \in [Frames \cup {Zero} -> Values]
    <2>1. CASE Writes(p)
      <3>1. want[p] \in Stores
        BY <2>1 DEF Hit, Pending, Writes, Inv, TypeInv, NoAccess, Loads, Stores
      <3>2. want[p].value \in Values
        BY <3>1 DEF Stores
      <3>3. content' = [content EXCEPT ![pte[p][want[p].page].frame] = want[p].value]
        BY <2>1 DEF Hit
      <3> QED
        BY <3>2, <3>3 DEF Inv, TypeInv
    <2>2. CASE ~Writes(p)
      BY <2>2 DEF Hit, Inv, TypeInv
    <2> QED
      BY <2>1, <2>2
  <1> QED
    BY <1>1, <1>2, <1>3, <1>4 DEF Inv, TypeInv, tables

(* mmap covers pages that no entry reaches, as they had no area.           *)
LEMMA MmapKeepsInv ==
  ASSUME Inv, NEW p \in Procs, NEW S, NEW q \in {1, 3}, Mmap(p, S, q)
  PROVE  Inv'
  <1>1. /\ call = NoCall /\ \A g \in S : perm[p][g] = 0
        /\ alive' = alive /\ pte' = pte /\ tab' = tab /\ dir' = dir /\ refs' = refs
        /\ content' = content /\ want' = want /\ call' = call
    BY DEF Mmap, Running, tables
  <1>2. /\ perm' \in [Procs -> [Pages -> {0, 1, 3}]]
        /\ \A r \in Procs, g \in Pages : perm'[r][g] = IF r = p /\ g \in S THEN q ELSE perm[r][g]
    BY DEF Mmap, Inv, TypeInv
  <1>3. TypeInv'
    BY <1>1, <1>2 DEF Inv, TypeInv, CallInv
  <1>4. RefsInv'
    BY <1>1 DEF Inv, RefsInv
  <1>5. Sharing'
    BY <1>1 DEF Inv, TablesInv, Sharing
  <1>6. PermInv'
    <2>1. \A r \in alive, g \in Pages : Reached(r, g) => perm'[r][g] = perm[r][g]
      BY <1>1, <1>2 DEF Inv, TypeInv, TablesInv, PermInv, Granted, Changed
    <2> QED
      BY <1>1, <2>1 DEF Inv, TypeInv, TablesInv, PermInv, Granted, Changed, Reached
  <1>7. ChildInv'
    BY <1>1 DEF Inv, TablesInv, ChildInv
  <1> QED
    BY <1>3, <1>4, <1>5, <1>6, <1>7 DEF Inv, TablesInv

(* A call begins: no page is done yet.                                     *)
LEMMA BeginKeepsInv ==
  ASSUME Inv, NEW p \in Procs, NEW op \in Ops, NEW todo \in SUBSET Pages, NEW arg, Begin(p, op, todo, arg),
         UNCHANGED <<alive, perm, tables, refs, content, want>>,
         arg \in {0, 1, 3} \cup Procs,
         op = "munmap" => arg = 0, op = "mprotect" => arg \in {1, 3}, op = "cfork" => arg \in Procs \ alive
  PROVE  Inv'
  <1>1. /\ call = NoCall /\ p \in alive
        /\ call' = [op |-> op, proc |-> p, pages |-> todo, todo |-> todo, arg |-> arg]
        /\ alive' = alive /\ perm' = perm /\ pte' = pte /\ tab' = tab /\ dir' = dir /\ refs' = refs
        /\ content' = content /\ want' = want
    BY DEF Begin, Running, tables
  <1>2. TypeInv'
    <2>1. CallInv'
      BY <1>1 DEF CallInv
    <2> QED
      BY <1>1, <2>1 DEF Inv, TypeInv
  <1>3. RefsInv'
    BY <1>1 DEF Inv, RefsInv
  <1>4. Sharing'
    BY <1>1 DEF Inv, TablesInv, Sharing
  <1>5. PermInv'
    <2>1. \A r \in Procs, g \in Pages : ~Changed(r, g) /\ ~Changed(r, g)'
      BY <1>1 DEF Changed
    <2> QED
      BY <1>1, <2>1 DEF Inv, TypeInv, TablesInv, PermInv, Granted, Reached
  <1>6. ChildInv'
    BY <1>1 DEF Inv, TablesInv, ChildInv
  <1> QED
    BY <1>2, <1>3, <1>4, <1>5, <1>6 DEF Inv, TablesInv

LEMMA GoneKeepsInv ==
  ASSUME Inv, NEW p \in Procs, call = NoCall, NEW e,
         \A g \in Pages : e[g].frame \in {pte[p][g].frame, Zero},
         Gone(p, e)
  PROVE  Inv'
  <1>1. /\ alive' = alive \ {p} /\ perm' = [perm EXCEPT ![p] = NoAreas]
        /\ pte' = [pte EXCEPT ![p] = [g \in Pages |-> NoPage]]
        /\ tab' = [tab EXCEPT ![p] = [t \in Tables |-> NoEntry]]
        /\ dir' = [dir EXCEPT ![p] = [d \in Dirs |-> NoEntry]]
        /\ want' = [want EXCEPT ![p] = NoAccess]
        /\ content' = content /\ call' = call
    BY DEF Gone
  <1>2. /\ NoAreas \in [Pages -> {0, 1, 3}] /\ NoEntry \in Entries
        /\ NoPage.frame = Zero /\ ~NoPage.present
    BY DEF NoAreas, NoEntry, Entries, NoPage
  <1>3. /\ perm' \in [Procs -> [Pages -> {0, 1, 3}]]
        /\ tab' \in [Procs -> [Tables -> Entries]]
        /\ dir' \in [Procs -> [Dirs -> Entries]]
        /\ want' \in [Procs -> {NoAccess} \cup Loads \cup Stores]
    BY <1>1, <1>2 DEF Inv, TypeInv
  <1>4. TypeInv'
    BY <1>1, <1>3 DEF Inv, TypeInv, CallInv
  <1>5. RefsInv'
    BY GoneKeepsRefs DEF Inv
  <1>6. \A q \in Procs, h \in Pages : pte'[q][h] = IF q = p THEN NoPage ELSE pte[q][h]
    BY <1>1 DEF Inv, RefsInv, PageTables
  <1>7. Sharing'
    BY <1>2, <1>6, SharingKept DEF Inv, TablesInv
  <1>8. PermInv'
    <2>1. \A q \in Procs : q # p => perm'[q] = perm[q] /\ pte'[q] = pte[q] /\ tab'[q] = tab[q] /\ dir'[q] = dir[q]
      BY <1>1 DEF Inv, TypeInv, RefsInv, PageTables
    <2>2. \A q \in Procs, g \in Pages : ~Changed(q, g) /\ ~Changed(q, g)'
      BY <1>1 DEF Changed
    <2> QED
      BY <1>1, <2>1, <2>2 DEF Inv, TypeInv, TablesInv, PermInv, Granted, Reached
  <1>9. ChildInv'
    BY <1>1, <1>2, <1>6 DEF Inv, TypeInv, TablesInv, ChildInv
  <1> QED
    BY <1>4, <1>5, <1>7, <1>8, <1>9 DEF Inv, TablesInv

LEMMA EndingKeepsInv ==
  ASSUME Inv, NEW p \in Procs, Exit(p) \/ PageFaultRefused(p) \/ PageFaultNoFrame(p)
  PROVE  Inv'
  <1>1. CASE Exit(p) \/ PageFaultRefused(p)
    <2>1. call = NoCall /\ Gone(p, pte[p])
      BY <1>1 DEF Exit, PageFaultRefused, Running, Faults, Pending
    <2> QED
      BY <2>1, GoneKeepsInv
  <1>2. CASE PageFaultNoFrame(p)
    <2> DEFINE g == want[p].page
    <2>1. call = NoCall /\ Gone(p, EntriesFor(p, g))
      BY <1>2 DEF PageFaultNoFrame, Faults, Pending
    <2>2. \A h \in Pages : EntriesFor(p, g)[h].frame \in {pte[p][h].frame, Zero}
      BY DEF EntriesFor, NoPage
    <2> HIDE DEF g
    <2> QED
      BY <2>1, <2>2, GoneKeepsInv
  <1> QED
    BY <1>1, <1>2

(* The machine halts.                                                      *)
LEMMA HaltKeepsInv ==
  ASSUME Inv, Halt
  PROVE  Inv'
  <1>1. /\ alive' = {} /\ want' = [p \in Procs |-> NoAccess] /\ call' = NoCall
        /\ perm' = perm /\ pte' = pte /\ tab' = tab /\ dir' = dir /\ refs' = refs /\ content' = content
    BY DEF Halt, tables
  <1>2. TypeInv'
    BY <1>1 DEF Inv, TypeInv, CallInv
  <1>3. RefsInv' /\ Sharing'
    BY <1>1 DEF Inv, RefsInv, TablesInv, Sharing
  <1>4. PermInv' /\ ChildInv'
    BY <1>1 DEF PermInv, ChildInv
  <1> QED
    BY <1>2, <1>3, <1>4 DEF Inv, TablesInv

-----------------------------------------------------------------------------
(* The ends of the calls                                                   *)

LEMMA FinishAreasKeepsInv ==
  ASSUME Inv, FinishAreas
  PROVE  Inv'
  <1> DEFINE p == call.proc
  <1>1. /\ call # NoCall /\ call.op \in {"munmap", "mprotect"} /\ call.todo = {} /\ call' = NoCall
        /\ perm' = [perm EXCEPT ![p] = [g \in Pages |-> IF g \in call.pages THEN call.arg ELSE @[g]]]
        /\ alive' = alive /\ pte' = pte /\ tab' = tab /\ dir' = dir /\ refs' = refs
        /\ content' = content /\ want' = want
    BY DEF FinishAreas, Done, tables
  <1>2. p \in alive /\ p \in Procs /\ call.arg \in {0, 1, 3} /\ call.pages \subseteq Pages
    BY <1>1 DEF Inv, TypeInv, CallInv
  <1>3. /\ perm' \in [Procs -> [Pages -> {0, 1, 3}]]
        /\ \A q \in Procs, g \in Pages :
             perm'[q][g] = IF q = p /\ g \in call.pages THEN call.arg ELSE perm[q][g]
    BY <1>1, <1>2 DEF Inv, TypeInv
  <1>4. TypeInv'
    BY <1>1, <1>3 DEF Inv, TypeInv, CallInv
  <1>5. RefsInv' /\ Sharing'
    BY <1>1 DEF Inv, RefsInv, TablesInv, Sharing
  <1>6. PermInv'
    <2>1. \A q \in Procs, g \in Pages : Granted(q, g)' = Granted(q, g)
      BY <1>1, <1>3 DEF Granted, Changed
    <2> QED
      BY <1>1, <2>1 DEF Inv, TypeInv, TablesInv, PermInv, Reached
  <1>7. ChildInv'
    BY <1>1 DEF Inv, TablesInv, ChildInv
  <1> QED
    BY <1>4, <1>5, <1>6, <1>7 DEF Inv, TablesInv

LEMMA FinishForkKeepsInv ==
  ASSUME Inv, FinishFork
  PROVE  Inv'
  <1> DEFINE p == call.proc
             c == call.arg
  <1>1. /\ call # NoCall /\ call.op = "cfork" /\ call' = NoCall
        /\ perm' = [perm EXCEPT ![c] = perm[p]] /\ alive' = alive \cup {c}
        /\ pte' = pte /\ tab' = tab /\ dir' = dir /\ refs' = refs /\ content' = content /\ want' = want
    BY DEF FinishFork, Done, tables
  <1>2. p \in alive /\ p \in Procs /\ c \in Procs /\ c \notin alive
    BY <1>1 DEF Inv, TypeInv, CallInv
  <1>3. /\ perm' \in [Procs -> [Pages -> {0, 1, 3}]]
        /\ \A q \in Procs : perm'[q] = IF q = c THEN perm[p] ELSE perm[q]
    BY <1>1, <1>2 DEF Inv, TypeInv
  <1>4. TypeInv'
    BY <1>1, <1>2, <1>3 DEF Inv, TypeInv, CallInv
  <1>5. RefsInv' /\ Sharing'
    BY <1>1 DEF Inv, RefsInv, TablesInv, Sharing
  <1>6. PermInv'
    <2>1. \A q \in Procs, g \in Pages : ~Changed(q, g) /\ ~Changed(q, g)'
      BY <1>1 DEF Changed
    <2>2. \A g \in Pages : pte[c][g].present => perm[p][g] # 0 /\ ~pte[c][g].rw
      BY <1>2 DEF Inv, TablesInv, ChildInv
    <2>3. \A q \in alive, g \in Pages : Reached(q, g) => perm'[q][g] # 0 /\ (pte[q][g].rw => perm'[q][g] = 3)
      BY <1>2, <1>3, <2>1 DEF Inv, TypeInv, TablesInv, PermInv, Granted
    <2> QED
      <3>1. ASSUME NEW q \in alive', NEW g \in Pages, Reached(q, g)
            PROVE  perm'[q][g] # 0 /\ (pte[q][g].rw => perm'[q][g] = 3)
        <4>1. CASE q = c
          BY <1>2, <1>3, <2>2, <3>1, <4>1 DEF Reached
        <4>2. CASE q # c
          BY <1>1, <2>3, <3>1, <4>2
        <4> QED
          BY <4>1, <4>2
      <3>2. alive' \subseteq Procs
        BY <1>4 DEF TypeInv
      <3> QED
        BY <1>1, <2>1, <3>1, <3>2 DEF PermInv, Granted, Reached
  <1>7. ChildInv'
    BY <1>1, <1>2 DEF Inv, TablesInv, ChildInv
  <1> QED
    BY <1>4, <1>5, <1>6, <1>7 DEF Inv, TablesInv

-----------------------------------------------------------------------------
(* The pages of the calls                                                  *)

LEMMA FreeKeepsInv ==
  ASSUME Inv, freePFN
  PROVE  Inv'
  <1> DEFINE p == call.proc
             g == At
  <1>1. /\ Doing("munmap") /\ OnePage
        /\ alive' = alive /\ perm' = perm /\ tab' = tab /\ dir' = dir /\ content' = content /\ want' = want
    BY DEF freePFN
  <1>2. CallInv /\ alive \subseteq Procs /\ pte \in PageTables
    BY DEF Inv, TypeInv, RefsInv
  <1>3. /\ call # NoCall /\ call.op = "munmap" /\ p \in alive /\ p \in Procs /\ g \in Pages /\ g \in call.todo
        /\ CallInv' /\ call' # NoCall /\ call'.op = "munmap" /\ call'.proc = p /\ call'.arg = call.arg
        /\ call'.pages = call.pages /\ call'.todo = call.todo \ {g}
    BY <1>1, <1>2, AtFacts, OnePageFacts
  <1>4. TypeInv'
    BY <1>1, <1>3 DEF Inv, TypeInv
  <1>5. NoPage \in PageEntries /\ NoPage.frame = Zero /\ ~NoPage.present
    BY DEF NoPage, PageEntries
  <1>6. \A q \in Procs, h \in Pages : <<q, h>> # <<p, g>> => Granted(q, h)' = Granted(q, h)
    BY <1>1, <1>3 DEF Granted, Changed
  <1>7. CASE ~Reached(p, g)
    <2>1. pte' = pte /\ refs' = refs
      BY <1>7 DEF freePFN
    <2>2. RefsInv' /\ Sharing'
      BY <2>1 DEF Inv, RefsInv, TablesInv, Sharing
    <2>3. PermInv'
      BY <1>1, <1>2, <1>7, <1>6, <2>1 DEF Inv, TablesInv, PermInv, Reached
    <2>4. ChildInv'
      BY <1>1, <1>3, <2>1 DEF Inv, TablesInv, ChildInv
    <2> QED
      BY <1>4, <2>2, <2>3, <2>4 DEF Inv, TablesInv
  <1>8. CASE Reached(p, g)
    <2>1. pte' = [pte EXCEPT ![p][g] = NoPage] /\ refs' = Swapped(Zero, pte[p][g].frame)
      BY <1>8 DEF freePFN
    <2> HIDE DEF p, g
    <2>2. /\ pte' \in PageTables
          /\ \A q \in Procs, h \in Pages : pte'[q][h] = IF <<q, h>> = <<p, g>> THEN NoPage ELSE pte[q][h]
      BY <1>2, <1>3, <1>5, <2>1 DEF PageTables
    <2>3. RefsInv'
      <3>1. pte'[p][g].frame = Zero /\ Zero \in Frames \cup {Zero}
        BY <1>3, <1>5, <2>2
      <3>2. \A q \in Procs, h \in Pages : <<q, h>> # <<p, g>> => pte'[q][h].frame \in {pte[q][h].frame, Zero}
        BY <2>2
      <3>3. RefsInv
        BY DEF Inv
      <3> QED
        BY <1>3, <2>1, <2>2, <3>1, <3>2, <3>3, EntrySwapped
    <2>4. Sharing'
      BY <1>5, <2>2, SharingKept DEF Inv, TablesInv
    <2>5. PermInv'
      BY <1>1, <1>2, <1>5, <1>6, <2>2 DEF Inv, TablesInv, PermInv, Reached
    <2>6. ChildInv'
      BY <1>1, <1>3, <1>5, <2>2 DEF Inv, TablesInv, ChildInv
    <2> QED
      BY <1>4, <2>3, <2>4, <2>5, <2>6 DEF Inv, TablesInv
  <1> QED
    BY <1>7, <1>8

(* An entry of a table or directory with a bit changed                     *)
LEMMA BitChanged ==
  ASSUME NEW e \in Entries
  PROVE  /\ [e EXCEPT !.rw = TRUE] \in Entries /\ [e EXCEPT !.rw = TRUE].present = e.present
         /\ [e EXCEPT !.present = FALSE] \in Entries /\ ~[e EXCEPT !.present = FALSE].present
  BY DEF Entries

LEMMA OneEntryChanged ==
  ASSUME NEW T, NEW F \in [Procs -> [T -> Entries]], NEW p \in Procs, NEW t \in T,
         NEW e \in Entries, NEW G, G = [F EXCEPT ![p][t] = e]
  PROVE  /\ G \in [Procs -> [T -> Entries]]
         /\ \A q \in Procs, u \in T : G[q][u] = IF q = p /\ u = t THEN e ELSE F[q][u]
  OBVIOUS

(* Write bits set above page g make no page reached that was not.          *)
LEMMA UpperFacts ==
  ASSUME TypeInv, NEW p \in Procs, NEW g \in Pages, SetUpperRW(p, g)
  PROVE  /\ tab' \in [Procs -> [Tables -> Entries]]
         /\ dir' \in [Procs -> [Dirs -> Entries]]
         /\ \A q \in Procs, t \in Tables : tab'[q][t].present = tab[q][t].present
         /\ \A q \in Procs, d \in Dirs : dir'[q][d].present = dir[q][d].present
  <1> DEFINE t == Table[g]
             d == DirOf(g)
             e == [tab[p][t] EXCEPT !.rw = TRUE]
             k == [dir[p][d] EXCEPT !.rw = TRUE]
  <1>1. t \in Tables /\ d \in Dirs
    BY DEF Tables, Dirs, DirOf
  <1>2. tab' = [tab EXCEPT ![p][t] = e] /\ dir' = [dir EXCEPT ![p][d] = k]
    BY DEF SetUpperRW
  <1>3. tab \in [Procs -> [Tables -> Entries]] /\ dir \in [Procs -> [Dirs -> Entries]]
    BY DEF TypeInv
  <1> HIDE DEF t, d
  <1>4. tab[p][t] \in Entries /\ dir[p][d] \in Entries
    BY <1>1, <1>3
  <1>5. e \in Entries /\ e.present = tab[p][t].present /\ k \in Entries /\ k.present = dir[p][d].present
    BY <1>4, BitChanged
  <1> HIDE DEF e, k
  <1>6. /\ tab' \in [Procs -> [Tables -> Entries]]
        /\ \A q \in Procs, u \in Tables : tab'[q][u] = IF q = p /\ u = t THEN e ELSE tab[q][u]
    BY <1>1, <1>2, <1>3, <1>5, OneEntryChanged
  <1>7. /\ dir' \in [Procs -> [Dirs -> Entries]]
        /\ \A q \in Procs, u \in Dirs : dir'[q][u] = IF q = p /\ u = d THEN k ELSE dir[q][u]
    BY <1>1, <1>2, <1>3, <1>5, OneEntryChanged
  <1> QED
    BY <1>5, <1>6, <1>7

LEMMA UpperEntries ==
  ASSUME NEW g \in Pages
  PROVE  Table[g] \in Tables /\ DirOf(g) \in Dirs
  BY DEF Tables, Dirs, DirOf

(* Levels that gain no present bit reach no page they did not reach.       *)
NoMorePresent ==
  /\ \A q \in Procs, t \in Tables : tab'[q][t].present => tab[q][t].present
  /\ \A q \in Procs, d \in Dirs : dir'[q][d].present => dir[q][d].present

LEMMA NoMoreReached ==
  ASSUME NoMorePresent, NEW q \in Procs, NEW h \in Pages, pte'[q][h].present => pte[q][h].present
  PROVE  Reached(q, h)' => Reached(q, h)
  BY UpperEntries DEF NoMorePresent, Reached, DirOf

(* Everywhere but at one entry, what a page may be used for and what its   *)
(* entry allows stay as they are.                                          *)
LEMMA PermElsewhere ==
  ASSUME TypeInv, PermInv, alive' = alive, NEW p \in Procs, NEW g \in Pages, NoMorePresent,
         \A q \in Procs, h \in Pages : <<q, h>> # <<p, g>> =>
           /\ Granted(q, h)' = Granted(q, h)
           /\ pte'[q][h].present => pte[q][h].present
           /\ pte'[q][h].rw => pte[q][h].rw,
         Reached(p, g)' => Granted(p, g)' # 0 /\ (pte'[p][g].rw => Granted(p, g)' = 3)
  PROVE  PermInv'
  <1> SUFFICES ASSUME NEW q \in alive, NEW h \in Pages, Reached(q, h)'
               PROVE  Granted(q, h)' # 0 /\ (pte'[q][h].rw => Granted(q, h)' = 3)
    BY DEF PermInv
  <1>1. q \in Procs
    BY DEF TypeInv
  <1>2. CASE <<q, h>> = <<p, g>>
    BY <1>2
  <1>3. CASE <<q, h>> # <<p, g>>
    <2>1. Reached(q, h)
      BY <1>1, <1>3, NoMoreReached
    <2> QED
      BY <1>1, <1>3, <2>1 DEF PermInv
  <1> QED
    BY <1>2, <1>3

(* A write to a shared page: the entry comes to name a frame of its own.   *)
LEMMA CowKeepsInv ==
  ASSUME Inv, NEW p \in Procs, handle_cow_fault(p)
  PROVE  Inv'
  <1>0. want[p].page \in Pages
    BY DEF handle_cow_fault, CopyNeeded, Faults, Pending, Inv, TypeInv, Loads, Stores
  <1>2. PICK g \in Pages : g = want[p].page
    BY <1>0
  <1> DEFINE old == pte[p][g].frame
  <1>1. /\ call = NoCall /\ p \in alive /\ Writes(p) /\ want[p] # NoAccess /\ perm[p][g] = 3
        /\ SetUpperRW(p, g)
        /\ alive' = alive /\ perm' = perm /\ want' = want /\ call' = call
    BY <1>2 DEF handle_cow_fault, CopyNeeded, Faults, Pending
  <1>3. PICK new \in Frames \cup {Zero} :
          /\ Allocated(new) /\ old # Zero
          /\ content' = [content EXCEPT ![new] = content[old]]
          /\ pte' = [pte EXCEPT ![p][g] = PageEntry(new, TRUE)]
          /\ refs' = Swapped(new, old)
    BY <1>2 DEF handle_cow_fault
  <1>4. PageEntry(new, TRUE) \in PageEntries /\ PageEntry(new, TRUE).frame = new
    BY DEF PageEntry, PageEntries
  <1>5. pte \in PageTables /\ old \in Frames \cup {Zero}
    BY <1>2 DEF Inv, RefsInv, PageTables, PageEntries
  <1>6. /\ pte' \in PageTables
        /\ \A q \in Procs, h \in Pages :
             pte'[q][h] = IF <<q, h>> = <<p, g>> THEN PageEntry(new, TRUE) ELSE pte[q][h]
    BY <1>2, <1>3, <1>4, <1>5 DEF PageTables
  <1>7. /\ tab' \in [Procs -> [Tables -> Entries]] /\ dir' \in [Procs -> [Dirs -> Entries]] /\ NoMorePresent
    BY <1>1, <1>2, UpperFacts DEF Inv, NoMorePresent
  <1>8. TypeInv'
    <2>1. content' \in [Frames \cup {Zero} -> Values]
      BY <1>3, <1>5 DEF Inv, TypeInv
    <2> QED
      BY <1>1, <1>7, <2>1 DEF Inv, TypeInv, CallInv
  <1>9. RefsInv'
    <2>1. pte'[p][g].frame = new
      BY <1>2, <1>4, <1>6
    <2>2. \A q \in Procs, h \in Pages : <<q, h>> # <<p, g>> => pte'[q][h].frame \in {pte[q][h].frame, Zero}
      BY <1>6
    <2>3. refs' = Swapped(new, pte[p][g].frame) /\ RefsInv
      BY <1>3 DEF Inv
    <2> QED
      BY <1>2, <1>6, <2>1, <2>2, <2>3, EntrySwapped
  <1>10. Sharing'
    <2>1. new = Zero \/ \A q \in Procs, h \in Pages : pte[q][h].frame # new
      BY <1>3, FreeFrameUnnamed DEF Allocated, Inv
    <2>2. pte'[p][g].frame = new
      BY <1>2, <1>4, <1>6
    <2>3. \A q \in Procs, h \in Pages : <<q, h>> # <<p, g>> => pte'[q][h] = pte[q][h]
      BY <1>6
    <2>4. Sharing
      BY DEF Inv, TablesInv
    <2> QED
      BY <2>1, <2>2, <2>3, <2>4, SharingAlone
  <1>11. PermInv'
    <2>1. \A q \in Procs, h \in Pages : Granted(q, h)' = perm[q][h] /\ Granted(q, h) = perm[q][h]
      BY <1>1 DEF Granted, Changed
    <2>2. \A q \in Procs, h \in Pages : <<q, h>> # <<p, g>> => pte'[q][h] = pte[q][h]
      BY <1>6
    <2>3. perm[p][g] = 3
      BY <1>1
    <2>4. Granted(p, g)' = 3 /\ 3 # 0
      BY <1>2, <2>1, <2>3
    <2>5. TypeInv /\ PermInv /\ alive' = alive
      BY <1>1 DEF Inv, TablesInv
    <2>6. \A q \in Procs, h \in Pages : <<q, h>> # <<p, g>> =>
            /\ Granted(q, h)' = Granted(q, h)
            /\ pte'[q][h].present => pte[q][h].present
            /\ pte'[q][h].rw => pte[q][h].rw
      BY <2>1, <2>2
    <2>7. Reached(p, g)' => Granted(p, g)' # 0 /\ (pte'[p][g].rw => Granted(p, g)' = 3)
      BY <2>4
    <2> QED
      BY <1>2, <1>7, <2>5, <2>6, <2>7, PermElsewhere
  <1>12. ChildInv'
    <2>1. \A c \in Procs \ alive, h \in Pages : pte'[c][h] = pte[c][h]
      BY <1>1, <1>6
    <2> QED
      BY <1>1, <2>1 DEF Inv, TablesInv, ChildInv
  <1> QED
    BY <1>8, <1>9, <1>10, <1>11, <1>12 DEF Inv, TablesInv

-----------------------------------------------------------------------------
(* mprotect, page by page                                                  *)
LEMMA DropFacts ==
  ASSUME TypeInv, NEW p \in Procs, NEW g \in Pages, NEW entries, updatePTPermissions(p, Table[g], entries)
  PROVE  /\ tab' \in [Procs -> [Tables -> Entries]]
         /\ dir' \in [Procs -> [Dirs -> Entries]]
         /\ NoMorePresent
  <1> DEFINE t == Table[g]
             d == Dir[t]
             e == [tab[p][t] EXCEPT !.present = FALSE]
             k == [dir[p][d] EXCEPT !.present = FALSE]
  <1>1. t \in Tables /\ d \in Dirs
    BY DEF Tables, Dirs
  <1>2. /\ tab' = tab \/ tab' = [tab EXCEPT ![p][t] = e]
        /\ dir' = dir \/ dir' = [dir EXCEPT ![p][d] = k]
    BY DEF updatePTPermissions
  <1>3. tab \in [Procs -> [Tables -> Entries]] /\ dir \in [Procs -> [Dirs -> Entries]]
    BY DEF TypeInv
  <1> HIDE DEF t, d
  <1>4. tab[p][t] \in Entries /\ dir[p][d] \in Entries
    BY <1>1, <1>3
  <1>5. e \in Entries /\ ~e.present /\ k \in Entries /\ ~k.present
    BY <1>4, BitChanged
  <1> HIDE DEF e, k
  <1>6. tab' \in [Procs -> [Tables -> Entries]]
        /\ \A q \in Procs, u \in Tables : tab'[q][u].present => tab[q][u].present
    <2>1. CASE tab' = tab
      BY <1>3, <2>1
    <2>2. CASE tab' = [tab EXCEPT ![p][t] = e]
      <3>1. /\ tab' \in [Procs -> [Tables -> Entries]]
            /\ \A q \in Procs, u \in Tables : tab'[q][u] = IF q = p /\ u = t THEN e ELSE tab[q][u]
        BY <1>1, <1>3, <1>5, <2>2, OneEntryChanged
      <3> QED
        BY <1>5, <3>1
    <2> QED
      BY <1>2, <2>1, <2>2
  <1>7. dir' \in [Procs -> [Dirs -> Entries]]
        /\ \A q \in Procs, u \in Dirs : dir'[q][u].present => dir[q][u].present
    <2>1. CASE dir' = dir
      BY <1>3, <2>1
    <2>2. CASE dir' = [dir EXCEPT ![p][d] = k]
      <3>1. /\ dir' \in [Procs -> [Dirs -> Entries]]
            /\ \A q \in Procs, u \in Dirs : dir'[q][u] = IF q = p /\ u = d THEN k ELSE dir[q][u]
        BY <1>1, <1>3, <1>5, <2>2, OneEntryChanged
      <3> QED
        BY <1>5, <3>1
    <2> QED
      BY <1>2, <2>1, <2>2
  <1> QED
    BY <1>6, <1>7 DEF NoMorePresent

LEMMA PageBitChanged ==
  ASSUME NEW e \in PageEntries, NEW bit \in BOOLEAN
  PROVE  /\ [e EXCEPT !.rw = bit] \in PageEntries
         /\ [e EXCEPT !.rw = bit].frame = e.frame /\ [e EXCEPT !.rw = bit].rw = bit
  BY DEF PageEntries

LEMMA PageEntryFacts ==
  ASSUME NEW f \in Frames \cup {Zero}, NEW bit \in BOOLEAN
  PROVE  /\ PageEntry(f, bit) \in PageEntries
         /\ PageEntry(f, bit).frame = f /\ PageEntry(f, bit).rw = bit
  BY DEF PageEntry, PageEntries

LEMMA ProtectKeepsInv ==
  ASSUME Inv, updatePFN
  PROVE  Inv'
  <1>0. call.proc \in Procs /\ At \in Pages
    BY AtFacts DEF updatePFN, Inv, TypeInv
  <1>1. PICK p \in Procs, g \in Pages : p = call.proc /\ g = At
    BY <1>0
  <1>2. /\ Doing("mprotect") /\ OnePage
        /\ alive' = alive /\ perm' = perm /\ content' = content /\ want' = want
    BY DEF updatePFN
  <1>3. /\ CallInv /\ TypeInv /\ alive \subseteq Procs /\ pte \in PageTables /\ RefsInv
        /\ Sharing /\ PermInv /\ ChildInv
    BY DEF Inv, TypeInv, RefsInv, TablesInv
  <1>4. /\ call # NoCall /\ call.op = "mprotect" /\ p \in alive /\ g \in call.todo
        /\ call.arg \in {1, 3} /\ g \in call.pages
        /\ CallInv' /\ call' # NoCall /\ call'.op = "mprotect" /\ call'.proc = p /\ call'.arg = call.arg
        /\ call'.pages = call.pages /\ call'.todo = call.todo \ {g}
    BY <1>1, <1>2, <1>3, AtFacts, OnePageFacts DEF CallInv
  <1>5. \A q \in Procs, h \in Pages : <<q, h>> # <<p, g>> => Granted(q, h)' = Granted(q, h)
    BY <1>1, <1>2, <1>4 DEF Granted, Changed
  <1>6. Granted(p, g)' = call.arg
    BY <1>4 DEF Granted, Changed
  <1> DEFINE old == pte[p][g].frame
             New == \E new \in Frames \cup {Zero} :
                      /\ Allocated(new)
                      /\ pte' = [pte EXCEPT ![p][g] = PageEntry(new, TRUE)]
                      /\ refs' = Swapped(new, old)
             ReadOnly == /\ pte' = [pte EXCEPT ![p][g].rw = FALSE]
                         /\ updatePTPermissions(p, Table[g], pte'[p])
                         /\ refs' = refs
             WriteSet == pte' = [pte EXCEPT ![p][g].rw = TRUE] /\ refs' = refs
  <1>7. \/ ~Reached(p, g)
        \/ Reached(p, g) /\ call.arg = 1 /\ ReadOnly
        \/ Reached(p, g) /\ call.arg = 3 /\ old \in Frames /\ refs[old] > 1 /\ New /\ SetUpperRW(p, g)
        \/ Reached(p, g) /\ call.arg = 3 /\ (old \in Frames => refs[old] <= 1) /\ WriteSet /\ SetUpperRW(p, g)
    BY <1>1, Zenon DEF updatePFN
  <1>8. CASE ~Reached(p, g)
    <2>1. pte' = pte /\ tab' = tab /\ dir' = dir /\ refs' = refs
      BY <1>1, <1>8 DEF updatePFN, tables
    <2>2. TypeInv'
      BY <1>2, <1>4, <2>1 DEF Inv, TypeInv
    <2>3. RefsInv' /\ Sharing'
      BY <1>3, <2>1 DEF RefsInv, Sharing
    <2>4. PermInv'
      BY <1>2, <1>3, <1>5, <1>8, <2>1 DEF PermInv, Reached
    <2>5. ChildInv'
      BY <1>2, <1>3, <1>4, <2>1 DEF ChildInv
    <2> QED
      BY <2>2, <2>3, <2>4, <2>5 DEF Inv, TablesInv
  <1>9. CASE Reached(p, g)
    <2> DEFINE Kept(e) == /\ refs' = refs /\ e.frame = old
                          /\ e.rw /\ old \in Frames => refs[old] <= 1
               Moved(e) == \E new \in Frames \cup {Zero} :
                             Allocated(new) /\ e.frame = new /\ refs' = Swapped(new, old)
    <2>1. \E e \in PageEntries :
            /\ pte' = [pte EXCEPT ![p][g] = e] /\ (e.rw => call.arg = 3)
            /\ Kept(e) \/ Moved(e)
            /\ tab' \in [Procs -> [Tables -> Entries]] /\ dir' \in [Procs -> [Dirs -> Entries]]
            /\ NoMorePresent
      <3>1. CASE call.arg = 1
        <4> DEFINE e == [pte[p][g] EXCEPT !.rw = FALSE]
        <4>1. pte' = [pte EXCEPT ![p][g] = e] /\ refs' = refs /\ updatePTPermissions(p, Table[g], pte'[p])
          BY <1>1, <1>9, <3>1 DEF updatePFN
        <4>2. pte[p][g] \in PageEntries
          BY <1>3 DEF PageTables
        <4>3. e \in PageEntries /\ e.frame = old /\ e.rw = FALSE
          BY <4>2, PageBitChanged
        <4>4. /\ tab' \in [Procs -> [Tables -> Entries]] /\ dir' \in [Procs -> [Dirs -> Entries]]
              /\ NoMorePresent
          BY <1>3, <4>1, DropFacts
        <4> HIDE DEF e
        <4> QED
          BY <4>1, <4>3, <4>4
      <3>2. CASE call.arg = 3
        <4>1. SetUpperRW(p, g)
          <5> HIDE DEF New, WriteSet, ReadOnly, old
          <5> QED
            BY <1>7, <1>9, <3>2
        <4>2. /\ tab' \in [Procs -> [Tables -> Entries]] /\ dir' \in [Procs -> [Dirs -> Entries]]
              /\ NoMorePresent
          BY <1>3, <4>1, UpperFacts DEF NoMorePresent
        <4>3. CASE old \in Frames /\ refs[old] > 1
          <5>1. PICK new \in Frames \cup {Zero} :
                  Allocated(new) /\ pte' = [pte EXCEPT ![p][g] = PageEntry(new, TRUE)] /\ refs' = Swapped(new, old)
            <6>1. refs[old] \in Nat
              BY <1>3, <4>3, RefsInvGives
            <6>2. New
              <7> HIDE DEF New, WriteSet, ReadOnly, old
              <7> QED
                BY <1>7, <1>9, <3>2, <4>3, <6>1
            <6> QED
              BY <6>2
          <5> QED
            BY <3>2, <4>2, <5>1, PageEntryFacts
        <4>4. CASE ~(old \in Frames /\ refs[old] > 1)
          <5> DEFINE e == [pte[p][g] EXCEPT !.rw = TRUE]
          <5>1. pte' = [pte EXCEPT ![p][g] = e] /\ refs' = refs /\ (old \in Frames => refs[old] <= 1)
            <6>1. WriteSet /\ (old \in Frames => refs[old] <= 1)
              <7> HIDE DEF New, WriteSet, ReadOnly, old
              <7> QED
                BY <1>7, <1>9, <3>2, <4>4
            <6> QED
              BY <6>1
          <5>2. pte[p][g] \in PageEntries
            BY <1>3 DEF PageTables
          <5>3. e \in PageEntries /\ e.frame = old
            BY <5>2, PageBitChanged
          <5> HIDE DEF e
          <5> QED
            BY <3>2, <4>2, <5>1, <5>3
        <4> QED
          BY <4>3, <4>4
      <3> QED
        BY <1>4, <3>1, <3>2
    <2>2. PICK e \in PageEntries :
            /\ pte' = [pte EXCEPT ![p][g] = e] /\ (e.rw => call.arg = 3)
            /\ Kept(e) \/ Moved(e)
            /\ tab' \in [Procs -> [Tables -> Entries]] /\ dir' \in [Procs -> [Dirs -> Entries]]
            /\ NoMorePresent
      BY <2>1
    <2>3. pte' \in PageTables /\ \A q \in Procs, h \in Pages : pte'[q][h] = IF <<q, h>> = <<p, g>> THEN e ELSE pte[q][h]
      BY <1>3, <2>2 DEF PageTables
    <2>4. pte'[p][g] = e /\ \A q \in Procs, h \in Pages : <<q, h>> # <<p, g>> => pte'[q][h] = pte[q][h]
      BY <2>3
    <2>5. TypeInv'
      BY <1>2, <1>4, <2>2 DEF Inv, TypeInv
    <2>6. RefsInv' /\ Sharing'
      <3>1. CASE Kept(e)
        <4>1. \A q \in Procs, h \in Pages : pte'[q][h].frame \in {pte[q][h].frame, Zero}
          BY <2>4, <3>1
        <4>2. RefsInv'
          BY <1>3, <2>3, <3>1, <4>1, SameRefs
        <4>3. CASE ~e.rw
          BY <1>3, <2>4, <3>1, <4>2, <4>3, SharingKept
        <4>4. CASE old \in Frames /\ refs[old] <= 1
          <5>1. \A q \in Procs, h \in Pages : <<q, h>> # <<p, g>> => pte[q][h].frame # old
            BY <1>3, <4>4, LastReference
          <5>2. pte'[p][g].frame = old
            BY <2>4, <3>1
          <5> HIDE DEF old
          <5> QED
            BY <1>3, <2>4, <4>2, <5>1, <5>2, SharingAlone
        <4>5. CASE old = Zero
          <5>1. pte'[p][g].frame = Zero
            BY <2>4, <3>1, <4>5
          <5> QED
            BY ZenonT(40), <1>3, <2>4, <4>2, <5>1, SharingAlone
        <4>6. old \in Frames \cup {Zero}
          BY <1>3 DEF PageTables, PageEntries
        <4> QED
          BY <3>1, <4>2, <4>3, <4>4, <4>5, <4>6
      <3>2. CASE Moved(e)
        <4>1. PICK new \in Frames \cup {Zero} :
                Allocated(new) /\ pte'[p][g].frame = new /\ refs' = Swapped(new, pte[p][g].frame)
          BY <2>4, <3>2
        <4>2. RefsInv'
          <5>1. \A q \in Procs, h \in Pages : <<q, h>> # <<p, g>> => pte'[q][h].frame \in {pte[q][h].frame, Zero}
            BY <2>4
          <5> QED
            BY <1>3, <2>3, <4>1, <5>1, EntrySwapped
        <4>3. new = Zero \/ \A q \in Procs, h \in Pages : pte[q][h].frame # new
          BY <1>3, <4>1, FreeFrameUnnamed DEF Allocated
        <4>4. Sharing'
          BY <1>3, <2>4, <4>1, <4>3, SharingAlone
        <4> QED
          BY <4>2, <4>4
      <3> QED
        BY <2>2, <3>1, <3>2
    <2>7. PermInv'
      <3>1. \A q \in Procs, h \in Pages : <<q, h>> # <<p, g>> =>
              /\ Granted(q, h)' = Granted(q, h)
              /\ pte'[q][h].present => pte[q][h].present
              /\ pte'[q][h].rw => pte[q][h].rw
        BY <1>5, <2>4
      <3>2. Granted(p, g)' # 0 /\ (pte'[p][g].rw => Granted(p, g)' = 3)
        BY <1>4, <1>6, <2>2, <2>4
      <3> QED
        BY <1>2, <1>3, <2>2, <3>1, <3>2, PermElsewhere
    <2>8. ChildInv'
      BY <1>2, <1>3, <1>4, <2>4 DEF ChildInv
    <2> QED
      BY <2>5, <2>6, <2>7, <2>8 DEF Inv, TablesInv
  <1> QED
    BY <1>8, <1>9

-----------------------------------------------------------------------------
(* A page fault maps a frame no entry names; a table or directory that is  *)
(* made new reaches nothing else.                                          *)
LEMMA MapsKeepsInv ==
  ASSUME Inv, NEW p \in Procs, PageFaultMaps(p)
  PROVE  Inv'
  <1>1. want[p].page \in Pages
    BY DEF PageFaultMaps, Faults, Pending, Inv, TypeInv, Loads, Stores
  <1>2. PICK g \in Pages : g = want[p].page
    BY <1>1
  <1> DEFINE w == perm[p][g] = 3
             E == EntriesFor(p, g)
             U == TablesFor(p, g, w)
             L == DirsFor(p, g, w)
  <1>3. /\ call = NoCall /\ p \in alive /\ perm[p][g] # 0
        /\ alive' = alive /\ perm' = perm /\ content' = content /\ want' = want /\ call' = call
        /\ tab' = [tab EXCEPT ![p] = U] /\ dir' = [dir EXCEPT ![p] = L]
    BY <1>2 DEF PageFaultMaps, Faults, Pending, Refused
  <1>4. PICK f \in FreeFrames :
          /\ pte' = [pte EXCEPT ![p] = [E EXCEPT ![g] = PageEntry(f, w)]]
          /\ refs' = Swapped(f, Zero)
    BY <1>2 DEF PageFaultMaps
  <1>5. /\ TypeInv /\ pte \in PageTables /\ RefsInv /\ Sharing /\ PermInv /\ ChildInv
        /\ f \in Frames /\ f \in Frames \cup {Zero} /\ f # Zero
    BY LayoutAssumption DEF Inv, RefsInv, TablesInv, FreeFrames
  <1>6. PageEntry(f, w) \in PageEntries /\ PageEntry(f, w).frame = f /\ PageEntry(f, w).rw = w
    BY <1>5, PageEntryFacts
  <1>7. NoPage \in PageEntries /\ NoPage.frame = Zero /\ ~NoPage.present /\ ~NoPage.rw
    BY DEF NoPage, PageEntries
  <1>8. /\ E \in [Pages -> PageEntries]
        /\ \A h \in Pages : E[h] = NoPage \/ E[h] = pte[p][h]
    BY <1>5, <1>7 DEF EntriesFor, PageTables
  <1>9. /\ U \in [Tables -> Entries] /\ L \in [Dirs -> Entries]
    <2>1. Entry(w) \in Entries /\ NoEntry \in Entries
      BY DEF Entry, NoEntry, Entries
    <2>2. tab[p] \in [Tables -> Entries] /\ dir[p] \in [Dirs -> Entries]
      BY <1>5 DEF TypeInv
    <2> QED
      BY <2>1, <2>2 DEF TablesFor, DirsFor
  <1>10. \A h \in Pages : E[h].present /\ L[DirOf(h)].present /\ U[Table[h]].present => Reached(p, h)
    <2> SUFFICES ASSUME NEW h \in Pages, E[h].present, L[DirOf(h)].present, U[Table[h]].present
                 PROVE  Reached(p, h)
      OBVIOUS
    <2>1. Table[h] \in Tables /\ DirOf(h) \in Dirs /\ DirOf(g) \in Dirs /\ dir[p] \in [Dirs -> Entries]
      BY <1>5, UpperEntries DEF TypeInv
    <2>2. ~((NewDir(p, g) /\ DirOf(h) = DirOf(g)) \/ (NewTable(p, g) /\ Table[h] = Table[g]))
      BY <1>7 DEF EntriesFor
    <2>3. pte[p][h].present
      BY <2>2 DEF EntriesFor
    <2>4. tab[p][Table[h]].present
      BY <2>1, <2>2 DEF TablesFor, DirOf
    <2>5. dir[p][DirOf(h)].present
      BY <2>1, <2>2 DEF DirsFor
    <2> QED
      BY <2>3, <2>4, <2>5 DEF Reached
  <1> HIDE DEF E, U, L
  <1>11. /\ pte' \in PageTables
         /\ \A q \in Procs, h \in Pages :
              pte'[q][h] = IF q = p THEN IF h = g THEN PageEntry(f, w) ELSE E[h] ELSE pte[q][h]
    BY <1>4, <1>5, <1>6, <1>8 DEF PageTables
  <1>12. /\ pte'[p][g] = PageEntry(f, w)
         /\ \A q \in Procs, h \in Pages : <<q, h>> # <<p, g>> =>
              pte'[q][h] = pte[q][h] \/ pte'[q][h] = NoPage
    BY <1>8, <1>11
  <1>13. /\ tab' \in [Procs -> [Tables -> Entries]] /\ tab'[p] = U
         /\ dir' \in [Procs -> [Dirs -> Entries]] /\ dir'[p] = L
         /\ \A q \in Procs : q # p => tab'[q] = tab[q] /\ dir'[q] = dir[q]
    BY <1>3, <1>5, <1>9 DEF TypeInv
  <1>14. TypeInv'
    BY <1>3, <1>5, <1>13 DEF TypeInv, CallInv
  <1>15. RefsInv'
    <2>1. pte'[p][g].frame = f
      BY <1>6, <1>12
    <2>2. \A q \in Procs, h \in Pages : <<q, h>> # <<p, g>> => pte'[q][h].frame \in {pte[q][h].frame, Zero}
      BY <1>7, <1>12
    <2> QED
      BY <1>4, <1>5, <1>11, <2>1, <2>2, EntrySwapped
  <1>16. Sharing'
    <2>1. \A q \in Procs, h \in Pages : pte[q][h].frame # f
      BY <1>5, FreeFrameUnnamed
    <2>2. pte'[p][g].frame = f
      BY <1>6, <1>12
    <2>3. \A q \in Procs, h \in Pages : <<q, h>> # <<p, g>> =>
            pte'[q][h].frame = Zero \/ pte'[q][h] = pte[q][h]
      BY <1>7, <1>12
    <2> QED
      BY <1>5, <2>1, <2>2, <2>3, SharingAlone
  <1>17. PermInv'
    <2>1. \A q \in Procs, h \in Pages : Granted(q, h)' = perm[q][h] /\ Granted(q, h) = perm[q][h]
      BY <1>3 DEF Granted, Changed
    <2> SUFFICES ASSUME NEW q \in alive, NEW h \in Pages, Reached(q, h)'
                 PROVE  perm[q][h] # 0 /\ (pte'[q][h].rw => perm[q][h] = 3)
      BY <1>3, <1>5, <2>1 DEF PermInv, TypeInv
    <2>2. q \in Procs
      BY <1>5 DEF TypeInv
    <2>3. CASE q # p
      <3>1. pte'[q][h] = pte[q][h] /\ Reached(q, h)
        BY <1>11, <1>13, <2>2, <2>3 DEF Reached
      <3> QED
        BY <1>5, <2>1, <2>2, <3>1 DEF PermInv
    <2>4. CASE q = p /\ h # g
      <3>1. pte'[q][h] = E[h] /\ E[h].present /\ U[Table[h]].present /\ L[DirOf(h)].present
        BY <1>11, <1>13, <2>2, <2>4 DEF Reached
      <3>2. pte'[q][h] = pte[q][h] /\ Reached(q, h)
        BY <1>7, <1>8, <1>10, <2>4, <3>1
      <3> QED
        BY <1>5, <2>1, <2>2, <3>2 DEF PermInv
    <2>5. CASE q = p /\ h = g
      BY <1>3, <1>6, <1>12, <2>5
    <2> QED
      BY <2>3, <2>4, <2>5
  <1>18. ChildInv'
    <2>1. \A c \in Procs \ alive, h \in Pages : pte'[c][h] = pte[c][h]
      BY <1>3, <1>11
    <2> QED
      BY <1>3, <1>5, <2>1 DEF ChildInv
  <1> QED
    BY <1>14, <1>15, <1>16, <1>17, <1>18 DEF Inv, TablesInv

-----------------------------------------------------------------------------
(* cfork, page by page                                                     *)
LEMMA BitCleared ==
  ASSUME NEW e \in Entries
  PROVE  [e EXCEPT !.rw = FALSE] \in Entries /\ [e EXCEPT !.rw = FALSE].present = e.present
  BY DEF Entries

LEMMA CopyKeepsInv ==
  ASSUME Inv, copyPageToChildProcess
  PROVE  Inv'
  <1>0. call.proc \in Procs /\ call.arg \in Procs /\ At \in Pages
    BY AtFacts DEF copyPageToChildProcess, Inv, TypeInv, CallInv
  <1>1. PICK p \in Procs, c \in Procs, g \in Pages : p = call.proc /\ c = call.arg /\ g = At
    BY <1>0
  <1> DEFINE t == Table[g]
             d == DirOf(g)
             f == pte[p][g].frame
             Copied == Reached(p, g) /\ ~pte[c][g].present
  <1>2. /\ Doing("cfork") /\ OnePage
        /\ alive' = alive /\ perm' = perm /\ content' = content /\ want' = want
    BY DEF copyPageToChildProcess
  <1>3. /\ CallInv /\ TypeInv /\ alive \subseteq Procs /\ pte \in PageTables /\ RefsInv
        /\ Sharing /\ PermInv /\ ChildInv
    BY DEF Inv, TypeInv, RefsInv, TablesInv
  <1>4. /\ call # NoCall /\ call.op = "cfork" /\ p \in alive /\ c \notin alive /\ p # c
        /\ CallInv' /\ call' # NoCall /\ call'.op = "cfork" /\ call'.proc = p /\ call'.arg = c
    BY <1>1, <1>2, <1>3, AtFacts, OnePageFacts DEF CallInv
  <1>5. /\ tab \in [Procs -> [Tables -> Entries]] /\ dir \in [Procs -> [Dirs -> Entries]]
        /\ t \in Tables /\ d \in Dirs
    BY <1>3, UpperEntries DEF TypeInv
  <1>6. dir' = dir \/ dir' = [dir EXCEPT ![p][d] = [dir[p][d] EXCEPT !.rw = FALSE], ![c][d] = Entry(FALSE)]
    BY <1>1, <1>4, Zenon DEF copyPageToChildProcess
  <1>7. tab' = tab \/ tab' = [tab EXCEPT ![p][t] = [tab[p][t] EXCEPT !.rw = FALSE], ![c][t] = Entry(FALSE)]
    BY <1>1, <1>4, Zenon DEF copyPageToChildProcess
  <1>8. IF Copied
        THEN /\ pte' = [pte EXCEPT ![p][g] = [pte[p][g] EXCEPT !.rw = FALSE], ![c][g] = PageEntry(f, FALSE)]
             /\ refs' = Swapped(f, Zero)
        ELSE pte' = pte /\ refs' = refs
    BY <1>1, Zenon DEF copyPageToChildProcess, Reached
  <1>9. /\ tab' \in [Procs -> [Tables -> Entries]] /\ dir' \in [Procs -> [Dirs -> Entries]]
        /\ \A q \in Procs \ {c}, u \in Tables : tab'[q][u].present = tab[q][u].present
        /\ \A q \in Procs \ {c}, u \in Dirs : dir'[q][u].present = dir[q][u].present
    <2> DEFINE e == [tab[p][t] EXCEPT !.rw = FALSE]
               k == [dir[p][d] EXCEPT !.rw = FALSE]
               M == [tab EXCEPT ![p][t] = e]
               N == [dir EXCEPT ![p][d] = k]
    <2>1. tab' = tab \/ tab' = [M EXCEPT ![c][t] = Entry(FALSE)]
      BY <1>7
    <2>2. dir' = dir \/ dir' = [N EXCEPT ![c][d] = Entry(FALSE)]
      BY <1>6
    <2> HIDE DEF t, d
    <2>3. tab[p][t] \in Entries /\ dir[p][d] \in Entries
      BY <1>5
    <2>4. /\ e \in Entries /\ e.present = tab[p][t].present
          /\ k \in Entries /\ k.present = dir[p][d].present
      BY <2>3, BitCleared
    <2>7. PICK z \in Entries : z = Entry(FALSE)
      BY DEF Entry, Entries
    <2> HIDE DEF e, k
    <2>5. /\ tab' \in [Procs -> [Tables -> Entries]]
          /\ \A q \in Procs \ {c}, u \in Tables : tab'[q][u].present = tab[q][u].present
      <3>1. CASE tab' = tab
        BY <1>5, <3>1
      <3>2. CASE tab' = [M EXCEPT ![c][t] = Entry(FALSE)]
        <4>1. /\ M \in [Procs -> [Tables -> Entries]]
              /\ \A q \in Procs, u \in Tables : M[q][u] = IF q = p /\ u = t THEN e ELSE tab[q][u]
          BY <1>5, <2>4
        <4> HIDE DEF M
        <4>2. /\ tab' \in [Procs -> [Tables -> Entries]]
              /\ \A q \in Procs, u \in Tables : tab'[q][u] = IF q = c /\ u = t THEN z ELSE M[q][u]
          BY <1>5, <2>7, <3>2, <4>1
        <4>3. \A q \in Procs \ {c}, u \in Tables : tab'[q][u] = M[q][u] /\ M[q][u].present = tab[q][u].present
          BY <2>4, <4>1, <4>2
        <4> QED
          BY <4>2, <4>3
      <3> QED
        BY <2>1, <3>1, <3>2
    <2>6. /\ dir' \in [Procs -> [Dirs -> Entries]]
          /\ \A q \in Procs \ {c}, u \in Dirs : dir'[q][u].present = dir[q][u].present
      <3>1. CASE dir' = dir
        BY <1>5, <3>1
      <3>2. CASE dir' = [N EXCEPT ![c][d] = Entry(FALSE)]
        <4>1. /\ N \in [Procs -> [Dirs -> Entries]]
              /\ \A q \in Procs, u \in Dirs : N[q][u] = IF q = p /\ u = d THEN k ELSE dir[q][u]
          BY <1>5, <2>4
        <4> HIDE DEF N
        <4>2. /\ dir' \in [Procs -> [Dirs -> Entries]]
              /\ \A q \in Procs, u \in Dirs : dir'[q][u] = IF q = c /\ u = d THEN z ELSE N[q][u]
          BY <1>5, <2>7, <3>2, <4>1
        <4>3. \A q \in Procs \ {c}, u \in Dirs : dir'[q][u] = N[q][u] /\ N[q][u].present = dir[q][u].present
          BY <2>4, <4>1, <4>2
        <4> QED
          BY <4>2, <4>3
      <3> QED
        BY <2>2, <3>1, <3>2
    <2> QED
      BY <2>5, <2>6
  <1> HIDE DEF t, d
  <1>10. TypeInv'
    BY <1>2, <1>4, <1>9 DEF Inv, TypeInv
  <1>11. \A q \in Procs, h \in Pages : Granted(q, h)' = perm[q][h] /\ Granted(q, h) = perm[q][h]
    BY <1>2, <1>4 DEF Granted, Changed
  <1>12. ASSUME \A q \in alive, h \in Pages :
                  /\ pte'[q][h].present => pte[q][h].present
                  /\ pte'[q][h].rw => pte[q][h].rw
         PROVE  PermInv'
    <2> SUFFICES ASSUME NEW q \in alive, NEW h \in Pages, Reached(q, h)'
                 PROVE  perm[q][h] # 0 /\ (pte'[q][h].rw => perm[q][h] = 3)
      BY <1>2, <1>3, <1>11 DEF PermInv
    <2>1. q \in Procs \ {c} /\ Table[h] \in Tables /\ DirOf(h) \in Dirs
      BY <1>3, <1>4, UpperEntries
    <2>2. Reached(q, h)
      BY <1>9, <1>12, <2>1 DEF Reached, DirOf
    <2> QED
      BY <1>3, <1>11, <1>12, <2>1, <2>2 DEF PermInv
  <1>13. CASE ~Copied
    <2>1. pte' = pte /\ refs' = refs
      BY <1>8, <1>13
    <2>2. RefsInv' /\ Sharing'
      BY <1>3, <2>1 DEF RefsInv, Sharing
    <2>3. PermInv'
      BY <1>12, <2>1
    <2>4. ChildInv'
      BY <1>1, <1>2, <1>3, <1>4, <2>1 DEF ChildInv
    <2> QED
      BY <1>10, <2>2, <2>3, <2>4 DEF Inv, TablesInv
  <1>14. CASE Copied
    <2> DEFINE e == [pte[p][g] EXCEPT !.rw = FALSE]
    <2>1. pte' = [pte EXCEPT ![p][g] = e, ![c][g] = PageEntry(f, FALSE)] /\ refs' = Swapped(f, Zero)
      BY <1>8, <1>14
    <2>2. pte[p][g] \in PageEntries /\ f \in Frames \cup {Zero}
      BY <1>3 DEF PageTables, PageEntries
    <2>3. e \in PageEntries /\ e.frame = f /\ ~e.rw
      BY <2>2, PageBitChanged
    <2>4. PageEntry(f, FALSE) \in PageEntries /\ PageEntry(f, FALSE).frame = f /\ ~PageEntry(f, FALSE).rw
      BY <2>2, PageEntryFacts
    <2>5. Reached(p, g) /\ pte[p][g].present
      BY <1>14 DEF Reached
    <2> HIDE DEF e, Copied
    <2>6. /\ pte' \in PageTables
          /\ pte'[p][g] = e /\ pte'[c][g] = PageEntry(f, FALSE)
          /\ \A q \in Procs, h \in Pages :
               <<q, h>> # <<p, g>> /\ <<q, h>> # <<c, g>> => pte'[q][h] = pte[q][h]
      <3> DEFINE M == [pte EXCEPT ![p][g] = e]
                 k == PageEntry(f, FALSE)
      <3>1. pte' = [M EXCEPT ![c][g] = k]
        BY <2>1
      <3>2. /\ M \in PageTables
            /\ \A q \in Procs, h \in Pages : M[q][h] = IF q = p /\ h = g THEN e ELSE pte[q][h]
        BY <1>3, <2>3 DEF PageTables
      <3>3. k \in PageEntries /\ p # c
        BY <1>4, <2>4
      <3> HIDE DEF M, k, f
      <3>4. /\ pte' \in PageTables
            /\ \A q \in Procs, h \in Pages : pte'[q][h] = IF q = c /\ h = g THEN k ELSE M[q][h]
        BY <3>1, <3>2, <3>3 DEF PageTables
      <3>5. pte'[p][g] = e /\ pte'[c][g] = k
        BY <3>2, <3>3, <3>4
      <3>6. \A q \in Procs, h \in Pages :
               <<q, h>> # <<p, g>> /\ <<q, h>> # <<c, g>> => pte'[q][h] = pte[q][h]
        BY <3>2, <3>4
      <3> QED
        BY <3>4, <3>5, <3>6 DEF k
    <2>7. RefsInv'
      <3>0. PICK n \in Frames \cup {Zero} : n = f
        BY <2>2
      <3>1. pte'[c][g].frame = n
        BY <2>4, <2>6, <3>0
      <3>2. \A q \in Procs, h \in Pages : <<q, h>> # <<c, g>> => pte'[q][h].frame \in {pte[q][h].frame, Zero}
        BY <2>3, <2>6
      <3>3. refs' = Swapped(n, Zero)
        BY <2>1, <3>0
      <3>4. RefsInv /\ pte' \in PageTables /\ Zero = Zero
        BY <1>3, <2>6
      <3> HIDE DEF f
      <3> QED
        BY <3>1, <3>2, <3>3, <3>4, EntrySwapped
    <2>8. Sharing'
      <3>1. /\ pte'[p][g].frame = f /\ ~pte'[p][g].rw /\ pte'[c][g].frame = f /\ ~pte'[c][g].rw
        BY <2>3, <2>4, <2>6
      <3>2. \A q \in Procs, h \in Pages :
              \/ pte'[q][h].frame = f /\ ~pte'[q][h].rw
              \/ pte'[q][h] = pte[q][h] /\ <<q, h>> # <<p, g>>
        BY <2>6, <3>1
      <3>3. \A q \in Procs, h \in Pages :
              <<q, h>> # <<p, g>> /\ f \in Frames /\ pte[q][h].frame = f => ~pte[q][h].rw
        BY <1>3 DEF Sharing
      <3> SUFFICES ASSUME NEW q \in Procs, NEW r \in Procs, NEW h \in Pages, NEW i \in Pages,
                          <<q, h>> # <<r, i>>, pte'[q][h].frame \in Frames, pte'[r][i].frame = pte'[q][h].frame
                   PROVE  ~pte'[q][h].rw
        BY DEF Sharing
      <3>4. CASE pte'[q][h].frame = f
        BY <3>2, <3>3, <3>4
      <3>5. CASE pte'[q][h].frame # f
        <4>1. pte'[q][h] = pte[q][h] /\ pte'[r][i] = pte[r][i]
          BY <3>2, <3>5
        <4> QED
          BY <1>3, <4>1 DEF Sharing
      <3> QED
        BY <3>4, <3>5
    <2>9. PermInv'
      <3>1. \A q \in alive, h \in Pages :
              /\ pte'[q][h].present => pte[q][h].present
              /\ pte'[q][h].rw => pte[q][h].rw
        BY <1>3, <1>4, <2>3, <2>5, <2>6
      <3> QED
        BY <1>12, <3>1
    <2>10. ChildInv'
      <3>1. perm[p][g] # 0
        BY <1>3, <1>4, <1>11, <2>5 DEF PermInv
      <3>2. \A k \in Procs \ alive, h \in Pages :
              \/ k = c /\ h = g
              \/ pte'[k][h] = pte[k][h]
        BY <1>4, <2>6
      <3>3. ~pte'[c][g].rw
        BY <2>4, <2>6
      <3> QED
        BY <1>1, <1>2, <1>3, <1>4, <3>1, <3>2, <3>3 DEF ChildInv
    <2> QED
      BY <1>10, <2>7, <2>8, <2>9, <2>10 DEF Inv, TablesInv
  <1> QED
    BY <1>13, <1>14

-----------------------------------------------------------------------------
(* Every step keeps the invariant.                                         *)
LEMMA StepKeepsInv == Inv /\ [Next]_vars => Inv'
  <1> SUFFICES ASSUME Inv, [Next]_vars PROVE Inv'
    OBVIOUS
  <1>1. ASSUME NEW p \in Procs, NEW S \in Ranges \ {{}}, NEW q \in {1, 3}, Mmap(p, S, q)
        PROVE  Inv'
    BY <1>1, MmapKeepsInv
  <1>2. ASSUME NEW p \in Procs, NEW S \in Ranges \ {{}}, StartUnmap(p, S)
        PROVE  Inv'
    <2>1. S \in SUBSET Pages /\ 0 \in {0, 1, 3} \cup Procs /\ "munmap" \in Ops
      BY DEF Ranges, Pages, Ops
    <2> QED
      BY <1>2, <2>1, BeginKeepsInv DEF StartUnmap
  <1>3. ASSUME NEW p \in Procs, NEW S \in Ranges \ {{}}, NEW q \in Protections, StartProtect(p, S, q)
        PROVE  Inv'
    <2>1. S \in SUBSET Pages /\ q \in {1, 3} /\ q \in {0, 1, 3} \cup Procs /\ "mprotect" \in Ops
      BY LayoutAssumption DEF Ranges, Pages, Ops
    <2> QED
      BY <1>3, <2>1, BeginKeepsInv DEF StartProtect
  <1>4. ASSUME NEW p \in Procs, NEW child \in Procs, NEW S \in Ranges, StartFork(p, child, S)
        PROVE  Inv'
    <2>1. S \cup SegPages \in SUBSET Pages /\ child \in {0, 1, 3} \cup Procs /\ "cfork" \in Ops
      BY DEF Ranges, Pages, Ops
    <2> QED
      BY <1>4, <2>1, BeginKeepsInv DEF StartFork
  <1>5. ASSUME NEW p \in Procs, Exit(p) PROVE Inv'
    BY <1>5, EndingKeepsInv
  <1>6. ASSUME NEW p \in Procs, NEW access \in Loads \cup Stores, Access(p, access) PROVE Inv'
    BY <1>6, AccessKeepsInv
  <1>7. ASSUME NEW p \in Procs, AccessStep(p) PROVE Inv'
    <2>1. CASE Hit(p)
      BY <2>1, HitKeepsInv
    <2>2. CASE PageFaultRefused(p) \/ PageFaultNoFrame(p)
      BY <2>2, EndingKeepsInv
    <2>3. CASE PageFaultMaps(p)
      BY <2>3, MapsKeepsInv
    <2>4. CASE handle_cow_fault(p)
      BY <2>4, CowKeepsInv
    <2>5. CASE CowHalts(p)
      BY <2>5, HaltKeepsInv DEF CowHalts
    <2> QED
      BY <1>7, <2>1, <2>2, <2>3, <2>4, <2>5 DEF AccessStep, vm_area_pagefault
  <1>8. ASSUME CallStep PROVE Inv'
    <2>1. CASE freePFN
      BY <2>1, FreeKeepsInv
    <2>2. CASE updatePFN
      BY <2>2, ProtectKeepsInv
    <2>3. CASE FinishAreas
      BY <2>3, FinishAreasKeepsInv
    <2>4. CASE copyPageToChildProcess
      BY <2>4, CopyKeepsInv
    <2>5. CASE CopyHalts
      BY <2>5, HaltKeepsInv DEF CopyHalts
    <2>6. CASE FinishFork
      BY <2>6, FinishForkKeepsInv
    <2> QED
      BY <1>8, <2>1, <2>2, <2>3, <2>4, <2>5, <2>6 DEF CallStep
  <1>9. CASE UNCHANGED vars
    <2>1. UNCHANGED <<alive, perm, tables, refs, call>> /\ content' = content /\ want' = want
      BY <1>9 DEF vars, tables
    <2>2. RefsInv' /\ TablesInv' /\ CallInv'
      BY <2>1, SameTables
    <2> QED
      BY <2>1, <2>2 DEF Inv, TypeInv, tables
  <1> QED
    BY <1>1, <1>2, <1>3, <1>4, <1>5, <1>6, <1>7, <1>8, <1>9 DEF Next

LEMMA InvAlways == Spec => []Inv
  BY InitInv, StepKeepsInv, PTL DEF Spec

(* Every variable of the page tables, areas and calls keeps its type; no   *)
(* reference count goes below zero (put_pfn would halt the machine).       *)
THEOREM TypesKept == Spec => []TypeOK
  BY InvAlways, InvGives, PTL

(* No frame is freed while a page table entry names it: every frame has at *)
(* least as many references as entries (v2p.c: freePFN, updatePFN,         *)
(* copyPageToChildProcess, handle_cow_fault).                              *)
THEOREM CountsCoverMappings == Spec => []RefsCoverMappings
  BY InvAlways, InvGives, PTL

(* Two entries that name one frame are both write protected, so that a     *)
(* write to a shared frame always comes to handle_cow_fault.               *)
THEOREM SharedFramesProtected == Spec => []SharedReadOnly
  BY InvAlways, InvGives, PTL

(* Between calls the page tables grant no more than the areas do, whatever *)
(* munmap, mprotect, cfork and page faults came before.                    *)
THEOREM TablesKeepPermissions == Spec => []PermissionsKept
  BY InvAlways, InvGives, PTL

-----------------------------------------------------------------------------
(* Processes keep a private memory.                                        *)
(* Enough memory for a frame of its own for every page of every process,   *)
(* and one more for a copy; and no mprotect, which gives shared pages new  *)
(* frames and drops tables with entries in them                            *)
EnoughFrames ==
  /\ Protections = {}
  /\ IsFiniteSet(Frames) /\ Cardinality(Frames) > Cardinality(Procs) * Cardinality(Pages)
  /\ Zero \notin Values

(* An entry names a frame when it is reached, and only then.               *)
Solid ==
  \A p \in Procs, g \in Pages :
    IF pte[p][g].frame = Zero THEN ~pte[p][g].present ELSE Reached(p, g)

(* Every reference is that of an entry.                                    *)
NoLeaks == \A f \in Frames : refs[f] <= Cardinality(Places(pte, f))

(* A process that does not exist has no pages, but for the child being     *)
(* made, which shares them with its parent.                                *)
MakingInv ==
  /\ call # NoCall => call.op # "mprotect" /\ want[call.proc] = NoAccess
  /\ \A c \in Procs \ alive, g \in Pages :
       pte[c][g].frame # Zero =>
         /\ call # NoCall /\ call.op = "cfork" /\ call.arg = c
         /\ pte[c][g].frame = pte[call.proc][g].frame

PrivInv == Solid /\ NoLeaks /\ MakingInv
MemInv == EnoughFrames /\ Inv /\ PrivInv

-----------------------------------------------------------------------------
(* With every reference that of an entry, there is always a free frame.    *)
LEMMA FrameLeft ==
  ASSUME MemInv
  PROVE  FreeFrames # {}
  <1> SUFFICES ASSUME FreeFrames = {} PROVE FALSE
    OBVIOUS
  <1> DEFINE M == Procs \X Pages
             Names(m, f) == pte[m[1]][m[2]].frame = f
             owner == [f \in Frames |-> CHOOSE m \in M : Names(m, f)]
  <1>1. \A f \in Frames : refs[f] \in Nat /\ refs[f] # 0 /\ refs[f] <= Cardinality(Places(pte, f))
    BY RefsInvGives DEF MemInv, PrivInv, NoLeaks, Inv, FreeFrames
  <1>2. ASSUME NEW f \in Frames PROVE \E m \in M : Names(m, f)
    <2>1. Places(pte, f) # {}
      BY <1>1, FS_EmptySet
    <2> QED
      BY <2>1 DEF Places
  <1>3. \A f \in Frames : owner[f] \in M /\ Names(owner[f], f)
    BY <1>2
  <1> HIDE DEF owner
  <1>4. owner \in [Frames -> M] /\ \A f, h \in Frames : owner[f] = owner[h] => f = h
    <2>1. owner \in [Frames -> M]
      BY <1>3 DEF owner
    <2> QED
      BY <1>3, <2>1
  <1>5. IsFiniteSet(M) /\ Cardinality(M) = Cardinality(Procs) * Cardinality(Pages)
    BY LayoutAssumption, FS_Product
  <1>6. IsFiniteSet(Frames) /\ Cardinality(M) < Cardinality(Frames)
    <2>1. Cardinality(Frames) \in Nat /\ Cardinality(M) \in Nat
      BY <1>5, FS_CardinalityType DEF MemInv, EnoughFrames
    <2>2. Cardinality(Frames) > Cardinality(M)
      BY <1>5 DEF MemInv, EnoughFrames
    <2> QED
      BY <2>1, <2>2 DEF MemInv, EnoughFrames
  <1> QED
    BY <1>4, <1>5, <1>6, FS_PigeonHole

(* One entry comes to name another frame, and the counts follow.           *)
LEMMA SwappedLeaksNone ==
  ASSUME RefsInv, NoLeaks, NEW p \in Procs, NEW g \in Pages, NEW new, NEW old,
         pte'[p][g].frame = new, pte[p][g].frame = old, refs' = Swapped(new, old),
         \A q \in Procs, h \in Pages : <<q, h>> # <<p, g>> => pte'[q][h].frame = pte[q][h].frame
  PROVE  NoLeaks'
  <1> SUFFICES ASSUME NEW f \in Frames PROVE refs'[f] <= Cardinality(Places(pte', f))
    BY DEF NoLeaks
  <1> DEFINE before == Cardinality(Places(pte, f))
             after == Cardinality(Places(pte', f))
             m == <<p, g>>
  <1>1. before \in Nat /\ after \in Nat /\ refs[f] \in Int /\ refs[f] <= before
    BY PlacesFinite DEF RefsInv, Covered, NoLeaks
  <1>2. refs'[f] = refs[f] + (IF f = new THEN 1 ELSE 0) - (IF f = old THEN 1 ELSE 0)
    BY DEF Swapped
  <1>3. Places(pte, f) \ {m} \subseteq Places(pte', f)
    BY DEF Places
  <1>4. (f = new <=> m \in Places(pte', f)) /\ (f = old <=> m \in Places(pte, f))
    BY DEF Places
  <1>5. f = new /\ f # old => before <= after - 1
    <2> SUFFICES ASSUME f = new, f # old PROVE before <= after - 1
      OBVIOUS
    <2>1. m \in Places(pte', f) /\ Places(pte, f) \subseteq Places(pte', f) \ {m}
      BY <1>3, <1>4
    <2> HIDE DEF m
    <2> QED
      BY <2>1, OnePlaceLess
  <1>6. f # new /\ f = old => before <= after + 1
    <2> SUFFICES ASSUME f # new, f = old PROVE before <= after + 1
      OBVIOUS
    <2>1. Places(pte, f) \subseteq Places(pte', f) \cup {m}
      BY <1>3
    <2> HIDE DEF m
    <2> QED
      BY <2>1, OnePlaceMore
  <1>7. (f = new <=> f = old) => before <= after
    <2> SUFFICES ASSUME f = new <=> f = old PROVE before <= after
      OBVIOUS
    <2>1. Places(pte, f) \subseteq Places(pte', f)
      BY <1>3, <1>4
    <2> QED
      BY <2>1, FewerPlaces
  <1> HIDE DEF before, after, m
  <1> QED
    BY <1>1, <1>2, <1>5, <1>6, <1>7 DEF after

(* A process that goes takes its references along.                         *)
LEMMA GoneLeaksNone ==
  ASSUME RefsInv, NoLeaks, NEW p \in Procs, Gone(p, pte[p])
  PROVE  NoLeaks'
  <1> SUFFICES ASSUME NEW f \in Frames PROVE refs'[f] <= Cardinality(Places(pte', f))
    BY DEF NoLeaks
  <1> DEFINE A == {g \in Pages : pte[p][g].frame = f}
             B == {p} \X A
             M == Places(pte, f)
  <1>1. IsFiniteSet(A) /\ Cardinality(A) \in Nat
    BY LayoutAssumption, FS_Subset, FS_CardinalityType
  <1>2. IsFiniteSet(B) /\ Cardinality(B) = Cardinality(A)
    <2>1. IsFiniteSet({p}) /\ Cardinality({p}) = 1
      BY FS_Singleton
    <2>2. IsFiniteSet(B) /\ Cardinality(B) = Cardinality({p}) * Cardinality(A)
      BY <1>1, <2>1, FS_Product
    <2> QED
      BY <1>1, <2>1, <2>2
  <1>3. B \subseteq M
    BY DEF Places
  <1>4. \A q \in Procs, h \in Pages : q # p => pte'[q][h] = pte[q][h]
    BY DEF Gone, RefsInv, PageTables
  <1>5. M \ B \subseteq Places(pte', f)
    <2> SUFFICES ASSUME NEW m \in M, m \notin B PROVE m \in Places(pte', f)
      OBVIOUS
    <2>1. PICK q \in Procs, h \in Pages : m = <<q, h>>
      BY DEF Places
    <2>2. pte[q][h].frame = f
      BY <2>1 DEF Places
    <2>3. q # p
      BY <2>1, <2>2
    <2>4. pte'[q][h].frame = f
      BY <1>4, <2>2, <2>3
    <2> HIDE DEF B, M
    <2> QED
      BY <2>1, <2>4 DEF Places
  <1>6. IsFiniteSet(M) /\ Cardinality(M) \in Nat /\ refs[f] <= Cardinality(M) /\ refs[f] \in Int
    BY PlacesFinite DEF RefsInv, Covered, NoLeaks
  <1>7. refs'[f] = refs[f] - Cardinality(A)
    BY DEF Gone
  <1> HIDE DEF A, B, M
  <1>8. IsFiniteSet(M \ B) /\ Cardinality(M \ B) = Cardinality(M) - Cardinality(B)
    <2>1. M \cap B = B
      BY <1>3
    <2> QED
      BY <1>6, <2>1, FS_Difference
  <1>9. IsFiniteSet(Places(pte', f)) /\ Cardinality(Places(pte', f)) \in Nat
    BY PlacesFinite
  <1>10. Cardinality(M \ B) <= Cardinality(Places(pte', f))
    BY <1>5, <1>9, FS_Subset
  <1> QED
    BY <1>1, <1>2, <1>6, <1>7, <1>8, <1>9, <1>10

-----------------------------------------------------------------------------
(* What processes see of their memory                                      *)
LEMMA SeenAt ==
  ASSUME Solid, NEW p \in Procs, NEW g \in Pages
  PROVE  Seen[p][g] = IF p \in alive /\ pte[p][g].frame # Zero THEN content[pte[p][g].frame] ELSE Zero
  BY DEF Seen, Solid, Reached

(* And what they see after a step                                          *)
LEMMA SeenNext ==
  ASSUME Solid', NEW p \in Procs, NEW g \in Pages
  PROVE  Seen'[p][g] = IF p \in alive' /\ pte'[p][g].frame # Zero
                       THEN content'[pte'[p][g].frame] ELSE Zero
  BY DEF Seen, Solid, Reached

(* What processes see is a value for every page of every process.          *)
LEMMA SeenAll ==
  /\ Seen = [p \in Procs |-> [g \in Pages |-> Seen[p][g]]]
  /\ Seen' = [p \in Procs |-> [g \in Pages |-> Seen'[p][g]]]
  BY DEF Seen

(* Two such views are the same if they are so for each page.               *)
LEMMA SeenEqual ==
  ASSUME \A p \in Procs, g \in Pages : Seen'[p][g] = Seen[p][g]
  PROVE  Seen' = Seen
  <1>1. \A p \in Procs : [g \in Pages |-> Seen'[p][g]] = [g \in Pages |-> Seen[p][g]]
    OBVIOUS
  <1>2. [p \in Procs |-> [g \in Pages |-> Seen'[p][g]]] = [p \in Procs |-> [g \in Pages |-> Seen[p][g]]]
    BY <1>1
  <1> QED
    BY <1>2, SeenAll, Zenon

(* A process sees the same as before while its entries name frames with    *)
(* the same contents.                                                      *)
LEMMA SeenStays ==
  ASSUME Solid, Solid',
         \A p \in Procs, g \in Pages :
           (p \in alive' /\ pte'[p][g].frame # Zero) <=> (p \in alive /\ pte[p][g].frame # Zero),
         \A p \in alive, g \in Pages :
           pte[p][g].frame # Zero => content'[pte'[p][g].frame] = content[pte[p][g].frame]
  PROVE  Seen' = Seen
  <1> SUFFICES ASSUME NEW p \in Procs, NEW g \in Pages PROVE Seen'[p][g] = Seen[p][g]
    BY SeenEqual
  <1> QED
    BY SeenAt, SeenNext

(* One page of one process changes.                                        *)
LEMMA SeenChanged ==
  ASSUME NEW p \in Procs, NEW g \in Pages, NEW v, Seen'[p][g] = v,
         \A q \in Procs, h \in Pages : <<q, h>> # <<p, g>> => Seen'[q][h] = Seen[q][h]
  PROVE  Seen' = [Seen EXCEPT ![p][g] = v]
  <1> DEFINE row == [Seen[p] EXCEPT ![g] = v]
  <1>1. \A q \in Procs : Seen[q] = [h \in Pages |-> Seen[q][h]] /\ Seen'[q] = [h \in Pages |-> Seen'[q][h]]
    BY DEF Seen
  <1>2. row = [h \in Pages |-> Seen'[p][h]]
    <2>1. row = [h \in Pages |-> IF h = g THEN v ELSE Seen[p][h]]
      BY <1>1
    <2>2. \A h \in Pages : (IF h = g THEN v ELSE Seen[p][h]) = Seen'[p][h]
      OBVIOUS
    <2> HIDE DEF row
    <2> QED
      BY <2>1, <2>2
  <1>3. row = Seen'[p]
    BY <1>1, <1>2
  <1>4. \A q \in Procs : q # p => Seen'[q] = Seen[q]
    <2> SUFFICES ASSUME NEW q \in Procs, q # p PROVE Seen'[q] = Seen[q]
      OBVIOUS
    <2>1. \A h \in Pages : Seen'[q][h] = Seen[q][h]
      OBVIOUS
    <2>2. [h \in Pages |-> Seen'[q][h]] = [h \in Pages |-> Seen[q][h]]
      BY <2>1
    <2> QED
      BY <1>1, <2>2
  <1>5. [Seen EXCEPT ![p][g] = v] = [Seen EXCEPT ![p] = row]
    OBVIOUS
  <1> HIDE DEF row
  <1>6. DOMAIN Seen = Procs /\ DOMAIN Seen' = Procs /\ Seen = [q \in Procs |-> Seen[q]]
        /\ Seen' = [q \in Procs |-> Seen'[q]]
    BY DEF Seen
  <1>7. [Seen EXCEPT ![p] = row] = [q \in Procs |-> IF q = p THEN row ELSE Seen[q]]
    BY <1>6
  <1>8. \A q \in Procs : (IF q = p THEN row ELSE Seen[q]) = Seen'[q]
    BY <1>3, <1>4
  <1> QED
    BY <1>5, <1>6, <1>7, <1>8

-----------------------------------------------------------------------------
(* Steps that leave tables and frames alone                                *)
LEMMA QuietStep ==
  ASSUME MemInv, UNCHANGED <<alive, tables, refs, content>>, MakingInv'
  PROVE  PrivInv' /\ Seen' = Seen
  <1>1. alive' = alive /\ pte' = pte /\ tab' = tab /\ dir' = dir /\ refs' = refs /\ content' = content
    BY DEF tables
  <1>2. Solid' /\ NoLeaks'
    BY <1>1 DEF MemInv, PrivInv, Solid, NoLeaks, Reached, Places
  <1>3. Seen' = Seen
    BY <1>1 DEF Seen, Reached
  <1> QED
    BY <1>2, <1>3 DEF PrivInv

Step == PrivInv' /\ [Abstract!Next]_(Abstract!vars)

(* mmap, and the start of munmap and cfork                                 *)
LEMMA StartPrivate ==
  ASSUME MemInv, NEW p \in Procs
  PROVE  /\ \A S, q : Mmap(p, S, q) => Step
         /\ \A S : StartUnmap(p, S) => Step
         /\ \A child, S : StartFork(p, child, S) => Step
  <1>1. ASSUME NEW S, NEW q, Mmap(p, S, q) PROVE Step
    <2>1. UNCHANGED <<alive, tables, refs, content>> /\ want' = want /\ call' = call /\ pte' = pte
      BY <1>1 DEF Mmap, tables
    <2>2. MakingInv'
      BY <2>1 DEF MemInv, PrivInv, MakingInv
    <2> QED
      BY <2>1, <2>2, QuietStep DEF Step, Abstract!vars
  <1>2. ASSUME NEW op, NEW todo, NEW arg, op # "mprotect", Begin(p, op, todo, arg),
               UNCHANGED <<alive, perm, tables, refs, content, want>>
        PROVE  Step
    <2>1. /\ UNCHANGED <<alive, tables, refs, content>> /\ want' = want /\ pte' = pte /\ alive' = alive
          /\ call = NoCall /\ want[p] = NoAccess
          /\ call' = [op |-> op, proc |-> p, pages |-> todo, todo |-> todo, arg |-> arg]
      BY <1>2 DEF Begin, Running, tables
    <2>2. call'.op = op /\ call'.proc = p
      BY <2>1
    <2>3. MakingInv'
      BY <1>2, <2>1, <2>2 DEF MemInv, PrivInv, MakingInv
    <2> QED
      BY <2>1, <2>3, QuietStep DEF Step, Abstract!vars
  <1>3. \A S : StartUnmap(p, S) => Step
    BY <1>2 DEF StartUnmap
  <1>4. \A child, S : StartFork(p, child, S) => Step
    BY <1>2 DEF StartFork
  <1> QED
    BY <1>1, <1>3, <1>4

(* The end of a munmap                                                     *)
LEMMA FinishAreasPrivate ==
  ASSUME MemInv, FinishAreas
  PROVE  Step
  <1>1. /\ UNCHANGED <<alive, tables, refs, content>> /\ want' = want /\ pte' = pte /\ alive' = alive
        /\ call' = NoCall /\ call.op # "cfork"
    BY DEF FinishAreas, Done, tables
  <1>2. MakingInv'
    BY <1>1 DEF MemInv, PrivInv, MakingInv
  <1> QED
    BY <1>1, <1>2, QuietStep DEF Step, Abstract!vars

(* A process comes to access its memory.                                   *)
LEMMA AccessPrivate ==
  ASSUME MemInv, NEW p \in Procs, NEW access \in Loads \cup Stores, Access(p, access)
  PROVE  Step
  <1>1. /\ UNCHANGED <<alive, tables, refs, content>> /\ pte' = pte /\ alive' = alive
        /\ want' = [want EXCEPT ![p] = access] /\ want[p] = NoAccess /\ call = NoCall /\ call' = call
    BY DEF Access, Running, tables
  <1>2. MakingInv'
    BY <1>1 DEF MemInv, PrivInv, MakingInv
  <1>3. PrivInv' /\ Seen' = Seen
    BY <1>1, <1>2, QuietStep
  <1>4. Abstract!Ask(p, access)
    BY <1>1, <1>3 DEF Abstract!Ask
  <1> QED
    BY <1>3, <1>4 DEF Step, Abstract!Next

(* A named frame is one with contents.                                     *)
LEMMA NamedFrame ==
  ASSUME MemInv, NEW p \in Procs, NEW g \in Pages
  PROVE  /\ pte[p][g].frame \in Frames \cup {Zero}
         /\ pte[p][g].frame # Zero => Reached(p, g) /\ content[pte[p][g].frame] \in Values
         /\ Reached(p, g) => pte[p][g].frame # Zero
  <1>1. pte[p][g].frame \in Frames \cup {Zero}
    BY DEF MemInv, Inv, RefsInv, PageTables, PageEntries
  <1>2. content \in [Frames \cup {Zero} -> Values]
    BY DEF MemInv, Inv, TypeInv
  <1>3. pte[p][g].frame # Zero <=> Reached(p, g)
    BY DEF MemInv, PrivInv, Solid, Reached
  <1> QED
    BY <1>1, <1>2, <1>3

(* What the processor does once the page tables allow it                   *)
LEMMA HitPrivate ==
  ASSUME MemInv, NEW p \in Procs, Hit(p)
  PROVE  Step
  <1>1. /\ alive' = alive /\ pte' = pte /\ tab' = tab /\ dir' = dir /\ refs' = refs /\ call' = call
        /\ want' = [want EXCEPT ![p] = NoAccess]
        /\ call = NoCall /\ p \in alive /\ want[p] # NoAccess /\ Allowed(p)
    BY DEF Hit, Pending, tables
  <1>2. want[p] \in Loads \cup Stores
    BY <1>1 DEF MemInv, Inv, TypeInv
  <1>3. PICK g \in Pages : g = want[p].page
    BY <1>2 DEF Loads, Stores
  <1>4. /\ Writes(p) => want[p] \in Stores /\ want[p].value \in Values
        /\ ~Writes(p) => want[p] \notin Stores
    BY <1>2 DEF Writes, Loads, Stores
  <1>5. PrivInv'
    <2>1. Solid' /\ NoLeaks'
      BY <1>1 DEF MemInv, PrivInv, Solid, NoLeaks, Reached, Places
    <2>2. MakingInv'
      BY <1>1 DEF MemInv, PrivInv, MakingInv
    <2> QED
      BY <2>1, <2>2 DEF PrivInv
  <1>6. Solid /\ Solid'
    BY <1>5 DEF MemInv, PrivInv
  <1> DEFINE f == pte[p][g].frame
  <1>7. Reached(p, g) /\ (Writes(p) => pte[p][g].rw)
    BY <1>1, <1>3 DEF Allowed, Writable
  <1>8. f \in Frames /\ f # Zero /\ content[f] \in Values
    BY <1>7, NamedFrame
  <1>9. Seen[p][g] = content[f] /\ Seen[p][g] # Zero
    BY <1>1, <1>6, <1>8, SeenAt DEF MemInv, EnoughFrames
  <1>10. CASE ~Writes(p)
    <2>1. content' = content
      BY <1>10 DEF Hit
    <2>2. Seen' = Seen
      BY <1>1, <2>1 DEF Seen, Reached
    <2>3. Abstract!Perform(p)
      BY <1>1, <1>3, <1>4, <1>9, <1>10, <2>2 DEF Abstract!Perform
    <2> QED
      BY <1>5, <2>3 DEF Step, Abstract!Next
  <1>11. CASE Writes(p)
    <2> DEFINE v == want[p].value
    <2>1. content' = [content EXCEPT ![f] = v]
      BY <1>3, <1>11 DEF Hit
    <2>2. content \in [Frames \cup {Zero} -> Values]
      BY DEF MemInv, Inv, TypeInv
    <2>3. content'[f] = v /\ \A x \in Frames \cup {Zero} : x # f => content'[x] = content[x]
      BY <1>8, <2>1, <2>2
    <2>4. \A q \in Procs, h \in Pages : <<q, h>> # <<p, g>> => pte[q][h].frame # f
      BY <1>7, <1>8, <1>11 DEF MemInv, Inv, TablesInv, Sharing
    <2> HIDE DEF v, f
    <2>5. Seen'[p][g] = v
      BY <1>1, <1>6, <1>8, <2>3, SeenNext DEF f
    <2>6. ASSUME NEW q \in Procs, NEW h \in Pages, <<q, h>> # <<p, g>>
          PROVE  Seen'[q][h] = Seen[q][h]
      <3>1. pte[q][h].frame # f /\ pte[q][h].frame \in Frames \cup {Zero}
        BY <2>4, <2>6, NamedFrame
      <3>2. content'[pte[q][h].frame] = content[pte[q][h].frame]
        BY <2>3, <3>1
      <3> QED
        BY <1>1, <1>6, <3>2, SeenAt, SeenNext
    <2>7. Seen' = [Seen EXCEPT ![p][g] = v]
      BY <2>5, <2>6, SeenChanged
    <2>8. Abstract!Perform(p)
      BY <1>1, <1>3, <1>4, <1>9, <1>11, <2>7 DEF Abstract!Perform, v
    <2> QED
      BY <1>5, <2>8 DEF Step, Abstract!Next
  <1> QED
    BY <1>10, <1>11

(* A process ends, on its own or because of an access that is refused.     *)
LEMMA GonePrivate ==
  ASSUME MemInv, NEW p \in Procs, call = NoCall, Gone(p, pte[p])
  PROVE  Step
  <1>1. /\ alive' = alive \ {p} /\ content' = content /\ call' = call
        /\ pte' = [pte EXCEPT ![p] = [g \in Pages |-> NoPage]]
        /\ tab' = [tab EXCEPT ![p] = [t \in Tables |-> NoEntry]]
        /\ dir' = [dir EXCEPT ![p] = [d \in Dirs |-> NoEntry]]
        /\ want' = [want EXCEPT ![p] = NoAccess]
    BY DEF Gone
  <1>2. NoPage.frame = Zero /\ ~NoPage.present
    BY DEF NoPage
  <1>3. /\ \A h \in Pages : pte'[p][h] = NoPage
        /\ \A q \in Procs : q # p => pte'[q] = pte[q] /\ tab'[q] = tab[q] /\ dir'[q] = dir[q]
    BY <1>1 DEF MemInv, Inv, TypeInv, RefsInv, PageTables
  <1>4. Solid'
    BY <1>2, <1>3 DEF MemInv, PrivInv, Solid, Reached
  <1>5. NoLeaks'
    BY GoneLeaksNone DEF MemInv, PrivInv, Inv
  <1>6. MakingInv'
    BY <1>1, <1>2, <1>3 DEF MemInv, PrivInv, MakingInv
  <1>7. Solid
    BY DEF MemInv, PrivInv
  <1>8. ASSUME NEW q \in Procs, q # p PROVE Seen'[q] = Seen[q]
    <2>1. ASSUME NEW h \in Pages PROVE Seen'[q][h] = Seen[q][h]
      BY <1>1, <1>3, <1>4, <1>7, <1>8, SeenAt, SeenNext
    <2>2. [h \in Pages |-> Seen'[q][h]] = [h \in Pages |-> Seen[q][h]]
      BY <2>1
    <2> QED
      BY <2>2 DEF Seen
  <1>9. Seen'[p] = Abstract!Empty
    <2>1. \A h \in Pages : Seen'[p][h] = Zero
      BY <1>1, <1>4, SeenNext
    <2>2. [h \in Pages |-> Seen'[p][h]] = [h \in Pages |-> Zero]
      BY <2>1
    <2> QED
      BY <2>2 DEF Seen, Abstract!Empty
  <1>10. Seen' = [Seen EXCEPT ![p] = Abstract!Empty]
    <2>1. Seen = [q \in Procs |-> Seen[q]] /\ Seen' = [q \in Procs |-> Seen'[q]]
      BY DEF Seen
    <2> QED
      BY <1>8, <1>9, <2>1
  <1> QED
    BY <1>1, <1>4, <1>5, <1>6, <1>10 DEF Step, PrivInv, Abstract!Next, Abstract!Exit

(* The ways a process ends                                                 *)
LEMMA EndingPrivate ==
  ASSUME MemInv, NEW p \in Procs, Exit(p) \/ PageFaultRefused(p) \/ PageFaultNoFrame(p)
  PROVE  Step
  <1>1. ~PageFaultNoFrame(p)
    BY FrameLeft DEF PageFaultNoFrame
  <1>2. call = NoCall /\ Gone(p, pte[p])
    BY <1>1 DEF Exit, PageFaultRefused, Running, Faults, Pending
  <1> QED
    BY <1>2, GonePrivate

(* With frames left no entry names frame 0, and the machine does not halt. *)
LEMMA NoHalt ==
  ASSUME MemInv
  PROVE  ~CopyHalts /\ \A p \in Procs : ~CowHalts(p)
  <1>1. ~CopyHalts
    <2> SUFFICES ASSUME CopyHalts PROVE FALSE
      OBVIOUS
    <2>1. call.proc \in Procs /\ At \in Pages
      BY AtFacts DEF CopyHalts, MemInv, Inv, TypeInv
    <2> QED
      BY <2>1, NamedFrame DEF CopyHalts
  <1>2. ASSUME NEW p \in Procs PROVE ~CowHalts(p)
    <2> SUFFICES ASSUME CowHalts(p) PROVE FALSE
      OBVIOUS
    <2>1. want[p].page \in Pages
      BY DEF CowHalts, CopyNeeded, Faults, Pending, MemInv, Inv, TypeInv, Loads, Stores
    <2> QED
      BY <2>1, NamedFrame DEF CowHalts, CopyNeeded
  <1> QED
    BY <1>1, <1>2

(* What the levels above page g are made to be on a page fault reaches     *)
(* every page that was reached, and page g.                                *)
LEMMA LevelsReach ==
  ASSUME MemInv, NEW p \in Procs, NEW g \in Pages, NEW w, NEW h \in Pages,
         h = g \/ pte[p][h].frame # Zero
  PROVE  /\ DirsFor(p, g, w)[DirOf(h)].present /\ TablesFor(p, g, w)[Table[h]].present
         /\ EntriesFor(p, g)[h].frame = pte[p][h].frame \/ h = g
  <1>1. Table[h] \in Tables /\ DirOf(h) \in Dirs /\ DirOf(g) \in Dirs /\ dir[p] \in [Dirs -> Entries]
    BY UpperEntries DEF MemInv, Inv, TypeInv
  <1>2. Entry(w).present
    BY DEF Entry
  <1>3. CASE h = g
    BY <1>1, <1>2, <1>3 DEF DirsFor, TablesFor, NewDir, NewTable
  <1>4. CASE h # g
    <2>1. Reached(p, h)
      BY <1>4, NamedFrame
    <2>2. dir[p][DirOf(h)].present /\ tab[p][Table[h]].present
      BY <2>1 DEF Reached
    <2>3. NewDir(p, g) => DirOf(h) # DirOf(g)
      BY <2>2 DEF NewDir
    <2>4. NewTable(p, g) => Table[h] # Table[g]
      BY <2>2 DEF NewTable, NewDir, DirOf
    <2>5. DirsFor(p, g, w)[DirOf(h)].present
      BY <1>1, <2>2, <2>3 DEF DirsFor
    <2>6. TablesFor(p, g, w)[Table[h]].present
      BY <1>1, <2>2, <2>3, <2>4 DEF TablesFor, DirOf
    <2>7. EntriesFor(p, g)[h] = pte[p][h]
      BY <2>3, <2>4 DEF EntriesFor
    <2> QED
      BY <2>5, <2>6, <2>7
  <1> QED
    BY <1>3, <1>4

(* A page fault maps a free frame; what the process sees in the page is    *)
(* what the frame held.                                                    *)
LEMMA MapsPrivate ==
  ASSUME MemInv, NEW p \in Procs, PageFaultMaps(p)
  PROVE  Step
  <1>1. want[p].page \in Pages
    BY DEF PageFaultMaps, Faults, Pending, MemInv, Inv, TypeInv, Loads, Stores
  <1>2. PICK g \in Pages : g = want[p].page
    BY <1>1
  <1> DEFINE w == perm[p][g] = 3
             E == EntriesFor(p, g)
             U == TablesFor(p, g, w)
             L == DirsFor(p, g, w)
  <1>3. /\ call = NoCall /\ p \in alive /\ want[p] # NoAccess /\ ~Reached(p, g)
        /\ alive' = alive /\ content' = content /\ want' = want /\ call' = call
        /\ tab' = [tab EXCEPT ![p] = U] /\ dir' = [dir EXCEPT ![p] = L]
    BY <1>2 DEF PageFaultMaps, Faults, Pending
  <1>4. PICK f \in FreeFrames :
          /\ pte' = [pte EXCEPT ![p] = [E EXCEPT ![g] = PageEntry(f, w)]]
          /\ refs' = Swapped(f, Zero)
    BY <1>2 DEF PageFaultMaps
  <1>5. /\ Inv /\ Solid /\ NoLeaks /\ MakingInv /\ RefsInv /\ pte \in PageTables
        /\ f \in Frames /\ f # Zero
    BY LayoutAssumption DEF MemInv, PrivInv, Inv, RefsInv, FreeFrames
  <1>6. PageEntry(f, w).frame = f /\ PageEntry(f, w).present
    BY DEF PageEntry
  <1>7. NoPage.frame = Zero /\ ~NoPage.present
    BY DEF NoPage
  <1>8. DOMAIN E = Pages /\ \A h \in Pages : E[h] = NoPage \/ E[h] = pte[p][h]
    BY DEF EntriesFor
  <1>9. \A h \in Pages : h = g \/ pte[p][h].frame # Zero =>
          /\ L[DirOf(h)].present /\ U[Table[h]].present
          /\ E[h].frame = pte[p][h].frame \/ h = g
    BY LevelsReach
  <1> HIDE DEF E, U, L
  <1>10. \A q \in Procs, h \in Pages :
           pte'[q][h] = IF q = p THEN IF h = g THEN PageEntry(f, w) ELSE E[h] ELSE pte[q][h]
    BY <1>4, <1>5, <1>8 DEF PageTables
  <1>11. /\ tab'[p] = U /\ dir'[p] = L
         /\ \A q \in Procs : q # p => tab'[q] = tab[q] /\ dir'[q] = dir[q]
    BY <1>3 DEF MemInv, Inv, TypeInv
  <1>12. pte[p][g].frame = Zero
    BY <1>3, NamedFrame
  <1>13. \A q \in Procs, h \in Pages : <<q, h>> # <<p, g>> => pte'[q][h].frame = pte[q][h].frame
    BY <1>7, <1>8, <1>9, <1>10
  <1>14. pte'[p][g].frame = f /\ pte'[p][g].present
    BY <1>2, <1>6, <1>10
  <1>15. Solid'
    <2> SUFFICES ASSUME NEW q \in Procs, NEW h \in Pages
                 PROVE  IF pte'[q][h].frame = Zero THEN ~pte'[q][h].present ELSE Reached(q, h)'
      BY DEF Solid
    <2>1. CASE q # p
      <3>1. pte'[q][h] = pte[q][h] /\ (Reached(q, h)' <=> Reached(q, h))
        BY <1>10, <1>11, <2>1 DEF Reached
      <3> QED
        BY <1>5, <3>1 DEF Solid
    <2>2. CASE q = p /\ h = g
      BY <1>5, <1>9, <1>11, <1>14, <2>2 DEF Reached
    <2>3. CASE q = p /\ h # g
      <3>1. pte'[q][h] = E[h] /\ pte'[q][h].frame = pte[q][h].frame
        BY <1>10, <1>13, <2>3
      <3>2. CASE pte[q][h].frame = Zero
        <4>1. ~pte[q][h].present
          BY <1>5, <3>2 DEF Solid
        <4>2. ~pte'[q][h].present
          BY <1>7, <1>8, <2>3, <3>1, <4>1
        <4> QED
          BY <3>1, <3>2, <4>2
      <3>3. CASE pte[q][h].frame # Zero
        <4>1. pte[q][h].present
          BY <3>3, NamedFrame DEF Reached
        <4>2. pte'[q][h].present
          BY <1>7, <1>8, <2>3, <3>1, <3>3, <4>1
        <4> QED
          BY <1>9, <1>11, <2>3, <3>1, <3>3, <4>2 DEF Reached
      <3> QED
        BY <3>2, <3>3
    <2> QED
      BY <2>1, <2>2, <2>3
  <1>16. NoLeaks'
    BY <1>4, <1>5, <1>12, <1>13, <1>14, SwappedLeaksNone
  <1>17. MakingInv'
    BY <1>3, <1>5, <1>13 DEF MakingInv
  <1>18. content[f] \in Values
    BY <1>5 DEF Inv, TypeInv
  <1>19. Seen[p][g] = Zero /\ Seen'[p][g] = content[f]
    BY <1>3, <1>5, <1>12, <1>14, <1>15, SeenAt, SeenNext
  <1>20. \A q \in Procs, h \in Pages : <<q, h>> # <<p, g>> => Seen'[q][h] = Seen[q][h]
    BY <1>3, <1>5, <1>13, <1>15, SeenAt, SeenNext
  <1>21. Seen' = [Seen EXCEPT ![p][g] = content[f]]
    BY <1>19, <1>20, SeenChanged
  <1>22. Abstract!Fill(p, content[f])
    BY <1>2, <1>3, <1>19, <1>21 DEF Abstract!Fill
  <1> QED
    BY <1>15, <1>16, <1>17, <1>18, <1>22 DEF Step, PrivInv, Abstract!Next

(* A write to a shared frame: the process gets a copy and sees the same.   *)
LEMMA CowPrivate ==
  ASSUME MemInv, NEW p \in Procs, handle_cow_fault(p)
  PROVE  Step
  <1>1. want[p].page \in Pages
    BY DEF handle_cow_fault, CopyNeeded, Faults, Pending, MemInv, Inv, TypeInv, Loads, Stores
  <1>2. PICK g \in Pages : g = want[p].page
    BY <1>1
  <1> DEFINE old == pte[p][g].frame
  <1>3. /\ call = NoCall /\ SetUpperRW(p, g) /\ Reached(p, g)
        /\ alive' = alive /\ want' = want /\ call' = call
    BY <1>2 DEF handle_cow_fault, CopyNeeded, Faults, Pending
  <1>4. PICK new \in Frames \cup {Zero} :
          /\ Allocated(new) /\ old # Zero
          /\ content' = [content EXCEPT ![new] = content[old]]
          /\ pte' = [pte EXCEPT ![p][g] = PageEntry(new, TRUE)]
          /\ refs' = Swapped(new, old)
    BY <1>2 DEF handle_cow_fault
  <1>5. /\ Inv /\ TypeInv /\ Solid /\ NoLeaks /\ MakingInv /\ RefsInv /\ pte \in PageTables
        /\ content \in [Frames \cup {Zero} -> Values]
    BY DEF MemInv, PrivInv, Inv, RefsInv, TypeInv
  <1>6. new \in FreeFrames /\ new \in Frames /\ new # Zero
    BY <1>4, FrameLeft, LayoutAssumption DEF Allocated, FreeFrames
  <1>7. PageEntry(new, TRUE).frame = new /\ PageEntry(new, TRUE).present
    BY DEF PageEntry
  <1>8. \A q \in Procs, h \in Pages : pte[q][h].frame # new
    BY <1>5, <1>6, FreeFrameUnnamed
  <1>9. /\ pte'[p][g].frame = new /\ pte'[p][g].present
        /\ \A q \in Procs, h \in Pages : <<q, h>> # <<p, g>> => pte'[q][h] = pte[q][h]
    BY <1>4, <1>5, <1>7 DEF PageTables
  <1>10. /\ \A q \in Procs, t \in Tables : tab'[q][t].present = tab[q][t].present
         /\ \A q \in Procs, d \in Dirs : dir'[q][d].present = dir[q][d].present
    BY <1>3, <1>5, UpperFacts
  <1>11. Solid'
    <2> SUFFICES ASSUME NEW q \in Procs, NEW h \in Pages
                 PROVE  IF pte'[q][h].frame = Zero THEN ~pte'[q][h].present ELSE Reached(q, h)'
      BY DEF Solid
    <2>1. Table[h] \in Tables /\ DirOf(h) \in Dirs /\ DirOf(h)' = DirOf(h)
      BY UpperEntries DEF DirOf
    <2>2. Reached(q, h)' <=> dir[q][DirOf(h)].present /\ tab[q][Table[h]].present /\ pte'[q][h].present
      BY <1>10, <2>1 DEF Reached, DirOf
    <2>3. CASE <<q, h>> = <<p, g>>
      BY <1>3, <1>6, <1>9, <2>2, <2>3 DEF Reached
    <2>4. CASE <<q, h>> # <<p, g>>
      BY <1>5, <1>9, <2>2, <2>4 DEF Solid, Reached
    <2> QED
      BY <2>3, <2>4
  <1>12. NoLeaks'
    <2>1. \A q \in Procs, h \in Pages : <<q, h>> # <<p, g>> => pte'[q][h].frame = pte[q][h].frame
      BY <1>9
    <2>2. refs' = Swapped(new, pte[p][g].frame) /\ pte[p][g].frame = pte[p][g].frame
      BY <1>4
    <2> QED
      BY <1>5, <1>9, <2>1, <2>2, SwappedLeaksNone
  <1>13. MakingInv'
    <2>1. p \in alive
      BY <1>2 DEF handle_cow_fault, CopyNeeded, Faults, Pending
    <2>2. \A c \in Procs \ alive, h \in Pages : pte[c][h].frame = Zero
      BY <1>3, <1>5 DEF MakingInv
    <2>3. \A c \in Procs \ alive, h \in Pages : pte'[c][h] = pte[c][h]
      BY <1>9, <2>1
    <2> QED
      BY <1>3, <2>2, <2>3 DEF MakingInv
  <1>14. content'[new] = content[old] /\ \A x \in Frames \cup {Zero} : x # new => content'[x] = content[x]
    BY <1>4, <1>5, <1>6
  <1>15. Seen' = Seen
    <2>1. \A q \in Procs, h \in Pages :
            (q \in alive' /\ pte'[q][h].frame # Zero) <=> (q \in alive /\ pte[q][h].frame # Zero)
      BY <1>3, <1>4, <1>6, <1>9
    <2>2. ASSUME NEW q \in alive, NEW h \in Pages, pte[q][h].frame # Zero
          PROVE  content'[pte'[q][h].frame] = content[pte[q][h].frame]
      <3>1. q \in Procs
        BY <1>5 DEF TypeInv
      <3>2. CASE <<q, h>> = <<p, g>>
        BY <1>9, <1>14, <3>2
      <3>3. CASE <<q, h>> # <<p, g>>
        <4>1. pte[q][h].frame \in Frames \cup {Zero} /\ pte[q][h].frame # new
          BY <1>8, <3>1, NamedFrame
        <4> QED
          BY <1>9, <1>14, <3>1, <3>3, <4>1
      <3> QED
        BY <3>2, <3>3
    <2> QED
      BY <1>5, <1>11, <2>1, <2>2, SeenStays
  <1> QED
    BY <1>3, <1>11, <1>12, <1>13, <1>15 DEF Step, PrivInv, Abstract!vars

(* munmap takes a page away.                                               *)
LEMMA FreePrivate ==
  ASSUME MemInv, freePFN
  PROVE  Step
  <1>1. /\ Doing("munmap") /\ OnePage
        /\ alive' = alive /\ tab' = tab /\ dir' = dir /\ content' = content /\ want' = want
    BY DEF freePFN
  <1>2. /\ CallInv /\ alive \subseteq Procs /\ pte \in PageTables /\ RefsInv
        /\ Solid /\ NoLeaks /\ MakingInv
    BY DEF MemInv, PrivInv, Inv, TypeInv, RefsInv
  <1>3. PICK p \in Procs, g \in Pages : p = call.proc /\ g = At
    BY <1>1, <1>2, AtFacts
  <1>4. /\ call # NoCall /\ call.op = "munmap" /\ p \in alive
        /\ call' # NoCall /\ call'.op = "munmap" /\ call'.proc = p
    BY <1>1, <1>2, <1>3, AtFacts, OnePageFacts
  <1>5. want[p] = NoAccess
    BY <1>2, <1>3, <1>4 DEF MakingInv
  <1>6. CASE ~Reached(p, g)
    <2>1. pte' = pte /\ refs' = refs
      BY <1>3, <1>6 DEF freePFN
    <2>2. MakingInv'
      BY <1>1, <1>2, <1>4, <1>5, <2>1 DEF MakingInv
    <2> QED
      BY <1>1, <2>1, <2>2, QuietStep DEF Step, Abstract!vars, tables
  <1>7. CASE Reached(p, g)
    <2>1. pte' = [pte EXCEPT ![p][g] = NoPage] /\ refs' = Swapped(Zero, pte[p][g].frame)
      BY <1>3, <1>7 DEF freePFN
    <2>2. NoPage.frame = Zero /\ ~NoPage.present
      BY DEF NoPage
    <2>3. /\ pte'[p][g] = NoPage
          /\ \A q \in Procs, h \in Pages : <<q, h>> # <<p, g>> => pte'[q][h] = pte[q][h]
      BY <1>2, <2>1 DEF PageTables
    <2>4. Solid'
      BY <1>1, <1>2, <2>2, <2>3 DEF Solid, Reached
    <2>5. NoLeaks'
      <3>1. pte'[p][g].frame = Zero
        BY <2>2, <2>3
      <3>2. \A q \in Procs, h \in Pages : <<q, h>> # <<p, g>> => pte'[q][h].frame = pte[q][h].frame
        BY <2>3
      <3>3. refs' = Swapped(Zero, pte[p][g].frame) /\ pte[p][g].frame = pte[p][g].frame
        BY <2>1
      <3> QED
        BY <1>2, <3>1, <3>2, <3>3, SwappedLeaksNone
    <2>6. MakingInv'
      <3>1. \A c \in Procs \ alive, h \in Pages : pte'[c][h] = pte[c][h] /\ pte[c][h].frame = Zero
        BY <1>2, <1>4, <2>3 DEF MakingInv
      <3> QED
        BY <1>1, <1>4, <1>5, <3>1 DEF MakingInv
    <2>7. Seen'[p][g] = Zero
      BY <2>2, <2>3, <2>4, SeenNext
    <2>8. \A q \in Procs, h \in Pages : <<q, h>> # <<p, g>> => Seen'[q][h] = Seen[q][h]
      BY <1>1, <1>2, <2>3, <2>4, SeenAt, SeenNext
    <2>9. Seen' = [Seen EXCEPT ![p][g] = Zero]
      BY <2>7, <2>8, SeenChanged
    <2>10. Abstract!Drop(p, g)
      BY <1>1, <1>5, <2>9 DEF Abstract!Drop
    <2> QED
      BY <2>4, <2>5, <2>6, <2>10 DEF Step, PrivInv, Abstract!Next
  <1> QED
    BY <1>6, <1>7


(* After a page was copied its levels are there for the child as for the   *)
(* parent, and none is gone.                                               *)
LEMMA CopyLevels ==
  ASSUME TypeInv, copyPageToChildProcess, NEW p \in Procs, NEW c \in Procs, NEW g \in Pages,
         p = call.proc, c = call.arg, g = At, p # c
  PROVE  /\ \A q \in Procs, u \in Tables : tab[q][u].present => tab'[q][u].present
         /\ \A q \in Procs, u \in Dirs : dir[q][u].present => dir'[q][u].present
         /\ Reached(p, g) => dir'[c][DirOf(g)].present /\ tab'[c][Table[g]].present
  <1> DEFINE t == Table[g]
             d == DirOf(g)
             inDir == dir[p][d].present
             inTable == inDir /\ tab[p][t].present
  <1>1. /\ tab \in [Procs -> [Tables -> Entries]] /\ dir \in [Procs -> [Dirs -> Entries]]
        /\ t \in Tables /\ d \in Dirs
    BY UpperEntries DEF TypeInv
  <1>2. dir' = IF inDir /\ ~dir[c][d].present
               THEN [dir EXCEPT ![p][d] = [dir[p][d] EXCEPT !.rw = FALSE], ![c][d] = Entry(FALSE)]
               ELSE dir
    BY Zenon DEF copyPageToChildProcess
  <1>3. tab' = IF inTable /\ ~tab[c][t].present
               THEN [tab EXCEPT ![p][t] = [tab[p][t] EXCEPT !.rw = FALSE], ![c][t] = Entry(FALSE)]
               ELSE tab
    BY Zenon DEF copyPageToChildProcess
  <1>4. Reached(p, g) => inTable
    BY DEF Reached
  <1> HIDE DEF t, d
  <1>5. /\ \A q \in Procs, u \in Dirs : dir[q][u].present => dir'[q][u].present
        /\ inDir => dir'[c][d].present
    <2>1. CASE inDir /\ ~dir[c][d].present
      <3> DEFINE e == [dir[p][d] EXCEPT !.rw = FALSE]
                 z == Entry(FALSE)
                 M == [dir EXCEPT ![p][d] = e]
      <3>1. dir' = [M EXCEPT ![c][d] = z]
        BY <1>2, <2>1
      <3>2. dir[p][d] \in Entries
        BY <1>1
      <3>3. e \in Entries /\ e.present = dir[p][d].present
        BY <3>2, BitCleared
      <3>4. z \in Entries /\ z.present
        BY DEF Entry, Entries
      <3>5. M = [dir EXCEPT ![p][d] = e]
        OBVIOUS
      <3> HIDE DEF e, z, M
      <3>6. /\ M \in [Procs -> [Dirs -> Entries]]
            /\ \A q \in Procs, u \in Dirs : M[q][u] = IF q = p /\ u = d THEN e ELSE dir[q][u]
        BY <1>1, <3>3, <3>5, OneEntryChanged
      <3>7. \A q \in Procs, u \in Dirs : dir'[q][u] = IF q = c /\ u = d THEN z ELSE M[q][u]
        BY <1>1, <3>1, <3>4, <3>6, OneEntryChanged
      <3>8. dir'[c][d].present
        BY <1>1, <3>4, <3>7
      <3>9. \A q \in Procs, u \in Dirs : dir[q][u].present => dir'[q][u].present
        BY <3>3, <3>4, <3>6, <3>7
      <3> QED
        BY <3>8, <3>9
    <2>2. CASE ~(inDir /\ ~dir[c][d].present)
      BY <1>2, <2>2
    <2> QED
      BY <2>1, <2>2
  <1>6. /\ \A q \in Procs, u \in Tables : tab[q][u].present => tab'[q][u].present
        /\ inTable => tab'[c][t].present
    <2>1. CASE inTable /\ ~tab[c][t].present
      <3> DEFINE e == [tab[p][t] EXCEPT !.rw = FALSE]
                 z == Entry(FALSE)
                 M == [tab EXCEPT ![p][t] = e]
      <3>1. tab' = [M EXCEPT ![c][t] = z]
        BY <1>3, <2>1
      <3>2. tab[p][t] \in Entries
        BY <1>1
      <3>3. e \in Entries /\ e.present = tab[p][t].present
        BY <3>2, BitCleared
      <3>4. z \in Entries /\ z.present
        BY DEF Entry, Entries
      <3>5. M = [tab EXCEPT ![p][t] = e]
        OBVIOUS
      <3> HIDE DEF e, z, M
      <3>6. /\ M \in [Procs -> [Tables -> Entries]]
            /\ \A q \in Procs, u \in Tables : M[q][u] = IF q = p /\ u = t THEN e ELSE tab[q][u]
        BY <1>1, <3>3, <3>5, OneEntryChanged
      <3>7. \A q \in Procs, u \in Tables : tab'[q][u] = IF q = c /\ u = t THEN z ELSE M[q][u]
        BY <1>1, <3>1, <3>4, <3>6, OneEntryChanged
      <3>8. tab'[c][t].present
        BY <1>1, <3>4, <3>7
      <3>9. \A q \in Procs, u \in Tables : tab[q][u].present => tab'[q][u].present
        BY <3>3, <3>4, <3>6, <3>7
      <3> QED
        BY <3>8, <3>9
    <2>2. CASE ~(inTable /\ ~tab[c][t].present)
      BY <1>3, <2>2
    <2> QED
      BY <2>1, <2>2
  <1> QED
    BY <1>4, <1>5, <1>6 DEF t, d

(* cfork shares a page with the child: no process sees a change.           *)
LEMMA CopyPrivate ==
  ASSUME MemInv, copyPageToChildProcess
  PROVE  Step
  <1>1. /\ Doing("cfork") /\ OnePage
        /\ alive' = alive /\ content' = content /\ want' = want
    BY DEF copyPageToChildProcess
  <1>2. /\ CallInv /\ TypeInv /\ alive \subseteq Procs /\ pte \in PageTables /\ RefsInv
        /\ Solid /\ NoLeaks /\ MakingInv
    BY DEF MemInv, PrivInv, Inv, TypeInv, RefsInv
  <1>3. call.proc \in Procs /\ call.arg \in Procs /\ At \in Pages
    BY <1>1, <1>2, AtFacts DEF CallInv
  <1>4. PICK p \in Procs, c \in Procs, g \in Pages : p = call.proc /\ c = call.arg /\ g = At
    BY <1>3
  <1>5. /\ call # NoCall /\ call.op = "cfork" /\ p \in alive /\ c \notin alive /\ p # c
        /\ call' # NoCall /\ call'.op = "cfork" /\ call'.proc = p /\ call'.arg = c
    BY <1>1, <1>2, <1>4, AtFacts, OnePageFacts DEF CallInv
  <1>6. want[p] = NoAccess
    BY <1>2, <1>4, <1>5 DEF MakingInv
  <1>7. /\ \A q \in Procs, u \in Tables : tab[q][u].present => tab'[q][u].present
        /\ \A q \in Procs, u \in Dirs : dir[q][u].present => dir'[q][u].present
        /\ Reached(p, g) => dir'[c][DirOf(g)].present /\ tab'[c][Table[g]].present
    BY <1>2, <1>4, <1>5, CopyLevels
  <1> DEFINE f == pte[p][g].frame
             Copied == Reached(p, g) /\ ~pte[c][g].present
  <1>8. IF Copied
        THEN /\ pte' = [pte EXCEPT ![p][g] = [pte[p][g] EXCEPT !.rw = FALSE], ![c][g] = PageEntry(f, FALSE)]
             /\ refs' = Swapped(f, Zero)
        ELSE pte' = pte /\ refs' = refs
    BY <1>4, Zenon DEF copyPageToChildProcess, Reached
  <1>9. ASSUME NEW q \in Procs, NEW h \in Pages, Reached(q, h), pte'[q][h].present
        PROVE  Reached(q, h)'
    <2>1. Table[h] \in Tables /\ DirOf(h) \in Dirs
      BY UpperEntries
    <2> QED
      BY <1>7, <1>9, <2>1 DEF Reached, DirOf
  <1>10. CASE ~Copied
    <2>1. pte' = pte /\ refs' = refs
      BY <1>8, <1>10
    <2>2. Solid'
      BY <1>2, <1>9, <2>1 DEF Solid, Reached
    <2>3. NoLeaks'
      BY <1>2, <2>1 DEF NoLeaks, Places
    <2>4. MakingInv'
      BY <1>1, <1>2, <1>4, <1>5, <1>6, <2>1 DEF MakingInv
    <2>5. Seen' = Seen
      BY <1>1, <1>2, <2>1, <2>2, SeenStays
    <2> QED
      BY <1>1, <2>2, <2>3, <2>4, <2>5 DEF Step, PrivInv, Abstract!vars
  <1>11. CASE Copied
    <2> DEFINE e == [pte[p][g] EXCEPT !.rw = FALSE]
               k == PageEntry(f, FALSE)
    <2>1. pte' = [pte EXCEPT ![p][g] = e, ![c][g] = k] /\ refs' = Swapped(f, Zero)
      BY <1>8, <1>11
    <2>2. Reached(p, g) /\ pte[p][g].present /\ ~pte[c][g].present /\ f # Zero /\ pte[c][g].frame = Zero
      BY <1>2, <1>11, NamedFrame DEF Reached, Solid
    <2>3. e.frame = f /\ e.present
      BY <1>2, <2>2 DEF PageTables, PageEntries
    <2>4. k.frame = f /\ k.present
      BY DEF PageEntry
    <2> HIDE DEF e, k, Copied
    <2>5. /\ pte'[p][g] = e /\ pte'[c][g] = k
          /\ \A q \in Procs, h \in Pages :
               <<q, h>> # <<p, g>> /\ <<q, h>> # <<c, g>> => pte'[q][h] = pte[q][h]
      <3> DEFINE M == [pte EXCEPT ![p][g] = e]
      <3>1. pte' = [M EXCEPT ![c][g] = k]
        BY <2>1
      <3>2. /\ \A q \in Procs : DOMAIN M[q] = Pages
            /\ DOMAIN M = Procs
            /\ \A q \in Procs, h \in Pages : M[q][h] = IF q = p /\ h = g THEN e ELSE pte[q][h]
        BY <1>2 DEF PageTables
      <3> HIDE DEF M, f
      <3>3. \A q \in Procs, h \in Pages : pte'[q][h] = IF q = c /\ h = g THEN k ELSE M[q][h]
        BY <3>1, <3>2
      <3> QED
        BY <1>5, <3>2, <3>3
    <2> HIDE DEF f
    <2>6. \A q \in Procs, h \in Pages : <<q, h>> # <<c, g>> =>
            pte'[q][h].frame = pte[q][h].frame /\ (pte'[q][h].present <=> pte[q][h].present)
      BY <2>2, <2>3, <2>5 DEF f
    <2>7. pte'[c][g].frame = f /\ pte'[c][g].present
      BY <2>4, <2>5
    <2>8. Solid'
      <3> SUFFICES ASSUME NEW q \in Procs, NEW h \in Pages
                   PROVE  IF pte'[q][h].frame = Zero THEN ~pte'[q][h].present ELSE Reached(q, h)'
        BY DEF Solid
      <3>1. CASE <<q, h>> = <<c, g>>
        BY <1>7, <2>2, <2>7, <3>1 DEF Reached, DirOf
      <3>2. CASE <<q, h>> # <<c, g>>
        <4>1. pte'[q][h].frame = pte[q][h].frame /\ (pte'[q][h].present <=> pte[q][h].present)
          BY <2>6, <3>2
        <4>2. Reached(q, h) => pte[q][h].present
          BY DEF Reached
        <4> QED
          BY <1>2, <1>9, <4>1, <4>2 DEF Solid
      <3> QED
        BY <3>1, <3>2
    <2>9. NoLeaks'
      <3>1. \A q \in Procs, h \in Pages : <<q, h>> # <<c, g>> => pte'[q][h].frame = pte[q][h].frame
        BY <2>6
      <3> QED
        BY <1>2, <2>1, <2>2, <2>7, <3>1, SwappedLeaksNone
    <2>10. MakingInv'
      <3> SUFFICES ASSUME NEW q \in Procs \ alive, NEW h \in Pages, pte'[q][h].frame # Zero
                   PROVE  q = c /\ pte'[q][h].frame = pte'[p][h].frame
        BY <1>1, <1>5, <1>6 DEF MakingInv
      <3>1. pte'[p][h].frame = pte[p][h].frame
        BY <1>5, <2>6
      <3>2. CASE <<q, h>> = <<c, g>>
        BY <2>7, <3>1, <3>2 DEF f
      <3>3. CASE <<q, h>> # <<c, g>>
        <4>1. pte[q][h].frame = pte'[q][h].frame
          BY <2>6, <3>3
        <4> QED
          BY <1>2, <1>4, <1>5, <3>1, <4>1 DEF MakingInv
      <3> QED
        BY <3>2, <3>3
    <2>11. Seen' = Seen
      <3>1. \A q \in alive, h \in Pages : pte'[q][h].frame = pte[q][h].frame
        BY <1>2, <1>5, <2>6
      <3> QED
        BY <1>1, <1>2, <2>8, <3>1, SeenStays
    <2> QED
      BY <1>1, <2>8, <2>9, <2>10, <2>11 DEF Step, PrivInv, Abstract!vars
  <1> QED
    BY <1>10, <1>11

(* The child starts with what it was given of its parent's memory.         *)
LEMMA FinishForkPrivate ==
  ASSUME MemInv, FinishFork
  PROVE  Step
  <1>1. /\ call # NoCall /\ call.op = "cfork" /\ call' = NoCall /\ alive' = alive \cup {call.arg}
        /\ pte' = pte /\ tab' = tab /\ dir' = dir /\ refs' = refs /\ content' = content /\ want' = want
    BY DEF FinishFork, Done, tables
  <1>2. CallInv /\ alive \subseteq Procs /\ Solid /\ NoLeaks /\ MakingInv
    BY DEF MemInv, PrivInv, Inv, TypeInv
  <1>3. PICK p \in Procs, c \in Procs :
          p = call.proc /\ c = call.arg /\ p \in alive /\ c \notin alive /\ p # c /\ want[p] = NoAccess
    BY <1>1, <1>2 DEF CallInv, MakingInv
  <1>4. PrivInv'
    <2>1. Solid' /\ NoLeaks'
      BY <1>1, <1>2 DEF Solid, NoLeaks, Reached, Places
    <2>2. MakingInv'
      BY <1>1, <1>2, <1>3 DEF MakingInv
    <2> QED
      BY <2>1, <2>2 DEF PrivInv
  <1>5. Solid'
    BY <1>4 DEF PrivInv
  <1> DEFINE S == {g \in Pages : pte[c][g].frame # Zero}
             row == [g \in Pages |-> IF g \in S THEN Seen[p][g] ELSE Zero]
  <1>6. Seen[c] = Abstract!Empty
    <2>1. \A g \in Pages : Seen[c][g] = Zero
      BY <1>2, <1>3, SeenAt
    <2>2. [g \in Pages |-> Seen[c][g]] = [g \in Pages |-> Zero]
      BY <2>1
    <2> QED
      BY <2>2 DEF Seen, Abstract!Empty
  <1>7. Seen'[c] = row
    <2>1. ASSUME NEW g \in Pages PROVE Seen'[c][g] = IF g \in S THEN Seen[p][g] ELSE Zero
      <3>1. Seen'[c][g] = IF pte[c][g].frame # Zero THEN content[pte[c][g].frame] ELSE Zero
        BY <1>1, <1>3, <1>5, SeenNext
      <3>2. pte[c][g].frame # Zero => pte[c][g].frame = pte[p][g].frame
        BY <1>2, <1>3 DEF MakingInv
      <3>3. pte[c][g].frame # Zero => Seen[p][g] = content[pte[c][g].frame]
        BY <1>2, <1>3, <3>2, SeenAt
      <3> QED
        BY <3>1, <3>3
    <2>2. [g \in Pages |-> Seen'[c][g]] = row
      BY <2>1
    <2> QED
      BY <2>2 DEF Seen
  <1>8. ASSUME NEW q \in Procs, q # c PROVE Seen'[q] = Seen[q]
    <2>1. ASSUME NEW h \in Pages PROVE Seen'[q][h] = Seen[q][h]
      BY <1>1, <1>2, <1>3, <1>5, <1>8, SeenAt, SeenNext
    <2>2. [h \in Pages |-> Seen'[q][h]] = [h \in Pages |-> Seen[q][h]]
      BY <2>1
    <2> QED
      BY <2>2 DEF Seen
  <1> HIDE DEF row
  <1>9. Seen' = [Seen EXCEPT ![c] = row]
    <2>1. Seen = [q \in Procs |-> Seen[q]] /\ Seen' = [q \in Procs |-> Seen'[q]]
      BY DEF Seen
    <2> QED
      BY <1>7, <1>8, <2>1
  <1>10. Abstract!Fork(p, c, S)
    BY <1>1, <1>3, <1>6, <1>9, Zenon DEF Abstract!Fork, row
  <1>11. S \in SUBSET Pages /\ c \in Procs \ {p}
    BY <1>3
  <1> QED
    BY <1>4, <1>10, <1>11 DEF Step, Abstract!Next

(* In the beginning one process has its segments, each page in a frame of  *)
(* its own, and the frames are those of the segments alone.                *)
LEMMA InitPrivate ==
  ASSUME Init
  PROVE  PrivInv /\ Abstract!Init
  <1> DEFINE held(home) == [g \in Pages |-> IF g \in SegPages THEN PageEntry(home[g], TRUE) ELSE NoPage]
  <1>1. PICK p \in Procs, home \in [SegPages -> Frames] :
          /\ alive = {p}
          /\ pte = [r \in Procs |-> IF r = p THEN held(home) ELSE [g \in Pages |-> NoPage]]
          /\ tab = [r \in Procs |-> [t \in Tables |->
                     IF r = p /\ \E g \in SegPages : Table[g] = t THEN Entry(TRUE) ELSE NoEntry]]
          /\ dir = [r \in Procs |-> [d \in Dirs |->
                     IF r = p /\ \E g \in SegPages : DirOf(g) = d THEN Entry(TRUE) ELSE NoEntry]]
          /\ refs = [f \in Frames |-> IF \E g \in SegPages : home[g] = f THEN 1 ELSE 0]
          /\ content \in [Frames \cup {Zero} -> Values]
          /\ want = [r \in Procs |-> NoAccess]
          /\ call = NoCall
    BY DEF Init
  <1>2. /\ Entry(TRUE).present /\ NoPage.frame = Zero /\ ~NoPage.present
        /\ \A f : PageEntry(f, TRUE).frame = f /\ PageEntry(f, TRUE).present
    BY DEF Entry, NoPage, PageEntry
  <1>3. SegPages \subseteq Pages /\ \A g \in SegPages : home[g] \in Frames
    BY DEF Pages
  <1>4. \A q \in Procs, g \in Pages :
          pte[q][g] = IF q = p /\ g \in SegPages THEN PageEntry(home[g], TRUE) ELSE NoPage
    BY <1>1
  <1> HIDE DEF held
  <1>5. \A q \in Procs, g \in Pages : pte[q][g].frame = IF q = p /\ g \in SegPages THEN home[g] ELSE Zero
    BY <1>2, <1>4
  <1>6. Solid
    <2> SUFFICES ASSUME NEW q \in Procs, NEW g \in Pages
                 PROVE  IF pte[q][g].frame = Zero THEN ~pte[q][g].present ELSE Reached(q, g)
      BY DEF Solid
    <2>1. CASE q = p /\ g \in SegPages
      <3>1. Table[g] \in Tables /\ DirOf(g) \in Dirs
        BY UpperEntries
      <3>2. tab[p][Table[g]].present /\ dir[p][DirOf(g)].present
        BY <1>1, <1>2, <2>1, <3>1
      <3>3. pte[p][g] = PageEntry(home[g], TRUE)
        BY <1>4, <2>1
      <3>4. home[g] # Zero
        BY <1>3, <2>1, LayoutAssumption
      <3> QED
        BY <1>2, <2>1, <3>2, <3>3, <3>4 DEF Reached
    <2>2. CASE ~(q = p /\ g \in SegPages)
      BY <1>2, <1>4, <2>2
    <2> QED
      BY <2>1, <2>2
  <1>7. NoLeaks
    <2> SUFFICES ASSUME NEW f \in Frames PROVE refs[f] <= Cardinality(Places(pte, f))
      BY DEF NoLeaks
    <2>1. CASE \E g \in SegPages : home[g] = f
      <3>1. PICK g \in SegPages : home[g] = f
        BY <2>1
      <3>2. <<p, g>> \in Places(pte, f)
        BY <1>3, <1>5, <3>1 DEF Places
      <3>3. Cardinality(Places(pte, f)) >= 1 /\ Cardinality(Places(pte, f)) \in Nat
        BY <3>2, NoPlace, PlacesFinite
      <3>4. refs[f] = 1
        BY <1>1, <2>1
      <3> QED
        BY <3>3, <3>4
    <2>2. CASE ~\E g \in SegPages : home[g] = f
      <3>1. refs[f] = 0 /\ Cardinality(Places(pte, f)) \in Nat
        BY <1>1, <2>2, PlacesFinite
      <3> QED
        BY <3>1
    <2> QED
      BY <2>1, <2>2
  <1>8. MakingInv
    BY <1>1, <1>2, <1>4 DEF MakingInv
  <1>9. Abstract!Init
    <2>1. \A q \in Procs, g \in Pages : Seen[q][g] \in Values \cup {Zero}
      BY <1>1, <1>3, <1>5, <1>6, SeenAt
    <2>2. \A q \in Procs, g \in Pages : q # p => Seen[q][g] = Zero
      BY <1>1, <1>6, SeenAt
    <2>3. \A q \in Procs : Seen[q] = [g \in Pages |-> Seen[q][g]]
      BY DEF Seen
    <2>4. Seen[p] \in [Pages -> Values \cup {Zero}]
      BY <2>1, <2>3
    <2>5. ASSUME NEW q \in Procs, q # p PROVE Seen[q] = Abstract!Empty
      <3>1. [g \in Pages |-> Seen[q][g]] = [g \in Pages |-> Zero]
        BY <2>2, <2>5
      <3> QED
        BY <2>3, <3>1 DEF Abstract!Empty
    <2>6. Seen = [q \in Procs |-> IF q = p THEN Seen[p] ELSE Abstract!Empty]
      <3>1. Seen = [q \in Procs |-> Seen[q]]
        BY DEF Seen
      <3> QED
        BY <2>5, <3>1
    <2>7. want = Abstract!NoWant
      BY <1>1 DEF Abstract!NoWant
    <2> QED
      BY <2>4, <2>6, <2>7 DEF Abstract!Init
  <1> QED
    BY <1>6, <1>7, <1>8, <1>9 DEF PrivInv

-----------------------------------------------------------------------------
(* Every step is one of the private memories, or changes nothing in them.  *)
LEMMA StepPrivate == MemInv /\ [Next]_vars => Step
  <1> SUFFICES ASSUME MemInv, [Next]_vars PROVE Step
    OBVIOUS
  <1>1. ASSUME NEW p \in Procs, NEW S, NEW q, Mmap(p, S, q) PROVE Step
    BY <1>1, StartPrivate
  <1>2. ASSUME NEW p \in Procs, NEW S, StartUnmap(p, S) PROVE Step
    BY <1>2, StartPrivate
  <1>3. ASSUME NEW p \in Procs, NEW child, NEW S, StartFork(p, child, S) PROVE Step
    BY <1>3, StartPrivate
  <1>4. ASSUME NEW p \in Procs, Exit(p) PROVE Step
    BY <1>4, EndingPrivate
  <1>5. ASSUME NEW p \in Procs, NEW access \in Loads \cup Stores, Access(p, access) PROVE Step
    BY <1>5, AccessPrivate
  <1>6. ASSUME NEW p \in Procs, AccessStep(p) PROVE Step
    <2>1. CASE Hit(p)
      BY <2>1, HitPrivate
    <2>2. CASE PageFaultRefused(p) \/ PageFaultNoFrame(p)
      BY <2>2, EndingPrivate
    <2>3. CASE PageFaultMaps(p)
      BY <2>3, MapsPrivate
    <2>4. CASE handle_cow_fault(p)
      BY <2>4, CowPrivate
    <2> QED
      BY <1>6, <2>1, <2>2, <2>3, <2>4, NoHalt DEF AccessStep, vm_area_pagefault
  <1>7. ASSUME CallStep PROVE Step
    <2>1. CASE freePFN
      BY <2>1, FreePrivate
    <2>2. CASE updatePFN
      <3>1. call # NoCall /\ call.op = "mprotect"
        BY <2>2 DEF updatePFN, Doing
      <3> QED
        BY <3>1 DEF MemInv, PrivInv, MakingInv
    <2>3. CASE FinishAreas
      BY <2>3, FinishAreasPrivate
    <2>4. CASE copyPageToChildProcess
      BY <2>4, CopyPrivate
    <2>5. CASE FinishFork
      BY <2>5, FinishForkPrivate
    <2> QED
      BY <1>7, <2>1, <2>2, <2>3, <2>4, <2>5, NoHalt DEF CallStep
  <1>8. CASE UNCHANGED vars
    <2>1. /\ UNCHANGED <<alive, tables, refs, content>> /\ want' = want /\ call' = call /\ pte' = pte
          /\ alive' = alive
      BY <1>8 DEF vars, tables
    <2>2. MakingInv'
      BY <2>1 DEF MemInv, PrivInv, MakingInv
    <2> QED
      BY <2>1, <2>2, QuietStep DEF Step, Abstract!vars
  <1>9. Protections = {}
    BY DEF MemInv, EnoughFrames
  <1> QED
    BY <1>1, <1>2, <1>3, <1>4, <1>5, <1>6, <1>7, <1>8, <1>9 DEF Next

(* While there are frames for every page of every process, and no call of  *)
(* mprotect, each process has a memory of its own: faults, shared frames,  *)
(* copies and reference counts never show in what it reads (v2p.c:         *)
(* vm_area_pagefault, handle_cow_fault, do_cfork, freePFN).                *)
THEOREM MemoryStaysPrivate == EnoughFrames /\ Spec => KeepsPrivateMemory
  <1>1. EnoughFrames /\ Init => MemInv /\ Abstract!Init
    BY InitInv, InitPrivate DEF MemInv
  <1>2. MemInv /\ [Next]_vars => MemInv' /\ [Abstract!Next]_(Abstract!vars)
    <2> SUFFICES ASSUME MemInv, [Next]_vars PROVE MemInv' /\ [Abstract!Next]_(Abstract!vars)
      OBVIOUS
    <2>1. EnoughFrames'
      BY DEF MemInv, EnoughFrames
    <2>2. Inv'
      BY StepKeepsInv DEF MemInv
    <2>3. Step
      BY StepPrivate
    <2> QED
      BY <2>1, <2>2, <2>3 DEF MemInv, Step
  <1> QED
    BY <1>1, <1>2, PTL DEF Spec, KeepsPrivateMemory, Abstract!Spec
=============================================================================
