------------------------------- MODULE Paging -------------------------------
(***************************************************************************)
(* Page tables, page frames and copy on write                              *)
(* (Assignment3/gemOS/src/v2p.c): what munmap, mprotect, cfork and page    *)
(* faults do to the page tables of the processes and to the reference      *)
(* counts of the frames.                                                   *)
(*                                                                         *)
(* A page of a process has an entry in a page table, the table one in a    *)
(* directory (the pmd; the levels above it always stay and are left out).  *)
(* User code runs one memory access at a time; between two accesses the    *)
(* scheduler may switch processes.  A system call or a fault runs to its   *)
(* end; calls that go over several pages take one step for each.  The      *)
(* protection of a page stands for the area it is in (module VmArea).      *)
(***************************************************************************)
EXTENDS Integers, FiniteSets

CONSTANTS
  Procs,
  MmapPages,    \* pages of the mmap region, numbered in address order
  SegPages,     \* pages of the data and stack segments, always read-write
  Table,        \* Table[g]: the table that holds the entry of page g
  Dir,          \* Dir[t]: the directory that holds the entry of table t
  Scanned,      \* pages in the part of a table updatePTPermissions looks at
  Frames,       \* frames os_pfn_alloc(USER_REG) can return
  Zero,         \* frame 0, its result when there is none
  Values,       \* contents of a frame
  Protections   \* protections processes ask of mprotect

Pages == MmapPages \cup SegPages
Tables == {Table[g] : g \in Pages}
Dirs == {Dir[t] : t \in Tables}

ASSUME LayoutAssumption ==
  /\ MmapPages \subseteq Nat /\ SegPages \subseteq Nat
  /\ Scanned \subseteq MmapPages
  /\ Zero \notin Frames
  /\ Protections \subseteq {1, 3}
  /\ IsFiniteSet(Procs) /\ IsFiniteSet(Pages)

VARIABLES
  alive,     \* processes that exist
  perm,      \* perm[p][g]: protection of the area of page g, 0 for none
  pte,       \* pte[p][g]: entry of page g, with the frame it names
  tab, dir,  \* tab[p][t], dir[p][d]: entries of tables and directories
  refs,      \* reference counts of the frames
  content,   \* contents of the frames
  want,      \* want[p]: the memory access p is executing
  call       \* the system call in progress

vars == <<alive, perm, pte, tab, dir, refs, content, want, call>>
tables == <<pte, tab, dir>>

NoEntry == [present |-> FALSE, rw |-> FALSE]
NoPage == [present |-> FALSE, rw |-> FALSE, frame |-> Zero]
NoAreas == [g \in Pages |-> IF g \in SegPages THEN 3 ELSE 0]
NoCall == [op |-> "none"]
NoAccess == [op |-> "none"]

Entry(writable) == [present |-> TRUE, rw |-> writable]
(* Mutant of PageEntry: the write bit is set in every new entry.           *)
PageEntry_Writable(f, writable) == [present |-> TRUE, rw |-> TRUE, frame |-> f]

PageEntry(f, writable) == [present |-> TRUE, rw |-> writable, frame |-> f]

DirOf(g) == Dir[Table[g]]
Reached(p, g) == dir[p][DirOf(g)].present /\ tab[p][Table[g]].present /\ pte[p][g].present
Writable(p, g) == Reached(p, g) /\ dir[p][DirOf(g)].rw /\ tab[p][Table[g]].rw /\ pte[p][g].rw

Lowest(S) == CHOOSE g \in S : \A h \in S : g <= h

(* External: os_pfn_alloc gives a frame without references, or 0.  It does *)
(* not clear the frame.                                                    *)
FreeFrames == {f \in Frames : refs[f] = 0}
Allocated(f) == IF FreeFrames = {} THEN f = Zero ELSE f \in FreeFrames

(* Mutants of Swapped: get_pfn is forgotten, put_pfn is called twice.      *)
Swapped_NoGet(f, old) == [h \in Frames |-> refs[h] - (IF h = old THEN 1 ELSE 0)]
Swapped_PutTwice(f, old) ==
  [h \in Frames |-> refs[h] + (IF h = f THEN 1 ELSE 0) - (IF h = old THEN 2 ELSE 0)]

(* refs after a frame is taken (f) and another put back (old)              *)
Swapped(f, old) ==
  [h \in Frames |-> refs[h] + (IF h = f THEN 1 ELSE 0) - (IF h = old THEN 1 ELSE 0)]

Running(p) == call = NoCall /\ p \in alive /\ want[p] = NoAccess

-----------------------------------------------------------------------------
(* mmap gives free pages a protection; their frames come on first use.     *)
Mmap(p, S, q) ==
  /\ Running(p)
  /\ \A g \in S : perm[p][g] = 0
  /\ perm' = [perm EXCEPT ![p] = [g \in Pages |-> IF g \in S THEN q ELSE @[g]]]
  /\ UNCHANGED <<alive, tables, refs, content, want, call>>

(* A call that goes over the pages of todo, lowest first                   *)
Begin(p, op, todo, arg) ==
  /\ Running(p)
  /\ call' = [op |-> op, proc |-> p, pages |-> todo, todo |-> todo, arg |-> arg]

At == Lowest(call.todo)
Doing(op) == call # NoCall /\ call.op = op /\ call.todo # {}
Done(op) == call # NoCall /\ call.op = op /\ call.todo = {}
OnePage == call' = [call EXCEPT !.todo = @ \ {At}]

StartUnmap(p, S) ==
  /\ Begin(p, "munmap", S, 0)
  /\ UNCHANGED <<alive, perm, tables, refs, content, want>>

StartProtect(p, S, q) ==
  /\ \E now \in {1, 3} : \A g \in S : perm[p][g] = now
  /\ Begin(p, "mprotect", S, q)
  /\ UNCHANGED <<alive, perm, tables, refs, content, want>>

(* Mutant of freePFN: the frame is put back and its entry stays.           *)
freePFN_KeepsEntry ==
  /\ Doing("munmap")
  /\ refs' = IF Reached(call.proc, At) THEN Swapped(Zero, pte[call.proc][At].frame) ELSE refs
  /\ OnePage
  /\ UNCHANGED <<alive, perm, tables, content, want>>

freePFN ==
  /\ Doing("munmap")
  /\ LET p == call.proc
         f == pte[p][At].frame
     IN IF Reached(p, At)
        THEN /\ pte' = [pte EXCEPT ![p][At] = NoPage]
             /\ refs' = Swapped(Zero, f)
        ELSE UNCHANGED <<pte, refs>>
  /\ OnePage
  /\ UNCHANGED <<alive, perm, tab, dir, content, want>>

(* updatePTPermissions, after an entry of table t lost its write bit: when *)
(* no entry of the scanned part has one, ~0x3 clears the present bit of    *)
(* the table's entry, and then likewise of the directory's.                *)
updatePTPermissions(p, t, entries) ==
  LET tableStays == \E g \in Scanned : Table[g] = t /\ entries[g].rw
      dirStays == tableStays \/ \E u \in Tables : Dir[u] = Dir[t] /\ tab[p][u].rw
  IN /\ tab' = IF tableStays THEN tab ELSE [tab EXCEPT ![p][t].present = FALSE]
     /\ dir' = IF dirStays THEN dir ELSE [dir EXCEPT ![p][Dir[t]].present = FALSE]

(* Mutant of SetUpperRW: the directory's entry is left out.                *)
SetUpperRW_TableOnly(p, g) ==
  /\ tab' = [tab EXCEPT ![p][Table[g]].rw = TRUE]
  /\ UNCHANGED dir

(* The write bits of the levels above page g                               *)
SetUpperRW(p, g) ==
  /\ tab' = [tab EXCEPT ![p][Table[g]].rw = TRUE]
  /\ dir' = [dir EXCEPT ![p][DirOf(g)].rw = TRUE]

updatePFN ==
  /\ Doing("mprotect")
  /\ LET p == call.proc
         g == At
         f == pte[p][g].frame
     IN \/ /\ ~Reached(p, g)
           /\ UNCHANGED <<tables, refs>>
        \/ /\ Reached(p, g) /\ call.arg = 1
           /\ pte' = [pte EXCEPT ![p][g].rw = FALSE]
           /\ updatePTPermissions(p, Table[g], pte'[p])
           /\ UNCHANGED refs
        \/ /\ Reached(p, g) /\ call.arg = 3
           /\ f \in Frames /\ refs[f] > 1
           /\ \E new \in Frames \cup {Zero} :
                /\ Allocated(new)
                /\ pte' = [pte EXCEPT ![p][g] = PageEntry(new, TRUE)]
                /\ refs' = Swapped(new, f)
           /\ SetUpperRW(p, g)
        \/ /\ Reached(p, g) /\ call.arg = 3
           /\ f \in Frames => refs[f] <= 1
           /\ pte' = [pte EXCEPT ![p][g].rw = TRUE]
           /\ SetUpperRW(p, g)
           /\ UNCHANGED refs
  /\ OnePage
  /\ UNCHANGED <<alive, perm, content, want>>

(* The areas change when the pages are done.                               *)
FinishAreas ==
  /\ Done("munmap") \/ Done("mprotect")
  /\ perm' = [perm EXCEPT ![call.proc] = [g \in Pages |-> IF g \in call.pages THEN call.arg ELSE @[g]]]
  /\ call' = NoCall
  /\ UNCHANGED <<alive, tables, refs, content, want>>

-----------------------------------------------------------------------------
(* cfork.  The loop over the areas copies numPages pages from addr_start   *)
(* on, which nothing has set: whichever pages happen to lie there.  The    *)
(* segments are copied whole.                                              *)
StartFork(p, child, S) ==
  /\ child \in Procs \ alive
  /\ Begin(p, "cfork", S \cup SegPages, child)
  /\ UNCHANGED <<alive, perm, tables, refs, content, want>>

copyPageToChildProcess ==
  /\ Doing("cfork")
  /\ LET p == call.proc
         c == call.arg
         g == At
         t == Table[g]
         d == DirOf(g)
         inDir == dir[p][d].present
         inTable == inDir /\ tab[p][t].present
         inPage == inTable /\ pte[p][g].present
     IN /\ inPage /\ ~pte[c][g].present => pte[p][g].frame # Zero
        /\ dir' = IF inDir /\ ~dir[c][d].present
                  THEN [dir EXCEPT ![p][d].rw = FALSE, ![c][d] = Entry(FALSE)]
                  ELSE dir
        /\ tab' = IF inTable /\ ~tab[c][t].present
                  THEN [tab EXCEPT ![p][t].rw = FALSE, ![c][t] = Entry(FALSE)]
                  ELSE tab
        /\ IF inPage /\ ~pte[c][g].present
           THEN /\ pte' = [pte EXCEPT ![p][g].rw = FALSE,
                                      ![c][g] = PageEntry(pte[p][g].frame, FALSE)]
                /\ refs' = Swapped(pte[p][g].frame, Zero)
           ELSE UNCHANGED <<pte, refs>>
  /\ OnePage
  /\ UNCHANGED <<alive, perm, content, want>>

(* External: get_pfn and put_pfn halt the machine on a frame without       *)
(* references; frame 0 never has any.                                      *)
Halt ==
  /\ alive' = {}
  /\ want' = [p \in Procs |-> NoAccess]
  /\ call' = NoCall
  /\ UNCHANGED <<perm, tables, refs, content>>

CopyHalts ==
  /\ Doing("cfork")
  /\ LET p == call.proc
         g == At
     IN Reached(p, g) /\ ~pte[call.arg][g].present /\ pte[p][g].frame = Zero
  /\ Halt

(* The child has copies of its parent's areas and is ready to run.         *)
FinishFork ==
  /\ Done("cfork")
  /\ alive' = alive \cup {call.arg}
  /\ perm' = [perm EXCEPT ![call.arg] = perm[call.proc]]
  /\ call' = NoCall
  /\ UNCHANGED <<tables, refs, content, want>>

(* External: do_exit drops the areas of p and the references of every      *)
(* entry that names a frame, present or not: entries are those of p.       *)
Gone(p, entries) ==
  /\ alive' = alive \ {p}
  /\ perm' = [perm EXCEPT ![p] = NoAreas]
  /\ pte' = [pte EXCEPT ![p] = [g \in Pages |-> NoPage]]
  /\ tab' = [tab EXCEPT ![p] = [t \in Tables |-> NoEntry]]
  /\ dir' = [dir EXCEPT ![p] = [d \in Dirs |-> NoEntry]]
  /\ refs' = [f \in Frames |-> refs[f] - Cardinality({g \in Pages : entries[g].frame = f})]
  /\ want' = [want EXCEPT ![p] = NoAccess]
  /\ UNCHANGED <<content, call>>

Exit(p) == Running(p) /\ Gone(p, pte[p])

-----------------------------------------------------------------------------
(* Memory accesses.  The processor executes one when the page tables allow *)
(* it and faults when they do not; after a fault it tries again.           *)
Loads == [op : {"read"}, page : Pages]
Stores == [op : {"write"}, page : Pages, value : Values]

Access(p, access) ==
  /\ Running(p)
  /\ want' = [want EXCEPT ![p] = access]
  /\ UNCHANGED <<alive, perm, tables, refs, content, call>>

Pending(p) == call = NoCall /\ p \in alive /\ want[p] # NoAccess
Writes(p) == want[p].op = "write"
Allowed(p) == IF Writes(p) THEN Writable(p, want[p].page) ELSE Reached(p, want[p].page)

Hit(p) ==
  /\ Pending(p)
  /\ Allowed(p)
  /\ content' = IF Writes(p)
                THEN [content EXCEPT ![pte[p][want[p].page].frame] = want[p].value]
                ELSE content
  /\ want' = [want EXCEPT ![p] = NoAccess]
  /\ UNCHANGED <<alive, perm, tables, refs, call>>

Faults(p) == Pending(p) /\ ~Allowed(p)

(* The entries of p with the levels above g present: a directory or table  *)
(* that is made new has no entries.                                        *)
NewDir(p, g) == ~dir[p][DirOf(g)].present
NewTable(p, g) == NewDir(p, g) \/ ~tab[p][Table[g]].present

DirsFor(p, g, writable) ==
  IF NewDir(p, g) THEN [dir[p] EXCEPT ![DirOf(g)] = Entry(writable)] ELSE dir[p]

TablesFor(p, g, writable) ==
  [t \in Tables |->
     IF t = Table[g] THEN IF NewTable(p, g) THEN Entry(writable) ELSE tab[p][t]
     ELSE IF NewDir(p, g) /\ Dir[t] = DirOf(g) THEN NoEntry ELSE tab[p][t]]

EntriesFor(p, g) ==
  [h \in Pages |->
     IF (NewDir(p, g) /\ DirOf(h) = DirOf(g)) \/ (NewTable(p, g) /\ Table[h] = Table[g])
     THEN NoPage ELSE pte[p][h]]

(* No area, or one that is read only and written to: the process is ended. *)
Refused(p) ==
  LET q == perm[p][want[p].page] IN q = 0 \/ (Writes(p) /\ q = 1)

PageFaultRefused(p) ==
  /\ Faults(p)
  /\ Refused(p)
  /\ Gone(p, pte[p])

(* The kernel (external) treats a page of a segment that is gone alike.    *)
PageFaultMaps(p) ==
  LET g == want[p].page
      writable == perm[p][g] = 3
  IN /\ Faults(p)
     /\ ~Refused(p)
     /\ ~Reached(p, g)
     /\ \E f \in FreeFrames :
          /\ pte' = [pte EXCEPT ![p] = [EntriesFor(p, g) EXCEPT ![g] = PageEntry(f, writable)]]
          /\ refs' = Swapped(f, Zero)
     /\ tab' = [tab EXCEPT ![p] = TablesFor(p, g, writable)]
     /\ dir' = [dir EXCEPT ![p] = DirsFor(p, g, writable)]
     /\ UNCHANGED <<alive, perm, content, want, call>>

PageFaultNoFrame(p) ==
  LET g == want[p].page
  IN /\ Faults(p)
     /\ ~Refused(p)
     /\ ~Reached(p, g)
     /\ FreeFrames = {}
     /\ Gone(p, EntriesFor(p, g))

(* A write to a page that is there but write protected.  The new frame is  *)
(* not checked: when there is none it is frame 0.                          *)
CopyNeeded(p) ==
  LET g == want[p].page
  IN Faults(p) /\ Writes(p) /\ Reached(p, g) /\ perm[p][g] = 3

(* Mutant of handle_cow_fault: the new frame gets no copy.                 *)
handle_cow_fault_NoCopy(p) ==
  /\ CopyNeeded(p)
  /\ \E new \in FreeFrames :
       /\ pte' = [pte EXCEPT ![p][want[p].page] = PageEntry(new, TRUE)]
       /\ refs' = Swapped(new, pte[p][want[p].page].frame)
  /\ SetUpperRW(p, want[p].page)
  /\ UNCHANGED <<alive, perm, content, want, call>>

handle_cow_fault(p) ==
  /\ CopyNeeded(p)
  /\ LET g == want[p].page
         old == pte[p][g].frame
     IN /\ old # Zero
        /\ \E new \in Frames \cup {Zero} :
             /\ Allocated(new)
             /\ content' = [content EXCEPT ![new] = content[old]]
             /\ pte' = [pte EXCEPT ![p][g] = PageEntry(new, TRUE)]
             /\ refs' = Swapped(new, old)
        /\ SetUpperRW(p, g)
  /\ UNCHANGED <<alive, perm, want, call>>

CowHalts(p) ==
  /\ CopyNeeded(p)
  /\ pte[p][want[p].page].frame = Zero
  /\ Halt

vm_area_pagefault(p) ==
  PageFaultRefused(p) \/ PageFaultMaps(p) \/ PageFaultNoFrame(p)

-----------------------------------------------------------------------------
Init ==
  \E p \in Procs, home \in [SegPages -> Frames] :
    LET held == [g \in Pages |-> IF g \in SegPages THEN PageEntry(home[g], TRUE) ELSE NoPage]
    IN /\ \A g, h \in SegPages : g # h => home[g] # home[h]
       /\ alive = {p}
       /\ perm = [r \in Procs |-> NoAreas]
       /\ pte = [r \in Procs |-> IF r = p THEN held ELSE [g \in Pages |-> NoPage]]
       /\ tab = [r \in Procs |-> [t \in Tables |->
                  IF r = p /\ \E g \in SegPages : Table[g] = t THEN Entry(TRUE) ELSE NoEntry]]
       /\ dir = [r \in Procs |-> [d \in Dirs |->
                  IF r = p /\ \E g \in SegPages : DirOf(g) = d THEN Entry(TRUE) ELSE NoEntry]]
       /\ refs = [f \in Frames |-> IF \E g \in SegPages : home[g] = f THEN 1 ELSE 0]
       /\ content \in [Frames \cup {Zero} -> Values]
       /\ want = [r \in Procs |-> NoAccess]
       /\ call = NoCall

Ranges == {S \in SUBSET MmapPages :
             \A g \in MmapPages : (\E a, b \in S : a <= g /\ g <= b) => g \in S}

(* The rest of a system call; nothing else runs before it ends.            *)
CallStep ==
  freePFN \/ updatePFN \/ FinishAreas \/ copyPageToChildProcess \/ CopyHalts \/ FinishFork

(* The access of p, or its fault handler                                   *)
AccessStep(p) == Hit(p) \/ vm_area_pagefault(p) \/ handle_cow_fault(p) \/ CowHalts(p)

Next ==
  \/ \E p \in Procs :
       \/ \E S \in Ranges \ {{}} :
            \/ \E q \in {1, 3} : Mmap(p, S, q)
            \/ StartUnmap(p, S)
            \/ \E q \in Protections : StartProtect(p, S, q)
       \/ \E child \in Procs, S \in Ranges : StartFork(p, child, S)
       \/ Exit(p)
       \/ \E access \in Loads \cup Stores : Access(p, access)
       \/ AccessStep(p)
  \/ CallStep

Spec == Init /\ [][Next]_vars

(* A call in progress ends, and the scheduler's round robin comes back to  *)
(* a process however often the others make calls in between.               *)
FairSpec == Spec /\ WF_vars(CallStep) /\ \A p \in Procs : SF_vars(AccessStep(p))

-----------------------------------------------------------------------------
(* Properties                                                              *)

Ops == {"munmap", "mprotect", "cfork"}

(* Types: reference counts never fall below zero (put_pfn halts there).    *)
TypeOK ==
  /\ alive \subseteq Procs
  /\ perm \in [Procs -> [Pages -> {0, 1, 3}]]
  /\ pte \in [Procs -> [Pages -> [present : BOOLEAN, rw : BOOLEAN, frame : Frames \cup {Zero}]]]
  /\ tab \in [Procs -> [Tables -> [present : BOOLEAN, rw : BOOLEAN]]]
  /\ dir \in [Procs -> [Dirs -> [present : BOOLEAN, rw : BOOLEAN]]]
  /\ refs \in [Frames -> Nat]
  /\ content \in [Frames \cup {Zero} -> Values]
  /\ want \in [Procs -> {NoAccess} \cup Loads \cup Stores]
  /\ \/ call = NoCall
     \/ call \in [op : Ops, proc : alive, pages : SUBSET Pages, todo : SUBSET Pages,
                  arg : {0, 1, 3} \cup Procs]

Mappings(f) == {m \in Procs \X Pages : pte[m[1]][m[2]].frame = f}

(* A frame has at least as many references as page table entries name it,  *)
(* so that no frame is freed while a process still reaches it: freePFN,    *)
(* copyPageToChildProcess, handle_cow_fault and exit together.             *)
RefsCoverMappings ==
  \A f \in Frames : refs[f] >= Cardinality(Mappings(f))

(* Outside frame 0, two entries that name one frame are both write         *)
(* protected, so that every write to a shared frame goes to                *)
(* handle_cow_fault: cfork's sharing, mprotect's unsharing, page faults.   *)
SharedReadOnly ==
  \A f \in Frames : Cardinality(Mappings(f)) > 1 =>
    \A m \in Mappings(f) : ~pte[m[1]][m[2]].rw

(* Between calls no page is reached that no area covers, and none can be   *)
(* written whose area is read only, whatever munmap, mprotect, cfork and   *)
(* faults left in the tables.                                              *)
PermissionsKept ==
  call = NoCall =>
    \A p \in alive, g \in Pages :
      /\ Reached(p, g) => perm[p][g] # 0
      /\ Writable(p, g) => perm[p][g] = 3

(* An access is executed in the end, or its process is killed or the       *)
(* machine halts: no fault handler leaves the tables such that the same    *)
(* access faults forever.                                                  *)
AccessEnds == \A p \in Procs : want[p] # NoAccess ~> want[p] = NoAccess

(* The memory a process sees                                               *)
Seen == [p \in Procs |-> [g \in Pages |->
  IF p \in alive /\ Reached(p, g) THEN content[pte[p][g].frame] ELSE Zero]]

Abstract == INSTANCE PrivateMemory WITH mem <- Seen, Nothing <- Zero

(* Each process has a memory of its own: only its own writes change it, at *)
(* the page and to the value they say; cfork gives the child what the      *)
(* parent has or nothing; copies, shared frames and counts do not show     *)
(* (vm_area_pagefault, handle_cow_fault, do_cfork, freePFN).               *)
KeepsPrivateMemory == Abstract!Spec

(* user/part2/testcase2.output expects error code 0x7 of a write to a page *)
(* that mprotect made read only: the page stays present.                   *)
ProtectedPagesStay ==
  [][Doing("mprotect") =>
       \A p \in Procs, g \in Pages : Reached(p, g) => Reached(p, g)']_vars
=============================================================================
