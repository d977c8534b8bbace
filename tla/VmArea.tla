------------------------------- MODULE VmArea -------------------------------
(***************************************************************************)
(* The list of virtual memory areas of each process and the four system    *)
(* calls that change it: mmap, munmap, mprotect and cfork                  *)
(* (Assignment3/gemOS/src/v2p.c).  The list of a process is a sequence of  *)
(* areas in list order; its first area is the dummy one that mmap creates. *)
(* A system call runs to its end before another one starts (the kernel is  *)
(* not preempted), so mmap, mprotect and cfork are one action each; munmap *)
(* walks the list in a loop, one action per turn of the loop.              *)
(*                                                                         *)
(* Addresses are bytes and Page is the size of a page.  Lengths are ints   *)
(* of the code: rounding one up to whole pages wraps beyond IntMax.  What  *)
(* the calls do to page tables is the subject of module Paging.            *)
(***************************************************************************)
EXTENDS Integers, Sequences, FiniteSets

CONSTANTS
  Procs,        \* processes
  Page,         \* FOUR_KB
  Start, End,   \* MMAP_AREA_START, MMAP_AREA_END
  IntMax,       \* the largest int
  Addrs,        \* addresses the processes pass, 0 for NULL
  Lengths       \* lengths they pass

ASSUME LayoutAssumption ==
  /\ Page \in Nat \ {0} /\ Start \in Nat /\ End \in Nat /\ IntMax \in Nat
  /\ Start % Page = 0 /\ End % Page = 0 /\ (IntMax + 1) % Page = 0
  /\ IntMax + 1 < Start /\ Start + Page < End
  /\ Addrs \subseteq Nat /\ Lengths \subseteq (-(IntMax + 1)) .. IntMax

EINVAL == 1                           \* include/types.h; calls return -EINVAL
MAP_FIXED == 1
NoCall == [proc |-> "none"]

VARIABLES
  alive,   \* processes that exist
  vmas,    \* vmas[p]: the list that starts at vm_area of p, <<>> for NULL
  num,     \* stats->num_vm_area
  ret,     \* what the last system call returned, 0 while a munmap runs
  call     \* the munmap in progress: its process, node, address and length

vars == <<alive, vmas, num, ret, call>>

Dummy == [start |-> Start, end |-> Start + Page, flags |-> 0]

Signed(x) == ((x + IntMax + 1) % (2 * (IntMax + 1))) - (IntMax + 1)

(* (length + 0xFFF) & ~(0xFFF) on an int                                   *)
Aligned(length) == (Signed(length + Page - 1) \div Page) * Page

Lowest(S) == CHOOSE i \in S : \A j \in S : i <= j

(* Mutant of Splice: the last of the areas to go stays.                    *)
Splice_KeepsLast(vs, i, j, new) == SubSeq(vs, 1, i - 1) \o new \o SubSeq(vs, j, Len(vs))

(* vs with its areas i .. j replaced by the areas of new                   *)
Splice(vs, i, j, new) == SubSeq(vs, 1, i - 1) \o new \o SubSeq(vs, j + 1, Len(vs))

-----------------------------------------------------------------------------
(* mmap                                                                    *)

Contains(a, addr) == a.start <= addr /\ addr < a.end

(* Where free space after area i stops                                     *)
Limit(vs, i) == IF i = Len(vs) THEN End ELSE vs[i + 1].start

(* Mutant of Placed: an area of its own, whatever it touches.              *)
Placed_NeverMerges(vs, i, addr, len, prot) ==
  [areas |-> Splice(vs, i + 1, i, <<[start |-> addr, end |-> addr + len, flags |-> prot]>>),
   count |-> 1]

(* Mutant of Placed: an area that takes in the one after it keeps the end  *)
(* of the new memory.                                                      *)
Placed_LosesNext(vs, i, addr, len, prot) ==
  LET withNext == i < Len(vs) /\ addr + len = vs[i + 1].start /\ prot = vs[i + 1].flags
  IN IF addr = vs[i].end /\ prot = vs[i].flags
     THEN [areas |-> Splice(vs, i, IF withNext THEN i + 1 ELSE i, <<[vs[i] EXCEPT !.end = @ + len]>>),
           count |-> IF withNext THEN -1 ELSE 0]
     ELSE Placed_NeverMerges(vs, i, addr, len, prot)

(* Put [addr, addr + len) between areas i and i + 1: one of the code's     *)
(* four ways of merging it with its neighbours, with the change it makes   *)
(* to num_vm_area.                                                         *)
Placed(vs, i, addr, len, prot) ==
  LET withPrev == addr = vs[i].end /\ prot = vs[i].flags
      withNext == i < Len(vs) /\ addr + len = vs[i + 1].start /\ prot = vs[i + 1].flags
  IN CASE withPrev /\ ~withNext ->
            [areas |-> [vs EXCEPT ![i].end = @ + len], count |-> 0]
       [] ~withPrev /\ withNext ->
            [areas |-> [vs EXCEPT ![i + 1].start = addr], count |-> 0]
       [] withPrev /\ withNext ->
            [areas |-> Splice(vs, i, i + 1, <<[vs[i] EXCEPT !.end = vs[i + 1].end]>>),
             count |-> -1]
       [] OTHER ->
            [areas |-> Splice(vs, i + 1, i, <<[start |-> addr, end |-> addr + len, flags |-> prot]>>),
             count |-> 1]

(* Mutant of Gaps: a gap of exactly len bytes is passed over.              *)
Gaps_Strict(vs, len) == {i \in DOMAIN vs : vs[i].end + len < Limit(vs, i)}

(* Areas with room for len bytes right after them                          *)
Gaps(vs, len) == {i \in DOMAIN vs : vs[i].end + len <= Limit(vs, i)}

(* Areas at which the search for a hint stops: addr is in the area or in   *)
(* the free space after it.                                                *)
Hits(vs, addr) ==
  {i \in DOMAIN vs : \/ Contains(vs[i], addr)
                     \/ vs[i].end <= addr /\ (i = Len(vs) \/ addr < vs[i + 1].start)}

ValidMap(length, prot, flag) == length >= 0 /\ prot \in {1, 3} /\ flag \in {0, 1}

(* Mutant of Fits: the room after the hint is not looked at.               *)
Fits_StartOnly(vs, addr, len) ==
  Hits(vs, addr) # {} /\ ~Contains(vs[Lowest(Hits(vs, addr))], addr)

Fits(vs, addr, len) ==
  /\ Hits(vs, addr) # {}
  /\ LET i == Lowest(Hits(vs, addr))
     IN ~Contains(vs[i], addr) /\ addr + len <= Limit(vs, i)

(* The list and the count with the dummy area in place                     *)
Listed(p) == IF vmas[p] = <<>> THEN <<Dummy>> ELSE vmas[p]
Counted(p) == IF vmas[p] = <<>> THEN 1 ELSE num

Idle(p) == call = NoCall /\ p \in alive

MapInvalid(p, addr, length, prot, flag) ==
  /\ Idle(p)
  /\ ~ValidMap(length, prot, flag)
  /\ ret' = -EINVAL
  /\ UNCHANGED <<alive, vmas, num, call>>

MapPlace(p, i, addr, length, prot) ==
  LET new == Placed(Listed(p), i, addr, Aligned(length), prot)
  IN /\ vmas' = [vmas EXCEPT ![p] = new.areas]
     /\ num' = Counted(p) + new.count
     /\ ret' = addr
     /\ UNCHANGED <<alive, call>>

(* The hint is free and has room after it.                                 *)
MapAtHint(p, addr, length, prot, flag) ==
  /\ Idle(p)
  /\ ValidMap(length, prot, flag)
  /\ addr # 0
  /\ Fits(Listed(p), addr, Aligned(length))
  /\ MapPlace(p, Lowest(Hits(Listed(p), addr)), addr, length, prot)

(* No hint, or one that cannot be had: allocVMArea takes the first gap.    *)
Anywhere(p, addr, length, prot, flag) ==
  /\ Idle(p)
  /\ ValidMap(length, prot, flag)
  /\ flag # MAP_FIXED
  /\ \/ addr = 0
     \/ /\ Hits(Listed(p), addr) # {}
        /\ ~Fits(Listed(p), addr, Aligned(length))

MapFirstFit(p, addr, length, prot, flag) ==
  /\ Anywhere(p, addr, length, prot, flag)
  /\ LET gaps == Gaps(Listed(p), Aligned(length))
     IN /\ gaps # {}
        /\ MapPlace(p, Lowest(gaps), Listed(p)[Lowest(gaps)].end, length, prot)

(* MAP_FIXED without the hint's room, a hint below every area, or no gap.  *)
(* The dummy area is created all the same.                                 *)
MapRefused(p, addr, length, prot, flag) ==
  /\ Idle(p)
  /\ ValidMap(length, prot, flag)
  /\ \/ flag = MAP_FIXED /\ (addr = 0 \/ ~Fits(Listed(p), addr, Aligned(length)))
     \/ addr # 0 /\ Hits(Listed(p), addr) = {}
     \/ /\ Anywhere(p, addr, length, prot, flag)
        /\ Gaps(Listed(p), Aligned(length)) = {}
  /\ vmas' = [vmas EXCEPT ![p] = Listed(p)]
  /\ num' = Counted(p)
  /\ ret' = -EINVAL
  /\ UNCHANGED <<alive, call>>

vm_area_map(p, addr, length, prot, flag) ==
  \/ MapInvalid(p, addr, length, prot, flag)
  \/ MapAtHint(p, addr, length, prot, flag)
  \/ MapFirstFit(p, addr, length, prot, flag)
  \/ MapRefused(p, addr, length, prot, flag)

-----------------------------------------------------------------------------
(* munmap: call.node is the area the loop looks at, [call.addr, call.addr  *)
(* + call.length) what it has still to unmap.                              *)

vm_area_unmap(p, addr, length) ==
  /\ Idle(p)
  /\ IF length > 0 /\ vmas[p] # <<>>
     THEN /\ call' = [proc |-> p, node |-> 1, addr |-> addr, length |-> length]
          /\ ret' = 0
     ELSE /\ ret' = -EINVAL
          /\ UNCHANGED call
  /\ UNCHANGED <<alive, vmas, num>>

List == vmas[call.proc]
Area == List[call.node]
Last == call.node = Len(List)
Inside == Area.start <= call.addr /\ call.addr + call.length <= Area.end

UnmapReturn(value) == ret' = value /\ call' = NoCall

(* Mutant of SetList: num_vm_area is not kept up to date.                  *)
SetList_NoCount(areas, count) ==
  /\ vmas' = [vmas EXCEPT ![call.proc] = areas]
  /\ UNCHANGED num

SetList(areas, count) ==
  /\ vmas' = [vmas EXCEPT ![call.proc] = areas]
  /\ num' = num + count

(* Mutants of UnmapRest: the loop condition is length >= 0; addr and       *)
(* length stay as they are.                                                *)
UnmapRest_ZeroToo(node, addr) ==
  /\ call' = [call EXCEPT !.node = node, !.addr = addr, !.length = call.addr + @ - addr]
  /\ UNCHANGED ret
UnmapRest_Stays(node, addr) ==
  /\ call' = [call EXCEPT !.node = node]
  /\ UNCHANGED ret

(* Go on at node with what lies at or above addr; an empty rest leaves the *)
(* loop for the error return behind it.                                    *)
UnmapRest(node, addr) ==
  LET length == call.addr + call.length - addr
  IN IF length > 0
     THEN call' = [call EXCEPT !.node = node, !.addr = addr, !.length = length] /\ UNCHANGED ret
     ELSE UnmapReturn(-EINVAL)

(* Mutant of Cut: what follows the unmapped range is lost.                 *)
Cut_LosesTail(vs, i, addr, len) == [areas |-> [vs EXCEPT ![i].end = addr], count |-> 0]

(* The area without [addr, addr + len): gone, cut short or split           *)
Cut(vs, i, addr, len) ==
  LET a == vs[i]
  IN CASE a.start = addr /\ a.end = addr + len ->
            [areas |-> Splice(vs, i, i, <<>>), count |-> -1]
       [] a.start = addr /\ a.end # addr + len ->
            [areas |-> [vs EXCEPT ![i].start = addr + len], count |-> 0]
       [] a.start # addr /\ a.end = addr + len ->
            [areas |-> [vs EXCEPT ![i].end = addr], count |-> 0]
       [] OTHER ->
            [areas |-> Splice(vs, i, i, <<[a EXCEPT !.end = addr], [a EXCEPT !.start = addr + len]>>),
             count |-> 1]

(* case 1: the rest lies inside the area                                   *)
UnmapInside ==
  /\ call # NoCall
  /\ Inside
  /\ LET new == Cut(List, call.node, call.addr, Aligned(call.length))
     IN SetList(new.areas, new.count)
  /\ UnmapReturn(0)
  /\ UNCHANGED alive

(* case 2: the rest starts inside the area and ends beyond it              *)
UnmapSpill ==
  /\ call # NoCall
  /\ Contains(Area, call.addr)
  /\ ~Inside
  /\ SetList([List EXCEPT ![call.node].end = call.addr], 0)
  /\ IF Last \/ call.addr + call.length < List[call.node + 1].start
     THEN UnmapReturn(0)
     ELSE UnmapRest(call.node + 1, List[call.node + 1].start)
  /\ UNCHANGED alive

(* case 3: the rest starts before the area and reaches it                  *)
UnmapBefore ==
  /\ call # NoCall
  /\ call.addr < Area.start
  /\ call.addr + call.length >= Area.start
  /\ UnmapRest(call.node, Area.start)
  /\ UNCHANGED <<alive, vmas, num>>

Elsewhere ==
  /\ call # NoCall
  /\ ~Inside
  /\ ~Contains(Area, call.addr)
  /\ ~(call.addr < Area.start /\ call.addr + call.length >= Area.start)

(* case 4: nothing more to unmap                                           *)
UnmapPast ==
  /\ Elsewhere
  /\ Area.start > call.addr + call.length \/ Last
  /\ UnmapReturn(0)
  /\ UNCHANGED <<alive, vmas, num>>

UnmapSkip ==
  /\ Elsewhere
  /\ Area.start <= call.addr + call.length
  /\ ~Last
  /\ call' = [call EXCEPT !.node = @ + 1]
  /\ UNCHANGED <<alive, vmas, num, ret>>

UnmapStep == UnmapInside \/ UnmapSpill \/ UnmapBefore \/ UnmapPast \/ UnmapSkip

-----------------------------------------------------------------------------
(* mprotect                                                                *)

(* vs with [addr, addr + len) of area i given protection prot, and the     *)
(* change this makes to num_vm_area: the range is the middle, the end, the *)
(* start or the whole of the area, and at an edge may join a neighbour.    *)
Reprotected(vs, i, addr, len, prot) ==
  LET a == vs[i]
      prev == vs[i - 1]
      next == vs[i + 1]
      to == addr + len
      mid == [start |-> addr, end |-> to, flags |-> prot]
      before == [a EXCEPT !.end = addr]
      after == [a EXCEPT !.start = to]
      joinPrev == prev.flags = prot /\ prev.end = addr
      joinNext == i < Len(vs) /\ next.flags = prot /\ next.start = to
      Result(from, upto, new) ==
        [areas |-> Splice(vs, from, upto, new), count |-> Len(new) - (upto - from + 1)]
  IN CASE addr # a.start /\ to # a.end -> Result(i, i, <<before, mid, after>>)
       [] addr # a.start /\ to = a.end /\ joinNext ->
            Result(i, i + 1, <<before, [next EXCEPT !.start = addr]>>)
       [] addr # a.start /\ to = a.end /\ ~joinNext -> Result(i, i, <<before, mid>>)
       [] addr = a.start /\ to # a.end /\ joinPrev ->
            Result(i - 1, i, <<[prev EXCEPT !.end = to], after>>)
       [] addr = a.start /\ to # a.end /\ ~joinPrev -> Result(i, i, <<mid, after>>)
       [] OTHER -> CASE joinPrev /\ joinNext ->
                          Result(i - 1, i + 1, <<[prev EXCEPT !.end = next.end]>>)
                     [] ~joinPrev /\ joinNext ->
                          Result(i, i + 1, <<[mid EXCEPT !.end = next.end]>>)
                     [] joinPrev /\ ~joinNext ->
                          Result(i - 1, i, <<[prev EXCEPT !.end = a.end]>>)
                     [] OTHER -> Result(i, i, <<mid>>)

(* The areas at which the search for addr may end: it ends at the first.   *)
Stops(vs, addr) == {i \in DOMAIN vs : Contains(vs[i], addr) \/ addr < vs[i].start}

Found(vs, addr) == Stops(vs, addr) # {} /\ Contains(vs[Lowest(Stops(vs, addr))], addr)

ProtectRefused(p, addr, length, prot) ==
  /\ Idle(p)
  /\ length < 0 \/ prot \notin {1, 3} \/ ~Found(vmas[p], addr)
  /\ ret' = -EINVAL
  /\ UNCHANGED <<alive, vmas, num, call>>

ProtectArea(p, addr, length, prot) ==
  /\ Idle(p)
  /\ length >= 0 /\ prot \in {1, 3}
  /\ Found(vmas[p], addr)
  /\ LET new == Reprotected(vmas[p], Lowest(Stops(vmas[p], addr)), addr, Aligned(length), prot)
     IN /\ vmas' = [vmas EXCEPT ![p] = new.areas]
        /\ num' = num + new.count
  /\ ret' = 0
  /\ UNCHANGED <<alive, call>>

vm_area_mprotect(p, addr, length, prot) ==
  ProtectRefused(p, addr, length, prot) \/ ProtectArea(p, addr, length, prot)

-----------------------------------------------------------------------------
(* cfork: the child gets a dummy area of its own and a copy of the others. *)

(* Mutant of do_cfork: the child gets no area but the dummy one.           *)
do_cfork_DummyOnly(p, child) ==
  /\ Idle(p)
  /\ child \in Procs \ alive
  /\ alive' = alive \cup {child}
  /\ vmas' = [vmas EXCEPT ![child] = <<Dummy>>]
  /\ num' = num + 1
  /\ UNCHANGED <<ret, call>>

do_cfork(p, child) ==
  /\ Idle(p)
  /\ child \in Procs \ alive
  /\ alive' = alive \cup {child}
  /\ vmas' = [vmas EXCEPT ![child] =
                IF vmas[p] = <<>> THEN <<>> ELSE <<Dummy>> \o Tail(vmas[p])]
  /\ num' = num + Len(vmas[p])
  /\ UNCHANGED <<ret, call>>

(* External: do_exit frees every area of the process (do_vma_exit).  The   *)
(* last process is left alone.                                             *)
do_exit(p) ==
  /\ Idle(p)
  /\ alive # {p}
  /\ alive' = alive \ {p}
  /\ vmas' = [vmas EXCEPT ![p] = <<>>]
  /\ num' = num - Len(vmas[p])
  /\ UNCHANGED <<ret, call>>

-----------------------------------------------------------------------------
Init ==
  /\ \E p \in Procs : alive = {p}
  /\ vmas = [p \in Procs |-> <<>>]
  /\ num = 0
  /\ ret = 0
  /\ call = NoCall

ProtArgs == {1, 2, 3}
FlagArgs == {0, MAP_FIXED}

(* munmap and mprotect are not called on the dummy area, whose addresses   *)
(* mmap never returns: the code would free or rewrite the list's head and  *)
(* read through a null prev.                                               *)
Usable(addr) == addr >= Start + Page

Next ==
  \/ \E p \in Procs :
       \/ \E addr \in Addrs, length \in Lengths, prot \in ProtArgs, flag \in FlagArgs :
            vm_area_map(p, addr, length, prot, flag)
       \/ \E addr \in Addrs, length \in Lengths :
            Usable(addr) /\ vm_area_unmap(p, addr, length)
       \/ \E addr \in Addrs, length \in Lengths, prot \in ProtArgs :
            Usable(addr) /\ vm_area_mprotect(p, addr, length, prot)
       \/ \E child \in Procs : do_cfork(p, child)
       \/ do_exit(p)
  \/ UnmapStep

(* Every call of the interface, whatever its arguments                     *)
Spec == Init /\ [][Next]_vars

(* Arguments the code is written for: whole pages, lengths whose rounding  *)
(* does not wrap, mprotect of a part of one area.                          *)
Plain(addr, length) == addr % Page = 0 /\ length + Page - 1 <= IntMax

InOneArea(p, addr, length) ==
  /\ length > 0
  /\ Found(vmas[p], addr) =>
       addr + Aligned(length) <= vmas[p][Lowest(Stops(vmas[p], addr))].end

OrderlyNext ==
  \/ \E p \in Procs :
       \/ \E addr \in Addrs, length \in Lengths, prot \in ProtArgs, flag \in FlagArgs :
            Plain(addr, length) /\ vm_area_map(p, addr, length, prot, flag)
       \/ \E addr \in Addrs, length \in Lengths :
            Usable(addr) /\ Plain(addr, length) /\ vm_area_unmap(p, addr, length)
       \/ \E addr \in Addrs, length \in Lengths, prot \in ProtArgs :
            /\ Usable(addr) /\ Plain(addr, length) /\ InOneArea(p, addr, length)
            /\ vm_area_mprotect(p, addr, length, prot)
       \/ \E child \in Procs : do_cfork(p, child)
       \/ do_exit(p)
  \/ UnmapStep

OrderlySpec == Init /\ [][OrderlyNext]_vars

(* A call that has begun ends: the kernel is not preempted in it.          *)
FairOrderlySpec == OrderlySpec /\ WF_vars(UnmapStep)

-----------------------------------------------------------------------------
(* Properties                                                              *)

Edges == Start .. End

(* Types: lists are sequences of areas of the region, at most one munmap   *)
(* runs (vm_area_unmap), and it looks at a node its process has.           *)
TypeOK ==
  /\ alive \subseteq Procs
  /\ vmas \in [Procs -> Seq([start : Edges, end : Edges, flags : {0, 1, 3}])]
  /\ num \in Int
  /\ ret \in Int
  /\ \/ call = NoCall
     \/ /\ call \in [proc : alive, node : Nat \ {0}, addr : Nat, length : 1 .. IntMax]
        /\ call.node \in DOMAIN vmas[call.proc]

(* The areas of a process are whole pages, in address order and disjoint,  *)
(* after a dummy area that no call has touched: what every search of       *)
(* v2p.c relies on.                                                        *)
AreasOrdered ==
  \A p \in Procs : LET vs == vmas[p] IN
    /\ vs # <<>> => vs[1] = Dummy
    /\ \A i \in DOMAIN vs :
         /\ vs[i].start % Page = 0 /\ vs[i].end % Page = 0
         /\ vs[i].start <= vs[i].end /\ vs[i].end <= Limit(vs, i)

(* stats->num_vm_area is the number of areas of all processes, the dummy   *)
(* ones included (pmap prints it less one).                                *)
CountMatches ==
  num = Cardinality(UNION {{p} \X DOMAIN vmas[p] : p \in Procs})

Empty(a) == a.start = a.end

(* [addr, addr + len) lies in the region and in no area of the list.       *)
Free(vs, addr, len) ==
  /\ addr >= Start + Page /\ addr + len <= End
  /\ \A i \in DOMAIN vs : Empty(vs[i]) \/ vs[i].end <= addr \/ addr + len <= vs[i].start

PageStarts == {addr \in Start .. End : addr % Page = 0}

LowestFree(vs, addr, len) ==
  Free(vs, addr, len) /\ \A b \in PageStarts : b < addr => ~Free(vs, b, len)

(* A list without an empty area                                            *)
Tidy(vs) == \A i \in DOMAIN vs : ~Empty(vs[i])

(* allocVMArea "assigns the first legal vm_area" (v2p.c:42): an mmap       *)
(* without a hint returns the lowest address with room, and fails only     *)
(* when there is none.                                                     *)
FirstLegal(p, length, prot) ==
  Plain(0, length) /\ ValidMap(length, prot, 0) /\ vm_area_map(p, 0, length, prot, 0) =>
    LET len == Aligned(length)
    IN \/ LowestFree(vmas[p], ret', len)
       \/ ret' = -EINVAL /\ \A b \in PageStarts : ~Free(vmas[p], b, len)

(* What HintHonoured asks of one step                                      *)
HintStep ==
  \A p \in Procs, addr \in Addrs \ {0}, length \in Lengths, prot \in {1, 3}, flag \in FlagArgs :
    LET len == Aligned(length)
    IN (/\ Plain(addr, length) /\ length > 0 /\ Tidy(vmas[p])
        /\ vm_area_map(p, addr, length, prot, flag)) =>
         /\ Free(vmas[p], addr, len) => ret' = addr
         /\ ~Free(vmas[p], addr, len) /\ flag = MAP_FIXED => ret' = -EINVAL
         /\ ret' # -EINVAL => Free(vmas[p], ret', len)

(* An mmap gets its hint exactly when the hint has room, never moves a     *)
(* MAP_FIXED request, and a returned address was free (vm_area_map).       *)
HintHonoured == [][HintStep]_vars

(* What FirstLegalInTidyLists asks of one step                             *)
TidyStep ==
  \A p \in Procs, length \in Lengths, prot \in {1, 3} :
    Tidy(vmas[p]) => FirstLegal(p, length, prot)

(* FirstLegal in lists without an empty area: there the search for a gap   *)
(* misses none.  An empty area can split a gap and hide it.                *)
FirstLegalInTidyLists == [][TidyStep]_vars

(* Neighbours that touch and have the same protection                      *)
Seams(vs) ==
  {i \in 1 .. Len(vs) - 1 : vs[i].end = vs[i + 1].start /\ vs[i].flags = vs[i + 1].flags}

(* An mprotect of p that asks for the protection its area has already      *)
IdleProtect(p) ==
  \E addr \in Addrs, length \in Lengths, prot \in {1, 3} :
    /\ Usable(addr) /\ Plain(addr, length) /\ InOneArea(p, addr, length)
    /\ ProtectArea(p, addr, length, prot)
    /\ vmas[p][Lowest(Stops(vmas[p], addr))].flags = prot

(* New memory is merged with the areas it touches: only an mprotect that   *)
(* asks for the protection an area has already leaves two areas where one  *)
(* would do (and cfork copies them).                                       *)
SeamsOnlyFromIdleProtect ==
  [][\A p \in alive :
       Cardinality(Seams(vmas'[p])) > Cardinality(Seams(vmas[p])) => IdleProtect(p)]_vars

(* Every munmap ends, whatever the list looks like: the continue of case 3 *)
(* does not loop for ever.                                                 *)
UnmapEnds == (call # NoCall) ~> (call = NoCall)

-----------------------------------------------------------------------------
(* The map of pages that the lists stand for                               *)

FirstPage == Start \div Page + 1
LastPage == End \div Page - 1

FlagsAt(vs, addr) ==
  LET on == {i \in DOMAIN vs : Contains(vs[i], addr)}
  IN IF on = {} THEN 0 ELSE vs[Lowest(on)].flags

prot == [p \in Procs |-> [g \in FirstPage .. LastPage |-> FlagsAt(vmas[p], g * Page)]]

clearing ==
  [p \in Procs |->
     IF call # NoCall /\ call.proc = p
     THEN {g \in FirstPage .. LastPage :
             call.addr <= g * Page /\ g * Page < call.addr + Aligned(call.length)}
     ELSE {}]

(* An mmap that succeeds gives its protection to the pages from the        *)
(* address it returns on, as many as were asked for, an mprotect to the    *)
(* pages it names, and neither changes another page; a call that fails     *)
(* changes none (vm_area_map, vm_area_mprotect, with all their merging).   *)
CallsAreExact ==
  [][vmas' # vmas \/ ret' # -EINVAL =>
       LET before == prot
           after == prot'
           Given(p, addr, len, q) ==
             after = [before EXCEPT ![p] = [g \in FirstPage .. LastPage |->
                        IF addr <= g * Page /\ g * Page < addr + len THEN q ELSE @[g]]]
       IN \A p \in Procs, addr \in Addrs, length \in Lengths, q \in {1, 3} :
            Plain(addr, length) =>
              /\ (\E flag \in FlagArgs : vm_area_map(p, addr, length, q, flag)) =>
                   IF ret' = -EINVAL THEN after = before ELSE Given(p, ret', Aligned(length), q)
              /\ (/\ Usable(addr) /\ InOneArea(p, addr, length)
                  /\ vm_area_mprotect(p, addr, length, q)) =>
                   IF ret' = -EINVAL THEN after = before ELSE Given(p, addr, Aligned(length), q)]_vars

Abstract == INSTANCE AddrMap

(* The system calls keep the promises of AddrMap.                          *)
KeepsAddrMap == Abstract!Spec
=============================================================================
