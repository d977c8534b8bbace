# TLA+ models of the gemOS assignments

The repository holds three operating systems assignments. Their own logic is in a
few C files; the rest of gemOS is there as object files and headers.

| Part | Source | State it keeps | Operations | Modules |
|---|---|---|---|---|
| Virtual memory areas | `Assignment3/gemOS/src/v2p.c` | per process a linked list of areas, a global count | `vm_area_map`, `vm_area_unmap`, `vm_area_mprotect`, the area copy of `do_cfork` | `AddrMap`, `VmArea`, `VmAreaProofs` |
| Page tables and copy on write | `v2p.c` | per process a four level page table; frames with reference counts | `freePFN`, `updatePFN`, `copyPageToChildProcess`, `vm_area_pagefault`, `handle_cow_fault` | `PrivateMemory`, `Paging`, `PagingProofs` |
| Trace buffer | `Assignment2/gemOS/src/tracer.c` | a page used as a ring, two offsets | `trace_buffer_read`, `trace_buffer_write`, `write_to_buffer` | `BoundedFifo`, `TraceBuffer`, `TraceBufferProofs` |
| Trace buffer life cycle | `tracer.c` | descriptor tables, file objects, the buffers behind them | create, close, fork, exit | `TraceFiles` |
| strace | `tracer.c` | a head with a list of calls to trace, shared after a fork; records in a ring | `perform_tracing`, `sys_strace`, `sys_start_strace`, `sys_end_strace`, `sys_read_strace` | `RecordQueue`, `TraceRing`, `Strace`, `TraceLemmas`, `StraceProofs` |
| ftrace | `tracer.c` | list of functions, saved and patched code bytes, the stack of the traced program | the six actions of `do_ftrace`, `handle_ftrace_fault`, `sys_read_ftrace` | `CallTrace`, `TraceRing`, `Ftrace`, `TraceLemmas`, `FtraceProofs` |
| Heap allocator | `Assignment1/Part3/mylib.c` | a doubly linked free list in the memory it manages | `memalloc`, `memfree` | `Heap`, `HeapProofs` |
| Directory size | `Assignment1/Part2/myDU.c`, `symlink_testcase/myDU.c` | a process and a pipe per directory | fork, write, read to the end of the pipe, links, failures | `DirSize`, `DirSizeProofs` |
| Memory range check | `tracer.c` | none | `is_valid_mem_range` | not modelled |
| Chained programs | `Assignment1/Part1/*.c` | argument vector | compute, `execv` | not modelled |
| Kernel core, user library | headers, object files, `user/*.c` | scheduler, frames, exit | | external actions, not modelled |

How they meet: `mmap`, `munmap` and `mprotect` change the list of areas and, page by
page, the page table; a memory access that the page table does not allow ends in
`vm_area_pagefault`, which looks up the list, and from there, or for a segment from the
kernel's `do_page_fault`, in `handle_cow_fault`. `do_cfork` copies the list and shares
the frames. `do_syscall` passes every call to `perform_tracing` before it serves it; a
function whose first bytes `do_ftrace` has overwritten faults into
`handle_ftrace_fault`. Both append records to a trace buffer with `write_to_buffer`, in
several pieces, and user code reads them back. A trace buffer is known by a descriptor,
which fork copies and close and exit take away. The allocator and the directory program
are ordinary Linux programs.

What is hard: the list is cut while it is walked, and merged at its seams; the same
frame is reached from several page tables while processes write, fork, unmap and exit
in any order; frames run out in the middle of a fault; the write and present bits of
inner levels are shared by pages that have nothing to do with each other; the ring is
entered and left at any byte, and a record may not fit; buffers and heads are freed while
others refer to them; code bytes are patched while the function they begin is running;
the free list lives in the memory it hands out; a pipe ends only when the last of many
processes that inherited it has closed it. `PROJECT.json` lists these hazards line by line, with
the properties that watch them and, where there are none yet, the reason.

## What makes the parts correct

* Areas: after any sequence of calls the list stands for a map from pages to
  protections, and each call changes exactly the pages it was asked to change.
* Paging: each process sees a memory of its own. Underneath, no entry names a frame
  with too few references, no shared frame is writable, and an entry never grants
  what the area refuses. Every access ends.
* Trace buffer: a bounded queue of bytes.
* strace: a trace buffer is a queue of whole records, one for each call to be traced, in
  order, until a record is cut or looks like two. The list of calls, its count and its
  last pointer agree.
* ftrace: the program runs as if untraced, every record is one of its calls with its
  backtrace, and every patched function can be restored.
* Heap: no memory is given out twice; the free list is a list; nothing is lost.
* Directory size: sizes are neither lost nor counted twice, no process reports before its
  children, and all processes end.

## Modules

**`VmArea`** The list of a process is a sequence of areas, first the dummy area that
the first `mmap` creates. The kernel is not preempted, so `mmap`, `mprotect` and
`cfork` are one action each (`vm_area_map` is split by outcome: `MapInvalid`,
`MapAtHint`, `MapFirstFit`, `MapRefused`; `vm_area_mprotect` into `ProtectRefused` and
`ProtectArea`). `munmap` takes one action per turn of its loop, named for the branch:
`UnmapInside` is case 1, `UnmapSpill` case 2, `UnmapBefore` case 3, `UnmapPast` case 4
and `UnmapSkip` the step to the next node. `call` holds the node and the range still to
do. A search of the code (walk until something holds) is written as the first element
of a set of positions: `Gaps`, `Hits`, `Stops`. `Aligned` is the rounding on a signed
`int`, which wraps. Exit is external.

Two specifications share these actions. `Spec` takes any argument; `OrderlySpec`
takes page aligned addresses, lengths whose rounding does not wrap, and `mprotect`
inside one area: arguments for which the list has a meaning. Neither calls `munmap` or
`mprotect` on the dummy area, where the code writes through a null `prev`.

**`AddrMap`** is what those calls promise: `prot[p][g]`, a protection or 0 for each page.
`VmArea` implements it (`KeepsAddrMap`) with `prot` read off the list and `clearing`
the pages that a running `munmap` has still to free.

**`Paging`** A page has an entry in a table, the table one in a directory (the `pmd`);
`Table` and `Dir` say which. The upper levels never lose an entry in use: the stack's
`pud` entry is writable whenever user code has run, since a call instruction writes
the stack, so the scan of that level stops `updatePTPermissions`. Calls that go over
pages (`freeAllPFNs`, `updateAllPFNs`, the loops of `do_cfork`) take a step for each
page, and nothing else runs in between. User code runs one access at a time:
`Access` sets `want[p]`, then `Hit` executes it if the tables allow it, otherwise one
of the fault actions does; between them any other process may run. `freePFN` forgets
an entry and puts its frame back, `updatePFN` has the code's four ways,
`updatePTPermissions` clears present bits as the code does (`&= ~(0x3)`), scans part
of a table (`Scanned`: 64 of 512 entries, `PT_SIZE`), and a new table made by
`PageFaultMaps` has no entries, whatever the dropped one held. The data segment lies in
the directory of the mmap region (`include/context.h`), so that a directory dropped by
`mprotect` takes its pages along; the kernel is taken to install them again as
`vm_area_pagefault` does. The set `S` of
`StartFork` is any range of pages: `do_cfork` copies from an address it has not set.
External: `os_pfn_alloc` gives any free frame, not cleared, or frame 0; `get_pfn` and
`put_pfn` halt the machine on a frame without references (`Halt`); exit puts every
frame an entry names. Code and read-only data segments, which are never written, are
left out, as are frames for page tables, which come from another region, and the TLB.

**`PrivateMemory`** is what paging promises: `mem[p][g]`, changed only by the process's own
writes, at the page and to the value they say, filled on first use, inherited by a
child, and dropped only between accesses. `Paging` implements it
(`KeepsPrivateMemory`) with `mem` read through the tables: a fault in the middle of an
access shows in no memory.

**`TraceBuffer`** One action per turn of a copy loop (`ReadByte`, `WriteByte`), with the
call's copies `front` and `rear` of the two offsets next to the fields themselves, and
one for the code before and after the loop. `write_to_buffer` has the loop of
`trace_buffer_write`. Whether the caller's memory is valid is an input. The access mode
is no variable: its test never refuses (`==` binds tighter than `&`).

**`BoundedFifo`** is what it promises; `TraceBuffer` implements it (`IsFifo`).

**`TraceRing`** has the same ring as the kernel's own calls use it. Those run to their end
before anything else does, so they are functions from ring to ring: `write_to_buffer`
moves as much as there is room for, `WriteRecord` writes the words of a record and the
delimiter one after the other and looks at no result, `ReadTurn` is a turn of the outer
loop of `sys_read_strace` and `sys_read_ftrace`, which searches the delimiter `0x20` without
a look at `front`: an empty ring is read from `buffer[-1]`, a ring without delimiter for
ever. A word is `WordSize` bytes, of which only the lowest is not zero. `Written` and `Turns` are
the state after n words, and after n turns, as recursive functions.

**`TraceFiles`** is the life of trace buffers: descriptors, file objects, `do_fork` copying
the table, `trace_buffer_close` freeing everything whatever the reference count says,
`do_exit` closing what is open. `held` are the objects that are allocated.

**`Strace`** puts system call tracing on top. A system call takes two steps: `perform_tracing`
looks up head, mode, list and descriptor and appends the record, then the action named
for the call serves it. A head belongs to whoever made it and is shared by
children (`base`); `sys_end_strace` frees it and leaves `st_md_base` pointing there, so
`where` is `"freed"` while `is_traced` has been cleared; an empty list makes it read
address 8, which a removal may have written (`low8`). Where the kernel uses an object
that is free, an entry beyond the descriptor table or a null pointer, `wild` says which,
and the model stops there: what follows is not in this source. `broken` are the buffers
of which nothing is promised any more, `shared` tells that a process has forked with a
buffer open.

**`RecordQueue`** is what strace promises: a queue of records per buffer, each of one call, until
the buffer is broken. `Strace` implements it (`IsRecordQueue`) with the records read off
the ring by splitting its contents at the delimiters.

**`Ftrace`** The program calls functions, returns, keeps locals and makes system calls; a
function is at its entry or in its body. `code[f]` is `"push"` or, patched, `"invalid"`: a
call of a patched function goes through `handle_ftrace_fault`, which pushes rbp, sets rbp,
goes on behind the patched bytes (`Emulate`) and writes the record. Stack words are
tagged, and the backtrace follows the chain of saved rbps as the code does. `do_ftrace`
has its six actions. There is one trace buffer, and no fork. `twice` are functions
patched while they were patched, of which the original bytes are gone.

**`CallTrace`** is what ftrace promises: calls and returns of an untraced program, and a queue of
records, each the function, its arguments and the calls in progress. `Ftrace` implements
it (`IsCallTrace`).

**`Heap`** `mem` is memory word by word, with the fields of free chunks in it; the program fills what
it gets with junk. `memalloc` is split by outcome (`alloc_from_list`, `alloc_from_system`,
`alloc_refused`, and `alloc_overruns`, `alloc_strays` where the code leaves its memory),
`memfree` by the neighbours it joins. A loop over the list is a `Walk`: the chunks met until
null, or until memory ends, or for ever round. `slips` collects frees that do not keep the
list in order: `"rest"` (what followed the left neighbour is dropped), `"predecessor"` (it
goes on pointing into a merged chunk), `"order"` (both neighbours joined in the other
order).

**`DirSize`** A process is known by the path of its directory and has a stack of calls of
`getDirSize` (a link is followed by a call in the same process), a set of pipe ends, and a
status. `fork_child` passes on the ends that are open; `AtEnd` is the end of a pipe: empty
and no process has its write end. `fail` stands for an error of any call to the host.
Both programs are modelled: `myDU` follows links, the variant adds the size of what they
lead to. `disk.misread` is where a link may seem to lead when its target is read together
with what the buffer held.

Next to some definitions stands a *mutant*: the definition with a plausible mistake,
used by no specification. `PROJECT.json` pairs each property of each passing run with
a mutant that breaks it.

## Runs

The `MC` modules instantiate the components.

| Run | Shows |
|---|---|
| `VmAreaOne` | one process: list ordered and disjoint, count right, every `munmap` ends, the list implements `AddrMap` |
| `VmAreaPlace` | first fit finds the lowest gap in lists without empty areas, hints are honoured exactly when free, only an idle `mprotect` leaves a seam, `mmap` and `mprotect` change just the pages they are asked to |
| `VmAreaFork` | the lists of two processes implement `AddrMap` |
| `PagingSafe` | two processes, one mmap page and a data page each, in one directory, three frames, all calls: counts, write protection, permissions |
| `PagingTables` | one process with a stack page and two mmap pages in a table, of which the first is in the scanned part: permissions hold, and every access ends |
| `PagingMemory` | five frames, no `mprotect`: memory is private |
| `PagingProtect` | violated, see below |
| `TraceBuffer` | types, consistency, bounded queue, calls return |
| `Strace` | two processes trace, fork, close, read and exit: the list keeps in step, descriptors name buffers of their own until one is shared by fork, the reader hangs on broken or empty buffers only, the ring is a queue of whole records |
| `Ftrace` | two functions patched and restored while they run: the program behaves as if untraced, records are its calls with their backtraces, every function can be restored unless patched twice |
| `Heap` | allocations and frees in any order: no memory twice, the list is sound, nothing lost, up to the frees named in `slips` |
| `DirSize` | three file trees, both programs, any call failing: sizes conserved, parents wait for children, all processes end |

`PagingProtect` is violated: the test expects a write to a page that `mprotect` made read
only to fault with error code 7, page present; `&= ~(0x3)` in `updatePTPermissions`
clears the present bit of the table, and the page is gone.

Further disagreements the models contain, since they follow the code, without a run
that singles them out:

* `munmap` can return an error after it has unmapped the whole range: one that ends just
  where the next area begins leaves a length of 0 and falls out of the loop (`v2p.c:806`);
* `munmap` of the whole of an area and more leaves an area of no bytes in the list;
* the rounding of a length near `INT_MAX` wraps and can shrink an area;
* `do_cfork` copies page tables from an address it has not set (`v2p.c:1049`), so the child
  may miss its parent's mmap pages;
* an area of no bytes splits a gap in two, so `allocVMArea` need not find "the first
  legal vm_area" (`v2p.c:42`); `FirstLegalInTidyLists` holds of lists without one;
* the first `mmap` of any process sets the global count to 1 (`v2p.c:588`), so
  `CountMatches` holds with one process only;
* `handle_cow_fault` copies also when the process is the only user of the frame
  (`v2p.c:1128`), and does not check that it got one: without a free frame the copy goes
  to frame 0;
* a trace buffer opened for writing only can be read (`tracer.c:89`);
* enabling a function twice saves the patched bytes as the original (`tracer.c:716`), and it
  can never be restored: `Recoverable` is claimed of the others;
* `perform_tracing` records the number of arguments its table has for a call, which for
  some calls is not what they take; the model has the table;
* closing a trace buffer frees it for every process that shares it (`tracer.c:61`), so
  `DescriptorsOwn` is claimed until one forks with a buffer open;
* a freed chunk "should be inserted at the head of the free list"
  (`Assignment1/Part3/Testcases/test2.c:5`), but `memfree` leaves a chunk joined to its left
  neighbour, or put in the place of its right one, where that was; joining to the left alone
  also drops the rest of the list (`mylib.c:388`).

### Bounds

* A page is two bytes, so that addresses and lengths between pages exist; the region
  has two to four pages after the dummy one. Four pages are room for an area with a
  neighbour on each side and a gap, which is every branch of the merging and cutting.
  `IntMax` is below the region, as `INT_MAX` is below `MMAP_AREA_START`, so that only the
  rounding can wrap.
* Lengths are none, one page less a byte (rounded up), two and three pages; lengths
  near `IntMax` are left out: they reverse the list. A negative length is refused at once and is left to the code's first test.
* `ShortLists` stops at four areas: lists can grow without end, by areas of no bytes
  and by repeated `mprotect` to the protection an area already has.
* `MapView` leaves out of a state the count and the last result, on which neither the
  map nor any guard depends.
* `PagingSafe` has three frames for at most four mappings, so frames run out, and
  enough for one copy; `PagingMemory` has five, one more than mappings, since a copy
  takes the new frame before it gives up the old. Without that, or with `mprotect`, the
  refinement fails since contents are lost, as above. `UsedView` leaves out what
  free frames hold; a first use can fill a page with anything.
* `MaxRefs` bounds the reference counts: a table that `mprotect` drops leaks its
  references, and with `cfork` a count can grow for ever. Two processes with one mmap
  page need two.
* Symmetry is used in runs without liveness only, over processes, frames and values.
* The ring of `TraceBuffer` has three bytes of two values, and counts reach its size and
  pass it. The theorems cover every size.
* `Strace`: a ring of four bytes and words of one, so that records of one to three words fit,
  wrap around, or are cut; one of the calls has the delimiter among its bytes. One buffer,
  one descriptor and a list of two calls of three; reads ask for one record or for more
  than there are. `OneHead` keeps one head in use at a time: two in use know nothing of
  each other. `Used` leaves out of a state what no process reads again: bytes given out,
  the contents of broken or closed buffers, heads nobody points to.
* `Ftrace`: two functions, a depth of `MaxDepth` calls, which passes `PageWords`, a ring of six
  bytes, one argument that may be the delimiter. `Used` is the same view of the buffer.
* `Heap`: memory of two units of nine words; requests of nothing, of chunks of 3, 4 and 6
  words, of all but a word of a unit, and of more than a unit. That is room for four chunks and
  so for all of a chunk's neighbourhoods. `Used` keeps the words the list and held chunks
  need. `FewOnceBent` follows a bent list only while at most two chunks are held: nothing
  is claimed of it.
* `DirSize`: a tree two levels deep with three children at the top, a link to a directory
  beside two children, a link back to the top. Pipes hold one size, so children wait
  while their parent is still forking; sizes are powers of two, so that a sum tells what is
  in it. `MaxFds` ends the loop of links, and cuts deep calls off.
* Deadlock is not checked where the system may stop: when the last process has ended or
  the kernel halts (Paging), when memory the kernel does not own is used (`wild` in Strace,
  Ftrace and Heap), when the program has ended (DirSize; `Termination` says that it does).

### Fairness

`FairOrderlySpec` and the trace buffer's `FairSpec` assume that a call that has begun
goes on, which holds since the kernel is not preempted. `Paging`'s `FairSpec` assumes
the same of its calls, and strong fairness of each process's access or fault: round
robin comes back to a process however often the others enter calls in between. No
fairness is assumed of what users call. `DirSize` assumes that some process that can go on
does (`WF_vars(Next)`), which any scheduler gives; each process takes finitely many steps, so no
more is needed.

## Proofs

`TraceBufferProofs` proves, for every size of the ring, every set of bytes and every set
of counts (`BufferAssumption`: the size is a positive natural number, counts are natural
numbers):

* `Typed`: `Spec => []TypeOK`;
* `Consistent`: `Spec => []RingConsistent`;
* `RingIsFifo`: `Spec => IsFifo`, the refinement.

`TypeOK /\ RingConsistent` is inductive. `RingConsistent` is what makes it so: that the
two offsets are -1 together has to be said of the call's copies and of the fields, and
a running call has to own the field it changes last, or the steps after its loop could
not be shown to leave a ring in order. The refinement needs it too: a step of the ring
is an `Append` or a `Tail` of the queue only when the reader's ring is not empty and the
writer's not full. The lemmas before it say how `Contents` changes when one offset
moves, with and without going around the end.

`VmAreaProofs` proves, for any processes, any page size, region and largest int, and any
addresses and lengths passed (`LayoutAssumption`: the region begins and ends at a page and has
room for the dummy area; an int cannot reach the region; addresses are natural numbers):

* `TypesKept`: `OrderlySpec => []TypeOK`, so no turn of the `munmap` loop leaves the list;
* `AreasStayOrdered`: `OrderlySpec => []AreasOrdered`;
* `CountsMatch`: `OrderlySpec => []CountMatches` if there is one process.

`AreasOrdered` compares neighbours and is not inductive in a form the provers can use: that an
area lies behind all those before it needs induction over the list. `Sorted` compares any two
areas instead, and `IInv` has it of every list, with the dummy area at the head (`ListInv`),
the count for one process (`CountInv`), and of a running `munmap` that it is at a node of its
list with whole pages behind the dummy area still to do (`CallInv`). `SpliceSorted` and
`ReplaceSorted` say when areas may take the place of others; `PlacedSound`, `CutSound` and
`ReprotectedSound` go through the ways in which `mmap`, `munmap` and `mprotect` merge and split,
and compare the length of the new list with the change to the count. No area joins the dummy
one, because its flags are 0. `RoundedFits` is why `munmap` of a range that ends inside a page
cuts no more than its area: what has room for a length has room for its rounding. `LowestIn`,
that a search which can end does, comes from the library's theorem that strict inclusion of
finite sets is well founded.

`PagingProofs` proves, for any number of processes, pages, tables, directories, frames and
contents (`LayoutAssumption`: pages are numbers, processes and pages finitely many, frame 0 is
no frame of the pool, the scanned pages are of the mmap region):

* `TypesKept`: `Spec => []TypeOK`, which says that reference counts stay natural numbers;
* `CountsCoverMappings`: `Spec => []RefsCoverMappings`;
* `SharedFramesProtected`: `Spec => []SharedReadOnly`;
* `TablesKeepPermissions`: `Spec => []PermissionsKept`.

The inductive invariant `Inv` has three parts. `RefsInv` is the counting: a frame's count is
at least the number of places that name it. `Swapped` changes one entry and two counts; the
lemmas on `Places` say how the number of places follows, `GoneKeepsRefs` does it for a
whole process. `Sharing` says pairwise what `SharedReadOnly` says with a cardinality.
`PermInv` has to hold in the middle of a call, too: a page a running `munmap` or `mprotect` is
done with counts with the protection its area is about to have (`Granted`). `ChildInv`
carries it over a `cfork`: the child under construction has pages of its parent's areas
only, and none it can write to. A copy or an unsharing takes a frame with no references,
and by `RefsInv` no entry names that (`FreeFrameUnnamed`); a frame with one reference has no
other entry (`LastReference`), which is why `mprotect` may make it writable in place. The
proof of `MapsKeepsInv` shows why a new table or directory brings back no entry.

On top of that, `PrivInv` serves the refinement of `PrivateMemory`:

* `MemoryStaysPrivate`: `EnoughFrames /\ Spec => KeepsPrivateMemory`.

`EnoughFrames` says that there is no `mprotect`, that there are more frames than there are pages
of all processes, and that no page is filled with what stands for no content. Without it the
refinement is false, as the findings below the runs say: contents are lost. No state or step is excluded
otherwise: the hypothesis is on constants alone, and the run `PagingMemory` has them. `Solid`
is that an entry names a frame if and only if the tables lead to it, `NoLeaks` that no reference
belongs to nobody, so that a frame is always left (`FrameLeft`, by counting), and `MakingInv` that a
process outside has no pages but those a `cfork` is copying for it.

From where `Flags` is defined, `VmAreaProofs` goes on from the lists to the pages they stand for:

* `PageMapKept`: `OrderlySpec => KeepsAddrMap`, the refinement of `AddrMap`;
* `CallsStayExact`: `OrderlySpec => CallsAreExact`;
* `HintsAreHonoured`: `OrderlySpec => HintHonoured`;
* `FirstLegalAssigned`: `OrderlySpec => FirstLegalInTidyLists`;
* `SeamsAreIdle`: `OrderlySpec => SeamsOnlyFromIdleProtect`.

The first two need `MapInv`: besides `IInv` no area above the dummy one has flags 0, which would
be taken for a page that is not mapped (`Colored`), and a running `munmap` has passed only areas
that end before what it has still to do (`Passed`), or a turn that finds nothing could not be shown to leave
nothing behind. The argument is on what a list holds at an address (`Holds`): areas spliced into it
replace what is held between the first and the last that go (`SpliceHolds`), and each way of
merging and cutting is one splice. The other three are action properties from `IInv`. In a list
without empty areas an address with room is one in a gap between neighbours, so the first gap that
is long enough begins at the lowest. Seams are counted by sending each seam of the new list to one of
the old list; only an `mprotect` that changes nothing fails to.

`TraceLemmas` has what both tracers rest on: `RemoveAt`, and the ring. A buffer is `Closed`
when it is empty or its last byte is a delimiter. `WriteRecord` closes the buffer unless the record was cut,
whatever the size of ring and word; `ReadTurn` ends on a closed buffer with bytes
in it, since the search meets a delimiter, and leaves it closed. Records are written word by
word, so the lemmas count up along `Written` and `Turns` instead of going by induction over data.

`StraceProofs` proves, for any processes, files, descriptors, calls and sizes
(`StraceAssumption`, `RingAssumption`):

* `TypesHold`: `Spec => []TypeOK`;
* `ListsStayConsistent`: `Spec => []ListConsistent`;
* `DescriptorsStayOwn`: `Spec => []DescriptorsOwn`;
* `ReadersEnd`: `Spec => []HangsOnlyOnBroken`;
* `RecordsAreQueued`: `CallsComplete` implies `Spec => IsRecordQueue`, the refinement.

In `IInv`, `HeadInv` is inductive for the list: with `last` at the last node, an addition goes
behind it and a removal of the last one finds its predecessor. `FileInv` is for the descriptors:
before the first fork with a buffer open, every descriptor names an allocated
object and no two name the same. `CallInv` says who is served, and `RingInv` that a buffer
which is not broken is closed: that is why a reader ends.

The refinement reads the queue off the ring by splitting its bytes at the delimiters.
Splitting is not recursive: the n-th record lies behind the n-th place a delimiter is at (`Nth`),
and `Marks` says of a function from 1 .. n that it lists these places in order. So the lemmas of
`TraceLemmas` give places for the new bytes from those for the old: `SplitBehind` when a record is
appended, `SplitAhead` when a turn of the reader takes the first, `NthInOrder` that there is only one
such list. `QueueInv` keeps the bytes of a buffer that is not broken `Splittable`, which with
`RingInv` is all that a step needs. `CallsComplete` says that each system call comes with as many
arguments as `perform_tracing` records of it, as user code leaves them in registers; with fewer a
record would hold what the model gives no value. It is a hypothesis on constants, which
`MCStrace` assumes, too, so that the run `Strace` evaluates it.

`FtraceProofs` proves, for any functions, limits, ring and depth (`FtraceAssumption`,
`RingAssumption`: among others, `main` and `END_ADDR`, which ends a backtrace, are no addresses of
traced functions, and a null pointer is no ring):

* `TypesHold`: `Spec => []TypeOK`;
* `ListStaysConsistent`: `Spec => []ListConsistent`;
* `FunctionsRecoverable`: `Spec => []Recoverable`;
* `ReadersEnd`: `Spec => []HangsOnlyOnBroken`;
* `CallsAreTraced`: `Spec => IsCallTrace`, the refinement.

`BackupInv`: a node with a backup of a
function never patched twice has its original bytes; a function without node
is not patched, so the fault handler finds a node (`FaultInv`). `FrameInv` is about the
stack: every saved rbp but the first leads to another one further down, with a return address above
it (`Linked`), so the walk for a backtrace ends at the frame of `main` and meets calls in progress
only. It has to hold between a call and the first bytes of the function too, where the return address
is on top and the frame not yet made.

For the refinement the calls in progress have to be found on the stack exactly, not only reached.
`PlacesInv` gives the places of the return addresses from the bottom up, one for each call, each
followed by the rbp the function has saved; `ChainReversed` shows that the walk of the fault handler meets the same places
from the top down, so that the backtrace it writes is the reverse of what `CallTrace` has.
`KeptInv` is to the records what `QueueInv` is in `StraceProofs`, with the same lemmas on splitting.

`DirSizeProofs` proves, for any disks, any capacity of pipes and any limit of descriptors
(`DirSizeAssumption`: directories are finite, an entry is of one kind, and links lead in the end to
something that is no link, since `stat` and `opendir` follow a link to its end or fail):

* `TypesHold`: `Spec => []TypeOK`;
* `AllAreWaitedFor`: `Spec => []WaitsForAll`;
* `SizesConserved`: `Spec => []Conserved`.

A parent does not call `wait`; it reads to the end of a pipe, which comes when no process has the
write end. So `WaitsForAll` rests on who has which descriptor. `Local` says it of one process: its
calls are a chain of links (`Chained`), its ends are those of its own calls while they scan, and
of pipes above it (`OwnEnds`), and as long as it lives it can write to the call that forked
it and to the first of all (`Inherited`). When a call is at the end of its pipe, no child of it
lives. That argument needs to know that a path identifies a call: no two have the same (`Unique`),
and below an entry still to come there has been none (`Fresh`). `PipeInv` and `Covered` keep
the functions within their domains.

`Conserved` adds up what processes have counted, what is in pipes and what entries still to be seen are
worth. `SumFunction` adds by choosing one argument after the other; `AddsAny` shows that any may be
taken first, from a least set for which it could fail, and `SumChange`, `SumMore`, `SumAppend` and
`SumHead` follow: what a sum becomes when one of its parts does. `WorthWeighed` shows that there
is a function as `Worth` defines it, by counting up the depth. `Tidied` is what more than `IInv` has
to hold: sets are finite, so that they can be added up, a call past opening its pipe has the end to
read from and room for the calls below it, and one before that has no pipe yet, nor has anything below an
entry still to come. Each action is then one lemma (`EnterBalance`, `ForkBalance`,
`ReportBalance`, ...) with the conclusion `Balanced`: the sum does not grow, and gets less only when
some process has failed. The hard one is `ReportBalance`: a child is killed as it writes only when its
parent has failed (`NobodyReads`), since a parent in the call that forked it has the end to read from.

`HeapProofs` proves, for any unit, any amount of memory and any requests (`HeapAssumption`: unit
and memory are not empty, requests are natural numbers):

* `TypesHold`: `Spec => []TypeOK`;
* `HeldApartHolds`: `Spec => []HeldApart`;
* `ListStaysSound`: `Spec => []ListSound`;
* `NothingIsLost`: `Spec => []NothingLost`.

`TypesHold` holds however bent the list is. It needs that a word of memory that looks like a size is
one of a chunk in the program's memory (`SizesMapped`), or a merge of what is no longer a chunk could
lead anywhere.

The other three come from one invariant, `HeapInv`: unless a free has bent the list there is a sequence
`c` of chunks which is the list (`IsList`: every pointer forth and back is the next and the one
before in `c`), and with what is held they are a tiling (`Tiled`: each lies in mapped memory, two
of them apart); if no free has lost a part of the list they cover the memory and neighbours are
merged (`Full`). The properties speak of `Walked`, what a search meets; `ListWalk` shows
that it is `c`, by counting along `Paths`. `c` is what makes the proof short of
induction: each operation says how the next `c` comes from this one, by cutting a stretch out (`Cut`:
a chunk taken, the rest dropped, a neighbour merged away) or putting a chunk in front (`Before`:
the rest of a split, new memory, a freed chunk). `CutLinks` and `HeadLinks` show that the few pointers the code
writes are all that has to change, since fields of different chunks are different words;
`TiledMerge`, `TiledSplit`, `TiledNew` do the same for the tiling. `FitOfList` and
`FreesStay` show that no search of a sound list goes astray, `BothStep` why the places of the two
neighbours decide whether the list can still be trusted.

### Only model-checked

All liveness (`UnmapEnds`, `AccessEnds`, `CallsReturn`, `Termination`), since fairness is beyond
the proof system. Everything else the passing runs check is a theorem, under the hypotheses named
above.

## Not modelled

* `is_valid_mem_range`: it reads the areas of a process and changes nothing; `TraceBuffer`
  takes its answer as an input.
* Areas and page tables in one state. They meet in the protection of a page, which `Paging`
  has as `perm`, and in the ranges calls go over, which `Paging` chooses freely; with list and
  frames together two pages are too many states for what it would add.
* The chained programs of `Assignment1/Part1`: each computes one number and replaces itself.
* The kernel core (scheduler, frame allocator, exit, fault entry), present as object files:
  external actions. The user library has stubs only; the test programs are read for what
  they expect.
* Calls on the dummy area and lengths whose rounding wraps; requests to the allocator near
  the largest unsigned number; what memory holds after it has been overrun.

## Plan

1. Areas and page tables in one module, once the state can be kept small: that the protection
   `Paging` has of a page is the one `VmArea` has of its address is by reading only.
2. `is_valid_mem_range` over the areas of `VmArea`, with the three kinds of range it accepts.
