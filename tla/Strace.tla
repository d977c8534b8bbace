------------------------------- MODULE Strace -------------------------------
(***************************************************************************)
(* System call tracing (Assignment2/gemOS/src/tracer.c).  do_syscall       *)
(* passes every call to perform_tracing before it serves it, and that      *)
(* appends a record of the call to the trace buffer the process chose with *)
(* start_strace, if the call is one to trace.  The list of calls to trace  *)
(* hangs off a head that parent and child share after a fork.              *)
(* The kernel checks little of what it is given, and end_strace frees what *)
(* the process goes on using: a step that leaves the memory the kernel     *)
(* owns sets wild, and nothing is said of what comes after it.             *)
(***************************************************************************)
EXTENDS TraceFiles

CONSTANTS
  First,       \* the first process
  STRACE_MAX,
  Ordinary,    \* calls that do nothing here: sequences of number and arguments
  Numbers,     \* calls programs ask to trace
  StartFds,    \* descriptors they give to start_strace
  Counts,      \* numbers of records they ask for
  Around       \* what may be in front of a buffer's page, and in it when fresh

(* include/entry.h, include/tracer.h, include/file.h *)
EXIT == 1
FORK == 10
CLOSE == 29
TRACE_BUFFER == 36
START_STRACE == 37
END_STRACE == 38
READ_STRACE == 39
STRACE == 40
FULL_TRACING == 0
FILTERED_TRACING == 1
ADD_STRACE == 0
REMOVE_STRACE == 1
O_RDWR == 3

ASSUME StraceAssumption ==
  /\ First \in Procs /\ STRACE_MAX \in Nat \ {0}
  /\ NULL \notin Procs \cup Numbers \cup Nat
  /\ Numbers \cup Counts \cup Around \subseteq Nat
  /\ \A w \in Ordinary :
       /\ w \in Seq(Nat) /\ w # <<>>
       /\ Head(w) \notin {EXIT, FORK, CLOSE, TRACE_BUFFER, START_STRACE, END_STRACE, READ_STRACE, STRACE}

VARIABLES
  base,     \* st_md_base of each process: the head it uses, named by who made it
  head,     \* strace_head and the list behind it
  low8,     \* word at address 8, which is the next field of a null node
  call,     \* system call being served
  out,      \* bytes the last read gave its caller
  wild,     \* how the kernel left its memory, "no" while it has not
  broken,   \* buffers with a record cut, or one not plain, or read while empty
  shared    \* a process has forked with a trace buffer open

vars == <<file_vars, base, head, low8, call, out, wild, broken, shared>>
others == <<base, head, low8, shared>>

NoCall == [by |-> NULL, nr |-> 0, args |-> <<>>]
NoHead == [where |-> "none", is_traced |-> 0, strace_fd |-> 0, tracing_mode |-> 0,
           calls |-> <<>>, count |-> 0, last |-> NULL]

Init ==
  /\ \E fill \in Around : FilesInit(First, fill)
  /\ base = [p \in Procs |-> NULL]
  /\ head = [p \in Procs |-> NoHead]
  /\ low8 = NULL
  /\ call = NoCall
  /\ out = <<>>
  /\ wild = "no"
  /\ broken = {}
  /\ shared = FALSE

-----------------------------------------------------------------------------
(* perform_tracing                                                         *)

(* How many arguments it records, by the number of the call                *)
Recorded(nr) ==
  CASE nr \in {1, 7, 14, 19, 27, 29, 36} -> 1
    [] nr \in {4, 8, 9, 12, 17, 23, 28, 37, 40} -> 2
    [] nr \in {18, 24, 25, 30, 39, 41} -> 3
    [] nr \in {16, 35} -> 4
    [] OTHER -> 0

(* Arguments the caller did not pass are what its registers hold.          *)
RecordWords(c) ==
  <<c.nr>> \o [i \in 1 .. Recorded(c.nr) |-> IF i <= Len(c.args) THEN c.args[i] ELSE 0]

ToTrace(c) ==
  /\ c.nr \notin {START_STRACE, END_STRACE}
  /\ base[c.by] # NULL
  /\ LET h == head[base[c.by]]
     IN h.is_traced = c.by /\ (h.tracing_mode = FILTERED_TRACING => c.nr \in ToSet(h.calls))

TraceTo(c) == Slot(c.by, head[base[c.by]].strace_fd)

Untraced(c) ==
  /\ ToTrace(c) => TraceTo(c) = NULL
  /\ UNCHANGED <<ring, broken>>

Traced(c) ==
  /\ ToTrace(c)
  /\ Usable(TraceTo(c))
  /\ LET f == TraceTo(c)
         words == RecordWords(c)
     IN /\ ring' = [ring EXCEPT ![f] = WriteRecord(@, words)]
        /\ broken' = IF Whole(ring[f], words) /\ Plain(words) THEN broken ELSE broken \cup {f}

perform_tracing(c) ==
  /\ call = NoCall /\ wild = "no"
  /\ c.by \in alive
  /\ Untraced(c) \/ Traced(c)
  /\ call' = c
  /\ out' = <<>>
  /\ UNCHANGED <<others, alive, files, held, wild>>

(* Nothing is said of what follows.                                        *)
Leaves(how) ==
  /\ wild = "no"
  /\ wild' = how
  /\ UNCHANGED <<file_vars, others, call, out, broken>>

perform_tracing_strays(c) ==
  /\ call = NoCall
  /\ c.by \in alive
  /\ ToTrace(c) /\ TraceTo(c) # NULL /\ ~Usable(TraceTo(c))
  /\ Leaves(IF TraceTo(c) = "outside" THEN "outside" ELSE "file")

-----------------------------------------------------------------------------
(* The calls themselves                                                    *)
Serving(nr) == call.nr = nr /\ wild = "no"
Done == call' = NoCall /\ UNCHANGED wild

Ordinary_call ==
  /\ <<call.nr>> \o call.args \in Ordinary /\ wild = "no"
  /\ Done
  /\ UNCHANGED <<file_vars, others, out, broken>>

Create ==
  /\ Serving(TRACE_BUFFER)
  /\ \/ create_refused(call.by) /\ UNCHANGED broken
     \/ \E f \in Files : sys_create_trace_buffer(call.by, f) /\ broken' = broken \ {f}
  /\ Done
  /\ UNCHANGED <<others, out>>

Close ==
  /\ Serving(CLOSE)
  /\ LET f == files[call.by][call.args[1]]
     IN \/ f = NULL /\ UNCHANGED <<file_vars, broken>>
        \/ trace_buffer_close(call.by, call.args[1]) /\ broken' = broken \ {f}
  /\ Done
  /\ UNCHANGED <<others, out>>

Fork ==
  /\ Serving(FORK)
  /\ \/ /\ \E child \in Procs :
             /\ do_fork(call.by, child)
             /\ base' = [base EXCEPT ![child] = base[call.by]]
        /\ shared' = (shared \/ Opened(call.by) # {})
     \/ alive = Procs /\ UNCHANGED <<file_vars, base, shared>>
  /\ Done
  /\ UNCHANGED <<head, low8, out, broken>>

Exit ==
  /\ Serving(EXIT)
  /\ do_exit(call.by)
  /\ broken' = broken \ Opened(call.by)
  /\ Done
  /\ UNCHANGED <<others, out>>

StraysClosing ==
  /\ \/ Serving(CLOSE) /\ files[call.by][call.args[1]] \notin held \cup {NULL}
     \/ Serving(EXIT) /\ ~(Opened(call.by) \subseteq held)
  /\ Leaves("file")

-----------------------------------------------------------------------------
(* sys_strace.  The head is allocated when the process has none.           *)
Mine(p) == IF base[p] = NULL THEN p ELSE base[p]
Head_of(p) == IF base[p] = NULL THEN [NoHead EXCEPT !.where = "live"] ELSE head[base[p]]
SetHead(p, h) ==
  /\ head' = [head EXCEPT ![Mine(p)] = h]
  /\ base' = [base EXCEPT ![p] = Mine(p)]

(* A new node goes behind the node last points to, in the list or not.     *)
AddNode(h, nr) ==
  IF h.count = STRACE_MAX \/ nr \in ToSet(h.calls)
  THEN h
  ELSE [h EXCEPT !.calls = IF h.count = 0 THEN <<nr>>
                           ELSE IF h.last = Last(h.calls) THEN Append(@, nr) ELSE @,
                 !.count = @ + 1,
                 !.last = nr]

Place(calls, nr) == Min({i \in DOMAIN calls : calls[i] = nr})

(* Mutant of RemoveNode: last is left at the freed node.                   *)
RemoveNode_KeepsLast(h, nr) ==
  IF nr \notin ToSet(h.calls)
  THEN h
  ELSE [h EXCEPT !.calls = RemoveAt(@, Place(@, nr)), !.count = @ - 1]

RemoveNode(h, nr) ==
  LET left == RemoveAt(h.calls, Place(h.calls, nr))
  IN IF nr \notin ToSet(h.calls)
     THEN h
     ELSE [h EXCEPT !.calls = left,
                    !.count = @ - 1,
                    !.last = IF nr # Last(h.calls) THEN @
                             ELSE IF left = <<>> THEN NULL ELSE Last(left)]

sys_strace ==
  /\ Serving(STRACE)
  /\ LET h == Head_of(call.by)
         nr == call.args[1]
     IN \/ /\ call.args[2] = ADD_STRACE
           /\ SetHead(call.by, AddNode(h, nr))
           /\ UNCHANGED low8
        \/ /\ call.args[2] = REMOVE_STRACE
           /\ SetHead(call.by, RemoveNode(h, nr))
           /\ low8' = IF h.calls = <<>> THEN NULL ELSE Head(h.calls)   \* prev->next, prev null
  /\ Done
  /\ UNCHANGED <<file_vars, shared, out, broken>>

sys_start_strace ==
  /\ Serving(START_STRACE)
  /\ LET fd == call.args[1]
         mode == call.args[2]
     IN \/ fd < 0 /\ UNCHANGED <<base, head>>
        \/ /\ fd >= 0 /\ mode \in {FULL_TRACING, FILTERED_TRACING}
           /\ SetHead(call.by, [Head_of(call.by) EXCEPT !.strace_fd = fd, !.is_traced = call.by,
                                                        !.tracing_mode = mode])
  /\ Done
  /\ UNCHANGED <<file_vars, low8, shared, out, broken>>

(* sys_end_strace frees the nodes up to last->next, and the head, and      *)
(* leaves st_md_base pointing there.  os_free does not touch what it frees. *)
EndsCleanly(h) == h.where = "live" /\ (h.last = NULL => low8 = NULL)

sys_end_strace ==
  /\ Serving(END_STRACE)
  /\ base[call.by] # NULL
  /\ EndsCleanly(head[base[call.by]])
  /\ head' = [head EXCEPT ![base[call.by]].where = "freed", ![base[call.by]].is_traced = 0]
  /\ Done
  /\ UNCHANGED <<file_vars, base, low8, shared, out, broken>>

(* With no head, or an empty list and address 8 not null, it frees null;   *)
(* the second time it frees what is free.                                  *)
sys_end_strace_strays ==
  /\ Serving(END_STRACE)
  /\ base[call.by] # NULL => ~EndsCleanly(head[base[call.by]])
  /\ Leaves(IF base[call.by] # NULL /\ head[base[call.by]].where = "freed" THEN "head" ELSE "null")

(* What is freed is given out again, oldest first, to the next allocations *)
(* of its size: list nodes, heads, trace_buffer_info, fileops.             *)
Reuse ==
  /\ \/ Serving(STRACE) /\ (call.args[2] = ADD_STRACE \/ base[call.by] = NULL)
     \/ Serving(START_STRACE) /\ base[call.by] = NULL
     \/ Serving(TRACE_BUFFER) /\ FreeFds(call.by) # {}
  /\ \E h \in Procs : head[h].where = "freed"
  /\ Leaves("head")

-----------------------------------------------------------------------------
(* sys_read_strace                                                         *)
sys_read_strace ==
  /\ Serving(READ_STRACE)
  /\ LET f == files[call.by][call.args[1]]
         got(before) == ReadRecords(ring[f], call.args[3], before)
     IN \/ f = NULL /\ out' = <<>> /\ UNCHANGED <<ring, broken>>
        \/ \E before \in Around :
             /\ Usable(f)
             /\ got(before).state # "hangs"
             /\ ring' = [ring EXCEPT ![f] = RingOf(got(before))]
             /\ out' = got(before).out
             /\ broken' = IF Isempty(ring[f]) THEN broken \cup {f} ELSE broken
  /\ Done
  /\ UNCHANGED <<others, alive, files, held>>

ReadStrays ==
  /\ Serving(READ_STRACE)
  /\ files[call.by][call.args[1]] \notin held \cup {NULL}
  /\ Leaves("file")

ReadHangs ==
  /\ Serving(READ_STRACE)
  /\ LET f == files[call.by][call.args[1]]
     IN /\ Usable(f)
        /\ \E before \in Around : ReadRecords(ring[f], call.args[3], before).state = "hangs"
  /\ Leaves("hang")

-----------------------------------------------------------------------------
Calls ==
  {<<EXIT, 0>>, <<FORK>>, <<TRACE_BUFFER, O_RDWR>>, <<END_STRACE>>}
    \cup Ordinary
    \cup {<<CLOSE, fd>> : fd \in Fds}
    \cup {<<START_STRACE, fd, mode>> : fd \in StartFds, mode \in {FULL_TRACING, FILTERED_TRACING}}
    \cup {<<STRACE, nr, action>> : nr \in Numbers, action \in {ADD_STRACE, REMOVE_STRACE}}
    \cup {<<READ_STRACE, fd, 0, n>> : fd \in Fds, n \in Counts}

Next ==
  \/ \E p \in Procs, w \in Calls :
       LET c == [by |-> p, nr |-> Head(w), args |-> Tail(w)]
       IN perform_tracing(c) \/ perform_tracing_strays(c)
  \/ Ordinary_call
  \/ Create \/ Close \/ Fork \/ Exit \/ StraysClosing
  \/ sys_strace
  \/ sys_start_strace
  \/ sys_end_strace \/ sys_end_strace_strays
  \/ Reuse
  \/ sys_read_strace \/ ReadStrays \/ ReadHangs

Spec == Init /\ [][Next]_vars

-----------------------------------------------------------------------------
(* Properties                                                              *)

Heads == [where : {"none", "live", "freed"}, is_traced : Procs \cup {0}, strace_fd : StartFds \cup {0},
          tracing_mode : {FULL_TRACING, FILTERED_TRACING}, calls : Seq(Numbers),
          count : 0 .. STRACE_MAX, last : Numbers \cup {NULL}]

TypeOK ==
  /\ alive \subseteq Procs
  /\ files \in [Procs -> [Fds -> Files \cup {NULL}]]
  /\ ring \in [Files -> Rings]
  /\ held \subseteq Files
  /\ base \in [Procs -> Procs \cup {NULL}]
  /\ head \in [Procs -> Heads]
  /\ low8 \in Numbers \cup {NULL}
  /\ call.by \in Procs \cup {NULL}
  /\ wild \in {"no", "file", "outside", "head", "null", "hang"}
  /\ broken \subseteq held

(* sys_strace keeps the list, its count and its last pointer in step over  *)
(* any order of additions and removals, by parent and child alike: the     *)
(* next addition goes behind the last node, and to no freed one.           *)
ListConsistent ==
  \A h \in Procs :
    /\ head[h].count = Len(head[h].calls)
    /\ head[h].last = IF head[h].calls = <<>> THEN NULL ELSE Last(head[h].calls)
    /\ Cardinality(ToSet(head[h].calls)) = Len(head[h].calls)

(* As long as no process forks with a trace buffer open, every descriptor  *)
(* has a buffer of its own that is allocated, and no call touches a freed  *)
(* one (sys_create_trace_buffer, trace_buffer_close, do_exit).             *)
DescriptorsOwn ==
  shared \/ /\ wild # "file"
            /\ \A p, q \in Procs, fd, gd \in Fds :
                 files[p][fd] # NULL =>
                   /\ files[p][fd] \in held
                   /\ files[p][fd] = files[q][gd] => <<p, fd>> = <<q, gd>>

(* The reader's loop ends for every buffer that has records, all whole: it *)
(* runs for ever only on one that is broken or has nothing in it.          *)
HangsOnlyOnBroken ==
  wild = "hang" =>
    LET f == files[call.by][call.args[1]]
    IN f \in broken \/ Isempty(ring[f])

(* The other calls are made with the arguments perform_tracing records of  *)
(* them, all and no more.                                                  *)
CallsComplete == \A w \in Ordinary : Len(w) = 1 + Recorded(Head(w))

Promise ==
  INSTANCE RecordQueue WITH
    request <- IF call = NoCall THEN <<>> ELSE Flat(<<call.nr>> \o call.args),
    records <- [f \in Files |-> IF f \in held \ broken THEN Split(Contents(ring[f])) ELSE <<>>]

(* The records in a buffer, of the pieces perform_tracing writes, are read *)
(* back by sys_read_strace whole, in order and once, until the buffer is   *)
(* broken: however reads and writes wrap around the ring.                  *)
IsRecordQueue == Promise!Spec
=============================================================================
