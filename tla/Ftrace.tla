------------------------------- MODULE Ftrace -------------------------------
(***************************************************************************)
(* Function tracing (Assignment2/gemOS/src/tracer.c).  The first four      *)
(* bytes of a function, push rbp and mov rsp to rbp, are overwritten with  *)
(* bytes that are no instruction; a call then faults, and the handler      *)
(* writes a record of the call to a trace buffer, does what the four bytes *)
(* would have done and goes on behind them.  The program around it calls   *)
(* functions, returns from them, and makes the system calls.               *)
(***************************************************************************)
EXTENDS TraceRing

CONSTANTS
  Main,        \* main, which nobody traces
  Funcs,       \* addresses of the functions one may trace
  FTRACE_MAX,
  NArgs,       \* numbers of arguments given to ADD_FTRACE
  ArgLists,    \* what the argument registers hold at a call
  Counts,      \* numbers of records asked for
  PageWords,   \* addresses that fit in a page
  MaxDepth,    \* bound on the depth of calls
  NULL

END_ADDR == 59     \* where main returns to

ASSUME FtraceAssumption ==
  /\ FTRACE_MAX \in Nat \ {0} /\ PageWords \in Nat /\ MaxDepth \in Nat
  /\ Main \in Nat /\ Funcs \subseteq Nat /\ ArgLists \subseteq Seq(Nat)
  /\ NArgs \subseteq Nat /\ Counts \subseteq Nat
  /\ Main \notin Funcs /\ END_ADDR \notin Funcs \cup {Main}
  /\ NULL \notin Funcs /\ NULL \notin {"push", "invalid"} /\ NULL \notin Rings

MAX_ARGS == 5

VARIABLES
  rip,      \* function, and whether it is about to execute its first bytes
  stack,    \* words pushed, the last on top: rsp is its length
  rbp,      \* place of the word where the caller's rbp is saved
  code,     \* first bytes of each function: "push" or "invalid"
  list,     \* nodes of the traced functions
  count, last,   \* of the list's head
  buffer,   \* ring of the trace buffer, NULL while no descriptor has one
  out,      \* bytes the last read gave
  wild,     \* how the kernel left its memory, "no" while it has not
  broken,   \* a record was cut or not plain since the buffer was made
  twice     \* functions patched while they were patched

machine == <<rip, stack, rbp>>
lists == <<code, list, count, last, twice>>
vars == <<machine, lists, buffer, out, wild, broken>>

Word_at(kind, v) == [kind |-> kind, v |-> v]
Body(f) == [fn |-> f, place |-> "body", args |-> <<>>]

Fresh == [bytes |-> [i \in Index |-> 0], front |-> -1, rear |-> -1]

(* main has executed its own first bytes; its caller's rbp is 0.           *)
Init ==
  /\ rip = Body(Main)
  /\ stack = <<Word_at("return", END_ADDR), Word_at("rbp", 0)>>
  /\ rbp = 2
  /\ code = [f \in Funcs |-> "push"]
  /\ list = <<>> /\ count = 0 /\ last = NULL
  /\ buffer = NULL
  /\ out = <<>>
  /\ wild = "no"
  /\ broken = FALSE
  /\ twice = {}

-----------------------------------------------------------------------------
(* The program: call pushes the return address, leave and ret undo a frame *)
Running == rip.place = "body" /\ wild = "no"
Returns == {i \in DOMAIN stack : stack[i].kind = "return"}
Depth == Cardinality(Returns)

Call ==
  /\ Running
  /\ Depth <= MaxDepth
  /\ \E f \in Funcs, args \in ArgLists : rip' = [fn |-> f, place |-> "entry", args |-> args]
  /\ stack' = Append(stack, Word_at("return", rip.fn))
  /\ out' = <<>>
  /\ UNCHANGED <<rbp, lists, buffer, wild, broken>>

(* A function keeps a local variable on the stack: one at a time is enough *)
(* for frames of different sizes.                                          *)
Local ==
  /\ Running
  /\ \A i \in DOMAIN stack : stack[i].kind # "local"
  /\ stack' = Append(stack, Word_at("local", 0))
  /\ out' = <<>>
  /\ UNCHANGED <<rip, rbp, lists, buffer, wild, broken>>

Return ==
  /\ Running
  /\ rip.fn # Main
  /\ stack' = SubSeq(stack, 1, rbp - 2)
  /\ rbp' = stack[rbp].v
  /\ rip' = Body(stack[rbp - 1].v)
  /\ out' = <<>>
  /\ UNCHANGED <<lists, buffer, wild, broken>>

(* The first bytes of a function that is not patched                       *)
Prologue ==
  /\ stack' = Append(stack, Word_at("rbp", rbp))
  /\ rbp' = Len(stack')
  /\ rip' = Body(rip.fn)

Begin ==
  /\ rip.place = "entry" /\ wild = "no"
  /\ code[rip.fn] = "push"
  /\ Prologue
  /\ out' = <<>>
  /\ UNCHANGED <<lists, buffer, wild, broken>>

-----------------------------------------------------------------------------
(* handle_ftrace_fault                                                     *)
Nodes(f) == {i \in DOMAIN list : list[i].faddr = f}
Traced(f) == Nodes(f) # {}
NodeOf(f) == list[Min(Nodes(f))]

Leaves(how) ==
  /\ wild' = how
  /\ UNCHANGED <<machine, lists, buffer, out, broken>>

(* Return addresses along the chain of saved rbps, up to main's            *)
Chain(mem, start) ==
  LET after[n \in 0 .. Len(mem)] ==
        IF n = 0 THEN [at |-> start, found |-> <<>>, done |-> FALSE]
        ELSE LET c == after[n - 1]
             IN IF c.done THEN c
                ELSE IF mem[c.at - 1].v = END_ADDR THEN [c EXCEPT !.done = TRUE]
                ELSE [at |-> mem[c.at].v, found |-> Append(c.found, mem[c.at - 1].v), done |-> FALSE]
  IN after[Len(mem)].found

(* Mutants of Backtrace: it starts at the caller's frame, as rbp does      *)
(* before the handler has set it.                                          *)
Backtrace_Caller == Chain(stack', rbp)

Backtrace == Chain(stack', rbp')

(* What is written for a call of node's function: the address, as many     *)
(* arguments as asked for, and the address and the backtrace               *)
CallWords(node) ==
  <<rip.fn>> \o SubSeq(rip.args, 1, Min({node.num_args, MAX_ARGS, Len(rip.args)}))
    \o (IF node.capture_backtrace THEN <<rip.fn>> \o Backtrace ELSE <<>>)

(* Mutant of Emulate: rbp is not pointed at the new frame.                 *)
Emulate_KeepsRbp ==
  /\ stack' = Append(stack, Word_at("rbp", rbp))
  /\ UNCHANGED rbp
  /\ rip' = Body(rip.fn)

(* The handler does what the overwritten bytes would have done.            *)
Emulate ==
  /\ stack' = Append(stack, Word_at("rbp", rbp))
  /\ rbp' = Len(stack) + 1
  /\ rip' = Body(rip.fn)

Faults == rip.place = "entry" /\ wild = "no" /\ code[rip.fn] = "invalid"

(* The addresses of a backtrace are collected in a page, however many      *)
(* there are.                                                              *)
handle_ftrace_fault ==
  /\ Faults
  /\ Traced(rip.fn)
  /\ NodeOf(rip.fn).capture_backtrace => Depth - 1 <= PageWords
  /\ Emulate
  /\ LET words == CallWords(NodeOf(rip.fn))
     IN IF buffer = NULL
        THEN UNCHANGED <<buffer, broken>>
        ELSE /\ buffer' = WriteRecord(buffer, words)
             /\ broken' = (broken \/ ~(Whole(buffer, words) /\ Plain(words)))
  /\ out' = <<>>
  /\ UNCHANGED <<lists, wild>>

(* A function that is patched but not in the list: its node is null.       *)
fault_without_node ==
  /\ Faults
  /\ ~Traced(rip.fn)
  /\ Leaves("node")

backtrace_overflows ==
  /\ Faults
  /\ Traced(rip.fn)
  /\ NodeOf(rip.fn).capture_backtrace /\ Depth - 1 > PageWords
  /\ Leaves("page")

-----------------------------------------------------------------------------
(* do_ftrace                                                               *)
SystemCall == Running /\ out' = <<>> /\ UNCHANGED <<machine, buffer, wild, broken>>

(* add_ftrace: behind the node last points to                              *)
add_ftrace(f, n) ==
  /\ count < FTRACE_MAX /\ ~Traced(f)
  /\ LET node == [faddr |-> f, num_args |-> n, capture_backtrace |-> FALSE, code_backup |-> NULL]
     IN list' = IF last = NULL THEN <<node>>
                ELSE IF last = Last(list).faddr THEN Append(list, node) ELSE list
  /\ last' = f
  /\ count' = count + 1
  /\ UNCHANGED <<code, twice>>

SetNode(f, fields) == list' = [list EXCEPT ![Min(Nodes(f))] = fields]

(* The first bytes are saved and overwritten, whatever they are.           *)
Patch(f, node) ==
  /\ SetNode(f, [node EXCEPT !.code_backup = code[f]])
  /\ code' = [code EXCEPT ![f] = "invalid"]
  /\ twice' = IF code[f] = "invalid" THEN twice \cup {f} ELSE twice

Restored(f) == IF NodeOf(f).code_backup = NULL THEN code
               ELSE [code EXCEPT ![f] = NodeOf(f).code_backup]

enable_ftrace(f) ==
  /\ Traced(f)
  /\ Patch(f, NodeOf(f))
  /\ UNCHANGED <<count, last>>

(* Mutants of remove_ftrace: the bytes of a traced function are not put    *)
(* back; last is left at the freed node.                                   *)
remove_ftrace_Patched(f) ==
  /\ Traced(f)
  /\ list' = RemoveAt(list, Min(Nodes(f)))
  /\ last' = IF f # Last(list).faddr THEN last ELSE IF list' = <<>> THEN NULL ELSE Last(list').faddr
  /\ count' = count - 1
  /\ UNCHANGED <<code, twice>>
remove_ftrace_KeepsLast(f) ==
  /\ Traced(f)
  /\ code' = Restored(f)
  /\ list' = RemoveAt(list, Min(Nodes(f)))
  /\ count' = count - 1
  /\ UNCHANGED <<last, twice>>

remove_ftrace(f) ==
  /\ Traced(f)
  /\ code' = Restored(f)
  /\ list' = RemoveAt(list, Min(Nodes(f)))
  /\ last' = IF f # Last(list).faddr THEN last ELSE IF list' = <<>> THEN NULL ELSE Last(list').faddr
  /\ count' = count - 1
  /\ UNCHANGED twice

disable_ftrace(f) ==
  /\ Traced(f)
  /\ code' = Restored(f)
  /\ UNCHANGED <<list, count, last, twice>>

enable_backtrace(f) ==
  /\ Traced(f)
  /\ LET node == [NodeOf(f) EXCEPT !.capture_backtrace = TRUE]
     IN IF node.code_backup = NULL THEN Patch(f, node)
        ELSE SetNode(f, node) /\ UNCHANGED <<code, twice>>
  /\ UNCHANGED <<count, last>>

disable_backtrace(f) ==
  /\ Traced(f)
  /\ SetNode(f, [NodeOf(f) EXCEPT !.capture_backtrace = FALSE])
  /\ code' = Restored(f)
  /\ UNCHANGED <<count, last, twice>>

(* Refused: no such node, one already, or the list full                    *)
do_ftrace ==
  /\ SystemCall
  /\ \E f \in Funcs :
       \/ \E n \in NArgs : add_ftrace(f, n)
       \/ enable_ftrace(f) \/ remove_ftrace(f) \/ disable_ftrace(f)
       \/ enable_backtrace(f) \/ disable_backtrace(f)
       \/ (count = FTRACE_MAX \/ ~Traced(f)) /\ UNCHANGED lists

-----------------------------------------------------------------------------
(* The descriptor every node names: TraceFiles has its life in full.       *)
Create ==
  /\ Running
  /\ buffer = NULL
  /\ buffer' = Fresh
  /\ broken' = FALSE
  /\ out' = <<>>
  /\ UNCHANGED <<machine, lists, wild>>

Close ==
  /\ Running
  /\ buffer # NULL
  /\ buffer' = NULL
  /\ broken' = FALSE
  /\ out' = <<>>
  /\ UNCHANGED <<machine, lists, wild>>

(* sys_read_ftrace; unlike sys_read_strace it refuses an empty buffer.     *)
sys_read_ftrace(n) ==
  /\ Running
  /\ buffer # NULL
  /\ LET got == ReadRecords(buffer, n, 0)
     IN \/ /\ ~Isempty(buffer) /\ got.state # "hangs"
           /\ buffer' = RingOf(got)
           /\ out' = got.out
           /\ UNCHANGED wild
        \/ /\ Isempty(buffer)
           /\ out' = <<>>
           /\ UNCHANGED <<buffer, wild>>
        \/ /\ ~Isempty(buffer) /\ got.state = "hangs"
           /\ wild' = "hang"
           /\ UNCHANGED <<buffer, out>>
  /\ UNCHANGED <<machine, lists, broken>>

-----------------------------------------------------------------------------
Next ==
  \/ Call \/ Local \/ Return \/ Begin
  \/ handle_ftrace_fault \/ fault_without_node \/ backtrace_overflows
  \/ do_ftrace
  \/ Create \/ Close
  \/ \E n \in Counts : sys_read_ftrace(n)

Spec == Init /\ [][Next]_vars

-----------------------------------------------------------------------------
(* Properties                                                              *)

TypeOK ==
  /\ rip.fn \in Funcs \cup {Main} /\ rip.place \in {"entry", "body"}
  /\ rbp \in 1 .. Len(stack)
  /\ code \in [Funcs -> {"push", "invalid"}]
  /\ \A i \in DOMAIN list : list[i].faddr \in Funcs /\ list[i].code_backup \in {"push", "invalid", NULL}
  /\ count \in 0 .. FTRACE_MAX
  /\ last \in Funcs \cup {NULL}
  /\ buffer \in Rings \cup {NULL}
  /\ wild \in {"no", "node", "page", "hang"}
  /\ broken \in BOOLEAN
  /\ twice \subseteq Funcs

(* The list's count and last pointer keep in step with it over any order   *)
(* of additions and removals (add_ftrace, REMOVE_FTRACE).                  *)
ListConsistent ==
  /\ count = Len(list)
  /\ last = IF list = <<>> THEN NULL ELSE Last(list).faddr

(* A function that was never patched while patched has its own first bytes *)
(* either in place or in its node: tracing can be undone, and a patched    *)
(* function always has a node for the fault handler to find.               *)
Recoverable ==
  /\ \A f \in Funcs \ twice :
       code[f] = "invalid" => Traced(f) /\ NodeOf(f).code_backup = "push"
  /\ wild = "node" => rip.fn \in twice

(* The handler's loop finds a delimiter in every buffer that is not broken.*)
HangsOnlyOnBroken == wild = "hang" => broken

Promise ==
  INSTANCE CallTrace WITH
    Bytes <- Flat,
    at <- rip,
    frames <- [n \in 1 .. Depth - 1 |-> stack[Nth(Returns, n + 1)].v],
    records <- IF broken \/ buffer = NULL THEN <<>> ELSE Split(Contents(buffer))

(* Traced or not, whatever is enabled and disabled on the way, functions   *)
(* run and return as they would untraced; and what the handler writes and  *)
(* sys_read_ftrace reads back are whole records of calls, each with its    *)
(* arguments and, with a backtrace, the calls in progress.                 *)
IsCallTrace == Promise!Spec
=============================================================================
