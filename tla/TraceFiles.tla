----------------------------- MODULE TraceFiles -----------------------------
(***************************************************************************)
(* The life of trace buffers (Assignment2/gemOS/src/tracer.c): a process   *)
(* makes one and gets a descriptor for it, closes it, and hands its        *)
(* descriptors to its children.  The kernel's memory is given out again:   *)
(* an object freed while something still refers to it may come back as     *)
(* another object.                                                         *)
(***************************************************************************)
EXTENDS TraceRing

CONSTANTS
  Procs,     \* pids
  Files,     \* places in memory for a file object and its buffer
  MaxFiles,  \* MAX_OPEN_FILES, without the three standard ones
  NULL

ASSUME FilesAssumption == MaxFiles \in Nat \ {0} /\ NULL \notin Files

VARIABLES
  alive,   \* processes there are
  files,   \* the descriptor table of each
  ring,    \* trace buffer of each file object
  held     \* file objects allocated

file_vars == <<alive, files, ring, held>>

Fds == 0 .. (MaxFiles - 1)

FreshRing(fill) == [bytes |-> [i \in Index |-> fill], front |-> -1, rear |-> -1]

FilesInit(first, fill) ==
  /\ alive = {first}
  /\ files = [p \in Procs |-> [fd \in Fds |-> NULL]]
  /\ ring = [f \in Files |-> FreshRing(fill)]
  /\ held = {}

FreeFds(p) == {fd \in Fds : files[p][fd] = NULL}

(* What a process finds in a slot of its table.  A slot beyond the table   *)
(* is whatever follows it in the process context.                          *)
Slot(p, fd) == IF fd \in Fds THEN files[p][fd] ELSE "outside"
Usable(f) == f \in held

(* sys_create_trace_buffer: the lowest free descriptor; the offsets are    *)
(* set, the page keeps what it held.  Refused with all in use; out of      *)
(* memory it gives up what it has got so far for good and changes nothing. *)
sys_create_trace_buffer(p, f) ==
  /\ f \notin held
  /\ FreeFds(p) # {}
  /\ files' = [files EXCEPT ![p][Min(FreeFds(p))] = f]
  /\ ring' = [ring EXCEPT ![f].front = -1, ![f].rear = -1]
  /\ held' = held \cup {f}
  /\ UNCHANGED alive

create_refused(p) ==
  /\ FreeFds(p) = {} \/ held = Files
  /\ UNCHANGED file_vars

(* trace_buffer_close: everything is freed, whoever else has the file;     *)
(* the caller, do_close, clears the one descriptor.                        *)
(* Mutant of trace_buffer_close: the descriptor is left.                   *)
trace_buffer_close_Stays(p, fd) ==
  /\ files[p][fd] \in held
  /\ held' = held \ {files[p][fd]}
  /\ UNCHANGED <<alive, files, ring>>

trace_buffer_close(p, fd) ==
  /\ files[p][fd] \in held
  /\ held' = held \ {files[p][fd]}
  /\ files' = [files EXCEPT ![p][fd] = NULL]
  /\ UNCHANGED <<alive, ring>>

(* do_fork copies the process context with its descriptors as they are.    *)
do_fork(p, child) ==
  /\ child \notin alive
  /\ alive' = alive \cup {child}
  /\ files' = [files EXCEPT ![child] = files[p]]
  /\ UNCHANGED <<ring, held>>

(* do_exit closes every descriptor of the process.                         *)
Opened(p) == {files[p][fd] : fd \in Fds} \ {NULL}

do_exit(p) ==
  /\ Opened(p) \subseteq held
  /\ alive' = alive \ {p}
  /\ files' = [files EXCEPT ![p] = [fd \in Fds |-> NULL]]
  /\ held' = held \ Opened(p)
  /\ UNCHANGED ring
=============================================================================
