------------------------------ MODULE DirSize ------------------------------
(***************************************************************************)
(* Assignment1/Part2/myDU.c and its variant symlink_testcase/myDU.c: the   *)
(* size of a directory, with a process for every directory in it.  A call  *)
(* of getDirSize makes a pipe, forks a child for each subdirectory, closes *)
(* its write end and adds what it reads until the end of the pipe, which   *)
(* comes when no process has the write end any more: a child inherits the  *)
(* descriptors of all the calls its ancestors are in.  A symbolic link is  *)
(* followed by a call in the same process (the variant: by its size).      *)
(* Entries and the paths that lead to them stand for names; a call is      *)
(* known by its path from the top, a process by that of its first call, a  *)
(* pipe by that of the call that made it.                                  *)
(***************************************************************************)
EXTENDS Integers, SequencesExt

CONSTANTS
  Programs,   \* which of "myDU" and "symlink_testcase"
  Disks,      \* what may be on the disk
  Capacity,   \* sizes a pipe holds
  MaxFds      \* descriptors a process may have

(* A disk has a top directory, the entries of its directories, the size    *)
(* stat gives of each entry, where links lead in the end, which is to no   *)
(* link, and where they may seem to lead when the target, which readlink   *)
(* does not end with a zero, is read together with what was in the buffer. *)
(* Other entries are files, or neither (others).  A directory has finitely *)
(* many entries, and an entry is of one kind.                              *)
ASSUME DirSizeAssumption ==
  /\ Programs \subseteq {"myDU", "symlink_testcase"}
  /\ Capacity \in Nat \ {0} /\ MaxFds \in Nat
  /\ \A d \in Disks :
       /\ d.size \in [DOMAIN d.size -> Nat]
       /\ d.top \in DOMAIN d.in
       /\ \A dir \in DOMAIN d.in : {dir} \cup d.in[dir] \subseteq DOMAIN d.size
       /\ DOMAIN d.misread = DOMAIN d.link
       /\ \A e \in DOMAIN d.link : {d.link[e]} \cup d.misread[e] \subseteq DOMAIN d.size
       /\ \A dir \in DOMAIN d.in : IsFiniteSet(d.in[dir])
       /\ \A e \in DOMAIN d.link : d.link[e] \notin DOMAIN d.link
       /\ DOMAIN d.in \cap DOMAIN d.link = {} /\ d.others \cap (DOMAIN d.in \cup DOMAIN d.link) = {}

VARIABLES
  program, disk,   \* what is run, and on what
  procs,           \* the processes there have been
  pipes,           \* the sizes in each pipe
  misled           \* a link was read wrong

vars == <<program, disk, procs, pipes, misled>>

IsDir(e) == e \in DOMAIN disk.in
IsLink(e) == e \in DOMAIN disk.link
IsFile(e) == ~IsDir(e) /\ ~IsLink(e) /\ e \notin disk.others

Call(path, dir) == [path |-> path, dir |-> dir, phase |-> "enter", todo |-> {}, dirSize |-> 0]

Process(parent, path, dir, ends) ==
  [parent |-> parent, status |-> "running", calls |-> <<Call(path, dir)>>,
   ends |-> ends, size |-> 0]

(* A function with one more place, or another value in that place          *)
With(f, x, y) == [k \in DOMAIN f \cup {x} |-> IF k = x THEN y ELSE f[k]]

Init ==
  /\ program \in Programs
  /\ disk \in Disks
  /\ procs = [p \in {<< >>} |-> Process(<< >>, << >>, disk.top, {})]
  /\ pipes = << >>
  /\ misled = FALSE

Alive(p) == procs[p].status \in {"running", "reporting", "written"}
Current(p) == Last(procs[p].calls)
InPhase(p, phase) == procs[p].status = "running" /\ Current(p).phase = phase
WithCurrent(p, call) == [procs[p] EXCEPT !.calls = Append(Front(@), call)]

Holds(p, path, end) == <<path, end>> \in procs[p].ends
Held(path, end) == \E p \in DOMAIN procs : Holds(p, path, end)

(* An end is written by close, exit or a signal.                           *)
Ended(p, how) == [procs[p] EXCEPT !.status = how, !.calls = << >>, !.ends = {}, !.size = 0]

(* Any call to the system may fail: the process exits, and nothing of what *)
(* it has counted is reported.                                             *)
fail(p) ==
  /\ procs' = [procs EXCEPT ![p] = Ended(p, "failed")]
  /\ UNCHANGED <<program, disk, pipes, misled>>

-----------------------------------------------------------------------------
(* getDirSize                                                              *)

(* Descriptors: three from the start, a directory for each call, the pipes *)
OpenFds(p) == 3 + Len(Current(p).path) + Cardinality(procs[p].ends)

(* Mutant of OwnSize: what the directory itself takes is left out.         *)
OwnSize_None(dir) == 0

OwnSize(dir) == disk.size[dir]

(* The size of the directory itself, opendir, pipe                         *)
enter(p) ==
  LET call == Current(p)
  IN /\ InPhase(p, "enter")
     /\ \/ /\ IsDir(call.dir)
           /\ OpenFds(p) + 3 <= MaxFds
           /\ procs' = [procs EXCEPT ![p] =
                [WithCurrent(p, [call EXCEPT !.phase = "scan", !.todo = disk.in[call.dir],
                                             !.dirSize = OwnSize(call.dir)])
                   EXCEPT !.ends = @ \cup {<<call.path, "r">>, <<call.path, "w">>}]]
           /\ pipes' = With(pipes, call.path, << >>)
           /\ UNCHANGED <<program, disk, misled>>
        \/ fail(p)

(* readdir comes to an entry, in whatever order.                           *)
Passed(p, e, added) ==
  WithCurrent(p, [Current(p) EXCEPT !.todo = @ \ {e}, !.dirSize = @ + added])

add_file(p, e) ==
  /\ IsFile(e)
  /\ procs' = [procs EXCEPT ![p] = Passed(p, e, disk.size[e])]
  /\ UNCHANGED <<program, disk, pipes, misled>>

skip_other(p, e) ==
  /\ e \in disk.others
  /\ procs' = [procs EXCEPT ![p] = Passed(p, e, 0)]
  /\ UNCHANGED <<program, disk, pipes, misled>>

(* The child has what its parent has, but for the end to read from.        *)
fork_child(p, e) ==
  LET path == Current(p).path
      child == Append(path, e)
  IN /\ IsDir(e)
     /\ procs' = With([procs EXCEPT ![p] = Passed(p, e, 0)],
                      child, Process(p, child, e, procs[p].ends \ {<<path, "r">>}))
     /\ UNCHANGED <<program, disk, pipes, misled>>

ReadLink(e, target) ==
  /\ IsLink(e)
  /\ target \in {disk.link[e]} \cup disk.misread[e]
  /\ misled' = (misled \/ target # disk.link[e])

(* myDU: the link leads to a directory, or the call that follows fails.    *)
follow_link(p, e) ==
  /\ program = "myDU"
  /\ \E target \in DOMAIN disk.size :
       /\ ReadLink(e, target)
       /\ procs' = [procs EXCEPT ![p] =
            [Passed(p, e, 0) EXCEPT !.calls = Append(@, Call(Append(Current(p).path, e), target))]]
  /\ UNCHANGED <<program, disk, pipes>>

(* The variant: what the link leads to counts with its own size.           *)
add_link(p, e) ==
  /\ program = "symlink_testcase"
  /\ \E target \in DOMAIN disk.size :
       /\ ReadLink(e, target)
       /\ procs' = [procs EXCEPT ![p] = Passed(p, e, disk.size[target])]
  /\ UNCHANGED <<program, disk, pipes>>

scan(p) ==
  /\ InPhase(p, "scan")
  /\ \E e \in Current(p).todo :
       add_file(p, e) \/ skip_other(p, e) \/ fork_child(p, e) \/ follow_link(p, e)
       \/ add_link(p, e) \/ fail(p)

(* Mutant of stop_scanning: the write end stays open in the reader.        *)
stop_scanning_KeepsEnd(p) ==
  /\ InPhase(p, "scan") /\ Current(p).todo = {}
  /\ procs' = [procs EXCEPT ![p] = WithCurrent(p, [Current(p) EXCEPT !.phase = "read"])]
  /\ UNCHANGED <<program, disk, pipes, misled>>

stop_scanning(p) ==
  /\ InPhase(p, "scan") /\ Current(p).todo = {}
  /\ procs' = [procs EXCEPT ![p] =
       [WithCurrent(p, [Current(p) EXCEPT !.phase = "read"])
          EXCEPT !.ends = @ \ {<<Current(p).path, "w">>}]]
  /\ UNCHANGED <<program, disk, pipes, misled>>

read_size(p) ==
  LET path == Current(p).path
  IN /\ InPhase(p, "read") /\ pipes[path] # << >>
     /\ procs' = [procs EXCEPT ![p] =
          WithCurrent(p, [Current(p) EXCEPT !.dirSize = @ + Head(pipes[path])])]
     /\ pipes' = [pipes EXCEPT ![path] = Tail(@)]
     /\ UNCHANGED <<program, disk, misled>>

(* Mutant of AtEnd: an empty pipe is taken for one at its end.             *)
AtEnd_Empty(path) == pipes[path] = << >>

AtEnd(path) == pipes[path] = << >> /\ ~Held(path, "w")

(* Mutant of Left: the read end is not closed.                             *)
Left_Open(p) == procs[p].ends

Left(p) == procs[p].ends \ {<<Current(p).path, "r">>}

(* The call returns: to the call whose link it followed, to main, or to    *)
(* the child's end of fork.                                                *)
return_size(p) ==
  LET callers == Front(procs[p].calls)
      size == Current(p).dirSize
  IN /\ InPhase(p, "read") /\ AtEnd(Current(p).path)
     /\ procs' = [procs EXCEPT ![p] =
          IF callers # << >>
          THEN [@ EXCEPT !.ends = Left(p),
                         !.calls = Append(Front(callers),
                                          [Last(callers) EXCEPT !.dirSize = @ + size])]
          ELSE [@ EXCEPT !.ends = Left(p), !.calls = << >>, !.size = size,
                         !.status = IF p = << >> THEN "exited" ELSE "reporting"]]
     /\ UNCHANGED <<program, disk, pipes, misled>>

(* The child writes the size to its parent, and exits.  With nobody to     *)
(* read it the write is the end of it; with a full pipe it waits.          *)
report_size(p) ==
  LET path == Front(p)
  IN /\ procs[p].status = "reporting"
     /\ \/ /\ Held(path, "r") /\ Len(pipes[path]) < Capacity
           /\ pipes' = [pipes EXCEPT ![path] = Append(@, procs[p].size)]
           /\ procs' = [procs EXCEPT ![p].status = "written", ![p].size = 0]
        \/ /\ ~Held(path, "r")
           /\ procs' = [procs EXCEPT ![p] = Ended(p, "killed")]
           /\ UNCHANGED pipes
     /\ UNCHANGED <<program, disk, misled>>

exit_child(p) ==
  /\ procs[p].status = "written"
  /\ procs' = [procs EXCEPT ![p] = Ended(p, "exited")]
  /\ UNCHANGED <<program, disk, pipes, misled>>

Step(p) ==
  \/ enter(p) \/ scan(p) \/ stop_scanning(p) \/ read_size(p) \/ return_size(p)
  \/ report_size(p) \/ exit_child(p)

Next == \E p \in DOMAIN procs : Step(p)

(* Some process that can go on does.                                       *)
Spec == Init /\ [][Next]_vars /\ WF_vars(Next)

-----------------------------------------------------------------------------
(* Properties                                                              *)

Calls(p) == {procs[p].calls[i] : i \in DOMAIN procs[p].calls}

(* Types; and a process has no descriptor but of pipes of the calls it is  *)
(* in, or that its ancestors were in when it was forked.                   *)
TypeOK ==
  /\ \A p \in DOMAIN procs :
       /\ procs[p].status \in {"running", "reporting", "written", "exited", "failed", "killed"}
       /\ \A c \in Calls(p) : c.phase \in {"enter", "scan", "read"} /\ c.dirSize \in Nat
       /\ \A end \in procs[p].ends :
            \/ \E c \in Calls(p) : c.path = end[1] /\ c.phase # "enter"
            \/ IsStrictPrefix(end[1], p)
       /\ procs[p].ends # {} => Alive(p)
  /\ \A path \in DOMAIN pipes : Len(pipes[path]) <= Capacity
  /\ misled \in BOOLEAN

(* What an entry is worth, as deep as there are calls to be had            *)
Worth ==
  LET worth[n \in 0 .. MaxFds] ==
        LET plain(e) ==
              IF e \in disk.others THEN 0
              ELSE disk.size[e] + IF IsDir(e) THEN SumFunction([f \in disk.in[e] |-> worth[n - 1][f]]) ELSE 0
        IN [e \in DOMAIN disk.size |->
              IF n = 0 THEN 0
              ELSE IF ~IsLink(e) THEN plain(e)
              ELSE IF program = "myDU" THEN plain(disk.link[e]) ELSE disk.size[disk.link[e]]]
  IN worth

CallHas(c) ==
  LET left == MaxFds - Len(c.path)
  IN IF c.phase = "enter" THEN Worth[left][c.dir]
     ELSE c.dirSize + SumFunction([e \in c.todo |-> Worth[left - 1][e]])

ProcessHas(p) ==
  procs[p].size + SumFunction([i \in DOMAIN procs[p].calls |-> CallHas(procs[p].calls[i])])

InPipes == SumFunction([path \in DOMAIN pipes |-> SumFunction(pipes[path])])

(* Nothing is counted twice and, unless a process fails, nothing is lost   *)
(* on the way to the total: what is counted, in pipes and still to be seen *)
(* makes up the size of the whole.                                         *)
Conserved ==
  LET all == InPipes + SumFunction([p \in DOMAIN procs |-> ProcessHas(p)])
  IN ~misled =>
       /\ all <= Worth[MaxFds][disk.top]
       /\ all < Worth[MaxFds][disk.top] => \E p \in DOMAIN procs : procs[p].status = "failed"

(* A call waits for all its children, unless its process has failed, and   *)
(* the total is printed when no process is left, even of those whose       *)
(* parents failed: they hold the pipes of the calls further up.            *)
WaitsForAll ==
  /\ \A p \in DOMAIN procs \ {<< >>} :
       Alive(p) => \/ procs[procs[p].parent].status = "failed"
                   \/ \E c \in Calls(procs[p].parent) : c.path = Front(p)
  /\ procs[<< >>].status = "exited" => \A p \in DOMAIN procs : ~Alive(p)

(* However full the pipes, whoever fails and wherever links lead, in the   *)
(* end all processes are gone.                                             *)
Termination == <>(\A p \in DOMAIN procs : ~Alive(p))
=============================================================================
