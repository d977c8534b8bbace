----------------------------- MODULE MCDirSize -----------------------------
(* Instances of DirSize for model checking                                 *)
EXTENDS DirSize

(* Directories t, a, b, c and d, files f and g, a socket s, a link l       *)
Sizes == [t |-> 1, a |-> 2, b |-> 4, c |-> 8, f |-> 16, g |-> 32, s |-> 64, l |-> 128, d |-> 256]

Disk(in, link, misread) ==
  [top |-> "t", in |-> in, size |-> Sizes, link |-> link, misread |-> misread, others |-> {"s"}]

(* Three children, of which one has a child and a file                     *)
Tree == Disk([t |-> {"a", "b", "d"}, a |-> {"c", "f"}, b |-> {}, c |-> {}, d |-> {}],
             << >>, << >>)

(* A link beside two children, to a directory elsewhere that has one, or   *)
(* that reads like one to a file                                           *)
Linked == Disk([t |-> {"a", "d", "l", "s"}, a |-> {}, b |-> {"c", "g"}, c |-> {}, d |-> {}],
               [l |-> "b"], [l |-> {"g"}])

(* A link back to the top                                                  *)
Loop == Disk([t |-> {"a", "b"}, a |-> {"l"}, b |-> {}],
             [l |-> "t"], [l |-> {}])

AllDisks == {Tree, Linked, Loop}
Both == {"myDU", "symlink_testcase"}
=============================================================================
