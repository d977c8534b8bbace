---------------------------- MODULE StraceProofs ----------------------------
(***************************************************************************)
(* Proofs about Strace, for every set of processes, file objects, calls    *)
(* and descriptors, every limit on the list and every size of the buffer:  *)
(* the lists of calls to trace stay consistent, descriptors keep to        *)
(* buffers of their own until a process forks with one open, and records   *)
(* are read back as they were written.                                     *)
(***************************************************************************)
EXTENDS Strace, TraceLemmas

Distinct(s) == \A i, j \in DOMAIN s : s[i] = s[j] => i = j

(* A head and its list: what ListConsistent says, in a form every          *)
(* operation of sys_strace can be seen to keep                             *)
GoodHead(h) ==
  /\ h \in Heads
  /\ Distinct(h.calls)
  /\ h.count = Len(h.calls)
  /\ h.last = IF h.calls = <<>> THEN NULL ELSE Last(h.calls)

HeadInv ==
  /\ base \in [Procs -> Procs \cup {NULL}]
  /\ DOMAIN head = Procs
  /\ head = [p \in Procs |-> head[p]]
  /\ \A p \in Procs : GoodHead(head[p])

CallOf(p, w) == [by |-> p, nr |-> Head(w), args |-> Tail(w)]

(* The call being served is one a process can make.                        *)
CallInv == call = NoCall \/ \E p \in Procs, w \in Calls : call = CallOf(p, w)

OwnBuffers ==
  \A p, q \in Procs, fd, gd \in Fds :
    files[p][fd] # NULL =>
      /\ files[p][fd] \in held
      /\ files[p][fd] = files[q][gd] => <<p, fd>> = <<q, gd>>

FileInv ==
  /\ files \in [Procs -> [Fds -> Files \cup {NULL}]]
  /\ shared \/ (wild # "file" /\ OwnBuffers)

(* Buffers and what is broken of them: the last byte of one that is not    *)
(* broken ends a record, which is what a reader's loop runs into.          *)
RingInv ==
  /\ alive \subseteq Procs
  /\ ring \in [Files -> Rings]
  /\ held \subseteq Files
  /\ broken \subseteq held
  /\ \A f \in held \ broken : Closed(ring[f])

(* How the kernel leaves its memory                                        *)
WildInv ==
  /\ low8 \in Numbers \cup {NULL}
  /\ wild \in {"no", "file", "outside", "head", "null", "hang"}
  /\ HangsOnlyOnBroken

IInv == HeadInv /\ CallInv /\ FileInv /\ RingInv /\ WildInv

-----------------------------------------------------------------------------
(* What the kernel may take for granted of the arguments of a call         *)
LEMMA ArgumentsOf ==
  ASSUME CallInv
  PROVE  /\ call.nr \in {EXIT, FORK, CLOSE, TRACE_BUFFER, START_STRACE, END_STRACE, READ_STRACE, STRACE}
              => call.by \in Procs
         /\ call.nr \in {CLOSE, READ_STRACE} => call.args[1] \in Fds
         /\ call.nr = START_STRACE => call.args[1] \in StartFds
         /\ call.nr = STRACE => call.args[1] \in Numbers
  <1> USE DEF EXIT, FORK, CLOSE, TRACE_BUFFER, START_STRACE, END_STRACE, READ_STRACE, STRACE, O_RDWR
  <1>1. CASE call = NoCall
    BY <1>1 DEF NoCall
  <1>2. ASSUME NEW p \in Procs, NEW w \in Calls, call = CallOf(p, w)
        PROVE  /\ call.by \in Procs
               /\ call.nr \in {CLOSE, READ_STRACE} => call.args[1] \in Fds
               /\ call.nr = START_STRACE => call.args[1] \in StartFds
               /\ call.nr = STRACE => call.args[1] \in Numbers
    <2> call.by = p /\ call.nr = Head(w) /\ call.args = Tail(w)
      BY <1>2 DEF CallOf
    <2>1. CASE w \in {<<EXIT, 0>>, <<FORK>>, <<TRACE_BUFFER, O_RDWR>>, <<END_STRACE>>}
      BY <2>1
    <2>2. CASE w \in Ordinary
      BY <2>2, StraceAssumption
    <2>3. CASE \E fd \in Fds : w = <<CLOSE, fd>>
      BY <2>3
    <2>4. CASE \E fd \in StartFds, mode \in {FULL_TRACING, FILTERED_TRACING} : w = <<START_STRACE, fd, mode>>
      BY <2>4
    <2>5. CASE \E nr \in Numbers, action \in {ADD_STRACE, REMOVE_STRACE} : w = <<STRACE, nr, action>>
      BY <2>5
    <2>6. CASE \E fd \in Fds, n \in Counts : w = <<READ_STRACE, fd, 0, n>>
      BY <2>6
    <2>7. \/ w \in {<<EXIT, 0>>, <<FORK>>, <<TRACE_BUFFER, O_RDWR>>, <<END_STRACE>>}
          \/ w \in Ordinary
          \/ \E fd \in Fds : w = <<CLOSE, fd>>
          \/ \E fd \in StartFds, mode \in {FULL_TRACING, FILTERED_TRACING} : w = <<START_STRACE, fd, mode>>
          \/ \E nr \in Numbers, action \in {ADD_STRACE, REMOVE_STRACE} : w = <<STRACE, nr, action>>
          \/ \E fd \in Fds, n \in Counts : w = <<READ_STRACE, fd, 0, n>>
      BY DEF Calls
    <2> QED
      BY <2>1, <2>2, <2>3, <2>4, <2>5, <2>6, <2>7
  <1> QED
    BY <1>1, <1>2 DEF CallInv

(* The number of records a call to read_strace asks for                    *)
LEMMA CountOf ==
  ASSUME CallInv, call.nr = READ_STRACE
  PROVE  call.args[3] \in Counts
  <1> USE DEF EXIT, FORK, CLOSE, TRACE_BUFFER, START_STRACE, END_STRACE, READ_STRACE, STRACE, O_RDWR
  <1>1. PICK p \in Procs, w \in Calls : call = CallOf(p, w)
    BY DEF CallInv, NoCall
  <1>2. call.nr = Head(w) /\ call.args = Tail(w)
    BY <1>1 DEF CallOf
  <1>3. \E fd \in Fds, n \in Counts : w = <<READ_STRACE, fd, 0, n>>
    <2>1. w \notin {<<EXIT, 0>>, <<FORK>>, <<TRACE_BUFFER, O_RDWR>>, <<END_STRACE>>}
      BY <1>2
    <2>2. w \notin Ordinary
      BY <1>2, StraceAssumption
    <2>3. ~ \E fd \in Fds : w = <<CLOSE, fd>>
      BY <1>2
    <2>4. ~ \E fd \in StartFds, mode \in {FULL_TRACING, FILTERED_TRACING} : w = <<START_STRACE, fd, mode>>
      BY <1>2
    <2>5. ~ \E nr \in Numbers, action \in {ADD_STRACE, REMOVE_STRACE} : w = <<STRACE, nr, action>>
      BY <1>2
    <2> QED
      BY <2>1, <2>2, <2>3, <2>4, <2>5 DEF Calls
  <1> QED
    BY <1>2, <1>3

-----------------------------------------------------------------------------
(* The list of calls to trace                                              *)

LEMMA GoodNoHead == GoodHead(NoHead) /\ GoodHead([NoHead EXCEPT !.where = "live"])
  <1> DEFINE h(w) == [where |-> w, is_traced |-> 0, strace_fd |-> 0, tracing_mode |-> 0,
                      calls |-> <<>>, count |-> 0, last |-> NULL]
  <1>1. NoHead = h("none") /\ [NoHead EXCEPT !.where = "live"] = h("live")
    BY DEF NoHead
  <1>2. ASSUME NEW w \in {"none", "live", "freed"}
        PROVE  GoodHead(h(w))
    <2>1. h(w) \in Heads
      BY StraceAssumption DEF Heads, FULL_TRACING
    <2>2. Distinct(<<>>)
      BY DEF Distinct
    <2> QED
      BY <2>1, <2>2 DEF GoodHead
  <1> HIDE DEF h
  <1> QED
    BY <1>1, <1>2

LEMMA AddKeepsGood ==
  ASSUME NEW h, GoodHead(h), NEW nr \in Numbers
  PROVE  GoodHead(AddNode(h, nr))
  <1>1. CASE h.count = STRACE_MAX \/ nr \in ToSet(h.calls)
    BY <1>1 DEF AddNode
  <1>2. CASE ~(h.count = STRACE_MAX \/ nr \in ToSet(h.calls))
    <2> DEFINE new == Append(h.calls, nr)
    <2>1. h.calls \in Seq(Numbers) /\ h.count = Len(h.calls) /\ h \in Heads
      BY DEF GoodHead, Heads
    <2>2. \A i \in DOMAIN h.calls : h.calls[i] # nr
      BY <1>2 DEF ToSet
    <2>3. (IF h.count = 0 THEN <<nr>>
           ELSE IF h.last = Last(h.calls) THEN Append(h.calls, nr) ELSE h.calls) = new
      <3>1. CASE h.calls = <<>>
        BY <2>1, <3>1
      <3>2. CASE h.calls # <<>>
        <4>1. h.count # 0
          BY <2>1, <3>2
        <4> QED
          BY <3>2, <4>1 DEF GoodHead
      <3> QED
        BY <3>1, <3>2
    <2>4. AddNode(h, nr) = [h EXCEPT !.calls = new, !.count = h.count + 1, !.last = nr]
      BY <1>2, <2>3 DEF AddNode
    <2>5. /\ new \in Seq(Numbers) /\ Len(new) = Len(h.calls) + 1 /\ new # <<>> /\ new[Len(new)] = nr
          /\ \A i \in DOMAIN h.calls : new[i] = h.calls[i]
          /\ DOMAIN new = 1 .. Len(h.calls) + 1 /\ DOMAIN h.calls = 1 .. Len(h.calls)
          /\ Len(h.calls) \in Nat
      BY <2>1
    <2>6. Distinct(new)
      BY <2>2, <2>5 DEF Distinct, GoodHead
    <2>7. Last(new) = nr
      BY <2>5 DEF Last
    <2> HIDE DEF new
    <2>8. /\ AddNode(h, nr) \in Heads /\ AddNode(h, nr).calls = new
          /\ AddNode(h, nr).last = nr /\ AddNode(h, nr).count = Len(h.calls) + 1
      <3>1. h.count + 1 = Len(h.calls) + 1 /\ h.count + 1 \in 0 .. STRACE_MAX
        BY <1>2, <2>1, <2>5, StraceAssumption DEF Heads
      <3> DEFINE n == h.count + 1
                 g == AddNode(h, nr)
      <3>2. /\ h \in Heads /\ new \in Seq(Numbers) /\ n \in 0 .. STRACE_MAX /\ nr \in Numbers \cup {NULL}
            /\ g = [h EXCEPT !.calls = new, !.count = n, !.last = nr]
        BY <2>1, <2>4, <2>5, <3>1
      <3> HIDE DEF n, g
      <3>3. g \in Heads /\ g.calls = new /\ g.count = n /\ g.last = nr
        BY <3>2 DEF Heads
      <3> QED
        BY <3>1, <3>3 DEF n, g
    <2> QED
      BY <2>5, <2>6, <2>7, <2>8 DEF GoodHead
  <1> QED
    BY <1>1, <1>2

LEMMA RemoveKeepsGood ==
  ASSUME NEW h, GoodHead(h), NEW nr \in Numbers
  PROVE  GoodHead(RemoveNode(h, nr))
  <1>1. CASE nr \notin ToSet(h.calls)
    BY <1>1 DEF RemoveNode
  <1>2. CASE nr \in ToSet(h.calls)
    <2>1. /\ h.calls \in Seq(Numbers) /\ h.count = Len(h.calls) /\ h \in Heads
          /\ DOMAIN h.calls = 1 .. Len(h.calls) /\ Len(h.calls) \in Nat
      BY DEF GoodHead, Heads
    <2>2. PICK k \in DOMAIN h.calls : h.calls[k] = nr
      BY <1>2 DEF ToSet
    <2>3. \A i \in DOMAIN h.calls : h.calls[i] = nr => i = k
      BY <2>2 DEF GoodHead, Distinct
    <2>4. Place(h.calls, nr) = k
      <3>1. {i \in DOMAIN h.calls : h.calls[i] = nr} = {k}
        BY <2>2, <2>3
      <3>2. k \in Int
        BY <2>1
      <3> QED
        BY <3>1, <3>2, MinOfOne DEF Place
    <2> DEFINE left == RemoveAt(h.calls, k)
               old(j) == IF j < k THEN j ELSE j + 1
               last_left == IF nr # Last(h.calls) THEN h.last
                            ELSE IF left = <<>> THEN NULL ELSE Last(left)
    <2>5. RemoveNode(h, nr) = [h EXCEPT !.calls = left, !.count = h.count - 1, !.last = last_left]
      BY <1>2, <2>4 DEF RemoveNode
    <2>6. /\ left \in Seq(Numbers) /\ Len(left) = Len(h.calls) - 1
          /\ DOMAIN left = 1 .. Len(h.calls) - 1
          /\ \A j \in DOMAIN left : old(j) \in DOMAIN h.calls /\ left[j] = h.calls[old(j)]
      <3> HIDE DEF left
      <3>1. /\ left \in Seq(Numbers) /\ Len(left) = Len(h.calls) - 1
            /\ \A j \in 1 .. Len(h.calls) - 1 : left[j] = IF j < k THEN h.calls[j] ELSE h.calls[j + 1]
        BY <2>1, RemoveAtFacts DEF left
      <3> QED
        BY <2>1, <3>1
    <2>7. \A i, j \in DOMAIN left : old(i) = old(j) => i = j
      BY <2>1, <2>6
    <2>8. h.last = Last(h.calls) /\ Last(h.calls) = h.calls[Len(h.calls)]
      BY <2>1 DEF GoodHead, Last
    <2> HIDE DEF left
    <2>9. last_left = IF left = <<>> THEN NULL ELSE Last(left)
      <3>1. CASE nr = Last(h.calls)
        BY <3>1
      <3>2. CASE nr # Last(h.calls)
        <4>1. k # Len(h.calls)
          BY <2>2, <2>8, <3>2
        <4>2. left # <<>> /\ Len(left) \in DOMAIN left /\ old(Len(left)) = Len(h.calls)
          BY <2>1, <2>6, <4>1
        <4>3. Last(left) = h.calls[Len(h.calls)]
          BY <2>6, <4>2 DEF Last
        <4> QED
          BY <2>8, <3>2, <4>2, <4>3
      <3> QED
        BY <3>1, <3>2
    <2>10. Distinct(left)
      <3> HIDE DEF old
      <3> QED
        BY <2>6, <2>7 DEF Distinct, GoodHead
    <2>11. last_left \in Numbers \cup {NULL}
      BY <2>6, <2>9 DEF Last
    <2> HIDE DEF last_left
    <2>12. /\ RemoveNode(h, nr) \in Heads /\ RemoveNode(h, nr).calls = left
           /\ RemoveNode(h, nr).last = last_left /\ RemoveNode(h, nr).count = Len(left)
      <3>1. h.count - 1 = Len(left) /\ h.count - 1 \in 0 .. STRACE_MAX
        BY <2>1, <2>6, StraceAssumption DEF Heads
      <3> DEFINE n == h.count - 1
                 g == RemoveNode(h, nr)
      <3>2. /\ h \in Heads /\ left \in Seq(Numbers) /\ n \in 0 .. STRACE_MAX
            /\ g = [h EXCEPT !.calls = left, !.count = n, !.last = last_left]
        BY <2>1, <2>5, <2>6, <3>1
      <3> HIDE DEF n, g
      <3>3. g \in Heads /\ g.calls = left /\ g.count = n /\ g.last = last_left
        BY <2>11, <3>2 DEF Heads
      <3> QED
        BY <3>1, <3>3 DEF n, g
    <2> QED
      BY <2>6, <2>9, <2>10, <2>12 DEF GoodHead
  <1> QED
    BY <1>1, <1>2

LEMMA SetHeadKeepsInv ==
  ASSUME HeadInv, NEW p \in Procs, NEW h, GoodHead(h), SetHead(p, h)
  PROVE  HeadInv'
  <1>1. Mine(p) \in Procs
    BY DEF Mine, HeadInv
  <1>2. head' = [head EXCEPT ![Mine(p)] = h] /\ base' = [base EXCEPT ![p] = Mine(p)]
    BY DEF SetHead
  <1>3. base' \in [Procs -> Procs \cup {NULL}]
    BY <1>1, <1>2 DEF HeadInv
  <1>4. DOMAIN head' = Procs /\ head' = [q \in Procs |-> head'[q]]
        /\ \A q \in Procs : head'[q] = IF q = Mine(p) THEN h ELSE head[q]
    BY <1>1, <1>2 DEF HeadInv
  <1> QED
    BY <1>3, <1>4 DEF HeadInv

LEMMA HeadOfGood ==
  ASSUME HeadInv, NEW p \in Procs
  PROVE  GoodHead(Head_of(p))
  BY GoodNoHead DEF Head_of, HeadInv

LEMMA StraceKeepsHeads ==
  ASSUME HeadInv, CallInv, sys_strace
  PROVE  HeadInv'
  <1>1. call.by \in Procs /\ call.args[1] \in Numbers
    BY ArgumentsOf DEF sys_strace, Serving
  <1>2. GoodHead(Head_of(call.by))
    BY <1>1, HeadOfGood
  <1>3. CASE SetHead(call.by, AddNode(Head_of(call.by), call.args[1]))
    BY <1>1, <1>2, <1>3, AddKeepsGood, SetHeadKeepsInv
  <1>4. CASE SetHead(call.by, RemoveNode(Head_of(call.by), call.args[1]))
    BY <1>1, <1>2, <1>4, RemoveKeepsGood, SetHeadKeepsInv
  <1> QED
    BY <1>3, <1>4 DEF sys_strace

LEMMA StartKeepsHeads ==
  ASSUME HeadInv, CallInv, sys_start_strace
  PROVE  HeadInv'
  <1>1. call.by \in Procs /\ call.args[1] \in StartFds
    BY ArgumentsOf DEF sys_start_strace, Serving
  <1>2. CASE UNCHANGED <<base, head>>
    BY <1>2 DEF HeadInv
  <1>3. ASSUME NEW mode \in {FULL_TRACING, FILTERED_TRACING},
               SetHead(call.by, [Head_of(call.by) EXCEPT !.strace_fd = call.args[1], !.is_traced = call.by,
                                                          !.tracing_mode = mode])
        PROVE  HeadInv'
    <2> DEFINE h == Head_of(call.by)
               p == call.by
               fd == call.args[1]
               g == [h EXCEPT !.strace_fd = fd, !.is_traced = p, !.tracing_mode = mode]
    <2>1. GoodHead(h)
      BY <1>1, HeadOfGood
    <2>2. p \in Procs /\ fd \in StartFds /\ SetHead(p, g)
      BY <1>1, <1>3
    <2> HIDE DEF h, p, fd
    <2>3. h \in Heads
      BY <2>1 DEF GoodHead
    <2>4. g \in Heads /\ g.calls = h.calls /\ g.count = h.count /\ g.last = h.last
      BY <2>2, <2>3 DEF Heads
    <2> HIDE DEF g
    <2>5. GoodHead(g)
      BY <2>1, <2>4 DEF GoodHead
    <2> QED
      BY <2>2, <2>5, SetHeadKeepsInv
  <1> QED
    BY <1>2, <1>3 DEF sys_start_strace

LEMMA EndKeepsHeads ==
  ASSUME HeadInv, CallInv, sys_end_strace
  PROVE  HeadInv'
  <1>1. call.by \in Procs
    BY ArgumentsOf DEF sys_end_strace, Serving
  <1> DEFINE b == base[call.by]
             g == [[head[b] EXCEPT !.where = "freed"] EXCEPT !.is_traced = 0]
  <1>2. b \in Procs
    BY <1>1 DEF sys_end_strace, HeadInv
  <1>3. head' = [head EXCEPT ![b].where = "freed", ![b].is_traced = 0] /\ base' = base
    BY DEF sys_end_strace
  <1> HIDE DEF b
  <1>4. \A q \in Procs : head'[q] = IF q = b THEN g ELSE head[q]
    BY <1>2, <1>3 DEF HeadInv
  <1>5. DOMAIN head' = Procs /\ head' = [q \in Procs |-> head'[q]]
    BY <1>2, <1>3 DEF HeadInv
  <1>6. GoodHead(head[b])
    BY <1>2 DEF HeadInv
  <1>7. g \in Heads /\ g.calls = head[b].calls /\ g.count = head[b].count /\ g.last = head[b].last
    BY <1>6 DEF GoodHead, Heads
  <1> HIDE DEF g
  <1>8. GoodHead(g)
    BY <1>6, <1>7 DEF GoodHead
  <1> QED
    BY <1>3, <1>4, <1>5, <1>8 DEF HeadInv

LEMMA ForkKeepsHeads ==
  ASSUME HeadInv, CallInv, Fork
  PROVE  HeadInv'
  <1>1. call.by \in Procs
    BY ArgumentsOf DEF Fork, Serving
  <1>2. head' = head
    BY DEF Fork
  <1>3. base' \in [Procs -> Procs \cup {NULL}]
    BY <1>1 DEF Fork, HeadInv
  <1> QED
    BY <1>2, <1>3 DEF HeadInv

-----------------------------------------------------------------------------
(* Descriptors and buffers                                                 *)

LEMMA CreateKeepsFiles ==
  ASSUME FileInv, CallInv, Create
  PROVE  FileInv'
  <1>1. call.by \in Procs
    BY ArgumentsOf DEF Create, Serving
  <1>2. wild' = wild /\ shared' = shared
    BY DEF Create, Done, others
  <1>3. CASE UNCHANGED file_vars
    BY <1>2, <1>3 DEF file_vars, FileInv, OwnBuffers
  <1>4. ASSUME NEW f \in Files, sys_create_trace_buffer(call.by, f)
        PROVE  FileInv'
    <2> DEFINE p == call.by
               fd == Min(FreeFds(p))
    <2>1. f \notin held /\ held' = held \cup {f} /\ files' = [files EXCEPT ![p][fd] = f]
      BY <1>4 DEF sys_create_trace_buffer
    <2> HIDE DEF p, fd
    <2>2. p \in Procs
      BY <1>1 DEF p
    <2>3. files' \in [Procs -> [Fds -> Files \cup {NULL}]]
      BY <2>1, <2>2 DEF FileInv
    <2>4. \A q \in Procs, gd \in Fds :
            files'[q][gd] = IF <<q, gd>> = <<p, fd>> THEN f ELSE files[q][gd]
      BY <2>1, <2>2 DEF FileInv
    <2>5. ASSUME OwnBuffers PROVE OwnBuffers'
      <3>1. \A q \in Procs, gd \in Fds : files[q][gd] # f \/ files[q][gd] = NULL
        BY <2>1, <2>5 DEF OwnBuffers
      <3>2. f # NULL
        BY FilesAssumption
      <3> QED
        BY <2>1, <2>4, <2>5, <3>1, <3>2 DEF OwnBuffers
    <2> QED
      BY <1>2, <2>3, <2>5 DEF FileInv
  <1> QED
    BY <1>3, <1>4 DEF Create, create_refused

LEMMA CloseKeepsFiles ==
  ASSUME FileInv, CallInv, Close
  PROVE  FileInv'
  <1>1. call.by \in Procs /\ call.args[1] \in Fds
    BY ArgumentsOf DEF Close, Serving
  <1>2. wild' = wild /\ shared' = shared
    BY DEF Close, Done, others
  <1>3. CASE UNCHANGED file_vars
    BY <1>2, <1>3 DEF file_vars, FileInv, OwnBuffers
  <1>4. CASE trace_buffer_close(call.by, call.args[1])
    <2> DEFINE p == call.by
               fd == call.args[1]
    <2>1. /\ files[p][fd] \in held /\ held' = held \ {files[p][fd]}
          /\ files' = [files EXCEPT ![p][fd] = NULL]
      BY <1>4 DEF trace_buffer_close
    <2>2. p \in Procs /\ fd \in Fds
      BY <1>1
    <2> HIDE DEF p, fd
    <2>3. files' \in [Procs -> [Fds -> Files \cup {NULL}]]
      BY <2>1, <2>2 DEF FileInv
    <2>4. \A q \in Procs, gd \in Fds :
            files'[q][gd] = IF <<q, gd>> = <<p, fd>> THEN NULL ELSE files[q][gd]
      BY <2>1, <2>2 DEF FileInv
    <2>5. ASSUME OwnBuffers PROVE OwnBuffers'
      BY <2>1, <2>2, <2>4, <2>5 DEF OwnBuffers
    <2> QED
      BY <1>2, <2>3, <2>5 DEF FileInv
  <1> QED
    BY <1>3, <1>4 DEF Close

LEMMA ForkKeepsFiles ==
  ASSUME FileInv, CallInv, Fork
  PROVE  FileInv'
  <1>1. call.by \in Procs /\ wild' = wild
    BY ArgumentsOf DEF Fork, Serving, Done
  <1>2. CASE UNCHANGED <<file_vars, shared>>
    BY <1>1, <1>2 DEF file_vars, FileInv, OwnBuffers
  <1>3. ASSUME NEW child \in Procs, do_fork(call.by, child),
               shared' = (shared \/ Opened(call.by) # {})
        PROVE  FileInv'
    <2> DEFINE p == call.by
    <2>1. files' = [files EXCEPT ![child] = files[p]] /\ held' = held
      BY <1>3 DEF do_fork
    <2>2. files' \in [Procs -> [Fds -> Files \cup {NULL}]]
      BY <1>1, <2>1 DEF FileInv
    <2>3. ASSUME OwnBuffers, Opened(p) = {} PROVE OwnBuffers'
      <3>1. \A fd \in Fds : files[p][fd] = NULL
        BY <2>3 DEF Opened
      <3>2. \A q \in Procs, fd \in Fds : files'[q][fd] = IF q = child THEN NULL ELSE files[q][fd]
        BY <1>1, <2>1, <3>1 DEF FileInv
      <3> QED
        BY <2>1, <2>3, <3>2 DEF OwnBuffers
    <2> QED
      BY <1>1, <1>3, <2>2, <2>3 DEF FileInv
  <1> QED
    BY <1>2, <1>3 DEF Fork

LEMMA ExitKeepsFiles ==
  ASSUME FileInv, CallInv, Exit
  PROVE  FileInv'
  <1>1. call.by \in Procs /\ wild' = wild /\ shared' = shared
    BY ArgumentsOf DEF Exit, Serving, Done, others
  <1> DEFINE p == call.by
  <1>2. files' = [files EXCEPT ![p] = [fd \in Fds |-> NULL]] /\ held' = held \ Opened(p)
    BY DEF Exit, do_exit
  <1> HIDE DEF p
  <1>3. p \in Procs
    BY <1>1 DEF p
  <1>4. files' \in [Procs -> [Fds -> Files \cup {NULL}]]
    BY <1>2, <1>3 DEF FileInv
  <1>5. \A q \in Procs, fd \in Fds : files'[q][fd] = IF q = p THEN NULL ELSE files[q][fd]
    BY <1>2, <1>3 DEF FileInv
  <1>6. ASSUME OwnBuffers PROVE OwnBuffers'
    BY <1>2, <1>3, <1>5, <1>6 DEF OwnBuffers, Opened
  <1> QED
    BY <1>1, <1>4, <1>6 DEF FileInv

(* A call that strays does not stray into a freed buffer, unless a process *)
(* has forked with one open.                                               *)
LEMMA LeavingKeepsFiles ==
  ASSUME FileInv, NEW how, Leaves(how), shared \/ how # "file"
  PROVE  FileInv'
  <1>1. files' = files /\ held' = held /\ shared' = shared /\ wild' = how
    BY DEF Leaves, file_vars, others
  <1> QED
    BY <1>1 DEF FileInv, OwnBuffers

LEMMA StrayingKeepsFiles ==
  ASSUME FileInv, NEW p \in Procs, NEW w \in Calls, perform_tracing_strays(CallOf(p, w))
  PROVE  FileInv'
  <1> DEFINE c == CallOf(p, w)
             fd == head[base[p]].strace_fd
             how == IF TraceTo(c) = "outside" THEN "outside" ELSE "file"
  <1>1. TraceTo(c) = Slot(p, fd) /\ TraceTo(c) # NULL /\ ~Usable(TraceTo(c)) /\ Leaves(how)
    BY DEF perform_tracing_strays, TraceTo, CallOf
  <1> HIDE DEF c, fd
  <1>2. CASE fd \in Fds
    <2>1. files[p][fd] # NULL /\ files[p][fd] \notin held
      BY <1>1, <1>2 DEF Slot, Usable
    <2>2. shared
      BY <1>2, <2>1 DEF FileInv, OwnBuffers
    <2> QED
      BY <1>1, <2>2, LeavingKeepsFiles
  <1>3. CASE fd \notin Fds
    <2>1. how = "outside"
      BY <1>1, <1>3 DEF Slot
    <2> QED
      BY <1>1, <2>1, LeavingKeepsFiles
  <1> QED
    BY <1>2, <1>3

LEMMA StrayingClosingKeepsFiles ==
  ASSUME FileInv, CallInv, StraysClosing \/ ReadStrays
  PROVE  FileInv'
  <1>1. Leaves("file")
    BY DEF StraysClosing, ReadStrays
  <1>2. ASSUME call.by \in Procs, call.args[1] \in Fds, files[call.by][call.args[1]] \notin held \cup {NULL}
        PROVE  shared
    BY <1>2 DEF FileInv, OwnBuffers
  <1>3. ASSUME call.by \in Procs, ~(Opened(call.by) \subseteq held)
        PROVE  shared
    BY <1>3 DEF FileInv, OwnBuffers, Opened
  <1>4. shared
    BY <1>2, <1>3, ArgumentsOf DEF StraysClosing, ReadStrays, Serving
  <1> QED
    BY <1>1, <1>4, LeavingKeepsFiles

LEMMA OtherStraysKeepFiles ==
  ASSUME FileInv, sys_end_strace_strays \/ Reuse \/ ReadHangs
  PROVE  FileInv'
  <1>1. \E how \in {"head", "null", "hang"} : Leaves(how)
    BY DEF sys_end_strace_strays, Reuse, ReadHangs
  <1> QED
    BY <1>1, LeavingKeepsFiles

-----------------------------------------------------------------------------
(* Rings and records                                                       *)

(* The words of a record are numbers.                                      *)
LEMMA WordsOfRecord ==
  ASSUME NEW p \in Procs, NEW w \in Calls, CallOf(p, w).nr \notin {START_STRACE, END_STRACE}
  PROVE  RecordWords(CallOf(p, w)) \in Seq(Nat)
  <1> USE DEF EXIT, FORK, CLOSE, TRACE_BUFFER, START_STRACE, END_STRACE, READ_STRACE, STRACE, O_RDWR
  <1> DEFINE c == CallOf(p, w)
             more == [i \in 1 .. Recorded(c.nr) |-> IF i <= Len(c.args) THEN c.args[i] ELSE 0]
  <1>1. w \in Seq(Nat) /\ w # <<>>
    <2>1. CASE w \in {<<EXIT, 0>>, <<FORK>>, <<TRACE_BUFFER, O_RDWR>>, <<END_STRACE>>}
      <3>1. CASE w = <<EXIT, 0>>
        BY <3>1
      <3>2. CASE w = <<FORK>>
        BY <3>2
      <3>3. CASE w = <<TRACE_BUFFER, O_RDWR>>
        BY <3>3
      <3>4. CASE w = <<END_STRACE>>
        BY <3>4
      <3> QED
        BY <2>1, <3>1, <3>2, <3>3, <3>4
    <2>2. CASE w \in Ordinary
      BY <2>2, StraceAssumption
    <2>3. CASE \E fd \in Fds : w = <<CLOSE, fd>>
      BY <2>3, FilesAssumption DEF Fds
    <2>4. CASE \E fd \in StartFds, mode \in {FULL_TRACING, FILTERED_TRACING} : w = <<START_STRACE, fd, mode>>
      <3>1. CallOf(p, w).nr = START_STRACE
        BY <2>4 DEF CallOf
      <3> QED
        BY <3>1
    <2>5. CASE \E nr \in Numbers, action \in {ADD_STRACE, REMOVE_STRACE} : w = <<STRACE, nr, action>>
      BY <2>5, StraceAssumption DEF ADD_STRACE, REMOVE_STRACE
    <2>6. CASE \E fd \in Fds, n \in Counts : w = <<READ_STRACE, fd, 0, n>>
      BY <2>6, FilesAssumption, StraceAssumption DEF Fds
    <2>7. \/ w \in {<<EXIT, 0>>, <<FORK>>, <<TRACE_BUFFER, O_RDWR>>, <<END_STRACE>>}
          \/ w \in Ordinary
          \/ \E fd \in Fds : w = <<CLOSE, fd>>
          \/ \E fd \in StartFds, mode \in {FULL_TRACING, FILTERED_TRACING} : w = <<START_STRACE, fd, mode>>
          \/ \E nr \in Numbers, action \in {ADD_STRACE, REMOVE_STRACE} : w = <<STRACE, nr, action>>
          \/ \E fd \in Fds, n \in Counts : w = <<READ_STRACE, fd, 0, n>>
      BY DEF Calls
    <2> QED
      BY <2>1, <2>2, <2>3, <2>4, <2>5, <2>6, <2>7
  <1>2. c.nr \in Nat /\ c.args \in Seq(Nat)
    BY <1>1 DEF CallOf
  <1>3. Recorded(c.nr) \in 0 .. 4
    BY DEF Recorded
  <1>4. RecordWords(c) = <<c.nr>> \o more
    BY DEF RecordWords
  <1> HIDE DEF c
  <1>5. more \in Seq(Nat)
    <2>1. \A i \in 1 .. Recorded(c.nr) : (IF i <= Len(c.args) THEN c.args[i] ELSE 0) \in Nat
      <3> TAKE i \in 1 .. Recorded(c.nr)
      <3>1. CASE i <= Len(c.args)
        <4>1. i \in 1 .. Len(c.args)
          BY <1>2, <1>3, <3>1
        <4> QED
          BY <1>2, <3>1, <4>1
      <3>2. CASE ~(i <= Len(c.args))
        BY <3>2
      <3> QED
        BY <3>1, <3>2
    <2>2. more \in [1 .. Recorded(c.nr) -> Nat]
      BY <2>1
    <2> HIDE DEF more
    <2> QED
      BY <1>3, <2>2
  <1> HIDE DEF more
  <1>6. <<c.nr>> \in Seq(Nat)
    BY <1>2
  <1>7. RecordWords(c) \in Seq(Nat)
    BY <1>4, <1>5, <1>6
  <1> QED
    BY <1>7 DEF c

(* One ring replaced, and the buffer it is in broken or the ring closed    *)
LEMMA OneRing ==
  ASSUME RingInv, NEW f \in held, NEW r \in Rings,
         ring' = [ring EXCEPT ![f] = r], alive' = alive, held' = held,
         broken' = broken \cup {f} \/ (broken' = broken /\ (f \notin broken => Closed(r)))
  PROVE  RingInv'
  <1>1. ring \in [Files -> Rings] /\ f \in Files
    BY DEF RingInv
  <1>2. ring' \in [Files -> Rings] /\ \A g \in Files : ring'[g] = IF g = f THEN r ELSE ring[g]
    BY <1>1
  <1>3. \A g \in held' \ broken' : Closed(ring'[g])
    BY <1>2 DEF RingInv
  <1> QED
    BY <1>2, <1>3 DEF RingInv

LEMMA TracingKeepsRings ==
  ASSUME RingInv, NEW p \in Procs, NEW w \in Calls, perform_tracing(CallOf(p, w))
  PROVE  RingInv'
  <1> DEFINE c == CallOf(p, w)
  <1>1. alive' = alive /\ held' = held
    BY DEF perform_tracing
  <1>2. CASE UNCHANGED <<ring, broken>>
    BY <1>1, <1>2 DEF RingInv
  <1>3. CASE Traced(c)
    <2> DEFINE f == TraceTo(c)
               words == RecordWords(c)
               r == WriteRecord(ring[f], words)
    <2>1. c.nr \notin {START_STRACE, END_STRACE} /\ f \in held
      BY <1>3 DEF Traced, ToTrace, Usable
    <2>2. words \in Seq(Nat)
      BY <2>1, WordsOfRecord
    <2>3. /\ ring' = [ring EXCEPT ![f] = r]
          /\ broken' = IF Whole(ring[f], words) /\ Plain(words) THEN broken ELSE broken \cup {f}
      BY <1>3 DEF Traced
    <2> HIDE DEF c, f, words
    <2>4. ring[f] \in Rings
      BY <2>1 DEF RingInv
    <2>5. r \in Rings
      BY <2>2, <2>4, RecordKeepsRing
    <2>6. ASSUME f \notin broken, Whole(ring[f], words) PROVE Closed(r)
      <3>1. Orderly(ring[f])
        BY <2>1, <2>6 DEF RingInv, Closed
      <3> QED
        BY <2>2, <2>6, <3>1, RecordCloses
    <2> HIDE DEF r
    <2>7. broken' = broken \cup {f} \/ (broken' = broken /\ (f \notin broken => Closed(r)))
      BY <2>3, <2>6
    <2> QED
      BY <1>1, <2>1, <2>3, <2>5, <2>7, OneRing
  <1> QED
    BY <1>2, <1>3 DEF perform_tracing, Untraced

LEMMA CreateKeepsRings ==
  ASSUME RingInv, Create
  PROVE  RingInv'
  <1>1. CASE UNCHANGED <<file_vars, broken>>
    BY <1>1 DEF RingInv, file_vars
  <1>2. ASSUME NEW f \in Files, sys_create_trace_buffer(call.by, f), broken' = broken \ {f}
        PROVE  RingInv'
    <2>1. /\ ring' = [ring EXCEPT ![f].front = -1, ![f].rear = -1]
          /\ held' = held \cup {f} /\ alive' = alive
      BY <1>2 DEF sys_create_trace_buffer
    <2> DEFINE r == [[ring[f] EXCEPT !.front = -1] EXCEPT !.rear = -1]
    <2>2. ring \in [Files -> Rings] /\ ring[f] \in Rings
      BY DEF RingInv
    <2>3. r \in Rings /\ r.front = -1 /\ r.rear = -1
      BY <2>2 DEF Rings
    <2>4. \A g \in Files : ring'[g] = IF g = f THEN r ELSE ring[g]
      BY <2>1, <2>2
    <2> HIDE DEF r
    <2>5. Closed(r)
      BY <2>3 DEF Closed, Orderly
    <2>6. ring' = [g \in Files |-> ring'[g]]
      BY <2>1, <2>2
    <2>7. ring' \in [Files -> Rings]
      BY <2>2, <2>3, <2>4, <2>6
    <2>8. \A g \in held' \ broken' : Closed(ring'[g])
      BY <1>2, <2>1, <2>4, <2>5 DEF RingInv
    <2> QED
      BY <1>2, <2>1, <2>7, <2>8 DEF RingInv
  <1> QED
    BY <1>1, <1>2 DEF Create, create_refused

LEMMA CloseKeepsRings ==
  ASSUME RingInv, Close
  PROVE  RingInv'
  <1>1. CASE UNCHANGED <<file_vars, broken>>
    BY <1>1 DEF RingInv, file_vars
  <1>2. ASSUME NEW f, held' = held \ {f}, broken' = broken \ {f}, UNCHANGED <<alive, ring>>
        PROVE  RingInv'
    BY <1>2 DEF RingInv
  <1> QED
    BY <1>1, <1>2 DEF Close, trace_buffer_close

LEMMA ForkKeepsRings ==
  ASSUME RingInv, Fork
  PROVE  RingInv'
  <1>1. CASE UNCHANGED <<file_vars, broken>>
    BY <1>1 DEF RingInv, file_vars
  <1>2. ASSUME NEW child \in Procs, do_fork(call.by, child), broken' = broken
        PROVE  RingInv'
    BY <1>2 DEF do_fork, RingInv
  <1> QED
    BY <1>1, <1>2 DEF Fork

LEMMA ExitKeepsRings ==
  ASSUME RingInv, Exit
  PROVE  RingInv'
  <1>1. /\ held' = held \ Opened(call.by) /\ broken' = broken \ Opened(call.by)
        /\ alive' = alive \ {call.by} /\ ring' = ring
    BY DEF Exit, do_exit
  <1> QED
    BY <1>1 DEF RingInv

LEMMA ReadKeepsRings ==
  ASSUME RingInv, CallInv, sys_read_strace
  PROVE  RingInv'
  <1> DEFINE f == files[call.by][call.args[1]]
  <1>1. alive' = alive /\ held' = held
    BY DEF sys_read_strace
  <1>2. CASE UNCHANGED <<ring, broken>>
    BY <1>1, <1>2 DEF RingInv
  <1>3. ASSUME NEW before \in Around, Usable(f),
               ring' = [ring EXCEPT ![f] = RingOf(ReadRecords(ring[f], call.args[3], before))],
               broken' = IF Isempty(ring[f]) THEN broken \cup {f} ELSE broken
        PROVE  RingInv'
    <2> DEFINE count == call.args[3]
               r == RingOf(ReadRecords(ring[f], count, before))
    <2>1. count \in Nat /\ before \in Nat
      BY StraceAssumption, CountOf DEF sys_read_strace, Serving
    <2> HIDE DEF f, count
    <2>2. f \in held /\ ring[f] \in Rings
      BY <1>3 DEF Usable, RingInv
    <2>3. r \in Rings
      BY <2>1, <2>2, ReadKeepsRing
    <2>4. ASSUME f \notin broken, ~Isempty(ring[f]) PROVE Closed(r)
      <3>1. Closed(ring[f])
        BY <2>2, <2>4 DEF RingInv
      <3> QED
        BY <2>1, <2>4, <3>1, ReadKeepsClosed
    <2>5. ring' = [ring EXCEPT ![f] = r]
      BY <1>3 DEF f, count
    <2>6. broken' = IF Isempty(ring[f]) THEN broken \cup {f} ELSE broken
      BY <1>3 DEF f
    <2> HIDE DEF r
    <2>7. broken' = broken \cup {f} \/ (broken' = broken /\ (f \notin broken => Closed(r)))
      BY <2>4, <2>6
    <2> QED
      BY <1>1, <2>2, <2>3, <2>5, <2>7, OneRing
  <1> QED
    BY <1>2, <1>3 DEF sys_read_strace

(* A reader hangs only on a buffer that is broken or empty.                *)
LEMMA HangsOnBroken ==
  ASSUME RingInv, CallInv, ReadHangs
  PROVE  HangsOnlyOnBroken'
  <1> DEFINE f == files[call.by][call.args[1]]
             count == call.args[3]
  <1>1. PICK before \in Around : ReadRecords(ring[f], count, before).state = "hangs"
    BY DEF ReadHangs
  <1>2. f \in held
    BY DEF ReadHangs, Usable
  <1>3. count \in Nat /\ before \in Nat
    BY StraceAssumption, CountOf DEF ReadHangs, Serving
  <1>4. files' = files /\ ring' = ring /\ broken' = broken /\ call' = call
    BY DEF ReadHangs, Leaves, file_vars
  <1> HIDE DEF f, count
  <1>5. f \in broken \/ Isempty(ring[f])
    <2> SUFFICES ASSUME f \notin broken, ~Isempty(ring[f]) PROVE FALSE
      OBVIOUS
    <2>1. Closed(ring[f])
      BY <1>2 DEF RingInv
    <2> QED
      BY <1>1, <1>3, <2>1, ReadKeepsClosed
  <1>6. f' = f
    BY <1>4 DEF f
  <1> QED
    BY <1>4, <1>5, <1>6 DEF HangsOnlyOnBroken, f, Isempty

-----------------------------------------------------------------------------
(* Every step                                                              *)

LEMMA InitInv == Init => IInv
  <1> SUFFICES ASSUME Init PROVE IInv
    OBVIOUS
  <1>1. HeadInv
    BY GoodNoHead DEF Init, HeadInv
  <1>2. CallInv
    BY DEF Init, CallInv
  <1>3. FileInv
    <2>1. files = [p \in Procs |-> [fd \in Fds |-> NULL]] /\ wild # "file"
      BY DEF Init, FilesInit
    <2> QED
      BY <2>1 DEF FileInv, OwnBuffers
  <1>4. RingInv
    <2>1. PICK fill \in Around : FilesInit(First, fill)
      BY DEF Init
    <2>2. fill \in Nat /\ First \in Procs
      BY StraceAssumption
    <2>3. FreshRing(fill) \in Rings
      BY <2>2 DEF FreshRing, Rings
    <2>4. ring \in [Files -> Rings] /\ held = {} /\ alive = {First}
      BY <2>1, <2>3 DEF FilesInit
    <2> QED
      BY <2>2, <2>4 DEF Init, RingInv
  <1>5. WildInv
    BY DEF Init, WildInv, HangsOnlyOnBroken
  <1> QED
    BY <1>1, <1>2, <1>3, <1>4, <1>5 DEF IInv

LEMMA StepKeepsCall ==
  ASSUME CallInv, [Next]_vars
  PROVE  CallInv'
  <1>1. CASE UNCHANGED call
    BY <1>1 DEF CallInv, NoCall, CallOf, Calls
  <1>2. CASE call' = NoCall
    BY <1>2 DEF CallInv, NoCall
  <1>3. ASSUME NEW p \in Procs, NEW w \in Calls, call' = CallOf(p, w)
        PROVE  CallInv'
    BY <1>3 DEF CallInv
  <1>4. CASE UNCHANGED vars
    BY <1>1, <1>4 DEF vars
  <1>5. CASE Next
    <2>1. ASSUME NEW p \in Procs, NEW w \in Calls,
                 perform_tracing(CallOf(p, w)) \/ perform_tracing_strays(CallOf(p, w))
          PROVE  CallInv'
      BY <1>1, <1>3, <2>1 DEF perform_tracing, perform_tracing_strays, Leaves
    <2>2. CASE StraysClosing \/ sys_end_strace_strays \/ Reuse \/ ReadStrays \/ ReadHangs
      BY <1>1, <2>2 DEF StraysClosing, sys_end_strace_strays, Reuse, ReadStrays, ReadHangs, Leaves
    <2>3. CASE Ordinary_call \/ Create \/ Close \/ Fork \/ Exit
      BY <1>2, <2>3 DEF Ordinary_call, Create, Close, Fork, Exit, Done
    <2>4. CASE sys_strace \/ sys_start_strace \/ sys_end_strace \/ sys_read_strace
      BY <1>2, <2>4 DEF sys_strace, sys_start_strace, sys_end_strace, sys_read_strace, Done
    <2> QED
      BY <1>5, <2>1, <2>2, <2>3, <2>4 DEF Next, CallOf
  <1> QED
    BY <1>4, <1>5

LEMMA StepKeepsHeads ==
  ASSUME HeadInv, CallInv, [Next]_vars
  PROVE  HeadInv'
  <1>1. CASE UNCHANGED <<base, head>>
    BY <1>1 DEF HeadInv
  <1>2. CASE UNCHANGED vars
    BY <1>1, <1>2 DEF vars
  <1>3. CASE Next
    <2>1. ASSUME NEW p \in Procs, NEW w \in Calls,
                 perform_tracing(CallOf(p, w)) \/ perform_tracing_strays(CallOf(p, w))
          PROVE  HeadInv'
      BY <1>1, <2>1 DEF perform_tracing, perform_tracing_strays, Leaves, others
    <2>2. CASE StraysClosing \/ sys_end_strace_strays \/ Reuse \/ ReadStrays \/ ReadHangs
      BY <1>1, <2>2 DEF StraysClosing, sys_end_strace_strays, Reuse, ReadStrays, ReadHangs, Leaves, others
    <2>3. CASE Ordinary_call \/ Create \/ Close \/ Exit \/ sys_read_strace
      BY <1>1, <2>3 DEF Ordinary_call, Create, Close, Exit, sys_read_strace, others
    <2>4. CASE Fork
      BY <2>4, ForkKeepsHeads
    <2>5. CASE sys_strace
      BY <2>5, StraceKeepsHeads
    <2>6. CASE sys_start_strace
      BY <2>6, StartKeepsHeads
    <2>7. CASE sys_end_strace
      BY <2>7, EndKeepsHeads
    <2> QED
      BY <1>3, <2>1, <2>2, <2>3, <2>4, <2>5, <2>6, <2>7 DEF Next, CallOf
  <1> QED
    BY <1>2, <1>3

LEMMA StepKeepsFiles ==
  ASSUME FileInv, CallInv, [Next]_vars
  PROVE  FileInv'
  <1>1. CASE UNCHANGED <<files, held, wild, shared>>
    BY <1>1 DEF FileInv, OwnBuffers
  <1>2. CASE UNCHANGED vars
    BY <1>1, <1>2 DEF vars, file_vars
  <1>3. CASE Next
    <2>1. ASSUME NEW p \in Procs, NEW w \in Calls, perform_tracing(CallOf(p, w))
          PROVE  FileInv'
      BY <1>1, <2>1 DEF perform_tracing, others
    <2>2. ASSUME NEW p \in Procs, NEW w \in Calls, perform_tracing_strays(CallOf(p, w))
          PROVE  FileInv'
      BY <2>2, StrayingKeepsFiles
    <2>3. CASE StraysClosing \/ ReadStrays
      BY <2>3, StrayingClosingKeepsFiles
    <2>4. CASE sys_end_strace_strays \/ Reuse \/ ReadHangs
      BY <2>4, OtherStraysKeepFiles
    <2>5. CASE Ordinary_call \/ sys_strace \/ sys_start_strace \/ sys_end_strace \/ sys_read_strace
      BY <1>1, <2>5 DEF Ordinary_call, sys_strace, sys_start_strace, sys_end_strace, sys_read_strace,
                        Done, others, file_vars
    <2>6. CASE Create
      BY <2>6, CreateKeepsFiles
    <2>7. CASE Close
      BY <2>7, CloseKeepsFiles
    <2>8. CASE Fork
      BY <2>8, ForkKeepsFiles
    <2>9. CASE Exit
      BY <2>9, ExitKeepsFiles
    <2> QED
      BY <1>3, <2>1, <2>2, <2>3, <2>4, <2>5, <2>6, <2>7, <2>8, <2>9 DEF Next, CallOf
  <1> QED
    BY <1>2, <1>3

LEMMA StepKeepsRings ==
  ASSUME RingInv, CallInv, [Next]_vars
  PROVE  RingInv'
  <1>1. CASE UNCHANGED <<alive, ring, held, broken>>
    BY <1>1 DEF RingInv
  <1>2. CASE UNCHANGED vars
    BY <1>1, <1>2 DEF vars, file_vars
  <1>3. CASE Next
    <2>1. ASSUME NEW p \in Procs, NEW w \in Calls, perform_tracing(CallOf(p, w))
          PROVE  RingInv'
      BY <2>1, TracingKeepsRings
    <2>2. ASSUME NEW p \in Procs, NEW w \in Calls, perform_tracing_strays(CallOf(p, w))
          PROVE  RingInv'
      BY <1>1, <2>2 DEF perform_tracing_strays, Leaves, file_vars
    <2>3. CASE StraysClosing \/ sys_end_strace_strays \/ Reuse \/ ReadStrays \/ ReadHangs
      BY <1>1, <2>3 DEF StraysClosing, sys_end_strace_strays, Reuse, ReadStrays, ReadHangs, Leaves, file_vars
    <2>4. CASE Ordinary_call \/ sys_strace \/ sys_start_strace \/ sys_end_strace
      BY <1>1, <2>4 DEF Ordinary_call, sys_strace, sys_start_strace, sys_end_strace, file_vars
    <2>5. CASE Create
      BY <2>5, CreateKeepsRings
    <2>6. CASE Close
      BY <2>6, CloseKeepsRings
    <2>7. CASE Fork
      BY <2>7, ForkKeepsRings
    <2>8. CASE Exit
      BY <2>8, ExitKeepsRings
    <2>9. CASE sys_read_strace
      BY <2>9, ReadKeepsRings
    <2> QED
      BY <1>3, <2>1, <2>2, <2>3, <2>4, <2>5, <2>6, <2>7, <2>8, <2>9 DEF Next, CallOf
  <1> QED
    BY <1>2, <1>3

(* A step from a kernel gone astray there is not; one that goes astray     *)
(* leaves the rest as it was.                                              *)
LEMMA StepKeepsWild ==
  ASSUME WildInv, HeadInv, CallInv, RingInv, [Next]_vars
  PROVE  WildInv'
  <1>1. CASE UNCHANGED vars
    BY <1>1 DEF vars, file_vars, WildInv, HangsOnlyOnBroken, Isempty
  <1>2. CASE Next
    <2>1. ASSUME low8' \in Numbers \cup {NULL}, wild' = "no"
          PROVE  WildInv'
      BY <2>1 DEF WildInv, HangsOnlyOnBroken
    <2>2. ASSUME NEW how \in {"file", "outside", "head", "null"}, Leaves(how)
          PROVE  WildInv'
      BY <2>2 DEF Leaves, others, WildInv, HangsOnlyOnBroken
    <2>3. ASSUME NEW p \in Procs, NEW w \in Calls, perform_tracing(CallOf(p, w))
          PROVE  WildInv'
      BY <2>1, <2>3 DEF perform_tracing, others, WildInv
    <2>4. ASSUME NEW p \in Procs, NEW w \in Calls, perform_tracing_strays(CallOf(p, w))
          PROVE  WildInv'
      BY <2>2, <2>4 DEF perform_tracing_strays
    <2>5. CASE StraysClosing \/ sys_end_strace_strays \/ Reuse \/ ReadStrays
      BY <2>2, <2>5 DEF StraysClosing, sys_end_strace_strays, Reuse, ReadStrays
    <2>6. CASE ReadHangs
      <3>1. HangsOnlyOnBroken'
        BY <2>6, HangsOnBroken
      <3>2. low8' = low8 /\ wild' = "hang"
        BY <2>6 DEF ReadHangs, Leaves, others
      <3> QED
        BY <3>1, <3>2 DEF WildInv
    <2>7. CASE Ordinary_call \/ Create \/ Close \/ Fork \/ Exit
      <3>1. low8' = low8 /\ wild' = wild /\ wild = "no"
        BY <2>7 DEF Ordinary_call, Create, Close, Fork, Exit, Done, Serving, others
      <3> QED
        BY <2>1, <3>1 DEF WildInv
    <2>8. CASE sys_start_strace \/ sys_end_strace \/ sys_read_strace
      <3>1. low8' = low8 /\ wild' = wild /\ wild = "no"
        BY <2>8 DEF sys_start_strace, sys_end_strace, sys_read_strace, Done, Serving, others
      <3> QED
        BY <2>1, <3>1 DEF WildInv
    <2>9. CASE sys_strace
      <3> DEFINE h == Head_of(call.by)
      <3>1. call.by \in Procs /\ wild' = "no"
        BY <2>9, ArgumentsOf DEF sys_strace, Serving, Done
      <3>2. h.calls \in Seq(Numbers)
        BY <3>1, HeadOfGood DEF GoodHead, Heads
      <3>3. low8' = low8 \/ low8' = IF h.calls = <<>> THEN NULL ELSE Head(h.calls)
        BY <2>9 DEF sys_strace
      <3> HIDE DEF h
      <3>4. low8' \in Numbers \cup {NULL}
        BY <3>2, <3>3 DEF WildInv
      <3> QED
        BY <2>1, <3>1, <3>4
    <2> QED
      BY <1>2, <2>3, <2>4, <2>5, <2>6, <2>7, <2>8, <2>9 DEF Next, CallOf
  <1> QED
    BY <1>1, <1>2

LEMMA InvAlways == Spec => []IInv
  <1>1. IInv /\ [Next]_vars => IInv'
    BY StepKeepsHeads, StepKeepsCall, StepKeepsFiles, StepKeepsRings, StepKeepsWild DEF IInv
  <1> QED
    BY InitInv, <1>1, PTL DEF Spec

(* A sequence with no element twice has as many elements as it is long.    *)
LEMMA DistinctCount ==
  ASSUME NEW s \in Seq(Numbers), Distinct(s)
  PROVE  Cardinality(ToSet(s)) = Len(s)
  <1>1. s \in [1 .. Len(s) -> ToSet(s)] /\ Len(s) \in Nat
    BY DEF ToSet
  <1>2. s \in Injection(1 .. Len(s), ToSet(s))
    BY <1>1 DEF Injection, IsInjective, Distinct
  <1>3. s \in Surjection(1 .. Len(s), ToSet(s))
    BY <1>1 DEF Surjection, ToSet
  <1>4. ExistsBijection(1 .. Len(s), ToSet(s))
    BY <1>2, <1>3 DEF ExistsBijection, Bijection
  <1> QED
    BY <1>1, <1>4, FS_CountingElements

(* Count and last pointer of every list of calls to trace agree with the   *)
(* list, and no call is in it twice, over any order of additions and       *)
(* removals by any of the processes that share it (sys_strace).            *)
THEOREM ListsStayConsistent == Spec => []ListConsistent
  <1>1. IInv => ListConsistent
    BY DistinctCount DEF IInv, HeadInv, GoodHead, Heads, ListConsistent
  <1> QED
    BY InvAlways, <1>1, PTL

(* As long as no process forks with a trace buffer open, a descriptor has  *)
(* a buffer of its own, allocated, and no call touches a freed one         *)
(* (sys_create_trace_buffer, trace_buffer_close, do_exit).                 *)
THEOREM DescriptorsStayOwn == Spec => []DescriptorsOwn
  <1>1. IInv => DescriptorsOwn
    BY DEF IInv, FileInv, OwnBuffers, DescriptorsOwn
  <1> QED
    BY InvAlways, <1>1, PTL

(* Every variable keeps to its type: no head has more calls than the       *)
(* limit, and every buffer has its offsets in the ring.                    *)
THEOREM TypesHold == Spec => []TypeOK
  <1>1. IInv => TypeOK
    <2> SUFFICES ASSUME IInv PROVE TypeOK
      OBVIOUS
    <2>1. head \in [Procs -> Heads]
      BY DEF IInv, HeadInv, GoodHead
    <2>2. call.by \in Procs \cup {NULL}
      BY DEF IInv, CallInv, NoCall, CallOf
    <2> QED
      BY <2>1, <2>2 DEF IInv, HeadInv, FileInv, RingInv, WildInv, TypeOK
  <1> QED
    BY InvAlways, <1>1, PTL

(* The reader's loop runs for ever only on a buffer with a record cut or   *)
(* not plain, or with nothing in it, whatever the order of calls and       *)
(* wherever in the ring the records lie (perform_tracing, sys_read_strace).*)
THEOREM ReadersEnd == Spec => []HangsOnlyOnBroken
  <1>1. IInv => HangsOnlyOnBroken
    BY DEF IInv, WildInv
  <1> QED
    BY InvAlways, <1>1, PTL

-----------------------------------------------------------------------------
(* What is in the buffers: the records RecordQueue promises                *)

(* What the records promise stands for                                     *)
Asked == IF call = NoCall THEN <<>> ELSE Flat(<<call.nr>> \o call.args)
Queue(f) == IF f \in held \ broken THEN Split(Contents(ring[f])) ELSE <<>>
Queues == [f \in Files |-> Queue(f)]

(* A buffer that is not broken is whole records; while a call is served,   *)
(* nothing has been read.                                                  *)
QueueInv ==
  /\ \A f \in held \ broken : Splittable(Contents(ring[f]))
  /\ call # NoCall => out = <<>>

(* Some words make some bytes.                                             *)
LEMMA FlatSome ==
  ASSUME NEW S, NEW words \in Seq(S), words # <<>>
  PROVE  Flat(words) # <<>>
  <1> DEFINE B == S \cup Nat
             N == Len(words)
             body == [i \in DOMAIN words |-> Word(words[i])]
             tail == [i \in 1 .. (WordSize - 1) |-> 0]
  <1>1. N \in Nat \ {0} /\ DOMAIN words = 1 .. N /\ WordSize \in Nat \ {0}
    BY RingAssumption
  <1>2. ASSUME NEW n \in B PROVE Word(n) \in Seq(B) /\ Len(Word(n)) # 0
    <2>1. tail \in Seq(B) /\ Len(tail) = WordSize - 1
      <3>1. WordSize - 1 \in Nat /\ 0 \in B
        BY <1>1
      <3>2. tail \in [1 .. WordSize - 1 -> B]
        BY <3>1
      <3> HIDE DEF B, tail
      <3> QED
        BY <3>1, <3>2
    <2>2. <<n>> \in Seq(B) /\ Len(<<n>>) = 1
      OBVIOUS
    <2>3. Word(n) = <<n>> \o tail
      BY DEF Word
    <2> HIDE DEF B, tail
    <2> QED
      BY <1>1, <2>1, <2>2, <2>3
  <1>3. \A i \in 1 .. N : words[i] \in B
    OBVIOUS
  <1>4. Flat(words) = FlattenSeq(body)
    BY DEF Flat
  <1>5. body = [i \in 1 .. N |-> Word(words[i])]
    BY <1>1
  <1> HIDE DEF B, N, body
  <1>6. body \in [1 .. N -> Seq(B)]
    BY <1>2, <1>3, <1>5
  <1>7. body \in Seq(Seq(B)) /\ Len(body) = N
    BY <1>1, <1>6
  <1>8. PICK g \in [0 .. N -> Seq(B)] : Joins(g, body)
    BY <1>7, JoinsExists
  <1>9. FlattenSeq(body) = g[N]
    BY <1>7, <1>8, JoinsFlat
  <1>10. N \in 1 .. N /\ N \in 0 .. N /\ N - 1 \in 0 .. N
    BY <1>1
  <1>11. g[N] = g[N - 1] \o body[N]
    BY <1>7, <1>8, <1>10 DEF Joins
  <1>12. g[N - 1] \in Seq(B) /\ body[N] \in Seq(B) /\ Len(body[N]) # 0
    BY <1>2, <1>3, <1>5, <1>8, <1>10
  <1>13. g[N] # <<>>
    <2> DEFINE x == g[N - 1]
               y == body[N]
    <2>1. x \in Seq(B) /\ y \in Seq(B) /\ Len(y) # 0
      BY <1>12
    <2> HIDE DEF x, y
    <2>2. x \o y # <<>>
      BY <2>1
    <2>3. g[N] = x \o y
      BY <1>11 DEF x, y
    <2> QED
      BY ONLY <2>2, <2>3
  <1> QED
    BY <1>4, <1>9, <1>13

(* What a call is made of                                                  *)
LEMMA WordsOfCall ==
  ASSUME NEW w \in Calls
  PROVE  /\ \E S : w \in Seq(S)
         /\ w # <<>>
         /\ CallsComplete /\ Head(w) \notin {START_STRACE, END_STRACE} =>
              w \in Seq(Nat) /\ Len(w) = 1 + Recorded(Head(w))
  <1> USE DEF EXIT, FORK, CLOSE, TRACE_BUFFER, START_STRACE, END_STRACE, READ_STRACE, STRACE, O_RDWR
  <1> DEFINE Good(v) == /\ \E S : v \in Seq(S)
                        /\ v # <<>>
                        /\ CallsComplete /\ Head(v) \notin {START_STRACE, END_STRACE} =>
                             v \in Seq(Nat) /\ Len(v) = 1 + Recorded(Head(v))
             Plenty(v) == v \in Seq(Nat) /\ v # <<>> /\ Len(v) = 1 + Recorded(Head(v))
  <1> SUFFICES Good(w)
    OBVIOUS
  <1>1. \A v : Plenty(v) => Good(v)
    OBVIOUS
  <1>2. Recorded(1) = 1 /\ Recorded(10) = 0 /\ Recorded(29) = 1 /\ Recorded(36) = 1 /\ Recorded(39) = 3 /\ Recorded(40) = 2
    BY DEF Recorded
  <1>3. CASE w = <<EXIT, 0>>
    <2>1. Plenty(<<1, 0>>)
      BY <1>2
    <2> QED
      BY <1>1, <1>3, <2>1
  <1>4. CASE w = <<FORK>>
    <2>1. Plenty(<<10>>)
      BY <1>2
    <2> QED
      BY <1>1, <1>4, <2>1
  <1>5. CASE w = <<TRACE_BUFFER, O_RDWR>>
    <2>1. Plenty(<<36, 3>>)
      BY <1>2
    <2> QED
      BY <1>1, <1>5, <2>1
  <1>6. CASE w = <<END_STRACE>>
    <2>1. <<38>> \in Seq(Nat) /\ <<38>> # <<>> /\ Head(<<38>>) = 38
      OBVIOUS
    <2>2. Good(<<38>>)
      BY <2>1
    <2> QED
      BY <1>6, <2>2
  <1>7. CASE w \in Ordinary
    <2>1. w \in Seq(Nat) /\ w # <<>>
      BY <1>7, StraceAssumption
    <2>2. CallsComplete => Len(w) = 1 + Recorded(Head(w))
      BY <1>7 DEF CallsComplete
    <2> QED
      BY <2>1, <2>2
  <1>8. ASSUME NEW fd \in Fds, w = <<CLOSE, fd>> PROVE Good(w)
    <2>1. fd \in Nat
      BY FilesAssumption DEF Fds
    <2>2. Plenty(<<29, fd>>)
      BY <1>2, <2>1
    <2> QED
      BY <1>1, <1>8, <2>2
  <1>9. ASSUME NEW fd \in StartFds, NEW mode \in {FULL_TRACING, FILTERED_TRACING}, w = <<START_STRACE, fd, mode>>
        PROVE Good(w)
    <2> DEFINE v == <<37, fd, mode>>
    <2>1. v \in Seq({37, fd, mode}) /\ v # <<>> /\ Head(v) = 37
      OBVIOUS
    <2> HIDE DEF v
    <2>2. \E S : v \in Seq(S)
      BY <2>1
    <2>3. Head(v) \in {37, 38}
      BY <2>1
    <2>4. Good(v)
      BY <2>1, <2>2, <2>3
    <2> QED
      BY <1>9, <2>4 DEF v
  <1>10. ASSUME NEW nr \in Numbers, NEW action \in {ADD_STRACE, REMOVE_STRACE}, w = <<STRACE, nr, action>>
         PROVE Good(w)
    <2>1. nr \in Nat /\ action \in Nat
      BY StraceAssumption DEF ADD_STRACE, REMOVE_STRACE
    <2>2. Plenty(<<40, nr, action>>)
      BY <1>2, <2>1
    <2> QED
      BY <1>1, <1>10, <2>2
  <1>11. ASSUME NEW fd \in Fds, NEW n \in Counts, w = <<READ_STRACE, fd, 0, n>>
         PROVE Good(w)
    <2>1. fd \in Nat /\ n \in Nat
      BY FilesAssumption, StraceAssumption DEF Fds
    <2>2. Plenty(<<39, fd, 0, n>>)
      BY <1>2, <2>1
    <2> QED
      BY <1>1, <1>11, <2>2
  <1> QED
    <2> HIDE DEF Good, Plenty, EXIT, FORK, CLOSE, TRACE_BUFFER, START_STRACE, END_STRACE, READ_STRACE, STRACE, O_RDWR
    <2>1. CASE \E fd \in Fds : w = <<CLOSE, fd>>
      BY <1>8, <2>1
    <2>2. CASE \E fd \in StartFds, mode \in {FULL_TRACING, FILTERED_TRACING} : w = <<START_STRACE, fd, mode>>
      BY <1>9, <2>2
    <2>3. CASE \E nr \in Numbers, action \in {ADD_STRACE, REMOVE_STRACE} : w = <<STRACE, nr, action>>
      BY <1>10, <2>3
    <2>4. CASE \E fd \in Fds, n \in Counts : w = <<READ_STRACE, fd, 0, n>>
      BY <1>11, <2>4
    <2>5. \/ w \in {<<EXIT, 0>>, <<FORK>>, <<TRACE_BUFFER, O_RDWR>>, <<END_STRACE>>} \cup Ordinary
          \/ \E fd \in Fds : w = <<CLOSE, fd>>
          \/ \E fd \in StartFds, mode \in {FULL_TRACING, FILTERED_TRACING} : w = <<START_STRACE, fd, mode>>
          \/ \E nr \in Numbers, action \in {ADD_STRACE, REMOVE_STRACE} : w = <<STRACE, nr, action>>
          \/ \E fd \in Fds, n \in Counts : w = <<READ_STRACE, fd, 0, n>>
      BY DEF Calls
    <2>6. CASE w \in {<<EXIT, 0>>, <<FORK>>, <<TRACE_BUFFER, O_RDWR>>, <<END_STRACE>>} \cup Ordinary
      <3>1. w = <<EXIT, 0>> \/ w = <<FORK>> \/ w = <<TRACE_BUFFER, O_RDWR>> \/ w = <<END_STRACE>> \/ w \in Ordinary
        BY <2>6
      <3> QED
        BY ONLY <1>3, <1>4, <1>5, <1>6, <1>7, <3>1
    <2> QED
      BY ONLY <2>1, <2>2, <2>3, <2>4, <2>5, <2>6

(* The bytes of a call: those of its record                                *)
LEMMA RequestOf ==
  ASSUME NEW p \in Procs, NEW w \in Calls
  PROVE  LET c == CallOf(p, w)
         IN /\ c # NoCall
            /\ <<c.nr>> \o c.args = w
            /\ Flat(<<c.nr>> \o c.args) # <<>>
            /\ CallsComplete /\ c.nr \notin {START_STRACE, END_STRACE} => RecordWords(c) = <<c.nr>> \o c.args
  <1> DEFINE c == CallOf(p, w)
             words == RecordWords(c)
  <1>1. PICK S : w \in Seq(S)
    BY WordsOfCall
  <1>2. w # <<>>
    BY WordsOfCall
  <1>3. c.by = p /\ c.nr = Head(w) /\ c.args = Tail(w)
    BY DEF CallOf
  <1>4. c # NoCall
    BY <1>3, StraceAssumption DEF NoCall
  <1>5. <<Head(w)>> \o Tail(w) = w
    BY <1>1, <1>2
  <1>6. Flat(w) # <<>>
    BY <1>1, <1>2, FlatSome
  <1>7. ASSUME CallsComplete, c.nr \notin {START_STRACE, END_STRACE}
        PROVE  words = w
    <2>1. w \in Seq(Nat) /\ Len(w) = 1 + Recorded(c.nr)
      BY <1>3, <1>7, WordsOfCall
    <2> DEFINE N == Recorded(c.nr)
               more == [i \in 1 .. N |-> IF i <= Len(c.args) THEN c.args[i] ELSE 0]
    <2>2. N \in Nat
      BY DEF Recorded
    <2>3. c.args \in Seq(Nat) /\ Len(c.args) = N
      BY <1>2, <1>3, <2>1, <2>2
    <2>4. words = <<c.nr>> \o more
      BY DEF RecordWords
    <2> HIDE DEF c, N
    <2>5. \A i \in 1 .. N : i <= Len(c.args)
      BY <2>2, <2>3
    <2>6. more = [i \in 1 .. N |-> c.args[i]]
      BY <2>5
    <2>7. more = c.args
      BY <2>2, <2>3, <2>6
    <2> QED
      BY <1>3, <1>5, <2>4, <2>7
  <1> QED
    BY <1>3, <1>4, <1>5, <1>6, <1>7

(* A call is made and recorded in a buffer, which was not broken and gets  *)
(* one record more.                                                        *)
LEMMA RecordQueued ==
  ASSUME CallsComplete, RingInv, QueueInv, NEW p \in Procs, NEW w \in Calls,
         Traced(CallOf(p, w)), TraceTo(CallOf(p, w)) \notin broken,
         Whole(ring[TraceTo(CallOf(p, w))], RecordWords(CallOf(p, w))), Plain(RecordWords(CallOf(p, w)))
  PROVE  LET f == TraceTo(CallOf(p, w))
             c == CallOf(p, w)
         IN /\ f \in held
            /\ Splittable(Contents(ring'[f]))
            /\ Split(Contents(ring'[f])) = Append(Split(Contents(ring[f])), Flat(<<c.nr>> \o c.args))
            /\ ring' = [ring EXCEPT ![f] = ring'[f]]
            /\ broken' = broken
  <1> DEFINE c == CallOf(p, w)
             f == TraceTo(c)
             words == RecordWords(c)
             r == WriteRecord(ring[f], words)
             rec == Flat(words)
             b == Contents(ring[f])
  <1>1. c.nr \notin {START_STRACE, END_STRACE} /\ f \in held
    BY DEF Traced, ToTrace, Usable
  <1>2. words \in Seq(Nat)
    BY <1>1, WordsOfRecord
  <1>3. words = <<c.nr>> \o c.args
    BY <1>1, RequestOf
  <1>4. /\ ring' = [ring EXCEPT ![f] = r]
        /\ broken' = broken
    BY DEF Traced
  <1>5. Whole(ring[f], words) /\ Plain(words) /\ f \notin broken
    OBVIOUS
  <1>6. Delimiter \notin ToSet(rec)
    BY <1>5 DEF Plain
  <1> HIDE DEF c, f, words
  <1>7. Orderly(ring[f]) /\ Splittable(b) /\ ring \in [Files -> Rings] /\ f \in Files
    BY <1>1, <1>5 DEF RingInv, QueueInv, Closed
  <1>8. Contents(r) = (b \o rec) \o <<Delimiter>> /\ rec \in Seq(Nat)
    BY <1>2, <1>5, <1>7, RecordWritten
  <1>9. ring'[f] = r
    BY <1>4, <1>7
  <1> HIDE DEF r, rec, b
  <1>10. Splittable(Contents(r)) /\ Split(Contents(r)) = Append(Split(b), rec)
    BY <1>6, <1>7, <1>8, SplitBehind
  <1>11. /\ f \in held
         /\ Splittable(Contents(ring'[f]))
         /\ Split(Contents(ring'[f])) = Append(Split(Contents(ring[f])), Flat(<<c.nr>> \o c.args))
         /\ ring' = [ring EXCEPT ![f] = ring'[f]]
         /\ broken' = broken
    BY <1>1, <1>3, <1>4, <1>9, <1>10 DEF b, rec
  <1> QED
    BY <1>11 DEF c, f

(* What is expected of each kind of step, in terms of the mapping          *)
LEMMA RequestStep ==
  ASSUME Asked = <<>>, Asked' # <<>>, out' = <<>>,
         \/ Queues' = Queues /\ broken' = broken
         \/ \E f \in Files \ broken : Queues' = [Queues EXCEPT ![f] = Append(@, Asked')] /\ broken' = broken
         \/ \E f \in Files : Queues' = [Queues EXCEPT ![f] = <<>>] /\ broken' = broken \cup {f}
  PROVE  Promise!Request
  BY DEF Promise!Request, Asked, Queues, Queue

(* Oldest records are taken.                                               *)
LEMMA TakeStep ==
  ASSUME Asked # <<>>, Asked' = <<>>, NEW f \in Files, NEW n \in Counts,
         f \notin broken, Queues[f] # <<>>, broken' = broken,
         out' = FlattenSeq(SubSeq(Queues[f], 1, Min({n, Len(Queues[f])}))),
         Queues' = [Queues EXCEPT ![f] = SubSeq(@, Min({n, Len(Queues[f])}) + 1, Len(@))]
  PROVE  Promise!Serve
  <1>1. \A S : Promise!Min(S) = Min(S)
    BY DEF Promise!Min, Min
  <1>2. \A s : Promise!FlattenSeq(s) = FlattenSeq(s)
    BY DEF Promise!FlattenSeq, FlattenSeq
  <1>3. Promise!Take(f, n)
    BY <1>1, <1>2 DEF Promise!Take, Queues, Queue
  <1> QED
    BY <1>3 DEF Promise!Serve, Asked

(* A buffer that is broken, or has nothing to read, is read.               *)
LEMMA BrokenStep ==
  ASSUME Asked # <<>>, Asked' = <<>>, NEW f \in Files, f \in broken \/ Queues[f] = <<>>,
         broken' = broken \cup {f}, Queues' = Queues
  PROVE  Promise!Serve
  <1>1. Promise!ReadBroken(f)
    BY DEF Promise!ReadBroken, Queues, Queue
  <1> QED
    BY <1>1 DEF Promise!Serve, Asked

(* Buffers are made or closed.                                             *)
LEMMA RenewStep ==
  ASSUME Asked # <<>>, Asked' = <<>>, NEW some \in SUBSET Files, broken' = broken \ some, out' = <<>>,
         Queues' = [f \in Files |-> IF f \in some THEN <<>> ELSE Queues[f]]
  PROVE  Promise!Serve
  <1>1. Promise!Renew(some)
    BY DEF Promise!Renew, Queues, Queue
  <1> QED
    BY <1>1 DEF Promise!Serve, Asked

(* What a kernel gone astray, and a step that changes nothing of the       *)
(* buffers, are to the queues                                              *)
LEMMA SameQueues ==
  ASSUME UNCHANGED <<ring, held, broken>>
  PROVE  Queues' = Queues /\ (QueueInv => \A f \in held' \ broken' : Splittable(Contents(ring'[f])))
  <1>1. \A f \in held \ broken : Split(Contents(ring'[f])) = Split(Contents(ring[f]))
    OBVIOUS
  <1>2. Queues' = [f \in Files |-> IF f \in held' \ broken' THEN Split(Contents(ring'[f])) ELSE <<>>]
    BY DEF Queues, Queue, Contents, Split, Nth, Ends
  <1> QED
    BY <1>1, <1>2 DEF Queues, Queue, QueueInv

(* What the promise sees of the call being served                          *)
LEMMA AskedFacts ==
  ASSUME CallInv
  PROVE  Asked = <<>> <=> call = NoCall
  <1>1. CASE call = NoCall
    BY <1>1 DEF Asked
  <1>2. ASSUME NEW p \in Procs, NEW w \in Calls, call = CallOf(p, w)
        PROVE  call # NoCall /\ Asked # <<>>
    BY <1>2, RequestOf DEF Asked
  <1> QED
    BY <1>1, <1>2 DEF CallInv

(* perform_tracing records the call in a buffer, in none, or breaks one.   *)
LEMMA TracingQueues ==
  ASSUME CallsComplete, RingInv, QueueInv, NEW p \in Procs, NEW w \in Calls, perform_tracing(CallOf(p, w))
  PROVE  QueueInv' /\ Promise!Request
  <1> DEFINE c == CallOf(p, w)
             f == TraceTo(c)
             words == RecordWords(c)
             new == Flat(<<c.nr>> \o c.args)
  <1>1. /\ call = NoCall /\ call' = c /\ out' = <<>> /\ held' = held
        /\ Untraced(c) \/ Traced(c)
    BY DEF perform_tracing
  <1>2. c # NoCall /\ new # <<>>
    BY RequestOf
  <1>3. Asked = <<>> /\ Asked' # <<>> /\ Asked' = new
    BY <1>1, <1>2 DEF Asked
  <1>4. CASE UNCHANGED <<ring, broken>>
    <2>1. Queues' = Queues /\ (QueueInv => \A g \in held' \ broken' : Splittable(Contents(ring'[g])))
      BY <1>1, <1>4, SameQueues
    <2> QED
      BY <1>1, <1>3, <1>4, <2>1, RequestStep DEF QueueInv
  <1>5. CASE Traced(c) /\ f \notin broken /\ Whole(ring[f], words) /\ Plain(words)
    <2>1. /\ f \in held
          /\ Splittable(Contents(ring'[f]))
          /\ Split(Contents(ring'[f])) = Append(Split(Contents(ring[f])), new)
          /\ ring' = [ring EXCEPT ![f] = ring'[f]]
          /\ broken' = broken
      BY <1>5, RecordQueued
    <2> HIDE DEF c, f, words, new
    <2>2. ring \in [Files -> Rings] /\ f \in Files /\ f \in held \ broken
      BY <1>5, <2>1 DEF RingInv
    <2>3. \A g \in Files : g # f => ring'[g] = ring[g]
      BY <2>1, <2>2
    <2>4. \A g \in held' \ broken' : Splittable(Contents(ring'[g]))
      BY <1>1, <2>1, <2>2, <2>3 DEF QueueInv, RingInv
    <2>5. Queues' = [g \in Files |-> IF g \in held' \ broken' THEN Split(Contents(ring'[g])) ELSE <<>>]
      BY DEF Queues, Queue, Contents, Split, Nth, Ends
    <2>6. Queues' = [Queues EXCEPT ![f] = Append(@, Asked')]
      BY <1>1, <1>3, <2>1, <2>2, <2>3, <2>5 DEF Queues, Queue
    <2>7. QueueInv'
      BY <1>1, <2>4 DEF QueueInv
    <2> QED
      BY <1>1, <1>3, <2>1, <2>2, <2>6, <2>7, RequestStep
  <1>6. CASE Traced(c) /\ ~(f \notin broken /\ Whole(ring[f], words) /\ Plain(words))
    <2>1. f \in held /\ f \in Files /\ ring \in [Files -> Rings] /\ broken' = broken \cup {f}
          /\ ring' = [ring EXCEPT ![f] = WriteRecord(ring[f], words)]
      BY <1>6 DEF Traced, Usable, RingInv
    <2> HIDE DEF c, f, words, new
    <2>2. \A g \in Files : g # f => ring'[g] = ring[g]
      BY <2>1
    <2>3. \A g \in held' \ broken' : Splittable(Contents(ring'[g]))
      BY <1>1, <2>1, <2>2 DEF QueueInv, RingInv
    <2>4. Queues' = [g \in Files |-> IF g \in held' \ broken' THEN Split(Contents(ring'[g])) ELSE <<>>]
      BY DEF Queues, Queue, Contents, Split, Nth, Ends
    <2>5. Queues' = [Queues EXCEPT ![f] = <<>>]
      BY <1>1, <2>1, <2>2, <2>4 DEF Queues, Queue
    <2>6. QueueInv'
      BY <1>1, <2>3 DEF QueueInv
    <2> QED
      BY <1>1, <1>3, <2>1, <2>5, <2>6, RequestStep
  <1> QED
    BY <1>1, <1>4, <1>5, <1>6 DEF Untraced

(* Calls that make or close some buffers, and leave the others             *)
LEMMA RenewingQueues ==
  ASSUME CallInv, RingInv, QueueInv, call # NoCall, call' = NoCall, out' = out,
         NEW some \in SUBSET Files, broken' = broken \ some, held' \subseteq Files,
         \A f \in Files \ some : (f \in held' <=> f \in held) /\ ring'[f] = ring[f],
         \A f \in some \cap held' : Contents(ring'[f]) = <<>>
  PROVE  QueueInv' /\ Promise!Serve
  <1>1. Asked # <<>> /\ Asked' = <<>> /\ out' = <<>>
    BY AskedFacts DEF QueueInv, Asked
  <1>2. Queues' = [g \in Files |-> IF g \in held' \ broken' THEN Split(Contents(ring'[g])) ELSE <<>>]
    BY DEF Queues, Queue, Contents, Split, Nth, Ends
  <1>3. \A f \in some \cap held' : Splittable(Contents(ring'[f])) /\ Split(Contents(ring'[f])) = <<>>
    BY SplitNothing
  <1>4. \A f \in held' \ broken' : Splittable(Contents(ring'[f]))
    BY <1>3 DEF QueueInv
  <1>5. QueueInv'
    BY <1>4 DEF QueueInv
  <1>6. Queues' = [f \in Files |-> IF f \in some THEN <<>> ELSE Queues[f]]
    BY <1>2, <1>3 DEF Queues, Queue
  <1> QED
    BY <1>1, <1>5, <1>6, RenewStep

(* Calls that leave every buffer as it is                                  *)
LEMMA OtherQueues ==
  ASSUME CallInv, RingInv, QueueInv, call # NoCall, call' = NoCall, out' = out,
         UNCHANGED <<ring, held, broken>>
  PROVE  QueueInv' /\ Promise!Serve
  <1>1. {} \in SUBSET Files /\ broken' = broken \ {} /\ held' \subseteq Files
    BY DEF RingInv
  <1>2. \A f \in Files \ {} : (f \in held' <=> f \in held) /\ ring'[f] = ring[f]
    OBVIOUS
  <1>3. \A f \in {} \cap held' : Contents(ring'[f]) = <<>>
    OBVIOUS
  <1> QED
    BY <1>1, <1>2, <1>3, RenewingQueues

(* Steps the promise sees nothing of                                       *)
LEMMA NothingQueued ==
  ASSUME QueueInv, UNCHANGED <<ring, held, broken, call, out>>
  PROVE  QueueInv' /\ UNCHANGED Promise!vars
  <1>1. Queues' = Queues /\ (QueueInv => \A f \in held' \ broken' : Splittable(Contents(ring'[f])))
    BY SameQueues
  <1>2. QueueInv'
    BY <1>1 DEF QueueInv
  <1>3. Asked' = Asked
    BY DEF Asked
  <1> QED
    BY <1>1, <1>2, <1>3 DEF Promise!vars, Asked, Queues, Queue

(* The kernel leaves its memory: the promise sees nothing of it.           *)
LEMMA LeavingQueues ==
  ASSUME QueueInv, NEW how, Leaves(how)
  PROVE  QueueInv' /\ UNCHANGED Promise!vars
  BY NothingQueued DEF Leaves, file_vars

(* A buffer that is made has nothing in it.                                *)
LEMMA CreateQueues ==
  ASSUME CallInv, RingInv, QueueInv, Create
  PROVE  QueueInv' /\ Promise!Serve
  <1>1. call # NoCall /\ call' = NoCall /\ out' = out
    BY StraceAssumption DEF Create, Serving, Done, NoCall, TRACE_BUFFER
  <1>2. CASE UNCHANGED <<file_vars, broken>>
    BY <1>1, <1>2, OtherQueues DEF file_vars
  <1>3. ASSUME NEW f \in Files, sys_create_trace_buffer(call.by, f), broken' = broken \ {f}
        PROVE  QueueInv' /\ Promise!Serve
    <2>1. /\ ring' = [ring EXCEPT ![f].front = -1, ![f].rear = -1]
          /\ held' = held \cup {f} /\ ring \in [Files -> Rings] /\ held \subseteq Files
      BY <1>3 DEF sys_create_trace_buffer, RingInv
    <2>2. \A g \in Files \ {f} : (g \in held' <=> g \in held) /\ ring'[g] = ring[g]
      BY <2>1
    <2>3. ring[f] \in Rings /\ ring'[f] = [[ring[f] EXCEPT !.front = -1] EXCEPT !.rear = -1]
      BY <2>1
    <2>4. ring'[f].front = -1
      BY <2>3 DEF Rings
    <2>5. Contents(ring'[f]) = <<>>
      BY <2>4 DEF Contents
    <2>6. {f} \in SUBSET Files /\ held' \subseteq Files /\ \A g \in {f} \cap held' : Contents(ring'[g]) = <<>>
      BY <2>1, <2>5
    <2> QED
      BY <1>1, <1>3, <2>2, <2>6, RenewingQueues
  <1> QED
    BY <1>2, <1>3 DEF Create, create_refused

(* A buffer that is closed, and those a process leaves, are no more.       *)
LEMMA CloseQueues ==
  ASSUME CallInv, RingInv, QueueInv, Close
  PROVE  QueueInv' /\ Promise!Serve
  <1> DEFINE f == files[call.by][call.args[1]]
  <1>1. call # NoCall /\ call' = NoCall /\ out' = out
    BY StraceAssumption DEF Close, Serving, Done, NoCall, CLOSE, others
  <1>2. CASE UNCHANGED <<file_vars, broken>>
    BY <1>1, <1>2, OtherQueues DEF file_vars
  <1>3. CASE trace_buffer_close(call.by, call.args[1]) /\ broken' = broken \ {f}
    <2>1. f \in held /\ held' = held \ {f} /\ ring' = ring /\ held \subseteq Files
      BY <1>3 DEF trace_buffer_close, RingInv
    <2> HIDE DEF f
    <2>2. /\ {f} \in SUBSET Files /\ held' \subseteq Files
          /\ \A g \in Files \ {f} : (g \in held' <=> g \in held) /\ ring'[g] = ring[g]
          /\ \A g \in {f} \cap held' : Contents(ring'[g]) = <<>>
      BY <2>1
    <2> QED
      BY <1>1, <1>3, <2>2, RenewingQueues
  <1> QED
    BY <1>2, <1>3 DEF Close

(* A process that ends closes what it has open.                            *)
LEMMA ExitQueues ==
  ASSUME CallInv, RingInv, QueueInv, Exit
  PROVE  QueueInv' /\ Promise!Serve
  <1> DEFINE some == Opened(call.by)
  <1>1. call # NoCall /\ call' = NoCall /\ out' = out
    BY StraceAssumption DEF Exit, Serving, Done, NoCall, EXIT, others
  <1>2. /\ some \subseteq held /\ held' = held \ some /\ ring' = ring /\ held \subseteq Files
        /\ broken' = broken \ some
    BY DEF Exit, do_exit, RingInv
  <1> HIDE DEF some
  <1>3. /\ some \in SUBSET Files /\ held' \subseteq Files
        /\ \A g \in Files \ some : (g \in held' <=> g \in held) /\ ring'[g] = ring[g]
        /\ \A g \in some \cap held' : Contents(ring'[g]) = <<>>
    BY <1>2
  <1> QED
    BY <1>1, <1>2, <1>3, RenewingQueues

(* The other calls do nothing to a buffer.                                 *)
LEMMA OtherCallsQueues ==
  ASSUME CallInv, RingInv, QueueInv,
         Ordinary_call \/ Fork \/ sys_strace \/ sys_start_strace \/ sys_end_strace
  PROVE  QueueInv' /\ [Promise!Serve]_(Promise!vars)
  <1>1. call' = NoCall /\ out' = out /\ UNCHANGED <<ring, held, broken>>
    BY DEF Ordinary_call, Fork, do_fork, sys_strace, sys_start_strace, sys_end_strace, Done, others, file_vars
  <1>2. CASE call # NoCall
    BY <1>1, <1>2, OtherQueues
  <1>3. CASE call = NoCall
    BY <1>1, <1>3, NothingQueued
  <1> QED
    BY <1>2, <1>3

(* sys_read_strace gives the oldest records and leaves the others.         *)
LEMMA ReadQueues ==
  ASSUME CallInv, RingInv, QueueInv, sys_read_strace
  PROVE  QueueInv' /\ Promise!Serve
  <1> DEFINE f == files[call.by][call.args[1]]
             n == call.args[3]
             got(before) == ReadRecords(ring[f], n, before)
  <1>1. call # NoCall /\ call' = NoCall /\ held' = held
    <2>1. call.nr = 39 /\ call' = NoCall /\ held' = held
      BY DEF sys_read_strace, Serving, Done, READ_STRACE
    <2> QED
      BY ONLY <2>1 DEF NoCall
  <1>2. out = <<>> /\ Asked # <<>> /\ Asked' = <<>>
    BY <1>1, AskedFacts DEF QueueInv, Asked
  <1>3. CASE out' = <<>> /\ UNCHANGED <<ring, broken>>
    BY <1>1, <1>2, <1>3, OtherQueues
  <1>4. ASSUME NEW before \in Around, Usable(f),
               ring' = [ring EXCEPT ![f] = RingOf(got(before))],
               out' = got(before).out,
               broken' = IF Isempty(ring[f]) THEN broken \cup {f} ELSE broken
        PROVE  QueueInv' /\ Promise!Serve
    <2>1. n \in Nat /\ before \in Nat /\ n \in Counts
      BY StraceAssumption, CountOf DEF sys_read_strace, Serving
    <2> DEFINE s == got(before)
               r == RingOf(s)
               recs == Split(Contents(ring[f]))
               upto == IF n <= Len(recs) THEN n ELSE Len(recs)
    <2>2. f \in held /\ f \in Files /\ ring \in [Files -> Rings]
      BY <1>4 DEF Usable, RingInv
    <2>3. /\ ring' = [ring EXCEPT ![f] = r]
          /\ out' = s.out
          /\ broken' = IF Isempty(ring[f]) THEN broken \cup {f} ELSE broken
      BY <1>4
    <2>4. f \in held \ broken /\ ~Isempty(ring[f]) =>
            recs # <<>> /\ recs \in Seq(Seq(Nat)) /\ HasRead(s, recs, upto)
      BY <2>1, RecordsRead DEF RingInv, QueueInv, Closed
    <2>5. f \in held \ broken /\ Isempty(ring[f]) => recs = <<>>
      BY SomeRecords DEF RingInv, QueueInv, Closed
    <2> HIDE DEF f, n, s, r
    <2>6. ring'[f] = r /\ \A g \in Files : g # f => ring'[g] = ring[g]
      BY <2>2, <2>3
    <2>7. Queues' = [g \in Files |-> IF g \in held' \ broken' THEN Split(Contents(ring'[g])) ELSE <<>>]
      BY DEF Queues, Queue, Contents, Split, Nth, Ends
    <2>8. CASE f \in broken \/ Isempty(ring[f])
      <3>1. broken' = broken \cup {f}
        BY <2>3, <2>8
      <3>2. \A g \in held' \ broken' : Splittable(Contents(ring'[g]))
        BY <1>1, <2>6, <3>1 DEF QueueInv, RingInv
      <3>3. QueueInv'
        BY <1>1, <3>2 DEF QueueInv
      <3>4. f \in broken \/ recs = <<>>
        BY <2>2, <2>5, <2>8
      <3> HIDE DEF recs
      <3>5. Queues[f] = IF f \in held \ broken THEN recs ELSE <<>>
        BY <2>2 DEF Queues, Queue, recs
      <3>6. Queues[f] = <<>>
        BY <3>4, <3>5
      <3>7. Queues' = Queues
        BY <1>1, <2>2, <2>6, <2>7, <3>1, <3>6 DEF Queues, Queue
      <3> QED
        BY <1>2, <2>2, <3>1, <3>3, <3>6, <3>7, BrokenStep
    <2>9. CASE ~(f \in broken \/ Isempty(ring[f]))
      <3>1. broken' = broken /\ f \in held \ broken
        BY <2>2, <2>3, <2>9
      <3>2. recs # <<>> /\ recs \in Seq(Seq(Nat)) /\ HasRead(s, recs, upto)
        BY <2>4, <2>9, <3>1
      <3>3. Queues[f] = recs
        BY <2>2, <3>1 DEF Queues, Queue
      <3> HIDE DEF recs
      <3>4. Min({n, Len(recs)}) = upto
        <4>1. Len(recs) \in Nat
          BY <3>2
        <4> QED
          BY ONLY <2>1, <4>1, MinOfTwo DEF upto
      <3> HIDE DEF upto
      <3>5. /\ out' = FlattenSeq(SubSeq(recs, 1, upto))
            /\ Splittable(Contents(r)) /\ Split(Contents(r)) = SubSeq(recs, upto + 1, Len(recs))
        BY <2>3, <3>2 DEF HasRead, r
      <3>6. \A g \in held' \ broken' : Splittable(Contents(ring'[g]))
        BY <1>1, <2>6, <3>1, <3>5 DEF QueueInv, RingInv
      <3>7. QueueInv'
        BY <1>1, <3>6 DEF QueueInv
      <3>8. Queues' = [Queues EXCEPT ![f] = SubSeq(recs, upto + 1, Len(recs))]
        BY <1>1, <2>2, <2>6, <2>7, <3>1, <3>5 DEF Queues, Queue
      <3>9. Queues' = [Queues EXCEPT ![f] = SubSeq(@, upto + 1, Len(@))]
        BY <3>3, <3>8
      <3> QED
        BY <1>2, <2>1, <2>2, <3>1, <3>2, <3>3, <3>4, <3>5, <3>7, <3>9, TakeStep
    <2> QED
      BY <2>8, <2>9
  <1> QED
    BY <1>3, <1>4 DEF sys_read_strace

(* Every step is one of the promise's, or none of them.                    *)
LEMMA StepKeepsQueues ==
  ASSUME CallsComplete, IInv, QueueInv, [Next]_vars
  PROVE  QueueInv' /\ [Promise!Next]_(Promise!vars)
  <1> USE DEF IInv
  <1>1. CASE UNCHANGED vars
    BY <1>1, NothingQueued DEF vars, file_vars
  <1>2. CASE Next
    <2>1. ASSUME NEW p \in Procs, NEW w \in Calls, perform_tracing(CallOf(p, w))
          PROVE  QueueInv' /\ Promise!Request
      BY <2>1, TracingQueues
    <2>2. ASSUME NEW p \in Procs, NEW w \in Calls, perform_tracing_strays(CallOf(p, w))
          PROVE  QueueInv' /\ UNCHANGED Promise!vars
      BY <2>2, LeavingQueues DEF perform_tracing_strays
    <2>3. CASE StraysClosing \/ sys_end_strace_strays \/ Reuse \/ ReadStrays \/ ReadHangs
      <3>1. QueueInv' /\ UNCHANGED Promise!vars
        BY <2>3, LeavingQueues DEF StraysClosing, sys_end_strace_strays, Reuse, ReadStrays, ReadHangs
      <3> QED
        BY <3>1
    <2>4. CASE \/ Ordinary_call \/ Create \/ Close \/ Fork \/ Exit
               \/ sys_strace \/ sys_start_strace \/ sys_end_strace \/ sys_read_strace
      <3>1. QueueInv' /\ [Promise!Serve]_(Promise!vars)
        BY <2>4, CreateQueues, CloseQueues, ExitQueues, OtherCallsQueues, ReadQueues
      <3> QED
        BY <3>1 DEF Promise!Next
    <2>5. CASE \E p \in Procs, w \in Calls : perform_tracing(CallOf(p, w)) \/ perform_tracing_strays(CallOf(p, w))
      BY <2>1, <2>2, <2>5 DEF Promise!Next
    <2> QED
      BY <1>2, <2>3, <2>4, <2>5 DEF Next, CallOf
  <1> QED
    BY <1>1, <1>2

(* Tracing keeps its promise: the records in a buffer are read back whole, *)
(* in order and once, however reads and writes wrap around the ring, until *)
(* one did not fit, held the delimiter, or a read found the buffer empty.  *)
THEOREM RecordsAreQueued ==
  ASSUME CallsComplete
  PROVE  Spec => IsRecordQueue
  <1>1. Init => QueueInv /\ Promise!Init
    <2> SUFFICES ASSUME Init PROVE QueueInv /\ Promise!Init
      OBVIOUS
    <2>1. held = {} /\ broken = {} /\ call = NoCall /\ out = <<>>
      BY DEF Init, FilesInit
    <2> QED
      BY <2>1 DEF QueueInv, Promise!Init
  <1>2. IInv /\ QueueInv /\ [Next]_vars => QueueInv' /\ [Promise!Next]_(Promise!vars)
    BY StepKeepsQueues
  <1> QED
    BY <1>1, <1>2, InvAlways, PTL DEF Spec, IsRecordQueue, Promise!Spec
=============================================================================
