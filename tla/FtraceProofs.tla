---------------------------- MODULE FtraceProofs ----------------------------
(***************************************************************************)
(* Proofs about Ftrace, for every set of functions, every limit on the     *)
(* list, every size of the trace buffer and every depth of calls: the list *)
(* of traced functions stays consistent, no function loses its first bytes *)
(* unless it is patched while patched, and the program behaves as CallTrace*)
(* says, whose records are its calls with their backtraces.                *)
(***************************************************************************)
EXTENDS Ftrace, TraceLemmas

Node == [faddr : Funcs, num_args : NArgs, capture_backtrace : BOOLEAN,
         code_backup : {"push", "invalid", NULL}]

(* The list alone: no function has two nodes in it.                        *)
ListInv ==
  /\ list \in Seq(Node)
  /\ \A i, j \in DOMAIN list : list[i].faddr = list[j].faddr => i = j
  /\ count = Len(list)
  /\ last = IF list = <<>> THEN NULL ELSE Last(list).faddr

(* What a node saved of a function that was not patched twice are its own  *)
(* bytes; as long as they are overwritten, there is such a node.           *)
BackupInv ==
  /\ code \in [Funcs -> {"push", "invalid"}]
  /\ \A i \in DOMAIN list : list[i].faddr \notin twice => list[i].code_backup # "invalid"
  /\ \A f \in Funcs \ twice :
       code[f] = "invalid" =>
         \E i \in DOMAIN list : list[i].faddr = f /\ list[i].code_backup = "push"

FaultInv ==
  /\ rip.place = "entry" => rip.fn \in Funcs
  /\ wild = "node" => rip.fn \in twice

(* What the list and twice keep within                                     *)
BoundInv == count <= FTRACE_MAX /\ twice \subseteq Funcs

Words == [kind : {"return", "rbp", "local"}, v : Nat]

(* A saved rbp, all but main's, leads to the one of the caller further     *)
(* down, and lies on the address to return to; only main, or a function    *)
(* main has called, has the frame of main below it.                        *)
Linked(mem, i) ==
  /\ mem[i].v \in 2 .. (i - 2) /\ mem[mem[i].v].kind = "rbp"
  /\ mem[i - 1].v \in Funcs \cup {Main}
  /\ mem[i].v = 2 => mem[i - 1].v = Main

GoodStack(mem) ==
  /\ mem \in Seq(Words) /\ Len(mem) >= 2
  /\ mem[1].kind = "return" /\ mem[1].v = END_ADDR /\ mem[2].kind = "rbp"
  /\ \A i \in 3 .. Len(mem) : mem[i].kind = "rbp" => Linked(mem, i)

(* Between a call and the first bytes of the function, its return address  *)
(* is on top of the stack.                                                 *)
FrameInv ==
  /\ GoodStack(stack)
  /\ rbp \in 2 .. Len(stack) /\ stack[rbp].kind = "rbp"
  /\ rip.fn \in Funcs \cup {Main} /\ rip.place \in {"entry", "body"}
  /\ rip.place = "body" /\ rbp = 2 => rip.fn = Main
  /\ rip.place = "entry" =>
       /\ rip.args \in Seq(Nat)
       /\ rbp < Len(stack)
       /\ stack[Len(stack)].v \in Funcs \cup {Main}
       /\ rbp = 2 => stack[Len(stack)].v = Main

(* The last byte of a buffer that is not broken ends a record.             *)
BufferInv ==
  /\ buffer \in Rings \cup {NULL}
  /\ broken \in BOOLEAN
  /\ wild \in {"no", "node", "page", "hang"}
  /\ ~broken /\ buffer # NULL => Closed(buffer)
  /\ HangsOnlyOnBroken

IInv == ListInv /\ BackupInv /\ FaultInv /\ BoundInv /\ FrameInv /\ BufferInv

LEMMA LastOfNonempty ==
  ASSUME NEW s \in Seq(Node), s # <<>>
  PROVE  Len(s) \in DOMAIN s /\ Last(s) = s[Len(s)] /\ Last(s).faddr \in Funcs
  <1>1. Len(s) \in 1 .. Len(s)
    OBVIOUS
  <1>2. s[Len(s)] \in Node
    BY <1>1
  <1> QED
    BY <1>1, <1>2 DEF Last, Node

(* The node of a traced function is the only one with its address.         *)
LEMMA TheNode ==
  ASSUME ListInv, NEW f, Traced(f)
  PROVE  /\ Min(Nodes(f)) \in DOMAIN list
         /\ list[Min(Nodes(f))].faddr = f
         /\ NodeOf(f) = list[Min(Nodes(f))]
         /\ NodeOf(f) \in Node
         /\ \A i \in DOMAIN list : list[i].faddr = f => i = Min(Nodes(f))
  <1>1. PICK i \in DOMAIN list : list[i].faddr = f
    BY DEF Traced, Nodes
  <1>2. Nodes(f) = {i}
    BY <1>1 DEF Nodes, ListInv
  <1>3. i \in Int
    BY DEF ListInv
  <1>4. Min(Nodes(f)) = i
    BY <1>2, <1>3, MinOfOne
  <1>5. list[i] \in Node
    BY DEF ListInv
  <1> QED
    BY <1>1, <1>2, <1>4, <1>5 DEF NodeOf, Nodes

(* Init and the actions that leave lists alone                             *)
LEMMA InitInv == Init => IInv
  <1> SUFFICES ASSUME Init PROVE IInv
    OBVIOUS
  <1>1. ListInv
    BY DEF Init, ListInv
  <1>2. BackupInv
    BY DEF Init, BackupInv
  <1>3. FaultInv
    BY DEF Init, FaultInv, Body
  <1>4. BoundInv
    BY FtraceAssumption DEF Init, BoundInv
  <1>5. FrameInv
    <2> DEFINE low == Word_at("return", END_ADDR)
               high == Word_at("rbp", 0)
    <2>1. stack = <<low, high>> /\ rbp = 2 /\ rip = Body(Main)
      BY DEF Init
    <2>2. low \in Words /\ high \in Words /\ low.kind = "return" /\ low.v = END_ADDR /\ high.kind = "rbp"
      BY DEF Word_at, Words, END_ADDR
    <2> HIDE DEF low, high
    <2>3. stack \in Seq(Words) /\ Len(stack) = 2 /\ stack[1] = low /\ stack[2] = high
      BY <2>1, <2>2
    <2>4. GoodStack(stack)
      BY <2>2, <2>3 DEF GoodStack
    <2> QED
      BY <2>1, <2>2, <2>3, <2>4 DEF FrameInv, Body
  <1>6. BufferInv
    BY DEF Init, BufferInv, HangsOnlyOnBroken
  <1> QED
    BY <1>1, <1>2, <1>3, <1>4, <1>5, <1>6 DEF IInv

LEMMA SameLists ==
  ASSUME ListInv, BackupInv, UNCHANGED lists
  PROVE  ListInv' /\ BackupInv'
  <1> list' = list /\ count' = count /\ last' = last /\ code' = code /\ twice' = twice
    BY DEF lists
  <1> QED
    BY DEF ListInv, BackupInv

(* Writing another backup or another flag into a node moves no node.       *)
LEMMA SetNodeFacts ==
  ASSUME ListInv, NEW f, Traced(f), NEW node \in Node, node.faddr = f, SetNode(f, node)
  PROVE  /\ list' \in Seq(Node) /\ Len(list') = Len(list) /\ DOMAIN list' = DOMAIN list
         /\ \A i \in DOMAIN list : list'[i].faddr = list[i].faddr
         /\ list'[Min(Nodes(f))] = node
         /\ \A i \in DOMAIN list : list[i].faddr # f => list'[i] = list[i]
         /\ (list' = <<>>) = (list = <<>>)
         /\ list # <<>> => Last(list').faddr = Last(list).faddr
  <1> DEFINE k == Min(Nodes(f))
  <1>1. k \in DOMAIN list /\ list[k].faddr = f
    BY TheNode
  <1>2. list \in Seq(Node)
    BY DEF ListInv
  <1> HIDE DEF k
  <1>3. list' = [list EXCEPT ![k] = node]
    BY DEF SetNode, k
  <1>4. list' \in Seq(Node) /\ Len(list') = Len(list) /\ DOMAIN list' = DOMAIN list
    BY <1>1, <1>2, <1>3
  <1>5. \A i \in DOMAIN list : list'[i] = IF i = k THEN node ELSE list[i]
    BY <1>1, <1>2, <1>3
  <1>6. (list' = <<>>) = (list = <<>>)
    BY <1>2, <1>4
  <1>7. list # <<>> => Last(list').faddr = Last(list).faddr
    BY <1>1, <1>2, <1>4, <1>5, LastOfNonempty DEF Last
  <1> QED
    BY <1>1, <1>4, <1>5, <1>6, <1>7 DEF k

LEMMA SetNodeKeepsList ==
  ASSUME ListInv, NEW f, Traced(f), NEW node \in Node, node.faddr = f, SetNode(f, node),
         UNCHANGED <<count, last>>
  PROVE  ListInv'
  BY SetNodeFacts DEF ListInv

(* A function's own bytes are saved, or twice takes note.                  *)
LEMMA PatchKeepsInv ==
  ASSUME ListInv, BackupInv, NEW f \in Funcs, Traced(f), NEW node \in Node, node.faddr = f,
         Patch(f, node), UNCHANGED <<count, last>>
  PROVE  ListInv' /\ BackupInv'
  <1> DEFINE k == Min(Nodes(f))
             new == [node EXCEPT !.code_backup = code[f]]
  <1>1. code[f] \in {"push", "invalid"}
    BY DEF BackupInv
  <1>2. new \in Node /\ new.faddr = f /\ new.code_backup = code[f]
    BY <1>1 DEF Node
  <1> HIDE DEF k, new
  <1>3. SetNode(f, new) /\ code' = [code EXCEPT ![f] = "invalid"]
        /\ twice' = IF code[f] = "invalid" THEN twice \cup {f} ELSE twice
    BY DEF Patch, new
  <1>4. ListInv'
    BY <1>2, <1>3, SetNodeKeepsList
  <1>5. /\ DOMAIN list' = DOMAIN list /\ list'[k] = new
        /\ \A i \in DOMAIN list : list'[i].faddr = list[i].faddr
        /\ \A i \in DOMAIN list : list[i].faddr # f => list'[i] = list[i]
    BY <1>2, <1>3, SetNodeFacts DEF k
  <1>6. k \in DOMAIN list /\ list[k].faddr = f /\ \A i \in DOMAIN list : list[i].faddr = f => i = k
    BY TheNode DEF k
  <1>7. code' \in [Funcs -> {"push", "invalid"}]
    BY <1>3 DEF BackupInv
  <1>8. \A i \in DOMAIN list' : list'[i].faddr \notin twice' => list'[i].code_backup # "invalid"
    BY <1>2, <1>3, <1>5, <1>6 DEF BackupInv
  <1>9. \A g \in Funcs \ twice' :
          code'[g] = "invalid" =>
            \E i \in DOMAIN list' : list'[i].faddr = g /\ list'[i].code_backup = "push"
    <2> TAKE g \in Funcs \ twice'
    <2> HAVE code'[g] = "invalid"
    <2>1. CASE g = f
      <3>1. code[f] = "push"
        BY <1>1, <1>3, <2>1
      <3> QED
        BY <1>2, <1>5, <1>6, <2>1, <3>1
    <2>2. CASE g # f
      <3>1. code[g] = "invalid" /\ g \notin twice
        BY <1>3, <2>2 DEF BackupInv
      <3>2. PICK i \in DOMAIN list : list[i].faddr = g /\ list[i].code_backup = "push"
        BY <3>1 DEF BackupInv
      <3> QED
        BY <1>5, <2>2, <3>2
    <2> QED
      BY <2>1, <2>2
  <1> QED
    BY <1>4, <1>7, <1>8, <1>9 DEF BackupInv

(* Putting the bytes back: of a function not patched twice they are its    *)
(* own again, whatever was in its place.                                   *)
LEMMA RestoredFacts ==
  ASSUME ListInv, BackupInv, NEW f \in Funcs, Traced(f)
  PROVE  /\ Restored(f) \in [Funcs -> {"push", "invalid"}]
         /\ \A g \in Funcs : g # f => Restored(f)[g] = code[g]
         /\ f \notin twice => Restored(f)[f] = "push"
  <1>1. PICK k \in DOMAIN list : /\ k = Min(Nodes(f)) /\ NodeOf(f) = list[k] /\ list[k].faddr = f
                                 /\ \A i \in DOMAIN list : list[i].faddr = f => i = k
    BY TheNode
  <1>2. NodeOf(f).code_backup \in {"push", "invalid", NULL}
    BY TheNode DEF Node
  <1>3. code \in [Funcs -> {"push", "invalid"}]
    BY DEF BackupInv
  <1>4. f \notin twice => NodeOf(f).code_backup # "invalid"
    BY <1>1 DEF BackupInv
  <1>5. f \notin twice /\ code[f] = "invalid" => NodeOf(f).code_backup = "push"
    BY <1>1 DEF BackupInv
  <1>6. NULL \notin {"push", "invalid"}
    BY FtraceAssumption
  <1>7. CASE NodeOf(f).code_backup = NULL
    <2>1. Restored(f) = code
      BY <1>7 DEF Restored
    <2> QED
      BY <1>3, <1>5, <1>6, <1>7, <2>1
  <1>8. CASE NodeOf(f).code_backup # NULL
    <2>1. Restored(f) = [code EXCEPT ![f] = NodeOf(f).code_backup]
      BY <1>8 DEF Restored
    <2> QED
      BY <1>2, <1>3, <1>4, <1>8, <2>1
  <1> QED
    BY <1>7, <1>8

-----------------------------------------------------------------------------
(* The operations of do_ftrace                                             *)

LEMMA AddKeepsInv ==
  ASSUME ListInv, BackupInv, NEW f \in Funcs, NEW n \in NArgs, add_ftrace(f, n)
  PROVE  ListInv' /\ BackupInv'
  <1> DEFINE node == [faddr |-> f, num_args |-> n, capture_backtrace |-> FALSE, code_backup |-> NULL]
  <1>1. node \in Node /\ node.faddr = f /\ node.code_backup = NULL
    BY DEF Node
  <1> HIDE DEF node
  <1>2. list \in Seq(Node) /\ \A i \in DOMAIN list : list[i].faddr # f
    BY DEF add_ftrace, Traced, Nodes, ListInv
  <1>3. list' = Append(list, node)
    <2>1. CASE list = <<>>
      <3>1. last = NULL
        BY <2>1 DEF ListInv
      <3>2. list' = <<node>>
        BY <3>1 DEF add_ftrace, node
      <3> QED
        BY <2>1, <3>2
    <2>2. CASE list # <<>>
      <3>1. last = Last(list).faddr /\ last \in Funcs
        BY <1>2, <2>2, LastOfNonempty DEF ListInv
      <3>2. last # NULL
        BY <3>1, FtraceAssumption
      <3> QED
        BY <3>1, <3>2 DEF add_ftrace, node
    <2> QED
      BY <2>1, <2>2
  <1>4. /\ list' \in Seq(Node) /\ Len(list') = Len(list) + 1 /\ DOMAIN list' = 1 .. Len(list) + 1
        /\ \A i \in DOMAIN list : list'[i] = list[i]
        /\ list'[Len(list) + 1] = node /\ list' # <<>>
    BY <1>1, <1>2, <1>3
  <1>5. code' = code /\ twice' = twice /\ last' = f /\ count' = count + 1
    BY DEF add_ftrace
  <1>6. DOMAIN list = 1 .. Len(list) /\ Len(list) \in Nat
    BY <1>2
  <1>7. ListInv'
    <2>1. Last(list').faddr = f
      BY <1>1, <1>4 DEF Last
    <2>2. \A i, j \in DOMAIN list' : list'[i].faddr = list'[j].faddr => i = j
      BY <1>1, <1>2, <1>4, <1>6 DEF ListInv
    <2> QED
      BY <1>4, <1>5, <2>1, <2>2 DEF ListInv
  <1>8. BackupInv'
    <2>1. NULL # "invalid"
      BY FtraceAssumption
    <2>2. \A i \in DOMAIN list' : list'[i].faddr \notin twice' => list'[i].code_backup # "invalid"
      BY <1>1, <1>4, <1>5, <1>6, <2>1 DEF BackupInv
    <2> QED
      BY <1>4, <1>5, <1>6, <2>2 DEF BackupInv
  <1> QED
    BY <1>7, <1>8

LEMMA RemoveKeepsInv ==
  ASSUME ListInv, BackupInv, NEW f \in Funcs, remove_ftrace(f)
  PROVE  ListInv' /\ BackupInv'
  <1>1. Traced(f) /\ code' = Restored(f) /\ twice' = twice /\ count' = count - 1
    BY DEF remove_ftrace
  <1>2. PICK k \in DOMAIN list :
          k = Min(Nodes(f)) /\ list[k].faddr = f /\ \A i \in DOMAIN list : list[i].faddr = f => i = k
    BY <1>1, TheNode
  <1>3. list \in Seq(Node) /\ DOMAIN list = 1 .. Len(list) /\ Len(list) \in Nat /\ list # <<>>
    BY <1>2 DEF ListInv
  <1>4. list' = RemoveAt(list, k)
    BY <1>2 DEF remove_ftrace
  <1>5. /\ list' \in Seq(Node) /\ Len(list') = Len(list) - 1
        /\ \A j \in 1 .. Len(list) - 1 : list'[j] = IF j < k THEN list[j] ELSE list[j + 1]
    BY <1>3, <1>4, RemoveAtFacts
  <1>6. DOMAIN list' = 1 .. Len(list) - 1
    BY <1>3, <1>5
  <1> DEFINE old(j) == IF j < k THEN j ELSE j + 1
  <1>7. \A j \in DOMAIN list' : old(j) \in DOMAIN list /\ list'[j] = list[old(j)]
    BY <1>3, <1>5, <1>6
  <1>8. \A i, j \in DOMAIN list' : old(i) = old(j) => i = j
    BY <1>3, <1>6
  <1> HIDE DEF old
  <1>9. ListInv'
    <2>1. \A i, j \in DOMAIN list' : list'[i].faddr = list'[j].faddr => i = j
      BY <1>7, <1>8 DEF ListInv
    <2>2. last' = IF list' = <<>> THEN NULL ELSE Last(list').faddr
      <3>1. last = Last(list).faddr /\ last = list[Len(list)].faddr
        BY <1>3 DEF ListInv, Last
      <3>2. CASE f = Last(list).faddr
        BY <3>2 DEF remove_ftrace
      <3>3. CASE f # Last(list).faddr
        <4>1. k # Len(list)
          BY <1>2, <3>1, <3>3
        <4>2. list' # <<>> /\ Len(list') \in 1 .. Len(list) - 1 /\ ~(Len(list') < k)
          BY <1>2, <1>3, <1>5, <4>1
        <4>3. list'[Len(list')] = list[Len(list)]
          BY <1>3, <1>5, <4>2
        <4> QED
          BY <3>1, <3>3, <4>2, <4>3 DEF remove_ftrace, Last
      <3> QED
        BY <3>2, <3>3
    <2> QED
      BY <1>1, <1>5, <2>1, <2>2 DEF ListInv
  <1>10. BackupInv'
    <2>1. code' \in [Funcs -> {"push", "invalid"}]
      BY <1>1, RestoredFacts
    <2>2. \A i \in DOMAIN list' : list'[i].faddr \notin twice' => list'[i].code_backup # "invalid"
      BY <1>1, <1>7 DEF BackupInv
    <2>3. \A g \in Funcs \ twice' :
            code'[g] = "invalid" =>
              \E i \in DOMAIN list' : list'[i].faddr = g /\ list'[i].code_backup = "push"
      <3> TAKE g \in Funcs \ twice'
      <3> HAVE code'[g] = "invalid"
      <3>1. g # f
        BY <1>1, RestoredFacts
      <3>2. code[g] = "invalid" /\ g \notin twice
        BY <1>1, <3>1, RestoredFacts
      <3>3. PICK i \in DOMAIN list : list[i].faddr = g /\ list[i].code_backup = "push"
        BY <3>2 DEF BackupInv
      <3>4. i # k
        BY <1>2, <3>1, <3>3
      <3>5. CASE i < k
        BY <1>3, <1>5, <1>6, <3>3, <3>5
      <3>6. CASE i > k
        <4>1. i - 1 \in 1 .. Len(list) - 1 /\ ~(i - 1 < k) /\ (i - 1) + 1 = i
          BY <1>3, <3>6
        <4>2. list'[i - 1] = list[i]
          BY <1>5, <4>1
        <4> QED
          BY <1>6, <3>3, <4>1, <4>2
      <3> QED
        BY <1>3, <3>4, <3>5, <3>6
    <2> QED
      BY <2>1, <2>2, <2>3 DEF BackupInv
  <1> QED
    BY <1>9, <1>10

LEMMA EnableKeepsInv ==
  ASSUME ListInv, BackupInv, NEW f \in Funcs, enable_ftrace(f)
  PROVE  ListInv' /\ BackupInv'
  <1>1. Traced(f) /\ Patch(f, NodeOf(f)) /\ UNCHANGED <<count, last>>
    BY DEF enable_ftrace
  <1>2. NodeOf(f) \in Node /\ NodeOf(f).faddr = f
    BY <1>1, TheNode
  <1> QED
    BY <1>1, <1>2, PatchKeepsInv

(* Putting the bytes back while the nodes stay as they are, but for a flag *)
LEMMA RestoringKeepsBackups ==
  ASSUME ListInv, BackupInv, NEW f \in Funcs, Traced(f), code' = Restored(f), twice' = twice,
         DOMAIN list' = DOMAIN list,
         \A i \in DOMAIN list : list'[i].faddr = list[i].faddr /\ list'[i].code_backup = list[i].code_backup
  PROVE  BackupInv'
  <1>1. code' \in [Funcs -> {"push", "invalid"}]
    BY RestoredFacts
  <1>2. \A g \in Funcs \ twice' :
          code'[g] = "invalid" =>
            \E i \in DOMAIN list' : list'[i].faddr = g /\ list'[i].code_backup = "push"
    <2> TAKE g \in Funcs \ twice'
    <2> HAVE code'[g] = "invalid"
    <2>1. g # f /\ code[g] = "invalid" /\ g \notin twice
      BY RestoredFacts
    <2> QED
      BY <2>1 DEF BackupInv
  <1> QED
    BY <1>1, <1>2 DEF BackupInv

LEMMA DisableKeepsInv ==
  ASSUME ListInv, BackupInv, NEW f \in Funcs, disable_ftrace(f)
  PROVE  ListInv' /\ BackupInv'
  <1>1. Traced(f) /\ code' = Restored(f) /\ UNCHANGED <<list, count, last, twice>>
    BY DEF disable_ftrace
  <1> QED
    BY <1>1, RestoringKeepsBackups DEF ListInv

LEMMA EnableBacktraceKeepsInv ==
  ASSUME ListInv, BackupInv, NEW f \in Funcs, enable_backtrace(f)
  PROVE  ListInv' /\ BackupInv'
  <1> DEFINE node == [NodeOf(f) EXCEPT !.capture_backtrace = TRUE]
  <1>1. Traced(f) /\ UNCHANGED <<count, last>>
    BY DEF enable_backtrace
  <1>2. /\ NodeOf(f) \in Node /\ NodeOf(f).faddr = f /\ NodeOf(f) = list[Min(Nodes(f))]
        /\ \A i \in DOMAIN list : list[i].faddr = f => i = Min(Nodes(f))
    BY <1>1, TheNode
  <1>3. node \in Node /\ node.faddr = f /\ node.code_backup = NodeOf(f).code_backup
    BY <1>2 DEF Node
  <1>4. CASE node.code_backup = NULL
    <2>1. Patch(f, node)
      BY <1>4 DEF enable_backtrace
    <2> QED
      BY <1>1, <1>3, <2>1, PatchKeepsInv
  <1>5. CASE node.code_backup # NULL
    <2>1. SetNode(f, node) /\ code' = code /\ twice' = twice
      BY <1>5 DEF enable_backtrace
    <2> HIDE DEF node
    <2>2. ListInv'
      BY <1>1, <1>3, <2>1, SetNodeKeepsList
    <2>3. DOMAIN list' = DOMAIN list
          /\ \A i \in DOMAIN list : list'[i].faddr = list[i].faddr /\ list'[i].code_backup = list[i].code_backup
      BY <1>1, <1>2, <1>3, <2>1, SetNodeFacts
    <2>4. BackupInv'
      BY <2>1, <2>3 DEF BackupInv
    <2> QED
      BY <2>2, <2>4
  <1> QED
    BY <1>4, <1>5

LEMMA DisableBacktraceKeepsInv ==
  ASSUME ListInv, BackupInv, NEW f \in Funcs, disable_backtrace(f)
  PROVE  ListInv' /\ BackupInv'
  <1> DEFINE node == [NodeOf(f) EXCEPT !.capture_backtrace = FALSE]
  <1>1. Traced(f) /\ SetNode(f, node) /\ code' = Restored(f) /\ UNCHANGED <<count, last, twice>>
    BY DEF disable_backtrace
  <1>2. /\ NodeOf(f) \in Node /\ NodeOf(f).faddr = f /\ NodeOf(f) = list[Min(Nodes(f))]
        /\ \A i \in DOMAIN list : list[i].faddr = f => i = Min(Nodes(f))
    BY <1>1, TheNode
  <1>3. node \in Node /\ node.faddr = f /\ node.code_backup = NodeOf(f).code_backup
    BY <1>2 DEF Node
  <1> HIDE DEF node
  <1>4. ListInv'
    BY <1>1, <1>3, SetNodeKeepsList
  <1>5. DOMAIN list' = DOMAIN list
        /\ \A i \in DOMAIN list : list'[i].faddr = list[i].faddr /\ list'[i].code_backup = list[i].code_backup
    BY <1>1, <1>2, <1>3, SetNodeFacts
  <1> QED
    BY <1>1, <1>4, <1>5, RestoringKeepsBackups

LEMMA CallKeepsInv ==
  ASSUME ListInv, BackupInv, do_ftrace
  PROVE  ListInv' /\ BackupInv'
  <1> PICK f \in Funcs :
        \/ \E n \in NArgs : add_ftrace(f, n)
        \/ enable_ftrace(f) \/ remove_ftrace(f) \/ disable_ftrace(f)
        \/ enable_backtrace(f) \/ disable_backtrace(f)
        \/ (count = FTRACE_MAX \/ ~Traced(f)) /\ UNCHANGED lists
    BY DEF do_ftrace
  <1>1. CASE \E n \in NArgs : add_ftrace(f, n)
    BY <1>1, AddKeepsInv
  <1>2. CASE enable_ftrace(f)
    BY <1>2, EnableKeepsInv
  <1>3. CASE remove_ftrace(f)
    BY <1>3, RemoveKeepsInv
  <1>4. CASE disable_ftrace(f)
    BY <1>4, DisableKeepsInv
  <1>5. CASE enable_backtrace(f)
    BY <1>5, EnableBacktraceKeepsInv
  <1>6. CASE disable_backtrace(f)
    BY <1>6, DisableBacktraceKeepsInv
  <1>7. CASE UNCHANGED lists
    BY <1>7, SameLists
  <1> QED
    BY <1>1, <1>2, <1>3, <1>4, <1>5, <1>6, <1>7

-----------------------------------------------------------------------------
(* Every step: the list and the bytes                                      *)
LEMMA StepKeepsLists ==
  ASSUME ListInv, BackupInv, [Next]_vars
  PROVE  ListInv' /\ BackupInv'
  <1>1. CASE do_ftrace
    BY <1>1, CallKeepsInv
  <1>2. CASE UNCHANGED lists
    BY <1>2, SameLists
  <1>3. ~do_ftrace => UNCHANGED lists
    BY DEF Next, Call, Local, Return, Begin, handle_ftrace_fault, fault_without_node,
           backtrace_overflows, Create, Close, sys_read_ftrace, Leaves, vars
  <1> QED
    BY <1>1, <1>2, <1>3

(* A function about to begin is one that may be traced, and a fault finds  *)
(* no node only for one patched twice.                                     *)
LEMMA StepKeepsFaults ==
  ASSUME ListInv, BackupInv, FaultInv, [Next]_vars
  PROVE  FaultInv'
  <1>1. CASE UNCHANGED vars
    BY <1>1 DEF vars, machine, lists, FaultInv
  <1>2. CASE Call
    BY <1>2 DEF Call, Running, FaultInv
  <1>3. CASE Local \/ Create \/ Close
    BY <1>3 DEF Local, Create, Close, Running, machine, lists, FaultInv
  <1>4. CASE Return \/ Begin
    BY <1>4 DEF Return, Begin, Prologue, Running, Body, FaultInv
  <1>5. CASE handle_ftrace_fault
    BY <1>5 DEF handle_ftrace_fault, Faults, Emulate, Body, FaultInv
  <1>6. CASE fault_without_node
    <2>1. rip.fn \in Funcs /\ code[rip.fn] = "invalid" /\ ~Traced(rip.fn)
      BY <1>6 DEF fault_without_node, Faults, FaultInv
    <2>2. rip.fn \in twice
      BY <2>1 DEF BackupInv, Traced, Nodes
    <2> QED
      BY <1>6, <2>1, <2>2 DEF fault_without_node, Leaves, machine, lists, FaultInv
  <1>7. CASE backtrace_overflows
    BY <1>7 DEF backtrace_overflows, Faults, Leaves, machine, lists, FaultInv
  <1>8. CASE do_ftrace
    BY <1>8 DEF do_ftrace, SystemCall, Running, machine, FaultInv
  <1>9. CASE \E n \in Counts : sys_read_ftrace(n)
    BY <1>9 DEF sys_read_ftrace, Running, machine, lists, FaultInv
  <1> QED
    BY <1>1, <1>2, <1>3, <1>4, <1>5, <1>6, <1>7, <1>8, <1>9 DEF Next

LEMMA StepKeepsBounds ==
  ASSUME ListInv, ListInv', BoundInv, [Next]_vars
  PROVE  BoundInv'
  <1>1. CASE UNCHANGED lists
    BY <1>1 DEF lists, BoundInv
  <1>2. CASE do_ftrace
    <2>1. count \in Nat /\ FTRACE_MAX \in Nat
      BY FtraceAssumption DEF ListInv
    <2>2. ASSUME count' = count \/ count' = count - 1 \/ (count < FTRACE_MAX /\ count' = count + 1),
                 twice' = twice \/ \E f \in Funcs : twice' = twice \cup {f}
          PROVE  BoundInv'
      BY <2>1, <2>2 DEF BoundInv
    <2>3. PICK f \in Funcs :
            \/ \E n \in NArgs : add_ftrace(f, n)
            \/ enable_ftrace(f) \/ remove_ftrace(f) \/ disable_ftrace(f)
            \/ enable_backtrace(f) \/ disable_backtrace(f)
            \/ (count = FTRACE_MAX \/ ~Traced(f)) /\ UNCHANGED lists
      BY <1>2 DEF do_ftrace
    <2>4. CASE \E n \in NArgs : add_ftrace(f, n)
      BY <2>2, <2>4 DEF add_ftrace
    <2>5. CASE enable_ftrace(f)
      BY <2>2, <2>5 DEF enable_ftrace, Patch
    <2>6. CASE remove_ftrace(f)
      BY <2>2, <2>6 DEF remove_ftrace
    <2>7. CASE disable_ftrace(f)
      BY <2>2, <2>7 DEF disable_ftrace
    <2>8. CASE enable_backtrace(f)
      BY <2>2, <2>8 DEF enable_backtrace, Patch
    <2>9. CASE disable_backtrace(f)
      BY <2>2, <2>9 DEF disable_backtrace
    <2> QED
      BY <1>1, <2>3, <2>4, <2>5, <2>6, <2>7, <2>8, <2>9
  <1>3. ~do_ftrace => UNCHANGED lists
    BY DEF Next, Call, Local, Return, Begin, handle_ftrace_fault, fault_without_node,
           backtrace_overflows, Create, Close, sys_read_ftrace, Leaves, vars
  <1> QED
    BY <1>1, <1>2, <1>3

-----------------------------------------------------------------------------
(* The stack                                                               *)

(* A word on top that is no saved rbp disturbs no frame.                   *)
LEMMA PushPlain ==
  ASSUME NEW mem, GoodStack(mem), NEW w \in Words, w.kind # "rbp"
  PROVE  /\ GoodStack(Append(mem, w)) /\ Len(Append(mem, w)) = Len(mem) + 1
         /\ Append(mem, w)[Len(mem) + 1] = w
         /\ \A i \in 1 .. Len(mem) : Append(mem, w)[i] = mem[i]
  <1> DEFINE new == Append(mem, w)
  <1>1. mem \in Seq(Words) /\ Len(mem) \in Nat /\ Len(mem) >= 2
    BY DEF GoodStack
  <1>2. /\ new \in Seq(Words) /\ Len(new) = Len(mem) + 1 /\ new[Len(mem) + 1] = w
        /\ \A i \in 1 .. Len(mem) : new[i] = mem[i]
    BY <1>1
  <1> HIDE DEF new
  <1>3. ASSUME NEW i \in 3 .. Len(new), new[i].kind = "rbp" PROVE Linked(new, i)
    <2>1. i \in 3 .. Len(mem)
      BY <1>1, <1>2, <1>3
    <2>2. Linked(mem, i)
      BY <1>2, <1>3, <2>1 DEF GoodStack
    <2> QED
      BY SMTT(30), <1>1, <1>2, <2>1, <2>2 DEF Linked
  <1>4. GoodStack(new)
    BY <1>1, <1>2, <1>3 DEF GoodStack
  <1> QED
    BY <1>2, <1>4 DEF new

(* Saving rbp behind a return address makes a frame.                       *)
LEMMA PushFrame ==
  ASSUME NEW mem, GoodStack(mem), NEW b \in 2 .. Len(mem), mem[b].kind = "rbp", b < Len(mem),
         mem[Len(mem)].v \in Funcs \cup {Main}, b = 2 => mem[Len(mem)].v = Main
  PROVE  LET new == Append(mem, Word_at("rbp", b))
         IN GoodStack(new) /\ Len(new) = Len(mem) + 1 /\ new[Len(mem) + 1].kind = "rbp"
  <1> DEFINE w == Word_at("rbp", b)
             new == Append(mem, w)
  <1>1. mem \in Seq(Words) /\ Len(mem) \in Nat /\ Len(mem) >= 2
    BY DEF GoodStack
  <1>2. w \in Words /\ w.kind = "rbp" /\ w.v = b
    BY DEF Word_at, Words
  <1> HIDE DEF w
  <1>3. /\ new \in Seq(Words) /\ Len(new) = Len(mem) + 1 /\ new[Len(mem) + 1] = w
        /\ \A i \in 1 .. Len(mem) : new[i] = mem[i]
    BY <1>1, <1>2
  <1> HIDE DEF new
  <1>4. ASSUME NEW i \in 3 .. Len(mem), new[i].kind = "rbp" PROVE Linked(new, i)
    <2>1. i \in 1 .. Len(mem) /\ i - 1 \in 1 .. Len(mem)
      BY <1>1
    <2>2. Linked(mem, i)
      BY <1>3, <1>4, <2>1 DEF GoodStack
    <2>3. mem[i].v \in 1 .. Len(mem)
      BY <1>1, <2>2 DEF Linked
    <2> QED
      BY <1>3, <2>1, <2>2, <2>3 DEF Linked
  <1>5. Linked(new, Len(mem) + 1)
    <2>1. Len(mem) \in 1 .. Len(mem) /\ b \in 1 .. Len(mem) /\ (Len(mem) + 1) - 1 = Len(mem)
          /\ b \in 2 .. ((Len(mem) + 1) - 2)
      BY <1>1
    <2> QED
      BY <1>2, <1>3, <2>1 DEF Linked
  <1>6. \A i \in 3 .. Len(new) : new[i].kind = "rbp" => Linked(new, i)
    <2>1. \A i \in 3 .. Len(new) : i \in 3 .. Len(mem) \/ i = Len(mem) + 1
      BY <1>1, <1>3
    <2> QED
      BY <1>4, <1>5, <2>1
  <1>7. GoodStack(new)
    BY <1>1, <1>3, <1>6 DEF GoodStack
  <1> QED
    BY <1>2, <1>3, <1>7 DEF new, w

(* Undoing the frames down to one leaves that one and those below it.      *)
LEMMA PopFrame ==
  ASSUME NEW mem, GoodStack(mem), NEW n \in 2 .. Len(mem)
  PROVE  /\ GoodStack(SubSeq(mem, 1, n)) /\ Len(SubSeq(mem, 1, n)) = n
         /\ \A i \in 1 .. n : SubSeq(mem, 1, n)[i] = mem[i]
  <1> DEFINE new == SubSeq(mem, 1, n)
  <1>1. mem \in Seq(Words) /\ Len(mem) \in Nat /\ Len(mem) >= 2
    BY DEF GoodStack
  <1>2. new \in Seq(Words) /\ Len(new) = n /\ \A i \in 1 .. n : new[i] = mem[i]
    BY <1>1
  <1> HIDE DEF new
  <1>3. ASSUME NEW i \in 3 .. Len(new), new[i].kind = "rbp" PROVE Linked(new, i)
    <2>1. i \in 3 .. Len(mem) /\ i \in 1 .. n /\ i - 1 \in 1 .. n
      BY <1>1, <1>2
    <2>2. Linked(mem, i)
      BY <1>2, <1>3, <2>1 DEF GoodStack
    <2>3. mem[i].v \in 1 .. n
      BY <2>1, <2>2 DEF Linked
    <2> QED
      BY <1>2, <2>1, <2>2, <2>3 DEF Linked
  <1>4. GoodStack(new)
    <2>1. 1 \in 1 .. n /\ 2 \in 1 .. n /\ n >= 2
      OBVIOUS
    <2> QED
      BY <1>2, <1>3, <2>1 DEF GoodStack
  <1> QED
    BY <1>2, <1>4 DEF new

(* The first bytes of a function, executed or emulated                     *)
LEMMA EntryKeepsFrames ==
  ASSUME FrameInv, rip.place = "entry",
         stack' = Append(stack, Word_at("rbp", rbp)), rbp' = Len(stack) + 1, rip' = Body(rip.fn)
  PROVE  FrameInv'
  <1>1. /\ GoodStack(stack) /\ rbp \in 2 .. Len(stack) /\ stack[rbp].kind = "rbp" /\ rbp < Len(stack)
        /\ stack[Len(stack)].v \in Funcs \cup {Main} /\ (rbp = 2 => stack[Len(stack)].v = Main)
    BY DEF FrameInv
  <1>2. GoodStack(stack') /\ Len(stack') = Len(stack) + 1 /\ stack'[Len(stack) + 1].kind = "rbp"
    BY <1>1, PushFrame
  <1>3. Len(stack) \in Nat /\ Len(stack) >= 2
    BY <1>1 DEF GoodStack
  <1>4. rbp' \in 2 .. Len(stack') /\ rbp' # 2
    BY <1>2, <1>3
  <1>5. rip'.fn = rip.fn /\ rip'.place = "body"
    BY DEF Body
  <1> QED
    BY <1>2, <1>4, <1>5 DEF FrameInv

LEMMA CallKeepsFrames ==
  ASSUME FrameInv, Call
  PROVE  FrameInv'
  <1>1. PICK f \in Funcs, args \in ArgLists : rip' = [fn |-> f, place |-> "entry", args |-> args]
    BY DEF Call
  <1> DEFINE w == Word_at("return", rip.fn)
  <1>2. stack' = Append(stack, w) /\ rbp' = rbp /\ rip.place = "body"
    BY DEF Call, Running
  <1>3. w \in Words /\ w.kind # "rbp" /\ w.v = rip.fn
    BY FtraceAssumption DEF FrameInv, Word_at, Words
  <1> HIDE DEF w
  <1>4. /\ GoodStack(stack') /\ Len(stack') = Len(stack) + 1 /\ stack'[Len(stack) + 1] = w
        /\ \A i \in 1 .. Len(stack) : stack'[i] = stack[i]
    BY <1>2, <1>3, PushPlain DEF FrameInv
  <1>5. Len(stack) \in Nat /\ rbp \in 2 .. Len(stack) /\ rbp \in 1 .. Len(stack)
    BY DEF FrameInv, GoodStack
  <1>6. args \in Seq(Nat)
    BY FtraceAssumption
  <1> QED
    BY <1>1, <1>2, <1>3, <1>4, <1>5, <1>6 DEF FrameInv

LEMMA LocalKeepsFrames ==
  ASSUME FrameInv, Local
  PROVE  FrameInv'
  <1> DEFINE w == Word_at("local", 0)
  <1>1. stack' = Append(stack, w) /\ rbp' = rbp /\ rip' = rip /\ rip.place = "body"
    BY DEF Local, Running
  <1>2. w \in Words /\ w.kind # "rbp"
    BY DEF Word_at, Words
  <1> HIDE DEF w
  <1>3. /\ GoodStack(stack') /\ Len(stack') = Len(stack) + 1
        /\ \A i \in 1 .. Len(stack) : stack'[i] = stack[i]
    BY <1>1, <1>2, PushPlain DEF FrameInv
  <1>4. Len(stack) \in Nat /\ rbp \in 2 .. Len(stack) /\ rbp \in 1 .. Len(stack)
    BY DEF FrameInv, GoodStack
  <1> QED
    BY <1>1, <1>3, <1>4 DEF FrameInv

(* A return goes to the frame below, which is main's only if main called.  *)
LEMMA ReturnKeepsFrames ==
  ASSUME FrameInv, Return
  PROVE  FrameInv'
  <1>1. /\ stack' = SubSeq(stack, 1, rbp - 2) /\ rbp' = stack[rbp].v
        /\ rip' = Body(stack[rbp - 1].v) /\ rip.fn # Main /\ rip.place = "body"
    BY DEF Return, Running
  <1>2. rbp \in 3 .. Len(stack) /\ Len(stack) \in Nat
    <2>1. stack \in Seq(Words) /\ rbp \in 2 .. Len(stack)
      BY DEF FrameInv, GoodStack
    <2>2. rbp # 2
      BY <1>1 DEF FrameInv
    <2>3. Len(stack) \in Nat
      BY <2>1
    <2> QED
      BY <2>1, <2>2, <2>3
  <1>3. Linked(stack, rbp)
    BY <1>2 DEF FrameInv, GoodStack
  <1>4. rbp - 2 \in 2 .. Len(stack)
    BY <1>2, <1>3 DEF Linked
  <1>5. /\ GoodStack(stack') /\ Len(stack') = rbp - 2
        /\ \A i \in 1 .. rbp - 2 : stack'[i] = stack[i]
    BY <1>1, <1>4, PopFrame DEF FrameInv
  <1>6. rbp' \in 2 .. Len(stack') /\ rbp' \in 1 .. rbp - 2 /\ stack[rbp'].kind = "rbp"
    <2> DEFINE b == stack[rbp].v
    <2>1. b \in 2 .. (rbp - 2) /\ stack[b].kind = "rbp" /\ rbp' = b
      BY <1>1, <1>3 DEF Linked
    <2> HIDE DEF b
    <2> QED
      BY <1>2, <1>5, <2>1
  <1>7. rip'.fn = stack[rbp - 1].v /\ rip'.place = "body"
    BY <1>1 DEF Body
  <1> QED
    BY <1>1, <1>3, <1>5, <1>6, <1>7 DEF FrameInv, Linked

LEMMA StepKeepsFrames ==
  ASSUME FrameInv, [Next]_vars
  PROVE  FrameInv'
  <1>1. CASE UNCHANGED machine
    BY <1>1 DEF machine, FrameInv
  <1>2. CASE Call
    BY <1>2, CallKeepsFrames
  <1>3. CASE Local
    BY <1>3, LocalKeepsFrames
  <1>4. CASE Return
    BY <1>4, ReturnKeepsFrames
  <1>5. CASE Begin
    <2>1. rip.place = "entry" /\ stack' = Append(stack, Word_at("rbp", rbp)) /\ rip' = Body(rip.fn)
      BY <1>5 DEF Begin, Prologue
    <2>2. stack \in Seq(Words)
      BY DEF FrameInv, GoodStack
    <2>3. rbp' = Len(stack) + 1
      <3>1. rbp' = Len(stack')
        BY <1>5 DEF Begin, Prologue
      <3> QED
        BY <2>1, <2>2, <3>1
    <2> QED
      BY <2>1, <2>3, EntryKeepsFrames
  <1>6. CASE handle_ftrace_fault
    <2>1. /\ rip.place = "entry" /\ stack' = Append(stack, Word_at("rbp", rbp))
          /\ rbp' = Len(stack) + 1 /\ rip' = Body(rip.fn)
      BY <1>6 DEF handle_ftrace_fault, Faults, Emulate
    <2> QED
      BY <2>1, EntryKeepsFrames
  <1>7. CASE fault_without_node \/ backtrace_overflows \/ do_ftrace \/ Create \/ Close
    BY <1>1, <1>7 DEF fault_without_node, backtrace_overflows, Leaves, do_ftrace, SystemCall, Create, Close
  <1>8. CASE \E n \in Counts : sys_read_ftrace(n)
    BY <1>1, <1>8 DEF sys_read_ftrace
  <1>9. CASE UNCHANGED vars
    BY <1>1, <1>9 DEF vars
  <1> QED
    BY <1>2, <1>3, <1>4, <1>5, <1>6, <1>7, <1>8, <1>9 DEF Next

-----------------------------------------------------------------------------
(* The trace buffer                                                        *)

(* Following the saved rbps from a frame, one finds numbers, and never     *)
(* leaves the stack: where main's is reached, its return address says so.  *)
LEMMA ChainFinds ==
  ASSUME NEW mem, GoodStack(mem), NEW start \in 2 .. Len(mem), mem[start].kind = "rbp"
  PROVE  Chain(mem, start) \in Seq(Nat)
  <1> DEFINE N == Len(mem)
             Saved == {i \in 2 .. N : mem[i].kind = "rbp"}
             D == [at : Saved, found : Seq(Nat), done : BOOLEAN]
             first == [at |-> start, found |-> <<>>, done |-> FALSE]
             step(c) == IF c.done THEN c
                        ELSE IF mem[c.at - 1].v = END_ADDR THEN [c EXCEPT !.done = TRUE]
                        ELSE [at |-> mem[c.at].v, found |-> Append(c.found, mem[c.at - 1].v), done |-> FALSE]
             F == [n \in 1 .. N |-> [c \in D |-> step(c)]]
             Is(g) == g = [n \in 0 .. N |-> IF n = 0 THEN first ELSE step(g[n - 1])]
             w == CHOOSE g : Is(g)
             S == {n \in 0 .. N : w[n] \in D}
  <1>1. Chain(mem, start) = w[N].found
    BY DEF Chain
  <1>2. N \in Nat /\ N >= 2 /\ mem \in Seq(Words)
    BY DEF GoodStack
  <1>3. first \in D
    OBVIOUS
  <1>4. ASSUME NEW c \in D PROVE step(c) \in D
    <2> DEFINE a == c.at
    <2>1. a \in 2 .. N /\ mem[a].kind = "rbp" /\ c.found \in Seq(Nat) /\ c.done \in BOOLEAN
      OBVIOUS
    <2>2. CASE c.done
      BY <2>2
    <2>3. CASE ~c.done /\ mem[a - 1].v = END_ADDR
      <3>1. [c EXCEPT !.done = TRUE] \in D
        OBVIOUS
      <3> QED
        BY <2>3, <3>1
    <2>4. CASE ~c.done /\ mem[a - 1].v # END_ADDR
      <3> DEFINE b == mem[a].v
                 x == mem[a - 1].v
      <3>1. a \in 3 .. N
        BY <1>2, <2>1, <2>4 DEF GoodStack
      <3>2. Linked(mem, a)
        BY <2>1, <3>1 DEF GoodStack
      <3>3. b \in Saved
        BY <1>2, <2>1, <3>1, <3>2 DEF Linked
      <3>4. x \in Nat
        BY <3>2, FtraceAssumption DEF Linked
      <3> HIDE DEF Saved
      <3>5. Append(c.found, x) \in Seq(Nat)
        BY <2>1, <3>4
      <3>6. [at |-> b, found |-> Append(c.found, x), done |-> FALSE] \in D
        BY <3>3, <3>5
      <3> QED
        BY <2>4, <3>6
    <2> QED
      BY <2>2, <2>3, <2>4
  <1> HIDE DEF D, first, step
  <1>5. \A n \in 1 .. N : F[n] \in [D -> D]
    BY <1>4
  <1>6. \A n \in 1 .. N, c \in D : F[n][c] = step(c)
    OBVIOUS
  <1> HIDE DEF F, N
  <1>7. PICK g \in [0 .. N -> D] : Counted(g, N, first, F)
    BY <1>2, <1>3, <1>5, CountedExists
  <1>8. Is(g)
    BY <1>2, <1>6, <1>7 DEF Counted
  <1>9. Is(w)
    <2> HIDE DEF Is
    <2> QED
      BY <1>8
  <1> HIDE DEF w
  <1>10. w[0] = first /\ \A n \in 1 .. N : w[n] = step(w[n - 1])
    BY <1>2, <1>9
  <1>11. 0 \in S
    BY <1>2, <1>3, <1>10
  <1>12. ASSUME NEW n \in 0 .. N, n # N, n \in S PROVE n + 1 \in S
    <2>1. n + 1 \in 1 .. N /\ (n + 1) - 1 = n /\ w[n] \in D /\ n + 1 \in 0 .. N
      BY <1>2, <1>12
    <2>2. w[n + 1] = step(w[n])
      BY <1>10, <2>1
    <2> QED
      BY <1>4, <2>1, <2>2
  <1>13. w[N] \in D
    <2>1. 0 .. N \subseteq S
      <3> HIDE DEF S
      <3> QED
        BY <1>2, <1>11, <1>12, CountUp
    <2>2. N \in 0 .. N
      BY <1>2
    <2> QED
      BY <2>1, <2>2
  <1> QED
    BY <1>1, <1>13 DEF D, N

(* What the handler writes are numbers.                                    *)
LEMMA WordsOfCall ==
  ASSUME ListInv, FrameInv, FrameInv', rip.place = "entry", Traced(rip.fn)
  PROVE  CallWords(NodeOf(rip.fn)) \in Seq(Nat)
  <1> DEFINE node == NodeOf(rip.fn)
             n == Min({node.num_args, MAX_ARGS, Len(rip.args)})
             given == SubSeq(rip.args, 1, n)
             trace == IF node.capture_backtrace THEN <<rip.fn>> \o Backtrace ELSE <<>>
  <1>1. node \in Node
    BY TheNode
  <1>2. rip.fn \in Nat /\ rip.args \in Seq(Nat)
    BY FtraceAssumption DEF FrameInv
  <1>3. given \in Seq(Nat)
    <2> DEFINE S == {node.num_args, MAX_ARGS, Len(rip.args)}
    <2>1. S \in SUBSET Nat /\ S # {} /\ Len(rip.args) \in S
      <3>1. node.num_args \in Nat
        BY <1>1, FtraceAssumption DEF Node
      <3>2. MAX_ARGS \in Nat /\ Len(rip.args) \in Nat
        BY <1>2 DEF MAX_ARGS
      <3> HIDE DEF node
      <3> QED
        BY <3>1, <3>2
    <2> HIDE DEF S
    <2>2. Min(S) \in Nat /\ Min(S) <= Len(rip.args)
      BY <2>1, MinLeast
    <2>3. n = Min(S)
      BY DEF S
    <2> HIDE DEF n
    <2> QED
      BY <1>2, <2>2, <2>3
  <1>4. Backtrace \in Seq(Nat)
    BY ChainFinds DEF Backtrace, FrameInv
  <1>5. trace \in Seq(Nat)
    BY <1>2, <1>4
  <1>6. CallWords(node) = <<rip.fn>> \o given \o trace
    BY DEF CallWords
  <1> HIDE DEF given, trace, node
  <1>7. <<rip.fn>> \in Seq(Nat)
    BY <1>2
  <1>8. CallWords(node) \in Seq(Nat)
    BY <1>3, <1>5, <1>6, <1>7
  <1> QED
    BY <1>8 DEF node

LEMMA FaultKeepsBuffer ==
  ASSUME ListInv, FrameInv, FrameInv', BufferInv, handle_ftrace_fault
  PROVE  BufferInv'
  <1> DEFINE words == CallWords(NodeOf(rip.fn))
             r == WriteRecord(buffer, words)
  <1>1. wild' = wild /\ wild = "no" /\ rip.place = "entry" /\ Traced(rip.fn)
    BY DEF handle_ftrace_fault, Faults
  <1>2. CASE UNCHANGED <<buffer, broken>>
    BY <1>1, <1>2 DEF BufferInv, HangsOnlyOnBroken
  <1>3. CASE /\ buffer # NULL
             /\ buffer' = r
             /\ broken' = (broken \/ ~(Whole(buffer, words) /\ Plain(words)))
    <2>1. words \in Seq(Nat)
      BY <1>1, WordsOfCall
    <2> HIDE DEF words
    <2>2. buffer \in Rings
      BY <1>3 DEF BufferInv
    <2>3. r \in Rings
      BY <2>1, <2>2, RecordKeepsRing
    <2>4. ASSUME ~broken' PROVE Closed(r)
      <3>1. ~broken /\ Whole(buffer, words)
        BY <1>3, <2>4
      <3>2. Orderly(buffer)
        BY <1>3, <3>1 DEF BufferInv, Closed
      <3> QED
        BY <2>1, <3>1, <3>2, RecordCloses
    <2>5. broken' \in BOOLEAN
      BY <1>3
    <2> HIDE DEF r
    <2> QED
      BY <1>1, <1>3, <2>3, <2>4, <2>5 DEF BufferInv, HangsOnlyOnBroken
  <1> QED
    BY <1>2, <1>3 DEF handle_ftrace_fault

LEMMA CreateKeepsBuffer ==
  ASSUME BufferInv, Create
  PROVE  BufferInv'
  <1>1. Fresh \in Rings /\ Fresh.front = -1 /\ Fresh.rear = -1
    BY DEF Fresh, Rings
  <1>2. Closed(Fresh)
    BY <1>1 DEF Closed, Orderly
  <1>3. buffer' = Fresh /\ broken' = FALSE /\ wild' = wild /\ wild = "no"
    BY DEF Create, Running
  <1> QED
    BY <1>1, <1>2, <1>3 DEF BufferInv, HangsOnlyOnBroken

LEMMA ReadKeepsBuffer ==
  ASSUME BufferInv, NEW n \in Counts, sys_read_ftrace(n)
  PROVE  BufferInv'
  <1> DEFINE got == ReadRecords(buffer, n, 0)
  <1>1. n \in Nat /\ 0 \in Nat /\ buffer \in Rings /\ buffer # NULL
    BY FtraceAssumption DEF sys_read_ftrace, BufferInv
  <1>2. broken' = broken /\ wild = "no"
    BY DEF sys_read_ftrace, Running
  <1>3. RingOf(got) \in Rings
    BY <1>1, ReadKeepsRing
  <1>4. ASSUME ~broken, ~Isempty(buffer)
        PROVE  got.state # "hangs" /\ Closed(RingOf(got))
    <2>1. Closed(buffer)
      BY <1>1, <1>4 DEF BufferInv
    <2> QED
      BY <1>1, <1>4, <2>1, ReadKeepsClosed
  <1>5. \/ ~Isempty(buffer) /\ buffer' = RingOf(got) /\ wild' = wild
        \/ buffer' = buffer /\ wild' = wild
        \/ ~Isempty(buffer) /\ got.state = "hangs" /\ wild' = "hang" /\ buffer' = buffer
    BY DEF sys_read_ftrace
  <1> HIDE DEF got
  <1>6. CASE ~Isempty(buffer) /\ buffer' = RingOf(got) /\ wild' = wild
    BY <1>2, <1>3, <1>4, <1>6 DEF BufferInv, HangsOnlyOnBroken
  <1>7. CASE buffer' = buffer /\ wild' = wild
    BY <1>2, <1>7 DEF BufferInv, HangsOnlyOnBroken
  <1>8. CASE ~Isempty(buffer) /\ got.state = "hangs" /\ wild' = "hang" /\ buffer' = buffer
    <2>1. broken
      BY <1>4, <1>8 DEF BufferInv
    <2> QED
      BY <1>2, <1>8, <2>1 DEF BufferInv, HangsOnlyOnBroken
  <1> QED
    BY <1>5, <1>6, <1>7, <1>8

LEMMA StepKeepsBuffer ==
  ASSUME ListInv, FrameInv, FrameInv', BufferInv, [Next]_vars
  PROVE  BufferInv'
  <1>1. CASE UNCHANGED <<buffer, broken, wild>>
    BY <1>1 DEF BufferInv, HangsOnlyOnBroken
  <1>2. CASE Call \/ Local \/ Return \/ Begin \/ do_ftrace
    BY <1>1, <1>2 DEF Call, Local, Return, Begin, do_ftrace, SystemCall
  <1>3. CASE handle_ftrace_fault
    BY <1>3, FaultKeepsBuffer
  <1>4. CASE fault_without_node \/ backtrace_overflows
    <2>1. buffer' = buffer /\ broken' = broken /\ wild' \in {"node", "page"}
      BY <1>4 DEF fault_without_node, backtrace_overflows, Leaves
    <2> QED
      BY <2>1 DEF BufferInv, HangsOnlyOnBroken
  <1>5. CASE Create
    BY <1>5, CreateKeepsBuffer
  <1>6. CASE Close
    BY <1>6 DEF Close, Running, BufferInv, HangsOnlyOnBroken
  <1>7. CASE \E n \in Counts : sys_read_ftrace(n)
    BY <1>7, ReadKeepsBuffer
  <1>8. CASE UNCHANGED vars
    BY <1>1, <1>8 DEF vars
  <1> QED
    BY <1>2, <1>3, <1>4, <1>5, <1>6, <1>7, <1>8 DEF Next

-----------------------------------------------------------------------------
LEMMA InvAlways == Spec => []IInv
  <1>1. IInv /\ [Next]_vars => IInv'
    BY StepKeepsLists, StepKeepsFaults, StepKeepsBounds, StepKeepsFrames, StepKeepsBuffer DEF IInv
  <1> QED
    BY InitInv, <1>1, PTL DEF Spec

LEMMA InvGives == IInv => ListConsistent /\ Recoverable
  <1> SUFFICES ASSUME IInv PROVE ListConsistent /\ Recoverable
    OBVIOUS
  <1>1. ListConsistent
    BY DEF IInv, ListInv, ListConsistent
  <1>2. ASSUME NEW f \in Funcs \ twice, code[f] = "invalid"
        PROVE  Traced(f) /\ NodeOf(f).code_backup = "push"
    <2>1. PICK i \in DOMAIN list : list[i].faddr = f /\ list[i].code_backup = "push"
      BY <1>2 DEF IInv, BackupInv
    <2>2. Traced(f)
      BY <2>1 DEF Traced, Nodes
    <2>3. NodeOf(f) = list[i]
      BY <2>1, <2>2, TheNode DEF IInv
    <2> QED
      BY <2>1, <2>2, <2>3
  <1>3. wild = "node" => rip.fn \in twice
    BY DEF IInv, FaultInv
  <1> QED
    BY <1>1, <1>2, <1>3 DEF Recoverable

(* Over any order of additions and removals, the count and the last        *)
(* pointer of the list agree with the list (add_ftrace, REMOVE_FTRACE).    *)
THEOREM ListStaysConsistent == Spec => []ListConsistent
  BY InvAlways, InvGives, PTL

(* A function not patched while patched can be given its own first bytes   *)
(* back, and a call of it that faults finds its node (do_ftrace,           *)
(* handle_ftrace_fault).                                                   *)
THEOREM FunctionsRecoverable == Spec => []Recoverable
  BY InvAlways, InvGives, PTL

(* Every variable keeps to its type: rbp stays on the stack, every return  *)
(* goes to a function, and the buffer's offsets stay in the ring.          *)
THEOREM TypesHold == Spec => []TypeOK
  <1>1. IInv => TypeOK
    <2> SUFFICES ASSUME IInv PROVE TypeOK
      OBVIOUS
    <2>1. rbp \in 1 .. Len(stack)
      BY DEF IInv, FrameInv
    <2>2. count \in 0 .. FTRACE_MAX
      BY FtraceAssumption DEF IInv, ListInv, BoundInv
    <2>3. \A i \in DOMAIN list : list[i].faddr \in Funcs /\ list[i].code_backup \in {"push", "invalid", NULL}
      <3>1. \A i \in DOMAIN list : list[i] \in Node
        BY DEF IInv, ListInv
      <3> QED
        BY <3>1 DEF Node
    <2>4. last \in Funcs \cup {NULL}
      BY LastOfNonempty DEF IInv, ListInv
    <2> QED
      BY <2>1, <2>2, <2>3, <2>4 DEF IInv, BackupInv, BoundInv, FrameInv, BufferInv, TypeOK
  <1> QED
    BY InvAlways, <1>1, PTL

(* Reading the trace never runs for ever but on a buffer with a record cut *)
(* or not plain (handle_ftrace_fault, sys_read_ftrace).                    *)
THEOREM ReadersEnd == Spec => []HangsOnlyOnBroken
  <1>1. IInv => HangsOnlyOnBroken
    BY DEF IInv, BufferInv
  <1> QED
    BY InvAlways, <1>1, PTL

-----------------------------------------------------------------------------
(* Where the return addresses are on the stack                             *)

(* The first part of a sequence                                            *)
LEMMA SubSeqFacts ==
  ASSUME NEW S, NEW s \in Seq(S), NEW n \in Nat, n <= Len(s)
  PROVE  /\ SubSeq(s, 1, n) \in Seq(S) /\ Len(SubSeq(s, 1, n)) = n
         /\ \A i \in 1 .. n : SubSeq(s, 1, n)[i] = s[i]
  <1>1. \A i \in 1 .. n : i \in 1 .. Len(s) /\ s[i] \in S
    OBVIOUS
  <1>2. 1 \in Int /\ n \in Int /\ (IF 1 <= n THEN n - 1 + 1 ELSE 0) = n
    OBVIOUS
  <1>3. \A i \in 1 .. n : 1 + i - 1 = i
    OBVIOUS
  <1> QED
    BY <1>1, <1>2, <1>3, SubSeqProperties

(* Where the return addresses are, and what they are, all but main's       *)
ReturnPlaces(mem) == {i \in DOMAIN mem : mem[i].kind = "return"}
FramesIn(mem) ==
  [n \in 1 .. Cardinality(ReturnPlaces(mem)) - 1 |-> mem[Nth(ReturnPlaces(mem), n + 1)].v]
FramesAt(mem, e) == [n \in 1 .. Len(e) - 1 |-> mem[e[n + 1]].v]

(* The return addresses are in the places e; on each of the first m lies   *)
(* the saved rbp of a frame, and it leads to the one below.                *)
Framed(mem, e, m) ==
  /\ mem \in Seq(Words)
  /\ InOrder(e, ReturnPlaces(mem))
  /\ Len(e) \in Nat \ {0} /\ m \in 1 .. Len(e) /\ e[1] = 1
  /\ \A k \in 1 .. Len(e) : e[k] \in 1 .. Len(mem)
  /\ \A k \in 2 .. Len(e) : mem[e[k]].v \in Funcs \cup {Main}
  /\ \A k \in 1 .. m : e[k] + 1 \in 2 .. Len(mem)
  /\ \A k \in 1 .. m : mem[e[k] + 1].kind = "rbp"
  /\ \A k \in 2 .. m : mem[e[k] + 1].v = e[k - 1] + 1

(* What the return addresses are, by their places                          *)
LEMMA FramesFound ==
  ASSUME NEW mem, NEW e, NEW m, Framed(mem, e, m)
  PROVE  /\ FramesIn(mem) = FramesAt(mem, e)
         /\ Cardinality(ReturnPlaces(mem)) = Len(e)
  <1>1. /\ Cardinality(ReturnPlaces(mem)) = Len(e)
        /\ \A n \in 1 .. Len(e) : Nth(ReturnPlaces(mem), n) = e[n]
    BY NthInOrder DEF Framed
  <1>2. \A n \in 1 .. Len(e) - 1 : n + 1 \in 1 .. Len(e)
    BY DEF Framed
  <1> QED
    BY <1>1, <1>2 DEF FramesIn, FramesAt

(* Frames are numbers.                                                     *)
LEMMA FramesType ==
  ASSUME NEW mem, NEW e, NEW m, Framed(mem, e, m)
  PROVE  /\ FramesAt(mem, e) \in Seq(Nat) /\ Len(FramesAt(mem, e)) = Len(e) - 1
         /\ \A n \in 1 .. Len(e) - 1 : FramesAt(mem, e)[n] = mem[e[n + 1]].v
  <1>1. Len(e) - 1 \in Nat /\ \A n \in 1 .. Len(e) - 1 : n + 1 \in 2 .. Len(e)
    BY DEF Framed
  <1>2. \A n \in 1 .. Len(e) - 1 : mem[e[n + 1]].v \in Nat
    BY <1>1, FtraceAssumption DEF Framed
  <1> DEFINE N == Len(e) - 1
             s == [n \in 1 .. N |-> mem[e[n + 1]].v]
  <1>3. s \in [1 .. N -> Nat]
    BY <1>2
  <1>4. N \in Nat
    BY <1>1
  <1> HIDE DEF N, s
  <1>5. s \in Seq(Nat) /\ Len(s) = N
    BY <1>3, <1>4
  <1>6. FramesAt(mem, e) = s
    BY DEF FramesAt, s, N
  <1>7. \A n \in 1 .. N : s[n] = mem[e[n + 1]].v
    BY DEF s
  <1> QED
    BY <1>5, <1>6, <1>7 DEF N

(* A word that is no return address moves no frame.                        *)
LEMMA PushBeside ==
  ASSUME NEW mem, NEW e, NEW m, Framed(mem, e, m), NEW w \in Words, w.kind # "return"
  PROVE  LET new == Append(mem, w)
         IN /\ Framed(new, e, m)
            /\ FramesAt(new, e) = FramesAt(mem, e)
            /\ \A k \in 1 .. Len(e) : new[e[k]] = mem[e[k]]
  <1> DEFINE new == Append(mem, w)
             N == Len(mem)
  <1>1. mem \in Seq(Words) /\ N \in Nat
    BY DEF Framed
  <1>2. /\ new \in Seq(Words) /\ Len(new) = N + 1 /\ new[N + 1] = w
        /\ \A i \in 1 .. N : new[i] = mem[i]
    BY <1>1
  <1>3. DOMAIN mem = 1 .. N /\ DOMAIN new = 1 .. N + 1
    BY <1>1, <1>2
  <1> HIDE DEF new, N
  <1>4. ReturnPlaces(new) = ReturnPlaces(mem)
    BY <1>1, <1>2, <1>3 DEF ReturnPlaces
  <1>5. \A k \in 1 .. Len(e) : e[k] \in 1 .. N /\ new[e[k]] = mem[e[k]]
    BY <1>2 DEF Framed, N
  <1>6. \A k \in 1 .. m : e[k] + 1 \in 2 .. N /\ e[k] + 1 \in 1 .. N /\ new[e[k] + 1] = mem[e[k] + 1]
    BY <1>1, <1>2 DEF Framed, N
  <1>7. Len(e) \in Nat \ {0} /\ m \in 1 .. Len(e) /\ e[1] = 1 /\ InOrder(e, ReturnPlaces(new))
    BY <1>4 DEF Framed
  <1>8. \A k \in 1 .. Len(e) : e[k] \in 1 .. Len(new)
    BY <1>1, <1>2, <1>5
  <1>9. \A k \in 2 .. Len(e) : new[e[k]].v \in Funcs \cup {Main}
    <2> TAKE k \in 2 .. Len(e)
    <2>1. k \in 1 .. Len(e)
      BY <1>7
    <2>2. mem[e[k]].v \in Funcs \cup {Main}
      BY DEF Framed
    <2> QED
      BY <1>5, <2>1, <2>2
  <1>10. \A k \in 1 .. m : e[k] + 1 \in 2 .. Len(new)
    BY <1>1, <1>2, <1>6
  <1>11. \A k \in 2 .. m : new[e[k] + 1].v = e[k - 1] + 1
    <2> TAKE k \in 2 .. m
    <2>1. k \in 1 .. m
      BY <1>7
    <2>2. mem[e[k] + 1].v = e[k - 1] + 1
      BY DEF Framed
    <2> QED
      BY <1>6, <2>1, <2>2
  <1>15. \A k \in 1 .. m : new[e[k] + 1].kind = "rbp"
    BY <1>6 DEF Framed
  <1>12. Framed(new, e, m)
    BY <1>2, <1>7, <1>8, <1>9, <1>10, <1>11, <1>15 DEF Framed
  <1>13. \A n \in 1 .. Len(e) - 1 : new[e[n + 1]].v = mem[e[n + 1]].v
    BY <1>5, <1>7
  <1>14. FramesAt(new, e) = FramesAt(mem, e)
    BY <1>13 DEF FramesAt
  <1> QED
    BY <1>5, <1>12, <1>14 DEF new

(* A call adds a frame.                                                    *)
LEMMA PushReturn ==
  ASSUME NEW mem, NEW e, Framed(mem, e, Len(e)), NEW f \in Funcs \cup {Main}
  PROVE  LET new == Append(mem, Word_at("return", f))
             g == Append(e, Len(mem) + 1)
         IN /\ Framed(new, g, Len(g) - 1)
            /\ Len(g) = Len(e) + 1 /\ g[Len(g)] = Len(new) /\ g[Len(e)] = e[Len(e)]
            /\ FramesAt(new, g) = Append(FramesAt(mem, e), f)
  <1> DEFINE w == Word_at("return", f)
             new == Append(mem, w)
             N == Len(mem)
             M == Len(e)
             g == Append(e, N + 1)
  <1>1. w \in Words /\ w.kind = "return" /\ w.v = f
    BY FtraceAssumption DEF Word_at, Words
  <1>2. mem \in Seq(Words) /\ N \in Nat /\ M \in Nat \ {0} /\ e \in Seq(Nat)
    BY DEF Framed, InOrder
  <1> HIDE DEF w
  <1>3. /\ new \in Seq(Words) /\ Len(new) = N + 1 /\ new[N + 1] = w
        /\ \A i \in 1 .. N : new[i] = mem[i]
    BY <1>1, <1>2
  <1>4. /\ g \in Seq(Nat) /\ Len(g) = M + 1 /\ g[M + 1] = N + 1
        /\ \A k \in 1 .. M : g[k] = e[k]
    BY <1>2
  <1>5. DOMAIN mem = 1 .. N /\ DOMAIN new = 1 .. N + 1
    BY <1>2, <1>3
  <1>6. \A k \in 1 .. M : e[k] \in 1 .. N
    BY DEF Framed
  <1>7. \A i, j \in 1 .. M : i < j => e[i] < e[j]
    BY DEF Framed, InOrder
  <1>8. \A x : x \in ReturnPlaces(mem) <=> \E i \in 1 .. M : e[i] = x
    BY DEF Framed, InOrder
  <1> HIDE DEF new, N, g, M
  <1>9. ReturnPlaces(new) = ReturnPlaces(mem) \cup {N + 1}
    BY <1>1, <1>2, <1>3, <1>5 DEF ReturnPlaces
  <1>10. \A k \in 1 .. M + 1 : k \in 1 .. M \/ k = M + 1
    BY <1>2
  <1>11. InOrder(g, ReturnPlaces(new))
    <2>1. \A i, j \in 1 .. M + 1 : i < j => g[i] < g[j]
      <3> TAKE i, j \in 1 .. M + 1
      <3> HAVE i < j
      <3>1. i \in 1 .. M
        BY <1>2, <1>10
      <3>2. CASE j \in 1 .. M
        BY <1>4, <1>7, <3>1, <3>2
      <3>3. CASE j = M + 1
        <4>1. g[i] \in 1 .. N /\ g[j] = N + 1
          BY <1>4, <1>6, <3>1, <3>3
        <4> QED
          BY <1>2, <4>1
      <3> QED
        BY <1>10, <3>2, <3>3
    <2>2. \A x : x \in ReturnPlaces(new) <=> \E i \in 1 .. M + 1 : g[i] = x
      <3>1. ASSUME NEW x, x \in ReturnPlaces(new) PROVE \E i \in 1 .. M + 1 : g[i] = x
        <4>1. CASE x = N + 1
          BY <1>2, <1>4, <4>1
        <4>2. CASE x \in ReturnPlaces(mem)
          <5>1. PICK i \in 1 .. M : e[i] = x
            BY <1>8, <4>2
          <5>2. i \in 1 .. M + 1 /\ g[i] = x
            BY <1>2, <1>4, <5>1
          <5> QED
            BY <5>2
        <4> QED
          BY <1>9, <3>1, <4>1, <4>2
      <3>2. ASSUME NEW i \in 1 .. M + 1 PROVE g[i] \in ReturnPlaces(new)
        BY <1>4, <1>8, <1>9, <1>10, <3>2
      <3> QED
        BY <3>1, <3>2
    <2> QED
      BY <1>4, <2>1, <2>2 DEF InOrder
  <1>12. Len(g) \in Nat \ {0} /\ Len(g) - 1 = M /\ M \in 1 .. Len(g) /\ g[1] = 1
    <2>1. e[1] = 1 /\ 1 \in 1 .. M
      BY <1>2 DEF Framed
    <2> QED
      BY <1>2, <1>4, <2>1
  <1>13. \A k \in 1 .. M + 1 : g[k] \in 1 .. N + 1
    <2> TAKE k \in 1 .. M + 1
    <2>1. CASE k \in 1 .. M
      <3>1. g[k] \in 1 .. N /\ N \in Nat
        BY <1>2, <1>4, <1>6, <2>1
      <3> QED
        BY ONLY <3>1
    <2>2. CASE k = M + 1
      BY <1>2, <1>4, <2>2
    <2> QED
      BY <1>10, <2>1, <2>2
  <1>14. \A k \in 2 .. M + 1 : new[g[k]].v \in Funcs \cup {Main}
    <2> TAKE k \in 2 .. M + 1
    <2>1. CASE k = M + 1
      BY <1>1, <1>3, <1>4, <2>1
    <2>2. CASE k # M + 1
      <3>1. k \in 2 .. M /\ k \in 1 .. M
        BY <1>2, <2>2
      <3>2. new[g[k]] = mem[e[k]]
        BY <1>3, <1>4, <1>6, <3>1
      <3> QED
        BY <3>1, <3>2 DEF Framed, M
    <2> QED
      BY <2>1, <2>2
  <1>15. \A k \in 1 .. M : e[k] + 1 \in 2 .. N /\ e[k] + 1 \in 1 .. N
    BY <1>2 DEF Framed, M, N
  <1>16. \A k \in 1 .. M : g[k] + 1 \in 2 .. N + 1
    <2> TAKE k \in 1 .. M
    <2>1. g[k] = e[k] /\ e[k] + 1 \in 2 .. N
      BY <1>4, <1>15
    <2> QED
      BY <1>2, <2>1
  <1>17. \A k \in 2 .. M : new[g[k] + 1].v = g[k - 1] + 1
    <2> TAKE k \in 2 .. M
    <2>1. k \in 1 .. M /\ k - 1 \in 1 .. M
      BY <1>2
    <2>2. g[k] = e[k] /\ g[k - 1] = e[k - 1] /\ new[e[k] + 1] = mem[e[k] + 1]
      BY <1>3, <1>4, <1>15, <2>1
    <2>3. mem[e[k] + 1].v = e[k - 1] + 1
      BY DEF Framed, M
    <2> QED
      BY <2>2, <2>3
  <1>21. \A k \in 1 .. M : new[g[k] + 1].kind = "rbp"
    <2> TAKE k \in 1 .. M
    <2>1. g[k] = e[k] /\ new[e[k] + 1] = mem[e[k] + 1]
      BY <1>3, <1>4, <1>15
    <2>2. mem[e[k] + 1].kind = "rbp"
      BY DEF Framed, M
    <2> QED
      BY <2>1, <2>2
  <1>18. Framed(new, g, Len(g) - 1)
    BY <1>3, <1>4, <1>11, <1>12, <1>13, <1>14, <1>16, <1>17, <1>21 DEF Framed
  <1>19. FramesAt(new, g) = Append(FramesAt(mem, e), f)
    <2> DEFINE s == FramesAt(mem, e)
               K == M - 1
    <2>1. /\ s \in Seq(Nat) /\ Len(s) = K /\ K \in Nat
          /\ \A n \in 1 .. K : s[n] = mem[e[n + 1]].v
      BY <1>2, FramesType DEF M
    <2>2. f \in Nat
      BY FtraceAssumption
    <2>3. \A n \in 1 .. K : n + 1 \in 1 .. M /\ new[g[n + 1]].v = s[n]
      <3> TAKE n \in 1 .. K
      <3>1. n + 1 \in 1 .. M
        BY <1>2
      <3>2. new[g[n + 1]] = mem[e[n + 1]]
        BY <1>3, <1>4, <1>6, <3>1
      <3> QED
        BY <2>1, <3>1, <3>2
    <2>4. new[g[M + 1]].v = f
      BY <1>1, <1>3, <1>4
    <2>5. Len(g) - 1 = K + 1 /\ K + 1 = M
      BY <1>2, <1>4
    <2>6. FramesAt(new, g) = [n \in 1 .. K + 1 |-> new[g[n + 1]].v]
      BY <2>5 DEF FramesAt
    <2> HIDE DEF s, K
    <2>7. \A n \in 1 .. K + 1 : new[g[n + 1]].v = IF n <= K THEN s[n] ELSE f
      <3> TAKE n \in 1 .. K + 1
      <3>1. CASE n <= K
        BY <2>1, <2>3, <3>1
      <3>2. CASE ~(n <= K)
        <4>1. n = M
          BY <2>1, <2>5, <3>2
        <4> QED
          BY <2>4, <3>2, <4>1
      <3> QED
        BY <3>1, <3>2
    <2>8. FramesAt(new, g) = [n \in 1 .. Len(s) + 1 |-> IF n <= Len(s) THEN s[n] ELSE f]
      BY <2>1, <2>6, <2>7
    <2>9. Append(s, f) = [n \in 1 .. Len(s) + 1 |-> IF n <= Len(s) THEN s[n] ELSE f]
      <3>1. s \in Seq(Nat) /\ f \in Nat
        BY <2>1, <2>2
      <3> QED
        BY ONLY <3>1, AppendIs
    <2> QED
      BY <2>8, <2>9 DEF s
  <1>20. Len(g) = M + 1 /\ g[Len(g)] = Len(new) /\ g[M] = e[M]
    BY <1>2, <1>3, <1>4
  <1> QED
    BY <1>18, <1>19, <1>20 DEF new, g, M, N, w

(* The first bytes of a function put its frame on the return address.      *)
LEMMA PushSaved ==
  ASSUME NEW mem, NEW e, Framed(mem, e, Len(e) - 1), e[Len(e)] = Len(mem), NEW b, b = e[Len(e) - 1] + 1
  PROVE  LET new == Append(mem, Word_at("rbp", b))
         IN Framed(new, e, Len(e)) /\ FramesAt(new, e) = FramesAt(mem, e) /\ e[Len(e)] + 1 = Len(new)
  <1> DEFINE w == Word_at("rbp", b)
             new == Append(mem, w)
             N == Len(mem)
             M == Len(e)
  <1>1. /\ mem \in Seq(Words) /\ N \in Nat /\ M \in Nat \ {0, 1} /\ e \in Seq(Nat) /\ e[M] = N
        /\ M - 1 \in 1 .. M /\ M \in 1 .. M /\ N >= 1
    <2>1. mem \in Seq(Words) /\ N \in Nat
      BY DEF Framed
    <2>2. M \in Nat \ {0} /\ M - 1 \in 1 .. M /\ e \in Seq(Nat)
      BY DEF Framed, InOrder
    <2>3. M \in Nat \ {0, 1} /\ M \in 1 .. M
      <3>1. M \in Nat /\ 1 <= M - 1
        BY <2>2
      <3> HIDE DEF M
      <3> QED
        BY ONLY <3>1
    <2>4. e[M] = N /\ e[M] \in 1 .. N
      BY <2>3 DEF Framed
    <2> HIDE DEF M, N
    <2> QED
      BY <2>1, <2>2, <2>3, <2>4
  <1>2. b \in Nat
    BY <1>1
  <1>3. w \in Words /\ w.kind = "rbp" /\ w.v = b
    BY <1>2 DEF Word_at, Words
  <1> HIDE DEF w
  <1>4. /\ Framed(new, e, M - 1) /\ FramesAt(new, e) = FramesAt(mem, e)
    BY <1>3, PushBeside
  <1>5. new \in Seq(Words) /\ Len(new) = N + 1 /\ new[N + 1] = w
    BY <1>1, <1>3
  <1> HIDE DEF new, N, M
  <1>6. \A k \in 1 .. M : k \in 1 .. M - 1 \/ k = M
    BY <1>1
  <1>7. \A k \in 1 .. M : e[k] + 1 \in 2 .. Len(new) /\ new[e[k] + 1].kind = "rbp"
    <2> TAKE k \in 1 .. M
    <2>1. CASE k \in 1 .. M - 1
      BY <1>4, <2>1 DEF Framed
    <2>2. CASE k = M
      BY <1>1, <1>3, <1>5, <2>2
    <2> QED
      BY <1>6, <2>1, <2>2
  <1>8. \A k \in 2 .. M : new[e[k] + 1].v = e[k - 1] + 1
    <2> TAKE k \in 2 .. M
    <2>1. CASE k \in 2 .. M - 1
      BY <1>4, <2>1 DEF Framed
    <2>2. CASE k = M
      BY <1>1, <1>3, <1>5, <2>2 DEF M
    <2>3. k \in 2 .. M - 1 \/ k = M
      BY <1>1
    <2> QED
      BY <2>1, <2>2, <2>3
  <1>9. Framed(new, e, M)
    BY <1>1, <1>4, <1>7, <1>8 DEF Framed, M
  <1> QED
    BY <1>1, <1>4, <1>5, <1>9 DEF new, w, M

(* A return takes the last frame away, with its return address.            *)
LEMMA PopReturn ==
  ASSUME NEW mem, NEW e, Framed(mem, e, Len(e)), Len(e) # 1
  PROVE  LET new == SubSeq(mem, 1, e[Len(e)] - 1)
             g == SubSeq(e, 1, Len(e) - 1)
         IN /\ Framed(new, g, Len(g)) /\ Len(g) = Len(e) - 1
            /\ g[Len(g)] = e[Len(e) - 1]
            /\ FramesAt(mem, e) # <<>>
            /\ Last(FramesAt(mem, e)) = mem[e[Len(e)]].v
            /\ FramesAt(new, g) = Front(FramesAt(mem, e))
  <1> DEFINE N == e[Len(e)] - 1
             new == SubSeq(mem, 1, N)
             M == Len(e) - 1
             g == SubSeq(e, 1, M)
  <1>1. /\ mem \in Seq(Words) /\ e \in Seq(Nat) /\ M \in Nat \ {0} /\ Len(e) = M + 1
        /\ e[M + 1] = N + 1 /\ N + 1 \in 1 .. Len(mem)
    BY DEF Framed, InOrder
  <1>2. N \in Nat /\ N <= Len(mem)
    BY <1>1
  <1> HIDE DEF N, M
  <1>3. /\ new \in Seq(Words) /\ Len(new) = N
        /\ \A i \in 1 .. N : new[i] = mem[i]
    BY <1>1, <1>2, SubSeqFacts
  <1>4. /\ g \in Seq(Nat) /\ Len(g) = M
        /\ \A k \in 1 .. M : g[k] = e[k]
    BY <1>1, SubSeqFacts
  <1> HIDE DEF new, g
  <1>5. DOMAIN mem = 1 .. Len(mem) /\ DOMAIN new = 1 .. N
    BY <1>1, <1>3
  <1>6. \A i, j \in 1 .. M + 1 : i < j => e[i] < e[j]
    BY <1>1 DEF Framed, InOrder
  <1>7. \A x : x \in ReturnPlaces(mem) <=> \E i \in 1 .. M + 1 : e[i] = x
    BY <1>1 DEF Framed, InOrder
  <1>8. \A k \in 1 .. M : k \in 1 .. M + 1 /\ e[k] < N + 1 /\ e[k] \in 1 .. Len(mem)
    <2> TAKE k \in 1 .. M
    <2>1. k \in 1 .. M + 1 /\ M + 1 \in 1 .. M + 1 /\ k < M + 1
      BY <1>1
    <2> QED
      BY <1>1, <1>6, <2>1 DEF Framed
  <1>9. \A k \in 1 .. M : e[k] + 1 \in 2 .. N /\ e[k] \in 1 .. N
    <2> TAKE k \in 1 .. M
    <2>1. mem[e[k] + 1].kind = "rbp" /\ e[k] + 1 \in 2 .. Len(mem)
      BY <1>1, <1>8 DEF Framed
    <2>2. mem[N + 1].kind = "return"
      <3>1. N + 1 \in ReturnPlaces(mem)
        BY <1>1, <1>7
      <3> QED
        BY <3>1 DEF ReturnPlaces
    <2>3. e[k] + 1 # N + 1
      BY <2>1, <2>2
    <2> QED
      BY <1>2, <1>8, <2>1, <2>3
  <1>10. InOrder(g, ReturnPlaces(new))
    <2>1. \A i, j \in 1 .. M : i < j => g[i] < g[j]
      BY <1>4, <1>6, <1>8
    <2>2. ASSUME NEW x, x \in ReturnPlaces(new) PROVE \E i \in 1 .. M : g[i] = x
      <3>1. x \in 1 .. N /\ x \in ReturnPlaces(mem)
        BY <1>2, <1>3, <1>5, <2>2, <1>1 DEF ReturnPlaces
      <3>2. PICK i \in 1 .. M + 1 : e[i] = x
        BY <1>7, <3>1
      <3>3. i # M + 1
        BY <1>1, <1>2, <3>1, <3>2
      <3>4. i \in 1 .. M
        BY <1>1, <3>2, <3>3
      <3> QED
        BY <1>4, <3>2, <3>4
    <2>3. ASSUME NEW i \in 1 .. M PROVE g[i] \in ReturnPlaces(new)
      <3>1. e[i] \in ReturnPlaces(mem) /\ e[i] \in 1 .. N
        BY <1>7, <1>8, <1>9
      <3> QED
        BY <1>3, <1>4, <1>5, <3>1 DEF ReturnPlaces
    <2> QED
      BY <1>4, <2>1, <2>2, <2>3 DEF InOrder
  <1>11. Len(g) \in Nat \ {0} /\ Len(g) \in 1 .. Len(g) /\ g[1] = 1
    <2>1. e[1] = 1 /\ 1 \in 1 .. M
      BY <1>1 DEF Framed
    <2> QED
      BY <1>1, <1>4, <2>1
  <1>12. \A k \in 1 .. M : g[k] \in 1 .. N /\ g[k] + 1 \in 2 .. N /\ g[k] + 1 \in 1 .. N
    BY <1>2, <1>4, <1>9
  <1>13. \A k \in 2 .. M : new[g[k]].v \in Funcs \cup {Main} /\ new[g[k] + 1].v = g[k - 1] + 1
    <2> TAKE k \in 2 .. M
    <2>1. k \in 1 .. M /\ k - 1 \in 1 .. M /\ k \in 2 .. M + 1
      BY <1>1
    <2>2. mem[e[k]].v \in Funcs \cup {Main} /\ mem[e[k] + 1].v = e[k - 1] + 1
      BY <1>1, <2>1 DEF Framed
    <2> QED
      BY <1>3, <1>4, <1>12, <2>1, <2>2
  <1>14. \A k \in 1 .. M : new[g[k] + 1].kind = "rbp"
    <2> TAKE k \in 1 .. M
    <2>1. mem[e[k] + 1].kind = "rbp"
      BY <1>1, <1>8 DEF Framed
    <2> QED
      BY <1>3, <1>4, <1>12, <2>1
  <1>15. Framed(new, g, Len(g))
    BY <1>3, <1>4, <1>10, <1>11, <1>12, <1>13, <1>14 DEF Framed
  <1> DEFINE s == FramesAt(mem, e)
  <1>16. s \in Seq(Nat) /\ Len(s) = M /\ \A n \in 1 .. M : s[n] = mem[e[n + 1]].v
    <2>1. /\ s \in Seq(Nat) /\ Len(s) = Len(e) - 1
          /\ \A n \in 1 .. Len(e) - 1 : s[n] = mem[e[n + 1]].v
      BY FramesType
    <2>2. Len(e) - 1 = M
      BY <1>1
    <2> HIDE DEF s
    <2> QED
      BY ONLY <2>1, <2>2
  <1>17. /\ FramesAt(new, g) \in Seq(Nat) /\ Len(FramesAt(new, g)) = M - 1
         /\ \A n \in 1 .. M - 1 : FramesAt(new, g)[n] = new[g[n + 1]].v
    <2> DEFINE u == FramesAt(new, g)
    <2>1. /\ u \in Seq(Nat) /\ Len(u) = Len(g) - 1
          /\ \A n \in 1 .. Len(g) - 1 : u[n] = new[g[n + 1]].v
      BY <1>15, FramesType
    <2> HIDE DEF u
    <2>2. /\ u \in Seq(Nat) /\ Len(u) = M - 1
          /\ \A n \in 1 .. M - 1 : u[n] = new[g[n + 1]].v
      BY ONLY <1>4, <2>1
    <2> QED
      BY <2>2 DEF u
  <1>18. \A n \in 1 .. M - 1 : n \in 1 .. M /\ new[g[n + 1]].v = s[n]
    <2> TAKE n \in 1 .. M - 1
    <2>1. n \in 1 .. M /\ n + 1 \in 1 .. M
      BY <1>1
    <2> QED
      BY <1>3, <1>4, <1>9, <1>16, <2>1
  <1> HIDE DEF s
  <1>19. Last(s) = mem[e[M + 1]].v /\ s # <<>>
    BY <1>1, <1>16 DEF Last
  <1>20. Front(s) \in Seq(Nat) /\ Len(Front(s)) = M - 1 /\ \A n \in 1 .. M - 1 : Front(s)[n] = s[n]
    <2>1. Front(s) = SubSeq(s, 1, M - 1)
      BY <1>16 DEF Front
    <2>2. M - 1 \in Nat /\ M - 1 <= Len(s)
      BY <1>1, <1>16
    <2> QED
      BY <1>16, <2>1, <2>2, SubSeqFacts
  <1>21. FramesAt(new, g) = Front(s)
    <2> DEFINE a == FramesAt(new, g)
               c == Front(s)
    <2>1. a \in Seq(Nat) /\ c \in Seq(Nat) /\ Len(a) = Len(c) /\ \A n \in 1 .. Len(a) : a[n] = c[n]
      BY <1>17, <1>18, <1>20
    <2> HIDE DEF a, c
    <2>2. a = c
      BY <2>1
    <2> QED
      BY <2>2 DEF a, c
  <1>22. g[Len(g)] = e[M] /\ M = Len(e) - 1 /\ M + 1 = Len(e)
    BY <1>1, <1>4
  <1> QED
    BY <1>4, <1>15, <1>19, <1>21, <1>22 DEF s, new, g, N, M

(* There are no more return addresses than words.                          *)
LEMMA FramesFit ==
  ASSUME NEW mem, NEW e, NEW m, Framed(mem, e, m)
  PROVE  Len(e) <= Len(mem)
  <1> DEFINE M == Len(e)
             S == {k \in 0 .. M : k = 0 \/ e[k] >= k}
  <1>1. /\ M \in Nat \ {0} /\ Len(mem) \in Nat /\ \A k \in 1 .. M : e[k] \in 1 .. Len(mem)
        /\ \A i, j \in 1 .. M : i < j => e[i] < e[j]
    BY DEF Framed, InOrder
  <1>2. 0 \in S
    BY <1>1
  <1>3. ASSUME NEW n \in 0 .. M, n # M, n \in S PROVE n + 1 \in S
    <2>1. n + 1 \in 1 .. M /\ n + 1 \in 0 .. M
      BY <1>1, <1>3
    <2>2. CASE n = 0
      BY <1>1, <2>1, <2>2
    <2>3. CASE n # 0
      <3>1. n \in 1 .. M /\ e[n] >= n /\ n < n + 1
        BY <1>1, <1>3, <2>3
      <3>2. e[n] < e[n + 1] /\ e[n] \in Nat /\ e[n + 1] \in Nat
        BY <1>1, <2>1, <3>1
      <3> QED
        BY <2>1, <3>1, <3>2
    <2> QED
      BY <2>2, <2>3
  <1>4. 0 .. M \subseteq S
    <2> HIDE DEF S
    <2> QED
      BY <1>1, <1>2, <1>3, CountUp
  <1>5. M \in S /\ M \in 1 .. M
    BY <1>1, <1>4
  <1> QED
    BY <1>1, <1>5

(* The search for main's frame stops where it is.                          *)
LEMMA Stopped ==
  ASSUME NEW a, NEW p, NEW c, c = [at |-> a, found |-> p, done |-> FALSE]
  PROVE  [c EXCEPT !.done = TRUE] = [at |-> a, found |-> p, done |-> TRUE]
  <1> DEFINE R == [at : {a}, found : {p}, done : BOOLEAN]
             x == [c EXCEPT !.done = TRUE]
  <1>1. c \in R
    OBVIOUS
  <1>2. x \in R /\ x.done = TRUE /\ x.at = a /\ x.found = p
    BY <1>1
  <1> HIDE DEF x
  <1>3. x = [at |-> a, found |-> p, done |-> TRUE]
    BY <1>2
  <1> QED
    BY <1>3 DEF x

(* Following the saved rbps up from the last frame, one finds the          *)
(* addresses to return to, the innermost first, and stops at main's.       *)
LEMMA ChainReversed ==
  ASSUME NEW mem, NEW e, Framed(mem, e, Len(e)), mem[1].v = END_ADDR
  PROVE  Chain(mem, e[Len(e)] + 1) = Reverse(FramesAt(mem, e))
  <1> DEFINE N == Len(mem)
             M == Len(e)
             part(n) == [k \in 1 .. n |-> mem[e[M - k + 1]].v]
             found(n) == [at |-> e[M - n] + 1, found |-> part(n), done |-> FALSE]
             end == [at |-> 2, found |-> part(M - 1), done |-> TRUE]
             stat(n) == IF n < M THEN found(n) ELSE end
             start == e[M] + 1
             first == [at |-> start, found |-> <<>>, done |-> FALSE]
             step(c) == IF c.done THEN c
                        ELSE IF mem[c.at - 1].v = END_ADDR THEN [c EXCEPT !.done = TRUE]
                        ELSE [at |-> mem[c.at].v, found |-> Append(c.found, mem[c.at - 1].v), done |-> FALSE]
             Is(g) == g = [n \in 0 .. N |-> IF n = 0 THEN first ELSE step(g[n - 1])]
             w == CHOOSE g : Is(g)
             g0 == [n \in 0 .. N |-> stat(n)]
  <1>1. Chain(mem, start) = w[N].found
    BY DEF Chain
  <1>2. /\ N \in Nat /\ M \in Nat \ {0} /\ M <= N /\ e[1] = 1
        /\ \A k \in 1 .. M : e[k] \in Nat
        /\ \A k \in 2 .. M : mem[e[k]].v \in Nat /\ mem[e[k]].v # END_ADDR /\ mem[e[k] + 1].v = e[k - 1] + 1
    <2>1. /\ M \in Nat \ {0} /\ M <= N /\ e[1] = 1
          /\ \A k \in 1 .. M : e[k] \in 1 .. Len(mem)
          /\ \A k \in 2 .. M : mem[e[k]].v \in Funcs \cup {Main}
          /\ \A k \in 2 .. M : mem[e[k] + 1].v = e[k - 1] + 1
      BY FramesFit DEF Framed
    <2>2. N \in Nat
      BY DEF Framed
    <2>3. \A f \in Funcs \cup {Main} : f \in Nat /\ f # END_ADDR
      BY FtraceAssumption
    <2>4. \A k \in 1 .. M : e[k] \in Nat
      BY <2>1, <2>2
    <2>5. \A k \in 2 .. M : mem[e[k]].v \in Nat /\ mem[e[k]].v # END_ADDR
      BY <2>1, <2>3
    <2> QED
      BY <2>1, <2>2, <2>4, <2>5
  <1>3. ASSUME NEW n \in 0 .. M - 1 PROVE part(n) \in Seq(Nat) /\ Len(part(n)) = n
    <2>1. \A k \in 1 .. n : M - k + 1 \in 2 .. M
      BY <1>2
    <2>2. \A k \in 1 .. n : mem[e[M - k + 1]].v \in Nat
      BY <1>2, <2>1
    <2>3. n \in Nat
      BY <1>2
    <2> HIDE DEF M
    <2> QED
      BY <2>2, <2>3
  <1>4. stat(0) = first
    <2>1. part(0) = <<>>
      OBVIOUS
    <2>2. M - 0 = M /\ 0 < M
      BY <1>2
    <2> HIDE DEF part, M
    <2> QED
      BY <2>1, <2>2
  <1>5. ASSUME NEW n \in 1 .. N PROVE stat(n) = step(stat(n - 1))
    <2>1. CASE n - 1 >= M
      <3>1. ~(n - 1 < M) /\ ~(n < M)
        BY <1>2, <2>1
      <3>2. stat(n - 1) = end /\ stat(n) = end
        BY <3>1
      <3>3. end.done
        OBVIOUS
      <3> HIDE DEF end, stat
      <3> QED
        BY <3>2, <3>3
    <2>2. CASE n = M
      <3>1. n - 1 < M /\ ~(n < M) /\ M - (n - 1) = 1 /\ n - 1 = M - 1
        BY <1>2, <2>2
      <3>2. stat(n - 1) = found(n - 1) /\ stat(n) = end
        BY <3>1
      <3> DEFINE p == part(M - 1)
      <3>3. found(n - 1) = [at |-> 2, found |-> p, done |-> FALSE]
        <4>1. e[M - (n - 1)] + 1 = 2
          BY <1>2, <3>1
        <4>2. part(n - 1) = part(M - 1)
          BY <3>1
        <4> HIDE DEF part, M
        <4> QED
          BY <4>1, <4>2
      <3>4. end = [at |-> 2, found |-> p, done |-> TRUE]
        OBVIOUS
      <3> HIDE DEF p, found, end, stat
      <3>5. step(found(n - 1)) = end
        <4> DEFINE c == found(n - 1)
        <4>1. c.at = 2 /\ c.found = p /\ c.done = FALSE /\ mem[1].v = END_ADDR
              /\ c = [at |-> 2, found |-> p, done |-> FALSE]
          BY <3>3
        <4>2. 2 - 1 = 1
          OBVIOUS
        <4> HIDE DEF c
        <4>3. step(c) = [c EXCEPT !.done = TRUE]
          BY <4>1, <4>2
        <4>4. c = [at |-> 2, found |-> p, done |-> FALSE]
          BY <4>1
        <4>5. [c EXCEPT !.done = TRUE] = [at |-> 2, found |-> p, done |-> TRUE]
          BY ONLY <4>4, Stopped
        <4>6. step(c) = end
          BY ONLY <3>4, <4>3, <4>5, Zenon
        <4> QED
          BY <4>6 DEF c
      <3> QED
        BY <3>2, <3>5
    <2>3. CASE n < M
      <3>1. n - 1 < M /\ M - (n - 1) \in 2 .. M /\ M - n = M - (n - 1) - 1 /\ n \in 0 .. M - 1 /\ n - 1 \in 0 .. M - 1
            /\ M - n + 1 = M - (n - 1) /\ n - 1 \in Nat /\ M - n \in 1 .. M
        BY <1>2, <2>3
      <3>2. stat(n - 1) = found(n - 1) /\ stat(n) = found(n)
        BY <2>3, <3>1
      <3> DEFINE k == M - (n - 1)
                 a == e[k]
                 x == mem[a].v
                 p == part(n - 1)
                 q == part(n)
      <3>3. a \in Nat /\ x \in Nat /\ x # END_ADDR /\ mem[a + 1].v = e[M - n] + 1
        <4>1. k \in 2 .. M /\ k \in 1 .. M /\ k - 1 = M - n
          BY <1>2, <3>1
        <4> HIDE DEF k
        <4> QED
          BY <1>2, <4>1
      <3>4. found(n - 1) = [at |-> a + 1, found |-> p, done |-> FALSE]
        OBVIOUS
      <3>5. found(n) = [at |-> e[M - n] + 1, found |-> q, done |-> FALSE]
        OBVIOUS
      <3>6. q = Append(p, x)
        <4>1. p \in Seq(Nat) /\ Len(p) = n - 1 /\ q \in Seq(Nat) /\ Len(q) = n
          BY <1>3, <3>1
        <4>2. \A i \in 1 .. n - 1 : p[i] = mem[e[M - i + 1]].v
          OBVIOUS
        <4>3. \A i \in 1 .. n : q[i] = mem[e[M - i + 1]].v
          OBVIOUS
        <4>4. q[n] = x
          BY <3>1, <4>3
        <4> HIDE DEF p, q, x
        <4>5. Append(p, x) \in Seq(Nat) /\ Len(Append(p, x)) = n /\ Append(p, x)[n] = x
              /\ \A i \in 1 .. n - 1 : Append(p, x)[i] = p[i]
          <5>1. x \in Nat /\ (n - 1) + 1 = n
            BY <3>1, <3>3
          <5>2. Append(p, x) \in Seq(Nat) /\ Len(Append(p, x)) = Len(p) + 1 /\ Append(p, x)[Len(p) + 1] = x
                /\ \A i \in 1 .. Len(p) : Append(p, x)[i] = p[i]
            BY ONLY <4>1, <5>1
          <5> QED
            BY ONLY <4>1, <5>1, <5>2
        <4> DEFINE r == Append(p, x)
        <4>6. \A i \in 1 .. n : q[i] = r[i]
          <5> TAKE i \in 1 .. n
          <5>1. CASE i = n
            BY <4>4, <4>5, <5>1
          <5>2. CASE i # n
            <6>1. i \in 1 .. n - 1
              BY <5>2
            <6> QED
              BY <4>2, <4>3, <4>5, <6>1
          <5> QED
            BY <5>1, <5>2
        <4>7. r \in Seq(Nat) /\ Len(r) = n
          BY <4>5
        <4> HIDE DEF r
        <4>8. q = r
          BY <4>1, <4>6, <4>7
        <4> QED
          BY <4>8 DEF r
      <3>7. (a + 1) - 1 = a
        BY <3>3
      <3> DEFINE b == e[M - n] + 1
      <3>8. mem[a].v = x /\ mem[a + 1].v = b
        BY <3>3
      <3> HIDE DEF p, q, found, stat, a, x, b
      <3> DEFINE c == found(n - 1)
      <3>9. c.at = a + 1 /\ c.found = p /\ c.done = FALSE
        BY <3>4
      <3> HIDE DEF c
      <3>10. step(c) = [at |-> b, found |-> q, done |-> FALSE]
        BY <3>3, <3>6, <3>7, <3>8, <3>9
      <3>11. found(n) = [at |-> b, found |-> q, done |-> FALSE]
        BY <3>5 DEF b
      <3> QED
        BY <3>2, <3>10, <3>11 DEF c
    <2> QED
      BY <1>2, <2>1, <2>2, <2>3
  <1> HIDE DEF first, step, stat, N
  <1>6. Is(g0)
    <2> DEFINE next(n) == IF n = 0 THEN first ELSE step(g0[n - 1])
    <2>1. \A n \in 0 .. N : stat(n) = next(n)
      <3> TAKE n \in 0 .. N
      <3>1. CASE n = 0
        BY <1>4, <3>1
      <3>2. CASE n # 0
        <4>1. n \in 1 .. N /\ n - 1 \in 0 .. N
          BY <1>2, <3>2
        <4>2. g0[n - 1] = stat(n - 1)
          BY <4>1
        <4> QED
          BY <1>5, <3>2, <4>1, <4>2
      <3> QED
        BY <3>1, <3>2
    <2>2. g0 = [n \in 0 .. N |-> stat(n)]
      OBVIOUS
    <2> HIDE DEF next, g0
    <2>3. g0 = [n \in 0 .. N |-> next(n)]
      BY <2>1, <2>2
    <2> QED
      BY <2>3 DEF next
  <1>7. Is(w)
    <2> HIDE DEF Is, g0
    <2> QED
      BY <1>6
  <1> HIDE DEF w
  <1>8. w[0] = first /\ \A n \in 1 .. N : w[n] = step(w[n - 1])
    BY <1>2, <1>7
  <1> DEFINE T == {n \in 0 .. N : w[n] = stat(n)}
  <1>9. 0 \in T
    BY <1>2, <1>4, <1>8
  <1>10. ASSUME NEW n \in 0 .. N, n # N, n \in T PROVE n + 1 \in T
    <2>1. n + 1 \in 1 .. N /\ (n + 1) - 1 = n /\ n + 1 \in 0 .. N /\ w[n] = stat(n)
      BY <1>2, <1>10
    <2> QED
      BY <1>5, <1>8, <2>1
  <1>11. w[N] = stat(N)
    <2>1. 0 .. N \subseteq T
      <3> HIDE DEF T
      <3> QED
        BY <1>2, <1>9, <1>10, CountUp
    <2>2. N \in 0 .. N
      BY <1>2
    <2> QED
      BY <2>1, <2>2
  <1>12. stat(N) = end
    <2>1. ~(N < M)
      BY <1>2
    <2> QED
      BY <2>1 DEF stat
  <1>13. Chain(mem, start) = part(M - 1)
    <2>1. end.found = part(M - 1)
      OBVIOUS
    <2> HIDE DEF end, part
    <2> QED
      BY <1>1, <1>11, <1>12, <2>1
  <1> DEFINE s == FramesAt(mem, e)
  <1>14. /\ s \in Seq(Nat) /\ Len(s) = M - 1
         /\ \A n \in 1 .. M - 1 : s[n] = mem[e[n + 1]].v
    BY FramesType
  <1> HIDE DEF s
  <1>15. Reverse(s) = [i \in 1 .. M - 1 |-> s[(M - 1 - i) + 1]]
    BY <1>14 DEF Reverse
  <1>16. \A i \in 1 .. M - 1 : s[(M - 1 - i) + 1] = mem[e[M - i + 1]].v
    <2> TAKE i \in 1 .. M - 1
    <2>1. (M - 1 - i) + 1 \in 1 .. M - 1 /\ ((M - 1 - i) + 1) + 1 = M - i + 1
      BY <1>2
    <2> QED
      BY <1>14, <2>1
  <1>17. Reverse(s) = part(M - 1)
    BY <1>15, <1>16
  <1> QED
    BY <1>13, <1>17 DEF s, start

(* What the promise sees of the stack and of the buffer                    *)
CallFrames == [n \in 1 .. Depth - 1 |-> stack[Nth(Returns, n + 1)].v]
Kept == IF broken \/ buffer = NULL THEN <<>> ELSE Split(Contents(buffer))

(* In a function its frame is the last; before its first bytes only its    *)
(* return address is there, on top.                                        *)
InBody(mem, b, e) == Framed(mem, e, Len(e)) /\ b = e[Len(e)] + 1
AtEntry(mem, b, e) ==
  Framed(mem, e, Len(e) - 1) /\ b = e[Len(e) - 1] + 1 /\ e[Len(e)] = Len(mem)

PlacesInv == \E e : IF rip.place = "entry" THEN AtEntry(stack, rbp, e) ELSE InBody(stack, rbp, e)

(* A buffer that is not broken holds whole records.                        *)
KeptInv == ~broken /\ buffer # NULL => Splittable(Contents(buffer))

(* The mapping's parts, now and after a step                               *)
LEMMA FramesNow ==
  /\ CallFrames = FramesIn(stack)
  /\ CallFrames' = FramesIn(stack')
  <1>1. CallFrames = FramesIn(stack)
    BY DEF CallFrames, FramesIn, ReturnPlaces, Depth, Returns
  <1>2. CallFrames' = FramesIn(stack')
    BY DEF CallFrames, FramesIn, ReturnPlaces, Depth, Returns, Nth
  <1> QED
    BY <1>1, <1>2

(* The records after a step are those of the new buffer.                   *)
LEMMA KeptNow ==
  Kept' = (IF broken' \/ buffer' = NULL THEN <<>> ELSE Split(Contents(buffer')))
  BY DEF Kept, Contents, Split, Nth, Ends

(* The records are the same while the buffer is.                           *)
LEMMA KeptSame ==
  ASSUME UNCHANGED <<buffer, broken>>
  PROVE  Kept' = Kept /\ (KeptInv => KeptInv')
  <1>1. Kept' = Kept
    BY KeptNow DEF Kept
  <1>2. KeptInv => KeptInv'
    BY DEF KeptInv
  <1> QED
    BY <1>1, <1>2

-----------------------------------------------------------------------------
(* A call's return address is the promise's new frame.                     *)
LEMMA CallTraced ==
  ASSUME PlacesInv, KeptInv, FrameInv, Call
  PROVE  PlacesInv' /\ KeptInv' /\ Promise!Call
  <1>1. PICK f \in Funcs, args \in ArgLists : rip' = [fn |-> f, place |-> "entry", args |-> args]
    BY DEF Call
  <1>2. /\ stack' = Append(stack, Word_at("return", rip.fn)) /\ rbp' = rbp /\ rip.place = "body"
        /\ out' = <<>> /\ UNCHANGED <<buffer, broken>> /\ rip.fn \in Funcs \cup {Main}
    BY DEF Call, Running, FrameInv
  <1>3. PICK e : InBody(stack, rbp, e)
    BY <1>2 DEF PlacesInv
  <1> DEFINE g == Append(e, Len(stack) + 1)
             fn == rip.fn
  <1>4. Framed(stack, e, Len(e)) /\ rbp = e[Len(e)] + 1 /\ Len(e) \in Nat
    BY <1>3 DEF InBody, Framed
  <1>5. /\ Framed(stack', g, Len(g) - 1)
        /\ Len(g) = Len(e) + 1 /\ g[Len(g)] = Len(stack') /\ g[Len(e)] = e[Len(e)]
        /\ FramesAt(stack', g) = Append(FramesAt(stack, e), fn)
    <2>1. \A v \in Funcs \cup {Main} :
            LET new == Append(stack, Word_at("return", v))
                h == Append(e, Len(stack) + 1)
            IN /\ Framed(new, h, Len(h) - 1)
               /\ Len(h) = Len(e) + 1 /\ h[Len(h)] = Len(new) /\ h[Len(e)] = e[Len(e)]
               /\ FramesAt(new, h) = Append(FramesAt(stack, e), v)
      BY <1>4, PushReturn
    <2>2. stack' = Append(stack, Word_at("return", fn)) /\ fn \in Funcs \cup {Main}
      BY <1>2
    <2> HIDE DEF fn
    <2> QED
      BY <2>1, <2>2
  <1> HIDE DEF g, fn
  <1>6. AtEntry(stack', rbp', g)
    <2>1. Len(g) - 1 = Len(e)
      BY <1>4, <1>5
    <2> QED
      BY <1>2, <1>4, <1>5, <2>1 DEF AtEntry
  <1>7. PlacesInv'
    BY <1>1, <1>6 DEF PlacesInv, AtEntry
  <1>8. CallFrames' = Append(CallFrames, fn)
    BY <1>4, <1>5, FramesFound, FramesNow
  <1>9. Kept' = Kept /\ KeptInv'
    BY <1>2, KeptSame
  <1>10. Promise!Call
    BY <1>1, <1>2, <1>8, <1>9 DEF Promise!Call, CallFrames, Kept, fn
  <1> QED
    BY <1>7, <1>9, <1>10

(* A local variable is no frame.                                           *)
LEMMA LocalTraced ==
  ASSUME PlacesInv, KeptInv, FrameInv, Local
  PROVE  PlacesInv' /\ KeptInv' /\ Promise!Other
  <1> DEFINE w == Word_at("local", 0)
  <1>1. /\ stack' = Append(stack, w) /\ rbp' = rbp /\ rip' = rip /\ rip.place = "body"
        /\ out' = <<>> /\ UNCHANGED <<buffer, broken>>
    BY DEF Local, Running
  <1>2. w \in Words /\ w.kind # "return"
    BY DEF Word_at, Words
  <1> HIDE DEF w
  <1>3. PICK e : InBody(stack, rbp, e)
    BY <1>1 DEF PlacesInv
  <1>4. Framed(stack, e, Len(e)) /\ rbp = e[Len(e)] + 1
    BY <1>3 DEF InBody
  <1>5. Framed(stack', e, Len(e)) /\ FramesAt(stack', e) = FramesAt(stack, e)
    BY <1>1, <1>2, <1>4, PushBeside
  <1>6. InBody(stack', rbp', e)
    BY <1>1, <1>4, <1>5 DEF InBody
  <1>7. PlacesInv'
    BY <1>1, <1>6 DEF PlacesInv, InBody
  <1>8. CallFrames' = CallFrames
    BY <1>4, <1>5, FramesFound, FramesNow
  <1>9. Kept' = Kept /\ KeptInv'
    BY <1>1, KeptSame
  <1>10. Promise!Other
    BY <1>1, <1>8, <1>9 DEF Promise!Other, CallFrames, Kept
  <1> QED
    BY <1>7, <1>9, <1>10

(* A return goes where the promise's last frame says.                      *)
LEMMA ReturnTraced ==
  ASSUME PlacesInv, KeptInv, FrameInv, Return
  PROVE  PlacesInv' /\ KeptInv' /\ Promise!Return
  <1>1. /\ stack' = SubSeq(stack, 1, rbp - 2) /\ rbp' = stack[rbp].v /\ rip' = Body(stack[rbp - 1].v)
        /\ rip.place = "body" /\ rip.fn # Main
        /\ out' = <<>> /\ UNCHANGED <<buffer, broken>>
    BY DEF Return, Running
  <1>2. PICK e : InBody(stack, rbp, e)
    BY <1>1 DEF PlacesInv
  <1> DEFINE M == Len(e)
             last2 == e[M]
             g == SubSeq(e, 1, Len(e) - 1)
  <1>3. Framed(stack, e, Len(e)) /\ rbp = last2 + 1 /\ M \in Nat \ {0} /\ last2 \in Nat /\ e[1] = 1
    <2>1. Framed(stack, e, Len(e)) /\ rbp = last2 + 1
      BY <1>2 DEF InBody
    <2>2. M \in Nat \ {0} /\ M \in 1 .. M /\ e[1] = 1
      BY <2>1 DEF Framed
    <2>3. last2 \in 1 .. Len(stack) /\ Len(stack) \in Nat
      BY <2>1, <2>2 DEF Framed
    <2> QED
      BY <2>1, <2>2, <2>3
  <1>4. Len(e) # 1
    <2> SUFFICES ASSUME Len(e) = 1 PROVE FALSE
      OBVIOUS
    <2>1. rbp = 2
      BY <1>3
    <2> QED
      BY <1>1, <2>1 DEF FrameInv
  <1>5. rbp - 2 = last2 - 1 /\ rbp - 1 = last2 /\ M \in 2 .. M
    BY <1>3, <1>4
  <1>6. LET new == SubSeq(stack, 1, e[Len(e)] - 1)
        IN /\ Framed(new, g, Len(g)) /\ Len(g) = Len(e) - 1
           /\ g[Len(g)] = e[Len(e) - 1]
           /\ FramesAt(stack, e) # <<>>
           /\ Last(FramesAt(stack, e)) = stack[e[Len(e)]].v
           /\ FramesAt(new, g) = Front(FramesAt(stack, e))
    BY ONLY <1>3, <1>4, PopReturn
  <1>7. /\ Framed(stack', g, Len(g)) /\ g[Len(g)] = e[M - 1]
        /\ FramesAt(stack, e) # <<>>
        /\ Last(FramesAt(stack, e)) = stack[last2].v
        /\ FramesAt(stack', g) = Front(FramesAt(stack, e))
    BY <1>1, <1>5, <1>6
  <1>8. rbp' = e[M - 1] + 1
    BY <1>1, <1>3, <1>5 DEF Framed
  <1> HIDE DEF g, M, last2
  <1>9. InBody(stack', rbp', g)
    BY <1>7, <1>8 DEF InBody
  <1>10. rip'.place # "entry"
    BY <1>1 DEF Body
  <1>11. PlacesInv'
    BY <1>9, <1>10 DEF PlacesInv, InBody
  <1>12. FramesIn(stack) = FramesAt(stack, e) /\ FramesIn(stack') = FramesAt(stack', g)
    BY <1>3, <1>7, FramesFound
  <1>13. CallFrames # <<>> /\ CallFrames' = Front(CallFrames) /\ rip' = Body(Last(CallFrames))
    BY <1>1, <1>5, <1>7, <1>12, FramesNow
  <1>14. Kept' = Kept /\ KeptInv'
    BY <1>1, KeptSame
  <1>15. Promise!Return
    <2>1. \A s : Promise!Last(s) = Last(s) /\ Promise!Front(s) = Front(s)
      BY DEF Promise!Last, Promise!Front, Last, Front
    <2>2. \A f : Promise!Body(f) = Body(f)
      BY DEF Promise!Body, Body
    <2> QED
      BY <1>1, <1>13, <1>14, <2>1, <2>2 DEF Promise!Return, CallFrames, Kept
  <1> QED
    BY <1>11, <1>14, <1>15

(* The first bytes of a function, executed or emulated: the calls in       *)
(* progress are the same, and a backtrace finds just them.                 *)
LEMMA EntryPlaces ==
  ASSUME PlacesInv, FrameInv', rip.place = "entry",
         stack' = Append(stack, Word_at("rbp", rbp)), rbp' = Len(stack) + 1, rip' = Body(rip.fn)
  PROVE  /\ PlacesInv' /\ CallFrames' = CallFrames
         /\ Chain(stack', rbp') = Reverse(CallFrames)
  <1>1. PICK e : AtEntry(stack, rbp, e)
    BY DEF PlacesInv
  <1>2. Framed(stack, e, Len(e) - 1) /\ rbp = e[Len(e) - 1] + 1 /\ e[Len(e)] = Len(stack)
    BY <1>1 DEF AtEntry
  <1>3. Framed(stack', e, Len(e)) /\ FramesAt(stack', e) = FramesAt(stack, e) /\ e[Len(e)] + 1 = Len(stack')
    BY <1>2, PushSaved
  <1>4. rbp' = e[Len(e)] + 1 /\ rip'.place # "entry"
    BY <1>2 DEF Body
  <1>5. InBody(stack', rbp', e)
    BY <1>3, <1>4 DEF InBody
  <1>6. PlacesInv'
    BY <1>4, <1>5 DEF PlacesInv, InBody
  <1>7. FramesIn(stack) = FramesAt(stack, e) /\ FramesIn(stack') = FramesAt(stack', e)
    BY <1>2, <1>3, FramesFound
  <1>8. stack'[1].v = END_ADDR
    BY DEF FrameInv, GoodStack
  <1>9. Chain(stack', e[Len(e)] + 1) = Reverse(FramesAt(stack', e))
    BY <1>3, <1>8, ChainReversed
  <1>10. CallFrames' = CallFrames /\ CallFrames = FramesAt(stack, e)
    BY <1>3, <1>7, FramesNow
  <1>11. Chain(stack', rbp') = Reverse(CallFrames)
    BY <1>3, <1>4, <1>9, <1>10
  <1> QED
    BY <1>6, <1>10, <1>11

(* What is expected of a function's first bytes                            *)
LEMMA EnterStep ==
  ASSUME rip.place = "entry", rip' = Body(rip.fn), CallFrames' = CallFrames, out' = <<>>,
         \/ Kept' = Kept /\ broken' = broken
         \/ /\ ~broken /\ broken' = broken
            /\ \E n \in 0 .. Len(rip.args), backtrace \in BOOLEAN :
                 Kept' = Append(Kept, Flat(<<rip.fn>> \o SubSeq(rip.args, 1, n)
                           \o (IF backtrace THEN <<rip.fn>> \o Reverse(CallFrames) ELSE <<>>)))
         \/ broken' = TRUE /\ Kept' = <<>>
  PROVE  Promise!Enter
  <1>1. \A f : Promise!Body(f) = Body(f)
    BY DEF Promise!Body, Body
  <1>2. \A s : Promise!Reverse(s) = Reverse(s)
    BY DEF Promise!Reverse, Reverse
  <1>3. rip' = Promise!Body(rip.fn)
    BY <1>1
  <1>4. CASE Kept' = Kept /\ broken' = broken
    BY <1>3, <1>4 DEF Promise!Enter, CallFrames, Kept
  <1>5. CASE broken' = TRUE /\ Kept' = <<>>
    BY <1>3, <1>5 DEF Promise!Enter, CallFrames, Kept
  <1>6. ASSUME ~broken, broken' = broken, NEW n \in 0 .. Len(rip.args), NEW backtrace \in BOOLEAN,
               Kept' = Append(Kept, Flat(<<rip.fn>> \o SubSeq(rip.args, 1, n)
                         \o (IF backtrace THEN <<rip.fn>> \o Reverse(CallFrames) ELSE <<>>)))
        PROVE  Promise!Enter
    <2>1. Promise!Entry(n, backtrace)
            = <<rip.fn>> \o SubSeq(rip.args, 1, n)
                \o (IF backtrace THEN <<rip.fn>> \o Reverse(CallFrames) ELSE <<>>)
      BY <1>2 DEF Promise!Entry, CallFrames
    <2>2. Kept' = Append(Kept, Flat(Promise!Entry(n, backtrace)))
      BY <1>6, <2>1
    <2> QED
      BY <1>3, <1>6, <2>2 DEF Promise!Enter, CallFrames, Kept
  <1> QED
    BY <1>4, <1>5, <1>6

(* A function that is not patched runs.                                    *)
LEMMA BeginTraced ==
  ASSUME PlacesInv, KeptInv, FrameInv, FrameInv', Begin
  PROVE  PlacesInv' /\ KeptInv' /\ Promise!Enter
  <1>1. /\ rip.place = "entry" /\ stack' = Append(stack, Word_at("rbp", rbp)) /\ rbp' = Len(stack')
        /\ rip' = Body(rip.fn) /\ out' = <<>> /\ UNCHANGED <<buffer, broken>>
    BY DEF Begin, Prologue
  <1>2. rbp' = Len(stack) + 1
    <2>1. stack \in Seq(Words) /\ Word_at("rbp", rbp) \in Words
      BY DEF FrameInv, GoodStack, Word_at, Words
    <2> QED
      BY <1>1, <2>1
  <1>3. PlacesInv' /\ CallFrames' = CallFrames
    BY <1>1, <1>2, EntryPlaces
  <1>4. Kept' = Kept /\ KeptInv'
    BY <1>1, KeptSame
  <1> QED
    BY <1>1, <1>3, <1>4, EnterStep

(* A record of a call in a buffer that was not broken is one record more.  *)
LEMMA RecordKept ==
  ASSUME BufferInv, KeptInv, NEW words \in Seq(Nat), buffer # NULL, ~broken,
         Whole(buffer, words), Plain(words), buffer' = WriteRecord(buffer, words), broken' = broken
  PROVE  KeptInv' /\ Kept' = Append(Kept, Flat(words))
  <1> DEFINE r == WriteRecord(buffer, words)
             rec == Flat(words)
             b == Contents(buffer)
  <1>1. Orderly(buffer) /\ Splittable(b) /\ buffer \in Rings
    BY DEF BufferInv, KeptInv, Closed, Orderly
  <1>2. Contents(r) = (b \o rec) \o <<Delimiter>> /\ rec \in Seq(Nat)
    BY <1>1, RecordWritten
  <1>3. Delimiter \notin ToSet(rec)
    BY DEF Plain
  <1>4. r \in Rings
    BY <1>1, RecordKeepsRing
  <1>5. buffer' = r
    OBVIOUS
  <1> HIDE DEF r, rec, b
  <1>6. Splittable(Contents(r)) /\ Split(Contents(r)) = Append(Split(b), rec)
    BY <1>1, <1>2, <1>3, SplitBehind
  <1>7. buffer' # NULL
    BY <1>4, <1>5, FtraceAssumption
  <1>8. KeptInv'
    BY <1>5, <1>6 DEF KeptInv
  <1>9. Kept' = Append(Kept, rec)
    BY <1>5, <1>6, <1>7, KeptNow DEF Kept, b
  <1> QED
    BY <1>8, <1>9 DEF rec

(* As many arguments are recorded as there are, at most.                   *)
LEMMA ArgsRecorded ==
  ASSUME ListInv, FrameInv, rip.place = "entry", Traced(rip.fn)
  PROVE  Min({NodeOf(rip.fn).num_args, MAX_ARGS, Len(rip.args)}) \in 0 .. Len(rip.args)
         /\ NodeOf(rip.fn).capture_backtrace \in BOOLEAN
  <1> DEFINE node == NodeOf(rip.fn)
             S == {node.num_args, MAX_ARGS, Len(rip.args)}
  <1>1. node \in Node
    BY TheNode
  <1>2. rip.args \in Seq(Nat)
    BY DEF FrameInv
  <1>3. node.capture_backtrace \in BOOLEAN
    BY <1>1 DEF Node
  <1>4. node.num_args \in Nat /\ MAX_ARGS \in Nat /\ Len(rip.args) \in Nat
    <2>1. node.num_args \in Nat
      BY <1>1, FtraceAssumption DEF Node
    <2>2. MAX_ARGS \in Nat /\ Len(rip.args) \in Nat
      BY <1>2 DEF MAX_ARGS
    <2> HIDE DEF node
    <2> QED
      BY <2>1, <2>2
  <1> HIDE DEF node
  <1>5. S \in SUBSET Nat /\ S # {} /\ Len(rip.args) \in S
    BY <1>4
  <1> HIDE DEF S
  <1>6. Min(S) \in Nat /\ Min(S) <= Len(rip.args)
    BY <1>5, MinLeast
  <1>7. Min(S) \in 0 .. Len(rip.args)
    BY <1>4, <1>6
  <1> QED
    BY <1>3, <1>7 DEF S, node

(* The handler's record is the promise's, and the function is entered as   *)
(* it would be untraced.                                                   *)
LEMMA FaultTraced ==
  ASSUME PlacesInv, KeptInv, ListInv, BufferInv, FrameInv, FrameInv', handle_ftrace_fault
  PROVE  PlacesInv' /\ KeptInv' /\ Promise!Enter
  <1> DEFINE node == NodeOf(rip.fn)
             words == CallWords(node)
             n == Min({node.num_args, MAX_ARGS, Len(rip.args)})
             trace == node.capture_backtrace
  <1>1. /\ rip.place = "entry" /\ Traced(rip.fn) /\ stack' = Append(stack, Word_at("rbp", rbp))
        /\ rbp' = Len(stack) + 1 /\ rip' = Body(rip.fn) /\ out' = <<>>
    BY DEF handle_ftrace_fault, Faults, Emulate
  <1>2. PlacesInv' /\ CallFrames' = CallFrames /\ Chain(stack', rbp') = Reverse(CallFrames)
    BY <1>1, EntryPlaces
  <1>3. \/ UNCHANGED <<buffer, broken>>
        \/ /\ buffer # NULL /\ buffer' = WriteRecord(buffer, words)
           /\ broken' = (broken \/ ~(Whole(buffer, words) /\ Plain(words)))
    BY DEF handle_ftrace_fault
  <1>4. CASE UNCHANGED <<buffer, broken>>
    <2>1. Kept' = Kept /\ KeptInv'
      BY <1>4, KeptSame
    <2> QED
      BY <1>1, <1>2, <1>4, <2>1, EnterStep
  <1>5. CASE /\ buffer # NULL /\ buffer' = WriteRecord(buffer, words)
             /\ broken' = (broken \/ ~(Whole(buffer, words) /\ Plain(words)))
    <2>1. CASE ~broken /\ Whole(buffer, words) /\ Plain(words)
      <3>1. words \in Seq(Nat)
        BY <1>1, WordsOfCall
      <3>2. n \in 0 .. Len(rip.args) /\ trace \in BOOLEAN
        BY <1>1, ArgsRecorded
      <3>3. words = <<rip.fn>> \o SubSeq(rip.args, 1, n)
                      \o (IF trace THEN <<rip.fn>> \o Reverse(CallFrames) ELSE <<>>)
        BY <1>2 DEF CallWords, Backtrace
      <3> HIDE DEF words, n, trace, node
      <3>4. broken' = broken
        BY <1>5, <2>1 DEF BufferInv
      <3>5. KeptInv' /\ Kept' = Append(Kept, Flat(words))
        BY <1>5, <2>1, <3>1, <3>4, RecordKept
      <3>6. \E m \in 0 .. Len(rip.args), backtrace \in BOOLEAN :
              Kept' = Append(Kept, Flat(<<rip.fn>> \o SubSeq(rip.args, 1, m)
                        \o (IF backtrace THEN <<rip.fn>> \o Reverse(CallFrames) ELSE <<>>)))
        BY <3>2, <3>3, <3>5
      <3> QED
        BY <1>1, <1>2, <2>1, <3>4, <3>5, <3>6, EnterStep
    <2>2. CASE ~(~broken /\ Whole(buffer, words) /\ Plain(words))
      <3>1. broken' = TRUE
        BY <1>5, <2>2 DEF BufferInv
      <3>2. KeptInv'
        BY <3>1 DEF KeptInv
      <3>3. Kept' = <<>>
        BY <3>1, KeptNow
      <3> QED
        BY <1>1, <1>2, <3>1, <3>2, <3>3, EnterStep
    <2> QED
      BY <2>1, <2>2
  <1> QED
    BY <1>3, <1>4, <1>5

-----------------------------------------------------------------------------
(* A step that leaves the program where it is                              *)
LEMMA MachineSame ==
  ASSUME UNCHANGED machine
  PROVE  CallFrames' = CallFrames /\ rip' = rip /\ (PlacesInv => PlacesInv')
  <1>1. rip' = rip /\ stack' = stack /\ rbp' = rbp
    BY DEF machine
  <1>2. CallFrames' = CallFrames
    BY <1>1, FramesNow
  <1>3. PlacesInv => PlacesInv'
    BY <1>1 DEF PlacesInv, AtEntry, InBody
  <1> QED
    BY <1>1, <1>2, <1>3

(* What is expected of the other steps                                     *)
LEMMA OtherStep ==
  ASSUME rip.place = "body", rip' = rip, CallFrames' = CallFrames,
         \/ Kept' = Kept /\ broken' = broken /\ (broken \/ out' = <<>>)
         \/ Kept' = <<>> /\ broken' = FALSE /\ out' = <<>>
  PROVE  Promise!Other
  BY DEF Promise!Other, CallFrames, Kept

(* What is expected of a read that takes the oldest records                *)
LEMMA TakenStep ==
  ASSUME rip.place = "body", rip' = rip, CallFrames' = CallFrames, NEW n \in Counts,
         ~broken, Kept # <<>>, broken' = broken,
         out' = FlattenSeq(SubSeq(Kept, 1, Min({n, Len(Kept)}))),
         Kept' = SubSeq(Kept, Min({n, Len(Kept)}) + 1, Len(Kept))
  PROVE  Promise!Other
  <1>1. \A S : Promise!Min(S) = Min(S)
    BY DEF Promise!Min, Min
  <1>2. \A s : Promise!FlattenSeq(s) = FlattenSeq(s)
    BY DEF Promise!FlattenSeq, FlattenSeq
  <1> QED
    BY <1>1, <1>2 DEF Promise!Other, CallFrames, Kept

(* do_ftrace has nothing to do with the calls in progress.                 *)
LEMMA SettingsTraced ==
  ASSUME PlacesInv, KeptInv, do_ftrace
  PROVE  PlacesInv' /\ KeptInv' /\ Promise!Other
  <1>1. UNCHANGED machine /\ UNCHANGED <<buffer, broken>> /\ rip.place = "body" /\ out' = <<>>
    BY DEF do_ftrace, SystemCall, Running
  <1>2. CallFrames' = CallFrames /\ rip' = rip /\ PlacesInv'
    BY <1>1, MachineSame
  <1>3. Kept' = Kept /\ KeptInv'
    BY <1>1, KeptSame
  <1> QED
    BY <1>1, <1>2, <1>3, OtherStep

(* A new buffer has nothing in it.                                         *)
LEMMA RenewTraced ==
  ASSUME PlacesInv, Create \/ Close
  PROVE  PlacesInv' /\ KeptInv' /\ Promise!Other
  <1>1. /\ UNCHANGED machine /\ broken' = FALSE /\ rip.place = "body" /\ out' = <<>>
        /\ buffer' = NULL \/ buffer' = Fresh
    BY DEF Create, Close, Running
  <1>2. CallFrames' = CallFrames /\ rip' = rip /\ PlacesInv'
    BY <1>1, MachineSame
  <1>3. Contents(Fresh) = <<>>
    BY DEF Contents, Fresh
  <1>4. Splittable(Contents(Fresh)) /\ Split(Contents(Fresh)) = <<>>
    BY <1>3, SplitNothing
  <1>5. KeptInv' /\ Kept' = <<>>
    BY <1>1, <1>4, KeptNow DEF KeptInv
  <1> QED
    BY <1>1, <1>2, <1>5, OtherStep

(* Reading takes the oldest records, whole.                                *)
LEMMA ReadTraced ==
  ASSUME PlacesInv, KeptInv, BufferInv, NEW n \in Counts, sys_read_ftrace(n)
  PROVE  PlacesInv' /\ KeptInv' /\ (Promise!Other \/ UNCHANGED Promise!vars)
  <1> DEFINE s == ReadRecords(buffer, n, 0)
             r == RingOf(s)
             recs == Split(Contents(buffer))
             upto == IF n <= Len(recs) THEN n ELSE Len(recs)
  <1>1. /\ UNCHANGED machine /\ broken' = broken /\ rip.place = "body" /\ buffer # NULL
        /\ \/ ~Isempty(buffer) /\ buffer' = r /\ out' = s.out
           \/ out' = <<>> /\ buffer' = buffer
           \/ out' = out /\ buffer' = buffer
    BY DEF sys_read_ftrace, Running
  <1>2. CallFrames' = CallFrames /\ rip' = rip /\ PlacesInv'
    BY <1>1, MachineSame
  <1>3. CASE buffer' = buffer /\ out' = <<>>
    <2>1. Kept' = Kept /\ KeptInv'
      BY <1>1, <1>3, KeptSame
    <2> QED
      BY <1>1, <1>2, <1>3, <2>1, OtherStep
  <1>4. CASE buffer' = buffer /\ out' = out
    <2>1. Kept' = Kept /\ KeptInv'
      BY <1>1, <1>4, KeptSame
    <2>2. UNCHANGED Promise!vars
      BY <1>1, <1>2, <1>4, <2>1 DEF Promise!vars, CallFrames, Kept
    <2> QED
      BY <1>2, <2>1, <2>2
  <1>5. CASE ~Isempty(buffer) /\ buffer' = r /\ out' = s.out /\ ~broken
    <2>1. n \in Nat /\ 0 \in Nat
      BY FtraceAssumption
    <2>2. Orderly(buffer) /\ ~Isempty(buffer) /\ Splittable(Contents(buffer)) /\ buffer \in Rings
      BY <1>1, <1>5 DEF BufferInv, KeptInv, Closed, Orderly
    <2>3. recs # <<>> /\ recs \in Seq(Seq(Nat)) /\ HasRead(s, recs, upto)
      BY <2>1, <2>2, RecordsRead
    <2>4. Kept = recs
      BY <1>1, <1>5 DEF Kept
    <2>5. r \in Rings
      BY <2>1, <2>2, ReadKeepsRing
    <2> HIDE DEF recs, s
    <2>6. Min({n, Len(recs)}) = upto
      <3>1. Len(recs) \in Nat
        BY <2>3
      <3> QED
        BY ONLY <2>1, <3>1, MinOfTwo DEF upto
    <2> HIDE DEF upto
    <2>7. /\ out' = FlattenSeq(SubSeq(recs, 1, upto))
          /\ Splittable(Contents(r)) /\ Split(Contents(r)) = SubSeq(recs, upto + 1, Len(recs))
      BY <1>5, <2>3 DEF HasRead
    <2> HIDE DEF r
    <2>8. buffer' # NULL /\ buffer' = r
      BY <1>5, <2>5, FtraceAssumption
    <2>9. KeptInv' /\ Kept' = SubSeq(recs, upto + 1, Len(recs))
      BY <1>1, <1>5, <2>7, <2>8, KeptNow DEF KeptInv
    <2> QED
      BY <1>1, <1>2, <1>5, <2>3, <2>4, <2>6, <2>7, <2>9, TakenStep
  <1>6. CASE ~Isempty(buffer) /\ buffer' = r /\ broken
    <2>1. KeptInv' /\ Kept' = Kept
      BY <1>1, <1>6, KeptNow DEF KeptInv, Kept
    <2> QED
      BY <1>1, <1>2, <1>6, <2>1, OtherStep
  <1> QED
    BY <1>1, <1>3, <1>4, <1>5, <1>6

(* A kernel gone astray, and a step that changes nothing                   *)
LEMMA NothingTraced ==
  ASSUME PlacesInv, KeptInv, UNCHANGED <<machine, buffer, out, broken>>
  PROVE  PlacesInv' /\ KeptInv' /\ UNCHANGED Promise!vars
  <1>1. CallFrames' = CallFrames /\ rip' = rip /\ PlacesInv' /\ Kept' = Kept /\ KeptInv'
    BY MachineSame, KeptSame
  <1> QED
    BY <1>1 DEF Promise!vars, CallFrames, Kept

(* Every step is one of the promise's, or none of them.                    *)
LEMMA StepTraced ==
  ASSUME IInv, IInv', PlacesInv, KeptInv, [Next]_vars
  PROVE  PlacesInv' /\ KeptInv' /\ [Promise!Next]_(Promise!vars)
  <1> USE DEF IInv
  <1>1. CASE UNCHANGED vars
    BY <1>1, NothingTraced DEF vars
  <1>2. CASE Call \/ Return
    BY <1>2, CallTraced, ReturnTraced DEF Promise!Next
  <1>3. CASE Local \/ do_ftrace \/ Create \/ Close
    BY <1>3, LocalTraced, SettingsTraced, RenewTraced DEF Promise!Next
  <1>4. CASE Begin \/ handle_ftrace_fault
    BY <1>4, BeginTraced, FaultTraced DEF Promise!Next
  <1>5. CASE fault_without_node \/ backtrace_overflows
    <2>1. UNCHANGED <<machine, buffer, out, broken>>
      BY <1>5 DEF fault_without_node, backtrace_overflows, Leaves
    <2> QED
      BY <2>1, NothingTraced
  <1>6. ASSUME NEW n \in Counts, sys_read_ftrace(n)
        PROVE  PlacesInv' /\ KeptInv' /\ [Promise!Next]_(Promise!vars)
    BY <1>6, ReadTraced DEF Promise!Next
  <1> QED
    BY <1>1, <1>2, <1>3, <1>4, <1>5, <1>6 DEF Next

(* Main's frame is there from the start.                                   *)
LEMMA InitTraced == Init => PlacesInv /\ KeptInv /\ Promise!Init
  <1> SUFFICES ASSUME Init PROVE PlacesInv /\ KeptInv /\ Promise!Init
    OBVIOUS
  <1> DEFINE e == <<1>>
  <1>1. /\ rip = Body(Main) /\ rbp = 2 /\ buffer = NULL /\ broken = FALSE /\ out = <<>>
        /\ stack = <<Word_at("return", END_ADDR), Word_at("rbp", 0)>>
    BY DEF Init
  <1>2. stack \in Seq(Words) /\ Len(stack) = 2 /\ stack[1].kind = "return" /\ stack[2].kind = "rbp"
    BY <1>1 DEF Word_at, Words, END_ADDR
  <1>3. ReturnPlaces(stack) = {1}
    BY <1>2 DEF ReturnPlaces
  <1>4. e \in Seq(Nat) /\ Len(e) = 1 /\ e[1] = 1
    OBVIOUS
  <1> HIDE DEF e
  <1>5. InOrder(e, ReturnPlaces(stack))
    BY <1>3, <1>4 DEF InOrder
  <1>6. Framed(stack, e, Len(e))
    BY <1>2, <1>4, <1>5 DEF Framed
  <1>7. InBody(stack, rbp, e) /\ rip.place # "entry"
    BY <1>1, <1>4, <1>6 DEF InBody, Body
  <1>8. PlacesInv
    BY <1>7 DEF PlacesInv
  <1>9. CallFrames = <<>>
    <2>1. FramesIn(stack) = FramesAt(stack, e)
      BY <1>6, FramesFound
    <2>2. FramesAt(stack, e) = <<>>
      BY <1>4 DEF FramesAt
    <2> QED
      BY <2>1, <2>2, FramesNow
  <1>10. KeptInv /\ Kept = <<>>
    BY <1>1 DEF KeptInv, Kept
  <1>11. Promise!Init
    BY <1>1, <1>9, <1>10 DEF Promise!Init, Promise!Body, Body, CallFrames, Kept
  <1> QED
    BY <1>8, <1>10, <1>11

(* Whatever is traced, enabled and disabled on the way, functions run and  *)
(* return as they would untraced; and the buffer is a queue of whole       *)
(* records of calls, each with its arguments and the calls in progress.    *)
THEOREM CallsAreTraced == Spec => IsCallTrace
  <1>1. IInv /\ IInv' /\ PlacesInv /\ KeptInv /\ [Next]_vars
          => PlacesInv' /\ KeptInv' /\ [Promise!Next]_(Promise!vars)
    BY StepTraced
  <1> QED
    BY InitTraced, <1>1, InvAlways, PTL DEF Spec, IsCallTrace, Promise!Spec
=============================================================================
