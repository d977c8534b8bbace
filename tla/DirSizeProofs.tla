--------------------------- MODULE DirSizeProofs ---------------------------
(***************************************************************************)
(* Proofs about DirSize, for every disk, every capacity of a pipe and      *)
(* every limit on descriptors: the descriptors a process has are of pipes  *)
(* of its own calls and of those above it, nobody's total is taken before  *)
(* all whose sizes go into it are done, and nothing is counted twice or    *)
(* lost on the way to the total, unless a process fails.                   *)
(***************************************************************************)
EXTENDS DirSize, FiniteSetTheorems, WellFoundedInduction, TLAPS

Entries == UNION {DOMAIN d.size : d \in Disks}
Paths == Seq(Entries)

CallRecs ==
  [path : Paths, dir : Entries, phase : {"enter", "scan", "read"}, todo : SUBSET Entries, dirSize : Nat]
ProcRecs ==
  [parent : Paths, status : {"running", "reporting", "written", "exited", "failed", "killed"},
   calls : Seq(CallRecs), ends : SUBSET (Paths \X {"r", "w"}), size : Nat]

Lives(r) == r.status \in {"running", "reporting", "written"}

(* One path begins with the other.                                         *)
Below(s, t) == Len(s) <= Len(t) /\ \A i \in 1 .. Len(s) : s[i] = t[i]

(* The calls of process p: the first is for p's own directory, each other  *)
(* for a link found by the call before, which is in the middle of a scan.  *)
Chained(p, calls) ==
  /\ calls # <<>> => calls[1].path = p
  /\ \A i \in DOMAIN calls : Len(calls[i].path) = Len(p) + i - 1
  /\ \A i, j \in DOMAIN calls : i <= j => Below(calls[i].path, calls[j].path)
  /\ \A i \in DOMAIN calls : i # Len(calls) => calls[i].phase = "scan"

(* The descriptors of process p: the write end of a call's pipe while it   *)
(* scans, not when it reads; others only of pipes above p.                 *)
OwnEnds(p, r) ==
  /\ \A i \in DOMAIN r.calls :
       /\ r.calls[i].phase = "scan" => <<r.calls[i].path, "w">> \in r.ends
       /\ r.calls[i].phase = "read" => <<r.calls[i].path, "w">> \notin r.ends
  /\ \A end \in r.ends :
       \/ \E i \in DOMAIN r.calls : r.calls[i].path = end[1] /\ r.calls[i].phase # "enter"
       \/ Below(end[1], p) /\ Len(end[1]) < Len(p)

(* As long as it lives a child can write to the call that forked it, and,  *)
(* whoever that was, to the first call of all.                             *)
Inherited(p, r) ==
  Lives(r) /\ p # <<>> => <<Front(p), "w">> \in r.ends /\ <<<<>>, "w">> \in r.ends

Local(p, r) ==
  /\ r \in ProcRecs
  /\ r.status = "running" <=> r.calls # <<>>
  /\ Chained(p, r.calls)
  /\ OwnEnds(p, r)
  /\ Inherited(p, r)
  /\ r.ends # {} => Lives(r)
  /\ p = <<>> => r.status \notin {"reporting", "written", "killed"}

(* P stands for the processes, now or after a step.                        *)
Good(P) ==
  /\ P = [p \in DOMAIN P |-> P[p]]
  /\ DOMAIN P \subseteq Paths /\ <<>> \in DOMAIN P
  /\ \A p \in DOMAIN P : Local(p, P[p]) /\ P[p].parent \in DOMAIN P

(* No call has the path of another, and below an entry that a call has yet *)
(* to come to there has been no call and no process.                       *)
Open(c) == IF c.phase = "enter" THEN Entries ELSE c.todo

Unseen(P, path) ==
  \A q \in DOMAIN P :
    ~Below(path, q) /\ \A j \in DOMAIN P[q].calls : ~Below(path, P[q].calls[j].path)

Fresh(P) ==
  \A p \in DOMAIN P : \A i \in DOMAIN P[p].calls : \A e \in Open(P[p].calls[i]) :
    Unseen(P, Append(P[p].calls[i].path, e))

Unique(P) ==
  \A p, q \in DOMAIN P : \A i \in DOMAIN P[p].calls, j \in DOMAIN P[q].calls :
    P[p].calls[i].path = P[q].calls[j].path => p = q /\ i = j

(* WaitsForAll, in the same terms                                          *)
HasCall(r, path) == \E i \in DOMAIN r.calls : r.calls[i].path = path

Waits(P) ==
  \A q \in DOMAIN P \ {<<>>} :
    Lives(P[q]) => P[P[q].parent].status = "failed" \/ HasCall(P[P[q].parent], Front(q))

Done(P) == P[<<>>].status = "exited" => \A q \in DOMAIN P : ~Lives(P[q])

(* The pipes there are: those of the calls that are past opening theirs;   *)
(* what these have yet to come to is on the disk.                          *)
Opened(c, D, K) == c.path \in D /\ c.todo \subseteq K

Covered(P, D, K) ==
  \A p \in DOMAIN P : \A i \in DOMAIN P[p].calls :
    P[p].calls[i].phase # "enter" => Opened(P[p].calls[i], D, K)

PipeInv ==
  /\ pipes = [path \in DOMAIN pipes |-> pipes[path]]
  /\ \A path \in DOMAIN pipes : pipes[path] \in Seq(Nat) /\ Len(pipes[path]) <= Capacity

Sound(P, D, K) == Good(P) /\ Fresh(P) /\ Unique(P) /\ Covered(P, D, K) /\ Waits(P) /\ Done(P)

IInv ==
  /\ disk \in Disks /\ misled \in BOOLEAN
  /\ Sound(procs, DOMAIN pipes, DOMAIN disk.size)
  /\ PipeInv

-----------------------------------------------------------------------------
(* Sequences and paths                                                     *)

(* All but the last element                                                *)
LEMMA FrontFacts ==
  ASSUME NEW S, NEW s \in Seq(S), s # <<>>
  PROVE  /\ Front(s) \in Seq(S) /\ Len(Front(s)) = Len(s) - 1
         /\ DOMAIN Front(s) = 1 .. (Len(s) - 1)
         /\ \A i \in 1 .. (Len(s) - 1) : Front(s)[i] = s[i]
         /\ Len(s) \in Nat \ {0} /\ Len(s) \in DOMAIN s /\ DOMAIN s = 1 .. Len(s)
         /\ Last(s) = s[Len(s)] /\ Last(s) \in S
  <1>1. Len(s) \in Nat \ {0} /\ DOMAIN s = 1 .. Len(s)
    OBVIOUS
  <1>2. SubSeq(s, 1, Len(s) - 1) \in Seq(S) /\ Len(SubSeq(s, 1, Len(s) - 1)) = Len(s) - 1
        /\ \A i \in 1 .. (Len(s) - 1) : SubSeq(s, 1, Len(s) - 1)[i] = s[i]
    BY <1>1
  <1> DEFINE f == SubSeq(s, 1, Len(s) - 1)
  <1>3. DOMAIN f = 1 .. (Len(s) - 1)
    <2> HIDE DEF f
    <2>1. f \in Seq(S) /\ Len(f) = Len(s) - 1
      BY <1>2 DEF f
    <2> QED
      BY <2>1
  <1> QED
    BY <1>1, <1>2, <1>3 DEF Front, Last

(* The last element replaced                                               *)
LEMMA ReplacedLast ==
  ASSUME NEW S, NEW s \in Seq(S), s # <<>>, NEW x \in S
  PROVE  /\ Append(Front(s), x) \in Seq(S) /\ Len(Append(Front(s), x)) = Len(s)
         /\ DOMAIN Append(Front(s), x) = DOMAIN s
         /\ Append(Front(s), x)[Len(s)] = x
         /\ \A i \in DOMAIN s : i # Len(s) => Append(Front(s), x)[i] = s[i]
         /\ Append(Front(s), x) # <<>>
  <1> DEFINE f == Front(s)
  <1>1. /\ f \in Seq(S) /\ Len(f) = Len(s) - 1 /\ \A i \in 1 .. (Len(s) - 1) : f[i] = s[i]
        /\ Len(s) \in Nat \ {0} /\ DOMAIN s = 1 .. Len(s)
    BY FrontFacts
  <1> HIDE DEF f
  <1>2. /\ Append(f, x) \in Seq(S) /\ Len(Append(f, x)) = Len(s) /\ Append(f, x)[Len(s)] = x
        /\ \A i \in 1 .. (Len(s) - 1) : Append(f, x)[i] = s[i]
        /\ DOMAIN Append(f, x) = DOMAIN s
    BY <1>1
  <1>3. \A i \in DOMAIN s : i # Len(s) => i \in 1 .. (Len(s) - 1)
    BY <1>1
  <1>4. Append(f, x) # <<>>
    BY <1>1
  <1> QED
    BY <1>2, <1>3, <1>4 DEF f

(* One more element                                                        *)
LEMMA AppendFacts ==
  ASSUME NEW S, NEW s \in Seq(S), NEW x \in S
  PROVE  /\ Append(s, x) \in Seq(S) /\ Len(Append(s, x)) = Len(s) + 1
         /\ DOMAIN Append(s, x) = DOMAIN s \cup {Len(s) + 1} /\ DOMAIN s = 1 .. Len(s)
         /\ Append(s, x)[Len(s) + 1] = x
         /\ \A i \in DOMAIN s : Append(s, x)[i] = s[i]
         /\ Append(s, x) # <<>>
         /\ Front(Append(s, x)) = s /\ Last(Append(s, x)) = x
         /\ Len(s) \in Nat
  <1> DEFINE t == Append(s, x)
  <1>1. /\ t \in Seq(S) /\ Len(t) = Len(s) + 1 /\ t[Len(s) + 1] = x
        /\ \A i \in 1 .. Len(s) : t[i] = s[i]
        /\ DOMAIN s = 1 .. Len(s) /\ Len(s) \in Nat
    OBVIOUS
  <1> HIDE DEF t
  <1>2. DOMAIN t = 1 .. Len(s) + 1 /\ t # <<>>
    BY <1>1
  <1>3. DOMAIN t = DOMAIN s \cup {Len(s) + 1}
    BY <1>1, <1>2
  <1>4. /\ Front(t) \in Seq(S) /\ Len(Front(t)) = Len(s) /\ Last(t) = x
        /\ \A i \in 1 .. Len(s) : Front(t)[i] = s[i]
    BY <1>1, <1>2, FrontFacts
  <1>5. Front(t) = s
    <2> DEFINE f == Front(t)
    <2>1. f \in Seq(S) /\ Len(f) = Len(s) /\ \A i \in 1 .. Len(s) : f[i] = s[i]
      BY <1>4
    <2> HIDE DEF f
    <2>2. f = s
      BY <2>1
    <2> QED
      BY <2>2 DEF f
  <1> QED
    BY <1>1, <1>2, <1>3, <1>4, <1>5 DEF t

(* What it means that one path begins with the other                       *)
LEMMA BelowFacts ==
  ASSUME NEW s \in Paths, NEW t \in Paths
  PROVE  /\ Below(s, s)
         /\ Below(s, t) => Len(s) <= Len(t)
         /\ Below(s, t) /\ Len(s) = Len(t) => s = t
         /\ s = <<>> => Below(s, t)
         /\ \A u \in Paths : Below(s, t) /\ Below(t, u) => Below(s, u)
  <1>1. Len(s) \in Nat /\ Len(t) \in Nat
    BY DEF Paths
  <1>2. ASSUME Below(s, t), Len(s) = Len(t) PROVE s = t
    BY <1>2 DEF Below, Paths
  <1>3. ASSUME NEW u \in Paths, Below(s, t), Below(t, u) PROVE Below(s, u)
    <2>1. Len(u) \in Nat
      BY DEF Paths
    <2> QED
      BY <1>1, <1>3, <2>1 DEF Below
  <1>4. s = <<>> => Len(s) = 0
    OBVIOUS
  <1> QED
    BY <1>1, <1>2, <1>3, <1>4 DEF Below

(* A path with one more step                                               *)
LEMMA StepBelow ==
  ASSUME NEW s \in Paths, NEW e \in Entries
  PROVE  /\ Append(s, e) \in Paths /\ Len(Append(s, e)) = Len(s) + 1 /\ Append(s, e) # <<>>
         /\ Below(s, Append(s, e)) /\ Front(Append(s, e)) = s
         /\ \A t \in Paths : Below(Append(s, e), t) => Below(s, t)
         /\ \A f \in Entries, t \in Paths :
              Below(Append(s, e), Append(t, f)) =>
                Below(Append(s, e), t) \/ (s = t /\ e = f)
  <1> DEFINE a == Append(s, e)
  <1>1. /\ a \in Paths /\ Len(a) = Len(s) + 1 /\ a[Len(s) + 1] = e /\ \A i \in 1 .. Len(s) : a[i] = s[i]
        /\ a # <<>> /\ Front(a) = s /\ Len(s) \in Nat /\ DOMAIN s = 1 .. Len(s)
    BY AppendFacts DEF Paths
  <1> HIDE DEF a
  <1>2. Below(s, a)
    BY <1>1 DEF Below
  <1>3. ASSUME NEW t \in Paths, Below(a, t) PROVE Below(s, t)
    BY <1>1, <1>2, <1>3, BelowFacts
  <1>4. ASSUME NEW f \in Entries, NEW t \in Paths, Below(a, Append(t, f))
        PROVE  Below(a, t) \/ (s = t /\ e = f)
    <2> DEFINE b == Append(t, f)
    <2>1. /\ b \in Paths /\ Len(b) = Len(t) + 1 /\ b[Len(t) + 1] = f /\ \A i \in 1 .. Len(t) : b[i] = t[i]
          /\ Len(t) \in Nat /\ DOMAIN t = 1 .. Len(t)
      BY AppendFacts DEF Paths
    <2>2. Below(a, b)
      BY <1>4
    <2> HIDE DEF b
    <2>3. CASE Len(a) <= Len(t)
      BY <1>1, <2>1, <2>2, <2>3 DEF Below
    <2>4. CASE ~(Len(a) <= Len(t))
      <3>1. Len(s) = Len(t)
        <4>1. Len(a) <= Len(b)
          BY <2>2 DEF Below
        <4>2. Len(a) = Len(s) + 1 /\ Len(s) \in Nat
          BY <1>1
        <4>3. Len(b) = Len(t) + 1 /\ Len(t) \in Nat
          BY <2>1
        <4> QED
          BY <2>4, <4>1, <4>2, <4>3
      <3>2. \A i \in 1 .. Len(s) : s[i] = t[i]
        BY <1>1, <2>1, <2>2, <3>1 DEF Below
      <3>3. s = t
        BY <3>1, <3>2, BelowFacts, <1>1, <2>1 DEF Below
      <3>4. e = f
        BY <1>1, <2>1, <2>2, <3>1 DEF Below
      <3> QED
        BY <3>3, <3>4
    <2> QED
      BY <2>3, <2>4
  <1> QED
    BY <1>1, <1>2, <1>3, <1>4 DEF a

-----------------------------------------------------------------------------
(* One process                                                             *)

(* What a running process is doing                                         *)
LEMMA LocalFacts ==
  ASSUME NEW p \in Paths, NEW r, Local(p, r)
  PROVE  /\ r \in ProcRecs /\ r.calls \in Seq(CallRecs) /\ r.ends \in SUBSET (Paths \X {"r", "w"})
         /\ r.size \in Nat /\ r.parent \in Paths
         /\ DOMAIN r.calls = 1 .. Len(r.calls) /\ Len(r.calls) \in Nat
         /\ \A i \in DOMAIN r.calls : r.calls[i] \in CallRecs /\ r.calls[i].path \in Paths
         /\ r.status = "running" =>
              /\ r.calls # <<>> /\ Len(r.calls) \in DOMAIN r.calls
              /\ Last(r.calls) = r.calls[Len(r.calls)] /\ Last(r.calls) \in CallRecs
              /\ Last(r.calls).path \in Paths /\ Below(p, Last(r.calls).path)
              /\ Len(p) <= Len(Last(r.calls).path)
  <1>1. /\ r \in ProcRecs /\ r.calls \in Seq(CallRecs) /\ r.ends \in SUBSET (Paths \X {"r", "w"})
        /\ r.size \in Nat /\ r.parent \in Paths
    BY DEF Local, ProcRecs
  <1>2. /\ DOMAIN r.calls = 1 .. Len(r.calls) /\ Len(r.calls) \in Nat
        /\ \A i \in DOMAIN r.calls : r.calls[i] \in CallRecs
    BY <1>1
  <1>3. \A i \in DOMAIN r.calls : r.calls[i].path \in Paths
    BY <1>2 DEF CallRecs
  <1>4. ASSUME r.status = "running"
        PROVE  /\ r.calls # <<>> /\ Len(r.calls) \in DOMAIN r.calls
               /\ Last(r.calls) = r.calls[Len(r.calls)] /\ Last(r.calls) \in CallRecs
               /\ Last(r.calls).path \in Paths /\ Below(p, Last(r.calls).path)
               /\ Len(p) <= Len(Last(r.calls).path)
    <2>1. r.calls # <<>>
      BY <1>4 DEF Local
    <2>2. /\ Len(r.calls) \in DOMAIN r.calls /\ Last(r.calls) = r.calls[Len(r.calls)]
          /\ Last(r.calls) \in CallRecs /\ Len(r.calls) >= 1
      BY <1>1, <2>1, FrontFacts
    <2>3. 1 \in DOMAIN r.calls /\ r.calls[1].path = p
      BY <1>2, <2>1, <2>2 DEF Local, Chained
    <2>4. Below(p, Last(r.calls).path)
      BY <1>2, <2>2, <2>3 DEF Local, Chained
    <2> QED
      BY <1>3, <2>1, <2>2, <2>4, BelowFacts
  <1> QED
    BY <1>1, <1>2, <1>3, <1>4

(* What a step may make of a process: no call is had that was not, none    *)
(* has more to come to, and those past opening their pipes have pipes.     *)
Narrows(old, new, D, K) ==
  /\ new.parent = old.parent
  /\ \A i \in DOMAIN new.calls :
       /\ i \in DOMAIN old.calls /\ new.calls[i].path = old.calls[i].path
       /\ Open(new.calls[i]) \subseteq Open(old.calls[i])
       /\ new.calls[i].phase # "enter" =>
            old.calls[i].phase # "enter" \/ Opened(new.calls[i], D, K)

(* The call a process is in goes on.                                       *)
LEMMA LocalLast ==
  ASSUME NEW p \in Paths, NEW r, Local(p, r), r.status = "running",
         NEW c \in CallRecs, c.path = Last(r.calls).path, c.phase \in {"scan", "read"},
         Open(c) \subseteq Open(Last(r.calls)),
         NEW n \in ProcRecs, n.calls = Append(Front(r.calls), c),
         n.status = r.status, n.parent = r.parent,
         c.phase = "scan" => <<c.path, "w">> \in n.ends,
         c.phase = "read" => <<c.path, "w">> \notin n.ends,
         \A end \in Paths \X {"r", "w"} : end[1] # c.path => (end \in n.ends <=> end \in r.ends),
         NEW D, NEW K, Last(r.calls).phase = "enter" => Opened(c, D, K)
  PROVE  /\ Local(p, n) /\ Narrows(r, n, D, K)
         /\ \A path : HasCall(r, path) => HasCall(n, path)
  <1> DEFINE k == Len(r.calls)
             l == Last(r.calls)
  <1>1. /\ r.calls \in Seq(CallRecs) /\ r.calls # <<>> /\ k \in DOMAIN r.calls /\ l = r.calls[k]
        /\ l.path \in Paths /\ Len(p) <= Len(l.path)
        /\ DOMAIN r.calls = 1 .. k /\ k \in Nat
        /\ \A i \in DOMAIN r.calls : r.calls[i].path \in Paths
    BY LocalFacts
  <1>2. /\ Len(n.calls) = k /\ DOMAIN n.calls = DOMAIN r.calls /\ n.calls[k] = c
        /\ \A i \in DOMAIN r.calls : i # k => n.calls[i] = r.calls[i]
        /\ n.calls # <<>>
    BY <1>1, ReplacedLast
  <1> HIDE DEF k, l
  <1>3. \A i \in DOMAIN r.calls : n.calls[i].path = r.calls[i].path
    BY <1>1, <1>2 DEF l
  <1>4. Chained(p, n.calls)
    <2>1. Chained(p, r.calls)
      BY DEF Local
    <2>2. 1 \in DOMAIN r.calls
      BY <1>1
    <2>3. n.calls[1].path = p
      BY <1>1, <1>3, <2>1, <2>2 DEF Chained
    <2>4. \A i \in DOMAIN n.calls : i # Len(n.calls) => n.calls[i].phase = "scan"
      BY <1>2, <2>1 DEF Chained, k
    <2>5. \A i \in DOMAIN n.calls : Len(n.calls[i].path) = Len(p) + i - 1
      BY <1>2, <1>3, <2>1 DEF Chained
    <2>6. \A i, j \in DOMAIN n.calls : i <= j => Below(n.calls[i].path, n.calls[j].path)
      BY <1>2, <1>3, <2>1 DEF Chained
    <2> QED
      BY <2>3, <2>4, <2>5, <2>6 DEF Chained
  <1>5. \A i \in DOMAIN r.calls : i # k => r.calls[i].path # c.path
    <2> SUFFICES ASSUME NEW i \in DOMAIN r.calls, i # k PROVE r.calls[i].path # c.path
      OBVIOUS
    <2>1. Len(r.calls[i].path) = Len(p) + i - 1 /\ Len(l.path) = Len(p) + k - 1
      BY <1>1 DEF Local, Chained
    <2>2. Len(p) \in Nat /\ i \in Nat
      BY <1>1 DEF Paths
    <2>3. Len(r.calls[i].path) # Len(l.path)
      BY <1>1, <2>1, <2>2
    <2> QED
      BY <2>3 DEF l
  <1>6. n.ends \in SUBSET (Paths \X {"r", "w"}) /\ r.ends \in SUBSET (Paths \X {"r", "w"})
    BY DEF Local, ProcRecs
  <1>7. OwnEnds(p, n)
    <2>1. ASSUME NEW i \in DOMAIN n.calls
          PROVE  /\ n.calls[i].phase = "scan" => <<n.calls[i].path, "w">> \in n.ends
                 /\ n.calls[i].phase = "read" => <<n.calls[i].path, "w">> \notin n.ends
      <3>1. CASE i = k
        BY <1>2, <3>1
      <3>2. CASE i # k
        <4>1. n.calls[i] = r.calls[i] /\ r.calls[i].path # c.path /\ r.calls[i].path \in Paths
          BY <1>1, <1>2, <1>5, <3>2
        <4>2. <<r.calls[i].path, "w">> \in n.ends <=> <<r.calls[i].path, "w">> \in r.ends
          BY <4>1
        <4>3. /\ r.calls[i].phase = "scan" => <<r.calls[i].path, "w">> \in r.ends
              /\ r.calls[i].phase = "read" => <<r.calls[i].path, "w">> \notin r.ends
          BY <1>2 DEF Local, OwnEnds
        <4> QED
          BY <4>1, <4>2, <4>3
      <3> QED
        BY <3>1, <3>2
    <2>2. ASSUME NEW end \in n.ends
          PROVE  \/ \E i \in DOMAIN n.calls : n.calls[i].path = end[1] /\ n.calls[i].phase # "enter"
                 \/ Below(end[1], p) /\ Len(end[1]) < Len(p)
      <3>1. CASE end[1] = c.path
        BY <1>1, <1>2, <3>1
      <3>2. CASE end[1] # c.path
        <4>1. end \in r.ends
          BY <1>6, <3>2
        <4>2. \/ \E i \in DOMAIN r.calls : r.calls[i].path = end[1] /\ r.calls[i].phase # "enter"
              \/ Below(end[1], p) /\ Len(end[1]) < Len(p)
          BY <4>1 DEF Local, OwnEnds
        <4>3. ASSUME NEW i \in DOMAIN r.calls, r.calls[i].path = end[1], r.calls[i].phase # "enter"
              PROVE  n.calls[i].path = end[1] /\ n.calls[i].phase # "enter"
          <5>1. i # k
            BY <1>1, <3>2, <4>3 DEF l
          <5> QED
            BY <1>2, <4>3, <5>1
        <4> QED
          BY <1>2, <4>2, <4>3
      <3> QED
        BY <3>1, <3>2
    <2> QED
      BY <2>1, <2>2 DEF OwnEnds
  <1>8. Inherited(p, n)
    <2> SUFFICES ASSUME p # <<>> PROVE <<Front(p), "w">> \in n.ends /\ <<<<>>, "w">> \in n.ends
      BY DEF Inherited
    <2>1. <<Front(p), "w">> \in r.ends /\ <<<<>>, "w">> \in r.ends
      BY DEF Local, Inherited, Lives
    <2>2. Front(p) \in Paths /\ Len(Front(p)) = Len(p) - 1 /\ Len(p) \in Nat \ {0} /\ <<>> \in Paths
      BY SMTT(30), FrontFacts DEF Paths
    <2>3. Front(p) # c.path
      BY <1>1, <2>2 DEF l
    <2>4. <<>> # c.path
      BY <1>1, <2>2 DEF l
    <2>5. <<Front(p), "w">> \in Paths \X {"r", "w"} /\ <<<<>>, "w">> \in Paths \X {"r", "w"}
      BY <2>2
    <2> QED
      BY <2>1, <2>3, <2>4, <2>5
  <1>9. Local(p, n)
    <2>1. n.status = "running" /\ Lives(n)
      BY DEF Lives
    <2> QED
      BY <1>2, <1>4, <1>7, <1>8, <2>1 DEF Local
  <1>10. Narrows(r, n, D, K)
    <2> SUFFICES ASSUME NEW i \in DOMAIN n.calls
                 PROVE  /\ Open(n.calls[i]) \subseteq Open(r.calls[i])
                        /\ n.calls[i].phase # "enter" =>
                             r.calls[i].phase # "enter" \/ Opened(n.calls[i], D, K)
      BY <1>2, <1>3 DEF Narrows
    <2>1. CASE i = k
      BY <1>1, <1>2, <2>1 DEF l
    <2>2. CASE i # k
      BY <1>2, <2>2
    <2> QED
      BY <2>1, <2>2
  <1>11. \A path : HasCall(r, path) => HasCall(n, path)
    BY <1>2, <1>3 DEF HasCall
  <1> QED
    BY <1>9, <1>10, <1>11

(* A call that has read all returns to the one before it.                  *)
LEMMA LocalPop ==
  ASSUME NEW p \in Paths, NEW r, Local(p, r), r.status = "running",
         Last(r.calls).phase = "read", Front(r.calls) # <<>>,
         NEW n \in ProcRecs, n.calls = Front(r.calls),
         n.ends = r.ends \ {<<Last(r.calls).path, "r">>},
         n.status = r.status, n.parent = r.parent,
         NEW D, NEW K
  PROVE  /\ Local(p, n) /\ Narrows(r, n, D, K)
         /\ Last(n.calls).phase = "scan" /\ <<Last(n.calls).path, "w">> \in n.ends
         /\ \A i \in DOMAIN n.calls : i \in DOMAIN r.calls /\ n.calls[i] = r.calls[i]
         /\ \A path : HasCall(r, path) => path = Last(r.calls).path \/ HasCall(n, path)
  <1> DEFINE k == Len(r.calls)
             l == Last(r.calls)
  <1>1. /\ r.calls \in Seq(CallRecs) /\ r.calls # <<>> /\ k \in DOMAIN r.calls /\ l = r.calls[k]
        /\ l.path \in Paths /\ Len(p) <= Len(l.path)
        /\ DOMAIN r.calls = 1 .. k /\ k \in Nat
        /\ \A i \in DOMAIN r.calls : r.calls[i].path \in Paths
    BY LocalFacts
  <1>2. /\ Len(n.calls) = k - 1 /\ DOMAIN n.calls = 1 .. k - 1 /\ n.calls # <<>>
        /\ \A i \in 1 .. k - 1 : n.calls[i] = r.calls[i]
    BY <1>1, FrontFacts
  <1> HIDE DEF k, l
  <1>3. /\ DOMAIN n.calls \subseteq DOMAIN r.calls
        /\ \A i \in DOMAIN n.calls : n.calls[i] = r.calls[i] /\ i # k
        /\ 1 \in DOMAIN n.calls /\ k - 1 \in DOMAIN n.calls
    <2>1. n.calls \in Seq(CallRecs)
      BY DEF ProcRecs
    <2>2. Len(n.calls) # 0
      BY <1>2, <2>1
    <2> QED
      BY <1>1, <1>2, <2>2
  <1>4. Chained(p, n.calls)
    <2>1. Chained(p, r.calls)
      BY DEF Local
    <2>2. n.calls[1].path = p
      BY <1>1, <1>3, <2>1 DEF Chained
    <2>3. \A i \in DOMAIN n.calls : n.calls[i].phase = "scan"
      BY <1>3, <2>1 DEF Chained, k
    <2>4. \A i \in DOMAIN n.calls : Len(n.calls[i].path) = Len(p) + i - 1
      BY <1>3, <2>1 DEF Chained
    <2>5. \A i, j \in DOMAIN n.calls : i <= j => Below(n.calls[i].path, n.calls[j].path)
      BY <1>3, <2>1 DEF Chained
    <2> QED
      BY <2>2, <2>3, <2>4, <2>5 DEF Chained
  <1>5. \A i \in DOMAIN n.calls : r.calls[i].path # l.path /\ r.calls[i].phase = "scan"
    <2> SUFFICES ASSUME NEW i \in DOMAIN n.calls PROVE r.calls[i].path # l.path /\ r.calls[i].phase = "scan"
      OBVIOUS
    <2>1. Len(r.calls[i].path) = Len(p) + i - 1 /\ Len(l.path) = Len(p) + k - 1
      BY <1>1, <1>3 DEF Local, Chained
    <2>2. Len(p) \in Nat /\ i \in Nat /\ i # k
      BY <1>1, <1>3 DEF Paths
    <2>3. Len(r.calls[i].path) # Len(l.path)
      BY <1>1, <2>1, <2>2
    <2>4. r.calls[i].phase = "scan"
      BY <1>3, <2>2 DEF Local, Chained, k
    <2> QED
      BY <2>3, <2>4
  <1>6. l.phase = "read" /\ <<l.path, "w">> \notin r.ends /\ r.ends \in SUBSET (Paths \X {"r", "w"})
    BY <1>1 DEF Local, OwnEnds, l, ProcRecs
  <1>7. \A end \in n.ends : end \in r.ends /\ end[1] # l.path
    BY <1>6 DEF l
  <1>8. OwnEnds(p, n)
    <2>1. ASSUME NEW i \in DOMAIN n.calls
          PROVE  n.calls[i].phase = "scan" /\ <<n.calls[i].path, "w">> \in n.ends
      <3>1. i \in DOMAIN r.calls /\ n.calls[i] = r.calls[i] /\ r.calls[i].phase = "scan"
        BY <1>3, <1>5
      <3>2. <<r.calls[i].path, "w">> \in r.ends
        BY <3>1 DEF Local, OwnEnds
      <3> QED
        BY <3>1, <3>2
    <2>2. ASSUME NEW end \in n.ends
          PROVE  \/ \E i \in DOMAIN n.calls : n.calls[i].path = end[1] /\ n.calls[i].phase # "enter"
                 \/ Below(end[1], p) /\ Len(end[1]) < Len(p)
      <3>1. \/ \E i \in DOMAIN r.calls : r.calls[i].path = end[1] /\ r.calls[i].phase # "enter"
            \/ Below(end[1], p) /\ Len(end[1]) < Len(p)
        BY <1>7 DEF Local, OwnEnds
      <3>2. ASSUME NEW i \in DOMAIN r.calls, r.calls[i].path = end[1], r.calls[i].phase # "enter"
            PROVE  i \in DOMAIN n.calls /\ n.calls[i].path = end[1] /\ n.calls[i].phase # "enter"
        <4>1. i # k
          BY <1>1, <1>7, <3>2
        <4>2. i \in DOMAIN n.calls
          BY <1>1, <1>2, <4>1
        <4> QED
          BY <1>3, <3>2, <4>2
      <3> QED
        BY <3>1, <3>2
    <2> QED
      BY <2>1, <2>2 DEF OwnEnds
  <1>9. Inherited(p, n)
    BY DEF Local, Inherited, Lives
  <1>10. Local(p, n)
    <2>1. n.status = "running" /\ Lives(n)
      BY DEF Lives
    <2> QED
      BY <1>2, <1>4, <1>8, <1>9, <2>1 DEF Local
  <1>11. Narrows(r, n, D, K)
    BY <1>3 DEF Narrows
  <1>12. ASSUME NEW path, HasCall(r, path), path # l.path PROVE HasCall(n, path)
    <2>1. PICK i \in DOMAIN r.calls : r.calls[i].path = path
      BY <1>12 DEF HasCall
    <2>2. i \in DOMAIN n.calls
      BY <1>1, <1>2, <1>12, <2>1
    <2> QED
      BY <1>3, <2>1, <2>2 DEF HasCall
  <1>13. Last(n.calls).phase = "scan" /\ <<Last(n.calls).path, "w">> \in n.ends
    <2>1. Last(n.calls) = n.calls[Len(n.calls)]
      BY DEF Last
    <2>2. Len(n.calls) \in DOMAIN n.calls
      BY <1>2, <1>3
    <2>3. Last(n.calls).phase = "scan"
      BY <1>3, <1>5, <2>1, <2>2
    <2> QED
      BY <1>8, <2>1, <2>2, <2>3 DEF OwnEnds
  <1> QED
    BY <1>3, <1>10, <1>11, <1>12, <1>13 DEF l

(* A call in the middle of its scan follows a link.                        *)
LEMMA LocalPush ==
  ASSUME NEW p \in Paths, NEW r, Local(p, r), r.status = "running", Last(r.calls).phase = "scan",
         NEW e \in Entries, NEW target \in Entries,
         NEW n \in ProcRecs, n.calls = Append(r.calls, Call(Append(Last(r.calls).path, e), target)),
         n.ends = r.ends, n.status = r.status, n.parent = r.parent
  PROVE  /\ Local(p, n)
         /\ DOMAIN n.calls = DOMAIN r.calls \cup {Len(r.calls) + 1}
         /\ Len(r.calls) + 1 \notin DOMAIN r.calls
         /\ \A i \in DOMAIN r.calls : n.calls[i] = r.calls[i]
         /\ n.calls[Len(r.calls) + 1] = Call(Append(Last(r.calls).path, e), target)
         /\ \A path : HasCall(r, path) => HasCall(n, path)
  <1> DEFINE k == Len(r.calls)
             l == Last(r.calls)
             c == Call(Append(l.path, e), target)
  <1>1. /\ r.calls \in Seq(CallRecs) /\ r.calls # <<>> /\ k \in DOMAIN r.calls /\ l = r.calls[k]
        /\ l.path \in Paths /\ Len(p) <= Len(l.path) /\ Below(p, l.path)
        /\ DOMAIN r.calls = 1 .. k /\ k \in Nat
        /\ \A i \in DOMAIN r.calls : r.calls[i].path \in Paths
    BY LocalFacts
  <1>2. c \in CallRecs /\ c.path = Append(l.path, e) /\ c.phase = "enter" /\ c.path \in Paths
    BY <1>1, StepBelow DEF Call, CallRecs
  <1> HIDE DEF c
  <1>3. /\ Len(n.calls) = k + 1 /\ DOMAIN n.calls = DOMAIN r.calls \cup {k + 1}
        /\ n.calls[k + 1] = c /\ n.calls # <<>>
        /\ \A i \in DOMAIN r.calls : n.calls[i] = r.calls[i]
        /\ n.calls = Append(r.calls, c)
    <2>1. n.calls = Append(r.calls, c)
      BY DEF c
    <2> HIDE DEF k
    <2>2. k = Len(r.calls)
      BY DEF k
    <2> QED
      BY <1>1, <1>2, <2>1, <2>2, AppendFacts
  <1> HIDE DEF k, l
  <1>4. Chained(p, n.calls)
    <2>1. Chained(p, r.calls) /\ Len(p) \in Nat
      BY DEF Local, Paths
    <2>2. n.calls[1].path = p
      BY <1>1, <1>3, <2>1 DEF Chained
    <2>3. \A i \in DOMAIN n.calls : i # Len(n.calls) => n.calls[i].phase = "scan"
      <3>1. \A i \in DOMAIN r.calls : r.calls[i].phase = "scan"
        BY <1>1, <2>1 DEF Chained, k, l
      <3> QED
        BY <1>3, <3>1
    <2>4. \A i \in DOMAIN n.calls : Len(n.calls[i].path) = Len(p) + i - 1
      <3>1. \A i \in DOMAIN r.calls : Len(r.calls[i].path) = Len(p) + i - 1
        BY <2>1 DEF Chained
      <3>2. Len(l.path) = Len(p) + k - 1
        BY <1>1, <3>1
      <3>3. Len(c.path) = Len(l.path) + 1
        BY <1>1, <1>2, StepBelow
      <3>4. Len(c.path) = Len(p) + (k + 1) - 1
        BY <1>1, <2>1, <3>2, <3>3
      <3> QED
        BY <1>3, <3>1, <3>4
    <2>5. ASSUME NEW i \in DOMAIN n.calls, NEW j \in DOMAIN n.calls, i <= j
          PROVE  Below(n.calls[i].path, n.calls[j].path)
      <3>1. CASE i \in DOMAIN r.calls /\ j \in DOMAIN r.calls
        BY <1>3, <2>1, <2>5, <3>1 DEF Chained
      <3>2. CASE i \in DOMAIN r.calls /\ j = k + 1
        <4>1. Below(r.calls[i].path, l.path)
          BY SMTT(30), <1>1, <2>1, <3>2 DEF Chained
        <4>2. Below(l.path, c.path)
          BY <1>1, <1>2, StepBelow
        <4>3. Below(r.calls[i].path, c.path)
          BY <1>1, <1>2, <3>2, <4>1, <4>2, BelowFacts
        <4> QED
          BY <1>3, <3>2, <4>3
      <3>3. CASE i = k + 1
        <4>1. j = k + 1
          BY <1>1, <1>3, <2>5, <3>3
        <4> QED
          BY <1>2, <1>3, <3>3, <4>1, BelowFacts
      <3> QED
        BY <1>3, <3>1, <3>2, <3>3
    <2> QED
      BY <1>3, <2>2, <2>3, <2>4, <2>5 DEF Chained
  <1>5. OwnEnds(p, n)
    <2>1. OwnEnds(p, r)
      BY DEF Local
    <2>2. ASSUME NEW i \in DOMAIN n.calls
          PROVE  /\ n.calls[i].phase = "scan" => <<n.calls[i].path, "w">> \in n.ends
                 /\ n.calls[i].phase = "read" => <<n.calls[i].path, "w">> \notin n.ends
      BY <1>2, <1>3, <2>1 DEF OwnEnds
    <2>3. ASSUME NEW end \in n.ends
          PROVE  \/ \E i \in DOMAIN n.calls : n.calls[i].path = end[1] /\ n.calls[i].phase # "enter"
                 \/ Below(end[1], p) /\ Len(end[1]) < Len(p)
      BY <1>3, <2>1 DEF OwnEnds
    <2> QED
      BY <2>2, <2>3 DEF OwnEnds
  <1>6. Inherited(p, n)
    BY DEF Local, Inherited, Lives
  <1>7. Local(p, n)
    <2>1. n.status = "running" /\ Lives(n)
      BY DEF Lives
    <2> QED
      BY <1>3, <1>4, <1>5, <1>6, <2>1 DEF Local
  <1>8. \A path : HasCall(r, path) => HasCall(n, path)
    BY <1>3 DEF HasCall
  <1>9. k + 1 \notin DOMAIN r.calls
    BY <1>1
  <1> QED
    BY <1>3, <1>7, <1>8, <1>9 DEF c, k, l

(* A process with no call left: it reports, unless it is main, or it has   *)
(* written its size and lets go of all it has, or it has failed before.    *)
LEMMA LocalEnd ==
  ASSUME NEW p \in Paths, NEW r, Local(p, r), NEW D, NEW K,
         NEW n \in ProcRecs, n.calls = <<>>, n.parent = r.parent,
         n.status \in {"reporting", "written", "exited", "failed", "killed"},
         ~Lives(n) => n.ends = {},
         Lives(n) => /\ Lives(r) /\ n.ends = r.ends \ {<<p, "r">>} /\ <<p, "w">> \notin r.ends
                     /\ \A i \in DOMAIN r.calls : r.calls[i].path = p,
         p = <<>> => n.status \in {"exited", "failed"}
  PROVE  Local(p, n) /\ Narrows(r, n, D, K)
  <1>1. DOMAIN n.calls = {}
    OBVIOUS
  <1>2. Chained(p, n.calls)
    BY <1>1 DEF Chained
  <1>3. Narrows(r, n, D, K)
    BY <1>1 DEF Narrows
  <1>4. OwnEnds(p, n)
    <2>1. CASE ~Lives(n)
      BY <1>1, <2>1 DEF OwnEnds
    <2>2. CASE Lives(n)
      <3>1. r.ends \in SUBSET (Paths \X {"r", "w"})
        BY DEF Local, ProcRecs
      <3>2. ASSUME NEW end \in n.ends PROVE Below(end[1], p) /\ Len(end[1]) < Len(p)
        <4>1. end \in r.ends /\ end[1] # p
          BY <2>2, <3>1
        <4>2. \/ \E i \in DOMAIN r.calls : r.calls[i].path = end[1] /\ r.calls[i].phase # "enter"
              \/ Below(end[1], p) /\ Len(end[1]) < Len(p)
          BY <4>1 DEF Local, OwnEnds
        <4> QED
          BY <2>2, <4>1, <4>2
      <3> QED
        BY <1>1, <3>2 DEF OwnEnds
    <2> QED
      BY <2>1, <2>2
  <1>5. Inherited(p, n)
    BY DEF Local, Inherited
  <1> QED
    BY <1>2, <1>3, <1>4, <1>5 DEF Local

(* The child forked in a scan has the descriptors of its parent, but for   *)
(* the end to read from: all of pipes above it, its own yet to be made.    *)
LEMMA LocalChild ==
  ASSUME NEW p \in Paths, NEW r, Local(p, r), r.status = "running", Last(r.calls).phase = "scan",
         NEW e \in Entries,
         NEW n, n = Process(p, Append(Last(r.calls).path, e), e, r.ends \ {<<Last(r.calls).path, "r">>})
  PROVE  Local(Append(Last(r.calls).path, e), n)
  <1> DEFINE l == Last(r.calls)
             a == Append(l.path, e)
             c == Call(a, e)
  <1>1. /\ r.calls \in Seq(CallRecs) /\ r.calls # <<>> /\ Len(r.calls) \in DOMAIN r.calls
        /\ l = r.calls[Len(r.calls)]
        /\ l.path \in Paths /\ Len(p) <= Len(l.path) /\ Below(p, l.path)
        /\ DOMAIN r.calls = 1 .. Len(r.calls) /\ Len(r.calls) \in Nat
        /\ \A i \in DOMAIN r.calls : r.calls[i].path \in Paths
    BY LocalFacts
  <1>2. l.phase = "scan"
    OBVIOUS
  <1>3. /\ a \in Paths /\ Len(a) = Len(l.path) + 1 /\ a # <<>> /\ Below(l.path, a) /\ Front(a) = l.path
        /\ Len(l.path) \in Nat /\ Len(p) \in Nat
    <2>1. l.path \in Paths
      BY <1>1
    <2>2. Len(l.path) \in Nat /\ Len(p) \in Nat
      BY <2>1 DEF Paths
    <2> HIDE DEF l
    <2>3. /\ Append(l.path, e) \in Paths /\ Len(Append(l.path, e)) = Len(l.path) + 1
          /\ Append(l.path, e) # <<>>
          /\ Below(l.path, Append(l.path, e)) /\ Front(Append(l.path, e)) = l.path
      BY <2>1, StepBelow
    <2> QED
      BY <2>2, <2>3
  <1>4. c \in CallRecs /\ c.path = a /\ c.phase = "enter"
    BY <1>3 DEF Call, CallRecs
  <1>5. r.ends \in SUBSET (Paths \X {"r", "w"})
    BY DEF Local, ProcRecs
  <1>6. /\ n.parent = p /\ n.status = "running" /\ n.calls = <<c>>
        /\ n.ends = r.ends \ {<<l.path, "r">>} /\ n.size = 0
    BY DEF Process
  <1>7. n \in ProcRecs
    <2>1. n.calls \in Seq(CallRecs)
      <3>1. c \in CallRecs /\ n.calls = <<c>>
        BY <1>4, <1>6
      <3> HIDE DEF c
      <3>2. <<c>> \in Seq(CallRecs)
        BY <3>1
      <3> QED
        BY <3>1, <3>2
    <2> QED
      BY <1>5, <1>6, <2>1 DEF ProcRecs, Process
  <1> HIDE DEF c, a
  <1>8. DOMAIN n.calls = {1} /\ Len(n.calls) = 1 /\ n.calls[1] = c /\ n.calls # <<>>
    <2>1. DOMAIN <<c>> = {1} /\ Len(<<c>>) = 1 /\ <<c>>[1] = c /\ <<c>> # <<>>
      OBVIOUS
    <2> QED
      BY <1>6, <2>1
  <1>9. Chained(a, n.calls)
    <2>1. Len(a) = Len(a) + 1 - 1 /\ Below(a, a)
      BY <1>3, BelowFacts
    <2> QED
      BY <1>4, <1>8, <2>1 DEF Chained
  <1>10. ASSUME NEW end \in r.ends PROVE Below(end[1], a) /\ Len(end[1]) < Len(a)
    <2>1. \/ \E i \in DOMAIN r.calls : r.calls[i].path = end[1]
          \/ Below(end[1], p) /\ Len(end[1]) < Len(p)
      BY DEF Local, OwnEnds
    <2>2. end[1] \in Paths /\ Len(end[1]) \in Nat
      BY <1>5 DEF Paths
    <2>3. CASE \E i \in DOMAIN r.calls : r.calls[i].path = end[1]
      <3>1. PICK i \in DOMAIN r.calls : r.calls[i].path = end[1]
        BY <2>3
      <3>2. Below(end[1], l.path)
        <4>1. i <= Len(r.calls)
          BY <1>1
        <4> QED
          BY <1>1, <3>1, <4>1 DEF Local, Chained
      <3>3. Len(end[1]) <= Len(l.path)
        BY <1>1, <2>2, <3>2, BelowFacts
      <3> QED
        BY <1>1, <1>3, <2>2, <3>2, <3>3, BelowFacts
    <2>4. CASE Below(end[1], p) /\ Len(end[1]) < Len(p)
      <3>1. Below(end[1], l.path)
        BY <1>1, <2>2, <2>4, BelowFacts
      <3>2. Below(end[1], a)
        BY <1>1, <1>3, <2>2, <3>1, BelowFacts
      <3> QED
        BY <1>1, <1>3, <2>2, <2>4, <3>2
    <2> QED
      BY <2>1, <2>3, <2>4
  <1>11. OwnEnds(a, n)
    BY <1>4, <1>6, <1>8, <1>10 DEF OwnEnds
  <1>12. Inherited(a, n)
    <2>1. <<l.path, "w">> \in r.ends
      BY <1>1, <1>2 DEF Local, OwnEnds
    <2>2. <<<<>>, "w">> \in r.ends
      <3>1. CASE p = <<>>
        <4>0. 1 \in DOMAIN r.calls
          BY <1>1
        <4>1. 1 \in DOMAIN r.calls /\ r.calls[1].path = <<>> /\ r.calls[1].phase = "scan"
          <5>1. CASE Len(r.calls) = 1
            BY <1>1, <1>2, <3>1, <4>0, <5>1 DEF Local, Chained
          <5>2. CASE Len(r.calls) # 1
            BY <1>1, <3>1, <4>0, <5>2 DEF Local, Chained
          <5> QED
            BY <5>1, <5>2
        <4> QED
          BY <4>1 DEF Local, OwnEnds
      <3>2. CASE p # <<>>
        BY <3>2 DEF Local, Inherited, Lives
      <3> QED
        BY <3>1, <3>2
    <2> QED
      BY <1>3, <1>6, <2>1, <2>2 DEF Inherited
  <1>13. Local(a, n)
    BY <1>3, <1>6, <1>7, <1>8, <1>9, <1>11, <1>12 DEF Local, Lives
  <1> QED
    BY <1>13 DEF a, l

-----------------------------------------------------------------------------
(* All processes                                                           *)

(* What one more call leaves as it is: paths with nothing below them       *)
LEMMA StillUnseen ==
  ASSUME NEW P, NEW Q, NEW a, NEW x,
         DOMAIN Q \subseteq DOMAIN P \cup {a},
         \A q \in DOMAIN Q : \A j \in DOMAIN Q[q].calls :
           \/ Q[q].calls[j].path = a
           \/ q \in DOMAIN P /\ j \in DOMAIN P[q].calls /\ Q[q].calls[j].path = P[q].calls[j].path,
         Unseen(P, x), ~Below(x, a)
  PROVE  Unseen(Q, x)
  BY DEF Unseen

(* A step of one process that begins nothing new                           *)
LEMMA UpdateKeeps ==
  ASSUME NEW P, NEW D, NEW K, Good(P), Fresh(P), Unique(P), Covered(P, D, K),
         NEW p \in DOMAIN P, NEW r, NEW E, Local(p, r), Narrows(P[p], r, E, K), D \subseteq E
  PROVE  LET Q == [P EXCEPT ![p] = r]
         IN  Good(Q) /\ Fresh(Q) /\ Unique(Q) /\ Covered(Q, E, K)
  <1> DEFINE Q == [P EXCEPT ![p] = r]
  <1>1. /\ DOMAIN Q = DOMAIN P /\ Q = [q \in DOMAIN Q |-> Q[q]]
        /\ Q[p] = r /\ \A q \in DOMAIN P : q # p => Q[q] = P[q]
    BY DEF Good
  <1> HIDE DEF Q
  <1>2. ASSUME NEW q \in DOMAIN P
        PROVE  /\ Local(q, Q[q]) /\ Q[q].parent = P[q].parent
               /\ \A i \in DOMAIN Q[q].calls :
                    /\ i \in DOMAIN P[q].calls /\ Q[q].calls[i].path = P[q].calls[i].path
                    /\ Open(Q[q].calls[i]) \subseteq Open(P[q].calls[i])
                    /\ Q[q].calls[i].phase # "enter" =>
                         P[q].calls[i].phase # "enter" \/ Opened(Q[q].calls[i], E, K)
    <2>1. CASE q = p
      BY <1>1, <2>1 DEF Narrows
    <2>2. CASE q # p
      BY <1>1, <2>2 DEF Good
    <2> QED
      BY <2>1, <2>2
  <1>3. Good(Q)
    BY <1>1, <1>2 DEF Good
  <1>4. ASSUME NEW x, Unseen(P, x) PROVE Unseen(Q, x)
    <2> SUFFICES ASSUME NEW q \in DOMAIN P
                 PROVE  ~Below(x, q) /\ \A j \in DOMAIN Q[q].calls : ~Below(x, Q[q].calls[j].path)
      BY <1>1 DEF Unseen
    <2> QED
      BY <1>2, <1>4 DEF Unseen
  <1>5. Fresh(Q)
    <2> SUFFICES ASSUME NEW q \in DOMAIN P, NEW i \in DOMAIN Q[q].calls, NEW e \in Open(Q[q].calls[i])
                 PROVE  Unseen(Q, Append(Q[q].calls[i].path, e))
      BY <1>1 DEF Fresh
    <2>1. /\ i \in DOMAIN P[q].calls /\ e \in Open(P[q].calls[i])
          /\ Q[q].calls[i].path = P[q].calls[i].path
      BY <1>2
    <2>2. Unseen(P, Append(P[q].calls[i].path, e))
      BY <2>1 DEF Fresh
    <2> QED
      BY <1>4, <2>1, <2>2
  <1>6. Unique(Q)
    BY <1>1, <1>2 DEF Unique
  <1>7. Covered(Q, E, K)
    <2> SUFFICES ASSUME NEW q \in DOMAIN P, NEW i \in DOMAIN Q[q].calls, Q[q].calls[i].phase # "enter"
                 PROVE  Opened(Q[q].calls[i], E, K)
      BY <1>1 DEF Covered
    <2>1. CASE Opened(Q[q].calls[i], E, K)
      BY <2>1
    <2>2. CASE ~Opened(Q[q].calls[i], E, K)
      <3>1. /\ i \in DOMAIN P[q].calls /\ Q[q].calls[i].path = P[q].calls[i].path
            /\ Open(Q[q].calls[i]) \subseteq Open(P[q].calls[i]) /\ P[q].calls[i].phase # "enter"
        BY <1>2, <2>2
      <3>2. Opened(P[q].calls[i], D, K)
        BY <3>1 DEF Covered
      <3>3. Q[q].calls[i].todo \subseteq P[q].calls[i].todo
        BY <3>1 DEF Open
      <3> QED
        BY <3>1, <3>2, <3>3 DEF Opened
    <2> QED
      BY <2>1, <2>2
  <1> QED
    BY <1>3, <1>5, <1>6, <1>7 DEF Q

(* The step that begins a call does so at an entry the caller was yet to   *)
(* come to and now has passed: Q has all the calls P has and, as number j0 *)
(* of process q0, one with the path a that leads to that entry.            *)
Adds(P, Q, a, q0, j0) ==
  /\ DOMAIN Q \subseteq DOMAIN P \cup {a}
  /\ \A q \in DOMAIN Q : \A j \in DOMAIN Q[q].calls :
       \/ q = q0 /\ j = j0 /\ Q[q].calls[j].path = a /\ Open(Q[q].calls[j]) \subseteq Entries
       \/ q \in DOMAIN P /\ j \in DOMAIN P[q].calls /\ Q[q].calls[j] = P[q].calls[j]

(* Such a step leaves new what is yet to come, and no path two calls.      *)
LEMMA NewCallKeeps ==
  ASSUME NEW P, Good(P), Fresh(P), Unique(P),
         NEW p \in DOMAIN P, NEW i \in DOMAIN P[p].calls, NEW e \in Entries, e \notin Open(P[p].calls[i]),
         NEW a, a = Append(P[p].calls[i].path, e), Unseen(P, a),
         NEW Q, NEW q0, NEW j0, Adds(P, Q, a, q0, j0)
  PROVE  Fresh(Q) /\ Unique(Q)
  <1> USE DEF Adds
  <1> DEFINE path == P[p].calls[i].path
  <1>1. ASSUME NEW q \in DOMAIN P, NEW j \in DOMAIN P[q].calls
        PROVE  P[q].calls[j].path \in Paths /\ Open(P[q].calls[j]) \subseteq Entries
    <2>1. Local(q, P[q]) /\ q \in Paths
      BY DEF Good
    <2>2. P[q].calls[j] \in CallRecs
      BY <2>1, LocalFacts
    <2> QED
      BY <2>2 DEF CallRecs, Open
  <1>2. path \in Paths
    BY <1>1
  <1> HIDE DEF path
  <1>3. a \in Paths /\ a = Append(path, e)
    BY <1>2, StepBelow DEF path
  <1>4. ASSUME NEW f \in Entries PROVE Unseen(Q, Append(a, f))
    <2>1. ~Below(Append(a, f), a)
      <3> DEFINE b == Append(a, f)
      <3>1. b \in Paths /\ Len(b) = Len(a) + 1 /\ Len(a) \in Nat
        BY <1>3, StepBelow DEF Paths
      <3> HIDE DEF b
      <3>2. ~Below(b, a)
        <4>1. ~(Len(b) <= Len(a))
          BY <3>1
        <4> QED
          BY <4>1 DEF Below
      <3> QED
        BY <3>2 DEF b
    <2>2. \A t \in Paths : Below(Append(a, f), t) => Below(a, t)
      BY <1>3, StepBelow
    <2>3. Unseen(P, Append(a, f))
      <3> SUFFICES ASSUME NEW q \in DOMAIN P
                   PROVE  /\ ~Below(Append(a, f), q)
                          /\ \A j \in DOMAIN P[q].calls : ~Below(Append(a, f), P[q].calls[j].path)
        BY DEF Unseen
      <3>1. q \in Paths
        BY DEF Good
      <3> QED
        BY <1>1, <2>2, <3>1 DEF Unseen
    <2> DEFINE x == Append(a, f)
    <2>4. Unseen(P, x) /\ ~Below(x, a)
      BY <2>1, <2>3
    <2> HIDE DEF x
    <2>5. Unseen(Q, x)
      BY <2>4 DEF Unseen
    <2> QED
      BY <2>5 DEF x
  <1>5. ASSUME NEW q \in DOMAIN P, NEW j \in DOMAIN P[q].calls, NEW f \in Open(P[q].calls[j])
        PROVE  Unseen(Q, Append(P[q].calls[j].path, f))
    <2> DEFINE d == P[q].calls[j].path
               x == Append(d, f)
    <2>1. d \in Paths /\ f \in Entries
      BY <1>1
    <2>2. Unseen(P, x)
      BY DEF Fresh
    <2>3. ~Below(x, a)
      <3>1. SUFFICES ASSUME Below(x, a) PROVE FALSE
        OBVIOUS
      <3> HIDE DEF d
      <3>2. Below(Append(d, f), path) \/ (d = path /\ f = e)
        BY <1>2, <1>3, <2>1, <3>1, StepBelow
      <3>3. ~Below(Append(d, f), path)
        BY <2>2 DEF Unseen, path
      <3>4. d = path /\ f = e
        BY <3>2, <3>3
      <3>5. q = p /\ j = i
        BY <3>4 DEF Unique, d, path
      <3> QED
        BY <3>4, <3>5
    <2> HIDE DEF x
    <2>4. Unseen(Q, x)
      BY <2>2, <2>3 DEF Unseen
    <2> QED
      BY <2>4 DEF x
  <1>6. Fresh(Q)
    <2> SUFFICES ASSUME NEW q \in DOMAIN Q, NEW j \in DOMAIN Q[q].calls, NEW f \in Open(Q[q].calls[j])
                 PROVE  Unseen(Q, Append(Q[q].calls[j].path, f))
      BY DEF Fresh
    <2>1. CASE Q[q].calls[j].path = a /\ Open(Q[q].calls[j]) \subseteq Entries
      BY <1>4, <2>1
    <2>2. CASE q \in DOMAIN P /\ j \in DOMAIN P[q].calls /\ Q[q].calls[j] = P[q].calls[j]
      BY <1>5, <2>2
    <2> QED
      BY <2>1, <2>2
  <1>7. ASSUME NEW q \in DOMAIN P, NEW j \in DOMAIN P[q].calls PROVE P[q].calls[j].path # a
    <2>1. ~Below(a, P[q].calls[j].path)
      BY DEF Unseen
    <2>2. Below(a, a)
      BY <1>3, BelowFacts
    <2> QED
      BY <2>1, <2>2
  <1>8. Unique(Q)
    <2> SUFFICES ASSUME NEW q \in DOMAIN Q, NEW u \in DOMAIN Q,
                        NEW j \in DOMAIN Q[q].calls, NEW k \in DOMAIN Q[u].calls,
                        Q[q].calls[j].path = Q[u].calls[k].path
                 PROVE  q = u /\ j = k
      BY DEF Unique
    <2>1. CASE Q[q].calls[j].path = a
      <3>1. q = q0 /\ j = j0
        BY <1>7, <2>1
      <3>2. u = q0 /\ k = j0
        BY <1>7, <2>1
      <3> QED
        BY <3>1, <3>2
    <2>2. CASE Q[q].calls[j].path # a
      <3>1. q \in DOMAIN P /\ j \in DOMAIN P[q].calls /\ Q[q].calls[j] = P[q].calls[j]
        BY <2>2
      <3>2. u \in DOMAIN P /\ k \in DOMAIN P[u].calls /\ Q[u].calls[k] = P[u].calls[k]
        BY <2>2
      <3> QED
        BY <3>1, <3>2 DEF Unique
    <2> QED
      BY <2>1, <2>2
  <1> QED
    BY <1>6, <1>8

(* Nobody is left waiting for by a step that leaves a call only when it    *)
(* has no child, and main is the last.                                     *)
LEMMA UpdateWaits ==
  ASSUME NEW P, Good(P), Waits(P), Done(P),
         NEW p \in DOMAIN P, NEW r, Lives(P[p]), r.parent = P[p].parent,
         \/ r.status = "failed"
         \/ \A q \in DOMAIN P \ {<<>>} : Lives(P[q]) /\ P[q].parent = p /\ HasCall(P[p], Front(q)) =>
              HasCall(r, Front(q)),
         p = <<>> /\ r.status = "exited" => \A q \in DOMAIN P \ {<<>>} : ~Lives(P[q])
  PROVE  LET Q == [P EXCEPT ![p] = r]
         IN  Waits(Q) /\ Done(Q)
  <1> DEFINE Q == [P EXCEPT ![p] = r]
  <1>1. /\ DOMAIN Q = DOMAIN P /\ Q[p] = r /\ \A q \in DOMAIN P : q # p => Q[q] = P[q]
        /\ <<>> \in DOMAIN P
    BY DEF Good
  <1> HIDE DEF Q
  <1>2. \A q \in DOMAIN P : Lives(Q[q]) => Lives(P[q])
    BY <1>1
  <1>3. \A q \in DOMAIN P : Q[q].parent = P[q].parent /\ P[q].parent \in DOMAIN P
    BY <1>1 DEF Good
  <1>4. Waits(Q)
    <2> SUFFICES ASSUME NEW q \in DOMAIN P \ {<<>>}, Lives(P[q])
                 PROVE  Q[P[q].parent].status = "failed" \/ HasCall(Q[P[q].parent], Front(q))
      BY <1>1, <1>2, <1>3 DEF Waits
    <2>1. P[P[q].parent].status = "failed" \/ HasCall(P[P[q].parent], Front(q))
      BY DEF Waits
    <2>2. CASE P[q].parent = p
      BY <1>1, <2>1, <2>2 DEF Lives
    <2>3. CASE P[q].parent # p
      BY <1>1, <1>3, <2>1, <2>3
    <2> QED
      BY <2>2, <2>3
  <1>5. Done(Q)
    <2> SUFFICES ASSUME Q[<<>>].status = "exited" PROVE \A q \in DOMAIN P : ~Lives(Q[q])
      BY <1>1 DEF Done
    <2>1. CASE p = <<>>
      BY <1>1, <1>2, <2>1 DEF Lives
    <2>2. CASE p # <<>>
      BY <1>1, <2>2 DEF Done
    <2> QED
      BY <2>1, <2>2
  <1> QED
    BY <1>4, <1>5 DEF Q

-----------------------------------------------------------------------------
(* The steps                                                               *)

(* What the disk and the process that takes a step have                    *)
LEMMA StateFacts ==
  ASSUME IInv
  PROVE  /\ disk \in Disks /\ DOMAIN disk.size \subseteq Entries
         /\ disk.size \in [DOMAIN disk.size -> Nat]
         /\ \A dir \in DOMAIN disk.in : dir \in DOMAIN disk.size /\ disk.in[dir] \subseteq DOMAIN disk.size
         /\ \A p \in DOMAIN procs : p \in Paths /\ Local(p, procs[p])
         /\ <<>> \in DOMAIN procs
  <1>1. disk \in Disks
    BY DEF IInv
  <1>2. DOMAIN disk.size \subseteq Entries
    BY <1>1 DEF Entries
  <1>3. /\ disk.size \in [DOMAIN disk.size -> Nat]
        /\ \A dir \in DOMAIN disk.in : {dir} \cup disk.in[dir] \subseteq DOMAIN disk.size
    BY <1>1, DirSizeAssumption
  <1> QED
    BY <1>1, <1>2, <1>3 DEF IInv, Sound, Good

(* A step of a process that makes no other and keeps its calls' paths      *)
LEMMA StepKeeps ==
  ASSUME NEW P, NEW D, NEW K, Sound(P, D, K),
         NEW p \in DOMAIN P, NEW r, NEW E, Local(p, r), Narrows(P[p], r, E, K), D \subseteq E,
         Lives(P[p]),
         \/ r.status = "failed"
         \/ \A q \in DOMAIN P \ {<<>>} : Lives(P[q]) /\ P[q].parent = p /\ HasCall(P[p], Front(q)) =>
              HasCall(r, Front(q)),
         p = <<>> /\ r.status = "exited" => \A q \in DOMAIN P \ {<<>>} : ~Lives(P[q])
  PROVE  Sound([P EXCEPT ![p] = r], E, K)
  <1>1. Good(P) /\ Fresh(P) /\ Unique(P) /\ Covered(P, D, K) /\ Waits(P) /\ Done(P)
    BY DEF Sound
  <1> DEFINE Q == [P EXCEPT ![p] = r]
  <1>2. Good(Q) /\ Fresh(Q) /\ Unique(Q) /\ Covered(Q, E, K)
    BY <1>1, UpdateKeeps
  <1>3. r.parent = P[p].parent
    BY DEF Narrows
  <1>4. Waits(Q) /\ Done(Q)
    BY <1>1, <1>3, UpdateWaits
  <1> QED
    BY <1>2, <1>4 DEF Sound

(* The call that process p is in goes on, as c.                            *)
LEMMA CallGoesOn ==
  ASSUME NEW P, NEW D, NEW K, Sound(P, D, K),
         NEW p \in DOMAIN P, P[p].status = "running",
         NEW c, c \in CallRecs, c.path = Last(P[p].calls).path, c.phase \in {"scan", "read"},
         Open(c) \subseteq Open(Last(P[p].calls)),
         NEW n, n \in ProcRecs, n.calls = Append(Front(P[p].calls), c),
         n.status = P[p].status, n.parent = P[p].parent,
         c.phase = "scan" => <<c.path, "w">> \in n.ends,
         c.phase = "read" => <<c.path, "w">> \notin n.ends,
         \A end \in Paths \X {"r", "w"} : end[1] # c.path => (end \in n.ends <=> end \in P[p].ends),
         NEW E, D \subseteq E, Last(P[p].calls).phase = "enter" => Opened(c, E, K)
  PROVE  Local(p, n) /\ Narrows(P[p], n, E, K) /\ Sound([P EXCEPT ![p] = n], E, K)
  <1> DEFINE r == P[p]
  <1>1. p \in Paths /\ Local(p, r)
    BY DEF Sound, Good
  <1>2. /\ Local(p, n) /\ Narrows(r, n, E, K)
        /\ \A path : HasCall(r, path) => HasCall(n, path)
    <2> HIDE DEF r
    <2>1. /\ r.status = "running" /\ c.path = Last(r.calls).path /\ Open(c) \subseteq Open(Last(r.calls))
          /\ n.calls = Append(Front(r.calls), c) /\ n.status = r.status /\ n.parent = r.parent
          /\ \A end \in Paths \X {"r", "w"} : end[1] # c.path => (end \in n.ends <=> end \in r.ends)
          /\ Last(r.calls).phase = "enter" => Opened(c, E, K)
      BY DEF r
    <2> QED
      BY <1>1, <2>1, LocalLast
  <1>3. Lives(r) /\ n.status # "exited"
    BY DEF Lives
  <1>4. Sound([P EXCEPT ![p] = n], E, K)
    BY <1>2, <1>3, StepKeeps
  <1> QED
    BY <1>2, <1>4

(* A process that ends when no call of it is left, or fails                *)
LEMMA EndKeeps ==
  ASSUME NEW P, NEW D, NEW K, Sound(P, D, K), NEW p \in DOMAIN P, Lives(P[p]),
         NEW n, n \in ProcRecs, n.calls = <<>>, n.ends = {}, n.parent = P[p].parent,
         n.status \in {"exited", "failed", "killed"},
         n.status # "failed" => P[p].calls = <<>> /\ p # <<>>
  PROVE  Sound([P EXCEPT ![p] = n], D, K)
  <1> DEFINE r == P[p]
  <1>1. p \in Paths /\ Local(p, r)
    BY DEF Sound, Good
  <1>2. ~Lives(n)
    BY DEF Lives
  <1>3. Local(p, n) /\ Narrows(r, n, D, K)
    <2>1. n.status \in {"reporting", "written", "exited", "failed", "killed"} /\ n.parent = r.parent
      OBVIOUS
    <2>2. p = <<>> => n.status \in {"exited", "failed"}
      OBVIOUS
    <2> HIDE DEF r
    <2> QED
      BY <1>1, <1>2, <2>1, <2>2, LocalEnd
  <1>4. n.status = "failed" \/ \A path : ~HasCall(r, path)
    BY DEF HasCall
  <1>5. ~(p = <<>> /\ n.status = "exited")
    OBVIOUS
  <1> QED
    BY <1>2, <1>3, <1>4, <1>5, StepKeeps

(* What is left of a process that ends                                     *)
LEMMA EndedFacts ==
  ASSUME NEW p, procs[p] \in ProcRecs, NEW how \in {"exited", "failed", "killed"}
  PROVE  /\ Ended(p, how) \in ProcRecs /\ Ended(p, how).calls = <<>> /\ Ended(p, how).ends = {}
         /\ Ended(p, how).parent = procs[p].parent /\ Ended(p, how).status = how
  <1> DEFINE r == procs[p]
             n == [r EXCEPT !.status = how, !.calls = << >>, !.ends = {}, !.size = 0]
  <1>1. r \in ProcRecs /\ <<>> \in Seq(CallRecs)
    OBVIOUS
  <1>2. /\ n \in ProcRecs /\ n.calls = <<>> /\ n.parent = r.parent /\ n.status = how /\ n.ends = {}
    <2> HIDE DEF r
    <2> QED
      BY <1>1 DEF ProcRecs
  <1>3. Ended(p, how) = n
    BY DEF Ended
  <1> HIDE DEF n
  <1> QED
    BY <1>2, <1>3

(* A running process may fail.                                             *)
LEMMA FailKeeps ==
  ASSUME IInv, NEW p \in DOMAIN procs, procs[p].status = "running", fail(p)
  PROVE  IInv'
  <1>1. Lives(procs[p]) /\ Sound(procs, DOMAIN pipes, DOMAIN disk.size)
    BY DEF Lives, IInv
  <1>2. Sound([procs EXCEPT ![p] = Ended(p, "failed")], DOMAIN pipes, DOMAIN disk.size)
    <2> DEFINE n == Ended(p, "failed")
    <2>1. procs[p] \in ProcRecs
      BY StateFacts DEF Local
    <2>2. /\ n \in ProcRecs /\ n.calls = <<>> /\ n.parent = procs[p].parent
          /\ n.status = "failed" /\ n.ends = {}
      BY <2>1, EndedFacts
    <2> HIDE DEF n
    <2>3. Sound([procs EXCEPT ![p] = n], DOMAIN pipes, DOMAIN disk.size)
      <3> DEFINE D == DOMAIN pipes
                 K == DOMAIN disk.size
      <3>1. Sound(procs, D, K)
        BY <1>1
      <3> HIDE DEF D, K
      <3>2. /\ Lives(procs[p]) /\ n.status \in {"exited", "failed", "killed"}
            /\ n.status # "failed" => procs[p].calls = <<>> /\ p # <<>>
        BY <1>1, <2>2
      <3>3. Sound([procs EXCEPT ![p] = n], D, K)
        BY <2>2, <3>1, <3>2, EndKeeps
      <3> QED
        BY <3>3 DEF D, K
    <2> QED
      BY <2>3 DEF n
  <1>3. Sound(procs', DOMAIN pipes', DOMAIN disk'.size)
    BY <1>2 DEF fail
  <1>4. PipeInv'
    BY DEF IInv, PipeInv, fail
  <1> QED
    BY <1>3, <1>4 DEF IInv, fail

(* What the current call of a running process has                          *)
LEMMA CurrentFacts ==
  ASSUME IInv, NEW p \in DOMAIN procs, procs[p].status = "running"
  PROVE  /\ p \in Paths /\ Local(p, procs[p]) /\ procs[p] \in ProcRecs
         /\ procs[p].calls \in Seq(CallRecs) /\ procs[p].calls # <<>>
         /\ procs[p].ends \in SUBSET (Paths \X {"r", "w"})
         /\ Len(procs[p].calls) \in DOMAIN procs[p].calls
         /\ Current(p) = Last(procs[p].calls) /\ Current(p) = procs[p].calls[Len(procs[p].calls)]
         /\ Current(p) \in CallRecs /\ Current(p).path \in Paths
         /\ Current(p).dirSize \in Nat /\ Current(p).todo \subseteq Entries
         /\ Current(p).phase # "enter" =>
              Current(p).path \in DOMAIN pipes /\ Current(p).todo \subseteq DOMAIN disk.size
         /\ Current(p).phase = "scan" => <<Current(p).path, "w">> \in procs[p].ends
         /\ Current(p).phase = "read" => <<Current(p).path, "w">> \notin procs[p].ends
  <1>1. p \in Paths /\ Local(p, procs[p]) /\ Covered(procs, DOMAIN pipes, DOMAIN disk.size)
    BY DEF IInv, Sound, Good
  <1> DEFINE r == procs[p]
  <1>2. /\ r \in ProcRecs /\ r.calls \in Seq(CallRecs) /\ r.ends \in SUBSET (Paths \X {"r", "w"})
        /\ r.calls # <<>> /\ Len(r.calls) \in DOMAIN r.calls
        /\ Last(r.calls) = r.calls[Len(r.calls)] /\ Last(r.calls) \in CallRecs
        /\ Last(r.calls).path \in Paths
    <2> HIDE DEF r
    <2>1. Local(p, r) /\ r.status = "running"
      BY <1>1 DEF r
    <2> QED
      BY <1>1, <2>1, LocalFacts
  <1>3. Last(r.calls).dirSize \in Nat /\ Last(r.calls).todo \subseteq Entries
    BY <1>2 DEF CallRecs
  <1>4. Last(r.calls).phase # "enter" =>
          Last(r.calls).path \in DOMAIN pipes /\ Last(r.calls).todo \subseteq DOMAIN disk.size
    BY <1>1, <1>2 DEF Covered, Opened
  <1>5. /\ Last(r.calls).phase = "scan" => <<Last(r.calls).path, "w">> \in r.ends
        /\ Last(r.calls).phase = "read" => <<Last(r.calls).path, "w">> \notin r.ends
    BY <1>1, <1>2 DEF Local, OwnEnds
  <1> QED
    BY <1>1, <1>2, <1>3, <1>4, <1>5 DEF Current

(* The size of the directory itself, opendir, pipe                         *)
LEMMA EnterKeeps ==
  ASSUME IInv, NEW p \in DOMAIN procs, enter(p)
  PROVE  IInv'
  <1> DEFINE r == procs[p]
             call == Current(p)
             c == [call EXCEPT !.phase = "scan", !.todo = disk.in[call.dir], !.dirSize = OwnSize(call.dir)]
             n == [WithCurrent(p, c) EXCEPT !.ends = @ \cup {<<call.path, "r">>, <<call.path, "w">>}]
             D == DOMAIN pipes
             E == DOMAIN pipes \cup {call.path}
             K == DOMAIN disk.size
  <1>1. r.status = "running" /\ call.phase = "enter"
    BY DEF enter, InPhase
  <1>2. /\ p \in Paths /\ r \in ProcRecs
        /\ r.calls \in Seq(CallRecs) /\ r.calls # <<>> /\ r.ends \in SUBSET (Paths \X {"r", "w"})
        /\ call = Last(r.calls) /\ call \in CallRecs /\ call.path \in Paths
    BY <1>1, CurrentFacts
  <1>3. CASE fail(p)
    BY <1>1, <1>3, FailKeeps
  <1>4. CASE /\ IsDir(call.dir)
             /\ procs' = [procs EXCEPT ![p] = n]
             /\ pipes' = With(pipes, call.path, << >>)
             /\ UNCHANGED <<program, disk, misled>>
    <2>1. disk.in[call.dir] \subseteq Entries /\ disk.in[call.dir] \subseteq K /\ OwnSize(call.dir) \in Nat
      <3>1. call.dir \in DOMAIN disk.in
        BY <1>4 DEF IsDir
      <3> QED
        BY <3>1, StateFacts DEF OwnSize
    <2>2. /\ c \in CallRecs /\ c.path = call.path /\ c.phase = "scan"
          /\ Open(call) = Entries /\ Open(c) = c.todo /\ c.todo \subseteq Entries /\ c.todo \subseteq K
      <3> HIDE DEF call, K
      <3> QED
        BY <1>1, <1>2, <2>1 DEF CallRecs, Open
    <2> HIDE DEF c
    <2>3. Append(Front(r.calls), c) \in Seq(CallRecs)
      <3> HIDE DEF r
      <3> QED
        BY <1>2, <2>2, ReplacedLast
    <2>4. /\ n \in ProcRecs /\ n.calls = Append(Front(r.calls), c)
          /\ n.status = r.status /\ n.parent = r.parent
          /\ n.ends = r.ends \cup {<<call.path, "r">>, <<call.path, "w">>}
      <3> DEFINE m == [r EXCEPT !.calls = Append(Front(@), c)]
      <3>1. /\ m \in ProcRecs /\ m.calls = Append(Front(r.calls), c)
            /\ m.status = r.status /\ m.parent = r.parent /\ m.ends = r.ends
        <4> HIDE DEF r
        <4> QED
          BY <1>2, <2>3 DEF ProcRecs
      <3>2. n = [m EXCEPT !.ends = m.ends \cup {<<call.path, "r">>, <<call.path, "w">>}]
        BY DEF WithCurrent
      <3>3. {<<call.path, "r">>, <<call.path, "w">>} \subseteq Paths \X {"r", "w"}
        BY <1>2
      <3> HIDE DEF m, n, call
      <3> QED
        BY <3>1, <3>2, <3>3 DEF ProcRecs
    <2> HIDE DEF n
    <2>5. \A end \in Paths \X {"r", "w"} : end[1] # c.path => (end \in n.ends <=> end \in r.ends)
      BY <2>2, <2>4
    <2>6. <<c.path, "w">> \in n.ends
      BY <2>2, <2>4
    <2>7. Sound([procs EXCEPT ![p] = n], E, K)
      <3>1. Sound(procs, D, K) /\ D \subseteq E /\ Opened(c, E, K)
        BY <2>2 DEF IInv, Opened
      <3>2. Open(c) \subseteq Open(Last(procs[p].calls)) /\ c.path = Last(procs[p].calls).path
        BY <1>2, <2>2
      <3> HIDE DEF E, D, K
      <3> QED
        BY <1>1, <2>2, <2>4, <2>5, <2>6, <3>1, <3>2, CallGoesOn
    <2>8. DOMAIN pipes' = E
      BY <1>4 DEF With
    <2>9. PipeInv'
      <3>1. /\ pipes' = [path \in DOMAIN pipes' |-> pipes'[path]]
            /\ \A path \in E : pipes'[path] = IF path = call.path THEN << >> ELSE pipes[path]
        BY <1>4 DEF With
      <3>2. Capacity \in Nat
        BY DirSizeAssumption
      <3>3. <<>> \in Seq(Nat) /\ Len(<<>>) <= Capacity
        BY <3>2
      <3> QED
        BY <2>8, <3>1, <3>3 DEF PipeInv, IInv
    <2> QED
      BY <1>4, <2>7, <2>8, <2>9 DEF IInv
  <1> QED
    BY <1>3, <1>4 DEF enter

(* The current call of a process, changed: what the process is then        *)
LEMMA WithCurrentFacts ==
  ASSUME IInv, NEW p \in DOMAIN procs, procs[p].status = "running", NEW c \in CallRecs
  PROVE  /\ WithCurrent(p, c) \in ProcRecs
         /\ WithCurrent(p, c).calls = Append(Front(procs[p].calls), c)
         /\ WithCurrent(p, c).calls \in Seq(CallRecs)
         /\ WithCurrent(p, c).status = "running" /\ WithCurrent(p, c).parent = procs[p].parent
         /\ WithCurrent(p, c).ends = procs[p].ends
         /\ Last(WithCurrent(p, c).calls) = c
         /\ Len(WithCurrent(p, c).calls) = Len(procs[p].calls)
         /\ Len(procs[p].calls) \in DOMAIN WithCurrent(p, c).calls
         /\ WithCurrent(p, c).calls[Len(procs[p].calls)] = c
  <1> DEFINE r == procs[p]
             s == Append(Front(r.calls), c)
             m == [r EXCEPT !.calls = Append(Front(@), c)]
  <1>1. /\ r \in ProcRecs /\ r.calls \in Seq(CallRecs) /\ r.calls # <<>> /\ r.status = "running"
        /\ Len(r.calls) \in DOMAIN r.calls
    BY CurrentFacts
  <1>2. /\ s \in Seq(CallRecs) /\ Len(s) = Len(r.calls) /\ s[Len(r.calls)] = c
        /\ s # <<>> /\ DOMAIN s = DOMAIN r.calls
    <2> HIDE DEF r
    <2> QED
      BY <1>1, ReplacedLast
  <1>3. Last(s) = c
    BY <1>2 DEF Last
  <1> HIDE DEF s
  <1>4. /\ m \in ProcRecs /\ m.calls = s /\ m.status = "running" /\ m.parent = r.parent /\ m.ends = r.ends
    <2>1. m = [r EXCEPT !.calls = s]
      BY DEF s
    <2> HIDE DEF r, m
    <2> QED
      BY <1>1, <1>2, <2>1 DEF ProcRecs
  <1>5. WithCurrent(p, c) = m
    BY DEF WithCurrent
  <1> HIDE DEF m
  <1> QED
    BY <1>1, <1>2, <1>3, <1>4, <1>5 DEF s

(* readdir has come to an entry.                                           *)
LEMMA PassedKeeps ==
  ASSUME IInv, NEW p \in DOMAIN procs, InPhase(p, "scan"), NEW e, NEW added \in Nat
  PROVE  LET n == Passed(p, e, added)
         IN  /\ Local(p, n) /\ Sound([procs EXCEPT ![p] = n], DOMAIN pipes, DOMAIN disk.size)
             /\ Narrows(procs[p], n, DOMAIN pipes, DOMAIN disk.size)
             /\ n.calls \in Seq(CallRecs) /\ n \in ProcRecs
             /\ n.status = "running" /\ n.parent = procs[p].parent /\ n.ends = procs[p].ends
             /\ Last(n.calls).phase = "scan" /\ Last(n.calls).path = Current(p).path
             /\ Open(Last(n.calls)) = Current(p).todo \ {e}
             /\ Len(n.calls) \in DOMAIN n.calls /\ Last(n.calls) = n.calls[Len(n.calls)]
  <1> DEFINE call == Current(p)
             c == [call EXCEPT !.todo = @ \ {e}, !.dirSize = @ + added]
             n == Passed(p, e, added)
             D == DOMAIN pipes
             K == DOMAIN disk.size
  <1>1. procs[p].status = "running" /\ call.phase = "scan"
    BY DEF InPhase
  <1>2. /\ call \in CallRecs /\ call = Last(procs[p].calls) /\ <<call.path, "w">> \in procs[p].ends
        /\ call.path \in D
    BY <1>1, CurrentFacts
  <1>3. n = WithCurrent(p, c)
    BY DEF Passed
  <1>4. /\ c \in CallRecs /\ c.path = call.path /\ c.phase = "scan" /\ Open(c) = call.todo \ {e}
        /\ Open(c) \subseteq Open(call)
    <2>1. c = [call EXCEPT !.todo = call.todo \ {e}, !.dirSize = call.dirSize + added]
      OBVIOUS
    <2>2. call.dirSize \in Nat /\ call.dirSize + added \in Nat
      BY <1>2 DEF CallRecs
    <2> DEFINE x == call.dirSize + added
    <2> HIDE DEF call, c, x
    <2>3. /\ c \in CallRecs /\ c.path = call.path /\ c.phase = "scan" /\ c.todo = call.todo \ {e}
      BY <1>1, <1>2, <2>1, <2>2 DEF CallRecs, x
    <2> QED
      BY <1>1, <2>3 DEF Open
  <1> HIDE DEF c, n
  <1>5. /\ n \in ProcRecs /\ n.calls = Append(Front(procs[p].calls), c) /\ n.calls \in Seq(CallRecs)
        /\ n.status = procs[p].status /\ n.parent = procs[p].parent /\ n.ends = procs[p].ends
        /\ Last(n.calls) = c /\ Len(n.calls) \in DOMAIN n.calls /\ c = n.calls[Len(n.calls)]
    BY <1>1, <1>3, <1>4, WithCurrentFacts
  <1>6. Local(p, n) /\ Narrows(procs[p], n, D, K) /\ Sound([procs EXCEPT ![p] = n], D, K)
    <2>1. Sound(procs, D, K) /\ D \subseteq D
      BY DEF IInv
    <2>0. Last(procs[p].calls).phase # "enter"
      BY <1>1, <1>2
    <2>2. Open(c) \subseteq Open(Last(procs[p].calls)) /\ c.path = Last(procs[p].calls).path
      BY <1>2, <1>4
    <2>3. \A end \in Paths \X {"r", "w"} : end[1] # c.path => (end \in n.ends <=> end \in procs[p].ends)
      BY <1>5
    <2>4. <<c.path, "w">> \in n.ends
      BY <1>2, <1>4, <1>5
    <2> HIDE DEF D, K
    <2> QED
      BY <1>1, <1>4, <1>5, <2>0, <2>1, <2>2, <2>3, <2>4, CallGoesOn
  <1> QED
    BY <1>1, <1>4, <1>5, <1>6 DEF n

(* A step that changes nothing but processes                               *)
LEMMA OnlyProcs ==
  ASSUME IInv, UNCHANGED <<disk, pipes>>, misled' \in BOOLEAN, Sound(procs', DOMAIN pipes, DOMAIN disk.size)
  PROVE  IInv'
  BY DEF IInv, PipeInv

(* An entry that no call and no process is begun for                       *)
LEMMA EntryKeeps ==
  ASSUME IInv, NEW p \in DOMAIN procs, InPhase(p, "scan"), NEW e \in Current(p).todo,
         add_file(p, e) \/ skip_other(p, e) \/ add_link(p, e)
  PROVE  IInv'
  <1>1. e \in DOMAIN disk.size
    BY CurrentFacts DEF InPhase
  <1>2. ASSUME NEW added \in Nat, procs' = [procs EXCEPT ![p] = Passed(p, e, added)],
               UNCHANGED <<disk, pipes>>, misled' \in BOOLEAN
        PROVE  IInv'
    <2>1. Sound([procs EXCEPT ![p] = Passed(p, e, added)], DOMAIN pipes, DOMAIN disk.size)
      BY PassedKeeps
    <2> QED
      BY <1>2, <2>1, OnlyProcs
  <1>3. misled \in BOOLEAN
    BY DEF IInv
  <1>4. CASE add_file(p, e)
    <2>1. disk.size[e] \in Nat
      BY <1>1, StateFacts
    <2> QED
      BY <1>2, <1>3, <1>4, <2>1 DEF add_file
  <1>5. CASE skip_other(p, e)
    BY <1>2, <1>3, <1>5 DEF skip_other
  <1>6. CASE add_link(p, e)
    <2>1. PICK target \in DOMAIN disk.size :
            ReadLink(e, target) /\ procs' = [procs EXCEPT ![p] = Passed(p, e, disk.size[target])]
      BY <1>6 DEF add_link
    <2>2. disk.size[target] \in Nat
      BY StateFacts
    <2>3. misled' \in BOOLEAN /\ UNCHANGED <<disk, pipes>>
      BY <1>3, <1>6, <2>1 DEF ReadLink, add_link
    <2> QED
      BY <1>2, <2>1, <2>2, <2>3
  <1> QED
    BY <1>4, <1>5, <1>6

(* The end of the scan: the call closes the end to write to.               *)
LEMMA StopKeeps ==
  ASSUME IInv, NEW p \in DOMAIN procs, stop_scanning(p)
  PROVE  IInv'
  <1> DEFINE call == Current(p)
             c == [call EXCEPT !.phase = "read"]
             m == WithCurrent(p, c)
             n == [m EXCEPT !.ends = @ \ {<<call.path, "w">>}]
             D == DOMAIN pipes
             K == DOMAIN disk.size
  <1>1. procs[p].status = "running" /\ call.phase = "scan"
    BY DEF InPhase, stop_scanning
  <1>2. /\ call \in CallRecs /\ call = Last(procs[p].calls) /\ <<call.path, "w">> \in procs[p].ends
        /\ procs[p].ends \in SUBSET (Paths \X {"r", "w"})
    BY <1>1, CurrentFacts
  <1>3. /\ c \in CallRecs /\ c.path = call.path /\ c.phase = "read"
        /\ Open(c) \subseteq Open(call)
    <2> HIDE DEF call
    <2>1. /\ c \in CallRecs /\ c.path = call.path /\ c.phase = "read" /\ c.todo = call.todo
      BY <1>1, <1>2 DEF CallRecs
    <2> QED
      BY <1>1, <2>1 DEF Open
  <1> HIDE DEF c
  <1>4. /\ m \in ProcRecs /\ m.calls = Append(Front(procs[p].calls), c)
        /\ m.status = procs[p].status /\ m.parent = procs[p].parent /\ m.ends = procs[p].ends
    BY <1>1, <1>3, WithCurrentFacts
  <1> HIDE DEF m
  <1>5. /\ n \in ProcRecs /\ n.calls = Append(Front(procs[p].calls), c)
        /\ n.status = procs[p].status /\ n.parent = procs[p].parent
        /\ n.ends = procs[p].ends \ {<<call.path, "w">>}
    <2>1. n = [m EXCEPT !.ends = m.ends \ {<<call.path, "w">>}]
      OBVIOUS
    <2>2. m.ends \ {<<call.path, "w">>} \in SUBSET (Paths \X {"r", "w"})
      BY <1>2, <1>4
    <2> DEFINE x == m.ends \ {<<call.path, "w">>}
    <2> HIDE DEF n, x
    <2>3. /\ n \in ProcRecs /\ n.calls = m.calls /\ n.status = m.status /\ n.parent = m.parent /\ n.ends = x
      BY <1>4, <2>1, <2>2 DEF ProcRecs, x
    <2> QED
      BY <1>4, <2>3 DEF x
  <1>6. procs' = [procs EXCEPT ![p] = n] /\ UNCHANGED <<disk, pipes, misled>>
    BY DEF stop_scanning, m, c
  <1> HIDE DEF n
  <1>7. Sound([procs EXCEPT ![p] = n], D, K)
    <2>0. Last(procs[p].calls).phase # "enter"
      BY <1>1, <1>2
    <2>1. Sound(procs, D, K) /\ D \subseteq D
      BY DEF IInv
    <2>2. Open(c) \subseteq Open(Last(procs[p].calls)) /\ c.path = Last(procs[p].calls).path
      BY <1>2, <1>3
    <2>3. \A end \in Paths \X {"r", "w"} : end[1] # c.path => (end \in n.ends <=> end \in procs[p].ends)
      BY <1>3, <1>5
    <2>4. <<c.path, "w">> \notin n.ends
      BY <1>3, <1>5
    <2> HIDE DEF D, K
    <2> QED
      BY <1>1, <1>3, <1>5, <2>0, <2>1, <2>2, <2>3, <2>4, CallGoesOn
  <1>8. misled' \in BOOLEAN
    BY <1>6 DEF IInv
  <1> QED
    BY <1>6, <1>7, <1>8, OnlyProcs

(* The size of a child is read.                                            *)
LEMMA ReadKeeps ==
  ASSUME IInv, NEW p \in DOMAIN procs, read_size(p)
  PROVE  IInv'
  <1> DEFINE call == Current(p)
             h == Head(pipes[call.path])
             c == [call EXCEPT !.dirSize = @ + h]
             n == WithCurrent(p, c)
             D == DOMAIN pipes
             K == DOMAIN disk.size
  <1>1. procs[p].status = "running" /\ call.phase = "read" /\ pipes[call.path] # << >>
    BY DEF InPhase, read_size
  <1>2. /\ call \in CallRecs /\ call = Last(procs[p].calls) /\ <<call.path, "w">> \notin procs[p].ends
        /\ call.path \in D
    BY <1>1, CurrentFacts
  <1>3. /\ h \in Nat /\ Tail(pipes[call.path]) \in Seq(Nat)
        /\ Len(Tail(pipes[call.path])) <= Capacity
    <2>1. pipes[call.path] \in Seq(Nat) /\ Len(pipes[call.path]) <= Capacity /\ Capacity \in Nat
      BY <1>2, DirSizeAssumption DEF IInv, PipeInv
    <2> DEFINE s == pipes[call.path]
    <2>2. s \in Seq(Nat) /\ Len(s) <= Capacity /\ Capacity \in Nat /\ s # <<>>
      BY <1>1, <2>1
    <2> HIDE DEF s
    <2>3. Head(s) \in Nat /\ Tail(s) \in Seq(Nat) /\ Len(Tail(s)) = Len(s) - 1 /\ Len(s) \in Nat
      BY <2>2
    <2>4. Len(Tail(s)) <= Capacity
      BY <2>2, <2>3
    <2> QED
      BY <2>3, <2>4 DEF s
  <1> HIDE DEF h
  <1>4. /\ c \in CallRecs /\ c.path = call.path /\ c.phase = "read"
        /\ Open(c) \subseteq Open(call)
    <2>1. c = [call EXCEPT !.dirSize = call.dirSize + h]
      OBVIOUS
    <2>2. call.dirSize \in Nat /\ call.dirSize + h \in Nat
      BY <1>2, <1>3 DEF CallRecs
    <2> DEFINE x == call.dirSize + h
    <2> HIDE DEF call, c, x
    <2>3. /\ c \in CallRecs /\ c.path = call.path /\ c.phase = "read" /\ c.todo = call.todo
      BY <1>1, <1>2, <2>1, <2>2 DEF CallRecs, x
    <2> QED
      BY <1>1, <2>3 DEF Open
  <1> HIDE DEF c
  <1>5. /\ n \in ProcRecs /\ n.calls = Append(Front(procs[p].calls), c)
        /\ n.status = procs[p].status /\ n.parent = procs[p].parent /\ n.ends = procs[p].ends
    BY <1>1, <1>4, WithCurrentFacts
  <1>6. /\ procs' = [procs EXCEPT ![p] = n] /\ UNCHANGED <<disk, misled>>
        /\ pipes' = [pipes EXCEPT ![call.path] = Tail(@)]
    BY DEF read_size, c, h
  <1> HIDE DEF n
  <1>7. Sound([procs EXCEPT ![p] = n], D, K)
    <2>0. Last(procs[p].calls).phase # "enter"
      BY <1>1, <1>2
    <2>1. Sound(procs, D, K) /\ D \subseteq D
      BY DEF IInv
    <2>2. Open(c) \subseteq Open(Last(procs[p].calls)) /\ c.path = Last(procs[p].calls).path
      BY <1>2, <1>4
    <2>3. \A end \in Paths \X {"r", "w"} : end[1] # c.path => (end \in n.ends <=> end \in procs[p].ends)
      BY <1>5
    <2>4. <<c.path, "w">> \notin n.ends
      BY <1>2, <1>4, <1>5
    <2> HIDE DEF D, K
    <2> QED
      BY <1>1, <1>4, <1>5, <2>0, <2>1, <2>2, <2>3, <2>4, CallGoesOn
  <1>8. DOMAIN pipes' = DOMAIN pipes /\ PipeInv'
    <2>1. pipes' = [path \in DOMAIN pipes |->
                      IF path = call.path THEN Tail(pipes[call.path]) ELSE pipes[path]]
      BY <1>6 DEF IInv, PipeInv
    <2> QED
      BY <1>3, <2>1 DEF IInv, PipeInv
  <1> QED
    BY <1>6, <1>7, <1>8 DEF IInv

(* A call that is at the end of its pipe has no child left; if it is the   *)
(* first call of all, nobody is left but main.                             *)
LEMMA NoChildLeft ==
  ASSUME IInv, NEW path, AtEnd(path), NEW q \in DOMAIN procs \ {<<>>}, Lives(procs[q])
  PROVE  Front(q) # path /\ path # <<>>
  <1>1. <<Front(q), "w">> \in procs[q].ends /\ <<<<>>, "w">> \in procs[q].ends
    BY StateFacts DEF Local, Inherited
  <1> QED
    BY <1>1 DEF AtEnd, Held, Holds

(* The call returns to one before it.                                      *)
LEMMA ReturnToCaller ==
  ASSUME IInv, NEW p \in DOMAIN procs, return_size(p), Front(procs[p].calls) # <<>>
  PROVE  IInv'
  <1> DEFINE r == procs[p]
             callers == Front(r.calls)
             l == Last(r.calls)
             ends == r.ends \ {<<l.path, "r">>}
             m == [r EXCEPT !.ends = ends, !.calls = callers]
             c == [Last(callers) EXCEPT !.dirSize = @ + l.dirSize]
             calls == Append(Front(callers), c)
             n == [r EXCEPT !.ends = ends, !.calls = calls]
             D == DOMAIN pipes
             K == DOMAIN disk.size
  <1>1. /\ r.status = "running" /\ l = Current(p) /\ l.phase = "read" /\ AtEnd(l.path)
        /\ procs' = [procs EXCEPT ![p] = n] /\ UNCHANGED <<disk, pipes, misled>>
    BY DEF InPhase, return_size, Current, Left
  <1>2. /\ p \in Paths /\ Local(p, r) /\ r \in ProcRecs /\ r.calls \in Seq(CallRecs) /\ r.calls # <<>>
        /\ r.ends \in SUBSET (Paths \X {"r", "w"}) /\ l \in CallRecs
    BY <1>1, CurrentFacts
  <1>3. callers \in Seq(CallRecs) /\ callers # <<>> /\ Last(callers) \in CallRecs
    <2>1. callers \in Seq(CallRecs) /\ callers # <<>>
      <3> HIDE DEF r
      <3>1. r.calls \in Seq(CallRecs) /\ r.calls # <<>>
        BY <1>2
      <3>2. Front(r.calls) \in Seq(CallRecs)
        BY <3>1, FrontFacts
      <3> QED
        BY <3>2 DEF r
    <2> HIDE DEF callers
    <2> QED
      BY <2>1, FrontFacts
  <1>4. ends \in SUBSET (Paths \X {"r", "w"})
    BY <1>2
  <1> HIDE DEF callers, ends
  <1>5. /\ m \in ProcRecs /\ m.calls = callers /\ m.ends = ends /\ m.status = r.status /\ m.parent = r.parent
    <2> HIDE DEF r
    <2> QED
      BY <1>2, <1>3, <1>4 DEF ProcRecs
  <1> HIDE DEF m
  <1>6. /\ Local(p, m) /\ Last(m.calls).phase = "scan" /\ <<Last(m.calls).path, "w">> \in m.ends
        /\ \A i \in DOMAIN m.calls : i \in DOMAIN r.calls /\ m.calls[i] = r.calls[i]
        /\ \A path : HasCall(r, path) => path = l.path \/ HasCall(m, path)
    <2>1. /\ r.status = "running" /\ Last(r.calls).phase = "read" /\ Front(r.calls) # <<>>
          /\ m.calls = Front(r.calls) /\ m.ends = r.ends \ {<<Last(r.calls).path, "r">>}
      BY <1>1, <1>5 DEF callers, ends
    <2> HIDE DEF r
    <2> QED
      BY <1>2, <1>5, <2>1, LocalPop
  <1>7. /\ c \in CallRecs /\ c.path = Last(m.calls).path /\ c.phase = "scan"
        /\ Open(c) \subseteq Open(Last(m.calls))
    <2> DEFINE d == Last(m.calls)
               x == d.dirSize + l.dirSize
    <2>1. c = [d EXCEPT !.dirSize = x]
      BY <1>5
    <2>2. d \in CallRecs /\ x \in Nat
      BY <1>2, <1>3, <1>5 DEF CallRecs
    <2>3. d.phase = "scan"
      BY <1>6
    <2> HIDE DEF d, c, x
    <2>4. /\ c \in CallRecs /\ c.path = d.path /\ c.phase = "scan" /\ c.todo = d.todo
      BY <2>1, <2>2, <2>3 DEF CallRecs
    <2> QED
      BY <2>3, <2>4 DEF Open, d
  <1>8. calls \in Seq(CallRecs) /\ calls = Append(Front(m.calls), c)
    <2> HIDE DEF c
    <2> QED
      BY <1>3, <1>5, <1>7, ReplacedLast
  <1> HIDE DEF c, calls
  <1>9. /\ n \in ProcRecs /\ n.calls = calls /\ n.ends = ends /\ n.status = r.status /\ n.parent = r.parent
    <2> HIDE DEF r
    <2> QED
      BY <1>2, <1>4, <1>8 DEF ProcRecs
  <1> HIDE DEF n
  <1>10. Local(p, n) /\ Narrows(m, n, D, K) /\ \A path : HasCall(m, path) => HasCall(n, path)
    <2>1. /\ m.status = "running" /\ n.calls = Append(Front(m.calls), c)
          /\ n.status = m.status /\ n.parent = m.parent
          /\ \A end \in Paths \X {"r", "w"} : end[1] # c.path => (end \in n.ends <=> end \in m.ends)
          /\ <<c.path, "w">> \in n.ends
          /\ Last(m.calls).phase # "enter"
      BY <1>1, <1>5, <1>6, <1>7, <1>8, <1>9
    <2> HIDE DEF D, K
    <2> QED
      BY <1>2, <1>6, <1>7, <1>9, <2>1, LocalLast
  <1>11. Narrows(r, n, D, K)
    <2>1. \A i \in DOMAIN n.calls : i \in DOMAIN m.calls /\ i \in DOMAIN r.calls /\ m.calls[i] = r.calls[i]
      BY <1>6, <1>10 DEF Narrows
    <2>2. n.parent = r.parent
      BY <1>9
    <2> HIDE DEF r
    <2> QED
      BY <1>10, <2>1, <2>2 DEF Narrows
  <1>12. \A q \in DOMAIN procs \ {<<>>} : Lives(procs[q]) /\ HasCall(r, Front(q)) => HasCall(n, Front(q))
    BY <1>1, <1>6, <1>10, NoChildLeft
  <1>13. Sound([procs EXCEPT ![p] = n], D, K)
    <2>1. Sound(procs, D, K) /\ D \subseteq D
      BY DEF IInv
    <2>2. Lives(procs[p]) /\ n.status # "exited"
      BY <1>1, <1>9 DEF Lives
    <2> HIDE DEF D, K
    <2> QED
      BY <1>10, <1>11, <1>12, <2>1, <2>2, StepKeeps
  <1>14. misled' \in BOOLEAN
    BY <1>1 DEF IInv
  <1> QED
    BY <1>1, <1>13, <1>14, OnlyProcs

(* The first call of a process returns: to main or to the child's end of   *)
(* fork.                                                                   *)
LEMMA ReturnFromFirst ==
  ASSUME IInv, NEW p \in DOMAIN procs, return_size(p), Front(procs[p].calls) = <<>>
  PROVE  IInv'
  <1> DEFINE r == procs[p]
             l == Last(r.calls)
             ends == r.ends \ {<<l.path, "r">>}
             status == IF p = << >> THEN "exited" ELSE "reporting"
             n == [r EXCEPT !.ends = ends, !.calls = << >>, !.size = l.dirSize, !.status = status]
             D == DOMAIN pipes
             K == DOMAIN disk.size
  <1>1. /\ r.status = "running" /\ l = Current(p) /\ l.phase = "read" /\ AtEnd(l.path)
        /\ procs' = [procs EXCEPT ![p] = n] /\ UNCHANGED <<disk, pipes, misled>>
    BY DEF InPhase, return_size, Current, Left
  <1>2. /\ p \in Paths /\ Local(p, r) /\ r \in ProcRecs /\ r.calls \in Seq(CallRecs) /\ r.calls # <<>>
        /\ r.ends \in SUBSET (Paths \X {"r", "w"}) /\ l \in CallRecs /\ l.dirSize \in Nat
        /\ <<l.path, "w">> \notin r.ends
    BY <1>1, CurrentFacts
  <1>3. DOMAIN r.calls = {1} /\ l = r.calls[1] /\ l.path = p
    <2>1. /\ Len(r.calls) - 1 = 0 /\ Len(r.calls) \in Nat
          /\ DOMAIN r.calls = 1 .. Len(r.calls) /\ l = r.calls[Len(r.calls)]
      <3> DEFINE s == r.calls
      <3>1. s \in Seq(CallRecs) /\ s # <<>> /\ Front(s) = <<>>
        BY <1>2
      <3> HIDE DEF s
      <3>2. Len(Front(s)) = Len(s) - 1 /\ DOMAIN s = 1 .. Len(s) /\ Len(s) \in Nat /\ Last(s) = s[Len(s)]
        BY <3>1, FrontFacts
      <3>3. Len(Front(s)) = 0
        BY <3>1
      <3> QED
        BY <3>2, <3>3 DEF s
    <2>2. Len(r.calls) = 1
      BY <2>1
    <2>3. DOMAIN r.calls = {1} /\ l = r.calls[1]
      BY <2>1, <2>2
    <2> QED
      BY <1>2, <2>3 DEF Local, Chained
  <1>4. ends \in SUBSET (Paths \X {"r", "w"}) /\ <<>> \in Seq(CallRecs)
    BY <1>2
  <1> HIDE DEF ends
  <1>5. status \in {"exited", "reporting"} /\ (status = "exited" <=> p = <<>>)
    OBVIOUS
  <1> HIDE DEF status
  <1>6. /\ n \in ProcRecs /\ n.calls = <<>> /\ n.ends = ends /\ n.status = status /\ n.parent = r.parent
    <2> HIDE DEF r
    <2> QED
      BY <1>2, <1>4, <1>5 DEF ProcRecs
  <1> HIDE DEF n
  <1>7. ends = r.ends \ {<<p, "r">>} /\ <<p, "w">> \notin r.ends
    BY <1>2, <1>3 DEF ends
  <1>8. p = <<>> => ends = {}
    <2> SUFFICES ASSUME p = <<>>, NEW end \in ends PROVE FALSE
      OBVIOUS
    <2>1. \/ end[1] = p
          \/ Len(end[1]) < Len(p)
      BY <1>2, <1>3, <1>7 DEF Local, OwnEnds
    <2>2. end \in Paths \X {"r", "w"} /\ Len(end[1]) \in Nat /\ Len(p) = 0
      BY <1>4 DEF Paths
    <2>3. end[1] = p
      BY <2>1, <2>2
    <2> QED
      BY <1>7, <2>2, <2>3
  <1>9. Local(p, n) /\ Narrows(r, n, D, K)
    <2>1. /\ Lives(r) /\ (Lives(n) <=> p # <<>>)
          /\ n.status \in {"reporting", "written", "exited", "failed", "killed"}
      BY <1>1, <1>5, <1>6 DEF Lives
    <2>2. ~Lives(n) => n.ends = {}
      BY <1>6, <1>8, <2>1
    <2>3. /\ n.ends = r.ends \ {<<p, "r">>} /\ <<p, "w">> \notin r.ends
          /\ \A i \in DOMAIN r.calls : r.calls[i].path = p
      BY <1>3, <1>6, <1>7
    <2>4. p = <<>> => n.status \in {"exited", "failed"}
      BY <1>5, <1>6
    <2> HIDE DEF r, D, K
    <2> QED
      BY <1>2, <1>6, <2>1, <2>2, <2>3, <2>4, LocalEnd
  <1>10. \A q \in DOMAIN procs \ {<<>>} : Lives(procs[q]) => ~HasCall(r, Front(q)) /\ p # <<>>
    BY <1>1, <1>3, NoChildLeft DEF HasCall
  <1>11. Sound([procs EXCEPT ![p] = n], D, K)
    <2>1. Sound(procs, D, K) /\ D \subseteq D
      BY DEF IInv
    <2>2. Lives(procs[p])
      BY <1>1 DEF Lives
    <2> HIDE DEF D, K
    <2> QED
      BY <1>9, <1>10, <2>1, <2>2, StepKeeps
  <1>12. misled' \in BOOLEAN
    BY <1>1 DEF IInv
  <1> QED
    BY <1>1, <1>11, <1>12, OnlyProcs

(* A process that has no call left has only ends of pipes above its own.   *)
LEMMA DoneFacts ==
  ASSUME IInv, NEW p \in DOMAIN procs, procs[p].status \in {"reporting", "written"}
  PROVE  /\ p \in Paths /\ p # <<>> /\ Local(p, procs[p]) /\ procs[p] \in ProcRecs
         /\ procs[p].calls = <<>> /\ Lives(procs[p])
         /\ <<p, "r">> \notin procs[p].ends /\ <<p, "w">> \notin procs[p].ends
  <1> DEFINE r == procs[p]
  <1>1. p \in Paths /\ Local(p, r)
    BY StateFacts
  <1>2. r \in ProcRecs /\ r.calls = <<>> /\ p # <<>> /\ Lives(r)
    BY <1>1 DEF Local, Lives
  <1>3. \A end \in r.ends : Len(end[1]) < Len(p)
    BY <1>1, <1>2 DEF Local, OwnEnds
  <1>4. Len(p) \in Nat
    BY <1>1 DEF Paths
  <1>5. <<p, "r">> \notin r.ends /\ <<p, "w">> \notin r.ends
    BY <1>3, <1>4
  <1> QED
    BY <1>1, <1>2, <1>5

(* The child writes to its parent, or is killed by it.                     *)
LEMMA ReportKeeps ==
  ASSUME IInv, NEW p \in DOMAIN procs, report_size(p)
  PROVE  IInv'
  <1> DEFINE r == procs[p]
             path == Front(p)
             D == DOMAIN pipes
             K == DOMAIN disk.size
  <1>1. r.status = "reporting"
    BY DEF report_size
  <1>2. /\ p \in Paths /\ p # <<>> /\ Local(p, r) /\ r \in ProcRecs /\ r.calls = <<>> /\ Lives(r)
        /\ <<p, "r">> \notin r.ends /\ <<p, "w">> \notin r.ends
    BY <1>1, DoneFacts
  <1>3. Sound(procs, D, K) /\ D \subseteq D
    BY DEF IInv
  <1>4. UNCHANGED <<disk, misled>> /\ misled' \in BOOLEAN
    BY DEF report_size, IInv
  <1>5. CASE /\ Len(pipes[path]) < Capacity
             /\ pipes' = [pipes EXCEPT ![path] = Append(@, procs[p].size)]
             /\ procs' = [procs EXCEPT ![p].status = "written", ![p].size = 0]
    <2> DEFINE n == [r EXCEPT !.status = "written", !.size = 0]
    <2>1. procs' = [procs EXCEPT ![p] = n]
      BY <1>3, <1>5 DEF Sound, Good
    <2>2. /\ n \in ProcRecs /\ n.calls = <<>> /\ n.parent = r.parent /\ n.status = "written"
          /\ n.ends = r.ends
      <3> HIDE DEF r
      <3> QED
        BY <1>2 DEF ProcRecs
    <2> HIDE DEF n
    <2>3. Local(p, n) /\ Narrows(r, n, D, K)
      <3>1. Lives(n) /\ n.ends = r.ends \ {<<p, "r">>} /\ \A i \in DOMAIN r.calls : r.calls[i].path = p
        BY <1>2, <2>2 DEF Lives
      <3>2. n.status \in {"reporting", "written", "exited", "failed", "killed"}
        BY <2>2
      <3> HIDE DEF r, D, K
      <3> QED
        BY <1>2, <2>2, <3>1, <3>2, LocalEnd
    <2>4. \A q : ~HasCall(r, q)
      BY <1>2 DEF HasCall
    <2>5. Sound([procs EXCEPT ![p] = n], D, K)
      <3> HIDE DEF D, K
      <3> QED
        BY <1>2, <1>3, <2>2, <2>3, <2>4, StepKeeps
    <2>6. DOMAIN pipes' = DOMAIN pipes /\ PipeInv'
      <3>1. r.size \in Nat
        BY <1>2 DEF ProcRecs
      <3>2. pipes' = [x \in DOMAIN pipes |-> IF x = path THEN Append(pipes[path], r.size) ELSE pipes[x]]
        BY <1>5 DEF IInv, PipeInv
      <3>3. path \in DOMAIN pipes =>
              Append(pipes[path], r.size) \in Seq(Nat) /\ Len(Append(pipes[path], r.size)) <= Capacity
        <4> SUFFICES ASSUME path \in DOMAIN pipes
                     PROVE  /\ Append(pipes[path], r.size) \in Seq(Nat)
                            /\ Len(Append(pipes[path], r.size)) <= Capacity
          OBVIOUS
        <4> DEFINE s == pipes[path]
        <4>1. s \in Seq(Nat) /\ Len(s) < Capacity /\ Capacity \in Nat
          BY <1>5, DirSizeAssumption DEF IInv, PipeInv
        <4> HIDE DEF s, r
        <4>2. Append(s, r.size) \in Seq(Nat) /\ Len(Append(s, r.size)) <= Capacity
          BY <3>1, <4>1
        <4> QED
          BY <4>2 DEF s
      <3> HIDE DEF path, r
      <3> QED
        BY <3>2, <3>3 DEF IInv, PipeInv
    <2> QED
      BY <1>4, <2>1, <2>5, <2>6 DEF IInv
  <1>6. CASE procs' = [procs EXCEPT ![p] = Ended(p, "killed")] /\ UNCHANGED pipes
    <2> DEFINE n == Ended(p, "killed")
    <2>1. /\ n \in ProcRecs /\ n.calls = <<>> /\ n.ends = {} /\ n.parent = procs[p].parent
          /\ n.status = "killed"
      BY <1>2, EndedFacts
    <2> HIDE DEF n
    <2>2. Sound([procs EXCEPT ![p] = n], D, K)
      <3>1. n.status \in {"exited", "failed", "killed"} /\ procs[p].calls = <<>> /\ Lives(procs[p])
        BY <1>2, <2>1
      <3> HIDE DEF D, K
      <3> QED
        BY <1>2, <1>3, <2>1, <3>1, EndKeeps
    <2> QED
      BY <1>4, <1>6, <2>2, OnlyProcs DEF n
  <1> QED
    BY <1>5, <1>6 DEF report_size

(* The child that has written its size exits.                              *)
LEMMA ExitKeeps ==
  ASSUME IInv, NEW p \in DOMAIN procs, exit_child(p)
  PROVE  IInv'
  <1> DEFINE n == Ended(p, "exited")
             D == DOMAIN pipes
             K == DOMAIN disk.size
  <1>1. /\ procs[p].status = "written" /\ procs' = [procs EXCEPT ![p] = n]
        /\ UNCHANGED <<disk, pipes, misled>> /\ misled' \in BOOLEAN
    BY DEF exit_child, IInv
  <1>2. p \in Paths /\ p # <<>> /\ procs[p] \in ProcRecs /\ procs[p].calls = <<>> /\ Lives(procs[p])
    BY <1>1, DoneFacts
  <1>3. Sound(procs, D, K)
    BY DEF IInv
  <1>4. /\ n \in ProcRecs /\ n.calls = <<>> /\ n.ends = {} /\ n.parent = procs[p].parent
        /\ n.status = "exited"
    BY <1>2, EndedFacts
  <1> HIDE DEF n
  <1>5. Sound([procs EXCEPT ![p] = n], D, K)
    <2>1. n.status \in {"exited", "failed", "killed"}
      BY <1>4
    <2> HIDE DEF D, K
    <2> QED
      BY <1>2, <1>3, <1>4, <2>1, EndKeeps
  <1> QED
    BY <1>1, <1>5, OnlyProcs

(* In the scan process p has come to entry e, and passed it: the path to e *)
(* has never been had, and the call will not come to it again.             *)
LEMMA PassedToNew ==
  ASSUME IInv, NEW p \in DOMAIN procs, InPhase(p, "scan"), NEW e \in Current(p).todo
  PROVE  LET m == Passed(p, e, 0)
             M == [procs EXCEPT ![p] = m]
             i == Len(m.calls)
             a == Append(Current(p).path, e)
         IN  /\ Good(M) /\ Fresh(M) /\ Unique(M) /\ Covered(M, DOMAIN pipes, DOMAIN disk.size)
             /\ Waits(M) /\ Done(M)
             /\ p \in DOMAIN M /\ M[p] = m /\ Local(p, m) /\ i \in DOMAIN m.calls
             /\ m.status = "running" /\ m.ends = procs[p].ends
             /\ Last(m.calls) = m.calls[i] /\ m.calls[i].path = Current(p).path /\ m.calls[i].phase = "scan"
             /\ e \in Entries /\ e \notin Open(m.calls[i]) /\ Unseen(M, a)
  <1> DEFINE m == Passed(p, e, 0)
             M == [procs EXCEPT ![p] = m]
             i == Len(m.calls)
             a == Append(Current(p).path, e)
             D == DOMAIN pipes
             K == DOMAIN disk.size
  <1>1. /\ Local(p, m) /\ Sound(M, D, K) /\ Narrows(procs[p], m, D, K)
        /\ m.status = "running" /\ m.ends = procs[p].ends
        /\ Last(m.calls).phase = "scan" /\ Last(m.calls).path = Current(p).path
        /\ Open(Last(m.calls)) = Current(p).todo \ {e}
        /\ i \in DOMAIN m.calls /\ Last(m.calls) = m.calls[i]
    BY PassedKeeps
  <1>2. /\ procs[p].status = "running" /\ Current(p).phase = "scan"
        /\ Current(p).todo \subseteq Entries
        /\ Len(procs[p].calls) \in DOMAIN procs[p].calls
        /\ Current(p) = procs[p].calls[Len(procs[p].calls)]
    BY CurrentFacts DEF InPhase
  <1> HIDE DEF m
  <1>3. DOMAIN M = DOMAIN procs /\ M[p] = m /\ \A q \in DOMAIN procs : q # p => M[q] = procs[q]
    BY DEF IInv, Sound, Good
  <1>4. Unseen(procs, a)
    <2>1. e \in Open(procs[p].calls[Len(procs[p].calls)])
      BY <1>2 DEF Open
    <2>2. Fresh(procs)
      BY DEF IInv, Sound
    <2> QED
      BY <1>2, <2>1, <2>2 DEF Fresh
  <1> HIDE DEF M, a, i
  <1>5. Unseen(M, a)
    <2> SUFFICES ASSUME NEW q \in DOMAIN procs
                 PROVE  ~Below(a, q) /\ \A j \in DOMAIN M[q].calls : ~Below(a, M[q].calls[j].path)
      BY <1>3 DEF Unseen
    <2>1. CASE q = p
      BY <1>1, <1>3, <1>4, <2>1 DEF Unseen, Narrows
    <2>2. CASE q # p
      BY <1>3, <1>4, <2>2 DEF Unseen
    <2> QED
      BY <2>1, <2>2
  <1>6. /\ Good(M) /\ Fresh(M) /\ Unique(M) /\ Covered(M, D, K) /\ Waits(M) /\ Done(M)
    BY <1>1 DEF Sound
  <1> QED
    BY <1>1, <1>2, <1>3, <1>5, <1>6 DEF m, M, i, a

(* A link is followed: one more call of the same process.                  *)
LEMMA FollowKeeps ==
  ASSUME IInv, NEW p \in DOMAIN procs, InPhase(p, "scan"), NEW e \in Current(p).todo, follow_link(p, e)
  PROVE  IInv'
  <1> DEFINE m == Passed(p, e, 0)
             M == [procs EXCEPT ![p] = m]
             i == Len(m.calls)
             a == Append(Current(p).path, e)
             D == DOMAIN pipes
             K == DOMAIN disk.size
  <1>1. /\ Good(M) /\ Fresh(M) /\ Unique(M) /\ Covered(M, D, K) /\ Waits(M) /\ Done(M)
        /\ p \in DOMAIN M /\ M[p] = m /\ Local(p, m) /\ i \in DOMAIN m.calls
        /\ m.status = "running" /\ m.ends = procs[p].ends
        /\ Last(m.calls) = m.calls[i] /\ m.calls[i].path = Current(p).path /\ m.calls[i].phase = "scan"
        /\ e \in Entries /\ e \notin Open(m.calls[i]) /\ Unseen(M, a)
    BY PassedToNew
  <1>2. PICK target \in DOMAIN disk.size :
          /\ ReadLink(e, target)
          /\ procs' = [procs EXCEPT ![p] = [m EXCEPT !.calls = Append(@, Call(a, target))]]
    BY DEF follow_link
  <1>3. target \in Entries /\ UNCHANGED <<disk, pipes>> /\ misled' \in BOOLEAN
    BY <1>2, StateFacts DEF follow_link, ReadLink, IInv
  <1> DEFINE n == [m EXCEPT !.calls = Append(@, Call(a, target))]
             Q == [procs EXCEPT ![p] = n]
  <1>4. p \in Paths /\ m \in ProcRecs /\ m.calls \in Seq(CallRecs) /\ m.calls[i].path \in Paths
    BY <1>1, LocalFacts DEF Good
  <1>5. /\ n \in ProcRecs /\ n.calls = Append(m.calls, Call(a, target)) /\ n.ends = m.ends
        /\ n.status = m.status /\ n.parent = m.parent
    <2> DEFINE c == Call(a, target)
               s == Append(m.calls, c)
    <2>1. c \in CallRecs
      <3>1. a \in Paths
        BY <1>1, <1>4, StepBelow
      <3> HIDE DEF a
      <3> QED
        BY <1>3, <3>1 DEF Call, CallRecs
    <2> HIDE DEF c, m
    <2>2. s \in Seq(CallRecs)
      BY <1>4, <2>1
    <2> HIDE DEF s
    <2>3. n = [m EXCEPT !.calls = s]
      BY DEF s, c
    <2>4. n \in ProcRecs /\ n.calls = s /\ n.ends = m.ends /\ n.status = m.status /\ n.parent = m.parent
      BY <1>4, <2>2, <2>3 DEF ProcRecs
    <2> QED
      BY <2>4 DEF s, c
  <1>6. procs' = Q
    BY <1>2
  <1>7. Q = [M EXCEPT ![p] = n] /\ DOMAIN Q = DOMAIN M /\ Q[p] = n /\ \A q \in DOMAIN M : q # p => Q[q] = M[q]
    <2> HIDE DEF n, m
    <2> QED
      BY DEF IInv, Sound, Good
  <1> HIDE DEF n, m, M, Q
  <1>8. /\ Local(p, n)
        /\ DOMAIN n.calls = DOMAIN m.calls \cup {i + 1}
        /\ \A j \in DOMAIN m.calls : n.calls[j] = m.calls[j]
        /\ n.calls[i + 1] = Call(a, target)
        /\ \A path : HasCall(m, path) => HasCall(n, path)
    <2>1. /\ Last(m.calls).phase = "scan" /\ a = Append(Last(m.calls).path, e)
          /\ n.calls = Append(m.calls, Call(Append(Last(m.calls).path, e), target))
      BY <1>1, <1>5
    <2> HIDE DEF a
    <2> QED
      BY <1>1, <1>3, <1>4, <1>5, <2>1, LocalPush
  <1>9. Call(a, target).path = a /\ Call(a, target).phase = "enter" /\ Open(Call(a, target)) = Entries
    BY DEF Call, Open
  <1>10. /\ DOMAIN Q \subseteq DOMAIN M \cup {a}
         /\ \A q \in DOMAIN Q : \A j \in DOMAIN Q[q].calls :
              \/ q = p /\ j = i + 1 /\ Q[q].calls[j].path = a /\ Open(Q[q].calls[j]) \subseteq Entries
              \/ q \in DOMAIN M /\ j \in DOMAIN M[q].calls /\ Q[q].calls[j] = M[q].calls[j]
    BY <1>1, <1>7, <1>8, <1>9
  <1>11. Fresh(Q) /\ Unique(Q)
    <2> DEFINE j0 == i + 1
    <2>1. a = Append(M[p].calls[i].path, e) /\ i \in DOMAIN M[p].calls /\ e \notin Open(M[p].calls[i])
      BY <1>1
    <2>2. Adds(M, Q, a, p, j0)
      BY <1>10 DEF Adds
    <2> HIDE DEF a, i, j0
    <2> QED
      BY <1>1, <2>1, <2>2, NewCallKeeps
  <1>12. Good(Q)
    <2>1. n.parent = m.parent
      BY <1>5
    <2>2. Q = [q \in DOMAIN Q |-> Q[q]]
      BY DEF Q, IInv, Sound, Good
    <2> QED
      BY <1>1, <1>7, <1>8, <2>1, <2>2 DEF Good
  <1>13. Covered(Q, D, K)
    BY <1>1, <1>9, <1>10, <1>7, <1>8 DEF Covered
  <1>14. Waits(Q) /\ Done(Q)
    <2>1. Lives(M[p]) /\ n.parent = M[p].parent /\ n.status # "exited"
      BY <1>1, <1>5 DEF Lives
    <2>2. \A q \in DOMAIN M \ {<<>>} : Lives(M[q]) /\ M[q].parent = p /\ HasCall(M[p], Front(q)) =>
            HasCall(n, Front(q))
      BY <1>1, <1>8
    <2>3. Waits([M EXCEPT ![p] = n]) /\ Done([M EXCEPT ![p] = n])
      BY <1>1, <2>1, <2>2, UpdateWaits
    <2> QED
      BY <1>7, <2>3
  <1>15. Sound(Q, D, K)
    BY <1>11, <1>12, <1>13, <1>14 DEF Sound
  <1> QED
    BY <1>3, <1>6, <1>15, OnlyProcs

(* A child is forked, with a first call of its own.                        *)
LEMMA ForkKeeps ==
  ASSUME IInv, NEW p \in DOMAIN procs, InPhase(p, "scan"), NEW e \in Current(p).todo, fork_child(p, e)
  PROVE  IInv'
  <1> DEFINE m == Passed(p, e, 0)
             M == [procs EXCEPT ![p] = m]
             i == Len(m.calls)
             path == Current(p).path
             a == Append(path, e)
             n == Process(p, a, e, procs[p].ends \ {<<path, "r">>})
             Q == With(M, a, n)
             D == DOMAIN pipes
             K == DOMAIN disk.size
  <1>1. /\ Good(M) /\ Fresh(M) /\ Unique(M) /\ Covered(M, D, K) /\ Waits(M) /\ Done(M)
        /\ p \in DOMAIN M /\ M[p] = m /\ Local(p, m) /\ i \in DOMAIN m.calls
        /\ m.status = "running" /\ m.ends = procs[p].ends
        /\ Last(m.calls) = m.calls[i] /\ m.calls[i].path = path /\ m.calls[i].phase = "scan"
        /\ e \in Entries /\ e \notin Open(m.calls[i]) /\ Unseen(M, a)
    BY PassedToNew
  <1>2. procs' = Q /\ UNCHANGED <<disk, pipes, misled>> /\ misled' \in BOOLEAN
    BY DEF fork_child, IInv
  <1>3. p \in Paths /\ path \in Paths
    BY <1>1, LocalFacts DEF Good
  <1>4. a \in Paths /\ a # <<>> /\ Front(a) = path /\ Below(a, a)
    <2>1. path \in Paths /\ e \in Entries
      BY <1>1, <1>3
    <2> HIDE DEF path
    <2>2. a \in Paths /\ a # <<>> /\ Front(a) = path
      BY <2>1, StepBelow
    <2> HIDE DEF a
    <2> QED
      BY <2>2, BelowFacts
  <1>5. Local(a, n)
    <2>1. /\ m.status = "running" /\ Last(m.calls).phase = "scan" /\ Last(m.calls).path = path
      BY <1>1
    <2>2. n = Process(p, Append(Last(m.calls).path, e), e, m.ends \ {<<Last(m.calls).path, "r">>})
      BY <1>1, <2>1
    <2>3. a = Append(Last(m.calls).path, e)
      BY <2>1
    <2> HIDE DEF n, m, path, a
    <2>4. Local(Append(Last(m.calls).path, e), n)
      BY <1>1, <1>3, <2>1, <2>2, LocalChild
    <2> QED
      BY <2>3, <2>4
  <1>6. n.parent = p /\ n.status = "running" /\ n.calls = <<Call(a, e)>>
    BY DEF Process
  <1>7. a \notin DOMAIN M
    BY <1>4, <1>1 DEF Unseen
  <1>8. /\ DOMAIN Q = DOMAIN M \cup {a} /\ Q[a] = n /\ \A q \in DOMAIN M : Q[q] = M[q]
        /\ Q = [q \in DOMAIN Q |-> Q[q]]
    <2> HIDE DEF n, m, M
    <2> QED
      BY <1>7 DEF With
  <1> HIDE DEF n, m, M, Q, a, path, i
  <1>9. Good(Q)
    BY <1>1, <1>4, <1>5, <1>6, <1>8 DEF Good
  <1>10. /\ Call(a, e).path = a /\ Call(a, e).phase = "enter" /\ Open(Call(a, e)) = Entries
         /\ DOMAIN n.calls = {1} /\ n.calls[1] = Call(a, e)
    <2>1. Call(a, e).path = a /\ Call(a, e).phase = "enter"
      BY DEF Call
    <2> DEFINE c == Call(a, e)
    <2> HIDE DEF c
    <2>2. DOMAIN <<c>> = {1} /\ <<c>>[1] = c
      OBVIOUS
    <2> QED
      BY <1>6, <2>1, <2>2 DEF c, Open
  <1>11. /\ DOMAIN Q \subseteq DOMAIN M \cup {a}
         /\ \A q \in DOMAIN Q : \A j \in DOMAIN Q[q].calls :
              \/ q = a /\ j = 1 /\ Q[q].calls[j].path = a /\ Open(Q[q].calls[j]) \subseteq Entries
              \/ q \in DOMAIN M /\ j \in DOMAIN M[q].calls /\ Q[q].calls[j] = M[q].calls[j]
    BY <1>8, <1>10
  <1>12. Fresh(Q) /\ Unique(Q)
    <2>1. a = Append(M[p].calls[i].path, e) /\ i \in DOMAIN M[p].calls /\ e \notin Open(M[p].calls[i])
      BY <1>1 DEF a
    <2>2. Adds(M, Q, a, a, 1)
      BY <1>11 DEF Adds
    <2> QED
      BY <1>1, <2>1, <2>2, NewCallKeeps
  <1>13. Covered(Q, D, K)
    <2> SUFFICES ASSUME NEW q \in DOMAIN Q, NEW j \in DOMAIN Q[q].calls, Q[q].calls[j].phase # "enter"
                 PROVE  Opened(Q[q].calls[j], D, K)
      BY DEF Covered
    <2>1. q \in DOMAIN M
      BY <1>8, <1>10
    <2> QED
      BY <1>1, <1>8, <2>1 DEF Covered
  <1>14. Waits(Q)
    <2> SUFFICES ASSUME NEW q \in DOMAIN Q \ {<<>>}, Lives(Q[q])
                 PROVE  Q[Q[q].parent].status = "failed" \/ HasCall(Q[Q[q].parent], Front(q))
      BY DEF Waits
    <2>1. CASE q = a
      <3>1. HasCall(m, path)
        BY <1>1 DEF HasCall
      <3> QED
        BY <1>1, <1>4, <1>6, <1>8, <2>1, <3>1
    <2>2. CASE q \in DOMAIN M
      <3>1. M[q].parent \in DOMAIN M
        BY <1>1, <2>2 DEF Good
      <3> QED
        BY <1>1, <1>8, <2>2, <3>1 DEF Waits
    <2> QED
      BY <1>8, <2>1, <2>2
  <1>15. Done(Q)
    <2>1. Lives(M[p]) /\ <<>> \in DOMAIN M
      BY <1>1 DEF Lives, Good
    <2> QED
      BY <1>1, <1>8, <2>1 DEF Done
  <1>16. Sound(Q, D, K)
    BY <1>9, <1>12, <1>13, <1>14, <1>15 DEF Sound
  <1> QED
    BY <1>2, <1>16, OnlyProcs

(* One process, in one call, that of the top directory                     *)
LEMMA InitInv == Init => IInv
  <1> SUFFICES ASSUME Init PROVE IInv
    OBVIOUS
  <1> DEFINE c == Call(<<>>, disk.top)
             r == Process(<<>>, <<>>, disk.top, {})
  <1>1. /\ disk \in Disks /\ misled = FALSE /\ pipes = <<>>
        /\ DOMAIN procs = {<<>>} /\ procs[<<>>] = r /\ procs = [p \in DOMAIN procs |-> procs[p]]
    BY DEF Init
  <1>2. disk.top \in Entries
    <2>1. /\ disk.top \in DOMAIN disk.in
          /\ \A dir \in DOMAIN disk.in : {dir} \cup disk.in[dir] \subseteq DOMAIN disk.size
      BY <1>1, DirSizeAssumption
    <2> QED
      BY <1>1, <2>1 DEF Entries
  <1>3. <<>> \in Paths /\ Len(<<>>) = 0
    BY DEF Paths
  <1>4. c \in CallRecs /\ c.path = <<>> /\ c.phase = "enter" /\ Open(c) = Entries
    BY <1>2, <1>3 DEF Call, CallRecs, Open
  <1>5. /\ r.parent = <<>> /\ r.status = "running" /\ r.calls = <<c>> /\ r.ends = {} /\ r.size = 0
    BY DEF Process
  <1> HIDE DEF c
  <1>6. /\ r.calls \in Seq(CallRecs) /\ DOMAIN r.calls = {1} /\ Len(r.calls) = 1
        /\ r.calls[1] = c /\ r.calls # <<>>
    <2>1. /\ <<c>> \in Seq(CallRecs) /\ DOMAIN <<c>> = {1} /\ Len(<<c>>) = 1
          /\ <<c>>[1] = c /\ <<c>> # <<>>
      BY <1>4
    <2> QED
      BY <1>5, <2>1
  <1>7. r \in ProcRecs
    BY <1>3, <1>5, <1>6 DEF ProcRecs, Process
  <1> HIDE DEF r
  <1>8. Local(<<>>, r)
    <2>1. Chained(<<>>, r.calls)
      BY <1>3, <1>4, <1>6, BelowFacts DEF Chained
    <2>2. OwnEnds(<<>>, r)
      BY <1>4, <1>5, <1>6 DEF OwnEnds
    <2> QED
      BY <1>5, <1>6, <1>7, <2>1, <2>2 DEF Local, Inherited
  <1>9. Good(procs)
    BY <1>1, <1>3, <1>5, <1>8 DEF Good
  <1>10. Fresh(procs)
    <2> SUFFICES ASSUME NEW e \in Entries PROVE Unseen(procs, Append(<<>>, e))
      BY <1>1, <1>4, <1>6 DEF Fresh
    <2> DEFINE a == Append(<<>>, e)
    <2>1. Len(a) = 1
      OBVIOUS
    <2> HIDE DEF a
    <2>2. ~Below(a, <<>>)
      BY <1>3, <2>1 DEF Below
    <2>3. Unseen(procs, a)
      BY <1>1, <1>4, <1>6, <2>2 DEF Unseen
    <2> QED
      BY <2>3 DEF a
  <1>11. Unique(procs)
    BY <1>1, <1>6 DEF Unique
  <1>12. Covered(procs, DOMAIN pipes, DOMAIN disk.size)
    BY <1>1, <1>4, <1>6 DEF Covered
  <1>13. Waits(procs) /\ Done(procs)
    BY <1>1, <1>5 DEF Waits, Done
  <1>14. PipeInv
    BY <1>1 DEF PipeInv
  <1> QED
    BY <1>1, <1>9, <1>10, <1>11, <1>12, <1>13, <1>14 DEF IInv, Sound

(* Every step keeps the invariant.                                         *)
LEMMA NextInv == IInv /\ [Next]_vars => IInv'
  <1> SUFFICES ASSUME IInv, [Next]_vars PROVE IInv'
    OBVIOUS
  <1>1. CASE UNCHANGED vars
    BY <1>1 DEF vars, IInv, PipeInv
  <1>2. ASSUME NEW p \in DOMAIN procs, Step(p) PROVE IInv'
    <2>1. CASE enter(p)
      BY <2>1, EnterKeeps
    <2>2. CASE scan(p)
      <3>1. InPhase(p, "scan")
        BY <2>2 DEF scan
      <3>2. PICK e \in Current(p).todo :
              add_file(p, e) \/ skip_other(p, e) \/ fork_child(p, e) \/ follow_link(p, e)
              \/ add_link(p, e) \/ fail(p)
        BY <2>2 DEF scan
      <3>3. CASE add_file(p, e) \/ skip_other(p, e) \/ add_link(p, e)
        BY <3>1, <3>3, EntryKeeps
      <3>4. CASE fork_child(p, e)
        BY <3>1, <3>4, ForkKeeps
      <3>5. CASE follow_link(p, e)
        BY <3>1, <3>5, FollowKeeps
      <3>6. CASE fail(p)
        BY <3>1, <3>6, FailKeeps DEF InPhase
      <3> QED
        BY <3>2, <3>3, <3>4, <3>5, <3>6
    <2>3. CASE stop_scanning(p)
      BY <2>3, StopKeeps
    <2>4. CASE read_size(p)
      BY <2>4, ReadKeeps
    <2>5. CASE return_size(p)
      BY <2>5, ReturnToCaller, ReturnFromFirst
    <2>6. CASE report_size(p)
      BY <2>6, ReportKeeps
    <2>7. CASE exit_child(p)
      BY <2>7, ExitKeeps
    <2> QED
      BY <1>2, <2>1, <2>2, <2>3, <2>4, <2>5, <2>6, <2>7 DEF Step
  <1> QED
    BY <1>1, <1>2 DEF Next

(* In every state of myDU.c and of its variant, calls and processes have   *)
(* paths of their own, a child that lives can write to the pipes above it, *)
(* and whoever forked it is in that call still, or has failed.             *)
THEOREM InvariantHolds == Spec => []IInv
  BY InitInv, NextInv, PTL DEF Spec

(* In every state a process has no descriptor but of pipes of the calls it *)
(* is in, or of those above it, and none when it is gone; no pipe of those *)
(* myDU.c makes holds more sizes than it can.                              *)
THEOREM TypesHold == Spec => []TypeOK
  <1>1. IInv => TypeOK
    <2> SUFFICES ASSUME IInv PROVE TypeOK
      OBVIOUS
    <2>1. ASSUME NEW p \in DOMAIN procs
          PROVE  /\ procs[p].status \in {"running", "reporting", "written", "exited", "failed", "killed"}
                 /\ \A c \in Calls(p) : c.phase \in {"enter", "scan", "read"} /\ c.dirSize \in Nat
                 /\ \A end \in procs[p].ends :
                      \/ \E c \in Calls(p) : c.path = end[1] /\ c.phase # "enter"
                      \/ IsStrictPrefix(end[1], p)
                 /\ procs[p].ends # {} => Alive(p)
      <3> DEFINE r == procs[p]
      <3>1. p \in Paths /\ Local(p, r)
        BY StateFacts
      <3>2. /\ r \in ProcRecs /\ r.ends \in SUBSET (Paths \X {"r", "w"})
            /\ \A i \in DOMAIN r.calls : r.calls[i] \in CallRecs
        <4> HIDE DEF r
        <4> QED
          BY <3>1, LocalFacts
      <3>3. r.status \in {"running", "reporting", "written", "exited", "failed", "killed"}
        BY <3>2 DEF ProcRecs
      <3>4. \A c \in Calls(p) : c.phase \in {"enter", "scan", "read"} /\ c.dirSize \in Nat
        BY <3>2 DEF Calls, CallRecs
      <3>5. ASSUME NEW end \in r.ends
            PROVE  \/ \E c \in Calls(p) : c.path = end[1] /\ c.phase # "enter"
                   \/ IsStrictPrefix(end[1], p)
        <4>1. CASE \E i \in DOMAIN r.calls : r.calls[i].path = end[1] /\ r.calls[i].phase # "enter"
          BY <4>1 DEF Calls
        <4>2. CASE Below(end[1], p) /\ Len(end[1]) < Len(p)
          <5> DEFINE s == end[1]
          <5>1. s \in Paths /\ Len(s) \in Nat /\ Len(p) \in Nat /\ DOMAIN s = 1 .. Len(s)
            BY <3>1, <3>2 DEF Paths
          <5>2. Len(s) <= Len(p) /\ \A i \in 1 .. Len(s) : s[i] = p[i]
            BY <4>2 DEF Below
          <5>3. s # p
            BY <4>2, <5>1
          <5> HIDE DEF s
          <5>4. s = SubSeq(p, 1, Len(s))
            BY <3>1, <5>1, <5>2 DEF Paths
          <5>5. IsStrictPrefix(s, p)
            BY <5>1, <5>2, <5>3, <5>4 DEF IsStrictPrefix, IsPrefix
          <5> QED
            BY <5>5 DEF s
        <4> QED
          BY <3>1, <4>1, <4>2 DEF Local, OwnEnds
      <3>6. r.ends # {} => Alive(p)
        BY <3>1 DEF Local, Lives, Alive
      <3> QED
        BY <3>3, <3>4, <3>5, <3>6
    <2>2. (\A path \in DOMAIN pipes : Len(pipes[path]) <= Capacity) /\ misled \in BOOLEAN
      BY DEF IInv, PipeInv
    <2> QED
      BY <2>1, <2>2 DEF TypeOK
  <1> QED
    BY InvariantHolds, <1>1, PTL

(* The end of a pipe is never taken for the end of the sizes when a child  *)
(* has yet to write its own: a call of getDirSize in myDU.c returns after  *)
(* all its children, and main prints the total when nobody is left.        *)
THEOREM AllAreWaitedFor == Spec => []WaitsForAll
  <1>1. IInv => WaitsForAll
    <2> SUFFICES ASSUME IInv PROVE WaitsForAll
      OBVIOUS
    <2>1. Waits(procs) /\ Done(procs) /\ \A p : Lives(procs[p]) <=> Alive(p)
      BY DEF IInv, Sound, Lives, Alive
    <2> QED
      BY <2>1 DEF WaitsForAll, Waits, Done, HasCall, Calls
  <1> QED
    BY InvariantHolds, <1>1, PTL

-----------------------------------------------------------------------------
(* Counting up, and choosing                                               *)

(* Among subsets of a finite set some have no other among them inside.     *)
LEMMA LeastSubset ==
  ASSUME NEW S, IsFiniteSet(S), NEW T \in SUBSET SUBSET S, T # {}
  PROVE  \E t \in T : \A u \in T : u \subseteq t => u = t
  <1>1. T \subseteq FiniteSubsetsOf(S)
    BY FS_Subset DEF FiniteSubsetsOf
  <1>2. PICK t \in T : \A u \in T : ~(<<u, t>> \in StrictSubsetOrdering(S))
    BY <1>1, FS_StrictSubsetOrderingWellFounded, WFMin
  <1>3. \A u \in T : u \subseteq t => u = t
    BY <1>2 DEF StrictSubsetOrdering
  <1> QED
    BY <1>3

(* Counting up from 0 to N one meets every number on the way.              *)
LEMMA CountUp ==
  ASSUME NEW N \in Nat, NEW S, 0 \in S, \A n \in 0 .. N : n # N /\ n \in S => n + 1 \in S
  PROVE  0 .. N \subseteq S
  <1> SUFFICES ASSUME NEW m \in 0 .. N, m \notin S PROVE FALSE
    OBVIOUS
  <1> DEFINE T == {0 .. n : n \in 0 .. N \ S}
  <1>1. T \in SUBSET SUBSET (0 .. N) /\ T # {}
    OBVIOUS
  <1>2. IsFiniteSet(0 .. N)
    BY FS_Interval
  <1>3. PICK t \in T : \A u \in T : u \subseteq t => u = t
    <2> DEFINE K == 0 .. N
    <2>1. T \in SUBSET SUBSET K /\ IsFiniteSet(K)
      BY <1>1, <1>2
    <2>2. T # {}
      BY <1>1
    <2> HIDE DEF T, K
    <2> QED
      BY ONLY <2>1, <2>2, LeastSubset
  <1>4. PICK n \in 0 .. N : t = 0 .. n /\ n \notin S
    OBVIOUS
  <1>5. n - 1 \in 0 .. N /\ n - 1 # N /\ (n - 1) + 1 = n
    BY <1>4
  <1>6. n - 1 \notin S
    BY <1>4, <1>5
  <1>7. 0 .. (n - 1) \in T /\ 0 .. (n - 1) \subseteq t
    BY <1>4, <1>5, <1>6
  <1>8. n \in t /\ n \notin 0 .. (n - 1)
    BY <1>4
  <1> QED
    BY <1>3, <1>7, <1>8

-----------------------------------------------------------------------------
(* Sums.  SumFunction chooses one argument after the other.                *)
Pick(s) == CHOOSE x \in s : TRUE
SumsOf(w, F, S) == w = [s \in SUBSET S |-> IF s = {} THEN 0 ELSE F[Pick(s)] + w[s \ {Pick(s)}]]

Summable(F) == F = [x \in DOMAIN F |-> F[x]] /\ IsFiniteSet(DOMAIN F) /\ \A x \in DOMAIN F : F[x] \in Nat

LEMMA SumChosen ==
  ASSUME NEW F
  PROVE  SumFunction(F) = (CHOOSE w : SumsOf(w, F, DOMAIN F))[DOMAIN F]
  BY DEF SumFunction, SumFunctionOnSet, FoldFunctionOnSet, MapThenFoldSet, SumsOf, Pick

(* The chosen one is one of the set.                                       *)
LEMMA PickIn ==
  ASSUME NEW s, s # {}
  PROVE  Pick(s) \in s
  BY DEF Pick

(* What a sum over a subset is                                             *)
LEMMA AddsAt ==
  ASSUME NEW w, NEW F, NEW S, SumsOf(w, F, S), NEW s \in SUBSET S
  PROVE  IF s = {} THEN w[s] = 0
         ELSE Pick(s) \in s /\ s \ {Pick(s)} \in SUBSET S /\ w[s] = F[Pick(s)] + w[s \ {Pick(s)}]
  <1> DEFINE x == Pick(s)
             val == IF s = {} THEN 0 ELSE F[x] + w[s \ {x}]
  <1>1. w[s] = val
    BY DEF SumsOf
  <1>2. s # {} => x \in s
    BY PickIn
  <1> HIDE DEF x
  <1> QED
    BY <1>1, <1>2 DEF x

(* Sums are numbers.                                                       *)
LEMMA AddsNat ==
  ASSUME NEW w, NEW F, NEW S, IsFiniteSet(S), \A x \in S : F[x] \in Nat, SumsOf(w, F, S)
  PROVE  \A s \in SUBSET S : w[s] \in Nat
  <1> DEFINE T == {s \in SUBSET S : w[s] \notin Nat}
  <1> SUFFICES ASSUME T # {} PROVE FALSE
    OBVIOUS
  <1>1. PICK t \in T : \A u \in T : u \subseteq t => u = t
    <2>1. T \in SUBSET SUBSET S
      OBVIOUS
    <2> HIDE DEF T
    <2> QED
      BY <2>1, LeastSubset
  <1> DEFINE x == Pick(t)
             u == t \ {x}
  <1>2. IF t = {} THEN w[t] = 0 ELSE x \in t /\ u \in SUBSET S /\ w[t] = F[x] + w[u]
    BY AddsAt
  <1> HIDE DEF x
  <1>3. t # {} /\ x \in t /\ u \subseteq t /\ u # t /\ u \in SUBSET S
    BY <1>2
  <1>4. u \notin T
    BY <1>1, <1>3
  <1>5. w[u] \in Nat /\ F[x] \in Nat
    BY <1>3, <1>4
  <1> HIDE DEF u
  <1> QED
    BY <1>2, <1>3, <1>5

(* Sums of the same values are the same, whatever else there is.           *)
LEMMA AddsSame ==
  ASSUME NEW v, NEW F, NEW S, NEW w, NEW G, NEW R \in SUBSET S, IsFiniteSet(S),
         SumsOf(v, F, S), SumsOf(w, G, R), \A x \in R : F[x] = G[x]
  PROVE  \A s \in SUBSET R : v[s] = w[s]
  <1> DEFINE T == {s \in SUBSET R : v[s] # w[s]}
  <1> SUFFICES ASSUME T # {} PROVE FALSE
    OBVIOUS
  <1>1. PICK t \in T : \A u \in T : u \subseteq t => u = t
    <2>1. T \in SUBSET SUBSET S
      OBVIOUS
    <2> HIDE DEF T
    <2> QED
      BY <2>1, LeastSubset
  <1> DEFINE x == Pick(t)
             u == t \ {x}
  <1>2. /\ IF t = {} THEN v[t] = 0 ELSE x \in t /\ u \in SUBSET S /\ v[t] = F[x] + v[u]
        /\ IF t = {} THEN w[t] = 0 ELSE x \in t /\ u \in SUBSET R /\ w[t] = G[x] + w[u]
    <2>1. t \in SUBSET S /\ t \in SUBSET R
      OBVIOUS
    <2>2. IF t = {} THEN v[t] = 0 ELSE x \in t /\ u \in SUBSET S /\ v[t] = F[x] + v[u]
      BY <2>1, AddsAt
    <2>3. IF t = {} THEN w[t] = 0 ELSE x \in t /\ u \in SUBSET R /\ w[t] = G[x] + w[u]
      BY <2>1, AddsAt
    <2> QED
      BY <2>2, <2>3
  <1> HIDE DEF x
  <1>3. t # {} /\ x \in t /\ u \subseteq t /\ u # t /\ u \in SUBSET R
    BY <1>2
  <1>4. v[u] = w[u]
    BY <1>1, <1>3
  <1>5. F[x] = G[x]
    BY <1>3
  <1> QED
    BY <1>2, <1>3, <1>4, <1>5

(* The order does not matter: any argument may be taken first.             *)
LEMMA AddsAny ==
  ASSUME NEW w, NEW F, NEW S, IsFiniteSet(S), \A x \in S : F[x] \in Nat, SumsOf(w, F, S)
  PROVE  \A s \in SUBSET S : \A x \in s : w[s] = F[x] + w[s \ {x}]
  <1> DEFINE T == {s \in SUBSET S : \E x \in s : w[s] # F[x] + w[s \ {x}]}
  <1> SUFFICES ASSUME T # {} PROVE FALSE
    OBVIOUS
  <1>1. PICK t \in T : \A u \in T : u \subseteq t => u = t
    <2>1. T \in SUBSET SUBSET S
      OBVIOUS
    <2> HIDE DEF T
    <2> QED
      BY <2>1, LeastSubset
  <1>2. PICK x \in t : w[t] # F[x] + w[t \ {x}]
    OBVIOUS
  <1> DEFINE y == Pick(t)
             u == t \ {x}
             v == t \ {y}
             r == u \ {y}
  <1>3. y \in t /\ w[t] = F[y] + w[v] /\ t \in SUBSET S
    BY AddsAt
  <1> HIDE DEF y
  <1>4. y # x
    BY <1>2, <1>3
  <1>5. /\ u \in SUBSET S /\ v \in SUBSET S /\ r \in SUBSET S
        /\ u # t /\ u \subseteq t /\ v # t /\ v \subseteq t
        /\ y \in u /\ x \in v /\ r = v \ {x}
    BY <1>3, <1>4
  <1>6. u \notin T /\ v \notin T
    BY <1>1, <1>5
  <1>7. w[u] = F[y] + w[r]
    BY <1>5, <1>6
  <1>8. w[v] = F[x] + w[r]
    BY <1>5, <1>6
  <1>9. F[x] \in Nat /\ F[y] \in Nat /\ w[r] \in Nat
    BY <1>3, <1>5, AddsNat
  <1> HIDE DEF u, v, r
  <1>10. w[t] = F[x] + w[u]
    BY <1>3, <1>7, <1>8, <1>9
  <1> QED
    BY <1>2, <1>10 DEF u

(* There are such sums.                                                    *)
LEMMA AddsExists ==
  ASSUME NEW F, NEW S, IsFiniteSet(S), \A x \in S : F[x] \in Nat
  PROVE  \E w : SumsOf(w, F, S)
  <1> DEFINE N == Cardinality(S)
             val(g, s) == IF s = {} THEN 0 ELSE F[Pick(s)] + g[s \ {Pick(s)}]
             upto(g, n) == \A s \in SUBSET S : Cardinality(s) <= n => g[s] = val(g, s)
             W == [SUBSET S -> Nat]
             K == {n \in 0 .. N : \E g \in W : upto(g, n)}
  <1>1. N \in Nat /\ \A s \in SUBSET S : IsFiniteSet(s) /\ Cardinality(s) \in Nat /\ Cardinality(s) <= N
    BY FS_CardinalityType, FS_Subset
  <1>2. \A s \in SUBSET S : s # {} =>
          /\ Pick(s) \in s /\ F[Pick(s)] \in Nat /\ s \ {Pick(s)} \in SUBSET S
          /\ Cardinality(s \ {Pick(s)}) = Cardinality(s) - 1
    <2> TAKE s \in SUBSET S
    <2> HAVE s # {}
    <2>1. Pick(s) \in s
      BY PickIn
    <2> QED
      BY <1>1, <2>1, FS_RemoveElement
  <1>3. 0 \in K
    <2> DEFINE g == [s \in SUBSET S |-> 0]
    <2>1. g \in W
      OBVIOUS
    <2>2. \A s \in SUBSET S : Cardinality(s) <= 0 => s = {}
      BY <1>1, FS_EmptySet
    <2>3. \A s \in SUBSET S : g[s] = 0
      OBVIOUS
    <2> HIDE DEF g
    <2>4. upto(g, 0)
      BY <2>2, <2>3
    <2> HIDE DEF upto, W
    <2> QED
      BY <1>1, <2>1, <2>4
  <1>4. ASSUME NEW n \in 0 .. N, n # N, n \in K PROVE n + 1 \in K
    <2>1. PICK g \in W : upto(g, n)
      BY <1>4
    <2> DEFINE h == [s \in SUBSET S |-> val(g, s)]
    <2>2. h \in W
      <3>1. \A s \in SUBSET S : s # {} => F[Pick(s)] \in Nat /\ g[s \ {Pick(s)}] \in Nat
        BY <1>2
      <3>2. \A s \in SUBSET S : val(g, s) \in Nat
        BY <3>1
      <3> HIDE DEF val
      <3> QED
        BY <3>2
    <2>3. \A s \in SUBSET S : h[s] = val(g, s)
      OBVIOUS
    <2>4. \A s \in SUBSET S : Cardinality(s) <= n => h[s] = g[s]
      BY <2>1, <2>3
    <2> HIDE DEF h
    <2>5. ASSUME NEW s \in SUBSET S, Cardinality(s) <= n + 1 PROVE h[s] = val(h, s)
      <3>1. CASE s = {}
        BY <2>3, <3>1
      <3>2. CASE s # {}
        <4> DEFINE u == s \ {Pick(s)}
        <4>1. u \in SUBSET S /\ Cardinality(u) = Cardinality(s) - 1 /\ Cardinality(s) \in Nat
          BY <1>1, <1>2, <3>2
        <4>2. Cardinality(u) <= n
          <5> DEFINE a == Cardinality(u)
                     b == Cardinality(s)
          <5>1. a = b - 1 /\ b \in Nat /\ b <= n + 1 /\ n \in Nat
            BY <1>1, <2>5, <4>1
          <5> HIDE DEF a, b
          <5>2. a <= n
            BY ONLY <5>1
          <5> QED
            BY <5>2 DEF a
        <4>3. h[u] = g[u]
          BY <2>4, <4>1, <4>2
        <4> QED
          BY <2>3, <3>2, <4>3
      <3> QED
        BY <3>1, <3>2
    <2>6. upto(h, n + 1)
      BY <2>5
    <2>7. n + 1 \in 0 .. N
      BY <1>1, <1>4
    <2> HIDE DEF upto, W
    <2> QED
      BY <2>2, <2>6, <2>7
  <1>5. N \in K
    <2> HIDE DEF K, N
    <2>1. 0 .. N \subseteq K
      BY <1>1, <1>3, <1>4, CountUp
    <2>2. N \in 0 .. N
      BY <1>1
    <2> QED
      BY <2>1, <2>2
  <1>6. PICK g \in W : upto(g, N)
    BY <1>5
  <1>7. \A s \in SUBSET S : g[s] = val(g, s)
    BY <1>1, <1>6
  <1>8. g = [s \in SUBSET S |-> g[s]]
    OBVIOUS
  <1> HIDE DEF val
  <1>9. g = [s \in SUBSET S |-> val(g, s)]
    BY <1>7, <1>8
  <1>10. SumsOf(g, F, S)
    BY <1>9 DEF SumsOf, val
  <1> QED
    BY <1>10

(* SumFunction adds.                                                       *)
LEMMA SumAdds ==
  ASSUME NEW F, Summable(F)
  PROVE  \E w : SumsOf(w, F, DOMAIN F) /\ SumFunction(F) = w[DOMAIN F]
  <1> DEFINE w == CHOOSE v : SumsOf(v, F, DOMAIN F)
  <1>1. \E v : SumsOf(v, F, DOMAIN F)
    BY AddsExists DEF Summable
  <1>2. SumsOf(w, F, DOMAIN F)
    BY <1>1
  <1>3. SumFunction(F) = w[DOMAIN F]
    BY SumChosen
  <1> HIDE DEF w
  <1> QED
    BY <1>2, <1>3

(* A sum of numbers is a number.                                           *)
LEMMA SumNat ==
  ASSUME NEW F, Summable(F)
  PROVE  SumFunction(F) \in Nat
  <1>1. PICK w : SumsOf(w, F, DOMAIN F) /\ SumFunction(F) = w[DOMAIN F]
    BY SumAdds
  <1>2. \A s \in SUBSET DOMAIN F : w[s] \in Nat
    BY <1>1, AddsNat DEF Summable
  <1> QED
    BY <1>1, <1>2

(* A sum of nothing                                                        *)
LEMMA SumNothing ==
  ASSUME NEW F, Summable(F), DOMAIN F = {}
  PROVE  SumFunction(F) = 0
  <1>1. PICK w : SumsOf(w, F, DOMAIN F) /\ SumFunction(F) = w[DOMAIN F]
    BY SumAdds
  <1>2. w[{}] = 0
    BY <1>1, AddsAt
  <1> QED
    BY <1>1, <1>2

(* One argument apart from the others                                      *)
Without(F, x) == [y \in DOMAIN F \ {x} |-> F[y]]

LEMMA SumApart ==
  ASSUME NEW F, Summable(F), NEW x \in DOMAIN F
  PROVE  Summable(Without(F, x)) /\ SumFunction(F) = F[x] + SumFunction(Without(F, x))
  <1> DEFINE G == Without(F, x)
             D == DOMAIN F
             R == DOMAIN G
  <1>1. R = D \ {x} /\ \A y \in R : F[y] = G[y]
    BY DEF Without
  <1>2. IsFiniteSet(D) /\ IsFiniteSet(R)
    BY <1>1, FS_RemoveElement DEF Summable
  <1>3. Summable(G)
    <2>1. G = [y \in R |-> G[y]]
      BY DEF Without
    <2>2. \A y \in R : G[y] \in Nat
      BY <1>1 DEF Summable
    <2> QED
      BY <1>2, <2>1, <2>2 DEF Summable
  <1>4. PICK v : SumsOf(v, F, D) /\ SumFunction(F) = v[D]
    BY SumAdds
  <1>5. PICK w : SumsOf(w, G, R) /\ SumFunction(G) = w[R]
    BY <1>3, SumAdds
  <1>6. \A y \in D : F[y] \in Nat
    BY DEF Summable
  <1> HIDE DEF G, D, R
  <1>7. v[D] = F[x] + v[D \ {x}]
    <2>1. D \in SUBSET D /\ x \in D
      BY DEF D
    <2> QED
      BY <1>2, <1>4, <1>6, <2>1, AddsAny
  <1>8. v[R] = w[R]
    <2>1. R \in SUBSET D /\ R \in SUBSET R
      BY <1>1
    <2> QED
      BY <1>1, <1>2, <1>4, <1>5, <2>1, AddsSame
  <1>9. Summable(G) /\ SumFunction(F) = F[x] + SumFunction(G)
    BY <1>1, <1>3, <1>4, <1>5, <1>7, <1>8
  <1> QED
    BY <1>9 DEF G

(* What changes in one place changes the sum by as much.                   *)
LEMMA SumChange ==
  ASSUME NEW F, NEW G, Summable(F), Summable(G), DOMAIN G = DOMAIN F, NEW x \in DOMAIN F,
         \A y \in DOMAIN F : y # x => G[y] = F[y]
  PROVE  /\ SumFunction(G) + F[x] = SumFunction(F) + G[x]
         /\ SumFunction(F) \in Nat /\ SumFunction(G) \in Nat /\ F[x] \in Nat /\ G[x] \in Nat
  <1>1. Without(G, x) = Without(F, x)
    BY DEF Without
  <1>2. SumFunction(F) = F[x] + SumFunction(Without(F, x)) /\ Summable(Without(F, x))
    BY SumApart
  <1>3. SumFunction(G) = G[x] + SumFunction(Without(G, x))
    BY SumApart
  <1>4. SumFunction(Without(F, x)) \in Nat /\ F[x] \in Nat /\ G[x] \in Nat
    BY <1>2, SumNat DEF Summable
  <1>5. SumFunction(F) \in Nat /\ SumFunction(G) \in Nat
    BY SumNat
  <1> QED
    BY <1>1, <1>2, <1>3, <1>4, <1>5

(* One value more                                                          *)
LEMMA SumMore ==
  ASSUME NEW F, NEW G, Summable(G), NEW x \in DOMAIN G, DOMAIN F = DOMAIN G \ {x},
         F = [y \in DOMAIN F |-> F[y]], \A y \in DOMAIN F : G[y] = F[y]
  PROVE  /\ Summable(F) /\ SumFunction(G) = SumFunction(F) + G[x]
         /\ SumFunction(F) \in Nat /\ SumFunction(G) \in Nat /\ G[x] \in Nat
  <1>1. Without(G, x) = F
    <2>1. Without(G, x) = [y \in DOMAIN F |-> G[y]]
      BY DEF Without
    <2>2. [y \in DOMAIN F |-> G[y]] = [y \in DOMAIN F |-> F[y]]
      OBVIOUS
    <2> QED
      BY <2>1, <2>2
  <1>2. SumFunction(G) = G[x] + SumFunction(Without(G, x)) /\ Summable(Without(G, x))
    BY SumApart
  <1>3. G[x] \in Nat
    BY DEF Summable
  <1>4. SumFunction(F) \in Nat /\ SumFunction(G) \in Nat
    BY <1>1, <1>2, SumNat
  <1> QED
    BY <1>1, <1>2, <1>3, <1>4

(* Sequences of numbers                                                    *)
LEMMA SumOfSeq ==
  ASSUME NEW s \in Seq(Nat)
  PROVE  Summable(s) /\ SumFunction(s) \in Nat /\ DOMAIN s = 1 .. Len(s) /\ Len(s) \in Nat
  <1>1. DOMAIN s = 1 .. Len(s) /\ Len(s) \in Nat /\ s = [i \in DOMAIN s |-> s[i]] /\ \A i \in DOMAIN s : s[i] \in Nat
    OBVIOUS
  <1>2. IsFiniteSet(DOMAIN s)
    <2> DEFINE n == Len(s)
    <2>1. n \in Nat /\ 1 \in Int
      BY <1>1
    <2> HIDE DEF n
    <2>2. IsFiniteSet(1 .. n)
      BY <2>1, FS_Interval
    <2> QED
      BY <1>1, <2>2 DEF n
  <1>3. Summable(s)
    BY <1>1, <1>2 DEF Summable
  <1> QED
    BY <1>1, <1>3, SumNat

(* One number behind                                                       *)
LEMMA SumAppend ==
  ASSUME NEW s \in Seq(Nat), NEW x \in Nat
  PROVE  SumFunction(Append(s, x)) = SumFunction(s) + x
  <1> DEFINE t == Append(s, x)
             n == Len(s) + 1
  <1>1. t \in Seq(Nat) /\ Len(t) = n /\ t[n] = x /\ \A i \in 1 .. Len(s) : t[i] = s[i]
    OBVIOUS
  <1>2. Summable(s) /\ DOMAIN s = 1 .. Len(s) /\ Len(s) \in Nat
    BY SumOfSeq
  <1> HIDE DEF t
  <1>3. Summable(t) /\ DOMAIN t = 1 .. n
    BY <1>1, SumOfSeq
  <1>4. n \in DOMAIN t /\ DOMAIN s = DOMAIN t \ {n}
    BY <1>2, <1>3
  <1>5. s = [y \in DOMAIN s |-> s[y]]
    OBVIOUS
  <1> HIDE DEF n
  <1>6. \A y \in DOMAIN s : t[y] = s[y]
    BY <1>1, <1>2
  <1>7. SumFunction(t) = SumFunction(s) + t[n]
    BY <1>3, <1>4, <1>5, <1>6, SumMore
  <1> QED
    BY <1>1, <1>7 DEF t

(* The first number apart from the others                                  *)
LEMMA SumHead ==
  ASSUME NEW s \in Seq(Nat), s # <<>>
  PROVE  SumFunction(s) = Head(s) + SumFunction(Tail(s)) /\ Head(s) \in Nat /\ Tail(s) \in Seq(Nat)
  <1> DEFINE N == Len(s) - 1
             r == Tail(s)
             a(n) == [i \in 1 .. n + 1 |-> s[i]]
             b(n) == [i \in 1 .. n |-> s[i + 1]]
             K == {n \in 0 .. N : SumFunction(a(n)) = s[1] + SumFunction(b(n))}
  <1>1. N \in Nat /\ Len(s) = N + 1 /\ s[1] \in Nat /\ Head(s) = s[1] /\ r \in Seq(Nat)
        /\ \A i \in 1 .. N + 1 : s[i] \in Nat
    OBVIOUS
  <1>2. ASSUME NEW n \in 0 .. N
        PROVE  a(n) \in Seq(Nat) /\ b(n) \in Seq(Nat) /\ Len(a(n)) = n + 1 /\ Len(b(n)) = n
    <2>1. n \in Nat /\ n + 1 \in Nat /\ \A i \in 1 .. n : i + 1 \in 1 .. N + 1
      BY <1>1
    <2>2. \A i \in 1 .. n + 1 : i \in 1 .. N + 1
      BY <1>1
    <2> QED
      BY <1>1, <2>1, <2>2
  <1>3. 0 \in K
    <2>1. a(0) \in Seq(Nat) /\ b(0) \in Seq(Nat) /\ Len(a(0)) = 1 /\ Len(b(0)) = 0 /\ a(0)[1] = s[1]
      BY <1>1, <1>2
    <2> DEFINE x == a(0)
               y == b(0)
               z == <<>>
    <2> HIDE DEF a, b
    <2>2. x = Append(z, s[1]) /\ z \in Seq(Nat) /\ y = z
      BY <2>1
    <2> HIDE DEF z
    <2>3. SumFunction(x) = SumFunction(z) + s[1]
      BY <1>1, <2>2, SumAppend
    <2>4. SumFunction(z) \in Nat
      BY <2>2, SumOfSeq
    <2> QED
      BY <1>1, <2>2, <2>3, <2>4
  <1>4. ASSUME NEW n \in 0 .. N, n # N, n \in K PROVE n + 1 \in K
    <2>1. n + 1 \in 0 .. N /\ n + 2 \in 1 .. N + 1 /\ (n + 1) + 1 = n + 2 /\ n \in Nat
      <3>1. N \in Nat /\ n \in 0 .. N /\ n # N
        BY <1>1, <1>4
      <3> HIDE DEF N
      <3> QED
        BY ONLY <3>1
    <2> DEFINE x == s[n + 2]
    <2>2. x \in Nat
      BY <1>1, <2>1
    <2>3. a(n + 1) = Append(a(n), x)
      <3>1. a(n) \in Seq(Nat) /\ Len(a(n)) = n + 1 /\ a(n + 1) \in Seq(Nat) /\ Len(a(n + 1)) = n + 2
        BY <1>2, <2>1
      <3>2. \A i \in 1 .. n + 2 : a(n + 1)[i] = s[i]
        BY <2>1
      <3>3. \A i \in 1 .. n + 1 : a(n)[i] = s[i]
        OBVIOUS
      <3> DEFINE u == a(n)
                 v == a(n + 1)
      <3> HIDE DEF u, v, x
      <3>4. Append(u, x) \in Seq(Nat) /\ Len(Append(u, x)) = n + 2 /\ Append(u, x)[n + 2] = x
            /\ \A i \in 1 .. n + 1 : Append(u, x)[i] = u[i]
        <4>1. u \in Seq(Nat) /\ Len(u) = n + 1
          BY <3>1 DEF u
        <4> QED
          BY ONLY <2>1, <2>2, <4>1
      <3>5. \A i \in 1 .. n + 2 : v[i] = Append(u, x)[i]
        <4> TAKE i \in 1 .. n + 2
        <4>1. i \in 1 .. n + 1 \/ i = n + 2
          BY <2>1
        <4> QED
          BY <3>2, <3>3, <3>4, <4>1 DEF u, v, x
      <3>6. v \in Seq(Nat) /\ Len(v) = n + 2
        BY <3>1 DEF v
      <3>7. v = Append(u, x)
        BY <3>4, <3>5, <3>6
      <3> QED
        BY <3>7 DEF u, v
    <2>4. b(n + 1) = Append(b(n), x)
      <3>1. b(n) \in Seq(Nat) /\ Len(b(n)) = n /\ b(n + 1) \in Seq(Nat) /\ Len(b(n + 1)) = n + 1
        BY <1>2, <2>1
      <3>2. \A i \in 1 .. n + 1 : b(n + 1)[i] = s[i + 1]
        OBVIOUS
      <3>3. \A i \in 1 .. n : b(n)[i] = s[i + 1]
        OBVIOUS
      <3> DEFINE u == b(n)
                 v == b(n + 1)
      <3> HIDE DEF u, v, x
      <3>4. Append(u, x) \in Seq(Nat) /\ Len(Append(u, x)) = n + 1 /\ Append(u, x)[n + 1] = x
            /\ \A i \in 1 .. n : Append(u, x)[i] = u[i]
        <4>1. u \in Seq(Nat) /\ Len(u) = n
          BY <3>1 DEF u
        <4> QED
          BY ONLY <2>1, <2>2, <4>1
      <3>5. \A i \in 1 .. n + 1 : v[i] = Append(u, x)[i]
        <4> TAKE i \in 1 .. n + 1
        <4>1. i \in 1 .. n \/ i = n + 1
          BY <2>1
        <4> QED
          BY <2>1, <3>2, <3>3, <3>4, <4>1 DEF u, v, x
      <3>6. v \in Seq(Nat) /\ Len(v) = n + 1
        BY <3>1 DEF v
      <3>7. v = Append(u, x)
        BY <3>4, <3>5, <3>6
      <3> QED
        BY <3>7 DEF u, v
    <2>5. a(n) \in Seq(Nat) /\ b(n) \in Seq(Nat)
      BY <1>2
    <2>6. SumFunction(a(n)) = s[1] + SumFunction(b(n))
      BY <1>4
    <2> DEFINE u == a(n)
               v == b(n)
               up == a(n + 1)
               vp == b(n + 1)
    <2>10. up = Append(u, x) /\ vp = Append(v, x)
      BY <2>3, <2>4
    <2>11. u \in Seq(Nat) /\ v \in Seq(Nat) /\ SumFunction(u) = s[1] + SumFunction(v)
      BY <2>5, <2>6
    <2> HIDE DEF u, v, up, vp, x
    <2>7. SumFunction(Append(u, x)) = SumFunction(u) + x /\ SumFunction(Append(v, x)) = SumFunction(v) + x
      BY <2>2, <2>11, SumAppend
    <2>8. SumFunction(u) \in Nat /\ SumFunction(v) \in Nat
      BY <2>11, SumOfSeq
    <2>9. SumFunction(up) = s[1] + SumFunction(vp)
      <3> DEFINE su == SumFunction(u)
                 sv == SumFunction(v)
                 y == s[1]
      <3>1. SumFunction(up) = su + x /\ SumFunction(vp) = sv + x /\ su = y + sv
            /\ su \in Nat /\ sv \in Nat /\ x \in Nat /\ y \in Nat
        BY <1>1, <2>2, <2>7, <2>8, <2>10, <2>11
      <3> HIDE DEF su, sv, y
      <3>2. su + x = y + (sv + x)
        BY ONLY <3>1
      <3> QED
        BY <3>1, <3>2 DEF y
    <2> QED
      BY <2>1, <2>9 DEF up, vp
  <1>5. N \in K
    <2>1. 0 \in K /\ \A n \in 0 .. N : n # N /\ n \in K => n + 1 \in K
      BY <1>3, <1>4
    <2> HIDE DEF K, N
    <2>2. 0 .. N \subseteq K
      BY <1>1, <2>1, CountUp
    <2>3. N \in 0 .. N
      BY <1>1
    <2> QED
      BY <2>2, <2>3
  <1>6. a(N) = s
    <2>1. DOMAIN s = 1 .. N + 1 /\ s = [i \in DOMAIN s |-> s[i]]
      BY <1>1
    <2> HIDE DEF N
    <2> QED
      BY <2>1
  <1>7. b(N) = r
    <2>1. r \in Seq(Nat) /\ Len(r) = N /\ \A i \in 1 .. N : r[i] = s[i + 1]
      BY <1>1
    <2>2. DOMAIN r = 1 .. N /\ r = [i \in DOMAIN r |-> r[i]]
      <3> HIDE DEF N, r
      <3> QED
        BY <2>1
    <2> HIDE DEF N, r
    <2> QED
      BY <2>1, <2>2
  <1> QED
    BY <1>1, <1>5, <1>6, <1>7

-----------------------------------------------------------------------------
(* Functions defined by counting up                                        *)

(* A function defined by counting up, each value from the one before.      *)
Counted(g, N, b, F) == g = [n \in 0 .. N |-> IF n = 0 THEN b ELSE F[n][g[n - 1]]]

(* There is such a function, as long as each step leads from D to D.       *)
LEMMA CountedExists ==
  ASSUME NEW N \in Nat, NEW D, NEW b \in D, NEW F, \A n \in 1 .. N : F[n] \in [D -> D]
  PROVE  \E g \in [0 .. N -> D] : Counted(g, N, b, F)
  <1> DEFINE S == {n \in 0 .. N : \E g \in [0 .. n -> D] : Counted(g, n, b, F)}
  <1>1. 0 \in S
    <2> DEFINE g == [n \in 0 .. 0 |-> b]
    <2>1. g \in [0 .. 0 -> D] /\ Counted(g, 0, b, F)
      BY DEF Counted
    <2> HIDE DEF g
    <2> QED
      BY <2>1
  <1>2. ASSUME NEW n \in 0 .. N, n # N, n \in S PROVE n + 1 \in S
    <2>1. PICK g \in [0 .. n -> D] : Counted(g, n, b, F)
      BY <1>2
    <2> DEFINE h == [m \in 0 .. n + 1 |-> IF m = n + 1 THEN F[n + 1][g[n]] ELSE g[m]]
    <2>2. F[n + 1] \in [D -> D] /\ g[n] \in D /\ n + 1 \in 0 .. N
      BY <1>2
    <2>3. h \in [0 .. n + 1 -> D]
      BY <2>2
    <2>4. \A m \in 0 .. n : h[m] = g[m]
      OBVIOUS
    <2>5. h[n + 1] = F[n + 1][g[n]]
      OBVIOUS
    <2>6. \A m \in 0 .. n : g[m] = IF m = 0 THEN b ELSE F[m][g[m - 1]]
      BY <2>1 DEF Counted
    <2>7. ASSUME NEW m \in 0 .. n + 1 PROVE h[m] = IF m = 0 THEN b ELSE F[m][h[m - 1]]
      <3>1. CASE m = n + 1
        <4>1. m - 1 = n /\ m # 0
          BY <3>1
        <4> HIDE DEF h
        <4> QED
          BY <2>4, <2>5, <3>1, <4>1
      <3>2. CASE m # n + 1
        <4>1. m \in 0 .. n /\ (m # 0 => m - 1 \in 0 .. n)
          BY <3>2
        <4> HIDE DEF h
        <4> QED
          BY <2>4, <2>6, <4>1
      <3> QED
        BY <3>1, <3>2
    <2> HIDE DEF h
    <2>8. Counted(h, n + 1, b, F)
      <3>1. h = [m \in 0 .. n + 1 |-> h[m]]
        BY <2>3
      <3> QED
        BY <2>7, <3>1 DEF Counted
    <2> QED
      BY <2>2, <2>3, <2>8
  <1>3. N \in S
    <2> HIDE DEF S
    <2>1. 0 .. N \subseteq S
      BY <1>1, <1>2, CountUp
    <2> QED
      BY <2>1
  <1> QED
    BY <1>3

-----------------------------------------------------------------------------
(* What entries are worth                                                  *)

(* What there is in a directory, when its entries are worth what v says    *)
Inside(v, e) == IF IsDir(e) THEN SumFunction([f \in disk.in[e] |-> v[f]]) ELSE 0

Plain(v, e) == IF e \in disk.others THEN 0 ELSE disk.size[e] + Inside(v, e)

Deeper(v) ==
  [e \in DOMAIN disk.size |->
     IF ~IsLink(e) THEN Plain(v, e)
     ELSE IF program = "myDU" THEN Plain(v, disk.link[e]) ELSE disk.size[disk.link[e]]]

Worths == [DOMAIN disk.size -> Nat]

Weighed(W) ==
  /\ W \in [0 .. MaxFds -> Worths]
  /\ \A n \in 1 .. MaxFds : W[n] = Deeper(W[n - 1])

(* What the program may meet on a disk                                     *)
LEMMA DiskFacts ==
  ASSUME disk \in Disks
  PROVE  /\ MaxFds \in Nat /\ disk.size \in [DOMAIN disk.size -> Nat]
         /\ \A e \in DOMAIN disk.in :
              /\ e \in DOMAIN disk.size /\ disk.in[e] \subseteq DOMAIN disk.size
              /\ IsFiniteSet(disk.in[e]) /\ ~IsLink(e) /\ e \notin disk.others
         /\ \A e \in DOMAIN disk.link :
              disk.link[e] \in DOMAIN disk.size /\ ~IsLink(disk.link[e]) /\ e \notin disk.others
  <1>1. MaxFds \in Nat /\ disk.size \in [DOMAIN disk.size -> Nat]
    BY DirSizeAssumption
  <1>2. ASSUME NEW e \in DOMAIN disk.in
        PROVE  /\ e \in DOMAIN disk.size /\ disk.in[e] \subseteq DOMAIN disk.size
               /\ IsFiniteSet(disk.in[e]) /\ e \notin DOMAIN disk.link /\ e \notin disk.others
    BY DirSizeAssumption
  <1>3. ASSUME NEW e \in DOMAIN disk.link
        PROVE  disk.link[e] \in DOMAIN disk.size /\ disk.link[e] \notin DOMAIN disk.link /\ e \notin disk.others
    BY DirSizeAssumption
  <1> QED
    BY <1>1, <1>2, <1>3 DEF IsLink

(* Worths of some entries can be added.                                    *)
LEMMA SumWorths ==
  ASSUME NEW K, NEW v \in [K -> Nat], NEW S \in SUBSET K, IsFiniteSet(S)
  PROVE  Summable([f \in S |-> v[f]]) /\ SumFunction([f \in S |-> v[f]]) \in Nat
  <1> DEFINE F == [f \in S |-> v[f]]
  <1>1. DOMAIN F = S /\ F = [f \in DOMAIN F |-> F[f]] /\ \A f \in DOMAIN F : F[f] \in Nat
    OBVIOUS
  <1> HIDE DEF F
  <1>2. Summable(F)
    BY <1>1 DEF Summable
  <1> QED
    BY <1>2, SumNat DEF F

(* Worths one deeper are numbers too.                                      *)
LEMMA DeeperType ==
  ASSUME disk \in Disks, NEW v \in Worths
  PROVE  /\ \A e \in DOMAIN disk.size : Inside(v, e) \in Nat /\ Plain(v, e) \in Nat
         /\ Deeper(v) \in Worths
  <1>1. ASSUME NEW e \in DOMAIN disk.size PROVE Inside(v, e) \in Nat
    <2>1. CASE IsDir(e)
      <3> DEFINE S == disk.in[e]
                 K == DOMAIN disk.size
      <3>1. S \in SUBSET K /\ IsFiniteSet(S) /\ v \in [K -> Nat]
        BY <2>1, DiskFacts DEF IsDir, Worths
      <3> HIDE DEF S, K
      <3>2. SumFunction([f \in S |-> v[f]]) \in Nat
        BY <3>1, SumWorths
      <3> QED
        BY <2>1, <3>2 DEF Inside, S
    <2>2. CASE ~IsDir(e)
      BY <2>2 DEF Inside
    <2> QED
      BY <2>1, <2>2
  <1>2. ASSUME NEW e \in DOMAIN disk.size PROVE Plain(v, e) \in Nat
    BY <1>1, DiskFacts DEF Plain
  <1>3. ASSUME NEW e \in DOMAIN disk.size
        PROVE  IsLink(e) => disk.link[e] \in DOMAIN disk.size /\ disk.size[disk.link[e]] \in Nat
    BY DiskFacts DEF IsLink
  <1>4. Deeper(v) \in Worths
    BY <1>2, <1>3 DEF Deeper, Worths
  <1> QED
    BY <1>1, <1>2, <1>4

(* Worth is what it is said to be.                                         *)
LEMMA WorthWeighed ==
  ASSUME disk \in Disks
  PROVE  Weighed(Worth) /\ \A e \in DOMAIN disk.size : Worth[0][e] = 0
  <1> DEFINE zero == [e \in DOMAIN disk.size |-> 0]
             N == MaxFds
             D == Worths
             F == [n \in 1 .. N |-> [v \in D |-> Deeper(v)]]
             Is(g) == g = [n \in 0 .. N |->
                LET plain(e) ==
                      IF e \in disk.others THEN 0
                      ELSE disk.size[e] + IF IsDir(e) THEN SumFunction([f \in disk.in[e] |-> g[n - 1][f]]) ELSE 0
                IN [e \in DOMAIN disk.size |->
                      IF n = 0 THEN 0
                      ELSE IF ~IsLink(e) THEN plain(e)
                      ELSE IF program = "myDU" THEN plain(disk.link[e]) ELSE disk.size[disk.link[e]]]]
             To(g) == g = [n \in 0 .. N |-> IF n = 0 THEN zero ELSE Deeper(g[n - 1])]
  <1>1. Worth = CHOOSE g : Is(g)
    BY DEF Worth
  <1>2. N \in Nat /\ zero \in D /\ \A n \in 1 .. N : F[n] \in [D -> D]
    BY DiskFacts, DeeperType DEF Worths
  <1>3. \A n \in 1 .. N : \A v \in D : F[n][v] = Deeper(v)
    OBVIOUS
  <1>4. ASSUME NEW g PROVE Is(g) <=> To(g)
    <2> DEFINE ato(n) == IF n = 0 THEN zero ELSE Deeper(g[n - 1])
               ais(n) == LET plain(e) ==
                      IF e \in disk.others THEN 0
                      ELSE disk.size[e] + IF IsDir(e) THEN SumFunction([f \in disk.in[e] |-> g[n - 1][f]]) ELSE 0
                IN [e \in DOMAIN disk.size |->
                      IF n = 0 THEN 0
                      ELSE IF ~IsLink(e) THEN plain(e)
                      ELSE IF program = "myDU" THEN plain(disk.link[e]) ELSE disk.size[disk.link[e]]]
    <2>1. ASSUME NEW n \in 0 .. N PROVE ais(n) = ato(n)
      <3>1. CASE n = 0
        BY <3>1
      <3>2. CASE n # 0
        BY <3>2 DEF Deeper, Plain, Inside
      <3> QED
        BY <3>1, <3>2
    <2>2. [n \in 0 .. N |-> ais(n)] = [n \in 0 .. N |-> ato(n)]
      <3> HIDE DEF ais, ato
      <3> QED
        BY <2>1
    <2>3. (Is(g) <=> g = [n \in 0 .. N |-> ais(n)]) /\ (To(g) <=> g = [n \in 0 .. N |-> ato(n)])
      OBVIOUS
    <2> HIDE DEF Is, To, ais, ato
    <2> QED
      BY <2>2, <2>3
  <1>5. PICK g \in [0 .. N -> D] : Counted(g, N, zero, F)
    <2> HIDE DEF N, D, F, zero
    <2> QED
      BY <1>2, CountedExists
  <1>6. To(g)
    <2> HIDE DEF D, F, N, zero
    <2>1. \A n \in 1 .. N : F[n][g[n - 1]] = Deeper(g[n - 1])
      BY <1>2, <1>3
    <2>2. [n \in 0 .. N |-> IF n = 0 THEN zero ELSE F[n][g[n - 1]]]
            = [n \in 0 .. N |-> IF n = 0 THEN zero ELSE Deeper(g[n - 1])]
      BY <1>2, <2>1
    <2>3. g = [n \in 0 .. N |-> IF n = 0 THEN zero ELSE F[n][g[n - 1]]]
      BY <1>5 DEF Counted
    <2> QED
      BY <2>2, <2>3
  <1>7. To(Worth)
    <2> HIDE DEF Is, To
    <2>1. Is(g)
      BY <1>4, <1>6
    <2>2. Is(Worth)
      BY <1>1, <2>1
    <2> QED
      BY <1>4, <2>2
  <1> HIDE DEF F, Is, D
  <1>8. /\ DOMAIN Worth = 0 .. N /\ Worth[0] = zero /\ Worth = [n \in 0 .. N |-> Worth[n]]
        /\ \A n \in 1 .. N : Worth[n] = Deeper(Worth[n - 1])
    <2> DEFINE W == Worth
    <2>1. W = [n \in 0 .. N |-> IF n = 0 THEN zero ELSE Deeper(W[n - 1])] /\ N \in Nat
      BY <1>2, <1>7
    <2> HIDE DEF W, N, zero
    <2> QED
      BY <2>1 DEF W
  <1> DEFINE S == {n \in 0 .. N : Worth[n] \in D}
  <1>9. 0 .. N \subseteq S
    <2>1. 0 \in S
      BY <1>2, <1>8
    <2>2. ASSUME NEW n \in 0 .. N, n # N, n \in S PROVE n + 1 \in S
      <3>1. n + 1 \in 1 .. N /\ (n + 1) - 1 = n /\ Worth[n] \in Worths
        <4> HIDE DEF N
        <4> QED
          BY <1>2, <2>2 DEF D
      <3>2. Worth[n + 1] = Deeper(Worth[n])
        BY <1>8, <3>1
      <3> QED
        BY <3>1, <3>2, DeeperType DEF D
    <2> HIDE DEF S, N
    <2> QED
      BY <1>2, <2>1, <2>2, CountUp
  <1>10. Worth \in [0 .. N -> D]
    BY <1>8, <1>9
  <1>11. \A e \in DOMAIN disk.size : Worth[0][e] = 0
    BY <1>8
  <1> QED
    BY <1>8, <1>10, <1>11 DEF Weighed, D

(* What a directory comes to                                               *)
SumsUp(W, n, e) == W[n][e] = disk.size[e] + SumFunction([f \in disk.in[e] |-> W[n - 1][f]])

(* What entry e comes to, for a disk whose entries have worths             *)
LEMMA WeighedFacts ==
  ASSUME disk \in Disks, NEW W, Weighed(W), NEW n \in 1 .. MaxFds, NEW e \in DOMAIN disk.size
  PROVE  /\ n - 1 \in 0 .. MaxFds /\ W[n] \in Worths /\ W[n - 1] \in Worths /\ W[n][e] \in Nat
         /\ IsDir(e) => SumsUp(W, n, e)
         /\ IsFile(e) => W[n][e] = disk.size[e]
         /\ e \in disk.others => W[n][e] = 0
         /\ IsLink(e) => disk.link[e] \in DOMAIN disk.size /\ W[n][disk.link[e]] \in Nat
         /\ IsLink(e) /\ program = "myDU" => W[n][e] = W[n][disk.link[e]]
         /\ IsLink(e) /\ program # "myDU" => W[n][e] = disk.size[disk.link[e]]
  <1> DEFINE v == W[n - 1]
  <1>1. n - 1 \in 0 .. MaxFds /\ n \in 0 .. MaxFds
    BY DiskFacts
  <1>2. v \in Worths /\ W[n] \in Worths /\ W[n] = Deeper(v)
    BY <1>1 DEF Weighed
  <1> HIDE DEF v
  <1>3. /\ IsDir(e) => ~IsLink(e) /\ e \notin disk.others
        /\ e \in disk.others => ~IsLink(e)
        /\ IsLink(e) => disk.link[e] \in DOMAIN disk.size /\ ~IsLink(disk.link[e])
    BY DiskFacts DEF IsDir, IsLink
  <1>4. W[n][e] \in Nat /\ (IsLink(e) => W[n][disk.link[e]] \in Nat)
    BY <1>2, <1>3 DEF Worths
  <1>5. W[n][e] = IF ~IsLink(e) THEN Plain(v, e)
                  ELSE IF program = "myDU" THEN Plain(v, disk.link[e]) ELSE disk.size[disk.link[e]]
    BY <1>2 DEF Deeper
  <1>6. IsLink(e) => W[n][disk.link[e]] = Plain(v, disk.link[e])
    BY <1>2, <1>3 DEF Deeper
  <1>7. disk.size[e] \in Nat
    BY DiskFacts
  <1>8. IsDir(e) => SumsUp(W, n, e)
    BY <1>3, <1>5 DEF Plain, Inside, SumsUp, v
  <1>9. IsFile(e) => W[n][e] = disk.size[e]
    BY <1>5, <1>7 DEF Plain, Inside, IsFile
  <1>10. e \in disk.others => W[n][e] = 0
    BY <1>3, <1>5 DEF Plain
  <1> QED
    BY <1>1, <1>2, <1>3, <1>4, <1>5, <1>6, <1>8, <1>9, <1>10 DEF v

-----------------------------------------------------------------------------
(* What calls and processes have, and have yet to come to                  *)

(* CallHas and ProcessHas for any worths W                                 *)
Coming(W, c) == SumFunction([e \in c.todo |-> W[MaxFds - Len(c.path) - 1][e]])

CallWorth(W, c) ==
  IF c.phase = "enter" THEN W[MaxFds - Len(c.path)][c.dir] ELSE c.dirSize + Coming(W, c)

CallsWorth(W, s) == SumFunction([i \in DOMAIN s |-> CallWorth(W, s[i])])

(* What a call has to do is finite, and as deep as there are descriptors;  *)
(* there is no pipe yet of a call that has yet to open its own, nor below  *)
(* an entry that a call has yet to come to.                                *)
CallOK(c, D, K) ==
  /\ c.dir \in K
  /\ IF c.phase = "enter" THEN Len(c.path) <= MaxFds /\ c.path \notin D
     ELSE Len(c.path) + 2 <= MaxFds /\ IsFiniteSet(c.todo) /\ c.todo \subseteq K
  /\ c.phase = "read" => c.todo = {}
  /\ \A e \in Open(c), path \in D : ~Below(Append(c.path, e), path)

(* A call past opening its pipe can add what it has yet to come to.        *)
LEMMA ComingFacts ==
  ASSUME disk \in Disks, NEW W, Weighed(W), NEW c \in CallRecs, NEW D, CallOK(c, D, DOMAIN disk.size),
         c.phase # "enter"
  PROVE  /\ MaxFds - Len(c.path) - 1 \in 1 .. MaxFds /\ Len(c.path) \in Nat
         /\ MaxFds - Len(c.path) \in 1 .. MaxFds
         /\ Summable([e \in c.todo |-> W[MaxFds - Len(c.path) - 1][e]])
         /\ Coming(W, c) \in Nat /\ c.dirSize \in Nat /\ c.todo \subseteq DOMAIN disk.size
         /\ \A e \in c.todo : W[MaxFds - Len(c.path) - 1][e] \in Nat
  <1> DEFINE n == MaxFds - Len(c.path) - 1
             K == DOMAIN disk.size
             S == c.todo
  <1>1. Len(c.path) \in Nat /\ c.dirSize \in Nat
    BY DEF CallRecs, Paths
  <1>2. Len(c.path) + 2 <= MaxFds /\ IsFiniteSet(S) /\ S \subseteq K /\ MaxFds \in Nat
    BY DiskFacts DEF CallOK
  <1>3. n \in 1 .. MaxFds /\ n \in 0 .. MaxFds /\ MaxFds - Len(c.path) \in 1 .. MaxFds
    <2> DEFINE k == Len(c.path)
    <2> HIDE DEF k
    <2>1. k \in Nat /\ k + 2 <= MaxFds /\ MaxFds \in Nat
      BY <1>1, <1>2 DEF k
    <2>2. MaxFds - k - 1 \in 1 .. MaxFds /\ MaxFds - k - 1 \in 0 .. MaxFds /\ MaxFds - k \in 1 .. MaxFds
      BY ONLY <2>1
    <2> QED
      BY <2>2 DEF k
  <1>4. W[n] \in [K -> Nat]
    BY <1>3 DEF Weighed, Worths
  <1> HIDE DEF K, n, S
  <1>5. Summable([e \in S |-> W[n][e]]) /\ SumFunction([e \in S |-> W[n][e]]) \in Nat
    <2> DEFINE v == W[n]
    <2>1. v \in [K -> Nat]
      BY <1>4
    <2> HIDE DEF v
    <2>2. Summable([e \in S |-> v[e]]) /\ SumFunction([e \in S |-> v[e]]) \in Nat
      BY <1>2, <2>1, SumWorths
    <2> QED
      BY <2>2 DEF v
  <1> QED
    BY <1>1, <1>2, <1>3, <1>4, <1>5 DEF n, K, S, Coming

(* What a call has is a number.                                            *)
LEMMA CallWorthNat ==
  ASSUME disk \in Disks, NEW W, Weighed(W), NEW c \in CallRecs, NEW D, CallOK(c, D, DOMAIN disk.size)
  PROVE  CallWorth(W, c) \in Nat
  <1>1. CASE c.phase = "enter"
    <2> DEFINE k == Len(c.path)
    <2>1. k \in Nat /\ k <= MaxFds /\ MaxFds \in Nat /\ c.dir \in DOMAIN disk.size
      BY <1>1, DiskFacts DEF CallRecs, Paths, CallOK
    <2> HIDE DEF k
    <2>2. MaxFds - k \in 0 .. MaxFds
      BY <2>1
    <2>3. W[MaxFds - k] \in Worths
      BY <2>2 DEF Weighed
    <2>4. W[MaxFds - k][c.dir] \in Nat
      BY <2>1, <2>3 DEF Worths
    <2> QED
      BY <1>1, <2>4 DEF CallWorth, k
  <1>2. CASE c.phase # "enter"
    <2>1. Coming(W, c) \in Nat /\ c.dirSize \in Nat
      BY <1>2, ComingFacts
    <2>2. CallWorth(W, c) = c.dirSize + Coming(W, c)
      BY <1>2 DEF CallWorth
    <2> QED
      BY <2>1, <2>2
  <1> QED
    BY <1>1, <1>2

(* A call that opens its directory has what this was worth.                *)
LEMMA EnterWorth ==
  ASSUME disk \in Disks, NEW W, Weighed(W), NEW c \in CallRecs, c.phase = "enter",
         NEW D, CallOK(c, D, DOMAIN disk.size), IsDir(c.dir), Len(c.path) + 2 <= MaxFds,
         NEW d \in CallRecs, d.path = c.path, d.phase = "scan", d.todo = disk.in[c.dir],
         d.dirSize = disk.size[c.dir]
  PROVE  CallWorth(W, d) = CallWorth(W, c)
  <1> DEFINE k == Len(c.path)
             n == MaxFds - k
  <1>1. k \in Nat /\ k + 2 <= MaxFds /\ MaxFds \in Nat /\ c.dir \in DOMAIN disk.size
    BY DiskFacts DEF CallRecs, Paths, CallOK
  <1>2. n \in 1 .. MaxFds
    <2> HIDE DEF k
    <2> QED
      BY <1>1
  <1> HIDE DEF n
  <1>3. W[n][c.dir] = disk.size[c.dir] + SumFunction([f \in disk.in[c.dir] |-> W[n - 1][f]])
    <2>1. SumsUp(W, n, c.dir)
      BY <1>1, <1>2, WeighedFacts
    <2> QED
      BY <2>1 DEF SumsUp
  <1>4. CallWorth(W, c) = W[n][c.dir]
    BY DEF CallWorth, n, k
  <1>5. CallWorth(W, d) = d.dirSize + SumFunction([f \in disk.in[c.dir] |-> W[n - 1][f]])
    BY DEF CallWorth, Coming, n, k
  <1> QED
    BY <1>3, <1>4, <1>5

(* A call that has come to an entry, and adds to its own size for it       *)
LEMMA PassedWorth ==
  ASSUME disk \in Disks, NEW W, Weighed(W), NEW c \in CallRecs, c.phase = "scan",
         NEW D, CallOK(c, D, DOMAIN disk.size), NEW e \in c.todo, NEW added \in Nat,
         NEW d \in CallRecs, d.path = c.path, d.phase = "scan", d.todo = c.todo \ {e},
         d.dirSize = c.dirSize + added
  PROVE  /\ CallWorth(W, d) + W[MaxFds - Len(c.path) - 1][e] = CallWorth(W, c) + added
         /\ CallWorth(W, d) \in Nat /\ CallWorth(W, c) \in Nat
  <1> DEFINE n == MaxFds - Len(c.path) - 1
             F == [f \in d.todo |-> W[n][f]]
             G == [f \in c.todo |-> W[n][f]]
  <1>1. Summable(G) /\ W[n][e] \in Nat /\ c.dirSize \in Nat
    BY ComingFacts
  <1>2. DOMAIN F = DOMAIN G \ {e} /\ e \in DOMAIN G /\ F = [f \in DOMAIN F |-> F[f]]
        /\ \A f \in DOMAIN F : G[f] = F[f]
    OBVIOUS
  <1>3. Coming(W, d) = SumFunction(F) /\ Coming(W, c) = SumFunction(G) /\ G[e] = W[n][e]
    BY DEF Coming
  <1>4. CallWorth(W, d) = c.dirSize + added + SumFunction(F) /\ CallWorth(W, c) = c.dirSize + SumFunction(G)
    BY <1>3 DEF CallWorth
  <1> HIDE DEF F, G, n
  <1>5. /\ SumFunction(G) = SumFunction(F) + G[e]
        /\ SumFunction(F) \in Nat /\ SumFunction(G) \in Nat /\ G[e] \in Nat
    BY <1>1, <1>2, SumMore
  <1>6. CallWorth(W, d) + W[n][e] = CallWorth(W, c) + added
    <2> DEFINE f == SumFunction(F)
               g == SumFunction(G)
               x == W[n][e]
               s == c.dirSize
    <2>1. /\ f \in Nat /\ g \in Nat /\ x \in Nat /\ s \in Nat /\ g = f + x
          /\ CallWorth(W, d) = s + added + f /\ CallWorth(W, c) = s + g
      BY <1>1, <1>3, <1>4, <1>5
    <2> HIDE DEF f, g, x, s
    <2>2. (s + added + f) + x = (s + g) + added
      BY ONLY <2>1, added \in Nat
    <2> QED
      BY <2>1, <2>2 DEF x
  <1>7. CallWorth(W, d) \in Nat /\ CallWorth(W, c) \in Nat
    BY <1>1, <1>4, <1>5
  <1> QED
    BY <1>6, <1>7 DEF n

(* A call that reads has no more to come to.                               *)
LEMMA ReadWorth ==
  ASSUME NEW W, NEW d, d.phase = "read" \/ d.phase = "scan", d.todo = {}
  PROVE  CallWorth(W, d) = d.dirSize + 0
  <1> DEFINE F == [f \in {} |-> W[MaxFds - Len(d.path) - 1][f]]
  <1>1. DOMAIN F = {} /\ F = [f \in DOMAIN F |-> F[f]]
    OBVIOUS
  <1>2. Coming(W, d) = SumFunction(F)
    BY DEF Coming
  <1> HIDE DEF F
  <1>3. Summable(F)
    BY <1>1, FS_EmptySet DEF Summable
  <1>4. SumFunction(F) = 0
    BY <1>1, <1>3, SumNothing
  <1> QED
    BY <1>2, <1>4 DEF CallWorth

-----------------------------------------------------------------------------
(* All calls of a process                                                  *)

CallsOK(s, D, K) == s \in Seq(CallRecs) /\ \A i \in DOMAIN s : CallOK(s[i], D, K)

(* What they have can be added, and is a number.                           *)
LEMMA CallsWorthNat ==
  ASSUME disk \in Disks, NEW W, Weighed(W), NEW s, NEW D, CallsOK(s, D, DOMAIN disk.size)
  PROVE  /\ Summable([i \in DOMAIN s |-> CallWorth(W, s[i])]) /\ CallsWorth(W, s) \in Nat
         /\ [i \in DOMAIN s |-> CallWorth(W, s[i])] \in Seq(Nat)
  <1> DEFINE t == [i \in DOMAIN s |-> CallWorth(W, s[i])]
  <1>1. \A i \in DOMAIN s : CallWorth(W, s[i]) \in Nat
    BY CallWorthNat DEF CallsOK
  <1>2. s \in Seq(CallRecs) /\ DOMAIN s = 1 .. Len(s) /\ Len(s) \in Nat
    BY DEF CallsOK
  <1>3. t \in [1 .. Len(s) -> Nat]
    BY <1>1, <1>2
  <1> HIDE DEF t
  <1>4. t \in Seq(Nat)
    BY <1>2, <1>3
  <1>5. Summable(t) /\ SumFunction(t) \in Nat
    BY <1>4, SumOfSeq
  <1> QED
    BY <1>4, <1>5 DEF t, CallsWorth

(* One call more                                                           *)
LEMMA MoreWorth ==
  ASSUME disk \in Disks, NEW W, Weighed(W), NEW s, NEW D, CallsOK(s, D, DOMAIN disk.size),
         NEW c \in CallRecs, CallOK(c, D, DOMAIN disk.size)
  PROVE  /\ CallsOK(Append(s, c), D, DOMAIN disk.size)
         /\ CallsWorth(W, Append(s, c)) = CallsWorth(W, s) + CallWorth(W, c)
         /\ CallsWorth(W, s) \in Nat /\ CallWorth(W, c) \in Nat
  <1> DEFINE K == DOMAIN disk.size
             a == Append(s, c)
             t == [i \in DOMAIN s |-> CallWorth(W, s[i])]
             u == [i \in DOMAIN a |-> CallWorth(W, a[i])]
             x == CallWorth(W, c)
  <1>1. s \in Seq(CallRecs) /\ \A i \in DOMAIN s : CallOK(s[i], D, K)
    BY DEF CallsOK
  <1>2. /\ a \in Seq(CallRecs) /\ Len(a) = Len(s) + 1 /\ DOMAIN a = DOMAIN s \cup {Len(s) + 1}
        /\ DOMAIN s = 1 .. Len(s) /\ a[Len(s) + 1] = c /\ \A i \in DOMAIN s : a[i] = s[i]
        /\ Len(s) \in Nat
    BY <1>1, AppendFacts
  <1> HIDE DEF a, K
  <1>3. CallsOK(a, D, K)
    BY <1>1, <1>2 DEF CallsOK, K
  <1>4. x \in Nat /\ t \in Seq(Nat)
    BY CallWorthNat, CallsWorthNat
  <1>5. u \in Seq(Nat)
    BY <1>3, CallsWorthNat DEF K
  <1>6. Len(t) = Len(s) /\ Len(u) = Len(s) + 1 /\ \A i \in 1 .. Len(s) : t[i] = u[i]
    <2>1. DOMAIN t = 1 .. Len(s)
      BY <1>2
    <2>2. DOMAIN u = 1 .. Len(s) + 1
      BY <1>2
    <2>3. \A i \in 1 .. Len(s) : t[i] = CallWorth(W, s[i]) /\ u[i] = CallWorth(W, a[i])
      BY <1>2
    <2>4. \A i \in 1 .. Len(s) : t[i] = u[i]
      BY <1>2, <2>3
    <2> HIDE DEF t, u
    <2>5. Len(t) = Len(s) /\ Len(u) = Len(s) + 1
      BY <1>2, <1>4, <1>5, <2>1, <2>2
    <2> QED
      BY <2>4, <2>5
  <1>7. u[Len(s) + 1] = x
    BY <1>2
  <1> HIDE DEF x, t, u
  <1>8. u = Append(t, x)
    <2> DEFINE b == Append(t, x)
               n == Len(s)
    <2>1. n \in Nat /\ Len(t) = n /\ Len(u) = n + 1
      BY <1>2, <1>6
    <2>2. b \in Seq(Nat) /\ Len(b) = n + 1 /\ b[n + 1] = x /\ \A i \in 1 .. n : b[i] = t[i]
      BY <1>4, <2>1
    <2>3. u[n + 1] = x /\ \A i \in 1 .. n : u[i] = t[i]
      BY <1>6, <1>7
    <2> HIDE DEF b, n
    <2>4. \A i \in 1 .. n + 1 : i \in 1 .. n \/ i = n + 1
      BY <2>1
    <2>5. \A i \in 1 .. n + 1 : u[i] = b[i]
      BY <2>2, <2>3, <2>4
    <2>6. u = b
      BY <1>5, <2>1, <2>2, <2>5
    <2> QED
      BY <2>6 DEF b
  <1>9. SumFunction(u) = SumFunction(t) + x
    BY <1>4, <1>8, SumAppend
  <1>10. CallsWorth(W, a) = SumFunction(u) /\ CallsWorth(W, s) = SumFunction(t)
    BY DEF CallsWorth, t, u
  <1>11. CallsWorth(W, s) \in Nat
    BY CallsWorthNat
  <1>12. CallsOK(a, D, K) /\ CallsWorth(W, a) = CallsWorth(W, s) + x
         /\ CallsWorth(W, s) \in Nat /\ x \in Nat
    BY <1>3, <1>4, <1>9, <1>10, <1>11
  <1> QED
    BY <1>12 DEF a, K, x

(* The last call apart from those before it                                *)
LEMMA LastWorth ==
  ASSUME disk \in Disks, NEW W, Weighed(W), NEW s, NEW D, CallsOK(s, D, DOMAIN disk.size), s # <<>>
  PROVE  /\ CallsOK(Front(s), D, DOMAIN disk.size)
         /\ Last(s) \in CallRecs /\ CallOK(Last(s), D, DOMAIN disk.size)
         /\ CallsWorth(W, s) = CallsWorth(W, Front(s)) + CallWorth(W, Last(s))
         /\ CallsWorth(W, Front(s)) \in Nat /\ CallWorth(W, Last(s)) \in Nat
  <1> DEFINE K == DOMAIN disk.size
             f == Front(s)
             l == Last(s)
  <1>1. s \in Seq(CallRecs) /\ \A i \in DOMAIN s : CallOK(s[i], D, K)
    BY DEF CallsOK
  <1>2. /\ f \in Seq(CallRecs) /\ DOMAIN f = 1 .. (Len(s) - 1) /\ \A i \in 1 .. (Len(s) - 1) : f[i] = s[i]
        /\ Len(s) \in Nat \ {0} /\ Len(s) \in DOMAIN s /\ DOMAIN s = 1 .. Len(s)
        /\ l = s[Len(s)] /\ l \in CallRecs /\ Len(f) = Len(s) - 1
    BY <1>1, FrontFacts
  <1> HIDE DEF f, l, K
  <1>3. \A i \in DOMAIN f : i \in DOMAIN s
    BY <1>2
  <1>4. CallsOK(f, D, K) /\ CallOK(l, D, K)
    BY <1>1, <1>2, <1>3 DEF CallsOK
  <1>5. s = Append(f, l)
    <2> DEFINE a == Append(f, l)
    <2>1. a \in Seq(CallRecs) /\ Len(a) = Len(f) + 1 /\ a[Len(f) + 1] = l /\ \A i \in DOMAIN f : a[i] = f[i]
      <3>1. f \in Seq(CallRecs) /\ l \in CallRecs
        BY <1>2
      <3> QED
        BY ONLY <3>1, AppendFacts
    <2> HIDE DEF a
    <2>2. Len(f) + 1 = Len(s) /\ Len(f) \in Nat
      BY <1>2
    <2>3. \A i \in 1 .. Len(s) : i \in 1 .. Len(f) \/ i = Len(s)
      BY <2>2
    <2>4. \A i \in 1 .. Len(s) : s[i] = a[i]
      <3>1. DOMAIN f = 1 .. Len(f)
        BY <1>2
      <3> QED
        BY <1>2, <2>1, <3>1, <2>2, <2>3
    <2>5. s = a
      BY <1>1, <2>1, <2>2, <2>4
    <2> QED
      BY <2>5 DEF a
  <1>6. CallsWorth(W, Append(f, l)) = CallsWorth(W, f) + CallWorth(W, l)
        /\ CallsWorth(W, f) \in Nat /\ CallWorth(W, l) \in Nat
    <2>1. CallsOK(f, D, DOMAIN disk.size) /\ CallOK(l, D, DOMAIN disk.size) /\ l \in CallRecs
      BY <1>2, <1>4 DEF K
    <2> QED
      BY <2>1, MoreWorth
  <1>7. /\ CallsOK(f, D, K) /\ l \in CallRecs /\ CallOK(l, D, K)
        /\ CallsWorth(W, s) = CallsWorth(W, f) + CallWorth(W, l)
        /\ CallsWorth(W, f) \in Nat /\ CallWorth(W, l) \in Nat
    BY <1>2, <1>4, <1>5, <1>6
  <1> QED
    BY <1>7 DEF f, l, K

-----------------------------------------------------------------------------
(* All processes and all pipes                                             *)

(* A process holds finitely many ends, of pipes there are; it has a size   *)
(* of its own only when it has one to report; and a call can read from its *)
(* pipe as soon as it has one.                                             *)
ProcOK(r, D, K) ==
  /\ IsFiniteSet(r.ends) /\ \A end \in r.ends : end[1] \in D
  /\ r.status \in {"running", "written"} => r.size = 0
  /\ \A i \in DOMAIN r.calls :
       /\ CallOK(r.calls[i], D, K)
       /\ r.calls[i].phase # "enter" => <<r.calls[i].path, "r">> \in r.ends

Tidy(P, D, K) == IsFiniteSet(DOMAIN P) /\ \A p \in DOMAIN P : ProcOK(P[p], D, K)

(* Processes and pipes, as functions                                       *)
ProcsAre(P) == P = [p \in DOMAIN P |-> P[p]] /\ \A p \in DOMAIN P : P[p] \in ProcRecs

PipesAre(Q) ==
  /\ Q = [path \in DOMAIN Q |-> Q[path]] /\ IsFiniteSet(DOMAIN Q) /\ DOMAIN Q \subseteq Paths
  /\ \A path \in DOMAIN Q : Q[path] \in Seq(Nat)

ProcWorth(W, r) == r.size + CallsWorth(W, r.calls)
ProcsWorth(W, P) == SumFunction([p \in DOMAIN P |-> ProcWorth(W, P[p])])
PipesWorth(Q) == SumFunction([path \in DOMAIN Q |-> SumFunction(Q[path])])
All(W, P, Q) == PipesWorth(Q) + ProcsWorth(W, P)

(* What a process has is a number.                                         *)
LEMMA ProcWorthNat ==
  ASSUME disk \in Disks, NEW W, Weighed(W), NEW r \in ProcRecs, NEW D, ProcOK(r, D, DOMAIN disk.size)
  PROVE  /\ CallsOK(r.calls, D, DOMAIN disk.size)
         /\ CallsWorth(W, r.calls) \in Nat /\ r.size \in Nat /\ ProcWorth(W, r) \in Nat
  <1>1. CallsOK(r.calls, D, DOMAIN disk.size) /\ r.size \in Nat
    BY DEF ProcOK, CallsOK, ProcRecs
  <1>2. CallsWorth(W, r.calls) \in Nat
    BY <1>1, CallsWorthNat
  <1> QED
    BY <1>1, <1>2 DEF ProcWorth

(* What a process has that is in no call                                   *)
LEMMA NoCallsWorth ==
  ASSUME NEW W, NEW r \in ProcRecs, r.calls = <<>>
  PROVE  ProcWorth(W, r) = r.size
  <1> DEFINE F == [i \in DOMAIN r.calls |-> CallWorth(W, r.calls[i])]
  <1>1. DOMAIN F = {} /\ F = [i \in DOMAIN F |-> F[i]] /\ r.size \in Nat
    BY DEF ProcRecs
  <1>2. CallsWorth(W, r.calls) = SumFunction(F)
    BY DEF CallsWorth
  <1> HIDE DEF F
  <1>3. Summable(F)
    BY <1>1, FS_EmptySet DEF Summable
  <1>4. SumFunction(F) = 0
    BY <1>1, <1>3, SumNothing
  <1> QED
    BY <1>1, <1>2, <1>4 DEF ProcWorth

(* What processes have can be added.                                       *)
LEMMA ProcsSummable ==
  ASSUME disk \in Disks, NEW W, Weighed(W), NEW P, ProcsAre(P), NEW D, Tidy(P, D, DOMAIN disk.size)
  PROVE  /\ Summable([p \in DOMAIN P |-> ProcWorth(W, P[p])]) /\ ProcsWorth(W, P) \in Nat
         /\ \A p \in DOMAIN P : ProcWorth(W, P[p]) \in Nat
  <1> DEFINE F == [p \in DOMAIN P |-> ProcWorth(W, P[p])]
  <1>1. \A p \in DOMAIN P : ProcWorth(W, P[p]) \in Nat
    BY ProcWorthNat DEF ProcsAre, Tidy
  <1>2. DOMAIN F = DOMAIN P /\ F = [p \in DOMAIN F |-> F[p]] /\ \A p \in DOMAIN F : F[p] \in Nat
    BY <1>1
  <1> HIDE DEF F
  <1>3. Summable(F)
    BY <1>2 DEF Summable, Tidy
  <1>4. SumFunction(F) \in Nat
    BY <1>3, SumNat
  <1> QED
    BY <1>1, <1>3, <1>4 DEF F, ProcsWorth

(* What is in pipes can be added.                                          *)
LEMMA PipesSummable ==
  ASSUME NEW Q, PipesAre(Q)
  PROVE  Summable([path \in DOMAIN Q |-> SumFunction(Q[path])]) /\ PipesWorth(Q) \in Nat
  <1> DEFINE F == [path \in DOMAIN Q |-> SumFunction(Q[path])]
  <1>1. \A path \in DOMAIN Q : SumFunction(Q[path]) \in Nat
    BY SumOfSeq DEF PipesAre
  <1>2. DOMAIN F = DOMAIN Q /\ F = [p \in DOMAIN F |-> F[p]] /\ \A p \in DOMAIN F : F[p] \in Nat
    BY <1>1
  <1> HIDE DEF F
  <1>3. Summable(F)
    BY <1>2 DEF Summable, PipesAre
  <1>4. SumFunction(F) \in Nat
    BY <1>3, SumNat
  <1> QED
    BY <1>3, <1>4 DEF F, PipesWorth

(* One process changes.                                                    *)
LEMMA ProcsChange ==
  ASSUME disk \in Disks, NEW W, Weighed(W), NEW P, ProcsAre(P), NEW D, Tidy(P, D, DOMAIN disk.size),
         NEW p \in DOMAIN P, NEW n \in ProcRecs, NEW E, ProcOK(n, E, DOMAIN disk.size)
  PROVE  /\ ProcsWorth(W, [P EXCEPT ![p] = n]) + ProcWorth(W, P[p]) = ProcsWorth(W, P) + ProcWorth(W, n)
         /\ ProcsWorth(W, [P EXCEPT ![p] = n]) \in Nat /\ ProcsWorth(W, P) \in Nat
         /\ ProcWorth(W, P[p]) \in Nat /\ ProcWorth(W, n) \in Nat
         /\ ProcsAre([P EXCEPT ![p] = n])
  <1> DEFINE R == [P EXCEPT ![p] = n]
             F == [q \in DOMAIN P |-> ProcWorth(W, P[q])]
             G == [q \in DOMAIN R |-> ProcWorth(W, R[q])]
  <1>1. Summable(F) /\ \A q \in DOMAIN P : ProcWorth(W, P[q]) \in Nat
    BY ProcsSummable
  <1>2. ProcWorth(W, n) \in Nat
    BY ProcWorthNat
  <1>3. /\ DOMAIN R = DOMAIN P /\ R[p] = n /\ \A q \in DOMAIN P : q # p => R[q] = P[q]
        /\ R = [q \in DOMAIN R |-> R[q]]
    OBVIOUS
  <1> HIDE DEF R
  <1>4. /\ DOMAIN G = DOMAIN P /\ G = [q \in DOMAIN G |-> G[q]] /\ G[p] = ProcWorth(W, n)
        /\ \A q \in DOMAIN P : q # p => G[q] = F[q]
        /\ DOMAIN F = DOMAIN P /\ F[p] = ProcWorth(W, P[p])
        /\ \A q \in DOMAIN P : F[q] = ProcWorth(W, P[q])
    BY <1>3
  <1>5. ProcsWorth(W, R) = SumFunction(G) /\ ProcsWorth(W, P) = SumFunction(F)
    BY DEF ProcsWorth
  <1> HIDE DEF F, G
  <1>6. Summable(G)
    <2>1. \A q \in DOMAIN P : G[q] \in Nat
      BY <1>1, <1>2, <1>4
    <2> QED
      BY <1>1, <1>4, <2>1 DEF Summable
  <1>7. /\ SumFunction(G) + F[p] = SumFunction(F) + G[p]
        /\ SumFunction(F) \in Nat /\ SumFunction(G) \in Nat /\ F[p] \in Nat /\ G[p] \in Nat
    BY <1>1, <1>4, <1>6, SumChange
  <1>8. ProcsAre(R)
    BY <1>3 DEF ProcsAre
  <1>9. /\ ProcsWorth(W, R) + ProcWorth(W, P[p]) = ProcsWorth(W, P) + ProcWorth(W, n)
        /\ ProcsWorth(W, R) \in Nat /\ ProcsWorth(W, P) \in Nat
        /\ ProcWorth(W, P[p]) \in Nat /\ ProcWorth(W, n) \in Nat
    BY <1>4, <1>5, <1>7
  <1> QED
    BY <1>8, <1>9 DEF R

(* One process more                                                        *)
LEMMA ProcsMore ==
  ASSUME disk \in Disks, NEW W, Weighed(W), NEW P, ProcsAre(P), NEW D, Tidy(P, D, DOMAIN disk.size),
         NEW p, p \notin DOMAIN P, NEW n \in ProcRecs, ProcOK(n, D, DOMAIN disk.size)
  PROVE  /\ ProcsWorth(W, With(P, p, n)) = ProcsWorth(W, P) + ProcWorth(W, n)
         /\ ProcsWorth(W, P) \in Nat /\ ProcWorth(W, n) \in Nat
         /\ ProcsAre(With(P, p, n)) /\ Tidy(With(P, p, n), D, DOMAIN disk.size)
  <1> DEFINE R == With(P, p, n)
             K == DOMAIN disk.size
             F == [q \in DOMAIN P |-> ProcWorth(W, P[q])]
             G == [q \in DOMAIN R |-> ProcWorth(W, R[q])]
  <1>1. Summable(F) /\ \A q \in DOMAIN P : ProcWorth(W, P[q]) \in Nat
    BY ProcsSummable
  <1>2. ProcWorth(W, n) \in Nat
    BY ProcWorthNat
  <1>3. /\ DOMAIN R = DOMAIN P \cup {p} /\ R[p] = n /\ \A q \in DOMAIN P : R[q] = P[q]
        /\ R = [q \in DOMAIN R |-> R[q]]
    BY DEF With
  <1>4. IsFiniteSet(DOMAIN R)
    BY <1>3, FS_AddElement DEF Tidy
  <1> HIDE DEF R, K
  <1>5. ProcsAre(R) /\ Tidy(R, D, K)
    <2>1. \A q \in DOMAIN R : R[q] \in ProcRecs /\ ProcOK(R[q], D, K)
      BY <1>3 DEF ProcsAre, Tidy, K
    <2> QED
      BY <1>3, <1>4, <2>1 DEF ProcsAre, Tidy
  <1>6. Summable(G)
    BY <1>5, ProcsSummable DEF K
  <1>7. /\ DOMAIN F = DOMAIN P /\ DOMAIN G = DOMAIN R /\ G[p] = ProcWorth(W, n)
        /\ \A q \in DOMAIN P : G[q] = F[q]
        /\ F = [q \in DOMAIN F |-> F[q]]
    BY <1>3
  <1>8. ProcsWorth(W, R) = SumFunction(G) /\ ProcsWorth(W, P) = SumFunction(F)
    BY DEF ProcsWorth
  <1> HIDE DEF F, G
  <1>9. DOMAIN F = DOMAIN G \ {p} /\ p \in DOMAIN G /\ \A q \in DOMAIN F : G[q] = F[q]
    BY <1>3, <1>7
  <1>10. /\ SumFunction(G) = SumFunction(F) + G[p]
         /\ SumFunction(F) \in Nat /\ SumFunction(G) \in Nat /\ G[p] \in Nat
    BY <1>6, <1>7, <1>9, SumMore
  <1>11. ProcsWorth(W, R) = ProcsWorth(W, P) + ProcWorth(W, n) /\ ProcsWorth(W, P) \in Nat
    BY <1>7, <1>8, <1>10
  <1> QED
    BY <1>2, <1>5, <1>11 DEF R, K

(* What is in one pipe changes.                                            *)
LEMMA PipesChange ==
  ASSUME NEW Q, PipesAre(Q), NEW path \in DOMAIN Q, NEW s \in Seq(Nat)
  PROVE  /\ PipesWorth([Q EXCEPT ![path] = s]) + SumFunction(Q[path]) = PipesWorth(Q) + SumFunction(s)
         /\ PipesWorth([Q EXCEPT ![path] = s]) \in Nat /\ PipesWorth(Q) \in Nat
         /\ SumFunction(Q[path]) \in Nat /\ SumFunction(s) \in Nat
         /\ PipesAre([Q EXCEPT ![path] = s])
  <1> DEFINE R == [Q EXCEPT ![path] = s]
             F == [q \in DOMAIN Q |-> SumFunction(Q[q])]
             G == [q \in DOMAIN R |-> SumFunction(R[q])]
  <1>1. /\ DOMAIN R = DOMAIN Q /\ R[path] = s /\ \A q \in DOMAIN Q : q # path => R[q] = Q[q]
        /\ R = [q \in DOMAIN R |-> R[q]]
    OBVIOUS
  <1> HIDE DEF R
  <1>2. PipesAre(R)
    BY <1>1 DEF PipesAre
  <1>3. Summable(F) /\ Summable(G)
    BY <1>2, PipesSummable
  <1>4. /\ DOMAIN G = DOMAIN F /\ path \in DOMAIN F /\ G[path] = SumFunction(s)
        /\ F[path] = SumFunction(Q[path]) /\ \A q \in DOMAIN F : q # path => G[q] = F[q]
    BY <1>1
  <1>5. PipesWorth(R) = SumFunction(G) /\ PipesWorth(Q) = SumFunction(F)
    BY DEF PipesWorth
  <1> HIDE DEF F, G
  <1>6. /\ SumFunction(G) + F[path] = SumFunction(F) + G[path]
        /\ SumFunction(F) \in Nat /\ SumFunction(G) \in Nat /\ F[path] \in Nat /\ G[path] \in Nat
    BY <1>3, <1>4, SumChange
  <1>7. /\ PipesWorth(R) + SumFunction(Q[path]) = PipesWorth(Q) + SumFunction(s)
        /\ PipesWorth(R) \in Nat /\ PipesWorth(Q) \in Nat
        /\ SumFunction(Q[path]) \in Nat /\ SumFunction(s) \in Nat
    BY <1>4, <1>5, <1>6
  <1> QED
    BY <1>2, <1>7 DEF R

(* A new pipe has nothing in it.                                           *)
LEMMA PipesMore ==
  ASSUME NEW Q, PipesAre(Q), NEW path \in Paths, path \notin DOMAIN Q
  PROVE  PipesWorth(With(Q, path, <<>>)) = PipesWorth(Q) /\ PipesAre(With(Q, path, <<>>))
  <1> DEFINE z == <<>>
             R == With(Q, path, z)
             F == [q \in DOMAIN Q |-> SumFunction(Q[q])]
             G == [q \in DOMAIN R |-> SumFunction(R[q])]
  <1>1. z \in Seq(Nat) /\ DOMAIN z = {}
    OBVIOUS
  <1> HIDE DEF z
  <1>2. /\ DOMAIN R = DOMAIN Q \cup {path} /\ R[path] = z /\ \A q \in DOMAIN Q : R[q] = Q[q]
        /\ R = [q \in DOMAIN R |-> R[q]]
    BY DEF With
  <1>3. IsFiniteSet(DOMAIN R)
    BY <1>2, FS_AddElement DEF PipesAre
  <1> HIDE DEF R
  <1>4. PipesAre(R)
    BY <1>1, <1>2, <1>3 DEF PipesAre
  <1>5. Summable(F) /\ Summable(G)
    BY <1>4, PipesSummable
  <1>6. /\ DOMAIN F = DOMAIN G \ {path} /\ path \in DOMAIN G /\ F = [q \in DOMAIN F |-> F[q]]
        /\ \A q \in DOMAIN F : G[q] = F[q]
    BY <1>2
  <1>7. G[path] = SumFunction(z)
    BY <1>2
  <1>8. PipesWorth(R) = SumFunction(G) /\ PipesWorth(Q) = SumFunction(F)
    BY DEF PipesWorth
  <1> HIDE DEF F, G
  <1>9. SumFunction(G) = SumFunction(F) + G[path] /\ SumFunction(F) \in Nat
    BY <1>5, <1>6, SumMore
  <1>10. SumFunction(z) = 0
    <2>1. Summable(z)
      BY <1>1, SumOfSeq
    <2> QED
      BY <1>1, <2>1, SumNothing
  <1>11. PipesWorth(R) = PipesWorth(Q)
    BY <1>7, <1>8, <1>9, <1>10
  <1> QED
    BY <1>4, <1>11 DEF R, z

-----------------------------------------------------------------------------
(* What steps make of it all                                               *)

Tidied == program \in Programs /\ PipesAre(pipes) /\ Tidy(procs, DOMAIN pipes, DOMAIN disk.size)

HasFailed(P) == \E p \in DOMAIN P : P[p].status = "failed"

(* What a step makes of it all                                             *)
TidyNext == PipesAre(pipes') /\ Tidy(procs', DOMAIN pipes', DOMAIN disk.size)

Balanced ==
  /\ All(Worth, procs', pipes') <= All(Worth, procs, pipes)
  /\ All(Worth, procs', pipes') < All(Worth, procs, pipes) => HasFailed(procs')
  /\ HasFailed(procs) => HasFailed(procs')

(* What holds before a step                                                *)
LEMMA BeforeFacts ==
  ASSUME IInv, Tidied
  PROVE  /\ disk \in Disks /\ Weighed(Worth) /\ ProcsAre(procs) /\ PipesAre(pipes)
         /\ Tidy(procs, DOMAIN pipes, DOMAIN disk.size)
         /\ \A p \in DOMAIN procs :
              /\ ProcOK(procs[p], DOMAIN pipes, DOMAIN disk.size) /\ procs[p] \in ProcRecs
              /\ CallsOK(procs[p].calls, DOMAIN pipes, DOMAIN disk.size)
  <1>1. disk \in Disks /\ Weighed(Worth)
    BY WorthWeighed DEF IInv
  <1>2. ProcsAre(procs)
    BY DEF IInv, Sound, Good, Local, ProcsAre
  <1>3. \A p \in DOMAIN procs :
          ProcOK(procs[p], DOMAIN pipes, DOMAIN disk.size) /\ procs[p] \in ProcRecs
    BY <1>2 DEF Tidied, Tidy, ProcsAre
  <1>4. \A p \in DOMAIN procs : CallsOK(procs[p].calls, DOMAIN pipes, DOMAIN disk.size)
    BY <1>1, <1>3, ProcWorthNat
  <1> QED
    BY <1>1, <1>2, <1>3, <1>4 DEF Tidied

(* A process takes a step, and may read or write a pipe.                   *)
LEMMA Moved ==
  ASSUME IInv, Tidied, NEW p \in DOMAIN procs, procs[p].status # "failed",
         NEW n \in ProcRecs, ProcOK(n, DOMAIN pipes, DOMAIN disk.size),
         procs' = [procs EXCEPT ![p] = n], PipesAre(pipes'), DOMAIN pipes' = DOMAIN pipes,
         PipesWorth(pipes') + ProcWorth(Worth, n) <= PipesWorth(pipes) + ProcWorth(Worth, procs[p]),
         PipesWorth(pipes') + ProcWorth(Worth, n) < PipesWorth(pipes) + ProcWorth(Worth, procs[p])
           => HasFailed(procs')
  PROVE  TidyNext /\ Balanced
  <1> DEFINE K == DOMAIN disk.size
             D == DOMAIN pipes
             a == PipesWorth(pipes)
             b == PipesWorth(pipes')
             x == ProcWorth(Worth, procs[p])
             y == ProcWorth(Worth, n)
             s == ProcsWorth(Worth, procs)
             t == ProcsWorth(Worth, procs')
  <1>1. /\ disk \in Disks /\ Weighed(Worth) /\ ProcsAre(procs) /\ PipesAre(pipes) /\ Tidy(procs, D, K)
    BY BeforeFacts
  <1>2. t + x = s + y /\ t \in Nat /\ s \in Nat /\ x \in Nat /\ y \in Nat
    BY <1>1, ProcsChange
  <1>3. a \in Nat /\ b \in Nat
    BY <1>1, PipesSummable
  <1>4. DOMAIN procs' = DOMAIN procs /\ procs'[p] = n /\ \A q \in DOMAIN procs : q # p => procs'[q] = procs[q]
    OBVIOUS
  <1>5. Tidy(procs', D, K)
    BY <1>1, <1>4 DEF Tidy
  <1>6. TidyNext
    BY <1>5 DEF TidyNext
  <1>7. HasFailed(procs) => HasFailed(procs')
    BY <1>4 DEF HasFailed
  <1>8. b + y <= a + x /\ (b + y < a + x => HasFailed(procs'))
    OBVIOUS
  <1>9. All(Worth, procs', pipes') = b + t /\ All(Worth, procs, pipes) = a + s
    BY DEF All
  <1> HIDE DEF a, b, x, y, s, t
  <1>10. (b + t) + (a + x) = (a + s) + (b + y)
    BY ONLY <1>2, <1>3
  <1>11. b + t <= a + s /\ (b + t < a + s => b + y < a + x)
    BY ONLY <1>2, <1>3, <1>8, <1>10
  <1>12. Balanced
    BY <1>7, <1>8, <1>9, <1>11 DEF Balanced
  <1> QED
    BY <1>6, <1>12

(* The call that a process is in goes on, as c.                            *)
LEMMA CurrentWorth ==
  ASSUME IInv, Tidied, NEW p \in DOMAIN procs, procs[p].status = "running",
         NEW E, NEW c \in CallRecs, CallOK(c, E, DOMAIN disk.size),
         \A i \in DOMAIN procs[p].calls :
           i # Len(procs[p].calls) => CallOK(procs[p].calls[i], E, DOMAIN disk.size),
         NEW n \in ProcRecs, n.calls = Append(Front(procs[p].calls), c), n.status = "running",
         n.size = procs[p].size, IsFiniteSet(n.ends), \A end \in n.ends : end[1] \in E,
         c.phase # "enter" => <<c.path, "r">> \in n.ends,
         \A path : <<path, "r">> \in procs[p].ends => <<path, "r">> \in n.ends
  PROVE  /\ ProcOK(n, E, DOMAIN disk.size)
         /\ ProcWorth(Worth, n) + CallWorth(Worth, Last(procs[p].calls))
              = ProcWorth(Worth, procs[p]) + CallWorth(Worth, c)
         /\ ProcWorth(Worth, n) \in Nat /\ ProcWorth(Worth, procs[p]) \in Nat
         /\ CallWorth(Worth, c) \in Nat /\ CallWorth(Worth, Last(procs[p].calls)) \in Nat
  <1> DEFINE K == DOMAIN disk.size
             D == DOMAIN pipes
             r == procs[p]
             s == r.calls
             f == Front(s)
             l == Last(s)
             t == Append(f, c)
  <1>1. disk \in Disks /\ Weighed(Worth) /\ ProcOK(r, D, K) /\ r \in ProcRecs /\ CallsOK(s, D, K)
    BY BeforeFacts
  <1>2. s \in Seq(CallRecs) /\ s # <<>>
    BY CurrentFacts
  <1>3. r.size = 0
    BY <1>1 DEF ProcOK
  <1>4. /\ CallsOK(f, D, K) /\ CallsWorth(Worth, s) = CallsWorth(Worth, f) + CallWorth(Worth, l)
        /\ CallsWorth(Worth, f) \in Nat /\ CallWorth(Worth, l) \in Nat
    <2>1. CallsOK(s, D, DOMAIN disk.size) /\ s # <<>> /\ disk \in Disks /\ Weighed(Worth)
      BY <1>1, <1>2
    <2> HIDE DEF s, D
    <2> QED
      BY <2>1, LastWorth
  <1>5. /\ t \in Seq(CallRecs) /\ DOMAIN t = DOMAIN s /\ t[Len(s)] = c
        /\ \A i \in DOMAIN s : i # Len(s) => t[i] = s[i]
    <2> HIDE DEF s
    <2> QED
      BY <1>2, ReplacedLast
  <1>6. /\ f \in Seq(CallRecs) /\ DOMAIN f = 1 .. (Len(s) - 1) /\ \A i \in 1 .. (Len(s) - 1) : f[i] = s[i]
        /\ Len(s) \in Nat \ {0} /\ DOMAIN s = 1 .. Len(s)
    <2> HIDE DEF s
    <2> QED
      BY <1>2, FrontFacts
  <1>7. n.calls = t /\ n.size = 0
    BY <1>3
  <1>8. \A i \in DOMAIN s : i # Len(s) => CallOK(s[i], E, K)
    OBVIOUS
  <1>9. \A i \in DOMAIN s : s[i].phase # "enter" => <<s[i].path, "r">> \in r.ends
    BY <1>1 DEF ProcOK
  <1> HIDE DEF K, D, r, s, f, l, t
  <1>10. CallsOK(f, E, K)
    <2>1. \A i \in DOMAIN f : i \in DOMAIN s /\ i # Len(s)
      BY <1>6
    <2> QED
      BY <1>6, <1>8, <2>1 DEF CallsOK
  <1>11. CallsWorth(Worth, t) = CallsWorth(Worth, f) + CallWorth(Worth, c) /\ CallWorth(Worth, c) \in Nat
    BY <1>1, <1>10, MoreWorth DEF K, t
  <1>12. ProcOK(n, E, K)
    <2>1. ASSUME NEW i \in DOMAIN t
          PROVE  CallOK(t[i], E, K) /\ (t[i].phase # "enter" => <<t[i].path, "r">> \in n.ends)
      <3>1. CASE i = Len(s)
        BY <1>5, <3>1 DEF K
      <3>2. CASE i # Len(s)
        BY <1>5, <1>8, <1>9, <3>2 DEF r
      <3> QED
        BY <3>1, <3>2
    <2> QED
      BY <1>7, <2>1 DEF ProcOK
  <1>13. ProcWorth(Worth, n) = 0 + CallsWorth(Worth, t) /\ ProcWorth(Worth, r) = 0 + CallsWorth(Worth, s)
    BY <1>3, <1>7 DEF ProcWorth, s
  <1>14. /\ ProcWorth(Worth, n) + CallWorth(Worth, l) = ProcWorth(Worth, r) + CallWorth(Worth, c)
         /\ ProcWorth(Worth, n) \in Nat /\ ProcWorth(Worth, r) \in Nat
    BY <1>4, <1>11, <1>13
  <1> QED
    BY <1>4, <1>11, <1>12, <1>14 DEF K, r, l, s

(* A process that ends keeps nothing.                                      *)
LEMMA EndedWorth ==
  ASSUME IInv, Tidied, NEW p \in DOMAIN procs, NEW how \in {"exited", "failed", "killed"}
  PROVE  /\ Ended(p, how) \in ProcRecs /\ ProcOK(Ended(p, how), DOMAIN pipes, DOMAIN disk.size)
         /\ ProcWorth(Worth, Ended(p, how)) = 0 /\ Ended(p, how).status = how
  <1> DEFINE n == Ended(p, how)
  <1>1. n \in ProcRecs /\ n.calls = <<>> /\ n.ends = {} /\ n.status = how
    BY BeforeFacts, EndedFacts
  <1>2. n.size = 0
    <2>1. procs[p] \in ProcRecs
      BY BeforeFacts
    <2> QED
      BY <2>1 DEF Ended, ProcRecs
  <1> HIDE DEF n
  <1>3. ProcOK(n, DOMAIN pipes, DOMAIN disk.size)
    BY <1>1, <1>2, FS_EmptySet DEF ProcOK
  <1>4. ProcWorth(Worth, n) = 0
    BY <1>1, <1>2, NoCallsWorth
  <1> QED
    BY <1>1, <1>3, <1>4 DEF n

(* Failing loses what the process has.                                     *)
LEMMA FailBalance ==
  ASSUME IInv, Tidied, NEW p \in DOMAIN procs, procs[p].status = "running", fail(p)
  PROVE  TidyNext /\ Balanced
  <1> DEFINE n == Ended(p, "failed")
  <1>1. n \in ProcRecs /\ ProcOK(n, DOMAIN pipes, DOMAIN disk.size) /\ ProcWorth(Worth, n) = 0 /\ n.status = "failed"
    BY EndedWorth
  <1>2. procs' = [procs EXCEPT ![p] = n] /\ pipes' = pipes
    BY DEF fail
  <1> HIDE DEF n
  <1>3. HasFailed(procs')
    BY <1>1, <1>2 DEF HasFailed
  <1>4. PipesWorth(pipes) \in Nat /\ ProcWorth(Worth, procs[p]) \in Nat /\ PipesAre(pipes)
    BY BeforeFacts, PipesSummable, ProcsSummable
  <1>5. PipesWorth(pipes') + ProcWorth(Worth, n) <= PipesWorth(pipes) + ProcWorth(Worth, procs[p])
    BY <1>1, <1>2, <1>4
  <1> QED
    BY <1>1, <1>2, <1>3, <1>4, <1>5, Moved

(* A pipe more does not matter to a call, when it is not that call's and   *)
(* not below what the call has yet to come to.                             *)
LEMMA StillOK ==
  ASSUME NEW c, NEW D, NEW K, CallOK(c, D, K), NEW path, c.phase = "enter" => c.path # path,
         \A e \in Open(c) : ~Below(Append(c.path, e), path)
  PROVE  CallOK(c, D \cup {path}, K)
  BY DEF CallOK

(* Opening the directory and the pipe                                      *)
LEMMA EnterBalance ==
  ASSUME IInv, Tidied, NEW p \in DOMAIN procs, enter(p)
  PROVE  TidyNext /\ Balanced
  <1> DEFINE r == procs[p]
             call == Current(p)
             c == [call EXCEPT !.phase = "scan", !.todo = disk.in[call.dir], !.dirSize = OwnSize(call.dir)]
             n == [WithCurrent(p, c) EXCEPT !.ends = @ \cup {<<call.path, "r">>, <<call.path, "w">>}]
             D == DOMAIN pipes
             E == DOMAIN pipes \cup {call.path}
             K == DOMAIN disk.size
  <1>1. r.status = "running" /\ call.phase = "enter"
    BY DEF enter, InPhase
  <1>2. /\ p \in Paths /\ r \in ProcRecs
        /\ r.calls \in Seq(CallRecs) /\ r.calls # <<>> /\ r.ends \in SUBSET (Paths \X {"r", "w"})
        /\ call = Last(r.calls) /\ call \in CallRecs /\ call.path \in Paths
        /\ Len(r.calls) \in DOMAIN r.calls /\ call = r.calls[Len(r.calls)]
    BY <1>1, CurrentFacts
  <1>3. CASE fail(p)
    BY <1>1, <1>3, FailBalance
  <1>4. CASE /\ IsDir(call.dir) /\ OpenFds(p) + 3 <= MaxFds
             /\ procs' = [procs EXCEPT ![p] = n]
             /\ pipes' = With(pipes, call.path, << >>)
    <2>1. /\ disk \in Disks /\ Weighed(Worth) /\ ProcOK(r, D, K) /\ CallOK(call, D, K)
          /\ ProcsAre(procs) /\ PipesAre(pipes) /\ Tidy(procs, D, K)
          /\ \A q \in DOMAIN procs : ProcOK(procs[q], D, K)
      <3>1. \A q \in DOMAIN procs : ProcOK(procs[q], D, K)
        BY BeforeFacts
      <3>2. CallOK(call, D, K)
        BY <1>2, <3>1 DEF ProcOK
      <3> QED
        BY <3>1, <3>2, BeforeFacts
    <2>2. /\ call.dir \in K /\ disk.in[call.dir] \subseteq K /\ IsFiniteSet(disk.in[call.dir])
          /\ disk.in[call.dir] \subseteq Entries /\ OwnSize(call.dir) = disk.size[call.dir]
          /\ disk.size[call.dir] \in Nat
      <3>1. call.dir \in DOMAIN disk.in
        BY <1>4 DEF IsDir
      <3> QED
        BY <2>1, <3>1, DiskFacts, StateFacts DEF OwnSize
    <2>3. /\ c \in CallRecs /\ c.path = call.path /\ c.phase = "scan" /\ c.todo = disk.in[call.dir]
          /\ c.dirSize = disk.size[call.dir] /\ c.dir = call.dir
          /\ Open(call) = Entries /\ Open(c) = c.todo
      <3> HIDE DEF call, K
      <3> QED
        BY <1>1, <1>2, <2>2 DEF CallRecs, Open
    <2>4. Len(call.path) + 2 <= MaxFds
      <3> DEFINE k == Len(call.path)
                 m == Cardinality(r.ends)
      <3>1. 3 + k + m + 3 <= MaxFds
        BY <1>4 DEF OpenFds
      <3>2. k \in Nat
        BY <1>2 DEF Paths
      <3>3. m \in Nat
        BY <2>1, FS_CardinalityType DEF ProcOK
      <3>4. MaxFds \in Nat
        BY DirSizeAssumption
      <3> HIDE DEF k, m
      <3>5. k + 2 <= MaxFds
        BY <3>1, <3>2, <3>3, <3>4
      <3> QED
        BY <3>5 DEF k
    <2> HIDE DEF c
    <2>5. Append(Front(r.calls), c) \in Seq(CallRecs)
      <3> HIDE DEF r
      <3> QED
        BY <1>2, <2>3, ReplacedLast
    <2>6. /\ n \in ProcRecs /\ n.calls = Append(Front(r.calls), c)
          /\ n.status = r.status /\ n.size = r.size
          /\ n.ends = r.ends \cup {<<call.path, "r">>, <<call.path, "w">>}
      <3> DEFINE m == [r EXCEPT !.calls = Append(Front(@), c)]
      <3>1. /\ m \in ProcRecs /\ m.calls = Append(Front(r.calls), c)
            /\ m.status = r.status /\ m.size = r.size /\ m.ends = r.ends
        <4> HIDE DEF r
        <4> QED
          BY <1>2, <2>5 DEF ProcRecs
      <3>2. n = [m EXCEPT !.ends = m.ends \cup {<<call.path, "r">>, <<call.path, "w">>}]
        BY DEF WithCurrent
      <3>3. {<<call.path, "r">>, <<call.path, "w">>} \subseteq Paths \X {"r", "w"}
        BY <1>2
      <3> HIDE DEF m, n, call
      <3> QED
        BY <3>1, <3>2, <3>3 DEF ProcRecs
    <2> HIDE DEF n
    <2>7. call.path \notin D
      BY <1>1, <2>1 DEF CallOK
    <2>8. ASSUME NEW q \in DOMAIN procs, NEW i \in DOMAIN procs[q].calls, ~(q = p /\ i = Len(r.calls))
          PROVE  CallOK(procs[q].calls[i], E, K)
      <3> DEFINE d == procs[q].calls[i]
      <3>1. CallOK(d, D, K)
        BY <2>1 DEF ProcOK
      <3>2. d.path # call.path
        <4>1. Unique(procs)
          BY DEF IInv, Sound
        <4> QED
          BY <1>2, <2>8, <4>1 DEF Unique
      <3>3. \A e \in Open(d) : ~Below(Append(d.path, e), call.path)
        <4>1. Fresh(procs)
          BY DEF IInv, Sound
        <4>2. \A e \in Open(d) : Unseen(procs, Append(d.path, e))
          BY <4>1 DEF Fresh
        <4> QED
          BY <1>2, <4>2 DEF Unseen
      <3> HIDE DEF d, D, K
      <3>4. CallOK(d, D \cup {call.path}, K)
        BY <3>1, <3>2, <3>3, StillOK
      <3> QED
        BY <3>4 DEF d, D
    <2>9. CallOK(c, E, K)
      <3>1. \A e \in Open(c), path \in D : ~Below(Append(c.path, e), path)
        <4>1. \A e \in Entries, path \in D : ~Below(Append(call.path, e), path)
          BY <2>1, <2>3 DEF CallOK
        <4> QED
          BY <2>2, <2>3, <4>1
      <3>2. ASSUME NEW e \in Open(c) PROVE ~Below(Append(c.path, e), call.path)
        <4>1. e \in Entries
          BY <2>2, <2>3
        <4>2. Append(call.path, e) \in Paths /\ Len(Append(call.path, e)) = Len(call.path) + 1
          BY <1>2, <4>1, StepBelow
        <4>3. Len(call.path) \in Nat
          BY <1>2 DEF Paths
        <4> QED
          BY <2>3, <4>2, <4>3 DEF Below
      <3> QED
        BY <2>2, <2>3, <2>4, <3>1, <3>2 DEF CallOK
    <2>10. CallWorth(Worth, c) = CallWorth(Worth, call)
      <3> DEFINE W == Worth
      <3>1. /\ Weighed(W) /\ call \in CallRecs /\ c \in CallRecs /\ call.phase = "enter" /\ IsDir(call.dir)
            /\ CallOK(call, D, DOMAIN disk.size) /\ Len(call.path) + 2 <= MaxFds /\ c.path = call.path
            /\ c.phase = "scan" /\ c.todo = disk.in[call.dir] /\ c.dirSize = disk.size[call.dir]
        BY <1>1, <1>2, <1>4, <2>1, <2>3, <2>4
      <3> HIDE DEF W, call, D
      <3> QED
        BY <2>1, <3>1, EnterWorth DEF W
    <2>11. IsFiniteSet(n.ends) /\ \A end \in n.ends : end[1] \in E
      <3>1. IsFiniteSet(r.ends) /\ \A end \in r.ends : end[1] \in D
        BY <2>1 DEF ProcOK
      <3>2. IsFiniteSet(r.ends \cup {<<call.path, "r">>})
        BY <3>1, FS_AddElement
      <3>3. IsFiniteSet((r.ends \cup {<<call.path, "r">>}) \cup {<<call.path, "w">>})
        BY <3>2, FS_AddElement
      <3>4. (r.ends \cup {<<call.path, "r">>}) \cup {<<call.path, "w">>} = n.ends
        BY <2>6
      <3>5. \A end \in n.ends : end[1] \in E
        BY <2>6, <3>1
      <3> QED
        BY <3>3, <3>4, <3>5
    <2>12. /\ ProcOK(n, E, K)
           /\ ProcWorth(Worth, n) + CallWorth(Worth, call) = ProcWorth(Worth, r) + CallWorth(Worth, c)
           /\ ProcWorth(Worth, n) \in Nat /\ ProcWorth(Worth, r) \in Nat
           /\ CallWorth(Worth, c) \in Nat /\ CallWorth(Worth, call) \in Nat
      <3>1. \A i \in DOMAIN procs[p].calls :
              i # Len(procs[p].calls) => CallOK(procs[p].calls[i], E, DOMAIN disk.size)
        BY <2>8
      <3>2. /\ <<c.path, "r">> \in n.ends
            /\ \A path : <<path, "r">> \in procs[p].ends => <<path, "r">> \in n.ends
        BY <2>3, <2>6
      <3>3. /\ n.calls = Append(Front(procs[p].calls), c) /\ n.status = "running" /\ n.size = procs[p].size
            /\ procs[p].status = "running" /\ CallOK(c, E, DOMAIN disk.size) /\ c \in CallRecs /\ n \in ProcRecs
            /\ call = Last(procs[p].calls)
        BY <1>1, <1>2, <2>3, <2>6, <2>9
      <3> HIDE DEF E, call, r, K
      <3>4. /\ ProcOK(n, E, DOMAIN disk.size)
            /\ ProcWorth(Worth, n) + CallWorth(Worth, Last(procs[p].calls))
                 = ProcWorth(Worth, procs[p]) + CallWorth(Worth, c)
            /\ ProcWorth(Worth, n) \in Nat /\ ProcWorth(Worth, procs[p]) \in Nat
            /\ CallWorth(Worth, c) \in Nat /\ CallWorth(Worth, Last(procs[p].calls)) \in Nat
        BY <2>11, <3>1, <3>2, <3>3, CurrentWorth
      <3> QED
        BY <3>3, <3>4 DEF r, K
    <2>13. PipesWorth(pipes') = PipesWorth(pipes) /\ PipesAre(pipes') /\ PipesWorth(pipes) \in Nat
      BY <1>2, <1>4, <2>1, <2>7, PipesMore, PipesSummable
    <2>14. DOMAIN pipes' = E
      BY <1>4 DEF With
    <2>15. Tidy(procs', E, K)
      <3>1. DOMAIN procs' = DOMAIN procs /\ procs'[p] = n /\ \A q \in DOMAIN procs : q # p => procs'[q] = procs[q]
        BY <1>4, <2>1 DEF ProcsAre
      <3>2. ASSUME NEW q \in DOMAIN procs, q # p PROVE ProcOK(procs[q], E, K)
        <4>1. \A i \in DOMAIN procs[q].calls : CallOK(procs[q].calls[i], E, K)
          BY <2>8, <3>2
        <4>2. ProcOK(procs[q], D, K) /\ D \subseteq E
          BY <2>1
        <4> HIDE DEF D, E, K
        <4> QED
          BY <4>1, <4>2 DEF ProcOK
      <3>3. IsFiniteSet(DOMAIN procs)
        BY <2>1 DEF Tidy
      <3> HIDE DEF E, K
      <3> QED
        BY <2>12, <3>1, <3>2, <3>3 DEF Tidy
    <2>16. All(Worth, procs', pipes') = All(Worth, procs, pipes) /\ All(Worth, procs, pipes) \in Nat
      <3> DEFINE x == ProcWorth(Worth, r)
                 y == ProcWorth(Worth, n)
                 s == ProcsWorth(Worth, procs)
                 t == ProcsWorth(Worth, procs')
      <3>1. t + x = s + y /\ t \in Nat /\ s \in Nat /\ x \in Nat /\ y \in Nat
        <4>1. /\ disk \in Disks /\ Weighed(Worth) /\ ProcsAre(procs) /\ Tidy(procs, D, DOMAIN disk.size)
              /\ n \in ProcRecs /\ ProcOK(n, E, DOMAIN disk.size) /\ procs' = [procs EXCEPT ![p] = n]
          BY <1>4, <2>1, <2>6, <2>12
        <4> HIDE DEF D, E
        <4> QED
          BY <4>1, ProcsChange
      <3>2. y = x
        <4> DEFINE u == CallWorth(Worth, c)
        <4>1. y + u = x + u /\ u \in Nat /\ x \in Nat /\ y \in Nat
          BY <2>10, <2>12
        <4> HIDE DEF x, y, u
        <4> QED
          BY ONLY <4>1
      <3>3. t = s
        <4> HIDE DEF x, y, s, t
        <4> QED
          BY ONLY <3>1, <3>2
      <3> QED
        BY <2>13, <3>1, <3>3 DEF All
    <2>17. HasFailed(procs) => HasFailed(procs')
      BY <1>1, <1>4, <2>1 DEF HasFailed, ProcsAre
    <2>18. TidyNext
      BY <2>13, <2>14, <2>15 DEF TidyNext
    <2> HIDE DEF call, n
    <2>19. Balanced
      BY <2>16, <2>17 DEF Balanced
    <2> QED
      BY <2>18, <2>19
  <1> QED
    BY <1>3, <1>4 DEF enter

(* What the entries that call c has yet to come to are worth               *)
Depth(c) == MaxFds - Len(c.path) - 1

(* readdir has come to an entry: its worth goes, for what is added.        *)
LEMMA PassedBalance ==
  ASSUME IInv, Tidied, NEW p \in DOMAIN procs, InPhase(p, "scan"), NEW e \in Current(p).todo,
         NEW added \in Nat
  PROVE  LET n == Passed(p, e, added)
             x == Worth[Depth(Current(p))][e]
         IN  /\ n \in ProcRecs /\ ProcOK(n, DOMAIN pipes, DOMAIN disk.size)
             /\ ProcWorth(Worth, n) + x = ProcWorth(Worth, procs[p]) + added
             /\ ProcWorth(Worth, n) \in Nat /\ ProcWorth(Worth, procs[p]) \in Nat /\ x \in Nat
             /\ n.status = "running" /\ n.ends = procs[p].ends /\ n.size = 0
             /\ Depth(Current(p)) \in 1 .. MaxFds /\ e \in DOMAIN disk.size
  <1> DEFINE r == procs[p]
             call == Current(p)
             c == [call EXCEPT !.todo = @ \ {e}, !.dirSize = @ + added]
             n == Passed(p, e, added)
             D == DOMAIN pipes
             K == DOMAIN disk.size
             x == Worth[Depth(Current(p))][e]
  <1>1. r.status = "running" /\ call.phase = "scan"
    BY DEF InPhase
  <1>2. /\ r \in ProcRecs /\ r.calls \in Seq(CallRecs) /\ r.calls # <<>> /\ Len(r.calls) \in DOMAIN r.calls
        /\ call = Last(r.calls) /\ call \in CallRecs /\ call = r.calls[Len(r.calls)]
    BY <1>1, CurrentFacts
  <1>3. /\ disk \in Disks /\ Weighed(Worth) /\ ProcOK(r, D, K) /\ CallOK(call, D, K)
        /\ <<call.path, "r">> \in r.ends /\ r.size = 0
    <2>1. ProcOK(r, D, K) /\ disk \in Disks /\ Weighed(Worth)
      BY BeforeFacts
    <2>2. CallOK(call, D, K) /\ <<call.path, "r">> \in r.ends
      BY <1>1, <1>2, <2>1 DEF ProcOK
    <2> QED
      BY <1>1, <2>1, <2>2 DEF ProcOK
  <1>4. /\ c \in CallRecs /\ c.path = call.path /\ c.phase = "scan" /\ c.todo = call.todo \ {e}
        /\ c.dirSize = call.dirSize + added /\ c.dir = call.dir
    <2>1. c = [call EXCEPT !.todo = call.todo \ {e}, !.dirSize = call.dirSize + added]
      OBVIOUS
    <2>2. call.dirSize + added \in Nat
      BY <1>2 DEF CallRecs
    <2> DEFINE y == call.dirSize + added
    <2> HIDE DEF call, c, y
    <2>3. c \in CallRecs /\ c.path = call.path /\ c.phase = "scan" /\ c.todo = call.todo \ {e}
          /\ c.dirSize = y /\ c.dir = call.dir
      BY <1>1, <1>2, <2>1, <2>2 DEF CallRecs, y
    <2> QED
      BY <2>3 DEF y
  <1>5. CallOK(c, D, K)
    <2>1. IsFiniteSet(c.todo)
      BY <1>1, <1>3, <1>4, FS_RemoveElement DEF CallOK
    <2> HIDE DEF call, c, D, K
    <2>2. Open(c) = c.todo /\ Open(call) = call.todo
      BY <1>1, <1>4 DEF Open
    <2> QED
      BY <1>1, <1>3, <1>4, <2>1, <2>2 DEF CallOK
  <1>6. n = WithCurrent(p, c)
    BY DEF Passed
  <1> HIDE DEF c, n
  <1>7. /\ n \in ProcRecs /\ n.calls = Append(Front(r.calls), c)
        /\ n.status = "running" /\ n.ends = r.ends /\ n.size = 0
    <2>1. /\ n \in ProcRecs /\ n.calls = Append(Front(r.calls), c)
          /\ n.status = "running" /\ n.ends = r.ends
      BY <1>1, <1>4, <1>6, WithCurrentFacts
    <2>2. n.size = r.size
      BY <1>2, <1>6 DEF WithCurrent, ProcRecs
    <2> QED
      BY <1>3, <2>1, <2>2
  <1>8. /\ CallWorth(Worth, c) + x = CallWorth(Worth, call) + added
        /\ CallWorth(Worth, c) \in Nat /\ CallWorth(Worth, call) \in Nat
    <2> DEFINE W == Worth
    <2>1. /\ Weighed(W) /\ call \in CallRecs /\ c \in CallRecs /\ call.phase = "scan"
          /\ CallOK(call, D, DOMAIN disk.size) /\ e \in call.todo /\ c.path = call.path
          /\ c.phase = "scan" /\ c.todo = call.todo \ {e} /\ c.dirSize = call.dirSize + added
      BY <1>1, <1>2, <1>3, <1>4
    <2> HIDE DEF W, call, D
    <2>2. /\ CallWorth(W, c) + W[MaxFds - Len(call.path) - 1][e] = CallWorth(W, call) + added
          /\ CallWorth(W, c) \in Nat /\ CallWorth(W, call) \in Nat
      BY <1>3, <2>1, PassedWorth
    <2> QED
      BY <2>2 DEF W, call, Depth
  <1>9. Depth(call) \in 1 .. MaxFds /\ x \in Nat /\ e \in K
    <2> DEFINE W == Worth
    <2>1. Weighed(W) /\ CallOK(call, D, DOMAIN disk.size) /\ call \in CallRecs /\ call.phase # "enter"
          /\ e \in call.todo
      BY <1>1, <1>2, <1>3
    <2> HIDE DEF W, call, D
    <2>2. /\ MaxFds - Len(call.path) - 1 \in 1 .. MaxFds /\ call.todo \subseteq DOMAIN disk.size
          /\ \A f \in call.todo : W[MaxFds - Len(call.path) - 1][f] \in Nat
      BY <1>3, <2>1, ComingFacts
    <2> QED
      BY <2>1, <2>2 DEF W, call, Depth
  <1>10. /\ ProcOK(n, D, K)
         /\ ProcWorth(Worth, n) + CallWorth(Worth, call) = ProcWorth(Worth, r) + CallWorth(Worth, c)
         /\ ProcWorth(Worth, n) \in Nat /\ ProcWorth(Worth, r) \in Nat
    <2>1. /\ \A i \in DOMAIN procs[p].calls :
              i # Len(procs[p].calls) => CallOK(procs[p].calls[i], D, DOMAIN disk.size)
          /\ IsFiniteSet(n.ends) /\ \A end \in n.ends : end[1] \in D
      BY <1>3, <1>7 DEF ProcOK
    <2>2. /\ <<c.path, "r">> \in n.ends
          /\ \A path : <<path, "r">> \in procs[p].ends => <<path, "r">> \in n.ends
      BY <1>3, <1>4, <1>7
    <2>3. /\ n.calls = Append(Front(procs[p].calls), c) /\ n.status = "running" /\ n.size = procs[p].size
          /\ procs[p].status = "running" /\ CallOK(c, D, DOMAIN disk.size) /\ c \in CallRecs /\ n \in ProcRecs
          /\ call = Last(procs[p].calls)
      BY <1>1, <1>2, <1>3, <1>4, <1>5, <1>7
    <2> HIDE DEF D, call, r, K
    <2>4. /\ ProcOK(n, D, DOMAIN disk.size)
          /\ ProcWorth(Worth, n) + CallWorth(Worth, Last(procs[p].calls))
               = ProcWorth(Worth, procs[p]) + CallWorth(Worth, c)
          /\ ProcWorth(Worth, n) \in Nat /\ ProcWorth(Worth, procs[p]) \in Nat
          /\ CallWorth(Worth, c) \in Nat /\ CallWorth(Worth, Last(procs[p].calls)) \in Nat
      BY <2>1, <2>2, <2>3, CurrentWorth
    <2> QED
      BY <2>3, <2>4 DEF r, K
  <1>11. ProcWorth(Worth, n) + x = ProcWorth(Worth, r) + added
    <2> DEFINE a == ProcWorth(Worth, n)
               b == ProcWorth(Worth, r)
               s == CallWorth(Worth, c)
               t == CallWorth(Worth, call)
    <2>1. /\ a + t = b + s /\ s + x = t + added
          /\ a \in Nat /\ b \in Nat /\ s \in Nat /\ t \in Nat /\ x \in Nat /\ added \in Nat
      BY <1>8, <1>9, <1>10
    <2> HIDE DEF a, b, s, t, x
    <2>2. a + x = b + added
      BY ONLY <2>1
    <2> QED
      BY <2>2 DEF a, b
  <1> QED
    BY <1>7, <1>9, <1>10, <1>11 DEF n

(* An entry that no call and no process is begun for                       *)
LEMMA EntryBalance ==
  ASSUME IInv, Tidied, NEW p \in DOMAIN procs, InPhase(p, "scan"), NEW e \in Current(p).todo,
         add_file(p, e) \/ skip_other(p, e) \/ add_link(p, e)
  PROVE  TidyNext /\ (misled' \/ Balanced)
  <1> DEFINE x == Worth[Depth(Current(p))][e]
  <1>1. Depth(Current(p)) \in 1 .. MaxFds /\ e \in DOMAIN disk.size /\ x \in Nat
    BY PassedBalance, 0 \in Nat
  <1>2. disk \in Disks /\ Weighed(Worth) /\ PipesAre(pipes) /\ procs[p].status = "running"
    BY BeforeFacts DEF InPhase
  <1>3. /\ IsFile(e) => x = disk.size[e]
        /\ e \in disk.others => x = 0
        /\ IsLink(e) /\ program # "myDU" => x = disk.size[disk.link[e]]
    <2> DEFINE d == Depth(Current(p))
               W == Worth
    <2>1. d \in 1 .. MaxFds /\ e \in DOMAIN disk.size /\ disk \in Disks /\ Weighed(W)
      BY <1>1, <1>2
    <2> HIDE DEF d, W
    <2>2. \A n \in 1 .. MaxFds, f \in DOMAIN disk.size :
            /\ IsFile(f) => W[n][f] = disk.size[f]
            /\ f \in disk.others => W[n][f] = 0
            /\ IsLink(f) /\ program # "myDU" => W[n][f] = disk.size[disk.link[f]]
      BY ONLY <2>1, WeighedFacts
    <2> QED
      BY <2>1, <2>2 DEF d, W
  <1>4. ASSUME NEW added \in Nat, procs' = [procs EXCEPT ![p] = Passed(p, e, added)], UNCHANGED pipes
        PROVE  TidyNext /\ (added = x => Balanced)
    <2> DEFINE n == Passed(p, e, added)
               y == ProcWorth(Worth, n)
               z == ProcWorth(Worth, procs[p])
    <2>1. /\ n \in ProcRecs /\ ProcOK(n, DOMAIN pipes, DOMAIN disk.size)
          /\ y + x = z + added /\ y \in Nat /\ z \in Nat /\ n.status = "running"
      BY PassedBalance
    <2>2. procs' = [procs EXCEPT ![p] = n] /\ procs[p].status # "failed"
      BY <1>2, <1>4
    <2> HIDE DEF n
    <2>3. TidyNext
      <3>1. Tidy(procs, DOMAIN pipes, DOMAIN disk.size)
        BY BeforeFacts
      <3>2. DOMAIN procs' = DOMAIN procs /\ \A q \in DOMAIN procs : procs'[q] = n \/ procs'[q] = procs[q]
        BY <2>2
      <3>3. Tidy(procs', DOMAIN pipes, DOMAIN disk.size)
        BY <2>1, <3>1, <3>2 DEF Tidy
      <3> QED
        BY <1>2, <1>4, <3>3 DEF TidyNext
    <2>4. ASSUME added = x PROVE Balanced
      <3>1. PipesWorth(pipes) \in Nat /\ PipesAre(pipes')
        BY <1>2, <1>4, PipesSummable
      <3>2. y = z
        <4> HIDE DEF x, y, z
        <4> QED
          BY <1>1, <2>1, <2>4
      <3>3. PipesWorth(pipes') + y = PipesWorth(pipes) + z /\ PipesWorth(pipes) + z \in Nat
        BY <1>4, <2>1, <3>1, <3>2
      <3>4. /\ PipesWorth(pipes') + y <= PipesWorth(pipes) + z
            /\ ~(PipesWorth(pipes') + y < PipesWorth(pipes) + z)
        <4> DEFINE a == PipesWorth(pipes') + y
                   b == PipesWorth(pipes) + z
        <4>1. a = b /\ b \in Nat
          BY <3>3
        <4> HIDE DEF a, b
        <4>2. a <= b /\ ~(a < b)
          BY <4>1
        <4> QED
          BY <4>2 DEF a, b
      <3> QED
        BY <1>4, <2>1, <2>2, <3>1, <3>4, Moved
    <2> QED
      BY <2>3, <2>4
  <1> HIDE DEF x
  <1>5. CASE add_file(p, e)
    <2>1. disk.size[e] \in Nat /\ x = disk.size[e]
      BY <1>1, <1>3, <1>5, StateFacts DEF add_file
    <2> QED
      BY <1>4, <1>5, <2>1 DEF add_file
  <1>6. CASE skip_other(p, e)
    BY <1>3, <1>4, <1>6 DEF skip_other
  <1>7. CASE add_link(p, e)
    <2>1. PICK target \in DOMAIN disk.size :
            ReadLink(e, target) /\ procs' = [procs EXCEPT ![p] = Passed(p, e, disk.size[target])]
      BY <1>7 DEF add_link
    <2>2. disk.size[target] \in Nat
      BY StateFacts
    <2>3. misled' = (misled \/ target # disk.link[e]) /\ IsLink(e) /\ UNCHANGED pipes /\ program # "myDU"
      BY <1>7, <2>1 DEF ReadLink, add_link
    <2>4. TidyNext /\ (disk.size[target] = x => Balanced)
      BY <1>4, <2>1, <2>2, <2>3
    <2>5. target = disk.link[e] => disk.size[target] = x
      BY <1>3, <2>3
    <2> QED
      BY <2>3, <2>4, <2>5
  <1> QED
    BY <1>5, <1>6, <1>7

(* A call begun for an entry of the call before, of this or a new process  *)
LEMMA NewCallFacts ==
  ASSUME IInv, Tidied, NEW p \in DOMAIN procs, InPhase(p, "scan"), NEW e \in Current(p).todo,
         NEW dir \in DOMAIN disk.size
  PROVE  LET a == Append(Current(p).path, e)
             c == Call(a, dir)
         IN  /\ c \in CallRecs /\ CallOK(c, DOMAIN pipes, DOMAIN disk.size) /\ c.phase = "enter"
             /\ CallWorth(Worth, c) = Worth[Depth(Current(p))][dir]
             /\ a \notin DOMAIN procs /\ a \in Paths
  <1> DEFINE r == procs[p]
             call == Current(p)
             D == DOMAIN pipes
             K == DOMAIN disk.size
             a == Append(call.path, e)
             c == Call(a, dir)
             k == Len(call.path)
  <1>1. r.status = "running" /\ call.phase = "scan"
    BY DEF InPhase
  <1>2. /\ Len(r.calls) \in DOMAIN r.calls /\ call = r.calls[Len(r.calls)] /\ call \in CallRecs
        /\ call.path \in Paths /\ call.todo \subseteq Entries
    BY <1>1, CurrentFacts
  <1>3. CallOK(call, D, K)
    <2>1. ProcOK(r, D, K)
      BY BeforeFacts
    <2> QED
      BY <1>2, <2>1 DEF ProcOK
  <1>4. e \in Entries /\ e \in Open(call) /\ dir \in Entries
    BY <1>1, <1>2, StateFacts DEF Open
  <1> HIDE DEF call
  <1>5. /\ a \in Paths /\ Len(a) = k + 1 /\ k \in Nat /\ Below(a, a)
        /\ \A f \in Entries, t \in Paths : Below(Append(a, f), t) => Below(a, t)
    <2>1. a \in Paths /\ Len(a) = k + 1 /\ k \in Nat
      BY <1>2, <1>4, StepBelow DEF Paths
    <2> HIDE DEF a
    <2> QED
      BY <2>1, BelowFacts, StepBelow
  <1>6. \A path \in D : ~Below(a, path)
    BY <1>3, <1>4 DEF CallOK
  <1> HIDE DEF a
  <1>7. c.path = a /\ c.dir = dir /\ c.phase = "enter" /\ c \in CallRecs /\ Open(c) = Entries
    BY <1>4, <1>5 DEF Call, CallRecs, Open
  <1> HIDE DEF c
  <1>8. k + 2 <= MaxFds /\ MaxFds \in Nat
    BY <1>1, <1>3, DirSizeAssumption DEF CallOK
  <1>9. k + 1 <= MaxFds /\ MaxFds - (k + 1) = MaxFds - k - 1
    <2> HIDE DEF k
    <2> QED
      BY <1>5, <1>8
  <1>10. CallOK(c, D, K)
    <2>1. c.path \notin D
      BY <1>5, <1>6, <1>7
    <2>2. ASSUME NEW f \in Entries, NEW path \in D PROVE ~Below(Append(a, f), path)
      <3> SUFFICES ASSUME Below(Append(a, f), path) PROVE FALSE
        OBVIOUS
      <3>1. path \in Paths
        BY BeforeFacts DEF PipesAre, D
      <3>2. Below(a, path)
        BY <1>5, <3>1
      <3> QED
        BY <1>6, <3>2
    <2> HIDE DEF D, K
    <2> QED
      BY <1>5, <1>7, <1>9, <2>1, <2>2 DEF CallOK, K
  <1>11. CallWorth(Worth, c) = Worth[Depth(call)][dir]
    BY <1>5, <1>7, <1>9 DEF CallWorth, Depth
  <1>12. a \notin DOMAIN procs
    <2>1. Fresh(procs)
      BY DEF IInv, Sound
    <2>2. Unseen(procs, a)
      BY <1>2, <1>4, <2>1 DEF Fresh, a
    <2> QED
      BY <1>5, <2>2 DEF Unseen
  <1> QED
    BY <1>5, <1>7, <1>10, <1>11, <1>12 DEF a, c, call

(* The calls of a new process have what its one call has.                  *)
LEMMA SingleWorth ==
  ASSUME disk \in Disks, NEW W, Weighed(W), NEW c \in CallRecs, NEW D, CallOK(c, D, DOMAIN disk.size)
  PROVE  CallsWorth(W, <<c>>) = CallWorth(W, c) /\ CallWorth(W, c) \in Nat
  <1> DEFINE z == <<>>
             F == [i \in DOMAIN z |-> CallWorth(W, z[i])]
  <1>1. z \in Seq(CallRecs) /\ DOMAIN z = {} /\ Append(z, c) = <<c>>
    OBVIOUS
  <1>2. DOMAIN F = {} /\ F = [i \in DOMAIN F |-> F[i]]
    BY <1>1
  <1>3. CallsWorth(W, z) = SumFunction(F)
    BY DEF CallsWorth
  <1> HIDE DEF F, z
  <1>4. Summable(F)
    BY <1>2, FS_EmptySet DEF Summable
  <1>5. SumFunction(F) = 0
    BY <1>2, <1>4, SumNothing
  <1>6. CallsOK(z, D, DOMAIN disk.size)
    BY <1>1 DEF CallsOK
  <1>7. CallsWorth(W, Append(z, c)) = CallsWorth(W, z) + CallWorth(W, c) /\ CallWorth(W, c) \in Nat
    BY <1>6, MoreWorth
  <1> QED
    BY <1>1, <1>3, <1>5, <1>7

(* The child has what the directory was worth to its parent.               *)
LEMMA ForkBalance ==
  ASSUME IInv, Tidied, NEW p \in DOMAIN procs, InPhase(p, "scan"), NEW e \in Current(p).todo, fork_child(p, e)
  PROVE  TidyNext /\ Balanced
  <1> DEFINE r == procs[p]
             m == Passed(p, e, 0)
             M == [procs EXCEPT ![p] = m]
             path == Current(p).path
             a == Append(path, e)
             c == Call(a, e)
             n == Process(p, a, e, r.ends \ {<<path, "r">>})
             Q == With(M, a, n)
             D == DOMAIN pipes
             K == DOMAIN disk.size
             d == Depth(Current(p))
             x == Worth[d][e]
  <1>1. procs' = Q /\ pipes' = pipes
    BY DEF fork_child
  <1>2. /\ m \in ProcRecs /\ ProcOK(m, D, K) /\ ProcWorth(Worth, m) + x = ProcWorth(Worth, r) + 0
        /\ ProcWorth(Worth, m) \in Nat /\ ProcWorth(Worth, r) \in Nat /\ x \in Nat
        /\ m.status = "running" /\ e \in K
    BY PassedBalance, 0 \in Nat
  <1>3. /\ disk \in Disks /\ Weighed(Worth) /\ ProcsAre(procs) /\ PipesAre(pipes) /\ Tidy(procs, D, K)
        /\ r \in ProcRecs /\ ProcOK(r, D, K) /\ p \in Paths
    BY BeforeFacts, StateFacts
  <1>4. /\ c \in CallRecs /\ CallOK(c, D, K) /\ c.phase = "enter" /\ CallWorth(Worth, c) = x
        /\ a \notin DOMAIN procs
    BY <1>2, NewCallFacts
  <1>5. /\ n \in ProcRecs /\ n.status = "running" /\ n.calls = <<c>> /\ n.size = 0
        /\ n.ends = r.ends \ {<<path, "r">>}
    <2>1. r.ends \ {<<path, "r">>} \in SUBSET (Paths \X {"r", "w"})
      BY <1>3 DEF ProcRecs
    <2>2. <<c>> \in Seq(CallRecs)
      <3> HIDE DEF c
      <3> QED
        BY <1>4
    <2>3. n = [parent |-> p, status |-> "running", calls |-> <<c>>, ends |-> r.ends \ {<<path, "r">>}, size |-> 0]
      BY DEF Process
    <2> HIDE DEF n, c, path, r
    <2> QED
      BY <1>3, <2>1, <2>2, <2>3 DEF ProcRecs
  <1> HIDE DEF n, m, c, x, a, Q
  <1>6. ProcOK(n, D, K)
    <2>1. IsFiniteSet(n.ends) /\ \A end \in n.ends : end[1] \in D
      <3>1. IsFiniteSet(r.ends) /\ \A end \in r.ends : end[1] \in D
        BY <1>3 DEF ProcOK
      <3> QED
        BY <1>5, <3>1, FS_RemoveElement, FS_Subset
    <2>2. DOMAIN <<c>> = {1} /\ <<c>>[1] = c
      OBVIOUS
    <2> QED
      BY <1>4, <1>5, <2>1, <2>2 DEF ProcOK
  <1>7. ProcWorth(Worth, n) = x
    <2>1. CallsWorth(Worth, <<c>>) = x
      BY <1>3, <1>4, SingleWorth
    <2> QED
      BY <1>2, <1>5, <2>1 DEF ProcWorth
  <1> DEFINE s == ProcsWorth(Worth, procs)
             t == ProcsWorth(Worth, M)
             u == ProcsWorth(Worth, Q)
             y == ProcWorth(Worth, r)
             z == ProcWorth(Worth, m)
  <1>8. t + y = s + z /\ s \in Nat /\ t \in Nat /\ ProcsAre(M)
    <2>1. /\ disk \in Disks /\ Weighed(Worth) /\ ProcsAre(procs) /\ Tidy(procs, D, DOMAIN disk.size)
          /\ m \in ProcRecs /\ ProcOK(m, D, DOMAIN disk.size)
      BY <1>2, <1>3
    <2> HIDE DEF D
    <2> QED
      BY <2>1, ProcsChange
  <1>9. Tidy(M, D, K) /\ a \notin DOMAIN M
    <2>1. DOMAIN M = DOMAIN procs /\ \A q \in DOMAIN procs : M[q] = m \/ M[q] = procs[q]
      BY <1>3 DEF ProcsAre
    <2> HIDE DEF M
    <2> QED
      BY <1>2, <1>3, <1>4, <2>1 DEF Tidy
  <1>10. u = t + x /\ ProcsAre(Q) /\ Tidy(Q, D, K)
    <2>1. /\ disk \in Disks /\ Weighed(Worth) /\ ProcsAre(M) /\ Tidy(M, D, DOMAIN disk.size)
          /\ n \in ProcRecs /\ ProcOK(n, D, DOMAIN disk.size) /\ a \notin DOMAIN M
      BY <1>3, <1>5, <1>6, <1>8, <1>9
    <2> HIDE DEF D, M
    <2>2. /\ ProcsWorth(Worth, With(M, a, n)) = ProcsWorth(Worth, M) + ProcWorth(Worth, n)
          /\ ProcsAre(With(M, a, n)) /\ Tidy(With(M, a, n), D, DOMAIN disk.size)
      BY <2>1, ProcsMore
    <2> QED
      BY <1>7, <2>2 DEF Q, M
  <1>11. u = s
    <2>1. z + x = y + 0 /\ z \in Nat /\ y \in Nat /\ x \in Nat
      BY <1>2
    <2> HIDE DEF s, t, u, y, z
    <2> QED
      BY ONLY <1>8, <1>10, <2>1
  <1>12. All(Worth, procs', pipes') = All(Worth, procs, pipes) /\ All(Worth, procs, pipes) \in Nat
    <2>1. PipesWorth(pipes) \in Nat
      BY <1>3, PipesSummable
    <2> QED
      BY <1>1, <1>8, <1>11, <2>1 DEF All
  <1>13. HasFailed(procs) => HasFailed(procs')
    <2>1. \A q \in DOMAIN procs : q # p => q \in DOMAIN Q /\ Q[q] = procs[q]
      BY <1>3, <1>4 DEF Q, With, ProcsAre
    <2>2. r.status # "failed"
      BY DEF InPhase
    <2> QED
      BY <1>1, <2>1, <2>2 DEF HasFailed
  <1>14. TidyNext
    BY <1>1, <1>3, <1>10 DEF TidyNext
  <1>15. Balanced
    BY <1>12, <1>13 DEF Balanced
  <1> QED
    BY <1>14, <1>15

(* The call for a link has what the link was worth, unless this was read   *)
(* wrong.                                                                  *)
LEMMA FollowBalance ==
  ASSUME IInv, Tidied, NEW p \in DOMAIN procs, InPhase(p, "scan"), NEW e \in Current(p).todo, follow_link(p, e)
  PROVE  TidyNext /\ (misled' \/ Balanced)
  <1> DEFINE r == procs[p]
             m == Passed(p, e, 0)
             a == Append(Current(p).path, e)
             D == DOMAIN pipes
             K == DOMAIN disk.size
             d == Depth(Current(p))
             x == Worth[d][e]
  <1>1. PICK target \in DOMAIN disk.size :
          /\ ReadLink(e, target)
          /\ procs' = [procs EXCEPT ![p] = [m EXCEPT !.calls = Append(@, Call(a, target))]]
    BY DEF follow_link
  <1>2. program = "myDU" /\ pipes' = pipes /\ IsLink(e) /\ misled' = (misled \/ target # disk.link[e])
    BY <1>1 DEF follow_link, ReadLink
  <1> DEFINE c == Call(a, target)
             n == [m EXCEPT !.calls = Append(@, c)]
             y == Worth[d][target]
  <1>3. procs' = [procs EXCEPT ![p] = n]
    BY <1>1
  <1>4. /\ m \in ProcRecs /\ ProcOK(m, D, K) /\ ProcWorth(Worth, m) + x = ProcWorth(Worth, r) + 0
        /\ ProcWorth(Worth, m) \in Nat /\ ProcWorth(Worth, r) \in Nat /\ x \in Nat
        /\ m.status = "running" /\ e \in K /\ d \in 1 .. MaxFds /\ m.size = 0
    BY PassedBalance, 0 \in Nat
  <1>5. /\ disk \in Disks /\ Weighed(Worth) /\ ProcsAre(procs) /\ PipesAre(pipes) /\ Tidy(procs, D, K)
        /\ r \in ProcRecs /\ ProcOK(r, D, K) /\ p \in Paths
    BY BeforeFacts, StateFacts
  <1>6. c \in CallRecs /\ CallOK(c, D, K) /\ c.phase = "enter" /\ CallWorth(Worth, c) = y
    BY NewCallFacts
  <1>7. m.calls \in Seq(CallRecs) /\ CallsOK(m.calls, D, K) /\ CallsWorth(Worth, m.calls) \in Nat
    <2>1. m.calls \in Seq(CallRecs)
      BY <1>4 DEF ProcRecs
    <2>2. CallsOK(m.calls, D, K)
      BY <1>4, <2>1 DEF ProcOK, CallsOK
    <2> HIDE DEF D, m
    <2> QED
      BY <1>5, <2>1, <2>2, CallsWorthNat
  <1> DEFINE s == m.calls
             t == Append(s, c)
  <1> HIDE DEF m, c, x, y, d
  <1>8. n \in ProcRecs /\ n.calls = t /\ n.status = "running" /\ n.size = 0 /\ n.ends = m.ends
    <2>1. t \in Seq(CallRecs)
      BY <1>6, <1>7
    <2> HIDE DEF t
    <2>2. n = [m EXCEPT !.calls = t]
      BY DEF t
    <2> HIDE DEF n
    <2> QED
      BY <1>4, <2>1, <2>2 DEF ProcRecs
  <1> HIDE DEF n
  <1>9. CallsWorth(Worth, t) = CallsWorth(Worth, s) + y /\ y \in Nat
    <2>1. CallsOK(s, D, DOMAIN disk.size) /\ c \in CallRecs /\ CallOK(c, D, DOMAIN disk.size)
      BY <1>6, <1>7
    <2> HIDE DEF s, D
    <2> QED
      BY <1>5, <1>6, <2>1, MoreWorth
  <1>10. ProcWorth(Worth, n) = ProcWorth(Worth, m) + y
    BY <1>4, <1>7, <1>8, <1>9 DEF ProcWorth
  <1>11. ProcOK(n, D, K)
    <2>1. /\ t \in Seq(CallRecs) /\ DOMAIN t = DOMAIN s \cup {Len(s) + 1} /\ t[Len(s) + 1] = c
          /\ \A i \in DOMAIN s : t[i] = s[i]
      <3>1. s \in Seq(CallRecs)
        BY <1>7
      <3> HIDE DEF s
      <3> QED
        BY <1>6, <3>1, AppendFacts
    <2>2. \A i \in DOMAIN s : CallOK(s[i], D, K) /\ (s[i].phase # "enter" => <<s[i].path, "r">> \in n.ends)
      BY <1>4, <1>8 DEF ProcOK
    <2>3. IsFiniteSet(n.ends) /\ \A end \in n.ends : end[1] \in D
      BY <1>4, <1>8 DEF ProcOK
    <2> HIDE DEF s, t, D, K
    <2>4. \A i \in DOMAIN t : CallOK(t[i], D, K) /\ (t[i].phase # "enter" => <<t[i].path, "r">> \in n.ends)
      BY <1>6, <2>1, <2>2
    <2> QED
      BY <1>8, <2>3, <2>4 DEF ProcOK
  <1>12. TidyNext
    <2>1. DOMAIN procs' = DOMAIN procs /\ \A q \in DOMAIN procs : procs'[q] = n \/ procs'[q] = procs[q]
      BY <1>3, <1>5 DEF ProcsAre
    <2>2. Tidy(procs', D, K)
      BY <1>5, <1>11, <2>1 DEF Tidy
    <2> QED
      BY <1>2, <1>5, <2>2 DEF TidyNext
  <1>13. ASSUME target = disk.link[e] PROVE Balanced
    <2>1. y = x
      <3> DEFINE W == Worth
      <3>1. d \in 1 .. MaxFds /\ e \in DOMAIN disk.size /\ Weighed(W)
        BY <1>4, <1>5
      <3> HIDE DEF W
      <3>2. W[d][e] = W[d][disk.link[e]]
        BY <1>2, <1>5, <3>1, WeighedFacts
      <3> QED
        BY <1>13, <3>2 DEF x, y, W
    <2> DEFINE u == ProcWorth(Worth, n)
               v == ProcWorth(Worth, r)
               w == ProcWorth(Worth, m)
               b == PipesWorth(pipes)
    <2>2. w + x = v + 0 /\ w \in Nat /\ v \in Nat /\ x \in Nat /\ u = w + x
      BY <1>4, <1>10, <2>1
    <2>3. b \in Nat
      BY <1>5, PipesSummable
    <2>4. b + u <= b + v /\ ~(b + u < b + v)
      <3> HIDE DEF u, v, w, b
      <3> QED
        BY ONLY <2>2, <2>3
    <2>5. PipesWorth(pipes') + u <= b + v /\ ~(PipesWorth(pipes') + u < b + v)
      BY <1>2, <2>4
    <2>6. r.status # "failed"
      BY DEF InPhase
    <2> QED
      BY <1>2, <1>3, <1>5, <1>8, <1>11, <2>5, <2>6, Moved
  <1> QED
    BY <1>2, <1>12, <1>13

(* A step of a process that loses nothing                                  *)
LEMMA EvenMove ==
  ASSUME IInv, Tidied, NEW p \in DOMAIN procs, procs[p].status # "failed",
         NEW n \in ProcRecs, ProcOK(n, DOMAIN pipes, DOMAIN disk.size),
         procs' = [procs EXCEPT ![p] = n], PipesAre(pipes'), DOMAIN pipes' = DOMAIN pipes,
         PipesWorth(pipes') + ProcWorth(Worth, n) = PipesWorth(pipes) + ProcWorth(Worth, procs[p])
  PROVE  TidyNext /\ Balanced
  <1> DEFINE a == PipesWorth(pipes') + ProcWorth(Worth, n)
             b == PipesWorth(pipes) + ProcWorth(Worth, procs[p])
  <1>1. b \in Nat
    <2>1. PipesWorth(pipes) \in Nat /\ ProcWorth(Worth, procs[p]) \in Nat
      BY BeforeFacts, PipesSummable, ProcsSummable
    <2> QED
      BY <2>1
  <1>2. a = b
    OBVIOUS
  <1>3. a <= b /\ ~(a < b)
    <2> HIDE DEF a, b
    <2> QED
      BY <1>1, <1>2
  <1> QED
    BY <1>3, Moved

(* Closing the end to write to                                             *)
LEMMA StopBalance ==
  ASSUME IInv, Tidied, NEW p \in DOMAIN procs, stop_scanning(p)
  PROVE  TidyNext /\ Balanced
  <1> DEFINE r == procs[p]
             call == Current(p)
             c == [call EXCEPT !.phase = "read"]
             m == WithCurrent(p, c)
             n == [m EXCEPT !.ends = @ \ {<<call.path, "w">>}]
             D == DOMAIN pipes
             K == DOMAIN disk.size
  <1>1. r.status = "running" /\ call.phase = "scan" /\ call.todo = {}
    BY DEF stop_scanning, InPhase
  <1>2. /\ r \in ProcRecs /\ Len(r.calls) \in DOMAIN r.calls
        /\ call = Last(r.calls) /\ call \in CallRecs /\ call = r.calls[Len(r.calls)]
    BY <1>1, CurrentFacts
  <1>3. /\ disk \in Disks /\ Weighed(Worth) /\ PipesAre(pipes) /\ ProcOK(r, D, K) /\ CallOK(call, D, K)
        /\ <<call.path, "r">> \in r.ends
    <2>1. ProcOK(r, D, K)
      BY BeforeFacts
    <2>2. CallOK(call, D, K) /\ <<call.path, "r">> \in r.ends
      BY <1>1, <1>2, <2>1 DEF ProcOK
    <2> QED
      BY <2>1, <2>2, BeforeFacts
  <1>4. procs' = [procs EXCEPT ![p] = n] /\ pipes' = pipes
    BY DEF stop_scanning
  <1>5. /\ c \in CallRecs /\ c.path = call.path /\ c.phase = "read" /\ c.todo = {}
        /\ c.dirSize = call.dirSize /\ c.dir = call.dir /\ c.dirSize \in Nat
    <2> HIDE DEF call
    <2> QED
      BY <1>1, <1>2 DEF CallRecs
  <1> HIDE DEF c
  <1>6. CallOK(c, D, K)
    <2>1. Open(c) = {}
      BY <1>5 DEF Open
    <2> HIDE DEF call, D, K
    <2> QED
      BY <1>1, <1>3, <1>5, <2>1 DEF CallOK
  <1>7. CallWorth(Worth, c) = call.dirSize + 0 /\ CallWorth(Worth, call) = call.dirSize + 0
    <2>1. CallWorth(Worth, c) = c.dirSize + 0
      BY <1>5, ReadWorth
    <2>2. CallWorth(Worth, call) = call.dirSize + 0
      BY <1>1, ReadWorth
    <2> QED
      BY <1>5, <2>1, <2>2
  <1>8. /\ m \in ProcRecs /\ m.calls = Append(Front(r.calls), c) /\ m.status = "running"
        /\ m.ends = r.ends /\ m.size = r.size
    <2>1. /\ m \in ProcRecs /\ m.calls = Append(Front(r.calls), c) /\ m.status = "running" /\ m.ends = r.ends
      BY <1>1, <1>5, WithCurrentFacts
    <2>2. m.size = r.size
      BY <1>2 DEF WithCurrent, ProcRecs
    <2> QED
      BY <2>1, <2>2
  <1> HIDE DEF m
  <1>9. /\ n \in ProcRecs /\ n.calls = Append(Front(r.calls), c) /\ n.status = "running"
        /\ n.ends = r.ends \ {<<call.path, "w">>} /\ n.size = r.size
    <2>1. n = [m EXCEPT !.ends = m.ends \ {<<call.path, "w">>}]
      OBVIOUS
    <2> HIDE DEF n, call, r
    <2> QED
      BY <1>8, <2>1 DEF ProcRecs
  <1> HIDE DEF n
  <1>10. /\ ProcOK(n, D, K)
         /\ ProcWorth(Worth, n) + CallWorth(Worth, call) = ProcWorth(Worth, r) + CallWorth(Worth, c)
         /\ ProcWorth(Worth, n) \in Nat /\ ProcWorth(Worth, r) \in Nat /\ CallWorth(Worth, c) \in Nat
    <2>1. \A i \in DOMAIN procs[p].calls :
            i # Len(procs[p].calls) => CallOK(procs[p].calls[i], D, DOMAIN disk.size)
      BY <1>3 DEF ProcOK
    <2>2. IsFiniteSet(n.ends) /\ \A end \in n.ends : end[1] \in D
      <3> DEFINE x == <<call.path, "w">>
      <3>1. IsFiniteSet(r.ends) /\ \A end \in r.ends : end[1] \in D
        BY <1>3 DEF ProcOK
      <3>2. n.ends = r.ends \ {x}
        BY <1>9
      <3> HIDE DEF x, r
      <3>3. IsFiniteSet(r.ends \ {x})
        BY <3>1, FS_RemoveElement
      <3> QED
        BY <3>1, <3>2, <3>3
    <2>3. /\ <<c.path, "r">> \in n.ends
          /\ \A path : <<path, "r">> \in procs[p].ends => <<path, "r">> \in n.ends
      BY <1>3, <1>5, <1>9
    <2>4. /\ n.calls = Append(Front(procs[p].calls), c) /\ n.status = "running" /\ n.size = procs[p].size
          /\ procs[p].status = "running" /\ CallOK(c, D, DOMAIN disk.size) /\ c \in CallRecs /\ n \in ProcRecs
          /\ call = Last(procs[p].calls)
      BY <1>1, <1>2, <1>5, <1>6, <1>9
    <2> HIDE DEF D, call, r, K
    <2>5. /\ ProcOK(n, D, DOMAIN disk.size)
          /\ ProcWorth(Worth, n) + CallWorth(Worth, Last(procs[p].calls))
               = ProcWorth(Worth, procs[p]) + CallWorth(Worth, c)
          /\ ProcWorth(Worth, n) \in Nat /\ ProcWorth(Worth, procs[p]) \in Nat
          /\ CallWorth(Worth, c) \in Nat /\ CallWorth(Worth, Last(procs[p].calls)) \in Nat
      BY <2>1, <2>2, <2>3, <2>4, CurrentWorth
    <2> QED
      BY <2>4, <2>5 DEF r, K
  <1>11. ProcWorth(Worth, n) = ProcWorth(Worth, r)
    <2> DEFINE x == ProcWorth(Worth, n)
               y == ProcWorth(Worth, r)
               z == CallWorth(Worth, c)
    <2>1. x + z = y + z /\ x \in Nat /\ y \in Nat /\ z \in Nat
      BY <1>7, <1>10
    <2> HIDE DEF x, y, z
    <2>2. x = y
      BY ONLY <2>1
    <2> QED
      BY <2>2 DEF x, y
  <1>12. r.status # "failed"
    BY <1>1
  <1> QED
    BY <1>3, <1>4, <1>9, <1>10, <1>11, <1>12, EvenMove

(* A size leaves the pipe for the call that reads it.                      *)
LEMMA ReadBalance ==
  ASSUME IInv, Tidied, NEW p \in DOMAIN procs, read_size(p)
  PROVE  TidyNext /\ Balanced
  <1> DEFINE r == procs[p]
             call == Current(p)
             s == pipes[call.path]
             h == Head(s)
             c == [call EXCEPT !.dirSize = @ + h]
             n == WithCurrent(p, c)
             D == DOMAIN pipes
             K == DOMAIN disk.size
  <1>1. r.status = "running" /\ call.phase = "read" /\ s # << >>
    BY DEF InPhase, read_size
  <1>2. /\ r \in ProcRecs /\ Len(r.calls) \in DOMAIN r.calls /\ call.path \in D
        /\ call = Last(r.calls) /\ call \in CallRecs /\ call = r.calls[Len(r.calls)]
    BY <1>1, CurrentFacts
  <1>3. /\ disk \in Disks /\ Weighed(Worth) /\ PipesAre(pipes) /\ ProcOK(r, D, K) /\ CallOK(call, D, K)
        /\ <<call.path, "r">> \in r.ends /\ call.todo = {}
    <2>1. ProcOK(r, D, K)
      BY BeforeFacts
    <2>2. CallOK(call, D, K) /\ <<call.path, "r">> \in r.ends
      BY <1>1, <1>2, <2>1 DEF ProcOK
    <2>3. call.todo = {}
      BY <1>1, <2>2 DEF CallOK
    <2> QED
      BY <2>1, <2>2, <2>3, BeforeFacts
  <1>4. procs' = [procs EXCEPT ![p] = n] /\ pipes' = [pipes EXCEPT ![call.path] = Tail(s)]
    BY DEF read_size
  <1>5. /\ SumFunction(s) = h + SumFunction(Tail(s)) /\ h \in Nat /\ Tail(s) \in Seq(Nat)
        /\ SumFunction(Tail(s)) \in Nat
    <2>1. s \in Seq(Nat) /\ s # <<>>
      BY <1>1, <1>2, <1>3 DEF PipesAre
    <2> HIDE DEF s
    <2>2. SumFunction(s) = h + SumFunction(Tail(s)) /\ h \in Nat /\ Tail(s) \in Seq(Nat)
      BY <2>1, SumHead
    <2> QED
      BY <2>2, SumOfSeq
  <1> HIDE DEF h
  <1>6. /\ c \in CallRecs /\ c.path = call.path /\ c.phase = "read" /\ c.todo = {}
        /\ c.dirSize = call.dirSize + h /\ c.dir = call.dir /\ call.dirSize \in Nat
    <2>1. c = [call EXCEPT !.dirSize = call.dirSize + h]
      OBVIOUS
    <2>2. call.dirSize \in Nat /\ call.dirSize + h \in Nat
      BY <1>2, <1>5 DEF CallRecs
    <2> DEFINE x == call.dirSize + h
    <2> HIDE DEF call, c, x
    <2>3. /\ c \in CallRecs /\ c.path = call.path /\ c.phase = "read" /\ c.todo = call.todo
          /\ c.dirSize = x /\ c.dir = call.dir
      BY <1>1, <1>2, <2>1, <2>2 DEF CallRecs, x
    <2> QED
      BY <1>3, <2>2, <2>3 DEF x
  <1> HIDE DEF c
  <1>7. CallOK(c, D, K)
    <2>1. Open(c) = {}
      BY <1>6 DEF Open
    <2> HIDE DEF call, D, K
    <2> QED
      BY <1>1, <1>3, <1>6, <2>1 DEF CallOK
  <1>8. CallWorth(Worth, c) = CallWorth(Worth, call) + h
    <2>1. CallWorth(Worth, c) = c.dirSize + 0
      BY <1>6, ReadWorth
    <2>2. CallWorth(Worth, call) = call.dirSize + 0
      BY <1>1, <1>3, ReadWorth
    <2> HIDE DEF call
    <2> QED
      BY <1>5, <1>6, <2>1, <2>2
  <1>9. /\ n \in ProcRecs /\ n.calls = Append(Front(r.calls), c) /\ n.status = "running"
        /\ n.ends = r.ends /\ n.size = r.size
    <2>1. /\ n \in ProcRecs /\ n.calls = Append(Front(r.calls), c) /\ n.status = "running" /\ n.ends = r.ends
      BY <1>1, <1>6, WithCurrentFacts
    <2>2. n.size = r.size
      BY <1>2 DEF WithCurrent, ProcRecs
    <2> QED
      BY <2>1, <2>2
  <1>14. procs' = [procs EXCEPT ![p] = n]
    BY <1>4 DEF c, h
  <1> HIDE DEF n
  <1>10. /\ ProcOK(n, D, K)
         /\ ProcWorth(Worth, n) + CallWorth(Worth, call) = ProcWorth(Worth, r) + CallWorth(Worth, c)
         /\ ProcWorth(Worth, n) \in Nat /\ ProcWorth(Worth, r) \in Nat
         /\ CallWorth(Worth, c) \in Nat /\ CallWorth(Worth, call) \in Nat
    <2>1. /\ \A i \in DOMAIN procs[p].calls :
               i # Len(procs[p].calls) => CallOK(procs[p].calls[i], D, DOMAIN disk.size)
          /\ IsFiniteSet(n.ends) /\ \A end \in n.ends : end[1] \in D
      BY <1>3, <1>9 DEF ProcOK
    <2>3. /\ <<c.path, "r">> \in n.ends
          /\ \A path : <<path, "r">> \in procs[p].ends => <<path, "r">> \in n.ends
      BY <1>3, <1>6, <1>9
    <2>4. /\ n.calls = Append(Front(procs[p].calls), c) /\ n.status = "running" /\ n.size = procs[p].size
          /\ procs[p].status = "running" /\ CallOK(c, D, DOMAIN disk.size) /\ c \in CallRecs /\ n \in ProcRecs
          /\ call = Last(procs[p].calls)
      BY <1>1, <1>2, <1>6, <1>7, <1>9
    <2> HIDE DEF D, call, r, K
    <2>5. /\ ProcOK(n, D, DOMAIN disk.size)
          /\ ProcWorth(Worth, n) + CallWorth(Worth, Last(procs[p].calls))
               = ProcWorth(Worth, procs[p]) + CallWorth(Worth, c)
          /\ ProcWorth(Worth, n) \in Nat /\ ProcWorth(Worth, procs[p]) \in Nat
          /\ CallWorth(Worth, c) \in Nat /\ CallWorth(Worth, Last(procs[p].calls)) \in Nat
      BY <2>1, <2>3, <2>4, CurrentWorth
    <2> QED
      BY <2>4, <2>5 DEF r, K
  <1>11. /\ PipesWorth(pipes') + SumFunction(s) = PipesWorth(pipes) + SumFunction(Tail(s))
         /\ PipesWorth(pipes') \in Nat /\ PipesWorth(pipes) \in Nat
         /\ SumFunction(s) \in Nat /\ PipesAre(pipes')
    <2> DEFINE path == call.path
               t == Tail(s)
    <2>1. PipesAre(pipes) /\ path \in DOMAIN pipes /\ t \in Seq(Nat) /\ pipes' = [pipes EXCEPT ![path] = t]
      BY <1>2, <1>3, <1>4, <1>5
    <2> HIDE DEF path, t
    <2>2. /\ PipesWorth(pipes') + SumFunction(pipes[path]) = PipesWorth(pipes) + SumFunction(t)
          /\ PipesWorth(pipes') \in Nat /\ PipesWorth(pipes) \in Nat
          /\ SumFunction(pipes[path]) \in Nat /\ PipesAre(pipes')
      BY <2>1, PipesChange
    <2> QED
      BY <2>2 DEF path, t
  <1>12. PipesWorth(pipes') + ProcWorth(Worth, n) = PipesWorth(pipes) + ProcWorth(Worth, r)
    <2> DEFINE x == ProcWorth(Worth, n)
               y == ProcWorth(Worth, r)
               a == CallWorth(Worth, call)
               b == CallWorth(Worth, c)
               u == PipesWorth(pipes')
               v == PipesWorth(pipes)
               f == SumFunction(s)
               g == SumFunction(Tail(s))
    <2>1. /\ x + a = y + b /\ b = a + h /\ u + f = v + g /\ f = h + g
          /\ x \in Nat /\ y \in Nat /\ a \in Nat /\ b \in Nat /\ u \in Nat /\ v \in Nat
          /\ f \in Nat /\ g \in Nat /\ h \in Nat
      BY <1>5, <1>8, <1>10, <1>11
    <2> HIDE DEF x, y, a, b, u, v, f, g
    <2>2. u + x = v + y
      BY ONLY <2>1
    <2> QED
      BY <2>2 DEF u, v, x, y
  <1>13. r.status # "failed" /\ DOMAIN pipes' = DOMAIN pipes
    BY <1>1, <1>4
  <1> QED
    BY <1>9, <1>10, <1>11, <1>12, <1>13, <1>14, EvenMove

(* The child that has written its size exits.                              *)
LEMMA ExitBalance ==
  ASSUME IInv, Tidied, NEW p \in DOMAIN procs, exit_child(p)
  PROVE  TidyNext /\ Balanced
  <1> DEFINE n == Ended(p, "exited")
             r == procs[p]
  <1>1. r.status = "written" /\ procs' = [procs EXCEPT ![p] = n] /\ pipes' = pipes
    BY DEF exit_child
  <1>2. r \in ProcRecs /\ r.calls = <<>>
    BY <1>1, DoneFacts
  <1>3. r.size = 0 /\ PipesAre(pipes)
    BY <1>1, BeforeFacts DEF ProcOK
  <1>4. n \in ProcRecs /\ ProcOK(n, DOMAIN pipes, DOMAIN disk.size) /\ ProcWorth(Worth, n) = 0
    BY EndedWorth
  <1>5. ProcWorth(Worth, r) = 0
    BY <1>2, <1>3, NoCallsWorth
  <1> HIDE DEF n
  <1>6. r.status # "failed"
    BY <1>1
  <1> QED
    BY <1>1, <1>3, <1>4, <1>5, <1>6, EvenMove

(* What a call has to hand over goes to the call before it.                *)
LEMMA HandedOver ==
  ASSUME disk \in Disks, NEW W, Weighed(W), NEW c \in CallRecs, c.phase = "scan",
         NEW D, CallOK(c, D, DOMAIN disk.size), NEW x \in Nat,
         NEW d, d = [c EXCEPT !.dirSize = @ + x]
  PROVE  /\ d \in CallRecs /\ d.path = c.path /\ d.phase = "scan" /\ CallOK(d, D, DOMAIN disk.size)
         /\ CallWorth(W, d) = CallWorth(W, c) + x
         /\ CallWorth(W, c) \in Nat /\ CallWorth(W, d) \in Nat
  <1> DEFINE y == c.dirSize + x
  <1>1. c.dirSize \in Nat /\ y \in Nat
    BY DEF CallRecs
  <1>2. d = [c EXCEPT !.dirSize = y]
    OBVIOUS
  <1> HIDE DEF y
  <1>3. /\ d \in CallRecs /\ d.path = c.path /\ d.phase = "scan" /\ d.todo = c.todo
        /\ d.dirSize = y /\ d.dir = c.dir
    BY <1>1, <1>2 DEF CallRecs
  <1>4. CallOK(d, D, DOMAIN disk.size)
    BY <1>3 DEF CallOK, Open
  <1>5. Coming(W, d) = Coming(W, c)
    BY <1>3 DEF Coming
  <1>6. CallWorth(W, d) = y + Coming(W, c) /\ CallWorth(W, c) = c.dirSize + Coming(W, c)
    BY <1>3, <1>5 DEF CallWorth
  <1>7. Coming(W, c) \in Nat
    BY ComingFacts
  <1>8. CallWorth(W, d) = CallWorth(W, c) + x /\ CallWorth(W, c) \in Nat /\ CallWorth(W, d) \in Nat
    <2> DEFINE s == c.dirSize
               t == Coming(W, c)
    <2>1. /\ s \in Nat /\ t \in Nat /\ CallWorth(W, d) = y + t /\ CallWorth(W, c) = s + t /\ y = s + x
      BY <1>1, <1>6, <1>7 DEF y
    <2> HIDE DEF s, t
    <2> QED
      BY ONLY <2>1, x \in Nat
  <1> QED
    BY <1>3, <1>4, <1>8

(* A process as it stands before its current call returns                  *)
LEMMA ReturnFacts ==
  ASSUME IInv, Tidied, NEW p \in DOMAIN procs, return_size(p)
  PROVE  LET r == procs[p]
             l == Last(r.calls)
         IN  /\ r.status = "running" /\ r \in ProcRecs /\ r.size = 0
             /\ r.calls \in Seq(CallRecs) /\ r.calls # <<>>
             /\ ProcOK(r, DOMAIN pipes, DOMAIN disk.size)
             /\ CallsOK(r.calls, DOMAIN pipes, DOMAIN disk.size)
             /\ l \in CallRecs /\ l.phase = "read" /\ l.dirSize \in Nat
             /\ CallWorth(Worth, l) = l.dirSize
             /\ Left(p) = r.ends \ {<<l.path, "r">>}
             /\ IsFiniteSet(Left(p)) /\ \A end \in Left(p) : end[1] \in DOMAIN pipes
             /\ \A i \in DOMAIN r.calls :
                  i # Len(r.calls) /\ r.calls[i].phase # "enter" => <<r.calls[i].path, "r">> \in Left(p)
  <1> DEFINE r == procs[p]
             l == Last(r.calls)
             D == DOMAIN pipes
             K == DOMAIN disk.size
  <1>1. r.status = "running" /\ l = Current(p) /\ l.phase = "read"
    BY DEF InPhase, return_size, Current
  <1>2. /\ r \in ProcRecs /\ r.calls \in Seq(CallRecs) /\ r.calls # <<>> /\ l \in CallRecs /\ l.dirSize \in Nat
        /\ Len(r.calls) \in DOMAIN r.calls /\ l = r.calls[Len(r.calls)]
        /\ r.ends \in SUBSET (Paths \X {"r", "w"})
    BY <1>1, CurrentFacts
  <1>3. ProcOK(r, D, K) /\ CallsOK(r.calls, D, K)
    BY BeforeFacts
  <1>4. r.size = 0 /\ IsFiniteSet(r.ends) /\ \A end \in r.ends : end[1] \in D
    BY <1>1, <1>3 DEF ProcOK
  <1>5. CallWorth(Worth, l) = l.dirSize
    <2>1. l.todo = {}
      BY <1>1, <1>2, <1>3 DEF ProcOK, CallOK
    <2>2. CallWorth(Worth, l) = l.dirSize + 0
      BY <1>1, <2>1, ReadWorth
    <2> QED
      BY <1>2, <2>2
  <1>6. Left(p) = r.ends \ {<<l.path, "r">>}
    BY <1>1 DEF Left
  <1>7. IsFiniteSet(Left(p)) /\ \A end \in Left(p) : end[1] \in D
    <2> DEFINE x == <<l.path, "r">>
    <2>1. Left(p) = r.ends \ {x}
      BY <1>6
    <2> HIDE DEF x, r
    <2>2. IsFiniteSet(r.ends \ {x})
      BY <1>4, FS_RemoveElement
    <2> QED
      BY <1>4, <2>1, <2>2
  <1>8. ASSUME NEW i \in DOMAIN r.calls, i # Len(r.calls), r.calls[i].phase # "enter"
        PROVE  <<r.calls[i].path, "r">> \in Left(p)
    <2>1. <<r.calls[i].path, "r">> \in r.ends
      BY <1>3, <1>8 DEF ProcOK
    <2>2. r.calls[i].path # l.path
      BY <1>2, <1>8 DEF IInv, Sound, Unique
    <2> QED
      BY <1>6, <2>1, <2>2
  <1> QED
    BY <1>1, <1>2, <1>3, <1>4, <1>5, <1>6, <1>7, <1>8

(* The call returns to the one before it.                                  *)
LEMMA ToCallerBalance ==
  ASSUME IInv, Tidied, NEW p \in DOMAIN procs, return_size(p), Front(procs[p].calls) # <<>>
  PROVE  TidyNext /\ Balanced
  <1> DEFINE r == procs[p]
             s == r.calls
             f == Front(s)
             l == Last(s)
             b == Last(f)
             c == [b EXCEPT !.dirSize = @ + l.dirSize]
             t == Append(Front(f), c)
             n == [r EXCEPT !.ends = Left(p), !.calls = t]
             D == DOMAIN pipes
             K == DOMAIN disk.size
  <1>1. procs' = [procs EXCEPT ![p] = n] /\ pipes' = pipes
    BY DEF return_size, Current
  <1>2. /\ r.status = "running" /\ r \in ProcRecs /\ r.size = 0 /\ s \in Seq(CallRecs) /\ s # <<>>
        /\ CallsOK(s, D, K) /\ l \in CallRecs /\ l.dirSize \in Nat /\ CallWorth(Worth, l) = l.dirSize
        /\ Left(p) = r.ends \ {<<l.path, "r">>} /\ l.phase = "read"
        /\ IsFiniteSet(Left(p)) /\ \A end \in Left(p) : end[1] \in D
        /\ \A i \in DOMAIN s : i # Len(s) /\ s[i].phase # "enter" => <<s[i].path, "r">> \in Left(p)
    BY ReturnFacts
  <1>3. disk \in Disks /\ Weighed(Worth) /\ PipesAre(pipes)
    BY BeforeFacts
  <1>4. Chained(p, s)
    BY <1>2, CurrentFacts DEF Local
  <1>5. n \in ProcRecs => n.calls = t /\ n.ends = Left(p) /\ n.status = "running" /\ n.size = 0
    <2>1. \A x, y : LET m == [r EXCEPT !.ends = x, !.calls = y]
                    IN m.calls = y /\ m.ends = x /\ m.status = "running" /\ m.size = 0
      <3> HIDE DEF r
      <3> QED
        BY <1>2 DEF ProcRecs
    <2> QED
      BY <2>1
  <1>6. t \in Seq(CallRecs) => n \in ProcRecs
    <2>1. Left(p) \in SUBSET (Paths \X {"r", "w"})
      BY <1>2 DEF ProcRecs
    <2> HIDE DEF r, t
    <2> QED
      BY <1>2, <2>1 DEF ProcRecs
  <1> HIDE DEF r, s, n, D, K
  <1>7. /\ CallsOK(f, D, K) /\ CallsWorth(Worth, s) = CallsWorth(Worth, f) + CallWorth(Worth, l)
        /\ CallsWorth(Worth, f) \in Nat /\ CallWorth(Worth, l) \in Nat
    BY <1>2, <1>3, LastWorth DEF K
  <1>8. /\ Len(s) \in Nat /\ DOMAIN f = 1 .. (Len(s) - 1) /\ DOMAIN s = 1 .. Len(s)
        /\ \A i \in 1 .. (Len(s) - 1) : f[i] = s[i]
    BY <1>2, FrontFacts
  <1>9. f \in Seq(CallRecs) /\ f # <<>>
    BY <1>7 DEF CallsOK, s, r
  <1> HIDE DEF f, l
  <1>10. /\ CallsOK(Front(f), D, K) /\ b \in CallRecs /\ CallOK(b, D, K)
         /\ CallsWorth(Worth, f) = CallsWorth(Worth, Front(f)) + CallWorth(Worth, b)
         /\ CallsWorth(Worth, Front(f)) \in Nat
    BY <1>3, <1>7, <1>9, LastWorth DEF K
  <1>11. Len(f) \in DOMAIN f /\ b = f[Len(f)] /\ b.phase = "scan"
    <2>1. Len(f) \in DOMAIN f /\ b = f[Len(f)]
      BY <1>9, FrontFacts
    <2>2. Len(f) \in 1 .. (Len(s) - 1)
      BY <1>8, <2>1
    <2>3. Len(f) \in DOMAIN s /\ Len(f) # Len(s)
      <3> DEFINE k == Len(f)
                 m == Len(s)
      <3>1. k \in 1 .. (m - 1) /\ m \in Nat /\ DOMAIN s = 1 .. m
        BY <1>8, <2>2
      <3> HIDE DEF k, m, s
      <3>2. k \in DOMAIN s /\ k # m
        BY <3>1
      <3> QED
        BY <3>2 DEF k, m
    <2>4. f[Len(f)] = s[Len(f)]
      BY <1>8, <2>2
    <2> QED
      BY <1>4, <2>1, <2>3, <2>4 DEF Chained
  <1>12. /\ c \in CallRecs /\ c.path = b.path /\ c.phase = "scan" /\ CallOK(c, D, K)
         /\ CallWorth(Worth, c) = CallWorth(Worth, b) + l.dirSize
         /\ CallWorth(Worth, b) \in Nat /\ CallWorth(Worth, c) \in Nat
    <2>1. c = [b EXCEPT !.dirSize = @ + l.dirSize]
      OBVIOUS
    <2> HIDE DEF b, c
    <2> QED
      BY <1>2, <1>3, <1>10, <1>11, <2>1, HandedOver DEF K
  <1>13. /\ t \in Seq(CallRecs) /\ DOMAIN t = DOMAIN f /\ t[Len(f)] = c
         /\ \A i \in DOMAIN f : i # Len(f) => t[i] = f[i]
    <2> HIDE DEF c
    <2> QED
      BY <1>9, <1>12, ReplacedLast
  <1> HIDE DEF b, c
  <1>14. CallsOK(t, D, K) /\ CallsWorth(Worth, t) = CallsWorth(Worth, Front(f)) + CallWorth(Worth, c)
    BY <1>3, <1>10, <1>12, MoreWorth DEF K
  <1> HIDE DEF t
  <1>15. n \in ProcRecs /\ n.calls = t /\ n.ends = Left(p) /\ n.status = "running" /\ n.size = 0
    BY <1>5, <1>6, <1>13
  <1>16. ProcOK(n, D, K)
    <2>1. ASSUME NEW i \in DOMAIN t
          PROVE  CallOK(t[i], D, K) /\ (t[i].phase # "enter" => <<t[i].path, "r">> \in Left(p))
      <3>1. i \in DOMAIN s /\ i # Len(s) /\ f[i] = s[i]
        BY <1>8, <1>13
      <3>2. t[i].path = f[i].path /\ (t[i].phase # "enter" => f[i].phase # "enter")
        BY <1>11, <1>12, <1>13
      <3>3. CallOK(t[i], D, K)
        BY <1>14 DEF CallsOK
      <3> QED
        BY <1>2, <3>1, <3>2, <3>3
    <2> QED
      BY <1>2, <1>15, <2>1 DEF ProcOK
  <1>17. ProcWorth(Worth, n) = ProcWorth(Worth, r)
    <2>1. ProcWorth(Worth, n) = 0 + CallsWorth(Worth, t) /\ ProcWorth(Worth, r) = 0 + CallsWorth(Worth, s)
      BY <1>2, <1>15 DEF ProcWorth, s
    <2>2. CallsWorth(Worth, t) = CallsWorth(Worth, s)
      <3> DEFINE x == CallsWorth(Worth, Front(f))
                 y == CallWorth(Worth, b)
                 z == l.dirSize
      <3>1. /\ CallsWorth(Worth, s) = (x + y) + z /\ CallsWorth(Worth, t) = x + (y + z)
            /\ x \in Nat /\ y \in Nat /\ z \in Nat
        BY <1>2, <1>7, <1>10, <1>12, <1>14
      <3> HIDE DEF x, y, z
      <3> QED
        BY <3>1
    <2> QED
      BY <2>1, <2>2
  <1>18. PipesWorth(pipes') + ProcWorth(Worth, n) = PipesWorth(pipes) + ProcWorth(Worth, r)
    BY <1>1, <1>17
  <1>19. r.status # "failed" /\ DOMAIN pipes' = DOMAIN pipes /\ PipesAre(pipes')
    BY <1>1, <1>2, <1>3
  <1> QED
    BY <1>1, <1>15, <1>16, <1>18, <1>19, EvenMove DEF D, K, r

(* The first call returns: the process has the size.                       *)
LEMMA FromFirstBalance ==
  ASSUME IInv, Tidied, NEW p \in DOMAIN procs, return_size(p), Front(procs[p].calls) = <<>>
  PROVE  TidyNext /\ Balanced
  <1> DEFINE r == procs[p]
             s == r.calls
             l == Last(s)
             status == IF p = << >> THEN "exited" ELSE "reporting"
             z == << >>
             n == [r EXCEPT !.ends = Left(p), !.calls = z, !.size = l.dirSize, !.status = status]
             D == DOMAIN pipes
             K == DOMAIN disk.size
  <1>1. procs' = [procs EXCEPT ![p] = n] /\ pipes' = pipes
    BY DEF return_size, Current
  <1>2. /\ r.status = "running" /\ r \in ProcRecs /\ r.size = 0 /\ s \in Seq(CallRecs) /\ s # <<>>
        /\ CallsOK(s, D, K) /\ l \in CallRecs /\ l.dirSize \in Nat /\ CallWorth(Worth, l) = l.dirSize
        /\ Left(p) = r.ends \ {<<l.path, "r">>}
        /\ IsFiniteSet(Left(p)) /\ \A end \in Left(p) : end[1] \in D
    BY ReturnFacts
  <1>3. disk \in Disks /\ Weighed(Worth) /\ PipesAre(pipes)
    BY BeforeFacts
  <1>4. status \in {"exited", "reporting"} /\ z \in Seq(CallRecs) /\ DOMAIN z = {} /\ z = <<>>
    OBVIOUS
  <1>5. Left(p) \in SUBSET (Paths \X {"r", "w"})
    BY <1>2 DEF ProcRecs
  <1>6. Front(s) = z
    OBVIOUS
  <1> HIDE DEF status, z
  <1>7. /\ n \in ProcRecs /\ n.calls = z /\ n.ends = Left(p) /\ n.status = status /\ n.size = l.dirSize
    <2> HIDE DEF r, l
    <2> QED
      BY <1>2, <1>4, <1>5 DEF ProcRecs
  <1> HIDE DEF n
  <1>8. ProcOK(n, D, K)
    BY <1>2, <1>4, <1>7 DEF ProcOK
  <1>9. ProcWorth(Worth, n) = l.dirSize
    BY <1>4, <1>7, NoCallsWorth
  <1>10. ProcWorth(Worth, r) = l.dirSize
    <2> HIDE DEF D, K
    <2>1. CallsWorth(Worth, s) = CallsWorth(Worth, z) + CallWorth(Worth, l)
      BY <1>2, <1>3, <1>6, LastWorth DEF K
    <2>2. CallsWorth(Worth, z) = 0
      <3>1. ProcWorth(Worth, n) = n.size + CallsWorth(Worth, z)
        BY <1>7 DEF ProcWorth
      <3>2. CallsWorth(Worth, z) \in Nat
        <4>1. CallsOK(z, D, K)
          BY <1>4 DEF CallsOK
        <4> QED
          BY <1>3, <4>1, CallsWorthNat DEF K
      <3> DEFINE x == CallsWorth(Worth, z)
                 y == l.dirSize
      <3>3. y = y + x /\ x \in Nat /\ y \in Nat
        BY <1>2, <1>7, <1>9, <3>1, <3>2
      <3> HIDE DEF x, y
      <3>4. x = 0
        BY ONLY <3>3
      <3> QED
        BY <3>4 DEF x
    <2>3. ProcWorth(Worth, r) = 0 + (0 + l.dirSize)
      BY <1>2, <2>1, <2>2 DEF ProcWorth
    <2> HIDE DEF l, r
    <2> QED
      BY <1>2, <2>3
  <1>11. PipesWorth(pipes') + ProcWorth(Worth, n) = PipesWorth(pipes) + ProcWorth(Worth, r)
    BY <1>1, <1>9, <1>10
  <1>12. r.status # "failed" /\ DOMAIN pipes' = DOMAIN pipes /\ PipesAre(pipes')
    BY <1>1, <1>2, <1>3
  <1> QED
    BY <1>1, <1>7, <1>8, <1>11, <1>12, EvenMove

(* Nobody reads what a child has to say only when its parent has failed.   *)
LEMMA NobodyReads ==
  ASSUME IInv, Tidied, NEW p \in DOMAIN procs, procs[p].status = "reporting", ~Held(Front(p), "r")
  PROVE  procs[p].parent \in DOMAIN procs /\ procs[procs[p].parent].status = "failed"
  <1> DEFINE q == procs[p].parent
             path == Front(p)
  <1>1. p \in Paths /\ p # <<>> /\ Lives(procs[p])
    BY DoneFacts
  <1>2. q \in DOMAIN procs
    BY DEF IInv, Sound, Good
  <1>3. procs[q].status = "failed" \/ HasCall(procs[q], path)
    BY <1>1 DEF IInv, Sound, Waits
  <1>4. ASSUME HasCall(procs[q], path) PROVE FALSE
    <2>1. PICK i \in DOMAIN procs[q].calls : procs[q].calls[i].path = path
      BY <1>4 DEF HasCall
    <2> DEFINE c == procs[q].calls[i]
    <2>2. ~Holds(q, path, "r")
      BY <1>2 DEF Held
    <2>3. c.phase = "enter"
      <3>1. ProcOK(procs[q], DOMAIN pipes, DOMAIN disk.size)
        BY <1>2, BeforeFacts
      <3>2. c.phase # "enter" => <<c.path, "r">> \in procs[q].ends
        BY <3>1 DEF ProcOK
      <3> QED
        BY <2>1, <2>2, <3>2 DEF Holds
    <2>4. /\ path \in Paths /\ Last(p) \in Entries /\ p = Append(path, Last(p))
      <3>1. /\ path \in Seq(Entries) /\ Last(p) \in Entries /\ Len(path) = Len(p) - 1
            /\ Last(p) = p[Len(p)] /\ \A j \in 1 .. (Len(p) - 1) : path[j] = p[j]
            /\ Len(p) \in Nat \ {0} /\ p \in Seq(Entries)
        BY <1>1, FrontFacts DEF Paths
      <3> DEFINE e == Last(p)
                 f == Front(p)
      <3> HIDE DEF e, f
      <3>2. p = Append(f, e)
        BY <3>1 DEF e, f
      <3> QED
        BY <3>1, <3>2 DEF e, f, Paths
    <2>5. Last(p) \in Open(c)
      BY <2>3, <2>4 DEF Open
    <2>6. Unseen(procs, Append(c.path, Last(p)))
      BY <1>2, <2>5 DEF IInv, Sound, Fresh
    <2>7. Append(c.path, Last(p)) = p
      BY <2>1, <2>4
    <2>8. Unseen(procs, p)
      BY <2>6, <2>7
    <2> QED
      BY <1>1, <2>8, BelowFacts DEF Unseen
  <1> QED
    BY <1>2, <1>3, <1>4

(* The child's size goes into the pipe, or is lost on a failed parent.     *)
LEMMA ReportBalance ==
  ASSUME IInv, Tidied, NEW p \in DOMAIN procs, report_size(p)
  PROVE  TidyNext /\ Balanced
  <1> DEFINE r == procs[p]
             path == Front(p)
             s == pipes[path]
             D == DOMAIN pipes
             K == DOMAIN disk.size
  <1>1. r.status = "reporting"
    BY DEF report_size
  <1>2. r \in ProcRecs /\ r.calls = <<>> /\ r.size \in Nat
    BY <1>1, DoneFacts DEF ProcRecs
  <1>3. PipesAre(pipes) /\ ProcOK(r, D, K) /\ ProcsAre(procs)
    BY BeforeFacts
  <1>4. ProcWorth(Worth, r) = r.size
    BY <1>2, NoCallsWorth
  <1>5. CASE /\ Held(path, "r") /\ pipes' = [pipes EXCEPT ![path] = Append(@, procs[p].size)]
             /\ procs' = [procs EXCEPT ![p].status = "written", ![p].size = 0]
    <2> DEFINE n == [r EXCEPT !.status = "written", !.size = 0]
               t == Append(s, r.size)
    <2>1. procs' = [procs EXCEPT ![p] = n]
      BY <1>3, <1>5 DEF ProcsAre
    <2>2. n \in ProcRecs /\ n.calls = <<>> /\ n.status = "written" /\ n.ends = r.ends /\ n.size = 0
      <3> HIDE DEF r
      <3> QED
        BY <1>2 DEF ProcRecs
    <2> HIDE DEF n
    <2>3. ProcOK(n, D, K)
      BY <1>2, <1>3, <2>2 DEF ProcOK
    <2>4. ProcWorth(Worth, n) = 0
      BY <2>2, NoCallsWorth
    <2>5. path \in D
      <3>1. PICK q \in DOMAIN procs : <<path, "r">> \in procs[q].ends
        BY <1>5 DEF Held, Holds
      <3>2. ProcOK(procs[q], D, K)
        BY BeforeFacts
      <3> QED
        BY <3>1, <3>2 DEF ProcOK
    <2>6. /\ t \in Seq(Nat) /\ SumFunction(t) = SumFunction(s) + r.size
          /\ pipes' = [pipes EXCEPT ![path] = t]
      <3>1. s \in Seq(Nat)
        BY <1>3, <2>5 DEF PipesAre
      <3>2. pipes' = [pipes EXCEPT ![path] = t]
        BY <1>5
      <3> HIDE DEF s
      <3> QED
        BY <1>2, <3>1, <3>2, SumAppend
    <2> HIDE DEF t, path
    <2>7. /\ PipesWorth(pipes') + SumFunction(s) = PipesWorth(pipes) + SumFunction(t)
          /\ PipesWorth(pipes') \in Nat /\ PipesWorth(pipes) \in Nat
          /\ SumFunction(s) \in Nat /\ PipesAre(pipes')
      BY <1>3, <2>5, <2>6, PipesChange
    <2>8. PipesWorth(pipes') + ProcWorth(Worth, n) = PipesWorth(pipes) + ProcWorth(Worth, r)
      <3> DEFINE x == ProcWorth(Worth, n)
                 y == ProcWorth(Worth, r)
                 z == r.size
                 u == PipesWorth(pipes')
                 v == PipesWorth(pipes)
                 f == SumFunction(s)
                 g == SumFunction(t)
      <3>1. /\ x = 0 /\ y = z /\ u + f = v + g /\ g = f + z
            /\ z \in Nat /\ u \in Nat /\ v \in Nat /\ f \in Nat
        BY <1>2, <1>4, <2>4, <2>6, <2>7
      <3> HIDE DEF x, y, z, u, v, f, g
      <3>2. u + x = v + y
        BY ONLY <3>1
      <3> QED
        BY <3>2 DEF x, y, u, v
    <2>9. r.status # "failed" /\ DOMAIN pipes' = DOMAIN pipes
      BY <1>1, <2>6
    <2> QED
      BY <2>1, <2>2, <2>3, <2>7, <2>8, <2>9, EvenMove
  <1>6. CASE ~Held(path, "r") /\ procs' = [procs EXCEPT ![p] = Ended(p, "killed")] /\ UNCHANGED pipes
    <2> DEFINE n == Ended(p, "killed")
               q == r.parent
    <2>1. n \in ProcRecs /\ ProcOK(n, D, K) /\ ProcWorth(Worth, n) = 0
      BY EndedWorth
    <2>2. q \in DOMAIN procs /\ procs[q].status = "failed"
      BY <1>1, <1>6, NobodyReads
    <2>3. procs' = [procs EXCEPT ![p] = n] /\ pipes' = pipes
      BY <1>6
    <2> HIDE DEF n
    <2>4. HasFailed(procs')
      <3>1. q # p
        BY <1>1, <2>2
      <3>2. q \in DOMAIN procs' /\ procs'[q].status = "failed"
        BY <2>2, <2>3, <3>1
      <3> QED
        BY <3>2 DEF HasFailed
    <2>5. PipesWorth(pipes) \in Nat
      BY <1>3, PipesSummable
    <2>6. PipesWorth(pipes') + ProcWorth(Worth, n) <= PipesWorth(pipes) + ProcWorth(Worth, r)
      BY <1>2, <1>4, <2>1, <2>3, <2>5
    <2>7. r.status # "failed" /\ DOMAIN pipes' = DOMAIN pipes /\ PipesAre(pipes')
      BY <1>1, <1>3, <2>3
    <2> QED
      BY <2>1, <2>3, <2>4, <2>6, <2>7, Moved
  <1> QED
    BY <1>5, <1>6 DEF report_size

-----------------------------------------------------------------------------
(* The account is kept                                                     *)

(* What does not change: the disk, and a link that was read wrong          *)
Steady == UNCHANGED <<program, disk>> /\ (misled => misled')

(* Neither changes, whatever the step.                                     *)
LEMMA StepSteady ==
  ASSUME NEW p \in DOMAIN procs, Step(p)
  PROVE  Steady
  <1>1. CASE enter(p)
    BY <1>1 DEF enter, fail, Steady
  <1>2. CASE scan(p)
    <2> PICK e \in Current(p).todo :
          add_file(p, e) \/ skip_other(p, e) \/ fork_child(p, e) \/ follow_link(p, e)
          \/ add_link(p, e) \/ fail(p)
      BY <1>2 DEF scan
    <2>1. CASE add_file(p, e)
      BY <2>1 DEF add_file, Steady
    <2>2. CASE skip_other(p, e)
      BY <2>2 DEF skip_other, Steady
    <2>3. CASE fork_child(p, e)
      BY <2>3 DEF fork_child, Steady
    <2>4. CASE follow_link(p, e)
      BY <2>4 DEF follow_link, ReadLink, Steady
    <2>5. CASE add_link(p, e)
      BY <2>5 DEF add_link, ReadLink, Steady
    <2>6. CASE fail(p)
      BY <2>6 DEF fail, Steady
    <2> QED
      BY <2>1, <2>2, <2>3, <2>4, <2>5, <2>6
  <1>3. CASE stop_scanning(p) \/ read_size(p) \/ return_size(p)
    BY <1>3 DEF stop_scanning, read_size, return_size, Steady
  <1>4. CASE report_size(p) \/ exit_child(p)
    BY <1>4 DEF report_size, exit_child, Steady
  <1> QED
    BY <1>1, <1>2, <1>3, <1>4 DEF Step

(* No step makes more of it all, and none less unless a process has failed *)
(* or a link is read wrong.                                                *)
LEMMA StepBalance ==
  ASSUME IInv, Tidied, NEW p \in DOMAIN procs, Step(p)
  PROVE  TidyNext /\ (misled' \/ Balanced)
  <1>1. CASE enter(p)
    BY <1>1, EnterBalance
  <1>2. CASE scan(p)
    <2>1. InPhase(p, "scan")
      BY <1>2 DEF scan
    <2>2. PICK e \in Current(p).todo :
            add_file(p, e) \/ skip_other(p, e) \/ fork_child(p, e) \/ follow_link(p, e)
            \/ add_link(p, e) \/ fail(p)
      BY <1>2 DEF scan
    <2>3. CASE add_file(p, e) \/ skip_other(p, e) \/ add_link(p, e)
      BY <2>1, <2>3, EntryBalance
    <2>4. CASE fork_child(p, e)
      BY <2>1, <2>4, ForkBalance
    <2>5. CASE follow_link(p, e)
      BY <2>1, <2>5, FollowBalance
    <2>6. CASE fail(p)
      BY <2>1, <2>6, FailBalance DEF InPhase
    <2> QED
      BY <2>2, <2>3, <2>4, <2>5, <2>6
  <1>3. CASE stop_scanning(p)
    BY <1>3, StopBalance
  <1>4. CASE read_size(p)
    BY <1>4, ReadBalance
  <1>5. CASE return_size(p)
    BY <1>5, ToCallerBalance, FromFirstBalance
  <1>6. CASE report_size(p)
    BY <1>6, ReportBalance
  <1>7. CASE exit_child(p)
    BY <1>7, ExitBalance
  <1> QED
    BY <1>1, <1>2, <1>3, <1>4, <1>5, <1>6, <1>7 DEF Step

(* Conserved, in the same terms                                            *)
Kept ==
  ~misled => /\ All(Worth, procs, pipes) <= Worth[MaxFds][disk.top]
             /\ All(Worth, procs, pipes) < Worth[MaxFds][disk.top] => HasFailed(procs)

(* Keeping the account is what Conserved says.                             *)
LEMMA KeptConserved == Kept => Conserved
  <1>1. \A c : CallHas(c) = CallWorth(Worth, c)
    BY DEF CallHas, CallWorth, Coming
  <1>2. ASSUME NEW p \in DOMAIN procs PROVE ProcessHas(p) = ProcWorth(Worth, procs[p])
    BY <1>1 DEF ProcessHas, ProcWorth, CallsWorth
  <1>3. SumFunction([p \in DOMAIN procs |-> ProcessHas(p)]) = ProcsWorth(Worth, procs)
    <2>1. [p \in DOMAIN procs |-> ProcessHas(p)] = [p \in DOMAIN procs |-> ProcWorth(Worth, procs[p])]
      BY <1>2
    <2> QED
      BY <2>1 DEF ProcsWorth
  <1>4. InPipes = PipesWorth(pipes)
    BY DEF InPipes, PipesWorth
  <1>5. InPipes + SumFunction([p \in DOMAIN procs |-> ProcessHas(p)]) = All(Worth, procs, pipes)
    BY <1>3, <1>4 DEF All
  <1> QED
    BY <1>5 DEF Kept, Conserved, HasFailed

(* At first the call of main has yet to count it all.                      *)
LEMMA InitKept == Init => Tidied /\ Kept
  <1> SUFFICES ASSUME Init PROVE Tidied /\ Kept
    OBVIOUS
  <1> DEFINE c == Call(<<>>, disk.top)
             r == Process(<<>>, <<>>, disk.top, {})
             D == DOMAIN pipes
             K == DOMAIN disk.size
             P == [p \in {} |-> r]
             w == Worth[MaxFds][disk.top]
  <1>1. IInv
    BY InitInv
  <1>2. /\ program \in Programs /\ disk \in Disks /\ pipes = <<>> /\ D = {}
        /\ procs = [p \in {<<>>} |-> r] /\ r = procs[<<>>] /\ DOMAIN procs = {<<>>}
    BY DEF Init
  <1>3. Weighed(Worth) /\ MaxFds \in Nat /\ disk.top \in K
    <2>1. disk.top \in DOMAIN disk.in
      BY <1>2, DirSizeAssumption
    <2> QED
      BY <1>2, <2>1, WorthWeighed, DiskFacts
  <1>4. w \in Nat
    <2>1. Worth[MaxFds] \in Worths
      BY <1>3 DEF Weighed
    <2> QED
      BY <1>3, <2>1 DEF Worths
  <1>5. r \in ProcRecs /\ r.calls = <<c>> /\ r.size = 0 /\ r.ends = {} /\ r.status = "running"
    <2>1. r \in ProcRecs
      BY <1>1, <1>2, StateFacts DEF Local
    <2> QED
      BY <2>1 DEF Process
  <1>6. c.path = <<>> /\ c.dir = disk.top /\ c.phase = "enter"
    BY DEF Call
  <1> HIDE DEF c, r, w
  <1>7. DOMAIN r.calls = {1} /\ r.calls[1] = c /\ c \in CallRecs
    <2>1. DOMAIN <<c>> = {1} /\ <<c>>[1] = c
      OBVIOUS
    <2>2. r.calls \in Seq(CallRecs)
      BY <1>5 DEF ProcRecs
    <2> QED
      BY <1>5, <2>1, <2>2
  <1>8. CallOK(c, D, K)
    BY <1>2, <1>3, <1>6 DEF CallOK
  <1>9. ProcOK(r, D, K)
    <2>1. IsFiniteSet(r.ends) /\ \A end \in r.ends : end[1] \in D
      BY <1>5, FS_EmptySet
    <2>2. \A i \in DOMAIN r.calls :
            CallOK(r.calls[i], D, K) /\ (r.calls[i].phase # "enter" => <<r.calls[i].path, "r">> \in r.ends)
      BY <1>6, <1>7, <1>8
    <2> QED
      BY <1>5, <2>1, <2>2 DEF ProcOK
  <1>10. PipesAre(pipes)
    BY <1>2, FS_EmptySet DEF PipesAre
  <1>11. Tidied
    <2>1. Tidy(procs, D, K)
      BY <1>2, <1>9, FS_Singleton DEF Tidy
    <2> QED
      BY <1>2, <1>10, <2>1 DEF Tidied
  <1>12. ProcWorth(Worth, r) = w
    <2>1. CallsWorth(Worth, <<c>>) = CallWorth(Worth, c) /\ CallWorth(Worth, c) \in Nat
      BY <1>2, <1>3, <1>7, <1>8, SingleWorth
    <2>2. CallWorth(Worth, c) = Worth[MaxFds - 0][disk.top]
      <3>1. Len(c.path) = 0
        BY <1>6
      <3> QED
        BY <1>6, <3>1 DEF CallWorth
    <2>3. MaxFds - 0 = MaxFds
      BY <1>3
    <2> QED
      BY <1>4, <1>5, <2>1, <2>2, <2>3 DEF ProcWorth, w
  <1>13. ProcsAre(P) /\ Tidy(P, D, K) /\ ProcsWorth(Worth, P) = 0 /\ <<>> \notin DOMAIN P
    <2> DEFINE F == [p \in DOMAIN P |-> ProcWorth(Worth, P[p])]
    <2>1. DOMAIN P = {} /\ P = [p \in DOMAIN P |-> P[p]]
      OBVIOUS
    <2>2. ProcsWorth(Worth, P) = SumFunction(F) /\ DOMAIN F = {} /\ F = [p \in DOMAIN F |-> F[p]]
      BY <2>1 DEF ProcsWorth
    <2> HIDE DEF P, F
    <2>3. Summable(F)
      BY <2>2, FS_EmptySet DEF Summable
    <2> QED
      BY <2>1, <2>2, <2>3, SumNothing, FS_EmptySet DEF ProcsAre, Tidy
  <1>14. With(P, <<>>, r) = procs
    BY <1>2 DEF With
  <1> HIDE DEF P
  <1>15. ProcsWorth(Worth, procs) = 0 + w
    BY <1>2, <1>3, <1>5, <1>9, <1>12, <1>13, <1>14, ProcsMore
  <1>16. PipesWorth(pipes) = 0
    <2> DEFINE F == [path \in DOMAIN pipes |-> SumFunction(pipes[path])]
    <2>1. Summable(F) /\ DOMAIN F = {}
      BY <1>2, <1>10, PipesSummable
    <2>2. PipesWorth(pipes) = SumFunction(F)
      BY DEF PipesWorth
    <2> HIDE DEF F
    <2> QED
      BY <2>1, <2>2, SumNothing
  <1>17. All(Worth, procs, pipes) = w
    BY <1>4, <1>15, <1>16 DEF All
  <1>18. Kept
    BY <1>4, <1>17 DEF Kept, w
  <1> QED
    BY <1>11, <1>18

(* A step keeps the account.                                               *)
LEMMA NextKept == IInv /\ Tidied /\ Kept /\ [Next]_vars => Tidied' /\ Kept'
  <1> SUFFICES ASSUME IInv, Tidied, Kept, [Next]_vars PROVE Tidied' /\ Kept'
    OBVIOUS
  <1>1. ASSUME UNCHANGED <<program, disk>> PROVE Worth' = Worth
    BY <1>1 DEF Worth, IsDir, IsLink
  <1>2. CASE UNCHANGED vars
    <2>1. Worth' = Worth /\ UNCHANGED <<program, disk, procs, pipes, misled>>
      BY <1>1, <1>2 DEF vars
    <2> QED
      BY <2>1 DEF Tidied, Kept
  <1>3. ASSUME NEW p \in DOMAIN procs, Step(p) PROVE Tidied' /\ Kept'
    <2>1. TidyNext /\ (misled' \/ Balanced)
      BY <1>3, StepBalance
    <2>2. UNCHANGED <<program, disk>> /\ (misled => misled') /\ Worth' = Worth
      BY <1>1, <1>3, StepSteady DEF Steady
    <2>3. Tidied'
      BY <2>1, <2>2 DEF TidyNext, Tidied
    <2> DEFINE w == Worth[MaxFds][disk.top]
               a == All(Worth, procs, pipes)
               b == All(Worth, procs', pipes')
    <2>4. disk \in Disks /\ Weighed(Worth) /\ ProcsAre(procs) /\ PipesAre(pipes) /\ Tidy(procs, DOMAIN pipes, DOMAIN disk.size)
      BY BeforeFacts
    <2>5. w \in Nat
      <3>1. Worth[MaxFds] \in Worths /\ disk.top \in DOMAIN disk.size
        <4>1. disk.top \in DOMAIN disk.in /\ MaxFds \in Nat
          BY <2>4, DirSizeAssumption
        <4> QED
          BY <2>4, <4>1, DiskFacts DEF Weighed
      <3> QED
        BY <3>1 DEF Worths
    <2>6. a \in Nat
      <3>1. ProcsWorth(Worth, procs) \in Nat /\ PipesWorth(pipes) \in Nat
        BY <2>4, ProcsSummable, PipesSummable
      <3> QED
        BY <3>1 DEF All
    <2>7. b \in Nat
      <3>1. ProcsAre(procs')
        <4>1. IInv'
          BY NextInv
        <4> QED
          BY <4>1 DEF IInv, Sound, Good, Local, ProcsAre
      <3>2. PipesAre(pipes') /\ Tidy(procs', DOMAIN pipes', DOMAIN disk.size)
        BY <2>1 DEF TidyNext
      <3>3. ProcsWorth(Worth, procs') \in Nat /\ PipesWorth(pipes') \in Nat
        BY <2>4, <3>1, <3>2, ProcsSummable, PipesSummable
      <3> QED
        BY <3>3 DEF All
    <2>8. Kept' <=> (~misled' => b <= w /\ (b < w => HasFailed(procs')))
      <3>1. All(Worth, procs, pipes)' = b /\ (Worth[MaxFds][disk.top])' = w
        BY <2>2 DEF All, ProcsWorth, PipesWorth, ProcWorth, CallsWorth, CallWorth, Coming
      <3> QED
        BY <3>1 DEF Kept, HasFailed
    <2>9. ASSUME ~misled' PROVE b <= w /\ (b < w => HasFailed(procs'))
      <3>1. a <= w /\ (a < w => HasFailed(procs))
        BY <2>2, <2>9 DEF Kept
      <3>2. b <= a /\ (b < a => HasFailed(procs')) /\ (HasFailed(procs) => HasFailed(procs'))
        BY <2>1, <2>9 DEF Balanced
      <3> HIDE DEF a, b, w
      <3> QED
        BY <2>5, <2>6, <2>7, <3>1, <3>2
    <2> QED
      BY <2>3, <2>8, <2>9
  <1> QED
    BY <1>2, <1>3 DEF Next

(* What myDU.c and its variant have counted, what is in pipes and what is  *)
(* still to be seen always make up the size of the whole: nothing is       *)
(* counted twice or lost on the way to the total, unless a process fails   *)
(* or a link is read wrong.                                                *)
THEOREM SizesConserved == Spec => []Conserved
  <1>1. Init => IInv /\ Tidied /\ Kept
    BY InitInv, InitKept
  <1>2. IInv /\ Tidied /\ Kept /\ [Next]_vars => (IInv /\ Tidied /\ Kept)'
    BY NextInv, NextKept
  <1>3. IInv /\ Tidied /\ Kept => Conserved
    BY KeptConserved
  <1> QED
    BY <1>1, <1>2, <1>3, PTL DEF Spec
=============================================================================
