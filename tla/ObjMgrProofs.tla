---------------------------- MODULE ObjMgrProofs ----------------------------
(***************************************************************************)
(* The safety of ObjMgr, for any vdevs, peers, readers and numbers of      *)
(* creations: the steps that change objects keep the invariant of          *)
(* ObjMgrLemmas, and what follows from it.                                 *)
(***************************************************************************)
EXTENDS ObjMgrLemmas

-----------------------------------------------------------------------------
(* Steps that change objects *)

Makers == {"alloc", "attach", "pin"}

LEMMA SameName ==
  ASSUME todo \in Programs, NEW t, NEW h, NEW m, NEW n, Step(t, h, m, n), NEW op, NEW o,
         ~Has(h, T(op, o)), ~Has(n, T(op, o))
  PROVE  Named(op, o)' <=> Named(op, o)
BY StepNamed

LEMMA StepAloneLink ==
  ASSUME IInv, NEW t, NEW h, NEW m, NEW n, Step(t, h, m, n),
         \A i \in 1..Len(n) : n[i].op # "attach" /\ ~Named("attach", n[i].obj)
  PROVE  AloneLink'
<1> SUFFICES ASSUME NEW p \in Peers, Named("attach", p)', NEW u \in Threads, NEW j \in 1..Len(todo'[u]),
                    todo'[u][j].obj = p
             PROVE  todo'[u][j].op = "attach"
  BY DEF AloneLink
<1>0. todo \in Programs
  BY Typed
<1>1. Named("attach", p)
  <2>1. ~Has(n, T("attach", p))
    BY DEF Has, T
  <2> QED BY <1>0, <2>1, StepNamed
<1>2. \/ \E i \in 1..Len(n) : todo'[u][j] = n[i]
      \/ \E i \in 1..Len(todo[u]) : todo'[u][j] = todo[u][i]
  BY <1>0, StepTasks
<1>3. PICK i \in 1..Len(todo[u]) : todo'[u][j] = todo[u][i]
  BY <1>1, <1>2
<1> QED BY <1>1, <1>3 DEF IInv, AloneLink

LEMMA StepBornLink ==
  ASSUME IInv, NEW t, NEW h, NEW m, NEW n, Step(t, h, m, n),
         \A o \in mem' : Unfinished(st'[o]) =>
           \/ \E op \in Births : Has(n, T(op, o))
           \/ o \in mem /\ Unfinished(st[o]) /\ \A op \in Births : ~Has(h, T(op, o))
  PROVE  BornLink'
<1> SUFFICES ASSUME NEW o \in mem', Unfinished(st'[o]) PROVE \E op \in Births : Named(op, o)'
  BY DEF BornLink, Births
<1>0. todo \in Programs
  BY Typed
<1>1. ASSUME NEW op \in Births, Has(n, T(op, o)) PROVE Named(op, o)'
  BY <1>0, <1>1, StepNamed
<1>2. ASSUME o \in mem, Unfinished(st[o]), \A op \in Births : ~Has(h, T(op, o))
      PROVE  \E op \in Births : Named(op, o)'
  <2>1. PICK op \in Births : Named(op, o)
    BY <1>2 DEF IInv, BornLink, Births
  <2>2. Named(op, o)'
    BY <1>0, <1>2, <2>1, StepNamed
  <2> QED BY <2>2
<1> QED BY <1>1, <1>2

LEMMA StepStageLink ==
  ASSUME IInv, NEW t, NEW h, NEW m, NEW n, Step(t, h, m, n),
         \A p \in mem' \cap Peers :
           \/ /\ p \in mem /\ (Linked(p)' <=> Linked(p))
              /\ \A op \in {"attach", "free", "detach"} : ~Has(h, T(op, p)) /\ ~Has(n, T(op, p))
           \/ Linked(p)' <=> ~Named("attach", p)' /\ (Named("free", p)' => Named("detach", p)')
  PROVE  StageLink'
<1> SUFFICES ASSUME NEW p \in mem' \cap Peers
             PROVE  Linked(p)' <=> ~Named("attach", p)' /\ (Named("free", p)' => Named("detach", p)')
  BY DEF StageLink
<1>0. todo \in Programs
  BY Typed
<1>1. ASSUME p \in mem, Linked(p)' <=> Linked(p),
             \A op \in {"attach", "free", "detach"} : ~Has(h, T(op, p)) /\ ~Has(n, T(op, p))
      PROVE  Linked(p)' <=> ~Named("attach", p)' /\ (Named("free", p)' => Named("detach", p)')
  <2>1. \A op \in {"attach", "free", "detach"} : Named(op, p)' <=> Named(op, p)
    BY <1>0, <1>1, SameName
  <2>2. Linked(p) <=> ~Named("attach", p) /\ (Named("free", p) => Named("detach", p))
    BY <1>1 DEF IInv, StageLink
  <2> QED BY <1>1, <2>1, <2>2
<1> QED BY <1>1

\* Where a peer is being created, before it has its place.
LEMMA MakerFirst ==
  ASSUME IInv, NEW u \in Threads, NEW i \in 1..Len(todo[u]), NEW k, todo[u][i] = k, k.op \in Makers
  PROVE  u = Mc /\ i = 1 /\ k.obj \in Peers
<1>1. ShapeOK(vdevOf, u, todo[u], i) /\ k.obj \in ObjectsOf(k.op)
  BY TaskFacts
<1> QED BY <1>1 DEF ShapeOK, ObjectsOf, Makers

\* After another task of the scheduler's thread nothing is being created.
LEMMA NoMakers ==
  ASSUME IInv, NEW t \in {Mc}, NEW h, NEW m, NEW n, Step(t, h, m, n), Len(h) >= 1 \/ todo[t] = <<>>,
         \A i \in 1..Len(n) : n[i].op \notin Makers
  PROVE  \A op \in Makers : \A o : ~Named(op, o)'
<1> SUFFICES ASSUME NEW op \in Makers, NEW o, NEW u \in Threads, NEW j \in 1..Len(todo'[u]), todo'[u][j] = T(op, o)
             PROVE  FALSE
  BY DEF Named, T
<1>0. todo \in Programs /\ Len(h) \in Nat /\ T(op, o).op = op
  BY Typed, LenProperties DEF Step, T
<1>1. \/ u = t /\ \E i \in 1..Len(n) : todo'[u][j] = n[i]
      \/ \E i \in 1..Len(todo[u]) : (u = t => i > Len(h)) /\ todo'[u][j] = todo[u][i]
  <2>1. \A w \in Threads : \A e \in 1..Len(todo'[w]) :
           \/ w = t /\ \E i \in 1..Len(n) : todo'[w][e] = n[i]
           \/ \E i \in 1..Len(todo[w]) : (w = t => i > Len(h)) /\ todo'[w][e] = todo[w][i]
    BY <1>0, StepTasks, SMTT(60)
  <2> QED BY <2>1, Zenon
<1>2. PICK i \in 1..Len(todo[u]) : (u = t => i > Len(h)) /\ todo'[u][j] = todo[u][i]
  BY <1>0, <1>1
<1>3. u = Mc /\ i = 1
  BY <1>0, <1>2, MakerFirst
<1>4. Len(h) = 0 /\ todo[t] = <<>>
  BY <1>0, <1>2, <1>3
<1> QED BY <1>2, <1>3, <1>4

PinThird(q) ==
  \A op \in Makers : Named(op, q) =>
    IF role[q] = "sta" THEN bss[vdevOf[q]] # NULL /\ Usable(bss[vdevOf[q]]) ELSE op # "pin"

\* What the others create is still created as before.
LEMMA ThirdKeep ==
  ASSUME IInv, NEW t, NEW h, NEW m, NEW n, Step(t, h, m, n), UNCHANGED <<role, vdevOf, bss, vdevPeers>>,
         \A b \in Peers : Usable(b) => Usable(b)',
         \A i \in 1..Len(n) : n[i].op \notin Makers
  PROVE  \A q \in Peers : PinThird(q)'
<1> SUFFICES ASSUME NEW q \in Peers, NEW op \in Makers, Named(op, q)'
             PROVE  IF role'[q] = "sta"
                    THEN bss'[vdevOf'[q]] # NULL /\ st'[bss'[vdevOf'[q]]] = "created"
                    ELSE op # "pin"
  BY DEF PinThird, Makers, Usable
<1>0. todo \in Programs
  BY Typed
<1>1. Named(op, q)
  <2>1. ~Has(n, T(op, q))
    BY DEF Has, T
  <2> QED BY <1>0, <2>1, StepNamed
<1>2. IF role[q] = "sta" THEN bss[vdevOf[q]] # NULL /\ Usable(bss[vdevOf[q]]) ELSE op # "pin"
  BY <1>1 DEF IInv, PinLink, Makers
<1>3. vdevOf[q] \in Vdevs /\ \A v \in Vdevs : bss[v] \in Peers \cup {NULL}
  BY DEF IInv, Types
<1> QED BY <1>2, <1>3 DEF Usable

LEMMA StepPinLink ==
  ASSUME IInv, NEW t, NEW h, NEW m, NEW n, Step(t, h, m, n), UNCHANGED <<pins, bss>>,
         \A q \in mem' \cap Peers : q \in mem /\ role'[q] = role[q] /\ vdevOf'[q] = vdevOf[q],
         \A q \in Peers : pins[q] # NULL => q \in mem',
         \A q \in mem' \cap Peers : \A op \in {"attach", "pin", "free"} : ~Has(h, T(op, q)) /\ ~Has(n, T(op, q)),
         \A q \in Peers : PinThird(q)'
  PROVE  PinLink'
<1>0. todo \in Programs /\ PinLink
  BY Typed DEF IInv
<1>1. \A q \in mem' \cap Peers : \A op \in {"attach", "pin", "free"} : Named(op, q)' <=> Named(op, q)
  BY <1>0, SameName
<1>2. ASSUME NEW q \in Peers, pins'[q] # NULL
      PROVE  /\ q \in mem' /\ role'[q] = "sta" /\ pins'[q] = bss'[vdevOf'[q]]
             /\ \A op \in {"attach", "pin", "free"} : ~Named(op, q)'
  <2>1. pins[q] # NULL /\ q \in mem'
    BY <1>2
  <2>2. /\ role[q] = "sta" /\ pins[q] = bss[vdevOf[q]]
        /\ \A op \in {"attach", "pin", "free"} : ~Named(op, q)
    BY <1>0, <2>1 DEF PinLink
  <2> QED BY <1>1, <2>1, <2>2
<1>3. ASSUME NEW q \in mem' \cap Peers, role'[q] = "sta", pins'[q] = NULL
      PROVE  \E op \in {"attach", "pin", "free"} : Named(op, q)'
  <2>1. q \in mem \cap Peers /\ role[q] = "sta" /\ pins[q] = NULL
    BY <1>3
  <2>2. \E op \in {"attach", "pin", "free"} : Named(op, q)
    BY <1>0, <2>1 DEF PinLink
  <2> QED BY <1>1, <1>3, <2>1, <2>2
<1>4. \A q \in Peers : \A op \in {"alloc", "attach", "pin"} : Named(op, q)' =>
        IF role'[q] = "sta" THEN bss'[vdevOf'[q]] # NULL /\ st'[bss'[vdevOf'[q]]] = "created" ELSE op # "pin"
  BY DEF PinThird, Usable, Makers
<1> QED BY <1>2, <1>3, <1>4 DEF PinLink, Usable

\* A program that is replaced as a whole.
LEMMA WholeStep ==
  ASSUME NEW t \in Threads, NEW s \in Seq(Task), NEW n \in Seq(Task), todo[t] = s, todo' = [todo EXCEPT ![t] = n]
  PROVE  Step(t, s, <<>>, n) /\ n \o <<>> = n
<1>1. <<>> \in Seq(Task)
  OBVIOUS
<1>2. n \o <<>> = n /\ s \o <<>> = s
  BY ConcatEmptySeq
<1> QED BY <1>1, <1>2 DEF Step

LEMMA SeqTwo ==
  ASSUME NEW s \in Seq(Task), Len(s) = 2, NEW a, NEW b, s[1] = a, s[2] = b
  PROVE  a \in Task /\ b \in Task /\ s = <<a, b>> /\ Tail(s) = <<b>>
<1>1. a \in Task /\ b \in Task
  <2>1. 1 \in 1..Len(s) /\ 2 \in 1..Len(s)
    OBVIOUS
  <2> QED BY <2>1, ElementOfSeq
<1> DEFINE c == <<a, b>>
<1>2. c \in Seq(Task) /\ Len(c) = 2 /\ c[1] = a /\ c[2] = b
  BY <1>1, TwoTasks
<1> HIDE DEF c
<1>3. \A i \in 1..2 : s[i] = c[i]
  BY <1>2
<1>4. s = c
  BY <1>2, <1>3, SeqEqual
<1>5. Tail(<<a, b>>) = <<b>>
  OBVIOUS
<1> QED BY <1>1, <1>4, <1>5 DEF c

LEMMA ThreeTasks ==
  ASSUME NEW a \in Task, NEW b \in Task, NEW c \in Task
  PROVE  /\ <<a, b, c>> \in Seq(Task) /\ Len(<<a, b, c>>) = 3
         /\ <<a, b, c>>[1] = a /\ <<a, b, c>>[2] = b /\ <<a, b, c>>[3] = c
         /\ <<a>> \o <<b, c>> = <<a, b, c>>
<1>1. <<a, b, c>> = <<a>> \o <<b, c>> /\ <<a, b, c>> \in Seq(Task)
  BY Glue
<1>2. Len(<<a, b, c>>) = 3 /\ <<a, b, c>>[1] = a /\ <<a, b, c>>[2] = b /\ <<a, b, c>>[3] = c
  OBVIOUS
<1> QED BY <1>1, <1>2

LEMMA ThreeGlue == \A a, b, c \in Task : <<a, b>> \o <<c>> = <<a, b, c>>
<1> SUFFICES ASSUME NEW a \in Task, NEW b \in Task, NEW c \in Task PROVE <<a, b>> \o <<c>> = <<a, b, c>>
  OBVIOUS
<1>1. <<a, b, c>> = <<a>> \o <<b, c>> /\ <<a, b>> = <<a>> \o <<b>> /\ <<b, c>> = <<b>> \o <<c>>
  BY Glue
<1>2. <<a>> \in Seq(Task) /\ <<b>> \in Seq(Task) /\ <<c>> \in Seq(Task)
  OBVIOUS
<1>3. \A x, y, z \in Seq(Task) : (x \o y) \o z = x \o (y \o z)
  BY ConcatAssociative
<1>4. (<<a>> \o <<b>>) \o <<c>> = <<a>> \o (<<b>> \o <<c>>)
  BY <1>2, <1>3, Zenon
<1> QED BY <1>1, <1>4, Zenon

LEMMA CountThree ==
  ASSUME NEW a \in Task, NEW b \in Task, NEW c \in Task, NEW o, NEW ops
  PROVE  Count(<<a, b, c>>, o, ops) = One(a, o, ops) + One(b, o, ops) + One(c, o, ops)
<1>1. \A j, k, l \in Task : Count(<<j, k, l>>, o, ops) = One(j, o, ops) + One(k, o, ops) + One(l, o, ops)
  BY ZenonT(40), CountFew
<1> QED BY <1>1, Zenon

LEMMA SeqThree ==
  ASSUME NEW s \in Seq(Task), Len(s) = 3, NEW a, NEW b, NEW c, s[1] = a, s[2] = b, s[3] = c
  PROVE  a \in Task /\ b \in Task /\ c \in Task /\ s = <<a, b, c>> /\ Tail(s) = <<b, c>>
<1>1. a \in Task /\ b \in Task /\ c \in Task
  <2>1. 1 \in 1..Len(s) /\ 2 \in 1..Len(s) /\ 3 \in 1..Len(s)
    OBVIOUS
  <2> QED BY <2>1, ElementOfSeq
<1> DEFINE d == <<a, b, c>>
<1>2. d \in Seq(Task) /\ Len(d) = 3 /\ d[1] = a /\ d[2] = b /\ d[3] = c
  BY <1>1, ThreeTasks
<1> HIDE DEF d
<1>3. \A i \in 1..3 : s[i] = d[i]
  BY <1>2
<1>4. s = d
  BY <1>2, <1>3, SeqEqual
<1>5. Tail(<<a, b, c>>) = <<b, c>>
  OBVIOUS
<1> QED BY <1>1, <1>4, <1>5 DEF d

\* An object without memory.
LEMMA Unborn ==
  ASSUME IInv, NEW o \in Objects, o \notin mem
  PROVE  /\ \A u \in Threads : \A i \in 1..Len(todo[u]) : todo[u][i].obj = o => todo[u][i].op \in {"alloc", "valloc"}
         /\ o \notin ToSet(freeList) /\ o \notin ToSet(psocPeers) /\ o \notin table
         /\ \A q \in Peers : pins[q] # o
         /\ \A v \in Vdevs : o \notin ToSet(vdevPeers[v])
         /\ o \in Vdevs => vdevPeers[o] = <<>> /\ bss[o] = NULL
<1>1. ASSUME NEW u \in Threads, NEW i \in 1..Len(todo[u]), todo[u][i].obj = o
      PROVE  todo[u][i].op \in {"alloc", "valloc"}
  <2>1. TaskOK(u, todo[u][i]) /\ todo[u][i].obj \in ObjectsOf(todo[u][i].op)
    BY TaskFacts
  <2> QED BY <1>1, <2>1, Kinds DEF TaskOK, ObjectsOf
<1>2. o \notin ToSet(freeList) /\ o \notin ToSet(psocPeers) /\ o \notin table
  BY DEF IInv, ListLink
<1>3. ASSUME NEW q \in Peers PROVE pins[q] # o
  <2>1. pins[q] # NULL => /\ pins[q] = bss[vdevOf[q]] /\ vdevOf[q] \in Vdevs
    BY DEF IInv, PinLink, Types
  <2>2. pins[q] # NULL => pins[q] \in mem
    BY <2>1 DEF IInv, ListLink
  <2> QED BY <2>2, Kinds
<1>4. \A v \in Vdevs : o \notin ToSet(vdevPeers[v])
  BY DEF IInv, ListLink
<1>5. ASSUME o \in Vdevs PROVE vdevPeers[o] = <<>> /\ bss[o] = NULL
  <2>1. \A p : p \notin ToSet(vdevPeers[o])
    BY <1>5 DEF IInv, ListLink
  <2>2. bss[o] = NULL
    BY <1>5, <2>1 DEF IInv, ListLink
  <2>3. vdevPeers[o] \in Seq(Peers) /\ DOMAIN vdevPeers[o] = 1..Len(vdevPeers[o]) /\ Len(vdevPeers[o]) \in Nat
    BY <1>5, Typed, LenProperties
  <2>4. Len(vdevPeers[o]) = 0
    <3>1. Len(vdevPeers[o]) # 0 => 1 \in DOMAIN vdevPeers[o]
      BY <2>3
    <3> QED BY <2>1, <3>1 DEF ToSet
  <2> QED BY <1>5, <2>2, <2>4, Typed
<1> QED BY <1>1, <1>2, <1>3, <1>4, <1>5

\* ... has no references and no end after the step that gives it memory, unless
\* the step brings them.
LEMMA BornCount ==
  ASSUME IInv, NEW t, NEW h, NEW m, NEW n, Step(t, h, m, n), NEW o \in Objects, o \notin mem,
         NEW ops, \A op \in ops : op \notin {"alloc", "valloc"}
  PROVE  Pending(o, ops)' = Count(n, o, ops)
<1>0. todo \in Programs
  BY Typed
<1>1. Pending(o, ops) = 0
  BY <1>0, Unborn, PendingZero
<1>2. /\ Pending(o, ops)' = Pending(o, ops) - Count(h, o, ops) + Count(n, o, ops)
      /\ Pending(o, ops) \in Nat /\ Count(h, o, ops) \in Nat /\ Count(n, o, ops) \in Nat
      /\ Count(h, o, ops) <= Pending(o, ops)
  BY <1>0, PendingStep
<1> DEFINE p == Pending(o, ops)
           q == Pending(o, ops)'
           x == Count(h, o, ops)
           y == Count(n, o, ops)
<1>3. p = 0 /\ q = p - x + y /\ x \in Nat /\ y \in Nat /\ x <= p
  BY <1>1, <1>2
<1> HIDE DEF p, q, x, y
<1>4. q = y
  BY <1>3
<1> QED BY <1>4 DEF q, y

\* Which tasks a few tasks are.
LEMMA HasFew ==
  /\ \A k : ~Has(<<>>, k)
  /\ \A a \in Task : \A k : Has(<<a>>, k) <=> k = a
  /\ \A a, b \in Task : \A k : Has(<<a, b>>, k) <=> k \in {a, b}
  /\ \A a, b, c \in Task : \A k : Has(<<a, b, c>>, k) <=> k \in {a, b, c}
<1>1. \A k : ~Has(<<>>, k)
  BY DEF Has
<1>2. ASSUME NEW a \in Task, NEW k PROVE Has(<<a>>, k) <=> k = a
  BY DEF Has
<1>3. ASSUME NEW a \in Task, NEW b \in Task, NEW k PROVE Has(<<a, b>>, k) <=> k \in {a, b}
  BY DEF Has
<1>4. ASSUME NEW a \in Task, NEW b \in Task, NEW c \in Task, NEW k PROVE Has(<<a, b, c>>, k) <=> k \in {a, b, c}
  BY DEF Has
<1> QED BY <1>1, <1>2, <1>3, <1>4

\* A program of one task.
LEMMA AloneStep ==
  ASSUME IInv, NEW t \in Threads, NEW k, Doing(t, k), Len(todo[t]) = 1, NEW n \in Seq(Task), Then(t, n)
  PROVE  Step(t, <<k>>, <<>>, n) /\ n \o <<>> = n
<1>1. /\ k \in Task /\ Tail(todo[t]) \in Seq(Task) /\ todo[t] = <<k>> \o Tail(todo[t])
      /\ Step(t, <<k>>, Tail(todo[t]), n) /\ todo[t][1] = k
  BY DoingStep
<1>2. <<k>> \in Seq(Task) /\ Len(<<k>>) = 1
  BY <1>1, CountOne
<1> DEFINE h == <<k>>
           m == Tail(todo[t])
<1>3. Len(h \o m) = Len(h) + Len(m) /\ Len(m) \in Nat
  BY <1>1, <1>2, ConcatProperties, LenProperties
<1> HIDE DEF h
<1>4. Len(m) = 0
  BY <1>1, <1>2, <1>3 DEF h
<1>5. m = <<>>
  BY <1>1, <1>4, EmptySeq
<1>6. n \o <<>> = n
  BY ConcatEmptySeq
<1> HIDE DEF h
<1> QED BY <1>1, <1>5, <1>6 DEF m

LEMMA VdevAttachIInv ==
  ASSUME IInv, NEW v \in Vdevs, VdevAttach(v)
  PROVE  IInv'
<1> DEFINE k == T("valloc", v)
           d == T("vcount", v)
           h == <<k>>
           n == <<d>>
           m == <<>>
           t == Hdd
<1>1. /\ Doing(t, k) /\ Then(t, n)
      /\ mem' = mem \cup {v} /\ st' = [st EXCEPT ![v] = "uncounted"] /\ ref' = [ref EXCEPT ![v] = 0]
      /\ table' = table \cup {v} /\ bss' = [bss EXCEPT ![v] = NULL]
      /\ UNCHANGED <<pins, birth, psocPeers, vdevPeers, vlock, delay>>
  BY DEF VdevAttach
<1>2. v \in Objects /\ v \notin Peers /\ t \in Threads
  BY Kinds
<1>3. k.op = "valloc" /\ k.obj = v /\ k \in Task /\ d.op = "vcount" /\ d.obj = v /\ d \in Task
  BY <1>2, OneTask DEF Ops
<1>4. h \in Seq(Task) /\ Len(h) = 1 /\ h[1] = k /\ n \in Seq(Task) /\ Len(n) = 1 /\ n[1] = d
  BY <1>3, CountOne
<1>5. /\ \A x, ops : Count(h, x, ops) = One(k, x, ops) /\ Count(n, x, ops) = One(d, x, ops)
      /\ \A x : (Has(h, x) <=> x = k) /\ (Has(n, x) <=> x = d)
  BY <1>3, CountOne, HasFew
<1>6. Len(todo[t]) = 1 /\ v \notin mem /\ todo[t][1] = k /\ 1 \in 1..Len(todo[t])
  <2>1. TaskOK(t, k) /\ ShapeOK(vdevOf, t, todo[t], 1) /\ todo[t][1] = k /\ 1 \in 1..Len(todo[t])
    BY <1>1, <1>2, DoingStep
  <2> QED BY <1>3, <2>1 DEF TaskOK, ShapeOK
<1> HIDE DEF k, d, h, n, t
<1>7. Step(t, h, m, n) /\ n \o m = n
  BY <1>1, <1>2, <1>4, <1>6, AloneStep DEF h
<1>8. m = <<>>
  OBVIOUS
<1> HIDE DEF m
<1>9. /\ todo \in Programs /\ todo' \in Programs /\ mem \subseteq Objects
      /\ st \in [Objects -> {"uncounted", "allocated", "created", "deleted"}] /\ ref \in [Objects -> Nat]
      /\ table \subseteq Vdevs /\ bss \in [Vdevs -> Peers \cup {NULL}]
  BY <1>7, Typed, StepPlaces DEF IInv, Types
<1>10. /\ \A u \in Threads : \A i \in 1..Len(todo[u]) : todo[u][i].obj = v => todo[u][i].op \in {"alloc", "valloc"}
       /\ v \notin ToSet(freeList) /\ vdevPeers[v] = <<>> /\ bss[v] = NULL
  BY <1>2, <1>6, Unborn
<1>11. bss' = bss /\ lists' = <<table', psocPeers, vdevPeers, bss>> /\ birth' = birth /\ pins' = pins
       /\ role' = role /\ vdevOf' = vdevOf /\ vlock' = vlock /\ freeList' = freeList /\ work' = work /\ made' = made
       /\ vdevPeers' = vdevPeers /\ psocPeers' = psocPeers
  BY <1>1, <1>9, <1>10 DEF lists, birth, delay
<1>12. /\ st'[v] = "uncounted" /\ ref'[v] = 0
       /\ \A o \in Objects : o # v => st'[o] = st[o] /\ ref'[o] = ref[o]
  BY <1>1, <1>2, <1>9
<1>13. Types'
  <2>1. todo' \in [Threads -> Seq([op : Ops, obj : Objects \cup {NULL}])]
    BY <1>9 DEF Programs, Task
  <2>2. mem' \subseteq Objects /\ table' \subseteq Vdevs
    BY <1>1, <1>2, <1>9
  <2>3. st' \in [Objects -> {"uncounted", "allocated", "created", "deleted"}] /\ ref' \in [Objects -> Nat]
    BY <1>1, <1>9
  <2> QED BY ZenonT(40), <1>11, <2>1, <2>2, <2>3 DEF IInv, Types
<1>14. ASSUME NEW i \in 1..Len(n) PROVE n[i] = d /\ ShapeOK(vdevOf', t, n \o m, i) /\ TaskOK(t, d)'
  <2>1. i = 1 /\ n[i] = d
    BY <1>4
  <2>2. ShapeOK(vdevOf', t, n, 1)
    BY <1>2, <1>3, <1>4 DEF ShapeOK, ObjectsOf, t
  <2>3. TaskOK(t, d)'
    BY <1>1, <1>3, <1>12 DEF TaskOK
  <2> QED BY <1>7, <2>1, <2>2, <2>3
<1>15. ShapeLink'
  <2>1. ShapeLink
    BY DEF IInv
  <2> QED BY <1>7, <1>8, <1>9, <1>11, <1>14, <2>1, StepShapeLink
<1>16. TaskLink'
  <2>1. ASSUME NEW u \in Threads, NEW i \in 1..Len(todo[u]), u = t => i > Len(h),
               NEW g, g = todo[u][i], TaskOK(u, g)
        PROVE  TaskOK(u, g)'
    <3>1. g.obj # v
      <4>1. ASSUME g.obj = v PROVE FALSE
        <5>1. g.op = "valloc"
          <6>1. g.obj \in ObjectsOf(g.op)
            BY <2>1, TaskFacts
          <6> QED BY <1>2, <1>10, <2>1, <4>1, <6>1 DEF ObjectsOf
        <5>2. u = t /\ i = 1
          <6>1. ShapeOK(vdevOf, u, todo[u], i)
            BY <2>1, TaskFacts
          <6> QED BY <2>1, <5>1, <6>1 DEF ShapeOK, t
        <5> QED BY <1>4, <2>1, <5>2
      <4> QED BY <4>1
    <3>2. g \in Task
      BY <2>1, TaskFacts
    <3>3. g.obj \in Objects \/ g.op \in {"pop", "sched"}
      BY <2>1, TaskFacts, Kinds DEF ObjectsOf
    <3> QED BY <1>1, <1>11, <1>12, <2>1, <3>1, <3>3 DEF TaskOK, Linked
  <2>2. TaskLink
    BY DEF IInv
  <2>3. \A u \in Threads : \A i \in 1..Len(todo[u]) : (u = t => i > Len(h)) =>
          \A g : g = todo[u][i] /\ TaskOK(u, g) => TaskOK(u, g)'
    BY <2>1
  <2>4. \A i \in 1..Len(n) : \A g : g = n[i] => TaskOK(t, g)'
    BY <1>14
  <2> QED BY <1>7, <1>9, <2>2, <2>3, <2>4, StepTaskLink
<1>17. AloneLink'
  <2>1. ~Named("attach", v)
    BY <1>2, Attaching
  <2> QED BY <1>3, <1>7, <1>14, <2>1, StepAloneLink
<1>18. ListLink'
  BY <1>1, <1>2, <1>11 DEF IInv, ListLink
<1>19. StageLink'
  <2>1. ASSUME NEW p \in mem' \cap Peers
        PROVE  /\ p \in mem /\ (Linked(p)' <=> Linked(p))
               /\ \A op \in {"attach", "free", "detach"} : ~Has(h, T(op, p)) /\ ~Has(n, T(op, p))
    BY <1>1, <1>2, <1>3, <1>5, <1>11 DEF Linked, T
  <2> QED BY <1>7, <2>1, StepStageLink
<1>20. PinLink'
  <2>1. \A q \in mem' \cap Peers : q \in mem /\ role'[q] = role[q] /\ vdevOf'[q] = vdevOf[q]
    BY <1>1, <1>2, <1>11
  <2>2. \A q \in Peers : pins[q] # NULL => q \in mem'
    BY <1>1 DEF IInv, PinLink
  <2>3. \A q \in mem' \cap Peers : \A op \in {"attach", "pin", "free"} : ~Has(h, T(op, q)) /\ ~Has(n, T(op, q))
    BY <1>2, <1>3, <1>5 DEF T
  <2>4. \A b \in Peers : Usable(b) => Usable(b)'
    BY <1>2, <1>12, Kinds DEF Usable
  <2>5. \A q \in Peers : PinThird(q)'
    <3>1. \A i \in 1..Len(n) : n[i].op \notin Makers
      BY <1>3, <1>14 DEF Makers
    <3> QED BY <1>7, <1>11, <2>4, <3>1, ThirdKeep
  <2> QED BY <1>7, <1>11, <2>1, <2>2, <2>3, <2>5, StepPinLink
<1>21. RefLink'
  <2> SUFFICES ASSUME NEW o \in mem' PROVE ref'[o] = Others(o)' + Pending(o, Refs(o))'
    BY DEF RefLink, Refs
  <2>1. CASE o = v
    <3>1. Pending(o, Refs(o))' = Count(n, o, Refs(o))
      BY <1>2, <1>6, <1>7, <2>1, BornCount DEF Refs
    <3>2. Count(n, o, Refs(o)) = 0
      BY <1>3, <1>5 DEF One, Refs
    <3>3. Others(o)' = 0
      <4>1. Len(vdevPeers'[v]) = 0
        BY <1>10, <1>11
      <4> QED BY <1>2, <1>12, <2>1, <4>1 DEF Others, Creators
    <3> QED BY <1>12, <2>1, <3>1, <3>2, <3>3
  <2>2. CASE o # v
    <3>1. o \in mem /\ o \in Objects
      BY <1>1, <1>9, <2>2
    <3>2. Others(o)' = Others(o) /\ Others(o) \in Nat
      BY <1>11, <1>12, <2>2, <3>1, Typed DEF Others, Pinners, Creators
    <3>3. Count(h, o, Refs(o)) = 0 /\ Count(n, o, Refs(o)) = 0 /\ ref'[o] = ref[o] /\ ref[o] \in Nat
      BY <1>3, <1>5, <1>9, <1>12, <2>2, <3>1 DEF One, Refs
    <3>4. Others(o)' = Others(o) + 0 /\ ref'[o] = ref[o] + 0 - Count(h, o, Refs(o)) + Count(n, o, Refs(o))
      BY <3>2, <3>3
    <3> QED BY <1>7, <3>1, <3>4, RefKeep
  <2> QED BY <2>1, <2>2
<1>22. EndLink'
  <2> SUFFICES ASSUME NEW o \in mem' PROVE Pending(o, Ends)' + Cardinality(Waiting(o))' = IF ref'[o] = 0 THEN 1 ELSE 0
    BY DEF EndLink, Ends
  <2>1. CASE o = v
    <3>0. Count(n, o, Ends) = 1
      BY <1>3, <1>5, <2>1 DEF One, Ends
    <3>1. Pending(o, Ends)' = 1
      BY <1>2, <1>6, <1>7, <3>0, <2>1, BornCount DEF Ends
    <3>2. Cardinality(Waiting(o))' = 0
      <4>1. freeList' \in Seq(Peers) /\ IsInjective(freeList')
        BY <1>13 DEF Types
      <4> QED BY <1>10, <1>11, <2>1, <4>1, WaitingIs
    <3> QED BY <1>12, <2>1, <3>1, <3>2
  <2>2. CASE o # v
    <3>1. o \in mem /\ o \in Objects
      BY <1>1, <1>9, <2>2
    <3>2. Count(h, o, Ends) = 0 /\ Count(n, o, Ends) = 0
      BY <1>3, <1>5, <2>2 DEF One, Ends
    <3> QED BY <1>7, <1>11, <1>12, <2>2, <3>1, <3>2, EndKeep
  <2> QED BY <2>1, <2>2
<1>23. LockLink'
  BY <1>3, <1>7, <1>11, <1>14, StepLockLink
<1>24. WorkLink'
  BY SMTT(30), <1>3, <1>4, <1>7, <1>11, StepWorkLink DEF delay
<1>25. BornLink'
  <2>1. ASSUME NEW o \in mem', Unfinished(st'[o])
        PROVE  \/ \E op \in Births : Has(n, T(op, o))
               \/ o \in mem /\ Unfinished(st[o]) /\ \A op \in Births : ~Has(h, T(op, o))
    <3>1. CASE o = v
      BY <1>5, <3>1 DEF Births, d
    <3>2. CASE o # v
      BY <1>1, <1>3, <1>5, <1>9, <1>12, <2>1, <3>2 DEF T
    <3> QED BY <3>1, <3>2
  <2> QED BY <1>7, <2>1, StepBornLink
<1> QED BY <1>13, <1>15, <1>16, <1>17, <1>18, <1>19, <1>20, <1>21, <1>22, <1>23, <1>24, <1>25 DEF IInv

-----------------------------------------------------------------------------
(* Steps that change the state of an object *)

StateOld == {"init", "vinit", "del", "rel"}
StateNew == {"del", "rel"}

\* How much the state of an object counts.
Held(s) == IF s \in {"allocated", "created"} THEN 1 ELSE 0

LEMMA StateType ==
  ASSUME IInv, UNCHANGED <<mem, pins, birth, lists, vlock, delay>>, todo' \in Programs,
         st' \in [Objects -> {"uncounted", "allocated", "created", "deleted"}], ref' \in [Objects -> Nat]
  PROVE  Types'
<1>1. /\ mem' = mem /\ pins' = pins /\ role' = role /\ vdevOf' = vdevOf /\ made' = made /\ table' = table
      /\ psocPeers' = psocPeers /\ vdevPeers' = vdevPeers /\ bss' = bss /\ vlock' = vlock /\ freeList' = freeList
      /\ work' = work
  BY DEF birth, lists, delay
<1>2. Types
  BY DEF IInv
<1>3. todo' \in [Threads -> Seq([op : Ops, obj : Objects \cup {NULL}])]
  BY DEF Programs, Task
<1> QED BY ZenonT(40), <1>1, <1>2, <1>3 DEF Types

\* The count is set up by the thread that attached the vdev, and by no other.
LEMMA VdevCountIInv ==
  ASSUME IInv, NEW v \in Vdevs, VdevCount(v)
  PROVE  IInv'
<1> DEFINE k == T("vcount", v)
           d == T("vinit", v)
           h == <<k>>
           n == <<d>>
           m == <<>>
           t == Hdd
<1>1. /\ Doing(t, k) /\ Then(t, n)
      /\ st' = [st EXCEPT ![v] = "allocated"] /\ ref' = [ref EXCEPT ![v] = 1]
      /\ UNCHANGED <<mem, pins, birth, lists, vlock, delay>>
  BY DEF VdevCount
<1>2. v \in Objects /\ v \notin Peers /\ t \in Threads
  BY Kinds
<1>3. k.op = "vcount" /\ k.obj = v /\ k \in Task /\ d.op = "vinit" /\ d.obj = v /\ d \in Task
  BY <1>2, OneTask DEF Ops
<1>4. h \in Seq(Task) /\ Len(h) = 1 /\ h[1] = k /\ n \in Seq(Task) /\ Len(n) = 1 /\ n[1] = d
  BY <1>3, CountOne
<1>5. /\ \A x, ops : Count(h, x, ops) = One(k, x, ops) /\ Count(n, x, ops) = One(d, x, ops)
      /\ \A x : (Has(h, x) <=> x = k) /\ (Has(n, x) <=> x = d)
  BY <1>3, CountOne, HasFew
<1>6. Len(todo[t]) = 1 /\ v \in mem /\ st[v] = "uncounted" /\ todo[t][1] = k /\ 1 \in 1..Len(todo[t])
  <2>1. TaskOK(t, k) /\ ShapeOK(vdevOf, t, todo[t], 1) /\ todo[t][1] = k /\ 1 \in 1..Len(todo[t])
    BY <1>1, <1>2, DoingStep
  <2> QED BY <1>3, <2>1 DEF TaskOK, ShapeOK
<1> HIDE DEF k, d, h, n, t
<1>7. Step(t, h, m, n) /\ n \o m = n
  BY <1>1, <1>2, <1>4, <1>6, AloneStep DEF h
<1>8. m = <<>>
  OBVIOUS
<1> HIDE DEF m
<1>9. /\ todo \in Programs /\ todo' \in Programs /\ mem \subseteq Objects
      /\ st \in [Objects -> {"uncounted", "allocated", "created", "deleted"}] /\ ref \in [Objects -> Nat]
  BY <1>7, Typed, StepPlaces DEF IInv, Types
<1>10. ref[v] = 0 /\ v \notin ToSet(freeList)
  <2>1. todo[t][1].op \in Ends /\ todo[t][1].obj = v
    BY <1>3, <1>6 DEF Ends
  <2> QED BY <1>2, <1>6, <2>1, Ended
<1>11. /\ mem' = mem /\ table' = table /\ bss' = bss /\ birth' = birth /\ pins' = pins
       /\ role' = role /\ vdevOf' = vdevOf /\ vlock' = vlock /\ freeList' = freeList /\ work' = work
       /\ made' = made /\ vdevPeers' = vdevPeers /\ psocPeers' = psocPeers
  BY <1>1 DEF lists, birth, delay
<1>12. /\ st'[v] = "allocated" /\ ref'[v] = 1
       /\ \A o \in Objects : o # v => st'[o] = st[o] /\ ref'[o] = ref[o]
  BY <1>1, <1>2, <1>9
<1>13. Types'
  <2>1. st' \in [Objects -> {"uncounted", "allocated", "created", "deleted"}] /\ ref' \in [Objects -> Nat]
    BY <1>1, <1>9
  <2> QED BY <1>1, <1>9, <2>1, StateType
<1>14. ASSUME NEW i \in 1..Len(n) PROVE n[i] = d /\ ShapeOK(vdevOf', t, n \o m, i) /\ TaskOK(t, d)'
  <2>1. i = 1 /\ n[i] = d
    BY <1>4
  <2>2. ShapeOK(vdevOf', t, n, 1)
    BY <1>2, <1>3, <1>4 DEF ShapeOK, ObjectsOf, t
  <2>3. TaskOK(t, d)'
    BY <1>3, <1>6, <1>11, <1>12 DEF TaskOK
  <2> QED BY <1>7, <2>1, <2>2, <2>3
<1>15. ShapeLink'
  <2>1. ShapeLink
    BY DEF IInv
  <2> QED BY <1>7, <1>8, <1>9, <1>11, <1>14, <2>1, StepShapeLink
<1>16. TaskLink'
  <2>1. ASSUME NEW u \in Threads, NEW i \in 1..Len(todo[u]), u = t => i > Len(h),
               NEW g, g = todo[u][i], TaskOK(u, g)
        PROVE  TaskOK(u, g)'
    <3>1. g.obj = v => g.op \notin {"attach", "pin", "init", "vcount", "vinit", "del"}
      <4>1. g.op # "vcount"
        <5>1. ShapeOK(vdevOf, u, todo[u], i)
          BY <2>1, TaskFacts
        <5> QED BY <1>4, <2>1, <5>1 DEF ShapeOK, t
      <4> QED BY <1>6, <2>1, <4>1 DEF TaskOK
    <3>2. g.obj \in Objects \/ g.op \in {"pop", "sched"}
      BY <2>1, TaskFacts, Kinds DEF ObjectsOf
    <3> QED BY <1>11, <1>12, <2>1, <3>1, <3>2 DEF TaskOK, Linked
  <2>2. TaskLink
    BY DEF IInv
  <2>3. \A u \in Threads : \A i \in 1..Len(todo[u]) : (u = t => i > Len(h)) =>
          \A g : g = todo[u][i] /\ TaskOK(u, g) => TaskOK(u, g)'
    BY <2>1
  <2>4. \A i \in 1..Len(n) : \A g : g = n[i] => TaskOK(t, g)'
    BY <1>14
  <2> QED BY <1>7, <1>9, <2>2, <2>3, <2>4, StepTaskLink
<1>17. AloneLink'
  <2>1. ~Named("attach", v)
    BY <1>2, Attaching
  <2> QED BY <1>3, <1>7, <1>14, <2>1, StepAloneLink
<1>18. ListLink'
  BY <1>11 DEF IInv, ListLink
<1>19. StageLink'
  <2>1. ASSUME NEW p \in mem' \cap Peers
        PROVE  /\ p \in mem /\ (Linked(p)' <=> Linked(p))
               /\ \A op \in {"attach", "free", "detach"} : ~Has(h, T(op, p)) /\ ~Has(n, T(op, p))
    BY <1>2, <1>3, <1>5, <1>11 DEF Linked, T
  <2> QED BY <1>7, <2>1, StepStageLink
<1>20. PinLink'
  <2>1. \A q \in mem' \cap Peers : q \in mem /\ role'[q] = role[q] /\ vdevOf'[q] = vdevOf[q]
    BY <1>11
  <2>2. \A q \in Peers : pins[q] # NULL => q \in mem'
    BY <1>11 DEF IInv, PinLink
  <2>3. \A q \in mem' \cap Peers : \A op \in {"attach", "pin", "free"} : ~Has(h, T(op, q)) /\ ~Has(n, T(op, q))
    BY <1>2, <1>3, <1>5 DEF T
  <2>4. \A b \in Peers : Usable(b) => Usable(b)'
    BY <1>2, <1>12, Kinds DEF Usable
  <2>5. \A q \in Peers : PinThird(q)'
    <3>1. \A i \in 1..Len(n) : n[i].op \notin Makers
      BY <1>3, <1>14 DEF Makers
    <3> QED BY <1>7, <1>11, <2>4, <3>1, ThirdKeep
  <2> QED BY <1>7, <1>11, <2>1, <2>2, <2>3, <2>5, StepPinLink
<1>21. RefLink'
  <2> SUFFICES ASSUME NEW o \in mem PROVE ref'[o] = Others(o)' + Pending(o, Refs(o))'
    BY <1>11 DEF RefLink, Refs
  <2>0. o \in Objects /\ Others(o) \in Nat /\ ref[o] \in Nat
    BY <1>9, Typed
  <2>1. Count(h, o, Refs(o)) = 0 /\ Count(n, o, Refs(o)) = 0
    BY <1>3, <1>5 DEF One, Refs
  <2>2. CASE o = v
    <3>1. Len(vdevPeers[v]) \in Nat
      BY Typed
    <3>2. Others(o)' = Others(o) + 1
      <4>1. Others(o) = Len(vdevPeers[v]) /\ Others(o)' = 1 + Len(vdevPeers[v])
        <5>1. Creators(v) = 0 /\ Creators(v)' = 1 /\ vdevPeers' = vdevPeers
          BY <1>6, <1>11, <1>12 DEF Creators
        <5>2. Others(v) = Creators(v) + Len(vdevPeers[v]) /\ Others(v)' = Creators(v)' + Len(vdevPeers'[v])
          BY <1>2 DEF Others
        <5> QED BY <2>2, <3>1, <5>1, <5>2
      <4> QED BY <3>1, <4>1
    <3>3. ref'[o] = ref[o] + 1 - Count(h, o, Refs(o)) + Count(n, o, Refs(o))
      BY <1>10, <1>12, <2>1, <2>2
    <3> QED BY <1>7, <3>2, <3>3, RefKeep
  <2>3. CASE o # v
    <3>1. Others(o)' = Others(o)
      BY <1>11, <1>12, <2>0, <2>3 DEF Others, Pinners, Creators
    <3>2. Others(o)' = Others(o) + 0 /\ ref'[o] = ref[o] + 0 - Count(h, o, Refs(o)) + Count(n, o, Refs(o))
      BY <1>12, <2>0, <2>1, <2>3, <3>1
    <3> QED BY <1>7, <3>2, RefKeep
  <2> QED BY <2>2, <2>3
<1>22. EndLink'
  <2> SUFFICES ASSUME NEW o \in mem PROVE Pending(o, Ends)' + Cardinality(Waiting(o))' = IF ref'[o] = 0 THEN 1 ELSE 0
    BY <1>11 DEF EndLink, Ends
  <2>1. CASE o = v
    <3>1. Count(h, o, Ends) = 1 /\ Count(n, o, Ends) = 0
      BY <1>3, <1>5, <2>1 DEF One, Ends
    <3>2. o \notin ToSet(freeList) /\ o \notin ToSet(freeList') /\ ref[o] = 0 /\ ref'[o] = 1
      BY <1>10, <1>11, <1>12, <2>1
    <3>3. freeList' \in Seq(Peers) /\ IsInjective(freeList')
      BY <1>13 DEF Types
    <3>4. (IF o \in ToSet(freeList') THEN 1 ELSE 0) + Count(n, o, Ends) + (IF ref[o] = 0 THEN 1 ELSE 0)
             = (IF o \in ToSet(freeList) THEN 1 ELSE 0) + Count(h, o, Ends) + (IF ref'[o] = 0 THEN 1 ELSE 0)
      BY <3>1, <3>2
    <3> QED BY <1>7, <3>3, <3>4, EndCount
  <2>2. CASE o # v
    <3>1. o \in Objects
      BY <1>9
    <3>2. Count(h, o, Ends) = 0 /\ Count(n, o, Ends) = 0
      BY <1>3, <1>5, <2>2 DEF One, Ends
    <3> QED BY <1>7, <1>11, <1>12, <2>2, <3>1, <3>2, EndKeep
  <2> QED BY <2>1, <2>2
<1>23. LockLink'
  BY <1>3, <1>7, <1>11, <1>14, StepLockLink
<1>24. WorkLink'
  BY SMTT(30), <1>3, <1>4, <1>7, <1>11, StepWorkLink DEF delay
<1>25. BornLink'
  <2>1. ASSUME NEW o \in mem', Unfinished(st'[o])
        PROVE  \/ \E op \in Births : Has(n, T(op, o))
               \/ o \in mem /\ Unfinished(st[o]) /\ \A op \in Births : ~Has(h, T(op, o))
    <3>1. CASE o = v
      BY <1>5, <3>1 DEF Births, d
    <3>2. CASE o # v
      BY <1>3, <1>5, <1>9, <1>11, <1>12, <2>1, <3>2 DEF T
    <3> QED BY <3>1, <3>2
  <2> QED BY <2>1, <1>7, StepBornLink
<1> QED BY <1>13, <1>15, <1>16, <1>17, <1>18, <1>19, <1>20, <1>21, <1>22, <1>23, <1>24, <1>25 DEF IInv

Becomes(o, s) == s \in {"allocated", "created", "deleted"} /\ st' = [st EXCEPT ![o] = s]

\* What such a step has to respect: s is the new state of o.
StateChange(t, h, n, o, s) ==
  /\ \A i \in 1..Len(h) : h[i].op \in StateOld
  /\ \A i \in 1..Len(n) : n[i].op \in StateNew
  /\ \A u \in Threads : \A i \in 1..Len(todo[u]) : (u = t => i > Len(h)) =>
       ~(todo[u][i].obj = o /\ todo[u][i].op \in {"attach", "pin", "init", "vcount", "vinit", "del"})
  /\ \A i \in 1..Len(n) : ~Named("attach", n[i].obj) /\ \A k : k = n[i] => TaskOK(t, k)'
  /\ s = "allocated" => Has(n, T("del", o))
  /\ \A x \in mem : x # o => \A op \in Births : ~Has(h, T(op, x))
  /\ UNCHANGED <<mem, pins, birth, lists, vlock, delay>>
  /\ ref' \in [Objects -> Nat]
  /\ \A x \in mem : /\ x # o => ref'[x] = ref[x] - Count(h, x, Refs(x)) + Count(n, x, Refs(x))
                    /\ ref[x] = 0 <=> ref'[x] = 0
  /\ ref'[o] = ref[o] + Held(s) - Held(st[o]) - Count(h, o, Refs(o)) + Count(n, o, Refs(o))

LEMMA StateStep ==
  ASSUME IInv, NEW t, NEW h, NEW m, NEW n, Step(t, h, m, n), NEW o \in mem, NEW s, Becomes(o, s),
         StateChange(t, h, n, o, s), ShapeLink', \A q \in Peers : PinThird(q)'
  PROVE  IInv'
<1> \A i \in 1..Len(h) : h[i].op \in StateOld
  BY DEF StateChange
<1> \A i \in 1..Len(n) : n[i].op \in StateNew
  BY DEF StateChange
<1> \A u \in Threads : \A i \in 1..Len(todo[u]) : (u = t => i > Len(h)) =>
      ~(todo[u][i].obj = o /\ todo[u][i].op \in {"attach", "pin", "init", "vcount", "vinit", "del"})
  BY DEF StateChange
<1> \A i \in 1..Len(n) : ~Named("attach", n[i].obj) /\ \A k : k = n[i] => TaskOK(t, k)'
  BY DEF StateChange
<1> s = "allocated" => Has(n, T("del", o))
  BY DEF StateChange
<1> \A x \in mem : x # o => \A op \in Births : ~Has(h, T(op, x))
  BY DEF StateChange
<1> UNCHANGED <<mem, pins, birth, lists, vlock, delay>>
  BY DEF StateChange
<1> ref' \in [Objects -> Nat]
  BY DEF StateChange
<1> \A x \in mem : /\ x # o => ref'[x] = ref[x] - Count(h, x, Refs(x)) + Count(n, x, Refs(x))
                   /\ ref[x] = 0 <=> ref'[x] = 0
  BY DEF StateChange
<1> ref'[o] = ref[o] + Held(s) - Held(st[o]) - Count(h, o, Refs(o)) + Count(n, o, Refs(o))
  BY DEF StateChange
<1>0. /\ todo \in Programs /\ todo' \in Programs /\ mem \subseteq Objects /\ h \in Seq(Task) /\ n \in Seq(Task)
      /\ st \in [Objects -> {"uncounted", "allocated", "created", "deleted"}] /\ o \in Objects
  BY ZenonT(40), Typed, StepPlaces DEF Step, IInv, Types
<1>1. /\ mem' = mem /\ pins' = pins /\ role' = role /\ vdevOf' = vdevOf /\ made' = made /\ table' = table
      /\ psocPeers' = psocPeers /\ vdevPeers' = vdevPeers /\ bss' = bss /\ vlock' = vlock /\ freeList' = freeList
      /\ work' = work
  BY DEF birth, lists, delay
<1>2. st'[o] = s /\ \A x \in Objects : x # o => st'[x] = st[x]
  BY <1>0 DEF Becomes
<1>3. Types'
  <2>1. st' \in [Objects -> {"uncounted", "allocated", "created", "deleted"}]
    BY <1>0 DEF Becomes
  <2> QED BY <1>0, <2>1, StateType
<1>4. TaskLink'
  <2>1. ASSUME NEW u \in Threads, NEW i \in 1..Len(todo[u]), u = t => i > Len(h),
               NEW g, g = todo[u][i], TaskOK(u, g)
        PROVE  TaskOK(u, g)'
    <3>1. g.obj = o => g.op \notin {"attach", "pin", "init", "vcount", "vinit", "del"}
      BY <2>1
    <3>2. g.obj \in Objects \/ g.op \in {"pop", "sched"}
      BY <2>1, TaskFacts, Kinds DEF ObjectsOf
    <3> QED BY <1>1, <1>2, <2>1, <3>1, <3>2 DEF TaskOK, Linked
  <2>2. TaskLink
    BY DEF IInv
  <2>3. \A u \in Threads : \A i \in 1..Len(todo[u]) : (u = t => i > Len(h)) =>
          \A g : g = todo[u][i] /\ TaskOK(u, g) => TaskOK(u, g)'
    BY <2>1
  <2>4. \A i \in 1..Len(n) : \A g : g = n[i] => TaskOK(t, g)'
    OBVIOUS
  <2> QED BY <1>0, <2>2, <2>3, <2>4, StepTaskLink, SMTT(40)
<1>5. AloneLink'
  <2>1. \A i \in 1..Len(n) : n[i].op # "attach"
    BY DEF StateNew
  <2> QED BY <2>1, StepAloneLink
<1>6. ListLink'
  BY <1>1 DEF IInv, ListLink
<1>7. \A op \in {"attach", "pin", "free", "detach"} : \A x : ~Has(h, T(op, x)) /\ ~Has(n, T(op, x))
  BY DEF Has, T, StateOld, StateNew
<1>8. StageLink'
  <2>1. \A p \in mem' \cap Peers : /\ p \in mem /\ (Linked(p)' <=> Linked(p))
                                   /\ \A op \in {"attach", "free", "detach"} : ~Has(h, T(op, p)) /\ ~Has(n, T(op, p))
    BY <1>1, <1>7 DEF Linked
  <2> QED BY <2>1, StepStageLink
<1>9. PinLink'
  <2>1. \A q \in Peers : pins[q] # NULL => q \in mem'
    BY <1>1 DEF IInv, PinLink
  <2>2. \A q \in mem' \cap Peers : \A op \in {"attach", "pin", "free"} : ~Has(h, T(op, q)) /\ ~Has(n, T(op, q))
    BY <1>7
  <2>3. \A q \in mem' \cap Peers : q \in mem /\ role'[q] = role[q] /\ vdevOf'[q] = vdevOf[q]
    BY <1>1
  <2>4. UNCHANGED <<pins, bss>>
    BY <1>1
  <2> QED BY <2>1, <2>2, <2>3, <2>4, StepPinLink
<1>10. RefLink'
  <2> SUFFICES ASSUME NEW x \in mem PROVE ref'[x] = Others(x)' + Pending(x, Refs(x))'
    BY <1>1 DEF RefLink, Refs
  <2>0. /\ x \in Objects /\ ref[x] \in Nat /\ Others(x) \in Nat
        /\ Count(h, x, Refs(x)) \in Nat /\ Count(n, x, Refs(x)) \in Nat
    BY <1>0, Counted, Typed, HitsFinite
  <2>1. CASE x # o
    <3>1. Others(x)' = Others(x)
      BY <1>1, <1>2, <2>0, <2>1 DEF Others, Pinners, Creators
    <3>2. Others(x)' = Others(x) + 0 /\ ref'[x] = ref[x] + 0 - Count(h, x, Refs(x)) + Count(n, x, Refs(x))
      BY <2>0, <2>1, <3>1
    <3> QED BY <3>2, RefKeep
  <2>2. CASE x = o
    <3> DEFINE d == Held(s) - Held(st[o])
               e == IF o \in Peers THEN Cardinality(Pinners(o)) ELSE Len(vdevPeers[o])
    <3>1. d \in Int /\ Held(s) \in Nat /\ Held(st[o]) \in Nat
      BY DEF Held
    <3>2. e \in Nat
      BY <2>2, <2>0, PinnersFinite, Typed, Kinds
    <3>3. Others(x) = Held(st[o]) + e /\ Others(x)' = Held(s) + e
      BY <1>1, <1>2, <2>2 DEF Others, Held, Pinners, Creators
    <3>4. Others(x)' = Others(x) + d
      <4> HIDE DEF e
      <4> QED BY <3>1, <3>2, <3>3
    <3>5. ref'[x] = ref[x] + d - Count(h, x, Refs(x)) + Count(n, x, Refs(x))
      BY <2>0, <2>2, <3>1
    <3> HIDE DEF d
    <3> QED BY <3>1, <3>4, <3>5, RefKeep
  <2> QED BY <2>1, <2>2
<1>11. EndLink'
  <2>1. ASSUME NEW x \in mem PROVE Count(h, x, Ends) = 0 /\ Count(n, x, Ends) = 0
    <3>1. StateOld \cap Ends = {} /\ StateNew \cap Ends = {}
      BY DEF StateOld, StateNew, Ends
    <3>2. Count(h, x, Ends) = 0
      BY <1>0, <3>1, NoEnds
    <3>3. Count(n, x, Ends) = 0
      BY <1>0, <3>1, NoEnds
    <3> QED BY <3>2, <3>3
  <2>2. \A x \in mem' : x \in mem /\ Count(h, x, Ends) = Count(n, x, Ends) /\ (ref'[x] = 0 <=> ref[x] = 0)
    BY <1>1, <2>1
  <2> QED BY <1>1, <2>2, StepEndLink
<1>12. LockLink'
  <2>1. \A i \in 1..Len(n) : n[i].op \notin {"destroy", "detach"}
    BY DEF StateNew
  <2> QED BY <1>1, <2>1, StepLockLink
<1>13. WorkLink'
  <2>1. \A i \in 1..Len(h) : h[i].op \notin {"sched", "pop"}
    BY DEF StateOld
  <2> QED BY <2>1, StepWorkLink
<1>14. BornLink'
  <2>1. ASSUME NEW x \in mem', Unfinished(st'[x])
        PROVE  \/ \E op \in Births : Has(n, T(op, x))
               \/ x \in mem /\ Unfinished(st[x]) /\ \A op \in Births : ~Has(h, T(op, x))
    <3>1. x = o => Has(n, T("del", x))
      BY <1>2, <2>1 DEF Unfinished, Becomes
    <3>2. x # o => x \in mem /\ Unfinished(st[x]) /\ \A op \in Births : ~Has(h, T(op, x))
      BY <1>0, <1>1, <1>2, <2>1
    <3> QED BY <3>1, <3>2 DEF Births
  <2> QED BY <2>1, StepBornLink
<1> QED BY <1>3, <1>4, <1>5, <1>6, <1>8, <1>9, <1>10, <1>11, <1>12, <1>13, <1>14 DEF IInv

\* A task about o that rests on its state: who may have it.
LEMMA StateTasks ==
  ASSUME IInv, NEW u \in Threads, NEW i \in 1..Len(todo[u]), NEW g, g = todo[u][i],
         g.op \in {"attach", "pin", "init", "vcount", "vinit", "del"}
  PROVE  /\ g.obj \in Peers => u = Mc /\ g.op \notin {"vcount", "vinit"}
         /\ g.obj \notin Peers => u = Hdd /\ g.op \in {"vcount", "vinit", "del"}
         /\ g.op \in {"attach", "pin", "vcount", "vinit"} => i = 1
         /\ g.op = "init" => Len(todo[u]) = i + 1
         /\ g.op \in {"vcount", "vinit"} => Len(todo[u]) = 1
         /\ g.op = "del" => \A j \in 1..Len(todo[u]) : todo[u][j].op \in {"init", "del"} => j = i
<1>1. ShapeOK(vdevOf, u, todo[u], i) /\ g.obj \in ObjectsOf(g.op)
  BY TaskFacts
<1>2. \A o \in Vdevs : o \notin Peers
  BY Kinds DEF Objects
<1> QED BY <1>1, <1>2 DEF ShapeOK, ObjectsOf

LEMMA VdevInitIInv ==
  ASSUME IInv, NEW v \in Vdevs, VdevInit(v)
  PROVE  IInv'
<1> DEFINE k == T("vinit", v)
           d == T("del", v)
           r == T("rel", v)
           h == <<k>>
           m == <<>>
           t == Hdd
<1>1. /\ Doing(t, k) /\ UNCHANGED <<mem, pins, birth, lists, vlock, delay>>
      /\ \/ st' = [st EXCEPT ![v] = "created"] /\ Get(v) /\ Then(t, <<d, r>>)
         \/ /\ \E s \in {"allocated", "created"} : st' = [st EXCEPT ![v] = s]
            /\ Then(t, <<d>>) /\ ref' = ref
  BY DEF VdevInit
<1>2. v \in Objects /\ v \notin Peers /\ t \in Threads
  BY Kinds
<1>3. /\ k.op = "vinit" /\ k.obj = v /\ k \in Task /\ d.op = "del" /\ d.obj = v /\ d \in Task
      /\ r.op = "rel" /\ r.obj = v /\ r \in Task
  BY <1>2, OneTask DEF Ops
<1>4. h \in Seq(Task) /\ Len(h) = 1 /\ h[1] = k /\ \A x, ops : Count(h, x, ops) = One(k, x, ops)
  BY <1>3, CountOne
<1>5. \A x : Has(h, x) <=> x = k
  BY <1>3, HasFew
<1>6. Len(todo[t]) = 1 /\ v \in mem /\ todo[t][1] = k /\ 1 \in 1..Len(todo[t]) /\ st[v] = "allocated"
  <2>1. TaskOK(t, k) /\ ShapeOK(vdevOf, t, todo[t], 1) /\ todo[t][1] = k /\ 1 \in 1..Len(todo[t])
    BY <1>1, <1>2, DoingStep
  <2> QED BY <1>3, <2>1 DEF TaskOK, ShapeOK
<1> HIDE DEF k, d, r, h, t
<1>7. /\ ref \in [Objects -> Nat] /\ ref[v] # 0 /\ ~Named("attach", v) /\ mem \subseteq Objects
      /\ st \in [Objects -> {"uncounted", "allocated", "created", "deleted"}] /\ todo \in Programs
  BY <1>2, <1>6, Counted, Attaching, Typed DEF IInv, Types
<1>8. ASSUME NEW n \in Seq(Task), Then(t, n), NEW s \in {"allocated", "created"}, st' = [st EXCEPT ![v] = s],
             \A i \in 1..Len(n) : (n[i] = d /\ i = 1) \/ n[i] = r, Has(n, d),
             \A x : x # v => Count(n, x, Refs(x)) = 0,
             ref' \in [Objects -> Nat], ref'[v] = ref[v] + Count(n, v, Refs(v)), ref'[v] # 0,
             \A x \in Objects : x # v => ref'[x] = ref[x]
      PROVE  IInv'
  <2>1. Step(t, h, m, n) /\ n \o m = n
    BY <1>1, <1>2, <1>4, <1>6, <1>8, AloneStep DEF h
  <2>2. m = <<>>
    OBVIOUS
  <2> HIDE DEF m
  <2>3. st'[v] = s /\ mem' = mem /\ vdevOf' = vdevOf
    BY <1>1, <1>2, <1>7, <1>8 DEF birth
  <2>4. ASSUME NEW i \in 1..Len(n)
        PROVE  /\ n[i].op \in StateNew /\ n[i].obj = v /\ ShapeOK(vdevOf', t, n \o m, i)
               /\ \A g : g = n[i] => TaskOK(t, g)'
    <3>0. \A j \in 1..Len(n) : n[j].op \in {"init", "del"} => j = 1
      BY <1>3, <1>8
    <3>1. CASE n[i] = d /\ i = 1
      <4>1. ShapeOK(vdevOf', t, n, i)
        BY <1>2, <1>3, <3>0, <3>1 DEF ShapeOK, ObjectsOf, t
      <4>2. TaskOK(t, d)'
        BY <1>3, <1>6, <2>3 DEF TaskOK
      <4> QED BY <1>3, <2>1, <3>1, <4>1, <4>2 DEF StateNew
    <3>2. CASE n[i] = r
      <4>1. ShapeOK(vdevOf', t, n, i)
        <5>1. r.obj \in ObjectsOf(r.op)
          BY <1>2, <1>3 DEF ObjectsOf
        <5> QED BY <1>3, <3>2, <5>1, ShapeFree
      <4>2. TaskOK(t, r)'
        BY <1>3, <1>6, <2>3 DEF TaskOK
      <4> QED BY <1>3, <2>1, <3>2, <4>1, <4>2 DEF StateNew
    <3> QED BY <1>8, <3>1, <3>2
  <2>5. ShapeLink'
    <3>1. ShapeLink
      BY DEF IInv
    <3> QED BY <1>7, <2>1, <2>2, <2>3, <2>4, <3>1, StepShapeLink
  <2>6. ASSUME NEW u \in Threads, NEW i \in 1..Len(todo[u]), u = t => i > Len(h)
        PROVE  ~(todo[u][i].obj = v /\ todo[u][i].op \in {"attach", "pin", "init", "vcount", "vinit", "del"})
    <3>1. ASSUME todo[u][i].obj = v, todo[u][i].op \in {"attach", "pin", "init", "vcount", "vinit", "del"} PROVE FALSE
      <4>1. u = t
        BY <1>2, <3>1, StateTasks DEF t
      <4>2. i = 1
        <5>1. Len(todo[u]) = 1
          BY <1>6, <4>1
        <5> QED BY <5>1
      <4> QED BY <1>4, <2>6, <4>1, <4>2
    <3> QED BY <3>1
  <2>7. \A q \in Peers : PinThird(q)'
    <3>1. UNCHANGED <<role, vdevOf, bss, vdevPeers>>
      BY <1>1 DEF birth, lists
    <3>2. \A b \in Peers : Usable(b) => Usable(b)'
      BY <1>2, <1>7, <1>8 DEF Usable, Objects
    <3>3. \A i \in 1..Len(n) : n[i].op \notin Makers
      BY <2>4 DEF StateNew, Makers
    <3> QED BY <2>1, <3>1, <3>2, <3>3, ThirdKeep
  <2>8. \A x : Count(h, x, Refs(x)) = 0
    BY <1>3, <1>4 DEF One, Refs
  <2>9. \A x \in mem : /\ x # v => ref'[x] = ref[x] - Count(h, x, Refs(x)) + Count(n, x, Refs(x))
                       /\ ref[x] = 0 <=> ref'[x] = 0
    BY <1>7, <1>8, <2>8
  <2>10. ref'[v] = ref[v] + Held(s) - Held(st[v]) - Count(h, v, Refs(v)) + Count(n, v, Refs(v))
    <3>1. Held(s) = 1 /\ Held(st[v]) = 1
      BY <1>6 DEF Held
    <3>2. ref[v] \in Nat /\ Count(n, v, Refs(v)) \in Nat
      BY <1>2, <1>7, HitsFinite
    <3> QED BY <1>8, <2>8, <3>1, <3>2
  <2>11. \A i \in 1..Len(h) : h[i].op \in StateOld
    BY <1>3, <1>4 DEF StateOld
  <2>12. \A x \in mem : x # v => \A op \in Births : ~Has(h, T(op, x))
    BY <1>3, <1>5 DEF T
  <2>13. \A i \in 1..Len(n) : ~Named("attach", n[i].obj) /\ (\A g : g = n[i] => TaskOK(t, g)') /\ n[i].op \in StateNew
    BY <1>7, <2>4
  <2>14. Has(n, T("del", v)) /\ v \in mem
    BY <1>6, <1>8 DEF d
  <2>15. UNCHANGED <<mem, pins, birth, lists, vlock, delay>> /\ ref' \in [Objects -> Nat]
         /\ Becomes(v, s)
    BY <1>1, <1>8 DEF Becomes
  <2>16. \A u \in Threads : \A i \in 1..Len(todo[u]) : (u = t => i > Len(h)) =>
           ~(todo[u][i].obj = v /\ todo[u][i].op \in {"attach", "pin", "init", "vcount", "vinit", "del"})
    BY <2>6
  <2>40. StateChange(t, h, n, v, s)
    BY <2>9, <2>10, <2>11, <2>12, <2>13, <2>14, <2>15, <2>16 DEF StateChange
  <2> QED BY <2>1, <2>5, <2>7, <2>14, <2>15, <2>40, StateStep
<1>9. CASE st' = [st EXCEPT ![v] = "created"] /\ Get(v) /\ Then(t, <<d, r>>)
  <2> DEFINE n == <<d, r>>
  <2>1. n \in Seq(Task) /\ Len(n) = 2 /\ n[1] = d /\ n[2] = r /\ Has(n, d)
    BY <1>3, TwoTasks, HasFew
  <2>2. ASSUME NEW x PROVE Count(n, x, Refs(x)) = IF x = v THEN 1 ELSE 0
    <3>1. Count(n, x, Refs(x)) = One(d, x, Refs(x)) + One(r, x, Refs(x))
      BY <1>3, CountTwo
    <3> HIDE DEF n
    <3> QED BY <1>3, <3>1 DEF One, Refs
  <2>3. ref' \in [Objects -> Nat] /\ ref'[v] = ref[v] + 1 /\ \A x \in Objects : x # v => ref'[x] = ref[x]
    BY <1>2, <1>7, <1>9 DEF Get
  <2>4. Then(t, n) /\ st' = [st EXCEPT ![v] = "created"]
    BY <1>9
  <2> HIDE DEF n
  <2>5. \A i \in 1..Len(n) : (n[i] = d /\ i = 1) \/ n[i] = r
    BY <2>1
  <2>6. ref'[v] = ref[v] + Count(n, v, Refs(v)) /\ ref'[v] # 0
    BY <1>2, <1>7, <2>2, <2>3
  <2> QED BY <1>8, <2>1, <2>2, <2>3, <2>4, <2>5, <2>6
<1>10. CASE (\E s \in {"allocated", "created"} : st' = [st EXCEPT ![v] = s]) /\ Then(t, <<d>>) /\ ref' = ref
  <2> DEFINE n == <<d>>
  <2>1. n \in Seq(Task) /\ Len(n) = 1 /\ n[1] = d /\ Has(n, d) /\ \A x, ops : Count(n, x, ops) = One(d, x, ops)
    BY <1>3, CountOne, HasFew
  <2>2. \A x : Count(n, x, Refs(x)) = 0
    <3> HIDE DEF n
    <3> QED BY <1>3, <2>1 DEF One, Refs
  <2>3. PICK s \in {"allocated", "created"} : st' = [st EXCEPT ![v] = s]
    BY <1>10
  <2>4. Then(t, n) /\ ref' = ref
    BY <1>10
  <2> HIDE DEF n
  <2>5. \A i \in 1..Len(n) : n[i] = d /\ i = 1
    BY <2>1
  <2>6. ref'[v] = ref[v] + Count(n, v, Refs(v)) /\ ref'[v] # 0 /\ ref' \in [Objects -> Nat]
    BY <1>2, <1>7, <2>2, <2>4
  <2> QED BY <1>8, <2>1, <2>2, <2>3, <2>4, <2>5, <2>6
<1> QED BY <1>1, <1>9, <1>10

LEMMA DeleteIInv ==
  ASSUME IInv, NEW t \in Threads, NEW o \in Objects, Delete(t, o)
  PROVE  IInv'
<1> DEFINE k == T("del", o)
           r == T("rel", o)
           h == <<k>>
           n == <<r>>
           m == Tail(todo[t])
           s == "deleted"
<1>1. /\ Doing(t, k) /\ st' = [st EXCEPT ![o] = s] /\ Then(t, n)
      /\ UNCHANGED <<mem, ref, pins, birth, lists, vlock, delay>>
  BY DEF Delete
<1>3. /\ k.op = "del" /\ k.obj = o /\ k \in Task /\ r.op = "rel" /\ r.obj = o /\ r \in Task
  BY OneTask DEF Ops
<1>4. /\ h \in Seq(Task) /\ Len(h) = 1 /\ h[1] = k /\ n \in Seq(Task) /\ Len(n) = 1 /\ n[1] = r
      /\ \A x, ops : Count(h, x, ops) = One(k, x, ops) /\ Count(n, x, ops) = One(r, x, ops)
      /\ \A x : Has(h, x) <=> x = k
  BY <1>3, CountOne, HasFew
<1>6. o \in mem /\ todo[t][1] = k /\ 1 \in 1..Len(todo[t]) /\ st[o] \in {"allocated", "created"}
  <2>1. TaskOK(t, k) /\ todo[t][1] = k /\ 1 \in 1..Len(todo[t])
    BY <1>1, DoingStep
  <2> QED BY <1>3, <2>1 DEF TaskOK
<1> HIDE DEF k, r, h, m, n
<1>7. /\ ref \in [Objects -> Nat] /\ mem \subseteq Objects
      /\ st \in [Objects -> {"uncounted", "allocated", "created", "deleted"}] /\ todo \in Programs
  BY Typed DEF IInv, Types
<1>8. ~Named("attach", o)
  BY <1>3, <1>6, NotAttaching
<1>9. Step(t, h, m, n)
  BY <1>1, <1>4, DoingStep DEF h, m
<1>10. ASSUME NEW i \in 1..Len(n)
       PROVE  n[i] = r /\ ShapeOK(vdevOf', t, n \o m, i) /\ \A g : g = n[i] => TaskOK(t, g)'
  <2>1. n[i] = r /\ (n \o m)[i] = r
    <3>1. (n \o m)[i] = n[i]
      BY <1>7, <1>9, StepPlaces
    <3> QED BY <1>4, <3>1
  <2>2. r.obj \in ObjectsOf(r.op)
    BY <1>3 DEF ObjectsOf
  <2>3. ShapeOK(vdevOf', t, n \o m, i)
    BY <1>3, <2>1, <2>2, ShapeFree
  <2>4. TaskOK(t, r)'
    BY <1>1, <1>3, <1>6 DEF TaskOK
  <2> QED BY <2>1, <2>3, <2>4
<1>11. ShapeLink'
  <2>1. ShapeLink /\ vdevOf' = vdevOf
    BY <1>1 DEF IInv, birth
  <2> QED BY <1>3, <1>4, <1>7, <1>9, <1>10, <2>1, StepShapeLink
<1>12. ASSUME NEW u \in Threads, NEW i \in 1..Len(todo[u]), u = t => i > Len(h)
       PROVE  ~(todo[u][i].obj = o /\ todo[u][i].op \in {"attach", "pin", "init", "vcount", "vinit", "del"})
  <2>1. ASSUME todo[u][i].obj = o, todo[u][i].op \in {"attach", "pin", "init", "vcount", "vinit", "del"} PROVE FALSE
    <3>1. u = t
      <4>1. o \in Peers => u = Mc /\ t = Mc
        BY <1>3, <1>6, <2>1, StateTasks
      <4>2. o \notin Peers => u = Hdd /\ t = Hdd
        BY <1>3, <1>6, <2>1, StateTasks
      <4> QED BY <4>1, <4>2
    <3>2. i # 1
      BY <1>4, <1>12, <3>1
    <3>3. todo[u][i].op \notin {"init", "del"}
      <4>1. \A j \in 1..Len(todo[t]) : todo[t][j].op \in {"init", "del"} => j = 1
        BY <1>3, <1>6, StateTasks
      <4> QED BY <3>1, <3>2, <4>1
    <3> QED BY <2>1, <3>2, <3>3, StateTasks
  <2> QED BY <2>1
<1>13. \A q \in Peers : PinThird(q)'
  <2>1. CASE o \in Peers
    <3>1. t = Mc
      BY <1>3, <1>6, <2>1, StateTasks
    <3>2. \A i \in 1..Len(n) : n[i].op \notin Makers
      BY <1>3, <1>10 DEF Makers
    <3>3. \A op \in Makers : \A x : ~Named(op, x)'
      <4>1. t \in {Mc} /\ Len(h) >= 1
        BY <1>4, <3>1
      <4> QED BY <1>9, <3>2, <4>1, NoMakers
    <3> QED BY <3>3 DEF PinThird, Makers
  <2>2. CASE o \notin Peers
    <3>1. UNCHANGED <<role, vdevOf, bss, vdevPeers>>
      BY <1>1 DEF birth, lists
    <3>2. \A b \in Peers : Usable(b) => Usable(b)'
      BY <1>1, <1>7, <2>2 DEF Usable, Objects
    <3>3. \A i \in 1..Len(n) : n[i].op \notin Makers
      BY <1>3, <1>10 DEF Makers
    <3> QED BY <1>9, <3>1, <3>2, <3>3, ThirdKeep
  <2> QED BY <2>1, <2>2
<1>14. \A x : Count(h, x, Refs(x)) = 0 /\ Count(n, x, Refs(x)) = IF x = o THEN 1 ELSE 0
  BY <1>3, <1>4 DEF One, Refs
<1>15. \A x \in mem : /\ x # o => ref'[x] = ref[x] - Count(h, x, Refs(x)) + Count(n, x, Refs(x))
                      /\ ref[x] = 0 <=> ref'[x] = 0
  BY <1>1, <1>7, <1>14
<1>16. ref'[o] = ref[o] + Held(s) - Held(st[o]) - Count(h, o, Refs(o)) + Count(n, o, Refs(o))
  <2>1. Held(s) = 0 /\ Held(st[o]) = 1
    BY <1>6 DEF Held
  <2>2. ref[o] \in Nat /\ ref' = ref
    BY <1>1, <1>7
  <2> QED BY <1>14, <2>1, <2>2
<1>17. \A i \in 1..Len(h) : h[i].op \in StateOld
  BY <1>3, <1>4 DEF StateOld
<1>18. \A x \in mem : x # o => \A op \in Births : ~Has(h, T(op, x))
  BY <1>3, <1>4 DEF T
<1>19. \A i \in 1..Len(n) : ~Named("attach", n[i].obj) /\ (\A g : g = n[i] => TaskOK(t, g)') /\ n[i].op \in StateNew
  BY <1>3, <1>8, <1>10 DEF StateNew
<1>20. /\ UNCHANGED <<mem, pins, birth, lists, vlock, delay>> /\ ref' \in [Objects -> Nat]
       /\ Becomes(o, s) /\ s # "allocated"
  BY <1>1, <1>7 DEF Becomes
<1>21. \A u \in Threads : \A i \in 1..Len(todo[u]) : (u = t => i > Len(h)) =>
         ~(todo[u][i].obj = o /\ todo[u][i].op \in {"attach", "pin", "init", "vcount", "vinit", "del"})
  BY <1>12
<1> HIDE DEF s
<1>40. StateChange(t, h, n, o, s)
  BY <1>15, <1>16, <1>17, <1>18, <1>19, <1>20, <1>21 DEF StateChange
<1> QED BY <1>6, <1>9, <1>11, <1>13, <1>20, <1>40, StateStep

LEMMA PeerInitIInv ==
  ASSUME IInv, NEW p \in Peers, PeerInit(p)
  PROVE  IInv'
<1> DEFINE k == T("init", p)
           d == T("del", p)
           v == vdevOf[p]
           r == T("rel", v)
           h == <<k, r>>
           m == <<>>
           t == Mc
<1>1. /\ Doing(t, k) /\ UNCHANGED <<mem, ref, pins, birth, lists, vlock, delay>>
      /\ \/ /\ st' = [st EXCEPT ![p] = "created"]
            /\ \E undo \in {<<>>, <<d>>} : todo' = [todo EXCEPT ![t] = Tail(@) \o undo]
         \/ Then(t, <<d>>) /\ st' = st
  BY DEF PeerInit
<1>2. p \in Objects /\ t \in Threads /\ v \in Vdevs /\ v \in Objects /\ v \notin Peers
  BY Kinds DEF IInv, Types
<1>3. /\ k.op = "init" /\ k.obj = p /\ k \in Task /\ d.op = "del" /\ d.obj = p /\ d \in Task
      /\ r.op = "rel" /\ r.obj = v /\ r \in Task
  BY <1>2, OneTask DEF Ops
<1>4. h \in Seq(Task) /\ Len(h) = 2 /\ h[1] = k /\ h[2] = r /\ (\A x : Has(h, x) <=> x \in {k, r})
  BY <1>3, TwoTasks, HasFew
<1>5. ASSUME NEW x, NEW ops PROVE Count(h, x, ops) = One(k, x, ops) + One(r, x, ops)
  <2> HIDE DEF k, r
  <2> QED BY <1>3, CountTwo
<1>6. /\ Len(todo[t]) = 2 /\ todo[t][1] = k /\ todo[t][2] = r /\ 1 \in 1..Len(todo[t]) /\ p \in mem
      /\ st[p] = "allocated"
  <2>1. TaskOK(t, k) /\ ShapeOK(vdevOf, t, todo[t], 1) /\ todo[t][1] = k /\ 1 \in 1..Len(todo[t])
    BY <1>1, <1>2, DoingStep
  <2> QED BY <1>3, <2>1 DEF TaskOK, ShapeOK
<1>7. /\ ref \in [Objects -> Nat] /\ mem \subseteq Objects /\ todo[t] \in Seq(Task)
      /\ st \in [Objects -> {"uncounted", "allocated", "created", "deleted"}] /\ todo \in Programs
  BY <1>2, Typed DEF IInv, Types, Programs
<1>8. todo[t] = h /\ Tail(todo[t]) = <<r>>
  BY <1>6, <1>7, SeqTwo
<1>9. v \in mem /\ ~Named("attach", p) /\ ~Named("attach", v)
  <2>1. 2 \in 1..Len(todo[t])
    BY <1>6
  <2>2. TaskOK(t, r)
    BY <1>2, <1>6, <2>1, TaskFacts
  <2>3. ~Named("attach", p)
    BY <1>2, <1>3, <1>6, NotAttaching
  <2> QED BY <1>2, <1>3, <2>2, <2>3, Attaching DEF TaskOK
<1> HIDE DEF k, d, r, h, t, v
<1>10. ASSUME NEW n \in Seq(Task), todo' = [todo EXCEPT ![t] = n], NEW s \in {"allocated", "created"},
              st' = [st EXCEPT ![p] = s],
              \A i \in 1..Len(n) : n[i] \in {d, r}, \A i, j \in 1..Len(n) : n[i] = d /\ n[j] = d => i = j,
              s = "allocated" => Has(n, d),
              \A x : Count(n, x, Refs(x)) = One(r, x, Refs(x))
       PROVE  IInv'
  <2>1. Step(t, h, m, n) /\ n \o m = n
    BY <1>2, <1>4, <1>8, <1>10, WholeStep
  <2>2. m = <<>>
    OBVIOUS
  <2> HIDE DEF m
  <2>3. st'[p] = s /\ mem' = mem /\ vdevOf' = vdevOf /\ \A x \in Objects : x # p => st'[x] = st[x]
    BY <1>1, <1>2, <1>7, <1>10 DEF birth
  <2>4. ASSUME NEW i \in 1..Len(n)
        PROVE  /\ n[i].op \in StateNew /\ ~Named("attach", n[i].obj) /\ ShapeOK(vdevOf', t, n \o m, i)
               /\ \A g : g = n[i] => TaskOK(t, g)'
    <3>0. \A e \in 1..Len(n) : n[e].op \in {"init", "del"} => n[e] = d
      BY <1>3, <1>10
    <3>1. CASE n[i] = d
      <4>1. \A e \in 1..Len(n) : n[e].op \in {"init", "del"} => e = i
        BY <1>10, <3>0, <3>1
      <4>2. ShapeOK(vdevOf', t, n, i)
        BY <1>2, <1>3, <3>1, <4>1 DEF ShapeOK, ObjectsOf, t
      <4>3. TaskOK(t, d)'
        BY <1>3, <1>6, <2>3 DEF TaskOK
      <4> QED BY <1>3, <1>9, <2>1, <3>1, <4>2, <4>3 DEF StateNew
    <3>2. CASE n[i] = r
      <4>1. ShapeOK(vdevOf', t, n, i)
        <5>1. r.obj \in ObjectsOf(r.op)
          BY <1>2, <1>3 DEF ObjectsOf
        <5> QED BY <1>3, <3>2, <5>1, ShapeFree
      <4>2. \A g : g = r => TaskOK(t, g)'
        BY <1>3, <1>9, <2>3 DEF TaskOK
      <4> QED BY <1>3, <1>9, <2>1, <3>2, <4>1, <4>2 DEF StateNew
    <3> QED BY <1>10, <3>1, <3>2
  <2>5. ShapeLink'
    <3>1. ShapeLink
      BY DEF IInv
    <3> QED BY <1>7, <2>1, <2>2, <2>3, <2>4, <3>1, StepShapeLink
  <2>6. ASSUME NEW u \in Threads, NEW i \in 1..Len(todo[u]), u = t => i > Len(h)
        PROVE  ~(todo[u][i].obj = p /\ todo[u][i].op \in {"attach", "pin", "init", "vcount", "vinit", "del"})
    <3>1. ASSUME todo[u][i].obj = p, todo[u][i].op \in {"attach", "pin", "init", "vcount", "vinit", "del"} PROVE FALSE
      <4>1. u = t
        BY <3>1, StateTasks DEF t
      <4>2. Len(todo[u]) = Len(h)
        BY <1>8, <4>1
      <4>3. i > Len(h) /\ i <= Len(h)
        BY <2>6, <4>1, <4>2
      <4> QED BY <1>4, <4>3
    <3> QED BY <3>1
  <2>7. \A q \in Peers : PinThird(q)'
    <3>1. t \in {Mc} /\ Len(h) >= 1
      BY <1>4 DEF t
    <3>2. \A i \in 1..Len(n) : n[i].op \notin Makers
      BY <2>4 DEF Makers, StateNew
    <3>3. \A op \in Makers : \A x : ~Named(op, x)'
      BY <2>1, <3>1, <3>2, NoMakers
    <3> QED BY <3>3 DEF PinThird, Makers
  <2>8. \A x : Count(h, x, Refs(x)) = One(r, x, Refs(x)) /\ One(r, x, Refs(x)) \in Nat
    <3>1. \A x : One(k, x, Refs(x)) = 0 /\ One(r, x, Refs(x)) \in Nat
      BY <1>3 DEF One, Refs
    <3>2. \A x : Count(h, x, Refs(x)) = One(k, x, Refs(x)) + One(r, x, Refs(x))
      BY <1>5
    <3> QED BY <3>1, <3>2
  <2>9. ASSUME NEW x \in mem
        PROVE  /\ ref'[x] = ref[x] - Count(h, x, Refs(x)) + Count(n, x, Refs(x))
               /\ ref[x] = 0 <=> ref'[x] = 0
    <3>1. ref'[x] = ref[x] /\ ref[x] \in Nat
      BY <1>1, <1>7
    <3> QED BY <1>10, <2>8, <3>1
  <2>10. ref'[p] = ref[p] + Held(s) - Held(st[p]) - Count(h, p, Refs(p)) + Count(n, p, Refs(p))
    <3>1. Held(s) = 1 /\ Held(st[p]) = 1
      BY <1>6 DEF Held
    <3>2. ref'[p] = ref[p] /\ ref[p] \in Nat
      BY <1>1, <1>2, <1>7
    <3> QED BY <1>10, <2>8, <3>1, <3>2
  <2>11. \A i \in 1..Len(h) : h[i].op \in StateOld
    <3>1. \A i \in 1..Len(h) : i = 1 \/ i = 2
      BY <1>4
    <3> QED BY <1>3, <1>4, <3>1 DEF StateOld
  <2>12. \A x \in mem : x # p => \A op \in Births : ~Has(h, T(op, x))
    BY <1>3, <1>4 DEF T, Births
  <2>13. \A i \in 1..Len(n) : ~Named("attach", n[i].obj) /\ (\A g : g = n[i] => TaskOK(t, g)') /\ n[i].op \in StateNew
    BY <2>4
  <2>14. (s = "allocated" => Has(n, T("del", p))) /\ p \in mem
    BY <1>6, <1>10 DEF d
  <2>15. UNCHANGED <<mem, pins, birth, lists, vlock, delay>> /\ ref' \in [Objects -> Nat]
         /\ Becomes(p, s)
    BY <1>1, <1>7, <1>10 DEF Becomes
  <2>16. \A u \in Threads : \A i \in 1..Len(todo[u]) : (u = t => i > Len(h)) =>
           ~(todo[u][i].obj = p /\ todo[u][i].op \in {"attach", "pin", "init", "vcount", "vinit", "del"})
    BY <2>6
  <2>17. \A x \in mem : /\ x # p => ref'[x] = ref[x] - Count(h, x, Refs(x)) + Count(n, x, Refs(x))
                        /\ ref[x] = 0 <=> ref'[x] = 0
    BY <2>9
  <2>40. StateChange(t, h, n, p, s)
    BY <2>10, <2>11, <2>12, <2>13, <2>14, <2>15, <2>16, <2>17 DEF StateChange
  <2> QED BY <2>1, <2>5, <2>7, <2>14, <2>15, <2>40, StateStep
<1>11. \A x : One(d, x, Refs(x)) = 0 /\ One(r, x, Refs(x)) \in Nat
  BY <1>3 DEF One, Refs
<1>12. ASSUME st' = [st EXCEPT ![p] = "created"], todo' = [todo EXCEPT ![t] = Tail(@) \o <<>>]
       PROVE  IInv'
  <2> DEFINE n == <<r>>
  <2>1. n \in Seq(Task) /\ Len(n) = 1 /\ n[1] = r /\ \A x, ops : Count(n, x, ops) = One(r, x, ops)
    BY <1>3, CountOne
  <2>2. n \o <<>> = n
    BY <2>1, ConcatEmptySeq
  <2>3. todo' = [todo EXCEPT ![t] = n]
    BY <1>8, <1>12, <2>2
  <2> HIDE DEF n
  <2>4. /\ \A i \in 1..Len(n) : n[i] \in {d, r}
        /\ \A i, j \in 1..Len(n) : n[i] = d /\ n[j] = d => i = j
    BY <1>3, <2>1
  <2> DEFINE s == "created"
  <2>5. s \in {"allocated", "created"} /\ s # "allocated" /\ st' = [st EXCEPT ![p] = s]
    BY <1>12
  <2>6. \A x : Count(n, x, Refs(x)) = One(r, x, Refs(x))
    BY <2>1
  <2> HIDE DEF s
  <2> QED BY <1>10, <2>1, <2>3, <2>4, <2>5, <2>6
<1>13. ASSUME st' = [st EXCEPT ![p] = "created"], todo' = [todo EXCEPT ![t] = Tail(@) \o <<d>>]
       PROVE  IInv'
  <2> DEFINE n == <<r, d>>
  <2>1. n \in Seq(Task) /\ Len(n) = 2 /\ n[1] = r /\ n[2] = d /\ <<r>> \o <<d>> = n
    BY <1>3, TwoTasks
  <2>2. ASSUME NEW x PROVE Count(n, x, Refs(x)) = One(r, x, Refs(x))
    <3>1. Count(n, x, Refs(x)) = One(r, x, Refs(x)) + One(d, x, Refs(x))
      BY <1>3, CountTwo
    <3> HIDE DEF n
    <3> QED BY <1>11, <3>1
  <2>3. todo' = [todo EXCEPT ![t] = n]
    BY <1>8, <1>13, <2>1
  <2> HIDE DEF n
  <2>4. (\A i \in 1..Len(n) : (i = 1 /\ n[i] = r) \/ (i = 2 /\ n[i] = d)) /\ d # r
    BY <1>3, <2>1
  <2> DEFINE s == "created"
  <2>5. s \in {"allocated", "created"} /\ s # "allocated" /\ st' = [st EXCEPT ![p] = s]
    BY <1>13
  <2>6. \A x : Count(n, x, Refs(x)) = One(r, x, Refs(x))
    BY <2>2
  <2>7. /\ \A i \in 1..Len(n) : n[i] \in {d, r}
        /\ \A i, j \in 1..Len(n) : n[i] = d /\ n[j] = d => i = j
    BY <2>4
  <2> HIDE DEF s
  <2> QED BY <1>10, <2>1, <2>3, <2>5, <2>6, <2>7
<1>14. ASSUME Then(t, <<d>>), st' = st
       PROVE  IInv'
  <2> DEFINE n == <<d, r>>
  <2>1. n \in Seq(Task) /\ Len(n) = 2 /\ n[1] = d /\ n[2] = r /\ <<d>> \o <<r>> = n /\ Has(n, d)
    BY <1>3, TwoTasks, HasFew
  <2>2. ASSUME NEW x PROVE Count(n, x, Refs(x)) = One(r, x, Refs(x))
    <3>1. Count(n, x, Refs(x)) = One(d, x, Refs(x)) + One(r, x, Refs(x))
      BY <1>3, CountTwo
    <3> HIDE DEF n
    <3> QED BY <1>11, <3>1
  <2>3. todo' = [todo EXCEPT ![t] = n]
    BY <1>8, <1>14, <2>1 DEF Then
  <2>5. st' = [st EXCEPT ![p] = "allocated"]
    BY <1>2, <1>6, <1>7, <1>14
  <2> HIDE DEF n
  <2>4. (\A i \in 1..Len(n) : (i = 1 /\ n[i] = d) \/ (i = 2 /\ n[i] = r)) /\ d # r
    BY <1>3, <2>1
  <2> QED BY <1>10, <2>1, <2>2, <2>3, <2>4, <2>5
<1> QED BY <1>1, <1>12, <1>13, <1>14

LEMMA PeerCreateIInv ==
  ASSUME IInv, NEW v \in Vdevs, NEW p \in Peers, NEW r \in {"bss", "sta"}, PeerCreate(v, p, r)
  PROVE  IInv'
<1> DEFINE k == T("alloc", p)
           d == T("rel", v)
           h == <<>>
           n == <<k, d>>
           m == <<>>
           t == Mc
<1>1. /\ Idle(t) /\ p \notin mem /\ made.peers < MaxPeers /\ v \in table /\ Usable(v) /\ Get(v)
      /\ role' = [role EXCEPT ![p] = r] /\ vdevOf' = [vdevOf EXCEPT ![p] = v]
      /\ made' = [made EXCEPT !.peers = @ + 1] /\ todo' = [todo EXCEPT ![t] = n]
      /\ UNCHANGED <<mem, st, pins, lists, vlock, delay>>
  BY DEF PeerCreate
<1>2. p \in Objects /\ v \in Objects /\ v \in mem /\ v \notin Peers /\ v # p /\ t \in Threads
  BY <1>1, Kinds DEF IInv, ListLink
<1>3. /\ k.op = "alloc" /\ k.obj = p /\ k \in Task /\ d.op = "rel" /\ d.obj = v /\ d \in Task
  BY <1>2, OneTask DEF Ops
<1>4. n \in Seq(Task) /\ Len(n) = 2 /\ n[1] = k /\ n[2] = d /\ (\A x : Has(n, x) <=> x \in {k, d})
  BY <1>3, TwoTasks, HasFew
<1>5. h \in Seq(Task) /\ (\A i \in 1..Len(h) : FALSE) /\ (\A x, ops : Count(h, x, ops) = 0) /\ \A x : ~Has(h, x)
  <2>1. h \in Seq(Task) /\ \A i \in 1..Len(h) : FALSE
    OBVIOUS
  <2>2. \A x, ops : Count(h, x, ops) = 0
    BY <1>3, CountOne
  <2> QED BY <2>1, <2>2 DEF Has
<1>6. n \o m = n /\ m = <<>>
  BY <1>4, ConcatEmptySeq
<1>7. ASSUME NEW x, NEW ops PROVE Count(n, x, ops) = One(k, x, ops) + One(d, x, ops)
  <2> HIDE DEF k, d
  <2> QED BY <1>3, CountTwo
<1> HIDE DEF k, d, n, t
<1>8. Step(t, h, m, n)
  BY <1>1, <1>2, <1>4, IdleStep
<1> HIDE DEF h, m
<1>9. /\ todo \in Programs /\ todo' \in Programs /\ mem \subseteq Objects
      /\ ref \in [Objects -> Nat] /\ role \in [Peers -> {"bss", "sta"}] /\ vdevOf \in [Peers -> Vdevs]
      /\ bss \in [Vdevs -> Peers \cup {NULL}]
  BY <1>8, Typed, StepPlaces DEF IInv, Types
<1>10. /\ \A u \in Threads : \A i \in 1..Len(todo[u]) : todo[u][i].obj # p
       /\ pins[p] = NULL /\ \A w \in Vdevs : p \notin ToSet(vdevPeers[w])
  <2>1. ASSUME NEW u \in Threads, NEW i \in 1..Len(todo[u]), todo[u][i].obj = p PROVE FALSE
    <3>1. todo[u][i].op \in {"alloc", "valloc"} /\ p \in ObjectsOf(todo[u][i].op)
      BY <1>1, <1>2, <2>1, Unborn, TaskFacts
    <3>2. todo[u][i].op = "alloc"
      BY <3>1, Kinds DEF ObjectsOf
    <3>3. u = Mc
      BY <3>2, MakerFirst DEF Makers
    <3>4. todo[u] = <<>>
      BY <1>1, <3>3 DEF Idle, t
    <3> QED BY <3>4
  <2>2. pins[p] = NULL
    BY <1>1 DEF IInv, PinLink
  <2> QED BY <1>1, <1>2, <2>1, <2>2, Unborn
<1>11. /\ mem' = mem /\ st' = st /\ pins' = pins /\ table' = table /\ psocPeers' = psocPeers
       /\ vdevPeers' = vdevPeers /\ bss' = bss /\ vlock' = vlock /\ freeList' = freeList /\ work' = work
  BY <1>1 DEF lists, delay
<1>12. /\ role'[p] = r /\ vdevOf'[p] = v /\ \A q \in Peers : q # p => role'[q] = role[q] /\ vdevOf'[q] = vdevOf[q]
       /\ ref'[v] = ref[v] + 1 /\ ref[v] \in Nat /\ ref[v] # 0
       /\ \A o \in Objects : o # v => ref'[o] = ref[o]
  BY <1>1, <1>2, <1>9, Counted DEF Get, Usable
<1>13. Types'
  <2>1. todo' \in [Threads -> Seq([op : Ops, obj : Objects \cup {NULL}])]
    BY <1>9 DEF Programs, Task
  <2>2. role' \in [Peers -> {"bss", "sta"}] /\ vdevOf' \in [Peers -> Vdevs] /\ ref' \in [Objects -> Nat]
    BY <1>1, <1>2, <1>9 DEF Get
  <2>3. made' \in [peers : 0..MaxPeers, vdevs : 0..MaxVdevs]
    <3>1. made \in [peers : 0..MaxPeers, vdevs : 0..MaxVdevs] /\ MaxPeers \in Nat
      BY ObjectsAssumption DEF IInv, Types, ObjectsAssumption
    <3> QED BY <1>1, <3>1
  <2> QED BY ZenonT(40), <1>11, <2>1, <2>2, <2>3 DEF IInv, Types
<1>14. ASSUME NEW i \in 1..Len(n)
       PROVE  /\ (n[i] = k \/ n[i] = d) /\ n[i].op \notin {"attach", "destroy", "detach"}
              /\ ShapeOK(vdevOf', t, n \o m, i) /\ ~Named("attach", n[i].obj)
              /\ \A g : g = n[i] => TaskOK(t, g)'
  <2>1. CASE i = 1
    <3>1. n[i] = k /\ ShapeOK(vdevOf', t, n, i)
      BY <1>3, <1>4, <1>12, <2>1 DEF ShapeOK, ObjectsOf, t, d
    <3>2. TaskOK(t, k)'
      BY <1>1, <1>3, <1>11 DEF TaskOK
    <3>3. ~Named("attach", p)
      BY <1>1, Attaching
    <3> QED BY <1>3, <1>6, <3>1, <3>2, <3>3
  <2>2. CASE i = 2
    <3>1. n[i] = d /\ ShapeOK(vdevOf', t, n, i)
      BY <1>2, <1>3, <1>4, <2>2 DEF ShapeOK, ObjectsOf
    <3>2. TaskOK(t, d)'
      BY <1>2, <1>3, <1>11 DEF TaskOK
    <3>3. ~Named("attach", v)
      BY <1>2, Attaching
    <3> QED BY <1>3, <1>6, <3>1, <3>2, <3>3
  <2> QED BY <1>4, <2>1, <2>2
<1>15. ShapeLink'
  <2>1. ShapeLink
    BY DEF IInv
  <2>2. \A u \in Threads : \A i \in 1..Len(todo[u]) :
          todo[u][i].obj \in Peers => vdevOf'[todo[u][i].obj] = vdevOf[todo[u][i].obj]
    BY <1>10, <1>12
  <2>3. \A i \in 1..Len(n) : ShapeOK(vdevOf', t, n \o m, i)
    BY <1>14
  <2> QED BY <1>6, <1>8, <1>9, <2>1, <2>2, <2>3, StepShapeLink
<1>16. TaskLink'
  <2>1. ASSUME NEW u \in Threads, NEW i \in 1..Len(todo[u]), NEW g, g = todo[u][i], TaskOK(u, g)
        PROVE  TaskOK(u, g)'
    <3>1. g.obj # p /\ g.obj \in ObjectsOf(g.op)
      BY <1>10, <2>1, TaskFacts
    <3>2. g.op = "visit" => g.obj \in Peers /\ vdevOf'[g.obj] = vdevOf[g.obj]
      BY <1>12, <3>1 DEF ObjectsOf
    <3> QED BY <1>11, <2>1, <3>2 DEF TaskOK, Linked
  <2>2. TaskLink
    BY DEF IInv
  <2>3. \A u \in Threads : \A i \in 1..Len(todo[u]) : (u = t => i > Len(h)) =>
          \A g : g = todo[u][i] /\ TaskOK(u, g) => TaskOK(u, g)'
    BY <2>1
  <2>4. \A i \in 1..Len(n) : \A g : g = n[i] => TaskOK(t, g)'
    BY <1>14
  <2> QED BY <1>8, <1>9, <2>2, <2>3, <2>4, StepTaskLink
<1>17. AloneLink'
  <2>1. \A i \in 1..Len(n) : n[i].op # "attach" /\ ~Named("attach", n[i].obj)
    BY <1>3, <1>14
  <2> QED BY <1>8, <2>1, StepAloneLink
<1>18. ListLink'
  <2>1. ASSUME NEW w \in Vdevs, NEW q \in ToSet(vdevPeers[w])
        PROVE  q \in Peers /\ q # p /\ q \in mem /\ w \in mem /\ vdevOf'[q] = w
    <3>1. q \in mem /\ w \in mem /\ vdevOf[q] = w /\ q # p
      BY <1>10, <2>1 DEF IInv, ListLink
    <3>2. q \in Peers
      BY <2>1, Typed DEF ToSet
    <3> QED BY <1>12, <3>1, <3>2
  <2>2. ASSUME NEW w \in Vdevs, bss[w] # NULL
        PROVE  bss[w] \in ToSet(vdevPeers[w]) /\ role'[bss[w]] = "bss"
    BY <1>12, <2>1, <2>2 DEF IInv, ListLink
  <2> QED BY <1>11, <2>1, <2>2 DEF IInv, ListLink
<1>19. StageLink'
  <2>1. ASSUME NEW q \in mem' \cap Peers
        PROVE  /\ q \in mem /\ (Linked(q)' <=> Linked(q))
               /\ \A op \in {"attach", "free", "detach"} : ~Has(h, T(op, q)) /\ ~Has(n, T(op, q))
    <3>1. q \in mem /\ q # p /\ vdevOf'[q] = vdevOf[q]
      BY <1>1, <1>11, <1>12
    <3>2. \A op \in {"attach", "free", "detach"} : ~Has(h, T(op, q)) /\ ~Has(n, T(op, q))
      BY <1>3, <1>4, <1>5 DEF T
    <3> QED BY <1>11, <3>1, <3>2 DEF Linked
  <2> QED BY <1>8, <2>1, StepStageLink
<1>20. PinLink'
  <2>1. \A q \in mem' \cap Peers : q \in mem /\ role'[q] = role[q] /\ vdevOf'[q] = vdevOf[q]
    BY <1>1, <1>11, <1>12
  <2>2. \A q \in Peers : pins[q] # NULL => q \in mem'
    BY <1>11 DEF IInv, PinLink
  <2>3. \A q \in mem' \cap Peers : \A op \in {"attach", "pin", "free"} : ~Has(h, T(op, q)) /\ ~Has(n, T(op, q))
    BY <1>3, <1>4, <1>5 DEF T
  <2>4. ASSUME NEW q \in Peers, NEW op \in Makers, Named(op, q)'
        PROVE  IF role'[q] = "sta"
               THEN bss'[vdevOf'[q]] # NULL /\ st'[bss'[vdevOf'[q]]] = "created"
               ELSE op # "pin"
    <3>1. CASE q = p
      <4>1. r = "sta" => bss[v] # NULL /\ Usable(bss[v])
        BY DEF PeerCreate
      <4>2. op # "pin"
        <5>1. ~Named("pin", p)
          BY <1>10 DEF Named, T
        <5>2. ~Has(n, T("pin", p))
          BY <1>3, <1>4 DEF T
        <5> QED BY <1>8, <1>9, <2>4, <3>1, <5>1, <5>2, StepNamed
      <4> QED BY <1>11, <1>12, <3>1, <4>1, <4>2 DEF Usable
    <3>2. CASE q # p
      <4>1. ~Has(n, T(op, q))
        BY <1>3, <1>4, <3>2 DEF T, Makers
      <4>2. Named(op, q)
        BY <1>8, <1>9, <2>4, <4>1, StepNamed
      <4>3. PICK u \in Threads : \E i \in 1..Len(todo[u]) : todo[u][i] = T(op, q)
        BY <4>2 DEF Named
      <4>4. PICK i \in 1..Len(todo[u]) : todo[u][i] = T(op, q)
        BY <4>3
      <4>5. u = Mc
        BY <4>4, MakerFirst DEF T
      <4>6. todo[u] = <<>>
        BY <1>1, <4>5 DEF Idle, t
      <4> QED BY <4>6
    <3> QED BY <3>1, <3>2
  <2>5. \A q \in Peers : PinThird(q)'
    BY <2>4 DEF PinThird, Makers, Usable
  <2> QED BY <1>8, <1>11, <2>1, <2>2, <2>3, <2>5, StepPinLink
<1>21. \A x : /\ Count(h, x, Refs(x)) = 0 /\ Count(n, x, Refs(x)) = IF x = v THEN 1 ELSE 0
              /\ Count(h, x, Ends) = 0 /\ Count(n, x, Ends) = 0
  BY <1>3, <1>5, <1>7 DEF One, Refs, Ends
<1>22. RefLink'
  <2>1. \A o \in mem' : o \in mem /\ ref'[o] = ref[o] - Count(h, o, Refs(o)) + Count(n, o, Refs(o))
    <3> SUFFICES ASSUME NEW o \in mem
                 PROVE  ref'[o] = ref[o] - Count(h, o, Refs(o)) + Count(n, o, Refs(o))
      BY <1>11
    <3>1. ref[o] \in Nat /\ ref'[o] = ref[o] + IF o = v THEN 1 ELSE 0
      BY <1>9, <1>12
    <3> QED BY <1>21, <3>1
  <2> QED BY <1>8, <1>11, <2>1, StepRefLink
<1>23. EndLink'
  <2>1. \A o \in mem' : o \in mem /\ Count(h, o, Ends) = Count(n, o, Ends) /\ (ref'[o] = 0 <=> ref[o] = 0)
    BY <1>9, <1>11, <1>12, <1>21
  <2> QED BY <1>8, <1>11, <2>1, StepEndLink
<1>24. LockLink'
  <2>1. \A i \in 1..Len(n) : n[i].op \notin {"destroy", "detach"}
    BY <1>3, <1>14
  <2> QED BY <1>8, <1>11, <2>1, StepLockLink
<1>25. WorkLink'
  <2>1. \A i \in 1..Len(h) : h[i].op \notin {"sched", "pop"}
    BY <1>5
  <2> QED BY <1>1, <1>8, <2>1, StepWorkLink
<1>26. BornLink'
  <2>1. \A o \in mem' : Unfinished(st'[o]) => o \in mem /\ Unfinished(st[o]) /\ \A op \in Births : ~Has(h, T(op, o))
    BY <1>5, <1>11
  <2> QED BY <1>8, <2>1, StepBornLink
<1> QED BY <1>13, <1>15, <1>16, <1>17, <1>18, <1>19, <1>20, <1>22, <1>23, <1>24, <1>25, <1>26 DEF IInv

LEMMA PeerAllocatedIInv ==
  ASSUME IInv, NEW p \in Peers, Doing(Mc, T("alloc", p)), Then(Mc, <<T("attach", p)>>),
         mem' = mem \cup {p}, st' = [st EXCEPT ![p] = "allocated"], ref' = [ref EXCEPT ![p] = 1],
         psocPeers' = Append(psocPeers, p),
         UNCHANGED <<pins, birth, table, vdevPeers, bss, vlock, delay>>
  PROVE  IInv'
<1> DEFINE k == T("alloc", p)
           d == T("attach", p)
           h == <<k>>
           n == <<d>>
           t == Mc
           m == Tail(todo[t])
<1>1. Doing(t, k) /\ Then(t, n)
  OBVIOUS
<1>2. p \in Objects /\ p \notin Vdevs /\ t \in Threads
  BY Kinds
<1>3. k.op = "alloc" /\ k.obj = p /\ k \in Task /\ d.op = "attach" /\ d.obj = p /\ d \in Task
  BY <1>2, OneTask DEF Ops
<1>4. h \in Seq(Task) /\ Len(h) = 1 /\ h[1] = k /\ n \in Seq(Task) /\ Len(n) = 1 /\ n[1] = d
  BY <1>3, CountOne
<1>5. /\ \A x, ops : Count(h, x, ops) = One(k, x, ops) /\ Count(n, x, ops) = One(d, x, ops)
      /\ \A x : (Has(h, x) <=> x = k) /\ (Has(n, x) <=> x = d)
  BY <1>3, CountOne, HasFew
<1>6. /\ Len(todo[t]) = 2 /\ todo[t][2] = T("rel", vdevOf[p]) /\ p \notin mem /\ todo[t][1] = k
      /\ 1 \in 1..Len(todo[t])
  <2>1. TaskOK(t, k) /\ ShapeOK(vdevOf, t, todo[t], 1) /\ todo[t][1] = k /\ 1 \in 1..Len(todo[t])
    BY <1>1, <1>2, DoingStep
  <2> QED BY <1>3, <2>1 DEF TaskOK, ShapeOK
<1> HIDE DEF k, d, h, n, t
<1>7. Step(t, h, m, n)
  BY <1>1, <1>2, <1>4, DoingStep DEF h
<1> HIDE DEF m
<1>9. /\ todo \in Programs /\ todo' \in Programs /\ mem \subseteq Objects
      /\ st \in [Objects -> {"uncounted", "allocated", "created", "deleted"}] /\ ref \in [Objects -> Nat]
      /\ psocPeers \in Seq(Peers) /\ IsInjective(psocPeers)
  BY <1>7, Typed, StepPlaces DEF IInv, Types
<1>8. Len(n \o m) = 2 /\ (n \o m)[1] = d /\ (n \o m)[2] = T("rel", vdevOf[p])
  <2>1. /\ Len(n) \in Nat /\ Len(m) \in Nat /\ Len(todo[t]) = Len(h) + Len(m) /\ Len(todo'[t]) = Len(n) + Len(m)
        /\ \A i \in 1..Len(n) : todo'[t][i] = n[i]
        /\ \A i \in 1..Len(m) : todo[t][Len(h) + i] = m[i] /\ todo'[t][Len(n) + i] = m[i]
        /\ todo'[t] = n \o m
    BY SMTT(30), <1>7, <1>9, StepPlaces
  <2>2. Len(m) = 1 /\ Len(todo'[t]) = 2
    BY SMTT(30), <1>4, <1>6, <2>1
  <2>3. todo[t][2] = m[1] /\ todo'[t][2] = m[1] /\ todo'[t][1] = n[1]
    BY <1>4, <2>1, <2>2
  <2> QED BY <1>4, <1>6, <2>1, <2>2, <2>3
<1>10. ASSUME NEW u \in Threads, NEW i \in 1..Len(todo[u]), todo[u][i].obj = p
       PROVE  u = t /\ i = 1
  <2>1. todo[u][i].op \in {"alloc", "valloc"} /\ p \in ObjectsOf(todo[u][i].op)
    BY <1>2, <1>6, <1>10, Unborn, TaskFacts
  <2>2. todo[u][i].op = "alloc"
    BY <1>2, <2>1, Kinds DEF ObjectsOf
  <2> QED BY <2>2, MakerFirst DEF Makers, t
<1>11. /\ p \notin ToSet(freeList) /\ p \notin ToSet(psocPeers) /\ (\A q \in Peers : pins[q] # p)
       /\ \A v \in Vdevs : p \notin ToSet(vdevPeers[v])
  BY <1>2, <1>6, Unborn
<1>12. /\ table' = table /\ bss' = bss /\ pins' = pins /\ role' = role /\ vdevOf' = vdevOf /\ vlock' = vlock
       /\ freeList' = freeList /\ work' = work /\ made' = made /\ vdevPeers' = vdevPeers
  BY DEF birth, delay
<1>13. /\ st'[p] = "allocated" /\ ref'[p] = 1
       /\ \A o \in Objects : o # p => st'[o] = st[o] /\ ref'[o] = ref[o]
  BY <1>2, <1>9
<1>14. psocPeers' \in Seq(Peers) /\ IsInjective(psocPeers') /\ ToSet(psocPeers') = ToSet(psocPeers) \cup {p}
  BY <1>9, <1>11, AppendList
<1>15. Types'
  <2>1. todo' \in [Threads -> Seq([op : Ops, obj : Objects \cup {NULL}])]
    BY <1>9 DEF Programs, Task
  <2>2. mem' \subseteq Objects
    BY <1>2, <1>9
  <2>3. st' \in [Objects -> {"uncounted", "allocated", "created", "deleted"}] /\ ref' \in [Objects -> Nat]
    BY <1>9
  <2>4. Types
    BY DEF IInv
  <2>5. \A list \in {psocPeers', freeList'} \cup {vdevPeers'[v] : v \in Vdevs} : IsInjective(list)
    <3>1. IsInjective(freeList) /\ \A v \in Vdevs : IsInjective(vdevPeers[v])
      BY <2>4 DEF Types
    <3> QED BY <1>12, <1>14, <3>1
  <2>6. psocPeers' \in Seq(Peers)
    BY <1>14
  <2>7. /\ role' \in [Peers -> {"bss", "sta"}] /\ vdevOf' \in [Peers -> Vdevs] /\ pins' \in [Peers -> Peers \cup {NULL}]
        /\ table' \subseteq Vdevs /\ vdevPeers' \in [Vdevs -> Seq(Peers)] /\ bss' \in [Vdevs -> Peers \cup {NULL}]
        /\ vlock' \in [Vdevs -> Threads \cup {NULL}] /\ freeList' \in Seq(Peers) /\ work' \in BOOLEAN
        /\ made' \in [peers : 0..MaxPeers, vdevs : 0..MaxVdevs]
    BY <1>12, <2>4 DEF Types
  <2> QED BY <2>1, <2>2, <2>3, <2>5, <2>6, <2>7 DEF Types
<1>16. ASSUME NEW i \in 1..Len(n) PROVE n[i] = d /\ ShapeOK(vdevOf', t, n \o m, i) /\ TaskOK(t, d)'
  <2>1. i = 1 /\ n[i] = d
    BY <1>4
  <2>2. ShapeOK(vdevOf', t, n \o m, 1)
    BY <1>3, <1>8, <1>12 DEF ShapeOK, ObjectsOf, t
  <2>3. TaskOK(t, d)'
    BY <1>3, <1>13 DEF TaskOK
  <2> QED BY <2>1, <2>2, <2>3
<1>17. ShapeLink'
  <2>1. ShapeLink
    BY DEF IInv
  <2>2. \A i \in 1..Len(n) : n[i].op \notin {"init", "del"}
    BY <1>3, <1>16
  <2>3. \A i \in 1..Len(n) : ShapeOK(vdevOf', t, n \o m, i)
    BY <1>16
  <2>4. Len(h) = 1 /\ h[1].op # "pin"
    BY <1>3, <1>4
  <2> QED BY <1>7, <1>9, <1>12, <2>1, <2>2, <2>3, <2>4, StepShapeLink
<1>18. TaskLink'
  <2>1. ASSUME NEW u \in Threads, NEW i \in 1..Len(todo[u]), u = t => i > Len(h),
               NEW g, g = todo[u][i], TaskOK(u, g)
        PROVE  TaskOK(u, g)'
    <3>1. g.obj # p
      BY <1>4, <1>10, <2>1
    <3>2. g.obj \in Objects \/ g.op \in {"pop", "sched"}
      BY <2>1, TaskFacts, Kinds DEF ObjectsOf
    <3> QED BY <1>12, <1>13, <2>1, <3>1, <3>2 DEF TaskOK, Linked
  <2>2. TaskLink
    BY DEF IInv
  <2>3. \A u \in Threads : \A i \in 1..Len(todo[u]) : (u = t => i > Len(h)) =>
          \A g : g = todo[u][i] /\ TaskOK(u, g) => TaskOK(u, g)'
    BY <2>1
  <2>4. \A i \in 1..Len(n) : \A g : g = n[i] => TaskOK(t, g)'
    BY <1>16
  <2> QED BY SMTT(30), <1>7, <1>9, <2>2, <2>3, <2>4, StepTaskLink
<1>19. ASSUME NEW q \in Peers, q # p, NEW op PROVE Named(op, q)' <=> Named(op, q)
  <2>1. ~Has(h, T(op, q)) /\ ~Has(n, T(op, q))
    BY <1>3, <1>5, <1>19 DEF T
  <2> QED BY <1>7, <1>9, <2>1, SameName
<1>20. AloneLink'
  <2> SUFFICES ASSUME NEW q \in Peers, Named("attach", q)', NEW u \in Threads, NEW j \in 1..Len(todo'[u]),
                      todo'[u][j].obj = q
               PROVE  todo'[u][j].op = "attach"
    BY DEF AloneLink
  <2>1. CASE q # p
    <3>1. Named("attach", q)
      BY <1>19, <2>1
    <3>2. PICK w \in Threads : \E i \in 1..Len(todo[w]) : todo[w][i] = T("attach", q)
      BY <3>1 DEF Named
    <3>3. PICK i \in 1..Len(todo[w]) : todo[w][i] = T("attach", q)
      BY <3>2
    <3>4. w = t /\ i = 1
      BY SMTT(30), <3>3, MakerFirst DEF T, t, Makers
    <3> QED BY <1>3, <1>6, <3>3, <3>4 DEF T
  <2>2. CASE q = p
    <3>1. \/ \E i \in 1..Len(n) : todo'[u][j] = n[i]
          \/ \E i \in 1..Len(todo[u]) : (u = t => i > Len(h)) /\ todo'[u][j] = todo[u][i]
      <4>2. todo \in Programs
        BY <1>9
      <4>1. \A w \in Threads : \A e \in 1..Len(todo'[w]) :
              \/ w = t /\ \E i \in 1..Len(n) : todo'[w][e] = n[i]
              \/ \E i \in 1..Len(todo[w]) : (w = t => i > Len(h)) /\ todo'[w][e] = todo[w][i]
        BY <1>7, <4>2, StepTasks
      <4> QED BY <4>1, Zenon
    <3>2. \A i \in 1..Len(todo[u]) : (u = t => i > Len(h)) => todo[u][i].obj # p
      BY <1>4, <1>10
    <3> QED BY <1>3, <1>16, <2>2, <3>1, <3>2
  <2> QED BY <2>1, <2>2
<1>21. ListLink'
  <2>1. ListLink
    BY DEF IInv
  <2>2. ToSet(psocPeers') = mem' \cap Peers
    BY <1>14, <2>1 DEF ListLink
  <2>3. table' = mem' \cap Vdevs
    BY <1>2, <1>12, <2>1 DEF ListLink
  <2>4. ToSet(freeList') \subseteq mem'
    BY <1>12, <2>1 DEF ListLink
  <2>5. \A v \in Vdevs : \A q \in ToSet(vdevPeers'[v]) : q \in mem' /\ v \in mem' /\ vdevOf'[q] = v
    BY <1>12, <2>1 DEF ListLink
  <2>6. \A v \in Vdevs : bss'[v] # NULL => bss'[v] \in ToSet(vdevPeers'[v]) /\ role'[bss'[v]] = "bss"
    BY <1>12, <2>1 DEF ListLink
  <2> QED BY <2>2, <2>3, <2>4, <2>5, <2>6 DEF ListLink
<1>22. Named("attach", p)'
  BY <1>5, <1>7, <1>9, StepNamed DEF d
<1>23. StageLink'
  <2>1. ASSUME NEW q \in mem' \cap Peers
        PROVE  \/ /\ q \in mem /\ (Linked(q)' <=> Linked(q))
                  /\ \A op \in {"attach", "free", "detach"} : ~Has(h, T(op, q)) /\ ~Has(n, T(op, q))
               \/ Linked(q)' <=> ~Named("attach", q)' /\ (Named("free", q)' => Named("detach", q)')
    <3>1. CASE q = p
      <4>1. ~Linked(q)'
        <5>1. vdevOf[p] \in Vdevs
          BY DEF IInv, Types
        <5> QED BY <1>11, <1>12, <3>1, <5>1 DEF Linked
      <4> QED BY <1>22, <3>1, <4>1
    <3>2. CASE q # p
      <4>1. q \in mem /\ (Linked(q)' <=> Linked(q))
        BY <1>12, <3>2 DEF Linked
      <4>2. \A op \in {"attach", "free", "detach"} : ~Has(h, T(op, q)) /\ ~Has(n, T(op, q))
        BY <1>3, <1>5, <3>2 DEF T
      <4> QED BY <4>1, <4>2
    <3> QED BY <3>1, <3>2
  <2> QED BY <1>7, <2>1, StepStageLink
<1>24. PinLink'
  <2>0. PinLink
    BY DEF IInv
  <2>1. ASSUME NEW q \in Peers, pins'[q] # NULL
        PROVE  /\ q \in mem' /\ role'[q] = "sta" /\ pins'[q] = bss'[vdevOf'[q]]
               /\ \A op \in {"attach", "pin", "free"} : ~Named(op, q)'
    <3>1. /\ q \in mem /\ role[q] = "sta" /\ pins[q] = bss[vdevOf[q]]
          /\ \A op \in {"attach", "pin", "free"} : ~Named(op, q)
      BY <1>12, <2>0, <2>1 DEF PinLink
    <3> QED BY <1>6, <1>12, <1>19, <3>1
  <2>2. ASSUME NEW q \in mem' \cap Peers, role'[q] = "sta", pins'[q] = NULL
        PROVE  \E op \in {"attach", "pin", "free"} : Named(op, q)'
    <3>1. CASE q = p
      BY <1>22, <3>1
    <3>2. CASE q # p
      <4>1. \E op \in {"attach", "pin", "free"} : Named(op, q)
        BY <1>12, <2>0, <2>2, <3>2 DEF PinLink
      <4> QED BY <1>12, <1>19, <3>2, <4>1
    <3> QED BY <3>1, <3>2
  <2>3. ASSUME NEW q \in Peers, NEW op \in Makers, Named(op, q)'
        PROVE  IF role'[q] = "sta"
               THEN bss'[vdevOf'[q]] # NULL /\ st'[bss'[vdevOf'[q]]] = "created"
               ELSE op # "pin"
    <3>1. \E e \in Makers : Named(e, q) /\ (op = "pin" => e = "pin")
      <4>1. CASE q = p
        <5>1. Named("alloc", p)
          BY <1>2, <1>6 DEF Named, k
        <5>2. op # "pin"
          <6>1. ~Named("pin", p)
            <7>1. ASSUME NEW u \in Threads, NEW i \in 1..Len(todo[u]), todo[u][i] = T("pin", p) PROVE FALSE
              <8>1. todo[u][i].obj = p /\ todo[u][i].op = "pin" /\ p \in Objects /\ p \notin mem
                BY <1>2, <1>6, <7>1 DEF T
              <8> QED BY <7>1, <8>1, Unborn
            <7> QED BY <7>1 DEF Named
          <6>2. ~Has(n, T("pin", p))
            BY <1>3, <1>5 DEF T
          <6> QED BY <1>7, <1>9, <2>3, <4>1, <6>1, <6>2, StepNamed
        <5> QED BY <4>1, <5>1, <5>2 DEF Makers
      <4>2. CASE q # p
        BY <1>19, <2>3, <4>2
      <4> QED BY <4>1, <4>2
    <3> DEFINE v == vdevOf[q]
    <3>2. IF role[q] = "sta" THEN bss[v] # NULL /\ Usable(bss[v]) ELSE op # "pin"
      BY <2>0, <3>1 DEF PinLink, Makers
    <3>3. v \in Vdevs /\ (bss[v] # NULL => bss[v] \in ToSet(vdevPeers[v]) /\ bss[v] \in Objects)
      BY Kinds DEF IInv, Types, ListLink
    <3>4. bss[v] # NULL => bss[v] # p
      BY <1>11, <3>3
    <3> QED BY <1>12, <1>13, <3>2, <3>3, <3>4 DEF Usable
  <2>4. \A q \in Peers : \A op \in {"alloc", "attach", "pin"} : Named(op, q)' =>
          IF role'[q] = "sta" THEN bss'[vdevOf'[q]] # NULL /\ st'[bss'[vdevOf'[q]]] = "created" ELSE op # "pin"
    BY <2>3 DEF Makers
  <2> QED BY <2>1, <2>2, <2>4 DEF PinLink, Usable
<1>25. RefLink'
  <2> SUFFICES ASSUME NEW o \in mem' PROVE ref'[o] = Others(o)' + Pending(o, Refs(o))'
    BY DEF RefLink, Refs
  <2>0. \A x : Count(n, x, Refs(x)) = 0 /\ Count(h, x, Refs(x)) = 0
    BY <1>3, <1>5 DEF One, Refs
  <2>1. CASE o = p
    <3>1. Pending(o, Refs(o))' = Count(n, o, Refs(o))
      BY <1>2, <1>6, <1>7, <2>1, BornCount DEF Refs
    <3>2. Others(o)' = 1
      <4>1. Cardinality(Pinners(p)) = 0 /\ Pinners(p)' = Pinners(p)
        BY <1>11, <1>12, PinnersFinite DEF Pinners
      <4> QED BY <1>13, <2>1, <4>1 DEF Others, Creators
    <3> QED BY <1>13, <2>0, <2>1, <3>1, <3>2
  <2>2. CASE o # p
    <3>1. o \in mem /\ o \in Objects
      BY <1>9, <2>2
    <3>2. Others(o)' = Others(o) /\ Others(o) \in Nat
      BY <1>12, <1>13, <2>2, <3>1, Typed DEF Others, Pinners, Creators
    <3>3. ref'[o] = ref[o] /\ ref[o] \in Nat
      BY <1>9, <1>13, <2>2, <3>1
    <3>4. Others(o)' = Others(o) + 0 /\ ref'[o] = ref[o] + 0 - Count(h, o, Refs(o)) + Count(n, o, Refs(o))
      BY <2>0, <3>2, <3>3
    <3> QED BY <1>7, <3>1, <3>4, RefKeep
  <2> QED BY <2>1, <2>2
<1>26. EndLink'
  <2> SUFFICES ASSUME NEW o \in mem' PROVE Pending(o, Ends)' + Cardinality(Waiting(o))' = IF ref'[o] = 0 THEN 1 ELSE 0
    BY DEF EndLink, Ends
  <2>0. Count(h, o, Ends) = 0 /\ Count(n, o, Ends) = 0
    BY <1>3, <1>5 DEF One, Ends
  <2>1. CASE o = p
    <3>1. Pending(o, Ends)' = 0
      BY <1>2, <1>6, <1>7, <2>0, <2>1, BornCount DEF Ends
    <3>2. Cardinality(Waiting(o))' = 0
      <4>1. freeList' \in Seq(Peers) /\ IsInjective(freeList')
        BY <1>15 DEF Types
      <4> QED BY <1>11, <1>12, <2>1, <4>1, WaitingIs
    <3> QED BY <1>13, <2>1, <3>1, <3>2
  <2>2. CASE o # p
    <3>1. o \in mem /\ o \in Objects
      BY <1>9, <2>2
    <3> QED BY <1>7, <1>12, <1>13, <2>0, <2>2, <3>1, EndKeep
  <2> QED BY <2>1, <2>2
<1>27. LockLink'
  BY <1>3, <1>7, <1>12, <1>16, StepLockLink
<1>28. WorkLink'
  BY <1>3, <1>4, <1>7, <1>12, StepWorkLink DEF delay
<1>29. BornLink'
  <2>1. ASSUME NEW o \in mem', Unfinished(st'[o])
        PROVE  \/ \E op \in Births : Has(n, T(op, o))
               \/ o \in mem /\ Unfinished(st[o]) /\ \A op \in Births : ~Has(h, T(op, o))
    <3>1. CASE o = p
      BY <1>5, <3>1 DEF Births, d
    <3>2. CASE o # p
      BY <1>3, <1>5, <1>9, <1>13, <2>1, <3>2 DEF T
    <3> QED BY <3>1, <3>2
  <2> QED BY <1>7, <2>1, StepBornLink
<1> QED BY <1>15, <1>17, <1>18, <1>20, <1>21, <1>23, <1>24, <1>25, <1>26, <1>27, <1>28, <1>29 DEF IInv

\* Where a task after a step comes from.
LEMMA StepOrigin ==
  ASSUME todo \in Programs, NEW t, NEW h, NEW m, NEW n, Step(t, h, m, n)
  PROVE  \A u \in Threads : \A j \in 1..Len(todo'[u]) :
           \/ u = t /\ \E i \in 1..Len(n) : todo'[u][j] = n[i]
           \/ \E i \in 1..Len(todo[u]) : (u = t => i > Len(h)) /\ todo'[u][j] = todo[u][i]
BY StepTasks, SMTT(60)

\* After another task of the scheduler's thread, what is being created is new.
LEMMA MakersNew ==
  ASSUME IInv, NEW t \in {Mc}, NEW h, NEW m, NEW n, Step(t, h, m, n), Len(h) >= 1,
         NEW op \in Makers, NEW o, Named(op, o)'
  PROVE  Has(n, T(op, o))
<1> SUFFICES ASSUME ~Has(n, T(op, o)) PROVE FALSE
  OBVIOUS
<1>0. todo \in Programs /\ Len(h) \in Nat /\ T(op, o).op = op
  BY Typed, LenProperties DEF Step, T
<1>1. PICK u \in Threads : \E j \in 1..Len(todo'[u]) : todo'[u][j] = T(op, o)
  BY DEF Named, T
<1>2. PICK j \in 1..Len(todo'[u]) : todo'[u][j] = T(op, o)
  BY <1>1
<1>3. \/ u = t /\ \E i \in 1..Len(n) : todo'[u][j] = n[i]
      \/ \E i \in 1..Len(todo[u]) : (u = t => i > Len(h)) /\ todo'[u][j] = todo[u][i]
  <2>1. \A w \in Threads : \A e \in 1..Len(todo'[w]) :
           \/ w = t /\ \E i \in 1..Len(n) : todo'[w][e] = n[i]
           \/ \E i \in 1..Len(todo[w]) : (w = t => i > Len(h)) /\ todo'[w][e] = todo[w][i]
    BY <1>0, StepOrigin
  <2> QED BY <2>1, Zenon
<1>4. PICK i \in 1..Len(todo[u]) : (u = t => i > Len(h)) /\ todo[u][i] = T(op, o)
  BY <1>2, <1>3 DEF Has
<1>5. u = Mc /\ i = 1
  BY <1>0, <1>4, MakerFirst
<1> QED BY <1>0, <1>4, <1>5

\* A list without one of its members.
LEMMA WithoutList ==
  ASSUME NEW S, NEW list \in Seq(S), IsInjective(list), NEW p \in ToSet(list)
  PROVE  /\ Without(list, p) \in Seq(S)
         /\ IsInjective(Without(list, p))
         /\ ToSet(Without(list, p)) = ToSet(list) \ {p}
         /\ Len(Without(list, p)) = Len(list) - 1
<1> DEFINE I == {i \in 1..Len(list) : list[i] = p}
           e == Min(I)
<1>1. Len(list) \in Nat /\ DOMAIN list = 1..Len(list)
  BY LenProperties
<1>2. I # {} /\ I \in SUBSET Nat
  BY <1>1 DEF ToSet
<1>3. e \in I
  <2> HIDE DEF I
  <2> QED BY <1>2, LeastOf
<1>4. Without(list, p) = RemoveAt(list, e)
  BY <1>2 DEF Without, SelectInSeq
<1>5. e \in 1..Len(list) /\ list[e] = p
  BY <1>3
<1> HIDE DEF e
<1>6. /\ RemoveAt(list, e) \in Seq(S) /\ IsInjective(RemoveAt(list, e))
      /\ ToSet(RemoveAt(list, e)) = ToSet(list) \ {list[e]} /\ Len(RemoveAt(list, e)) = Len(list) - 1
  BY <1>5, RemoveAtList
<1> QED BY <1>4, <1>5, <1>6

\* A peer that only a list of the psoc still leads to leaves it and its memory.
LEMMA PeerGone ==
  ASSUME IInv, NEW p \in mem \cap Peers, NEW t, NEW k \in Task, NEW m, Step(t, <<k>>, m, <<>>),
         k.obj = p, k.op \in {"attach", "free"},
         \A u \in Threads : \A i \in 1..Len(todo[u]) : todo[u][i].obj = p => u = t /\ i = 1,
         ~Linked(p), p \notin ToSet(freeList), pins[p] = NULL, \A q \in Peers : pins[q] # p,
         psocPeers' = Without(psocPeers, p), mem' = mem \ {p},
         st' \in [Objects -> {"uncounted", "allocated", "created", "deleted"}], ref' \in [Objects -> Nat],
         \A o \in Objects : o # p => st'[o] = st[o] /\ ref'[o] = ref[o],
         UNCHANGED <<pins, birth, table, vdevPeers, bss, vlock, delay>>,
         \A q \in Peers : PinThird(q)'
  PROVE  IInv'
<1> DEFINE h == <<k>>
           n == <<>>
<1>1. h \in Seq(Task) /\ Len(h) = 1 /\ h[1] = k
  BY CountOne
<1>2. /\ \A x, ops : Count(h, x, ops) = One(k, x, ops) /\ Count(n, x, ops) = 0
      /\ \A x : Has(h, x) <=> x = k
      /\ \A i \in 1..Len(n) : FALSE
  BY CountOne, HasFew
<1>3. \A x : ~Has(n, x)
  BY <1>2 DEF Has
<1>4. Step(t, h, m, n)
  OBVIOUS
<1> HIDE DEF h, n
<1>5. /\ todo \in Programs /\ todo' \in Programs /\ mem \subseteq Objects /\ p \notin Vdevs
      /\ psocPeers \in Seq(Peers) /\ IsInjective(psocPeers) /\ p \in ToSet(psocPeers)
  BY <1>4, Typed, StepPlaces, Kinds DEF IInv, Types, ListLink
<1>6. psocPeers' \in Seq(Peers) /\ IsInjective(psocPeers') /\ ToSet(psocPeers') = ToSet(psocPeers) \ {p}
  BY <1>5, WithoutList
<1>7. /\ table' = table /\ bss' = bss /\ pins' = pins /\ role' = role /\ vdevOf' = vdevOf /\ vlock' = vlock
      /\ freeList' = freeList /\ work' = work /\ made' = made /\ vdevPeers' = vdevPeers
  BY DEF birth, delay
<1>8. \A v \in Vdevs : p \notin ToSet(vdevPeers[v])
  BY DEF IInv, ListLink, Linked
<1>9. Types'
  <2>1. todo' \in [Threads -> Seq([op : Ops, obj : Objects \cup {NULL}])]
    BY <1>5 DEF Programs, Task
  <2>2. mem' \subseteq Objects
    BY <1>5
  <2>4. Types
    BY DEF IInv
  <2>5. \A list \in {psocPeers', freeList'} \cup {vdevPeers'[v] : v \in Vdevs} : IsInjective(list)
    <3>1. IsInjective(freeList) /\ \A v \in Vdevs : IsInjective(vdevPeers[v])
      BY <2>4 DEF Types
    <3> QED BY <1>6, <1>7, <3>1
  <2>6. psocPeers' \in Seq(Peers)
    BY <1>6
  <2>7. /\ role' \in [Peers -> {"bss", "sta"}] /\ vdevOf' \in [Peers -> Vdevs] /\ pins' \in [Peers -> Peers \cup {NULL}]
        /\ table' \subseteq Vdevs /\ vdevPeers' \in [Vdevs -> Seq(Peers)] /\ bss' \in [Vdevs -> Peers \cup {NULL}]
        /\ vlock' \in [Vdevs -> Threads \cup {NULL}] /\ freeList' \in Seq(Peers) /\ work' \in BOOLEAN
        /\ made' \in [peers : 0..MaxPeers, vdevs : 0..MaxVdevs]
    BY <1>7, <2>4 DEF Types
  <2> QED BY <2>1, <2>2, <2>5, <2>6, <2>7 DEF Types
<1>10. ShapeLink'
  <2>1. ShapeLink
    BY DEF IInv
  <2>2. Len(h) = 1 /\ h[1].op # "pin"
    BY <1>1
  <2> QED BY <1>2, <1>4, <1>5, <1>7, <2>1, <2>2, StepShapeLink
<1>11. TaskLink'
  <2>1. ASSUME NEW u \in Threads, NEW i \in 1..Len(todo[u]), u = t => i > Len(h),
               NEW g, g = todo[u][i], TaskOK(u, g)
        PROVE  TaskOK(u, g)'
    <3>1. g.obj # p
      BY <1>1, <2>1
    <3>2. g.obj \in Objects \/ g.op \in {"pop", "sched"}
      BY <2>1, TaskFacts, Kinds DEF ObjectsOf
    <3> QED BY <1>7, <2>1, <3>1, <3>2 DEF TaskOK, Linked
  <2>2. TaskLink
    BY DEF IInv
  <2>3. \A u \in Threads : \A i \in 1..Len(todo[u]) : (u = t => i > Len(h)) =>
          \A g : g = todo[u][i] /\ TaskOK(u, g) => TaskOK(u, g)'
    BY <2>1
  <2>4. \A i \in 1..Len(n) : \A g : g = n[i] => TaskOK(t, g)'
    BY <1>2
  <2> QED BY <1>4, <1>5, <2>2, <2>3, <2>4, StepTaskLink
<1>12. AloneLink'
  BY <1>2, <1>4, StepAloneLink
<1>13. ListLink'
  <2>1. ListLink
    BY DEF IInv
  <2>2. ToSet(psocPeers') = mem' \cap Peers
    BY <1>6, <2>1 DEF ListLink
  <2>3. table' = mem' \cap Vdevs
    BY <1>5, <1>7, <2>1 DEF ListLink
  <2>4. ToSet(freeList') \subseteq mem'
    BY <1>7, <2>1 DEF ListLink
  <2>5. \A v \in Vdevs : \A q \in ToSet(vdevPeers'[v]) : q \in mem' /\ v \in mem' /\ vdevOf'[q] = v
    BY <1>5, <1>7, <1>8, <2>1 DEF ListLink
  <2>6. \A v \in Vdevs : bss'[v] # NULL => bss'[v] \in ToSet(vdevPeers'[v]) /\ role'[bss'[v]] = "bss"
    BY <1>7, <2>1 DEF ListLink
  <2> QED BY <2>2, <2>3, <2>4, <2>5, <2>6 DEF ListLink
<1>14. ASSUME NEW q, q # p PROVE \A op : ~Has(h, T(op, q)) /\ ~Has(n, T(op, q))
  BY <1>2, <1>3, <1>14 DEF T
<1>15. StageLink'
  <2>1. ASSUME NEW q \in mem' \cap Peers
        PROVE  /\ q \in mem /\ (Linked(q)' <=> Linked(q))
               /\ \A op \in {"attach", "free", "detach"} : ~Has(h, T(op, q)) /\ ~Has(n, T(op, q))
    BY <1>7, <1>14 DEF Linked
  <2> QED BY <1>4, <2>1, StepStageLink
<1>16. PinLink'
  <2>1. \A q \in mem' \cap Peers : q \in mem /\ role'[q] = role[q] /\ vdevOf'[q] = vdevOf[q]
    BY <1>7
  <2>2. \A q \in Peers : pins[q] # NULL => q \in mem'
    BY DEF IInv, PinLink
  <2>3. \A q \in mem' \cap Peers : \A op \in {"attach", "pin", "free"} : ~Has(h, T(op, q)) /\ ~Has(n, T(op, q))
    BY <1>14
  <2> QED BY <1>4, <1>7, <2>1, <2>2, <2>3, StepPinLink
<1>17. ASSUME NEW o \in mem'
       PROVE  /\ o \in mem /\ o \in Objects /\ o # p /\ ref'[o] = ref[o]
              /\ Count(h, o, Refs(o)) = 0 /\ Count(n, o, Refs(o)) = 0
              /\ Count(h, o, Ends) = 0 /\ Count(n, o, Ends) = 0
  BY <1>2, <1>5, <1>17 DEF One
<1>18. RefLink'
  <2> SUFFICES ASSUME NEW o \in mem' PROVE ref'[o] = Others(o)' + Pending(o, Refs(o))'
    BY DEF RefLink, Refs
  <2>1. Others(o)' = Others(o) /\ Others(o) \in Nat
    BY <1>7, <1>17, Typed DEF Others, Pinners, Creators
  <2>2. ref[o] \in Nat
    BY <1>17, Counted
  <2>3. Others(o)' = Others(o) + 0 /\ ref'[o] = ref[o] + 0 - Count(h, o, Refs(o)) + Count(n, o, Refs(o))
    BY <1>17, <2>1, <2>2
  <2> QED BY <1>4, <1>17, <2>3, RefKeep
<1>19. EndLink'
  <2>1. \A o \in mem' : o \in mem /\ Count(h, o, Ends) = Count(n, o, Ends) /\ (ref'[o] = 0 <=> ref[o] = 0)
    BY <1>17
  <2> QED BY <1>4, <1>7, <2>1, StepEndLink
<1>20. LockLink'
  BY <1>2, <1>4, <1>7, StepLockLink
<1>21. WorkLink'
  <2>1. \A i \in 1..Len(h) : h[i].op \notin {"sched", "pop"}
    BY <1>1
  <2> QED BY <1>4, <2>1, StepWorkLink
<1>22. BornLink'
  <2>1. \A o \in mem' : Unfinished(st'[o]) => o \in mem /\ Unfinished(st[o]) /\ \A op \in Births : ~Has(h, T(op, o))
    BY <1>5, <1>14
  <2> QED BY <1>4, <2>1, StepBornLink
<1> QED BY <1>9, <1>10, <1>11, <1>12, <1>13, <1>15, <1>16, <1>18, <1>19, <1>20, <1>21, <1>22 DEF IInv

LEMMA PeerAttachFailIInv ==
  ASSUME IInv, NEW p \in Peers, Doing(Mc, T("attach", p)),
         psocPeers' = Without(psocPeers, p), mem' = mem \ {p},
         st' = [st EXCEPT ![p] = "deleted"], ref' = [ref EXCEPT ![p] = 0], Then(Mc, <<>>),
         UNCHANGED <<pins, birth, table, vdevPeers, bss, vlock, delay>>
  PROVE  IInv'
<1> DEFINE k == T("attach", p)
           t == Mc
           m == Tail(todo[t])
           n == <<>>
<1>1. Doing(t, k) /\ Then(t, n) /\ n \in Seq(Task) /\ \A i \in 1..Len(n) : FALSE
  OBVIOUS
<1>2. p \in Objects /\ t \in Threads /\ t \in {Mc}
  BY Kinds
<1>3. k.op = "attach" /\ k.obj = p /\ k \in Task /\ <<k>> \in Seq(Task) /\ Len(<<k>>) = 1
  BY <1>2, OneTask DEF Ops
<1>4. 1 \in 1..Len(todo[t]) /\ todo[t][1] = k /\ TaskOK(t, k)
  BY <1>1, <1>2, DoingStep
<1>5. Named("attach", p)
  BY <1>2, <1>4 DEF Named
<1>6. p \in mem \cap Peers /\ ~Linked(p) /\ ref[p] # 0 /\ p \notin ToSet(freeList)
  BY <1>5, Attaching, Ended
<1> HIDE DEF k, t, n
<1>7. Step(t, <<k>>, m, n)
  BY <1>1, <1>2, DoingStep
<1> HIDE DEF m
<1>8. ASSUME NEW u \in Threads, NEW i \in 1..Len(todo[u]), todo[u][i].obj = p PROVE u = t /\ i = 1
  <2>1. todo[u][i].op = "attach"
    BY <1>5, <1>8 DEF IInv, AloneLink
  <2> QED BY <2>1, MakerFirst DEF Makers, t
<1>9. pins[p] = NULL
  BY <1>5 DEF IInv, PinLink
<1>10. ASSUME NEW q \in Peers PROVE pins[q] # p
  <2>1. ASSUME pins[q] = p PROVE FALSE
    <3>1. p = bss[vdevOf[q]] /\ vdevOf[q] \in Vdevs
      BY <1>2, <2>1, Kinds DEF IInv, PinLink, Types
    <3>2. p \in ToSet(vdevPeers[vdevOf[q]])
      BY <1>2, <3>1, Kinds DEF IInv, ListLink
    <3>3. vdevOf[p] = vdevOf[q]
      BY <3>1, <3>2 DEF IInv, ListLink
    <3> QED BY <1>6, <3>2, <3>3 DEF Linked
  <2> QED BY <2>1
<1>11. \A q \in Peers : PinThird(q)'
  <2>1. \A i \in 1..Len(n) : n[i].op \notin Makers
    BY <1>1
  <2>2. \A op \in Makers : \A x : ~Named(op, x)'
    <3> DEFINE h == <<k>>
    <3>1. Step(t, h, m, n) /\ Len(h) >= 1
      BY <1>3, <1>7
    <3> HIDE DEF h
    <3> QED BY <1>2, <2>1, <3>1, NoMakers
  <2> QED BY <2>2 DEF PinThird, Makers
<1>12. /\ st' \in [Objects -> {"uncounted", "allocated", "created", "deleted"}] /\ ref' \in [Objects -> Nat]
       /\ \A o \in Objects : o # p => st'[o] = st[o] /\ ref'[o] = ref[o]
  <2>1. st \in [Objects -> {"uncounted", "allocated", "created", "deleted"}] /\ ref \in [Objects -> Nat]
    BY DEF IInv, Types
  <2> QED BY <2>1
<1>13. \A u \in Threads : \A i \in 1..Len(todo[u]) : todo[u][i].obj = p => u = t /\ i = 1
  BY <1>8
<1>14. Step(t, <<k>>, m, <<>>) /\ k.op \in {"attach", "free"}
  BY <1>3, <1>7 DEF n
<1> QED BY <1>3, <1>6, <1>9, <1>10, <1>11, <1>12, <1>13, <1>14, PeerGone

LEMMA PeerFreeIInv ==
  ASSUME IInv, NEW t \in Threads, NEW p \in Peers, PeerFree(t, p)
  PROVE  IInv'
<1> DEFINE k == T("free", p)
           m == Tail(todo[t])
           n == <<>>
<1>1. /\ Doing(t, k) /\ Then(t, n) /\ psocPeers' = Without(psocPeers, p) /\ mem' = mem \ {p}
      /\ UNCHANGED <<st, ref, pins, birth, table, vdevPeers, bss, vlock, delay>>
  BY DEF PeerFree
<1>2. p \in Objects /\ n \in Seq(Task) /\ \A i \in 1..Len(n) : FALSE
  BY Kinds
<1>3. k.op = "free" /\ k.obj = p /\ k \in Task /\ <<k>> \in Seq(Task) /\ Len(<<k>>) = 1
  BY <1>2, OneTask DEF Ops
<1>4. 1 \in 1..Len(todo[t]) /\ todo[t][1] = k /\ TaskOK(t, k)
  BY <1>1, DoingStep
<1>5. Named("free", p) /\ p \in mem
  BY <1>3, <1>4 DEF Named, TaskOK
<1> HIDE DEF k, n
<1>6. /\ ref[p] = 0 /\ p \notin ToSet(freeList)
      /\ \A u \in Threads : \A j \in 1..Len(todo[u]) : todo[u][j].op \in Ends /\ todo[u][j].obj = p => u = t /\ j = 1
  <2>1. todo[t][1].op \in Ends /\ todo[t][1].obj = p
    BY <1>3, <1>4 DEF Ends
  <2> QED BY <1>4, <1>5, <2>1, Ended
<1>7. /\ st[p] \notin {"allocated", "created"} /\ (\A q \in Peers : pins[q] # p)
      /\ \A u \in Threads : \A i \in 1..Len(todo[u]) : ~(todo[u][i].op \in Refs(p) /\ todo[u][i].obj = p)
  BY <1>5, <1>6, Counted
<1>8. ~Named("detach", p)
  <2>1. ASSUME Named("detach", p) PROVE FALSE
    <3>1. PICK u \in Threads : \E i \in 1..Len(todo[u]) : todo[u][i] = T("detach", p)
      BY <2>1 DEF Named
    <3>2. PICK i \in 1..Len(todo[u]) : todo[u][i] = T("detach", p)
      BY <3>1
    <3>3. i < Len(todo[u]) /\ todo[u][i + 1] = T("free", p)
      <4>1. ShapeOK(vdevOf, u, todo[u], i)
        BY <3>2, TaskFacts
      <4> QED BY <3>2, <4>1 DEF ShapeOK, T
    <3>4. i + 1 \in 1..Len(todo[u]) /\ Len(todo[u]) \in Nat
      BY <3>3, Typed
    <3>5. i + 1 = 1
      BY <1>6, <3>3, <3>4 DEF T, Ends
    <3> QED BY <3>5
  <2> QED BY <2>1
<1>9. ~Linked(p)
  BY <1>5, <1>8 DEF IInv, StageLink
<1>10. ASSUME NEW u \in Threads, NEW i \in 1..Len(todo[u]), todo[u][i].obj = p PROVE u = t /\ i = 1
  <2> DEFINE g == todo[u][i]
  <2>1. TaskOK(u, g) /\ g.obj \in ObjectsOf(g.op) /\ g \in Task
    BY TaskFacts
  <2>2. g.op \notin {"alloc", "attach", "pin", "init", "del", "visit"}
    BY <1>5, <1>7, <1>9, <1>10, <2>1 DEF TaskOK
  <2>3. g.op \notin {"valloc", "vinit", "vend", "unlock", "pop", "sched"}
    BY <1>2, <1>10, <2>1, Kinds DEF ObjectsOf
  <2>4. g.op \notin {"rel", "next"}
    BY <1>7, <1>10 DEF Refs
  <2>5. g.op # "detach"
    <3>1. g = T("detach", p) => FALSE
      BY <1>8 DEF Named
    <3> QED BY <1>10, <2>1, <3>1 DEF T, Task
  <2>6. g.op \in Ends
    BY <2>1, <2>2, <2>3, <2>4, <2>5 DEF Ends, Task, Ops
  <2> QED BY <1>6, <1>10, <2>6
<1>11. Step(t, <<k>>, m, n)
  BY <1>1, <1>2, DoingStep
<1> HIDE DEF m
<1>12. pins[p] = NULL
  BY <1>5 DEF IInv, PinLink
<1>13. \A q \in Peers : PinThird(q)'
  <2>1. UNCHANGED <<role, vdevOf, bss, vdevPeers>> /\ \A b \in Peers : Usable(b) => Usable(b)'
    BY <1>1 DEF birth, Usable
  <2>2. \A i \in 1..Len(n) : n[i].op \notin Makers
    BY <1>2
  <2> QED BY <1>11, <2>1, <2>2, ThirdKeep
<1>14. /\ st' \in [Objects -> {"uncounted", "allocated", "created", "deleted"}] /\ ref' \in [Objects -> Nat]
       /\ \A o \in Objects : o # p => st'[o] = st[o] /\ ref'[o] = ref[o]
  BY <1>1 DEF IInv, Types
<1>15. \A u \in Threads : \A i \in 1..Len(todo[u]) : todo[u][i].obj = p => u = t /\ i = 1
  BY <1>10
<1>16. Step(t, <<k>>, m, <<>>) /\ k.op \in {"attach", "free"} /\ p \in mem \cap Peers
  BY <1>3, <1>5, <1>11 DEF n
<1>17. UNCHANGED <<pins, birth, table, vdevPeers, bss, vlock, delay>> /\ psocPeers' = Without(psocPeers, p) /\ mem' = mem \ {p}
  BY <1>1
<1> QED BY <1>3, <1>6, <1>7, <1>9, <1>12, <1>13, <1>14, <1>15, <1>16, <1>17, PeerGone

LEMMA VdevFreeIInv ==
  ASSUME IInv, NEW t \in Threads, NEW v \in Vdevs, VdevFree(t, v)
  PROVE  IInv'
<1> DEFINE k == T("free", v)
           h == <<k>>
           m == Tail(todo[t])
           n == <<>>
<1>1. /\ Doing(t, k) /\ Then(t, n) /\ table' = table \ {v} /\ mem' = mem \ {v}
      /\ UNCHANGED <<st, ref, pins, birth, psocPeers, vdevPeers, bss, vlock, delay>>
  BY DEF VdevFree
<1>2. v \in Objects /\ v \notin Peers /\ n \in Seq(Task) /\ \A i \in 1..Len(n) : FALSE
  BY Kinds
<1>3. k.op = "free" /\ k.obj = v /\ k \in Task /\ h \in Seq(Task) /\ Len(h) = 1 /\ h[1] = k
  BY <1>2, OneTask DEF Ops
<1>4. /\ \A x, ops : Count(h, x, ops) = One(k, x, ops) /\ Count(n, x, ops) = 0
      /\ \A x : Has(h, x) <=> x = k
  BY <1>3, CountOne, HasFew
<1>5. \A x : ~Has(n, x)
  BY <1>2 DEF Has
<1>6. 1 \in 1..Len(todo[t]) /\ todo[t][1] = k /\ TaskOK(t, k) /\ v \in mem
  <2>1. 1 \in 1..Len(todo[t]) /\ todo[t][1] = k /\ TaskOK(t, k)
    BY <1>1, DoingStep
  <2> QED BY <1>3, <2>1 DEF TaskOK
<1> HIDE DEF k, h, n
<1>7. Step(t, h, m, n)
  BY <1>1, <1>2, DoingStep DEF h
<1> HIDE DEF m
<1>8. /\ ref[v] = 0 /\ v \notin ToSet(freeList)
      /\ \A u \in Threads : \A j \in 1..Len(todo[u]) : todo[u][j].op \in Ends /\ todo[u][j].obj = v => u = t /\ j = 1
  <2>1. todo[t][1].op \in Ends /\ todo[t][1].obj = v
    BY <1>3, <1>6 DEF Ends
  <2> QED BY <1>6, <2>1, Ended
<1>9. /\ st[v] \notin {"allocated", "created"} /\ vdevPeers[v] = <<>>
      /\ \A u \in Threads : \A i \in 1..Len(todo[u]) : ~(todo[u][i].op \in Refs(v) /\ todo[u][i].obj = v)
  BY <1>6, <1>8, Counted
<1>10. ASSUME NEW u \in Threads, NEW i \in 1..Len(todo[u]), todo[u][i].obj = v PROVE u = t /\ i = 1
  <2> DEFINE g == todo[u][i]
  <2>1. TaskOK(u, g) /\ g.obj \in ObjectsOf(g.op) /\ g \in Task /\ ShapeOK(vdevOf, u, todo[u], i)
    BY TaskFacts
  <2>2. g.op \notin {"valloc", "vinit", "del"}
    BY <1>6, <1>9, <1>10, <2>1 DEF TaskOK
  <2>3. g.op \notin {"alloc", "attach", "pin", "init", "next", "visit", "detach", "pop", "sched"}
    BY <1>2, <1>10, <2>1, Kinds DEF ObjectsOf
  <2>4. g.op \notin {"rel", "vend"}
    BY <1>2, <1>9, <1>10 DEF Refs
  <2>5. g.op # "unlock"
    <3>1. ASSUME g.op = "unlock" PROVE FALSE
      <4>1. Len(todo[u]) = i + 1 /\ todo[u][i + 1] = T("rel", v)
        BY <1>10, <2>1, <3>1 DEF ShapeOK
      <4>2. i + 1 \in 1..Len(todo[u])
        BY <4>1
      <4>3. T("rel", v).op \in Refs(v) /\ T("rel", v).obj = v
        BY <1>2 DEF T, Refs
      <4> QED BY <1>9, <4>1, <4>2, <4>3
    <3> QED BY <3>1
  <2>6. g.op \in Ends
    BY <2>1, <2>2, <2>3, <2>4, <2>5 DEF Ends, Task, Ops
  <2> QED BY <1>8, <1>10, <2>6
<1>11. /\ todo \in Programs /\ todo' \in Programs /\ mem \subseteq Objects
  BY <1>7, Typed, StepPlaces DEF IInv, Types
<1>12. /\ psocPeers' = psocPeers /\ bss' = bss /\ pins' = pins /\ role' = role /\ vdevOf' = vdevOf /\ vlock' = vlock
       /\ freeList' = freeList /\ work' = work /\ made' = made /\ vdevPeers' = vdevPeers /\ st' = st /\ ref' = ref
  BY <1>1 DEF birth, delay
<1>13. Types'
  <2>1. todo' \in [Threads -> Seq([op : Ops, obj : Objects \cup {NULL}])]
    BY <1>11 DEF Programs, Task
  <2>2. mem' \subseteq Objects
    BY <1>1, <1>11
  <2>3. Types
    BY DEF IInv
  <2>4. table' \subseteq Vdevs
    BY <1>1, <2>3 DEF Types
  <2> QED BY <1>12, <2>1, <2>2, <2>3, <2>4 DEF Types
<1>14. ShapeLink'
  <2>1. ShapeLink
    BY DEF IInv
  <2>2. Len(h) = 1 /\ h[1].op # "pin"
    BY <1>3
  <2> QED BY <1>2, <1>7, <1>11, <1>12, <2>1, <2>2, StepShapeLink
<1>15. TaskLink'
  <2>1. ASSUME NEW u \in Threads, NEW i \in 1..Len(todo[u]), u = t => i > Len(h),
               NEW g, g = todo[u][i], TaskOK(u, g)
        PROVE  TaskOK(u, g)'
    <3>1. g.obj # v
      BY <1>3, <1>10, <2>1
    <3> QED BY <1>1, <1>12, <2>1, <3>1 DEF TaskOK, Linked
  <2>2. TaskLink
    BY DEF IInv
  <2>3. \A u \in Threads : \A i \in 1..Len(todo[u]) : (u = t => i > Len(h)) =>
          \A g : g = todo[u][i] /\ TaskOK(u, g) => TaskOK(u, g)'
    BY <2>1
  <2>4. \A i \in 1..Len(n) : \A g : g = n[i] => TaskOK(t, g)'
    BY <1>2
  <2> QED BY <1>7, <1>11, <2>2, <2>3, <2>4, StepTaskLink
<1>16. AloneLink'
  BY <1>2, <1>7, StepAloneLink
<1>17. ListLink'
  <2>1. ListLink
    BY DEF IInv
  <2>2. ToSet(psocPeers') = mem' \cap Peers
    BY <1>1, <1>2, <1>12, <2>1 DEF ListLink
  <2>3. table' = mem' \cap Vdevs
    BY <1>1, <2>1 DEF ListLink
  <2>4. ToSet(freeList') \subseteq mem'
    BY <1>1, <1>8, <1>12, <2>1 DEF ListLink
  <2>5. ASSUME NEW w \in Vdevs, NEW q \in ToSet(vdevPeers'[w]) PROVE q \in mem' /\ w \in mem' /\ vdevOf'[q] = w
    <3>1. q \in mem /\ w \in mem /\ vdevOf[q] = w /\ q \in Peers
      BY <1>12, <2>1, <2>5, Typed DEF ListLink, ToSet
    <3>2. w # v
      <4>1. ToSet(vdevPeers[v]) = {}
        BY <1>9 DEF ToSet
      <4> QED BY <1>12, <2>5, <4>1
    <3> QED BY <1>1, <1>2, <1>12, <3>1, <3>2
  <2>6. \A w \in Vdevs : bss'[w] # NULL => bss'[w] \in ToSet(vdevPeers'[w]) /\ role'[bss'[w]] = "bss"
    BY <1>12, <2>1 DEF ListLink
  <2> QED BY <2>2, <2>3, <2>4, <2>5, <2>6 DEF ListLink
<1>18. ASSUME NEW q, q # v PROVE \A op : ~Has(h, T(op, q)) /\ ~Has(n, T(op, q))
  BY <1>3, <1>4, <1>5, <1>18 DEF T
<1>19. StageLink'
  <2>1. ASSUME NEW q \in mem' \cap Peers
        PROVE  /\ q \in mem /\ (Linked(q)' <=> Linked(q))
               /\ \A op \in {"attach", "free", "detach"} : ~Has(h, T(op, q)) /\ ~Has(n, T(op, q))
    BY <1>1, <1>2, <1>12, <1>18 DEF Linked
  <2> QED BY <1>7, <2>1, StepStageLink
<1>20. PinLink'
  <2>1. \A q \in mem' \cap Peers : q \in mem /\ role'[q] = role[q] /\ vdevOf'[q] = vdevOf[q]
    BY <1>1, <1>12
  <2>2. \A q \in Peers : pins[q] # NULL => q \in mem'
    BY <1>1, <1>2 DEF IInv, PinLink
  <2>3. \A q \in mem' \cap Peers : \A op \in {"attach", "pin", "free"} : ~Has(h, T(op, q)) /\ ~Has(n, T(op, q))
    BY <1>2, <1>18
  <2>4. \A q \in Peers : PinThird(q)'
    <3>1. UNCHANGED <<role, vdevOf, bss, vdevPeers>> /\ \A b \in Peers : Usable(b) => Usable(b)'
      BY <1>12 DEF Usable
    <3>2. \A i \in 1..Len(n) : n[i].op \notin Makers
      BY <1>2
    <3> QED BY <1>7, <3>1, <3>2, ThirdKeep
  <2> QED BY <1>7, <1>12, <2>1, <2>2, <2>3, <2>4, StepPinLink
<1>21. ASSUME NEW o \in mem'
       PROVE  /\ o \in mem /\ o \in Objects /\ o # v /\ ref'[o] = ref[o]
              /\ Count(h, o, Refs(o)) = 0 /\ Count(n, o, Refs(o)) = 0
              /\ Count(h, o, Ends) = 0 /\ Count(n, o, Ends) = 0
  BY <1>1, <1>3, <1>4, <1>11, <1>12, <1>21 DEF One
<1>22. RefLink'
  <2>1. \A o \in mem' : o \in mem /\ ref'[o] = ref[o] - Count(h, o, Refs(o)) + Count(n, o, Refs(o))
    <3> SUFFICES ASSUME NEW o \in mem' PROVE ref'[o] = ref[o] - Count(h, o, Refs(o)) + Count(n, o, Refs(o)) /\ o \in mem
      OBVIOUS
    <3>1. ref[o] \in Nat
      BY <1>21, Counted
    <3> QED BY <1>21, <3>1
  <2> QED BY <1>7, <1>12, <2>1, StepRefLink
<1>23. EndLink'
  <2>1. \A o \in mem' : o \in mem /\ Count(h, o, Ends) = Count(n, o, Ends) /\ (ref'[o] = 0 <=> ref[o] = 0)
    BY <1>21
  <2> QED BY <1>7, <1>12, <2>1, StepEndLink
<1>24. LockLink'
  BY <1>2, <1>7, <1>12, StepLockLink
<1>25. WorkLink'
  <2>1. \A i \in 1..Len(h) : h[i].op \notin {"sched", "pop"}
    BY <1>3
  <2> QED BY <1>1, <1>7, <2>1, StepWorkLink
<1>26. BornLink'
  <2>1. \A o \in mem' : Unfinished(st'[o]) => o \in mem /\ Unfinished(st[o]) /\ \A op \in Births : ~Has(h, T(op, o))
    BY <1>12, <1>18, <1>21
  <2> QED BY <1>7, <2>1, StepBornLink
<1> QED BY <1>13, <1>14, <1>15, <1>16, <1>17, <1>19, <1>20, <1>22, <1>23, <1>24, <1>25, <1>26 DEF IInv

LEMMA PeerPinBssIInv ==
  ASSUME IInv, NEW p \in Peers, NEW v \in Vdevs, vdevOf[p] = v, PeerPinBss(p)
  PROVE  IInv'
<1> DEFINE k == T("pin", p)
           d == T("init", p)
           c == T("rel", v)
           h == <<k, d, c>>
           n == <<d, c>>
           m == <<>>
           t == Mc
<1>1. /\ Doing(t, k) /\ Then(t, <<>>)
      /\ UNCHANGED <<mem, st, birth, lists, vlock, delay>>
  BY DEF PeerPinBss
<1>2. p \in Objects /\ t \in Threads /\ v \in Objects /\ v \notin Peers
  BY Kinds
<1>3. /\ k.op = "pin" /\ k.obj = p /\ k \in Task /\ d.op = "init" /\ d.obj = p /\ d \in Task
      /\ c.op = "rel" /\ c.obj = v /\ c \in Task
  BY <1>2, OneTask DEF Ops
<1>4. /\ h \in Seq(Task) /\ Len(h) = 3 /\ h[1] = k /\ h[2] = d /\ h[3] = c
      /\ n \in Seq(Task) /\ Len(n) = 2 /\ n[1] = d /\ n[2] = c
  BY <1>3, TwoTasks, ThreeTasks
<1>5. (\A x : Has(h, x) <=> x \in {k, d, c}) /\ (\A x : Has(n, x) <=> x \in {d, c})
  BY <1>3, HasFew
<1>6. ASSUME NEW x, NEW ops
      PROVE  /\ Count(h, x, ops) = One(k, x, ops) + One(d, x, ops) + One(c, x, ops)
             /\ Count(n, x, ops) = One(d, x, ops) + One(c, x, ops)
  <2> HIDE DEF k, d, c
  <2> QED BY <1>3, CountTwo, CountThree
<1>7. /\ TaskOK(t, k) /\ todo[t][1] = k /\ 1 \in 1..Len(todo[t]) /\ todo[t] \in Seq(Task)
      /\ Len(todo[t]) = 3 /\ todo[t][2] = d /\ todo[t][3] = c
  <2>1. TaskOK(t, k) /\ ShapeOK(vdevOf, t, todo[t], 1) /\ todo[t][1] = k /\ 1 \in 1..Len(todo[t])
    BY <1>1, <1>2, DoingStep
  <2>2. Len(todo[t]) = 3 /\ todo[t][2] = d
    BY <1>3, <2>1 DEF ShapeOK
  <2>3. 2 \in 1..Len(todo[t])
    BY <2>2
  <2>4. ShapeOK(vdevOf, t, todo[t], 2)
    BY <1>2, <2>3, TaskFacts
  <2>5. todo[t][3] = c
    <3>1. todo[t][2 + 1] = T("rel", vdevOf[p])
      BY <1>3, <2>2, <2>4 DEF ShapeOK
    <3> QED BY <3>1
  <2> QED BY <1>2, <2>1, <2>2, <2>5, Typed DEF Programs
<1>8. todo[t] = h /\ Tail(todo[t]) = n
  BY <1>7, SeqThree
<1>9. todo' = [todo EXCEPT ![t] = n]
  <2>1. <<>> \o Tail(todo[t]) = n
    BY <1>4, <1>8, ConcatEmptySeq
  <2> QED BY <1>1, <2>1 DEF Then
<1>10. /\ p \in mem /\ st[p] = "allocated" /\ v \in mem
  <2>1. 3 \in 1..Len(todo[t])
    BY <1>7
  <2>2. TaskOK(t, c)
    BY <1>2, <1>7, <2>1, TaskFacts
  <2> QED BY <1>3, <1>7, <2>2 DEF TaskOK
<1>11. Named("pin", p) /\ Named("init", p)
  <2>1. 2 \in 1..Len(todo[t])
    BY <1>7
  <2> QED BY <1>2, <1>7, <2>1 DEF Named
<1> HIDE DEF k, d, c, h, n, t
<1>12. Step(t, h, m, n) /\ n \o m = n
  BY <1>2, <1>4, <1>8, <1>9, WholeStep
<1>13. m = <<>>
  OBVIOUS
<1> HIDE DEF m
<1>14. /\ todo \in Programs /\ todo' \in Programs /\ mem \subseteq Objects
       /\ ref \in [Objects -> Nat] /\ pins \in [Peers -> Peers \cup {NULL}] /\ bss \in [Vdevs -> Peers \cup {NULL}]
       /\ vdevOf \in [Peers -> Vdevs]
  BY <1>12, Typed, StepPlaces DEF IInv, Types
<1>15. /\ mem' = mem /\ st' = st /\ role' = role /\ vdevOf' = vdevOf /\ made' = made /\ table' = table
       /\ psocPeers' = psocPeers /\ vdevPeers' = vdevPeers /\ bss' = bss /\ vlock' = vlock /\ freeList' = freeList
       /\ work' = work
  BY <1>1 DEF birth, lists, delay
<1>16. ~Named("attach", p) /\ ~Named("free", p) /\ Linked(p) /\ pins[p] = NULL
  <2>1. ~Named("attach", p)
    BY <1>2, <1>3, <1>7, NotAttaching
  <2>2. ~Named("free", p)
    <3>1. ASSUME Named("free", p) PROVE FALSE
      <4>1. PICK u \in Threads : \E i \in 1..Len(todo[u]) : todo[u][i] = T("free", p)
        BY <3>1 DEF Named
      <4>2. PICK i \in 1..Len(todo[u]) : todo[u][i] = T("free", p)
        BY <4>1
      <4>3. ref[p] = 0
        BY <1>10, <4>2, Ended DEF T, Ends
      <4> QED BY <1>10, <4>3, Counted
    <3> QED BY <3>1
  <2>3. Linked(p)
    BY <1>10, <2>1, <2>2 DEF IInv, StageLink
  <2>4. pins[p] = NULL
    BY <1>11 DEF IInv, PinLink
  <2> QED BY <2>1, <2>2, <2>3, <2>4
<1>17. PICK b \in Peers : b = bss[v] /\ Usable(b) /\ b \in mem /\ role[p] = "sta" /\ b # p
  <2>1. IF role[p] = "sta" THEN bss[v] # NULL /\ Usable(bss[v]) ELSE "pin" # "pin"
    BY <1>11 DEF IInv, PinLink
  <2>2. role[p] = "sta"
    BY <2>1
  <2>3. bss[v] \in Peers /\ bss[v] \in mem
    BY <1>14, <2>1, <2>2 DEF IInv, ListLink
  <2> QED BY <1>10, <2>1, <2>2, <2>3 DEF Usable
<1>18. /\ pins'[p] = b /\ (\A q \in Peers : q # p => pins'[q] = pins[q]) /\ pins' \in [Peers -> Peers \cup {NULL}]
       /\ ref' \in [Objects -> Nat] /\ ref'[b] = ref[b] + 1 /\ \A o \in Objects : o # b => ref'[o] = ref[o]
  <2>1. b # NULL /\ b \in Objects
    BY Kinds
  <2>2. pins' = [pins EXCEPT ![p] = b] /\ ref' = [ref EXCEPT ![b] = @ + 1]
    BY <1>17, <2>1 DEF PeerPinBss, Get
  <2> QED BY <1>14, <2>1, <2>2
<1>19. Types'
  <2>1. todo' \in [Threads -> Seq([op : Ops, obj : Objects \cup {NULL}])]
    BY <1>14 DEF Programs, Task
  <2>2. Types
    BY DEF IInv
  <2>3. ref' \in [Objects -> Nat] /\ pins' \in [Peers -> Peers \cup {NULL}]
    BY <1>18
  <2> QED BY <1>15, <2>1, <2>2, <2>3 DEF Types
<1>20. ASSUME NEW i \in 1..Len(n)
       PROVE  /\ n[i] \in {d, c} /\ ~Named("attach", n[i].obj) /\ ShapeOK(vdevOf', t, n \o m, i)
              /\ \A g : g = n[i] => TaskOK(t, g)'
  <2>0. ~Named("attach", v)
    BY <1>2, Attaching
  <2>1. CASE i = 1
    <3>1. n[i] = d /\ ShapeOK(vdevOf', t, n, i)
      BY <1>3, <1>4, <1>15, <2>1 DEF ShapeOK, ObjectsOf, t, c
    <3>2. TaskOK(t, d)'
      BY <1>3, <1>10, <1>15 DEF TaskOK
    <3> QED BY <1>3, <1>12, <1>16, <3>1, <3>2
  <2>2. CASE i = 2
    <3>1. n[i] = c /\ ShapeOK(vdevOf', t, n, i)
      BY <1>2, <1>3, <1>4, <2>2 DEF ShapeOK, ObjectsOf
    <3>2. TaskOK(t, c)'
      BY <1>3, <1>10, <1>15 DEF TaskOK
    <3> QED BY <1>3, <1>12, <2>0, <3>1, <3>2
  <2> QED BY <1>4, <2>1, <2>2
<1>21. ShapeLink'
  <2>1. ShapeLink
    BY DEF IInv
  <2>2. \A i \in 1..Len(n) : ShapeOK(vdevOf', t, n \o m, i)
    BY <1>20
  <2> QED BY <1>12, <1>13, <1>14, <1>15, <2>1, <2>2, StepShapeLink
<1>22. TaskLink'
  <2>1. TaskLink
    BY DEF IInv
  <2>2. \A u : \A g : TaskOK(u, g) => TaskOK(u, g)'
    BY <1>15 DEF TaskOK, Linked
  <2>3. \A u \in Threads : \A i \in 1..Len(todo[u]) : (u = t => i > Len(h)) =>
          \A g : g = todo[u][i] /\ TaskOK(u, g) => TaskOK(u, g)'
    BY <2>2
  <2>4. \A i \in 1..Len(n) : \A g : g = n[i] => TaskOK(t, g)'
    BY <1>20
  <2> QED BY <1>12, <1>14, <2>1, <2>3, <2>4, StepTaskLink
<1>23. AloneLink'
  <2>1. \A i \in 1..Len(n) : n[i].op # "attach" /\ ~Named("attach", n[i].obj)
    BY <1>3, <1>20
  <2> QED BY <1>12, <2>1, StepAloneLink
<1>24. ListLink'
  BY <1>15 DEF IInv, ListLink
<1>25. \A q : \A op \in {"attach", "free", "detach"} : ~Has(h, T(op, q)) /\ ~Has(n, T(op, q))
  BY <1>3, <1>5 DEF T
<1>26. StageLink'
  <2>1. \A q \in mem' \cap Peers : /\ q \in mem /\ (Linked(q)' <=> Linked(q))
                                   /\ \A op \in {"attach", "free", "detach"} : ~Has(h, T(op, q)) /\ ~Has(n, T(op, q))
    BY <1>15, <1>25 DEF Linked
  <2> QED BY <1>12, <2>1, StepStageLink
<1>27. \A op \in Makers : \A q : ~Named(op, q)'
  <2> SUFFICES ASSUME NEW op \in Makers, NEW q, Named(op, q)' PROVE FALSE
    OBVIOUS
  <2>1. Len(h) >= 1 /\ t \in {Mc}
    BY <1>4 DEF t
  <2>2. Has(n, T(op, q))
    BY <1>12, <2>1, MakersNew
  <2> QED BY <1>3, <1>5, <2>2 DEF T, Makers
<1>28. PinLink'
  <2>0. PinLink
    BY DEF IInv
  <2>1. ASSUME NEW q \in Peers, pins'[q] # NULL
        PROVE  /\ q \in mem' /\ role'[q] = "sta" /\ pins'[q] = bss'[vdevOf'[q]]
               /\ \A op \in {"attach", "pin", "free"} : ~Named(op, q)'
    <3>0. ~Named("attach", q)' /\ ~Named("pin", q)'
      BY <1>27 DEF Makers
    <3>1. CASE q = p
      <4>1. ~Named("free", q)'
        BY <1>12, <1>14, <1>16, <1>25, <3>1, StepNamed
      <4> QED BY <1>10, <1>15, <1>17, <1>18, <3>0, <3>1, <4>1
    <3>2. CASE q # p
      <4>1. q \in mem /\ role[q] = "sta" /\ pins[q] = bss[vdevOf[q]] /\ ~Named("free", q)
        BY <1>18, <2>0, <2>1, <3>2 DEF PinLink
      <4>2. ~Named("free", q)'
        BY <1>12, <1>14, <1>25, <4>1, StepNamed
      <4> QED BY <1>15, <1>18, <3>0, <3>2, <4>1, <4>2
    <3> QED BY <3>1, <3>2
  <2>2. ASSUME NEW q \in mem' \cap Peers, role'[q] = "sta", pins'[q] = NULL
        PROVE  \E op \in {"attach", "pin", "free"} : Named(op, q)'
    <3>1. q # p
      BY <1>18, <2>2, Kinds DEF Objects
    <3>2. \E op \in {"attach", "pin", "free"} : Named(op, q)
      BY <1>15, <1>18, <2>0, <2>2, <3>1 DEF PinLink
    <3>3. ASSUME NEW op \in {"attach", "pin", "free"}, Named(op, q) PROVE Named(op, q)'
      <4>1. ~Has(h, T(op, q))
        BY <1>3, <1>5, <3>1 DEF T
      <4> QED BY <1>12, <1>14, <3>3, <4>1, StepNamed
    <3> QED BY <1>15, <3>2, <3>3
  <2>3. \A q \in Peers : \A op \in {"alloc", "attach", "pin"} : ~Named(op, q)'
    BY <1>27 DEF Makers
  <2> QED BY <2>1, <2>2, <2>3 DEF PinLink
<1>29. \A x : /\ Count(h, x, Refs(x)) = Count(n, x, Refs(x)) /\ Count(h, x, Refs(x)) \in Nat
              /\ Count(h, x, Ends) = 0 /\ Count(n, x, Ends) = 0
  <2>1. \A x : /\ One(k, x, Refs(x)) = 0 /\ One(d, x, Refs(x)) = 0 /\ One(c, x, Refs(x)) \in Nat
               /\ One(k, x, Ends) = 0 /\ One(d, x, Ends) = 0 /\ One(c, x, Ends) = 0
    BY <1>3 DEF One, Refs, Ends
  <2>2. \A x : /\ Count(h, x, Refs(x)) = One(k, x, Refs(x)) + One(d, x, Refs(x)) + One(c, x, Refs(x))
               /\ Count(n, x, Refs(x)) = One(d, x, Refs(x)) + One(c, x, Refs(x))
               /\ Count(h, x, Ends) = One(k, x, Ends) + One(d, x, Ends) + One(c, x, Ends)
               /\ Count(n, x, Ends) = One(d, x, Ends) + One(c, x, Ends)
    BY <1>6
  <2> QED BY <2>1, <2>2
<1>30. RefLink'
  <2> SUFFICES ASSUME NEW o \in mem PROVE ref'[o] = Others(o)' + Pending(o, Refs(o))'
    BY <1>15 DEF RefLink, Refs
  <2>0. o \in Objects /\ ref[o] \in Nat /\ Others(o) \in Nat
    BY <1>14, Counted, Typed
  <2>1. CASE o = b
    <3>1. Cardinality(Pinners(o))' = Cardinality(Pinners(o)) + 1 /\ Cardinality(Pinners(o)) \in Nat
      <4>1. Pinners(b)' = Pinners(b) \cup {p} /\ p \notin Pinners(b)
        BY <1>16, <1>18, Kinds DEF Pinners, Objects
      <4>2. IsFiniteSet(Pinners(b)) /\ Cardinality(Pinners(b)) \in Nat
        BY PinnersFinite
      <4>3. Cardinality(Pinners(b) \cup {p}) = Cardinality(Pinners(b)) + 1
        BY <4>1, <4>2, FS_AddElement
      <4> QED BY <2>1, <4>1, <4>2, <4>3
    <3>2. Others(o)' = Others(o) + 1
      BY <1>15, <2>1, <3>1 DEF Others, Creators
    <3>3. ref'[o] = ref[o] + 1 - Count(h, o, Refs(o)) + Count(n, o, Refs(o))
      BY <1>18, <1>29, <2>0, <2>1
    <3> QED BY <1>12, <3>2, <3>3, RefKeep
  <2>2. CASE o # b
    <3>1. o \in Peers => Pinners(o)' = Pinners(o)
      BY <1>16, <1>18, <2>2, Kinds DEF Pinners, Objects
    <3>2. Others(o)' = Others(o)
      BY <1>15, <3>1 DEF Others, Creators
    <3>3. Others(o)' = Others(o) + 0 /\ ref'[o] = ref[o] + 0 - Count(h, o, Refs(o)) + Count(n, o, Refs(o))
      BY <1>18, <1>29, <2>0, <2>2, <3>2
    <3> QED BY <1>12, <3>3, RefKeep
  <2> QED BY <2>1, <2>2
<1>31. EndLink'
  <2>0. ref[b] # 0 /\ ref[b] \in Nat
    BY <1>17, Counted DEF Usable
  <2>1. \A o \in mem' : o \in mem /\ Count(h, o, Ends) = Count(n, o, Ends) /\ (ref'[o] = 0 <=> ref[o] = 0)
    BY <1>14, <1>15, <1>18, <1>29, <2>0
  <2> QED BY <1>12, <1>15, <2>1, StepEndLink
<1>32. LockLink'
  <2>1. \A i \in 1..Len(n) : n[i].op \notin {"destroy", "detach"}
    BY <1>3, <1>20
  <2> QED BY <1>12, <1>15, <2>1, StepLockLink
<1>33. WorkLink'
  <2>1. \A i \in 1..Len(h) : h[i].op \notin {"sched", "pop"}
    <3>1. \A i \in 1..Len(h) : i = 1 \/ i = 2 \/ i = 3
      BY <1>4
    <3> QED BY <1>3, <1>4, <3>1
  <2> QED BY <1>1, <1>12, <2>1, StepWorkLink
<1>34. BornLink'
  <2>1. ASSUME NEW o \in mem', Unfinished(st'[o])
        PROVE  \/ \E op \in Births : Has(n, T(op, o))
               \/ o \in mem /\ Unfinished(st[o]) /\ \A op \in Births : ~Has(h, T(op, o))
    <3>1. CASE o = p
      BY <1>5, <3>1 DEF Births, d
    <3>2. CASE o # p
      BY <1>3, <1>5, <1>15, <2>1, <3>2 DEF T, Births
    <3> QED BY <3>1, <3>2
  <2> QED BY <1>12, <2>1, StepBornLink
<1> QED BY <1>19, <1>21, <1>22, <1>23, <1>24, <1>26, <1>28, <1>30, <1>31, <1>32, <1>33, <1>34 DEF IInv

\* A peer takes its place; n is what its creator then has to do.
LEMMA AttachedIInv ==
  ASSUME IInv, NEW p \in Peers, NEW v \in Vdevs, vdevOf[p] = v, Doing(Mc, T("attach", p)),
         NEW n \in Seq(Task), todo' = [todo EXCEPT ![Mc] = n],
         \A i \in 1..Len(n) : /\ n[i].op \in {"pin", "init", "rel"}
                              /\ n[i].obj = IF n[i].op = "rel" THEN v ELSE p
                              /\ ShapeOK(vdevOf, Mc, n, i),
         Has(n, T("init", p)), Has(n, T("pin", p)) <=> role[p] = "sta",
         \A x : Count(n, x, Refs(x)) = One(T("rel", v), x, Refs(x)) /\ Count(n, x, Ends) = 0,
         vdevPeers' = [vdevPeers EXCEPT ![v] = Append(@, p)],
         bss' = IF role[p] = "bss" THEN [bss EXCEPT ![v] = p] ELSE bss,
         role[p] = "bss" => ~CountedOn(v), Get(v),
         UNCHANGED <<mem, psocPeers, st, pins, role, vdevOf, made, table, vlock, delay>>
  PROVE  IInv'
<1> DEFINE k == T("attach", p)
           c == T("rel", v)
           h == <<k, c>>
           m == <<>>
           t == Mc
<1>1. Doing(t, k)
  OBVIOUS
<1>2. p \in Objects /\ t \in Threads /\ v \in Objects /\ v \notin Peers
  BY Kinds
<1>3. k.op = "attach" /\ k.obj = p /\ k \in Task /\ c.op = "rel" /\ c.obj = v /\ c \in Task
  BY <1>2, OneTask DEF Ops
<1>4. h \in Seq(Task) /\ Len(h) = 2 /\ h[1] = k /\ h[2] = c
  BY <1>3, TwoTasks
<1>5. \A x : Has(h, x) <=> x \in {k, c}
  BY <1>3, HasFew
<1>6. ASSUME NEW x, NEW ops PROVE Count(h, x, ops) = One(k, x, ops) + One(c, x, ops)
  <2> HIDE DEF k, c
  <2> QED BY <1>3, CountTwo
<1>7. /\ todo[t][1] = k /\ 1 \in 1..Len(todo[t]) /\ todo[t] \in Seq(Task) /\ Len(todo[t]) = 2 /\ todo[t][2] = c
  <2>1. TaskOK(t, k) /\ ShapeOK(vdevOf, t, todo[t], 1) /\ todo[t][1] = k /\ 1 \in 1..Len(todo[t])
    BY <1>1, <1>2, DoingStep
  <2> QED BY <1>2, <1>3, <2>1, Typed DEF Programs, ShapeOK
<1>8. todo[t] = h
  BY <1>7, SeqTwo
<1>9. Named("attach", p) /\ v \in mem
  <2>1. 2 \in 1..Len(todo[t])
    BY <1>7
  <2>2. TaskOK(t, c)
    BY <1>2, <1>7, <2>1, TaskFacts
  <2> QED BY <1>2, <1>3, <1>7, <2>2 DEF TaskOK, Named
<1>10. p \in mem /\ st[p] = "allocated" /\ ~Linked(p) /\ pins[p] = NULL
  <2>1. pins[p] = NULL
    BY <1>9 DEF IInv, PinLink
  <2> QED BY <1>9, <2>1, Attaching
<1>11. todo' = [todo EXCEPT ![t] = n]
  OBVIOUS
<1>a. /\ \A i \in 1..Len(n) : /\ n[i].op \in {"pin", "init", "rel"}
                              /\ n[i].obj = IF n[i].op = "rel" THEN v ELSE p
                              /\ ShapeOK(vdevOf, t, n, i)
      /\ \A x : Count(n, x, Refs(x)) = One(c, x, Refs(x)) /\ Count(n, x, Ends) = 0
  OBVIOUS
<1> HIDE DEF k, c, h, t
<1>12. Step(t, h, m, n) /\ n \o m = n
  BY ZenonT(40), <1>2, <1>4, <1>8, <1>11, WholeStep
<1>13. m = <<>>
  OBVIOUS
<1> HIDE DEF m
<1>14. /\ todo \in Programs /\ todo' \in Programs /\ mem \subseteq Objects
       /\ ref \in [Objects -> Nat] /\ vdevPeers \in [Vdevs -> Seq(Peers)] /\ bss \in [Vdevs -> Peers \cup {NULL}]
       /\ vdevOf \in [Peers -> Vdevs] /\ role[p] \in {"bss", "sta"} /\ IsInjective(vdevPeers[v])
  BY ZenonT(40), <1>12, Typed, StepPlaces DEF IInv, Types
<1>15. /\ mem' = mem /\ st' = st /\ role' = role /\ vdevOf' = vdevOf /\ made' = made /\ table' = table
       /\ psocPeers' = psocPeers /\ pins' = pins /\ vlock' = vlock /\ freeList' = freeList
       /\ work' = work
  BY DEF birth, delay
<1>16. /\ vdevPeers'[v] \in Seq(Peers) /\ IsInjective(vdevPeers'[v]) /\ ToSet(vdevPeers'[v]) = ToSet(vdevPeers[v]) \cup {p}
       /\ Len(vdevPeers'[v]) = Len(vdevPeers[v]) + 1
       /\ \A w \in Vdevs : w # v => vdevPeers'[w] = vdevPeers[w]
       /\ vdevPeers' \in [Vdevs -> Seq(Peers)]
  <2>1. p \notin ToSet(vdevPeers[v]) /\ vdevPeers[v] \in Seq(Peers)
    BY <1>10, <1>14 DEF Linked
  <2>2. vdevPeers'[v] = Append(vdevPeers[v], p) /\ \A w \in Vdevs : w # v => vdevPeers'[w] = vdevPeers[w]
    BY <1>14
  <2>3. /\ Append(vdevPeers[v], p) \in Seq(Peers) /\ IsInjective(Append(vdevPeers[v], p))
        /\ ToSet(Append(vdevPeers[v], p)) = ToSet(vdevPeers[v]) \cup {p} /\ Len(Append(vdevPeers[v], p)) = Len(vdevPeers[v]) + 1
    BY <1>14, <2>1, AppendList
  <2>4. vdevPeers' \in [Vdevs -> Seq(Peers)]
    BY <1>14, <2>3
  <2> QED BY <2>2, <2>3, <2>4
<1>17. role[p] = "sta" => bss[v] # NULL /\ Usable(bss[v])
  BY <1>9 DEF IInv, PinLink
<1>18. /\ bss' \in [Vdevs -> Peers \cup {NULL}] /\ \A w \in Vdevs : w # v \/ role[p] = "sta" => bss'[w] = bss[w]
       /\ role[p] = "bss" => bss'[v] = p
  <2>1. bss' \in [Vdevs -> Peers \cup {NULL}] /\ (\A w \in Vdevs : w # v \/ role[p] = "sta" => bss'[w] = bss[w])
    BY <1>14
  <2>2. role[p] = "bss" => bss'[v] = p
    BY <1>14
  <2> QED BY <2>1, <2>2
<1>19. /\ ref' \in [Objects -> Nat] /\ ref'[v] = ref[v] + 1 /\ \A o \in Objects : o # v => ref'[o] = ref[o]
  BY <1>2, <1>14 DEF Get
<1>20. Types'
  <2>1. todo' \in [Threads -> Seq([op : Ops, obj : Objects \cup {NULL}])]
    BY <1>14 DEF Programs, Task
  <2>2. Types
    BY DEF IInv
  <2>3. \A list \in {psocPeers', freeList'} \cup {vdevPeers'[w] : w \in Vdevs} : IsInjective(list)
    <3>1. IsInjective(psocPeers) /\ IsInjective(freeList) /\ \A w \in Vdevs : IsInjective(vdevPeers[w])
      BY <2>2 DEF Types
    <3>2. ASSUME NEW w \in Vdevs PROVE IsInjective(vdevPeers'[w])
      <4>1. CASE w = v
        BY <1>16, <4>1
      <4>2. CASE w # v
        BY <1>16, <3>1, <4>2
      <4> QED BY <4>1, <4>2
    <3>3. IsInjective(psocPeers') /\ IsInjective(freeList')
      BY <1>15, <3>1
    <3> QED BY <3>2, <3>3
  <2>4. vdevPeers' \in [Vdevs -> Seq(Peers)] /\ bss' \in [Vdevs -> Peers \cup {NULL}] /\ ref' \in [Objects -> Nat]
    BY <1>16, <1>18, <1>19
  <2>5. /\ mem' \subseteq Objects /\ st' \in [Objects -> {"uncounted", "allocated", "created", "deleted"}]
        /\ role' \in [Peers -> {"bss", "sta"}] /\ vdevOf' \in [Peers -> Vdevs] /\ pins' \in [Peers -> Peers \cup {NULL}]
        /\ table' \subseteq Vdevs /\ psocPeers' \in Seq(Peers)
        /\ vlock' \in [Vdevs -> Threads \cup {NULL}] /\ freeList' \in Seq(Peers) /\ work' \in BOOLEAN
        /\ made' \in [peers : 0..MaxPeers, vdevs : 0..MaxVdevs]
    BY <1>15, <2>2 DEF Types
  <2> QED BY <2>1, <2>3, <2>4, <2>5 DEF Types
<1>21. ShapeLink'
  <2>1. ShapeLink
    BY DEF IInv
  <2>2. \A i \in 1..Len(n) : ShapeOK(vdevOf', t, n \o m, i)
    BY <1>a, <1>12, <1>15
  <2> QED BY <1>12, <1>13, <1>14, <1>15, <2>1, <2>2, StepShapeLink
<1>22. ASSUME NEW q \in Peers, Linked(q) PROVE Linked(q)'
  BY <1>14, <1>15, <1>16, <1>22 DEF Linked
<1>23. TaskLink'
  <2>1. TaskLink
    BY DEF IInv
  <2>2. ASSUME NEW u \in Threads, NEW i \in 1..Len(todo[u]), NEW g, g = todo[u][i], TaskOK(u, g)
        PROVE  TaskOK(u, g)'
    <3>1. g.op = "visit" => g.obj \in Peers /\ Linked(g.obj)
      BY <2>2, TaskFacts DEF TaskOK, ObjectsOf
    <3>2. g.op = "visit" => Linked(g.obj)'
      BY <1>22, <3>1
    <3> QED BY <1>15, <2>2, <3>2 DEF TaskOK
  <2>3. \A u \in Threads : \A i \in 1..Len(todo[u]) : (u = t => i > Len(h)) =>
          \A g : g = todo[u][i] /\ TaskOK(u, g) => TaskOK(u, g)'
    BY <2>2
  <2>4. \A i \in 1..Len(n) : \A g : g = n[i] => TaskOK(t, g)'
    BY <1>a, <1>9, <1>10, <1>15 DEF TaskOK
  <2> QED BY <1>12, <1>14, <2>1, <2>3, <2>4, StepTaskLink
<1>24. ASSUME NEW op \in Makers, NEW q, Named(op, q)' PROVE op = "pin" /\ q = p /\ role[p] = "sta"
  <2>1. Len(h) >= 1 /\ t \in {Mc}
    BY <1>4 DEF t
  <2>2. Has(n, T(op, q))
    BY <1>12, <1>24, <2>1, MakersNew
  <2>3. PICK i \in 1..Len(n) : n[i] = T(op, q)
    BY <2>2 DEF Has
  <2>4. op = "pin" /\ q = p
    BY <1>a, <2>3 DEF T, Makers
  <2> QED BY <2>2, <2>4
<1>25. AloneLink'
  BY <1>24 DEF AloneLink, Makers
<1>26. ListLink'
  <2>1. ListLink
    BY DEF IInv
  <2>2. ToSet(psocPeers') = mem' \cap Peers /\ table' = mem' \cap Vdevs /\ ToSet(freeList') \subseteq mem'
    BY <1>15, <2>1 DEF ListLink
  <2>3. ASSUME NEW w \in Vdevs, NEW q \in ToSet(vdevPeers'[w]) PROVE q \in mem' /\ w \in mem' /\ vdevOf'[q] = w
    <3>1. q \in ToSet(vdevPeers[w]) \/ (w = v /\ q = p)
      BY <1>16, <2>3
    <3> QED BY <1>9, <1>10, <1>15, <2>1, <3>1 DEF ListLink
  <2>4. ASSUME NEW w \in Vdevs, bss'[w] # NULL
        PROVE  bss'[w] \in ToSet(vdevPeers'[w]) /\ role'[bss'[w]] = "bss"
    <3>1. CASE w = v /\ role[p] = "bss"
      BY <1>15, <1>16, <1>18, <3>1
    <3>2. CASE ~(w = v /\ role[p] = "bss")
      <4>1. bss'[w] = bss[w]
        BY <1>14, <1>18, <3>2
      <4>2. bss[w] \in ToSet(vdevPeers[w]) /\ role[bss[w]] = "bss"
        BY <2>1, <2>4, <4>1 DEF ListLink
      <4>3. bss[w] \in ToSet(vdevPeers'[w])
        BY <1>16, <4>2
      <4> QED BY <1>15, <4>1, <4>2, <4>3
    <3> QED BY <3>1, <3>2
  <2> QED BY <2>2, <2>3, <2>4 DEF ListLink
<1>27. ASSUME NEW op \in {"free", "detach"}, NEW q PROVE ~Has(h, T(op, q)) /\ ~Has(n, T(op, q))
  <2>1. ~Has(h, T(op, q))
    BY <1>3, <1>5 DEF T
  <2>2. ~Has(n, T(op, q))
    BY SMTT(30), <1>a DEF Has, T
  <2> QED BY <2>1, <2>2
<1>28. ~Named("free", p)'
  <2>1. ~Named("free", p)
    <3>1. ASSUME Named("free", p) PROVE FALSE
      <4>1. PICK u \in Threads : \E i \in 1..Len(todo[u]) : todo[u][i] = T("free", p)
        BY <3>1 DEF Named
      <4>2. PICK i \in 1..Len(todo[u]) : todo[u][i] = T("free", p)
        BY <4>1
      <4> QED BY <1>9, <4>2 DEF IInv, AloneLink, T
    <3> QED BY <3>1
  <2> QED BY <1>12, <1>14, <1>27, <2>1, StepNamed
<1>29. StageLink'
  <2>1. ASSUME NEW q \in mem' \cap Peers
        PROVE  \/ /\ q \in mem /\ (Linked(q)' <=> Linked(q))
                  /\ \A op \in {"attach", "free", "detach"} : ~Has(h, T(op, q)) /\ ~Has(n, T(op, q))
               \/ Linked(q)' <=> ~Named("attach", q)' /\ (Named("free", q)' => Named("detach", q)')
    <3>1. CASE q = p
      <4>1. Linked(q)'
        BY <1>15, <1>16, <3>1 DEF Linked
      <4>2. ~Named("attach", q)'
        BY <1>24 DEF Makers
      <4> QED BY <1>28, <3>1, <4>1, <4>2
    <3>2. CASE q # p
      <4>1. q \in mem /\ (Linked(q)' <=> Linked(q))
        BY <1>14, <1>15, <1>16, <3>2 DEF Linked
      <4>2. ~Has(h, T("attach", q))
        BY <1>3, <1>5, <3>2 DEF T
      <4>3. ~Has(n, T("attach", q))
        BY SMTT(30), <1>a DEF Has, T
      <4> QED BY <1>27, <4>1, <4>2, <4>3
    <3> QED BY <3>1, <3>2
  <2> QED BY <1>12, <2>1, StepStageLink
<1>30. ASSUME NEW q \in Peers, q # p, NEW op \in {"attach", "pin", "free"}
       PROVE  Named(op, q)' <=> Named(op, q)
  <2>1. ~Has(h, T(op, q))
    BY <1>3, <1>5, <1>30 DEF T
  <2>2. ~Has(n, T(op, q))
    BY <1>a, <1>30 DEF Has, T
  <2> QED BY <1>12, <1>14, <2>1, <2>2, SameName
<1>31. PinLink'
  <2>0. PinLink
    BY DEF IInv
  <2>1. ASSUME NEW q \in Peers, pins'[q] # NULL
        PROVE  /\ q \in mem' /\ role'[q] = "sta" /\ pins'[q] = bss'[vdevOf'[q]]
               /\ \A op \in {"attach", "pin", "free"} : ~Named(op, q)'
    <3>1. /\ q \in mem /\ role[q] = "sta" /\ pins[q] = bss[vdevOf[q]] /\ pins[q] # NULL /\ q # p
          /\ \A op \in {"attach", "pin", "free"} : ~Named(op, q)
      BY <1>10, <1>15, <2>0, <2>1 DEF PinLink
    <3>2. bss'[vdevOf[q]] = bss[vdevOf[q]]
      <4>1. vdevOf[q] = v => ~(role[p] = "bss")
        BY <3>1 DEF CountedOn
      <4> QED BY <1>14, <1>18, <4>1
    <3> QED BY <1>15, <1>30, <3>1, <3>2
  <2>2. ASSUME NEW q \in mem' \cap Peers, role'[q] = "sta", pins'[q] = NULL
        PROVE  \E op \in {"attach", "pin", "free"} : Named(op, q)'
    <3>1. CASE q = p
      <4>1. Named("pin", p)'
        BY <1>12, <1>14, <1>15, <2>2, <3>1, StepNamed
      <4> QED BY <3>1, <4>1
    <3>2. CASE q # p
      <4>1. q \in mem \cap Peers /\ role[q] = "sta" /\ pins[q] = NULL /\ vdevOf[q] \in Vdevs
        BY <1>14, <1>15, <2>2
      <4>2. \E op \in {"attach", "pin", "free"} : Named(op, q)
        BY <2>0, <4>1 DEF PinLink
      <4> QED BY <1>30, <3>2, <4>2
    <3> QED BY <3>1, <3>2
  <2>3. ASSUME NEW q \in Peers, NEW op \in {"alloc", "attach", "pin"}, Named(op, q)'
        PROVE  role'[q] = "sta" /\ bss'[vdevOf'[q]] # NULL /\ st'[bss'[vdevOf'[q]]] = "created"
    <3>1. q = p /\ role[p] = "sta"
      BY <1>24, <2>3 DEF Makers
    <3> QED BY <1>15, <1>17, <1>18, <3>1 DEF Usable
  <2> QED BY <2>1, <2>2, <2>3 DEF PinLink, Usable
<1>32. \A x : /\ Count(h, x, Refs(x)) = One(c, x, Refs(x)) /\ One(c, x, Refs(x)) \in Nat
              /\ Count(h, x, Ends) = 0
  <2>1. \A x : /\ One(k, x, Refs(x)) = 0 /\ One(c, x, Refs(x)) \in Nat
               /\ One(k, x, Ends) = 0 /\ One(c, x, Ends) = 0
    BY <1>3 DEF One, Refs, Ends
  <2>2. \A x : /\ Count(h, x, Refs(x)) = One(k, x, Refs(x)) + One(c, x, Refs(x))
               /\ Count(h, x, Ends) = One(k, x, Ends) + One(c, x, Ends)
    BY <1>6
  <2> QED BY <2>1, <2>2
<1>33. RefLink'
  <2> SUFFICES ASSUME NEW o \in mem PROVE ref'[o] = Others(o)' + Pending(o, Refs(o))'
    BY <1>15 DEF RefLink, Refs
  <2>0. o \in Objects /\ ref[o] \in Nat /\ Others(o) \in Nat
    BY <1>14, Counted, Typed
  <2>1. CASE o = v
    <3>1. Len(vdevPeers[v]) \in Nat
      BY Typed
    <3>2. Others(o)' = Others(o) + 1
      BY <1>2, <1>15, <1>16, <2>1, <3>1 DEF Others, Creators
    <3>3. ref'[o] = ref[o] + 1 - Count(h, o, Refs(o)) + Count(n, o, Refs(o))
      BY <1>a, <1>19, <1>32, <2>0, <2>1
    <3> QED BY <1>12, <3>2, <3>3, RefKeep
  <2>2. CASE o # v
    <3>1. o \notin Peers => vdevPeers'[o] = vdevPeers[o]
      BY <1>16, <2>0, <2>2, Kinds
    <3>2. Others(o)' = Others(o)
      <4>1. Pinners(o)' = Pinners(o) /\ st'[o] = st[o]
        BY <1>15 DEF Pinners
      <4>2. CASE o \in Peers
        BY <4>1, <4>2 DEF Others, Creators
      <4>3. CASE o \notin Peers
        <5>1. vdevPeers'[o] = vdevPeers[o]
          BY <3>1, <4>3
        <5>2. Len(vdevPeers'[o]) = Len(vdevPeers[o])
          BY <5>1
        <5> QED BY <4>1, <4>3, <5>2, Zenon DEF Others, Creators
      <4> QED BY <4>2, <4>3
    <3>3. Others(o)' = Others(o) + 0 /\ ref'[o] = ref[o] + 0 - Count(h, o, Refs(o)) + Count(n, o, Refs(o))
      <4>1. ref'[o] = ref[o] /\ Count(n, o, Refs(o)) = Count(h, o, Refs(o)) /\ Count(h, o, Refs(o)) \in Nat
        BY <1>a, <1>19, <1>32, <2>0, <2>2
      <4> HIDE DEF h
      <4> QED BY <2>0, <3>2, <4>1
    <3> QED BY <1>12, <3>3, RefKeep
  <2> QED BY <2>1, <2>2
<1>34. EndLink'
  <2>0. ref[v] # 0 /\ ref[v] \in Nat
    <3>1. 2 \in 1..Len(todo[t])
      BY <1>7
    <3>2. todo[t][2].op \in Refs(v) /\ todo[t][2].obj = v
      BY <1>2, <1>3, <1>7 DEF Refs
    <3> QED BY <1>2, <1>9, <3>1, <3>2, Counted
  <2>1. \A o \in mem' : o \in mem /\ Count(h, o, Ends) = Count(n, o, Ends) /\ (ref'[o] = 0 <=> ref[o] = 0)
    BY <1>a, <1>14, <1>15, <1>19, <1>32, <2>0
  <2> QED BY <1>12, <1>15, <2>1, StepEndLink
<1>35. LockLink'
  <2>1. \A i \in 1..Len(n) : n[i].op \notin {"destroy", "detach"}
    BY <1>a
  <2> QED BY <1>12, <1>15, <2>1, StepLockLink
<1>36. WorkLink'
  <2>1. \A i \in 1..Len(h) : h[i].op \notin {"sched", "pop"}
    <3>1. \A i \in 1..Len(h) : i = 1 \/ i = 2
      BY <1>4
    <3> QED BY <1>3, <1>4, <3>1
  <2>2. UNCHANGED delay
    OBVIOUS
  <2> QED BY <1>12, <2>1, <2>2, StepWorkLink
<1>37. BornLink'
  <2>1. ASSUME NEW o \in mem', Unfinished(st'[o])
        PROVE  \/ \E op \in Births : Has(n, T(op, o))
               \/ o \in mem /\ Unfinished(st[o]) /\ \A op \in Births : ~Has(h, T(op, o))
    <3>1. CASE o = p
      BY <3>1 DEF Births
    <3>2. CASE o # p
      <4>1. o \in mem /\ Unfinished(st[o])
        BY <1>15, <2>1
      <4>2. ASSUME NEW op \in Births PROVE T(op, o) # k /\ T(op, o) # c
        <5>1. T(op, o).op = op /\ T(op, o).obj = o /\ op # "rel"
          BY DEF T, Births
        <5> QED BY <1>3, <3>2, <5>1
      <4> QED BY <1>5, <4>1, <4>2
    <3> QED BY <3>1, <3>2
  <2> QED BY <1>12, <2>1, StepBornLink
<1> QED BY <1>20, <1>21, <1>23, <1>25, <1>26, <1>29, <1>31, <1>33, <1>34, <1>35, <1>36, <1>37 DEF IInv

LEMMA PeerAttachIInv ==
  ASSUME IInv, NEW p \in Peers, PeerAttach(p), ~swapped'
  PROVE  IInv'
<1>1. PICK v \in Vdevs : vdevOf[p] = v
  BY DEF IInv, Types
<1>2. /\ Doing(Mc, T("attach", p)) /\ UNCHANGED <<pins, role, vdevOf, made, table, vlock, delay>>
      /\ \/ /\ vdevPeers' = [vdevPeers EXCEPT ![v] = Append(@, p)]
            /\ bss' = IF role[p] = "bss" THEN [bss EXCEPT ![v] = p] ELSE bss
            /\ (role[p] = "bss" => ~CountedOn(v)) /\ Get(v)
            /\ Then(Mc, IF role[p] = "sta" THEN <<T("pin", p), T("init", p)>> ELSE <<T("init", p)>>)
            /\ UNCHANGED <<mem, psocPeers, st>>
         \/ /\ psocPeers' = Without(psocPeers, p) /\ mem' = mem \ {p}
            /\ st' = [st EXCEPT ![p] = "deleted"] /\ ref' = [ref EXCEPT ![p] = 0]
            /\ Then(Mc, <<>>)
            /\ UNCHANGED <<vdevPeers, bss, swapped>>
  BY <1>1 DEF PeerAttach
<1>3. CASE /\ psocPeers' = Without(psocPeers, p) /\ mem' = mem \ {p}
           /\ st' = [st EXCEPT ![p] = "deleted"] /\ ref' = [ref EXCEPT ![p] = 0]
           /\ Then(Mc, <<>>)
           /\ UNCHANGED <<vdevPeers, bss, swapped>>
  <2>1. UNCHANGED <<pins, birth, table, vdevPeers, bss, vlock, delay>>
    BY <1>2, <1>3 DEF birth
  <2> QED BY <1>2, <1>3, <2>1, PeerAttachFailIInv
<1>4. CASE /\ vdevPeers' = [vdevPeers EXCEPT ![v] = Append(@, p)]
           /\ bss' = IF role[p] = "bss" THEN [bss EXCEPT ![v] = p] ELSE bss
           /\ (role[p] = "bss" => ~CountedOn(v)) /\ Get(v)
           /\ Then(Mc, IF role[p] = "sta" THEN <<T("pin", p), T("init", p)>> ELSE <<T("init", p)>>)
           /\ UNCHANGED <<mem, psocPeers, st>>
  <2> DEFINE k == T("attach", p)
             a == T("pin", p)
             d == T("init", p)
             c == T("rel", v)
             t == Mc
  <2>1. p \in Objects /\ t \in Threads /\ v \in Objects /\ v \notin Peers /\ Doing(t, k)
    BY <1>2, Kinds
  <2>2. /\ k.op = "attach" /\ k.obj = p /\ k \in Task /\ a.op = "pin" /\ a.obj = p /\ a \in Task
        /\ d.op = "init" /\ d.obj = p /\ d \in Task /\ c.op = "rel" /\ c.obj = v /\ c \in Task
    BY <2>1, OneTask DEF Ops
  <2>3. todo[t] = <<k, c>> /\ Tail(todo[t]) = <<c>>
    <3>1. ShapeOK(vdevOf, t, todo[t], 1) /\ todo[t][1] = k /\ todo[t] \in Seq(Task)
      BY <2>1, DoingStep, Typed DEF Programs
    <3>2. Len(todo[t]) = 2 /\ todo[t][2] = c
      BY <1>1, <2>2, <3>1 DEF ShapeOK
    <3> HIDE DEF k, c, t
    <3> QED BY <3>1, <3>2, SeqTwo
  <2>4. /\ ShapeOK(vdevOf, t, <<d, c>>, 1) /\ ShapeOK(vdevOf, t, <<d, c>>, 2)
        /\ ShapeOK(vdevOf, t, <<a, d, c>>, 1) /\ ShapeOK(vdevOf, t, <<a, d, c>>, 2) /\ ShapeOK(vdevOf, t, <<a, d, c>>, 3)
    <3>1. \A e \in {a, d, c} : e.obj \in ObjectsOf(e.op)
      BY <2>1, <2>2 DEF ObjectsOf
    <3>2. c = T("rel", vdevOf[p]) /\ d = T("init", p)
      BY <1>1
    <3>3. /\ Len(<<d, c>>) = 2 /\ <<d, c>>[1] = d /\ <<d, c>>[2] = c
      OBVIOUS
    <3>4. /\ Len(<<a, d, c>>) = 3 /\ <<a, d, c>>[1] = a /\ <<a, d, c>>[2] = d /\ <<a, d, c>>[3] = c
      OBVIOUS
    <3> HIDE DEF a, d, c
    <3>5. ASSUME NEW s, Len(s) = 2, s[1] = d, s[2] = c
          PROVE  ShapeOK(vdevOf, t, s, 1) /\ ShapeOK(vdevOf, t, s, 2)
      BY <2>1, <2>2, <3>1, <3>2, <3>5 DEF ShapeOK
    <3>6. ASSUME NEW s, Len(s) = 3, s[1] = a, s[2] = d, s[3] = c
          PROVE  ShapeOK(vdevOf, t, s, 1) /\ ShapeOK(vdevOf, t, s, 2) /\ ShapeOK(vdevOf, t, s, 3)
      BY <2>1, <2>2, <3>1, <3>2, <3>6 DEF ShapeOK
    <3> QED BY <3>3, <3>4, <3>5, <3>6
  <2>5. CASE role[p] = "sta"
    <3> DEFINE n == <<a, d, c>>
    <3>1. todo' = [todo EXCEPT ![t] = n]
      <4>1. todo' = [todo EXCEPT ![t] = <<a, d>> \o <<c>>]
        BY <1>4, <2>3, <2>5 DEF Then
      <4> HIDE DEF a, d, c, t
      <4>2. <<a, d>> \o <<c>> = n
        BY <2>2, ThreeGlue, Zenon
      <4> QED BY <4>1, <4>2
    <3> HIDE DEF a, d, c
    <3>2. n \in Seq(Task) /\ Len(n) = 3 /\ n[1] = a /\ n[2] = d /\ n[3] = c
      BY <2>2, ThreeTasks
    <3>3. \A x : Has(n, x) <=> x \in {a, d, c}
      BY <2>2, HasFew
    <3>4. \A x, ops : Count(n, x, ops) = One(a, x, ops) + One(d, x, ops) + One(c, x, ops)
      BY <2>2, CountThree
    <3>5. /\ ShapeOK(vdevOf, t, n, 1) /\ ShapeOK(vdevOf, t, n, 2) /\ ShapeOK(vdevOf, t, n, 3)
      BY <2>4
    <3> HIDE DEF n
    <3>6. \A i \in 1..Len(n) : /\ n[i].op \in {"pin", "init", "rel"}
                               /\ n[i].obj = IF n[i].op = "rel" THEN v ELSE p
                               /\ ShapeOK(vdevOf, t, n, i)
      <4> SUFFICES ASSUME NEW i \in 1..Len(n)
                   PROVE  /\ n[i].op \in {"pin", "init", "rel"}
                          /\ n[i].obj = IF n[i].op = "rel" THEN v ELSE p
                          /\ ShapeOK(vdevOf, t, n, i)
        OBVIOUS
      <4>1. i = 1 \/ i = 2 \/ i = 3
        BY <3>2
      <4> QED BY <2>2, <3>2, <3>5, <4>1
    <3>7. Has(n, d) /\ Has(n, a)
      BY <3>3
    <3>8. \A x : Count(n, x, Refs(x)) = One(c, x, Refs(x)) /\ Count(n, x, Ends) = 0
      <4>1. \A x : /\ One(a, x, Refs(x)) = 0 /\ One(d, x, Refs(x)) = 0 /\ One(c, x, Refs(x)) \in Nat
                   /\ One(a, x, Ends) = 0 /\ One(d, x, Ends) = 0 /\ One(c, x, Ends) = 0
        BY <2>2 DEF One, Refs, Ends
      <4>2. \A x : /\ Count(n, x, Refs(x)) = One(a, x, Refs(x)) + One(d, x, Refs(x)) + One(c, x, Refs(x))
                   /\ Count(n, x, Ends) = One(a, x, Ends) + One(d, x, Ends) + One(c, x, Ends)
        BY <3>4
      <4> QED BY <4>1, <4>2
    <3>9. Has(n, T("init", p)) /\ (Has(n, T("pin", p)) <=> role[p] = "sta")
      BY <2>5, <3>7 DEF a, d
    <3>10. \A x : Count(n, x, Refs(x)) = One(T("rel", v), x, Refs(x)) /\ Count(n, x, Ends) = 0
      BY <3>8 DEF c
    <3> QED BY <1>1, <1>2, <1>4, <3>1, <3>2, <3>6, <3>9, <3>10, AttachedIInv
  <2>6. CASE role[p] # "sta"
    <3> DEFINE n == <<d, c>>
    <3>1. todo' = [todo EXCEPT ![t] = n]
      <4>1. todo' = [todo EXCEPT ![t] = <<d>> \o <<c>>]
        BY <1>4, <2>3, <2>6 DEF Then
      <4> HIDE DEF a, d, c, t
      <4>2. <<d>> \o <<c>> = n
        BY <2>2, Glue
      <4> QED BY <4>1, <4>2
    <3> HIDE DEF a, d, c
    <3>2. n \in Seq(Task) /\ Len(n) = 2 /\ n[1] = d /\ n[2] = c
      BY <2>2, TwoTasks
    <3>3. \A x : Has(n, x) <=> x \in {d, c}
      BY <2>2, HasFew
    <3>4. \A x, ops : Count(n, x, ops) = One(d, x, ops) + One(c, x, ops)
      BY <2>2, CountTwo
    <3>5. ShapeOK(vdevOf, t, n, 1) /\ ShapeOK(vdevOf, t, n, 2)
      BY <2>4
    <3> HIDE DEF n
    <3>6. \A i \in 1..Len(n) : /\ n[i].op \in {"pin", "init", "rel"}
                               /\ n[i].obj = IF n[i].op = "rel" THEN v ELSE p
                               /\ ShapeOK(vdevOf, t, n, i)
      <4> SUFFICES ASSUME NEW i \in 1..Len(n)
                   PROVE  /\ n[i].op \in {"pin", "init", "rel"}
                          /\ n[i].obj = IF n[i].op = "rel" THEN v ELSE p
                          /\ ShapeOK(vdevOf, t, n, i)
        OBVIOUS
      <4>1. i = 1 \/ i = 2
        BY <3>2
      <4> QED BY <2>2, <3>2, <3>5, <4>1
    <3>7. Has(n, d) /\ ~Has(n, a)
      BY <2>2, <3>3
    <3>8. \A x : Count(n, x, Refs(x)) = One(c, x, Refs(x)) /\ Count(n, x, Ends) = 0
      <4>1. \A x : /\ One(d, x, Refs(x)) = 0 /\ One(c, x, Refs(x)) \in Nat
                   /\ One(d, x, Ends) = 0 /\ One(c, x, Ends) = 0
        BY <2>2 DEF One, Refs, Ends
      <4>2. \A x : /\ Count(n, x, Refs(x)) = One(d, x, Refs(x)) + One(c, x, Refs(x))
                   /\ Count(n, x, Ends) = One(d, x, Ends) + One(c, x, Ends)
        BY <3>4
      <4> QED BY <4>1, <4>2
    <3>9. Has(n, T("init", p)) /\ (Has(n, T("pin", p)) <=> role[p] = "sta")
      BY <2>6, <3>7 DEF a, d
    <3>10. \A x : Count(n, x, Refs(x)) = One(T("rel", v), x, Refs(x)) /\ Count(n, x, Ends) = 0
      BY <3>8 DEF c
    <3> QED BY <1>1, <1>2, <1>4, <3>1, <3>2, <3>6, <3>9, <3>10, AttachedIInv
  <2> QED BY <2>5, <2>6
<1> QED BY <1>2, <1>3, <1>4

LEMMA PeerAllocIInv ==
  ASSUME IInv, NEW p \in Peers, PeerAlloc(p)
  PROVE  IInv'
<1>1. /\ Doing(Mc, T("alloc", p)) /\ UNCHANGED <<pins, birth, table, vdevPeers, bss, vlock, delay>>
      /\ \/ /\ mem' = mem \cup {p} /\ st' = [st EXCEPT ![p] = "allocated"] /\ ref' = [ref EXCEPT ![p] = 1]
            /\ psocPeers' = Append(psocPeers, p) /\ Then(Mc, <<T("attach", p)>>)
         \/ Then(Mc, <<>>) /\ UNCHANGED <<mem, st, ref, psocPeers>>
  BY DEF PeerAlloc
<1>2. CASE Then(Mc, <<>>) /\ UNCHANGED <<mem, st, ref, psocPeers>>
  <2>1. UNCHANGED <<mem, st, ref, pins, birth, lists, vlock, delay>>
    BY <1>1, <1>2 DEF lists
  <2> QED BY <1>1, <1>2, <2>1, PeerAllocFailIInv
<1>3. CASE /\ mem' = mem \cup {p} /\ st' = [st EXCEPT ![p] = "allocated"] /\ ref' = [ref EXCEPT ![p] = 1]
           /\ psocPeers' = Append(psocPeers, p) /\ Then(Mc, <<T("attach", p)>>)
  BY <1>1, <1>3, PeerAllocatedIInv
<1> QED BY <1>1, <1>2, <1>3

\* A peer's destruction begins; n is what the thread then has to do.
DestroyTasks(t, p, v, b, n) ==
  /\ n \in Seq(Task)
  /\ \A i \in 1..Len(n) :
       /\ \/ n[i] \in {T("detach", p), T("free", p), T("rel", v)}
          \/ role[p] = "sta" /\ b # NULL /\ n[i] = T("rel", b)
       /\ ShapeOK(vdevOf, t, n \o Tail(todo[t]), i)
  /\ Has(n, T("detach", p)) /\ Has(n, T("free", p))
  /\ \A x \in Objects :
       Count(n, x, Refs(x)) = (IF x = v THEN 1 ELSE 0) + (IF role[p] = "sta" /\ x = b THEN 1 ELSE 0)
  /\ \A x : Count(n, x, Ends) = IF x = p THEN 1 ELSE 0

LEMMA DestroyedIInv ==
  ASSUME IInv, NEW t \in Threads, NEW p \in Peers, NEW v \in Vdevs, vdevOf[p] = v, NEW b, bss[v] = b,
         Doing(t, T("destroy", p)), NEW n, Then(t, n),
         DestroyTasks(t, p, v, b, n),
         Get(v), pins' = [pins EXCEPT ![p] = NULL],
         UNCHANGED <<mem, st, birth, lists, vlock, delay>>
  PROVE  IInv'
<1> DEFINE k == T("destroy", p)
           h == <<k>>
           m == Tail(todo[t])
<1>0. /\ n \in Seq(Task)
      /\ \A i \in 1..Len(n) :
           /\ \/ n[i] \in {T("detach", p), T("free", p), T("rel", v)}
              \/ role[p] = "sta" /\ b # NULL /\ n[i] = T("rel", b)
           /\ ShapeOK(vdevOf, t, n \o Tail(todo[t]), i)
      /\ Has(n, T("detach", p)) /\ Has(n, T("free", p))
      /\ \A x \in Objects :
           Count(n, x, Refs(x)) = (IF x = v THEN 1 ELSE 0) + (IF role[p] = "sta" /\ x = b THEN 1 ELSE 0)
      /\ \A x : Count(n, x, Ends) = IF x = p THEN 1 ELSE 0
  BY DEF DestroyTasks
<1>1. Doing(t, k)
  OBVIOUS
<1>2. p \in Objects /\ v \in Objects /\ v \notin Peers /\ p \notin Vdevs /\ p # v
  BY Kinds
<1>3. k.op = "destroy" /\ k.obj = p /\ k \in Task /\ h \in Seq(Task) /\ Len(h) = 1 /\ h[1] = k
  BY <1>2, OneTask DEF Ops
<1>4. (\A x, ops : Count(h, x, ops) = One(k, x, ops)) /\ (\A x : Has(h, x) <=> x = k)
  BY <1>3, CountOne, HasFew
<1>5. /\ 1 \in 1..Len(todo[t]) /\ todo[t][1] = k /\ p \in mem
  <2>1. TaskOK(t, k) /\ 1 \in 1..Len(todo[t]) /\ todo[t][1] = k
    BY <1>1, DoingStep
  <2> QED BY <1>3, <2>1 DEF TaskOK
<1>6. Step(t, h, m, n)
  BY <1>0, <1>1, DoingStep
<1>7. /\ \A i \in 1..Len(n) : n[i].op \in {"detach", "free", "rel"} /\ (n[i].op \in {"detach", "free"} => n[i].obj = p)
      /\ \A i \in 1..Len(n) : n[i].op = "rel" => n[i].obj = v \/ (role[p] = "sta" /\ b # NULL /\ n[i].obj = b)
      /\ \A i \in 1..Len(n) : ShapeOK(vdevOf, t, n \o m, i)
  BY <1>0 DEF T
<1> HIDE DEF k, h, m
<1>8. /\ todo \in Programs /\ todo' \in Programs /\ mem \subseteq Objects
      /\ ref \in [Objects -> Nat] /\ pins \in [Peers -> Peers \cup {NULL}] /\ bss \in [Vdevs -> Peers \cup {NULL}]
      /\ vdevOf \in [Peers -> Vdevs] /\ role[p] \in {"bss", "sta"}
  BY <1>6, Typed, StepPlaces DEF IInv, Types
<1>9. /\ mem' = mem /\ st' = st /\ role' = role /\ vdevOf' = vdevOf /\ made' = made /\ table' = table
      /\ psocPeers' = psocPeers /\ vdevPeers' = vdevPeers /\ bss' = bss /\ vlock' = vlock /\ freeList' = freeList
      /\ work' = work
  BY DEF birth, lists, delay
<1>10. /\ ref[p] = 0
       /\ \A u \in Threads : \A j \in 1..Len(todo[u]) : todo[u][j].op \in Ends /\ todo[u][j].obj = p => u = t /\ j = 1
  <2>1. todo[t][1].op \in Ends /\ todo[t][1].obj = p
    BY <1>3, <1>5 DEF Ends
  <2> QED BY <1>5, <2>1, Ended
<1>11. st[p] \notin {"allocated", "created"} /\ \A q \in Peers : pins[q] # p
  BY <1>5, <1>10, Counted
<1>12. ~Named("attach", p)
  BY <1>3, <1>5, NotAttaching
<1>13. ~Named("free", p)
  <2>1. ASSUME Named("free", p) PROVE FALSE
    <3>1. PICK u \in Threads : \E i \in 1..Len(todo[u]) : todo[u][i] = T("free", p)
      BY <2>1 DEF Named
    <3>2. PICK i \in 1..Len(todo[u]) : todo[u][i] = T("free", p)
      BY <3>1
    <3>3. T("free", p).op = "free" /\ T("free", p).obj = p
      BY DEF T
    <3>4. u = t /\ i = 1
      BY <1>10, <3>2, <3>3 DEF Ends
    <3> QED BY <1>3, <1>5, <3>2, <3>3, <3>4
  <2> QED BY <2>1
<1>14. ~Named("pin", p)
  <2>1. ASSUME Named("pin", p) PROVE FALSE
    <3>1. PICK u \in Threads : \E i \in 1..Len(todo[u]) : todo[u][i] = T("pin", p)
      BY <2>1 DEF Named
    <3>2. PICK i \in 1..Len(todo[u]) : todo[u][i] = T("pin", p)
      BY <3>1
    <3>3. T("pin", p).op = "pin" /\ T("pin", p).obj = p
      BY DEF T
    <3>4. TaskOK(u, T("pin", p))
      BY <3>2, TaskFacts
    <3> QED BY <1>11, <3>3, <3>4 DEF TaskOK
  <2> QED BY <2>1
<1>15. /\ Linked(p) /\ v \in mem /\ ref[v] # 0 /\ vdevPeers[v] # <<>>
  <2>1. Linked(p)
    BY <1>5, <1>12, <1>13 DEF IInv, StageLink
  <2>2. p \in ToSet(vdevPeers[v])
    BY <2>1 DEF Linked
  <2>3. v \in mem
    BY <2>2 DEF IInv, ListLink
  <2>4. vdevPeers[v] # <<>>
    BY <2>2 DEF ToSet
  <2> QED BY <2>1, <2>3, <2>4, Counted
<1>16. /\ b \in Peers \cup {NULL}
       /\ b # NULL => b \in mem /\ b \in Peers /\ Linked(b) /\ role[b] = "bss" /\ b # v /\ ~Named("attach", b)
  <2>1. b \in Peers \cup {NULL}
    BY <1>8
  <2>2. ASSUME b # NULL PROVE b \in mem /\ b \in Peers /\ Linked(b) /\ role[b] = "bss" /\ b # v /\ ~Named("attach", b)
    <3>1. b \in ToSet(vdevPeers[v]) /\ role[b] = "bss"
      BY <2>2 DEF IInv, ListLink
    <3>2. b \in mem /\ vdevOf[b] = v
      BY <3>1 DEF IInv, ListLink
    <3>3. Linked(b)
      BY <3>1, <3>2 DEF Linked
    <3>4. ~Named("attach", b)
      BY <3>3, Attaching
    <3> QED BY <1>2, <2>1, <2>2, <3>1, <3>2, <3>3, <3>4
  <2> QED BY <2>1, <2>2
<1>17. pins[p] = IF role[p] = "sta" THEN b ELSE NULL
  <2>1. pins[p] # NULL => role[p] = "sta" /\ pins[p] = bss[vdevOf[p]]
    BY DEF IInv, PinLink
  <2>2. role[p] = "sta" /\ pins[p] = NULL => bss[vdevOf[p]] = NULL
    BY <1>5, <1>12, <1>13, <1>14 DEF IInv, PinLink
  <2> QED BY <2>1, <2>2
<1>18. pins' \in [Peers -> Peers \cup {NULL}] /\ pins'[p] = NULL /\ \A q \in Peers : q # p => pins'[q] = pins[q]
  BY <1>8
<1>19. ref' \in [Objects -> Nat] /\ ref'[v] = ref[v] + 1 /\ \A o \in Objects : o # v => ref'[o] = ref[o]
  BY <1>2, <1>8 DEF Get
<1>20. Types'
  <2>1. todo' \in [Threads -> Seq([op : Ops, obj : Objects \cup {NULL}])]
    BY <1>8 DEF Programs, Task
  <2>2. Types
    BY DEF IInv
  <2>3. ref' \in [Objects -> Nat] /\ pins' \in [Peers -> Peers \cup {NULL}]
    BY <1>18, <1>19
  <2> QED BY ZenonT(40), <1>9, <2>1, <2>2, <2>3 DEF Types
<1>21. ShapeLink'
  <2>1. ShapeLink
    BY DEF IInv
  <2>2. Len(h) = 1 /\ h[1].op # "pin" /\ \A i \in 1..Len(n) : n[i].op \notin {"init", "del"}
    BY <1>3, <1>7
  <2>3. \A i \in 1..Len(n) : ShapeOK(vdevOf', t, n \o m, i)
    BY <1>7, <1>9
  <2> QED BY <1>6, <1>8, <1>9, <2>1, <2>2, <2>3, StepShapeLink
<1>22. TaskLink'
  <2>1. TaskLink
    BY DEF IInv
  <2>2. \A u \in Threads : \A i \in 1..Len(todo[u]) : (u = t => i > Len(h)) =>
          \A g : g = todo[u][i] /\ TaskOK(u, g) => TaskOK(u, g)'
    BY <1>9 DEF TaskOK, Linked
  <2>3. \A i \in 1..Len(n) : \A g : g = n[i] => TaskOK(t, g)'
    BY <1>5, <1>7, <1>9, <1>15, <1>16 DEF TaskOK
  <2> QED BY <1>6, <1>8, <2>1, <2>2, <2>3, StepTaskLink
<1>23. AloneLink'
  <2>1. ~Named("attach", v)
    BY <1>2, Attaching
  <2>2. \A i \in 1..Len(n) : n[i].op # "attach" /\ ~Named("attach", n[i].obj)
    BY <1>7, <1>12, <1>16, <2>1
  <2> QED BY <1>6, <2>2, StepAloneLink
<1>24. ListLink'
  BY <1>9 DEF IInv, ListLink
<1>25. ASSUME NEW q, q # p, NEW op \in {"attach", "pin", "free", "detach"}
       PROVE  ~Has(h, T(op, q)) /\ ~Has(n, T(op, q))
  <2>1. T(op, q).op = op /\ T(op, q).obj = q
    BY DEF T
  <2>2. ~Has(h, T(op, q))
    BY <1>3, <1>4, <1>25, <2>1
  <2>3. ~Has(n, T(op, q))
    BY <1>7, <1>25, <2>1 DEF Has
  <2> QED BY <2>2, <2>3
<1>26. Named("detach", p)' /\ Named("free", p)' /\ ~Named("attach", p)'
  <2>1. ~Has(n, T("attach", p))
    BY <1>7 DEF Has, T
  <2> QED BY <1>0, <1>6, <1>8, <1>12, <2>1, StepNamed
<1>27. StageLink'
  <2>1. ASSUME NEW q \in mem' \cap Peers
        PROVE  \/ /\ q \in mem /\ (Linked(q)' <=> Linked(q))
                  /\ \A op \in {"attach", "free", "detach"} : ~Has(h, T(op, q)) /\ ~Has(n, T(op, q))
               \/ Linked(q)' <=> ~Named("attach", q)' /\ (Named("free", q)' => Named("detach", q)')
    <3>1. Linked(q)' <=> Linked(q)
      BY <1>9 DEF Linked
    <3> QED BY <1>9, <1>15, <1>25, <1>26, <3>1
  <2> QED BY <1>6, <2>1, StepStageLink
<1>28. \A q \in Peers : PinThird(q)'
  <2>1. UNCHANGED <<role, vdevOf, bss, vdevPeers>> /\ \A x \in Peers : Usable(x) => Usable(x)'
    BY <1>9 DEF Usable
  <2>2. \A i \in 1..Len(n) : n[i].op \notin Makers
    BY <1>7 DEF Makers
  <2> QED BY <1>6, <2>1, <2>2, ThirdKeep
<1>29. ASSUME NEW q \in Peers, q # p, NEW op \in {"attach", "pin", "free"}
       PROVE  Named(op, q)' <=> Named(op, q)
  BY <1>6, <1>8, <1>25, <1>29, SameName
<1>30. PinLink'
  <2>0. PinLink
    BY DEF IInv
  <2>1. ASSUME NEW q \in Peers, pins'[q] # NULL
        PROVE  /\ q \in mem' /\ role'[q] = "sta" /\ pins'[q] = bss'[vdevOf'[q]]
               /\ \A op \in {"attach", "pin", "free"} : ~Named(op, q)'
    <3>1. q # p /\ pins'[q] = pins[q] /\ pins[q] # NULL
      BY <1>18, <2>1
    <3>2. /\ q \in mem /\ role[q] = "sta" /\ pins[q] = bss[vdevOf[q]]
          /\ \A op \in {"attach", "pin", "free"} : ~Named(op, q)
      BY <2>0, <3>1 DEF PinLink
    <3> QED BY <1>9, <1>29, <3>1, <3>2
  <2>2. ASSUME NEW q \in mem' \cap Peers, role'[q] = "sta", pins'[q] = NULL
        PROVE  \E op \in {"attach", "pin", "free"} : Named(op, q)'
    <3>1. CASE q = p
      BY <1>26, <3>1
    <3>2. CASE q # p
      <4>1. q \in mem \cap Peers /\ role[q] = "sta" /\ pins[q] = NULL
        BY <1>9, <1>18, <2>2, <3>2
      <4>2. \E op \in {"attach", "pin", "free"} : Named(op, q)
        BY <2>0, <4>1 DEF PinLink
      <4> QED BY <1>9, <1>29, <3>2, <4>2
    <3> QED BY <3>1, <3>2
  <2>3. \A q \in Peers : \A op \in {"alloc", "attach", "pin"} : Named(op, q)' =>
          IF role'[q] = "sta" THEN bss'[vdevOf'[q]] # NULL /\ st'[bss'[vdevOf'[q]]] = "created" ELSE op # "pin"
    BY <1>28 DEF PinThird, Usable, Makers
  <2> QED BY <2>1, <2>2, <2>3 DEF PinLink, Usable
<1>31. \A x : /\ Count(h, x, Refs(x)) = 0
              /\ Count(h, x, Ends) = Count(n, x, Ends)
  <2>1. \A x : One(k, x, Refs(x)) = 0 /\ One(k, x, Ends) = IF x = p THEN 1 ELSE 0
    BY <1>3 DEF One, Refs, Ends
  <2> QED BY <1>0, <1>4, <2>1
<1>32. RefLink'
  <2> SUFFICES ASSUME NEW o \in mem PROVE ref'[o] = Others(o)' + Pending(o, Refs(o))'
    BY <1>9 DEF RefLink, Refs
  <2>0. o \in Objects /\ ref[o] \in Nat /\ Others(o) \in Nat /\ st'[o] = st[o]
    BY <1>8, <1>9, Counted, Typed
  <2>1. CASE role[p] = "sta" /\ o = b
    <3>1. o \in Peers /\ o # v /\ pins[p] = o
      BY <1>2, <1>16, <1>17, <2>0, <2>1, Kinds
    <3>2. Pinners(o)' = Pinners(o) \ {p} /\ p \in Pinners(o)
      BY <1>18, <2>0, <3>1, Kinds DEF Pinners
    <3>3. IsFiniteSet(Pinners(o)) /\ Cardinality(Pinners(o)) \in Nat
      BY PinnersFinite
    <3>4. Cardinality(Pinners(o)') = Cardinality(Pinners(o)) - 1
      BY ZenonT(40), <3>2, <3>3, FS_RemoveElement
    <3>5. Others(o)' = Others(o) + (-1)
      BY <2>0, <3>1, <3>3, <3>4 DEF Others, Creators
    <3>6. Count(n, o, Refs(o)) = 1 /\ Count(h, o, Refs(o)) = 0 /\ ref'[o] = ref[o]
      BY <1>0, <1>19, <1>31, <2>0, <2>1, <3>1
    <3>7. ref'[o] = ref[o] + (-1) - Count(h, o, Refs(o)) + Count(n, o, Refs(o))
      BY <2>0, <3>6
    <3> QED BY <1>6, <3>5, <3>7, RefKeep
  <2>2. CASE ~(role[p] = "sta" /\ o = b)
    <3>1. o \in Peers => Pinners(o)' = Pinners(o)
      BY <1>17, <1>18, <2>2, Kinds DEF Pinners
    <3>2. Others(o)' = Others(o)
      <4>1. CASE o \in Peers
        BY <2>0, <3>1, <4>1 DEF Others, Creators
      <4>2. CASE o \notin Peers
        <5>1. Len(vdevPeers'[o]) = Len(vdevPeers[o])
          BY <1>9
        <5> QED BY <2>0, <4>2, <5>1, Zenon DEF Others, Creators
      <4> QED BY <4>1, <4>2
    <3>3. Count(n, o, Refs(o)) = (IF o = v THEN 1 ELSE 0) /\ Count(h, o, Refs(o)) = 0
      BY <1>0, <1>31, <2>0, <2>2
    <3>4. ref'[o] = ref[o] + (IF o = v THEN 1 ELSE 0)
      BY <1>19, <2>0
    <3>5. Others(o)' = Others(o) + 0 /\ ref'[o] = ref[o] + 0 - Count(h, o, Refs(o)) + Count(n, o, Refs(o))
      BY <2>0, <3>2, <3>3, <3>4
    <3> QED BY <1>6, <3>5, RefKeep
  <2> QED BY <2>1, <2>2
<1>33. EndLink'
  <2>1. \A o \in mem' : o \in mem /\ Count(h, o, Ends) = Count(n, o, Ends) /\ (ref'[o] = 0 <=> ref[o] = 0)
    BY <1>2, <1>8, <1>9, <1>15, <1>19, <1>31
  <2> QED BY <1>6, <1>9, <2>1, StepEndLink
<1>34. LockLink'
  <2>1. Delayed => \A w \in Vdevs : vlock[w] # t
    BY <1>3, <1>5 DEF IInv, LockLink
  <2> QED BY <1>6, <1>9, <2>1, StepLockLink
<1>35. WorkLink'
  <2>1. \A i \in 1..Len(h) : h[i].op \notin {"sched", "pop"}
    BY <1>3
  <2>2. UNCHANGED delay
    OBVIOUS
  <2> QED BY <1>6, <2>1, <2>2, StepWorkLink
<1>36. BornLink'
  <2>1. ASSUME NEW o \in mem', Unfinished(st'[o])
        PROVE  o \in mem /\ Unfinished(st[o]) /\ \A op \in Births : ~Has(h, T(op, o))
    BY <1>3, <1>4, <1>9, <2>1 DEF T, Births
  <2> QED BY <1>6, <2>1, StepBornLink
<1> QED BY <1>20, <1>21, <1>22, <1>23, <1>24, <1>27, <1>30, <1>32, <1>33, <1>34, <1>35, <1>36 DEF IInv

\* What a destruction ends with.
EndShape(t, p, v, a, m, n) ==
         /\ n \in Seq(Task)
         /\ \A i \in 1..Len(n) : \/ n[i] \in {T("detach", p), T("free", p), T("rel", v)}
                                 \/ \E j \in 1..Len(a) : n[i] = a[j]
         /\ \A i \in 1..Len(n) : ShapeOK(vdevOf, t, n \o m, i)
         /\ Has(n, T("detach", p)) /\ Has(n, T("free", p))
         /\ \A x \in Objects : Count(n, x, Refs(x)) = Count(a, x, Refs(x)) + (IF x = v THEN 1 ELSE 0)
         /\ \A x : Count(n, x, Ends) = Count(a, x, Ends) + (IF x = p THEN 1 ELSE 0)

Releases(a) == a \in Seq(Task) /\ \A i \in 1..Len(a) : a[i].op = "rel" /\ a[i].obj \in Objects

LEMMA EndShapes ==
  ASSUME NEW t, NEW p \in Peers, NEW v \in Vdevs, vdevOf[p] = v, NEW a, Releases(a), NEW m \in Seq(Task), NEW n,
         n = a \o <<T("detach", p), T("free", p), T("rel", v)>>
  PROVE  EndShape(t, p, v, a, m, n)
<1>0. a \in Seq(Task) /\ \A i \in 1..Len(a) : a[i].op = "rel" /\ a[i].obj \in Objects
  BY DEF Releases
<1> DEFINE d == T("detach", p)
           f == T("free", p)
           c == T("rel", v)
           e == <<d, f, c>>
<1>1. p \in Objects /\ v \in Objects /\ v \notin Peers /\ p # v
  BY Kinds
<1>2. /\ d.op = "detach" /\ d.obj = p /\ d \in Task /\ f.op = "free" /\ f.obj = p /\ f \in Task
      /\ c.op = "rel" /\ c.obj = v /\ c \in Task /\ f = T("free", p) /\ c = T("rel", vdevOf[p])
  BY <1>1, OneTask DEF Ops
<1>3. n = a \o e
  OBVIOUS
<1> HIDE DEF d, f, c
<1>4. e \in Seq(Task) /\ Len(e) = 3 /\ e[1] = d /\ e[2] = f /\ e[3] = c
  BY <1>2, ThreeTasks
<1>5. \A x, ops : Count(e, x, ops) = One(d, x, ops) + One(f, x, ops) + One(c, x, ops)
  BY <1>2, CountThree
<1> HIDE DEF e
<1>6. /\ n \in Seq(Task) /\ Len(n) = Len(a) + 3 /\ Len(a) \in Nat
      /\ \A i \in 1 .. Len(a) + 3 : n[i] = IF i <= Len(a) THEN a[i] ELSE e[i - Len(a)]
  <2>1. \A x, y \in Seq(Task) : /\ x \o y \in Seq(Task) /\ Len(x \o y) = Len(x) + Len(y)
                                /\ \A i \in 1 .. Len(x) + Len(y) : (x \o y)[i] = IF i <= Len(x) THEN x[i] ELSE y[i - Len(x)]
    BY ConcatProperties
  <2>2. Len(a) \in Nat
    BY <1>0, LenProperties
  <2>3. /\ a \o e \in Seq(Task) /\ Len(a \o e) = Len(a) + Len(e)
        /\ \A i \in 1 .. Len(a) + Len(e) : (a \o e)[i] = IF i <= Len(a) THEN a[i] ELSE e[i - Len(a)]
    BY <1>0, <1>4, <2>1, Zenon
  <2> QED BY <1>3, <1>4, <2>2, <2>3
<1> DEFINE l == Len(a)
<1>7. n[l + 1] = d /\ n[l + 2] = f /\ n[l + 3] = c /\ \A i \in 1..l : n[i] = a[i]
  <2>1. /\ l + 1 \in 1 .. l + 3 /\ l + 2 \in 1 .. l + 3 /\ l + 3 \in 1 .. l + 3
        /\ ~(l + 1 <= l) /\ ~(l + 2 <= l) /\ ~(l + 3 <= l)
        /\ l + 1 - l = 1 /\ l + 2 - l = 2 /\ l + 3 - l = 3
    BY <1>6
  <2>2. n[l + 1] = e[l + 1 - l] /\ n[l + 2] = e[l + 2 - l] /\ n[l + 3] = e[l + 3 - l]
    BY <1>0, <1>6, <2>1
  <2>3. \A i \in 1..l : n[i] = a[i]
    BY <1>6
  <2> QED BY <1>4, <2>1, <2>2, <2>3
<1>8. \A i \in 1..Len(n) : i \in 1..l \/ i = l + 1 \/ i = l + 2 \/ i = l + 3
  BY <1>6
<1>9. \A i \in 1..Len(n) : n[i] \in {d, f, c} \/ \E j \in 1..Len(a) : n[i] = a[j]
  BY <1>7, <1>8
<1>10. Has(n, d) /\ Has(n, f)
  <2>1. l + 1 \in 1..Len(n) /\ l + 2 \in 1..Len(n)
    BY <1>6
  <2> QED BY <1>7, <2>1 DEF Has
<1>11. ASSUME NEW i \in 1..Len(n) PROVE ShapeOK(vdevOf, t, n \o m, i)
  <2> DEFINE s == n \o m
  <2>1. /\ Len(s) = l + 3 + Len(m) /\ Len(m) \in Nat /\ \A j \in 1..l + 3 : s[j] = n[j]
    <3>1. \A x, y \in Seq(Task) : /\ x \o y \in Seq(Task) /\ Len(x \o y) = Len(x) + Len(y)
                                  /\ \A j \in 1 .. Len(x) + Len(y) : (x \o y)[j] = IF j <= Len(x) THEN x[j] ELSE y[j - Len(x)]
      BY ConcatProperties
    <3>2. Len(m) \in Nat
      BY LenProperties
    <3> QED BY <1>6, <3>1, <3>2
  <2> SUFFICES ShapeOK(vdevOf, t, s, i)
    OBVIOUS
  <2> HIDE DEF s
  <2>2. s[l + 1] = d /\ s[l + 2] = f /\ s[l + 3] = c /\ \A j \in 1..l : s[j] = a[j]
    BY SMTT(30), <1>0, <1>6, <1>7, <2>1
  <2>3. CASE i \in 1..l
    BY <1>0, <2>2, <2>3, ShapeFree DEF ObjectsOf
  <2>4. CASE i = l + 1
    <3>1. i + 1 = l + 2 /\ i < Len(s)
      BY <1>6, <2>1, <2>4
    <3> QED BY <1>2, <2>2, <2>4, <3>1 DEF ShapeOK, ObjectsOf
  <2>5. CASE i = l + 2
    <3>1. i + 1 = l + 3 /\ i < Len(s)
      BY <1>6, <2>1, <2>5
    <3> QED BY <1>1, <1>2, <2>2, <2>5, <3>1 DEF ShapeOK, ObjectsOf
  <2>6. CASE i = l + 3
    BY <1>1, <1>2, <2>2, <2>6, ShapeFree DEF ObjectsOf
  <2> QED BY <1>8, <2>3, <2>4, <2>5, <2>6
<1>12. ASSUME NEW x, NEW ops PROVE Count(n, x, ops) = Count(a, x, ops) + Count(e, x, ops) /\ Count(a, x, ops) \in Nat
  <2>1. \A y, z \in Seq(Task) : Count(y \o z, x, ops) = Count(y, x, ops) + Count(z, x, ops)
    BY CountConcat
  <2>2. Count(a, x, ops) \in Nat
    BY <1>0, HitsFinite
  <2> QED BY <1>0, <1>3, <1>4, <2>1, <2>2, Zenon
<1>13. ASSUME NEW x \in Objects PROVE Count(n, x, Refs(x)) = Count(a, x, Refs(x)) + (IF x = v THEN 1 ELSE 0)
  <2>1. One(d, x, Refs(x)) = 0 /\ One(f, x, Refs(x)) = 0 /\ One(c, x, Refs(x)) = IF x = v THEN 1 ELSE 0
    BY <1>2 DEF One, Refs
  <2>2. Count(e, x, Refs(x)) = IF x = v THEN 1 ELSE 0
    BY <1>5, <2>1
  <2> QED BY <1>12, <2>2
<1>14. ASSUME NEW x PROVE Count(n, x, Ends) = Count(a, x, Ends) + (IF x = p THEN 1 ELSE 0)
  <2>1. One(d, x, Ends) = 0 /\ (One(f, x, Ends) = IF x = p THEN 1 ELSE 0) /\ One(c, x, Ends) = 0
    BY <1>2 DEF One, Ends
  <2>2. Count(e, x, Ends) = IF x = p THEN 1 ELSE 0
    BY <1>5, <2>1
  <2> QED BY <1>12, <2>2
<1> QED BY <1>6, <1>9, <1>10, <1>11, <1>13, <1>14 DEF d, f, c, EndShape

LEMMA PeerDestroyIInv ==
  ASSUME IInv, NEW t \in Threads, NEW p \in Peers, PeerDestroy(t, p)
  PROVE  IInv'
<1>1. PICK v \in Vdevs : vdevOf[p] = v
  BY DEF IInv, Types
<1>2. PICK b \in Peers \cup {NULL} : bss[v] = b
  BY DEF IInv, Types
<1>a. PICK a : a = IF role[p] = "sta" /\ b # NULL THEN <<T("rel", b)>> ELSE <<>>
  OBVIOUS
<1>6. PICK n : n = a \o <<T("detach", p), T("free", p), T("rel", v)>>
  OBVIOUS
<1>b. PICK m : m = Tail(todo[t])
  OBVIOUS
<1>3. /\ Doing(t, T("destroy", p)) /\ Get(v) /\ Then(t, n) /\ pins' = [pins EXCEPT ![p] = NULL]
      /\ UNCHANGED <<mem, st, birth, lists, vlock, delay>>
  BY <1>1, <1>2, <1>a, <1>6 DEF PeerDestroy, FreeTasks
<1>4. m \in Seq(Task)
  BY <1>3, <1>b, DoingStep
<1>5. /\ a \in Seq(Task)
      /\ \A i \in 1..Len(a) : a[i] = T("rel", b) /\ role[p] = "sta" /\ b # NULL /\ a[i].op = "rel" /\ a[i].obj \in Objects
      /\ \A x \in Objects : Count(a, x, Refs(x)) = IF role[p] = "sta" /\ x = b THEN 1 ELSE 0
      /\ \A x : Count(a, x, Ends) = 0
  <2>1. CASE role[p] = "sta" /\ b # NULL
    <3> DEFINE k == T("rel", b)
               s == <<k>>
    <3>1. k \in Task /\ k.op = "rel" /\ k.obj = b /\ b \in Objects
      BY <1>2, <2>1, Kinds, OneTask DEF Ops
    <3>2. s \in Seq(Task) /\ Len(s) = 1 /\ s[1] = k /\ \A x, ops : Count(s, x, ops) = One(k, x, ops)
      BY <3>1, CountOne
    <3>3. a = s
      BY <1>a, <2>1
    <3> HIDE DEF s, k
    <3>4. \A x : One(k, x, Ends) = 0 /\ (One(k, x, Refs(x)) = IF x = b THEN 1 ELSE 0)
      BY <3>1 DEF One, Ends, Refs
    <3>5. \A i \in 1..Len(s) : s[i] = k
      BY <3>2
    <3>6. \A i \in 1..Len(s) : s[i] = T("rel", b) /\ s[i].op = "rel" /\ s[i].obj \in Objects
      BY <3>1, <3>5 DEF k
    <3>7. /\ \A x \in Objects : Count(s, x, Refs(x)) = IF role[p] = "sta" /\ x = b THEN 1 ELSE 0
          /\ \A x : Count(s, x, Ends) = 0
      BY <2>1, <3>2, <3>4
    <3> QED BY <2>1, <3>2, <3>3, <3>6, <3>7
  <2>2. CASE ~(role[p] = "sta" /\ b # NULL)
    <3>1. a = <<>>
      BY <1>a, <2>2
    <3>2. a \in Seq(Task) /\ \A i \in 1..Len(a) : FALSE
      BY <3>1
    <3>3. \A x, ops : Count(a, x, ops) = 0
      BY <3>1, CountFew
    <3>4. \A x \in Objects : ~(role[p] = "sta" /\ x = b)
      BY <2>2, Kinds
    <3> QED BY <3>2, <3>3, <3>4
  <2> QED BY <2>1, <2>2
<1>7. /\ n \in Seq(Task)
      /\ \A i \in 1..Len(n) : \/ n[i] \in {T("detach", p), T("free", p), T("rel", v)}
                              \/ \E j \in 1..Len(a) : n[i] = a[j]
      /\ \A i \in 1..Len(n) : ShapeOK(vdevOf, t, n \o m, i)
      /\ Has(n, T("detach", p)) /\ Has(n, T("free", p))
      /\ \A x \in Objects : Count(n, x, Refs(x)) = Count(a, x, Refs(x)) + (IF x = v THEN 1 ELSE 0)
      /\ \A x : Count(n, x, Ends) = Count(a, x, Ends) + (IF x = p THEN 1 ELSE 0)
  <2>1. Releases(a)
    BY <1>5 DEF Releases
  <2>2. EndShape(t, p, v, a, m, n)
    BY <1>1, <1>4, <1>6, <2>1, EndShapes
  <2> QED BY <2>2 DEF EndShape
<1>8. \A i \in 1..Len(n) : /\ \/ n[i] \in {T("detach", p), T("free", p), T("rel", v)}
                              \/ role[p] = "sta" /\ b # NULL /\ n[i] = T("rel", b)
                           /\ ShapeOK(vdevOf, t, n \o m, i)
  BY <1>5, <1>7
<1>9. \A x \in Objects : Count(n, x, Refs(x))
                              = (IF x = v THEN 1 ELSE 0) + (IF role[p] = "sta" /\ x = b THEN 1 ELSE 0)
  BY <1>5, <1>7
<1>10. \A x : Count(n, x, Ends) = IF x = p THEN 1 ELSE 0
  BY <1>5, <1>7
<1>11. \A i \in 1..Len(n) : /\ \/ n[i] \in {T("detach", p), T("free", p), T("rel", v)}
                               \/ role[p] = "sta" /\ b # NULL /\ n[i] = T("rel", b)
                            /\ ShapeOK(vdevOf, t, n \o Tail(todo[t]), i)
  BY <1>8, <1>b
<1>12. DestroyTasks(t, p, v, b, n)
  BY <1>7, <1>9, <1>10, <1>11 DEF DestroyTasks
<1> QED BY <1>1, <1>2, <1>3, <1>12, DestroyedIInv

LEMMA PeerDetachIInv ==
  ASSUME IInv, NEW t \in Threads, NEW p \in Peers, NEW v \in Vdevs, vdevOf[p] = v, PeerDetach(t, p)
  PROVE  IInv'
<1> DEFINE k == T("detach", p)
           c == T("rel", v)
           h == <<k>>
           n == <<c>>
           m == Tail(todo[t])
<1>1. /\ Doing(t, k) /\ vlock[v] = NULL /\ vdevPeers' = [vdevPeers EXCEPT ![v] = Without(@, p)]
      /\ bss' = (IF bss[v] = p THEN [bss EXCEPT ![v] = NULL] ELSE bss)
      /\ Then(t, n)
      /\ UNCHANGED <<mem, st, ref, pins, birth, table, psocPeers, vlock, delay>>
  BY DEF PeerDetach
<1>2. p \in Objects /\ v \in Objects /\ v \notin Peers /\ p \notin Vdevs /\ p # v /\ NULL \notin Threads /\ p # NULL
  BY Kinds
<1>3. /\ k.op = "detach" /\ k.obj = p /\ k \in Task /\ h \in Seq(Task) /\ Len(h) = 1 /\ h[1] = k
      /\ c.op = "rel" /\ c.obj = v /\ c \in Task /\ n \in Seq(Task) /\ Len(n) = 1 /\ n[1] = c
  BY <1>2, OneTask DEF Ops
<1>4. /\ \A x, ops : Count(h, x, ops) = One(k, x, ops) /\ Count(n, x, ops) = One(c, x, ops)
      /\ (\A x : Has(h, x) <=> x = k) /\ (\A x : Has(n, x) <=> x = c)
  BY <1>3, CountOne, HasFew
<1>5. /\ 1 \in 1..Len(todo[t]) /\ todo[t][1] = k /\ p \in mem
      /\ 2 \in 1..Len(todo[t]) /\ todo[t][2] = T("free", p)
  <2>1. TaskOK(t, k) /\ 1 \in 1..Len(todo[t]) /\ todo[t][1] = k /\ ShapeOK(vdevOf, t, todo[t], 1) /\ Len(todo[t]) \in Nat
    BY <1>1, DoingStep
  <2>2. p \in mem
    BY <1>3, <2>1 DEF TaskOK
  <2>3. 1 < Len(todo[t]) /\ todo[t][1 + 1] = T("free", p)
    BY <1>3, <2>1 DEF ShapeOK
  <2> QED BY <2>1, <2>2, <2>3
<1>6. Step(t, h, m, n)
  BY <1>1, <1>3, DoingStep
<1> HIDE DEF k, c, h, m, n
<1>7. \A i \in 1..Len(n) : n[i] = c
  BY <1>3
<1>8. /\ todo \in Programs /\ todo' \in Programs /\ mem \subseteq Objects
      /\ ref \in [Objects -> Nat] /\ pins \in [Peers -> Peers \cup {NULL}] /\ bss \in [Vdevs -> Peers \cup {NULL}]
      /\ vdevOf \in [Peers -> Vdevs] /\ vdevPeers \in [Vdevs -> Seq(Peers)] /\ IsInjective(vdevPeers[v])
  BY ZenonT(40), <1>6, Typed, StepPlaces DEF IInv, Types
<1>9. /\ mem' = mem /\ st' = st /\ role' = role /\ vdevOf' = vdevOf /\ made' = made /\ table' = table /\ ref' = ref
      /\ psocPeers' = psocPeers /\ pins' = pins /\ vlock' = vlock /\ freeList' = freeList
      /\ work' = work
  BY <1>1 DEF birth, delay
<1>10. /\ ref[p] = 0 /\ T("free", p).op = "free" /\ T("free", p).obj = p
       /\ \A u \in Threads : \A j \in 1..Len(todo[u]) : todo[u][j].op \in Ends /\ todo[u][j].obj = p => u = t /\ j = 2
  <2>1. T("free", p).op = "free" /\ T("free", p).obj = p
    BY DEF T
  <2>2. todo[t][2].op \in Ends /\ todo[t][2].obj = p
    BY <1>5, <2>1 DEF Ends
  <2> QED BY <1>5, <2>1, <2>2, Ended
<1>11. st[p] \notin {"allocated", "created"} /\ \A q \in Peers : pins[q] # p
  BY <1>5, <1>10, Counted
<1>12. ~Named("attach", p) /\ Named("free", p) /\ Named("detach", p)
  <2>1. ~Named("attach", p)
    BY <1>3, <1>5, NotAttaching
  <2>2. Named("free", p)
    BY <1>5 DEF Named
  <2>3. Named("detach", p)
    BY <1>5 DEF Named, k
  <2> QED BY <2>1, <2>2, <2>3
<1>13. /\ Linked(p) /\ p \in ToSet(vdevPeers[v]) /\ v \in mem /\ vdevPeers[v] # <<>> /\ pins[p] = NULL
  <2>1. Linked(p)
    BY <1>5, <1>12 DEF IInv, StageLink
  <2>2. p \in ToSet(vdevPeers[v])
    BY <2>1 DEF Linked
  <2>3. v \in mem
    BY <2>2 DEF IInv, ListLink
  <2>4. vdevPeers[v] # <<>>
    BY <2>2 DEF ToSet
  <2>5. pins[p] = NULL
    BY <1>12 DEF IInv, PinLink
  <2> QED BY <2>1, <2>2, <2>3, <2>4, <2>5
<1>14. ASSUME NEW u \in Threads, NEW i \in 1..Len(todo[u]), todo[u][i] = k PROVE u = t /\ i = 1
  <2>1. ShapeOK(vdevOf, u, todo[u], i) /\ Len(todo[u]) \in Nat
    BY <1>14, TaskFacts, Typed
  <2>2. i < Len(todo[u]) /\ todo[u][i + 1] = T("free", p)
    BY <1>3, <1>14, <2>1 DEF ShapeOK
  <2>3. i + 1 \in 1..Len(todo[u]) /\ i \in Int
    BY <2>1, <2>2
  <2>4. u = t /\ i + 1 = 2
    BY <1>10, <2>2, <2>3 DEF Ends
  <2> QED BY <2>3, <2>4
<1>15. /\ vdevPeers'[v] \in Seq(Peers) /\ IsInjective(vdevPeers'[v]) /\ ToSet(vdevPeers'[v]) = ToSet(vdevPeers[v]) \ {p}
       /\ Len(vdevPeers'[v]) = Len(vdevPeers[v]) - 1
       /\ \A w \in Vdevs : w # v => vdevPeers'[w] = vdevPeers[w]
       /\ vdevPeers' \in [Vdevs -> Seq(Peers)]
  <2>1. vdevPeers[v] \in Seq(Peers)
    BY <1>8
  <2>2. vdevPeers'[v] = Without(vdevPeers[v], p) /\ \A w \in Vdevs : w # v => vdevPeers'[w] = vdevPeers[w]
    BY <1>1, <1>8
  <2>3. /\ Without(vdevPeers[v], p) \in Seq(Peers) /\ IsInjective(Without(vdevPeers[v], p))
        /\ ToSet(Without(vdevPeers[v], p)) = ToSet(vdevPeers[v]) \ {p}
        /\ Len(Without(vdevPeers[v], p)) = Len(vdevPeers[v]) - 1
    BY <1>8, <1>13, <2>1, WithoutList
  <2>4. vdevPeers' \in [Vdevs -> Seq(Peers)]
    BY <1>1, <1>8, <2>3
  <2> QED BY <2>2, <2>3, <2>4
<1>16. /\ bss' \in [Vdevs -> Peers \cup {NULL}]
       /\ \A w \in Vdevs : bss'[w] = IF w = v /\ bss[v] = p THEN NULL ELSE bss[w]
  BY <1>1, <1>8
<1>17. Types'
  <2>1. todo' \in [Threads -> Seq([op : Ops, obj : Objects \cup {NULL}])]
    BY <1>8 DEF Programs, Task
  <2>2. Types
    BY DEF IInv
  <2>3. \A list \in {psocPeers', freeList'} \cup {vdevPeers'[w] : w \in Vdevs} : IsInjective(list)
    <3>1. IsInjective(psocPeers) /\ IsInjective(freeList) /\ \A w \in Vdevs : IsInjective(vdevPeers[w])
      BY <2>2 DEF Types
    <3>2. ASSUME NEW w \in Vdevs PROVE IsInjective(vdevPeers'[w])
      <4>1. CASE w = v
        BY <1>15, <4>1
      <4>2. CASE w # v
        BY <1>15, <3>1, <4>2
      <4> QED BY <4>1, <4>2
    <3>3. IsInjective(psocPeers') /\ IsInjective(freeList')
      BY <1>9, <3>1
    <3> QED BY <3>2, <3>3
  <2>4. vdevPeers' \in [Vdevs -> Seq(Peers)] /\ bss' \in [Vdevs -> Peers \cup {NULL}]
    BY <1>15, <1>16
  <2>5. /\ mem' \subseteq Objects /\ st' \in [Objects -> {"uncounted", "allocated", "created", "deleted"}] /\ ref' \in [Objects -> Nat]
        /\ role' \in [Peers -> {"bss", "sta"}] /\ vdevOf' \in [Peers -> Vdevs] /\ pins' \in [Peers -> Peers \cup {NULL}]
        /\ table' \subseteq Vdevs /\ psocPeers' \in Seq(Peers)
        /\ vlock' \in [Vdevs -> Threads \cup {NULL}] /\ freeList' \in Seq(Peers) /\ work' \in BOOLEAN
        /\ made' \in [peers : 0..MaxPeers, vdevs : 0..MaxVdevs]
    BY <1>9, <2>2 DEF Types
  <2> QED BY <2>1, <2>3, <2>4, <2>5 DEF Types
<1>18. ShapeLink'
  <2>1. ShapeLink
    BY DEF IInv
  <2>2. Len(h) = 1 /\ h[1].op # "pin" /\ \A i \in 1..Len(n) : n[i].op \notin {"init", "del"}
    BY <1>3, <1>7
  <2>3. \A i \in 1..Len(n) : ShapeOK(vdevOf', t, n \o m, i)
    <3> SUFFICES ASSUME NEW i \in 1..Len(n) PROVE ShapeOK(vdevOf', t, n \o m, i)
      OBVIOUS
    <3>1. (n \o m)[i] = n[i]
      BY <1>6, <1>8, StepPlaces
    <3>2. (n \o m)[i] = c
      BY <1>7, <3>1
    <3>3. c.op \in {"rel", "next", "destroy", "sched"} /\ c.obj \in ObjectsOf(c.op)
      BY <1>2, <1>3 DEF ObjectsOf
    <3> QED BY <3>2, <3>3, ShapeFree
  <2> QED BY <1>6, <1>8, <1>9, <2>1, <2>2, <2>3, StepShapeLink
<1>19. ASSUME NEW q \in Peers, q # p PROVE Linked(q)' <=> Linked(q)
  BY <1>8, <1>9, <1>15, <1>19 DEF Linked
<1>20. TaskLink'
  <2>1. TaskLink
    BY DEF IInv
  <2>2. ASSUME NEW u \in Threads, NEW i \in 1..Len(todo[u]), NEW g, g = todo[u][i], TaskOK(u, g)
        PROVE  TaskOK(u, g)'
    <3>1. g.op = "visit" => g.obj \in Peers /\ Linked(g.obj) /\ vlock[vdevOf[g.obj]] = u
      BY <2>2, TaskFacts DEF TaskOK, ObjectsOf
    <3>2. g.op = "visit" => g.obj # p
      BY <1>1, <1>2, <3>1
    <3>3. g.op = "visit" => Linked(g.obj)'
      BY <1>19, <3>1, <3>2
    <3> QED BY <1>9, <2>2, <3>3 DEF TaskOK
  <2>3. \A u \in Threads : \A i \in 1..Len(todo[u]) : (u = t => i > Len(h)) =>
          \A g : g = todo[u][i] /\ TaskOK(u, g) => TaskOK(u, g)'
    BY <2>2
  <2>4. \A i \in 1..Len(n) : \A g : g = n[i] => TaskOK(t, g)'
    BY <1>3, <1>7, <1>9, <1>13 DEF TaskOK
  <2> QED BY <1>6, <1>8, <2>1, <2>3, <2>4, StepTaskLink
<1>21. AloneLink'
  <2>1. ~Named("attach", v)
    BY <1>2, Attaching
  <2>2. \A i \in 1..Len(n) : n[i].op # "attach" /\ ~Named("attach", n[i].obj)
    BY <1>3, <1>7, <2>1
  <2> QED BY <1>6, <2>2, StepAloneLink
<1>22. ListLink'
  <2>1. ListLink
    BY DEF IInv
  <2>2. ToSet(psocPeers') = mem' \cap Peers /\ table' = mem' \cap Vdevs /\ ToSet(freeList') \subseteq mem'
    BY <1>9, <2>1 DEF ListLink
  <2>3. ASSUME NEW w \in Vdevs, NEW q \in ToSet(vdevPeers'[w]) PROVE q \in mem' /\ w \in mem' /\ vdevOf'[q] = w
    <3>1. q \in ToSet(vdevPeers[w])
      BY <1>15, <2>3
    <3> QED BY <1>9, <2>1, <3>1 DEF ListLink
  <2>4. ASSUME NEW w \in Vdevs, bss'[w] # NULL
        PROVE  bss'[w] \in ToSet(vdevPeers'[w]) /\ role'[bss'[w]] = "bss"
    <3>1. bss'[w] = bss[w] /\ (w = v => bss[w] # p)
      BY <1>16, <2>4
    <3>2. bss[w] \in ToSet(vdevPeers[w]) /\ role[bss[w]] = "bss"
      BY <2>1, <2>4, <3>1 DEF ListLink
    <3>3. bss[w] \in ToSet(vdevPeers'[w])
      BY <1>15, <3>1, <3>2
    <3> QED BY <1>9, <3>1, <3>2, <3>3
  <2> QED BY <2>2, <2>3, <2>4 DEF ListLink
<1>23. ASSUME NEW q, NEW op \in {"attach", "pin", "free", "detach"}, q # p \/ op # "detach"
       PROVE  ~Has(h, T(op, q)) /\ ~Has(n, T(op, q))
  <2>1. T(op, q).op = op /\ T(op, q).obj = q
    BY DEF T
  <2> QED BY <1>3, <1>4, <1>23, <2>1
<1>35. \A w \in Threads : \A e \in 1..Len(todo'[w]) :
         \/ w = t /\ \E i \in 1..Len(n) : todo'[w][e] = n[i]
         \/ \E i \in 1..Len(todo[w]) : (w = t => i > Len(h)) /\ todo'[w][e] = todo[w][i]
  <2>1. todo \in Programs
    BY <1>8
  <2> QED BY <1>6, <2>1, StepOrigin
<1>24. Named("free", p)' /\ ~Named("detach", p)'
  <2>1. Named("free", p)'
    BY <1>6, <1>8, <1>12, <1>23, StepNamed
  <2>2. ASSUME NEW u \in Threads, NEW j \in 1..Len(todo'[u]), todo'[u][j] = k PROVE FALSE
    <3>1. \/ u = t /\ \E i \in 1..Len(n) : todo'[u][j] = n[i]
          \/ \E i \in 1..Len(todo[u]) : (u = t => i > Len(h)) /\ todo'[u][j] = todo[u][i]
      BY <1>35, <2>2
    <3>2. \A i \in 1..Len(n) : n[i] # k
      BY <1>3, <1>7
    <3>3. PICK i \in 1..Len(todo[u]) : (u = t => i > Len(h)) /\ todo[u][i] = k
      BY <2>2, <3>1, <3>2
    <3> QED BY <1>3, <1>14, <3>3
  <2>3. ~Named("detach", p)'
    BY <2>2 DEF Named, k
  <2> QED BY <2>1, <2>3
<1>25. StageLink'
  <2>1. ASSUME NEW q \in mem' \cap Peers
        PROVE  \/ /\ q \in mem /\ (Linked(q)' <=> Linked(q))
                  /\ \A op \in {"attach", "free", "detach"} : ~Has(h, T(op, q)) /\ ~Has(n, T(op, q))
               \/ Linked(q)' <=> ~Named("attach", q)' /\ (Named("free", q)' => Named("detach", q)')
    <3>1. CASE q = p
      <4>1. ~Linked(p)'
        BY <1>9, <1>15 DEF Linked
      <4> QED BY <1>24, <3>1, <4>1
    <3>2. CASE q # p
      BY <1>9, <1>19, <1>23, <3>2
    <3> QED BY <3>1, <3>2
  <2> QED BY <1>6, <2>1, StepStageLink
<1>26. ASSUME NEW q \in Peers, NEW op \in {"attach", "pin", "free"}
       PROVE  Named(op, q)' <=> Named(op, q)
  BY <1>6, <1>8, <1>23, SameName
<1>27. ASSUME NEW q \in Peers, NEW op \in {"alloc", "attach", "pin"}, Named(op, q)'
       PROVE  IF role'[q] = "sta"
              THEN bss'[vdevOf'[q]] # NULL /\ st'[bss'[vdevOf'[q]]] = "created"
              ELSE op # "pin"
  <2>2. Named(op, q)
    <3>1. ~Has(n, T(op, q))
      BY <1>3, <1>4 DEF T
    <3> QED BY <1>6, <1>8, <1>27, <3>1, StepNamed
  <2>3. IF role[q] = "sta" THEN bss[vdevOf[q]] # NULL /\ st[bss[vdevOf[q]]] = "created" ELSE op # "pin"
    BY <2>2 DEF IInv, PinLink, Usable
  <2>4. vdevOf[q] \in Vdevs
    BY <1>8
  <2>5. CASE role[q] = "sta"
    <3>1. bss[vdevOf[q]] # p
      BY <1>11, <2>3, <2>5
    <3>2. bss'[vdevOf[q]] = bss[vdevOf[q]]
      BY <1>16, <2>4, <3>1
    <3> QED BY <1>9, <2>3, <2>5, <3>2
  <2>6. CASE role[q] # "sta"
    BY <1>9, <2>3, <2>6
  <2> QED BY <2>5, <2>6
<1>28. PinLink'
  <2>0. PinLink
    BY DEF IInv
  <2>1. ASSUME NEW q \in Peers, pins'[q] # NULL
        PROVE  /\ q \in mem' /\ role'[q] = "sta" /\ pins'[q] = bss'[vdevOf'[q]]
               /\ \A op \in {"attach", "pin", "free"} : ~Named(op, q)'
    <3>1. /\ q \in mem /\ role[q] = "sta" /\ pins[q] = bss[vdevOf[q]]
          /\ \A op \in {"attach", "pin", "free"} : ~Named(op, q)
      BY <1>9, <2>0, <2>1 DEF PinLink
    <3>2. vdevOf[q] \in Vdevs /\ bss[vdevOf[q]] # p
      BY <1>8, <1>11, <3>1
    <3>3. bss'[vdevOf[q]] = bss[vdevOf[q]]
      BY <1>16, <3>2
    <3> QED BY <1>9, <1>26, <3>1, <3>3
  <2>2. ASSUME NEW q \in mem' \cap Peers, role'[q] = "sta", pins'[q] = NULL
        PROVE  \E op \in {"attach", "pin", "free"} : Named(op, q)'
    <3>1. q \in mem \cap Peers /\ role[q] = "sta" /\ pins[q] = NULL /\ vdevOf[q] \in Vdevs
      BY <1>8, <1>9, <2>2
    <3>2. \E op \in {"attach", "pin", "free"} : Named(op, q)
      BY <2>0, <3>1 DEF PinLink
    <3>3. bss[vdevOf[q]] = NULL => bss'[vdevOf[q]] = NULL
      BY <1>16, <3>1
    <3> QED BY <1>9, <1>26, <3>2, <3>3
  <2> QED BY <1>27, <2>1, <2>2 DEF PinLink, Usable
<1>29. \A x : /\ Count(h, x, Refs(x)) = 0 /\ (Count(n, x, Refs(x)) = IF x = v THEN 1 ELSE 0)
              /\ Count(h, x, Ends) = 0 /\ Count(n, x, Ends) = 0
  <2>1. \A x : /\ One(k, x, Refs(x)) = 0 /\ (One(c, x, Refs(x)) = IF x = v THEN 1 ELSE 0)
               /\ One(k, x, Ends) = 0 /\ One(c, x, Ends) = 0
    BY <1>3 DEF One, Refs, Ends
  <2> QED BY <1>4, <2>1
<1>30. RefLink'
  <2> SUFFICES ASSUME NEW o \in mem PROVE ref'[o] = Others(o)' + Pending(o, Refs(o))'
    BY <1>9 DEF RefLink, Refs
  <2>0. o \in Objects /\ ref[o] \in Nat /\ Others(o) \in Nat /\ st'[o] = st[o] /\ ref'[o] = ref[o]
    BY <1>8, <1>9, Counted, Typed
  <2>1. CASE o = v
    <3>1. Len(vdevPeers[v]) \in Nat
      BY Typed
    <3>2. Others(o)' = Others(o) + (-1)
      <4>1. /\ Others(o) = Creators(o) + Len(vdevPeers[o])
            /\ Others(o)' = Creators(o)' + Len(vdevPeers'[o])
        BY <1>2, <2>1, Zenon DEF Others, Creators
      <4>2. Len(vdevPeers'[o]) = Len(vdevPeers[o]) - 1 /\ Len(vdevPeers[o]) \in Nat /\ st'[o] = st[o]
        BY <1>15, <2>0, <2>1, <3>1
      <4>3. \A e, x, y : x \in Nat /\ e \in {0, 1} /\ y = x - 1 => e + y = e + x + (-1)
        OBVIOUS
      <4>4. Creators(o) \in {0, 1}
        BY DEF Creators
      <4>5. Creators(o)' = Creators(o)
        BY <4>2 DEF Creators
      <4> QED BY <4>1, <4>2, <4>3, <4>4, <4>5
    <3>3. ref'[o] = ref[o] + (-1) - Count(h, o, Refs(o)) + Count(n, o, Refs(o))
      BY <1>29, <2>0, <2>1
    <3> QED BY <1>6, <3>2, <3>3, RefKeep
  <2>2. CASE o # v
    <3>2. Others(o)' = Others(o)
      <4>0. Pinners(o)' = Pinners(o)
        BY <1>9 DEF Pinners
      <4>1. CASE o \in Peers
        BY <2>0, <4>0, <4>1 DEF Others, Creators
      <4>2. CASE o \notin Peers
        <5>0. o \in Vdevs
          BY <2>0, <4>2, Kinds
        <5>1. Len(vdevPeers'[o]) = Len(vdevPeers[o])
          BY <1>15, <2>2, <5>0
        <5> QED BY <2>0, <4>2, <5>1, Zenon DEF Others, Creators
      <4> QED BY <4>1, <4>2
    <3>5. Others(o)' = Others(o) + 0 /\ ref'[o] = ref[o] + 0 - Count(h, o, Refs(o)) + Count(n, o, Refs(o))
      BY <1>29, <2>0, <2>2, <3>2
    <3> QED BY <1>6, <3>5, RefKeep
  <2> QED BY <2>1, <2>2
<1>31. EndLink'
  <2>1. \A o \in mem' : o \in mem /\ Count(h, o, Ends) = Count(n, o, Ends) /\ (ref'[o] = 0 <=> ref[o] = 0)
    BY <1>9, <1>29
  <2> QED BY <1>6, <1>9, <2>1, StepEndLink
<1>32. LockLink'
  <2>1. \A i \in 1..Len(n) : n[i].op \notin {"destroy", "detach"}
    BY <1>3, <1>7
  <2> QED BY <1>6, <1>9, <2>1, StepLockLink
<1>33. WorkLink'
  <2>1. \A i \in 1..Len(h) : h[i].op \notin {"sched", "pop"}
    BY <1>3
  <2>2. UNCHANGED delay
    BY <1>1
  <2> QED BY <1>6, <2>1, <2>2, StepWorkLink
<1>34. BornLink'
  <2>1. ASSUME NEW o \in mem', Unfinished(st'[o])
        PROVE  o \in mem /\ Unfinished(st[o]) /\ \A op \in Births : ~Has(h, T(op, o))
    BY <1>3, <1>4, <1>9, <2>1 DEF T, Births
  <2> QED BY <1>6, <2>1, StepBornLink
<1> QED BY <1>17, <1>18, <1>20, <1>21, <1>22, <1>25, <1>28, <1>30, <1>31, <1>32, <1>33, <1>34 DEF IInv

-----------------------------------------------------------------------------
(* The invariant holds *)

LEMMA InitIInv ==
  ASSUME Init
  PROVE  IInv
<1>1. /\ mem = {} /\ psocPeers = <<>> /\ table = {} /\ freeList = <<>> /\ work = FALSE
      /\ todo = [t \in Threads |-> <<>>] /\ pins = [p \in Peers |-> NULL]
      /\ vdevPeers = [v \in Vdevs |-> <<>>] /\ bss = [v \in Vdevs |-> NULL] /\ vlock = [v \in Vdevs |-> NULL]
  BY DEF Init
<1>2. /\ \A t \in Threads : \A i \in 1..Len(todo[t]) : FALSE
      /\ \A op, o : ~Named(op, o)
      /\ ToSet(psocPeers) = {} /\ ToSet(freeList) = {} /\ \A v \in Vdevs : ToSet(vdevPeers[v]) = {}
  <2>1. \A t \in Threads : \A i \in 1..Len(todo[t]) : FALSE
    BY <1>1
  <2>2. ToSet(psocPeers) = {} /\ ToSet(freeList) = {} /\ \A v \in Vdevs : ToSet(vdevPeers[v]) = {}
    BY <1>1 DEF ToSet
  <2> QED BY <2>1, <2>2 DEF Named
<1>3. Types
  <2>1. \A list \in {psocPeers, freeList} \cup {vdevPeers[v] : v \in Vdevs} : IsInjective(list)
    <3>1. IsInjective(<<>>)
      BY DEF IsInjective
    <3> QED BY <1>1, <3>1
  <2>2. /\ mem \subseteq Objects /\ table \subseteq Vdevs /\ psocPeers \in Seq(Peers) /\ freeList \in Seq(Peers)
        /\ work \in BOOLEAN /\ pins \in [Peers -> Peers \cup {NULL}] /\ bss \in [Vdevs -> Peers \cup {NULL}]
        /\ vlock \in [Vdevs -> Threads \cup {NULL}] /\ vdevPeers \in [Vdevs -> Seq(Peers)]
    <3>1. mem \subseteq Objects /\ table \subseteq Vdevs /\ work \in BOOLEAN
      BY <1>1
    <3>2. <<>> \in Seq(Peers)
      OBVIOUS
    <3>3. psocPeers \in Seq(Peers) /\ freeList \in Seq(Peers)
      BY <1>1, <3>2
    <3>4. pins \in [Peers -> Peers \cup {NULL}]
      BY <1>1
    <3>5. bss \in [Vdevs -> Peers \cup {NULL}]
      BY <1>1
    <3>6. vlock \in [Vdevs -> Threads \cup {NULL}]
      BY <1>1
    <3>7. vdevPeers \in [Vdevs -> Seq(Peers)]
      BY <1>1, <3>2
    <3> QED BY <3>1, <3>3, <3>4, <3>5, <3>6, <3>7
  <2>3. st \in [Objects -> {"uncounted", "allocated", "created", "deleted"}] /\ ref \in [Objects -> Nat] /\ role \in [Peers -> {"bss", "sta"}]
    BY DEF Init
  <2>4. vdevOf \in [Peers -> Vdevs]
    <3>1. (CHOOSE v \in Vdevs : TRUE) \in Vdevs
      BY ObjectsAssumption DEF ObjectsAssumption
    <3> QED BY <3>1 DEF Init
  <2>5. todo \in [Threads -> Seq([op : Ops, obj : Objects \cup {NULL}])]
    BY <1>1
  <2>6. made \in [peers : 0..MaxPeers, vdevs : 0..MaxVdevs]
    BY ObjectsAssumption DEF Init, ObjectsAssumption
  <2> QED BY <2>1, <2>2, <2>3, <2>4, <2>5, <2>6 DEF Types
<1>4. ShapeLink /\ TaskLink
  BY <1>2 DEF ShapeLink, TaskLink
<1>5. AloneLink /\ StageLink /\ BornLink /\ RefLink /\ EndLink
  BY <1>1, <1>2 DEF AloneLink, StageLink, BornLink, RefLink, EndLink
<1>6. ListLink
  BY <1>1, <1>2 DEF ListLink
<1>7. PinLink
  BY <1>1, <1>2 DEF PinLink
<1>8. LockLink
  BY <1>1, <1>2 DEF LockLink
<1>9. WorkLink
  BY <1>1 DEF WorkLink
<1> QED BY <1>3, <1>4, <1>5, <1>6, <1>7, <1>8, <1>9 DEF IInv

LEMMA StutterIInv ==
  ASSUME IInv, UNCHANGED vars
  PROVE  IInv'
<1>1. /\ mem' = mem /\ st' = st /\ ref' = ref /\ role' = role /\ vdevOf' = vdevOf /\ pins' = pins /\ table' = table
      /\ psocPeers' = psocPeers /\ vdevPeers' = vdevPeers /\ bss' = bss /\ vlock' = vlock /\ freeList' = freeList
      /\ work' = work /\ todo' = todo /\ made' = made
  BY DEF vars, birth, lists, delay
<1>2. Types'
  BY ZenonT(40), <1>1 DEF IInv, Types
<1>3. ShapeLink' /\ TaskLink'
  BY <1>1 DEF IInv, ShapeLink, TaskLink, TaskOK, Linked
<1>4. \A op, o : Named(op, o)' <=> Named(op, o)
  BY <1>1 DEF Named
<1>5. AloneLink' /\ WorkLink' /\ BornLink'
  BY <1>1, <1>4 DEF IInv, AloneLink, WorkLink, BornLink
<1>6. ListLink' /\ LockLink'
  BY <1>1 DEF IInv, ListLink, LockLink
<1>7. StageLink'
  BY <1>1, <1>4 DEF IInv, StageLink, Linked
<1>8. PinLink'
  BY <1>1, <1>4 DEF IInv, PinLink, Usable
<1>9. RefLink' /\ EndLink'
  <2>1. \A o : Others(o)' = Others(o)
    BY <1>1, OthersStay
  <2>2. \A o, ops : Pending(o, ops)' = Pending(o, ops)
    BY <1>1 DEF Pending, All
  <2>3. \A o : Waiting(o)' = Waiting(o)
    BY <1>1 DEF Waiting
  <2>4. \A o : Refs(o)' = Refs(o)
    BY DEF Refs
  <2>5. \A o : Pending(o, Refs(o))' = Pending(o, Refs(o))
    BY <2>2, <2>4
  <2>6. \A o : Pending(o, Ends)' = Pending(o, Ends) /\ Cardinality(Waiting(o))' = Cardinality(Waiting(o))
    BY <2>2, <2>3 DEF Ends
  <2>7. RefLink'
    BY <1>1, <2>1, <2>5 DEF IInv, RefLink
  <2>8. EndLink'
    BY <1>1, <2>6 DEF IInv, EndLink
  <2> QED BY <2>7, <2>8
<1> QED BY <1>2, <1>3, <1>5, <1>6, <1>7, <1>8, <1>9 DEF IInv

LEMMA NextIInv ==
  ASSUME IInv, ~swapped', [Next]_vars
  PROVE  IInv'
<1>1. CASE HddStep
  BY <1>1, VdevCreateIInv, VdevAttachIInv, VdevCountIInv, VdevInitIInv DEF HddStep
<1>2. CASE McStep
  <2> SUFFICES ASSUME NEW p \in Peers,
                      \/ \E v \in Vdevs, r \in {"bss", "sta"} : PeerCreate(v, p, r)
                      \/ PeerAlloc(p) \/ PeerAttach(p) \/ PeerPinBss(p) \/ PeerInit(p)
                      \/ PeerRemove(p)
               PROVE  IInv'
    BY <1>2 DEF McStep
  <2>1. PICK v \in Vdevs : vdevOf[p] = v
    BY DEF IInv, Types
  <2>2. CASE \E w \in Vdevs, r \in {"bss", "sta"} : PeerCreate(w, p, r)
    BY <2>2, PeerCreateIInv
  <2>3. CASE PeerAlloc(p)
    BY <2>3, PeerAllocIInv
  <2>4. CASE PeerAttach(p)
    BY <2>4, PeerAttachIInv
  <2>5. CASE PeerPinBss(p)
    BY <2>1, <2>5, PeerPinBssIInv
  <2>6. CASE PeerInit(p)
    BY <2>6, PeerInitIInv
  <2>7. CASE PeerRemove(p)
    BY <2>7, PeerRemoveIInv
  <2> QED BY <2>2, <2>3, <2>4, <2>5, <2>6, <2>7
<1>3. CASE WorkStart
  BY <1>3, WorkStartIInv
<1>4. CASE WorkPop
  BY <1>4, WorkPopIInv
<1>5. CASE \E t \in Readers : ReaderStep(t)
  <2>1. PICK t \in Readers : ReaderStep(t)
    BY <1>5
  <2>2. t \in Threads
    BY Kinds
  <2>3. CASE IterateHead(t)
    BY <2>2, <2>3, IterateHeadIInv
  <2>4. ASSUME NEW p \in Peers, GetPeer(t, p) \/ IterateNext(t, p) \/ Visit(t, p) PROVE IInv'
    BY <2>2, <2>4, GetPeerIInv, IterateNextIInv, VisitIInv
  <2>5. ASSUME NEW v \in Vdevs, \/ GetVdev(t, v) \/ GetBssPeer(t, v) \/ VisitStart(t, v)
                                \/ VisitEnd(t, v) \/ VisitUnlock(t, v)
        PROVE  IInv'
    BY <2>2, <2>5, GetVdevIInv, GetBssPeerIInv, VisitStartIInv, VisitEndIInv, VisitUnlockIInv
  <2> QED BY <2>1, <2>3, <2>4, <2>5 DEF ReaderStep
<1>6. CASE \E t \in Threads : CommonStep(t)
  <2>1. PICK t \in Threads : CommonStep(t)
    BY <1>6
  <2>2. CASE Schedule(t)
    BY <2>2, ScheduleIInv
  <2>3. ASSUME NEW o \in Objects, Delete(t, o) PROVE IInv'
    BY <2>3, DeleteIInv
  <2>4. ASSUME NEW o \in Objects, Release(t, o) PROVE IInv'
    <3>1. CASE ref[o] = 1
      BY <2>4, <3>1, LastReleaseIInv
    <3>2. CASE ref[o] # 1
      BY <2>4, <3>2, ReleaseIInv
    <3> QED BY <3>1, <3>2
  <2>5. ASSUME NEW p \in Peers, PeerDestroy(t, p) \/ PeerDetach(t, p) \/ PeerFree(t, p) PROVE IInv'
    <3>1. PICK v \in Vdevs : vdevOf[p] = v
      BY DEF IInv, Types
    <3>2. CASE PeerDestroy(t, p)
      BY <3>2, PeerDestroyIInv
    <3>3. CASE PeerDetach(t, p)
      BY <3>1, <3>3, PeerDetachIInv
    <3>4. CASE PeerFree(t, p)
      BY <3>4, PeerFreeIInv
    <3> QED BY <2>5, <3>2, <3>3, <3>4
  <2>6. ASSUME NEW v \in Vdevs, VdevDestroy(t, v) \/ VdevFree(t, v) PROVE IInv'
    BY <2>6, VdevDestroyIInv, VdevFreeIInv
  <2> QED BY <2>1, <2>2, <2>3, <2>4, <2>5, <2>6 DEF CommonStep
<1>7. CASE UNCHANGED vars
  BY <1>7, StutterIInv
<1> QED BY <1>1, <1>2, <1>3, <1>4, <1>5, <1>6, <1>7 DEF Next

\* The history is kept.
LEMMA SwapStep ==
  ASSUME swapped \in BOOLEAN, [Next]_vars
  PROVE  swapped' \in BOOLEAN /\ (swapped => swapped')
<1>1. ASSUME swapped' = swapped PROVE swapped' \in BOOLEAN /\ (swapped => swapped')
  BY <1>1
<1>2. CASE HddStep
  BY <1>1, <1>2 DEF HddStep, VdevCreate, VdevAttach, VdevCount, VdevInit, birth
<1>3. CASE McStep
  <2> SUFFICES ASSUME NEW p \in Peers,
                      \/ \E v \in Vdevs, r \in {"bss", "sta"} : PeerCreate(v, p, r)
                      \/ PeerAlloc(p) \/ PeerAttach(p) \/ PeerPinBss(p) \/ PeerInit(p)
                      \/ PeerRemove(p)
               PROVE  swapped' \in BOOLEAN /\ (swapped => swapped')
    BY <1>3 DEF McStep
  <2>1. CASE PeerAttach(p)
    <3>1. swapped' = swapped \/ swapped' = (swapped \/ (role[p] = "bss" /\ CountedOn(vdevOf[p])))
      BY <2>1 DEF PeerAttach
    <3> QED BY <3>1
  <2>2. CASE \E v \in Vdevs, r \in {"bss", "sta"} : PeerCreate(v, p, r)
    BY <1>1, <2>2 DEF PeerCreate
  <2>3. CASE PeerAlloc(p) \/ PeerPinBss(p) \/ PeerInit(p) \/ PeerRemove(p)
    BY <1>1, <2>3 DEF PeerAlloc, PeerPinBss, PeerInit, PeerRemove, birth
  <2> QED BY <2>1, <2>2, <2>3
<1>4. CASE WorkStart \/ WorkPop
  BY <1>1, <1>4 DEF WorkStart, WorkPop, birth
<1>5. CASE \E t \in Readers : ReaderStep(t)
  <2>1. PICK t \in Readers : ReaderStep(t)
    BY <1>5
  <2>2. CASE \E p \in Peers : GetPeer(t, p) \/ IterateNext(t, p) \/ Visit(t, p)
    BY <1>1, <2>2 DEF GetPeer, IterateNext, Visit, birth
  <2>3. CASE \E v \in Vdevs : \/ GetVdev(t, v) \/ GetBssPeer(t, v) \/ VisitStart(t, v)
                              \/ VisitEnd(t, v) \/ VisitUnlock(t, v)
    BY <1>1, <2>3 DEF GetVdev, GetBssPeer, VisitStart, VisitEnd, VisitUnlock, birth
  <2>4. CASE IterateHead(t)
    BY <1>1, <2>4 DEF IterateHead, birth
  <2> QED BY <2>1, <2>2, <2>3, <2>4 DEF ReaderStep
<1>6. CASE \E t \in Threads : CommonStep(t)
  <2>1. PICK t \in Threads : CommonStep(t)
    BY <1>6
  <2>2. CASE \E o \in Objects : Delete(t, o) \/ Release(t, o)
    BY <1>1, <2>2 DEF Delete, Release, birth
  <2>3. CASE \E p \in Peers : PeerDestroy(t, p) \/ PeerDetach(t, p) \/ PeerFree(t, p)
    BY <1>1, <2>3 DEF PeerDestroy, PeerDetach, PeerFree, birth
  <2>4. CASE \E v \in Vdevs : VdevDestroy(t, v) \/ VdevFree(t, v)
    BY <1>1, <2>4 DEF VdevDestroy, VdevFree, birth
  <2>5. CASE Schedule(t)
    BY <1>1, <2>5 DEF Schedule, birth
  <2> QED BY <2>1, <2>2, <2>3, <2>4, <2>5 DEF CommonStep
<1>7. CASE UNCHANGED vars
  BY <1>1, <1>7 DEF vars, birth
<1> QED BY <1>2, <1>3, <1>4, <1>5, <1>6, <1>7 DEF Next

\* Every reachable state has the inductive invariant, until a BSS peer takes the
\* place of one that is still counted on.
THEOREM Invariance == Spec => [](swapped \in BOOLEAN /\ (~swapped => IInv))
<1> DEFINE Inv == swapped \in BOOLEAN /\ (~swapped => IInv)
<1>1. Init => Inv
  BY InitIInv DEF Init
<1>2. Inv /\ [Next]_vars => Inv'
  BY SwapStep, NextIInv
<1> QED BY <1>1, <1>2, PTL DEF Spec

-----------------------------------------------------------------------------
(* The theorems *)

\* Every variable has its type and no peer is linked into a list twice.
THEOREM TypeCorrect == Spec => []TypeOK
<1>1. swapped \in BOOLEAN /\ (~swapped => IInv) => TypeOK
  BY DEF IInv, TypeOK
<1> QED BY <1>1, Invariance, PTL

\* The vdev of a peer is there as long as the peer: on the vdev's list the peer
\* is one of its references, before and after that its thread has one.
LEMMA VdevIsThere ==
  ASSUME IInv, NEW p \in mem \cap Peers
  PROVE  vdevOf[p] \in mem
<1>1. vdevOf[p] \in Vdevs
  BY DEF IInv, Types
<1>2. CASE Linked(p)
  BY <1>1, <1>2 DEF IInv, ListLink, Linked
<1>3. CASE ~Linked(p)
  <2>1. PICK op \in {"attach", "free"} : Named(op, p)
    BY <1>3 DEF IInv, StageLink
  <2>2. PICK t \in Threads : \E i \in 1..Len(todo[t]) : todo[t][i] = T(op, p)
    BY <2>1 DEF Named
  <2>3. PICK i \in 1..Len(todo[t]) : todo[t][i] = T(op, p)
    BY <2>2
  <2> DEFINE k == T(op, p)
  <2>4. k.op = op /\ k.obj = p
    BY DEF T
  <2>5. todo[t][i] = k
    BY <2>3
  <2> HIDE DEF k
  <2>6. ShapeOK(vdevOf, t, todo[t], i) /\ Len(todo[t]) \in Nat
    BY <2>5, TaskFacts, Typed
  <2>7. PICK j \in 1..Len(todo[t]) : todo[t][j] = T("rel", vdevOf[p])
    <3>1. CASE op = "attach"
      <4>1. Len(todo[t]) = 2 /\ todo[t][2] = T("rel", vdevOf[p])
        BY <2>4, <2>5, <2>6, <3>1 DEF ShapeOK
      <4> QED BY <4>1
    <3>2. CASE op = "free"
      <4>1. i < Len(todo[t]) /\ todo[t][i + 1] = T("rel", vdevOf[p])
        BY <2>4, <2>5, <2>6, <3>2 DEF ShapeOK
      <4>2. i + 1 \in 1..Len(todo[t])
        BY <2>6, <4>1
      <4> QED BY <4>1, <4>2
    <3> QED BY <3>1, <3>2
  <2>8. TaskOK(t, T("rel", vdevOf[p]))
    BY <2>7, TaskFacts
  <2>9. T("rel", vdevOf[p]).op = "rel" /\ T("rel", vdevOf[p]).obj = vdevOf[p]
    BY DEF T
  <2> QED BY <2>8, <2>9 DEF TaskOK
<1> QED BY <1>2, <1>3

\* No thread has anything left to do with an object whose memory is freed, and
\* no list, table or pointer leads to one.
THEOREM AliveIsUsed == Spec => []UsedIsAlive
<1>1. ASSUME ~swapped => IInv PROVE UsedIsAlive
  <2> SUFFICES ASSUME IInv, ~swapped PROVE UsedIsAlive
    BY <1>1 DEF UsedIsAlive
  <2>1. ASSUME NEW t \in Threads, NEW i \in 1..Len(todo[t]), NEW k, k = todo[t][i]
        PROVE  /\ k.op \notin {"valloc", "alloc"} => k.obj \in mem \cup {NULL}
               /\ k.op = "next"  => k.obj \in ToSet(psocPeers)
               /\ k.op = "visit" => /\ k.obj \in ToSet(vdevPeers[vdevOf[k.obj]])
                                    /\ vlock[vdevOf[k.obj]] = t
    <3>1. TaskOK(t, k) /\ k.obj \in ObjectsOf(k.op)
      BY <1>1, <2>1, TaskFacts
    <3>2. k.op \notin {"valloc", "alloc"} => k.obj \in mem \cup {NULL}
      BY <3>1 DEF TaskOK, ObjectsOf
    <3>3. k.op = "next"  => k.obj \in ToSet(psocPeers)
      BY <1>1, <3>1 DEF TaskOK, ObjectsOf, IInv, ListLink
    <3>4. k.op = "visit" => k.obj \in ToSet(vdevPeers[vdevOf[k.obj]]) /\ vlock[vdevOf[k.obj]] = t
      BY <3>1 DEF TaskOK, Linked
    <3> QED BY <3>2, <3>3, <3>4
  <2>2. ListLink /\ PinLink /\ Types
    BY <1>1 DEF IInv
  <2>3. table \cup ToSet(psocPeers) \cup ToSet(freeList) \subseteq mem
    BY <2>2 DEF ListLink
  <2>4. \A v \in Vdevs : ToSet(vdevPeers[v]) \cup ({bss[v]} \ {NULL}) \subseteq mem
    BY <2>2 DEF ListLink
  <2>5. ASSUME NEW p \in mem \cap Peers PROVE {vdevOf[p]} \cup ({pins[p]} \ {NULL}) \subseteq mem
    <3>1. vdevOf[p] \in mem
      BY <1>1, VdevIsThere
    <3>2. vdevOf[p] \in Vdevs
      BY <2>2 DEF Types
    <3>3. pins[p] # NULL => pins[p] = bss[vdevOf[p]]
      BY <2>2 DEF PinLink
    <3>4. pins[p] # NULL => pins[p] \in mem
      BY <2>4, <3>2, <3>3
    <3> QED BY <3>1, <3>4
  <2> QED BY <2>1, <2>3, <2>4, <2>5 DEF UsedIsAlive
<1> QED BY <1>1, Invariance, PTL

\* Every count is exactly the number of references.
THEOREM CountIsExact == Spec => []CountExact
<1>1. ASSUME ~swapped => IInv PROVE CountExact
  <2> SUFFICES ASSUME IInv, ~swapped PROVE CountExact
    BY <1>1 DEF CountExact
  <2>1. \A o \in mem : /\ ref[o] = Others(o) + Pending(o, Refs(o)) /\ Pending(o, Refs(o)) \in Nat
    BY <1>1, Counted
  <2>2. ASSUME NEW p \in mem \cap Peers
        PROVE  ref[p] = Creators(p)
                          + Pending(p, {"rel", "next"}) + Cardinality({q \in Peers : pins[q] = p})
    <3>1. Refs(p) = {"rel", "next"} /\ Pinners(p) = {q \in Peers : pins[q] = p}
      BY DEF Refs, Pinners
    <3>2. Others(p) = Creators(p) + Cardinality(Pinners(p))
      BY DEF Others, Creators
    <3>3. Cardinality(Pinners(p)) \in Nat
      BY PinnersFinite
    <3>4. ref[p] = Others(p) + Pending(p, {"rel", "next"}) /\ Pending(p, {"rel", "next"}) \in Nat
      BY <2>1, <3>1
    <3>5. Creators(p) \in {0, 1}
      BY DEF Creators
    <3>6. \A a, b, c : a \in Nat /\ b \in Nat /\ c \in {0, 1} => (c + b) + a = c + a + b
      OBVIOUS
    <3>7. ref[p] = (Creators(p) + Cardinality(Pinners(p))) + Pending(p, {"rel", "next"})
      BY <3>2, <3>4
    <3> QED BY <3>1, <3>3, <3>4, <3>5, <3>6, <3>7
  <2>3. ASSUME NEW v \in mem \cap Vdevs
        PROVE  ref[v] = Creators(v) + Pending(v, {"rel", "vend"}) + Len(vdevPeers[v])
    <3>1. v \notin Peers
      BY Kinds
    <3>2. Refs(v) = {"rel", "vend"}
      BY <3>1 DEF Refs
    <3>3. Others(v) = Creators(v) + Len(vdevPeers[v])
      BY <3>1, Zenon DEF Others, Creators
    <3>4. Len(vdevPeers[v]) \in Nat
      BY <1>1, Typed
    <3>5. ref[v] = Others(v) + Pending(v, {"rel", "vend"}) /\ Pending(v, {"rel", "vend"}) \in Nat
      BY <2>1, <3>2
    <3>6. \A a, b, c : a \in Nat /\ b \in Nat /\ c \in {0, 1} => (c + a) + b = c + b + a
      OBVIOUS
    <3>7. Creators(v) \in {0, 1}
      BY DEF Creators
    <3>8. ref[v] = (Creators(v) + Len(vdevPeers[v])) + Pending(v, {"rel", "vend"})
      BY <3>3, <3>5
    <3> QED BY <3>4, <3>5, <3>6, <3>7, <3>8
  <2> QED BY <2>2, <2>3 DEF CountExact
<1> QED BY <1>1, Invariance, PTL

\* An object that nobody refers to is on the way to be freed, with one thread.
THEOREM DestructionOnce == Spec => []DestroyedOnce
<1>1. ASSUME ~swapped => IInv PROVE DestroyedOnce
  <2> SUFFICES ASSUME IInv, ~swapped PROVE DestroyedOnce
    BY <1>1 DEF DestroyedOnce
  <2> QED BY DEF IInv, EndLink, DestroyedOnce, Ends, Waiting
<1> QED BY <1>1, Invariance, PTL

\* With FEATURE_DELAYED_PEER_OBJ_DESTROY no thread waits for a vdev's lock that it
\* holds itself.
THEOREM SelfDeadlockFree ==
  ASSUME Delayed
  PROVE  Spec => []NoSelfDeadlock
<1>1. ASSUME ~swapped => IInv PROVE NoSelfDeadlock
  <2> SUFFICES ASSUME IInv, ~swapped PROVE NoSelfDeadlock
    BY <1>1 DEF NoSelfDeadlock
  <2> SUFFICES ASSUME NEW t \in Threads, todo[t] # <<>>, NEW k, k = Head(todo[t])
               PROVE  /\ k.op \in {"attach", "detach"} => vlock[vdevOf[k.obj]] # t
                      /\ k.op = "del" /\ k.obj \in Vdevs => vlock[k.obj] # t
    BY DEF NoSelfDeadlock
  <2>1. Doing(t, k)
    BY DEF Doing
  <2>2. ShapeOK(vdevOf, t, todo[t], 1) /\ todo[t][1] = k /\ k.obj \in ObjectsOf(k.op) /\ 1 \in 1..Len(todo[t])
    BY <1>1, <2>1, DoingStep
  <2>3. vlock \in [Vdevs -> Readers \cup {NULL}] /\ vdevOf \in [Peers -> Vdevs]
    BY <1>1 DEF IInv, LockLink, Types
  <2>4. ASSUME k.op = "attach" PROVE vlock[vdevOf[k.obj]] # t
    <3>1. t = Mc /\ k.obj \in Peers
      BY <2>2, <2>4 DEF ShapeOK, ObjectsOf
    <3> QED BY <2>3, <3>1, Kinds
  <2>5. ASSUME k.op = "detach" PROVE vlock[vdevOf[k.obj]] # t
    <3>1. k.obj \in Peers
      BY <2>2, <2>5 DEF ObjectsOf
    <3>2. \A v \in Vdevs : vlock[v] # t
      BY <1>1, <2>2, <2>5, <3>1 DEF IInv, LockLink
    <3> QED BY <2>3, <3>1, <3>2
  <2>6. ASSUME k.op = "del", k.obj \in Vdevs PROVE vlock[k.obj] # t
    <3>1. k.obj \notin Peers
      BY <2>6, Kinds
    <3>2. t = Hdd
      BY <2>2, <2>6, <3>1 DEF ShapeOK
    <3> QED BY <2>3, <2>6, <3>2, Kinds
  <2> QED BY <2>4, <2>5, <2>6
<1> QED BY <1>1, Invariance, PTL

Quiet == (\A t \in Threads : Idle(t)) /\ ~work

\* What is left when nothing is to be done.
LEMMA QuietObject ==
  ASSUME IInv, Quiet
  PROVE  /\ freeList = <<>> /\ \A op, o : ~Named(op, o)
         /\ \A o \in mem : Usable(o) \/ (Others(o) # 0 /\ st[o] = "deleted")
<1>1. /\ \A t \in Threads : \A i \in 1..Len(todo[t]) : FALSE
      /\ \A op, o : ~Named(op, o)
  <2>1. \A t \in Threads : todo[t] = <<>>
    BY DEF Quiet, Idle
  <2>2. \A t \in Threads : \A i \in 1..Len(todo[t]) : FALSE
    BY <2>1
  <2> QED BY <2>2 DEF Named
<1>2. freeList = <<>>
  BY <1>1 DEF IInv, WorkLink, Quiet
<1>3. ASSUME NEW o \in mem, ~Usable(o) PROVE Others(o) # 0 /\ st[o] = "deleted"
  <2>1. o \in Objects /\ todo \in Programs /\ st[o] \in {"uncounted", "allocated", "created", "deleted"}
    BY Typed DEF IInv, Types
  <2>2. st[o] = "deleted"
    BY <1>1, <1>3, <2>1 DEF IInv, BornLink, Usable, Unfinished
  <2>3. Pending(o, Ends) = 0 /\ Pending(o, Refs(o)) = 0
    BY <1>1, <2>1, PendingZero
  <2>4. Cardinality(Waiting(o)) = 0
    <3>1. o \notin ToSet(freeList)
      BY <1>2 DEF ToSet
    <3> QED BY <3>1, Ended
  <2>5. ref[o] # 0
    <3>1. Pending(o, Ends) + Cardinality(Waiting(o)) = IF ref[o] = 0 THEN 1 ELSE 0
      BY Ended
    <3>2. 0 = IF ref[o] = 0 THEN 1 ELSE 0
      BY <2>3, <2>4, <3>1
    <3> QED BY <3>2
  <2>6. ref[o] = Others(o) + Pending(o, Refs(o)) /\ Others(o) \in Nat
    BY <2>1, Counted, Typed
  <2> QED BY <2>2, <2>3, <2>5, <2>6
<1>4. \A o \in mem : Usable(o) \/ (Others(o) # 0 /\ st[o] = "deleted")
  BY <1>3
<1> QED BY <1>1, <1>2, <1>4, Zenon

\* A peer that is deleted and not freed is the BSS peer of a station in use.
LEMMA QuietPeer ==
  ASSUME IInv, Quiet, NEW p \in mem \cap Peers, ~Usable(p)
  PROVE  \E q \in mem \cap Peers : Usable(q) /\ pins[q] = p
<1> DEFINE Pinned(x) == \E q \in Peers : pins[q] = x
<1>1. ASSUME NEW x \in mem \cap Peers, ~Usable(x) PROVE Pinned(x)
  <2>1. Others(x) # 0 /\ st[x] = "deleted"
    BY <1>1, QuietObject
  <2>2. Others(x) = 0 + Cardinality(Pinners(x))
    BY <2>1 DEF Others, Creators
  <2>3. Cardinality(Pinners(x)) # 0
    BY <2>1, <2>2
  <2> QED BY <2>3, PinnersFinite
<1>2. PICK q \in Peers : pins[q] = p
  BY <1>1
<1>3. p # NULL
  BY Kinds
<1>4. q \in mem /\ role[q] = "sta"
  BY <1>2, <1>3 DEF IInv, PinLink
<1>5. ~Pinned(q)
  <2>1. ASSUME NEW r \in Peers, pins[r] = q PROVE FALSE
    <3>1. q # NULL
      BY Kinds
    <3>2. pins[r] = bss[vdevOf[r]] /\ vdevOf[r] \in Vdevs
      BY <2>1, <3>1 DEF IInv, PinLink, Types
    <3>3. role[q] = "bss"
      BY <2>1, <3>1, <3>2 DEF IInv, ListLink
    <3> QED BY <1>4, <3>3
  <2> QED BY <2>1
<1>6. Usable(q)
  BY <1>1, <1>4, <1>5
<1> QED BY <1>2, <1>4, <1>6

\* When no thread has anything to do, what was deleted is freed, except the vdev and
\* the BSS peer of a peer in use.
THEOREM NothingLeaks == Spec => []NoLeak
<1>1. ASSUME ~swapped => IInv PROVE NoLeak
  <2> SUFFICES ASSUME IInv, ~swapped PROVE NoLeak
    BY <1>1 DEF NoLeak
  <2> SUFFICES ASSUME Quiet
               PROVE  /\ freeList = <<>>
                      /\ \A o \in mem : st[o] # "created" =>
                           \E q \in mem \cap Peers : Usable(q) /\ o \in {vdevOf[q], pins[q]}
    BY DEF NoLeak, Quiet
  <2>1. freeList = <<>>
    BY <1>1, QuietObject
  <2>2. ASSUME NEW o \in mem, ~Usable(o)
        PROVE  \E q \in mem \cap Peers : Usable(q) /\ o \in {vdevOf[q], pins[q]}
    <3>1. CASE o \in Peers
      <4>1. \E q \in mem \cap Peers : Usable(q) /\ pins[q] = o
        BY <1>1, <2>2, <3>1, QuietPeer
      <4> QED BY <4>1
    <3>2. CASE o \notin Peers
      <4>1. o \in Vdevs /\ vdevPeers[o] \in Seq(Peers)
        BY <1>1, <3>2, Typed, Kinds
      <4>2. Others(o) # 0 /\ st[o] = "deleted"
        BY <1>1, <2>2, QuietObject
      <4>3. Others(o) = Creators(o) + Len(vdevPeers[o])
        BY <3>2, Zenon DEF Others, Creators
      <4>4. Len(vdevPeers[o]) # 0 /\ Len(vdevPeers[o]) \in Nat
        BY <1>1, <4>1, <4>2, <4>3, Typed DEF Creators
      <4>5. vdevPeers[o][1] \in Peers /\ vdevPeers[o][1] \in ToSet(vdevPeers[o])
        <5>1. 1 \in 1..Len(vdevPeers[o])
          BY <4>4
        <5> QED BY <4>1, <5>1, ElementOfSeq, LenProperties DEF ToSet
      <4>6. PICK q \in mem \cap Peers : q \in ToSet(vdevPeers[o]) /\ vdevOf[q] = o
        BY <1>1, <4>1, <4>5 DEF IInv, ListLink
      <4>7. CASE Usable(q)
        BY <4>6, <4>7
      <4>8. CASE ~Usable(q)
        <5>1. PICK r \in mem \cap Peers : Usable(r) /\ pins[r] = q
          BY <1>1, <4>8, QuietPeer
        <5>2. q # NULL
          BY Kinds
        <5>3. q = bss[vdevOf[r]] /\ vdevOf[r] \in Vdevs
          BY <1>1, <5>1, <5>2 DEF IInv, PinLink, Types
        <5>4. vdevOf[q] = vdevOf[r]
          BY <1>1, <5>2, <5>3 DEF IInv, ListLink
        <5> QED BY <4>6, <5>1, <5>4
      <4> QED BY <4>7, <4>8
    <3> QED BY <3>1, <3>2
  <2> QED BY <2>1, <2>2 DEF Usable
<1> QED BY <1>1, Invariance, PTL

=============================================================================
