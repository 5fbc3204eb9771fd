---------------------------- MODULE ObjMgrLemmas ----------------------------
(***************************************************************************)
(* The inductive invariant of ObjMgr, the lemmas on its lists, its counts  *)
(* and its threads' programs, and the steps that leave the objects as they *)
(* are: look-ups, traversals and releases keep the invariant.  The steps   *)
(* that change objects and the theorems are in ObjMgrProofs.               *)
(***************************************************************************)
EXTENDS ObjMgr, SequenceTheorems, FiniteSetTheorems, WellFoundedInduction, TLAPS

-----------------------------------------------------------------------------
(* Lists without repetitions *)

\* A set of numbers has a least one.
LEMMA LeastOf ==
  ASSUME NEW S \in SUBSET Nat, S # {}
  PROVE  Min(S) \in S /\ \A x \in S : Min(S) <= x
<1> DEFINE Spans == {0 .. x : x \in S}
<1>1. Spans \subseteq FiniteSubsetsOf(Nat) /\ Spans # {}
  <2>1. \A x \in Nat : IsFiniteSet(0 .. x) /\ 0 .. x \in SUBSET Nat
    BY FS_Interval
  <2> QED BY <2>1 DEF FiniteSubsetsOf
<1>2. PICK d \in Spans : \A e \in Spans : ~(<<e, d>> \in StrictSubsetOrdering(Nat))
  <2> HIDE DEF Spans
  <2> QED BY <1>1, FS_StrictSubsetOrderingWellFounded, WFMin
<1>3. PICK m \in S : d = 0 .. m
  BY <1>2
<1>4. ASSUME NEW y \in S, y < m PROVE FALSE
  <2>1. 0 .. y \in Spans /\ 0 .. y \in SUBSET Nat /\ 0 .. m \in SUBSET Nat
    OBVIOUS
  <2>2. m \in 0 .. m /\ m \notin 0 .. y /\ 0 .. y \subseteq 0 .. m
    BY <1>4
  <2>3. <<0 .. y, 0 .. m>> \in StrictSubsetOrdering(Nat)
    BY <2>1, <2>2 DEF StrictSubsetOrdering
  <2> QED BY <2>1, <2>3, <1>2, <1>3
<1>5. \A y \in S : m <= y
  BY <1>4
<1> QED BY <1>5 DEF Min

\* What is left when a place is taken out.
LEMMA RemoveAtList ==
  ASSUME NEW S, NEW list \in Seq(S), IsInjective(list), NEW p \in 1 .. Len(list)
  PROVE  /\ RemoveAt(list, p) \in Seq(S)
         /\ IsInjective(RemoveAt(list, p))
         /\ ToSet(RemoveAt(list, p)) = ToSet(list) \ {list[p]}
         /\ Len(RemoveAt(list, p)) = Len(list) - 1
<1> DEFINE n == list[p]
           a == SubSeq(list, 1, p - 1)
           b == SubSeq(list, p + 1, Len(list))
           r == a \o b
           l == Len(list)
<1>1. RemoveAt(list, p) = r
  BY DEF RemoveAt
<1>2. l \in Nat /\ DOMAIN list = 1 .. l /\ \A i \in 1 .. l : list[i] \in S
  BY LenProperties, ElementOfSeq
<1>4. p \in 1 .. l /\ list[p] = n
  OBVIOUS
<1> HIDE DEF n, l
<1>5. /\ a \in Seq(S) /\ Len(a) = p - 1
      /\ \A i \in 1 .. p - 1 : a[i] = list[i]
  BY <1>2, <1>4, SubSeqProperties
<1>6. /\ b \in Seq(S) /\ Len(b) = l - p
      /\ \A i \in 1 .. l - p : b[i] = list[p + i]
  <2>1. \A i \in p + 1 .. l : list[i] \in S
    BY <1>2, <1>4
  <2>2. /\ b \in Seq(S)
        /\ Len(b) = IF p + 1 <= l THEN l - (p + 1) + 1 ELSE 0
        /\ \A i \in 1 .. l - (p + 1) + 1 : b[i] = list[(p + 1) + i - 1]
    BY <1>2, <1>4, <2>1, SubSeqProperties DEF l
  <2>3. l - (p + 1) + 1 = l - p /\ (IF p + 1 <= l THEN l - (p + 1) + 1 ELSE 0) = l - p
    BY <1>2, <1>4
  <2> HIDE DEF b
  <2>4. \A i \in 1 .. l - p : (p + 1) + i - 1 = p + i
    BY <1>2, <1>4
  <2> QED BY <2>2, <2>3, <2>4
<1> HIDE DEF a, b
<1>7. /\ r \in Seq(S) /\ Len(r) = l - 1
      /\ \A i \in 1 .. l - 1 : r[i] = IF i < p THEN list[i] ELSE list[i + 1]
      /\ DOMAIN r = 1 .. l - 1
  <2>1. /\ r \in Seq(S) /\ Len(r) = Len(a) + Len(b)
        /\ \A i \in 1 .. Len(a) + Len(b) : r[i] = IF i <= Len(a) THEN a[i] ELSE b[i - Len(a)]
    BY <1>5, <1>6, ConcatProperties
  <2>2. Len(a) + Len(b) = l - 1
    BY <1>2, <1>4, <1>5, <1>6
  <2> HIDE DEF r
  <2>3. ASSUME NEW i \in 1 .. l - 1 PROVE r[i] = IF i < p THEN list[i] ELSE list[i + 1]
    <3>1. CASE i < p
      <4>1. i \in 1 .. p - 1 /\ i <= p - 1
        BY <3>1, <1>2, <1>4
      <4>2. r[i] = a[i]
        BY <4>1, <2>1, <2>2, <1>5
      <4> QED BY <3>1, <4>1, <4>2, <1>5
    <3>2. CASE ~(i < p)
      <4>1. i - (p - 1) \in 1 .. l - p /\ p + (i - (p - 1)) = i + 1 /\ ~(i <= p - 1)
        BY <3>2, <1>2, <1>4
      <4> QED BY <3>2, <4>1, <2>1, <2>2, <1>5, <1>6
    <3> QED BY <3>1, <3>2
  <2> QED BY <2>1, <2>2, <2>3, LenProperties
<1> HIDE DEF r
<1>8. IsInjective(r)
  <2> SUFFICES ASSUME NEW i \in 1 .. l - 1, NEW j \in 1 .. l - 1, r[i] = r[j] PROVE i = j
    BY <1>7 DEF IsInjective
  <2> DEFINE o(x) == IF x < p THEN x ELSE x + 1
  <2>1. o(i) \in 1 .. l /\ o(j) \in 1 .. l /\ list[o(i)] = r[i] /\ list[o(j)] = r[j]
    BY <1>2, <1>4, <1>7
  <2>2. o(i) = o(j)
    BY <2>1, <1>2 DEF IsInjective
  <2> QED BY <2>2, <1>2, <1>4
<1>9. ToSet(r) = ToSet(list) \ {n}
  <2>1. ASSUME NEW x \in ToSet(r) PROVE x \in ToSet(list) \ {n}
    <3>1. PICK i \in 1 .. l - 1 : x = r[i]
      BY <1>7 DEF ToSet
    <3> DEFINE o == IF i < p THEN i ELSE i + 1
    <3>2. o \in 1 .. l /\ o # p /\ x = list[o]
      BY <3>1, <1>2, <1>4, <1>7
    <3> HIDE DEF o
    <3> QED BY <3>2, <1>2, <1>4 DEF ToSet, IsInjective
  <2>2. ASSUME NEW x \in ToSet(list), x # n PROVE x \in ToSet(r)
    <3>1. PICK i \in 1 .. l : x = list[i]
      BY <1>2 DEF ToSet
    <3> DEFINE o == IF i < p THEN i ELSE i - 1
    <3>2. i # p
      BY <2>2, <3>1, <1>4
    <3>3. o \in 1 .. l - 1 /\ r[o] = x
      BY <3>1, <3>2, <1>2, <1>4, <1>7
    <3> HIDE DEF o
    <3> QED BY <3>3, <1>7 DEF ToSet
  <2> QED BY <2>1, <2>2
<1> QED BY <1>1, <1>7, <1>8, <1>9 DEF n, l


LEMMA AppendList ==
  ASSUME NEW S, NEW list \in Seq(S), IsInjective(list), NEW n \in S, n \notin ToSet(list)
  PROVE  /\ Append(list, n) \in Seq(S)
         /\ IsInjective(Append(list, n))
         /\ ToSet(Append(list, n)) = ToSet(list) \cup {n}
         /\ Len(Append(list, n)) = Len(list) + 1
<1> DEFINE r == Append(list, n)
<1>2. /\ r \in Seq(S) /\ Len(list) \in Nat /\ Len(r) = Len(list) + 1
      /\ \A i \in 1 .. Len(list) + 1 : r[i] = IF i = Len(list) + 1 THEN n ELSE list[i]
      /\ DOMAIN list = 1 .. Len(list) /\ DOMAIN r = 1 .. Len(list) + 1
  BY AppendProperties, LenProperties
<1> HIDE DEF r
<1>3. IsInjective(r)
  BY <1>2 DEF IsInjective, ToSet
<1>4. ToSet(r) = ToSet(list) \cup {n}
  <2>1. ToSet(r) \subseteq ToSet(list) \cup {n}
    BY <1>2 DEF ToSet
  <2>2. \A i \in DOMAIN list : i \in DOMAIN r /\ r[i] = list[i]
    BY <1>2
  <2>3. Len(list) + 1 \in DOMAIN r /\ r[Len(list) + 1] = n
    BY <1>2
  <2> QED BY <2>1, <2>2, <2>3 DEF ToSet
<1> QED BY <1>2, <1>3, <1>4 DEF r

LEMMA TailList ==
  ASSUME NEW S, NEW list \in Seq(S), IsInjective(list), list # <<>>
  PROVE  /\ Tail(list) \in Seq(S) /\ Head(list) \in ToSet(list)
         /\ IsInjective(Tail(list))
         /\ ToSet(Tail(list)) = ToSet(list) \ {Head(list)}
<1> DEFINE r == Tail(list)
           l == Len(list)
<1>1. /\ l \in Nat /\ l >= 1 /\ DOMAIN list = 1 .. l /\ Head(list) = list[1]
      /\ r \in Seq(S) /\ Len(r) = l - 1 /\ DOMAIN r = 1 .. l - 1
      /\ \A i \in 1 .. l - 1 : r[i] = list[i + 1]
  BY HeadTailProperties, LenProperties, EmptySeq
<1> HIDE DEF r, l
<1>2. \A i \in 1 .. l - 1 : i + 1 \in 1 .. l /\ i + 1 # 1
  BY <1>1
<1>3. IsInjective(r)
  <2> SUFFICES ASSUME NEW i \in 1 .. l - 1, NEW j \in 1 .. l - 1, r[i] = r[j] PROVE i = j
    BY <1>1 DEF IsInjective
  <2>1. i + 1 = j + 1
    BY SMTT(30), <1>1, <1>2 DEF IsInjective
  <2> QED BY <2>1
<1>4. 1 \in 1 .. l
  BY <1>1
<1>5. ToSet(r) = ToSet(list) \ {list[1]}
  <2>1. ASSUME NEW x \in ToSet(r) PROVE x \in ToSet(list) \ {list[1]}
    <3>1. PICK i \in 1 .. l - 1 : x = list[i + 1]
      BY <1>1 DEF ToSet
    <3> QED BY <3>1, <1>1, <1>2, <1>4 DEF ToSet, IsInjective
  <2>2. ASSUME NEW x \in ToSet(list), x # list[1] PROVE x \in ToSet(r)
    <3>1. PICK i \in 1 .. l : x = list[i]
      BY <1>1 DEF ToSet
    <3>2. i - 1 \in 1 .. l - 1 /\ r[i - 1] = x
      <4>1. i # 1
        BY <2>2, <3>1
      <4>2. i - 1 \in 1 .. l - 1 /\ (i - 1) + 1 = i
        BY <4>1, <1>1
      <4> QED BY <4>2, <3>1, <1>1
    <3> QED BY <3>2, <1>1 DEF ToSet
  <2> QED BY <2>1, <2>2
<1> QED BY <1>1, <1>3, <1>4, <1>5 DEF r, ToSet

\* A member has one place.
LEMMA OnePlace ==
  ASSUME NEW S, NEW list \in Seq(S), IsInjective(list), NEW n
  PROVE  Cardinality({i \in 1 .. Len(list) : list[i] = n}) = IF n \in ToSet(list) THEN 1 ELSE 0
<1> DEFINE I == {i \in 1 .. Len(list) : list[i] = n}
<1>1. Len(list) \in Nat /\ DOMAIN list = 1 .. Len(list)
  BY LenProperties
<1>2. ASSUME n \in ToSet(list) PROVE Cardinality(I) = 1
  <2>1. PICK i \in 1 .. Len(list) : list[i] = n
    BY <1>1, <1>2 DEF ToSet
  <2>2. I = {i}
    BY <1>1, <2>1 DEF IsInjective
  <2> QED BY <2>2, FS_Singleton
<1>3. ASSUME n \notin ToSet(list) PROVE Cardinality(I) = 0
  <2>1. I = {}
    BY <1>1, <1>3 DEF ToSet
  <2> QED BY <2>1, FS_EmptySet
<1> QED BY <1>2, <1>3

-----------------------------------------------------------------------------
(* The inductive invariant *)

Task == [op : Ops, obj : Objects \cup {NULL}]

Named(op, o) == \E t \in Threads : \E i \in 1..Len(todo[t]) : todo[t][i] = T(op, o)

Linked(p) == p \in ToSet(vdevPeers[vdevOf[p]])

\* What an operation is about.
ObjectsOf(op) ==
  IF op \in {"alloc", "attach", "pin", "init", "next", "visit", "detach"} THEN Peers
  ELSE IF op \in {"valloc", "vcount", "vinit", "vend", "unlock"} THEN Vdevs
  ELSE IF op \in {"pop", "sched"} THEN {NULL} ELSE Objects

\* Where a task of a program s of t may be, and what is behind it; vd is vdevOf.
ShapeOK(vd, t, s, i) ==
  LET k == s[i] IN
  /\ k.obj \in ObjectsOf(k.op)
  /\ k.op \in {"alloc", "attach"} =>
       t = Mc /\ i = 1 /\ Len(s) = 2 /\ s[2] = T("rel", vd[k.obj])
  /\ k.op = "pin" => t = Mc /\ i = 1 /\ Len(s) = 3 /\ s[2] = T("init", k.obj)
  /\ k.op = "init" => t = Mc /\ Len(s) = i + 1 /\ (i = 1 \/ s[1].op = "pin")
                                /\ s[i + 1] = T("rel", vd[k.obj])
  /\ k.op = "del" => /\ t = IF k.obj \in Peers THEN Mc ELSE Hdd
                     /\ \A j \in 1..Len(s) : s[j].op \in {"init", "del"} => j = i
  /\ k.op \in {"valloc", "vcount", "vinit"} => t = Hdd /\ Len(s) = 1
  /\ k.op \in {"vend", "unlock"} =>
       t \in Readers /\ Len(s) = i + 1 /\ s[i + 1] = T("rel", k.obj)
  /\ k.op = "visit" => i + 2 <= Len(s) /\ s[Len(s) - 1] = T("vend", vd[k.obj])
  /\ k.op = "detach" => i < Len(s) /\ s[i + 1] = T("free", k.obj)
  /\ k.op = "free" /\ k.obj \in Peers => i < Len(s) /\ s[i + 1] = T("rel", vd[k.obj])
  /\ k.op = "pop" => t = Worker /\ i = Len(s)

ShapeLink == \A t \in Threads : \A i \in 1..Len(todo[t]) : ShapeOK(vdevOf, t, todo[t], i)

\* What a task of t rests on.
TaskOK(t, k) ==
  /\ k.op \in {"alloc", "valloc"} => k.obj \notin mem
  /\ k.op \notin {"alloc", "valloc", "pop", "sched"} => k.obj \in mem
  /\ k.op \in {"attach", "pin", "init", "vinit"} => st[k.obj] = "allocated"
  /\ k.op = "vcount" => st[k.obj] = "uncounted"
  /\ k.op = "del" => st[k.obj] \in {"allocated", "created"}
  /\ k.op = "visit" => vlock[vdevOf[k.obj]] = t /\ Linked(k.obj)
  /\ k.op \in {"vend", "unlock"} => vlock[k.obj] = t

TaskLink == \A t \in Threads : \A i \in 1..Len(todo[t]) : TaskOK(t, todo[t][i])

\* Nobody knows a peer that is about to be attached.
AloneLink ==
  \A p \in Peers : Named("attach", p) =>
    \A t \in Threads : \A i \in 1..Len(todo[t]) : todo[t][i].obj = p => todo[t][i].op = "attach"

\* Memory, lists and pointers.
ListLink ==
  /\ ToSet(psocPeers) = mem \cap Peers
  /\ table = mem \cap Vdevs
  /\ ToSet(freeList) \subseteq mem
  /\ \A v \in Vdevs : \A p \in ToSet(vdevPeers[v]) : p \in mem /\ v \in mem /\ vdevOf[p] = v
  /\ \A v \in Vdevs : bss[v] # NULL => bss[v] \in ToSet(vdevPeers[v]) /\ role[bss[v]] = "bss"

\* A peer is on its vdev's list from its attachment to its detachment.
StageLink ==
  \A p \in mem \cap Peers :
    Linked(p) <=> ~Named("attach", p) /\ (Named("free", p) => Named("detach", p))

\* A station that is attached, and not being freed, counts on the BSS peer of its
\* vdev, and that one is there when a station is created.
PinLink ==
  /\ \A q \in Peers : pins[q] # NULL =>
       /\ q \in mem /\ role[q] = "sta" /\ pins[q] = bss[vdevOf[q]]
       /\ \A op \in {"attach", "pin", "free"} : ~Named(op, q)
  /\ \A q \in mem \cap Peers : role[q] = "sta" /\ pins[q] = NULL =>
       \E op \in {"attach", "pin", "free"} : Named(op, q)
  /\ \A q \in Peers : \A op \in {"alloc", "attach", "pin"} : Named(op, q) =>
       IF role[q] = "sta" THEN bss[vdevOf[q]] # NULL /\ Usable(bss[vdevOf[q]]) ELSE op # "pin"

LockLink ==
  /\ vlock \in [Vdevs -> Readers \cup {NULL}]
  /\ Delayed => \A t \in Threads : \A i \in 1..Len(todo[t]) :
       todo[t][i].op \in {"destroy", "detach"} /\ todo[t][i].obj \in Peers =>
         \A v \in Vdevs : vlock[v] # t

WorkLink == freeList # <<>> => work \/ Named("sched", NULL) \/ Named("pop", NULL)

\* An object that is neither usable nor deleted has somebody who will make it so.
Births == {"attach", "init", "del", "vcount", "vinit"}

Unfinished(s) == s \in {"uncounted", "allocated"}

BornLink ==
  \A o \in mem : Unfinished(st[o]) => \E op \in Births : Named(op, o)

\* CountExact, for peers and vdevs alike: the references that threads hold, and
\* those of the creator and of other objects.
Refs(o)    == IF o \in Peers THEN {"rel", "next"} ELSE {"rel", "vend"}
Pinners(p) == {q \in Peers : pins[q] = p}
Others(o)  == Creators(o)
              + (IF o \in Peers THEN Cardinality(Pinners(o)) ELSE Len(vdevPeers[o]))

RefLink == \A o \in mem : ref[o] = Others(o) + Pending(o, Refs(o))

\* DestroyedOnce
Ends       == {"vcount", "destroy", "free"}
Waiting(o) == {i \in 1..Len(freeList) : freeList[i] = o}

EndLink == \A o \in mem : Pending(o, Ends) + Cardinality(Waiting(o)) = IF ref[o] = 0 THEN 1 ELSE 0

IInv ==
  /\ Types /\ ShapeLink /\ TaskLink /\ AloneLink /\ ListLink /\ StageLink
  /\ PinLink /\ RefLink /\ EndLink /\ LockLink /\ WorkLink /\ BornLink

-----------------------------------------------------------------------------
(* Counting tasks *)

Hits(s, o, ops) == {i \in 1..Len(s) : s[i].op \in ops /\ s[i].obj = o}
Count(s, o, ops) == Cardinality(Hits(s, o, ops))

LEMMA HitsFinite ==
  ASSUME NEW s \in Seq(Task), NEW o, NEW ops
  PROVE  /\ IsFiniteSet(Hits(s, o, ops))
         /\ Count(s, o, ops) \in Nat
         /\ Count(s, o, ops) = 0 <=> \A i \in 1..Len(s) : ~(s[i].op \in ops /\ s[i].obj = o)
<1>1. Len(s) \in Nat
  BY LenProperties
<1>2. IsFiniteSet(1..Len(s))
  BY <1>1, FS_Interval
<1>3. IsFiniteSet(Hits(s, o, ops))
  BY <1>2, FS_Subset DEF Hits
<1>4. Count(s, o, ops) \in Nat
  BY <1>3, FS_CardinalityType DEF Count
<1>5. Count(s, o, ops) = 0 <=> Hits(s, o, ops) = {}
  BY <1>3, FS_EmptySet DEF Count
<1> QED BY <1>3, <1>4, <1>5 DEF Hits

LEMMA CountConcat ==
  ASSUME NEW a \in Seq(Task), NEW b \in Seq(Task), NEW o, NEW ops
  PROVE  Count(a \o b, o, ops) = Count(a, o, ops) + Count(b, o, ops)
<1> DEFINE n == Len(a)
           A == Hits(a, o, ops)
           B == Hits(b, o, ops)
           S == {i \in n + 1 .. n + Len(b) : i - n \in B}
<1>1. /\ n \in Nat /\ Len(b) \in Nat
      /\ a \o b \in Seq(Task) /\ Len(a \o b) = n + Len(b)
      /\ \A i \in 1 .. n + Len(b) : (a \o b)[i] = IF i <= n THEN a[i] ELSE b[i - n]
  BY LenProperties, ConcatProperties
<1>2. Hits(a \o b, o, ops) = A \cup S
  <2>1. \A i \in 1 .. n + Len(b) : i \in Hits(a \o b, o, ops) <=> i \in A \cup S
    <3> TAKE i \in 1 .. n + Len(b)
    <3>1. CASE i <= n
      BY <1>1, <3>1 DEF Hits
    <3>2. CASE i > n
      BY <1>1, <3>2 DEF Hits
    <3> QED BY <3>1, <3>2, <1>1
  <2>2. Hits(a \o b, o, ops) \subseteq 1 .. n + Len(b) /\ A \cup S \subseteq 1 .. n + Len(b)
    BY <1>1 DEF Hits
  <2> QED BY <2>1, <2>2
<1>3. A \cap S = {}
  BY <1>1 DEF Hits
<1>4. IsFiniteSet(A) /\ IsFiniteSet(B)
  BY HitsFinite
<1>5. IsFiniteSet(S) /\ Cardinality(S) = Cardinality(B)
  <2> DEFINE f == [i \in B |-> i + n]
  <2>1. f \in Bijection(B, S)
    <3>1. \A i \in B : i \in 1 .. Len(b)
      BY DEF Hits
    <3>2. f \in [B -> S]
      BY <3>1, <1>1
    <3>3. \A i, j \in B : f[i] = f[j] => i = j
      BY <3>1, <1>1
    <3>4. \A j \in S : j - n \in B /\ f[j - n] = j
      BY <3>1, <1>1
    <3> QED BY <3>2, <3>3, <3>4 DEF Bijection, Injection, Surjection, IsInjective
  <2>2. ExistsBijection(B, S)
    BY <2>1 DEF ExistsBijection
  <2> QED BY <1>4, <2>2, FS_Bijection
<1>6. Cardinality(A \cup S) = Cardinality(A) + Cardinality(S) - Cardinality(A \cap S)
  BY <1>4, <1>5, FS_Union
<1>7. Cardinality(A \cap S) = 0
  BY <1>3, FS_EmptySet
<1>8. Cardinality(A) \in Nat /\ Cardinality(S) \in Nat
  BY <1>4, <1>5, FS_CardinalityType
<1> QED BY <1>2, <1>5, <1>6, <1>7, <1>8 DEF Count

One(k, o, ops) == IF k.op \in ops /\ k.obj = o THEN 1 ELSE 0

\* How programs of a few tasks are put together.
LEMMA Glue ==
  /\ \A j, k \in Task : <<j, k>> = <<j>> \o <<k>> /\ <<j>> \in Seq(Task) /\ <<j, k>> \in Seq(Task)
  /\ \A j, k, l \in Task : <<j, k, l>> = <<j>> \o <<k, l>> /\ <<j, k, l>> \in Seq(Task)
<1>1. ASSUME NEW j \in Task, NEW k \in Task PROVE <<j, k>> = <<j>> \o <<k>>
  <2> DEFINE a == <<j>>
             b == <<k>>
             c == <<j, k>>
  <2>1. /\ a \in Seq(Task) /\ b \in Seq(Task) /\ c \in Seq(Task)
        /\ Len(a) = 1 /\ Len(b) = 1 /\ Len(c) = 2 /\ a[1] = j /\ b[1] = k /\ c[1] = j /\ c[2] = k
    OBVIOUS
  <2> HIDE DEF a, b, c
  <2>2. a \o b \in Seq(Task) /\ Len(a \o b) = 2 /\ (a \o b)[1] = j /\ (a \o b)[2] = k
    BY SMTT(30), <2>1, ConcatProperties
  <2>3. \A i \in 1..2 : c[i] = (a \o b)[i]
    BY <2>1, <2>2
  <2>4. c = a \o b
    BY <2>1, <2>2, <2>3, SeqEqual
  <2> QED BY <2>4 DEF a, b, c
<1>2. ASSUME NEW j \in Task, NEW k \in Task, NEW l \in Task PROVE <<j, k, l>> = <<j>> \o <<k, l>>
  <2> DEFINE a == <<j>>
             b == <<k, l>>
             c == <<j, k, l>>
  <2>1. /\ a \in Seq(Task) /\ b \in Seq(Task) /\ c \in Seq(Task)
        /\ Len(a) = 1 /\ Len(b) = 2 /\ Len(c) = 3
        /\ a[1] = j /\ b[1] = k /\ b[2] = l /\ c[1] = j /\ c[2] = k /\ c[3] = l
    OBVIOUS
  <2> HIDE DEF a, b, c
  <2>5. /\ a \o b \in Seq(Task) /\ Len(a \o b) = Len(a) + Len(b)
        /\ \A i \in 1 .. Len(a) + Len(b) : (a \o b)[i] = IF i <= Len(a) THEN a[i] ELSE b[i - Len(a)]
    BY <2>1, ConcatProperties
  <2>2. /\ a \o b \in Seq(Task) /\ Len(a \o b) = 3
        /\ (a \o b)[1] = j /\ (a \o b)[2] = k /\ (a \o b)[3] = l
    BY <2>1, <2>5
  <2>3. \A i \in 1..3 : c[i] = (a \o b)[i]
    BY <2>1, <2>2
  <2>4. c = a \o b
    BY <2>1, <2>2, <2>3, SeqEqual
  <2> QED BY <2>4 DEF a, b, c
<1>3. \A j, k, l \in Task : <<j>> \in Seq(Task) /\ <<j, k>> \in Seq(Task) /\ <<j, k, l>> \in Seq(Task)
  OBVIOUS
<1> QED BY <1>1, <1>2, <1>3

LEMMA CountFew ==
  ASSUME NEW o, NEW ops
  PROVE  /\ Count(<<>>, o, ops) = 0
         /\ \A j \in Task : Count(<<j>>, o, ops) = One(j, o, ops)
         /\ \A j, k \in Task : Count(<<j, k>>, o, ops) = One(j, o, ops) + One(k, o, ops)
         /\ \A j, k, l \in Task :
              Count(<<j, k, l>>, o, ops) = One(j, o, ops) + One(k, o, ops) + One(l, o, ops)
<1>1. Count(<<>>, o, ops) = 0
  <2>1. Hits(<<>>, o, ops) = {}
    BY DEF Hits
  <2> QED BY <2>1, FS_EmptySet DEF Count
<1>2. ASSUME NEW j \in Task PROVE Count(<<j>>, o, ops) = One(j, o, ops)
  <2>1. Hits(<<j>>, o, ops) = IF j.op \in ops /\ j.obj = o THEN {1} ELSE {}
    BY DEF Hits
  <2> QED BY <2>1, FS_Singleton, FS_EmptySet DEF Count, One
<1>3. ASSUME NEW j \in Task, NEW s \in Seq(Task)
      PROVE  Count(<<j>> \o s, o, ops) = One(j, o, ops) + Count(s, o, ops)
  <2> DEFINE a == <<j>>
  <2>1. a \in Seq(Task)
    OBVIOUS
  <2>2. Count(a, o, ops) = One(j, o, ops)
    BY <1>2
  <2> HIDE DEF a
  <2>3. Count(a \o s, o, ops) = Count(a, o, ops) + Count(s, o, ops)
    BY <2>1, CountConcat
  <2> QED BY <2>2, <2>3 DEF a
<1>4. ASSUME NEW j \in Task, NEW k \in Task
      PROVE  Count(<<j, k>>, o, ops) = One(j, o, ops) + One(k, o, ops)
  <2> DEFINE s == <<k>>
  <2>1. <<j, k>> = <<j>> \o s /\ s \in Seq(Task)
    BY Glue
  <2>2. Count(s, o, ops) = One(k, o, ops)
    BY <1>2
  <2> HIDE DEF s
  <2> QED BY <1>3, <2>1, <2>2
<1>5. ASSUME NEW j \in Task, NEW k \in Task, NEW l \in Task
      PROVE  Count(<<j, k, l>>, o, ops) = One(j, o, ops) + One(k, o, ops) + One(l, o, ops)
  <2> DEFINE s == <<k, l>>
  <2>1. <<j, k, l>> = <<j>> \o s /\ s \in Seq(Task)
    BY Glue
  <2>2. Count(s, o, ops) = One(k, o, ops) + One(l, o, ops)
    BY <1>4
  <2>3. One(j, o, ops) \in Nat /\ One(k, o, ops) \in Nat /\ One(l, o, ops) \in Nat
    BY DEF One
  <2> HIDE DEF s
  <2>4. Count(<<j>> \o s, o, ops) = One(j, o, ops) + Count(s, o, ops)
    BY <1>3, <2>1
  <2>5. Count(<<j, k, l>>, o, ops) = Count(<<j>> \o s, o, ops)
    BY <2>1, Zenon
  <2> QED BY <2>2, <2>3, <2>4, <2>5
<1> QED BY <1>1, <1>2, <1>4, <1>5

-----------------------------------------------------------------------------
(* Steps *)

Programs == [Threads -> Seq(Task)]

\* Thread t replaces h, the front of its program, by n; m is what is behind.
Step(t, h, m, n) ==
  /\ t \in Threads /\ h \in Seq(Task) /\ m \in Seq(Task) /\ n \in Seq(Task)
  /\ todo[t] = h \o m
  /\ todo' = [todo EXCEPT ![t] = n \o m]

LEMMA FiniteThreads == IsFiniteSet(Threads)
<1>1. IsFiniteSet({Hdd, Mc, Worker})
  <2>1. IsFiniteSet({Hdd})
    BY FS_Singleton
  <2>2. IsFiniteSet({Hdd} \cup {Mc})
    BY <2>1, FS_AddElement
  <2>3. IsFiniteSet(({Hdd} \cup {Mc}) \cup {Worker})
    BY <2>2, FS_AddElement
  <2>4. ({Hdd} \cup {Mc}) \cup {Worker} = {Hdd, Mc, Worker}
    OBVIOUS
  <2> QED BY <2>3, <2>4
<1>2. IsFiniteSet(Readers)
  BY ThreadsAssumption
<1> QED BY <1>1, <1>2, FS_Union DEF Threads

\* The places of the tasks of some threads.
PlacesOf(d, S, o, ops) == UNION {{t} \X Hits(d[t], o, ops) : t \in S}

LEMMA PlacesFinite ==
  ASSUME NEW d \in Programs, NEW S \in SUBSET Threads, NEW o, NEW ops
  PROVE  IsFiniteSet(PlacesOf(d, S, o, ops))
<1> DEFINE f == [t \in S |-> {t} \X Hits(d[t], o, ops)]
           F == {{t} \X Hits(d[t], o, ops) : t \in S}
<1>1. IsFiniteSet(S)
  BY FiniteThreads, FS_Subset
<1>2. f \in Surjection(S, F)
  BY DEF Surjection
<1>3. IsFiniteSet(F)
  BY <1>1, <1>2, FS_Surjection
<1>4. \A x \in F : IsFiniteSet(x)
  <2> SUFFICES ASSUME NEW t \in S PROVE IsFiniteSet({t} \X Hits(d[t], o, ops))
    OBVIOUS
  <2>1. IsFiniteSet({t}) /\ IsFiniteSet(Hits(d[t], o, ops))
    BY FS_Singleton, HitsFinite DEF Programs
  <2> QED BY <2>1, FS_Product
<1> QED BY <1>3, <1>4, FS_UNION DEF PlacesOf

\* What a thread has, and what the others have.
LEMMA PendingSplit ==
  ASSUME NEW d \in Programs, NEW t \in Threads, NEW o, NEW ops
  PROVE  /\ Cardinality(PlacesOf(d, Threads \ {t}, o, ops)) \in Nat
         /\ Cardinality(PlacesOf(d, Threads, o, ops))
              = Count(d[t], o, ops) + Cardinality(PlacesOf(d, Threads \ {t}, o, ops))
<1> DEFINE A == {t} \X Hits(d[t], o, ops)
           B == PlacesOf(d, Threads \ {t}, o, ops)
<1>1. PlacesOf(d, Threads, o, ops) = A \cup B
  BY DEF PlacesOf
<1>2. A \cap B = {}
  BY DEF PlacesOf
<1>3. IsFiniteSet(B) /\ Cardinality(B) \in Nat
  BY PlacesFinite, FS_CardinalityType
<1>4. IsFiniteSet({t}) /\ Cardinality({t}) = 1
  BY FS_Singleton
<1>5. IsFiniteSet(Hits(d[t], o, ops)) /\ Count(d[t], o, ops) \in Nat
  BY HitsFinite DEF Programs
<1>6. IsFiniteSet(A) /\ Cardinality(A) = 1 * Count(d[t], o, ops)
  BY <1>4, <1>5, FS_Product DEF Count
<1>7. Cardinality(A \cup B) = Cardinality(A) + Cardinality(B) - Cardinality(A \cap B)
  BY <1>3, <1>6, FS_Union
<1>8. Cardinality(A \cap B) = 0
  BY <1>2, FS_EmptySet
<1> HIDE DEF A, B
<1>9. Cardinality(A) = Count(d[t], o, ops)
  BY <1>5, <1>6
<1>10. Cardinality(A \cup B) = Count(d[t], o, ops) + Cardinality(B)
  BY <1>3, <1>5, <1>7, <1>8, <1>9
<1> QED BY <1>1, <1>3, <1>10 DEF B

LEMMA PendingIs ==
  ASSUME NEW o, NEW ops
  PROVE  /\ Pending(o, ops) = Cardinality(PlacesOf(todo, Threads, o, ops))
         /\ Pending(o, ops)' = Cardinality(PlacesOf(todo', Threads, o, ops))
BY DEF Pending, PlacesOf, Hits, All

LEMMA PendingZero ==
  ASSUME todo \in Programs, NEW o, NEW ops
  PROVE  /\ Pending(o, ops) \in Nat
         /\ Pending(o, ops) = 0 <=>
              \A t \in Threads : \A i \in 1..Len(todo[t]) : ~(todo[t][i].op \in ops /\ todo[t][i].obj = o)
<1> DEFINE P == PlacesOf(todo, Threads, o, ops)
<1>1. IsFiniteSet(P)
  BY PlacesFinite
<1>2. Cardinality(P) \in Nat /\ (Cardinality(P) = 0 <=> P = {})
  BY <1>1, FS_CardinalityType, FS_EmptySet
<1>3. P = {} <=> \A t \in Threads : Hits(todo[t], o, ops) = {}
  <2>1. ASSUME NEW t \in Threads, NEW i \in Hits(todo[t], o, ops) PROVE <<t, i>> \in P
    BY DEF PlacesOf
  <2>2. ASSUME NEW x \in P PROVE \E t \in Threads : Hits(todo[t], o, ops) # {}
    BY DEF PlacesOf
  <2> HIDE DEF P
  <2> QED BY <2>1, <2>2
<1> QED BY <1>2, <1>3, PendingIs DEF Hits

\* Two tasks are two.
LEMMA PendingTwo ==
  ASSUME todo \in Programs, NEW o, NEW ops, Pending(o, ops) <= 1,
         NEW t \in Threads, NEW i \in 1..Len(todo[t]), todo[t][i].op \in ops, todo[t][i].obj = o,
         NEW u \in Threads, NEW j \in 1..Len(todo[u]), todo[u][j].op \in ops, todo[u][j].obj = o
  PROVE  t = u /\ i = j
<1> DEFINE P == PlacesOf(todo, Threads, o, ops)
<1>1. <<t, i>> \in P /\ <<u, j>> \in P
  BY DEF PlacesOf, Hits
<1>2. IsFiniteSet(P) /\ Cardinality(P) <= 1 /\ Cardinality(P) \in Nat
  BY PlacesFinite, PendingIs, FS_CardinalityType
<1>3. Cardinality(P) # 0
  BY <1>1, <1>2, FS_EmptySet
<1>5. Cardinality(P) = 1
  BY <1>2, <1>3
<1>4. PICK x : P = {x}
  BY <1>2, <1>5, FS_Singleton
<1> HIDE DEF P
<1> QED BY <1>1, <1>4

\* How a step changes a count.
LEMMA PendingStep ==
  ASSUME todo \in Programs, NEW t, NEW h, NEW m, NEW n, Step(t, h, m, n), NEW o, NEW ops
  PROVE  /\ Pending(o, ops)' = Pending(o, ops) - Count(h, o, ops) + Count(n, o, ops)
         /\ Pending(o, ops) \in Nat /\ Pending(o, ops)' \in Nat
         /\ Count(h, o, ops) \in Nat /\ Count(n, o, ops) \in Nat /\ Count(h, o, ops) <= Pending(o, ops)
<1> DEFINE B(d) == Cardinality(PlacesOf(d, Threads \ {t}, o, ops))
<1>1. /\ t \in Threads /\ h \in Seq(Task) /\ m \in Seq(Task) /\ n \in Seq(Task)
      /\ todo[t] = h \o m /\ todo'[t] = n \o m /\ todo' \in Programs
      /\ \A u \in Threads \ {t} : todo'[u] = todo[u]
  <2>1. t \in Threads /\ h \in Seq(Task) /\ m \in Seq(Task) /\ n \in Seq(Task)
    BY DEF Step
  <2>2. n \o m \in Seq(Task)
    BY <2>1, ConcatProperties
  <2> QED BY <2>1, <2>2 DEF Step, Programs
<1>2. B(todo) = B(todo')
  BY <1>1 DEF PlacesOf
<1>3. Count(todo[t], o, ops) = Count(h, o, ops) + Count(m, o, ops)
  BY <1>1, CountConcat
<1>4. Count(todo'[t], o, ops) = Count(n, o, ops) + Count(m, o, ops)
  BY <1>1, CountConcat
<1>5. Count(h, o, ops) \in Nat /\ Count(m, o, ops) \in Nat /\ Count(n, o, ops) \in Nat
  BY <1>1, HitsFinite
<1>6. ASSUME NEW d \in Programs
      PROVE  B(d) \in Nat /\ Cardinality(PlacesOf(d, Threads, o, ops)) = Count(d[t], o, ops) + B(d)
  BY <1>1, PendingSplit
<1>7. /\ Pending(o, ops) = Cardinality(PlacesOf(todo, Threads, o, ops))
      /\ Pending(o, ops)' = Cardinality(PlacesOf(todo', Threads, o, ops))
  BY PendingIs
<1> HIDE DEF B
<1>8. B(todo) \in Nat /\ Pending(o, ops) = Count(todo[t], o, ops) + B(todo)
  BY <1>6, <1>7
<1>9. B(todo') \in Nat /\ Pending(o, ops)' = Count(todo'[t], o, ops) + B(todo')
  BY <1>1, <1>6, <1>7
<1> QED BY <1>2, <1>3, <1>4, <1>5, <1>8, <1>9

LEMMA StepPlaces ==
  ASSUME todo \in Programs, NEW t, NEW h, NEW m, NEW n, Step(t, h, m, n)
  PROVE  /\ t \in Threads /\ todo' \in Programs
         /\ \A u \in Threads \ {t} : todo'[u] = todo[u]
         /\ Len(h) \in Nat /\ Len(m) \in Nat /\ Len(n) \in Nat
         /\ Len(todo[t]) = Len(h) + Len(m) /\ Len(todo'[t]) = Len(n) + Len(m)
         /\ \A i \in 1..Len(h) : todo[t][i] = h[i]
         /\ \A i \in 1..Len(n) : todo'[t][i] = n[i]
         /\ \A i \in 1..Len(m) : todo[t][Len(h) + i] = m[i] /\ todo'[t][Len(n) + i] = m[i]
         /\ todo'[t] = n \o m /\ todo[t] = h \o m
<1>1. /\ t \in Threads /\ h \in Seq(Task) /\ m \in Seq(Task) /\ n \in Seq(Task)
      /\ Len(h) \in Nat /\ Len(m) \in Nat /\ Len(n) \in Nat
  BY LenProperties DEF Step
<1>2. /\ n \o m \in Seq(Task) /\ Len(n \o m) = Len(n) + Len(m)
      /\ \A i \in 1 .. Len(n) + Len(m) : (n \o m)[i] = IF i <= Len(n) THEN n[i] ELSE m[i - Len(n)]
  BY <1>1, ConcatProperties
<1>3. /\ Len(h \o m) = Len(h) + Len(m)
      /\ \A i \in 1 .. Len(h) + Len(m) : (h \o m)[i] = IF i <= Len(h) THEN h[i] ELSE m[i - Len(h)]
  BY <1>1, ConcatProperties
<1>4. /\ todo[t] = h \o m /\ todo'[t] = n \o m /\ todo' \in Programs
      /\ \A u \in Threads \ {t} : todo'[u] = todo[u]
  BY <1>1, <1>2 DEF Step, Programs
<1>5. /\ \A i \in 1..Len(m) : (h \o m)[Len(h) + i] = m[i] /\ (n \o m)[Len(n) + i] = m[i]
      /\ \A i \in 1..Len(h) : (h \o m)[i] = h[i]
      /\ \A i \in 1..Len(n) : (n \o m)[i] = n[i]
  BY <1>1, <1>2, <1>3
<1> QED BY <1>1, <1>2, <1>3, <1>4, <1>5

Has(s, k) == \E i \in 1..Len(s) : s[i] = k

\* Every task after a step is a new one or was there before, with the same thread.
LEMMA StepTasks ==
  ASSUME todo \in Programs, NEW t, NEW h, NEW m, NEW n, Step(t, h, m, n)
  PROVE  /\ \A u \in Threads : \A j \in 1..Len(todo'[u]) :
              \/ u = t /\ \E i \in 1..Len(n) : todo'[u][j] = n[i]
              \/ \E i \in 1..Len(todo[u]) : (u = t => i > Len(h)) /\ todo'[u][j] = todo[u][i]
         /\ \A i \in 1..Len(n) : \E j \in 1..Len(todo'[t]) : todo'[t][j] = n[i]
         /\ \A u \in Threads : \A i \in 1..Len(todo[u]) :
              \/ u = t /\ \E j \in 1..Len(h) : todo[u][i] = h[j]
              \/ \E j \in 1..Len(todo'[u]) : todo'[u][j] = todo[u][i]
<1>0. /\ \A i \in 1..Len(m) : Len(h) + i \in 1..Len(todo[t]) /\ Len(n) + i \in 1..Len(todo'[t])
      /\ \A j \in 1..Len(todo'[t]) : j \in 1..Len(n) \/ (j - Len(n) \in 1..Len(m) /\ j = Len(n) + (j - Len(n)))
      /\ \A j \in 1..Len(todo[t]) : j \in 1..Len(h) \/ (j - Len(h) \in 1..Len(m) /\ j = Len(h) + (j - Len(h)))
      /\ \A j \in 1..Len(n) : j \in 1..Len(todo'[t])
      /\ \A i \in 1..Len(m) : Len(h) + i > Len(h)
  BY SMTT(30), StepPlaces
<1>1. ASSUME NEW u \in Threads, NEW j \in 1..Len(todo'[u])
      PROVE  \/ u = t /\ \E i \in 1..Len(n) : todo'[u][j] = n[i]
             \/ \E i \in 1..Len(todo[u]) : (u = t => i > Len(h)) /\ todo'[u][j] = todo[u][i]
  <2>1. CASE u # t
    <3>1. todo'[u] = todo[u]
      BY <2>1, StepPlaces
    <3> QED BY <2>1, <3>1
  <2>2. CASE u = t /\ j \in 1..Len(n)
    BY <2>2, StepPlaces
  <2>3. CASE u = t /\ j \notin 1..Len(n)
    <3>1. PICK i \in 1..Len(m) : j = Len(n) + i
      BY <1>0, <2>3
    <3>2. todo'[t][j] = todo[t][Len(h) + i]
      BY SMTT(30), <3>1, StepPlaces
    <3> QED BY <1>0, <2>3, <3>2
  <2> QED BY <2>1, <2>2, <2>3
<1>2. \A i \in 1..Len(n) : \E j \in 1..Len(todo'[t]) : todo'[t][j] = n[i]
  BY <1>0, StepPlaces
<1>3. ASSUME NEW u \in Threads, NEW i \in 1..Len(todo[u])
      PROVE  \/ u = t /\ \E j \in 1..Len(h) : todo[u][i] = h[j]
             \/ \E j \in 1..Len(todo'[u]) : todo'[u][j] = todo[u][i]
  <2>1. CASE u # t
    <3>1. todo'[u] = todo[u]
      BY <2>1, StepPlaces
    <3> QED BY <3>1
  <2>2. CASE u = t /\ i \in 1..Len(h)
    BY <2>2, StepPlaces
  <2>3. CASE u = t /\ i \notin 1..Len(h)
    <3>1. PICK j \in 1..Len(m) : i = Len(h) + j
      BY <1>0, <2>3
    <3>2. todo[t][i] = todo'[t][Len(n) + j]
      BY SMTT(30), <3>1, StepPlaces
    <3> QED BY <1>0, <2>3, <3>2
  <2> QED BY <2>1, <2>2, <2>3
<1> QED BY <1>1, <1>2, <1>3

LEMMA StepNamed ==
  ASSUME todo \in Programs, NEW t, NEW h, NEW m, NEW n, Step(t, h, m, n), NEW op, NEW o
  PROVE  /\ Named(op, o)' => Has(n, T(op, o)) \/ Named(op, o)
         /\ Has(n, T(op, o)) => Named(op, o)'
         /\ Named(op, o) /\ ~Has(h, T(op, o)) => Named(op, o)'
<1>1. t \in Threads
  BY DEF Step
<1>2. ASSUME Named(op, o)', ~Has(n, T(op, o)) PROVE Named(op, o)
  <2>1. PICK u \in Threads : \E j \in 1..Len(todo'[u]) : todo'[u][j] = T(op, o)
    BY <1>2 DEF Named, T
  <2>2. PICK j \in 1..Len(todo'[u]) : todo'[u][j] = T(op, o)
    BY <2>1
  <2>3. \/ \E i \in 1..Len(n) : todo'[u][j] = n[i]
        \/ \E i \in 1..Len(todo[u]) : todo'[u][j] = todo[u][i]
    BY StepTasks
  <2> QED BY <1>2, <2>2, <2>3 DEF Named, Has
<1>3. ASSUME Has(n, T(op, o)) PROVE Named(op, o)'
  <2>1. \A i \in 1..Len(n) : \E j \in 1..Len(todo'[t]) : todo'[t][j] = n[i]
    BY StepTasks
  <2> QED BY <1>1, <1>3, <2>1 DEF Named, Has, T
<1>4. ASSUME Named(op, o), ~Has(h, T(op, o)) PROVE Named(op, o)'
  <2>1. PICK u \in Threads : \E j \in 1..Len(todo[u]) : todo[u][j] = T(op, o)
    BY <1>4 DEF Named
  <2>2. PICK j \in 1..Len(todo[u]) : todo[u][j] = T(op, o)
    BY <2>1
  <2>3. \E i \in 1..Len(todo'[u]) : todo'[u][i] = todo[u][j]
    BY <1>4, <2>2, StepTasks DEF Has
  <2> QED BY <2>2, <2>3 DEF Named, T
<1> QED BY <1>2, <1>3, <1>4

LEMMA StepTaskLink ==
  ASSUME todo \in Programs, TaskLink, NEW t, NEW h, NEW m, NEW n, Step(t, h, m, n),
         \A u \in Threads : \A i \in 1..Len(todo[u]) : (u = t => i > Len(h)) =>
           \A k : k = todo[u][i] /\ TaskOK(u, k) => TaskOK(u, k)',
         \A i \in 1..Len(n) : \A k : k = n[i] => TaskOK(t, k)'
  PROVE  TaskLink'
<1> SUFFICES ASSUME NEW u \in Threads, NEW j \in 1..Len(todo'[u]), NEW k, k = todo'[u][j] PROVE TaskOK(u, k)'
  BY DEF TaskLink, TaskOK, Linked
<1>1. CASE u = t /\ \E i \in 1..Len(n) : k = n[i]
  BY <1>1
<1>2. CASE \E i \in 1..Len(todo[u]) : (u = t => i > Len(h)) /\ k = todo[u][i]
  <2> PICK i \in 1..Len(todo[u]) : (u = t => i > Len(h)) /\ k = todo[u][i]
    BY <1>2
  <2>1. TaskOK(u, k)
    BY DEF TaskLink
  <2> QED BY <2>1
<1> QED BY <1>1, <1>2, StepTasks

\* The arithmetic of a place among the l tasks behind one task, or behind b.
LEMMA Behind ==
  ASSUME NEW l \in Nat, NEW b \in Nat, NEW i \in 1..l
  PROVE  /\ 1 + i # 1 /\ l + 1 # 1 /\ 1 + i + 1 = i + 2 /\ l + 1 - 1 = l
         /\ l + 1 = 1 + i + 1 <=> l = i + 1
         /\ 1 + i + 2 <= l + 1 <=> i + 2 <= l
         /\ 1 + i < l + 1 <=> i < l
         /\ 1 + i = l + 1 <=> i = l
         /\ l = i + 1 => i < l
         /\ b + l = b + i + 1 <=> l = i + 1
         /\ b + i + 2 <= b + l <=> i + 2 <= l
         /\ b + i < b + l <=> i < l
         /\ b + i = b + l <=> i = l
         /\ i < l => i + 1 \in 1..l /\ 1 + (i + 1) = i + 2 /\ b + (i + 1) = b + i + 1
         /\ i + 2 <= l => l - 1 \in 1..l /\ 1 + (l - 1) = l /\ b + (l - 1) = b + l - 1
         /\ \A e \in 1..b + l : e \notin 1..b =>
              e - b \in 1..l /\ e = b + (e - b) /\ 1 + (e - b) \in 1..l + 1
OBVIOUS

\* k is the task i behind the first of r and behind b of s.
BehindAt(r, s, l, b, i, k, g, j) ==
  /\ g = 1 + i /\ j = b + i /\ Len(r) = l + 1 /\ Len(s) = b + l /\ r[g] = k
  /\ \A e \in 1..l : r[1 + e] = s[b + e]
  /\ r[1].op # "pin" /\ \A e \in 1..b : s[e].op \notin {"init", "del"}

\* What is asked of a task is asked of what is behind it.
LEMMA ShapeBehind ==
  ASSUME NEW t, NEW r, NEW s, NEW l \in Nat, NEW b \in Nat, NEW i \in 1..l, NEW k,
         NEW g, NEW j,
         BehindAt(r, s, l, b, i, k, g, j),
         ShapeOK(vdevOf, t, r, g), k.obj \in Peers => vdevOf'[k.obj] = vdevOf[k.obj]
  PROVE  ShapeOK(vdevOf', t, s, j)
<1>0. r[1].op # "pin" /\ \A e \in 1..b : s[e].op \notin {"init", "del"}
  BY DEF BehindAt
<1>2. \A e \in 1..l : r[1 + e] = s[b + e]
  BY DEF BehindAt
<1>1. Len(r) = l + 1 /\ Len(s) = b + l /\ r[1 + i] = k /\ s[b + i] = k /\ g = 1 + i /\ j = b + i
  BY <1>2 DEF BehindAt
<1>3. ShapeOK(vdevOf, t, r, 1 + i)
  BY <1>1
<1>4. /\ k.obj \in ObjectsOf(k.op)
      /\ k.op \notin {"alloc", "attach", "pin", "init", "valloc", "vcount", "vinit"}
      /\ k.op = "del" => /\ t = IF k.obj \in Peers THEN Mc ELSE Hdd
                         /\ \A e \in 1..Len(r) : r[e].op \in {"init", "del"} => e = 1 + i
      /\ k.op \in {"vend", "unlock"} => t \in Readers /\ l = i + 1 /\ r[i + 2] = T("rel", k.obj)
      /\ k.op = "visit" => i + 2 <= l /\ r[l] = T("vend", vdevOf[k.obj])
      /\ k.op = "detach" => i < l /\ r[i + 2] = T("free", k.obj)
      /\ k.op = "free" /\ k.obj \in Peers => i < l /\ r[i + 2] = T("rel", vdevOf[k.obj])
      /\ k.op = "pop" => t = Worker /\ i = l
  <2>1. /\ 1 + i # 1
        /\ Len(r) = 1 + i + 1 <=> l = i + 1
        /\ 1 + i + 2 <= Len(r) <=> i + 2 <= l
        /\ 1 + i < Len(r) <=> i < l
        /\ 1 + i = Len(r) <=> i = l
        /\ 1 + i + 1 = i + 2 /\ Len(r) - 1 = l /\ Len(r) # 1
    BY <1>1, Behind
  <2> QED BY <1>0, <1>1, <1>3, <2>1 DEF ShapeOK
<1>5. /\ i < l => s[b + i + 1] = r[i + 2]
      /\ i + 2 <= l => s[Len(s) - 1] = r[l]
  <2>1. i < l => i + 1 \in 1..l /\ 1 + (i + 1) = i + 2 /\ b + (i + 1) = b + i + 1
    BY <1>1, Behind
  <2>2. i + 2 <= l => l - 1 \in 1..l /\ 1 + (l - 1) = l /\ b + (l - 1) = Len(s) - 1
    BY <1>1, Behind
  <2>3. ASSUME i < l PROVE s[b + i + 1] = r[i + 2]
    BY <1>2, <2>1, <2>3
  <2>4. ASSUME i + 2 <= l PROVE s[Len(s) - 1] = r[l]
    BY <1>2, <2>2, <2>4
  <2> QED BY <2>3, <2>4
<1>6. ASSUME k.op = "del", NEW e \in 1..Len(s), s[e].op \in {"init", "del"} PROVE e = b + i
  <2>1. e \notin 1..b
    BY <1>0, <1>6
  <2>2. e - b \in 1..l /\ e = b + (e - b) /\ 1 + (e - b) \in 1..Len(r)
    BY <1>1, <2>1, Behind
  <2>3. s[e] = r[1 + (e - b)]
    BY <1>2, <2>2
  <2>4. 1 + (e - b) = 1 + i
    BY <1>4, <1>6, <2>2, <2>3
  <2> QED BY <1>1, <2>2, <2>4
<1>7. k.op \in {"visit", "detach"} => k.obj \in Peers
  BY <1>4 DEF ObjectsOf
<1>8. /\ k.op \in {"vend", "unlock"} => t \in Readers /\ Len(s) = b + i + 1 /\ s[b + i + 1] = T("rel", k.obj)
      /\ k.op = "visit" => b + i + 2 <= Len(s) /\ s[Len(s) - 1] = T("vend", vdevOf'[k.obj])
      /\ k.op = "detach" => b + i < Len(s) /\ s[b + i + 1] = T("free", k.obj)
      /\ k.op = "free" /\ k.obj \in Peers => b + i < Len(s) /\ s[b + i + 1] = T("rel", vdevOf'[k.obj])
      /\ k.op = "pop" => t = Worker /\ b + i = Len(s)
  <2>1. /\ l = i + 1 => i < l
        /\ Len(s) = b + i + 1 <=> l = i + 1
        /\ b + i + 2 <= Len(s) <=> i + 2 <= l
        /\ b + i < Len(s) <=> i < l
        /\ b + i = Len(s) <=> i = l
    BY SMTT(30), <1>1, Behind
  <2>2. k.obj \in Peers => vdevOf'[k.obj] = vdevOf[k.obj]
    OBVIOUS
  <2> QED BY <1>4, <1>5, <1>7, <2>1, <2>2
<1>9. s[b + i] = k
  BY <1>1
<1> QED BY <1>1, <1>4, <1>6, <1>8, <1>9 DEF ShapeOK, ObjectsOf

\* The new tasks are put in front of a program that needs nothing of its front.
LEMMA StepShapeLink ==
  ASSUME todo \in Programs, ShapeLink, NEW t, NEW h, NEW m, NEW n, Step(t, h, m, n),
         \A u \in Threads : \A i \in 1..Len(todo[u]) :
           todo[u][i].obj \in Peers => vdevOf'[todo[u][i].obj] = vdevOf[todo[u][i].obj],
         \/ m = <<>>
         \/ /\ \/ Len(h) = 1 /\ h[1].op # "pin"
               \/ h = <<>> /\ \A i \in 1..Len(m) : m[i].op \in {"rel", "pop"}
            /\ \A i \in 1..Len(n) : n[i].op \notin {"init", "del"},
         \A i \in 1..Len(n) : ShapeOK(vdevOf', t, n \o m, i)
  PROVE  ShapeLink'
<1> SUFFICES ASSUME NEW u \in Threads, NEW j \in 1..Len(todo'[u]), NEW s, s = todo'[u] PROVE ShapeOK(vdevOf', u, s, j)
  BY SMTT(30) DEF ShapeLink
<1>1. CASE u # t
  <2>1. todo'[u] = todo[u]
    BY <1>1, StepPlaces
  <2>2. ShapeOK(vdevOf, u, s, j) /\ (s[j].obj \in Peers => vdevOf'[s[j].obj] = vdevOf[s[j].obj])
    BY <2>1 DEF ShapeLink
  <2> QED BY <2>2 DEF ShapeOK, ObjectsOf
<1>2. CASE u = t /\ j \in 1..Len(n)
  <2>1. s = n \o m
    BY <1>2, StepPlaces
  <2>2. ShapeOK(vdevOf', t, n \o m, j)
    BY <1>2
  <2> QED BY <1>2, <2>1, <2>2
<1>3. CASE u = t /\ j \notin 1..Len(n)
  <2>0. /\ Len(m) \in Nat /\ Len(n) \in Nat /\ Len(h) \in Nat
        /\ Len(s) = Len(n) + Len(m) /\ Len(todo[t]) = Len(h) + Len(m)
    BY <1>3, StepPlaces
  <2>1. PICK i \in 1..Len(m) : j = Len(n) + i
    <3>1. j - Len(n) \in 1..Len(m) /\ j = Len(n) + (j - Len(n))
      BY <1>3, <2>0
    <3> QED BY <3>1
  <2> DEFINE r == todo[t]
             g == Len(h) + i
  <2>2. /\ g \in 1..Len(r) /\ r[g] = m[i] /\ s[j] = m[i]
        /\ \A e \in 1..Len(m) : r[Len(h) + e] = m[e] /\ s[Len(n) + e] = m[e]
        /\ \A e \in 1..Len(n) : s[e] = n[e]
        /\ \A e \in 1..Len(h) : r[e] = h[e]
    <3>1. s = todo'[t]
      BY <1>3
    <3>2. \A e \in 1..Len(m) : r[Len(h) + e] = m[e] /\ s[Len(n) + e] = m[e]
      BY <3>1, StepPlaces
    <3>3. (\A e \in 1..Len(n) : s[e] = n[e]) /\ (\A e \in 1..Len(h) : r[e] = h[e])
      BY SMTT(30), <3>1, StepPlaces
    <3>4. g \in 1..Len(r)
      BY <2>0
    <3> QED BY <2>1, <3>2, <3>3, <3>4
  <2>3. ShapeOK(vdevOf, t, r, g) /\ (m[i].obj \in Peers => vdevOf'[m[i].obj] = vdevOf[m[i].obj])
    BY SMTT(30), <1>3, <2>2 DEF ShapeLink
  <2>4. m # <<>>
    <3>1. m \in Seq(Task)
      BY DEF Step
    <3> QED BY <2>1, <3>1, EmptySeq
  <2>5. \A e \in 1..Len(n) : n[e].op \notin {"init", "del"}
    BY <2>4
  <2>6. \A e \in 1..Len(s) : e \in 1..Len(n) \/ (e - Len(n) \in 1..Len(m) /\ e = Len(n) + (e - Len(n)))
    BY <2>0
  <2> HIDE DEF r, g
  <2>7. CASE h = <<>> /\ \A e \in 1..Len(m) : m[e].op \in {"rel", "pop"}
    <3>1. /\ m[i].op \in {"rel", "pop"} /\ Len(h) = 0 /\ s[j] = m[i] /\ r[g] = m[i]
          /\ g = Len(r) => j = Len(s)
      BY <2>0, <2>1, <2>2, <2>7 DEF g, r
    <3>2. m[i].obj \in ObjectsOf(m[i].op) /\ (m[i].op = "pop" => t = Worker /\ g = Len(r))
      BY <2>3, <3>1 DEF ShapeOK
    <3> QED BY <1>3, <3>1, <3>2 DEF ShapeOK, ObjectsOf
  <2>8. CASE Len(h) = 1 /\ h[1].op # "pin"
    <3> DEFINE l == Len(m)
               b == Len(n)
               k == m[i]
    <3>1. /\ l \in Nat /\ b \in Nat /\ Len(r) = l + 1 /\ Len(s) = b + l
          /\ r[1].op # "pin" /\ g = 1 + i /\ j = b + i
      BY SMTT(30), <2>0, <2>1, <2>2, <2>8 DEF r, g
    <3>2. r[g] = k
      BY <2>2, <3>1 DEF r
    <3>3. \A e \in 1..b : s[e].op \notin {"init", "del"}
      BY <2>2, <2>5
    <3>4. \A e \in 1..l : r[1 + e] = s[b + e]
      BY <2>2, <2>8 DEF r
    <3>6. ShapeOK(vdevOf, t, r, g) /\ (k.obj \in Peers => vdevOf'[k.obj] = vdevOf[k.obj])
      BY <2>3, <3>1
    <3>7. i \in 1..l
      OBVIOUS
    <3> HIDE DEF l, b, k
    <3>5. ShapeOK(vdevOf', t, s, j)
      <4>1. BehindAt(r, s, l, b, i, k, g, j)
        BY <3>1, <3>2, <3>3, <3>4 DEF BehindAt
      <4> QED BY <3>1, <3>6, <3>7, <4>1, ShapeBehind
    <3> QED BY <1>3, <3>1, <3>5
  <2> QED BY <2>4, <2>7, <2>8
<1> QED BY <1>1, <1>2, <1>3

-----------------------------------------------------------------------------
(* What the counts say *)

LEMMA Kinds ==
  /\ \A o \in Objects : o \in Peers <=> o \notin Vdevs
  /\ NULL \notin Objects /\ Objects = Vdevs \cup Peers
  /\ Mc \in Threads /\ Hdd \in Threads /\ Worker \in Threads /\ Readers \subseteq Threads
  /\ Mc \notin Readers /\ Hdd \notin Readers /\ Worker \notin Readers /\ NULL \notin Threads
  /\ Hdd # Mc /\ Hdd # Worker /\ Mc # Worker
BY ThreadsAssumption, ObjectsAssumption DEF ThreadsAssumption, ObjectsAssumption, Threads, Objects

LEMMA PinnersFinite ==
  ASSUME NEW p
  PROVE  /\ IsFiniteSet(Pinners(p)) /\ Cardinality(Pinners(p)) \in Nat
         /\ Cardinality(Pinners(p)) = 0 <=> \A q \in Peers : pins[q] # p
<1>1. IsFiniteSet(Pinners(p))
  BY ObjectsAssumption, FS_Subset DEF ObjectsAssumption, Pinners
<1>2. Cardinality(Pinners(p)) \in Nat /\ (Cardinality(Pinners(p)) = 0 <=> Pinners(p) = {})
  BY <1>1, FS_CardinalityType, FS_EmptySet
<1> QED BY <1>1, <1>2 DEF Pinners

LEMMA Typed ==
  ASSUME IInv
  PROVE  /\ todo \in Programs
         /\ \A t \in Threads : Len(todo[t]) \in Nat /\ \A i \in 1..Len(todo[t]) : todo[t][i] \in Task
         /\ \A v \in Vdevs : vdevPeers[v] \in Seq(Peers) /\ Len(vdevPeers[v]) \in Nat
         /\ \A v \in Vdevs : Len(vdevPeers[v]) = 0 <=> vdevPeers[v] = <<>>
         /\ \A o \in Objects : Others(o) \in Nat
         /\ freeList \in Seq(Peers) /\ psocPeers \in Seq(Peers)
         /\ mem \subseteq Objects
<1>1. Types
  BY DEF IInv
<1>2. todo \in Programs
  BY <1>1 DEF Types, Programs, Task
<1>3. \A t \in Threads : Len(todo[t]) \in Nat /\ \A i \in 1..Len(todo[t]) : todo[t][i] \in Task
  BY <1>2, LenProperties, ElementOfSeq DEF Programs
<1>4. \A v \in Vdevs : vdevPeers[v] \in Seq(Peers) /\ Len(vdevPeers[v]) \in Nat
  BY <1>1, LenProperties DEF Types
<1>5. \A v \in Vdevs : Len(vdevPeers[v]) = 0 <=> vdevPeers[v] = <<>>
  BY <1>4, EmptySeq
<1>6. \A o \in Objects : Others(o) \in Nat
  BY <1>4, PinnersFinite, Kinds DEF Others, Creators
<1> QED BY <1>1, <1>2, <1>3, <1>4, <1>5, <1>6 DEF Types

\* What is referred to is counted.
LEMMA Counted ==
  ASSUME IInv, NEW o \in mem
  PROVE  /\ ref[o] \in Nat /\ Pending(o, Refs(o)) \in Nat /\ ref[o] = Others(o) + Pending(o, Refs(o))
         /\ st[o] \in {"allocated", "created"} => ref[o] # 0
         /\ o \in Vdevs /\ vdevPeers[o] # <<>> => ref[o] # 0
         /\ \A q \in Peers : o \in Peers /\ pins[q] = o => ref[o] # 0
         /\ \A t \in Threads : \A i \in 1..Len(todo[t]) :
              todo[t][i].op \in Refs(o) /\ todo[t][i].obj = o => ref[o] # 0
<1>1. /\ o \in Objects /\ Others(o) \in Nat /\ todo \in Programs
      /\ ref[o] = Others(o) + Pending(o, Refs(o)) /\ ref[o] \in Nat
  BY Typed DEF IInv, RefLink, Types
<1>2. Pending(o, Refs(o)) \in Nat
  BY <1>1, PendingZero
<1>3. ref[o] = 0 => Others(o) = 0 /\ Pending(o, Refs(o)) = 0
  BY <1>1, <1>2
<1>4. Others(o) = 0 => /\ st[o] \notin {"allocated", "created"}
                       /\ o \in Vdevs => vdevPeers[o] = <<>>
                       /\ o \in Peers => \A q \in Peers : pins[q] # o
  <2>1. Cardinality(Pinners(o)) \in Nat /\ (o \notin Peers => Len(vdevPeers[o]) \in Nat)
    BY <1>1, Typed, Kinds, PinnersFinite
  <2>2. Others(o) = 0 => /\ st[o] \notin {"allocated", "created"}
                         /\ o \in Peers => Cardinality(Pinners(o)) = 0
                         /\ o \notin Peers => Len(vdevPeers[o]) = 0
    BY <2>1 DEF Others, Creators
  <2> QED BY <1>1, <2>2, Typed, Kinds, PinnersFinite
<1>5. Pending(o, Refs(o)) = 0 => \A t \in Threads : \A i \in 1..Len(todo[t]) :
                                   ~(todo[t][i].op \in Refs(o) /\ todo[t][i].obj = o)
  BY <1>1, PendingZero
<1> QED BY <1>1, <1>2, <1>3, <1>4, <1>5

\* What is ended is not referred to, and is ended once.
LEMMA Ended ==
  ASSUME IInv, NEW o \in mem
  PROVE  /\ Pending(o, Ends) \in Nat /\ Cardinality(Waiting(o)) \in Nat
         /\ Pending(o, Ends) + Cardinality(Waiting(o)) = IF ref[o] = 0 THEN 1 ELSE 0
         /\ o \in ToSet(freeList) <=> Cardinality(Waiting(o)) # 0
         /\ o \in ToSet(freeList) => ref[o] = 0
         /\ \A t \in Threads : \A i \in 1..Len(todo[t]) : todo[t][i].op \in Ends /\ todo[t][i].obj = o =>
              /\ ref[o] = 0 /\ o \notin ToSet(freeList)
              /\ \A u \in Threads : \A j \in 1..Len(todo[u]) :
                   todo[u][j].op \in Ends /\ todo[u][j].obj = o => t = u /\ i = j
<1>1. /\ todo \in Programs /\ freeList \in Seq(Peers) /\ ref[o] \in Nat
      /\ Pending(o, Ends) + Cardinality(Waiting(o)) = IF ref[o] = 0 THEN 1 ELSE 0
  BY Typed DEF IInv, EndLink, Types
<1>2. Pending(o, Ends) \in Nat
  BY <1>1, PendingZero
<1>3. IsFiniteSet(Waiting(o)) /\ Len(freeList) \in Nat
  <2>1. Len(freeList) \in Nat
    BY <1>1, LenProperties
  <2>2. IsFiniteSet(1..Len(freeList))
    BY <2>1, FS_Interval
  <2> QED BY <2>1, <2>2, FS_Subset DEF Waiting
<1>4. Cardinality(Waiting(o)) \in Nat /\ (Cardinality(Waiting(o)) = 0 <=> Waiting(o) = {})
  BY <1>3, FS_CardinalityType, FS_EmptySet
<1>5. o \in ToSet(freeList) <=> Waiting(o) # {}
  BY <1>1, LenProperties DEF Waiting, ToSet
<1>6. Pending(o, Ends) <= 1
  BY <1>1, <1>2, <1>4
<1>7. ASSUME NEW t \in Threads, NEW i \in 1..Len(todo[t]), todo[t][i].op \in Ends, todo[t][i].obj = o
      PROVE  /\ ref[o] = 0 /\ o \notin ToSet(freeList)
             /\ \A u \in Threads : \A j \in 1..Len(todo[u]) :
                  todo[u][j].op \in Ends /\ todo[u][j].obj = o => t = u /\ i = j
  <2>1. Pending(o, Ends) # 0
    BY <1>1, <1>7, PendingZero
  <2>2. ref[o] = 0 /\ Cardinality(Waiting(o)) = 0
    BY <1>1, <1>2, <1>4, <2>1
  <2>3. \A u \in Threads : \A j \in 1..Len(todo[u]) :
          todo[u][j].op \in Ends /\ todo[u][j].obj = o => t = u /\ i = j
    BY <1>1, <1>6, <1>7, PendingTwo
  <2> QED BY <1>4, <1>5, <2>2, <2>3
<1> QED BY <1>1, <1>2, <1>4, <1>5, <1>7

-----------------------------------------------------------------------------
(* Steps that leave the objects as they are *)

\* A thread does the first of its tasks, or starts.
LEMMA DoingStep ==
  ASSUME IInv, NEW t \in Threads, NEW k, Doing(t, k)
  PROVE  /\ k \in Task /\ Len(todo[t]) \in Nat /\ 1 \in 1..Len(todo[t]) /\ todo[t][1] = k
         /\ TaskOK(t, k) /\ ShapeOK(vdevOf, t, todo[t], 1) /\ k.obj \in ObjectsOf(k.op)
         /\ <<k>> \in Seq(Task) /\ Len(<<k>>) = 1 /\ Tail(todo[t]) \in Seq(Task)
         /\ todo[t] = <<k>> \o Tail(todo[t])
         /\ \A n \in Seq(Task) : Then(t, n) => Step(t, <<k>>, Tail(todo[t]), n)
<1> DEFINE s == todo[t]
<1>1. s \in Seq(Task) /\ s # <<>> /\ Head(s) = k
  BY Typed DEF Programs, Doing
<1>2. /\ Head(s) \in Task /\ Tail(s) \in Seq(Task) /\ s[1] = k /\ Len(s) \in Nat \ {0}
      /\ Len(Tail(s)) = Len(s) - 1 /\ \A i \in 1..Len(s) - 1 : Tail(s)[i] = s[i + 1]
  BY <1>1, HeadTailProperties, LenProperties, EmptySeq
<1>3. <<k>> \in Seq(Task) /\ Len(<<k>>) = 1 /\ <<k>>[1] = k
  BY <1>1, <1>2
<1>4. s = <<k>> \o Tail(s)
  <2> DEFINE a == <<k>>
             b == Tail(s)
  <2>1. /\ a \in Seq(Task) /\ b \in Seq(Task) /\ Len(a) = 1 /\ a[1] = k /\ Len(b) = Len(s) - 1
        /\ \A i \in 1..Len(b) : b[i] = s[i + 1]
    BY <1>2, <1>3
  <2>7. a \in Seq(Task) /\ b \in Seq(Task)
    BY <2>1
  <2> HIDE DEF a, b
  <2>5. /\ a \o b \in Seq(Task) /\ Len(a \o b) = Len(a) + Len(b)
        /\ \A i \in 1 .. Len(a) + Len(b) : (a \o b)[i] = IF i <= Len(a) THEN a[i] ELSE b[i - Len(a)]
    BY <2>7, ConcatProperties, SMTT(30)
  <2>6. Len(a) + Len(b) = Len(s)
    BY <1>2, <2>1
  <2>2. /\ a \o b \in Seq(Task) /\ Len(a \o b) = Len(s)
        /\ \A i \in 1..Len(s) : (a \o b)[i] = IF i <= 1 THEN a[i] ELSE b[i - 1]
    BY <2>1, <2>5, <2>6
  <2>3. \A i \in 1..Len(s) : (a \o b)[i] = s[i]
    BY <1>2, <2>1, <2>2
  <2>4. a \o b = s
    BY <1>1, <2>2, <2>3, SeqEqual
  <2> QED BY <2>4 DEF a, b
<1>5. 1 \in 1..Len(s)
  BY <1>2
<1>6. TaskOK(t, k) /\ ShapeOK(vdevOf, t, s, 1)
  BY <1>2, <1>5 DEF IInv, TaskLink, ShapeLink
<1>7. k.obj \in ObjectsOf(k.op)
  BY <1>2, <1>6 DEF ShapeOK
<1>8. ASSUME NEW n \in Seq(Task), Then(t, n) PROVE Step(t, <<k>>, Tail(s), n)
  BY <1>1, <1>2, <1>3, <1>4, <1>8 DEF Step, Then
<1> QED BY <1>1, <1>2, <1>3, <1>4, <1>5, <1>6, <1>7, <1>8

LEMMA IdleStep ==
  ASSUME IInv, NEW t \in Threads, Idle(t), NEW n \in Seq(Task), todo' = [todo EXCEPT ![t] = n]
  PROVE  Step(t, <<>>, <<>>, n)
<1>1. <<>> \in Seq(Task)
  OBVIOUS
<1>2. n \o <<>> = n
  BY ConcatEmptySeq
<1>3. <<>> \o <<>> = <<>>
  BY <1>1, ConcatEmptySeq
<1> QED BY <1>1, <1>2, <1>3 DEF Step, Idle

\* Tasks that a step may remove, and those it may add, without moving an object on.
Old(k) == /\ k.op \notin {"attach", "pin", "init", "del", "vcount", "vinit", "detach"}
          /\ k.op = "free" => k.obj \notin Peers
New(k) == /\ k.op \notin {"alloc", "attach", "pin", "detach"}
          /\ k.op = "free" => k.obj \notin Peers

LEMMA QuietNames ==
  ASSUME todo \in Programs, NEW t, NEW h, NEW m, NEW n, Step(t, h, m, n),
         \A i \in 1..Len(h) : Old(h[i]), \A i \in 1..Len(n) : New(n[i])
  PROVE  /\ \A o \in Peers : \A op \in {"attach", "pin", "free", "detach"} : Named(op, o)' <=> Named(op, o)
         /\ \A o \in Peers : Named("alloc", o)' => Named("alloc", o)
         /\ \A o : \A op \in Births : Named(op, o) => Named(op, o)'
<1>1. ASSUME NEW o \in Peers, NEW op \in {"attach", "pin", "free", "detach"}
      PROVE  Named(op, o)' <=> Named(op, o)
  <2>1. ~Has(h, T(op, o)) /\ ~Has(n, T(op, o))
    BY DEF Old, New, Has, T
  <2> QED BY <2>1, StepNamed
<1>2. ASSUME NEW o \in Peers, Named("alloc", o)' PROVE Named("alloc", o)
  <2>1. ~Has(n, T("alloc", o))
    BY DEF New, Has, T
  <2> QED BY <1>2, <2>1, StepNamed
<1>3. ASSUME NEW o, NEW op \in Births, Named(op, o) PROVE Named(op, o)'
  <2>1. ~Has(h, T(op, o))
    BY DEF Old, Has, T, Births
  <2> QED BY <1>3, <2>1, StepNamed
<1> QED BY <1>1, <1>2, <1>3

LEMMA ObjStep ==
  ASSUME IInv, NEW t, NEW h, NEW m, NEW n, Step(t, h, m, n),
         \A i \in 1..Len(h) : Old(h[i]), \A i \in 1..Len(n) : New(n[i]),
         \A i \in 1..Len(n) : ~Named("attach", n[i].obj),
         UNCHANGED <<mem, st, pins, role, vdevOf, lists>>,
         freeList' \in Seq(Peers), IsInjective(freeList'), ToSet(freeList') \subseteq mem,
         work' \in BOOLEAN, made' \in [peers : 0..MaxPeers, vdevs : 0..MaxVdevs], ref' \in [Objects -> Nat],
         ShapeLink', TaskLink', RefLink', EndLink', LockLink', WorkLink'
  PROVE  IInv'
<1>0. todo \in Programs /\ todo' \in Programs /\ mem \subseteq Objects
  BY Typed, StepPlaces
<1>1. /\ \A o \in Peers : \A op \in {"attach", "pin", "free", "detach"} : Named(op, o)' <=> Named(op, o)
      /\ \A o \in Peers : Named("alloc", o)' => Named("alloc", o)
      /\ \A o : \A op \in Births : Named(op, o) => Named(op, o)'
  BY <1>0, QuietNames
<1>2. StageLink'
  <2> SUFFICES ASSUME NEW p \in mem \cap Peers
               PROVE  Linked(p)' <=> ~Named("attach", p)' /\ (Named("free", p)' => Named("detach", p)')
    BY DEF StageLink
  <2>1. Linked(p)' <=> Linked(p)
    BY DEF Linked, lists
  <2>2. Linked(p) <=> ~Named("attach", p) /\ (Named("free", p) => Named("detach", p))
    BY DEF IInv, StageLink
  <2> QED BY <1>1, <2>1, <2>2
<1>3. PinLink'
  <2>0. PinLink
    BY DEF IInv
  <2>1. role' = role /\ vdevOf' = vdevOf /\ pins' = pins /\ bss' = bss /\ st' = st /\ mem' = mem
        /\ vdevPeers' = vdevPeers
    BY DEF lists
  <2>2. \A q \in Peers : (\E op \in {"attach", "pin", "free"} : Named(op, q)') <=> \E op \in {"attach", "pin", "free"} : Named(op, q)
    BY <1>1
  <2>3. \A q \in Peers : \A op \in {"alloc", "attach", "pin"} : Named(op, q)' => Named(op, q)
    BY <1>1
  <2>4. ASSUME NEW q \in Peers, pins[q] # NULL PROVE \A op \in {"attach", "pin", "free"} : ~Named(op, q)'
    BY <1>1, <2>0, <2>4 DEF PinLink
  <2> QED BY <2>0, <2>1, <2>2, <2>3, <2>4 DEF PinLink, Usable
<1>4. BornLink'
  <2> SUFFICES ASSUME NEW o \in mem, Unfinished(st[o])
               PROVE  \E op \in Births : Named(op, o)'
    BY DEF BornLink
  <2> QED BY <1>1 DEF IInv, BornLink
<1>5. AloneLink'
  <2> SUFFICES ASSUME NEW p \in Peers, Named("attach", p)', NEW u \in Threads, NEW j \in 1..Len(todo'[u]),
                      todo'[u][j].obj = p
               PROVE  todo'[u][j].op = "attach"
    BY DEF AloneLink
  <2>1. Named("attach", p)
    BY <1>1
  <2>2. \/ \E i \in 1..Len(n) : todo'[u][j] = n[i]
        \/ \E i \in 1..Len(todo[u]) : todo'[u][j] = todo[u][i]
    BY <1>0, StepTasks
  <2>3. PICK i \in 1..Len(todo[u]) : todo'[u][j] = todo[u][i]
    BY <2>1, <2>2
  <2> QED BY <2>1, <2>3 DEF IInv, AloneLink
<1>6. ListLink'
  BY DEF IInv, ListLink, lists
<1>7. Types'
  <2>1. todo' \in [Threads -> Seq([op : Ops, obj : Objects \cup {NULL}])]
    BY <1>0 DEF Programs, Task
  <2>2. vlock' \in [Vdevs -> Threads \cup {NULL}]
    BY Kinds DEF LockLink
  <2> QED BY ZenonT(40), <2>1, <2>2 DEF IInv, Types, lists
<1> QED BY <1>2, <1>3, <1>4, <1>5, <1>6, <1>7 DEF IInv

-----------------------------------------------------------------------------
(* Steps that only take and give references *)

LEMMA OthersStay ==
  ASSUME UNCHANGED <<st, pins, vdevPeers>>, NEW o
  PROVE  Others(o)' = Others(o)
BY DEF Others, Pinners, Creators

\* A count follows the references.
LEMMA RefKeep ==
  ASSUME IInv, NEW t, NEW h, NEW m, NEW n, Step(t, h, m, n), NEW o \in mem, NEW d \in Int,
         Others(o)' = Others(o) + d,
         ref'[o] = ref[o] + d - Count(h, o, Refs(o)) + Count(n, o, Refs(o))
  PROVE  ref'[o] = Others(o)' + Pending(o, Refs(o))'
<1>1. todo \in Programs /\ o \in Objects
  BY Typed
<1>2. /\ Pending(o, Refs(o))' = Pending(o, Refs(o)) - Count(h, o, Refs(o)) + Count(n, o, Refs(o))
      /\ Count(h, o, Refs(o)) \in Nat /\ Count(n, o, Refs(o)) \in Nat
  BY <1>1, PendingStep
<1>3. ref[o] = Others(o) + Pending(o, Refs(o)) /\ Pending(o, Refs(o)) \in Nat /\ Others(o) \in Nat
  BY <1>1, Counted, Typed
<1> QED BY <1>2, <1>3

\* An object that had no more an end than it has now.
LEMMA EndKeep ==
  ASSUME IInv, NEW t, NEW h, NEW m, NEW n, Step(t, h, m, n), NEW o \in mem,
         freeList' = freeList, Count(h, o, Ends) = Count(n, o, Ends), ref'[o] = 0 <=> ref[o] = 0
  PROVE  Pending(o, Ends)' + Cardinality(Waiting(o))' = IF ref'[o] = 0 THEN 1 ELSE 0
<1>1. todo \in Programs /\ Waiting(o)' = Waiting(o)
  BY Typed DEF Waiting
<1>2. /\ Pending(o, Ends)' = Pending(o, Ends) - Count(h, o, Ends) + Count(n, o, Ends)
      /\ Count(h, o, Ends) \in Nat /\ Count(n, o, Ends) \in Nat /\ Pending(o, Ends) \in Nat
  BY <1>1, PendingStep
<1>3. Pending(o, Ends)' = Pending(o, Ends)
  BY <1>2
<1>4. Pending(o, Ends) + Cardinality(Waiting(o)) = IF ref[o] = 0 THEN 1 ELSE 0
  BY Ended
<1> QED BY <1>1, <1>3, <1>4

RefOld == {"rel", "next", "visit", "vend", "unlock", "alloc"}
RefNew == {"rel", "next", "visit", "vend", "unlock", "valloc", "del"}

LEMMA NoEnds ==
  ASSUME NEW s \in Seq(Task), NEW ops, \A i \in 1..Len(s) : s[i].op \in ops, ops \cap Ends = {}, NEW o
  PROVE  Count(s, o, Ends) = 0
BY HitsFinite

LEMMA Mentions ==
  ASSUME NEW s, NEW ops, \A i \in 1..Len(s) : s[i].op \in ops, NEW op, op \notin ops, NEW o
  PROVE  ~Has(s, T(op, o))
BY DEF Has, T

LEMMA RefStep ==
  ASSUME IInv, NEW t, NEW h, NEW m, NEW n, Step(t, h, m, n),
         \A i \in 1..Len(h) : h[i].op \in RefOld, \A i \in 1..Len(n) : n[i].op \in RefNew,
         \A i \in 1..Len(n) : ~Named("attach", n[i].obj),
         UNCHANGED <<mem, st, pins, role, vdevOf, lists, delay>>,
         made' \in [peers : 0..MaxPeers, vdevs : 0..MaxVdevs], ref' \in [Objects -> Nat],
         \A o \in mem : /\ ref'[o] = ref[o] - Count(h, o, Refs(o)) + Count(n, o, Refs(o))
                        /\ ref[o] = 0 <=> ref'[o] = 0,
         ShapeLink', TaskLink', LockLink'
  PROVE  IInv'
<1>0. todo \in Programs /\ mem \subseteq Objects /\ h \in Seq(Task) /\ n \in Seq(Task)
  BY Typed DEF Step
<1>1. /\ st' = st /\ pins' = pins /\ vdevPeers' = vdevPeers /\ mem' = mem /\ freeList' = freeList
      /\ work' = work
  BY DEF lists, delay
<1>2. RefLink'
  <2> SUFFICES ASSUME NEW o \in mem PROVE ref'[o] = Others(o)' + Pending(o, Refs(o))'
    BY <1>1 DEF RefLink, Refs
  <2>1. Others(o) \in Nat
    BY <1>0, Typed
  <2>2. Others(o)' = Others(o)
    BY <1>1, OthersStay
  <2>3. Count(h, o, Refs(o)) \in Nat /\ ref[o] \in Nat /\ Count(n, o, Refs(o)) \in Nat
    BY <1>0, HitsFinite, Counted
  <2>4. Others(o)' = Others(o) + 0 /\ ref'[o] = ref[o] + 0 - Count(h, o, Refs(o)) + Count(n, o, Refs(o))
    BY <2>1, <2>2, <2>3
  <2> QED BY <2>4, RefKeep
<1>3. EndLink'
  <2> SUFFICES ASSUME NEW o \in mem
               PROVE  Pending(o, Ends)' + Cardinality(Waiting(o))' = IF ref'[o] = 0 THEN 1 ELSE 0
    BY <1>1 DEF EndLink, Ends
  <2>1. Count(h, o, Ends) = 0
    <3>1. RefOld \cap Ends = {}
      BY DEF RefOld, Ends
    <3> QED BY <1>0, <3>1, NoEnds
  <2>2. Count(n, o, Ends) = 0
    <3>1. RefNew \cap Ends = {}
      BY DEF RefNew, Ends
    <3> QED BY <1>0, <3>1, NoEnds
  <2> QED BY <1>1, <2>1, <2>2, EndKeep
<1>4. WorkLink'
  <2>1. ~Has(h, T("sched", NULL)) /\ ~Has(h, T("pop", NULL))
    <3>1. "sched" \notin RefOld /\ "pop" \notin RefOld
      BY DEF RefOld
    <3> QED BY <3>1, Mentions
  <2>2. Named("sched", NULL) => Named("sched", NULL)'
    BY <1>0, <2>1, StepNamed
  <2>3. Named("pop", NULL) => Named("pop", NULL)'
    BY <1>0, <2>1, StepNamed
  <2> QED BY <1>1, <2>2, <2>3 DEF IInv, WorkLink
<1>5. /\ \A i \in 1..Len(h) : Old(h[i])
      /\ \A i \in 1..Len(n) : New(n[i])
  BY DEF RefOld, RefNew, Old, New
<1>6. /\ freeList' \in Seq(Peers) /\ IsInjective(freeList') /\ ToSet(freeList') \subseteq mem
      /\ work' \in BOOLEAN
  BY <1>1 DEF IInv, Types, ListLink
<1>7. UNCHANGED <<mem, st, pins, role, vdevOf, lists>>
  OBVIOUS
<1> QED BY <1>2, <1>3, <1>4, <1>5, <1>6, <1>7, ObjStep

\* Where a destruction may be.
LEMMA StepLockLink ==
  ASSUME IInv, NEW t, NEW h, NEW m, NEW n, Step(t, h, m, n), vlock' = vlock,
         Delayed => \A i \in 1..Len(n) : n[i].op \in {"destroy", "detach"} /\ n[i].obj \in Peers =>
           \A v \in Vdevs : vlock[v] # t
  PROVE  LockLink'
<1>0. todo \in Programs
  BY Typed
<1>1. vlock' \in [Vdevs -> Readers \cup {NULL}]
  BY DEF IInv, LockLink
<1>2. ASSUME Delayed, NEW u \in Threads, NEW j \in 1..Len(todo'[u]),
             todo'[u][j].op \in {"destroy", "detach"}, todo'[u][j].obj \in Peers, NEW v \in Vdevs
      PROVE  vlock'[v] # u
  <2>1. CASE u = t /\ \E i \in 1..Len(n) : todo'[u][j] = n[i]
    BY <1>2, <2>1
  <2>2. CASE \E i \in 1..Len(todo[u]) : todo'[u][j] = todo[u][i]
    BY <1>2, <2>2 DEF IInv, LockLink
  <2> QED BY <1>0, <2>1, <2>2, StepTasks
<1> QED BY <1>1, <1>2 DEF LockLink

LEMMA RefStepPlain ==
  ASSUME IInv, NEW t, NEW h, NEW m, NEW n, Step(t, h, m, n),
         \A i \in 1..Len(h) : h[i].op \in RefOld, \A i \in 1..Len(n) : n[i].op \in RefNew,
         \A i \in 1..Len(n) : ~Named("attach", n[i].obj),
         UNCHANGED <<mem, st, pins, role, vdevOf, lists, delay, vlock>>,
         made' \in [peers : 0..MaxPeers, vdevs : 0..MaxVdevs], ref' \in [Objects -> Nat],
         \A o \in mem : /\ ref'[o] = ref[o] - Count(h, o, Refs(o)) + Count(n, o, Refs(o))
                        /\ ref[o] = 0 <=> ref'[o] = 0,
         \/ m = <<>>
         \/ /\ \/ Len(h) = 1
               \/ h = <<>> /\ \A i \in 1..Len(m) : m[i].op \in {"rel", "pop"}
            /\ \A i \in 1..Len(n) : n[i].op # "del",
         \A i \in 1..Len(n) : ShapeOK(vdevOf, t, n \o m, i) /\ TaskOK(t, n[i])
  PROVE  IInv'
<1>0. todo \in Programs
  BY Typed
<1>1. ShapeLink'
  <2>1. ShapeLink /\ vdevOf' = vdevOf
    BY DEF IInv
  <2>2. \/ m = <<>>
        \/ /\ \/ Len(h) = 1 /\ h[1].op # "pin"
              \/ h = <<>> /\ \A i \in 1..Len(m) : m[i].op \in {"rel", "pop"}
           /\ \A i \in 1..Len(n) : n[i].op \notin {"init", "del"}
    <3>1. \A i \in 1..Len(n) : n[i].op # "init"
      BY DEF RefNew
    <3>2. Len(h) = 1 => h[1].op # "pin"
      BY DEF RefOld
    <3> QED BY <3>1, <3>2
  <2> QED BY <1>0, <2>1, <2>2, StepShapeLink
<1>2. TaskLink'
  <2>0. TaskLink
    BY DEF IInv
  <2>1. \A u : \A k : TaskOK(u, k) => TaskOK(u, k)'
    BY DEF TaskOK, Linked, lists
  <2> QED BY <1>0, <2>0, <2>1, StepTaskLink
<1>3. LockLink'
  <2>1. \A i \in 1..Len(n) : n[i].op \notin {"destroy", "detach"}
    BY DEF RefNew
  <2> QED BY <2>1, StepLockLink
<1>4. UNCHANGED <<mem, st, pins, role, vdevOf, lists, delay>>
  OBVIOUS
<1> QED BY <1>1, <1>2, <1>3, <1>4, RefStep

-----------------------------------------------------------------------------
(* Look-ups and traversals *)

\* What is known of a task that a thread has.
LEMMA TaskFacts ==
  ASSUME IInv, NEW u \in Threads, NEW i \in 1..Len(todo[u]), NEW k, todo[u][i] = k
  PROVE  k \in Task /\ TaskOK(u, k) /\ ShapeOK(vdevOf, u, todo[u], i) /\ k.obj \in ObjectsOf(k.op)
<1>1. k \in Task
  BY Typed
<1>2. TaskOK(u, k) /\ ShapeOK(vdevOf, u, todo[u], i)
  BY DEF IInv, TaskLink, ShapeLink
<1>3. k.obj \in ObjectsOf(k.op)
  BY <1>2 DEF ShapeOK
<1> QED BY <1>1, <1>2, <1>3

\* A peer that is about to be attached.
LEMMA Attaching ==
  ASSUME IInv, NEW o, Named("attach", o)
  PROVE  o \in mem \cap Peers /\ st[o] = "allocated" /\ ~Linked(o) /\ ref[o] # 0
<1> PICK u \in Threads : \E i \in 1..Len(todo[u]) : todo[u][i] = T("attach", o)
  BY DEF Named
<1>1. PICK i \in 1..Len(todo[u]) : todo[u][i] = T("attach", o)
  OBVIOUS
<1>2. TaskOK(u, T("attach", o)) /\ T("attach", o).obj \in ObjectsOf("attach")
  BY <1>1, TaskFacts DEF T
<1>3. o \in mem /\ st[o] = "allocated" /\ o \in Peers
  BY <1>2 DEF TaskOK, T, ObjectsOf
<1>4. ~Linked(o)
  BY <1>3 DEF IInv, StageLink
<1>5. ref[o] # 0
  BY <1>3, Counted
<1> QED BY <1>3, <1>4, <1>5

\* A task that may be anywhere.
LEMMA ShapeFree ==
  ASSUME NEW vd, NEW t, NEW s, NEW i, NEW k, s[i] = k,
         k.op \in {"rel", "next", "destroy", "sched"}, k.obj \in ObjectsOf(k.op)
  PROVE  ShapeOK(vd, t, s, i)
BY DEF ShapeOK, ObjectsOf

LEMMA OneTask ==
  ASSUME NEW op \in Ops, NEW o \in Objects
  PROVE  /\ T(op, o) \in Task /\ <<T(op, o)>> \in Seq(Task)
         /\ T(op, o).op = op /\ T(op, o).obj = o
         /\ Len(<<T(op, o)>>) = 1 /\ <<T(op, o)>>[1] = T(op, o)
BY DEF T, Task

\* A reference on a usable object is taken with the task that gives it back.
LEMMA TakeStep ==
  ASSUME IInv, NEW t, NEW m, NEW o \in mem, Usable(o), NEW op \in {"rel", "next"}, op = "next" => o \in Peers,
         Step(t, <<>>, m, <<T(op, o)>>), m = <<>> \/ \A i \in 1..Len(m) : m[i].op \in {"rel", "pop"},
         Get(o), UNCHANGED <<mem, st, pins, birth, lists, vlock, delay>>
  PROVE  IInv'
<1> DEFINE k == T(op, o)
           n == <<k>>
           h == <<>>
<1>0. /\ todo \in Programs /\ o \in Objects /\ mem \subseteq Objects /\ op \in Ops
      /\ t \in Threads /\ ref \in [Objects -> Nat] /\ Types /\ m \in Seq(Task)
  BY Typed DEF IInv, Types, Step, Ops
<1>1. /\ k \in Task /\ n \in Seq(Task) /\ k.op = op /\ k.obj = o /\ Len(n) = 1 /\ n[1] = k
  BY <1>0, OneTask
<1>2. ~Named("attach", o)
  BY Attaching DEF Usable
<1>3. ref[o] # 0 /\ ref[o] \in Nat
  BY Counted DEF Usable
<1>4. ref' \in [Objects -> Nat] /\ ref'[o] = ref[o] + 1 /\ \A x \in Objects : x # o => ref'[x] = ref[x]
  BY <1>0, <1>3 DEF Get
<1>5. ASSUME NEW x \in mem
      PROVE  /\ ref'[x] = ref[x] - Count(h, x, Refs(x)) + Count(n, x, Refs(x))
             /\ ref[x] = 0 <=> ref'[x] = 0
  <2>1. Count(h, x, Refs(x)) = 0 /\ Count(n, x, Refs(x)) = One(k, x, Refs(x))
    BY ZenonT(40), <1>1, CountFew
  <2>2. One(k, x, Refs(x)) = IF x = o THEN 1 ELSE 0
    BY <1>1 DEF One, Refs
  <2>3. ref[x] \in Nat /\ x \in Objects
    BY <1>0
  <2>4. ref'[x] = ref[x] + One(k, x, Refs(x)) /\ (ref[x] = 0 <=> ref'[x] = 0)
    BY <1>3, <1>4, <2>2, <2>3
  <2> HIDE DEF n, h
  <2> QED BY <2>1, <2>2, <2>3, <2>4
<1>6. Step(t, h, m, n)
  OBVIOUS
<1>7. ASSUME NEW i \in 1..Len(n) PROVE ShapeOK(vdevOf, t, n \o m, i) /\ TaskOK(t, n[i])
  <2>1. i = 1 /\ n[i] = k
    BY <1>1
  <2>2. (n \o m)[1] = k
    BY <1>0, <1>6, <1>1, StepPlaces
  <2>3. k.obj \in ObjectsOf(k.op)
    BY <1>0, <1>1 DEF ObjectsOf
  <2>4. ShapeOK(vdevOf, t, n \o m, 1)
    BY <1>1, <2>2, <2>3, ShapeFree
  <2>5. TaskOK(t, k)
    BY <1>1 DEF TaskOK
  <2> QED BY <2>1, <2>4, <2>5
<1>8. made' \in [peers : 0..MaxPeers, vdevs : 0..MaxVdevs]
  BY <1>0 DEF Types, birth
<1>9. UNCHANGED <<mem, st, pins, role, vdevOf, lists, delay, vlock>>
  BY DEF birth
<1>10. /\ \A i \in 1..Len(h) : h[i].op \in RefOld
       /\ \A i \in 1..Len(n) : n[i].op \in RefNew /\ n[i].op # "del" /\ ~Named("attach", n[i].obj)
  BY <1>1, <1>2 DEF RefOld, RefNew
<1> HIDE DEF n
<1> QED BY <1>4, <1>5, <1>6, <1>7, <1>8, <1>9, <1>10, RefStepPlain

LEMMA GetPeerIInv ==
  ASSUME IInv, NEW t \in Threads, NEW p \in Peers, GetPeer(t, p)
  PROVE  IInv'
<1>1. p \in mem /\ p \in Objects /\ "rel" \in Ops
  BY DEF GetPeer, IInv, ListLink, Objects, Ops
<1>2. Step(t, <<>>, <<>>, <<T("rel", p)>>)
  BY <1>1, OneTask, IdleStep DEF GetPeer
<1> QED BY <1>1, <1>2, TakeStep DEF GetPeer

LEMMA GetVdevIInv ==
  ASSUME IInv, NEW t \in Threads, NEW v \in Vdevs, GetVdev(t, v)
  PROVE  IInv'
<1>1. v \in mem /\ v \in Objects /\ "rel" \in Ops
  BY DEF GetVdev, IInv, ListLink, Objects, Ops
<1>2. Step(t, <<>>, <<>>, <<T("rel", v)>>)
  BY <1>1, OneTask, IdleStep DEF GetVdev
<1> QED BY <1>1, <1>2, TakeStep DEF GetVdev

\* A thread that puts tasks in front of its only one.
LEMMA PushStep ==
  ASSUME IInv, NEW t \in Threads, NEW k, Doing(t, k), Len(todo[t]) = 1,
         NEW n \in Seq(Task), todo' = [todo EXCEPT ![t] = n \o @]
  PROVE  /\ Step(t, <<>>, todo[t], n)
         /\ \A i \in 1..Len(todo[t]) : todo[t][i] = k
<1>1. todo[t] \in Seq(Task) /\ <<>> \in Seq(Task)
  BY Typed DEF Programs
<1>2. <<>> \o todo[t] = todo[t]
  BY <1>1, ConcatEmptySeq
<1>3. Step(t, <<>>, todo[t], n)
  BY <1>1, <1>2 DEF Step
<1>4. todo[t][1] = k
  BY DoingStep
<1>5. \A i \in 1..Len(todo[t]) : i = 1
  OBVIOUS
<1> QED BY <1>3, <1>4, <1>5

LEMMA GetBssPeerIInv ==
  ASSUME IInv, NEW t \in Threads, NEW v \in Vdevs, GetBssPeer(t, v)
  PROVE  IInv'
<1> DEFINE b == bss[v]
<1>1. b \in mem /\ b \in Objects /\ "rel" \in Ops /\ T("rel", v).op = "rel"
  BY Typed DEF GetBssPeer, IInv, ListLink, Objects, Ops, T
<1>2. <<T("rel", b)>> \in Seq(Task)
  BY <1>1, OneTask
<1>3. /\ Step(t, <<>>, todo[t], <<T("rel", b)>>)
      /\ \A i \in 1..Len(todo[t]) : todo[t][i] = T("rel", v)
  BY <1>2, PushStep DEF GetBssPeer
<1>4. \A i \in 1..Len(todo[t]) : todo[t][i].op \in {"rel", "pop"}
  BY <1>1, <1>3
<1>5. Usable(b) /\ Get(b) /\ UNCHANGED <<mem, st, pins, birth, lists, vlock, delay>>
  BY DEF GetBssPeer
<1> HIDE DEF b
<1> QED BY <1>1, <1>3, <1>4, <1>5, TakeStep

\* The first of some places of a list, and the task that goes to it.
LEMMA FirstOfIs ==
  ASSUME NEW seq, Len(seq) \in Nat, NEW js \in SUBSET (1..Len(seq)), NEW op
  PROVE  \/ js = {} /\ FirstOf(seq, js) = {} /\ Tasks(op, FirstOf(seq, js)) = <<>>
         \/ \E j \in js : FirstOf(seq, js) = {seq[j]} /\ Tasks(op, FirstOf(seq, js)) = <<T(op, seq[j])>>
<1>1. CASE js = {}
  BY <1>1 DEF FirstOf, Tasks
<1>2. CASE js # {}
  <2>1. js \in SUBSET Nat
    OBVIOUS
  <2>2. Min(js) \in js
    BY <1>2, <2>1, LeastOf
  <2>3. FirstOf(seq, js) = {seq[Min(js)]}
    BY <1>2 DEF FirstOf
  <2>4. Tasks(op, FirstOf(seq, js)) = <<T(op, seq[Min(js)])>>
    BY <2>3 DEF Tasks
  <2> QED BY <2>2, <2>3, <2>4
<1> QED BY <1>1, <1>2

LEMMA IterateHeadIInv ==
  ASSUME IInv, NEW t \in Threads, IterateHead(t)
  PROVE  IInv'
<1> DEFINE js == Active(psocPeers, All(psocPeers))
           head == FirstOf(psocPeers, js)
<1>0. psocPeers \in Seq(Peers) /\ Len(psocPeers) \in Nat /\ DOMAIN psocPeers = 1..Len(psocPeers)
  BY Typed, LenProperties
<1>1. js \in SUBSET (1..Len(psocPeers)) /\ \A j \in js : Usable(psocPeers[j])
  BY DEF Active, All
<1>2. /\ Idle(t) /\ head # {} /\ (\E p \in head : Get(p)) /\ todo' = [todo EXCEPT ![t] = Tasks("next", head)]
      /\ UNCHANGED <<mem, st, pins, birth, lists, vlock, delay>>
  BY DEF IterateHead
<1>3. \/ js = {} /\ head = {} /\ Tasks("next", head) = <<>>
      \/ \E j \in js : head = {psocPeers[j]} /\ Tasks("next", head) = <<T("next", psocPeers[j])>>
  <2> HIDE DEF js
  <2> QED BY <1>0, <1>1, FirstOfIs
<1> HIDE DEF js, head
<1>4. PICK j \in js : head = {psocPeers[j]} /\ Tasks("next", head) = <<T("next", psocPeers[j])>>
  BY <1>2, <1>3
<1> DEFINE p == psocPeers[j]
<1>5. p \in ToSet(psocPeers) /\ Usable(p)
  BY <1>0, <1>1 DEF ToSet
<1>6. Get(p) /\ todo' = [todo EXCEPT ![t] = <<T("next", p)>>]
  BY <1>2, <1>4
<1> HIDE DEF p
<1>7. p \in mem /\ p \in Peers /\ p \in Objects /\ "next" \in Ops
  BY <1>5 DEF IInv, ListLink, Objects, Ops
<1>8. Step(t, <<>>, <<>>, <<T("next", p)>>)
  BY <1>2, <1>6, <1>7, OneTask, IdleStep
<1> QED BY <1>2, <1>5, <1>6, <1>7, <1>8, TakeStep

LEMMA NotAttaching ==
  ASSUME IInv, NEW u \in Threads, NEW i \in 1..Len(todo[u]), NEW o, todo[u][i].obj = o,
         todo[u][i].op # "attach"
  PROVE  ~Named("attach", o)
BY Attaching DEF IInv, AloneLink

\* A single task is replaced and no lock is taken or left.
LEMMA MoveStep ==
  ASSUME IInv, NEW t \in Threads, NEW k, Doing(t, k), k.op \in RefOld, NEW n \in Seq(Task), Then(t, n),
         \A i \in 1..Len(n) : /\ n[i].op \in RefNew /\ n[i].op # "del" /\ ~Named("attach", n[i].obj)
                              /\ ShapeOK(vdevOf, t, n \o Tail(todo[t]), i) /\ TaskOK(t, n[i]),
         ref' \in [Objects -> Nat],
         \A o \in mem : /\ ref'[o] = ref[o] - One(k, o, Refs(o)) + Count(n, o, Refs(o))
                        /\ ref[o] = 0 <=> ref'[o] = 0,
         UNCHANGED <<mem, st, pins, birth, lists, vlock, delay>>
  PROVE  IInv'
<1> DEFINE h == <<k>>
           m == Tail(todo[t])
<1>1. k \in Task /\ h \in Seq(Task) /\ Len(h) = 1 /\ h[1] = k /\ Step(t, h, m, n)
  BY DoingStep
<1>2. \A o \in mem : Count(h, o, Refs(o)) = One(k, o, Refs(o))
  BY <1>1, CountFew
<1>3. made' \in [peers : 0..MaxPeers, vdevs : 0..MaxVdevs]
  BY DEF IInv, Types, birth
<1>4. UNCHANGED <<mem, st, pins, role, vdevOf, lists, delay, vlock>>
  BY DEF birth
<1>5. \A i \in 1..Len(n) : ShapeOK(vdevOf, t, n \o m, i) /\ TaskOK(t, n[i])
  OBVIOUS
<1> HIDE DEF h, m
<1>6. \A i \in 1..Len(h) : h[i].op \in RefOld
  BY <1>1
<1>7. \A o \in mem : /\ ref'[o] = ref[o] - Count(h, o, Refs(o)) + Count(n, o, Refs(o))
                     /\ ref[o] = 0 <=> ref'[o] = 0
  BY <1>2
<1>8. /\ \A i \in 1..Len(n) : n[i].op \in RefNew
      /\ \A i \in 1..Len(n) : ~Named("attach", n[i].obj)
      /\ \A i \in 1..Len(n) : n[i].op # "del"
  OBVIOUS
<1>9. \/ m = <<>>
      \/ /\ \/ Len(h) = 1
            \/ h = <<>> /\ \A i \in 1..Len(m) : m[i].op \in {"rel", "pop"}
         /\ \A i \in 1..Len(n) : n[i].op # "del"
  BY <1>1, <1>8
<1>10. Step(t, h, m, n)
  BY <1>1
<1> QED BY SMTT(30), <1>3, <1>4, <1>5, <1>6, <1>7, <1>8, <1>9, <1>10, RefStepPlain

LEMMA ReleaseIInv ==
  ASSUME IInv, NEW t \in Threads, NEW o \in Objects, Release(t, o), ref[o] # 1
  PROVE  IInv'
<1> DEFINE k == T("rel", o)
           n == <<>>
<1>1. /\ Doing(t, k) /\ Then(t, n) /\ n \in Seq(Task) /\ k.op \in RefOld /\ k.op = "rel" /\ k.obj = o
      /\ UNCHANGED <<mem, st, pins, birth, lists, vlock, delay>>
  BY DEF Release, delay, RefOld, T
<1>2. o \in mem /\ 1 \in 1..Len(todo[t]) /\ todo[t][1] = k
  <2>1. TaskOK(t, k) /\ 1 \in 1..Len(todo[t]) /\ todo[t][1] = k
    BY <1>1, DoingStep
  <2> QED BY <1>1, <2>1 DEF TaskOK
<1>3. ref[o] # 0 /\ ref \in [Objects -> Nat]
  <2>1. \A u \in Threads : \A i \in 1..Len(todo[u]) :
          todo[u][i].op \in Refs(o) /\ todo[u][i].obj = o => ref[o] # 0
    BY <1>2, Counted
  <2>2. "rel" \in Refs(o)
    BY DEF Refs
  <2>3. todo[t][1].op = "rel" /\ todo[t][1].obj = o
    BY <1>1, <1>2
  <2> QED BY <1>2, <2>1, <2>2, <2>3 DEF IInv, Types
<1>4. ref' \in [Objects -> Nat] /\ ref'[o] = ref[o] - 1 /\ ref'[o] # 0 /\ \A x \in Objects : x # o => ref'[x] = ref[x]
  BY <1>3 DEF Release
<1>5. ASSUME NEW x \in mem
      PROVE  /\ ref'[x] = ref[x] - One(k, x, Refs(x)) + Count(n, x, Refs(x))
             /\ ref[x] = 0 <=> ref'[x] = 0
  <2>1. Count(n, x, Refs(x)) = 0
    BY CountFew
  <2>2. One(k, x, Refs(x)) = IF x = o THEN 1 ELSE 0
    BY <1>1 DEF One, Refs
  <2>3. ref[x] \in Nat /\ x \in Objects
    BY <1>3, Typed
  <2> HIDE DEF k, n
  <2> QED BY <1>3, <1>4, <2>1, <2>2, <2>3
<1>6. \A i \in 1..Len(n) : FALSE
  OBVIOUS
<1> HIDE DEF k, n
<1> QED BY <1>1, <1>4, <1>5, <1>6, MoveStep

LEMMA CountTwo ==
  ASSUME NEW a \in Task, NEW b \in Task, NEW o, NEW ops
  PROVE  Count(<<a, b>>, o, ops) = One(a, o, ops) + One(b, o, ops)
<1>1. \A j, k \in Task : Count(<<j, k>>, o, ops) = One(j, o, ops) + One(k, o, ops)
  BY ZenonT(40), CountFew
<1> QED BY <1>1, Zenon

LEMMA TwoTasks ==
  ASSUME NEW a \in Task, NEW b \in Task
  PROVE  /\ <<a, b>> \in Seq(Task) /\ Len(<<a, b>>) = 2 /\ <<a, b>>[1] = a /\ <<a, b>>[2] = b
         /\ <<a>> \o <<b>> = <<a, b>> /\ <<a>> \o <<>> = <<a>> /\ <<a>> \in Seq(Task)
<1>1. <<a>> \in Seq(Task)
  OBVIOUS
<1>2. <<a>> \o <<>> = <<a>>
  BY <1>1, ConcatEmptySeq
<1>3. <<a, b>> = <<a>> \o <<b>> /\ <<a, b>> \in Seq(Task)
  BY Glue
<1>4. Len(<<a, b>>) = 2 /\ <<a, b>>[1] = a /\ <<a, b>>[2] = b
  OBVIOUS
<1> QED BY <1>1, <1>2, <1>3, <1>4

LEMMA IterateNextIInv ==
  ASSUME IInv, NEW t \in Threads, NEW p \in Peers, IterateNext(t, p)
  PROVE  IInv'
<1> DEFINE js == Active(psocPeers, After(psocPeers, p))
           next == FirstOf(psocPeers, js)
           k == T("next", p)
           r == T("rel", p)
           m == Tail(todo[t])
<1>1. /\ Doing(t, k) /\ (IF next = {} THEN UNCHANGED ref ELSE \E q \in next : Get(q))
      /\ Then(t, <<r>> \o Tasks("next", next))
      /\ UNCHANGED <<mem, st, pins, birth, lists, vlock, delay>>
  BY DEF IterateNext
<1>2. psocPeers \in Seq(Peers) /\ Len(psocPeers) \in Nat /\ DOMAIN psocPeers = 1..Len(psocPeers)
  BY Typed, LenProperties
<1>3. js \in SUBSET (1..Len(psocPeers)) /\ \A j \in js : Usable(psocPeers[j])
  BY DEF Active, After, All
<1>4. \/ js = {} /\ next = {} /\ Tasks("next", next) = <<>>
      \/ \E j \in js : next = {psocPeers[j]} /\ Tasks("next", next) = <<T("next", psocPeers[j])>>
  <2> HIDE DEF js
  <2> QED BY <1>2, <1>3, FirstOfIs
<1>5. /\ k.op = "next" /\ k.obj = p /\ r.op = "rel" /\ r.obj = p /\ k \in Task /\ r \in Task
      /\ k.op \in RefOld /\ r.op \in RefNew /\ p \in Objects
  BY OneTask DEF Objects, Ops, RefOld, RefNew, T
<1>6. /\ p \in mem /\ 1 \in 1..Len(todo[t]) /\ todo[t][1] = k /\ m \in Seq(Task)
      /\ \A n \in Seq(Task) : Then(t, n) => Step(t, <<k>>, m, n)
  <2>1. TaskOK(t, k) /\ 1 \in 1..Len(todo[t]) /\ todo[t][1] = k
    BY <1>1, DoingStep
  <2>2. m \in Seq(Task) /\ \A n \in Seq(Task) : Then(t, n) => Step(t, <<k>>, m, n)
    BY <1>1, DoingStep
  <2> QED BY <1>5, <2>1, <2>2 DEF TaskOK
<1>7. ref[p] # 0 /\ ref \in [Objects -> Nat] /\ mem \subseteq Objects /\ todo \in Programs
  BY ZenonT(40), <1>5, <1>6, Counted, Typed DEF Refs, IInv, Types
<1>8. ~Named("attach", p)
  BY <1>5, <1>6, NotAttaching
<1>9. TaskOK(t, r) /\ r.obj \in ObjectsOf(r.op)
  BY <1>5, <1>6 DEF TaskOK, ObjectsOf
<1> HIDE DEF js, next, k, r, m
<1>10. \A x \in mem : One(k, x, Refs(x)) = One(r, x, Refs(x)) /\ One(k, x, Refs(x)) \in {0, 1} /\ (x # p => One(r, x, Refs(x)) = 0)
  BY <1>5 DEF One, Refs
<1>11. CASE next = {}
  <2> DEFINE n == <<r>>
  <2>1. Then(t, n) /\ ref' = ref
    <3>1. <<r>> \o <<>> = <<r>>
      BY <1>5, TwoTasks
    <3> QED BY <1>1, <1>4, <1>11, <3>1
  <2>2. n \in Seq(Task) /\ Len(n) = 1 /\ n[1] = r
    BY <1>5
  <2>3. \A x : Count(n, x, Refs(x)) = One(r, x, Refs(x))
    BY ZenonT(40), <1>5, CountFew
  <2> HIDE DEF n
  <2>4. Step(t, <<k>>, m, n)
    BY <1>6, <2>1, <2>2
  <2>5. ASSUME NEW i \in 1..Len(n)
        PROVE  /\ n[i].op \in RefNew /\ n[i].op # "del" /\ ~Named("attach", n[i].obj)
               /\ ShapeOK(vdevOf, t, n \o m, i) /\ TaskOK(t, n[i])
    <3>1. i = 1 /\ n[i] = r /\ (n \o m)[i] = r
      BY <1>7, <2>2, <2>4, StepPlaces
    <3>2. ShapeOK(vdevOf, t, n \o m, i)
      BY <1>5, <1>9, <3>1, ShapeFree
    <3> QED BY <1>5, <1>8, <1>9, <3>1, <3>2
  <2>6. ASSUME NEW x \in mem
        PROVE  /\ ref'[x] = ref[x] - One(k, x, Refs(x)) + Count(n, x, Refs(x))
               /\ ref[x] = 0 <=> ref'[x] = 0
    BY <1>7, <1>10, <2>1, <2>3
  <2> QED BY SMTT(30), <1>1, <1>5, <1>7, <2>1, <2>2, <2>5, <2>6, MoveStep DEF m
<1>12. CASE next # {}
  <2>1. PICK j \in js : next = {psocPeers[j]} /\ Tasks("next", next) = <<T("next", psocPeers[j])>>
    BY <1>4, <1>12
  <2> DEFINE q == psocPeers[j]
             g == T("next", q)
             n == <<r, g>>
  <2>2. Usable(q) /\ q \in ToSet(psocPeers)
    BY <1>2, <1>3 DEF ToSet
  <2>3. q \in mem /\ q \in Peers /\ q \in Objects
    BY <2>2 DEF IInv, ListLink, Objects
  <2>4. g \in Task /\ g.op = "next" /\ g.obj = q
    BY <2>3, OneTask DEF Ops, T
  <2>5. Then(t, n) /\ Get(q)
    <3>1. <<r>> \o <<g>> = <<r, g>>
      BY <1>5, <2>4, TwoTasks
    <3> QED BY <1>1, <1>12, <2>1, <3>1
  <2>6. n \in Seq(Task) /\ Len(n) = 2 /\ n[1] = r /\ n[2] = g
    BY <1>5, <2>4, TwoTasks
  <2> HIDE DEF g, q
  <2>7. ASSUME NEW x PROVE Count(n, x, Refs(x)) = One(r, x, Refs(x)) + One(g, x, Refs(x))
    BY <1>5, <2>4, CountTwo
  <2> HIDE DEF n
  <2>8. Step(t, <<k>>, m, n)
    BY <1>6, <2>5, <2>6
  <2>9. ~Named("attach", q) /\ ref[q] # 0
    BY <2>2, <2>3, Attaching, Counted DEF Usable
  <2>10. TaskOK(t, g) /\ g.obj \in ObjectsOf(g.op) /\ g.op \in RefNew
    BY <2>3, <2>4 DEF TaskOK, ObjectsOf, RefNew
  <2>11. ASSUME NEW i \in 1..Len(n)
         PROVE  /\ n[i].op \in RefNew /\ n[i].op # "del" /\ ~Named("attach", n[i].obj)
                /\ ShapeOK(vdevOf, t, n \o m, i) /\ TaskOK(t, n[i])
    <3>1. n[i] \in {r, g} /\ (n \o m)[i] = n[i]
      <4>1. (n \o m)[i] = n[i]
        BY <1>7, <2>8, StepPlaces
      <4> QED BY <2>6, <4>1
    <3>2. ShapeOK(vdevOf, t, n \o m, i)
      BY <1>5, <1>9, <2>4, <2>10, <3>1, ShapeFree
    <3> QED BY <1>5, <1>8, <1>9, <2>4, <2>9, <2>10, <3>1, <3>2
  <2>12. ref' \in [Objects -> Nat] /\ ref'[q] = ref[q] + 1 /\ \A x \in Objects : x # q => ref'[x] = ref[x]
    BY <1>7, <2>3, <2>5 DEF Get
  <2>13. ASSUME NEW x \in mem
         PROVE  /\ ref'[x] = ref[x] - One(k, x, Refs(x)) + Count(n, x, Refs(x))
                /\ ref[x] = 0 <=> ref'[x] = 0
    <3>1. One(g, x, Refs(x)) = IF x = q THEN 1 ELSE 0
      BY <2>3, <2>4 DEF One, Refs
    <3>2. ref[x] \in Nat /\ x \in Objects
      BY <1>7
    <3> QED BY <1>10, <2>7, <2>9, <2>12, <3>1, <3>2
  <2> QED BY SMTT(30), <1>1, <1>5, <2>5, <2>6, <2>11, <2>12, <2>13, MoveStep DEF m
<1> QED BY <1>11, <1>12

\* A visit stands behind nothing and in front of the end of the traversal.
LEMMA VisitShape ==
  ASSUME NEW t, NEW k, k.op = "visit", NEW m \in Seq(Task), NEW s, s = <<k>> \o m, <<k>> \in Seq(Task),
         ShapeOK(vdevOf, t, s, 1),
         NEW n \in Seq(Task), NEW i \in 1..Len(n), NEW g, n[i] = g,
         g.op = "visit", g.obj \in Peers, vdevOf[g.obj] = vdevOf[k.obj]
  PROVE  ShapeOK(vdevOf, t, n \o m, i)
<1> DEFINE l == Len(m)
           b == Len(n)
           r == n \o m
<1>1. l \in Nat /\ b \in Nat
  BY LenProperties
<1>2. /\ Len(s) = 1 + l /\ \A e \in 1 .. 1 + l : s[e] = IF e <= 1 THEN <<k>>[e] ELSE m[e - 1]
  <2>1. Len(<<k>>) = 1
    OBVIOUS
  <2> QED BY <2>1, ConcatProperties
<1>3. Len(r) = b + l /\ \A e \in 1 .. b + l : r[e] = IF e <= b THEN n[e] ELSE m[e - b]
  BY ConcatProperties
<1> HIDE DEF l, b, r
<1>4. s[1] = k
  <2>1. 1 \in 1 .. 1 + l /\ <<k>>[1] = k
    BY <1>1
  <2> QED BY <1>2, <2>1
<1>5. 3 <= Len(s) /\ s[Len(s) - 1] = T("vend", vdevOf[k.obj])
  <2>1. 1 + 2 = 3
    OBVIOUS
  <2> QED BY <1>4, <2>1 DEF ShapeOK
<1>6. m[l - 1] = T("vend", vdevOf[k.obj]) /\ l >= 2
  BY <1>1, <1>2, <1>5
<1>7. r[Len(r) - 1] = m[l - 1] /\ i + 2 <= Len(r) /\ r[i] = g
  <2>1. i \in 1..b
    BY DEF b
  <2> DEFINE z == b + l - 1
  <2>2. /\ z \in 1 .. b + l /\ ~(z <= b) /\ z - b = l - 1 /\ (b + l) - 1 = z
        /\ i \in 1 .. b + l /\ i <= b /\ i + 2 <= b + l
    <3>1. l >= 2 /\ l \in Nat /\ b \in Nat
      BY <1>1, <1>6
    <3>2. ~(b + l - 1 <= b) /\ b + l - 1 \in 1 .. b + l
      BY <3>1
    <3>3. (b + l - 1) - b = l - 1 /\ (b + l) - 1 = z
      BY <3>1
    <3>4. i \in 1 .. b + l /\ i <= b /\ i + 2 <= b + l
      BY <3>1, <2>1
    <3> QED BY <3>2, <3>3, <3>4
  <2> HIDE DEF z
  <2>3. r[i] = n[i]
    BY <1>3, <2>2
  <2>4. r[z] = m[z - b]
    BY <1>3, <2>2
  <2>5. Len(r) - 1 = z /\ i + 2 <= Len(r)
    BY <1>3, <2>2
  <2> QED BY <2>2, <2>3, <2>4, <2>5
<1> QED BY <1>6, <1>7 DEF ShapeOK, ObjectsOf, r

LEMMA VisitIInv ==
  ASSUME IInv, NEW t \in Threads, NEW p \in Peers, Visit(t, p)
  PROVE  IInv'
<1> DEFINE v == vdevOf[p]
           list == vdevPeers[v]
           js == After(list, p)
           next == FirstOf(list, js)
           more == Tasks("visit", next)
           k == T("visit", p)
           r == T("rel", p)
           m == Tail(todo[t])
           G == {T("visit", list[j]) : j \in js}
<1>1. /\ Doing(t, k)
      /\ IF Usable(p) THEN Get(p) /\ Then(t, <<r>> \o more) ELSE UNCHANGED ref /\ Then(t, more)
      /\ UNCHANGED <<mem, st, pins, birth, lists, vlock, delay>>
  BY DEF Visit
<1>2. v \in Vdevs /\ list \in Seq(Peers) /\ Len(list) \in Nat /\ DOMAIN list = 1..Len(list)
  BY Typed, LenProperties DEF IInv, Types
<1>3. js \in SUBSET (1..Len(list))
  BY DEF After, All
<1>4. more = <<>> \/ \E g \in G : more = <<g>>
  <2>1. \/ js = {} /\ next = {} /\ more = <<>>
        \/ \E j \in js : next = {list[j]} /\ more = <<T("visit", list[j])>>
    <3> HIDE DEF js, list
    <3> QED BY <1>2, <1>3, FirstOfIs
  <2> QED BY <2>1
<1>5. /\ k.op = "visit" /\ k.obj = p /\ r.op = "rel" /\ r.obj = p /\ k \in Task /\ r \in Task
      /\ k.op \in RefOld /\ r.op \in RefNew /\ p \in Objects /\ "visit" \in RefNew
  BY OneTask DEF Objects, Ops, RefOld, RefNew, T
<1>6. TaskOK(t, k) /\ 1 \in 1..Len(todo[t]) /\ todo[t][1] = k
  BY <1>1, DoingStep
<1>7. p \in mem /\ vlock[v] = t /\ Linked(p)
  BY <1>5, <1>6 DEF TaskOK
<1>8. /\ m \in Seq(Task) /\ <<k>> \in Seq(Task) /\ todo[t] = <<k>> \o m /\ ShapeOK(vdevOf, t, todo[t], 1)
      /\ \A n \in Seq(Task) : Then(t, n) => Step(t, <<k>>, m, n)
  BY <1>1, DoingStep
<1>9. ref \in [Objects -> Nat] /\ mem \subseteq Objects /\ todo \in Programs
  BY Typed DEF IInv, Types
<1>10. ~Named("attach", p) /\ TaskOK(t, r) /\ r.obj \in ObjectsOf(r.op)
  BY <1>5, <1>7, Attaching DEF TaskOK, ObjectsOf
<1>11. ASSUME NEW g \in G
       PROVE  /\ g \in Task /\ g.op = "visit" /\ g.obj \in Peers /\ vdevOf[g.obj] = vdevOf[k.obj]
              /\ ~Named("attach", g.obj) /\ TaskOK(t, g)
  <2>1. PICK j \in js : g = T("visit", list[j])
    OBVIOUS
  <2> DEFINE q == list[j]
  <2>2. q \in ToSet(list)
    BY <1>2, <1>3 DEF ToSet
  <2>3. q \in mem /\ vdevOf[q] = v /\ q \in Peers
    <3>1. q \in Peers
      BY <1>2, <1>3, ElementOfSeq
    <3> HIDE DEF q
    <3> QED BY <1>2, <2>2, <3>1 DEF IInv, ListLink
  <2>4. Linked(q)
    BY <2>2, <2>3 DEF Linked
  <2> HIDE DEF q
  <2>5. g.op = "visit" /\ g.obj = q /\ g \in Task
    BY <2>1, <2>3, OneTask DEF q, Objects, Ops
  <2>6. ~Named("attach", q)
    BY <2>4, Attaching
  <2>7. TaskOK(t, g)
    BY <1>7, <2>3, <2>4, <2>5 DEF TaskOK
  <2> QED BY <1>5, <2>3, <2>5, <2>6, <2>7
<1> HIDE DEF js, next, k, r, m, more, G, list, v
<1>12. PICK n \in Seq(Task) :
         /\ Then(t, n) /\ \A i \in 1..Len(n) : n[i] = r \/ n[i] \in G
         /\ \A x : Count(n, x, Refs(x)) = IF Usable(p) THEN One(r, x, Refs(x)) ELSE 0
  <2>1. ASSUME NEW g \in G, NEW x PROVE One(g, x, Refs(x)) = 0
    BY <1>11, <2>1 DEF One, Refs
  <2>2. CASE Usable(p) /\ more = <<>>
    <3>1. Then(t, <<r>>)
      BY <1>1, <1>5, <2>2, TwoTasks
    <3> DEFINE n == <<r>>
    <3>2. \A x : Count(n, x, Refs(x)) = One(r, x, Refs(x))
      BY ZenonT(40), <1>5, CountFew
    <3>3. n \in Seq(Task) /\ Then(t, n) /\ \A i \in 1..Len(n) : n[i] = r
      BY <1>5, <3>1
    <3> HIDE DEF n
    <3> QED BY <2>2, <3>2, <3>3
  <2>3. CASE ~Usable(p) /\ more = <<>>
    <3> DEFINE n == <<>>
    <3>1. \A x : Count(n, x, Refs(x)) = 0
      BY CountFew
    <3>2. n \in Seq(Task) /\ Then(t, n) /\ \A i \in 1..Len(n) : FALSE
      BY <1>1, <2>3
    <3> HIDE DEF n
    <3> QED BY <2>3, <3>1, <3>2
  <2>4. ASSUME Usable(p), NEW g \in G, more = <<g>>
        PROVE  \E n \in Seq(Task) :
                 /\ Then(t, n) /\ \A i \in 1..Len(n) : n[i] = r \/ n[i] \in G
                 /\ \A x : Count(n, x, Refs(x)) = IF Usable(p) THEN One(r, x, Refs(x)) ELSE 0
    <3> DEFINE n == <<r, g>>
    <3>1. Then(t, n) /\ n \in Seq(Task) /\ Len(n) = 2 /\ n[1] = r /\ n[2] = g
      BY ZenonT(40), <1>1, <1>5, <1>11, <2>4, TwoTasks
    <3>2. ASSUME NEW x PROVE Count(n, x, Refs(x)) = One(r, x, Refs(x))
      <4>1. Count(n, x, Refs(x)) = One(r, x, Refs(x)) + One(g, x, Refs(x))
        BY <1>5, <1>11, CountTwo
      <4>2. One(r, x, Refs(x)) \in Nat /\ One(g, x, Refs(x)) = 0
        BY <2>1 DEF One
      <4> HIDE DEF n
      <4> QED BY <4>1, <4>2
    <3> HIDE DEF n
    <3>3. \A i \in 1..Len(n) : n[i] = r \/ n[i] \in G
      BY <3>1
    <3> QED BY <2>4, <3>1, <3>2, <3>3
  <2>5. ASSUME ~Usable(p), NEW g \in G, more = <<g>>
        PROVE  \E n \in Seq(Task) :
                 /\ Then(t, n) /\ \A i \in 1..Len(n) : n[i] = r \/ n[i] \in G
                 /\ \A x : Count(n, x, Refs(x)) = IF Usable(p) THEN One(r, x, Refs(x)) ELSE 0
    <3>1. Then(t, <<g>>) /\ <<g>> \in Seq(Task)
      BY <1>1, <1>11, <2>5
    <3>2. ASSUME NEW x PROVE Count(<<g>>, x, Refs(x)) = 0
      <4>1. Count(<<g>>, x, Refs(x)) = One(g, x, Refs(x))
        BY <1>11, CountFew
      <4> QED BY <2>1, <4>1
    <3>3. \A i \in 1..Len(<<g>>) : <<g>>[i] \in G
      OBVIOUS
    <3> QED BY <2>5, <3>1, <3>2, <3>3
  <2> QED BY <1>4, <2>2, <2>3, <2>4, <2>5
<1>13. Step(t, <<k>>, m, n)
  BY <1>8, <1>12
<1>14. ASSUME NEW i \in 1..Len(n)
       PROVE  /\ n[i].op \in RefNew /\ n[i].op # "del" /\ ~Named("attach", n[i].obj)
              /\ ShapeOK(vdevOf, t, n \o m, i) /\ TaskOK(t, n[i])
  <2>0. (n \o m)[i] = n[i]
    BY <1>9, <1>13, StepPlaces
  <2>1. CASE n[i] = r
    <3>1. ShapeOK(vdevOf, t, n \o m, i)
      BY <1>5, <1>10, <2>0, <2>1, ShapeFree
    <3> QED BY <1>5, <1>10, <2>1, <3>1
  <2>2. CASE n[i] \in G
    <3>1. PICK g : g = n[i] /\ g \in G
      BY <2>2
    <3>2. /\ g.op = "visit" /\ g.obj \in Peers /\ vdevOf[g.obj] = vdevOf[k.obj]
          /\ ~Named("attach", g.obj) /\ TaskOK(t, g)
      BY <1>11, <3>1
    <3>3. ShapeOK(vdevOf, t, n \o m, i)
      BY <1>5, <1>8, <3>1, <3>2, VisitShape
    <3> QED BY <1>5, <3>1, <3>2, <3>3
  <2> QED BY <1>12, <2>1, <2>2
<1>15. /\ ref' \in [Objects -> Nat] /\ \A x \in Objects : x # p => ref'[x] = ref[x]
       /\ IF Usable(p) THEN ref'[p] = ref[p] + 1 /\ ref[p] # 0 ELSE ref'[p] = ref[p]
  <2>1. Usable(p) => ref[p] # 0
    BY <1>7, Counted DEF Usable
  <2> QED BY SMTT(30), <1>1, <1>5, <1>9, <2>1 DEF Get
<1>16. ASSUME NEW x \in mem
       PROVE  /\ ref'[x] = ref[x] - One(k, x, Refs(x)) + Count(n, x, Refs(x))
              /\ ref[x] = 0 <=> ref'[x] = 0
  <2>1. One(k, x, Refs(x)) = 0 /\ One(r, x, Refs(x)) = IF x = p THEN 1 ELSE 0
    BY <1>5 DEF One, Refs
  <2>2. ref[x] \in Nat /\ x \in Objects /\ ref[p] \in Nat
    BY <1>5, <1>9
  <2>3. Count(n, x, Refs(x)) = IF Usable(p) THEN One(r, x, Refs(x)) ELSE 0
    BY <1>12
  <2> QED BY <1>15, <2>1, <2>2, <2>3
<1> QED BY <1>1, <1>5, <1>12, <1>14, <1>15, <1>16, MoveStep DEF m

LEMMA VisitEndIInv ==
  ASSUME IInv, NEW t \in Readers, NEW v \in Vdevs, VisitEnd(t, v)
  PROVE  IInv'
<1> DEFINE k == T("vend", v)
           r == T("rel", v)
           g == T("unlock", v)
           n == <<r, g>>
           m == Tail(todo[t])
<1>1. /\ Doing(t, k) /\ Then(t, n) /\ ref' = ref /\ t \in Threads
      /\ UNCHANGED <<mem, st, pins, birth, lists, vlock, delay>>
  BY Kinds DEF VisitEnd
<1>2. /\ k.op = "vend" /\ k.obj = v /\ r.op = "rel" /\ r.obj = v /\ g.op = "unlock" /\ g.obj = v
      /\ k \in Task /\ r \in Task /\ g \in Task
      /\ k.op \in RefOld /\ r.op \in RefNew /\ g.op \in RefNew /\ v \in Objects /\ v \notin Peers
  BY OneTask, Kinds DEF Objects, Ops, RefOld, RefNew, T
<1>3. n \in Seq(Task) /\ Len(n) = 2 /\ n[1] = r /\ n[2] = g
  BY <1>2, TwoTasks
<1>4. /\ TaskOK(t, k) /\ ShapeOK(vdevOf, t, todo[t], 1) /\ todo[t][1] = k /\ 1 \in 1..Len(todo[t])
      /\ Step(t, <<k>>, m, n) /\ Len(<<k>>) = 1
  <2>1. TaskOK(t, k) /\ ShapeOK(vdevOf, t, todo[t], 1) /\ todo[t][1] = k /\ 1 \in 1..Len(todo[t])
    BY <1>1, DoingStep
  <2>2. Step(t, <<k>>, m, n) /\ Len(<<k>>) = 1
    BY ZenonT(40), <1>1, <1>3, DoingStep
  <2> QED BY <2>1, <2>2
<1>5. v \in mem /\ vlock[v] = t
  BY <1>2, <1>4 DEF TaskOK
<1>6. Len(todo[t]) = 1 + 1 /\ todo[t][1 + 1] = T("rel", k.obj)
  BY <1>2, <1>4 DEF ShapeOK
<1>7. ref \in [Objects -> Nat] /\ todo \in Programs /\ mem \subseteq Objects
  BY Typed DEF IInv, Types
<1>8. \A x : Count(n, x, Refs(x)) = One(r, x, Refs(x)) + One(g, x, Refs(x))
  <2> HIDE DEF r, g
  <2> SUFFICES ASSUME NEW x PROVE Count(n, x, Refs(x)) = One(r, x, Refs(x)) + One(g, x, Refs(x))
    OBVIOUS
  <2> QED BY <1>2, CountTwo
<1>9. T("rel", k.obj) = r
  BY <1>2
<1> HIDE DEF k, r, g, n, m
<1>10. Len(n \o m) = 3 /\ (n \o m)[1] = r /\ (n \o m)[2] = g /\ (n \o m)[3] = r
  <2> DEFINE h == <<k>>
  <2>0. Step(t, h, m, n) /\ Len(h) = 1 /\ Len(n) = 2
    BY <1>3, <1>4
  <2> HIDE DEF h
  <2>6. /\ Len(m) \in Nat /\ Len(todo[t]) = Len(h) + Len(m) /\ Len(todo'[t]) = Len(n) + Len(m)
        /\ \A i \in 1..Len(m) : todo[t][Len(h) + i] = m[i] /\ todo'[t][Len(n) + i] = m[i]
        /\ \A i \in 1..Len(n) : todo'[t][i] = n[i]
        /\ todo'[t] = n \o m
    <3>1. todo \in Programs /\ Step(t, h, m, n)
      BY <1>7, <2>0
    <3> QED BY SMTT(30), <3>1, StepPlaces
  <2>1. /\ Len(m) \in Nat /\ 1 + 1 = 1 + Len(m) /\ Len(n \o m) = 2 + Len(m)
        /\ \A i \in 1..Len(m) : todo[t][1 + i] = m[i] /\ (n \o m)[2 + i] = m[i]
        /\ \A i \in 1..2 : (n \o m)[i] = n[i]
    BY <1>6, <2>0, <2>6
  <2>2. Len(m) = 1
    <3> DEFINE l == Len(m)
    <3>1. l \in Nat /\ 1 + 1 = 1 + l
      BY <2>1
    <3> HIDE DEF l
    <3>2. l = 1
      BY <3>1
    <3> QED BY <3>2 DEF l
  <2>3. m[1] = r /\ (n \o m)[2 + 1] = m[1]
    BY <1>6, <1>9, <2>1, <2>2
  <2>4. (n \o m)[1] = r /\ (n \o m)[2] = g
    BY <1>3, <2>1
  <2>5. 2 + 1 = 3
    OBVIOUS
  <2> QED BY <2>1, <2>2, <2>3, <2>4, <2>5
<1>11. ~Named("attach", v)
  BY <1>2, Attaching
<1>12. ASSUME NEW i \in 1..Len(n)
       PROVE  /\ n[i].op \in RefNew /\ n[i].op # "del" /\ ~Named("attach", n[i].obj)
              /\ ShapeOK(vdevOf, t, n \o m, i) /\ TaskOK(t, n[i])
  <2>1. ASSUME i = 1
        PROVE  n[i] = r /\ ShapeOK(vdevOf, t, n \o m, 1) /\ TaskOK(t, r)
    <3>1. r.obj \in ObjectsOf(r.op)
      BY <1>2 DEF ObjectsOf
    <3>2. ShapeOK(vdevOf, t, n \o m, 1)
      BY <1>2, <1>10, <3>1, ShapeFree
    <3>3. TaskOK(t, r)
      BY <1>2, <1>5 DEF TaskOK
    <3> QED BY <1>3, <2>1, <3>2, <3>3
  <2>2. ASSUME i = 2
        PROVE  n[i] = g /\ ShapeOK(vdevOf, t, n \o m, 2) /\ TaskOK(t, g)
    <3>1. Len(n \o m) = 2 + 1 /\ (n \o m)[2 + 1] = T("rel", g.obj)
      BY <1>2, <1>9, <1>10
    <3>2. ShapeOK(vdevOf, t, n \o m, 2)
      BY <1>2, <1>10, <3>1 DEF ShapeOK, ObjectsOf
    <3>3. TaskOK(t, g)
      BY <1>2, <1>5 DEF TaskOK
    <3> QED BY <1>3, <2>2, <3>2, <3>3
  <2>3. i = 1 \/ i = 2
    BY <1>3
  <2> QED BY <1>2, <1>11, <2>1, <2>2, <2>3
<1>13. ASSUME NEW x \in mem
       PROVE  /\ ref'[x] = ref[x] - One(k, x, Refs(x)) + Count(n, x, Refs(x))
              /\ ref[x] = 0 <=> ref'[x] = 0
  <2>1. One(r, x, Refs(x)) = One(k, x, Refs(x)) /\ One(k, x, Refs(x)) \in Nat
    BY <1>2 DEF One, Refs
  <2>2. One(g, x, Refs(x)) = 0
    BY <1>2 DEF One, Refs
  <2>3. ref[x] \in Nat
    BY <1>7
  <2> QED BY <1>1, <1>8, <2>1, <2>2, <2>3
<1>14. ref' \in [Objects -> Nat]
  BY <1>1, <1>7
<1> QED BY ZenonT(40), <1>1, <1>2, <1>3, <1>12, <1>13, <1>14, MoveStep DEF m

LEMMA VisitUnlockIInv ==
  ASSUME IInv, NEW t \in Readers, NEW v \in Vdevs, VisitUnlock(t, v)
  PROVE  IInv'
<1> DEFINE k == T("unlock", v)
           h == <<k>>
           n == <<>>
           m == Tail(todo[t])
<1>1. /\ Doing(t, k) /\ Then(t, n) /\ ref' = ref /\ t \in Threads /\ vlock' = [vlock EXCEPT ![v] = NULL]
      /\ UNCHANGED <<mem, st, pins, birth, lists, delay>>
  BY Kinds DEF VisitUnlock
<1>2. /\ k.op = "unlock" /\ k.obj = v /\ k \in Task /\ k.op \in RefOld /\ v \in Objects /\ v \notin Peers
      /\ n \in Seq(Task) /\ \A i \in 1..Len(n) : FALSE
  BY OneTask, Kinds DEF Objects, Ops, RefOld, T
<1>4. /\ TaskOK(t, k) /\ ShapeOK(vdevOf, t, todo[t], 1) /\ todo[t][1] = k /\ 1 \in 1..Len(todo[t])
      /\ Step(t, h, m, n) /\ Len(h) = 1 /\ h[1] = k
  <2>1. TaskOK(t, k) /\ ShapeOK(vdevOf, t, todo[t], 1) /\ todo[t][1] = k /\ 1 \in 1..Len(todo[t])
    BY <1>1, DoingStep
  <2>2. Step(t, h, m, n) /\ Len(h) = 1 /\ h[1] = k
    BY <1>1, <1>2, DoingStep
  <2> QED BY <2>1, <2>2
<1>5. v \in mem /\ vlock[v] = t
  BY <1>2, <1>4 DEF TaskOK
<1>6. Len(todo[t]) = 1 + 1 /\ todo[t][1 + 1] = T("rel", k.obj)
  BY <1>2, <1>4 DEF ShapeOK
<1>7. /\ ref \in [Objects -> Nat] /\ todo \in Programs /\ mem \subseteq Objects
      /\ vlock \in [Vdevs -> Readers \cup {NULL}]
  BY Typed DEF IInv, Types, LockLink
<1>8. \A x : Count(n, x, Refs(x)) = 0 /\ Count(h, x, Refs(x)) = 0
  <2>1. \A x : Count(h, x, Refs(x)) = One(k, x, Refs(x))
    BY ZenonT(40), <1>2, CountFew
  <2>2. \A x : One(k, x, Refs(x)) = 0
    BY <1>2 DEF One, Refs
  <2> QED BY <2>1, <2>2, CountFew
<1>9. T("rel", k.obj).op = "rel"
  BY DEF T
<1> HIDE DEF k, n, h, m
<1>10. \A i \in 1..Len(todo[t]) : i > 1 => todo[t][i].op = "rel"
  <2>1. \A i \in 1..Len(todo[t]) : i > 1 => i = 1 + 1
    BY <1>6
  <2> QED BY <1>6, <1>9, <2>1
<1>11. vlock' \in [Vdevs -> Readers \cup {NULL}] /\ vlock'[v] = NULL /\ \A w \in Vdevs \ {v} : vlock'[w] = vlock[w]
  BY <1>1, <1>7
<1>12. ShapeLink'
  <2>1. h[1].op # "pin"
    BY <1>2, <1>4
  <2> QED BY <1>1, <1>2, <1>4, <1>7, <2>1, StepShapeLink DEF IInv, birth
<1>13. TaskLink'
  <2>1. ASSUME NEW u \in Threads, NEW i \in 1..Len(todo[u]), u = t => i > Len(h), NEW g, g = todo[u][i], TaskOK(u, g)
        PROVE  TaskOK(u, g)'
    <3>1. CASE u = t
      <4>1. g.op = "rel"
        BY <1>4, <1>10, <2>1, <3>1
      <4> QED BY <1>1, <2>1, <4>1 DEF TaskOK
    <3>2. CASE u # t
      <4>1. \A w \in Vdevs : vlock[w] = u => vlock'[w] = u
        BY <1>5, <1>11, <3>2
      <4>2. g.op \in {"vend", "unlock"} => g.obj \in Vdevs
        BY <2>1, TaskFacts DEF ObjectsOf
      <4>3. g.op = "visit" => vdevOf[g.obj] \in Vdevs
        BY <2>1, TaskFacts DEF ObjectsOf, IInv, Types
      <4> QED BY <1>1, <2>1, <4>1, <4>2, <4>3 DEF TaskOK, Linked, birth, lists
    <3> QED BY <3>1, <3>2
  <2>2. TaskLink
    BY DEF IInv
  <2>3. \A u \in Threads : \A i \in 1..Len(todo[u]) : (u = t => i > Len(h)) =>
          \A g : g = todo[u][i] /\ TaskOK(u, g) => TaskOK(u, g)'
    BY <2>1
  <2>4. \A i \in 1..Len(n) : \A g : g = n[i] => TaskOK(t, g)'
    BY <1>2
  <2>5. Step(t, h, m, n) /\ todo \in Programs
    BY <1>4, <1>7
  <2> QED BY SMTT(30), <2>2, <2>3, <2>4, <2>5, StepTaskLink
<1>14. LockLink'
  <2>1. ASSUME Delayed, NEW u \in Threads, NEW j \in 1..Len(todo'[u]),
               todo'[u][j].op \in {"destroy", "detach"}, todo'[u][j].obj \in Peers, NEW w \in Vdevs
        PROVE  vlock'[w] # u
    <3>1. \E i \in 1..Len(todo[u]) : todo'[u][j] = todo[u][i]
      BY <1>2, <1>4, <1>7, StepTasks
    <3>2. vlock[w] # u
      BY <2>1, <3>1 DEF IInv, LockLink
    <3> QED BY <1>11, <3>2, Kinds
  <2> QED BY <1>11, <2>1 DEF LockLink
<1>15. /\ \A i \in 1..Len(h) : h[i].op \in RefOld
       /\ \A i \in 1..Len(n) : n[i].op \in RefNew /\ ~Named("attach", n[i].obj)
  BY <1>2, <1>4
<1>16. made' \in [peers : 0..MaxPeers, vdevs : 0..MaxVdevs] /\ ref' \in [Objects -> Nat]
  BY <1>1, <1>7 DEF IInv, Types, birth
<1>17. ASSUME NEW x \in mem
       PROVE  /\ ref'[x] = ref[x] - Count(h, x, Refs(x)) + Count(n, x, Refs(x))
              /\ ref[x] = 0 <=> ref'[x] = 0
  <2>1. ref[x] \in Nat
    BY <1>7
  <2> QED BY <1>1, <1>8, <2>1
<1>18. UNCHANGED <<mem, st, pins, role, vdevOf, lists, delay>>
  BY <1>1 DEF birth
<1> QED BY <1>4, <1>12, <1>13, <1>14, <1>15, <1>16, <1>17, <1>18, RefStep

LEMMA VisitStartIInv ==
  ASSUME IInv, NEW t \in Readers, NEW v \in Vdevs, VisitStart(t, v)
  PROVE  IInv'
<1> DEFINE list == vdevPeers[v]
           js == All(list)
           more == Tasks("visit", FirstOf(list, js))
           r == T("rel", v)
           e == T("vend", v)
           h == <<>>
           m == todo[t]
           G == {T("visit", list[j]) : j \in js}
<1>1. /\ Doing(t, r) /\ Len(m) = 1 /\ vlock[v] = NULL /\ Usable(v) /\ t \in Threads
      /\ vlock' = [vlock EXCEPT ![v] = t] /\ Get(v)
      /\ todo' = [todo EXCEPT ![t] = (more \o <<e>>) \o @]
      /\ UNCHANGED <<mem, st, pins, birth, lists, delay>>
  <2>1. t \in Threads
    BY Kinds
  <2>2. todo' = [todo EXCEPT ![t] = more \o <<e>> \o @]
    BY DEF VisitStart
  <2> HIDE DEF more, e
  <2> QED BY <2>1, <2>2 DEF VisitStart
<1>2. list \in Seq(Peers) /\ Len(list) \in Nat /\ DOMAIN list = 1..Len(list)
  BY Typed, LenProperties
<1>3. js \in SUBSET (1..Len(list))
  BY DEF All
<1>4. more = <<>> \/ \E g \in G : more = <<g>>
  <2>1. \/ js = {} /\ FirstOf(list, js) = {} /\ more = <<>>
        \/ \E j \in js : FirstOf(list, js) = {list[j]} /\ more = <<T("visit", list[j])>>
    <3> HIDE DEF js, list
    <3> QED BY <1>2, <1>3, FirstOfIs
  <2> QED BY <2>1
<1>5. /\ r.op = "rel" /\ r.obj = v /\ e.op = "vend" /\ e.obj = v /\ r \in Task /\ e \in Task
      /\ e.op \in RefNew /\ v \in Objects /\ v \notin Peers /\ "visit" \in RefNew
  BY OneTask, Kinds DEF Objects, Ops, RefNew, T
<1>6. TaskOK(t, r) /\ todo[t][1] = r /\ 1 \in 1..Len(todo[t])
  BY <1>1, DoingStep
<1>7. v \in mem
  BY <1>5, <1>6 DEF TaskOK
<1>8. /\ ref \in [Objects -> Nat] /\ todo \in Programs /\ mem \subseteq Objects
      /\ vlock \in [Vdevs -> Readers \cup {NULL}]
  BY Typed DEF IInv, Types, LockLink
<1>9. vlock' \in [Vdevs -> Readers \cup {NULL}] /\ vlock'[v] = t /\ \A w \in Vdevs \ {v} : vlock'[w] = vlock[w]
  BY <1>1, <1>8
<1>10. ASSUME NEW g \in G
       PROVE  /\ g \in Task /\ g.op = "visit" /\ g.obj \in Peers /\ g.obj \in mem /\ vdevOf[g.obj] = v
              /\ ~Named("attach", g.obj) /\ Linked(g.obj)
  <2>1. PICK j \in js : g = T("visit", list[j])
    OBVIOUS
  <2> DEFINE q == list[j]
  <2>2. q \in ToSet(list)
    BY <1>2, <1>3 DEF ToSet
  <2>3. q \in mem /\ vdevOf[q] = v /\ q \in Peers
    <3>1. q \in Peers
      BY <1>2, <1>3, ElementOfSeq
    <3> HIDE DEF q
    <3> QED BY <1>2, <2>2, <3>1 DEF IInv, ListLink
  <2>4. Linked(q)
    BY <2>2, <2>3 DEF Linked
  <2> HIDE DEF q
  <2>5. g.op = "visit" /\ g.obj = q /\ g \in Task
    BY <2>1, <2>3, OneTask DEF q, Objects, Ops
  <2>6. ~Named("attach", q)
    BY <2>4, Attaching
  <2> QED BY <2>3, <2>4, <2>5, <2>6
<1> DEFINE es == <<e>>
<1>11. es \in Seq(Task) /\ Len(es) = 1 /\ es[1] = e
  BY <1>5
<1>12. \A x : Count(es, x, Refs(x)) = One(e, x, Refs(x))
  BY ZenonT(40), <1>5, CountFew
<1> DEFINE n == more \o es
<1>13. /\ n \in Seq(Task) /\ \A x : Count(n, x, Refs(x)) = One(e, x, Refs(x))
       /\ \/ Len(n) = 1 /\ n[1] = e
          \/ \E g \in G : Len(n) = 2 /\ n[1] = g /\ n[2] = e
  <2>1. CASE more = <<>>
    <3>1. n = es
      BY <1>11, <2>1, ConcatEmptySeq
    <3> HIDE DEF n, es
    <3> QED BY <1>11, <1>12, <3>1
  <2>2. ASSUME NEW g \in G, more = <<g>> PROVE <1>13
    <3> HIDE DEF e, G, more, js
    <3>0. g \in Task /\ e \in Task /\ g.op = "visit"
      BY <1>5, <1>10
    <3>4. <<g>> \o <<e>> = <<g, e>> /\ <<g, e>> \in Seq(Task) /\ Len(<<g, e>>) = 2 /\ <<g, e>>[1] = g /\ <<g, e>>[2] = e
      BY <3>0, TwoTasks
    <3>1. n = <<g, e>>
      BY <2>2, <3>4
    <3> HIDE DEF n
    <3>2. n \in Seq(Task) /\ Len(n) = 2 /\ n[1] = g /\ n[2] = e
      BY <3>1, <3>4
    <3>3. ASSUME NEW x PROVE Count(n, x, Refs(x)) = One(e, x, Refs(x))
      <4>1. Count(n, x, Refs(x)) = One(g, x, Refs(x)) + One(e, x, Refs(x))
        BY <3>0, <3>1, CountTwo
      <4>2. One(e, x, Refs(x)) \in Nat /\ One(g, x, Refs(x)) = 0
        BY <3>0 DEF One, Refs
      <4> QED BY <4>1, <4>2
    <3> QED BY <3>2, <3>3
  <2> QED BY <1>4, <2>1, <2>2
<1>14. todo' = [todo EXCEPT ![t] = n \o @]
  BY <1>1
<1> HIDE DEF list, js, more, r, e, G, es, n, h
<1>15. Step(t, h, m, n) /\ h = <<>> /\ \A i \in 1..Len(m) : m[i] = r
  BY <1>1, <1>13, <1>14, PushStep DEF h
<1> HIDE DEF m
<1>16. /\ Len(n) \in Nat /\ Len(n \o m) = Len(n) + 1 /\ (n \o m)[Len(n) + 1] = r
       /\ \A i \in 1..Len(n) : (n \o m)[i] = n[i]
  <2>1. 1 \in 1..Len(m)
    BY <1>1
  <2>2. /\ Len(n) \in Nat /\ Len(todo'[t]) = Len(n) + Len(m)
        /\ \A i \in 1..Len(m) : todo'[t][Len(n) + i] = m[i]
        /\ \A i \in 1..Len(n) : todo'[t][i] = n[i]
        /\ todo'[t] = n \o m
    <3>1. todo \in Programs /\ Step(t, h, m, n)
      BY <1>8, <1>15
    <3> QED BY SMTT(30), <3>1, StepPlaces
  <2> QED BY <1>1, <1>15, <2>1, <2>2
<1>17. ASSUME NEW i \in 1..Len(n)
       PROVE  \/ n[i] = e /\ i = Len(n)
              \/ n[i] \in G /\ i = 1 /\ Len(n) = 2 /\ n[2] = e
  <2>1. CASE Len(n) = 1 /\ n[1] = e
    <3>1. i = 1
      BY <2>1
    <3> QED BY <2>1, <3>1
  <2>2. CASE \E g \in G : Len(n) = 2 /\ n[1] = g /\ n[2] = e
    <3>1. i = 1 \/ i = 2
      BY <2>2
    <3> QED BY <2>2, <3>1
  <2> QED BY <1>13, <2>1, <2>2
<1>18. ASSUME NEW i \in 1..Len(n) PROVE ShapeOK(vdevOf, t, n \o m, i)
  <2>1. CASE n[i] = e /\ i = Len(n)
    <3>1. Len(n \o m) = i + 1 /\ (n \o m)[i + 1] = T("rel", e.obj) /\ (n \o m)[i] = e
      BY <1>5, <1>16, <2>1 DEF r
    <3> QED BY <1>5, <3>1 DEF ShapeOK, ObjectsOf
  <2>2. CASE n[i] \in G /\ i = 1 /\ Len(n) = 2 /\ n[2] = e
    <3>1. PICK g : g = n[i] /\ g \in G
      BY <2>2
    <3>2. /\ (n \o m)[i] = g /\ (n \o m)[2] = e /\ Len(n \o m) = 3
      BY <1>16, <2>2, <3>1
    <3>3. 3 - 1 = 2 /\ 1 + 2 <= 3
      OBVIOUS
    <3>4. e = T("vend", vdevOf[g.obj]) /\ g.op = "visit" /\ g.obj \in Peers
      BY <1>10, <3>1 DEF e
    <3> QED BY <2>2, <3>2, <3>3, <3>4 DEF ShapeOK, ObjectsOf
  <2> QED BY <1>17, <2>1, <2>2
<1>19. ShapeLink'
  <2>1. \A i \in 1..Len(n) : n[i].op \notin {"init", "del"}
    BY <1>5, <1>10, <1>17
  <2>2. \A i \in 1..Len(m) : m[i].op \in {"rel", "pop"}
    BY <1>5, <1>15
  <2>3. vdevOf' = vdevOf
    BY <1>1 DEF birth
  <2> QED BY <1>8, <1>15, <1>18, <2>1, <2>2, <2>3, StepShapeLink DEF IInv
<1>20. TaskLink'
  <2>0. NULL \notin Threads
    BY Kinds
  <2>1. ASSUME NEW u \in Threads, NEW i \in 1..Len(todo[u]), NEW g, g = todo[u][i], TaskOK(u, g)
        PROVE  TaskOK(u, g)'
    <3>1. \A w \in Vdevs : vlock[w] = u => vlock'[w] = u
      BY <1>1, <1>9, <2>0
    <3>2. g.op \in {"vend", "unlock"} => g.obj \in Vdevs
      BY <2>1, TaskFacts DEF ObjectsOf
    <3>3. g.op = "visit" => vdevOf[g.obj] \in Vdevs
      BY <2>1, TaskFacts DEF ObjectsOf, IInv, Types
    <3> QED BY <1>1, <2>1, <3>1, <3>2, <3>3 DEF TaskOK, Linked, birth, lists
  <2>2. TaskLink
    BY DEF IInv
  <2>3. \A u \in Threads : \A i \in 1..Len(todo[u]) : (u = t => i > Len(h)) =>
          \A g : g = todo[u][i] /\ TaskOK(u, g) => TaskOK(u, g)'
    BY <2>1
  <2>4. ASSUME NEW i \in 1..Len(n), NEW g, g = n[i] PROVE TaskOK(t, g)'
    <3>1. CASE g = e
      BY <1>1, <1>5, <1>7, <1>9, <3>1 DEF TaskOK
    <3>2. CASE g \in G
      BY <1>1, <1>9, <1>10, <3>2 DEF TaskOK, Linked, birth, lists
    <3> QED BY <1>17, <2>4, <3>1, <3>2
  <2> QED BY <1>8, <1>15, <2>2, <2>3, <2>4, StepTaskLink
<1>21. LockLink'
  <2>1. ASSUME Delayed, NEW u \in Threads, NEW j \in 1..Len(todo'[u]),
               todo'[u][j].op \in {"destroy", "detach"}, todo'[u][j].obj \in Peers, NEW w \in Vdevs
        PROVE  vlock'[w] # u
    <3>1. \/ u = t /\ \E i \in 1..Len(n) : todo'[u][j] = n[i]
          \/ \E i \in 1..Len(todo[u]) : todo'[u][j] = todo[u][i]
      BY <1>8, <1>15, StepTasks
    <3>2. \A i \in 1..Len(n) : n[i].op \notin {"destroy", "detach"}
      BY <1>5, <1>10, <1>17
    <3>3. PICK i \in 1..Len(todo[u]) : todo'[u][j] = todo[u][i]
      BY <2>1, <3>1, <3>2
    <3>4. u # t
      BY <1>5, <1>15, <2>1, <3>3 DEF m
    <3>5. vlock[w] # u
      BY <2>1, <3>3 DEF IInv, LockLink
    <3> QED BY <1>9, <3>4, <3>5
  <2> QED BY <1>9, <2>1 DEF LockLink
<1>22. /\ \A i \in 1..Len(h) : h[i].op \in RefOld
       /\ \A i \in 1..Len(n) : n[i].op \in RefNew /\ ~Named("attach", n[i].obj)
  <2>1. \A i \in 1..Len(h) : h[i].op \in RefOld
    BY DEF h
  <2>2. ~Named("attach", v)
    BY <1>5, Attaching
  <2> QED BY <1>5, <1>10, <1>17, <2>1, <2>2
<1>23. /\ made' \in [peers : 0..MaxPeers, vdevs : 0..MaxVdevs] /\ ref' \in [Objects -> Nat]
       /\ ref'[v] = ref[v] + 1 /\ \A x \in Objects : x # v => ref'[x] = ref[x]
  BY <1>1, <1>5, <1>8 DEF IInv, Types, birth, Get
<1>24. ASSUME NEW x \in mem
       PROVE  /\ ref'[x] = ref[x] - Count(h, x, Refs(x)) + Count(n, x, Refs(x))
              /\ ref[x] = 0 <=> ref'[x] = 0
  <2>1. Count(h, x, Refs(x)) = 0 /\ Count(n, x, Refs(x)) = One(e, x, Refs(x))
    BY <1>13, CountFew DEF h
  <2>2. One(e, x, Refs(x)) = IF x = v THEN 1 ELSE 0
    BY <1>5 DEF One, Refs
  <2>3. ref[x] \in Nat /\ x \in Objects
    BY <1>8
  <2>4. ref[v] # 0
    BY <1>1, <1>7, Counted DEF Usable
  <2> QED BY <1>23, <2>1, <2>2, <2>3, <2>4
<1>25. UNCHANGED <<mem, st, pins, role, vdevOf, lists, delay>>
  BY <1>1 DEF birth
<1> QED BY <1>15, <1>19, <1>20, <1>21, <1>22, <1>23, <1>24, <1>25, RefStep

-----------------------------------------------------------------------------
(* The last reference, and the destruction that a work does *)

LEMMA CalmStep ==
  ASSUME IInv, NEW t, NEW h, NEW m, NEW n, Step(t, h, m, n),
         \A i \in 1..Len(h) : Old(h[i]), \A i \in 1..Len(n) : New(n[i]) /\ n[i].op \notin {"init", "del"},
         \/ m = <<>>
         \/ Len(h) = 1
         \/ h = <<>> /\ \A i \in 1..Len(m) : m[i].op \in {"rel", "pop"},
         \A i \in 1..Len(n) : ~Named("attach", n[i].obj) /\ ShapeOK(vdevOf, t, n \o m, i) /\ TaskOK(t, n[i]),
         Delayed => \A i \in 1..Len(n) : n[i].op = "destroy" /\ n[i].obj \in Peers =>
           \A v \in Vdevs : vlock[v] # t,
         UNCHANGED <<mem, st, pins, birth, lists, vlock>>,
         freeList' \in Seq(Peers), IsInjective(freeList'), ToSet(freeList') \subseteq mem,
         work' \in BOOLEAN, ref' \in [Objects -> Nat],
         RefLink', EndLink', WorkLink'
  PROVE  IInv'
<1>0. todo \in Programs
  BY Typed
<1>1. ShapeLink'
  <2>1. ShapeLink /\ vdevOf' = vdevOf
    BY DEF IInv, birth
  <2>2. \/ m = <<>>
        \/ /\ \/ Len(h) = 1 /\ h[1].op # "pin"
              \/ h = <<>> /\ \A i \in 1..Len(m) : m[i].op \in {"rel", "pop"}
           /\ \A i \in 1..Len(n) : n[i].op \notin {"init", "del"}
    <3>1. Len(h) = 1 => h[1].op # "pin"
      BY DEF Old
    <3> QED BY <3>1
  <2> QED BY <1>0, <2>1, <2>2, StepShapeLink
<1>2. TaskLink'
  <2>0. TaskLink
    BY DEF IInv
  <2>1. \A u : \A k : TaskOK(u, k) => TaskOK(u, k)'
    BY DEF TaskOK, Linked, lists, birth
  <2> QED BY <1>0, <2>0, <2>1, StepTaskLink
<1>3. LockLink'
  <2>1. \A i \in 1..Len(n) : n[i].op # "detach"
    BY DEF New
  <2> QED BY <2>1, StepLockLink
<1>4. UNCHANGED <<mem, st, pins, role, vdevOf, lists>> /\ made' \in [peers : 0..MaxPeers, vdevs : 0..MaxVdevs]
  BY DEF birth, IInv, Types
<1> QED BY <1>1, <1>2, <1>3, <1>4, ObjStep

LEMMA WaitingIs ==
  ASSUME NEW o
  PROVE  /\ freeList \in Seq(Peers) /\ IsInjective(freeList) =>
              Cardinality(Waiting(o)) = IF o \in ToSet(freeList) THEN 1 ELSE 0
         /\ freeList' \in Seq(Peers) /\ IsInjective(freeList') =>
              Cardinality(Waiting(o))' = IF o \in ToSet(freeList') THEN 1 ELSE 0
<1>1. ASSUME NEW list \in Seq(Peers), IsInjective(list)
      PROVE  Cardinality({i \in 1..Len(list) : list[i] = o}) = IF o \in ToSet(list) THEN 1 ELSE 0
  BY <1>1, OnePlace
<1> QED BY <1>1 DEF Waiting

\* The sums of EndCount: a task of the destruction or a place on the free list for
\* each count that is zero.
EndSums(a, b, c, d, p, q, x, y) ==
  /\ a \in Nat /\ b \in Nat /\ c \in Nat /\ d \in Nat /\ p \in Nat /\ x \in Nat /\ y \in Nat
  /\ q = p - x + y /\ b + y + c = a + x + d /\ p + a = c

LEMMA EndSum ==
  ASSUME NEW a, NEW b, NEW c, NEW d, NEW p, NEW q, NEW x, NEW y, EndSums(a, b, c, d, p, q, x, y)
  PROVE  q + b = d
BY DEF EndSums

LEMMA EndCount ==
  ASSUME IInv, NEW t, NEW h, NEW m, NEW n, Step(t, h, m, n), NEW o \in mem,
         freeList' \in Seq(Peers), IsInjective(freeList'),
         (IF o \in ToSet(freeList') THEN 1 ELSE 0) + Count(n, o, Ends) + (IF ref[o] = 0 THEN 1 ELSE 0)
           = (IF o \in ToSet(freeList) THEN 1 ELSE 0) + Count(h, o, Ends) + (IF ref'[o] = 0 THEN 1 ELSE 0)
  PROVE  Pending(o, Ends)' + Cardinality(Waiting(o))' = IF ref'[o] = 0 THEN 1 ELSE 0
<1>1. todo \in Programs /\ freeList \in Seq(Peers) /\ IsInjective(freeList)
  BY Typed DEF IInv, Types
<1>2. /\ Pending(o, Ends)' = Pending(o, Ends) - Count(h, o, Ends) + Count(n, o, Ends)
      /\ Count(h, o, Ends) \in Nat /\ Count(n, o, Ends) \in Nat /\ Pending(o, Ends) \in Nat
  BY <1>1, PendingStep
<1>3. /\ Cardinality(Waiting(o)) = IF o \in ToSet(freeList) THEN 1 ELSE 0
      /\ Cardinality(Waiting(o))' = IF o \in ToSet(freeList') THEN 1 ELSE 0
  BY <1>1, WaitingIs
<1>4. Pending(o, Ends) + Cardinality(Waiting(o)) = IF ref[o] = 0 THEN 1 ELSE 0
  BY Ended
<1> DEFINE a == IF o \in ToSet(freeList) THEN 1 ELSE 0
           b == IF o \in ToSet(freeList') THEN 1 ELSE 0
           c == IF ref[o] = 0 THEN 1 ELSE 0
           d == IF ref'[o] = 0 THEN 1 ELSE 0
<1>5. a \in Nat /\ b \in Nat /\ c \in Nat /\ d \in Nat
  OBVIOUS
<1>6. b + Count(n, o, Ends) + c = a + Count(h, o, Ends) + d
  OBVIOUS
<1> HIDE DEF a, b, c, d
<1>7. Pending(o, Ends) + a = c
  BY <1>3, <1>4 DEF a, c
<1>8. EndSums(a, b, c, d, Pending(o, Ends), Pending(o, Ends)', Count(h, o, Ends), Count(n, o, Ends))
  BY <1>2, <1>5, <1>6, <1>7 DEF EndSums
<1>9. Pending(o, Ends)' + b = d
  BY <1>8, EndSum
<1> QED BY <1>3, <1>9 DEF b, d

LEMMA NullTask ==
  /\ \A op \in {"pop", "sched"} : T(op, NULL) \in Task /\ T(op, NULL).op = op /\ T(op, NULL).obj = NULL
  /\ IInv => ~Named("attach", NULL)
<1>1. \A op \in {"pop", "sched"} : T(op, NULL) \in Task /\ T(op, NULL).op = op /\ T(op, NULL).obj = NULL
  BY DEF T, Task, Ops
<1>2. ASSUME IInv PROVE ~Named("attach", NULL)
  BY <1>2, Attaching, Kinds, Typed
<1> QED BY <1>1, <1>2

LEMMA LastReleaseIInv ==
  ASSUME IInv, NEW t \in Threads, NEW o \in Objects, Release(t, o), ref[o] = 1
  PROVE  IInv'
<1> DEFINE k == T("rel", o)
           h == <<k>>
           m == Tail(todo[t])
<1>1. /\ Doing(t, k) /\ UNCHANGED <<mem, st, pins, birth, lists, vlock, work>>
      /\ ref' = [ref EXCEPT ![o] = IF @ > 0 THEN @ - 1 ELSE 0]
      /\ \/ ~Deferred(t, o) /\ Then(t, <<T("destroy", o)>>) /\ freeList' = freeList
         \/ Deferred(t, o) /\ freeList' = Append(freeList, o) /\ Then(t, <<T("sched", NULL)>>)
  BY DEF Release
<1>2. k.op = "rel" /\ k.obj = o /\ k \in Task /\ Old(k)
  BY OneTask DEF Ops, T, Old
<1>3. /\ o \in mem /\ 1 \in 1..Len(todo[t]) /\ todo[t][1] = k /\ h \in Seq(Task) /\ Len(h) = 1 /\ h[1] = k
      /\ m \in Seq(Task) /\ \A n \in Seq(Task) : Then(t, n) => Step(t, h, m, n)
  <2>1. TaskOK(t, k) /\ 1 \in 1..Len(todo[t]) /\ todo[t][1] = k
    BY <1>1, DoingStep
  <2>2. h \in Seq(Task) /\ Len(h) = 1 /\ h[1] = k
    BY <1>2
  <2>3. m \in Seq(Task) /\ \A n \in Seq(Task) : Then(t, n) => Step(t, h, m, n)
    BY <1>1, DoingStep
  <2> QED BY <1>2, <2>1, <2>2, <2>3 DEF TaskOK
<1>4. /\ ref \in [Objects -> Nat] /\ todo \in Programs /\ mem \subseteq Objects
      /\ freeList \in Seq(Peers) /\ IsInjective(freeList) /\ ToSet(freeList) \subseteq mem /\ work \in BOOLEAN
  BY Typed DEF IInv, Types, ListLink
<1>5. ref' \in [Objects -> Nat] /\ ref'[o] = 0 /\ \A x \in Objects : x # o => ref'[x] = ref[x]
  BY <1>1, <1>4
<1>6. ~Named("attach", o)
  BY <1>2, <1>3, NotAttaching
<1>7. o \notin ToSet(freeList)
  BY <1>3, Ended
<1>8. \A x : /\ Count(h, x, Refs(x)) = IF x = o THEN 1 ELSE 0
             /\ Count(h, x, Ends) = 0
  <2>1. \A x, ops : Count(h, x, ops) = One(k, x, ops)
    BY <1>2, CountFew
  <2> HIDE DEF h, k
  <2> QED BY <1>2, <2>1 DEF One, Refs, Ends
<1> HIDE DEF h, m, k
<1>9. ASSUME NEW n \in Seq(Task), Step(t, h, m, n), \A x : Count(n, x, Refs(x)) = 0 PROVE RefLink'
  <2> SUFFICES ASSUME NEW x \in mem PROVE ref'[x] = Others(x)' + Pending(x, Refs(x))'
    BY <1>1 DEF RefLink, Refs
  <2>1. Others(x)' = Others(x) /\ Others(x) \in Nat
    <3>1. st' = st /\ pins' = pins /\ vdevPeers' = vdevPeers
      BY <1>1 DEF lists
    <3>2. Others(x)' = Others(x)
      BY <3>1, OthersStay
    <3> QED BY <1>4, <3>2, Typed
  <2>2. ref[x] \in Nat /\ x \in Objects
    BY <1>4
  <2>3. Others(x)' = Others(x) + 0 /\ ref'[x] = ref[x] + 0 - Count(h, x, Refs(x)) + Count(n, x, Refs(x))
    BY <1>5, <1>8, <1>9, <2>1, <2>2
  <2> QED BY <1>9, <2>3, RefKeep
<1>10. CASE ~Deferred(t, o) /\ Then(t, <<T("destroy", o)>>) /\ freeList' = freeList
  <2> DEFINE d == T("destroy", o)
             n == <<d>>
  <2>1. /\ d \in Task /\ d.op = "destroy" /\ d.obj = o /\ n \in Seq(Task) /\ Len(n) = 1 /\ n[1] = d
        /\ Then(t, n)
    BY <1>10, OneTask DEF Ops
  <2>2. \A x : Count(n, x, Refs(x)) = 0 /\ Count(n, x, Ends) = IF x = o THEN 1 ELSE 0
    <3>1. \A x, ops : Count(n, x, ops) = One(d, x, ops)
      BY <2>1, CountFew
    <3> HIDE DEF d, n
    <3> QED BY <2>1, <3>1 DEF One, Refs, Ends
  <2> HIDE DEF d, n
  <2>3. Step(t, h, m, n)
    BY <1>3, <2>1
  <2>4. RefLink'
    BY <1>9, <2>1, <2>2, <2>3
  <2>5. EndLink'
    <3> SUFFICES ASSUME NEW x \in mem
                 PROVE  Pending(x, Ends)' + Cardinality(Waiting(x))' = IF ref'[x] = 0 THEN 1 ELSE 0
      BY <1>1 DEF EndLink, Ends
    <3>1. Count(n, x, Ends) + (IF ref[x] = 0 THEN 1 ELSE 0) = Count(h, x, Ends) + (IF ref'[x] = 0 THEN 1 ELSE 0)
      BY <1>4, <1>5, <1>8, <2>2
    <3>2. freeList' = freeList /\ Count(h, x, Ends) \in Nat /\ Count(n, x, Ends) \in Nat
      BY <1>10, <1>3, <2>1, HitsFinite
    <3>3. (IF x \in ToSet(freeList') THEN 1 ELSE 0) + Count(n, x, Ends) + (IF ref[x] = 0 THEN 1 ELSE 0)
           = (IF x \in ToSet(freeList) THEN 1 ELSE 0) + Count(h, x, Ends) + (IF ref'[x] = 0 THEN 1 ELSE 0)
      BY <3>1, <3>2
    <3> QED BY <1>4, <2>3, <3>2, <3>3, EndCount
  <2>6. WorkLink'
    <3>1. ~Has(h, T("sched", NULL)) /\ ~Has(h, T("pop", NULL))
      BY <1>2, <1>3 DEF Has, T
    <3>2. (Named("sched", NULL) => Named("sched", NULL)') /\ (Named("pop", NULL) => Named("pop", NULL)')
      BY <1>4, <2>3, <3>1, StepNamed
    <3> QED BY <1>1, <1>10, <3>2 DEF IInv, WorkLink
  <2>7. ASSUME NEW i \in 1..Len(n)
        PROVE  /\ n[i] = d /\ New(d) /\ d.op \notin {"init", "del"}
               /\ ~Named("attach", d.obj) /\ ShapeOK(vdevOf, t, n \o m, i) /\ TaskOK(t, d)
               /\ Delayed => (d.op = "destroy" /\ d.obj \in Peers => \A v \in Vdevs : vlock[v] # t)
    <3>1. i = 1 /\ n[i] = d
      BY <2>1
    <3>2. (n \o m)[i] = d
      BY <1>4, <2>3, <3>1, StepPlaces
    <3>3. d.obj \in ObjectsOf(d.op)
      BY <2>1 DEF ObjectsOf
    <3>4. ShapeOK(vdevOf, t, n \o m, i)
      BY <2>1, <3>2, <3>3, ShapeFree
    <3>5. TaskOK(t, d) /\ New(d)
      BY <1>3, <2>1 DEF TaskOK, New
    <3>6. Delayed => (d.op = "destroy" /\ d.obj \in Peers => \A v \in Vdevs : vlock[v] # t)
      BY <1>10, <2>1 DEF Deferred, InAtomic
    <3> QED BY <1>6, <2>1, <3>1, <3>4, <3>5, <3>6
  <2>8. \A i \in 1..Len(h) : Old(h[i])
    BY <1>2, <1>3
  <2>9. /\ freeList' \in Seq(Peers) /\ IsInjective(freeList') /\ ToSet(freeList') \subseteq mem
        /\ work' \in BOOLEAN /\ UNCHANGED <<mem, st, pins, birth, lists, vlock>>
    BY <1>1, <1>4, <1>10
  <2> QED BY <1>3, <1>5, <2>3, <2>4, <2>5, <2>6, <2>7, <2>8, <2>9, CalmStep
<1>11. CASE Deferred(t, o) /\ freeList' = Append(freeList, o) /\ Then(t, <<T("sched", NULL)>>)
  <2> DEFINE d == T("sched", NULL)
             n == <<d>>
  <2>1. /\ d \in Task /\ d.op = "sched" /\ d.obj = NULL /\ n \in Seq(Task) /\ Len(n) = 1 /\ n[1] = d
        /\ Then(t, n)
    BY <1>11, NullTask
  <2>2. \A x : Count(n, x, Refs(x)) = 0 /\ Count(n, x, Ends) = 0
    <3>1. \A x, ops : Count(n, x, ops) = One(d, x, ops)
      BY <2>1, CountFew
    <3> HIDE DEF d, n
    <3> QED BY <2>1, <3>1 DEF One, Refs, Ends
  <2> HIDE DEF d, n
  <2>3. Step(t, h, m, n)
    BY <1>3, <2>1
  <2>4. RefLink'
    BY <1>9, <2>1, <2>2, <2>3
  <2>9. /\ freeList' \in Seq(Peers) /\ IsInjective(freeList') /\ ToSet(freeList') \subseteq mem
        /\ ToSet(freeList') = ToSet(freeList) \cup {o}
        /\ work' \in BOOLEAN /\ UNCHANGED <<mem, st, pins, birth, lists, vlock>>
    <3>1. o \in Peers
      BY <1>11 DEF Deferred
    <3>2. /\ freeList' \in Seq(Peers) /\ IsInjective(freeList')
          /\ ToSet(freeList') = ToSet(freeList) \cup {o}
      BY <1>4, <1>7, <1>11, <3>1, AppendList
    <3> QED BY <1>1, <1>3, <1>4, <3>2
  <2>5. EndLink'
    <3> SUFFICES ASSUME NEW x \in mem
                 PROVE  Pending(x, Ends)' + Cardinality(Waiting(x))' = IF ref'[x] = 0 THEN 1 ELSE 0
      BY <1>1 DEF EndLink, Ends
    <3>3. (IF x \in ToSet(freeList') THEN 1 ELSE 0) + Count(n, x, Ends) + (IF ref[x] = 0 THEN 1 ELSE 0)
           = (IF x \in ToSet(freeList) THEN 1 ELSE 0) + Count(h, x, Ends) + (IF ref'[x] = 0 THEN 1 ELSE 0)
      BY <1>4, <1>5, <1>7, <1>8, <2>2, <2>9
    <3> QED BY <2>3, <2>9, <3>3, EndCount
  <2>6. WorkLink'
    <3>1. Has(n, T("sched", NULL))
      BY <2>1 DEF Has, d
    <3>2. Named("sched", NULL)'
      BY <1>4, <2>3, <3>1, StepNamed
    <3> QED BY <3>2 DEF WorkLink
  <2>7. ASSUME NEW i \in 1..Len(n)
        PROVE  /\ n[i] = d /\ New(d) /\ d.op \notin {"init", "del", "destroy"}
               /\ ~Named("attach", d.obj) /\ ShapeOK(vdevOf, t, n \o m, i) /\ TaskOK(t, d)
    <3>1. i = 1 /\ n[i] = d
      BY <2>1
    <3>2. (n \o m)[i] = d
      BY <1>4, <2>3, <3>1, StepPlaces
    <3>3. d.obj \in ObjectsOf(d.op)
      BY <2>1 DEF ObjectsOf
    <3>4. ShapeOK(vdevOf, t, n \o m, i)
      BY <2>1, <3>2, <3>3, ShapeFree
    <3>5. TaskOK(t, d) /\ New(d)
      BY <1>3, <2>1 DEF TaskOK, New
    <3> QED BY <2>1, <3>1, <3>4, <3>5, NullTask
  <2>8. \A i \in 1..Len(h) : Old(h[i])
    BY <1>2, <1>3
  <2> QED BY <1>3, <1>5, <2>3, <2>4, <2>5, <2>6, <2>7, <2>8, <2>9, CalmStep
<1> QED BY <1>1, <1>10, <1>11

\* The counts of a step that changes what threads refer to and nothing else.
LEMMA StepRefLink ==
  ASSUME IInv, NEW t, NEW h, NEW m, NEW n, Step(t, h, m, n), UNCHANGED <<st, pins, vdevPeers>>,
         \A o \in mem' : o \in mem /\ ref'[o] = ref[o] - Count(h, o, Refs(o)) + Count(n, o, Refs(o))
  PROVE  RefLink'
<1> SUFFICES ASSUME NEW o \in mem' PROVE ref'[o] = Others(o)' + Pending(o, Refs(o))'
  BY DEF RefLink, Refs
<1>1. o \in mem /\ o \in Objects /\ h \in Seq(Task) /\ n \in Seq(Task)
  BY Typed DEF Step
<1>2. ref[o] \in Nat /\ Others(o) \in Nat
  BY <1>1, Counted, Typed
<1>3. Count(h, o, Refs(o)) \in Nat /\ Count(n, o, Refs(o)) \in Nat
  BY <1>1, HitsFinite
<1>4. Others(o)' = Others(o)
  BY OthersStay
<1>5. Others(o)' = Others(o) + 0 /\ ref'[o] = ref[o] + 0 - Count(h, o, Refs(o)) + Count(n, o, Refs(o))
  BY <1>2, <1>3, <1>4
<1> QED BY <1>1, <1>5, RefKeep

LEMMA StepEndLink ==
  ASSUME IInv, NEW t, NEW h, NEW m, NEW n, Step(t, h, m, n), freeList' = freeList,
         \A o \in mem' : o \in mem /\ Count(h, o, Ends) = Count(n, o, Ends) /\ (ref'[o] = 0 <=> ref[o] = 0)
  PROVE  EndLink'
<1> SUFFICES ASSUME NEW o \in mem' PROVE Pending(o, Ends)' + Cardinality(Waiting(o))' = IF ref'[o] = 0 THEN 1 ELSE 0
  BY DEF EndLink, Ends
<1> QED BY EndKeep

LEMMA StepWorkLink ==
  ASSUME IInv, NEW t, NEW h, NEW m, NEW n, Step(t, h, m, n), UNCHANGED delay,
         \A i \in 1..Len(h) : h[i].op \notin {"sched", "pop"}
  PROVE  WorkLink'
<1>1. ~Has(h, T("sched", NULL)) /\ ~Has(h, T("pop", NULL))
  BY DEF Has, T
<1>2. todo \in Programs
  BY Typed
<1>3. (Named("sched", NULL) => Named("sched", NULL)') /\ (Named("pop", NULL) => Named("pop", NULL)')
  BY <1>1, <1>2, StepNamed
<1> QED BY <1>3 DEF IInv, WorkLink, delay

\* A program of one task.
LEMMA CountOne ==
  ASSUME NEW a \in Task
  PROVE  /\ \A o, ops : Count(<<a>>, o, ops) = One(a, o, ops) /\ Count(<<>>, o, ops) = 0
         /\ <<a>> \in Seq(Task) /\ Len(<<a>>) = 1 /\ <<a>>[1] = a
<1>1. ASSUME NEW o, NEW ops PROVE Count(<<a>>, o, ops) = One(a, o, ops) /\ Count(<<>>, o, ops) = 0
  <2>1. \A j \in Task : Count(<<j>>, o, ops) = One(j, o, ops)
    BY ZenonT(40), CountFew
  <2>2. Count(<<>>, o, ops) = 0
    BY CountFew
  <2> QED BY <2>1, <2>2, Zenon
<1> QED BY <1>1

LEMMA VdevDestroyIInv ==
  ASSUME IInv, NEW t \in Threads, NEW v \in Vdevs, VdevDestroy(t, v)
  PROVE  IInv'
<1> DEFINE k == T("destroy", v)
           d == T("free", v)
           h == <<k>>
           n == <<d>>
           m == Tail(todo[t])
<1>1. Doing(t, k) /\ Then(t, n) /\ UNCHANGED <<mem, st, ref, pins, birth, lists, vlock, delay>>
  BY DEF VdevDestroy
<1>2. v \in Objects /\ v \notin Peers
  BY Kinds
<1>3. k.op = "destroy" /\ k.obj = v /\ k \in Task /\ d.op = "free" /\ d.obj = v /\ d \in Task
  BY <1>2, OneTask DEF Ops
<1>4. h \in Seq(Task) /\ Len(h) = 1 /\ h[1] = k /\ n \in Seq(Task) /\ Len(n) = 1 /\ n[1] = d
  BY <1>3, CountOne
<1>5. \A x, ops : Count(h, x, ops) = One(k, x, ops) /\ Count(n, x, ops) = One(d, x, ops)
  BY <1>3, CountOne
<1>6. 1 \in 1..Len(todo[t]) /\ todo[t][1] = k /\ v \in mem
  <2>1. TaskOK(t, k) /\ 1 \in 1..Len(todo[t]) /\ todo[t][1] = k
    BY <1>1, DoingStep
  <2> QED BY <1>3, <2>1 DEF TaskOK
<1> HIDE DEF k, d, h, n, m
<1>7. Step(t, h, m, n)
  BY <1>1, <1>4, DoingStep DEF h, m
<1>8. \A x : Count(h, x, Refs(x)) = 0 /\ Count(n, x, Refs(x)) = 0 /\ Count(h, x, Ends) = Count(n, x, Ends)
  BY <1>3, <1>5 DEF One, Refs, Ends
<1>9. ref \in [Objects -> Nat] /\ mem \subseteq Objects /\ todo \in Programs
  BY Typed DEF IInv, Types
<1>10. st' = st /\ pins' = pins /\ vdevPeers' = vdevPeers /\ mem' = mem /\ ref' = ref /\ delay' = delay
       /\ freeList' = freeList /\ work' = work
  BY <1>1 DEF lists, delay
<1>11. RefLink'
  <2>1. \A o \in mem' : o \in mem /\ ref'[o] = ref[o] - Count(h, o, Refs(o)) + Count(n, o, Refs(o))
    BY <1>8, <1>9, <1>10
  <2> QED BY <1>7, <1>10, <2>1, StepRefLink
<1>12. EndLink'
  BY <1>7, <1>8, <1>10, StepEndLink
<1>13. WorkLink'
  BY <1>3, <1>4, <1>7, <1>10, StepWorkLink
<1>14. ASSUME NEW i \in 1..Len(n)
       PROVE  /\ n[i] = d /\ New(d) /\ ~Named("attach", d.obj)
              /\ ShapeOK(vdevOf, t, n \o m, i) /\ TaskOK(t, d)
  <2>1. n[i] = d /\ (n \o m)[i] = d
    <3>1. (n \o m)[i] = n[i]
      BY <1>7, <1>9, StepPlaces
    <3> QED BY <1>4, <3>1
  <2>2. ShapeOK(vdevOf, t, n \o m, i) /\ TaskOK(t, d) /\ New(d)
    BY <1>2, <1>3, <1>6, <2>1 DEF ShapeOK, ObjectsOf, TaskOK, New
  <2>3. ~Named("attach", v)
    BY <1>2, Attaching
  <2> QED BY <1>3, <2>1, <2>2, <2>3
<1>15. \A i \in 1..Len(h) : Old(h[i])
  BY <1>3, <1>4 DEF Old
<1>16. /\ freeList' \in Seq(Peers) /\ IsInjective(freeList') /\ ToSet(freeList') \subseteq mem
       /\ work' \in BOOLEAN /\ ref' \in [Objects -> Nat]
  BY <1>10 DEF IInv, Types, ListLink
<1> QED BY <1>1, <1>3, <1>4, <1>7, <1>11, <1>12, <1>13, <1>14, <1>15, <1>16, CalmStep

LEMMA ScheduleIInv ==
  ASSUME IInv, NEW t \in Threads, Schedule(t)
  PROVE  IInv'
<1> DEFINE k == T("sched", NULL)
           h == <<k>>
           n == <<>>
           m == Tail(todo[t])
<1>1. Doing(t, k) /\ Then(t, n) /\ work' = TRUE /\ UNCHANGED <<mem, st, ref, pins, birth, lists, vlock, freeList>>
  BY DEF Schedule
<1>3. k.op = "sched" /\ k.obj = NULL /\ k \in Task
  BY NullTask
<1>4. h \in Seq(Task) /\ Len(h) = 1 /\ h[1] = k /\ n \in Seq(Task) /\ \A i \in 1..Len(n) : FALSE
  BY <1>3, CountOne
<1>5. \A x, ops : Count(h, x, ops) = One(k, x, ops) /\ Count(n, x, ops) = 0
  BY <1>3, CountOne
<1> HIDE DEF k, h, n, m
<1>7. Step(t, h, m, n)
  BY <1>1, <1>4, DoingStep DEF h, m
<1>8. \A x : Count(h, x, Refs(x)) = 0 /\ Count(n, x, Refs(x)) = 0 /\ Count(h, x, Ends) = Count(n, x, Ends)
  BY <1>3, <1>5 DEF One, Refs, Ends
<1>9. ref \in [Objects -> Nat] /\ mem \subseteq Objects
  BY Typed DEF IInv, Types
<1>10. st' = st /\ pins' = pins /\ vdevPeers' = vdevPeers /\ mem' = mem /\ ref' = ref
  BY <1>1 DEF lists
<1>11. RefLink'
  <2>1. \A o \in mem' : o \in mem /\ ref'[o] = ref[o] - Count(h, o, Refs(o)) + Count(n, o, Refs(o))
    BY <1>8, <1>9, <1>10
  <2> QED BY <1>7, <1>10, <2>1, StepRefLink
<1>12. EndLink'
  BY <1>1, <1>7, <1>8, <1>10, StepEndLink
<1>13. WorkLink'
  BY <1>1 DEF WorkLink
<1>15. \A i \in 1..Len(h) : Old(h[i])
  BY <1>3, <1>4 DEF Old
<1>16. /\ freeList' \in Seq(Peers) /\ IsInjective(freeList') /\ ToSet(freeList') \subseteq mem
       /\ work' \in BOOLEAN /\ ref' \in [Objects -> Nat]
  BY <1>1 DEF IInv, Types, ListLink
<1> QED BY <1>1, <1>3, <1>4, <1>7, <1>11, <1>12, <1>13, <1>15, <1>16, CalmStep

LEMMA WorkStartIInv ==
  ASSUME IInv, WorkStart
  PROVE  IInv'
<1> DEFINE k == T("pop", NULL)
           h == <<>>
           n == <<k>>
           m == <<>>
           t == Worker
<1>1. /\ Idle(t) /\ todo' = [todo EXCEPT ![t] = n] /\ work' = FALSE
      /\ UNCHANGED <<mem, st, ref, pins, birth, lists, vlock, freeList>>
  BY DEF WorkStart
<1>3. k.op = "pop" /\ k.obj = NULL /\ k \in Task /\ ~Named("attach", k.obj)
  BY NullTask
<1>4. n \in Seq(Task) /\ Len(n) = 1 /\ n[1] = k /\ h \in Seq(Task) /\ \A i \in 1..Len(h) : FALSE
  BY <1>3, CountOne
<1>5. \A x, ops : Count(n, x, ops) = One(k, x, ops) /\ Count(h, x, ops) = 0
  BY <1>3, CountOne
<1>6. t \in Threads
  BY Kinds
<1>2. n \o m = n
  BY <1>4, ConcatEmptySeq
<1> HIDE DEF k, n, t
<1>7. Step(t, h, m, n)
  BY <1>1, <1>4, <1>6, IdleStep
<1> HIDE DEF h, m
<1>8. \A x : Count(h, x, Refs(x)) = 0 /\ Count(n, x, Refs(x)) = 0 /\ Count(h, x, Ends) = Count(n, x, Ends)
  BY <1>3, <1>5 DEF One, Refs, Ends
<1>9. ref \in [Objects -> Nat] /\ mem \subseteq Objects /\ todo \in Programs
  BY Typed DEF IInv, Types
<1>10. st' = st /\ pins' = pins /\ vdevPeers' = vdevPeers /\ mem' = mem /\ ref' = ref
  BY <1>1 DEF lists
<1>11. RefLink'
  <2>1. \A o \in mem' : o \in mem /\ ref'[o] = ref[o] - Count(h, o, Refs(o)) + Count(n, o, Refs(o))
    BY <1>8, <1>9, <1>10
  <2> QED BY <1>7, <1>10, <2>1, StepRefLink
<1>12. EndLink'
  BY <1>1, <1>7, <1>8, <1>10, StepEndLink
<1>13. WorkLink'
  <2>1. Has(n, T("pop", NULL))
    BY <1>4 DEF Has, k
  <2>2. Named("pop", NULL)'
    BY <1>7, <1>9, <2>1, StepNamed
  <2> QED BY <2>2 DEF WorkLink
<1>14. ASSUME NEW i \in 1..Len(n)
       PROVE  n[i] = k /\ New(k) /\ ShapeOK(vdevOf, t, n \o m, i) /\ TaskOK(t, k)
  <2>1. i = 1 /\ n[i] = k /\ (n \o m)[i] = k /\ Len(n \o m) = 1
    BY <1>2, <1>4
  <2> QED BY <1>3, <2>1 DEF ShapeOK, ObjectsOf, TaskOK, New, t
<1>16. /\ freeList' \in Seq(Peers) /\ IsInjective(freeList') /\ ToSet(freeList') \subseteq mem
       /\ work' \in BOOLEAN /\ ref' \in [Objects -> Nat]
  BY <1>1 DEF IInv, Types, ListLink
<1>17. m = <<>>
  BY DEF m
<1> QED BY <1>1, <1>3, <1>4, <1>7, <1>11, <1>12, <1>13, <1>14, <1>16, <1>17, CalmStep

LEMMA WorkPopIInv ==
  ASSUME IInv, WorkPop
  PROVE  IInv'
<1> DEFINE k == T("pop", NULL)
           t == Worker
<1>1. /\ Doing(t, k) /\ UNCHANGED <<mem, st, ref, pins, birth, lists, vlock, work>>
      /\ IF freeList = <<>>
         THEN Then(t, <<>>) /\ UNCHANGED freeList
         ELSE /\ todo' = [todo EXCEPT ![t] = <<T("destroy", Head(freeList))>> \o @]
              /\ freeList' = Tail(freeList)
  BY DEF WorkPop
<1>2. k.op = "pop" /\ k.obj = NULL /\ k \in Task /\ t \in Threads /\ t \notin Readers
  BY NullTask, Kinds
<1>3. /\ ref \in [Objects -> Nat] /\ mem \subseteq Objects /\ todo \in Programs
      /\ freeList \in Seq(Peers) /\ IsInjective(freeList) /\ ToSet(freeList) \subseteq mem /\ work \in BOOLEAN
  BY Typed DEF IInv, Types, ListLink
<1>4. st' = st /\ pins' = pins /\ vdevPeers' = vdevPeers /\ mem' = mem /\ ref' = ref /\ work' = work
  BY <1>1 DEF lists
<1> HIDE DEF k, t
<1>5. ASSUME freeList = <<>>
      PROVE  IInv'
  <2> DEFINE h == <<k>>
             n == <<>>
             m == Tail(todo[t])
  <2>1. h \in Seq(Task) /\ Len(h) = 1 /\ h[1] = k /\ n \in Seq(Task) /\ \A i \in 1..Len(n) : FALSE
    BY <1>2, CountOne
  <2>2. \A x, ops : Count(h, x, ops) = One(k, x, ops) /\ Count(n, x, ops) = 0
    BY <1>2, CountOne
  <2>3. Then(t, n) /\ freeList' = <<>>
    BY <1>1, <1>5
  <2> HIDE DEF h, n, m
  <2>4. Step(t, h, m, n)
    BY <1>1, <1>2, <2>1, <2>3, DoingStep DEF h, m
  <2>5. \A x : Count(h, x, Refs(x)) = 0 /\ Count(n, x, Refs(x)) = 0 /\ Count(h, x, Ends) = Count(n, x, Ends)
    BY <1>2, <2>2 DEF One, Refs, Ends
  <2>6. RefLink'
    <3>1. \A o \in mem' : o \in mem /\ ref'[o] = ref[o] - Count(h, o, Refs(o)) + Count(n, o, Refs(o))
      BY <1>3, <1>4, <2>5
    <3> QED BY <1>4, <2>4, <3>1, StepRefLink
  <2>7. EndLink'
    BY <1>4, <1>5, <2>3, <2>4, <2>5, StepEndLink
  <2>8. WorkLink'
    BY <2>3 DEF WorkLink
  <2>9. \A i \in 1..Len(h) : Old(h[i])
    BY <1>2, <2>1 DEF Old
  <2>10. /\ freeList' \in Seq(Peers) /\ IsInjective(freeList') /\ ToSet(freeList') \subseteq mem
         /\ work' \in BOOLEAN /\ ref' \in [Objects -> Nat]
    BY <1>3, <1>4, <1>5, <2>3
  <2> QED BY <1>1, <2>1, <2>4, <2>6, <2>7, <2>8, <2>9, <2>10, CalmStep
<1>6. ASSUME freeList # <<>>
      PROVE  IInv'
  <2> DEFINE p == Head(freeList)
             d == T("destroy", p)
             h == <<>>
             n == <<d>>
             m == todo[t]
  <2>1. /\ p \in ToSet(freeList) /\ freeList' \in Seq(Peers) /\ IsInjective(freeList')
        /\ ToSet(freeList') = ToSet(freeList) \ {p}
    <3>1. freeList' = Tail(freeList) /\ freeList \in Seq(Peers) /\ IsInjective(freeList) /\ freeList # <<>>
      BY <1>1, <1>3, <1>6
    <3> QED BY <3>1, TailList
  <2>2. p \in mem /\ p \in Peers /\ p \in Objects /\ ref[p] = 0
    <3>1. p \in Peers
      BY <1>3, <1>6, HeadTailProperties
    <3> HIDE DEF p
    <3>2. p \in mem
      BY <1>3, <2>1
    <3> QED BY <2>1, <3>1, <3>2, Ended DEF Objects
  <2>3. todo' = [todo EXCEPT ![t] = n \o @]
    BY <1>1, <1>6
  <2> HIDE DEF p
  <2>4. d \in Task /\ d.op = "destroy" /\ d.obj = p
    BY <2>2, OneTask DEF Ops
  <2>5. n \in Seq(Task) /\ Len(n) = 1 /\ n[1] = d /\ h \in Seq(Task) /\ \A i \in 1..Len(h) : FALSE
    BY <2>4, CountOne
  <2>6. \A x, ops : Count(n, x, ops) = One(d, x, ops) /\ Count(h, x, ops) = 0
    BY <2>4, CountOne
  <2>7. \A x : Count(h, x, Refs(x)) = 0 /\ Count(n, x, Refs(x)) = 0
    BY <2>4, <2>6 DEF One, Refs, d
  <2>8. \A x : Count(h, x, Ends) = 0 /\ Count(n, x, Ends) = IF x = p THEN 1 ELSE 0
    BY <2>4, <2>6 DEF One, Ends
  <2>9. Len(todo[t]) = 1 /\ 1 \in 1..Len(todo[t]) /\ todo[t][1] = k
    <3>1. ShapeOK(vdevOf, t, todo[t], 1) /\ 1 \in 1..Len(todo[t]) /\ todo[t][1] = k
      BY <1>1, <1>2, DoingStep
    <3> QED BY <1>2, <3>1 DEF ShapeOK
  <2>10. Step(t, h, m, n) /\ \A i \in 1..Len(m) : m[i] = k
    <3> HIDE DEF n
    <3> QED BY <1>1, <1>2, <2>3, <2>5, <2>9, PushStep
  <2> HIDE DEF d, h, n, m
  <2>11. RefLink'
    <3>1. \A o \in mem' : o \in mem /\ ref'[o] = ref[o] - Count(h, o, Refs(o)) + Count(n, o, Refs(o))
      BY <1>3, <1>4, <2>7
    <3> QED BY <1>4, <2>10, <3>1, StepRefLink
  <2>12. EndLink'
    <3> SUFFICES ASSUME NEW x \in mem
                 PROVE  Pending(x, Ends)' + Cardinality(Waiting(x))' = IF ref'[x] = 0 THEN 1 ELSE 0
      BY <1>4 DEF EndLink, Ends
    <3>1. (IF x \in ToSet(freeList') THEN 1 ELSE 0) + Count(n, x, Ends) + (IF ref[x] = 0 THEN 1 ELSE 0)
           = (IF x \in ToSet(freeList) THEN 1 ELSE 0) + Count(h, x, Ends) + (IF ref'[x] = 0 THEN 1 ELSE 0)
      BY <1>4, <2>1, <2>8
    <3> QED BY <2>1, <2>10, <3>1, EndCount
  <2>13. WorkLink'
    <3>1. Named("pop", NULL)
      BY <1>2, <2>9 DEF Named, k
    <3>2. ~Has(h, T("pop", NULL))
      BY <2>5 DEF Has
    <3>3. Named("pop", NULL)'
      BY <1>3, <2>10, <3>1, <3>2, StepNamed
    <3> QED BY <3>3 DEF WorkLink
  <2>14. ASSUME NEW i \in 1..Len(n)
         PROVE  n[i] = d /\ New(d) /\ ~Named("attach", p) /\ ShapeOK(vdevOf, t, n \o m, i) /\ TaskOK(t, d)
    <3>1. n[i] = d /\ (n \o m)[i] = d
      <4>1. (n \o m)[i] = n[i]
        BY <1>3, <2>10, StepPlaces
      <4> QED BY <2>5, <4>1
    <3>2. d.obj \in ObjectsOf(d.op) /\ TaskOK(t, d) /\ New(d)
      BY <2>2, <2>4 DEF ObjectsOf, TaskOK, New
    <3>3. ShapeOK(vdevOf, t, n \o m, i)
      BY <2>4, <3>1, <3>2, ShapeFree
    <3>4. ~Named("attach", p)
      BY <2>2, Attaching
    <3> QED BY <3>1, <3>2, <3>3, <3>4
  <2>15. \A v \in Vdevs : vlock[v] # t
    BY <1>2, Kinds DEF IInv, LockLink
  <2>16. /\ ToSet(freeList') \subseteq mem /\ work' \in BOOLEAN /\ ref' \in [Objects -> Nat]
    BY <1>3, <1>4, <2>1
  <2>17. h = <<>> /\ \A i \in 1..Len(m) : m[i].op \in {"rel", "pop"}
    BY <1>2, <2>10 DEF h
  <2>18. UNCHANGED <<mem, st, pins, birth, lists, vlock>>
    BY <1>1
  <2> QED BY <2>1, <2>4, <2>5, <2>10, <2>11, <2>12, <2>13, <2>14, <2>15, <2>16, <2>17, <2>18, CalmStep
<1> QED BY <1>5, <1>6

-----------------------------------------------------------------------------
(* Creations and removals that only take references *)

LEMMA VdevCreateIInv ==
  ASSUME IInv, NEW v \in Vdevs, VdevCreate(v)
  PROVE  IInv'
<1> DEFINE k == T("valloc", v)
           h == <<>>
           n == <<k>>
           m == <<>>
           t == Hdd
<1>1. /\ Idle(t) /\ v \notin mem /\ made.vdevs < MaxVdevs /\ made' = [made EXCEPT !.vdevs = @ + 1]
      /\ todo' = [todo EXCEPT ![t] = n]
      /\ UNCHANGED <<mem, st, ref, pins, role, vdevOf, lists, vlock, delay>>
  BY DEF VdevCreate
<1>2. v \in Objects /\ v \notin Peers /\ t \in Threads
  BY Kinds
<1>3. k.op = "valloc" /\ k.obj = v /\ k \in Task
  BY <1>2, OneTask DEF Ops
<1>4. n \in Seq(Task) /\ Len(n) = 1 /\ n[1] = k /\ h \in Seq(Task) /\ \A i \in 1..Len(h) : FALSE
  BY <1>3, CountOne
<1>5. \A x, ops : Count(n, x, ops) = One(k, x, ops) /\ Count(h, x, ops) = 0
  BY <1>3, CountOne
<1>6. n \o m = n
  BY <1>4, ConcatEmptySeq
<1> HIDE DEF k, n, t
<1>7. Step(t, h, m, n)
  BY <1>1, <1>2, <1>4, IdleStep
<1>8. m = <<>>
  OBVIOUS
<1> HIDE DEF h, m
<1>9. ref \in [Objects -> Nat] /\ mem \subseteq Objects
  BY Typed DEF IInv, Types
<1>10. \A o \in mem : /\ ref'[o] = ref[o] - Count(h, o, Refs(o)) + Count(n, o, Refs(o))
                      /\ ref[o] = 0 <=> ref'[o] = 0
  <2>1. \A x : Count(h, x, Refs(x)) = 0 /\ Count(n, x, Refs(x)) = 0
    BY <1>3, <1>5 DEF One, Refs
  <2> QED BY <1>1, <1>9, <2>1
<1>11. made' \in [peers : 0..MaxPeers, vdevs : 0..MaxVdevs] /\ ref' \in [Objects -> Nat]
  <2>1. made \in [peers : 0..MaxPeers, vdevs : 0..MaxVdevs] /\ MaxVdevs \in Nat
    BY ObjectsAssumption DEF ObjectsAssumption, IInv, Types
  <2>2. made.vdevs + 1 \in 0..MaxVdevs
    BY <1>1, <2>1
  <2> QED BY <1>1, <1>9, <2>1, <2>2
<1>12. ASSUME NEW i \in 1..Len(n)
       PROVE  n[i] = k /\ k.op \in RefNew /\ ~Named("attach", v) /\ ShapeOK(vdevOf, t, n \o m, i) /\ TaskOK(t, k)
  <2>1. i = 1 /\ n[i] = k /\ (n \o m)[i] = k /\ Len(n \o m) = 1
    BY <1>4, <1>6
  <2>2. ~Named("attach", v)
    BY <1>2, Attaching
  <2> QED BY <1>1, <1>3, <2>1, <2>2 DEF ShapeOK, ObjectsOf, TaskOK, RefNew, t
<1>13. \A i \in 1..Len(h) : h[i].op \in RefOld
  BY <1>4
<1>14. \A i \in 1..Len(n) : n[i].op \in RefNew /\ ~Named("attach", n[i].obj)
  BY <1>3, <1>12
<1>15. \A i \in 1..Len(n) : ShapeOK(vdevOf, t, n \o m, i) /\ TaskOK(t, n[i])
  BY <1>12
<1>16. UNCHANGED <<mem, st, pins, role, vdevOf, lists, delay, vlock>>
  BY <1>1
<1> QED BY <1>7, <1>8, <1>10, <1>11, <1>13, <1>14, <1>15, <1>16, RefStepPlain

LEMMA PeerRemoveIInv ==
  ASSUME IInv, NEW p \in Peers, PeerRemove(p)
  PROVE  IInv'
<1> DEFINE k == T("del", p)
           r == T("rel", p)
           h == <<>>
           n == <<k, r>>
           m == <<>>
           t == Mc
<1>1. /\ Idle(t) /\ p \in ToSet(psocPeers) /\ Usable(p) /\ Get(p) /\ todo' = [todo EXCEPT ![t] = n]
      /\ UNCHANGED <<mem, st, pins, birth, lists, vlock, delay>>
  BY DEF PeerRemove
<1>2. p \in Objects /\ p \in mem /\ t \in Threads
  BY <1>1, Kinds DEF IInv, ListLink
<1>3. /\ k.op = "del" /\ k.obj = p /\ k \in Task /\ r.op = "rel" /\ r.obj = p /\ r \in Task
  BY <1>2, OneTask DEF Ops
<1>4. n \in Seq(Task) /\ Len(n) = 2 /\ n[1] = k /\ n[2] = r
  BY <1>3, TwoTasks
<1>5. h \in Seq(Task) /\ \A i \in 1..Len(h) : FALSE
  BY <1>3, CountOne
<1>6. n \o m = n
  BY <1>4, ConcatEmptySeq
<1>13. m = <<>> /\ \A x, ops : Count(h, x, ops) = 0
  BY ZenonT(40), <1>3, CountOne
<1>14. ASSUME NEW x, NEW ops PROVE Count(n, x, ops) = One(k, x, ops) + One(r, x, ops)
  <2> HIDE DEF k, r
  <2> QED BY <1>3, CountTwo
<1> HIDE DEF k, r, n, t
<1>7. Step(t, h, m, n)
  BY <1>1, <1>2, <1>4, IdleStep
<1> HIDE DEF h, m
<1>9. ref \in [Objects -> Nat] /\ mem \subseteq Objects /\ ref[p] # 0
  BY <1>1, <1>2, Typed, Counted DEF IInv, Types, Usable
<1>15. ref' \in [Objects -> Nat] /\ ref'[p] = ref[p] + 1 /\ \A x \in Objects : x # p => ref'[x] = ref[x]
  BY <1>1, <1>2, <1>9 DEF Get
<1>10. \A o \in mem : /\ ref'[o] = ref[o] - Count(h, o, Refs(o)) + Count(n, o, Refs(o))
                      /\ ref[o] = 0 <=> ref'[o] = 0
  <2>1. \A x : Count(h, x, Refs(x)) = 0 /\ Count(n, x, Refs(x)) = IF x = p THEN 1 ELSE 0
    BY <1>3, <1>13, <1>14 DEF One, Refs
  <2> QED BY <1>9, <1>15, <2>1
<1>11. made' \in [peers : 0..MaxPeers, vdevs : 0..MaxVdevs]
  BY <1>1 DEF birth, IInv, Types
<1>12. ASSUME NEW i \in 1..Len(n)
       PROVE  n[i].op \in RefNew /\ ~Named("attach", n[i].obj) /\ ShapeOK(vdevOf, t, n \o m, i) /\ TaskOK(t, n[i])
  <2>2. ~Named("attach", p)
    BY <1>1, Attaching DEF Usable
  <2>4. CASE i = 1
    <3>1. n[i] = k /\ ShapeOK(vdevOf, t, n, i)
      BY <1>2, <1>3, <1>4, <2>4 DEF ShapeOK, ObjectsOf, t
    <3>2. TaskOK(t, k) /\ k.op \in RefNew
      BY <1>1, <1>2, <1>3 DEF TaskOK, RefNew, Usable
    <3> QED BY <1>3, <1>6, <2>2, <3>1, <3>2
  <2>5. CASE i = 2
    <3>1. n[i] = r /\ ShapeOK(vdevOf, t, n, i)
      BY <1>2, <1>3, <1>4, <2>5 DEF ShapeOK, ObjectsOf
    <3>2. TaskOK(t, r) /\ r.op \in RefNew
      BY <1>2, <1>3 DEF TaskOK, RefNew
    <3> QED BY <1>3, <1>6, <2>2, <3>1, <3>2
  <2> QED BY <1>4, <2>4, <2>5
<1>16. UNCHANGED <<mem, st, pins, role, vdevOf, lists, delay, vlock>>
  BY <1>1 DEF birth
<1>17. \A i \in 1..Len(h) : h[i].op \in RefOld
  BY <1>5
<1>18. \A i \in 1..Len(n) : n[i].op \in RefNew /\ ~Named("attach", n[i].obj)
  BY <1>12
<1>19. \A i \in 1..Len(n) : ShapeOK(vdevOf, t, n \o m, i) /\ TaskOK(t, n[i])
  BY <1>12
<1>20. m = <<>> /\ ref' \in [Objects -> Nat]
  BY <1>13, <1>15
<1> QED BY <1>7, <1>10, <1>11, <1>16, <1>17, <1>18, <1>19, <1>20, RefStepPlain

LEMMA PeerAllocFailIInv ==
  ASSUME IInv, NEW p \in Peers, Doing(Mc, T("alloc", p)), Then(Mc, <<>>),
         UNCHANGED <<mem, st, ref, pins, birth, lists, vlock, delay>>
  PROVE  IInv'
<1> DEFINE k == T("alloc", p)
           n == <<>>
<1>1. k.op = "alloc" /\ k \in Task /\ Mc \in Threads
  BY OneTask, Kinds DEF Ops, Objects
<1>2. n \in Seq(Task) /\ \A i \in 1..Len(n) : FALSE
  OBVIOUS
<1>3. Doing(Mc, k) /\ Then(Mc, n)
  OBVIOUS
<1>4. ref' \in [Objects -> Nat] /\ ref' = ref /\ mem \subseteq Objects
  BY Typed DEF IInv, Types
<1>5. \A x : Count(n, x, Refs(x)) = 0 /\ One(k, x, Refs(x)) = 0
  BY <1>1, CountOne DEF One, Refs
<1>6. \A o \in mem : /\ ref'[o] = ref[o] - One(k, o, Refs(o)) + Count(n, o, Refs(o))
                     /\ ref[o] = 0 <=> ref'[o] = 0
  BY <1>4, <1>5
<1>7. k.op \in RefOld
  BY <1>1 DEF RefOld
<1> HIDE DEF k, n
<1> QED BY <1>1, <1>2, <1>3, <1>4, <1>6, <1>7, MoveStep

=============================================================================
