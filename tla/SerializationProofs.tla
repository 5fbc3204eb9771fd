------------------------ MODULE SerializationProofs ------------------------
(***************************************************************************)
(* Proofs of the safety properties of Serialization, for any commands,     *)
(* vdevs and contexts, any depth of calls and any number of requests.      *)
(***************************************************************************)
EXTENDS Serialization, SequenceTheorems, FiniteSetTheorems, TLAPS

(***************************************************************************)
(* The inductive invariant.  Frames that have a command in their hands     *)
(* come in two kinds: those in its activation, and those that will release *)
(* it.  A command is in the hands of one frame of a kind at most; in the   *)
(* first it is active and protected, in the second it is on no list and    *)
(* not yet released.                                                       *)
(***************************************************************************)
Acts    == {f \in Frame : f.k \in {"start", "called"}}
Ends    == {f \in Frame : f.k \in {"release", "resume"}}
Leaving == {f \in Frame : f.k = "resume" /\ f.act}

Claimed(K, n) == \E t \in Ctx : \E i \in DOMAIN stack[t] : stack[t][i] \in K /\ stack[t][i].n = n

Once(K) ==
  \A t, u \in Ctx : \A i \in DOMAIN stack[t], j \in DOMAIN stack[u] :
    stack[t][i] \in K /\ stack[u][j] \in K /\ stack[t][i].n = stack[u][j].n
      => t = u /\ i = j

Listed == ToSet(active) \cup ToSet(pending)

ListLink ==
  /\ ToSet(active) \cap ToSet(pending) = {}
  /\ Used = 1 .. Cardinality(Used)

ActLink ==
  /\ Once(Acts)
  /\ \A n \in Entry : Claimed(Acts, n) => n \in ToSet(active) /\ "ACTIVATION" \in bits[n]

EndLink ==
  /\ Once(Ends)
  /\ \A n \in Entry : Claimed(Ends, n) => n \in Used \ Listed
  /\ \A n \in Entry : released[n] = IF n \in Used \ Listed /\ ~Claimed(Ends, n) THEN 1 ELSE 0

\* A move after a blocking command looks at all queues.
MoveLink ==
  blocking = Cmd =>
    \A t \in Ctx : \A i \in DOMAIN stack[t] :
      stack[t][i].k = "move" => stack[t][i].v = None \/ stack[t][i].blk

TimerLink == \A n \in Entry : timer[n] # "off" => n \in Used

PlaceInv == TypeOK /\ ListLink /\ ActLink /\ EndLink /\ MoveLink /\ TimerLink

(***************************************************************************)
(* A command holds its vdev, and excludes the others if it blocks, from    *)
(* its activation until its cancel callback has returned.  That blocking   *)
(* commands are alone needs that all commands block, or none.              *)
(***************************************************************************)
Held == {n \in Entry : n \in ToSet(active) \/ Claimed(Leaving, n)}

VdevLink ==
  /\ \A m, n \in Held : Vd(m) = Vd(n) => m = n
  /\ bitmap = {Vd(n) : n \in Held}

BlockLink ==
  blocking \in {Cmd, {}} =>
    /\ \A m, n \in Held : Blk(m) => m = n
    /\ blocking_cmd_active <=> \E n \in Held : Blk(n)

\* Somebody will look at the pending list.
Mover == \E t \in Ctx : \E i \in DOMAIN stack[t] : stack[t][i].k \in {"move", "after"}

StrandLink == blocking = Cmd /\ pending # <<>> /\ Held = {} => Mover

IInv == PlaceInv /\ VdevLink /\ BlockLink /\ StrandLink

-----------------------------------------------------------------------------
(* Stacks *)

Rest(t) == IF stack[t] = <<>> THEN <<>> ELSE Tail(stack[t])

\* Every step of a context puts some frames, F, in the place of its top.
Push(t, F) == stack' = [stack EXCEPT ![t] = F \o Rest(t)]

InF(F, K, n)   == \E i \in DOMAIN F : F[i] \in K /\ F[i].n = n
OnTop(t, K, n) == ~Idle(t) /\ Top(t) \in K /\ Top(t).n = n

LEMMA RestOf ==
  ASSUME stack \in [Ctx -> Seq(Frame)], NEW t \in Ctx
  PROVE  /\ Rest(t) \in Seq(Frame)
         /\ stack[t] = <<>> => Rest(t) = <<>>
         /\ stack[t] # <<>> => /\ Len(stack[t]) = Len(Rest(t)) + 1
                               /\ Rest(t) = Below(t)
                               /\ \A i \in 1 .. Len(Rest(t)) : Rest(t)[i] = stack[t][i + 1]
BY HeadTailProperties, EmptySeq DEF Rest, Below

LEMMA PushShape ==
  ASSUME stack \in [Ctx -> Seq(Frame)], NEW t \in Ctx, NEW F \in Seq(Frame), Push(t, F)
  PROVE  /\ stack' \in [Ctx -> Seq(Frame)]
         /\ \A u \in Ctx : u # t => stack'[u] = stack[u]
         /\ \A i \in DOMAIN F : i \in DOMAIN stack'[t] /\ stack'[t][i] = F[i]
         /\ \A i \in DOMAIN stack'[t] \ DOMAIN F :
              /\ i - Len(F) + 1 \in DOMAIN stack[t] \ {1}
              /\ stack'[t][i] = stack[t][i - Len(F) + 1]
         /\ \A i \in DOMAIN stack[t] \ {1} :
              /\ i + Len(F) - 1 \in DOMAIN stack'[t] \ DOMAIN F
              /\ stack'[t][i + Len(F) - 1] = stack[t][i]
<1> DEFINE r == Rest(t)
           s == stack[t]
           n == F \o r
<1>1. s \in Seq(Frame) /\ r \in Seq(Frame) /\ Len(r) \in Nat /\ Len(F) \in Nat /\ Len(s) \in Nat
  BY RestOf
<1>2. /\ n \in Seq(Frame) /\ Len(n) = Len(F) + Len(r)
      /\ \A i \in 1 .. Len(F) + Len(r) : n[i] = IF i <= Len(F) THEN F[i] ELSE r[i - Len(F)]
  BY <1>1, ConcatProperties
<1>3. stack' = [stack EXCEPT ![t] = n]
  BY DEF Push
<1>4. /\ stack'[t] = n
      /\ stack' \in [Ctx -> Seq(Frame)]
      /\ \A u \in Ctx : u # t => stack'[u] = stack[u]
  <2> HIDE DEF n
  <2> QED BY <1>2, <1>3
<1>5. DOMAIN F = 1 .. Len(F) /\ DOMAIN n = 1 .. Len(n) /\ DOMAIN s = 1 .. Len(s)
  BY <1>1, <1>2, LenProperties
<1>6. \A i \in DOMAIN F : i \in DOMAIN n /\ n[i] = F[i]
  BY <1>1, <1>2, <1>5
<1>7. /\ s = <<>> => Len(s) = 0 /\ Len(r) = 0
      /\ s # <<>> => Len(s) = Len(r) + 1 /\ \A i \in 1 .. Len(r) : r[i] = s[i + 1]
  BY RestOf, EmptySeq
<1>8. ASSUME NEW i \in DOMAIN n \ DOMAIN F
      PROVE  i - Len(F) + 1 \in DOMAIN s \ {1} /\ n[i] = s[i - Len(F) + 1]
  <2> HIDE DEF n, r, s
  <2>1. i \in Nat /\ i > Len(F) /\ i <= Len(F) + Len(r)
    BY <1>1, <1>2, <1>5
  <2>2. i - Len(F) \in 1 .. Len(r) /\ n[i] = r[i - Len(F)]
    BY <2>1, <1>1, <1>2
  <2>3. s # <<>>
    BY <2>2, <1>1, <1>7
  <2> QED BY <2>2, <2>3, <1>1, <1>5, <1>7
<1>9. ASSUME NEW i \in DOMAIN s \ {1}
      PROVE  i + Len(F) - 1 \in DOMAIN n \ DOMAIN F /\ n[i + Len(F) - 1] = s[i]
  <2> HIDE DEF n, r, s
  <2>0. i \in Nat /\ i > 1 /\ i <= Len(s)
    BY <1>1, <1>5
  <2>1. s # <<>> /\ Len(s) = Len(r) + 1
    BY <2>0, <1>1, <1>7
  <2>5. i - 1 \in 1 .. Len(r) /\ (i - 1) + 1 = i
    BY <2>0, <2>1, <1>1
  <2>2. i - 1 \in 1 .. Len(r) /\ r[i - 1] = s[i]
    BY <2>1, <2>5, <1>7
  <2>3. i + Len(F) - 1 \in 1 .. Len(F) + Len(r) /\ ~(i + Len(F) - 1 <= Len(F))
    BY <2>0, <2>1, <1>1
  <2>4. (i + Len(F) - 1) - Len(F) = i - 1
    BY <2>0, <1>1
  <2> QED BY <2>2, <2>3, <2>4, <1>1, <1>2, <1>5
<1>10. QED
  BY <1>4, <1>6, <1>8, <1>9

\* What a step does to the frames of a kind, of which no two are for one command.
LEMMA PushClaims ==
  ASSUME stack \in [Ctx -> Seq(Frame)], NEW t \in Ctx, NEW F \in Seq(Frame), Push(t, F),
         NEW K, Once(K),
         \A i, j \in DOMAIN F : F[i] \in K /\ F[j] \in K => i = j,
         \A i \in DOMAIN F : F[i] \in K /\ Claimed(K, F[i].n) => OnTop(t, K, F[i].n)
  PROVE  /\ Once(K)'
         /\ \A n : Claimed(K, n)' <=> InF(F, K, n) \/ (Claimed(K, n) /\ ~OnTop(t, K, n))
<1> DEFINE Old(i) == i - Len(F) + 1
           New(i) == i + Len(F) - 1
<1>1. /\ \A u \in Ctx : u # t => stack'[u] = stack[u]
      /\ \A i \in DOMAIN F : i \in DOMAIN stack'[t] /\ stack'[t][i] = F[i]
      /\ \A i \in DOMAIN stack'[t] \ DOMAIN F :
           Old(i) \in DOMAIN stack[t] \ {1} /\ stack'[t][i] = stack[t][Old(i)]
      /\ \A i \in DOMAIN stack[t] \ {1} :
           New(i) \in DOMAIN stack'[t] \ DOMAIN F /\ stack'[t][New(i)] = stack[t][i]
      /\ stack' \in [Ctx -> Seq(Frame)]
  BY SMTT(30), PushShape
<1>2. /\ \A u \in Ctx : DOMAIN stack[u] = 1 .. Len(stack[u]) /\ DOMAIN stack'[u] = 1 .. Len(stack'[u])
      /\ Len(F) \in Nat
      /\ \A u \in Ctx : Len(stack[u]) \in Nat /\ Len(stack'[u]) \in Nat
  BY <1>1, LenProperties
<1>3. \A i, j \in DOMAIN stack'[t] : Old(i) = Old(j) => i = j
  BY <1>2
<1>4. \A n : OnTop(t, K, n) <=> 1 \in DOMAIN stack[t] /\ stack[t][1] \in K /\ stack[t][1].n = n
  BY <1>2, EmptySeq DEF OnTop, Idle, Top
<1>5. ASSUME NEW i \in DOMAIN F, F[i] \in K,
             NEW u \in Ctx, NEW j \in DOMAIN stack'[u], stack'[u][j] \in K, stack'[u][j].n = F[i].n
      PROVE  u = t /\ i = j
  <2>1. CASE u # t
    <3>1. j \in DOMAIN stack[u] /\ stack[u][j] \in K /\ stack[u][j].n = F[i].n
      BY <2>1, <1>1, <1>5
    <3>2. OnTop(t, K, F[i].n)
      BY <3>1, <1>5 DEF Claimed
    <3> QED BY <2>1, <3>1, <3>2, <1>4 DEF Once
  <2>2. CASE u = t /\ j \notin DOMAIN F
    <3>1. Old(j) \in DOMAIN stack[t] \ {1} /\ stack[t][Old(j)] \in K /\ stack[t][Old(j)].n = F[i].n
      BY <2>2, <1>1, <1>5
    <3> HIDE DEF Old
    <3>2. OnTop(t, K, F[i].n)
      BY <3>1, <1>5 DEF Claimed
    <3> QED BY <3>1, <3>2, <1>4 DEF Once
  <2>3. CASE u = t /\ j \in DOMAIN F
    BY <2>3, <1>1, <1>5
  <2> QED BY <2>1, <2>2, <2>3
<1>6. ASSUME NEW u \in Ctx, NEW i \in DOMAIN stack'[u], u # t \/ i \notin DOMAIN F
      PROVE  \E h \in DOMAIN stack[u] :
            /\ stack[u][h] = stack'[u][i]
            /\ u = t => h = Old(i) /\ h # 1
            /\ u # t => h = i
  <2> HIDE DEF Old
  <2>1. CASE u # t
    BY <2>1, <1>1
  <2>2. CASE u = t
    BY <2>2, <1>6, <1>1
  <2> QED BY <2>1, <2>2
<1>7. Once(K)'
  <2> SUFFICES ASSUME NEW u \in Ctx, NEW w \in Ctx, NEW i \in DOMAIN stack'[u], NEW j \in DOMAIN stack'[w],
                      stack'[u][i] \in K, stack'[w][j] \in K, stack'[u][i].n = stack'[w][j].n
               PROVE  u = w /\ i = j
    BY DEF Once
  <2>1. CASE u = t /\ i \in DOMAIN F
    BY <2>1, <1>1, <1>5
  <2>2. CASE w = t /\ j \in DOMAIN F
    BY <2>2, <1>1, <1>5
  <2>3. CASE (u # t \/ i \notin DOMAIN F) /\ (w # t \/ j \notin DOMAIN F)
    <3>1. PICK g \in DOMAIN stack[u] :
          /\ stack[u][g] = stack'[u][i]
          /\ u = t => g = Old(i)
          /\ u # t => g = i
      BY <2>3, <1>6
    <3>2. PICK h \in DOMAIN stack[w] :
          /\ stack[w][h] = stack'[w][j]
          /\ w = t => h = Old(j)
          /\ w # t => h = j
      BY <2>3, <1>6
    <3>3. stack[u][g] \in K /\ stack[w][h] \in K /\ stack[u][g].n = stack[w][h].n
      BY <3>1, <3>2
    <3>4. u = w /\ g = h
      BY <3>3 DEF Once
    <3> HIDE DEF Old
    <3>5. CASE u = t
      BY <3>1, <3>2, <3>4, <3>5, <1>3
    <3>6. CASE u # t
      BY <3>1, <3>2, <3>4, <3>6
    <3> QED BY <3>5, <3>6
  <2> QED BY <2>1, <2>2, <2>3
<1>8. ASSUME NEW n PROVE Claimed(K, n)' <=> InF(F, K, n) \/ (Claimed(K, n) /\ ~OnTop(t, K, n))
  <2>1. ASSUME InF(F, K, n) PROVE Claimed(K, n)'
    BY <2>1, <1>1 DEF InF, Claimed
  <2>2. ASSUME Claimed(K, n), ~OnTop(t, K, n) PROVE Claimed(K, n)'
    <3>1. PICK u \in Ctx : \E i \in DOMAIN stack[u] : stack[u][i] \in K /\ stack[u][i].n = n
      BY <2>2 DEF Claimed
    <3>0. PICK i \in DOMAIN stack[u] : stack[u][i] \in K /\ stack[u][i].n = n
      BY <3>1
    <3>2. CASE u # t
      BY <3>0, <3>2, <1>1 DEF Claimed
    <3>3. CASE u = t
      <4>1. i \in DOMAIN stack[t] \ {1}
        BY <3>0, <3>3, <2>2, <1>4
      <4> QED BY <4>1, <3>0, <3>3, <1>1 DEF Claimed
    <3> QED BY <3>2, <3>3
  <2>3. ASSUME Claimed(K, n)', ~InF(F, K, n) PROVE Claimed(K, n) /\ ~OnTop(t, K, n)
    <3>0. PICK u \in Ctx : \E i \in DOMAIN stack'[u] : stack'[u][i] \in K /\ stack'[u][i].n = n
      BY <2>3 DEF Claimed
    <3>1. PICK i \in DOMAIN stack'[u] : stack'[u][i] \in K /\ stack'[u][i].n = n
      BY <3>0
    <3>2. u # t \/ i \notin DOMAIN F
      BY <3>1, <2>3, <1>1 DEF InF
    <3>3. PICK h \in DOMAIN stack[u] :
          /\ stack[u][h] = stack'[u][i]
          /\ u = t => h # 1
      BY <3>2, <1>6
    <3>4. stack[u][h] \in K /\ stack[u][h].n = n
      BY <3>1, <3>3
    <3>5. Claimed(K, n)
      BY <3>4 DEF Claimed
    <3>6. ~OnTop(t, K, n)
      <4> SUFFICES ASSUME OnTop(t, K, n) PROVE FALSE
        OBVIOUS
      <4>1. 1 \in DOMAIN stack[t] /\ stack[t][1] \in K /\ stack[t][1].n = n
        BY <1>4
      <4>2. u = t /\ h = 1
        BY <4>1, <3>4 DEF Once
      <4> QED BY <4>2, <3>3
    <3> QED BY <3>5, <3>6
  <2> QED BY <2>1, <2>2, <2>3
<1>9. QED
  BY <1>7, <1>8
-----------------------------------------------------------------------------
(* Lists *)

LEMMA LeastOf ==
  ASSUME NEW S \in SUBSET Nat, S # {}
  PROVE  Min(S) \in S /\ \A x \in S : Min(S) <= x
<1> DEFINE T == {0 .. x : x \in S}
<1>1. T \subseteq FiniteSubsetsOf(Nat) /\ T # {}
  <2>1. \A x \in Nat : IsFiniteSet(0 .. x) /\ 0 .. x \in SUBSET Nat
    BY FS_Interval
  <2> QED BY <2>1 DEF FiniteSubsetsOf
<1>2. PICK d \in T : \A e \in T : ~(<<e, d>> \in StrictSubsetOrdering(Nat))
  <2> HIDE DEF T
  <2> QED BY <1>1, FS_StrictSubsetOrderingWellFounded, WFMin
<1>3. PICK m \in S : d = 0 .. m
  BY <1>2
<1>4. ASSUME NEW y \in S, y < m PROVE FALSE
  <2>1. 0 .. y \in T /\ 0 .. y \in SUBSET Nat /\ 0 .. m \in SUBSET Nat
    OBVIOUS
  <2>2. m \in 0 .. m /\ m \notin 0 .. y /\ 0 .. y \subseteq 0 .. m
    BY <1>4
  <2>3. <<0 .. y, 0 .. m>> \in StrictSubsetOrdering(Nat)
    BY <2>1, <2>2 DEF StrictSubsetOrdering
  <2> QED BY <2>1, <2>3, <1>2, <1>3
<1>5. \A y \in S : m <= y
  BY <1>4
<1> QED BY <1>5 DEF Min

LEMMA GreatestOf ==
  ASSUME NEW n \in Nat, NEW S \in SUBSET (1 .. n), S # {}
  PROVE  Max(S) \in S
<1> DEFINE T == {n - x : x \in S}
<1>1. T \in SUBSET Nat /\ T # {}
  <2>1. \A x \in S : n - x \in Nat
    OBVIOUS
  <2> QED BY <2>1
<1>2. Min(T) \in T /\ \A y \in T : Min(T) <= y
  <2> HIDE DEF T
  <2> QED BY <1>1, LeastOf
<1>3. PICK m \in S : Min(T) = n - m
  BY <1>2
<1>4. \A x \in S : n - x \in T
  OBVIOUS
<1>5. \A x \in S : m >= x
  <2> TAKE x \in S
  <2>1. n - m <= n - x
    BY <1>2, <1>3, <1>4
  <2> QED BY <2>1
<1> QED BY <1>5 DEF Max

\* Where a list is first found to be so, or 0: SelectInSeq.
LEMMA FirstOf ==
  ASSUME NEW n \in Nat, NEW S \in SUBSET (1 .. n)
  PROVE  LET i == IF S # {} THEN Min(S) ELSE 0
         IN  /\ i \in 0 .. n
             /\ i = 0 <=> S = {}
             /\ i # 0 => i \in S
             /\ \A x \in S : i <= x
<1>1. CASE S = {}
  BY <1>1
<1>2. CASE S # {}
  <2>1. S \in SUBSET Nat
    OBVIOUS
  <2>2. Min(S) \in S /\ \A x \in S : Min(S) <= x
    BY <1>2, <2>1, LeastOf
  <2>3. (IF S # {} THEN Min(S) ELSE 0) = Min(S)
    BY <1>2
  <2>4. \A x \in S : x \in 0 .. n /\ x # 0
    OBVIOUS
  <2> QED BY <2>2, <2>3, <2>4, <1>2
<1> QED BY <1>1, <1>2

LEMMA InsertList ==
  ASSUME NEW list \in Seq(Entry), IsInjective(list), NEW n \in Entry, n \notin ToSet(list), NEW c
  PROVE  /\ Insert(list, n, c) \in Seq(Entry)
         /\ IsInjective(Insert(list, n, c))
         /\ ToSet(Insert(list, n, c)) = ToSet(list) \cup {n}
<1> DEFINE r == Insert(list, n, c)
<1>1. CASE c \in Urgent
  <2>1. r = <<n>> \o list
    BY <1>1 DEF Insert
  <2>2. /\ r \in Seq(Entry) /\ Len(list) \in Nat /\ Len(r) = Len(list) + 1
        /\ \A i \in 1 .. Len(list) + 1 : r[i] = IF i = 1 THEN n ELSE list[i - 1]
        /\ DOMAIN list = 1 .. Len(list) /\ DOMAIN r = 1 .. Len(list) + 1
    <3>1. <<n>> \in Seq(Entry) /\ Len(<<n>>) = 1 /\ <<n>>[1] = n
      OBVIOUS
    <3> HIDE DEF r
    <3>2. /\ r \in Seq(Entry) /\ Len(r) = 1 + Len(list)
          /\ \A i \in 1 .. 1 + Len(list) : r[i] = IF i <= 1 THEN <<n>>[i] ELSE list[i - 1]
      BY <2>1, <3>1, ConcatProperties
    <3> QED BY <3>1, <3>2, LenProperties
  <2> HIDE DEF r
  <2>5. ASSUME NEW i \in 2 .. Len(list) + 1 PROVE i - 1 \in DOMAIN list /\ r[i] = list[i - 1]
    <3>1. i \in 1 .. Len(list) + 1 /\ i # 1 /\ i - 1 \in 1 .. Len(list)
      BY <2>2
    <3> QED BY <2>2, <3>1
  <2>6. r[1] = n
    BY <2>2
  <2>3. IsInjective(r)
    <3> SUFFICES ASSUME NEW i \in 1 .. Len(list) + 1, NEW j \in 1 .. Len(list) + 1, r[i] = r[j] PROVE i = j
      BY <2>2 DEF IsInjective
    <3>1. CASE i = 1 /\ j = 1
      BY <3>1
    <3>2. CASE i # 1 /\ j # 1
      <4>1. i \in 2 .. Len(list) + 1 /\ j \in 2 .. Len(list) + 1
        BY <3>2, <2>2
      <4>2. i - 1 = j - 1
        BY <4>1, <2>5 DEF IsInjective
      <4> QED BY <4>1, <4>2, <2>2
    <3>3. CASE i # 1 /\ j = 1
      <4>1. i \in 2 .. Len(list) + 1
        BY <3>3, <2>2
      <4> QED BY <3>3, <4>1, <2>5, <2>6 DEF ToSet
    <3>4. CASE i = 1 /\ j # 1
      <4>1. j \in 2 .. Len(list) + 1
        BY <3>4, <2>2
      <4> QED BY <3>4, <4>1, <2>5, <2>6 DEF ToSet
    <3> QED BY <3>1, <3>2, <3>3, <3>4
  <2>4. ToSet(r) = ToSet(list) \cup {n}
    <3>1. ToSet(r) \subseteq ToSet(list) \cup {n}
      BY <2>2 DEF ToSet
    <3>2. \A i \in DOMAIN list : i + 1 \in DOMAIN r /\ r[i + 1] = list[i]
      BY <2>2
    <3>3. 1 \in DOMAIN r /\ r[1] = n
      BY <2>2
    <3>4. \A x \in ToSet(list) : x \in ToSet(r)
      BY <3>2 DEF ToSet
    <3>5. n \in ToSet(r)
      BY <3>3 DEF ToSet
    <3> QED BY <3>1, <3>4, <3>5
  <2> QED BY <2>2, <2>3, <2>4 DEF r
<1>2. CASE c \notin Urgent
  <2>1. r = Append(list, n)
    BY <1>2 DEF Insert
  <2>2. /\ r \in Seq(Entry) /\ Len(list) \in Nat /\ Len(r) = Len(list) + 1
        /\ \A i \in 1 .. Len(list) + 1 : r[i] = IF i = Len(list) + 1 THEN n ELSE list[i]
        /\ DOMAIN list = 1 .. Len(list) /\ DOMAIN r = 1 .. Len(list) + 1
    BY <2>1
  <2> HIDE DEF r
  <2>3. IsInjective(r)
    BY <2>2 DEF IsInjective, ToSet
  <2>4. ToSet(r) = ToSet(list) \cup {n}
    <3>1. ToSet(r) \subseteq ToSet(list) \cup {n}
      BY <2>2 DEF ToSet
    <3>2. \A i \in DOMAIN list : i \in DOMAIN r /\ r[i] = list[i]
      BY <2>2
    <3>3. Len(list) + 1 \in DOMAIN r /\ r[Len(list) + 1] = n
      BY <2>2
    <3> QED BY <3>1, <3>2, <3>3 DEF ToSet
  <2> QED BY <2>2, <2>3, <2>4 DEF r
<1> QED BY <1>1, <1>2

LEMMA WithoutList ==
  ASSUME NEW list \in Seq(Entry), IsInjective(list), NEW n \in ToSet(list)
  PROVE  /\ Without(list, n) \in Seq(Entry)
         /\ IsInjective(Without(list, n))
         /\ ToSet(Without(list, n)) = ToSet(list) \ {n}
<1> DEFINE I == {i \in 1 .. Len(list) : list[i] = n}
           p == IF I # {} THEN Min(I) ELSE 0
           a == SubSeq(list, 1, p - 1)
           b == SubSeq(list, p + 1, Len(list))
           r == a \o b
           l == Len(list)
<1>1. Without(list, n) = r
  BY DEF Without, RemoveAt, SelectInSeq
<1>2. l \in Nat /\ DOMAIN list = 1 .. l /\ \A i \in 1 .. l : list[i] \in Entry
  BY LenProperties, ElementOfSeq
<1>3. I # {}
  BY <1>2 DEF ToSet
<1>4. p \in 1 .. l /\ list[p] = n
  <2>1. I \in SUBSET Nat
    OBVIOUS
  <2>2. Min(I) \in I
    <3> HIDE DEF I
    <3> QED BY <1>3, <2>1, LeastOf
  <2> QED BY <1>3, <2>2
<1> HIDE DEF p, l
<1>5. /\ a \in Seq(Entry) /\ Len(a) = p - 1
      /\ \A i \in 1 .. p - 1 : a[i] = list[i]
  BY <1>2, <1>4, SubSeqProperties
<1>6. /\ b \in Seq(Entry) /\ Len(b) = l - p
      /\ \A i \in 1 .. l - p : b[i] = list[p + i]
  <2>1. \A i \in p + 1 .. l : list[i] \in Entry
    BY <1>2, <1>4
  <2>2. /\ b \in Seq(Entry)
        /\ Len(b) = IF p + 1 <= l THEN l - (p + 1) + 1 ELSE 0
        /\ \A i \in 1 .. l - (p + 1) + 1 : b[i] = list[(p + 1) + i - 1]
    BY <1>2, <1>4, <2>1, SubSeqProperties DEF l
  <2>3. l - (p + 1) + 1 = l - p /\ (IF p + 1 <= l THEN l - (p + 1) + 1 ELSE 0) = l - p
    BY <1>2, <1>4
  <2> HIDE DEF b
  <2>4. \A i \in 1 .. l - p : (p + 1) + i - 1 = p + i
    BY <1>2, <1>4
  <2> QED BY <2>2, <2>3, <2>4
<1> HIDE DEF a, b
<1>7. /\ r \in Seq(Entry) /\ Len(r) = l - 1
      /\ \A i \in 1 .. l - 1 : r[i] = IF i < p THEN list[i] ELSE list[i + 1]
      /\ DOMAIN r = 1 .. l - 1
  <2>1. /\ r \in Seq(Entry) /\ Len(r) = Len(a) + Len(b)
        /\ \A i \in 1 .. Len(a) + Len(b) : r[i] = IF i <= Len(a) THEN a[i] ELSE b[i - Len(a)]
    BY <1>5, <1>6, ConcatProperties
  <2>2. Len(a) + Len(b) = l - 1
    BY <1>2, <1>4, <1>5, <1>6
  <2> HIDE DEF r
  <2>3. ASSUME NEW i \in 1 .. l - 1 PROVE r[i] = IF i < p THEN list[i] ELSE list[i + 1]
    <3>1. CASE i < p
      <4>1. i \in 1 .. p - 1 /\ i <= p - 1
        BY <3>1, <1>2, <1>4
      <4>2. r[i] = a[i]
        BY <4>1, <2>1, <2>2, <1>5
      <4> QED BY <3>1, <4>1, <4>2, <1>5
    <3>2. CASE ~(i < p)
      <4>1. i - (p - 1) \in 1 .. l - p /\ p + (i - (p - 1)) = i + 1 /\ ~(i <= p - 1)
        BY <3>2, <1>2, <1>4
      <4> QED BY <3>2, <4>1, <2>1, <2>2, <1>5, <1>6
    <3> QED BY <3>1, <3>2
  <2> QED BY <2>1, <2>2, <2>3, LenProperties
<1> HIDE DEF r
<1>8. IsInjective(r)
  <2> SUFFICES ASSUME NEW i \in 1 .. l - 1, NEW j \in 1 .. l - 1, r[i] = r[j] PROVE i = j
    BY <1>7 DEF IsInjective
  <2> DEFINE o(x) == IF x < p THEN x ELSE x + 1
  <2>1. o(i) \in 1 .. l /\ o(j) \in 1 .. l /\ list[o(i)] = r[i] /\ list[o(j)] = r[j]
    BY <1>2, <1>4, <1>7
  <2>2. o(i) = o(j)
    BY <2>1, <1>2 DEF IsInjective
  <2> QED BY <2>2, <1>2, <1>4
<1>9. ToSet(r) = ToSet(list) \ {n}
  <2>1. ASSUME NEW x \in ToSet(r) PROVE x \in ToSet(list) \ {n}
    <3>1. PICK i \in 1 .. l - 1 : x = r[i]
      BY <1>7 DEF ToSet
    <3> DEFINE o == IF i < p THEN i ELSE i + 1
    <3>2. o \in 1 .. l /\ o # p /\ x = list[o]
      BY <3>1, <1>2, <1>4, <1>7
    <3> HIDE DEF o
    <3> QED BY <3>2, <1>2, <1>4 DEF ToSet, IsInjective
  <2>2. ASSUME NEW x \in ToSet(list), x # n PROVE x \in ToSet(r)
    <3>1. PICK i \in 1 .. l : x = list[i]
      BY <1>2 DEF ToSet
    <3> DEFINE o == IF i < p THEN i ELSE i - 1
    <3>2. i # p
      BY <2>2, <3>1, <1>4
    <3>3. o \in 1 .. l - 1 /\ r[o] = x
      BY <3>1, <3>2, <1>2, <1>4, <1>7
    <3> HIDE DEF o
    <3> QED BY <3>3, <1>7 DEF ToSet
  <2> QED BY <2>1, <2>2
<1> QED BY <1>1, <1>7, <1>8, <1>9

\* No list is longer than there are entries.
LEMMA ListLength ==
  ASSUME NEW list \in Seq(Entry), IsInjective(list)
  PROVE  Len(list) \in 0 .. MaxReq
<1>1. MaxReq \in Nat /\ Len(list) \in Nat /\ list \in [1 .. Len(list) -> Entry] /\ DOMAIN list = 1 .. Len(list)
  BY SerializationAssumption, LenProperties DEF SerializationAssumption
<1>2. /\ IsFiniteSet(1 .. Len(list)) /\ Cardinality(1 .. Len(list)) = Len(list)
      /\ IsFiniteSet(Entry) /\ Cardinality(Entry) = MaxReq
  <2>1. \A k \in Nat : IsFiniteSet(1 .. k) /\ Cardinality(1 .. k) = k
    <3> TAKE k \in Nat
    <3>1. IsFiniteSet(1 .. k) /\ Cardinality(1 .. k) = IF 1 > k THEN 0 ELSE k - 1 + 1
      BY FS_Interval
    <3> QED BY <3>1
  <2> QED BY <1>1, <2>1 DEF Entry
<1>3. ~(MaxReq < Len(list))
  <2> SUFFICES ASSUME MaxReq < Len(list) PROVE FALSE
    OBVIOUS
  <2>1. \E x, y \in 1 .. Len(list) : x # y /\ list[x] = list[y]
    BY <1>1, <1>2, FS_PigeonHole
  <2> QED BY <2>1, <1>1 DEF IsInjective
<1> QED BY <1>1, <1>3
-----------------------------------------------------------------------------
(* Frames *)

LEMMA NewFrames ==
  /\ \A n \in Entry : Start(n) \in Acts /\ Called(n) \in Acts /\ Release(n) \in Ends /\ Timeout(n) \in Frame
  /\ \A n \in Entry, ok \in BOOLEAN : Tested(n, ok) \in Frame
  /\ \A v \in Vdev \cup {None}, blk \in BOOLEAN : Move(v, blk) \in Frame
  /\ Scan \in Frame /\ After \in Frame
  /\ \A set \in SUBSET Cmd, one, act \in BOOLEAN : Cancel(set, one, act) \in Frame
  /\ \A set \in SUBSET Cmd, one, act \in BOOLEAN, n \in Entry, prev \in Entry \cup {None}, left \in 0 .. MaxReq :
       Resume(set, one, act, n, prev, left) \in Ends
<1>1. /\ \A n \in Entry : Start(n) \in Frame /\ Called(n) \in Frame /\ Release(n) \in Frame /\ Timeout(n) \in Frame
      /\ \A n \in Entry, ok \in BOOLEAN : Tested(n, ok) \in Frame
  BY DEF Frame, Start, Called, Release, Timeout, Tested
<1>2. \A v \in Vdev \cup {None}, blk \in BOOLEAN : Move(v, blk) \in Frame
  BY DEF Frame, Move
<1>3. Scan \in Frame /\ After \in Frame
  BY DEF Frame, Scan, After
<1>4. \A set \in SUBSET Cmd, one, act \in BOOLEAN : Cancel(set, one, act) \in Frame
  BY DEF Frame, Cancel
<1>5. \A set \in SUBSET Cmd, one, act \in BOOLEAN, n \in Entry, prev \in Entry \cup {None}, left \in 0 .. MaxReq :
        Resume(set, one, act, n, prev, left) \in Frame
  BY DEF Frame, Resume
<1> QED BY <1>1, <1>2, <1>3, <1>4, <1>5 DEF Acts, Ends, Start, Called, Release, Resume

LEMMA FrameFields ==
  ASSUME NEW f \in Frame
  PROVE  /\ f.k \in {"start", "called", "release", "timeout", "test", "resume"} => f.n \in Entry
         /\ f.k = "test" => f.ok \in BOOLEAN
         /\ f.k = "move" => f.v \in Vdev \cup {None} /\ f.blk \in BOOLEAN
         /\ f.k \in {"cancel", "resume"} => f.set \in SUBSET Cmd /\ f.one \in BOOLEAN /\ f.act \in BOOLEAN
         /\ f.k = "resume" => f.prev \in Entry \cup {None} /\ f.left \in 0 .. MaxReq
BY DEF Frame

\* A step pushes two frames at most.
LEMMA InFOf ==
  /\ \A K, n : ~InF(<<>>, K, n)
  /\ \A K, n, f : InF(<<f>>, K, n) <=> f \in K /\ f.n = n
  /\ \A K, n, f, g : InF(<<f, g>>, K, n) <=> (f \in K /\ f.n = n) \/ (g \in K /\ g.n = n)
BY DEF InF

LEMMA TopFrame ==
  ASSUME TypeOK, NEW t \in Ctx, ~Idle(t)
  PROVE  Top(t) \in Frame /\ Rest(t) = Below(t) /\ 1 \in DOMAIN stack[t]
<1>1. stack[t] \in Seq(Frame) /\ stack[t] # <<>>
  BY DEF TypeOK, Idle
<1>2. Len(stack[t]) \in Nat \ {0} /\ DOMAIN stack[t] = 1 .. Len(stack[t])
  BY <1>1, EmptySeq, LenProperties
<1> QED BY <1>1, <1>2, ElementOfSeq DEF Top, Rest, Below

\* A frame on top claims its command.
LEMMA TopClaims ==
  ASSUME TypeOK, NEW t \in Ctx, NEW K, NEW n, OnTop(t, K, n)
  PROVE  Claimed(K, n)
BY TopFrame DEF OnTop, Claimed, Top

LEMMA Gotos ==
  ASSUME TypeOK, NEW t \in Ctx
  PROVE  /\ Goto(t, Rest(t)) => Push(t, <<>>)
         /\ \A F \in Seq(Frame) : Goto(t, F \o Rest(t)) => Push(t, F)
         /\ \A F \in Seq(Frame) : Idle(t) /\ Goto(t, F) => Push(t, F)
<1>1. Rest(t) \in Seq(Frame)
  BY RestOf DEF TypeOK
<1>2. <<>> \o Rest(t) = Rest(t)
  BY <1>1, ConcatEmptySeq
<1>3. ASSUME NEW F \in Seq(Frame), Idle(t), Goto(t, F) PROVE Push(t, F)
  <2>1. Rest(t) = <<>>
    BY <1>3 DEF Idle, Rest
  <2>2. F \o <<>> = F
    BY ConcatEmptySeq
  <2> QED BY <1>3, <2>1, <2>2 DEF Goto, Push
<1> QED BY <1>2, <1>3 DEF Goto, Push
-----------------------------------------------------------------------------
(* What the steps do to the commands *)

\* Commands stay where they are, or leave a list into the hands of the frame
\* that will release them; a release on top is carried out.
LEMMA LeaveKept ==
  ASSUME PlaceInv, NEW t \in Ctx, NEW F \in Seq(Frame), Push(t, F), cmd' = cmd,
         \A i, j \in DOMAIN F : F[i] \in Ends /\ F[j] \in Ends => i = j,
         \A i, j \in DOMAIN F : F[i] \in Acts /\ F[j] \in Acts => i = j,
         \A n : InF(F, Acts, n) => OnTop(t, Acts, n),
         ToSet(active)' \subseteq ToSet(active), ToSet(pending)' \subseteq ToSet(pending),
         \A n : InF(F, Ends, n) <=> n \in Listed \ Listed',
         \A n \in ToSet(active) \ ToSet(active)' : "ACTIVATION" \notin bits[n],
         \A n \in Entry : "ACTIVATION" \in bits[n]
            => "ACTIVATION" \in bits'[n] \/ n \notin ToSet(active)'
                 \/ (OnTop(t, Acts, n) /\ ~InF(F, Acts, n)),
         released' = [n \in Entry |-> IF OnTop(t, Ends, n) THEN released[n] + 1 ELSE released[n]]
  PROVE  ListLink' /\ ActLink' /\ EndLink'
<1>1. /\ TypeOK /\ stack \in [Ctx -> Seq(Frame)] /\ Used' = Used /\ Once(Acts) /\ Once(Ends)
      /\ \A n : Claimed(Acts, n) \/ Claimed(Ends, n) => n \in Entry
  <2>1. TypeOK /\ stack \in [Ctx -> Seq(Frame)] /\ Used' = Used /\ Once(Acts) /\ Once(Ends)
    BY DEF PlaceInv, TypeOK, Used, ActLink, EndLink
  <2>2. \A f \in Acts \cup Ends : f.n \in Entry
    BY FrameFields DEF Acts, Ends
  <2> QED BY <2>1, <2>2 DEF Claimed
<1>2. ListLink'
  BY <1>1 DEF PlaceInv, ListLink
<1>3. \A n : OnTop(t, Acts, n) => Claimed(Acts, n)
  BY <1>1, TopClaims
<1>4. \A n : OnTop(t, Ends, n) => Claimed(Ends, n)
  BY <1>1, TopClaims
<1>5. ActLink'
  <2>1. \A i \in DOMAIN F : F[i] \in Acts => OnTop(t, Acts, F[i].n)
    BY DEF InF
  <2>2. /\ Once(Acts)'
        /\ \A n : Claimed(Acts, n)' <=> InF(F, Acts, n) \/ (Claimed(Acts, n) /\ ~OnTop(t, Acts, n))
    BY <1>1, <2>1, PushClaims
  <2>3. ASSUME NEW n \in Entry, Claimed(Acts, n)' PROVE n \in ToSet(active)' /\ "ACTIVATION" \in bits'[n]
    <3>1. n \in ToSet(active) /\ "ACTIVATION" \in bits[n]
      BY <2>2, <2>3, <1>3 DEF PlaceInv, ActLink
    <3> QED BY <3>1, <2>2, <2>3
  <2> QED BY <2>2, <2>3 DEF ActLink
<1>6. EndLink'
  <2>1. \A n : InF(F, Ends, n) => ~Claimed(Ends, n)
    BY <1>1 DEF PlaceInv, EndLink
  <2>2. \A i \in DOMAIN F : F[i] \in Ends /\ Claimed(Ends, F[i].n) => OnTop(t, Ends, F[i].n)
    BY <2>1 DEF InF
  <2>3. /\ Once(Ends)'
        /\ \A n : Claimed(Ends, n)' <=> InF(F, Ends, n) \/ (Claimed(Ends, n) /\ ~OnTop(t, Ends, n))
    BY <1>1, <2>2, PushClaims
  <2>4. Listed \subseteq Used /\ Listed' \subseteq Listed
    BY <1>1 DEF TypeOK, Listed
  <2>5. ASSUME NEW n \in Entry
        PROVE  /\ Claimed(Ends, n)' => n \in Used \ Listed'
               /\ released'[n] = IF n \in Used \ Listed' /\ ~Claimed(Ends, n)' THEN 1 ELSE 0
    <3>1. /\ Claimed(Ends, n) => n \in Used \ Listed
          /\ released[n] = IF n \in Used \ Listed /\ ~Claimed(Ends, n) THEN 1 ELSE 0
      BY DEF PlaceInv, EndLink
    <3>2. released'[n] = IF OnTop(t, Ends, n) THEN released[n] + 1 ELSE released[n]
      OBVIOUS
    <3>3. Claimed(Ends, n)' <=> InF(F, Ends, n) \/ (Claimed(Ends, n) /\ ~OnTop(t, Ends, n))
      BY <2>3
    <3>4. InF(F, Ends, n) <=> n \in Listed \ Listed'
      OBVIOUS
    <3> HIDE DEF Ends
    <3> QED BY <3>1, <3>2, <3>3, <3>4, <2>4, <1>4
  <2> QED BY <2>3, <2>5, <1>1 DEF EndLink
<1> QED BY <1>2, <1>5, <1>6
\* An accepted request takes the next entry.
LEMMA NewEntry ==
  ASSUME PlaceInv, NEW n \in Entry, n = Cardinality(Used) + 1, NEW c \in Cmd, cmd' = [cmd EXCEPT ![n] = c]
  PROVE  /\ n \notin Used /\ Used' = Used \cup {n}
         /\ Used' = 1 .. Cardinality(Used)' /\ Used' = 1 .. Cardinality(Used')
         /\ cmd' \in [Entry -> Cmd \cup {None}]
<1>1. cmd \in [Entry -> Cmd \cup {None}] /\ None \notin Cmd /\ MaxReq \in Nat
  BY SerializationAssumption DEF SerializationAssumption, PlaceInv, TypeOK
<1>2. IsFiniteSet(Entry) /\ Used \in SUBSET Entry
  BY <1>1, FS_Interval DEF Entry, Used
<1>3. IsFiniteSet(Used) /\ Cardinality(Used) \in Nat
  BY <1>2, FS_Subset, FS_CardinalityType
<1>4. Used = 1 .. Cardinality(Used)
  BY DEF PlaceInv, ListLink
<1>5. n \notin Used
  BY <1>3, <1>4
<1>6. cmd' \in [Entry -> Cmd \cup {None}] /\ Used' = Used \cup {n}
  BY <1>1 DEF Used
<1>7. Cardinality(Used \cup {n}) = Cardinality(Used) + 1
  BY <1>3, <1>5, FS_AddElement
<1>8. Used \cup {n} = 1 .. Cardinality(Used) + 1
  BY <1>3, <1>4
<1> QED BY <1>5, <1>6, <1>7, <1>8

\* A command enters the active list, from the pending one or at once.
LEMMA BeginKept ==
  ASSUME PlaceInv, NEW t \in Ctx, NEW F \in Seq(Frame), Push(t, F), NEW n \in Entry,
         \/ n \in ToSet(pending) /\ cmd' = cmd
         \/ n = Cardinality(Used) + 1 /\ \E c \in Cmd : cmd' = [cmd EXCEPT ![n] = c],
         \A m : InF(F, Acts, m) <=> m = n,
         \A i, j \in DOMAIN F : F[i] \in Acts /\ F[j] \in Acts => i = j,
         \A i \in DOMAIN F : F[i] \notin Ends,
         \A m : ~OnTop(t, Acts, m) /\ ~OnTop(t, Ends, m),
         ToSet(active)' = ToSet(active) \cup {n}, ToSet(pending)' = ToSet(pending) \ {n},
         "ACTIVATION" \in bits'[n],
         \A m \in Entry : "ACTIVATION" \in bits[m] => "ACTIVATION" \in bits'[m],
         released' = released
  PROVE  ListLink' /\ ActLink' /\ EndLink'
<1>1. /\ TypeOK /\ stack \in [Ctx -> Seq(Frame)] /\ Once(Acts) /\ Once(Ends)
      /\ Listed \subseteq Used /\ n \notin ToSet(active)
  <2>1. TypeOK /\ stack \in [Ctx -> Seq(Frame)] /\ Once(Acts) /\ Once(Ends) /\ Listed \subseteq Used
    BY DEF PlaceInv, TypeOK, ActLink, EndLink, Listed
  <2>2. CASE n \in ToSet(pending)
    BY <2>1, <2>2 DEF PlaceInv, ListLink
  <2>3. CASE n \notin ToSet(pending)
    BY <2>1, <2>3, NewEntry DEF Listed
  <2> QED BY <2>1, <2>2, <2>3
<1>2. /\ Used' = Used \cup {n} /\ Used' = 1 .. Cardinality(Used)'
      /\ n \in Listed \/ n \notin Used
  <2>1. CASE n \in ToSet(pending) /\ cmd' = cmd
    BY ZenonT(40), <2>1, <1>1 DEF Listed, Used, PlaceInv, ListLink
  <2>2. CASE n = Cardinality(Used) + 1 /\ \E c \in Cmd : cmd' = [cmd EXCEPT ![n] = c]
    BY <2>2, NewEntry
  <2> QED BY <2>1, <2>2
<1>3. ListLink'
  BY <1>1, <1>2 DEF PlaceInv, ListLink
<1>4. ~Claimed(Acts, n) /\ ~Claimed(Ends, n)
  BY <1>1, <1>2 DEF PlaceInv, ActLink, EndLink
<1>5. ActLink'
  <2>1. \A i \in DOMAIN F : F[i] \in Acts => F[i].n = n
    BY DEF InF
  <2>2. \A i \in DOMAIN F : F[i] \in Acts /\ Claimed(Acts, F[i].n) => OnTop(t, Acts, F[i].n)
    BY <2>1, <1>4
  <2>3. /\ Once(Acts)'
        /\ \A m : Claimed(Acts, m)' <=> InF(F, Acts, m) \/ (Claimed(Acts, m) /\ ~OnTop(t, Acts, m))
    BY <1>1, <2>2, PushClaims
  <2> QED BY <2>3 DEF ActLink, PlaceInv
<1>6. EndLink'
  <2>1. \A m : ~InF(F, Ends, m)
    BY DEF InF
  <2>3. /\ Once(Ends)'
        /\ \A m : Claimed(Ends, m)' <=> InF(F, Ends, m) \/ (Claimed(Ends, m) /\ ~OnTop(t, Ends, m))
    BY <1>1, PushClaims
  <2>4. Listed' = Listed \cup {n}
    BY DEF Listed
  <2>5. ASSUME NEW m \in Entry
        PROVE  /\ Claimed(Ends, m)' => m \in Used' \ Listed'
               /\ released'[m] = IF m \in Used' \ Listed' /\ ~Claimed(Ends, m)' THEN 1 ELSE 0
    <3>1. /\ Claimed(Ends, m) => m \in Used \ Listed
          /\ released[m] = IF m \in Used \ Listed /\ ~Claimed(Ends, m) THEN 1 ELSE 0
      BY DEF PlaceInv, EndLink
    <3>2. Claimed(Ends, m)' <=> Claimed(Ends, m)
      BY <2>1, <2>3
    <3> QED BY <3>1, <3>2, <2>4, <1>2, <1>4
  <2> QED BY <2>3, <2>5 DEF EndLink
<1> QED BY <1>3, <1>5, <1>6

\* A request goes to the pending list.
LEMMA WaitKept ==
  ASSUME PlaceInv, NEW n \in Entry, n = Cardinality(Used) + 1,
         NEW c \in Cmd, cmd' = [cmd EXCEPT ![n] = c],
         active' = active, ToSet(pending)' = ToSet(pending) \cup {n},
         UNCHANGED <<bits, released, stack>>
  PROVE  ListLink' /\ ActLink' /\ EndLink'
<1>1. /\ n \notin Used /\ Used' = Used \cup {n} /\ Used' = 1 .. Cardinality(Used)'
      /\ Listed \subseteq Used /\ ToSet(active)' = ToSet(active)
  BY NewEntry DEF PlaceInv, TypeOK, Listed
<1>2. ListLink'
  BY <1>1 DEF PlaceInv, ListLink, Listed
<1>3. \A K, m : (Once(K)' <=> Once(K)) /\ (Claimed(K, m)' <=> Claimed(K, m))
  BY DEF Once, Claimed
<1>4. ActLink'
  BY <1>1, <1>3 DEF PlaceInv, ActLink
<1>5. EndLink'
  <2>1. Listed' = Listed \cup {n} /\ ~Claimed(Ends, n)
    BY <1>1 DEF Listed, PlaceInv, EndLink
  <2>2. ASSUME NEW m \in Entry
        PROVE  /\ Claimed(Ends, m)' => m \in Used' \ Listed'
               /\ released'[m] = IF m \in Used' \ Listed' /\ ~Claimed(Ends, m)' THEN 1 ELSE 0
    <3>1. /\ Claimed(Ends, m) => m \in Used \ Listed
          /\ released[m] = IF m \in Used \ Listed /\ ~Claimed(Ends, m) THEN 1 ELSE 0
      BY DEF PlaceInv, EndLink
    <3> QED BY <3>1, <2>1, <1>1, <1>3
  <2> QED BY <2>2, <1>3 DEF PlaceInv, EndLink
<1> QED BY <1>2, <1>4, <1>5
(***************************************************************************)
(* The steps by what they do to the invariant.  In a step that is Leave,   *)
(* the commands in X do not hold their vdevs any more.                     *)
(***************************************************************************)
MovesOK(F) ==
  blocking = Cmd => \A i \in DOMAIN F : F[i].k = "move" => F[i].v = None \/ F[i].blk

Moves(F)   == \E i \in DOMAIN F : F[i].k \in {"move", "after"}
TopMoves(t) == ~Idle(t) /\ Top(t).k \in {"move", "after"}

ListsOK ==
  \A list \in {active, pending} : list \in Seq(Entry) /\ IsInjective(list)

LeavePlaces(t, F) ==
  /\ \A i, j \in DOMAIN F : F[i] \in Ends /\ F[j] \in Ends => i = j
  /\ \A i, j \in DOMAIN F : F[i] \in Acts /\ F[j] \in Acts => i = j
  /\ \A n : InF(F, Acts, n) => OnTop(t, Acts, n)
  /\ ToSet(active)' \subseteq ToSet(active) /\ ToSet(pending)' \subseteq ToSet(pending)
  /\ \A n : InF(F, Ends, n) <=> n \in Listed \ Listed'
  /\ \A n \in ToSet(active) \ ToSet(active)' : "ACTIVATION" \notin bits[n]
  /\ \A n \in Entry : "ACTIVATION" \in bits[n]
       => \/ "ACTIVATION" \in bits'[n] \/ n \notin ToSet(active)'
          \/ OnTop(t, Acts, n) /\ ~InF(F, Acts, n)
  /\ released' = [n \in Entry |-> IF OnTop(t, Ends, n) THEN released[n] + 1 ELSE released[n]]

LeaveHeld(t, F, X) ==
  /\ \A n : InF(F, Leaving, n) <=> n \in (ToSet(active) \ ToSet(active)') \ X
  /\ \A n \in X : n \in ToSet(active) \ ToSet(active)' \/ OnTop(t, Leaving, n)
  /\ \A n : OnTop(t, Leaving, n) => n \in X
  /\ \/ X = {} /\ bitmap' = bitmap /\ blocking_cmd_active' = blocking_cmd_active
     \/ \E n : /\ X = {n}
               /\ bitmap' = bitmap \ {Vd(n)}
               /\ blocking_cmd_active' = (blocking_cmd_active /\ ~Blk(n))
  /\ MovesOK(F)
  /\ blocking = Cmd /\ (X # {} \/ TopMoves(t)) =>
       Moves(F) \/ ToSet(active)' # {} \/ bitmap' # {} \/ pending' = <<>>

Leave(t, F, X) ==
  /\ F \in Seq(Frame) /\ Push(t, F)
  /\ UNCHANGED <<blocking, cmd>> /\ ListsOK'
  /\ LeavePlaces(t, F) /\ LeaveHeld(t, F, X)

Begin(t, F, n) ==
  /\ F \in Seq(Frame) /\ Push(t, F)
  /\ n \in Entry
  /\ \/ n \in ToSet(pending) /\ cmd' = cmd
     \/ n = Cardinality(Used) + 1 /\ \E c \in Cmd : cmd' = [cmd EXCEPT ![n] = c]
  /\ blocking' = blocking /\ ListsOK' /\ released' = released
  /\ F = <<Start(n)>> \/ F = <<Start(n), Scan>>
  /\ \A m : ~OnTop(t, Acts, m) /\ ~OnTop(t, Ends, m)
  /\ ToSet(active)' = ToSet(active) \cup {n} /\ ToSet(pending)' = ToSet(pending) \ {n}
  /\ "ACTIVATION" \in bits'[n]
  /\ \A m \in Entry : "ACTIVATION" \in bits[m] => "ACTIVATION" \in bits'[m]
  /\ Vd(n)' \notin bitmap /\ (blocking = Cmd => bitmap = {})
  /\ bitmap' = bitmap \cup {Vd(n)'}
  /\ blocking_cmd_active' = (blocking_cmd_active \/ Blk(n)')

Wait(n) ==
  /\ n \in Entry /\ n = Cardinality(Used) + 1
  /\ \E c \in Cmd : cmd' = [cmd EXCEPT ![n] = c]
  /\ UNCHANGED <<blocking, active, bitmap, blocking_cmd_active, bits, released, stack>>
  /\ ListsOK' /\ ToSet(pending)' = ToSet(pending) \cup {n}
  /\ blocking = Cmd => pending # <<>> \/ bitmap # {}

Still ==
  UNCHANGED <<blocking, cmd, active, pending, bitmap, blocking_cmd_active, bits, released, stack>>

StepKind ==
  \/ \E t \in Ctx : \E F, X : Leave(t, F, X)
  \/ \E t \in Ctx : \E F, n : Begin(t, F, n)
  \/ \E n : Wait(n)
  \/ Still

\* The parts of the type invariant that the kinds leave open.
AdminOK ==
  /\ bits \in [Entry -> SUBSET {"ACTIVATION", "REMOVAL", "CANCEL", "MOVEMENT"}]
  /\ bitmap \subseteq Vdev /\ queue_disable \subseteq Vdev /\ cancels \in 0 .. MaxCancel
  /\ blocking_cmd_active \in BOOLEAN
  /\ blocking_cmd_waiting \in 0 .. CounterMod - 1
  /\ timer \in [Entry -> {"off", "armed", "expired", "lost"}]

TimersOK == posted' \subseteq Used /\ \A n \in Entry : timer'[n] # "off" => n \in Used

LEMMA MovesKept ==
  ASSUME PlaceInv, NEW t \in Ctx, NEW F \in Seq(Frame), Push(t, F), blocking' = blocking, MovesOK(F)
  PROVE  MoveLink'
<1>1. stack \in [Ctx -> Seq(Frame)]
  BY DEF PlaceInv, TypeOK
<1>2. SUFFICES ASSUME blocking = Cmd, NEW u \in Ctx, NEW i \in DOMAIN stack'[u], stack'[u][i].k = "move"
               PROVE  stack'[u][i].v = None \/ stack'[u][i].blk
  BY DEF MoveLink
<1>3. CASE u = t /\ i \in DOMAIN F
  <2>1. stack'[t][i] = F[i]
    BY <1>1, <1>3, PushShape
  <2> QED BY <1>2, <1>3, <2>1 DEF MovesOK
<1>4. CASE u = t /\ i \notin DOMAIN F
  <2>1. /\ i - Len(F) + 1 \in DOMAIN stack[t]
        /\ stack'[t][i] = stack[t][i - Len(F) + 1]
    BY <1>1, <1>4, PushShape
  <2> QED BY <1>2, <1>4, <2>1 DEF PlaceInv, MoveLink
<1>5. CASE u # t
  <2>1. stack'[u] = stack[u]
    BY <1>1, <1>5, PushShape
  <2> QED BY <1>2, <2>1 DEF PlaceInv, MoveLink
<1> QED BY <1>3, <1>4, <1>5

LEMMA PlaceInvNext ==
  ASSUME PlaceInv, StepKind, AdminOK', TimersOK
  PROVE  PlaceInv'
<1>1. /\ TypeOK /\ stack \in [Ctx -> Seq(Frame)] /\ cmd \in [Entry -> Cmd \cup {None}]
      /\ Listed \subseteq Used /\ released \in [Entry -> Nat] /\ blocking \in Families
      /\ Used \subseteq Entry
  BY DEF PlaceInv, TypeOK, Listed, Used
<1>2. ASSUME blocking' = blocking, cmd' \in [Entry -> Cmd \cup {None}], Used \subseteq Used', ListsOK',
             Listed' \subseteq Used', released' \in [Entry -> Nat], stack' \in [Ctx -> Seq(Frame)]
      PROVE  TypeOK'
  BY <1>1, <1>2 DEF TypeOK, AdminOK, TimersOK, ListsOK, Listed
<1>7. Used \subseteq Used' => TimerLink'
  BY DEF TimersOK, TimerLink
<1>3. CASE \E t \in Ctx : \E F, X : Leave(t, F, X)
  <2>0. PICK t \in Ctx : \E F, X : Leave(t, F, X)
    BY <1>3
  <2>1. PICK F, X : Leave(t, F, X)
    BY <2>0
  <2>2. /\ F \in Seq(Frame) /\ Push(t, F) /\ blocking' = blocking /\ cmd' = cmd
        /\ ListsOK' /\ LeavePlaces(t, F) /\ MovesOK(F)
    BY <2>1 DEF Leave, LeaveHeld
  <2>3. ListLink' /\ ActLink' /\ EndLink'
    BY <2>2, LeaveKept DEF LeavePlaces
  <2>4. TypeOK'
    <3>1. stack' \in [Ctx -> Seq(Frame)]
      BY <1>1, <2>2, PushShape
    <3>2. released' \in [Entry -> Nat]
      BY <1>1, <2>2 DEF LeavePlaces
    <3>3. Used' = Used /\ Listed' \subseteq Used'
      BY <1>1, <2>2 DEF Used, LeavePlaces, Listed
    <3> QED BY <1>1, <1>2, <2>2, <3>1, <3>2, <3>3
  <2>5. MoveLink'
    BY <2>2, MovesKept
  <2>6. TimerLink'
    BY <2>2, <1>7 DEF Used
  <2> QED BY <2>3, <2>4, <2>5, <2>6 DEF PlaceInv
<1>4. CASE \E t \in Ctx : \E F, n : Begin(t, F, n)
  <2>0. PICK t \in Ctx : \E F, n : Begin(t, F, n)
    BY <1>4
  <2>1. PICK F, n : Begin(t, F, n)
    BY <2>0
  <2>2. /\ F \in Seq(Frame) /\ Push(t, F) /\ n \in Entry /\ blocking' = blocking
        /\ ListsOK' /\ released' = released
        /\ \/ n \in ToSet(pending) /\ cmd' = cmd
           \/ n = Cardinality(Used) + 1 /\ \E c \in Cmd : cmd' = [cmd EXCEPT ![n] = c]
        /\ ToSet(active)' = ToSet(active) \cup {n} /\ ToSet(pending)' = ToSet(pending) \ {n}
        /\ \A m : ~OnTop(t, Acts, m) /\ ~OnTop(t, Ends, m)
    BY <2>1 DEF Begin
  <2>3. Start(n) \in Acts /\ Scan \notin Acts /\ Start(n) \notin Ends /\ Scan \notin Ends
    BY <2>2, NewFrames DEF Start, Scan, Acts, Ends
  <2>4. F = <<Start(n)>> \/ F = <<Start(n), Scan>>
    BY <2>1 DEF Begin
  <2>5. /\ \A m : InF(F, Acts, m) <=> m = n
        /\ \A i, j \in DOMAIN F : F[i] \in Acts /\ F[j] \in Acts => i = j
        /\ \A i \in DOMAIN F : F[i] \notin Ends
        /\ MovesOK(F)
    <3>1. Start(n).n = n /\ Start(n).k = "start" /\ Scan.k = "scan"
      BY DEF Start, Scan
    <3>2. CASE F = <<Start(n)>>
      <4>1. DOMAIN F = {1} /\ F[1] = Start(n)
        BY <3>2
      <4> QED BY <4>1, <2>3, <3>1 DEF InF, MovesOK
    <3>3. CASE F = <<Start(n), Scan>>
      <4>1. DOMAIN F = {1, 2} /\ F[1] = Start(n) /\ F[2] = Scan
        BY <3>3
      <4> QED BY <4>1, <2>3, <3>1 DEF InF, MovesOK
    <3> QED BY <2>4, <3>2, <3>3
  <2>6. ListLink' /\ ActLink' /\ EndLink'
    <3>1. "ACTIVATION" \in bits'[n] /\ \A m \in Entry : "ACTIVATION" \in bits[m] => "ACTIVATION" \in bits'[m]
      BY <2>1 DEF Begin
    <3> QED BY <2>2, <2>5, <3>1, BeginKept
  <2>7. /\ cmd' \in [Entry -> Cmd \cup {None}] /\ Used' = Used \cup {n}
    <3>1. CASE n \in ToSet(pending) /\ cmd' = cmd
      BY <3>1, <1>1 DEF Used, Listed
    <3>2. CASE n = Cardinality(Used) + 1 /\ \E c \in Cmd : cmd' = [cmd EXCEPT ![n] = c]
      BY <3>2, <2>2, NewEntry
    <3> QED BY <2>2, <3>1, <3>2
  <2>8. TypeOK'
    <3>1. stack' \in [Ctx -> Seq(Frame)]
      BY <1>1, <2>2, PushShape
    <3>2. Listed' \subseteq Used'
      BY <1>1, <2>2, <2>7 DEF Listed
    <3> QED BY <1>1, <1>2, <2>2, <2>7, <3>1, <3>2
  <2>9. MoveLink'
    BY <2>2, <2>5, MovesKept
  <2> QED BY <2>6, <2>7, <2>8, <2>9, <1>7 DEF PlaceInv
<1>5. CASE \E n : Wait(n)
  <2>1. PICK n : Wait(n)
    BY <1>5
  <2>2. PICK c \in Cmd : cmd' = [cmd EXCEPT ![n] = c]
    BY <2>1 DEF Wait
  <2>3. /\ n \in Entry /\ n = Cardinality(Used) + 1 /\ active' = active /\ ListsOK'
        /\ ToSet(pending)' = ToSet(pending) \cup {n}
        /\ UNCHANGED <<blocking, bits, released, stack>>
    BY <2>1 DEF Wait
  <2>4. ListLink' /\ ActLink' /\ EndLink'
    BY <2>2, <2>3, WaitKept
  <2>5. cmd' \in [Entry -> Cmd \cup {None}] /\ Used' = Used \cup {n}
    BY <2>2, <2>3, NewEntry
  <2>6. Listed' \subseteq Used'
    BY <1>1, <2>3, <2>5 DEF Listed
  <2>7. TypeOK'
    BY <1>1, <1>2, <2>3, <2>5, <2>6
  <2>8. MoveLink'
    BY <2>3 DEF PlaceInv, MoveLink
  <2> QED BY <2>4, <2>5, <2>7, <2>8, <1>7 DEF PlaceInv
<1>6. CASE Still
  <2>1. UNCHANGED <<blocking, cmd, active, pending, bits, released, stack>>
    BY <1>6 DEF Still
  <2>2. Used' = Used /\ Listed' = Listed /\ ListsOK'
    BY <2>1, <1>1 DEF Used, Listed, ListsOK, TypeOK
  <2>3. TypeOK'
    BY <1>1, <1>2, <2>1, <2>2
  <2>4. ListLink'
    BY <2>1, <2>2 DEF PlaceInv, ListLink
  <2>5. \A K, m : (Once(K)' <=> Once(K)) /\ (Claimed(K, m)' <=> Claimed(K, m))
    BY <2>1 DEF Once, Claimed
  <2>6. ActLink' /\ EndLink'
    BY <2>1, <2>2, <2>5 DEF PlaceInv, ActLink, EndLink
  <2>7. MoveLink'
    BY <2>1 DEF PlaceInv, MoveLink
  <2> QED BY <2>2, <2>3, <2>4, <2>6, <2>7, <1>7 DEF PlaceInv
<1> QED BY <1>3, <1>4, <1>5, <1>6 DEF StepKind
-----------------------------------------------------------------------------
(* What the steps do to the commands that hold their vdevs *)

LEMMA LeavingClaims ==
  ASSUME PlaceInv, NEW t \in Ctx, NEW F \in Seq(Frame), Push(t, F),
         \A i, j \in DOMAIN F : F[i] \in Ends /\ F[j] \in Ends => i = j,
         \A n : InF(F, Leaving, n) => n \in Listed
  PROVE  /\ \A n : Claimed(Leaving, n)' <=> InF(F, Leaving, n) \/ (Claimed(Leaving, n) /\ ~OnTop(t, Leaving, n))
         /\ \A n : Claimed(Leaving, n) => n \in Entry /\ n \notin Listed
<1>1. stack \in [Ctx -> Seq(Frame)] /\ Once(Ends)
  BY DEF PlaceInv, TypeOK, EndLink
<1>2. Leaving \subseteq Ends
  BY DEF Leaving, Ends
<1>3. Once(Leaving)
  BY <1>1, <1>2 DEF Once
<1>4. \A n : Claimed(Leaving, n) => Claimed(Ends, n)
  BY <1>2 DEF Claimed
<1>5. \A n : Claimed(Leaving, n) => n \in Entry
  <2>1. \A f \in Leaving : f.n \in Entry
    BY FrameFields DEF Leaving
  <2> QED BY <2>1 DEF Claimed
<1>6. \A n : Claimed(Leaving, n) => n \in Entry /\ n \notin Listed
  BY <1>4, <1>5 DEF PlaceInv, EndLink
<1>7. \A i, j \in DOMAIN F : F[i] \in Leaving /\ F[j] \in Leaving => i = j
  BY <1>2
<1>8. \A i \in DOMAIN F : F[i] \in Leaving /\ Claimed(Leaving, F[i].n) => OnTop(t, Leaving, F[i].n)
  BY <1>6 DEF InF
<1> QED BY <1>1, <1>3, <1>6, <1>7, <1>8, PushClaims

LEMMA HeldLess ==
  ASSUME PlaceInv, NEW t \in Ctx, NEW F, NEW X, Leave(t, F, X)
  PROVE  Held' = Held \ X /\ X \subseteq Held
<1>1. /\ F \in Seq(Frame) /\ Push(t, F)
      /\ \A i, j \in DOMAIN F : F[i] \in Ends /\ F[j] \in Ends => i = j
      /\ ToSet(active)' \subseteq ToSet(active)
      /\ \A n : InF(F, Leaving, n) <=> n \in (ToSet(active) \ ToSet(active)') \ X
      /\ \A n \in X : n \in ToSet(active) \ ToSet(active)' \/ OnTop(t, Leaving, n)
      /\ \A n : OnTop(t, Leaving, n) => n \in X
  BY DEF Leave, LeavePlaces, LeaveHeld
<1>2. ToSet(active) \subseteq Listed /\ Listed \subseteq Entry
  BY DEF Listed, PlaceInv, TypeOK, Used
<1>3. /\ \A n : Claimed(Leaving, n)' <=> InF(F, Leaving, n) \/ (Claimed(Leaving, n) /\ ~OnTop(t, Leaving, n))
      /\ \A n : Claimed(Leaving, n) => n \in Entry /\ n \notin Listed
  BY <1>1, <1>2, LeavingClaims
<1>4. \A n : OnTop(t, Leaving, n) => Claimed(Leaving, n)
  BY TopClaims DEF PlaceInv
<1>5. \A n : n \in Held' <=> n \in Held \ X
  <2> TAKE n
  <2>1. n \in Held' <=> n \in Entry /\ (n \in ToSet(active)' \/ Claimed(Leaving, n)')
    BY DEF Held
  <2>2. n \in Held <=> n \in Entry /\ (n \in ToSet(active) \/ Claimed(Leaving, n))
    BY DEF Held
  <2>3. n \in X => n \in ToSet(active) \ ToSet(active)' \/ OnTop(t, Leaving, n)
    BY <1>1
  <2> QED BY <2>1, <2>2, <2>3, <1>1, <1>2, <1>3, <1>4
<1> QED BY <1>1, <1>2, <1>3, <1>4, <1>5 DEF Held

LEMMA HeldMore ==
  ASSUME PlaceInv, NEW t \in Ctx, NEW F, NEW n, Begin(t, F, n)
  PROVE  Held' = Held \cup {n} /\ n \notin Held /\ (\A m \in Held : cmd'[m] = cmd[m])
<1>1. /\ F \in Seq(Frame) /\ Push(t, F) /\ n \in Entry
      /\ F = <<Start(n)>> \/ F = <<Start(n), Scan>>
      /\ \A m : ~OnTop(t, Ends, m)
      /\ ToSet(active)' = ToSet(active) \cup {n}
      /\ \/ n \in ToSet(pending) /\ cmd' = cmd
         \/ n = Cardinality(Used) + 1 /\ \E c \in Cmd : cmd' = [cmd EXCEPT ![n] = c]
  BY DEF Begin
<1>2. \A i \in DOMAIN F : F[i] \notin Ends /\ F[i] \notin Leaving
  <2>1. \A f \in {Start(n), Scan} : f \notin Ends /\ f \notin Leaving
    BY DEF Start, Scan, Ends, Leaving
  <2>2. CASE F = <<Start(n)>>
    BY <2>1, <2>2
  <2>3. CASE F = <<Start(n), Scan>>
    <3>1. DOMAIN F = {1, 2} /\ F[1] = Start(n) /\ F[2] = Scan
      BY <2>3
    <3> QED BY <2>1, <3>1
  <2> QED BY <1>1, <2>2, <2>3
<1>3. \A m : ~InF(F, Leaving, m) /\ ~OnTop(t, Leaving, m)
  BY <1>1, <1>2 DEF InF, OnTop, Ends, Leaving
<1>4. /\ \A m : Claimed(Leaving, m)' <=> Claimed(Leaving, m)
      /\ \A m : Claimed(Leaving, m) => m \in Entry /\ m \notin Listed
  BY <1>1, <1>2, <1>3, LeavingClaims
<1>5. Held' = Held \cup {n}
  BY <1>1, <1>4 DEF Held
<1>6. n \notin ToSet(active)
  <2>1. CASE n \in ToSet(pending)
    BY <2>1 DEF PlaceInv, ListLink
  <2>2. CASE n = Cardinality(Used) + 1 /\ \E c \in Cmd : cmd' = [cmd EXCEPT ![n] = c]
    BY <2>2, <1>1, NewEntry DEF PlaceInv, TypeOK
  <2> QED BY <1>1, <2>1, <2>2
<1>7. ~Claimed(Leaving, n)
  <2>1. CASE n \in ToSet(pending)
    BY <2>1, <1>4 DEF Listed
  <2>2. CASE n = Cardinality(Used) + 1 /\ \E c \in Cmd : cmd' = [cmd EXCEPT ![n] = c]
    <3>1. n \notin Used
      BY <2>2, <1>1, NewEntry
    <3>2. Claimed(Leaving, n) => Claimed(Ends, n)
      BY DEF Claimed, Leaving, Ends
    <3> QED BY <3>1, <3>2, <1>1 DEF PlaceInv, EndLink
  <2> QED BY <1>1, <2>1, <2>2
<1>8. n \notin Held
  BY <1>6, <1>7 DEF Held
<1>9. \A m \in Held : cmd'[m] = cmd[m]
  BY <1>1, <1>8 DEF PlaceInv, TypeOK, Held
<1> QED BY <1>5, <1>8, <1>9

LEMMA StrandKept ==
  ASSUME PlaceInv, StrandLink, NEW t \in Ctx, NEW F \in Seq(Frame), Push(t, F), blocking' = blocking,
         TopMoves(t) /\ blocking = Cmd => Moves(F) \/ Held' # {} \/ pending' = <<>>,
         blocking = Cmd => Moves(F) \/ Held' # {} \/ pending' = <<>> \/ (pending # <<>> /\ Held = {})
  PROVE  StrandLink'
<1>1. stack \in [Ctx -> Seq(Frame)]
  BY DEF PlaceInv, TypeOK
<1>2. SUFFICES ASSUME blocking = Cmd, pending' # <<>>, Held' = {} PROVE Mover'
  BY DEF StrandLink
<1>3. CASE Moves(F)
  <2>1. \A i \in DOMAIN F : i \in DOMAIN stack'[t] /\ stack'[t][i] = F[i]
    BY <1>1, PushShape
  <2> QED BY <1>3, <2>1 DEF Moves, Mover
<1>4. CASE ~Moves(F)
  <2>1. Mover /\ ~TopMoves(t)
    BY <1>2, <1>4 DEF StrandLink
  <2>2. PICK u \in Ctx : \E i \in DOMAIN stack[u] : stack[u][i].k \in {"move", "after"}
    BY <2>1 DEF Mover
  <2>3. PICK i \in DOMAIN stack[u] : stack[u][i].k \in {"move", "after"}
    BY <2>2
  <2>4. CASE u # t
    <3>1. stack'[u] = stack[u]
      BY <1>1, <2>4, PushShape
    <3> QED BY <2>3, <3>1 DEF Mover
  <2>5. CASE u = t
    <3>1. stack[t] # <<>>
      <4>1. DOMAIN stack[t] = 1 .. Len(stack[t]) /\ Len(stack[t]) \in Nat
        BY <1>1, LenProperties
      <4> QED BY <4>1, <2>3, <2>5, EmptySeq
    <3>2. i # 1
      BY <3>1, <2>1, <2>3, <2>5 DEF TopMoves, Idle, Top
    <3>3. /\ i + Len(F) - 1 \in DOMAIN stack'[t]
          /\ stack'[t][i + Len(F) - 1] = stack[t][i]
      BY <1>1, <2>3, <2>5, <3>2, PushShape
    <3> QED BY <2>3, <2>5, <3>3 DEF Mover
  <2> QED BY <2>4, <2>5
<1> QED BY <1>3, <1>4

LEMMA HeldInvNext ==
  ASSUME IInv, StepKind, PlaceInv'
  PROVE  VdevLink' /\ BlockLink' /\ StrandLink'
<1>1. /\ PlaceInv /\ VdevLink /\ BlockLink /\ StrandLink /\ TypeOK
      /\ \A n \in Held : cmd[n] \in Cmd /\ n \in Entry
  <2>1. PlaceInv /\ VdevLink /\ BlockLink /\ StrandLink /\ TypeOK
    BY DEF IInv, PlaceInv
  <2>2. \A n : Claimed(Leaving, n) => Claimed(Ends, n)
    BY DEF Claimed, Leaving, Ends
  <2>3. Held \subseteq Used
    BY <2>1, <2>2 DEF Held, PlaceInv, TypeOK, EndLink
  <2> QED BY <2>1, <2>3 DEF Used, TypeOK
<1>2. CASE \E t \in Ctx : \E F, X : Leave(t, F, X)
  <2>0. PICK t \in Ctx : \E F, X : Leave(t, F, X)
    BY <1>2
  <2>1. PICK F, X : Leave(t, F, X)
    BY <2>0
  <2>2. Held' = Held \ X /\ X \subseteq Held
    BY <1>1, <2>1, HeldLess
  <2>3. /\ F \in Seq(Frame) /\ Push(t, F) /\ blocking' = blocking /\ cmd' = cmd
        /\ ToSet(pending)' \subseteq ToSet(pending) /\ ListsOK'
        /\ \/ X = {} /\ bitmap' = bitmap /\ blocking_cmd_active' = blocking_cmd_active
           \/ \E n : /\ X = {n}
                     /\ bitmap' = bitmap \ {Vd(n)}
                     /\ blocking_cmd_active' = (blocking_cmd_active /\ ~Blk(n))
        /\ blocking = Cmd /\ (X # {} \/ TopMoves(t)) =>
             Moves(F) \/ ToSet(active)' # {} \/ bitmap' # {} \/ pending' = <<>>
    BY <2>1 DEF Leave, LeavePlaces, LeaveHeld
  <2>4. \A n : (Vd(n)' = Vd(n)) /\ (Blk(n)' <=> Blk(n))
    BY <2>3 DEF Vd, Blk
  <2>5. VdevLink'
    <3>1. CASE X = {} /\ bitmap' = bitmap
      BY <3>1, <2>2, <2>4, <1>1 DEF VdevLink
    <3>2. CASE \E n : X = {n} /\ bitmap' = bitmap \ {Vd(n)}
      BY <3>2, <2>2, <2>4, <1>1 DEF VdevLink
    <3> QED BY <2>3, <3>1, <3>2
  <2>6. BlockLink'
    <3> SUFFICES ASSUME blocking \in {Cmd, {}}
                 PROVE  /\ \A m, n \in Held' : Blk(m) => m = n
                        /\ blocking_cmd_active' <=> \E n \in Held' : Blk(n)
      BY <2>3, <2>4 DEF BlockLink
    <3>1. CASE X = {} /\ blocking_cmd_active' = blocking_cmd_active
      BY <3>1, <2>2, <1>1 DEF BlockLink
    <3>2. CASE \E n : X = {n} /\ blocking_cmd_active' = (blocking_cmd_active /\ ~Blk(n))
      BY <3>2, <2>2, <1>1 DEF BlockLink
    <3> QED BY <2>3, <3>1, <3>2
  <2>7. StrandLink'
    <3>1. ToSet(active)' # {} \/ bitmap' # {} => Held' # {}
      <4>1. ToSet(active)' \subseteq Held'
        BY DEF Held, PlaceInv, TypeOK, Used
      <4>2. bitmap' = {Vd(n)' : n \in Held'}
        BY <2>5 DEF VdevLink
      <4> QED BY <4>1, <4>2
    <3>2. pending' # <<>> => pending # <<>>
      <4>1. pending \in Seq(Entry) /\ pending' \in Seq(Entry)
        BY <1>1, <2>3 DEF TypeOK, ListsOK
      <4>2. pending' # <<>> => ToSet(pending)' # {}
        <5>1. DOMAIN pending' = 1 .. Len(pending') /\ (pending' # <<>> => Len(pending') \in Nat \ {0})
          BY <4>1, EmptySeq, LenProperties
        <5>2. pending' # <<>> => 1 \in DOMAIN pending'
          BY <5>1
        <5> QED BY <5>2 DEF ToSet
      <4>3. pending = <<>> => ToSet(pending) = {}
        <5>1. DOMAIN pending = 1 .. Len(pending) /\ (pending = <<>> => Len(pending) = 0)
          BY <4>1, EmptySeq, LenProperties
        <5> QED BY <5>1 DEF ToSet
      <4> QED BY <4>2, <4>3, <2>3
    <3>3. blocking = Cmd /\ (X # {} \/ TopMoves(t)) => Moves(F) \/ Held' # {} \/ pending' = <<>>
      BY <2>3, <3>1
    <3>4. X = {} => Held' = Held
      BY <2>2
    <3> QED BY <1>1, <2>3, <3>2, <3>3, <3>4, StrandKept
  <2> QED BY <2>5, <2>6, <2>7
<1>3. CASE \E t \in Ctx : \E F, n : Begin(t, F, n)
  <2>0. PICK t \in Ctx : \E F, n : Begin(t, F, n)
    BY <1>3
  <2>1. PICK F, n : Begin(t, F, n)
    BY <2>0
  <2>2. Held' = Held \cup {n} /\ n \notin Held /\ (\A m \in Held : cmd'[m] = cmd[m])
    BY <1>1, <2>1, HeldMore
  <2>3. /\ F \in Seq(Frame) /\ Push(t, F) /\ blocking' = blocking
        /\ Vd(n)' \notin bitmap /\ (blocking = Cmd => bitmap = {})
        /\ bitmap' = bitmap \cup {Vd(n)'}
        /\ blocking_cmd_active' = (blocking_cmd_active \/ Blk(n)')
    BY <2>1 DEF Begin
  <2>4. \A m \in Held : (Vd(m)' = Vd(m)) /\ (Blk(m)' <=> Blk(m))
    BY <2>2, <2>3 DEF Vd, Blk
  <2>5. VdevLink'
    BY <1>1, <2>2, <2>3, <2>4 DEF VdevLink
  <2>6. BlockLink'
    <3> SUFFICES ASSUME blocking \in {Cmd, {}}
                 PROVE  /\ \A m, l \in Held' : Blk(m)' => m = l
                        /\ blocking_cmd_active' <=> \E m \in Held' : Blk(m)'
      BY <2>3 DEF BlockLink
    <3>1. CASE blocking = Cmd
      <4>1. Held = {}
        BY <3>1, <2>3, <1>1 DEF VdevLink
      <4> QED BY <4>1, <2>2, <2>3, <1>1 DEF BlockLink
    <3>2. CASE blocking = {}
      <4>1. \A m : ~Blk(m)' /\ ~Blk(m)
        BY <3>2, <2>3 DEF Blk
      <4> QED BY <4>1, <2>3, <1>1 DEF BlockLink
    <3> QED BY <3>1, <3>2
  <2>7. StrandLink'
    BY <2>2 DEF StrandLink
  <2> QED BY <2>5, <2>6, <2>7
<1>4. CASE \E n : Wait(n)
  <2>1. PICK n : Wait(n)
    BY <1>4
  <2>2. /\ UNCHANGED <<blocking, active, bitmap, blocking_cmd_active, stack>>
        /\ blocking = Cmd => pending # <<>> \/ bitmap # {}
        /\ \A m \in Used : cmd'[m] = cmd[m]
    <3>1. n \in Entry /\ n = Cardinality(Used) + 1 /\ \E c \in Cmd : cmd' = [cmd EXCEPT ![n] = c]
      BY <2>1 DEF Wait
    <3>2. n \notin Used
      BY <3>1, <1>1, NewEntry
    <3>3. \A m \in Used : cmd'[m] = cmd[m]
      BY <3>1, <3>2, <1>1 DEF TypeOK, Used
    <3> QED BY <3>3, <2>1 DEF Wait
  <2>3. Held' = Held
    BY <2>2 DEF Held, Claimed
  <2>4. \A m \in Held : (Vd(m)' = Vd(m)) /\ (Blk(m)' <=> Blk(m))
    <3>1. Held \subseteq Used
      BY <1>1, SerializationAssumption DEF Used, SerializationAssumption
    <3> QED BY <3>1, <2>2 DEF Vd, Blk
  <2>5. VdevLink'
    BY <1>1, <2>2, <2>3, <2>4 DEF VdevLink
  <2>6. BlockLink'
    BY <1>1, <2>2, <2>3, <2>4 DEF BlockLink
  <2>7. StrandLink'
    BY <1>1, <2>2, <2>3 DEF StrandLink, VdevLink, Mover
  <2> QED BY <2>5, <2>6, <2>7
<1>5. CASE Still
  <2>1. UNCHANGED <<blocking, cmd, active, pending, bitmap, blocking_cmd_active, stack>>
    BY <1>5 DEF Still
  <2>2. Held' = Held
    BY <2>1 DEF Held, Claimed
  <2>3. \A m : (Vd(m)' = Vd(m)) /\ (Blk(m)' <=> Blk(m))
    BY <2>1 DEF Vd, Blk
  <2>4. VdevLink' /\ BlockLink'
    BY <1>1, <2>1, <2>2, <2>3 DEF VdevLink, BlockLink
  <2>5. StrandLink'
    BY <1>1, <2>1, <2>2 DEF StrandLink, Mover
  <2> QED BY <2>4, <2>5
<1> QED BY <1>2, <1>3, <1>4, <1>5 DEF StepKind
-----------------------------------------------------------------------------
(* The actions, each a step of one of the kinds *)

Sound == StepKind /\ AdminOK' /\ TimersOK

LEMMA TopKinds ==
  ASSUME NEW t \in Ctx
  PROVE  /\ \A n : OnTop(t, Ends, n) => Top(t).k \in {"release", "resume"}
         /\ \A n : OnTop(t, Leaving, n) => Top(t).k = "resume" /\ Top(t).act
         /\ \A n : OnTop(t, Acts, n) => Top(t).k \in {"start", "called"}
         /\ Idle(t) => ~TopMoves(t) /\ \A K, n : ~OnTop(t, K, n)
BY DEF OnTop, Ends, Leaving, Acts, TopMoves

LEMMA Pushed ==
  /\ <<>> \in Seq(Frame)
  /\ \A f \in Frame : <<f>> \in Seq(Frame)
  /\ \A f, g \in Frame : <<f, g>> \in Seq(Frame)
  /\ DOMAIN <<>> = {} /\ \A f, g : DOMAIN <<f>> = {1} /\ DOMAIN <<f, g>> = {1, 2}
OBVIOUS

\* No command moves.
LEMMA QuietStep ==
  ASSUME PlaceInv, NEW t \in Ctx, NEW F \in Seq(Frame), Push(t, F),
         UNCHANGED <<blocking, cmd, active, pending, bitmap, blocking_cmd_active, released>>,
         \A i \in DOMAIN F : F[i] \notin Ends,
         \A i, j \in DOMAIN F : F[i] \in Acts /\ F[j] \in Acts => i = j,
         \A n : InF(F, Acts, n) => OnTop(t, Acts, n),
         \A n : ~OnTop(t, Ends, n),
         \A n \in Entry : "ACTIVATION" \in bits[n]
           => "ACTIVATION" \in bits'[n] \/ (OnTop(t, Acts, n) /\ ~InF(F, Acts, n)),
         MovesOK(F),
         blocking = Cmd /\ TopMoves(t) => Moves(F) \/ ToSet(active) # {} \/ bitmap # {} \/ pending = <<>>
  PROVE  StepKind
<1>1. released' = [n \in Entry |-> IF OnTop(t, Ends, n) THEN released[n] + 1 ELSE released[n]]
  <2>1. released \in [Entry -> Nat] /\ released' = released /\ \A n : ~OnTop(t, Ends, n)
    BY DEF PlaceInv, TypeOK
  <2> QED BY <2>1
<1>2. /\ ToSet(active)' = ToSet(active) /\ ToSet(pending)' = ToSet(pending) /\ Listed' = Listed
      /\ ListsOK'
  BY DEF Listed, ListsOK, PlaceInv, TypeOK
<1>3. \A n : ~InF(F, Ends, n) /\ ~InF(F, Leaving, n) /\ ~OnTop(t, Leaving, n)
  BY DEF InF, OnTop, Ends, Leaving
<1>4. LeavePlaces(t, F)
  BY <1>1, <1>2, <1>3 DEF LeavePlaces
<1>5. LeaveHeld(t, F, {})
  BY <1>2, <1>3 DEF LeaveHeld
<1>6. Leave(t, F, {})
  BY <1>2, <1>4, <1>5 DEF Leave
<1> QED BY <1>6 DEF StepKind

\* In particular where one frame without a command takes the place of the top, or none.
LEMMA QuietFrame ==
  ASSUME PlaceInv, NEW t \in Ctx, NEW F \in Seq(Frame), Push(t, F),
         UNCHANGED <<blocking, cmd, active, pending, bitmap, blocking_cmd_active, released>>,
         \A i \in DOMAIN F : F[i].k \notin {"start", "called", "release", "resume", "move"},
         \A n : ~OnTop(t, Ends, n), ~TopMoves(t),
         \A n \in Entry : "ACTIVATION" \in bits[n] => "ACTIVATION" \in bits'[n] \/ OnTop(t, Acts, n)
  PROVE  StepKind
<1>1. /\ \A i \in DOMAIN F : F[i] \notin Ends /\ F[i] \notin Acts
      /\ MovesOK(F)
  BY DEF Ends, Acts, MovesOK
<1>2. \A n : ~InF(F, Acts, n)
  BY <1>1 DEF InF
<1> QED BY <1>1, <1>2, QuietStep

LEMMA StartSound ==
  ASSUME PlaceInv, NEW t \in Ctx, find_and_start_timer(t)
  PROVE  Sound
<1>1. /\ ~Idle(t) /\ Top(t).k = "start" /\ TypeOK
      /\ timer' = [timer EXCEPT ![Top(t).n] = "armed"]
      /\ Goto(t, <<Called(Top(t).n)>> \o Below(t))
      /\ UNCHANGED <<blocking, cmd, listVars, bits, adminVars, posted, released>>
  BY DEF find_and_start_timer, At, Idle, PlaceInv
<1> DEFINE n == Top(t).n
           F == <<Called(n)>>
<1>2. Top(t) \in Frame /\ Rest(t) = Below(t) /\ n \in Entry
  BY <1>1, TopFrame, FrameFields
<1>3. Called(n) \in Acts /\ Called(n) \in Frame /\ Called(n).n = n /\ Called(n).k = "called"
  BY <1>2, NewFrames DEF Acts, Called
<1>4. F \in Seq(Frame) /\ Push(t, F)
  BY <1>1, <1>2, <1>3, Pushed, Gotos
<1>5. /\ \A m : OnTop(t, Acts, m) <=> m = n
      /\ \A m : ~OnTop(t, Ends, m)
      /\ ~TopMoves(t)
  BY <1>1, <1>2 DEF OnTop, Acts, Ends, TopMoves
<1>6. /\ \A m : InF(F, Acts, m) <=> m = n
      /\ \A i \in DOMAIN F : F[i] \notin Ends
      /\ \A i, j \in DOMAIN F : i = j
      /\ MovesOK(F)
  <2>1. DOMAIN F = {1} /\ F[1] = Called(n)
    OBVIOUS
  <2> HIDE DEF F
  <2> QED BY <2>1, <1>3 DEF InF, Ends, MovesOK
<1> HIDE DEF F
<1>7. StepKind
  BY <1>1, <1>4, <1>5, <1>6, QuietStep DEF listVars
<1>9. n \in Used
  BY <1>5, TopClaims, <1>1, <1>2 DEF PlaceInv, ActLink, TypeOK
<1>8. AdminOK' /\ TimersOK
  BY <1>1, <1>2, <1>9 DEF AdminOK, TimersOK, PlaceInv, TimerLink, TypeOK, listVars, adminVars
<1> QED BY <1>7, <1>8 DEF Sound

LEMMA TestedSound ==
  ASSUME PlaceInv, NEW t \in Ctx, start_timer_failed(t) \/ activate_cb(t)
  PROVE  Sound
<1>1. /\ ~Idle(t) /\ Top(t).k \in {"start", "called"} /\ TypeOK
      /\ bits' = [bits EXCEPT ![Top(t).n] = @ \ {"ACTIVATION"}]
      /\ \E ok \in BOOLEAN : Goto(t, <<Tested(Top(t).n, ok)>> \o Below(t))
      /\ UNCHANGED <<blocking, cmd, listVars, adminVars, timerVars, released>>
  BY DEF start_timer_failed, activate_cb, Activated, At, Idle, PlaceInv
<1> DEFINE n == Top(t).n
<1>0. PICK ok \in BOOLEAN : Goto(t, <<Tested(n, ok)>> \o Below(t))
  BY <1>1
<1> DEFINE F == <<Tested(n, ok)>>
<1>2. Top(t) \in Frame /\ Rest(t) = Below(t) /\ n \in Entry
  BY <1>1, TopFrame, FrameFields
<1>3. Tested(n, ok) \in Frame /\ Tested(n, ok).k = "test"
  BY <1>2, NewFrames DEF Tested
<1>4. F \in Seq(Frame) /\ Push(t, F)
  <2>1. F \in Seq(Frame)
    BY <1>3, Pushed
  <2>2. Goto(t, F \o Rest(t))
    BY <1>0, <1>2
  <2> HIDE DEF F
  <2> QED BY <2>1, <2>2, <1>1, Gotos
<1>5. /\ OnTop(t, Acts, n)
      /\ \A m : ~OnTop(t, Ends, m)
      /\ ~TopMoves(t)
  BY <1>1, <1>2 DEF OnTop, Acts, Ends, TopMoves
<1>6. \A i \in DOMAIN F : F[i].k = "test"
  BY <1>3
<1>7. bits \in [Entry -> SUBSET {"ACTIVATION", "REMOVAL", "CANCEL", "MOVEMENT"}]
  BY <1>1 DEF TypeOK
<1>8. \A m \in Entry : "ACTIVATION" \in bits[m] => "ACTIVATION" \in bits'[m] \/ OnTop(t, Acts, m)
  BY <1>1, <1>2, <1>5, <1>7
<1> HIDE DEF F
<1>9. StepKind
  BY <1>1, <1>4, <1>5, <1>6, <1>8, QuietFrame DEF listVars
<1>10. AdminOK' /\ TimersOK
  BY <1>1, <1>2 DEF AdminOK, TimersOK, PlaceInv, TimerLink, TypeOK, listVars, adminVars, timerVars
<1> QED BY <1>9, <1>10 DEF Sound
LEMMA ReleaseSound ==
  ASSUME PlaceInv, NEW t \in Ctx, release_mem(t)
  PROVE  Sound
<1>1. /\ ~Idle(t) /\ Top(t).k = "release" /\ TypeOK
      /\ released' = [released EXCEPT ![Top(t).n] = @ + 1]
      /\ Goto(t, Below(t))
      /\ UNCHANGED <<blocking, cmd, listVars, bits, adminVars, timerVars>>
  BY DEF release_mem, At, Idle, PlaceInv
<1> DEFINE n == Top(t).n
<1>2. Top(t) \in Frame /\ Rest(t) = Below(t) /\ n \in Entry
  BY <1>1, TopFrame, FrameFields
<1>3. <<>> \in Seq(Frame) /\ Push(t, <<>>)
  BY <1>1, <1>2, Pushed, Gotos
<1>4. /\ \A m : OnTop(t, Ends, m) <=> m = n
      /\ \A m : ~OnTop(t, Acts, m) /\ ~OnTop(t, Leaving, m)
      /\ ~TopMoves(t)
  BY <1>1, <1>2 DEF OnTop, Acts, Ends, Leaving, TopMoves
<1>5. released' = [m \in Entry |-> IF OnTop(t, Ends, m) THEN released[m] + 1 ELSE released[m]]
  <2>1. released \in [Entry -> Nat]
    BY <1>1 DEF TypeOK
  <2> QED BY <1>1, <1>2, <1>4, <2>1
<1>6. /\ active' = active /\ pending' = pending /\ bits' = bits
      /\ ToSet(active)' = ToSet(active) /\ ToSet(pending)' = ToSet(pending) /\ Listed' = Listed
      /\ ListsOK'
  BY <1>1 DEF listVars, Listed, ListsOK, TypeOK
<1>7. \A K, m : ~InF(<<>>, K, m)
  BY InFOf
<1>8. LeavePlaces(t, <<>>)
  BY <1>5, <1>6, <1>7, Pushed DEF LeavePlaces
<1>9. LeaveHeld(t, <<>>, {})
  BY <1>1, <1>4, <1>6, <1>7, Pushed DEF LeaveHeld, MovesOK, listVars
<1>10. Leave(t, <<>>, {})
  BY <1>1, <1>3, <1>6, <1>8, <1>9 DEF Leave
<1>11. AdminOK' /\ TimersOK
  BY <1>1 DEF AdminOK, TimersOK, PlaceInv, TimerLink, TypeOK, listVars, adminVars, timerVars
<1> QED BY <1>10, <1>11 DEF Sound, StepKind

\* wlan_serialization_dequeue_cmd, from wherever it is called.
LEMMA DequeueSound ==
  ASSUME PlaceInv, NEW t \in Ctx, NEW c, dequeue_cmd(t, c, Rest(t)), released' = released,
         \A n : \A K \in {Acts, Ends} : ~OnTop(t, K, n), ~TopMoves(t)
  PROVE  Sound
<1>1. /\ TypeOK
      /\ bits \in [Entry -> SUBSET {"ACTIVATION", "REMOVAL", "CANCEL", "MOVEMENT"}]
      /\ timer \in [Entry -> {"off", "armed", "expired", "lost"}]
      /\ UNCHANGED <<blocking, cmd, pending, blocking_cmd_waiting, adminVars, posted, released>>
      /\ active \in Seq(Entry) /\ IsInjective(active) /\ ToSet(active) \subseteq Used
      /\ pending \in Seq(Entry) /\ IsInjective(pending)
  BY DEF dequeue_cmd, PlaceInv, TypeOK
<1>2. CASE /\ Goto(t, Rest(t))
           /\ UNCHANGED <<active, bits, bitmap, blocking_cmd_active, timer>>
  <2>1. Push(t, <<>>) /\ <<>> \in Seq(Frame)
    BY <1>1, <1>2, Gotos, Pushed
  <2>2. StepKind
    BY <1>1, <1>2, <2>1, Pushed, QuietFrame
  <2>3. AdminOK' /\ TimersOK
    BY <1>1, <1>2 DEF AdminOK, TimersOK, PlaceInv, TimerLink, TypeOK, adminVars
  <2> QED BY <2>2, <2>3 DEF Sound
<1>3. ASSUME NEW n \in wlan_serialization_find_cmd(active, c),
             bits' = [bits EXCEPT ![n] = @ \cup {"REMOVAL"}],
             Goto(t, Rest(t)),
             UNCHANGED <<active, bitmap, blocking_cmd_active, timer>>
      PROVE  Sound
  <2>1. Push(t, <<>>) /\ <<>> \in Seq(Frame)
    BY <1>1, <1>3, Gotos, Pushed
  <2>2. \A m \in Entry : "ACTIVATION" \in bits[m] => "ACTIVATION" \in bits'[m]
    BY <1>1, <1>3
  <2>3. StepKind
    BY <1>1, <1>3, <2>1, <2>2, Pushed, QuietFrame
  <2>4. AdminOK' /\ TimersOK
    BY <1>1, <1>3 DEF AdminOK, TimersOK, PlaceInv, TimerLink, TypeOK, adminVars
  <2> QED BY <2>3, <2>4 DEF Sound
<1>4. ASSUME NEW n \in wlan_serialization_find_cmd(active, c),
             "ACTIVATION" \notin bits[n],
             active' = Without(active, n),
             bitmap' = bitmap \ {Vd(n)},
             blocking_cmd_active' = (blocking_cmd_active /\ ~Blk(n)),
             bits' = [bits EXCEPT ![n] = {}],
             timer' = [timer EXCEPT ![n] = "off"],
             Goto(t, <<Move(Vd(n), Blk(n)), Release(n)>> \o Rest(t))
      PROVE  Sound
  <2> DEFINE mv == Move(Vd(n), Blk(n))
             F  == <<mv, Release(n)>>
  <2>1. n \in ToSet(active) /\ n \in Used /\ n \in Entry /\ cmd[n] \in Cmd
    BY <1>1 DEF wlan_serialization_find_cmd, Used, TypeOK
  <2>2. Vd(n) \in Vdev /\ Blk(n) \in BOOLEAN /\ (blocking = Cmd => Blk(n))
    BY <2>1, SerializationAssumption DEF SerializationAssumption, Vd, Blk
  <2>3. /\ mv \in Frame /\ mv \notin Acts /\ mv \notin Ends /\ mv \notin Leaving
        /\ mv.k = "move" /\ mv.blk = Blk(n)
    <3>1. mv \in Frame
      BY <2>2, NewFrames
    <3> QED BY <3>1 DEF Move, Acts, Ends, Leaving
  <2>4. /\ Release(n) \in Frame /\ Release(n) \in Ends /\ Release(n) \notin Acts
        /\ Release(n) \notin Leaving /\ Release(n).n = n /\ Release(n).k = "release"
    <3>1. Release(n) \in Ends
      BY <2>1, NewFrames
    <3> QED BY <3>1 DEF Release, Acts, Ends, Leaving
  <2> HIDE DEF mv
  <2>5. /\ DOMAIN F = {1, 2} /\ F[1] = mv /\ F[2] = Release(n) /\ F \in Seq(Frame)
    BY <2>3, <2>4, Pushed
  <2>6. Push(t, F)
    <3>1. Goto(t, F \o Rest(t))
      BY <1>4 DEF mv
    <3> HIDE DEF F
    <3> QED BY <1>1, <2>5, <3>1, Gotos
  <2> HIDE DEF F
  <2>7. /\ \A m : InF(F, Ends, m) <=> m = n
        /\ \A m : ~InF(F, Acts, m) /\ ~InF(F, Leaving, m)
        /\ \A i, j \in DOMAIN F : F[i] \in Ends /\ F[j] \in Ends => i = j
        /\ \A i \in DOMAIN F : F[i] \notin Acts
    BY <2>3, <2>4, <2>5 DEF InF
  <2>8. MovesOK(F) /\ Moves(F)
    BY <2>2, <2>3, <2>4, <2>5 DEF MovesOK, Moves
  <2>9. /\ active' \in Seq(Entry) /\ IsInjective(active')
        /\ ToSet(active)' = ToSet(active) \ {n} /\ ToSet(pending)' = ToSet(pending)
    BY <1>1, <1>4, <2>1, WithoutList
  <2>10. ListsOK' /\ \A m : m \in Listed \ Listed' <=> m = n
    <3>1. n \notin ToSet(pending)
      BY <2>1 DEF PlaceInv, ListLink
    <3> QED BY <1>1, <2>1, <2>9, <3>1 DEF ListsOK, Listed
  <2>11. \A m : ~OnTop(t, Acts, m) /\ ~OnTop(t, Ends, m) /\ ~OnTop(t, Leaving, m)
    BY DEF OnTop, Ends, Leaving
  <2>12. released' = [m \in Entry |-> IF OnTop(t, Ends, m) THEN released[m] + 1 ELSE released[m]]
    <3>1. released \in [Entry -> Nat]
      BY <1>1 DEF TypeOK
    <3> QED BY <1>1, <2>11, <3>1
  <2>13. \A m \in Entry : m # n => bits'[m] = bits[m]
    BY <1>1, <1>4
  <2>14. LeavePlaces(t, F)
    BY <1>4, <2>7, <2>9, <2>10, <2>11, <2>12, <2>13 DEF LeavePlaces
  <2>15. LeaveHeld(t, F, {n})
    BY <1>4, <2>1, <2>7, <2>8, <2>9, <2>11 DEF LeaveHeld
  <2>16. Leave(t, F, {n})
    BY <1>1, <2>5, <2>6, <2>10, <2>14, <2>15 DEF Leave
  <2>17. AdminOK' /\ TimersOK
    BY <1>1, <1>4, <2>1, <2>2 DEF AdminOK, TimersOK, PlaceInv, TimerLink, TypeOK, adminVars
  <2> QED BY <2>16, <2>17 DEF Sound, StepKind
<1> QED BY <1>2, <1>3, <1>4 DEF dequeue_cmd
\* The top of a context that is not in an activation, a release or a move.
LEMMA OtherTop ==
  ASSUME NEW t \in Ctx, Idle(t) \/ Top(t).k \notin {"start", "called", "release", "resume", "move", "after"}
  PROVE  (\A n : \A K \in {Acts, Ends} : ~OnTop(t, K, n)) /\ ~TopMoves(t)
BY DEF OnTop, Acts, Ends, TopMoves

LEMMA TimeoutSound ==
  ASSUME PlaceInv, NEW t \in Ctx, timeout_dequeue(t)
  PROVE  Sound
<1>1. /\ TypeOK /\ ~Idle(t) /\ Top(t).k = "timeout" /\ released' = released
      /\ dequeue_cmd(t, cmd[Top(t).n], Below(t))
  BY DEF timeout_dequeue, At, Idle, PlaceInv
<1>2. Rest(t) = Below(t)
  BY <1>1, TopFrame
<1> QED BY <1>1, <1>2, OtherTop, DequeueSound

LEMMA CompletionSound ==
  ASSUME PlaceInv, NEW t \in Ctx, NEW c \in Cmd, wlan_serialization_remove_cmd(t, c)
  PROVE  Sound
<1>1. Idle(t) /\ dequeue_cmd(t, c, <<>>) /\ released' = released
  BY DEF wlan_serialization_remove_cmd
<1>2. Rest(t) = <<>>
  BY <1>1 DEF Idle, Rest
<1> QED BY <1>1, <1>2, OtherTop, DequeueSound

\* A step that pushes a frame without a command, or none, and leaves the lists alone.
LEMMA CallSound ==
  ASSUME PlaceInv, NEW t \in Ctx, NEW F \in Seq(Frame),
         Goto(t, F \o Rest(t)) \/ (Idle(t) /\ Goto(t, F)),
         \A i \in DOMAIN F : F[i].k \in {"cancel", "timeout", "after"},
         \A n : \A K \in {Acts, Ends} : ~OnTop(t, K, n), ~TopMoves(t),
         UNCHANGED <<blocking, cmd, listVars, bits, timer, released>>,
         queue_disable' \subseteq Vdev, cancels' \in 0 .. MaxCancel, posted' \subseteq Used
  PROVE  Sound
<1>1. TypeOK /\ Push(t, F)
  BY Gotos DEF PlaceInv
<1>2. StepKind
  BY <1>1, QuietFrame DEF listVars
<1>3. AdminOK' /\ TimersOK
  BY <1>1 DEF AdminOK, TimersOK, PlaceInv, TimerLink, TypeOK, listVars
<1> QED BY <1>2, <1>3 DEF Sound

LEMMA ActivateDoneSound ==
  ASSUME PlaceInv, NEW t \in Ctx, activate_done(t)
  PROVE  Sound
<1> DEFINE n == Top(t).n
<1>1. /\ TypeOK /\ ~Idle(t) /\ Top(t).k = "test" /\ released' = released
      /\ IF n \in ToSet(active) /\ (~Top(t).ok \/ "REMOVAL" \in bits[n])
         THEN dequeue_cmd(t, cmd[n], Below(t))
         ELSE /\ Goto(t, IF n \in ToSet(active) /\ "CANCEL" \in bits[n]
                         THEN <<Cancel({cmd[n]}, TRUE, TRUE)>> \o Below(t)
                         ELSE Below(t))
              /\ UNCHANGED <<blocking, cmd, listVars, bits, adminVars, timerVars>>
  BY DEF activate_done, At, Idle, PlaceInv
<1>2. Rest(t) = Below(t)
  BY <1>1, TopFrame
<1>3. (\A m : \A K \in {Acts, Ends} : ~OnTop(t, K, m)) /\ ~TopMoves(t)
  BY <1>1, OtherTop
<1>4. CASE n \in ToSet(active) /\ (~Top(t).ok \/ "REMOVAL" \in bits[n])
  BY <1>1, <1>2, <1>3, <1>4, DequeueSound
<1>5. CASE /\ ~(n \in ToSet(active) /\ (~Top(t).ok \/ "REMOVAL" \in bits[n]))
           /\ n \in ToSet(active) /\ "CANCEL" \in bits[n]
  <2> DEFINE f == Cancel({cmd[n]}, TRUE, TRUE)
             F == <<f>>
  <2>1. {cmd[n]} \in SUBSET Cmd
    BY <1>1, <1>5 DEF TypeOK, Used
  <2>2. f \in Frame /\ f.k = "cancel"
    BY <2>1, NewFrames DEF Cancel
  <2>3. /\ Goto(t, F \o Rest(t))
        /\ UNCHANGED <<blocking, cmd, listVars, bits, adminVars, timerVars>>
    BY <1>1, <1>2, <1>5
  <2> HIDE DEF f
  <2>4. F \in Seq(Frame) /\ \A i \in DOMAIN F : F[i].k = "cancel"
    BY <2>2, Pushed
  <2> HIDE DEF F
  <2> QED BY <1>1, <1>3, <2>3, <2>4, CallSound DEF TypeOK, adminVars, timerVars
<1>6. CASE /\ ~(n \in ToSet(active) /\ (~Top(t).ok \/ "REMOVAL" \in bits[n]))
           /\ ~(n \in ToSet(active) /\ "CANCEL" \in bits[n])
  <2>1. /\ Goto(t, <<>> \o Rest(t))
        /\ UNCHANGED <<blocking, cmd, listVars, bits, adminVars, timerVars>>
    <3>1. <<>> \o Rest(t) = Rest(t)
      BY <1>1, RestOf, ConcatEmptySeq DEF TypeOK
    <3> QED BY <1>1, <1>2, <1>6, <3>1
  <2> QED BY <1>1, <1>3, <2>1, Pushed, CallSound DEF TypeOK, adminVars, timerVars
<1> QED BY <1>4, <1>5, <1>6

LEMMA AfterSound ==
  ASSUME PlaceInv, NEW t \in Ctx, cancel_after(t)
  PROVE  Sound
<1>1. /\ TypeOK /\ ~Idle(t) /\ Top(t).k = "after"
      /\ Goto(t, IF active = <<>> /\ ~wlan_serialization_any_vdev_cmd_active
                 THEN <<Move(None, FALSE)>> \o Below(t)
                 ELSE Below(t))
      /\ UNCHANGED <<blocking, cmd, listVars, bits, adminVars, timerVars, released>>
  BY DEF cancel_after, At, Idle, PlaceInv
<1>2. Rest(t) = Below(t)
  BY <1>1, TopFrame
<1>3. \A n : ~OnTop(t, Ends, n) /\ ~OnTop(t, Acts, n)
  BY <1>1 DEF OnTop, Ends, Acts
<1>4. AdminOK' /\ TimersOK
  BY <1>1 DEF AdminOK, TimersOK, PlaceInv, TimerLink, TypeOK, listVars, adminVars, timerVars
<1>5. CASE active = <<>> /\ bitmap = {}
  <2> DEFINE f == Move(None, FALSE)
             F == <<f>>
  <2>1. f \in Frame /\ f.k = "move" /\ f.v = None
    BY NewFrames DEF Move
  <2>2. Goto(t, F \o Rest(t))
    BY <1>1, <1>2, <1>5 DEF wlan_serialization_any_vdev_cmd_active
  <2> HIDE DEF f
  <2>3. F \in Seq(Frame) /\ DOMAIN F = {1} /\ F[1] = f
    BY <2>1, Pushed
  <2> HIDE DEF F
  <2>4. Push(t, F)
    BY <1>1, <2>2, <2>3, Gotos
  <2>5. /\ \A i \in DOMAIN F : F[i] \notin Ends /\ F[i] \notin Acts
        /\ MovesOK(F) /\ Moves(F)
    BY <2>1, <2>3 DEF Ends, Acts, MovesOK, Moves
  <2>6. \A n : ~InF(F, Acts, n)
    BY <2>5 DEF InF
  <2>7. StepKind
    BY <1>1, <1>3, <2>3, <2>4, <2>5, <2>6, QuietStep DEF listVars
  <2> QED BY <2>7, <1>4 DEF Sound
<1>6. CASE ~(active = <<>> /\ bitmap = {})
  <2>1. Push(t, <<>>) /\ <<>> \in Seq(Frame)
    BY <1>1, <1>2, <1>6, Gotos, Pushed DEF wlan_serialization_any_vdev_cmd_active
  <2>2. ToSet(active) # {} \/ bitmap # {}
    <3>1. active \in Seq(Entry)
      BY <1>1 DEF TypeOK
    <3>2. active # <<>> => 1 \in DOMAIN active
      BY <3>1, EmptySeq, LenProperties
    <3> QED BY <3>2, <1>6 DEF ToSet
  <2>3. MovesOK(<<>>) /\ \A n : ~InF(<<>>, Acts, n)
    BY Pushed DEF MovesOK, InF
  <2>4. StepKind
    BY <1>1, <1>3, <2>1, <2>2, <2>3, Pushed, QuietStep DEF listVars
  <2> QED BY <2>4, <1>4 DEF Sound
<1> QED BY <1>5, <1>6

LEMMA CancelSound ==
  ASSUME PlaceInv, NEW t \in Ctx,
         \/ \E c \in Cmd : cancel_pending(t, c)
         \/ \E v \in Vdev : cancel_pending_vdev(t, v) \/ prepare_vdev_delete(t, v)
         \/ purge_all_pdev_cmd(t)
  PROVE  Sound
<1>1. /\ TypeOK /\ Idle(t) /\ cancels \in 0 .. MaxCancel /\ cancels < MaxCancel /\ cancels' = cancels + 1
      /\ UNCHANGED <<blocking, cmd, listVars, bits, timerVars, released>>
      /\ queue_disable \subseteq Vdev /\ queue_disable' \subseteq Vdev /\ MaxCancel \in Nat
      /\ posted \subseteq Used
  BY SerializationAssumption
     DEF cancel_pending, cancel_pending_vdev, prepare_vdev_delete, purge_all_pdev_cmd, CountCancel,
         PlaceInv, TypeOK, SerializationAssumption
<1>2. \E a, b \in SUBSET Cmd, one \in BOOLEAN :
        \/ Goto(t, <<Cancel(a, one, FALSE)>>)
        \/ Goto(t, <<Cancel(a, one, FALSE), Cancel(b, one, TRUE)>>)
  <2>1. ASSUME NEW c \in Cmd, cancel_pending(t, c) PROVE Goto(t, <<Cancel({c}, TRUE, FALSE)>>)
    BY <2>1 DEF cancel_pending
  <2>2. ASSUME NEW v \in Vdev, cancel_pending_vdev(t, v) PROVE Goto(t, <<Cancel(Of(v), FALSE, FALSE)>>)
    BY <2>2 DEF cancel_pending_vdev
  <2>3. ASSUME NEW v \in Vdev, prepare_vdev_delete(t, v)
        PROVE  Goto(t, <<Cancel(Of(v), FALSE, FALSE), Cancel(Of(v), FALSE, TRUE)>>)
    BY <2>3 DEF prepare_vdev_delete
  <2>4. ASSUME purge_all_pdev_cmd(t)
        PROVE  Goto(t, <<Cancel(Cmd, FALSE, FALSE), Cancel(Cmd, FALSE, TRUE)>>)
    BY <2>4 DEF purge_all_pdev_cmd
  <2>5. \A v : Of(v) \in SUBSET Cmd
    BY DEF Of
  <2>6. \A c \in Cmd : {c} \in SUBSET Cmd
    OBVIOUS
  <2>7. Cmd \in SUBSET Cmd /\ TRUE \in BOOLEAN /\ FALSE \in BOOLEAN
    OBVIOUS
  <2> HIDE DEF Goto
  <2> QED BY <2>1, <2>2, <2>3, <2>4, <2>5, <2>6, <2>7
<1>3. PICK a \in SUBSET Cmd, b \in SUBSET Cmd, one \in BOOLEAN :
        \/ Goto(t, <<Cancel(a, one, FALSE)>>)
        \/ Goto(t, <<Cancel(a, one, FALSE), Cancel(b, one, TRUE)>>)
  BY <1>2
<1> DEFINE f == Cancel(a, one, FALSE)
           g == Cancel(b, one, TRUE)
<1>4. f \in Frame /\ g \in Frame /\ f.k = "cancel" /\ g.k = "cancel"
  BY NewFrames DEF Cancel
<1>5. Goto(t, <<f>>) \/ Goto(t, <<f, g>>)
  BY <1>3
<1> HIDE DEF f, g
<1>6. \A F \in {<<f>>, <<f, g>>} : F \in Seq(Frame) /\ \A i \in DOMAIN F : F[i].k = "cancel"
  <2>1. <<f>> \in Seq(Frame) /\ <<f, g>> \in Seq(Frame)
    BY <1>4, Pushed
  <2>2. /\ DOMAIN <<f>> = {1} /\ DOMAIN <<f, g>> = {1, 2}
        /\ <<f>>[1] = f /\ <<f, g>>[1] = f /\ <<f, g>>[2] = g
    OBVIOUS
  <2> QED BY <1>4, <2>1, <2>2
<1>7. \E F \in {<<f>>, <<f, g>>} : Goto(t, F)
  BY <1>5
<1>8. cancels' \in 0 .. MaxCancel
  BY <1>1
<1> QED BY <1>1, <1>6, <1>7, <1>8, OtherTop, CallSound DEF timerVars
LEMMA TimerSound ==
  ASSUME PlaceInv, NEW n \in Entry, timer_handler(n) \/ timer_handler_failed(n)
  PROVE  Sound
<1>1. /\ TypeOK /\ timer \in [Entry -> {"off", "armed", "expired", "lost"}]
      /\ UNCHANGED <<blocking, cmd, listVars, bits, adminVars, released, stack>>
      /\ timer[n] = "armed"
      /\ \/ timer' = [timer EXCEPT ![n] = "expired"] /\ posted' = posted \cup {n}
         \/ timer' = [timer EXCEPT ![n] = "lost"] /\ posted' = posted
  BY DEF PlaceInv, TypeOK, timer_handler, timer_handler_failed
<1>2. Still
  BY <1>1 DEF Still, listVars
<1>3. AdminOK' /\ TimersOK
  BY ZenonT(40), <1>1 DEF AdminOK, TimersOK, PlaceInv, TimerLink, TypeOK, listVars, adminVars
<1> QED BY <1>2, <1>3 DEF Sound, StepKind

LEMMA RefusedSound ==
  ASSUME PlaceInv, NEW t \in Ctx, NEW c \in Cmd, request_refused(t, c)
  PROVE  Sound
<1>1. /\ TypeOK /\ blocking_cmd_waiting' = CountWaiting(c)
      /\ UNCHANGED <<blocking, cmd, active, pending, bitmap, blocking_cmd_active, bits,
                     adminVars, timerVars, released, stack>>
  BY DEF PlaceInv, request_refused
<1>2. Still
  BY <1>1 DEF Still
<1>3. CountWaiting(c) \in 0 .. CounterMod - 1
  BY SMTT(30), <1>1, SerializationAssumption DEF CountWaiting, TypeOK, SerializationAssumption
<1>4. AdminOK' /\ TimersOK
  BY <1>1, <1>3 DEF AdminOK, TimersOK, PlaceInv, TimerLink, TypeOK, adminVars, timerVars
<1> QED BY <1>2, <1>4 DEF Sound, StepKind
\* A pending command goes to the active list and is about to be activated.
LEMMA MoveSound ==
  ASSUME PlaceInv, NEW t \in Ctx, NEW n \in ToSet(pending),
         MoveToActive(t, n, Rest(t)) \/ MoveToActive(t, n, <<Scan>> \o Rest(t)),
         UNCHANGED <<blocking, cmd, adminVars, timerVars, released>>,
         bits' \in [Entry -> SUBSET {"ACTIVATION", "REMOVAL", "CANCEL", "MOVEMENT"}],
         "ACTIVATION" \in bits'[n],
         \A m \in Entry : "ACTIVATION" \in bits[m] => "ACTIVATION" \in bits'[m],
         Vd(n) \notin bitmap, blocking = Cmd => bitmap = {},
         \A m : \A K \in {Acts, Ends} : ~OnTop(t, K, m)
  PROVE  Sound
<1>1. /\ TypeOK /\ n \in Entry /\ cmd[n] \in Cmd /\ n \notin ToSet(active)
      /\ active \in Seq(Entry) /\ IsInjective(active) /\ pending \in Seq(Entry) /\ IsInjective(pending)
  BY DEF PlaceInv, ListLink, TypeOK, Used
<1>2. /\ pending' = Without(pending, n)
      /\ active' = Insert(active, n, cmd[n])
      /\ bitmap' = bitmap \cup {Vd(n)}
      /\ blocking_cmd_active' = (blocking_cmd_active \/ Blk(n))
      /\ blocking_cmd_waiting' =
           IF Blk(n) THEN (blocking_cmd_waiting + CounterMod - 1) % CounterMod
                     ELSE blocking_cmd_waiting
      /\ Goto(t, <<Start(n)>> \o Rest(t)) \/ Goto(t, <<Start(n)>> \o (<<Scan>> \o Rest(t)))
  BY DEF MoveToActive
<1>3. Start(n) \in Frame /\ Scan \in Frame
  BY <1>1, NewFrames DEF Acts
<1>4. \E F \in {<<Start(n)>>, <<Start(n), Scan>>} : F \in Seq(Frame) /\ Push(t, F)
  <2> DEFINE f == Start(n)
             g == Scan
             r == Rest(t)
  <2>1. f \in Frame /\ g \in Frame /\ r \in Seq(Frame)
    BY <1>1, <1>3, RestOf DEF TypeOK
  <2>2. Goto(t, <<f>> \o r) \/ Goto(t, <<f>> \o (<<g>> \o r))
    BY <1>2
  <2>6. (\A F \in Seq(Frame) : Goto(t, F \o r) => Push(t, F))
    BY <1>1, Gotos
  <2> HIDE DEF f, g, r, Goto, Push
  <2>3. <<f>> \in Seq(Frame) /\ <<g>> \in Seq(Frame) /\ <<f, g>> \in Seq(Frame)
    BY <2>1, Pushed
  <2>7. <<f>> \o (<<g>> \o r) = (<<f>> \o <<g>>) \o r
    BY <2>1, <2>3, ConcatAssociative
  <2>8. <<f>> \o <<g>> = <<f, g>>
    <3>1. \A h \in Frame : <<h>> \in Seq(Frame) /\ Len(<<h>>) = 1 /\ <<h>>[1] = h
      BY Pushed
    <3>2. Len(<<f, g>>) = 2 /\ <<f, g>>[1] = f /\ <<f, g>>[2] = g
      OBVIOUS
    <3>3. <<f>> \o <<g>> \in Seq(Frame) /\ Len(<<f>> \o <<g>>) = 2
      BY <2>1, <3>1, ConcatProperties
    <3>4. (<<f>> \o <<g>>)[1] = f /\ (<<f>> \o <<g>>)[2] = g
      BY <2>1, <3>1, ConcatProperties
    <3>5. \A j \in 1 .. 2 : (<<f>> \o <<g>>)[j] = <<f, g>>[j]
      BY <3>2, <3>4
    <3> QED BY <2>3, <3>2, <3>3, <3>5, SeqEqual
  <2>4. Push(t, <<f>>) \/ Push(t, <<f, g>>)
    BY <2>2, <2>3, <2>6, <2>7, <2>8
  <2>5. \E F \in {<<f>>, <<f, g>>} : F \in Seq(Frame) /\ Push(t, F)
    BY <2>3, <2>4
  <2> QED BY <2>5 DEF f, g
<1>5. PICK F \in {<<Start(n)>>, <<Start(n), Scan>>} : F \in Seq(Frame) /\ Push(t, F)
  BY <1>4
<1>6. /\ active' \in Seq(Entry) /\ IsInjective(active') /\ ToSet(active)' = ToSet(active) \cup {n}
      /\ pending' \in Seq(Entry) /\ IsInjective(pending') /\ ToSet(pending)' = ToSet(pending) \ {n}
  BY <1>1, <1>2, InsertList, WithoutList
<1>7. ListsOK'
  BY <1>6 DEF ListsOK
<1>8. Vd(n)' = Vd(n) /\ (Blk(n)' <=> Blk(n)) /\ Blk(n) \in BOOLEAN /\ Vd(n) \in Vdev
  BY <1>1, SerializationAssumption DEF Vd, Blk, SerializationAssumption
<1>9. Begin(t, F, n)
  BY <1>1, <1>2, <1>5, <1>6, <1>7, <1>8 DEF Begin
<1>10. blocking_cmd_waiting' \in 0 .. CounterMod - 1
  <2>1. CounterMod \in Nat /\ CounterMod > 0 /\ blocking_cmd_waiting \in 0 .. CounterMod - 1
    BY <1>1, SerializationAssumption DEF TypeOK, SerializationAssumption
  <2>2. blocking_cmd_waiting + CounterMod - 1 \in Int
    BY <2>1
  <2>3. (blocking_cmd_waiting + CounterMod - 1) % CounterMod \in 0 .. CounterMod - 1
    BY <2>1, <2>2
  <2> QED BY <1>2, <2>1, <2>3
<1>11. AdminOK'
  BY <1>1, <1>2, <1>8, <1>10 DEF AdminOK, TypeOK, adminVars, timerVars
<1>12. TimersOK
  BY DEF TimersOK, PlaceInv, TimerLink, TypeOK, timerVars
<1> QED BY <1>9, <1>11, <1>12 DEF Sound, StepKind

LEMMA VdevLookupSound ==
  ASSUME PlaceInv, NEW t \in Ctx, ~Idle(t), Top(t).k = "move",
         ~Top(t).blk, Top(t).v # None, VdevLookup(t, Top(t).v, Rest(t)),
         UNCHANGED <<blocking, cmd, adminVars, timerVars, released>>
  PROVE  Sound
<1> DEFINE v == Top(t).v
           S == {j \in 1 .. Len(pending) : Vd(pending[j]) = v}
           i == IF S # {} THEN Min(S) ELSE 0
<1>1. /\ TypeOK /\ pending \in Seq(Entry) /\ Len(pending) \in Nat /\ DOMAIN pending = 1 .. Len(pending)
      /\ bits \in [Entry -> SUBSET {"ACTIVATION", "REMOVAL", "CANCEL", "MOVEMENT"}]
  BY LenProperties DEF PlaceInv, TypeOK
<1>2. /\ i \in 0 .. Len(pending)
      /\ i # 0 => i \in S
  BY <1>1, FirstOf
<1>3. IF i = 0 \/ v \in bitmap \/ "MOVEMENT" \in bits[pending[i]]
      THEN Goto(t, Rest(t)) /\ UNCHANGED <<listVars, bits>>
      ELSE /\ MoveToActive(t, pending[i], Rest(t))
           /\ bits' = [bits EXCEPT ![pending[i]] = {"ACTIVATION"}]
  BY DEF VdevLookup, SelectInSeq
<1>4. blocking # Cmd
  <2>1. 1 \in DOMAIN stack[t]
    BY <1>1, TopFrame
  <2> QED BY <2>1 DEF PlaceInv, MoveLink, Top
<1>5. \A m : \A K \in {Acts, Ends} : ~OnTop(t, K, m)
  BY DEF OnTop, Acts, Ends
<1> HIDE DEF i
<1>6. CASE i = 0 \/ v \in bitmap \/ "MOVEMENT" \in bits[pending[i]]
  <2>1. /\ Push(t, <<>>) /\ <<>> \in Seq(Frame)
        /\ UNCHANGED <<active, pending, bitmap, blocking_cmd_active, bits, blocking_cmd_waiting>>
    BY <1>1, <1>3, <1>6, Gotos, Pushed DEF listVars
  <2>2. MovesOK(<<>>) /\ \A m : ~InF(<<>>, Acts, m)
    BY Pushed DEF MovesOK, InF
  <2>3. StepKind
    BY <1>4, <1>5, <2>1, <2>2, Pushed, QuietStep
  <2>4. AdminOK' /\ TimersOK
    BY <1>1, <2>1 DEF AdminOK, TimersOK, PlaceInv, TimerLink, TypeOK, adminVars, timerVars
  <2> QED BY <2>3, <2>4 DEF Sound
<1>7. CASE ~(i = 0 \/ v \in bitmap \/ "MOVEMENT" \in bits[pending[i]])
  <2> DEFINE n == pending[i]
  <2>1. n \in ToSet(pending) /\ n \in Entry /\ Vd(n) \notin bitmap
    BY <1>1, <1>2, <1>7 DEF ToSet
  <2>2. MoveToActive(t, n, Rest(t)) /\ bits' = [bits EXCEPT ![n] = {"ACTIVATION"}]
    BY <1>3, <1>7
  <2>3. /\ bits' \in [Entry -> SUBSET {"ACTIVATION", "REMOVAL", "CANCEL", "MOVEMENT"}]
        /\ "ACTIVATION" \in bits'[n]
        /\ \A m \in Entry : "ACTIVATION" \in bits[m] => "ACTIVATION" \in bits'[m]
    BY <1>1, <2>1, <2>2
  <2> HIDE DEF n
  <2> QED BY <1>4, <1>5, <2>1, <2>2, <2>3, MoveSound
<1> QED BY <1>6, <1>7

LEMMA PdevLookupSound ==
  ASSUME PlaceInv, NEW t \in Ctx, ~Idle(t), Top(t).k \in {"move", "scan"},
         PdevLookup(t, Rest(t)),
         UNCHANGED <<blocking, cmd, adminVars, timerVars, released>>
  PROVE  Sound
<1> DEFINE blocked(n) == Blk(n) /\ bitmap # {}
           S == {j \in 1 .. Len(pending) : blocked(pending[j]) \/ Vd(pending[j]) \notin bitmap}
           i == IF S # {} THEN Min(S) ELSE 0
           mark == IF i = 0 THEN {}
                   ELSE IF blocked(pending[i]) THEN {j \in {i} : i > 1}
                   ELSE {i + 1} \cap DOMAIN pending
           passed == IF i = 0 THEN DOMAIN pending ELSE 1 .. (i - 1)
           NewBits(n) ==
             IF \E j \in mark : pending[j] = n THEN bits[n] \cup {"MOVEMENT"}
             ELSE IF \E j \in passed : pending[j] = n THEN bits[n] \ {"MOVEMENT"}
             ELSE bits[n]
<1>1. /\ TypeOK /\ pending \in Seq(Entry) /\ Len(pending) \in Nat /\ DOMAIN pending = 1 .. Len(pending)
      /\ bits \in [Entry -> SUBSET {"ACTIVATION", "REMOVAL", "CANCEL", "MOVEMENT"}]
  BY LenProperties DEF PlaceInv, TypeOK
<1>2. /\ i \in 0 .. Len(pending)
      /\ i = 0 <=> S = {}
      /\ i # 0 => i \in S
  BY SMTT(30), <1>1, FirstOf
<1>3. IF i = 0 \/ blocked(pending[i])
      THEN /\ bits' = [n \in Entry |-> NewBits(n)]
           /\ Goto(t, Rest(t))
           /\ UNCHANGED listVars
      ELSE /\ bits' = [n \in Entry |-> IF n = pending[i] THEN {"ACTIVATION"} ELSE NewBits(n)]
           /\ MoveToActive(t, pending[i], <<Scan>> \o Rest(t))
  BY DEF PdevLookup, SelectInSeq, wlan_serialization_any_vdev_cmd_active
<1>4. /\ \A n \in Entry : NewBits(n) \in SUBSET {"ACTIVATION", "REMOVAL", "CANCEL", "MOVEMENT"}
      /\ \A n \in Entry : "ACTIVATION" \in bits[n] => "ACTIVATION" \in NewBits(n)
  <2> HIDE DEF mark, passed
  <2> QED BY <1>1
<1>5. \A m : \A K \in {Acts, Ends} : ~OnTop(t, K, m)
  BY DEF OnTop, Acts, Ends
<1> DEFINE nb == [n \in Entry |-> NewBits(n)]
<1>8. /\ nb \in [Entry -> SUBSET {"ACTIVATION", "REMOVAL", "CANCEL", "MOVEMENT"}]
      /\ \A n \in Entry : "ACTIVATION" \in bits[n] => "ACTIVATION" \in nb[n]
      /\ \A x : [n \in Entry |-> IF n = x THEN {"ACTIVATION"} ELSE NewBits(n)]
                = [n \in Entry |-> IF n = x THEN {"ACTIVATION"} ELSE nb[n]]
  <2>1. \A n \in Entry : nb[n] = NewBits(n)
    OBVIOUS
  <2>2. nb = [n \in Entry |-> nb[n]]
    OBVIOUS
  <2> HIDE DEF NewBits, nb
  <2>3. nb \in [Entry -> SUBSET {"ACTIVATION", "REMOVAL", "CANCEL", "MOVEMENT"}]
    BY <1>4, <2>1, <2>2
  <2>4. \A n \in Entry : "ACTIVATION" \in bits[n] => "ACTIVATION" \in nb[n]
    BY <1>4, <2>1
  <2>5. \A x : [n \in Entry |-> IF n = x THEN {"ACTIVATION"} ELSE NewBits(n)]
                = [n \in Entry |-> IF n = x THEN {"ACTIVATION"} ELSE nb[n]]
    BY SMTT(30), <2>1
  <2> QED BY <2>3, <2>4, <2>5
<1>9. IF i = 0 \/ blocked(pending[i])
      THEN bits' = nb
      ELSE bits' = [n \in Entry |-> IF n = pending[i] THEN {"ACTIVATION"} ELSE nb[n]]
  BY <1>3, <1>8
<1> HIDE DEF i, NewBits, nb
<1>6. CASE i = 0 \/ blocked(pending[i])
  <2>1. /\ Push(t, <<>>) /\ <<>> \in Seq(Frame)
        /\ UNCHANGED <<active, pending, bitmap, blocking_cmd_active, blocking_cmd_waiting>>
        /\ bits' = nb
    BY <1>1, <1>3, <1>6, <1>9, Gotos, Pushed DEF listVars
  <2>2. /\ \A n \in Entry : "ACTIVATION" \in bits[n] => "ACTIVATION" \in bits'[n]
        /\ bits' \in [Entry -> SUBSET {"ACTIVATION", "REMOVAL", "CANCEL", "MOVEMENT"}]
    BY <1>8, <2>1
  <2>3. MovesOK(<<>>) /\ \A m : ~InF(<<>>, Acts, m)
    BY Pushed DEF MovesOK, InF
  <2>4. bitmap # {} \/ pending = <<>>
    <3> SUFFICES ASSUME bitmap = {} PROVE pending = <<>>
      OBVIOUS
    <3>1. S = 1 .. Len(pending)
      OBVIOUS
    <3>2. S = {}
      BY <1>2, <1>6
    <3>4. Len(pending) # 0 => 1 \in 1 .. Len(pending)
      BY <1>1
    <3> HIDE DEF S
    <3>3. Len(pending) = 0
      BY <3>1, <3>2, <3>4
    <3> QED BY <3>3, <1>1, EmptySeq
  <2>5. StepKind
    BY <1>5, <2>1, <2>2, <2>3, <2>4, Pushed, QuietStep
  <2>6. AdminOK' /\ TimersOK
    BY <1>1, <2>1, <2>2 DEF AdminOK, TimersOK, PlaceInv, TimerLink, TypeOK, adminVars, timerVars
  <2> QED BY <2>5, <2>6 DEF Sound
<1>7. CASE ~(i = 0 \/ blocked(pending[i]))
  <2> DEFINE n == pending[i]
  <2>1. n \in ToSet(pending) /\ n \in Entry /\ Vd(n) \notin bitmap /\ ~blocked(n)
    BY <1>1, <1>2, <1>7 DEF ToSet
  <2>2. /\ MoveToActive(t, n, <<Scan>> \o Rest(t))
        /\ bits' = [m \in Entry |-> IF m = n THEN {"ACTIVATION"} ELSE nb[m]]
    BY <1>3, <1>7, <1>9
  <2> HIDE DEF n
  <2>3. /\ bits' \in [Entry -> SUBSET {"ACTIVATION", "REMOVAL", "CANCEL", "MOVEMENT"}]
        /\ "ACTIVATION" \in bits'[n]
        /\ \A m \in Entry : "ACTIVATION" \in bits[m] => "ACTIVATION" \in bits'[m]
    BY <1>8, <2>1, <2>2
  <2>4. blocking = Cmd => bitmap = {}
    <3>1. cmd[n] \in Cmd
      BY <2>1, <1>1 DEF TypeOK, Used
    <3> QED BY <2>1, <3>1 DEF Blk
  <2> QED BY <1>5, <2>1, <2>2, <2>3, <2>4, MoveSound
<1> QED BY <1>6, <1>7

LEMMA MovingSound ==
  ASSUME PlaceInv, NEW t \in Ctx, move_pending_to_active(t) \/ move_next(t)
  PROVE  Sound
<1>1. TypeOK /\ ~Idle(t) /\ Top(t).k \in {"move", "scan"}
  BY DEF move_pending_to_active, move_next, At, Idle, PlaceInv
<1>2. Top(t) \in Frame /\ Rest(t) = Below(t)
  BY <1>1, TopFrame
<1>3. CASE move_pending_to_active(t)
  <2>1. /\ Top(t).k = "move"
        /\ UNCHANGED <<blocking, cmd, adminVars, timerVars, released>>
        /\ IF ~Top(t).blk /\ blocking_cmd_waiting = 0 /\ Top(t).v # None
           THEN VdevLookup(t, Top(t).v, Below(t))
           ELSE PdevLookup(t, Below(t))
    BY <1>3 DEF move_pending_to_active, At
  <2> QED BY <1>1, <1>2, <2>1, VdevLookupSound, PdevLookupSound
<1>4. CASE move_next(t)
  <2>1. /\ Top(t).k = "scan"
        /\ UNCHANGED <<blocking, cmd, adminVars, timerVars, released>>
        /\ IF blocking_cmd_active
           THEN Goto(t, Below(t)) /\ UNCHANGED <<listVars, bits>>
           ELSE PdevLookup(t, Below(t))
    BY <1>4 DEF move_next, At
  <2>2. CASE blocking_cmd_active
    <3>1. Goto(t, Rest(t)) /\ UNCHANGED <<listVars, bits>>
      BY <1>2, <2>1, <2>2
    <3>2. Goto(t, <<>> \o Rest(t))
      BY <3>1, <1>1, RestOf, ConcatEmptySeq DEF TypeOK
    <3> QED BY <1>1, <2>1, <3>1, <3>2, Pushed, OtherTop, CallSound DEF TypeOK, adminVars, timerVars
  <2>3. CASE ~blocking_cmd_active
    BY <1>1, <1>2, <2>1, <2>3, PdevLookupSound
  <2> QED BY <2>2, <2>3
<1> QED BY <1>3, <1>4
LEMMA RequestSound ==
  ASSUME PlaceInv, NEW t \in Ctx, NEW c \in Cmd, wlan_serialization_request(t, c)
  PROVE  Sound
<1> DEFINE act == is_active_cmd_allowed(c)
<1>0. PICK n \in Entry : n = Cardinality(Used) + 1
  BY DEF wlan_serialization_request
<1>1. /\ TypeOK /\ Idle(t) /\ n \in Entry
      /\ cmd' = [cmd EXCEPT ![n] = c]
      /\ blocking_cmd_waiting' = CountWaiting(c)
      /\ UNCHANGED <<blocking, adminVars, timerVars, released>>
  BY <1>0 DEF PlaceInv, wlan_serialization_request
<1>2. /\ act => /\ active' = Insert(active, n, c)
                /\ bitmap' = bitmap \cup {vdevOf[c]}
                /\ blocking_cmd_active' = (blocking_cmd_active \/ c \in blocking)
                /\ bits' = [bits EXCEPT ![n] = {"ACTIVATION"}]
                /\ Goto(t, <<Start(n)>>)
                /\ UNCHANGED pending
      /\ ~act => /\ pending' = Insert(pending, n, c)
                 /\ UNCHANGED <<active, bitmap, blocking_cmd_active, bits, stack>>
  BY <1>0 DEF wlan_serialization_request
<1>3. /\ active \in Seq(Entry) /\ IsInjective(active) /\ ToSet(active) \subseteq Used
      /\ pending \in Seq(Entry) /\ IsInjective(pending) /\ ToSet(pending) \subseteq Used
      /\ bits \in [Entry -> SUBSET {"ACTIVATION", "REMOVAL", "CANCEL", "MOVEMENT"}]
      /\ cmd \in [Entry -> Cmd \cup {None}]
  BY <1>1 DEF TypeOK
<1>4. n \notin Used /\ n = Cardinality(Used) + 1
  BY <1>0, <1>1, NewEntry
<1>5. vdevOf[c] \in Vdev /\ cmd'[n] = c
  BY <1>1, <1>3, SerializationAssumption DEF SerializationAssumption
<1>6. CountWaiting(c) \in 0 .. CounterMod - 1
  BY SMTT(30), <1>1, SerializationAssumption DEF CountWaiting, TypeOK, SerializationAssumption
<1>7. TimersOK
  BY <1>1 DEF TimersOK, PlaceInv, TimerLink, TypeOK, timerVars
<1>8. CASE act
  <2> DEFINE F == <<Start(n)>>
  <2>1. Start(n) \in Frame
    BY <1>1, NewFrames DEF Acts
  <2>2. F \in Seq(Frame) /\ Push(t, F)
    BY <2>1, <1>1, <1>2, <1>8, Pushed, Gotos
  <2>3. /\ active' \in Seq(Entry) /\ IsInjective(active') /\ ToSet(active)' = ToSet(active) \cup {n}
    BY <1>1, <1>2, <1>3, <1>4, <1>8, InsertList
  <2>4. /\ ListsOK' /\ ToSet(pending)' = ToSet(pending) \ {n}
    BY <1>2, <1>3, <1>4, <1>8, <2>3 DEF ListsOK
  <2>5. "ACTIVATION" \in bits'[n] /\ \A m \in Entry : "ACTIVATION" \in bits[m] => "ACTIVATION" \in bits'[m]
    BY <1>1, <1>2, <1>3, <1>8
  <2>6. vdevOf[c] \notin bitmap /\ (blocking = Cmd => bitmap = {})
    BY <1>8 DEF is_active_cmd_allowed, is_active_non_scan_cmd_allowed, wlan_serialization_any_vdev_cmd_active
  <2>7. Vd(n)' = vdevOf[c] /\ (Blk(n)' <=> c \in blocking)
    BY <1>1, <1>5 DEF Vd, Blk
  <2>8. \A m : ~OnTop(t, Acts, m) /\ ~OnTop(t, Ends, m)
    BY <1>1 DEF OnTop
  <2> HIDE DEF F, act
  <2>9. F = <<Start(n)>>
    BY DEF F
  <2>10. Begin(t, F, n)
    BY <1>1, <1>2, <1>4, <1>8, <2>2, <2>3, <2>4, <2>5, <2>6, <2>7, <2>8, <2>9 DEF Begin
  <2>11. AdminOK'
    <3>1. bits' \in [Entry -> SUBSET {"ACTIVATION", "REMOVAL", "CANCEL", "MOVEMENT"}]
      BY <1>1, <1>2, <1>3, <1>8
    <3> QED BY <3>1, <1>1, <1>2, <1>5, <1>6, <1>8 DEF AdminOK, TypeOK, adminVars, timerVars
  <2> QED BY <1>7, <2>10, <2>11 DEF Sound, StepKind
<1>9. CASE ~act
  <2>1. /\ pending' \in Seq(Entry) /\ IsInjective(pending') /\ ToSet(pending)' = ToSet(pending) \cup {n}
    BY <1>1, <1>2, <1>3, <1>4, <1>9, InsertList
  <2>2. ListsOK'
    BY <1>2, <1>3, <1>9, <2>1 DEF ListsOK
  <2>3. blocking = Cmd => pending # <<>> \/ bitmap # {}
    <3> SUFFICES ASSUME blocking = Cmd, bitmap = {} PROVE pending # <<>>
      OBVIOUS
    <3>1. OfVdev(pending, vdevOf[c]) # {}
      BY <1>9 DEF is_active_cmd_allowed, is_active_non_scan_cmd_allowed, wlan_serialization_any_vdev_cmd_active
    <3>2. ToSet(pending) # {}
      BY <3>1 DEF OfVdev
    <3>3. pending = <<>> => ToSet(pending) = {}
      BY Pushed DEF ToSet
    <3> QED BY <3>2, <3>3
  <2> HIDE DEF act
  <2>4. Wait(n)
    BY <1>1, <1>2, <1>4, <1>9, <2>1, <2>2, <2>3 DEF Wait
  <2>5. AdminOK'
    BY <1>1, <1>2, <1>6, <1>9 DEF AdminOK, TypeOK, adminVars, timerVars
  <2> QED BY <1>7, <2>4, <2>5 DEF Sound, StepKind
<1> QED BY <1>8, <1>9

\* The message names the command; only if it is still active there is a timeout.
LEMMA GenericTimerSound ==
  ASSUME PlaceInv, NEW n \in Entry, generic_timer_cb(n)
  PROVE  Sound
<1>1. /\ TypeOK /\ Idle(Mc) /\ Mc \in Ctx
      /\ posted' = posted \ {n}
      /\ Goto(Mc, <<>>) \/ Goto(Mc, <<Timeout(n)>>)
      /\ UNCHANGED <<blocking, cmd, listVars, bits, adminVars, timer, released>>
  BY SerializationAssumption DEF PlaceInv, generic_timer_cb, SerializationAssumption
<1>2. Timeout(n) \in Frame /\ Timeout(n).k = "timeout"
  BY NewFrames DEF Timeout
<1>3. /\ queue_disable' \subseteq Vdev /\ cancels' \in 0 .. MaxCancel /\ posted' \subseteq Used
  BY <1>1 DEF TypeOK, adminVars
<1>4. \A F \in {<<>>, <<Timeout(n)>>} : F \in Seq(Frame) /\ \A i \in DOMAIN F : F[i].k = "timeout"
  <2> DEFINE f == Timeout(n)
  <2>1. f \in Frame /\ f.k = "timeout"
    BY <1>2
  <2> HIDE DEF f
  <2>2. <<f>> \in Seq(Frame) /\ <<>> \in Seq(Frame) /\ DOMAIN <<>> = {} /\ DOMAIN <<f>> = {1} /\ <<f>>[1] = f
    BY <2>1, Pushed
  <2>3. \A F \in {<<>>, <<f>>} : F \in Seq(Frame) /\ \A i \in DOMAIN F : F[i].k = "timeout"
    BY <2>1, <2>2
  <2> QED BY <2>3 DEF f
<1>5. \E F \in {<<>>, <<Timeout(n)>>} : Goto(Mc, F)
  BY <1>1
<1> QED BY <1>1, <1>3, <1>4, <1>5, OtherTop, CallSound
-----------------------------------------------------------------------------
(* Cancellation: a loop ends, or takes a command off its list *)

LoopEnds(t, act) ==
  /\ Push(t, IF act THEN <<After>> ELSE <<>>)
  /\ UNCHANGED <<active, pending, timer>>
  /\ \A m \in Entry : "ACTIVATION" \in bits[m] => "ACTIVATION" \in bits'[m]

LoopTakes(t, act, n) ==
  /\ n \in Entry
  /\ \E f \in Frame : f.k = "resume" /\ f.n = n /\ f.act = act /\ Push(t, <<f>>)
  /\ timer' = [timer EXCEPT ![n] = "off"]
  /\ \A m \in Entry : m # n /\ "ACTIVATION" \in bits[m] => "ACTIVATION" \in bits'[m]
  /\ IF act
     THEN /\ n \in ToSet(active) /\ "ACTIVATION" \notin bits[n]
          /\ active' = Without(active, n) /\ pending' = pending
     ELSE /\ n \in ToSet(pending)
          /\ pending' = Without(pending, n) /\ active' = active

LEMMA CancelEffect ==
  ASSUME PlaceInv, NEW t \in Ctx, NEW set \in SUBSET Cmd, NEW one \in BOOLEAN, NEW act \in BOOLEAN,
         NEW prev \in Entry \cup {None}, NEW left \in 0 .. MaxReq,
         CancelLoop(t, set, one, act, prev, left, Rest(t))
  PROVE  /\ bits' \in [Entry -> SUBSET {"ACTIVATION", "REMOVAL", "CANCEL", "MOVEMENT"}]
         /\ LoopEnds(t, act) \/ \E n : LoopTakes(t, act, n)
<1> DEFINE list == IF act THEN active ELSE pending
           P == {j \in 1 .. Len(list) : list[j] = prev}
           p == IF P # {} THEN Min(P) ELSE 0
           range == {j \in DOMAIN list : (prev # None => p > 0) /\ j > p /\ j <= p + left}
           hit(j) == cmd[list[j]] \in set
           early(j) == act /\ "ACTIVATION" \in bits[list[j]]
           found == {j \in range : hit(j) /\ ~early(j)}
           seen  == IF found = {} THEN range ELSE {j \in range : j < Min(found)}
           missed == {j \in seen : ~hit(j)}
           Mark(gone) == [n \in Entry |-> IF n = gone THEN {}
                            ELSE IF \E j \in seen : list[j] = n /\ hit(j)
                            THEN bits[n] \cup {"CANCEL"} ELSE bits[n]]
           n == list[Min(found)]
           prv == IF missed = {} THEN prev ELSE list[Max(missed)]
           rem == left - (Min(found) - p)
<1>1. /\ TypeOK /\ MaxReq \in Nat
      /\ bits \in [Entry -> SUBSET {"ACTIVATION", "REMOVAL", "CANCEL", "MOVEMENT"}]
      /\ list \in Seq(Entry) /\ Len(list) \in Nat /\ DOMAIN list = 1 .. Len(list)
      /\ \A j \in 1 .. Len(list) : list[j] \in Entry
  <2>1. active \in Seq(Entry) /\ pending \in Seq(Entry) /\ TypeOK /\ MaxReq \in Nat
    BY SerializationAssumption DEF PlaceInv, TypeOK, SerializationAssumption
  <2>2. list \in Seq(Entry)
    BY <2>1
  <2> HIDE DEF list
  <2>3. Len(list) \in Nat /\ DOMAIN list = 1 .. Len(list) /\ \A j \in 1 .. Len(list) : list[j] \in Entry
    BY <2>2, LenProperties, ElementOfSeq
  <2>4. bits \in [Entry -> SUBSET {"ACTIVATION", "REMOVAL", "CANCEL", "MOVEMENT"}]
    BY SMTT(30), <2>1 DEF TypeOK
  <2> QED BY <2>1, <2>2, <2>3, <2>4
<1>2. IF found = {} \/ (act /\ timer[n] = "off")
      THEN /\ bits' = Mark(None)
           /\ Goto(t, IF act THEN <<After>> \o Rest(t) ELSE Rest(t))
           /\ UNCHANGED <<active, pending, timer>>
      ELSE /\ bits' = Mark(n)
           /\ timer' = [timer EXCEPT ![n] = "off"]
           /\ IF act THEN active' = Without(active, n) /\ UNCHANGED pending
                     ELSE pending' = Without(pending, n) /\ UNCHANGED active
           /\ Goto(t, <<Resume(set, one, act, n, prv, rem)>> \o Rest(t))
  BY DEF CancelLoop, SelectInSeq
<1>3. \A gone :
        /\ Mark(gone) \in [Entry -> SUBSET {"ACTIVATION", "REMOVAL", "CANCEL", "MOVEMENT"}]
        /\ \A m \in Entry : m # gone /\ "ACTIVATION" \in bits[m] => "ACTIVATION" \in Mark(gone)[m]
  <2> HIDE DEF seen, list
  <2> QED BY <1>1
<1>4. p \in 0 .. Len(list)
  <2> HIDE DEF list
  <2> QED BY <1>1, FirstOf
<1>5. range \in SUBSET (1 .. Len(list)) /\ found \in SUBSET range /\ missed \in SUBSET range
  <2> HIDE DEF list, p
  <2> QED BY <1>1
<1>6. CASE found = {} \/ (act /\ timer[n] = "off")
  <2>1. /\ bits' = Mark(None) /\ UNCHANGED <<active, pending, timer>>
        /\ Goto(t, IF act THEN <<After>> \o Rest(t) ELSE Rest(t))
    BY <1>2, <1>6
  <2> HIDE DEF Mark, found, n
  <2>2. None \notin Entry
    BY SerializationAssumption DEF SerializationAssumption, Entry
  <2>3. Push(t, IF act THEN <<After>> ELSE <<>>)
    <3>1. <<After>> \in Seq(Frame)
      BY NewFrames, Pushed
    <3> DEFINE a == <<After>>
    <3>2. a \in Seq(Frame) /\ Goto(t, IF act THEN a \o Rest(t) ELSE Rest(t))
      BY <2>1, <3>1
    <3> HIDE DEF a
    <3>3. Push(t, IF act THEN a ELSE <<>>)
      BY <1>1, <3>2, Gotos
    <3> QED BY <3>3 DEF a
  <2>4. LoopEnds(t, act)
    BY <1>3, <2>1, <2>2, <2>3 DEF LoopEnds
  <2> QED BY SMTT(30), <1>3, <2>1, <2>4
<1>7. CASE ~(found = {} \/ (act /\ timer[n] = "off"))
  <2>1. Min(found) \in found
    <3>1. found \in SUBSET Nat /\ found # {}
      <4> HIDE DEF found, range, list
      <4>1. 1 .. Len(list) \in SUBSET Nat
        BY SMTT(30), <1>1
      <4> QED BY <4>1, <1>5, <1>7
    <3> HIDE DEF found
    <3> QED BY <3>1, LeastOf
  <2>2. n \in Entry /\ (act => n \in ToSet(active) /\ "ACTIVATION" \notin bits[n]) /\ (~act => n \in ToSet(pending))
    <3>1. Min(found) \in DOMAIN list /\ ~early(Min(found))
      BY ZenonT(40), <2>1
    <3> QED BY ZenonT(40), <1>1, <3>1 DEF ToSet
  <2>3. prv \in Entry \cup {None}
    <3>1. CASE missed = {}
      BY ZenonT(40), <3>1
    <3>2. CASE missed # {}
      <4>1. missed \in SUBSET (1 .. Len(list))
        BY <1>5
      <4>2. Max(missed) \in missed
        <5> HIDE DEF missed, list
        <5> QED BY <1>1, <3>2, <4>1, GreatestOf
      <4>3. list[Max(missed)] \in Entry
        <5> HIDE DEF missed, list
        <5> QED BY <1>1, <4>1, <4>2
      <4>4. prv = list[Max(missed)]
        BY <3>2
      <4> QED BY <4>3, <4>4
    <3> QED BY ZenonT(40), <3>1, <3>2
  <2>4. rem \in 0 .. MaxReq
    <3> DEFINE m == Min(found)
    <3>1. m \in 1 .. Len(list) /\ m > p /\ m <= p + left
      BY <1>1, <2>1
    <3> HIDE DEF p, m, list
    <3>2. left - (m - p) \in 0 .. MaxReq
      BY SMTT(30), <1>1, <1>4, <3>1
    <3> QED BY <3>2 DEF m
  <2> DEFINE f == Resume(set, one, act, n, prv, rem)
  <2>5. /\ bits' = Mark(n)
        /\ timer' = [timer EXCEPT ![n] = "off"]
        /\ IF act THEN active' = Without(active, n) /\ UNCHANGED pending
                  ELSE pending' = Without(pending, n) /\ UNCHANGED active
        /\ Goto(t, <<f>> \o Rest(t))
    BY <1>2, <1>7
  <2> HIDE DEF n, prv, rem, Mark
  <2>6. f \in Frame /\ f.k = "resume" /\ f.n = n /\ f.act = act
    BY <2>2, <2>3, <2>4, NewFrames DEF Resume, Ends
  <2> HIDE DEF f
  <2>7. <<f>> \in Seq(Frame)
    BY <2>6, Pushed
  <2>8. Push(t, <<f>>)
    <3> DEFINE F == <<f>>
    <3>1. F \in Seq(Frame) /\ Goto(t, F \o Rest(t))
      BY <2>5, <2>7
    <3> HIDE DEF F
    <3>2. Push(t, F)
      BY <1>1, <3>1, Gotos
    <3> QED BY <3>2 DEF F
  <2>9. \A m \in Entry : m # n /\ "ACTIVATION" \in bits[m] => "ACTIVATION" \in bits'[m]
    BY <1>3, <2>5
  <2>10. LoopTakes(t, act, n)
    BY <2>2, <2>5, <2>6, <2>8, <2>9 DEF LoopTakes
  <2> QED BY <1>3, <2>5, <2>10
<1> QED BY <1>6, <1>7
\* The loop's step, whether the loop begins or goes on after a callback; in the
\* second case the command it took before is released and its vdev given up.
LEMMA LoopSound ==
  ASSUME IInv, NEW t \in Ctx, ~Idle(t), Top(t).k \in {"cancel", "resume"}, NEW act \in BOOLEAN,
         Top(t).k = "resume" => Top(t).act = act,
         UNCHANGED <<blocking, cmd, adminVars, posted>>,
         bits' \in [Entry -> SUBSET {"ACTIVATION", "REMOVAL", "CANCEL", "MOVEMENT"}],
         blocking_cmd_waiting' \in 0 .. CounterMod - 1,
         IF Top(t).k = "resume"
         THEN released' = [released EXCEPT ![Top(t).n] = @ + 1]
         ELSE released' = released,
         IF Top(t).k = "resume" /\ act
         THEN /\ bitmap' = bitmap \ {Vd(Top(t).n)}
              /\ blocking_cmd_active' = (blocking_cmd_active /\ ~Blk(Top(t).n))
         ELSE UNCHANGED <<bitmap, blocking_cmd_active>>,
         LoopEnds(t, act) \/ \E n : LoopTakes(t, act, n)
  PROVE  Sound
<1>0. PICK f \in Frame : f = Top(t)
  BY TopFrame DEF IInv, PlaceInv
<1> DEFINE X == IF f.k = "resume" /\ act THEN {f.n} ELSE {}
<1>1. /\ PlaceInv /\ TypeOK /\ VdevLink
      /\ active \in Seq(Entry) /\ IsInjective(active) /\ ToSet(active) \subseteq Used
      /\ pending \in Seq(Entry) /\ IsInjective(pending) /\ ToSet(pending) \subseteq Used
      /\ released \in [Entry -> Nat] /\ timer \in [Entry -> {"off", "armed", "expired", "lost"}]
      /\ bitmap \subseteq Vdev /\ blocking_cmd_active \in BOOLEAN
  BY DEF IInv, PlaceInv, TypeOK
<1>2. /\ \A m : ~OnTop(t, Acts, m) /\ ~TopMoves(t)
      /\ \A m : OnTop(t, Ends, m) <=> f.k = "resume" /\ m = f.n
      /\ \A m : OnTop(t, Leaving, m) <=> m \in X
  BY <1>0 DEF OnTop, Acts, Ends, Leaving, TopMoves
<1>3. f.k = "resume" => f.n \in Entry /\ f.n \notin Listed
  <2>1. f.k = "resume" => f.n \in Entry /\ OnTop(t, Ends, f.n)
    BY <1>2, FrameFields
  <2> QED BY <1>1, <2>1, TopClaims DEF PlaceInv, EndLink
<1>4. released' = [m \in Entry |-> IF OnTop(t, Ends, m) THEN released[m] + 1 ELSE released[m]]
  BY <1>0, <1>1, <1>2, <1>3
<1>5. \/ X = {} /\ bitmap' = bitmap /\ blocking_cmd_active' = blocking_cmd_active
      \/ \E n : /\ X = {n}
                /\ bitmap' = bitmap \ {Vd(n)}
                /\ blocking_cmd_active' = (blocking_cmd_active /\ ~Blk(n))
  BY <1>0
<1>6. bitmap' \subseteq Vdev /\ blocking_cmd_active' \in BOOLEAN
  BY <1>1, <1>5
<1>7. f.k = "resume" /\ act => f.n \in Held
  <2>1. f.k = "resume" /\ act => f.n \in Entry /\ OnTop(t, Leaving, f.n)
    BY <1>2, <1>3
  <2> QED BY <2>1, <1>1, TopClaims DEF Held
<1>8. CASE LoopEnds(t, act)
  <2> DEFINE F == IF act THEN <<After>> ELSE <<>>
  <2>1. /\ Push(t, F) /\ UNCHANGED <<active, pending, timer>>
        /\ \A m \in Entry : "ACTIVATION" \in bits[m] => "ACTIVATION" \in bits'[m]
    BY <1>8 DEF LoopEnds
  <2>2. /\ F \in Seq(Frame)
        /\ \A i \in DOMAIN F : F[i] = After
        /\ act => 1 \in DOMAIN F
    BY NewFrames, Pushed
  <2>3. After.k = "after" /\ After \notin Acts /\ After \notin Ends /\ After \notin Leaving
    BY DEF After, Acts, Ends, Leaving
  <2> HIDE DEF F
  <2>4. /\ \A m : \A K \in {Acts, Ends, Leaving} : ~InF(F, K, m)
        /\ MovesOK(F) /\ (act => Moves(F))
    BY <2>2, <2>3 DEF InF, MovesOK, Moves
  <2>5. /\ ToSet(active)' = ToSet(active) /\ ToSet(pending)' = ToSet(pending) /\ Listed' = Listed
        /\ ListsOK'
    BY <1>1, <2>1 DEF Listed, ListsOK
  <2>6. LeavePlaces(t, F)
    BY <1>4, <2>1, <2>2, <2>3, <2>4, <2>5 DEF LeavePlaces
  <2>7. LeaveHeld(t, F, X)
    <3>1. X # {} => act
      OBVIOUS
    <3> HIDE DEF X
    <3> QED BY <1>2, <1>5, <2>4, <2>5, <3>1 DEF LeaveHeld
  <2>8. Leave(t, F, X)
    BY <2>1, <2>2, <2>5, <2>6, <2>7 DEF Leave
  <2>9. AdminOK' /\ TimersOK
    BY <1>1, <1>6, <2>1 DEF AdminOK, TimersOK, PlaceInv, TimerLink, TypeOK, adminVars
  <2> QED BY <2>8, <2>9 DEF Sound, StepKind
<1>9. ASSUME NEW n, LoopTakes(t, act, n) PROVE Sound
  <2>0. PICK g \in Frame : g.k = "resume" /\ g.n = n /\ g.act = act /\ Push(t, <<g>>)
    BY <1>9 DEF LoopTakes
  <2> DEFINE F == <<g>>
  <2>1. /\ n \in Entry /\ timer' = [timer EXCEPT ![n] = "off"]
        /\ \A m \in Entry : m # n /\ "ACTIVATION" \in bits[m] => "ACTIVATION" \in bits'[m]
        /\ IF act
           THEN /\ n \in ToSet(active) /\ "ACTIVATION" \notin bits[n]
                /\ active' = Without(active, n) /\ pending' = pending
           ELSE /\ n \in ToSet(pending)
                /\ pending' = Without(pending, n) /\ active' = active
    BY <1>9 DEF LoopTakes
  <2>2. F \in Seq(Frame) /\ Push(t, F) /\ DOMAIN F = {1} /\ F[1] = g
    BY <2>0, Pushed
  <2>3. g \in Ends /\ g \notin Acts /\ (g \in Leaving <=> act)
    BY <2>0 DEF Ends, Acts, Leaving
  <2> HIDE DEF F
  <2>4. /\ \A m : InF(F, Ends, m) <=> m = n
        /\ \A m : InF(F, Leaving, m) <=> act /\ m = n
        /\ \A m : ~InF(F, Acts, m)
        /\ MovesOK(F)
    BY <2>0, <2>2, <2>3 DEF InF, MovesOK
  <2>5. ToSet(active) \cap ToSet(pending) = {}
    BY <1>1 DEF PlaceInv, ListLink
  <2>6. /\ ListsOK'
        /\ ToSet(active)' = IF act THEN ToSet(active) \ {n} ELSE ToSet(active)
        /\ ToSet(pending)' = IF act THEN ToSet(pending) ELSE ToSet(pending) \ {n}
    <3>1. CASE act
      BY <3>1, <1>1, <2>1, WithoutList DEF ListsOK
    <3>2. CASE ~act
      BY <3>2, <1>1, <2>1, WithoutList DEF ListsOK
    <3> QED BY <3>1, <3>2
  <2>7. \A m : m \in Listed \ Listed' <=> m = n
    BY <2>1, <2>5, <2>6 DEF Listed
  <2>8. LeavePlaces(t, F)
    <3>1. \A m \in ToSet(active) \ ToSet(active)' : "ACTIVATION" \notin bits[m]
      BY <2>1, <2>6
    <3>2. \A m \in Entry : "ACTIVATION" \in bits[m] => "ACTIVATION" \in bits'[m] \/ m \notin ToSet(active)'
      BY <2>1, <2>5, <2>6
    <3> QED BY <1>4, <2>2, <2>3, <2>4, <2>6, <2>7, <3>1, <3>2 DEF LeavePlaces
  <2>9. LeaveHeld(t, F, X)
    <3>1. \A m : InF(F, Leaving, m) <=> m \in (ToSet(active) \ ToSet(active)') \ X
      BY <1>1, <1>3, <2>1, <2>4, <2>6 DEF Listed
    <3>2. X # {} => bitmap' # {}
      <4> SUFFICES ASSUME f.k = "resume", act PROVE bitmap' # {}
        OBVIOUS
      <4>1. n \in Held /\ f.n \in Held /\ n # f.n
        BY <1>1, <1>3, <1>7, <2>1 DEF Held, Listed
      <4>2. Vd(n) \in bitmap /\ Vd(n) # Vd(f.n)
        BY <1>1, <4>1 DEF VdevLink
      <4>3. bitmap' = bitmap \ {Vd(f.n)}
        BY <1>0
      <4> QED BY <4>2, <4>3
    <3> HIDE DEF X
    <3> QED BY <1>2, <1>5, <2>4, <3>1, <3>2 DEF LeaveHeld
  <2>10. Leave(t, F, X)
    BY <2>2, <2>6, <2>8, <2>9 DEF Leave
  <2>11. AdminOK' /\ TimersOK
    BY <1>1, <1>6, <2>1 DEF AdminOK, TimersOK, PlaceInv, TimerLink, TypeOK, adminVars
  <2> QED BY <2>10, <2>11 DEF Sound, StepKind
<1> QED BY <1>8, <1>9

LEMMA CancelLoopSound ==
  ASSUME IInv, NEW t \in Ctx, wlan_ser_cancel_non_scan_cmd(t)
  PROVE  Sound
<1>0. ~Idle(t) /\ Top(t).k = "cancel" /\ TypeOK
  BY DEF wlan_ser_cancel_non_scan_cmd, At, Idle, IInv, PlaceInv
<1>1. PICK f \in Frame : f = Top(t) /\ Rest(t) = Below(t)
  BY <1>0, TopFrame
<1>2. f.set \in SUBSET Cmd /\ f.one \in BOOLEAN /\ f.act \in BOOLEAN
  BY <1>0, <1>1, FrameFields
<1> DEFINE left == Len(IF f.act THEN active ELSE pending)
<1>3. /\ CancelLoop(t, f.set, f.one, f.act, None, left, Rest(t))
      /\ UNCHANGED <<blocking, cmd, bitmap, blocking_cmd_active, blocking_cmd_waiting,
                     adminVars, posted, released>>
  BY <1>1 DEF wlan_ser_cancel_non_scan_cmd
<1>4. left \in 0 .. MaxReq
  BY <1>0, <1>2, ListLength DEF TypeOK
<1> HIDE DEF left
<1>5. /\ bits' \in [Entry -> SUBSET {"ACTIVATION", "REMOVAL", "CANCEL", "MOVEMENT"}]
      /\ LoopEnds(t, f.act) \/ \E n : LoopTakes(t, f.act, n)
  BY <1>2, <1>3, <1>4, CancelEffect DEF IInv
<1>6. blocking_cmd_waiting' \in 0 .. CounterMod - 1
  BY <1>0, <1>3 DEF TypeOK
<1> QED BY <1>0, <1>1, <1>2, <1>3, <1>5, <1>6, LoopSound

LEMMA ResumeSound ==
  ASSUME IInv, NEW t \in Ctx, cancel_resume(t)
  PROVE  Sound
<1>0. ~Idle(t) /\ Top(t).k = "resume" /\ TypeOK
  BY DEF cancel_resume, At, Idle, IInv, PlaceInv
<1>1. PICK f \in Frame : f = Top(t) /\ Rest(t) = Below(t)
  BY <1>0, TopFrame
<1>2. /\ f.set \in SUBSET Cmd /\ f.one \in BOOLEAN /\ f.act \in BOOLEAN
      /\ f.n \in Entry /\ f.prev \in Entry \cup {None} /\ f.left \in 0 .. MaxReq
  BY <1>0, <1>1, FrameFields
<1>3. /\ released' = [released EXCEPT ![f.n] = @ + 1]
      /\ IF f.act
         THEN /\ bitmap' = bitmap \ {Vd(f.n)}
              /\ blocking_cmd_active' = (blocking_cmd_active /\ ~Blk(f.n))
              /\ UNCHANGED blocking_cmd_waiting
         ELSE /\ blocking_cmd_waiting' =
                   IF Blk(f.n) THEN (blocking_cmd_waiting + CounterMod - 1) % CounterMod
                               ELSE blocking_cmd_waiting
              /\ UNCHANGED <<bitmap, blocking_cmd_active>>
      /\ IF f.one
         THEN /\ Goto(t, IF f.act THEN <<After>> \o Rest(t) ELSE Rest(t))
              /\ UNCHANGED <<active, pending, bits, timer>>
         ELSE CancelLoop(t, f.set, f.one, f.act, f.prev, f.left, Rest(t))
      /\ UNCHANGED <<blocking, cmd, adminVars, posted>>
  BY <1>1 DEF cancel_resume
<1>4. /\ bits' \in [Entry -> SUBSET {"ACTIVATION", "REMOVAL", "CANCEL", "MOVEMENT"}]
      /\ LoopEnds(t, f.act) \/ \E n : LoopTakes(t, f.act, n)
  <2>1. CASE f.one
    <3>1. UNCHANGED <<active, pending, bits, timer>>
      BY <1>3, <2>1
    <3> DEFINE a == <<After>>
    <3>2. a \in Seq(Frame) /\ Goto(t, IF f.act THEN a \o Rest(t) ELSE Rest(t))
      BY <1>3, <2>1, NewFrames, Pushed
    <3> HIDE DEF a
    <3>3. Push(t, IF f.act THEN a ELSE <<>>)
      BY <1>0, <3>2, Gotos
    <3>4. LoopEnds(t, f.act)
      BY <3>1, <3>3 DEF LoopEnds, a
    <3> QED BY <1>0, <3>1, <3>4 DEF TypeOK
  <2>2. CASE ~f.one
    BY <1>2, <1>3, <2>2, CancelEffect DEF IInv
  <2> QED BY <2>1, <2>2
<1>5. blocking_cmd_waiting' \in 0 .. CounterMod - 1
  <2>1. CounterMod \in Nat /\ CounterMod > 0 /\ blocking_cmd_waiting \in 0 .. CounterMod - 1
    BY <1>0, SerializationAssumption DEF TypeOK, SerializationAssumption
  <2>2. (blocking_cmd_waiting + CounterMod - 1) % CounterMod \in 0 .. CounterMod - 1
    BY <2>1
  <2> QED BY <1>3, <2>1, <2>2
<1> QED BY <1>0, <1>1, <1>2, <1>3, <1>4, <1>5, LoopSound
-----------------------------------------------------------------------------
(* The invariant *)

LEMMA NextSound ==
  ASSUME IInv, [Next]_vars
  PROVE  Sound
<1>1. PlaceInv
  BY DEF IInv
<1>2. ASSUME NEW t \in Ctx, Step(t) PROVE Sound
  BY <1>1, <1>2, StartSound, TestedSound, ActivateDoneSound, MovingSound, ReleaseSound,
     CancelLoopSound, ResumeSound, AfterSound, TimeoutSound DEF Step
<1>3. ASSUME NEW t \in Ctx, Call(t) PROVE Sound
  BY <1>1, <1>3, RequestSound, RefusedSound, CompletionSound, CancelSound DEF Call
<1>4. ASSUME NEW n \in Entry, timer_handler(n) \/ timer_handler_failed(n) \/ generic_timer_cb(n) PROVE Sound
  BY <1>1, <1>4, TimerSound, GenericTimerSound
<1>5. CASE UNCHANGED vars
  <2>1. Still
    BY <1>5 DEF vars, listVars, Still
  <2>2. AdminOK' /\ TimersOK
    BY <1>1, <1>5 DEF vars, listVars, adminVars, timerVars, AdminOK, TimersOK, PlaceInv, TimerLink, TypeOK
  <2> QED BY <2>1, <2>2 DEF Sound, StepKind
<1> QED BY <1>2, <1>3, <1>4, <1>5 DEF Next

LEMMA InitIInv == Init => IInv
<1> SUFFICES ASSUME Init PROVE IInv
  OBVIOUS
<1>1. /\ MaxReq \in Nat /\ MaxCancel \in Nat /\ CounterMod \in Nat /\ CounterMod > 0
      /\ None \notin Cmd
  BY SerializationAssumption DEF SerializationAssumption
<1>2. \A t \in Ctx : stack[t] = <<>> /\ DOMAIN stack[t] = {}
  BY Pushed DEF Init
<1>3. Used = {} /\ ToSet(active) = {} /\ ToSet(pending) = {} /\ Listed = {}
  BY <1>1, Pushed DEF Init, Used, ToSet, Listed
<1>4. \A K, n : ~Claimed(K, n) /\ Once(K)
  BY <1>2 DEF Claimed, Once
<1>5. TypeOK
  <2>1. <<>> \in Seq(Entry) /\ IsInjective(<<>>)
    BY Pushed, EmptySeq DEF IsInjective
  <2>2. \A list \in {active, pending} : list \in Seq(Entry) /\ ToSet(list) \subseteq Used /\ IsInjective(list)
    BY <2>1, <1>3 DEF Init
  <2>3. stack \in [Ctx -> Seq(Frame)]
    BY Pushed DEF Init
  <2>4. /\ blocking \in Families /\ blocking_cmd_active \in BOOLEAN /\ blocking_cmd_waiting \in 0 .. CounterMod - 1
        /\ bitmap \subseteq Vdev /\ queue_disable \subseteq Vdev /\ cancels \in 0 .. MaxCancel
        /\ posted \subseteq Used
    <3>1. \A k \in Nat : 0 \in 0 .. k
      OBVIOUS
    <3>2. 0 \in 0 .. MaxCancel /\ 0 \in 0 .. CounterMod - 1
      BY <1>1, <3>1
    <3>3. FALSE \in BOOLEAN /\ \A S : {} \subseteq S
      OBVIOUS
    <3> QED BY <3>2, <3>3 DEF Init
  <2>5. /\ cmd \in [Entry -> Cmd \cup {None}]
        /\ bits \in [Entry -> SUBSET {"ACTIVATION", "REMOVAL", "CANCEL", "MOVEMENT"}]
        /\ timer \in [Entry -> {"off", "armed", "expired", "lost"}]
        /\ released \in [Entry -> Nat]
    BY DEF Init
  <2> QED BY <2>2, <2>3, <2>4, <2>5 DEF TypeOK
<1>6. ListLink
  <2>1. Cardinality(Used) = 0
    BY <1>3, FS_EmptySet
  <2> QED BY <1>3, <2>1 DEF ListLink
<1>7. ActLink /\ EndLink
  BY <1>3, <1>4 DEF ActLink, EndLink, Init
<1>8. MoveLink /\ TimerLink
  BY <1>2 DEF MoveLink, TimerLink, Init
<1>9. Held = {}
  BY <1>3, <1>4 DEF Held
<1>10. VdevLink /\ BlockLink /\ StrandLink
  BY <1>9 DEF Init, VdevLink, BlockLink, StrandLink
<1> QED BY <1>5, <1>6, <1>7, <1>8, <1>10 DEF IInv, PlaceInv

\* Every command accepted is on one list, or in the hands of one call, or
\* released; what holds the vdevs is what the bitmap and the flag say.
THEOREM Invariance == Spec => []IInv
<1>1. IInv /\ [Next]_vars => IInv'
  <2> SUFFICES ASSUME IInv, [Next]_vars PROVE IInv'
    OBVIOUS
  <2>1. StepKind /\ AdminOK' /\ TimersOK
    BY NextSound DEF Sound
  <2>2. PlaceInv'
    BY <2>1, PlaceInvNext DEF IInv
  <2> QED BY <2>1, <2>2, HeldInvNext DEF IInv
<1> QED BY InitIInv, <1>1, PTL DEF Spec

\* The types, among them that a list holds accepted commands, each once.
THEOREM TypeCorrect == Spec => []TypeOK
<1>1. IInv => TypeOK
  BY DEF IInv, PlaceInv
<1> QED BY Invariance, <1>1, PTL

\* The callback with WLAN_SER_CB_RELEASE_MEM_CMD comes once for every command that
\* leaves, whichever of completion, timeout, failed activation and cancel takes it out.
THEOREM CommandReleasedOnce == Spec => []ReleasedOnce
<1>1. ASSUME IInv PROVE ReleasedOnce
  <2>0. PlaceInv /\ TypeOK /\ ToSet(active) \cap ToSet(pending) = {} /\ Used \subseteq Entry
    BY <1>1 DEF IInv, PlaceInv, ListLink, Used
  <2> DEFINE waits(n) == {p \in Places : FrameAt(p).k \in {"release", "resume"} /\ FrameAt(p).n = n}
  <2> SUFFICES ASSUME NEW n \in Used
               PROVE  (IF n \in ToSet(active) THEN 1 ELSE 0) + (IF n \in ToSet(pending) THEN 1 ELSE 0)
                        + Cardinality(waits(n)) + released[n] = 1
    BY DEF ReleasedOnce
  <2>1. \A p \in Places : /\ p[1] \in Ctx /\ p[2] \in DOMAIN stack[p[1]] /\ p = <<p[1], p[2]>>
                          /\ FrameAt(p) = stack[p[1]][p[2]]
    BY DEF Places, FrameAt
  <2>2. \A t \in Ctx : \A i \in DOMAIN stack[t] :
          /\ <<t, i>> \in Places /\ FrameAt(<<t, i>>) = stack[t][i]
          /\ stack[t][i] \in Frame
    <3>1. \A t \in Ctx : stack[t] \in Seq(Frame)
      BY <2>0 DEF TypeOK
    <3>2. \A t \in Ctx : \A i \in DOMAIN stack[t] : stack[t][i] \in Frame
      BY <3>1, LenProperties, ElementOfSeq
    <3> QED BY <3>2 DEF Places, FrameAt
  <2>3. \A p \in waits(n) : stack[p[1]][p[2]] \in Ends /\ stack[p[1]][p[2]].n = n
    BY <2>1, <2>2 DEF Ends
  <2>4. \A p, q \in waits(n) : p = q
    <3> TAKE p, q \in waits(n)
    <3>1. p[1] = q[1] /\ p[2] = q[2]
      BY <2>0, <2>1, <2>3 DEF PlaceInv, EndLink, Once
    <3> QED BY <2>1, <3>1
  <2>5. waits(n) # {} <=> Claimed(Ends, n)
    <3>1. ASSUME NEW t \in Ctx, NEW i \in DOMAIN stack[t], stack[t][i] \in Ends, stack[t][i].n = n
          PROVE  <<t, i>> \in waits(n)
      BY <2>2, <3>1 DEF Ends
    <3>2. ASSUME NEW p \in waits(n) PROVE Claimed(Ends, n)
      BY <2>1, <2>3 DEF Claimed
    <3> HIDE DEF waits
    <3> QED BY <3>1, <3>2 DEF Claimed
  <2> HIDE DEF waits
  <2>6. Cardinality(waits(n)) = IF Claimed(Ends, n) THEN 1 ELSE 0
    <3>1. CASE Claimed(Ends, n)
      <4>1. PICK p : waits(n) = {p}
        BY <3>1, <2>4, <2>5
      <4> QED BY <3>1, <4>1, FS_Singleton
    <3>2. CASE ~Claimed(Ends, n)
      <4>1. waits(n) = {}
        BY <3>2, <2>5
      <4> QED BY <3>2, <4>1, FS_EmptySet
    <3> QED BY <3>1, <3>2
  <2>7. /\ Claimed(Ends, n) => n \in Used \ Listed
        /\ released[n] = IF n \in Used \ Listed /\ ~Claimed(Ends, n) THEN 1 ELSE 0
    BY <2>0 DEF PlaceInv, EndLink
  <2>8. CASE n \in Listed
    BY <2>0, <2>6, <2>7, <2>8 DEF Listed
  <2>9. CASE n \notin Listed
    BY <2>6, <2>7, <2>9 DEF Listed
  <2> QED BY <2>8, <2>9
<1> QED BY Invariance, <1>1, PTL

LEMMA FramesTyped ==
  ASSUME TypeOK
  PROVE  /\ AllFrames \subseteq Frame
         /\ \A f : f \in AllFrames <=> \E t \in Ctx : \E i \in DOMAIN stack[t] : stack[t][i] = f
<1>1. \A t \in Ctx : stack[t] \in Seq(Frame)
  BY DEF TypeOK
<1>2. \A t \in Ctx : \A i \in DOMAIN stack[t] : stack[t][i] \in Frame
  BY <1>1, LenProperties, ElementOfSeq
<1>3. \A f : f \in AllFrames <=> \E t \in Ctx : \E i \in DOMAIN stack[t] : stack[t][i] = f
  BY DEF AllFrames, Frames, ToSet
<1> QED BY <1>2, <1>3

\* CMD_MARKED_FOR_ACTIVATION: nothing takes a command out of the active list
\* between the lock's release and the end of its activation callback.
THEOREM ActivationIsProtected == Spec => []ActivationProtected
<1>1. ASSUME IInv PROVE ActivationProtected
  <2>1. TypeOK /\ ActLink
    BY <1>1 DEF IInv, PlaceInv
  <2> SUFFICES ASSUME NEW f \in AllFrames, f.k \in {"start", "called"}
               PROVE  f.n \in ToSet(active) /\ "ACTIVATION" \in bits[f.n]
    BY DEF ActivationProtected
  <2>2. f \in Frame /\ \E t \in Ctx : \E i \in DOMAIN stack[t] : stack[t][i] = f
    BY <2>1, FramesTyped
  <2>3. f \in Acts /\ f.n \in Entry
    BY <2>2, FrameFields DEF Acts
  <2> QED BY <2>1, <2>2, <2>3 DEF ActLink, Claimed
<1> QED BY Invariance, <1>1, PTL

LEMMA HeldBy ==
  ASSUME TypeOK
  PROVE  Held = ToSet(active) \cup {f.n : f \in {g \in AllFrames : g.k = "resume" /\ g.act}}
<1>1. ToSet(active) \subseteq Entry
  BY DEF TypeOK, Used
<1>2. \A n : n \in {f.n : f \in {g \in AllFrames : g.k = "resume" /\ g.act}} <=> n \in Entry /\ Claimed(Leaving, n)
  BY FramesTyped, FrameFields DEF Leaving, Claimed
<1> QED BY <1>1, <1>2 DEF Held

\* If all commands block or none does, the bitmap and the flag are exact at
\* every moment: every admission, move and cancel rests on them.
THEOREM ActiveIsCovered ==
  ASSUME Families \subseteq {Cmd, {}}
  PROVE  Spec => []ActiveCovered
<1>1. ASSUME IInv PROVE ActiveCovered
  <2>1. TypeOK /\ VdevLink /\ BlockLink /\ blocking \in {Cmd, {}}
    BY <1>1 DEF IInv, PlaceInv, TypeOK
  <2> DEFINE held == ToSet(active) \cup {f.n : f \in {g \in AllFrames : g.k = "resume" /\ g.act}}
  <2>2. Held = held
    BY <2>1, HeldBy
  <2>3. /\ bitmap = {Vd(n) : n \in Held}
        /\ blocking_cmd_active <=> \E n \in Held : Blk(n)
        /\ blocking_cmd_active \in BOOLEAN
    BY <2>1 DEF VdevLink, BlockLink, TypeOK
  <2>4. blocking_cmd_active = \E n \in Held : Blk(n)
    BY <2>3
  <2>5. bitmap = {Vd(n) : n \in held} /\ blocking_cmd_active = \E n \in held : Blk(n)
    BY <2>2, <2>3, <2>4
  <2> HIDE DEF Vd, Blk
  <2> QED BY <2>5 DEF ActiveCovered
<1> QED BY Invariance, <1>1, PTL

\* ... a vdev has one active command at most, and a blocking one is alone.
THEOREM BlockingIsAlone ==
  ASSUME Families \subseteq {Cmd, {}}
  PROVE  Spec => []BlockingAlone
<1>1. ASSUME IInv PROVE BlockingAlone
  <2>1. TypeOK /\ VdevLink /\ BlockLink /\ blocking \in {Cmd, {}}
    BY <1>1 DEF IInv, PlaceInv, TypeOK
  <2>2. ToSet(active) \subseteq Held
    BY <2>1, HeldBy
  <2> QED BY <2>1, <2>2 DEF VdevLink, BlockLink, BlockingAlone
<1> QED BY Invariance, <1>1, PTL

\* A pending command that nothing will look for does not exist: with no call
\* under way, something is active, and its end moves the next one.
THEOREM NobodyStranded == Spec => []NoStranded
<1>1. ASSUME IInv PROVE NoStranded
  <2> SUFFICES ASSUME blocking = Cmd, \A t \in Ctx : Idle(t), pending # <<>> PROVE active # <<>>
    BY DEF NoStranded
  <2>1. \A t \in Ctx : DOMAIN stack[t] = {}
    BY Pushed DEF Idle
  <2>2. ~Mover /\ \A n : ~Claimed(Leaving, n)
    BY <2>1 DEF Mover, Claimed
  <2>3. Held # {}
    BY <1>1, <2>2 DEF IInv, StrandLink
  <2>4. ToSet(active) # {}
    BY <2>2, <2>3 DEF Held
  <2>5. active = <<>> => ToSet(active) = {}
    BY Pushed DEF ToSet
  <2> QED BY <2>4, <2>5
<1> QED BY Invariance, <1>1, PTL
=============================================================================
