----------------------- MODULE BrickMapController_proof -----------------------
(***************************************************************************)
(* Proofs about BrickMapController, for any clients and files and any      *)
(* number of writes, of remote calls that fail and of restarts.            *)
(***************************************************************************)
EXTENDS BrickMapController, SequenceTheorems, WellFoundedInduction, TLAPS

Operations == Seq(Operation)

-----------------------------------------------------------------------------
(* Induction.  The library's induction theorems take a predicate as a       *)
(* parameter; that every set of numbers has a least element does not.       *)

LEMMA NatIsWellFounded == IsWellFoundedOn({ss \in Nat \X Nat : ss[1] < ss[2]}, Nat)
  BY NatLessThanWellFounded, Zenon DEF OpToRel

LEMMA Least ==
    ASSUME NEW T \in SUBSET Nat, T # {}
    PROVE  \E x \in T : \A y \in T : ~(y < x)
<1>1. \E x \in T : \A y \in T : ~(<<y, x>> \in {ss \in Nat \X Nat : ss[1] < ss[2]})
  BY ONLY NatIsWellFounded, WFMin, T \in SUBSET Nat, T # {}
<1> QED
  BY <1>1

\* A set that holds 0 and the successor of every number it holds has all of them.
LEMMA Induction ==
    ASSUME NEW S, 0 \in S, \A n \in Nat : n \in S => n + 1 \in S
    PROVE  Nat \subseteq S
<1>1. SUFFICES ASSUME Nat \ S # {} PROVE FALSE
  OBVIOUS
<1>2. PICK x \in Nat \ S : \A y \in Nat \ S : ~(y < x)
  BY <1>1, Least
<1>3. x # 0 /\ x - 1 \in Nat /\ x - 1 < x
  BY <1>2
<1> QED
  BY <1>2, <1>3

\* A set that holds the empty diff and, with a diff, that diff and one operation more,
\* has all of them.
LEMMA DiffInduction ==
    ASSUME NEW S, <<>> \in S,
           \A ops \in Operations, o \in Operation : ops \in S => Append(ops, o) \in S
    PROVE  Operations \subseteq S
<1> DEFINE T == {n \in Nat : \A ops \in Operations : Len(ops) = n => ops \in S}
<1>1. 0 \in T
  BY EmptySeq DEF Operations
<1>2. ASSUME NEW n \in Nat, n \in T PROVE n + 1 \in T
  <2>1. SUFFICES ASSUME NEW ops \in Operations, Len(ops) = n + 1 PROVE ops \in S
    OBVIOUS
  <2>2. ops # <<>>
    BY <2>1
  <2>3. PICK s \in Operations, o \in Operation : ops = Append(s, o)
    BY <2>1, <2>2, SequenceEmptyOrAppend DEF Operations
  <2>4. Len(s) = n
    BY <2>1, <2>3, AppendProperties, LenProperties DEF Operations
  <2> QED
    BY <1>2, <2>3, <2>4
<1>3. Nat \subseteq T
  <2> HIDE DEF T
  <2> QED
    BY <1>1, <1>2, Induction
<1>4. \A ops \in Operations : Len(ops) \in Nat
  BY LenProperties DEF Operations
<1> QED
  BY <1>3, <1>4

-----------------------------------------------------------------------------
(* What replaying a diff does *)

\* The brick maps that Replay goes through, one after each operation.
IsRun(g, map, ops) ==
    g = [i \in 0..Len(ops) |-> IF i = 0 THEN map ELSE Apply(g[i - 1], ops[i])]

LEMMA RunExists ==
    ASSUME NEW map, NEW ops \in Operations
    PROVE  \E g : IsRun(g, map, ops)
<1> DEFINE Run(g, n) == g = [i \in 0..n |-> IF i = 0 THEN map ELSE Apply(g[i - 1], ops[i])]
           T == {n \in Nat : \E g : Run(g, n)}
<1>1. 0 \in T
  <2>1. Run([i \in 0..0 |-> map], 0)
    OBVIOUS
  <2> QED
    BY <2>1
<1>2. ASSUME NEW n \in Nat, n \in T PROVE n + 1 \in T
  <2>1. PICK g : Run(g, n)
    BY <1>2
  <2> DEFINE h == [i \in 0..(n + 1) |-> IF i = n + 1 THEN Apply(g[n], ops[n + 1]) ELSE g[i]]
  <2>2. \A i \in 0..(n + 1) : h[i] = IF i = 0 THEN map ELSE Apply(h[i - 1], ops[i])
    <3> TAKE i \in 0..(n + 1)
    <3>1. CASE i = n + 1
      BY <3>1
    <3>2. CASE i # n + 1
      <4>1. i \in 0..n /\ (i # 0 => i - 1 \in 0..n /\ i - 1 # n + 1 /\ i - 1 \in 0..(n + 1))
        BY <3>2
      <4>2. g[i] = IF i = 0 THEN map ELSE Apply(g[i - 1], ops[i])
        BY <2>1, <4>1
      <4> QED
        BY <3>2, <4>1, <4>2
    <3> QED
      BY <3>1, <3>2
  <2>3. Run(h, n + 1)
    BY <2>2
  <2> HIDE DEF h
  <2>4. \E f : Run(f, n + 1)
    BY <2>3
  <2> QED
    BY <2>4
<1>3. Nat \subseteq T
  <2> HIDE DEF T
  <2> QED
    BY <1>1, <1>2, Induction
<1>4. Len(ops) \in T
  BY <1>3, LenProperties DEF Operations
<1>5. PICK g : Run(g, Len(ops))
  BY <1>4
<1> QED
  BY <1>5 DEF IsRun

LEMMA ReplayIsRun ==
    ASSUME NEW map, NEW ops \in Operations
    PROVE  \E g : IsRun(g, map, ops) /\ Replay(map, ops) = g[Len(ops)]
<1> DEFINE g == CHOOSE g : IsRun(g, map, ops)
<1>1. IsRun(g, map, ops)
  BY RunExists
<1>2. Replay(map, ops) = g[Len(ops)]
  BY Zenon DEF Replay, IsRun
<1> QED
  BY <1>1, <1>2

\* Runs agree on what their diffs have in common.
LEMMA RunsAgree ==
    ASSUME NEW map, NEW a \in Operations, NEW b \in Operations, NEW n \in Nat,
           n <= Len(a), n <= Len(b), \A i \in 1..n : a[i] = b[i],
           NEW g, NEW h, IsRun(g, map, a), IsRun(h, map, b)
    PROVE  g[n] = h[n]
<1> DEFINE T == {m \in Nat : m <= n => g[m] = h[m]}
<1>1. Len(a) \in Nat /\ Len(b) \in Nat
  BY LenProperties DEF Operations
<1>2. 0 \in T
  BY <1>1 DEF IsRun
<1>3. ASSUME NEW m \in Nat, m \in T PROVE m + 1 \in T
  <2>1. SUFFICES ASSUME m + 1 <= n PROVE g[m + 1] = h[m + 1]
    OBVIOUS
  <2>2. m + 1 \in 0..Len(a) /\ m + 1 \in 0..Len(b) /\ m + 1 # 0 /\ (m + 1) - 1 = m /\ m <= n
        /\ m + 1 \in 1..n
    BY <2>1, <1>1
  <2>3. g[m + 1] = Apply(g[(m + 1) - 1], a[m + 1])
    BY <2>2 DEF IsRun
  <2>4. h[m + 1] = Apply(h[(m + 1) - 1], b[m + 1])
    BY <2>2 DEF IsRun
  <2> QED
    BY <1>3, <2>2, <2>3, <2>4
<1>4. Nat \subseteq T
  <2> HIDE DEF T
  <2> QED
    BY <1>2, <1>3, Induction
<1> QED
  BY <1>4

\* Nothing to replay.
LEMMA ReplayEmpty == \A map : Replay(map, <<>>) = map
<1> TAKE map
<1>1. <<>> \in Operations /\ Len(<<>>) = 0
  BY EmptySeq DEF Operations
<1>2. PICK g : IsRun(g, map, <<>>) /\ Replay(map, <<>>) = g[Len(<<>>)]
  BY <1>1, ReplayIsRun
<1> QED
  BY <1>1, <1>2 DEF IsRun

\* One operation more.
LEMMA ReplayAppend ==
    ASSUME NEW map, NEW ops \in Operations, NEW o \in Operation
    PROVE  Replay(map, Append(ops, o)) = Apply(Replay(map, ops), o)
<1> DEFINE longer == Append(ops, o)
<1>1. /\ longer \in Operations /\ Len(longer) = Len(ops) + 1 /\ Len(ops) \in Nat
      /\ longer[Len(ops) + 1] = o /\ \A i \in 1..Len(ops) : longer[i] = ops[i]
  BY AppendProperties, LenProperties DEF Operations
<1> HIDE DEF longer
<1>2. PICK g : IsRun(g, map, ops) /\ Replay(map, ops) = g[Len(ops)]
  BY ReplayIsRun
<1>3. PICK h : IsRun(h, map, longer) /\ Replay(map, longer) = h[Len(longer)]
  BY <1>1, ReplayIsRun
<1>4. g[Len(ops)] = h[Len(ops)]
  <2>1. Len(ops) <= Len(ops) /\ Len(ops) <= Len(longer)
        /\ \A i \in 1..Len(ops) : ops[i] = longer[i]
    BY <1>1
  <2> QED
    BY <1>1, <1>2, <1>3, <2>1, RunsAgree
<1>5. h[Len(ops) + 1] = Apply(h[(Len(ops) + 1) - 1], longer[Len(ops) + 1])
  BY <1>1, <1>3 DEF IsRun
<1>6. (Len(ops) + 1) - 1 = Len(ops)
  BY <1>1
<1>7. Replay(map, longer) = Apply(Replay(map, ops), o)
  BY <1>1, <1>2, <1>3, <1>4, <1>5, <1>6
<1> QED
  BY <1>7 DEF longer

\* One operation.
LEMMA ReplayOne ==
    ASSUME NEW map, NEW o \in Operation
    PROVE  Replay(map, <<o>>) = Apply(map, o)
<1>1. <<>> \in Operations /\ Append(<<>>, o) = <<o>>
  BY EmptySeq DEF Operations
<1> QED
  BY <1>1, ReplayAppend, ReplayEmpty

\* Two diffs, one after the other.
LEMMA ReplayConcat ==
    ASSUME NEW map, NEW a \in Operations, NEW b \in Operations
    PROVE  Replay(map, a \o b) = Replay(Replay(map, a), b)
<1> DEFINE S == {ops \in Operations : Replay(map, a \o ops) = Replay(Replay(map, a), ops)}
<1>1. <<>> \in S
  BY EmptySeq, ConcatEmptySeq, ReplayEmpty DEF Operations
<1>2. ASSUME NEW ops \in Operations, NEW o \in Operation, ops \in S
      PROVE  Append(ops, o) \in S
  <2>1. a \o Append(ops, o) = Append(a \o ops, o) /\ Append(ops, o) \in Operations
        /\ a \o ops \in Operations
    <3>1. Append(ops, o) = ops \o <<o>> /\ <<o>> \in Operations /\ a \o ops \in Operations
      BY AppendIsConcat, ConcatProperties DEF Operations
    <3>2. a \o (ops \o <<o>>) = (a \o ops) \o <<o>>
      BY <3>1, ConcatAssociative DEF Operations
    <3>3. Append(a \o ops, o) = (a \o ops) \o <<o>>
      BY <3>1, AppendIsConcat DEF Operations
    <3> QED
      BY <3>1, <3>2, <3>3, AppendProperties DEF Operations
  <2>2. Replay(map, a \o Append(ops, o)) = Apply(Replay(map, a \o ops), o)
    BY <2>1, ReplayAppend
  <2>3. Replay(Replay(map, a), Append(ops, o)) = Apply(Replay(Replay(map, a), ops), o)
    BY ReplayAppend
  <2> QED
    BY <1>2, <2>1, <2>2, <2>3
<1>3. Operations \subseteq S
  <2> HIDE DEF S
  <2> QED
    BY <1>1, <1>2, DiffInduction
<1> QED
  BY <1>3
-----------------------------------------------------------------------------
(* When replaying throws *)

LEMMA ThrowsEmpty == \A map : ~ReplayThrows(map, <<>>)
<1>1. 1..Len(<<>>) = {}
  BY EmptySeq
<1> QED
  BY <1>1 DEF ReplayThrows

\* One operation more.
LEMMA ThrowsAppend ==
    ASSUME NEW map, NEW ops \in Operations, NEW o \in Operation
    PROVE  ReplayThrows(map, Append(ops, o)) <=>
              ReplayThrows(map, ops) \/ Throws(Replay(map, ops), o)
<1> DEFINE longer == Append(ops, o)
           n == Len(ops)
<1>1. /\ longer \in Operations /\ Len(longer) = n + 1 /\ n \in Nat
      /\ longer[n + 1] = o /\ \A i \in 1..n : longer[i] = ops[i]
      /\ ops \in Seq(Operation) /\ longer \in Seq(Operation)
      /\ \A i \in 1..n : ops[i] \in Operation
  BY AppendProperties, LenProperties, ElementOfSeq DEF Operations
<1> HIDE DEF longer, n
<1>2. \A m \in 0..n : SubSeq(longer, 1, m) = SubSeq(ops, 1, m)
  <2> TAKE m \in 0..n
  <2>1. m \in Int /\ 1 \in Int /\ \A i \in 1..m : i \in 1..n
    BY <1>1
  <2>2. \A i \in 1..m : ops[i] \in Operation /\ longer[i] \in Operation
    BY <1>1, <2>1
  <2>3. /\ SubSeq(ops, 1, m) \in Seq(Operation) /\ Len(SubSeq(ops, 1, m)) = m
        /\ \A i \in 1..m : SubSeq(ops, 1, m)[i] = ops[i]
    BY <2>1, <2>2, SubSeqProperties
  <2>4. /\ SubSeq(longer, 1, m) \in Seq(Operation) /\ Len(SubSeq(longer, 1, m)) = m
        /\ \A i \in 1..m : SubSeq(longer, 1, m)[i] = longer[i]
    BY <2>1, <2>2, SubSeqProperties
  <2> QED
    BY <1>1, <2>1, <2>3, <2>4, SeqEqual
<1>3. SubSeq(longer, 1, n) = ops
  <2>1. SubSeq(ops, 1, n) = ops
    BY <1>1, SubSeqFull DEF n
  <2> QED
    BY <1>1, <1>2, <2>1
<1>4. ASSUME NEW i \in 1..n
      PROVE  Throws(Replay(map, SubSeq(longer, 1, i - 1)), longer[i])
                <=> Throws(Replay(map, SubSeq(ops, 1, i - 1)), ops[i])
  <2>1. SubSeq(longer, 1, i - 1) = SubSeq(ops, 1, i - 1)
    BY <1>1, <1>2
  <2> QED
    BY <1>1, <2>1
<1>5. Throws(Replay(map, SubSeq(longer, 1, (n + 1) - 1)), longer[n + 1])
         <=> Throws(Replay(map, ops), o)
  <2>1. (n + 1) - 1 = n
    BY <1>1
  <2> QED
    BY <1>1, <1>3, <2>1
<1>6. /\ n + 1 \in 1..Len(longer)
      /\ \A i \in 1..Len(longer) : i \in 1..n \/ i = n + 1
      /\ \A i \in 1..n : i \in 1..Len(longer)
  BY <1>1
<1>7. ReplayThrows(map, longer) <=> ReplayThrows(map, ops) \/ Throws(Replay(map, ops), o)
  BY <1>4, <1>5, <1>6 DEF ReplayThrows, n
<1> QED
  BY <1>7 DEF longer

\* One operation.
LEMMA ThrowsOne ==
    ASSUME NEW map, NEW o \in Operation
    PROVE  ReplayThrows(map, <<o>>) <=> Throws(map, o)
<1>1. <<>> \in Operations /\ Append(<<>>, o) = <<o>> /\ Replay(map, <<>>) = map
  BY EmptySeq, ReplayEmpty DEF Operations
<1> QED
  BY <1>1, ThrowsAppend, ThrowsEmpty

\* Two diffs, one after the other.
LEMMA ThrowsConcat ==
    ASSUME NEW map, NEW a \in Operations, NEW b \in Operations
    PROVE  ReplayThrows(map, a \o b) <=> ReplayThrows(map, a) \/ ReplayThrows(Replay(map, a), b)
<1> DEFINE S == {ops \in Operations : ReplayThrows(map, a \o ops) <=>
                    ReplayThrows(map, a) \/ ReplayThrows(Replay(map, a), ops)}
<1>1. <<>> \in S
  <2>1. <<>> \in Operations /\ a \o <<>> = a
    BY EmptySeq, ConcatEmptySeq DEF Operations
  <2> QED
    BY <2>1, ThrowsEmpty
<1>2. ASSUME NEW ops \in Operations, NEW o \in Operation, ops \in S
      PROVE  Append(ops, o) \in S
  <2>1. a \o Append(ops, o) = Append(a \o ops, o) /\ Append(ops, o) \in Operations
        /\ a \o ops \in Operations
    <3>1. Append(ops, o) = ops \o <<o>> /\ <<o>> \in Operations /\ a \o ops \in Operations
      BY AppendIsConcat, ConcatProperties DEF Operations
    <3>2. a \o (ops \o <<o>>) = (a \o ops) \o <<o>>
      BY <3>1, ConcatAssociative DEF Operations
    <3>3. Append(a \o ops, o) = (a \o ops) \o <<o>>
      BY <3>1, AppendIsConcat DEF Operations
    <3> QED
      BY <3>1, <3>2, <3>3, AppendProperties DEF Operations
  <2>2. ReplayThrows(map, a \o Append(ops, o)) <=>
           ReplayThrows(map, a \o ops) \/ Throws(Replay(map, a \o ops), o)
    BY <2>1, ThrowsAppend
  <2>3. ReplayThrows(Replay(map, a), Append(ops, o)) <=>
           ReplayThrows(Replay(map, a), ops) \/ Throws(Replay(Replay(map, a), ops), o)
    BY ThrowsAppend
  <2>4. Replay(map, a \o ops) = Replay(Replay(map, a), ops)
    BY ReplayConcat
  <2> QED
    BY <1>2, <2>1, <2>2, <2>3, <2>4
<1>3. Operations \subseteq S
  <2> HIDE DEF S
  <2> QED
    BY <1>1, <1>2, DiffInduction
<1> QED
  BY <1>3
-----------------------------------------------------------------------------
(* What sequences hold, and what one operation does to a brick map *)

USE BoundsAssumption

LEMMA ToSetAppend ==
    ASSUME NEW S, NEW s \in Seq(S), NEW e \in S
    PROVE  ToSet(Append(s, e)) = ToSet(s) \cup {e}
<1> DEFINE q == Append(s, e)
<1>1. /\ q \in Seq(S) /\ Len(q) = Len(s) + 1 /\ q[Len(s) + 1] = e
      /\ \A i \in 1..Len(s) : q[i] = s[i]
  BY AppendProperties
<1>2. Len(s) \in Nat /\ DOMAIN s = 1..Len(s) /\ DOMAIN q = 1..(Len(s) + 1)
  BY <1>1, LenProperties
<1> HIDE DEF q
<1>3. ToSet(q) = ToSet(s) \cup {e}
  <2>1. ASSUME NEW x \in ToSet(q) PROVE x \in ToSet(s) \cup {e}
    <3>1. PICK i \in 1..(Len(s) + 1) : x = q[i]
      BY <1>2 DEF ToSet
    <3>2. CASE i = Len(s) + 1
      BY <1>1, <3>1, <3>2
    <3>3. CASE i # Len(s) + 1
      BY <1>1, <1>2, <3>1, <3>3 DEF ToSet
    <3> QED
      BY <3>2, <3>3
  <2>2. ASSUME NEW x \in ToSet(s) PROVE x \in ToSet(q)
    <3>1. PICK i \in 1..Len(s) : x = s[i]
      BY <1>2 DEF ToSet
    <3>2. i \in DOMAIN q /\ q[i] = x
      BY <1>1, <1>2, <3>1
    <3> QED
      BY <3>2 DEF ToSet
  <2>3. e \in ToSet(q)
    <3>1. Len(s) + 1 \in DOMAIN q
      BY <1>2
    <3> QED
      BY <1>1, <3>1 DEF ToSet
  <2> QED
    BY <2>1, <2>2, <2>3
<1> QED
  BY <1>3 DEF q

LEMMA ToSetConcat ==
    ASSUME NEW S, NEW s \in Seq(S), NEW t \in Seq(S)
    PROVE  ToSet(s \o t) = ToSet(s) \cup ToSet(t)
<1> DEFINE q == s \o t
<1>1. /\ q \in Seq(S) /\ Len(q) = Len(s) + Len(t)
      /\ \A i \in 1..(Len(s) + Len(t)) : q[i] = IF i <= Len(s) THEN s[i] ELSE t[i - Len(s)]
  BY ConcatProperties
<1>2. /\ Len(s) \in Nat /\ DOMAIN s = 1..Len(s) /\ Len(t) \in Nat /\ DOMAIN t = 1..Len(t)
      /\ DOMAIN q = 1..(Len(s) + Len(t))
  BY <1>1, LenProperties
<1> HIDE DEF q
<1>3. ToSet(q) = ToSet(s) \cup ToSet(t)
  <2>1. ASSUME NEW x \in ToSet(q) PROVE x \in ToSet(s) \cup ToSet(t)
    <3>1. PICK i \in 1..(Len(s) + Len(t)) : x = q[i]
      BY <1>2 DEF ToSet
    <3>2. CASE i <= Len(s)
      BY <1>1, <1>2, <3>1, <3>2 DEF ToSet
    <3>3. CASE ~(i <= Len(s))
      <4>1. i - Len(s) \in DOMAIN t /\ x = t[i - Len(s)]
        BY <1>1, <1>2, <3>1, <3>3
      <4> QED
        BY <4>1 DEF ToSet
    <3> QED
      BY <3>2, <3>3
  <2>2. ASSUME NEW x \in ToSet(s) PROVE x \in ToSet(q)
    <3>1. PICK i \in 1..Len(s) : x = s[i]
      BY <1>2 DEF ToSet
    <3>2. i \in DOMAIN q /\ q[i] = x
      BY <1>1, <1>2, <3>1
    <3> QED
      BY <3>2 DEF ToSet
  <2>3. ASSUME NEW x \in ToSet(t) PROVE x \in ToSet(q)
    <3>1. PICK i \in 1..Len(t) : x = t[i]
      BY <1>2 DEF ToSet
    <3>2. i + Len(s) \in 1..(Len(s) + Len(t)) /\ ~(i + Len(s) <= Len(s)) /\ (i + Len(s)) - Len(s) = i
      BY <1>2
    <3>3. i + Len(s) \in DOMAIN q /\ q[i + Len(s)] = x
      BY <1>1, <1>2, <3>1, <3>2
    <3> QED
      BY <3>3 DEF ToSet
  <2> QED
    BY <2>1, <2>2, <2>3
<1> QED
  BY <1>3 DEF q

\* The bricks and the files of a diff are those of its parts.
LEMMA PartsOfConcat ==
    ASSUME NEW a \in Operations, NEW b \in Operations
    PROVE  /\ a \o b \in Operations
           /\ Bricks(a \o b) = Bricks(a) \cup Bricks(b)
           /\ Names(a \o b) = Names(a) \cup Names(b)
<1>1. a \o b \in Operations
  BY ConcatProperties DEF Operations
<1>2. ToSet(a \o b) = ToSet(a) \cup ToSet(b)
  BY ToSetConcat DEF Operations
<1>3. \A ops \in Operations : /\ Bricks(ops) = {o.brick : o \in ToSet(ops)}
                             /\ Names(ops) = {o.file : o \in ToSet(ops)}
  BY DEF Bricks, Names, ToSet
<1> QED
  BY <1>1, <1>2, <1>3

LEMMA ApplyEffect ==
    ASSUME NEW map \in BrickMap, NEW o \in Operation
    PROVE  /\ Apply(map, o) \in BrickMap
           /\ \A f \in Files : f # o.file => Apply(map, o)[f] = map[f]
           /\ o.op = "add" => Apply(map, o)[o.file] = FileNode(<<o.brick>>)
           /\ o.op = "append" =>
                 Apply(map, o)[o.file] = FileNode(Append(map[o.file].bricks, o.brick))
           /\ o.op = "truncate" => Apply(map, o)[o.file] = FileNode(<<>>)
           /\ o.op = "delete" =>
                 Apply(map, o)[o.file] \in
                    {map[o.file], [there |-> TRUE, deleted |-> TRUE, bricks |-> <<>>]}
           /\ o.op = "delete" /\ ~map[o.file].there => Apply(map, o)[o.file] = map[o.file]
<1> DEFINE node == map[o.file]
           next == CASE o.op = "add" -> FileNode(<<o.brick>>)
                     [] o.op = "append" -> FileNode(Append(node.bricks, o.brick))
                     [] o.op = "truncate" -> FileNode(<<>>)
                     [] o.op = "delete" /\ node.there /\ ~node.deleted ->
                           [there |-> TRUE, deleted |-> TRUE, bricks |-> <<>>]
                     [] OTHER -> node
<1>1. /\ o.file \in Files /\ o.brick \in 0..MaxWrites
      /\ o.op \in {"add", "append", "delete", "truncate"}
  BY DEF Operation, AllKinds
<1>2. node \in Node /\ node.bricks \in Seq(0..MaxWrites)
  BY <1>1 DEF BrickMap, Node
<1>3. Apply(map, o) = [map EXCEPT ![o.file] = next]
  BY DEF Apply
<1>4. /\ o.op = "add" => next = FileNode(<<o.brick>>)
      /\ o.op = "append" => next = FileNode(Append(node.bricks, o.brick))
      /\ o.op = "truncate" => next = FileNode(<<>>)
      /\ o.op = "delete" => next \in {node, [there |-> TRUE, deleted |-> TRUE, bricks |-> <<>>]}
      /\ o.op = "delete" /\ ~node.there => next = node
  OBVIOUS
<1> HIDE DEF next
<1>5. next \in Node
  <2>1. <<o.brick>> \in Seq(0..MaxWrites) /\ <<>> \in Seq(0..MaxWrites)
        /\ Append(node.bricks, o.brick) \in Seq(0..MaxWrites)
    BY <1>1, <1>2
  <2>2. \A b \in Seq(0..MaxWrites) : FileNode(b) \in Node
    BY DEF FileNode, Node
  <2>3. [there |-> TRUE, deleted |-> TRUE, bricks |-> <<>>] \in Node
    BY <2>1 DEF Node
  <2> HIDE DEF node
  <2> QED
    BY <1>1, <1>2, <1>4, <2>1, <2>2, <2>3
<1>6. /\ Apply(map, o) \in BrickMap /\ Apply(map, o)[o.file] = next
      /\ \A f \in Files : f # o.file => Apply(map, o)[f] = map[f]
  BY <1>1, <1>3, <1>5 DEF BrickMap
<1> QED
  BY <1>4, <1>6

LEMMA FileNodeIs ==
    /\ \A b : FileNode(b).there /\ ~FileNode(b).deleted /\ FileNode(b).bricks = b
    /\ LET marked == [there |-> TRUE, deleted |-> TRUE, bricks |-> <<>>]
       IN  marked.there /\ marked.deleted /\ marked.bricks = <<>>
  BY DEF FileNode

\* The node of the file an operation names.
LEMMA ApplyNode ==
    ASSUME NEW map \in BrickMap, NEW o \in Operation, NEW f \in Files, f = o.file
    PROVE  LET node == Apply(map, o)[f] IN
           /\ node.there \/ node = map[f]
           /\ node.bricks \in {<<>>, <<o.brick>>, Append(map[f].bricks, o.brick), map[f].bricks}
           /\ o.op \in {"add", "append"} => node.there /\ o.brick \in ToSet(node.bricks)
<1> DEFINE node == Apply(map, o)[f]
<1>1. o.op \in {"add", "append", "delete", "truncate"} /\ o.brick \in 0..MaxWrites
  BY DEF Operation, AllKinds
<1>2. ToSet(<<o.brick>>) = {o.brick}
  BY DEF ToSet
<1>3. o.brick \in ToSet(Append(map[f].bricks, o.brick))
  <2>1. map[f].bricks \in Seq(0..MaxWrites)
    BY DEF BrickMap, Node
  <2> QED
    BY <1>1, <2>1, ToSetAppend
<1>4. CASE o.op = "add"
  <2>1. node = FileNode(<<o.brick>>)
    BY <1>4, ApplyEffect
  <2> QED
    BY <2>1, <1>2, FileNodeIs
<1>5. CASE o.op = "append"
  <2>1. node = FileNode(Append(map[f].bricks, o.brick))
    BY <1>5, ApplyEffect
  <2> QED
    BY <2>1, <1>3, FileNodeIs
<1>6. CASE o.op = "truncate"
  <2>1. node = FileNode(<<>>)
    BY <1>6, ApplyEffect
  <2> QED
    BY <2>1, <1>6, FileNodeIs
<1>7. CASE o.op = "delete"
  <2>1. node \in {map[f], [there |-> TRUE, deleted |-> TRUE, bricks |-> <<>>]}
    BY <1>7, ApplyEffect
  <2> QED
    BY <2>1, <1>7, FileNodeIs
<1> QED
  BY <1>1, <1>4, <1>5, <1>6, <1>7

-----------------------------------------------------------------------------
(* What replaying a diff preserves *)

\* A set of brick maps that the diff's operations do not leave.
LEMMA ReplayStays ==
    ASSUME NEW T, NEW map \in T, NEW ops \in Operations,
           \A t \in T : \A i \in 1..Len(ops) : Apply(t, ops[i]) \in T
    PROVE  Replay(map, ops) \in T
<1>1. PICK g : IsRun(g, map, ops) /\ Replay(map, ops) = g[Len(ops)]
  BY ReplayIsRun
<1>2. Len(ops) \in Nat
  BY LenProperties DEF Operations
<1> DEFINE S == {n \in Nat : n <= Len(ops) => g[n] \in T}
<1>3. 0 \in S
  BY <1>1, <1>2 DEF IsRun
<1>4. ASSUME NEW n \in Nat, n \in S PROVE n + 1 \in S
  <2>1. SUFFICES ASSUME n + 1 <= Len(ops) PROVE g[n + 1] \in T
    OBVIOUS
  <2>2. n + 1 \in 0..Len(ops) /\ n + 1 # 0 /\ (n + 1) - 1 = n /\ n <= Len(ops)
        /\ n + 1 \in 1..Len(ops)
    BY <2>1, <1>2
  <2>3. g[n + 1] = Apply(g[(n + 1) - 1], ops[n + 1])
    BY <1>1, <2>2 DEF IsRun
  <2> QED
    BY <1>4, <2>2, <2>3
<1>5. Nat \subseteq S
  <2> HIDE DEF S
  <2> QED
    BY <1>3, <1>4, Induction
<1> QED
  BY <1>1, <1>2, <1>5

LEMMA OperationOf ==
    ASSUME NEW ops \in Operations
    PROVE  /\ Len(ops) \in Nat /\ DOMAIN ops = 1..Len(ops)
           /\ \A i \in 1..Len(ops) : /\ ops[i] \in Operation
                                    /\ ops[i].file \in Files
                                    /\ ops[i].brick \in 0..MaxWrites
<1>1. /\ Len(ops) \in Nat /\ DOMAIN ops = 1..Len(ops)
      /\ \A i \in 1..Len(ops) : ops[i] \in Operation
  BY LenProperties, ElementOfSeq DEF Operations
<1> QED
  BY <1>1 DEF Operation

\* A brick map stays one.
LEMMA ReplayType ==
    ASSUME NEW map \in BrickMap, NEW ops \in Operations
    PROVE  Replay(map, ops) \in BrickMap
  BY OperationOf, ApplyEffect, ReplayStays

\* Files that the diff does not name stay as they are.
LEMMA ReplayOther ==
    ASSUME NEW map \in BrickMap, NEW ops \in Operations, NEW f \in Files, f \notin Names(ops)
    PROVE  Replay(map, ops)[f] = map[f]
<1> DEFINE T == {t \in BrickMap : t[f] = map[f]}
<1>1. map \in T
  OBVIOUS
<1>2. ASSUME NEW t \in T, NEW i \in 1..Len(ops) PROVE Apply(t, ops[i]) \in T
  <2>1. ops[i] \in Operation /\ f # ops[i].file
    BY OperationOf DEF Names
  <2> QED
    BY <2>1, ApplyEffect
<1>3. Replay(map, ops) \in T
  <2> HIDE DEF T
  <2> QED
    BY <1>1, <1>2, ReplayStays
<1> QED
  BY <1>3

\* A file that is there stays there, deleted at most.
LEMMA ReplayThere ==
    ASSUME NEW map \in BrickMap, NEW ops \in Operations, NEW f \in Files, map[f].there
    PROVE  Replay(map, ops)[f].there
<1> DEFINE T == {t \in BrickMap : t[f].there}
<1>1. map \in T
  OBVIOUS
<1>2. ASSUME NEW t \in T, NEW i \in 1..Len(ops) PROVE Apply(t, ops[i]) \in T
  <2>1. ops[i] \in Operation
    BY OperationOf
  <2>3. CASE f # ops[i].file
    BY <2>1, <2>3, ApplyEffect
  <2>4. CASE f = ops[i].file
    <3> DEFINE next == Apply(t, ops[i])
    <3>1. next \in BrickMap /\ (next[f].there \/ next[f] = t[f])
      BY <2>1, <2>4, ApplyEffect, ApplyNode
    <3> QED
      BY <3>1
  <2> QED
    BY <2>3, <2>4
<1>3. Replay(map, ops) \in T
  <2> HIDE DEF T
  <2> QED
    BY <1>1, <1>2, ReplayStays
<1> QED
  BY <1>3

\* A file's bricks come from the brick map or from the diff.
LEMMA ReplayBricks ==
    ASSUME NEW map \in BrickMap, NEW ops \in Operations, NEW f \in Files
    PROVE  ToSet(Replay(map, ops)[f].bricks) \subseteq Bricks(ops) \cup ToSet(map[f].bricks)
<1> DEFINE B == Bricks(ops) \cup ToSet(map[f].bricks)
           T == {t \in BrickMap : ToSet(t[f].bricks) \subseteq B}
<1>1. map \in T
  OBVIOUS
<1>2. ASSUME NEW t \in T, NEW i \in 1..Len(ops) PROVE Apply(t, ops[i]) \in T
  <2>1. ops[i] \in Operation /\ ops[i].brick \in B
    BY OperationOf DEF Bricks
  <2>3. t[f].bricks \in Seq(0..MaxWrites)
    BY DEF BrickMap, Node
  <2>4. ToSet(<<>>) = {} /\ ToSet(<<ops[i].brick>>) = {ops[i].brick}
    BY DEF ToSet
  <2>5. ToSet(Append(t[f].bricks, ops[i].brick)) \subseteq ToSet(t[f].bricks) \cup {ops[i].brick}
    BY <2>1, <2>3, ToSetAppend DEF Operation
  <2>6. CASE f # ops[i].file
    BY <2>1, <2>6, ApplyEffect
  <2>7. CASE f = ops[i].file
    <3> DEFINE next == Apply(t, ops[i])
    <3>1. next \in BrickMap /\ next[f].bricks \in
            {<<>>, <<ops[i].brick>>, Append(t[f].bricks, ops[i].brick), t[f].bricks}
      BY <2>1, <2>7, ApplyEffect, ApplyNode
    <3> HIDE DEF next, B
    <3>2. ToSet(next[f].bricks) \subseteq B
      BY <2>1, <2>4, <2>5, <3>1
    <3> QED
      BY <3>1, <3>2 DEF next
  <2> QED
    BY <2>6, <2>7
<1>3. Replay(map, ops) \in T
  <2> HIDE DEF T
  <2> QED
    BY <1>1, <1>2, ReplayStays
<1> QED
  BY <1>3
\* What becomes of a file depends on that file only.
LEMMA ReplayLocal ==
    ASSUME NEW m1 \in BrickMap, NEW m2 \in BrickMap, NEW ops \in Operations,
           NEW f \in Files, m1[f] = m2[f]
    PROVE  Replay(m1, ops)[f] = Replay(m2, ops)[f]
<1> DEFINE S == {q \in Operations : Replay(m1, q)[f] = Replay(m2, q)[f]}
<1>1. <<>> \in S
  BY EmptySeq, ReplayEmpty DEF Operations
<1>2. ASSUME NEW q \in Operations, NEW o \in Operation, q \in S PROVE Append(q, o) \in S
  <2> DEFINE r1 == Replay(m1, q)
             r2 == Replay(m2, q)
  <2>1. /\ Append(q, o) \in Operations
        /\ Replay(m1, Append(q, o)) = Apply(r1, o) /\ Replay(m2, Append(q, o)) = Apply(r2, o)
    BY ReplayAppend, AppendProperties DEF Operations
  <2>2. r1 \in BrickMap /\ r2 \in BrickMap /\ r1[f] = r2[f]
    BY <1>2, ReplayType
  <2> HIDE DEF r1, r2
  <2>3. Apply(r1, o)[f] = Apply(r2, o)[f]
    <3>1. o.file \in Files
      BY DEF Operation
    <3> QED
      BY <2>2, <3>1 DEF Apply, BrickMap
  <2> QED
    BY <2>1, <2>3
<1>3. Operations \subseteq S
  <2> HIDE DEF S
  <2> QED
    BY <1>1, <1>2, DiffInduction
<1> QED
  BY <1>3

\* Diffs that are not cut lead from sound brick maps to sound ones.
LEMMA ReplaySound ==
    ASSUME NEW map \in BrickMap, NEW ops \in Operations, Sound(map), Whole(ops)
    PROVE  Sound(Replay(map, ops))
<1>1. PICK g : IsRun(g, map, ops) /\ Replay(map, ops) = g[Len(ops)]
  BY ReplayIsRun
<1>2. Len(ops) \in Nat
  BY LenProperties DEF Operations
<1> DEFINE Emptied(n, f) == n > 0 /\ ops[n].op = "truncate" /\ ops[n].file = f
           Good(n) == /\ g[n] \in BrickMap
                      /\ \A f \in Files :
                            /\ ~g[n][f].there => g[n][f].bricks = <<>>
                            /\ g[n][f].bricks = <<>> =>
                                  ~g[n][f].there \/ g[n][f].deleted \/ Emptied(n, f)
           S == {n \in Nat : n <= Len(ops) => Good(n)}
<1>3. 0 \in S
  BY <1>1, <1>2 DEF IsRun, Sound
<1>4. ASSUME NEW n \in Nat, n \in S PROVE n + 1 \in S
  <2> DEFINE o == ops[n + 1]
             m == g[n]
  <2>1. SUFFICES ASSUME n + 1 <= Len(ops) PROVE Good(n + 1)
    OBVIOUS
  <2>2. n + 1 \in 0..Len(ops) /\ n + 1 # 0 /\ (n + 1) - 1 = n /\ n <= Len(ops)
        /\ n + 1 \in 1..Len(ops) /\ n + 1 > 0
    BY <2>1, <1>2
  <2>3. g[n + 1] = Apply(m, o)
    <3>1. g[n + 1] = Apply(g[(n + 1) - 1], ops[n + 1])
      BY <1>1, <2>2 DEF IsRun
    <3> QED
      BY <2>2, <3>1
  <2>4. o \in Operation /\ o.file \in Files /\ o.op \in {"add", "append", "truncate", "delete"}
    BY <2>2, OperationOf DEF Operation, AllKinds
  <2>5. m \in BrickMap
    BY <1>4, <2>2
  <2>6. Apply(m, o) \in BrickMap /\ \A f \in Files : f # o.file => Apply(m, o)[f] = m[f]
    BY <2>4, <2>5, ApplyEffect
  <2>7. ASSUME NEW f \in Files, Emptied(n, f) PROVE o.op = "add" /\ o.file = f
    <3>1. n \in DOMAIN ops
      BY <2>2, <2>7, OperationOf
    <3> QED
      BY <2>7, <3>1 DEF Whole
  <2>8. ASSUME NEW f \in Files
        PROVE  LET node == Apply(m, o)[f] IN
               /\ ~node.there => node.bricks = <<>>
               /\ node.bricks = <<>> => ~node.there \/ node.deleted \/ Emptied(n + 1, f)
    <3> DEFINE node == Apply(m, o)[f]
    <3>1. /\ ~m[f].there => m[f].bricks = <<>>
          /\ m[f].bricks = <<>> => ~m[f].there \/ m[f].deleted \/ Emptied(n, f)
      BY <1>4, <2>2
    <3>2. CASE f # o.file
      BY <2>6, <2>7, <3>1, <3>2
    <3>3. CASE f = o.file /\ o.op = "add"
      <4>1. node = FileNode(<<o.brick>>) /\ <<o.brick>> # <<>>
        BY <2>4, <2>5, <3>3, ApplyEffect
      <4> QED
        BY <4>1, FileNodeIs
    <3>4. CASE f = o.file /\ o.op = "append"
      <4>1. node = FileNode(Append(m[f].bricks, o.brick))
        BY <2>4, <2>5, <3>4, ApplyEffect
      <4>2. m[f].bricks \in Seq(0..MaxWrites) /\ o.brick \in 0..MaxWrites
        BY <2>4, <2>5 DEF BrickMap, Node, Operation
      <4>3. Append(m[f].bricks, o.brick) # <<>>
        BY <4>2, AppendProperties
      <4> QED
        BY <4>1, <4>3, FileNodeIs
    <3>5. CASE f = o.file /\ o.op = "truncate"
      <4>1. node = FileNode(<<>>)
        BY <2>4, <2>5, <3>5, ApplyEffect
      <4>2. Emptied(n + 1, f)
        BY <2>2, <3>5
      <4> QED
        BY <4>1, <4>2, FileNodeIs
    <3>6. CASE f = o.file /\ o.op = "delete"
      <4>1. node \in {m[f], [there |-> TRUE, deleted |-> TRUE, bricks |-> <<>>]}
        BY <2>4, <2>5, <3>6, ApplyEffect
      <4>2. ~Emptied(n, f)
        BY <2>7, <3>6
      <4> QED
        BY <4>1, <4>2, <3>1, FileNodeIs
    <3> QED
      BY <2>4, <3>2, <3>3, <3>4, <3>5, <3>6
  <2> QED
    BY <2>3, <2>6, <2>8
<1>5. Nat \subseteq S
  <2> HIDE DEF S
  <2> QED
    BY <1>3, <1>4, Induction
<1>6. Good(Len(ops))
  BY <1>2, <1>5
<1>7. ASSUME NEW f \in Files, Emptied(Len(ops), f) PROVE FALSE
  <2>1. Len(ops) \in DOMAIN ops
    BY <1>2, <1>7, OperationOf
  <2>2. Len(ops) < Len(ops)
    BY <1>7, <2>1 DEF Whole
  <2> QED
    BY <1>2, <2>2
<1> QED
  BY <1>1, <1>6, <1>7 DEF Sound

LEMMA WholeConcat ==
    ASSUME NEW a \in Operations, NEW b \in Operations, Whole(a), Whole(b)
    PROVE  Whole(a \o b)
<1> DEFINE q == a \o b
<1>1. /\ q \in Operations /\ Len(q) = Len(a) + Len(b) /\ Len(a) \in Nat /\ Len(b) \in Nat
      /\ \A i \in 1..(Len(a) + Len(b)) : q[i] = IF i <= Len(a) THEN a[i] ELSE b[i - Len(a)]
  BY ConcatProperties, LenProperties DEF Operations
<1>2. /\ DOMAIN a = 1..Len(a) /\ DOMAIN b = 1..Len(b)
      /\ DOMAIN q = 1..(Len(a) + Len(b))
  BY <1>1, OperationOf
<1> HIDE DEF q
<1>3. ASSUME NEW i \in DOMAIN q, q[i].op = "truncate"
      PROVE  i < Len(q) /\ q[i + 1].op = "add" /\ q[i + 1].file = q[i].file
  <2>1. CASE i <= Len(a)
    <3>1. i \in DOMAIN a /\ q[i] = a[i]
      BY <1>1, <1>2, <2>1
    <3>2. i < Len(a) /\ a[i + 1].op = "add" /\ a[i + 1].file = a[i].file
      BY <1>3, <3>1 DEF Whole
    <3>3. i + 1 \in 1..(Len(a) + Len(b)) /\ i + 1 <= Len(a)
      BY <1>1, <1>2, <3>1, <3>2
    <3> QED
      BY <1>1, <1>2, <3>1, <3>2, <3>3
  <2>2. CASE ~(i <= Len(a))
    <3> DEFINE j == i - Len(a)
    <3>1. j \in DOMAIN b /\ q[i] = b[j]
      BY <1>1, <1>2, <2>2
    <3>2. j < Len(b) /\ b[j + 1].op = "add" /\ b[j + 1].file = b[j].file
      BY <1>3, <3>1 DEF Whole
    <3>3. i + 1 \in 1..(Len(a) + Len(b)) /\ ~(i + 1 <= Len(a)) /\ (i + 1) - Len(a) = j + 1
      BY <1>1, <1>2, <2>2, <3>1, <3>2
    <3> QED
      BY <1>1, <1>2, <3>1, <3>2, <3>3
  <2> QED
    BY <2>1, <2>2
<1> QED
  BY <1>3 DEF Whole, q
-----------------------------------------------------------------------------
(* The writes *)

\* The operations of a write of file f that ends with brick, or deletes it for 0.
IsWrite(ops, f, brick) ==
    /\ ops \in Operations /\ ops # <<>> /\ Whole(ops)
    /\ Names(ops) \subseteq {f} /\ Bricks(ops) \subseteq {0, brick}
    /\ \A map \in BrickMap :
          LET node == Replay(map, ops)[f] IN
          \/ brick # 0 /\ brick \in ToSet(node.bricks)
          \/ brick = 0 /\ node \in {map[f], [there |-> TRUE, deleted |-> TRUE, bricks |-> <<>>]}

LEMMA OneOperation ==
    ASSUME NEW op \in {"add", "append", "delete"}, NEW f \in Files, NEW brick \in 0..MaxWrites,
           op = "delete" <=> brick = 0
    PROVE  IsWrite(<<Op(op, f, brick)>>, f, brick)
<1> DEFINE o == Op(op, f, brick)
           ops == <<o>>
<1>1. /\ o \in Operation /\ o.op = op /\ o.file = f /\ o.brick = brick
  BY DEF Op, Operation, AllKinds
<1> HIDE DEF o
<1>2. ops \in Operations /\ ops # <<>> /\ Len(ops) = 1 /\ DOMAIN ops = {1} /\ ops[1] = o
  BY <1>1 DEF Operations
<1>3. Whole(ops) /\ Names(ops) \subseteq {f} /\ Bricks(ops) \subseteq {0, brick}
  BY <1>1, <1>2 DEF Whole, Names, Bricks
<1>4. ASSUME NEW map \in BrickMap
      PROVE  LET node == Replay(map, ops)[f] IN
             \/ brick # 0 /\ brick \in ToSet(node.bricks)
             \/ brick = 0 /\ node \in {map[f], [there |-> TRUE, deleted |-> TRUE, bricks |-> <<>>]}
  <2>1. Replay(map, ops) = Apply(map, o)
    BY <1>1, ReplayOne
  <2>2. CASE op # "delete"
    <3>1. o.op \in {"add", "append"} /\ f = o.file /\ brick # 0
      BY <1>1, <2>2
    <3>2. o.brick \in ToSet(Apply(map, o)[f].bricks)
      BY <1>1, <3>1, ApplyNode
    <3> QED
      BY <1>1, <2>1, <3>1, <3>2
  <2>3. CASE op = "delete"
    BY <1>1, <2>1, <2>3, ApplyEffect
  <2> QED
    BY <2>2, <2>3
<1>5. IsWrite(ops, f, brick)
  BY <1>2, <1>3, <1>4 DEF IsWrite
<1> QED
  BY <1>5 DEF o

LEMMA AddFileEntryIsWrite ==
    ASSUME NEW k, NEW f \in Files, NEW brick \in 1..MaxWrites
    PROVE  IsWrite(AddFileEntry(k, f, brick), f, brick)
<1> DEFINE t == Op("truncate", f, 0)
           o == Op("add", f, brick)
           ops == <<t, o>>
<1>0. brick # 0 /\ brick \in 0..MaxWrites
  OBVIOUS
<1>1. /\ o \in Operation /\ o.op = "add" /\ o.file = f /\ o.brick = brick
      /\ t \in Operation /\ t.op = "truncate" /\ t.file = f /\ t.brick = 0
  BY <1>0 DEF Op, Operation, AllKinds
<1>2. IsWrite(<<o>>, f, brick)
  BY <1>0, OneOperation
<1>3. IsWrite(ops, f, brick)
  <2> HIDE DEF t, o
  <2>1. /\ ops \in Operations /\ ops # <<>> /\ Len(ops) = 2 /\ DOMAIN ops = {1, 2}
        /\ ops[1] = t /\ ops[2] = o /\ ops = Append(<<t>>, o)
        /\ <<t>> \in Operations
    BY <1>1 DEF Operations
  <2>2. Whole(ops) /\ Names(ops) \subseteq {f} /\ Bricks(ops) \subseteq {0, brick}
    BY <1>1, <2>1 DEF Whole, Names, Bricks
  <2>3. ASSUME NEW map \in BrickMap PROVE brick \in ToSet(Replay(map, ops)[f].bricks)
    <3>1. Replay(map, ops) = Replay(Replay(map, <<t>>), <<o>>) /\ Replay(map, <<t>>) \in BrickMap
      <4>1. Replay(map, ops) = Apply(Replay(map, <<t>>), o)
        <5> DEFINE q == <<t>>
        <5>1. q \in Operations /\ ops = Append(q, o)
          BY <2>1
        <5> HIDE DEF q, ops
        <5>2. Replay(map, Append(q, o)) = Apply(Replay(map, q), o)
          BY <1>1, <5>1, ReplayAppend
        <5>3. Replay(map, ops) = Apply(Replay(map, q), o)
          BY <5>1, <5>2
        <5> QED
          BY <5>3 DEF q
      <4> QED
        BY <1>1, <2>1, <4>1, ReplayOne, ReplayType
    <3> QED
      BY <1>0, <1>2, <3>1 DEF IsWrite
  <2> QED
    BY <1>0, <2>1, <2>2, <2>3 DEF IsWrite
<1> QED
  BY <1>2, <1>3 DEF AddFileEntry

\* A sound brick map that does not hold the brick takes the write.
Takes(map, ops, f, brick) ==
    map \in BrickMap /\ Sound(map) /\ (brick # 0 => brick \notin ToSet(map[f].bricks)) =>
        ~ReplayThrows(map, ops)

LEMMA AddFileEntryIsTaken ==
    ASSUME NEW k, NEW f \in Files, NEW brick \in 1..MaxWrites
    PROVE  Takes(k.dirty, AddFileEntry(k, f, brick), f, brick)
<1> DEFINE t == Op("truncate", f, 0)
           o == Op("add", f, brick)
           map == k.dirty
<1>1. SUFFICES ASSUME Sound(map) PROVE ~ReplayThrows(map, AddFileEntry(k, f, brick))
  BY DEF Takes
<1>2. /\ o \in Operation /\ o.op = "add" /\ t \in Operation /\ t.op = "truncate" /\ t.file = f
  BY DEF Op, Operation, AllKinds
<1> HIDE DEF t, o
<1>3. \A any : ~Throws(any, o)
  BY <1>2 DEF Throws
<1>4. CASE map[f].bricks = <<>>
  <2>1. AddFileEntry(k, f, brick) = <<o>>
    BY <1>4 DEF AddFileEntry, o
  <2> QED
    BY <1>2, <1>3, <2>1, ThrowsOne
<1>5. CASE map[f].bricks # <<>>
  <2> DEFINE q == <<t>>
  <2>1. AddFileEntry(k, f, brick) = Append(q, o) /\ q \in Operations
    BY <1>2, <1>5 DEF AddFileEntry, o, t, Operations
  <2>2. ~Throws(map, t)
    BY <1>1, <1>2, <1>5 DEF Throws, Sound
  <2>3. ~ReplayThrows(map, q)
    BY <1>2, <2>2, ThrowsOne
  <2> HIDE DEF q
  <2> QED
    BY <1>2, <1>3, <2>1, <2>3, ThrowsAppend
<1> QED
  BY <1>4, <1>5

LEMMA OperationIsTaken ==
    ASSUME NEW map, NEW op \in {"append", "delete"}, NEW f \in Files,
           NEW brick \in 0..MaxWrites, op = "delete" <=> brick = 0
    PROVE  Takes(map, <<Op(op, f, brick)>>, f, brick)
<1> DEFINE o == Op(op, f, brick)
<1>1. o \in Operation /\ o.op = op /\ o.file = f /\ o.brick = brick
  BY DEF Op, Operation, AllKinds
<1> HIDE DEF o
<1>2. (brick # 0 => brick \notin ToSet(map[f].bricks)) => ~Throws(map, o)
  BY <1>1 DEF Throws
<1>3. Takes(map, <<o>>, f, brick)
  BY <1>1, <1>2, ThrowsOne DEF Takes
<1> QED
  BY <1>3 DEF o

\* Each of the writes is one.
LEMMA WriteActions ==
    ASSUME NEW c \in Clients, writes \in 0..MaxWrites,
           AddFile(c) \/ AppendToFile(c) \/ DeleteFile(c)
    PROVE  \E f \in Files, brick \in {0, writes + 1} : \E ops :
              /\ IsWrite(ops, f, brick) /\ Write(c, f, ops, brick) /\ brick \in 0..MaxWrites
              /\ Takes(client[c].dirty, ops, f, brick)
<1>1. writes < MaxWrites => writes + 1 \in 1..MaxWrites /\ writes + 1 \in 0..MaxWrites
                            /\ writes + 1 # 0
  OBVIOUS
<1>2. CASE AddFile(c)
  <2>1. PICK f \in Files : Write(c, f, AddFileEntry(client[c], f, writes + 1), writes + 1)
    BY <1>2 DEF AddFile
  <2>2. writes + 1 \in 1..MaxWrites
    BY <1>1, <2>1 DEF Write
  <2>3. IsWrite(AddFileEntry(client[c], f, writes + 1), f, writes + 1)
    BY <2>2, AddFileEntryIsWrite
  <2>4. Takes(client[c].dirty, AddFileEntry(client[c], f, writes + 1), f, writes + 1)
    BY <2>2, AddFileEntryIsTaken
  <2> QED
    BY <1>1, <2>1, <2>2, <2>3, <2>4
<1>3. CASE AppendToFile(c)
  <2>1. PICK f \in Files : Write(c, f, <<Op("append", f, writes + 1)>>, writes + 1)
    BY <1>3 DEF AppendToFile
  <2>2. writes + 1 \in 0..MaxWrites /\ writes + 1 # 0
    BY <1>1, <2>1 DEF Write
  <2>3. IsWrite(<<Op("append", f, writes + 1)>>, f, writes + 1)
    BY <2>2, OneOperation
  <2>4. Takes(client[c].dirty, <<Op("append", f, writes + 1)>>, f, writes + 1)
    BY <2>2, OperationIsTaken
  <2> QED
    BY <2>1, <2>2, <2>3, <2>4
<1>4. CASE DeleteFile(c)
  <2>1. PICK f \in Files : Write(c, f, <<Op("delete", f, 0)>>, 0)
    BY <1>4 DEF DeleteFile
  <2>2. IsWrite(<<Op("delete", f, 0)>>, f, 0) /\ Takes(client[c].dirty, <<Op("delete", f, 0)>>, f, 0)
    BY OneOperation, OperationIsTaken
  <2> QED
    BY <2>1, <2>2
<1> QED
  BY <1>2, <1>3, <1>4
-----------------------------------------------------------------------------
(* The invariant, of one client c in state k beside the history h *)

InOrder(c, k, h) ==
    /\ k.cur <= Len(h) /\ k.from <= Len(h)
    /\ k.pc = "conflict" => h # <<>>
    /\ k.pc = "stored" => \E i \in 1..Len(h) : i > k.from /\ h[i].by = c
    /\ ~UnderWay(k) => k.merged = <<>>
    /\ k.pc = "compact" => k.inAnch # <<>>
    /\ UnderWay(k) /\ k.alias # "flight" => k.merged # <<>>
    /\ k.pc = "conflict" /\ k.alias # "flight" => k.inAnch # <<>>
    /\ k.alias = "flight" =>
          /\ UnderWay(k) \/ k.pc = "conflict"
          /\ k.merged = <<>> /\ k.dirty = k.flight /\ k.merges \in {"open", "lost"}
    /\ k.merges = "open" => k.alias = "flight"
    /\ k.alias = "anchored" => k.dirty = k.anchored /\ k.merges # "none"

Explained(k) ==
    k.merges = "none" /\ k.pc # "abandoned" =>
        k.dirty = Replay(k.anchored, k.merged \o Pending(k))

Replayed(k) ==
    UnderWay(k) /\ k.merges = "none" => k.flight = Replay(k.anchored, k.merged)

Kept(k) ==
    \A f \in Files :
        k.mine[f] # 0 /\ k.merges # "lost" /\ k.pc # "abandoned" =>
            /\ k.alias # "flight" =>
                  k.mine[f] \in ToSet(Replay(k.anchored, k.merged \o Pending(k))[f].bricks)
            /\ UnderWay(k) \/ k.alias = "flight" =>
                  k.mine[f] \in ToSet(Replay(k.flight, Pending(k))[f].bricks)

SoundClient(k) ==
    /\ Sound(k.dirty) /\ Sound(k.anchored) /\ Sound(k.flight) /\ Sound(k.saved)
    /\ Whole(k.new) /\ Whole(k.inAnch) /\ Whole(k.merged)

Reads(k) ==
    \A f \in Files :
        k.mine[f] # 0 /\ k.merges # "lost" => k.mine[f] \in ToSet(k.dirty[f].bricks)

ClientInv(c, k, h) ==
    /\ k \in Client
    /\ InOrder(c, k, h)
    /\ Explained(k)
    /\ Replayed(k)
    /\ Kept(k)
    /\ SoundClient(k)
    /\ Reads(k)

LEMMA ClientFields ==
    ASSUME NEW k \in Client
    PROVE  /\ k.pc \in Steps /\ k.dirty \in BrickMap /\ k.anchored \in BrickMap
           /\ k.from \in Nat /\ k.cur \in Nat
           /\ k.new \in Operations /\ k.inAnch \in Operations /\ k.merged \in Operations
           /\ k.flight \in BrickMap /\ k.saved \in BrickMap
           /\ k.alias \in {"none", "flight", "anchored"} /\ k.asked \in BOOLEAN
           /\ k.merges \in {"none", "open", "closed", "lost"}
           /\ k.sent \in Operations /\ k.mine \in [Files -> 0..MaxWrites]
           /\ Pending(k) \in Operations /\ k.merged \o Pending(k) \in Operations
           /\ k.merged \o k.inAnch \in Operations
<1>1. /\ k.pc \in Steps /\ k.dirty \in BrickMap /\ k.anchored \in BrickMap
      /\ k.from \in Nat /\ k.cur \in Nat
      /\ k.new \in Operations /\ k.inAnch \in Operations /\ k.merged \in Operations
      /\ k.flight \in BrickMap /\ k.saved \in BrickMap
      /\ k.alias \in {"none", "flight", "anchored"} /\ k.asked \in BOOLEAN
      /\ k.merges \in {"none", "open", "closed", "lost"}
      /\ k.sent \in Operations /\ k.mine \in [Files -> 0..MaxWrites]
  BY DEF Client, Operations
<1> QED
  BY <1>1, PartsOfConcat DEF Pending

LEMMA EmptyMapIs == EmptyMap \in BrickMap /\ Sound(EmptyMap)
<1>1. AbsentNode \in Node /\ ~AbsentNode.there /\ AbsentNode.bricks = <<>>
  BY EmptySeq DEF AbsentNode, Node
<1> QED
  BY <1>1 DEF EmptyMap, BrickMap, Sound

LEMMA EmptyDiff == <<>> \in Operations /\ Whole(<<>>)
  BY EmptySeq DEF Operations, Whole

LEMMA DiffConcat ==
    ASSUME NEW a \in Operations, NEW b \in Operations, NEW d \in Operations
    PROVE  (a \o b) \o d = a \o (b \o d)
  BY ConcatAssociative DEF Operations

\* What is about to be pending, however the diffs are put together.
LEMMA Regrouped ==
    ASSUME NEW m \in Operations, NEW a \in Operations, NEW n \in Operations
    PROVE  /\ <<>> \o ((m \o a) \o n) = m \o (a \o n)
           /\ m \o ((a \o n) \o <<>>) = m \o (a \o n)
           /\ (a \o n) \o <<>> = a \o n /\ <<>> \o (a \o n) = a \o n
           /\ <<>> \o (<<>> \o n) = n /\ <<>> \o n = n
<1>1. m \o a \in Operations /\ a \o n \in Operations /\ (m \o a) \o n \in Operations
  BY PartsOfConcat
<1>2. \A q \in Operations : <<>> \o q = q /\ q \o <<>> = q
  BY ConcatEmptySeq DEF Operations
<1>3. (m \o a) \o n = m \o (a \o n)
  BY ConcatAssociative DEF Operations
<1> QED
  BY <1>1, <1>2, <1>3

\* The history grows.
LEMMA HistoryGrows ==
    ASSUME NEW c \in Clients, NEW k, NEW h \in Seq(Version), NEW v \in Version,
           ClientInv(c, k, h)
    PROVE  ClientInv(c, k, Append(h, v))
<1> DEFINE g == Append(h, v)
<1>1. /\ Len(g) = Len(h) + 1 /\ Len(h) \in Nat /\ \A i \in 1..Len(h) : g[i] = h[i]
      /\ g # <<>>
  BY AppendProperties, LenProperties
<1>2. k.cur \in Nat /\ k.from \in Nat
  BY ClientFields DEF ClientInv
<1> HIDE DEF g
<1>3. InOrder(c, k, h)
  BY DEF ClientInv
<1>4. k.cur <= Len(g) /\ k.from <= Len(g)
  BY <1>1, <1>2, <1>3 DEF InOrder
<1>5. k.pc = "stored" => \E i \in 1..Len(g) : i > k.from /\ g[i].by = c
  <2>1. SUFFICES ASSUME k.pc = "stored" PROVE \E i \in 1..Len(g) : i > k.from /\ g[i].by = c
    OBVIOUS
  <2>2. PICK i \in 1..Len(h) : i > k.from /\ h[i].by = c
    BY <1>3, <2>1 DEF InOrder
  <2>3. i \in 1..Len(g) /\ g[i].by = c
    BY <1>1, <2>2
  <2> QED
    BY <2>2, <2>3
<1>6. InOrder(c, k, g)
  BY <1>1, <1>3, <1>4, <1>5 DEF InOrder
<1>7. ClientInv(c, k, g)
  BY <1>6 DEF ClientInv
<1> QED
  BY <1>7 DEF g
-----------------------------------------------------------------------------
(* A write keeps the invariant *)

Written(k, ops, f, brick) == [Logged(k, ops) EXCEPT !.mine[f] = brick]

\* A write after others puts its brick in its file.
LEMMA LaterWrite ==
    ASSUME NEW now \in BrickMap, NEW earlier \in Operations,
           NEW ops, NEW f \in Files, NEW brick, IsWrite(ops, f, brick), brick # 0
    PROVE  brick \in ToSet(Replay(now, earlier \o ops)[f].bricks)
<1>1. ops \in Operations
  BY DEF IsWrite
<1>2. /\ Replay(now, earlier \o ops) = Replay(Replay(now, earlier), ops)
      /\ Replay(now, earlier) \in BrickMap
  BY <1>1, ReplayConcat, ReplayType
<1> QED
  BY <1>2 DEF IsWrite

\* It leaves the other files alone.
LEMMA LaterWriteElsewhere ==
    ASSUME NEW before \in BrickMap, NEW now \in BrickMap, NEW earlier \in Operations,
           NEW ops, NEW f, NEW brick, IsWrite(ops, f, brick),
           NEW g \in Files, g # f, now[g] = before[g]
    PROVE  Replay(now, earlier \o ops)[g] = Replay(before, earlier)[g]
<1>1. ops \in Operations /\ g \notin Names(ops)
  BY DEF IsWrite
<1>2. /\ Replay(now, earlier \o ops) = Replay(Replay(now, earlier), ops)
      /\ Replay(now, earlier) \in BrickMap
  BY <1>1, ReplayConcat, ReplayType
<1>3. Replay(Replay(now, earlier), ops)[g] = Replay(now, earlier)[g]
  BY <1>1, <1>2, ReplayOther
<1>4. Replay(now, earlier)[g] = Replay(before, earlier)[g]
  BY ReplayLocal
<1> QED
  BY <1>2, <1>3, <1>4

WriteChanges(w, k, ops, f, brick) ==
    /\ w \in Client
    /\ w.dirty = Replay(k.dirty, ops)
    /\ w.flight = IF k.alias = "flight" THEN Replay(k.dirty, ops) ELSE k.flight
    /\ w.anchored = IF k.alias = "anchored" THEN Replay(k.dirty, ops) ELSE k.anchored
    /\ w.new = k.new \o ops
    /\ w.mine = [k.mine EXCEPT ![f] = brick]
    /\ w.pc = k.pc /\ w.from = k.from /\ w.cur = k.cur /\ w.inAnch = k.inAnch
    /\ w.merged = k.merged /\ w.saved = k.saved /\ w.alias = k.alias
    /\ w.merges = k.merges /\ w.sent = k.sent

LEMMA WrittenFields ==
    ASSUME NEW k \in Client, NEW ops, NEW f \in Files, NEW brick \in 0..MaxWrites,
           IsWrite(ops, f, brick)
    PROVE  WriteChanges(Written(k, ops, f, brick), k, ops, f, brick)
<1> DEFINE dirty == Replay(k.dirty, ops)
           new == k.new \o ops
           mine == [k.mine EXCEPT ![f] = brick]
           l == Logged(k, ops)
           w == Written(k, ops, f, brick)
<1>1. ops \in Operations
  BY DEF IsWrite
<1>2. dirty \in BrickMap /\ new \in Operations /\ mine \in [Files -> 0..MaxWrites]
  BY <1>1, ClientFields, ReplayType, PartsOfConcat
<1>3. l = [k EXCEPT !.dirty = dirty,
                    !.flight = IF k.alias = "flight" THEN dirty ELSE k.flight,
                    !.anchored = IF k.alias = "anchored" THEN dirty ELSE k.anchored,
                    !.new = new]
  BY DEF Logged, Client
<1> HIDE DEF dirty, new
<1>4. /\ l \in Client /\ l.mine = k.mine
      /\ l.dirty = dirty
      /\ l.flight = IF k.alias = "flight" THEN dirty ELSE k.flight
      /\ l.anchored = IF k.alias = "anchored" THEN dirty ELSE k.anchored
      /\ l.new = new
      /\ l.pc = k.pc /\ l.from = k.from /\ l.cur = k.cur /\ l.inAnch = k.inAnch
      /\ l.merged = k.merged /\ l.saved = k.saved /\ l.alias = k.alias
      /\ l.merges = k.merges /\ l.sent = k.sent
  BY <1>2, <1>3 DEF Client, Operations
<1>5. w = [l EXCEPT !.mine = mine]
  BY <1>4 DEF Written, Client
<1> HIDE DEF l, mine, w
<1>6. /\ w \in Client /\ w.mine = mine
      /\ w.dirty = l.dirty /\ w.flight = l.flight /\ w.anchored = l.anchored /\ w.new = l.new
      /\ w.pc = l.pc /\ w.from = l.from /\ w.cur = l.cur /\ w.inAnch = l.inAnch
      /\ w.merged = l.merged /\ w.saved = l.saved /\ w.alias = l.alias
      /\ w.merges = l.merges /\ w.sent = l.sent
  BY <1>2, <1>4, <1>5 DEF Client
<1> QED
  BY <1>4, <1>6 DEF WriteChanges, dirty, new, mine, w

LEMMA WrittenInv ==
    ASSUME NEW c \in Clients, NEW k, NEW h \in Seq(Version), ClientInv(c, k, h),
           NEW ops, NEW f \in Files, NEW brick \in 0..MaxWrites, IsWrite(ops, f, brick)
    PROVE  ClientInv(c, Written(k, ops, f, brick), h)
<1> DEFINE w == Written(k, ops, f, brick)
           dirty == Replay(k.dirty, ops)
           diffs == k.merged \o Pending(k)
<1>0. k \in Client /\ ops \in Operations /\ Whole(ops)
  BY DEF ClientInv, IsWrite
<1>1. /\ w \in Client
      /\ w.dirty = dirty
      /\ w.flight = IF k.alias = "flight" THEN dirty ELSE k.flight
      /\ w.anchored = IF k.alias = "anchored" THEN dirty ELSE k.anchored
      /\ w.new = k.new \o ops
      /\ w.mine = [k.mine EXCEPT ![f] = brick]
      /\ w.pc = k.pc /\ w.from = k.from /\ w.cur = k.cur /\ w.inAnch = k.inAnch
      /\ w.merged = k.merged /\ w.saved = k.saved /\ w.alias = k.alias
      /\ w.merges = k.merges /\ w.sent = k.sent
  <2>1. WriteChanges(w, k, ops, f, brick)
    BY <1>0, WrittenFields
  <2> HIDE DEF w
  <2> QED
    BY <2>1 DEF WriteChanges
<1>2. /\ k.dirty \in BrickMap /\ k.anchored \in BrickMap /\ k.flight \in BrickMap
      /\ k.new \in Operations /\ k.inAnch \in Operations /\ k.merged \in Operations
      /\ Pending(k) \in Operations /\ diffs \in Operations
      /\ k.mine \in [Files -> 0..MaxWrites]
      /\ k.alias \in {"none", "flight", "anchored"} /\ dirty \in BrickMap
  BY <1>0, ClientFields, ReplayType
<1>3. Pending(w) = Pending(k) \o ops /\ w.merged \o Pending(w) = diffs \o ops
  <2>1. k.inAnch \o (k.new \o ops) = (k.inAnch \o k.new) \o ops
    BY <1>0, <1>2, DiffConcat, Zenon
  <2>2. Pending(w) = Pending(k) \o ops
    BY <1>1, <2>1 DEF Pending
  <2>3. k.merged \o (Pending(k) \o ops) = (k.merged \o Pending(k)) \o ops
    BY <1>0, <1>2, DiffConcat, Zenon
  <2> QED
    BY <1>1, <2>2, <2>3
<1>4. \A g \in Files : g # f => dirty[g] = k.dirty[g]
  <2> SUFFICES ASSUME NEW g \in Files, g # f PROVE dirty[g] = k.dirty[g]
    OBVIOUS
  <2>1. g \notin Names(ops)
    BY DEF IsWrite
  <2> QED
    BY <1>0, <1>2, <2>1, ReplayOther
<1>5. InOrder(c, k, h) /\ Explained(k) /\ Replayed(k) /\ Kept(k) /\ SoundClient(k) /\ Reads(k)
  BY DEF ClientInv
<1>6. UnderWay(w) <=> UnderWay(k)
  BY <1>1 DEF UnderWay
<1> HIDE DEF w, dirty
<1>7. InOrder(c, w, h)
  BY <1>1, <1>5, <1>6 DEF InOrder
<1>8. k.merges = "none" => k.alias = "none"
  BY <1>2, <1>5 DEF InOrder
<1>9. Explained(w)
  <2> SUFFICES ASSUME w.merges = "none", w.pc # "abandoned"
               PROVE  w.dirty = Replay(w.anchored, w.merged \o Pending(w))
    BY DEF Explained
  <2>1. k.dirty = Replay(k.anchored, diffs) /\ w.anchored = k.anchored
    BY <1>1, <1>5, <1>8 DEF Explained
  <2>2. Replay(k.anchored, diffs \o ops) = Replay(Replay(k.anchored, diffs), ops)
    BY <1>0, <1>2, ReplayConcat
  <2> QED
    BY <1>1, <1>3, <2>1, <2>2 DEF dirty
<1>10. Replayed(w)
  BY <1>1, <1>5, <1>6, <1>8 DEF Replayed
<1>11. /\ \A g \in Files : g # f => w.anchored[g] = k.anchored[g] /\ w.flight[g] = k.flight[g]
       /\ w.anchored \in BrickMap /\ w.flight \in BrickMap
  BY <1>1, <1>2, <1>4, <1>5 DEF InOrder
<1>12. Kept(w)
  <2> SUFFICES ASSUME NEW g \in Files, w.mine[g] # 0, w.merges # "lost", w.pc # "abandoned"
               PROVE  /\ w.alias # "flight" =>
                            w.mine[g] \in ToSet(Replay(w.anchored, diffs \o ops)[g].bricks)
                      /\ UnderWay(w) \/ w.alias = "flight" =>
                            w.mine[g] \in ToSet(Replay(w.flight, Pending(k) \o ops)[g].bricks)
    BY <1>3 DEF Kept
  <2>1. CASE g = f
    <3>1. w.mine[g] = brick /\ brick # 0
      BY <1>1, <1>2, <2>1
    <3>2. brick \in ToSet(Replay(w.anchored, diffs \o ops)[f].bricks)
      BY <1>2, <1>11, <3>1, LaterWrite
    <3>3. brick \in ToSet(Replay(w.flight, Pending(k) \o ops)[f].bricks)
      BY <1>2, <1>11, <3>1, LaterWrite
    <3> QED
      BY <2>1, <3>1, <3>2, <3>3
  <2>2. CASE g # f
    <3>1. w.mine[g] = k.mine[g]
      BY <1>1, <1>2, <2>2
    <3> HIDE DEF diffs
    <3>2. Replay(w.anchored, diffs \o ops)[g] = Replay(k.anchored, diffs)[g]
      BY <1>2, <1>11, <2>2, LaterWriteElsewhere
    <3>3. Replay(w.flight, Pending(k) \o ops)[g] = Replay(k.flight, Pending(k))[g]
      BY <1>2, <1>11, <2>2, LaterWriteElsewhere
    <3> QED
      BY <1>1, <1>5, <1>6, <2>2, <3>1, <3>2, <3>3 DEF Kept, diffs
  <2> QED
    BY <2>1, <2>2
<1>13. SoundClient(w)
  <2>1. Sound(dirty)
    BY <1>0, <1>2, <1>5, ReplaySound DEF SoundClient, dirty
  <2>2. Whole(k.new \o ops)
    BY <1>0, <1>2, <1>5, WholeConcat DEF SoundClient
  <2> QED
    BY <1>1, <1>5, <2>1, <2>2 DEF SoundClient
<1>14. Reads(w)
  <2> SUFFICES ASSUME NEW g \in Files, w.mine[g] # 0, w.merges # "lost"
               PROVE  w.mine[g] \in ToSet(dirty[g].bricks)
    BY <1>1 DEF Reads
  <2>1. CASE g = f
    <3>1. w.mine[g] = brick /\ brick # 0
      BY <1>1, <1>2, <2>1
    <3> QED
      BY <1>2, <2>1, <3>1 DEF IsWrite, dirty
  <2>2. CASE g # f
    <3>1. w.mine[g] = k.mine[g] /\ dirty[g] = k.dirty[g]
      BY <1>1, <1>2, <1>4, <2>2
    <3> QED
      BY <1>1, <1>5, <3>1 DEF Reads
  <2> QED
    BY <2>1, <2>2
<1> QED
  BY <1>1, <1>7, <1>9, <1>10, <1>12, <1>13, <1>14 DEF ClientInv, w
-----------------------------------------------------------------------------
(* The steps of a process keep the invariant *)

LEMMA PreparedFields ==
    ASSUME NEW k \in Client
    PROVE  /\ Prepared(k) \in Client
           /\ Prepared(k) = [k EXCEPT !.inAnch = Pending(k), !.new = <<>>]
           /\ Prepared(k).inAnch = Pending(k) /\ Prepared(k).new = <<>>
           /\ Prepared(k).pc = k.pc
<1>1. Pending(k) \in Operations /\ <<>> \in Operations
  BY ClientFields, EmptyDiff
<1>2. Prepared(k) = [k EXCEPT !.inAnch = Pending(k), !.new = <<>>]
  BY DEF Prepared
<1> QED
  BY <1>1, <1>2 DEF Client, Operations

LEMMA PreparedInv ==
    ASSUME NEW c, NEW k, NEW h, ClientInv(c, k, h)
    PROVE  ClientInv(c, Prepared(k), h)
<1> DEFINE p == Prepared(k)
           now == Pending(k)
<1>1. k \in Client
  BY DEF ClientInv
<1>2. /\ k.new \in Operations /\ k.inAnch \in Operations /\ k.merged \in Operations
      /\ Pending(k) \in Operations
  BY <1>1, ClientFields
<1>3. /\ p \in Client /\ p = [k EXCEPT !.inAnch = now, !.new = <<>>]
      /\ p.inAnch = now /\ p.new = <<>>
  BY <1>1, PreparedFields
<1> HIDE DEF p
<1>4. /\ p.pc = k.pc /\ p.dirty = k.dirty /\ p.anchored = k.anchored /\ p.from = k.from
      /\ p.cur = k.cur /\ p.merged = k.merged /\ p.flight = k.flight /\ p.saved = k.saved
      /\ p.alias = k.alias /\ p.merges = k.merges /\ p.mine = k.mine
  BY <1>1, <1>3 DEF Client
<1>5. Pending(p) = Pending(k)
  <2>1. Pending(k) \o <<>> = Pending(k)
    BY <1>2, ConcatEmptySeq DEF Operations
  <2> QED
    BY <1>3, <2>1 DEF Pending
<1>6. k.inAnch # <<>> => now # <<>>
  BY <1>2, ConcatEqualIffEmpty DEF Operations, Pending
<1>7. InOrder(c, k, h) /\ Explained(k) /\ Replayed(k) /\ Kept(k) /\ SoundClient(k) /\ Reads(k)
  BY DEF ClientInv
<1>8. UnderWay(p) <=> UnderWay(k)
  BY <1>4 DEF UnderWay
<1>9. InOrder(c, p, h)
  BY <1>3, <1>4, <1>6, <1>7, <1>8 DEF InOrder
<1>10. Explained(p) /\ Replayed(p) /\ Kept(p) /\ Reads(p)
  BY <1>4, <1>5, <1>7, <1>8 DEF Explained, Replayed, Kept, Reads
<1>11. SoundClient(p)
  <2>1. Whole(now) /\ Whole(<<>>)
    BY <1>2, <1>7, WholeConcat, EmptyDiff DEF SoundClient, Pending
  <2> QED
    BY <1>3, <1>4, <1>7, <2>1 DEF SoundClient
<1> QED
  BY <1>3, <1>9, <1>10, <1>11 DEF ClientInv, p

\* A step that changes nothing but where the process is and what it takes for current.
Moved(c, k, q, h) ==
    /\ q \in Client
    /\ q.dirty = k.dirty /\ q.anchored = k.anchored /\ q.from = k.from /\ q.new = k.new
    /\ q.inAnch = k.inAnch /\ q.merged = k.merged /\ q.flight = k.flight
    /\ q.saved = k.saved /\ q.alias = k.alias /\ q.merges = k.merges /\ q.mine = k.mine
    /\ UnderWay(q) <=> UnderWay(k)
    /\ q.pc = "abandoned" <=> k.pc = "abandoned"
    /\ q.pc = "conflict" <=> k.pc = "conflict"
    /\ q.pc = "compact" => k.inAnch # <<>>
    /\ q.pc = "stored" => \E i \in 1..Len(h) : i > k.from /\ h[i].by = c
    /\ q.cur <= Len(h)

LEMMA MovedInv ==
    ASSUME NEW c, NEW k, NEW q, NEW h, ClientInv(c, k, h), Moved(c, k, q, h)
    PROVE  ClientInv(c, q, h)
<1>1. InOrder(c, k, h) /\ Explained(k) /\ Replayed(k) /\ Kept(k) /\ SoundClient(k) /\ Reads(k)
  BY DEF ClientInv
<1>2. InOrder(c, q, h)
  BY <1>1 DEF Moved, InOrder
<1>3. Pending(q) = Pending(k)
  BY DEF Moved, Pending
<1>4. Explained(q) /\ Replayed(q) /\ SoundClient(q) /\ Reads(q)
  BY <1>1, <1>3 DEF Moved, Explained, Replayed, SoundClient, Reads
<1>5. Kept(q)
  BY <1>1, <1>3 DEF Moved, Kept
<1> QED
  BY <1>2, <1>4, <1>5 DEF ClientInv, Moved

LEMMA AnchoringAskedInv ==
    ASSUME NEW c, NEW k, NEW h, ClientInv(c, k, h)
    PROVE  ClientInv(c, AnchoringAsked(k), h)
<1>1. k \in Client /\ InOrder(c, k, h)
  BY DEF ClientInv
<1>2. CASE k.pc # "idle"
  <2> DEFINE q == [k EXCEPT !.asked = TRUE]
  <2>1. Moved(c, k, q, h)
    BY <1>1, <1>2 DEF Client, Moved, UnderWay, InOrder
  <2>2. AnchoringAsked(k) = q
    BY <1>2 DEF AnchoringAsked
  <2> QED
    BY <2>1, <2>2, MovedInv
<1>3. CASE k.pc = "idle" /\ ~HasPending(k)
  BY <1>3 DEF AnchoringAsked
<1>4. CASE k.pc = "idle" /\ HasPending(k)
  <2> DEFINE p == Prepared(k)
             q == [p EXCEPT !.pc = "compact", !.asked = FALSE]
  <2>1. p \in Client /\ p.inAnch = Pending(k) /\ p.pc = "idle" /\ ClientInv(c, p, h)
    BY <1>1, <1>4, PreparedFields, PreparedInv
  <2>2. p.inAnch # <<>> /\ InOrder(c, p, h)
    BY <1>4, <2>1 DEF HasPending, ClientInv
  <2>3. AnchoringAsked(k) = q
    BY <1>4 DEF AnchoringAsked
  <2> HIDE DEF p
  <2>4. Moved(c, p, q, h)
    BY <2>1, <2>2 DEF Client, Steps, Moved, UnderWay, InOrder
  <2> QED
    BY <2>1, <2>3, <2>4, MovedInv
<1> QED
  BY <1>2, <1>3, <1>4

LEMMA CompactInv ==
    ASSUME NEW c, NEW k, NEW h, ClientInv(c, k, h), k.pc = "compact"
    PROVE  ClientInv(c, [k EXCEPT !.pc = "save", !.flight = Replay(k.anchored, k.inAnch),
                                  !.saved = Replay(k.anchored, k.inAnch), !.sent = k.inAnch,
                                  !.merged = k.inAnch, !.inAnch = <<>>], h)
<1> DEFINE map == Replay(k.anchored, k.inAnch)
           q == [k EXCEPT !.pc = "save", !.flight = map, !.saved = map, !.sent = k.inAnch,
                          !.merged = k.inAnch, !.inAnch = <<>>]
<1>1. k \in Client
  BY DEF ClientInv
<1>2. /\ k.new \in Operations /\ k.inAnch \in Operations /\ k.anchored \in BrickMap
      /\ Pending(k) \in Operations /\ map \in BrickMap /\ <<>> \in Operations
      /\ k.alias \in {"none", "flight", "anchored"}
  BY <1>1, ClientFields, ReplayType, EmptyDiff
<1>3. InOrder(c, k, h) /\ Explained(k) /\ Kept(k) /\ SoundClient(k) /\ Reads(k)
  BY DEF ClientInv
<1>4. /\ ~UnderWay(k) /\ k.merged = <<>> /\ k.inAnch # <<>> /\ k.alias # "flight"
      /\ k.merges # "open"
  BY <1>3 DEF InOrder, UnderWay
<1>5. map = Replay(k.anchored, k.inAnch)
  OBVIOUS
<1> HIDE DEF map
<1>6. /\ q \in Client /\ q.pc = "save" /\ q.flight = map /\ q.saved = map /\ q.merged = k.inAnch
      /\ q.inAnch = <<>> /\ q.dirty = k.dirty /\ q.anchored = k.anchored /\ q.from = k.from
      /\ q.cur = k.cur /\ q.new = k.new /\ q.alias = k.alias /\ q.merges = k.merges
      /\ q.mine = k.mine
  BY <1>1, <1>2 DEF Client, Steps, Operations
<1> HIDE DEF q
<1>7. UnderWay(q)
  BY <1>6 DEF UnderWay
<1>8. Pending(q) = k.new /\ q.merged \o Pending(q) = k.merged \o Pending(k)
  BY <1>2, <1>4, <1>6, Regrouped DEF Pending
<1>9. InOrder(c, q, h)
  BY <1>3, <1>4, <1>6, <1>7 DEF InOrder
<1>10. Explained(q) /\ Replayed(q) /\ Reads(q)
  BY <1>3, <1>5, <1>6, <1>8 DEF Explained, Replayed, Reads
<1>11. Kept(q)
  <2>1. Replay(map, k.new) = Replay(k.anchored, k.merged \o Pending(k))
    <3>1. k.merged \o Pending(k) = k.inAnch \o k.new
      BY <1>2, <1>4, Regrouped DEF Pending
    <3> QED
      BY <1>2, <1>5, <3>1, ReplayConcat
  <2> QED
    BY <1>3, <1>4, <1>6, <1>8, <2>1 DEF Kept
<1>12. SoundClient(q)
  <2>1. Sound(map)
    BY <1>2, <1>3, <1>5, ReplaySound DEF SoundClient
  <2> QED
    BY <1>3, <1>6, <2>1, EmptyDiff DEF SoundClient
<1> QED
  BY <1>5, <1>6, <1>9, <1>10, <1>11, <1>12 DEF ClientInv, q
\* What is left of a process that has ended.
EndChanges(e, k) ==
    /\ e \in Client /\ e.pc = "idle" /\ e.flight = EmptyMap /\ e.saved = EmptyMap
    /\ e.sent = <<>>
    /\ e.alias = IF k.alias = "flight" THEN "none" ELSE k.alias
    /\ e.dirty = k.dirty /\ e.anchored = k.anchored /\ e.from = k.from /\ e.cur = k.cur
    /\ e.new = k.new /\ e.inAnch = k.inAnch /\ e.merged = k.merged /\ e.mine = k.mine

LEMMA EndedFields ==
    ASSUME NEW k \in Client
    PROVE  EndChanges(Ended(k), k) /\ Ended(k).merges = k.merges
<1> DEFINE e == Ended(k)
           alias == IF k.alias = "flight" THEN "none" ELSE k.alias
<1>1. /\ EmptyMap \in BrickMap /\ <<>> \in Operations
      /\ alias \in {"none", "flight", "anchored"}
  BY EmptyMapIs, EmptyDiff, ClientFields
<1>2. e = [k EXCEPT !.pc = "idle", !.flight = EmptyMap, !.saved = EmptyMap,
                    !.sent = <<>>, !.alias = alias]
  BY DEF Ended, Client
<1> HIDE DEF alias, e
<1>3. EndChanges(e, k) /\ e.merges = k.merges
  <2>1. /\ e \in Client /\ e.pc = "idle" /\ e.flight = EmptyMap /\ e.saved = EmptyMap
        /\ e.alias = alias /\ e.sent = <<>>
        /\ e.dirty = k.dirty /\ e.anchored = k.anchored /\ e.from = k.from /\ e.cur = k.cur
        /\ e.new = k.new /\ e.inAnch = k.inAnch /\ e.merged = k.merged /\ e.mine = k.mine
        /\ e.merges = k.merges
    BY <1>1, <1>2 DEF Client, Steps, Operations
  <2> QED
    BY <2>1 DEF EndChanges, alias
<1> QED
  BY <1>3 DEF e

LEMMA FailedFields ==
    ASSUME NEW k \in Client
    PROVE  /\ EndChanges(Failed(k), k)
           /\ Failed(k).merges = IF k.merges = "open" THEN "lost" ELSE k.merges
<1> DEFINE merges == IF k.merges = "open" THEN "lost" ELSE k.merges
           q == [k EXCEPT !.merges = merges]
<1>1. merges \in {"none", "open", "closed", "lost"}
  BY ClientFields
<1>2. Failed(k) = Ended(q)
  BY DEF Failed, Client
<1> HIDE DEF merges
<1>3. /\ q \in Client /\ q.merges = merges /\ q.alias = k.alias
      /\ q.dirty = k.dirty /\ q.anchored = k.anchored /\ q.from = k.from /\ q.cur = k.cur
      /\ q.new = k.new /\ q.inAnch = k.inAnch /\ q.merged = k.merged /\ q.mine = k.mine
  BY <1>1 DEF Client
<1> HIDE DEF q
<1>4. EndChanges(Ended(q), q) /\ Ended(q).merges = q.merges
  BY <1>3, EndedFields
<1>5. EndChanges(Ended(q), k)
  BY <1>3, <1>4 DEF EndChanges
<1> QED
  BY <1>2, <1>3, <1>4, <1>5 DEF merges

LEMMA RolledBackFields ==
    ASSUME NEW k \in Client
    PROVE  /\ RolledBack(k) \in Client
           /\ RolledBack(k) = [k EXCEPT !.inAnch = k.merged \o k.inAnch, !.merged = <<>>]
           /\ RolledBack(k).inAnch = k.merged \o k.inAnch /\ RolledBack(k).merged = <<>>
           /\ RolledBack(k).alias = k.alias /\ RolledBack(k).merges = k.merges
           /\ RolledBack(k).dirty = k.dirty /\ RolledBack(k).anchored = k.anchored
           /\ RolledBack(k).from = k.from /\ RolledBack(k).cur = k.cur
           /\ RolledBack(k).new = k.new /\ RolledBack(k).mine = k.mine
           /\ RolledBack(k).flight = k.flight /\ RolledBack(k).saved = k.saved
           /\ RolledBack(k).pc = k.pc /\ RolledBack(k).sent = k.sent
<1> DEFINE inAnch == k.merged \o k.inAnch
           r == RolledBack(k)
<1>1. inAnch \in Operations /\ <<>> \in Operations
  BY ClientFields, EmptyDiff
<1>2. r = [k EXCEPT !.inAnch = inAnch, !.merged = <<>>]
  BY DEF RolledBack, Client
<1> HIDE DEF inAnch, r
<1>3. /\ r \in Client /\ r.inAnch = inAnch /\ r.merged = <<>>
      /\ r.alias = k.alias /\ r.merges = k.merges /\ r.dirty = k.dirty
      /\ r.anchored = k.anchored /\ r.from = k.from /\ r.cur = k.cur
      /\ r.new = k.new /\ r.mine = k.mine
      /\ r.flight = k.flight /\ r.saved = k.saved /\ r.pc = k.pc /\ r.sent = k.sent
  BY <1>1, <1>2 DEF Client, Operations
<1> QED
  BY <1>2, <1>3 DEF inAnch, r

\* The process ends with an error that puts its diffs back.
LEMMA FailedInv ==
    ASSUME NEW c, NEW k, NEW h, ClientInv(c, k, h), UnderWay(k) \/ k.pc = "conflict"
    PROVE  ClientInv(c, Failed(RolledBack(k)), h)
<1> DEFINE r == RolledBack(k)
           e == Failed(r)
<1>1. k \in Client
  BY DEF ClientInv
<1>2. /\ k.new \in Operations /\ k.inAnch \in Operations /\ k.merged \in Operations
      /\ k.alias \in {"none", "flight", "anchored"}
      /\ k.merges \in {"none", "open", "closed", "lost"}
  BY <1>1, ClientFields
<1>3. InOrder(c, k, h) /\ Explained(k) /\ Kept(k) /\ SoundClient(k) /\ Reads(k)
  BY DEF ClientInv
<1>4. /\ r \in Client /\ r.inAnch = k.merged \o k.inAnch /\ r.merged = <<>>
      /\ r.alias = k.alias /\ r.merges = k.merges
      /\ r.dirty = k.dirty /\ r.anchored = k.anchored
      /\ r.from = k.from /\ r.cur = k.cur /\ r.new = k.new /\ r.mine = k.mine
  BY <1>1, RolledBackFields
<1> HIDE DEF r
<1>5. EndChanges(e, r) /\ e.merges = IF r.merges = "open" THEN "lost" ELSE r.merges
  BY <1>4, FailedFields
<1> HIDE DEF e
<1>6. /\ e \in Client /\ e.pc = "idle" /\ e.flight = EmptyMap /\ e.saved = EmptyMap
      /\ e.alias = IF k.alias = "flight" THEN "none" ELSE k.alias
      /\ e.dirty = k.dirty /\ e.anchored = k.anchored /\ e.from = k.from /\ e.cur = k.cur
      /\ e.new = k.new /\ e.inAnch = k.merged \o k.inAnch /\ e.merged = <<>> /\ e.mine = k.mine
      /\ e.merges = IF k.merges = "open" THEN "lost" ELSE k.merges
  BY <1>4, <1>5 DEF EndChanges
<1>7. ~UnderWay(e) /\ e.alias # "flight" /\ e.merges # "open"
  BY <1>6 DEF UnderWay
<1>8. e.merged \o Pending(e) = k.merged \o Pending(k)
  <2>1. <<>> \o ((k.merged \o k.inAnch) \o k.new) = k.merged \o (k.inAnch \o k.new)
    BY <1>2, Regrouped
  <2> QED
    BY <1>6, <2>1 DEF Pending
<1>9. InOrder(c, e, h)
  BY <1>2, <1>3, <1>6, <1>7 DEF InOrder
<1>10. e.merges # "lost" => k.merges \notin {"open", "lost"} /\ k.alias # "flight"
  BY <1>2, <1>3, <1>6 DEF InOrder
<1>11. k.pc # "abandoned"
  BY DEF UnderWay
<1>12. Explained(e) /\ Replayed(e) /\ Reads(e)
  BY <1>3, <1>6, <1>7, <1>8, <1>10, <1>11 DEF Explained, Replayed, Reads
<1>13. Kept(e)
  BY <1>3, <1>6, <1>7, <1>8, <1>10, <1>11 DEF Kept
<1>14. SoundClient(e)
  BY <1>2, <1>3, <1>6, EmptyMapIs, EmptyDiff, WholeConcat DEF SoundClient
<1> QED
  BY <1>6, <1>9, <1>12, <1>13, <1>14 DEF ClientInv, e, r

\* The same when nothing is to be put back.
LEMMA FailedInConflictInv ==
    ASSUME NEW c, NEW k, NEW h, ClientInv(c, k, h), k.pc = "conflict"
    PROVE  ClientInv(c, Failed(k), h)
<1>1. k \in Client /\ k.merged = <<>>
  BY DEF ClientInv, InOrder, UnderWay
<1>2. <<>> \o k.inAnch = k.inAnch
  BY <1>1, ClientFields, Regrouped
<1>3. RolledBack(k) = k
  BY <1>1, <1>2 DEF RolledBack, Client
<1>4. ClientInv(c, Failed(RolledBack(k)), h)
  BY FailedInv
<1> QED
  BY <1>3, <1>4

\* The process puts its diffs back and finds a newer version to reconcile with.
LEMMA ConflictInv ==
    ASSUME NEW c, NEW k, NEW h, ClientInv(c, k, h), UnderWay(k), h # <<>>
    PROVE  ClientInv(c, [RolledBack(k) EXCEPT !.pc = "conflict"], h)
<1> DEFINE r == RolledBack(k)
           q == [r EXCEPT !.pc = "conflict"]
<1>1. k \in Client
  BY DEF ClientInv
<1>2. /\ k.new \in Operations /\ k.inAnch \in Operations /\ k.merged \in Operations
      /\ k.alias \in {"none", "flight", "anchored"}
      /\ k.merges \in {"none", "open", "closed", "lost"}
  BY <1>1, ClientFields
<1>3. InOrder(c, k, h) /\ Explained(k) /\ Kept(k) /\ SoundClient(k) /\ Reads(k)
  BY DEF ClientInv
<1>4. /\ r \in Client /\ r.inAnch = k.merged \o k.inAnch /\ r.merged = <<>>
      /\ r.alias = k.alias /\ r.merges = k.merges
      /\ r.dirty = k.dirty /\ r.anchored = k.anchored
      /\ r.from = k.from /\ r.cur = k.cur /\ r.new = k.new /\ r.mine = k.mine
      /\ r.flight = k.flight /\ r.saved = k.saved
  BY <1>1, RolledBackFields
<1> HIDE DEF r
<1>5. /\ q \in Client /\ q.pc = "conflict" /\ q.inAnch = k.merged \o k.inAnch /\ q.merged = <<>>
      /\ q.alias = k.alias /\ q.merges = k.merges
      /\ q.dirty = k.dirty /\ q.anchored = k.anchored
      /\ q.from = k.from /\ q.cur = k.cur /\ q.new = k.new /\ q.mine = k.mine
      /\ q.flight = k.flight /\ q.saved = k.saved
  BY <1>4 DEF Client, Steps
<1> HIDE DEF q
<1>6. ~UnderWay(q) /\ k.pc # "abandoned"
  BY <1>5 DEF UnderWay
<1>7. q.merged \o Pending(q) = k.merged \o Pending(k)
  <2>1. <<>> \o ((k.merged \o k.inAnch) \o k.new) = k.merged \o (k.inAnch \o k.new)
    BY <1>2, Regrouped
  <2> QED
    BY <1>5, <2>1 DEF Pending
<1>8. k.merged # <<>> => q.inAnch # <<>>
  BY <1>2, <1>5, ConcatEqualIffEmpty DEF Operations
<1>9. InOrder(c, q, h)
  BY <1>3, <1>5, <1>6, <1>8 DEF InOrder
<1>10. Explained(q) /\ Replayed(q) /\ Reads(q)
  BY <1>3, <1>5, <1>6, <1>7 DEF Explained, Replayed, Reads
<1>11. k.alias = "flight" => Pending(q) = Pending(k)
  <2>1. k.alias = "flight" => q.inAnch = k.inAnch
    BY <1>2, <1>3, <1>5, Regrouped DEF InOrder
  <2> QED
    BY <1>5, <2>1 DEF Pending
<1>12. Kept(q)
  BY <1>3, <1>5, <1>6, <1>7, <1>11 DEF Kept
<1>13. SoundClient(q)
  BY <1>2, <1>3, <1>5, EmptyDiff, WholeConcat DEF SoundClient
<1> QED
  BY <1>5, <1>9, <1>10, <1>12, <1>13 DEF ClientInv, q, r

\* The process ends and is never released.
LEMMA AbandonedInv ==
    ASSUME NEW c, NEW k \in Client, NEW h, k.cur <= Len(h), k.from <= Len(h),
           k.alias = "anchored" => k.dirty = k.anchored /\ k.merges # "none",
           SoundClient(k), Reads(k)
    PROVE  ClientInv(c, Abandoned(k), h)
<1> DEFINE e == Failed(k)
           a == [e EXCEPT !.pc = "abandoned", !.merged = <<>>]
<1>1. /\ k.alias \in {"none", "flight", "anchored"}
      /\ k.merges \in {"none", "open", "closed", "lost"} /\ <<>> \in Operations
  BY ClientFields, EmptyDiff
<1>2. EndChanges(e, k) /\ e.merges = IF k.merges = "open" THEN "lost" ELSE k.merges
  BY FailedFields
<1>3. Abandoned(k) = a
  BY DEF Abandoned
<1> HIDE DEF e
<1>4. /\ a \in Client /\ a.pc = "abandoned" /\ a.merged = <<>> /\ a.flight = e.flight
      /\ a.saved = e.saved /\ a.alias = e.alias /\ a.merges = e.merges /\ a.dirty = e.dirty
      /\ a.anchored = e.anchored /\ a.from = e.from /\ a.cur = e.cur /\ a.new = e.new
      /\ a.inAnch = e.inAnch /\ a.mine = e.mine
  BY <1>1, <1>2 DEF EndChanges, Client, Steps, Operations
<1> HIDE DEF a
<1>5. ~UnderWay(a) /\ a.alias # "flight"
  BY <1>2, <1>4 DEF UnderWay, EndChanges
<1>6. InOrder(c, a, h)
  BY <1>1, <1>2, <1>4, <1>5 DEF InOrder, EndChanges
<1>7. Explained(a) /\ Replayed(a) /\ Kept(a)
  BY <1>4, <1>5 DEF Explained, Replayed, Kept
<1>8. SoundClient(a) /\ Reads(a)
  BY <1>2, <1>4, EmptyMapIs, EmptyDiff DEF SoundClient, Reads, EndChanges
<1> QED
  BY <1>3, <1>4, <1>6, <1>7, <1>8 DEF ClientInv

\* With the diffs it took, or without them.
LEMMA AbandonedWithInv ==
    ASSUME NEW c, NEW k, NEW h, ClientInv(c, k, h)
    PROVE  /\ ClientInv(c, Abandoned(k), h)
           /\ ClientInv(c, Abandoned([k EXCEPT !.inAnch = <<>>]), h)
<1> DEFINE q == [k EXCEPT !.inAnch = <<>>]
<1>1. /\ k \in Client /\ k.cur <= Len(h) /\ k.from <= Len(h)
      /\ k.alias = "anchored" => k.dirty = k.anchored /\ k.merges # "none"
      /\ SoundClient(k) /\ Reads(k)
  BY DEF ClientInv, InOrder
<1>2. <<>> \in Operations
  BY EmptyDiff
<1>3. /\ q \in Client /\ q.inAnch = <<>> /\ q.dirty = k.dirty /\ q.anchored = k.anchored
      /\ q.from = k.from /\ q.cur = k.cur /\ q.new = k.new /\ q.merged = k.merged
      /\ q.flight = k.flight /\ q.saved = k.saved /\ q.alias = k.alias
      /\ q.merges = k.merges /\ q.mine = k.mine
  BY <1>1, <1>2 DEF Client, Operations
<1> HIDE DEF q
<1>4. SoundClient(q) /\ Reads(q)
  BY <1>1, <1>3, EmptyDiff DEF SoundClient, Reads
<1>5. ClientInv(c, Abandoned(k), h)
  BY <1>1, AbandonedInv
<1>6. ClientInv(c, Abandoned(q), h)
  BY <1>1, <1>3, <1>4, AbandonedInv
<1> QED
  BY <1>5, <1>6 DEF q

\* The last version of client c.
LEMMA LastOfClient ==
    ASSUME NEW c, NEW h \in Seq(Version), NEW n \in 1..Len(h), h[n].by = c
    PROVE  \E v \in 1..Len(h) : h[v].by = c /\ \A j \in (v + 1)..Len(h) : h[j].by # c
<1> DEFINE T == {m \in Nat : \E i \in 1..Len(h) : h[i].by = c /\ m = Len(h) - i}
<1>1. Len(h) \in Nat
  BY LenProperties
<1>2. T \in SUBSET Nat /\ T # {}
  <2>1. Len(h) - n \in T
    BY <1>1
  <2> QED
    BY <2>1
<1>3. PICK m \in T : \A y \in T : ~(y < m)
  BY <1>2, Least
<1>4. PICK v \in 1..Len(h) : h[v].by = c /\ m = Len(h) - v
  BY <1>3
<1>5. ASSUME NEW j \in (v + 1)..Len(h), h[j].by = c PROVE FALSE
  <2>1. j \in 1..Len(h) /\ Len(h) - j \in Nat /\ Len(h) - j < m
    BY <1>1, <1>4
  <2>2. Len(h) - j \in T
    BY <1>5, <2>1
  <2> QED
    BY <1>3, <2>1, <2>2
<1> QED
  BY <1>4, <1>5

\* What a process that has anchored its brick map leaves.
Anchored(k, v) ==
    Ended([k EXCEPT !.anchored = k.flight, !.from = v, !.cur = v, !.merged = <<>>,
                    !.alias = IF @ = "flight" THEN "anchored" ELSE "none",
                    !.merges = IF @ = "open" THEN "closed" ELSE @])

LEMMA AnchoredFields ==
    ASSUME NEW k \in Client, NEW v \in Nat
    PROVE  LET e == Anchored(k, v) IN
           /\ e \in Client /\ e.pc = "idle" /\ e.flight = EmptyMap /\ e.saved = EmptyMap
           /\ e.sent = <<>>
           /\ e.alias = IF k.alias = "flight" THEN "anchored" ELSE "none"
           /\ e.dirty = k.dirty /\ e.anchored = k.flight /\ e.from = v /\ e.cur = v
           /\ e.new = k.new /\ e.inAnch = k.inAnch /\ e.merged = <<>> /\ e.mine = k.mine
           /\ e.merges = IF k.merges = "open" THEN "closed" ELSE k.merges
<1> DEFINE alias == IF k.alias = "flight" THEN "anchored" ELSE "none"
           merges == IF k.merges = "open" THEN "closed" ELSE k.merges
           q == [k EXCEPT !.anchored = k.flight, !.from = v, !.cur = v, !.merged = <<>>,
                          !.alias = alias, !.merges = merges]
<1>1. /\ alias \in {"none", "flight", "anchored"} /\ alias # "flight"
      /\ merges \in {"none", "open", "closed", "lost"}
      /\ <<>> \in Operations /\ k.flight \in BrickMap
  BY ClientFields, EmptyDiff
<1>2. Anchored(k, v) = Ended(q)
  BY DEF Anchored, Client
<1>3. alias = (IF k.alias = "flight" THEN "anchored" ELSE "none")
      /\ merges = (IF k.merges = "open" THEN "closed" ELSE k.merges)
  OBVIOUS
<1> HIDE DEF alias, merges
<1>4. /\ q \in Client /\ q.anchored = k.flight /\ q.from = v /\ q.cur = v /\ q.merged = <<>>
      /\ q.alias = alias /\ q.merges = merges /\ q.dirty = k.dirty /\ q.new = k.new
      /\ q.inAnch = k.inAnch /\ q.mine = k.mine
  BY <1>1 DEF Client, Operations
<1> HIDE DEF q
<1>5. EndChanges(Ended(q), q) /\ Ended(q).merges = q.merges
  BY <1>4, EndedFields
<1> QED
  BY <1>1, <1>2, <1>3, <1>4, <1>5 DEF EndChanges

LEMMA AnchoredInv ==
    ASSUME NEW c, NEW k, NEW h, ClientInv(c, k, h), UnderWay(k), NEW v \in Nat, v <= Len(h)
    PROVE  ClientInv(c, Anchored(k, v), h)
<1> DEFINE e == Anchored(k, v)
<1>1. k \in Client
  BY DEF ClientInv
<1>2. /\ k.inAnch \in Operations /\ k.new \in Operations /\ k.merged \in Operations
      /\ Pending(k) \in Operations /\ k.anchored \in BrickMap
      /\ k.alias \in {"none", "flight", "anchored"}
      /\ k.merges \in {"none", "open", "closed", "lost"}
  BY <1>1, ClientFields
<1>3. InOrder(c, k, h) /\ Explained(k) /\ Replayed(k) /\ Kept(k) /\ SoundClient(k) /\ Reads(k)
  BY DEF ClientInv
<1>4. /\ e \in Client /\ e.pc = "idle" /\ e.flight = EmptyMap /\ e.saved = EmptyMap
      /\ e.alias = IF k.alias = "flight" THEN "anchored" ELSE "none"
      /\ e.dirty = k.dirty /\ e.anchored = k.flight /\ e.from = v /\ e.cur = v
      /\ e.new = k.new /\ e.inAnch = k.inAnch /\ e.merged = <<>> /\ e.mine = k.mine
      /\ e.merges = IF k.merges = "open" THEN "closed" ELSE k.merges
  BY <1>1, AnchoredFields
<1> HIDE DEF e
<1>5. ~UnderWay(e) /\ k.pc # "abandoned" /\ e.alias # "flight"
  BY <1>4 DEF UnderWay
<1>6. e.merged \o Pending(e) = Pending(k)
  BY <1>2, <1>4, Regrouped DEF Pending
<1>7. InOrder(c, e, h)
  BY <1>2, <1>3, <1>4, <1>5 DEF InOrder
<1>8. e.merges = "none" => k.merges = "none"
  BY <1>2, <1>4
<1>9. e.merges # "lost" => k.merges # "lost"
  BY <1>2, <1>4
<1>10. Explained(e)
  <2>1. Replay(k.anchored, k.merged \o Pending(k)) = Replay(Replay(k.anchored, k.merged), Pending(k))
    BY <1>2, ReplayConcat
  <2> QED
    BY <1>3, <1>4, <1>5, <1>6, <1>8, <2>1 DEF Explained, Replayed
<1>11. Kept(e)
  BY <1>3, <1>4, <1>5, <1>6, <1>9 DEF Kept
<1>12. Replayed(e) /\ SoundClient(e) /\ Reads(e)
  BY <1>3, <1>4, <1>5, <1>9, EmptyMapIs, EmptyDiff DEF Replayed, SoundClient, Reads
<1> QED
  BY <1>4, <1>7, <1>10, <1>11, <1>12 DEF ClientInv, e

\* Merging keeps the bricks of ours and the soundness of both.
LEMMA MergeKeepsOurs ==
    ASSUME NEW theirs \in BrickMap, NEW ours \in BrickMap, Sound(theirs), Sound(ours)
    PROVE  /\ Merge(theirs, ours) \in BrickMap /\ Sound(Merge(theirs, ours))
           /\ \A f \in Files : \A b : b \in ToSet(ours[f].bricks) =>
                 b \in ToSet(Merge(theirs, ours)[f].bricks)
<1> DEFINE D == Diff(theirs, ours)
           Overlaid(f) == [there |-> TRUE, deleted |-> theirs[f].deleted \/ ours[f].deleted,
                           bricks |-> ours[f].bricks]
           m == Merge(theirs, ours)
<1>1. \A f \in Files : /\ theirs[f] \in Node /\ ours[f] \in Node
                       /\ theirs[f].there \in BOOLEAN /\ theirs[f].deleted \in BOOLEAN
                       /\ ours[f].there \in BOOLEAN /\ ours[f].deleted \in BOOLEAN
                       /\ ours[f].bricks \in Seq(0..MaxWrites)
  BY DEF BrickMap, Node
<1>2. \A f \in Files : /\ f \in D => m[f] = Overlaid(f)
                       /\ f \notin D => m[f] = theirs[f]
  BY DEF Merge
<1>3. \A f \in Files : /\ Overlaid(f) \in Node /\ Overlaid(f).there
                       /\ Overlaid(f).bricks = ours[f].bricks
                       /\ Overlaid(f).deleted = (theirs[f].deleted \/ ours[f].deleted)
  BY <1>1 DEF Node
<1>4. \A f \in Files : /\ f \in D => ours[f].there
                       /\ f \notin D => \/ ~ours[f].there
                                        \/ theirs[f].there /\ theirs[f].bricks = ours[f].bricks
  <2> SUFFICES ASSUME NEW f \in Files
               PROVE  /\ f \in D => ours[f].there
                      /\ f \notin D => \/ ~ours[f].there
                                       \/ theirs[f].there /\ theirs[f].bricks = ours[f].bricks
    OBVIOUS
  <2>1. f \in D <=> /\ ours[f].there
                    /\ ~theirs[f].there \/ theirs[f].bricks # ours[f].bricks
    BY DEF Diff
  <2> HIDE DEF D
  <2> QED
    BY <2>1
<1>5. m = [f \in Files |-> m[f]]
  BY DEF Merge
<1> HIDE DEF D, Overlaid, m
<1>6. m \in BrickMap
  <2>1. \A f \in Files : m[f] \in Node
    BY <1>1, <1>2, <1>3
  <2> QED
    BY <1>5, <2>1 DEF BrickMap
<1>7. Sound(m)
  <2> SUFFICES ASSUME NEW f \in Files
               PROVE  /\ ~m[f].there => m[f].bricks = <<>>
                      /\ m[f].bricks = <<>> => ~m[f].there \/ m[f].deleted
    BY DEF Sound
  <2>1. CASE f \in D
    <3>1. m[f].there /\ m[f].bricks = ours[f].bricks
          /\ m[f].deleted = (theirs[f].deleted \/ ours[f].deleted)
      BY <1>2, <1>3, <2>1
    <3>2. ours[f].bricks = <<>> => ours[f].deleted
      BY <1>4, <2>1 DEF Sound
    <3> QED
      BY <3>1, <3>2
  <2>2. CASE f \notin D
    BY <1>2, <2>2 DEF Sound
  <2> QED
    BY <2>1, <2>2
<1>8. ASSUME NEW f \in Files, NEW b, b \in ToSet(ours[f].bricks)
      PROVE  b \in ToSet(m[f].bricks)
  <2>1. ToSet(<<>>) = {}
    BY DEF ToSet
  <2>2. ours[f].there
    BY <1>1, <1>8, <2>1 DEF Sound
  <2>3. m[f].bricks = ours[f].bricks
    <3>1. CASE f \in D
      BY <1>2, <1>3, <3>1
    <3>2. CASE f \notin D
      BY <1>2, <1>4, <2>2, <3>2
    <3> QED
      BY <3>1, <3>2
  <2> QED
    BY <1>8, <2>3
<1> QED
  BY <1>6, <1>7, <1>8 DEF m

\* What is pending is merged into the version loaded.
MergedInto(k, result) ==
    [k EXCEPT !.pc = "save", !.inAnch = <<>>, !.merged = <<>>, !.sent = k.inAnch,
              !.asked = FALSE, !.dirty = result, !.flight = result, !.saved = result,
              !.alias = "flight",
              !.merges = IF @ \in {"none", "closed"} THEN "open" ELSE "lost"]

LEMMA MergedIntoInv ==
    ASSUME NEW c, NEW k, NEW h, ClientInv(c, k, h), k.pc = "conflict", k.new = <<>>,
           NEW result \in BrickMap, Sound(result),
           k.inAnch # <<>> =>
              \A f \in Files : \A b : b \in ToSet(Replay(k.anchored, k.inAnch)[f].bricks) =>
                 b \in ToSet(result[f].bricks)
    PROVE  ClientInv(c, MergedInto(k, result), h)
<1> DEFINE merges == IF k.merges \in {"none", "closed"} THEN "open" ELSE "lost"
           q == [k EXCEPT !.pc = "save", !.inAnch = <<>>, !.merged = <<>>, !.sent = k.inAnch,
                          !.asked = FALSE, !.dirty = result, !.flight = result,
                          !.saved = result, !.alias = "flight", !.merges = merges]
<1>1. k \in Client
  BY DEF ClientInv
<1>2. /\ k.inAnch \in Operations /\ k.merged \in Operations /\ k.new \in Operations
      /\ k.merges \in {"none", "open", "closed", "lost"}
      /\ k.alias \in {"none", "flight", "anchored"}
      /\ <<>> \in Operations /\ Whole(<<>>)
  BY <1>1, ClientFields, EmptyDiff
<1>3. InOrder(c, k, h) /\ Kept(k) /\ SoundClient(k) /\ Reads(k)
  BY DEF ClientInv
<1>4. merges \in {"open", "lost"} /\ (merges # "lost" => k.merges \in {"none", "closed"})
  OBVIOUS
<1>5. MergedInto(k, result) = q
  BY <1>1 DEF MergedInto, Client
<1> HIDE DEF merges
<1>6. /\ q \in Client /\ q.pc = "save" /\ q.inAnch = <<>> /\ q.merged = <<>> /\ q.new = <<>>
      /\ q.dirty = result /\ q.flight = result /\ q.saved = result /\ q.alias = "flight"
      /\ q.merges = merges /\ q.anchored = k.anchored /\ q.from = k.from /\ q.cur = k.cur
      /\ q.mine = k.mine
  BY <1>1, <1>2, <1>4 DEF Client, Steps, Operations
<1> HIDE DEF q
<1>7. UnderWay(q) /\ q.pc # "abandoned" /\ k.pc # "abandoned"
  BY <1>6 DEF UnderWay
<1>8. InOrder(c, q, h)
  BY <1>3, <1>4, <1>6, <1>7 DEF InOrder
<1>9. Pending(q) = <<>> /\ k.merged \o Pending(k) = k.inAnch
  <2>1. k.merged = <<>>
    BY <1>3 DEF InOrder, UnderWay
  <2>2. <<>> \o <<>> = <<>> /\ k.inAnch \o <<>> = k.inAnch /\ <<>> \o k.inAnch = k.inAnch
    BY <1>2, ConcatEmptySeq DEF Operations
  <2> QED
    BY <1>6, <2>1, <2>2 DEF Pending
<1>10. ASSUME NEW f \in Files, q.mine[f] # 0, q.merges # "lost"
       PROVE  q.mine[f] \in ToSet(result[f].bricks)
  <2>1. k.merges \in {"none", "closed"} /\ k.alias # "flight" /\ k.inAnch # <<>>
    BY <1>3, <1>4, <1>6, <1>10 DEF InOrder
  <2>2. k.mine[f] \in ToSet(Replay(k.anchored, k.merged \o Pending(k))[f].bricks)
    BY <1>3, <1>6, <1>7, <1>10, <2>1 DEF Kept
  <2>3. k.mine[f] \in ToSet(Replay(k.anchored, k.inAnch)[f].bricks)
    BY <1>9, <2>2
  <2> QED
    BY <1>6, <2>1, <2>3
<1>11. Kept(q)
  <2>1. Replay(q.flight, Pending(q)) = result
    BY <1>6, <1>9, ReplayEmpty
  <2> QED
    BY <1>6, <1>10, <2>1 DEF Kept
<1>12. Explained(q) /\ Replayed(q)
  BY <1>4, <1>6 DEF Explained, Replayed
<1>13. SoundClient(q) /\ Reads(q)
  BY <1>2, <1>3, <1>6, <1>10 DEF SoundClient, Reads
<1> QED
  BY <1>5, <1>6, <1>8, <1>11, <1>12, <1>13 DEF ClientInv

LEMMA ReconciledInv ==
    ASSUME NEW c, NEW k, NEW h, ClientInv(c, k, h), k.pc = "conflict", k.new = <<>>,
           NEW theirs \in BrickMap, Sound(theirs)
    PROVE  ClientInv(c, Reconciled(k, theirs), h)
<1> DEFINE ours == Replay(k.anchored, k.inAnch)
           result == IF k.inAnch = <<>> THEN theirs ELSE Merge(theirs, ours)
<1>1. k.anchored \in BrickMap /\ k.inAnch \in Operations /\ SoundClient(k)
  BY ClientFields DEF ClientInv
<1>2. ours \in BrickMap /\ Sound(ours)
  BY <1>1, ReplayType, ReplaySound DEF SoundClient
<1>3. /\ result \in BrickMap /\ Sound(result)
      /\ k.inAnch # <<>> =>
            \A f \in Files : \A b : b \in ToSet(ours[f].bricks) => b \in ToSet(result[f].bricks)
  <2>1. CASE k.inAnch = <<>>
    BY <2>1
  <2>2. CASE k.inAnch # <<>>
    <3>1. result = Merge(theirs, ours)
      BY <2>2
    <3> HIDE DEF result, ours
    <3> QED
      BY <1>2, <3>1, MergeKeepsOurs
  <2> QED
    BY <2>1, <2>2
<1>4. Reconciled(k, theirs) =
        IF MergeConflictsHandled(k, theirs) THEN Failed(k)
        ELSE IF ReplayThrows(k.anchored, k.inAnch) THEN Abandoned([k EXCEPT !.inAnch = <<>>])
        ELSE MergedInto(k, result)
  BY DEF Reconciled, MergedInto
<1>5. ClientInv(c, MergedInto(k, result), h)
  <2> HIDE DEF result
  <2> QED
    BY <1>3, MergedIntoInv
<1>6. ClientInv(c, Failed(k), h) /\ ClientInv(c, Abandoned([k EXCEPT !.inAnch = <<>>]), h)
  BY FailedInConflictInv, AbandonedWithInv
<1> QED
  BY <1>4, <1>5, <1>6

\* A controller that has just loaded the DSU.
LEMMA OpenedInv ==
    ASSUME NEW c, NEW h, NEW v \in Nat, v <= Len(h), NEW map \in BrickMap, Sound(map)
    PROVE  ClientInv(c, Opened(v, map), h)
<1> DEFINE k == Opened(v, map)
           none == [f \in Files |-> 0]
<1>1. /\ <<>> \in Operations /\ Whole(<<>>) /\ EmptyMap \in BrickMap /\ Sound(EmptyMap)
      /\ none \in [Files -> 0..MaxWrites] /\ \A f \in Files : none[f] = 0
  BY EmptyDiff, EmptyMapIs
<1>2. none = [f \in Files |-> 0]
  OBVIOUS
<1> HIDE DEF none
<1>3. /\ k \in Client /\ k.pc = "idle" /\ k.dirty = map /\ k.anchored = map /\ k.from = v
      /\ k.cur = v /\ k.new = <<>> /\ k.inAnch = <<>> /\ k.merged = <<>>
      /\ k.flight = EmptyMap /\ k.saved = EmptyMap /\ k.alias = "none" /\ k.merges = "none"
      /\ k.mine = none
  BY <1>1, <1>2 DEF Opened, Client, Steps, Operations
<1> HIDE DEF k
<1>4. ~UnderWay(k)
  BY <1>3 DEF UnderWay
<1>5. k.merged \o Pending(k) = <<>>
  BY <1>1, <1>3, Regrouped DEF Pending
<1>6. InOrder(c, k, h)
  BY <1>3, <1>4 DEF InOrder
<1>7. Explained(k) /\ Replayed(k)
  BY <1>3, <1>4, <1>5, ReplayEmpty DEF Explained, Replayed
<1>8. Kept(k) /\ SoundClient(k) /\ Reads(k)
  BY <1>1, <1>3 DEF Kept, SoundClient, Reads
<1> QED
  BY <1>3, <1>6, <1>7, <1>8 DEF ClientInv, k
-----------------------------------------------------------------------------
(* The invariant, of all the clients *)

IndInv ==
    /\ client \in [Clients -> Client] /\ history \in Seq(Version)
    /\ writes \in 0..MaxWrites /\ faults \in 0..MaxFaults /\ reopens \in 0..MaxReopens
    /\ \A c \in Clients : ClientInv(c, client[c], history)
    /\ \A i \in 1..Len(history) : Sound(history[i].map)

LEMMA IndInvImplies ==
    ASSUME IndInv
    PROVE  /\ TypeOK /\ StepsInOrder /\ FlightIsReplay /\ MineIsPending /\ MapsAreSound
           /\ ReadYourWrites
<1>1. \A c \in Clients :
         LET k == client[c] IN
         InOrder(c, k, history) /\ Explained(k) /\ Replayed(k) /\ Kept(k) /\ SoundClient(k)
         /\ Reads(k)
  BY DEF IndInv, ClientInv
<1>2. TypeOK
  BY DEF IndInv, TypeOK
<1>3. StepsInOrder
  BY <1>1 DEF StepsInOrder, InOrder, LastVersion, Versions
<1>4. FlightIsReplay
  BY <1>1 DEF FlightIsReplay, Replayed
<1>5. MineIsPending
  BY <1>1 DEF MineIsPending, Kept, Restores
<1>6. MapsAreSound
  BY <1>1 DEF MapsAreSound, SoundClient, IndInv, Versions, LastVersion
<1>7. ReadYourWrites
  BY <1>1 DEF ReadYourWrites, Reads
<1> QED
  BY <1>2, <1>3, <1>4, <1>5, <1>6, <1>7

\* The versions there are.
LEMMA VersionFields ==
    ASSUME NEW h \in Seq(Version), \A i \in 1..Len(h) : Sound(h[i].map)
    PROVE  /\ Len(h) \in Nat
           /\ h # <<>> => Len(h) \in 1..Len(h)
           /\ \A i \in 1..Len(h) : h[i] \in Version /\ h[i].map \in BrickMap /\ Sound(h[i].map)
<1>1. Len(h) \in Nat
  BY LenProperties
<1>2. h # <<>> => Len(h) \in 1..Len(h)
  BY <1>1, EmptySeq
<1>3. \A i \in 1..Len(h) : h[i] \in Version
  BY ElementOfSeq
<1>4. \A v \in Version : v.map \in BrickMap
  BY DEF Version
<1> QED
  BY <1>1, <1>2, <1>3, <1>4

\* One client takes a step.
LEMMA StepOfClient ==
    ASSUME IndInv, NEW c \in Clients, NEW k, SetClient(c, k), ClientInv(c, k, history'),
           writes' \in 0..MaxWrites, faults' \in 0..MaxFaults, reopens' \in 0..MaxReopens,
           \/ history' = history
           \/ \E v \in Version : Sound(v.map) /\ history' = Append(history, v)
    PROVE  IndInv'
<1>1. k \in Client /\ client \in [Clients -> Client] /\ history \in Seq(Version)
  BY DEF ClientInv, IndInv
<1>2. /\ client' \in [Clients -> Client] /\ client'[c] = k
      /\ \A d \in Clients : d # c => client'[d] = client[d]
  BY <1>1 DEF SetClient
<1>3. history' \in Seq(Version) /\ \A i \in 1..Len(history') : Sound(history'[i].map)
  <2>1. CASE history' = history
    BY <2>1 DEF IndInv
  <2>2. CASE \E v \in Version : Sound(v.map) /\ history' = Append(history, v)
    <3>1. PICK v \in Version : Sound(v.map) /\ history' = Append(history, v)
      BY <2>2
    <3> DEFINE g == Append(history, v)
    <3>2. /\ g \in Seq(Version) /\ Len(g) = Len(history) + 1 /\ Len(history) \in Nat
          /\ \A i \in 1..Len(history) : g[i] = history[i]
          /\ g[Len(history) + 1] = v
      BY <1>1, AppendProperties, LenProperties
    <3> HIDE DEF g
    <3>3. \A i \in 1..Len(g) : i \in 1..Len(history) \/ i = Len(history) + 1
      BY <3>2
    <3>4. \A i \in 1..Len(g) : Sound(g[i].map)
      BY <3>1, <3>2, <3>3 DEF IndInv
    <3> QED
      BY <3>1, <3>2, <3>4 DEF g
  <2> QED
    BY <2>1, <2>2
<1>4. ASSUME NEW d \in Clients PROVE ClientInv(d, client'[d], history')
  <2>1. ClientInv(d, client[d], history)
    BY DEF IndInv
  <2>2. ClientInv(d, client[d], history')
    BY <1>1, <2>1, HistoryGrows
  <2> QED
    BY <1>2, <2>2
<1> QED
  BY <1>2, <1>3, <1>4 DEF IndInv

LEMMA InitInv == Init => IndInv
<1> SUFFICES ASSUME Init PROVE IndInv
  OBVIOUS
<1>1. PICK fs \in Seeds, c \in Clients :
        history \in {<<>>, <<[map |-> SeedMap(fs), by |-> c, from |-> 0, ops |-> <<>>,
                              merged |-> FALSE]>>}
  BY DEF Init
<1> DEFINE map == SeedMap(fs)
           v == [map |-> map, by |-> c, from |-> 0, ops |-> <<>>, merged |-> FALSE]
<1>2. map \in BrickMap /\ Sound(map)
  <2>1. <<0>> \in Seq(0..MaxWrites) /\ <<0>> # <<>> /\ <<>> \in Seq(0..MaxWrites)
    BY EmptySeq
  <2>2. /\ FileNode(<<0>>) \in Node /\ FileNode(<<0>>).there /\ FileNode(<<0>>).bricks # <<>>
        /\ AbsentNode \in Node /\ ~AbsentNode.there /\ AbsentNode.bricks = <<>>
    BY <2>1 DEF FileNode, AbsentNode, Node
  <2>3. \A f \in Files : map[f] \in {FileNode(<<0>>), AbsentNode}
    BY DEF SeedMap
  <2> QED
    BY <2>2, <2>3 DEF SeedMap, BrickMap, Sound
<1>3. v \in Version /\ v.map = map
  <2> HIDE DEF map
  <2> QED
    BY <1>2, EmptySeq DEF Version
<1> HIDE DEF v
<1>4. /\ history \in Seq(Version) /\ \A i \in 1..Len(history) : Sound(history[i].map)
      /\ history # <<>> => 1 <= Len(history) /\ history[1].map = map
      /\ Len(history) \in Nat
  <2>1. CASE history = <<>>
    BY <2>1, EmptySeq
  <2>2. CASE history = <<v>>
    BY <1>2, <1>3, <2>2
  <2> QED
    BY <1>1, <2>1, <2>2 DEF v
<1>5. ASSUME NEW d \in Clients PROVE ClientInv(d, client[d], history)
  <2>1. client[d] = IF history = <<>> THEN Opened(0, EmptyMap) ELSE Opened(1, history[1].map)
    BY DEF Init
  <2>2. CASE history = <<>>
    <3>1. 0 \in Nat /\ 0 <= Len(history)
      BY <1>4
    <3>2. ClientInv(d, Opened(0, EmptyMap), history)
      BY <3>1, EmptyMapIs, OpenedInv
    <3> QED
      BY <2>1, <2>2, <3>2
  <2>3. CASE history # <<>>
    <3>1. 1 \in Nat /\ 1 <= Len(history) /\ history[1].map = map
      BY <1>4, <2>3
    <3> HIDE DEF map
    <3>2. ClientInv(d, Opened(1, map), history)
      BY <1>2, <3>1, OpenedInv
    <3> QED
      BY <2>1, <2>3, <3>1, <3>2
  <2> QED
    BY <2>2, <2>3
<1>6. client \in [Clients -> Client]
  <2>1. \A d \in Clients : client[d] \in Client
    BY <1>5 DEF ClientInv
  <2> QED
    BY <2>1 DEF Init
<1> QED
  BY <1>4, <1>5, <1>6, BoundsAssumption DEF Init, IndInv
-----------------------------------------------------------------------------
(* The actions keep it *)

LEMMA WriteKeeps ==
    ASSUME IndInv, NEW c \in Clients, AddFile(c) \/ AppendToFile(c) \/ DeleteFile(c)
    PROVE  IndInv'
<1>1. PICK f \in Files, brick \in {0, writes + 1} : \E ops :
         IsWrite(ops, f, brick) /\ Write(c, f, ops, brick) /\ brick \in 0..MaxWrites
  BY WriteActions DEF IndInv
<1>2. PICK ops : IsWrite(ops, f, brick) /\ Write(c, f, ops, brick) /\ brick \in 0..MaxWrites
  BY <1>1
<1> DEFINE w == Written(client[c], ops, f, brick)
<1>3. ClientInv(c, client[c], history) /\ history \in Seq(Version)
  BY DEF IndInv
<1>4. ClientInv(c, w, history)
  BY <1>2, <1>3, WrittenInv
<1>5. PICK shouldBeAnchored \in BOOLEAN :
         SetClient(c, IF shouldBeAnchored THEN AnchoringAsked(w) ELSE w)
  BY <1>2 DEF Write, AttemptAnchoring, IfChangesShouldBeAnchored, Written
<1> HIDE DEF w
<1> DEFINE k == IF shouldBeAnchored THEN AnchoringAsked(w) ELSE w
<1>6. ClientInv(c, k, history) /\ SetClient(c, k)
  BY <1>4, <1>5, AnchoringAskedInv
<1>7. /\ history' = history /\ faults' = faults /\ reopens' = reopens
      /\ writes' \in 0..MaxWrites
  BY <1>2 DEF Write, IndInv
<1> HIDE DEF k
<1>8. ClientInv(c, k, history')
  BY <1>6, <1>7
<1> QED
  BY <1>6, <1>7, <1>8, StepOfClient DEF IndInv

LEMMA AnchorChangesKeeps ==
    ASSUME IndInv, NEW c \in Clients, AnchorChanges(c)
    PROVE  IndInv'
<1> DEFINE k == AnchoringAsked(client[c])
<1>1. SetClient(c, k) /\ UNCHANGED <<history, writes, faults, reopens>>
  BY DEF AnchorChanges, counters
<1>2. ClientInv(c, k, history)
  BY AnchoringAskedInv DEF IndInv
<1> HIDE DEF k
<1>3. ClientInv(c, k, history')
  BY <1>1, <1>2
<1> QED
  BY <1>1, <1>3, StepOfClient DEF IndInv

LEMMA CompactKeeps ==
    ASSUME IndInv, NEW c \in Clients, Compact(c)
    PROVE  IndInv'
<1> DEFINE k == client[c]
           saving == [k EXCEPT !.pc = "save", !.flight = Replay(k.anchored, k.inAnch),
                               !.saved = Replay(k.anchored, k.inAnch), !.sent = k.inAnch,
                               !.merged = k.inAnch, !.inAnch = <<>>]
           q == IF ReplayThrows(k.anchored, k.inAnch)
                THEN Abandoned([k EXCEPT !.inAnch = <<>>]) ELSE saving
<1>1. SetClient(c, q) /\ UNCHANGED <<history, writes, faults, reopens>> /\ k.pc = "compact"
  BY DEF Compact, counters, At
<1>2. ClientInv(c, k, history)
  BY DEF IndInv
<1> HIDE DEF k
<1>3. ClientInv(c, saving, history) /\ ClientInv(c, Abandoned([k EXCEPT !.inAnch = <<>>]), history)
  BY <1>1, <1>2, CompactInv, AbandonedWithInv
<1>4. ClientInv(c, q, history')
  BY <1>1, <1>3
<1> HIDE DEF q
<1> QED
  BY <1>1, <1>4, StepOfClient DEF IndInv

\* Only pc changes, within a process under way.
LEMMA NextStepInv ==
    ASSUME NEW c, NEW k, NEW h, ClientInv(c, k, h), UnderWay(k),
           NEW pc \in {"getLast", "store", "stored"},
           pc = "stored" => \E i \in 1..Len(h) : i > k.from /\ h[i].by = c
    PROVE  ClientInv(c, [k EXCEPT !.pc = pc], h)
<1> DEFINE q == [k EXCEPT !.pc = pc]
<1>1. k \in Client /\ k.cur <= Len(h)
  BY DEF ClientInv, InOrder
<1>2. pc \in Steps
  BY DEF Steps
<1>3. /\ q \in Client /\ q.pc = pc /\ q.dirty = k.dirty /\ q.anchored = k.anchored
      /\ q.from = k.from /\ q.new = k.new /\ q.cur = k.cur
      /\ q.inAnch = k.inAnch /\ q.merged = k.merged /\ q.flight = k.flight
      /\ q.saved = k.saved /\ q.alias = k.alias /\ q.merges = k.merges /\ q.mine = k.mine
  BY <1>1, <1>2 DEF Client
<1> HIDE DEF q
<1>4. Moved(c, k, q, h)
  BY <1>1, <1>3 DEF Moved, UnderWay
<1> QED
  BY <1>4, MovedInv DEF q

LEMMA SaveBrickMapKeeps ==
    ASSUME IndInv, NEW c \in Clients, SaveBrickMap(c)
    PROVE  IndInv'
<1> DEFINE k == client[c]
<1>1. /\ k.pc = "save" /\ UNCHANGED <<history, writes, reopens>>
      /\ \/ SetClient(c, [k EXCEPT !.pc = "getLast"]) /\ faults' = faults
         \/ Fails("save") /\ SetClient(c, Failed(RolledBack(k)))
  BY DEF SaveBrickMap, At
<1>2. faults' \in 0..MaxFaults
  BY <1>1 DEF IndInv, Fails
<1>3. ClientInv(c, k, history)
  BY DEF IndInv
<1> HIDE DEF k
<1>4. UnderWay(k)
  BY <1>1 DEF UnderWay
<1>5. ClientInv(c, Failed(RolledBack(k)), history) /\ ClientInv(c, [k EXCEPT !.pc = "getLast"], history)
  BY <1>3, <1>4, FailedInv, NextStepInv
<1>6. PICK q : SetClient(c, q) /\ ClientInv(c, q, history')
  BY <1>1, <1>5
<1> QED
  BY <1>1, <1>2, <1>6, StepOfClient DEF IndInv

LEMMA GetLastVersionKeeps ==
    ASSUME IndInv, NEW c \in Clients, GetLastVersion(c)
    PROVE  IndInv'
<1> DEFINE k == client[c]
           Answer(last) ==
              IF (k.cur = 0) # (last = 0) THEN Abandoned(k)
              ELSE IF last # k.cur THEN [RolledBack(k) EXCEPT !.pc = "conflict"]
              ELSE [k EXCEPT !.pc = "store"]
<1>1. /\ k.pc = "getLast" /\ UNCHANGED <<history, writes, reopens>>
      /\ \/ SetClient(c, Answer(LastVersion)) /\ faults' = faults
         \/ Fails("getLast") /\ SetClient(c, Answer(0))
  BY DEF GetLastVersion, At
<1>2. faults' \in 0..MaxFaults
  BY <1>1 DEF IndInv, Fails
<1>3. ClientInv(c, k, history) /\ k.cur \in Nat /\ LastVersion \in Nat /\ 0 \in Nat
      /\ k.cur <= LastVersion
  BY ClientFields, LenProperties DEF IndInv, ClientInv, InOrder, LastVersion
<1>4. history = <<>> => LastVersion = 0
  BY EmptySeq DEF LastVersion
<1> HIDE DEF k
<1>5. UnderWay(k)
  BY <1>1 DEF UnderWay
<1>6. ASSUME NEW last \in Nat PROVE ClientInv(c, Answer(last), history)
  <2>1. CASE (k.cur = 0) # (last = 0)
    BY <1>3, <2>1, AbandonedWithInv
  <2>2. CASE (k.cur = 0) = (last = 0) /\ last # k.cur
    <3>1. k.cur # 0
      BY <2>2
    <3>2. history # <<>>
      BY <1>3, <1>4, <3>1
    <3> QED
      BY <1>3, <1>5, <2>2, <3>2, ConflictInv
  <2>3. CASE (k.cur = 0) = (last = 0) /\ last = k.cur
    <3>1. ClientInv(c, [k EXCEPT !.pc = "store"], history)
      BY <1>3, <1>5, NextStepInv
    <3> QED
      BY <2>3, <3>1
  <2> QED
    BY <2>1, <2>2, <2>3
<1> HIDE DEF Answer
<1>7. PICK last \in Nat : SetClient(c, Answer(last))
  BY <1>1, <1>3
<1>8. ClientInv(c, Answer(last), history')
  BY <1>1, <1>6
<1> QED
  BY <1>1, <1>2, <1>7, <1>8, StepOfClient DEF IndInv

LEMMA StoreAnchorKeeps ==
    ASSUME IndInv, NEW c \in Clients, StoreAnchor(c)
    PROVE  IndInv'
<1> DEFINE k == client[c]
           stored == [k EXCEPT !.pc = "stored"]
           back == Failed(RolledBack(k))
           again == [RolledBack(k) EXCEPT !.pc = "conflict"]
<1>1. ClientInv(c, k, history) /\ k \in Client /\ history \in Seq(Version)
      /\ k.from <= Len(history) /\ k.cur <= Len(history) /\ SoundClient(k)
  BY DEF IndInv, ClientInv, InOrder
<1>2. k.pc = "store" /\ writes' = writes /\ reopens' = reopens
  BY DEF StoreAnchor, At
<1>3. UnderWay(k)
  BY <1>2 DEF UnderWay
<1>4. NewVersion(c) \in Version /\ NewVersion(c).by = c /\ Sound(NewVersion(c).map)
  <2>1. /\ k.saved \in BrickMap /\ k.from \in Nat /\ k.sent \in Seq(Operation)
        /\ Sound(k.saved)
    BY <1>1, ClientFields DEF Operations, SoundClient
  <2> QED
    BY <2>1 DEF NewVersion, Version
<1>5. CASE /\ k.cur = LastVersion
           /\ history' = Append(history, NewVersion(c))
           /\ \/ SetClient(c, stored) /\ UNCHANGED faults
              \/ Fails("reply") /\ SetClient(c, back)
  <2> DEFINE g == Append(history, NewVersion(c))
  <2>1. ClientInv(c, k, g)
    BY <1>1, <1>4, HistoryGrows
  <2>2. \E i \in 1..Len(g) : i > k.from /\ g[i].by = c
    <3>1. /\ Len(g) = Len(history) + 1 /\ Len(history) \in Nat
          /\ g[Len(history) + 1] = NewVersion(c)
      BY <1>1, <1>4, AppendProperties, LenProperties
    <3>2. k.from \in Nat
      BY <1>1, ClientFields
    <3> HIDE DEF g
    <3>3. Len(history) + 1 \in 1..Len(g) /\ Len(history) + 1 > k.from
      BY <1>1, <3>1, <3>2
    <3> QED
      BY <1>4, <3>1, <3>3
  <2> HIDE DEF g, k
  <2>3. ClientInv(c, back, g) /\ ClientInv(c, stored, g)
    BY <1>3, <2>1, <2>2, FailedInv, NextStepInv
  <2> HIDE DEF back, stored
  <2>4. history' = g
    BY <1>5 DEF g
  <2>5. PICK q : SetClient(c, q) /\ ClientInv(c, q, history')
    BY <1>5, <2>3, <2>4
  <2>6. faults' \in 0..MaxFaults
    BY <1>5 DEF Fails, IndInv
  <2> QED
    BY <1>2, <1>4, <1>5, <2>5, <2>6, StepOfClient DEF IndInv
<1>6. CASE /\ k.cur # LastVersion
           /\ SetClient(c, IF k.cur = 0 THEN back ELSE again)
           /\ UNCHANGED <<history, faults>>
  <2>1. k.cur # 0 => history # <<>>
    <3>1. history = <<>> => Len(history) = 0
      BY EmptySeq
    <3>2. k.cur \in Nat
      BY <1>1, ClientFields
    <3> QED
      BY <1>1, <3>1, <3>2
  <2> HIDE DEF k
  <2>2. ClientInv(c, back, history) /\ (k.cur # 0 => ClientInv(c, again, history))
    BY <1>1, <1>3, <2>1, FailedInv, ConflictInv
  <2> HIDE DEF back, again
  <2>3. PICK q : SetClient(c, q) /\ ClientInv(c, q, history')
    BY <1>6, <2>2
  <2> QED
    BY <1>2, <1>6, <2>3, StepOfClient DEF IndInv
<1>7. CASE /\ Fails("store") /\ SetClient(c, back) /\ history' = history
  <2> HIDE DEF k
  <2>1. ClientInv(c, back, history')
    BY <1>1, <1>3, <1>7, FailedInv
  <2> HIDE DEF back
  <2>2. faults' \in 0..MaxFaults
    BY <1>7 DEF Fails, IndInv
  <2> QED
    BY <1>2, <1>7, <2>1, <2>2, StepOfClient DEF IndInv
<1> QED
  BY <1>5, <1>6, <1>7 DEF StoreAnchor

LEMMA AfterBrickMapAnchoringKeeps ==
    ASSUME IndInv, NEW c \in Clients, AfterBrickMapAnchoring(c)
    PROVE  IndInv'
<1> DEFINE k == client[c]
           IsLast(i) == history[i].by = c /\ \A j \in (i + 1)..LastVersion : history[j].by # c
           v == CHOOSE i \in 1..LastVersion : IsLast(i)
           e == Anchored(k, v)
           q == IF e.inAnch = <<>> THEN e ELSE AnchoringAsked(e)
<1>1. ClientInv(c, k, history) /\ history \in Seq(Version)
  BY DEF IndInv
<1>2. k.pc = "stored" /\ SetClient(c, q) /\ UNCHANGED <<history, writes, faults, reopens>>
  BY DEF AfterBrickMapAnchoring, At, Anchored, counters
<1>3. UnderWay(k) /\ InOrder(c, k, history)
  BY <1>1, <1>2 DEF UnderWay, ClientInv
<1>4. PICK n \in 1..Len(history) : history[n].by = c
  BY <1>2, <1>3 DEF InOrder
<1>5. \E i \in 1..LastVersion : IsLast(i)
  BY <1>1, <1>4, LastOfClient DEF LastVersion
<1>6. v \in 1..LastVersion
  <2> HIDE DEF IsLast
  <2> QED
    BY <1>5
<1>7. v \in Nat /\ v <= Len(history)
  BY <1>1, <1>6, LenProperties DEF LastVersion
<1> HIDE DEF v, k
<1>8. ClientInv(c, e, history)
  BY <1>1, <1>3, <1>7, AnchoredInv
<1> HIDE DEF e
<1>9. ClientInv(c, q, history')
  BY <1>2, <1>8, AnchoringAskedInv
<1> HIDE DEF q
<1> QED
  BY <1>2, <1>9, StepOfClient DEF IndInv

LEMMA HandleAnchoringConflictKeeps ==
    ASSUME IndInv, NEW c \in Clients, HandleAnchoringConflict(c)
    PROVE  IndInv'
<1> DEFINE k == client[c]
           p == Prepared(k)
           r == [p EXCEPT !.cur = LastVersion]
           theirs == history[LastVersion].map
<1>1. ClientInv(c, k, history) /\ history \in Seq(Version)
  BY DEF IndInv
<1>2. /\ k.pc = "conflict" /\ UNCHANGED <<history, writes, reopens>>
      /\ \/ SetClient(c, Reconciled(r, theirs)) /\ faults' = faults
         \/ Fails("load") /\ SetClient(c, Failed(k))
  BY DEF HandleAnchoringConflict, At
<1>3. faults' \in 0..MaxFaults
  BY <1>2 DEF IndInv, Fails
<1>4. history # <<>> /\ k \in Client
  BY <1>1, <1>2 DEF ClientInv, InOrder
<1>5. theirs \in BrickMap /\ Sound(theirs) /\ LastVersion \in Nat
  BY <1>4, VersionFields DEF IndInv, LastVersion
<1> HIDE DEF k, theirs
<1>6. ClientInv(c, p, history) /\ p \in Client /\ p.new = <<>> /\ p.pc = "conflict"
  BY <1>1, <1>2, <1>4, PreparedInv, PreparedFields
<1> HIDE DEF p
<1>7. /\ r \in Client /\ r.pc = "conflict" /\ r.new = <<>> /\ r.cur = LastVersion
      /\ r.dirty = p.dirty /\ r.anchored = p.anchored /\ r.from = p.from
      /\ r.inAnch = p.inAnch /\ r.merged = p.merged /\ r.flight = p.flight
      /\ r.saved = p.saved /\ r.alias = p.alias /\ r.merges = p.merges /\ r.mine = p.mine
  BY <1>5, <1>6 DEF Client
<1> HIDE DEF r
<1>8. ClientInv(c, r, history)
  <2>1. Moved(c, p, r, history)
    BY <1>5, <1>6, <1>7 DEF Moved, UnderWay, LastVersion
  <2> QED
    BY <1>6, <2>1, MovedInv
<1>9. ClientInv(c, Reconciled(r, theirs), history) /\ ClientInv(c, Failed(k), history)
  BY <1>1, <1>2, <1>5, <1>7, <1>8, ReconciledInv, FailedInConflictInv
<1>10. PICK q : SetClient(c, q) /\ ClientInv(c, q, history')
  BY <1>2, <1>9
<1> QED
  BY <1>2, <1>3, <1>10, StepOfClient DEF IndInv

LEMMA ReopenKeeps ==
    ASSUME IndInv, NEW c \in Clients, Reopen(c)
    PROVE  IndInv'
<1> DEFINE q == IF history = <<>> THEN Opened(0, EmptyMap)
                ELSE Opened(LastVersion, history[LastVersion].map)
<1>1. SetClient(c, q) /\ UNCHANGED <<history, writes, faults>> /\ reopens' \in 0..MaxReopens
  BY DEF Reopen, IndInv
<1>2. ClientInv(c, q, history)
  <2>1. CASE history = <<>>
    <3>1. 0 \in Nat /\ 0 <= Len(history)
      BY <2>1, EmptySeq
    <3>2. ClientInv(c, Opened(0, EmptyMap), history)
      BY <3>1, EmptyMapIs, OpenedInv
    <3> QED
      BY <2>1, <3>2
  <2>2. CASE history # <<>>
    <3> DEFINE map == history[LastVersion].map
    <3>1. map \in BrickMap /\ Sound(map) /\ LastVersion \in Nat /\ LastVersion <= Len(history)
      BY <2>2, VersionFields DEF IndInv, LastVersion
    <3> HIDE DEF map
    <3>2. ClientInv(c, Opened(LastVersion, map), history)
      BY <3>1, OpenedInv
    <3> QED
      BY <2>2, <3>2 DEF map
  <2> QED
    BY <2>1, <2>2
<1> HIDE DEF q
<1>3. ClientInv(c, q, history')
  BY <1>1, <1>2
<1> QED
  BY <1>1, <1>3, StepOfClient DEF IndInv

LEMMA NextInv == IndInv /\ [Next]_vars => IndInv'
<1> SUFFICES ASSUME IndInv, [Next]_vars PROVE IndInv'
  OBVIOUS
<1>1. CASE UNCHANGED vars
  BY <1>1 DEF vars, IndInv
<1>2. ASSUME NEW c \in Clients,
             \/ AddFile(c) \/ AppendToFile(c) \/ DeleteFile(c)
             \/ AnchorChanges(c) \/ Process(c) \/ Reopen(c)
      PROVE  IndInv'
  <2>1. CASE AddFile(c) \/ AppendToFile(c) \/ DeleteFile(c)
    BY <2>1, WriteKeeps
  <2>2. CASE AnchorChanges(c)
    BY <2>2, AnchorChangesKeeps
  <2>3. CASE Process(c)
    <3>1. CASE Compact(c)
      BY <3>1, CompactKeeps
    <3>2. CASE SaveBrickMap(c)
      BY <3>2, SaveBrickMapKeeps
    <3>3. CASE GetLastVersion(c)
      BY <3>3, GetLastVersionKeeps
    <3>4. CASE StoreAnchor(c)
      BY <3>4, StoreAnchorKeeps
    <3>5. CASE AfterBrickMapAnchoring(c)
      BY <3>5, AfterBrickMapAnchoringKeeps
    <3>6. CASE HandleAnchoringConflict(c)
      BY <3>6, HandleAnchoringConflictKeeps
    <3> QED
      BY <2>3, <3>1, <3>2, <3>3, <3>4, <3>5, <3>6 DEF Process
  <2>4. CASE Reopen(c)
    BY <2>4, ReopenKeeps
  <2> QED
    BY <1>2, <2>1, <2>2, <2>3, <2>4
<1> QED
  BY <1>1, <1>2 DEF Next

\* A client reads its own writes, whatever happens to their anchoring: while it is under
\* way, after it failed, was refused or was abandoned, and after it was merged, unless a
\* merge was lost.
THEOREM OwnWritesAreRead == Spec => []ReadYourWrites
<1>1. Spec => []IndInv
  BY InitInv, NextInv, PTL DEF Spec
<1> QED
  BY <1>1, IndInvImplies, PTL

-----------------------------------------------------------------------------
(* What is anchored and what a client holds *)

MapAt(h, v) == IF v = 0 THEN EmptyMap ELSE h[v].map

MapBricks(map) == UNION {ToSet(map[f].bricks) : f \in Files}
AnchoredBricks(h) == UNION {MapBricks(h[i].map) : i \in 1..Len(h)}

\* All the bricks a client may still anchor.
Holds(k) ==
    MapBricks(k.dirty) \cup MapBricks(k.anchored) \cup MapBricks(k.flight)
        \cup MapBricks(k.saved) \cup Bricks(k.new) \cup Bricks(k.inAnch)
        \cup Bricks(k.merged) \cup Bricks(k.sent)

\* Bricks of brick maps that are replayed, merged and empty.
LEMMA BricksOfMaps ==
    /\ MapBricks(EmptyMap) = {} /\ Bricks(<<>>) = {}
    /\ \A map \in BrickMap, ops \in Operations :
          MapBricks(Replay(map, ops)) \subseteq MapBricks(map) \cup Bricks(ops)
    /\ \A theirs \in BrickMap, ours \in BrickMap :
          MapBricks(Merge(theirs, ours)) \subseteq MapBricks(theirs) \cup MapBricks(ours)
<1>1. Bricks(<<>>) = {}
  BY DEF Bricks
<1>2. MapBricks(EmptyMap) = {}
  <2>1. \A f \in Files : EmptyMap[f].bricks = <<>>
    BY DEF EmptyMap, AbsentNode
  <2>2. ToSet(<<>>) = {}
    BY DEF ToSet
  <2> QED
    BY <2>1, <2>2 DEF MapBricks
<1>3. ASSUME NEW map \in BrickMap, NEW ops \in Operations
      PROVE  MapBricks(Replay(map, ops)) \subseteq MapBricks(map) \cup Bricks(ops)
  <2>1. \A f \in Files :
           ToSet(Replay(map, ops)[f].bricks) \subseteq Bricks(ops) \cup ToSet(map[f].bricks)
    BY ReplayBricks
  <2> DEFINE now == Replay(map, ops)
  <2> HIDE DEF now
  <2>2. \A f \in Files : ToSet(now[f].bricks) \subseteq Bricks(ops) \cup ToSet(map[f].bricks)
    BY <2>1 DEF now
  <2>3. MapBricks(now) \subseteq MapBricks(map) \cup Bricks(ops)
    BY <2>2 DEF MapBricks
  <2> QED
    BY <2>3 DEF now
<1>4. ASSUME NEW theirs \in BrickMap, NEW ours \in BrickMap
      PROVE  MapBricks(Merge(theirs, ours)) \subseteq MapBricks(theirs) \cup MapBricks(ours)
  <2> DEFINE now == Merge(theirs, ours)
  <2>1. \A f \in Files : now[f].bricks \in {theirs[f].bricks, ours[f].bricks}
    BY DEF Merge
  <2> HIDE DEF now
  <2>2. MapBricks(now) \subseteq MapBricks(theirs) \cup MapBricks(ours)
    BY <2>1 DEF MapBricks
  <2> QED
    BY <2>2 DEF now
<1> QED
  BY <1>1, <1>2, <1>3, <1>4

LEMMA GrownHistory ==
    ASSUME NEW h \in Seq(Version), NEW v \in Version
    PROVE  LET g == Append(h, v) IN
           /\ g \in Seq(Version) /\ Len(g) = Len(h) + 1 /\ Len(h) \in Nat
           /\ g[Len(h) + 1] = v /\ \A i \in 1..Len(h) : g[i] = h[i]
           /\ \A i \in 1..Len(g) : i \in 1..Len(h) \/ i = Len(h) + 1
           /\ AnchoredBricks(g) = AnchoredBricks(h) \cup MapBricks(v.map)
           /\ \A i \in Nat : i <= Len(h) => MapAt(g, i) = MapAt(h, i)
<1> DEFINE g == Append(h, v)
<1>1. /\ g \in Seq(Version) /\ Len(g) = Len(h) + 1 /\ Len(h) \in Nat
      /\ g[Len(h) + 1] = v /\ \A i \in 1..Len(h) : g[i] = h[i]
  BY AppendProperties, LenProperties
<1> HIDE DEF g
<1>2. \A i \in 1..Len(g) : i \in 1..Len(h) \/ i = Len(h) + 1
  BY <1>1
<1>3. Len(h) + 1 \in 1..Len(g) /\ \A i \in 1..Len(h) : i \in 1..Len(g)
  BY <1>1
<1>4. AnchoredBricks(g) = AnchoredBricks(h) \cup MapBricks(v.map)
  <2>1. ASSUME NEW b \in AnchoredBricks(g) PROVE b \in AnchoredBricks(h) \cup MapBricks(v.map)
    <3>1. PICK i \in 1..Len(g) : b \in MapBricks(g[i].map)
      BY DEF AnchoredBricks
    <3> QED
      BY <1>1, <1>2, <3>1 DEF AnchoredBricks
  <2>2. ASSUME NEW b \in AnchoredBricks(h) PROVE b \in AnchoredBricks(g)
    <3>1. PICK i \in 1..Len(h) : b \in MapBricks(h[i].map)
      BY DEF AnchoredBricks
    <3> QED
      BY <1>1, <1>3, <3>1 DEF AnchoredBricks
  <2>3. ASSUME NEW b \in MapBricks(v.map) PROVE b \in AnchoredBricks(g)
    BY <1>1, <1>3 DEF AnchoredBricks
  <2> QED
    BY <2>1, <2>2, <2>3
<1>5. \A i \in Nat : i <= Len(h) => MapAt(g, i) = MapAt(h, i)
  <2> SUFFICES ASSUME NEW i \in Nat, i <= Len(h) PROVE MapAt(g, i) = MapAt(h, i)
    OBVIOUS
  <2>1. i # 0 => i \in 1..Len(h)
    BY <1>1
  <2> QED
    BY <1>1, <2>1 DEF MapAt
<1> QED
  BY <1>1, <1>2, <1>4, <1>5 DEF g

\* A controller that drops bricks, or puts them elsewhere, holds no others.
LEMMA DropsHolds ==
    ASSUME NEW k \in Client
    PROVE  /\ Holds(Failed(k)) \subseteq Holds(k)
           /\ Holds(Failed(RolledBack(k))) \subseteq Holds(k)
           /\ Holds([RolledBack(k) EXCEPT !.pc = "conflict"]) \subseteq Holds(k)
           /\ Holds(Abandoned(k)) \subseteq Holds(k)
           /\ Holds(Abandoned([k EXCEPT !.inAnch = <<>>])) \subseteq Holds(k)
<1>1. ASSUME NEW q \in Client
      PROVE  Holds(Failed(q)) \subseteq Holds(q) /\ Holds(Abandoned(q)) \subseteq Holds(q)
  <2> DEFINE e == Failed(q)
             a == [e EXCEPT !.pc = "abandoned", !.merged = <<>>]
  <2>1. EndChanges(e, q)
    BY FailedFields
  <2>2. Abandoned(q) = a
    BY DEF Abandoned
  <2> HIDE DEF e
  <2>3. /\ a.merged = <<>> /\ a.flight = e.flight /\ a.saved = e.saved /\ a.dirty = e.dirty
        /\ a.anchored = e.anchored /\ a.new = e.new /\ a.inAnch = e.inAnch /\ a.sent = e.sent
    BY <2>1 DEF EndChanges, Client
  <2> HIDE DEF a
  <2>4. Holds(e) \subseteq Holds(q) /\ Holds(a) \subseteq Holds(q)
    BY <2>1, <2>3, BricksOfMaps DEF EndChanges, Holds
  <2> QED
    BY <2>2, <2>4 DEF e
<1> DEFINE r == RolledBack(k)
           again == [r EXCEPT !.pc = "conflict"]
           q == [k EXCEPT !.inAnch = <<>>]
<1>2. /\ r \in Client /\ r.inAnch = k.merged \o k.inAnch /\ r.merged = <<>>
      /\ r.dirty = k.dirty /\ r.anchored = k.anchored
      /\ r.new = k.new /\ r.flight = k.flight /\ r.saved = k.saved /\ r.sent = k.sent
  BY RolledBackFields
<1> HIDE DEF r
<1>3. Bricks(r.inAnch) = Bricks(k.merged) \cup Bricks(k.inAnch) /\ Bricks(r.merged) = {}
  BY <1>2, ClientFields, PartsOfConcat, BricksOfMaps
<1>4. Holds(r) \subseteq Holds(k)
  BY <1>2, <1>3 DEF Holds
<1>5. Holds(again) = Holds(r)
  BY <1>2 DEF Holds, Client
<1>6. /\ q \in Client /\ q.inAnch = <<>> /\ q.dirty = k.dirty /\ q.anchored = k.anchored
      /\ q.new = k.new /\ q.merged = k.merged
      /\ q.flight = k.flight /\ q.saved = k.saved /\ q.sent = k.sent
  BY EmptyDiff DEF Client, Operations
<1> HIDE DEF q
<1>7. Holds(q) \subseteq Holds(k)
  BY <1>6, BricksOfMaps DEF Holds
<1>8. Holds(Failed(r)) \subseteq Holds(r) /\ Holds(Abandoned(q)) \subseteq Holds(q)
  BY <1>1, <1>2, <1>6
<1>9. Holds(Failed(k)) \subseteq Holds(k) /\ Holds(Abandoned(k)) \subseteq Holds(k)
  BY <1>1
<1> QED
  BY <1>4, <1>5, <1>7, <1>8, <1>9 DEF r, q

LEMMA PreparedHolds ==
    ASSUME NEW k \in Client
    PROVE  /\ Holds(Prepared(k)) = Holds(k) /\ Prepared(k).sent = k.sent
           /\ Prepared(k).anchored = k.anchored /\ Prepared(k).from = k.from
           /\ Prepared(k).dirty = k.dirty /\ Prepared(k).flight = k.flight
           /\ Prepared(k).saved = k.saved /\ Prepared(k).merged = k.merged
           /\ Prepared(k).cur = k.cur
<1> DEFINE p == Prepared(k)
<1>1. p \in Client /\ p = [k EXCEPT !.inAnch = Pending(k), !.new = <<>>]
      /\ p.inAnch = Pending(k) /\ p.new = <<>>
  BY PreparedFields
<1> HIDE DEF p
<1>2. /\ p.dirty = k.dirty /\ p.anchored = k.anchored /\ p.from = k.from /\ p.cur = k.cur
      /\ p.merged = k.merged /\ p.flight = k.flight /\ p.saved = k.saved /\ p.sent = k.sent
  BY <1>1 DEF Client
<1>3. Bricks(Pending(k)) = Bricks(k.inAnch) \cup Bricks(k.new) /\ Bricks(<<>>) = {}
  BY ClientFields, PartsOfConcat, BricksOfMaps DEF Pending
<1>4. Holds(p) = Holds(k)
  BY <1>1, <1>2, <1>3 DEF Holds
<1> QED
  BY <1>2, <1>4 DEF p

LEMMA AskedHolds ==
    ASSUME NEW k \in Client
    PROVE  Holds(AnchoringAsked(k)) = Holds(k)
<1>1. CASE k.pc # "idle"
  <2> DEFINE q == [k EXCEPT !.asked = TRUE]
  <2>1. AnchoringAsked(k) = q
    BY <1>1 DEF AnchoringAsked
  <2>2. Holds(q) = Holds(k)
    BY DEF Holds, Client
  <2> QED
    BY <2>1, <2>2
<1>2. CASE k.pc = "idle" /\ ~HasPending(k)
  BY <1>2 DEF AnchoringAsked
<1>3. CASE k.pc = "idle" /\ HasPending(k)
  <2> DEFINE p == Prepared(k)
             q == [p EXCEPT !.pc = "compact", !.asked = FALSE]
  <2>1. AnchoringAsked(k) = q
    BY <1>3 DEF AnchoringAsked
  <2>2. p \in Client /\ Holds(p) = Holds(k)
    BY PreparedFields, PreparedHolds
  <2> HIDE DEF p
  <2>3. Holds(q) = Holds(p)
    BY <2>2 DEF Holds, Client
  <2> QED
    BY <2>1, <2>2, <2>3
<1> QED
  BY <1>1, <1>2, <1>3

LEMMA WrittenHolds ==
    ASSUME NEW c, NEW k, NEW h, ClientInv(c, k, h),
           NEW ops, NEW f \in Files, NEW brick \in 0..MaxWrites, IsWrite(ops, f, brick)
    PROVE  Holds(Written(k, ops, f, brick)) \subseteq Holds(k) \cup {0, brick}
<1> DEFINE w == Written(k, ops, f, brick)
<1>1. k \in Client /\ InOrder(c, k, h) /\ ops \in Operations /\ Bricks(ops) \subseteq {0, brick}
  BY DEF ClientInv, IsWrite
<1>2. /\ k.dirty \in BrickMap /\ k.anchored \in BrickMap /\ k.flight \in BrickMap
      /\ k.new \in Operations
  BY <1>1, ClientFields
<1>3. WriteChanges(w, k, ops, f, brick)
  BY <1>1, WrittenFields
<1> HIDE DEF w
<1>4. /\ w.dirty = Replay(k.dirty, ops)
      /\ w.flight = k.flight \/ w.flight = Replay(k.flight, ops)
      /\ w.anchored = k.anchored \/ w.anchored = Replay(k.anchored, ops)
      /\ w.new = k.new \o ops /\ w.inAnch = k.inAnch /\ w.merged = k.merged
      /\ w.saved = k.saved /\ w.sent = k.sent
  BY <1>1, <1>3 DEF WriteChanges, InOrder
<1>5. /\ MapBricks(w.dirty) \subseteq MapBricks(k.dirty) \cup {0, brick}
      /\ MapBricks(w.flight) \subseteq MapBricks(k.flight) \cup {0, brick}
      /\ MapBricks(w.anchored) \subseteq MapBricks(k.anchored) \cup {0, brick}
  BY <1>1, <1>2, <1>4, BricksOfMaps
<1>6. Bricks(w.new) \subseteq Bricks(k.new) \cup {0, brick}
  BY <1>1, <1>2, <1>4, PartsOfConcat
<1>7. Holds(w) \subseteq Holds(k) \cup {0, brick}
  BY <1>4, <1>5, <1>6 DEF Holds
<1> QED
  BY <1>7 DEF w

\* What compactDiffs makes of a controller when no replay throws.
Compacted(k) ==
    [k EXCEPT !.pc = "save", !.flight = Replay(k.anchored, k.inAnch),
              !.saved = Replay(k.anchored, k.inAnch), !.sent = k.inAnch,
              !.merged = k.inAnch, !.inAnch = <<>>]

LEMMA CompactedFields ==
    ASSUME NEW k \in Client
    PROVE  LET q == Compacted(k)
               map == Replay(k.anchored, k.inAnch)
           IN  /\ q.pc = "save" /\ q.flight = map /\ q.saved = map /\ q.merged = k.inAnch
               /\ q.inAnch = <<>> /\ q.sent = k.inAnch /\ q.dirty = k.dirty
               /\ q.anchored = k.anchored /\ q.from = k.from /\ q.cur = k.cur /\ q.new = k.new
               /\ q.alias = k.alias /\ q.merges = k.merges /\ q.mine = k.mine
               /\ Holds(q) \subseteq Holds(k)
<1> DEFINE map == Replay(k.anchored, k.inAnch)
           q == Compacted(k)
<1>1. MapBricks(map) \subseteq MapBricks(k.anchored) \cup Bricks(k.inAnch)
  BY ClientFields, BricksOfMaps
<1>2. q = [k EXCEPT !.pc = "save", !.flight = map, !.saved = map, !.sent = k.inAnch,
                    !.merged = k.inAnch, !.inAnch = <<>>]
  BY DEF Compacted
<1> HIDE DEF map
<1>3. /\ q.pc = "save" /\ q.flight = map /\ q.saved = map /\ q.merged = k.inAnch
      /\ q.inAnch = <<>> /\ q.sent = k.inAnch /\ q.dirty = k.dirty
      /\ q.anchored = k.anchored /\ q.from = k.from /\ q.cur = k.cur /\ q.new = k.new
      /\ q.alias = k.alias /\ q.merges = k.merges /\ q.mine = k.mine
  BY <1>2 DEF Client
<1> HIDE DEF q
<1>4. Holds(q) \subseteq Holds(k)
  BY <1>1, <1>3, BricksOfMaps DEF Holds
<1> QED
  BY <1>3, <1>4 DEF q, map

LEMMA MergedIntoFields ==
    ASSUME NEW k \in Client, k.new = <<>>, NEW theirs \in BrickMap, NEW result,
           result = IF k.inAnch = <<>> THEN theirs
                    ELSE Merge(theirs, Replay(k.anchored, k.inAnch))
    PROVE  LET q == MergedInto(k, result) IN
           /\ q.pc = "save" /\ q.inAnch = <<>> /\ q.merged = <<>> /\ q.new = <<>>
           /\ q.dirty = result /\ q.flight = result /\ q.saved = result /\ q.alias = "flight"
           /\ q.merges \in {"open", "lost"}
           /\ q.anchored = k.anchored /\ q.from = k.from /\ q.cur = k.cur /\ q.sent = k.inAnch
           /\ q.mine = k.mine
           /\ Holds(q) \subseteq Holds(k) \cup MapBricks(theirs)
<1> DEFINE q == MergedInto(k, result)
           ours == Replay(k.anchored, k.inAnch)
<1>1. k.inAnch \in Operations /\ k.anchored \in BrickMap /\ ours \in BrickMap
  BY ClientFields, ReplayType
<1>2. MapBricks(result) \subseteq Holds(k) \cup MapBricks(theirs)
  <2>1. MapBricks(ours) \subseteq Holds(k)
    BY <1>1, BricksOfMaps DEF Holds
  <2>2. CASE k.inAnch # <<>>
    <3>1. result = Merge(theirs, ours)
      BY <2>2
    <3> HIDE DEF ours
    <3>2. MapBricks(Merge(theirs, ours)) \subseteq MapBricks(theirs) \cup MapBricks(ours)
      BY <1>1, BricksOfMaps
    <3> QED
      BY <2>1, <3>1, <3>2
  <2> QED
    BY <2>2
<1>3. /\ q.pc = "save" /\ q.inAnch = <<>> /\ q.merged = <<>> /\ q.new = <<>>
      /\ q.dirty = result /\ q.flight = result /\ q.saved = result /\ q.alias = "flight"
      /\ q.merges = IF k.merges \in {"none", "closed"} THEN "open" ELSE "lost"
      /\ q.anchored = k.anchored /\ q.from = k.from /\ q.cur = k.cur /\ q.sent = k.inAnch
      /\ q.mine = k.mine
  BY DEF MergedInto, Client
<1> HIDE DEF q
<1>4. Holds(q) \subseteq Holds(k) \cup MapBricks(theirs)
  BY <1>2, <1>3, BricksOfMaps DEF Holds
<1> QED
  BY <1>3, <1>4 DEF q

LEMMA AnchoredHolds ==
    ASSUME NEW k \in Client, NEW v \in Nat
    PROVE  Holds(Anchored(k, v)) \subseteq Holds(k)
<1> DEFINE e == Anchored(k, v)
<1>1. /\ e.flight = EmptyMap /\ e.saved = EmptyMap /\ e.sent = <<>>
      /\ e.dirty = k.dirty /\ e.anchored = k.flight
      /\ e.new = k.new /\ e.inAnch = k.inAnch /\ e.merged = <<>>
  BY AnchoredFields
<1> HIDE DEF e
<1>2. Holds(e) \subseteq Holds(k)
  BY <1>1, BricksOfMaps DEF Holds
<1> QED
  BY <1>2 DEF e

LEMMA OpenedFields ==
    ASSUME NEW v, NEW map
    PROVE  LET k == Opened(v, map) IN
           /\ k.pc = "idle" /\ k.dirty = map /\ k.anchored = map /\ k.from = v /\ k.cur = v
           /\ k.new = <<>> /\ k.inAnch = <<>> /\ k.merged = <<>> /\ k.sent = <<>>
           /\ k.flight = EmptyMap /\ k.saved = EmptyMap /\ k.alias = "none"
           /\ k.merges = "none" /\ \A f \in Files : k.mine[f] = 0
           /\ Holds(k) = MapBricks(map)
<1> DEFINE k == Opened(v, map)
<1>1. /\ k.pc = "idle" /\ k.dirty = map /\ k.anchored = map /\ k.from = v /\ k.cur = v
      /\ k.new = <<>> /\ k.inAnch = <<>> /\ k.merged = <<>> /\ k.sent = <<>>
      /\ k.flight = EmptyMap /\ k.saved = EmptyMap /\ k.alias = "none"
      /\ k.merges = "none" /\ \A f \in Files : k.mine[f] = 0
  BY DEF Opened
<1> HIDE DEF k
<1>2. Holds(k) = MapBricks(map)
  BY <1>1, BricksOfMaps DEF Holds
<1> QED
  BY <1>1, <1>2 DEF k

-----------------------------------------------------------------------------
(* What a client owes: its pending diffs can be replayed as long as it never had to *)
(* merge, and its writes are in diffs that are pending or taken, in the brick map    *)
(* under way to the hub, or in the version it has anchored                           *)

Unbroken(k) ==
    k.merges = "none" /\ k.pc # "abandoned" =>
        ~ReplayThrows(k.anchored, k.merged \o Pending(k))

Somewhere(k, h) ==
    k.merges # "lost" /\ k.pc # "abandoned" =>
        \A f \in Files : k.mine[f] # 0 =>
            /\ k.alias # "flight" =>
                  k.mine[f] \in Bricks(k.merged \o Pending(k))
                                   \cup ToSet(MapAt(h, k.from)[f].bricks)
            /\ UnderWay(k) \/ k.alias = "flight" =>
                  k.mine[f] \in Bricks(Pending(k)) \cup ToSet(k.saved[f].bricks)

\* The version that was put, and answered, holds what was serialised.
Put(c, k, h) ==
    k.pc = "stored" =>
        \E v \in 1..Len(h) : /\ h[v].by = c /\ h[v].map = k.saved
                             /\ \A j \in (v + 1)..Len(h) : h[j].by # c

Owes(c, k, h) == Unbroken(k) /\ Somewhere(k, h) /\ Put(c, k, h)

\* Nothing that counts changes.
LEMMA SameOwes ==
    ASSUME NEW c, NEW k, NEW q, NEW h, Owes(c, k, h), Put(c, q, h),
           q.anchored = k.anchored, q.from = k.from, q.merged = k.merged,
           Pending(q) = Pending(k), q.saved = k.saved, q.alias = k.alias,
           q.merges = k.merges, q.mine = k.mine,
           UnderWay(q) => UnderWay(k), q.pc = "abandoned" <=> k.pc = "abandoned"
    PROVE  Owes(c, q, h)
<1>1. Unbroken(q)
  BY DEF Owes, Unbroken
<1>2. Somewhere(q, h)
  BY DEF Owes, Somewhere
<1> QED
  BY <1>1, <1>2 DEF Owes

LEMMA PreparedPending ==
    ASSUME NEW k \in Client
    PROVE  /\ Pending(Prepared(k)) = Pending(k)
           /\ Prepared(k).alias = k.alias /\ Prepared(k).merges = k.merges
           /\ Prepared(k).mine = k.mine
<1> DEFINE p == Prepared(k)
<1>1. /\ p = [k EXCEPT !.inAnch = Pending(k), !.new = <<>>]
      /\ p.inAnch = Pending(k) /\ p.new = <<>>
  BY PreparedFields
<1> HIDE DEF p
<1>2. p.alias = k.alias /\ p.merges = k.merges /\ p.mine = k.mine
  BY <1>1 DEF Client
<1>3. Pending(k) \o <<>> = Pending(k)
  BY ClientFields, ConcatEmptySeq DEF Operations
<1>4. Pending(p) = Pending(k)
  BY <1>1, <1>3 DEF Pending
<1> QED
  BY <1>2, <1>4 DEF p

LEMMA AskedOwes ==
    ASSUME NEW c, NEW k \in Client, NEW h, Owes(c, k, h)
    PROVE  Owes(c, AnchoringAsked(k), h)
<1>1. CASE k.pc # "idle"
  <2> DEFINE q == [k EXCEPT !.asked = TRUE]
  <2>1. AnchoringAsked(k) = q
    BY <1>1 DEF AnchoringAsked
  <2>2. /\ q.pc = k.pc /\ q.anchored = k.anchored /\ q.from = k.from /\ q.new = k.new
        /\ q.inAnch = k.inAnch /\ q.merged = k.merged /\ q.saved = k.saved
        /\ q.alias = k.alias /\ q.merges = k.merges /\ q.mine = k.mine
    BY DEF Client
  <2> HIDE DEF q
  <2>3. Pending(q) = Pending(k) /\ UnderWay(q) = UnderWay(k) /\ Put(c, q, h)
    BY <2>2 DEF Pending, UnderWay, Owes, Put
  <2>4. Owes(c, q, h)
    BY <2>2, <2>3, SameOwes
  <2> QED
    BY <2>1, <2>4
<1>2. CASE k.pc = "idle" /\ ~HasPending(k)
  BY <1>2 DEF AnchoringAsked
<1>3. CASE k.pc = "idle" /\ HasPending(k)
  <2> DEFINE p == Prepared(k)
             q == [p EXCEPT !.pc = "compact", !.asked = FALSE]
  <2>1. AnchoringAsked(k) = q
    BY <1>3 DEF AnchoringAsked
  <2>2. /\ p \in Client /\ p.anchored = k.anchored /\ p.from = k.from
        /\ p.merged = k.merged /\ p.saved = k.saved /\ Pending(p) = Pending(k)
        /\ p.alias = k.alias /\ p.merges = k.merges /\ p.mine = k.mine
    BY PreparedFields, PreparedHolds, PreparedPending
  <2> HIDE DEF p
  <2>3. /\ q.pc = "compact" /\ q.anchored = p.anchored /\ q.from = p.from
        /\ q.new = p.new /\ q.inAnch = p.inAnch /\ q.merged = p.merged /\ q.saved = p.saved
        /\ q.alias = p.alias /\ q.merges = p.merges /\ q.mine = p.mine
    BY <2>2 DEF Client
  <2> HIDE DEF q
  <2>4. Pending(q) = Pending(k) /\ ~UnderWay(q) /\ Put(c, q, h)
    BY <2>2, <2>3 DEF Pending, UnderWay, Put
  <2>5. Owes(c, q, h)
    BY <1>3, <2>2, <2>3, <2>4, SameOwes
  <2> QED
    BY <2>1, <2>5
<1> QED
  BY <1>1, <1>2, <1>3

LEMMA WriteHasBrick ==
    ASSUME NEW ops, NEW f \in Files, NEW brick, IsWrite(ops, f, brick), brick # 0
    PROVE  brick \in Bricks(ops)
<1>1. EmptyMap \in BrickMap /\ ops \in Operations
  BY EmptyMapIs DEF IsWrite
<1>2. brick \in ToSet(Replay(EmptyMap, ops)[f].bricks)
  BY <1>1 DEF IsWrite
<1>3. ToSet(EmptyMap[f].bricks) = {}
  BY DEF EmptyMap, AbsentNode, ToSet
<1> QED
  BY <1>1, <1>2, <1>3, ReplayBricks

LEMMA WrittenOwes ==
    ASSUME NEW c, NEW k, NEW h, ClientInv(c, k, h), Owes(c, k, h),
           NEW ops, NEW f \in Files, NEW brick \in 0..MaxWrites, IsWrite(ops, f, brick),
           brick # 0 => brick \in Bricks(ops), ~ReplayThrows(k.dirty, ops)
    PROVE  Owes(c, Written(k, ops, f, brick), h)
<1> DEFINE w == Written(k, ops, f, brick)
           earlier == k.merged \o Pending(k)
<1>1. k \in Client /\ InOrder(c, k, h) /\ Explained(k) /\ ops \in Operations
  BY DEF ClientInv, IsWrite
<1>2. /\ k.anchored \in BrickMap /\ k.new \in Operations /\ k.inAnch \in Operations
      /\ k.merged \in Operations /\ Pending(k) \in Operations /\ earlier \in Operations
      /\ k.mine \in [Files -> 0..MaxWrites]
  BY <1>1, ClientFields
<1>3. WriteChanges(w, k, ops, f, brick)
  BY <1>1, WrittenFields
<1> HIDE DEF w
<1>4. /\ w.new = k.new \o ops /\ w.pc = k.pc /\ w.from = k.from /\ w.inAnch = k.inAnch
      /\ w.merged = k.merged /\ w.saved = k.saved /\ w.alias = k.alias
      /\ w.merges = k.merges /\ w.mine = [k.mine EXCEPT ![f] = brick]
      /\ k.alias # "anchored" => w.anchored = k.anchored
  BY <1>3 DEF WriteChanges
<1>5. Pending(w) = Pending(k) \o ops
  <2>1. /\ k.inAnch \in Operations /\ k.new \in Operations /\ ops \in Operations
    BY <1>1, <1>2
  <2>2. (k.inAnch \o k.new) \o ops = k.inAnch \o (k.new \o ops)
    BY <2>1, DiffConcat, Zenon
  <2> QED
    BY <1>4, <2>2 DEF Pending
<1>6. w.merged \o Pending(w) = earlier \o ops
  <2>1. k.merged \o (Pending(k) \o ops) = (k.merged \o Pending(k)) \o ops
    BY <1>1, <1>2, DiffConcat, Zenon
  <2> QED
    BY <1>4, <1>5, <2>1
<1>7. UnderWay(w) <=> UnderWay(k)
  BY <1>4 DEF UnderWay
<1>8. Unbroken(w)
  <2>1. SUFFICES ASSUME k.merges = "none", k.pc # "abandoned"
                 PROVE  ~ReplayThrows(k.anchored, earlier \o ops)
    BY <1>1, <1>4, <1>6 DEF Unbroken, InOrder
  <2>2. ~ReplayThrows(k.anchored, earlier) /\ k.dirty = Replay(k.anchored, earlier)
    BY <1>1, <2>1 DEF Owes, Unbroken, Explained
  <2> HIDE DEF earlier
  <2> QED
    BY <1>1, <1>2, <2>2, ThrowsConcat
<1>9. /\ Bricks(Pending(w)) = Bricks(Pending(k)) \cup Bricks(ops)
      /\ Bricks(w.merged \o Pending(w)) = Bricks(earlier) \cup Bricks(ops)
  BY <1>1, <1>2, <1>5, <1>6, PartsOfConcat
<1>10. Somewhere(w, h)
  <2> SUFFICES ASSUME w.merges # "lost", w.pc # "abandoned", NEW g \in Files, w.mine[g] # 0
               PROVE  /\ w.alias # "flight" =>
                            w.mine[g] \in Bricks(w.merged \o Pending(w))
                                             \cup ToSet(MapAt(h, w.from)[g].bricks)
                      /\ UnderWay(w) \/ w.alias = "flight" =>
                            w.mine[g] \in Bricks(Pending(w)) \cup ToSet(w.saved[g].bricks)
    BY DEF Somewhere
  <2>1. CASE g = f
    <3>1. w.mine[g] = brick
      BY <1>2, <1>4, <2>1
    <3> QED
      BY <1>9, <3>1
  <2>2. CASE g # f
    <3>1. w.mine[g] = k.mine[g]
      BY <1>2, <1>4, <2>2
    <3> QED
      BY <1>4, <1>7, <1>9, <3>1 DEF Owes, Somewhere
  <2> QED
    BY <2>1, <2>2
<1>11. Put(c, w, h)
  BY <1>4 DEF Owes, Put
<1> QED
  BY <1>8, <1>10, <1>11 DEF Owes, w

LEMMA CompactedOwes ==
    ASSUME NEW c, NEW k, NEW h, ClientInv(c, k, h), Owes(c, k, h), k.pc = "compact"
    PROVE  Owes(c, Compacted(k), h)
<1> DEFINE map == Replay(k.anchored, k.inAnch)
           q == Compacted(k)
<1>1. k \in Client /\ InOrder(c, k, h) /\ Kept(k)
  BY DEF ClientInv
<1>2. /\ k.new \in Operations /\ k.inAnch \in Operations /\ k.anchored \in BrickMap
      /\ map \in BrickMap
  BY <1>1, ClientFields, ReplayType
<1>3. /\ q.pc = "save" /\ q.saved = map /\ q.merged = k.inAnch
      /\ q.inAnch = <<>> /\ q.anchored = k.anchored /\ q.from = k.from /\ q.new = k.new
      /\ q.alias = k.alias /\ q.merges = k.merges /\ q.mine = k.mine
  BY <1>1, CompactedFields
<1>4. k.merged = <<>> /\ k.alias # "flight"
  BY <1>1 DEF InOrder, UnderWay
<1>5. map = Replay(k.anchored, k.inAnch)
  OBVIOUS
<1> HIDE DEF q, map
<1>6. Pending(q) = k.new /\ q.merged \o Pending(q) = k.merged \o Pending(k)
      /\ k.merged \o Pending(k) = k.inAnch \o k.new
  BY <1>2, <1>3, <1>4, Regrouped DEF Pending
<1>7. Unbroken(q)
  BY <1>3, <1>6 DEF Owes, Unbroken
<1>8. \A f \in Files : ToSet(Replay(k.anchored, k.merged \o Pending(k))[f].bricks)
                          \subseteq Bricks(k.new) \cup ToSet(map[f].bricks)
  <2>1. Replay(k.anchored, k.merged \o Pending(k)) = Replay(map, k.new)
    BY <1>2, <1>5, <1>6, ReplayConcat
  <2> QED
    BY <1>2, <2>1, ReplayBricks
<1>9. Somewhere(q, h)
  <2> SUFFICES ASSUME k.merges # "lost", NEW f \in Files, k.mine[f] # 0
               PROVE  /\ k.mine[f] \in Bricks(k.merged \o Pending(k))
                                          \cup ToSet(MapAt(h, k.from)[f].bricks)
                      /\ k.mine[f] \in Bricks(k.new) \cup ToSet(map[f].bricks)
    BY <1>3, <1>6 DEF Somewhere
  <2>1. k.mine[f] \in ToSet(Replay(k.anchored, k.merged \o Pending(k))[f].bricks)
    BY <1>1, <1>4 DEF Kept
  <2> QED
    BY <1>4, <1>8, <2>1 DEF Owes, Somewhere
<1>10. Put(c, q, h)
  BY <1>3 DEF Put
<1> QED
  BY <1>7, <1>9, <1>10 DEF Owes, q

\* A process that ends with an error owes what it owed: it was not merging, or the merge
\* is lost.
LEMMA EndedOwes ==
    ASSUME NEW c, NEW k, NEW h, ClientInv(c, k, h), Owes(c, k, h),
           UnderWay(k) \/ k.pc = "conflict",
           NEW e, NEW q, EndChanges(e, q),
           e.merges = IF k.merges = "open" THEN "lost" ELSE k.merges,
           q.alias = k.alias, q.anchored = k.anchored, q.from = k.from, q.mine = k.mine,
           q.merged \o Pending(q) = k.merged \o Pending(k)
    PROVE  Owes(c, e, h)
<1>1. InOrder(c, k, h) /\ k.pc # "abandoned"
  BY DEF ClientInv, UnderWay
<1>2. /\ e.pc = "idle" /\ e.anchored = k.anchored /\ e.from = k.from /\ e.mine = k.mine
      /\ e.alias = IF k.alias = "flight" THEN "none" ELSE k.alias
      /\ e.merged \o Pending(e) = k.merged \o Pending(k)
  BY DEF EndChanges, Pending
<1>3. ~UnderWay(e) /\ e.alias # "flight"
  BY <1>2 DEF UnderWay
<1>4. e.merges # "lost" => e.merges = k.merges /\ k.alias # "flight"
  BY <1>1 DEF InOrder
<1>5. Unbroken(e)
  BY <1>1, <1>2, <1>4 DEF Owes, Unbroken
<1>6. Somewhere(e, h)
  BY <1>1, <1>2, <1>3, <1>4 DEF Owes, Somewhere
<1>7. Put(c, e, h)
  BY <1>2 DEF Put
<1> QED
  BY <1>5, <1>6, <1>7 DEF Owes

LEMMA FailedOwes ==
    ASSUME NEW c, NEW k, NEW h, ClientInv(c, k, h), Owes(c, k, h),
           UnderWay(k) \/ k.pc = "conflict"
    PROVE  Owes(c, Failed(RolledBack(k)), h) /\ Owes(c, Failed(k), h)
<1> DEFINE r == RolledBack(k)
<1>1. k \in Client
  BY DEF ClientInv
<1>2. /\ r \in Client /\ r.inAnch = k.merged \o k.inAnch /\ r.merged = <<>>
      /\ r.alias = k.alias /\ r.merges = k.merges /\ r.anchored = k.anchored
      /\ r.from = k.from /\ r.new = k.new /\ r.mine = k.mine
  BY <1>1, RolledBackFields
<1> HIDE DEF r
<1>3. r.merged \o Pending(r) = k.merged \o Pending(k)
  <2>1. k.merged \in Operations /\ k.inAnch \in Operations /\ k.new \in Operations
    BY <1>1, ClientFields
  <2>2. <<>> \o ((k.merged \o k.inAnch) \o k.new) = k.merged \o (k.inAnch \o k.new)
    BY <2>1, Regrouped
  <2> QED
    BY <1>2, <2>2 DEF Pending
<1>4. /\ EndChanges(Failed(r), r) /\ EndChanges(Failed(k), k)
      /\ Failed(r).merges = IF k.merges = "open" THEN "lost" ELSE k.merges
      /\ Failed(k).merges = IF k.merges = "open" THEN "lost" ELSE k.merges
  BY <1>1, <1>2, FailedFields
<1>5. Owes(c, Failed(r), h)
  BY <1>2, <1>3, <1>4, EndedOwes
<1>6. Owes(c, Failed(k), h)
  BY <1>4, EndedOwes
<1> QED
  BY <1>5, <1>6 DEF r

LEMMA ConflictOwes ==
    ASSUME NEW c, NEW k, NEW h, ClientInv(c, k, h), Owes(c, k, h), UnderWay(k)
    PROVE  Owes(c, [RolledBack(k) EXCEPT !.pc = "conflict"], h)
<1> DEFINE r == RolledBack(k)
           q == [r EXCEPT !.pc = "conflict"]
<1>1. k \in Client /\ InOrder(c, k, h)
  BY DEF ClientInv
<1>2. k.new \in Operations /\ k.inAnch \in Operations /\ k.merged \in Operations
  BY <1>1, ClientFields
<1>3. /\ r \in Client /\ r.inAnch = k.merged \o k.inAnch /\ r.merged = <<>>
      /\ r.alias = k.alias /\ r.merges = k.merges /\ r.anchored = k.anchored
      /\ r.from = k.from /\ r.new = k.new /\ r.mine = k.mine /\ r.saved = k.saved
  BY <1>1, RolledBackFields
<1> HIDE DEF r
<1>4. /\ q.pc = "conflict" /\ q.inAnch = r.inAnch /\ q.merged = r.merged
      /\ q.alias = r.alias /\ q.merges = r.merges /\ q.anchored = r.anchored
      /\ q.from = r.from /\ q.new = r.new /\ q.mine = r.mine /\ q.saved = r.saved
  BY <1>3 DEF Client
<1> HIDE DEF q
<1>5. q.merged \o Pending(q) = k.merged \o Pending(k)
  <2>1. <<>> \o ((k.merged \o k.inAnch) \o k.new) = k.merged \o (k.inAnch \o k.new)
    BY <1>2, Regrouped
  <2> QED
    BY <1>3, <1>4, <2>1 DEF Pending
<1>6. k.alias = "flight" => Pending(q) = Pending(k)
  <2>1. k.alias = "flight" => k.merged = <<>>
    BY <1>1 DEF InOrder
  <2>2. <<>> \o k.inAnch = k.inAnch
    BY <1>2, Regrouped
  <2> QED
    BY <1>3, <1>4, <2>1, <2>2 DEF Pending
<1>7. ~UnderWay(q) /\ k.pc # "abandoned"
  BY <1>4 DEF UnderWay
<1>8. Unbroken(q)
  BY <1>3, <1>4, <1>5, <1>7 DEF Owes, Unbroken
<1>9. Somewhere(q, h)
  BY <1>3, <1>4, <1>5, <1>6, <1>7 DEF Owes, Somewhere
<1>10. Put(c, q, h)
  BY <1>4 DEF Put
<1> QED
  BY <1>8, <1>9, <1>10 DEF Owes, q, r

LEMMA AbandonedOwes ==
    ASSUME NEW c, NEW k \in Client, NEW h
    PROVE  Owes(c, Abandoned(k), h) /\ Owes(c, Abandoned([k EXCEPT !.inAnch = <<>>]), h)
<1>1. ASSUME NEW q \in Client PROVE Owes(c, Abandoned(q), h)
  <2>1. Failed(q) \in Client
    BY FailedFields DEF EndChanges
  <2>2. Abandoned(q).pc = "abandoned"
    BY <2>1 DEF Abandoned, Client
  <2> QED
    BY <2>2 DEF Owes, Unbroken, Somewhere, Put
<1>2. [k EXCEPT !.inAnch = <<>>] \in Client
  BY EmptyDiff DEF Client, Operations
<1> QED
  BY <1>1, <1>2

\* Only pc changes, within a process under way.
LEMMA NextStepOwes ==
    ASSUME NEW c, NEW k \in Client, NEW h, Owes(c, k, h), UnderWay(k),
           NEW pc \in {"getLast", "store", "stored"},
           pc = "stored" =>
              \E v \in 1..Len(h) : /\ h[v].by = c /\ h[v].map = k.saved
                                   /\ \A j \in (v + 1)..Len(h) : h[j].by # c
    PROVE  Owes(c, [k EXCEPT !.pc = pc], h) /\ Holds([k EXCEPT !.pc = pc]) = Holds(k)
<1> DEFINE q == [k EXCEPT !.pc = pc]
<1>1. /\ q.pc = pc /\ q.anchored = k.anchored /\ q.from = k.from /\ q.new = k.new
      /\ q.inAnch = k.inAnch /\ q.merged = k.merged /\ q.saved = k.saved
      /\ q.alias = k.alias /\ q.merges = k.merges /\ q.mine = k.mine
      /\ q.dirty = k.dirty /\ q.flight = k.flight /\ q.sent = k.sent
  BY DEF Client
<1> HIDE DEF q
<1>2. Pending(q) = Pending(k) /\ Put(c, q, h)
  BY <1>1 DEF Pending, Put
<1>3. q.pc # "abandoned" /\ k.pc # "abandoned"
  BY <1>1 DEF UnderWay
<1>4. Owes(c, q, h)
  BY <1>1, <1>2, <1>3, SameOwes
<1>5. Holds(q) = Holds(k)
  BY <1>1 DEF Holds
<1> QED
  BY <1>4, <1>5 DEF q

LEMMA MergedOwes ==
    ASSUME NEW c, NEW q, NEW h, ClientInv(c, q, h), q.pc = "save", q.alias = "flight",
           q.saved = q.flight, q.inAnch = <<>>, q.new = <<>>, q.merges # "none"
    PROVE  Owes(c, q, h)
<1>1. Kept(q) /\ Pending(q) = <<>>
  BY EmptyDiff, Regrouped DEF ClientInv, Pending
<1>2. Replay(q.flight, Pending(q)) = q.flight
  BY <1>1, ReplayEmpty
<1> QED
  BY <1>1, <1>2 DEF Kept, Owes, Unbroken, Somewhere, Put

LEMMA AnchoredOwes ==
    ASSUME NEW c, NEW k, NEW h \in Seq(Version), ClientInv(c, k, h), Owes(c, k, h),
           k.pc = "stored",
           NEW v \in 1..Len(h), h[v].by = c, \A j \in (v + 1)..Len(h) : h[j].by # c
    PROVE  Owes(c, Anchored(k, v), h)
<1> DEFINE e == Anchored(k, v)
<1>0. Len(h) \in Nat /\ v \in Nat
  BY LenProperties
<1>1. k \in Client /\ Replayed(k) /\ UnderWay(k)
  BY DEF ClientInv, UnderWay
<1>2. PICK i \in 1..Len(h) : /\ h[i].by = c /\ h[i].map = k.saved
                             /\ \A j \in (i + 1)..Len(h) : h[j].by # c
  BY DEF Owes, Put
<1>3. i = v
  <2>1. i < v => v \in (i + 1)..Len(h)
    BY <1>0
  <2>2. v < i => i \in (v + 1)..Len(h)
    BY <1>0
  <2> QED
    BY <1>0, <1>2, <2>1, <2>2
<1>4. MapAt(h, v) = k.saved
  BY <1>0, <1>2, <1>3 DEF MapAt
<1>5. /\ e.pc = "idle" /\ e.anchored = k.flight /\ e.from = v
      /\ e.alias = IF k.alias = "flight" THEN "anchored" ELSE "none"
      /\ e.new = k.new /\ e.inAnch = k.inAnch /\ e.merged = <<>> /\ e.mine = k.mine
      /\ e.merges = IF k.merges = "open" THEN "closed" ELSE k.merges
  BY <1>0, <1>1, AnchoredFields
<1> HIDE DEF e
<1>6. /\ k.merged \in Operations /\ Pending(k) \in Operations
      /\ k.inAnch \in Operations /\ k.new \in Operations
  BY <1>1, ClientFields
<1>7. e.merged \o Pending(e) = Pending(k)
  BY <1>5, <1>6, Regrouped DEF Pending
<1>8. ~UnderWay(e) /\ e.alias # "flight" /\ k.pc # "abandoned"
  BY <1>5 DEF UnderWay
<1>9. Unbroken(e)
  <2>1. SUFFICES ASSUME k.merges = "none" PROVE ~ReplayThrows(k.flight, Pending(k))
    BY <1>5, <1>7 DEF Unbroken
  <2>2. /\ ~ReplayThrows(k.anchored, k.merged \o Pending(k))
        /\ k.flight = Replay(k.anchored, k.merged)
    BY <1>1, <1>8, <2>1 DEF Owes, Unbroken, Replayed
  <2> QED
    BY <1>6, <2>2, ThrowsConcat
<1>10. Somewhere(e, h)
  <2> SUFFICES ASSUME k.merges # "lost", NEW f \in Files, k.mine[f] # 0
               PROVE  k.mine[f] \in Bricks(Pending(k)) \cup ToSet(MapAt(h, v)[f].bricks)
    BY <1>5, <1>7, <1>8 DEF Somewhere
  <2> QED
    BY <1>1, <1>4, <1>8 DEF Owes, Somewhere
<1>11. Put(c, e, h)
  BY <1>5 DEF Put
<1> QED
  BY <1>9, <1>10, <1>11 DEF Owes, e

LEMMA OpenedOwes ==
    ASSUME NEW c, NEW h, NEW v, NEW map
    PROVE  Owes(c, Opened(v, map), h)
<1> DEFINE k == Opened(v, map)
<1>1. /\ k.pc = "idle" /\ k.new = <<>> /\ k.inAnch = <<>> /\ k.merged = <<>>
      /\ \A f \in Files : k.mine[f] = 0
  BY OpenedFields
<1> HIDE DEF k
<1>2. k.merged \o Pending(k) = <<>>
  BY <1>1, EmptyDiff, Regrouped DEF Pending
<1>3. Owes(c, k, h)
  BY <1>1, <1>2, ThrowsEmpty DEF Owes, Unbroken, Somewhere, Put
<1> QED
  BY <1>3 DEF k

\* A version that another client puts, or one that is not the answer a client waits for.
LEMMA GrownOwes ==
    ASSUME NEW d, NEW k, NEW h \in Seq(Version), NEW v \in Version, Owes(d, k, h),
           k.from \in Nat, k.from <= Len(h), v.by # d \/ k.pc # "stored"
    PROVE  Owes(d, k, Append(h, v))
<1> DEFINE g == Append(h, v)
<1>1. /\ Len(g) = Len(h) + 1 /\ Len(h) \in Nat
      /\ g[Len(h) + 1] = v /\ \A i \in 1..Len(h) : g[i] = h[i]
      /\ \A i \in 1..Len(g) : i \in 1..Len(h) \/ i = Len(h) + 1
      /\ \A i \in Nat : i <= Len(h) => MapAt(g, i) = MapAt(h, i)
  BY GrownHistory
<1> HIDE DEF g
<1>2. MapAt(g, k.from) = MapAt(h, k.from)
  BY <1>1
<1>3. Somewhere(k, g)
  BY <1>2 DEF Owes, Somewhere
<1>4. Put(d, k, g)
  <2>1. SUFFICES ASSUME k.pc = "stored" PROVE Put(d, k, g)
    BY DEF Put
  <2>2. PICK i \in 1..Len(h) : /\ h[i].by = d /\ h[i].map = k.saved
                               /\ \A j \in (i + 1)..Len(h) : h[j].by # d
    BY <2>1 DEF Owes, Put
  <2>3. i \in 1..Len(g) /\ g[i] = h[i]
    BY <1>1
  <2>4. ASSUME NEW j \in (i + 1)..Len(g) PROVE g[j].by # d
    <3>1. j \in 1..Len(g)
      BY <1>1
    <3>2. CASE j = Len(h) + 1
      BY <1>1, <2>1, <3>2
    <3>3. CASE j \in 1..Len(h)
      BY <1>1, <2>2, <3>3
    <3> QED
      BY <1>1, <3>1, <3>2, <3>3
  <2> QED
    BY <2>2, <2>3, <2>4 DEF Put
<1>5. Owes(d, k, g)
  BY <1>3, <1>4 DEF Owes
<1> QED
  BY <1>5 DEF g

-----------------------------------------------------------------------------
(* Every client keeps what it owes *)

AllInv ==
    /\ IndInv
    /\ \A c \in Clients : Owes(c, client[c], history) /\ Holds(client[c]) \subseteq 0..writes
    /\ AnchoredBricks(history) \subseteq 0..writes

LEMMA AllInvImplies == AllInv => Inv /\ NoWriteForgotten
<1> SUFFICES ASSUME AllInv PROVE Inv /\ NoWriteForgotten
  OBVIOUS
<1>1. IndInv /\ \A c \in Clients : ClientInv(c, client[c], history) /\ Owes(c, client[c], history)
  BY DEF AllInv, IndInv
<1>2. PendingExplainsDirty
  BY <1>1 DEF ClientInv, Explained, Owes, Unbroken, PendingExplainsDirty
<1>3. Inv
  BY <1>1, <1>2, IndInvImplies DEF Inv
<1>4. NoWriteForgotten
  <2> SUFFICES ASSUME NEW c \in Clients, NEW f \in Files,
                      client[c].mine[f] # 0, client[c].merges # "lost",
                      client[c].pc # "abandoned"
               PROVE  LET k == client[c] IN
                      k.mine[f] \in Bricks(k.merged \o Pending(k)) \cup ToSet(k.saved[f].bricks)
                                       \cup ToSet(AnchoredMap(k.from)[f].bricks)
    BY DEF NoWriteForgotten
  <2> DEFINE k == client[c]
  <2>1. /\ Somewhere(k, history) /\ k \in Client
        /\ AnchoredMap(k.from) = MapAt(history, k.from)
    BY <1>1 DEF Owes, ClientInv, AnchoredMap, MapAt
  <2>2. Bricks(k.merged \o Pending(k)) = Bricks(k.merged) \cup Bricks(Pending(k))
    BY <2>1, ClientFields, PartsOfConcat
  <2> HIDE DEF k
  <2>3. k.mine[f] \in Bricks(k.merged \o Pending(k)) \cup ToSet(k.saved[f].bricks)
                         \cup ToSet(MapAt(history, k.from)[f].bricks)
    BY <2>1, <2>2 DEF Somewhere, k
  <2> QED
    BY <2>1, <2>3 DEF k
<1> QED
  BY <1>3, <1>4

\* What is known of the client that takes the step.
LEMMA OfAll ==
    ASSUME AllInv, NEW c \in Clients
    PROVE  /\ client[c] \in Client /\ ClientInv(c, client[c], history)
           /\ Owes(c, client[c], history) /\ Holds(client[c]) \subseteq 0..writes
           /\ AnchoredBricks(history) \subseteq 0..writes
           /\ history \in Seq(Version) /\ \A i \in 1..Len(history) : Sound(history[i].map)
           /\ client \in [Clients -> Client] /\ writes \in Nat /\ IndInv
  BY DEF AllInv, IndInv, ClientInv

\* One client takes a step; a version it puts is what it had serialised.
LEMMA AllStep ==
    ASSUME AllInv, IndInv', NEW c \in Clients, NEW k, SetClient(c, k), Owes(c, k, history'),
           Holds(k) \subseteq 0..writes', writes <= writes',
           \/ history' = history
           \/ \E v \in Version : /\ history' = Append(history, v) /\ v.by = c
                                 /\ v.map = client[c].saved
    PROVE  AllInv'
<1>1. /\ client \in [Clients -> Client] /\ writes \in Nat /\ writes' \in Nat
      /\ history \in Seq(Version)
  BY DEF AllInv, IndInv
<1>2. /\ client'[c] = k
      /\ \A d \in Clients : d # c => client'[d] = client[d]
  BY <1>1 DEF SetClient
<1>3. 0..writes \subseteq 0..writes'
  BY <1>1
<1>4. AnchoredBricks(history') \subseteq 0..writes'
  <2>1. AnchoredBricks(history) \subseteq 0..writes'
    BY <1>3 DEF AllInv
  <2>2. CASE history' # history
    <3>1. PICK v \in Version : /\ history' = Append(history, v) /\ v.by = c
                               /\ v.map = client[c].saved
      BY <2>2
    <3>2. AnchoredBricks(history') = AnchoredBricks(history) \cup MapBricks(v.map)
      BY <1>1, <3>1, GrownHistory
    <3>3. MapBricks(v.map) \subseteq 0..writes'
      BY <1>3, <3>1 DEF AllInv, Holds
    <3> QED
      BY <2>1, <3>2, <3>3
  <2> QED
    BY <2>1, <2>2
<1>5. ASSUME NEW d \in Clients PROVE Owes(d, client'[d], history')
  <2>1. CASE d = c
    BY <1>2, <2>1
  <2>2. CASE d # c
    <3>1. Owes(d, client[d], history) /\ client[d].from \in Nat /\ client[d].from <= Len(history)
      BY <1>1, ClientFields DEF AllInv, IndInv, ClientInv, InOrder
    <3>2. \A v \in Version : v.by = c => Owes(d, client[d], Append(history, v))
      BY <1>1, <2>2, <3>1, GrownOwes
    <3> QED
      BY <1>2, <2>2, <3>1, <3>2
  <2> QED
    BY <2>1, <2>2
<1>6. ASSUME NEW d \in Clients PROVE Holds(client'[d]) \subseteq 0..writes'
  <2>1. CASE d = c
    BY <1>2, <2>1
  <2>2. CASE d # c
    BY <1>2, <1>3, <2>2 DEF AllInv
  <2> QED
    BY <2>1, <2>2
<1> QED
  BY <1>4, <1>5, <1>6 DEF AllInv

\* A step that puts no version and makes no write.
LEMMA QuietAllStep ==
    ASSUME AllInv, IndInv', NEW c \in Clients, NEW k, SetClient(c, k),
           history' = history, writes' = writes, Owes(c, k, history),
           Holds(k) \subseteq Holds(client[c]) \cup AnchoredBricks(history)
    PROVE  AllInv'
<1>1. Holds(k) \subseteq 0..writes' /\ writes <= writes' /\ Owes(c, k, history')
  BY DEF AllInv, IndInv
<1> QED
  BY <1>1, AllStep

\* No brick is in the first version but 0.
LEMMA InitBricks ==
    ASSUME Init
    PROVE  /\ AnchoredBricks(history) \subseteq {0}
           /\ \A i \in 1..Len(history) : i = 1 /\ history[i].from = 0
           /\ \E n : \A d \in Clients : client[d] = Opened(n, MapAt(history, n))
                       /\ MapBricks(MapAt(history, n)) \subseteq {0}
<1>2. PICK fs \in Seeds, c \in Clients :
        history \in {<<>>, <<[map |-> SeedMap(fs), by |-> c, from |-> 0, ops |-> <<>>,
                              merged |-> FALSE]>>}
  BY DEF Init
<1> DEFINE v == [map |-> SeedMap(fs), by |-> c, from |-> 0, ops |-> <<>>, merged |-> FALSE]
<1>3. MapBricks(v.map) \subseteq {0}
  <2>1. /\ FileNode(<<0>>).bricks = <<0>> /\ AbsentNode.bricks = <<>>
    BY DEF FileNode, AbsentNode
  <2>2. ToSet(<<0>>) = {0} /\ ToSet(<<>>) = {}
    BY DEF ToSet
  <2>3. \A f \in Files : v.map[f] \in {FileNode(<<0>>), AbsentNode}
    BY DEF SeedMap
  <2> DEFINE map == v.map
  <2> HIDE DEF map
  <2>4. \A f \in Files : ToSet(map[f].bricks) \subseteq {0}
    BY <2>1, <2>2, <2>3 DEF map
  <2>5. MapBricks(map) \subseteq {0}
    BY <2>4 DEF MapBricks
  <2> QED
    BY <2>5 DEF map
<1>4. v.from = 0
  OBVIOUS
<1> HIDE DEF v
<1>5. /\ \A i \in 1..Len(history) : i = 1 /\ history[i] = v
      /\ history = <<>> \/ (history = <<v>> /\ Len(history) = 1)
  <2>1. CASE history = <<>>
    <3>1. Len(history) = 0
      BY <2>1, EmptySeq
    <3>2. 1..Len(history) = {}
      BY <3>1
    <3> QED
      BY <2>1, <3>2
  <2>2. CASE history = <<v>>
    BY <2>2
  <2> QED
    BY <1>2, <2>1, <2>2 DEF v
<1>6. AnchoredBricks(history) \subseteq {0}
  BY <1>3, <1>5 DEF AnchoredBricks
<1>7. \E n : \A d \in Clients : client[d] = Opened(n, MapAt(history, n))
             /\ MapBricks(MapAt(history, n)) \subseteq {0}
  <2>1. CASE history = <<>>
    <3>1. \A d \in Clients : client[d] = Opened(0, MapAt(history, 0))
      BY <2>1 DEF Init, MapAt
    <3>2. MapBricks(MapAt(history, 0)) = {}
      BY BricksOfMaps DEF MapAt
    <3> QED
      BY <3>1, <3>2
  <2>2. CASE history # <<>>
    <3>1. \A d \in Clients : client[d] = Opened(1, MapAt(history, 1))
      BY <2>2 DEF Init, MapAt
    <3>2. MapAt(history, 1) = v.map
      BY <1>5, <2>2 DEF MapAt
    <3> QED
      BY <1>3, <3>1, <3>2
  <2> QED
    BY <2>1, <2>2
<1> QED
  BY <1>4, <1>5, <1>6, <1>7

LEMMA InitAll == Init => AllInv
<1> SUFFICES ASSUME Init PROVE AllInv
  OBVIOUS
<1>1. IndInv /\ 0..writes = {0}
  BY InitInv DEF Init
<1>2. PICK n : \A d \in Clients : client[d] = Opened(n, MapAt(history, n))
                                  /\ MapBricks(MapAt(history, n)) \subseteq {0}
  BY InitBricks
<1>3. \A d \in Clients : Owes(d, client[d], history) /\ Holds(client[d]) \subseteq {0}
  BY <1>2, OpenedOwes, OpenedFields
<1> QED
  BY <1>1, <1>3, InitBricks DEF AllInv

LEMMA WriteKeepsAll ==
    ASSUME AllInv, IndInv', NEW c \in Clients, AddFile(c) \/ AppendToFile(c) \/ DeleteFile(c)
    PROVE  AllInv'
<1> DEFINE k == client[c]
<1>1. PICK f \in Files, brick \in {0, writes + 1} : \E ops :
         /\ IsWrite(ops, f, brick) /\ Write(c, f, ops, brick) /\ brick \in 0..MaxWrites
         /\ Takes(k.dirty, ops, f, brick)
  BY WriteActions DEF AllInv, IndInv
<1>2. PICK ops : /\ IsWrite(ops, f, brick) /\ Write(c, f, ops, brick) /\ brick \in 0..MaxWrites
                 /\ Takes(k.dirty, ops, f, brick)
  BY <1>1
<1> DEFINE w == Written(k, ops, f, brick)
<1>3. /\ k \in Client /\ ClientInv(c, k, history) /\ Owes(c, k, history)
      /\ Holds(k) \subseteq 0..writes /\ writes \in Nat /\ history \in Seq(Version)
  BY OfAll
<1>4. history' = history /\ writes' = writes + 1
  BY <1>2 DEF Write
<1>5. PICK shouldBeAnchored \in BOOLEAN :
         SetClient(c, IF shouldBeAnchored THEN AnchoringAsked(w) ELSE w)
  BY <1>2 DEF Write, AttemptAnchoring, IfChangesShouldBeAnchored, Written
<1> HIDE DEF k
<1>6. ~ReplayThrows(k.dirty, ops)
  <2>1. k.dirty \in BrickMap /\ Sound(k.dirty)
    BY <1>3, ClientFields DEF ClientInv, SoundClient
  <2>2. brick # 0 => brick \notin ToSet(k.dirty[f].bricks)
    <3>1. ToSet(k.dirty[f].bricks) \subseteq Holds(k)
      BY DEF Holds, MapBricks
    <3> QED
      BY <1>3, <3>1
  <2> QED
    BY <1>2, <2>1, <2>2 DEF Takes
<1>7. brick # 0 => brick \in Bricks(ops)
  BY <1>2, WriteHasBrick
<1>8. ClientInv(c, w, history) /\ Owes(c, w, history) /\ Holds(w) \subseteq Holds(k) \cup {0, brick}
  BY <1>2, <1>3, <1>6, <1>7, WrittenInv, WrittenOwes, WrittenHolds
<1>9. w \in Client
  BY <1>8 DEF ClientInv
<1> HIDE DEF w
<1> DEFINE q == IF shouldBeAnchored THEN AnchoringAsked(w) ELSE w
<1>10. Owes(c, q, history) /\ Holds(q) = Holds(w)
  BY <1>8, <1>9, AskedOwes, AskedHolds
<1> HIDE DEF q
<1>11. SetClient(c, q)
  BY <1>5 DEF q
<1>12. Holds(q) \subseteq 0..writes' /\ writes <= writes'
  <2>1. 0..writes \subseteq 0..writes' /\ {0, brick} \subseteq 0..writes' /\ writes <= writes'
    BY <1>3, <1>4
  <2> QED
    BY <1>3, <1>8, <1>10, <2>1
<1> QED
  BY <1>4, <1>10, <1>11, <1>12, AllStep

LEMMA AnchorChangesKeepsAll ==
    ASSUME AllInv, IndInv', NEW c \in Clients, AnchorChanges(c)
    PROVE  AllInv'
<1> DEFINE q == AnchoringAsked(client[c])
<1>1. SetClient(c, q) /\ UNCHANGED <<history, writes>>
  BY DEF AnchorChanges, counters
<1>2. Owes(c, q, history) /\ Holds(q) = Holds(client[c])
  BY OfAll, AskedOwes, AskedHolds
<1> HIDE DEF q
<1> QED
  BY <1>1, <1>2, QuietAllStep

LEMMA CompactKeepsAll ==
    ASSUME AllInv, IndInv', NEW c \in Clients, Compact(c)
    PROVE  AllInv'
<1> DEFINE k == client[c]
           q == IF ReplayThrows(k.anchored, k.inAnch)
                THEN Abandoned([k EXCEPT !.inAnch = <<>>]) ELSE Compacted(k)
<1>1. SetClient(c, q) /\ UNCHANGED <<history, writes>> /\ k.pc = "compact"
  BY DEF Compact, Compacted, counters, At
<1>2. k \in Client /\ ClientInv(c, k, history) /\ Owes(c, k, history)
  BY OfAll
<1> HIDE DEF k
<1>3. Owes(c, Compacted(k), history) /\ Holds(Compacted(k)) \subseteq Holds(k)
  BY <1>1, <1>2, CompactedOwes, CompactedFields
<1>4. /\ Owes(c, Abandoned([k EXCEPT !.inAnch = <<>>]), history)
      /\ Holds(Abandoned([k EXCEPT !.inAnch = <<>>])) \subseteq Holds(k)
  BY <1>2, AbandonedOwes, DropsHolds
<1>5. Owes(c, q, history) /\ Holds(q) \subseteq Holds(k)
  BY <1>3, <1>4
<1> HIDE DEF q
<1> QED
  BY <1>1, <1>5, QuietAllStep DEF k

LEMMA SaveBrickMapKeepsAll ==
    ASSUME AllInv, IndInv', NEW c \in Clients, SaveBrickMap(c)
    PROVE  AllInv'
<1> DEFINE k == client[c]
<1>1. /\ k.pc = "save" /\ UNCHANGED <<history, writes>>
      /\ \/ SetClient(c, [k EXCEPT !.pc = "getLast"])
         \/ SetClient(c, Failed(RolledBack(k)))
  BY DEF SaveBrickMap, At
<1>2. k \in Client /\ ClientInv(c, k, history) /\ Owes(c, k, history) /\ UnderWay(k)
  BY <1>1, OfAll DEF UnderWay
<1> HIDE DEF k
<1>3. /\ Owes(c, [k EXCEPT !.pc = "getLast"], history)
      /\ Holds([k EXCEPT !.pc = "getLast"]) \subseteq Holds(k)
  BY <1>2, NextStepOwes
<1>4. Owes(c, Failed(RolledBack(k)), history) /\ Holds(Failed(RolledBack(k))) \subseteq Holds(k)
  BY <1>2, FailedOwes, DropsHolds
<1>5. PICK q : SetClient(c, q) /\ Owes(c, q, history) /\ Holds(q) \subseteq Holds(k)
  BY <1>1, <1>3, <1>4
<1> QED
  BY <1>1, <1>5, QuietAllStep DEF k

LEMMA GetLastVersionKeepsAll ==
    ASSUME AllInv, IndInv', NEW c \in Clients, GetLastVersion(c)
    PROVE  AllInv'
<1> DEFINE k == client[c]
           again == [RolledBack(k) EXCEPT !.pc = "conflict"]
           storing == [k EXCEPT !.pc = "store"]
<1>1. /\ k.pc = "getLast" /\ UNCHANGED <<history, writes>>
      /\ SetClient(c, Abandoned(k)) \/ SetClient(c, again) \/ SetClient(c, storing)
  BY DEF GetLastVersion, At
<1>2. k \in Client /\ ClientInv(c, k, history) /\ Owes(c, k, history) /\ UnderWay(k)
  BY <1>1, OfAll DEF UnderWay
<1> HIDE DEF k
<1>3. Owes(c, Abandoned(k), history) /\ Holds(Abandoned(k)) \subseteq Holds(k)
  BY <1>2, AbandonedOwes, DropsHolds
<1>4. Owes(c, again, history) /\ Holds(again) \subseteq Holds(k)
  BY <1>2, ConflictOwes, DropsHolds
<1>5. Owes(c, storing, history) /\ Holds(storing) \subseteq Holds(k)
  BY <1>2, NextStepOwes
<1> HIDE DEF again, storing
<1>6. PICK q : SetClient(c, q) /\ Owes(c, q, history) /\ Holds(q) \subseteq Holds(k)
  BY <1>1, <1>3, <1>4, <1>5
<1> QED
  BY <1>1, <1>6, QuietAllStep DEF k

LEMMA StoreAnchorKeepsAll ==
    ASSUME AllInv, IndInv', NEW c \in Clients, StoreAnchor(c)
    PROVE  AllInv'
<1> DEFINE k == client[c]
           back == Failed(RolledBack(k))
           again == [RolledBack(k) EXCEPT !.pc = "conflict"]
           stored == [k EXCEPT !.pc = "stored"]
<1>1. k.pc = "store" /\ writes' = writes
  BY DEF StoreAnchor, At
<1>2. /\ k \in Client /\ ClientInv(c, k, history) /\ Owes(c, k, history) /\ UnderWay(k)
      /\ Holds(k) \subseteq 0..writes /\ writes \in Nat /\ history \in Seq(Version)
      /\ k.from \in Nat /\ k.from <= Len(history)
  BY <1>1, OfAll, ClientFields DEF UnderWay, ClientInv, InOrder
<1>3. CASE /\ history' = Append(history, NewVersion(c))
           /\ SetClient(c, stored) \/ SetClient(c, back)
  <2> DEFINE v == NewVersion(c)
             g == Append(history, v)
  <2>1. v \in Version /\ v.by = c /\ v.map = k.saved
    BY <1>2, ClientFields DEF NewVersion, Version, Operations
  <2> HIDE DEF v, k
  <2>2. /\ Len(g) = Len(history) + 1 /\ Len(history) \in Nat /\ g[Len(history) + 1] = v
    BY <1>2, <2>1, GrownHistory
  <2>3. ClientInv(c, k, g) /\ Owes(c, k, g)
    BY <1>1, <1>2, <2>1, HistoryGrows, GrownOwes
  <2> HIDE DEF g
  <2>4. \E i \in 1..Len(g) : /\ g[i].by = c /\ g[i].map = k.saved
                             /\ \A j \in (i + 1)..Len(g) : g[j].by # c
    <3>1. Len(history) + 1 \in 1..Len(g) /\ ((Len(history) + 1) + 1)..Len(g) = {}
      BY <2>2
    <3> QED
      BY <2>1, <2>2, <3>1
  <2>5. Owes(c, stored, g) /\ Holds(stored) \subseteq Holds(k)
    BY <1>2, <2>3, <2>4, NextStepOwes
  <2>6. Owes(c, back, g) /\ Holds(back) \subseteq Holds(k)
    BY <1>2, <2>3, FailedOwes, DropsHolds
  <2> HIDE DEF back, stored
  <2>7. PICK q : SetClient(c, q) /\ Owes(c, q, g) /\ Holds(q) \subseteq Holds(k)
    BY <1>3, <2>5, <2>6
  <2>8. /\ history' = g /\ history' = Append(history, v)
        /\ Holds(q) \subseteq 0..writes' /\ writes <= writes'
    BY <1>1, <1>2, <1>3, <2>7 DEF g, v
  <2> QED
    BY <2>1, <2>7, <2>8, AllStep DEF k
<1>4. CASE history' = history /\ (SetClient(c, back) \/ SetClient(c, again))
  <2> HIDE DEF k
  <2>1. /\ Owes(c, back, history) /\ Holds(back) \subseteq Holds(k)
        /\ Owes(c, again, history) /\ Holds(again) \subseteq Holds(k)
    BY <1>2, FailedOwes, ConflictOwes, DropsHolds
  <2> HIDE DEF back, again
  <2>2. PICK q : SetClient(c, q) /\ Owes(c, q, history) /\ Holds(q) \subseteq Holds(k)
    BY <1>4, <2>1
  <2> QED
    BY <1>1, <1>4, <2>2, QuietAllStep DEF k
<1> QED
  BY <1>3, <1>4 DEF StoreAnchor

LEMMA AfterBrickMapAnchoringKeepsAll ==
    ASSUME AllInv, IndInv', NEW c \in Clients, AfterBrickMapAnchoring(c)
    PROVE  AllInv'
<1> DEFINE k == client[c]
           IsLast(i) == history[i].by = c /\ \A j \in (i + 1)..LastVersion : history[j].by # c
           v == CHOOSE i \in 1..LastVersion : IsLast(i)
           e == Anchored(k, v)
           q == IF e.inAnch = <<>> THEN e ELSE AnchoringAsked(e)
<1>1. /\ k \in Client /\ ClientInv(c, k, history) /\ Owes(c, k, history)
      /\ history \in Seq(Version)
  BY OfAll
<1>2. k.pc = "stored" /\ SetClient(c, q) /\ UNCHANGED <<history, writes>>
  BY DEF AfterBrickMapAnchoring, At, Anchored, counters
<1>3. PICK n \in 1..Len(history) : history[n].by = c
  BY <1>1, <1>2 DEF Owes, Put
<1>4. \E i \in 1..LastVersion : IsLast(i)
  BY <1>1, <1>3, LastOfClient DEF LastVersion
<1>5. v \in 1..LastVersion /\ IsLast(v)
  <2> HIDE DEF IsLast
  <2> QED
    BY <1>4
<1>6. v \in 1..Len(history) /\ history[v].by = c
      /\ \A j \in (v + 1)..Len(history) : history[j].by # c
  BY <1>5 DEF LastVersion
<1>7. v \in Nat
  BY <1>1, <1>6, LenProperties
<1> HIDE DEF v, k
<1>8. Owes(c, e, history) /\ Holds(e) \subseteq Holds(k) /\ e \in Client
  BY <1>1, <1>2, <1>6, <1>7, AnchoredOwes, AnchoredHolds, AnchoredFields
<1> HIDE DEF e
<1>9. Owes(c, q, history) /\ Holds(q) \subseteq Holds(k)
  BY <1>8, AskedOwes, AskedHolds
<1> HIDE DEF q
<1> QED
  BY <1>2, <1>9, QuietAllStep DEF k

LEMMA HandleAnchoringConflictKeepsAll ==
    ASSUME AllInv, IndInv', NEW c \in Clients, HandleAnchoringConflict(c)
    PROVE  AllInv'
<1> DEFINE k == client[c]
           p == Prepared(k)
           r == [p EXCEPT !.cur = LastVersion]
           theirs == history[LastVersion].map
           result == IF r.inAnch = <<>> THEN theirs
                     ELSE Merge(theirs, Replay(r.anchored, r.inAnch))
           m == MergedInto(r, result)
<1>1. /\ k \in Client /\ ClientInv(c, k, history) /\ Owes(c, k, history)
      /\ history \in Seq(Version) /\ \A i \in 1..Len(history) : Sound(history[i].map)
  BY OfAll
<1>2. /\ k.pc = "conflict" /\ UNCHANGED <<history, writes>>
      /\ SetClient(c, Reconciled(r, theirs)) \/ SetClient(c, Failed(k))
  BY DEF HandleAnchoringConflict, At
<1>3. /\ LastVersion \in Nat /\ LastVersion = Len(history) /\ LastVersion \in 1..Len(history)
      /\ theirs \in BrickMap
  BY <1>1, <1>2, VersionFields DEF ClientInv, InOrder, LastVersion
<1>4. MapBricks(theirs) \subseteq AnchoredBricks(history)
  BY <1>3 DEF AnchoredBricks
<1>5. Reconciled(r, theirs) \in {Failed(r), Abandoned([r EXCEPT !.inAnch = <<>>]), m}
  BY DEF Reconciled, MergedInto
<1> HIDE DEF k, theirs
<1>6. /\ ClientInv(c, p, history) /\ p \in Client /\ p.new = <<>> /\ p.pc = "conflict"
      /\ Holds(p) = Holds(k) /\ p.anchored = k.anchored /\ p.from = k.from
      /\ p.merged = k.merged /\ p.saved = k.saved /\ Pending(p) = Pending(k)
      /\ p.alias = k.alias /\ p.merges = k.merges /\ p.mine = k.mine
  BY <1>1, <1>2, PreparedInv, PreparedFields, PreparedHolds, PreparedPending
<1> HIDE DEF p
<1>7. /\ r \in Client /\ r.pc = "conflict" /\ r.new = <<>> /\ r.cur = LastVersion
      /\ r.dirty = p.dirty /\ r.anchored = p.anchored /\ r.from = p.from
      /\ r.inAnch = p.inAnch /\ r.merged = p.merged /\ r.flight = p.flight
      /\ r.saved = p.saved /\ r.alias = p.alias /\ r.merges = p.merges /\ r.mine = p.mine
      /\ r.sent = p.sent
  BY <1>3, <1>6 DEF Client
<1> HIDE DEF r
<1>8. ClientInv(c, r, history)
  <2>1. Moved(c, p, r, history)
    BY <1>3, <1>6, <1>7 DEF Moved, UnderWay
  <2> QED
    BY <1>6, <2>1, MovedInv
<1>9. Owes(c, r, history) /\ Holds(r) = Holds(k)
  <2>1. Pending(r) = Pending(k) /\ ~UnderWay(r) /\ Put(c, r, history)
    BY <1>6, <1>7 DEF Pending, UnderWay, Put
  <2>2. Holds(r) = Holds(p)
    BY <1>6, <1>7 DEF Holds
  <2> QED
    BY <1>1, <1>2, <1>6, <1>7, <2>1, <2>2, SameOwes
<1>10. /\ Owes(c, Failed(k), history) /\ Holds(Failed(k)) \subseteq Holds(k)
       /\ Owes(c, Failed(r), history) /\ Holds(Failed(r)) \subseteq Holds(k)
       /\ Owes(c, Abandoned([r EXCEPT !.inAnch = <<>>]), history)
       /\ Holds(Abandoned([r EXCEPT !.inAnch = <<>>])) \subseteq Holds(k)
  BY <1>1, <1>2, <1>7, <1>8, <1>9, FailedOwes, AbandonedOwes, DropsHolds
<1>11. Reconciled(r, theirs) = m =>
          Owes(c, m, history) /\ Holds(m) \subseteq Holds(k) \cup AnchoredBricks(history)
  <2>1. /\ m.pc = "save" /\ m.inAnch = <<>> /\ m.new = <<>> /\ m.flight = result
        /\ m.saved = result /\ m.alias = "flight" /\ m.merges \in {"open", "lost"}
        /\ Holds(m) \subseteq Holds(r) \cup MapBricks(theirs)
    <3>1. result = IF r.inAnch = <<>> THEN theirs
                   ELSE Merge(theirs, Replay(r.anchored, r.inAnch))
      OBVIOUS
    <3> HIDE DEF result
    <3> QED
      BY <1>3, <1>7, <3>1, MergedIntoFields
  <2>2. Sound(theirs)
    BY <1>1, <1>3 DEF theirs
  <2> HIDE DEF m, result
  <2>3. ClientInv(c, Reconciled(r, theirs), history)
    BY <1>3, <1>7, <1>8, <2>2, ReconciledInv
  <2> QED
    BY <1>4, <1>9, <2>1, <2>3, MergedOwes
<1> HIDE DEF m
<1>12. PICK q : /\ SetClient(c, q) /\ Owes(c, q, history)
                /\ Holds(q) \subseteq Holds(k) \cup AnchoredBricks(history)
  BY <1>2, <1>5, <1>10, <1>11
<1> QED
  BY <1>2, <1>12, QuietAllStep DEF k

LEMMA ReopenKeepsAll ==
    ASSUME AllInv, IndInv', NEW c \in Clients, Reopen(c)
    PROVE  AllInv'
<1>1. PICK v, map : /\ SetClient(c, Opened(v, map)) /\ UNCHANGED <<history, writes>>
                    /\ \/ map = EmptyMap
                       \/ history # <<>> /\ map = history[LastVersion].map
  BY DEF Reopen
<1>2. history # <<>> => LastVersion \in 1..Len(history)
  BY OfAll, VersionFields DEF LastVersion
<1>3. MapBricks(map) \subseteq AnchoredBricks(history)
  BY <1>1, <1>2, BricksOfMaps DEF AnchoredBricks
<1>4. Owes(c, Opened(v, map), history) /\ Holds(Opened(v, map)) = MapBricks(map)
  BY OpenedOwes, OpenedFields
<1> QED
  BY <1>1, <1>3, <1>4, QuietAllStep

LEMMA NextAll == AllInv /\ [Next]_vars => AllInv'
<1> SUFFICES ASSUME AllInv, [Next]_vars PROVE AllInv'
  OBVIOUS
<1>1. IndInv'
  BY NextInv DEF AllInv
<1>2. CASE UNCHANGED vars
  BY <1>1, <1>2 DEF vars, AllInv
<1>3. ASSUME NEW c \in Clients,
             \/ AddFile(c) \/ AppendToFile(c) \/ DeleteFile(c)
             \/ AnchorChanges(c) \/ Process(c) \/ Reopen(c)
      PROVE  AllInv'
  <2>1. CASE AddFile(c) \/ AppendToFile(c) \/ DeleteFile(c)
    BY <1>1, <2>1, WriteKeepsAll
  <2>2. CASE AnchorChanges(c)
    BY <1>1, <2>2, AnchorChangesKeepsAll
  <2>3. CASE Process(c)
    <3>1. CASE Compact(c)
      BY <1>1, <3>1, CompactKeepsAll
    <3>2. CASE SaveBrickMap(c)
      BY <1>1, <3>2, SaveBrickMapKeepsAll
    <3>3. CASE GetLastVersion(c)
      BY <1>1, <3>3, GetLastVersionKeepsAll
    <3>4. CASE StoreAnchor(c)
      BY <1>1, <3>4, StoreAnchorKeepsAll
    <3>5. CASE AfterBrickMapAnchoring(c)
      BY <1>1, <3>5, AfterBrickMapAnchoringKeepsAll
    <3>6. CASE HandleAnchoringConflict(c)
      BY <1>1, <3>6, HandleAnchoringConflictKeepsAll
    <3> QED
      BY <2>3, <3>1, <3>2, <3>3, <3>4, <3>5, <3>6 DEF Process
  <2>4. CASE Reopen(c)
    BY <1>1, <2>4, ReopenKeepsAll
  <2> QED
    BY <1>3, <2>1, <2>2, <2>3, <2>4
<1> QED
  BY <1>2, <1>3 DEF Next

\* In every state of every behaviour, what a client has written and not anchored is what
\* its diffs hold: as long as it never had to merge they can be replayed on the anchored
\* brick map, and give what the client reads.
THEOREM InductiveInvariant == Spec => []Inv
<1>1. Spec => []AllInv
  BY InitAll, NextAll, PTL DEF Spec
<1> QED
  BY <1>1, AllInvImplies, PTL

\* No error path drops a write: unless a merge was lost or the process was abandoned (a
\* replay that throws abandons it), its brick is in a pending diff, in the brick map under
\* way to the hub, or in the version the client has anchored.
THEOREM WritesAreNotForgotten == Spec => []NoWriteForgotten
<1>1. Spec => []AllInv
  BY InitAll, NextAll, PTL DEF Spec
<1> QED
  BY <1>1, AllInvImplies, PTL
-----------------------------------------------------------------------------
(* Clients that load the DSU again after a conflict: what they build on *)

Covers(old, now) == \A f \in Files : old[f].there => now[f].there

\* What a client changed of a brick map since others saw it: a file is as it was, is
\* emptied and marked, or has a brick that is not among those they know.
Changed(old, now, known) ==
    \A f \in Files :
        \/ now[f] = old[f]
        \/ now[f].deleted /\ now[f].bricks = <<>>
        \/ \E b \in ToSet(now[f].bricks) : b # 0 /\ b \notin known

\* The client knows of all the versions it has put.
Told(c, k, h) == \A j \in 1..Len(h) : j > k.from => h[j].by # c

\* No operation is on a file that the last version changed since base.
Unreported(ops, base, last) ==
    \A n \in DOMAIN ops : ops[n].op # "append" =>
        last[ops[n].file].deleted \/ ops[n].file \notin Diff(base, last)

BuiltOn(c, k, h) ==
    /\ Covers(MapAt(h, k.from), k.anchored)
    /\ k.pc = "compact" \/ (UnderWay(k) /\ k.alias # "flight") => k.from = k.cur
    /\ UnderWay(k) =>
          /\ Covers(MapAt(h, k.cur), k.saved)
          /\ Covers(k.saved, k.flight)
          /\ Changed(k.saved, k.flight, AnchoredBricks(h) \cup MapBricks(k.saved))
    /\ k.pc = "stored" =>
          \E v \in 1..Len(h) : /\ h[v].by = c /\ h[v].map = k.saved
                               /\ \A j \in (v + 1)..Len(h) : h[j].by # c
    /\ Told(c, k, h) => Changed(MapAt(h, k.from), k.anchored, AnchoredBricks(h))
    /\ UnderWay(k) /\ k.alias = "flight" /\ Told(c, k, h) =>
          k.cur # 0 /\ Unreported(k.sent, MapAt(h, k.from), h[k.cur].map)

LEMMA CoversReplay ==
    ASSUME NEW old, NEW now \in BrickMap, NEW ops \in Operations, Covers(old, now)
    PROVE  Covers(old, Replay(now, ops))
  BY ReplayThere DEF Covers

LEMMA CoversMerge ==
    ASSUME NEW theirs \in BrickMap, NEW ours \in BrickMap
    PROVE  Covers(theirs, Merge(theirs, ours))
  BY DEF Covers, Merge

\* A write with a brick of its own is a change.
LEMMA ChangedByWrite ==
    ASSUME NEW old, NEW now \in BrickMap, NEW known, Changed(old, now, known),
           NEW ops, NEW f, NEW brick, IsWrite(ops, f, brick), brick # 0 => brick \notin known
    PROVE  Changed(old, Replay(now, ops), known)
<1> DEFINE next == Replay(now, ops)
<1>1. SUFFICES ASSUME NEW g \in Files
               PROVE  \/ next[g] = old[g]
                      \/ next[g].deleted /\ next[g].bricks = <<>>
                      \/ \E b \in ToSet(next[g].bricks) : b # 0 /\ b \notin known
  BY DEF Changed
<1>2. \/ now[g] = old[g]
      \/ now[g].deleted /\ now[g].bricks = <<>>
      \/ \E b \in ToSet(now[g].bricks) : b # 0 /\ b \notin known
  BY DEF Changed
<1>3. CASE g # f
  <2>1. ops \in Operations /\ g \notin Names(ops)
    BY <1>3 DEF IsWrite
  <2>2. next[g] = now[g]
    BY <2>1, ReplayOther
  <2> QED
    BY <1>2, <2>2
<1>4. CASE g = f
  <2>1. \/ brick # 0 /\ brick \in ToSet(next[f].bricks)
        \/ brick = 0 /\ next[f] \in {now[f], [there |-> TRUE, deleted |-> TRUE, bricks |-> <<>>]}
    BY DEF IsWrite
  <2> HIDE DEF next
  <2>2. CASE brick # 0 /\ brick \in ToSet(next[f].bricks)
    BY <1>4, <2>2
  <2>3. CASE next[f] = now[f]
    BY <1>2, <1>4, <2>3
  <2>4. CASE next[f] = [there |-> TRUE, deleted |-> TRUE, bricks |-> <<>>]
    BY <1>4, <2>4, FileNodeIs
  <2> QED
    BY <2>1, <2>2, <2>3, <2>4
<1> QED
  BY <1>3, <1>4

LEMMA UnchangedIs ==
    /\ \A map, known : Changed(map, map, known) /\ Covers(map, map)
    /\ \A old, now, known, less : Changed(old, now, known) /\ less \subseteq known
          => Changed(old, now, less)
<1>1. \A map, known : Changed(map, map, known) /\ Covers(map, map)
  BY DEF Changed, Covers
<1>2. ASSUME NEW old, NEW now, NEW known, NEW less, Changed(old, now, known), less \subseteq known
      PROVE  Changed(old, now, less)
  <2> SUFFICES ASSUME NEW f \in Files
               PROVE  \/ now[f] = old[f]
                      \/ now[f].deleted /\ now[f].bricks = <<>>
                      \/ \E b \in ToSet(now[f].bricks) : b # 0 /\ b \notin less
    BY DEF Changed
  <2> QED
    BY <1>2 DEF Changed
<1> QED
  BY <1>1, <1>2

\* Changes others do not know of stay unknown when a version without these bricks is put.
LEMMA StillChanged ==
    ASSUME NEW old, NEW now, NEW known, NEW more, Changed(old, now, known),
           \A b \in MapBricks(now) : b \in more => b \in known \cup {0}
    PROVE  Changed(old, now, known \cup more)
<1> SUFFICES ASSUME NEW f \in Files
             PROVE  \/ now[f] = old[f]
                    \/ now[f].deleted /\ now[f].bricks = <<>>
                    \/ \E b \in ToSet(now[f].bricks) : b # 0 /\ b \notin known \cup more
  BY DEF Changed
<1>1. ASSUME NEW b \in ToSet(now[f].bricks), b # 0, b \notin known PROVE b \notin known \cup more
  <2>1. b \in MapBricks(now)
    BY DEF MapBricks
  <2> QED
    BY <1>1, <2>1
<1> QED
  BY <1>1 DEF Changed

\* The last version has no brick that nobody knows of, so a change of the client is found.
LEMMA ConflictIsFound ==
    ASSUME NEW h \in Seq(Version), NEW v \in 1..Len(h), NEW base \in BrickMap,
           NEW anchored \in BrickMap, Sound(h[v].map), h[v].map \in BrickMap,
           Changed(base, anchored, AnchoredBricks(h)),
           NEW f \in Files, f \notin Diff(anchored, h[v].map)
    PROVE  h[v].map[f].deleted \/ f \notin Diff(base, h[v].map)
<1> DEFINE last == h[v].map
<1>1. ToSet(last[f].bricks) \subseteq AnchoredBricks(h)
  BY DEF AnchoredBricks, MapBricks
<1>2. last[f].there => anchored[f].there /\ anchored[f].bricks = last[f].bricks
  <2>1. f \in Diff(anchored, last) <=>
           last[f].there /\ (~anchored[f].there \/ anchored[f].bricks # last[f].bricks)
    BY DEF Diff
  <2>2. anchored[f].there \in BOOLEAN
    BY DEF BrickMap, Node
  <2> QED
    BY <2>1, <2>2
<1>3. f \in Diff(base, last) =>
           last[f].there /\ (~base[f].there \/ base[f].bricks # last[f].bricks)
  BY DEF Diff
<1>4. last[f].bricks = <<>> => ~last[f].there \/ last[f].deleted
  BY DEF Sound
<1> HIDE DEF last
<1>5. CASE anchored[f] = base[f]
  BY <1>2, <1>3, <1>5 DEF last
<1>6. CASE anchored[f].deleted /\ anchored[f].bricks = <<>>
  BY <1>2, <1>3, <1>4, <1>6 DEF last
<1>7. CASE \E b \in ToSet(anchored[f].bricks) : b # 0 /\ b \notin AnchoredBricks(h)
  BY <1>1, <1>2, <1>3, <1>7 DEF last
<1> QED
  BY <1>5, <1>6, <1>7 DEF Changed
-----------------------------------------------------------------------------
(* What the steps of a client leave of it *)

\* A client with no process under way.
LEMMA RestsOn ==
    ASSUME NEW c, NEW k, NEW q, NEW h, BuiltOn(c, k, h),
           q.anchored = k.anchored, q.from = k.from, ~UnderWay(q), q.pc # "compact"
    PROVE  BuiltOn(c, q, h)
<1>1. Told(c, q, h) = Told(c, k, h)
  BY DEF Told
<1>2. q.pc # "stored"
  BY DEF UnderWay
<1> QED
  BY <1>1, <1>2 DEF BuiltOn

LEMMA FailedRests ==
    ASSUME NEW c, NEW k \in Client, NEW h, BuiltOn(c, k, h)
    PROVE  /\ BuiltOn(c, Failed(k), h) /\ BuiltOn(c, Failed(RolledBack(k)), h)
           /\ Holds(Failed(k)) \subseteq Holds(k)
           /\ Holds(Failed(RolledBack(k))) \subseteq Holds(k)
<1> DEFINE r == RolledBack(k)
<1>1. r \in Client /\ r.anchored = k.anchored /\ r.from = k.from
  BY RolledBackFields
<1> HIDE DEF r
<1>2. ASSUME NEW q \in Client, q.anchored = k.anchored, q.from = k.from
      PROVE  BuiltOn(c, Failed(q), h)
  <2> DEFINE e == Failed(q)
  <2>1. EndChanges(e, q)
    BY FailedFields
  <2> HIDE DEF e
  <2>2. ~UnderWay(e) /\ e.pc # "compact" /\ e.anchored = k.anchored /\ e.from = k.from
    BY <1>2, <2>1 DEF EndChanges, UnderWay
  <2>3. BuiltOn(c, e, h)
    BY <2>2, RestsOn
  <2> QED
    BY <2>3 DEF e
<1>3. BuiltOn(c, Failed(k), h) /\ BuiltOn(c, Failed(r), h)
  BY <1>1, <1>2
<1> QED
  BY <1>3, DropsHolds DEF r

LEMMA ConflictRests ==
    ASSUME NEW c, NEW k \in Client, NEW h, BuiltOn(c, k, h)
    PROVE  /\ BuiltOn(c, [RolledBack(k) EXCEPT !.pc = "conflict"], h)
           /\ Holds([RolledBack(k) EXCEPT !.pc = "conflict"]) \subseteq Holds(k)
<1> DEFINE r == RolledBack(k)
           q == [r EXCEPT !.pc = "conflict"]
<1>1. r \in Client /\ r.anchored = k.anchored /\ r.from = k.from
  BY RolledBackFields
<1> HIDE DEF r
<1>2. q.pc = "conflict" /\ q.anchored = k.anchored /\ q.from = k.from
  BY <1>1 DEF Client
<1> HIDE DEF q
<1>3. BuiltOn(c, q, h)
  BY <1>2, RestsOn DEF UnderWay
<1> QED
  BY <1>3, DropsHolds DEF q, r

LEMMA AbandonedRests ==
    ASSUME NEW c, NEW k \in Client, NEW h, BuiltOn(c, k, h)
    PROVE  /\ BuiltOn(c, Abandoned(k), h) /\ Holds(Abandoned(k)) \subseteq Holds(k)
           /\ BuiltOn(c, Abandoned([k EXCEPT !.inAnch = <<>>]), h)
           /\ Holds(Abandoned([k EXCEPT !.inAnch = <<>>])) \subseteq Holds(k)
<1>1. ASSUME NEW q \in Client, q.anchored = k.anchored, q.from = k.from
      PROVE  BuiltOn(c, Abandoned(q), h)
  <2> DEFINE e == Failed(q)
             a == [e EXCEPT !.pc = "abandoned", !.merged = <<>>]
  <2>1. EndChanges(e, q)
    BY FailedFields
  <2>2. Abandoned(q) = a
    BY DEF Abandoned
  <2> HIDE DEF e
  <2>3. a.pc = "abandoned" /\ a.anchored = e.anchored /\ a.from = e.from
    BY <2>1 DEF EndChanges, Client
  <2> HIDE DEF a
  <2>4. ~UnderWay(a) /\ a.pc # "compact" /\ a.anchored = k.anchored /\ a.from = k.from
    BY <1>1, <2>1, <2>3 DEF EndChanges, UnderWay
  <2>5. BuiltOn(c, a, h)
    BY <2>4, RestsOn
  <2> QED
    BY <2>2, <2>5
<1> DEFINE q == [k EXCEPT !.inAnch = <<>>]
<1>2. q \in Client /\ q.anchored = k.anchored /\ q.from = k.from
  BY EmptyDiff DEF Client, Operations
<1> HIDE DEF q
<1>3. BuiltOn(c, Abandoned(q), h) /\ BuiltOn(c, Abandoned(k), h)
  BY <1>1, <1>2
<1> QED
  BY <1>3, DropsHolds DEF q

LEMMA AskedBuiltOn ==
    ASSUME NEW c, NEW k \in Client, NEW h, BuiltOn(c, k, h),
           k.pc = "idle" /\ AnchoringAsked(k).pc # "idle" => k.from = k.cur
    PROVE  /\ BuiltOn(c, AnchoringAsked(k), h)
           /\ Holds(AnchoringAsked(k)) = Holds(k)
<1>1. CASE k.pc # "idle"
  <2> DEFINE q == [k EXCEPT !.asked = TRUE]
  <2>1. AnchoringAsked(k) = q
    BY <1>1 DEF AnchoringAsked
  <2>2. /\ q.pc = k.pc /\ q.dirty = k.dirty /\ q.anchored = k.anchored /\ q.from = k.from
        /\ q.cur = k.cur /\ q.new = k.new /\ q.inAnch = k.inAnch /\ q.merged = k.merged
        /\ q.flight = k.flight /\ q.saved = k.saved /\ q.alias = k.alias /\ q.sent = k.sent
    BY DEF Client
  <2> HIDE DEF q
  <2>3. Told(c, q, h) = Told(c, k, h) /\ UnderWay(q) = UnderWay(k)
    BY <2>2 DEF Told, UnderWay
  <2>4. BuiltOn(c, q, h)
    BY <2>2, <2>3 DEF BuiltOn
  <2>5. Holds(q) = Holds(k)
    BY <2>2 DEF Holds
  <2> QED
    BY <2>1, <2>4, <2>5
<1>2. CASE k.pc = "idle" /\ ~HasPending(k)
  BY <1>2 DEF AnchoringAsked
<1>3. CASE k.pc = "idle" /\ HasPending(k)
  <2> DEFINE p == Prepared(k)
             q == [p EXCEPT !.pc = "compact", !.asked = FALSE]
  <2>1. AnchoringAsked(k) = q
    BY <1>3 DEF AnchoringAsked
  <2>2. /\ p \in Client /\ p.anchored = k.anchored /\ p.from = k.from /\ p.cur = k.cur
        /\ Holds(p) = Holds(k)
    BY PreparedFields, PreparedHolds
  <2> HIDE DEF p
  <2>3. /\ q.pc = "compact" /\ q.dirty = p.dirty /\ q.anchored = p.anchored /\ q.from = p.from
        /\ q.cur = p.cur /\ q.new = p.new /\ q.inAnch = p.inAnch /\ q.merged = p.merged
        /\ q.flight = p.flight /\ q.saved = p.saved /\ q.sent = p.sent
    BY <2>2 DEF Client
  <2>4. k.from = k.cur
    BY <1>3, <2>1, <2>3
  <2> HIDE DEF q
  <2>5. Told(c, q, h) = Told(c, k, h) /\ ~UnderWay(q) /\ q.pc # "stored"
    BY <2>2, <2>3 DEF Told, UnderWay
  <2>6. BuiltOn(c, q, h)
    BY <2>2, <2>3, <2>4, <2>5 DEF BuiltOn
  <2>7. Holds(q) = Holds(k)
    BY <2>2, <2>3 DEF Holds
  <2> QED
    BY <2>1, <2>6, <2>7
<1> QED
  BY <1>1, <1>2, <1>3

LEMMA WrittenBuiltOn ==
    ASSUME NEW c, NEW k, NEW h, ClientInv(c, k, h), BuiltOn(c, k, h),
           NEW ops, NEW f \in Files, NEW brick \in 0..MaxWrites, IsWrite(ops, f, brick),
           brick # 0 => brick \notin AnchoredBricks(h) \cup Holds(k)
    PROVE  /\ BuiltOn(c, Written(k, ops, f, brick), h)
           /\ Holds(Written(k, ops, f, brick)) \subseteq Holds(k) \cup {0, brick}
<1> DEFINE w == Written(k, ops, f, brick)
<1>1. k \in Client /\ InOrder(c, k, h) /\ ops \in Operations /\ Bricks(ops) \subseteq {0, brick}
  BY DEF ClientInv, IsWrite
<1>2. /\ k.dirty \in BrickMap /\ k.anchored \in BrickMap /\ k.flight \in BrickMap
      /\ k.new \in Operations
  BY <1>1, ClientFields
<1>3. WriteChanges(w, k, ops, f, brick)
  BY <1>1, WrittenFields
<1> HIDE DEF w
<1>4. /\ w.dirty = Replay(k.dirty, ops)
      /\ w.flight = k.flight \/ w.flight = Replay(k.flight, ops)
      /\ w.anchored = k.anchored \/ w.anchored = Replay(k.anchored, ops)
      /\ w.new = k.new \o ops /\ w.pc = k.pc /\ w.from = k.from /\ w.cur = k.cur
      /\ w.inAnch = k.inAnch /\ w.merged = k.merged /\ w.saved = k.saved
      /\ w.alias = k.alias /\ w.sent = k.sent
  BY <1>1, <1>3 DEF WriteChanges, InOrder
<1>5. Told(c, w, h) = Told(c, k, h) /\ UnderWay(w) = UnderWay(k)
  BY <1>4 DEF Told, UnderWay
<1>6. Covers(MapAt(h, w.from), w.anchored)
  <2>1. Covers(MapAt(h, k.from), k.anchored)
    BY DEF BuiltOn
  <2> QED
    BY <1>1, <1>2, <1>4, <2>1, CoversReplay
<1>7. UnderWay(w) => Covers(w.saved, w.flight)
  <2>1. UnderWay(k) => Covers(k.saved, k.flight)
    BY DEF BuiltOn
  <2> QED
    BY <1>1, <1>2, <1>4, <1>5, <2>1, CoversReplay
<1>8. UnderWay(w) => Changed(w.saved, w.flight, AnchoredBricks(h) \cup MapBricks(w.saved))
  <2> DEFINE known == AnchoredBricks(h) \cup MapBricks(k.saved)
  <2>1. UnderWay(k) => Changed(k.saved, k.flight, known)
    BY DEF BuiltOn
  <2>2. brick # 0 => brick \notin known
    BY DEF Holds
  <2> HIDE DEF known
  <2>3. UnderWay(k) => Changed(k.saved, Replay(k.flight, ops), known)
    BY <1>2, <2>1, <2>2, ChangedByWrite
  <2> QED
    BY <1>4, <1>5, <2>1, <2>3 DEF known
<1>9. Told(c, w, h) => Changed(MapAt(h, w.from), w.anchored, AnchoredBricks(h))
  <2>1. Told(c, k, h) => Changed(MapAt(h, k.from), k.anchored, AnchoredBricks(h))
    BY DEF BuiltOn
  <2>2. Told(c, k, h) => Changed(MapAt(h, k.from), Replay(k.anchored, ops), AnchoredBricks(h))
    BY <1>2, <2>1, ChangedByWrite
  <2> QED
    BY <1>4, <1>5, <2>1, <2>2
<1>10. BuiltOn(c, w, h)
  BY <1>4, <1>5, <1>6, <1>7, <1>8, <1>9 DEF BuiltOn
<1> QED
  BY <1>10, WrittenHolds DEF w

LEMMA CompactBuiltOn ==
    ASSUME NEW c, NEW k, NEW h, ClientInv(c, k, h), BuiltOn(c, k, h), k.pc = "compact"
    PROVE  BuiltOn(c, Compacted(k), h) /\ Holds(Compacted(k)) \subseteq Holds(k)
<1> DEFINE map == Replay(k.anchored, k.inAnch)
           q == Compacted(k)
<1>1. k \in Client /\ InOrder(c, k, h)
  BY DEF ClientInv
<1>2. k.inAnch \in Operations /\ k.anchored \in BrickMap
  BY <1>1, ClientFields
<1>3. k.alias # "flight" /\ k.from = k.cur /\ Covers(MapAt(h, k.from), k.anchored)
  BY <1>1 DEF InOrder, UnderWay, BuiltOn
<1>4. Covers(MapAt(h, k.from), map)
  BY <1>2, <1>3, CoversReplay
<1>5. /\ q.pc = "save" /\ q.flight = map /\ q.saved = map /\ q.anchored = k.anchored
      /\ q.from = k.from /\ q.cur = k.cur /\ q.alias = k.alias
      /\ Holds(q) \subseteq Holds(k)
  BY <1>1, CompactedFields
<1> HIDE DEF q, map
<1>6. Told(c, q, h) = Told(c, k, h)
  BY <1>5 DEF Told
<1>7. Covers(q.saved, q.flight)
      /\ Changed(q.saved, q.flight, AnchoredBricks(h) \cup MapBricks(q.saved))
  BY <1>5, UnchangedIs
<1>8. Told(c, q, h) => Changed(MapAt(h, q.from), q.anchored, AnchoredBricks(h))
  BY <1>5, <1>6 DEF BuiltOn
<1>9. BuiltOn(c, q, h)
  BY <1>3, <1>4, <1>5, <1>7, <1>8 DEF BuiltOn
<1> QED
  BY <1>5, <1>9 DEF q

\* Only pc changes, within a process whose answer is still to come.
LEMMA NextStepBuiltOn ==
    ASSUME NEW c, NEW k \in Client, NEW h, BuiltOn(c, k, h), UnderWay(k),
           NEW pc \in {"getLast", "store"}
    PROVE  /\ BuiltOn(c, [k EXCEPT !.pc = pc], h)
           /\ Holds([k EXCEPT !.pc = pc]) = Holds(k)
<1> DEFINE q == [k EXCEPT !.pc = pc]
<1>1. /\ q.pc = pc /\ q.dirty = k.dirty /\ q.anchored = k.anchored
      /\ q.from = k.from /\ q.new = k.new /\ q.cur = k.cur
      /\ q.inAnch = k.inAnch /\ q.merged = k.merged /\ q.flight = k.flight
      /\ q.saved = k.saved /\ q.alias = k.alias /\ q.sent = k.sent
  BY DEF Client
<1> HIDE DEF q
<1>2. Told(c, q, h) = Told(c, k, h)
  BY <1>1 DEF Told
<1>3. BuiltOn(c, q, h)
  BY <1>1, <1>2 DEF BuiltOn
<1>4. Holds(q) = Holds(k)
  BY <1>1 DEF Holds
<1> QED
  BY <1>3, <1>4 DEF q

\* The merge keeps the files of the version it merged into, and reports what its own
\* operations would have overwritten.
LEMMA MergedBuiltOn ==
    ASSUME NEW c, NEW k, NEW h \in Seq(Version), \A i \in 1..Len(h) : Sound(h[i].map),
           ClientInv(c, k, h), BuiltOn(c, k, h), k.pc = "conflict", k.new = <<>>,
           h # <<>>, k.cur = Len(h), ~MergeConflictsHandled(k, h[Len(h)].map),
           NEW result,
           result = IF k.inAnch = <<>> THEN h[Len(h)].map
                    ELSE Merge(h[Len(h)].map, Replay(k.anchored, k.inAnch))
    PROVE  /\ BuiltOn(c, MergedInto(k, result), h)
           /\ Holds(MergedInto(k, result)) \subseteq Holds(k) \cup AnchoredBricks(h)
<1> DEFINE q == MergedInto(k, result)
           theirs == h[Len(h)].map
           ours == Replay(k.anchored, k.inAnch)
<1>1. k \in Client /\ InOrder(c, k, h)
  BY DEF ClientInv
<1>2. k.inAnch \in Operations /\ k.anchored \in BrickMap /\ ours \in BrickMap
  BY <1>1, ClientFields, ReplayType
<1>3. theirs \in BrickMap /\ Sound(theirs) /\ Len(h) \in 1..Len(h) /\ Len(h) # 0
  BY VersionFields
<1>4. MapAt(h, k.cur) = theirs /\ k.cur # 0
  BY <1>3 DEF MapAt
<1>5. MapBricks(theirs) \subseteq AnchoredBricks(h)
  BY <1>3 DEF AnchoredBricks
<1>6. /\ Covers(theirs, result)
      /\ MapBricks(result) \subseteq Holds(k) \cup AnchoredBricks(h)
  <2>1. CASE k.inAnch = <<>>
    BY <1>5, <2>1, UnchangedIs
  <2>2. CASE k.inAnch # <<>>
    <3>1. result = Merge(theirs, ours)
      BY <2>2
    <3>2. MapBricks(ours) \subseteq Holds(k)
      BY <1>2, BricksOfMaps DEF Holds
    <3> HIDE DEF ours, theirs
    <3>3. /\ Covers(theirs, Merge(theirs, ours))
          /\ MapBricks(Merge(theirs, ours)) \subseteq MapBricks(theirs) \cup MapBricks(ours)
      BY <1>2, <1>3, CoversMerge, BricksOfMaps
    <3> QED
      BY <1>5, <3>1, <3>2, <3>3
  <2> QED
    BY <2>1, <2>2
<1>7. /\ q.pc = "save" /\ q.inAnch = <<>> /\ q.merged = <<>> /\ q.new = <<>>
      /\ q.dirty = result /\ q.flight = result /\ q.saved = result /\ q.alias = "flight"
      /\ q.anchored = k.anchored /\ q.from = k.from /\ q.cur = k.cur /\ q.sent = k.inAnch
  BY <1>1 DEF MergedInto, Client
<1> HIDE DEF q
<1>8. Told(c, q, h) = Told(c, k, h)
  BY <1>7 DEF Told
<1>9. /\ Covers(q.saved, q.flight) /\ Covers(MapAt(h, q.cur), q.saved)
      /\ Changed(q.saved, q.flight, AnchoredBricks(h) \cup MapBricks(q.saved))
  BY <1>4, <1>6, <1>7, UnchangedIs
<1>10. Covers(MapAt(h, q.from), q.anchored)
       /\ (Told(c, q, h) => Changed(MapAt(h, q.from), q.anchored, AnchoredBricks(h)))
  BY <1>7, <1>8 DEF BuiltOn
<1>11. Told(c, q, h) => Unreported(k.inAnch, MapAt(h, k.from), theirs)
  <2> SUFFICES ASSUME Told(c, q, h), NEW n \in DOMAIN k.inAnch, k.inAnch[n].op # "append"
               PROVE  \/ theirs[k.inAnch[n].file].deleted
                      \/ k.inAnch[n].file \notin Diff(MapAt(h, k.from), theirs)
    BY DEF Unreported
  <2> DEFINE o == k.inAnch[n]
             base == MapAt(h, k.from)
  <2>1. o \in Operation /\ o.file \in Files /\ n \in 1..Len(k.inAnch)
    BY <1>2, OperationOf
  <2>2. o.op \in {"add", "truncate", "delete"}
    BY <2>1 DEF Operation, AllKinds
  <2>3. o.file \notin Diff(k.anchored, theirs) \/ theirs[o.file].deleted
    BY <2>1, <2>2 DEF MergeConflictsHandled, Conflicts
  <2>4. base \in BrickMap
    <3>1. k.from \in Nat /\ k.from <= Len(h)
      BY <1>1, ClientFields DEF InOrder
    <3>2. k.from # 0 => k.from \in 1..Len(h)
      BY <3>1, LenProperties
    <3> QED
      BY <3>2, VersionFields, EmptyMapIs DEF MapAt
  <2>5. Changed(base, k.anchored, AnchoredBricks(h))
    BY <1>8 DEF BuiltOn
  <2> HIDE DEF o, base
  <2>6. theirs[o.file].deleted \/ o.file \notin Diff(base, theirs)
    BY <1>2, <1>3, <2>1, <2>3, <2>4, <2>5, ConflictIsFound
  <2> QED
    BY <2>6 DEF o, base
<1>12. Told(c, q, h) => q.cur # 0 /\ Unreported(q.sent, MapAt(h, q.from), h[q.cur].map)
  BY <1>4, <1>7, <1>11
<1>13. BuiltOn(c, q, h)
  BY <1>7, <1>9, <1>10, <1>12 DEF BuiltOn
<1>14. Holds(q) \subseteq Holds(k) \cup AnchoredBricks(h)
  BY <1>6, <1>7, BricksOfMaps DEF Holds
<1> QED
  BY <1>13, <1>14 DEF q

\* The process is told that its brick map is version v.
LEMMA AnchoredBuiltOn ==
    ASSUME NEW c, NEW k \in Client, NEW h \in Seq(Version), BuiltOn(c, k, h), k.pc = "stored",
           NEW v \in 1..Len(h), h[v].by = c, \A j \in (v + 1)..Len(h) : h[j].by # c
    PROVE  /\ BuiltOn(c, Anchored(k, v), h)
           /\ Holds(Anchored(k, v)) \subseteq Holds(k)
<1> DEFINE e == Anchored(k, v)
<1>0. Len(h) \in Nat
  BY LenProperties
<1>1. PICK i \in 1..Len(h) : /\ h[i].by = c /\ h[i].map = k.saved
                             /\ \A j \in (i + 1)..Len(h) : h[j].by # c
  BY DEF BuiltOn
<1>2. i = v
  <2>1. ~(i < v)
    <3>1. i < v => v \in (i + 1)..Len(h)
      BY <1>0
    <3> QED
      BY <1>1, <3>1
  <2>2. ~(v < i)
    <3>1. v < i => i \in (v + 1)..Len(h)
      BY <1>0
    <3> QED
      BY <1>1, <3>1
  <2> QED
    BY <1>0, <2>1, <2>2
<1>3. MapAt(h, v) = k.saved
  BY <1>0, <1>1, <1>2 DEF MapAt
<1>4. v \in Nat
  BY <1>0
<1>5. /\ e.pc = "idle" /\ e.flight = EmptyMap /\ e.saved = EmptyMap /\ e.sent = <<>>
      /\ e.dirty = k.dirty /\ e.anchored = k.flight /\ e.from = v /\ e.cur = v
      /\ e.new = k.new /\ e.inAnch = k.inAnch /\ e.merged = <<>>
  BY <1>4, AnchoredFields
<1> HIDE DEF e
<1>6. ~UnderWay(e) /\ UnderWay(k)
  BY <1>5 DEF UnderWay
<1>7. Covers(k.saved, k.flight)
      /\ Changed(k.saved, k.flight, AnchoredBricks(h) \cup MapBricks(k.saved))
  BY <1>6 DEF BuiltOn
<1>8. Changed(k.saved, k.flight, AnchoredBricks(h))
  <2>1. AnchoredBricks(h) \subseteq AnchoredBricks(h) \cup MapBricks(k.saved)
    OBVIOUS
  <2> QED
    BY <1>7, <2>1, UnchangedIs
<1>9. BuiltOn(c, e, h)
  BY <1>3, <1>5, <1>6, <1>7, <1>8 DEF BuiltOn
<1> QED
  BY <1>4, <1>9, AnchoredHolds DEF e

LEMMA OpenedBuiltOn ==
    ASSUME NEW c, NEW h, NEW v
    PROVE  /\ BuiltOn(c, Opened(v, MapAt(h, v)), h)
           /\ Holds(Opened(v, MapAt(h, v))) = MapBricks(MapAt(h, v))
<1> DEFINE map == MapAt(h, v)
           k == Opened(v, map)
<1>1. /\ k.pc = "idle" /\ k.dirty = map /\ k.anchored = map /\ k.from = v
      /\ k.new = <<>> /\ k.inAnch = <<>> /\ k.merged = <<>> /\ k.sent = <<>>
      /\ k.flight = EmptyMap /\ k.saved = EmptyMap
  BY DEF Opened
<1>2. MapAt(h, k.from) = map
  BY <1>1
<1> HIDE DEF k, map
<1>3. ~UnderWay(k)
  BY <1>1 DEF UnderWay
<1>4. BuiltOn(c, k, h)
  BY <1>1, <1>2, <1>3, UnchangedIs DEF BuiltOn
<1>5. Holds(k) = MapBricks(map)
  BY <1>1, BricksOfMaps DEF Holds
<1> QED
  BY <1>4, <1>5 DEF k, map
-----------------------------------------------------------------------------
(* What a new version leaves of it *)

\* Another client puts a version without bricks that only this one has.
LEMMA OthersVersion ==
    ASSUME NEW c, NEW k, NEW h \in Seq(Version), NEW v \in Version,
           ClientInv(c, k, h), BuiltOn(c, k, h), v.by # c,
           Holds(k) \cap MapBricks(v.map) \subseteq AnchoredBricks(h) \cup {0}
    PROVE  BuiltOn(c, k, Append(h, v))
<1> DEFINE g == Append(h, v)
           new == MapBricks(v.map)
<1>1. /\ g \in Seq(Version) /\ Len(g) = Len(h) + 1 /\ Len(h) \in Nat
      /\ g[Len(h) + 1] = v /\ \A i \in 1..Len(h) : g[i] = h[i]
      /\ \A i \in 1..Len(g) : i \in 1..Len(h) \/ i = Len(h) + 1
      /\ AnchoredBricks(g) = AnchoredBricks(h) \cup new
      /\ \A i \in Nat : i <= Len(h) => MapAt(g, i) = MapAt(h, i)
  BY GrownHistory
<1>2. k.from \in Nat /\ k.from <= Len(h) /\ k.cur \in Nat /\ k.cur <= Len(h)
  BY ClientFields DEF ClientInv, InOrder
<1> HIDE DEF g, new
<1>3. MapAt(g, k.from) = MapAt(h, k.from) /\ MapAt(g, k.cur) = MapAt(h, k.cur)
  BY <1>1, <1>2
<1>4. k.cur # 0 => g[k.cur] = h[k.cur]
  <2>1. k.cur # 0 => k.cur \in 1..Len(h)
    BY <1>1, <1>2
  <2> QED
    BY <1>1, <2>1
<1>5. Told(c, k, g) => Told(c, k, h)
  <2>1. \A j \in 1..Len(h) : j \in 1..Len(g)
    BY <1>1
  <2> QED
    BY <1>1, <2>1 DEF Told
<1>6. k.pc = "stored" =>
          \E i \in 1..Len(g) : /\ g[i].by = c /\ g[i].map = k.saved
                               /\ \A j \in (i + 1)..Len(g) : g[j].by # c
  <2> SUFFICES ASSUME k.pc = "stored"
               PROVE  \E i \in 1..Len(g) : /\ g[i].by = c /\ g[i].map = k.saved
                                           /\ \A j \in (i + 1)..Len(g) : g[j].by # c
    OBVIOUS
  <2>1. PICK i \in 1..Len(h) : /\ h[i].by = c /\ h[i].map = k.saved
                               /\ \A j \in (i + 1)..Len(h) : h[j].by # c
    BY DEF BuiltOn
  <2>2. i \in 1..Len(g) /\ g[i] = h[i]
    BY <1>1
  <2>3. ASSUME NEW j \in (i + 1)..Len(g) PROVE g[j].by # c
    <3>1. CASE j = Len(h) + 1
      BY <1>1, <3>1
    <3>2. CASE j # Len(h) + 1
      <4>1. j \in 1..Len(h) /\ j \in (i + 1)..Len(h)
        BY <1>1, <3>2
      <4> QED
        BY <1>1, <2>1, <4>1
    <3> QED
      BY <3>1, <3>2
  <2> QED
    BY <2>1, <2>2, <2>3
<1>7. MapBricks(k.anchored) \subseteq Holds(k) /\ MapBricks(k.flight) \subseteq Holds(k)
  BY DEF Holds
<1>8. Told(c, k, g) => Changed(MapAt(h, k.from), k.anchored, AnchoredBricks(g))
  <2>1. \A b \in MapBricks(k.anchored) : b \in new => b \in AnchoredBricks(h) \cup {0}
    BY <1>7 DEF new
  <2>2. Told(c, k, g) => Changed(MapAt(h, k.from), k.anchored, AnchoredBricks(h))
    BY <1>5 DEF BuiltOn
  <2> DEFINE base == MapAt(h, k.from)
             known == AnchoredBricks(h)
  <2> HIDE DEF base, known
  <2>3. Told(c, k, g) => Changed(base, k.anchored, known \cup new)
    BY <2>1, <2>2, StillChanged DEF base, known
  <2> QED
    BY <1>1, <2>3 DEF base, known
<1>9. UnderWay(k) => Changed(k.saved, k.flight, AnchoredBricks(g) \cup MapBricks(k.saved))
  <2> DEFINE known == AnchoredBricks(h) \cup MapBricks(k.saved)
  <2>1. \A b \in MapBricks(k.flight) : b \in new => b \in known \cup {0}
    BY <1>7 DEF new
  <2>2. UnderWay(k) => Changed(k.saved, k.flight, known)
    BY DEF BuiltOn
  <2>3. known \cup new = AnchoredBricks(g) \cup MapBricks(k.saved)
    BY <1>1
  <2> HIDE DEF known
  <2>4. UnderWay(k) => Changed(k.saved, k.flight, known \cup new)
    BY <2>1, <2>2, StillChanged
  <2> QED
    BY <2>3, <2>4
<1>10. BuiltOn(c, k, g)
  BY <1>3, <1>4, <1>5, <1>6, <1>8, <1>9 DEF BuiltOn
<1> QED
  BY <1>10 DEF g

\* The client puts a version, and is told so or not.
LEMMA OwnVersion ==
    ASSUME NEW c, NEW k, NEW h \in Seq(Version), NEW v \in Version,
           ClientInv(c, k, h), BuiltOn(c, k, h), UnderWay(k), v.by = c, v.map = k.saved
    PROVE  /\ BuiltOn(c, [k EXCEPT !.pc = "stored"], Append(h, v))
           /\ BuiltOn(c, Failed(RolledBack(k)), Append(h, v))
<1> DEFINE g == Append(h, v)
           q == [k EXCEPT !.pc = "stored"]
           e == Failed(RolledBack(k))
<1>1. /\ g \in Seq(Version) /\ Len(g) = Len(h) + 1 /\ Len(h) \in Nat
      /\ g[Len(h) + 1] = v
      /\ AnchoredBricks(g) = AnchoredBricks(h) \cup MapBricks(v.map)
      /\ \A i \in Nat : i <= Len(h) => MapAt(g, i) = MapAt(h, i)
  BY GrownHistory
<1>2. k \in Client /\ k.from \in Nat /\ k.from <= Len(h) /\ k.cur \in Nat /\ k.cur <= Len(h)
  BY ClientFields DEF ClientInv, InOrder
<1> HIDE DEF g
<1>3. MapAt(g, k.from) = MapAt(h, k.from) /\ MapAt(g, k.cur) = MapAt(h, k.cur)
  BY <1>1, <1>2
<1>4. ASSUME NEW p, p.from = k.from PROVE ~Told(c, p, g)
  <2>1. Len(h) + 1 \in 1..Len(g) /\ Len(h) + 1 > k.from
    BY <1>1, <1>2
  <2> QED
    BY <1>1, <1>4, <2>1 DEF Told
<1>5. BuiltOn(c, q, g)
  <2>1. /\ q.pc = "stored" /\ q.anchored = k.anchored /\ q.from = k.from /\ q.cur = k.cur
        /\ q.flight = k.flight /\ q.saved = k.saved /\ q.alias = k.alias
    BY <1>2 DEF Client
  <2> HIDE DEF q
  <2>2. ~Told(c, q, g) /\ UnderWay(q)
    BY <1>4, <2>1 DEF UnderWay
  <2>3. AnchoredBricks(g) \cup MapBricks(q.saved) = AnchoredBricks(h) \cup MapBricks(k.saved)
    BY <1>1, <2>1
  <2>4. \E i \in 1..Len(g) : /\ g[i].by = c /\ g[i].map = q.saved
                             /\ \A j \in (i + 1)..Len(g) : g[j].by # c
    <3>1. Len(h) + 1 \in 1..Len(g) /\ ((Len(h) + 1) + 1)..Len(g) = {}
      BY <1>1
    <3> QED
      BY <1>1, <2>1, <3>1
  <2> QED
    BY <1>3, <2>1, <2>2, <2>3, <2>4 DEF BuiltOn
<1>6. BuiltOn(c, e, g)
  <2> DEFINE r == RolledBack(k)
  <2>1. r \in Client /\ r.anchored = k.anchored /\ r.from = k.from
    BY <1>2, RolledBackFields
  <2> HIDE DEF r
  <2>2. EndChanges(e, r)
    BY <2>1, FailedFields DEF r
  <2> HIDE DEF e
  <2>3. e.pc = "idle" /\ e.anchored = k.anchored /\ e.from = k.from
    BY <2>1, <2>2 DEF EndChanges
  <2>4. ~UnderWay(e) /\ ~Told(c, e, g)
    BY <1>4, <2>3 DEF UnderWay
  <2> QED
    BY <1>3, <2>3, <2>4 DEF BuiltOn
<1> QED
  BY <1>5, <1>6 DEF g, q, e
-----------------------------------------------------------------------------
(* The careful clients' invariant *)

\* Bricks that two clients hold are in the anchor's history.
Owned ==
    /\ \A c, d \in Clients : c # d =>
          Holds(client[c]) \cap Holds(client[d]) \subseteq AnchoredBricks(history) \cup {0}
    /\ \A c \in Clients : Holds(client[c]) \subseteq 0..writes
    /\ AnchoredBricks(history) \subseteq 0..writes

GoodHistory(h) ==
    /\ \A i \in 1..Len(h) : h[i].from < i
    /\ \A i, j \in 1..Len(h) : i <= j => Covers(h[i].map, h[j].map)
    /\ \A i \in 1..Len(h) :
          i # 1 /\ (\A j \in 1..Len(h) : h[i].from < j /\ j < i => h[j].by # h[i].by) =>
              Unreported(h[i].ops, MapAt(h, h[i].from), h[i - 1].map)

CarefulInv ==
    /\ IndInv
    /\ Owned
    /\ \A c \in Clients : BuiltOn(c, client[c], history)
    /\ GoodHistory(history)

LEMMA CarefulInvImplies ==
    CarefulInv => FilesNeverVanish /\ ConcurrentChangeIsReported
<1> SUFFICES ASSUME CarefulInv PROVE FilesNeverVanish /\ ConcurrentChangeIsReported
  OBVIOUS
<1>1. GoodHistory(history)
  BY DEF CarefulInv
<1>2. FilesNeverVanish
  BY <1>1 DEF GoodHistory, Covers, FilesNeverVanish, Versions, LastVersion
<1>3. ConcurrentChangeIsReported
  <2> SUFFICES ASSUME NEW i \in Versions \ {1},
                      \A j \in Versions :
                         history[i].from < j /\ j < i => history[j].by # history[i].by
               PROVE  \A n \in DOMAIN history[i].ops :
                         LET o == history[i].ops[n]
                             last == history[i - 1].map
                         IN  o.op # "append" =>
                                last[o.file].deleted \/ o.file \notin Diff(Base(history[i]), last)
    BY DEF ConcurrentChangeIsReported
  <2>1. Unreported(history[i].ops, MapAt(history, history[i].from), history[i - 1].map)
    BY <1>1 DEF GoodHistory, Versions, LastVersion
  <2>2. Base(history[i]) = MapAt(history, history[i].from)
    BY DEF Base, AnchoredMap, MapAt
  <2> QED
    BY <2>1, <2>2 DEF Unreported
<1> QED
  BY <1>2, <1>3

\* A client takes up nothing that others hold and is not anchored.
LEMMA StillOwned ==
    ASSUME CarefulInv, NEW c \in Clients, NEW k, SetClient(c, k), NEW new,
           Holds(k) \subseteq Holds(client[c]) \cup AnchoredBricks(history) \cup {0} \cup new,
           writes' \in Nat, writes <= writes', new \subseteq (writes + 1)..writes',
           AnchoredBricks(history) \subseteq AnchoredBricks(history'),
           AnchoredBricks(history') \subseteq AnchoredBricks(history) \cup Holds(client[c])
    PROVE  Owned'
<1>1. Owned /\ writes \in Nat /\ client \in [Clients -> Client]
  BY DEF CarefulInv, IndInv
<1>2. /\ client'[c] = k
      /\ \A d \in Clients : d # c => client'[d] = client[d]
  BY <1>1 DEF SetClient
<1> DEFINE A == AnchoredBricks(history)
           B == AnchoredBricks(history')
           mine == Holds(client[c])
           now == Holds(k)
<1>3. /\ now \subseteq mine \cup A \cup {0} \cup new
      /\ A \subseteq B /\ B \subseteq A \cup mine
      /\ mine \subseteq 0..writes /\ A \subseteq 0..writes
      /\ 0..writes \subseteq 0..writes' /\ new \subseteq 0..writes' /\ 0 \in 0..writes'
      /\ \A b \in new : b \notin 0..writes
  BY <1>1 DEF Owned
<1>4. ASSUME NEW d \in Clients, d # c PROVE now \cap Holds(client[d]) \subseteq B \cup {0}
  <2>1. mine \cap Holds(client[d]) \subseteq A \cup {0} /\ Holds(client[d]) \subseteq 0..writes
    BY <1>1, <1>4 DEF Owned
  <2> HIDE DEF A, B, mine, now
  <2> QED
    BY <1>3, <2>1
<1> HIDE DEF A, B, mine, now
<1>5. ASSUME NEW d \in Clients, NEW e \in Clients, d # e
      PROVE  Holds(client'[d]) \cap Holds(client'[e]) \subseteq B \cup {0}
  <2>1. CASE d = c
    BY <1>2, <1>4, <1>5, <2>1 DEF now
  <2>2. CASE e = c
    BY <1>2, <1>4, <1>5, <2>2 DEF now
  <2>3. CASE d # c /\ e # c
    <3>1. Holds(client[d]) \cap Holds(client[e]) \subseteq A \cup {0}
      BY <1>1, <1>5 DEF Owned, A
    <3> QED
      BY <1>2, <1>3, <2>3, <3>1
  <2> QED
    BY <2>1, <2>2, <2>3
<1>6. ASSUME NEW d \in Clients PROVE Holds(client'[d]) \subseteq 0..writes'
  <2>1. CASE d = c
    BY <1>2, <1>3, <2>1 DEF now
  <2>2. CASE d # c
    <3>1. Holds(client[d]) \subseteq 0..writes
      BY <1>1 DEF Owned
    <3> QED
      BY <1>2, <1>3, <2>2, <3>1
  <2> QED
    BY <2>1, <2>2
<1>7. B \subseteq 0..writes'
  BY <1>3
<1> QED
  BY <1>5, <1>6, <1>7 DEF Owned, B

\* A client takes a step that puts no version.
LEMMA CarefulStep ==
    ASSUME CarefulInv, IndInv', NEW c \in Clients, NEW k, SetClient(c, k),
           history' = history, BuiltOn(c, k, history), NEW new,
           Holds(k) \subseteq Holds(client[c]) \cup AnchoredBricks(history) \cup {0} \cup new,
           writes <= writes', new \subseteq (writes + 1)..writes'
    PROVE  CarefulInv'
<1>1. writes' \in Nat /\ client \in [Clients -> Client]
  BY BoundsAssumption DEF CarefulInv, IndInv
<1>2. Owned'
  BY <1>1, StillOwned
<1>3. ASSUME NEW d \in Clients PROVE BuiltOn(d, client'[d], history')
  BY <1>1 DEF SetClient, CarefulInv
<1>4. GoodHistory(history')
  BY DEF CarefulInv
<1> QED
  BY <1>2, <1>3, <1>4 DEF CarefulInv

\* A version built on the last one, with a merge or without.
LEMMA GoodVersion ==
    ASSUME NEW c, NEW k, NEW h \in Seq(Version), NEW v \in Version, GoodHistory(h),
           ClientInv(c, k, h), BuiltOn(c, k, h), UnderWay(k), k.cur = Len(h),
           v.map = k.saved, v.by = c, v.from = k.from, v.ops = k.sent
    PROVE  GoodHistory(Append(h, v))
<1> DEFINE g == Append(h, v)
           n == Len(h)
<1>1. /\ g \in Seq(Version) /\ Len(g) = n + 1 /\ n \in Nat
      /\ g[n + 1] = v /\ \A i \in 1..n : g[i] = h[i]
      /\ \A i \in 1..Len(g) : i \in 1..n \/ i = n + 1
      /\ \A i \in Nat : i <= n => MapAt(g, i) = MapAt(h, i)
  BY GrownHistory
<1>2. k.from \in Nat /\ k.from <= n /\ k \in Client /\ \A i \in 1..n : h[i].from \in Nat
  <2>1. k.from \in Nat /\ k.from <= n /\ k \in Client
    BY ClientFields DEF ClientInv, InOrder
  <2>2. \A i \in 1..n : h[i] \in Version
    BY ElementOfSeq
  <2>3. \A w \in Version : w.from \in Nat
    BY DEF Version
  <2> QED
    BY <2>1, <2>2, <2>3
<1>3. n # 0 => MapAt(h, n) = h[n].map /\ n \in 1..n /\ (n + 1) - 1 = n
  BY <1>1 DEF MapAt
<1>4. Covers(MapAt(h, n), k.saved)
  BY DEF BuiltOn
<1> HIDE DEF g, n
<1>5. \A i \in 1..Len(g) : g[i].from < i
  BY <1>1, <1>2 DEF GoodHistory, n
<1>6. ASSUME NEW i \in 1..Len(g), NEW j \in 1..Len(g), i <= j
      PROVE  Covers(g[i].map, g[j].map)
  <2>1. CASE j \in 1..n
    <3>1. i \in 1..n
      BY <1>1, <1>6, <2>1
    <3> QED
      BY <1>1, <1>6, <2>1, <3>1 DEF GoodHistory, n
  <2>2. CASE j = n + 1 /\ i = n + 1
    BY <2>2, UnchangedIs
  <2>3. CASE j = n + 1 /\ i \in 1..n
    <3>1. n # 0 /\ i <= n
      BY <1>1, <2>3
    <3>2. Covers(h[i].map, h[n].map)
      BY <1>3, <2>3, <3>1 DEF GoodHistory, n
    <3>3. Covers(h[n].map, v.map)
      BY <1>3, <1>4, <3>1
    <3>4. Covers(h[i].map, v.map)
      BY <3>2, <3>3 DEF Covers
    <3> QED
      BY <1>1, <2>3, <3>4
  <2> QED
    BY <1>1, <2>1, <2>2, <2>3
<1>7. ASSUME NEW i \in 1..Len(g), i # 1,
             \A j \in 1..Len(g) : g[i].from < j /\ j < i => g[j].by # g[i].by
      PROVE  Unreported(g[i].ops, MapAt(g, g[i].from), g[i - 1].map)
  <2>1. CASE i \in 1..n
    <3>1. i - 1 \in 1..n /\ g[i] = h[i] /\ g[i - 1] = h[i - 1]
      BY <1>1, <1>7, <2>1
    <3>2. h[i].from < i /\ h[i].from \in Nat
      BY <1>2, <2>1 DEF GoodHistory, n
    <3>3. MapAt(g, h[i].from) = MapAt(h, h[i].from)
      <4>1. h[i].from <= n
        BY <1>1, <2>1, <3>2
      <4> QED
        BY <1>1, <3>2, <4>1
    <3>4. ASSUME NEW j \in 1..n, h[i].from < j, j < i PROVE h[j].by # h[i].by
      <4>1. j \in 1..Len(g) /\ g[j] = h[j]
        BY <1>1
      <4> QED
        BY <1>7, <3>1, <3>4, <4>1
    <3>5. Unreported(h[i].ops, MapAt(h, h[i].from), h[i - 1].map)
      BY <1>7, <2>1, <3>4 DEF GoodHistory, n
    <3> QED
      BY <3>1, <3>3, <3>5
  <2>2. CASE i = n + 1
    <3>1. n # 0 /\ i - 1 = n /\ g[i] = v /\ g[i - 1] = h[n]
      BY <1>1, <1>3, <1>7, <2>2
    <3>2. Told(c, k, h)
      <4>1. ASSUME NEW j \in 1..n, j > k.from PROVE h[j].by # c
        <5>1. j \in 1..Len(g) /\ g[j] = h[j] /\ j < i /\ k.from < j
          BY <1>1, <1>2, <2>2, <4>1
        <5> QED
          BY <1>7, <3>1, <5>1
      <4> QED
        BY <4>1 DEF Told, n
    <3>3. MapAt(g, k.from) = MapAt(h, k.from)
      BY <1>1, <1>2
    <3>4. Unreported(k.sent, MapAt(h, k.from), h[n].map)
      <4>1. CASE k.alias = "flight"
        BY <3>2, <4>1 DEF BuiltOn, n
      <4>2. CASE k.alias # "flight"
        <5>1. k.from = n
          BY <4>2 DEF BuiltOn, n
        <5>2. MapAt(h, k.from) = h[n].map
          BY <1>3, <3>1, <5>1
        <5> QED
          BY <5>2 DEF Unreported, Diff
      <4> QED
        BY <4>1, <4>2
    <3> QED
      BY <3>1, <3>3, <3>4
  <2> QED
    BY <1>1, <2>1, <2>2
<1>8. GoodHistory(g)
  BY <1>5, <1>6, <1>7 DEF GoodHistory
<1> QED
  BY <1>8 DEF g

LEMMA CarefulStoreStep ==
    ASSUME CarefulInv, IndInv', NEW c \in Clients, At(c, "store"),
           client[c].cur = LastVersion, history' = Append(history, NewVersion(c)),
           writes' = writes,
           \/ SetClient(c, [client[c] EXCEPT !.pc = "stored"])
           \/ SetClient(c, Failed(RolledBack(client[c])))
    PROVE  CarefulInv'
<1> DEFINE k == client[c]
           v == NewVersion(c)
<1>1. /\ ClientInv(c, k, history) /\ BuiltOn(c, k, history) /\ k \in Client
      /\ history \in Seq(Version) /\ Owned /\ GoodHistory(history)
      /\ client \in [Clients -> Client] /\ writes \in Nat
  BY DEF CarefulInv, IndInv, ClientInv
<1>2. UnderWay(k) /\ k.cur = Len(history)
  BY DEF At, UnderWay, LastVersion
<1>3. /\ v \in Version /\ v.map = k.saved /\ v.by = c /\ v.from = k.from /\ v.ops = k.sent
  <2>1. k.saved \in BrickMap /\ k.from \in Nat /\ k.sent \in Seq(Operation)
    BY <1>1, ClientFields DEF Operations
  <2> QED
    BY <2>1 DEF NewVersion, Version
<1> HIDE DEF v
<1>4. GoodHistory(Append(history, v))
  BY <1>1, <1>2, <1>3, GoodVersion
<1>5. AnchoredBricks(Append(history, v)) = AnchoredBricks(history) \cup MapBricks(v.map)
  BY <1>1, <1>3, GrownHistory
<1>6. MapBricks(v.map) \subseteq Holds(k)
  BY <1>3 DEF Holds
<1>7. history' = Append(history, v)
  BY DEF v
<1>8. PICK q : SetClient(c, q) /\ BuiltOn(c, q, history') /\ Holds(q) \subseteq Holds(k)
  <2>1. CASE SetClient(c, [k EXCEPT !.pc = "stored"])
    <3> DEFINE q == [k EXCEPT !.pc = "stored"]
    <3>1. BuiltOn(c, q, Append(history, v))
      BY <1>1, <1>2, <1>3, OwnVersion
    <3>2. /\ q.dirty = k.dirty /\ q.anchored = k.anchored /\ q.flight = k.flight
          /\ q.saved = k.saved /\ q.new = k.new /\ q.inAnch = k.inAnch
          /\ q.merged = k.merged /\ q.sent = k.sent
      BY <1>1 DEF Client
    <3> HIDE DEF q
    <3>3. Holds(q) = Holds(k)
      BY <3>2 DEF Holds
    <3> QED
      BY <1>7, <2>1, <3>1, <3>3 DEF q
  <2>2. CASE SetClient(c, Failed(RolledBack(k)))
    <3>1. BuiltOn(c, Failed(RolledBack(k)), Append(history, v))
      BY <1>1, <1>2, <1>3, OwnVersion
    <3>2. Holds(Failed(RolledBack(k))) \subseteq Holds(k)
      BY <1>1, FailedRests
    <3> QED
      BY <1>7, <2>2, <3>1, <3>2
  <2> QED
    BY <2>1, <2>2
<1>9. Owned'
  <2>1. {} \subseteq (writes + 1)..writes' /\ writes <= writes' /\ writes' \in Nat
    BY <1>1
  <2>2. Holds(q) \subseteq Holds(k) \cup AnchoredBricks(history) \cup {0} \cup {}
    BY <1>8
  <2>3. /\ AnchoredBricks(history) \subseteq AnchoredBricks(history')
        /\ AnchoredBricks(history') \subseteq AnchoredBricks(history) \cup Holds(client[c])
    BY <1>5, <1>6, <1>7
  <2> QED
    BY <1>8, <2>1, <2>2, <2>3, StillOwned
<1>10. ASSUME NEW d \in Clients PROVE BuiltOn(d, client'[d], history')
  <2>1. CASE d = c
    BY <1>1, <1>8, <2>1 DEF SetClient
  <2>2. CASE d # c
    <3>1. client'[d] = client[d]
      BY <1>1, <1>8, <2>2 DEF SetClient
    <3>2. ClientInv(d, client[d], history) /\ BuiltOn(d, client[d], history)
      BY DEF CarefulInv, IndInv
    <3>3. Holds(client[d]) \cap MapBricks(v.map) \subseteq AnchoredBricks(history) \cup {0}
      <4>1. Holds(client[d]) \cap Holds(k) \subseteq AnchoredBricks(history) \cup {0}
        BY <1>1, <2>2 DEF Owned
      <4> QED
        BY <1>6, <4>1
    <3>4. v.by # d
      BY <1>3, <2>2
    <3>5. BuiltOn(d, client[d], Append(history, v))
      BY <1>1, <1>3, <3>2, <3>3, <3>4, OthersVersion
    <3> QED
      BY <1>7, <3>1, <3>5
  <2> QED
    BY <2>1, <2>2
<1> QED
  BY <1>4, <1>7, <1>9, <1>10 DEF CarefulInv
-----------------------------------------------------------------------------
(* The careful clients' actions keep it *)

LEMMA CarefulInit == Init => CarefulInv
<1> SUFFICES ASSUME Init PROVE CarefulInv
  OBVIOUS
<1>1. IndInv
  BY InitInv
<1>5. \A i \in 1..Len(history) : i = 1 /\ history[i].from = 0
  BY InitBricks
<1>6. AnchoredBricks(history) \subseteq {0}
  BY InitBricks
<1>8. PICK n : \A d \in Clients : client[d] = Opened(n, MapAt(history, n))
                                  /\ MapBricks(MapAt(history, n)) \subseteq {0}
  BY InitBricks
<1>9. \A d \in Clients : BuiltOn(d, client[d], history) /\ Holds(client[d]) \subseteq {0}
  BY <1>8, OpenedBuiltOn
<1>10. Owned
  <2>1. 0..writes = {0}
    BY DEF Init
  <2> QED
    BY <1>6, <1>9, <2>1 DEF Owned
<1>11. GoodHistory(history)
  <2>1. \A i \in 1..Len(history) : history[i].from < i
    BY <1>5
  <2>2. \A i, j \in 1..Len(history) : i <= j => Covers(history[i].map, history[j].map)
    BY <1>5, UnchangedIs
  <2>3. \A i \in 1..Len(history) : i = 1
    BY <1>5
  <2> QED
    BY <2>1, <2>2, <2>3 DEF GoodHistory
<1> QED
  BY <1>1, <1>9, <1>10, <1>11 DEF CarefulInv

\* What is known of the client that takes the step.
LEMMA OfClient ==
    ASSUME CarefulInv, NEW c \in Clients
    PROVE  /\ client[c] \in Client /\ ClientInv(c, client[c], history)
           /\ BuiltOn(c, client[c], history)
           /\ history \in Seq(Version) /\ \A i \in 1..Len(history) : Sound(history[i].map)
           /\ client \in [Clients -> Client] /\ writes \in Nat /\ IndInv
           /\ {} \subseteq (writes + 1)..writes /\ writes <= writes
  BY DEF CarefulInv, IndInv, ClientInv

LEMMA WriteIsCareful ==
    ASSUME CarefulInv, IndInv', Careful, NEW c \in Clients,
           AddFile(c) \/ AppendToFile(c) \/ DeleteFile(c)
    PROVE  CarefulInv'
<1>1. PICK f \in Files, brick \in {0, writes + 1} : \E ops :
         IsWrite(ops, f, brick) /\ Write(c, f, ops, brick) /\ brick \in 0..MaxWrites
  BY WriteActions, OfClient DEF IndInv
<1>2. PICK ops : IsWrite(ops, f, brick) /\ Write(c, f, ops, brick) /\ brick \in 0..MaxWrites
  BY <1>1
<1> DEFINE k == client[c]
           w == Written(k, ops, f, brick)
<1>3. /\ k \in Client /\ ClientInv(c, k, history) /\ BuiltOn(c, k, history) /\ writes \in Nat
      /\ client \in [Clients -> Client]
  BY OfClient
<1>4. brick # 0 => brick \notin AnchoredBricks(history) \cup Holds(k)
  <2>1. Holds(k) \subseteq 0..writes /\ AnchoredBricks(history) \subseteq 0..writes
    BY DEF CarefulInv, Owned
  <2> HIDE DEF k
  <2> QED
    BY <1>3, <2>1
<1>5. WriteChanges(w, k, ops, f, brick)
  BY <1>2, <1>3, WrittenFields
<1>6. BuiltOn(c, w, history) /\ Holds(w) \subseteq Holds(k) \cup {0, brick}
  BY <1>2, <1>3, <1>4, WrittenBuiltOn
<1>7. PICK shouldBeAnchored \in BOOLEAN :
         SetClient(c, IF shouldBeAnchored THEN AnchoringAsked(w) ELSE w)
  BY <1>2 DEF Write, AttemptAnchoring, IfChangesShouldBeAnchored, Written
<1>8. k.pc = "idle" /\ client'[c].pc # "idle" => k.from = k.cur
  BY DEF Careful, At
<1> HIDE DEF w, k
<1>9. w \in Client /\ w.pc = k.pc /\ w.from = k.from /\ w.cur = k.cur
  BY <1>5 DEF WriteChanges
<1>10. PICK q : SetClient(c, q) /\ BuiltOn(c, q, history) /\ Holds(q) \subseteq Holds(k) \cup {0, brick}
  <2>1. CASE shouldBeAnchored
    <3>1. SetClient(c, AnchoringAsked(w))
      BY <1>7, <2>1
    <3>2. client'[c] = AnchoringAsked(w)
      BY <1>3, <3>1 DEF SetClient
    <3>3. BuiltOn(c, AnchoringAsked(w), history) /\ Holds(AnchoringAsked(w)) = Holds(w)
      BY <1>6, <1>8, <1>9, <3>2, AskedBuiltOn
    <3> QED
      BY <1>6, <3>1, <3>3
  <2>2. CASE ~shouldBeAnchored
    BY <1>6, <1>7, <2>2
  <2> QED
    BY <2>1, <2>2
<1>11. history' = history /\ writes' = writes + 1
  BY <1>2 DEF Write
<1>12. writes <= writes' /\ {writes + 1} \subseteq (writes + 1)..writes'
  BY <1>3, <1>11
<1>13. Holds(q) \subseteq Holds(client[c]) \cup AnchoredBricks(history) \cup {0} \cup {writes + 1}
  BY <1>10 DEF k
<1> QED
  BY <1>10, <1>11, <1>12, <1>13, CarefulStep

LEMMA AnchorChangesIsCareful ==
    ASSUME CarefulInv, IndInv', Careful, NEW c \in Clients, AnchorChanges(c)
    PROVE  CarefulInv'
<1> DEFINE k == client[c]
           q == AnchoringAsked(k)
<1>1. SetClient(c, q) /\ UNCHANGED <<history, writes>>
  BY DEF AnchorChanges, counters
<1>2. k \in Client /\ BuiltOn(c, k, history) /\ client \in [Clients -> Client]
  BY OfClient
<1>3. k.pc = "idle" /\ q.pc # "idle" => k.from = k.cur
  <2>1. client'[c] = q
    BY <1>1, <1>2 DEF SetClient
  <2> QED
    BY <2>1 DEF Careful, At
<1> HIDE DEF k
<1>4. BuiltOn(c, q, history) /\ Holds(q) = Holds(k)
  BY <1>2, <1>3, AskedBuiltOn
<1> HIDE DEF q
<1>5. Holds(q) \subseteq Holds(client[c]) \cup AnchoredBricks(history) \cup {0} \cup {}
  BY <1>4 DEF k
<1>6. writes <= writes' /\ {} \subseteq (writes + 1)..writes'
  BY <1>1, OfClient
<1> QED
  BY <1>1, <1>4, <1>5, <1>6, CarefulStep

\* A step that takes up no brick but anchored ones and makes no write.
LEMMA QuietStep ==
    ASSUME CarefulInv, IndInv', NEW c \in Clients, NEW q, SetClient(c, q),
           history' = history, writes' = writes, BuiltOn(c, q, history),
           Holds(q) \subseteq Holds(client[c]) \cup AnchoredBricks(history)
    PROVE  CarefulInv'
<1>1. Holds(q) \subseteq Holds(client[c]) \cup AnchoredBricks(history) \cup {0} \cup {}
  OBVIOUS
<1>2. writes <= writes' /\ {} \subseteq (writes + 1)..writes'
  BY OfClient
<1> QED
  BY <1>1, <1>2, CarefulStep

LEMMA CompactIsCareful ==
    ASSUME CarefulInv, IndInv', NEW c \in Clients, Compact(c)
    PROVE  CarefulInv'
<1> DEFINE k == client[c]
           q == IF ReplayThrows(k.anchored, k.inAnch)
                THEN Abandoned([k EXCEPT !.inAnch = <<>>]) ELSE Compacted(k)
<1>1. SetClient(c, q) /\ UNCHANGED <<history, writes>> /\ k.pc = "compact"
  BY DEF Compact, Compacted, counters, At
<1>2. k \in Client /\ ClientInv(c, k, history) /\ BuiltOn(c, k, history)
  BY OfClient
<1> HIDE DEF k
<1>3. BuiltOn(c, Compacted(k), history) /\ Holds(Compacted(k)) \subseteq Holds(k)
  BY <1>1, <1>2, CompactBuiltOn
<1>4. /\ BuiltOn(c, Abandoned([k EXCEPT !.inAnch = <<>>]), history)
      /\ Holds(Abandoned([k EXCEPT !.inAnch = <<>>])) \subseteq Holds(k)
  BY <1>2, AbandonedRests
<1>5. BuiltOn(c, q, history) /\ Holds(q) \subseteq Holds(k)
  BY <1>3, <1>4
<1> HIDE DEF q
<1> QED
  BY <1>1, <1>5, QuietStep DEF k

LEMMA SaveBrickMapIsCareful ==
    ASSUME CarefulInv, IndInv', NEW c \in Clients, SaveBrickMap(c)
    PROVE  CarefulInv'
<1> DEFINE k == client[c]
<1>1. /\ k.pc = "save" /\ UNCHANGED <<history, writes>>
      /\ \/ SetClient(c, [k EXCEPT !.pc = "getLast"])
         \/ SetClient(c, Failed(RolledBack(k)))
  BY DEF SaveBrickMap, At
<1>2. k \in Client /\ BuiltOn(c, k, history) /\ UnderWay(k)
  BY <1>1, OfClient DEF UnderWay
<1> HIDE DEF k
<1>3. /\ BuiltOn(c, [k EXCEPT !.pc = "getLast"], history)
      /\ Holds([k EXCEPT !.pc = "getLast"]) \subseteq Holds(k)
  BY <1>2, NextStepBuiltOn
<1>4. /\ BuiltOn(c, Failed(RolledBack(k)), history)
      /\ Holds(Failed(RolledBack(k))) \subseteq Holds(k)
  BY <1>2, FailedRests
<1>5. PICK q : SetClient(c, q) /\ BuiltOn(c, q, history) /\ Holds(q) \subseteq Holds(k)
  BY <1>1, <1>3, <1>4
<1> QED
  BY <1>1, <1>5, QuietStep DEF k

LEMMA GetLastVersionIsCareful ==
    ASSUME CarefulInv, IndInv', NEW c \in Clients, GetLastVersion(c)
    PROVE  CarefulInv'
<1> DEFINE k == client[c]
           again == [RolledBack(k) EXCEPT !.pc = "conflict"]
           storing == [k EXCEPT !.pc = "store"]
<1>1. /\ k.pc = "getLast" /\ UNCHANGED <<history, writes>>
      /\ SetClient(c, Abandoned(k)) \/ SetClient(c, again) \/ SetClient(c, storing)
  BY DEF GetLastVersion, At
<1>2. k \in Client /\ BuiltOn(c, k, history) /\ UnderWay(k)
  BY <1>1, OfClient DEF UnderWay
<1> HIDE DEF k
<1>3. BuiltOn(c, Abandoned(k), history) /\ Holds(Abandoned(k)) \subseteq Holds(k)
  BY <1>2, AbandonedRests
<1>4. BuiltOn(c, again, history) /\ Holds(again) \subseteq Holds(k)
  BY <1>2, ConflictRests
<1>5. BuiltOn(c, storing, history) /\ Holds(storing) \subseteq Holds(k)
  BY <1>2, NextStepBuiltOn
<1> HIDE DEF again, storing
<1>6. PICK q : SetClient(c, q) /\ BuiltOn(c, q, history) /\ Holds(q) \subseteq Holds(k)
  BY <1>1, <1>3, <1>4, <1>5
<1> QED
  BY <1>1, <1>6, QuietStep DEF k

LEMMA StoreAnchorIsCareful ==
    ASSUME CarefulInv, IndInv', NEW c \in Clients, StoreAnchor(c)
    PROVE  CarefulInv'
<1> DEFINE k == client[c]
           back == Failed(RolledBack(k))
           again == [RolledBack(k) EXCEPT !.pc = "conflict"]
<1>1. At(c, "store") /\ writes' = writes
  BY DEF StoreAnchor
<1>2. CASE /\ k.cur = LastVersion
           /\ history' = Append(history, NewVersion(c))
           /\ \/ SetClient(c, [k EXCEPT !.pc = "stored"])
              \/ SetClient(c, back)
  BY <1>1, <1>2, CarefulStoreStep
<1>3. CASE /\ history' = history
           /\ SetClient(c, back) \/ SetClient(c, again)
  <2>1. k \in Client /\ BuiltOn(c, k, history)
    BY OfClient
  <2> HIDE DEF k
  <2>2. /\ BuiltOn(c, back, history) /\ Holds(back) \subseteq Holds(k)
        /\ BuiltOn(c, again, history) /\ Holds(again) \subseteq Holds(k)
    BY <2>1, FailedRests, ConflictRests
  <2> HIDE DEF back, again
  <2>3. PICK q : SetClient(c, q) /\ BuiltOn(c, q, history) /\ Holds(q) \subseteq Holds(k)
    BY <1>3, <2>2
  <2> QED
    BY <1>1, <1>3, <2>3, QuietStep DEF k
<1> QED
  BY <1>2, <1>3 DEF StoreAnchor

LEMMA AfterBrickMapAnchoringIsCareful ==
    ASSUME CarefulInv, IndInv', NEW c \in Clients, AfterBrickMapAnchoring(c)
    PROVE  CarefulInv'
<1> DEFINE k == client[c]
           IsLast(i) == history[i].by = c /\ \A j \in (i + 1)..LastVersion : history[j].by # c
           v == CHOOSE i \in 1..LastVersion : IsLast(i)
           e == Anchored(k, v)
           q == IF e.inAnch = <<>> THEN e ELSE AnchoringAsked(e)
<1>1. /\ k \in Client /\ ClientInv(c, k, history) /\ BuiltOn(c, k, history)
      /\ history \in Seq(Version)
  BY OfClient
<1>2. k.pc = "stored" /\ SetClient(c, q) /\ UNCHANGED <<history, writes>>
  BY DEF AfterBrickMapAnchoring, At, Anchored, counters
<1>3. PICK n \in 1..Len(history) : history[n].by = c
  BY <1>1, <1>2 DEF BuiltOn
<1>4. \E i \in 1..LastVersion : IsLast(i)
  BY <1>1, <1>3, LastOfClient DEF LastVersion
<1>5. v \in 1..LastVersion /\ IsLast(v)
  <2> HIDE DEF IsLast
  <2> QED
    BY <1>4
<1>6. v \in 1..Len(history) /\ history[v].by = c
      /\ \A j \in (v + 1)..Len(history) : history[j].by # c
  BY <1>5 DEF LastVersion
<1>7. v \in Nat
  BY <1>1, <1>6, LenProperties
<1> HIDE DEF v, k
<1>8. BuiltOn(c, e, history) /\ Holds(e) \subseteq Holds(k)
  BY <1>1, <1>2, <1>6, AnchoredBuiltOn
<1>9. e \in Client /\ e.from = e.cur
  <2>1. /\ Anchored(k, v) \in Client
        /\ Anchored(k, v).from = v /\ Anchored(k, v).cur = v
    BY <1>1, <1>7, AnchoredFields, Zenon
  <2> QED
    BY <2>1
<1> HIDE DEF e
<1>10. BuiltOn(c, q, history) /\ Holds(q) \subseteq Holds(k)
  BY <1>8, <1>9, AskedBuiltOn
<1> HIDE DEF q
<1> QED
  BY <1>2, <1>10, QuietStep DEF k

LEMMA HandleAnchoringConflictIsCareful ==
    ASSUME CarefulInv, IndInv', NEW c \in Clients, HandleAnchoringConflict(c)
    PROVE  CarefulInv'
<1> DEFINE k == client[c]
           p == Prepared(k)
           r == [p EXCEPT !.cur = LastVersion]
           theirs == history[LastVersion].map
           ours == Replay(r.anchored, r.inAnch)
           result == IF r.inAnch = <<>> THEN theirs ELSE Merge(theirs, ours)
<1>1. /\ k \in Client /\ ClientInv(c, k, history) /\ BuiltOn(c, k, history)
      /\ history \in Seq(Version) /\ \A i \in 1..Len(history) : Sound(history[i].map)
  BY OfClient
<1>2. /\ k.pc = "conflict" /\ UNCHANGED <<history, writes>>
      /\ SetClient(c, Reconciled(r, theirs)) \/ SetClient(c, Failed(k))
  BY DEF HandleAnchoringConflict, At
<1>3. history # <<>> /\ LastVersion \in Nat /\ LastVersion = Len(history)
  BY <1>1, <1>2, LenProperties DEF ClientInv, InOrder, LastVersion
<1> HIDE DEF k
<1>4. /\ ClientInv(c, p, history) /\ p \in Client /\ p.new = <<>> /\ p.pc = "conflict"
      /\ Holds(p) = Holds(k) /\ p.anchored = k.anchored /\ p.from = k.from
  BY <1>1, <1>2, PreparedInv, PreparedFields, PreparedHolds
<1> HIDE DEF p
<1>5. /\ r \in Client /\ r.pc = "conflict" /\ r.new = <<>> /\ r.cur = LastVersion
      /\ r.dirty = p.dirty /\ r.anchored = p.anchored /\ r.from = p.from
      /\ r.inAnch = p.inAnch /\ r.merged = p.merged /\ r.flight = p.flight
      /\ r.saved = p.saved /\ r.alias = p.alias /\ r.merges = p.merges /\ r.mine = p.mine
      /\ r.sent = p.sent
  BY <1>3, <1>4 DEF Client
<1>6. Reconciled(r, theirs) =
        IF MergeConflictsHandled(r, theirs) THEN Failed(r)
        ELSE IF ReplayThrows(r.anchored, r.inAnch) THEN Abandoned([r EXCEPT !.inAnch = <<>>])
        ELSE MergedInto(r, result)
  BY DEF Reconciled, MergedInto
<1> HIDE DEF r
<1>7. ClientInv(c, r, history)
  <2>1. Moved(c, p, r, history)
    BY <1>3, <1>4, <1>5 DEF Moved, UnderWay
  <2> QED
    BY <1>4, <2>1, MovedInv
<1>8. BuiltOn(c, r, history)
  BY <1>1, <1>4, <1>5, RestsOn DEF UnderWay
<1>9. Holds(r) = Holds(k)
  <2>1. Holds(r) = Holds(p)
    BY <1>4, <1>5 DEF Holds
  <2> QED
    BY <1>4, <2>1
<1>10. PICK q : /\ SetClient(c, q) /\ BuiltOn(c, q, history)
                /\ Holds(q) \subseteq Holds(k) \cup AnchoredBricks(history)
  <2>1. /\ BuiltOn(c, Failed(k), history) /\ Holds(Failed(k)) \subseteq Holds(k)
        /\ BuiltOn(c, Failed(r), history) /\ Holds(Failed(r)) \subseteq Holds(k)
        /\ BuiltOn(c, Abandoned([r EXCEPT !.inAnch = <<>>]), history)
        /\ Holds(Abandoned([r EXCEPT !.inAnch = <<>>])) \subseteq Holds(k)
    BY <1>1, <1>5, <1>8, <1>9, FailedRests, AbandonedRests
  <2>2. CASE SetClient(c, Failed(k))
    BY <2>1, <2>2
  <2>3. CASE SetClient(c, Reconciled(r, theirs)) /\ MergeConflictsHandled(r, theirs)
    BY <1>6, <2>1, <2>3
  <2>4. CASE /\ SetClient(c, Reconciled(r, theirs)) /\ ~MergeConflictsHandled(r, theirs)
             /\ ReplayThrows(r.anchored, r.inAnch)
    BY <1>6, <2>1, <2>4
  <2>5. CASE /\ SetClient(c, Reconciled(r, theirs)) /\ ~MergeConflictsHandled(r, theirs)
             /\ ~ReplayThrows(r.anchored, r.inAnch)
    <3>1. result = IF r.inAnch = <<>> THEN history[Len(history)].map
                   ELSE Merge(history[Len(history)].map, Replay(r.anchored, r.inAnch))
      BY <1>3
    <3>2. ~MergeConflictsHandled(r, history[Len(history)].map)
      BY <1>3, <2>5
    <3>3. SetClient(c, MergedInto(r, result))
      BY <1>6, <2>5
    <3> HIDE DEF result
    <3>4. /\ BuiltOn(c, MergedInto(r, result), history)
          /\ Holds(MergedInto(r, result)) \subseteq Holds(r) \cup AnchoredBricks(history)
      BY <1>1, <1>3, <1>5, <1>7, <1>8, <3>1, <3>2, MergedBuiltOn
    <3> QED
      BY <1>9, <3>3, <3>4
  <2> QED
    BY <1>2, <2>2, <2>3, <2>4, <2>5
<1> QED
  BY <1>2, <1>10, QuietStep DEF k

LEMMA ReopenIsCareful ==
    ASSUME CarefulInv, IndInv', NEW c \in Clients, Reopen(c)
    PROVE  CarefulInv'
<1> DEFINE v == IF history = <<>> THEN 0 ELSE LastVersion
           map == MapAt(history, v)
           q == Opened(v, map)
<1>1. history \in Seq(Version) /\ \A i \in 1..Len(history) : Sound(history[i].map)
  BY OfClient
<1>2. history # <<>> => LastVersion \in 1..Len(history) /\ LastVersion # 0
  <2>1. history # <<>> => LastVersion \in 1..Len(history) /\ Len(history) \in Nat
    BY <1>1, VersionFields DEF LastVersion
  <2> QED
    BY <2>1
<1>3. SetClient(c, q) /\ UNCHANGED <<history, writes>>
  <2>1. SetClient(c, IF history = <<>> THEN Opened(0, EmptyMap)
                     ELSE Opened(LastVersion, history[LastVersion].map))
        /\ UNCHANGED <<history, writes>>
    BY DEF Reopen
  <2>2. CASE history = <<>>
    BY <2>1, <2>2 DEF MapAt
  <2>3. CASE history # <<>>
    BY <1>2, <2>1, <2>3 DEF MapAt
  <2> QED
    BY <2>2, <2>3
<1>4. MapBricks(map) \subseteq AnchoredBricks(history)
  <2>1. CASE history = <<>>
    <3>1. map = EmptyMap
      BY <2>1 DEF MapAt
    <3> QED
      BY <3>1, BricksOfMaps
  <2>2. CASE history # <<>>
    <3>1. map = history[LastVersion].map
      BY <1>2, <2>2 DEF MapAt
    <3> HIDE DEF map
    <3> QED
      BY <1>2, <2>2, <3>1 DEF AnchoredBricks
  <2> QED
    BY <2>1, <2>2
<1> HIDE DEF v
<1>5. BuiltOn(c, q, history) /\ Holds(q) = MapBricks(map)
  BY OpenedBuiltOn
<1> HIDE DEF q, map
<1>6. Holds(q) \subseteq Holds(client[c]) \cup AnchoredBricks(history)
  BY <1>4, <1>5
<1> QED
  BY <1>3, <1>5, <1>6, QuietStep

LEMMA CarefulNext == CarefulInv /\ [Next /\ Careful]_vars => CarefulInv'
<1> SUFFICES ASSUME CarefulInv, [Next /\ Careful]_vars PROVE CarefulInv'
  OBVIOUS
<1>1. IndInv'
  BY NextInv DEF CarefulInv
<1>2. CASE UNCHANGED vars
  BY <1>1, <1>2 DEF vars, CarefulInv, Owned
<1>3. ASSUME Careful, NEW c \in Clients,
             \/ AddFile(c) \/ AppendToFile(c) \/ DeleteFile(c)
             \/ AnchorChanges(c) \/ Process(c) \/ Reopen(c)
      PROVE  CarefulInv'
  <2>1. CASE AddFile(c) \/ AppendToFile(c) \/ DeleteFile(c)
    BY <1>1, <1>3, <2>1, WriteIsCareful
  <2>2. CASE AnchorChanges(c)
    BY <1>1, <1>3, <2>2, AnchorChangesIsCareful
  <2>3. CASE Process(c)
    <3>1. CASE Compact(c)
      BY <1>1, <3>1, CompactIsCareful
    <3>2. CASE SaveBrickMap(c)
      BY <1>1, <3>2, SaveBrickMapIsCareful
    <3>3. CASE GetLastVersion(c)
      BY <1>1, <3>3, GetLastVersionIsCareful
    <3>4. CASE StoreAnchor(c)
      BY <1>1, <3>4, StoreAnchorIsCareful
    <3>5. CASE AfterBrickMapAnchoring(c)
      BY <1>1, <3>5, AfterBrickMapAnchoringIsCareful
    <3>6. CASE HandleAnchoringConflict(c)
      BY <1>1, <3>6, HandleAnchoringConflictIsCareful
    <3> QED
      BY <2>3, <3>1, <3>2, <3>3, <3>4, <3>5, <3>6 DEF Process
  <2>4. CASE Reopen(c)
    BY <1>1, <2>4, ReopenIsCareful
  <2> QED
    BY <1>3, <2>1, <2>2, <2>3, <2>4
<1> QED
  BY <1>2, <1>3 DEF Next

\* Careful clients never put a version that lacks a file of an earlier one, however their
\* writes, merges, lost answers and new starts interleave.
THEOREM AnchoredFilesStay == CarefulSpec => []FilesNeverVanish
<1>1. CarefulSpec => []CarefulInv
  BY CarefulInit, CarefulNext, PTL DEF CarefulSpec
<1> QED
  BY <1>1, CarefulInvImplies, PTL

\* Nor one that adds, empties or deletes a file that another client changed since they
\* loaded the DSU: the process that would ends with a conflict.
THEOREM ChangesAreReported == CarefulSpec => []ConcurrentChangeIsReported
<1>1. CarefulSpec => []CarefulInv
  BY CarefulInit, CarefulNext, PTL DEF CarefulSpec
<1> QED
  BY <1>1, CarefulInvImplies, PTL
=============================================================================
