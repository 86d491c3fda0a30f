-------------------------- MODULE RpcDispatchProofs --------------------------
(***************************************************************************)
(* For every message of every class, whatever its members are: a message   *)
(* that was written is read back, its size is the one computed for it, and *)
(* reading it into another is MergeFrom.  So the handler is called with    *)
(* what was sent.                                                          *)
(*                                                                         *)
(* The argument, from the bottom: the loops of the codec as equations; the *)
(* tables of a class agree with each other, which is all the lemmas about  *)
(* messages know of them; what each call makes of a message; the sizes;    *)
(* reading what was written, slot by slot; the Request around a message;   *)
(* a packet with one more field; and the invariant of the two objects.     *)
(***************************************************************************)
EXTENDS RpcDispatch, SequenceTheorems, WellFoundedInduction, TLAPS

\* A set of naturals that is not empty has a least element.
LEMMA LeastElement ==
  ASSUME NEW T, T \subseteq Nat, T # {}
  PROVE  \E x \in T : \A y \in T : x <= y
<1> DEFINE less == OpToRel(<, Nat)
<1>1. less = {ss \in Nat \X Nat : ss[1] < ss[2]}
  BY Zenon DEF OpToRel
<1>2. IsWellFoundedOn(less, Nat)
  BY NatLessThanWellFounded, Zenon
<1> HIDE DEF less
<1>3. PICK x \in T : \A y \in T : ~ (<<y, x>> \in less)
  BY <1>2, WFMin, Zenon
<1>4. ASSUME NEW y \in T PROVE x <= y
  <2>1. x \in Nat /\ y \in Nat
    OBVIOUS
  <2>2. ~(<<y, x>> \in less)
    BY <1>3
  <2>3. ~(y < x)
    BY <1>1, <2>1, <2>2
  <2> QED BY <2>1, <2>3
<1> QED BY <1>4

\* Induction up to n: a set that has 0, and with each k below n also k + 1, has them all.
LEMMA UpTo ==
  ASSUME NEW n \in Nat, NEW S, 0 \in S, \A k \in Nat : k < n /\ k \in S => k + 1 \in S
  PROVE  \A k \in 0..n : k \in S
<1> DEFINE T == {k \in 0..n : k \notin S}
<1>1. CASE T = {}
  BY <1>1
<1>2. CASE T # {}
  <2>1. T \subseteq Nat
    OBVIOUS
  <2> HIDE DEF T
  <2>2. PICK x \in T : \A y \in T : x <= y
    BY <2>1, <1>2, LeastElement, Zenon
  <2>3. x \in 0..n /\ x \notin S
    BY DEF T
  <2>4. x - 1 \in Nat /\ x - 1 \in 0..n /\ x - 1 \notin T
    BY <2>2, <2>3
  <2>5. x - 1 \in S
    BY <2>4 DEF T
  <2>6. (x - 1) + 1 \in S
    BY <2>3, <2>4, <2>5
  <2> QED BY <2>3, <2>6
<1> QED BY <1>1, <1>2

(* ---- the loops, one field after the other -------------------------------------- *)
\* The length of a sequence of fields.
LEMMA LengthsStep ==
  ASSUME NEW w, Len(w) \in Nat
  PROVE  /\ Lengths(w)[0] = 0
         /\ \A i \in 1..Len(w) : Lengths(w)[i] = Lengths(w)[i - 1] + FieldLength(w[i])
<1> DEFINE Read(f, k) == f = [i \in 0..k |-> IF i = 0 THEN 0 ELSE f[i - 1] + FieldLength(w[i])]
           S == {k \in Nat : \E f : Read(f, k)}
           n == Len(w)
<1>1. 0 \in S
  <2>1. Read([i \in 0..0 |-> 0], 0)
    OBVIOUS
  <2> QED BY <2>1
<1>2. ASSUME NEW k \in Nat, k \in S PROVE k + 1 \in S
  <2>1. PICK f : Read(f, k)
    BY <1>2
  <2> DEFINE g == [i \in 0..(k + 1) |-> IF i <= k THEN f[i] ELSE f[k] + FieldLength(w[k + 1])]
  <2>2. \A i \in 0..(k + 1) : g[i] = IF i = 0 THEN 0 ELSE g[i - 1] + FieldLength(w[i])
    BY <2>1
  <2>3. Read(g, k + 1)
    BY <2>2
  <2> HIDE DEF Read, g
  <2>4. \E h : Read(h, k + 1)
    BY <2>3
  <2> QED BY <2>4
<1>3. n \in S
  <2> HIDE DEF S, n
  <2>1. \A k \in 0..n : k \in S
    BY <1>1, <1>2, UpTo DEF n
  <2> QED BY <2>1 DEF n
<1>4. \E f : Read(f, n)
  BY <1>3
<1>5. Lengths(w) = CHOOSE f : Read(f, n)
  BY Zenon DEF Lengths
<1>6. Read(Lengths(w), n)
  <2> HIDE DEF Read, n
  <2> QED BY <1>4, <1>5, Zenon
<1> QED BY <1>6

\* MergeFrom.
LEMMA MergingStep ==
  ASSUME NEW parts, NEW m, NEW from, Len(Merges[m.class]) \in Nat
  PROVE  /\ Merging(parts, m, from)[0] = m
         /\ \A i \in 1..Len(Merges[m.class]) :
              Merging(parts, m, from)[i] = Copy(parts, Merging(parts, m, from)[i - 1], from,
              Merges[m.class][i])
<1> DEFINE Read(f, k) == f = [i \in 0..k |-> IF i = 0 THEN m
               ELSE Copy(parts, f[i - 1], from, Merges[m.class][i])]
           S == {k \in Nat : \E f : Read(f, k)}
           n == Len(Merges[m.class])
<1>1. 0 \in S
  <2>1. Read([i \in 0..0 |-> m], 0)
    OBVIOUS
  <2> QED BY <2>1
<1>2. ASSUME NEW k \in Nat, k \in S PROVE k + 1 \in S
  <2>1. PICK f : Read(f, k)
    BY <1>2
  <2> DEFINE g == [i \in 0..(k + 1) |-> IF i <= k THEN f[i]
                 ELSE Copy(parts, f[k], from, Merges[m.class][k + 1])]
  <2>2. \A i \in 0..(k + 1) : g[i] = IF i = 0 THEN m
        ELSE Copy(parts, g[i - 1], from, Merges[m.class][i])
    BY <2>1
  <2>3. Read(g, k + 1)
    BY <2>2
  <2> HIDE DEF Read, g
  <2>4. \E h : Read(h, k + 1)
    BY <2>3
  <2> QED BY <2>4
<1>3. n \in S
  <2> HIDE DEF S, n
  <2>1. \A k \in 0..n : k \in S
    BY <1>1, <1>2, UpTo DEF n
  <2> QED BY <2>1 DEF n
<1>4. \E f : Read(f, n)
  BY <1>3
<1>5. Merging(parts, m, from) = CHOOSE f : Read(f, n)
  BY Zenon DEF Merging
<1>6. Read(Merging(parts, m, from), n)
  <2> HIDE DEF Read, n
  <2> QED BY <1>4, <1>5, Zenon
<1> QED BY <1>6

\* ByteSize.
LEMMA AddingStep ==
  ASSUME NEW parts, NEW m, Len(Sizes[m.class]) \in Nat
  PROVE  /\ Adding(parts, m)[0] = 0
         /\ \A i \in 1..Len(Sizes[m.class]) :
              Adding(parts, m)[i] = AddSize(parts, m, Adding(parts, m)[i - 1], Sizes[m.class][i][1],
              Sizes[m.class][i][2])
<1> DEFINE Read(f, k) == f = [i \in 0..k |-> IF i = 0 THEN 0
               ELSE AddSize(parts, m, f[i - 1], Sizes[m.class][i][1], Sizes[m.class][i][2])]
           S == {k \in Nat : \E f : Read(f, k)}
           n == Len(Sizes[m.class])
<1>1. 0 \in S
  <2>1. Read([i \in 0..0 |-> 0], 0)
    OBVIOUS
  <2> QED BY <2>1
<1>2. ASSUME NEW k \in Nat, k \in S PROVE k + 1 \in S
  <2>1. PICK f : Read(f, k)
    BY <1>2
  <2> DEFINE g == [i \in 0..(k + 1) |-> IF i <= k THEN f[i]
                 ELSE AddSize(parts, m, f[k], Sizes[m.class][k + 1][1], Sizes[m.class][k + 1][2])]
  <2>2. \A i \in 0..(k + 1) : g[i] = IF i = 0 THEN 0
        ELSE AddSize(parts, m, g[i - 1], Sizes[m.class][i][1], Sizes[m.class][i][2])
    BY <2>1
  <2>3. Read(g, k + 1)
    BY <2>2
  <2> HIDE DEF Read, g
  <2>4. \E h : Read(h, k + 1)
    BY <2>3
  <2> QED BY <2>4
<1>3. n \in S
  <2> HIDE DEF S, n
  <2>1. \A k \in 0..n : k \in S
    BY <1>1, <1>2, UpTo DEF n
  <2> QED BY <2>1 DEF n
<1>4. \E f : Read(f, n)
  BY <1>3
<1>5. Adding(parts, m) = CHOOSE f : Read(f, n)
  BY Zenon DEF Adding
<1>6. Read(Adding(parts, m), n)
  <2> HIDE DEF Read, n
  <2> QED BY <1>4, <1>5, Zenon
<1> QED BY <1>6

\* SerializeWithCachedSizesToArray.
LEMMA WritingStep ==
  ASSUME NEW parts, NEW m, Len(Writes[m.class]) \in Nat
  PROVE  /\ Writing(parts, m)[0] = <<>>
         /\ \A i \in 1..Len(Writes[m.class]) :
              Writing(parts, m)[i] = Write(parts, m, Writing(parts, m)[i - 1],
              Writes[m.class][i][1], Writes[m.class][i][2], Writes[m.class][i][3])
<1> DEFINE Read(f, k) == f = [i \in 0..k |-> IF i = 0 THEN <<>>
               ELSE Write(parts, m, f[i - 1], Writes[m.class][i][1], Writes[m.class][i][2],
               Writes[m.class][i][3])]
           S == {k \in Nat : \E f : Read(f, k)}
           n == Len(Writes[m.class])
<1>1. 0 \in S
  <2>1. Read([i \in 0..0 |-> <<>>], 0)
    OBVIOUS
  <2> QED BY <2>1
<1>2. ASSUME NEW k \in Nat, k \in S PROVE k + 1 \in S
  <2>1. PICK f : Read(f, k)
    BY <1>2
  <2> DEFINE g == [i \in 0..(k + 1) |-> IF i <= k THEN f[i]
                 ELSE Write(parts, m, f[k], Writes[m.class][k + 1][1], Writes[m.class][k + 1][2],
                 Writes[m.class][k + 1][3])]
  <2>2. \A i \in 0..(k + 1) : g[i] = IF i = 0 THEN <<>>
        ELSE Write(parts, m, g[i - 1], Writes[m.class][i][1], Writes[m.class][i][2],
        Writes[m.class][i][3])
    BY <2>1
  <2>3. Read(g, k + 1)
    BY <2>2
  <2> HIDE DEF Read, g
  <2>4. \E h : Read(h, k + 1)
    BY <2>3
  <2> QED BY <2>4
<1>3. n \in S
  <2> HIDE DEF S, n
  <2>1. \A k \in 0..n : k \in S
    BY <1>1, <1>2, UpTo DEF n
  <2> QED BY <2>1 DEF n
<1>4. \E f : Read(f, n)
  BY <1>3
<1>5. Writing(parts, m) = CHOOSE f : Read(f, n)
  BY Zenon DEF Writing
<1>6. Read(Writing(parts, m), n)
  <2> HIDE DEF Read, n
  <2> QED BY <1>4, <1>5, Zenon
<1> QED BY <1>6

\* MergePartialFromCodedStream of StpToken.
LEMMA ReadingTokenStep ==
  ASSUME NEW t, NEW w, Len(w) \in Nat
  PROVE  /\ ReadingToken(t, w)[0] = Begun(t)
         /\ \A i \in 1..Len(w) : ReadingToken(t, w)[i] =
              ReadTokenField(ReadingToken(t, w)[i - 1], w[i])
<1> DEFINE Read(f, k) == f = [i \in 0..k |-> IF i = 0 THEN Begun(t)
               ELSE ReadTokenField(f[i - 1], w[i])]
           S == {k \in Nat : \E f : Read(f, k)}
           n == Len(w)
<1>1. 0 \in S
  <2>1. Read([i \in 0..0 |-> Begun(t)], 0)
    OBVIOUS
  <2> QED BY <2>1
<1>2. ASSUME NEW k \in Nat, k \in S PROVE k + 1 \in S
  <2>1. PICK f : Read(f, k)
    BY <1>2
  <2> DEFINE g == [i \in 0..(k + 1) |-> IF i <= k THEN f[i] ELSE ReadTokenField(f[k], w[k + 1])]
  <2>2. \A i \in 0..(k + 1) : g[i] = IF i = 0 THEN Begun(t) ELSE ReadTokenField(g[i - 1], w[i])
    BY <2>1
  <2>3. Read(g, k + 1)
    BY <2>2
  <2> HIDE DEF Read, g
  <2>4. \E h : Read(h, k + 1)
    BY <2>3
  <2> QED BY <2>4
<1>3. n \in S
  <2> HIDE DEF S, n
  <2>1. \A k \in 0..n : k \in S
    BY <1>1, <1>2, UpTo DEF n
  <2> QED BY <2>1 DEF n
<1>4. \E f : Read(f, n)
  BY <1>3
<1>5. ReadingToken(t, w) = CHOOSE f : Read(f, n)
  BY Zenon DEF ReadingToken
<1>6. Read(ReadingToken(t, w), n)
  <2> HIDE DEF Read, n
  <2> QED BY <1>4, <1>5, Zenon
<1> QED BY <1>6

\* MergePartialFromCodedStream of a message with tokens.
LEMMA ReadingStep ==
  ASSUME NEW m, NEW w, Len(w) \in Nat
  PROVE  /\ Reading(m, w)[0] = Begun(m)
         /\ \A i \in 1..Len(w) : Reading(m, w)[i] = ReadNext(Reading(m, w)[i - 1], w[i])
<1> DEFINE Read(f, k) == f = [i \in 0..k |-> IF i = 0 THEN Begun(m) ELSE ReadNext(f[i - 1], w[i])]
           S == {k \in Nat : \E f : Read(f, k)}
           n == Len(w)
<1>1. 0 \in S
  <2>1. Read([i \in 0..0 |-> Begun(m)], 0)
    OBVIOUS
  <2> QED BY <2>1
<1>2. ASSUME NEW k \in Nat, k \in S PROVE k + 1 \in S
  <2>1. PICK f : Read(f, k)
    BY <1>2
  <2> DEFINE g == [i \in 0..(k + 1) |-> IF i <= k THEN f[i] ELSE ReadNext(f[k], w[k + 1])]
  <2>2. \A i \in 0..(k + 1) : g[i] = IF i = 0 THEN Begun(m) ELSE ReadNext(g[i - 1], w[i])
    BY <2>1
  <2>3. Read(g, k + 1)
    BY <2>2
  <2> HIDE DEF Read, g
  <2>4. \E h : Read(h, k + 1)
    BY <2>3
  <2> QED BY <2>4
<1>3. n \in S
  <2> HIDE DEF S, n
  <2>1. \A k \in 0..n : k \in S
    BY <1>1, <1>2, UpTo DEF n
  <2> QED BY <2>1 DEF n
<1>4. \E f : Read(f, n)
  BY <1>3
<1>5. Reading(m, w) = CHOOSE f : Read(f, n)
  BY Zenon DEF Reading
<1>6. Read(Reading(m, w), n)
  <2> HIDE DEF Read, n
  <2> QED BY <1>4, <1>5, Zenon
<1> QED BY <1>6

(* ---- lengths ------------------------------------------------------------------- *)
\* The rest of a varint is less than the varint.
LEMMA DivLess ==
  ASSUME NEW n \in Nat, n >= Group
  PROVE  n \div Group \in Nat /\ n \div Group < n
<1>1. Group \in Nat /\ Group >= 2
  BY WidthAssumption
<1> QED BY <1>1

\* The number of groups of n, from that of n \div Group.
LEMMA GroupsStep ==
  ASSUME NEW n \in Nat
  PROVE  \A i \in 0..n : Groups(n)[i] = IF i < Group THEN 1 ELSE 1 + Groups(n)[i \div Group]
<1> DEFINE Read(f, k) == f = [i \in 0..k |-> IF i < Group THEN 1 ELSE 1 + f[i \div Group]]
           S == {k \in Nat : \E f : Read(f, k)}
<1>0. Group \in Nat /\ Group >= 2
  BY WidthAssumption
<1>1. 0 \in S
  <2>1. Read([i \in 0..0 |-> 1], 0)
    BY <1>0
  <2> QED BY <2>1
<1>2. ASSUME NEW k \in Nat, k \in S PROVE k + 1 \in S
  <2>1. PICK f : Read(f, k)
    BY <1>2
  <2> DEFINE g == [i \in 0..(k + 1) |-> IF i <= k THEN f[i]
                                        ELSE IF k + 1 < Group THEN 1 ELSE 1 + f[(k + 1) \div Group]]
  <2>2. ASSUME NEW i \in 0..(k + 1) PROVE g[i] = IF i < Group THEN 1 ELSE 1 + g[i \div Group]
    <3>1. i >= Group => i \div Group \in Nat /\ i \div Group < i
      BY DivLess
    <3> QED BY <1>0, <2>1, <3>1, SMTT(60)
  <2>3. Read(g, k + 1)
    BY <2>2
  <2> HIDE DEF Read, g
  <2>4. \E h : Read(h, k + 1)
    BY <2>3
  <2> QED BY <2>4
<1>3. n \in S
  <2> HIDE DEF S
  <2>1. \A k \in 0..n : k \in S
    BY <1>1, <1>2, UpTo
  <2> QED BY <2>1
<1>4. \E f : Read(f, n)
  BY <1>3
<1>5. Groups(n) = CHOOSE f : Read(f, n)
  BY Zenon DEF Groups
<1>6. Read(Groups(n), n)
  <2> HIDE DEF Read
  <2> QED BY <1>4, <1>5, Zenon
<1> QED BY <1>6

\* A varint takes at least one group.
LEMMA VarintSizeNat ==
  ASSUME NEW n \in Nat
  PROVE  VarintSize(n) \in Nat /\ VarintSize(n) >= 1
<1> DEFINE T == {k \in 0..n : ~(Groups(n)[k] \in Nat /\ Groups(n)[k] >= 1)}
<1>1. CASE T = {}
  <2>1. Groups(n)[n] \in Nat /\ Groups(n)[n] >= 1
    BY <1>1
  <2> QED BY <2>1 DEF VarintSize
<1>2. CASE T # {}
  <2>1. T \subseteq Nat
    OBVIOUS
  <2> HIDE DEF T
  <2>2. PICK x \in T : \A y \in T : x <= y
    BY <2>1, <1>2, LeastElement, Zenon
  <2>3. x \in 0..n /\ ~(Groups(n)[x] \in Nat /\ Groups(n)[x] >= 1)
    BY DEF T
  <2>4. Groups(n)[x] = IF x < Group THEN 1 ELSE 1 + Groups(n)[x \div Group]
    BY <2>3, GroupsStep
  <2>5. x >= Group
    <3>1. Group \in Nat
      BY WidthAssumption
    <3> QED BY <2>3, <2>4, <3>1
  <2>6. x \div Group \in Nat /\ x \div Group < x
    BY <2>3, <2>5, DivLess
  <2>7. x \div Group \notin T
    BY <2>1, <2>2, <2>6
  <2>8. Groups(n)[x \div Group] \in Nat
    <3>1. x \div Group \in 0..n
      BY <2>3, <2>6
    <3> QED BY <2>7, <3>1 DEF T
  <2>9. Groups(n)[x] = 1 + Groups(n)[x \div Group]
    <3>1. ~(x < Group)
      BY <2>5, <2>3, WidthAssumption
    <3> QED BY <2>4, <3>1
  <2> QED BY <2>3, <2>8, <2>9
<1> QED BY <1>1, <1>2

\* A sequence, of whatever.
IsSeq(w) == w \in Seq({w[i] : i \in DOMAIN w})

\* A sequence over any set is one over its own elements.
LEMMA SeqIsSeq ==
  ASSUME NEW S, NEW w \in Seq(S)
  PROVE  IsSeq(w)
<1> DEFINE R == {w[i] : i \in DOMAIN w}
<1>1. Len(w) \in Nat /\ DOMAIN w = 1..Len(w) /\ w = [i \in 1..Len(w) |-> w[i]]
  OBVIOUS
<1>2. \A i \in 1..Len(w) : w[i] \in R
  BY <1>1
<1> HIDE DEF R
<1>3. w \in Seq(R)
  BY <1>1, <1>2
<1> QED BY <1>3 DEF IsSeq, R

\* The empty sequence is a sequence of length 0.
LEMMA NoElements ==
  ASSUME NEW e, e = << >>
  PROVE  IsSeq(e) /\ Len(e) = 0
<1>1. e \in Seq({}) /\ Len(e) = 0
  OBVIOUS
<1> QED BY <1>1, SeqIsSeq

\* The length and the domain of a sequence.
LEMMA SeqLen ==
  ASSUME NEW w, IsSeq(w)
  PROVE  Len(w) \in Nat /\ DOMAIN w = 1..Len(w)
BY DEF IsSeq

\* Length and elements of Append.
LEMMA Appended ==
  ASSUME NEW w, IsSeq(w), NEW f
  PROVE  /\ IsSeq(Append(w, f)) /\ Len(Append(w, f)) = Len(w) + 1
         /\ \A i \in 1..Len(w) : Append(w, f)[i] = w[i]
         /\ Append(w, f)[Len(w) + 1] = f
<1> DEFINE R == {w[i] : i \in DOMAIN w} \cup {f}
<1>1. w \in Seq(R) /\ f \in R
  BY DEF IsSeq
<1> HIDE DEF R
<1>2. /\ Append(w, f) \in Seq(R) /\ Len(Append(w, f)) = Len(w) + 1
      /\ \A i \in 1..Len(w) : Append(w, f)[i] = w[i]
      /\ Append(w, f)[Len(w) + 1] = f
  BY <1>1
<1> QED BY <1>2, SeqIsSeq

\* Length and elements of a concatenation.
LEMMA Joined ==
  ASSUME NEW u, IsSeq(u), NEW w, IsSeq(w)
  PROVE  /\ IsSeq(u \o w) /\ Len(u \o w) = Len(u) + Len(w)
         /\ \A i \in 1..Len(u) : (u \o w)[i] = u[i]
         /\ \A j \in 1..Len(w) : (u \o w)[Len(u) + j] = w[j]
<1> DEFINE R == {u[i] : i \in DOMAIN u} \cup {w[i] : i \in DOMAIN w}
<1>1. u \in Seq(R) /\ w \in Seq(R)
  BY DEF IsSeq
<1> HIDE DEF R
<1>2. u \o w \in Seq(R) /\ Len(u \o w) = Len(u) + Len(w)
  BY <1>1
<1>3. \A i \in 1..Len(u) : (u \o w)[i] = u[i]
  BY <1>1
<1>4. \A j \in 1..Len(w) : (u \o w)[Len(u) + j] = w[j]
  BY <1>1
<1> QED BY <1>2, <1>3, <1>4, SeqIsSeq

\* Sequences with the same elements are the same.
LEMMA SameSeq ==
  ASSUME NEW u, IsSeq(u), NEW w, IsSeq(w), Len(u) = Len(w), \A i \in 1..Len(u) : u[i] = w[i]
  PROVE  u = w
<1>1. u = [i \in 1..Len(u) |-> u[i]] /\ w = [i \in 1..Len(w) |-> w[i]]
  BY DEF IsSeq
<1> QED BY <1>1

\* A field of the wire, and a sequence of them.
IsField(f) == f.n \in 0..Word64 - 1 /\ f.data.len \in Nat
IsWire(w) == IsSeq(w) /\ \A i \in 1..Len(w) : IsField(w[i])

\* A field takes its tag and a byte at least.
LEMMA FieldLengthNat ==
  ASSUME NEW f, IsField(f)
  PROVE  FieldLength(f) \in Nat /\ FieldLength(f) >= 2
<1>1. f.n \in Nat /\ f.data.len \in Nat
  BY WidthAssumption DEF IsField
<1>2. VarintSize(f.n) \in Nat /\ VarintSize(f.n) >= 1
  BY <1>1, VarintSizeNat
<1>3. VarintSize(f.data.len) \in Nat /\ VarintSize(f.data.len) >= 1
  BY <1>1, VarintSizeNat
<1> QED BY <1>1, <1>2, <1>3 DEF FieldLength

\* Where two sequences begin alike their lengths do.
LEMMA SameLengths ==
  ASSUME NEW u, IsSeq(u), NEW w, IsSeq(w), NEW n \in 0..Len(u), n <= Len(w),
         \A i \in 1..n : u[i] = w[i]
  PROVE  Lengths(u)[n] = Lengths(w)[n]
<1> DEFINE S == {k \in Nat : k <= n => Lengths(u)[k] = Lengths(w)[k]}
<1>0. n \in Nat /\ Len(u) \in Nat /\ Len(w) \in Nat /\ n <= Len(u) /\ n <= Len(w)
  BY SeqLen
<1>1. Lengths(u)[0] = 0 /\ \A i \in 1..Len(u) :
      Lengths(u)[i] = Lengths(u)[i - 1] + FieldLength(u[i])
  BY <1>0, LengthsStep, Zenon
<1>2. Lengths(w)[0] = 0 /\ \A i \in 1..Len(w) :
      Lengths(w)[i] = Lengths(w)[i - 1] + FieldLength(w[i])
  BY <1>0, LengthsStep, Zenon
<1>3. 0 \in S
  BY <1>1, <1>2
<1>4. ASSUME NEW k \in Nat, k < n, k \in S PROVE k + 1 \in S
  <2>1. k + 1 \in 1..n /\ k + 1 \in 1..Len(u) /\ k + 1 \in 1..Len(w) /\ (k + 1) - 1 = k
    BY <1>0, <1>4
  <2>2. Lengths(u)[k] = Lengths(w)[k] /\ u[k + 1] = w[k + 1]
    BY <1>4, <2>1
  <2> QED BY <1>1, <1>2, <2>1, <2>2
<1> HIDE DEF S
<1>5. n \in S
  <2>1. \A k \in 0..n : k \in S
    BY <1>0, <1>3, <1>4, UpTo
  <2> QED BY <1>0, <2>1
<1> QED BY <1>0, <1>5 DEF S

\* No fields take no bytes.
LEMMA WireLengthEmpty ==
  ASSUME NEW e, e = << >>
  PROVE  WireLength(e) = 0
BY NoElements, LengthsStep DEF WireLength

\* A field more takes the bytes of that field more.
LEMMA WireLengthAppended ==
  ASSUME NEW w, IsSeq(w), NEW f
  PROVE  WireLength(Append(w, f)) = WireLength(w) + FieldLength(f)
<1> DEFINE v == Append(w, f)
           n == Len(w)
<1>1. n \in Nat /\ IsSeq(v) /\ Len(v) = n + 1 /\ v[n + 1] = f /\ \A i \in 1..n : v[i] = w[i]
  BY Appended, SeqLen
<1> HIDE DEF v
<1>2. Lengths(v)[n + 1] = Lengths(v)[n] + FieldLength(v[n + 1])
  <2>1. n + 1 \in 1..Len(v) /\ (n + 1) - 1 = n /\ Len(v) \in Nat
    BY <1>1
  <2> HIDE DEF n
  <2> QED BY <2>1, LengthsStep
<1>3. Lengths(v)[n] = Lengths(w)[n]
  BY <1>1, SameLengths
<1> QED BY <1>1, <1>2, <1>3 DEF WireLength, v

\* The length on the wire is a number, and at least two bytes per field.
LEMMA WireLengthNat ==
  ASSUME NEW w, IsWire(w)
  PROVE  /\ \A k \in 0..Len(w) : Lengths(w)[k] \in Nat /\ Lengths(w)[k] >= 2 * k
         /\ WireLength(w) \in Nat
<1> DEFINE S == {k \in Nat : k <= Len(w) => Lengths(w)[k] \in Nat /\ Lengths(w)[k] >= 2 * k}
<1>0. Len(w) \in Nat
  BY SeqLen DEF IsWire
<1>1. Lengths(w)[0] = 0 /\ \A i \in 1..Len(w) :
      Lengths(w)[i] = Lengths(w)[i - 1] + FieldLength(w[i])
  BY <1>0, LengthsStep, Zenon
<1>2. 0 \in S
  BY <1>1
<1>3. ASSUME NEW k \in Nat, k < Len(w), k \in S PROVE k + 1 \in S
  <2>1. k + 1 \in 1..Len(w) /\ (k + 1) - 1 = k
    BY <1>0, <1>3
  <2>2. FieldLength(w[k + 1]) \in Nat /\ FieldLength(w[k + 1]) >= 2
    BY <2>1, FieldLengthNat DEF IsWire
  <2>3. Lengths(w)[k + 1] = Lengths(w)[k] + FieldLength(w[k + 1])
    BY <1>1, <2>1
  <2>4. Lengths(w)[k] \in Nat /\ Lengths(w)[k] >= 2 * k
    BY <1>3
  <2> QED BY <2>2, <2>3, <2>4
<1>4. \A k \in 0..Len(w) : k \in S
  <2> HIDE DEF S
  <2> QED BY <1>0, <1>2, <1>3, UpTo
<1>5. \A k \in 0..Len(w) : Lengths(w)[k] \in Nat /\ Lengths(w)[k] >= 2 * k
  BY <1>0, <1>4
<1> QED BY <1>0, <1>5 DEF WireLength

\* Fields behind fields take the bytes of both.
LEMMA WireLengthJoined ==
  ASSUME NEW u, IsWire(u), NEW w, IsWire(w)
  PROVE  WireLength(u \o w) = WireLength(u) + WireLength(w)
<1> DEFINE v == u \o w
           m == Len(u)
           n == Len(w)
           S == {k \in Nat : k <= n => Lengths(v)[m + k] = Lengths(u)[m] + Lengths(w)[k]}
<1>1. /\ m \in Nat /\ n \in Nat /\ IsSeq(u) /\ IsSeq(w) /\ IsSeq(v) /\ Len(v) = m + n
      /\ \A i \in 1..m : v[i] = u[i]
      /\ \A i \in 1..n : v[m + i] = w[i]
  BY Joined, SeqLen DEF IsWire
<1> HIDE DEF v
<1>2. Lengths(v)[m] = Lengths(u)[m]
  <2>1. m \in 0..Len(v) /\ m <= Len(u) /\ \A i \in 1..m : v[i] = u[i]
    BY <1>1
  <2> HIDE DEF m
  <2> QED BY <1>1, <2>1, SameLengths
<1>3. \A i \in 1..m + n : Lengths(v)[i] = Lengths(v)[i - 1] + FieldLength(v[i])
  BY <1>1, LengthsStep
<1>4. Lengths(w)[0] = 0 /\ \A i \in 1..n : Lengths(w)[i] = Lengths(w)[i - 1] + FieldLength(w[i])
  BY <1>1, LengthsStep
<1>5. Lengths(u)[m] \in Nat /\ \A k \in 0..n : Lengths(w)[k] \in Nat
  BY <1>1, WireLengthNat
<1>6. 0 \in S
  BY <1>1, <1>2, <1>4, <1>5
<1>7. ASSUME NEW k \in Nat, k < n, k \in S PROVE k + 1 \in S
  <2>1. k + 1 \in 1..n /\ (k + 1) - 1 = k /\ m + (k + 1) \in 1..m + n /\ (m + (k + 1)) - 1 = m + k
    BY <1>1, <1>7
  <2>2. Lengths(v)[m + (k + 1)] = Lengths(v)[m + k] + FieldLength(w[k + 1])
    BY <1>1, <1>3, <2>1
  <2>3. Lengths(w)[k + 1] = Lengths(w)[k] + FieldLength(w[k + 1])
    BY <1>4, <2>1
  <2>4. FieldLength(w[k + 1]) \in Nat
    BY <2>1, FieldLengthNat DEF IsWire
  <2>5. Lengths(w)[k] \in Nat
    BY <1>5, <1>7
  <2>6. Lengths(v)[m + k] = Lengths(u)[m] + Lengths(w)[k]
    BY <1>7
  <2> QED BY <1>5, <2>2, <2>3, <2>4, <2>5, <2>6
<1>8. n \in S
  <2> HIDE DEF S, n
  <2>1. n \in Nat
    BY <1>1
  <2>2. \A k \in 0..n : k \in S
    BY <2>1, <1>6, <1>7, UpTo
  <2> QED BY <2>1, <2>2
<1>9. Lengths(v)[m + n] = Lengths(u)[m] + Lengths(w)[n]
  BY <1>1, <1>8
<1> QED BY <1>1, <1>9 DEF WireLength, v

\* Fields behind fields are fields.
LEMMA WireJoined ==
  ASSUME NEW u, IsWire(u), NEW w, IsWire(w)
  PROVE  IsWire(u \o w)
<1> DEFINE v == u \o w
<1>1. /\ Len(u) \in Nat /\ Len(w) \in Nat /\ IsSeq(v) /\ Len(v) = Len(u) + Len(w)
      /\ \A i \in 1..Len(u) : v[i] = u[i]
      /\ \A i \in 1..Len(w) : v[Len(u) + i] = w[i]
  BY Joined, SeqLen DEF IsWire
<1> HIDE DEF v
<1>2. ASSUME NEW i \in 1..Len(v) PROVE IsField(v[i])
  <2>1. CASE i <= Len(u)
    BY <1>1, <2>1 DEF IsWire
  <2>2. CASE i > Len(u)
    <3>1. i - Len(u) \in 1..Len(w) /\ Len(u) + (i - Len(u)) = i
      BY <1>1, <2>2
    <3> QED BY <1>1, <3>1 DEF IsWire
  <2> QED BY <1>1, <2>1, <2>2
<1> QED BY <1>1, <1>2 DEF IsWire, v

\* A field behind fields is fields.
LEMMA WireAppended ==
  ASSUME NEW w, IsWire(w), NEW f, IsField(f)
  PROVE  IsWire(Append(w, f))
<1> DEFINE v == Append(w, f)
<1>1. /\ Len(w) \in Nat /\ IsSeq(v) /\ Len(v) = Len(w) + 1 /\ v[Len(w) + 1] = f
      /\ \A i \in 1..Len(w) : v[i] = w[i]
  BY Appended, SeqLen DEF IsWire
<1> HIDE DEF v
<1>2. ASSUME NEW i \in 1..Len(v) PROVE IsField(v[i])
  BY <1>1 DEF IsWire
<1> QED BY <1>1, <1>2 DEF IsWire, v

(* ---- the tables ---------------------------------------------------------------- *)
Kinds == {"uint64", "int32", "int64", "enum", "string", "bytes", "message"}
Width(c) == Len(Merges[c])

\* The i-th slot of each table of a class is about the same member, and the
\* field number is i.
SlotAgrees(c, i) ==
    LET f == Merges[c][i]
        k == Fields[c][f].kind
    IN /\ f \in DOMAIN Fields[c] /\ k \in Kinds
       /\ Writes[c][i] = <<i, f, k>> /\ Sizes[c][i] = <<f, k>> /\ Cases[c][i] = <<f, k>>

\* Each member has one slot.
Agreeing(c) ==
    /\ Width(c) \in 0..6 /\ Len(Writes[c]) = Width(c) /\ Len(Sizes[c]) = Width(c)
    /\ DOMAIN Cases[c] = 1..Width(c)
    /\ \A i \in 1..Width(c) : SlotAgrees(c, i)
Single(c) == \A i, j \in 1..Width(c) : Merges[c][i] = Merges[c][j] => i = j
Covering(c) == \A f \in DOMAIN Fields[c] : \E i \in 1..Width(c) : Merges[c][i] = f

\* What Clear does not reset it empties, and that is the default of the member.
Clearing(c) ==
    \A f \in DOMAIN Fields[c] :
        LET k == Fields[c][f].kind
        IN /\ f \in Clears[c].always \union Clears[c].ifset
           /\ k = "message" => f \notin Clears[c].always /\ c # "StpToken"
           /\ f \notin Clears[c].always /\ k # "message" => Fields[c][f].default = NoBytes
Defaults(c) ==
    \A f \in DOMAIN Fields[c] :
        LET k == Fields[c][f].kind
        IN /\ k \in Varints => Fields[c][f].default = 0
           /\ k \in {"string", "bytes"} => Fields[c][f].default = NoBytes
           /\ k = "message" => Fields[c][f].default = New("StpToken")

Tables(c) == Agreeing(c) /\ Single(c) /\ Covering(c) /\ Clearing(c) /\ Defaults(c)

\* The tables of StpToken.
LEMMA Tables_StpToken == Tables("StpToken")
<1>1. Agreeing("StpToken")
  BY DEF Agreeing, Width, SlotAgrees, Kinds, Fields, Merges, Writes, Sizes, Cases, StpToken_fields,
         StpToken_MergeFrom, StpToken_Serialize, StpToken_ByteSize, StpToken_Parse, U64, I32, I64,
           Str
<1>2. Single("StpToken")
  BY DEF Single, Width, Merges, StpToken_MergeFrom
<1>3. Covering("StpToken")
  BY DEF Covering, Width, Fields, Merges, StpToken_fields, StpToken_MergeFrom, U64, I32, I64, Str
<1>4. Clearing("StpToken")
  BY DEF Clearing, Fields, Clears, StpToken_fields, StpToken_Clear, U64, I32, I64, Str
<1>5. Defaults("StpToken")
  BY DEF Defaults, Varints, New, Fields, StpToken_fields, U64, I32, I64, Str
<1> QED BY <1>1, <1>2, <1>3, <1>4, <1>5 DEF Tables

\* The tables of Request.
LEMMA Tables_Request == Tables("Request")
<1>1. Agreeing("Request")
  BY DEF Agreeing, Width, SlotAgrees, Kinds, Fields, Merges, Writes, Sizes, Cases, Request_fields,
         Request_MergeFrom, Request_Serialize, Request_ByteSize, Request_Parse, Str, Byt
<1>2. Single("Request")
  BY DEF Single, Width, Merges, Request_MergeFrom
<1>3. Covering("Request")
  BY DEF Covering, Width, Fields, Merges, Request_fields, Request_MergeFrom, Str, Byt
<1>4. Clearing("Request")
  BY DEF Clearing, Fields, Clears, Request_fields, Request_Clear, Str, Byt
<1>5. Defaults("Request")
  BY DEF Defaults, Varints, New, Fields, Request_fields, Str, Byt
<1> QED BY <1>1, <1>2, <1>3, <1>4, <1>5 DEF Tables

\* The tables of C2S_Ping.
LEMMA Tables_C2S_Ping == Tables("C2S_Ping")
<1>1. Agreeing("C2S_Ping")
  BY DEF Agreeing, Width, SlotAgrees, Kinds, Fields, Merges, Writes, Sizes, Cases,
         C2S_Ping_MergeFrom, C2S_Ping_Serialize, C2S_Ping_ByteSize, C2S_Ping_Parse, NoFields
<1>2. Single("C2S_Ping")
  BY DEF Single, Width, Merges, C2S_Ping_MergeFrom
<1>3. Covering("C2S_Ping")
  BY DEF Covering, Width, Fields, Merges, C2S_Ping_MergeFrom, NoFields
<1>4. Clearing("C2S_Ping")
  BY DEF Clearing, Fields, Clears, C2S_Ping_Clear, NoFields
<1>5. Defaults("C2S_Ping")
  BY DEF Defaults, Varints, New, Fields, NoFields
<1> QED BY <1>1, <1>2, <1>3, <1>4, <1>5 DEF Tables

\* The tables of S2C_Ping.
LEMMA Tables_S2C_Ping == Tables("S2C_Ping")
<1>1. Agreeing("S2C_Ping")
  BY DEF Agreeing, Width, SlotAgrees, Kinds, Fields, Merges, Writes, Sizes, Cases,
         S2C_Ping_MergeFrom, S2C_Ping_Serialize, S2C_Ping_ByteSize, S2C_Ping_Parse, NoFields
<1>2. Single("S2C_Ping")
  BY DEF Single, Width, Merges, S2C_Ping_MergeFrom
<1>3. Covering("S2C_Ping")
  BY DEF Covering, Width, Fields, Merges, S2C_Ping_MergeFrom, NoFields
<1>4. Clearing("S2C_Ping")
  BY DEF Clearing, Fields, Clears, S2C_Ping_Clear, NoFields
<1>5. Defaults("S2C_Ping")
  BY DEF Defaults, Varints, New, Fields, NoFields
<1> QED BY <1>1, <1>2, <1>3, <1>4, <1>5 DEF Tables

\* The tables of StpCryptoMsg.
LEMMA Tables_StpCryptoMsg == Tables("StpCryptoMsg")
<1>1. Agreeing("StpCryptoMsg")
  BY DEF Agreeing, Width, SlotAgrees, Kinds, Fields, Merges, Writes, Sizes, Cases,
         StpCryptoMsg_fields,
         StpCryptoMsg_MergeFrom, StpCryptoMsg_Serialize, StpCryptoMsg_ByteSize, StpCryptoMsg_Parse,
           Token, Byt
<1>2. Single("StpCryptoMsg")
  BY DEF Single, Width, Merges, StpCryptoMsg_MergeFrom
<1>3. Covering("StpCryptoMsg")
  BY DEF Covering, Width, Fields, Merges, StpCryptoMsg_fields, StpCryptoMsg_MergeFrom, Token, Byt
<1>4. Clearing("StpCryptoMsg")
  BY DEF Clearing, Fields, Clears, StpCryptoMsg_fields, StpCryptoMsg_Clear, Token, Byt
<1>5. Defaults("StpCryptoMsg")
  BY DEF Defaults, Varints, New, Fields, StpCryptoMsg_fields, Token, Byt
<1> QED BY <1>1, <1>2, <1>3, <1>4, <1>5 DEF Tables

\* The tables of C2S_StpCryptoNegotiate.
LEMMA Tables_C2S_StpCryptoNegotiate == Tables("C2S_StpCryptoNegotiate")
<1>1. Agreeing("C2S_StpCryptoNegotiate")
  BY DEF Agreeing, Width, SlotAgrees, Kinds, Fields, Merges, Writes, Sizes, Cases,
         C2S_StpCryptoNegotiate_fields,
         C2S_StpCryptoNegotiate_MergeFrom, C2S_StpCryptoNegotiate_Serialize,
           C2S_StpCryptoNegotiate_ByteSize, C2S_StpCryptoNegotiate_Parse, U64, Token
<1>2. Single("C2S_StpCryptoNegotiate")
  BY DEF Single, Width, Merges, C2S_StpCryptoNegotiate_MergeFrom
<1>3. Covering("C2S_StpCryptoNegotiate")
  BY DEF Covering, Width, Fields, Merges, C2S_StpCryptoNegotiate_fields,
         C2S_StpCryptoNegotiate_MergeFrom, U64, Token
<1>4. Clearing("C2S_StpCryptoNegotiate")
  BY DEF Clearing, Fields, Clears, C2S_StpCryptoNegotiate_fields, C2S_StpCryptoNegotiate_Clear, U64,
         Token
<1>5. Defaults("C2S_StpCryptoNegotiate")
  BY DEF Defaults, Varints, New, Fields, C2S_StpCryptoNegotiate_fields, U64, Token
<1> QED BY <1>1, <1>2, <1>3, <1>4, <1>5 DEF Tables

\* The tables of S2C_StpCryptoNegotiate.
LEMMA Tables_S2C_StpCryptoNegotiate == Tables("S2C_StpCryptoNegotiate")
<1>1. Agreeing("S2C_StpCryptoNegotiate")
  BY DEF Agreeing, Width, SlotAgrees, Kinds, Fields, Merges, Writes, Sizes, Cases,
         S2C_StpCryptoNegotiate_fields,
         S2C_StpCryptoNegotiate_MergeFrom, S2C_StpCryptoNegotiate_Serialize,
           S2C_StpCryptoNegotiate_ByteSize, S2C_StpCryptoNegotiate_Parse, Enum, U64, Token
<1>2. Single("S2C_StpCryptoNegotiate")
  BY DEF Single, Width, Merges, S2C_StpCryptoNegotiate_MergeFrom
<1>3. Covering("S2C_StpCryptoNegotiate")
  BY DEF Covering, Width, Fields, Merges, S2C_StpCryptoNegotiate_fields,
         S2C_StpCryptoNegotiate_MergeFrom, Enum, U64, Token
<1>4. Clearing("S2C_StpCryptoNegotiate")
  BY DEF Clearing, Fields, Clears, S2C_StpCryptoNegotiate_fields, S2C_StpCryptoNegotiate_Clear,
         Enum, U64, Token
<1>5. Defaults("S2C_StpCryptoNegotiate")
  BY DEF Defaults, Varints, New, Fields, S2C_StpCryptoNegotiate_fields, Enum, U64, Token
<1> QED BY <1>1, <1>2, <1>3, <1>4, <1>5 DEF Tables

\* The tables of S2D_StpReportStatus.
LEMMA Tables_S2D_StpReportStatus == Tables("S2D_StpReportStatus")
<1>1. Agreeing("S2D_StpReportStatus")
  BY DEF Agreeing, Width, SlotAgrees, Kinds, Fields, Merges, Writes, Sizes, Cases,
         S2D_StpReportStatus_fields,
         S2D_StpReportStatus_MergeFrom, S2D_StpReportStatus_Serialize, S2D_StpReportStatus_ByteSize,
           S2D_StpReportStatus_Parse, U64, Str, I32
<1>2. Single("S2D_StpReportStatus")
  BY DEF Single, Width, Merges, S2D_StpReportStatus_MergeFrom
<1>3. Covering("S2D_StpReportStatus")
  BY DEF Covering, Width, Fields, Merges, S2D_StpReportStatus_fields, S2D_StpReportStatus_MergeFrom,
         U64, Str, I32
<1>4. Clearing("S2D_StpReportStatus")
  BY DEF Clearing, Fields, Clears, S2D_StpReportStatus_fields, S2D_StpReportStatus_Clear, U64, Str,
         I32
<1>5. Defaults("S2D_StpReportStatus")
  BY DEF Defaults, Varints, New, Fields, S2D_StpReportStatus_fields, U64, Str, I32
<1> QED BY <1>1, <1>2, <1>3, <1>4, <1>5 DEF Tables

\* What the generator wrote for a class agrees between its methods.
LEMMA AllTables ==
  ASSUME NEW c \in Classes
  PROVE  Tables(c)
<1>1. c \in {"StpToken", "Request", "C2S_Ping", "S2C_Ping", "StpCryptoMsg",
      "C2S_StpCryptoNegotiate",
            "S2C_StpCryptoNegotiate", "S2D_StpReportStatus"}
  BY DEF Classes, Fields
<1> QED BY <1>1, Tables_StpToken, Tables_Request, Tables_C2S_Ping, Tables_S2C_Ping,
           Tables_StpCryptoMsg,
           Tables_C2S_StpCryptoNegotiate, Tables_S2C_StpCryptoNegotiate, Tables_S2D_StpReportStatus

(* ---- one member of a message --------------------------------------------------- *)
\* A record of the four parts of a message, the members in a function.
IsMade(m) ==
    m = [class |-> m.class, has |-> m.has, unknown |-> m.unknown,
         val |-> [f \in DOMAIN m.val |-> m.val[f]]]

\* r is m with other has bits, unknown fields and members.
Becomes(r, m, has, unknown, val) ==
    /\ IsMade(r) /\ r.class = m.class /\ r.has = has /\ r.unknown = unknown
    /\ DOMAIN r.val = DOMAIN m.val /\ \A g \in DOMAIN m.val : r.val[g] = val[g]

\* Messages with the same components are the same.
LEMMA SameMade ==
  ASSUME NEW x, IsMade(x), NEW y, IsMade(y), x.class = y.class, x.has = y.has,
         x.unknown = y.unknown, DOMAIN x.val = DOMAIN y.val,
           \A f \in DOMAIN x.val : x.val[f] = y.val[f]
  PROVE  x = y
<1>1. [f \in DOMAIN x.val |-> x.val[f]] = [f \in DOMAIN y.val |-> y.val[f]]
  OBVIOUS
<1> QED BY <1>1 DEF IsMade

\* The components of a message that is written out.
LEMMA RecordMade ==
  ASSUME NEW c, NEW h, NEW u, NEW D, NEW v, NEW r,
         r = [class |-> c, has |-> h, unknown |-> u, val |-> [f \in D |-> v[f]]]
  PROVE  IsMade(r) /\ r.class = c /\ r.has = h /\ r.unknown = u /\ DOMAIN r.val = D /\
         \A f \in D : r.val[f] = v[f]
<1>1. r.class = c /\ r.has = h /\ r.unknown = u /\ r.val = [f \in D |-> v[f]]
  OBVIOUS
<1>2. DOMAIN r.val = D /\ \A f \in D : r.val[f] = v[f]
  BY <1>1
<1>3. [f \in DOMAIN r.val |-> r.val[f]] = [f \in D |-> v[f]]
  BY <1>2
<1> QED BY <1>1, <1>2, <1>3 DEF IsMade

\* The components of a new object.
LEMMA NewMade ==
  ASSUME NEW c \in Classes
  PROVE  /\ IsMade(New(c)) /\ New(c).class = c /\ New(c).has = {} /\ New(c).unknown = << >>
         /\ DOMAIN New(c).val = DOMAIN Fields[c]
         /\ \A f \in DOMAIN Fields[c] : New(c).val[f] = Fields[c][f].default
<1> DEFINE v == [f \in DOMAIN Fields[c] |-> Fields[c][f].default]
<1>1. New(c) = [class |-> c, has |-> {}, unknown |-> << >>,
      val |-> [f \in DOMAIN Fields[c] |-> v[f]]]
  BY DEF New, Blank
<1> QED BY <1>1, RecordMade

\* The record with some of its parts replaced.
Replace(m, h, u, d) == [m EXCEPT !.has = h, !.unknown = u, !.val = d]

\* The components after has bits, unknown fields and members have been replaced.
LEMMA ReplaceMade ==
  ASSUME NEW m, IsMade(m), NEW h, NEW u, NEW D, NEW w, NEW d, d = [f \in D |-> w[f]],
         D = DOMAIN m.val
  PROVE  Becomes(Replace(m, h, u, d), m, h, u, w)
<1> DEFINE c == m.class
           h0 == m.has
           u0 == m.unknown
           d0 == [f \in DOMAIN m.val |-> m.val[f]]
           r == Replace(m, h, u, d)
<1>1. m = [class |-> c, has |-> h0, unknown |-> u0, val |-> d0]
  BY DEF IsMade
<1> HIDE DEF c, h0, u0, d0
<1> DEFINE n1 == [m EXCEPT !.has = h]
<1>2. n1 = [class |-> c, has |-> h, unknown |-> u0, val |-> d0]
  BY <1>1
<1> HIDE DEF n1
<1> DEFINE n2 == [n1 EXCEPT !.unknown = u]
<1>3. n2 = [class |-> c, has |-> h, unknown |-> u, val |-> d0]
  BY <1>2
<1> HIDE DEF n2
<1>4. [n2 EXCEPT !.val = d] = [class |-> c, has |-> h, unknown |-> u, val |-> d]
  BY <1>3
<1>5. r = [class |-> c, has |-> h, unknown |-> u, val |-> d]
  BY <1>4 DEF Replace, n1, n2
<1> HIDE DEF r
<1>6. r = [class |-> c, has |-> h, unknown |-> u, val |-> [f \in D |-> w[f]]]
  BY <1>5
<1>7. IsMade(r) /\ r.class = c /\ r.has = h /\ r.unknown = u /\ DOMAIN r.val = D /\
      \A f \in D : r.val[f] = w[f]
  BY <1>6, RecordMade
<1> QED BY <1>7 DEF Becomes, c, r

\* What set_x makes of a message.
LEMMA SetMade ==
  ASSUME NEW m, IsMade(m), NEW f \in DOMAIN m.val, NEW v
  PROVE  Becomes(Set(m, f, v), m, m.has \union {f}, m.unknown,
         [g \in DOMAIN m.val |-> IF g = f THEN v ELSE m.val[g]])
<1> DEFINE d == [g \in DOMAIN m.val |-> IF g = f THEN v ELSE m.val[g]]
           e == [g \in DOMAIN m.val |-> d[g]]
           h == m.has \union {f}
           u == m.unknown
<1>1. Set(m, f, v) = Replace(m, h, u, d)
  BY DEF Set, Replace, IsMade
<1>2. e = d
  OBVIOUS
<1> HIDE DEF d, h, u
<1>3. Becomes(Replace(m, h, u, e), m, h, u, d)
  BY ReplaceMade
<1>4. Becomes(Set(m, f, v), m, h, u, d)
  BY <1>1, <1>2, <1>3
<1> QED BY <1>4 DEF d, h, u

\* What mutable_x makes of a message.
LEMMA MutableMade ==
  ASSUME NEW m, IsMade(m), NEW f
  PROVE  Becomes(Mutable(m, f), m, m.has \union {f}, m.unknown, [g \in DOMAIN m.val |-> m.val[g]])
<1> DEFINE d == [g \in DOMAIN m.val |-> m.val[g]]
           e == [g \in DOMAIN m.val |-> d[g]]
           h == m.has \union {f}
           u == m.unknown
<1>1. Mutable(m, f) = Replace(m, h, u, d)
  <2>1. Mutable(m, f) = [m EXCEPT !.has = h] /\ d = m.val
    BY DEF Mutable, IsMade
  <2>2. u = m.unknown
    OBVIOUS
  <2>3. m = [class |-> m.class, has |-> m.has, unknown |-> m.unknown, val |-> d]
    BY DEF IsMade
  <2> DEFINE r == [m EXCEPT !.has = h]
             c == m.class
             h0 == m.has
             u0 == m.unknown
  <2> HIDE DEF h, u, d, c, h0, u0
  <2>4. m = [class |-> c, has |-> h0, unknown |-> u0, val |-> d]
    BY <2>3 DEF c, h0, u0
  <2>5. r = [class |-> c, has |-> h, unknown |-> u0, val |-> d]
    BY <2>4
  <2> HIDE DEF r
  <2> DEFINE n1 == [m EXCEPT !.has = h]
  <2>6. n1 = [class |-> c, has |-> h, unknown |-> u0, val |-> d]
    BY <2>4
  <2> HIDE DEF n1
  <2> DEFINE n2 == [n1 EXCEPT !.unknown = u]
  <2>7. n2 = [class |-> c, has |-> h, unknown |-> u, val |-> d]
    BY <2>6
  <2> HIDE DEF n2
  <2>8. [n2 EXCEPT !.val = d] = [class |-> c, has |-> h, unknown |-> u, val |-> d]
    BY <2>7
  <2>9. Replace(m, h, u, d) = [class |-> c, has |-> h, unknown |-> u, val |-> d]
    BY <2>8 DEF Replace, n1, n2
  <2> QED BY <2>1, <2>2, <2>5, <2>9 DEF r, h0, u0
<1>2. e = d
  OBVIOUS
<1> HIDE DEF d, h, u
<1>3. Becomes(Replace(m, h, u, e), m, h, u, d)
  BY ReplaceMade
<1>4. Becomes(Mutable(m, f), m, h, u, d)
  BY <1>1, <1>2, <1>3
<1> QED BY <1>4 DEF d, h, u

\* What release_x makes of a message.
LEMMA ReleaseMade ==
  ASSUME NEW m, IsMade(m), NEW f \in DOMAIN m.val
  PROVE  Becomes(Release(m, f), m, m.has \ {f}, m.unknown,
         [g \in DOMAIN m.val |-> IF g = f THEN Default(m, f) ELSE m.val[g]])
<1> DEFINE d == [g \in DOMAIN m.val |-> IF g = f THEN Default(m, f) ELSE m.val[g]]
           e == [g \in DOMAIN m.val |-> d[g]]
           h == m.has \ {f}
           u == m.unknown
<1>1. Release(m, f) = Replace(m, h, u, d)
  BY DEF Release, Replace, IsMade
<1>2. e = d
  OBVIOUS
<1> HIDE DEF d, h, u
<1>3. Becomes(Replace(m, h, u, e), m, h, u, d)
  BY ReplaceMade
<1>4. Becomes(Release(m, f), m, h, u, d)
  BY <1>1, <1>2, <1>3
<1> QED BY <1>4 DEF d, h, u

\* What clear_x makes of a message.
LEMMA ClearFieldMade ==
  ASSUME NEW m, IsMade(m), NEW f \in DOMAIN m.val
  PROVE  Becomes(ClearField(m, f), m, m.has \ {f}, m.unknown,
         [g \in DOMAIN m.val |-> IF g = f
         THEN (IF KindOf(m, f) = "message" THEN ClearToken(m.val[f]) ELSE Default(m, f))
         ELSE m.val[g]])
<1> DEFINE d == [g \in DOMAIN m.val |-> IF g = f
               THEN (IF KindOf(m, f) = "message" THEN ClearToken(m.val[f]) ELSE Default(m, f))
               ELSE m.val[g]]
           e == [g \in DOMAIN m.val |-> d[g]]
           h == m.has \ {f}
           u == m.unknown
<1>1. ClearField(m, f) = Replace(m, h, u, d)
  BY DEF ClearField, Replace, IsMade
<1>2. e = d
  OBVIOUS
<1> HIDE DEF d, h, u
<1>3. Becomes(Replace(m, h, u, e), m, h, u, d)
  BY ReplaceMade
<1>4. Becomes(ClearField(m, f), m, h, u, d)
  BY <1>1, <1>2, <1>3
<1> QED BY <1>4 DEF d, h, u

\* A record with other unknown fields.
LEMMA UnknownMade ==
  ASSUME NEW m, IsMade(m), NEW u
  PROVE  Becomes([m EXCEPT !.unknown = u], m, m.has, u, m.val)
<1> DEFINE r == [m EXCEPT !.unknown = u]
           c == m.class
           h == m.has
           u0 == m.unknown
           d == [f \in DOMAIN m.val |-> m.val[f]]
<1>1. m = [class |-> c, has |-> h, unknown |-> u0, val |-> d]
  BY DEF IsMade
<1> HIDE DEF c, h, u0, d
<1>2. r = [class |-> c, has |-> h, unknown |-> u, val |-> d]
  BY <1>1
<1> DEFINE D == DOMAIN m.val
           v == m.val
<1> HIDE DEF r
<1>3. r = [class |-> c, has |-> h, unknown |-> u, val |-> [f \in D |-> v[f]]]
  BY <1>2 DEF d
<1> HIDE DEF D, v
<1>4. /\ IsMade(r) /\ r.class = c /\ r.has = h /\ r.unknown = u /\ DOMAIN r.val = D
      /\ \A f \in D : r.val[f] = v[f]
  BY <1>3, RecordMade
<1> QED BY <1>4 DEF Becomes, c, h, D, v, r

\* What keeping an unknown field makes of a message.
LEMMA KeepMade ==
  ASSUME NEW m, IsMade(m), NEW f
  PROVE  Becomes(Keep(m, f), m, m.has, Append(m.unknown, f), m.val)
<1> DEFINE u == Append(m.unknown, f)
<1>1. Keep(m, f) = [m EXCEPT !.unknown = u]
  BY DEF Keep
<1> HIDE DEF u
<1>2. Becomes([m EXCEPT !.unknown = u], m, m.has, u, m.val)
  BY UnknownMade
<1> QED BY <1>1, <1>2 DEF u

(* ---- the messages a program can hold ------------------------------------------- *)
Int32 == -(Word32 \div 2) .. Word32 \div 2 - 1
Int64 == -(Word64 \div 2) .. Word64 \div 2 - 1
IsValue(kind, v) ==
    /\ kind = "uint64" => v \in 0 .. Word64 - 1
    /\ kind = "int32" => v \in Int32
    /\ kind = "int64" => v \in Int64
    /\ kind = "enum" => v \in Int32 /\ StpResult_IsValid(v)
    /\ kind \in {"string", "bytes"} => v.len \in Nat

\* A field that a message of class c keeps as it is when it reads it.
Foreign(c, f) ==
    /\ f.wt \notin {"cut", "end"} /\ IsField(f)
    /\ \/ ~(f.num \in DOMAIN Cases[c] /\ FitsKind(Cases[c][f.num][2], f))
       \/ /\ f.num \in DOMAIN Cases[c] /\ FitsKind(Cases[c][f.num][2], f)
          /\ Cases[c][f.num][2] = "enum" /\ ~StpResult_IsValid(ReadKind("enum", f))
          /\ f = Varint(f.num, ReadKind("enum", f) % Word64)

Shaped(m) ==
    /\ m.class \in Classes /\ DOMAIN m.val = DOMAIN Fields[m.class]
    /\ m.has \subseteq DOMAIN m.val
Proper(m) ==
    /\ IsMade(m) /\ Shaped(m)
    /\ IsSeq(m.unknown) /\ \A i \in 1 .. Len(m.unknown) : Foreign(m.class, m.unknown[i])
    /\ \A f \in DOMAIN m.val : IsValue(KindOf(m, f), m.val[f])
    /\ \A f \in DOMAIN m.val : f \notin m.has => m.val[f] = Default(m, f)
IsToken(t) == t.class = "StpToken" /\ Proper(t)
IsMsg(m) == Proper(m) /\ \A f \in Messages(m) : IsToken(m.val[f])

\* Cleared, a message is as new: Clear resets every member that can differ from its default.
LEMMA ClearIsNew ==
  ASSUME NEW m, Proper(m), NEW parts, \A f \in Messages(m) : parts[f] = Default(m, f)
  PROVE  ClearWith(parts, m) = New(m.class)
<1> DEFINE ifset == Clears[m.class].ifset \intersect m.has
           always == IF m.has = {} THEN {} ELSE Clears[m.class].always
           w == [f \in DOMAIN m.val |->
                            CASE f \in always -> Default(m, f)
                              [] f \in ifset \ always -> IF KindOf(m, f) = "message"
                                                         THEN parts[f] ELSE NoBytes
                              [] f \notin ifset \union always -> m.val[f]]
           e == [f \in DOMAIN m.val |-> w[f]]
           r == ClearWith(parts, m)
<1>0. IsMade(m) /\ m.class \in Classes /\ DOMAIN m.val = DOMAIN Fields[m.class] /\
      m.has \subseteq DOMAIN m.val
  BY DEF Proper, Shaped
<1>1. ClearWith(parts, m) = Replace(m, {}, << >>, w)
  BY <1>0 DEF ClearWith, Replace, IsMade
<1>2. w = e
  OBVIOUS
<1>3. ASSUME NEW f \in DOMAIN m.val PROVE w[f] = Fields[m.class][f].default
  <2>1. Clearing(m.class)
    BY <1>0, AllTables DEF Tables
  <2>2. f \notin m.has => m.val[f] = Fields[m.class][f].default
    BY DEF Proper, Default
  <2>3. KindOf(m, f) = "message" => parts[f] = Fields[m.class][f].default
    BY DEF Messages, Default
  <2>4. /\ f \in Clears[m.class].always \union Clears[m.class].ifset
        /\ f \notin Clears[m.class].always /\ KindOf(m, f) # "message" =>
             Fields[m.class][f].default = NoBytes
    BY <1>0, <2>1 DEF Clearing, KindOf
  <2>5. CASE f \in always
    BY <2>5 DEF Default
  <2>6. CASE f \in ifset \ always
    <3>1. f \notin Clears[m.class].always
      BY <2>6
    <3> QED BY <2>3, <2>4, <2>6, <3>1
  <2>7. CASE f \notin ifset \union always
    <3>1. f \notin m.has
      BY <2>4, <2>7
    <3>2. w[f] = m.val[f]
      BY <2>7
    <3> QED BY <2>2, <3>1, <3>2
  <2> QED BY <2>5, <2>6, <2>7
<1> HIDE DEF w
<1>4. Becomes(Replace(m, {}, << >>, e), m, {}, << >>, w)
  BY <1>0, ReplaceMade
<1>5. Becomes(r, m, {}, << >>, w)
  BY <1>1, <1>2, <1>4
<1> HIDE DEF r
<1>6. /\ IsMade(r) /\ r.class = m.class /\ r.has = {} /\ r.unknown = << >> /\
           DOMAIN r.val = DOMAIN m.val
      /\ \A f \in DOMAIN m.val : r.val[f] = Fields[m.class][f].default
  BY <1>3, <1>5 DEF Becomes
<1>7. /\ IsMade(New(m.class)) /\ New(m.class).class = m.class /\ New(m.class).has = {} /\
           New(m.class).unknown = << >>
         /\ DOMAIN New(m.class).val = DOMAIN Fields[m.class]
         /\ \A f \in DOMAIN Fields[m.class] : New(m.class).val[f] = Fields[m.class][f].default
  BY <1>0, NewMade
<1> DEFINE n == New(m.class)
<1> HIDE DEF n
<1>8. r = n
  <2>1. IsMade(r) /\ IsMade(n) /\ r.class = n.class /\ r.has = n.has /\ r.unknown = n.unknown
    BY <1>6, <1>7 DEF n
  <2>2. DOMAIN r.val = DOMAIN n.val /\ \A f \in DOMAIN r.val : r.val[f] = n.val[f]
    BY <1>0, <1>6, <1>7 DEF n
  <2> QED BY <2>1, <2>2, SameMade
<1> QED BY <1>8 DEF r, n

\* The widths are numbers, a varint is as wide as an int32 and every result is one.
LEMMA Widths ==
  /\ Word32 \in Nat /\ Word32 > 12 /\ Word64 \in Nat /\ Word64 >= Word32
  /\ Word32 \div 2 \in Nat /\ Word32 \div 2 > 6 /\ Word64 \div 2 \in Nat /\
       Word64 \div 2 >= Word32 \div 2
<1>1. /\ Word32 \in Nat /\ Word32 > 0 /\ Word64 \in Nat /\ Word64 > 0 /\ Word64 % Word32 = 0
      /\ Word32 \div 2 \in Nat /\ Word32 \div 2 > 6 /\ Word64 \div 2 \in Nat
  BY WidthAssumption, RpcAssumption
<1>2. Word32 > 12
  BY <1>1
<1>3. Word64 >= Word32
  <2>1. Word64 < Word32 => Word64 % Word32 = Word64
    BY <1>1
  <2> QED BY <1>1, <2>1
<1>4. Word64 \div 2 >= Word32 \div 2
  BY <1>1, <1>3
<1> QED BY <1>1, <1>2, <1>3, <1>4

\* 0 is a value of every kind of number, and the empty bytes have a length.
LEMMA ZeroIsValue ==
  0 \in Int32 /\ 0 \in Int64 /\ 0 \in 0 .. Word64 - 1 /\ StpResult_IsValid(0) /\ NoBytes.len \in Nat
<1>4. NoBytes.len = Len("")
  BY Zenon DEF NoBytes, Text
<1>5. Len("") \in Nat
  <2>1. Len("") = 0
    BY LengthAssumption, Zenon
  <2>2. \A x : x = 0 => x \in Nat
    OBVIOUS
  <2> QED BY <2>1, <2>2, Zenon
<1>6. NoBytes.len \in Nat
  BY <1>4, <1>5, Zenon
<1>7. 0 \in Int32
  BY Widths DEF Int32
<1>8. 0 \in Int64
  BY Widths DEF Int64
<1> QED BY Widths, <1>6, <1>7, <1>8 DEF StpResult_IsValid

\* A new object is proper, and its tokens are new.
LEMMA NewIsProper ==
  ASSUME NEW c \in Classes
  PROVE  Proper(New(c)) /\ New(c).class = c /\
         \A f \in Messages(New(c)) : New(c).val[f] = New("StpToken")
<1> DEFINE n == New(c)
           t == New("StpToken")
<1>1. /\ IsMade(n) /\ n.class = c /\ n.has = {} /\ n.unknown = << >> /\
           DOMAIN n.val = DOMAIN Fields[c]
      /\ \A f \in DOMAIN Fields[c] : n.val[f] = Fields[c][f].default
  BY NewMade
<1>2. Agreeing(c) /\ Defaults(c) /\ Covering(c)
  BY AllTables DEF Tables
<1> HIDE DEF n
<1>3. IsSeq(n.unknown) /\ Len(n.unknown) = 0
  BY <1>1, NoElements
<1>4. ASSUME NEW f \in DOMAIN Fields[c] PROVE IsValue(KindOf(n, f), n.val[f]) /\
             (KindOf(n, f) = "message" => n.val[f] = t)
  <2> HIDE DEF t
  <2>1. KindOf(n, f) = Fields[c][f].kind /\ n.val[f] = Fields[c][f].default
    BY <1>1 DEF KindOf
  <2>2. KindOf(n, f) \in Varints => n.val[f] = 0
    BY <1>2, <2>1 DEF Defaults
  <2>3. /\ KindOf(n, f) \in {"string", "bytes"} => n.val[f] = NoBytes
        /\ KindOf(n, f) = "message" => n.val[f] = t
    BY <1>2, <2>1 DEF Defaults, t
  <2> QED BY <2>2, <2>3, ZeroIsValue DEF IsValue, Varints
<1>5. Proper(n)
  BY <1>1, <1>3, <1>4 DEF Proper, Shaped, Default
<1> QED BY <1>1, <1>4, <1>5 DEF Messages, n

\* A new object is a message.
LEMMA NewIsMsg ==
  ASSUME NEW c \in Classes
  PROVE  IsMsg(New(c)) /\ New(c).class = c
<1>1. "StpToken" \in Classes
  BY DEF Classes, Fields
<1> QED BY <1>1, NewIsProper DEF IsMsg, IsToken

\* When what becomes of a proper message is proper.
LEMMA BecomesProper ==
  ASSUME NEW m, Proper(m), NEW r, NEW h, NEW u, NEW w, Becomes(r, m, h, u, w),
         h \subseteq DOMAIN m.val,
         IsSeq(u), \A i \in 1..Len(u) : Foreign(m.class, u[i]),
         \A g \in DOMAIN m.val : IsValue(KindOf(m, g), w[g]),
         \A g \in DOMAIN m.val : g \notin h => w[g] = Default(m, g)
  PROVE  Proper(r) /\ r.class = m.class
<1>1. /\ IsMade(r) /\ r.class = m.class /\ r.has = h /\ r.unknown = u /\ DOMAIN r.val = DOMAIN m.val
      /\ \A g \in DOMAIN m.val : r.val[g] = w[g]
  BY DEF Becomes
<1>2. m.class \in Classes /\ DOMAIN m.val = DOMAIN Fields[m.class]
  BY DEF Proper, Shaped
<1>3. \A g : KindOf(r, g) = KindOf(m, g) /\ Default(r, g) = Default(m, g)
  BY <1>1 DEF KindOf, Default
<1> QED BY <1>1, <1>2, <1>3 DEF Proper, Shaped

\* When what becomes of a message is a message.
LEMMA BecomesMsg ==
  ASSUME NEW m, IsMsg(m), NEW r, NEW h, NEW u, NEW w, Becomes(r, m, h, u, w),
         h \subseteq DOMAIN m.val,
         IsSeq(u), \A i \in 1..Len(u) : Foreign(m.class, u[i]),
         \A g \in DOMAIN m.val : IsValue(KindOf(m, g), w[g]),
         \A g \in DOMAIN m.val : g \notin h => w[g] = Default(m, g),
         \A g \in Messages(m) : IsToken(w[g])
  PROVE  IsMsg(r) /\ r.class = m.class
<1>1. Proper(r) /\ r.class = m.class
  BY BecomesProper DEF IsMsg
<1>2. DOMAIN r.val = DOMAIN m.val /\ \A g \in DOMAIN m.val : r.val[g] = w[g]
  BY DEF Becomes
<1>3. Messages(r) = Messages(m) /\ Messages(m) \subseteq DOMAIN m.val
  BY <1>1, <1>2 DEF Messages, KindOf
<1> QED BY <1>1, <1>2, <1>3 DEF IsMsg

\* A token has no message members.
LEMMA TokensHaveNoMessages ==
  ASSUME NEW t, Shaped(t), t.class = "StpToken"
  PROVE  Messages(t) = {}
<1>1. Clearing("StpToken") /\ DOMAIN t.val = DOMAIN Fields["StpToken"]
  BY AllTables DEF Tables, Shaped
<1> QED BY <1>1 DEF Clearing, Messages, KindOf

\* A token is a message of class StpToken.
LEMMA TokenIsMsg ==
  ASSUME NEW t
  PROVE  IsToken(t) <=> IsMsg(t) /\ t.class = "StpToken"
BY TokensHaveNoMessages DEF IsMsg, IsToken, Proper

\* set_x keeps a message proper.
LEMMA SetIsProper ==
  ASSUME NEW m, Proper(m), NEW f \in DOMAIN m.val, NEW v, IsValue(KindOf(m, f), v)
  PROVE  Proper(Set(m, f, v)) /\ Set(m, f, v).class = m.class
<1> DEFINE w == [g \in DOMAIN m.val |-> IF g = f THEN v ELSE m.val[g]]
           h == m.has \union {f}
           r == Set(m, f, v)
<1>1. Becomes(r, m, h, m.unknown, w)
  BY SetMade DEF Proper
<1>2. h \subseteq DOMAIN m.val /\ IsSeq(m.unknown) /\
      \A i \in 1..Len(m.unknown) : Foreign(m.class, m.unknown[i])
  BY DEF Proper, Shaped
<1>3. \A g \in DOMAIN m.val : IsValue(KindOf(m, g), w[g])
  BY DEF Proper
<1>4. \A g \in DOMAIN m.val : g \notin h => w[g] = Default(m, g)
  BY DEF Proper
<1> HIDE DEF w, h, r
<1>5. Proper(r) /\ r.class = m.class
  BY <1>1, <1>2, <1>3, <1>4, BecomesProper
<1> QED BY <1>5 DEF r

\* set_x keeps a message a message.
LEMMA SetIsMsg ==
  ASSUME NEW m, IsMsg(m), NEW f \in DOMAIN m.val, NEW v, IsValue(KindOf(m, f), v),
         KindOf(m, f) = "message" => IsToken(v)
  PROVE  IsMsg(Set(m, f, v)) /\ Set(m, f, v).class = m.class
<1> DEFINE r == Set(m, f, v)
<1>1. Proper(r) /\ r.class = m.class
  BY SetIsProper DEF IsMsg
<1>2. DOMAIN r.val = DOMAIN m.val /\ \A g \in DOMAIN m.val : r.val[g] = IF g = f THEN v
      ELSE m.val[g]
  <2>1. Becomes(r, m, m.has \union {f}, m.unknown,
        [g \in DOMAIN m.val |-> IF g = f THEN v ELSE m.val[g]])
    BY SetMade DEF IsMsg, Proper
  <2> QED BY <2>1 DEF Becomes
<1> HIDE DEF r
<1>3. \A g \in Messages(r) : g \in Messages(m)
  BY <1>1, <1>2 DEF Messages, KindOf
<1>4. \A g \in Messages(r) : IsToken(r.val[g])
  BY <1>2, <1>3 DEF IsMsg, Messages
<1> QED BY <1>1, <1>4 DEF IsMsg, r

\* Keeping a foreign field keeps a message a message.
LEMMA KeepIsMsg ==
  ASSUME NEW m, IsMsg(m), NEW f, Foreign(m.class, f)
  PROVE  IsMsg(Keep(m, f)) /\ Keep(m, f).class = m.class
<1> DEFINE r == Keep(m, f)
           u == Append(m.unknown, f)
           w == m.val
<1>1. Becomes(r, m, m.has, u, w)
  BY KeepMade DEF IsMsg, Proper
<1>2. m.has \subseteq DOMAIN m.val /\ IsSeq(m.unknown) /\
      \A i \in 1..Len(m.unknown) : Foreign(m.class, m.unknown[i])
  BY DEF IsMsg, Proper, Shaped
<1>3. IsSeq(u) /\ \A i \in 1..Len(u) : Foreign(m.class, u[i])
  <2>1. IsSeq(u) /\ Len(u) = Len(m.unknown) + 1 /\ u[Len(m.unknown) + 1] = f /\
        \A i \in 1..Len(m.unknown) : u[i] = m.unknown[i]
    BY <1>2, Appended
  <2>2. Len(m.unknown) \in Nat
    BY <1>2, SeqLen
  <2> HIDE DEF u
  <2>3. ASSUME NEW i \in 1..Len(u) PROVE Foreign(m.class, u[i])
    <3>1. i = Len(m.unknown) + 1 \/ i \in 1..Len(m.unknown)
      BY <2>1, <2>2
    <3> QED BY <1>2, <2>1, <3>1
  <2> QED BY <2>1, <2>3
<1>4. \A g \in DOMAIN m.val : IsValue(KindOf(m, g), w[g]) /\
      (g \notin m.has => w[g] = Default(m, g))
  BY DEF IsMsg, Proper
<1>5. \A g \in Messages(m) : IsToken(w[g])
  BY DEF IsMsg, Messages
<1> HIDE DEF w, u, r
<1>6. IsMsg(r) /\ r.class = m.class
  BY <1>1, <1>2, <1>3, <1>4, <1>5, BecomesMsg
<1> QED BY <1>6 DEF r

\* A default is a value of its kind.
LEMMA DefaultIsValue ==
  ASSUME NEW m, Shaped(m), NEW f \in DOMAIN m.val
  PROVE  /\ IsValue(KindOf(m, f), Default(m, f))
         /\ KindOf(m, f) = "message" => IsToken(Default(m, f)) /\ Default(m, f) = New("StpToken")
<1> DEFINE n == New(m.class)
<1>1. IsMsg(n) /\ n.class = m.class
  BY NewIsMsg DEF Shaped
<1>2. DOMAIN n.val = DOMAIN m.val /\ n.val[f] = Fields[m.class][f].default
  BY NewMade DEF Shaped
<1>3. KindOf(m, f) = "message" => n.val[f] = New("StpToken")
  <2>1. Defaults(m.class) /\ DOMAIN m.val = DOMAIN Fields[m.class]
    BY AllTables DEF Tables, Shaped
  <2> HIDE DEF n
  <2> QED BY <1>2, <2>1 DEF Defaults, KindOf
<1> HIDE DEF n
<1> QED BY <1>1, <1>2, <1>3 DEF IsMsg, Proper, Default, KindOf, Messages

\* Clear leaves a message as its constructor does.
LEMMA ClearTokenIsNew ==
  ASSUME NEW t, IsToken(t)
  PROVE  ClearToken(t) = New("StpToken")
<1>1. Proper(t) /\ Messages(t) = {}
  BY TokensHaveNoMessages DEF IsToken, Proper
<1> QED BY <1>1, ClearIsNew DEF IsToken, ClearToken

\* A cleared message is as new.
LEMMA ClearIsNewOfClass ==
  ASSUME NEW m, IsMsg(m)
  PROVE  Clear(m) = New(m.class)
<1> DEFINE parts == [f \in Messages(m) |-> ClearToken(m.val[f])]
<1>1. \A f \in Messages(m) : parts[f] = Default(m, f)
  <2> TAKE f \in Messages(m)
  <2>1. IsToken(m.val[f]) /\ f \in DOMAIN m.val /\ KindOf(m, f) = "message" /\ Shaped(m)
    BY DEF IsMsg, Proper, Messages
  <2> QED BY <2>1, ClearTokenIsNew, DefaultIsValue
<1> HIDE DEF parts
<1>2. ClearWith(parts, m) = New(m.class)
  BY <1>1, ClearIsNew DEF IsMsg
<1> QED BY <1>2 DEF Clear, parts

\* mutable_x keeps a message a message.
LEMMA MutableIsMsg ==
  ASSUME NEW m, IsMsg(m), NEW f \in DOMAIN m.val
  PROVE  IsMsg(Mutable(m, f)) /\ Mutable(m, f).class = m.class
<1> DEFINE w == [g \in DOMAIN m.val |-> m.val[g]]
           h == m.has \union {f}
           r == Mutable(m, f)
<1>1. Becomes(r, m, h, m.unknown, w)
  BY MutableMade DEF IsMsg, Proper
<1>2. h \subseteq DOMAIN m.val /\ IsSeq(m.unknown) /\
      \A i \in 1..Len(m.unknown) : Foreign(m.class, m.unknown[i])
  BY DEF IsMsg, Proper, Shaped
<1>3. \A g \in DOMAIN m.val : IsValue(KindOf(m, g), w[g]) /\ (g \notin h => w[g] = Default(m, g))
  BY DEF IsMsg, Proper
<1>5. \A g \in Messages(m) : IsToken(w[g])
  BY DEF IsMsg, Messages
<1> HIDE DEF w, h, r
<1>6. IsMsg(r) /\ r.class = m.class
  BY <1>1, <1>2, <1>3, <1>5, BecomesMsg
<1> QED BY <1>6 DEF r

\* A member set back to its default, has bit and all.
LEMMA ResetIsMsg ==
  ASSUME NEW m, IsMsg(m), NEW f \in DOMAIN m.val, NEW r,
         Becomes(r, m, m.has \ {f}, m.unknown,
           [g \in DOMAIN m.val |-> IF g = f THEN Default(m, f) ELSE m.val[g]])
  PROVE  IsMsg(r) /\ r.class = m.class
<1> DEFINE w == [g \in DOMAIN m.val |-> IF g = f THEN Default(m, f) ELSE m.val[g]]
           h == m.has \ {f}
<1>1. Becomes(r, m, h, m.unknown, w)
  OBVIOUS
<1>2. h \subseteq DOMAIN m.val /\ IsSeq(m.unknown) /\
      \A i \in 1..Len(m.unknown) : Foreign(m.class, m.unknown[i])
  BY DEF IsMsg, Proper, Shaped
<1>3. IsValue(KindOf(m, f), Default(m, f)) /\ (KindOf(m, f) = "message" => IsToken(Default(m, f)))
  BY DefaultIsValue DEF IsMsg, Proper
<1>4. \A g \in DOMAIN m.val : IsValue(KindOf(m, g), w[g]) /\ (g \notin h => w[g] = Default(m, g))
  BY <1>3 DEF IsMsg, Proper
<1>5. \A g \in Messages(m) : IsToken(w[g])
  BY <1>3 DEF IsMsg, Messages
<1> HIDE DEF w, h
<1> QED BY <1>1, <1>2, <1>4, <1>5, BecomesMsg

\* release_x keeps a message a message.
LEMMA ReleaseIsMsg ==
  ASSUME NEW m, IsMsg(m), NEW f \in DOMAIN m.val
  PROVE  IsMsg(Release(m, f)) /\ Release(m, f).class = m.class
BY ReleaseMade, ResetIsMsg DEF IsMsg, Proper

\* clear_x keeps a message a message.
LEMMA ClearFieldIsMsg ==
  ASSUME NEW m, IsMsg(m), NEW f \in DOMAIN m.val
  PROVE  IsMsg(ClearField(m, f)) /\ ClearField(m, f).class = m.class
<1>1. (IF KindOf(m, f) = "message" THEN ClearToken(m.val[f]) ELSE Default(m, f)) = Default(m, f)
  <2>1. CASE KindOf(m, f) = "message"
    BY <2>1, ClearTokenIsNew, DefaultIsValue DEF IsMsg, Proper, Messages
  <2> QED BY <2>1
<1>2. Becomes(ClearField(m, f), m, m.has \ {f}, m.unknown,
              [g \in DOMAIN m.val |-> IF g = f
                THEN (IF KindOf(m, f) = "message" THEN ClearToken(m.val[f]) ELSE Default(m, f))
                ELSE m.val[g]])
  BY ClearFieldMade DEF IsMsg, Proper
<1>3. Becomes(ClearField(m, f), m, m.has \ {f}, m.unknown,
      [g \in DOMAIN m.val |-> IF g = f THEN Default(m, f) ELSE m.val[g]])
  BY <1>1, <1>2, Zenon
<1> QED BY <1>3, ResetIsMsg

\* A member of the token set through mutable_token.
LEMMA SetOfTokenIsMsg ==
  ASSUME NEW m, IsMsg(m), NEW f \in Messages(m), NEW g \in DOMAIN StpToken_fields, NEW v,
         IsValue(StpToken_fields[g].kind, v)
  PROVE  LET r == [Mutable(m, f) EXCEPT !.val[f] = Set(@, g, v)] IN IsMsg(r) /\ r.class = m.class
<1> DEFINE n == Mutable(m, f)
           t == Set(m.val[f], g, v)
           r == [n EXCEPT !.val[f] = Set(@, g, v)]
<1>1. Becomes(n, m, m.has \union {f}, m.unknown, [e \in DOMAIN m.val |-> m.val[e]])
  BY MutableMade DEF IsMsg, Proper
<1>2. IsMsg(n) /\ n.class = m.class
  BY MutableIsMsg DEF Messages
<1>3. f \in DOMAIN m.val /\ KindOf(m, f) = "message" /\ IsToken(m.val[f])
  BY DEF Messages, IsMsg
<1>4. IsToken(t)
  <2> DEFINE s == m.val[f]
  <2>1. Proper(s) /\ s.class = "StpToken"
    BY <1>3 DEF IsToken
  <2> HIDE DEF s
  <2>2. g \in DOMAIN s.val /\ KindOf(s, g) = StpToken_fields[g].kind
    BY <2>1 DEF Proper, Shaped, KindOf, Fields
  <2>3. Proper(Set(s, g, v)) /\ Set(s, g, v).class = "StpToken"
    BY <2>1, <2>2, SetIsProper
  <2> QED BY <2>3 DEF IsToken, s
<1>5. r = Set(n, f, t)
  <2>1. n.val[f] = m.val[f] /\ n.has = n.has \union {f} /\ f \in DOMAIN n.val
    BY <1>1, <1>3 DEF Becomes
  <2> HIDE DEF n
  <2>2. r = [n EXCEPT !.val[f] = t]
    BY <2>1
  <2> HIDE DEF r, t
  <2>3. IsMade(n)
    BY <1>2 DEF IsMsg, Proper
  <2> DEFINE e == [n EXCEPT !.has = n.has]
  <2>4. e = n
    BY <2>3 DEF IsMade
  <2>5. Set(n, f, t) = [e EXCEPT !.val = [n.val EXCEPT ![f] = t]]
    BY <2>1 DEF Set
  <2> QED BY <2>2, <2>4, <2>5
<1>6. f \in DOMAIN n.val /\ KindOf(n, f) = "message"
  BY <1>1, <1>2, <1>3 DEF Becomes, KindOf
<1> HIDE DEF n, t, r
<1>7. IsValue("message", t)
  BY DEF IsValue
<1>8. IsMsg(r) /\ r.class = m.class
  BY <1>2, <1>4, <1>5, <1>6, <1>7, SetIsMsg
<1> QED BY <1>8 DEF r, n

(* ---- MergeFrom ----------------------------------------------------------------- *)
\* Two messages of a class as MergeFrom has merged them when it has seen the
\* members of a set.
Mergeable(m, from) == IsMade(m) /\ Shaped(m) /\ Shaped(from) /\ from.class = m.class
MergedHas(m, from, s) == m.has \union (from.has \intersect s)
MergedVal(parts, m, from, s) ==
    [f \in DOMAIN m.val |-> IF f \in from.has \intersect s THEN Member(parts, from, f)
      ELSE m.val[f]]
Merged(r, parts, m, from, s) ==
    Becomes(r, m, MergedHas(m, from, s), m.unknown, MergedVal(parts, m, from, s))
Seen(c, i) == {Merges[c][j] : j \in 1..i}

\* One slot of MergeFrom.
LEMMA CopyMerges ==
  ASSUME NEW parts, NEW m, NEW from, Mergeable(m, from), NEW s, NEW x, Merged(x, parts, m, from, s),
         NEW f \in DOMAIN m.val
  PROVE  Merged(Copy(parts, x, from, f), parts, m, from, s \union {f})
<1> DEFINE v == Member(parts, from, f)
<1>1. /\ IsMade(x) /\ x.class = m.class /\ x.has = m.has \union (from.has \intersect s) /\
           x.unknown = m.unknown
      /\ DOMAIN x.val = DOMAIN m.val
      /\ \A g \in DOMAIN m.val : x.val[g] = IF g \in from.has \intersect s
           THEN Member(parts, from, g) ELSE m.val[g]
  BY DEF Merged, Becomes, MergedHas, MergedVal
<1>2. CASE f \in from.has
  <2> DEFINE y == Set(x, f, v)
  <2>1. Becomes(y, x, x.has \union {f}, x.unknown,
        [g \in DOMAIN x.val |-> IF g = f THEN v ELSE x.val[g]])
    <3>1. f \in DOMAIN x.val /\ IsMade(x)
      BY <1>1
    <3> HIDE DEF v
    <3> QED BY <3>1, SetMade
  <2>2. Copy(parts, x, from, f) = y
    BY <1>2 DEF Copy
  <2> HIDE DEF y
  <2>3. /\ IsMade(y) /\ y.class = m.class /\ y.has = x.has \union {f} /\ y.unknown = m.unknown
        /\ DOMAIN y.val = DOMAIN m.val
        /\ \A g \in DOMAIN m.val : y.val[g] = IF g = f THEN v ELSE x.val[g]
    BY <1>1, <2>1 DEF Becomes
  <2>4. y.has = m.has \union (from.has \intersect (s \union {f}))
    BY <1>1, <1>2, <2>3
  <2>5. \A g \in DOMAIN m.val : y.val[g] = IF g \in from.has \intersect (s \union {f})
        THEN Member(parts, from, g) ELSE m.val[g]
    BY <1>1, <1>2, <2>3
  <2> QED BY <2>2, <2>3, <2>4, <2>5 DEF Merged, Becomes, MergedHas, MergedVal
<1>3. CASE f \notin from.has
  <2>1. Copy(parts, x, from, f) = x /\ from.has \intersect (s \union {f}) = from.has \intersect s
    BY <1>3 DEF Copy
  <2> QED BY <2>1 DEF Merged, MergedHas, MergedVal
<1> QED BY <1>2, <1>3

\* The first i slots of MergeFrom.
LEMMA MergingMerges ==
  ASSUME NEW parts, NEW m, NEW from, Mergeable(m, from), NEW i \in 0..Width(m.class)
  PROVE  Merged(Merging(parts, m, from)[i], parts, m, from, Seen(m.class, i))
<1> DEFINE n == Width(m.class)
           To == Merging(parts, m, from)
           S == {k \in Nat : k <= n => Merged(To[k], parts, m, from, Seen(m.class, k))}
<1>0. n \in Nat /\ i \in Nat /\ i <= n /\ \A j \in 1..n : Merges[m.class][j] \in DOMAIN m.val
  <2>1. Agreeing(m.class) /\ DOMAIN m.val = DOMAIN Fields[m.class]
    BY AllTables DEF Tables, Mergeable, Shaped
  <2> QED BY <2>1 DEF Agreeing, SlotAgrees
<1>1. /\ To[0] = m
      /\ \A j \in 1..n : To[j] = Copy(parts, To[j - 1], from, Merges[m.class][j])
  BY <1>0, MergingStep DEF Width
<1> HIDE DEF n, To
<1>2. 0 \in S
  <2>1. IsMade(m) /\ Seen(m.class, 0) = {}
    BY DEF Mergeable, Seen
  <2>2. Merged(m, parts, m, from, {})
    BY <2>1 DEF Merged, Becomes, MergedHas, MergedVal
  <2> QED BY <1>1, <2>1, <2>2
<1>3. ASSUME NEW k \in Nat, k < i, k \in S PROVE k + 1 \in S
  <2>1. k + 1 \in 1..n /\ (k + 1) - 1 = k
    BY <1>0, <1>3
  <2>2. To[k + 1] = Copy(parts, To[k], from, Merges[m.class][k + 1])
    BY <1>1, <2>1
  <2>3. Seen(m.class, k + 1) = Seen(m.class, k) \union {Merges[m.class][k + 1]}
    <3>1. 1..(k + 1) = (1..k) \union {k + 1}
      BY <1>3
    <3> QED BY <3>1 DEF Seen
  <2>4. Merged(To[k], parts, m, from, Seen(m.class, k))
    BY <1>0, <1>3
  <2> QED BY <1>0, <2>1, <2>2, <2>3, <2>4, CopyMerges
<1>4. i \in S
  <2> HIDE DEF S
  <2>1. \A k \in 0..i : k \in S
    BY <1>0, <1>2, <1>3, UpTo
  <2> QED BY <1>0, <2>1
<1> QED BY <1>0, <1>4 DEF To

\* What MergeFrom makes of a message.
LEMMA MergeWithMade ==
  ASSUME NEW parts, NEW m, NEW from, Mergeable(m, from)
  PROVE  Becomes(MergeWith(parts, m, from), m, m.has \union from.has, m.unknown \o from.unknown,
                 [f \in DOMAIN m.val |-> IF f \in from.has THEN Member(parts, from, f)
                   ELSE m.val[f]])
<1> DEFINE n == Width(m.class)
           x == Merging(parts, m, from)[n]
           u == m.unknown \o from.unknown
           w == [f \in DOMAIN m.val |-> IF f \in from.has THEN Member(parts, from, f) ELSE m.val[f]]
           e == [f \in DOMAIN x.val |-> x.val[f]]
           y == MergeWith(parts, m, from)
<1>0. Agreeing(m.class) /\ Covering(m.class) /\ from.has \subseteq DOMAIN m.val /\
      DOMAIN m.val = DOMAIN Fields[m.class]
  BY AllTables DEF Tables, Mergeable, Shaped
<1>1. n \in Nat /\ from.has \intersect Seen(m.class, n) = from.has
  BY <1>0 DEF Agreeing, Covering, Seen
<1>2. Merged(x, parts, m, from, Seen(m.class, n))
  BY <1>1, MergingMerges
<1>3. y = [x EXCEPT !.unknown = @ \o from.unknown]
  BY DEF MergeWith, Width
<1> HIDE DEF n, x, y
<1>4. /\ IsMade(x) /\ x.class = m.class /\ x.has = m.has \union from.has /\ x.unknown = m.unknown
      /\ DOMAIN x.val = DOMAIN m.val /\ \A f \in DOMAIN m.val : x.val[f] = w[f]
  BY <1>1, <1>2 DEF Merged, Becomes, MergedHas, MergedVal
<1> HIDE DEF w
<1>5. y = [x EXCEPT !.unknown = u]
  BY <1>3, <1>4
<1> HIDE DEF u
<1>6. Becomes(y, x, x.has, u, x.val)
  <2>1. Becomes([x EXCEPT !.unknown = u], x, x.has, u, x.val)
    BY <1>4, UnknownMade
  <2> QED BY <1>5, <2>1, Zenon
<1>7. Becomes(y, m, m.has \union from.has, u, w)
  BY <1>4, <1>6 DEF Becomes
<1> QED BY <1>7 DEF u, w, y

\* The unknown fields of two messages, one behind the other, are foreign.
LEMMA ForeignJoined ==
  ASSUME NEW c, NEW u, IsSeq(u), NEW w, IsSeq(w),
         \A i \in 1..Len(u) : Foreign(c, u[i]), \A i \in 1..Len(w) : Foreign(c, w[i])
  PROVE  IsSeq(u \o w) /\ \A i \in 1..Len(u \o w) : Foreign(c, (u \o w)[i])
<1> DEFINE v == u \o w
           m == Len(u)
           n == Len(w)
<1>1. /\ m \in Nat /\ n \in Nat /\ IsSeq(v) /\ Len(v) = m + n
      /\ \A i \in 1..m : v[i] = u[i]
      /\ \A i \in 1..n : v[m + i] = w[i]
  BY Joined, SeqLen
<1>2. (\A i \in 1..m : Foreign(c, u[i])) /\ (\A i \in 1..n : Foreign(c, w[i]))
  OBVIOUS
<1> HIDE DEF v, m, n
<1>3. ASSUME NEW i \in 1..Len(v) PROVE Foreign(c, v[i])
  <2>1. CASE i <= m
    BY <1>1, <1>2, <2>1
  <2>2. CASE i > m
    <3>1. i - m \in 1..n /\ m + (i - m) = i
      BY <1>1, <2>2
    <3> QED BY <1>1, <1>2, <3>1
  <2> QED BY <1>1, <2>1, <2>2
<1> QED BY <1>1, <1>3 DEF v

\* Merging keeps a message a message.
LEMMA MergeWithIsMsg ==
  ASSUME NEW m, IsMsg(m), NEW from, IsMsg(from), from.class = m.class, NEW parts,
         \A f \in Messages(m) : IsToken(parts[f])
  PROVE  IsMsg(MergeWith(parts, m, from)) /\ MergeWith(parts, m, from).class = m.class
<1> DEFINE r == MergeWith(parts, m, from)
           h == m.has \union from.has
           u == m.unknown \o from.unknown
           w == [f \in DOMAIN m.val |-> IF f \in from.has THEN Member(parts, from, f) ELSE m.val[f]]
<1>0. Shaped(m) /\ Shaped(from) /\ IsMade(m) /\ DOMAIN from.val = DOMAIN m.val /\
      Messages(from) = Messages(m)
  BY DEF IsMsg, Proper, Shaped, Messages, KindOf
<1>1. Becomes(r, m, h, u, w)
  BY <1>0, MergeWithMade DEF Mergeable
<1>2. h \subseteq DOMAIN m.val
  BY <1>0 DEF Shaped
<1>3. IsSeq(u) /\ \A i \in 1..Len(u) : Foreign(m.class, u[i])
  <2>1. /\ IsSeq(m.unknown) /\ \A i \in 1..Len(m.unknown) : Foreign(m.class, m.unknown[i])
        /\ IsSeq(from.unknown) /\ \A i \in 1..Len(from.unknown) : Foreign(m.class, from.unknown[i])
    BY DEF IsMsg, Proper
  <2> QED BY <2>1, ForeignJoined
<1>4. \A f \in DOMAIN m.val : KindOf(from, f) = KindOf(m, f) /\ Default(from, f) = Default(m, f)
  BY DEF KindOf, Default
<1>5. ASSUME NEW g \in DOMAIN m.val
      PROVE  IsValue(KindOf(m, g), w[g]) /\ (g \notin h => w[g] = Default(m, g))
  <2>1. /\ IsValue(KindOf(m, g), m.val[g]) /\ IsValue(KindOf(m, g), from.val[g])
        /\ g \notin m.has => m.val[g] = Default(m, g)
    BY <1>0, <1>4 DEF IsMsg, Proper
  <2>2. KindOf(m, g) = "message" => IsValue(KindOf(m, g), parts[g])
    BY DEF IsValue
  <2> QED BY <1>4, <2>1, <2>2 DEF Member
<1>6. \A g \in Messages(m) : IsToken(w[g])
  BY <1>4 DEF Messages, Member, IsMsg
<1> HIDE DEF r, h, u, w
<1>7. IsMsg(r) /\ r.class = m.class
  BY <1>1, <1>2, <1>3, <1>5, <1>6, BecomesMsg
<1> QED BY <1>7 DEF r

\* Merging keeps a token a token.
LEMMA MergeTokenIsToken ==
  ASSUME NEW t, IsToken(t), NEW from, IsToken(from)
  PROVE  IsToken(MergeToken(t, from))
<1>1. Messages(t) = {}
  BY TokensHaveNoMessages DEF IsToken, Proper
<1> QED BY <1>1, TokenIsMsg, MergeWithIsMsg DEF MergeToken

\* MergeFrom keeps a message a message.
LEMMA MergeFromIsMsg ==
  ASSUME NEW m, IsMsg(m), NEW from, IsMsg(from), from.class = m.class
  PROVE  IsMsg(MergeFrom(m, from)) /\ MergeFrom(m, from).class = m.class
<1> DEFINE parts == [f \in Messages(m) |-> MergeToken(m.val[f], from.val[f])]
<1>1. Messages(from) = Messages(m)
  BY DEF IsMsg, Proper, Shaped, Messages, KindOf
<1>2. \A f \in Messages(m) : IsToken(parts[f])
  BY <1>1, MergeTokenIsToken DEF IsMsg
<1> HIDE DEF parts
<1>3. IsMsg(MergeWith(parts, m, from)) /\ MergeWith(parts, m, from).class = m.class
  BY <1>2, MergeWithIsMsg
<1> QED BY <1>3 DEF MergeFrom, parts

\* Into a new message everything is merged as it is.
LEMMA MergeWithNew ==
  ASSUME NEW x, IsMsg(x), NEW parts, \A f \in Messages(x) : f \in x.has => parts[f] = x.val[f]
  PROVE  MergeWith(parts, New(x.class), x) = x
<1> DEFINE n == New(x.class)
           r == MergeWith(parts, n, x)
           u == n.unknown \o x.unknown
<1>0. Shaped(x) /\ IsMade(x) /\ x.class \in Classes
  BY DEF IsMsg, Proper, Shaped
<1>1. IsMsg(n) /\ n.class = x.class
  BY <1>0, NewIsMsg
<1>2. /\ IsMade(n) /\ n.has = {} /\ n.unknown = << >> /\ DOMAIN n.val = DOMAIN Fields[x.class]
      /\ \A f \in DOMAIN Fields[x.class] : n.val[f] = Fields[x.class][f].default
  BY <1>0, NewMade
<1>3. DOMAIN n.val = DOMAIN x.val /\ \A f \in DOMAIN x.val : f \notin x.has => n.val[f] = x.val[f]
  BY <1>0, <1>2 DEF IsMsg, Proper, Shaped, Default
<1> HIDE DEF n
<1>4. Becomes(r, n, n.has \union x.has, u,
              [f \in DOMAIN n.val |-> IF f \in x.has THEN Member(parts, x, f) ELSE n.val[f]])
  <2>1. Mergeable(n, x)
    BY <1>0, <1>1, <1>2 DEF Mergeable, IsMsg, Proper
  <2> QED BY <2>1, MergeWithMade, ZenonT(60)
<1>5. u = x.unknown
  <2>1. IsSeq(x.unknown)
    BY DEF IsMsg, Proper
  <2>2. << >> \o x.unknown = x.unknown
    BY <2>1 DEF IsSeq
  <2> QED BY <1>2, <2>2
<1>6. \A f \in x.has : Member(parts, x, f) = x.val[f]
  BY <1>0 DEF Member, Messages, Shaped
<1> HIDE DEF r, u
<1>7. /\ IsMade(r) /\ r.class = x.class /\ r.has = x.has /\ r.unknown = x.unknown /\
           DOMAIN r.val = DOMAIN x.val
      /\ \A f \in DOMAIN x.val : r.val[f] = x.val[f]
  BY <1>1, <1>2, <1>3, <1>4, <1>5, <1>6 DEF Becomes
<1>8. r = x
  BY <1>0, <1>7, SameMade
<1> QED BY <1>8 DEF r, n

\* Merged into a new token, a token is copied.
LEMMA MergeTokenIntoNew ==
  ASSUME NEW t, IsToken(t)
  PROVE  MergeToken(New("StpToken"), t) = t
<1>1. Messages(t) = {} /\ IsMsg(t) /\ t.class = "StpToken"
  BY TokenIsMsg, TokensHaveNoMessages DEF IsToken, Proper
<1>2. MergeWith(NoParts, New(t.class), t) = t
  BY <1>1, MergeWithNew
<1> QED BY <1>1, <1>2 DEF MergeToken

\* Merged into a new object, a message is copied.
LEMMA MergeIntoNew ==
  ASSUME NEW x, IsMsg(x)
  PROVE  MergeFrom(New(x.class), x) = x
<1> DEFINE n == New(x.class)
           parts == [f \in Messages(n) |-> MergeToken(n.val[f], x.val[f])]
<1>1. \A f \in Messages(x) : parts[f] = x.val[f]
  <2> TAKE f \in Messages(x)
  <2>1. IsToken(x.val[f]) /\ Shaped(x) /\ x.class \in Classes
    BY DEF IsMsg, Proper, Shaped
  <2>2. IsMsg(n) /\ n.class = x.class
    BY <2>1, NewIsMsg
  <2>3. f \in Messages(n)
    BY <2>1, <2>2 DEF Messages, IsMsg, Proper, Shaped, KindOf
  <2>4. n.val[f] = New("StpToken")
    BY <2>1, <2>3, NewIsProper
  <2> HIDE DEF n
  <2> QED BY <2>1, <2>3, <2>4, MergeTokenIntoNew
<1> HIDE DEF parts
<1>2. MergeWith(parts, n, x) = x
  BY <1>1, MergeWithNew
<1> QED BY <1>2 DEF MergeFrom, parts

\* CopyFrom leaves nothing of what the object was.
LEMMA CopyIsFrom ==
  ASSUME NEW m, IsMsg(m), NEW x, IsMsg(x), x.class = m.class
  PROVE  CopyFrom(m, x) = x
BY ClearIsNewOfClass, MergeIntoNew DEF CopyFrom

(* ---- ByteSize and what is written ---------------------------------------------- *)
Writable(kind, v) == (kind \in Varints => v \in Int) /\ (kind \in Delimited => v.len \in Nat)

\* A written field has the size that was computed for it.
LEMMA WrittenLength ==
  ASSUME NEW kind \in Kinds, NEW num, NEW v, Writable(kind, v)
  PROVE  /\ IsField(WriteField(kind, num, v))
         /\ FieldLength(WriteField(kind, num, v)) = 1 + KindSize(kind, v)
<1> DEFINE f == WriteField(kind, num, v)
<1>1. CASE kind \in Varints
  <2>1. f = [num |-> num, wt |-> "varint", n |-> v % Word64, data |-> NoBytes]
    BY <1>1 DEF WriteField, Varint
  <2> DEFINE x == v % Word64
  <2>2. x \in 0..Word64 - 1
    BY <1>1, WidthAssumption DEF Writable
  <2> HIDE DEF x, f
  <2>3. f.wt = "varint" /\ f.n = x /\ f.data = NoBytes
    BY <2>1 DEF x
  <2>4. FieldLength(f) = 1 + VarintSize(x)
    BY <2>3 DEF FieldLength
  <2>5. KindSize(kind, v) = VarintSize(x)
    BY <1>1 DEF KindSize, x
  <2>6. IsField(f)
    BY <2>2, <2>3, ZeroIsValue DEF IsField
  <2> QED BY <2>4, <2>5, <2>6 DEF f
<1>2. CASE kind \notin Varints
  <2>1. f = [num |-> num, wt |-> "delimited", n |-> 0, data |-> v]
    BY <1>2 DEF WriteField, Payload
  <2>2. v.len \in Nat
    BY <1>2 DEF Writable, Delimited, Varints, Kinds
  <2> HIDE DEF f
  <2>3. f.wt = "delimited" /\ f.n = 0 /\ f.data = v
    BY <2>1
  <2>4. FieldLength(f) = 1 + (VarintSize(v.len) + v.len)
    BY <2>3 DEF FieldLength
  <2>5. KindSize(kind, v) = VarintSize(v.len) + v.len
    BY <1>2 DEF KindSize
  <2>6. IsField(f)
    BY <2>2, <2>3, ZeroIsValue DEF IsField
  <2> QED BY <2>4, <2>5, <2>6 DEF f
<1> QED BY <1>1, <1>2

\* A message all set members of which can be written.
AllWritable(parts, m) ==
    /\ Shaped(m) /\ IsWire(m.unknown)
    /\ \A f \in m.has : Writable(KindOf(m, f), Member(parts, m, f))

\* The first i slots of the writing and of ByteSize.
LEMMA WritingLength ==
  ASSUME NEW parts, NEW m, AllWritable(parts, m), NEW i \in 0..Width(m.class)
  PROVE  IsWire(Writing(parts, m)[i]) /\ Adding(parts, m)[i] = WireLength(Writing(parts, m)[i])
<1> DEFINE n == Width(m.class)
           Out == Writing(parts, m)
           Sum == Adding(parts, m)
           S == {k \in Nat : k <= n => IsWire(Out[k]) /\ Sum[k] = WireLength(Out[k])}
<1>0. /\ n \in Nat /\ i \in Nat /\ i <= n /\ Len(Writes[m.class]) = n /\ Len(Sizes[m.class]) = n
      /\ \A j \in 1..n : SlotAgrees(m.class, j)
  <2>1. Agreeing(m.class)
    BY AllTables DEF Tables, AllWritable, Shaped
  <2> QED BY <2>1 DEF Agreeing
<1>1. /\ Out[0] = << >>
      /\ \A j \in 1..n : Out[j] = Write(parts, m, Out[j - 1], Writes[m.class][j][1],
           Writes[m.class][j][2], Writes[m.class][j][3])
  BY <1>0, WritingStep
<1>2. /\ Sum[0] = 0
      /\ \A j \in 1..n : Sum[j] = AddSize(parts, m, Sum[j - 1], Sizes[m.class][j][1],
           Sizes[m.class][j][2])
  BY <1>0, AddingStep, SMTT(60)
<1> HIDE DEF n, Out, Sum
<1>3. 0 \in S
  <2>1. IsSeq(Out[0]) /\ Len(Out[0]) = 0 /\ WireLength(Out[0]) = 0
    BY <1>1, NoElements, WireLengthEmpty
  <2> QED BY <1>2, <2>1 DEF IsWire
<1>4. ASSUME NEW k \in Nat, k < i, k \in S PROVE k + 1 \in S
  <2> DEFINE f == Merges[m.class][k + 1]
             kind == KindOf(m, f)
             v == Member(parts, m, f)
  <2>1. k + 1 \in 1..n /\ (k + 1) - 1 = k
    BY <1>0, <1>4
  <2>2. /\ kind \in Kinds /\ Writes[m.class][k + 1] = <<k + 1, f, kind>> /\
             Sizes[m.class][k + 1] = <<f, kind>>
    BY <1>0, <2>1 DEF SlotAgrees, KindOf
  <2> HIDE DEF f, kind
  <2>3. Out[k + 1] = Write(parts, m, Out[k], k + 1, f, kind) /\
        Sum[k + 1] = AddSize(parts, m, Sum[k], f, kind)
    BY <1>1, <1>2, <2>1, <2>2
  <2>4. IsWire(Out[k]) /\ Sum[k] = WireLength(Out[k])
    BY <1>0, <1>4
  <2>5. CASE f \in m.has
    <3> DEFINE x == WriteField(kind, k + 1, v)
    <3>1. Out[k + 1] = Append(Out[k], x) /\ Sum[k + 1] = Sum[k] + (1 + KindSize(kind, v))
      BY <2>3, <2>5 DEF Write, AddSize
    <3>2. Writable(kind, v)
      BY <2>5 DEF AllWritable, kind
    <3>3. IsField(x) /\ FieldLength(x) = 1 + KindSize(kind, v)
      BY <2>2, <3>2, WrittenLength
    <3> HIDE DEF x
    <3>4. IsWire(Append(Out[k], x))
      BY <2>4, <3>3, WireAppended
    <3>5. WireLength(Append(Out[k], x)) = WireLength(Out[k]) + FieldLength(x)
      BY <2>4, WireLengthAppended DEF IsWire
    <3>6. IsWire(Out[k + 1]) /\ Sum[k + 1] = WireLength(Out[k + 1])
      BY <2>4, <3>1, <3>3, <3>4, <3>5, Zenon
    <3> QED BY <3>6
  <2>6. CASE f \notin m.has
    <3>1. Out[k + 1] = Out[k] /\ Sum[k + 1] = Sum[k]
      BY <2>3, <2>6 DEF Write, AddSize
    <3> QED BY <2>4, <3>1
  <2> QED BY <2>5, <2>6
<1>5. i \in S
  <2> HIDE DEF S
  <2>1. \A k \in 0..i : k \in S
    BY <1>0, <1>3, <1>4, UpTo
  <2> QED BY <1>0, <2>1
<1> QED BY <1>0, <1>5 DEF Out, Sum

\* The size is the length of what is written.
LEMMA SizeIsLength ==
  ASSUME NEW parts, NEW m, AllWritable(parts, m)
  PROVE  /\ IsWire(SerializeWith(parts, m)) /\
              SizeWith(parts, m) = WireLength(SerializeWith(parts, m))
         /\ SizeWith(parts, m) \in Nat
<1> DEFINE n == Width(m.class)
           w == Writing(parts, m)[n]
           u == m.unknown
<1>1. n \in 0..Width(m.class) /\ Len(Writes[m.class]) = n /\ Len(Sizes[m.class]) = n
  <2>1. Agreeing(m.class)
    BY AllTables DEF Tables, AllWritable, Shaped
  <2> QED BY <2>1 DEF Agreeing
<1>2. IsWire(w) /\ Adding(parts, m)[n] = WireLength(w)
  BY <1>1, WritingLength
<1>3. IsWire(u)
  BY DEF AllWritable
<1>4. SerializeWith(parts, m) = w \o u /\ SizeWith(parts, m) = WireLength(w) + WireLength(u)
  BY <1>1, <1>2 DEF SerializeWith, SizeWith
<1> HIDE DEF w, u
<1>5. IsWire(w \o u) /\ WireLength(w \o u) = WireLength(w) + WireLength(u)
  BY <1>2, <1>3, WireJoined, WireLengthJoined
<1>6. WireLength(w \o u) \in Nat
  BY <1>5, WireLengthNat
<1> QED BY <1>4, <1>5, <1>6, Zenon

\* A proper message can be written.
LEMMA ProperWritable ==
  ASSUME NEW m, Proper(m), NEW parts, \A f \in Messages(m) : parts[f].len \in Nat
  PROVE  AllWritable(parts, m)
<1>1. Shaped(m) /\ m.has \subseteq DOMAIN m.val
  BY DEF Proper, Shaped
<1>2. IsWire(m.unknown)
  BY DEF Proper, IsWire, Foreign
<1>3. ASSUME NEW f \in m.has PROVE Writable(KindOf(m, f), Member(parts, m, f))
  <2>1. IsValue(KindOf(m, f), m.val[f])
    BY <1>1 DEF Proper
  <2>2. Int32 \subseteq Int /\ Int64 \subseteq Int /\ 0 .. Word64 - 1 \subseteq Int
    BY DEF Int32, Int64
  <2>3. KindOf(m, f) = "message" => parts[f].len \in Nat
    BY <1>1 DEF Messages
  <2> QED BY <2>1, <2>2, <2>3 DEF IsValue, Writable, Member, Varints, Delimited
<1> QED BY <1>1, <1>2, <1>3 DEF AllWritable

\* The encoding of a message, its length announced and its length.
Framed(e) == e.text = "" /\ e.len \in Nat /\ e.len = WireLength(e.body) /\ IsWire(e.body)

\* The bytes of a token have the length ByteSize cached.
LEMMA TokenFramed ==
  ASSUME NEW t, IsToken(t)
  PROVE  Framed(TokenBytes(t))
<1>1. AllWritable(NoParts, t)
  <2>1. Messages(t) = {} /\ Proper(t)
    BY TokensHaveNoMessages DEF IsToken, Proper
  <2> QED BY <2>1, ProperWritable
<1>2. /\ TokenBytes(t).text = "" /\ TokenBytes(t).len = SizeWith(NoParts, t)
      /\ TokenBytes(t).body = SerializeWith(NoParts, t)
  BY DEF TokenBytes, Encoding
<1> QED BY <1>1, <1>2, SizeIsLength DEF Framed

\* A message can be written.
LEMMA MsgWritable ==
  ASSUME NEW m, IsMsg(m)
  PROVE  AllWritable(Parts(m), m)
<1>1. \A f \in Messages(m) : Parts(m)[f].len \in Nat
  BY TokenFramed DEF IsMsg, Parts, Framed
<1> QED BY <1>1, ProperWritable DEF IsMsg

\* The bytes of a message have the length ByteSize computed.
LEMMA MsgFramed ==
  ASSUME NEW m, IsMsg(m)
  PROVE  Framed(Bytes(m)) /\ Bytes(m).len = ByteSize(m)
<1>1. AllWritable(Parts(m), m)
  BY MsgWritable
<1>2. /\ Bytes(m).text = "" /\ Bytes(m).len = SizeWith(Parts(m), m)
      /\ Bytes(m).body = SerializeWith(Parts(m), m)
  BY DEF Bytes, Encoding, ByteSize
<1> QED BY <1>1, <1>2, SizeIsLength DEF Framed, ByteSize

(* ---- the width of the integers ------------------------------------------------- *)
\* A multiple of y between -y and y is 0.
LEMMA NoMultiple ==
  ASSUME NEW y \in Nat, y > 0, NEW k \in Int, y * k < y, -y < y * k
  PROVE  k = 0
<1>1. CASE k >= 1
  <2>1. y * k >= y
    <3>1. \E d \in Nat : k = d + 1
      BY <1>1
    <3>2. PICK d \in Nat : k = d + 1
      BY <3>1
    <3>3. y * k = y * d + y /\ y * d >= 0
      BY <3>2
    <3> QED BY <3>3
  <2> QED BY <2>1
<1>2. CASE k <= -1
  <2>1. y * k <= -y
    <3>1. \E d \in Nat : k = -d - 1
      BY <1>2
    <3>2. PICK d \in Nat : k = -d - 1
      BY <3>1
    <3>3. y * k = -(y * d) - y /\ y * d >= 0
      BY <3>2
    <3> QED BY <3>3
  <2> QED BY <2>1
<1> QED BY <1>1, <1>2

\* A remainder is what one says it is.
LEMMA Remainder ==
  ASSUME NEW y \in Nat, y > 0, NEW k \in Int, NEW r \in Nat, r < y
  PROVE  (y * k + r) % y = r
<1> DEFINE x == y * k + r
           q == x \div y
           s == x % y
<1>1. x \in Int /\ q \in Int /\ s \in 0..y - 1 /\ x = y * q + s
  OBVIOUS
<1> HIDE DEF q, s
<1>2. y * k + r = y * q + s
  BY <1>1
<1>3. y * (k - q) = s - r
  <2>1. y * (k - q) = y * k - y * q
    BY <1>1
  <2>2. y * k \in Int /\ y * q \in Int
    BY <1>1
  <2> QED BY <1>1, <1>2, <2>1, <2>2
<1>4. -y < y * (k - q) /\ y * (k - q) < y
  BY <1>1, <1>3
<1>5. k - q = 0
  BY <1>1, <1>4, NoMultiple
<1>6. k = q
  BY <1>1, <1>5
<1>7. s = r
  BY <1>1, <1>2, <1>6
<1> QED BY <1>7 DEF s

\* A signed number cut to its width is read back.
LEMMA SignedRead ==
  ASSUME NEW w \in Nat, w > 0, NEW v \in -(w \div 2) .. w \div 2 - 1, NEW k \in Int, NEW x,
         x = w * k + v
  PROVE  Signed(x % w, w) = v
<1>0. v \in Int /\ w \div 2 \in Nat /\ 2 * (w \div 2) <= w /\ v < w \div 2 /\ v >= -(w \div 2)
  OBVIOUS
<1>1. CASE v >= 0
  <2>1. x % w = v
    <3>1. v \in Nat /\ v < w
      BY <1>0, <1>1
    <3>2. (w * k + v) % w = v
      BY <3>1, Remainder, Zenon
    <3> QED BY <3>2, Zenon
  <2> QED BY <1>0, <2>1 DEF Signed
<1>2. CASE v < 0
  <2>1. w * (k - 1) = w * k - w
    OBVIOUS
  <2>2. x = w * (k - 1) + (v + w)
    BY <1>0, <2>1
  <2>3. v + w \in Nat /\ v + w < w /\ ~(v + w < w \div 2)
    BY <1>0, <1>2
  <2>4. x % w = v + w
    <3>1. k - 1 \in Int
      OBVIOUS
    <3>2. (w * (k - 1) + (v + w)) % w = v + w
      BY <2>3, <3>1, Remainder, Zenon
    <3> QED BY <2>2, <3>2, Zenon
  <2> QED BY <1>0, <2>3, <2>4 DEF Signed
<1> QED BY <1>0, <1>1, <1>2

\* What is written of a value is read as the value.
LEMMA ReadsWritten ==
  ASSUME NEW kind \in Kinds \ {"message"}, NEW num, NEW v, IsValue(kind, v)
  PROVE  /\ FitsKind(kind, WriteField(kind, num, v)) /\ ReadKind(kind, WriteField(kind, num, v)) = v
<1> DEFINE f == WriteField(kind, num, v)
<1>1. CASE kind \in Varints
  <2> DEFINE x == v % Word64
  <2>1. f = [num |-> num, wt |-> "varint", n |-> x, data |-> NoBytes]
    BY <1>1 DEF WriteField, Varint
  <2>2. Word64 \in Nat /\ Word64 > 0 /\ Word32 \in Nat /\ Word32 > 0 /\ Word64 % Word32 = 0
    BY WidthAssumption
  <2> HIDE DEF x, f
  <2>3. f.wt = "varint" /\ f.n = x
    BY <2>1
  <2>4. CASE kind = "uint64"
    <3>1. v \in 0..Word64 - 1
      BY <2>4 DEF IsValue
    <3>2. x = v
      BY <2>2, <3>1 DEF x
    <3> QED BY <1>1, <2>3, <2>4, <3>2 DEF FitsKind, ReadKind, f
  <2>5. CASE kind = "int64"
    <3>1. v \in -(Word64 \div 2) .. Word64 \div 2 - 1
      BY <2>5 DEF IsValue, Int64
    <3>2. v = Word64 * 0 + v
      BY <2>2, <3>1
    <3>3. Signed(v % Word64, Word64) = v
      <4> DEFINE k == 0
                 y == v
      <4>1. k \in Int /\ y = Word64 * k + v
        BY <3>2
      <4> HIDE DEF k, y
      <4>2. Signed(y % Word64, Word64) = v
        BY <2>2, <3>1, <4>1, SignedRead, Zenon
      <4> QED BY <4>2 DEF y
    <3> QED BY <1>1, <2>3, <2>5, <3>3 DEF FitsKind, ReadKind, f, x
  <2>6. CASE kind \in {"int32", "enum"}
    <3>1. v \in -(Word32 \div 2) .. Word32 \div 2 - 1
      BY <2>6 DEF IsValue, Int32
    <3> DEFINE q == v \div Word64
               p == Word64 \div Word32
    <3>2. v \in Int /\ q \in Int /\ x \in Int /\ v = Word64 * q + x
      BY <2>2, <3>1 DEF x
    <3>3. p \in Int /\ Word64 = Word32 * p
      BY <2>2
    <3> HIDE DEF q, p
    <3>4. Word64 * q = Word32 * (p * q)
      BY <2>2, <3>2, <3>3
    <3>5. Word32 * (-(p * q)) = -(Word32 * (p * q))
      BY <2>2, <3>2, <3>3
    <3>6. x = Word32 * (-(p * q)) + v
      <4>1. p * q \in Int /\ Word32 * (p * q) \in Int
        BY <2>2, <3>2, <3>3
      <4> QED BY <2>2, <3>2, <3>4, <3>5, <4>1
    <3>7. -(p * q) \in Int
      BY <3>2, <3>3
    <3>8. Signed(x % Word32, Word32) = v
      BY <2>2, <3>1, <3>6, <3>7, SignedRead, Zenon
    <3> QED BY <1>1, <2>3, <2>6, <3>8 DEF FitsKind, ReadKind, f
  <2> QED BY <1>1, <2>4, <2>5, <2>6 DEF Varints
<1>2. CASE kind \notin Varints
  <2>1. f = [num |-> num, wt |-> "delimited", n |-> 0, data |-> v]
    BY <1>2 DEF WriteField, Payload
  <2> HIDE DEF f
  <2>2. f.wt = "delimited" /\ f.data = v
    BY <2>1
  <2>3. kind \in Delimited
    BY <1>2 DEF Delimited, Varints, Kinds
  <2> QED BY <1>2, <2>2, <2>3 DEF FitsKind, ReadKind, Varints, f
<1> QED BY <1>1, <1>2

(* ---- reading one field --------------------------------------------------------- *)
\* The components of what reading answers.
LEMMA BegunParts ==
  ASSUME NEW m
  PROVE  Begun(m).ok = TRUE /\ Begun(m).msg = m /\ Failed(m).ok = FALSE /\ Failed(m).msg = m
BY DEF Begun, Failed

\* Reading a written member is setting it.
LEMMA ReadWritten ==
  ASSUME NEW y, y.class \in Classes, NEW i \in 1..Width(y.class), NEW g, g = Merges[y.class][i],
         NEW kind, kind = KindOf(y, g), kind # "message", NEW v, IsValue(kind, v), NEW sub
  PROVE  ReadField(Begun(y), WriteField(kind, i, v), sub) = Begun(Set(y, g, v))
<1> DEFINE f == WriteField(kind, i, v)
           res == Begun(y)
<1>1. Cases[y.class][i] = <<g, kind>> /\ i \in DOMAIN Cases[y.class] /\ kind \in Kinds \ {"message"}
  <2>1. Agreeing(y.class)
    BY AllTables DEF Tables
  <2> QED BY <2>1 DEF Agreeing, SlotAgrees, KindOf
<1>2. FitsKind(kind, f) /\ ReadKind(kind, f) = v
  BY <1>1, ReadsWritten
<1>3. f.num = i /\ f.wt \in {"varint", "delimited"}
  BY DEF WriteField, Varint, Payload
<1>4. res.ok = TRUE /\ res.msg = y
  BY BegunParts
<1> HIDE DEF f, res
<1>5. Cases[y.class][f.num][1] = g /\ Cases[y.class][f.num][2] = kind
  BY <1>1, <1>3
<1>6. Known(y, f)
  BY <1>1, <1>2, <1>3, <1>5 DEF Known
<1>7. ReadField(res, f, sub) = Store(y, f, sub)
  BY <1>3, <1>4, <1>6 DEF ReadField
<1>8. Store(y, f, sub) = [ok |-> TRUE, msg |-> Set(y, g, v)]
  <2>1. kind = "enum" => StpResult_IsValid(v)
    BY DEF IsValue
  <2> DEFINE s == Set(y, g, v)
  <2>2. s = Set(y, Cases[y.class][f.num][1], ReadKind(Cases[y.class][f.num][2], f))
    BY <1>2, <1>5
  <2> HIDE DEF s
  <2> QED BY <1>1, <1>2, <1>5, <2>1, <2>2 DEF Store, s
<1> QED BY <1>7, <1>8 DEF Begun, f, res

\* Reading a written token is setting what reading its bytes came to.
LEMMA ReadWrittenPart ==
  ASSUME NEW y, y.class \in Classes, NEW i \in 1..Width(y.class), NEW g, g = Merges[y.class][i],
         KindOf(y, g) = "message", NEW bytes, NEW t
  PROVE  /\ ReadField(Begun(y), WriteField("message", i, bytes), Begun(t)) = Begun(Set(y, g, t))
         /\ Cases[y.class][i][1] = g
<1> DEFINE f == WriteField("message", i, bytes)
           res == Begun(y)
           sub == Begun(t)
<1>1. Cases[y.class][i] = <<g, "message">> /\ i \in DOMAIN Cases[y.class]
  <2>1. Agreeing(y.class)
    BY AllTables DEF Tables
  <2> QED BY <2>1 DEF Agreeing, SlotAgrees, KindOf
<1>2. f.num = i /\ f.wt = "delimited"
  BY DEF WriteField, Payload, Varints
<1>4. res.ok = TRUE /\ res.msg = y /\ sub.ok = TRUE /\ sub.msg = t
  BY BegunParts
<1> HIDE DEF f, res, sub
<1>5. Cases[y.class][f.num][1] = g /\ Cases[y.class][f.num][2] = "message"
  BY <1>1, <1>2
<1>6. Known(y, f)
  BY <1>1, <1>2, <1>5 DEF Known, FitsKind, Delimited
<1>7. ReadField(res, f, sub) = Store(y, f, sub)
  BY <1>2, <1>4, <1>6 DEF ReadField
<1>8. Store(y, f, sub) = [ok |-> sub.ok, msg |-> Set(y, g, sub.msg)]
  BY <1>5 DEF Store
<1> QED BY <1>1, <1>4, <1>7, <1>8 DEF Begun, f, res, sub

\* A foreign field is kept as it is.
LEMMA ReadForeign ==
  ASSUME NEW y, NEW f, Foreign(y.class, f), NEW sub
  PROVE  ReadField(Begun(y), f, sub) = Begun(Keep(y, f))
<1> DEFINE res == Begun(y)
<1>1. res.ok = TRUE /\ res.msg = y
  BY BegunParts
<1>2. f.wt \notin {"cut", "end"}
  BY DEF Foreign
<1> HIDE DEF res
<1>3. CASE ~Known(y, f)
  <2>1. ReadField(res, f, sub) = [ok |-> TRUE, msg |-> Keep(y, f)]
    BY <1>1, <1>2, <1>3 DEF ReadField
  <2> QED BY <2>1 DEF Begun, res
<1>4. CASE Known(y, f)
  <2>1. /\ Cases[y.class][f.num][2] = "enum" /\ ~StpResult_IsValid(ReadKind("enum", f))
        /\ f = Varint(f.num, ReadKind("enum", f) % Word64)
    BY <1>4 DEF Foreign, Known
  <2>2. ReadField(res, f, sub) = Store(y, f, sub)
    BY <1>1, <1>2, <1>4 DEF ReadField
  <2> DEFINE v == ReadKind("enum", f)
  <2> HIDE DEF v
  <2>3. Store(y, f, sub) = [ok |-> TRUE, msg |-> Keep(y, Varint(f.num, v % Word64))]
    BY <2>1 DEF Store, v
  <2>4. Varint(f.num, v % Word64) = f
    BY <2>1 DEF v
  <2> QED BY <2>2, <2>3, <2>4 DEF Begun, res
<1> QED BY <1>3, <1>4

\* A field that ends too early fails.
LEMMA ReadCut ==
  ASSUME NEW y, NEW f, f.wt \in {"cut", "end"}, NEW sub
  PROVE  ReadField(Begun(y), f, sub) = Failed(y)
<1> DEFINE res == Begun(y)
<1>1. res.ok = TRUE /\ res.msg = y
  BY BegunParts
<1> HIDE DEF res
<1>2. ReadField(res, f, sub) = [ok |-> FALSE, msg |-> y]
  BY <1>1 DEF ReadField
<1> QED BY <1>2 DEF Failed, res

(* ---- reading sequences of fields ----------------------------------------------- *)
Read(m, w) == Reading(m, w)[Len(w)]

\* Reading up to a field depends on the fields up to it.
LEMMA SameReading ==
  ASSUME NEW m, NEW u, IsSeq(u), NEW w, IsSeq(w), NEW n \in 0..Len(u), n <= Len(w),
         \A i \in 1..n : u[i] = w[i]
  PROVE  Reading(m, u)[n] = Reading(m, w)[n]
<1> DEFINE p == Len(u)
           q == Len(w)
           S == {k \in Nat : k <= n => Reading(m, u)[k] = Reading(m, w)[k]}
<1>0. n \in Nat /\ p \in Nat /\ q \in Nat /\ n <= p /\ n <= q
  BY SeqLen
<1>1. Reading(m, u)[0] = Begun(m) /\ \A i \in 1..p :
      Reading(m, u)[i] = ReadNext(Reading(m, u)[i - 1], u[i])
  BY <1>0, ReadingStep, Zenon
<1>2. Reading(m, w)[0] = Begun(m) /\ \A i \in 1..q :
      Reading(m, w)[i] = ReadNext(Reading(m, w)[i - 1], w[i])
  BY <1>0, ReadingStep, Zenon
<1> HIDE DEF p, q
<1>3. 0 \in S
  BY <1>1, <1>2
<1>4. ASSUME NEW k \in Nat, k < n, k \in S PROVE k + 1 \in S
  <2>1. k + 1 \in 1..n /\ k + 1 \in 1..p /\ k + 1 \in 1..q /\ (k + 1) - 1 = k
    BY <1>0, <1>4
  <2>2. Reading(m, u)[k] = Reading(m, w)[k] /\ u[k + 1] = w[k + 1]
    BY <1>4, <2>1
  <2> QED BY <1>1, <1>2, <2>1, <2>2
<1> HIDE DEF S
<1>5. n \in S
  <2>1. \A k \in 0..n : k \in S
    BY <1>0, <1>3, <1>4, UpTo
  <2> QED BY <1>0, <2>1
<1> QED BY <1>0, <1>5 DEF S

\* Reading nothing changes nothing.
LEMMA ReadEmpty ==
  ASSUME NEW m, NEW e, e = << >>
  PROVE  Read(m, e) = Begun(m)
<1>1. Len(e) = 0
  BY NoElements
<1>2. Reading(m, e)[0] = Begun(m)
  BY <1>1, ReadingStep
<1> QED BY <1>1, <1>2 DEF Read

\* Reading one more field.
LEMMA ReadAppended ==
  ASSUME NEW m, NEW w, IsSeq(w), NEW f
  PROVE  Read(m, Append(w, f)) = ReadNext(Read(m, w), f)
<1> DEFINE v == Append(w, f)
           n == Len(w)
           p == Len(v)
<1>1. n \in Nat /\ IsSeq(v) /\ p = n + 1 /\ v[n + 1] = f /\ \A i \in 1..n : v[i] = w[i]
  BY Appended, SeqLen
<1>2. \A i \in 1..p : Reading(m, v)[i] = ReadNext(Reading(m, v)[i - 1], v[i])
  <2>1. Len(v) \in Nat
    BY <1>1
  <2> HIDE DEF v
  <2> QED BY <2>1, ReadingStep
<1> HIDE DEF v
<1>3. Reading(m, v)[n] = Reading(m, w)[n]
  <2>1. n \in 0..Len(v) /\ n <= Len(w) /\ IsSeq(v) /\ \A i \in 1..n : v[i] = w[i]
    BY <1>1
  <2> HIDE DEF n, p
  <2> QED BY <2>1, SameReading
<1> HIDE DEF n, p
<1>4. Reading(m, v)[n + 1] = ReadNext(Reading(m, v)[n], v[n + 1])
  <2>1. n + 1 \in 1..p /\ (n + 1) - 1 = n
    BY <1>1
  <2> QED BY <1>2, <2>1
<1>5. Read(m, v) = Reading(m, v)[n + 1] /\ Read(m, w) = Reading(m, w)[n]
  BY <1>1 DEF Read, n, p
<1> QED BY <1>1, <1>3, <1>4, <1>5 DEF v

\* Reading fields behind fields is reading the second into what the first came to.
LEMMA ReadJoined ==
  ASSUME NEW m, NEW u, IsSeq(u), NEW w, IsSeq(w), NEW y, Read(m, u) = Begun(y)
  PROVE  Read(m, u \o w) = Read(y, w)
<1> DEFINE v == u \o w
           p == Len(u)
           q == Len(w)
           l == Len(v)
           S == {k \in Nat : k <= q => Reading(m, v)[p + k] = Reading(y, w)[k]}
<1>1. /\ p \in Nat /\ q \in Nat /\ IsSeq(v) /\ l = p + q
      /\ \A i \in 1..p : v[i] = u[i]
      /\ \A i \in 1..q : v[p + i] = w[i]
  BY Joined, SeqLen
<1>2. \A i \in 1..l : Reading(m, v)[i] = ReadNext(Reading(m, v)[i - 1], v[i])
  <2>1. Len(v) \in Nat
    BY <1>1
  <2> HIDE DEF v
  <2> QED BY <2>1, ReadingStep
<1>3. Reading(y, w)[0] = Begun(y) /\ \A i \in 1..q :
      Reading(y, w)[i] = ReadNext(Reading(y, w)[i - 1], w[i])
  BY <1>1, ReadingStep
<1> HIDE DEF v
<1>4. Reading(m, v)[p] = Begun(y)
  <2>1. p \in 0..Len(v) /\ p <= Len(u) /\ IsSeq(v) /\ \A i \in 1..p : v[i] = u[i]
    BY <1>1
  <2>2. Reading(m, u)[p] = Begun(y)
    BY DEF Read
  <2> HIDE DEF p, q, l
  <2>3. Reading(m, v)[p] = Reading(m, u)[p]
    BY <2>1, SameReading
  <2> QED BY <2>2, <2>3
<1> HIDE DEF p, q, l
<1>5. 0 \in S
  BY <1>1, <1>3, <1>4
<1>6. ASSUME NEW k \in Nat, k < q, k \in S PROVE k + 1 \in S
  <2>1. k + 1 \in 1..q /\ (k + 1) - 1 = k /\ p + (k + 1) \in 1..l /\ (p + (k + 1)) - 1 = p + k
    BY <1>1, <1>6
  <2>2. Reading(m, v)[p + (k + 1)] = ReadNext(Reading(m, v)[p + k], w[k + 1])
    BY <1>1, <1>2, <2>1
  <2>3. Reading(y, w)[k + 1] = ReadNext(Reading(y, w)[k], w[k + 1])
    BY <1>3, <2>1
  <2>4. Reading(m, v)[p + k] = Reading(y, w)[k]
    BY <1>1, <1>6
  <2> QED BY <2>2, <2>3, <2>4
<1>7. q \in S
  <2> HIDE DEF S
  <2>1. \A k \in 0..q : k \in S
    BY <1>1, <1>5, <1>6, UpTo
  <2> QED BY <1>1, <2>1
<1>8. Reading(m, v)[p + q] = Reading(y, w)[q]
  BY <1>1, <1>7
<1> QED BY <1>1, <1>8 DEF Read, v, q, l

\* Fields a message does not know it keeps, in their order.
LEMMA ReadUnknown ==
  ASSUME NEW y, IsMade(y), IsSeq(y.unknown), NEW w, IsSeq(w),
         \A i \in 1..Len(w) : Foreign(y.class, w[i])
  PROVE  Read(y, w) = Begun([y EXCEPT !.unknown = @ \o w])
<1> DEFINE q == Len(w)
           p == Len(y.unknown)
           Kept(z, k) ==
             /\ Becomes(z, y, y.has, z.unknown, y.val) /\ IsSeq(z.unknown) /\ Len(z.unknown) = p + k
             /\ \A i \in 1..p : z.unknown[i] = y.unknown[i]
             /\ \A i \in 1..k : z.unknown[p + i] = w[i]
           S == {k \in Nat : k <= q => \E z : Reading(y, w)[k] = Begun(z) /\ Kept(z, k)}
<1>1. p \in Nat /\ q \in Nat
  BY SeqLen
<1>2. Reading(y, w)[0] = Begun(y) /\ \A i \in 1..q :
      Reading(y, w)[i] = ReadNext(Reading(y, w)[i - 1], w[i])
  BY <1>1, ReadingStep
<1>0. \A i \in 1..q : Foreign(y.class, w[i])
  OBVIOUS
<1> HIDE DEF q
<1>3. 0 \in S
  <2>1. Kept(y, 0)
    BY <1>1 DEF Becomes
  <2> HIDE DEF Kept
  <2> QED BY <1>2, <2>1
<1>4. ASSUME NEW k \in Nat, k < q, k \in S PROVE k + 1 \in S
  <2>1. k + 1 \in 1..q /\ (k + 1) - 1 = k
    BY <1>1, <1>4
  <2>2. PICK z : Reading(y, w)[k] = Begun(z) /\ Kept(z, k)
    <3> HIDE DEF Kept
    <3> QED BY <1>1, <1>4
  <2> DEFINE f == w[k + 1]
             x == Keep(z, f)
  <2>3. Foreign(z.class, f) /\ IsMade(z)
    BY <1>0, <2>1, <2>2 DEF Becomes
  <2>4. Reading(y, w)[k + 1] = Begun(x)
    <3>1. Reading(y, w)[k + 1] = ReadNext(Begun(z), f)
      BY <1>2, <2>1, <2>2
    <3> HIDE DEF f
    <3>2. ReadNext(Begun(z), f) = Begun(x)
      BY <2>3, ReadForeign DEF ReadNext
    <3> QED BY <3>1, <3>2
  <2>5. Becomes(x, z, z.has, Append(z.unknown, f), z.val)
    BY <2>3, KeepMade
  <2> DEFINE v == Append(z.unknown, f)
             n == Len(z.unknown)
  <2>6. /\ IsSeq(v) /\ Len(v) = n + 1 /\ v[n + 1] = f
        /\ \A i \in 1..n : v[i] = z.unknown[i]
    BY <2>2, Appended, ZenonT(60)
  <2> HIDE DEF v, x
  <2>7. x.unknown = v /\ Becomes(x, y, y.has, x.unknown, y.val)
    BY <2>2, <2>5 DEF Becomes, v
  <2>8. n = p + k
    BY <2>2
  <2> HIDE DEF n, f
  <2>9. \A i \in 1..p : v[i] = y.unknown[i]
    BY <1>1, <2>2, <2>6, <2>8
  <2>10. \A i \in 1..(k + 1) : v[p + i] = w[i]
    <3> TAKE i \in 1..(k + 1)
    <3>1. CASE i = k + 1
      <4>1. p + i = n + 1
        <5> HIDE DEF p
        <5> QED BY <1>1, <2>8, <3>1
      <4> QED BY <2>6, <3>1, <4>1 DEF f
    <3>2. CASE i # k + 1
      <4>1. i \in 1..k /\ p + i \in 1..n
        BY <1>1, <2>8, <3>2
      <4> QED BY <2>2, <2>6, <4>1
    <3> QED BY <3>1, <3>2
  <2>11. Kept(x, k + 1)
    <3>1. Len(v) = p + (k + 1)
      BY <1>1, <2>6, <2>8
    <3> QED BY <2>6, <2>7, <2>9, <2>10, <3>1
  <2> HIDE DEF Kept
  <2> QED BY <2>4, <2>11
<1>5. q \in S
  <2> HIDE DEF S
  <2>1. \A k \in 0..q : k \in S
    BY <1>1, <1>3, <1>4, UpTo
  <2> QED BY <1>1, <2>1
<1>6. PICK z : Reading(y, w)[q] = Begun(z) /\ Kept(z, q)
  <2> HIDE DEF Kept
  <2> QED BY <1>1, <1>5
<1> DEFINE u == y.unknown \o w
           r == [y EXCEPT !.unknown = u]
<1>7. z.unknown = u
  <2> DEFINE v == z.unknown
             t == y.unknown
  <2>1. /\ IsSeq(u) /\ Len(u) = p + q
        /\ \A i \in 1..p : u[i] = y.unknown[i]
        /\ \A j \in 1..q : u[p + j] = w[j]
    BY Joined DEF q
  <2>2. /\ IsSeq(v) /\ Len(v) = p + q
        /\ \A i \in 1..p : v[i] = y.unknown[i]
        /\ \A j \in 1..q : v[p + j] = w[j]
    BY <1>6
  <2> HIDE DEF u, v, p
  <2>3. ASSUME NEW i \in 1..Len(v) PROVE v[i] = u[i]
    <3>1. CASE i <= p
      BY <1>1, <2>1, <2>2, <3>1
    <3>2. CASE i > p
      <4>1. i - p \in 1..q /\ p + (i - p) = i
        BY <1>1, <2>2, <3>2
      <4> QED BY <2>1, <2>2, <4>1
    <3> QED BY <1>1, <2>2, <3>1, <3>2
  <2>4. v = u
    BY <2>1, <2>2, <2>3, SameSeq
  <2> QED BY <2>4 DEF v
<1>8. Becomes(z, y, y.has, u, y.val)
  BY <1>6, <1>7
<1> HIDE DEF u
<1>9. Becomes(r, y, y.has, u, y.val)
  BY UnknownMade
<1> HIDE DEF r
<1>10. z = r
  BY <1>8, <1>9, SameMade DEF Becomes
<1> QED BY <1>6, <1>10 DEF Read, q, r, u

TokenShaped(t) == IsMade(t) /\ Shaped(t) /\ t.class = "StpToken"

\* set_x of a token.
LEMMA TokenSetShaped ==
  ASSUME NEW t, TokenShaped(t), NEW f \in DOMAIN t.val, NEW v
  PROVE  TokenShaped(Set(t, f, v))
<1>1. Becomes(Set(t, f, v), t, t.has \union {f}, t.unknown,
      [g \in DOMAIN t.val |-> IF g = f THEN v ELSE t.val[g]])
  BY SetMade DEF TokenShaped
<1> QED BY <1>1 DEF TokenShaped, Shaped, Becomes

\* An unknown field of a token.
LEMMA TokenKeepShaped ==
  ASSUME NEW t, TokenShaped(t), NEW f
  PROVE  TokenShaped(Keep(t, f))
<1>1. Becomes(Keep(t, f), t, t.has, Append(t.unknown, f), t.val)
  BY KeepMade DEF TokenShaped
<1> QED BY <1>1 DEF TokenShaped, Shaped, Becomes

\* A token has no member a field could be read into as a message.
LEMMA TokenFieldRead ==
  ASSUME NEW res, TokenShaped(res.msg), NEW f, NEW r, NEW s
  PROVE  /\ ReadField(res, f, r) = ReadField(res, f, s)
         /\ TokenShaped(ReadField(res, f, r).msg)
<1> DEFINE t == res.msg
           x == ReadField(res, f, r)
<1>0. TokenShaped(t)
  OBVIOUS
<1>1. CASE ~res.ok \/ f.wt \in {"cut", "end"}
  <2>1. x = [ok |-> FALSE, msg |-> t] /\ ReadField(res, f, s) = [ok |-> FALSE, msg |-> t]
    BY <1>1 DEF ReadField
  <2> QED BY <1>0, <2>1
<1>2. CASE res.ok /\ f.wt \notin {"cut", "end"} /\ ~Known(t, f)
  <2> DEFINE k == Keep(t, f)
  <2>1. x = [ok |-> TRUE, msg |-> k] /\ ReadField(res, f, s) = [ok |-> TRUE, msg |-> k]
    BY <1>2 DEF ReadField
  <2>2. TokenShaped(k)
    BY <1>0, TokenKeepShaped
  <2> HIDE DEF k, t, x
  <2> QED BY <2>1, <2>2 DEF x
<1>3. CASE res.ok /\ f.wt \notin {"cut", "end"} /\ Known(t, f)
  <2> DEFINE name == Cases[t.class][f.num][1]
             kind == Cases[t.class][f.num][2]
             v == ReadKind(kind, f)
             p == Set(t, name, v)
             q == Keep(t, Varint(f.num, v % Word64))
  <2>1. x = Store(t, f, r) /\ ReadField(res, f, s) = Store(t, f, s)
    BY <1>3 DEF ReadField
  <2>2. name \in DOMAIN t.val /\ kind # "message"
    <3>1. f.num \in DOMAIN Cases["StpToken"] /\ t.class = "StpToken" /\
          DOMAIN t.val = DOMAIN Fields["StpToken"]
      BY <1>0, <1>3 DEF Known, TokenShaped, Shaped
    <3>2. Agreeing("StpToken") /\ Clearing("StpToken")
      BY Tables_StpToken DEF Tables
    <3> DEFINE i == f.num
    <3>3. i \in 1..Width("StpToken")
      BY <3>1, <3>2 DEF Agreeing
    <3>4. SlotAgrees("StpToken", i)
      BY <3>2, <3>3 DEF Agreeing
    <3> HIDE DEF i
    <3>5. Cases["StpToken"][i][1] \in DOMAIN Fields["StpToken"] /\
          Cases["StpToken"][i][2] # "message"
      BY <3>2, <3>4 DEF SlotAgrees, Clearing
    <3> QED BY <3>1, <3>5 DEF i
  <2>3. TokenShaped(p) /\ TokenShaped(q)
    BY <1>0, <2>2, TokenSetShaped, TokenKeepShaped
  <2>4. \A z : Store(t, f, z) = [ok |-> TRUE, msg |-> IF kind = "enum" /\ ~StpResult_IsValid(v)
        THEN q ELSE p]
    <3> TAKE z
    <3>1. CASE kind = "enum" /\ ~StpResult_IsValid(v)
      BY <2>2, <3>1 DEF Store
    <3>2. CASE ~(kind = "enum" /\ ~StpResult_IsValid(v))
      BY <2>2, <3>2 DEF Store
    <3> QED BY <3>1, <3>2
  <2> HIDE DEF p, q, x, t, kind, v
  <2>5. x = [ok |-> TRUE, msg |-> IF kind = "enum" /\ ~StpResult_IsValid(v) THEN q ELSE p] /\
        x = ReadField(res, f, s)
    BY <2>1, <2>4
  <2>6. TokenShaped(x.msg)
    BY <2>3, <2>5
  <2> QED BY <2>5, <2>6 DEF x
<1> QED BY <1>1, <1>2, <1>3

\* A token is read as any message is.
LEMMA ReadingTokenIsReading ==
  ASSUME NEW t, TokenShaped(t), NEW w, IsSeq(w)
  PROVE  ReadingToken(t, w)[Len(w)] = Read(t, w)
<1> DEFINE n == Len(w)
           S == {k \in Nat : k <= n => /\ ReadingToken(t, w)[k] = Reading(t, w)[k]
                                       /\ TokenShaped(Reading(t, w)[k].msg)}
<1>1. n \in Nat
  BY SeqLen
<1>2. ReadingToken(t, w)[0] = Begun(t) /\
      \A i \in 1..n : ReadingToken(t, w)[i] = ReadTokenField(ReadingToken(t, w)[i - 1], w[i])
  BY <1>1, ReadingTokenStep
<1>3. Reading(t, w)[0] = Begun(t) /\ \A i \in 1..n :
      Reading(t, w)[i] = ReadNext(Reading(t, w)[i - 1], w[i])
  BY <1>1, ReadingStep
<1> HIDE DEF n
<1>4. 0 \in S
  BY <1>2, <1>3, BegunParts
<1>5. ASSUME NEW k \in Nat, k < n, k \in S PROVE k + 1 \in S
  <2> DEFINE res == Reading(t, w)[k]
             f == w[k + 1]
  <2>1. k + 1 \in 1..n /\ (k + 1) - 1 = k
    BY <1>1, <1>5
  <2>2. ReadingToken(t, w)[k] = res /\ TokenShaped(res.msg)
    BY <1>1, <1>5
  <2>3. ReadingToken(t, w)[k + 1] = ReadTokenField(res, f) /\
        Reading(t, w)[k + 1] = ReadNext(res, f)
    BY <1>2, <1>3, <2>1, <2>2
  <2> HIDE DEF res, f
  <2>4. ReadTokenField(res, f) = ReadNext(res, f) /\ TokenShaped(ReadNext(res, f).msg)
    BY <2>2, TokenFieldRead DEF ReadTokenField, ReadNext
  <2> QED BY <2>3, <2>4
<1>6. n \in S
  <2> HIDE DEF S
  <2>1. \A k \in 0..n : k \in S
    BY <1>1, <1>4, <1>5, UpTo
  <2> QED BY <1>1, <2>1
<1> QED BY <1>1, <1>6 DEF Read, n

(* ---- reading what was written -------------------------------------------------- *)
\* The members of x can be read into m, the messages becoming what `merged` has.
ReadsBack(m, x, parts, merged) ==
    \A f \in x.has : IF KindOf(m, f) = "message"
      THEN ParseToken(m.val[f], parts[f]) = Begun(merged[f])
                     ELSE IsValue(KindOf(m, f), x.val[f])

\* Reading the first i written slots of x into m is merging them.
LEMMA WritingRead ==
  ASSUME NEW m, NEW x, Mergeable(m, x), NEW parts, NEW merged, ReadsBack(m, x, parts, merged),
         \A i \in 0..Width(m.class) : IsSeq(Writing(parts, x)[i]),
         NEW i \in 0..Width(m.class)
  PROVE  Read(m, Writing(parts, x)[i]) = Begun(Merging(merged, m, x)[i])
<1> DEFINE n == Width(m.class)
           Out == Writing(parts, x)
           To == Merging(merged, m, x)
           S == {k \in Nat : k <= n => Read(m, Out[k]) = Begun(To[k])}
<1>0. /\ n \in Nat /\ i \in Nat /\ i <= n /\ Len(Writes[m.class]) = n /\ Len(Merges[m.class]) = n
      /\ \A j \in 1..n : SlotAgrees(m.class, j)
  <2>1. Agreeing(m.class)
    BY AllTables DEF Tables, Mergeable, Shaped
  <2> QED BY <2>1 DEF Agreeing, Width
<1>1. /\ Out[0] = << >>
      /\ \A j \in 1..n : Out[j] = Write(parts, x, Out[j - 1], Writes[m.class][j][1],
           Writes[m.class][j][2], Writes[m.class][j][3])
  <2>1. x.class = m.class
    BY DEF Mergeable
  <2> HIDE DEF n
  <2> QED BY <1>0, <2>1, WritingStep
<1>2. /\ To[0] = m
      /\ \A j \in 1..n : To[j] = Copy(merged, To[j - 1], x, Merges[m.class][j])
  BY <1>0, MergingStep
<1>3. \A j \in 0..n : IsSeq(Out[j])
  OBVIOUS
<1>4. \A j \in 0..n : Merged(To[j], merged, m, x, Seen(m.class, j))
  BY MergingMerges
<1> HIDE DEF n, Out, To
<1>5. 0 \in S
  BY <1>1, <1>2, ReadEmpty
<1>6. ASSUME NEW k \in Nat, k < i, k \in S PROVE k + 1 \in S
  <2> DEFINE f == Merges[m.class][k + 1]
             kind == KindOf(m, f)
             y == To[k]
             v == Member(parts, x, f)
             u == Member(merged, x, f)
             w == Out[k]
  <2>1. k + 1 \in 1..n /\ (k + 1) - 1 = k /\ k \in 0..n
    BY <1>0, <1>6
  <2>2. kind \in Kinds /\ Writes[m.class][k + 1] = <<k + 1, f, kind>> /\ f \in DOMAIN m.val
    <3>1. SlotAgrees(m.class, k + 1)
      BY <1>0, <2>1
    <3>2. DOMAIN m.val = DOMAIN Fields[m.class]
      BY DEF Mergeable, Shaped
    <3> QED BY <3>1, <3>2 DEF SlotAgrees, KindOf
  <2>3. Read(m, w) = Begun(y) /\ IsSeq(w) /\ Merged(y, merged, m, x, Seen(m.class, k))
    BY <1>0, <1>3, <1>4, <1>6, <2>1
  <2>4. Out[k + 1] = Write(parts, x, w, k + 1, f, kind) /\ To[k + 1] = Copy(merged, y, x, f)
    <3> HIDE DEF kind
    <3> QED BY <1>1, <1>2, <2>1, <2>2
  <2>5. y.class = m.class /\ KindOf(y, f) = kind /\ KindOf(x, f) = kind
    BY <2>3 DEF Merged, Becomes, KindOf, Mergeable
  <2>6. m.class \in Classes /\ k + 1 \in 1..Width(m.class)
    BY <2>1 DEF Mergeable, Shaped, n
  <2>7. CASE f \notin x.has
    <3>1. Out[k + 1] = w /\ To[k + 1] = y
      BY <2>4, <2>7 DEF Write, Copy
    <3> QED BY <2>3, <3>1
  <2>8. CASE f \in x.has
    <3> DEFINE e == WriteField(kind, k + 1, v)
    <3>1. Out[k + 1] = Append(w, e) /\ To[k + 1] = Set(y, f, u)
      BY <2>4, <2>8 DEF Write, Copy
    <3> HIDE DEF e
    <3>2. Read(m, Out[k + 1]) = ReadNext(Begun(y), e)
      BY <2>3, <3>1, ReadAppended
    <3>3. ReadNext(Begun(y), e) = ReadField(Begun(y), e, ReadPart(y, e))
      BY BegunParts DEF ReadNext
    <3>4. CASE kind # "message"
      <4>1. v = x.val[f] /\ u = x.val[f] /\ IsValue(kind, v)
        BY <2>5, <2>8, <3>4 DEF Member, ReadsBack
      <4> HIDE DEF f, kind, y, v, u
      <4>2. f = Merges[y.class][k + 1] /\ y.class \in Classes /\ k + 1 \in 1..Width(y.class) /\
            kind = KindOf(y, f)
        BY <2>5, <2>6 DEF f
      <4>3. ReadField(Begun(y), WriteField(kind, k + 1, v), ReadPart(y, e)) = Begun(Set(y, f, v))
        BY <3>4, <4>1, <4>2, ReadWritten
      <4>4. Read(m, Out[k + 1]) = Begun(To[k + 1])
        BY <3>1, <3>2, <3>3, <4>1, <4>3, Zenon DEF e
      <4> QED BY <4>4
    <3>5. CASE kind = "message"
      <4>1. v = parts[f] /\ u = merged[f] /\ ParseToken(m.val[f], v) = Begun(u)
        BY <2>5, <2>8, <3>5 DEF Member, ReadsBack
      <4>2. y.val[f] = m.val[f]
        <5>1. Single(m.class) /\ n \in Nat
          BY <1>0, <2>6, AllTables DEF Tables
        <5>2. f \notin Seen(m.class, k)
          BY <1>0, <2>1, <2>6, <5>1 DEF Single, Seen, n
        <5> HIDE DEF f, y
        <5> QED BY <2>2, <2>3, <5>2 DEF Merged, Becomes, MergedVal
      <4> HIDE DEF f, y, v, u
      <4>3. kind = "message" /\ e = WriteField("message", k + 1, v)
        BY <3>5 DEF e
      <4> HIDE DEF kind
      <4>4. f = Merges[y.class][k + 1] /\ y.class \in Classes /\ k + 1 \in 1..Width(y.class) /\
            KindOf(y, f) = "message"
        BY <2>5, <2>6, <4>3 DEF f
      <4>5. /\ ReadField(Begun(y), WriteField("message", k + 1, v), Begun(u)) = Begun(Set(y, f, u))
            /\ Cases[y.class][k + 1][1] = f
        BY <4>4, ReadWrittenPart
      <4>6. e.num = k + 1 /\ e.data = v
        BY <4>3 DEF WriteField, Payload, Varints
      <4>7. ReadPart(y, e) = Begun(u)
        BY <4>1, <4>2, <4>5, <4>6 DEF ReadPart
      <4>8. Read(m, Out[k + 1]) = Begun(To[k + 1])
        BY <3>1, <3>2, <3>3, <4>3, <4>5, <4>7, Zenon
      <4> QED BY <4>8
    <3> QED BY <3>4, <3>5
  <2> QED BY <2>7, <2>8
<1>7. i \in S
  <2> HIDE DEF S
  <2>1. \A k \in 0..i : k \in S
    BY <1>0, <1>5, <1>6, UpTo
  <2> QED BY <1>0, <2>1
<1> QED BY <1>0, <1>7 DEF Out, To

\* Reading what was written of x into m is merging x into m.
LEMMA SerializeRead ==
  ASSUME NEW m, NEW x, IsMsg(m), IsMsg(x), x.class = m.class, NEW parts, NEW merged,
         ReadsBack(m, x, parts, merged), AllWritable(parts, x)
  PROVE  Read(m, SerializeWith(parts, x)) = Begun(MergeWith(merged, m, x))
<1> DEFINE n == Width(m.class)
           w == Writing(parts, x)[n]
           y == Merging(merged, m, x)[n]
           u == x.unknown
<1>0. Mergeable(m, x) /\ m.class \in Classes
  BY DEF Mergeable, IsMsg, Proper, Shaped
<1>1. n \in 0..Width(m.class) /\ Len(Writes[m.class]) = n /\ Len(Merges[m.class]) = n
  <2>1. Agreeing(m.class)
    BY <1>0, AllTables DEF Tables
  <2> QED BY <2>1 DEF Agreeing, Width
<1>2. \A i \in 0..Width(m.class) : IsSeq(Writing(parts, x)[i])
  BY WritingLength DEF IsWire
<1>3. Read(m, w) = Begun(y) /\ IsSeq(w)
  BY <1>0, <1>1, <1>2, WritingRead
<1>4. Merged(y, merged, m, x, Seen(m.class, n))
  BY <1>0, <1>1, MergingMerges
<1>5. SerializeWith(parts, x) = w \o u /\ MergeWith(merged, m, x) = [y EXCEPT !.unknown = @ \o u]
  BY <1>1 DEF SerializeWith, MergeWith
<1> HIDE DEF n, w, y, u
<1>6. IsMade(y) /\ IsSeq(y.unknown) /\ y.class = m.class
  BY <1>4 DEF Merged, Becomes, IsMsg, Proper
<1>7. IsSeq(u) /\ \A i \in 1..Len(u) : Foreign(y.class, u[i])
  BY <1>6 DEF IsMsg, Proper, u
<1>8. Read(m, w \o u) = Read(y, u)
  BY <1>3, <1>7, ReadJoined
<1>9. Read(y, u) = Begun([y EXCEPT !.unknown = @ \o u])
  BY <1>6, <1>7, ReadUnknown
<1> QED BY <1>5, <1>8, <1>9, Zenon

\* Parsing a token into a token is merging it.
LEMMA ParsedToken ==
  ASSUME NEW t, IsToken(t), NEW s, IsToken(s)
  PROVE  ParseToken(t, TokenBytes(s)) = Begun(MergeToken(t, s))
<1> DEFINE bytes == TokenBytes(s)
           w == SerializeWith(NoParts, s)
<1>1. /\ IsMsg(t) /\ IsMsg(s) /\ t.class = "StpToken" /\ s.class = "StpToken"
      /\ Proper(t) /\ Proper(s) /\ Shaped(t) /\ Shaped(s)
  BY TokenIsMsg DEF IsToken, Proper
<1>2. Messages(s) = {} /\ Messages(t) = {}
  BY <1>1, TokensHaveNoMessages
<1>3. AllWritable(NoParts, s)
  BY <1>1, <1>2, ProperWritable
<1>4. ReadsBack(t, s, NoParts, NoParts)
  BY <1>1, <1>2 DEF ReadsBack, Messages, Proper, Shaped, KindOf
<1>5. Read(t, w) = Begun(MergeWith(NoParts, t, s))
  BY <1>1, <1>3, <1>4, SerializeRead
<1>6. bytes.body = w
  BY DEF TokenBytes, Encoding
<1>7. Framed(bytes)
  BY TokenFramed
<1> HIDE DEF w, bytes
<1>8. IsSeq(w) /\ Readable(bytes)
  BY <1>6, <1>7 DEF Framed, IsWire, Readable, WellFramed
<1>9. TokenShaped(t)
  BY <1>1 DEF TokenShaped, Proper
<1>10. ReadingToken(t, w)[Len(w)] = Read(t, w)
  BY <1>8, <1>9, ReadingTokenIsReading
<1> QED BY <1>5, <1>6, <1>8, <1>10 DEF ParseToken, MergeToken, bytes

\* Parsing a message into a message is merging it.
LEMMA ParsedMsg ==
  ASSUME NEW m, IsMsg(m), NEW x, IsMsg(x), x.class = m.class
  PROVE  /\ Read(m, Bytes(x).body) = Begun(MergeFrom(m, x))
         /\ MergePartialFromCodedStream(m, Bytes(x)) = Begun(MergeFrom(m, x))
<1> DEFINE parts == Parts(x)
           merged == [f \in Messages(m) |-> MergeToken(m.val[f], x.val[f])]
           bytes == Bytes(x)
<1>1. Messages(x) = Messages(m) /\ x.has \subseteq DOMAIN m.val /\
      \A f : KindOf(x, f) = KindOf(m, f)
  BY DEF IsMsg, Proper, Shaped, Messages, KindOf
<1>2. AllWritable(parts, x)
  BY MsgWritable
<1>3. ReadsBack(m, x, parts, merged)
  <2> SUFFICES ASSUME NEW f \in x.has
               PROVE  IF KindOf(m, f) = "message" THEN ParseToken(m.val[f], parts[f]) =
                      Begun(merged[f])
                      ELSE IsValue(KindOf(m, f), x.val[f])
    BY DEF ReadsBack
  <2>1. CASE KindOf(m, f) = "message"
    <3>1. f \in Messages(m) /\ f \in Messages(x)
      BY <1>1, <2>1 DEF Messages
    <3>2. IsToken(m.val[f]) /\ IsToken(x.val[f])
      BY <3>1 DEF IsMsg
    <3>3. parts[f] = TokenBytes(x.val[f]) /\ merged[f] = MergeToken(m.val[f], x.val[f])
      BY <3>1 DEF Parts
    <3> HIDE DEF parts, merged
    <3> QED BY <2>1, <3>2, <3>3, ParsedToken
  <2>2. CASE KindOf(m, f) # "message"
    BY <1>1, <2>2 DEF IsMsg, Proper, Shaped
  <2> QED BY <2>1, <2>2
<1>4. MergeWith(merged, m, x) = MergeFrom(m, x)
  BY DEF MergeFrom
<1>5. bytes.body = SerializeWith(parts, x)
  BY DEF Bytes, Encoding
<1> HIDE DEF parts, merged
<1>6. Read(m, SerializeWith(parts, x)) = Begun(MergeWith(merged, m, x))
  BY <1>2, <1>3, SerializeRead
<1>7. Framed(bytes)
  BY MsgFramed
<1> HIDE DEF bytes
<1>8. Readable(bytes)
  BY <1>7 DEF Framed, Readable, WellFramed
<1>9. Read(m, bytes.body) = Begun(MergeFrom(m, x))
  BY <1>4, <1>5, <1>6
<1>10. MergePartialFromCodedStream(m, bytes) = Read(m, bytes.body)
  BY <1>8 DEF MergePartialFromCodedStream, Read
<1> QED BY <1>9, <1>10 DEF bytes

\* A message is read as it was written.
LEMMA ParsedNew ==
  ASSUME NEW x, IsMsg(x)
  PROVE  /\ Read(New(x.class), Bytes(x).body) = Begun(x)
         /\ MergePartialFromCodedStream(New(x.class), Bytes(x)) = Begun(x)
<1> DEFINE n == New(x.class)
<1>1. IsMsg(n) /\ n.class = x.class
  BY NewIsMsg DEF IsMsg, Proper, Shaped
<1>2. MergeFrom(n, x) = x
  BY MergeIntoNew
<1> HIDE DEF n
<1>3. Read(n, Bytes(x).body) = Begun(x) /\ MergePartialFromCodedStream(n, Bytes(x)) = Begun(x)
  BY <1>1, <1>2, ParsedMsg
<1> QED BY <1>3 DEF n

(* ---- the Request around a message ---------------------------------------------- *)
Req(c, e) == Set(Set(New("Request"), "method", Text(c)), "serialized_request", e)

\* The components of a text.
LEMMA TextParts ==
  ASSUME NEW s, Len(s) \in Nat
  PROVE  Text(s).text = s /\ Text(s).len \in Nat
<1>1. Text(s).text = s /\ Text(s).len = Len(s)
  BY Zenon DEF Text
<1> QED BY <1>1, Zenon

\* The components of a Request.
LEMMA RequestMade ==
  ASSUME NEW c \in Classes, NEW e, e.len \in Nat
  PROVE  /\ IsMsg(Req(c, e)) /\ Req(c, e).class = "Request"
         /\ Req(c, e).has = {"method", "serialized_request"} /\ Req(c, e).unknown = << >>
         /\ Req(c, e).val["method"] = Text(c) /\ Req(c, e).val["serialized_request"] = e
<1> DEFINE n == New("Request")
           t == Text(c)
           m == Set(n, "method", t)
           r == Set(m, "serialized_request", e)
<1>0. "Request" \in Classes
  BY DEF Classes, Fields
<1>1. IsMsg(n) /\ n.class = "Request" /\ n.has = {} /\ n.unknown = << >> /\ IsMade(n)
  BY <1>0, NewIsMsg, NewMade
<1>2. DOMAIN n.val = {"method", "serialized_request"}
  BY <1>0, NewMade DEF Fields, Request_fields
<1>3. t.len \in Nat
  <2>1. Len(c) \in Nat
    BY LengthAssumption, Zenon
  <2> QED BY <2>1, TextParts, Zenon
<1>4. \A x : x.class = "Request" => KindOf(x, "method") = "string" /\
      KindOf(x, "serialized_request") = "bytes"
  BY DEF KindOf, Fields, Request_fields, Str, Byt
<1> HIDE DEF n, t
<1>5. IsMsg(m) /\ m.class = "Request"
  <2>1. IsValue(KindOf(n, "method"), t) /\ KindOf(n, "method") # "message" /\
        "method" \in DOMAIN n.val
    BY <1>1, <1>2, <1>3, <1>4 DEF IsValue
  <2> QED BY <1>1, <2>1, SetIsMsg
<1>6. Becomes(m, n, n.has \union {"method"}, n.unknown,
      [g \in DOMAIN n.val |-> IF g = "method" THEN t ELSE n.val[g]])
  BY <1>1, <1>2, SetMade
<1>7. IsMade(m) /\ m.has = {"method"} /\ m.unknown = << >> /\
      DOMAIN m.val = {"method", "serialized_request"} /\ m.val["method"] = t
  BY <1>1, <1>2, <1>6 DEF Becomes
<1> HIDE DEF m
<1>8. IsMsg(r) /\ r.class = "Request"
  <2>1. /\ IsValue(KindOf(m, "serialized_request"), e) /\
             KindOf(m, "serialized_request") # "message"
        /\ "serialized_request" \in DOMAIN m.val
    BY <1>4, <1>5, <1>7 DEF IsValue
  <2> QED BY <1>5, <2>1, SetIsMsg
<1>9. Becomes(r, m, m.has \union {"serialized_request"}, m.unknown,
              [g \in DOMAIN m.val |-> IF g = "serialized_request" THEN e ELSE m.val[g]])
  <2> DEFINE f == "serialized_request"
  <2>1. f \in DOMAIN m.val
    BY <1>7
  <2> HIDE DEF f
  <2>2. Becomes(Set(m, f, e), m, m.has \union {f}, m.unknown,
        [g \in DOMAIN m.val |-> IF g = f THEN e ELSE m.val[g]])
    <3>1. IsMade(m)
      BY <1>7
    <3> QED BY <2>1, <3>1, SetMade, ZenonT(60)
  <2> QED BY <2>2 DEF f
<1>10. /\ r.has = {"method", "serialized_request"} /\ r.unknown = << >>
       /\ r.val["method"] = t /\ r.val["serialized_request"] = e
  BY <1>7, <1>9 DEF Becomes
<1>11. r = Req(c, e)
  BY Zenon DEF Req, n, m, t
<1> HIDE DEF r
<1> QED BY <1>8, <1>10, <1>11 DEF t

\* The bytes of a Request: the method, then the bytes of the message.
LEMMA RequestBytes ==
  ASSUME NEW c \in Classes, NEW e, e.len \in Nat
  PROVE  /\ Bytes(Req(c, e)).body = <<Payload(1, Text(c)), Payload(2, e)>>
         /\ Bytes(Req(c, e)) = Encoding(<<Payload(1, Text(c)), Payload(2, e)>>,
              WireLength(<<Payload(1, Text(c)), Payload(2, e)>>))
         /\ Bytes(Req(c, e)).len = ByteSize(Req(c, e)) /\ Bytes(Req(c, e)).len >= 4
<1> DEFINE r == Req(c, e)
           p == Payload(1, Text(c))
           q == Payload(2, e)
           w == <<p, q>>
           parts == Parts(r)
           Out == Writing(parts, r)
<1>1. /\ IsMsg(r) /\ r.class = "Request" /\ r.has = {"method", "serialized_request"} /\
           r.unknown = << >>
      /\ r.val["method"] = Text(c) /\ r.val["serialized_request"] = e
  BY RequestMade
<1> HIDE DEF r
<1>2. /\ Len(Writes["Request"]) = 2 /\ Writes["Request"][1] = <<1, "method", "string">>
      /\ Writes["Request"][2] = <<2, "serialized_request", "bytes">>
  BY DEF Writes, Request_Serialize
<1>3. /\ Out[0] = << >> /\ Out[1] = Write(parts, r, Out[0], 1, "method", "string")
      /\ Out[2] = Write(parts, r, Out[1], 2, "serialized_request", "bytes")
  <2>1. /\ Out[0] = << >>
        /\ \A i \in 1..2 : Out[i] = Write(parts, r, Out[i - 1], Writes["Request"][i][1],
             Writes["Request"][i][2], Writes["Request"][i][3])
    <3>1. Len(Writes[r.class]) \in Nat /\ Len(Writes[r.class]) = 2
      BY <1>1, <1>2
    <3> HIDE DEF parts
    <3>2. /\ Writing(parts, r)[0] = << >>
          /\ \A i \in 1..2 : Writing(parts, r)[i] =
               Write(parts, r, Writing(parts, r)[i - 1], Writes[r.class][i][1],
               Writes[r.class][i][2], Writes[r.class][i][3])
      BY <3>1, WritingStep
    <3> QED BY <1>1, <3>2
  <2> HIDE DEF Out, parts
  <2> QED BY <1>2, <2>1
<1>4. Member(parts, r, "method") = Text(c) /\ Member(parts, r, "serialized_request") = e
  BY <1>1 DEF Member, KindOf, Fields, Request_fields, Str, Byt
<1> HIDE DEF Out, parts
<1>5. Out[1] = Append(Out[0], p) /\ Out[2] = Append(Out[1], q)
  <2>1. WriteField("string", 1, Text(c)) = p /\ WriteField("bytes", 2, e) = q
    BY DEF WriteField, Varints
  <2> HIDE DEF p, q
  <2> QED BY <1>1, <1>3, <1>4, <2>1 DEF Write
<1>6. Out[2] = w
  <2> HIDE DEF p, q
  <2>1. IsSeq(Out[0]) /\ Len(Out[0]) = 0
    BY <1>3, NoElements
  <2>2. IsSeq(Out[1]) /\ Len(Out[1]) = 1 /\ Out[1][1] = p
    BY <1>5, <2>1, Appended
  <2>3. IsSeq(Out[2]) /\ Len(Out[2]) = 2 /\ Out[2][1] = p /\ Out[2][2] = q
    BY <1>5, <2>2, Appended
  <2>4. w \in Seq({p, q}) /\ Len(w) = 2 /\ w[1] = p /\ w[2] = q
    OBVIOUS
  <2>5. IsSeq(w)
    BY <2>4, SeqIsSeq
  <2> HIDE DEF w
  <2> QED BY <2>3, <2>4, <2>5, SameSeq
<1>7. SerializeWith(parts, r) = w
  <2>1. SerializeWith(parts, r) = Out[2] \o << >>
    BY <1>1, <1>2 DEF SerializeWith, Out
  <2>2. w \o << >> = w
    OBVIOUS
  <2> HIDE DEF w
  <2> QED BY <1>6, <2>1, <2>2
<1>8. Bytes(r).body = w
  BY <1>7 DEF Bytes, Encoding, parts
<1>9. Framed(Bytes(r)) /\ Bytes(r).len = ByteSize(r)
  BY <1>1, MsgFramed
<1>10. Len(w) = 2
  OBVIOUS
<1> HIDE DEF w
<1>11. Bytes(r).len = WireLength(w) /\ IsWire(w)
  BY <1>8, <1>9 DEF Framed
<1>12. WireLength(w) >= 4
  <2>1. Lengths(w)[2] >= 2 * 2
    <3>1. 2 \in 0..Len(w)
      BY <1>10
    <3> QED BY <1>11, <3>1, WireLengthNat
  <2> QED BY <1>10, <2>1 DEF WireLength
<1>13. Bytes(r) = Encoding(w, WireLength(w))
  BY <1>8, <1>11 DEF Bytes, Encoding
<1> QED BY <1>8, <1>9, <1>11, <1>12, <1>13 DEF r, w

\* What a handler is called with for a Request around the bytes e.
LEMMA Dispatched ==
  ASSUME NEW c \in Classes, NEW e, e.len \in Nat, NEW callbacks
  PROVE  OnceDispatch(callbacks, Bytes(Req(c, e))).called =
           IF ParseFromArray(c, e).ok /\ c \in callbacks THEN {ParseFromArray(c, e).msg} ELSE {}
<1> DEFINE r == Req(c, e)
           bytes == Bytes(r)
           res == MergePartialFromCodedStream(New("Request"), bytes)
           req == ParseFromArray("Request", bytes)
           message == ParseFromArray(c, e)
<1>1. /\ IsMsg(r) /\ r.class = "Request" /\ r.has = {"method", "serialized_request"}
      /\ r.val["method"] = Text(c) /\ r.val["serialized_request"] = e
  BY RequestMade
<1>2. bytes.len >= 4 /\ bytes.len \in Nat
  <2>1. bytes.len >= 4
    BY RequestBytes
  <2>2. bytes.len \in Nat
    BY <1>1, MsgFramed DEF Framed
  <2> QED BY <2>1, <2>2
<1>3. Text(c).text = c
  <2>1. Len(c) \in Nat
    BY LengthAssumption, Zenon
  <2> QED BY <2>1, TextParts, Zenon
<1> HIDE DEF r
<1>4. res = Begun(r)
  BY <1>1, ParsedNew
<1>5. IsInitialized(r)
  BY <1>1 DEF IsInitialized, Request_IsInitialized
<1>6. req.ok = TRUE /\ req.msg = r
  <2>1. req = [res EXCEPT !.ok = @ /\ IsInitialized(res.msg)]
    BY DEF ParseFromArray
  <2> HIDE DEF req, res
  <2>2. res = [ok |-> TRUE, msg |-> r]
    BY <1>4 DEF Begun
  <2> QED BY <1>5, <2>1, <2>2
<1>7. OnceDispatch(callbacks, bytes) =
        [answer |-> TRUE, called |-> IF c \in Classes /\ message.ok /\ c \in callbacks
          THEN {message.msg} ELSE {}]
  <2>1. req.msg.val["method"].text = c /\ req.msg.val["serialized_request"] = e
    BY <1>1, <1>3, <1>6
  <2>2. ~(bytes.len < 4 \/ ~req.ok)
    BY <1>2, <1>6
  <2> HIDE DEF bytes
  <2> QED BY <2>1, <2>2, Zenon DEF OnceDispatch
<1> HIDE DEF message, bytes
<1>8. OnceDispatch(callbacks, bytes).called = IF message.ok /\ c \in callbacks THEN {message.msg}
      ELSE {}
  BY <1>7
<1> QED BY <1>8 DEF message, bytes, r

\* What ParseFromArray answers for bytes that can be read.
LEMMA ParsedArray ==
  ASSUME NEW c, NEW e, NEW m
  PROVE  /\ MergePartialFromCodedStream(New(c), e) = Begun(m)
              => ParseFromArray(c, e).ok = IsInitialized(m) /\ ParseFromArray(c, e).msg = m
         /\ MergePartialFromCodedStream(New(c), e) = Failed(m) => ParseFromArray(c, e).ok = FALSE
<1> DEFINE res == MergePartialFromCodedStream(New(c), e)
           x == ParseFromArray(c, e)
<1>1. x = [res EXCEPT !.ok = @ /\ IsInitialized(res.msg)]
  BY DEF ParseFromArray
<1> HIDE DEF res, x
<1>2. CASE res = Begun(m)
  <2>1. res = [ok |-> TRUE, msg |-> m]
    BY <1>2 DEF Begun
  <2>2. x.ok = IsInitialized(m) /\ x.msg = m
    BY <1>1, <2>1 DEF IsInitialized
  <2>3. res # Failed(m)
    BY <1>2, BegunParts
  <2> QED BY <2>2, <2>3 DEF x, res
<1>3. CASE res = Failed(m)
  <2>1. res = [ok |-> FALSE, msg |-> m]
    BY <1>3 DEF Failed
  <2>2. x.ok = FALSE
    BY <1>1, <2>1
  <2>3. res # Begun(m)
    BY <1>3, BegunParts
  <2> QED BY <2>2, <2>3 DEF x, res
<1> QED BY <1>2, <1>3 DEF x, res

\* The classes a handler is registered for.
LEMMA Registered ==
  ASSUME NEW c, c \in Callbacks(c)
  PROVE  c \in {"C2S_Ping", "C2S_StpCryptoNegotiate", "S2C_Ping", "S2C_StpCryptoNegotiate"}
BY DEF Callbacks, StpSvrMsgDispatcher, StpClntMsgDispatcher

\* The handler is called with what was sent.
LEMMA HandledSent ==
  ASSUME NEW s, IsMsg(s)
  PROVE  OnceDispatch(Callbacks(s.class), Bytes(Wrapped(s))).called =
           IF s.class \in Callbacks(s.class) THEN {s} ELSE {}
<1> DEFINE c == s.class
           e == Bytes(s)
           cb == Callbacks(c)
           called_ == OnceDispatch(cb, Bytes(Req(c, e))).called
<1>1. c \in Classes
  BY DEF IsMsg, Proper, Shaped
<1>2. Wrapped(s) = Req(c, e)
  BY DEF Wrapped, Req
<1>3. e.len \in Nat
  BY MsgFramed DEF Framed
<1>4. called_ = IF ParseFromArray(c, e).ok /\ c \in cb THEN {ParseFromArray(c, e).msg} ELSE {}
  <2> HIDE DEF c, e, cb
  <2> QED BY <1>1, <1>3, Dispatched
<1>5. ParseFromArray(c, e).ok = IsInitialized(s) /\ ParseFromArray(c, e).msg = s
  <2>1. MergePartialFromCodedStream(New(c), e) = Begun(s)
    BY ParsedNew
  <2> HIDE DEF c, e
  <2> QED BY <2>1, ParsedArray, Zenon
<1>6. c \in cb => IsInitialized(s)
  BY Registered DEF IsInitialized
<1> HIDE DEF called_, c, e, cb
<1>7. called_ = IF c \in cb THEN {s} ELSE {}
  BY <1>4, <1>5, <1>6
<1> QED BY <1>2, <1>7 DEF called_, c, e, cb

(* ---- a packet with one more field ---------------------------------------------- *)
\* What a newer sender adds is a field.
LEMMA NewerIsField ==
  ASSUME NEW f \in NewerFields
  PROVE  IsField(f)
<1>1. Text("n").len \in Nat
  <2>1. Len("n") \in Nat
    BY LengthAssumption, Zenon
  <2> QED BY <2>1, TextParts, Zenon
<1>2. NoBytes.len \in Nat /\ Word64 \in Nat /\ Word64 > 12
  BY ZeroIsValue, Widths
<1>3. CASE f = Payload(1, Text("n"))
  <2> DEFINE t == Text("n")
  <2> HIDE DEF t
  <2> QED BY <1>1, <1>2, <1>3 DEF IsField, Payload, t
<1>4. CASE f # Payload(1, Text("n"))
  BY <1>2, <1>4 DEF NewerFields, IsField, Varint, Cut, EndGroup
<1> QED BY <1>3, <1>4

Longer(s, f) == Encoding(Append(Bytes(s).body, f), WireLength(Append(Bytes(s).body, f)))

\* The longer message can be read, as far as its lengths go.
LEMMA LongerFramed ==
  ASSUME NEW s, IsMsg(s), NEW f, IsField(f)
  PROVE  Longer(s, f).len \in Nat /\ Readable(Longer(s, f)) /\
         Longer(s, f).body = Append(Bytes(s).body, f)
         /\ IsSeq(Bytes(s).body)
<1> DEFINE w == Bytes(s).body
           v == Append(w, f)
<1>1. IsWire(w)
  BY MsgFramed DEF Framed
<1> HIDE DEF w
<1>2. IsWire(v)
  BY <1>1, WireAppended
<1> HIDE DEF v
<1>3. WireLength(v) \in Nat
  BY <1>2, WireLengthNat
<1>4. Longer(s, f) = Encoding(v, WireLength(v))
  BY DEF Longer, v, w
<1>5. Longer(s, f).text = "" /\ Longer(s, f).body = v /\ Longer(s, f).len = WireLength(v)
  <2> DEFINE l == WireLength(v)
  <2> HIDE DEF l
  <2> DEFINE d == Longer(s, f)
  <2>1. d = [text |-> "", body |-> v, len |-> l]
    BY <1>4 DEF Encoding, l
  <2> HIDE DEF d
  <2>2. d.text = "" /\ d.body = v /\ d.len = l
    BY <2>1
  <2> QED BY <2>2 DEF d, l
<1> QED BY <1>1, <1>3, <1>5 DEF Readable, WellFramed, IsWire, v, w

\* The Request around the longer message is as it would have been sent.
LEMMA SkewedIsRequest ==
  ASSUME NEW s, IsMsg(s), NEW f, IsField(f)
  PROVE  Skewed(Bytes(Wrapped(s)), f) = Bytes(Req(s.class, Longer(s, f)))
<1> DEFINE c == s.class
           e == Bytes(s)
           d == Longer(s, f)
           p == Bytes(Wrapped(s))
           t == Payload(1, Text(c))
           outer == [p.body EXCEPT ![2].data = d]
<1>1. c \in Classes /\ e.len \in Nat /\ d.len \in Nat
  BY MsgFramed, LongerFramed DEF Framed, IsMsg, Proper, Shaped
<1>2. p = Bytes(Req(c, e))
  BY DEF Wrapped, Req
<1>3. p.body = <<t, Payload(2, e)>>
  <2>1. Bytes(Req(c, e)).body = <<Payload(1, Text(c)), Payload(2, e)>>
    <3> HIDE DEF c, e
    <3> QED BY <1>1, RequestBytes
  <2> QED BY <1>2, <2>1, Zenon
<1>4. Bytes(Req(c, d)) = Encoding(<<t, Payload(2, d)>>, WireLength(<<t, Payload(2, d)>>))
  <2> HIDE DEF c, d
  <2> QED BY <1>1, RequestBytes, Zenon DEF t
<1>5. p.body[2].data = e
  <2> HIDE DEF t, p, e
  <2>1. p.body[2] = Payload(2, e)
    BY <1>3
  <2> QED BY <2>1 DEF Payload
<1>6. outer = <<t, Payload(2, d)>>
  <2> DEFINE x == Payload(2, e)
             y == Payload(2, d)
  <2>1. [x EXCEPT !.data = d] = y
    BY DEF Payload
  <2> HIDE DEF p, t, d, x, y
  <2>2. p.body[2] = x
    BY <1>3 DEF x
  <2>3. [p.body EXCEPT ![2] = y] = <<t, y>>
    BY <1>3 DEF x
  <2>4. outer = [p.body EXCEPT ![2] = y]
    BY <2>1, <2>2
  <2> QED BY <2>3, <2>4 DEF y
<1>7. Skewed(p, f) = Encoding(outer, WireLength(outer))
  BY <1>5 DEF Skewed, Longer
<1> HIDE DEF outer, p, c, d, t
<1>8. Skewed(p, f) = Bytes(Req(c, d))
  BY <1>4, <1>6, <1>7
<1> QED BY <1>8 DEF p, c, d

\* What reading the longer message comes to.
LEMMA LongerRead ==
  ASSUME NEW s, IsMsg(s), NEW f, IsField(f)
  PROVE  MergePartialFromCodedStream(New(s.class), Longer(s, f)) = ReadNext(Begun(s), f)
<1> DEFINE n == New(s.class)
           w == Bytes(s).body
           d == Longer(s, f)
<1>1. Readable(d) /\ d.body = Append(w, f) /\ IsSeq(w)
  BY LongerFramed
<1>2. Read(n, w) = Begun(s)
  BY ParsedNew
<1> HIDE DEF n, w, d
<1>3. Read(n, Append(w, f)) = ReadNext(Begun(s), f)
  BY <1>1, <1>2, ReadAppended
<1>4. MergePartialFromCodedStream(n, d) = Read(n, Append(w, f))
  BY <1>1 DEF MergePartialFromCodedStream, Read
<1> QED BY <1>3, <1>4 DEF n, d

\* r is s but for the member of field 1, if it is a number and f is that field.
MostlySame(r, s, f) ==
    \A g \in DOMAIN r.val :
        \/ r.val[g] = s.val[g]
        \/ f.num = 1 /\ g = Cases[s.class][1][1] /\ KindOf(r, g) = "uint64"

\* A foreign field changes no member.
LEMMA KeptMostlySame ==
  ASSUME NEW s, IsMsg(s), NEW f, Foreign(s.class, f)
  PROVE  /\ ReadNext(Begun(s), f) = Begun(Keep(s, f)) /\ IsMsg(Keep(s, f)) /\
              Keep(s, f).class = s.class
         /\ MostlySame(Keep(s, f), s, f)
<1>1. ReadNext(Begun(s), f) = Begun(Keep(s, f))
  BY ReadForeign DEF ReadNext
<1>2. IsMsg(Keep(s, f)) /\ Keep(s, f).class = s.class
  BY KeepIsMsg
<1>3. Becomes(Keep(s, f), s, s.has, Append(s.unknown, f), s.val)
  BY KeepMade DEF IsMsg, Proper
<1>4. MostlySame(Keep(s, f), s, f)
  BY <1>3 DEF Becomes, MostlySame
<1> QED BY <1>1, <1>2, <1>4

\* Reading f behind s adds nothing else to it.
ReadsMostlySame(s, f) ==
    \E r : ReadNext(Begun(s), f) = Begun(r) /\ IsMsg(r) /\ r.class = s.class /\ MostlySame(r, s, f)

\* What a newer sender adds changes at most the member of field 1.
LEMMA NewerRead ==
  ASSUME NEW s, IsMsg(s), s.class \in Callbacks(s.class), NEW f \in NewerFields,
         f \notin {Cut, EndGroup}
  PROVE  ReadsMostlySame(s, f)
<1> DEFINE c == s.class
<1>1. c \in {"C2S_Ping", "S2C_Ping", "C2S_StpCryptoNegotiate", "S2C_StpCryptoNegotiate"} /\
      c \in Classes
  BY Registered DEF IsMsg, Proper, Shaped
<1>2. IsField(f)
  BY NewerIsField
<1>3. f \in {Varint(9, 1), Varint(1, 6), Payload(1, Text("n"))}
  BY DEF NewerFields
<1>4. f.wt \in {"varint", "delimited"}
  <2>1. \A n, x : Varint(n, x).wt = "varint" /\ Payload(n, x).wt = "delimited"
    BY DEF Varint, Payload
  <2> QED BY <1>3, <2>1, Zenon
<1>5. Foreign(c, f) => ReadsMostlySame(s, f)
  <2> HAVE Foreign(c, f)
  <2> QED BY KeptMostlySame DEF ReadsMostlySame
<1>6. ~(f.num \in DOMAIN Cases[c] /\ FitsKind(Cases[c][f.num][2], f)) => Foreign(c, f)
  BY <1>2, <1>4 DEF Foreign
<1>7. CASE c \in {"C2S_Ping", "S2C_Ping"}
  <2>1. DOMAIN Cases[c] = {}
    BY <1>7 DEF Cases, C2S_Ping_Parse, S2C_Ping_Parse
  <2> HIDE DEF c
  <2> QED BY <1>5, <1>6, <2>1
<1>8. CASE f = Varint(9, 1)
  <2>1. f.num = 9
    BY <1>8 DEF Varint
  <2>2. DOMAIN Cases[c] = 1..Width(c) /\ Width(c) \in 0..6
    BY <1>1, AllTables DEF Tables, Agreeing
  <2>3. ~(f.num \in DOMAIN Cases[c])
    BY <2>1, <2>2
  <2> HIDE DEF c
  <2> QED BY <1>5, <1>6, <2>3
<1>9. CASE c \in {"C2S_StpCryptoNegotiate", "S2C_StpCryptoNegotiate"} /\ f = Payload(1, Text("n"))
  <2>1. f.num = 1 /\ f.wt = "delimited"
    BY <1>9, Zenon DEF Payload
  <2>2. Cases[c][1][2] \in {"uint64", "enum"}
    BY <1>9 DEF Cases, C2S_StpCryptoNegotiate_Parse, S2C_StpCryptoNegotiate_Parse
  <2> HIDE DEF c
  <2>3. ~FitsKind(Cases[c][f.num][2], f)
    BY <2>1, <2>2 DEF FitsKind, Delimited
  <2> QED BY <1>5, <1>6, <2>3
<1>10. CASE c = "S2C_StpCryptoNegotiate" /\ f = Varint(1, 6)
  <2>1. f.num = 1 /\ f.wt = "varint" /\ f.n = 6
    BY <1>10 DEF Varint
  <2>2. Cases[c][1][2] = "enum" /\ 1 \in DOMAIN Cases[c]
    BY <1>10 DEF Cases, S2C_StpCryptoNegotiate_Parse
  <2>3. ReadKind("enum", f) = 6
    <3>1. 6 % Word32 = 6 /\ 6 < Word32 \div 2
      BY Widths
    <3> QED BY <2>1, <3>1 DEF ReadKind, Signed
  <2>4. 6 % Word64 = 6
    BY Widths
  <2> HIDE DEF c
  <2>5. Foreign(c, f)
    <3>1. ~StpResult_IsValid(6)
      BY DEF StpResult_IsValid
    <3>2. f = Varint(f.num, ReadKind("enum", f) % Word64)
      BY <1>10, <2>1, <2>3, <2>4
    <3>3. FitsKind("enum", f)
      BY <2>1 DEF FitsKind, Varints
    <3> QED BY <1>2, <2>1, <2>2, <2>3, <3>1, <3>2, <3>3 DEF Foreign
  <2> QED BY <1>5, <2>5
<1>11. CASE c = "C2S_StpCryptoNegotiate" /\ f = Varint(1, 6)
  <2> DEFINE g == "stp_guid"
             r == Set(s, g, 6)
  <2>1. Width(c) = 2 /\ Merges[c][1] = g /\ KindOf(s, g) = "uint64" /\ Cases[c][1][1] = g
    BY <1>11 DEF Width, Merges, C2S_StpCryptoNegotiate_MergeFrom, Fields,
       C2S_StpCryptoNegotiate_fields, KindOf, U64,
                 Cases, C2S_StpCryptoNegotiate_Parse
  <2>2. g \in DOMAIN s.val
    BY <1>11 DEF IsMsg, Proper, Shaped, Fields, C2S_StpCryptoNegotiate_fields
  <2>3. 6 % Word64 = 6 /\ 6 \in 0..Word64 - 1
    BY Widths
  <2> HIDE DEF g
  <2>4. WriteField("uint64", 1, 6) = f
    BY <1>11, <2>3 DEF WriteField, Varints
  <2>5. IsValue("uint64", 6)
    BY <2>3 DEF IsValue
  <2> DEFINE v == 6
             k == 1
             kind == "uint64"
  <2>6. /\ s.class \in Classes /\ k \in 1..Width(s.class) /\ g = Merges[s.class][k] /\
             kind = KindOf(s, g)
        /\ kind # "message" /\ IsValue(kind, v) /\ WriteField(kind, k, v) = f
    BY <1>1, <2>1, <2>4, <2>5
  <2>7. f.num = 1
    BY <1>11 DEF Varint
  <2> HIDE DEF v, k, kind
  <2>8. ReadField(Begun(s), f, ReadPart(s, f)) = Begun(Set(s, g, v))
    BY <2>6, ReadWritten
  <2>9. ReadNext(Begun(s), f) = Begun(Set(s, g, v))
    BY <2>8, BegunParts DEF ReadNext
  <2>10. IsMsg(Set(s, g, v)) /\ Set(s, g, v).class = c
    BY <2>2, <2>6, SetIsMsg
  <2>11. MostlySame(Set(s, g, v), s, f)
    <3>1. Becomes(Set(s, g, v), s, s.has \union {g}, s.unknown,
          [x \in DOMAIN s.val |-> IF x = g THEN v ELSE s.val[x]])
      BY <2>2, SetMade DEF IsMsg, Proper
    <3> DEFINE y == Set(s, g, v)
    <3>2. DOMAIN y.val = DOMAIN s.val /\ \A x \in DOMAIN s.val : x # g => y.val[x] = s.val[x]
      BY <3>1 DEF Becomes
    <3> HIDE DEF y
    <3>3. KindOf(y, g) = "uint64"
      BY <2>1, <2>10 DEF KindOf, y
    <3> QED BY <2>1, <2>7, <3>2, <3>3 DEF MostlySame, y
  <2> QED BY <2>9, <2>10, <2>11 DEF ReadsMostlySame
<1> HIDE DEF c
<1> QED BY <1>1, <1>3, <1>7, <1>8, <1>9, <1>10, <1>11

Packet(s, k) == IF k = {} THEN Bytes(Wrapped(s))
    ELSE Skewed(Bytes(Wrapped(s)), CHOOSE f \in k : TRUE)
Handled(s, k) == OnceDispatch(Callbacks(s.class), Packet(s, k)).called

\* A packet of a newer sender is handled with what was sent, or dropped if it is cut short.
LEMMA HandledSkewed ==
  ASSUME NEW s, IsMsg(s), NEW f \in NewerFields
  PROVE  IF s.class \in Callbacks(s.class) /\ f \notin {Cut, EndGroup}
         THEN \E r : Handled(s, {f}) = {r} /\ IsMsg(r) /\ r.class = s.class /\ MostlySame(r, s, f)
         ELSE Handled(s, {f}) = {}
<1> DEFINE c == s.class
           d == Longer(s, f)
           p == ParseFromArray(c, d)
           cb == Callbacks(c)
           h == Handled(s, {f})
<1>1. IsField(f) /\ c \in Classes
  BY NewerIsField DEF IsMsg, Proper, Shaped
<1>2. d.len \in Nat
  BY <1>1, LongerFramed
<1>3. h = OnceDispatch(cb, Bytes(Req(c, d))).called
  <2>1. (CHOOSE x \in {f} : TRUE) = f /\ {f} # {}
    OBVIOUS
  <2>2. Packet(s, {f}) = Skewed(Bytes(Wrapped(s)), f)
    BY <2>1 DEF Packet
  <2>3. Packet(s, {f}) = Bytes(Req(c, d))
    BY <1>1, <2>2, SkewedIsRequest
  <2> QED BY <2>3 DEF Handled
<1>4. OnceDispatch(cb, Bytes(Req(c, d))).called = IF p.ok /\ c \in cb THEN {p.msg} ELSE {}
  <2> HIDE DEF c, d, cb
  <2> QED BY <1>1, <1>2, Dispatched
<1>5. MergePartialFromCodedStream(New(c), d) = ReadNext(Begun(s), f)
  BY <1>1, LongerRead
<1>6. CASE c \in cb /\ f \notin {Cut, EndGroup}
  <2>1. PICK r : ReadNext(Begun(s), f) = Begun(r) /\ IsMsg(r) /\ r.class = c /\ MostlySame(r, s, f)
    BY <1>6, NewerRead DEF ReadsMostlySame
  <2>2. IsInitialized(r)
    BY <1>6, <2>1, Registered DEF IsInitialized
  <2>3. p.ok = IsInitialized(r) /\ p.msg = r
    <3>1. MergePartialFromCodedStream(New(c), d) = Begun(r)
      BY <1>5, <2>1
    <3> HIDE DEF c, d
    <3> QED BY <3>1, ParsedArray, Zenon
  <2> HIDE DEF h, p, d, cb
  <2>4. h = {r}
    BY <1>3, <1>4, <1>6, <2>2, <2>3
  <2> QED BY <1>6, <2>1, <2>4 DEF h, cb
<1>7. CASE c \notin cb
  <2> HIDE DEF h, p, d
  <2>1. h = {}
    BY <1>3, <1>4, <1>7
  <2> QED BY <1>7, <2>1 DEF h
<1>8. CASE f \in {Cut, EndGroup}
  <2>1. f.wt \in {"cut", "end"}
    BY <1>8 DEF Cut, EndGroup
  <2>2. ReadNext(Begun(s), f) = Failed(s)
    BY <2>1, ReadCut DEF ReadNext
  <2>3. p.ok = FALSE
    <3>1. MergePartialFromCodedStream(New(c), d) = Failed(s)
      BY <1>5, <2>2
    <3> HIDE DEF c, d
    <3> QED BY <3>1, ParsedArray, Zenon
  <2> HIDE DEF h, p, d, cb
  <2>4. h = {}
    BY <1>3, <1>4, <2>3
  <2> QED BY <1>8, <2>4 DEF h
<1> QED BY <1>6, <1>7, <1>8

(* ---- the inductive invariant --------------------------------------------------- *)
Objects == IsMsg(a) /\ IsMsg(b) /\ b.class = a.class
OfClass(s, m) == IsMsg(s) /\ s.class = m.class
Exchanged == \A s \in sent \union called : OfClass(s, a)
AtMostOne ==
    /\ skewed = {} \/ \E f \in NewerFields : skewed = {f}
    /\ sent = {} \/ \E s \in sent : sent = {s}
Underway(s) == pkt = {Packet(s, skewed)} /\ ByteSize(Wrapped(s)) <= BufferSize
Delivered == pkt = {} /\ called = UNION {Handled(s, skewed) : s \in sent}
IInv == Objects /\ Exchanged /\ AtMostOne /\ (Delivered \/ \E s \in sent : Underway(s))

\* The values set_x is called with are values of its kind.
LEMMA ValuesAreValues ==
  ASSUME IsMsg(b), NEW kind, NEW v \in Values(kind)
  PROVE  IsValue(kind, v) /\ kind # "message"
<1>1. kind \in {"uint64", "int32", "int64", "enum", "string", "bytes"}
  BY DEF Values
<1>2. Numbers \subseteq Int32
  BY RpcAssumption DEF Int32
<1>3. \A s \in Strings : Text(s).len \in Nat
  <2> TAKE s \in Strings
  <2>1. Len(s) \in Nat
    BY LengthAssumption, Zenon
  <2> QED BY <2>1, TextParts, Zenon
<1>4. Bytes(b).len \in Nat
  BY MsgFramed DEF Framed
<1>5. /\ Int32 \subseteq Int /\ Int32 \subseteq Int64 /\ Word64 \div 2 - 1 \in Int64
      /\ \A n \in Int : n % Word64 \in 0 .. Word64 - 1
  BY Widths DEF Int32, Int64
<1> HIDE DEF Int32, Int64
<1>6. CASE kind \in {"uint64", "int32", "int64", "enum"}
  BY <1>2, <1>5, <1>6 DEF Values, IsValue
<1>7. CASE kind \in {"string", "bytes"}
  <2> DEFINE texts == {Text(s) : s \in Strings}
  <2>1. v \in texts \/ v = Bytes(b)
    BY <1>7 DEF Values
  <2>2. v.len \in Nat
    BY <1>3, <1>4, <2>1, Zenon
  <2> QED BY <1>7, <2>2 DEF IsValue
<1> QED BY <1>1, <1>6, <1>7

\* An object after a call that changes it.
LEMMA EditKeepsIInv ==
  ASSUME IInv, NEW x, NEW y, OfClass(x, a), OfClass(y, a), Edit(x, y)
  PROVE  IInv'
<1>1. /\ pkt = {} /\ a' = x /\ b' = y /\ pkt' = pkt /\ sent' = sent /\ skewed' = skewed /\
           called' = called
  BY DEF Edit
<1>2. Objects'
  BY <1>1 DEF Objects, OfClass
<1>3. Exchanged'
  BY <1>1 DEF IInv, Exchanged, OfClass
<1>4. AtMostOne'
  BY <1>1 DEF IInv, AtMostOne
<1>5. Delivered
  BY <1>1 DEF IInv, Underway
<1>6. Delivered'
  BY <1>1, <1>5 DEF Delivered
<1> QED BY <1>2, <1>3, <1>4, <1>6 DEF IInv

\* Two new objects and nothing under way.
LEMMA InitInv ==
  ASSUME Init
  PROVE  IInv
<1>1. PICK type \in Types : a = New(type) /\ b = New(type)
  BY DEF Init
<1>2. pkt = {} /\ sent = {} /\ skewed = {} /\ called = {}
  BY DEF Init
<1>3. type \in Classes
  BY RpcAssumption
<1>4. Objects
  BY <1>1, <1>3, NewIsMsg DEF Objects
<1> QED BY <1>2, <1>4 DEF IInv, Exchanged, AtMostOne, Delivered

\* set_x.
LEMMA SetMemberInv ==
  ASSUME IInv, SetMember
  PROVE  IInv'
<1>0. PICK f \in DOMAIN a.val : \E v \in Values(KindOf(a, f)) : Edit(Set(a, f, v), b)
  BY DEF SetMember
<1>1. PICK v \in Values(KindOf(a, f)) : Edit(Set(a, f, v), b)
  BY <1>0
<1>2. IsMsg(a) /\ IsMsg(b) /\ OfClass(b, a)
  BY DEF IInv, Objects, OfClass
<1>3. IsValue(KindOf(a, f), v) /\ KindOf(a, f) # "message"
  BY <1>2, ValuesAreValues
<1>4. OfClass(Set(a, f, v), a)
  BY <1>2, <1>3, SetIsMsg DEF OfClass
<1> QED BY <1>1, <1>2, <1>4, EditKeepsIInv

TokenSet(m, f, g, v) == [Mutable(m, f) EXCEPT !.val[f] = Set(@, g, v)]

\* mutable_token()->set_x.
LEMMA SetOfTokenInv ==
  ASSUME IInv, SetOfToken
  PROVE  IInv'
<1> DEFINE f == "token"
<1>0. PICK g \in DOMAIN StpToken_fields : \E v \in Values(StpToken_fields[g].kind) :
      Edit(TokenSet(a, f, g, v), b)
  BY DEF SetOfToken, TokenSet
<1>1. PICK v \in Values(StpToken_fields[g].kind) : Edit(TokenSet(a, f, g, v), b)
  BY <1>0
<1>2. IsMsg(a) /\ IsMsg(b) /\ OfClass(b, a) /\ a.class \in Classes /\
      DOMAIN a.val = DOMAIN Fields[a.class]
  BY DEF IInv, Objects, OfClass, IsMsg, Proper, Shaped
<1>3. f \in DOMAIN a.val
  BY DEF SetOfToken
<1>4. f \in Messages(a)
  <2>1. \A c \in Classes : "token" \in DOMAIN Fields[c] => Fields[c]["token"].kind = "message"
    BY DEF Classes, Fields, StpToken_fields, Request_fields, NoFields, StpCryptoMsg_fields,
           C2S_StpCryptoNegotiate_fields,
           S2C_StpCryptoNegotiate_fields, S2D_StpReportStatus_fields, Token
  <2>2. KindOf(a, f) = "message"
    BY <1>2, <1>3, <2>1 DEF KindOf
  <2> QED BY <1>3, <2>2 DEF Messages
<1>5. IsValue(StpToken_fields[g].kind, v)
  BY <1>2, ValuesAreValues
<1> HIDE DEF f
<1>6. IsMsg(TokenSet(a, f, g, v)) /\ TokenSet(a, f, g, v).class = a.class
  BY <1>2, <1>4, <1>5, SetOfTokenIsMsg, ZenonT(60) DEF TokenSet
<1>7. OfClass(TokenSet(a, f, g, v), a)
  BY <1>6 DEF OfClass
<1> QED BY <1>1, <1>2, <1>7, EditKeepsIInv

\* clear_x and release_x.
LEMMA ClearMemberInv ==
  ASSUME IInv, ClearMember
  PROVE  IInv'
<1>1. PICK f \in DOMAIN a.val : Edit(ClearField(a, f), b) \/ Edit(Release(a, f), b)
  BY DEF ClearMember
<1>2. IsMsg(a) /\ OfClass(b, a)
  BY DEF IInv, Objects, OfClass
<1>3. OfClass(ClearField(a, f), a) /\ OfClass(Release(a, f), a)
  BY <1>2, ClearFieldIsMsg, ReleaseIsMsg DEF OfClass
<1> QED BY <1>1, <1>2, <1>3, EditKeepsIInv

\* Clear, MergeFrom, CopyFrom and Swap.
LEMMA WholeInv ==
  ASSUME IInv, ClearAll \/ MergeOther \/ CopyOther \/ Swap
  PROVE  IInv'
<1>1. IsMsg(a) /\ IsMsg(b) /\ b.class = a.class /\ OfClass(b, a) /\ OfClass(a, a)
  BY DEF IInv, Objects, OfClass
<1>2. OfClass(Clear(a), a)
  <2>1. Clear(a) = New(a.class) /\ a.class \in Classes
    BY <1>1, ClearIsNewOfClass DEF IsMsg, Proper, Shaped
  <2> QED BY <2>1, NewIsMsg DEF OfClass
<1>3. OfClass(MergeFrom(a, b), a)
  BY <1>1, MergeFromIsMsg DEF OfClass
<1>4. OfClass(CopyFrom(a, b), a)
  BY <1>1, CopyIsFrom DEF OfClass
<1>5. CASE ClearAll
  BY <1>1, <1>2, <1>5, EditKeepsIInv DEF ClearAll
<1>6. CASE MergeOther
  BY <1>1, <1>3, <1>6, EditKeepsIInv DEF MergeOther
<1>7. CASE CopyOther
  BY <1>1, <1>4, <1>7, EditKeepsIInv DEF CopyOther
<1>8. CASE Swap
  BY <1>1, <1>8, EditKeepsIInv DEF Swap
<1> QED BY <1>5, <1>6, <1>7, <1>8

\* The Request around a message is a message.
LEMMA WrappedIsMsg ==
  ASSUME NEW s, IsMsg(s)
  PROVE  IsMsg(Wrapped(s)) /\ Wrapped(s).class = "Request"
<1>1. s.class \in Classes /\ Bytes(s).len \in Nat
  BY MsgFramed DEF Framed, IsMsg, Proper, Shaped
<1>2. Wrapped(s) = Req(s.class, Bytes(s))
  BY DEF Wrapped, Req
<1> QED BY <1>1, <1>2, RequestMade

\* What is sent is the packet of the object as it is.
LEMMA SendInv ==
  ASSUME IInv, Send
  PROVE  IInv'
<1> DEFINE Fits == ByteSize(a) <= BufferSize /\ ByteSize(Wrapped(a)) <= BufferSize
           res == SerializeToArray(a, BufferSize)
<1>1. IsMsg(a) /\ Objects /\ OfClass(a, a)
  BY DEF IInv, Objects, OfClass
<1>2. /\ a' = a /\ b' = b /\ skewed' = {} /\ called' = {}
      /\ pkt' = IF res.ok THEN {res.bytes} ELSE {}
      /\ sent' = IF res.ok THEN {a} ELSE {}
  BY DEF Send
<1>3. ByteSize(a) \in Nat /\ ByteSize(Wrapped(a)) \in Nat /\ BufferSize \in Nat
  BY <1>1, WrappedIsMsg, MsgFramed, RpcAssumption DEF Framed
<1>4. /\ Fits => res.ok = TRUE /\ res.bytes = Bytes(Wrapped(a))
      /\ ~Fits => res.ok = FALSE
  BY <1>3 DEF SerializeToArray
<1> HIDE DEF res
<1>5. Objects'
  BY <1>1, <1>2 DEF Objects
<1>6. CASE ~Fits
  <2>1. pkt' = {} /\ sent' = {}
    BY <1>2, <1>4, <1>6
  <2> QED BY <1>2, <1>5, <2>1 DEF IInv, Exchanged, AtMostOne, Delivered
<1>7. CASE Fits
  <2>1. pkt' = {Packet(a, {})} /\ sent' = {a}
    BY <1>2, <1>4, <1>7 DEF Packet
  <2>2. Exchanged' /\ AtMostOne'
    BY <1>1, <1>2, <2>1 DEF Exchanged, AtMostOne, OfClass
  <2>3. (\E s \in sent : Underway(s))'
    BY <1>2, <1>7, <2>1 DEF Underway
  <2> QED BY <1>5, <2>2, <2>3 DEF IInv
<1> QED BY <1>6, <1>7

\* A field is added to the packet once.
LEMMA SkewInv ==
  ASSUME IInv, Skew
  PROVE  IInv'
<1>1. /\ pkt # {} /\ skewed = {} /\ a' = a /\ b' = b /\ sent' = sent /\ called' = called
  BY DEF Skew
<1>2. PICK s \in sent : Underway(s)
  BY <1>1 DEF IInv, Delivered
<1>3. PICK f \in NewerFields : skewed' = {f} /\ pkt' = {Skewed(Packet(s, {}), f)}
  BY <1>1, <1>2 DEF Skew, Underway
<1>4. Packet(s, {f}) = Skewed(Packet(s, {}), f)
  <2>1. (CHOOSE x \in {f} : TRUE) = f /\ {f} # {}
    OBVIOUS
  <2> QED BY <2>1 DEF Packet
<1>5. Objects' /\ Exchanged' /\ AtMostOne'
  BY <1>1, <1>3 DEF IInv, Objects, Exchanged, AtMostOne, OfClass
<1>6. Underway(s)'
  BY <1>2, <1>3, <1>4 DEF Underway
<1> QED BY <1>1, <1>2, <1>5, <1>6 DEF IInv

\* Whatever a handler is called with is a message of the class that was sent.
LEMMA HandledOfClass ==
  ASSUME NEW s, IsMsg(s), NEW k, k = {} \/ \E f \in NewerFields : k = {f}
  PROVE  \A m \in Handled(s, k) : OfClass(m, s)
<1>1. CASE k = {}
  <2>1. Handled(s, k) = IF s.class \in Callbacks(s.class) THEN {s} ELSE {}
    BY <1>1, HandledSent DEF Handled, Packet
  <2> QED BY <2>1 DEF OfClass
<1>2. ASSUME NEW f \in NewerFields, k = {f} PROVE \A m \in Handled(s, k) : OfClass(m, s)
  <2>1. IF s.class \in Callbacks(s.class) /\ f \notin {Cut, EndGroup}
        THEN \E r : Handled(s, {f}) = {r} /\ IsMsg(r) /\ r.class = s.class /\ MostlySame(r, s, f)
        ELSE Handled(s, {f}) = {}
    BY HandledSkewed
  <2> QED BY <1>2, <2>1 DEF OfClass
<1> QED BY <1>1, <1>2

\* The handler keeps a copy of what it is called with.
LEMMA DispatchInv ==
  ASSUME IInv, Dispatch
  PROVE  IInv'
<1>1. /\ pkt # {} /\ pkt' = {} /\ a' = a /\ sent' = sent /\ skewed' = skewed
      /\ b' = IF called' = {} THEN b ELSE CopyFrom(b, CHOOSE m \in called' : TRUE)
      /\ \E p \in pkt : called' = OnceDispatch(Callbacks(a.class), p).called
  BY DEF Dispatch
<1>2. PICK s \in sent : Underway(s)
  BY <1>1 DEF IInv, Delivered
<1>3. IsMsg(a) /\ IsMsg(b) /\ b.class = a.class /\ IsMsg(s) /\ s.class = a.class /\ sent = {s}
  BY <1>2 DEF IInv, Objects, Exchanged, OfClass, AtMostOne
<1>4. called' = Handled(s, skewed)
  BY <1>1, <1>2, <1>3 DEF Underway, Handled
<1>5. \A m \in called' : OfClass(m, s)
  BY <1>3, <1>4, HandledOfClass DEF IInv, AtMostOne
<1>6. IsMsg(b') /\ b'.class = a.class
  <2>1. CASE called' = {}
    BY <1>1, <1>3, <2>1
  <2>2. CASE called' # {}
    <3> DEFINE m == CHOOSE m \in called' : TRUE
    <3>1. m \in called'
      BY <2>2
    <3> HIDE DEF m
    <3>2. IsMsg(m) /\ m.class = b.class
      BY <1>3, <1>5, <3>1 DEF OfClass
    <3>3. CopyFrom(b, m) = m
      BY <1>3, <3>2, CopyIsFrom
    <3> QED BY <1>1, <1>3, <2>2, <3>2, <3>3 DEF m
  <2> QED BY <2>1, <2>2
<1>7. Objects'
  BY <1>1, <1>3, <1>6 DEF Objects
<1>8. Exchanged'
  BY <1>1, <1>3, <1>5 DEF Exchanged, OfClass
<1>9. AtMostOne'
  BY <1>1 DEF IInv, AtMostOne
<1>10. Delivered'
  <2>1. UNION {Handled(x, skewed) : x \in sent} = Handled(s, skewed)
    BY <1>3
  <2> QED BY <1>1, <1>4, <2>1 DEF Delivered
<1> QED BY <1>7, <1>8, <1>9, <1>10 DEF IInv

(* The objects, what was sent and what was handled are messages of one     *)
(* class at all times, and a packet is under way exactly as it was made of *)
(* what was sent, or it has been handled as it would be.                   *)
THEOREM InductiveInvariant == Spec => []IInv
<1>1. Init => IInv
  BY InitInv
<1>2. IInv /\ [Next]_vars => IInv'
  <2> SUFFICES ASSUME IInv, [Next]_vars PROVE IInv'
    OBVIOUS
  <2>1. CASE SetMember
    BY <2>1, SetMemberInv
  <2>2. CASE SetOfToken
    BY <2>2, SetOfTokenInv
  <2>3. CASE ClearMember
    BY <2>3, ClearMemberInv
  <2>4. CASE ClearAll \/ MergeOther \/ CopyOther \/ Swap
    BY <2>4, WholeInv
  <2>5. CASE Send
    BY <2>5, SendInv
  <2>6. CASE Skew
    BY <2>6, SkewInv
  <2>7. CASE Dispatch
    BY <2>7, DispatchInv
  <2>8. CASE UNCHANGED vars
    BY <2>8 DEF vars, IInv, Objects, Exchanged, OfClass, AtMostOne, Underway, Delivered
  <2> QED BY <2>1, <2>2, <2>3, <2>4, <2>5, <2>6, <2>7, <2>8 DEF Next
<1> QED BY <1>1, <1>2, PTL DEF Spec

(* ---- the properties ------------------------------------------------------------ *)
(* Whatever calls an object has been through, also the one a handler is    *)
(* called with, a member whose has bit is clear reads as its default, in   *)
(* its token too.                                                          *)
THEOREM UnsetReadsDefaultHolds == Spec => []UnsetReadsDefault
<1>1. IInv => UnsetReadsDefault
  <2> DEFINE Right(part) == /\ IsMessage(part)
                            /\ \A f \in DOMAIN part.val \ part.has : part.val[f] = Default(part, f)
  <2>1. ASSUME NEW m, Proper(m) PROVE Right(m)
    BY <2>1 DEF Proper, Shaped, IsMessage
  <2> HIDE DEF Right
  <2>2. ASSUME NEW m, IsMsg(m), NEW part \in {m} \union Submessages(m) PROVE Right(part)
    <3>1. CASE part = m
      BY <2>1, <2>2, <3>1 DEF IsMsg
    <3>2. CASE part # m
      <4>1. PICK f \in Messages(m) : part = m.val[f]
        BY <3>2 DEF Submessages, Messages
      <4> QED BY <2>1, <2>2, <4>1 DEF IsMsg, IsToken
    <3> QED BY <3>1, <3>2
  <2>3. ASSUME IInv PROVE \A m \in {a, b} \union called : IsMsg(m)
    BY <2>3 DEF IInv, Objects, Exchanged, OfClass
  <2> QED BY <2>2, <2>3 DEF UnsetReadsDefault, Right
<1> QED BY <1>1, InductiveInvariant, PTL

(* The size ByteSize computes is the size of what is written, of a token,  *)
(* of a message and of the Request around it, whatever the messages are;   *)
(* and a packet fits into the array it was written into.                   *)
THEOREM SizesAgreeHolds == Spec => []SizesAgree
<1>1. IInv => SizesAgree
  <2> SUFFICES ASSUME IInv PROVE SizesAgree
    OBVIOUS
  <2>1. IsMsg(a)
    BY DEF IInv, Objects
  <2>2. Framed(Bytes(a)) /\ Framed(Bytes(Wrapped(a)))
    BY <2>1, WrappedIsMsg, MsgFramed
  <2>3. \A t \in Submessages(a) : Framed(TokenBytes(t))
    <3>1. \A t \in Submessages(a) : IsToken(t)
      BY <2>1 DEF IsMsg, Submessages, Messages
    <3> QED BY <3>1, TokenFramed
  <2>4. ASSUME NEW p \in pkt, skewed = {} PROVE p.len <= BufferSize
    <3>1. PICK s \in sent : Underway(s)
      BY <2>4 DEF IInv, Delivered
    <3>2. IsMsg(s) /\ p = Bytes(Wrapped(s)) /\ ByteSize(Wrapped(s)) <= BufferSize
      BY <2>4, <3>1 DEF IInv, Exchanged, OfClass, Underway, Packet
    <3> QED BY <3>2, WrappedIsMsg, MsgFramed
  <2> QED BY <2>2, <2>3, <2>4 DEF SizesAgree, Framed
<1> QED BY <1>1, InductiveInvariant, PTL

(* The handler of a class is called with exactly what was sent, whatever   *)
(* that was; and nobody is called for a class without a handler.           *)
THEOREM SentIsHandledHolds == Spec => []SentIsHandled
<1>1. IInv => SentIsHandled
  <2> SUFFICES ASSUME IInv, pkt = {}, skewed = {}
               PROVE  called = {m \in sent : m.class \in Callbacks(m.class)}
    BY DEF SentIsHandled
  <2>1. called = UNION {Handled(s, {}) : s \in sent}
    BY DEF IInv, Delivered, Underway
  <2>2. ASSUME NEW s \in sent PROVE Handled(s, {}) = IF s.class \in Callbacks(s.class) THEN {s}
               ELSE {}
    <3>1. IsMsg(s)
      BY DEF IInv, Exchanged, OfClass
    <3> QED BY <3>1, HandledSent DEF Handled, Packet
  <2> QED BY <2>1, <2>2
<1> QED BY <1>1, InductiveInvariant, PTL

(* Of a packet of a newer sender everything is understood that this        *)
(* rpc.proto knows, and a packet that is cut short is not handled.         *)
THEOREM SkewToleratedHolds == Spec => []SkewTolerated
<1>1. IInv => SkewTolerated
  <2> DEFINE Kept(m, s, f) == \A g \in DOMAIN m.val :
                   \/ m.val[g] = s.val[g]
                   \/ f.num = 1 /\ g = Cases[s.class][1][1] /\ KindOf(m, g) = "uint64"
  <2> SUFFICES ASSUME IInv, NEW f \in skewed, NEW s \in sent, pkt = {}
               PROVE  /\ f \in {Cut, EndGroup} => called = {}
                      /\ \A m \in called : Kept(m, s, f)
                      /\ f \notin {Cut, EndGroup} /\ s.class \in Callbacks(s.class) => called # {}
    BY DEF SkewTolerated
  <2>1. f \in NewerFields /\ skewed = {f} /\ sent = {s} /\ IsMsg(s)
    BY DEF IInv, AtMostOne, Exchanged, OfClass
  <2>2. called = Handled(s, {f})
    <3>1. called = UNION {Handled(x, {f}) : x \in {s}}
      BY <2>1 DEF IInv, Delivered, Underway
    <3> QED BY <3>1
  <2>3. IF s.class \in Callbacks(s.class) /\ f \notin {Cut, EndGroup}
        THEN \E r : Handled(s, {f}) = {r} /\ IsMsg(r) /\ r.class = s.class /\ MostlySame(r, s, f)
        ELSE Handled(s, {f}) = {}
    BY <2>1, HandledSkewed
  <2>4. \A m : MostlySame(m, s, f) => Kept(m, s, f)
    BY DEF MostlySame
  <2> HIDE DEF Kept
  <2> QED BY <2>2, <2>3, <2>4
<1> QED BY <1>1, InductiveInvariant, PTL

(* Reading the bytes of b behind those of a is MergeFrom(a, b), for any    *)
(* two messages of a class.                                                *)
THEOREM MergeIsConcatenationHolds == Spec => []MergeIsConcatenation
<1>1. IInv => MergeIsConcatenation
  <2> SUFFICES ASSUME IInv PROVE MergeIsConcatenation
    OBVIOUS
  <2> DEFINE n == New(a.class)
             u == Bytes(a).body
             w == Bytes(b).body
             fields == u \o w
             e == Encoding(fields, WireLength(fields))
             res == MergePartialFromCodedStream(n, e)
  <2>1. IsMsg(a) /\ IsMsg(b) /\ b.class = a.class /\ a.class \in Classes
    BY DEF IInv, Objects, IsMsg, Proper, Shaped
  <2>2. Read(n, u) = Begun(a) /\ Read(a, w) = Begun(MergeFrom(a, b))
    BY <2>1, ParsedNew, ParsedMsg
  <2>3. IsSeq(u) /\ IsSeq(w)
    BY <2>1, MsgFramed DEF Framed, IsWire
  <2>4. CopyFrom(n, a) = a
    BY <2>1, NewIsMsg, CopyIsFrom
  <2> HIDE DEF n, u, w
  <2>5. Read(n, fields) = Begun(MergeFrom(a, b))
    BY <2>2, <2>3, ReadJoined
  <2> DEFINE l == WireLength(fields)
  <2> HIDE DEF fields
  <2>6. e.body = fields /\ Readable(e)
    <3> HIDE DEF l
    <3>1. e.text = "" /\ e.body = fields /\ e.len = l
      BY DEF Encoding, l
    <3> HIDE DEF e
    <3> QED BY <3>1 DEF Readable, WellFramed, l
  <2> HIDE DEF e
  <2>7. res = Begun(MergeFrom(a, b))
    BY <2>5, <2>6 DEF MergePartialFromCodedStream, Read
  <2> HIDE DEF res
  <2>8. res.ok = TRUE /\ res.msg = MergeFrom(a, b)
    BY <2>7, BegunParts
  <2> QED BY <2>4, <2>8 DEF MergeIsConcatenation, res, e, fields, u, w, n
<1> QED BY <1>1, InductiveInvariant, PTL
==============================================================================
