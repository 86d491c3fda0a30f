-------------------------- MODULE JsonReaderProofs --------------------------
(***************************************************************************)
(* lastValue_, the address the Reader keeps while values are made and      *)
(* destroyed, is always one of a value of the tree, for every document and *)
(* every set of features; isConvertibleTo agrees with the accessors; and   *)
(* the calls on an array that was read are those of a sequence.            *)
(***************************************************************************)
EXTENDS JsonReader, SequenceTheorems, WellFoundedInduction, TLAPS

(* ---- paths ------------------------------------------------------------------- *)
\* The steps of a path whose names are in U.
Step(U) == [key : U, index : Int]

\* IsPrefix, element by element.
LEMMA PrefixElements ==
  ASSUME NEW S, NEW p \in Seq(S), NEW q \in Seq(S)
  PROVE  IsPrefix(p, q) <=> Len(p) <= Len(q) /\ \A i \in 1..Len(p) : p[i] = q[i]
<1>1. Len(p) \in Nat /\ Len(q) \in Nat
  BY LenProperties
<1>2. SubSeq(p, 1, Len(p)) = p
  BY SubSeqFull
<1>3. ASSUME Len(p) <= Len(q)
      PROVE  SubSeq(q, 1, Len(p)) = p <=> \A i \in 1..Len(p) : p[i] = q[i]
  <2> DEFINE r == SubSeq(q, 1, Len(p))
  <2>1. \A i \in 1..Len(p) : q[i] \in S
    BY <1>1, <1>3, ElementOfSeq
  <2>2. /\ r \in Seq(S)
        /\ Len(r) = IF 1 <= Len(p) THEN Len(p) - 1 + 1 ELSE 0
        /\ \A i \in 1..Len(p) - 1 + 1 : r[i] = q[1 + i - 1]
    BY <1>1, <2>1, SubSeqProperties
  <2>3. Len(r) = Len(p) /\ \A i \in 1..Len(p) : r[i] = q[i]
    BY <1>1, <2>2
  <2> HIDE DEF r
  <2>4. ASSUME \A i \in 1..Len(p) : p[i] = q[i] PROVE r = p
    BY <2>2, <2>3, <2>4, SeqEqual
  <2> QED BY <2>3, <2>4 DEF r
<1> QED BY <1>1, <1>2, <1>3 DEF IsPrefix

\* A path has itself as a prefix, and prefixes of prefixes.
LEMMA PrefixOrder ==
  ASSUME NEW S, NEW p \in Seq(S), NEW q \in Seq(S), NEW r \in Seq(S)
  PROVE  /\ IsPrefix(p, p)
         /\ IsPrefix(p, q) /\ IsPrefix(q, r) => IsPrefix(p, r)
         /\ IsPrefix(p, q) => Len(p) <= Len(q)
         /\ IsPrefix(p, q) /\ Len(q) <= Len(p) => p = q
<1>1. Len(p) \in Nat /\ Len(q) \in Nat /\ Len(r) \in Nat
  BY LenProperties
<1>2. IsPrefix(p, p)
  BY <1>1, PrefixElements
<1>3. ASSUME IsPrefix(p, q), IsPrefix(q, r) PROVE IsPrefix(p, r)
  <2>1. Len(p) <= Len(q) /\ \A i \in 1..Len(p) : p[i] = q[i]
    BY <1>3, PrefixElements
  <2>2. Len(q) <= Len(r) /\ \A i \in 1..Len(q) : q[i] = r[i]
    BY <1>3, PrefixElements
  <2>3. Len(p) <= Len(r) /\ \A i \in 1..Len(p) : p[i] = r[i]
    BY <1>1, <2>1, <2>2
  <2> QED BY <2>3, PrefixElements
<1>4. ASSUME IsPrefix(p, q) PROVE Len(p) <= Len(q)
  BY <1>4, PrefixElements
<1>5. ASSUME IsPrefix(p, q), Len(q) <= Len(p) PROVE p = q
  <2>1. Len(p) = Len(q) /\ \A i \in 1..Len(p) : p[i] = q[i]
    BY <1>1, <1>5, PrefixElements
  <2> QED BY <2>1, SeqEqual
<1> QED BY <1>2, <1>3, <1>4, <1>5

\* The path of a child is one step longer than its parent's.
LEMMA ChildPath ==
  ASSUME NEW S, NEW p \in Seq(S), NEW s \in S
  PROVE  /\ Append(p, s) \in Seq(S)
         /\ Len(Append(p, s)) = Len(p) + 1
         /\ IsPrefix(p, Append(p, s))
<1>1. /\ Append(p, s) \in Seq(S)
      /\ Len(Append(p, s)) = Len(p) + 1
      /\ \A i \in 1..Len(p) : Append(p, s)[i] = p[i]
  BY AppendProperties
<1>2. Len(p) \in Nat
  BY LenProperties
<1>3. Len(p) <= Len(Append(p, s))
  BY <1>1, <1>2
<1>4. IsPrefix(p, Append(p, s))
  BY <1>1, <1>3, PrefixElements
<1> QED BY <1>1, <1>4

\* A path behind another is that path.
LEMMA NothingBehind ==
  ASSUME NEW S, NEW p \in Seq(S)
  PROVE  p \o <<>> = p /\ SubSeq(p, Len(p) + 1, Len(p)) = <<>>
<1>1. Len(p) \in Nat
  BY LenProperties
<1>2. p \o <<>> = p
  BY ConcatEmptySeq
<1>3. SubSeq(p, Len(p) + 1, Len(p)) = <<>>
  BY <1>1, SubSeqEmpty
<1> QED BY <1>2, <1>3

(* ---- what the calls of Value do to a tree -------------------------------------- *)
\* A tree with names in U: every path is a sequence of steps, every node has a value.
IsTree(t, U) ==
  /\ DOMAIN t \subseteq Seq(Step(U))
  /\ \A q \in DOMAIN t : t[q] = [v |-> t[q].v, c |-> t[q].c]

\* A single value is a tree.
LEMMA LeafIsTree ==
  ASSUME NEW U, NEW v
  PROVE  IsTree(Leaf(v), U) /\ DOMAIN Leaf(v) = {<<>>} /\ Leaf(v)[<<>>] = Node(v)
<1>1. Leaf(v) = [q \in {<<>>} |-> Node(v)]
  BY DEF Leaf
<1>2. <<>> \in Seq(Step(U))
  BY EmptySeq
<1>3. Node(v) = [v |-> Node(v).v, c |-> Node(v).c]
  BY DEF Node
<1> QED BY <1>1, <1>2, <1>3, Zenon DEF IsTree

\* Json::Value::setComment: a comment changes neither the values nor where they are.
LEMMA CommentKeepsTree ==
  ASSUME NEW U, NEW t, IsTree(t, U), NEW p \in DOMAIN t, NEW placement, NEW u, u = setComment(t, p, placement)
  PROVE  IsTree(u, U) /\ DOMAIN u = DOMAIN t /\ \A q \in DOMAIN t : u[q].v = t[q].v
<1>1. DOMAIN u = DOMAIN t
  BY DEF setComment
<1>2. \A q \in DOMAIN t : q # p => u[q] = t[q]
  BY DEF setComment
<1> DEFINE c == (IF placement \in SameLinePlacement THEN t[p].c \ SameLinePlacement ELSE t[p].c) \cup {placement}
<1>3. u[p] = [t[p] EXCEPT !.c = c]
  BY DEF setComment
<1> HIDE DEF c
<1>4. t[p] = [v |-> t[p].v, c |-> t[p].c]
  BY DEF IsTree
<1>5. u[p] = [v |-> t[p].v, c |-> c]
  BY <1>3, <1>4
<1>6. u[p].v = t[p].v /\ u[p] = [v |-> u[p].v, c |-> u[p].c]
  BY <1>5
<1>7. \A q \in DOMAIN t : u[q].v = t[q].v /\ u[q] = [v |-> u[q].v, c |-> u[q].c]
  BY <1>2, <1>6, Zenon DEF IsTree
<1>8. IsTree(u, U)
  BY <1>1, <1>7, Zenon DEF IsTree
<1> QED BY <1>1, <1>7, <1>8

\* u is t with v in the value at p: what was below it is gone, every other value stays.
Swapped(t, p, v, u) ==
  /\ DOMAIN u = DOMAIN t \ Below(t, p) /\ u[p].v = v
  /\ \A q \in DOMAIN t \ Below(t, p) : q # p => u[q] = t[q]

IsSwap(t, p, v, u) == u = swapPayload(t, p, v)

\* Json::Value::swapPayload does that.
LEMMA SwapKeepsTree ==
  ASSUME NEW U, NEW t, IsTree(t, U), NEW p \in DOMAIN t, NEW v, NEW u, IsSwap(t, p, v, u)
  PROVE  IsTree(u, U) /\ Swapped(t, p, v, u)
<1> DEFINE left == DOMAIN t \ Below(t, p)
           w == [q \in left |-> t[q]]
<1>1. u = [w EXCEPT ![p].v = v]
  BY DEF IsSwap, swapPayload, Without
<1>2. p \in left
  <2>1. Len(p) \in Nat
    BY LenProperties DEF IsTree
  <2>2. ~(Len(p) > Len(p))
    BY <2>1
  <2> QED BY <2>2, Zenon DEF Below
<1> HIDE DEF left
<1>3. DOMAIN w = left /\ \A q \in left : w[q] = t[q]
  OBVIOUS
<1> HIDE DEF w
<1>4. DOMAIN u = left /\ \A q \in left : q # p => u[q] = t[q]
  BY <1>1, <1>3
<1>5. u[p] = [t[p] EXCEPT !.v = v]
  BY <1>1, <1>2, <1>3
<1>6. t[p] = [v |-> t[p].v, c |-> t[p].c]
  BY DEF IsTree
<1>7. u[p] = [v |-> v, c |-> t[p].c]
  BY <1>5, <1>6
<1>8. u[p].v = v /\ u[p] = [v |-> u[p].v, c |-> u[p].c]
  BY <1>7
<1>9. left \subseteq DOMAIN t
  BY DEF left
<1>10. IsTree(u, U)
  BY <1>4, <1>8, <1>9, Zenon DEF IsTree
<1> QED BY <1>4, <1>8, <1>10 DEF left, Swapped

\* u is t with a value at child, and every value that is not below it as it was.
Resolved(t, child, u) ==
  /\ child \in DOMAIN u
  /\ \A q \in DOMAIN t : ~IsPrefix(child, q) => q \in DOMAIN u /\ u[q] = t[q]
  /\ \A q \in DOMAIN t : q \notin Below(t, child) => q \in DOMAIN u

\* Json::Value::operator[] on a container of the right kind does that.
LEMMA ResolveKeepsTree ==
  ASSUME NEW U, <<>> \in U, NEW t, IsTree(t, U), NEW p \in DOMAIN t, NEW step \in Step(U),
         t[p].v.type = Box(step).type, NEW u, u = resolveReference(t, p, step).tree,
         NEW child, child = Append(p, step)
  PROVE  IsTree(u, U) /\ Resolved(t, child, u)
<1> DEFINE leaf == Leaf(nullValue)
           new == Replace(t, child, leaf)
<1>1. Box(step).type # "null"
  BY DEF Box, arrayValue, objectValue
<1>2. u = IF child \in DOMAIN t THEN t ELSE new
  BY <1>1 DEF resolveReference, Thrown, Done
<1>3. p \in Seq(Step(U))
  BY DEF IsTree
<1>4. child \in Seq(Step(U))
  BY <1>3, ChildPath
<1>5. CASE child \in DOMAIN t
  BY <1>2, <1>5 DEF Resolved
<1>6. CASE child \notin DOMAIN t
  <2> DEFINE dom == (DOMAIN t \ Below(t, child)) \cup {child}
  <2>1. DOMAIN leaf = {<<>>} /\ leaf[<<>>] = Node(nullValue)
    BY LeafIsTree
  <2>2. child \o <<>> = child /\ SubSeq(child, Len(child) + 1, Len(child)) = <<>>
    BY <1>4, NothingBehind
  <2> HIDE DEF leaf
  <2>3. {child \o r : r \in DOMAIN leaf} = {child}
    BY <2>1, <2>2
  <2>4. new = [q \in dom |-> IF IsPrefix(child, q) THEN leaf[SubSeq(q, Len(child) + 1, Len(q))] ELSE t[q]]
    BY <2>3, Zenon DEF Replace
  <2>5. IsPrefix(child, child)
    BY <1>4, PrefixOrder
  <2> HIDE DEF new
  <2>6. DOMAIN new = dom /\ new[child] = Node(nullValue)
    BY <2>1, <2>2, <2>4, <2>5
  <2>7. \A q \in DOMAIN t \ Below(t, child) : ~IsPrefix(child, q)
    <3>1. SUFFICES ASSUME NEW q \in DOMAIN t, q \notin Below(t, child), IsPrefix(child, q)
                   PROVE  FALSE
      OBVIOUS
    <3>2. q \in Seq(Step(U))
      BY DEF IsTree
    <3>3. ~(Len(q) > Len(child))
      BY <3>1 DEF Below
    <3>4. Len(q) \in Nat /\ Len(child) \in Nat
      BY <1>4, <3>2, LenProperties
    <3>5. Len(q) <= Len(child)
      BY <3>3, <3>4
    <3>6. child = q
      BY <1>4, <3>1, <3>2, <3>5, PrefixOrder, Zenon
    <3> QED BY <1>6, <3>1, <3>6
  <2>8. \A q \in DOMAIN t \ Below(t, child) : q \in DOMAIN new /\ new[q] = t[q]
    BY <2>4, <2>6, <2>7
  <2>9. Node(nullValue) = [v |-> Node(nullValue).v, c |-> Node(nullValue).c]
    BY DEF Node
  <2>10. IsTree(new, U)
    <3>1. dom \subseteq Seq(Step(U))
      BY <1>4, Zenon DEF IsTree
    <3>2. ASSUME NEW q \in dom PROVE new[q] = [v |-> new[q].v, c |-> new[q].c]
      <4>1. CASE q = child
        BY <2>6, <2>9, <4>1, Zenon
      <4>2. CASE q # child
        BY <2>8, <4>2, Zenon DEF IsTree
      <4> QED BY <4>1, <4>2
    <3> QED BY <2>6, <3>1, <3>2, Zenon DEF IsTree
  <2>11. \A q \in DOMAIN t : ~IsPrefix(child, q) => q \notin Below(t, child)
    BY DEF Below
  <2> HIDE DEF dom
  <2>12. u = new
    BY <1>2, <1>6
  <2>13. child \in DOMAIN new
    BY <2>6 DEF dom
  <2> QED BY <2>8, <2>10, <2>11, <2>12, <2>13, Zenon DEF Resolved
<1> QED BY <1>5, <1>6

(* ---- the values being read and the calls not yet returned from ------------------ *)
Frames(U) == [kind : {"object", "array"}, name : U, index : Nat]

\* nodes_ holds the values of the tree from the root to the one being read; the outer
\* ones are containers of the kind of the call that reads them.
Stack(U, t, ns, op) ==
  /\ ns \in Seq(Seq(Step(U))) /\ op \in Seq(Frames(U))
  /\ Len(ns) >= 1 /\ Len(op) <= Len(ns)
  /\ \A k \in 1..Len(ns) : ns[k] \in DOMAIN t /\ Len(ns[k]) = k - 1
  /\ \A k \in 1..Len(ns) - 1 : IsPrefix(ns[k], ns[k + 1])
  /\ \A k \in 1..Len(op) : t[ns[k]].v.type = op[k].kind

\* q lies at least two steps below p.
Deep(p, q) == Len(q) > Len(p) + 1 /\ IsPrefix(p, q)

\* The lengths are numbers, and the last node is one of the tree.
LEMMA StackTop ==
  ASSUME NEW U, NEW t, NEW ns, NEW op, Stack(U, t, ns, op)
  PROVE  /\ Len(ns) \in Nat /\ Len(op) \in Nat /\ Len(ns) \in 1..Len(ns)
         /\ Last(ns) = ns[Len(ns)] /\ Last(ns) \in DOMAIN t /\ Last(ns) \in Seq(Step(U))
         /\ Len(Last(ns)) = Len(ns) - 1
         /\ op # <<>> <=> Len(op) > 0
<1>1. Len(ns) \in Nat /\ Len(op) \in Nat
  BY LenProperties DEF Stack
<1>2. Len(ns) \in 1..Len(ns)
  BY <1>1 DEF Stack
<1>3. Last(ns) = ns[Len(ns)]
  BY DEF Last
<1>4. Last(ns) \in Seq(Step(U))
  <2>1. ns \in Seq(Seq(Step(U)))
    BY DEF Stack
  <2> QED BY <1>2, <1>3, <2>1, ElementOfSeq
<1>5. Last(ns) \in DOMAIN t /\ Len(Last(ns)) = Len(ns) - 1
  BY <1>2, <1>3 DEF Stack
<1>6. op # <<>> <=> Len(op) > 0
  <2>1. op \in Seq(Frames(U))
    BY DEF Stack
  <2>2. Len(<<>>) = 0 /\ (op # <<>> => Len(op) \in Nat \ {0})
    BY <2>1, EmptySeq
  <2> QED BY <1>1, <2>2
<1> QED BY <1>1, <1>2, <1>3, <1>4, <1>5, <1>6

\* The stack of a tree is one of every tree that keeps its values and their kinds.
LEMMA StackOfTree ==
  ASSUME NEW U, NEW t, NEW ns, NEW op, Stack(U, t, ns, op), NEW u,
         \A k \in 1..Len(ns) : ns[k] \in DOMAIN u,
         \A k \in 1..Len(op) : u[ns[k]].v.type = t[ns[k]].v.type
  PROVE  Stack(U, u, ns, op)
BY DEF Stack

\* More names are no harm.
LEMMA MoreNames ==
  ASSUME NEW U, NEW W, U \subseteq W, NEW t, IsTree(t, U), NEW ns, NEW op, Stack(U, t, ns, op)
  PROVE  IsTree(t, W) /\ Stack(W, t, ns, op)
<1>1. Step(U) \subseteq Step(W) /\ Frames(U) \subseteq Frames(W)
  BY DEF Step, Frames
<1>2. Seq(Step(U)) \subseteq Seq(Step(W))
  BY <1>1, SeqMonotonic
<1>3. ns \in Seq(Seq(Step(W))) /\ op \in Seq(Frames(W))
  BY <1>1, <1>2, SeqMonotonic DEF Stack
<1> QED BY <1>2, <1>3 DEF IsTree, Stack

\* setComment keeps the stack.
LEMMA StackCommented ==
  ASSUME NEW U, NEW t, IsTree(t, U), NEW ns, NEW op, Stack(U, t, ns, op), NEW p \in DOMAIN t, NEW placement,
         NEW u, u = setComment(t, p, placement)
  PROVE  IsTree(u, U) /\ DOMAIN u = DOMAIN t /\ Stack(U, u, ns, op)
<1>1. IsTree(u, U) /\ DOMAIN u = DOMAIN t /\ \A q \in DOMAIN t : u[q].v = t[q].v
  BY CommentKeepsTree
<1>2. Len(op) \in Nat /\ Len(ns) \in Nat
  BY StackTop
<1>3. \A k \in 1..Len(ns) : ns[k] \in DOMAIN t
  BY DEF Stack
<1>4. \A k \in 1..Len(op) : k \in 1..Len(ns)
  BY <1>2 DEF Stack
<1>5. Stack(U, u, ns, op)
  BY <1>1, <1>3, <1>4, StackOfTree
<1> QED BY <1>1, <1>5

\* A payload put into the value being read keeps the stack, and every value that is not
\* below it.
LEMMA StackSwapped ==
  ASSUME NEW U, NEW t, IsTree(t, U), NEW ns, NEW op, Stack(U, t, ns, op), Len(op) = Len(ns) - 1, NEW v,
         NEW u, IsSwap(t, Last(ns), v, u)
  PROVE  IsTree(u, U) /\ Stack(U, u, ns, op) /\ Swapped(t, Last(ns), v, u)
<1> DEFINE p == Last(ns)
<1>1. /\ Len(ns) \in Nat /\ Len(op) \in Nat /\ Len(ns) \in 1..Len(ns)
      /\ p = ns[Len(ns)] /\ p \in DOMAIN t /\ p \in Seq(Step(U)) /\ Len(p) = Len(ns) - 1
  BY StackTop
<1> HIDE DEF p
<1>2. IsTree(u, U) /\ Swapped(t, p, v, u)
  <2>1. p \in DOMAIN t
    BY <1>1
  <2>2. IsSwap(t, p, v, u)
    BY DEF p
  <2> QED BY <2>1, <2>2, SwapKeepsTree, Zenon
<1>3. \A k \in 1..Len(ns) : ns[k] \in DOMAIN t /\ Len(ns[k]) = k - 1
  BY DEF Stack
<1>4. \A k \in 1..Len(ns) : ~(Len(ns[k]) > Len(p))
  BY <1>1, <1>3
<1>5. \A k \in 1..Len(ns) : ns[k] \in DOMAIN u
  BY <1>2, <1>3, <1>4 DEF Below, Swapped
<1>6. \A k \in 1..Len(op) : k \in 1..Len(ns) /\ Len(ns[k]) # Len(p)
  BY <1>1, <1>3
<1>7. \A k \in 1..Len(op) : u[ns[k]] = t[ns[k]]
  BY <1>2, <1>5, <1>6 DEF Swapped
<1>8. Stack(U, u, ns, op)
  BY <1>5, <1>7, StackOfTree
<1> QED BY <1>2, <1>8 DEF p

\* What a push and a pop leave, named so that the steps below can speak of the result alone.
IsAppend(s, e, r) == r = Append(s, e)
IsFront(s, r) == r = Front(s)
IsChange(s, e, r) == r = [s EXCEPT ![Len(s)] = e]

\* All of a sequence but the last element.
LEMMA FrontOf ==
  ASSUME NEW S, NEW s \in Seq(S), Len(s) >= 1
  PROVE  /\ Front(s) \in Seq(S) /\ Len(Front(s)) = Len(s) - 1
         /\ \A i \in 1..Len(s) - 1 : Front(s)[i] = s[i]
<1> DEFINE n == Len(s) - 1
<1>1. n \in Nat /\ Len(s) \in Nat
  BY LenProperties
<1>2. Front(s) = SubSeq(s, 1, n)
  BY DEF Front
<1>3. \A i \in 1..n : s[i] \in S
  <2>1. \A i \in 1..n : i \in 1..Len(s)
    BY <1>1
  <2> QED BY <2>1, ElementOfSeq
<1> HIDE DEF n
<1>4. /\ SubSeq(s, 1, n) \in Seq(S)
      /\ Len(SubSeq(s, 1, n)) = IF 1 <= n THEN n - 1 + 1 ELSE 0
      /\ \A i \in 1..n - 1 + 1 : SubSeq(s, 1, n)[i] = s[1 + i - 1]
  BY <1>1, <1>3, SubSeqProperties
<1>5. Len(Front(s)) = n /\ \A i \in 1..n : Front(s)[i] = s[i]
  BY <1>1, <1>2, <1>4
<1> QED BY <1>2, <1>4, <1>5 DEF n

\* The new value of a container being read goes on the stack.
LEMMA StackPushed ==
  ASSUME NEW U, <<>> \in U, NEW t, IsTree(t, U), NEW ns, NEW op, Stack(U, t, ns, op), Len(op) = Len(ns),
         NEW step \in Step(U), Last(op).kind = Box(step).type,
         NEW u, u = resolveReference(t, Last(ns), step).tree,
         NEW ms, IsAppend(ns, Append(Last(ns), step), ms)
  PROVE  /\ IsTree(u, U) /\ Stack(U, u, ms, op) /\ Len(ms) = Len(ns) + 1
         /\ \A q \in DOMAIN t : ~Deep(Last(ns), q) => q \in DOMAIN u
<1> DEFINE p == Last(ns)
           child == Append(p, step)
<1>1. /\ Len(ns) \in Nat /\ Len(op) \in Nat /\ Len(ns) \in 1..Len(ns)
      /\ p = ns[Len(ns)] /\ p \in DOMAIN t /\ p \in Seq(Step(U)) /\ Len(p) = Len(ns) - 1
  BY StackTop
<1>2. t[p].v.type = Box(step).type
  BY <1>1 DEF Stack, Last
<1>3. u = resolveReference(t, p, step).tree /\ IsAppend(ns, child, ms)
  OBVIOUS
<1> HIDE DEF p
<1>4. child \in Seq(Step(U)) /\ Len(child) = Len(p) + 1 /\ IsPrefix(p, child)
  BY <1>1, ChildPath
<1>5. IsTree(u, U) /\ Resolved(t, child, u)
  BY <1>1, <1>2, <1>3, ResolveKeepsTree, Zenon
<1> HIDE DEF child
<1>6. ns \in Seq(Seq(Step(U)))
  BY DEF Stack
<1>7. /\ ms \in Seq(Seq(Step(U))) /\ Len(ms) = Len(ns) + 1
      /\ \A k \in 1..Len(ns) : ms[k] = ns[k]
      /\ ms[Len(ns) + 1] = child
  BY <1>3, <1>4, <1>6, AppendProperties DEF IsAppend
<1>8. \A q \in DOMAIN t : IsPrefix(child, q) => Len(child) <= Len(q) /\ Len(q) \in Nat /\ IsPrefix(p, q)
  <2>1. ASSUME NEW q \in DOMAIN t, IsPrefix(child, q)
        PROVE  Len(child) <= Len(q) /\ Len(q) \in Nat /\ IsPrefix(p, q)
    <3>1. q \in Seq(Step(U))
      BY DEF IsTree
    <3>2. Len(q) \in Nat
      BY <3>1, LenProperties
    <3> QED BY <1>1, <1>4, <2>1, <3>1, <3>2, PrefixOrder
  <2> QED BY <2>1
<1>9. \A k \in 1..Len(ns) : ns[k] \in DOMAIN t /\ Len(ns[k]) = k - 1
  BY DEF Stack
<1>10. \A k \in 1..Len(ns) : ~(Len(child) <= Len(ns[k]))
  BY <1>1, <1>4, <1>9
<1>11. \A k \in 1..Len(ns) : ns[k] \in DOMAIN u /\ u[ns[k]] = t[ns[k]]
  BY <1>5, <1>8, <1>9, <1>10 DEF Resolved
<1>12. \A k \in 1..Len(ms) : ms[k] \in DOMAIN u /\ Len(ms[k]) = k - 1
  <2>1. child \in DOMAIN u /\ Len(child) = Len(ns)
    BY <1>1, <1>4, <1>5 DEF Resolved
  <2>2. ASSUME NEW k \in 1..Len(ms) PROVE ms[k] \in DOMAIN u /\ Len(ms[k]) = k - 1
    <3>1. CASE k \in 1..Len(ns)
      BY <1>7, <1>9, <1>11, <3>1
    <3>2. CASE k = Len(ns) + 1
      BY <1>1, <1>7, <2>1, <3>2
    <3> QED BY <1>1, <1>7, <2>2, <3>1, <3>2
  <2> QED BY <2>2
<1>13. \A k \in 1..Len(ms) - 1 : IsPrefix(ms[k], ms[k + 1])
  <2>1. ASSUME NEW k \in 1..Len(ms) - 1 PROVE IsPrefix(ms[k], ms[k + 1])
    <3>1. CASE k \in 1..Len(ns) - 1
      <4>1. k \in 1..Len(ns) /\ k + 1 \in 1..Len(ns)
        BY <1>1, <3>1
      <4>2. IsPrefix(ns[k], ns[k + 1])
        BY <3>1 DEF Stack
      <4> QED BY <1>7, <4>1, <4>2
    <3>2. CASE k = Len(ns)
      BY <1>1, <1>4, <1>7, <3>2
    <3> QED BY <1>1, <1>7, <2>1, <3>1, <3>2
  <2> QED BY <2>1
<1>14. \A k \in 1..Len(op) : u[ms[k]].v.type = op[k].kind
  <2>1. ASSUME NEW k \in 1..Len(op) PROVE u[ms[k]].v.type = op[k].kind
    <3>1. k \in 1..Len(ns)
      OBVIOUS
    <3>2. u[ms[k]] = t[ns[k]]
      BY <1>7, <1>11, <3>1
    <3>3. t[ns[k]].v.type = op[k].kind
      BY DEF Stack
    <3> QED BY <3>2, <3>3
  <2> QED BY <2>1
<1>15. op \in Seq(Frames(U)) /\ Len(ms) >= 1 /\ Len(op) <= Len(ms)
  BY <1>1, <1>7 DEF Stack
<1>16. Stack(U, u, ms, op)
  BY <1>7, <1>12, <1>13, <1>14, <1>15 DEF Stack
<1>17. \A q \in DOMAIN t : ~Deep(p, q) => q \in DOMAIN u
  <2>1. ASSUME NEW q \in DOMAIN t, q \notin DOMAIN u PROVE Deep(p, q)
    <3>1. q \in Below(t, child)
      BY <1>5, <2>1 DEF Resolved
    <3>2. Len(q) > Len(child) /\ IsPrefix(child, q)
      BY <3>1 DEF Below
    <3>3. IsPrefix(p, q) /\ Len(q) > Len(p) + 1
      BY <1>4, <1>8, <2>1, <3>2
    <3> QED BY <3>3 DEF Deep
  <2> QED BY <2>1
<1> QED BY <1>5, <1>7, <1>16, <1>17 DEF p

\* The value that was read leaves the stack.
LEMMA StackPopped ==
  ASSUME NEW U, NEW t, NEW ns, NEW op, Stack(U, t, ns, op), Len(op) = Len(ns) - 1, Len(ns) # 1,
         NEW ms, IsFront(ns, ms)
  PROVE  Stack(U, t, ms, op) /\ Len(ms) = Len(op) /\ op # <<>>
<1>1. Len(ns) \in Nat /\ Len(op) \in Nat /\ (op # <<>> <=> Len(op) > 0)
  BY StackTop
<1>2. ns \in Seq(Seq(Step(U))) /\ op \in Seq(Frames(U)) /\ Len(ns) >= 1
  BY DEF Stack
<1>3. Len(ns) > 1 /\ Len(op) > 0
  BY <1>1, <1>2
<1>4. ms \in Seq(Seq(Step(U))) /\ Len(ms) = Len(ns) - 1 /\ \A k \in 1..Len(ns) - 1 : ms[k] = ns[k]
  <2> DEFINE S == Seq(Step(U))
  <2>1. ns \in Seq(S)
    BY <1>2
  <2> HIDE DEF S
  <2>2. ms \in Seq(S) /\ Len(ms) = Len(ns) - 1 /\ \A k \in 1..Len(ns) - 1 : ms[k] = ns[k]
    BY <1>2, <2>1, FrontOf, Zenon DEF IsFront
  <2> QED BY <2>2 DEF S
<1>5. \A k \in 1..Len(ms) : k \in 1..Len(ns) /\ ms[k] = ns[k]
  <2>1. Len(ms) = Len(ns) - 1
    BY <1>4
  <2>2. \A k \in 1..Len(ns) - 1 : ms[k] = ns[k]
    BY <1>4
  <2> QED BY SMTT(60), <1>1, <2>1, <2>2
<1>6. \A k \in 1..Len(ms) - 1 : k \in 1..Len(ns) - 1 /\ ms[k] = ns[k] /\ ms[k + 1] = ns[k + 1]
  <2>1. ASSUME NEW k \in 1..Len(ms) - 1
        PROVE  k \in 1..Len(ms) /\ k + 1 \in 1..Len(ms) /\ k \in 1..Len(ns) - 1
    <3> DEFINE m == Len(ms)
               n == Len(ns)
    <3>1. m = n - 1 /\ n \in Nat /\ k \in 1..m - 1
      BY <1>1, <1>4, <2>1
    <3> HIDE DEF m, n
    <3> QED BY <3>1 DEF m, n
  <2> QED BY <1>5, <2>1, Zenon
<1>7. Len(ms) >= 1 /\ Len(op) <= Len(ms) /\ \A k \in 1..Len(op) : k \in 1..Len(ms)
  BY <1>1, <1>3, <1>4
<1>8. \A k \in 1..Len(ms) : ms[k] \in DOMAIN t /\ Len(ms[k]) = k - 1
  BY <1>5 DEF Stack
<1>9. \A k \in 1..Len(ms) - 1 : IsPrefix(ms[k], ms[k + 1])
  BY <1>6 DEF Stack
<1>10. \A k \in 1..Len(op) : t[ms[k]].v.type = op[k].kind
  BY <1>5, <1>7 DEF Stack
<1>11. Stack(U, t, ms, op)
  BY <1>2, <1>4, <1>7, <1>8, <1>9, <1>10, Zenon DEF Stack
<1>12. Len(ms) = Len(op) /\ op # <<>>
  BY <1>1, <1>3, <1>4
<1> QED BY <1>11, <1>12

\* A call begins to read the container on top of the stack.
LEMMA CallPushed ==
  ASSUME NEW U, <<>> \in U, NEW t, NEW ns, NEW op, Stack(U, t, ns, op), Len(op) = Len(ns) - 1,
         NEW kind \in {"object", "array"}, t[Last(ns)].v.type = kind, NEW np, IsAppend(op, Frame(kind), np)
  PROVE  /\ Stack(U, t, ns, np) /\ Len(np) = Len(ns) /\ Last(np).kind = kind
<1>1. Len(ns) \in Nat /\ Len(op) \in Nat /\ Last(ns) = ns[Len(ns)]
  BY StackTop
<1>2. Frame(kind) \in Frames(U) /\ Frame(kind).kind = kind
  BY DEF Frame, Frames
<1>3. op \in Seq(Frames(U))
  BY DEF Stack
<1> HIDE DEF Frame
<1>4. /\ np \in Seq(Frames(U)) /\ Len(np) = Len(op) + 1
      /\ \A k \in 1..Len(op) : np[k] = op[k]
      /\ np[Len(op) + 1] = Frame(kind)
  BY <1>2, <1>3, AppendProperties DEF IsAppend
<1>5. Len(np) = Len(ns) /\ np[Len(ns)] = Frame(kind)
  BY <1>1, <1>4
<1>6. ASSUME NEW k \in 1..Len(np) PROVE t[ns[k]].v.type = np[k].kind
  <2>1. CASE k \in 1..Len(op)
    BY <1>4, <2>1 DEF Stack
  <2>2. CASE k = Len(ns)
    BY <1>1, <1>2, <1>5, <2>2
  <2> QED BY <1>1, <1>5, <1>6, <2>1, <2>2
<1>7. Stack(U, t, ns, np)
  <2>1. Len(np) <= Len(ns)
    BY <1>1, <1>5
  <2> QED BY <1>4, <1>6, <2>1, Zenon DEF Stack
<1>8. Last(np).kind = kind
  BY <1>2, <1>5 DEF Last
<1> QED BY <1>5, <1>7, <1>8

\* A call returns.
LEMMA CallPopped ==
  ASSUME NEW U, NEW t, NEW ns, NEW op, Stack(U, t, ns, op), Len(op) = Len(ns), NEW np, IsFront(op, np)
  PROVE  Stack(U, t, ns, np) /\ Len(np) = Len(ns) - 1
<1>1. Len(ns) \in Nat /\ Len(op) \in Nat /\ Len(op) >= 1
  BY StackTop DEF Stack
<1>2. op \in Seq(Frames(U))
  BY DEF Stack
<1>3. np \in Seq(Frames(U)) /\ Len(np) = Len(op) - 1 /\ \A k \in 1..Len(op) - 1 : np[k] = op[k]
  BY <1>1, <1>2, FrontOf DEF IsFront
<1>4. \A k \in 1..Len(np) : k \in 1..Len(op) /\ np[k] = op[k]
  BY <1>1, <1>3
<1>5. Len(np) <= Len(ns)
  BY <1>1, <1>3
<1>6. Stack(U, t, ns, np)
  BY <1>3, <1>4, <1>5 DEF Stack
<1> QED BY <1>3, <1>6

\* The innermost call changes its name or its index.
LEMMA CallChanged ==
  ASSUME NEW U, NEW t, NEW ns, NEW op, Stack(U, t, ns, op), Len(op) = Len(ns),
         NEW frame \in Frames(U), frame.kind = Last(op).kind, NEW np, IsChange(op, frame, np)
  PROVE  Stack(U, t, ns, np) /\ Len(np) = Len(ns) /\ Last(np).kind = Last(op).kind
<1>1. Len(ns) \in Nat /\ Len(op) \in Nat /\ Len(op) \in 1..Len(op)
  BY StackTop DEF Stack
<1>2. op \in Seq(Frames(U))
  BY DEF Stack
<1>3. /\ np \in Seq(Frames(U)) /\ Len(np) = Len(op)
      /\ \A k \in 1..Len(op) : np[k] = IF k = Len(op) THEN frame ELSE op[k]
  <2> DEFINE n == Len(op)
  <2>1. n \in 1..Len(op)
    BY <1>1
  <2> HIDE DEF n
  <2>2. np = [op EXCEPT ![n] = frame]
    BY DEF n, IsChange
  <2>3. /\ np \in Seq(Frames(U)) /\ Len(np) = Len(op)
        /\ \A k \in 1..Len(op) : np[k] = IF k = n THEN frame ELSE op[k]
    BY <1>2, <2>1, <2>2, ExceptSeq
  <2> QED BY <2>3 DEF n
<1>4. \A k \in 1..Len(op) : np[k].kind = op[k].kind
  BY <1>1, <1>3 DEF Last
<1>5. Stack(U, t, ns, np)
  BY <1>1, <1>3, <1>4 DEF Stack
<1>6. Last(np).kind = Last(op).kind
  BY <1>1, <1>3, <1>4 DEF Last
<1> QED BY <1>3, <1>5, <1>6

(* ---- the invariant -------------------------------------------------------------- *)
\* Where the innermost call is one that reads a container.
InObject == {"name", "colon", "comma", "lateComma"}
InArray == {"element", "sep"}
InCall == InObject \cup InArray \cup {"recover"}

\* A call has a value of its own on the stack; readValue has one more than the calls around it.
Levels(p, ns, op) ==
  /\ Len(op) = IF p \in InCall THEN Len(ns) ELSE Len(ns) - 1
  /\ p \in InObject => Last(op).kind = "object"
  /\ p \in InArray => Last(op).kind = "array"
  /\ p = "tail" => Len(ns) = 1

\* lastValue_ is a value of the tree, and but for the moment at which a value ends it is not
\* below a member or an element of the innermost container: what a value about to be read
\* will throw away does not have it.
Near(p, t, ns, op, lv) ==
  /\ lv \in DOMAIN t
  /\ p \in {"enter", "value"} => Len(ns) # 1
  /\ p # "end" /\ op # <<>> => ~Deep(ns[Len(op)], lv)

Good(p, t, ns, op, lv) ==
  /\ \E U : <<>> \in U /\ IsTree(t, U) /\ Stack(U, t, ns, op)
  /\ Levels(p, ns, op)
  /\ lv # NoPath => Near(p, t, ns, op, lv)

Parsing == pc \notin {"idle", "done", "thrown"}
IInv == Parsing => /\ Good(pc, root, nodes, open, lastValue)
                   /\ lastValue # NoPath => collectComments

\* The Reader goes on at another point of the same call.
LEMMA GoOn ==
  ASSUME NEW p, NEW t, NEW ns, NEW op, NEW lv, Good(p, t, ns, op, lv), p # "end",
         NEW q, p \in InCall <=> q \in InCall,
         q \in InObject => p \in InObject, q \in InArray => p \in InArray, q # "tail",
         q \in {"enter", "value"} => p \in {"enter", "value"}
  PROVE  Good(q, t, ns, op, lv)
<1>1. Levels(q, ns, op)
  BY Zenon DEF Levels, Good
<1>2. lv # NoPath => Near(q, t, ns, op, lv)
  BY Zenon DEF Near, Good
<1> QED BY <1>1, <1>2, Zenon DEF Good

\* A comment goes to a value of the tree.
LEMMA GoodCommented ==
  ASSUME NEW p, NEW t, NEW ns, NEW op, NEW lv, Good(p, t, ns, op, lv),
         NEW q \in DOMAIN t, NEW placement, NEW u, u = setComment(t, q, placement)
  PROVE  Good(p, u, ns, op, lv)
<1>1. PICK U : <<>> \in U /\ IsTree(t, U) /\ Stack(U, t, ns, op)
  BY Zenon DEF Good
<1>2. IsTree(u, U) /\ DOMAIN u = DOMAIN t /\ Stack(U, u, ns, op)
  BY <1>1, StackCommented
<1>3. lv # NoPath => Near(p, u, ns, op, lv)
  BY <1>2, Zenon DEF Good, Near
<1>4. Levels(p, ns, op)
  BY Zenon DEF Good
<1> QED BY <1>1, <1>2, <1>3, <1>4, Zenon DEF Good

\* The value being read is one of the tree.
LEMMA CurrentExists ==
  ASSUME NEW p, NEW t, NEW ns, NEW op, NEW lv, Good(p, t, ns, op, lv)
  PROVE  Last(ns) \in DOMAIN t
<1>1. PICK U : <<>> \in U /\ IsTree(t, U) /\ Stack(U, t, ns, op)
  BY Zenon DEF Good
<1> QED BY <1>1, StackTop, Zenon

\* lastValue_ is not below the value that is about to be read.
LEMMA NotBelowCurrent ==
  ASSUME NEW U, NEW t, IsTree(t, U), NEW ns, NEW op, Stack(U, t, ns, op), Levels("value", ns, op),
         NEW lv, Near("value", t, ns, op, lv)
  PROVE  lv \in DOMAIN t \ Below(t, Last(ns)) /\ ~Deep(Last(ns), lv)
<1>1. /\ Len(ns) \in Nat /\ Len(op) \in Nat /\ Len(ns) \in 1..Len(ns)
      /\ Last(ns) = ns[Len(ns)] /\ Last(ns) \in Seq(Step(U)) /\ Len(Last(ns)) = Len(ns) - 1
      /\ op # <<>> <=> Len(op) > 0
  BY StackTop
<1>2. Len(op) = Len(ns) - 1
  BY DEF Levels, InCall, InObject, InArray
<1>3. Len(ns) # 1 /\ lv \in DOMAIN t /\ (op # <<>> => ~Deep(ns[Len(op)], lv))
  BY DEF Near
<1>4. ~Deep(ns[Len(op)], lv) /\ Len(op) \in 1..Len(ns) /\ Len(op) \in 1..Len(ns) - 1
  BY <1>1, <1>2, <1>3
<1> DEFINE p == ns[Len(op)]
           q == Last(ns)
<1>5. p \in Seq(Step(U)) /\ Len(p) = Len(ns) - 2 /\ IsPrefix(p, q)
  <2>1. ns \in Seq(Seq(Step(U)))
    BY DEF Stack
  <2>2. p \in Seq(Step(U))
    BY <1>4, <2>1, ElementOfSeq
  <2>3. Len(p) = Len(op) - 1 /\ IsPrefix(p, ns[Len(op) + 1])
    BY <1>4 DEF Stack
  <2>4. ns[Len(op) + 1] = q
    BY <1>1, <1>2
  <2> HIDE DEF p, q
  <2> QED BY <1>1, <1>2, <2>2, <2>3, <2>4
<1>6. lv \in Seq(Step(U))
  BY <1>3 DEF IsTree
<1>7. Len(lv) \in Nat
  BY <1>6, LenProperties
<1> HIDE DEF p, q
<1>8. q \in Seq(Step(U)) /\ Len(q) = Len(ns) - 1
  BY <1>1 DEF q
<1>9. IsPrefix(q, lv) => IsPrefix(p, lv)
  BY <1>5, <1>6, <1>8, PrefixOrder, Zenon
<1>10. ~(Len(lv) > Len(q) /\ IsPrefix(q, lv))
  <2>1. SUFFICES ASSUME Len(lv) > Len(q), IsPrefix(q, lv) PROVE FALSE
    OBVIOUS
  <2>2. IsPrefix(p, lv)
    BY <1>9, <2>1
  <2>3. Len(lv) > Len(p) + 1
    BY <1>1, <1>5, <1>7, <1>8, <2>1
  <2> QED BY <1>4, <2>2, <2>3 DEF Deep, p
<1>11. lv \notin Below(t, q)
  BY <1>10, Zenon DEF Below
<1>12. ~Deep(q, lv)
  <2>1. Len(lv) > Len(q) + 1 => Len(lv) > Len(q)
    BY <1>1, <1>7, <1>8
  <2> QED BY <1>10, <2>1, Zenon DEF Deep
<1> QED BY <1>3, <1>11, <1>12 DEF q

HasPayload(t, p, v) == t[p].v = v

\* swapPayload puts a value in the place of the one that is read.
LEMMA GoodSwapped ==
  ASSUME NEW t, NEW ns, NEW op, NEW lv, Good("value", t, ns, op, lv), NEW v,
         NEW u, IsSwap(t, Last(ns), v, u)
  PROVE  Good("value", u, ns, op, lv) /\ HasPayload(u, Last(ns), v)
<1>1. PICK U : <<>> \in U /\ IsTree(t, U) /\ Stack(U, t, ns, op)
  BY Zenon DEF Good
<1>2. Levels("value", ns, op)
  BY Zenon DEF Good
<1>3. Len(op) = Len(ns) - 1
  BY <1>2 DEF Levels, InCall, InObject, InArray
<1>4. IsTree(u, U) /\ Stack(U, u, ns, op) /\ Swapped(t, Last(ns), v, u)
  BY <1>1, <1>3, StackSwapped, Zenon
<1>5. ASSUME lv # NoPath PROVE Near("value", u, ns, op, lv)
  <2>1. Near("value", t, ns, op, lv)
    BY <1>5, Zenon DEF Good
  <2>2. lv \in DOMAIN t \ Below(t, Last(ns))
    BY <1>1, <1>2, <2>1, NotBelowCurrent
  <2>3. lv \in DOMAIN u
    BY <1>4, <2>2, Zenon DEF Swapped
  <2> QED BY <2>1, <2>3, Zenon DEF Near
<1>6. Good("value", u, ns, op, lv)
  BY <1>1, <1>2, <1>4, <1>5, Zenon DEF Good
<1> QED BY <1>4, <1>6, Zenon DEF Swapped, HasPayload

\* readObject or readArray is called for the value that is now a container.
LEMMA GoodOpened ==
  ASSUME NEW t, NEW ns, NEW op, NEW lv, Good("value", t, ns, op, lv),
         NEW kind \in {"object", "array"}, t[Last(ns)].v.type = kind, NEW np, IsAppend(op, Frame(kind), np),
         NEW p, p = IF kind = "object" THEN "name" ELSE "element"
  PROVE  Good(p, t, ns, np, lv)
<1>1. PICK U : <<>> \in U /\ IsTree(t, U) /\ Stack(U, t, ns, op)
  BY Zenon DEF Good
<1>2. Levels("value", ns, op)
  BY Zenon DEF Good
<1>3. Len(op) = Len(ns) - 1
  BY <1>2 DEF Levels, InCall, InObject, InArray
<1>4. Stack(U, t, ns, np) /\ Len(np) = Len(ns) /\ Last(np).kind = kind
  BY <1>1, <1>3, CallPushed
<1>5. Levels(p, ns, np)
  BY <1>4 DEF Levels, InCall, InObject, InArray
<1>6. ASSUME lv # NoPath PROVE Near(p, t, ns, np, lv)
  <2>1. Near("value", t, ns, op, lv)
    BY <1>6, Zenon DEF Good
  <2>2. lv \in DOMAIN t /\ ~Deep(Last(ns), lv)
    BY <1>1, <1>2, <2>1, NotBelowCurrent
  <2>3. ns[Len(np)] = Last(ns)
    BY <1>4 DEF Last
  <2>4. p \notin {"enter", "value"}
    OBVIOUS
  <2> QED BY <2>2, <2>3, <2>4, Zenon DEF Near
<1> QED BY <1>1, <1>4, <1>5, <1>6, Zenon DEF Good

\* A value has ended, and lastValue_ is this one or was never set.
LEMMA GoodEnded ==
  ASSUME NEW t, NEW ns, NEW op, NEW lv, Good("end", t, ns, op, lv)
  PROVE  /\ Good("return", t, ns, op, Last(ns))
         /\ Good("return", t, ns, op, NoPath)
<1>1. PICK U : <<>> \in U /\ IsTree(t, U) /\ Stack(U, t, ns, op)
  BY Zenon DEF Good
<1>2. Levels("end", ns, op)
  BY Zenon DEF Good
<1>3. Levels("return", ns, op) /\ Len(op) = Len(ns) - 1
  BY <1>2 DEF Levels, InCall, InObject, InArray
<1>4. /\ Len(ns) \in Nat /\ Len(op) \in Nat /\ Last(ns) \in DOMAIN t
      /\ Len(Last(ns)) = Len(ns) - 1 /\ (op # <<>> <=> Len(op) > 0)
  BY <1>1, StackTop
<1>5. ASSUME op # <<>> PROVE ~Deep(ns[Len(op)], Last(ns))
  <2>0. \A k \in 1..Len(ns) : Len(ns[k]) = k - 1
    BY <1>1, Zenon DEF Stack
  <2>1. Len(op) \in 1..Len(ns) /\ Len(ns[Len(op)]) = Len(op) - 1
    BY <1>3, <1>4, <1>5, <2>0
  <2>2. ~(Len(Last(ns)) > Len(ns[Len(op)]) + 1)
    BY <1>3, <1>4, <2>1
  <2> QED BY <2>2, Zenon DEF Deep
<1>6. Near("return", t, ns, op, Last(ns))
  BY <1>4, <1>5 DEF Near
<1> QED BY <1>1, <1>3, <1>6, Zenon DEF Good

\* readValue returns to parse.
LEMMA GoodFinished ==
  ASSUME NEW t, NEW ns, NEW op, NEW lv, Good("return", t, ns, op, lv), Len(ns) = 1
  PROVE  Good("tail", t, ns, op, lv)
<1>1. Levels("tail", ns, op)
  BY DEF Levels, InCall, InObject, InArray, Good
<1>2. lv # NoPath => Near("tail", t, ns, op, lv)
  BY DEF Near, Good
<1> QED BY <1>1, <1>2, Zenon DEF Good

\* readValue returns to readObject or readArray.
LEMMA GoodReturned ==
  ASSUME NEW t, NEW ns, NEW op, NEW lv, Good("return", t, ns, op, lv), Len(ns) # 1,
         NEW ms, IsFront(ns, ms),
         NEW p \in {"recover", "comma", "sep"},
         p = "comma" => Last(op).kind = "object", p = "sep" => Last(op).kind = "array"
  PROVE  Good(p, t, ms, op, lv)
<1>1. PICK U : <<>> \in U /\ IsTree(t, U) /\ Stack(U, t, ns, op)
  BY Zenon DEF Good
<1>2. Len(op) = Len(ns) - 1
  BY DEF Levels, InCall, InObject, InArray, Good
<1>3. Stack(U, t, ms, op) /\ Len(ms) = Len(op) /\ op # <<>>
  BY <1>1, <1>2, StackPopped
<1>4. Levels(p, ms, op)
  BY <1>3 DEF Levels, InCall, InObject, InArray
<1>5. ASSUME lv # NoPath PROVE Near(p, t, ms, op, lv)
  <2>1. lv \in DOMAIN t /\ ~Deep(ns[Len(op)], lv)
    BY <1>3, <1>5 DEF Near, Good
  <2>2. ms[Len(op)] = ns[Len(op)]
    <3>1. Len(ns) \in Nat /\ Len(op) \in Nat /\ Len(op) > 0
      BY <1>1, <1>3, StackTop
    <3>2. ns \in Seq(Seq(Step(U))) /\ Len(ns) >= 1
      BY <1>1 DEF Stack
    <3>3. \A i \in 1..Len(ns) - 1 : ms[i] = ns[i]
      BY <3>2, FrontOf, Zenon DEF IsFront
    <3>4. Len(op) \in 1..Len(ns) - 1
      BY <1>2, <3>1
    <3> QED BY <3>3, <3>4
  <2>3. p \notin {"enter", "value"}
    OBVIOUS
  <2> QED BY <2>1, <2>2, <2>3, Zenon DEF Near
<1> QED BY <1>1, <1>3, <1>4, <1>5, Zenon DEF Good

\* readObject or readArray returns.
LEMMA GoodClosed ==
  ASSUME NEW p \in InCall, NEW t, NEW ns, NEW op, NEW lv, Good(p, t, ns, op, lv), NEW np, IsFront(op, np)
  PROVE  Good("end", t, ns, np, lv)
<1>1. PICK U : <<>> \in U /\ IsTree(t, U) /\ Stack(U, t, ns, op)
  BY Zenon DEF Good
<1>2. Len(op) = Len(ns)
  BY DEF Levels, Good
<1>3. Stack(U, t, ns, np) /\ Len(np) = Len(ns) - 1
  BY <1>1, <1>2, CallPopped
<1>4. Levels("end", ns, np)
  BY <1>3 DEF Levels, InCall, InObject, InArray
<1>5. lv # NoPath => Near("end", t, ns, np, lv)
  BY DEF Near, Good
<1> QED BY <1>1, <1>3, <1>4, <1>5, Zenon DEF Good

\* currentValue()[name] and currentValue()[index] are made and read next.
LEMMA GoodPushed ==
  ASSUME NEW p \in InCall, NEW t, NEW ns, NEW op, NEW lv, Good(p, t, ns, op, lv),
         NEW step,
         \/ p \in InObject /\ step = Key(Last(op).name)
         \/ p \in InArray /\ \E i \in Nat : step = Idx(i),
         NEW u, u = resolveReference(t, Last(ns), step).tree,
         NEW ms, IsAppend(ns, Append(Last(ns), step), ms)
  PROVE  Good("enter", u, ms, op, lv)
<1>1. PICK U : <<>> \in U /\ IsTree(t, U) /\ Stack(U, t, ns, op)
  BY Zenon DEF Good
<1>2. /\ Len(op) = Len(ns)
      /\ p \in InObject => Last(op).kind = "object"
      /\ p \in InArray => Last(op).kind = "array"
  BY Zenon DEF Levels, Good
<1>3. Len(ns) \in Nat /\ Len(ns) \in 1..Len(ns) /\ Last(ns) = ns[Len(ns)]
  BY <1>1, StackTop
<1>4. Last(op) \in Frames(U)
  <2>1. op \in Seq(Frames(U))
    BY <1>1 DEF Stack
  <2>2. Len(op) \in 1..Len(op)
    BY <1>2, <1>3
  <2>3. op[Len(op)] \in Frames(U)
    BY <2>1, <2>2, ElementOfSeq
  <2> QED BY <2>3 DEF Last
<1>5. step \in Step(U) /\ Last(op).kind = Box(step).type
  <2>1. CASE p \in InObject /\ step = Key(Last(op).name)
    <3>1. Last(op).name \in U
      BY <1>4 DEF Frames
    <3>2. step.index = -1 /\ step \in Step(U)
      BY <2>1, <3>1 DEF Key, Step
    <3>3. Box(step) = objectValue
      BY <3>2 DEF Box
    <3> QED BY <1>2, <2>1, <3>2, <3>3 DEF objectValue
  <2>2. CASE p \in InArray /\ \E i \in Nat : step = Idx(i)
    <3>1. PICK i \in Nat : step = Idx(i)
      BY <2>2
    <3>2. step.index = i /\ step \in Step(U)
      BY <1>1, <3>1 DEF Idx, Step
    <3>3. Box(step) = arrayValue
      BY <3>2 DEF Box
    <3> QED BY <1>2, <2>2, <3>2, <3>3 DEF arrayValue
  <2> QED BY <2>1, <2>2
<1>6. /\ IsTree(u, U) /\ Stack(U, u, ms, op) /\ Len(ms) = Len(ns) + 1
      /\ \A q \in DOMAIN t : ~Deep(Last(ns), q) => q \in DOMAIN u
  BY <1>1, <1>2, <1>5, StackPushed
<1>7. Levels("enter", ms, op)
  BY <1>2, <1>3, <1>6 DEF Levels, InCall, InObject, InArray
<1>8. ASSUME lv # NoPath PROVE Near("enter", u, ms, op, lv)
  <2>1. lv \in DOMAIN t /\ (op # <<>> => ~Deep(ns[Len(op)], lv))
    BY <1>8 DEF Good, Near, InCall, InObject, InArray
  <2>2. op # <<>>
    BY <1>1, <1>2, <1>3, StackTop
  <2>3. ~Deep(Last(ns), lv)
    BY <1>2, <1>3, <2>1, <2>2
  <2>4. lv \in DOMAIN u
    BY <1>6, <2>1, <2>3
  <2>5. ms[Len(op)] = ns[Len(op)]
    <3>1. ns \in Seq(Seq(Step(U)))
      BY <1>1 DEF Stack
    <3>2. Last(ns) \in Seq(Step(U))
      BY <1>1, StackTop
    <3>3. Append(Last(ns), step) \in Seq(Step(U))
      BY <1>5, <3>2, ChildPath
    <3>4. \A k \in 1..Len(ns) : ms[k] = ns[k]
      BY <3>1, <3>3, AppendProperties DEF IsAppend
    <3> QED BY <1>2, <1>3, <3>4
  <2>6. Len(ms) # 1
    BY <1>2, <1>3, <1>6
  <2> QED BY <1>2, <1>3, <2>3, <2>4, <2>5, <2>6, Zenon DEF Near
<1> QED BY <1>1, <1>6, <1>7, <1>8, Zenon DEF Good

SameButName(f, g) == f = [g EXCEPT !.name = f.name]
NextIndex(f, g) == f = [g EXCEPT !.index = @ + 1]

\* The innermost call notes the name of the next member, or the index of the next element.
LEMMA GoodChanged ==
  ASSUME NEW p \in InCall, NEW t, NEW ns, NEW op, NEW lv, Good(p, t, ns, op, lv),
         NEW frame, frame.kind = Last(op).kind,
         SameButName(frame, Last(op)) \/ NextIndex(frame, Last(op)),
         NEW np, IsChange(op, frame, np)
  PROVE  Good(p, t, ns, np, lv) /\ Len(np) = Len(op) /\ Len(op) \in DOMAIN op
<1>1. PICK U : <<>> \in U /\ IsTree(t, U) /\ Stack(U, t, ns, op)
  BY Zenon DEF Good
<1>2. /\ Len(op) = Len(ns)
      /\ p \in InObject => Last(op).kind = "object"
      /\ p \in InArray => Last(op).kind = "array"
  BY Zenon DEF Levels, Good
<1>3. Len(ns) \in Nat /\ Len(ns) \in 1..Len(ns)
  BY <1>1, StackTop
<1>4. Last(op) \in Frames(U) /\ Len(op) \in DOMAIN op
  <2>1. op \in Seq(Frames(U))
    BY <1>1 DEF Stack
  <2>2. Len(op) \in 1..Len(op)
    BY <1>2, <1>3
  <2>3. op[Len(op)] \in Frames(U)
    BY <2>1, <2>2, ElementOfSeq
  <2>4. DOMAIN op = 1..Len(op)
    BY <2>1, LenProperties
  <2> QED BY <2>2, <2>3, <2>4 DEF Last
<1> DEFINE W == U \cup {frame.name}
<1>5. frame \in Frames(W)
  BY <1>4 DEF Frames, SameButName, NextIndex
<1>6. U \subseteq W /\ <<>> \in W
  BY <1>1
<1> HIDE DEF W
<1>7. IsTree(t, W) /\ Stack(W, t, ns, op)
  BY <1>1, <1>6, MoreNames
<1>8. Stack(W, t, ns, np) /\ Len(np) = Len(ns) /\ Last(np).kind = Last(op).kind
  BY <1>2, <1>5, <1>7, CallChanged
<1>9. Levels(p, ns, np)
  <2>1. p # "tail"
    BY DEF InCall, InObject, InArray
  <2> QED BY <1>2, <1>8, <2>1, Zenon DEF Levels
<1>10. ASSUME lv # NoPath PROVE Near(p, t, ns, np, lv)
  <2>1. Near(p, t, ns, op, lv)
    BY <1>10, Zenon DEF Good
  <2>2. Len(np) = Len(op) /\ op # <<>>
    BY <1>1, <1>2, <1>3, <1>8, StackTop
  <2> QED BY <2>1, <2>2, Zenon DEF Near
<1> QED BY <1>2, <1>4, <1>6, <1>7, <1>8, <1>9, <1>10, Zenon DEF Good

\* A document begins.
LEMMA GoodAtStart ==
  Good("enter", Leaf(nullValue), <<<<>>>>, <<>>, NoPath)
<1> DEFINE U == {<<>>}
           t == Leaf(nullValue)
           ns == <<<<>>>>
<1>1. <<>> \in U
  OBVIOUS
<1> HIDE DEF U
<1>2. IsTree(t, U) /\ DOMAIN t = {<<>>}
  BY LeafIsTree
<1> HIDE DEF t
<1>3. <<>> \in Seq(Step(U)) /\ <<>> \in Seq(Frames(U))
  BY EmptySeq
<1>4. ns \in Seq(Seq(Step(U))) /\ Len(ns) = 1 /\ ns[1] = <<>>
  BY <1>3
<1>5. Len(<<>>) = 0
  OBVIOUS
<1> HIDE DEF ns
<1>6. Stack(U, t, ns, <<>>)
  BY <1>2, <1>3, <1>4, <1>5 DEF Stack
<1>7. Levels("enter", ns, <<>>)
  BY <1>4, <1>5 DEF Levels, InCall, InObject, InArray
<1>8. Good("enter", t, ns, <<>>, NoPath)
  BY <1>1, <1>2, <1>6, <1>7, Zenon DEF Good
<1> QED BY <1>8 DEF t, ns

(* ---- the steps ------------------------------------------------------------------- *)
\* A step that reaches a good state where no document is read, or another good one.
LEMMA Reached ==
  ASSUME features' = features,
         \/ pc' \in {"idle", "done", "thrown"}
         \/ /\ Good(pc', root', nodes', open', lastValue')
            /\ lastValue' # NoPath => collectComments
  PROVE  IInv'
<1>1. collectComments' = collectComments
  BY DEF collectComments
<1> QED BY <1>1 DEF IInv, Parsing

\* A comment that is noted.
LEMMA CommentNoted ==
  ASSUME Good(pc, root, nodes, open, lastValue), NoteComment
  PROVE  /\ features' = features /\ lastValue' = lastValue
         /\ Good(pc, root', nodes', open', lastValue')
<1>1. nodes' = nodes /\ open' = open /\ lastValue' = lastValue /\ features' = features
  BY DEF NoteComment, Consume
<1>2. CASE collectComments /\ SameLine
  <2>1. root' = setComment(root, lastValue, IF look.k = "blank" THEN "blank" ELSE "sameLine")
    BY <1>2 DEF NoteComment
  <2>2. lastValue \in DOMAIN root
    BY <1>2 DEF SameLine, Good, Near
  <2>3. Good(pc, root', nodes, open, lastValue)
    BY <2>1, <2>2, GoodCommented
  <2> QED BY <1>1, <2>3
<1>3. CASE ~(collectComments /\ SameLine)
  <2>1. root' = root
    BY <1>3 DEF NoteComment
  <2> QED BY <1>1, <2>1
<1> QED BY <1>2, <1>3

\* The comments that wait go to the value that begins.
LEMMA CommentedIsGood ==
  ASSUME Good(pc, root, nodes, open, lastValue)
  PROVE  Good(pc, Commented, nodes, open, lastValue)
<1>1. CASE collectComments /\ commentsBefore
  <2>1. Commented = setComment(root, currentValue, "before")
    BY <1>1 DEF Commented
  <2>2. currentValue \in DOMAIN root
    BY CurrentExists DEF currentValue
  <2> QED BY <2>1, <2>2, GoodCommented
<1>2. CASE ~(collectComments /\ commentsBefore)
  BY <1>2 DEF Commented
<1> QED BY <1>1, <1>2

\* The same with a payload in the value.
LEMMA PayloadIsGood ==
  ASSUME pc = "value", Good(pc, root, nodes, open, lastValue), NEW v,
         NEW t, t = swapPayload(Commented, currentValue, v)
  PROVE  Good("value", t, nodes, open, lastValue) /\ HasPayload(t, Last(nodes), v)
<1>1. Good("value", Commented, nodes, open, lastValue)
  BY CommentedIsGood
<1>2. IsSwap(Commented, Last(nodes), v, t)
  BY DEF IsSwap, currentValue
<1> QED BY <1>1, <1>2, GoodSwapped, Zenon

LEMMA ParseKeeps ==
  ASSUME Parse PROVE IInv'
<1>1. /\ features' = features /\ pc' = "enter" /\ root' = Leaf(nullValue) /\ nodes' = <<<<>>>>
      /\ open' = <<>> /\ lastValue' = NoPath
  BY DEF Parse
<1>2. Good(pc', root', nodes', open', lastValue')
  BY <1>1, GoodAtStart
<1> QED BY <1>1, <1>2, Reached

LEMMA EnterKeeps ==
  ASSUME IInv, EnterValue PROVE IInv'
<1>1. /\ pc = "enter" /\ features' = features /\ root' = root /\ nodes' = nodes /\ open' = open
      /\ lastValue' = lastValue /\ pc' \in {"thrown", "value"}
  BY DEF EnterValue
<1>2. Good("enter", root, nodes, open, lastValue) /\ (lastValue # NoPath => collectComments)
  BY <1>1 DEF IInv, Parsing
<1>3. Good("value", root, nodes, open, lastValue)
  <2>1. "value" \notin InCall /\ "enter" \notin InCall
    BY DEF InCall, InObject, InArray
  <2>2. "value" \notin InObject /\ "value" \notin InArray
    BY DEF InObject, InArray
  <2> QED BY <1>2, <2>1, <2>2, GoOn
<1> QED BY <1>1, <1>2, <1>3, Reached

LEMMA OpenKeeps ==
  ASSUME IInv, OpenContainer PROVE IInv'
<1> DEFINE kind == IF look.k = "{" THEN "object" ELSE "array"
           v == IF look.k = "{" THEN objectValue ELSE arrayValue
<1>1. /\ pc = "value" /\ features' = features /\ nodes' = nodes /\ lastValue' = lastValue
      /\ root' = swapPayload(Commented, currentValue, v)
      /\ open' = Append(open, Frame(kind))
      /\ pc' = IF look.k = "{" THEN "name" ELSE "element"
  BY DEF OpenContainer, BeginValue, ReadToken, Consume
<1>2. Good(pc, root, nodes, open, lastValue) /\ (lastValue # NoPath => collectComments)
  BY <1>1 DEF IInv, Parsing
<1>3. v.type = kind /\ kind \in {"object", "array"} /\ pc' = IF kind = "object" THEN "name" ELSE "element"
  BY <1>1 DEF objectValue, arrayValue
<1> HIDE DEF v, kind
<1>4. Good("value", root', nodes, open, lastValue) /\ root'[Last(nodes)].v = v
  BY <1>1, <1>2, PayloadIsGood DEF HasPayload
<1>5. IsAppend(open, Frame(kind), open')
  BY <1>1 DEF IsAppend
<1>6. Good(pc', root', nodes, open', lastValue)
  BY <1>3, <1>4, <1>5, GoodOpened
<1> QED BY <1>1, <1>2, <1>6, Reached

\* A value that is no container ends at once.
LEMMA ValueToEnd ==
  ASSUME NEW t, Good("value", t, nodes, open, lastValue), NEW p \in {"end", "return"}
  PROVE  Good(p, t, nodes, open, lastValue)
<1>1. "value" \notin InCall /\ p \notin InCall /\ p \notin InObject /\ p \notin InArray
      /\ p # "tail" /\ p \notin {"enter", "value"}
  BY DEF InCall, InObject, InArray
<1> QED BY <1>1, GoOn

LEMMA ScalarKeeps ==
  ASSUME IInv, ReadScalar PROVE IInv'
<1> DEFINE v == Decoded(look)
<1>1. /\ pc = "value" /\ features' = features /\ nodes' = nodes /\ open' = open /\ lastValue' = lastValue
      /\ pc' = "end"
      /\ root' = IF v = NoValue THEN Commented ELSE swapPayload(Commented, currentValue, v)
  BY DEF ReadScalar, BeginValue, ReadToken, Consume
<1> HIDE DEF v
<1>2. Good(pc, root, nodes, open, lastValue) /\ (lastValue # NoPath => collectComments)
  BY <1>1 DEF IInv, Parsing
<1>3. Good("value", root', nodes, open, lastValue)
  <2>1. CASE v = NoValue
    BY <1>1, <1>2, <2>1, CommentedIsGood
  <2>2. CASE v # NoValue
    BY <1>1, <1>2, <2>2, PayloadIsGood
  <2> QED BY <2>1, <2>2
<1>4. Good("end", root', nodes, open, lastValue)
  BY <1>3, ValueToEnd
<1> QED BY <1>1, <1>2, <1>4, Reached

LEMMA DropKeeps ==
  ASSUME IInv, DropNull PROVE IInv'
<1>1. /\ pc = "value" /\ features' = features /\ nodes' = nodes /\ open' = open /\ lastValue' = lastValue
      /\ pc' = "end" /\ root' = swapPayload(Commented, currentValue, nullValue)
  BY DEF DropNull, BeginValue
<1>2. Good(pc, root, nodes, open, lastValue) /\ (lastValue # NoPath => collectComments)
  BY <1>1 DEF IInv, Parsing
<1>3. Good("value", root', nodes, open, lastValue)
  BY <1>1, <1>2, PayloadIsGood
<1>4. Good("end", root', nodes, open, lastValue)
  BY <1>3, ValueToEnd
<1> QED BY <1>1, <1>2, <1>4, Reached

LEMMA NotAValueKeeps ==
  ASSUME IInv, NotAValue PROVE IInv'
<1>1. /\ pc = "value" /\ features' = features /\ nodes' = nodes /\ open' = open /\ lastValue' = lastValue
      /\ pc' = "return" /\ root' = Commented
  BY DEF NotAValue, BeginValue, Consume
<1>2. Good(pc, root, nodes, open, lastValue) /\ (lastValue # NoPath => collectComments)
  BY <1>1 DEF IInv, Parsing
<1>3. Good("value", root', nodes, open, lastValue)
  BY <1>1, <1>2, CommentedIsGood
<1>4. Good("return", root', nodes, open, lastValue)
  BY <1>3, ValueToEnd
<1> QED BY <1>1, <1>2, <1>4, Reached

LEMMA EndKeeps ==
  ASSUME IInv, EndValue PROVE IInv'
<1>1. /\ pc = "end" /\ features' = features /\ root' = root /\ nodes' = nodes /\ open' = open
      /\ pc' = "return" /\ lastValue' = IF collectComments THEN currentValue ELSE lastValue
  BY DEF EndValue
<1>2. Good("end", root, nodes, open, lastValue) /\ (lastValue # NoPath => collectComments)
  BY <1>1 DEF IInv, Parsing
<1>3. Good("return", root, nodes, open, currentValue) /\ Good("return", root, nodes, open, NoPath)
  BY <1>2, GoodEnded DEF currentValue
<1>4. CASE collectComments
  <2>1. Good(pc', root', nodes', open', lastValue')
    BY <1>1, <1>3, <1>4
  <2> QED BY <1>1, <1>4, <2>1, Reached
<1>5. CASE ~collectComments
  <2>1. lastValue = NoPath /\ lastValue' = NoPath
    BY <1>1, <1>2, <1>5
  <2>2. Good(pc', root', nodes', open', lastValue')
    BY <1>1, <1>3, <2>1
  <2> QED BY <1>1, <2>1, <2>2, Reached
<1> QED BY <1>4, <1>5

LEMMA ReturnKeeps ==
  ASSUME IInv, ReturnValue PROVE IInv'
<1>1. pc = "return" /\ features' = features /\ root' = root /\ open' = open /\ lastValue' = lastValue
  BY DEF ReturnValue
<1>2. Good("return", root, nodes, open, lastValue) /\ (lastValue # NoPath => collectComments)
  BY <1>1 DEF IInv, Parsing
<1>3. CASE Len(nodes) = 1
  <2>1. pc' = "tail" /\ nodes' = nodes
    BY <1>3 DEF ReturnValue
  <2>2. Good("tail", root, nodes, open, lastValue)
    BY <1>2, <1>3, GoodFinished
  <2> QED BY <1>1, <1>2, <2>1, <2>2, Reached
<1>4. CASE Len(nodes) # 1
  <2>1. /\ nodes' = Front(nodes)
        /\ pc' = IF ~ok THEN "recover" ELSE IF Last(open).kind = "object" THEN "comma" ELSE "sep"
    BY <1>4 DEF ReturnValue
  <2>2. IsFront(nodes, nodes')
    BY <2>1 DEF IsFront
  <2>3. Last(open).kind \in {"object", "array"}
    <3>1. PICK U : Stack(U, root, nodes, open)
      BY <1>2, Zenon DEF Good
    <3>2. Len(open) = Len(nodes) - 1
      BY <1>2 DEF Good, Levels, InCall, InObject, InArray
    <3>3. Len(nodes) \in Nat /\ Len(open) \in Nat /\ Len(nodes) >= 1
      BY <3>1, StackTop DEF Stack
    <3>4. Len(open) \in 1..Len(open)
      BY <1>4, <3>2, <3>3
    <3>5. open \in Seq(Frames(U))
      BY <3>1 DEF Stack
    <3>6. open[Len(open)] \in Frames(U)
      BY <3>4, <3>5, ElementOfSeq
    <3> QED BY <3>6 DEF Last, Frames
  <2>4. /\ pc' \in {"recover", "comma", "sep"}
        /\ pc' = "comma" => Last(open).kind = "object"
        /\ pc' = "sep" => Last(open).kind = "array"
    BY <2>1, <2>3
  <2>5. Good(pc', root, nodes', open, lastValue)
    BY <1>2, <1>4, <2>2, <2>4, GoodReturned
  <2> QED BY <1>1, <1>2, <2>5, Reached
<1> QED BY <1>3, <1>4

\* The points of a call lie in it.
LEMMA Points ==
  /\ \A p \in {"name", "colon", "comma", "lateComma"} : p \in InCall /\ p \in InObject /\ p \notin InArray
  /\ \A p \in {"element", "sep"} : p \in InCall /\ p \in InArray /\ p \notin InObject
  /\ "recover" \in InCall /\ "recover" \notin InObject /\ "recover" \notin InArray
  /\ \A p \in InCall : p \notin {"idle", "done", "thrown", "end", "tail", "enter", "value"}
BY DEF InCall, InObject, InArray

\* What every step of a call begins with.
InCallGood(p) ==
  /\ pc = p /\ p \in InCall /\ Good(p, root, nodes, open, lastValue)
  /\ lastValue # NoPath => collectComments

LEMMA InCallIsGood ==
  ASSUME IInv, pc \in InCall PROVE InCallGood(pc)
BY Points, Zenon DEF IInv, Parsing, InCallGood

\* To another point of the same call, with the tree and the stack as they are.
LEMMA MovedKeeps ==
  ASSUME InCallGood(pc), features' = features, lastValue' = lastValue,
         Good(pc, root', nodes', open', lastValue'), pc' \in InCall,
         pc' \in InObject => pc \in InObject, pc' \in InArray => pc \in InArray
  PROVE  IInv'
<1>1. pc # "end" /\ pc' # "tail" /\ pc' \notin {"enter", "value"} /\ (pc \in InCall <=> pc' \in InCall)
  BY Points DEF InCallGood
<1>2. Good(pc', root', nodes', open', lastValue')
  BY <1>1, GoOn
<1>3. lastValue' # NoPath => collectComments
  BY DEF InCallGood
<1> QED BY <1>2, <1>3, Reached

LEMMA CloseKeeps ==
  ASSUME InCallGood(pc), ReadToken, NEW success, Close(success) PROVE IInv'
<1>1. /\ features' = features /\ root' = root /\ nodes' = nodes /\ lastValue' = lastValue
      /\ open' = Front(open) /\ pc' = "end"
  BY DEF ReadToken, Consume, Close
<1>2. IsFront(open, open')
  BY <1>1 DEF IsFront
<1>3. Good("end", root, nodes, open', lastValue) /\ (lastValue # NoPath => collectComments)
  BY <1>2, GoodClosed DEF InCallGood
<1> QED BY <1>1, <1>3, Reached

LEMMA ErrorKeeps ==
  ASSUME InCallGood(pc), ReadToken, Error PROVE IInv'
<1>1. /\ features' = features /\ root' = root /\ nodes' = nodes /\ lastValue' = lastValue
      /\ open' = open /\ pc' = "recover"
  BY DEF ReadToken, Consume, Error
<1>2. Good(pc, root', nodes', open', lastValue')
  BY <1>1 DEF InCallGood
<1> QED BY <1>1, <1>2, Points, MovedKeeps

LEMMA GoKeeps ==
  ASSUME InCallGood(pc), ReadToken, NEW next, Go(next),
         \/ next = "thrown"
         \/ next \in InCall /\ (next \in InObject => pc \in InObject) /\ next \notin InArray
  PROVE IInv'
<1>1. /\ features' = features /\ root' = root /\ nodes' = nodes /\ lastValue' = lastValue
      /\ open' = open /\ pc' = next
  BY DEF ReadToken, Consume, Go
<1>2. CASE next = "thrown"
  BY <1>1, <1>2, Reached
<1>3. CASE next # "thrown"
  <2>1. Good(pc, root', nodes', open', lastValue')
    BY <1>1 DEF InCallGood
  <2>2. pc' \in InCall /\ (pc' \in InObject => pc \in InObject) /\ pc' \notin InArray
    BY <1>1, <1>3
  <2> QED BY <1>1, <2>1, <2>2, MovedKeeps
<1> QED BY <1>2, <1>3

\* A comment inside a call.
LEMMA CommentInCall ==
  ASSUME InCallGood(pc), NoteComment, pc' \in InCall,
         pc' \in InObject => pc \in InObject, pc' \in InArray => pc \in InArray
  PROVE  IInv'
<1>1. /\ features' = features /\ lastValue' = lastValue
      /\ Good(pc, root', nodes', open', lastValue')
  BY CommentNoted DEF InCallGood
<1> QED BY <1>1, MovedKeeps

LEMMA SkipInCall ==
  ASSUME InCallGood(pc), SkipComment PROVE IInv'
<1>1. NoteComment /\ pc' = pc
  BY DEF SkipComment, ReadComment
<1> QED BY <1>1, CommentInCall DEF InCallGood

\* A value of the container is pushed, the innermost call having perhaps changed.
LEMMA PushKeeps ==
  ASSUME InCallGood(pc), features' = features, NEW step, PushChild(step),
         Good(pc, root, nodes, open', lastValue),
         \/ pc \in InObject /\ step = Key(Last(open').name)
         \/ pc \in InArray /\ \E i \in Nat : step = Idx(i)
  PROVE  IInv'
<1>1. /\ root' = resolveReference(root, Last(nodes), step).tree
      /\ nodes' = Append(nodes, Append(Last(nodes), step))
      /\ pc' = "enter" /\ lastValue' = lastValue
  BY DEF PushChild, currentValue
<1>2. IsAppend(nodes, Append(Last(nodes), step), nodes')
  BY <1>1 DEF IsAppend
<1>3. pc \in InCall /\ root' = resolveReference(root, Last(nodes), step).tree
  BY <1>1 DEF InCallGood
<1>4. Good("enter", root', nodes', open', lastValue)
  BY <1>2, <1>3, GoodPushed
<1>5. lastValue' # NoPath => collectComments
  BY <1>1 DEF InCallGood
<1> QED BY <1>1, <1>4, <1>5, Reached

LEMMA NameKeeps ==
  ASSUME IInv, ReadName PROVE IInv'
<1>1. pc = "name" /\ pc \in InCall /\ pc \in InObject
  BY Points DEF ReadName
<1>2. InCallGood(pc)
  BY <1>1, InCallIsGood
<1>3. CASE SkipComment
  BY <1>2, <1>3, SkipInCall
<1>4. ASSUME ReadToken, Close(TRUE) PROVE IInv'
  BY <1>2, <1>4, CloseKeeps
<1>5. ASSUME ReadToken, Error PROVE IInv'
  BY <1>2, <1>5, ErrorKeeps
<1>6. ASSUME ReadToken, Go("thrown") PROVE IInv'
  BY <1>2, <1>6, GoKeeps
<1>7. ASSUME ReadToken, NEW name, open' = Named(name), pc' = "colon",
             UNCHANGED <<root, nodes, ok, errors, stackDepth, commentsBefore, lastValue>>
      PROVE IInv'
  <2> DEFINE frame == [Last(open) EXCEPT !.name = name]
  <2>1. open' = [open EXCEPT ![Len(open)] = frame]
    BY <1>7 DEF Named, Last
  <2>2. IsChange(open, frame, open')
    BY <2>1 DEF IsChange
  <2>3. PICK U : Stack(U, root, nodes, open)
    BY <1>2, Zenon DEF Good, InCallGood
  <2>4. Last(open) \in Frames(U)
    <3>1. Len(open) = Len(nodes)
      BY <1>2, Zenon DEF Good, Levels, InCallGood
    <3>2. Len(open) \in 1..Len(open)
      BY <2>3, <3>1, StackTop
    <3>3. open \in Seq(Frames(U))
      BY <2>3, Zenon DEF Stack
    <3> QED BY <3>2, <3>3, ElementOfSeq DEF Last
  <2>5. frame.kind = Last(open).kind /\ frame.name = name
    BY <2>4 DEF Frames
  <2>6. SameButName(frame, Last(open))
    BY <2>5 DEF SameButName
  <2> HIDE DEF frame
  <2>7. Good(pc, root, nodes, open', lastValue)
    BY <1>2, <2>2, <2>5, <2>6, GoodChanged DEF InCallGood
  <2>8. features' = features /\ Good(pc, root', nodes', open', lastValue') /\ lastValue' = lastValue
    BY <1>7, <2>7 DEF ReadToken, Consume
  <2>9. pc' \in InCall /\ pc' \notin InArray
    BY <1>7, Points
  <2> QED BY <1>1, <1>2, <2>8, <2>9, MovedKeeps
<1> QED BY <1>3, <1>4, <1>5, <1>6, <1>7 DEF ReadName

LEMMA ColonKeeps ==
  ASSUME IInv, ReadColon PROVE IInv'
<1>1. pc = "colon" /\ pc \in InCall /\ pc \in InObject
  BY Points DEF ReadColon
<1>2. InCallGood(pc)
  BY <1>1, InCallIsGood
<1>3. ASSUME ReadToken, PushChild(Key(Last(open).name)), open' = open PROVE IInv'
  <2>1. features' = features
    BY <1>3 DEF ReadToken, Consume
  <2>2. Good(pc, root, nodes, open', lastValue)
    BY <1>2, <1>3 DEF InCallGood
  <2> QED BY <1>1, <1>2, <1>3, <2>1, <2>2, PushKeeps
<1>4. ASSUME ReadToken, Error PROVE IInv'
  BY <1>2, <1>4, ErrorKeeps
<1>5. ASSUME NoteComment, pc' = "recover" PROVE IInv'
  BY <1>2, <1>5, Points, CommentInCall
<1> QED BY <1>3, <1>4, <1>5 DEF ReadColon

LEMMA CommaKeeps ==
  ASSUME IInv, ReadComma PROVE IInv'
<1>1. pc \in {"comma", "lateComma"} /\ pc \in InCall /\ pc \in InObject
  BY Points DEF ReadComma
<1>2. InCallGood(pc)
  BY <1>1, InCallIsGood
<1>3. ASSUME ReadComment, pc' = "lateComma" PROVE IInv'
  <2>1. NoteComment
    BY <1>3 DEF ReadComment
  <2> QED BY <1>1, <1>2, <1>3, <2>1, Points, CommentInCall
<1>4. ASSUME ReadToken, Close(TRUE) PROVE IInv'
  BY <1>2, <1>4, CloseKeeps
<1>5. ASSUME ReadToken, Error PROVE IInv'
  BY <1>2, <1>5, ErrorKeeps
<1>6. ASSUME ReadToken, Go("name") PROVE IInv'
  BY <1>1, <1>2, <1>6, Points, GoKeeps
<1> QED BY <1>3, <1>4, <1>5, <1>6 DEF ReadComma

LEMMA ElementKeeps ==
  ASSUME IInv, ReadFirstElement PROVE IInv'
<1>1. pc = "element" /\ pc \in InCall /\ pc \in InArray
  BY Points DEF ReadFirstElement
<1>2. InCallGood(pc)
  BY <1>1, InCallIsGood
<1>3. ASSUME ReadToken, Close(TRUE) PROVE IInv'
  BY <1>2, <1>3, CloseKeeps
<1>4. ASSUME PushChild(Idx(0)), open' = open, features' = features PROVE IInv'
  <2>1. Good(pc, root, nodes, open', lastValue)
    BY <1>2, <1>4 DEF InCallGood
  <2>2. \E i \in Nat : Idx(0) = Idx(i)
    OBVIOUS
  <2> QED BY <1>1, <1>2, <1>4, <2>1, <2>2, PushKeeps
<1> QED BY <1>3, <1>4 DEF ReadFirstElement

LEMMA SeparatorKeeps ==
  ASSUME IInv, ReadSeparator PROVE IInv'
<1>1. pc = "sep" /\ pc \in InCall /\ pc \in InArray
  BY Points DEF ReadSeparator
<1>2. InCallGood(pc)
  BY <1>1, InCallIsGood
<1>3. CASE SkipComment
  BY <1>2, <1>3, SkipInCall
<1>4. ASSUME ReadToken, Close(TRUE) PROVE IInv'
  BY <1>2, <1>4, CloseKeeps
<1>5. ASSUME ReadToken, Error PROVE IInv'
  BY <1>2, <1>5, ErrorKeeps
<1>6. ASSUME ReadToken, PushChild(Idx(Last(open).index + 1)), open' = [open EXCEPT ![Len(open)].index = @ + 1]
      PROVE  IInv'
  <2> DEFINE frame == [Last(open) EXCEPT !.index = @ + 1]
             step == Idx(Last(open).index + 1)
  <2>1. open' = [open EXCEPT ![Len(open)] = frame]
    BY <1>6 DEF Last
  <2>2. IsChange(open, frame, open')
    BY <2>1 DEF IsChange
  <2>3. PICK U : Stack(U, root, nodes, open)
    BY <1>2, Zenon DEF Good, InCallGood
  <2>4. Last(open) \in Frames(U)
    <3>1. Len(open) = Len(nodes)
      BY <1>2, Zenon DEF Good, Levels, InCallGood
    <3>2. Len(open) \in 1..Len(open)
      BY <2>3, <3>1, StackTop
    <3>3. open \in Seq(Frames(U))
      BY <2>3, Zenon DEF Stack
    <3> QED BY <3>2, <3>3, ElementOfSeq DEF Last
  <2>5. frame.kind = Last(open).kind /\ NextIndex(frame, Last(open))
    BY <2>4 DEF Frames, NextIndex
  <2>6. \E i \in Nat : step = Idx(i)
    <3>1. Last(open).index + 1 \in Nat
      BY <2>4 DEF Frames
    <3> QED BY <3>1
  <2> HIDE DEF frame
  <2>7. Good(pc, root, nodes, open', lastValue)
    BY <1>2, <2>2, <2>5, GoodChanged DEF InCallGood
  <2>8. features' = features
    BY <1>6 DEF ReadToken, Consume
  <2>9. PushChild(step)
    BY <1>6
  <2> HIDE DEF step
  <2> QED BY <1>1, <1>2, <2>6, <2>7, <2>8, <2>9, PushKeeps
<1> QED BY <1>3, <1>4, <1>5, <1>6 DEF ReadSeparator

LEMMA RecoverKeeps ==
  ASSUME IInv, Recover PROVE IInv'
<1>1. pc = "recover" /\ pc \in InCall
  BY Points DEF Recover
<1>2. InCallGood(pc)
  BY <1>1, InCallIsGood
<1>3. CASE SkipComment
  BY <1>2, <1>3, SkipInCall
<1>4. ASSUME ReadToken, Close(FALSE) PROVE IInv'
  BY <1>2, <1>4, CloseKeeps
<1>5. ASSUME ReadToken, Go("recover") PROVE IInv'
  BY <1>2, <1>5, Points, GoKeeps
<1> QED BY <1>3, <1>4, <1>5 DEF Recover

\* parse and readValue skip comments too.
LEMMA CommentOutsideKeeps ==
  ASSUME IInv, TailComment \/ ValueComment PROVE IInv'
<1>1. pc \in {"tail", "value"} /\ NoteComment /\ pc' = pc
  BY DEF TailComment, ValueComment, SkipComment, ReadComment
<1>2. Good(pc, root, nodes, open, lastValue) /\ (lastValue # NoPath => collectComments)
  BY <1>1 DEF IInv, Parsing
<1>3. /\ features' = features /\ lastValue' = lastValue
      /\ Good(pc, root', nodes', open', lastValue')
  BY <1>1, <1>2, CommentNoted
<1> QED BY <1>1, <1>2, <1>3, Reached

\* No step of the Reader breaks the invariant.
LEMMA ReaderKeeps ==
  ASSUME IInv, ReaderStep PROVE IInv'
<1>1. ASSUME EndParse PROVE IInv'
  <2>1. features' = features /\ pc' = "done"
    BY <1>1 DEF EndParse, Consume
  <2> QED BY <2>1, Reached
<1> QED BY <1>1, CommentOutsideKeeps, EnterKeeps, OpenKeeps, ScalarKeeps, DropKeeps, NotAValueKeeps, EndKeeps,
           ReturnKeeps, NameKeeps, ColonKeeps, CommaKeeps, ElementKeeps, SeparatorKeeps, RecoverKeeps DEF ReaderStep

\* A call on a value that was read is made while nothing is read.
LEMMA EditKeeps ==
  ASSUME EditStep PROVE IInv'
<1>1. ASSUME NEW result, Edit(result) PROVE IInv'
  <2>1. pc' = "done" /\ features' = features
    BY <1>1 DEF Edit
  <2> QED BY <2>1, Reached
<1> QED BY <1>1 DEF EditStep, AssignIndex, AssignMember, AppendElement, Resize, Clear, RemoveMember, RemoveIndex

LEMMA InitIInv ==
  ASSUME Init PROVE IInv
BY DEF Init, IInv, Parsing

\* Nor does a new document, the next token or a stutter.
LEMMA NextIInv ==
  ASSUME IInv, [Next]_vars PROVE IInv'
<1>1. CASE ReaderStep
  BY <1>1, ReaderKeeps
<1>2. CASE EditStep
  BY <1>2, EditKeeps
<1>3. CASE ParseFile \/ ParseWritten
  BY <1>3, ParseKeeps DEF ParseFile, ParseWritten
<1>4. ASSUME UNCHANGED <<features, root, pc, nodes, open, lastValue>> PROVE IInv'
  BY <1>4 DEF IInv, Parsing, collectComments
<1>5. CASE Arrive
  BY <1>4, <1>5 DEF Arrive, reader
<1>6. CASE UNCHANGED vars
  BY <1>4, <1>6 DEF vars, reader
<1> QED BY <1>1, <1>2, <1>3, <1>5, <1>6 DEF Next

\* jsoncpp.cc, Reader: for every document, however it is broken, every set of features and
\* every number of documents read by one Reader, lastValue_ is a value of the document being
\* read: swapPayload never destroys the value whose address is kept, and parse forgets the
\* address of a value of the document before.
THEOREM LastValueStays == Spec => []LastValueExists
<1>1. Init => IInv
  BY InitIInv
<1>2. IInv /\ [Next]_vars => IInv'
  BY NextIInv
<1>3. IInv => LastValueExists
  BY DEF IInv, Parsing, LastValueExists, Good, Near
<1> QED BY <1>1, <1>2, <1>3, PTL DEF Spec

(* ---- isConvertibleTo and the accessors --------------------------------------------- *)
\* A double that is cast has at least one possible result.
LEMMA CastAnswers ==
  ASSUME NEW h
  PROVE  Cast(h, minInt, maxInt) # {} /\ Cast(h, 0, maxUInt) # {}
<1>1. maxInt \in Nat /\ maxUInt \in Nat
  BY RangeAssumption
<1> HIDE DEF maxInt, maxUInt
<1>2. 0 \in minInt..maxInt /\ 0 \in 0..maxUInt
  BY <1>1 DEF minInt
<1> QED BY <1>2, Zenon DEF Cast

\* The accessors that a double, an integer or a string can make throw.
LEMMA ConvertibleScalar ==
  ASSUME NEW t, NEW p, NEW v, v = t[p].v
  PROVE  /\ isConvertibleTo(t, p, "int") <=> asInt(v) # {}
         /\ isConvertibleTo(t, p, "uint") <=> asUInt(v) # {}
         /\ isConvertibleTo(t, p, "real") <=> asDouble(v) # {}
         /\ isConvertibleTo(t, p, "bool") <=> asBool(v) # {}
         /\ isConvertibleTo(t, p, "string") <=> asString(v) # {}
<1>1. isConvertibleTo(t, p, "int") <=> asInt(v) # {}
  <2>1. isConvertibleTo(t, p, "int")
        <=> isInt(v) \/ (v.type = "real" /\ InRange(v.n, minInt, maxInt)) \/ v.type \in {"bool", "null"}
    BY DEF isConvertibleTo
  <2>2. CASE v.type \in {"int", "uint"}
    BY <2>1, <2>2 DEF asInt
  <2>3. CASE v.type = "real"
    BY <2>1, <2>3, CastAnswers DEF asInt, isInt
  <2>4. CASE v.type \in {"null", "bool"}
    BY <2>1, <2>4 DEF asInt
  <2>5. CASE v.type \notin {"int", "uint", "real", "null", "bool"}
    BY <2>1, <2>5 DEF asInt, isInt
  <2> QED BY <2>2, <2>3, <2>4, <2>5
<1>2. isConvertibleTo(t, p, "uint") <=> asUInt(v) # {}
  <2>1. isConvertibleTo(t, p, "uint")
        <=> isUInt(v) \/ (v.type = "real" /\ InRange(v.n, 0, maxUInt)) \/ v.type \in {"bool", "null"}
    BY DEF isConvertibleTo
  <2>2. CASE v.type \in {"int", "uint"}
    BY <2>1, <2>2 DEF asUInt
  <2>3. CASE v.type = "real"
    BY <2>1, <2>3, CastAnswers DEF asUInt, isUInt
  <2>4. CASE v.type \in {"null", "bool"}
    BY <2>1, <2>4 DEF asUInt
  <2>5. CASE v.type \notin {"int", "uint", "real", "null", "bool"}
    BY <2>1, <2>5 DEF asUInt, isUInt
  <2> QED BY <2>2, <2>3, <2>4, <2>5
<1>3. isNumeric(v) <=> v.type \in {"int", "uint", "real"}
  BY Zenon DEF isNumeric, isInt64, isUInt64
<1>4. isConvertibleTo(t, p, "real") <=> asDouble(v) # {}
  <2>1. isConvertibleTo(t, p, "real") <=> isNumeric(v) \/ v.type \in {"bool", "null"}
    BY DEF isConvertibleTo
  <2> QED BY <1>3, <2>1 DEF asDouble
<1>5. isConvertibleTo(t, p, "bool") <=> asBool(v) # {}
  <2>1. isConvertibleTo(t, p, "bool") <=> isNumeric(v) \/ v.type \in {"bool", "null"}
    BY DEF isConvertibleTo
  <2> QED BY <1>3, <2>1 DEF asBool
<1>6. isConvertibleTo(t, p, "string") <=> asString(v) # {}
  <2>1. isConvertibleTo(t, p, "string") <=> isNumeric(v) \/ v.type \in {"bool", "null"} \/ v.type = "string"
    BY DEF isConvertibleTo
  <2> QED BY <1>3, <2>1 DEF asString
<1> QED BY <1>1, <1>2, <1>4, <1>5, <1>6

\* operator[] on an array and on an object.
LEMMA ConvertibleContainer ==
  ASSUME NEW t, NEW p
  PROVE  /\ isConvertibleTo(t, p, "array") <=> ~resolveReference(t, p, Idx(0)).thrown
         /\ isConvertibleTo(t, p, "object") <=> ~resolveReference(t, p, Key(<<>>)).thrown
<1>1. Box(Idx(0)).type = "array" /\ Box(Key(<<>>)).type = "object"
  BY DEF Box, Idx, Key, arrayValue, objectValue
<1>2. \A step : resolveReference(t, p, step).thrown = (t[p].v.type \notin {"null", Box(step).type})
  BY DEF resolveReference, Done, Thrown
<1>3. isConvertibleTo(t, p, "array") <=> t[p].v.type \in {"array", "null"}
  BY DEF isConvertibleTo
<1>4. isConvertibleTo(t, p, "object") <=> t[p].v.type \in {"object", "null"}
  BY DEF isConvertibleTo
<1> QED BY <1>1, <1>2, <1>3, <1>4

\* jsoncpp.cc, isConvertibleTo: for every value of every document, whatever the widths of the
\* integers and of the double, it says yes exactly where the accessor does not throw.
THEOREM ConvertibleAgrees == Spec => []ConvertibleMeansNoThrow
<1>1. ConvertibleMeansNoThrow
  <2>1. SUFFICES ASSUME NEW p \in DOMAIN root
                 PROVE  LET v == root[p].v IN
                        /\ isConvertibleTo(root, p, "int") <=> asInt(v) # {}
                        /\ isConvertibleTo(root, p, "uint") <=> asUInt(v) # {}
                        /\ isConvertibleTo(root, p, "real") <=> asDouble(v) # {}
                        /\ isConvertibleTo(root, p, "bool") <=> asBool(v) # {}
                        /\ isConvertibleTo(root, p, "string") <=> asString(v) # {}
                        /\ isConvertibleTo(root, p, "array") <=> ~resolveReference(root, p, Idx(0)).thrown
                        /\ isConvertibleTo(root, p, "object") <=> ~resolveReference(root, p, Key(<<>>)).thrown
    BY Zenon DEF ConvertibleMeansNoThrow
  <2> QED BY ConvertibleScalar, ConvertibleContainer
<1> QED BY <1>1, PTL

(* ---- the loop of removeIndex ------------------------------------------------------- *)

\* A set of naturals that is not empty has a least element.
LEMMA LeastElement ==
  ASSUME NEW T, T \subseteq Nat, T # {}
  PROVE  \E x \in T : \A y \in T : x <= y
<1> DEFINE less == OpToRel(<, Nat)
<1>1. less = {ss \in Nat \X Nat : ss[1] < ss[2]}
  BY Zenon DEF OpToRel
<1>2. IsWellFoundedOn(less, Nat)
  BY NatLessThanWellFounded, Zenon
<1> HIDE DEF less
<1>3. PICK x \in T : \A y \in T : ~ (<<y, x>> \in less)
  BY <1>2, WFMin, Zenon
<1>4. ASSUME NEW y \in T PROVE x <= y
  <2>1. x \in Nat /\ y \in Nat
    OBVIOUS
  <2>2. ~(<<y, x>> \in less)
    BY <1>3
  <2>3. ~(y < x)
    BY <1>1, <2>1, <2>2
  <2> QED BY <2>1, <2>3
<1> QED BY <1>4

\* Induction up to n: a set that has 0, and with each k below n also k + 1, has them all.
LEMMA UpTo ==
  ASSUME NEW n \in Nat, NEW S, 0 \in S, \A k \in Nat : k < n /\ k \in S => k + 1 \in S
  PROVE  \A k \in 0..n : k \in S
<1> DEFINE T == {k \in 0..n : k \notin S}
<1>1. CASE T = {}
  BY <1>1
<1>2. CASE T # {}
  <2>1. T \subseteq Nat
    OBVIOUS
  <2> HIDE DEF T
  <2>2. PICK x \in T : \A y \in T : x <= y
    BY <2>1, <1>2, LeastElement, Zenon
  <2>3. x \in 0..n /\ x \notin S
    BY DEF T
  <2>4. x - 1 \in Nat /\ x - 1 \in 0..n /\ x - 1 \notin T
    BY <2>2, <2>3
  <2>5. x - 1 \in S
    BY <2>4 DEF T
  <2>6. (x - 1) + 1 \in S
    BY <2>3, <2>4, <2>5
  <2> QED BY <2>3, <2>6
<1> QED BY <1>1, <1>2

\* The greatest of a set of numbers that has one.
LEMMA GreatestIs ==
  ASSUME NEW T, T \subseteq Int, NEW x \in T, \A y \in T : y <= x
  PROVE  Max(T) = x
<1>1. x \in T /\ \A y \in T : x >= y
  OBVIOUS
<1>2. \E z \in T : \A y \in T : z >= y
  BY <1>1
<1>3. Max(T) \in T /\ \A y \in T : Max(T) >= y
  BY <1>2 DEF Max
<1>4. Max(T) \in Int /\ x \in Int /\ x <= Max(T) /\ Max(T) <= x
  BY <1>3
<1> QED BY <1>4

\* A set of numbers up to m has one.
LEMMA GreatestBounds ==
  ASSUME NEW m \in Nat, NEW T \in SUBSET (0..m), T # {}
  PROVE  \E x \in T : \A y \in T : x >= y
<1> DEFINE R == {m - x : x \in T}
<1>1. R \subseteq Nat /\ R # {}
  <2>1. \A x \in T : m - x \in Nat
    OBVIOUS
  <2>2. PICK x \in T : TRUE
    OBVIOUS
  <2>3. m - x \in R
    OBVIOUS
  <2> QED BY <2>1, <2>3
<1>2. \A x \in T : m - x \in R
  OBVIOUS
<1>3. \A r \in R : \E x \in T : r = m - x
  OBVIOUS
<1> HIDE DEF R
<1>4. PICK r \in R : \A y \in R : r <= y
  BY <1>1, LeastElement, Zenon
<1>5. PICK x \in T : r = m - x
  BY <1>3
<1>6. \A y \in T : x >= y
  BY <1>2, <1>4, <1>5
<1> QED BY <1>6

\* Such a set has Max, which is in it.
LEMMA GreatestExists ==
  ASSUME NEW m \in Nat, NEW T \in SUBSET (0..m), T # {}
  PROVE  Max(T) \in T
<1>1. \E x \in T : \A y \in T : x >= y
  BY GreatestBounds
<1> QED BY <1>1, Zenon DEF Max

\* A round of the loop of removeIndex: the element behind moves to k.
MoveDown(t, u, k) ==
  Replace(u, Append(<<>>, Idx(k)),
          IF Append(<<>>, Idx(k + 1)) \in DOMAIN t THEN Subtree(t, Append(<<>>, Idx(k + 1)))
          ELSE Leaf(nullValue))

\* f says what the loop leaves of t when it has moved the elements at i + k - 1, k in s.
Loop(t, i, m, f) ==
  f = [s \in SUBSET (1..m) |-> IF s = {} THEN t ELSE MoveDown(t, f[s \ {Max(s)}], i + Max(s) - 1)]

\* Whatever the number of rounds.
LEMMA LoopExists ==
  ASSUME NEW t, NEW i \in Nat, NEW m \in Nat
  PROVE  \E f : Loop(t, i, m, f)
<1> DEFINE S == {n \in Nat : \E f : Loop(t, i, n, f)}
<1>1. 0 \in S
  <2> DEFINE f == [s \in SUBSET (1..0) |-> t]
  <2>1. \A s \in SUBSET (1..0) : s = {}
    OBVIOUS
  <2>2. Loop(t, i, 0, f)
    BY <2>1, Zenon DEF Loop
  <2> HIDE DEF f
  <2> QED BY <2>2
<1>2. ASSUME NEW n \in Nat, n \in S PROVE n + 1 \in S
  <2>1. PICK f : Loop(t, i, n, f)
    BY <1>2
  <2> DEFINE big == SUBSET (1..n + 1)
             g == [s \in big |-> IF n + 1 \in s THEN MoveDown(t, f[s \ {n + 1}], i + (n + 1) - 1) ELSE f[s]]
  <2>2. \A s \in big : s \in SUBSET (1..n) <=> n + 1 \notin s
    OBVIOUS
  <2>3. \A s \in SUBSET (1..n) : s \in big /\ n + 1 \notin s
    OBVIOUS
  <2>4. \A s \in SUBSET (1..n) : f[s] = IF s = {} THEN t ELSE MoveDown(t, f[s \ {Max(s)}], i + Max(s) - 1)
    BY <2>1, Zenon DEF Loop
  <2>5. \A s \in SUBSET (1..n) : g[s] = f[s]
    BY <2>3, Zenon
  <2>6. ASSUME NEW s \in big
        PROVE  g[s] = IF s = {} THEN t ELSE MoveDown(t, g[s \ {Max(s)}], i + Max(s) - 1)
    <3>1. CASE n + 1 \in s
      <4>1. s \subseteq Int /\ \A y \in s : y <= n + 1
        OBVIOUS
      <4>2. Max(s) = n + 1
        BY <3>1, <4>1, GreatestIs
      <4>3. s \ {n + 1} \in SUBSET (1..n)
        BY <2>6
      <4>4. g[s \ {n + 1}] = f[s \ {n + 1}]
        BY <2>5, <4>3, Zenon
      <4>5. g[s] = MoveDown(t, f[s \ {n + 1}], i + (n + 1) - 1)
        BY <3>1, Zenon
      <4>6. s # {}
        BY <3>1
      <4> HIDE DEF g
      <4> QED BY <4>2, <4>4, <4>5, <4>6, Zenon
    <3>2. CASE n + 1 \notin s
      <4>1. s \in SUBSET (1..n)
        BY <2>2, <3>2
      <4>2. s \ {Max(s)} \in SUBSET (1..n)
        BY <4>1
      <4> HIDE DEF g
      <4> QED BY <2>4, <2>5, <4>1, <4>2, Zenon
    <3> QED BY <3>1, <3>2
  <2>7. g = [s \in big |-> g[s]]
    OBVIOUS
  <2> HIDE DEF g
  <2>8. Loop(t, i, n + 1, g)
    BY <2>6, <2>7, Zenon DEF Loop
  <2> QED BY <2>8
<1> HIDE DEF S
<1>3. \A n \in 0..m : n \in S
  BY <1>1, <1>2, UpTo
<1> QED BY <1>3 DEF S

\* What the loop of removeIndex leaves of an array t, and what removeIndex leaves.
Moved(t, i, m) == (CHOOSE f : Loop(t, i, m, f))[1..m]

\* removeIndex: the rounds of the loop, and the last place goes.
LEMMA RemoveIndexIs ==
  ASSUME NEW t, t[<<>>].v.type = "array", NEW i \in Nat, Append(<<>>, Idx(i)) \in DOMAIN t,
         NEW old, old = size(t, <<>>), NEW m \in Nat, m = old - 1 - i, 
         NEW w, w = Moved(t, i, m), NEW last, last = Append(<<>>, Idx(old - 1))
  PROVE  removeIndex(t, <<>>, i) = Done(Without(w, {last} \cup Below(w, last)))
<1> DEFINE seq == [k \in 1..old - 1 - i |-> i + k - 1]
           At1(k) == Append(<<>>, Idx(k))
           Mv(u, k) == Replace(u, At1(k),
                               IF At1(k + 1) \in DOMAIN t THEN Subtree(t, At1(k + 1)) ELSE Leaf(nullValue))
           moved == FoldLeft(Mv, t, seq)
           g == CHOOSE f : f = [s \in SUBSET (DOMAIN seq) |->
                                  IF s = {} THEN t ELSE MoveDown(t, f[s \ {Max(s)}], seq[Max(s)])]
<1>1. moved = g[DOMAIN seq]
  BY DEF FoldLeft, MapThenFoldSet, MoveDown
<1>2. removeIndex(t, <<>>, i) = Done(Without(moved, {last} \cup Below(moved, last)))
  BY Zenon DEF removeIndex
<1>3. DOMAIN seq = 1..m /\ \A k \in 1..m : seq[k] = i + k - 1
  OBVIOUS
<1>4. moved = w
  <2> HIDE DEF seq
  <2>1. ASSUME NEW f
        PROVE  f = [s \in SUBSET (DOMAIN seq) |->
                      IF s = {} THEN t ELSE MoveDown(t, f[s \ {Max(s)}], seq[Max(s)])]
               <=> Loop(t, i, m, f)
    <3>1. \A s \in SUBSET (1..m) : s # {} => Max(s) \in 1..m
      <4>1. SUFFICES ASSUME NEW s \in SUBSET (1..m), s # {} PROVE Max(s) \in 1..m
        OBVIOUS
      <4>2. s \in SUBSET (0..m)
        BY <4>1
      <4>3. Max(s) \in s
        BY <4>1, <4>2, GreatestExists
      <4> QED BY <4>1, <4>3
    <3>2. \A s \in SUBSET (1..m) :
            (IF s = {} THEN t ELSE MoveDown(t, f[s \ {Max(s)}], seq[Max(s)]))
            = (IF s = {} THEN t ELSE MoveDown(t, f[s \ {Max(s)}], i + Max(s) - 1))
      BY <1>3, <3>1, Zenon
    <3> QED BY <1>3, <3>2, Zenon DEF Loop
  <2>2. g = CHOOSE f : Loop(t, i, m, f)
    BY <2>1
  <2> HIDE DEF g, moved
  <2> QED BY <1>1, <1>3, <2>2, Zenon DEF Moved
<1> HIDE DEF moved
<1> QED BY <1>2, <1>4

(* ---- a tree, seen from its root ----------------------------------------------- *)
\* The path behind the first step.
Rest(q) == SubSeq(q, 2, Len(q))

\* A path of one step.
LEMMA OneStep ==
  ASSUME NEW S, NEW s \in S
  PROVE  /\ <<s>> \in Seq(S) /\ Len(<<s>>) = 1 /\ <<s>>[1] = s /\ <<s>> # <<>>
         /\ Append(<<>>, s) = <<s>>
         /\ \A q \in Seq(S) : /\ Len(q) \in Nat
                              /\ IsPrefix(<<>>, q)
                              /\ q = <<>> <=> Len(q) = 0
                              /\ IsPrefix(<<s>>, q) <=> q # <<>> /\ q[1] = s
                              /\ q # <<>> /\ q[1] = s /\ ~(Len(q) > 1) => q = <<s>>
<1>1. <<s>> \in Seq(S) /\ Len(<<s>>) = 1 /\ <<s>>[1] = s /\ <<s>> # <<>> /\ Append(<<>>, s) = <<s>>
  OBVIOUS
<1>2. <<>> \in Seq(S) /\ Len(<<>>) = 0
  BY EmptySeq
<1>3. ASSUME NEW q \in Seq(S)
      PROVE  /\ Len(q) \in Nat
             /\ IsPrefix(<<>>, q)
             /\ q = <<>> <=> Len(q) = 0
             /\ IsPrefix(<<s>>, q) <=> q # <<>> /\ q[1] = s
             /\ q # <<>> /\ q[1] = s /\ ~(Len(q) > 1) => q = <<s>>
  <2>1. Len(q) \in Nat /\ (q # <<>> => Len(q) \in Nat \ {0})
    BY <1>3, EmptySeq, LenProperties
  <2>2. q = <<>> <=> Len(q) = 0
    BY <1>2, <2>1
  <2>3. IsPrefix(<<>>, q)
    <3> DEFINE p == <<>>
    <3>1. p \in Seq(S)
      BY <1>2
    <3>3. Len(p) = 0
      BY <1>2
    <3> HIDE DEF p
    <3>2. IsPrefix(p, q) <=> Len(p) <= Len(q) /\ \A i \in 1..Len(p) : p[i] = q[i]
      BY <1>3, <3>1, PrefixElements
    <3> QED BY <2>1, <3>2, <3>3 DEF p
  <2>4. IsPrefix(<<s>>, q) <=> Len(<<s>>) <= Len(q) /\ \A i \in 1..Len(<<s>>) : <<s>>[i] = q[i]
    <3> DEFINE p == <<s>>
    <3>1. p \in Seq(S)
      BY <1>1
    <3> HIDE DEF p
    <3>2. IsPrefix(p, q) <=> Len(p) <= Len(q) /\ \A i \in 1..Len(p) : p[i] = q[i]
      BY <1>3, <3>1, PrefixElements
    <3> QED BY <3>2 DEF p
  <2>5. IsPrefix(<<s>>, q) <=> q # <<>> /\ q[1] = s
    BY <1>1, <2>1, <2>2, <2>4
  <2>6. ASSUME q # <<>>, q[1] = s, ~(Len(q) > 1) PROVE q = <<s>>
    <3>1. Len(q) = 1
      <4> DEFINE n == Len(q)
      <4>1. n \in Nat \ {0} /\ ~(n > 1)
        BY <2>1, <2>6, Zenon
      <4> HIDE DEF n
      <4>2. n = 1
        BY <4>1
      <4> QED BY <4>2 DEF n
    <3>2. \A i \in 1..Len(q) : q[i] = <<s>>[i]
      BY <1>1, <2>6, <3>1
    <3> QED BY <1>1, <3>1, <1>3, <3>2, SeqEqual
  <2> QED BY <2>1, <2>2, <2>3, <2>5, <2>6
<1> QED BY <1>1, <1>3

\* A path is its first step and the rest.
LEMMA FirstStep ==
  ASSUME NEW S, NEW q \in Seq(S), q # <<>>
  PROVE  q[1] \in S /\ Rest(q) \in Seq(S) /\ q = <<q[1]>> \o Rest(q)
<1>1. Len(q) \in Nat \ {0}
  BY EmptySeq
<1>2. q[1] \in S
  BY <1>1, ElementOfSeq
<1>3. \A i \in 2..Len(q) : q[i] \in S
  BY <1>1, ElementOfSeq
<1>4. Rest(q) \in Seq(S)
  BY <1>1, <1>3, SubSeqProperties DEF Rest
<1>5. SubSeq(q, 1, Len(q)) = q
  BY SubSeqFull
<1>6. 1 \in 1..Len(q) /\ Len(q) \in 1..Len(q)
  BY <1>1
<1>7. SubSeq(q, 1, Len(q)) = <<q[1]>> \o SubSeq(q, 1 + 1, Len(q))
  BY <1>6, SubSeqRecursiveFirst
<1> QED BY <1>2, <1>4, <1>5, <1>7 DEF Rest

\* A path behind a first step.
LEMMA StepFirst ==
  ASSUME NEW S, NEW s \in S, NEW r \in Seq(S)
  PROVE  /\ <<s>> \o r \in Seq(S) /\ <<s>> \o r # <<>> /\ (<<s>> \o r)[1] = s /\ Rest(<<s>> \o r) = r
         /\ Len(<<s>> \o r) > 1 <=> r # <<>>
<1> DEFINE q == <<s>> \o r
<1>1. <<s>> \in Seq(S) /\ Len(<<s>>) = 1 /\ <<s>>[1] = s
  OBVIOUS
<1>2. Len(r) \in Nat /\ (r # <<>> <=> Len(r) # 0)
  BY OneStep
<1>3. q \in Seq(S) /\ Len(q) = Len(<<s>>) + Len(r) /\ \A i \in 1..Len(<<s>>) + Len(r) :
        q[i] = IF i <= Len(<<s>>) THEN <<s>>[i] ELSE r[i - Len(<<s>>)]
  BY <1>1, ConcatProperties
<1> HIDE DEF q
<1>4. q # <<>> /\ q[1] = s
  <2>1. 1 \in 1..Len(<<s>>) + Len(r)
    BY <1>1, <1>2
  <2>2. Len(q) # 0
    BY <1>1, <1>2, <1>3
  <2> QED BY <1>1, <1>3, <2>1, <2>2, OneStep
<1>5. Rest(q) = r
  <2>1. \A i \in 2..Len(q) : q[i] \in S
    BY <1>1, <1>2, <1>3, ElementOfSeq
  <2>2. /\ Rest(q) \in Seq(S)
        /\ Len(Rest(q)) = IF 2 <= Len(q) THEN Len(q) - 2 + 1 ELSE 0
        /\ \A i \in 1..Len(q) - 2 + 1 : Rest(q)[i] = q[2 + i - 1]
    BY <1>1, <1>2, <1>3, <2>1, SubSeqProperties DEF Rest
  <2>3. Len(Rest(q)) = Len(r)
    BY <1>1, <1>2, <1>3, <2>2
  <2>4. \A i \in 1..Len(r) : Rest(q)[i] = r[i]
    BY <1>1, <1>2, <1>3, <2>2
  <2> QED BY <2>2, <2>3, <2>4, SeqEqual
<1> QED BY <1>1, <1>2, <1>3, <1>4, <1>5 DEF q

\* Where t has something else than s and what is below it, and where u would be at s.
Elsewhere(t, s) == {q \in DOMAIN t : q = <<>> \/ q[1] # s}
Prefixed(s, u) == {<<s>> \o r : r \in DOMAIN u}

\* w is t with u in the place of what is at s and below.
IsReplaced(t, s, u, w) ==
  /\ DOMAIN w = Elsewhere(t, s) \cup Prefixed(s, u)
  /\ \A q \in Elsewhere(t, s) : w[q] = t[q]
  /\ \A r \in DOMAIN u : w[<<s>> \o r] = u[r]

\* Replace puts u in the place of what is at s and below.
LEMMA ReplaceIs ==
  ASSUME NEW S, NEW t, DOMAIN t \subseteq Seq(S), NEW s \in S,
         NEW u, DOMAIN u \subseteq Seq(S), <<>> \in DOMAIN u,
         NEW w, w = Replace(t, <<s>>, u)
  PROVE  IsReplaced(t, s, u, w)
<1> DEFINE kept == {q \in DOMAIN t : q = <<>> \/ q[1] # s}
           new == {<<s>> \o r : r \in DOMAIN u}
           dom == (DOMAIN t \ Below(t, <<s>>)) \cup new
<1>1. /\ Len(<<s>>) = 1 /\ <<s>> \in Seq(S)
      /\ \A q \in Seq(S) : /\ Len(q) \in Nat
                           /\ IsPrefix(<<s>>, q) <=> q # <<>> /\ q[1] = s
                           /\ q # <<>> /\ q[1] = s /\ ~(Len(q) > 1) => q = <<s>>
  BY OneStep
<1>2. \A q : q \in Below(t, <<s>>) <=> q \in DOMAIN t /\ Len(q) > 1 /\ IsPrefix(<<s>>, q)
  BY <1>1, Zenon DEF Below
<1>3. w = [q \in dom |-> IF IsPrefix(<<s>>, q) THEN u[SubSeq(q, Len(<<s>>) + 1, Len(q))] ELSE t[q]]
  BY Zenon DEF Replace
<1>4. \A q \in Seq(S) : SubSeq(q, Len(<<s>>) + 1, Len(q)) = Rest(q)
  BY <1>1 DEF Rest
<1>5. <<s>> \in new
  <2>1. <<s>> \o <<>> = <<s>>
    BY <1>1, ConcatEmptySeq
  <2> QED BY <2>1
<1>6. \A r \in DOMAIN u : /\ <<s>> \o r \in new /\ <<s>> \o r \in Seq(S)
                          /\ IsPrefix(<<s>>, <<s>> \o r) /\ Rest(<<s>> \o r) = r
  <2>1. SUFFICES ASSUME NEW r \in DOMAIN u
                 PROVE  /\ <<s>> \o r \in new /\ <<s>> \o r \in Seq(S)
                        /\ IsPrefix(<<s>>, <<s>> \o r) /\ Rest(<<s>> \o r) = r
    OBVIOUS
  <2> DEFINE q == <<s>> \o r
  <2>2. q \in new
    OBVIOUS
  <2>3. r \in Seq(S)
    OBVIOUS
  <2>4. q \in Seq(S) /\ q # <<>> /\ q[1] = s /\ Rest(q) = r
    BY <2>3, StepFirst
  <2> HIDE DEF q, new
  <2>5. IsPrefix(<<s>>, q)
    BY <1>1, <2>4
  <2> QED BY <2>2, <2>4, <2>5 DEF q
<1>7. \A q \in kept : q \notin Below(t, <<s>>) /\ ~IsPrefix(<<s>>, q)
  <2>1. SUFFICES ASSUME NEW q \in kept PROVE ~IsPrefix(<<s>>, q)
    BY <1>2
  <2>2. q \in Seq(S)
    OBVIOUS
  <2> QED BY <1>1, <2>2
<1>8. dom = kept \cup new
  <2>1. ASSUME NEW q \in DOMAIN t, q \notin Below(t, <<s>>), q \notin kept PROVE q \in new
    <3>1. q \in Seq(S) /\ q # <<>> /\ q[1] = s
      BY <2>1
    <3>2. ~(Len(q) > 1)
      BY <1>1, <1>2, <2>1, <3>1, Zenon
    <3>3. q = <<s>>
      BY <1>1, <3>1, <3>2, Zenon
    <3> QED BY <1>5, <3>3
  <2>2. kept \subseteq DOMAIN t
    OBVIOUS
  <2> HIDE DEF kept, new
  <2> QED BY <1>7, <2>1, <2>2
<1>9. \A q \in kept : w[q] = t[q]
  <2> HIDE DEF kept, new, dom
  <2> QED BY <1>3, <1>7, <1>8, Zenon
<1>10. \A r \in DOMAIN u : w[<<s>> \o r] = u[r]
  <2> HIDE DEF kept, new, dom
  <2>1. SUFFICES ASSUME NEW r \in DOMAIN u PROVE w[<<s>> \o r] = u[r]
    OBVIOUS
  <2>2. <<s>> \o r \in dom
    BY <1>6, <1>8
  <2> QED BY <1>3, <1>4, <1>6, <2>2, Zenon
<1>11. DOMAIN w = dom
  <2> HIDE DEF dom
  <2> QED BY <1>3, Zenon
<1> QED BY <1>8, <1>9, <1>10, <1>11, Zenon DEF IsReplaced, Elsewhere, Prefixed

\* u is what is at s and below.
Under(t, s, S) == {r \in Seq(S) : <<s>> \o r \in DOMAIN t}
IsSubtree(t, s, S, u) == u = [r \in Under(t, s, S) |-> t[<<s>> \o r]]

\* Subtree gives what is at s and below.
LEMMA SubtreeIs ==
  ASSUME NEW S, NEW t, DOMAIN t \subseteq Seq(S), NEW s \in S, <<s>> \in DOMAIN t
  PROVE  IsSubtree(t, s, S, Subtree(t, <<s>>))
<1> DEFINE under == {r \in Seq(S) : <<s>> \o r \in DOMAIN t}
           dom == {SubSeq(r, Len(<<s>>) + 1, Len(r)) : r \in Below(t, <<s>>) \cup {<<s>>}}
<1>1. /\ Len(<<s>>) = 1 /\ <<s>> \in Seq(S) /\ <<s>> # <<>> /\ <<s>>[1] = s
      /\ \A q \in Seq(S) : /\ Len(q) \in Nat
                           /\ IsPrefix(<<s>>, q) <=> q # <<>> /\ q[1] = s
                           /\ q # <<>> /\ q[1] = s /\ ~(Len(q) > 1) => q = <<s>>
  BY OneStep
<1>2. \A q : q \in Below(t, <<s>>) <=> q \in DOMAIN t /\ Len(q) > 1 /\ IsPrefix(<<s>>, q)
  BY <1>1, Zenon DEF Below
<1>3. \A q \in Below(t, <<s>>) \cup {<<s>>} : q \in DOMAIN t /\ q \in Seq(S) /\ q # <<>> /\ q[1] = s
  BY <1>1, <1>2
<1>4. ASSUME NEW q \in Below(t, <<s>>) \cup {<<s>>}
      PROVE  SubSeq(q, Len(<<s>>) + 1, Len(q)) \in under
  <2>1. Rest(q) \in Seq(S) /\ q = <<s>> \o Rest(q)
    BY <1>3, FirstStep
  <2>2. SubSeq(q, Len(<<s>>) + 1, Len(q)) = Rest(q)
    BY <1>1 DEF Rest
  <2> QED BY <1>3, <2>1, <2>2
<1>5. ASSUME NEW r \in under
      PROVE  \E q \in Below(t, <<s>>) \cup {<<s>>} : r = SubSeq(q, Len(<<s>>) + 1, Len(q))
  <2> DEFINE q == <<s>> \o r
  <2>1. q \in Seq(S) /\ q # <<>> /\ q[1] = s /\ Rest(q) = r /\ q \in DOMAIN t
    BY StepFirst
  <2> HIDE DEF q
  <2>2. q \in Below(t, <<s>>) \cup {<<s>>}
    BY <1>1, <1>2, <2>1
  <2>3. SubSeq(q, Len(<<s>>) + 1, Len(q)) = r
    BY <1>1, <2>1 DEF Rest
  <2> QED BY <2>2, <2>3
<1>6. dom = under
  BY <1>4, <1>5, Zenon
<1> HIDE DEF dom, under
<1>7. Subtree(t, <<s>>) = [r \in dom |-> t[<<s>> \o r]]
  BY Zenon DEF Subtree, dom
<1> QED BY <1>6, <1>7, Zenon DEF under, Under, IsSubtree

\* The first steps of a tree's paths: the names or the indices of the root's children.
Kids(t) == {q[1] : q \in DOMAIN t \ {<<>>}}

\* Only containers have children, an array has them at indices.
Child(type, s) == type \in {"array", "object"} /\ (type = "array" => \E i \in Nat : s = Idx(i))

\* A tree that is one as far as its root goes: the root is there, and every child, found at
\* what the root's type calls for.
RootedIn(t, S) ==
  /\ DOMAIN t \subseteq Seq(S) /\ <<>> \in DOMAIN t
  /\ \A i \in Nat : Idx(i) \in S
  /\ \A s \in Kids(t) : <<s>> \in DOMAIN t /\ Child(t[<<>>].v.type, s)
  /\ t[<<>>].v.type = "array" => \E b \in Nat : \A s \in Kids(t) : s.index < b

\* What can be put into a tree.
IsBranch(u, S) == u = [r \in DOMAIN u |-> u[r]] /\ DOMAIN u \subseteq Seq(S) /\ <<>> \in DOMAIN u

\* The value at s, null if there is none.
Branch(t, s) == IF s \in Kids(t) THEN Subtree(t, <<s>>) ELSE Leaf(nullValue)

\* The children are at paths of one step, and are those the calls of Value find.
LEMMA KidsAre ==
  ASSUME NEW S, NEW t, RootedIn(t, S)
  PROVE  /\ Kids(t) \subseteq S /\ Steps(t, <<>>) = Kids(t)
         /\ \A s \in S : s \in Kids(t) <=> <<s>> \in DOMAIN t
         /\ \A s \in S : At(t, <<>>, s) = Branch(t, s)
<1>1. ASSUME NEW q \in DOMAIN t, q # <<>>
      PROVE  q[1] \in S /\ q[1] \in Kids(t) /\ IsPrefix(<<>>, q) /\ Len(q) > Len(<<>>)
  <2>1. q \in Seq(S)
    BY <1>1 DEF RootedIn
  <2>2. q[1] \in S
    BY <1>1, <2>1, FirstStep
  <2>3. q[1] \in Kids(t)
    BY <1>1 DEF Kids
  <2>4. Len(q) \in Nat /\ Len(q) # 0 /\ IsPrefix(<<>>, q)
    BY <1>1, <2>1, <2>2, OneStep
  <2>5. Len(<<>>) = 0
    BY EmptySeq
  <2> QED BY <2>2, <2>3, <2>4, <2>5
<1>2. Kids(t) \subseteq S
  BY <1>1 DEF Kids
<1>3. ASSUME NEW s \in S PROVE /\ <<s>> \in Seq(S) /\ <<s>> # <<>> /\ <<s>>[1] = s
                               /\ Append(<<>>, s) = <<s>>
  BY OneStep, <1>3
<1>4. ASSUME NEW s \in S, <<s>> \in DOMAIN t PROVE s \in Kids(t)
  <2> DEFINE q == <<s>>
  <2>1. q \in DOMAIN t /\ q # <<>> /\ q[1] = s
    BY <1>3, <1>4
  <2> HIDE DEF q
  <2> QED BY <2>1 DEF Kids
<1>5. \A s \in Kids(t) : <<s>> \in DOMAIN t
  BY DEF RootedIn
<1>6. Steps(t, <<>>) = Kids(t)
  <2>1. Len(<<>>) + 1 = 1
    BY EmptySeq
  <2>2. Steps(t, <<>>) = {q[Len(<<>>) + 1] : q \in Below(t, <<>>)}
    BY DEF Steps
  <2>3. \A q : q \in Below(t, <<>>) <=> q \in DOMAIN t /\ Len(q) > Len(<<>>) /\ IsPrefix(<<>>, q)
    BY Zenon DEF Below
  <2>4. \A q : q \in Below(t, <<>>) => q # <<>>
    BY <2>3, EmptySeq
  <2>5. \A q : q \in Below(t, <<>>) <=> q \in DOMAIN t \ {<<>>}
    BY <1>1, <2>3, <2>4
  <2> QED BY <2>1, <2>2, <2>5 DEF Kids
<1>7. \A s \in S : At(t, <<>>, s) = Branch(t, s)
  BY <1>3, <1>4, <1>5 DEF At, Branch
<1> QED BY <1>2, <1>4, <1>5, <1>6, <1>7

\* The index of a child of an array is a number.
LEMMA ChildIndex ==
  ASSUME NEW s, Child("array", s)
  PROVE  s.index \in Nat /\ s = Idx(s.index)
<1>1. ASSUME NEW i \in Nat, s = Idx(i) PROVE s.index = i
  BY <1>1 DEF Idx
<1> QED BY <1>1 DEF Child

\* w is t with u at s.
IsPut(t, s, u, w, S) ==
  /\ RootedIn(w, S) /\ w[<<>>] = t[<<>>] /\ Kids(w) = Kids(t) \cup {s}
  /\ \A x \in S : Branch(w, x) = IF x = s THEN u ELSE Branch(t, x)

\* Replace does that at the path of one step.
LEMMA PutKeeps ==
  ASSUME NEW S, NEW t, RootedIn(t, S), NEW s \in S, Child(t[<<>>].v.type, s), NEW u, IsBranch(u, S),
         NEW w, w = Replace(t, <<s>>, u)
  PROVE  IsPut(t, s, u, w, S)
<1> DEFINE kept == Elsewhere(t, s)
           new == Prefixed(s, u)
<1>1. DOMAIN t \subseteq Seq(S) /\ <<>> \in DOMAIN t /\ DOMAIN u \subseteq Seq(S) /\ <<>> \in DOMAIN u
  BY DEF RootedIn, IsBranch
<1>2. DOMAIN w = kept \cup new /\ (\A q \in kept : w[q] = t[q]) /\ \A r \in DOMAIN u : w[<<s>> \o r] = u[r]
  <2>1. IsReplaced(t, s, u, w)
    BY <1>1, ReplaceIs
  <2> QED BY <2>1, Zenon DEF IsReplaced
<1>3. \A x \in S, r \in Seq(S) : /\ <<x>> \o r \in Seq(S) /\ <<x>> \o r # <<>>
                                 /\ (<<x>> \o r)[1] = x /\ Rest(<<x>> \o r) = r
  BY StepFirst
<1>4. \A x \in S : <<x>> \in Seq(S) /\ <<x>> # <<>> /\ <<x>>[1] = x
  BY OneStep
<1>5. \A q \in kept : q \in DOMAIN t /\ (q # <<>> => q[1] # s)
  BY DEF Elsewhere
<1>6. \A q \in DOMAIN t : q = <<>> \/ q[1] # s => q \in kept
  BY DEF Elsewhere
<1>7. \A q \in new : q \in Seq(S) /\ q # <<>> /\ q[1] = s
  <2>1. SUFFICES ASSUME NEW r \in DOMAIN u
                 PROVE  <<s>> \o r \in Seq(S) /\ <<s>> \o r # <<>> /\ (<<s>> \o r)[1] = s
    BY Zenon DEF Prefixed
  <2>2. r \in Seq(S)
    BY <1>1
  <2> QED BY <1>3, <2>2
<1>8. \A r \in DOMAIN u : <<s>> \o r \in new
  BY DEF Prefixed
<1>9. \A q \in new : \E r \in DOMAIN u : q = <<s>> \o r
  BY DEF Prefixed
<1> HIDE DEF kept, new
<1>10. <<s>> \in new
  <2>1. <<s>> \o <<>> = <<s>>
    BY <1>4, ConcatEmptySeq
  <2>2. <<s>> \o <<>> \in new
    BY <1>1, <1>8
  <2> QED BY <2>1, <2>2
<1>11. <<>> \in DOMAIN w /\ w[<<>>] = t[<<>>]
  BY <1>1, <1>2, <1>6, Zenon
<1>12. /\ Kids(t) \subseteq S
       /\ \A x \in S : x \in Kids(t) <=> <<x>> \in DOMAIN t
  BY KidsAre
<1>13. \A x \in Kids(t) \cup {s} : <<x>> \in DOMAIN w
  <2>1. ASSUME NEW x \in Kids(t), x # s PROVE <<x>> \in DOMAIN w
    <3>1. x \in S /\ <<x>> \in DOMAIN t
      BY <1>12
    <3>2. <<x>> \in kept
      BY <1>4, <1>6, <2>1, <3>1
    <3> QED BY <1>2, <3>2
  <2> QED BY <1>2, <1>10, <2>1
<1>14. Kids(w) = Kids(t) \cup {s}
  <2>1. ASSUME NEW q \in DOMAIN w, q # <<>> PROVE q[1] \in Kids(t) \cup {s}
    <3>1. CASE q \in new
      BY <1>7, <3>1
    <3>2. CASE q \in kept
      <4>1. q \in DOMAIN t
        BY <1>5, <3>2
      <4> QED BY <2>1, <4>1 DEF Kids
    <3> QED BY <1>2, <3>1, <3>2
  <2>2. ASSUME NEW x \in Kids(t) \cup {s} PROVE \E q \in DOMAIN w \ {<<>>} : x = q[1]
    <3>1. x \in S /\ <<x>> \in DOMAIN w
      BY <1>12, <1>13
    <3>2. <<x>> # <<>> /\ <<x>>[1] = x
      BY <1>4, <3>1
    <3> QED BY <3>1, <3>2
  <2>3. Kids(w) \subseteq Kids(t) \cup {s}
    BY <2>1 DEF Kids
  <2>4. Kids(t) \cup {s} \subseteq Kids(w)
    <3>1. SUFFICES ASSUME NEW x \in Kids(t) \cup {s} PROVE x \in Kids(w)
      BY Zenon
    <3>2. PICK q \in DOMAIN w \ {<<>>} : x = q[1]
      BY <2>2, <3>1, Zenon
    <3> QED BY <3>2, Zenon DEF Kids
  <2> QED BY <2>3, <2>4, Zenon
<1>15. RootedIn(w, S)
  <2>1. DOMAIN w \subseteq Seq(S)
    BY <1>1, <1>2, <1>5, <1>7
  <2>2. \A x \in Kids(w) : <<x>> \in DOMAIN w /\ Child(w[<<>>].v.type, x)
    BY <1>11, <1>13, <1>14 DEF RootedIn
  <2>3. ASSUME t[<<>>].v.type = "array" PROVE \E b \in Nat : \A x \in Kids(w) : x.index < b
    <3>1. PICK b \in Nat : \A x \in Kids(t) : x.index < b
      BY <2>3 DEF RootedIn
    <3>2. s.index \in Nat
      BY <2>3, ChildIndex
    <3> DEFINE c == IF s.index < b THEN b ELSE s.index + 1
    <3>3. c \in Nat /\ s.index < c /\ b <= c
      BY <3>2
    <3>4. \A x \in Kids(t) : x.index \in Nat
      BY <2>3, ChildIndex DEF RootedIn
    <3> HIDE DEF c
    <3>5. \A x \in Kids(w) : x.index < c
      BY <1>14, <3>1, <3>3, <3>4
    <3> QED BY <3>3, <3>5
  <2> QED BY <1>11, <2>1, <2>2, <2>3 DEF RootedIn
<1>16. Subtree(w, <<s>>) = u
  <2> DEFINE under == Under(w, s, S)
  <2>1. Subtree(w, <<s>>) = [r \in under |-> w[<<s>> \o r]]
    <3>1. DOMAIN w \subseteq Seq(S) /\ <<s>> \in DOMAIN w
      BY <1>2, <1>10, <1>15 DEF RootedIn
    <3> QED BY <3>1, SubtreeIs DEF IsSubtree
  <2>2. ASSUME NEW r \in Seq(S), <<s>> \o r \in DOMAIN w PROVE r \in DOMAIN u
    <3>1. <<s>> \o r \in new
      BY <1>2, <1>3, <1>5, <2>2
    <3>2. PICK x \in DOMAIN u : <<s>> \o r = <<s>> \o x
      BY <1>9, <3>1
    <3>3. x \in Seq(S)
      BY <1>1
    <3>4. Rest(<<s>> \o r) = r /\ Rest(<<s>> \o x) = x
      BY <1>3, <2>2, <3>3
    <3> QED BY <3>2, <3>4
  <2>3. under = DOMAIN u
    BY <1>1, <1>2, <1>8, <2>2 DEF Under
  <2> HIDE DEF under
  <2>4. [r \in under |-> w[<<s>> \o r]] = [r \in DOMAIN u |-> u[r]]
    BY <1>2, <2>3, Zenon
  <2> QED BY <2>1, <2>4, Zenon DEF IsBranch
<1>17. ASSUME NEW x \in Kids(t), x # s PROVE Subtree(w, <<x>>) = Subtree(t, <<x>>)
  <2> DEFINE under == Under(t, x, S)
             underW == Under(w, x, S)
  <2>1. x \in S /\ <<x>> \in DOMAIN w /\ <<x>> \in DOMAIN t
    BY <1>12, <1>13
  <2>2. Subtree(w, <<x>>) = [r \in underW |-> w[<<x>> \o r]]
    <3>1. DOMAIN w \subseteq Seq(S)
      BY <1>15 DEF RootedIn
    <3> QED BY <2>1, <3>1, SubtreeIs DEF IsSubtree
  <2>3. Subtree(t, <<x>>) = [r \in under |-> t[<<x>> \o r]]
    BY <2>1, <1>1, SubtreeIs DEF IsSubtree
  <2>4. \A r \in Seq(S) : /\ <<x>> \o r \in DOMAIN w <=> <<x>> \o r \in DOMAIN t
                          /\ <<x>> \o r \in DOMAIN t => w[<<x>> \o r] = t[<<x>> \o r]
    BY <1>2, <1>3, <1>5, <1>6, <1>7, <1>17, <2>1
  <2>5. under = underW
    BY <2>4 DEF Under
  <2>6. \A r \in under : w[<<x>> \o r] = t[<<x>> \o r]
    BY <2>4 DEF Under
  <2> HIDE DEF under, underW
  <2> QED BY <2>2, <2>3, <2>5, <2>6, Zenon
<1>18. \A x \in S : Branch(w, x) = IF x = s THEN u ELSE Branch(t, x)
  BY <1>14, <1>16, <1>17, Zenon DEF Branch
<1> QED BY <1>11, <1>14, <1>15, <1>18 DEF IsPut

\* w is t without what is at the steps of G and below them.
IsCut(t, G, w, S) ==
  /\ RootedIn(w, S) /\ w[<<>>] = t[<<>>] /\ Kids(w) = Kids(t) \ G
  /\ \A x \in S : Branch(w, x) = IF x \in G THEN Leaf(nullValue) ELSE Branch(t, x)

\* Without does that.
LEMMA CutKeeps ==
  ASSUME NEW S, NEW t, RootedIn(t, S), NEW G, NEW gone,
         \A q \in DOMAIN t : q \in gone <=> q # <<>> /\ q[1] \in G,
         NEW w, w = Without(t, gone)
  PROVE  IsCut(t, G, w, S)
<1>1. DOMAIN w = DOMAIN t \ gone /\ \A q \in DOMAIN t \ gone : w[q] = t[q]
  BY DEF Without
<1>2. DOMAIN t \subseteq Seq(S) /\ <<>> \in DOMAIN t
  BY DEF RootedIn
<1>3. \A x \in S, r \in Seq(S) : <<x>> \o r # <<>> /\ (<<x>> \o r)[1] = x
  BY StepFirst
<1>4. \A x \in S : <<x>> \in Seq(S) /\ <<x>> # <<>> /\ <<x>>[1] = x
  BY OneStep
<1>5. <<>> \in DOMAIN w /\ w[<<>>] = t[<<>>]
  BY <1>1, <1>2, Zenon
<1>6. /\ Kids(t) \subseteq S
      /\ \A x \in S : x \in Kids(t) <=> <<x>> \in DOMAIN t
  BY KidsAre
<1>7. \A x \in Kids(t) \ G : <<x>> \in DOMAIN w
  BY <1>1, <1>4, <1>6
<1>8. Kids(w) = Kids(t) \ G
  <2>1. ASSUME NEW q \in DOMAIN w, q # <<>> PROVE q[1] \in Kids(t) \ G
    <3>1. q \in DOMAIN t /\ q[1] \notin G
      BY <1>1, <2>1
    <3> QED BY <2>1, <3>1 DEF Kids
  <2>2. ASSUME NEW x \in Kids(t) \ G PROVE \E q \in DOMAIN w \ {<<>>} : x = q[1]
    <3>1. x \in S /\ <<x>> \in DOMAIN w
      BY <1>6, <1>7
    <3>2. <<x>> # <<>> /\ <<x>>[1] = x
      BY <1>4, <3>1
    <3> QED BY <3>1, <3>2
  <2>3. Kids(w) \subseteq Kids(t) \ G
    BY <2>1 DEF Kids
  <2>4. Kids(t) \ G \subseteq Kids(w)
    <3>1. SUFFICES ASSUME NEW x \in Kids(t) \ G PROVE x \in Kids(w)
      BY Zenon
    <3>2. PICK q \in DOMAIN w \ {<<>>} : x = q[1]
      BY <2>2, <3>1, Zenon
    <3> QED BY <3>2, Zenon DEF Kids
  <2> QED BY <2>3, <2>4, Zenon
<1>9. RootedIn(w, S)
  <2>1. DOMAIN w \subseteq Seq(S)
    BY <1>1, <1>2
  <2>2. \A x \in Kids(w) : <<x>> \in DOMAIN w /\ Child(w[<<>>].v.type, x)
    BY <1>5, <1>7, <1>8 DEF RootedIn
  <2>3. t[<<>>].v.type = "array" => \E b \in Nat : \A x \in Kids(w) : x.index < b
    BY <1>8 DEF RootedIn
  <2> QED BY <1>5, <2>1, <2>2, <2>3 DEF RootedIn
<1>10. ASSUME NEW x \in Kids(t) \ G PROVE Subtree(w, <<x>>) = Subtree(t, <<x>>)
  <2> DEFINE under == Under(t, x, S)
             underW == Under(w, x, S)
  <2>1. x \in S /\ <<x>> \in DOMAIN w /\ <<x>> \in DOMAIN t
    BY <1>6, <1>7
  <2>2. Subtree(w, <<x>>) = [r \in underW |-> w[<<x>> \o r]]
    <3>1. DOMAIN w \subseteq Seq(S)
      BY <1>9 DEF RootedIn
    <3> QED BY <2>1, <3>1, SubtreeIs DEF IsSubtree
  <2>3. Subtree(t, <<x>>) = [r \in under |-> t[<<x>> \o r]]
    BY <2>1, <1>2, SubtreeIs DEF IsSubtree
  <2>4. \A r \in Seq(S) : /\ <<x>> \o r \in DOMAIN w <=> <<x>> \o r \in DOMAIN t
                          /\ <<x>> \o r \in DOMAIN t => w[<<x>> \o r] = t[<<x>> \o r]
    BY <1>1, <1>3, <1>10, <2>1
  <2>5. under = underW
    BY <2>4 DEF Under
  <2>6. \A r \in under : w[<<x>> \o r] = t[<<x>> \o r]
    BY <2>4 DEF Under
  <2> HIDE DEF under, underW
  <2> QED BY <2>2, <2>3, <2>5, <2>6, Zenon
<1>11. \A x \in S : Branch(w, x) = IF x \in G THEN Leaf(nullValue) ELSE Branch(t, x)
  BY <1>8, <1>10, Zenon DEF Branch
<1> QED BY <1>5, <1>8, <1>9, <1>11 DEF IsCut

(* ---- an array, seen as a sequence ------------------------------------------------ *)
IsArray(t, S) == RootedIn(t, S) /\ t[<<>>].v.type = "array"

\* The element at k, null if there is none.
Elem(t, k) == Branch(t, Idx(k))

\* The size of an array is behind its last element.
LEMMA ArraySize ==
  ASSUME NEW S, NEW t, IsArray(t, S)
  PROVE  /\ size(t, <<>>) \in Nat
         /\ \A s \in Kids(t) : s = Idx(s.index) /\ s.index \in Nat /\ s.index < size(t, <<>>)
         /\ size(t, <<>>) > 0 => Idx(size(t, <<>>) - 1) \in Kids(t)
<1>1. Steps(t, <<>>) = Kids(t)
  BY KidsAre DEF IsArray
<1>2. \A s \in Kids(t) : s = Idx(s.index) /\ s.index \in Nat
  BY ChildIndex DEF IsArray, RootedIn
<1> DEFINE T == {s.index : s \in Kids(t)}
<1>3. size(t, <<>>) = IF Kids(t) = {} THEN 0 ELSE Max(T) + 1
  BY <1>1 DEF size, IsArray
<1>4. CASE Kids(t) = {}
  <2>1. size(t, <<>>) = 0
    BY <1>3, <1>4
  <2> QED BY <1>4, <2>1
<1>5. CASE Kids(t) # {}
  <2>1. PICK b \in Nat : \A s \in Kids(t) : s.index < b
    BY DEF IsArray, RootedIn
  <2>2. T \in SUBSET (0..b) /\ T # {}
    BY <1>2, <1>5, <2>1
  <2>3. \A s \in Kids(t) : s.index \in T
    OBVIOUS
  <2>4. \A x \in T : \E s \in Kids(t) : x = s.index
    OBVIOUS
  <2> HIDE DEF T
  <2>5. Max(T) \in T /\ \A y \in T : y <= Max(T)
    <3>1. Max(T) \in T
      BY <2>1, <2>2, GreatestExists
    <3>2. \E x \in T : \A y \in T : x >= y
      BY <2>1, <2>2, GreatestBounds
    <3>3. \A y \in T : Max(T) >= y
      BY <3>2, Zenon DEF Max
    <3> QED BY <2>1, <2>2, <3>1, <3>3
  <2>6. Max(T) \in Nat /\ size(t, <<>>) = Max(T) + 1
    <3>1. Max(T) \in Nat
      <4>1. \A x \in T : x \in Nat
        BY <2>1, <2>2
      <4> QED BY <2>5, <4>1, Zenon
    <3>2. size(t, <<>>) = Max(T) + 1
      BY <1>3, <1>5, Zenon DEF T
    <3> QED BY <3>1, <3>2
  <2>7. \A s \in Kids(t) : s.index <= Max(T)
    BY <2>3, <2>5
  <2>8. PICK s \in Kids(t) : s.index = Max(T)
    BY <2>4, <2>5
  <2>9. size(t, <<>>) - 1 = s.index
    BY <2>6, <2>8
  <2> QED BY <1>2, <2>6, <2>7, <2>8, <2>9
<1> QED BY <1>4, <1>5

\* So it is what is behind its last element.
LEMMA SizeIs ==
  ASSUME NEW S, NEW t, IsArray(t, S), NEW n \in Nat, \A k \in Nat : Idx(k) \in Kids(t) => k < n,
         n > 0 => Idx(n - 1) \in Kids(t)
  PROVE  size(t, <<>>) = n
<1> DEFINE m == size(t, <<>>)
<1>1. /\ m \in Nat
      /\ \A s \in Kids(t) : s = Idx(s.index) /\ s.index \in Nat /\ s.index < m
      /\ m > 0 => Idx(m - 1) \in Kids(t)
  BY ArraySize
<1> HIDE DEF m
<1>2. m > 0 => m - 1 < n
  BY <1>1
<1>3. n > 0 => n - 1 < m
  <2>1. Idx(n - 1).index = n - 1
    BY DEF Idx
  <2> QED BY <1>1, <2>1
<1>4. m = n
  BY <1>1, <1>2, <1>3
<1> QED BY <1>4 DEF m

\* The elements of an array, holes being nulls.
LEMMA ElementsAre ==
  ASSUME NEW S, NEW t, IsArray(t, S), NEW n, n = size(t, <<>>)
  PROVE  /\ n \in Nat
         /\ Elements(t) = [k \in 1..n |-> Elem(t, k - 1)]
         /\ \A k \in Nat : k >= n => Elem(t, k) = Leaf(nullValue) /\ Idx(k) \notin Kids(t)
<1>1. n \in Nat /\ \A s \in Kids(t) : s.index < n
  BY ArraySize
<1>2. \A k \in Nat : Idx(k) \in S
  BY DEF IsArray, RootedIn
<1>3. \A k \in Nat : At(t, <<>>, Idx(k)) = Elem(t, k)
  BY <1>2, KidsAre DEF IsArray, Elem
<1>4. \A k \in 1..n : k - 1 \in Nat
  BY <1>1
<1>5. Elements(t) = [k \in 1..n |-> Elem(t, k - 1)]
  BY <1>3, <1>4, Zenon DEF Elements
<1>6. \A k : Idx(k).index = k
  BY DEF Idx
<1>7. ASSUME NEW k \in Nat, k >= n PROVE Idx(k) \notin Kids(t)
  BY <1>1, <1>6, <1>7
<1> QED BY <1>1, <1>5, <1>7, Zenon DEF Elem, Branch

\* Two indices are as different as the steps are.
LEMMA IdxIsOne ==
  ASSUME NEW i, NEW k PROVE Idx(i) = Idx(k) <=> i = k
BY DEF Idx

\* What is put is a branch, and so is what is found.
LEMMA Branches ==
  ASSUME NEW S, NEW t, RootedIn(t, S), NEW s \in S, NEW v
  PROVE  IsBranch(Leaf(v), S) /\ IsBranch(Branch(t, s), S)
<1>1. ASSUME NEW x PROVE IsBranch(Leaf(x), S)
  <2>1. Leaf(x) = [r \in {<<>>} |-> Node(x)]
    BY DEF Leaf
  <2>2. DOMAIN Leaf(x) = {<<>>} /\ Leaf(x) = [r \in DOMAIN Leaf(x) |-> Leaf(x)[r]]
    BY <2>1
  <2>3. <<>> \in Seq(S)
    BY EmptySeq
  <2> QED BY <2>2, <2>3 DEF IsBranch
<1>2. CASE s \in Kids(t)
  <2>1. DOMAIN t \subseteq Seq(S) /\ <<s>> \in DOMAIN t
    BY <1>2 DEF RootedIn
  <2> DEFINE u == Subtree(t, <<s>>)
  <2>2. u = [r \in Under(t, s, S) |-> t[<<s>> \o r]]
    BY <2>1, SubtreeIs DEF IsSubtree
  <2> HIDE DEF u
  <2>3. DOMAIN u = Under(t, s, S) /\ u = [r \in DOMAIN u |-> u[r]]
    BY <2>2
  <2>4. <<s>> \in Seq(S)
    BY OneStep
  <2>5. <<>> \in Seq(S) /\ <<s>> \o <<>> = <<s>>
    BY <2>4, EmptySeq, ConcatEmptySeq
  <2>6. <<>> \in Under(t, s, S) /\ Under(t, s, S) \subseteq Seq(S)
    BY <2>1, <2>5 DEF Under
  <2>7. IsBranch(u, S)
    BY <2>3, <2>6 DEF IsBranch
  <2> QED BY <1>1, <1>2, <2>7 DEF u, Branch
<1> QED BY <1>1, <1>2 DEF Branch

\* operator[] on a container of the right kind puts a null where nothing is.
LEMMA ResolveRoot ==
  ASSUME NEW S, NEW t, RootedIn(t, S), NEW s \in S, t[<<>>].v.type = Box(s).type, Child(Box(s).type, s),
         NEW r, r = resolveReference(t, <<>>, s)
  PROVE  /\ r.thrown = FALSE /\ IsPut(t, s, Branch(t, s), r.tree, S)
<1>1. Append(<<>>, s) = <<s>>
  BY OneStep
<1>2. Box(s).type # "null"
  BY DEF Box, arrayValue, objectValue
<1>3. r = Done(IF <<s>> \in DOMAIN t THEN t ELSE Replace(t, <<s>>, Leaf(nullValue)))
  BY <1>1, <1>2 DEF resolveReference
<1>4. /\ r.thrown = FALSE
      /\ r.tree = IF <<s>> \in DOMAIN t THEN t ELSE Replace(t, <<s>>, Leaf(nullValue))
  BY <1>3 DEF Done
<1>5. s \in Kids(t) <=> <<s>> \in DOMAIN t
  BY KidsAre
<1>6. CASE <<s>> \in DOMAIN t
  <2>1. r.tree = t /\ Kids(t) = Kids(t) \cup {s}
    BY <1>4, <1>5, <1>6
  <2> QED BY <1>4, <2>1 DEF IsPut
<1>7. CASE <<s>> \notin DOMAIN t
  <2>1. Branch(t, s) = Leaf(nullValue)
    BY <1>5, <1>7 DEF Branch
  <2>2. IsBranch(Leaf(nullValue), S)
    BY Branches
  <2>3. IsPut(t, s, Leaf(nullValue), r.tree, S)
    BY <1>4, <1>7, <2>2, PutKeeps
  <2> QED BY <1>4, <2>1, <2>3
<1> QED BY <1>6, <1>7

\* An assignment through operator[] puts a value there.
LEMMA AssignRoot ==
  ASSUME NEW S, NEW t, RootedIn(t, S), NEW s \in S, t[<<>>].v.type = Box(s).type, Child(Box(s).type, s),
         NEW u, IsBranch(u, S), NEW r, r = Assign(t, <<>>, s, u)
  PROVE  /\ r.thrown = FALSE /\ IsPut(t, s, u, r.tree, S)
<1> DEFINE x == resolveReference(t, <<>>, s)
           w == Replace(x.tree, <<s>>, u)
<1>1. x.thrown = FALSE /\ IsPut(t, s, Branch(t, s), x.tree, S)
  BY ResolveRoot
<1>2. Append(<<>>, s) = <<s>>
  BY OneStep
<1>3. r = Done(w)
  BY <1>1, <1>2 DEF Assign
<1>4. r.thrown = FALSE /\ r.tree = w
  BY <1>3 DEF Done
<1> HIDE DEF x
<1>5. RootedIn(x.tree, S) /\ x.tree[<<>>] = t[<<>>]
  BY <1>1 DEF IsPut
<1>6. IsPut(x.tree, s, u, w, S)
  BY <1>5, PutKeeps
<1> HIDE DEF w
<1>7. IsPut(t, s, u, w, S)
  BY <1>1, <1>6, Zenon DEF IsPut
<1> QED BY <1>4, <1>7

(* ---- the rounds of removeIndex ------------------------------------------------------ *)
\* w is t after n rounds: the elements behind i, ..., i + n - 1 are one place further down.
Shifted(t, i, n, w, S) ==
  /\ IsArray(w, S) /\ w[<<>>] = t[<<>>]
  /\ \A s \in Kids(w) : s \in Kids(t) \/ \E k \in i..i + n - 1 : s = Idx(k)
  /\ \A k \in Nat : Elem(w, k) = IF k \in i..i + n - 1 THEN Elem(t, k + 1) ELSE Elem(t, k)

\* A round of the loop.
LEMMA RoundShifts ==
  ASSUME NEW S, NEW t, IsArray(t, S), NEW i \in Nat, NEW n \in Nat, NEW u, Shifted(t, i, n, u, S),
         NEW w, w = MoveDown(t, u, i + n)
  PROVE  Shifted(t, i, n + 1, w, S)
<1> DEFINE k == i + n
           x == Elem(t, k + 1)
<1>1. k \in Nat /\ k + 1 \in Nat
  OBVIOUS
<1>2. RootedIn(t, S) /\ RootedIn(u, S) /\ u[<<>>] = t[<<>>] /\ u[<<>>].v.type = "array"
  BY DEF Shifted, IsArray
<1>3. \A j \in Nat : Idx(j) \in S
  BY <1>2 DEF RootedIn
<1>4. Idx(k) \in S /\ Idx(k + 1) \in S
  BY <1>1, <1>3
<1> HIDE DEF k
<1>5. Append(<<>>, Idx(k)) = <<Idx(k)>>
  BY <1>4, OneStep
<1>6. At(t, <<>>, Idx(k + 1)) = x
  BY <1>2, <1>4, KidsAre DEF Elem
<1>7. w = Replace(u, <<Idx(k)>>, x)
  BY <1>5, <1>6, Zenon DEF MoveDown, At, k
<1>8. IsBranch(x, S)
  BY <1>2, <1>4, Branches DEF Elem
<1>9. Child("array", Idx(k))
  BY <1>1 DEF Child
<1> HIDE DEF x
<1>10. IsPut(u, Idx(k), x, w, S)
  BY <1>2, <1>4, <1>7, <1>8, <1>9, PutKeeps
<1>11. IsArray(w, S) /\ w[<<>>] = t[<<>>]
  BY <1>2, <1>10 DEF IsPut, IsArray
<1>12. \A j \in i..i + n - 1 : j \in i..i + (n + 1) - 1
  OBVIOUS
<1>13. k \in i..i + (n + 1) - 1
  BY DEF k
<1>14. \A s \in Kids(w) : s \in Kids(t) \/ \E j \in i..i + (n + 1) - 1 : s = Idx(j)
  <2>1. Kids(w) = Kids(u) \cup {Idx(k)}
    BY <1>10 DEF IsPut
  <2>2. \A s \in Kids(u) : s \in Kids(t) \/ \E j \in i..i + n - 1 : s = Idx(j)
    BY DEF Shifted
  <2> QED BY <1>12, <1>13, <2>1, <2>2, Zenon
<1>15. ASSUME NEW j \in Nat
       PROVE  Elem(w, j) = IF j \in i..i + (n + 1) - 1 THEN Elem(t, j + 1) ELSE Elem(t, j)
  <2>1. Elem(w, j) = IF j = k THEN x ELSE Elem(u, j)
    <3>1. Idx(j) \in S
      BY <1>3, <1>15
    <3>2. Branch(w, Idx(j)) = IF Idx(j) = Idx(k) THEN x ELSE Branch(u, Idx(j))
      BY <1>10, <3>1 DEF IsPut
    <3> QED BY <3>2, IdxIsOne, Zenon DEF Elem
  <2>2. Elem(u, j) = IF j \in i..i + n - 1 THEN Elem(t, j + 1) ELSE Elem(t, j)
    BY <1>15 DEF Shifted
  <2>3. j \in i..i + (n + 1) - 1 <=> j = k \/ j \in i..i + n - 1
    BY <1>15 DEF k
  <2> QED BY <2>1, <2>2, <2>3, Zenon DEF x
<1> QED BY <1>11, <1>14, <1>15, Zenon DEF Shifted

\* The whole loop.
LEMMA LoopShifts ==
  ASSUME NEW S, NEW t, IsArray(t, S), NEW i \in Nat, NEW m \in Nat
  PROVE  Shifted(t, i, m, Moved(t, i, m), S)
<1> DEFINE f == CHOOSE f : Loop(t, i, m, f)
           T == {n \in Nat : n <= m => Shifted(t, i, n, f[1..n], S)}
<1>1. Loop(t, i, m, f)
  BY LoopExists, Zenon
<1> HIDE DEF f
<1>2. \A s \in SUBSET (1..m) : f[s] = IF s = {} THEN t ELSE MoveDown(t, f[s \ {Max(s)}], i + Max(s) - 1)
  BY <1>1, Zenon DEF Loop
<1>3. 0 \in T
  <2>1. 1..0 = {} /\ 1..0 \in SUBSET (1..m)
    OBVIOUS
  <2>2. f[1..0] = t
    BY <1>2, <2>1
  <2>3. \A k \in Nat : k \notin i..i + 0 - 1
    OBVIOUS
  <2>4. Shifted(t, i, 0, t, S)
    BY <2>3, Zenon DEF Shifted
  <2> QED BY <2>2, <2>4
<1>4. ASSUME NEW n \in Nat, n < m, n \in T PROVE n + 1 \in T
  <2>1. Shifted(t, i, n, f[1..n], S)
    BY <1>4
  <2>2. 1..n + 1 \in SUBSET (1..m) /\ 1..n + 1 # {}
    <3>1. 1 \in 1..n + 1 /\ \A k \in 1..n + 1 : k \in 1..m
      BY <1>4
    <3> QED BY <3>1
  <2>3. Max(1..n + 1) = n + 1
    <3>1. 1..n + 1 \subseteq Int /\ n + 1 \in 1..n + 1 /\ \A y \in 1..n + 1 : y <= n + 1
      BY <1>4
    <3> QED BY <3>1, GreatestIs
  <2>4. (1..n + 1) \ {n + 1} = 1..n
    BY <1>4
  <2>5. i + (n + 1) - 1 = i + n
    BY <1>4
  <2>6. f[1..n + 1] = MoveDown(t, f[1..n], i + n)
    BY <1>2, <2>2, <2>3, <2>4, <2>5, Zenon
  <2>7. Shifted(t, i, n + 1, f[1..n + 1], S)
    BY <1>4, <2>1, <2>6, RoundShifts
  <2> QED BY <1>4, <2>7
<1> HIDE DEF T
<1>5. \A n \in 0..m : n \in T
  BY <1>3, <1>4, UpTo
<1>6. m \in T
  BY <1>5
<1>7. Shifted(t, i, m, f[1..m], S)
  BY <1>6 DEF T
<1> QED BY <1>7, Zenon DEF Moved, f

\* What is at s and below it.
LEMMA AtAndBelow ==
  ASSUME NEW S, NEW t, DOMAIN t \subseteq Seq(S), NEW s \in S
  PROVE  /\ Append(<<>>, s) = <<s>>
         /\ \A q \in DOMAIN t : q \in {<<s>>} \cup Below(t, <<s>>) <=> q # <<>> /\ q[1] = s
<1>1. /\ Len(<<s>>) = 1 /\ <<s>> # <<>> /\ <<s>>[1] = s /\ Append(<<>>, s) = <<s>>
      /\ \A q \in Seq(S) : /\ Len(q) \in Nat
                           /\ IsPrefix(<<s>>, q) <=> q # <<>> /\ q[1] = s
                           /\ q # <<>> /\ q[1] = s /\ ~(Len(q) > 1) => q = <<s>>
  BY OneStep
<1>2. \A q : q \in Below(t, <<s>>) <=> q \in DOMAIN t /\ Len(q) > 1 /\ IsPrefix(<<s>>, q)
  BY <1>1, Zenon DEF Below
<1>3. ASSUME NEW q \in DOMAIN t PROVE q \in {<<s>>} \cup Below(t, <<s>>) <=> q # <<>> /\ q[1] = s
  <2>1. q \in Seq(S)
    BY <1>3
  <2>2. q \in {<<s>>} \cup Below(t, <<s>>) <=> q = <<s>> \/ q \in Below(t, <<s>>)
    OBVIOUS
  <2> QED BY <1>1, <1>2, <1>3, <2>1, <2>2, Zenon
<1> QED BY <1>1, <1>3

\* removeIndex takes the element at i out: the elements behind it move up, and the array is shorter.
LEMMA RemovedElements ==
  ASSUME NEW S, NEW t, IsArray(t, S), NEW i \in Nat, <<Idx(i)>> \in DOMAIN t, NEW n, n = size(t, <<>>),
         NEW w, w = removeIndex(t, <<>>, i).tree
  PROVE  /\ IsArray(w, S) /\ n \in Nat /\ i < n /\ size(w, <<>>) < n
         /\ \A k \in Nat : k < n - 1 => Elem(w, k) = IF k < i THEN Elem(t, k) ELSE Elem(t, k + 1)
<1>1. RootedIn(t, S) /\ t[<<>>].v.type = "array" /\ \A k \in Nat : Idx(k) \in S
  BY DEF IsArray, RootedIn
<1>2. Idx(i) \in Kids(t) /\ Idx(i) \in S
  BY <1>1, KidsAre
<1>3. /\ n \in Nat
      /\ \A s \in Kids(t) : s = Idx(s.index) /\ s.index \in Nat /\ s.index < n
  BY ArraySize
<1>4. \A k : Idx(k).index = k
  BY DEF Idx
<1>5. i < n
  BY <1>2, <1>3, <1>4
<1> DEFINE m == n - 1 - i
           x == Moved(t, i, m)
           last == Idx(n - 1)
           gone == {<<last>>} \cup Below(x, <<last>>)
<1>6. m \in Nat /\ n - 1 \in Nat
  BY <1>3, <1>5
<1>7. last \in S
  BY <1>1, <1>6
<1> HIDE DEF m, last
<1>8. Append(<<>>, last) = <<last>> /\ Append(<<>>, Idx(i)) = <<Idx(i)>>
  BY <1>2, <1>7, OneStep
<1>9. w = Without(x, gone)
  <2> HIDE DEF x
  <2>1. Append(<<>>, Idx(n - 1)) = <<last>> /\ Append(<<>>, Idx(i)) \in DOMAIN t
    BY <1>8 DEF last
  <2>2. removeIndex(t, <<>>, i) = Done(Without(x, gone))
    BY <1>1, <1>6, <2>1, RemoveIndexIs DEF m, x
  <2> QED BY <2>2 DEF Done
<1>10. Shifted(t, i, m, x, S)
  BY <1>6, LoopShifts
<1> HIDE DEF x
<1>11. RootedIn(x, S) /\ DOMAIN x \subseteq Seq(S) /\ x[<<>>].v.type = "array"
  BY <1>10 DEF Shifted, IsArray, RootedIn
<1>12. \A q \in DOMAIN x : q \in gone <=> q # <<>> /\ q[1] \in {last}
  BY <1>7, <1>11, AtAndBelow
<1> HIDE DEF gone
<1>13. IsCut(x, {last}, w, S)
  BY <1>9, <1>11, <1>12, CutKeeps
<1>14. IsArray(w, S)
  BY <1>11, <1>13 DEF IsCut, IsArray
<1>15. \A s \in Kids(w) : s.index < n - 1
  <2>1. SUFFICES ASSUME NEW s \in Kids(w) PROVE s.index < n - 1
    OBVIOUS
  <2>2. s \in Kids(x) /\ s # last
    BY <1>13 DEF IsCut
  <2>3. CASE s \in Kids(t)
    <3>1. s = Idx(s.index) /\ s.index \in Nat /\ s.index < n
      BY <1>3, <2>3
    <3>2. s.index # n - 1
      BY <2>2, <3>1 DEF last
    <3> QED BY <1>3, <3>1, <3>2
  <2>4. ASSUME NEW k \in i..i + m - 1, s = Idx(k) PROVE s.index < n - 1
    <3>1. s.index = k
      BY <1>4, <2>4
    <3> QED BY <1>3, <2>4, <3>1 DEF m
  <2> QED BY <1>10, <2>2, <2>3, <2>4 DEF Shifted
<1>16. size(w, <<>>) < n
  <2>1. /\ size(w, <<>>) \in Nat
        /\ size(w, <<>>) > 0 => Idx(size(w, <<>>) - 1) \in Kids(w)
    BY <1>14, ArraySize
  <2>2. size(w, <<>>) > 0 => size(w, <<>>) - 1 < n - 1
    BY <1>4, <1>15, <2>1
  <2> QED BY <1>3, <1>5, <2>1, <2>2
<1>17. ASSUME NEW k \in Nat, k < n - 1 PROVE Elem(w, k) = IF k < i THEN Elem(t, k) ELSE Elem(t, k + 1)
  <2>1. Idx(k) \in S /\ Idx(k) # last
    BY <1>1, <1>17, IdxIsOne DEF last
  <2>2. Elem(w, k) = Elem(x, k)
    BY <1>13, <2>1 DEF IsCut, Elem
  <2>3. Elem(x, k) = IF k \in i..i + m - 1 THEN Elem(t, k + 1) ELSE Elem(t, k)
    BY <1>10, <1>17 DEF Shifted
  <2>4. k \in i..i + m - 1 <=> ~(k < i)
    BY <1>3, <1>17 DEF m
  <2> QED BY <2>2, <2>3, <2>4, Zenon
<1> QED BY <1>3, <1>5, <1>14, <1>16, <1>17

(* ---- the calls on an array ------------------------------------------------------------ *)
\* The first n elements, nulls behind the last one.
LEMMA PaddedElements ==
  ASSUME NEW S, NEW t, IsArray(t, S), NEW n \in Nat
  PROVE  Padded(Elements(t), n) = [k \in 1..n |-> Elem(t, k - 1)]
<1> DEFINE m == size(t, <<>>)
           e == Elements(t)
<1>1. /\ m \in Nat /\ e = [k \in 1..m |-> Elem(t, k - 1)]
      /\ \A k \in Nat : k >= m => Elem(t, k) = Leaf(nullValue)
  BY ElementsAre
<1> HIDE DEF m, e
<1>2. Len(e) = m
  <2>1. DOMAIN e = 1..m
    BY <1>1
  <2>2. e \in Seq({Elem(t, k - 1) : k \in 1..m})
    <3>1. e \in [1..m -> {Elem(t, k - 1) : k \in 1..m}]
      BY <1>1
    <3> QED BY <1>1, <3>1, SeqDef
  <2>3. Len(e) \in Nat /\ DOMAIN e = 1..Len(e)
    BY <2>2, LenProperties
  <2> QED BY <1>1, <2>1, <2>3
<1>3. ASSUME NEW k \in 1..n
      PROVE  (IF k <= Len(e) THEN e[k] ELSE Leaf(nullValue)) = Elem(t, k - 1)
  <2>1. CASE k <= m
    <3>1. k \in 1..m
      BY <1>1, <2>1
    <3>2. e[k] = Elem(t, k - 1)
      BY <1>1, <3>1
    <3> QED BY <1>2, <2>1, <3>2
  <2>2. CASE ~(k <= m)
    <3>1. k - 1 \in Nat /\ k - 1 >= m
      BY <1>1, <2>2
    <3> QED BY <1>1, <1>2, <2>2, <3>1
  <2> QED BY <2>1, <2>2
<1>4. Padded(e, n) = [k \in 1..n |-> Elem(t, k - 1)]
  BY <1>3, Zenon DEF Padded
<1> QED BY <1>4 DEF e

\* RemoveAt, element by element.
LEMMA RemoveAtIs ==
  ASSUME NEW U, NEW s \in Seq(U), NEW j \in 1..Len(s)
  PROVE  RemoveAt(s, j) = [k \in 1..Len(s) - 1 |-> IF k < j THEN s[k] ELSE s[k + 1]]
<1> DEFINE n == Len(s)
           a == SubSeq(s, 1, j - 1)
           b == SubSeq(s, j + 1, n)
           c == [k \in 1..n - 1 |-> IF k < j THEN s[k] ELSE s[k + 1]]
<1>1. n \in Nat /\ j \in Nat /\ 1 <= j /\ j <= n
  BY LenProperties
<1>2. \A k \in 1..n : s[k] \in U
  BY ElementOfSeq
<1>3. a \in Seq(U) /\ Len(a) = j - 1 /\ \A k \in 1..j - 1 : a[k] = s[k]
  <2>1. \A k \in 1..j - 1 : s[k] \in U
    BY <1>1, <1>2
  <2>2. /\ a \in Seq(U)
        /\ Len(a) = IF 1 <= j - 1 THEN (j - 1) - 1 + 1 ELSE 0
        /\ \A k \in 1..(j - 1) - 1 + 1 : a[k] = s[1 + k - 1]
    BY <1>1, <2>1, SubSeqProperties
  <2> HIDE DEF a
  <2> QED BY <1>1, <2>2
<1>4. b \in Seq(U) /\ Len(b) = n - j /\ \A k \in 1..n - j : b[k] = s[j + k]
  <2>1. \A k \in j + 1..n : s[k] \in U
    BY <1>1, <1>2
  <2>2. /\ b \in Seq(U)
        /\ Len(b) = IF j + 1 <= n THEN n - (j + 1) + 1 ELSE 0
        /\ \A k \in 1..n - (j + 1) + 1 : b[k] = s[j + 1 + k - 1]
    BY <1>1, <2>1, SubSeqProperties
  <2> HIDE DEF b
  <2> QED BY <1>1, <2>2
<1>5. RemoveAt(s, j) = a \o b
  BY DEF RemoveAt
<1> HIDE DEF a, b, n
<1>6. /\ a \o b \in Seq(U) /\ Len(a \o b) = n - 1
      /\ \A k \in 1..n - 1 : (a \o b)[k] = IF k <= j - 1 THEN a[k] ELSE b[k - (j - 1)]
  <2>1. /\ a \o b \in Seq(U) /\ Len(a \o b) = Len(a) + Len(b)
        /\ \A k \in 1..Len(a) + Len(b) : (a \o b)[k] = IF k <= Len(a) THEN a[k] ELSE b[k - Len(a)]
    BY <1>3, <1>4, ConcatProperties
  <2>2. Len(a) + Len(b) = n - 1
    BY <1>1, <1>3, <1>4
  <2> QED BY <1>3, <2>1, <2>2
<1>7. ASSUME NEW k \in 1..n - 1 PROVE (a \o b)[k] = IF k < j THEN s[k] ELSE s[k + 1]
  <2>1. CASE k < j
    <3>1. k <= j - 1 /\ k \in 1..j - 1
      BY <1>1, <2>1
    <3> QED BY <1>3, <1>6, <1>7, <2>1, <3>1
  <2>2. CASE ~(k < j)
    <3>1. ~(k <= j - 1) /\ k - (j - 1) \in 1..n - j /\ j + (k - (j - 1)) = k + 1
      BY <1>1, <2>2
    <3>2. b[k - (j - 1)] = s[k + 1]
      BY <1>4, <3>1
    <3> QED BY <1>6, <1>7, <2>2, <3>1, <3>2
  <2> QED BY <2>1, <2>2
<1>8. DOMAIN (a \o b) = 1..n - 1 /\ a \o b = [k \in 1..Len(a \o b) |-> (a \o b)[k]]
  <2>1. a \o b \in [1..Len(a \o b) -> U] /\ DOMAIN (a \o b) = 1..Len(a \o b)
    BY <1>6, LenProperties
  <2> QED BY <1>6, <2>1
<1>9. a \o b = c
  BY <1>6, <1>7, <1>8
<1> QED BY <1>5, <1>9 DEF n

\* The elements of an array are a sequence.
LEMMA ElementsSeq ==
  ASSUME NEW S, NEW t, IsArray(t, S), NEW n, n = size(t, <<>>)
  PROVE  /\ n \in Nat /\ Len(Elements(t)) = n /\ Elements(t) \in Seq({Elem(t, k) : k \in Nat})
         /\ \A k \in 1..n : Elements(t)[k] = Elem(t, k - 1)
<1> DEFINE U == {Elem(t, k) : k \in Nat}
           e == Elements(t)
<1>1. n \in Nat /\ e = [k \in 1..n |-> Elem(t, k - 1)]
  BY ElementsAre
<1>2. \A k \in 1..n : Elem(t, k - 1) \in U
  <2>1. \A k \in 1..n : k - 1 \in Nat
    BY <1>1
  <2> QED BY <2>1
<1> HIDE DEF U, e
<1>3. e \in [1..n -> U] /\ DOMAIN e = 1..n /\ \A k \in 1..n : e[k] = Elem(t, k - 1)
  BY <1>1, <1>2
<1>4. e \in Seq(U)
  BY <1>1, <1>3, SeqDef
<1>5. Len(e) \in Nat /\ DOMAIN e = 1..Len(e)
  BY <1>4, LenProperties
<1>6. Len(e) = n
  BY <1>1, <1>3, <1>5
<1> QED BY <1>1, <1>3, <1>4, <1>6 DEF U, e

\* removeIndex removes from the sequence.
LEMMA RemoveIsRemoveAt ==
  ASSUME NEW S, NEW t, IsArray(t, S), NEW i \in Nat, <<Idx(i)>> \in DOMAIN t, NEW n, n = size(t, <<>>),
         NEW w, w = removeIndex(t, <<>>, i).tree
  PROVE  size(w, <<>>) < n /\ Padded(Elements(w), n - 1) = RemoveAt(Elements(t), i + 1)
<1>1. /\ IsArray(w, S) /\ n \in Nat /\ i < n /\ size(w, <<>>) < n
      /\ \A k \in Nat : k < n - 1 => Elem(w, k) = IF k < i THEN Elem(t, k) ELSE Elem(t, k + 1)
  BY RemovedElements
<1> DEFINE e == Elements(t)
<1>2. Len(e) = n /\ e \in Seq({Elem(t, k) : k \in Nat}) /\ \A k \in 1..n : e[k] = Elem(t, k - 1)
  BY ElementsSeq
<1> HIDE DEF e
<1>3. i + 1 \in 1..Len(e)
  BY <1>1, <1>2
<1>4. RemoveAt(e, i + 1) = [k \in 1..Len(e) - 1 |-> IF k < i + 1 THEN e[k] ELSE e[k + 1]]
  BY <1>2, <1>3, RemoveAtIs
<1>5. n - 1 \in Nat
  BY <1>1
<1>6. Padded(Elements(w), n - 1) = [k \in 1..n - 1 |-> Elem(w, k - 1)]
  BY <1>1, <1>5, PaddedElements
<1>7. ASSUME NEW k \in 1..n - 1 PROVE Elem(w, k - 1) = IF k < i + 1 THEN e[k] ELSE e[k + 1]
  <2>1. k - 1 \in Nat /\ k - 1 < n - 1 /\ k \in 1..n /\ k + 1 \in 1..n /\ (k - 1 < i <=> k < i + 1)
        /\ (k - 1) + 1 = k /\ (k + 1) - 1 = k
    BY <1>1, <1>7
  <2>2. Elem(w, k - 1) = IF k - 1 < i THEN Elem(t, k - 1) ELSE Elem(t, k)
    BY <1>1, <2>1
  <2>3. e[k] = Elem(t, k - 1) /\ e[k + 1] = Elem(t, k)
    BY <1>2, <2>1
  <2> QED BY <2>1, <2>2, <2>3
<1>8. Padded(Elements(w), n - 1) = RemoveAt(e, i + 1)
  BY <1>2, <1>4, <1>6, <1>7, Zenon
<1> QED BY <1>1, <1>8 DEF e

\* w has u at j, and m elements.
HasPut(t, j, u, m, w) == Elements(w) = [k \in 1..m |-> IF k = j + 1 THEN u ELSE Elem(t, k - 1)]

\* A value put at j.
LEMMA PutIsExcept ==
  ASSUME NEW S, NEW t, IsArray(t, S), NEW j \in Nat, NEW u, NEW w, IsPut(t, Idx(j), u, w, S),
         NEW n, n = size(t, <<>>), NEW m \in Nat, m >= n, m > j, m = n \/ m = j + 1
  PROVE  IsArray(w, S) /\ size(w, <<>>) = m /\ HasPut(t, j, u, m, w)
<1>1. RootedIn(w, S) /\ w[<<>>] = t[<<>>] /\ Kids(w) = Kids(t) \cup {Idx(j)} /\ t[<<>>].v.type = "array"
  BY DEF IsPut, IsArray
<1>2. IsArray(w, S)
  BY <1>1 DEF IsArray
<1>3. \A k : Idx(k).index = k
  BY DEF Idx
<1>4. /\ n \in Nat
      /\ \A s \in Kids(t) : s = Idx(s.index) /\ s.index \in Nat /\ s.index < n
      /\ n > 0 => Idx(n - 1) \in Kids(t)
  BY ArraySize
<1>5. ASSUME NEW k \in Nat, Idx(k) \in Kids(w) PROVE k < m
  <2>1. CASE Idx(k) \in Kids(t)
    <3>1. k < n
      BY <1>3, <1>4, <2>1
    <3> QED BY <1>4, <3>1
  <2>2. CASE Idx(k) = Idx(j)
    BY <2>2, IdxIsOne
  <2> QED BY <1>1, <1>5, <2>1, <2>2
<1>6. Idx(m - 1) \in Kids(w)
  <2>1. CASE m = n
    BY <1>1, <1>4, <2>1
  <2>2. CASE m = j + 1
    <3>1. m - 1 = j
      BY <2>2
    <3> QED BY <1>1, <3>1
  <2> QED BY <2>1, <2>2
<1>7. size(w, <<>>) = m
  BY <1>2, <1>5, <1>6, SizeIs
<1>8. Elements(w) = [k \in 1..m |-> Elem(w, k - 1)]
  BY <1>2, <1>7, ElementsAre
<1>9. ASSUME NEW k \in 1..m PROVE Elem(w, k - 1) = IF k = j + 1 THEN u ELSE Elem(t, k - 1)
  <2>1. k - 1 \in Nat /\ (k - 1 = j <=> k = j + 1)
    BY <1>9
  <2>2. Idx(k - 1) \in S
    BY <1>1, <2>1 DEF RootedIn
  <2>3. Branch(w, Idx(k - 1)) = IF Idx(k - 1) = Idx(j) THEN u ELSE Branch(t, Idx(k - 1))
    BY <2>2 DEF IsPut
  <2>4. Idx(k - 1) = Idx(j) <=> k - 1 = j
    BY IdxIsOne
  <2> QED BY <2>1, <2>3, <2>4, Zenon DEF Elem
<1> QED BY <1>2, <1>7, <1>8, <1>9, Zenon DEF HasPut

\* operator[] and the assignment, at an index.
LEMMA AssignIsExcept ==
  ASSUME NEW S, NEW t, IsArray(t, S), NEW j \in Nat, NEW v, NEW n, n = size(t, <<>>),
         NEW w, w = Assign(t, <<>>, Idx(j), Leaf(v)).tree, NEW m \in Nat, m >= n, m > j, m = n \/ m = j + 1
  PROVE  HasPut(t, j, Leaf(v), m, w)
<1>1. RootedIn(t, S) /\ t[<<>>].v.type = "array" /\ Idx(j) \in S
  BY DEF IsArray, RootedIn
<1>2. Box(Idx(j)).type = "array"
  BY DEF Box, Idx, arrayValue
<1>3. Child("array", Idx(j))
  BY DEF Child
<1>4. IsBranch(Leaf(v), S)
  BY <1>1, Branches
<1>5. IsPut(t, Idx(j), Leaf(v), w, S)
  BY <1>1, <1>2, <1>3, <1>4, AssignRoot
<1> QED BY <1>5, PutIsExcept

\* append.
LEMMA AppendIsAppend ==
  ASSUME NEW S, NEW t, IsArray(t, S), NEW v, NEW w, w = append(t, <<>>, Leaf(v)).tree
  PROVE  Elements(w) = Append(Elements(t), Leaf(v))
<1> DEFINE n == size(t, <<>>)
           e == Elements(t)
           U == {Elem(t, k) : k \in Nat} \cup {Leaf(v)}
<1>1. n \in Nat /\ Len(e) = n /\ e \in Seq({Elem(t, k) : k \in Nat}) /\ \A k \in 1..n : e[k] = Elem(t, k - 1)
  BY ElementsSeq
<1>2. w = Assign(t, <<>>, Idx(n), Leaf(v)).tree
  BY DEF append
<1>3. e \in Seq(U) /\ Leaf(v) \in U
  BY <1>1, SeqMonotonic
<1> HIDE DEF e, U
<1>4. n + 1 \in Nat /\ n + 1 >= n /\ n + 1 > n
  BY <1>1
<1>5. HasPut(t, n, Leaf(v), n + 1, w)
  BY <1>1, <1>2, <1>4, AssignIsExcept
<1> HIDE DEF n
<1> DEFINE a == Append(e, Leaf(v))
<1>6. /\ a \in Seq(U) /\ Len(a) = Len(e) + 1 /\ (\A k \in 1..Len(e) : a[k] = e[k]) /\ a[Len(e) + 1] = Leaf(v)
  BY <1>3, AppendProperties
<1> HIDE DEF a
<1>7. DOMAIN a = 1..n + 1 /\ a = [k \in DOMAIN a |-> a[k]]
  <2>1. a \in [1..Len(a) -> U] /\ DOMAIN a = 1..Len(a)
    BY <1>6, LenProperties
  <2> QED BY <1>1, <1>6, <2>1
<1>8. ASSUME NEW k \in 1..n + 1 PROVE a[k] = IF k = n + 1 THEN Leaf(v) ELSE Elem(t, k - 1)
  <2>1. k # n + 1 => k \in 1..n
    BY <1>1, <1>8
  <2> QED BY <1>1, <1>6, <2>1
<1>9. Elements(w) = a
  BY <1>5, <1>7, <1>8, Zenon DEF HasPut
<1> QED BY <1>9 DEF a, e

\* resize: as many elements as asked for.
LEMMA ResizeIsPadded ==
  ASSUME NEW S, NEW t, IsArray(t, S), NEW n \in Nat, NEW r, r = resize(t, <<>>, n), ~r.thrown
  PROVE  Elements(r.tree) = Padded(Elements(t), n)
<1> DEFINE m == size(t, <<>>)
           gone == UNION {{Append(<<>>, Idx(i))} \cup Below(t, Append(<<>>, Idx(i))) : i \in n..m - 1}
           shrunk == Without(t, gone)
<1>1. /\ m \in Nat
      /\ \A s \in Kids(t) : s = Idx(s.index) /\ s.index \in Nat /\ s.index < m
      /\ m > 0 => Idx(m - 1) \in Kids(t)
  BY ArraySize
<1>2. RootedIn(t, S) /\ t[<<>>].v.type = "array" /\ (\A k \in Nat : Idx(k) \in S) /\ DOMAIN t \subseteq Seq(S)
  BY DEF IsArray, RootedIn
<1>3. r = IF n = 0 THEN clear(t, <<>>)
          ELSE IF n > m THEN resolveReference(t, <<>>, Idx(n - 1))
          ELSE IF size(shrunk, <<>>) = n THEN Done(shrunk) ELSE Thrown(shrunk)
  BY <1>2, Zenon DEF resize
<1>4. Padded(Elements(t), n) = [k \in 1..n |-> Elem(t, k - 1)]
  BY PaddedElements
<1> HIDE DEF m, shrunk
<1>5. SUFFICES Elements(r.tree) = [k \in 1..n |-> Elem(t, k - 1)]
  BY <1>4, Zenon
<1>6. CASE n = 0
  <2>1. r.tree = Without(t, Below(t, <<>>))
    BY <1>2, <1>3, <1>6 DEF clear, Done
  <2>2. \A q \in DOMAIN t : q \in Below(t, <<>>) <=> q # <<>> /\ q[1] \in S
    <3>1. SUFFICES ASSUME NEW q \in DOMAIN t PROVE q \in Below(t, <<>>) <=> q # <<>> /\ q[1] \in S
      OBVIOUS
    <3>2. q \in Seq(S)
      BY <1>2
    <3>3. Len(<<>>) = 0
      BY EmptySeq
    <3>4. Idx(0) \in S
      BY <1>2
    <3>5. Len(q) \in Nat /\ IsPrefix(<<>>, q) /\ (q = <<>> <=> Len(q) = 0)
      BY <3>2, <3>4, OneStep
    <3>6. q \in Below(t, <<>>) <=> Len(q) > Len(<<>>)
      BY <3>1, <3>5, Zenon DEF Below
    <3>7. q # <<>> => q[1] \in S
      BY <3>2, FirstStep
    <3> QED BY <3>3, <3>5, <3>6, <3>7
  <2>3. IsCut(t, S, r.tree, S)
    BY <1>2, <2>1, <2>2, CutKeeps
  <2>4. IsArray(r.tree, S) /\ Kids(r.tree) = {}
    <3>1. Kids(t) \subseteq S
      BY <1>2, KidsAre
    <3> QED BY <1>2, <2>3, <3>1 DEF IsCut, IsArray
  <2>5. size(r.tree, <<>>) = 0
    <3>1. /\ size(r.tree, <<>>) \in Nat
          /\ size(r.tree, <<>>) > 0 => Idx(size(r.tree, <<>>) - 1) \in Kids(r.tree)
      BY <2>4, ArraySize
    <3> QED BY <2>4, <3>1
  <2>6. Elements(r.tree) = [k \in 1..0 |-> Elem(r.tree, k - 1)]
    BY <2>4, <2>5, ElementsAre
  <2>7. \A k \in 1..0 : FALSE
    OBVIOUS
  <2>8. [k \in 1..0 |-> Elem(r.tree, k - 1)] = [k \in 1..0 |-> Elem(t, k - 1)]
    BY <2>7, Zenon
  <2> QED BY <1>6, <2>6, <2>8, Zenon
<1>7. CASE n > m
  <2> DEFINE s == Idx(n - 1)
  <2>1. n # 0 /\ n - 1 \in Nat /\ n - 1 >= m
    BY <1>1, <1>7
  <2>2. s \in S /\ Child("array", s) /\ Box(s).type = "array"
    BY <1>2, <2>1 DEF Child, Box, Idx, arrayValue
  <2>3. r = resolveReference(t, <<>>, s)
    BY <1>3, <1>7, <2>1
  <2> HIDE DEF s
  <2>4. IsPut(t, s, Branch(t, s), r.tree, S)
    BY <1>2, <2>2, <2>3, ResolveRoot
  <2>5. IsPut(t, Idx(n - 1), Elem(t, n - 1), r.tree, S)
    BY <2>4 DEF s, Elem
  <2>6. n >= m /\ n > n - 1 /\ n = (n - 1) + 1
    BY <1>1, <1>7
  <2>7. HasPut(t, n - 1, Elem(t, n - 1), n, r.tree)
    BY <2>1, <2>5, <2>6, PutIsExcept DEF m
  <2>8. \A k \in 1..n : (IF k = (n - 1) + 1 THEN Elem(t, n - 1) ELSE Elem(t, k - 1)) = Elem(t, k - 1)
    <3>1. (n - 1) + 1 = n
      OBVIOUS
    <3> QED BY <3>1, Zenon
  <2> QED BY <2>7, <2>8, Zenon DEF HasPut
<1>8. CASE n # 0 /\ ~(n > m)
  <2>1. r = IF size(shrunk, <<>>) = n THEN Done(shrunk) ELSE Thrown(shrunk)
    BY <1>3, <1>8
  <2>2. size(shrunk, <<>>) = n /\ r.tree = shrunk
    BY <2>1 DEF Done, Thrown
  <2> DEFINE G == {Idx(k) : k \in n..m - 1}
  <2>3. \A q \in DOMAIN t : q \in gone <=> q # <<>> /\ q[1] \in G
    <3>1. SUFFICES ASSUME NEW q \in DOMAIN t PROVE q \in gone <=> q # <<>> /\ q[1] \in G
      OBVIOUS
    <3>2. q \in gone <=> \E k \in n..m - 1 :
                           q \in {Append(<<>>, Idx(k))} \cup Below(t, Append(<<>>, Idx(k)))
      OBVIOUS
    <3>3. ASSUME NEW k \in n..m - 1
          PROVE  q \in {Append(<<>>, Idx(k))} \cup Below(t, Append(<<>>, Idx(k)))
                   <=> q # <<>> /\ q[1] = Idx(k)
      <4>1. k \in Nat
        BY <1>1, <3>3
      <4>2. Idx(k) \in S
        BY <1>2, <4>1
      <4>3. /\ Append(<<>>, Idx(k)) = <<Idx(k)>>
            /\ \A x \in DOMAIN t : x \in {<<Idx(k)>>} \cup Below(t, <<Idx(k)>>) <=> x # <<>> /\ x[1] = Idx(k)
        BY <1>2, <4>2, AtAndBelow
      <4> QED BY <4>3, Zenon
    <3> QED BY <3>2, <3>3
  <2> HIDE DEF gone, G
  <2>4. IsCut(t, G, shrunk, S)
    BY <1>2, <2>3, CutKeeps DEF shrunk
  <2>5. IsArray(shrunk, S)
    BY <1>2, <2>4 DEF IsCut, IsArray
  <2>6. Elements(shrunk) = [k \in 1..n |-> Elem(shrunk, k - 1)]
    BY <2>2, <2>5, ElementsAre
  <2>7. ASSUME NEW k \in 1..n PROVE Elem(shrunk, k - 1) = Elem(t, k - 1)
    <3>1. k - 1 \in Nat /\ k - 1 < n
      BY <2>7
    <3>2. Idx(k - 1) \notin G
      <4>1. \A j \in n..m - 1 : Idx(j) # Idx(k - 1)
        BY <1>1, <3>1, IdxIsOne
      <4> QED BY <4>1 DEF G
    <3>3. Idx(k - 1) \in S
      BY <1>2, <3>1
    <3> QED BY <2>4, <3>2, <3>3 DEF IsCut, Elem
  <2> QED BY <2>2, <2>6, <2>7, Zenon
<1>9. n = 0 \/ n > m \/ (n # 0 /\ ~(n > m))
  BY <1>1
<1> QED BY <1>6, <1>7, <1>8, <1>9

(* ---- the root of the document, step by step ------------------------------------------- *)
\* A tree of which the root's children are where its type has them.
Rooted(t) == \E S : RootedIn(t, S)

\* More steps are no harm.
LEMMA MoreSteps ==
  ASSUME NEW S, NEW t, RootedIn(t, S), NEW R, S \subseteq R
  PROVE  RootedIn(t, R)
<1>1. Seq(S) \subseteq Seq(R)
  BY SeqMonotonic
<1> QED BY <1>1 DEF RootedIn

\* Fewer children are no harm.
LEMMA FewerKids ==
  ASSUME NEW S, NEW t, RootedIn(t, S), NEW w, DOMAIN w \subseteq Seq(S), <<>> \in DOMAIN w,
         w[<<>>].v.type = t[<<>>].v.type, Kids(w) \subseteq Kids(t), \A s \in Kids(w) : <<s>> \in DOMAIN w
  PROVE  RootedIn(w, S)
BY DEF RootedIn

\* The root alone.
LEMMA AloneRooted ==
  ASSUME NEW t, DOMAIN t = {<<>>} PROVE Rooted(t)
<1> DEFINE S == {Idx(i) : i \in Nat}
<1>1. Kids(t) = {}
  BY DEF Kids
<1>2. <<>> \in Seq(S)
  BY EmptySeq
<1>3. \A i \in Nat : Idx(i) \in S
  OBVIOUS
<1> HIDE DEF S
<1>4. RootedIn(t, S)
  BY <1>1, <1>2, <1>3 DEF RootedIn
<1> QED BY <1>4, Zenon DEF Rooted

\* Comments change nothing of that.
LEMMA CommentRooted ==
  ASSUME NEW t, Rooted(t), NEW u, DOMAIN u = DOMAIN t, \A q \in DOMAIN t : u[q].v = t[q].v
  PROVE  Rooted(u)
<1>1. PICK S : RootedIn(t, S)
  BY DEF Rooted
<1>2. Kids(u) = Kids(t)
  BY DEF Kids
<1>3. u[<<>>].v = t[<<>>].v
  BY <1>1 DEF RootedIn
<1>4. RootedIn(u, S)
  BY <1>1, <1>2, <1>3 DEF RootedIn
<1> QED BY <1>4 DEF Rooted

\* swapPayload: what was below the value is gone.
LEMMA SwapRooted ==
  ASSUME NEW t, Rooted(t), NEW p \in DOMAIN t, NEW v, NEW u, Swapped(t, p, v, u)
  PROVE  Rooted(u)
<1>1. PICK S : RootedIn(t, S)
  BY DEF Rooted
<1>2. DOMAIN u = DOMAIN t \ Below(t, p) /\ \A q \in DOMAIN t \ Below(t, p) : q # p => u[q] = t[q]
  BY DEF Swapped
<1>3. DOMAIN t \subseteq Seq(S) /\ <<>> \in DOMAIN t
  BY <1>1 DEF RootedIn
<1>4. Idx(0) \in S /\ Len(<<>>) = 0
  BY <1>1, EmptySeq DEF RootedIn
<1>5. \A q \in DOMAIN t : /\ Len(q) \in Nat /\ IsPrefix(<<>>, q) /\ (q = <<>> <=> Len(q) = 0)
  BY <1>3, <1>4, OneStep
<1>6. \A q : q \in Below(t, p) <=> q \in DOMAIN t /\ Len(q) > Len(p) /\ IsPrefix(p, q)
  BY Zenon DEF Below
<1>7. CASE p = <<>>
  <2>1. ASSUME NEW q \in DOMAIN t PROVE q \in Below(t, p) <=> q # <<>>
    BY <1>4, <1>5, <1>6, <1>7, <2>1
  <2>2. DOMAIN u = {<<>>}
    BY <1>2, <1>3, <2>1
  <2> QED BY <2>2, AloneRooted
<1>8. CASE p # <<>>
  <2>1. Len(p) \in Nat /\ Len(p) > 0
    BY <1>5, <1>8
  <2>2. <<>> \in DOMAIN u /\ u[<<>>] = t[<<>>]
    <3>1. <<>> \notin Below(t, p)
      BY <1>4, <1>6, <2>1
    <3> QED BY <1>2, <1>3, <1>8, <3>1, Zenon
  <2>3. Kids(u) \subseteq Kids(t)
    BY <1>2, Zenon DEF Kids
  <2>4. ASSUME NEW s \in Kids(u) PROVE <<s>> \in DOMAIN u
    <3>1. s \in S /\ <<s>> \in DOMAIN t
      BY <1>1, <2>3, <2>4, KidsAre DEF RootedIn
    <3>2. Len(<<s>>) = 1
      BY <3>1, OneStep
    <3>3. <<s>> \notin Below(t, p)
      <4>1. ~(Len(<<s>>) > Len(p))
        BY <2>1, <3>2
      <4> QED BY <1>6, <4>1, Zenon
    <3> QED BY <1>2, <3>1, <3>3
  <2>5. RootedIn(u, S)
    BY <1>1, <1>2, <1>3, <2>2, <2>3, <2>4, FewerKids
  <2> QED BY <2>5 DEF Rooted
<1> QED BY <1>7, <1>8

\* A step under which operator[] makes a child of the kind it asks for.
GoodStep(s) == Box(s).type = "array" => \E i \in Nat : s = Idx(i)

\* operator[] on the root: it is made a container if it was null.
LEMMA RootResolved ==
  ASSUME NEW S, NEW t, RootedIn(t, S), NEW s \in S, t[<<>>].v.type \in {"null", "array"} => GoodStep(s),
         NEW r, r = resolveReference(t, <<>>, s), NEW w, w = r.tree
  PROVE  RootedIn(w, S) /\ (~r.thrown => Child(w[<<>>].v.type, s))
<1>1. Box(s).type \in {"array", "object"}
  BY DEF Box, arrayValue, objectValue
<1>2. CASE t[<<>>].v.type \notin {"null", Box(s).type}
  <2>1. resolveReference(t, <<>>, s) = Thrown(t)
    BY <1>2 DEF resolveReference
  <2> QED BY <2>1 DEF Thrown
<1>3. CASE t[<<>>].v.type = Box(s).type
  <2>1. Child(Box(s).type, s)
    BY <1>1, <1>3 DEF Child, GoodStep
  <2>2. IsPut(t, s, Branch(t, s), w, S)
    BY <1>3, <2>1, ResolveRoot
  <2> QED BY <1>3, <2>1, <2>2 DEF IsPut
<1>4. CASE t[<<>>].v.type = "null"
  <2> DEFINE box == [t EXCEPT ![<<>>] = Node(Box(s))]
             w1 == Replace(box, <<s>>, Leaf(nullValue))
  <2>1. Kids(t) = {} /\ <<>> \in DOMAIN t
    BY <1>4 DEF RootedIn, Child
  <2>2. <<s>> \notin DOMAIN t
    BY <2>1, KidsAre
  <2>3. Append(<<>>, s) = <<s>>
    BY OneStep
  <2>4. resolveReference(t, <<>>, s) = Done(w1)
    <3>1. t[<<>>].v.type \in {"null", Box(s).type} /\ Append(<<>>, s) \notin DOMAIN t
      BY <1>4, <2>2, <2>3
    <3> QED BY <1>4, <2>3, <3>1, Zenon DEF resolveReference
  <2>5. DOMAIN box = DOMAIN t /\ box[<<>>] = Node(Box(s))
    BY <2>1
  <2> HIDE DEF box
  <2>6. box[<<>>].v.type = Box(s).type
    BY <2>5 DEF Node
  <2>7. Kids(box) = {}
    BY <2>1, <2>5 DEF Kids
  <2>8. RootedIn(box, S)
    BY <2>5, <2>7 DEF RootedIn
  <2>9. Child(box[<<>>].v.type, s)
    BY <1>1, <1>4, <2>6 DEF Child, GoodStep
  <2>10. IsBranch(Leaf(nullValue), S)
    BY <2>8, Branches
  <2>11. IsPut(box, s, Leaf(nullValue), w1, S)
    BY <2>8, <2>9, <2>10, PutKeeps
  <2>12. w = w1
    BY <2>4 DEF Done
  <2> QED BY <2>9, <2>11, <2>12 DEF IsPut
<1> QED BY <1>2, <1>3, <1>4

\* operator[] below the root.
LEMMA DeepResolved ==
  ASSUME NEW S, NEW t, RootedIn(t, S), NEW p \in DOMAIN t, p # <<>>, NEW s \in S,
         NEW w, w = resolveReference(t, p, s).tree
  PROVE  RootedIn(w, S)
<1> DEFINE child == Append(p, s)
           box == IF t[p].v.type = "null" THEN [t EXCEPT ![p] = Node(Box(s))] ELSE t
           leaf == Leaf(nullValue)
           new == Replace(box, child, leaf)
<1>1. DOMAIN t \subseteq Seq(S) /\ <<>> \in DOMAIN t /\ p \in Seq(S)
  BY DEF RootedIn
<1>2. CASE w = t
  BY <1>2
<1>3. CASE w # t
  <2>1. w = new
    <3>1. t[p].v.type \in {"null", Box(s).type} /\ child \notin DOMAIN t
      BY <1>3, Zenon DEF resolveReference, Thrown, Done
    <3> QED BY <3>1, Zenon DEF resolveReference, Thrown, Done
  <2>2. DOMAIN box = DOMAIN t /\ box[<<>>] = t[<<>>]
    BY <1>1
  <2> HIDE DEF box
  <2>3. /\ child \in Seq(S) /\ Len(child) = Len(p) + 1 /\ \A i \in 1..Len(p) : child[i] = p[i]
    BY <1>1, AppendProperties
  <2>4. Len(p) \in Nat /\ Len(p) > 0
    BY <1>1, EmptySeq
  <2>5. child[1] = p[1] /\ Len(child) > 1
    BY <2>3, <2>4
  <2>6. DOMAIN leaf = {<<>>}
    BY LeafIsTree
  <2>7. child \o <<>> = child
    BY <2>3, NothingBehind
  <2> HIDE DEF child, leaf
  <2>8. {child \o r : r \in DOMAIN leaf} = {child}
    BY <2>6, <2>7
  <2> DEFINE dom == (DOMAIN t \ Below(box, child)) \cup {child}
  <2>9. new = [q \in dom |-> IF IsPrefix(child, q) THEN leaf[SubSeq(q, Len(child) + 1, Len(q))] ELSE box[q]]
    BY <2>2, <2>8, Zenon DEF Replace
  <2> HIDE DEF new
  <2>10. \A q : q \in Below(box, child) <=> q \in DOMAIN t /\ Len(q) > Len(child) /\ IsPrefix(child, q)
    BY <2>2, Zenon DEF Below
  <2>11. \A q \in DOMAIN t : ~(Len(q) > Len(child)) => q \in dom
    BY <2>10
  <2>12. <<>> \in dom
    <3>1. ~(Len(<<>>) > Len(child))
      BY <2>3, <2>4, EmptySeq
    <3> QED BY <1>1, <2>11, <3>1, Zenon
  <2>13. ~IsPrefix(child, <<>>)
    <3>1. Len(<<>>) = 0 /\ <<>> \in Seq(S)
      BY EmptySeq
    <3>2. IsPrefix(child, <<>>) => Len(child) <= Len(<<>>)
      BY <2>3, <3>1, PrefixOrder, Zenon
    <3> QED BY <2>3, <2>4, <3>1, <3>2
  <2> HIDE DEF dom
  <2>14. DOMAIN new = dom /\ new[<<>>] = t[<<>>]
    BY <2>2, <2>9, <2>12, <2>13, Zenon
  <2>15. dom \subseteq Seq(S)
    BY <1>1, <2>3 DEF dom
  <2>16. Kids(new) \subseteq Kids(t)
    <3>1. p[1] \in Kids(t)
      BY DEF Kids
    <3>2. ASSUME NEW q \in dom, q # <<>> PROVE q[1] \in Kids(t)
      <4>1. CASE q = child
        BY <2>5, <3>1, <4>1
      <4>2. CASE q \in DOMAIN t
        BY <3>2, <4>2 DEF Kids
      <4> QED BY <3>2, <4>1, <4>2 DEF dom
    <3> QED BY <2>14, <3>2, Zenon DEF Kids
  <2>17. ASSUME NEW x \in Kids(new) PROVE <<x>> \in DOMAIN new
    <3>1. x \in S /\ <<x>> \in DOMAIN t
      BY <2>16, <2>17, KidsAre DEF RootedIn
    <3>2. Len(<<x>>) = 1
      BY <3>1, OneStep
    <3>3. ~(Len(<<x>>) > Len(child))
      BY <2>3, <2>4, <3>2
    <3>4. <<x>> \in dom
      BY <2>11, <3>1, <3>3, Zenon DEF dom
    <3> QED BY <2>14, <3>4, Zenon
  <2>18. RootedIn(new, S)
    BY <2>12, <2>14, <2>15, <2>16, <2>17, FewerKids
  <2> QED BY <2>1, <2>18
<1> QED BY <1>2, <1>3

\* operator[] anywhere.
LEMMA ResolveRooted ==
  ASSUME NEW t, Rooted(t), NEW p \in DOMAIN t, NEW s,
         p = <<>> /\ t[<<>>].v.type \in {"null", "array"} => GoodStep(s),
         NEW w, w = resolveReference(t, p, s).tree
  PROVE  Rooted(w)
<1>1. PICK S : RootedIn(t, S)
  BY DEF Rooted
<1> DEFINE R == S \cup {s}
<1>2. S \subseteq R /\ s \in R
  OBVIOUS
<1> HIDE DEF R
<1>3. RootedIn(t, R)
  BY <1>1, <1>2, MoreSteps
<1>4. RootedIn(w, R)
  <2>1. CASE p = <<>>
    BY <1>2, <1>3, <2>1, RootResolved
  <2>2. CASE p # <<>>
    BY <1>2, <1>3, <2>2, DeepResolved
  <2> QED BY <2>1, <2>2
<1> QED BY <1>4 DEF Rooted

\* The steps of member names and of indices are good ones.
LEMMA GoodSteps ==
  ASSUME NEW name, NEW i \in Nat PROVE GoodStep(Key(name)) /\ GoodStep(Idx(i))
<1>1. Box(Key(name)).type = "object"
  BY DEF Box, Key, objectValue
<1> QED BY <1>1 DEF GoodStep

(* ---- the calls ------------------------------------------------------------------------ *)
\* An assignment through operator[] on the root.
LEMMA AssignRooted ==
  ASSUME NEW t, Rooted(t), NEW s, t[<<>>].v.type \in {"null", "array"} => GoodStep(s), NEW v,
         NEW w, w = Assign(t, <<>>, s, Leaf(v)).tree
  PROVE  Rooted(w)
<1>1. PICK S : RootedIn(t, S)
  BY DEF Rooted
<1> DEFINE R == S \cup {s}
           r == resolveReference(t, <<>>, s)
<1>2. S \subseteq R /\ s \in R
  OBVIOUS
<1> HIDE DEF R
<1>3. RootedIn(t, R)
  BY <1>1, <1>2, MoreSteps
<1>4. RootedIn(r.tree, R)
  BY <1>2, <1>3, RootResolved
<1>5. CASE r.thrown
  <2>1. w = r.tree
    BY <1>5 DEF Assign
  <2> QED BY <1>4, <2>1 DEF Rooted
<1>6. CASE ~r.thrown
  <2> HIDE DEF r
  <2>1. Append(<<>>, s) = <<s>>
    BY <1>2, OneStep
  <2>2. w = Replace(r.tree, <<s>>, Leaf(v))
    BY <1>6, <2>1 DEF Assign, Done, r
  <2>3. Child(r.tree[<<>>].v.type, s)
    BY <1>2, <1>3, <1>6, RootResolved DEF r
  <2>4. IsBranch(Leaf(v), R)
    BY <1>2, <1>3, Branches
  <2>5. IsPut(r.tree, s, Leaf(v), w, R)
    BY <1>2, <1>4, <2>2, <2>3, <2>4, PutKeeps
  <2> QED BY <2>5 DEF IsPut, Rooted
<1> QED BY <1>5, <1>6

\* append.
LEMMA AppendRooted ==
  ASSUME NEW t, Rooted(t), NEW v, NEW w, w = append(t, <<>>, Leaf(v)).tree
  PROVE  Rooted(w)
<1> DEFINE n == size(t, <<>>)
<1>1. t[<<>>].v.type = "null" => n = 0
  BY DEF size
<1>2. t[<<>>].v.type = "array" => n \in Nat
  <2>1. PICK S : RootedIn(t, S)
    BY DEF Rooted
  <2> QED BY <2>1, ArraySize DEF IsArray
<1>3. w = Assign(t, <<>>, Idx(n), Leaf(v)).tree
  BY DEF append
<1> HIDE DEF n
<1>4. t[<<>>].v.type \in {"null", "array"} => GoodStep(Idx(n))
  BY <1>1, <1>2, GoodSteps
<1> QED BY <1>3, <1>4, AssignRooted

\* Erasing what is below the root, or some of its children.
LEMMA CutRooted ==
  ASSUME NEW S, NEW t, RootedIn(t, S), NEW G, NEW gone,
         \A q \in DOMAIN t : q \in gone <=> q # <<>> /\ q[1] \in G
  PROVE  Rooted(Without(t, gone))
<1>1. IsCut(t, G, Without(t, gone), S)
  BY CutKeeps
<1> QED BY <1>1 DEF IsCut, Rooted

\* clear.
LEMMA ClearRooted ==
  ASSUME NEW t, Rooted(t), NEW w, w = clear(t, <<>>).tree
  PROVE  Rooted(w)
<1>1. PICK S : RootedIn(t, S)
  BY DEF Rooted
<1>2. DOMAIN t \subseteq Seq(S) /\ Idx(0) \in S
  BY <1>1 DEF RootedIn
<1>3. \A q \in DOMAIN t : q \in Below(t, <<>>) <=> q # <<>> /\ q[1] \in S
  <2>1. SUFFICES ASSUME NEW q \in DOMAIN t PROVE q \in Below(t, <<>>) <=> q # <<>> /\ q[1] \in S
    OBVIOUS
  <2>2. q \in Seq(S) /\ Len(<<>>) = 0
    BY <1>2, EmptySeq
  <2>3. Len(q) \in Nat /\ IsPrefix(<<>>, q) /\ (q = <<>> <=> Len(q) = 0)
    BY <1>2, <2>2, OneStep
  <2>4. q \in Below(t, <<>>) <=> Len(q) > Len(<<>>)
    BY <2>1, <2>3, Zenon DEF Below
  <2>5. q # <<>> => q[1] \in S
    BY <2>2, FirstStep
  <2> QED BY <2>2, <2>3, <2>4, <2>5
<1>4. Rooted(Without(t, Below(t, <<>>)))
  BY <1>1, <1>3, CutRooted
<1>5. w = Without(t, Below(t, <<>>)) \/ w = t
  BY DEF clear, Done, Thrown
<1> QED BY <1>4, <1>5

\* removeMember.
LEMMA RemoveMemberRooted ==
  ASSUME NEW t, Rooted(t), NEW name, NEW w, w = removeMember(t, <<>>, name).tree
  PROVE  Rooted(w)
<1> DEFINE s == Key(name)
<1>1. PICK S : RootedIn(t, S)
  BY DEF Rooted
<1> DEFINE R == S \cup {s}
<1>2. S \subseteq R /\ s \in R
  OBVIOUS
<1> HIDE DEF R, s
<1>3. RootedIn(t, R)
  BY <1>1, <1>2, MoreSteps
<1>4. DOMAIN t \subseteq Seq(R)
  BY <1>3 DEF RootedIn
<1>5. /\ Append(<<>>, s) = <<s>>
      /\ \A q \in DOMAIN t : q \in {<<s>>} \cup Below(t, <<s>>) <=> q # <<>> /\ q[1] \in {s}
  BY <1>2, <1>4, AtAndBelow
<1>6. Rooted(Without(t, {<<s>>} \cup Below(t, <<s>>)))
  BY <1>3, <1>5, CutRooted
<1>7. w = Without(t, {<<s>>} \cup Below(t, <<s>>)) \/ w = t
  BY <1>5, Zenon DEF removeMember, Done, s
<1> QED BY <1>6, <1>7

\* removeIndex.
LEMMA RemoveIndexRooted ==
  ASSUME NEW t, Rooted(t), NEW i \in Nat, NEW w, w = removeIndex(t, <<>>, i).tree
  PROVE  Rooted(w)
<1>1. PICK S : RootedIn(t, S)
  BY DEF Rooted
<1>2. Append(<<>>, Idx(i)) = <<Idx(i)>>
  <2>1. Idx(i) \in S
    BY <1>1 DEF RootedIn
  <2> QED BY <2>1, OneStep
<1>3. CASE t[<<>>].v.type = "array" /\ <<Idx(i)>> \in DOMAIN t
  <2>1. IsArray(w, S)
    BY <1>1, <1>3, RemovedElements DEF IsArray
  <2> QED BY <2>1 DEF IsArray, Rooted
<1>4. CASE ~(t[<<>>].v.type = "array" /\ <<Idx(i)>> \in DOMAIN t)
  <2>1. removeIndex(t, <<>>, i) = Done(t)
    BY <1>2, <1>4, Zenon DEF removeIndex
  <2> QED BY <2>1 DEF Done
<1> QED BY <1>3, <1>4

\* resize: the children behind the new size go, also when it throws.
LEMMA ResizeRooted ==
  ASSUME NEW t, Rooted(t), NEW n \in Nat, NEW w, w = resize(t, <<>>, n).tree
  PROVE  Rooted(w)
<1> DEFINE m == size(t, <<>>)
           gone(b) == UNION {{Append(<<>>, Idx(i))} \cup Below(b, Append(<<>>, Idx(i))) : i \in n..m - 1}
           box == IF t[<<>>].v.type = "null" THEN [t EXCEPT ![<<>>] = Node(arrayValue)] ELSE t
           shrunk == Without(box, gone(t))
<1>1. PICK S : RootedIn(t, S)
  BY DEF Rooted
<1>2. CASE t[<<>>].v.type \notin {"null", "array"}
  <2>1. resize(t, <<>>, n) = Thrown(t)
    BY <1>2, Zenon DEF resize
  <2> QED BY <2>1 DEF Thrown
<1>3. CASE t[<<>>].v.type \in {"null", "array"}
  <2>1. m \in Nat
    <3>1. CASE t[<<>>].v.type = "null"
      BY <3>1 DEF size
    <3>2. CASE t[<<>>].v.type = "array"
      BY <1>1, <3>2, ArraySize DEF IsArray
    <3> QED BY <1>3, <3>1, <3>2
  <2>2. DOMAIN box = DOMAIN t /\ RootedIn(box, S)
    <3>1. CASE t[<<>>].v.type = "null"
      <4>1. Kids(t) = {} /\ <<>> \in DOMAIN t
        BY <1>1, <3>1 DEF RootedIn, Child
      <4>2. DOMAIN box = DOMAIN t
        BY <3>1
      <4> HIDE DEF box
      <4>3. Kids(box) = {}
        BY <4>1, <4>2 DEF Kids
      <4>4. RootedIn(box, S)
        BY <1>1, <4>2, <4>3 DEF RootedIn
      <4> QED BY <4>2, <4>4
    <3>2. CASE t[<<>>].v.type = "array"
      BY <1>1, <3>2
    <3> QED BY <1>3, <3>1, <3>2
  <2> DEFINE r == resolveReference(box, <<>>, Idx(n - 1))
  <2>3. w \in {clear(box, <<>>).tree, shrunk} \/ (n > m /\ w = r.tree)
    <3>1. resize(t, <<>>, n) = IF n = 0 THEN clear(box, <<>>)
                               ELSE IF n > m THEN r
                               ELSE IF size(shrunk, <<>>) = n THEN Done(shrunk) ELSE Thrown(shrunk)
      BY <1>3, Zenon DEF resize
    <3> HIDE DEF box, shrunk, r
    <3> QED BY <3>1 DEF Done, Thrown
  <2> HIDE DEF box, m
  <2>4. Rooted(box)
    BY <2>2 DEF Rooted
  <2>5. Rooted(clear(box, <<>>).tree)
    BY <2>4, ClearRooted
  <2>6. ASSUME n > m PROVE Rooted(r.tree)
    <3>1. n - 1 \in Nat
      BY <2>1, <2>6
    <3>2. Idx(n - 1) \in S /\ GoodStep(Idx(n - 1))
      BY <2>2, <3>1, GoodSteps DEF RootedIn
    <3>3. RootedIn(r.tree, S)
      BY <2>2, <3>2, RootResolved
    <3> QED BY <3>3 DEF Rooted
  <2>7. Rooted(shrunk)
    <3> DEFINE G == {Idx(k) : k \in n..m - 1}
    <3>1. \A q \in DOMAIN box : q \in gone(t) <=> q # <<>> /\ q[1] \in G
      <4>1. SUFFICES ASSUME NEW q \in DOMAIN box PROVE q \in gone(t) <=> q # <<>> /\ q[1] \in G
        OBVIOUS
      <4>2. q \in gone(t) <=> \E k \in n..m - 1 :
                             q \in {Append(<<>>, Idx(k))} \cup Below(t, Append(<<>>, Idx(k)))
        OBVIOUS
      <4>3. ASSUME NEW k \in n..m - 1
            PROVE  q \in {Append(<<>>, Idx(k))} \cup Below(t, Append(<<>>, Idx(k)))
                     <=> q # <<>> /\ q[1] = Idx(k)
        <5>1. k \in Nat
          BY <2>1, <4>3
        <5>2. Idx(k) \in S /\ DOMAIN t \subseteq Seq(S)
          BY <1>1, <5>1 DEF RootedIn
        <5>3. /\ Append(<<>>, Idx(k)) = <<Idx(k)>>
              /\ \A x \in DOMAIN t :
                   x \in {<<Idx(k)>>} \cup Below(t, <<Idx(k)>>) <=> x # <<>> /\ x[1] = Idx(k)
          BY <5>2, AtAndBelow
        <5> QED BY <2>2, <5>3, Zenon
      <4> QED BY <4>2, <4>3
    <3> HIDE DEF gone, G
    <3> QED BY <2>2, <3>1, CutRooted
  <2> HIDE DEF r, shrunk
  <2> QED BY <2>3, <2>5, <2>6, <2>7
<1> QED BY <1>2, <1>3

(* ---- the root of the document stays rooted -------------------------------------------- *)

\* A comment that goes to a value of the tree.
LEMMA CommentOnRooted ==
  ASSUME NEW p, NEW t, NEW ns, NEW op, NEW lv, Good(p, t, ns, op, lv), Rooted(t),
         NEW q \in DOMAIN t, NEW placement
  PROVE  Rooted(setComment(t, q, placement))
<1>1. PICK U : IsTree(t, U)
  BY Zenon DEF Good
<1> DEFINE u == setComment(t, q, placement)
<1>2. DOMAIN u = DOMAIN t /\ \A x \in DOMAIN t : u[x].v = t[x].v
  BY <1>1, CommentKeepsTree
<1> HIDE DEF u
<1>3. Rooted(u)
  BY <1>2, CommentRooted
<1> QED BY <1>3 DEF u

\* A comment that is noted.
LEMMA NotedRooted ==
  ASSUME Rooted(root), Good(pc, root, nodes, open, lastValue), NoteComment PROVE Rooted(root')
<1>1. CASE collectComments /\ SameLine
  <2>1. root' = setComment(root, lastValue, IF look.k = "blank" THEN "blank" ELSE "sameLine")
    BY <1>1 DEF NoteComment
  <2>2. lastValue \in DOMAIN root
    BY <1>1 DEF SameLine, Good, Near
  <2> QED BY <2>1, <2>2, CommentOnRooted
<1>2. CASE ~(collectComments /\ SameLine)
  <2>1. root' = root
    BY <1>2 DEF NoteComment
  <2> QED BY <2>1
<1> QED BY <1>1, <1>2

\* The comments that wait, given to the value that begins.
LEMMA CommentedRooted ==
  ASSUME Rooted(root), Good(pc, root, nodes, open, lastValue) PROVE Rooted(Commented)
<1>1. CASE collectComments /\ commentsBefore
  <2>1. Commented = setComment(root, currentValue, "before")
    BY <1>1 DEF Commented
  <2>2. currentValue \in DOMAIN root
    BY CurrentExists DEF currentValue
  <2> QED BY <2>1, <2>2, CommentOnRooted
<1>2. CASE ~(collectComments /\ commentsBefore)
  BY <1>2 DEF Commented
<1> QED BY <1>1, <1>2

\* The same with a payload in the value.
LEMMA PayloadRooted ==
  ASSUME Rooted(root), Good(pc, root, nodes, open, lastValue), NEW v
  PROVE  Rooted(swapPayload(Commented, currentValue, v))
<1> DEFINE t == Commented
           u == swapPayload(Commented, currentValue, v)
<1>1. Good(pc, t, nodes, open, lastValue)
  BY CommentedIsGood
<1>2. Rooted(t)
  BY CommentedRooted
<1>3. Last(nodes) \in DOMAIN t
  BY <1>1, CurrentExists
<1>4. PICK U : IsTree(t, U)
  BY <1>1, Zenon DEF Good
<1>5. IsSwap(t, Last(nodes), v, u)
  BY DEF IsSwap, currentValue
<1> HIDE DEF t, u
<1>6. Swapped(t, Last(nodes), v, u)
  BY <1>3, <1>4, <1>5, SwapKeepsTree
<1>7. Rooted(u)
  BY <1>2, <1>3, <1>6, SwapRooted
<1> QED BY <1>7 DEF u

\* A member or an element that is made to be read.
LEMMA PushRooted ==
  ASSUME Rooted(root), InCallGood(pc), NEW step, PushChild(step),
         (\E name : step = Key(name)) \/ \E i \in Nat : step = Idx(i)
  PROVE  Rooted(root')
<1>1. root' = resolveReference(root, Last(nodes), step).tree
  BY DEF PushChild, currentValue
<1>2. Last(nodes) \in DOMAIN root
  BY CurrentExists DEF InCallGood
<1>3. GoodStep(step)
  <2>1. ASSUME NEW name, step = Key(name) PROVE GoodStep(step)
    <3>1. 0 \in Nat
      OBVIOUS
    <3> QED BY <2>1, <3>1, GoodSteps
  <2>2. ASSUME NEW i \in Nat, step = Idx(i) PROVE GoodStep(step)
    BY <2>2, GoodSteps
  <2> QED BY <2>1, <2>2
<1> QED BY <1>1, <1>2, <1>3, ResolveRooted

\* The steps inside readObject and readArray.
LEMMA CallRooted ==
  ASSUME Rooted(root), IInv,
         ReadName \/ ReadColon \/ ReadComma \/ ReadFirstElement \/ ReadSeparator \/ Recover
  PROVE  Rooted(root')
<1>1. pc \in InCall
  BY Points DEF ReadName, ReadColon, ReadComma, ReadFirstElement, ReadSeparator, Recover
<1>2. InCallGood(pc)
  BY <1>1, InCallIsGood
<1>3. ASSUME NoteComment PROVE Rooted(root')
  BY <1>2, <1>3, NotedRooted DEF InCallGood
<1>4. ASSUME root' = root PROVE Rooted(root')
  BY <1>4
<1>5. ASSUME ReadColon PROVE Rooted(root')
  <2>1. ASSUME PushChild(Key(Last(open).name)) PROVE Rooted(root')
    BY <1>2, <2>1, PushRooted
  <2> QED BY <1>3, <1>4, <1>5, <2>1 DEF ReadColon, Error
<1>6. ASSUME ReadFirstElement PROVE Rooted(root')
  <2>1. ASSUME PushChild(Idx(0)) PROVE Rooted(root')
    <3>1. 0 \in Nat
      OBVIOUS
    <3> QED BY <1>2, <2>1, <3>1, PushRooted
  <2> QED BY <1>4, <1>6, <2>1 DEF ReadFirstElement, Close
<1>7. ASSUME ReadSeparator PROVE Rooted(root')
  <2>1. ASSUME PushChild(Idx(Last(open).index + 1)) PROVE Rooted(root')
    <3>1. PICK U : Stack(U, root, nodes, open)
      BY <1>2, Zenon DEF Good, InCallGood
    <3>2. Len(open) = Len(nodes)
      BY <1>2, Zenon DEF Good, Levels, InCallGood
    <3>3. Len(open) \in 1..Len(open)
      BY <3>1, <3>2, StackTop
    <3>4. open \in Seq(Frames(U))
      BY <3>1, Zenon DEF Stack
    <3>5. Last(open) \in Frames(U)
      BY <3>3, <3>4, ElementOfSeq DEF Last
    <3>6. Last(open).index + 1 \in Nat
      BY <3>5 DEF Frames
    <3> QED BY <1>2, <2>1, <3>6, PushRooted
  <2> QED BY <1>3, <1>4, <1>7, <2>1 DEF ReadSeparator, SkipComment, ReadComment, Error, Close
<1> QED BY <1>3, <1>4, <1>5, <1>6, <1>7
        DEF ReadName, ReadComma, Recover, SkipComment, ReadComment, Error, Close, Go

\* Every step of the Reader.
LEMMA ReaderRooted ==
  ASSUME Rooted(root), IInv, ReaderStep PROVE Rooted(root')
<1>1. ASSUME pc \notin {"idle", "done", "thrown"} PROVE Good(pc, root, nodes, open, lastValue)
  BY <1>1 DEF IInv, Parsing
<1>2. ASSUME TailComment \/ ValueComment PROVE Rooted(root')
  <2>1. pc \in {"tail", "value"} /\ NoteComment
    BY <1>2 DEF TailComment, ValueComment, SkipComment, ReadComment
  <2> QED BY <1>1, <2>1, NotedRooted
<1>3. ASSUME EndParse PROVE Rooted(root')
  <2>1. /\ pc = "tail"
        /\ root' = IF collectComments /\ commentsBefore THEN setComment(root, <<>>, "after") ELSE root
    BY <1>3 DEF EndParse
  <2>2. Good(pc, root, nodes, open, lastValue)
    BY <1>1, <2>1
  <2>3. <<>> \in DOMAIN root
    BY DEF Rooted, RootedIn
  <2>4. Rooted(setComment(root, <<>>, "after"))
    BY <2>2, <2>3, CommentOnRooted
  <2> QED BY <2>1, <2>4
<1>4. ASSUME OpenContainer \/ ReadScalar \/ DropNull \/ NotAValue PROVE Rooted(root')
  <2>1. pc = "value" /\ (root' = Commented \/ \E v : root' = swapPayload(Commented, currentValue, v))
    BY <1>4 DEF OpenContainer, ReadScalar, DropNull, NotAValue, BeginValue
  <2>2. Good(pc, root, nodes, open, lastValue)
    BY <1>1, <2>1
  <2> QED BY <2>1, <2>2, CommentedRooted, PayloadRooted
<1>5. ASSUME EnterValue \/ EndValue \/ ReturnValue PROVE Rooted(root')
  BY <1>5 DEF EnterValue, EndValue, ReturnValue
<1> QED BY <1>2, <1>3, <1>4, <1>5, CallRooted DEF ReaderStep

\* Every call on the value.
LEMMA EditRooted ==
  ASSUME Rooted(root), EditStep PROVE Rooted(root')
<1>1. Sizes \subseteq Nat
  BY ReaderAssumption
<1>2. ASSUME NEW result, Edit(result) PROVE root' = result.tree
  BY <1>2 DEF Edit
<1>3. ASSUME NEW v, AppendElement(v) PROVE Rooted(root')
  BY <1>2, <1>3, AppendRooted DEF AppendElement
<1>4. ASSUME NEW v, NEW i \in Sizes, AssignIndex(i, v) PROVE Rooted(root')
  <2>1. GoodStep(Idx(i))
    BY <1>1, GoodSteps
  <2>2. root' = Assign(root, <<>>, Idx(i), Leaf(v)).tree
    BY <1>2, <1>4 DEF AssignIndex
  <2> QED BY <2>1, <2>2, AssignRooted
<1>5. ASSUME NEW v, NEW name, AssignMember(name, v) PROVE Rooted(root')
  <2>1. GoodStep(Key(name))
    <3>1. 0 \in Nat
      OBVIOUS
    <3> QED BY <3>1, GoodSteps
  <2>2. root' = Assign(root, <<>>, Key(name), Leaf(v)).tree
    BY <1>2, <1>5 DEF AssignMember
  <2> QED BY <2>1, <2>2, AssignRooted
<1>6. ASSUME NEW n \in Sizes, Resize(n) PROVE Rooted(root')
  <2>1. root' = resize(root, <<>>, n).tree /\ n \in Nat
    BY <1>1, <1>2, <1>6 DEF Resize
  <2> QED BY <2>1, ResizeRooted
<1>7. ASSUME NEW n \in Sizes, RemoveIndex(n) PROVE Rooted(root')
  <2>1. root' = removeIndex(root, <<>>, n).tree /\ n \in Nat
    BY <1>1, <1>2, <1>7 DEF RemoveIndex
  <2> QED BY <2>1, RemoveIndexRooted
<1>8. ASSUME NEW name, RemoveMember(name) PROVE Rooted(root')
  BY <1>2, <1>8, RemoveMemberRooted DEF RemoveMember
<1>9. ASSUME Clear PROVE Rooted(root')
  BY <1>2, <1>9, ClearRooted DEF Clear
<1> QED BY <1>3, <1>4, <1>5, <1>6, <1>7, <1>8, <1>9 DEF EditStep

\* So the root is always that way.
RInv == IInv /\ Rooted(root)

\* It is so before the first document.
LEMMA InitRInv ==
  ASSUME Init PROVE RInv
<1>1. DOMAIN Leaf(nullValue) = {<<>>}
  BY LeafIsTree
<1>2. root = Leaf(nullValue)
  BY DEF Init
<1>3. Rooted(root)
  BY <1>1, <1>2, AloneRooted
<1> QED BY <1>3, InitIInv DEF RInv

\* No step of the Reader and no call changes that.
LEMMA NextRInv ==
  ASSUME RInv, [Next]_vars PROVE RInv'
<1>1. IInv'
  BY NextIInv DEF RInv
<1>2. Rooted(root')
  <2>1. CASE ReaderStep
    BY <2>1, ReaderRooted DEF RInv
  <2>2. CASE EditStep
    BY <2>2, EditRooted DEF RInv
  <2>3. CASE ParseFile \/ ParseWritten
    <3>1. root' = Leaf(nullValue)
      BY <2>3 DEF ParseFile, ParseWritten, Parse
    <3>2. DOMAIN root' = {<<>>}
      BY <3>1, LeafIsTree
    <3> QED BY <3>2, AloneRooted
  <2>4. CASE Arrive
    <3>1. root' = root
      BY <2>4 DEF Arrive
    <3> QED BY <3>1 DEF RInv
  <2>5. CASE UNCHANGED vars
    <3>1. root' = root
      BY <2>5 DEF vars
    <3> QED BY <3>1 DEF RInv
  <2> QED BY <2>1, <2>2, <2>3, <2>4, <2>5 DEF Next
<1>3. Rooted(root)'
  BY <1>2 DEF Rooted, RootedIn, Kids
<1> QED BY <1>1, <1>3 DEF RInv

(* ---- an array is a sequence ------------------------------------------------------------ *)
\* An array that is padded keeps what it has; an assignment is one in the padded sequence.
LEMMA AssignedElements ==
  ASSUME NEW S, NEW t, IsArray(t, S), NEW i \in Nat, NEW v, NEW w, w = Assign(t, <<>>, Idx(i), Leaf(v)).tree
  PROVE  Elements(w) = [Padded(Elements(t), Max({i + 1, size(t, <<>>)})) EXCEPT ![i + 1] = Leaf(v)]
<1> DEFINE n == size(t, <<>>)
           m == IF i < n THEN n ELSE i + 1
           e == Padded(Elements(t), m)
<1>1. n \in Nat
  BY ArraySize
<1>2. m \in Nat /\ m >= n /\ m > i /\ (m = n \/ m = i + 1) /\ m \in {i + 1, n} /\ m >= i + 1
  BY <1>1
<1>3. Max({i + 1, n}) = m
  <2>1. {i + 1, n} \subseteq Int /\ \A y \in {i + 1, n} : y <= m
    BY <1>1, <1>2
  <2> HIDE DEF m
  <2> QED BY <1>2, <2>1, GreatestIs
<1> HIDE DEF m, n
<1>4. HasPut(t, i, Leaf(v), m, w)
  BY <1>2, AssignIsExcept DEF n
<1>5. e = [k \in 1..m |-> Elem(t, k - 1)]
  BY <1>2, PaddedElements
<1>6. i + 1 \in 1..m
  BY <1>2
<1> HIDE DEF e
<1>7. [e EXCEPT ![i + 1] = Leaf(v)] = [k \in 1..m |-> IF k = i + 1 THEN Leaf(v) ELSE Elem(t, k - 1)]
  <2>1. DOMAIN e = 1..m /\ \A k \in 1..m : e[k] = Elem(t, k - 1)
    BY <1>5
  <2>2. [e EXCEPT ![i + 1] = Leaf(v)] = [k \in DOMAIN e |-> IF k = i + 1 THEN Leaf(v) ELSE e[k]]
    OBVIOUS
  <2> QED BY <2>1, <2>2
<1>8. Elements(w) = [e EXCEPT ![i + 1] = Leaf(v)]
  BY <1>4, <1>7, Zenon DEF HasPut
<1> QED BY <1>3, <1>8, Zenon DEF e, n

\* What a step does to a root that is an array: what the call of a sequence would.
SequenceStep ==
  root[<<>>].v.type = "array" /\ edits' # edits =>
    /\ \A i \in Sizes : RemoveIndex(i) /\ <<Idx(i)>> \in DOMAIN root =>
         size(root', <<>>) < size(root, <<>>)
           /\ Padded(Elements(root'), size(root, <<>>) - 1) = RemoveAt(Elements(root), i + 1)
    /\ \A v \in Leaves : AppendElement(v) => Elements(root') = Append(Elements(root), Leaf(v))
    /\ \A n \in Sizes :
         Resize(n) /\ ~resize(root, <<>>, n).thrown => Elements(root') = Padded(Elements(root), n)
    /\ \A v \in Leaves, i \in Sizes : AssignIndex(i, v) =>
         Elements(root') = [Padded(Elements(root), Max({i + 1, size(root, <<>>)})) EXCEPT ![i + 1] = Leaf(v)]

\* Every call on a rooted value does that.
LEMMA CallsAreOnSequence ==
  ASSUME RInv PROVE SequenceStep
<1>1. SUFFICES ASSUME root[<<>>].v.type = "array" PROVE SequenceStep
  BY DEF SequenceStep
<1>2. PICK S : IsArray(root, S)
  BY <1>1 DEF RInv, Rooted, IsArray
<1>3. Sizes \subseteq Nat
  BY ReaderAssumption
<1>4. ASSUME NEW result, Edit(result) PROVE root' = result.tree
  BY <1>4 DEF Edit
<1>5. ASSUME NEW i \in Sizes, RemoveIndex(i), <<Idx(i)>> \in DOMAIN root
      PROVE  /\ size(root', <<>>) < size(root, <<>>)
             /\ Padded(Elements(root'), size(root, <<>>) - 1) = RemoveAt(Elements(root), i + 1)
  <2>1. root' = removeIndex(root, <<>>, i).tree /\ i \in Nat
    BY <1>3, <1>4, <1>5 DEF RemoveIndex
  <2> QED BY <1>2, <1>5, <2>1, RemoveIsRemoveAt
<1>6. ASSUME NEW v \in Leaves, AppendElement(v)
      PROVE  Elements(root') = Append(Elements(root), Leaf(v))
  <2>1. root' = append(root, <<>>, Leaf(v)).tree
    BY <1>4, <1>6 DEF AppendElement
  <2> QED BY <1>2, <2>1, AppendIsAppend
<1>7. ASSUME NEW n \in Sizes, Resize(n), ~resize(root, <<>>, n).thrown
      PROVE  Elements(root') = Padded(Elements(root), n)
  <2>1. root' = resize(root, <<>>, n).tree /\ n \in Nat
    BY <1>3, <1>4, <1>7 DEF Resize
  <2> QED BY <1>2, <1>7, <2>1, ResizeIsPadded
<1>8. ASSUME NEW v \in Leaves, NEW i \in Sizes, AssignIndex(i, v)
      PROVE  Elements(root') =
               [Padded(Elements(root), Max({i + 1, size(root, <<>>)})) EXCEPT ![i + 1] = Leaf(v)]
  <2>1. root' = Assign(root, <<>>, Idx(i), Leaf(v)).tree /\ i \in Nat
    BY <1>3, <1>4, <1>8 DEF AssignIndex
  <2> QED BY <1>2, <2>1, AssignedElements
<1> QED BY <1>5, <1>6, <1>7, <1>8 DEF SequenceStep

\* jsoncpp.cc, Value: for every document that was read, and however many calls changed it, an
\* array is a sequence to append, resize, the assignment through operator[] and removeIndex.
THEOREM ArrayIsASequenceHolds == Spec => ArrayIsASequence
<1>1. Init => RInv
  BY InitRInv
<1>2. RInv /\ [Next]_vars => RInv'
  BY NextRInv
<1>3. RInv /\ [Next]_vars => [SequenceStep]_vars
  BY CallsAreOnSequence
<1> QED BY <1>1, <1>2, <1>3, PTL DEF Spec, ArrayIsASequence, SequenceStep
=============================================================================
