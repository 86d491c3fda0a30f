----------------------------- MODULE JsonValue -----------------------------
(***************************************************************************)
(* Json::Value.  A value with everything below it is a tree: a function    *)
(* from paths to nodes, a node being a payload and the placements at which *)
(* it has a comment.  A step of a path is a member name or an array index: *)
(* jsoncpp keeps arrays as maps too, so an array may have holes.           *)
(* An accessor gives the set of the results it may return: none when it    *)
(* throws, several when the result is undefined.  A call that changes a    *)
(* tree gives the tree it leaves and whether it threw.                     *)
(***************************************************************************)
EXTENDS JsonText

\* "blank" is the placement sameLine of a // comment whose last character is a blank.
SameLinePlacement == {"sameLine", "blank"}
Placement == {"before", "after"} \cup SameLinePlacement
Key(s) == [key |-> s, index |-> -1]
Idx(i) == [key |-> <<>>, index |-> i]

Node(v) == [v |-> v, c |-> {}]
Leaf(v) == [p \in {<<>>} |-> Node(v)]
Done(t) == [tree |-> t, thrown |-> FALSE]
Thrown(t) == [tree |-> t, thrown |-> TRUE]

Below(t, p) == {q \in DOMAIN t : Len(q) > Len(p) /\ IsPrefix(p, q)}
Steps(t, p) == {q[Len(p) + 1] : q \in Below(t, p)}
Without(t, gone) == [q \in DOMAIN t \ gone |-> t[q]]
Subtree(t, p) == [q \in {SubSeq(r, Len(p) + 1, Len(r)) : r \in Below(t, p) \cup {p}} |-> t[p \o q]]
Replace(t, p, u) == [q \in (DOMAIN t \ Below(t, p)) \cup {p \o r : r \in DOMAIN u} |->
                       IF IsPrefix(p, q) THEN u[SubSeq(q, Len(p) + 1, Len(q))] ELSE t[q]]

(* ---- changing a tree ------------------------------------------------------- *)
\* The payload goes, and everything it owned; the comments stay with the value.
swapPayload(t, p, v) == [Without(t, Below(t, p)) EXCEPT ![p].v = v]

\* A value has one comment at each placement: a new one takes the place of the old.
setComment(t, p, placement) ==
  [t EXCEPT ![p].c = (IF placement \in SameLinePlacement THEN @ \ SameLinePlacement ELSE @) \cup {placement}]

\* operator[]: a null value becomes a container (a new one, without the old comments).
Box(step) == IF step.index >= 0 THEN arrayValue ELSE objectValue
resolveReference(t, p, step) ==
  IF t[p].v.type \notin {"null", Box(step).type} THEN Thrown(t)
  ELSE LET box == IF t[p].v.type = "null" THEN [t EXCEPT ![p] = Node(Box(step))] ELSE t
       IN Done(IF Append(p, step) \in DOMAIN t THEN t ELSE Replace(box, Append(p, step), Leaf(nullValue)))

\* (*this)[step] = value
Assign(t, p, step, u) ==
  LET r == resolveReference(t, p, step)
  IN IF r.thrown THEN r ELSE Done(Replace(r.tree, Append(p, step), u))

\* The size of an array is its highest index + 1.
size(t, p) ==
  CASE t[p].v.type = "array"  -> IF Steps(t, p) = {} THEN 0 ELSE Max({s.index : s \in Steps(t, p)}) + 1
    [] t[p].v.type = "object" -> Cardinality(Steps(t, p))
    [] OTHER -> 0

append(t, p, u) == Assign(t, p, Idx(size(t, p)), u)

clear(t, p) == IF t[p].v.type \in {"null", "array", "object"} THEN Done(Without(t, Below(t, p))) ELSE Thrown(t)

\* Shrinking erases the indices from newSize on, and then asserts the size: with a hole
\* at newSize - 1 it throws, the elements being gone already.
resize(t, p, newSize) ==
  LET gone == UNION {{Append(p, Idx(i))} \cup Below(t, Append(p, Idx(i))) : i \in newSize .. size(t, p) - 1}
      box == IF t[p].v.type = "null" THEN [t EXCEPT ![p] = Node(arrayValue)] ELSE t
      shrunk == Without(box, gone)
  IN IF t[p].v.type \notin {"null", "array"} THEN Thrown(t)
     ELSE IF newSize = 0 THEN clear(box, p)
     ELSE IF newSize > size(t, p) THEN resolveReference(box, p, Idx(newSize - 1))
     ELSE IF size(shrunk, p) = newSize THEN Done(shrunk) ELSE Thrown(shrunk)

removeMember(t, p, key) ==
  LET q == Append(p, Key(key))
  IN Done(IF t[p].v.type = "object" THEN Without(t, {q} \cup Below(t, q)) ELSE t)

\* The leftover behind the shifted elements is not erased.
removeIndex_NoEraseMutant(t, p, i) ==
  IF t[p].v.type # "array" \/ Append(p, Idx(i)) \notin DOMAIN t THEN Done(t)
  ELSE LET old == size(t, p)
           Moved(u, k) == Replace(u, Append(p, Idx(k)),
                                  IF Append(p, Idx(k + 1)) \in DOMAIN t THEN Subtree(t, Append(p, Idx(k + 1))) ELSE Leaf(nullValue))
       IN Done(FoldLeft(Moved, t, [k \in 1 .. old - 1 - i |-> i + k - 1]))

\* The later elements move down one place, a hole among them becoming a null, and the last goes.
removeIndex(t, p, i) ==
  IF t[p].v.type # "array" \/ Append(p, Idx(i)) \notin DOMAIN t THEN Done(t)
  ELSE LET old == size(t, p)
           At(k) == Append(p, Idx(k))
           Moved(u, k) == Replace(u, At(k), IF At(k + 1) \in DOMAIN t THEN Subtree(t, At(k + 1)) ELSE Leaf(nullValue))
           moved == FoldLeft(Moved, t, [k \in 1 .. old - 1 - i |-> i + k - 1])
       IN Done(Without(moved, {At(old - 1)} \cup Below(moved, At(old - 1))))

(* ---- reading a tree --------------------------------------------------------- *)
\* Members are kept in the order of their names' bytes, a prefix first.
NameLess(a, b) == \/ IsPrefix(a, b) /\ a # b
                  \/ \E k \in 1 .. Len(a) : /\ k <= Len(b) /\ a[k] < b[k]
                                            /\ \A j \in 1 .. k - 1 : a[j] = b[j]
getMemberNames(t, p) == SetToSortSeq({s.key : s \in Steps(t, p)}, NameLess)

\* operator[] const and get: a missing value reads as null, or as the default.
At(t, p, step) == IF Append(p, step) \in DOMAIN t THEN Subtree(t, Append(p, step)) ELSE Leaf(nullValue)
get(t, p, key, default) ==
  IF t[p].v.type \notin {"null", "object"} THEN {}
  ELSE {IF Append(p, Key(key)) \in DOMAIN t THEN t[Append(p, Key(key))].v ELSE default}

(* ---- the accessors ----------------------------------------------------------- *)
InRange(h, min, max) == h >= Double(2 * min, 1) /\ h <= Double(2 * max, 1)
Whole(h) == h % 2 = 0
\* A double cast to an integer of the given range: cut towards zero, undefined outside it.
Cast(h, min, max) == LET n == IF h < 0 THEN -((-h) \div 2) ELSE h \div 2
                     IN IF n \in min .. max THEN {n} ELSE min .. max

isInt(v) == \/ v.type = "int" /\ v.n \in minInt .. maxInt
            \/ v.type = "uint" /\ v.n <= maxInt
            \/ v.type = "real" /\ InRange(v.n, minInt, maxInt) /\ Whole(v.n)
isUInt(v) == \/ v.type \in {"int", "uint"} /\ v.n \in 0 .. maxUInt
             \/ v.type = "real" /\ InRange(v.n, 0, maxUInt) /\ Whole(v.n)
\* The largest integers are not doubles: a double must be strictly below the rounded limit.
isInt64(v) == \/ v.type = "int"
              \/ v.type = "uint" /\ v.n <= maxLargestInt
              \/ v.type = "real" /\ v.n >= Double(2 * minLargestInt, 1) /\ v.n < Double(2 * maxLargestInt, 1) /\ Whole(v.n)
isUInt64(v) == \/ v.type = "int" /\ v.n >= 0
               \/ v.type = "uint"
               \/ v.type = "real" /\ v.n >= 0 /\ v.n < Double(2 * maxLargestUInt, 1) /\ Whole(v.n)
isNumeric(v) == isInt64(v) \/ isUInt64(v) \/ v.type = "real"

\* null and booleans are 0 and 1 to every numeric accessor.
asInt(v) == CASE v.type \in {"int", "uint"} -> IF isInt(v) THEN {v.n} ELSE {}
              [] v.type = "real" -> IF InRange(v.n, minInt, maxInt) THEN Cast(v.n, minInt, maxInt) ELSE {}
              [] v.type \in {"null", "bool"} -> {v.n}
              [] OTHER -> {}
asUInt(v) == CASE v.type \in {"int", "uint"} -> IF isUInt(v) THEN {v.n} ELSE {}
               [] v.type = "real" -> IF InRange(v.n, 0, maxUInt) THEN Cast(v.n, 0, maxUInt) ELSE {}
               [] v.type \in {"null", "bool"} -> {v.n}
               [] OTHER -> {}
asInt64(v) == CASE v.type = "int" -> {v.n}
                [] v.type = "uint" -> IF isInt64(v) THEN {v.n} ELSE {}
                [] v.type = "real" -> IF InRange(v.n, minLargestInt, maxLargestInt)
                                      THEN Cast(v.n, minLargestInt, maxLargestInt) ELSE {}
                [] v.type \in {"null", "bool"} -> {v.n}
                [] OTHER -> {}
asUInt64(v) == CASE v.type = "uint" -> {v.n}
                 [] v.type = "int" -> IF isUInt64(v) THEN {v.n} ELSE {}
                 [] v.type = "real" -> IF InRange(v.n, 0, maxLargestUInt) THEN Cast(v.n, 0, maxLargestUInt) ELSE {}
                 [] v.type \in {"null", "bool"} -> {v.n}
                 [] OTHER -> {}
asDouble(v) == CASE v.type \in {"int", "uint"} -> {Double(2 * v.n, 1)}
                 [] v.type = "real" -> {v.n}
                 [] v.type \in {"null", "bool"} -> {2 * v.n}
                 [] OTHER -> {}
asBool(v) == IF v.type \in {"null", "bool", "int", "uint", "real"} THEN {v.n # 0} ELSE {}
asString(v) == CASE v.type = "null" -> {<<>>}
                 [] v.type = "string" -> {v.s}
                 [] v.type = "bool" -> {IF v.n = 1 THEN <<116, 114, 117, 101>> ELSE <<102, 97, 108, 115, 101>>}
                 [] v.type \in {"int", "uint", "real"} -> {valueToString(v)}
                 [] OTHER -> {}
asCString(v) == IF v.type = "string" THEN {CString(v.s)} ELSE {}

\* isInt64 is asked in the place of isInt.
isConvertibleTo_WidthMutant(t, p, type) ==
  LET v == t[p].v
      scalar == v.type \in {"bool", "null"}
  IN CASE type = "null" -> \/ isNumeric(v) /\ asDouble(v) = {0}
                           \/ v.type \in {"bool", "string"} /\ v.n = 0 /\ v.s = <<>>
                           \/ v.type \in {"array", "object"} /\ size(t, p) = 0
                           \/ v.type = "null"
       [] type = "int" -> isInt64(v) \/ (v.type = "real" /\ InRange(v.n, minInt, maxInt)) \/ scalar
       [] type = "uint" -> isUInt(v) \/ (v.type = "real" /\ InRange(v.n, 0, maxUInt)) \/ scalar
       [] type \in {"real", "bool"} -> isNumeric(v) \/ scalar
       [] type = "string" -> isNumeric(v) \/ scalar \/ v.type = "string"
       [] type \in {"array", "object"} -> v.type \in {type, "null"}

isConvertibleTo(t, p, type) ==
  LET v == t[p].v
      scalar == v.type \in {"bool", "null"}
  IN CASE type = "null" -> \/ isNumeric(v) /\ asDouble(v) = {0}
                           \/ v.type \in {"bool", "string"} /\ v.n = 0 /\ v.s = <<>>
                           \/ v.type \in {"array", "object"} /\ size(t, p) = 0
                           \/ v.type = "null"
       [] type = "int" -> isInt(v) \/ (v.type = "real" /\ InRange(v.n, minInt, maxInt)) \/ scalar
       [] type = "uint" -> isUInt(v) \/ (v.type = "real" /\ InRange(v.n, 0, maxUInt)) \/ scalar
       [] type \in {"real", "bool"} -> isNumeric(v) \/ scalar
       [] type = "string" -> isNumeric(v) \/ scalar \/ v.type = "string"
       [] type \in {"array", "object"} -> v.type \in {type, "null"}
=============================================================================
