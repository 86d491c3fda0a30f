----------------------------- MODULE JsonWriter -----------------------------
(***************************************************************************)
(* FastWriter and StyledWriter of jsoncpp, as the sequence of tokens of    *)
(* the document they write.  A token has its kind, its text if it is a     *)
(* number or a string, and whether a line break comes before it.  Of the   *)
(* text of a comment only its kind is kept, and whether it ends in a blank *)
(* (it has no NUL); the indentation and the 74-column limit that only      *)
(* decides between two layouts are left out.                               *)
(***************************************************************************)
EXTENDS JsonValue

Token(kind, text, nl) == [k |-> kind, s |-> text, nl |-> nl]
Mark(kind, nl) == Token(kind, <<>>, nl)
\* Comments: a /* */ on one line, one over two lines, a //, and a // that ends in a blank.
LineComments == {"cpp", "blank"}
Comments == {"c", "cnl"} \cup LineComments
\* Written text is one token if the scanner takes all of it.
NumberToken(text, nl) == Token(IF readNumber(text) = Len(text) THEN "number" ELSE "bad", text, nl)
StringToken(text, nl) == Token(IF readString(text) = Len(text) THEN "string" ELSE "bad", text, nl)

Scalar(v, nl) == CASE v.type = "null" -> Mark("null", nl)
                   [] v.type = "bool" -> Mark(IF v.n = 1 THEN "true" ELSE "false", nl)
                   [] v.type \in {"int", "uint", "real"} -> NumberToken(valueToString(v), nl)
                   [] v.type = "string" -> StringToken(valueToQuotedStringN(v.s), nl)
Listed(parts) == FlattenSeq([k \in 1 .. Len(parts) |-> IF k = 1 THEN parts[k] ELSE <<Mark(",", FALSE)>> \o parts[k]])

\* The values below are written on the way: a hole of an array is a null.
FastWriter(t) ==
  LET Written[p \in DOMAIN t] ==
        LET v == t[p].v
            names == getMemberNames(t, p)
            Child(step) == IF Append(p, step) \in DOMAIN t THEN Written[Append(p, step)] ELSE <<Mark("null", FALSE)>>
        IN CASE v.type = "array" ->
                  <<Mark("[", FALSE)>> \o Listed([k \in 1 .. size(t, p) |-> Child(Idx(k - 1))]) \o <<Mark("]", FALSE)>>
             [] v.type = "object" ->
                  <<Mark("{", FALSE)>> \o Listed([k \in DOMAIN names |->
                       <<StringToken(valueToQuotedStringN(names[k]), FALSE), Mark(":", FALSE)>> \o Child(Key(names[k]))])
                  \o <<Mark("}", FALSE)>>
             [] OTHER -> <<Scalar(v, FALSE)>>
  IN Written[<<>>]

CommentsOf(t, p) == IF p \in DOMAIN t THEN t[p].c ELSE {}
CommentBefore(t, p) == IF "before" \in CommentsOf(t, p) THEN <<Mark("c", TRUE)>> ELSE <<>>
\* A // needs the line break that comes with the next thing written.
CommentAfterOnSameLine(t, p) == (IF "sameLine" \in CommentsOf(t, p) THEN <<Mark("cpp", FALSE)>> ELSE <<>>)
                                \o (IF "blank" \in CommentsOf(t, p) THEN <<Mark("blank", FALSE)>> ELSE <<>>)
                                \o (IF "after" \in CommentsOf(t, p) THEN <<Mark("c", TRUE)>> ELSE <<>>)
\* One line unless an element has elements or a comment.
isMultilineArray(t, p) == \E k \in 1 .. size(t, p) : LET q == Append(p, Idx(k - 1))
                                                     IN q \in DOMAIN t /\ (size(t, q) > 0 \/ t[q].c # {})
\* What a reader finds of the tokens s, each with the line break asked for.  writeIndent takes
\* a last character ' ' for indentation and breaks no line behind it (before other comments the
\* line is broken without asking), and a // takes whatever else is on its line.
Printed(s) ==
  LET Breaks(k) == s[k].nl /\ ~(k > 1 /\ s[k - 1].k = "blank" /\ s[k].k \notin Comments)
      LineFrom(k) == {j \in k .. Len(s) : \A i \in k + 1 .. j : ~Breaks(i)}
      taken == UNION {LineFrom(k) \ {k} : k \in {j \in 1 .. Len(s) : s[j].k \in LineComments}}
      Kind(k) == IF s[k].k = "blank" /\ s[Max(LineFrom(k))].k # "blank" THEN "cpp" ELSE s[k].k
      Found(k) == [s[k] EXCEPT !.k = Kind(k), !.nl = Breaks(k)]
  IN FlattenSeq([k \in 1 .. Len(s) |-> IF k \in taken THEN <<>> ELSE <<Found(k)>>])

\* On lines of their own: the comma comes before the comment on the same line.
Lines(t, children, Written(_)) ==
  FlattenSeq([k \in 1 .. Len(children) |->
     CommentBefore(t, children[k]) \o Written(k)
     \o (IF k < Len(children) THEN <<Mark(",", FALSE)>> ELSE <<>>) \o CommentAfterOnSameLine(t, children[k])])

StyledWriter(t) ==
  LET Written[p \in DOMAIN t, nl \in BOOLEAN] ==
        LET v == t[p].v
            names == getMemberNames(t, p)
            elements == [k \in 1 .. size(t, p) |-> Append(p, Idx(k - 1))]
            members == [k \in DOMAIN names |-> Append(p, Key(names[k]))]
            Child(q, broken) == IF q \in DOMAIN t THEN Written[q, broken] ELSE <<Mark("null", broken)>>
            Element(k) == Child(elements[k], TRUE)
            Member(k) == <<StringToken(valueToQuotedString(names[k]), TRUE), Mark(":", FALSE)>> \o Child(members[k], FALSE)
        IN CASE v.type = "array" /\ isMultilineArray(t, p) ->
                  <<Mark("[", nl)>> \o Lines(t, elements, Element) \o <<Mark("]", TRUE)>>
             [] v.type = "array" /\ ~isMultilineArray(t, p) ->
                  <<Mark("[", nl)>> \o Listed([k \in DOMAIN elements |-> Child(elements[k], FALSE)]) \o <<Mark("]", FALSE)>>
             [] v.type = "object" -> <<Mark("{", nl)>> \o Lines(t, members, Member) \o <<Mark("}", names # <<>>)>>
             [] OTHER -> <<Scalar(v, nl)>>
  IN Printed(CommentBefore(t, <<>>) \o Written[<<>>, CommentBefore(t, <<>>) # <<>>] \o CommentAfterOnSameLine(t, <<>>))
=============================================================================
