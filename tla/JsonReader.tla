----------------------------- MODULE JsonReader -----------------------------
(***************************************************************************)
(* Json::Reader: the reading of documents into a Value, one action per     *)
(* token a handler consumes, and the use of the value afterwards.          *)
(* A document comes from a file, token by token, or from a writer.         *)
(*   nodes    the stack nodes_ of the values being read (paths in root)    *)
(*   open     the calls of readObject and readArray not yet returned from  *)
(*   pc       where the innermost call stands                              *)
(*   look     the next token of the document, once it is known             *)
(* lineBroken says whether a line break follows lastValueEnd_.             *)
(***************************************************************************)
EXTENDS JsonWriter, Profile

CONSTANTS Phrases,      \* the sequences of tokens a file is made of
          FeatureSets,  \* the features a Reader is created with
          StackLimit,   \* stackLimit_g
          Leaves, Names, Sizes,   \* arguments of the calls that change a value
          MaxPhrases, MaxParses, MaxEdits, MaxWork   \* MaxWork: phrases and calls together

ASSUME ReaderAssumption == {StackLimit, MaxPhrases, MaxParses, MaxEdits, MaxWork} \subseteq Nat /\ Sizes \subseteq Nat

VARIABLES features, root, nodes, open, pc, look, ok, errors, stackDepth, commentsBefore, lastValue, lineBroken,
          input, original, source, phrases, parses, edits

reader == <<nodes, open, ok, errors, stackDepth, commentsBefore, lastValue, lineBroken>>
document == <<input, original, source, phrases, parses>>
vars == <<features, root, pc, look, edits, reader, document>>

NoToken == Mark("none", FALSE)
End == Mark("end", FALSE)
NoPath == <<Idx(-2)>>     \* a null lastValue_: a member has index -1, an element none below 0

Init == /\ features \in FeatureSets
        /\ root = Leaf(nullValue) /\ nodes = <<>> /\ open = <<>> /\ pc = "idle" /\ look = NoToken
        /\ ok = FALSE /\ errors = 0 /\ stackDepth = 0
        /\ commentsBefore = FALSE /\ lastValue = NoPath /\ lineBroken = FALSE
        /\ input = <<>> /\ original = Leaf(nullValue) /\ source = "none"
        /\ phrases = 0 /\ parses = 0 /\ edits = 0

collectComments == features.allowComments
currentValue == Last(nodes)
Frame(kind) == [kind |-> kind, name |-> <<>>, index |-> 0]

(* ---- tokens ------------------------------------------------------------------- *)
Reading == pc \in {"value", "element", "sep", "name", "colon", "comma", "lateComma", "recover", "tail"}

\* The next token of the document becomes known; a file goes on with any phrase.
Arrive == /\ Reading /\ look = NoToken
          /\ \/ input # <<>> /\ look' = Head(input) /\ input' = Tail(input) /\ phrases' = phrases
             \/ input = <<>> /\ look' = End /\ UNCHANGED <<input, phrases>>
             \/ /\ input = <<>> /\ source = "file" /\ phrases < MaxPhrases /\ phrases' = phrases + 1
                /\ \E phrase \in Phrases : look' = Head(phrase) /\ input' = Tail(phrase)
          /\ UNCHANGED <<features, root, pc, edits, reader, original, source, parses>>

\* The end of the document is read again and again.
Consume == /\ look # NoToken /\ look' = (IF look = End THEN End ELSE NoToken)
           /\ UNCHANGED <<features, edits, document>>
Breaks == lineBroken \/ look.nl \/ look.k \in {"cnl"} \cup LineComments

\* A comment goes to the value that ended on its line, or waits for the next value.
SameLine == lastValue # NoPath /\ ~lineBroken /\ ~look.nl /\ look.k # "cnl"
NoteComment ==
  /\ look.k \in Comments /\ Consume /\ lineBroken' = Breaks
  /\ root' = IF collectComments /\ SameLine
             THEN setComment(root, lastValue, IF look.k = "blank" THEN "blank" ELSE "sameLine") ELSE root
  /\ commentsBefore' = (commentsBefore \/ (collectComments /\ ~SameLine))
  /\ UNCHANGED <<nodes, open, ok, stackDepth, lastValue>>
ReadComment == NoteComment /\ errors' = errors
SkipComment == ReadComment /\ pc' = pc
\* Any other token.
ReadToken == look.k \notin Comments /\ Consume /\ lineBroken' = Breaks

(* ---- parse ---------------------------------------------------------------------- *)
\* lastValue_ of the document before is kept.
Parse_StaleValueMutant ==
  /\ pc \in {"idle", "done", "thrown"} /\ parses < MaxParses /\ parses' = parses + 1
  /\ lineBroken' = FALSE /\ commentsBefore' = FALSE /\ errors' = 0 /\ stackDepth' = 0
  /\ root' = Leaf(nullValue) /\ nodes' = <<<<>>>> /\ open' = <<>> /\ pc' = "enter" /\ look' = NoToken
  /\ UNCHANGED <<features, ok, lastValue, phrases, edits>>

\* The members are set anew, whatever a call before left, and the root is pushed.
Parse ==
  /\ pc \in {"idle", "done", "thrown"} /\ parses < MaxParses /\ parses' = parses + 1
  /\ lastValue' = NoPath /\ lineBroken' = FALSE /\ commentsBefore' = FALSE /\ errors' = 0 /\ stackDepth' = 0
  /\ root' = Leaf(nullValue) /\ nodes' = <<<<>>>> /\ open' = <<>> /\ pc' = "enter" /\ look' = NoToken
  /\ UNCHANGED <<features, ok, phrases, edits>>
ParseFile == Parse /\ source' = "file" /\ input' = <<>> /\ original' = original
ParseWritten == /\ pc = "done" /\ ok
                /\ Parse /\ original' = root /\ source' \in {"fast", "styled"}
                /\ input' = IF source' = "styled" THEN StyledWriter(root) ELSE FastWriter(root)

\* After the root value: comments, and the one token after them, which may be any.
EndParse ==
  /\ pc = "tail" /\ (features.allowComments => look.k \notin Comments) /\ Consume
  /\ root' = IF collectComments /\ commentsBefore THEN setComment(root, <<>>, "after") ELSE root
  /\ LET refused == features.strictRoot /\ root[<<>>].v.type \notin {"array", "object"}
     IN ok' = (ok /\ ~refused) /\ errors' = errors + (IF refused THEN 1 ELSE 0)
  /\ pc' = "done"
  /\ UNCHANGED <<nodes, open, stackDepth, commentsBefore, lastValue, lineBroken>>
TailComment == pc = "tail" /\ features.allowComments /\ SkipComment

(* ---- readValue ------------------------------------------------------------------- *)
EnterValue == /\ pc = "enter"
              /\ IF stackDepth >= StackLimit THEN pc' = "thrown" /\ stackDepth' = stackDepth
                 ELSE pc' = "value" /\ stackDepth' = stackDepth + 1
              /\ UNCHANGED <<features, root, look, edits, nodes, open, ok, errors, commentsBefore, lastValue, lineBroken, document>>

ValueComment == pc = "value" /\ features.allowComments /\ SkipComment
\* The comments waiting go to the value that begins.
Commented == IF collectComments /\ commentsBefore THEN setComment(root, currentValue, "before") ELSE root
BeginValue == /\ pc = "value" /\ look # NoToken
              /\ commentsBefore' = (commentsBefore /\ ~collectComments)

OpenContainer == /\ BeginValue /\ look.k \in {"{", "["} /\ ReadToken
                 /\ root' = swapPayload(Commented, currentValue, IF look.k = "{" THEN objectValue ELSE arrayValue)
                 /\ open' = Append(open, Frame(IF look.k = "{" THEN "object" ELSE "array"))
                 /\ pc' = IF look.k = "{" THEN "name" ELSE "element"
                 /\ UNCHANGED <<nodes, ok, errors, stackDepth, lastValue>>

Decoded(token) == CASE token.k = "number" -> decodeNumber(token.s)
                    [] token.k = "string" -> decodeString(token.s)
                    [] token.k = "null" -> nullValue
                    [] OTHER -> booleanValue(token.k = "true")
ReadScalar == /\ BeginValue /\ look.k \in {"true", "false", "null", "number", "string"} /\ ReadToken
              /\ \E v \in {Decoded(look)} :
                    /\ root' = IF v = NoValue THEN Commented ELSE swapPayload(Commented, currentValue, v)
                    /\ ok' = (v # NoValue) /\ errors' = errors + (IF v = NoValue THEN 1 ELSE 0)
              /\ pc' = "end"
              /\ UNCHANGED <<nodes, open, stackDepth, lastValue>>

\* With dropped nulls allowed a separator is put back and the value is null; its end is
\* where the separator begins, behind any line break.
Dropped == features.allowDroppedNullPlaceholders /\ look.k \in {",", "}", "]"}
DropNull == /\ BeginValue /\ Dropped
            /\ root' = swapPayload(Commented, currentValue, nullValue)
            /\ ok' = TRUE /\ pc' = "end"
            /\ look' = [look EXCEPT !.nl = FALSE]
            /\ UNCHANGED <<features, edits, nodes, open, errors, stackDepth, lastValue, lineBroken, document>>

\* An error returns at once: lastValue_ and the depth stay.
NotAValue == /\ BeginValue /\ ~Dropped
             /\ look.k \in {",", ":", "}", "]", "bad", "end"} \cup (IF features.allowComments THEN {} ELSE Comments)
             /\ Consume /\ lineBroken' = Breaks
             /\ root' = Commented /\ ok' = FALSE /\ errors' = errors + 1 /\ pc' = "return"
             /\ UNCHANGED <<nodes, open, stackDepth, lastValue>>

EndValue == /\ pc = "end" /\ pc' = "return" /\ stackDepth' = stackDepth - 1
            /\ IF collectComments THEN lastValue' = currentValue /\ lineBroken' = FALSE
               ELSE UNCHANGED <<lastValue, lineBroken>>
            /\ UNCHANGED <<features, root, look, edits, nodes, open, ok, errors, commentsBefore, document>>

\* Back in the caller: parse, readObject or readArray.
ReturnValue ==
  /\ pc = "return"
  /\ IF Len(nodes) = 1 THEN pc' = "tail" /\ nodes' = nodes
     ELSE /\ nodes' = Front(nodes)
          /\ pc' = IF ~ok THEN "recover" ELSE IF Last(open).kind = "object" THEN "comma" ELSE "sep"
  /\ UNCHANGED <<features, root, look, edits, open, ok, errors, stackDepth, commentsBefore, lastValue, lineBroken, document>>

(* ---- readObject and readArray ------------------------------------------------------ *)
Close(success) == /\ open' = Front(open) /\ ok' = success /\ pc' = "end"
                  /\ UNCHANGED <<root, nodes, errors, stackDepth, commentsBefore, lastValue>>
Error == /\ errors' = errors + 1 /\ pc' = "recover"
         /\ UNCHANGED <<root, nodes, open, ok, stackDepth, commentsBefore, lastValue>>
Go(next) == pc' = next /\ UNCHANGED <<root, nodes, open, ok, errors, stackDepth, commentsBefore, lastValue>>
\* currentValue()[step] is made and pushed, and readValue is called.
PushChild(step) == /\ root' = resolveReference(root, currentValue, step).tree
                   /\ nodes' = Append(nodes, Append(currentValue, step)) /\ pc' = "enter"
                   /\ UNCHANGED <<ok, errors, stackDepth, commentsBefore, lastValue>>

Named(name) == [open EXCEPT ![Len(open)].name = name]

\* An empty object may end here, and so may one whose last name was empty.
ReadName ==
  /\ pc = "name"
  /\ \/ SkipComment
     \/ /\ ReadToken
        /\ \/ look.k = "}" /\ Last(open).name = <<>> /\ Close(TRUE)
           \/ /\ look.k = "string" /\ decodeString(look.s) # NoValue
              /\ open' = Named(decodeString(look.s).s) /\ pc' = "colon"
              /\ UNCHANGED <<root, nodes, ok, errors, stackDepth, commentsBefore, lastValue>>
           \/ look.k = "string" /\ decodeString(look.s) = NoValue /\ Error
           \/ /\ look.k = "number" /\ features.allowNumericKeys
              /\ IF decodeNumber(look.s) = NoValue THEN Error ELSE Go("thrown")   \* asCString() of a number
           \/ /\ look.k \notin {"string"} \cup (IF features.allowNumericKeys THEN {"number"} ELSE {})
              /\ ~(look.k = "}" /\ Last(open).name = <<>>) /\ Error
\* A comment is not skipped here: it is noted, and it is an error.
ReadColon ==
  /\ pc = "colon"
  /\ \/ look.k = ":" /\ ReadToken /\ PushChild(Key(Last(open).name)) /\ open' = open
     \/ look.k # ":" /\ ReadToken /\ Error
     \/ NoteComment /\ errors' = errors + 1 /\ pc' = "recover"
\* After a comment any token but the brace counts as the comma.
ReadComma ==
  /\ pc \in {"comma", "lateComma"}
  /\ \/ ReadComment /\ pc' = "lateComma"
     \/ /\ ReadToken
        /\ \/ look.k = "}" /\ Close(TRUE)
           \/ look.k # "}" /\ (look.k = "," \/ pc = "lateComma") /\ Go("name")
           \/ look.k \notin {",", "}"} /\ pc = "comma" /\ Error

ReadFirstElement ==
  /\ pc = "element"
  /\ \/ look.k = "]" /\ ReadToken /\ Close(TRUE)
     \/ /\ look \notin {NoToken} /\ look.k # "]" /\ PushChild(Idx(0)) /\ open' = open
        /\ UNCHANGED <<features, look, edits, lineBroken, document>>
ReadSeparator ==
  /\ pc = "sep"
  /\ \/ SkipComment
     \/ /\ ReadToken
        /\ \/ look.k = "]" /\ Close(TRUE)
           \/ /\ look.k = "," /\ PushChild(Idx(Last(open).index + 1))
              /\ open' = [open EXCEPT ![Len(open)].index = @ + 1]
           \/ look.k \notin {",", "]"} /\ Error

\* recoverFromError: to the end of this container, or of the document.
Recover ==
  /\ pc = "recover"
  /\ \/ SkipComment
     \/ /\ ReadToken
        /\ IF look.k \in {"end", IF Last(open).kind = "object" THEN "}" ELSE "]"} THEN Close(FALSE) ELSE Go("recover")

ReaderStep == \/ TailComment \/ EndParse \/ EnterValue \/ ValueComment \/ OpenContainer \/ ReadScalar \/ DropNull
              \/ NotAValue \/ EndValue \/ ReturnValue
              \/ ReadName \/ ReadColon \/ ReadComma \/ ReadFirstElement \/ ReadSeparator \/ Recover

(* ---- calls on the root value of a document that was read ---------------------------- *)
Edit(result) == /\ pc = "done" /\ ok /\ source = "file" /\ edits < MaxEdits /\ phrases + edits < MaxWork /\ edits' = edits + 1
                /\ root' = result.tree
                /\ UNCHANGED <<features, pc, look, reader, document>>
AssignIndex(i, v) == Edit(Assign(root, <<>>, Idx(i), Leaf(v)))
AssignMember(name, v) == Edit(Assign(root, <<>>, Key(name), Leaf(v)))
AppendElement(v) == Edit(append(root, <<>>, Leaf(v)))
Resize(n) == Edit(resize(root, <<>>, n))
Clear == Edit(clear(root, <<>>))
RemoveMember(name) == Edit(removeMember(root, <<>>, name))
RemoveIndex(i) == Edit(removeIndex(root, <<>>, i))

EditStep == \/ \E v \in Leaves : \/ AppendElement(v)
                                 \/ \E i \in Sizes : AssignIndex(i, v)
                                 \/ \E name \in Names : AssignMember(name, v)
            \/ \E n \in Sizes : Resize(n) \/ RemoveIndex(n)
            \/ \E name \in Names : RemoveMember(name)
            \/ Clear

Next == Arrive \/ ParseFile \/ ParseWritten \/ ReaderStep \/ EditStep
Spec == Init /\ [][Next]_vars

(* ---- properties ----------------------------------------------------------------------- *)
\* lastValue_ keeps the address of a value while others are made and destroyed: as long as
\* the Reader can write a comment through it, that value is one of the document being read.
LastValueExists == pc \notin {"idle", "done", "thrown"} /\ lastValue # NoPath => lastValue \in DOMAIN root

\* Two values no accessor can tell apart: a number may come back with another type.  But -0.0,
\* which is written -0, comes back as the int 0.
SameValue(v, w) ==
  IF v = negativeZero THEN w = intValue(0)
  ELSE IF v.type \in {"int", "uint", "real"}
  THEN /\ w.type \in {"int", "uint", "real"}
       /\ asInt(v) = asInt(w) /\ asUInt(v) = asUInt(w) /\ asInt64(v) = asInt64(w) /\ asUInt64(v) = asUInt64(w)
       /\ asDouble(v) = asDouble(w) /\ asBool(v) = asBool(w) /\ asString(v) = asString(w)
  ELSE v = w
\* What is written for a tree: the holes of its arrays are nulls.
Filled(t) ==
  LET arrays == {p \in DOMAIN t : t[p].v.type = "array"}
      holes == UNION {{Append(p, Idx(i)) : i \in 0 .. size(t, p) - 1} : p \in arrays} \ DOMAIN t
  IN [p \in DOMAIN t \cup holes |-> IF p \in DOMAIN t THEN t[p] ELSE Node(nullValue)]

\* Some value below the root is followed by a // that ends in a blank.
BlankComments(t) == \E p \in DOMAIN t \ {<<>>} : "blank" \in t[p].c

\* A document that was read, changed by calls and written by either writer reads back as the
\* same data, with the same comments if the writer keeps them, and as the same configuration.
\* Three things do not come back: the sign of -0.0; to StyledWriter, which takes names as C
\* strings, a member whose name has a NUL (not among Names); and whatever StyledWriter puts
\* on the line of a // that ends in a blank, which writeIndent takes for indentation.
ReadsBack ==
  pc \in {"done", "thrown"} /\ source \in {"fast", "styled"} /\ ~(source = "styled" /\ BlankComments(original)) =>
    /\ pc = "done" /\ ok
    /\ DOMAIN root = DOMAIN Filled(original)
    /\ \A p \in DOMAIN root : /\ SameValue(Filled(original)[p].v, root[p].v)
                              /\ source = "styled" => root[p].c = Filled(original)[p].c
    /\ ServerProfile(root) = ServerProfile(original) /\ ClientProfile(root) = ClientProfile(original)

\* isConvertibleTo answers, for every value of the document, what asInt, asUInt, asDouble, asBool,
\* asString and operator[], written separately, do: they throw exactly where it says no.  asFloat,
\* whose cast narrows what asDouble answers, is not among them.
ConvertibleMeansNoThrow ==
  \A p \in DOMAIN root : LET v == root[p].v IN
    /\ isConvertibleTo(root, p, "int") <=> asInt(v) # {}
    /\ isConvertibleTo(root, p, "uint") <=> asUInt(v) # {}
    /\ isConvertibleTo(root, p, "real") <=> asDouble(v) # {}
    /\ isConvertibleTo(root, p, "bool") <=> asBool(v) # {}
    /\ isConvertibleTo(root, p, "string") <=> asString(v) # {}
    /\ isConvertibleTo(root, p, "array") <=> ~resolveReference(root, p, Idx(0)).thrown
    /\ isConvertibleTo(root, p, "object") <=> ~resolveReference(root, p, Key(<<>>)).thrown

\* An array is a map with holes that is used as a sequence: a call on it does to its elements,
\* a hole being a null, what the call of a sequence would, but when the last element is removed
\* the holes before it go too.
Elements(t) == [k \in 1 .. size(t, <<>>) |-> At(t, <<>>, Idx(k - 1))]
Padded(s, n) == [k \in 1 .. n |-> IF k <= Len(s) THEN s[k] ELSE Leaf(nullValue)]
ArrayIsASequence ==
  [][root[<<>>].v.type = "array" /\ edits' # edits =>
       /\ \A i \in Sizes : RemoveIndex(i) /\ <<Idx(i)>> \in DOMAIN root =>
            size(root', <<>>) < size(root, <<>>) /\ Padded(Elements(root'), size(root, <<>>) - 1) = RemoveAt(Elements(root), i + 1)
       /\ \A v \in Leaves : AppendElement(v) => Elements(root') = Append(Elements(root), Leaf(v))
       /\ \A n \in Sizes : Resize(n) /\ ~resize(root, <<>>, n).thrown => Elements(root') = Padded(Elements(root), n)
       /\ \A v \in Leaves, i \in Sizes : AssignIndex(i, v) =>
            Elements(root') = [Padded(Elements(root), Max({i + 1, size(root, <<>>)})) EXCEPT ![i + 1] = Leaf(v)]]_vars
=============================================================================
