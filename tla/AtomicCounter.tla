---------------------------- MODULE AtomicCounter ----------------------------
(***************************************************************************)
(* What an Atomic<unsigned long> promises: a counter whose operations take *)
(* effect one at a time.  Prefix operations and Add answer the number      *)
(* behind or before their own step; a postfix operation answers one the    *)
(* counter had earlier in the call, and others may have moved it since.    *)
(***************************************************************************)
EXTENDS AtomicOps

VARIABLES
  value,  \* the counter
  op,     \* the operation each thread is in
  seen,   \* the number a postfix operation is going to answer
  result  \* what the last operation of each thread answered

Init ==
  /\ value = 0
  /\ op = [t \in Threads |-> NoOp]
  /\ seen = [t \in Threads |-> NoNumber]
  /\ result = [t \in Threads |-> 0]

Call(t, o) ==
  /\ op[t] = NoOp
  /\ op' = [op EXCEPT ![t] = o]
  /\ UNCHANGED <<value, seen, result>>

Look(t) ==
  /\ op[t] \in Postfix
  /\ seen[t] = NoNumber
  /\ seen' = [seen EXCEPT ![t] = value]
  /\ UNCHANGED <<value, op, result>>

Do(t) ==
  LET next == Wrap(value + Delta(op[t])) IN
  /\ op[t] # NoOp
  /\ op[t] \in Postfix => seen[t] # NoNumber
  /\ value' = next
  /\ result' = [result EXCEPT ![t] = IF op[t] \in Prefix THEN next
                                    ELSE IF op[t] \in Postfix THEN seen[t] ELSE value]
  /\ seen' = [seen EXCEPT ![t] = NoNumber]
  /\ op' = [op EXCEPT ![t] = NoOp]

Next == \E t \in Threads : Look(t) \/ Do(t) \/ \E o \in Ops : Call(t, o)

Spec == Init /\ [][Next]_<<value, op, seen, result>>
=============================================================================
