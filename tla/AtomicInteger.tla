---------------------------- MODULE AtomicInteger ----------------------------
(***************************************************************************)
(* Atomic<unsigned long> of stputil/atomic.h as gcc builds it, called by   *)
(* several threads.  A gcc builtin is one step.  Prefix ++ and -- and Add  *)
(* are one builtin and arithmetic on the caller's own registers; postfix   *)
(* ++ and -- read with one builtin and add with another.                   *)
(*                                                                         *)
(* Thread::SetDefaultName numbers the threads of a program with ++x.       *)
(*                                                                         *)
(* A name that ends in Mutant is a plausible bug; no behaviour uses it.    *)
(***************************************************************************)
EXTENDS AtomicOps

CONSTANT MaxOps  \* bound on the calls

ASSUME BoundAssumption == MaxOps \in Nat

VARIABLES
  value,  \* value_.value_
  op,     \* the operation each thread is in
  pc,     \* where in it the thread is
  old,    \* what its first builtin has answered
  result, \* what the last operation of each thread answered
  calls,  \* calls so far
  used,   \* history: operations called
  handed, \* history: numbers answered
  again   \* history: numbers answered more than once

history == <<handed, again>>
atomicVars == <<value, op, pc, old, result, calls, used, history>>

AtomicInit ==
  /\ value = 0
  /\ op = [t \in Threads |-> NoOp]
  /\ pc = [t \in Threads |-> "idle"]
  /\ old = [t \in Threads |-> 0]
  /\ result = [t \in Threads |-> 0]
  /\ calls = 0
  /\ used = {}
  /\ handed = {}
  /\ again = {}

Call(t, o) ==
  /\ pc[t] = "idle"
  /\ calls < MaxOps
  /\ calls' = calls + 1
  /\ used' = used \cup {o}
  /\ op' = [op EXCEPT ![t] = o]
  /\ pc' = [pc EXCEPT ![t] = IF o \in Postfix THEN "read" ELSE "add"]
  /\ UNCHANGED <<value, old, result, history>>

\* value(), the first half of postfix ++ and --: compare and swap 0 with 0.
Read(t) ==
  /\ pc[t] = "read"
  /\ old' = [old EXCEPT ![t] = value]
  /\ pc' = [pc EXCEPT ![t] = "add"]
  /\ UNCHANGED <<value, op, result, calls, used, history>>

\* The number is loaded before, and stored in this step.
Add_Mutant(t) ==
  /\ pc[t] = "add"
  /\ value' = Wrap(result[t] + Delta(op[t]))
  /\ old' = [old EXCEPT ![t] = result[t]]
  /\ pc' = [pc EXCEPT ![t] = "return"]
  /\ UNCHANGED <<op, result, calls, used, history>>

\* __sync_fetch_and_add; postfix ++ and -- drop its answer.
Add(t) ==
  /\ pc[t] = "add"
  /\ value' = Wrap(value + Delta(op[t]))
  /\ old' = IF op[t] \in Postfix THEN old ELSE [old EXCEPT ![t] = value]
  /\ pc' = [pc EXCEPT ![t] = "return"]
  /\ UNCHANGED <<op, result, calls, used, history>>

\* AddAndGet forgets to add.
Answer_Mutant(o, n) == n

\* What operation o answers, from the number its builtin has answered it.
Answer(o, n) == IF o \in Prefix THEN Wrap(n + Delta(o)) ELSE n

Return(t) ==
  LET answer == Answer(op[t], old[t]) IN
  /\ pc[t] = "return"
  /\ result' = [result EXCEPT ![t] = answer]
  /\ handed' = handed \cup {answer}
  /\ again' = again \cup (handed \cap {answer})
  /\ op' = [op EXCEPT ![t] = NoOp]
  /\ pc' = [pc EXCEPT ![t] = "idle"]
  /\ UNCHANGED <<value, old, calls, used>>

AtomicNext ==
  \E t \in Threads :
    \/ \E o \in Ops : Call(t, o)
    \/ Read(t)
    \/ Add(t)
    \/ Return(t)

AtomicSpec == AtomicInit /\ [][AtomicNext]_atomicVars

-----------------------------------------------------------------------------
\* Properties.

\* The counter, the answers and the registers of the callers are unsigned longs.
AtomicTypeOK ==
  /\ value \in Longs
  /\ op \in [Threads -> Ops \cup {NoOp}]
  /\ pc \in [Threads -> {"idle", "read", "add", "return"}]
  /\ old \in [Threads -> Longs]
  /\ result \in [Threads -> Longs]
  /\ calls \in 0 .. MaxOps
  /\ used \subseteq Ops
  /\ handed \subseteq Longs
  /\ again \subseteq handed

\* An operation that is about to return has taken effect, and has its answer.
CounterOp == [t \in Threads |-> IF pc[t] = "return" THEN NoOp ELSE op[t]]
CounterResult ==
  [t \in Threads |-> IF pc[t] = "return" THEN Answer(op[t], old[t]) ELSE result[t]]

CounterSeen ==
  [t \in Threads |-> IF pc[t] = "add" /\ op[t] \in Postfix THEN old[t] ELSE NoNumber]

Counter == INSTANCE AtomicCounter
             WITH op <- CounterOp, seen <- CounterSeen, result <- CounterResult

\* Every operation takes effect at one moment between call and return.  Prefix ++,
\* prefix -- and Add answer what the counter was or became at that moment, postfix
\* ++ and -- what it was at an earlier one.
ImplementsCounter == Counter!Spec

\* A program that has used prefix ++ alone, as SetDefaultName does to number the
\* threads, is never answered a number twice while the counter has not wrapped.
NumbersDistinct == used \subseteq {"++x"} /\ calls < Modulus => again = {}
=============================================================================
