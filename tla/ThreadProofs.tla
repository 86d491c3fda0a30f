----------------------------- MODULE ThreadProofs -----------------------------
(***************************************************************************)
(* Safety of a Thread object for any number of starts and any polling      *)
(* bound, and of Atomic<unsigned long> for any threads, any width and any  *)
(* number of calls.                                                        *)
(*                                                                         *)
(* Of the Thread object the strengthening says what running_ stands for:   *)
(* while an OS thread is inside ThreadFunc it is the last one created,     *)
(* pthread_id_ names it, running_ is set, and the owner has not got past   *)
(* the join.  The operations of the counter implement the abstract one,    *)
(* and numbers taken with prefix ++ alone are distinct until it wraps.     *)
(***************************************************************************)
EXTENDS ThreadLifecycle, AtomicInteger, FiniteSetTheorems, TLAPS

(* ---- Thread ------------------------------------------------------------------ *)
\* A live OS thread is the one pthread_id_ names, and it keeps running_ set.
LiveInv ==
  \A w \in Workers : Live(w) =>
    /\ running
    /\ pthread_id = w
    /\ owner \in {"idle", "poll", "join"}
    /\ owner = "idle" => ~stoped

\* What Start has set up when pthread_create is called.
CreateInv == owner = "create" => created < MaxStarts /\ ~stoped /\ running

\* A started thread that was not stopped has its id in pthread_id_, unless its
\* creation failed; a Stop that found no such thread is marked.
PairInv ==
  /\ paired /\ owner # "create" => pthread_id \in Workers \/ failed
  /\ owner \in {"poll", "join"} => pthread_id \in Workers \/ misused \/ failed
  /\ owner \in {"poll", "join", "clear"} => ~paired

IInv == TypeOK /\ LiveInv /\ CreateInv /\ PairInv

\* The initial state: no thread, no id, nothing set.
LEMMA InitIInv == Init => IInv
<1> SUFFICES ASSUME Init PROVE IInv
  OBVIOUS
<1>1. TypeOK
  <2>1. owner \in OwnerPcs /\ worker \in [Workers -> WorkerPcs]
    BY DEF Init, OwnerPcs, WorkerPcs
  <2>2. polls \in 0 .. MaxPolls /\ created \in 0 .. MaxStarts
    BY ThreadAssumption DEF Init
  <2> QED BY <2>1, <2>2 DEF Init, TypeOK
<1>2. LiveInv
  BY DEF Init, LiveInv, Live
<1>3. CreateInv /\ PairInv
  BY DEF Init, CreateInv, PairInv
<1> QED BY <1>1, <1>2, <1>3 DEF IInv

\* The common beginning of Stop and of the destructor of a running thread.
LEMMA BeginStopKeepsIInv ==
  ASSUME IInv, BeginStop, destroying' \in BOOLEAN, owner = "idle" PROVE IInv'
<1> USE ThreadAssumption DEF IInv, TypeOK, PairInv, Unset, Zero
<1>1. misused' \in BOOLEAN /\ (pthread_id \in Workers \/ misused' \/ failed)
  BY DEF BeginStop
<1>2. TypeOK'
  <2>1. polls' \in 0 .. MaxPolls
    BY DEF BeginStop
  <2>2. owner' \in OwnerPcs /\ stoped' \in BOOLEAN /\ paired' \in BOOLEAN
    BY DEF BeginStop, OwnerPcs
  <2> QED BY <1>1, <2>1, <2>2 DEF BeginStop
<1>3. LiveInv'
  BY DEF BeginStop, LiveInv, Live
<1>4. CreateInv' /\ PairInv'
  <2>1. CreateInv'
    BY DEF BeginStop, CreateInv
  <2>2. pthread_id \in {Unset, Zero} => pthread_id \notin Workers
    BY DEF Workers
  <2> QED BY <1>1, <2>1, <2>2 DEF BeginStop
<1> QED BY <1>2, <1>3, <1>4

\* Every call of the owner keeps the invariant.
LEMMA OwnerKeepsIInv == IInv /\ OwnerStep => IInv'
<1> SUFFICES ASSUME IInv, OwnerStep PROVE IInv'
  OBVIOUS
<1> USE ThreadAssumption
    DEF IInv, TypeOK, LiveInv, CreateInv, PairInv, Live, OwnerPcs, WorkerPcs, Workers,
        Unset, Zero, flags, use
<1>1. CASE Start
  BY <1>1 DEF Start
<1>2. CASE Create
  <2>1. created + 1 \in Workers /\ owner' = "idle" /\ \A w \in Workers : ~Live(w)
    BY <1>2 DEF Create
  <2>2. TypeOK'
    <3>1. worker' \in [Workers -> WorkerPcs] /\ created' \in 0 .. MaxStarts
      BY <1>2, <2>1 DEF Create
    <3>2. pthread_id' \in Workers /\ failed' \in BOOLEAN
      BY <1>2, <2>1 DEF Create
    <3> QED BY <1>2, <2>1, <3>1, <3>2 DEF Create
  <2>3. LiveInv'
    <3>1. running
      BY <1>2 DEF Create
    <3> QED BY <1>2, <2>1 DEF Create
  <2>4. CreateInv' /\ PairInv'
    BY <1>2, <2>1 DEF Create
  <2> QED BY <2>2, <2>3, <2>4
<1>3. CASE CreateFails
  <2>1. TypeOK' /\ CreateInv' /\ PairInv'
    BY <1>3 DEF CreateFails
  <2>2. LiveInv'
    BY <1>3 DEF CreateFails
  <2> QED BY <2>1, <2>2
<1>4. CASE Stop
  BY <1>4, BeginStopKeepsIInv DEF Stop
<1>5. CASE Destroy
  <2>1. CASE stoped
    BY <1>5, <2>1 DEF Destroy
  <2>2. CASE ~stoped
    BY <1>5, <2>2, BeginStopKeepsIInv DEF Destroy
  <2> QED BY <2>1, <2>2
<1>6. CASE Poll
  BY <1>6 DEF Poll
<1>7. CASE PollEnds
  BY <1>7 DEF PollEnds
<1>8. CASE Join
  <2>1. TypeOK'
    <3>1. worker' \in [Workers -> WorkerPcs]
      BY <1>8 DEF Join
    <3>2. pthread_id' \in {Unset, Zero} /\ owner' \in OwnerPcs
      BY <1>8 DEF Join
    <3> QED BY <1>8, <3>1, <3>2 DEF Join
  <2>2. LiveInv'
    <3>1. \A w \in Workers : ~Live(w)
      BY <1>8 DEF Join
    <3>2. \A w \in Workers : ~Live(w)'
      BY <1>8, <3>1 DEF Join
    <3> QED BY <3>2
  <2>3. CreateInv'
    BY <1>8 DEF Join
  <2>4. PairInv'
    <3>1. owner' = "clear" /\ paired' = paired /\ misused' = misused
      BY <1>8 DEF Join
    <3>2. ~paired
      BY <1>8 DEF Join
    <3> QED BY <3>1, <3>2
  <2> QED BY <2>1, <2>2, <2>3, <2>4
<1>9. CASE JoinNothing
  BY <1>9 DEF JoinNothing
<1>10. CASE StopReturns
  BY <1>10 DEF StopReturns
<1> QED BY <1>1, <1>2, <1>3, <1>4, <1>5, <1>6, <1>7, <1>8, <1>9, <1>10
        DEF OwnerStep, StopStep

\* Every step of an OS thread keeps the invariant.
LEMMA WorkerKeepsIInv ==
  ASSUME NEW v \in Workers, IInv, WorkerStep(v) PROVE IInv'
<1> USE DEF IInv, TypeOK, LiveInv, CreateInv, PairInv, Live, OwnerPcs, WorkerPcs, Workers,
            Unset, Zero, flags, use
<1>1. CASE Enter(v)
  BY <1>1 DEF Enter
<1>2. CASE CallRun(v)
  BY <1>2 DEF CallRun
<1>3. CASE RunReturns(v)
  BY <1>3 DEF RunReturns
<1>4. CASE Leave(v)
  BY <1>4 DEF Leave
<1> QED BY <1>1, <1>2, <1>3, <1>4 DEF WorkerStep

\* IInv holds in every state of every behaviour.
THEOREM IInvAlways == Spec => []IInv
<1>1. IInv /\ [Next]_vars => IInv'
  <2> SUFFICES ASSUME IInv, [Next]_vars PROVE IInv'
    OBVIOUS
  <2>1. CASE OwnerStep
    BY <2>1, OwnerKeepsIInv
  <2>2. ASSUME NEW w \in Workers, WorkerStep(w) PROVE IInv'
    BY <2>2, WorkerKeepsIInv
  <2>3. CASE UNCHANGED vars
    BY <2>3 DEF vars, flags, use, IInv, TypeOK, LiveInv, CreateInv, PairInv, Live
  <2> QED BY <2>1, <2>2, <2>3 DEF Next
<1> QED BY InitIInv, <1>1, PTL DEF Spec

\* running_ keeps two OS threads from being inside one object's ThreadFunc.
THEOREM OneLiveThread == Spec => []AtMostOneLive
<1>1. IInv => AtMostOneLive
  BY DEF IInv, LiveInv, AtMostOneLive
<1> QED BY IInvAlways, <1>1, PTL

\* The destructor returns only when no OS thread uses the object.
THEOREM ObjectOutlivesThreads == Spec => []NoThreadOutlivesObject
<1>1. IInv => NoThreadOutlivesObject
  BY DEF IInv, LiveInv, NoThreadOutlivesObject
<1> QED BY IInvAlways, <1>1, PTL

\* A Stop that answers a Start joins a thread, unless pthread_create has failed.
THEOREM StopJoinsAThread == Spec => []JoinsAThread
<1>1. IInv => JoinsAThread
  BY DEF IInv, PairInv, JoinsAThread
<1> QED BY IInvAlways, <1>1, PTL

(* ---- Atomic<unsigned long> ---------------------------------------------------- *)
\* One step over either end of the type comes back into it.
LEMMA WrapInLongs ==
  ASSUME NEW n \in Longs, NEW o PROVE Wrap(n + Delta(o)) \in Longs
  BY OpsAssumption DEF Wrap, Delta, Longs

\* The types; a thread is inside an operation exactly when it is not idle, and only
\* postfix operations have a first half.
TypeInv ==
  /\ AtomicTypeOK
  /\ \A t \in Threads : pc[t] = "idle" <=> op[t] = NoOp
  /\ \A t \in Threads : pc[t] = "read" => op[t] \in Postfix

\* No operation is called "none".
LEMMA NoOpIsNoOperation == NoOp \notin Ops
  BY OpsAssumption DEF NoOp, Prefix, Postfix

\* What an operation answers is an unsigned long.
LEMMA AnswerInLongs == ASSUME NEW n \in Longs, NEW o PROVE Answer(o, n) \in Longs
  BY WrapInLongs DEF Answer

\* TypeInv holds in every state of every behaviour.
THEOREM AtomicTypeCorrect == AtomicSpec => []TypeInv
<1>1. AtomicInit => TypeInv
  BY OpsAssumption, BoundAssumption DEF AtomicInit, TypeInv, AtomicTypeOK, Longs
<1>2. TypeInv /\ [AtomicNext]_atomicVars => TypeInv'
  <2> SUFFICES ASSUME TypeInv, [AtomicNext]_atomicVars PROVE TypeInv'
    OBVIOUS
  <2> USE DEF TypeInv, AtomicTypeOK, history
  <2>1. ASSUME NEW t \in Threads, NEW o \in Ops, Call(t, o) PROVE TypeInv'
    BY <2>1, NoOpIsNoOperation, BoundAssumption DEF Call
  <2>2. ASSUME NEW t \in Threads, Read(t) PROVE TypeInv'
    BY <2>2 DEF Read
  <2>3. ASSUME NEW t \in Threads, Add(t) PROVE TypeInv'
    BY <2>3, WrapInLongs DEF Add
  <2>4. ASSUME NEW t \in Threads, Return(t) PROVE TypeInv'
    BY <2>4, AnswerInLongs DEF Return
  <2>5. CASE UNCHANGED atomicVars
    BY <2>5 DEF atomicVars
  <2> QED BY <2>1, <2>2, <2>3, <2>4, <2>5 DEF AtomicNext
<1> QED BY <1>1, <1>2, PTL DEF AtomicSpec

-----------------------------------------------------------------------------
(* Refinement of AtomicCounter.                                            *)

\* The operations implement the abstract counter: Read is its Look, Add its Do.
THEOREM CounterImplemented == AtomicSpec => ImplementsCounter
<1>0. NoNumber \notin Longs
  BY OpsAssumption DEF NoNumber, Longs
<1>1. AtomicInit => Counter!Init
  BY DEF AtomicInit, Counter!Init, CounterOp, CounterSeen, CounterResult,
         Counter!NoOp, NoOp, Counter!NoNumber, NoNumber
<1>2. TypeInv /\ [AtomicNext]_atomicVars
      => [Counter!Next]_<<value, CounterOp, CounterSeen, CounterResult>>
  <2> SUFFICES ASSUME TypeInv, [AtomicNext]_atomicVars
               PROVE Counter!Next \/ UNCHANGED <<value, CounterOp, CounterSeen, CounterResult>>
    OBVIOUS
  <2> USE DEF TypeInv, AtomicTypeOK
  <2>1. ASSUME NEW t \in Threads, NEW o \in Ops, Call(t, o) PROVE Counter!Call(t, o)
    <3>1. pc[t] = "idle" /\ op[t] = NoOp /\ op' = [op EXCEPT ![t] = o]
          /\ pc' = [pc EXCEPT ![t] = IF o \in Postfix THEN "read" ELSE "add"]
          /\ UNCHANGED <<value, old, result>>
      BY <2>1 DEF Call
    <3>2. CounterOp[t] = NoOp /\ CounterOp' = [CounterOp EXCEPT ![t] = o]
      BY <3>1 DEF CounterOp
    <3>3. CounterResult' = CounterResult
      BY <3>1 DEF CounterResult
    <3>4. CounterSeen' = CounterSeen
      BY <3>1 DEF CounterSeen
    <3> QED BY <3>1, <3>2, <3>3, <3>4 DEF Counter!Call, Counter!NoOp, NoOp
  <2>2. ASSUME NEW t \in Threads, Read(t) PROVE Counter!Look(t)
    <3>1. pc[t] = "read" /\ op[t] \in Postfix /\ old' = [old EXCEPT ![t] = value]
          /\ pc' = [pc EXCEPT ![t] = "add"] /\ UNCHANGED <<value, op, result>>
      BY <2>2 DEF Read
    <3>2. CounterOp[t] = op[t] /\ CounterOp' = CounterOp
      BY <3>1 DEF CounterOp
    <3>3. CounterResult' = CounterResult
      BY <3>1 DEF CounterResult
    <3>4. CounterSeen[t] = NoNumber /\ CounterSeen' = [CounterSeen EXCEPT ![t] = value]
      BY <3>1 DEF CounterSeen
    <3> QED BY <3>1, <3>2, <3>3, <3>4
            DEF Counter!Look, Counter!Postfix, Postfix, Counter!NoNumber, NoNumber
  <2>3. ASSUME NEW t \in Threads, Add(t) PROVE Counter!Do(t)
    <3>1. /\ pc[t] = "add" /\ op' = op /\ result' = result
          /\ old' = IF op[t] \in Postfix THEN old ELSE [old EXCEPT ![t] = value]
          /\ pc' = [pc EXCEPT ![t] = "return"]
          /\ value' = Wrap(value + Delta(op[t]))
      BY <2>3 DEF Add
    <3>2. CounterOp[t] = op[t] /\ op[t] # NoOp /\ CounterOp' = [CounterOp EXCEPT ![t] = NoOp]
      BY <3>1 DEF CounterOp
    <3>3. op[t] \in Postfix => CounterSeen[t] = old[t] /\ old[t] \in Longs
      BY <3>1 DEF CounterSeen
    <3>4. CounterSeen' = [CounterSeen EXCEPT ![t] = NoNumber]
      BY <3>1 DEF CounterSeen
    <3>5. CounterResult' =
            [CounterResult EXCEPT ![t] =
               Answer(op[t], IF op[t] \in Postfix THEN old[t] ELSE value)]
      BY <3>1 DEF CounterResult
    <3>6. op[t] \in Postfix => op[t] \notin Prefix
      BY DEF Postfix, Prefix
    <3>7. Answer(op[t], IF op[t] \in Postfix THEN old[t] ELSE value)
          = IF op[t] \in Prefix THEN Wrap(value + Delta(op[t]))
            ELSE IF op[t] \in Postfix THEN CounterSeen[t] ELSE value
      BY <3>3, <3>6 DEF Answer
    <3> QED BY <1>0, <3>1, <3>2, <3>3, <3>4, <3>5, <3>7
            DEF Counter!Do, Counter!NoOp, Counter!Wrap, Counter!Delta, Counter!Prefix,
                Counter!Postfix, Counter!NoNumber, NoOp, Wrap, Delta, Prefix, Postfix, NoNumber
  <2>4. ASSUME NEW t \in Threads, Return(t)
        PROVE UNCHANGED <<value, CounterOp, CounterSeen, CounterResult>>
    <3>1. CounterOp' = CounterOp
      BY <2>4 DEF Return, CounterOp
    <3>2. CounterResult' = CounterResult
      BY <2>4 DEF Return, CounterResult
    <3>3. CounterSeen' = CounterSeen
      BY <2>4 DEF Return, CounterSeen
    <3> QED BY <2>4, <3>1, <3>2, <3>3 DEF Return
  <2>5. CASE UNCHANGED atomicVars
    BY <2>5 DEF atomicVars, CounterOp, CounterSeen, CounterResult
  <2> QED BY <2>1, <2>2, <2>3, <2>4, <2>5 DEF AtomicNext, Counter!Next
<1> QED BY <1>1, <1>2, AtomicTypeCorrect, PTL DEF AtomicSpec, ImplementsCounter, Counter!Spec

-----------------------------------------------------------------------------
(* Distinct numbers, while every call has been prefix ++.                  *)

OnlyPrefixInc == used \subseteq {"++x"}

\* Threads whose builtin has not run yet.
Adding == {t \in Threads : pc[t] = "add"}

\* Every call adds one, so the counter cannot have wrapped before Modulus calls.
CountInv ==
  /\ IsFiniteSet(Adding)
  /\ calls < Modulus => value + Cardinality(Adding) <= calls

\* Numbers answered and numbers about to be answered lie in 1 .. value, and no
\* two of them are the same.
NumberInv ==
  calls < Modulus =>
    /\ handed \subseteq 1 .. value
    /\ \A t \in Threads : pc[t] = "return" => old[t] < value /\ old[t] + 1 \notin handed
    /\ \A t, u \in Threads : pc[t] = "return" /\ pc[u] = "return" /\ t # u => old[t] # old[u]
    /\ again = {}

\* Inside a call the operation is prefix ++, and there is no first half.
PrefixInv == \A t \in Threads : pc[t] # "read" /\ (pc[t] # "idle" => op[t] = "++x")

Numbered == PrefixInv /\ CountInv /\ NumberInv

\* What has been called stays called.
LEMMA OnlyPrefixIncBefore ==
  ASSUME [AtomicNext]_atomicVars, OnlyPrefixInc' PROVE OnlyPrefixInc
  BY DEF AtomicNext, Call, Read, Add, Return, atomicVars, OnlyPrefixInc

\* A thread that calls, calls prefix ++.
LEMMA PrefixInvKept ==
  ASSUME TypeInv, Numbered, OnlyPrefixInc', [AtomicNext]_atomicVars PROVE PrefixInv'
<1> USE DEF Numbered, TypeInv, AtomicTypeOK, PrefixInv
<1>1. ASSUME NEW t \in Threads, NEW o \in Ops, Call(t, o) PROVE PrefixInv'
  BY <1>1 DEF Call, OnlyPrefixInc, Postfix
<1>2. ASSUME NEW t \in Threads, Read(t) \/ Add(t) \/ Return(t) PROVE PrefixInv'
  BY <1>2 DEF Read, Add, Return
<1>3. CASE UNCHANGED atomicVars
  BY <1>3 DEF atomicVars
<1> QED BY <1>1, <1>2, <1>3 DEF AtomicNext

\* A thread that starts or finishes adding changes the count by one.
LEMMA CountInvKept ==
  ASSUME TypeInv, Numbered, OnlyPrefixInc', [AtomicNext]_atomicVars PROVE CountInv'
<1> USE DEF Numbered, TypeInv, AtomicTypeOK, CountInv
<1>1. ASSUME NEW t \in Threads, NEW o \in Ops, Call(t, o) PROVE CountInv'
  <2>1. t \notin Adding /\ Adding' = Adding \cup {t} /\ calls' = calls + 1 /\ value' = value
    BY <1>1 DEF Call, Adding, OnlyPrefixInc, Postfix
  <2>2. IsFiniteSet(Adding') /\ Cardinality(Adding') = Cardinality(Adding) + 1
    BY <2>1, FS_AddElement
  <2>3. Cardinality(Adding) \in Nat /\ value \in Nat /\ calls \in Nat /\ Modulus \in Nat
    BY FS_CardinalityType, OpsAssumption, BoundAssumption DEF Longs
  <2> QED BY <2>1, <2>2, <2>3
<1>2. ASSUME NEW t \in Threads, Add(t) PROVE CountInv'
  <2>1. t \in Adding /\ Adding' = Adding \ {t} /\ calls' = calls
    BY <1>2 DEF Add, Adding
  <2>2. IsFiniteSet(Adding') /\ Cardinality(Adding') = Cardinality(Adding) - 1
    BY <2>1, FS_RemoveElement
  <2>3. Cardinality(Adding) \in Nat /\ value \in Nat /\ calls \in Nat /\ Modulus \in Nat
    BY FS_CardinalityType, OpsAssumption, BoundAssumption DEF Longs
  <2>4. value' <= value + 1
    BY <1>2, <2>3, OpsAssumption DEF Add, Wrap, Delta, Longs, PrefixInv
  <2>5. value' \in Int
    BY <1>2, WrapInLongs DEF Add, Longs
  <2> QED BY <2>1, <2>2, <2>3, <2>4, <2>5
<1>3. ASSUME NEW t \in Threads, Read(t) \/ Return(t) PROVE CountInv'
  <2>1. Adding' = Adding /\ value' = value /\ calls' = calls
    BY <1>3 DEF Read, Return, Adding, PrefixInv
  <2> QED BY <2>1
<1>4. CASE UNCHANGED atomicVars
  <2>1. Adding' = Adding /\ value' = value /\ calls' = calls
    BY <1>4 DEF atomicVars, Adding
  <2> QED BY <2>1
<1> QED BY <1>1, <1>2, <1>3, <1>4 DEF AtomicNext

\* The number a thread takes is new, and stays its own until it returns.
LEMMA NumberInvKept ==
  ASSUME TypeInv, Numbered, OnlyPrefixInc', [AtomicNext]_atomicVars PROVE NumberInv'
<1> USE DEF Numbered, TypeInv, AtomicTypeOK
<1>0. value \in Nat /\ calls \in Nat /\ Modulus \in Nat /\ \A t \in Threads : old[t] \in Nat
  BY OpsAssumption, BoundAssumption DEF Longs
<1>1. ASSUME NEW t \in Threads, NEW o \in Ops, Call(t, o) PROVE NumberInv'
  BY <1>0, <1>1 DEF Call, NumberInv, history, OnlyPrefixInc, Postfix
<1>2. ASSUME NEW t \in Threads, Add(t) PROVE NumberInv'
  <2> SUFFICES ASSUME calls < Modulus PROVE NumberInv'
    BY <1>2 DEF Add, NumberInv
  <2>1. value < calls
    <3>1. Adding # {} /\ IsFiniteSet(Adding)
      BY <1>2 DEF Add, Adding, CountInv
    <3>2. Cardinality(Adding) \in Nat \ {0}
      BY <3>1, FS_CardinalityType, FS_EmptySet
    <3> QED BY <1>0, <3>2 DEF CountInv
  <2>2. value' = value + 1
    BY <1>0, <1>2, <2>1 DEF Add, Wrap, Delta, PrefixInv
  <2>3. /\ old' = [old EXCEPT ![t] = value] /\ pc' = [pc EXCEPT ![t] = "return"]
        /\ UNCHANGED <<calls, handed, again>>
    BY <1>2 DEF Add, PrefixInv, Postfix, history
  <2>4. handed \subseteq 1 .. value /\ again = {}
    BY DEF NumberInv
  <2>5. \A u \in Threads : pc'[u] = "return" => old'[u] < value' /\ old'[u] + 1 \notin handed'
    BY <1>0, <2>2, <2>3, <2>4 DEF NumberInv
  <2>6. \A u, v \in Threads : pc'[u] = "return" /\ pc'[v] = "return" /\ u # v => old'[u] # old'[v]
    <3>1. \A u \in Threads : u # t /\ pc'[u] = "return" => old'[u] = old[u] /\ old[u] < value
      BY <2>3 DEF NumberInv
    <3>2. \A u, v \in Threads :
            u # t /\ v # t /\ pc'[u] = "return" /\ pc'[v] = "return" /\ u # v => old[u] # old[v]
      BY <2>3 DEF NumberInv
    <3>3. old'[t] = value
      BY <2>3
    <3> QED BY <1>0, <3>1, <3>2, <3>3
  <2>7. handed' \subseteq 1 .. value' /\ again' = {}
    BY <1>0, <2>2, <2>3, <2>4
  <2> QED BY <2>5, <2>6, <2>7 DEF NumberInv
<1>3. ASSUME NEW t \in Threads, Return(t) PROVE NumberInv'
  <2> SUFFICES ASSUME calls < Modulus PROVE NumberInv'
    BY <1>3 DEF Return, NumberInv
  <2>1. value <= calls
    <3>1. Cardinality(Adding) \in Nat
      BY FS_CardinalityType DEF CountInv
    <3> QED BY <1>0, <3>1 DEF CountInv
  <2>2. Answer(op[t], old[t]) = old[t] + 1
    BY <1>0, <1>3, <2>1 DEF Return, Answer, Wrap, Delta, PrefixInv, Prefix, NumberInv
  <2>3. /\ pc' = [pc EXCEPT ![t] = "idle"] /\ handed' = handed \cup {old[t] + 1}
        /\ again' = again \cup (handed \cap {old[t] + 1}) /\ UNCHANGED <<value, old, calls>>
        /\ pc[t] = "return"
    BY <1>3, <2>2 DEF Return
  <2>4. handed' \subseteq 1 .. value' /\ again' = {}
    <3>1. handed \subseteq 1 .. value /\ again = {} /\ old[t] < value /\ old[t] + 1 \notin handed
      BY <2>3 DEF NumberInv
    <3>2. old[t] + 1 \in 1 .. value
      BY <1>0, <3>1
    <3>3. handed \cap {old[t] + 1} = {}
      BY <3>1
    <3> QED BY <2>3, <3>1, <3>2, <3>3
  <2>5. \A u \in Threads : pc'[u] = "return" => old'[u] < value' /\ old'[u] + 1 \notin handed'
    <3> SUFFICES ASSUME NEW u \in Threads, pc'[u] = "return"
                 PROVE old'[u] < value' /\ old'[u] + 1 \notin handed'
      OBVIOUS
    <3>1. u # t /\ pc[u] = "return"
      BY <2>3
    <3>2. old[u] # old[t] /\ old[u] < value /\ old[u] + 1 \notin handed
      BY <2>3, <3>1 DEF NumberInv
    <3> QED BY <1>0, <2>3, <3>2
  <2>6. \A u, v \in Threads : pc'[u] = "return" /\ pc'[v] = "return" /\ u # v => old'[u] # old'[v]
    BY <2>3 DEF NumberInv
  <2> QED BY <2>4, <2>5, <2>6 DEF NumberInv
<1>4. ASSUME NEW t \in Threads, Read(t) PROVE NumberInv'
  BY <1>4 DEF Read, PrefixInv
<1>5. CASE UNCHANGED atomicVars
  BY <1>5 DEF atomicVars, history, NumberInv
<1> QED BY <1>1, <1>2, <1>3, <1>4, <1>5 DEF AtomicNext

\* Prefix ++ never answers the same number twice before the counter wraps: the
\* default names SetDefaultName gives are distinct.
THEOREM PrefixNumbersDistinct == AtomicSpec => []NumbersDistinct
<1> DEFINE NumberedIfPrefix == OnlyPrefixInc => Numbered
<1>1. AtomicInit => NumberedIfPrefix
  <2> SUFFICES ASSUME AtomicInit PROVE Numbered
    OBVIOUS
  <2>1. Adding = {}
    BY DEF AtomicInit, Adding
  <2>2. IsFiniteSet(Adding) /\ Cardinality(Adding) = 0
    BY <2>1, FS_EmptySet
  <2> QED BY <2>2 DEF AtomicInit, Numbered, PrefixInv, CountInv, NumberInv
<1>2. TypeInv /\ NumberedIfPrefix /\ [AtomicNext]_atomicVars => NumberedIfPrefix'
  <2> SUFFICES ASSUME TypeInv, NumberedIfPrefix, [AtomicNext]_atomicVars, OnlyPrefixInc' PROVE Numbered'
    OBVIOUS
  <2>1. Numbered
    BY OnlyPrefixIncBefore
  <2>2. PrefixInv'
    BY <2>1, PrefixInvKept
  <2> QED BY <2>1, <2>2, CountInvKept, NumberInvKept DEF Numbered
<1>3. NumberedIfPrefix => NumbersDistinct
  BY DEF Numbered, NumberInv, NumbersDistinct, OnlyPrefixInc
<1> QED BY <1>1, <1>2, <1>3, AtomicTypeCorrect, PTL DEF AtomicSpec
===============================================================================
