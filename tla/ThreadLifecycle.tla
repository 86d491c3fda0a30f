--------------------------- MODULE ThreadLifecycle ---------------------------
(***************************************************************************)
(* One Thread object of stputil/thread: its owner calls Start, Stop and    *)
(* the destructor in any order, each OS thread it creates runs ThreadFunc. *)
(* Owner and OS threads share the plain flags running_ and stoped_; the    *)
(* owner waits in Stop by polling running_, then in pthread_join.          *)
(*                                                                         *)
(* pthread_join of an id that names no thread is undefined: the model lets *)
(* it crash the process or return at once.                                 *)
(*                                                                         *)
(* A name that ends in Mutant is a plausible bug; no behaviour uses it.    *)
(***************************************************************************)
EXTENDS Integers

CONSTANTS
  MaxStarts, \* bound on the OS threads created
  MaxPolls   \* rounds of 100 ms that Stop polls: 30 in the code

ASSUME ThreadAssumption == MaxStarts \in Nat /\ MaxPolls \in Nat

Workers == 1 .. MaxStarts

\* Values of pthread_id_ that name no thread: never set, or set to zero by Stop.
Unset == -1
Zero == 0

OwnerPcs == {"idle", "create", "poll", "join", "clear", "dead", "crashed"}
WorkerPcs == {"none", "created", "entered", "run", "leaving", "done", "joined"}

VARIABLES
  running,    \* running_
  stoped,     \* stoped_
  pthread_id, \* pthread_id_
  owner,      \* what the owner is doing
  polls,      \* rounds of the polling loop of Stop
  destroying, \* the derived destructor has run, the object is a plain Thread
  worker,     \* what each OS thread is doing
  created,    \* OS threads created
  paired,     \* history: a Start answered true and no Stop has answered it
  misused,    \* history: the last Stop had no such Start before it
  failed      \* history: the last pthread_create failed

flags == <<running, stoped>>
use == <<paired, misused, failed>>
vars == <<flags, pthread_id, owner, polls, destroying, worker, created, use>>

Live(w) == worker[w] \in {"created", "entered", "run", "leaving"}

Init ==
  /\ running = FALSE
  /\ stoped = FALSE
  /\ pthread_id = Unset
  /\ owner = "idle"
  /\ polls = 0
  /\ destroying = FALSE
  /\ worker = [w \in Workers |-> "none"]
  /\ created = 0
  /\ paired = FALSE
  /\ misused = FALSE
  /\ failed = FALSE

-----------------------------------------------------------------------------
(* The owner.                                                              *)

\* Start does not look at running_.
Start_Mutant ==
  /\ owner = "idle"
  /\ created < MaxStarts
  /\ running' = TRUE
  /\ stoped' = FALSE
  /\ owner' = "create"
  /\ paired' = TRUE
  /\ UNCHANGED <<pthread_id, polls, destroying, worker, created, misused, failed>>

\* Start answers false, and does nothing, while running_ is set.
Start ==
  /\ owner = "idle"
  /\ ~running
  /\ created < MaxStarts
  /\ running' = TRUE
  /\ stoped' = FALSE
  /\ owner' = "create"
  /\ paired' = TRUE
  /\ UNCHANGED <<pthread_id, polls, destroying, worker, created, misused, failed>>

Create ==
  /\ owner = "create"
  /\ created' = created + 1
  /\ worker' = [worker EXCEPT ![created + 1] = "created"]
  /\ pthread_id' = created + 1
  /\ owner' = "idle"
  /\ failed' = FALSE
  /\ UNCHANGED <<flags, polls, destroying, paired, misused>>

\* pthread_create fails with a positive number, which "< 0" takes for success:
\* Start answers true and running_ stays set; what is then in pthread_id_ is undefined,
\* what was there before or the id of no thread.
CreateFails ==
  /\ owner = "create"
  /\ pthread_id' \in {pthread_id, Unset}
  /\ owner' = "idle"
  /\ failed' = TRUE
  /\ UNCHANGED <<flags, polls, destroying, worker, created, paired, misused>>

\* The first lines of Stop; the caller is the owner or the destructor.
BeginStop ==
  /\ stoped' = TRUE
  /\ polls' = 0
  /\ owner' = "poll"
  /\ misused' = ~paired
  /\ paired' = FALSE
  /\ UNCHANGED <<running, pthread_id, worker, created, failed>>

Stop ==
  /\ owner = "idle"
  /\ BeginStop
  /\ UNCHANGED destroying

\* The destructor stops a thread that is stopped already.
Destroy_TwiceMutant ==
  /\ owner = "idle"
  /\ destroying' = TRUE
  /\ stoped' = TRUE
  /\ polls' = 0
  /\ owner' = "poll"
  /\ misused' = (~stoped /\ ~paired)
  /\ paired' = FALSE
  /\ UNCHANGED <<running, pthread_id, worker, created, failed>>

\* The destructor asks running_ instead of stoped_.
Destroy_RunningMutant ==
  /\ owner = "idle"
  /\ destroying' = TRUE
  /\ IF ~stoped /\ ~running
       THEN BeginStop
       ELSE /\ owner' = "dead"
            /\ UNCHANGED <<flags, pthread_id, polls, worker, created, use>>

\* The destructor stops the thread unless stoped_ is set.
Destroy ==
  /\ owner = "idle"
  /\ destroying' = TRUE
  /\ IF ~stoped
       THEN BeginStop
       ELSE /\ owner' = "dead"
            /\ UNCHANGED <<flags, pthread_id, polls, worker, created, use>>

Poll ==
  /\ owner = "poll"
  /\ running
  /\ polls < MaxPolls
  /\ polls' = polls + 1
  /\ UNCHANGED <<flags, pthread_id, owner, destroying, worker, created, use>>

\* The loop has no bound.
PollEnds_Mutant ==
  /\ owner = "poll"
  /\ ~running
  /\ owner' = "join"
  /\ UNCHANGED <<flags, pthread_id, polls, destroying, worker, created, use>>

PollEnds ==
  /\ owner = "poll"
  /\ ~running \/ polls = MaxPolls
  /\ owner' = "join"
  /\ UNCHANGED <<flags, pthread_id, polls, destroying, worker, created, use>>

\* pthread_join returns when the thread has ended; then the id is zeroed.
Join ==
  /\ owner = "join"
  /\ pthread_id \in Workers
  /\ worker[pthread_id] = "done"
  /\ worker' = [worker EXCEPT ![pthread_id] = "joined"]
  /\ pthread_id' = Zero
  /\ owner' = "clear"
  /\ UNCHANGED <<flags, polls, destroying, created, use>>

\* pthread_join of an id that names no thread.
JoinNothing ==
  /\ owner = "join"
  /\ pthread_id \in {Unset, Zero}
  /\ \/ pthread_id' = Zero /\ owner' = "clear"
     \/ owner' = "crashed" /\ UNCHANGED pthread_id
  /\ UNCHANGED <<flags, polls, destroying, worker, created, use>>

StopReturns ==
  /\ owner = "clear"
  /\ running' = FALSE
  /\ owner' = IF destroying THEN "dead" ELSE "idle"
  /\ UNCHANGED <<stoped, pthread_id, polls, destroying, worker, created, use>>

-----------------------------------------------------------------------------
(* ThreadFunc, in the OS thread w.                                         *)

Enter(w) ==
  /\ worker[w] = "created"
  /\ running' = TRUE
  /\ worker' = [worker EXCEPT ![w] = "entered"]
  /\ UNCHANGED <<stoped, pthread_id, owner, polls, destroying, created, use>>

\* The virtual call: once the derived destructor has run, Thread::Run, which is empty.
CallRun(w) ==
  /\ worker[w] = "entered"
  /\ worker' = [worker EXCEPT ![w] = IF destroying THEN "leaving" ELSE "run"]
  /\ UNCHANGED <<flags, pthread_id, owner, polls, destroying, created, use>>

RunReturns(w) ==
  /\ worker[w] = "run"
  /\ worker' = [worker EXCEPT ![w] = "leaving"]
  /\ UNCHANGED <<flags, pthread_id, owner, polls, destroying, created, use>>

Leave(w) ==
  /\ worker[w] = "leaving"
  /\ running' = FALSE
  /\ worker' = [worker EXCEPT ![w] = "done"]
  /\ UNCHANGED <<stoped, pthread_id, owner, polls, destroying, created, use>>

StopStep == Poll \/ PollEnds \/ Join \/ JoinNothing \/ StopReturns
OwnerStep == Start \/ Create \/ CreateFails \/ Stop \/ Destroy \/ StopStep
WorkerStep(w) ==
  /\ owner # "crashed"
  /\ Enter(w) \/ CallRun(w) \/ RunReturns(w) \/ Leave(w)

Next == OwnerStep \/ \E w \in Workers : WorkerStep(w)

Spec == Init /\ [][Next]_vars

\* The scheduler runs every thread, and the Run of the derived class returns.
\* Which of its calls the owner makes next is its own affair.
FairSpec == Spec /\ WF_vars(StopStep) /\ \A w \in Workers : WF_vars(WorkerStep(w))

-----------------------------------------------------------------------------
\* Properties.

\* Flags, ids and counters keep their types.
TypeOK ==
  /\ running \in BOOLEAN
  /\ stoped \in BOOLEAN
  /\ pthread_id \in {Unset, Zero} \cup Workers
  /\ owner \in OwnerPcs
  /\ polls \in 0 .. MaxPolls
  /\ destroying \in BOOLEAN
  /\ worker \in [Workers -> WorkerPcs]
  /\ created \in 0 .. MaxStarts
  /\ paired \in BOOLEAN
  /\ misused \in BOOLEAN
  /\ failed \in BOOLEAN

\* The plain flag running_, which Start, ThreadFunc and Stop all write, still
\* keeps two OS threads from being inside one object's Run.
AtMostOneLive == \A v, w \in Workers : Live(v) /\ Live(w) => v = w

\* The destructor does not let go of an object whose OS thread still uses it.
NoThreadOutlivesObject == owner = "dead" => \A w \in Workers : ~Live(w)

\* The Stop that follows a Start, or the destructor in place of it, joins an id
\* that names a thread, unless pthread_create failed without Start noticing: what
\* pthread_id_, zeroed by every Stop, holds is right whatever calls went before.
JoinsAThread == owner = "join" => pthread_id \in Workers \/ misused \/ failed

\* Stop comes to its end if Run does, also when the thread could not be created.
StopEnds == owner \in {"poll", "join", "clear"} ~> owner \in {"idle", "dead", "crashed"}
=============================================================================
