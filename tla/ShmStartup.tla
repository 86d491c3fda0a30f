----------------------------- MODULE ShmStartup -----------------------------
(***************************************************************************)
(* The processes of one host starting over the same System V segments:     *)
(* the server's StpCryptoNegotiate::Init over all its groups, StpClient::  *)
(* Init over group 0, both through TryAttachShm and CreateShm.  Each system *)
(* call is one step, so two starts interleave at every call; a process may *)
(* die between any two.                                                    *)
(*                                                                         *)
(* The kernel: a key names at most one segment; IPC_RMID takes the name    *)
(* away, and the segment goes when its last process detaches.  StpServer   *)
(* describes the same start as the only one on its host, with the contents *)
(* of the segments.                                                        *)
(*                                                                         *)
(* A name that ends in Mutant is a plausible bug; no behaviour uses it.    *)
(***************************************************************************)
EXTENDS Integers

CONSTANTS
  Servers,    \* server processes
  Clients,    \* client processes
  MaxGroup,   \* config max_group of the server
  ServerSize, \* items of a segment the server asks for: config max_idx
  MaxSegs     \* bound on the segments that exist or are remembered at one time

Procs == Servers \cup Clients
Groups == 0 .. MaxGroup - 1
SegIds == 1 .. MaxSegs

ASSUME HostAssumption ==
  /\ Servers \cap Clients = {}
  /\ MaxGroup \in Nat \ {0}
  /\ ServerSize \in Nat \ {0}
  /\ MaxSegs \in Nat

NoSeg == 0   \* no such segment, or nothing attached
Bad == -1    \* (void *) -1, what shmat answers when it fails

\* Items a process asks for, and the groups it tries.
Want(p) == IF p \in Servers THEN ServerSize ELSE 1
LastGroup(p) == IF p \in Servers THEN MaxGroup - 1 ELSE 0

StartPcs == {"excl", "rmid", "get", "at", "create", "create_at"}

VARIABLES
  named,   \* the segment each group's key names
  size,    \* items of each segment
  pc,      \* where each process is
  group,   \* the loop variable of Init
  shmid,   \* CryptoGroup::shmid
  addr,    \* what each process has attached for each group
  used,    \* segments a process that is up may have stored into
  raced,   \* history: two starts have overlapped
  refused  \* history: processes the kernel has refused a segment

kernel == <<named, size>>
process == <<pc, group, shmid, addr>>
vars == <<kernel, process, used, raced, refused>>

Attached(p) == {addr[p][g] : g \in Groups} \cap SegIds
NamedIds == {named[g] : g \in Groups} \cap SegIds

\* Segments that exist: named by a key, or still attached by somebody.
Alive == NamedIds \cup UNION {Attached(p) : p \in Procs}

\* The kernel does not reuse an identifier somebody may still remember.
FreshId(s) ==
  LET taken == Alive \cup {shmid[p] : p \in Procs}
  IN  s \in SegIds \ taken /\ \A r \in SegIds \ taken : s <= r

Starting(p) == pc[p] \in StartPcs

Init ==
  /\ named = [g \in Groups |-> NoSeg]
  /\ size = [s \in SegIds |-> 0]
  /\ pc = [p \in Procs |-> "down"]
  /\ group = [p \in Procs |-> 0]
  /\ shmid = [p \in Procs |-> NoSeg]
  /\ addr = [p \in Procs |-> [g \in Groups |-> NoSeg]]
  /\ used = {}
  /\ raced = FALSE
  /\ refused = {}

-----------------------------------------------------------------------------
(* System calls.                                                           *)

\* shmget makes a segment of the process's size for the key of its group.
NewSegment(p) ==
  \E s \in SegIds :
    /\ FreshId(s)
    /\ named' = [named EXCEPT ![group[p]] = s]
    /\ size' = [size EXCEPT ![s] = Want(p)]
    /\ shmid' = [shmid EXCEPT ![p] = s]
    /\ used' = used \ {s}

\* shmget finds the segment, which is as large as it has to be.
FoundSegment(p) ==
  /\ size[named[group[p]]] >= Want(p)
  /\ shmid' = [shmid EXCEPT ![p] = named[group[p]]]
  /\ UNCHANGED <<kernel, used>>

TooSmall(p) == named[group[p]] # NoSeg /\ size[named[group[p]]] < Want(p)

\* shmat, whose failure the caller does not recognise: the segment has gone, or the
\* kernel refuses a live one (no memory, no permission, too many of them).
Attach(p) ==
  \/ /\ shmid[p] \in Alive
     /\ addr' = [addr EXCEPT ![p][group[p]] = shmid[p]]
     /\ UNCHANGED refused
  \/ /\ addr' = [addr EXCEPT ![p][group[p]] = Bad]
     /\ refused' = IF shmid[p] \in Alive THEN refused \cup {p} ELSE refused

-----------------------------------------------------------------------------
(* TryAttachShm, and the loop of Init around it.                           *)

Start(p) ==
  /\ pc[p] \in {"down", "failed"}
  /\ pc' = [pc EXCEPT ![p] = "excl"]
  /\ group' = [group EXCEPT ![p] = 0]
  /\ shmid' = [shmid EXCEPT ![p] = NoSeg]
  /\ raced' = (raced \/ \E q \in Procs : Starting(q))
  /\ refused' = refused \ {p}
  /\ UNCHANGED <<kernel, addr, used>>

\* What follows TryAttachShm: the next group, or CreateShm when none was attached.
AfterTry(p) ==
  LET none == \A g \in Groups : addr'[p][g] = NoSeg IN
  IF group[p] < LastGroup(p)
    THEN /\ group' = [group EXCEPT ![p] = @ + 1]
         /\ pc' = [pc EXCEPT ![p] = "excl"]
    ELSE /\ group' = [group EXCEPT ![p] = 0]
         /\ pc' = [pc EXCEPT ![p] = IF none THEN "create" ELSE "up"]

ExclCreates(p) ==
  /\ pc[p] = "excl"
  /\ named[group[p]] = NoSeg
  /\ NewSegment(p)
  /\ pc' = [pc EXCEPT ![p] = "rmid"]
  /\ UNCHANGED <<group, addr, raced, refused>>

\* IPC_EXCL is missing: what the key names is taken for a new segment.
ExclExists_Mutant(p) ==
  /\ pc[p] = "excl"
  /\ named[group[p]] # NoSeg
  /\ shmid' = [shmid EXCEPT ![p] = named[group[p]]]
  /\ pc' = [pc EXCEPT ![p] = "rmid"]
  /\ UNCHANGED <<kernel, group, addr, used, raced, refused>>

ExclExists(p) ==
  /\ pc[p] = "excl"
  /\ named[group[p]] # NoSeg
  /\ shmid' = [shmid EXCEPT ![p] = NoSeg]
  /\ pc' = [pc EXCEPT ![p] = "get"]
  /\ UNCHANGED <<kernel, group, addr, used, raced, refused>>

\* shmget fails for another reason than EEXIST: the limits of the host.
ExclRefused(p) ==
  /\ pc[p] = "excl"
  /\ shmid' = [shmid EXCEPT ![p] = NoSeg]
  /\ refused' = refused \cup {p}
  /\ addr' = addr
  /\ AfterTry(p)
  /\ UNCHANGED <<kernel, used, raced>>

\* The segment this probe has made is removed again.
Rmid(p) ==
  /\ pc[p] = "rmid"
  /\ named' = [g \in Groups |-> IF named[g] = shmid[p] THEN NoSeg ELSE named[g]]
  /\ addr' = addr
  /\ AfterTry(p)
  /\ UNCHANGED <<size, shmid, used, raced, refused>>

\* The second shmget asks for no particular size.
Get_Mutant(p) ==
  /\ pc[p] = "get"
  /\ \/ named[group[p]] = NoSeg /\ NewSegment(p)
     \/ /\ named[group[p]] # NoSeg
        /\ shmid' = [shmid EXCEPT ![p] = named[group[p]]]
        /\ UNCHANGED <<kernel, used>>
  /\ pc' = [pc EXCEPT ![p] = "at"]
  /\ UNCHANGED <<group, addr, raced, refused>>

\* The second shmget: by now the key may name another segment, or none.
Get(p) ==
  /\ pc[p] = "get"
  /\ \/ named[group[p]] = NoSeg /\ NewSegment(p)
     \/ named[group[p]] # NoSeg /\ FoundSegment(p)
  /\ pc' = [pc EXCEPT ![p] = "at"]
  /\ UNCHANGED <<group, addr, raced, refused>>

\* A segment that is too small is asked for again.
GetFails_Mutant(p) ==
  /\ pc[p] = "get"
  /\ \/ TooSmall(p) /\ UNCHANGED refused
     \/ refused' = refused \cup {p}
  /\ pc' = [pc EXCEPT ![p] = "excl"]
  /\ UNCHANGED <<kernel, group, shmid, addr, used, raced>>

\* EINVAL: the segment is smaller than what is asked for; or the host's limits.
GetFails(p) ==
  /\ pc[p] = "get"
  /\ \/ TooSmall(p) /\ UNCHANGED refused
     \/ refused' = refused \cup {p}
  /\ shmid' = [shmid EXCEPT ![p] = NoSeg]
  /\ addr' = addr
  /\ AfterTry(p)
  /\ UNCHANGED <<kernel, used, raced>>

\* The way out of a successful attach passes through the clean-up, too.
At_Mutant(p) ==
  /\ pc[p] = "at"
  /\ Attach(p)
  /\ named' = [g \in Groups |-> IF named[g] = shmid[p] THEN NoSeg ELSE named[g]]
  /\ AfterTry(p)
  /\ UNCHANGED <<size, shmid, used, raced>>

At(p) ==
  /\ pc[p] = "at"
  /\ Attach(p)
  /\ AfterTry(p)
  /\ UNCHANGED <<kernel, shmid, used, raced>>

-----------------------------------------------------------------------------
(* CreateShm, for group 0: AfterTry has set group[p] back to it.           *)

Create(p) ==
  /\ pc[p] = "create"
  /\ \/ named[group[p]] = NoSeg /\ NewSegment(p)
     \/ named[group[p]] # NoSeg /\ FoundSegment(p)
  /\ pc' = [pc EXCEPT ![p] = "create_at"]
  /\ UNCHANGED <<group, addr, raced, refused>>

\* Init answers false, and main ends in LOG(FATAL).
CreateFails(p) ==
  /\ pc[p] = "create"
  /\ pc' = [pc EXCEPT ![p] = "failed"]
  /\ \/ TooSmall(p) /\ UNCHANGED refused
     \/ refused' = refused \cup {p}
  /\ UNCHANGED <<kernel, group, shmid, addr, used, raced>>

CreateAt(p) ==
  /\ pc[p] = "create_at"
  /\ Attach(p)
  /\ pc' = [pc EXCEPT ![p] = "up"]
  /\ UNCHANGED <<kernel, group, shmid, used, raced>>

-----------------------------------------------------------------------------
\* A process that is up stores keys into the last group it has attached, cur_group_.
Store(p) ==
  /\ pc[p] = "up"
  /\ \E g \in Groups :
       /\ addr[p][g] \in SegIds
       /\ \A h \in Groups : h > g => addr[p][h] = NoSeg
       /\ used' = used \cup {addr[p][g]}
  /\ UNCHANGED <<kernel, process, raced, refused>>

\* A process ends, or dies (also by storing through a bad address): it detaches.
End(p) ==
  /\ Starting(p) \/ pc[p] = "up"
  /\ pc' = [pc EXCEPT ![p] = "down"]
  /\ shmid' = [shmid EXCEPT ![p] = NoSeg]
  /\ addr' = [addr EXCEPT ![p] = [g \in Groups |-> NoSeg]]
  /\ UNCHANGED <<kernel, group, used, raced, refused>>

StartStep(p) ==
  \/ ExclCreates(p) \/ ExclExists(p) \/ ExclRefused(p) \/ Rmid(p)
  \/ Get(p) \/ GetFails(p) \/ At(p)
  \/ Create(p) \/ CreateFails(p) \/ CreateAt(p)

Next == \E p \in Procs : Start(p) \/ StartStep(p) \/ Store(p) \/ End(p)

Spec == Init /\ [][Next]_vars

\* A process that has started goes on by itself; nothing makes it start, or end.
FairSpec == Spec /\ \A p \in Procs : WF_vars(StartStep(p))

-----------------------------------------------------------------------------
\* Properties.

\* Names, identifiers and addresses have their types.
TypeOK ==
  /\ named \in [Groups -> SegIds \cup {NoSeg}]
  /\ size \in [SegIds -> Nat]
  /\ pc \in [Procs -> StartPcs \cup {"down", "up", "failed"}]
  /\ group \in [Procs -> Groups]
  /\ shmid \in [Procs -> SegIds \cup {NoSeg}]
  /\ addr \in [Procs -> [Groups -> SegIds \cup {NoSeg, Bad}]]
  /\ used \subseteq SegIds
  /\ raced \in BOOLEAN
  /\ refused \subseteq Procs

\* Without overlapping starts, a process that is up has attached what the key of each
\* of its groups names, so that two of them with one group have one segment; only for
\* a process the kernel has refused a segment may an address stand there that is none.
SharedUnlessRaced ==
  ~raced =>
    \A p \in Procs, g \in Groups :
      pc[p] = "up" /\ addr[p][g] # NoSeg =>
        \/ addr[p][g] = named[g] /\ named[g] # NoSeg
        \/ addr[p][g] = Bad /\ p \in refused

\* Overlapping or not, nobody gets a segment smaller than what it asks for.
LargeEnough ==
  \A p \in Procs : \A s \in Attached(p) : size[s] >= Want(p)

\* Without overlapping starts, no start takes a segment in use away from its key.
UsedKeepsItsName ==
  [][~raced => \A g \in Groups : named[g] \in used => named'[g] = named[g]]_vars

\* Every start comes to its end, whatever the other processes of the host do.
StartEnds == \A p \in Procs : Starting(p) ~> ~Starting(p)

\* stp_crypto_negotiate.cc:37 says that Init creates a group when none has been
\* created: a server at that point finds no segment of group 0.
CreatesOnlyWhenNone ==
  \A p \in Servers : pc[p] = "create" /\ p \notin refused /\ ~raced => named[0] = NoSeg
=============================================================================
