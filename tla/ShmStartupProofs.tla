-------------------------- MODULE ShmStartupProofs --------------------------
(***************************************************************************)
(* For any processes and groups of one host, whatever overlaps and dies:   *)
(* no process attaches a segment smaller than what it asks for.  While no  *)
(* two starts have overlapped, processes with one group share one segment, *)
(* unless the kernel has refused it to one of them, and no start takes a   *)
(* segment in use away from its key.                                       *)
(***************************************************************************)
EXTENDS ShmStartup, TLAPS

\* A segment on its way to shmat, or attached, is large enough.
SizeInv ==
  \A p \in Procs :
    /\ pc[p] \in {"at", "create_at"} /\ shmid[p] \in SegIds => size[shmid[p]] >= Want(p)
    /\ \A g \in Groups : addr[p][g] \in SegIds => size[addr[p][g]] >= Want(p)

IInv == TypeOK /\ SizeInv

\* What a process asks for, and that it stays among the groups.
LEMMA WantType == ASSUME NEW p \in Procs PROVE Want(p) \in Nat /\ LastGroup(p) \in Groups
  BY HostAssumption DEF Want, LastGroup, Procs, Groups

\* The loop of Init stays among the groups.
LEMMA AfterTryType ==
  ASSUME TypeOK, NEW p \in Procs, AfterTry(p)
  PROVE  /\ group' \in [Procs -> Groups]
         /\ pc' \in [Procs -> StartPcs \cup {"down", "up", "failed"}]
         /\ \E c \in {"excl", "create", "up"} :
              /\ pc' = [pc EXCEPT ![p] = c]
              /\ c = "create" => \A g \in Groups : addr'[p][g] = NoSeg
<1>1. 0 \in Groups
  BY HostAssumption DEF Groups
<1>2. group[p] < LastGroup(p) => group[p] + 1 \in Groups
  <2>1. group[p] \in Groups
    BY DEF TypeOK
  <2>2. LastGroup(p) \in Groups
    BY WantType
  <2> QED BY <2>1, <2>2, HostAssumption DEF Groups
<1>3. group' \in [Procs -> Groups]
  BY <1>1, <1>2 DEF AfterTry, TypeOK
<1>4. \E c \in {"excl", "create", "up"} :
        /\ pc' = [pc EXCEPT ![p] = c]
        /\ c = "create" => \A g \in Groups : addr'[p][g] = NoSeg
  BY DEF AfterTry
<1>5. pc' \in [Procs -> StartPcs \cup {"down", "up", "failed"}]
  BY <1>4 DEF TypeOK, StartPcs
<1> QED BY <1>3, <1>4, <1>5

\* A new segment takes nobody's identifier, and has the size that was asked for.
LEMMA NewSegmentSizes ==
  ASSUME IInv, NEW p \in Procs, NewSegment(p)
  PROVE  /\ named' \in [Groups -> SegIds \cup {NoSeg}]
         /\ size' \in [SegIds -> Nat]
         /\ shmid' \in [Procs -> SegIds \cup {NoSeg}]
         /\ used' \subseteq SegIds
         /\ shmid'[p] \in SegIds /\ size'[shmid'[p]] = Want(p)
         /\ \A q \in Procs : q # p => shmid'[q] = shmid[q]
         /\ \A q \in Procs : shmid[q] \in SegIds => size'[shmid[q]] = size[shmid[q]]
         /\ \A q \in Procs, g \in Groups :
              addr[q][g] \in SegIds => size'[addr[q][g]] = size[addr[q][g]]
<1>1. PICK s \in SegIds :
        /\ FreshId(s)
        /\ named' = [named EXCEPT ![group[p]] = s]
        /\ size' = [size EXCEPT ![s] = Want(p)]
        /\ shmid' = [shmid EXCEPT ![p] = s]
        /\ used' = used \ {s}
  BY DEF NewSegment
<1>2. \A q \in Procs : shmid[q] # s
  BY <1>1 DEF FreshId
<1>3. \A q \in Procs, g \in Groups : addr[q][g] \in SegIds => addr[q][g] # s
  <2> SUFFICES ASSUME NEW q \in Procs, NEW g \in Groups, addr[q][g] = s PROVE FALSE
    OBVIOUS
  <2>1. s \in Attached(q)
    BY DEF Attached
  <2>2. s \in Alive
    BY <2>1 DEF Alive
  <2> QED BY <1>1, <2>2 DEF FreshId
<1>4. named' \in [Groups -> SegIds \cup {NoSeg}] /\ used' \subseteq SegIds
  BY <1>1 DEF IInv, TypeOK
<1>5. size' \in [SegIds -> Nat] /\ shmid' \in [Procs -> SegIds \cup {NoSeg}]
  BY <1>1, WantType DEF IInv, TypeOK
<1>6. shmid'[p] = s /\ size'[s] = Want(p)
  BY <1>1 DEF IInv, TypeOK
<1>7. \A q \in Procs : q # p => shmid'[q] = shmid[q]
  BY <1>1 DEF IInv, TypeOK
<1>8. \A r \in SegIds : r # s => size'[r] = size[r]
  BY <1>1 DEF IInv, TypeOK
<1> QED BY <1>2, <1>3, <1>4, <1>5, <1>6, <1>7, <1>8

\* A step that goes to shmat with the segment shmget has answered.
LEMMA GotSegmentKeepsIInv ==
  ASSUME IInv, NEW p \in Procs, NEW c \in {"at", "create_at"}, group[p] \in Groups,
         (named[group[p]] = NoSeg /\ NewSegment(p)) \/ (named[group[p]] # NoSeg /\ FoundSegment(p)),
         pc' = [pc EXCEPT ![p] = c],
         UNCHANGED <<group, addr, raced, refused>>
  PROVE  IInv'
<1> USE DEF IInv, TypeOK
<1>0. pc' \in [Procs -> StartPcs \cup {"down", "up", "failed"}]
  BY DEF StartPcs
<1>1. CASE NewSegment(p)
  <2>1. TypeOK'
    BY <1>0, <1>1, NewSegmentSizes
  <2>2. SizeInv'
    <3> SUFFICES ASSUME NEW q \in Procs
                 PROVE  /\ pc'[q] \in {"at", "create_at"} /\ shmid'[q] \in SegIds
                             => size'[shmid'[q]] >= Want(q)
                        /\ \A g \in Groups : addr'[q][g] \in SegIds => size'[addr'[q][g]] >= Want(q)
      BY DEF SizeInv
    <3>1. CASE q = p
      BY <1>1, <3>1, NewSegmentSizes, WantType DEF SizeInv
    <3>2. CASE q # p
      BY <1>1, <3>2, NewSegmentSizes DEF SizeInv
    <3> QED BY <3>1, <3>2
  <2> QED BY <2>1, <2>2
<1>2. CASE named[group[p]] # NoSeg /\ FoundSegment(p)
  <2>1. shmid' = [shmid EXCEPT ![p] = named[group[p]]] /\ size[named[group[p]]] >= Want(p)
        /\ UNCHANGED <<kernel, used>> /\ named[group[p]] \in SegIds
    BY <1>2 DEF FoundSegment
  <2>2. TypeOK'
    BY <1>0, <2>1 DEF kernel
  <2>3. SizeInv'
    BY <2>1 DEF SizeInv, kernel
  <2> QED BY <2>2, <2>3
<1> QED BY <1>1, <1>2

\* What shmat answers: the segment of shmid, or the address that is none.
LEMMA AttachedAddress ==
  ASSUME NEW p \in Procs, Attach(p)
  PROVE  \E s \in SegIds \cup {Bad} :
           /\ s \in SegIds => s = shmid[p]
           /\ addr' = [addr EXCEPT ![p][group[p]] = s]
           /\ refused' \in {refused, refused \cup {p}}
<1>1. Alive \subseteq SegIds
  BY DEF Alive, NamedIds, Attached
<1>2. Bad \notin SegIds
  BY DEF Bad, SegIds
<1>3. CASE shmid[p] \in Alive /\ addr' = [addr EXCEPT ![p][group[p]] = shmid[p]] /\ refused' = refused
  BY <1>1, <1>3
<1>4. CASE addr' = [addr EXCEPT ![p][group[p]] = Bad] /\ refused' \in {refused, refused \cup {p}}
  BY <1>2, <1>4
<1> QED BY <1>3, <1>4 DEF Attach

\* Every system call of a starting process keeps the invariant.
LEMMA StartStepKeepsIInv ==
  ASSUME IInv, NEW p \in Procs, StartStep(p) PROVE IInv'
<1> USE DEF IInv, TypeOK
<1>1. CASE ExclCreates(p)
  <2>1. TypeOK'
    BY <1>1, NewSegmentSizes DEF ExclCreates, StartPcs
  <2>2. pc' = [pc EXCEPT ![p] = "rmid"] /\ addr' = addr /\ NewSegment(p)
    BY <1>1 DEF ExclCreates
  <2>3. SizeInv'
    <3> SUFFICES ASSUME NEW q \in Procs
                 PROVE  /\ pc'[q] \in {"at", "create_at"} /\ shmid'[q] \in SegIds
                             => size'[shmid'[q]] >= Want(q)
                        /\ \A g \in Groups : addr'[q][g] \in SegIds => size'[addr'[q][g]] >= Want(q)
      BY DEF SizeInv
    <3>1. CASE q = p
      BY <2>2, <3>1, NewSegmentSizes DEF SizeInv
    <3>2. CASE q # p
      BY <2>2, <3>2, NewSegmentSizes DEF SizeInv
    <3> QED BY <3>1, <3>2
  <2> QED BY <2>1, <2>3
<1>2. CASE ExclExists(p)
  <2>1. TypeOK'
    BY <1>2 DEF ExclExists, kernel, StartPcs
  <2>2. SizeInv'
    BY <1>2 DEF ExclExists, kernel, SizeInv
  <2> QED BY <2>1, <2>2
<1>3. ASSUME addr' = addr, size' = size, used' \subseteq SegIds, raced' \in BOOLEAN,
             refused' \subseteq Procs, named' \in [Groups -> SegIds \cup {NoSeg}],
             shmid' \in {shmid, [shmid EXCEPT ![p] = NoSeg]}, AfterTry(p)
      PROVE  IInv'
  <2>1. shmid' \in [Procs -> SegIds \cup {NoSeg}]
    BY <1>3
  <2>2. TypeOK'
    BY <1>3, <2>1, AfterTryType
  <2>3. PICK c \in {"excl", "create", "up"} : pc' = [pc EXCEPT ![p] = c]
    BY <1>3, AfterTryType
  <2>4. SizeInv'
    BY <1>3, <2>3 DEF SizeInv
  <2> QED BY <2>2, <2>4
<1>4. CASE ExclRefused(p)
  BY <1>3, <1>4 DEF ExclRefused, kernel
<1>5. CASE Rmid(p)
  <2>1. named' \in [Groups -> SegIds \cup {NoSeg}]
    BY <1>5 DEF Rmid
  <2> QED BY <1>3, <1>5, <2>1 DEF Rmid
<1>6. CASE Get(p)
  BY <1>6, GotSegmentKeepsIInv DEF Get
<1>7. CASE GetFails(p)
  BY <1>3, <1>7 DEF GetFails, kernel
<1>8. ASSUME NEW s \in SegIds \cup {Bad}, group[p] \in Groups,
             s \in SegIds => s = shmid[p], pc[p] \in {"at", "create_at"},
             addr' = [addr EXCEPT ![p][group[p]] = s],
             UNCHANGED <<kernel, shmid, used, raced>>, refused' \in {refused, refused \cup {p}},
             group' \in [Procs -> Groups],
             NEW c \in {"excl", "create", "up"}, pc' = [pc EXCEPT ![p] = c]
      PROVE  IInv'
  <2>1. addr' \in [Procs -> [Groups -> SegIds \cup {NoSeg, Bad}]]
    BY <1>8
  <2>2. pc' \in [Procs -> StartPcs \cup {"down", "up", "failed"}]
    BY <1>8 DEF StartPcs
  <2>3. TypeOK'
    BY <1>8, <2>1, <2>2 DEF kernel
  <2>4. SizeInv'
    BY <1>8 DEF SizeInv, kernel
  <2> QED BY <2>3, <2>4
<1>9. CASE At(p)
  <2>1. PICK c \in {"excl", "create", "up"} : pc' = [pc EXCEPT ![p] = c]
    BY <1>9, AfterTryType DEF At
  <2>2. group' \in [Procs -> Groups]
    BY <1>9, AfterTryType DEF At
  <2>3. PICK s \in SegIds \cup {Bad} :
          /\ s \in SegIds => s = shmid[p]
          /\ addr' = [addr EXCEPT ![p][group[p]] = s]
          /\ refused' \in {refused, refused \cup {p}}
    BY <1>9, AttachedAddress DEF At
  <2> QED BY <1>8, <1>9, <2>1, <2>2, <2>3 DEF At
<1>10. CASE Create(p)
  BY <1>10, GotSegmentKeepsIInv DEF Create
<1>11. CASE CreateFails(p)
  <2>1. TypeOK'
    BY <1>11 DEF CreateFails, kernel, StartPcs
  <2>2. SizeInv'
    BY <1>11 DEF CreateFails, kernel, SizeInv
  <2> QED BY <2>1, <2>2
<1>12. CASE CreateAt(p)
  <2>1. PICK s \in SegIds \cup {Bad} :
          /\ s \in SegIds => s = shmid[p]
          /\ addr' = [addr EXCEPT ![p][group[p]] = s]
          /\ refused' \in {refused, refused \cup {p}}
    BY <1>12, AttachedAddress DEF CreateAt
  <2> QED BY <1>8, <1>12, <2>1 DEF CreateAt
<1> QED BY <1>1, <1>2, <1>4, <1>5, <1>6, <1>7, <1>9, <1>10, <1>11, <1>12 DEF StartStep

\* IInv holds in every state of every behaviour.
THEOREM IInvAlways == Spec => []IInv
<1>1. Init => IInv
  <2> SUFFICES ASSUME Init PROVE IInv
    OBVIOUS
  <2>1. 0 \in Groups
    BY HostAssumption DEF Groups
  <2>2. TypeOK
    BY <2>1 DEF Init, TypeOK
  <2>3. SizeInv
    BY DEF Init, SizeInv, SegIds, NoSeg
  <2> QED BY <2>2, <2>3 DEF IInv
<1>2. IInv /\ [Next]_vars => IInv'
  <2> SUFFICES ASSUME IInv, [Next]_vars PROVE IInv'
    OBVIOUS
  <2> USE DEF IInv, TypeOK
  <2>1. ASSUME NEW p \in Procs, Start(p) PROVE IInv'
    <3>1. TypeOK'
      BY <2>1, HostAssumption DEF Start, kernel, StartPcs, Groups
    <3>2. SizeInv'
      BY <2>1 DEF Start, kernel, SizeInv
    <3> QED BY <3>1, <3>2
  <2>2. ASSUME NEW p \in Procs, StartStep(p) PROVE IInv'
    BY <2>2, StartStepKeepsIInv
  <2>3. ASSUME NEW p \in Procs, Store(p) PROVE IInv'
    <3>1. TypeOK'
      BY <2>3 DEF Store, kernel, process
    <3>2. SizeInv'
      BY <2>3 DEF Store, kernel, process, SizeInv
    <3> QED BY <3>1, <3>2
  <2>4. ASSUME NEW p \in Procs, End(p) PROVE IInv'
    <3>1. TypeOK'
      BY <2>4 DEF End, kernel
    <3>2. SizeInv'
      BY <2>4 DEF End, kernel, SizeInv, SegIds, NoSeg
    <3> QED BY <3>1, <3>2
  <2>5. CASE UNCHANGED vars
    BY <2>5 DEF vars, kernel, process, SizeInv
  <2> QED BY <2>1, <2>2, <2>3, <2>4, <2>5 DEF Next
<1> QED BY <1>1, <1>2, PTL DEF Spec

\* Nobody ever gets a segment smaller than the one it has asked for.
THEOREM SegmentsLargeEnough == Spec => []LargeEnough
<1>1. IInv => LargeEnough
  BY DEF IInv, SizeInv, LargeEnough, Attached
<1> QED BY IInvAlways, <1>1, PTL

-----------------------------------------------------------------------------
(* Starts that do not overlap.                                             *)

\* What is attached is what the key names, or the address shmat refuses with.
Named(p, g) ==
  /\ addr[p][g] \notin {NoSeg, Bad} => addr[p][g] = named[g]
  /\ addr[p][g] = Bad => p \in refused

NothingAttached(p) == \A g \in Groups : addr[p][g] = NoSeg

\* As long as one start at most is under way: what anybody has attached is what the
\* key names, what shmget has answered is still so named when shmat gets it, what
\* the probe has made is attached and used by nobody when it is removed, and a
\* process that is down, or creates, holds nothing.
AloneInv ==
  /\ \A p, q \in Procs : Starting(p) /\ Starting(q) => p = q
  /\ \A p \in Procs, g \in Groups : Named(p, g)
  /\ \A p \in Procs :
       pc[p] \in {"at", "create_at"} => shmid[p] = named[group[p]] /\ shmid[p] # NoSeg
  /\ \A p \in Procs :
       pc[p] = "rmid" => /\ shmid[p] \in SegIds \ used
                         /\ \A q \in Procs, g \in Groups : addr[q][g] # shmid[p]
  /\ \A p \in Procs :
       pc[p] \in {"down", "failed", "create", "create_at"} => NothingAttached(p)

RaceInv == ~raced => AloneInv

\* A process that starts alone makes a segment only for a key nobody has attached.
LEMMA NewSegmentAlone ==
  ASSUME IInv, AloneInv, NEW p \in Procs, named[group[p]] = NoSeg, NewSegment(p)
  PROVE  /\ \A q \in Procs, g \in Groups : addr[q][g] \notin {NoSeg, Bad} => addr[q][g] = named'[g]
         /\ shmid'[p] = named'[group[p]] /\ shmid'[p] \in SegIds \ used'
         /\ \A q \in Procs, g \in Groups : addr[q][g] # shmid'[p]
<1>1. PICK s \in SegIds :
        /\ FreshId(s)
        /\ named' = [named EXCEPT ![group[p]] = s]
        /\ shmid' = [shmid EXCEPT ![p] = s]
        /\ used' = used \ {s}
  BY DEF NewSegment
<1>2. s \notin Alive
  BY <1>1 DEF FreshId
<1>3. \A q \in Procs, g \in Groups : addr[q][g] # s
  BY <1>1, <1>2 DEF Alive, Attached
<1>4. group[p] \in Groups /\ shmid'[p] = s /\ named'[group[p]] = s
  BY <1>1 DEF IInv, TypeOK
<1>5. \A q \in Procs, g \in Groups : addr[q][g] \notin {NoSeg, Bad} => addr[q][g] = named'[g]
  <2> SUFFICES ASSUME NEW q \in Procs, NEW g \in Groups, addr[q][g] \notin {NoSeg, Bad}
               PROVE  addr[q][g] = named'[g]
    OBVIOUS
  <2>1. addr[q][g] = named[g] /\ g # group[p]
    BY DEF AloneInv, Named
  <2> QED BY <1>1, <2>1 DEF IInv, TypeOK
<1> QED BY <1>1, <1>3, <1>4, <1>5

\* Of a step of the only starting process, what the others see of it.
LEMMA AloneStep ==
  ASSUME IInv, AloneInv, NEW p \in Procs, Starting(p),
         NEW c \in StartPcs \cup {"up", "failed"}, pc' = [pc EXCEPT ![p] = c],
         \A q \in Procs, g \in Groups : Named(q, g)',
         \A q \in Procs : q # p => addr'[q] = addr[q],
         c \in {"failed", "create", "create_at"} => NothingAttached(p)',
         c \in {"at", "create_at"} => shmid'[p] = named'[group'[p]] /\ shmid'[p] # NoSeg,
         c = "rmid" => /\ shmid'[p] \in SegIds \ used'
                       /\ \A q \in Procs, g \in Groups : addr'[q][g] # shmid'[p]
  PROVE  AloneInv'
<1>1. \A q \in Procs : q # p => pc'[q] = pc[q] /\ ~Starting(q)
  BY DEF AloneInv, IInv, TypeOK
<1>2. pc'[p] = c
  BY DEF IInv, TypeOK
<1>3. \A q \in Procs : Starting(q)' => q = p
  BY <1>1 DEF Starting
<1>4. \A q \in Procs : q # p => pc'[q] \notin {"at", "create_at", "rmid", "create"}
  BY <1>1 DEF Starting, StartPcs
<1>5. \A q \in Procs : pc'[q] \in {"down", "failed", "create", "create_at"} => NothingAttached(q)'
  <2> SUFFICES ASSUME NEW q \in Procs, pc'[q] \in {"down", "failed", "create", "create_at"}
               PROVE  NothingAttached(q)'
    OBVIOUS
  <2>1. CASE q = p
    BY <1>2, <2>1 DEF StartPcs
  <2>2. CASE q # p
    BY <1>1, <2>2 DEF AloneInv, NothingAttached
  <2> QED BY <2>1, <2>2
<1>6. \A q \in Procs : pc'[q] \in {"at", "create_at"} => shmid'[q] = named'[group'[q]] /\ shmid'[q] # NoSeg
  BY <1>2, <1>4
<1>7. \A q \in Procs :
        pc'[q] = "rmid" => /\ shmid'[q] \in SegIds \ used'
                           /\ \A r \in Procs, g \in Groups : addr'[r][g] # shmid'[q]
  BY <1>2, <1>4
<1>8. \A q, r \in Procs : Starting(q)' /\ Starting(r)' => q = r
  BY <1>3
<1> QED BY <1>5, <1>6, <1>7, <1>8 DEF AloneInv

LEMMA StartStepAlone ==
  ASSUME IInv, AloneInv, NEW p \in Procs, StartStep(p) PROVE AloneInv'
<1>1. Starting(p)
  BY DEF StartStep, ExclCreates, ExclExists, ExclRefused, Rmid, Get, GetFails, At, Create,
         CreateFails, CreateAt, Starting, StartPcs
<1>2. \A q \in Procs, g \in Groups : Named(q, g)
  BY DEF AloneInv
<1>3. group[p] \in Groups
  BY DEF IInv, TypeOK
\* Of a step that attaches nothing: which names it must keep.
<1>10. ASSUME addr' = addr, refused \subseteq refused',
              \A q \in Procs, g \in Groups : addr[q][g] \notin {NoSeg, Bad} => addr[q][g] = named'[g]
       PROVE  \A q \in Procs, g \in Groups : Named(q, g)'
  BY <1>2, <1>10 DEF Named
<1>11. ASSUME UNCHANGED <<named, addr>>, refused \subseteq refused'
       PROVE  \A q \in Procs, g \in Groups : Named(q, g)'
  BY <1>2, <1>11 DEF Named
<1>4. CASE ExclCreates(p)
  <2>1. pc' = [pc EXCEPT ![p] = "rmid"] /\ UNCHANGED <<addr, refused>>
        /\ named[group[p]] = NoSeg /\ NewSegment(p)
    BY <1>4 DEF ExclCreates
  <2>2. \A q \in Procs, g \in Groups : Named(q, g)'
    BY <1>10, <2>1, NewSegmentAlone
  <2>3. shmid'[p] \in SegIds \ used' /\ \A q \in Procs, g \in Groups : addr'[q][g] # shmid'[p]
    BY <2>1, NewSegmentAlone
  <2> QED BY <1>1, <2>1, <2>2, <2>3, AloneStep DEF StartPcs
<1>5. CASE ExclExists(p)
  <2>1. UNCHANGED <<named, addr, refused>> /\ pc' = [pc EXCEPT ![p] = "get"]
    BY <1>5 DEF ExclExists, kernel
  <2> QED BY <1>1, <1>11, <2>1, AloneStep DEF StartPcs
<1>12. CASE CreateFails(p)
  <2>1. UNCHANGED <<named, addr>> /\ pc' = [pc EXCEPT ![p] = "failed"] /\ refused \subseteq refused'
        /\ pc[p] = "create"
    BY <1>12 DEF CreateFails, kernel
  <2>2. NothingAttached(p)'
    BY <2>1 DEF AloneInv, NothingAttached
  <2> QED BY <1>1, <1>11, <2>1, <2>2, AloneStep DEF StartPcs
<1>6. CASE ExclRefused(p) \/ GetFails(p)
  <2>1. UNCHANGED <<named, addr>> /\ refused \subseteq refused' /\ AfterTry(p)
    BY <1>6 DEF ExclRefused, GetFails, kernel
  <2>2. PICK c \in {"excl", "create", "up"} :
          /\ pc' = [pc EXCEPT ![p] = c]
          /\ c = "create" => NothingAttached(p)'
    BY <2>1, AfterTryType DEF IInv, NothingAttached
  <2> QED BY <1>1, <1>11, <2>1, <2>2, AloneStep DEF StartPcs
<1>7. CASE Rmid(p)
  <2>1. PICK c \in {"excl", "create", "up"} :
          /\ pc' = [pc EXCEPT ![p] = c]
          /\ c = "create" => NothingAttached(p)'
    BY <1>7, AfterTryType DEF Rmid, IInv, NothingAttached
  <2>2. UNCHANGED <<addr, refused>>
        /\ named' = [g \in Groups |-> IF named[g] = shmid[p] THEN NoSeg ELSE named[g]]
    BY <1>7 DEF Rmid
  <2>3. \A q \in Procs, g \in Groups : addr[q][g] # shmid[p]
    BY <1>7 DEF Rmid, AloneInv
  <2>4. \A q \in Procs, g \in Groups : Named(q, g)'
    BY <1>2, <1>10, <2>2, <2>3 DEF Named
  <2> QED BY <1>1, <2>1, <2>2, <2>4, AloneStep DEF StartPcs
<1>8. CASE Get(p) \/ Create(p)
  <2>1. PICK c \in {"at", "create_at"} :
          /\ pc' = [pc EXCEPT ![p] = c] /\ UNCHANGED <<group, addr, refused>>
          /\ c = "create_at" => pc[p] = "create"
          /\ \/ named[group[p]] = NoSeg /\ NewSegment(p)
             \/ named[group[p]] # NoSeg /\ FoundSegment(p)
    BY <1>8 DEF Get, Create
  <2>2. c = "create_at" => NothingAttached(p)'
    BY <2>1 DEF AloneInv, NothingAttached
  <2>3. c \in StartPcs \cup {"up", "failed"} /\ c \notin {"rmid", "failed", "create"}
    BY DEF StartPcs
  <2>4. CASE named[group[p]] = NoSeg /\ NewSegment(p)
    <3>1. shmid'[p] = named'[group[p]] /\ shmid'[p] # NoSeg
      BY <2>4, NewSegmentAlone DEF NoSeg, SegIds
    <3>2. \A q \in Procs, g \in Groups : Named(q, g)'
      BY <1>10, <2>1, <2>4, NewSegmentAlone
    <3> QED BY <1>1, <2>1, <2>2, <2>3, <3>1, <3>2, AloneStep
  <2>5. CASE named[group[p]] # NoSeg /\ FoundSegment(p)
    <3>1. shmid'[p] = named'[group[p]] /\ shmid'[p] # NoSeg /\ named' = named
      BY <2>5 DEF FoundSegment, kernel, IInv, TypeOK
    <3> QED BY <1>1, <1>11, <2>1, <2>2, <2>3, <3>1, AloneStep
  <2> QED BY <2>1, <2>4, <2>5
<1>9. CASE At(p) \/ CreateAt(p)
  <2>1. PICK c \in {"excl", "create", "up"} :
          /\ pc' = [pc EXCEPT ![p] = c]
          /\ c = "create" => NothingAttached(p)'
    BY <1>9, AfterTryType DEF At, CreateAt, IInv, NothingAttached
  <2>2. named' = named /\ Attach(p)
    BY <1>9 DEF At, CreateAt, kernel
  <2>3. shmid[p] = named[group[p]] /\ shmid[p] # NoSeg
    BY <1>9 DEF At, CreateAt, AloneInv
  <2>4. shmid[p] \in Alive
    BY <1>3, <2>3 DEF Alive, NamedIds, IInv, TypeOK
  <2>5. \/ addr' = [addr EXCEPT ![p][group[p]] = named[group[p]]] /\ refused' = refused
        \/ addr' = [addr EXCEPT ![p][group[p]] = Bad] /\ refused' = refused \cup {p}
    BY <2>2, <2>3, <2>4 DEF Attach
  <2>6. \A q \in Procs : q # p => addr'[q] = addr[q]
    BY <2>5 DEF IInv, TypeOK
  <2>7. \A q \in Procs, g \in Groups : Named(q, g)'
    <3> SUFFICES ASSUME NEW q \in Procs, NEW g \in Groups PROVE Named(q, g)'
      OBVIOUS
    <3>1. Named(q, g) /\ refused \subseteq refused'
      BY <1>2, <2>5
    <3>2. CASE q = p /\ g = group[p]
      <4>1. \/ addr'[q][g] = named[g]
            \/ addr'[q][g] = Bad /\ q \in refused'
        BY <1>3, <2>5, <3>2 DEF IInv, TypeOK
      <4>2. named[g] # Bad
        BY DEF IInv, TypeOK, SegIds, NoSeg, Bad
      <4> QED BY <2>2, <4>1, <4>2 DEF Named
    <3>3. CASE ~ (q = p /\ g = group[p])
      <4>1. addr'[q][g] = addr[q][g]
        BY <2>5, <3>3 DEF IInv, TypeOK
      <4> QED BY <2>2, <3>1, <4>1 DEF Named
    <3> QED BY <3>2, <3>3
  <2> QED BY <1>1, <2>1, <2>6, <2>7, AloneStep DEF StartPcs
<1> QED BY <1>4, <1>5, <1>6, <1>7, <1>8, <1>9, <1>12 DEF StartStep

LEMMA RaceInit == Init => RaceInv
<1> SUFFICES ASSUME Init PROVE AloneInv
  BY DEF RaceInv
<1>1. \A p \in Procs, g \in Groups : addr[p][g] = NoSeg
  BY DEF Init
<1>2. \A p \in Procs, g \in Groups : Named(p, g)
  BY <1>1 DEF Named, NoSeg, Bad
<1>3. \A p \in Procs : pc[p] = "down"
  BY DEF Init
<1> QED BY <1>1, <1>2, <1>3 DEF AloneInv, NothingAttached, Starting, StartPcs

LEMMA RaceNext == IInv /\ RaceInv /\ [Next]_vars => RaceInv'
<1> SUFFICES ASSUME IInv, RaceInv, [Next]_vars, ~raced' PROVE AloneInv'
  BY DEF RaceInv
<1> AloneInv
  <2>1. raced \in BOOLEAN
    BY DEF IInv, TypeOK
  <2>2. raced' = raced \/ \E p \in Procs : Start(p)
    BY DEF Next, StartStep, ExclCreates, ExclExists, ExclRefused, Rmid, Get, GetFails, At,
           Create, CreateFails, CreateAt, Store, End, vars
  <2>3. ~raced
    BY <2>1, <2>2 DEF Start
  <2> QED BY <2>3 DEF RaceInv
<1>1. ASSUME NEW p \in Procs, Start(p) PROVE AloneInv'
  <2>1. \A q \in Procs : ~Starting(q)
    BY <1>1 DEF Start
  <2>2. \A q \in Procs : q # p => pc'[q] = pc[q]
    BY <1>1 DEF Start, IInv, TypeOK
  <2>3. pc'[p] = "excl" /\ UNCHANGED <<named, addr>> /\ refused' = refused \ {p}
        /\ pc[p] \in {"down", "failed"}
    BY <1>1 DEF Start, kernel, IInv, TypeOK
  <2>4. \A q \in Procs : pc'[q] \in StartPcs => q = p
    BY <2>1, <2>2 DEF Starting
  <2>5. \A q \in Procs, g \in Groups : Named(q, g)'
    <3> SUFFICES ASSUME NEW q \in Procs, NEW g \in Groups PROVE Named(q, g)'
      OBVIOUS
    <3>1. Named(q, g) /\ (q = p => addr[q][g] = NoSeg)
      BY <2>3 DEF AloneInv, NothingAttached
    <3> QED BY <2>3, <3>1 DEF Named, NoSeg, Bad
  <2>6. \A q \in Procs : NothingAttached(q)' <=> NothingAttached(q)
    BY <2>3 DEF NothingAttached
  <2>7. \A q \in Procs : pc'[q] \in {"down", "failed", "create", "create_at"} => NothingAttached(q)'
    BY <2>2, <2>3, <2>6 DEF AloneInv
  <2> QED BY <2>3, <2>4, <2>5, <2>7 DEF AloneInv, Starting, StartPcs
<1>2. ASSUME NEW p \in Procs, StartStep(p) PROVE AloneInv'
  BY <1>2, StartStepAlone
<1>3. ASSUME NEW p \in Procs, Store(p) PROVE AloneInv'
  <2>1. UNCHANGED <<named, pc, group, shmid, addr, refused>>
    BY <1>3 DEF Store, kernel, process
  <2>2. PICK g \in Groups : addr[p][g] \in SegIds /\ used' = used \cup {addr[p][g]}
    BY <1>3 DEF Store
  <2>3. \A q \in Procs : pc[q] = "rmid" => shmid[q] # addr[p][g]
    BY DEF AloneInv
  <2> QED BY <2>1, <2>2, <2>3 DEF AloneInv, Starting, Named, NothingAttached
<1>4. ASSUME NEW p \in Procs, End(p) PROVE AloneInv'
  <2>1. /\ pc' = [pc EXCEPT ![p] = "down"] /\ UNCHANGED <<named, group, used, refused>>
        /\ shmid' = [shmid EXCEPT ![p] = NoSeg]
        /\ addr' = [addr EXCEPT ![p] = [g \in Groups |-> NoSeg]]
    BY <1>4 DEF End, kernel
  <2>2. \A q \in Procs : /\ q = p => pc'[q] = "down" /\ \A g \in Groups : addr'[q][g] = NoSeg
                         /\ q # p => pc'[q] = pc[q] /\ shmid'[q] = shmid[q] /\ addr'[q] = addr[q]
    BY <2>1 DEF IInv, TypeOK
  <2>3. NoSeg \notin SegIds /\ Bad # NoSeg
    BY DEF NoSeg, SegIds, Bad
  <2>4. \A q \in Procs, g \in Groups : Named(q, g)'
    BY <2>1, <2>2, <2>3 DEF AloneInv, Named
  <2>5. \A q \in Procs : pc'[q] \in {"down", "failed", "create", "create_at"} => NothingAttached(q)'
    BY <2>2 DEF AloneInv, NothingAttached
  <2>6. \A q \in Procs :
          pc'[q] = "rmid" => /\ shmid'[q] \in SegIds \ used'
                             /\ \A r \in Procs, g \in Groups : addr'[r][g] # shmid'[q]
    BY <2>1, <2>2, <2>3 DEF AloneInv
  <2>7. \A q \in Procs : Starting(q)' => Starting(q) /\ q # p
    BY <2>2 DEF Starting, StartPcs
  <2>8. \A q \in Procs : pc'[q] \in {"at", "create_at"} =>
                           shmid'[q] = named'[group'[q]] /\ shmid'[q] # NoSeg
    BY <2>1, <2>2 DEF AloneInv
  <2> QED BY <2>4, <2>5, <2>6, <2>7, <2>8 DEF AloneInv
<1>5. CASE UNCHANGED vars
  BY <1>5 DEF vars, kernel, process, AloneInv, Starting, Named, NothingAttached
<1> QED BY <1>1, <1>2, <1>3, <1>4, <1>5 DEF Next

\* Unless starts have overlapped, a process that is up has attached for every group it
\* has what the key names, so two processes with one group have one segment; but for
\* a process the kernel has refused a segment, whose address may be none.
THEOREM SharedSegments == Spec => []SharedUnlessRaced
<1>1. IInv /\ RaceInv => SharedUnlessRaced
  <2> SUFFICES ASSUME IInv, AloneInv, NEW p \in Procs, NEW g \in Groups, addr[p][g] # NoSeg
               PROVE  \/ addr[p][g] = named[g] /\ named[g] # NoSeg
                      \/ addr[p][g] = Bad /\ p \in refused
    BY DEF RaceInv, SharedUnlessRaced
  <2> QED BY DEF AloneInv, Named
<1> QED BY <1>1, IInvAlways, RaceInit, RaceNext, PTL DEF Spec

\* Unless starts have overlapped, the probe of a start removes only what it has made
\* itself, never a segment that is in use.
THEOREM UsedSegmentsStay == Spec => UsedKeepsItsName
<1>1. IInv /\ RaceInv /\ [Next]_vars =>
        [~raced => \A g \in Groups : named[g] \in used => named'[g] = named[g]]_vars
  <2> SUFFICES ASSUME IInv, AloneInv, Next, NEW g \in Groups, named[g] \in used
               PROVE  named'[g] = named[g]
    BY DEF RaceInv
  <2> PICK p \in Procs : Start(p) \/ StartStep(p) \/ Store(p) \/ End(p)
    BY DEF Next
  <2>1. named[g] # NoSeg /\ named \in [Groups -> SegIds \cup {NoSeg}] /\ group[p] \in Groups
    BY DEF IInv, TypeOK, NoSeg, SegIds
  <2>2. CASE named[group[p]] = NoSeg /\ NewSegment(p)
    BY <2>1, <2>2 DEF NewSegment
  <2>3. CASE Rmid(p)
    <3>1. shmid[p] \notin used
      BY <2>3 DEF Rmid, AloneInv
    <3> QED BY <2>1, <2>3, <3>1 DEF Rmid
  <2>4. \/ named[group[p]] = NoSeg /\ NewSegment(p)
        \/ Rmid(p)
        \/ UNCHANGED named
    BY DEF Start, StartStep, ExclCreates, ExclExists, ExclRefused, Get, GetFails, At, Create,
           CreateFails, CreateAt, Store, End, FoundSegment, kernel
  <2> QED BY <2>2, <2>3, <2>4
<1> QED BY <1>1, IInvAlways, RaceInit, RaceNext, PTL DEF Spec, UsedKeepsItsName
=============================================================================
