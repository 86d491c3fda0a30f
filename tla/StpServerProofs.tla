-------------------------- MODULE StpServerProofs --------------------------
(***************************************************************************)
(* Theorems about StpServer, for every configuration that satisfies        *)
(* ConfigAssumption and every set of guids and tokens.                     *)
(***************************************************************************)
EXTENDS StpServer, FiniteSetTheorems, TLAPS

\* Facts about the constants that every step needs.
LEMMA Constants ==
  /\ MaxGroup \in Nat /\ MaxGroup > 0 /\ 0 \in Groups
  /\ \A g \in Groups : g \in Int /\ g >= 0 /\ g < MaxGroup /\ g + 1 \in 0 .. MaxGroup
  /\ FreshIdx \subseteq Slots
  /\ TokenExpires \in Nat /\ PoolSize \in Nat /\ PoolSize > 0 /\ MaxTime \in Nat
  /\ BlankItem \in Items
  /\ NoKey \in Keys
  /\ NoCall \in Calls
BY ConfigAssumption, RequestAssumption
   DEF ConfigAssumption, RequestAssumption, Groups, Slots, FreshIdx, BlankItem, Items,
       NoCall, Calls, Keys, NoKey, Results

\* What the running step holds: the probed group, a guid that was found in
\* stp_deploy, and an item to store.
HandlerInv ==
  /\ pc = "rmid" => probe \in Groups
  /\ pc \in {"negotiate", "insert"} \cup StorePcs => call.guid \in ValidGuids
  /\ pc \in {"insert"} \cup StorePcs => call.idx \in Slots /\ cur_group \in shm_map

\* Storing one item keeps the type of the segments.
LEMMA StoreItem ==
  ASSUME item \in [Groups -> [Slots -> Items]],
         NEW g \in Groups, NEW i \in Slots, NEW r \in Items
  PROVE  /\ [item EXCEPT ![g][i] = r] \in [Groups -> [Slots -> Items]]
         /\ \A h \in Groups, j \in Slots :
              [item EXCEPT ![g][i] = r][h][j] = IF h = g /\ j = i THEN r ELSE item[h][j]
OBVIOUS

TypeInv == TypeOK /\ HandlerInv

LEMMA TypeInit == Init => TypeInv
<1> SUFFICES ASSUME Init PROVE TypeInv
  OBVIOUS
<1> USE Constants DEF Init
<1>1. TypeOK
  BY DEF TypeOK, Pcs, StartPcs, HandlerPcs, StorePcs
<1>2. HandlerInv
  BY DEF HandlerInv, StorePcs
<1> QED
  BY <1>1, <1>2 DEF TypeInv

\* A process that ends leaves well-typed memory.
LEMMA ExitType ==
  ASSUME TypeInv, Exit, UNCHANGED <<now, shared, stp_status>>, torn' \subseteq Groups \X Slots
  PROVE  TypeInv'
BY Constants DEF TypeInv, TypeOK, HandlerInv, Exit, FreshMemory, shared, Pcs, StartPcs, HandlerPcs, StorePcs

LEMMA AnswerType ==
  ASSUME TypeInv, NEW r \in Results, Answer(r)
  PROVE  call' \in Calls /\ pc' = "reply"
BY DEF TypeInv, TypeOK, Answer, Calls

\* What a storing handler works on, and the items it may make of it.
LEMMA StoringItem ==
  ASSUME TypeInv, pc \in StorePcs
  PROVE  /\ cur_group \in Groups /\ call.idx \in Slots
         /\ item \in [Groups -> [Slots -> Items]] /\ CallItem \in Items
         /\ call \in Calls /\ call.group \in Int /\ call.idx \in Int
         /\ now \in Nat /\ NewExpiry \in Nat /\ NewKey \in Keys
<1>1. cur_group \in Groups /\ call.idx \in Slots /\ item \in [Groups -> [Slots -> Items]]
  BY DEF TypeInv, TypeOK, HandlerInv
<1>2. call \in Calls /\ now \in Nat
  BY DEF TypeInv, TypeOK
<1>3. NewExpiry \in Nat /\ NewKey \in Keys
  BY <1>2, Constants DEF NewExpiry, NewKey, Keys
<1> QED
  BY <1>1, <1>2, <1>3 DEF CallItem, Calls

\* The item of the running call is the one stored, and no other changes.
LEMMA StoreCall ==
  ASSUME TypeInv, pc \in StorePcs, NEW m \in Items, Store(m)
  PROVE  /\ item' \in [Groups -> [Slots -> Items]]
         /\ item'[cur_group][call.idx] = m
         /\ \A h \in Groups, j \in Slots :
              ~ (h = cur_group /\ j = call.idx) => item'[h][j] = item[h][j]
BY StoringItem, StoreItem DEF Store

\* An item with one member stored anew is an item still.
LEMMA StoredMemberType ==
  ASSUME NEW m \in Items, NEW g \in Int, NEW i \in Int, NEW e \in Nat, NEW k \in Keys
  PROVE  /\ [m EXCEPT !.group = g] \in Items /\ [m EXCEPT !.idx = i] \in Items
         /\ [m EXCEPT !.use_crypto = TRUE] \in Items /\ [m EXCEPT !.expires = e] \in Items
         /\ [m EXCEPT !.key = k] \in Items
BY DEF Items

\* A store keeps the types.
LEMMA StoreType ==
  ASSUME TypeInv, pc \in StorePcs, NEW m \in Items, Store(m),
         pc' \in {"insert"} \cup StorePcs,
         call' \in Calls, call'.guid = call.guid, call'.idx = call.idx,
         UNCHANGED <<now, segments, stp_status, probe, memory, pool>>, torn' \subseteq torn
  PROVE  TypeInv'
<1>1. item' \in [Groups -> [Slots -> Items]]
  BY StoreCall
<1>2. call.guid \in ValidGuids /\ call.idx \in Slots /\ cur_group \in shm_map /\ pc' # "rmid"
  BY DEF TypeInv, HandlerInv, StorePcs
<1> QED
  BY <1>1, <1>2 DEF TypeInv, TypeOK, HandlerInv, memory, Pcs, HandlerPcs

LEMMA TypeNext == TypeInv /\ [Next]_vars => TypeInv'
<1> SUFFICES ASSUME TypeInv, [Next]_vars PROVE TypeInv'
  OBVIOUS
<1> USE Constants
<1>1. CASE Start
  BY <1>1 DEF Start, FreshMemory, TypeInv, TypeOK, HandlerInv, shared, Pcs, StartPcs, HandlerPcs, StorePcs
<1>2. CASE StartStep
  <2>1. CASE AttachGroup
    <3>1. probe \in Groups
      BY <2>1 DEF AttachGroup, TypeInv, TypeOK, Groups
    <3>2. FreshIdx \in SUBSET FreshIdx /\ probe + 1 \in 0 .. MaxGroup
      BY <3>1
    <3> QED
      BY <2>1, <3>1, <3>2 DEF AttachGroup, TypeInv, TypeOK, HandlerInv, shared, Pcs, StartPcs, HandlerPcs, StorePcs
  <2>2. CASE ProbeCreates
    <3>1. probe \in Groups
      BY <2>2 DEF ProbeCreates, TypeInv, TypeOK, Groups
    <3> QED
      BY <2>2, <3>1 DEF ProbeCreates, TypeInv, TypeOK, HandlerInv, memory, Pcs, StartPcs, HandlerPcs, StorePcs
  <2>3. CASE RemoveProbe
    <3>1. probe \in Groups /\ probe + 1 \in 0 .. MaxGroup
      BY <2>3 DEF RemoveProbe, TypeInv, HandlerInv
    <3>2. [i \in Slots |-> BlankItem] \in [Slots -> Items]
      OBVIOUS
    <3> QED
      BY <2>3, <3>1, <3>2 DEF RemoveProbe, TypeInv, TypeOK, HandlerInv, memory, Pcs, StartPcs, HandlerPcs, StorePcs
  <2>4. CASE FinishInit
    BY <2>4 DEF FinishInit, TypeInv, TypeOK, HandlerInv, Pcs, StartPcs, HandlerPcs, StorePcs
  <2>5. CASE InitFails
    BY <2>5, ExitType DEF InitFails, TypeInv, TypeOK
  <2>6. CASE Listen
    <3>1. CASE Exit
      BY <2>6, <3>1, ExitType DEF Listen, TypeInv, TypeOK
    <3>2. CASE pc' = "idle" /\ UNCHANGED <<probe, memory, pool, call>>
      BY <2>6, <3>2 DEF Listen, TypeInv, TypeOK, HandlerInv, shared, memory, Pcs, StartPcs, HandlerPcs, StorePcs
    <3> QED
      BY <2>6, <3>1, <3>2 DEF Listen
  <2> QED
    BY <1>2, <2>1, <2>2, <2>3, <2>4, <2>5, <2>6 DEF StartStep
<1>3. CASE \E guid \in Guids \cup {NoGuid}, token \in RequestTokens : Receive(guid, token)
  <2> PICK guid \in Guids \cup {NoGuid}, token \in RequestTokens : Receive(guid, token)
    BY <1>3
  <2>1. token.group \in Int /\ token.idx \in Int
    BY RequestAssumption DEF RequestAssumption
  <2>2. [NoCall EXCEPT !.guid = guid, !.group = token.group, !.idx = token.idx] \in Calls
    BY <2>1 DEF Calls
  <2> QED
    BY <2>2 DEF Receive, TypeInv, TypeOK, HandlerInv, shared, memory, Pcs, StartPcs, HandlerPcs, StorePcs
<1>4. CASE ReceivePing
  BY <1>4, AnswerType
     DEF ReceivePing, TypeInv, TypeOK, HandlerInv, shared, memory, Results, Pcs, StartPcs, HandlerPcs, StorePcs
<1>5. CASE HandlerStep
  <2> USE DEF Results
  <2>1. CASE RejectGuid \/ QueryFails
    BY <2>1, AnswerType
       DEF RejectGuid, QueryFails, TypeInv, TypeOK, HandlerInv, shared, memory, Pcs, StartPcs, HandlerPcs, StorePcs
  <2>2. CASE QueryAnswers
    BY <2>2, AnswerType
       DEF QueryAnswers, TypeInv, TypeOK, HandlerInv, shared, memory, Pcs, StartPcs, HandlerPcs, StorePcs
  <2>3. CASE QueryThrows
    BY <2>3, AnswerType
       DEF QueryThrows, TypeInv, TypeOK, HandlerInv, shared, memory, Pcs, StartPcs, HandlerPcs, StorePcs
  <2>4. CASE Renew
    BY <2>4, AnswerType
       DEF Renew, FindItem, InRange, TypeInv, TypeOK, HandlerInv, shared, memory, Pcs, StartPcs, HandlerPcs, StorePcs
  <2>5. CASE PopFirst
    BY <2>5, AnswerType
       DEF PopFirst, FindItem, InRange, TypeInv, TypeOK, HandlerInv, shared, Pcs, StartPcs, HandlerPcs, StorePcs
  <2>6. CASE PoolExhausted
    BY <2>6 DEF PoolExhausted, TypeInv, TypeOK, HandlerInv, shared, memory, Pcs, StartPcs, HandlerPcs, StorePcs
  <2>7. ASSUME pc \in StorePcs
        PROVE  /\ call \in Calls
               /\ [CallItem EXCEPT !.group = call.group] \in Items
               /\ [CallItem EXCEPT !.idx = call.idx] \in Items
               /\ [CallItem EXCEPT !.use_crypto = TRUE] \in Items
               /\ [CallItem EXCEPT !.expires = NewExpiry] \in Items
               /\ [CallItem EXCEPT !.key = NoKey] \in Items
               /\ [CallItem EXCEPT !.key = NewKey] \in Items
    BY <2>7, StoringItem, StoredMemberType
  <2>8. CASE StoreGroup \/ StoreIdx \/ StoreUse \/ ClearKey
    <3>1. /\ pc \in StorePcs /\ pc' \in StorePcs
          /\ UNCHANGED <<now, segments, stp_status, probe, memory, pool, call, torn>>
      BY <2>8 DEF StoreGroup, StoreIdx, StoreUse, ClearKey, StorePcs
    <3>2. \E m \in Items : Store(m)
      BY <2>7, <2>8, <3>1 DEF StoreGroup, StoreIdx, StoreUse, ClearKey
    <3> QED
      BY <2>7, <3>1, <3>2, StoreType
  <2>9. CASE StoreExpires \/ FillKey
    <3>1. /\ pc \in StorePcs /\ pc' \in {"insert"} \cup StorePcs
          /\ UNCHANGED <<now, segments, stp_status, probe, memory, pool>> /\ torn' \subseteq torn
      BY <2>9 DEF StoreExpires, FillKey, StorePcs
    <3>2. \E m \in Items : Store(m)
      BY <2>7, <2>9, <3>1 DEF StoreExpires, FillKey
    <3>3. call' \in Calls /\ call'.guid = call.guid /\ call'.idx = call.idx
      BY <2>9, <3>1, StoringItem DEF StoreExpires, FillKey, Calls
    <3> QED
      BY <3>1, <3>2, <3>3, StoreType
  <2>10. pc = "insert" => RowOf(call) \in Rows
    BY RequestAssumption DEF RequestAssumption, RowOf, Rows, Calls, TypeInv, TypeOK, HandlerInv
  <2>11. CASE InsertOk \/ InsertFails \/ InsertThrows
    <3>1. stp_status' \subseteq Rows /\ pool' \in 0 .. PoolSize
      BY <2>10, <2>11 DEF InsertOk, InsertFails, InsertThrows, TypeInv, TypeOK
    <3>2. call' \in Calls /\ pc' = "reply"
      BY <2>11, AnswerType DEF InsertOk, InsertFails, InsertThrows
    <3>3. UNCHANGED <<now, shared, probe, memory, torn>>
      BY <2>11 DEF InsertOk, InsertFails, InsertThrows
    <3> QED
      BY <3>1, <3>2, <3>3 DEF TypeInv, TypeOK, HandlerInv, shared, memory, Pcs, StartPcs, HandlerPcs, StorePcs
  <2>12. CASE SendReply
    BY <2>12 DEF SendReply, TypeInv, TypeOK, HandlerInv, shared, memory, Pcs, StartPcs, HandlerPcs, StorePcs
  <2> QED
    BY <1>5, <2>1, <2>2, <2>3, <2>4, <2>5, <2>6, <2>8, <2>9, <2>11, <2>12 DEF HandlerStep
<1>6. CASE Tick
  BY <1>6 DEF Tick, TypeInv, TypeOK, HandlerInv, shared, memory
<1>7. CASE Quit
  BY <1>7, ExitType DEF Quit, TypeInv, TypeOK
<1>8. CASE Crash
  <2>1. torn' \subseteq Groups \X Slots
    BY <1>8 DEF Crash, TypeInv, TypeOK, HandlerInv, HalfWritten, StorePcs
  <2> QED
    BY <1>8, <2>1, ExitType DEF Crash
<1>9. CASE UNCHANGED vars
  BY <1>9 DEF vars, TypeInv, TypeOK, HandlerInv, shared, memory
<1> QED
  BY <1>1, <1>2, <1>3, <1>4, <1>5, <1>6, <1>7, <1>8, <1>9 DEF Next

\* Every variable keeps its type in every behaviour.
THEOREM TypeCorrect == Spec => []TypeOK
<1>1. TypeInv => TypeOK
  BY DEF TypeInv
<1> QED
  BY <1>1, TypeInit, TypeNext, PTL DEF Spec

\* A server that waits with an empty pool refuses every request until it ends, and
\* changes nothing meanwhile: nothing but a new process gives it a connection.
THEOREM StarvedServerRefuses == Spec => StarvedUntilRestart
<1>1. TypeInv /\ [Next]_vars =>
        [pool = 0 /\ pc \in {"idle", "check", "reply"} =>
           /\ pc' \in {"idle", "check", "reply", "down"}
           /\ pc' # "down" => pool' = 0
           /\ pc = "check" /\ pc' = "reply" => call'.res = "SR_InvalidGuid"
           /\ UNCHANGED <<shared, stp_status>>
           /\ pc' # "down" => UNCHANGED memory]_vars
  <2> SUFFICES ASSUME TypeInv, Next, pool = 0, pc \in {"idle", "check", "reply"}
               PROVE  /\ pc' \in {"idle", "check", "reply", "down"}
                      /\ pc' # "down" => pool' = 0
                      /\ pc = "check" /\ pc' = "reply" => call'.res = "SR_InvalidGuid"
                      /\ UNCHANGED <<shared, stp_status>>
                      /\ pc' # "down" => UNCHANGED memory
    OBVIOUS
  <2>1. CASE \E guid \in Guids \cup {NoGuid}, token \in RequestTokens : Receive(guid, token)
    BY <2>1 DEF Receive
  <2>2. CASE ReceivePing \/ SendReply \/ Tick
    BY <2>2 DEF ReceivePing, SendReply, Tick, Answer
  <2>3. CASE RejectGuid
    BY <2>3 DEF RejectGuid, Answer, TypeInv, TypeOK, Calls
  <2>4. CASE Quit \/ Crash
    BY <2>4 DEF Quit, Crash, Exit
  <2> QED
    BY <2>1, <2>2, <2>3, <2>4
       DEF Next, HandlerStep, StartStep, Start, AttachGroup, ProbeCreates, RemoveProbe, FinishInit,
           InitFails, Listen, QueryAnswers, QueryFails, QueryThrows, Renew, PopFirst,
           PoolExhausted, StoreGroup, StoreIdx, StoreUse, StoreExpires, ClearKey, FillKey,
           InsertOk, InsertFails, InsertThrows
<1> QED
  BY <1>1, TypeInit, TypeNext, PTL DEF Spec, StarvedUntilRestart

-----------------------------------------------------------------------------
(* Which groups are attached, and how many indexes the current one has.    *)

\* While Init probes, the groups attached so far lie below the probed one, and
\* cur_group_ is the last of them; a segment the process uses is never removed.
GroupInv ==
  /\ shm_map \subseteq segments
  /\ shm_map # {} => cur_group \in shm_map /\ \A g \in shm_map : g <= cur_group
  /\ pc \in {"probe", "rmid"} => \A g \in shm_map : g < probe
  /\ Serving => shm_map # {}

\* No index is popped while the process starts; afterwards each first negotiation
\* has taken one from the current group.
IndexInv ==
  /\ pc \in StartPcs => firsts = 0 /\ \A g \in shm_map : idx_set[g] = FreshIdx
  /\ Serving => Cardinality(idx_set[cur_group]) = MaxIdx - firsts
  /\ pc = "aborted" => firsts = MaxIdx

\* The two numbers the accounting compares.
LEMMA CountTypes == ASSUME TypeInv PROVE firsts \in Nat /\ MaxIdx \in Nat
<1>1. TypeOK
  BY DEF TypeInv
<1>2. firsts \in Nat
  BY <1>1 DEF TypeOK
<1>3. MaxIdx \in Nat
  BY ConfigAssumption DEF ConfigAssumption
<1> QED
  BY <1>2, <1>3

LEMMA FreshIdxSize == IsFiniteSet(FreshIdx) /\ Cardinality(FreshIdx) = MaxIdx
<1>1. MaxIdx \in Nat /\ 0 \in Int /\ MaxIdx - 1 \in Int /\ (0 > MaxIdx - 1 <=> MaxIdx = 0)
  BY ConfigAssumption DEF ConfigAssumption
<1>2. Cardinality(0 .. MaxIdx - 1) = IF 0 > MaxIdx - 1 THEN 0 ELSE (MaxIdx - 1) - 0 + 1
  BY <1>1, FS_Interval
<1> QED
  BY <1>1, <1>2, FS_Interval DEF FreshIdx

LEMMA GroupInit == Init => GroupInv /\ IndexInv
BY DEF Init, GroupInv, IndexInv, Serving, StartPcs, HandlerPcs, StorePcs

\* The steps that touch neither the groups nor their indexes.
LEMMA GroupFrame ==
  ASSUME GroupInv, IndexInv, UNCHANGED <<segments, memory>>,
         pc \in {"idle"} \cup HandlerPcs, pc' \in {"idle"} \cup HandlerPcs
  PROVE  GroupInv' /\ IndexInv'
BY DEF GroupInv, IndexInv, memory, Serving, StartPcs, HandlerPcs, StorePcs

LEMMA ExitGroup ==
  ASSUME Exit PROVE GroupInv' /\ IndexInv'
BY DEF Exit, FreshMemory, GroupInv, IndexInv, Serving, StartPcs, HandlerPcs, StorePcs

LEMMA GroupNext == TypeInv /\ GroupInv /\ IndexInv /\ [Next]_vars => GroupInv' /\ IndexInv'
<1> SUFFICES ASSUME TypeInv, GroupInv, IndexInv, [Next]_vars PROVE GroupInv' /\ IndexInv'
  OBVIOUS
<1> USE Constants
<1>1. CASE Start
  BY <1>1 DEF Start, FreshMemory, shared, GroupInv, IndexInv, Serving, StartPcs, HandlerPcs, StorePcs
<1>2. CASE AttachGroup
  <2>1. /\ probe \in Groups /\ probe \in segments /\ probe < MaxGroup
        /\ idx_set \in [Groups -> SUBSET FreshIdx]
        /\ shm_map \subseteq Groups
    BY <1>2 DEF AttachGroup, TypeInv, TypeOK, Groups
  <2>2. GroupInv'
    BY <1>2, <2>1 DEF AttachGroup, shared, GroupInv, Serving, HandlerPcs, StorePcs
  <2>3. IndexInv'
    BY <1>2, <2>1 DEF AttachGroup, shared, GroupInv, IndexInv, Serving, StartPcs, HandlerPcs, StorePcs
  <2> QED
    BY <2>2, <2>3
<1>3. CASE ProbeCreates
  BY <1>3 DEF ProbeCreates, memory, GroupInv, IndexInv, Serving, StartPcs, HandlerPcs, StorePcs
<1>4. CASE RemoveProbe
  <2>1. probe \in Groups /\ probe \notin shm_map /\ shm_map \subseteq Groups
    BY <1>4 DEF RemoveProbe, TypeInv, TypeOK, HandlerInv, GroupInv
  <2> QED
    BY <1>4, <2>1 DEF RemoveProbe, memory, GroupInv, IndexInv, Serving, StartPcs, HandlerPcs, StorePcs
<1>5. CASE FinishInit
  <2>1. CASE shm_map = {}
    <3>1. idx_set'[0] = FreshIdx
      BY <1>5, <2>1 DEF FinishInit, TypeInv, TypeOK
    <3>2. shm_map' = {0} /\ cur_group' = 0 /\ firsts' = 0 /\ pc' = "listen" /\ 0 \in segments'
      BY <1>5, <2>1 DEF FinishInit, IndexInv, StartPcs
    <3>3. MaxIdx \in Nat
      BY ConfigAssumption DEF ConfigAssumption
    <3> QED
      BY <3>1, <3>2, <3>3, FreshIdxSize DEF GroupInv, IndexInv, Serving, StartPcs, HandlerPcs, StorePcs
  <2>2. CASE shm_map # {}
    <3>1. idx_set[cur_group] = FreshIdx /\ firsts = 0
      BY <1>5, <2>2 DEF FinishInit, GroupInv, IndexInv, StartPcs
    <3>2. UNCHANGED <<segments, shm_map, idx_set, cur_group, firsts>> /\ pc' = "listen"
      BY <1>5, <2>2 DEF FinishInit
    <3>3. MaxIdx \in Nat
      BY ConfigAssumption DEF ConfigAssumption
    <3>4. pc \in StartPcs
      BY <1>5 DEF FinishInit, StartPcs
    <3> QED
      BY <2>2, <3>1, <3>2, <3>3, <3>4, FreshIdxSize DEF GroupInv, IndexInv, Serving, StartPcs, HandlerPcs, StorePcs
  <2> QED
    BY <2>1, <2>2
<1>6. CASE InitFails \/ Quit \/ Crash
  BY <1>6, ExitGroup DEF InitFails, Quit, Crash
<1>7. CASE Listen
  <2>1. CASE Exit
    BY <2>1, ExitGroup
  <2>2. CASE pc' = "idle" /\ UNCHANGED <<probe, memory, pool, call>>
    BY <1>7, <2>2 DEF Listen, shared, memory, GroupInv, IndexInv, Serving, StartPcs, HandlerPcs, StorePcs
  <2> QED
    BY <1>7, <2>1, <2>2 DEF Listen
<1>8. CASE \E guid \in Guids \cup {NoGuid}, token \in RequestTokens : Receive(guid, token)
  BY <1>8, GroupFrame DEF Receive, shared, HandlerPcs, StorePcs
<1>9. CASE ReceivePing
  BY <1>9, GroupFrame DEF ReceivePing, Answer, shared, HandlerPcs, StorePcs
<1>10. CASE HandlerStep
  <2>1. CASE RejectGuid \/ QueryAnswers \/ QueryFails \/ QueryThrows \/ Renew
    BY <2>1, GroupFrame
       DEF RejectGuid, QueryAnswers, QueryFails, QueryThrows, Renew, FindItem, Answer, shared, HandlerPcs, StorePcs
  <2>2. CASE PopFirst
    <3>1. PICK i \in idx_set[cur_group] :
            idx_set' = [idx_set EXCEPT ![cur_group] = idx_set[cur_group] \ {i}]
      BY <2>2 DEF PopFirst
    <3>2. cur_group \in Groups /\ idx_set \in [Groups -> SUBSET FreshIdx] /\ firsts \in Nat
      BY DEF TypeInv, TypeOK
    <3>3. IsFiniteSet(idx_set[cur_group])
      BY <3>2, FreshIdxSize, FS_Subset
    <3>4. Cardinality(idx_set'[cur_group]) = Cardinality(idx_set[cur_group]) - 1
      BY <3>1, <3>2, <3>3, FS_RemoveElement
    <3>5. UNCHANGED <<segments, shm_map, cur_group>> /\ firsts' = firsts + 1 /\ pc' \in {"group", "reply"}
      BY <2>2 DEF PopFirst, FindItem, Answer, shared
    <3>6. pc = "negotiate" /\ Serving /\ Serving'
      BY <2>2, <3>5 DEF PopFirst, Serving, HandlerPcs, StorePcs
    <3>7. MaxIdx \in Nat
      BY ConfigAssumption DEF ConfigAssumption
    <3>8. Cardinality(idx_set'[cur_group']) = MaxIdx - firsts'
      BY <3>2, <3>4, <3>5, <3>6, <3>7 DEF IndexInv
    <3> QED
      BY <3>5, <3>6, <3>8 DEF GroupInv, IndexInv, StartPcs
  <2>3. CASE PoolExhausted
    <3>1. Cardinality(idx_set[cur_group]) = 0 /\ Serving
      BY <2>3, FS_EmptySet DEF PoolExhausted, Serving, HandlerPcs, StorePcs
    <3>2. firsts \in Nat /\ MaxIdx \in Nat
      BY CountTypes
    <3>3. Cardinality(idx_set[cur_group]) = MaxIdx - firsts
      BY <3>1, Zenon DEF IndexInv
    <3>4. firsts = MaxIdx
      BY <3>1, <3>2, <3>3
    <3> QED
      BY <2>3, <3>4 DEF PoolExhausted, shared, memory, GroupInv, IndexInv, Serving, StartPcs, HandlerPcs, StorePcs
  <2>4. CASE StoreGroup \/ StoreIdx \/ StoreUse \/ StoreExpires \/ ClearKey \/ FillKey
    BY <2>4, GroupFrame
       DEF StoreGroup, StoreIdx, StoreUse, StoreExpires, ClearKey, FillKey, memory, HandlerPcs, StorePcs
  <2>5. CASE InsertOk \/ InsertFails \/ InsertThrows \/ SendReply
    BY <2>5, GroupFrame DEF InsertOk, InsertFails, InsertThrows, SendReply, Answer, shared, HandlerPcs, StorePcs
  <2> QED
    BY <1>10, <2>1, <2>2, <2>3, <2>4, <2>5 DEF HandlerStep
<1>11. CASE Tick
  BY <1>11 DEF Tick, shared, memory, GroupInv, IndexInv, Serving
<1>12. CASE UNCHANGED vars
  BY <1>12 DEF vars, shared, memory, GroupInv, IndexInv, Serving
<1> QED
  BY <1>1, <1>2, <1>3, <1>4, <1>5, <1>6, <1>7, <1>8, <1>9, <1>10, <1>11, <1>12 DEF Next, StartStep

\* cur_group_ is the last attached group: the lookup of CryptoNegotiate finds its
\* group, and the branch that opens a further group always meets a missing entry.
THEOREM CurGroupCorrect == Spec => []CurGroupIsLast
<1>1. GroupInv => CurGroupIsLast
  BY DEF GroupInv, CurGroupIsLast
<1> QED
  BY <1>1, TypeInit, TypeNext, GroupInit, GroupNext, PTL DEF Spec

\* Every first negotiation costs one index of the current group for good, and the
\* process aborts after exactly MaxIdx of them.
THEOREM IndexLeakCorrect == Spec => []IndexLeakAccounting
<1>1. IndexInv => IndexLeakAccounting
  BY DEF IndexInv, IndexLeakAccounting
<1> QED
  BY <1>1, TypeInit, TypeNext, GroupInit, GroupNext, PTL DEF Spec

-----------------------------------------------------------------------------
(* What the running negotiation has stored, what it answers and records.   *)

\* What the item looks like when the running call has stored all of it, with key k.
StoredItem(k) == [group |-> call.group, idx |-> call.idx, key |-> k,
                  use_crypto |-> TRUE, expires |-> call.expires]

\* Between its stores the handler finds what it has stored before; once the key is
\* drawn the item is whole, and no longer one a crash has left half written.
StoredInv ==
  /\ pc \in {"idx", "use", "expires", "clear", "fill"} => CallItem.group = call.group
  /\ pc \in {"use", "expires", "clear", "fill"} => CallItem.idx = call.idx
  /\ pc \in {"expires", "clear", "fill"} => CallItem.use_crypto = TRUE
  /\ pc \in {"clear", "fill"} => CallItem.expires = call.expires
  /\ pc = "insert" => CallItem = StoredItem(call.key) /\ <<cur_group, call.idx>> \notin torn
  /\ pc = "reply" /\ call.res = "SR_OK" =>
       call.guid \in ValidGuids /\ CallItem = StoredItem(call.key)

LEMMA StoredInit == Init => StoredInv
BY DEF Init, StoredInv

\* Where the handler is not storing, and has not stored, there is nothing to show.
LEMMA NothingStored ==
  ASSUME pc' \notin {"idx", "use", "expires", "clear", "fill", "insert"},
         pc' = "reply" => call'.res # "SR_OK"
  PROVE  StoredInv'
BY DEF StoredInv

\* What a refusal or a pong answers.
LEMMA OtherAnswer ==
  ASSUME TypeInv, NEW r \in Results \ {"SR_OK"}, Answer(r)
  PROVE  pc' = "reply" /\ call'.res # "SR_OK"
BY DEF TypeInv, TypeOK, Answer, Calls

LEMMA StoredNext == TypeInv /\ StoredInv /\ [Next]_vars => StoredInv'
<1> SUFFICES ASSUME TypeInv, StoredInv, [Next]_vars PROVE StoredInv'
  OBVIOUS
<1> USE Constants
<1>1. CASE Start \/ StartStep \/ Quit \/ Crash \/ PoolExhausted \/ SendReply
  <2>1. pc' \in {"down", "aborted", "probe", "rmid", "listen", "idle"}
    BY <1>1 DEF Start, StartStep, AttachGroup, ProbeCreates, RemoveProbe, FinishInit, InitFails,
                Listen, Quit, Crash, PoolExhausted, SendReply, Exit
  <2> QED
    BY <2>1, NothingStored
<1>2. CASE \E guid \in Guids \cup {NoGuid}, token \in RequestTokens : Receive(guid, token)
  BY <1>2, NothingStored DEF Receive
<1>3. CASE ReceivePing \/ RejectGuid \/ QueryFails
  BY <1>3, OtherAnswer, NothingStored
     DEF ReceivePing, RejectGuid, QueryFails, Results
<1>4. CASE QueryAnswers \/ QueryThrows
  BY <1>4, OtherAnswer, NothingStored DEF QueryAnswers, QueryThrows, Results
<1>5. CASE Renew \/ PopFirst
  BY <1>5, OtherAnswer, NothingStored DEF Renew, PopFirst, FindItem, Results
<1>6. ASSUME NEW m \in Items, Store(m), pc \in StorePcs, cur_group' = cur_group,
             call'.idx = call.idx
      PROVE  CallItem' = m
  BY <1>6, StoreCall DEF CallItem
<1>7. CASE StoreGroup \/ StoreIdx \/ StoreUse \/ ClearKey
  <2>1. pc \in StorePcs /\ UNCHANGED <<cur_group, call>>
    BY <1>7 DEF StoreGroup, StoreIdx, StoreUse, ClearKey, StorePcs, memory
  <2>2. /\ CallItem \in Items /\ call.group \in Int /\ call.idx \in Int
    BY <2>1, StoringItem
  <2>3. CASE StoreGroup
    <3> DEFINE m == [CallItem EXCEPT !.group = call.group]
    <3>1. m \in Items /\ m.group = call.group
      BY <2>2, StoredMemberType DEF Items
    <3>2. pc' = "idx" /\ Store(m)
      BY <2>3 DEF StoreGroup
    <3> HIDE DEF m
    <3>3. CallItem' = m
      BY <1>6, <2>1, <3>1, <3>2
    <3> QED
      BY <2>1, <3>1, <3>2, <3>3 DEF StoredInv
  <2>4. CASE StoreIdx
    <3> DEFINE m == [CallItem EXCEPT !.idx = call.idx]
    <3>1. m \in Items /\ m.group = CallItem.group /\ m.idx = call.idx
      BY <2>2, StoredMemberType DEF Items
    <3>2. pc = "idx" /\ pc' = "use" /\ Store(m)
      BY <2>4 DEF StoreIdx
    <3> HIDE DEF m
    <3>3. CallItem' = m
      BY <1>6, <2>1, <3>1, <3>2
    <3> QED
      BY <2>1, <3>1, <3>2, <3>3 DEF StoredInv
  <2>5. CASE StoreUse
    <3> DEFINE m == [CallItem EXCEPT !.use_crypto = TRUE]
    <3>1. m \in Items /\ m.group = CallItem.group /\ m.idx = CallItem.idx /\ m.use_crypto = TRUE
      BY <2>2, StoredMemberType DEF Items
    <3>2. pc = "use" /\ pc' = "expires" /\ Store(m)
      BY <2>5 DEF StoreUse
    <3> HIDE DEF m
    <3>3. CallItem' = m
      BY <1>6, <2>1, <3>1, <3>2
    <3> QED
      BY <2>1, <3>1, <3>2, <3>3 DEF StoredInv
  <2>6. CASE ClearKey
    <3> DEFINE m == [CallItem EXCEPT !.key = NoKey]
    <3>1. /\ m \in Items /\ m.group = CallItem.group /\ m.idx = CallItem.idx
          /\ m.use_crypto = CallItem.use_crypto /\ m.expires = CallItem.expires
      BY <2>2, StoredMemberType DEF Items
    <3>2. pc = "clear" /\ pc' = "fill" /\ Store(m)
      BY <2>6 DEF ClearKey
    <3> HIDE DEF m
    <3>3. CallItem' = m
      BY <1>6, <2>1, <3>1, <3>2
    <3> QED
      BY <2>1, <3>1, <3>2, <3>3 DEF StoredInv
  <2> QED
    BY <1>7, <2>3, <2>4, <2>5, <2>6
<1>8. CASE StoreExpires
  <2> DEFINE m == [CallItem EXCEPT !.expires = NewExpiry]
  <2>1. /\ pc = "expires" /\ pc' = "clear" /\ pc \in StorePcs /\ Store(m)
        /\ cur_group' = cur_group /\ call' = [call EXCEPT !.expires = NewExpiry]
    BY <1>8 DEF StoreExpires, StorePcs, memory
  <2>2. CallItem \in Items /\ call \in Calls /\ NewExpiry \in Nat
    BY <2>1, StoringItem
  <2>3. call'.idx = call.idx /\ call'.group = call.group /\ call'.expires = NewExpiry
    BY <2>1, <2>2 DEF Calls
  <2>4. /\ m \in Items /\ m.group = CallItem.group /\ m.idx = CallItem.idx
        /\ m.use_crypto = CallItem.use_crypto /\ m.expires = NewExpiry
    BY <2>2, Constants DEF Items
  <2> HIDE DEF m
  <2>5. CallItem' = m
    BY <1>6, <2>1, <2>3, <2>4
  <2> QED
    BY <2>1, <2>3, <2>4, <2>5 DEF StoredInv
<1>9. CASE FillKey
  <2> DEFINE m == [CallItem EXCEPT !.key = NewKey]
  <2>1. /\ pc = "fill" /\ pc' = "insert" /\ pc \in StorePcs /\ Store(m)
        /\ cur_group' = cur_group /\ call' = [call EXCEPT !.key = NewKey]
        /\ torn' = torn \ {<<cur_group, call.idx>>}
    BY <1>9 DEF FillKey, StorePcs, memory
  <2>2. CallItem \in Items /\ call \in Calls /\ NewKey \in Keys
    BY <2>1, StoringItem
  <2>3. /\ call'.idx = call.idx /\ call'.group = call.group
        /\ call'.expires = call.expires /\ call'.key = NewKey
    BY <2>1, <2>2 DEF Calls
  <2>4. m \in Items /\ m = [group |-> CallItem.group, idx |-> CallItem.idx, key |-> NewKey,
                            use_crypto |-> CallItem.use_crypto, expires |-> CallItem.expires]
    BY <2>2 DEF Items
  <2> HIDE DEF m
  <2>5. CallItem' = m
    BY <1>6, <2>1, <2>3, <2>4
  <2>6. CallItem' = [group |-> call'.group, idx |-> call'.idx, key |-> call'.key,
                     use_crypto |-> TRUE, expires |-> call'.expires]
    BY <2>1, <2>3, <2>4, <2>5 DEF StoredInv
  <2> QED
    BY <2>1, <2>3, <2>6 DEF StoredInv, StoredItem
<1>10. CASE InsertOk \/ InsertFails \/ InsertThrows
  <2>1. /\ pc = "insert" /\ pc' = "reply" /\ UNCHANGED <<item, cur_group>>
        /\ call' = [call EXCEPT !.res = "SR_OK"]
    BY <1>10 DEF InsertOk, InsertFails, InsertThrows, Answer, shared, memory
  <2>2. /\ call'.idx = call.idx /\ call'.group = call.group /\ call'.guid = call.guid
        /\ call'.expires = call.expires /\ call'.key = call.key
    BY <2>1 DEF TypeInv, TypeOK, Calls
  <2>3. call.guid \in ValidGuids
    BY <2>1 DEF TypeInv, HandlerInv
  <2>4. CallItem' = CallItem /\ CallItem = StoredItem(call.key)
    BY <2>1, <2>2 DEF StoredInv, CallItem
  <2> QED
    BY <2>1, <2>2, <2>3, <2>4 DEF StoredInv, StoredItem
<1>11. CASE Tick \/ UNCHANGED vars
  BY <1>11 DEF Tick, vars, shared, memory, StoredInv, CallItem, StoredItem
<1> QED
  BY <1>1, <1>2, <1>3, <1>4, <1>5, <1>7, <1>8, <1>9, <1>10, <1>11 DEF Next, HandlerStep

\* What the client is told is SR_OK is what its item holds when the reply is sent,
\* and nobody without a deployed guid is told so.
THEOREM ReplyIsStored == Spec => []ReplyMatchesStore
<1>1. StoredInv => ReplyMatchesStore
  BY DEF StoredInv, ReplyMatchesStore, CallItem, StoredItem
<1> QED
  BY <1>1, TypeInit, TypeNext, StoredInit, StoredNext, PTL DEF Spec

\* A row gets into stp_status only behind the key it reports, and the crash marks of
\* the slot are gone by then.
THEOREM RecordsAreStored == Spec => RecordAfterStore
<1>1. TypeInv /\ StoredInv /\ [Next]_vars =>
        [\A row \in stp_status' \ stp_status :
           /\ row.stp_guid \in ValidGuids
           /\ <<cur_group, call.idx>> \notin torn
           /\ item[cur_group][call.idx].key = row.stp_key
           /\ item[cur_group][call.idx].expires = call.expires]_vars
  <2> SUFFICES ASSUME TypeInv, StoredInv, Next, NEW row \in stp_status' \ stp_status
               PROVE  /\ row.stp_guid \in ValidGuids
                      /\ <<cur_group, call.idx>> \notin torn
                      /\ item[cur_group][call.idx].key = row.stp_key
                      /\ item[cur_group][call.idx].expires = call.expires
    OBVIOUS
  <2>1. InsertOk \/ InsertThrows
    BY DEF Next, StartStep, HandlerStep, Start, AttachGroup, ProbeCreates, RemoveProbe, FinishInit,
           InitFails, Listen, Receive, ReceivePing, RejectGuid, QueryAnswers, QueryFails,
           QueryThrows, Renew, PopFirst, PoolExhausted, StoreGroup, StoreIdx, StoreUse,
           StoreExpires, ClearKey, FillKey, InsertFails,
           SendReply, Tick, Quit, Crash
  <2>2. pc = "insert" /\ row = RowOf(call)
    BY <2>1 DEF InsertOk, InsertThrows
  <2>3. call.guid \in ValidGuids /\ <<cur_group, call.idx>> \notin torn
    BY <2>2 DEF TypeInv, HandlerInv, StoredInv
  <2>4. CallItem = StoredItem(call.key)
    BY <2>2 DEF StoredInv
  <2> QED
    BY <2>2, <2>3, <2>4 DEF RowOf, CallItem, StoredItem
<1> QED
  BY <1>1, TypeInit, TypeNext, StoredInit, StoredNext, PTL DEF Spec, RecordAfterStore

-----------------------------------------------------------------------------
(* What the segments hold.                                                 *)

\* The part of ConsistentUnlessTorn that a store under way keeps, too.
SlotInv(g, i) ==
  /\ item[g][i].expires <= now + TokenExpires
  /\ item[g][i].use_crypto =>
       /\ item[g][i].idx = i
       /\ <<g, i>> \notin torn /\ ~MidWrite(g, i) =>
            /\ item[g][i].key # NoKey
            /\ item[g][i].key \in item[g][i].expires - TokenExpires .. now

BlankSlot(g, i) == item[g][i] = BlankItem

\* A segment that does not exist, or that the probe has just created, is blank.
SegmentInv ==
  /\ \A g \in Groups, i \in Slots : SlotInv(g, i)
  /\ \A g \in Groups \ segments, i \in Slots : BlankSlot(g, i)
  /\ pc = "rmid" => \A i \in Slots : BlankSlot(probe, i)

LEMMA SegmentInit == Init => SegmentInv
BY Constants DEF Init, SegmentInv, SlotInv, BlankSlot, BlankItem

\* The steps that leave the segments, the clock and the half-written slots alone.
LEMMA SegmentFrame ==
  ASSUME SegmentInv, UNCHANGED <<now, segments, item, torn>>, pc' # "rmid",
         \A g \in Groups, i \in Slots : MidWrite(g, i) => MidWrite(g, i)'
  PROVE  SegmentInv'
BY DEF SegmentInv, SlotInv, BlankSlot

\* A store into the item of the running call leaves every other slot as it was.
LEMMA SegmentStore ==
  ASSUME TypeInv, GroupInv, SegmentInv, pc \in StorePcs, NEW m \in Items, Store(m),
         pc' # "rmid", segments' = segments, now' = now,
         cur_group' = cur_group, call'.idx = call.idx,
         \A g \in Groups, i \in Slots :
           ~ (g = cur_group /\ i = call.idx) => (<<g, i>> \in torn' <=> <<g, i>> \in torn),
         SlotInv(cur_group, call.idx)'
  PROVE  SegmentInv'
<1>1. cur_group \in Groups /\ call.idx \in Slots /\ cur_group \in segments
  BY DEF TypeInv, TypeOK, HandlerInv, GroupInv
<1>0. \A g \in Groups, i \in Slots :
        ~ (g = cur_group /\ i = call.idx) => item'[g][i] = item[g][i]
  BY StoreCall
<1>2. ASSUME NEW g \in Groups, NEW i \in Slots PROVE SlotInv(g, i)'
  <2>1. CASE g = cur_group /\ i = call.idx
    BY <2>1
  <2>2. CASE ~ (g = cur_group /\ i = call.idx)
    <3>1. ~ MidWrite(g, i) /\ ~ MidWrite(g, i)'
      BY <2>2 DEF MidWrite
    <3> QED
      BY <1>0, <2>2, <3>1 DEF SegmentInv, SlotInv
  <2> QED
    BY <2>1, <2>2
<1>3. ASSUME NEW g \in Groups \ segments', NEW i \in Slots PROVE BlankSlot(g, i)'
  <2>1. g \in Groups \ segments /\ g # cur_group
    BY <1>1
  <2>2. item'[g][i] = item[g][i]
    BY <1>0, <2>1
  <2> QED
    BY <2>1, <2>2 DEF SegmentInv, BlankSlot
<1> QED
  BY <1>2, <1>3 DEF SegmentInv

LEMMA SegmentNext ==
  TypeInv /\ GroupInv /\ StoredInv /\ SegmentInv /\ [Next]_vars => SegmentInv'
<1> SUFFICES ASSUME TypeInv, GroupInv, StoredInv, SegmentInv, [Next]_vars PROVE SegmentInv'
  OBVIOUS
<1> USE Constants DEF HalfWritten
<1>1. CASE Start \/ AttachGroup \/ InitFails \/ Listen \/ Quit
  <2>1. UNCHANGED <<now, segments, item, torn>> /\ pc' # "rmid"
    BY <1>1 DEF Start, AttachGroup, InitFails, Listen, Quit, Exit, shared
  <2>2. pc \notin HalfWritten
    BY <1>1 DEF Start, AttachGroup, InitFails, Listen, Quit
  <2> QED
    BY <2>1, <2>2, SegmentFrame DEF MidWrite
<1>2. CASE ProbeCreates
  BY <1>2 DEF ProbeCreates, memory, SegmentInv, SlotInv, BlankSlot, MidWrite, TypeInv, TypeOK, Groups
<1>3. CASE RemoveProbe
  <2>1. probe \in Groups
    BY <1>3 DEF RemoveProbe, TypeInv, HandlerInv
  <2>2. \A i \in Slots : item'[probe][i] = BlankItem /\ item[probe][i] = BlankItem
    BY <1>3, <2>1 DEF RemoveProbe, TypeInv, TypeOK, SegmentInv, BlankSlot
  <2>3. \A g \in Groups, i \in Slots : item'[g][i] = item[g][i]
    BY <1>3, <2>1, <2>2 DEF RemoveProbe, TypeInv, TypeOK
  <2>4. UNCHANGED <<now, torn>> /\ pc' # "rmid" /\ pc \notin HalfWritten
        /\ segments' = segments \ {probe}
    BY <1>3 DEF RemoveProbe
  <2> QED
    BY <2>1, <2>2, <2>3, <2>4 DEF SegmentInv, SlotInv, BlankSlot, MidWrite
<1>4. CASE FinishInit
  <2>1. UNCHANGED <<now, item, torn>> /\ pc' # "rmid" /\ pc \notin HalfWritten
        /\ segments \subseteq segments'
    BY <1>4 DEF FinishInit
  <2> QED
    BY <2>1 DEF SegmentInv, SlotInv, BlankSlot, MidWrite
<1>5. CASE \E guid \in Guids \cup {NoGuid}, token \in RequestTokens : Receive(guid, token)
  BY <1>5, SegmentFrame DEF Receive, shared, MidWrite
<1>6. CASE ReceivePing
  BY <1>6, SegmentFrame DEF ReceivePing, Answer, shared, MidWrite
<1>7. CASE RejectGuid \/ QueryAnswers \/ QueryFails \/ QueryThrows \/ Renew \/ PopFirst \/ PoolExhausted
  <2>1. UNCHANGED <<now, segments, item, torn>> /\ pc' # "rmid" /\ pc \notin HalfWritten
    BY <1>7 DEF RejectGuid, QueryAnswers, QueryFails, QueryThrows, Renew, PopFirst,
                PoolExhausted, FindItem, Answer, shared
  <2> QED
    BY <2>1, SegmentFrame DEF MidWrite
<1>8. CASE InsertOk \/ InsertFails \/ InsertThrows \/ SendReply
  <2>1. UNCHANGED <<now, segments, item, torn>> /\ pc' # "rmid" /\ pc \notin HalfWritten
    BY <1>8 DEF InsertOk, InsertFails, InsertThrows, SendReply, Answer, shared
  <2> QED
    BY <2>1, SegmentFrame DEF MidWrite
<1>9. ASSUME pc \in StorePcs
      PROVE  /\ CallItem \in Items /\ call \in Calls /\ call.group \in Int /\ call.idx \in Int
             /\ SlotInv(cur_group, call.idx) /\ CallItem = item[cur_group][call.idx]
             /\ now \in Nat /\ NewExpiry \in Nat
  BY <1>9, StoringItem DEF SegmentInv, CallItem
\* The slot as the running step leaves it.
<1> DEFINE Slot == /\ CallItem'.expires <= now + TokenExpires
                   /\ CallItem'.use_crypto =>
                        /\ CallItem'.idx = call.idx
                        /\ <<cur_group, call.idx>> \notin torn' /\ pc' \notin HalfWritten =>
                             /\ CallItem'.key # NoKey
                             /\ CallItem'.key \in CallItem'.expires - TokenExpires .. now
<1>10. ASSUME NEW m \in Items, Store(m), pc \in StorePcs, pc' # "rmid",
              UNCHANGED <<now, segments, cur_group>>, call'.idx = call.idx,
              torn' \in {torn, torn \ {<<cur_group, call.idx>>}},
              Slot
       PROVE  SegmentInv'
  <2>1. SlotInv(cur_group, call.idx)'
    BY <1>10 DEF SlotInv, MidWrite, CallItem
  <2> QED
    BY <1>10, <2>1, SegmentStore
<1>11. ASSUME NEW m \in Items, Store(m), pc \in StorePcs, cur_group' = cur_group, call'.idx = call.idx
       PROVE  CallItem' = m
  BY <1>11, StoreCall DEF CallItem
<1>12. CASE StoreGroup \/ StoreIdx \/ StoreUse \/ ClearKey
  <2>1. pc \in StorePcs /\ pc' # "rmid" /\ UNCHANGED <<now, segments, cur_group, call, torn>>
    BY <1>12 DEF StoreGroup, StoreIdx, StoreUse, ClearKey, StorePcs, memory
  <2>2. CASE StoreGroup
    <3> DEFINE m == [CallItem EXCEPT !.group = call.group]
    <3>1. /\ m \in Items /\ m.idx = CallItem.idx /\ m.key = CallItem.key
          /\ m.use_crypto = CallItem.use_crypto /\ m.expires = CallItem.expires
      BY <1>9, <2>1 DEF Items
    <3>2. pc = "group" /\ pc' = "idx" /\ Store(m)
      BY <2>2 DEF StoreGroup
    <3> HIDE DEF m
    <3>3. CallItem' = m
      BY <1>11, <2>1, <3>1, <3>2
    <3>4. Slot
      BY <1>9, <2>1, <3>1, <3>2, <3>3 DEF SlotInv, MidWrite, HalfWritten
    <3> QED
      BY <1>10, <2>1, <3>1, <3>2, <3>4
  <2>3. CASE StoreIdx
    <3> DEFINE m == [CallItem EXCEPT !.idx = call.idx]
    <3>1. /\ m \in Items /\ m.idx = call.idx /\ m.key = CallItem.key
          /\ m.use_crypto = CallItem.use_crypto /\ m.expires = CallItem.expires
      BY <1>9, <2>1 DEF Items
    <3>2. pc = "idx" /\ pc' = "use" /\ Store(m)
      BY <2>3 DEF StoreIdx
    <3> HIDE DEF m
    <3>3. CallItem' = m
      BY <1>11, <2>1, <3>1, <3>2
    <3>4. Slot
      BY <1>9, <2>1, <3>1, <3>2, <3>3 DEF SlotInv, MidWrite, HalfWritten
    <3> QED
      BY <1>10, <2>1, <3>1, <3>2, <3>4
  <2>4. CASE StoreUse
    <3> DEFINE m == [CallItem EXCEPT !.use_crypto = TRUE]
    <3>1. m \in Items /\ m.idx = CallItem.idx /\ m.expires = CallItem.expires
      BY <1>9, <2>1 DEF Items
    <3>2. pc = "use" /\ pc' = "expires" /\ Store(m) /\ CallItem.idx = call.idx
      BY <2>4 DEF StoreUse, StoredInv
    <3> HIDE DEF m
    <3>3. CallItem' = m
      BY <1>11, <2>1, <3>1, <3>2
    <3>4. Slot
      BY <1>9, <2>1, <3>1, <3>2, <3>3 DEF SlotInv, HalfWritten
    <3> QED
      BY <1>10, <2>1, <3>1, <3>2, <3>4
  <2>5. CASE ClearKey
    <3> DEFINE m == [CallItem EXCEPT !.key = NoKey]
    <3>1. /\ m \in Items /\ m.idx = CallItem.idx
          /\ m.use_crypto = CallItem.use_crypto /\ m.expires = CallItem.expires
      BY <1>9, <2>1 DEF Items
    <3>2. pc = "clear" /\ pc' = "fill" /\ Store(m)
      BY <2>5 DEF ClearKey
    <3> HIDE DEF m
    <3>3. CallItem' = m
      BY <1>11, <2>1, <3>1, <3>2
    <3>4. Slot
      BY <1>9, <2>1, <3>1, <3>2, <3>3 DEF SlotInv, HalfWritten
    <3> QED
      BY <1>10, <2>1, <3>1, <3>2, <3>4
  <2> QED
    BY <1>12, <2>2, <2>3, <2>4, <2>5
<1>16. CASE StoreExpires
  <2> DEFINE m == [CallItem EXCEPT !.expires = NewExpiry]
  <2>1. /\ pc = "expires" /\ pc \in StorePcs /\ pc' = "clear" /\ Store(m)
        /\ UNCHANGED <<now, segments, cur_group, torn>>
        /\ call' = [call EXCEPT !.expires = NewExpiry] /\ CallItem.idx = call.idx
    BY <1>16 DEF StoreExpires, StorePcs, StoredInv, memory
  <2>2. call'.idx = call.idx
    BY <1>9, <2>1 DEF Calls
  <2>3. m \in Items /\ m.idx = CallItem.idx /\ m.expires = now + TokenExpires
    BY <1>9, <2>1 DEF Items, NewExpiry
  <2> HIDE DEF m
  <2>4. CallItem' = m
    BY <1>11, <2>1, <2>2, <2>3
  <2>5. Slot
    BY <1>9, <2>1, <2>3, <2>4 DEF HalfWritten
  <2> QED
    BY <1>10, <2>1, <2>2, <2>3, <2>5
<1>17. CASE FillKey
  <2> DEFINE m == [CallItem EXCEPT !.key = now]
  <2>1. /\ pc = "fill" /\ pc \in StorePcs /\ pc' = "insert" /\ Store(m)
        /\ UNCHANGED <<now, segments, cur_group>> /\ torn' = torn \ {<<cur_group, call.idx>>}
        /\ call' = [call EXCEPT !.key = now] /\ CallItem.idx = call.idx
    BY <1>17 DEF FillKey, StorePcs, StoredInv, memory, NewKey
  <2>2. call'.idx = call.idx
    BY <1>9, <2>1 DEF Calls
  <2>3. /\ m \in Items /\ m.idx = CallItem.idx /\ m.key = now
        /\ m.expires = CallItem.expires /\ m.expires \in Nat
    BY <1>9, <2>1 DEF Items, Keys
  <2> HIDE DEF m
  <2>4. CallItem' = m
    BY <1>11, <2>1, <2>2, <2>3
  <2>5. now # NoKey /\ now \in m.expires - TokenExpires .. now /\ m.expires <= now + TokenExpires
    BY <1>9, <2>1, <2>3 DEF SlotInv, NoKey
  <2>6. Slot
    BY <2>1, <2>3, <2>4, <2>5
  <2> QED
    BY <1>10, <2>1, <2>2, <2>3, <2>6
<1>13. CASE Tick
  <2>1. now \in Nat /\ now' = now + 1 /\ UNCHANGED <<segments, item, pc, probe, cur_group, call, torn>>
    BY <1>13 DEF Tick, shared, memory, TypeInv, TypeOK
  <2>2. ASSUME NEW g \in Groups, NEW i \in Slots PROVE SlotInv(g, i)'
    <3>1. SlotInv(g, i) /\ item[g][i] \in Items
      BY DEF SegmentInv, TypeInv, TypeOK
    <3> QED
      BY <2>1, <3>1 DEF SlotInv, MidWrite, Items, Keys, NoKey
  <2> QED
    BY <2>1, <2>2 DEF SegmentInv, BlankSlot
<1>14. CASE Crash
  <2>1. UNCHANGED <<now, segments, item>> /\ pc' = "down"
        /\ torn' = IF pc \in HalfWritten THEN torn \cup {<<cur_group, call.idx>>} ELSE torn
    BY <1>14 DEF Crash, Exit, shared
  <2>2. ASSUME NEW g \in Groups, NEW i \in Slots PROVE SlotInv(g, i)'
    BY <2>1 DEF SegmentInv, SlotInv, MidWrite
  <2> QED
    BY <2>1, <2>2 DEF SegmentInv, BlankSlot
<1>15. CASE UNCHANGED vars
  BY <1>15 DEF vars, shared, memory, SegmentInv, SlotInv, BlankSlot, MidWrite
<1> QED
  BY <1>1, <1>2, <1>3, <1>4, <1>5, <1>6, <1>7, <1>8, <1>12, <1>13, <1>14, <1>15, <1>16, <1>17
     DEF Next, StartStep, HandlerStep

\* Shared memory is consistent for its readers whatever crashes: an item in use has
\* a whole key as old as its expiry says, but for slots a crash left half written.
THEOREM SegmentsConsistent == Spec => []ConsistentUnlessTorn
<1>1. TypeInv /\ SegmentInv => ConsistentUnlessTorn
  BY DEF TypeInv, TypeOK, SegmentInv, SlotInv, ConsistentUnlessTorn
<1> QED
  BY <1>1, TypeInit, TypeNext, GroupInit, GroupNext, StoredInit, StoredNext, SegmentInit, SegmentNext, PTL DEF Spec

\* The probe of a starting server removes only segments nobody has stored into.
THEOREM RemovesOnlyBlank == Spec => RemovesOnlyBlankSegments
<1>1. TypeInv /\ SegmentInv /\ [Next]_vars =>
        [\A g \in segments \ segments' : \A i \in Slots : item[g][i] = BlankItem]_vars
  <2> SUFFICES ASSUME TypeInv, SegmentInv, Next, NEW g \in segments \ segments'
               PROVE  \A i \in Slots : item[g][i] = BlankItem
    OBVIOUS
  <2>1. RemoveProbe
    BY DEF Next, StartStep, HandlerStep, Start, AttachGroup, ProbeCreates, FinishInit, InitFails,
           Listen, Receive, ReceivePing, RejectGuid, QueryAnswers, QueryFails, QueryThrows, Renew,
           PopFirst, PoolExhausted, StoreGroup, StoreIdx, StoreUse, StoreExpires, ClearKey, FillKey, InsertOk, InsertFails,
           InsertThrows, SendReply, Tick, Quit, Crash, shared
  <2> QED
    BY <2>1 DEF RemoveProbe, SegmentInv, BlankSlot
<1> QED
  BY <1>1, TypeInit, TypeNext, GroupInit, GroupNext, StoredInit, StoredNext, SegmentInit, SegmentNext, PTL
     DEF Spec, RemovesOnlyBlankSegments

\* No restart, crash or renewal takes an item's expiry back while its segment lives.
THEOREM ExpiryNeverBack == Spec => ExpiryMonotone
<1>1. TypeInv /\ SegmentInv /\ [Next]_vars =>
        [\A g \in segments, i \in Slots : item'[g][i].expires >= item[g][i].expires]_vars
  <2> SUFFICES ASSUME TypeInv, SegmentInv, Next, NEW g \in segments, NEW i \in Slots
               PROVE  item'[g][i].expires >= item[g][i].expires
    OBVIOUS
  <2>1. /\ g \in Groups /\ item \in [Groups -> [Slots -> Items]]
        /\ item[g][i] \in Items /\ now \in Nat /\ SlotInv(g, i)
    BY DEF TypeInv, TypeOK, SegmentInv
  <2>2. item[g][i].expires \in Nat
    BY <2>1 DEF Items
  <2>3. ASSUME NEW m \in Items, Store(m), pc \in StorePcs, m.expires >= CallItem.expires
        PROVE  item'[g][i].expires >= item[g][i].expires
    <3>1. item'[g][i] = IF g = cur_group /\ i = call.idx THEN m ELSE item[g][i]
      BY <2>1, <2>3, StoreCall
    <3> QED
      BY <2>2, <2>3, <3>1 DEF CallItem
  <2>4. ASSUME pc \in StorePcs
        PROVE  /\ CallItem \in Items /\ call.group \in Int /\ call.idx \in Int /\ NewKey \in Keys
               /\ NewExpiry \in Nat /\ NewExpiry >= CallItem.expires /\ CallItem.expires \in Nat
    <3>1. SlotInv(cur_group, call.idx) /\ CallItem \in Items
      BY <2>4, StoringItem DEF SegmentInv
    <3> QED
      BY <2>4, <3>1, StoringItem, Constants DEF SlotInv, CallItem, NewExpiry, Items
  <2>8. CASE StoreGroup
    <3> DEFINE m == [CallItem EXCEPT !.group = call.group]
    <3>1. pc \in StorePcs /\ Store(m)
      BY <2>8 DEF StoreGroup, StorePcs
    <3>2. m \in Items /\ m.expires = CallItem.expires
      BY <2>4, <3>1 DEF Items
    <3> HIDE DEF m
    <3> QED
      BY <2>3, <2>4, <3>1, <3>2
  <2>9. CASE StoreIdx
    <3> DEFINE m == [CallItem EXCEPT !.idx = call.idx]
    <3>1. pc \in StorePcs /\ Store(m)
      BY <2>9 DEF StoreIdx, StorePcs
    <3>2. m \in Items /\ m.expires = CallItem.expires
      BY <2>4, <3>1 DEF Items
    <3> HIDE DEF m
    <3> QED
      BY <2>3, <2>4, <3>1, <3>2
  <2>10. CASE StoreUse
    <3> DEFINE m == [CallItem EXCEPT !.use_crypto = TRUE]
    <3>1. pc \in StorePcs /\ Store(m)
      BY <2>10 DEF StoreUse, StorePcs
    <3>2. m \in Items /\ m.expires = CallItem.expires
      BY <2>4, <3>1 DEF Items
    <3> HIDE DEF m
    <3> QED
      BY <2>3, <2>4, <3>1, <3>2
  <2>11. CASE StoreExpires
    <3> DEFINE m == [CallItem EXCEPT !.expires = NewExpiry]
    <3>1. pc \in StorePcs /\ Store(m)
      BY <2>11 DEF StoreExpires, StorePcs
    <3>2. m \in Items /\ m.expires = NewExpiry
      BY <2>4, <3>1 DEF Items
    <3> HIDE DEF m
    <3> QED
      BY <2>3, <2>4, <3>1, <3>2
  <2>12. CASE ClearKey \/ FillKey
    <3>1. PICK k \in Keys : pc \in StorePcs /\ Store([CallItem EXCEPT !.key = k])
      BY <2>4, <2>12, Constants DEF ClearKey, FillKey, StorePcs
    <3> DEFINE m == [CallItem EXCEPT !.key = k]
    <3>2. m \in Items /\ m.expires = CallItem.expires
      BY <2>4, <3>1 DEF Items
    <3>3. Store(m)
      BY <3>1
    <3> HIDE DEF m
    <3> QED
      BY <2>3, <2>4, <3>1, <3>2, <3>3
  <2>5. CASE RemoveProbe
    <3>1. item'[g][i] = item[g][i]
      BY <2>1, <2>5 DEF RemoveProbe, TypeInv, HandlerInv, SegmentInv, BlankSlot
    <3> QED
      BY <2>2, <3>1
  <2>6. CASE UNCHANGED item
    BY <2>2, <2>6
  <2>7. StoreGroup \/ StoreIdx \/ StoreUse \/ StoreExpires \/ ClearKey \/ FillKey \/ RemoveProbe \/ UNCHANGED item
    BY DEF Next, StartStep, HandlerStep, Start, AttachGroup, ProbeCreates, FinishInit, InitFails,
           Listen, Receive, ReceivePing, RejectGuid, QueryAnswers, QueryFails, QueryThrows, Renew,
           PopFirst, PoolExhausted, InsertOk, InsertFails, InsertThrows, SendReply, Tick, Quit,
           Crash, shared
  <2> QED
    BY <2>5, <2>6, <2>7, <2>8, <2>9, <2>10, <2>11, <2>12
<1> QED
  BY <1>1, TypeInit, TypeNext, GroupInit, GroupNext, StoredInit, StoredNext, SegmentInit, SegmentNext, PTL
     DEF Spec, ExpiryMonotone
=============================================================================
