------------------------------ MODULE StpServer ------------------------------
(***************************************************************************)
(* The key negotiation server (stpserver) over the shared memory it hands  *)
(* out: process start (StpCryptoNegotiate::Init probing and attaching the  *)
(* System V segments), the negotiation handler with every database call    *)
(* and every store into shared memory it makes, crashes between any two of *)
(* those steps, and restart.                                               *)
(*                                                                         *)
(* The process is single-threaded (one libevent loop), so only one handler *)
(* runs at a time; what interleaves with it is the clock, and a crash.     *)
(* Durable state: the segments (they outlive the process) and the table    *)
(* stp_status.  Everything else is process memory.                         *)
(*                                                                         *)
(* An operator whose name ends in _Mutant is a plausible bug of the code,  *)
(* named in its comment; no behaviour of the specification uses it.        *)
(***************************************************************************)
EXTENDS Integers, FiniteSets

CONSTANTS
  Guids,         \* the stp guids clients send
  ValidGuids,    \* those deployed, i.e. with a row in table stp_deploy
  NoGuid,        \* a request without its optional stp_guid field
  RequestTokens, \* the [group, idx] pairs clients send (0,0 when no token is set)
  MaxGroup,      \* config max_group
  MaxIdx,        \* config max_idx, items per segment
  TokenExpires,  \* config token_expires, seconds
  PoolSize,      \* connections of the mysql pool: 1 in main.cc
  MaxTime        \* bound on the clock

\* StpIdxMgr aborts on a larger max_idx.
IdxLimit == 100000

ASSUME ConfigAssumption ==
  /\ MaxGroup \in Nat \ {0}
  /\ MaxIdx \in Nat \ {0}
  /\ MaxIdx <= IdxLimit
  /\ TokenExpires \in Nat
  /\ PoolSize \in Nat \ {0}
  /\ MaxTime \in Nat

\* Slot MaxIdx lies behind the last item, in the page the segment is rounded up to,
\* unless the items, 64 bytes each, fill whole pages.
ASSUME PageAssumption == MaxIdx % 64 # 0

ASSUME RequestAssumption ==
  /\ ValidGuids \subseteq Guids
  /\ NoGuid \notin Guids
  /\ RequestTokens \subseteq [group : Int, idx : Int]

Groups == 0 .. MaxGroup - 1

\* GetCryptoItemByIdx accepts idx = max_idx, one past the last item.
Slots == 0 .. MaxIdx

\* A key is 32 characters drawn after srandom(time(NULL)): a function of that
\* second, which stands for it.  NoKey: all zero, or only partly drawn.
NoKey == -1
Keys == Nat \cup {NoKey}

BlankItem == [group |-> 0, idx |-> 0, key |-> NoKey, use_crypto |-> FALSE, expires |-> 0]

Items == [group : Int, idx : Int, key : Keys, use_crypto : BOOLEAN, expires : Nat]

Results == {"none", "pong", "SR_OK", "SR_NegotiateFailed", "SR_InvalidGuid"}

Calls == [guid : Guids \cup {NoGuid}, group : Int, idx : Int,
          expires : Nat, key : Keys, res : Results]

NoCall == [guid |-> NoGuid, group |-> 0, idx |-> 0,
           expires |-> 0, key |-> NoKey, res |-> "none"]

\* The columns as InsertCryptoStatus fills them.
Rows == [stp_guid : Guids, stp_key : Keys, expires : Int, stp_group : Int, idx : Nat]

StartPcs == {"probe", "rmid", "listen"}
\* A handler that is about to store the named member, to zero the key or to draw it.
StorePcs == {"group", "idx", "use", "expires", "clear", "fill"}

\* Where the item is in use and its expiry and key do not belong together.
HalfWritten == {"expires", "clear", "fill"}

HandlerPcs == {"check", "negotiate", "insert", "reply"} \cup StorePcs
Pcs == {"down", "aborted", "idle"} \cup StartPcs \cup HandlerPcs

VARIABLES
  now,        \* time(NULL), the same clock for every process of the host
  segments,   \* groups whose segment exists in the kernel
  item,       \* the items in each segment (blank where there is no segment)
  stp_status, \* rows of table stp_status
  pc,         \* where the process is
  probe,      \* Init's loop variable
  shm_map,    \* groups in StpCryptoNegotiate::shm_map_
  cur_group,  \* StpCryptoNegotiate::cur_group_
  idx_set,    \* StpIdxMgr::idx_set_ of each group
  pool,       \* free connections of the mysql pool
  call,       \* arguments, results and response of the running handler
  torn,       \* history: slots a crash left half written
  firsts      \* history: first negotiations since the process started

shared == <<segments, item>>
memory == <<shm_map, cur_group, idx_set, firsts>>
vars == <<now, shared, stp_status, pc, probe, memory, pool, call, torn>>

-----------------------------------------------------------------------------
\* Helpers the steps are built from.

\* StpIdxMgr's constructor.
FreshIdx == 0 .. MaxIdx - 1

\* StpIdxMgr::PopIdx takes the smallest free index.
IsPop(free, i) == i \in free /\ \A j \in free : i <= j

\* GetCryptoItemByIdx does not answer NULL.
InRange(i) == i \in Slots

\* The condition of the "first negotiation" branch.
IsFirst(c) == c.group = -1 \/ c.idx = -1

NewExpiry == now + TokenExpires

\* What GenerateRandomKey draws in the current second.
NewKey == now

\* The parameters are bound in the order key, group, idx, expires, whatever the
\* column order of the statement is.
RowOf(c) == [stp_guid |-> c.guid, stp_key |-> c.key,
             expires |-> c.group, stp_group |-> c.idx, idx |-> c.expires]

\* A process that ends, and one that starts, has only its initial memory.
FreshMemory ==
  /\ probe' = 0
  /\ shm_map' = {}
  /\ cur_group' = 0
  /\ idx_set' = [g \in Groups |-> {}]
  /\ pool' = PoolSize
  /\ call' = NoCall
  /\ firsts' = 0

Exit == pc' = "down" /\ FreshMemory

Answer(res) ==
  /\ call' = [call EXCEPT !.res = res]
  /\ pc' = "reply"

-----------------------------------------------------------------------------
(* Start: StpServer::StartRun, StpCryptoNegotiate::Init, TryAttachShm.     *)

Init ==
  /\ now = 0
  /\ segments = {}
  /\ item = [g \in Groups |-> [i \in Slots |-> BlankItem]]
  /\ stp_status = {}
  /\ pc = "down"
  /\ probe = 0
  /\ shm_map = {}
  /\ cur_group = 0
  /\ idx_set = [g \in Groups |-> {}]
  /\ pool = PoolSize
  /\ call = NoCall
  /\ torn = {}
  /\ firsts = 0

\* The operator starts the process: fresh memory, a fresh connection pool.
Start ==
  /\ pc \in {"down", "aborted"}
  /\ pc' = "probe"
  /\ FreshMemory
  /\ UNCHANGED <<now, shared, stp_status, torn>>

\* Init forgets to move cur_group_ to the group it attached.
AttachGroup_StayMutant ==
  /\ pc = "probe"
  /\ probe < MaxGroup
  /\ probe \in segments
  /\ shm_map' = shm_map \cup {probe}
  /\ idx_set' = [idx_set EXCEPT ![probe] = FreshIdx]
  /\ probe' = probe + 1
  /\ UNCHANGED <<now, shared, stp_status, pc, cur_group, pool, call, torn, firsts>>

\* Init zeroes the segment it attached.
AttachGroup_ZeroMutant ==
  /\ pc = "probe"
  /\ probe < MaxGroup
  /\ probe \in segments
  /\ item' = [item EXCEPT ![probe] = [i \in Slots |-> BlankItem]]
  /\ shm_map' = shm_map \cup {probe}
  /\ idx_set' = [idx_set EXCEPT ![probe] = FreshIdx]
  /\ cur_group' = probe
  /\ probe' = probe + 1
  /\ UNCHANGED <<now, segments, stp_status, pc, pool, call, torn, firsts>>

\* shmget(IPC_EXCL) answers EEXIST: the segment of an earlier run is attached.
AttachGroup ==
  /\ pc = "probe"
  /\ probe < MaxGroup
  /\ probe \in segments
  /\ shm_map' = shm_map \cup {probe}
  /\ idx_set' = [idx_set EXCEPT ![probe] = FreshIdx]
  /\ cur_group' = probe
  /\ probe' = probe + 1
  /\ UNCHANGED <<now, shared, stp_status, pc, pool, call, torn, firsts>>

\* IPC_EXCL is missing: an existing segment is taken for a new one.
ProbeCreates_Mutant ==
  /\ pc = "probe"
  /\ probe < MaxGroup
  /\ segments' = segments \cup {probe}
  /\ pc' = "rmid"
  /\ UNCHANGED <<now, item, stp_status, probe, memory, pool, call, torn>>

\* shmget(IPC_EXCL) created the segment: there was none to attach.
ProbeCreates ==
  /\ pc = "probe"
  /\ probe < MaxGroup
  /\ probe \notin segments
  /\ segments' = segments \cup {probe}
  /\ pc' = "rmid"
  /\ UNCHANGED <<now, item, stp_status, probe, memory, pool, call, torn>>

\* The end of TryAttachShm removes what the probe has created.
RemoveProbe ==
  /\ pc = "rmid"
  /\ segments' = segments \ {probe}
  /\ item' = [item EXCEPT ![probe] = [i \in Slots |-> BlankItem]]
  /\ probe' = probe + 1
  /\ pc' = "probe"
  /\ UNCHANGED <<now, stp_status, memory, pool, call, torn>>

\* After the loop; group 0 is created when nothing was attached.
FinishInit ==
  /\ pc = "probe"
  /\ probe = MaxGroup
  /\ IF shm_map = {}
       THEN /\ segments' = segments \cup {0}
            /\ shm_map' = {0}
            /\ idx_set' = [idx_set EXCEPT ![0] = FreshIdx]
            /\ cur_group' = 0
       ELSE UNCHANGED <<segments, shm_map, idx_set, cur_group>>
  /\ pc' = "listen"
  /\ UNCHANGED <<now, item, stp_status, probe, pool, call, torn, firsts>>

\* CreateShm answers false, StartRun answers false, main ends in LOG(FATAL).
InitFails ==
  /\ pc = "probe"
  /\ probe = MaxGroup
  /\ shm_map = {}
  /\ Exit
  /\ UNCHANGED <<now, shared, stp_status, torn>>

\* evconnlistener_new_bind succeeds and the event loop runs, or LOG(FATAL).
Listen ==
  /\ pc = "listen"
  /\ \/ pc' = "idle" /\ UNCHANGED <<probe, memory, pool, call>>
     \/ Exit
  /\ UNCHANGED <<now, shared, stp_status, torn>>

-----------------------------------------------------------------------------
(* HandleProtocol_StpCryptoNegotiate and HandleProtocol_Ping.              *)

Receive(guid, token) ==
  /\ pc = "idle"
  /\ call' = [NoCall EXCEPT !.guid = guid, !.group = token.group, !.idx = token.idx]
  /\ pc' = "check"
  /\ UNCHANGED <<now, shared, stp_status, probe, memory, pool, torn>>

ReceivePing ==
  /\ pc = "idle"
  /\ Answer("pong")
  /\ UNCHANGED <<now, shared, stp_status, probe, memory, pool, torn>>

\* No guid in the request, or GetConnection finds the pool empty.
RejectGuid ==
  /\ pc = "check"
  /\ call.guid = NoGuid \/ pool = 0
  /\ Answer("SR_InvalidGuid")
  /\ UNCHANGED <<now, shared, stp_status, probe, memory, pool, torn>>

\* A result set is taken for a row: Next() is not asked.
QueryAnswers_Mutant ==
  /\ pc = "check"
  /\ call.guid # NoGuid
  /\ pool > 0
  /\ pc' = "negotiate"
  /\ UNCHANGED <<now, shared, stp_status, probe, memory, pool, call, torn>>

\* A connection is made for the request that finds none in the pool.
QueryAnswers_ConnectMutant ==
  /\ pc = "check"
  /\ call.guid # NoGuid
  /\ IF call.guid \in ValidGuids
       THEN pc' = "negotiate" /\ UNCHANGED call
       ELSE Answer("SR_InvalidGuid")
  /\ UNCHANGED <<now, shared, stp_status, probe, memory, pool, torn>>

\* The query runs and the connection goes back to the pool.
QueryAnswers ==
  /\ pc = "check"
  /\ call.guid # NoGuid
  /\ pool > 0
  /\ IF call.guid \in ValidGuids
       THEN pc' = "negotiate" /\ UNCHANGED call
       ELSE Answer("SR_InvalidGuid")
  /\ UNCHANGED <<now, shared, stp_status, probe, memory, pool, torn>>

\* PrepareStatement or ExecuteQuery answers NULL; the connection is released.
QueryFails ==
  /\ pc = "check"
  /\ call.guid # NoGuid
  /\ pool > 0
  /\ Answer("SR_InvalidGuid")
  /\ UNCHANGED <<now, shared, stp_status, probe, memory, pool, torn>>

\* A call between GetConnection and the end of ReleaseConnection throws: the catch
\* block logs, and releases nothing.  The answer is TRUE all the same when the row
\* was found and what threw is the clean-up behind it.
QueryThrows ==
  /\ pc = "check"
  /\ call.guid # NoGuid
  /\ pool > 0
  /\ pool' = pool - 1
  /\ \/ Answer("SR_InvalidGuid")
     \/ /\ call.guid \in ValidGuids
        /\ pc' = "negotiate"
        /\ UNCHANGED call
  /\ UNCHANGED <<now, shared, stp_status, probe, memory, torn>>

-----------------------------------------------------------------------------
(* StpCryptoNegotiate::CryptoNegotiate.                                    *)

\* The common part: range check of cur_group_, then the item of the REQUEST's idx.
FindItem ==
  IF cur_group \in Groups \cap shm_map /\ InRange(call.idx)
    THEN pc' = "group" /\ UNCHANGED call
    ELSE Answer("SR_NegotiateFailed")

Renew ==
  /\ pc = "negotiate"
  /\ ~IsFirst(call)
  /\ FindItem
  /\ UNCHANGED <<now, shared, stp_status, probe, memory, pool, torn>>

\* PopIdx does not erase the index it answers.
PopFirst_Mutant ==
  /\ pc = "negotiate"
  /\ IsFirst(call)
  /\ idx_set[cur_group] # {}
  /\ firsts' = firsts + 1
  /\ FindItem
  /\ UNCHANGED <<now, shared, stp_status, probe, shm_map, cur_group, idx_set, pool, torn>>

\* First negotiation: an index is popped, and assigned to nothing.
PopFirst ==
  /\ pc = "negotiate"
  /\ IsFirst(call)
  /\ \E i \in idx_set[cur_group] :
       /\ IsPop(idx_set[cur_group], i)
       /\ idx_set' = [idx_set EXCEPT ![cur_group] = @ \ {i}]
  /\ firsts' = firsts + 1
  /\ FindItem
  /\ UNCHANGED <<now, shared, stp_status, probe, shm_map, cur_group, pool, torn>>

\* First negotiation with no index left: shm_map_[cur_group_ + 1] is not in the
\* map, operator[] builds a default CryptoGroup, whose StpIdxMgr(-1) aborts.  The
\* statements behind it run only if the key were there (see CurGroupIsLast).
PoolExhausted ==
  /\ pc = "negotiate"
  /\ IsFirst(call)
  /\ idx_set[cur_group] = {}
  /\ cur_group + 1 \notin shm_map
  /\ pc' = "aborted"
  /\ UNCHANGED <<now, shared, stp_status, probe, memory, pool, call, torn>>

\* One store into the item of the running call, which is m afterwards.
CallItem == item[cur_group][call.idx]
Store(m) == item' = [item EXCEPT ![cur_group][call.idx] = m]

\* The members are stored one after the other; the old key is still there.
StoreGroup ==
  /\ pc = "group"
  /\ Store([CallItem EXCEPT !.group = call.group])
  /\ pc' = "idx"
  /\ UNCHANGED <<now, segments, stp_status, probe, memory, pool, call, torn>>

StoreIdx ==
  /\ pc = "idx"
  /\ Store([CallItem EXCEPT !.idx = call.idx])
  /\ pc' = "use"
  /\ UNCHANGED <<now, segments, stp_status, probe, memory, pool, call, torn>>

StoreUse ==
  /\ pc = "use"
  /\ Store([CallItem EXCEPT !.use_crypto = TRUE])
  /\ pc' = "expires"
  /\ UNCHANGED <<now, segments, stp_status, probe, memory, pool, call, torn>>

\* The expiry is measured between the stores, and answered as it is stored.
StoreExpires ==
  /\ pc = "expires"
  /\ Store([CallItem EXCEPT !.expires = NewExpiry])
  /\ call' = [call EXCEPT !.expires = NewExpiry]
  /\ pc' = "clear"
  /\ UNCHANGED <<now, segments, stp_status, probe, memory, pool, torn>>

\* GenerateRandomKey returns before the drawing loop.
ClearKey_Mutant ==
  /\ pc = "clear"
  /\ Store([CallItem EXCEPT !.key = NoKey])
  /\ pc' = "insert"
  /\ UNCHANGED <<now, segments, stp_status, probe, memory, pool, call, torn>>

\* GenerateRandomKey zeroes the key ...
ClearKey ==
  /\ pc = "clear"
  /\ Store([CallItem EXCEPT !.key = NoKey])
  /\ pc' = "fill"
  /\ UNCHANGED <<now, segments, stp_status, probe, memory, pool, call, torn>>

\* The key is copied out before it is regenerated.
FillKey_Mutant ==
  /\ pc = "fill"
  /\ Store([CallItem EXCEPT !.key = NewKey])
  /\ call' = [call EXCEPT !.key = CallItem.key]
  /\ torn' = torn \ {<<cur_group, call.idx>>}
  /\ pc' = "insert"
  /\ UNCHANGED <<now, segments, stp_status, probe, memory, pool>>

\* ... and draws the new one, which the caller copies out.
FillKey ==
  /\ pc = "fill"
  /\ Store([CallItem EXCEPT !.key = NewKey])
  /\ call' = [call EXCEPT !.key = NewKey]
  /\ torn' = torn \ {<<cur_group, call.idx>>}
  /\ pc' = "insert"
  /\ UNCHANGED <<now, segments, stp_status, probe, memory, pool>>

-----------------------------------------------------------------------------
(* StpDao::InsertCryptoStatus, whose result the handler ignores, and the   *)
(* response.                                                               *)

InsertOk ==
  /\ pc = "insert"
  /\ pool > 0
  /\ stp_status' = stp_status \cup {RowOf(call)}
  /\ Answer("SR_OK")
  /\ UNCHANGED <<now, shared, probe, memory, pool, torn>>

\* No connection, no statement, or ExecuteUpdate answers -1: no row.
InsertFails ==
  /\ pc = "insert"
  /\ Answer("SR_OK")
  /\ UNCHANGED <<now, shared, stp_status, probe, memory, pool, torn>>

\* A database call throws; the row may have got there or not.
InsertThrows ==
  /\ pc = "insert"
  /\ pool > 0
  /\ pool' = pool - 1
  /\ stp_status' \in {stp_status, stp_status \cup {RowOf(call)}}
  /\ Answer("SR_OK")
  /\ UNCHANGED <<now, shared, probe, memory, torn>>

SendReply ==
  /\ pc = "reply"
  /\ pc' = "idle"
  /\ call' = NoCall
  /\ UNCHANGED <<now, shared, stp_status, probe, memory, pool, torn>>

-----------------------------------------------------------------------------
(* The environment.                                                        *)

Tick ==
  /\ now < MaxTime
  /\ now' = now + 1
  /\ UNCHANGED <<shared, stp_status, pc, probe, memory, pool, call, torn>>

\* SIGUSR2: the event loop exits between two callbacks.
Quit ==
  /\ pc = "idle"
  /\ Exit
  /\ UNCHANGED <<now, shared, stp_status, torn>>

\* The process dies at any step; what it leaves half written is an item in use.
Crash ==
  /\ pc \in StartPcs \cup HandlerPcs
  /\ Exit
  /\ torn' = IF pc \in HalfWritten THEN torn \cup {<<cur_group, call.idx>>} ELSE torn
  /\ UNCHANGED <<now, shared, stp_status>>

StartStep ==
  AttachGroup \/ ProbeCreates \/ RemoveProbe \/ FinishInit \/ InitFails \/ Listen

HandlerStep ==
  \/ RejectGuid \/ QueryAnswers \/ QueryFails \/ QueryThrows
  \/ Renew \/ PopFirst \/ PoolExhausted
  \/ StoreGroup \/ StoreIdx \/ StoreUse \/ StoreExpires \/ ClearKey \/ FillKey
  \/ InsertOk \/ InsertFails \/ InsertThrows \/ SendReply

Next ==
  \/ Start
  \/ StartStep
  \/ \E guid \in Guids \cup {NoGuid}, token \in RequestTokens : Receive(guid, token)
  \/ ReceivePing
  \/ HandlerStep
  \/ Tick
  \/ Quit
  \/ Crash

Spec == Init /\ [][Next]_vars

-----------------------------------------------------------------------------
\* Properties.

\* Every variable keeps its type, whatever the order of requests and crashes.
TypeOK ==
  /\ now \in 0 .. MaxTime
  /\ segments \subseteq Groups
  /\ item \in [Groups -> [Slots -> Items]]
  /\ stp_status \subseteq Rows
  /\ pc \in Pcs
  /\ probe \in 0 .. MaxGroup
  /\ shm_map \subseteq Groups
  /\ cur_group \in Groups
  /\ idx_set \in [Groups -> SUBSET FreshIdx]
  /\ pool \in 0 .. PoolSize
  /\ call \in Calls
  /\ torn \subseteq Groups \X Slots
  /\ firsts \in Nat

Serving == pc \in {"idle", "listen"} \cup HandlerPcs

\* cur_group_ is an attached group whose segment exists, and the last one of the
\* map: CryptoNegotiate's shm_map_[cur_group_] never creates an entry, and
\* shm_map_[++cur_group_] always does, so the code behind it never runs.
CurGroupIsLast ==
  Serving => /\ cur_group \in shm_map
             /\ \A g \in shm_map : g <= cur_group
             /\ shm_map \subseteq segments

\* Each first negotiation since the start has consumed one index for good (none
\* is ever pushed back), and the process aborts exactly when MaxIdx of them came.
IndexLeakAccounting ==
  /\ Serving => Cardinality(idx_set[cur_group]) = MaxIdx - firsts
  /\ pc = "aborted" => firsts = MaxIdx

\* The slot the running handler is in the middle of storing.
MidWrite(g, i) == pc \in HalfWritten /\ g = cur_group /\ i = call.idx

\* An item a reader of the segment finds in use carries a whole key, drawn no
\* earlier than its expiry says, unless its store is under way or a crash cut it
\* short and no later negotiation of the slot healed it.
ConsistentUnlessTorn ==
  \A g \in segments, i \in Slots :
    item[g][i].use_crypto /\ <<g, i>> \notin torn /\ ~MidWrite(g, i)
      => /\ item[g][i].idx = i
         /\ item[g][i].key # NoKey
         /\ item[g][i].key \in item[g][i].expires - TokenExpires .. now

\* A token the client is told is SR_OK is the one the segment holds at that time.
ReplyMatchesStore ==
  pc = "reply" /\ call.res = "SR_OK" =>
    /\ call.guid \in ValidGuids
    /\ item[cur_group][call.idx] =
         [group |-> call.group, idx |-> call.idx, key |-> call.key,
          use_crypto |-> TRUE, expires |-> call.expires]

\* Starting the server never removes a segment in which a key was negotiated.
RemovesOnlyBlankSegments ==
  [][\A g \in segments \ segments' : \A i \in Slots : item[g][i] = BlankItem]_vars

\* As long as a segment lives, across restarts, no item's expiry goes back.
ExpiryMonotone ==
  [][\A g \in segments, i \in Slots : item'[g][i].expires >= item[g][i].expires]_vars

\* A row of stp_status appears only after the segment holds the key it reports.
RecordAfterStore ==
  [][\A row \in stp_status' \ stp_status :
       /\ row.stp_guid \in ValidGuids
       /\ <<cur_group, call.idx>> \notin torn
       /\ item[cur_group][call.idx].key = row.stp_key
       /\ item[cur_group][call.idx].expires = call.expires]_vars

\* A server whose database exceptions have eaten the pool between two requests never
\* finds a connection again, and until it ends answers only refusals and pongs: it
\* stores and records nothing and takes no index.
StarvedUntilRestart ==
  [][pool = 0 /\ pc \in {"idle", "check", "reply"} =>
       /\ pc' \in {"idle", "check", "reply", "down"}
       /\ pc' # "down" => pool' = 0
       /\ pc = "check" /\ pc' = "reply" => call'.res = "SR_InvalidGuid"
       /\ UNCHANGED <<shared, stp_status>>
       /\ pc' # "down" => UNCHANGED memory]_vars

=============================================================================
