# Security Transfer Platform: a TLA+ verification project

The repository builds a server (`stpserver`) and a client (`stpclient`) that
negotiate encryption keys: a client sends its guid, the server checks it against
MySQL, generates a key, stores it in System V shared memory, records it in a
table and answers with a token; the client stores the token in shared memory of
its own host.  Other processes read the keys from shared memory.

## 1. Inventory

| Part | Source | State | Operations |
|---|---|---|---|
| Negotiation core | `stpcomm/` | `shm_map_`, `cur_group_`, one `idx_set_` per group; shared segments of `CryptoItem`s | `Init` (probe, attach, create), `CryptoNegotiate`, `PopIdx` |
| Server | `stpserver/` | MySQL pool of one connection; tables `stp_deploy`, `stp_status` | ping and negotiate handlers, two DAO calls, SIGUSR2 |
| Client | `stpclient/` | `conn_`, item 0 of its segment | two timers (10 s negotiate, 30 s ping), response handlers |
| Framed connection | `stputil/connection` | evbuffers, `read_buf_list_` | `SendNetMessage`, `RecvNetMessage` |
| Event loop | `stputil/event_notifier`, `tcp_event_*` | libevent registrations, connections | read, EOF/ERROR and listener callbacks, signals, timers |
| Messages | `codec/rpc.pb` (generated) | has bits, members, unknown fields | accessors, `Clear`, `MergeFrom`, `CopyFrom`, `Swap`, `ByteSize`, serialising, parsing |
| Dispatch | `codec/` | table message type -> handler | `SerializeToArray`, `OnceDispatch` |
| Configuration | `*/config_parser`, `stputil/json_parser` | the values both programs start with | `Parse`, `ParseProfile`, getters |
| JSON | `stputil/json` (jsoncpp) | a tree of values, the Reader's stack and comments | `Reader::parse`, calls on `Value`, two writers |
| Threads, atomics | `stputil/thread`, `atomic.h` | `running_`, `stoped_`, thread id, counter | `Start`, `Stop`, destructor, `++` |
| Payload encryption | `stpcrypto/`, `stputil/security` | `g_clnt_or_svr` | `InitStpCrypto`, `EncryptPlain`, `DecryptCipher`; base64; AES key schedules and block cipher |

How they interact: libevent calls back into one thread per process.  A read
event makes `Connection` take one framed packet and hand it to the dispatcher,
which parses the message and calls the protocol handler; the handler calls the DAO (synchronous) and the
negotiation core (stores into shared memory), and writes its response into the
output buffer.  Client and server of one host share segment 0, because both
derive its key from the same configured path.

What is hard here: a single-threaded handler that may die between any two of its
stores while what it stored survives; a start that has to recognise what an earlier
run left; database calls that answer NULL, answer -1 or throw in places where a
connection is held; TCP pieces of any size against a loop that takes one packet
per event; timers that fire again whatever became of the previous request; a
connection object that is deleted under its user; sizes computed apart from what is
written; and a JSON reader that keeps addresses into the tree it is changing.  PROJECT.json lists each place
under "hazards".

What makes each part correct: the core must keep every item in shared memory
whole and of the age it claims, must never lose a segment or an index it handed
out, and must answer what it stored; the server must answer every request with
the result that is true; the connection must hand over packets whole, once, in
order and in the end; the client's stored token must be one the server granted; a message must be handled
as it was sent, also between versions; a configuration must mean the same after it
has been written and read again.

## 2. Modules

| Module | Models | Used by |
|---|---|---|
| `StpServer` | server process, negotiation core, shared memory, DAO | `StpServerMC`, `StpServerProofs` |
| `ShmStartup` | several processes of one host in `TryAttachShm` and `CreateShm`, one system call at a time | `ShmStartupProofs` |
| `MsgQueue` | abstract: a queue of whole packets until the connection closes | `NetConnection` |
| `NetConnection` | framing over a byte stream, one packet per read event | `NetConnectionMC`, `NetConnectionProofs` |
| `TokenDelivery` | abstract: what server, connection and handlers promise a client | `StpSystem` |
| `StpSystem` | clients and server together: timers, both directions, stores, EOF, deaths | `StpSystemProofs` |
| `ThreadLifecycle` | one `Thread` object, its owner and the OS threads it has created | `ThreadProofs` |
| `AtomicOps` | operations and arithmetic of `Atomic<unsigned long>` | the next two |
| `AtomicCounter` | abstract: what such a counter promises | `AtomicInteger` |
| `AtomicInteger` | the operations as sequences of gcc builtins | `ThreadProofs` |
| `Base64` | `base64_encode` and `base64_decode` as algorithms | `StpCrypto`, `StpCryptoProofs` |
| `Aes` | `aes_core.c`: key schedules, the table rounds, beside FIPS-197 without tables | `StpCryptoMC` |
| `StpCrypto` | the payload library: padding, length word, block loop, errors, and a text on its way | `StpCryptoMC`, `StpCryptoProofs` |
| `ProtoWire` | fields, varints and lengths on the wire, with their widths as parameters | `Rpc` |
| `Rpc` | the eight generated classes, one table per method | `RpcCodec` |
| `RpcCodec` | what the methods do with the tables; `SerializeToArray`, `OnceDispatch` | `RpcDispatch` |
| `RpcDispatch` | two message objects, a packet under way, a peer of another version | `RpcDispatchMC`, `RpcDispatchProofs` |
| `JsonText` | numbers and strings of jsoncpp: scanning, decoding, writing | `JsonValue` |
| `JsonValue` | `Json::Value`: the tree, its accessors and the calls that change it | `JsonWriter`, `Profile` |
| `JsonWriter` | `FastWriter` and `StyledWriter` | `JsonReader` |
| `Profile` | `JsonParser` getters and both `ConfigParser`s | `JsonReader` |
| `JsonReader` | `Json::Reader` token by token, the calls after it, and reading what was written | `JsonReaderMC`, `JsonReaderProofs` |

`StpServer`, `ShmStartup` and `NetConnection` each take one part apart; `StpSystem`
puts the parts together and keeps of each what the others can notice.  In every
module a name that ends in `Mutant` is a plausible bug that belongs to the
definition behind it; no behaviour uses it.  `MC` modules hold model values only;
`StpCryptoMC` computes its cipher from `Aes`.  Names such as `torn`, `grants` or
`used` that the comments call history are read by no guard.

### StpServer

One action per step of the program that a crash or the clock can separate from
the next.  `pc` names the step: `probe`/`rmid`/`listen` while starting, `idle` in
the event loop, `check` .. `reply` inside `HandleProtocol_StpCryptoNegotiate`.
`segments` and `item` are the kernel's; `stp_status` is the table; the rest is
process memory and is gone after `Exit`.  `call` holds the local variables of
the running handler and its response.

* A key is the second it was drawn in: `GenerateRandomKey` seeds the generator
  with `time(NULL)`, so the second determines all 32 characters; `NoKey` is a
  zeroed or partly written key.
* The stores of group, idx, use_crypto and expires are a step each, so are zeroing
  the key and drawing it.  A crash behind `use_crypto = true` marks the slot in
  `torn`, until a later negotiation has stored the whole item.
* Slot `MaxIdx` exists behind the last item because `GetCryptoItemByIdx` accepts
  it; `ConfigAssumption` excludes the sizes that fill whole pages, where that
  store would fault instead.
* The table keeps the columns exactly as the parameters are bound.
* MySQL is external: a query answers, answers NULL, or throws, at any call.  A
  throw loses the connection, and the handler goes on all the same if the row had
  been found and the clean-up behind it threw (`QueryThrows`).
* The server is alone on its host and `shmat` succeeds: `ShmStartup` has the rest.

### ShmStartup

Each `shmget`, `shmat` and `shmctl` is a step, so two starts interleave at every
call, and a process may end between any two.  `named` says which segment a key
names; a removed segment loses its name and lives while somebody is attached.
Contents are left out: what matters is who has attached which segment, how large
it is (`size`, in items) and whether anybody has used it.  A server asks for
`ServerSize` items and tries every group, a client asks for one item of group 0.
`raced` becomes true when two starts overlap.  Creation may be refused by the
host's limits at any call, and so may attaching, also of a live segment (`refused`):
shmat then answers -1, which the code takes for an address (`Attach`).  `ftok` failing, which gives key -1 to
everybody, is not modelled.

### NetConnection

The byte stream is described by offsets instead of bytes: `ends[k]` is where
packet `k` ends, `received` how far the receiver's input buffer has been filled,
`taken` how many packets have left it.  `ReadEvent(upto)` is one libevent read
event of any number of bytes with the whole callback behind it.  `Close` is the
EOF/ERROR callback, after which what is buffered is lost.

### StpSystem

Packets are whole; a read event brings any number of them into the input buffer
and takes one, on both ends.  `due` holds the timers that have run out and not
been served: a persistent timer sends whatever became of the packets before.
Client and server store into shared memory in the steps a second process can see
between: the client zeroes the key, copies it, then sets use_crypto and expiry;
the server sets the expiry, zeroes the key, draws it, and reads it back from the
segment for its answer.  A client in `LocalClients` stores into the server's own
item, because both derive the segment's key from the same path and group 0;
`writing` and `clashed` say whose keys may be mixed up.  The guid check and the
database are one choice between a refusal and a negotiation.

After EOF the client keeps using `conn_`, a deleted object (`SendOnDeleted`): the
send goes unnoticed or ends the process.  A client that starts again does so
after the server has seen the end of its earlier connection.  The clock ticks in
units of the negotiation period (10 s); pings run at `PingPeriod` of them, 2
instead of 3 so that both timers coincide within the bound.

`TokenDelivery` is what a remote client may count on: a line of answers taken one at a
time in the order they were given, and one token, replaced as a whole, with an empty
moment in between.  `Pending` and `Holds` are the line and the token in the state of
`StpSystem`: a response that is being stored stands first in the line until its last
store, and an item is no token while its key is written or after a death in its middle.

### ThreadLifecycle

The owner's calls are split where the OS threads can get in between: the flags,
`pthread_create`, each round of the polling loop, `pthread_join`, clearing the
id.  `worker[w]` follows one OS thread through `ThreadFunc`.  `destroying` is set
when the derived destructor has run: from then on the virtual call reaches the
empty `Thread::Run`.  Joining an id that names no thread is undefined and may
crash or return.  `pthread_create` answers a positive number when it fails, which
the code's `< 0` takes for success (`CreateFails`, remembered in `failed`): what is
then in `pthread_id_` is what was there before or no thread's id.  The plain flags are written by
two threads without synchronisation; each read and write is one step here.  No
build can do more with the race: every round of the polling loop calls `usleep`,
and `Run` is a virtual call, so neither side can keep a flag in a register, and a
`bool` is not torn.  An OS thread whose Run ended by itself is not joined when the owner starts
again: its id is overwritten and the thread stays unjoined.

### AtomicInteger

A gcc builtin is one step.  Prefix ++ and -- and `Add` are one builtin and
arithmetic on the caller's own copy; postfix ++ and -- are a read and an addition.
The counter has `Modulus` numbers, 2^w in the program.  `Thread::SetDefaultName`
numbers the threads with prefix ++.  Its specification is called `AtomicSpec` because the
proofs about it share a module with those about `ThreadLifecycle`.

### StpCrypto and Base64

Texts and messages are sequences of byte values.  In `StpCrypto` the cipher is any pair of
functions on blocks, with the fixed key inside, and `StandardCipher` is the cipher it is
compared with; the run puts `Aes` and FIPS-197 there.  `res` is what the last call answered, `sent` and `answer` are the
buffers of the two callers, which `Free` gives back.  The carrier of the text is external: it
may insert a line break, drop the padding, lose symbols or replace one by a
character that is no symbol.  Nothing in the repository assigns `g_clnt_or_svr`; a
program that links the library has to (`AssignRole`), and until then
`EncryptPlain` refuses everything, also after `InitStpCrypto` answered 0.  The
loops of Base64 are functions of the position in the input and keep only the bits of the
accumulator that are still to be read.
Messages longer than 2^32 - 20 bytes, for which the padded length wraps, are
outside the model (`Encryptable`).  `PlainLen` may answer up to the length of the
whole data: DecryptCipher does not notice a length that includes its own word.

### Aes

A `u32` is its four bytes.  The tables Te0..Te3, Td0..Td3 are computed from the S-box and
the matrix columns that the source's comments give for them; only `Td4` is written out,
because the S-box is its inverse.  The rounds, the key schedules of the three sizes and
the inverse schedule follow the branches that are compiled.  Below them stands the
standard's cipher, on bytes, with an S-box computed in the field: that both agree is
the assumption `KeySizesAgree` for 128 and 192 bits and the property `StandardText` for
the 256 bits the library uses.

### ProtoWire, Rpc, RpcCodec, RpcDispatch

The generator wrote the same seven methods for each of eight classes; `Rpc` keeps of
each what differs, as a table per class and method, and `RpcCodec` says once what such
a method does with its table.  A wrong entry of one class's method is thus visible
against the tables of its other methods.  The loops of the methods are recursive
functions of the slot or the field they are at, and what became of the token inside a
message is an argument (`parts`), because a token has no message of its own.  A message on the wire is a sequence of fields;
bytes are either a text or an encoding with the length its writer announced, so a size
computed wrongly makes it unreadable.  Widths are parameters: the run has int32 of 4
bits, int64 of 6 and varint groups of 2, so that a negative int32 takes the longest varint
as it does in the program.  A packet may come from a peer built from another
rpc.proto (`Skew`): it has a field more, a result without a name, a field with another
wire type, or ends early.  A result without a name goes to the unknown fields and
`res()` then reads 0, which is SR_OK: the client takes a newer server's refusal for
success (stp_client.cc:115).

### JsonText, JsonValue, JsonWriter, Profile, JsonReader

The recursive calls of the Reader are a stack (`open`, `nodes`) and each token a step,
so every error leaves exactly the state the code leaves: `lastValue_` and the stack
depth stay when `readValue` fails, and recovery runs to the end of the container.  A
file is any sequence of `Phrases`, decided as the Reader asks for the next token; what
a writer makes is a sequence of tokens that is read again.  Character codes matter in
numbers and strings only, where escapes, surrogate pairs and NUL are decoded as the code does.  A tree
is a function from paths to values, with arrays as maps that may have holes, as jsoncpp
keeps them.  An accessor gives the set of its possible results: the empty set when it
throws, several when the result of a cast is undefined.  Of a comment its kind is kept, and
whether a // ends in a blank: `writeIndent` breaks no line behind a blank, so what comes
next stands on the line of the comment and is lost to a reader (`Printed`).  -0.0 is a value
of its own (`negativeZero`), since its text is not that of 0.0.

What the translation showed, besides the properties: a member after a comment may be
separated by any token, not only a comma (`lateComma`); the one token after the root is
ignored whatever it is; `removeIndex` of the last element drops the holes before it;
`resize` to a size whose last index is a hole erases and then throws; a double equal to
2^63 or 2^64 passes `InRange` and is cast without a defined result, which the comment at
jsoncpp.cc:3773 avoids in `isInt64` only; both ConfigParsers read `flag` from
`max_idx`; the port is narrowed to 16 bits; and no one catches what `asInt` throws, so a
member of another type ends the process.

## 3. Runs

| Run | What it asks | What it shows |
|---|---|---|
| `server` | no guid, unknown guid, no token, first negotiations, the slot behind the last, an item that is none; every database outcome, crash, restart and tick | what is stored, recorded and answered agrees; a start loses nothing; each first negotiation costs one index; once the connection is lost only refusals are left |
| `shm_startup` | a server of two groups and a client, at every system call | without overlapping starts all attach the same segment, but for a process to which the kernel refuses it, and no used one loses its name; with or without, nobody attaches a segment too small, and every start ends |
| `net_framing` | three packets of two lengths in pieces of every size | the framing implements `MsgQueue`; with one packet under way at a time all arrive |
| `system_remote` | two remote clients that negotiate the same index, backlogs, no deaths | each keeps a token it was granted; the one granted last agrees with the server at rest |
| `system_deaths` | one remote client over three periods, two deaths | an item in use has the expiry of its key, packets are conserved while the connection lives, tokens never go back, the system implements `TokenDelivery`, who asked is answered or disconnected |
| `thread_lifecycle` | up to three starts, two polling rounds | one live thread at a time, none outlives the object, Stop joins a thread if one was created for it, Stop ends |
| `atomic_counter` | two threads, all five operations, five calls on a two-bit counter | the counter implements `AtomicCounter`; prefix ++ alone answers no number twice |
| `crypto_roundtrip` | messages of 0 to 35 bytes, each carried intact, re-wrapped, unpadded, cut or garbled | what was encrypted is decrypted whatever its length; damage of up to twenty symbols is refused; the text is standard base64 of standard AES-256 |
| `rpc_dispatch` | objects of six classes, three calls on them, two packets between two versions | unset members read as defaults, sizes are those of what is written, what is handled is what was sent, a newer peer is understood as far as possible, parsing two messages in a row merges them |
| `json` | files of up to five phrases under three sets of features, a Reader used twice, two calls on the value, both writers | the Reader's pointer stays inside the tree, what is written reads back as the same data, comments and configuration, but for the sign of -0.0 and documents with a // comment that ends in a blank, `isConvertibleTo` agrees with `asInt`, `asUInt`, `asDouble`, `asBool`, `asString` and `operator[]`, an array with holes behaves as a sequence |

Runs that expect a violation, each of a sentence the repository says
(PROJECT.json "findings" quotes it):

| Run | What the code does |
|---|---|
| `shm_createsonlywhennone` | a client was there first: its segment is too small for the server, which takes it for none and cannot create one |
| `system_expiryofitskey` | client and server of one host store into one item: an item in use has another expiry than its key's |

Other disagreements the models show and no run is kept for: a first negotiation (group
or idx -1) pops an index, assigns it to nothing and is answered SR_NegotiateFailed
(stp_crypto_negotiate.cc:75, `IndexLeakAccounting` counts the indexes it costs), the
row of stp_status gets the group as its expiry, the index as its group and the expiry as
its index, since parameters 2 to 4 are bound in another order than the statement's columns
(stp_dao.cc:91,101), a database failure is
reported as SR_InvalidGuid (stp_dao.cc:69), SR_OK is answered though the row is
missing (stp_server.cc:115), an item can be labelled with another group than its
segment's (stp_crypto_negotiate.cc:106), the process aborts with groups left
(stp_crypto_negotiate.cc:79), "try attach succeed!" is logged for an address that is
(void *) -1 (stp_crypto_detail.cc:69; `SharedUnlessRaced` says that only a process the
kernel has refused holds one), a failed pthread_create answers true and its Stop joins no
thread (thread.cc:38; `JoinsAThread` says that nothing but this and a Stop without a Start
leads there), StyledWriter writes on behind a // comment that ends in a blank
(jsoncpp.cc:4618; `ReadsBack` leaves out the documents with one), Stop waits longer than its three seconds
(thread.cc:57), postfix ++ answers the same number to two threads
(atomic.h:112), the second of two packets that arrive together waits until more
bytes come although event_notifier.h:23 speaks of data that has been read
(connection.cc:20), encryption is refused after a successful InitStpCrypto
(stp_crypto.cc:74), and the client sends on a deleted connection
(event_notifier.cc:73).

Bounds.

* `server`: one deployed and one unknown guid, since the handler holds one request
  at a time and keeps nothing per guid but the row; one database connection, as in
  `main.cc`; two groups of two items, the smallest sizes with a next group and a
  pool that shrinks in steps; a clock of two seconds, so that key and expiry can
  fall into different ones and an item can be renewed later.  `RowBound` stops
  exploring behind the second row; no step reads the table.
* `shm_startup`: two processes race pairwise; `MaxSegs = 4` segments remembered at
  a time are enough for both groups and the probes of both.
* `net_framing`: header 2, bodies 1 and 3, so that header and body can both be cut,
  and a read can end before, at and behind a packet boundary.
* `system_*`: two or three periods give a backlog of up to four packets per client;
  two deaths let client and server die one after the other, or one of them twice.
* `thread_lifecycle`: the second and third start meet what the first has left.
* `atomic_counter`: five additions wrap a two-bit counter.
* `crypto_roundtrip`: 35 bytes are two whole blocks and a third that is begun, so each
  remainder modulo 16 occurs, and padded lengths 16, 32 and 48 have the three
  remainders modulo three of base64.  Twenty lost symbols are the most that can never
  amount to a whole block; losses start at the first, a middle or a late symbol.
  `Word` is 2^16 here; the wrap at `Word` is a matter of the proofs.
* `rpc_dispatch`: three calls set two members and clear, merge or swap; the second packet
  meets what the first has left in the object the handler keeps.  -1 and 5 are a negative
  number and one that takes two varint groups.  The buffer of 40 bytes holds the
  smaller requests; one whose class name and token with its key do not fit is refused and
  never sent, so both outcomes occur.
* `json`: integers of 5 and 8 bits and doubles with 6, in the order of the program's
  32 < 53 < 64, so every conversion has its boundary; the leaves of the calls are the
  two ends of the 8-bit types, a double behind both, -0.0, and a string to be escaped.  Five
  phrases are a container in a container with an error or a comment in either; `MaxWork` gives
  the calls only files short enough.  `StackLimit` 3 lets the depth run out.

Fairness.  A started process goes on by itself (`StartStep` in `ShmStartup`): its
system calls do not block, and nothing makes it start.  `Read` in NetConnection
and the reads and handlers in StpSystem are fair: TCP delivers what was written
while the connection lives, and the event loop runs.  The clock, deaths, starts
and the server's EOF callback are not.  In ThreadLifecycle the scheduler runs
every thread and the derived class's Run returns; which call the owner makes next
is not fair.

The runs `rpc_dispatch` and `json` state no liveness: nothing there waits.

Deadlock is not checked where the system stops by its bounds or by nature: a
closed connection, a destroyed or crashed thread object, all calls made, the clock
at its end.

## 4. Proofs

`StpServerProofs`, for every configuration with at least one group, one item and
one connection, and any sets of guids and tokens:

* `TypeCorrect` from `TypeInv` = `TypeOK` and `HandlerInv` (what each step of the
  handler may rely on: a deployed guid, an existing slot);
* `StarvedServerRefuses`, a statement about steps, by cases over the actions;
* `CurGroupCorrect` from `GroupInv`: while probing, the attached groups lie below
  the probe and `cur_group` is the last of them.  `CurGroupIsLast` alone says
  nothing about the process while it starts, hence the strengthening;
* `IndexLeakCorrect` from `IndexInv`: pools are full until the process serves;
* `SegmentsConsistent` and `RemovesOnlyBlank` from `SegmentInv`: every slot, also
  one whose store is under way, has an expiry no later than now plus the token
  time, and segments that do not exist or were just created are blank;
* `ReplyIsStored` and `RecordsAreStored` from `StoredInv`, which says at every step of
  the handler what the item already has of the call: the expiry, then the zeroed key,
  then the drawn one, and that a row or an answer repeats them.  The slot the call names
  is the one its token named, and nothing else writes it meanwhile;
* `ExpiryNeverBack` from `SegmentInv`: an item is only renewed by a clock that has not
  gone back.

`ShmStartupProofs`, for any processes, groups and sizes: `SegmentsLargeEnough` from
`SizeInv`: what a process has attached, and the identifier it is about to attach,
are segments that were large enough when `shmget` answered them.  It rests on the
kernel not giving an identifier again that somebody still remembers (`FreshId`).
`SharedSegments` and `UsedSegmentsStay` say what holds while no two starts have
overlapped, from `RaceInv`: until `raced`, `AloneInv` holds, by which at most one process
starts, everything attached is what its key names but for addresses the kernel refused,
and the segment of a probe is
attached by nobody and unused when `IPC_RMID` comes.

`NetConnectionProofs`, for all packets, lengths and header sizes:

* `NeverReadsAheadCorrect` from `OffsetInv`: each packet ends one header and one
  body behind its predecessor;
* `FramingImplementsQueue`: every step of the framing is a step of `MsgQueue`
  or a stutter.

`StpSystemProofs`, for any number of clients, local ones too unless said otherwise, and
any periods, token times, clocks and deaths:

* `TypeCorrect` from `Base`: the types, and the handler working for a client whose
  connection the server holds;
* `NothingIsLost` from `CountInv`, `Conservation` with each direction's packets summed
  over the wire and the input buffer, since a read event moves them between the two;
* `StoredIsGranted` from `GrantInv`: every token in the line of a client was granted to
  it, so is the response in its handler, and the key that was stored first is of the
  same response as the expiry that will be stored last.  Remote clients never appear in
  `clashed`;
* `ExpiryMovesForward` from `MoveInv`: in the item, the handler, the line, the server's
  handler and the clock the expiries stand in the order they were granted in.  The
  property speaks of one step only and says nothing of a line that is out of order;
* `ExpiryBelongsToKey` from `ExpiryInv`, for configurations without local clients: with
  one the run `system_expiryofitskey` refutes it;
* `LastClientAgrees` from `AgreeInv`: the last token granted is the one in the server's
  item, and is the last of its client's line, or in its handler, or stored;
* `TokensAreDelivered`: each step is a step of `TokenDelivery` for one client or a
  stutter.  `Emptied` to `Expired` name the six things that can happen to a remote
  client, the seventh is the server's token; each is matched with an abstract action.
  `GrantInv` gives that the whole token is the one that stands first in the line,
  `MoveInv` that a granted token is no older, `BusyInv` that nobody is storing when its
  connection ends.

`ThreadProofs`, for a `Thread` and any number of starts and rounds: `OneLiveThread`,
`ObjectOutlivesThreads` and `StopJoinsAThread` from `LiveInv` (a live thread's
id is the one kept, and `running_` is set),
`CreateInv` and `PairInv` (a paired start has a thread that can be joined, unless its
creation failed).

and for an `Atomic` and any threads, width and number of calls:

* `CounterImplemented`: every step is a step of `AtomicCounter` or a stutter;
* `PrefixNumbersDistinct` from `CountInv` (the counter and the threads about to add
  do not exceed the calls, so it has not wrapped) and `NumberInv` (numbers answered
  and about to be answered differ and lie below the counter).

`StpCryptoProofs`, for any bytes, any 32-bit length and any content:

* `EncodeIsStandard` and `DecodeInvertsEncode`: `base64_encode` writes the text of
  RFC 4648, and `base64_decode` gives the bytes back from it and from every text of which
  it keeps the same characters, with line breaks or without padding.  Both loops are
  recursive functions of the position, and what they have computed at a position is
  shown by induction over the positions: the set of those where it fails has no least
  element (`WFMin` with `NatLessThanWellFounded`, which need no operator as a parameter);
* `LengthFits`: the padded length is whole blocks, at least four bytes longer than the
  message and at most nineteen, and does not wrap up to `Word - 20`;
* `LengthWordIsReadBack` and `PackedPlainIsReadBack`: a message is found again in its
  padded form;
* `BlocksAreReadBack`: if AES_decrypt inverts AES_encrypt on one block, the block loops
  invert each other;
* `TypeCorrect`, `RoundTripHolds`, `DamageIsNoticedHolds` and `StandardTextHolds` from
  `IInv`: the text is that of the message, carried as `change` says (`Travels`), and an
  answer is what `DecryptCipher` makes of the text.  The three properties speak of the
  answer or of a text nobody has touched, and say nothing of one under way.  A text short of
  up to twenty symbols decodes to a length that is no whole number of blocks, whatever the
  message was; a text with a character that is no symbol decodes to nothing.

The cipher enters the last two items through two hypotheses written in the theorems:
`CipherInverts`, that the two functions invert each other on blocks of bytes, and
`CipherIsStandard`, that the encrypting one is the standard's.  `Aes` is a table of bytes
combined by exclusive or, which the provers cannot compute with; that it satisfies both is
what TLC checks, for the blocks of `crypto_roundtrip` (`StandardText`, `RoundTrip`,
`KeySizesAgree`).

`JsonReaderProofs`, for every document, set of features, stack limit and width:

* `LastValueStays`: from `IInv`, which holds while a document is read.  The tree is closed
  under prefixes (`IsTree`), the open containers are values of the tree, each an element of the
  one below it (`Stack`), their number fits the step the Reader is at (`Levels`), and
  `lastValue_` is a value of the tree that is not two or more steps below the innermost value
  still to be read (`Near`, `Deep`).  `LastValueExists` alone is not inductive:
  `swapPayload` throws away everything below the value it replaces, and only `Near` says
  that the value whose address was kept is not there;
* `ConvertibleAgrees`: `isConvertibleTo` says yes exactly where the accessor does not
  throw, for every value whatever the tree and the widths;
* `ArrayIsASequenceHolds`: on the root of a document that was read, if it is an array, the calls
  `append`, `resize`, `operator[] =` and `removeIndex` do to the elements, holes read as nulls,
  what the calls of a sequence do, for every document and any number of calls before.  It
  needs an invariant of its own, `RInv`, which adds `Rooted` to `IInv`: every path of the
  tree goes through a child of the root that is there, only a container has children, and those
  of an array are at natural numbers below some bound, so that the highest index exists.
  `Good` is no help here: it speaks of the values being read, and the calls are made when none
  is.  Two facts are shared by all calls: what `Replace` and `Without` do to the root's
  children (`PutKeeps`, `CutKeeps`, on `Branch`, the value at a step or null), and that the
  size is what is behind the last element (`ArraySize`, `SizeIs`).  The loop of
  `removeIndex` is a fold; `Loop` states it round by round, `RoundShifts` says what one round
  does, and `UpTo` carries it to the last.  A `resize` that throws is not covered by the property
  (the elements are gone by then), but it keeps `Rooted` (`ResizeRooted`).

`RpcDispatchProofs`, for any classes, numbers, texts, widths and any number of calls and
packets: `UnsetReadsDefaultHolds`, `SizesAgreeHolds`, `SentIsHandledHolds`,
`SkewToleratedHolds` and `MergeIsConcatenationHolds`.  They stand on one fact about the
codec, in four layers:

* the loops of the methods as equations, with induction up to a number (`UpTo`) in place of
  the library's induction over predicates;
* `AllTables`: for each of the eight classes the i-th slot of writing, size and merging and
  the i-th case of parsing are about the same member and kind, each member has one slot,
  and Clear resets whatever can differ from its default.  All that follows knows the tables
  by this alone, so a class with such tables needs no proof of its own;
* `Proper` and `IsMsg`, the messages a program can hold: members have values of their
  kind, unset ones their default, and what is kept as unknown is a field this class cannot
  read otherwise (`Foreign`).  Every accessor, Clear, MergeFrom and CopyFrom keep a message
  one; the length written is the size computed (`MsgFramed`);
* `ParsedMsg`: parsing the bytes of x into m is MergeFrom(m, x), slot by slot, the
  token first and then the message around it.  A new object merged with x is x
  (`MergeIntoNew`), hence parsing into a new object reads x back (`ParsedNew`).

The invariant `IInv` says that the objects, what was sent and what was handled are such
messages of one class, and that a packet under way is the packet of what was sent with what
a newer sender added, or has been handled as that packet would be.  `SentIsHandled` alone
is not inductive: it says nothing of a packet under way, nor of unknown fields that
would be read as something else in the second run through the codec.

Assumptions are those named in the modules (`ConfigAssumption`, `WordAssumption`,
`PlainsAssumption`, `LossesAssumption`, `HostAssumption`, `NetAssumption`, `SystemAssumption`,
`ThreadAssumption`, `OpsAssumption`, `BoundAssumption`, `TextAssumption`, `RangeAssumption`,
`ReaderAssumption`, `WidthAssumption`, `RpcAssumption`, `LengthAssumption`): sizes are positive, sets are disjoint, bounds are natural numbers.
`RangeAssumption` says that 2^(IntBits-1)-1 and 2^IntBits-1 are naturals, because the
provers know nothing of powers; `LengthAssumption` that the names of the classes and the
texts have a length and the empty text none, because they take no string for a sequence;
and `RpcAssumption` that the results of the protocol, and one more, are int32s.

Only model-checked: liveness (`PacedPacketsArrive`, `StartEnds`, `AnsweredAtLast`,
`StopEnds`), since the prover has no fairness; all of `Aes`; and in `JsonReader`
`ReadsBack`, an induction over the document as it is written and scanned again. The type invariants of
`StpServer`, `NetConnection`, `ShmStartup`, `StpSystem`, `ThreadLifecycle` and
`AtomicInteger` are parts of the inductive invariants, proved and not run again.

## 5. Plan

Done: `StpServer`, `NetConnection` over `MsgQueue`, `ShmStartup`, `StpSystem`,
`ThreadLifecycle`, `AtomicInteger` over `AtomicCounter`, `StpCrypto` over `Base64` and `Aes`,
`RpcDispatch` over the generated messages, `JsonReader` with the configuration, in this
order because the negotiation and what it leaves in shared memory is the purpose of the
program.

Left, in this order:

1. `EventRegistry`: replacing and deleting signal and timer events of
   `EventNotifier` (event_notifier.cc:85-141), and `evbuffer_add` failing between header
   and body in `NetConnection` (connection.cc:126).
2. An abstract specification of the server's handler that `StpServer` refines; `ReadsBack` of
   `JsonReader`, for every document.
3. MD5, as an algorithm against RFC 1321.

## 6. Not modelled

MD5 is third-party code that nothing calls.  Of jsoncpp, `OurReader`, `CharReader`,
`StreamWriter`, `Path`, the iterators and the binary strings have no user in the
programs.  Of the generated code, descriptors, reflection and static registration are
left to the protobuf runtime, which is external, as are libevent, MySQL and the kernel.
`codec/tests`, `stpclient/tests` and `stpserver/tests` are copies of
`stputil/tests`.  `PushIdx`, `ValidateToken` and `shmdt` have no caller in the
programs.  `StpMsgPacker` and `StpCryptoAccess` are empty drafts.  The mutex wrapper
is one pthread call per operation and has no user in the programs.  Atomic's
`GetAndSet`, `Sleep` and the Windows branches are left out.
