# Verification of go-mock-redis

`go-mock-redis` is a single-threaded Redis server written in Go for learning and
testing. This directory holds TLA+ models of its core, the TLC configurations that
check them on small instances, and TLAPS proofs of the most important results for
every instance. `PROJECT.json` lists the runs, the source lines each definition
stands for, the hazards of the code, and the theorems.

    tlc -workers 2 -config HashTable.cfg MCHashTable     # one run
    tlapm HashTableProofs.tla                            # one proof module

## 1. Inventory of the system

### Data structures and database (`db/`)

| Component | State | Operations | What is hard | What makes it correct |
|---|---|---|---|---|
| Hash table, `dict.go` (`set.go` wraps it) | two arrays of chains, sizes, rehash index, `Count` | `Set`, `Get`, `Delete`, `AddRaw`, `SetVal`, `GetSomeKeys`, `Len`, `Empty` | entries move between the arrays a few buckets at a time, inside other calls | it is a map: rehashing is invisible, chains stay lists in the right buckets |
| Keyspace, `db.go`, `types.go`, `zmalloc.go` | `dict` (written with `AddRaw`), `expire` (written with `Set`), the global memory counter | `SetKey`, `SetExpire`, `RmExpire`, `GetExpire`, lookups, `GenericDelete` | two tables and a counter that must agree, each rehashing on its own | a TTL has a key, one TTL per key, what is charged for entries is given back with them and no more |
| LRU eviction, `lru.go`, `evict.go` | pool of candidates sorted by idle time, clock, limit | `EvictionPoolPopulate`, `PerformEvictions` | the pool is stale when used; the clock wraps; a loop that must find something | the pool keeps the best candidates in order; eviction ends at the limit and takes only keys with a TTL |
| Radix tree, `rax.go` | nodes, labelled edges, size | `Insert`, `Find`, `Delete`, `Len` | splits and merges; labels and prefixes kept twice | stored keys are found, deleted ones are not, edges stay sorted |
| Doubly linked list, `dlist.go` | nodes, head, tail, length | insert, remove, iterate | iterators on removed nodes | links agree in both directions |

### Server (`node/`)

| Component | State | Operations | What is hard | What makes it correct |
|---|---|---|---|---|
| Reactor, `poll_unix.go`, `registry_unix.go`, `reactor_unix.go`, `conn_unix.go`, `server.go` | epoll registry, connection pool, counter, eventfd, two goroutines and two channels | run, accept, read, hang-up, signal, graceful close | two goroutines, the kernel, clients and the garbage collector; batches of events; shutdown order | registry and kernel agree; no stale event; `Run` returns last; a signal stops the server |
| String commands, `strcmd.go`, `object.go` | none of their own | `SET` with options, `SETNX`, `SETEX`, `PSETEX`, `GET` | option combinations, units and limits of times, error paths | a command does what it answers, or nothing |
| Client and dispatch, `client.go`, `command.go`, `multi.go` | query buffer and position, argument vector, current command, flags, counts of rejections | input processing, the inline parser, dispatch, rejection, reset, replies | pipelining, chunks that end anywhere, fields that are stale at the next command | lines are taken in order, each command is checked and answered once, a flag for one command lasts for one command |
| ACL, `acl.go` | users, selectors, bitmaps | a permission check without a caller | | only permitted commands run |

### Around it

`resp/` is a RESP3 parser and command encoder (stateless; the rest of the stream is
what a call hands to the next, so one byte too few is never made good; correct if what
is sent arrives, in order, and part of a value is never taken for one), `deps/hredis` a
client library with an incremental reader that nothing feeds, `cmd/` and `deps/linenoise` the command line client. `hashcmd.go`,
`lstcmd.go`, `setcmd.go` and `zsetcmd.go` contain only a package clause.

### How they interact

`server.go` starts the reactor, whose main goroutine waits for a signal or for the
poll goroutine; the latter runs `EpollWait` and handles the events one after the
other. String commands call `RedisDb`, which keeps the keyspace and the TTLs in two
hash tables; every insertion and deletion there changes the global memory counter.
Eviction samples the keyspace, reads the TTL table and deletes through `RedisDb`.
A client replies by `Write` on its connection, and what it writes is what `resp/` reads.
At this commit the reactor's handler, the client object and the string commands are
not connected to each other yet, and no type implements `RedisCommand`: a client's
caller, the table of commands and their procedures are an environment.

## 2. Modules

| Module | Models | Checked by |
|---|---|---|
| `KeyValueMap` | abstract specification: a map that is changed one key at a time | refined by `HashTable`, and through it by the TTLs of `StrCmd` |
| `HashTable` | `dict.go`: `Set`, `Delete`, `Get` | TLC, TLAPS (`HashTableProofs`) |
| `DictHeap` | the same on pointers, and `AddRaw`, `SetVal`, `GetSomeKeys` | TLC, TLAPS (`DictHeapProofs`); refines `HashTable` |
| `DictMemory` | what the keyspace of `DictHeap` charges to `usedMemory` (`zmalloc.go`), also while it is rehashed | TLC, with `DictHeap` |
| `RedisDb` | `db.go`, as functions of the database | through `StrCmd` and `Eviction` |
| `StrCmd` | `strcmd.go` on `RedisDb` | TLC, TLAPS (`DatabaseProofs`); refines `KeyValueMap` for the TTLs |
| `EvictionPool` | the candidate pool and the clock of `lru.go` | TLC, TLAPS (`EvictionPoolProofs`) |
| `Eviction` | `PerformEvictions` over `StrCmd` and `EvictionPool` | TLC, TLAPS (`DatabaseProofs`) |
| `RaxTree` | `rax.go` | TLC |
| `ListSequence` | abstract specification: a sequence changed one element at a time | refined by `DList` |
| `DList` | `dlist.go` with an iterator on a changing list | TLC, TLAPS (`DListProofs`); refines `ListSequence` |
| `Resp3` | `resp3.go`: parser and command encoder at the ends of a stream | TLC, through `Replies` |
| `Replies` | composition: the replies of `client.go` and `Write` of `conn_unix.go` at one end of that stream | TLC |
| `Client` | `client.go`: input buffer, inline parser, dispatch, rejections, reset, the gate of the replies | TLC, TLAPS (`ClientProofs`) |
| `Reactor` | the event loop with kernel, clients and garbage collector | TLC, TLAPS (`ReactorProofs`) |

`NumberLemmas` holds the least and the greatest number principle that the proofs share.

Each `MC...` module gives its specification small values. Definitions whose name ends
in an underscore and a phrase (`AfterDelete_CountsBlindly`) are the plausible mistakes
with which `PROJECT.json` shows that each property can fail.

### How state and actions correspond to the code

**HashTable.** `h` has the fields of the struct. A table is a function from keys to
the sequence of the values of that key's entries, in chain order: every loop of
`dict.go` looks for one key and steps over the others, so nothing else of a chain can
be observed. `DictHeap` checks exactly this claim, with entries, `Next` pointers and
buckets. `Set(k, v)` is the whole call: the rehash step (`Stepped`), the insertion
(`Inserted`) and the deferred growth (`Resized`). `Delete` is `AfterDelete`.
`Count/Size > 0.7` is written over integers.

**DictHeap.** `heap` maps addresses to entries; unreachable entries are collected at
each step so that addresses can be used again. A walk that would never end sets `hung`.
`role` says which of the database's two tables this is: the TTL table is changed by `Set`
and `Delete`, the keyspace by `AddRaw` followed by `SetVal`, an overwrite through
`GetEntry`, and `Delete`. `GetSomeKeys(n, o)` is what eviction's sample holds when the
buckets are drawn in the order `o`.

What `AddRaw` does to a keyspace goes further than a hung lookup. An entry that it linked into both
arrays is the end of two chains; when a later `AddRaw` appends to one of them, the new entry hangs in a bucket of
the other array as well, and the rehash that installs this array leaves it in a bucket where no lookup for
its key goes. So "every entry hangs in the bucket its key hashes to" is false of a keyspace; what
is left is `InClass(InitSize)`: bucket and key agree modulo the size the table began with, since
every later size is a multiple of it. `KeyspaceReadsItsWrites` and `SamplesAreUsable` say from which
state on the code can be relied upon.

**DictMemory.** `charged` says how often the size of each key is in `usedMemory`, on top of `DictHeap`'s
steps (`MemorySpec`). `AddRaw` charges where it counts, so twice for a new key during a rehash
(`dict.go:271` and `294`); `Delete` gives back one charge for each array it finds the key in. So an entry is
not charged once (`EveryEntryIsChargedOnce`): what insertions and migrations keep is that the account changes with the pointers
to the entries, and a deletion never gives back less than it cuts (`MemoryFollowsPointers`).

**RedisDb and StrCmd.** `db` holds the keyspace, as a map, the expire table, as a
`HashTable`, the keyspace's `Count`, and for each key how often it is charged to
`usedMemory` for the keyspace (`charged`) and for the expire table (`expireCharged`). `Set`, `SetNx`, `SetEx`, `PSetEx` and `Get` are commands with their
replies; `Evict` is a deletion from outside. `Parse` runs the option parser over a list of arguments,
each a text or a number. The keyspace is a plain map here, which holds as long as it
is not being rehashed: commands are bounded (`Bounded`) so that it does not start to
(`DictFull`). What happens when it does, and what `AddRaw` then counts and charges twice, is the subject of
`DictHeap` and `DictMemory`.

**EvictionPool and Eviction.** One action of `EvictionPool` offers one sampled key.
`Eviction` uses the same `Offered` operator for a whole call of `EvictionPoolPopulate`,
and one action per pass of the outer loop of `PerformEvictions`. There idle times
are all equal, because every object gets `lruClock(100, 100)`; `EvictionPool` covers
unequal ones. `phase = "spin"` is the inner loop that cannot find a key.

**RaxTree.** Trees are values: a node has a prefix, a leaf and a sequence of labelled
edges. `Inserted` restarts at the root in each pass, as the shadowed variable at
`rax.go:172` makes it do. `live` records what a caller has inserted and not deleted, `deleted`
whether anything was.
Byte slices are values: the one `append` that writes into a shared array (`rax.go:286`)
overwrites bytes of nodes that are being dropped.

**DList.** Nodes are addresses, `prev` and `next` their links. `InsertAfter` and
`InsertBefore` are the two halves of `InsertNode`; the latter panics, `panicked`, before
any node but the head, since the parallel assignment at `dlist.go:83` goes through
`node.Prev` as it was before. Callers pass nodes that are in the list. `visited` records what the iterator has returned.
`Walk` follows links for one step more than there are nodes, so that a way that goes round shows as one that
is too long.

**Resp3.** A byte is a symbol, and so is a decimal number: lengths and counts up to 9 and
-1 are enough for the bounds. `parseRESP` follows the `switch`; where Go would index out of
range it returns `Panic`. `Send` is a peer with the encoding of the RESP3 specification,
`SendCommand` is `ConvertToRESP`, `Receive(n)` one call of the parser on what the last call
left, of which `n` bytes have arrived.

**Replies.** `Shared`, `AddReplyBulk` and `AddReplyError` are the bytes of a reply, write by
write. `SendReply` is a reply the kernel takes, `SendReplyShort` one of which it takes a part of
one write and then fails. Every `Write` makes an `os.File` of the descriptor (`conn_unix.go:55`) and forgets it;
`fd` is "dropped" from then on, and the collector may close it between two replies (`CollectFile`) or
between two writes of one (`SendReplyCut`), after which nothing reaches the peer. What other bytes than those of the value it means leave the
server is recorded as `<<"spoilt", v>>`: `OK` without its `+`, lengths in runes instead of bytes, short
writes, writes on the closed descriptor, and every error, since none is in the form of `client.go:259`: one
without a type byte gets none, one with its code (`-EXECABORT`, `multi.go:6`) gets `-ERR` in front.

**Client.** The variables are the fields of the struct; `cmd` is a name in the table;
`control` says whether a call of `processInputBuffer` is under way, of which an action is one
pass of the loop; the other methods are one action each. `panicked` stands for every index out of
range, nil dereference and explicit panic. The position and the slice expressions of
`processInlineBuffer` are kept as they are, with a chunk of bytes as a sequence of symbols.
`around` is what a client meets: the flags it is made with, the default user, the chunks
and the argument vectors that come, and the flags that others set and clear.
`RejectCommand`, `RejectCommandStr` and `RejectCommandFormat` are the three functions, each with its own count and its own
way to answer, down to the writes of the reply and to `execCommandAbort`.
`fed`, `parsed` and `straight` record what happened, for the properties.

**Reactor.** `main` and `poll` are the program counters of the two goroutines; `batch`
holds the events of the last `EpollWait` still to be handled; `open`, `interest`,
`efdCount`, `backlog` and `sock` are the kernel. One action is what a goroutine does
between two points where another actor can interfere. `Connect`, `Peer`, `Signal` and
`CollectListenerFile` are the environment, which owes nothing. Connections are named
by descriptor; none is used twice, since the code closes no connection's descriptor
while the loop runs.

## 3. Runs

Passing runs (all explore their whole state space):

| Run | States | Shows |
|---|---|---|
| `HashTable` | 5 781 | bookkeeping and pace of rehashing, the table a rehash ends with has room, no key lost or brought back, `Set` is read back |
| `HashTableMap` | 1 453 | a client that sets no key left in the old table sees a map |
| `DictHeap` | 20 594 | as an expire table: chains are disjoint lists that implement `HashTable`; as a keyspace, with `AddRaw`: no pointer dangles, entries stay in their class of buckets, and writes are read back where no entry is misplaced; a sample of a table in order holds only keys that can be found and misses only keys that have moved; the memory account follows the pointers |
| `Reactor` | 0.9 million | registry, counter, fresh batches, shutdown order; a signal or a failure ends `Run`, unless a read spins |
| `StrCmd` | 13 244 | values, TTLs and what TTLs are charged stay together; commands do what they answer, for every combination of options, and the last answer is true; TTLs are a map |
| `EvictionPool` | 166 860 | the pool is sorted and keeps the oldest; the clock's wrap is right |
| `Eviction` | 18 715 | eviction ends exactly at the limit, and goes on while it has a candidate |
| `DList` | 25 720 | both directions agree, each call is one insertion or removal, an iterator visits no node twice whatever happens under it |
| `Resp3` | 416 240 | values, commands and replies, cut anywhere, with short writes and a descriptor closed by the collector, arrive intact and in order until one goes through that the parser does not frame; part of a value makes the parser panic and never looks like another value |
| `Client` | 236 870 | inline lines are taken in order, whatever the chunks, trims and stops; a call of `processInputBuffer` that has arguments ends |
| `RaxTree` | 39 773 | labels are prefixes, the size bounds the leaves, leaves are not disturbed, edges stay sorted until something is deleted |

The comments and tests of the repository also make statements that the code does not
keep. Each is a definition at the end of its module, and has a `.cfg` with
which TLC finds the counterexample. One of them is listed as a run, with a finding:

| Run | Statement | What the code does |
|---|---|---|
| `HashTableValuesSurviveRehashing` | `ValuesSurviveRehashing` | a `Set` during a rehash adds an entry beside the one in the old table, which is later moved in front of it: the overwritten value returns |

The others are in the `.cfg` files of this table, to be run by hand in the same way. A
file with several of them (`...Statements.cfg`) has one in force and the rest as comments.

| Definition | Config (module) | Statement | What the code does |
|---|---|---|---|
| `NoDoubleInsertion` | `HashTableStatements` (`MCHashTable`) | dict.go:100, "avoid double insertion" | a key is in both arrays |
| `DeletedIsGone` | `HashTableStatements` (`MCHashTable`) | dict_test.go:33, a deleted key is gone | a second entry is uncovered |
| `LenCountsKeys` | `HashTableStatements` (`MCHashTable`) | dict.go:346, "the number of elements" | `Count` is never lowered |
| `LookupsReturn` | `DictHeapStatements` (`MCDictHeap`) | dict.go:20, "still being able to serve other requests" | `AddRaw` links one entry into both arrays; moved in front of itself it becomes its own successor, and a lookup never ends |
| `AddRawReportsNewKeys` | `DictHeapStatements` (`MCDictHeap`) | dict_test.go:124, a new key did not exist | behind a collision it is reported as existing |
| `SampledKeysAreFound` | `DictHeapStatements` (`MCDictHeap`) | dict.go:356, "keys sampled from the hash table" | a misplaced entry is sampled, and the lookup of its key (lru.go:98) finds nothing |
| `SampleIsComplete` | `DictHeapStatements` (`MCDictHeap`) | dict.go:357, "returns all of them" | moved entries are missed |
| `EveryEntryIsChargedOnce` | `DictHeapStatements` (`MCDictHeap`) | dict_test.go:100, the memory after insertions | `AddRaw` charges an entry that it links into both arrays twice |
| `EagainIsTemporary` | `ReactorStatements` (`MCReactor`) | utils_unix.go:21, EAGAIN "is temporary" | a socket that has been read empty ends the loop |
| `SyntaxErrorsAbort` | `StrCmdStatements` (`MCStrCmd`) | strcmd.go:160, "syntax violations C_ERR" | `SET` answers with a syntax error and then writes the key |
| `EveryValueArrives` | `Resp3EveryValueArrives` (`MCResp3`) | resp3.go:121, "Consume the "_\r\n"" | two of the three bytes are consumed; all that follows is lost |
| `EveryValueArrives`, OK | `RepliesStatements` (`MCResp3`) | command.go:84, the shared reply OK | it has no type byte; it is no value |
| `EveryValueArrives`, errors | `RepliesStatements` (`MCResp3`) | client.go:259, "-ERRORCODE Error Message" | the prefix is written only before a message that has a code already |
| `EveryValueArrives`, texts | `RepliesStatements` (`MCResp3`) | client.go:297, "the length prefix of a bulk reply" | it counts runes, not bytes |
| `EveryValueArrives`, short writes | `RepliesStatements` (`MCResp3`) | conn_unix.go:63, "data needs to be buffered" | EAGAIN is not recognised and the rest of the reply is dropped |
| `EveryReplyArrives` | `RepliesStatements` (`MCResp3`) | conn_unix.go:53, "Try to write the data directly" | the `os.File` made for one reply closes the connection when it is collected |
| `ChecksEveryCommand` | `ClientStatements` (`MCClient`) | client.go:536, "check ASAP about trivial error conditions" | `c.cmd` is never cleared: only the first command of a client is looked up and checked |
| `UnknownIsAnswered` | `ClientStatements` (`MCClient`) | client.go:190, "a command that is ready for execution needs to be rejected" | an unknown command gets no answer |
| `SkipSilencesNextCommand` | `ClientStatements` (`MCClient`) | client.go:67, "skip next reply" | a dispatched command is not followed by a reset, so the command after SKIP is answered |
| `CommandIsReady` | `ClientStatements` (`MCClient`) | client.go:420, "creates a command ready to be executed" | `argv` begins with as many nil pointers as there are arguments |
| `PipelinedLinesInOrder` | `ClientStatements` (`MCClient`) | client.go:420, of a second line in the buffer | the distance of the line feed from `queryPos` is taken for its index |
| `InputReturns` | `ClientStatements` (`MCClient`) | client.go:346, the buffer is processed | with bytes and no arguments the loop resets the client for ever |
| `EveryCommandReplies` | `StrCmdStatements` (`MCStrCmd`) | strcmd.go:95, what is replied | `SET ... GET` is not answered |
| `TTLIsUpdatedInPlace` | `StrCmdStatements` (`MCStrCmd`) | strcmd.go:125, the TTL is updated | it is deleted and created again |
| `PoolIsRepopulated` | `EvictionPoolIsRepopulated` (`MCEviction`) | lru.go:85, "we populate it again" | the same pool is searched for ever |
| `NoFdLeak` | `ReactorStatements` (`MCReactor`) | poll_unix.go:92, "prevent the fd leak" | connections that hung up stay open |
| `SignalStops` | `ReactorSignalStops` (`MCReactor`) | poll_unix.go:39, the eventfd wakes the loop | a peer's orderly shutdown keeps it in `Read` for ever |
| `InsertedIsFound` | `RaxTreeStatements` (`MCRaxTree`) | rax_test.go:26, an inserted key is found | the shadowed `n` stores it on another path |
| `AbsentIsNotFound` | `RaxTreeStatements` (`MCRaxTree`) | rax_test.go:20, other keys are not | a prefix of a stored key is found |
| `ExistingIsDeleted` | `RaxTreeExistingIsDeleted` (`MCRaxTree`) | rax_test.go:48, "deleting an existing key" | a key merged into the root cannot be deleted |

`TTLIsUpdatedInPlace` deserves a remark: the inverted condition is what keeps the
expire table sound. `OneTTLPerKey` fails if it is written as its comment says, because
a `Set` over an old entry during a rehash would duplicate it.

### Bounds and why they are enough

- Hash table: sizes 4, 8, 16 with steps of 3 buckets instead of 16, 32, 64 with steps
  of 10. A rehash takes several steps and the last is cut short. Four keys share a
  bucket, are separated by a rehash, or lie in buckets moved early and late.
  `MaxCount` lets two rehashes happen. The proofs remove these bounds.
- `DictHeap`: `MaxEntries` addresses. Three keys in one bucket of 4, of which a rehash separates one, and
  three addresses are enough for a shared entry, one appended behind it, a chain that runs into itself
  and a misplaced entry; `MaxCount` 9 lets two rehashes happen. `MaxOverdraft` 1 is how far deletions that
  give back too much may take the account of a key below zero.
- `StrCmd`: an expire table of 6 with steps of 3, so that the two keys move in
  different steps; seconds and milliseconds scaled to a ratio of 2, limits 2 and 3,
  int64 to 4, so that each limit can be passed and the product can overflow.
  Commands take argument lists of length 2; `CommandsTakeEffect` looks at lists of length
  4 in every state, which holds two time options with an operand each.
- Eviction: a pool of 2 or 3 slots, more or fewer keys than slots, a clock of 3 ticks
  that wraps, keys of two sizes.
- Radix tree: six keys over two bytes with the empty key, prefixes of each other and
  forks at each depth. `MaxSize` bounds the size. `MaxPrefix` bounds the root's prefix,
  which grows with every merge into the root.
- List: four nodes, none used twice, so that there is an inner node with two neighbours
  to remove, to insert beside and to iterate over. Resp3: two values (`MaxMessages`) of
  56 kinds, among them the replies, and one call more than values (`MaxReceives`), each on any
  part of the stream, so that a value that is cut short meets every kind behind it. `ShortWrites` and
  `Collections` say whether the kernel takes parts of writes and whether the collector runs: both in the run, one at a
  time in the statements. That the number of a closed descriptor is given to another connection is left out.
- Client: three reads (`MaxChunks`) of whole lines, two lines at once, a blank line and a cut
  line; a limit of 2 bytes for a line, so that it can be passed; one rejection counted for
  each command (`MaxRejected`), and a command for each way to be rejected. Three groups of
  clients: an ordinary one, a master and one in MULTI that are fed bytes; an ordinary one and a
  script that are handed commands, for three default users; an ordinary one and a master that takes replies, whose
  replies are turned off and on.
- Reactor: three connections with room for two open ones, so that `accept` also fails.
  The bytes behind the signal hold something (`Garbage`).

Runs say `CHECK_DEADLOCK FALSE` where the system may stop: the server has returned, a
goroutine spins or a lookup hangs, or a bound has been reached.

### Fairness

`Reactor`: weak fairness of each goroutine, which Go's scheduler gives (goroutines are
preempted, and there are only two). Clients, signals and the garbage collector get
none. `Eviction`: weak fairness of a pass of `PerformEvictions`, which is ordinary
sequential progress. `Client`: weak fairness of a pass of the loop of `processInputBuffer`, for the
same reason; nobody has to call it. `InputWithArgumentsEnds` and `InputReturns` rest on it. All other modules state safety only.

## 4. Proofs

**`HashTableProofs`**, for all keys, values, hash functions, initial sizes and step
widths. The assumptions are those of `HashTable`: the size and the step are positive,
`Missing` is no value, hashes are natural numbers. The inductive invariant is
`Inv == Good(h) /\ LoadIsTested`, where the latter says that an overloaded table is being rehashed and `Good` says that the fields have
their types, that a rehash has a bucket left and the new table twice the size
(`Booked`), that passed buckets are empty (`PassedEmpty`) and that `Count` is positive
if any key is present (`Counted`). None of these is inductive alone: that the switch
to the new table loses nothing needs passed buckets to be empty and the index to
be the size; that a passed bucket stays empty needs `Set` to insert into the new table
for as long as the rehash lasts. The lemmas follow the code: one for each of
`rehashStep`, the insertion, the growth and `Delete`, each saying that it preserves
`Good` and what it does to `Get`; `AfterSetGood` composes them. From them:
`TypeCorrect`, `RehashingIsSound`, `EmptyCorrect`,
`ReadYourWritesHolds` and `KeysChangeOnRequestHolds`.

`RehashKeepsPaceHolds` has a premise of its own, that a step moves two buckets or more; the code
moves ten (`dict.go:26`). With one bucket the property is false: the step that leads `Set`
would not make room for the insertion that follows it. Its invariant `Pace` bounds the count by the
buckets already moved; `Room` is what the leading step leaves, one insertion below `Pace`.
`RehashMakesRoomHolds` applies `Pace` at the end of a rehash, where the index is the old size: the insertion of the `Set`
that ends it still fits under the load factor of the new table, by arithmetic that needs steps of two or
more and tables of eight buckets or more (`RoomForInsertion`); the code has ten and sixteen. The run has
tables of four with steps of three, below that premise: there it holds because counts are whole numbers.

For clients that set no key whose entry waits in the old table (`CarefulSpec`) the
invariant is `CInv == Good(h) /\ Unique(h)`, with at most one entry per key over both
tables. It gives `CarefulUseIsSound` and `CarefulUseImplementsMap`: the table
implements `KeyValueMap`, with the dictionary mapped to what `Get` returns. The
condition is needed, as the violation run shows.

**`EvictionPoolProofs`**, for every pool size, every sample and every width of the clock. The
invariant is `GoodPool`: the slots have their types, used ones come first and are sorted by idle
time. `PoolIsSortedHolds` follows the three ways an offer ends (refused, put into a free
slot, shifted in from either side). `PoolKeepsTheOldestHolds` counts slots above every threshold before and after:
an offer moves slots one to one (`FS_Bijection`), but for the one it fills and the one it gives up.
`IdleIsALowerBoundHolds` is arithmetic on the wrapping clock and needs no invariant but its range.

**`DatabaseProofs`**, for all keys, values, limits of the times and argument lists of any length. The
assumptions are those of `StrCmd`: a number of seconds or milliseconds within its limit fits an int64 in milliseconds
(`LimitsAssumption`), the TTLs that a table may hold include all positive 64 bit numbers
(`TimesAssumption`), and arguments are the options or texts and numbers
(`ArgumentsAssumption`). The expire table is the `HashTable` of the proofs above, taken by `INSTANCE`, so that
its lemmas are cited for `SetExpire` and `RmExpire`. The invariant `DbGood` says, of a
database, that the expire table is good and has one entry per key (`TTLs`), that a key with a TTL
exists, that TTLs are positive 64 bit numbers, that each key is charged once for its TTL and, as its
keyspace is not being rehashed, once for its entry, and that the count of the dictionary is not below the number of its keys. No part is inductive
alone: a deletion asks the count of the dictionary first, and skips the removal if it is zero; that
`SetExpire` makes no second entry needs the table to be one in which `Get` finds the entry that a `Set`
would hit. One lemma for each function of `db.go` shows that it preserves `DbGood` and what
it does to values and TTLs; the lemma on `SetGeneric` composes them in the order of the code,
and one lemma about `Parse` says which flags can come out together. They give
`TTLsBelongToKeysHolds`, `OneTTLPerKeyHolds`, `TTLsAreChargedOnceHolds`, `TTLsFitInt64Holds`,
`CommandsTakeEffectHolds`, the refinement `TTLsAreAMapHolds` (with unrestricted commands: the
expire table as they use it is the careful client of `HashTable`) and `LastAnswerIsTrueHolds`.

Its second half is about `Eviction`, for every set of keys with their sizes, every pool and every limit, on top of
`EvictionPoolProofs`: string commands keep the database good, offers keep the pool good, so that
what is taken from its back is a key. Between two passes of the loop `Account` holds: what is still to be freed
is what is in use above the limit. `EvictionsStopAtTheLimitHolds` follows from it, once
`UsedMemoryType` has shown that the sum over the keys is a number. That sum and the offers of a whole sample are folds, functions
defined by recursion over finite sets; `SetRecursion` shows that there is such a function and
`SetInduction` where its values lie. Only keys of the database are charged for (from `DbGood`), so
the sum is finite though the set of all keys need not be.

**`ClientProofs`**, for every table of commands and whatever may be read, handed over or set.
`TakenAssumption` says of the environment that it brings bytes and words, and that nobody but
`resetClient` sets `ReplySkip`, which is so in the code. `Types` is inductive with the contents of the
buffer and gives `TypeCorrect`.
`InlineLinesInOrderHolds` has the invariant `LinesInv`: the lists made so far are the words of the
first lines of everything that was fed (`InOrder`), and what is unread is the rest. Its lemmas are
about texts: more bytes behind a text leave its lines alone (`Longer`), taking what stands before
the first line feed of the rest takes the next line (`NextLine`), and a carriage return at
the end of a line changes none of its words (`LastWordEnds`).

**`DListProofs`**, for any finite set of nodes (`NodesAssumption`; addresses are finite). The invariant
`ListInv` says that from `head` the `next` links lead through distinct allocated nodes to nil (`Chain`),
that before a panic the `prev` links lead back through the same nodes from `tail` (`BackChain`) and
`length` is their number, and that a node that was never allocated has nil links: `AddNodeHead` relies on it
when the list is empty, for it sets none. The proof that a chain is what `Walk` finds (`WalkIs`) takes the first
step at which they would differ. Every list operation is shown to be one of two changes of the links, putting a node in at a
position (`Grow`) or taking one out (`Shrink`), with the ends of the list as cases, and each of the
two is shown once to do to the chain what `InsertAt` and `RemoveAt` do to a sequence (`InsertLinks`,
`RemoveLinks`). They give `LinksAgreeHolds` and the refinement `ImplementsSequenceHolds`.
`VisitsInOrderHolds` adds `IterInv`: in its direction, the iterator stands in the list with what it has returned
behind it (`On`), or on a chain of nodes that have left the list and were not returned (`Off`), which is where
`Empty` and the removal of the node it stands on put it. The direction to the head is the other one on the
reversed list (`ReverseInserted`, `ReverseRemoved`).

**`DictHeapProofs`**, for all keys, values, hash functions, sizes and step widths and any number of addresses. In a
keyspace entries are linked into both arrays and chains may be knotted, so an invariant cannot say that a chain is a list.
`LooseInv` says where it leads: with the size the table began with as a modulus, an entry points to entries whose
hashes have its remainder, and so does a bucket whose number has it (`Loose`); both sizes are multiples of it (`Between`); and an
entry is in the heap exactly if a bucket leads to it (`Live`). Every assignment of
`rehashStep`, of the insertions and of `Delete` keeps this, whatever the pointers were before, also in the calls that never
return. It gives `NoPointerDangles`, the part of `ChainsAreLists` that is about both tables. For
`KeyspaceReadsItsWritesOk` it is used a second time with the present size of the main table as the modulus, which is what the
property supposes (`InClass(h.size)`): an insertion then leaves the chain of the other table that it does not
mean alone, and what the lookup meets first is the entry just written. Walks along pointers are the
partial function `Walk`; that they end, repeat or agree in two heaps is shown with the least number of
steps at which they would not.

The expire table keeps more, since nothing there links an entry twice. `OrderInv` adds that it is never hung and
`Ordered`: there are lists of entries `F`, one for each bucket of both arrays, with no entry in two places
(`Apart`), which the heads and the `next` pointers follow (`World`), each entry in the bucket that its key hashes to (`Placed`). A walk
of such a chain is its list and ends (`WorldChain`), so the loops of the code can be followed on lists: one pass of
`rehashStep` takes the head of a list to the front of another (`WorldMoves`), an insertion appends an entry,
`DeleteFromTable` cuts one out. For every assignment a lemma says which list changes and what that does to
the values of each key (`ValuesOn`): a moved chain is turned round (`Backwards`), a new entry is
behind the others of its key, a deletion takes the first. Put together, `StepIsStep`, `StoredIsInserted`, `ResizedIsResized`,
`DeletedIsAfter` and `CollectedShows` say of each part of a call that `HashTable`'s operator of the same name makes of
what the table shows before (`Shows`) what it shows after. `LooseInv` is needed next to it for the shape of the arrays
and for the collection of what is unreachable. They give `ChainsAreListsOk` and the refinement `ImplementsHashTableOk`; so what
`HashTableProofs` shows holds of chains of pointers.

`CountInv` is for eviction's samples. It adds to `LooseInv` that `Count` is at least the number of entries (`Counted`): each
insertion adds at most one entry and counts one or more, and the entry which `AddRaw` prepares and does not
link is collected (`Grown`). In a table in order the chains of the main table share no entry, as their hashes differ, and
repeat none, as a walk that ends does not. So `GetSomeKeys`, asked for `Count` keys, does not run out of
wanted keys before it has been round all buckets, and its sample is exactly the keys of the main
table (`SampleIs`), from which `SamplesAreUsableOk` follows with what a lookup finds there.

**`ReactorProofs`**, for any finite set of connections, any descriptor limit and any bytes
behind the signal. The inductive invariant joins the four invariants `TypeOK`,
`RegistryMatchesKernel`, `ConnCntIsExact` (together: `BooksMatchKernel`) and `BatchIsNotStale` with four facts about
where things are: `Places` (connections that are registered or watched by epoll are in the pool, those
in the backlog are not, and only a peer that has connected is in either), `BatchShape` (a batch has one event for each descriptor,
which is why a hang-up cannot make a later event stale), `Stages` (what each stage of
closing has closed) and `Counter` (what the eventfd may hold). It gives `TypeCorrect`,
`RegistryIsExact`, `BatchesAreFresh`, `RunReturnsLast` and `SignalsAreRecognised`.

The three theorems `TypeCorrect` are why the runs of `HashTable`, `Reactor` and `Client` do not check `TypeOK`.

**Only model-checked.** Liveness (`StopsOrSpins`, `FailureEndsRun`,
`EvictionsProgress`, `InputWithArgumentsEnds`) is outside the prover's reach. `MemoryFollowsPointers` is not proved: the
theorems of `DictHeapProofs` are about `DictHeap`'s `Spec`, to whose steps `MemorySpec` only adds the account. `RaxTree` and
`Resp3` walk trees and nested values with recursive operators, which the prover cannot follow. The library's
induction theorems cannot be used either; where a proof needs induction over numbers it takes the
least counterexample (`LeastNumber`), as the lemmas about `Parse`, about words, about line ends and about walks do.

## 5. Not modelled

- The write path of the reactor (`handleWrite`, `registerWrite`, `modRead`): `Read`
  returns only with an error, so no handler ever asks for it; `accept` does not set the `poll` of
  a connection, and `Write` buffers nothing, because it takes EAGAIN for a failure.
- `addInternal` with `updateIfExist`: no caller. Expiry of keys at their TTL: `lookupKey`'s
  comment announces it (`db.go:165`) and no code does it; nothing reads a clock.
- An empty string as a key in the eviction pool, which the code takes for an empty slot.
- Signals that arrive before the main goroutine is in its `select` (an unbuffered
  channel, `server.go:78`, loses them). `Delete` of the empty key on a tree whose root holds a value
  panics (`rax.go:279`); `RaxTree` has it as the action `DeleteRoot` and no property is about it.
- `Print` of the tree, `printNode`, logging, formatting and wording.
- A client without a connection, and what only Redis has: transactions, replication,
  blocking commands. Their flags are in `Client`, nothing sets them but the environment.
- ACL: `processCommand` ends with a comment where the check would be (`client.go:593`); `checkCmd` has
  no caller, no selector is ever created, and no operation changes one.
- hredis: a context never gets a reader, nobody feeds one, and the functions that would make
  reply objects are never set. There is no behaviour to check until they are.
- The command line client is terminal input and output, and `cmd/cli.go` does not compile.

## 6. Plan

Done: the hash table first, since everything rests on it, then its pointers, the keyspace
and the commands on top, eviction, the radix tree, the list, the protocol and the event
loop; then the client with its dispatch, and its replies on the stream the parser reads;
proofs of the hash table, the reactor, the string commands, eviction with its pool, the client, the list and
the pointers of both tables of a database.

Every safety property of these components that a run checks is proved, with the exceptions
that section 4 gives. Left are modules without recursive operators for `RaxTree` and `Resp3`.
