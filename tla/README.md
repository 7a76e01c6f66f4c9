# itch: a TLA+ model of the ITCH pipeline

This directory models the NASDAQ ITCH 5.0 pipeline of this repository: a feed
thread cuts a recorded binary file into frames and broadcasts its bytes through
a lock-free single-producer multi-consumer ring to three worker threads, each of
which follows one stock's orders and keeps its price-level book. TLC checks the
modules below on small instances and TLAPS proves the theorems named below for
every value of the constants.

## 1. The system

| Component | Code | State | Operations |
|---|---|---|---|
| SPMC ring | `include/spmc/*` | `buffer_`, `write_idx_`, `is_closed_`, a `read_idx_` per consumer; a cached index on each side | `try_push`, `try_push_many`, `close`; `try_pop`, `try_pop_many`, `try_skip_many`; `make_spmc` |
| Feed | `include/feed/*`, `src/feed/file_source.cpp` | the mapped file and the rest of it (`ptr_`) | `FileSource::next`, `FeedHandler::poll`, `~FeedHandler` (closes the ring) |
| Market data handler | `include/market_data/market_data_handler.h` | `cache_stock_locate_`, `order_records_` | `poll`, and one handler per message type |
| Order book | `include/book/order_book.h`, `src/book/order_book.cpp` | `buy_`, `sell_`: price to shares | add, execute, cancel, delete, replace |
| Open-address map | `include/util/open_address_map.h` | `table_`, `tombstone_` | `operator[]`, `find`, two `erase`s, `rehash` |
| stse | `include/stse/*` | none (pure) | `serialize`, `deserialize`, `schema`, layouts at compile time |
| Latency recording | `include/util/{ring_buffer,quartile_buffer,latency_recorder}.h` | the last samples | `record_scope`, `~recorder`, `push`, `report` |
| Replay program | `bench/replay.cpp` | the threads | main, one feed thread, one thread per worker |
| Affinity, TSC, build | `include/util/{affinity,rdtsc}.h`, `CMakeLists.txt` | none | system calls, one instruction, build flags |

How they interact: `FeedHandler::poll` takes a frame (two bytes of packet size,
then header and body) from `FileSource` and spins on `try_push_many` until the
ring takes it; `MarketDataHandler::poll` reads a frame back in three calls (size,
header, body or skip), of which only the first one's result is looked at. All
sharing between threads goes through the ring: three kinds of atomics, and the
slots, which are plain memory, and, at the very end, through the address space:
the feed thread unmaps the file twice while the workers' destructors, and with a
short file still their constructors, allocate.
The handler calls its map, its book and its latency recorders synchronously.

What is hard, and what would make each part correct:

- *Ring.* Plain stores into slots race with plain loads unless the indices keep
  them apart; both sides decide from cached, out-of-date indices; the slowest
  reader is found by loading the read indices one after another while they
  move. Correct means: what a consumer pops is the stream, in order, untorn; a
  whole payload appears at once; nobody waits inside a call.
- *Feed and workers.* Two spinning loops that wait for each other; results
  ignored in `poll`; a close that races with the last pop; a file that ends
  inside a frame. Correct means: each worker handles each frame once, in order,
  whole, and everything terminates.
- *Handler and book.* Which messages are filtered depends on an uninitialised
  cached locate code and on the order of messages; a record that is not there is
  dereferenced; a level that is not there is written to. Correct means: the
  records are the exchange's live orders, the book is the sum of the records.
- *Map.* Tombstones, wrap-around, a full table, an in-place rehash; records
  that are read through a Handle after their slot was erased. Correct means: it
  is a map, the handler over it does what it would do over any map, and it is
  full only when that many orders are live.
- *Shutdown.* `FeedHandler` copies its `FileSource`, both destructors unmap the
  same addresses, and between the two the workers map memory: vectors for their
  reports, or, if the file was short, still the rings of their recorders.
  Correct means: everything ends, and nobody loses memory to the second unmap.
- *Latency.* A ring that wraps around, a time stamp counter that may be read on
  another core, unsigned differences that are sorted as signed numbers. Correct
  means: the quantiles are those of the last samples.
- *stse.* Three ways of copying an object that must agree (flat ranges computed
  at compile time, field by field with the bytes swapped, a bit cast in constant
  evaluation); padding, ignored and skipped members, pointers, bases.

`PROJECT.json` lists these hazards line by line with the properties that watch
over each.

## 2. Modules

| Module | Models | Notes |
|---|---|---|
| `Broadcast` | what the ring promises | abstract: one stream, one position per consumer, each call atomic |
| `SPMC` | the ring | one action per load or store of shared memory |
| `Replay` | what the program is meant to do | abstract: frames handed out, each handled once in order |
| `Pipeline` | feed thread and workers | EXTENDS `SPMC`: every call goes through the ring's own steps |
| `PipelineProofs` | | theorems about `SPMC` and, through it, `Pipeline` |
| `OrderBook` | the book | extended by the handler |
| `MarketDataHandler` | the handler over a map of any size | EXTENDS `OrderBook` |
| `Exchange` | the sender of a well-formed file | not in the repository: what the handlers rely on |
| `MarketData` | handler and book following the exchange | EXTENDS `Exchange`, `MarketDataHandler` |
| `MarketDataProofs` | | theorems about `MarketData` |
| `KeyedMap` | what a user of the map relies on | abstract: a map with room for Capacity entries |
| `OpenAddressTable` | the slots of the hash table, without state | probing, storing, erasing, rehashing |
| `OpenAddressTableProofs` | | lemmas and theorems about these operators |
| `OpenAddressMap` | the hash table by itself | linear or quadratic probing, with or without rehash |
| `OpenAddressMapProofs` | | theorems about `OpenAddressMap` |
| `TableHandler` | the handler over the hash table | composes `OpenAddressTable` with `MarketData`, which is also what it is shown to implement |
| `TableHandlerProofs` | | theorems about `TableHandler` |
| `Latency` | one latency recorder | |
| `LatencyProofs` | | theorems about its ring and its report |
| `Shutdown` | the mapped file, and the memory of the workers | what goes through the ring before the close is `Pipeline`'s |
| `ShutdownProofs` | | theorems about `Shutdown` |
| `Stse` | the serialisation library | types as trees, bytes by where they come from |
| `Messages` | the ITCH messages as `Stse` types | |
| `StseProofs` | | theorems about `Stse`, and about the types of `Messages` |

`MCSPMC`, `MCPipeline`, `MCMarketData`, `MCOpenAddressMap`, `MCTableHandler`,
`MCLatency`, `MCShutdown` and `MCStse` are the small instances for TLC.

An operator whose comment begins with "Mutant" is a plausible bug: put in the
place of the definition it names, it makes one of the properties fail. It shows
that the property says something about the code.

### SPMC

Each C++ atomic access, and each plain access to a slot, is one step, so TLC
explores every interleaving: `TryPushMany` (the size check and the test of the
cached index), `LoadReadIdx` (one iteration of `get_first_read_idx`),
`RefreshReadIdx`, `StoreItem` (one iteration of the copy loop), `PublishItems`
(the release store); `Request`, `LoadWriteIdx`, `LoadIsClosed`, `CopyItem`,
`AdvanceReadIdx` on the consumer's side. `try_push` and `try_pop` are the same
steps for one item. An item is represented by its place in the stream, because
the ring never looks at items; a slot then holds the right item exactly if it
holds the right number. Loads return the latest store: every atomic has one
writer and the pairs are acquire/release, so an older value is what the load
would have returned had it run earlier, which is a behaviour as well.
The client may push at any time, also after the close, as nothing in the producer
forbids it; `Pipeline`'s client does not. In `Broadcast` a payload with items may be
refused only if some consumer had no room for it at a moment of the call
(`crowded`, which `SPMC` maps to `Crowded`); an empty one may always be refused,
because the ring does refuse it when it is drained (see below).

### Pipeline

A byte is its offset in the file. `file.at` are the offsets where frames begin,
`file.size` is where the file ends, perhaps inside a frame. `NextFrame`,
`RetryFrame`, `PublishFrame`, `InvalidFormat`, `StreamClosed` and
`DestroyFeedHandler` are the feed thread, `PushStep` the ring's steps inside a
push; `Poll`, `PollAgain`, `Stop`, `ReadHeader`, `ReadBody`, `SkipBody`,
`PollDone` are a worker between two calls of the ring, `PopStep` the ring's steps
inside one. Whether a worker reads or skips an "order" message depends on its
stock: both happen. An add is always read, any other message always skipped.
In a well-formed file the serial size of a message's type is what its packet size
leaves after the header, so one length stands for both, and `ReadBody` pops that many
bytes although the code asks for the former.
Failed reads of the header and body are not assumed away: the code ignores the
result and goes on, and so does the model; that they never happen is a property.

### MarketData

The handler's state depends on the messages and their order only, so a message
is handled in the step in which it is sent. `Exchange` may send any message that
is legal for the orders live at that moment. `crashed` records a dereference of a
null Handle, `corrupted` a write through `end()` in `remove_shares`, and `missed`
(a history variable) the orders whose announcement the filter swallowed.

### OpenAddressTable, OpenAddressMap

One thread uses the map, so each operation is one action. The probe loop is
described by what ends it rather than step by step: `Stops`, `FirstTombstones`,
`ProbedSlots`, `Saturated`. An erased slot keeps its key and value, as in the
code. `tombstone` is the unsigned count of the code, which every search that
passes a tombstone lowers. The program instantiates linear probing without
rehash; the other instantiations are checked too because they are part of the
header.

### TableHandler

The handlers of `MarketDataHandler`, once more, over the slots: a lookup ends in a
slot, in a null Handle or in an exception (`FoundIn`, `FindFails`, `Throw`);
`Reduced` changes the record through the Handle and erases the slot with the last
share. `cancel_order` keeps references into the slot and reads side and price
through them after the erase; `replace_order` may be given the slot it has just
erased. Exchange, filter and book are taken from `MarketData` by
`MD == INSTANCE MarketData WITH order_records <- Stored(slots)`, so the refinement
mapping is the content of the table. `tombstone_` is left out here: without rehash
nothing reads it.

### Latency

`RecordScope` and `EndScope` read the counter, which may have moved by any of
`Steps`, backwards too: a thread whose pinning failed may be moved to a core whose
counter is behind, and nobody looks at the result of `sched_setaffinity`. The
difference is unsigned (`Elapsed`), while the ring's items have the C library's
signed `time_t`, found before the recorder's own type of that name, so `Report`
sorts them as signed numbers: `Sorted` is a permutation of the ring's items in
`InOrder`. `recorded` is the history the ring is compared with.
The code computes the index of a quantile in `double`; for counts up to 2^24 and
the quantiles in use that is the floor of the exact product, which is what
`Index` says.

### Shutdown

A page of the address space has an `owner`: the file, or a block of a worker.
`OpenFile` and `OpenNoFile` are `FileSource`'s constructor, with and without a file (no
result is checked, and `size_` may then be indeterminate); `PollFeed` touches the pages
in order; `DestroyFeedHandler` closes the queue, and `DestroyFileSource` happens twice,
for the copy inside the `FeedHandler` and for the thread's own object, each unmapping
the same addresses.

A worker is followed from its creation to its end, because with a file that fits the
ring of 1 MiB the feed may be through with it before the workers exist:
`CreateWorker` maps what the C library gives a thread, its stack and its `malloc`
arena (one block, which the library keeps for later threads); `AllocateRing` and
`ZeroRing` are the value-initialised rings of the two recorders, 128 MiB each;
`LeavePoll` is the way out of the loop once the queue is closed; `AllocateResults`,
`SortResults` and `FreeResults` are a report's vector of up to as many samples, and
`DestroyRing` the end of the recorders. `memory` is what a worker believes to have,
`Whole` and `Partly` what its next step goes through: if a page of that is lost it
crashes. `Placement` chooses among the free runs those that `mmap` may take; the
theorems are about every choice, TLC's instance takes the lowest. `reused` is a history
variable: some block has taken pages of the file between the two unmaps.

### Stse

A type is a tree of scalars (pointers among them), static containers and
aggregates. Each carries what the compiler knows of it: size and alignment, and an
aggregate the data members that `all_data_members_of` finds, those of its bases
first, each with its annotation, the `offset_of` that `std::meta` reports (from the
start of the class that declares it) and the `offset` it really has. `Scalar`,
`StaticContainer` and `Aggregate` make types the way a compiler lays them out.
What a template computes of a type is a function over the constant `Types`, defined
from its values for the type's parts: `IsSerializable` (which types the templates
take), `RawSize`, `Enumerate`, `Moves`, `Schema`.

`Enumerate` and `CompressLayout` compute the ranges of `byte_layout_of`.
`Moves[t][how]` are the bytes copied between an object and the buffer, one after
another, where `How` is what a call does: `"flat"` in native byte order, `"swapped"`
field by field in the other one, and `"bit_cast"` in constant evaluation, which is
flat for objects without pointers and visits the others (`Flat`), and assigns a flat
object as a whole (`Assigned`). `SerializeNext` and `DeserializeNext` are one object
of `Args...` each; `calls` tells `serialize` and `deserialize`, which make the buffer
and the objects, from the `_advance` forms, which are given them. An object's byte is
named by object and offset, so that a copied byte tells where it comes from.
`Schema` is the lines of a schema with their depths and byte counts.

`TypesAssumption` says what every class layout guarantees, whatever the padding: the
members are inside the object and apart from each other, elements lie one behind the
other, a member is no nearer to the start of the object than to that of the base that
declares it, and a type contains only types less deep than itself. Bit-fields, unions
and empty members that share an address are not among these types; the library has
no case for them. `Aggregate`'s layouts are of this kind, for any bases and members
(theorem `LayoutsAreAsAssumed`). `ArgListsAssumption` says that the buffer a call is given holds
what the call writes.

## 3. What is checked

| Run | Instance | Shows |
|---|---|---|
| `spmc` | 2 consumers, 2 slots, payloads of 0, 2 and (too large) 3 items, single pushes and pops, pops and skips of 2, 5 items | `PushTestsAreSound`, `UnreadItemsIntact`, `NoDataRace`, `PopsReadTheStream`; `ImplementsBroadcast`; `CallsAreWaitFree`: a push or a pop returns by its own thread's steps alone |
| `pipeline` | 2 workers, 8 slots, two files of 3 frames of 4 to 6 bytes, cut off at every byte, fair | `StreamIsThePrefix`, `PollsAreAligned`, `RestOfFrameIsThere`; `ImplementsReplay`, `ReplayEnds`, `CompleteFramesArrive` |
| `pipeline_complete` | the same | expected to fail: `ReplayComplete` |
| `market_data` | 2 stocks, 4 order references, 2 prices, share counts 1 and 2 | `RecordsAreLive`, `OnlyEarlyOrdersMissed`, `BookShowsTheRecords`, `BookIntact`, `CrashesExplained` |
| `market_data_depth` | 3 references | expected to fail: `FullDepth` |
| `map_linear` | 4 slots; five keys, three sharing home 0, two home 3 | `KeysUnique`, `KeysReachable`, `ImplementsMap`; `TypeOK` is about the wrapping count |
| `map_quadratic` | the same, quadratic probing | `ImplementsMap` |
| `map_rehash` | 4 slots, rehash; five keys, two sharing home 2, the others with homes 0, 1 and 3 | `OnlyWrappedKeysLost` |
| `table_handler` | 2 stocks, 3 order references, one price, a table of 2 slots | `ImplementsMarketData`, `SaturationExplained` |
| `shutdown` | 2 workers with one or two reports each, 6 pages, the lowest taken first, files of 0 or 2 pages or none, stacks, rings and vectors of one page (a vector perhaps of none), fair | `LossesExplained`, `NothingLeaked`, `ShutdownEnds` |
| `latency` | a ring of 4 samples, 6 samples, a counter of 8 values moving by 1, 3 or -2, p50, p99, p99.9 | `LastSamplesKept`, `QuantilesOfTheLast`, `BackwardSamplesShow` |
| `stse_round_trip` | the 9 ITCH types; aggregates of one or two members of all annotations, with up to two bases, with and without pointers and padding, each followed by a 16-bit object; both byte orders, run time and constant evaluation, both kinds of call | `OnlyMisplacedTypesDisagree`, `RoundTrip`, `RestOfObject`, `SchemaTellsWhatIsCopied`, `WritesItsOwnBytes` |

Why the bounds are enough. *Ring:* two slots and five items lap the ring twice,
so every slot is overwritten while someone may still read it; two consumers give
a fast and a slow one, and a scan between them; the too large and the empty
payload are included. *Pipeline:* the ring holds one frame and part of the next,
so the feed has to retry and the frames wrap around the end of the ring; three
frames give a first, a middle and a last one. *Handler:* with four references two
orders can share a level while a third is replaced, and the third one's
replacement is missed before the stock is known; references are interchangeable,
hence the symmetry. *Map:* four slots are the smallest
table in which two homes collide and one wraps around; five keys saturate it. With
rehash, five keys let a key be stored twice, and its older entry be moved by later
rehashes.
`CountMax` stands for 2^64 - 1; it is 1 without rehash, so that the count wraps
around both ways, and 5 with rehash, above the number of slots. *Handler over its
table:* three references and two slots fill the table, and a `U` reuses a slot with
a tombstone before it or not. *Shutdown:* with the lowest addresses taken
first, what a worker maps between the unmaps goes into the file's old pages or behind
them, be it a stack, a ring or a vector, and after the second one the other worker's
block may follow it there; six pages are fewer than all of this together, so that pages
are used again (a step that finds no room waits for it). *Latency:*
six samples overwrite half of a ring of four, with any number of backward samples
among them. *stse:* layouts go wrong at the border between two members, between
the elements of a container and between bases; two of each, with and without
padding, and an object behind them show every such border.

Checking for deadlock is off where the system stops for good: in `market_data`,
`market_data_depth` and `table_handler` (a crash, an exception, or an exchange
with no message left), `shutdown` (main has joined, or a crash) and `latency` (the
report is printed).

**Fairness.** `FairPipelineSpec` asks that each thread takes its next step some
time. `replay.cpp` pins each thread to a core of its own, no thread blocks or
takes a lock, and every step is one the hardware completes. Nothing more is
assumed: no fairness between the outcomes of a step, and no speed of one thread
relative to another. `Shutdown`'s `FairSpec` is the same assumption, one weak
fairness condition per thread: the operating system schedules them all.
`CallsAreWaitFree` asks even less: its only premise is that the thread inside the
call is scheduled.

### Disagreements found

- **A worker may stop with frames unread** (`pipeline_complete`). `check_pop_status`
  loads `write_idx_`, finds too little, and then loads `is_closed_`. If the feed
  publishes its last frames and closes the ring in between, the worker is told
  `BUFFER_CLOSED`, `poll` returns false and the worker leaves its loop; those
  frames never reach its book, although `README.md:3` says the file is replayed
  into the books in full depth. Loading `is_closed_` before `write_idx_` would do.
- **Orders announced by 'F' may be missing from the book** (`market_data_depth`).
  Until the stock's first 'A' (or an 'F' that the stale code happens to let
  through) the filter in `poll` skips an 'F' of the stock, and the replacement of
  such an order. The next message about it, once the code is known, dereferences a
  null Handle: `CrashesExplained` says that this, and a foreign stock's code in the
  uninitialised cache, are the only ways to crash.

Also visible in the models, without a document that says otherwise:

- the flat layout of `stse` is wrong for containers whose elements take up other
  room in the buffer than in memory, and for members of a base at a nonzero
  offset (`Misplaced`; no ITCH message is of that kind, and the field-wise path is
  right for them); in constant evaluation ignored and skipped members become
  zero where objects are copied flat, at run time they keep their values
  (`RestOfObject`);
- a file cut off inside a frame makes the feed poll for ever
  (`CompleteFramesArrive`);
- an in-place rehash hides entries that had wrapped around; such a key is stored a
  second time when it is assigned again, and the old entry may later come to be
  found instead of the new one. A key that is not found is stored nowhere but
  before its home (`OnlyWrappedKeysLost`). Also, the tombstone count drifts below
  the number of tombstones;
- an empty payload is refused as `FULL` when the ring is drained: its final index is
  one less than `write_idx_`, and the distance to a reader that has caught up wraps
  around. For every other payload the test means what it says
  (`PushTestsAreSound`). The program pushes no empty payload;
- the second unmap may take pages from any block a worker has mapped since the first
  one (the vector of a report, and with a short file a recorder's ring or a thread's
  stack), and a missing file is read through `MAP_FAILED`. Where neither happens, no
  worker loses or shares a page and nothing crashes at the end (`LossesExplained`);
- a counter that went back shows in a quantile only if enough samples did so to
  reach the quantile's rank from below (`BackwardSamplesShow`).

## 4. What is proved

Eight modules hold lemmas and theorems. Each about a component proves one
inductive invariant, one lemma per action, and derives the properties from it.
Every theorem holds for all values of the constants that satisfy the named
assumptions; sets are assumed finite only where something is counted.

The library's induction theorems take an operator as a parameter, which the
provers cannot instantiate. Where an argument is an induction all the same (over
the records of a level, the slots of a table, the items of a report), it is one
about sets instead: a set of counterexamples has a least member, if it is one of
numbers (`LeastNumber`) or of finite sets (`MinimalFiniteSet`), and what is below
that member shows that there is none. Facts about cardinalities and bijections
come from `FiniteSetTheorems`.

**`PipelineProofs`, the ring** (any consumers, capacity, payload sizes and stream length).
Assumed: the capacity is positive, sizes are natural numbers, there is a consumer
(`ConsumersAssumption`: without one a scan has no minimum), and the stream ends before
an index wraps around its 64 bits (`BoundAssumption`; at a million items per
millisecond that takes centuries). Powers of two are not needed.

| Theorem | States |
|---|---|
| `InvariantHolds` | `[]IInv` |
| `TypeCorrect`, `PushTestsSound`, `NothingOverwritten`, `RaceFree`, `PopsCorrect` | `TypeOK`, `PushTestsAreSound`, `UnreadItemsIntact`, `NoDataRace`, `PopsReadTheStream` |
| `Refinement` | `Spec => ImplementsBroadcast`: the ring implements the atomic stream |

The properties alone are not inductive: a push that has been let through and a
scan that is half done must be known to still fit. `IInv` adds
`PushInProgress` (the slots about to be stored to are free even for the slowest
reader; the minimum so far bounds every index already scanned, whatever its
owner has done since; the items stored so far are in their slots) and
`PopInProgress` (a pop past its check finds its items published). The argument
behind race freedom is arithmetic: two places of the stream less than Capacity
apart are in different slots (`SlotsDistinct`). `PushTestsSound` needs a second
invariant besides: the cached view and a scan's minimum are never more than Capacity
behind `write_idx_` (`ViewsKeepUp`).

**`MarketDataProofs`** (any stocks, references, prices and share counts).
Assumed: the target is one of the stocks, and share counts fit their width
(`TargetAssumption`, `WidthAssumption`); for the last three theorems also
`LevelsFit(size)`: no message speaks of more than `size` shares, there are finitely
many references, and `size` shares for each of them fit a level. A message's
shares are a 32-bit number and a level's (`shares_t`) a 64-bit one, so this leaves
room for 2^32 orders of one stock. It is needed: where shares do not fit, a sum
that wraps around to zero erases a level that still has orders.

| Theorem | States |
|---|---|
| `HandlerTracks` | `[]Tracking` |
| `TypeCorrect`, `RecordsCorrect`, `RecordsComplete` | `TypeOK`, `RecordsAreLive`, `OnlyEarlyOrdersMissed` |
| `NullHandlesExplained` | `CrashesExplained`, an action property |
| `BookTracks` | `[]BookFollows(size)` |
| `BookCorrect`, `BookNeverCorrupted` | `BookShowsTheRecords`, `BookIntact` |

`Tracking` adds that as soon as there is a record the cached locate code is the
stock's own. Without it a foreign stock's message, let through by an
uninitialised code, could touch a record.

`BookFollows` says of each side that the prices with a level are those with a
record, and each level the sum of its records' shares (`Shows`), that no record
has more than `size` shares, and that no level was missing when it was written to.
A sum over a set of records is a recursive function that adds up one chosen record
at a time. That there is such a function (`SumExists`), and that any record may be
taken first (`SharesOfAdd`), is proved once; what a new, an erased and a reduced
record do to every level follows (`InsertShows`, `EraseShows`, `ReduceShows`). The
sum is bounded by `size` times the number of records (`LevelsFitThere`), which
keeps the 64-bit arithmetic exact and a level with an order above zero. The
invariant needs `Tracking`: a message takes no more shares off an order than the
record has only because the record is the exchange's.

**`PipelineProofs`, feed and workers** (any files of well-formed frames, any workers, any ring that
holds the longest frame). Assumed, besides the ring's assumptions: frames are
longer than their header (`FilesAssumption`), fit into the ring
(`FramesFitAssumption`), and their lengths are among the payloads the ring's
module allows (`CallsAssumption`).

| Theorem | States |
|---|---|
| `ThreadsInStep` | `[]InStep` |
| `QueueUsedAsSpecified` | `PipelineSpec => Spec`: the program stays within what `SPMC` allows, so all that is proved of the ring holds of it |
| `PipelineTypeCorrect` | `PipelineTypeOK` |
| `StreamCorrect`, `PollsStayAligned`, `RestOfFrameAlwaysThere` | `StreamIsThePrefix`, `PollsAreAligned`, `RestOfFrameIsThere` |
| `ReplayRefined` | `PipelineSpec => ImplementsReplay`: bytes, retries and the ring implement a replay of whole frames |

`InStep` adds to the ring's `IInv` what each thread knows. The feed: what
`next()` has returned is published, but for the frame being pushed
(`FeedInProgress`). A worker: between frames it stands at a boundary, and having
read a packet size it has read the size of the frame it stands in
(`BetweenFrames`); inside a frame all the rest of it is already published, and a
call made there is past the test that could refuse it (`InsideFrame`). This is
where the ring's promise that a payload appears all at once is used: since
`write_idx_` is always a frame boundary, a worker that finds two bytes finds the
whole frame.

The abstract state of `Replay` is counted: so many frames end at or before the
feed's position, and before a worker's. `ReplayRefined` rests on lemmas about
these counts (`EndsInOrder`, `FramesBehind`, `FramesUpToGrows`, `PositionMoves`):
boundaries are increasing, so moving from one to the next adds exactly one frame,
and stopping short of the next adds none. A worker stops only after the close, and
the feed closes only at the end of a complete file (`FeedStepIsReplay`,
`WorkerStepIsReplay`).

**`OpenAddressTableProofs`, `OpenAddressMapProofs`** (any capacity, keys and values,
linear and quadratic probing). Assumed: the capacity is a power of two, as the code
asserts (`TableAssumption`).

| Theorem | States |
|---|---|
| `ProbeNext` | the n-th slot of `ProbeAt` is what `Probe::next` makes of the one before |
| `ProbeCycle` | the probe comes back to its first slot after `ProbeLength` attempts, and not before |
| `RehashKeepsEntries` | the in-place rehash neither loses nor makes up an entry |
| `TypeCorrect` | `TypeOK`, with and without rehash |
| `KeysStayUnique`, `KeysStayReachable` | `KeysUnique`, `KeysReachable`, without rehash |
| `TableImplementsMap` | `ImplementsMap`, without rehash |
| `OnlyWrappedLost` | `OnlyWrappedKeysLost`, with linear probing, with and without rehash |

Without rehash the invariant is `Searchable`: no key is in two slots, and no EMPTY
slot comes before a stored key on its probe sequence. Neither half is inductive
without the other: an insert that reuses a tombstone keeps keys unique only because
the search went on to an EMPTY slot, behind which the key cannot be.

That an operation says "saturated" exactly when the abstract map is full needs
that the probe sequence passes every slot (`ProbeEverywhere`, `SaturatedIsFull`).
For quadratic probing this is where the power of two is used: two attempts i < j
that meet the same slot differ by (j - i)(i + j + 1) / 2, a multiple of the
capacity; one of the two factors is odd and, as a power of two has no odd divisor,
the other is a multiple of twice the capacity, too large for attempts below it
(`TriangleGap`). So the first Capacity attempts meet different slots, hence all of
them.

With rehash the table is not searchable. What rehash computes is a recursion over
the slots; `RehashStepsExist` and `RehashedIs` show that it is the last of a
sequence of tables, each made from the one before by moving one entry to a free
slot, and facts that each move keeps hold at the end (`Upwards`). That gives
`RehashKeepsEntries`. For `OnlyWrappedLost` the invariant is `Sheltered`: between
the home of an entry that stands behind its home and its slot there is no EMPTY
slot. Inserts fill slots and erases leave tombstones, so both keep it; rehash
makes it anew, since when it has passed slot n the entries below n have nothing
but entries between home and slot (`Settled`): an entry is taken out of slot n
only to be put at or in front of it, or behind it if it had wrapped around.

**`TableHandlerProofs`** (any stocks, finitely many order references, any capacity
that is a power of two, linear probing; `HandlerAssumption`).

| Theorem | States |
|---|---|
| `HandlerKeepsTable`, `TypeCorrect` | `[]TableInv`, `TypeOK` |
| `TableIsTransparent` | `ImplementsMarketData` |
| `FullOnlyOfLiveOrders` | `SaturationExplained` |
| `BookCorrectOverTable` | `Map!BookShowsTheRecords` and `Map!BookIntact`, under `LevelsFit(size)` |

Each handler's lemma shows that the handler over the slots takes a step of
`MarketData` under the mapping and leaves a searchable table. So everything proved
of `MarketData` holds of the program until the table throws. `FullOnlyOfLiveOrders`
uses just that: until then the stored keys are live orders of the stock
(`Tracking` of `MarketDataProofs`, through the instance `Map`), a search throws only
if every slot holds a different key, and so at least Capacity orders are live.
`BookCorrectOverTable` carries the book's invariant over in the same way, to the
records in the slots, and beyond the exception, which leaves book and slots as they
are.

**`LatencyProofs`** (any capacity, width of the counter, quantiles below 1 and
number of samples; `LatencyAssumption`).

| Theorem | States |
|---|---|
| `WindowHoldsTheLast` | `LastSamplesKept` |
| `QuantilesAreRight` | `QuantilesOfTheLast` |
| `BackwardShows` | `BackwardSamplesShow` |

For the ring, two of the last Window samples never share a slot. For the report,
every sequence has an ordered permutation (`SortingPermutation`, by inserting one
item after the other), so `Sorted` is one; the permutation and the ring's indices
are bijections, so as many of the last samples as of the sorted items are below,
at or above a value (`CountThrough`); and in an ordered sequence the items below
the one at a rank are among those before it (`CountBelow`). Samples that went back
are negative and so come first.

**`ShutdownProofs`** (any workers, address space and sizes, and any choice among the
free runs; `ShutdownAssumption`).

| Theorem | States |
|---|---|
| `InvariantHolds` | `[]Inv` |
| `LossesAreExplained` | `LossesExplained` |
| `NothingIsLeaked` | `NothingLeaked` |

`Inv` adds who has the file's pages at each point of the feed thread: the file until
the first unmap, and from then to the second one, unless `reused`, no block of a
worker. `PagesAccounted`, for the last theorem, says that every mapped page has
somebody who has still to unmap it, or is a thread's, also after the second unmap took
it from one block and `malloc` gave it to another; `HoldsInOrder` says which blocks a
worker has at which point, so that at its end it has only the thread's.

**`StseProofs`** (any set of types with any layout, any lists of them, any buffer that
holds the objects; `TypesAssumption`, `ArgListsAssumption`, `MemoryAssumption`).

| Theorem | States |
|---|---|
| `OnlyMisplacedTypesDisagreeHolds` | `OnlyMisplacedTypesDisagree`: the flat layout moves what the visit of the fields moves, except for exactly the misplaced types |
| `InvHolds` | `[]Inv` |
| `RoundTripHolds` | `RoundTrip` |
| `RestOfObjectHolds` | `RestOfObject` |
| `WritesItsOwnBytesHolds` | `WritesItsOwnBytes`, an action property |
| `SchemaTellsWhatIsCopiedHolds` | `SchemaTellsWhatIsCopied` |
| `LayoutsAreAsAssumed` | what `Scalar`, `Pointer`, `StaticContainer` and `Aggregate` make of types that satisfy `TypesAssumption` satisfies it too |
| `MessagesRoundTrip` | no ITCH message is misplaced: for lists of messages the first and the third theorem hold without a premise |

Almost everything here is computed by recursion over types, or over members, elements and
ranges. As a type's parts are less deep than the type, what holds of a type when it
holds of its parts holds of all types (`TypeInduction`, from the least depth of a
counterexample), and a function given by what it is for the parts exists
(`TypeRecursion`); `UpTo` and `Iterate` are the same for numbers. With these, each
function is shown to be what its definition says (`RawSizeIs`, `EnumerateIs`,
`MovesAre`, `MisplacedIs`, `SchemaIs`).

*Copying.* Merging ranges loses and adds no byte (`CompressLayoutKeepsBytes`). The
moves of an object are those of its parts, put at places that lie apart both in
memory and in the buffer (`MembersLieApart`, `WireBeforeIs`); so, from the scalars
up, visiting the fields copies each byte on the wire to a byte of its own in the
object's room, in either byte order (`PartsMakeSound`, `VisitingIsSound`).

*Flat and field by field.* Each byte that is visited has a twin in the flat layout
(`TwinsExist`), never further on in memory and never further back in the buffer. If
all twins are where they should be, both copy the same. If one is not, the type is
misplaced, and then the layouts differ as sets: of the displaced twins' fields, none
can stand in for the one whose place in the buffer comes first (`DisplacedDiffer`).
That is why `Misplaced` is the exact condition rather than a sufficient one: two
misplacements never cancel out.

*Calls.* `Inv` says of lists of well-placed types that every byte on the wire of an
object that was serialised is in the object's own part of the buffer, that the buffer
holds nothing else from the objects (`WireHolds`), and of each byte of an object that
is read whether it is the one sent, zero because the object was assigned as a whole,
or untouched (`ObjectsHold`). `RoundTrip` looks at the last state only and
`RestOfObject` at what is left out; neither says where the objects lie, so neither is
inductive.

*Schemas.* The bytes a schema lists are a sum of products over its lines: a scalar
counts once for every element of every container whose indented block it is in. A
container's line multiplies all the lines below it (`LinesEnclosed`), lines of
members add up since none encloses the first line of another (`LinesAddUp`,
`BlocksAddUp`), and bytes on the wire add up over parts that lie apart
(`SpreadCardinality`); the two counts agree from the scalars up (`SchemaCounts`).

*Layouts.* `TypesAssumption` is the only thing the other theorems know of a layout.
`LayoutsAreAsAssumed` shows that it asks for no more than a compiler delivers: parts
put one behind the other, each at the next multiple of its alignment, leave the
members of a class and of all its bases inside it and apart (`EndsIs`, `StowedBehind`).

Not proved, and left to TLC: liveness (`ReplayEnds`, `CompleteFramesArrive`,
`CallsAreWaitFree`, `ShutdownEnds`), as the prover has no rules for fairness and
ENABLED; and the two properties that are expected to fail.

## 5. What is not modelled

- CPU affinity: one system call whose result is ignored. That it may fail is why
  `Latency` lets the counter go back. The build is configuration; it fixes that
  assertions and contracts are not compiled into a Release build, which is why no
  model takes them for granted.
- Values of scalars. A byte in `Stse`, `Pipeline` and `SPMC` stands for where it
  comes from, and the conversions of `BigEndian`, prices and timestamps to numbers
  are left out. That decoding a message yields its fields is what `Exchange` and
  `Pipeline` rely on, and what `RoundTrip` shows of the bytes.
- The text of schemas and reports: wording, units, `tsc_ghz`.
- The preconditions on spans in `stse` (a buffer as large as the objects) are
  taken to hold; `WritesItsOwnBytes` shows that nothing beyond is touched then.
- More than one `FeedHandler` (the static lambda in `poll` captures the first):
  the program makes one.
- A packet shorter than its header: no such file is one the exchange writes, and
  nothing in the code says what should happen.
- Rehash with quadratic probing: the operators define it and `RehashKeepsEntries`
  covers it, but no run does; the program uses neither.
- Indices of the ring that have wrapped around their 64 bits (`BoundAssumption`).

## 6. State of the work

All components but affinity and the build are modelled; the messages' fields are
modelled as records and as layouts, not as numbers.
Every invariant, action property and refinement that a run shows to hold is also a
theorem, for all values of the constants; liveness is model-checked only. What would
add to this:

1. Rehash with quadratic probing as a run and as an invariant, if the program comes to
   use it.
2. The table under the handler with more than one price and slots that wrap
   around, if TLC's instance is to grow with the proofs.
