-------------------------------- MODULE SPMC --------------------------------
(***************************************************************************)
(* The lock-free single-producer, multi-consumer broadcast ring buffer of  *)
(* include/spmc: the shared SPMCRingBuffer, its one SPMCProducer and its   *)
(* SPMCConsumers, one action per access to shared memory, so that every    *)
(* interleaving of the threads' loads and stores is a behaviour.           *)
(*                                                                         *)
(* The queue never looks at its items, so the item at place j of the       *)
(* stream of published items is modelled by the number j itself: "slot s   *)
(* holds the right item" is then a relation between indices.               *)
(*                                                                         *)
(* Loads return the latest store.  Each atomic has a single writer and all *)
(* accesses are acquire/release pairs, so an older value returned by the   *)
(* hardware is what the same load would have returned had it run earlier,  *)
(* and that interleaving is a behaviour too.                               *)
(***************************************************************************)
EXTENDS Integers, Sequences

CONSTANTS
    Consumers,  \* the consumers make_spmc registered
    Capacity,   \* SPMCRingBuffer's Capacity
    SizeMax,    \* the largest std::size_t, 2^64 - 1 in the program
    PushSizes,  \* payload sizes the producer's client pushes
    PopSizes,   \* counts the consumers' clients ask for
    MaxItems    \* bound: items published in one behaviour

(* ring_buffer.h asserts Capacity > 0 (and a power of two, so that masking *)
(* with Capacity - 1 is the remainder IndexOf takes).                      *)
ASSUME CapacityAssumption == Capacity \in Nat \ {0}

ASSUME SizesAssumption == PushSizes \subseteq Nat /\ PopSizes \subseteq Nat

(* replay.cpp has three.                                                   *)
ASSUME ConsumersAssumption == Consumers # {}

(* The stream ends long before an index reaches 2^64.                      *)
ASSUME BoundAssumption ==
    MaxItems \in Nat /\ SizeMax \in Nat /\ MaxItems + Capacity <= SizeMax

VARIABLES
    \* SPMCRingBuffer, shared by all threads
    buffer,             \* buffer_: the slots
    write_idx,          \* write_idx_, stored by the producer only
    is_closed,          \* is_closed_
    read_idx,           \* read_idx_ of each consumer's control block
    \* SPMCProducer, private to the producer's thread
    cached_read_idx,    \* cached_read_idx_
    push_pc,            \* where the current call is: "idle", "scan", "copy"
    items,              \* items.size() of the current call
    stored,             \* items of the current payload already in their slots
    unscanned,          \* consumers get_first_read_idx has still to load
    first_read_idx,     \* get_first_read_idx's running minimum
    response,           \* what the last call returned
    \* SPMCConsumer, private to each consumer's thread
    cached_write_idx,   \* cached_write_idx_
    pop_pc,             \* "idle", "load_write", "load_closed", "copy", "skip"
    count,              \* count of the current call
    skipping,           \* the current call is try_skip_many
    read_ptr,           \* the caller's span, as far as it is filled
    failure             \* what the last call returned

bufferVars == <<buffer, write_idx, is_closed>>
producerVars == <<cached_read_idx, push_pc, items, stored, unscanned,
                  first_read_idx, response>>
consumerVars == <<read_idx, cached_write_idx, pop_pc, count, skipping,
                  read_ptr, failure>>
vars == <<bufferVars, producerVars, consumerVars>>

-----------------------------------------------------------------------------
(* Index arithmetic.                                                       *)

(* A value-initialised T{}: never published, so never to be read.          *)
Unwritten == -1

(* index & MASK: the slot of a place in the stream.                        *)
IndexOf(index) == index % Capacity

(* a - b on std::size_t, which wraps around below zero.                    *)
Sub(a, b) == IF b <= a THEN a - b ELSE a - b + SizeMax + 1

(* a + b on std::size_t.                                                   *)
Add(a, b) == IF a + b <= SizeMax THEN a + b ELSE a + b - SizeMax - 1

(* final_write_idx: the place of the payload's last item.  An empty        *)
(* payload gives the place before the first one, wrapping around at 0.     *)
FinalWriteIdx(n) == Sub(write_idx + n, 1)

(* Mutant of Fits: <= where the code has <.                                *)
FitsOneMore(index, slowest) == Sub(index, slowest) <= Capacity

(* is_valid_write_idx's test, against a given view of the slowest reader.  *)
Fits(index, slowest) == Sub(index, slowest) < Capacity

(* Mutant of Available: one item too few is enough.                        *)
AvailableOneLess(c, n, written) == Sub(written, read_idx[c]) + 1 >= n

(* check_pop_status' test, against a given view of the write index.        *)
Available(c, n, written) == Sub(written, read_idx[c]) >= n

-----------------------------------------------------------------------------
(* Initial state: make_spmc has registered the consumers and moved the     *)
(* producer and the consumers to their threads.                            *)

Init ==
    /\ buffer = [s \in 0 .. Capacity - 1 |-> Unwritten]
    /\ write_idx = 0
    /\ is_closed = FALSE
    /\ read_idx = [c \in Consumers |-> 0]
    /\ cached_read_idx = 0
    /\ push_pc = "idle"
    /\ items = 0
    /\ stored = 0
    /\ unscanned = {}
    /\ first_read_idx = SizeMax
    /\ response = "PENDING"
    /\ cached_write_idx = [c \in Consumers |-> 0]
    /\ pop_pc = [c \in Consumers |-> "idle"]
    /\ count = [c \in Consumers |-> 0]
    /\ skipping = [c \in Consumers |-> FALSE]
    /\ read_ptr = [c \in Consumers |-> << >>]
    /\ failure = [c \in Consumers |-> "PENDING"]

-----------------------------------------------------------------------------
(* The producer.  A local variable of a call is kept at its initial value  *)
(* while no call runs.                                                     *)

(* try_push_many up to the first access to another thread's memory: the    *)
(* size check, and the test against the cached view of the readers.        *)
TryPushMany(n) ==
    /\ push_pc = "idle"
    /\ \/ /\ n > Capacity
          /\ response' = "FAILED_PAYLOAD_TOO_LARGE"
          /\ UNCHANGED <<push_pc, items, unscanned>>
       \/ /\ n <= Capacity
          /\ write_idx + n <= MaxItems  \* bound
          /\ items' = n
          /\ response' = "PENDING"
          /\ \/ /\ Fits(FinalWriteIdx(n), cached_read_idx)
                /\ push_pc' = "copy"
                /\ UNCHANGED unscanned
             \/ /\ ~Fits(FinalWriteIdx(n), cached_read_idx)
                /\ push_pc' = "scan"
                /\ unscanned' = Consumers
    /\ UNCHANGED <<bufferVars, consumerVars, cached_read_idx, stored,
                   first_read_idx>>

(* try_push: the same steps for one item, which cannot be too large.       *)
TryPush == TryPushMany(1)

(* Mutant of LoadReadIdx: the last consumer visited, not the slowest.      *)
LoadLastReadIdx(c) ==
    /\ push_pc = "scan"
    /\ c \in unscanned
    /\ unscanned' = unscanned \ {c}
    /\ first_read_idx' = read_idx[c]
    /\ UNCHANGED <<bufferVars, consumerVars, cached_read_idx, push_pc, items,
                   stored, response>>

(* One iteration of get_first_read_idx.  The code visits the consumers in  *)
(* registration order; any order is allowed here.                          *)
LoadReadIdx(c) ==
    /\ push_pc = "scan"
    /\ c \in unscanned
    /\ unscanned' = unscanned \ {c}
    /\ first_read_idx' = IF read_idx[c] < first_read_idx
                         THEN read_idx[c] ELSE first_read_idx
    /\ UNCHANGED <<bufferVars, consumerVars, cached_read_idx, push_pc, items,
                   stored, response>>

(* Mutant of RefreshReadIdx: waits for room instead of refusing.           *)
RefreshUntilFits ==
    /\ push_pc = "scan"
    /\ unscanned = {}
    /\ cached_read_idx' = first_read_idx
    /\ first_read_idx' = SizeMax
    /\ \/ /\ Fits(FinalWriteIdx(items), first_read_idx)
          /\ push_pc' = "copy"
          /\ UNCHANGED unscanned
       \/ /\ ~Fits(FinalWriteIdx(items), first_read_idx)
          /\ unscanned' = Consumers
          /\ UNCHANGED push_pc
    /\ UNCHANGED <<bufferVars, consumerVars, items, stored, response>>

(* is_valid_write_idx after the scan: the cache is refreshed whatever the  *)
(* outcome, then the test is made again.                                   *)
RefreshReadIdx ==
    /\ push_pc = "scan"
    /\ unscanned = {}
    /\ cached_read_idx' = first_read_idx
    /\ first_read_idx' = SizeMax
    /\ \/ /\ Fits(FinalWriteIdx(items), first_read_idx)
          /\ push_pc' = "copy"
          /\ UNCHANGED <<items, response>>
       \/ /\ ~Fits(FinalWriteIdx(items), first_read_idx)
          /\ push_pc' = "idle"
          /\ items' = 0
          /\ response' = "FAILED_BUFFER_FULL"
    /\ UNCHANGED <<bufferVars, consumerVars, stored, unscanned>>

(* Mutant of StoreItem: i <= items.size().                                 *)
StoreItemTooMany ==
    /\ push_pc = "copy"
    /\ stored <= items
    /\ buffer' = [buffer EXCEPT ![IndexOf(write_idx + stored)] = write_idx + stored]
    /\ stored' = stored + 1
    /\ UNCHANGED <<write_idx, is_closed, consumerVars, cached_read_idx, push_pc,
                   items, unscanned, first_read_idx, response>>

(* One iteration of the copy loop of try_push_many.                        *)
StoreItem ==
    /\ push_pc = "copy"
    /\ stored < items
    /\ buffer' = [buffer EXCEPT ![IndexOf(write_idx + stored)] = write_idx + stored]
    /\ stored' = stored + 1
    /\ UNCHANGED <<write_idx, is_closed, consumerVars, cached_read_idx, push_pc,
                   items, unscanned, first_read_idx, response>>

(* Mutant of PublishItems: final_write_idx itself is stored.               *)
PublishOneLess ==
    /\ push_pc = "copy"
    /\ stored = items
    /\ write_idx' = FinalWriteIdx(items)
    /\ push_pc' = "idle"
    /\ items' = 0
    /\ stored' = 0
    /\ response' = "SUCCESS"
    /\ UNCHANGED <<buffer, is_closed, consumerVars, cached_read_idx, unscanned,
                   first_read_idx>>

(* The release store that makes the whole payload visible at once.         *)
PublishItems ==
    /\ push_pc = "copy"
    /\ stored = items
    /\ write_idx' = Add(FinalWriteIdx(items), 1)
    /\ push_pc' = "idle"
    /\ items' = 0
    /\ stored' = 0
    /\ response' = "SUCCESS"
    /\ UNCHANGED <<buffer, is_closed, consumerVars, cached_read_idx, unscanned,
                   first_read_idx>>

(* close, which the producer's owner calls between two pushes.             *)
Close ==
    /\ push_pc = "idle"
    /\ is_closed' = TRUE
    /\ UNCHANGED <<buffer, write_idx, producerVars, consumerVars>>

(* What the producer's thread does on its own once a call has begun.       *)
ProducerStep ==
    \/ \E c \in Consumers : LoadReadIdx(c)
    \/ RefreshReadIdx
    \/ StoreItem
    \/ PublishItems

-----------------------------------------------------------------------------
(* The consumers.                                                          *)

(* Where a call goes once check_pop_status has found enough items.         *)
Granted(skip) == IF skip THEN "skip" ELSE "copy"

(* try_pop_many and try_skip_many up to the first access to shared memory: *)
(* the test against the cached view of the write index.                    *)
Request(c, n, skip) ==
    /\ pop_pc[c] = "idle"
    /\ count' = [count EXCEPT ![c] = n]
    /\ skipping' = [skipping EXCEPT ![c] = skip]
    /\ read_ptr' = [read_ptr EXCEPT ![c] = << >>]
    /\ failure' = [failure EXCEPT ![c] = "PENDING"]
    /\ pop_pc' = [pop_pc EXCEPT ![c] =
                    IF Available(c, n, cached_write_idx[c])
                    THEN Granted(skip) ELSE "load_write"]
    /\ UNCHANGED <<bufferVars, producerVars, read_idx, cached_write_idx>>

TryPopMany(c, n) == Request(c, n, FALSE)
TrySkipMany(c, n) == Request(c, n, TRUE)

(* try_pop: the same steps for one item.                                   *)
TryPop(c) == TryPopMany(c, 1)

(* Mutant of LoadWriteIdx: trusts the refreshed index without testing it.  *)
LoadWriteIdxUntested(c) ==
    /\ pop_pc[c] = "load_write"
    /\ cached_write_idx' = [cached_write_idx EXCEPT ![c] = write_idx]
    /\ pop_pc' = [pop_pc EXCEPT ![c] = Granted(skipping[c])]
    /\ UNCHANGED <<bufferVars, producerVars, read_idx, count, skipping,
                   read_ptr, failure>>

(* check_pop_status refreshes its view of the write index and tests again. *)
LoadWriteIdx(c) ==
    /\ pop_pc[c] = "load_write"
    /\ cached_write_idx' = [cached_write_idx EXCEPT ![c] = write_idx]
    /\ pop_pc' = [pop_pc EXCEPT ![c] =
                    IF Available(c, count[c], write_idx)
                    THEN Granted(skipping[c]) ELSE "load_closed"]
    /\ UNCHANGED <<bufferVars, producerVars, read_idx, count, skipping,
                   read_ptr, failure>>

(* Too few items: only now does check_pop_status ask whether the stream    *)
(* has ended, and the call returns with that answer.                       *)
LoadIsClosed(c) ==
    /\ pop_pc[c] = "load_closed"
    /\ failure' = [failure EXCEPT ![c] =
                    IF is_closed THEN "BUFFER_CLOSED" ELSE "BUFFER_INSUFFICIENT"]
    /\ pop_pc' = [pop_pc EXCEPT ![c] = "idle"]
    /\ count' = [count EXCEPT ![c] = 0]
    /\ skipping' = [skipping EXCEPT ![c] = FALSE]
    /\ UNCHANGED <<bufferVars, producerVars, read_idx, cached_write_idx, read_ptr>>

(* One iteration of the copy loop of try_pop_many.                         *)
CopyItem(c) ==
    /\ pop_pc[c] = "copy"
    /\ Len(read_ptr[c]) < count[c]
    /\ read_ptr' = [read_ptr EXCEPT ![c] =
                      Append(@, buffer[IndexOf(read_idx[c] + Len(@))])]
    /\ UNCHANGED <<bufferVars, producerVars, read_idx, cached_write_idx, pop_pc,
                   count, skipping, failure>>

(* The release store that gives the slots back to the producer.            *)
AdvanceReadIdx(c) ==
    /\ \/ pop_pc[c] = "skip"
       \/ pop_pc[c] = "copy" /\ Len(read_ptr[c]) = count[c]
    /\ read_idx' = [read_idx EXCEPT ![c] = @ + count[c]]
    /\ failure' = [failure EXCEPT ![c] = "NONE"]
    /\ pop_pc' = [pop_pc EXCEPT ![c] = "idle"]
    /\ count' = [count EXCEPT ![c] = 0]
    /\ skipping' = [skipping EXCEPT ![c] = FALSE]
    /\ UNCHANGED <<bufferVars, producerVars, cached_write_idx, read_ptr>>

(* What consumer c's thread does on its own once a call has begun.         *)
ConsumerStep(c) ==
    \/ LoadWriteIdx(c)
    \/ LoadIsClosed(c)
    \/ CopyItem(c)
    \/ AdvanceReadIdx(c)

-----------------------------------------------------------------------------
(* The queue under clients that call whatever they like.                   *)

Next ==
    \/ \E n \in PushSizes : TryPushMany(n)
    \/ TryPush
    \/ Close
    \/ ProducerStep
    \/ \E c \in Consumers :
        \/ \E n \in PopSizes : TryPopMany(c, n) \/ TrySkipMany(c, n)
        \/ TryPop(c)
        \/ ConsumerStep(c)

Spec == Init /\ [][Next]_vars

-----------------------------------------------------------------------------
(* Properties.                                                             *)

(* Every variable has its type; what is scanned or copied stays within the *)
(* current call.                                                           *)
TypeOK ==
    /\ buffer \in [0 .. Capacity - 1 -> Nat \cup {Unwritten}]
    /\ write_idx \in 0 .. MaxItems
    /\ is_closed \in BOOLEAN
    /\ read_idx \in [Consumers -> Nat]
    /\ cached_read_idx \in Nat
    /\ push_pc \in {"idle", "scan", "copy"}
    /\ items \in 0 .. Capacity
    /\ stored \in 0 .. items
    /\ unscanned \subseteq Consumers
    /\ first_read_idx \in 0 .. SizeMax
    /\ response \in {"PENDING", "SUCCESS", "FAILED_BUFFER_FULL",
                     "FAILED_PAYLOAD_TOO_LARGE"}
    /\ cached_write_idx \in [Consumers -> Nat]
    /\ pop_pc \in [Consumers -> {"idle", "load_write", "load_closed", "copy", "skip"}]
    /\ count \in [Consumers -> Nat]
    /\ skipping \in [Consumers -> BOOLEAN]
    /\ read_ptr \in [Consumers -> Seq(Nat \cup {Unwritten})]
    /\ failure \in [Consumers -> {"PENDING", "NONE", "BUFFER_INSUFFICIENT",
                                 "BUFFER_CLOSED"}]

(* A cached index is only ever out of date on the safe side: the producer  *)
(* believes its readers slower than they are, a consumer believes less is  *)
(* published than there is (so check_pop_status never subtracts a larger   *)
(* index from a smaller one), and no reader falls more than Capacity       *)
(* behind.                                                                 *)
CachesAreConservative ==
    \A c \in Consumers :
        /\ cached_read_idx <= read_idx[c]
        /\ read_idx[c] <= cached_write_idx[c]
        /\ cached_write_idx[c] <= write_idx
        /\ write_idx <= read_idx[c] + Capacity

(* is_valid_write_idx's modular test of a view of the slowest reader is    *)
(* the intended comparison for every payload with an item in it.  For an   *)
(* empty payload the subtraction wraps around exactly if that reader has   *)
(* caught up, and the push is refused although there is nothing to store.  *)
TestMeansRoom(n, slowest) ==
    Fits(FinalWriteIdx(n), slowest) <=>
        IF n = 0 THEN slowest < write_idx ELSE write_idx + n <= slowest + Capacity

(* The two tests of a push say what they mean in spite of the unsigned     *)
(* arithmetic, because the views they are made with are conservative: the  *)
(* cached one, out of date as it is, and the minimum of a scan whose loads *)
(* no single moment need have seen together.                               *)
PushTestsAreSound ==
    /\ CachesAreConservative
    /\ \A n \in PushSizes \cup {1} : n <= Capacity => TestMeansRoom(n, cached_read_idx)
    /\ push_pc = "scan" /\ unscanned = {} => TestMeansRoom(items, first_read_idx)

(* An item stays in its slot, whatever the producer copies in meanwhile,   *)
(* until the slowest consumer has moved past it.                           *)
UnreadItemsIntact ==
    \A c \in Consumers : \A j \in read_idx[c] .. write_idx - 1 :
        buffer[IndexOf(j)] = j

(* The producer's next plain store and a consumer's next plain load never  *)
(* meet in one slot: buffer_ needs no atomics.                             *)
NoDataRace ==
    \A c \in Consumers :
        (/\ push_pc = "copy" /\ stored < items
         /\ pop_pc[c] = "copy" /\ Len(read_ptr[c]) < count[c])
        => IndexOf(write_idx + stored) # IndexOf(read_idx[c] + Len(read_ptr[c]))

(* What try_pop_many has copied so far is the stream from the consumer's   *)
(* position on, with nothing repeated, left out, torn or never published.  *)
PopsReadTheStream ==
    \A c \in Consumers : pop_pc[c] = "copy" =>
        \A k \in 1 .. Len(read_ptr[c]) : read_ptr[c][k] = read_idx[c] + k - 1

(* What a consumer is asking for and what its last call handed over, as    *)
(* its client sees them.                                                   *)
CallInProgress == [c \in Consumers |-> IF pop_pc[c] = "idle" THEN "none"
                                     ELSE IF skipping[c] THEN "skip" ELSE "pop"]
HandedOver == [c \in Consumers |-> IF pop_pc[c] = "idle" THEN read_ptr[c] ELSE << >>]

(* The scan of the current push has met a consumer that lags too far       *)
(* behind for the payload.                                                 *)
Crowded == push_pc = "scan" /\ first_read_idx + Capacity < write_idx + items

(* The queue implements the broadcast stream: each call takes effect at    *)
(* its one release store, a payload all at once, and a push is refused     *)
(* only if some consumer had no room for it while it ran.                  *)
Stream == INSTANCE Broadcast WITH
    published <- write_idx,
    closed <- is_closed,
    payload <- items,
    crowded <- Crowded,
    position <- read_idx,
    call <- CallInProgress,
    wanted <- count,
    received <- HandedOver

ImplementsBroadcast == Stream!Spec

(* A push, a pop and a skip return after finitely many steps of their own  *)
(* thread, even if no other thread is scheduled: a push refuses rather     *)
(* than waits for a reader, and a pop returns with an empty hand although  *)
(* the producer has stopped in the middle of a payload.                    *)
CallsAreWaitFree ==
    /\ WF_vars(ProducerStep) => ((push_pc # "idle") ~> (push_pc = "idle"))
    /\ \A c \in Consumers :
          WF_vars(ConsumerStep(c)) => ((pop_pc[c] # "idle") ~> (pop_pc[c] = "idle"))
==============================================================================
