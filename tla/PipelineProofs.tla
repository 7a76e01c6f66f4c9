---------------------------- MODULE PipelineProofs ----------------------------
(***************************************************************************)
(* Proofs about the queue for any set of consumers, any capacity, any      *)
(* payload sizes and counts and a stream of any length below 2^64, and     *)
(* about the threads around it for any files, any number of workers and    *)
(* any ring that holds the longest frame.                                  *)
(***************************************************************************)
EXTENDS Pipeline, SequenceTheorems, FiniteSetTheorems, TLAPS

-----------------------------------------------------------------------------
(* The queue.                                                              *)

(* What a push in progress knows: the part of the payload already stored   *)
(* is in its slots, and the room for the rest is there for every consumer; *)
(* a scan's running minimum bounds the readers it has visited.             *)
PushInProgress ==
    /\ push_pc = "idle" => items = 0
    /\ push_pc # "idle" => write_idx + items <= MaxItems
    /\ push_pc # "scan" => unscanned = {} /\ first_read_idx = SizeMax
    /\ push_pc # "copy" => stored = 0
    /\ \A c \in Consumers \ unscanned :
          push_pc = "scan" => first_read_idx <= read_idx[c]
    /\ push_pc = "copy" => \A c \in Consumers :
          write_idx + items <= read_idx[c] + Capacity
    /\ \A k \in 0 .. stored - 1 :
          buffer[IndexOf(write_idx + k)] = write_idx + k

(* What a pop or skip in progress knows: once granted, all it will move    *)
(* over is published.                                                      *)
PopInProgress ==
    \A c \in Consumers :
        /\ pop_pc[c] \in {"copy", "skip"} =>
              read_idx[c] + count[c] <= cached_write_idx[c]
        /\ pop_pc[c] = "copy" => ~skipping[c] /\ Len(read_ptr[c]) <= count[c]
        /\ pop_pc[c] = "skip" => skipping[c]
        /\ pop_pc[c] \notin {"idle", "copy"} => read_ptr[c] = << >>

(* The inductive invariant: the properties above and what the calls in     *)
(* progress know.                                                          *)
IInv ==
    /\ TypeOK
    /\ CachesAreConservative
    /\ UnreadItemsIntact
    /\ PopsReadTheStream
    /\ PushInProgress
    /\ PopInProgress

-----------------------------------------------------------------------------
(* Arithmetic.                                                             *)

(* Between two consecutive multiples of n there is no multiple of n.       *)
LEMMA NoMultipleBetween ==
    ASSUME NEW n \in Nat \ {0}, NEW q \in Int
    PROVE  ~(0 < n * q /\ n * q < n)
<1>1. CASE q <= 0
  <2>1. n * q <= 0
    BY <1>1
  <2> QED BY <2>1
<1>2. CASE q >= 1
  <2>1. n * q >= n
    BY <1>2
  <2> QED BY <2>1
<1> QED BY <1>1, <1>2

(* Masking an index gives a slot of the buffer.                            *)
LEMMA IndexInBuffer ==
    ASSUME NEW a \in Nat
    PROVE  IndexOf(a) \in 0 .. Capacity - 1
BY CapacityAssumption DEF IndexOf

(* Places of the stream less than Capacity apart have slots of their own.  *)
LEMMA SlotsDistinct ==
    ASSUME NEW a \in Nat, NEW b \in Nat, a < b, b < a + Capacity
    PROVE  IndexOf(a) # IndexOf(b)
<1> USE CapacityAssumption
<1> DEFINE q == (b \div Capacity) - (a \div Capacity)
<1>1. a = Capacity * (a \div Capacity) + (a % Capacity)
  OBVIOUS
<1>2. b = Capacity * (b \div Capacity) + (b % Capacity)
  OBVIOUS
<1>3. q \in Int
  OBVIOUS
<1>4. SUFFICES ASSUME a % Capacity = b % Capacity
               PROVE  FALSE
  BY DEF IndexOf
<1>5. b - a = Capacity * q
  BY <1>1, <1>2, <1>4
<1> HIDE DEF q
<1>6. 0 < Capacity * q /\ Capacity * q < Capacity
  BY <1>3, <1>5
<1> QED BY <1>3, <1>6, NoMultipleBetween

(* A payload that fits behind a lower bound of a reader's position fits    *)
(* behind that reader.  Neither the wrap-around of an empty payload at 0   *)
(* nor that of the subtraction can make a payload fit that does not.       *)
LEMMA FitsMeansRoom ==
    ASSUME NEW n \in 0 .. Capacity, NEW slowest \in Nat, NEW reader \in Nat,
           write_idx \in Nat, write_idx + n <= MaxItems,
           slowest <= reader, reader <= write_idx,
           Fits(FinalWriteIdx(n), slowest)
    PROVE  write_idx + n <= reader + Capacity
BY CapacityAssumption, BoundAssumption DEF Fits, FinalWriteIdx, Sub

(* Publishing moves the write index by exactly the size of the payload.    *)
LEMMA PublishAdvances ==
    ASSUME NEW n \in Nat, write_idx \in Nat, write_idx + n <= MaxItems
    PROVE  Add(FinalWriteIdx(n), 1) = write_idx + n
BY CapacityAssumption, BoundAssumption DEF Add, FinalWriteIdx, Sub

(* A call is granted only if the items it asks for are published.          *)
LEMMA AvailableMeansPublished ==
    ASSUME NEW c \in Consumers, NEW n \in Nat, NEW written \in Nat,
           read_idx[c] \in Nat, read_idx[c] <= written,
           Available(c, n, written)
    PROVE  read_idx[c] + n <= written
BY DEF Available, Sub

-----------------------------------------------------------------------------

LEMMA InitEstablishes == Init => IInv
<1> SUFFICES ASSUME Init
             PROVE  IInv
  OBVIOUS
<1> USE CapacityAssumption, BoundAssumption DEF Init
<1>1. TypeOK
  <2>1. buffer \in [0 .. Capacity - 1 -> Nat \cup {Unwritten}]
    OBVIOUS
  <2>2. read_ptr \in [Consumers -> Seq(Nat \cup {Unwritten})]
    OBVIOUS
  <2>3. pop_pc \in [Consumers -> {"idle", "load_write", "load_closed", "copy", "skip"}]
    OBVIOUS
  <2> QED BY <2>1, <2>2, <2>3 DEF TypeOK
<1>2. CachesAreConservative /\ UnreadItemsIntact
  BY DEF CachesAreConservative, UnreadItemsIntact
<1>3. PopsReadTheStream /\ PopInProgress
  BY DEF PopsReadTheStream, PopInProgress
<1>4. PushInProgress
  BY DEF PushInProgress
<1> QED BY <1>1, <1>2, <1>3, <1>4 DEF IInv

(* Steps that touch neither the indices, the slots nor a pop in progress.  *)
LEMMA TryPushManyPreserves ==
    ASSUME IInv, NEW n \in Nat, TryPushMany(n)
    PROVE  IInv'
<1> USE DEF IInv, TryPushMany, bufferVars, consumerVars
<1>1. TypeOK'
  <2>1. stored = 0
    BY DEF PushInProgress
  <2>2. items' \in 0 .. Capacity /\ stored' \in 0 .. items'
    BY <2>1, CapacityAssumption DEF TypeOK
  <2>3. unscanned' \subseteq Consumers
    BY DEF TypeOK
  <2>4. push_pc' \in {"idle", "scan", "copy"}
    BY DEF TypeOK
  <2>5. response' \in {"PENDING", "SUCCESS", "FAILED_BUFFER_FULL",
                       "FAILED_PAYLOAD_TOO_LARGE"}
    BY DEF TypeOK
  <2> QED BY <2>2, <2>3, <2>4, <2>5 DEF TypeOK
<1>2. CachesAreConservative' /\ UnreadItemsIntact'
  BY DEF CachesAreConservative, UnreadItemsIntact
<1>3. PopsReadTheStream' /\ PopInProgress'
  BY DEF PopsReadTheStream, PopInProgress
<1>4. PushInProgress'
  <2>1. CASE n > Capacity
    BY <2>1, CapacityAssumption DEF TypeOK, PushInProgress
  <2>2. CASE n <= Capacity /\ ~Fits(FinalWriteIdx(n), cached_read_idx)
    BY <2>2, CapacityAssumption DEF TypeOK, PushInProgress
  <2>3. CASE n <= Capacity /\ Fits(FinalWriteIdx(n), cached_read_idx)
    <3>1. ASSUME NEW c \in Consumers
          PROVE  write_idx + n <= read_idx[c] + Capacity
      <4>1. n \in 0 .. Capacity /\ cached_read_idx \in Nat
            /\ read_idx[c] \in Nat /\ write_idx \in Nat
        BY <2>3, BoundAssumption, CapacityAssumption DEF TypeOK
      <4>2. write_idx + n <= MaxItems
        BY <2>3, CapacityAssumption
      <4>3. read_idx[c] <= write_idx /\ cached_read_idx <= read_idx[c]
        BY <4>1 DEF CachesAreConservative, TypeOK
      <4> QED BY ONLY <2>3, <4>1, <4>2, <4>3, FitsMeansRoom
    <3> QED BY <2>3, <3>1, CapacityAssumption DEF TypeOK, PushInProgress
  <2> QED BY <2>1, <2>2, <2>3, CapacityAssumption
<1> QED BY <1>1, <1>2, <1>3, <1>4

LEMMA LoadReadIdxPreserves ==
    ASSUME IInv, NEW c \in Consumers, LoadReadIdx(c)
    PROVE  IInv'
<1> USE DEF IInv, LoadReadIdx, bufferVars, consumerVars
<1>1. TypeOK'
  <2>1. unscanned' \subseteq Consumers
    BY DEF TypeOK
  <2>2. first_read_idx' \in 0 .. SizeMax
    BY BoundAssumption DEF TypeOK
  <2> QED BY <2>1, <2>2 DEF TypeOK
<1>2. CachesAreConservative' /\ UnreadItemsIntact'
  BY DEF CachesAreConservative, UnreadItemsIntact
<1>3. PopsReadTheStream' /\ PopInProgress'
  BY DEF PopsReadTheStream, PopInProgress
<1>4. PushInProgress'
  BY DEF TypeOK, PushInProgress
<1> QED BY <1>1, <1>2, <1>3, <1>4

LEMMA RefreshReadIdxPreserves ==
    ASSUME IInv, RefreshReadIdx
    PROVE  IInv'
<1> USE DEF IInv, RefreshReadIdx, bufferVars, consumerVars
<1>0. \A c \in Consumers : first_read_idx <= read_idx[c]
  BY DEF PushInProgress
<1>1. TypeOK'
  <2>1. stored = 0
    BY DEF PushInProgress
  <2>2. cached_read_idx' \in Nat /\ first_read_idx' \in 0 .. SizeMax
    BY BoundAssumption DEF TypeOK
  <2>3. items' \in 0 .. Capacity /\ stored' \in 0 .. items'
    BY <2>1, CapacityAssumption DEF TypeOK
  <2>4. push_pc' \in {"idle", "scan", "copy"}
    OBVIOUS
  <2>5. response' \in {"PENDING", "SUCCESS", "FAILED_BUFFER_FULL",
                       "FAILED_PAYLOAD_TOO_LARGE"}
    BY DEF TypeOK
  <2> QED BY <2>2, <2>3, <2>4, <2>5 DEF TypeOK
<1>2. CachesAreConservative' /\ UnreadItemsIntact'
  BY <1>0 DEF CachesAreConservative, UnreadItemsIntact
<1>3. PopsReadTheStream' /\ PopInProgress'
  BY DEF PopsReadTheStream, PopInProgress
<1>4. PushInProgress'
  <2>1. CASE Fits(FinalWriteIdx(items), first_read_idx)
    <3>1. ASSUME NEW c \in Consumers
          PROVE  write_idx + items <= read_idx[c] + Capacity
      <4>1. items \in 0 .. Capacity /\ first_read_idx \in Nat
            /\ read_idx[c] \in Nat /\ write_idx \in Nat
        BY BoundAssumption DEF TypeOK
      <4>2. write_idx + items <= MaxItems /\ first_read_idx <= read_idx[c]
        BY <1>0 DEF PushInProgress
      <4>3. read_idx[c] <= write_idx
        BY <4>1 DEF CachesAreConservative, TypeOK
      <4> QED BY ONLY <2>1, <4>1, <4>2, <4>3, FitsMeansRoom
    <3> QED BY <2>1, <3>1 DEF TypeOK, PushInProgress
  <2>2. CASE ~Fits(FinalWriteIdx(items), first_read_idx)
    BY <2>2 DEF TypeOK, PushInProgress
  <2> QED BY <2>1, <2>2
<1> QED BY <1>1, <1>2, <1>3, <1>4

(* The copy loop writes beside everything a consumer may still read.       *)
LEMMA StoreItemPreserves ==
    ASSUME IInv, StoreItem
    PROVE  IInv'
<1> USE DEF IInv, StoreItem, bufferVars, consumerVars
<1> DEFINE place == write_idx + stored
<1>0. place \in Nat /\ IndexOf(place) \in 0 .. Capacity - 1
  <2>1. place \in Nat
    BY BoundAssumption, CapacityAssumption DEF TypeOK
  <2> QED BY <2>1, IndexInBuffer
<1>1. TypeOK'
  <2>1. buffer' \in [0 .. Capacity - 1 -> Nat \cup {Unwritten}]
    BY <1>0 DEF TypeOK
  <2>2. stored' \in 0 .. items'
    BY CapacityAssumption DEF TypeOK
  <2> QED BY <2>1, <2>2 DEF TypeOK
<1>2. CachesAreConservative'
  BY DEF CachesAreConservative
<1>3. UnreadItemsIntact'
  <2> SUFFICES ASSUME NEW c \in Consumers, NEW j \in read_idx[c] .. write_idx - 1
               PROVE  buffer'[IndexOf(j)] = j
    BY DEF UnreadItemsIntact
  <2>1. read_idx[c] \in Nat /\ write_idx \in Nat /\ items \in Nat
        /\ stored \in Nat /\ stored < items
    BY BoundAssumption, CapacityAssumption DEF TypeOK
  <2>2. j \in Nat /\ read_idx[c] <= j /\ j < write_idx
    BY <2>1
  <2>3. write_idx + items <= read_idx[c] + Capacity
    BY DEF PushInProgress
  <2>4. j < place /\ place < j + Capacity
    BY <2>1, <2>2, <2>3, CapacityAssumption
  <2>5. IndexOf(j) # IndexOf(place)
    BY <1>0, <2>2, <2>4, SlotsDistinct
  <2>6. IndexOf(j) \in 0 .. Capacity - 1
    BY <2>2, IndexInBuffer
  <2>7. buffer[IndexOf(j)] = j
    BY DEF UnreadItemsIntact
  <2> QED BY <2>5, <2>6, <2>7 DEF TypeOK
<1>4. PopsReadTheStream' /\ PopInProgress'
  BY DEF PopsReadTheStream, PopInProgress
<1>5. PushInProgress'
  <2>1. ASSUME NEW k \in 0 .. stored' - 1
        PROVE  buffer'[IndexOf(write_idx + k)] = write_idx + k
    <3>1. write_idx \in Nat /\ stored \in Nat /\ items <= Capacity /\ items \in Nat
          /\ k \in Nat
      BY BoundAssumption, CapacityAssumption DEF TypeOK
    <3>2. write_idx + k \in Nat /\ IndexOf(write_idx + k) \in 0 .. Capacity - 1
      BY <3>1, IndexInBuffer
    <3>3. CASE k = stored
      BY <1>0, <3>3 DEF TypeOK
    <3>4. CASE k < stored
      <4>1. write_idx + k < place /\ place < write_idx + k + Capacity
        BY <3>1, <3>4, CapacityAssumption
      <4>2. IndexOf(write_idx + k) # IndexOf(place)
        BY <1>0, <3>2, <4>1, SlotsDistinct
      <4>3. buffer[IndexOf(write_idx + k)] = write_idx + k
        BY <3>1, <3>4 DEF PushInProgress
      <4> QED BY <3>2, <4>2, <4>3 DEF TypeOK
    <3> QED BY <3>1, <3>3, <3>4
  <2> QED BY <2>1 DEF PushInProgress
<1> QED BY <1>1, <1>2, <1>3, <1>4, <1>5

(* The payload becomes readable only when all of it is in its slots.       *)
LEMMA PublishItemsPreserves ==
    ASSUME IInv, PublishItems
    PROVE  IInv'
<1> USE DEF IInv, PublishItems, bufferVars, consumerVars
<1>0. /\ write_idx \in Nat /\ items \in Nat /\ write_idx + items <= MaxItems
      /\ write_idx' = write_idx + items
  <2>1. write_idx \in Nat /\ items \in Nat
    BY BoundAssumption, CapacityAssumption DEF TypeOK
  <2>2. write_idx + items <= MaxItems
    BY DEF PushInProgress
  <2> QED BY <2>1, <2>2, PublishAdvances
<1>1. TypeOK'
  <2>1. write_idx' \in 0 .. MaxItems
    BY <1>0, BoundAssumption
  <2>2. items' \in 0 .. Capacity /\ stored' \in 0 .. items'
    BY CapacityAssumption
  <2>3. push_pc' \in {"idle", "scan", "copy"}
    OBVIOUS
  <2>4. response' \in {"PENDING", "SUCCESS", "FAILED_BUFFER_FULL",
                       "FAILED_PAYLOAD_TOO_LARGE"}
    OBVIOUS
  <2> QED BY <2>1, <2>2, <2>3, <2>4 DEF TypeOK
<1>2. CachesAreConservative'
  <2> SUFFICES ASSUME NEW c \in Consumers
               PROVE  /\ cached_read_idx <= read_idx[c]
                      /\ read_idx[c] <= cached_write_idx[c]
                      /\ cached_write_idx[c] <= write_idx'
                      /\ write_idx' <= read_idx[c] + Capacity
    BY DEF CachesAreConservative
  <2>1. cached_write_idx[c] \in Nat /\ cached_write_idx[c] <= write_idx
    BY DEF TypeOK, CachesAreConservative
  <2>2. write_idx + items <= read_idx[c] + Capacity
    BY DEF PushInProgress
  <2> QED BY <1>0, <2>1, <2>2 DEF CachesAreConservative
<1>3. UnreadItemsIntact'
  <2> SUFFICES ASSUME NEW c \in Consumers, NEW j \in read_idx[c] .. write_idx' - 1
               PROVE  buffer[IndexOf(j)] = j
    BY DEF UnreadItemsIntact
  <2>1. read_idx[c] \in Nat
    BY DEF TypeOK
  <2>2. CASE j < write_idx
    BY <1>0, <2>1, <2>2 DEF UnreadItemsIntact
  <2>3. CASE j >= write_idx
    <3>1. j - write_idx \in 0 .. stored - 1
      BY <1>0, <2>1, <2>3
    <3>2. buffer[IndexOf(write_idx + (j - write_idx))] = write_idx + (j - write_idx)
      BY <3>1 DEF PushInProgress
    <3>3. write_idx + (j - write_idx) = j
      BY <1>0, <2>1
    <3> QED BY <3>2, <3>3
  <2> QED BY <1>0, <2>1, <2>2, <2>3
<1>4. PopsReadTheStream' /\ PopInProgress'
  BY DEF PopsReadTheStream, PopInProgress
<1>5. PushInProgress'
  BY DEF TypeOK, PushInProgress
<1> QED BY <1>1, <1>2, <1>3, <1>4, <1>5

LEMMA ClosePreserves ==
    ASSUME IInv, Close
    PROVE  IInv'
<1> USE DEF IInv, Close, producerVars, consumerVars
<1>1. TypeOK'
  BY DEF TypeOK
<1>2. CachesAreConservative' /\ UnreadItemsIntact'
  BY DEF CachesAreConservative, UnreadItemsIntact
<1>3. PopsReadTheStream' /\ PopInProgress' /\ PushInProgress'
  BY DEF PopsReadTheStream, PopInProgress, PushInProgress
<1> QED BY <1>1, <1>2, <1>3

-----------------------------------------------------------------------------

LEMMA RequestPreserves ==
    ASSUME IInv, NEW c \in Consumers, NEW n \in Nat, NEW skip \in BOOLEAN,
           Request(c, n, skip)
    PROVE  IInv'
<1> USE DEF IInv, Request, bufferVars, producerVars
<1>1. TypeOK'
  <2>1. count' \in [Consumers -> Nat] /\ skipping' \in [Consumers -> BOOLEAN]
    BY DEF TypeOK
  <2>2. read_ptr' \in [Consumers -> Seq(Nat \cup {Unwritten})]
    BY DEF TypeOK
  <2>3. failure' \in [Consumers -> {"PENDING", "NONE", "BUFFER_INSUFFICIENT",
                                   "BUFFER_CLOSED"}]
    BY DEF TypeOK
  <2>4. pop_pc' \in [Consumers -> {"idle", "load_write", "load_closed", "copy", "skip"}]
    BY DEF TypeOK, Granted
  <2> QED BY <2>1, <2>2, <2>3, <2>4 DEF TypeOK
<1>2. CachesAreConservative' /\ UnreadItemsIntact'
  BY DEF CachesAreConservative, UnreadItemsIntact
<1>3. PopsReadTheStream'
  BY DEF TypeOK, PopsReadTheStream
<1>4. PushInProgress'
  BY DEF PushInProgress
<1>5. PopInProgress'
  <2> SUFFICES ASSUME NEW d \in Consumers
               PROVE  /\ pop_pc'[d] \in {"copy", "skip"} =>
                            read_idx[d] + count'[d] <= cached_write_idx[d]
                      /\ pop_pc'[d] = "copy" =>
                            ~skipping'[d] /\ Len(read_ptr'[d]) <= count'[d]
                      /\ pop_pc'[d] = "skip" => skipping'[d]
                      /\ pop_pc'[d] \notin {"idle", "copy"} => read_ptr'[d] = << >>
    BY DEF PopInProgress
  <2>1. CASE d # c
    BY <2>1 DEF TypeOK, PopInProgress
  <2>2. CASE d = c /\ Available(c, n, cached_write_idx[c])
    <3>1. read_idx[c] + n <= cached_write_idx[c]
      BY <2>2, AvailableMeansPublished DEF TypeOK, CachesAreConservative
    <3> QED BY <2>2, <3>1 DEF TypeOK, Granted
  <2>3. CASE d = c /\ ~Available(c, n, cached_write_idx[c])
    BY <2>3 DEF TypeOK
  <2> QED BY <2>1, <2>2, <2>3
<1> QED BY <1>1, <1>2, <1>3, <1>4, <1>5

LEMMA LoadWriteIdxPreserves ==
    ASSUME IInv, NEW c \in Consumers, LoadWriteIdx(c)
    PROVE  IInv'
<1> USE DEF IInv, LoadWriteIdx, bufferVars, producerVars
<1>0. write_idx \in Nat /\ read_idx[c] \in Nat /\ read_idx[c] <= write_idx
      /\ cached_write_idx[c] <= write_idx /\ count[c] \in Nat
  BY BoundAssumption DEF TypeOK, CachesAreConservative
<1>1. TypeOK'
  <2>1. cached_write_idx' \in [Consumers -> Nat]
    BY <1>0 DEF TypeOK
  <2>2. pop_pc' \in [Consumers -> {"idle", "load_write", "load_closed", "copy", "skip"}]
    BY DEF TypeOK, Granted
  <2> QED BY <2>1, <2>2 DEF TypeOK
<1>2. CachesAreConservative' /\ UnreadItemsIntact'
  BY <1>0 DEF TypeOK, CachesAreConservative, UnreadItemsIntact
<1>3. PopsReadTheStream'
  BY DEF TypeOK, PopsReadTheStream, PopInProgress
<1>4. PushInProgress'
  BY DEF PushInProgress
<1>5. PopInProgress'
  <2> SUFFICES ASSUME NEW d \in Consumers
               PROVE  /\ pop_pc'[d] \in {"copy", "skip"} =>
                            read_idx[d] + count[d] <= cached_write_idx'[d]
                      /\ pop_pc'[d] = "copy" =>
                            ~skipping[d] /\ Len(read_ptr[d]) <= count[d]
                      /\ pop_pc'[d] = "skip" => skipping[d]
                      /\ pop_pc'[d] \notin {"idle", "copy"} => read_ptr[d] = << >>
    BY DEF PopInProgress
  <2>1. CASE d # c
    BY <2>1 DEF TypeOK, PopInProgress
  <2>2. CASE d = c
    <3>1. read_ptr[c] = << >> /\ Len(read_ptr[c]) <= count[c]
      BY <1>0 DEF PopInProgress
    <3>2. CASE Available(c, count[c], write_idx)
      <4>1. read_idx[c] + count[c] <= write_idx
        BY <1>0, <3>2, AvailableMeansPublished
      <4> QED BY <2>2, <3>1, <3>2, <4>1 DEF TypeOK, Granted
    <3>3. CASE ~Available(c, count[c], write_idx)
      BY <2>2, <3>1, <3>3 DEF TypeOK
    <3> QED BY <3>2, <3>3
  <2> QED BY <2>1, <2>2
<1> QED BY <1>1, <1>2, <1>3, <1>4, <1>5

LEMMA LoadIsClosedPreserves ==
    ASSUME IInv, NEW c \in Consumers, LoadIsClosed(c)
    PROVE  IInv'
<1> USE DEF IInv, LoadIsClosed, bufferVars, producerVars
<1>1. TypeOK'
  <2>1. count' \in [Consumers -> Nat] /\ skipping' \in [Consumers -> BOOLEAN]
    BY DEF TypeOK
  <2>2. failure' \in [Consumers -> {"PENDING", "NONE", "BUFFER_INSUFFICIENT",
                                   "BUFFER_CLOSED"}]
    BY DEF TypeOK
  <2>3. pop_pc' \in [Consumers -> {"idle", "load_write", "load_closed", "copy", "skip"}]
    BY DEF TypeOK
  <2> QED BY <2>1, <2>2, <2>3 DEF TypeOK
<1>2. CachesAreConservative' /\ UnreadItemsIntact' /\ PushInProgress'
  BY DEF CachesAreConservative, UnreadItemsIntact, PushInProgress
<1>3. PopsReadTheStream'
  BY DEF TypeOK, PopsReadTheStream
<1>4. PopInProgress'
  BY DEF TypeOK, PopInProgress
<1> QED BY <1>1, <1>2, <1>3, <1>4

(* A granted pop loads from slots whose items are published and intact.    *)
LEMMA CopyItemPreserves ==
    ASSUME IInv, NEW c \in Consumers, CopyItem(c)
    PROVE  IInv'
<1> USE DEF IInv, CopyItem, bufferVars, producerVars
<1> DEFINE copied == read_ptr[c]
           place == read_idx[c] + Len(copied)
<1>0. copied \in Seq(Nat \cup {Unwritten}) /\ Len(copied) \in Nat
      /\ read_idx[c] \in Nat /\ place \in Nat /\ count[c] \in Nat
  BY DEF TypeOK
<1>1. buffer[IndexOf(place)] = place
  <2>1. place < write_idx /\ write_idx \in Nat
    BY <1>0, BoundAssumption DEF TypeOK, PopInProgress, CachesAreConservative
  <2>2. place \in read_idx[c] .. write_idx - 1
    BY <1>0, <2>1
  <2> QED BY <2>2 DEF UnreadItemsIntact
<1>2. read_ptr' = [read_ptr EXCEPT ![c] = Append(copied, place)]
  BY <1>1
<1>3. Append(copied, place) \in Seq(Nat \cup {Unwritten})
      /\ Len(Append(copied, place)) = Len(copied) + 1
  BY <1>0
<1>4. TypeOK'
  <2>1. read_ptr' \in [Consumers -> Seq(Nat \cup {Unwritten})]
    BY <1>2, <1>3 DEF TypeOK
  <2> QED BY <2>1 DEF TypeOK
<1>5. CachesAreConservative' /\ UnreadItemsIntact' /\ PushInProgress'
  BY DEF CachesAreConservative, UnreadItemsIntact, PushInProgress
<1>6. PopsReadTheStream'
  <2> SUFFICES ASSUME NEW d \in Consumers, pop_pc[d] = "copy",
                      NEW k \in 1 .. Len(read_ptr'[d])
               PROVE  read_ptr'[d][k] = read_idx[d] + k - 1
    BY DEF PopsReadTheStream
  <2>1. CASE d # c
    <3>1. read_ptr'[d] = read_ptr[d]
      BY <1>2, <2>1 DEF TypeOK
    <3> QED BY <3>1 DEF PopsReadTheStream
  <2>2. CASE d = c
    <3>1. read_ptr'[c] = Append(copied, place)
      BY <1>2 DEF TypeOK
    <3>2. k \in 1 .. Len(copied) + 1
      BY <1>3, <2>2, <3>1
    <3>3. CASE k = Len(copied) + 1
      <4>1. Append(copied, place)[k] = place
        BY <1>0, <3>3
      <4> QED BY <1>0, <2>2, <3>1, <3>3, <4>1
    <3>4. CASE k \in 1 .. Len(copied)
      <4>1. Append(copied, place)[k] = copied[k]
        BY <1>0, <3>4
      <4>2. copied[k] = read_idx[c] + k - 1
        BY <2>2, <3>4 DEF PopsReadTheStream
      <4> QED BY <2>2, <3>1, <4>1, <4>2
    <3> QED BY <1>0, <3>2, <3>3, <3>4
  <2> QED BY <2>1, <2>2
<1>7. PopInProgress'
  <2> SUFFICES ASSUME NEW d \in Consumers
               PROVE  /\ pop_pc[d] \in {"copy", "skip"} =>
                            read_idx[d] + count[d] <= cached_write_idx[d]
                      /\ pop_pc[d] = "copy" =>
                            ~skipping[d] /\ Len(read_ptr'[d]) <= count[d]
                      /\ pop_pc[d] = "skip" => skipping[d]
                      /\ pop_pc[d] \notin {"idle", "copy"} => read_ptr'[d] = << >>
    BY DEF PopInProgress
  <2>1. CASE d # c
    <3>1. read_ptr'[d] = read_ptr[d]
      BY <1>2, <2>1 DEF TypeOK
    <3> QED BY <3>1 DEF PopInProgress
  <2>2. CASE d = c
    <3>1. Len(read_ptr'[c]) = Len(copied) + 1
      BY <1>2, <1>3 DEF TypeOK
    <3> QED BY <1>0, <2>2, <3>1 DEF PopInProgress
  <2> QED BY <2>1, <2>2
<1> QED BY <1>4, <1>5, <1>6, <1>7

(* Moving past granted items only shrinks what must stay intact.           *)
LEMMA AdvanceReadIdxPreserves ==
    ASSUME IInv, NEW c \in Consumers, AdvanceReadIdx(c)
    PROVE  IInv'
<1> USE DEF IInv, AdvanceReadIdx, bufferVars, producerVars
<1>0. /\ read_idx[c] \in Nat /\ count[c] \in Nat
      /\ read_idx'[c] = read_idx[c] + count[c]
      /\ read_idx[c] + count[c] <= cached_write_idx[c]
      /\ \A d \in Consumers : d # c => read_idx'[d] = read_idx[d]
  BY DEF TypeOK, PopInProgress
<1>00. \A d \in Consumers : read_idx[d] \in Nat /\ read_idx'[d] \in Nat
                           /\ read_idx[d] <= read_idx'[d]
  BY <1>0 DEF TypeOK
<1>1. TypeOK'
  <2>1. count' \in [Consumers -> Nat] /\ skipping' \in [Consumers -> BOOLEAN]
    BY DEF TypeOK
  <2>2. failure' \in [Consumers -> {"PENDING", "NONE", "BUFFER_INSUFFICIENT",
                                   "BUFFER_CLOSED"}]
    BY DEF TypeOK
  <2>3. pop_pc' \in [Consumers -> {"idle", "load_write", "load_closed", "copy", "skip"}]
    BY DEF TypeOK
  <2>4. read_idx' \in [Consumers -> Nat]
    BY <1>0 DEF TypeOK
  <2> QED BY <2>1, <2>2, <2>3, <2>4 DEF TypeOK
<1>2. CachesAreConservative'
  <2> SUFFICES ASSUME NEW d \in Consumers
               PROVE  /\ cached_read_idx <= read_idx'[d]
                      /\ read_idx'[d] <= cached_write_idx[d]
                      /\ cached_write_idx[d] <= write_idx
                      /\ write_idx <= read_idx'[d] + Capacity
    BY DEF CachesAreConservative
  <2>1. cached_read_idx \in Nat /\ write_idx \in Nat
    BY BoundAssumption DEF TypeOK
  <2> QED BY <1>0, <1>00, <2>1, CapacityAssumption DEF CachesAreConservative
<1>3. UnreadItemsIntact'
  <2> SUFFICES ASSUME NEW d \in Consumers, NEW j \in read_idx'[d] .. write_idx - 1
               PROVE  buffer[IndexOf(j)] = j
    BY DEF UnreadItemsIntact
  <2>1. j \in read_idx[d] .. write_idx - 1
    BY <1>00, BoundAssumption DEF TypeOK
  <2> QED BY <2>1 DEF UnreadItemsIntact
<1>4. PushInProgress'
  <2>1. \A d \in Consumers \ unscanned :
           push_pc = "scan" => first_read_idx <= read_idx'[d]
    BY <1>00, BoundAssumption DEF TypeOK, PushInProgress
  <2>2. push_pc = "copy" => \A d \in Consumers :
           write_idx + items <= read_idx'[d] + Capacity
    BY <1>00, BoundAssumption, CapacityAssumption DEF TypeOK, PushInProgress
  <2> QED BY <2>1, <2>2 DEF PushInProgress
<1>5. PopsReadTheStream'
  BY <1>0 DEF TypeOK, PopsReadTheStream
<1>6. PopInProgress'
  BY <1>0 DEF TypeOK, PopInProgress
<1> QED BY <1>1, <1>2, <1>3, <1>4, <1>5, <1>6

-----------------------------------------------------------------------------

LEMMA NextPreserves ==
    ASSUME IInv, [Next]_vars
    PROVE  IInv'
<1>1. CASE \E n \in PushSizes : TryPushMany(n)
  BY <1>1, SizesAssumption, TryPushManyPreserves
<1>2. CASE TryPush
  BY <1>2, TryPushManyPreserves DEF TryPush
<1>3. CASE Close
  BY <1>3, ClosePreserves
<1>4. CASE ProducerStep
  BY <1>4, LoadReadIdxPreserves, RefreshReadIdxPreserves, StoreItemPreserves,
     PublishItemsPreserves DEF ProducerStep
<1>5. ASSUME NEW c \in Consumers,
             \/ \E n \in PopSizes : TryPopMany(c, n) \/ TrySkipMany(c, n)
             \/ TryPop(c)
      PROVE  IInv'
  BY <1>5, SizesAssumption, RequestPreserves DEF TryPopMany, TrySkipMany, TryPop
<1>6. ASSUME NEW c \in Consumers, ConsumerStep(c)
      PROVE  IInv'
  BY <1>6, LoadWriteIdxPreserves, LoadIsClosedPreserves, CopyItemPreserves,
     AdvanceReadIdxPreserves DEF ConsumerStep
<1>7. CASE UNCHANGED vars
  BY <1>7 DEF vars, bufferVars, producerVars, consumerVars, IInv, TypeOK,
     CachesAreConservative, UnreadItemsIntact, PopsReadTheStream,
     PushInProgress, PopInProgress
<1> QED BY <1>1, <1>2, <1>3, <1>4, <1>5, <1>6, <1>7 DEF Next

(* The inductive invariant holds in every state of every instance.         *)
THEOREM InvariantHolds == Spec => []IInv
<1>1. Init => IInv
  BY InitEstablishes
<1>2. IInv /\ [Next]_vars => IInv'
  BY NextPreserves
<1> QED BY <1>1, <1>2, PTL DEF Spec

(* Indices, call states and counters of producer.h and consumer.h keep     *)
(* their types.                                                            *)
THEOREM TypeCorrect == Spec => []TypeOK
BY InvariantHolds, PTL DEF IInv

(* No item is overwritten before the slowest consumer has moved past it.   *)
THEOREM NothingOverwritten == Spec => []UnreadItemsIntact
BY InvariantHolds, PTL DEF IInv

(* Every pop copies the stream in order, from the consumer's position on.  *)
THEOREM PopsCorrect == Spec => []PopsReadTheStream
BY InvariantHolds, PTL DEF IInv

(* The plain accesses to buffer_ of the producer and of a consumer are     *)
(* never aimed at the same slot at the same time.                          *)
THEOREM RaceFree == Spec => []NoDataRace
<1>1. IInv => NoDataRace
  <2> SUFFICES ASSUME IInv, NEW c \in Consumers,
                      push_pc = "copy", stored < items,
                      pop_pc[c] = "copy", Len(read_ptr[c]) < count[c]
               PROVE  IndexOf(write_idx + stored)
                        # IndexOf(read_idx[c] + Len(read_ptr[c]))
    BY DEF NoDataRace
  <2> DEFINE load == read_idx[c] + Len(read_ptr[c])
             store == write_idx + stored
  <2>1. /\ write_idx \in Nat /\ stored \in Nat /\ items \in Nat
        /\ read_idx[c] \in Nat /\ Len(read_ptr[c]) \in Nat /\ count[c] \in Nat
        /\ cached_write_idx[c] \in Nat
    BY BoundAssumption, CapacityAssumption DEF IInv, TypeOK
  <2>2. /\ read_idx[c] + count[c] <= cached_write_idx[c]
        /\ cached_write_idx[c] <= write_idx
        /\ write_idx + items <= read_idx[c] + Capacity
    BY DEF IInv, PopInProgress, CachesAreConservative, PushInProgress
  <2>3. load \in Nat /\ store \in Nat
    BY <2>1
  <2>4. load < store
    BY <2>1, <2>2
  <2>5. store < load + Capacity
    BY <2>1, <2>2, CapacityAssumption
  <2> QED BY <2>3, <2>4, <2>5, SlotsDistinct
<1> QED BY <1>1, InvariantHolds, PTL

-----------------------------------------------------------------------------
(* What the producer's test of a view of the slowest reader means.         *)

(* The views of the producer lag behind by the ring at most, and a payload *)
(* being copied fits behind the cached one.                                *)
ViewsKeepUp ==
    /\ write_idx <= cached_read_idx + Capacity
    /\ push_pc = "scan" => write_idx <= first_read_idx + Capacity
    /\ push_pc = "copy" => write_idx + items <= cached_read_idx + Capacity

(* The modular test against a view that is neither ahead of the stream nor *)
(* more than the ring behind it.                                           *)
LEMMA TestIsExact ==
    ASSUME NEW n \in 0 .. Capacity, NEW slowest \in Nat,
           write_idx \in 0 .. MaxItems, slowest <= write_idx,
           write_idx <= slowest + Capacity
    PROVE  TestMeansRoom(n, slowest)
BY CapacityAssumption, BoundAssumption DEF TestMeansRoom, Fits, FinalWriteIdx, Sub

LEMMA CachedViewTyped ==
    ASSUME IInv
    PROVE  cached_read_idx \in Nat /\ cached_read_idx <= write_idx /\ write_idx \in 0 .. MaxItems
<1>1. PICK c \in Consumers : TRUE
  BY ConsumersAssumption
<1>2. /\ cached_read_idx \in Nat /\ write_idx \in 0 .. MaxItems
      /\ read_idx[c] \in Nat /\ cached_write_idx[c] \in Nat
  BY DEF IInv, TypeOK
<1> QED BY <1>1, <1>2, BoundAssumption DEF IInv, CachesAreConservative

LEMMA ScannedViewTyped ==
    ASSUME IInv, push_pc = "scan", unscanned = {}
    PROVE  first_read_idx \in Nat /\ first_read_idx <= write_idx
<1>1. PICK c \in Consumers : TRUE
  BY ConsumersAssumption
<1>2. /\ first_read_idx \in Nat /\ write_idx \in Nat
      /\ read_idx[c] \in Nat /\ cached_write_idx[c] \in Nat
  BY BoundAssumption DEF IInv, TypeOK
<1>3. first_read_idx <= read_idx[c]
  BY <1>1 DEF IInv, PushInProgress
<1> QED BY <1>1, <1>2, <1>3 DEF IInv, CachesAreConservative

LEMMA ScanTest ==
    ASSUME IInv, ViewsKeepUp, push_pc = "scan", unscanned = {}
    PROVE  TestMeansRoom(items, first_read_idx)
BY CachedViewTyped, ScannedViewTyped, TestIsExact DEF IInv, TypeOK, ViewsKeepUp

LEMMA ViewsPreserved ==
    ASSUME IInv, ViewsKeepUp, [Next]_vars
    PROVE  ViewsKeepUp'
<1> USE CapacityAssumption, BoundAssumption, SizesAssumption
<1>0. /\ write_idx \in Nat /\ items \in Nat /\ cached_read_idx \in Nat
      /\ first_read_idx \in Nat
  BY DEF IInv, TypeOK
<1>1. ASSUME NEW n \in PushSizes \cup {1}, TryPushMany(n)
      PROVE  ViewsKeepUp'
  <2>1. /\ UNCHANGED <<write_idx, cached_read_idx, first_read_idx>>
        /\ push_pc = "idle" /\ first_read_idx = SizeMax /\ write_idx <= MaxItems
    BY <1>1 DEF TryPushMany, bufferVars, IInv, PushInProgress, TypeOK
  <2>2. push_pc' = "copy" => /\ n \in 0 .. Capacity /\ items' = n
                             /\ Fits(FinalWriteIdx(n), cached_read_idx)
    BY <1>1, <2>1 DEF TryPushMany
  <2>3. push_pc' = "copy" => write_idx + items' <= cached_read_idx + Capacity
    BY <1>0, <2>1, <2>2, CachedViewTyped, TestIsExact DEF TestMeansRoom, ViewsKeepUp
  <2> QED BY <1>0, <2>1, <2>3 DEF ViewsKeepUp
<1>2. ASSUME NEW c \in Consumers, LoadReadIdx(c)
      PROVE  ViewsKeepUp'
  <2>1. /\ UNCHANGED <<write_idx, cached_read_idx, push_pc, items>>
        /\ push_pc = "scan" /\ first_read_idx' \in {first_read_idx, read_idx[c]}
    BY <1>2 DEF LoadReadIdx, bufferVars
  <2>2. write_idx <= read_idx[c] + Capacity
    BY DEF IInv, CachesAreConservative
  <2> QED BY <1>0, <2>1, <2>2 DEF ViewsKeepUp
<1>3. CASE RefreshReadIdx
  <2>1. /\ push_pc = "scan" /\ unscanned = {} /\ cached_read_idx' = first_read_idx
        /\ UNCHANGED write_idx /\ push_pc' \in {"idle", "copy"}
        /\ push_pc' = "copy" => items' = items /\ Fits(FinalWriteIdx(items), first_read_idx)
    BY <1>3 DEF RefreshReadIdx, bufferVars
  <2>2. push_pc' = "copy" => write_idx + items <= first_read_idx + Capacity
    BY <1>0, <2>1, ScanTest DEF TestMeansRoom, ViewsKeepUp
  <2> QED BY <1>0, <2>1, <2>2 DEF ViewsKeepUp
<1>4. CASE PublishItems
  <2>1. write_idx' = write_idx + items /\ push_pc = "copy"
    BY <1>0, <1>4, PublishAdvances DEF PublishItems, IInv, PushInProgress
  <2> QED BY <1>0, <1>4, <2>1 DEF PublishItems, ViewsKeepUp
<1>5. CASE UNCHANGED <<write_idx, cached_read_idx, push_pc, first_read_idx, items>>
  BY <1>5 DEF ViewsKeepUp
<1>6. ASSUME StoreItem \/ Close \/ (\E c \in Consumers :
                \/ \E n \in PopSizes : TryPopMany(c, n) \/ TrySkipMany(c, n)
                \/ TryPop(c)
                \/ ConsumerStep(c)) \/ UNCHANGED vars
      PROVE  UNCHANGED <<write_idx, cached_read_idx, push_pc, first_read_idx, items>>
  BY <1>6 DEF StoreItem, Close, TryPopMany, TrySkipMany, TryPop, Request, ConsumerStep,
     LoadWriteIdx, LoadIsClosed, CopyItem, AdvanceReadIdx, vars, bufferVars, producerVars
<1> QED BY <1>1, <1>2, <1>3, <1>4, <1>5, <1>6 DEF Next, ProducerStep, TryPush

(* The views keep up, in every state of every instance.                    *)
LEMMA ViewsInvariant == Spec => [](IInv /\ ViewsKeepUp)
<1>1. Init => ViewsKeepUp
  BY CapacityAssumption DEF Init, ViewsKeepUp
<1>2. IInv /\ ViewsKeepUp /\ [Next]_vars => ViewsKeepUp'
  BY ViewsPreserved
<1> QED BY <1>1, <1>2, InvariantHolds, PTL DEF Spec

(* Both tests of is_valid_write_idx compare what they are meant to compare *)
(* although their arithmetic is modular and their views are old; only for  *)
(* an empty payload and a reader that has caught up does it wrap around.   *)
THEOREM PushTestsSound == Spec => []PushTestsAreSound
<1>1. IInv /\ ViewsKeepUp => PushTestsAreSound
  <2> SUFFICES ASSUME IInv, ViewsKeepUp
               PROVE  PushTestsAreSound
    OBVIOUS
  <2>1. \A n \in PushSizes \cup {1} : n <= Capacity => TestMeansRoom(n, cached_read_idx)
    <3> SUFFICES ASSUME NEW n \in PushSizes \cup {1}, n <= Capacity
                 PROVE  TestMeansRoom(n, cached_read_idx)
      OBVIOUS
    <3>1. n \in 0 .. Capacity
      BY SizesAssumption, CapacityAssumption
    <3> QED BY <3>1, CachedViewTyped, TestIsExact DEF ViewsKeepUp
  <2> QED BY <2>1, ScanTest DEF PushTestsAreSound, IInv
<1> QED BY <1>1, ViewsInvariant, PTL

-----------------------------------------------------------------------------
(* The queue implements the broadcast stream: every step of producer.h and *)
(* consumer.h is, seen through the refinement mapping, one step of the     *)
(* stream or none.                                                         *)

LEMMA ConsumersUnseen ==
    ASSUME UNCHANGED consumerVars
    PROVE  UNCHANGED <<read_idx, CallInProgress, count, HandedOver>>
BY DEF consumerVars, CallInProgress, HandedOver

LEMMA ProducerRefines ==
    ASSUME IInv, ViewsKeepUp,
           \/ \E n \in PushSizes : TryPushMany(n)
           \/ TryPush
           \/ Close
           \/ ProducerStep
    PROVE  [Stream!Next]_(Stream!vars)
<1> USE DEF Stream!vars, Stream!producerVars, Stream!consumerVars
<1>0. push_pc = "idle" => items = 0
  BY DEF IInv, PushInProgress
<1>1. ASSUME NEW n \in PushSizes \cup {1}, TryPushMany(n)
      PROVE  [Stream!Next]_(Stream!vars)
  <2>1. UNCHANGED <<read_idx, CallInProgress, count, HandedOver>>
    BY <1>1, ConsumersUnseen DEF TryPushMany
  <2>2. UNCHANGED <<write_idx, is_closed>> /\ push_pc = "idle" /\ UNCHANGED Crowded
        /\ (items' = n \/ items' = items)
    <3>1. UNCHANGED <<write_idx, is_closed, first_read_idx>> /\ push_pc = "idle"
          /\ \/ items' = n /\ write_idx + n <= MaxItems
             \/ UNCHANGED <<items, push_pc>>
      BY <1>1 DEF TryPushMany, bufferVars
    <3>2. first_read_idx = SizeMax /\ write_idx \in Nat /\ n \in Nat
      BY <3>1, SizesAssumption, BoundAssumption DEF IInv, PushInProgress, TypeOK
    <3> QED BY <3>1, <3>2, BoundAssumption, CapacityAssumption DEF Crowded
  <2>3. CASE items' = n
    <3>1. Stream!Offer(n)
      BY <1>0, <2>1, <2>2, <2>3 DEF Stream!Offer
    <3> QED BY <1>1, <3>1 DEF Stream!Next
  <2>4. CASE items' = items
    BY <2>1, <2>2, <2>4
  <2> QED BY <2>2, <2>3, <2>4
<1>2. CASE Close
  <2>1. Stream!Close
    BY <1>0, <1>2, ConsumersUnseen DEF Close, producerVars, Crowded, Stream!Close
  <2> QED BY <2>1 DEF Stream!Next
<1>3. ASSUME NEW c \in Consumers, LoadReadIdx(c)
      PROVE  [Stream!Next]_(Stream!vars)
  <2>1. /\ UNCHANGED <<read_idx, CallInProgress, count, HandedOver>>
        /\ UNCHANGED <<write_idx, is_closed, items, push_pc>> /\ push_pc = "scan"
        /\ first_read_idx' = IF read_idx[c] < first_read_idx
                             THEN read_idx[c] ELSE first_read_idx
    BY <1>3, ConsumersUnseen DEF LoadReadIdx, bufferVars
  <2>2. /\ write_idx \in Nat /\ items \in Nat /\ read_idx[c] \in Nat
        /\ first_read_idx \in Nat
    BY BoundAssumption, CapacityAssumption DEF IInv, TypeOK
  <2>3. CASE Crowded' = Crowded
    BY <2>1, <2>3
  <2>4. CASE Crowded' # Crowded
    <3>1. Crowded' = TRUE /\ write_idx + items - read_idx[c] > Capacity
      BY <2>1, <2>2, <2>4, CapacityAssumption DEF Crowded
    <3>2. Stream!Meet(c)
      BY <2>1, <3>1 DEF Stream!Meet
    <3> QED BY <3>2 DEF Stream!Next
  <2> QED BY <2>3, <2>4
<1>4. CASE RefreshReadIdx
  <2>1. UNCHANGED <<read_idx, CallInProgress, count, HandedOver>>
    BY <1>4, ConsumersUnseen DEF RefreshReadIdx
  <2>2. /\ UNCHANGED <<write_idx, is_closed>>
        /\ push_pc = "scan" /\ unscanned = {} /\ Crowded' = FALSE
        /\ TestMeansRoom(items, first_read_idx)
        /\ items \in Nat /\ write_idx \in Nat /\ first_read_idx \in Nat
    BY <1>4, ScanTest, BoundAssumption, CapacityAssumption
       DEF RefreshReadIdx, bufferVars, Crowded, IInv, TypeOK
  <2>3. CASE Fits(FinalWriteIdx(items), first_read_idx)
    <3>1. UNCHANGED items
      BY <1>4, <2>3 DEF RefreshReadIdx
    <3>2. ~Crowded
      BY <2>2, <2>3, CapacityAssumption DEF TestMeansRoom, Crowded, ViewsKeepUp
    <3> QED BY <2>1, <2>2, <3>1, <3>2 DEF Crowded
  <2>4. CASE ~Fits(FinalWriteIdx(items), first_read_idx)
    <3>1. items' = 0
      BY <1>4, <2>4 DEF RefreshReadIdx
    <3>2. items = 0 \/ Crowded
      BY <2>2, <2>4, CapacityAssumption DEF TestMeansRoom, Crowded
    <3>3. Stream!Refuse
      BY <2>1, <2>2, <3>1, <3>2 DEF Stream!Refuse
    <3> QED BY <3>3 DEF Stream!Next
  <2> QED BY <2>3, <2>4
<1>5. CASE StoreItem
  BY <1>5, ConsumersUnseen DEF StoreItem, Crowded
<1>6. CASE PublishItems
  <2>1. UNCHANGED <<read_idx, CallInProgress, count, HandedOver>>
    BY <1>6, ConsumersUnseen DEF PublishItems
  <2>2. /\ write_idx \in Nat /\ items \in Nat /\ write_idx + items <= MaxItems
        /\ write_idx' = write_idx + items
    <3>1. write_idx \in Nat /\ items \in Nat
      BY BoundAssumption, CapacityAssumption DEF IInv, TypeOK
    <3>2. write_idx + items <= MaxItems
      BY <1>6 DEF IInv, PushInProgress, PublishItems
    <3> QED BY <1>6, <3>1, <3>2, PublishAdvances DEF PublishItems
  <2>3. \A c \in Consumers : write_idx + items - read_idx[c] <= Capacity
    BY <1>6, <2>2, CapacityAssumption
       DEF IInv, TypeOK, PushInProgress, PublishItems
  <2>4. UNCHANGED <<is_closed, Crowded>> /\ items' = 0
    BY <1>6 DEF PublishItems, Crowded
  <2>5. Stream!Publish
    BY <2>1, <2>2, <2>3, <2>4 DEF Stream!Publish
  <2> QED BY <2>5 DEF Stream!Next
<1> QED BY <1>1, <1>2, <1>3, <1>4, <1>5, <1>6 DEF ProducerStep, TryPush

LEMMA RequestRefines ==
    ASSUME IInv, NEW c \in Consumers, NEW n \in PopSizes \cup {1},
           NEW skip \in BOOLEAN, Request(c, n, skip)
    PROVE  Stream!Next
<1> USE DEF IInv, TypeOK, Request
<1> DEFINE what == IF skip THEN "skip" ELSE "pop"
<1>1. CallInProgress[c] = "none"
  BY DEF CallInProgress
<1>2. CallInProgress' = [CallInProgress EXCEPT ![c] = what]
  BY DEF CallInProgress, Granted
<1>3. HandedOver' = [HandedOver EXCEPT ![c] = << >>]
  BY DEF HandedOver, Granted
<1>4. UNCHANGED <<write_idx, is_closed, items, Crowded, read_idx>>
      /\ count' = [count EXCEPT ![c] = n]
  BY DEF bufferVars, producerVars, Crowded
<1>5. Stream!Ask(c, what, n)
  BY <1>1, <1>2, <1>3, <1>4 DEF Stream!Ask, Stream!producerVars
<1>6. what \in {"pop", "skip"}
  OBVIOUS
<1> QED BY <1>5, <1>6 DEF Stream!Next

LEMMA ConsumerStepRefines ==
    ASSUME IInv, NEW c \in Consumers, ConsumerStep(c)
    PROVE  [Stream!Next]_(Stream!vars)
<1> USE DEF IInv, TypeOK, Stream!vars, Stream!producerVars, Stream!consumerVars
<1>0. UNCHANGED Crowded
  BY DEF ConsumerStep, LoadWriteIdx, LoadIsClosed, CopyItem, AdvanceReadIdx, bufferVars,
     producerVars, Crowded
<1>1. CASE LoadWriteIdx(c)
  <2> USE <1>1 DEF LoadWriteIdx, bufferVars, producerVars
  <2>1. CallInProgress' = CallInProgress
    BY DEF CallInProgress, Granted
  <2>2. HandedOver' = HandedOver
    BY DEF HandedOver, Granted
  <2> QED BY <1>0, <2>1, <2>2
<1>2. CASE LoadIsClosed(c)
  <2> USE <1>2 DEF LoadIsClosed, bufferVars, producerVars
  <2>1. CallInProgress' = [CallInProgress EXCEPT ![c] = "none"]
    BY DEF CallInProgress
  <2>2. HandedOver' = HandedOver
    BY DEF HandedOver, PopInProgress
  <2>3. Stream!Fail(c)
    BY <1>0, <2>1, <2>2 DEF Stream!Fail
  <2> QED BY <2>3 DEF Stream!Next
<1>3. CASE CopyItem(c)
  <2> USE <1>3 DEF CopyItem, bufferVars, producerVars
  <2>1. CallInProgress' = CallInProgress
    BY DEF CallInProgress
  <2>2. HandedOver' = HandedOver
    BY DEF HandedOver
  <2> QED BY <1>0, <2>1, <2>2
<1>4. CASE AdvanceReadIdx(c)
  <2> USE <1>4 DEF AdvanceReadIdx, bufferVars, producerVars
  <2>1. CallInProgress' = [CallInProgress EXCEPT ![c] = "none"]
    BY DEF CallInProgress
  <2>2. CallInProgress[c] = IF pop_pc[c] = "copy" THEN "pop" ELSE "skip"
    BY DEF CallInProgress, PopInProgress
  <2>3. read_idx[c] + count[c] <= write_idx
    BY BoundAssumption DEF PopInProgress, CachesAreConservative
  <2>4. read_ptr[c] = IF pop_pc[c] = "copy" THEN Stream!Window(read_idx[c], count[c])
                      ELSE << >>
    <3>1. CASE pop_pc[c] = "skip"
      BY <3>1 DEF PopInProgress
    <3>2. CASE pop_pc[c] = "copy"
      <4>1. read_ptr[c] \in Seq(Nat \cup {Unwritten}) /\ Len(read_ptr[c]) = count[c]
        BY <3>2
      <4>2. read_ptr[c] = [k \in 1 .. count[c] |-> read_ptr[c][k]]
        BY <4>1
      <4>3. \A k \in 1 .. count[c] : read_ptr[c][k] = read_idx[c] + k - 1
        BY <3>2, <4>1 DEF PopsReadTheStream
      <4> HIDE <1>4 DEF IInv, TypeOK, AdvanceReadIdx
      <4>4. read_ptr[c] = Stream!Window(read_idx[c], count[c])
        BY <4>2, <4>3 DEF Stream!Window
      <4> QED BY <3>2, <4>4
    <3> QED BY <3>1, <3>2
  <2>5. HandedOver' = [HandedOver EXCEPT ![c] = read_ptr[c]]
    BY DEF HandedOver
  <2>6. Stream!Succeed(c)
    <3>1. HandedOver' = [HandedOver EXCEPT ![c] =
                            IF CallInProgress[c] = "pop"
                            THEN Stream!Window(read_idx[c], count[c]) ELSE << >>]
      BY <2>2, <2>4, <2>5
    <3>2. CallInProgress[c] # "none"
      BY <2>2
    <3> QED BY <1>0, <2>1, <2>3, <3>1, <3>2 DEF Stream!Succeed
  <2> QED BY <2>6 DEF Stream!Next
<1> QED BY <1>1, <1>2, <1>3, <1>4 DEF ConsumerStep

(* producer.h and consumer.h implement the stream of Broadcast.tla: whole  *)
(* payloads in, consecutive items out, exactly once for each consumer.     *)
THEOREM Refinement == Spec => ImplementsBroadcast
<1>1. Init => Stream!Init
  BY DEF Init, Stream!Init, CallInProgress, HandedOver, Crowded
<1>2. IInv /\ ViewsKeepUp /\ [Next]_vars => [Stream!Next]_(Stream!vars)
  <2> SUFFICES ASSUME IInv, ViewsKeepUp, [Next]_vars
               PROVE  [Stream!Next]_(Stream!vars)
    OBVIOUS
  <2>1. ASSUME NEW c \in Consumers,
               \/ \E n \in PopSizes : TryPopMany(c, n) \/ TrySkipMany(c, n)
               \/ TryPop(c)
        PROVE  Stream!Next
    BY <2>1, RequestRefines DEF TryPopMany, TrySkipMany, TryPop
  <2>2. CASE UNCHANGED vars
    BY <2>2, ConsumersUnseen
       DEF vars, bufferVars, producerVars, Crowded, Stream!vars, Stream!producerVars,
           Stream!consumerVars
  <2> QED BY <2>1, <2>2, ProducerRefines, ConsumerStepRefines DEF Next
<1> QED BY <1>1, <1>2, ViewsInvariant, PTL DEF Spec, ImplementsBroadcast, Stream!Spec

-----------------------------------------------------------------------------
(* The threads around it.                                                  *)

(* What the feed thread knows: outside a push everything next() returned   *)
(* is published; inside one, all but the frame being pushed is.            *)
FeedInProgress ==
    /\ ptr \in Nat
    /\ feed_pc \in {"poll", "push", "close", "joined"}
    /\ feed_pc # "push" => push_pc = "idle" /\ ptr = write_idx
    /\ feed_pc = "push" =>
          /\ frame \in Frames
          /\ write_idx = file.at[frame]
          /\ ptr = file.at[frame + 1]
          /\ push_pc # "idle" => items = FrameSize(frame)

(* Where a field of the worker's frame begins, and how long it is.         *)
FieldStart(c) ==
    file.at[packet[c]] + SizeWidth + (IF stage[c] = "header" THEN 0 ELSE HeaderWidth)
FieldWidth(c) == IF stage[c] = "header" THEN HeaderWidth ELSE BodySize(packet[c])

(* A worker that is about to read a packet size, or has been refused one,  *)
(* stands between two frames; one that has just read a packet size has     *)
(* read it from the place where a frame begins.                            *)
BetweenFrames(c) ==
    /\ stage[c] \in {"poll", "stopped"} =>
          pop_pc[c] = "idle" /\ read_idx[c] \in Boundaries
    /\ stage[c] = "size" /\ failure[c] # "NONE" =>
          /\ read_idx[c] \in Boundaries
          /\ pop_pc[c] # "idle" => count[c] = SizeWidth /\ ~skipping[c]
    /\ stage[c] = "size" /\ failure[c] = "NONE" =>
          /\ pop_pc[c] = "idle"
          /\ read_idx[c] - SizeWidth \in Boundaries
          /\ read_ptr[c] # << >>
          /\ read_ptr[c][1] = read_idx[c] - SizeWidth

(* A worker inside a frame has all of it in front of it: the call in       *)
(* progress gets by with what is published, or has been successful.        *)
InsideFrame(c) ==
    stage[c] \in {"header", "body", "skip"} =>
        /\ packet[c] \in Frames
        /\ file.at[packet[c] + 1] <= write_idx
        /\ pop_pc[c] # "load_closed"
        /\ pop_pc[c] # "idle" =>
              /\ failure[c] = "PENDING"
              /\ read_idx[c] = FieldStart(c)
              /\ count[c] = FieldWidth(c)
              /\ skipping[c] = (stage[c] = "skip")
        /\ pop_pc[c] = "idle" =>
              /\ failure[c] = "NONE"
              /\ read_idx[c] = FieldStart(c) + FieldWidth(c)
              /\ stage[c] = "header" =>
                    read_ptr[c] # << >> /\ read_ptr[c][1] = FieldStart(c)

WorkerInStep(c) == BetweenFrames(c) /\ InsideFrame(c)

StagesTyped ==
    /\ stage \in [Consumers -> {"poll", "size", "header", "body", "skip", "stopped"}]
    /\ packet \in [Consumers -> Frames \cup {0}]

FeedTyped == frame \in Frames \cup {0} /\ stream \in Seq(Nat)

(* The inductive invariant of the pipeline.                                *)
InStep ==
    /\ IInv
    /\ file \in Files
    /\ FeedTyped
    /\ StagesTyped
    /\ FeedInProgress
    /\ StreamIsThePrefix
    /\ \A c \in Consumers : WorkerInStep(c)

-----------------------------------------------------------------------------
(* Files.                                                                  *)

(* Frames have a place each, in ascending order, with room for a size and  *)
(* a header, and their lengths are among those the queue is used with.     *)
LEMMA FileFacts ==
    ASSUME file \in Files
    PROVE  /\ Len(file.kind) \in Nat \ {0}
           /\ Frames = 1 .. Len(file.kind)
           /\ DOMAIN file.at = 1 .. Len(file.kind) + 1
           /\ file.at[1] = 0
           /\ \A i \in DOMAIN file.at : file.at[i] \in Nat
           /\ \A i \in DOMAIN file.kind : file.kind[i] \in {"add", "order", "other"}
           /\ \A i, j \in DOMAIN file.at :
                 i < j => file.at[i] + SizeWidth + HeaderWidth < file.at[j]
           /\ \A i \in Frames :
                 i \in Int /\ i \in DOMAIN file.at /\ i + 1 \in DOMAIN file.at
<1> DEFINE n == Len(file.kind)
<1>1. /\ n > 0
      /\ file.kind \in Seq({"add", "order", "other"})
      /\ file.at \in Seq(Nat)
      /\ Len(file.at) = n + 1
      /\ file.at[1] = 0
      /\ \A i, j \in 1 .. n + 1 :
            i < j => file.at[i] + SizeWidth + HeaderWidth < file.at[j]
  BY FilesAssumption DEF IsFile
<1>2. n \in Nat \ {0} /\ DOMAIN file.kind = 1 .. n
  BY <1>1
<1>3. \A i \in DOMAIN file.kind : file.kind[i] \in {"add", "order", "other"}
  BY <1>1
<1>4. DOMAIN file.at = 1 .. n + 1 /\ \A i \in DOMAIN file.at : file.at[i] \in Nat
  BY <1>1
<1> QED BY <1>1, <1>2, <1>3, <1>4 DEF Frames

LEMMA FrameSizes ==
    ASSUME file \in Files, NEW i \in Frames
    PROVE  /\ FrameSize(i) \in PushSizes
           /\ FrameSize(i) \in Nat
           /\ BodySize(i) \in PopSizes
           /\ BodySize(i) \in Nat \ {0}
           /\ FrameSize(i) = SizeWidth + HeaderWidth + BodySize(i)
<1>1. /\ file.at[i] \in Nat /\ file.at[i + 1] \in Nat
      /\ file.at[i] + SizeWidth + HeaderWidth < file.at[i + 1]
  BY FileFacts
<1>2. FrameSize(i) \in PushSizes /\ BodySize(i) \in PopSizes
  BY CallsAssumption DEF Frames, FrameSize, BodySize
<1> QED BY <1>1, <1>2, FilesAssumption DEF FrameSize, BodySize

(* What is published beyond the beginning of a frame is the whole frame.   *)
LEMMA WholeFrames ==
    ASSUME file \in Files, NEW i \in DOMAIN file.at, NEW p \in Boundaries,
           file.at[i] < p
    PROVE  i \in Frames /\ file.at[i + 1] <= p
<1>1. PICK j \in DOMAIN file.at : p = file.at[j]
  BY DEF Boundaries
<1>2. i < j
  <2>1. ~(j < i) /\ i # j
    BY <1>1, FileFacts, FilesAssumption
  <2>2. i \in Int /\ j \in Int
    BY FileFacts
  <2> QED BY <2>1, <2>2
<1>3. i \in Frames /\ i + 1 \in DOMAIN file.at
  BY <1>2, FileFacts
<1>4. CASE i + 1 = j
  BY <1>1, <1>3, <1>4, FileFacts
<1>5. CASE i + 1 < j
  BY <1>1, <1>3, <1>5, FileFacts, FilesAssumption
<1> QED BY <1>2, <1>3, <1>4, <1>5, FileFacts

(* A byte belongs to the one frame it lies in.                             *)
LEMMA FrameOfByte ==
    ASSUME file \in Files, NEW i \in Frames, NEW offset \in Nat,
           file.at[i] <= offset, offset < file.at[i + 1]
    PROVE  FrameOf(offset) = i
<1>1. ASSUME NEW j \in Frames, file.at[j] <= offset, offset < file.at[j + 1]
      PROVE  j = i
  <2>0. i \in Int /\ j \in Int
    BY FileFacts
  <2>1. {i, i + 1, j, j + 1} \subseteq DOMAIN file.at
    BY FileFacts
  <2>2. CASE i < j
    <3>1. file.at[i + 1] <= file.at[j]
      <4>1. CASE i + 1 = j
        BY <2>1, <4>1, FileFacts
      <4>2. CASE i + 1 < j
        BY <2>1, <4>2, FileFacts, FilesAssumption
      <4>3. i + 1 = j \/ i + 1 < j
        BY <2>0, <2>2
      <4> QED BY <4>1, <4>2, <4>3
    <3> QED BY <1>1, <2>1, <3>1, FileFacts
  <2>3. CASE j < i
    <3>1. file.at[j + 1] <= file.at[i]
      <4>1. CASE j + 1 = i
        BY <2>1, <4>1, FileFacts
      <4>2. CASE j + 1 < i
        BY <2>1, <4>2, FileFacts, FilesAssumption
      <4>3. j + 1 = i \/ j + 1 < i
        BY <2>0, <2>3
      <4> QED BY <4>1, <4>2, <4>3
    <3> QED BY <1>1, <2>1, <3>1, FileFacts
  <2> QED BY <2>0, <2>2, <2>3
<1> QED BY <1>1 DEF FrameOf

-----------------------------------------------------------------------------
(* The initial state.                                                      *)

LEMMA InitInStep == PipelineInit => InStep
<1> SUFFICES ASSUME PipelineInit PROVE InStep
  OBVIOUS
<1>1. IInv /\ file \in Files
  BY InitEstablishes DEF PipelineInit
<1>2. 0 \in Boundaries
  BY <1>1, FileFacts DEF Boundaries
<1>3. FeedTyped /\ StagesTyped /\ FeedInProgress
  BY DEF PipelineInit, Init, FeedTyped, StagesTyped, FeedInProgress
<1>4. StreamIsThePrefix
  BY <1>2 DEF PipelineInit, Init, StreamIsThePrefix
<1>5. ASSUME NEW c \in Consumers PROVE WorkerInStep(c)
  BY <1>2 DEF PipelineInit, Init, WorkerInStep, BetweenFrames, InsideFrame
<1> QED BY <1>1, <1>3, <1>4, <1>5 DEF InStep

-----------------------------------------------------------------------------
(* The feed thread.                                                        *)

(* What a step of the feed thread does, in terms of the queue, the stream  *)
(* and the feed, and what it leaves to the workers.                        *)
FeedStepDone ==
    /\ [Next]_vars
    /\ FeedTyped'
    /\ FeedInProgress'
    /\ StreamIsThePrefix'
    /\ write_idx <= write_idx'
    /\ UNCHANGED <<consumerVars, file, workerVars>>

LEMMA NextFrameDone ==
    ASSUME InStep, NextFrame
    PROVE  FeedStepDone
<1>1. PICK i \in Frames : /\ ptr = file.at[i]
                          /\ ptr' = file.at[i + 1]
                          /\ frame' = i
                          /\ TryPushMany(FrameSize(i))
  BY DEF NextFrame
<1>2. /\ FrameSize(i) \in PushSizes
      /\ file.at[i + 1] \in Nat
  BY FrameSizes, FileFacts DEF InStep
<1>3. [Next]_vars
  BY <1>1, <1>2 DEF Next
<1>4. /\ UNCHANGED <<bufferVars, consumerVars, file, stream, workerVars>>
      /\ feed_pc = "poll" /\ feed_pc' = "push"
      /\ push_pc' # "idle" => items' = FrameSize(i)
  BY <1>1 DEF NextFrame, TryPushMany, InStep, FeedInProgress
<1>5. FeedInProgress' /\ FeedTyped'
  BY <1>1, <1>2, <1>4 DEF InStep, FeedInProgress, FeedTyped, bufferVars, Frames, FrameSize
<1>6. StreamIsThePrefix' /\ write_idx <= write_idx'
  BY <1>4 DEF InStep, IInv, TypeOK, StreamIsThePrefix, bufferVars, Boundaries
<1> QED BY <1>3, <1>4, <1>5, <1>6 DEF FeedStepDone

LEMMA RetryFrameDone ==
    ASSUME InStep, RetryFrame
    PROVE  FeedStepDone
<1>1. /\ frame \in Frames
      /\ TryPushMany(FrameSize(frame))
      /\ FrameSize(frame) \in PushSizes
  BY FrameSizes DEF RetryFrame, InStep, FeedInProgress
<1>2. [Next]_vars
  BY <1>1 DEF Next
<1>3. /\ UNCHANGED <<bufferVars, consumerVars, file, feedVars, workerVars>>
      /\ feed_pc = "push"
      /\ push_pc' # "idle" => items' = FrameSize(frame)
  BY <1>1 DEF RetryFrame, TryPushMany
<1>4. FeedInProgress' /\ FeedTyped'
  BY <1>3 DEF InStep, FeedInProgress, FeedTyped, bufferVars, feedVars, Frames, FrameSize
<1>5. StreamIsThePrefix' /\ write_idx <= write_idx'
  BY <1>3 DEF InStep, IInv, TypeOK, StreamIsThePrefix, bufferVars, feedVars, Boundaries
<1> QED BY <1>2, <1>3, <1>4, <1>5 DEF FeedStepDone

LEMMA PushStepDone ==
    ASSUME InStep, PushStep
    PROVE  FeedStepDone
<1>1. [Next]_vars
  BY DEF PushStep, Next, ProducerStep
<1>2. /\ UNCHANGED <<write_idx, consumerVars, file, feedVars, workerVars>>
      /\ push_pc # "idle"
      /\ push_pc' # "idle" => items' = items
  BY DEF PushStep, LoadReadIdx, RefreshReadIdx, StoreItem, bufferVars
<1>3. FeedInProgress' /\ FeedTyped'
  BY <1>2 DEF InStep, FeedInProgress, FeedTyped, feedVars, Frames, FrameSize
<1>4. StreamIsThePrefix' /\ write_idx <= write_idx'
  BY <1>2 DEF InStep, IInv, TypeOK, StreamIsThePrefix, feedVars, Boundaries
<1> QED BY <1>1, <1>2, <1>3, <1>4 DEF FeedStepDone

LEMMA PublishFrameDone ==
    ASSUME InStep, PublishFrame
    PROVE  FeedStepDone
<1>1. [Next]_vars
  BY DEF PublishFrame, Next, ProducerStep
<1>2. /\ feed_pc = "push"
      /\ frame \in Frames
      /\ write_idx = file.at[frame]
      /\ ptr = file.at[frame + 1]
      /\ items = FrameSize(frame)
  BY DEF PublishFrame, PublishItems, InStep, FeedInProgress
<1>3. /\ frame + 1 \in DOMAIN file.at
      /\ items \in Nat
      /\ file.at[frame] \in Nat /\ file.at[frame + 1] \in Nat
      /\ file.at[frame + 1] = write_idx + items
  BY <1>2, FileFacts, FrameSizes DEF InStep, FrameSize
<1>4. /\ write_idx \in Nat
      /\ write_idx + items <= MaxItems
  BY <1>2 DEF PublishFrame, PublishItems, InStep, IInv, TypeOK, PushInProgress
<1>5. write_idx' = write_idx + items
  BY <1>3, <1>4, PublishAdvances DEF PublishFrame, PublishItems
<1>6. /\ UNCHANGED <<consumerVars, file, ptr, frame, workerVars>>
      /\ feed_pc' = "poll"
      /\ push_pc' = "idle"
      /\ stream' = stream \o [k \in 1 .. items |-> file.at[frame] + k - 1]
  BY DEF PublishFrame, PublishItems
<1>7. FeedInProgress'
  BY <1>2, <1>3, <1>5, <1>6 DEF InStep, FeedInProgress
<1>8. /\ Len(stream') = write_idx'
      /\ stream' \in Seq(Nat)
      /\ \A k \in 1 .. Len(stream') : stream'[k] = k - 1
  <2> DEFINE bytes == [k \in 1 .. items |-> file.at[frame] + k - 1]
  <2>1. /\ stream \in Seq(Nat)
        /\ Len(stream) = write_idx
        /\ \A k \in 1 .. Len(stream) : stream[k] = k - 1
    BY DEF InStep, FeedTyped, StreamIsThePrefix
  <2>2. bytes \in Seq(Nat) /\ Len(bytes) = items
    <3>1. \A k \in 1 .. items : file.at[frame] + k - 1 \in Nat
      BY <1>3
    <3> QED BY <1>3, <3>1
  <2>3. \A k \in 1 .. items : bytes[k] = write_idx + k - 1
    BY <1>2
  <2> HIDE DEF bytes
  <2>4. stream' = stream \o bytes
    BY <1>6 DEF bytes
  <2>5. stream' \in Seq(Nat) /\ Len(stream') = write_idx + items
    <3>1. stream \o bytes \in Seq(Nat)
      BY <2>1, <2>2, ConcatProperties
    <3>2. Len(stream \o bytes) = Len(stream) + Len(bytes)
      BY <2>1, <2>2, ConcatProperties
    <3> QED BY <3>1, <3>2, <2>1, <2>2, <2>4
  <2>6. ASSUME NEW k \in 1 .. write_idx + items PROVE stream'[k] = k - 1
    <3>1. CASE k <= write_idx
      BY <2>1, <2>2, <2>4, <1>3, <1>4, <3>1
    <3>2. CASE k > write_idx
      <4>1. stream'[k] = bytes[k - write_idx]
        BY <2>1, <2>2, <2>4, <1>3, <1>4, <3>2
      <4>2. k - write_idx \in 1 .. items
        BY <1>3, <1>4, <3>2
      <4> QED BY <2>3, <4>1, <4>2, <1>4
    <3> QED BY <3>1, <3>2, <1>4
  <2> QED BY <2>5, <2>6, <1>5
<1>9. StreamIsThePrefix' /\ FeedTyped'
  <2>1. write_idx' \in Boundaries'
    BY <1>3, <1>5, <1>6 DEF Boundaries
  <2> QED BY <1>6, <1>8, <2>1 DEF StreamIsThePrefix, FeedTyped, InStep, Frames
<1> QED BY <1>1, <1>3, <1>4, <1>5, <1>6, <1>7, <1>9 DEF FeedStepDone

LEMMA FeedStepIsDone ==
    ASSUME InStep, FeedStep
    PROVE  FeedStepDone
<1>1. ASSUME InvalidFormat \/ StreamClosed
      PROVE  FeedStepDone
  <2>1. UNCHANGED <<vars, file, ptr, frame, stream, workerVars>>
    BY <1>1 DEF InvalidFormat, StreamClosed, pipelineVars, feedVars
  <2>2. feed_pc = "poll" /\ feed_pc' \in {"poll", "close"}
    BY <1>1 DEF InvalidFormat, StreamClosed, pipelineVars, feedVars
  <2>3. UNCHANGED <<write_idx, push_pc, consumerVars>>
    BY <2>1 DEF vars, bufferVars, producerVars
  <2>4. FeedInProgress' /\ FeedTyped' /\ StreamIsThePrefix' /\ write_idx <= write_idx'
    BY <2>1, <2>2, <2>3 DEF InStep, IInv, TypeOK, FeedInProgress, FeedTyped,
       StreamIsThePrefix, Frames, Boundaries
  <2> QED BY <2>1, <2>3, <2>4 DEF FeedStepDone
<1>2. ASSUME DestroyFeedHandler
      PROVE  FeedStepDone
  <2>1. [Next]_vars
    BY <1>2 DEF DestroyFeedHandler, Next
  <2>2. /\ UNCHANGED <<write_idx, push_pc, consumerVars, file, ptr, frame, stream, workerVars>>
        /\ feed_pc = "close" /\ feed_pc' = "joined"
    BY <1>2 DEF DestroyFeedHandler, Close, producerVars
  <2>3. FeedInProgress' /\ FeedTyped' /\ StreamIsThePrefix' /\ write_idx <= write_idx'
    BY <2>2 DEF InStep, IInv, TypeOK, FeedInProgress, FeedTyped,
       StreamIsThePrefix, Frames, Boundaries
  <2> QED BY <2>1, <2>2, <2>3 DEF FeedStepDone
<1> QED BY <1>1, <1>2, NextFrameDone, RetryFrameDone, PushStepDone, PublishFrameDone
        DEF FeedStep

-----------------------------------------------------------------------------
(* The workers.                                                            *)

(* Nothing that belongs to worker d changes.                               *)
Untouched(d) ==
    /\ stage'[d] = stage[d] /\ packet'[d] = packet[d]
    /\ read_idx'[d] = read_idx[d] /\ pop_pc'[d] = pop_pc[d]
    /\ count'[d] = count[d] /\ skipping'[d] = skipping[d]
    /\ read_ptr'[d] = read_ptr[d] /\ failure'[d] = failure[d]

(* Progress of the others leaves a worker in step with its frame.          *)
LEMMA UntouchedStaysInStep ==
    ASSUME InStep, NEW d \in Consumers, Untouched(d), file' = file,
           write_idx' \in Nat, write_idx <= write_idx'
    PROVE  WorkerInStep(d)'
<1>1. /\ Boundaries' = Boundaries /\ Frames' = Frames
      /\ FieldStart(d)' = FieldStart(d) /\ FieldWidth(d)' = FieldWidth(d)
  BY DEF Boundaries, Frames, FieldStart, FieldWidth, BodySize, FrameSize, Untouched
<1>2. BetweenFrames(d)'
  BY <1>1 DEF InStep, WorkerInStep, BetweenFrames, Untouched
<1>3. InsideFrame(d)'
  <2>1. write_idx \in Nat
    BY DEF InStep, IInv, TypeOK
  <2>2. packet[d] \in Frames => file.at[packet[d] + 1] \in Nat
    BY FileFacts DEF InStep
  <2> QED BY <1>1, <2>1, <2>2 DEF InStep, WorkerInStep, InsideFrame, Untouched
<1> QED BY <1>2, <1>3 DEF WorkerInStep

(* What a step of worker c does.                                           *)
WorkerStepDone(c) ==
    /\ [Next]_vars
    /\ UNCHANGED <<bufferVars, producerVars, file, feedVars>>
    /\ StagesTyped'
    /\ WorkerInStep(c)'
    /\ \A d \in Consumers \ {c} : Untouched(d)

(* A field ends within its frame.                                          *)
LEMMA FieldsFacts ==
    ASSUME file \in Files, NEW c \in Consumers, packet[c] \in Frames
    PROVE  /\ FieldStart(c) \in Nat
           /\ FieldWidth(c) \in Nat \ {0}
           /\ FieldStart(c) + FieldWidth(c) <= file.at[packet[c] + 1]
<1>1. /\ file.at[packet[c]] \in Nat
      /\ file.at[packet[c] + 1] \in Nat
      /\ BodySize(packet[c]) \in Nat \ {0}
      /\ FrameSize(packet[c]) = SizeWidth + HeaderWidth + BodySize(packet[c])
      /\ FrameSize(packet[c]) = file.at[packet[c] + 1] - file.at[packet[c]]
  BY FileFacts, FrameSizes DEF FrameSize
<1> HIDE DEF BodySize, FrameSize
<1> QED BY <1>1, FilesAssumption DEF FieldStart, FieldWidth

(* A byte popped from inside a published frame i names frame i.            *)
LEMMA FrameReadIs ==
    ASSUME InStep, NEW c \in Consumers, NEW i \in Frames, NEW offset \in Nat,
           read_ptr[c][1] = offset,
           file.at[i] <= offset, offset < file.at[i + 1],
           file.at[i + 1] <= write_idx
    PROVE  FrameRead(c) = i
<1>1. file.at[i + 1] \in Nat /\ write_idx \in Nat /\ file \in Files
  BY FileFacts DEF InStep, IInv, TypeOK
<1>2. offset + 1 \in 1 .. Len(stream)
  BY <1>1 DEF InStep, StreamIsThePrefix
<1>3. stream[offset + 1] = offset
  BY <1>2 DEF InStep, StreamIsThePrefix
<1> QED BY <1>1, <1>3, FrameOfByte DEF FrameRead

(* What beginning a call does.                                             *)
LEMMA RequestEffect ==
    ASSUME TypeOK, NEW c \in Consumers, NEW n \in Nat, NEW skip \in BOOLEAN,
           Request(c, n, skip)
    PROVE  /\ pop_pc[c] = "idle"
           /\ pop_pc'[c] \in {"copy", "skip", "load_write"}
           /\ count'[c] = n /\ skipping'[c] = skip
           /\ read_ptr'[c] = << >> /\ failure'[c] = "PENDING"
           /\ read_idx' = read_idx
           /\ UNCHANGED <<bufferVars, producerVars>>
           /\ \A d \in Consumers \ {c} :
                 /\ pop_pc'[d] = pop_pc[d] /\ count'[d] = count[d]
                 /\ skipping'[d] = skipping[d] /\ read_ptr'[d] = read_ptr[d]
                 /\ failure'[d] = failure[d]
BY DEF Request, TypeOK, Granted

LEMMA ProceedEffect ==
    ASSUME StagesTyped, NEW c \in Consumers, NEW s0, NEW s, Proceed(c, s0, s)
    PROVE  /\ stage[c] = s0 /\ stage'[c] = s
           /\ \A d \in Consumers \ {c} : stage'[d] = stage[d]
BY DEF Proceed, StagesTyped

LEMMA PollDoes ==
    ASSUME InStep, NEW c \in Consumers, Poll(c)
    PROVE  WorkerStepDone(c)
<1>1. SizeWidth \in Nat /\ SizeWidth \in PopSizes
  BY FilesAssumption, CallsAssumption
<1>2. Request(c, SizeWidth, FALSE) /\ Proceed(c, "poll", "size")
      /\ UNCHANGED <<file, feedVars, packet>>
  BY DEF Poll, TryPopMany
<1>3. [Next]_vars
  BY <1>1 DEF Poll, Next
<1>4. /\ TypeOK /\ StagesTyped
      /\ read_idx[c] \in Boundaries
      /\ stage[c] = "poll" /\ stage'[c] = "size"
  BY <1>2, ProceedEffect DEF InStep, IInv, WorkerInStep, BetweenFrames
<1>5. WorkerInStep(c)'
  <2>1. /\ failure'[c] = "PENDING" /\ count'[c] = SizeWidth /\ skipping'[c] = FALSE
        /\ read_idx' = read_idx
    BY <1>1, <1>2, <1>4, RequestEffect
  <2>2. read_idx'[c] \in Boundaries'
    BY <1>2, <1>4, <2>1 DEF Boundaries
  <2> QED BY <1>4, <2>1, <2>2 DEF WorkerInStep, BetweenFrames, InsideFrame
<1>6. \A d \in Consumers \ {c} : Untouched(d)
  BY <1>1, <1>2, <1>4, RequestEffect, ProceedEffect DEF Untouched
<1>7. StagesTyped'
  BY <1>2, <1>4 DEF StagesTyped, Proceed, Frames
<1> QED BY <1>1, <1>2, <1>3, <1>4, <1>5, <1>6, <1>7, RequestEffect DEF WorkerStepDone

(* poll returns: the worker stands between two frames again.               *)
LEMMA PollEndsDo ==
    ASSUME InStep, NEW c \in Consumers, PollAgain(c) \/ Stop(c) \/ PollDone(c)
    PROVE  WorkerStepDone(c)
<1>1. /\ UNCHANGED <<vars, file, feedVars, packet>>
      /\ pop_pc[c] = "idle"
  BY DEF PollAgain, Stop, PollDone, Returned
<1>2. /\ UNCHANGED <<bufferVars, producerVars, consumerVars>>
      /\ UNCHANGED <<read_idx, pop_pc, count, skipping, read_ptr, failure>>
  BY <1>1 DEF vars, consumerVars
<1>3. PICK s \in {"poll", "stopped"} :
         /\ stage' = [stage EXCEPT ![c] = s]
         /\ \/ stage[c] = "size" /\ failure[c] # "NONE"
            \/ stage[c] \in {"body", "skip"}
  BY DEF PollAgain, Stop, PollDone, Proceed
<1>4. StagesTyped /\ file \in Files
  BY DEF InStep
<1>5. stage'[c] = s /\ \A d \in Consumers \ {c} : stage'[d] = stage[d]
  BY <1>3, <1>4 DEF StagesTyped
<1>6. read_idx[c] \in Boundaries
  <2>1. CASE stage[c] = "size" /\ failure[c] # "NONE"
    BY <2>1 DEF InStep, WorkerInStep, BetweenFrames
  <2>2. CASE stage[c] \in {"body", "skip"}
    <3>1. /\ packet[c] \in Frames
          /\ read_idx[c] = FieldStart(c) + FieldWidth(c)
      BY <1>1, <2>2 DEF InStep, WorkerInStep, InsideFrame
    <3>2. /\ FieldStart(c) = file.at[packet[c]] + SizeWidth + HeaderWidth
          /\ FieldWidth(c) = BodySize(packet[c])
      BY <2>2 DEF FieldStart, FieldWidth
    <3>3. /\ file.at[packet[c]] \in Nat /\ file.at[packet[c] + 1] \in Nat
          /\ packet[c] + 1 \in DOMAIN file.at
      BY <1>4, <3>1, FileFacts
    <3>4. read_idx[c] = file.at[packet[c] + 1]
      BY <3>1, <3>2, <3>3, FilesAssumption DEF BodySize, FrameSize
    <3> QED BY <3>3, <3>4 DEF Boundaries
  <2> QED BY <1>3, <2>1, <2>2
<1>7. WorkerInStep(c)'
  BY <1>1, <1>2, <1>3, <1>5, <1>6 DEF WorkerInStep, BetweenFrames, InsideFrame, Boundaries
<1>8. \A d \in Consumers \ {c} : Untouched(d)
  BY <1>1, <1>2, <1>5 DEF Untouched
<1>9. StagesTyped'
  BY <1>1, <1>3, <1>4 DEF StagesTyped, Frames
<1> QED BY <1>1, <1>2, <1>7, <1>8, <1>9 DEF WorkerStepDone

(* A worker that has read a packet size reads the header of that frame,    *)
(* all of which is published, because part of it is.                       *)
LEMMA ReadHeaderDoes ==
    ASSUME InStep, NEW c \in Consumers, ReadHeader(c)
    PROVE  WorkerStepDone(c)
<1>1. HeaderWidth \in Nat \ {0} /\ HeaderWidth \in PopSizes /\ SizeWidth \in Nat \ {0}
  BY FilesAssumption, CallsAssumption
<1>2. /\ Request(c, HeaderWidth, FALSE) /\ Proceed(c, "size", "header")
      /\ failure[c] = "NONE"
      /\ packet' = [packet EXCEPT ![c] = FrameRead(c)]
      /\ UNCHANGED <<file, feedVars>>
  BY DEF ReadHeader, TryPopMany
<1>3. [Next]_vars
  BY <1>1 DEF ReadHeader, Next
<1>4. /\ TypeOK /\ StagesTyped /\ file \in Files
      /\ stage[c] = "size" /\ stage'[c] = "header"
  BY <1>2, ProceedEffect DEF InStep, IInv
<1>5. PICK i \in DOMAIN file.at : read_idx[c] - SizeWidth = file.at[i]
  BY <1>2, <1>4 DEF InStep, WorkerInStep, BetweenFrames, Boundaries
<1>6. read_ptr[c][1] = file.at[i]
  BY <1>2, <1>4, <1>5 DEF InStep, WorkerInStep, BetweenFrames
<1>7. /\ i \in Frames
      /\ file.at[i + 1] <= write_idx
      /\ file.at[i] < file.at[i + 1]
      /\ file.at[i] \in Nat
  <2>1. file.at[i] \in Nat /\ read_idx[c] \in Nat /\ write_idx \in Nat
    BY <1>4, FileFacts DEF TypeOK
  <2>2. read_idx[c] <= write_idx
    <3>1. cached_write_idx[c] \in Nat
      BY <1>4 DEF TypeOK
    <3> QED BY <2>1, <3>1 DEF InStep, IInv, CachesAreConservative
  <2>3. file.at[i] < write_idx
    BY <1>1, <1>5, <2>1, <2>2
  <2>4. i \in Frames /\ file.at[i + 1] <= write_idx
    BY <1>4, <2>3, WholeFrames DEF InStep, StreamIsThePrefix
  <2>5. /\ i \in Int /\ i + 1 \in DOMAIN file.at
        /\ file.at[i + 1] \in Nat
    BY <1>4, <2>4, FileFacts
  <2>6. file.at[i] + SizeWidth + HeaderWidth < file.at[i + 1]
    BY <1>4, <2>5, FileFacts
  <2> QED BY <1>1, <2>1, <2>4, <2>5, <2>6
<1>8. FrameRead(c) = i
  BY <1>6, <1>7, FrameReadIs
<1>9. packet'[c] = i /\ \A d \in Consumers \ {c} : packet'[d] = packet[d]
  BY <1>2, <1>4, <1>8 DEF StagesTyped
<1>10. /\ pop_pc'[c] \in {"copy", "skip", "load_write"}
       /\ failure'[c] = "PENDING" /\ count'[c] = HeaderWidth /\ skipping'[c] = FALSE
       /\ read_idx' = read_idx
       /\ UNCHANGED <<bufferVars, producerVars>>
  BY <1>1, <1>2, <1>4, RequestEffect
<1>11. WorkerInStep(c)'
  <2>1. read_idx[c] = file.at[i] + SizeWidth
    BY <1>1, <1>4, <1>5, <1>7 DEF TypeOK
  <2>2. /\ FieldStart(c)' = file.at[i] + SizeWidth
        /\ FieldWidth(c)' = HeaderWidth
    BY <1>2, <1>4, <1>7, <1>9, <1>1 DEF FieldStart, FieldWidth
  <2>3. write_idx' = write_idx
    BY <1>10 DEF bufferVars
  <2>4. InsideFrame(c)'
    BY <1>2, <1>4, <1>7, <1>9, <1>10, <2>1, <2>2, <2>3 DEF InsideFrame, Frames
  <2> QED BY <1>4, <2>4 DEF WorkerInStep, BetweenFrames
<1>12. \A d \in Consumers \ {c} : Untouched(d)
  BY <1>1, <1>2, <1>4, <1>9, RequestEffect, ProceedEffect DEF Untouched
<1>13. StagesTyped'
  BY <1>2, <1>4, <1>7, <1>8 DEF StagesTyped, Proceed, Frames
<1> QED BY <1>2, <1>3, <1>10, <1>11, <1>12, <1>13 DEF WorkerStepDone

(* What a worker knows when the call that read its header has returned.    *)
LEMMA HeaderRead ==
    ASSUME InStep, NEW c \in Consumers, stage[c] = "header", pop_pc[c] = "idle"
    PROVE  /\ packet[c] \in Frames
           /\ FrameRead(c) = packet[c]
           /\ read_idx[c] = file.at[packet[c]] + SizeWidth + HeaderWidth
           /\ file.at[packet[c] + 1] <= write_idx
           /\ BodySize(packet[c]) \in Nat \ {0}
           /\ BodySize(packet[c]) \in PopSizes
<1>1. /\ packet[c] \in Frames
      /\ file.at[packet[c] + 1] <= write_idx
      /\ read_idx[c] = FieldStart(c) + FieldWidth(c)
      /\ read_ptr[c][1] = FieldStart(c)
  BY DEF InStep, WorkerInStep, InsideFrame
<1>2. /\ file \in Files
      /\ file.at[packet[c]] \in Nat /\ file.at[packet[c] + 1] \in Nat
  BY <1>1, FileFacts DEF InStep
<1>3. /\ FieldStart(c) = file.at[packet[c]] + SizeWidth
      /\ FieldWidth(c) = HeaderWidth
  BY <1>2, FilesAssumption DEF FieldStart, FieldWidth
<1>4. /\ FieldStart(c) \in Nat
      /\ file.at[packet[c]] <= FieldStart(c)
      /\ FieldStart(c) < file.at[packet[c] + 1]
  BY <1>1, <1>2, <1>3, FieldsFacts, FilesAssumption
<1>5. FrameRead(c) = packet[c]
  BY <1>1, <1>4, FrameReadIs
<1> QED BY <1>1, <1>2, <1>3, <1>5, FrameSizes

(* Reading or skipping the body begins right behind the header.            *)
LEMMA BodyDoes ==
    ASSUME InStep, NEW c \in Consumers, ReadBody(c) \/ SkipBody(c)
    PROVE  WorkerStepDone(c)
<1>1. PICK s \in {"body", "skip"} :
         /\ Proceed(c, "header", s)
         /\ Request(c, BodySize(IF s = "body" THEN FrameRead(c) ELSE packet[c]), s = "skip")
         /\ pop_pc[c] = "idle"
         /\ UNCHANGED <<file, feedVars, packet>>
  BY DEF ReadBody, SkipBody, TryPopMany, TrySkipMany, Returned
<1>2. /\ TypeOK /\ StagesTyped /\ file \in Files
      /\ stage[c] = "header" /\ stage'[c] = s
  BY <1>1, ProceedEffect DEF InStep, IInv
<1> DEFINE p == packet[c]
<1>3. /\ p \in Frames /\ FrameRead(c) = p
      /\ read_idx[c] = file.at[p] + SizeWidth + HeaderWidth
      /\ file.at[p + 1] <= write_idx
      /\ BodySize(p) \in Nat \ {0} /\ BodySize(p) \in PopSizes
  BY <1>1, <1>2, HeaderRead
<1>4. Request(c, BodySize(p), s = "skip")
  BY <1>1, <1>3
<1>5. [Next]_vars
  BY <1>3, <1>4 DEF Next, TryPopMany, TrySkipMany
<1>6. /\ pop_pc'[c] \in {"copy", "skip", "load_write"}
      /\ failure'[c] = "PENDING" /\ count'[c] = BodySize(p)
      /\ skipping'[c] = (s = "skip")
      /\ read_idx' = read_idx
      /\ UNCHANGED <<bufferVars, producerVars>>
      /\ \A d \in Consumers \ {c} :
            /\ pop_pc'[d] = pop_pc[d] /\ count'[d] = count[d]
            /\ skipping'[d] = skipping[d] /\ read_ptr'[d] = read_ptr[d]
            /\ failure'[d] = failure[d]
  BY <1>2, <1>3, <1>4, RequestEffect
<1>7. WorkerInStep(c)'
  <2>1. /\ FieldStart(c)' = file.at[p] + SizeWidth + HeaderWidth
        /\ FieldWidth(c)' = BodySize(p)
    BY <1>1, <1>2 DEF FieldStart, FieldWidth, BodySize, FrameSize
  <2>2. write_idx' = write_idx
    BY <1>6 DEF bufferVars
  <2>3. InsideFrame(c)'
    BY <1>1, <1>2, <1>3, <1>6, <2>1, <2>2 DEF InsideFrame, Frames
  <2> QED BY <1>2, <2>3 DEF WorkerInStep, BetweenFrames
<1>8. \A d \in Consumers \ {c} : Untouched(d)
  BY <1>1, <1>2, <1>6, ProceedEffect DEF Untouched
<1>9. StagesTyped'
  BY <1>1, <1>2 DEF StagesTyped, Proceed, Frames
<1> QED BY <1>1, <1>5, <1>6, <1>7, <1>8, <1>9 DEF WorkerStepDone

(* The steps of a call in progress.                                        *)
LEMMA PopStepDoes ==
    ASSUME InStep, NEW c \in Consumers, PopStep(c)
    PROVE  WorkerStepDone(c)
<1>1. /\ ConsumerStep(c)
      /\ UNCHANGED <<file, feedVars, stage, packet>>
      /\ stage'[c] = stage[c] /\ packet'[c] = packet[c]
  BY DEF PopStep, workerVars
<1>2. [Next]_vars
  BY <1>1 DEF Next
<1>3. /\ TypeOK /\ PopInProgress /\ PopsReadTheStream
      /\ StagesTyped /\ file \in Files /\ WorkerInStep(c)
  BY DEF InStep, IInv
<1>4. /\ UNCHANGED <<bufferVars, producerVars>>
      /\ pop_pc[c] # "idle"
  BY <1>1 DEF ConsumerStep, LoadWriteIdx, LoadIsClosed, CopyItem, AdvanceReadIdx
<1>5. \A d \in Consumers \ {c} : Untouched(d)
  BY <1>1, <1>3 DEF ConsumerStep, LoadWriteIdx, LoadIsClosed, CopyItem,
     AdvanceReadIdx, TypeOK, Untouched
<1>6. /\ Boundaries' = Boundaries /\ Frames' = Frames
      /\ FieldStart(c)' = FieldStart(c) /\ FieldWidth(c)' = FieldWidth(c)
      /\ write_idx' = write_idx
  BY <1>1, <1>4 DEF Boundaries, Frames, FieldStart, FieldWidth, BodySize,
     FrameSize, bufferVars
<1>7. stage[c] \notin {"poll", "stopped"}
  BY <1>3, <1>4 DEF WorkerInStep, BetweenFrames
<1>8. /\ read_idx[c] \in Nat /\ write_idx \in Nat /\ count[c] \in Nat
  BY <1>3 DEF TypeOK
<1>9. stage[c] = "size" =>
         /\ failure[c] # "NONE" /\ read_idx[c] \in Boundaries
         /\ count[c] = SizeWidth /\ ~skipping[c]
  BY <1>3, <1>4 DEF WorkerInStep, BetweenFrames
<1>10. stage[c] \in {"header", "body", "skip"} =>
         /\ packet[c] \in Frames /\ file.at[packet[c] + 1] <= write_idx
         /\ pop_pc[c] # "load_closed" /\ failure[c] = "PENDING"
         /\ read_idx[c] = FieldStart(c) /\ count[c] = FieldWidth(c)
         /\ skipping[c] = (stage[c] = "skip")
  BY <1>3, <1>4 DEF WorkerInStep, InsideFrame
<1>11. WorkerInStep(c)'
  <2>1. CASE LoadWriteIdx(c)
    <3>1. /\ UNCHANGED <<read_idx, count, skipping, read_ptr, failure>>
          /\ pop_pc'[c] \in {"copy", "skip", "load_closed"}
          /\ Available(c, count[c], write_idx) => pop_pc'[c] # "load_closed"
      BY <1>3, <2>1 DEF LoadWriteIdx, TypeOK, Granted
    <3>2. stage[c] \in {"header", "body", "skip"} => Available(c, count[c], write_idx)
      <4> SUFFICES ASSUME stage[c] \in {"header", "body", "skip"}
                   PROVE  Available(c, count[c], write_idx)
        OBVIOUS
      <4>1. /\ FieldStart(c) \in Nat /\ FieldWidth(c) \in Nat
            /\ FieldStart(c) + FieldWidth(c) <= file.at[packet[c] + 1]
            /\ file.at[packet[c] + 1] \in Nat
        BY <1>3, <1>10, FieldsFacts, FileFacts
      <4>2. read_idx[c] + count[c] <= write_idx
        BY <1>8, <1>10, <4>1
      <4> QED BY <1>8, <4>2 DEF Available, Sub
    <3>3. BetweenFrames(c)'
      BY <1>1, <1>6, <1>7, <1>9, <3>1 DEF BetweenFrames
    <3>4. InsideFrame(c)'
      BY <1>1, <1>6, <1>10, <3>1, <3>2 DEF InsideFrame
    <3> QED BY <3>3, <3>4 DEF WorkerInStep
  <2>2. CASE LoadIsClosed(c)
    <3>1. stage[c] = "size"
      BY <1>3, <1>7, <1>10, <2>2 DEF LoadIsClosed, StagesTyped
    <3>2. /\ failure'[c] # "NONE" /\ pop_pc'[c] = "idle"
          /\ read_idx' = read_idx
      BY <1>3, <2>2 DEF LoadIsClosed, TypeOK
    <3> QED BY <1>1, <1>6, <1>9, <3>1, <3>2 DEF WorkerInStep, BetweenFrames, InsideFrame
  <2>3. CASE CopyItem(c)
    <3>1. /\ UNCHANGED <<read_idx, pop_pc, count, skipping, failure>>
          /\ pop_pc[c] = "copy"
      BY <2>3 DEF CopyItem
    <3>2. BetweenFrames(c)'
      BY <1>1, <1>6, <1>7, <1>9, <3>1 DEF BetweenFrames
    <3>3. InsideFrame(c)'
      BY <1>1, <1>6, <1>10, <3>1 DEF InsideFrame
    <3> QED BY <3>2, <3>3 DEF WorkerInStep
  <2>4. CASE AdvanceReadIdx(c)
    <3>1. /\ read_idx'[c] = read_idx[c] + count[c]
          /\ failure'[c] = "NONE" /\ pop_pc'[c] = "idle"
          /\ read_ptr' = read_ptr
      BY <1>3, <2>4 DEF AdvanceReadIdx, TypeOK
    <3>2. ASSUME ~skipping[c], count[c] > 0
          PROVE  read_ptr[c] # << >> /\ read_ptr[c][1] = read_idx[c]
      <4>1. pop_pc[c] = "copy" /\ Len(read_ptr[c]) = count[c]
        BY <1>3, <2>4, <3>2 DEF AdvanceReadIdx, PopInProgress
      <4>2. 1 \in 1 .. Len(read_ptr[c])
        BY <1>8, <3>2, <4>1
      <4>3. read_ptr[c][1] = read_idx[c] + 1 - 1
        BY <1>3, <4>1, <4>2 DEF PopsReadTheStream
      <4>4. read_ptr[c] # << >>
        BY <1>8, <3>2, <4>1
      <4> QED BY <1>8, <4>3, <4>4
    <3>3. BetweenFrames(c)'
      <4>1. stage[c] = "size" =>
              /\ read_idx'[c] - SizeWidth = read_idx[c]
              /\ read_ptr[c] # << >> /\ read_ptr[c][1] = read_idx[c]
        BY <1>8, <1>9, <3>1, <3>2, FilesAssumption
      <4> QED BY <1>1, <1>6, <1>7, <1>9, <3>1, <4>1 DEF BetweenFrames
    <3>4. InsideFrame(c)'
      <4>1. stage[c] = "header" =>
              read_ptr[c] # << >> /\ read_ptr[c][1] = FieldStart(c)
        <5> SUFFICES ASSUME stage[c] = "header"
                     PROVE  read_ptr[c] # << >> /\ read_ptr[c][1] = FieldStart(c)
          OBVIOUS
        <5>1. ~skipping[c] /\ read_idx[c] = FieldStart(c)
          BY <1>10
        <5>2. count[c] = HeaderWidth
          BY <1>10 DEF FieldWidth
        <5>3. count[c] > 0
          BY <5>2, FilesAssumption
        <5> QED BY <3>2, <5>1, <5>3
      <4> QED BY <1>1, <1>6, <1>10, <3>1, <4>1 DEF InsideFrame
    <3> QED BY <3>3, <3>4 DEF WorkerInStep
  <2> QED BY <1>1, <2>1, <2>2, <2>3, <2>4 DEF ConsumerStep
<1>12. StagesTyped'
  BY <1>1, <1>3, <1>6 DEF StagesTyped
<1> QED BY <1>1, <1>2, <1>4, <1>5, <1>11, <1>12 DEF WorkerStepDone

LEMMA WorkerStepDoes ==
    ASSUME InStep, NEW c \in Consumers, WorkerStep(c)
    PROVE  WorkerStepDone(c)
BY PollDoes, PollEndsDo, ReadHeaderDoes, BodyDoes, PopStepDoes DEF WorkerStep

-----------------------------------------------------------------------------
(* The pipeline.                                                           *)

LEMMA NextInStep ==
    ASSUME InStep, [PipelineNext]_pipelineVars
    PROVE  InStep' /\ [Next]_vars
<1>1. CASE FeedStep
  <2>1. FeedStepDone
    BY <1>1, FeedStepIsDone
  <2>2. IInv'
    BY <2>1, NextPreserves DEF FeedStepDone, InStep
  <2>3. file' = file /\ StagesTyped'
    BY <2>1 DEF FeedStepDone, InStep, StagesTyped, workerVars, Frames
  <2>4. ASSUME NEW c \in Consumers PROVE WorkerInStep(c)'
    <3>1. Untouched(c)
      BY <2>1 DEF FeedStepDone, Untouched, consumerVars, workerVars
    <3>2. write_idx' \in Nat /\ write_idx <= write_idx'
      BY <2>1, <2>2, BoundAssumption DEF FeedStepDone, IInv, TypeOK
    <3> QED BY <2>3, <3>1, <3>2, UntouchedStaysInStep
  <2> QED BY <2>1, <2>2, <2>3, <2>4 DEF FeedStepDone, InStep
<1>2. ASSUME NEW c \in Consumers, WorkerStep(c)
      PROVE  InStep' /\ [Next]_vars
  <2>1. WorkerStepDone(c)
    BY <1>2, WorkerStepDoes
  <2>2. IInv'
    BY <2>1, NextPreserves DEF WorkerStepDone, InStep
  <2>3. UNCHANGED <<write_idx, push_pc, items, file, ptr, feed_pc, frame, stream>>
    BY <2>1 DEF WorkerStepDone, bufferVars, producerVars, feedVars
  <2>4. FeedInProgress' /\ FeedTyped' /\ StreamIsThePrefix'
    BY <2>3 DEF InStep, FeedInProgress, FeedTyped, StreamIsThePrefix, Frames,
       FrameSize, Boundaries
  <2>5. ASSUME NEW d \in Consumers PROVE WorkerInStep(d)'
    <3>1. write_idx' \in Nat /\ write_idx <= write_idx'
      BY <2>3 DEF InStep, IInv, TypeOK
    <3> QED BY <2>1, <2>3, <3>1, UntouchedStaysInStep DEF WorkerStepDone
  <2> QED BY <2>1, <2>2, <2>3, <2>4, <2>5 DEF WorkerStepDone, InStep
<1>3. CASE UNCHANGED pipelineVars
  <2>1. UNCHANGED vars
    BY <1>3 DEF pipelineVars
  <2>2. IInv'
    BY <2>1, NextPreserves DEF InStep
  <2>3. UNCHANGED <<write_idx, push_pc, items, file, ptr, feed_pc, frame, stream, stage, packet>>
    BY <1>3, <2>1 DEF pipelineVars, feedVars, workerVars, vars, bufferVars, producerVars
  <2>4. FeedInProgress' /\ FeedTyped' /\ StreamIsThePrefix' /\ StagesTyped'
    BY <2>3 DEF InStep, FeedInProgress, FeedTyped, StreamIsThePrefix, StagesTyped,
       Frames, FrameSize, Boundaries
  <2>5. ASSUME NEW d \in Consumers PROVE WorkerInStep(d)'
    <3>1. Untouched(d)
      BY <2>1, <2>3 DEF Untouched, vars, consumerVars
    <3>2. write_idx' \in Nat /\ write_idx <= write_idx'
      BY <2>3 DEF InStep, IInv, TypeOK
    <3> QED BY <2>3, <3>1, <3>2, UntouchedStaysInStep
  <2> QED BY <2>1, <2>2, <2>3, <2>4, <2>5 DEF InStep
<1> QED BY <1>1, <1>2, <1>3 DEF PipelineNext, Joined

(* replay.cpp's threads and the queue between them stay in step.           *)
THEOREM ThreadsInStep == PipelineSpec => []InStep
BY InitInStep, NextInStep, PTL DEF PipelineSpec

(* The threads of replay.cpp use the queue as SPMC.tla allows, so that all *)
(* that is proved of the queue holds within the replay.                    *)
THEOREM QueueUsedAsSpecified == PipelineSpec => Spec
<1>1. PipelineInit => Init
  BY DEF PipelineInit
<1>2. InStep /\ [PipelineNext]_pipelineVars => [Next]_vars
  BY NextInStep
<1> QED BY <1>1, <1>2, ThreadsInStep, PTL DEF PipelineSpec, Spec

(* However often FeedHandler has to retry, what the queue carries is the   *)
(* file, byte for byte, up to the end of some frame.                       *)
THEOREM StreamCorrect == PipelineSpec => []StreamIsThePrefix
BY ThreadsInStep, PTL DEF InStep

(* Every MarketDataHandler::poll begins at the first byte of a frame and   *)
(* takes header and body from that frame.                                  *)
THEOREM PollsStayAligned == PipelineSpec => []PollsAreAligned
<1>1. InStep => PollsAreAligned
  <2> SUFFICES ASSUME InStep, NEW c \in Consumers
               PROVE  \E i \in DOMAIN file.at :
                         /\ read_idx[c] = file.at[i] + FieldsDone(c)
                         /\ stage[c] \in {"header", "body", "skip"} => packet[c] = i
    BY DEF PollsAreAligned
  <2>1. /\ file \in Files /\ read_idx[c] \in Nat
        /\ stage[c] \in {"poll", "size", "header", "body", "skip", "stopped"}
        /\ BetweenFrames(c) /\ InsideFrame(c)
    BY DEF InStep, IInv, TypeOK, StagesTyped, WorkerInStep
  <2>2. \A i \in DOMAIN file.at : file.at[i] \in Nat
    BY <2>1, FileFacts
  <2>3. CASE stage[c] \in {"poll", "stopped"} \/ (stage[c] = "size" /\ failure[c] # "NONE")
    <3>1. read_idx[c] \in Boundaries /\ FieldsDone(c) = 0
      BY <2>1, <2>3 DEF BetweenFrames, FieldsDone
    <3>2. PICK i \in DOMAIN file.at : read_idx[c] = file.at[i]
      BY <3>1 DEF Boundaries
    <3>3. read_idx[c] = file.at[i] + FieldsDone(c)
      BY <2>2, <3>1, <3>2
    <3> QED BY <2>3, <3>3
  <2>4. CASE stage[c] = "size" /\ failure[c] = "NONE"
    <3>1. read_idx[c] - SizeWidth \in Boundaries /\ FieldsDone(c) = SizeWidth
      BY <2>1, <2>4 DEF BetweenFrames, FieldsDone
    <3>2. PICK i \in DOMAIN file.at : read_idx[c] - SizeWidth = file.at[i]
      BY <3>1 DEF Boundaries
    <3>3. read_idx[c] = file.at[i] + FieldsDone(c)
      BY <2>1, <2>2, <3>1, <3>2, FilesAssumption
    <3> QED BY <2>4, <3>3
  <2>5. CASE stage[c] \in {"header", "body", "skip"}
    <3>1. packet[c] \in Frames
      BY <2>1, <2>5 DEF InsideFrame
    <3>2. /\ packet[c] \in DOMAIN file.at
          /\ file.at[packet[c]] \in Nat
          /\ BodySize(packet[c]) \in Nat
      BY <2>1, <3>1, FileFacts, FrameSizes
    <3>3. CASE pop_pc[c] = "idle"
      <4>1. failure[c] = "NONE" /\ read_idx[c] = FieldStart(c) + FieldWidth(c)
        BY <2>1, <2>5, <3>3 DEF InsideFrame
      <4>2. read_idx[c] = file.at[packet[c]] + FieldsDone(c)
        BY <2>5, <3>2, <4>1, FilesAssumption DEF FieldStart, FieldWidth, FieldsDone
      <4> QED BY <3>2, <4>2
    <3>4. CASE pop_pc[c] # "idle"
      <4>1. failure[c] = "PENDING" /\ read_idx[c] = FieldStart(c)
        BY <2>1, <2>5, <3>4 DEF InsideFrame
      <4>2. read_idx[c] = file.at[packet[c]] + FieldsDone(c)
        BY <2>5, <3>2, <4>1, FilesAssumption DEF FieldStart, FieldsDone
      <4> QED BY <3>2, <4>2
    <3> QED BY <3>3, <3>4
  <2>6. \/ stage[c] \in {"poll", "stopped"} \/ (stage[c] = "size" /\ failure[c] # "NONE")
        \/ stage[c] = "size" /\ failure[c] = "NONE"
        \/ stage[c] \in {"header", "body", "skip"}
    BY <2>1
  <2> QED BY <2>3, <2>4, <2>5, <2>6, Zenon
<1> QED BY <1>1, ThreadsInStep, PTL

(* read_from_queue_unsafe's assertion always holds, and the skips whose    *)
(* result poll ignores always succeed.                                     *)
THEOREM RestOfFrameAlwaysThere == PipelineSpec => []RestOfFrameIsThere
<1>1. InStep => RestOfFrameIsThere
  BY DEF InStep, WorkerInStep, InsideFrame, RestOfFrameIsThere, Returned
<1> QED BY <1>1, ThreadsInStep, PTL

(* Every variable of the threads keeps its type.                           *)
THEOREM PipelineTypeCorrect == PipelineSpec => []PipelineTypeOK
<1>1. InStep => PipelineTypeOK
  BY DEF InStep, IInv, FeedTyped, StagesTyped, FeedInProgress, PipelineTypeOK
<1> QED BY <1>1, ThreadsInStep, PTL

-----------------------------------------------------------------------------
(* The frames of Replay.                                                   *)

(* What the feed thread knows of the end of the file, and a worker of the  *)
(* end of the stream.                                                      *)
EndsInOrder ==
    /\ ptr <= file.size
    /\ feed_pc \in {"close", "joined"} => ptr = file.size
    /\ \A c \in Consumers : failure[c] = "BUFFER_CLOSED" => is_closed

LEMMA InitEndsInOrder == PipelineInit => EndsInOrder
BY FilesAssumption DEF PipelineInit, Init, EndsInOrder, IsFile

(* Nothing but StreamClosed ends the feed, and is_closed_ is never reset.  *)
LEMMA NextEndsInOrder ==
    ASSUME InStep, EndsInOrder, [PipelineNext]_pipelineVars
    PROVE  EndsInOrder'
<1>1. /\ file \in Files /\ failure \in [Consumers -> {"PENDING", "NONE",
                                "BUFFER_INSUFFICIENT", "BUFFER_CLOSED"}]
  BY DEF InStep, IInv, TypeOK
<1>2. CASE FeedStep
  <2>1. UNCHANGED <<failure, file>> /\ (is_closed => is_closed')
    BY <1>2 DEF FeedStep, NextFrame, RetryFrame, PushStep, PublishFrame, InvalidFormat,
       StreamClosed, DestroyFeedHandler, TryPushMany, LoadReadIdx, RefreshReadIdx,
       StoreItem, PublishItems, Close, pipelineVars, vars, bufferVars, consumerVars
  <2>2. \A c \in Consumers : failure'[c] = "BUFFER_CLOSED" => is_closed'
    BY <2>1 DEF EndsInOrder
  <2>3. ptr' <= file'.size /\ (feed_pc' \in {"close", "joined"} => ptr' = file'.size)
    <3>1. CASE NextFrame
      BY <2>1, <3>1 DEF NextFrame
    <3>2. CASE RetryFrame \/ PushStep \/ PublishFrame \/ InvalidFormat
      BY <2>1, <3>2 DEF RetryFrame, PushStep, PublishFrame, InvalidFormat, pipelineVars,
         feedVars, EndsInOrder
    <3>3. CASE StreamClosed \/ DestroyFeedHandler
      BY <2>1, <3>3 DEF StreamClosed, DestroyFeedHandler, EndsInOrder
    <3> QED BY <1>2, <3>1, <3>2, <3>3 DEF FeedStep
  <2> QED BY <2>2, <2>3 DEF EndsInOrder
<1>3. ASSUME NEW c \in Consumers, WorkerStep(c)
      PROVE  EndsInOrder'
  <2>1. UNCHANGED <<is_closed, file, ptr, feed_pc>>
    BY <1>3, WorkerStepDoes DEF WorkerStepDone, bufferVars, feedVars
  <2>2. \A d \in Consumers :
            failure'[d] = "BUFFER_CLOSED" => failure[d] = "BUFFER_CLOSED" \/ is_closed
    BY <1>1, <1>3 DEF WorkerStep, Poll, PollAgain, Stop, ReadHeader, ReadBody, SkipBody,
       PollDone, PopStep, ConsumerStep, TryPopMany, TrySkipMany, Request, LoadWriteIdx,
       LoadIsClosed, CopyItem, AdvanceReadIdx, vars, consumerVars
  <2> QED BY <2>1, <2>2 DEF EndsInOrder
<1>4. CASE UNCHANGED pipelineVars
  BY <1>4 DEF pipelineVars, vars, bufferVars, consumerVars, feedVars, EndsInOrder
<1> QED BY <1>2, <1>3, <1>4 DEF PipelineNext, Joined

(* A position between the beginnings of frame i and of the next one has    *)
(* the frames before i behind it.                                          *)
LEMMA FramesBehind ==
    ASSUME file \in Files, NEW i \in DOMAIN file.at, NEW offset \in Nat,
           file.at[i] <= offset, i \in Frames => offset < file.at[i + 1]
    PROVE  FramesUpTo(offset) = i - 1
<1> DEFINE behind == {j \in Frames : file.at[j + 1] <= offset}
<1>1. /\ Len(file.kind) \in Nat \ {0}
      /\ Frames = 1 .. Len(file.kind)
      /\ i \in 1 .. Len(file.kind) + 1
  BY FileFacts
<1>2. ASSUME NEW j \in Frames PROVE file.at[j + 1] <= offset <=> j + 1 <= i
  <2>1. /\ j + 1 \in DOMAIN file.at /\ j + 1 \in Nat /\ i \in Nat
        /\ file.at[j + 1] \in Nat /\ file.at[i] \in Nat
    BY <1>1, FileFacts
  <2>2. CASE j + 1 <= i
    <3>1. file.at[j + 1] <= file.at[i]
      <4>1. CASE j + 1 = i
        BY <2>1, <4>1
      <4>2. CASE j + 1 < i
        BY <2>1, <4>2, FileFacts, FilesAssumption
      <4> QED BY <2>1, <2>2, <4>1, <4>2
    <3> QED BY <2>1, <2>2, <3>1
  <2>3. CASE i < j + 1
    <3>1. i \in Frames
      BY <1>1, <2>1, <2>3
    <3>2. i + 1 \in DOMAIN file.at /\ file.at[i + 1] \in Nat
      BY <3>1, FileFacts
    <3>3. file.at[i + 1] <= file.at[j + 1]
      <4>1. CASE i + 1 = j + 1
        BY <2>1, <4>1
      <4>2. CASE i + 1 < j + 1
        BY <2>1, <3>1, <3>2, <4>2, FileFacts, FilesAssumption
      <4> QED BY <1>1, <2>1, <2>3, <4>1, <4>2
    <3> QED BY <2>1, <2>3, <3>1, <3>2, <3>3
  <2> QED BY <2>1, <2>2, <2>3
<1>3. behind = 1 .. i - 1
  BY <1>1, <1>2
<1>4. Cardinality(1 .. i - 1) = i - 1
  BY <1>1, FS_Interval
<1> QED BY <1>3, <1>4 DEF FramesUpTo

LEMMA FramesUpToGrows ==
    ASSUME file \in Files, NEW a \in Nat, NEW b \in Nat, a <= b
    PROVE  /\ FramesUpTo(a) \in Nat /\ FramesUpTo(b) \in Nat
           /\ FramesUpTo(a) <= FramesUpTo(b)
<1> DEFINE behind(p) == {i \in Frames : file.at[i + 1] <= p}
<1>1. IsFiniteSet(Frames)
  <2>1. Frames = 1 .. Len(file.kind) /\ 1 \in Int /\ Len(file.kind) \in Int
    BY FileFacts
  <2>2. IsFiniteSet(1 .. Len(file.kind))
    BY <2>1, FS_Interval
  <2> QED BY <2>1, <2>2
<1>2. \A i \in Frames : file.at[i + 1] \in Nat
  BY FileFacts
<1>3. behind(a) \in SUBSET behind(b) /\ behind(b) \in SUBSET Frames
  BY <1>2
<1>4. IsFiniteSet(behind(b))
  BY <1>1, <1>3, FS_Subset
<1>5. IsFiniteSet(behind(a)) /\ Cardinality(behind(a)) <= Cardinality(behind(b))
  BY <1>3, <1>4, FS_Subset
<1> QED BY <1>4, <1>5, FS_CardinalityType DEF FramesUpTo

LEMMA FileSizeIsNat == ASSUME file \in Files PROVE file.size \in Nat
<1>1. Len(file.kind) + 1 \in DOMAIN file.at /\ Len(file.kind) + 1 \in 1 .. Len(file.kind) + 1
  BY FileFacts
<1>2. file.at[Len(file.kind) + 1] \in Nat /\ file.size \in 0 .. file.at[Len(file.kind) + 1]
  BY <1>1, FileFacts, FilesAssumption DEF IsFile
<1> QED BY <1>2

LEMMA InitIsReplay == PipelineInit => FrameReplay!Init
<1> SUFFICES ASSUME PipelineInit PROVE FrameReplay!Init
  OBVIOUS
<1>1. file \in Files
  BY DEF PipelineInit
<1>2. /\ 1 \in DOMAIN file.at /\ 1 \in Frames /\ file.at[1] = 0
      /\ file.at[1 + 1] > 0
  <2>1. 1 \in DOMAIN file.at /\ 1 \in Frames /\ 1 + 1 \in DOMAIN file.at /\ 1 < 1 + 1
    BY <1>1, FileFacts
  <2>2. file.at[1] = 0 /\ file.at[1 + 1] \in Nat
        /\ file.at[1] + SizeWidth + HeaderWidth < file.at[1 + 1]
    BY <1>1, <2>1, FileFacts
  <2> QED BY <2>1, <2>2, FilesAssumption
<1>3. FramesUpTo(0) = 0
  <2>1. FramesUpTo(0) = 1 - 1
    BY <1>1, <1>2, FramesBehind
  <2> QED BY <2>1
<1>4. FramesUpTo(file.size) \in Nat
  BY <1>1, FileSizeIsNat, FramesUpToGrows
<1>5. /\ write_idx = 0 /\ is_closed = FALSE
      /\ \A c \in Consumers : read_idx[c] = 0 /\ stage[c] = "poll"
  BY DEF PipelineInit, Init
<1> QED BY <1>3, <1>4, <1>5 DEF FrameReplay!Init, Truncated

(* A step changes neither the file nor how frames are counted in it.       *)
LEMMA SameFrames ==
    ASSUME file' = file
    PROVE  /\ FramesUpTo(write_idx)' = FramesUpTo(write_idx')
           /\ FramesUpTo(file.size)' = FramesUpTo(file.size)
           /\ Truncated' = Truncated
BY DEF FramesUpTo, Truncated, Boundaries, Frames

(* The workers that have left their loop.                                  *)
Stopped == {c \in Consumers : stage[c] = "stopped"}

(* What leaves write_idx_, is_closed_, the workers' positions and their    *)
(* being in the loop alone is not seen in Replay.                          *)
LEMMA Unseen ==
    ASSUME UNCHANGED <<file, write_idx, is_closed, read_idx>>, Stopped' = Stopped
    PROVE  UNCHANGED FrameReplay!vars
BY SameFrames DEF FrameReplay!vars, Stopped, FramesUpTo, Truncated, Boundaries, Frames

LEMMA FeedStepIsReplay ==
    ASSUME InStep, EndsInOrder, FeedStep
    PROVE  [FrameReplay!Next]_FrameReplay!vars
<1>1. /\ file' = file /\ read_idx' = read_idx /\ Stopped' = Stopped
      /\ FeedInProgress'
  BY FeedStepIsDone DEF FeedStepDone, consumerVars, workerVars, Stopped
<1>2. /\ file \in Files /\ write_idx \in Nat /\ write_idx \in Boundaries
  BY DEF InStep, IInv, TypeOK, StreamIsThePrefix
<1>3. [c \in Consumers |-> FramesUpTo(read_idx[c])]' = [c \in Consumers |-> FramesUpTo(read_idx[c])]
  BY <1>1 DEF FramesUpTo, Frames
<1>4. CASE NextFrame \/ RetryFrame \/ PushStep \/ InvalidFormat \/ StreamClosed
  <2>1. UNCHANGED <<write_idx, is_closed>>
    BY <1>4 DEF NextFrame, RetryFrame, PushStep, InvalidFormat, StreamClosed, TryPushMany,
       LoadReadIdx, RefreshReadIdx, StoreItem, pipelineVars, vars, bufferVars
  <2> QED BY <1>1, <2>1, Unseen
<1>5. CASE PublishFrame
  <2>1. /\ frame \in Frames /\ write_idx = file.at[frame] /\ ptr = file.at[frame + 1]
        /\ UNCHANGED <<is_closed, ptr>> /\ write_idx' = ptr
    BY <1>1, <1>5 DEF PublishFrame, PublishItems, InStep, FeedInProgress
  <2>2. /\ frame \in DOMAIN file.at /\ frame + 1 \in DOMAIN file.at
        /\ file.at[frame] \in Nat /\ file.at[frame + 1] \in Nat
        /\ file.at[frame] < file.at[frame + 1] /\ frame \in Int
    <3>1. /\ frame \in DOMAIN file.at /\ frame + 1 \in DOMAIN file.at
          /\ frame \in Int /\ frame < frame + 1
          /\ file.at[frame] \in Nat /\ file.at[frame + 1] \in Nat
      BY <1>2, <2>1, FileFacts
    <3>2. file.at[frame] + SizeWidth + HeaderWidth < file.at[frame + 1]
      BY <1>2, <3>1, FileFacts
    <3> QED BY <3>1, <3>2, FilesAssumption
  <2>3. FramesUpTo(write_idx) = frame - 1
    BY <1>2, <2>1, <2>2, FramesBehind
  <2>4. FramesUpTo(write_idx') = frame
    <3>1. frame + 1 \in Frames => file.at[frame + 1] < file.at[frame + 1 + 1]
      <4> SUFFICES ASSUME frame + 1 \in Frames PROVE file.at[frame + 1] < file.at[frame + 1 + 1]
        OBVIOUS
      <4>1. /\ frame + 1 + 1 \in DOMAIN file.at /\ frame + 1 < frame + 1 + 1
            /\ file.at[frame + 1 + 1] \in Nat
        BY <1>2, <2>2, FileFacts
      <4>2. file.at[frame + 1] + SizeWidth + HeaderWidth < file.at[frame + 1 + 1]
        BY <1>2, <2>2, <4>1, FileFacts
      <4> QED BY <2>2, <4>1, <4>2, FilesAssumption
    <3>2. FramesUpTo(file.at[frame + 1]) = (frame + 1) - 1
      BY <1>2, <2>2, <3>1, FramesBehind
    <3> QED BY <2>1, <2>2, <3>2
  <2>5. FramesUpTo(write_idx') <= FramesUpTo(file.size) /\ FramesUpTo(file.size) \in Nat
    <3>1. write_idx' \in Nat /\ write_idx' <= file.size
      BY <2>1, <2>2 DEF EndsInOrder
    <3> QED BY <1>2, <3>1, FileSizeIsNat, FramesUpToGrows
  <2>6. FrameReplay!Feed
    BY <1>1, <1>3, <2>1, <2>2, <2>3, <2>4, <2>5, SameFrames DEF FrameReplay!Feed, Stopped
  <2> QED BY <2>6 DEF FrameReplay!Next
<1>6. CASE DestroyFeedHandler
  <2>1. /\ write_idx' = write_idx /\ is_closed' = TRUE /\ write_idx = file.size
    BY <1>6 DEF DestroyFeedHandler, Close, InStep, FeedInProgress, EndsInOrder
  <2>2. ~Truncated
    BY <1>2, <2>1 DEF Truncated
  <2>3. FrameReplay!Finish
    BY <1>1, <1>3, <2>1, <2>2, SameFrames DEF FrameReplay!Finish, Stopped
  <2> QED BY <2>3 DEF FrameReplay!Next
<1> QED BY <1>4, <1>5, <1>6 DEF FeedStep

(* The end of a call of worker c: the last field of a frame takes it to    *)
(* the next one, the others leave it inside.                               *)
LEMMA PositionMoves ==
    ASSUME InStep, NEW c \in Consumers, PopStep(c), AdvanceReadIdx(c)
    PROVE  \/ FramesUpTo(read_idx'[c]) = FramesUpTo(read_idx[c])
           \/ /\ FramesUpTo(read_idx'[c]) = FramesUpTo(read_idx[c]) + 1
              /\ FramesUpTo(read_idx[c]) < FramesUpTo(write_idx)
<1>1. /\ file \in Files /\ TypeOK /\ write_idx \in Nat /\ write_idx \in Boundaries
      /\ read_idx[c] \in Nat /\ count[c] \in Nat /\ pop_pc[c] # "idle"
      /\ read_idx'[c] = read_idx[c] + count[c]
      /\ WorkerInStep(c)
      /\ stage[c] \in {"poll", "size", "header", "body", "skip", "stopped"}
  BY DEF AdvanceReadIdx, InStep, IInv, TypeOK, StreamIsThePrefix, StagesTyped
<1>2. read_idx[c] + count[c] <= write_idx
  BY <1>1 DEF AdvanceReadIdx, InStep, IInv, PopInProgress, CachesAreConservative, TypeOK
<1>3. /\ SizeWidth \in Nat \ {0} /\ HeaderWidth \in Nat \ {0}
  BY FilesAssumption
<1>4. CASE stage[c] = "size"
  <2>1. read_idx[c] \in Boundaries /\ count[c] = SizeWidth
    BY <1>1, <1>4 DEF WorkerInStep, BetweenFrames
  <2>2. PICK i \in DOMAIN file.at : read_idx[c] = file.at[i]
    BY <2>1 DEF Boundaries
  <2>3. i \in Frames
    BY <1>1, <1>2, <1>3, <2>1, <2>2, WholeFrames
  <2>4. /\ i + 1 \in DOMAIN file.at /\ i < i + 1
        /\ file.at[i] \in Nat /\ file.at[i + 1] \in Nat
    BY <1>1, <2>3, FileFacts
  <2>5. file.at[i] + SizeWidth + HeaderWidth < file.at[i + 1]
    BY <1>1, <2>4, FileFacts
  <2>6. /\ file.at[i] <= read_idx[c] /\ read_idx[c] < file.at[i + 1]
        /\ file.at[i] <= read_idx'[c] /\ read_idx'[c] < file.at[i + 1]
        /\ read_idx'[c] \in Nat
    BY <1>1, <1>3, <2>1, <2>2, <2>4, <2>5
  <2> QED BY <1>1, <2>6, FramesBehind
<1>5. CASE stage[c] \in {"header", "body", "skip"}
  <2> DEFINE i == packet[c]
  <2>1. /\ i \in Frames /\ file.at[i + 1] <= write_idx
        /\ read_idx[c] = FieldStart(c) /\ count[c] = FieldWidth(c)
    BY <1>1, <1>5 DEF WorkerInStep, InsideFrame
  <2>2. /\ i \in DOMAIN file.at /\ i + 1 \in DOMAIN file.at /\ i \in Int
        /\ file.at[i] \in Nat /\ file.at[i + 1] \in Nat
        /\ BodySize(i) \in Nat \ {0}
        /\ file.at[i + 1] = file.at[i] + SizeWidth + HeaderWidth + BodySize(i)
    <3>1. /\ FrameSize(i) = SizeWidth + HeaderWidth + BodySize(i)
          /\ BodySize(i) \in Nat \ {0}
      BY <1>1, <2>1, FrameSizes
    <3>2. /\ i \in DOMAIN file.at /\ i + 1 \in DOMAIN file.at /\ i \in Int
          /\ file.at[i] \in Nat /\ file.at[i + 1] \in Nat
      BY <1>1, <2>1, FileFacts
    <3>3. file.at[i + 1] - file.at[i] = SizeWidth + HeaderWidth + BodySize(i)
      BY <3>1 DEF FrameSize
    <3> HIDE DEF BodySize
    <3> QED BY <1>3, <3>1, <3>2, <3>3
  <2> HIDE DEF i
  <2>3. /\ stage[c] = "header" =>
              /\ read_idx[c] = file.at[i] + SizeWidth
              /\ read_idx'[c] = file.at[i] + SizeWidth + HeaderWidth
        /\ stage[c] # "header" =>
              /\ read_idx[c] = file.at[i] + SizeWidth + HeaderWidth
              /\ read_idx'[c] = file.at[i + 1]
    BY <1>1, <1>3, <2>1, <2>2 DEF FieldStart, FieldWidth, i
  <2>4. file.at[i] <= read_idx[c] /\ read_idx[c] < file.at[i + 1]
    BY <1>3, <2>2, <2>3
  <2>5. FramesUpTo(read_idx[c]) = i - 1
    BY <1>1, <2>1, <2>2, <2>4, FramesBehind DEF i
  <2>6. CASE stage[c] = "header"
    <3>1. /\ file.at[i] <= read_idx'[c] /\ read_idx'[c] < file.at[i + 1]
          /\ read_idx'[c] \in Nat
      BY <1>3, <2>2, <2>3, <2>6
    <3>2. FramesUpTo(read_idx'[c]) = i - 1
      BY <1>1, <2>2, <3>1, FramesBehind
    <3> QED BY <2>5, <3>2
  <2>7. CASE stage[c] # "header"
    <3>1. i + 1 \in Frames => file.at[i + 1] < file.at[i + 1 + 1]
      <4> SUFFICES ASSUME i + 1 \in Frames PROVE file.at[i + 1] < file.at[i + 1 + 1]
        OBVIOUS
      <4>1. /\ i + 1 + 1 \in DOMAIN file.at /\ i + 1 < i + 1 + 1
            /\ file.at[i + 1 + 1] \in Nat
        BY <1>1, <2>2, FileFacts
      <4>2. file.at[i + 1] + SizeWidth + HeaderWidth < file.at[i + 1 + 1]
        BY <1>1, <2>2, <4>1, FileFacts
      <4> QED BY <1>3, <2>2, <4>1, <4>2
    <3>2. FramesUpTo(file.at[i + 1]) = (i + 1) - 1
      BY <1>1, <2>2, <3>1, FramesBehind
    <3>3. FramesUpTo(file.at[i + 1]) <= FramesUpTo(write_idx) /\ FramesUpTo(write_idx) \in Nat
      BY <1>1, <2>1, <2>2, FramesUpToGrows DEF i
    <3> QED BY <2>2, <2>3, <2>5, <2>7, <3>2, <3>3
  <2> QED BY <2>6, <2>7
<1>6. stage[c] \notin {"poll", "stopped"}
  BY <1>1 DEF WorkerInStep, BetweenFrames
<1> QED BY <1>1, <1>4, <1>5, <1>6

LEMMA WorkerStepIsReplay ==
    ASSUME InStep, EndsInOrder, NEW c \in Consumers, WorkerStep(c)
    PROVE  [FrameReplay!Next]_FrameReplay!vars
<1>1. UNCHANGED <<file, write_idx, is_closed>>
  BY WorkerStepDoes DEF WorkerStepDone, bufferVars
<1>2. /\ read_idx \in [Consumers -> Nat]
      /\ stage \in [Consumers -> {"poll", "size", "header", "body", "skip", "stopped"}]
      /\ file \in Files
  BY DEF InStep, IInv, TypeOK, StagesTyped
<1>3. CASE Stop(c)
  <2>1. /\ read_idx' = read_idx /\ failure[c] = "BUFFER_CLOSED"
        /\ stage' = [stage EXCEPT ![c] = "stopped"]
    BY <1>3 DEF Stop, Proceed, vars, consumerVars
  <2>2. Stopped' = Stopped \cup {c} /\ is_closed
    BY <1>2, <2>1 DEF Stopped, EndsInOrder
  <2>3. [d \in Consumers |-> FramesUpTo(read_idx[d])]' = [d \in Consumers |-> FramesUpTo(read_idx[d])]
    BY <1>1, <2>1 DEF FramesUpTo, Frames
  <2>4. FrameReplay!Stop(c)
    BY <1>1, <2>2, <2>3, SameFrames DEF FrameReplay!Stop, Stopped
  <2> QED BY <2>4 DEF FrameReplay!Next
<1>4. CASE PopStep(c) /\ AdvanceReadIdx(c)
  <2>1. /\ read_idx' = [read_idx EXCEPT ![c] = read_idx'[c]] /\ stage' = stage
    BY <1>2, <1>4 DEF PopStep, AdvanceReadIdx, workerVars
  <2>2. Stopped' = Stopped /\ c \notin Stopped
    <3>1. pop_pc[c] # "idle"
      BY <1>4 DEF AdvanceReadIdx
    <3> QED BY <2>1, <3>1 DEF Stopped, InStep, WorkerInStep, BetweenFrames
  <2>3. /\ FramesUpTo(read_idx[c])' = FramesUpTo(read_idx'[c])
        /\ \A d \in Consumers \ {c} : FramesUpTo(read_idx[d])' = FramesUpTo(read_idx[d])
    BY <1>1, <1>2, <2>1 DEF FramesUpTo, Frames
  <2>4. [d \in Consumers |-> FramesUpTo(read_idx[d])]' =
            [[d \in Consumers |-> FramesUpTo(read_idx[d])] EXCEPT ![c] = FramesUpTo(read_idx'[c])]
    BY <2>3, Zenon
  <2>5. CASE FramesUpTo(read_idx'[c]) = FramesUpTo(read_idx[c])
    <3>1. [d \in Consumers |-> FramesUpTo(read_idx[d])]' = [d \in Consumers |-> FramesUpTo(read_idx[d])]
      BY <2>3, <2>5, Zenon
    <3> QED BY <1>1, <2>2, <3>1, SameFrames DEF FrameReplay!vars, Stopped
  <2>6. CASE /\ FramesUpTo(read_idx'[c]) = FramesUpTo(read_idx[c]) + 1
             /\ FramesUpTo(read_idx[c]) < FramesUpTo(write_idx)
    <3>1. FrameReplay!Handle(c)
      BY <1>1, <2>2, <2>4, <2>6, SameFrames DEF FrameReplay!Handle, Stopped
    <3> QED BY <3>1 DEF FrameReplay!Next
  <2> QED BY <1>4, <2>5, <2>6, PositionMoves
<1>5. CASE PopStep(c) /\ ~AdvanceReadIdx(c)
  <2>1. UNCHANGED <<read_idx, stage>>
    BY <1>5 DEF PopStep, ConsumerStep, LoadWriteIdx, LoadIsClosed, CopyItem, workerVars
  <2> QED BY <1>1, <2>1, Unseen DEF Stopped
<1>6. CASE Poll(c) \/ PollAgain(c) \/ ReadHeader(c) \/ ReadBody(c) \/ SkipBody(c) \/ PollDone(c)
  <2>1. PICK s0 \in {"poll", "size", "header", "body", "skip"},
             s \in {"poll", "size", "header", "body", "skip"} : Proceed(c, s0, s)
    BY <1>6 DEF Poll, PollAgain, ReadHeader, ReadBody, SkipBody, PollDone
  <2>2. Stopped' = Stopped
    BY <1>2, <2>1 DEF Proceed, Stopped
  <2>3. read_idx' = read_idx
    BY <1>6 DEF Poll, PollAgain, ReadHeader, ReadBody, SkipBody, PollDone, TryPopMany,
       TrySkipMany, Request, vars, consumerVars
  <2> QED BY <1>1, <2>2, <2>3, Unseen
<1> QED BY <1>3, <1>4, <1>5, <1>6 DEF WorkerStep

(* Bytes, retries and the lock-free ring make a replay of whole frames:    *)
(* every worker handles a frame after it was fed, once and in order, and   *)
(* stops only after the feed has come to the end of a complete file.       *)
THEOREM ReplayRefined == PipelineSpec => ImplementsReplay
<1>1. InStep /\ EndsInOrder /\ [PipelineNext]_pipelineVars
         => [FrameReplay!Next]_FrameReplay!vars
  <2> SUFFICES ASSUME InStep, EndsInOrder, [PipelineNext]_pipelineVars
               PROVE  [FrameReplay!Next]_FrameReplay!vars
    OBVIOUS
  <2>1. CASE UNCHANGED pipelineVars
    BY <2>1, Unseen DEF pipelineVars, vars, bufferVars, consumerVars, workerVars, Stopped
  <2> QED BY <2>1, FeedStepIsReplay, WorkerStepIsReplay DEF PipelineNext, Joined
<1>2. PipelineSpec => []EndsInOrder
  BY ThreadsInStep, InitEndsInOrder, NextEndsInOrder, PTL DEF PipelineSpec
<1> QED BY <1>1, <1>2, ThreadsInStep, InitIsReplay, PTL
        DEF PipelineSpec, ImplementsReplay, FrameReplay!Spec
===============================================================================
