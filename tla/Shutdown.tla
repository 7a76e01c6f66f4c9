------------------------------- MODULE Shutdown -------------------------------
(***************************************************************************)
(* The file's mapping, from FileSource's constructor to the destructors of *)
(* both FileSource objects, and the memory the workers map and unmap at    *)
(* the same time.                                                          *)
(*                                                                         *)
(* FeedHandler keeps a copy of the FileSource it is given, so the feed     *)
(* thread closes the queue, unmaps the file with the copy, and unmaps the  *)
(* same addresses once more with the original.  By then the closed queue   *)
(* may have sent the workers into ~MarketDataHandler, whose reports sort   *)
(* copies of up to 2^24 samples; and of a file that fits the queue, the    *)
(* feed may be through while a worker still constructs its handler, with   *)
(* two rings of 2^24 samples, or has not even been created.  All of these  *)
(* are large enough for malloc to map them.                                *)
(*                                                                         *)
(* What the threads do before the queue is closed is Pipeline's.           *)
(***************************************************************************)
EXTENDS Integers

CONSTANTS
    Workers,
    Addresses,      \* the pages mmap may hand out
    Placement,      \* of the free runs of a length, those mmap may take
    FileSizes,      \* in pages
    ThreadPages,    \* what the C library maps for a thread: stack and arena
    RingPages       \* a LatencyRecorder's ring of samples

Failed == -1
Nobody == <<"nobody", "nothing">>
File == <<"feed", "file">>

(* A block is a mapping of a worker: what its thread needs, the rings of   *)
(* market_event_latency_ and parser_latency_, and the vector of a report.  *)
Blocks == Workers \X {"thread", "event", "parser", "results"}

ASSUME ShutdownAssumption ==
    /\ Addresses \in SUBSET Nat
    /\ Placement \in [SUBSET Addresses -> SUBSET Addresses]
    /\ \A runs \in SUBSET Addresses : Placement[runs] \subseteq runs
    /\ FileSizes \subseteq Nat
    /\ ThreadPages \in Nat /\ RingPages \in Nat
    /\ {"nobody", "feed"} \cap Workers = {}

VARIABLES
    owner,          \* what a page is mapped for
    feed_pc,        \* "open", "poll", "close", "unmap_copy", "unmap", "done"
    map,            \* map_, Failed for MAP_FAILED
    size,           \* size_, in pages
    position,       \* where ptr_ of the copy begins
    is_closed,      \* the queue's is_closed_
    worker_pc,      \* "create", "construct", "zero", "poll", "report", "sort",
                    \* "sorted", "destroy", "done"
    recorder,       \* the LatencyRecorder it constructs, reports or destroys
    memory,         \* the pages a worker believes a block of its has
    crashed,        \* a page was touched that is not mapped
    reused          \* history: a block has taken pages of the file between
                    \* the two unmaps

feedVars == <<feed_pc, map, size, position, is_closed>>
workerVars == <<worker_pc, recorder, memory, reused>>
vars == <<owner, feedVars, workerVars, crashed>>

-----------------------------------------------------------------------------
(* The address space.                                                      *)

Pages(start, n) == start .. start + n - 1

(* Where mmap may put n pages: some free run of addresses.                 *)
FreeRuns(n) ==
    Placement[{start \in Addresses :
                  Pages(start, n) \subseteq {a \in Addresses : owner[a] = Nobody}}]

Map(pages, who) == owner' = [a \in Addresses |-> IF a \in pages THEN who ELSE owner[a]]

(* Mutant of Unmap: the length is rounded up once too often.               *)
UnmapRoundedUp(pages) ==
    LET past == {a + 1 : a \in pages}
    IN  owner' = [a \in Addresses |-> IF a \in pages \cup past THEN Nobody ELSE owner[a]]

(* Mutant of Unmap: a first page is left.                                  *)
UnmapShort(pages) == Map({a \in pages : a - 1 \in pages}, Nobody)

(* munmap does not ask for whom the pages are mapped, or whether they are. *)
Unmap(pages) == Map(pages, Nobody)

FilePages == IF map = Failed THEN {} ELSE Pages(map, size)

-----------------------------------------------------------------------------
(* The feed thread.                                                        *)

Init ==
    /\ owner = [a \in Addresses |-> Nobody]
    /\ feed_pc = "open"
    /\ map = Failed
    /\ size = 0
    /\ position = 0
    /\ is_closed = FALSE
    /\ worker_pc = [w \in Workers |-> "create"]
    /\ recorder = [w \in Workers |-> "event"]
    /\ memory = [b \in Blocks |-> {}]
    /\ crashed = FALSE
    /\ reused = FALSE

(* A page fault ends the process.                                          *)
FeedAt(pc) == ~crashed /\ feed_pc = pc
WorkerAt(w, pc) == ~crashed /\ worker_pc[w] = pc

(* FileSource's constructor, and the copy in FeedHandler's.  An empty file *)
(* cannot be mapped, nor one there is no room for.                         *)
OpenFile ==
    /\ FeedAt("open")
    /\ \E n \in FileSizes :
          /\ size' = n
          /\ \/ /\ n = 0 \/ FreeRuns(n) = {}
                /\ map' = Failed
                /\ UNCHANGED owner
             \/ n > 0 /\ \E start \in FreeRuns(n) :
                            map' = start /\ Map(Pages(start, n), File)
    /\ feed_pc' = "poll"
    /\ UNCHANGED <<position, is_closed, workerVars, crashed>>

(* Without the file, open, fstat and mmap all fail, none is checked, and   *)
(* size_ is whatever was on the stack.                                     *)
OpenNoFile ==
    /\ FeedAt("open")
    /\ size' \in FileSizes
    /\ feed_pc' = "poll"
    /\ UNCHANGED <<owner, map, position, is_closed, workerVars, crashed>>

(* poll, until the source has no frame left.                               *)
PollFeed ==
    /\ FeedAt("poll")
    /\ IF position = size THEN feed_pc' = "close" /\ UNCHANGED <<position, crashed>>
       ELSE IF map # Failed /\ owner[map + position] = File
       THEN position' = position + 1 /\ UNCHANGED <<feed_pc, crashed>>
       ELSE crashed' = TRUE /\ UNCHANGED <<feed_pc, position>>
    /\ UNCHANGED <<owner, map, size, is_closed, workerVars>>

(* Mutant of DestroyFeedHandler: the queue is not closed.                  *)
DestroyWithoutClose ==
    /\ FeedAt("close")
    /\ feed_pc' = "unmap_copy"
    /\ UNCHANGED <<owner, map, size, position, is_closed, workerVars, crashed>>

(* The body of ~FeedHandler.                                               *)
DestroyFeedHandler ==
    /\ FeedAt("close")
    /\ is_closed' = TRUE
    /\ feed_pc' = "unmap_copy"
    /\ UNCHANGED <<owner, map, size, position, workerVars, crashed>>

(* ~FileSource of FeedHandler's source_, and then of the thread's own.     *)
DestroyFileSource ==
    /\ \/ FeedAt("unmap_copy") /\ feed_pc' = "unmap"
       \/ FeedAt("unmap") /\ feed_pc' = "done"
    /\ Unmap(FilePages)
    /\ UNCHANGED <<map, size, position, is_closed, workerVars, crashed>>

FeedStep == OpenFile \/ OpenNoFile \/ PollFeed \/ DestroyFeedHandler \/ DestroyFileSource

-----------------------------------------------------------------------------
(* The workers.                                                            *)

(* malloc maps a block anew.  (There is always room in 64 bits of address  *)
(* space: TLC's has to be large enough.)                                   *)
Allocate(b, n) ==
    \E start \in FreeRuns(n) :
        LET pages == Pages(start, n)
        IN  /\ Map(pages, b)
            /\ memory' = [memory EXCEPT ![b] = pages]
            /\ reused' = IF feed_pc = "unmap" /\ pages \cap FilePages # {}
                         THEN TRUE ELSE reused

(* free unmaps it, whoever has its pages by now.                           *)
Release(b) ==
    /\ Unmap(memory[b])
    /\ memory' = [memory EXCEPT ![b] = {}]
    /\ UNCHANGED reused

Lost(b) == \E a \in memory[b] : owner[a] = Nobody

(* The blocks a worker's next step goes through from end to end, ...       *)
Whole(w) ==
    {<<w, "thread">>} \cup
        CASE worker_pc[w] = "zero" -> {<<w, recorder[w]>>}
          [] worker_pc[w] = "sort" -> {<<w, "results">>}
          [] OTHER -> {}

(* ... and those of which it uses as much as there are samples.            *)
Partly(w) ==
    CASE worker_pc[w] = "poll" -> {<<w, "event">>, <<w, "parser">>}
      [] worker_pc[w] = "sort" -> {<<w, recorder[w]>>}
      [] OTHER -> {}

(* A step that touches a lost page crashes, the others come through.       *)
Crash(w) ==
    /\ ~crashed
    /\ \E b \in Whole(w) \cup Partly(w) : Lost(b)
    /\ crashed' = TRUE
    /\ UNCHANGED <<owner, feedVars, workerVars>>

ComesTo(w, from, to) ==
    /\ WorkerAt(w, from)
    /\ \A b \in Whole(w) : ~Lost(b)
    /\ worker_pc' = [worker_pc EXCEPT ![w] = to]
    /\ UNCHANGED <<feedVars, crashed>>

(* main creates the thread.  The feed's has been running for a while.      *)
CreateWorker(w) ==
    /\ ComesTo(w, "create", "construct")
    /\ Allocate(<<w, "thread">>, ThreadPages)
    /\ UNCHANGED recorder

(* make_unique of market_event_latency_'s ring, then of parser_latency_'s: *)
(* the ring is allocated, ...                                              *)
AllocateRing(w) ==
    /\ ComesTo(w, "construct", "zero")
    /\ Allocate(<<w, recorder[w]>>, RingPages)
    /\ UNCHANGED recorder

(* ... and value-initialised.                                              *)
ZeroRing(w) ==
    /\ \/ recorder[w] = "event" /\ ComesTo(w, "zero", "construct")
       \/ recorder[w] = "parser" /\ ComesTo(w, "zero", "poll")
    /\ recorder' = [recorder EXCEPT ![w] = "parser"]
    /\ UNCHANGED <<owner, memory, reused>>

(* poll has returned false, and ~MarketDataHandler begins.  parser_latency_ *)
(* has at least the sample of that poll, market_event_latency_ may be empty *)
(* and then has no report.                                                 *)
LeavePoll(w) ==
    /\ is_closed
    /\ ComesTo(w, "poll", "report")
    /\ \E first \in {"event", "parser"} : recorder' = [recorder EXCEPT ![w] = first]
    /\ UNCHANGED <<owner, memory, reused>>

(* report: results is allocated, as large as the part of the ring that is  *)
(* in use; a small one is not mapped on its own, ...                       *)
AllocateResults(w) ==
    /\ ComesTo(w, "report", "sort")
    /\ \E n \in 0 .. RingPages : Allocate(<<w, "results">>, n)
    /\ UNCHANGED recorder

(* ... filled from the ring, sorted and read, ...                          *)
SortResults(w) ==
    /\ ComesTo(w, "sort", "sorted")
    /\ UNCHANGED <<owner, recorder, memory, reused>>

(* ... and freed.  The rings are destroyed after the reports, the last one *)
(* first.                                                                  *)
FreeResults(w) ==
    /\ \/ recorder[w] = "event" /\ ComesTo(w, "sorted", "report")
       \/ recorder[w] = "parser" /\ ComesTo(w, "sorted", "destroy")
    /\ Release(<<w, "results">>)
    /\ recorder' = [recorder EXCEPT ![w] = "parser"]

DestroyRing(w) ==
    /\ \/ recorder[w] = "parser" /\ ComesTo(w, "destroy", "destroy")
       \/ recorder[w] = "event" /\ ComesTo(w, "destroy", "done")
    /\ Release(<<w, recorder[w]>>)
    /\ recorder' = [recorder EXCEPT ![w] = "event"]

WorkerStep(w) ==
    \/ AllocateRing(w)
    \/ ZeroRing(w)
    \/ LeavePoll(w)
    \/ AllocateResults(w)
    \/ SortResults(w)
    \/ FreeResults(w)
    \/ DestroyRing(w)
    \/ Crash(w)

(* main returns from the last join.                                        *)
Joined == feed_pc = "done" /\ \A w \in Workers : worker_pc[w] = "done"

Next ==
    \/ FeedStep
    \/ \E w \in Workers : CreateWorker(w) \/ WorkerStep(w)

Spec == Init /\ [][Next]_vars

(* The operating system schedules every thread.                            *)
FairSpec ==
    /\ Spec
    /\ WF_vars(FeedStep)
    /\ \A w \in Workers : WF_vars(CreateWorker(w)) /\ WF_vars(WorkerStep(w))

-----------------------------------------------------------------------------
(* Properties.                                                             *)

(* The program crashes, or a worker's memory is taken away or shared, only *)
(* if the file was not mapped, or some block of a worker took pages of the *)
(* file between the two unmaps.  It need not be the block that is hit.     *)
LossesExplained ==
    ~reused =>
        /\ \A b \in Blocks : \A a \in memory[b] : owner[a] = b
        /\ crashed => map = Failed

(* The file is unmapped at the end, and no ring or vector is left behind:  *)
(* all that is mapped are the stacks and arenas the C library keeps.       *)
NothingLeaked ==
    Joined => \A a \in Addresses :
        owner[a] = Nobody \/ \E w \in Workers : a \in memory[<<w, "thread">>]

(* If nothing crashes, all threads come to their ends.                     *)
ShutdownEnds == <>(crashed \/ Joined)
===============================================================================
