---------------------------- MODULE ShutdownProofs ----------------------------
(***************************************************************************)
(* Why only a block that took pages of the file between its two unmaps can *)
(* cost a worker its memory, and why no ring and no vector is mapped at    *)
(* the end, whatever the sizes and however many the workers.               *)
(***************************************************************************)
EXTENDS Shutdown, TLAPS

Types ==
    /\ owner \in [Addresses -> {Nobody, File} \cup Blocks]
    /\ map \in Int /\ size \in Nat /\ position \in 0 .. size
    /\ worker_pc \in [Workers -> {"create", "construct", "zero", "poll", "report",
                                  "sort", "sorted", "destroy", "done"}]
    /\ recorder \in [Workers -> {"event", "parser"}]
    /\ memory \in [Blocks -> SUBSET Addresses]

Mapped == {"poll", "close", "unmap_copy"}

(* The file has its pages until the first unmap, and then leaves them      *)
(* alone: until the second one nobody but a block that reuses them has     *)
(* them.                                                                   *)
Inv ==
    /\ Types
    /\ LossesExplained
    /\ feed_pc = "open" => map = Failed /\ position = 0
    /\ feed_pc \in {"open"} \cup Mapped => ~reused
    /\ feed_pc \in Mapped => \A a \in FilePages : a \in Addresses /\ owner[a] = File
    /\ feed_pc = "unmap" /\ ~reused =>
          \A b \in Blocks : memory[b] \cap FilePages = {}

-----------------------------------------------------------------------------

LEMMA OwnersDiffer ==
    /\ Nobody # File
    /\ \A b \in Blocks : b # Nobody /\ b # File
  BY ShutdownAssumption DEF Blocks, Nobody, File

LEMMA WorkersHaveBlocks ==
    \A w \in Workers : \A k \in {"thread", "event", "parser", "results"} : <<w, k>> \in Blocks
  BY DEF Blocks

LEMMA MapTyped ==
    ASSUME NEW pages, NEW who \in {Nobody, File} \cup Blocks,
           owner \in [Addresses -> {Nobody, File} \cup Blocks], Map(pages, who)
    PROVE  /\ owner' \in [Addresses -> {Nobody, File} \cup Blocks]
           /\ \A a \in Addresses : owner'[a] = IF a \in pages THEN who ELSE owner[a]
  BY DEF Map

(* Wherever mmap puts a run, it begins at an address, ...                  *)
LEMMA FreeRunTyped ==
    ASSUME NEW n, NEW start \in FreeRuns(n)
    PROVE  /\ start \in Addresses /\ start \in Nat
           /\ Pages(start, n) \subseteq {a \in Addresses : owner[a] = Nobody}
  <1> DEFINE runs == {s \in Addresses :
                        Pages(s, n) \subseteq {a \in Addresses : owner[a] = Nobody}}
  <1>1. runs \in SUBSET Addresses
    OBVIOUS
  <1>2. start \in Placement[runs]
    BY DEF FreeRuns
  <1> HIDE DEF runs
  <1>3. start \in runs
    BY <1>1, <1>2, ShutdownAssumption
  <1>4. QED
    BY <1>3, ShutdownAssumption DEF runs

(* ... and nothing that is free belongs to the file or to a worker.        *)
LEMMA FreeRunIsFree ==
    ASSUME NEW n, NEW start \in FreeRuns(n), NEW a \in Pages(start, n)
    PROVE  a \in Addresses /\ owner[a] = Nobody
  BY FreeRunTyped

LEMMA InitInv == Init => Inv
  BY DEF Init, Inv, Types, LossesExplained, Mapped, Failed, Nobody

LEMMA OpenFileKeeps == Inv /\ OpenFile => Inv'
  <1> SUFFICES ASSUME Inv, OpenFile PROVE Inv'
    OBVIOUS
  <1>1. /\ feed_pc = "open" /\ feed_pc' = "poll" /\ map = Failed /\ ~reused /\ Types
        /\ position = 0 /\ ~crashed
        /\ \A b \in Blocks : \A a \in memory[b] : owner[a] = b
        /\ UNCHANGED <<position, worker_pc, recorder, memory, reused, crashed>>
    BY DEF OpenFile, FeedAt, Inv, LossesExplained, workerVars
  <1>2. PICK n \in FileSizes :
          /\ size' = n
          /\ \/ /\ n = 0 \/ FreeRuns(n) = {}
                /\ map' = Failed
                /\ UNCHANGED owner
             \/ n > 0 /\ \E start \in FreeRuns(n) :
                            map' = start /\ Map(Pages(start, n), File)
    BY DEF OpenFile
  <1>3. n \in Nat /\ position' \in Nat
    BY <1>1, <1>2, ShutdownAssumption DEF Types
  <1>4. CASE map' = Failed /\ UNCHANGED owner
    BY <1>1, <1>2, <1>3, <1>4 DEF Inv, Types, LossesExplained, Mapped, FilePages, Failed
  <1>5. CASE \E start \in FreeRuns(n) : map' = start /\ Map(Pages(start, n), File)
    <2>1. PICK start \in FreeRuns(n) : map' = start /\ Map(Pages(start, n), File)
      BY <1>5
    <2>2. \A a \in Pages(start, n) : a \in Addresses /\ owner[a] = Nobody
      BY FreeRunIsFree
    <2>3. /\ owner' \in [Addresses -> {Nobody, File} \cup Blocks]
          /\ \A a \in Addresses :
                owner'[a] = IF a \in Pages(start, n) THEN File ELSE owner[a]
      BY <1>1, <2>1, MapTyped DEF Types
    <2>4. start \in Nat /\ FilePages' = Pages(start, n)
      BY <1>2, <2>1, FreeRunTyped, ShutdownAssumption DEF FilePages, Failed, Pages
    <2>5. Types'
      BY <1>1, <1>2, <1>3, <2>1, <2>3, <2>4 DEF Types
    <2>6. \A b \in Blocks : \A a \in memory'[b] : owner'[a] = b
      <3> TAKE b \in Blocks
      <3> TAKE a \in memory'[b]
      <3>1. a \in memory[b] /\ a \in Addresses /\ owner[a] = b
        BY <1>1 DEF Types
      <3>2. a \notin Pages(start, n)
        BY <2>2, <3>1, OwnersDiffer
      <3>3. QED
        BY <2>3, <3>1, <3>2
    <2>7. \A a \in FilePages' : a \in Addresses /\ owner'[a] = File
      BY <2>2, <2>3, <2>4
    <2>8. QED
      BY <1>1, <2>5, <2>6, <2>7 DEF Inv, LossesExplained, Mapped
  <1>6. QED
    BY <1>2, <1>3, <1>4, <1>5

LEMMA OpenNoFileKeeps == Inv /\ OpenNoFile => Inv'
  BY ShutdownAssumption
     DEF OpenNoFile, FeedAt, Inv, Types, LossesExplained, Mapped, FilePages, workerVars, Failed

LEMMA PollFeedKeeps == Inv /\ PollFeed => Inv'
  <1> SUFFICES ASSUME Inv, PollFeed PROVE Inv'
    OBVIOUS
  <1>1. /\ feed_pc = "poll" /\ Types /\ ~reused
        /\ UNCHANGED <<owner, map, size, worker_pc, recorder, memory, reused>>
        /\ FilePages' = FilePages
        /\ \A a \in FilePages : a \in Addresses /\ owner[a] = File
    BY DEF PollFeed, FeedAt, Inv, Mapped, workerVars, FilePages
  <1>2. CASE position = size
    BY <1>1, <1>2 DEF PollFeed, FeedAt, Inv, Types, LossesExplained, Mapped
  <1>3. CASE position # size /\ map # Failed
    <2>1. map + position \in FilePages
      BY <1>1, <1>3 DEF Types, FilePages, Pages
    <2>2. position' = position + 1 /\ UNCHANGED <<feed_pc, crashed>>
      BY <1>1, <1>3, <2>1 DEF PollFeed
    <2>3. QED
      BY <1>1, <1>3, <2>2 DEF Inv, Types, LossesExplained, Mapped
  <1>4. CASE position # size /\ map = Failed
    <2>1. UNCHANGED <<feed_pc, position>>
      BY <1>4 DEF PollFeed
    <2>2. QED
      BY <1>1, <1>4, <2>1 DEF Inv, Types, LossesExplained, Mapped
  <1>5. QED
    BY <1>2, <1>3, <1>4

LEMMA DestroyFeedHandlerKeeps == Inv /\ DestroyFeedHandler => Inv'
  BY DEF DestroyFeedHandler, FeedAt, Inv, Types, LossesExplained, Mapped, FilePages, workerVars

(* The second unmap takes pages from nobody that has not reused them.      *)
LEMMA DestroyFileSourceKeeps == Inv /\ DestroyFileSource => Inv'
  <1> SUFFICES ASSUME Inv, DestroyFileSource PROVE Inv'
    OBVIOUS
  <1>1. /\ \/ feed_pc = "unmap_copy" /\ feed_pc' = "unmap"
           \/ feed_pc = "unmap" /\ feed_pc' = "done"
        /\ Types /\ Map(FilePages, Nobody) /\ ~crashed /\ ~crashed'
        /\ UNCHANGED <<map, size, position, worker_pc, recorder, memory, reused>>
        /\ FilePages' = FilePages
    BY DEF DestroyFileSource, FeedAt, Inv, workerVars, FilePages, Unmap
  <1>2. /\ owner' \in [Addresses -> {Nobody, File} \cup Blocks]
        /\ \A a \in Addresses : owner'[a] = IF a \in FilePages THEN Nobody ELSE owner[a]
    BY <1>1, MapTyped DEF Types
  <1>3. Types'
    BY <1>1, <1>2 DEF Types
  <1>4. ASSUME ~reused
        PROVE  \A b \in Blocks : memory[b] \cap FilePages = {}
    <2>1. CASE feed_pc = "unmap"
      BY <1>4, <2>1 DEF Inv
    <2>2. CASE feed_pc = "unmap_copy"
      BY <1>4, <2>2, OwnersDiffer DEF Inv, Mapped, LossesExplained
    <2>3. QED
      BY <1>1, <2>1, <2>2
  <1>5. LossesExplained'
    BY <1>1, <1>2, <1>4 DEF Inv, LossesExplained, Types
  <1>6. QED
    BY <1>1, <1>3, <1>4, <1>5 DEF Inv, Mapped

-----------------------------------------------------------------------------

(* What a worker does with its memory, whichever block it is.              *)

WorkerTypes ==
    /\ worker_pc \in [Workers -> {"create", "construct", "zero", "poll", "report",
                                  "sort", "sorted", "destroy", "done"}]
    /\ recorder \in [Workers -> {"event", "parser"}]

LEMMA AllocateKeeps ==
    ASSUME Inv, NEW b \in Blocks, NEW n, Allocate(b, n),
           UNCHANGED <<feedVars, crashed>>, WorkerTypes'
    PROVE  Inv'
  <1>1. PICK start \in FreeRuns(n) :
          LET pages == Pages(start, n)
          IN  /\ Map(pages, b)
              /\ memory' = [memory EXCEPT ![b] = pages]
              /\ reused' = IF feed_pc = "unmap" /\ pages \cap FilePages # {}
                           THEN TRUE ELSE reused
    BY DEF Allocate
  <1> DEFINE pages == Pages(start, n)
  <1>2. /\ UNCHANGED <<feed_pc, map, size, position, crashed>>
        /\ Types /\ FilePages' = FilePages
    BY DEF feedVars, Inv, FilePages
  <1>3. \A a \in pages : a \in Addresses /\ owner[a] = Nobody
    BY FreeRunIsFree
  <1>4. /\ owner' \in [Addresses -> {Nobody, File} \cup Blocks]
        /\ \A a \in Addresses : owner'[a] = IF a \in pages THEN b ELSE owner[a]
    BY <1>1, <1>2, MapTyped DEF Types
  <1>5. /\ memory'[b] = pages /\ memory' \in [Blocks -> SUBSET Addresses]
        /\ \A c \in Blocks \ {b} : memory'[c] = memory[c]
        /\ reused' = IF feed_pc = "unmap" /\ pages \cap FilePages # {}
                     THEN TRUE ELSE reused
    BY <1>1, <1>2, <1>3 DEF Types
  <1> HIDE DEF pages
  <1>6. Types'
    BY <1>2, <1>4, <1>5 DEF Types, WorkerTypes
  <1>7. ~reused' => ~reused /\ (feed_pc = "unmap" => pages \cap FilePages = {})
    BY <1>5
  <1>8. LossesExplained'
    <2> SUFFICES ASSUME ~reused'
                 PROVE  /\ \A c \in Blocks : \A a \in memory'[c] : owner'[a] = c
                        /\ (crashed' => map' = Failed)
      BY DEF LossesExplained
    <2>1. \A c \in Blocks : \A a \in memory[c] : a \in Addresses /\ owner[a] = c
      BY <1>2, <1>7 DEF Inv, LossesExplained, Types
    <2>2. \A c \in Blocks \ {b} : \A a \in memory[c] : a \notin pages
      BY <1>3, <2>1, OwnersDiffer
    <2>3. QED
      BY <1>2, <1>3, <1>4, <1>5, <1>7, <2>1, <2>2 DEF Inv, LossesExplained
  <1>9. feed_pc \in Mapped => \A a \in FilePages : a \in Addresses /\ owner'[a] = File
    BY <1>3, <1>4, OwnersDiffer DEF Inv
  <1>10. feed_pc = "unmap" /\ ~reused' =>
            \A c \in Blocks : memory'[c] \cap FilePages = {}
    BY <1>5, <1>7 DEF Inv
  <1>11. feed_pc \in {"open"} \cup Mapped => ~reused'
    BY <1>5 DEF Inv, Mapped
  <1>12. QED
    BY <1>2, <1>6, <1>8, <1>9, <1>10, <1>11 DEF Inv

LEMMA ReleaseKeeps ==
    ASSUME Inv, NEW b \in Blocks, Release(b),
           UNCHANGED <<feedVars, crashed>>, WorkerTypes'
    PROVE  Inv'
  <1>1. /\ UNCHANGED <<feed_pc, map, size, position, crashed, reused>>
        /\ Types /\ FilePages' = FilePages
        /\ Map(memory[b], Nobody) /\ memory' = [memory EXCEPT ![b] = {}]
    BY DEF Release, feedVars, Inv, FilePages, Unmap
  <1>2. /\ owner' \in [Addresses -> {Nobody, File} \cup Blocks]
        /\ \A a \in Addresses : owner'[a] = IF a \in memory[b] THEN Nobody ELSE owner[a]
    BY <1>1, MapTyped DEF Types
  <1>3. /\ memory'[b] = {} /\ memory' \in [Blocks -> SUBSET Addresses]
        /\ \A c \in Blocks \ {b} : memory'[c] = memory[c]
    BY <1>1 DEF Types
  <1>4. Types'
    BY <1>1, <1>2, <1>3 DEF Types, WorkerTypes
  <1>5. ~reused => \A c \in Blocks : \A a \in memory[c] : a \in Addresses /\ owner[a] = c
    BY <1>1 DEF Inv, LossesExplained, Types
  <1>6. LossesExplained'
    BY <1>1, <1>2, <1>3, <1>5 DEF Inv, LossesExplained
  <1>7. feed_pc \in Mapped => \A a \in FilePages : a \in Addresses /\ owner'[a] = File
    <2>1. feed_pc \in Mapped => \A a \in FilePages : a \notin memory[b]
      BY <1>5, OwnersDiffer DEF Inv
    <2>2. QED
      BY <1>2, <2>1 DEF Inv
  <1>8. QED
    BY <1>1, <1>3, <1>4, <1>6, <1>7 DEF Inv

(* A page can be lost only if there was a block between the unmaps.        *)
LEMMA CrashKeeps ==
    ASSUME Inv, NEW w \in Workers, Crash(w)
    PROVE  Inv'
  <1>1. Whole(w) \cup Partly(w) \subseteq Blocks
    BY WorkersHaveBlocks DEF Whole, Partly, Inv, Types
  <1>2. /\ Types /\ FilePages' = FilePages
        /\ UNCHANGED <<owner, feed_pc, map, size, position, worker_pc, recorder, memory, reused>>
    BY DEF Crash, feedVars, workerVars, Inv, FilePages
  <1>3. reused
    BY <1>1, OwnersDiffer DEF Crash, Lost, Inv, LossesExplained
  <1>4. QED
    BY <1>2, <1>3 DEF Inv, Types, LossesExplained

LEMMA WorkerStays ==
    ASSUME Inv, UNCHANGED <<owner, feedVars, memory, reused, crashed>>, WorkerTypes'
    PROVE  Inv'
  BY DEF Inv, Types, WorkerTypes, LossesExplained, FilePages, feedVars

LEMMA WorkerStepKeeps ==
    ASSUME Inv, NEW w \in Workers, CreateWorker(w) \/ WorkerStep(w)
    PROVE  Inv'
  <1>1. CASE Crash(w)
    BY <1>1, CrashKeeps
  <1>2. CASE ~Crash(w)
    <2>1. WorkerTypes
      BY DEF Inv, Types, WorkerTypes
    <2>2. UNCHANGED <<feedVars, crashed>>
      BY <1>2 DEF WorkerStep, CreateWorker, AllocateRing, ZeroRing, LeavePoll, AllocateResults,
         SortResults, FreeResults, DestroyRing, ComesTo
    <2>3. WorkerTypes'
      BY <1>2, <2>1 DEF WorkerTypes, WorkerStep, CreateWorker, AllocateRing, ZeroRing, LeavePoll,
         AllocateResults, SortResults, FreeResults, DestroyRing, ComesTo
    <2>4. CASE ZeroRing(w) \/ LeavePoll(w) \/ SortResults(w)
      BY <2>2, <2>3, <2>4, WorkerStays DEF ZeroRing, LeavePoll, SortResults
    <2>5. /\ <<w, "thread">> \in Blocks /\ <<w, "results">> \in Blocks
          /\ <<w, recorder[w]>> \in Blocks
      BY <2>1, WorkersHaveBlocks DEF WorkerTypes
    <2>6. CASE CreateWorker(w) \/ AllocateRing(w) \/ AllocateResults(w)
      <3>1. \E b \in Blocks : \E n : Allocate(b, n)
        BY <2>5, <2>6 DEF CreateWorker, AllocateRing, AllocateResults
      <3>2. QED
        BY <2>2, <2>3, <3>1, AllocateKeeps
    <2>7. CASE FreeResults(w) \/ DestroyRing(w)
      <3>1. \E b \in Blocks : Release(b)
        BY <2>5, <2>7 DEF FreeResults, DestroyRing
      <3>2. QED
        BY <2>2, <2>3, <3>1, ReleaseKeeps
    <2>8. QED
      BY <1>2, <2>4, <2>6, <2>7 DEF WorkerStep
  <1>3. QED
    BY <1>1, <1>2

(* Who has the file's pages, at every point of the feed thread.            *)
THEOREM InvariantHolds == Spec => []Inv
  <1>1. Inv /\ [Next]_vars => Inv'
    <2> SUFFICES ASSUME Inv, [Next]_vars PROVE Inv'
      OBVIOUS
    <2>1. CASE FeedStep
      BY <2>1, OpenFileKeeps, OpenNoFileKeeps, PollFeedKeeps, DestroyFeedHandlerKeeps,
         DestroyFileSourceKeeps DEF FeedStep
    <2>2. ASSUME NEW w \in Workers, CreateWorker(w) \/ WorkerStep(w) PROVE Inv'
      BY <2>2, WorkerStepKeeps
    <2>3. CASE UNCHANGED vars
      BY <2>3 DEF vars, feedVars, workerVars, Inv, Types, LossesExplained, Mapped, FilePages
    <2>4. QED
      BY <2>1, <2>2, <2>3 DEF Next
  <1>2. QED
    BY <1>1, InitInv, PTL DEF Spec

(* A crash, a lost page or a shared one always goes back to a file that    *)
(* was not mapped or to a block in the gap between the two unmaps.         *)
THEOREM LossesAreExplained == Spec => []LossesExplained
  <1>1. Inv => LossesExplained
    BY DEF Inv
  <1>2. QED
    BY <1>1, InvariantHolds, PTL

-----------------------------------------------------------------------------
(* Nothing is left behind.                                                 *)

(* What a worker does not have, or no longer, at a point of its program.   *)
Unheld(pc, rec) ==
    CASE pc = "create" -> {"thread", "event", "parser", "results"}
      [] pc = "construct" -> IF rec = "event" THEN {"event", "parser", "results"}
                             ELSE {"parser", "results"}
      [] pc = "zero" -> IF rec = "event" THEN {"parser", "results"} ELSE {"results"}
      [] pc \in {"poll", "report"} -> {"results"}
      [] pc = "destroy" -> IF rec = "event" THEN {"parser", "results"} ELSE {"results"}
      [] pc = "done" -> {"event", "parser", "results"}
      [] OTHER -> {}

(* Every mapped page has somebody who has still to unmap it, also when the *)
(* second unmap has taken it from one block and malloc given it to         *)
(* another.                                                                *)
PagesAccounted ==
    /\ \A a \in Addresses : owner[a] = File => feed_pc \in Mapped /\ a \in FilePages
    /\ \A a \in Addresses : \A b \in Blocks : owner[a] = b => a \in memory[b]

(* At the end of its program a worker has only what belongs to its thread. *)
HoldsInOrder(w) ==
    /\ worker_pc[w] = "create" => recorder[w] = "event"
    /\ \A k \in Unheld(worker_pc[w], recorder[w]) : memory[<<w, k>>] = {}

LEMMA FeedStepAccounts ==
    ASSUME Types, feed_pc = "open" => map = Failed, PagesAccounted, FeedStep
    PROVE  PagesAccounted' /\ UNCHANGED <<worker_pc, recorder, memory>>
  <1> USE DEF PagesAccounted
  <1>1. UNCHANGED <<worker_pc, recorder, memory>>
    BY DEF FeedStep, OpenFile, OpenNoFile, PollFeed, DestroyFeedHandler, DestroyFileSource,
       workerVars
  <1>4. CASE OpenFile
    <2>1. /\ feed_pc = "open" /\ feed_pc' \in Mapped /\ map = Failed
          /\ \A a \in Addresses : owner[a] # File
      BY <1>4 DEF OpenFile, FeedAt, Mapped
    <2>2. PICK n \in FileSizes :
            /\ size' = n
            /\ \/ /\ n = 0 \/ FreeRuns(n) = {}
                  /\ map' = Failed
                  /\ UNCHANGED owner
               \/ n > 0 /\ \E start \in FreeRuns(n) :
                              map' = start /\ Map(Pages(start, n), File)
      BY <1>4 DEF OpenFile
    <2>3. CASE map' = Failed /\ UNCHANGED owner
      BY <1>1, <2>1, <2>3
    <2>4. ASSUME NEW start \in FreeRuns(n), map' = start, Map(Pages(start, n), File)
          PROVE  PagesAccounted'
      <3>1. \A a \in Addresses :
              owner'[a] = IF a \in Pages(start, n) THEN File ELSE owner[a]
        BY <2>4, MapTyped DEF Types
      <3>2. map' # Failed
        BY <2>4, FreeRunTyped DEF Failed
      <3>3. FilePages' = Pages(start, n)
        BY <2>2, <2>4, <3>2 DEF FilePages, Pages
      <3>4. QED
        BY <1>1, <2>1, <3>1, <3>3, OwnersDiffer
    <2>5. QED
      BY <1>1, <2>2, <2>3, <2>4
  <1>5. CASE OpenNoFile
    <2>1. \A a \in Addresses : owner'[a] # File
      BY <1>5 DEF OpenNoFile, FeedAt, Mapped
    <2>2. UNCHANGED owner
      BY <1>5 DEF OpenNoFile
    <2>3. QED
      BY <1>1, <2>1, <2>2
  <1>6. CASE PollFeed \/ DestroyFeedHandler
    <2>1. UNCHANGED <<owner, map, size>> /\ FilePages' = FilePages /\ feed_pc' \in Mapped
      BY <1>6 DEF PollFeed, DestroyFeedHandler, FeedAt, Mapped, FilePages
    <2>2. QED
      BY <1>1, <2>1
  <1>7. CASE DestroyFileSource
    <2>1. \A a \in Addresses :
            owner'[a] = IF a \in FilePages THEN Nobody ELSE owner[a]
      BY <1>7, MapTyped DEF DestroyFileSource, Unmap, Types
    <2>2. QED
      BY <1>1, <2>1, OwnersDiffer
  <1>8. QED
    BY <1>1, <1>4, <1>5, <1>6, <1>7 DEF FeedStep

LEMMA AllocateAccounts ==
    ASSUME Types, PagesAccounted, NEW b \in Blocks, NEW n, Allocate(b, n), memory[b] = {},
           UNCHANGED feedVars
    PROVE  /\ PagesAccounted'
           /\ \A c \in Blocks \ {b} : memory'[c] = memory[c]
  <1> USE DEF PagesAccounted
  <1>1. PICK start \in FreeRuns(n) :
          /\ Map(Pages(start, n), b)
          /\ memory' = [memory EXCEPT ![b] = Pages(start, n)]
    BY DEF Allocate
  <1>2. \A a \in Addresses : owner'[a] = IF a \in Pages(start, n) THEN b ELSE owner[a]
    BY <1>1, MapTyped DEF Types
  <1>3. /\ memory'[b] = Pages(start, n)
        /\ \A c \in Blocks \ {b} : memory'[c] = memory[c]
    BY <1>1 DEF Types
  <1>4. feed_pc' = feed_pc /\ FilePages' = FilePages
    BY DEF feedVars, FilePages
  <1>5. QED
    BY <1>2, <1>3, <1>4, OwnersDiffer

LEMMA ReleaseAccounts ==
    ASSUME Types, PagesAccounted, NEW b \in Blocks, Release(b), UNCHANGED feedVars
    PROVE  /\ PagesAccounted'
           /\ memory'[b] = {}
           /\ \A c \in Blocks \ {b} : memory'[c] = memory[c]
  <1> USE DEF PagesAccounted
  <1>1. \A a \in Addresses : owner'[a] = IF a \in memory[b] THEN Nobody ELSE owner[a]
    BY MapTyped DEF Release, Unmap, Types
  <1>2. /\ memory'[b] = {}
        /\ \A c \in Blocks \ {b} : memory'[c] = memory[c]
    BY DEF Release, Types
  <1>3. feed_pc' = feed_pc /\ FilePages' = FilePages
    BY DEF feedVars, FilePages
  <1>4. QED
    BY <1>1, <1>2, <1>3, OwnersDiffer

(* Another worker's step changes neither a worker's program nor its memory. *)
LEMMA WorkerStepAccounts ==
    ASSUME Types, PagesAccounted, \A v \in Workers : HoldsInOrder(v),
           NEW w \in Workers, CreateWorker(w) \/ WorkerStep(w)
    PROVE  PagesAccounted' /\ \A v \in Workers : HoldsInOrder(v)'
  <1> DEFINE Kinds == {"thread", "event", "parser", "results"}
  <1>1. /\ worker_pc[w] \in {"create", "construct", "zero", "poll", "report",
                             "sort", "sorted", "destroy", "done"}
        /\ recorder[w] \in {"event", "parser"}
        /\ HoldsInOrder(w)
        /\ \A k \in Kinds : <<w, k>> \in Blocks
    BY WorkersHaveBlocks DEF Types
  <1>2. UNCHANGED feedVars
    BY DEF WorkerStep, CreateWorker, AllocateRing, ZeroRing, LeavePoll, AllocateResults,
       SortResults, FreeResults, DestroyRing, ComesTo, Crash
  <1>3. \A v \in Workers \ {w} : worker_pc'[v] = worker_pc[v] /\ recorder'[v] = recorder[v]
    BY DEF Types, WorkerStep, CreateWorker, AllocateRing, ZeroRing, LeavePoll, AllocateResults,
       SortResults, FreeResults, DestroyRing, ComesTo, Crash, workerVars
  <1>4. CASE ZeroRing(w) \/ LeavePoll(w) \/ SortResults(w) \/ Crash(w)
    <2>1. UNCHANGED <<owner, memory>>
      BY <1>4 DEF ZeroRing, LeavePoll, SortResults, Crash, workerVars
    <2>2. PagesAccounted'
      BY <1>2, <2>1 DEF PagesAccounted, feedVars, FilePages
    <2>3. HoldsInOrder(w)'
      BY <1>1, <1>4, <2>1 DEF Types, HoldsInOrder, Unheld, ZeroRing, LeavePoll, SortResults,
         Crash, ComesTo, WorkerAt, workerVars
    <2>4. \A v \in Workers \ {w} : HoldsInOrder(v)'
      BY <1>3, <2>1 DEF HoldsInOrder
    <2>5. QED
      BY <2>2, <2>3, <2>4
  <1>5. ASSUME NEW k \in Kinds, NEW n, Allocate(<<w, k>>, n), memory[<<w, k>>] = {},
               \A l \in Unheld(worker_pc[w], recorder[w])' :
                    l # k /\ l \in Unheld(worker_pc[w], recorder[w]) /\ l \in Kinds,
               worker_pc'[w] # "create"
        PROVE  PagesAccounted' /\ \A v \in Workers : HoldsInOrder(v)'
    <2>1. /\ PagesAccounted'
          /\ \A c \in Blocks \ {<<w, k>>} : memory'[c] = memory[c]
      BY <1>1, <1>2, <1>5, AllocateAccounts
    <2>2. \A v \in Workers \ {w} : \A l \in Kinds : memory'[<<v, l>>] = memory[<<v, l>>]
      BY <2>1, WorkersHaveBlocks
    <2>3. HoldsInOrder(w)'
      BY <1>1, <1>5, <2>1 DEF HoldsInOrder
    <2>4. \A v \in Workers \ {w} : HoldsInOrder(v)'
      <3> SUFFICES ASSUME NEW v \in Workers \ {w} PROVE HoldsInOrder(v)'
        OBVIOUS
      <3>1. worker_pc'[v] = worker_pc[v] /\ recorder'[v] = recorder[v] /\ HoldsInOrder(v)
        BY <1>3
      <3>2. \A l \in Unheld(worker_pc[v], recorder[v]) : memory'[<<v, l>>] = memory[<<v, l>>]
        <4>1. Unheld(worker_pc[v], recorder[v]) \subseteq Kinds
          BY DEF Unheld
        <4>2. QED
          BY <2>2, <4>1
      <3>3. QED
        BY <3>1, <3>2 DEF HoldsInOrder
    <2>5. QED
      BY <2>1, <2>3, <2>4
  <1>6. ASSUME NEW k \in Kinds, Release(<<w, k>>),
               \A l \in Unheld(worker_pc[w], recorder[w])' :
                    (l = k \/ l \in Unheld(worker_pc[w], recorder[w])) /\ l \in Kinds,
               worker_pc'[w] # "create"
        PROVE  PagesAccounted' /\ \A v \in Workers : HoldsInOrder(v)'
    <2>1. /\ PagesAccounted' /\ memory'[<<w, k>>] = {}
          /\ \A c \in Blocks \ {<<w, k>>} : memory'[c] = memory[c]
      BY <1>1, <1>2, <1>6, ReleaseAccounts
    <2>2. \A v \in Workers \ {w} : \A l \in Kinds : memory'[<<v, l>>] = memory[<<v, l>>]
      BY <2>1, WorkersHaveBlocks
    <2>3. HoldsInOrder(w)'
      BY <1>1, <1>6, <2>1 DEF HoldsInOrder
    <2>4. \A v \in Workers \ {w} : HoldsInOrder(v)'
      <3> SUFFICES ASSUME NEW v \in Workers \ {w} PROVE HoldsInOrder(v)'
        OBVIOUS
      <3>1. worker_pc'[v] = worker_pc[v] /\ recorder'[v] = recorder[v] /\ HoldsInOrder(v)
        BY <1>3
      <3>2. \A l \in Unheld(worker_pc[v], recorder[v]) : memory'[<<v, l>>] = memory[<<v, l>>]
        <4>1. Unheld(worker_pc[v], recorder[v]) \subseteq Kinds
          BY DEF Unheld
        <4>2. QED
          BY <2>2, <4>1
      <3>3. QED
        BY <3>1, <3>2 DEF HoldsInOrder
    <2>5. QED
      BY <2>1, <2>3, <2>4
  <1>7. CASE CreateWorker(w)
    <2>1. /\ worker_pc[w] = "create" /\ recorder[w] = "event" /\ recorder' = recorder
          /\ worker_pc'[w] = "construct" /\ Allocate(<<w, "thread">>, ThreadPages)
      BY <1>1, <1>7 DEF CreateWorker, ComesTo, WorkerAt, Types, HoldsInOrder
    <2>2. memory[<<w, "thread">>] = {}
      BY <1>1, <2>1 DEF HoldsInOrder, Unheld
    <2>3. QED
      BY <1>5, <2>1, <2>2 DEF Unheld
  <1>8. CASE AllocateRing(w)
    <2>1. /\ worker_pc[w] = "construct" /\ recorder' = recorder
          /\ worker_pc'[w] = "zero" /\ Allocate(<<w, recorder[w]>>, RingPages)
      BY <1>1, <1>8 DEF AllocateRing, ComesTo, WorkerAt, Types
    <2>2. memory[<<w, recorder[w]>>] = {}
      BY <1>1, <2>1 DEF HoldsInOrder, Unheld
    <2>3. QED
      BY <1>1, <1>5, <2>1, <2>2 DEF Unheld
  <1>9. CASE AllocateResults(w)
    <2>1. /\ worker_pc[w] = "report" /\ recorder' = recorder /\ worker_pc'[w] = "sort"
          /\ \E n : Allocate(<<w, "results">>, n)
      BY <1>1, <1>9 DEF AllocateResults, ComesTo, WorkerAt, Types
    <2>2. memory[<<w, "results">>] = {}
      BY <1>1, <2>1 DEF HoldsInOrder, Unheld
    <2>3. QED
      BY <1>1, <1>5, <2>1, <2>2 DEF Unheld
  <1>10. CASE FreeResults(w)
    <2>1. /\ worker_pc[w] = "sorted" /\ recorder'[w] = "parser" /\ Release(<<w, "results">>)
          /\ worker_pc'[w] \in {"report", "destroy"}
      BY <1>1, <1>10 DEF FreeResults, ComesTo, WorkerAt, Types
    <2>2. QED
      BY <1>1, <1>6, <2>1 DEF Unheld
  <1>11. CASE DestroyRing(w)
    <2>1. /\ worker_pc[w] = "destroy" /\ recorder'[w] = "event"
          /\ Release(<<w, recorder[w]>>)
          /\ worker_pc'[w] = IF recorder[w] = "parser" THEN "destroy" ELSE "done"
      BY <1>1, <1>11 DEF DestroyRing, ComesTo, WorkerAt, Types
    <2>2. QED
      BY <1>1, <1>6, <2>1 DEF Unheld
  <1>12. QED
    BY <1>4, <1>7, <1>8, <1>9, <1>10, <1>11 DEF WorkerStep

(* When main has joined the threads, only what the C library keeps for     *)
(* them is mapped, whatever the second unmap has done.                     *)
THEOREM NothingIsLeaked == Spec => []NothingLeaked
  <1> DEFINE Accounts == PagesAccounted /\ \A w \in Workers : HoldsInOrder(w)
  <1>1. Init => Accounts
    <2> SUFFICES ASSUME Init PROVE Accounts
      OBVIOUS
    <2>1. PagesAccounted
      BY OwnersDiffer DEF Init, PagesAccounted
    <2>2. \A w \in Workers : HoldsInOrder(w)
      BY WorkersHaveBlocks DEF Init, HoldsInOrder, Unheld
    <2>3. QED
      BY <2>1, <2>2
  <1>2. Inv /\ Accounts /\ [Next]_vars => Accounts'
    <2> SUFFICES ASSUME Inv, Accounts, [Next]_vars PROVE Accounts'
      OBVIOUS
    <2>1. Types /\ (feed_pc = "open" => map = Failed)
      BY DEF Inv
    <2>2. CASE FeedStep
      BY <2>1, <2>2, FeedStepAccounts DEF HoldsInOrder
    <2>3. ASSUME NEW w \in Workers, CreateWorker(w) \/ WorkerStep(w) PROVE Accounts'
      BY <2>1, <2>3, WorkerStepAccounts
    <2>4. CASE UNCHANGED vars
      BY <2>4 DEF vars, feedVars, workerVars, PagesAccounted, HoldsInOrder, FilePages
    <2>5. QED
      BY <2>2, <2>3, <2>4 DEF Next
  <1>3. Inv /\ Accounts => NothingLeaked
    <2> SUFFICES ASSUME Inv, Accounts, Joined, NEW a \in Addresses, owner[a] # Nobody
                 PROVE  \E w \in Workers : a \in memory[<<w, "thread">>]
      BY DEF NothingLeaked
    <2>1. owner[a] # File
      BY DEF PagesAccounted, Joined, Mapped
    <2>2. owner[a] \in Blocks /\ a \in memory[owner[a]]
      BY <2>1 DEF Inv, Types, PagesAccounted
    <2>3. PICK w \in Workers, k \in {"thread", "event", "parser", "results"} :
            owner[a] = <<w, k>>
      BY <2>2 DEF Blocks
    <2>4. k \notin {"event", "parser", "results"}
      BY <2>2, <2>3 DEF Joined, HoldsInOrder, Unheld
    <2>5. QED
      BY <2>2, <2>3, <2>4
  <1>4. QED
    BY <1>1, <1>2, <1>3, InvariantHolds, PTL DEF Spec
===============================================================================
