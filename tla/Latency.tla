-------------------------------- MODULE Latency --------------------------------
(***************************************************************************)
(* A LatencyRecorder of the market data handler: a scope reads the time    *)
(* stamp counter when it begins and when it ends, the difference goes into *)
(* a ring of the last samples, and the handler's destructor reports        *)
(* quantiles of what the ring holds.                                       *)
(*                                                                         *)
(* A thread that is not pinned (sched_setaffinity may fail, and its result *)
(* is not looked at) may read a counter that is behind the one it read     *)
(* before; the unsigned difference then wraps around.  The ring's items    *)
(* are of the C library's signed time_t, not of the recorder's unsigned    *)
(* one, so such a sample is sorted before all others.                      *)
(***************************************************************************)
EXTENDS Integers, Sequences, FiniteSets

CONSTANTS
    Window,         \* MAX_SAMPLES: the ring's capacity
    TscRange,       \* 2^64: the counter's values
    Steps,          \* how far the counter may have moved between two reads
    Quantiles,      \* pairs <<n, d>> for the quantile n/d
    SamplesMax      \* how many samples are explored

ASSUME LatencyAssumption ==
    /\ Window \in Nat \ {0}
    /\ TscRange \in Nat \ {0} /\ TscRange % 2 = 0
    /\ Steps \subseteq Int
    /\ \A q \in Quantiles : q \in Nat \X Nat /\ q[1] < q[2]
    /\ SamplesMax \in Nat

VARIABLES
    tsc,            \* the counter, as last read
    t0,             \* t0_ of the scope that is open, NoScope without one
    buffer,         \* buffer_
    size,           \* size_: the samples pushed so far
    recorded,       \* the samples, in the order of their scopes
    report          \* what has been reported, if anything

vars == <<tsc, t0, buffer, size, recorded, report>>

Times == 0 .. TscRange - 1
NoScope == -1

-----------------------------------------------------------------------------

Init ==
    /\ tsc \in Times
    /\ t0 = NoScope
    /\ buffer = [i \in 0 .. Window - 1 |-> 0]
    /\ size = 0
    /\ recorded = << >>
    /\ report = << >>

Rdtsc == \E d \in Steps : tsc' = (tsc + d) % TscRange

(* record_scope                                                            *)
RecordScope ==
    /\ t0 = NoScope /\ report = << >>
    /\ size < SamplesMax
    /\ Rdtsc
    /\ t0' = tsc'
    /\ UNCHANGED <<buffer, size, recorded, report>>

(* Mutant of Slot: indexed by the number of samples held.                  *)
SlotOfCount(n) == (IF n < Window THEN n ELSE Window) % Window

(* size_ & MASK                                                            *)
Slot(n) == n % Window

Push(sample) ==
    /\ buffer' = [buffer EXCEPT ![Slot(size)] = sample]
    /\ size' = size + 1

(* rdtsc() - t0_                                                           *)
Elapsed(start, end) == (end - start) % TscRange

(* The scope ends: ~recorder.                                              *)
EndScope ==
    /\ t0 # NoScope
    /\ Rdtsc
    /\ LET sample == Elapsed(t0, tsc')
       IN  /\ Push(sample)
           /\ recorded' = Append(recorded, sample)
    /\ t0' = NoScope
    /\ UNCHANGED report

Count == IF size < Window THEN size ELSE Window

(* The order of the samples in results: as signed numbers.                 *)
Signed(sample) == IF sample < TscRange \div 2 THEN sample ELSE sample - TscRange

InOrder(results) ==
    \A i, j \in DOMAIN results : i < j => Signed(results[i]) <= Signed(results[j])

(* sort: the same items in order.                                          *)
Sorted(items) ==
    LET D == DOMAIN items
        permutations == {p \in [D -> D] : \A i, j \in D : p[i] = p[j] => i = j}
    IN  CHOOSE results \in {[i \in D |-> items[p[i]]] : p \in permutations} :
            InOrder(results)

(* Mutant of Index: the quantile of the count.                             *)
IndexOfCount(q) == (Count * q[1]) \div q[2]

(* The conversion of the product of doubles.  It is the floor of the exact *)
(* product for all quantiles in use and counts up to MAX_SAMPLES.          *)
Index(q) == ((Count - 1) * q[1]) \div q[2]

(* LatencyRecorder::report, in the handler's destructor.  Without samples  *)
(* nothing is printed.                                                     *)
Report ==
    /\ t0 = NoScope /\ report = << >>
    /\ Count > 0
    /\ LET results == Sorted([i \in 1 .. Count |-> buffer[i - 1]])
       IN  report' = [q \in Quantiles |-> results[Index(q) + 1]]
    /\ UNCHANGED <<tsc, t0, buffer, size, recorded>>

Next == RecordScope \/ EndScope \/ Report

Spec == Init /\ [][Next]_vars

-----------------------------------------------------------------------------
(* Properties.                                                             *)

(* The numbers of the samples that are still there.                        *)
Last == {n \in 1 .. Len(recorded) : n > Len(recorded) - Window}

(* However often the ring has wrapped around, it holds every one of the    *)
(* last samples and, once full, nothing else.                              *)
LastSamplesKept ==
    /\ size = Len(recorded)
    /\ \A n \in Last : buffer[(n - 1) % Window] = recorded[n]

Backward == {n \in Last : recorded[n] >= TscRange \div 2}

(* Without samples of a counter that went backwards, a reported quantile q *)
(* is a sample of the window with the share q of the others, rounded down, *)
(* not above it.                                                           *)
QuantilesOfTheLast ==
    report # << >> /\ Backward = {} =>
        \A q \in Quantiles :
            LET rank == ((Cardinality(Last) - 1) * q[1]) \div q[2]
            IN  /\ \E n \in Last : recorded[n] = report[q]
                /\ Cardinality({n \in Last : recorded[n] < report[q]}) <= rank
                /\ rank < Cardinality({n \in Last : recorded[n] <= report[q]})

(* A quantile is reported as an absurdly long latency exactly if so many   *)
(* samples went backwards that they fill the places up to its own.         *)
BackwardSamplesShow ==
    report # << >> =>
        \A q \in Quantiles :
            report[q] >= TscRange \div 2
                <=> ((Cardinality(Last) - 1) * q[1]) \div q[2] < Cardinality(Backward)
================================================================================
