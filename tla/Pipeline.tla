------------------------------- MODULE Pipeline -------------------------------
(***************************************************************************)
(* The threads of bench/replay.cpp around the SPMC queue: the feed thread, *)
(* in which FeedHandler pushes the frames FileSource cuts out of a mapped  *)
(* file, and one worker per MarketDataHandler, which reads each frame from *)
(* the queue in three calls and leaves its loop when the queue is closed.  *)
(*                                                                         *)
(* A byte of the file is modelled by its offset.  A frame is its packet    *)
(* size, the header and the body of one message; whether a worker reads    *)
(* the body or skips it depends on the message and on the orders it        *)
(* follows, which is modelled in MarketData.                               *)
(***************************************************************************)
EXTENDS SPMC, FiniteSets

CONSTANTS
    SizeWidth,      \* serial size of nasdaq::PacketSize
    HeaderWidth,    \* serial size of nasdaq::HeaderView
    Files           \* the files replayed, see IsFile

(* at: the offsets at which frames begin, and the one after the last       *)
(* frame.  kind: what a worker's handler makes of the message: it reads    *)
(* every "add", an "order" message if it is about its stock, and nothing   *)
(* else.  size: the length of the file, which may cut the last frame off.  *)
(* The files are well-formed: a frame is as long as a message of its type, *)
(* so that one length stands for packet_size and for serial_size_v.        *)
IsFile(f) ==
    LET n == Len(f.kind) IN
    /\ n > 0
    /\ f.kind \in Seq({"add", "order", "other"})
    /\ f.at \in Seq(Nat)
    /\ Len(f.at) = n + 1
    /\ f.at[1] = 0
    /\ \A i, j \in 1 .. n + 1 :
          i < j => f.at[i] + SizeWidth + HeaderWidth < f.at[j]
    /\ f.size \in 0 .. f.at[n + 1]

ASSUME FilesAssumption ==
    /\ SizeWidth \in Nat \ {0}
    /\ HeaderWidth \in Nat \ {0}
    /\ \A f \in Files : IsFile(f) /\ f.size <= MaxItems

(* The longest frame, of 2 + 65535 bytes, fits in the ring of 2^20.        *)
ASSUME FramesFitAssumption ==
    \A f \in Files : \A i \in DOMAIN f.kind : f.at[i + 1] - f.at[i] <= Capacity

(* What the threads ask of the queue is among the calls SPMC allows.       *)
ASSUME CallsAssumption ==
    /\ {SizeWidth, HeaderWidth} \subseteq PopSizes
    /\ \A f \in Files : \A i \in DOMAIN f.kind :
          /\ f.at[i + 1] - f.at[i] \in PushSizes
          /\ f.at[i + 1] - f.at[i] - SizeWidth - HeaderWidth \in PopSizes

VARIABLES
    file,       \* the file mapped by FileSource
    ptr,        \* ptr_: offset of what next() has not returned yet
    feed_pc,    \* the feed thread: "poll", "push", "close", "joined"
    frame,      \* next_frame: the frame being pushed, 0 before the first
    stream,     \* the byte of the file at each place of the queue's stream
    stage,      \* each worker's poll: "poll", "size", "header", "body",
                \* "skip"; "stopped" once it has left its loop
    packet      \* the frame the packet_size of the worker's poll came from

feedVars == <<ptr, feed_pc, frame, stream>>
workerVars == <<stage, packet>>
pipelineVars == <<vars, file, feedVars, workerVars>>

-----------------------------------------------------------------------------
(* Frames of the file.                                                     *)

Frames == DOMAIN file.kind

FrameSize(i) == file.at[i + 1] - file.at[i]

(* packet_body_size: what the packet size leaves after the header.         *)
BodySize(i) == FrameSize(i) - SizeWidth - HeaderWidth

(* The frame a byte of the file belongs to.                                *)
FrameOf(offset) ==
    CHOOSE i \in Frames : file.at[i] <= offset /\ offset < file.at[i + 1]

(* The frame the items in a worker's read_ptr come from.                   *)
FrameRead(c) == FrameOf(stream[read_ptr[c][1] + 1])

-----------------------------------------------------------------------------

PipelineInit ==
    /\ Init
    /\ file \in Files
    /\ ptr = 0
    /\ feed_pc = "poll"
    /\ frame = 0
    /\ stream = << >>
    /\ stage = [c \in Consumers |-> "poll"]
    /\ packet = [c \in Consumers |-> 0]

-----------------------------------------------------------------------------
(* The feed thread.                                                        *)

(* FileSource::next finds a complete frame, and FeedHandler's              *)
(* publish_queue begins to push it.                                        *)
NextFrame ==
    /\ feed_pc = "poll"
    /\ \E i \in Frames :
          /\ ptr = file.at[i]
          /\ file.at[i + 1] <= file.size
          /\ ptr' = file.at[i + 1]
          /\ frame' = i
          /\ TryPushMany(FrameSize(i))
    /\ feed_pc' = "push"
    /\ UNCHANGED <<file, stream, workerVars>>

(* Mutant of RetryFrame: a frame the queue has no room for is dropped.     *)
DropFrame ==
    /\ feed_pc = "push"
    /\ push_pc = "idle"
    /\ response = "FAILED_BUFFER_FULL"
    /\ feed_pc' = "poll"
    /\ UNCHANGED <<vars, file, ptr, frame, stream, workerVars>>

(* publish_queue pushes again until the answer is SUCCESS.                 *)
RetryFrame ==
    /\ feed_pc = "push"
    /\ response \in {"FAILED_BUFFER_FULL", "FAILED_PAYLOAD_TOO_LARGE"}
    /\ TryPushMany(FrameSize(frame))
    /\ UNCHANGED <<file, feedVars, workerVars>>

(* The steps of a push that no other thread can see, or that refuse it.    *)
PushStep ==
    /\ \/ \E c \in Consumers : LoadReadIdx(c)
       \/ RefreshReadIdx
       \/ StoreItem
    /\ UNCHANGED <<file, feedVars, workerVars>>

(* The push succeeds, and poll returns true.                               *)
PublishFrame ==
    /\ PublishItems
    /\ stream' = stream \o [k \in 1 .. items |-> file.at[frame] + k - 1]
    /\ feed_pc' = "poll"
    /\ UNCHANGED <<file, ptr, frame, workerVars>>

(* Mutant of InvalidFormat: it ends the feed like STREAM_CLOSED.            *)
InvalidFormatEnds ==
    /\ feed_pc = "poll"
    /\ \E i \in Frames :
          ptr = file.at[i] /\ ptr < file.size /\ file.size < file.at[i + 1]
    /\ feed_pc' = "close"
    /\ UNCHANGED <<vars, file, ptr, frame, stream, workerVars>>

(* INVALID_FORMAT: the file ends within a frame.  next() moves nothing and *)
(* check_stream_closed makes poll return true, so the thread polls again.  *)
InvalidFormat ==
    /\ feed_pc = "poll"
    /\ \E i \in Frames :
          ptr = file.at[i] /\ ptr < file.size /\ file.size < file.at[i + 1]
    /\ UNCHANGED pipelineVars

(* Mutant of StreamClosed: STREAM_CLOSED is polled again, too.              *)
StreamClosedPolledAgain ==
    /\ feed_pc = "poll"
    /\ ptr = file.size
    /\ UNCHANGED pipelineVars

(* STREAM_CLOSED: poll returns false and the thread leaves its loop.       *)
StreamClosed ==
    /\ feed_pc = "poll"
    /\ ptr = file.size
    /\ feed_pc' = "close"
    /\ UNCHANGED <<vars, file, ptr, frame, stream, workerVars>>

(* ~FeedHandler, at the end of the thread.                                 *)
DestroyFeedHandler ==
    /\ feed_pc = "close"
    /\ Close
    /\ feed_pc' = "joined"
    /\ UNCHANGED <<file, ptr, frame, stream, workerVars>>

FeedStep ==
    \/ NextFrame
    \/ RetryFrame
    \/ PushStep
    \/ PublishFrame
    \/ InvalidFormat
    \/ StreamClosed
    \/ DestroyFeedHandler

-----------------------------------------------------------------------------
(* A worker: MarketDataHandler::poll in a loop.                            *)

(* The worker goes on to s, having called the queue from within stage s0.  *)
Proceed(c, s0, s) == stage[c] = s0 /\ stage' = [stage EXCEPT ![c] = s]

Returned(c) == pop_pc[c] = "idle"

(* try_read_from_queue<PacketSize>.                                        *)
Poll(c) ==
    /\ Proceed(c, "poll", "size")
    /\ TryPopMany(c, SizeWidth)
    /\ UNCHANGED <<file, feedVars, packet>>

(* Too little in the queue: poll returns true, and is called again.        *)
PollAgain(c) ==
    /\ Proceed(c, "size", "poll")
    /\ Returned(c)
    /\ failure[c] = "BUFFER_INSUFFICIENT"
    /\ UNCHANGED <<vars, file, feedVars, packet>>

(* Mutant of Stop: any failure ends the loop.                              *)
StopOnAnyFailure(c) ==
    /\ Proceed(c, "size", "stopped")
    /\ Returned(c)
    /\ failure[c] # "NONE"
    /\ UNCHANGED <<vars, file, feedVars, packet>>

(* BUFFER_CLOSED: poll returns false, which ends the worker's loop.        *)
Stop(c) ==
    /\ Proceed(c, "size", "stopped")
    /\ Returned(c)
    /\ failure[c] = "BUFFER_CLOSED"
    /\ UNCHANGED <<vars, file, feedVars, packet>>

(* Mutant of ReadHeader: asks for one byte more than a header has.         *)
ReadWideHeader(c) ==
    /\ Proceed(c, "size", "header")
    /\ Returned(c)
    /\ failure[c] = "NONE"
    /\ packet' = [packet EXCEPT ![c] = FrameRead(c)]
    /\ TryPopMany(c, HeaderWidth + 1)
    /\ UNCHANGED <<file, feedVars>>

(* read_from_queue_unsafe<HeaderView>.                                     *)
ReadHeader(c) ==
    /\ Proceed(c, "size", "header")
    /\ Returned(c)
    /\ failure[c] = "NONE"
    /\ packet' = [packet EXCEPT ![c] = FrameRead(c)]
    /\ TryPopMany(c, HeaderWidth)
    /\ UNCHANGED <<file, feedVars>>

(* The result of the header's pop is ignored; had it failed, the header    *)
(* would be all zeros, a message no handler knows.                         *)
HeaderKind(c) == IF failure[c] = "NONE" THEN file.kind[FrameRead(c)] ELSE "other"

(* read_from_queue_unsafe of the message the header announces: as many     *)
(* bytes as a message of that type has, which in a well-formed file is     *)
(* what its packet size leaves after the header.                           *)
ReadBody(c) ==
    /\ Proceed(c, "header", "body")
    /\ Returned(c)
    /\ HeaderKind(c) \in {"add", "order"}
    /\ TryPopMany(c, BodySize(FrameRead(c)))
    /\ UNCHANGED <<file, feedVars, packet>>

(* Mutant of SkipBody: the header's bytes are skipped once more.           *)
SkipPacket(c) ==
    /\ Proceed(c, "header", "skip")
    /\ Returned(c)
    /\ HeaderKind(c) \in {"order", "other"}
    /\ TrySkipMany(c, BodySize(packet[c]) + HeaderWidth)
    /\ UNCHANGED <<file, feedVars, packet>>

(* try_skip_many(packet_body_size).                                        *)
SkipBody(c) ==
    /\ Proceed(c, "header", "skip")
    /\ Returned(c)
    /\ HeaderKind(c) \in {"order", "other"}
    /\ TrySkipMany(c, BodySize(packet[c]))
    /\ UNCHANGED <<file, feedVars, packet>>

(* poll returns true, whatever the last call returned.                     *)
PollDone(c) ==
    /\ Proceed(c, "body", "poll") \/ Proceed(c, "skip", "poll")
    /\ Returned(c)
    /\ UNCHANGED <<vars, file, feedVars, packet>>

PopStep(c) == ConsumerStep(c) /\ UNCHANGED <<file, feedVars, workerVars>>

WorkerStep(c) ==
    \/ Poll(c)
    \/ PollAgain(c)
    \/ Stop(c)
    \/ ReadHeader(c)
    \/ ReadBody(c)
    \/ SkipBody(c)
    \/ PollDone(c)
    \/ PopStep(c)

-----------------------------------------------------------------------------

(* main has joined all its threads.                                        *)
Joined ==
    /\ feed_pc = "joined"
    /\ \A c \in Consumers : stage[c] = "stopped"
    /\ UNCHANGED pipelineVars

PipelineNext ==
    \/ FeedStep
    \/ \E c \in Consumers : WorkerStep(c)
    \/ Joined

PipelineSpec == PipelineInit /\ [][PipelineNext]_pipelineVars

(* Each thread is pinned to a core of its own and never waits: whatever    *)
(* the others do, it takes its next step some time.                        *)
FairPipelineSpec ==
    /\ PipelineSpec
    /\ WF_pipelineVars(FeedStep)
    /\ \A c \in Consumers : WF_pipelineVars(WorkerStep(c))

-----------------------------------------------------------------------------
(* Properties.                                                             *)

(* The pipeline's own variables have their types.                          *)
PipelineTypeOK ==
    /\ TypeOK
    /\ file \in Files
    /\ ptr \in Nat
    /\ feed_pc \in {"poll", "push", "close", "joined"}
    /\ frame \in Frames \cup {0}
    /\ stream \in Seq(Nat)
    /\ stage \in [Consumers -> {"poll", "size", "header", "body", "skip", "stopped"}]
    /\ packet \in [Consumers -> Frames \cup {0}]

Boundaries == {file.at[i] : i \in DOMAIN file.at}

(* The queue's stream is the file, byte for byte and up to the end of some *)
(* frame: however often the feed had to retry, no frame was dropped,       *)
(* repeated or published in part.                                          *)
StreamIsThePrefix ==
    /\ Len(stream) = write_idx
    /\ \A k \in 1 .. Len(stream) : stream[k] = k - 1
    /\ write_idx \in Boundaries

(* Where the worker's current poll began to read: its position without     *)
(* what this poll has moved over.                                          *)
FieldsDone(c) ==
    LET last == stage[c] # "poll" /\ failure[c] = "NONE" IN
    CASE stage[c] \in {"poll", "stopped"} -> 0
      [] stage[c] = "size" -> IF last THEN SizeWidth ELSE 0
      [] stage[c] = "header" -> SizeWidth + (IF last THEN HeaderWidth ELSE 0)
      [] OTHER -> SizeWidth + HeaderWidth
                  + (IF last THEN BodySize(packet[c]) ELSE 0)

(* Every poll begins at the first byte of a frame, and takes the header    *)
(* and the body from the frame its packet size belongs to: nothing a poll  *)
(* pops or skips throws the worker out of step with the frames.            *)
PollsAreAligned ==
    \A c \in Consumers : \E i \in DOMAIN file.at :
        /\ read_idx[c] = file.at[i] + FieldsDone(c)
        /\ stage[c] \in {"header", "body", "skip"} => packet[c] = i

(* Once a worker has a frame's packet size, the queue has the rest of the  *)
(* frame: read_from_queue_unsafe's assertion holds, and so does what poll  *)
(* takes for granted when it ignores the result of try_skip_many.          *)
RestOfFrameIsThere ==
    \A c \in Consumers :
        stage[c] \in {"header", "body", "skip"} /\ Returned(c) => failure[c] = "NONE"

(* A worker that has stopped has been through the whole file: the replay   *)
(* reconstructs the full depth, not that of all but the last frames.       *)
ReplayComplete ==
    \A c \in Consumers : stage[c] = "stopped" => read_idx[c] = file.size

(* How many frames end at or before an offset.                             *)
FramesUpTo(offset) == Cardinality({i \in Frames : file.at[i + 1] <= offset})

Truncated == file.size \notin Boundaries

(* Bytes and threads make the replay of frames that Replay describes.      *)
FrameReplay == INSTANCE Replay WITH
    Workers <- Consumers,
    complete <- FramesUpTo(file.size),
    truncated <- Truncated,
    fed <- FramesUpTo(write_idx),
    finished <- is_closed,
    handled <- [c \in Consumers |-> FramesUpTo(read_idx[c])],
    stopped <- {c \in Consumers : stage[c] = "stopped"}

ImplementsReplay == FrameReplay!Spec

(* The replay of a file of whole frames ends: the feed's spinning on a     *)
(* full queue and the workers' polling of an empty one make way for each   *)
(* other, and every thread is joined.                                      *)
ReplayEnds ==
    ~Truncated => <>(feed_pc = "joined" /\ \A c \in Consumers : stage[c] = "stopped")

(* Of a truncated file, every worker is brought every complete frame, and  *)
(* then none ever stops: the feed polls the rest of the file for ever.     *)
CompleteFramesArrive ==
    Truncated => \A c \in Consumers :
        <>[](read_idx[c] = file.at[FramesUpTo(file.size) + 1] /\ stage[c] # "stopped")
===============================================================================
