------------------------------ MODULE SendPath ------------------------------
(***************************************************************************)
(* The sending half of SpwRmapTCPNodeImpl. Application threads send read   *)
(* and write commands and time codes; the thread inside runLoop answers    *)
(* the read and write commands it receives. All but the time codes share   *)
(* send_buf_, guarded by send_buf_mtx_ from the moment the buffer is       *)
(* measured to the end of sendAll.                                         *)
(*                                                                         *)
(* Sizes are those of the code. Contents are abstract: <<s, n, op>> is the *)
(* frame of the n-th thing thread s sends, and reaches the socket as       *)
(* NumChunks chunks, any number of them per ::send.                        *)
(***************************************************************************)
EXTENDS Integers, Sequences, FiniteSets

CONSTANTS
    AppThreads,   \* application threads
    Loop,         \* the thread inside runLoop
    BufSize,      \* send_buffer_size
    Ops,          \* what the threads send
    PathLens,     \* lengths of target SpaceWire addresses
    ReplyLens,    \* lengths of reply addresses
    DataLens,     \* lengths of the data written or read
    NumChunks,    \* chunks per frame
    MaxSends,     \* bound: sends per application thread
    MaxReplies,   \* bound: commands the loop answers
    None

Threads  == AppThreads \union {Loop}
Commands == {"read", "write"}
Replies  == {"readReply", "writeReply"}

ASSUME SendAssumption ==
    /\ Loop \notin AppThreads /\ None \notin Threads
    /\ BufSize \in Nat
    /\ Ops \subseteq Commands \union Replies \union {"timecode"}
    /\ PathLens \subseteq Nat /\ ReplyLens \subseteq Nat
    /\ DataLens \subseteq Nat
    /\ NumChunks \in Nat \ {0}
    /\ MaxSends \in Nat /\ MaxReplies \in Nat

\* What is sent, with the lengths of its path, reply address and data where it
\* has them.
Configs ==
    LET Sent(op, paths, replies, datas) ==
          [op : Ops \intersect {op}, path : paths, reply : replies,
           data : datas]
    IN  Sent("read", PathLens, ReplyLens, {0})
          \union Sent("write", PathLens, ReplyLens, DataLens)
          \union Sent("readReply", {0}, ReplyLens, DataLens)
          \union Sent("writeReply", {0}, ReplyLens, {0})
          \union Sent("timecode", {0}, {0}, {0})

VARIABLES
    policy,  \* buffer_policy_: "Fixed" or "AutoResize"
    size,    \* send_buf_.size()
    content, \* the frame built in send_buf_
    owner,   \* who holds send_buf_mtx_
    pc,      \* where each thread is
    cfg,     \* what it is sending
    count,   \* things it has begun to send
    pos,     \* chunks of its frame already sent
    result,  \* how its last send ended
    stream   \* the chunks in the connection

vars == <<policy, size, content, owner, pc, cfg, count, pos, result, stream>>

-----------------------------------------------------------------------------
(* Sizes.                                                                  *)

FrameHeader == 12

\* (replyAddress.size() + 3) / 4 * 4
Padded(n) == ((n + 3) \div 4) * 4

\* getTotalSize of the four builders
TotalSize(c) ==
    CASE c.op = "read"       -> c.path + 4 + Padded(c.reply) + 12
      [] c.op = "write"      -> c.path + 4 + Padded(c.reply) + 12 + c.data + 1
      [] c.op = "readReply"  -> c.reply + 12 + c.data + 1
      [] c.op = "writeReply" -> c.reply + 8

\* The frame header is left out of the demand of a write too.
DemandNoHeader(c) ==
    IF c.op \in Commands
    THEN c.path + Padded(c.reply) + 4 + 12 + 1
            + (IF c.op = "write" THEN c.data ELSE 0)
    ELSE TotalSize(c) + FrameHeader

\* The size send_buf_ is compared with, and resized to, before the packet is
\* built. sendReadPacket_ does not count the frame header.
Demand(c) ==
    CASE c.op = "read"  -> c.path + Padded(c.reply) + 4 + 12 + 1
      [] c.op = "write" ->
           c.path + Padded(c.reply) + 4 + 12 + 1 + c.data + FrameHeader
      [] OTHER          -> TotalSize(c) + FrameHeader

\* The frame header is subtracted twice.
BuildsTwice(c, n) == n - 2 * FrameHeader >= TotalSize(c)

\* build() accepts the rest of a buffer of n bytes.
Builds(c, n) == n - FrameHeader >= TotalSize(c)

-----------------------------------------------------------------------------

Init ==
    /\ policy \in {"Fixed", "AutoResize"}
    /\ size = BufSize
    /\ content = None
    /\ owner = None
    /\ pc = [s \in Threads |-> "idle"]
    /\ cfg = [s \in Threads |-> None]
    /\ count = [s \in Threads |-> 0]
    /\ pos = [s \in Threads |-> 0]
    /\ result = [s \in Threads |-> "none"]
    /\ stream = <<>>

Bound(s) == IF s = Loop THEN MaxReplies ELSE MaxSends

Frame(s) == <<s, count[s], cfg[s].op>>

\* The loop goes on whatever poll() returned.
FinishKeepsLooping(s, r) ==
    /\ result' = [result EXCEPT ![s] = r]
    /\ pc' = [pc EXCEPT ![s] = "idle"]

\* Results are "sent", "no_buffer_space", "send_error", "operation_canceled".
Finish(s, r) ==
    /\ result' = [result EXCEPT ![s] = r]
    /\ pc' = [pc EXCEPT ![s] = IF s = Loop /\ r # "sent" THEN "stopped"
                                                         ELSE "idle"]

\* An application thread sends a command or a time code; the loop has a
\* command to answer, and its on_read_callback_ or on_write_callback_ has
\* returned.
Begin(s, c) ==
    /\ pc[s] = "idle" /\ count[s] < Bound(s)
    /\ (s = Loop) <=> (c.op \in Replies)
    /\ cfg' = [cfg EXCEPT ![s] = c]
    /\ count' = [count EXCEPT ![s] = @ + 1]
    /\ pos' = [pos EXCEPT ![s] = 0]
    /\ pc' = [pc EXCEPT ![s] = IF c.op = "timecode" THEN "send" ELSE "lock"]
    /\ result' = [result EXCEPT ![s] = "none"]
    /\ UNCHANGED <<policy, size, content, owner, stream>>

\* The callback of the loop throws: poll() returns operation_canceled without
\* an answer, and runLoop returns.
CallbackThrows ==
    /\ pc[Loop] = "idle"
    /\ Finish(Loop, "operation_canceled")
    /\ UNCHANGED <<policy, size, content, owner, cfg, count, pos, stream>>

\* Only the buffer is measured under the mutex.
LockFreeAlways == TRUE

\* std::lock_guard on send_buf_mtx_ gets through.
LockFree == owner = None

\* The buffer is measured, and under AutoResize grown.
Grown(c) ==
    IF Demand(c) > size /\ policy = "AutoResize" THEN Demand(c) ELSE size

\* The packet is built behind the frame header, which send_ fills in. A
\* buffer that is too small, for the check or for build(), is refused.
Build(s) ==
    /\ pc[s] = "lock"
    /\ LockFree
    /\ size' = Grown(cfg[s])
    /\ \/ /\ Demand(cfg[s]) <= size' /\ Builds(cfg[s], size')
          /\ owner' = s
          /\ content' = Frame(s)
          /\ pc' = [pc EXCEPT ![s] = "send"]
          /\ UNCHANGED result
       \/ /\ ~(Demand(cfg[s]) <= size' /\ Builds(cfg[s], size'))
          /\ Finish(s, "no_buffer_space")
          /\ UNCHANGED <<owner, content>>
    /\ UNCHANGED <<policy, cfg, count, pos, stream>>

\* The frame whose chunks s passes to ::send: its own array for a time code,
\* send_buf_ for the others.
Source(s) == IF cfg[s].op = "timecode" THEN Frame(s) ELSE content

Unlocked(s) == IF owner = s THEN None ELSE owner

\* ::send is given the length of the frame, not of what is left of it.
SendOverrun(s, n) ==
    /\ pc[s] = "send"
    /\ stream' = stream \o [i \in 1 .. n |-> <<Source(s), pos[s] + i>>]
    /\ pos' = [pos EXCEPT ![s] = @ + n]
    /\ \/ /\ pos[s] + n < NumChunks
          /\ UNCHANGED <<pc, owner, result>>
       \/ /\ pos[s] + n >= NumChunks
          /\ owner' = Unlocked(s)
          /\ Finish(s, "sent")
    /\ UNCHANGED <<policy, size, content, cfg, count>>

\* The span is not advanced after a short send.
SendRestarts(s, n) ==
    /\ pc[s] = "send"
    /\ pos[s] + n <= NumChunks
    /\ stream' = stream \o [i \in 1 .. n |-> <<Source(s), i>>]
    /\ pos' = [pos EXCEPT ![s] = @ + n]
    /\ \/ /\ pos[s] + n < NumChunks
          /\ UNCHANGED <<pc, owner, result>>
       \/ /\ pos[s] + n = NumChunks
          /\ owner' = Unlocked(s)
          /\ Finish(s, "sent")
    /\ UNCHANGED <<policy, size, content, cfg, count>>

\* One ::send of sendAll takes n more chunks; after the last one the mutex is
\* released.
Send(s, n) ==
    /\ pc[s] = "send"
    /\ pos[s] + n <= NumChunks
    /\ stream' = stream \o [i \in 1 .. n |-> <<Source(s), pos[s] + i>>]
    /\ pos' = [pos EXCEPT ![s] = @ + n]
    /\ \/ /\ pos[s] + n < NumChunks
          /\ UNCHANGED <<pc, owner, result>>
       \/ /\ pos[s] + n = NumChunks
          /\ owner' = Unlocked(s)
          /\ Finish(s, "sent")
    /\ UNCHANGED <<policy, size, content, cfg, count>>

\* ::send times out or fails; sendAll gives up wherever it is in the frame.
SendError(s) ==
    /\ pc[s] = "send"
    /\ owner' = Unlocked(s)
    /\ Finish(s, "send_error")
    /\ UNCHANGED <<policy, size, content, cfg, count, pos, stream>>

\* Every thread has sent all it may.
Done ==
    /\ \A s \in Threads :
        pc[s] = "stopped" \/ (pc[s] = "idle" /\ count[s] = Bound(s))
    /\ UNCHANGED vars

Next ==
    \/ \E s \in Threads, c \in Configs : Begin(s, c)
    \/ CallbackThrows
    \/ \E s \in Threads : Build(s)
    \/ \E s \in Threads, n \in 1 .. NumChunks : Send(s, n)
    \/ \E s \in Threads : SendError(s)
    \/ Done

Spec == Init /\ [][Next]_vars

-----------------------------------------------------------------------------
(* Properties.                                                             *)

FrameSet == Threads \X Nat \X (Commands \union Replies \union {"timecode"})

\* One type invariant for the whole state.
TypeOK ==
    /\ policy \in {"Fixed", "AutoResize"}
    /\ size \in Nat
    /\ content \in FrameSet \union {None}
    /\ owner \in Threads \union {None}
    /\ pc \in [Threads -> {"idle", "lock", "send", "stopped"}]
    /\ cfg \in [Threads -> Configs \union {None}]
    /\ count \in [Threads -> Nat]
    /\ pos \in [Threads -> 0 .. NumChunks]
    /\ result \in [Threads -> {"none", "sent", "no_buffer_space",
                              "send_error", "operation_canceled"}]
    /\ stream \in Seq(FrameSet \X (1 .. NumChunks))

\* From build() to the end of sendAll the buffer holds the thread's own
\* packet, and the bytes passed to sendAll lie inside it, whatever the other
\* threads and the loop send and however they resize the buffer meanwhile.
SendsOwnFrame ==
    \A s \in Threads :
        pc[s] = "send" /\ cfg[s].op # "timecode"
            => content = Frame(s) /\ TotalSize(cfg[s]) + FrameHeader <= size

\* RMAP frames never mix in the connection, not even when sends fail midway:
\* between two chunks of one, only time codes, which are sent without the
\* mutex, can appear. Its chunks arrive in order.
FramesNotMixed ==
    \A i, j \in 1 .. Len(stream) :
        i < j /\ stream[i][1] = stream[j][1] =>
            /\ stream[i][2] < stream[j][2]
            /\ stream[i][1][3] # "timecode" =>
                \A k \in i .. j : stream[k][1] = stream[i][1]
                                 \/ stream[k][1][3] = "timecode"

\* A send is refused for want of buffer space only if its frame does not fit
\* the buffer, and under AutoResize only a read is: the demand of
\* sendWritePacket_ and of the replies is enough for build().
RefusalsJustified ==
    [][\A s \in Threads :
        result[s] # "no_buffer_space" /\ result'[s] = "no_buffer_space" =>
            /\ TotalSize(cfg[s]) + FrameHeader > size'
            /\ policy = "AutoResize" => cfg[s].op = "read"]_vars

\* While the loop is ready for another command, every command it has taken
\* on has been answered, completely: a reply that was refused or cut short
\* ends the loop.
CommandsAnswered ==
    pc[Loop] = "idle" =>
        \A n \in 1 .. count[Loop] :
            \E i \in 1 .. Len(stream) :
                /\ stream[i][1][1] = Loop /\ stream[i][1][2] = n
                /\ stream[i][2] = NumChunks

\* "Auto resize if needed" (spw_rmap_tcp_node_impl.hh): under AutoResize no
\* send fails for want of buffer space.
AutoResizeNeverRefuses ==
    policy = "AutoResize" =>
        \A s \in Threads : result[s] # "no_buffer_space"

=============================================================================
