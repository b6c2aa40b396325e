----------------------------- MODULE ReceivePath -----------------------------
(***************************************************************************)
(* The receiving half of SpwRmapTCPNodeImpl: recvAndParseOnePacket_ turns  *)
(* the byte stream of the connection into RMAP packets. The stream is cut  *)
(* into frames, a 12-byte header and a payload each; a packet is the       *)
(* payloads of any number of "part" frames and of the "eop" frame that     *)
(* ends it. The peer may close the connection at any byte.                 *)
(*                                                                         *)
(* A frame is [type, len, got]: got is how many bytes of the payload ever  *)
(* arrive, -1 if not even the header does. A byte is <<n, k>>, the k-th    *)
(* payload byte of the n-th frame.                                         *)
(***************************************************************************)
EXTENDS Integers, Sequences, Functions

CONSTANTS
    BufSize,     \* recv_buffer_size
    IgnoreSize,  \* size of ignore_buffer
    TimeCodeLen, \* payload length of a time code
    Lengths,     \* payload lengths of the frames
    MaxFrames    \* bound: frames the peer sends

ASSUME ReceiveAssumption ==
    /\ BufSize \in Nat
    /\ IgnoreSize \in Nat
    /\ TimeCodeLen \in Nat
    /\ Lengths \subseteq Nat
    /\ MaxFrames \in Nat

\* The type byte: 0x00, 0x01, 0x02, 0x30 and 0x31, or any other value (or a
\* reserved byte that is not zero).
Types  == {"eop", "eep", "part", "timecode", "bad"}
Frames == [type : Types, len : Lengths, got : Lengths \union {-1}]

\* What the peer can have sent of its last frame when the connection closes.
Cut(f) == -1 <= f.got /\ f.got < f.len

VARIABLES
    backend, \* "client" or "server": TCPClient or TCPServer
    policy,  \* buffer_policy_: "Fixed" or "AutoResize"
    sent,    \* the frames of the connection, in order
    open,    \* "open" until the peer closes
    rd,      \* frames whose header has been read
    pc,      \* reading a "header" or a "body", or "stopped"
    total,   \* total_size
    off,     \* where recv_buffer starts in recv_buf_
    size,    \* recv_buf_.size()
    buf,     \* recv_buf_
    parsed   \* what was given to PacketParser::parse

\* Fixed when the node is constructed
config  == <<backend, policy>>
netVars == <<sent, open, config>>
vars    == <<config, sent, open, rd, pc, total, off, size, buf, parsed>>

Byte == Seq(Nat)

\* One type invariant for the whole state.
TypeOK ==
    /\ backend \in {"client", "server"}
    /\ policy \in {"Fixed", "AutoResize"}
    /\ sent \in Seq(Frames)
    /\ open \in {"open", "closed"}
    /\ rd \in 0 .. Len(sent)
    /\ pc \in {"header", "body", "stopped"}
    /\ pc = "body" => rd > 0
    /\ total \in Nat /\ off \in Nat /\ size \in Nat
    /\ buf \in [1 .. size -> Byte]
    /\ parsed \in Seq(Seq(Byte))

Init ==
    /\ backend \in {"client", "server"}
    /\ policy \in {"Fixed", "AutoResize"}
    /\ sent = <<>>
    /\ open = "open"
    /\ rd = 0
    /\ pc = "header"
    /\ total = 0
    /\ off = 0
    /\ size = BufSize
    /\ buf = [k \in 1 .. BufSize |-> <<>>]
    /\ parsed = <<>>

-----------------------------------------------------------------------------
(* The peer.                                                               *)

PeerSends(f) ==
    /\ open = "open" /\ Len(sent) < MaxFrames
    /\ f.got = f.len
    /\ sent' = Append(sent, f)
    /\ UNCHANGED <<config, open, rd, pc, total, off, size, buf, parsed>>

\* The connection ends between two frames or inside one.
PeerCloses ==
    /\ open = "open"
    /\ open' = "closed"
    /\ \/ UNCHANGED sent
       \/ /\ Len(sent) < MaxFrames
          /\ \E f \in Frames : Cut(f) /\ sent' = Append(sent, f)
    /\ UNCHANGED <<config, rd, pc, total, off, size, buf, parsed>>

-----------------------------------------------------------------------------
(* recvAndParseOnePacket_                                                  *)

\* The header of frame rd + 1 is complete; no header will come.
HeaderArrived == rd < Len(sent) /\ sent[rd + 1].got # -1
HeaderLost    == open = "closed" /\ ~HeaderArrived

Stop == pc' = "stopped" /\ UNCHANGED <<total, off, size, buf, parsed>>

\* End of stream in place of a header. TCPClient reports an error, TCPServer
\* no bytes, on which poll() shuts the node down: the loop ends either way.
HeaderEnd ==
    /\ pc = "header" /\ HeaderLost
    /\ Stop
    /\ UNCHANGED <<netVars, rd>>

\* A socket error.
ReceiveError ==
    /\ pc # "stopped"
    /\ Stop
    /\ UNCHANGED <<netVars, rd>>

\* Comparing with the whole buffer, not with what is left of it.
FitsWhole(n) == n <= size

\* *dataLength <= recv_buffer.size()
Fits(n) == n <= size - off

\* The header is read and checked, and the buffer made large enough for the
\* payload (of an ignored frame and of a time code too).
ReadHeader ==
    /\ pc = "header" /\ HeaderArrived
    /\ rd' = rd + 1
    /\ LET f == sent[rd + 1] IN
        \/ /\ f.type = "bad" \/ f.len = 0
           /\ Stop
        \/ /\ f.type # "bad" /\ f.len # 0
           /\ Fits(f.len)
           /\ pc' = "body"
           /\ UNCHANGED <<total, off, size, buf, parsed>>
        \/ /\ f.type # "bad" /\ f.len # 0
           /\ ~Fits(f.len) /\ policy = "Fixed"
           /\ Stop
        \/ /\ f.type # "bad" /\ f.len # 0
           /\ ~Fits(f.len) /\ policy = "AutoResize"
           /\ size' = total + f.len
           /\ buf' = [k \in 1 .. size' |-> IF k <= size THEN buf[k] ELSE <<>>]
           /\ off' = total
           /\ pc' = "body"
           /\ UNCHANGED <<total, parsed>>
    /\ UNCHANGED netVars

Cur   == sent[rd]
Whole == Cur.got = Cur.len

\* recvExact_ into recv_buffer stored n bytes.
Store(n) ==
    buf' = [k \in 1 .. size |->
              IF k \in off + 1 .. off + n THEN <<rd, k - off>> ELSE buf[k]]

\* The -1 of ::recv taken for a length.
ReceivedLenUnchecked == IF Whole THEN Cur.len ELSE -1

\* recvExact_ of the payload comes back without an error: with all of it, or,
\* from a TCPServer whose peer has closed, with the value 0. A TCPClient
\* reports the end of the stream as an error.
Received    == Whole \/ backend = "server"
ReceivedLen == IF Whole THEN Cur.len ELSE 0

\* The payload that ends a packet; the packet is given to the parser, whose
\* refusal ends the loop. Otherwise the next poll() starts afresh.
ReadEop ==
    /\ pc = "body" /\ Cur.type = "eop" /\ Received
    /\ Store(Cur.got)
    /\ parsed' = Append(parsed, SubSeq(buf', 1, total + ReceivedLen))
    /\ pc' \in {"header", "stopped"}
    /\ total' = 0
    /\ off' = 0
    /\ UNCHANGED <<netVars, rd, size>>

\* The payload of a frame that does not end the packet
ReadPart ==
    /\ pc = "body" /\ Cur.type = "part" /\ Received
    /\ Store(Cur.got)
    /\ total' = total + ReceivedLen
    /\ off' = off + Cur.len
    /\ pc' = "header"
    /\ UNCHANGED <<netVars, rd, size, parsed>>

\* The parts received before an error end of packet are kept.
IgnoreEepKeepsParts ==
    /\ pc = "body" /\ Cur.type = "eep" /\ Whole
    /\ pc' = "header"
    /\ UNCHANGED <<netVars, rd, total, off, size, buf, parsed>>

\* ignoreNBytes_, then recvAndParseOnePacket_ once more: what was received of
\* the packet is dropped. At the end of the stream a TCPServer notices only
\* while more than ignore_buffer holds is missing.
IgnoreEep ==
    /\ pc = "body" /\ Cur.type = "eep"
    /\ Whole \/ (backend = "server" /\ Cur.len - Cur.got <= IgnoreSize)
    /\ pc' = "header"
    /\ total' = 0
    /\ off' = 0
    /\ UNCHANGED <<netVars, rd, size, buf, parsed>>

\* A time code is read into a buffer of its own and dropped. Its second byte
\* must be zero.
ReadTimeCode ==
    /\ pc = "body" /\ Cur.type = "timecode" /\ Cur.len = TimeCodeLen
    /\ Received
    /\ pc' \in {"header", "stopped"}
    /\ UNCHANGED <<netVars, rd, total, off, size, buf, parsed>>

\* The end of the stream inside a payload is waited out.
BodyFailsUnnoticed ==
    /\ pc = "body" /\ Cur.type = "timecode" /\ Cur.len # TimeCodeLen
    /\ Stop
    /\ UNCHANGED <<netVars, rd>>

\* The payload does not arrive, or a time code has the wrong length.
BodyFails ==
    /\ pc = "body"
    /\ \/ ~Whole /\ backend = "client"
       \/ ~Whole /\ Cur.type = "eep" /\ Cur.len - Cur.got > IgnoreSize
       \/ Cur.type = "timecode" /\ Cur.len # TimeCodeLen
    /\ Stop
    /\ UNCHANGED <<netVars, rd>>

\* runLoop has returned.
Stopped == pc = "stopped" /\ UNCHANGED vars

\* A step of the thread inside runLoop that finds what it waits for.
LoopStep ==
    \/ HeaderEnd \/ ReadHeader
    \/ ReadEop \/ ReadPart \/ IgnoreEep \/ ReadTimeCode \/ BodyFails

Next ==
    \/ \E f \in Frames : PeerSends(f)
    \/ PeerCloses
    \/ LoopStep
    \/ ReceiveError
    \/ Stopped

Spec == Init /\ [][Next]_vars

\* The thread is scheduled and the kernel delivers what was sent; nothing
\* obliges the peer to send or to close.
FairSpec == Spec /\ WF_vars(LoopStep)

-----------------------------------------------------------------------------
(* Properties.                                                             *)

\* The payload about to be received fits between the end of what the packet
\* already has and the end of recv_buf_, and the packet itself lies in
\* recv_buf_: no std::span::first or subspan is out of range, also after any
\* number of parts and resizes.
StoresInBounds ==
    /\ total <= off /\ off <= size
    /\ pc = "body" => off + Cur.len <= size

\* A packet of the frames s ends with an "eop" frame and consists of its
\* payload and of the payloads of the "part" frames before it, back to the
\* last end, error or not. Parts(s, n) are those after n frames.
Arrived(f) == f.got = f.len
Ends(s, n) == {e \in 1 .. n : s[e].type = "eop" /\ Arrived(s[e])}
Parts(s, n) ==
    {i \in 1 .. n :
        /\ s[i].type = "part" /\ Arrived(s[i])
        /\ \A j \in i + 1 .. n : s[j].type \notin {"eop", "eep"}}

\* p holds the payloads of the frames F, each byte once and in their order.
Precedes(a, b) == a[1] < b[1] \/ (a[1] = b[1] /\ a[2] < b[2])
Joins(p, s, F) ==
    /\ \A j, k \in 1 .. Len(p) : j < k => Precedes(p[j], p[k])
    /\ Range(p) = UNION {{i} \X (1 .. s[i].len) : i \in F}

\* ps are the packets in the first n frames, in their order; the last byte of
\* a packet tells which frame ended it.
EndOf(p) == p[Len(p)][1]
Delivered(ps, s, n) ==
    /\ \A k \in 1 .. Len(ps) :
        /\ ps[k] # <<>> /\ EndOf(ps[k]) \in Ends(s, n)
        /\ Joins(ps[k], s, Parts(s, EndOf(ps[k]) - 1) \union {EndOf(ps[k])})
    /\ \A j, k \in 1 .. Len(ps) : j < k => EndOf(ps[j]) < EndOf(ps[k])
    /\ \A e \in Ends(s, n) : \E k \in 1 .. Len(ps) : EndOf(ps[k]) = e

\* The frames that have been dealt with
Done == IF pc = "body" THEN rd - 1 ELSE rd

\* The parser has been given the packets of the stream, in order, each whole.
\* When the loop stops at a frame, that one is missing.
WholePackets ==
    \/ Delivered(parsed, sent, Done)
    \/ pc = "stopped" /\ Delivered(parsed, sent, rd - 1)

\* The connection of a TCPServer ended inside a payload: after whole packets
\* the last one was parsed without that payload, from the parts before it.
LastCutShort ==
    /\ backend = "server" /\ open = "closed" /\ pc # "body"
    /\ rd > 0 /\ rd = Len(sent) /\ ~Whole
    /\ LET l == Len(parsed)
       IN  /\ l > 0 /\ Delivered(SubSeq(parsed, 1, l - 1), sent, rd)
           /\ Joins(parsed[l], sent, Parts(sent, rd - 1))

\* The parser is given the packets of the stream, in order, each whole and
\* without a byte of a neighbour, of a dropped packet or of a time code. The
\* one exception is the last thing a TCPServer parses, which the end of the
\* connection may have cut short: it lacks its last payload altogether, no
\* stale byte of recv_buf_ stands in for it, and nothing is parsed after it.
PacketsIntact == WholePackets \/ LastCutShort

\* Once the peer has closed, whatever it sent before and wherever it was cut,
\* poll() reports an error or the end and runLoop returns.
LoopEndsWithConnection == open = "closed" ~> pc = "stopped"

=============================================================================
