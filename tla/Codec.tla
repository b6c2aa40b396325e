-------------------------------- MODULE Codec --------------------------------
(***************************************************************************)
(* The RMAP packets: the four builders, the parser and the CRC, composed   *)
(* the way two nodes use them. An initiator builds a command, a target     *)
(* parses it and builds the reply poll() sends, the initiator parses that. *)
(* On the way a bit of either packet may be inverted.                      *)
(*                                                                         *)
(* Packets are sequences of bytes. A field the node always gives the same  *)
(* value (key, extended address, increment mode) is that value here.       *)
(***************************************************************************)
EXTENDS Integers, Sequences, FiniteSetsExt

CONSTANTS
    Paths,     \* target SpaceWire addresses
    ReplyAddrs,\* reply addresses, of at most 12 bytes
    Ids,       \* transaction IDs
    Addresses, \* memory addresses
    Datas,     \* data written or returned
    Verify,    \* verify_mode_
    Flips      \* the bits of a byte that may be inverted

Octet == 0 .. 255

\* The bytes of a path are below the logical addresses; an address has four
\* bytes, and a length three.
ASSUME PathAssumption == \A p \in Paths : p \in Seq(0 .. 31)
ASSUME ReplyAssumption ==
    \A r \in ReplyAddrs : r \in Seq(Octet) /\ Len(r) <= 12
ASSUME IdAssumption == \A i \in Ids : i \in Nat /\ i < 65536
ASSUME AddressAssumption ==
    \A a \in Addresses : a \in Nat /\ a \div 65536 < 65536
ASSUME DataAssumption ==
    \A d \in Datas : d \in Seq(Octet) /\ Len(d) < 16777216
ASSUME FlipAssumption == Flips \subseteq {1, 2, 4, 8, 16, 32, 64, 128}

TargetLA    == 254   \* target logical address
InitiatorLA == 200   \* initiator_logical_address_

\* What write() and read() ask for; a read has data of the wanted length.
Commands ==
    [op : {"read", "write"}, path : Paths, reply : ReplyAddrs, id : Ids,
     addr : Addresses, data : Datas]

-----------------------------------------------------------------------------
(* Bytes and CRC.                                                          *)

\* (n >> k) & 0xFF, where v = 2^k
Byte(n, v) == (n \div v) % 256

\* Two, three and four bytes of a field, most significant first, and back from
\* those that follow position i of a packet
Bytes2(n) == <<Byte(n, 256), Byte(n, 1)>>
Bytes3(n) == <<Byte(n, 65536), Byte(n, 256), Byte(n, 1)>>
Bytes4(n) == <<Byte(n, 16777216), Byte(n, 65536), Byte(n, 256), Byte(n, 1)>>

Number2(p, i) == p[i + 1] * 256 + p[i + 2]
Number3(p, i) == p[i + 1] * 65536 + p[i + 2] * 256 + p[i + 3]
Number4(p, i) ==
    p[i + 1] * 16777216 + p[i + 2] * 65536 + p[i + 3] * 256 + p[i + 4]

Flag(b, v) == IF b THEN v ELSE 0
Bit(x, v)  == (x \div v) % 2 = 1

CRC_LOOKUP_TABLE ==
    <<
         0, 145, 227, 114,   7, 150, 228, 117,  14, 159, 237, 124,   9, 152, 234, 123,
        28, 141, 255, 110,  27, 138, 248, 105,  18, 131, 241,  96,  21, 132, 246, 103,
        56, 169, 219,  74,  63, 174, 220,  77,  54, 167, 213,  68,  49, 160, 210,  67,
        36, 181, 199,  86,  35, 178, 192,  81,  42, 187, 201,  88,  45, 188, 206,  95,
       112, 225, 147,   2, 119, 230, 148,   5, 126, 239, 157,  12, 121, 232, 154,  11,
       108, 253, 143,  30, 107, 250, 136,  25,  98, 243, 129,  16, 101, 244, 134,  23,
        72, 217, 171,  58,  79, 222, 172,  61,  70, 215, 165,  52,  65, 208, 162,  51,
        84, 197, 183,  38,  83, 194, 176,  33,  90, 203, 185,  40,  93, 204, 190,  47,
       224, 113,   3, 146, 231, 118,   4, 149, 238, 127,  13, 156, 233, 120,  10, 155,
       252, 109,  31, 142, 251, 106,  24, 137, 242,  99,  17, 128, 245, 100,  22, 135,
       216,  73,  59, 170, 223,  78,  60, 173, 214,  71,  53, 164, 209,  64,  50, 163,
       196,  85,  39, 182, 195,  82,  32, 177, 202,  91,  41, 184, 205,  92,  46, 191,
       144,   1, 115, 226, 151,   6, 116, 229, 158,  15, 125, 236, 153,   8, 122, 235,
       140,  29, 111, 254, 139,  26, 104, 249, 130,  19,  97, 240, 133,  20, 102, 247,
       168,  57,  75, 218, 175,  62,  76, 221, 166,  55,  69, 212, 161,  48,  66, 211,
       180,  37,  87, 198, 179,  34,  80, 193, 186,  43,  89, 200, 189,  44,  94, 207
    >>

\* Exclusive or of two bytes, bit by bit
XorBit(p, v) == Flag(Bit(p[1], v) # Bit(p[2], v), v)
ByteXor ==
    [p \in Octet \X Octet |->
       XorBit(p, 128) + XorBit(p, 64) + XorBit(p, 32) + XorBit(p, 16)
         + XorBit(p, 8) + XorBit(p, 4) + XorBit(p, 2) + XorBit(p, 1)]

\* crc = CRC_LOOKUP_TABLE[crc ^ byte]
CrcStep(crc, x) == CRC_LOOKUP_TABLE[ByteXor[<<crc, x>>] + 1]

\* The seed of other CRC-8 variants
calcCRCSeeded(s) ==
    LET crc[k \in 0 .. Len(s)] ==
          IF k = 0 THEN 255 ELSE CrcStep(crc[k - 1], s[k])
    IN  crc[Len(s)]

calcCRC(s) ==
    LET crc[k \in 0 .. Len(s)] ==
          IF k = 0 THEN 0 ELSE CrcStep(crc[k - 1], s[k])
    IN  crc[Len(s)]

-----------------------------------------------------------------------------
(* Builders.                                                               *)

ProtocolIdentifier == 1
Command   == 64
Write     == 32
VerifyBit == 16
Reply     == 8
Increment == 4

\* The length rounded down in place of up
ReplyFieldDown(n) == ((n \div 4) % 4) * 4

\* ((n - 1) & 0x0C) + 0x04 for a reply address of n bytes
ReplyField(n) == IF n = 0 THEN 0 ELSE (((n - 1) \div 4) % 4) * 4 + 4

\* The padded reply address
PaddedReply(r) == [i \in 1 .. ReplyField(Len(r)) - Len(r) |-> 0] \o r

WithCRC(s) == Append(s, calcCRC(s))

\* The header of both commands up to its CRC; len is the data length, of which
\* three bytes are stored.
CommandHeader(c, instruction, len) ==
    WithCRC(<<TargetLA, ProtocolIdentifier,
              instruction + ReplyField(Len(c.reply)) \div 4, 0>>
            \o PaddedReply(c.reply)
            \o <<InitiatorLA>> \o Bytes2(c.id) \o <<0>>
            \o Bytes4(c.addr) \o Bytes3(len))

ReadPacketBuild(c) ==
    c.path \o CommandHeader(c, Command + Reply + Increment, Len(c.data))

WritePacketBuild(c) ==
    c.path
      \o CommandHeader(c, Command + Write + Reply + Flag(Verify, VerifyBit)
                            + Increment, Len(c.data))
      \o WithCRC(c.data)

\* The transaction ID goes out with its low byte first.
WriteReplySwapped(p) ==
    p.reply
      \o WithCRC(<<p.target, ProtocolIdentifier,
                   Write + Reply + VerifyBit + Increment, 0, p.initiator>>
                 \o <<p.id % 256, p.id \div 256>>)

\* p is the packet the target parsed. poll() passes its target logical address
\* as the initiator's, and the other way round.
WriteReplyPacketBuild(p) ==
    p.reply
      \o WithCRC(<<p.target, ProtocolIdentifier,
                   Write + Reply + VerifyBit + Increment, 0, p.initiator>>
                 \o Bytes2(p.id))

ReadReplyPacketBuild(p, data) ==
    p.reply
      \o WithCRC(<<p.target, ProtocolIdentifier, Reply + Increment, 0,
                   p.initiator>> \o Bytes2(p.id) \o <<0>>
                 \o Bytes3(Len(data)))
      \o WithCRC(data)

-----------------------------------------------------------------------------
(* Parser. Each function is given the packet from its logical address on,  *)
(* and the path before it.                                                 *)

Failed(status) == [status |-> status]

\* The leading zero bytes are taken for padding.
StripZeros(r) ==
    LET nonzero == {i \in 1 .. Len(r) : r[i] # 0}
    IN  IF nonzero = {} THEN <<>> ELSE SubSeq(r, Min(nonzero), Len(r))

\* The length of the reply address field
ReplySize(p) == (p[3] % 4) * 4

\* What is parsed of a command with that path and that data
CommandFields(path, p, type, data) ==
    LET r == ReplySize(p)
    IN  [status |-> "Success", type |-> type, path |-> path, target |-> p[1],
         reply |-> StripZeros(SubSeq(p, 5, 4 + r)),
         initiator |-> p[5 + r], id |-> Number2(p, 5 + r),
         addr |-> Number4(p, 8 + r), len |-> Number3(p, 12 + r),
         data |-> data]

\* A packet without data leaves packet_.data as it was.
Untouched == "untouched"

parseReadPacket(path, p) ==
    LET r == ReplySize(p)
    IN  IF Len(p) # 16 + r THEN Failed("IncompletePacket")
        ELSE IF calcCRC(SubSeq(p, 1, 16 + r)) # 0 THEN Failed("HeaderCRCError")
        ELSE IF p[2] # 1 THEN Failed("UnknownProtocolIdentifier")
        ELSE CommandFields(path, p, "Read", Untouched)

parseWritePacket(path, p) ==
    LET r   == ReplySize(p)
        len == Number3(p, 12 + r)
    IN  IF Len(p) <= 16 + r THEN Failed("IncompletePacket")
        ELSE IF calcCRC(SubSeq(p, 1, 16 + r)) # 0 THEN Failed("HeaderCRCError")
        ELSE IF p[2] # 1 THEN Failed("UnknownProtocolIdentifier")
        ELSE IF Len(p) # 16 + r + len + 1 THEN Failed("IncompletePacket")
        ELSE IF calcCRC(SubSeq(p, 17 + r, 17 + r + len)) # 0
             THEN Failed("DataCRCError")
        ELSE CommandFields(path, p, "Write", SubSeq(p, 17 + r, 16 + r + len))

\* The data of the packet before are left in place.
ReplyFieldsKept(path, p, type, data) ==
    [status |-> "Success", type |-> type, path |-> path, initiator |-> p[1],
     code |-> p[4], target |-> p[5], id |-> Number2(p, 5),
     data |-> Untouched]

ReplyFields(path, p, type, data) ==
    [status |-> "Success", type |-> type, path |-> path, initiator |-> p[1],
     code |-> p[4], target |-> p[5], id |-> Number2(p, 5), data |-> data]

\* The CRC of the data is not checked.
parseReadReplyDataUnchecked(path, p) ==
    LET len == Number3(p, 8)
    IN  IF Len(p) < 12 THEN Failed("IncompletePacket")
        ELSE IF calcCRC(SubSeq(p, 1, 12)) # 0 THEN Failed("HeaderCRCError")
        ELSE IF p[2] # 1 THEN Failed("UnknownProtocolIdentifier")
        ELSE IF Len(p) # 12 + len + 1 THEN Failed("IncompletePacket")
        ELSE ReplyFields(path, p, "ReadReply", SubSeq(p, 13, 12 + len))

parseReadReplyPacket(path, p) ==
    LET len == Number3(p, 8)
    IN  IF Len(p) < 12 THEN Failed("IncompletePacket")
        ELSE IF calcCRC(SubSeq(p, 1, 12)) # 0 THEN Failed("HeaderCRCError")
        ELSE IF p[2] # 1 THEN Failed("UnknownProtocolIdentifier")
        ELSE IF Len(p) # 12 + len + 1 THEN Failed("IncompletePacket")
        ELSE IF calcCRC(SubSeq(p, 13, 13 + len)) # 0
             THEN Failed("DataCRCError")
        ELSE ReplyFields(path, p, "ReadReply", SubSeq(p, 13, 12 + len))

parseWriteReplyPacket(path, p) ==
    IF Len(p) # 8 THEN Failed("IncompletePacket")
    ELSE IF calcCRC(p) # 0 THEN Failed("HeaderCRCError")
    ELSE IF p[2] # 1 THEN Failed("UnknownProtocolIdentifier")
    ELSE ReplyFields(path, p, "WriteReply", Untouched)

\* The path ends at the first byte that is a logical address; the instruction
\* selects the function. Of an empty span the code reads packet[0] before it
\* looks at the size; whatever it reads there, the result is IncompletePacket.
parse(s) ==
    LET logical == {i \in 1 .. Len(s) : s[i] >= 32}
        head    == Min(logical)
        path    == SubSeq(s, 1, head - 1)
        p       == SubSeq(s, head, Len(s))
    IN  IF logical = {} \/ Len(p) < 4 THEN Failed("IncompletePacket")
        ELSE CASE ~Bit(p[3], Command) /\ ~Bit(p[3], Write) ->
                    parseReadReplyPacket(path, p)
               [] ~Bit(p[3], Command) /\ Bit(p[3], Write) ->
                    parseWriteReplyPacket(path, p)
               [] Bit(p[3], Command) /\ ~Bit(p[3], Write) ->
                    parseReadPacket(path, p)
               [] Bit(p[3], Command) /\ Bit(p[3], Write) ->
                    parseWritePacket(path, p)

-----------------------------------------------------------------------------
(* One exchange between two nodes.                                         *)

VARIABLES
    phase,    \* how far the exchange is
    cmd,      \* what the initiator asks for
    wire,     \* the packet on its way
    damaged,  \* "no", or the part of it in which a bit was inverted
    packet,   \* what the target parsed
    answer    \* what the initiator parsed

vars == <<phase, cmd, wire, damaged, packet, answer>>

Nothing == Failed("none")

Init ==
    /\ phase = "start"
    /\ cmd = Nothing
    /\ wire = <<>>
    /\ damaged = "no"
    /\ packet = Nothing
    /\ answer = Nothing

SendCommand(c) ==
    /\ phase = "start"
    /\ cmd' = c
    /\ wire' = IF c.op = "read" THEN ReadPacketBuild(c)
                                ELSE WritePacketBuild(c)
    /\ phase' = "command"
    /\ UNCHANGED <<damaged, packet, answer>>

\* What bit v of byte i of the packet on its way belongs to. No CRC covers the
\* path. The bits of a write command that give the length of its reply address
\* also say where its header, and so what a CRC covers, ends.
Part(i, v) ==
    LET head == Min({k \in 1 .. Len(wire) : wire[k] >= 32})
    IN  IF i < head THEN "path"
        ELSE IF /\ phase = "command" /\ cmd.op = "write"
                /\ i = head + 2 /\ v < Increment
             THEN "size"
        ELSE "packet"

\* A bit of the packet, path or not, is inverted on the way.
Damage(i, v) ==
    /\ phase \in {"command", "reply"} /\ damaged = "no"
    /\ wire' = [wire EXCEPT ![i] = IF Bit(@, v) THEN @ - v ELSE @ + v]
    /\ damaged' = Part(i, v)
    /\ UNCHANGED <<phase, cmd, packet, answer>>

\* The target parses the command; a failure ends its loop.
ReceiveCommand ==
    /\ phase = "command"
    /\ packet' = parse(wire)
    /\ phase' = IF packet'.status = "Success" THEN "execute" ELSE "refused"
    /\ UNCHANGED <<cmd, wire, damaged, answer>>

\* poll() answers what it parsed. on_read_callback_ returns any data: of
\* another length than asked for it is logged and sent all the same.
SendReply ==
    /\ phase = "execute"
    /\ \/ /\ packet.type = "Read"
          /\ \E d \in Datas : wire' = ReadReplyPacketBuild(packet, d)
       \/ /\ packet.type = "Write"
          /\ wire' = WriteReplyPacketBuild(packet)
    /\ phase' = "reply"
    /\ UNCHANGED <<cmd, damaged, packet, answer>>

ReceiveReply ==
    /\ phase = "reply"
    /\ answer' = parse(wire)
    /\ phase' = IF answer'.status = "Success" THEN "done" ELSE "refused"
    /\ UNCHANGED <<cmd, wire, damaged, packet>>

End == phase \in {"done", "refused"} /\ UNCHANGED vars

Next ==
    \/ \E c \in Commands : SendCommand(c)
    \/ ReceiveCommand \/ SendReply \/ ReceiveReply
    \/ \E i \in 1 .. Len(wire), v \in Flips : Damage(i, v)
    \/ End

Spec == Init /\ [][Next]_vars

-----------------------------------------------------------------------------
(* Properties.                                                             *)

\* CRC-8 bit by bit: polynomial x^8 + x^2 + x + 1, reflected.
Halve == [c \in Octet |->
           IF c % 2 = 1 THEN ByteXor[<<c \div 2, 224>>] ELSE c \div 2]
Polynomial(x) == Halve[Halve[Halve[Halve[Halve[Halve[Halve[Halve[x]]]]]]]]
PolynomialCRC(s) ==
    LET crc[k \in 0 .. Len(s)] ==
          IF k = 0 THEN 0 ELSE Polynomial(ByteXor[<<crc[k - 1], s[k]>>])
    IN  crc[Len(s)]

\* calcCRC and its table compute the CRC of the RMAP standard, for every
\* single byte and for the packets of the exchange.
CrcIsPolynomial ==
    /\ phase = "start" =>
        \A x \in 0 .. 255 : calcCRC(<<x>>) = PolynomialCRC(<<x>>)
    /\ phase = "reply" /\ damaged = "no" =>
        calcCRC(wire) = PolynomialCRC(wire)

\* An undamaged command is understood as it was meant, whatever the lengths
\* of its addresses and data; only leading zeros of the reply address, which
\* the padding hides, are lost.
CommandUnderstood ==
    damaged = "no" /\ phase \in {"execute", "refused"} =>
        /\ packet.status = "Success"
        /\ packet.type = (IF cmd.op = "read" THEN "Read" ELSE "Write")
        /\ packet.path = cmd.path
        /\ packet.target = TargetLA /\ packet.initiator = InitiatorLA
        /\ packet.reply = StripZeros(cmd.reply)
        /\ packet.id = cmd.id /\ packet.addr = cmd.addr
        /\ packet.len = Len(cmd.data)
        /\ cmd.op = "write" => packet.data = cmd.data

\* A reply the initiator accepts is the reply to its command, through the
\* reply address of the command, even if a bit was damaged anywhere on the
\* way out or back behind the path.
ReplyMatchesCommand ==
    phase = "done" =>
        /\ answer.id = cmd.id
        /\ answer.type = (IF cmd.op = "read" THEN "ReadReply" ELSE "WriteReply")
        /\ damaged = "no" => answer.path = StripZeros(cmd.reply)
        /\ answer.code = 0

\* A bit inverted behind the path is noticed, whatever field, data or CRC it
\* belongs to: the target does not carry out a command it was inverted in, and
\* the initiator does not take it for an answer. Only the reply address length
\* of a write command is not protected.
DamageNoticed ==
    damaged = "packet" =>
        /\ phase = "execute" => packet.type \notin {"Read", "Write"}
        /\ phase # "done"

\* An exchange nothing damages ends with its answer: neither node refuses the
\* packet of the other, and the data of a read are the ones its reply was
\* built with.
UndamagedAnswered ==
    damaged = "no" =>
        /\ phase # "refused"
        /\ phase = "done" /\ cmd.op = "read" =>
             /\ answer.data \in Datas
             /\ wire = ReadReplyPacketBuild(packet, answer.data)

=============================================================================
