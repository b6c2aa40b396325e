----------------------------- MODULE CodecBytes -----------------------------
(***************************************************************************)
(* Lemmas about the bytes of RMAP packets: the exclusive or, the table and *)
(* loop of calcCRC, the polynomial they stand for, the damage they notice, *)
(* the fields of a number, and the header of a command.                    *)
(***************************************************************************)
EXTENDS Codec, SequenceTheorems, WellFoundedInduction, TLAPS

-----------------------------------------------------------------------------
(* Naturals and bytes.                                                     *)

\* A non-empty set of naturals has a least member.
LEMMA NatLeast ==
    ASSUME NEW T, T \subseteq Nat, T # {}
    PROVE  \E x \in T : \A y \in T : x <= y
<1> DEFINE R == OpToRel(<, Nat)
<1>1. \A x, y \in Nat : <<y, x>> \in R <=> y < x
  BY DEF OpToRel
<1>2. IsWellFoundedOn(R, Nat)
  BY Zenon, NatLessThanWellFounded
<1> HIDE DEF R
<1>3. PICK x \in T : \A y \in T : ~(<<y, x>> \in R)
  BY Zenon, <1>2, WFMin
<1>4. \A y \in T : ~(y < x)
  BY Zenon, <1>1, <1>3
<1> QED
  BY <1>3, <1>4

\* Induction on the naturals, for a set in place of a predicate.
LEMMA NatSteps ==
    ASSUME NEW T, 0 \in T, \A n \in Nat : n \in T => n + 1 \in T
    PROVE  Nat \subseteq T
<1> SUFFICES ASSUME Nat \ T # {} PROVE FALSE
  OBVIOUS
<1>1. PICK x \in Nat \ T : \A y \in Nat \ T : x <= y
  BY Zenon, NatLeast
<1>2. x # 0 /\ x - 1 \in Nat
  BY <1>1
<1>3. x - 1 \in T
  BY <1>1, <1>2
<1>4. (x - 1) + 1 \in T
  BY <1>2, <1>3
<1> QED
  BY <1>1, <1>4

\* One bit of an exclusive or is that bit or nothing, and nothing for equal
\* bytes.
LEMMA XorBits ==
    ASSUME NEW c, NEW d, NEW v \in Nat
    PROVE  /\ XorBit(<<c, d>>, v) \in {0, v}
           /\ XorBit(<<c, c>>, v) = 0
BY DEF XorBit, Flag

\* What `^` of two bytes is in crc.cc, bit by bit.
LEMMA XorSum ==
    ASSUME NEW c \in Octet, NEW d \in Octet
    PROVE  ByteXor[<<c, d>>] =
             XorBit(<<c, d>>, 128) + XorBit(<<c, d>>, 64) + XorBit(<<c, d>>, 32)
             + XorBit(<<c, d>>, 16) + XorBit(<<c, d>>, 8) + XorBit(<<c, d>>, 4)
             + XorBit(<<c, d>>, 2) + XorBit(<<c, d>>, 1)
BY DEF ByteXor

\* A byte cancels itself.
LEMMA XorSelf == \A c \in Octet : ByteXor[<<c, c>>] = 0
BY XorSum, XorBits

\* The exclusive or of two bytes is a byte, so it is an index of the table.
LEMMA XorOctet ==
    ASSUME NEW c \in Octet, NEW d \in Octet
    PROVE  ByteXor[<<c, d>>] \in Octet
<1> DEFINE b(v) == XorBit(<<c, d>>, v)
<1>1. /\ b(128) \in {0, 128} /\ b(64) \in {0, 64} /\ b(32) \in {0, 32}
      /\ b(16) \in {0, 16} /\ b(8) \in {0, 8} /\ b(4) \in {0, 4}
      /\ b(2) \in {0, 2} /\ b(1) \in {0, 1}
  <2>1. \A v \in Nat : b(v) \in {0, v}
    BY Zenon, XorBits
  <2> HIDE DEF b
  <2> QED
    BY <2>1
<1>2. ByteXor[<<c, d>>] =
        b(128) + b(64) + b(32) + b(16) + b(8) + b(4) + b(2) + b(1)
  BY XorSum
<1> HIDE DEF b
<1> QED
  BY <1>1, <1>2 DEF Octet

\* Every entry of the table is a byte, and the first is zero.
LEMMA TableOctets ==
    /\ CRC_LOOKUP_TABLE[1] = 0
    /\ \A x \in Octet : CRC_LOOKUP_TABLE[x + 1] \in Octet
BY DEF CRC_LOOKUP_TABLE, Octet

\* Halve without exclusive or: 224 inverts two bits of what it meets and sets
\* a third.
LEMMA HalveIs ==
    \A c \in Octet :
       /\ c % 2 = 0 => Halve[c] = c \div 2
       /\ c % 2 = 1 => Halve[c] = 224 + c \div 2 - 64 * (c \div 64)
<1> SUFFICES ASSUME NEW c \in Octet, c % 2 = 1
             PROVE  Halve[c] = 224 + c \div 2 - 64 * (c \div 64)
  <2>1. \A c \in Octet : c % 2 = 0 => Halve[c] = c \div 2
    BY DEF Halve
  <2> QED
    BY Zenon, <2>1
<1> DEFINE a == c \div 2
           b(v) == (a \div v) % 2
           x(v) == XorBit(<<a, 224>>, v)
<1>1. a \in 0 .. 127 /\ a \in Octet /\ a \div 32 = c \div 64 /\ 224 \in Octet
  BY DEF Octet
<1> HIDE DEF a
<1>2. /\ x(128) = 128 /\ x(64) = 64 - 64 * b(64) /\ x(32) = 32 - 32 * b(32)
      /\ x(16) = 16 * b(16) /\ x(8) = 8 * b(8) /\ x(4) = 4 * b(4)
      /\ x(2) = 2 * b(2) /\ x(1) = b(1)
  BY <1>1 DEF XorBit, Flag, Bit
<1>3. ByteXor[<<a, 224>>] = x(128) + x(64) + x(32) + x(16) + x(8) + x(4) + x(2) + x(1)
  BY <1>1, XorSum
<1>4. /\ a = 32 * (a \div 32) + 16 * b(16) + 8 * b(8) + 4 * b(4) + 2 * b(2) + b(1)
      /\ a \div 32 = 2 * b(64) + b(32)
      /\ a \div 32 \in Int
  BY <1>1
<1>5. b(64) \in Int /\ b(32) \in Int /\ b(16) \in Int /\ b(8) \in Int /\ b(4) \in Int
      /\ b(2) \in Int /\ b(1) \in Int
  BY <1>1
<1> HIDE DEF x, b
<1>6. ByteXor[<<a, 224>>] = 224 + a - 64 * (a \div 32)
  BY <1>1, <1>2, <1>3, <1>4, <1>5
<1>7. Halve[c] = ByteXor[<<a, 224>>]
  BY DEF Halve, a
<1> QED
  BY <1>1, <1>6, <1>7 DEF a

\* Halve gives different bytes for different bytes.
LEMMA HalveOneToOne ==
    /\ \A c \in Octet : Halve[c] \in Octet
    /\ \A c, d \in Octet : Halve[c] = Halve[d] => c = d
<1>1. \A c \in Octet : Halve[c] \in Octet
  BY HalveIs DEF Octet
<1>2. ASSUME NEW c \in Octet, NEW d \in Octet, Halve[c] = Halve[d] PROVE c = d
  <2>1. /\ c % 2 = 0 => Halve[c] = c \div 2
        /\ c % 2 = 1 => Halve[c] = 224 + c \div 2 - 64 * (c \div 64)
        /\ d % 2 = 0 => Halve[d] = d \div 2
        /\ d % 2 = 1 => Halve[d] = 224 + d \div 2 - 64 * (d \div 64)
    BY HalveIs
  <2>2. CASE c % 2 = 0 /\ d % 2 = 0
    BY <1>2, <2>1, <2>2 DEF Octet
  <2>3. CASE c % 2 = 1 /\ d % 2 = 1
    <3> DEFINE q(z) == z \div 64
               r(z) == z \div 2 - 32 * q(z)
    <3>1. q(c) \in Int /\ r(c) \in 0 .. 31 /\ c = 64 * q(c) + 2 * r(c) + 1
      BY <2>3 DEF Octet
    <3>2. q(d) \in Int /\ r(d) \in 0 .. 31 /\ d = 64 * q(d) + 2 * r(d) + 1
      BY <2>3 DEF Octet
    <3>3. 224 + r(c) - 32 * q(c) = 224 + r(d) - 32 * q(d)
      BY <1>2, <2>1, <2>3 DEF Octet
    <3> HIDE DEF q, r
    <3>4. q(c) = q(d)
      BY <3>1, <3>2, <3>3
    <3>5. r(c) = r(d)
      BY <3>1, <3>2, <3>3, <3>4
    <3> QED
      BY Zenon, <3>1, <3>2, <3>4, <3>5
  <2>4. c % 2 = 0 /\ d % 2 = 1 => Halve[c] < 128 /\ Halve[d] >= 128
    BY <2>1 DEF Octet
  <2>5. c % 2 = 1 /\ d % 2 = 0 => Halve[c] >= 128 /\ Halve[d] < 128
    BY <2>1 DEF Octet
  <2>6. c % 2 \in {0, 1} /\ d % 2 \in {0, 1}
    BY DEF Octet
  <2>7. Halve[c] \in Octet
    BY Zenon, <1>1
  <2> QED
    BY <1>2, <2>2, <2>3, <2>4, <2>5, <2>6, <2>7 DEF Octet
<1> QED
  BY <1>1, <1>2

\* The table of crc.cc holds the remainders that eight steps of the division
\* leave. Halve goes round four orbits, of 127, 127, 1 and 1 bytes; the steps
\* follow them, eight bytes at a time.
LEMMA TableIsPolynomial ==
    \A x \in Octet : CRC_LOOKUP_TABLE[x + 1] = Polynomial(x)
<1>1. \A c \in Octet : Polynomial(Halve[c]) = Halve[Polynomial(c)]
  BY DEF Polynomial
<1>a1. /\ Halve[1] = 224 /\ Halve[224] = 112 /\ Halve[112] = 56 /\ Halve[56] = 28
       /\ Halve[28] = 14 /\ Halve[14] = 7 /\ Halve[7] = 227 /\ Halve[227] = 145
  BY HalveIs DEF Octet
<1>a2. /\ Halve[145] = 168 /\ Halve[168] = 84 /\ Halve[84] = 42 /\ Halve[42] = 21
       /\ Halve[21] = 234 /\ Halve[234] = 117 /\ Halve[117] = 218 /\ Halve[218] = 109
  BY HalveIs DEF Octet
<1>a3. /\ Halve[109] = 214 /\ Halve[214] = 107 /\ Halve[107] = 213 /\ Halve[213] = 138
       /\ Halve[138] = 69 /\ Halve[69] = 194 /\ Halve[194] = 97 /\ Halve[97] = 208
  BY HalveIs DEF Octet
<1>a4. /\ Halve[208] = 104 /\ Halve[104] = 52 /\ Halve[52] = 26 /\ Halve[26] = 13
       /\ Halve[13] = 230 /\ Halve[230] = 115 /\ Halve[115] = 217 /\ Halve[217] = 140
  BY HalveIs DEF Octet
<1>a5. /\ Halve[140] = 70 /\ Halve[70] = 35 /\ Halve[35] = 241 /\ Halve[241] = 152
       /\ Halve[152] = 76 /\ Halve[76] = 38 /\ Halve[38] = 19 /\ Halve[19] = 233
  BY HalveIs DEF Octet
<1>a6. /\ Halve[233] = 148 /\ Halve[148] = 74 /\ Halve[74] = 37 /\ Halve[37] = 242
       /\ Halve[242] = 121 /\ Halve[121] = 220 /\ Halve[220] = 110 /\ Halve[110] = 55
  BY HalveIs DEF Octet
<1>a7. /\ Halve[55] = 251 /\ Halve[251] = 157 /\ Halve[157] = 174 /\ Halve[174] = 87
       /\ Halve[87] = 203 /\ Halve[203] = 133 /\ Halve[133] = 162 /\ Halve[162] = 81
  BY HalveIs DEF Octet
<1>a8. /\ Halve[81] = 200 /\ Halve[200] = 100 /\ Halve[100] = 50 /\ Halve[50] = 25
       /\ Halve[25] = 236 /\ Halve[236] = 118 /\ Halve[118] = 59 /\ Halve[59] = 253
  BY HalveIs DEF Octet
<1>a9. /\ Halve[253] = 158 /\ Halve[158] = 79 /\ Halve[79] = 199 /\ Halve[199] = 131
       /\ Halve[131] = 161 /\ Halve[161] = 176 /\ Halve[176] = 88 /\ Halve[88] = 44
  BY HalveIs DEF Octet
<1>a10. /\ Halve[44] = 22 /\ Halve[22] = 11 /\ Halve[11] = 229 /\ Halve[229] = 146
        /\ Halve[146] = 73 /\ Halve[73] = 196 /\ Halve[196] = 98 /\ Halve[98] = 49
  BY HalveIs DEF Octet
<1>a11. /\ Halve[49] = 248 /\ Halve[248] = 124 /\ Halve[124] = 62 /\ Halve[62] = 31
        /\ Halve[31] = 239 /\ Halve[239] = 151 /\ Halve[151] = 171 /\ Halve[171] = 181
  BY HalveIs DEF Octet
<1>a12. /\ Halve[181] = 186 /\ Halve[186] = 93 /\ Halve[93] = 206 /\ Halve[206] = 103
        /\ Halve[103] = 211 /\ Halve[211] = 137 /\ Halve[137] = 164 /\ Halve[164] = 82
  BY HalveIs DEF Octet
<1>a13. /\ Halve[82] = 41 /\ Halve[41] = 244 /\ Halve[244] = 122 /\ Halve[122] = 61
        /\ Halve[61] = 254 /\ Halve[254] = 127 /\ Halve[127] = 223 /\ Halve[223] = 143
  BY HalveIs DEF Octet
<1>a14. /\ Halve[143] = 167 /\ Halve[167] = 179 /\ Halve[179] = 185 /\ Halve[185] = 188
        /\ Halve[188] = 94 /\ Halve[94] = 47 /\ Halve[47] = 247 /\ Halve[247] = 155
  BY HalveIs DEF Octet
<1>a15. /\ Halve[155] = 173 /\ Halve[173] = 182 /\ Halve[182] = 91 /\ Halve[91] = 205
        /\ Halve[205] = 134 /\ Halve[134] = 67 /\ Halve[67] = 193 /\ Halve[193] = 128
  BY HalveIs DEF Octet
<1>a16. /\ Halve[128] = 64 /\ Halve[64] = 32 /\ Halve[32] = 16 /\ Halve[16] = 8
        /\ Halve[8] = 4 /\ Halve[4] = 2 /\ Halve[2] = 1
  BY HalveIs DEF Octet
<1>b0. Polynomial(1) = 145
  BY <1>a1 DEF Polynomial
<1>b1. /\ Polynomial(1) = 145 /\ Polynomial(224) = 168 /\ Polynomial(112) = 84
       /\ Polynomial(56) = 42 /\ Polynomial(28) = 21 /\ Polynomial(14) = 234
       /\ Polynomial(7) = 117 /\ Polynomial(227) = 218
  BY <1>1, <1>b0, <1>a1, <1>a2 DEF Octet
<1>b2. /\ Polynomial(145) = 109 /\ Polynomial(168) = 214 /\ Polynomial(84) = 107
       /\ Polynomial(42) = 213 /\ Polynomial(21) = 138 /\ Polynomial(234) = 69
       /\ Polynomial(117) = 194 /\ Polynomial(218) = 97
  BY SMTT(20), <1>1, <1>b1, <1>a1, <1>a2, <1>a3 DEF Octet
<1>b3. /\ Polynomial(109) = 208 /\ Polynomial(214) = 104 /\ Polynomial(107) = 52
       /\ Polynomial(213) = 26 /\ Polynomial(138) = 13 /\ Polynomial(69) = 230
       /\ Polynomial(194) = 115 /\ Polynomial(97) = 217
  BY SMTT(20), <1>1, <1>b2, <1>a2, <1>a3, <1>a4 DEF Octet
<1>b4. /\ Polynomial(208) = 140 /\ Polynomial(104) = 70 /\ Polynomial(52) = 35
       /\ Polynomial(26) = 241 /\ Polynomial(13) = 152 /\ Polynomial(230) = 76
       /\ Polynomial(115) = 38 /\ Polynomial(217) = 19
  BY SMTT(20), <1>1, <1>b3, <1>a3, <1>a4, <1>a5 DEF Octet
<1>b5. /\ Polynomial(140) = 233 /\ Polynomial(70) = 148 /\ Polynomial(35) = 74
       /\ Polynomial(241) = 37 /\ Polynomial(152) = 242 /\ Polynomial(76) = 121
       /\ Polynomial(38) = 220 /\ Polynomial(19) = 110
  BY SMTT(20), <1>1, <1>b4, <1>a4, <1>a5, <1>a6 DEF Octet
<1>b6. /\ Polynomial(233) = 55 /\ Polynomial(148) = 251 /\ Polynomial(74) = 157
       /\ Polynomial(37) = 174 /\ Polynomial(242) = 87 /\ Polynomial(121) = 203
       /\ Polynomial(220) = 133 /\ Polynomial(110) = 162
  BY SMTT(20), <1>1, <1>b5, <1>a5, <1>a6, <1>a7 DEF Octet
<1>b7. /\ Polynomial(55) = 81 /\ Polynomial(251) = 200 /\ Polynomial(157) = 100
       /\ Polynomial(174) = 50 /\ Polynomial(87) = 25 /\ Polynomial(203) = 236
       /\ Polynomial(133) = 118 /\ Polynomial(162) = 59
  BY SMTT(20), <1>1, <1>b6, <1>a6, <1>a7, <1>a8 DEF Octet
<1>b8. /\ Polynomial(81) = 253 /\ Polynomial(200) = 158 /\ Polynomial(100) = 79
       /\ Polynomial(50) = 199 /\ Polynomial(25) = 131 /\ Polynomial(236) = 161
       /\ Polynomial(118) = 176 /\ Polynomial(59) = 88
  BY SMTT(20), <1>1, <1>b7, <1>a7, <1>a8, <1>a9 DEF Octet
<1>b9. /\ Polynomial(253) = 44 /\ Polynomial(158) = 22 /\ Polynomial(79) = 11
       /\ Polynomial(199) = 229 /\ Polynomial(131) = 146 /\ Polynomial(161) = 73
       /\ Polynomial(176) = 196 /\ Polynomial(88) = 98
  BY SMTT(20), <1>1, <1>b8, <1>a8, <1>a9, <1>a10 DEF Octet
<1>b10. /\ Polynomial(44) = 49 /\ Polynomial(22) = 248 /\ Polynomial(11) = 124
        /\ Polynomial(229) = 62 /\ Polynomial(146) = 31 /\ Polynomial(73) = 239
        /\ Polynomial(196) = 151 /\ Polynomial(98) = 171
  BY SMTT(20), <1>1, <1>b9, <1>a9, <1>a10, <1>a11 DEF Octet
<1>b11. /\ Polynomial(49) = 181 /\ Polynomial(248) = 186 /\ Polynomial(124) = 93
        /\ Polynomial(62) = 206 /\ Polynomial(31) = 103 /\ Polynomial(239) = 211
        /\ Polynomial(151) = 137 /\ Polynomial(171) = 164
  BY SMTT(20), <1>1, <1>b10, <1>a10, <1>a11, <1>a12 DEF Octet
<1>b12. /\ Polynomial(181) = 82 /\ Polynomial(186) = 41 /\ Polynomial(93) = 244
        /\ Polynomial(206) = 122 /\ Polynomial(103) = 61 /\ Polynomial(211) = 254
        /\ Polynomial(137) = 127 /\ Polynomial(164) = 223
  BY SMTT(20), <1>1, <1>b11, <1>a11, <1>a12, <1>a13 DEF Octet
<1>b13. /\ Polynomial(82) = 143 /\ Polynomial(41) = 167 /\ Polynomial(244) = 179
        /\ Polynomial(122) = 185 /\ Polynomial(61) = 188 /\ Polynomial(254) = 94
        /\ Polynomial(127) = 47 /\ Polynomial(223) = 247
  BY SMTT(20), <1>1, <1>b12, <1>a12, <1>a13, <1>a14 DEF Octet
<1>b14. /\ Polynomial(143) = 155 /\ Polynomial(167) = 173 /\ Polynomial(179) = 182
        /\ Polynomial(185) = 91 /\ Polynomial(188) = 205 /\ Polynomial(94) = 134
        /\ Polynomial(47) = 67 /\ Polynomial(247) = 193
  BY SMTT(20), <1>1, <1>b13, <1>a13, <1>a14, <1>a15 DEF Octet
<1>b15. /\ Polynomial(155) = 128 /\ Polynomial(173) = 64 /\ Polynomial(182) = 32
        /\ Polynomial(91) = 16 /\ Polynomial(205) = 8 /\ Polynomial(134) = 4
        /\ Polynomial(67) = 2 /\ Polynomial(193) = 1
  BY SMTT(20), <1>1, <1>b14, <1>a14, <1>a15, <1>a16 DEF Octet
<1>b16. /\ Polynomial(128) = 224 /\ Polynomial(64) = 112 /\ Polynomial(32) = 56
        /\ Polynomial(16) = 28 /\ Polynomial(8) = 14 /\ Polynomial(4) = 7
        /\ Polynomial(2) = 227
  BY SMTT(20), <1>1, <1>b15, <1>a15, <1>a16, <1>a1 DEF Octet
<1>c1. /\ Halve[5] = 226 /\ Halve[226] = 113 /\ Halve[113] = 216 /\ Halve[216] = 108
       /\ Halve[108] = 54 /\ Halve[54] = 27 /\ Halve[27] = 237 /\ Halve[237] = 150
  BY HalveIs DEF Octet
<1>c2. /\ Halve[150] = 75 /\ Halve[75] = 197 /\ Halve[197] = 130 /\ Halve[130] = 65
       /\ Halve[65] = 192 /\ Halve[192] = 96 /\ Halve[96] = 48 /\ Halve[48] = 24
  BY HalveIs DEF Octet
<1>c3. /\ Halve[24] = 12 /\ Halve[12] = 6 /\ Halve[6] = 3 /\ Halve[3] = 225
       /\ Halve[225] = 144 /\ Halve[144] = 72 /\ Halve[72] = 36 /\ Halve[36] = 18
  BY HalveIs DEF Octet
<1>c4. /\ Halve[18] = 9 /\ Halve[9] = 228 /\ Halve[228] = 114 /\ Halve[114] = 57
       /\ Halve[57] = 252 /\ Halve[252] = 126 /\ Halve[126] = 63 /\ Halve[63] = 255
  BY HalveIs DEF Octet
<1>c5. /\ Halve[255] = 159 /\ Halve[159] = 175 /\ Halve[175] = 183 /\ Halve[183] = 187
       /\ Halve[187] = 189 /\ Halve[189] = 190 /\ Halve[190] = 95 /\ Halve[95] = 207
  BY HalveIs DEF Octet
<1>c6. /\ Halve[207] = 135 /\ Halve[135] = 163 /\ Halve[163] = 177 /\ Halve[177] = 184
       /\ Halve[184] = 92 /\ Halve[92] = 46 /\ Halve[46] = 23 /\ Halve[23] = 235
  BY HalveIs DEF Octet
<1>c7. /\ Halve[235] = 149 /\ Halve[149] = 170 /\ Halve[170] = 85 /\ Halve[85] = 202
       /\ Halve[202] = 101 /\ Halve[101] = 210 /\ Halve[210] = 105 /\ Halve[105] = 212
  BY HalveIs DEF Octet
<1>c8. /\ Halve[212] = 106 /\ Halve[106] = 53 /\ Halve[53] = 250 /\ Halve[250] = 125
       /\ Halve[125] = 222 /\ Halve[222] = 111 /\ Halve[111] = 215 /\ Halve[215] = 139
  BY HalveIs DEF Octet
<1>c9. /\ Halve[139] = 165 /\ Halve[165] = 178 /\ Halve[178] = 89 /\ Halve[89] = 204
       /\ Halve[204] = 102 /\ Halve[102] = 51 /\ Halve[51] = 249 /\ Halve[249] = 156
  BY HalveIs DEF Octet
<1>c10. /\ Halve[156] = 78 /\ Halve[78] = 39 /\ Halve[39] = 243 /\ Halve[243] = 153
        /\ Halve[153] = 172 /\ Halve[172] = 86 /\ Halve[86] = 43 /\ Halve[43] = 245
  BY HalveIs DEF Octet
<1>c11. /\ Halve[245] = 154 /\ Halve[154] = 77 /\ Halve[77] = 198 /\ Halve[198] = 99
        /\ Halve[99] = 209 /\ Halve[209] = 136 /\ Halve[136] = 68 /\ Halve[68] = 34
  BY HalveIs DEF Octet
<1>c12. /\ Halve[34] = 17 /\ Halve[17] = 232 /\ Halve[232] = 116 /\ Halve[116] = 58
        /\ Halve[58] = 29 /\ Halve[29] = 238 /\ Halve[238] = 119 /\ Halve[119] = 219
  BY HalveIs DEF Octet
<1>c13. /\ Halve[219] = 141 /\ Halve[141] = 166 /\ Halve[166] = 83 /\ Halve[83] = 201
        /\ Halve[201] = 132 /\ Halve[132] = 66 /\ Halve[66] = 33 /\ Halve[33] = 240
  BY HalveIs DEF Octet
<1>c14. /\ Halve[240] = 120 /\ Halve[120] = 60 /\ Halve[60] = 30 /\ Halve[30] = 15
        /\ Halve[15] = 231 /\ Halve[231] = 147 /\ Halve[147] = 169 /\ Halve[169] = 180
  BY HalveIs DEF Octet
<1>c15. /\ Halve[180] = 90 /\ Halve[90] = 45 /\ Halve[45] = 246 /\ Halve[246] = 123
        /\ Halve[123] = 221 /\ Halve[221] = 142 /\ Halve[142] = 71 /\ Halve[71] = 195
  BY HalveIs DEF Octet
<1>c16. /\ Halve[195] = 129 /\ Halve[129] = 160 /\ Halve[160] = 80 /\ Halve[80] = 40
        /\ Halve[40] = 20 /\ Halve[20] = 10 /\ Halve[10] = 5
  BY HalveIs DEF Octet
<1>d0. Polynomial(5) = 150
  BY <1>c1 DEF Polynomial
<1>d1. /\ Polynomial(5) = 150 /\ Polynomial(226) = 75 /\ Polynomial(113) = 197
       /\ Polynomial(216) = 130 /\ Polynomial(108) = 65 /\ Polynomial(54) = 192
       /\ Polynomial(27) = 96 /\ Polynomial(237) = 48
  BY <1>1, <1>d0, <1>c1, <1>c2 DEF Octet
<1>d2. /\ Polynomial(150) = 24 /\ Polynomial(75) = 12 /\ Polynomial(197) = 6
       /\ Polynomial(130) = 3 /\ Polynomial(65) = 225 /\ Polynomial(192) = 144
       /\ Polynomial(96) = 72 /\ Polynomial(48) = 36
  BY SMTT(20), <1>1, <1>d1, <1>c1, <1>c2, <1>c3 DEF Octet
<1>d3. /\ Polynomial(24) = 18 /\ Polynomial(12) = 9 /\ Polynomial(6) = 228
       /\ Polynomial(3) = 114 /\ Polynomial(225) = 57 /\ Polynomial(144) = 252
       /\ Polynomial(72) = 126 /\ Polynomial(36) = 63
  BY SMTT(20), <1>1, <1>d2, <1>c2, <1>c3, <1>c4 DEF Octet
<1>d4. /\ Polynomial(18) = 255 /\ Polynomial(9) = 159 /\ Polynomial(228) = 175
       /\ Polynomial(114) = 183 /\ Polynomial(57) = 187 /\ Polynomial(252) = 189
       /\ Polynomial(126) = 190 /\ Polynomial(63) = 95
  BY SMTT(20), <1>1, <1>d3, <1>c3, <1>c4, <1>c5 DEF Octet
<1>d5. /\ Polynomial(255) = 207 /\ Polynomial(159) = 135 /\ Polynomial(175) = 163
       /\ Polynomial(183) = 177 /\ Polynomial(187) = 184 /\ Polynomial(189) = 92
       /\ Polynomial(190) = 46 /\ Polynomial(95) = 23
  BY SMTT(20), <1>1, <1>d4, <1>c4, <1>c5, <1>c6 DEF Octet
<1>d6. /\ Polynomial(207) = 235 /\ Polynomial(135) = 149 /\ Polynomial(163) = 170
       /\ Polynomial(177) = 85 /\ Polynomial(184) = 202 /\ Polynomial(92) = 101
       /\ Polynomial(46) = 210 /\ Polynomial(23) = 105
  BY SMTT(20), <1>1, <1>d5, <1>c5, <1>c6, <1>c7 DEF Octet
<1>d7. /\ Polynomial(235) = 212 /\ Polynomial(149) = 106 /\ Polynomial(170) = 53
       /\ Polynomial(85) = 250 /\ Polynomial(202) = 125 /\ Polynomial(101) = 222
       /\ Polynomial(210) = 111 /\ Polynomial(105) = 215
  BY SMTT(20), <1>1, <1>d6, <1>c6, <1>c7, <1>c8 DEF Octet
<1>d8. /\ Polynomial(212) = 139 /\ Polynomial(106) = 165 /\ Polynomial(53) = 178
       /\ Polynomial(250) = 89 /\ Polynomial(125) = 204 /\ Polynomial(222) = 102
       /\ Polynomial(111) = 51 /\ Polynomial(215) = 249
  BY SMTT(20), <1>1, <1>d7, <1>c7, <1>c8, <1>c9 DEF Octet
<1>d9. /\ Polynomial(139) = 156 /\ Polynomial(165) = 78 /\ Polynomial(178) = 39
       /\ Polynomial(89) = 243 /\ Polynomial(204) = 153 /\ Polynomial(102) = 172
       /\ Polynomial(51) = 86 /\ Polynomial(249) = 43
  BY SMTT(20), <1>1, <1>d8, <1>c8, <1>c9, <1>c10 DEF Octet
<1>d10. /\ Polynomial(156) = 245 /\ Polynomial(78) = 154 /\ Polynomial(39) = 77
        /\ Polynomial(243) = 198 /\ Polynomial(153) = 99 /\ Polynomial(172) = 209
        /\ Polynomial(86) = 136 /\ Polynomial(43) = 68
  BY SMTT(20), <1>1, <1>d9, <1>c9, <1>c10, <1>c11 DEF Octet
<1>d11. /\ Polynomial(245) = 34 /\ Polynomial(154) = 17 /\ Polynomial(77) = 232
        /\ Polynomial(198) = 116 /\ Polynomial(99) = 58 /\ Polynomial(209) = 29
        /\ Polynomial(136) = 238 /\ Polynomial(68) = 119
  BY SMTT(20), <1>1, <1>d10, <1>c10, <1>c11, <1>c12 DEF Octet
<1>d12. /\ Polynomial(34) = 219 /\ Polynomial(17) = 141 /\ Polynomial(232) = 166
        /\ Polynomial(116) = 83 /\ Polynomial(58) = 201 /\ Polynomial(29) = 132
        /\ Polynomial(238) = 66 /\ Polynomial(119) = 33
  BY SMTT(20), <1>1, <1>d11, <1>c11, <1>c12, <1>c13 DEF Octet
<1>d13. /\ Polynomial(219) = 240 /\ Polynomial(141) = 120 /\ Polynomial(166) = 60
        /\ Polynomial(83) = 30 /\ Polynomial(201) = 15 /\ Polynomial(132) = 231
        /\ Polynomial(66) = 147 /\ Polynomial(33) = 169
  BY SMTT(20), <1>1, <1>d12, <1>c12, <1>c13, <1>c14 DEF Octet
<1>d14. /\ Polynomial(240) = 180 /\ Polynomial(120) = 90 /\ Polynomial(60) = 45
        /\ Polynomial(30) = 246 /\ Polynomial(15) = 123 /\ Polynomial(231) = 221
        /\ Polynomial(147) = 142 /\ Polynomial(169) = 71
  BY SMTT(20), <1>1, <1>d13, <1>c13, <1>c14, <1>c15 DEF Octet
<1>d15. /\ Polynomial(180) = 195 /\ Polynomial(90) = 129 /\ Polynomial(45) = 160
        /\ Polynomial(246) = 80 /\ Polynomial(123) = 40 /\ Polynomial(221) = 20
        /\ Polynomial(142) = 10 /\ Polynomial(71) = 5
  BY SMTT(20), <1>1, <1>d14, <1>c14, <1>c15, <1>c16 DEF Octet
<1>d16. /\ Polynomial(195) = 226 /\ Polynomial(129) = 113 /\ Polynomial(160) = 216
        /\ Polynomial(80) = 108 /\ Polynomial(40) = 54 /\ Polynomial(20) = 27
        /\ Polynomial(10) = 237
  BY SMTT(20), <1>1, <1>d15, <1>c15, <1>c16, <1>c1 DEF Octet
<1>e. Polynomial(0) = 0 /\ Polynomial(191) = 191
  <2>1. \A y : Halve[y] = y => Polynomial(y) = y
    BY DEF Polynomial
  <2>2. Halve[0] = 0 /\ Halve[191] = 191
    BY HalveIs DEF Octet
  <2> QED
    BY <2>1, <2>2
<1> QED
  BY SMTT(30), <1>b1, <1>b2, <1>b3, <1>b4, <1>b5, <1>b6, <1>b7, <1>b8,
     <1>b9, <1>b10, <1>b11, <1>b12, <1>b13, <1>b14, <1>b15, <1>b16,
     <1>d1, <1>d2, <1>d3, <1>d4, <1>d5, <1>d6, <1>d7, <1>d8,
     <1>d9, <1>d10, <1>d11, <1>d12, <1>d13, <1>d14, <1>d15, <1>d16, <1>e
     DEF CRC_LOOKUP_TABLE, Octet

\* One round of calcCRC gives a byte, and zero when the byte equals the CRC
\* so far: this is why a CRC that follows its data checks to zero.
LEMMA CrcStepOctet ==
    ASSUME NEW c \in Octet, NEW d \in Octet
    PROVE  CrcStep(c, d) \in Octet /\ CrcStep(c, c) = 0
BY XorSelf, XorOctet, TableOctets DEF CrcStep

\* The polynomial division is one to one on bytes, so the table is.
LEMMA TableOneToOne ==
    ASSUME NEW x \in Octet, NEW y \in Octet,
           CRC_LOOKUP_TABLE[x + 1] = CRC_LOOKUP_TABLE[y + 1]
    PROVE  x = y
<1> DEFINE H2(c) == Halve[Halve[c]]
           H4(c) == H2(H2(c))
<1>1. /\ \A c \in Octet : H2(c) \in Octet
      /\ \A c, d \in Octet : H2(c) = H2(d) => c = d
  BY Zenon, HalveOneToOne
<1>2. \A c : Polynomial(c) = H4(H4(c))
  BY Zenon DEF Polynomial
<1> HIDE DEF H2
<1>3. /\ \A c \in Octet : H4(c) \in Octet
      /\ \A c, d \in Octet : H4(c) = H4(d) => c = d
  BY Zenon, <1>1
<1> HIDE DEF H4
<1>4. H4(H4(x)) = H4(H4(y))
  BY <1>2, TableIsPolynomial
<1> QED
  BY Zenon, <1>3, <1>4

\* A byte is the sum of its bits.
LEMMA OctetBits ==
    ASSUME NEW c \in Octet
    PROVE  c = Flag(Bit(c, 128), 128) + Flag(Bit(c, 64), 64)
               + Flag(Bit(c, 32), 32) + Flag(Bit(c, 16), 16)
               + Flag(Bit(c, 8), 8) + Flag(Bit(c, 4), 4)
               + Flag(Bit(c, 2), 2) + Flag(Bit(c, 1), 1)
BY DEF Octet, Flag, Bit

\* The exclusive or with the same byte tells two bytes apart.
LEMMA XorCancels ==
    ASSUME NEW c \in Octet, NEW x \in Octet, NEW y \in Octet,
           ByteXor[<<c, x>>] = ByteXor[<<c, y>>]
    PROVE  x = y
<1> DEFINE b(v) == XorBit(<<c, x>>, v)
           d(v) == XorBit(<<c, y>>, v)
<1>1. \A v \in Nat : b(v) \in {0, v} /\ d(v) \in {0, v}
  BY Zenon, XorBits
<1>2. b(128) + b(64) + b(32) + b(16) + b(8) + b(4) + b(2) + b(1)
        = d(128) + d(64) + d(32) + d(16) + d(8) + d(4) + d(2) + d(1)
  BY XorSum
<1>3. /\ b(128) = d(128) => (Bit(x, 128) <=> Bit(y, 128))
      /\ b(64) = d(64) => (Bit(x, 64) <=> Bit(y, 64))
      /\ b(32) = d(32) => (Bit(x, 32) <=> Bit(y, 32))
      /\ b(16) = d(16) => (Bit(x, 16) <=> Bit(y, 16))
      /\ b(8) = d(8) => (Bit(x, 8) <=> Bit(y, 8))
      /\ b(4) = d(4) => (Bit(x, 4) <=> Bit(y, 4))
      /\ b(2) = d(2) => (Bit(x, 2) <=> Bit(y, 2))
      /\ b(1) = d(1) => (Bit(x, 1) <=> Bit(y, 1))
  BY DEF XorBit, Flag, Bit
<1> HIDE DEF b, d
<1>4. /\ b(128) = d(128) /\ b(64) = d(64) /\ b(32) = d(32) /\ b(16) = d(16)
      /\ b(8) = d(8) /\ b(4) = d(4) /\ b(2) = d(2) /\ b(1) = d(1)
  <2>1. /\ b(128) \in {0, 128} /\ b(64) \in {0, 64} /\ b(32) \in {0, 32}
        /\ b(16) \in {0, 16} /\ b(8) \in {0, 8} /\ b(4) \in {0, 4}
        /\ b(2) \in {0, 2} /\ b(1) \in {0, 1}
        /\ d(128) \in {0, 128} /\ d(64) \in {0, 64} /\ d(32) \in {0, 32}
        /\ d(16) \in {0, 16} /\ d(8) \in {0, 8} /\ d(4) \in {0, 4}
        /\ d(2) \in {0, 2} /\ d(1) \in {0, 1}
    BY <1>1
  <2>2. b(128) = d(128)
    BY <1>2, <2>1
  <2>3. b(64) = d(64)
    BY <1>2, <2>1, <2>2
  <2>4. b(32) = d(32)
    BY <1>2, <2>1, <2>2, <2>3
  <2>5. b(16) = d(16)
    BY <1>2, <2>1, <2>2, <2>3, <2>4
  <2> QED
    BY <1>2, <2>1, <2>2, <2>3, <2>4, <2>5
<1> DEFINE fx(v) == Flag(Bit(x, v), v)
           fy(v) == Flag(Bit(y, v), v)
<1>5. /\ fx(128) = fy(128) /\ fx(64) = fy(64) /\ fx(32) = fy(32)
      /\ fx(16) = fy(16) /\ fx(8) = fy(8) /\ fx(4) = fy(4)
      /\ fx(2) = fy(2) /\ fx(1) = fy(1)
  BY Zenon, <1>3, <1>4 DEF Flag
<1>6. /\ x = fx(128) + fx(64) + fx(32) + fx(16) + fx(8) + fx(4) + fx(2) + fx(1)
      /\ y = fy(128) + fy(64) + fy(32) + fy(16) + fy(8) + fy(4) + fy(2) + fy(1)
  BY Zenon, OctetBits
<1> QED
  BY Zenon, <1>5, <1>6

\* It does not matter which byte comes first.
LEMMA XorSwaps ==
    ASSUME NEW c \in Octet, NEW d \in Octet
    PROVE  ByteXor[<<c, d>>] = ByteXor[<<d, c>>]
<1>1. \A v : XorBit(<<c, d>>, v) = XorBit(<<d, c>>, v)
  BY DEF XorBit, Flag
<1> QED
  BY <1>1, XorSum

\* One round of calcCRC keeps apart two CRCs that meet the same byte, and two
\* bytes that meet the same CRC.
LEMMA CrcStepOneToOne ==
    ASSUME NEW c \in Octet, NEW d \in Octet, NEW x \in Octet
    PROVE  /\ CrcStep(c, x) = CrcStep(d, x) => c = d
           /\ CrcStep(x, c) = CrcStep(x, d) => c = d
<1> DEFINE X(i, j) == ByteXor[<<i, j>>]
<1>1. /\ X(c, x) \in Octet /\ X(d, x) \in Octet
      /\ X(x, c) \in Octet /\ X(x, d) \in Octet
  BY Zenon, XorOctet
<1>2. X(c, x) = X(x, c) /\ X(d, x) = X(x, d)
  BY Zenon, XorSwaps
<1>3. X(x, c) = X(x, d) => c = d
  BY Zenon, XorCancels
<1>4. /\ CrcStep(c, x) = CRC_LOOKUP_TABLE[X(c, x) + 1]
      /\ CrcStep(d, x) = CRC_LOOKUP_TABLE[X(d, x) + 1]
      /\ CrcStep(x, c) = CRC_LOOKUP_TABLE[X(x, c) + 1]
      /\ CrcStep(x, d) = CRC_LOOKUP_TABLE[X(x, d) + 1]
  BY Zenon DEF CrcStep
<1> HIDE DEF X
<1>5. CrcStep(c, x) = CrcStep(d, x) => X(c, x) = X(d, x)
  BY Zenon, <1>1, <1>4, TableOneToOne
<1>6. CrcStep(x, c) = CrcStep(x, d) => X(x, c) = X(x, d)
  BY Zenon, <1>1, <1>4, TableOneToOne
<1> QED
  BY Zenon, <1>2, <1>3, <1>5, <1>6

-----------------------------------------------------------------------------
(* calcCRC.                                                                *)

\* f holds the CRC of every prefix of s.
IsCrcOf(f, s) ==
    f = [k \in 0 .. Len(s) |-> IF k = 0 THEN 0 ELSE CrcStep(f[k - 1], s[k])]

Crcs(s) == CHOOSE f : IsCrcOf(f, s)

\* calcCRC is the CRC of the longest prefix.
LEMMA CalcIsLast == \A s : calcCRC(s) = Crcs(s)[Len(s)]
BY DEF calcCRC, Crcs, IsCrcOf

\* The loop of calcCRC has a result for every packet.
LEMMA CrcExists ==
    ASSUME NEW s \in Seq(Octet)
    PROVE  \E f \in [0 .. Len(s) -> Octet] : IsCrcOf(f, s)
<1> DEFINE Good(f, n) ==
             /\ f \in [0 .. n -> Octet]
             /\ f = [k \in 0 .. n |->
                       IF k = 0 THEN 0 ELSE CrcStep(f[k - 1], s[k])]
           T == {n \in Nat : n <= Len(s) => \E f : Good(f, n)}
<1>1. 0 \in T
  <2>1. Good([k \in 0 .. 0 |-> 0], 0)
    BY DEF Octet
  <2> QED
    BY Zenon, <2>1
<1>2. ASSUME NEW n \in Nat, n \in T, n + 1 <= Len(s)
      PROVE  \E f : Good(f, n + 1)
  <2>1. PICK f : Good(f, n)
    BY <1>2
  <2> DEFINE x == CrcStep(f[n], s[n + 1])
             g == [k \in 0 .. n + 1 |-> IF k = n + 1 THEN x ELSE f[k]]
  <2>2. x \in Octet
    BY <1>2, <2>1, CrcStepOctet, ElementOfSeq
  <2>3. g \in [0 .. n + 1 -> Octet]
    BY <2>1, <2>2
  <2>4. \A k \in 0 .. n + 1 :
           g[k] = IF k = 0 THEN 0 ELSE CrcStep(g[k - 1], s[k])
    <3> SUFFICES ASSUME NEW k \in 0 .. n + 1
                 PROVE  g[k] = IF k = 0 THEN 0 ELSE CrcStep(g[k - 1], s[k])
      OBVIOUS
    <3>1. CASE k = n + 1
      <4>1. g[k - 1] = f[n] /\ g[k] = x /\ k # 0
        BY <3>1, <1>2
      <4> QED
        BY <4>1, <3>1
    <3>2. CASE k # n + 1
      <4>1. k \in 0 .. n /\ g[k] = f[k] /\ (k # 0 => g[k - 1] = f[k - 1])
        BY <3>2
      <4>2. f[k] = IF k = 0 THEN 0 ELSE CrcStep(f[k - 1], s[k])
        BY <4>1, <2>1
      <4> QED
        BY <4>1, <4>2
    <3> QED
      BY <3>1, <3>2
  <2> HIDE DEF g
  <2>5. Good(g, n + 1)
    BY <2>3, <2>4
  <2> QED
    BY Zenon, <2>5
<1>3. \A n \in Nat : n \in T => n + 1 \in T
  BY <1>2, LenProperties
<1> HIDE DEF T
<1>4. Len(s) \in T
  BY <1>1, <1>3, NatSteps, LenProperties
<1> QED
  BY <1>4 DEF T, IsCrcOf

\* The chosen function is one of those CRCs of prefixes.
LEMMA CrcsGood ==
    ASSUME NEW s \in Seq(Octet)
    PROVE  IsCrcOf(Crcs(s), s)
BY CrcExists DEF Crcs

\* Packets that start alike have the same CRCs that far.
LEMMA CrcAgree ==
    ASSUME NEW s \in Seq(Octet), NEW t \in Seq(Octet), NEW f, NEW g,
           IsCrcOf(f, s), IsCrcOf(g, t), Len(s) <= Len(t),
           \A k \in 1 .. Len(s) : s[k] = t[k]
    PROVE  \A k \in 0 .. Len(s) : f[k] = g[k]
<1> DEFINE T == {k \in Nat : k <= Len(s) => f[k] = g[k]}
<1>0. Len(s) \in Nat /\ Len(t) \in Nat
  BY LenProperties
<1>1. 0 \in T
  BY <1>0 DEF IsCrcOf
<1>2. ASSUME NEW k \in Nat, k \in T, k + 1 <= Len(s)
      PROVE  f[k + 1] = g[k + 1]
  <2>1. k + 1 \in 0 .. Len(s) /\ k + 1 \in 0 .. Len(t) /\ k + 1 # 0
        /\ (k + 1) - 1 = k
    BY <1>0, <1>2
  <2>2. f[k + 1] = CrcStep(f[k], s[k + 1])
    BY <2>1 DEF IsCrcOf
  <2>3. g[k + 1] = CrcStep(g[k], t[k + 1])
    BY <2>1 DEF IsCrcOf
  <2>4. s[k + 1] = t[k + 1] /\ f[k] = g[k]
    BY <1>0, <1>2
  <2> QED
    BY <2>2, <2>3, <2>4
<1>3. \A k \in Nat : k \in T => k + 1 \in T
  BY <1>2
<1> HIDE DEF T
<1>4. Nat \subseteq T
  BY <1>1, <1>3, NatSteps
<1> QED
  BY <1>0, <1>4 DEF T

\* calcCRC returns a byte.
LEMMA CrcOctet ==
    ASSUME NEW s \in Seq(Octet)
    PROVE  calcCRC(s) \in Octet
<1>1. PICK f \in [0 .. Len(s) -> Octet] : IsCrcOf(f, s)
  BY CrcExists
<1>2. Crcs(s)[Len(s)] = f[Len(s)]
  BY <1>1, CrcAgree, CrcsGood, LenProperties
<1> QED
  BY <1>1, <1>2, CalcIsLast, LenProperties

\* calcCRC of one byte more is one round more.
LEMMA CrcAppend ==
    ASSUME NEW s \in Seq(Octet), NEW x \in Octet
    PROVE  calcCRC(Append(s, x)) = CrcStep(calcCRC(s), x)
<1> DEFINE t == Append(s, x)
<1>1. /\ t \in Seq(Octet) /\ Len(t) = Len(s) + 1 /\ Len(s) \in Nat
      /\ t[Len(s) + 1] = x
      /\ \A k \in 1 .. Len(s) : s[k] = t[k]
  BY AppendProperties, LenProperties
<1>2. IsCrcOf(Crcs(s), s) /\ IsCrcOf(Crcs(t), t)
  BY Zenon, <1>1, CrcsGood
<1> HIDE DEF t
<1>3. Crcs(s)[Len(s)] = Crcs(t)[Len(s)]
  BY <1>1, <1>2, CrcAgree
<1>4. Crcs(t)[Len(s) + 1] = CrcStep(Crcs(t)[Len(s)], x)
  BY <1>1, <1>2 DEF IsCrcOf
<1>5. calcCRC(t) = Crcs(t)[Len(s) + 1] /\ calcCRC(s) = Crcs(s)[Len(s)]
  BY <1>1, CalcIsLast
<1> QED
  BY <1>3, <1>4, <1>5 DEF t

\* What is followed by its own CRC has the CRC zero, which is what the parser
\* tests.
LEMMA CrcChecks ==
    ASSUME NEW s \in Seq(Octet)
    PROVE  /\ WithCRC(s) \in Seq(Octet)
           /\ Len(WithCRC(s)) = Len(s) + 1
           /\ \A k \in 1 .. Len(s) : WithCRC(s)[k] = s[k]
           /\ calcCRC(WithCRC(s)) = 0
BY CrcOctet, CrcAppend, CrcStepOctet, AppendProperties DEF WithCRC

\* calcCRC is the last of any CRCs of the prefixes.
LEMMA CalcIs ==
    ASSUME NEW s \in Seq(Octet), NEW f, IsCrcOf(f, s)
    PROVE  calcCRC(s) = f[Len(s)]
<1>1. Len(s) \in Nat
  BY LenProperties
<1>2. \A k \in 0 .. Len(s) : Crcs(s)[k] = f[k]
  BY <1>1, CrcAgree, CrcsGood
<1> QED
  BY <1>1, <1>2, CalcIsLast

\* calcCRC notices a wrong byte: packets that differ in one byte have
\* different CRCs, wherever the byte is and however it is wrong.
LEMMA CrcNotices ==
    ASSUME NEW s \in Seq(Octet), NEW t \in Seq(Octet), Len(s) = Len(t),
           NEW j \in 1 .. Len(s), s[j] # t[j],
           \A k \in 1 .. Len(s) : k # j => s[k] = t[k]
    PROVE  calcCRC(s) # calcCRC(t)
<1>0. Len(s) \in Nat /\ j \in Nat
  BY LenProperties
<1>1. PICK f \in [0 .. Len(s) -> Octet] : IsCrcOf(f, s)
  BY Zenon, CrcExists
<1>2. PICK g \in [0 .. Len(s) -> Octet] : IsCrcOf(g, t)
  BY Zenon, CrcExists
<1> DEFINE Good(k) == IF k < j THEN f[k] = g[k] ELSE f[k] # g[k]
           T == {k \in Nat : k <= Len(s) => Good(k)}
<1>3. 0 \in T
  BY <1>0, <1>1, <1>2 DEF IsCrcOf
<1>4. ASSUME NEW k \in Nat, k \in T, k + 1 <= Len(s)
      PROVE  Good(k + 1)
  <2>1. k \in 0 .. Len(s) /\ k + 1 \in 0 .. Len(s) /\ k + 1 \in 1 .. Len(s)
        /\ k + 1 # 0 /\ (k + 1) - 1 = k
    BY <1>0, <1>4
  <2>2. f[k + 1] = CrcStep(f[k], s[k + 1])
    BY <1>1, <2>1 DEF IsCrcOf
  <2>3. g[k + 1] = CrcStep(g[k], t[k + 1])
    BY <1>2, <2>1 DEF IsCrcOf
  <2>4. /\ f[k] \in Octet /\ g[k] \in Octet
        /\ s[k + 1] \in Octet /\ t[k + 1] \in Octet
    BY Zenon, <1>1, <1>2, <2>1, ElementOfSeq
  <2>5. /\ k < j => f[k] = g[k]
        /\ ~(k < j) => f[k] # g[k]
    <3>1. k <= Len(s)
      BY <1>0, <1>4
    <3> QED
      BY Zenon, <1>4, <3>1
  <2>6. CASE k + 1 < j
    <3>0. k < j /\ k + 1 # j
      BY <1>0, <2>6
    <3>1. f[k] = g[k] /\ s[k + 1] = t[k + 1]
      BY Zenon, <2>1, <2>5, <3>0
    <3> QED
      BY Zenon, <2>2, <2>3, <2>6, <3>1
  <2>7. CASE k + 1 = j
    <3>0. k < j /\ ~(k + 1 < j)
      BY <1>0, <2>7
    <3>1. f[k] = g[k] /\ s[k + 1] # t[k + 1] /\ ~(k + 1 < j)
      BY Zenon, <2>7, <2>5, <3>0
    <3>2. CrcStep(f[k], s[k + 1]) = CrcStep(f[k], t[k + 1])
            => s[k + 1] = t[k + 1]
      BY Zenon, <2>4, CrcStepOneToOne
    <3> QED
      BY Zenon, <2>2, <2>3, <3>1, <3>2
  <2>8. CASE k + 1 > j
    <3>0. ~(k < j) /\ ~(k + 1 < j) /\ k + 1 # j
      BY <1>0, <2>8
    <3>1. f[k] # g[k] /\ s[k + 1] = t[k + 1] /\ ~(k + 1 < j)
      BY Zenon, <2>1, <2>5, <3>0
    <3>2. CrcStep(f[k], s[k + 1]) = CrcStep(g[k], s[k + 1]) => f[k] = g[k]
      BY ZenonT(30), <2>4, CrcStepOneToOne
    <3> QED
      BY Zenon, <2>2, <2>3, <3>1, <3>2
  <2> QED
    BY <1>0, <2>6, <2>7, <2>8
<1>5. \A k \in Nat : k \in T => k + 1 \in T
  BY <1>4
<1> HIDE DEF T
<1>6. Len(s) \in T
  BY <1>0, <1>3, <1>5, NatSteps
<1>7. f[Len(s)] # g[Len(s)]
  BY <1>0, <1>6 DEF T
<1> QED
  BY Zenon, <1>1, <1>2, <1>7, CalcIs

\* f holds the remainder of the polynomial division of every prefix of s.
IsDivisionOf(f, s) ==
    f = [k \in 0 .. Len(s) |->
           IF k = 0 THEN 0 ELSE Polynomial(ByteXor[<<f[k - 1], s[k]>>])]

\* calcCRC is the CRC of the RMAP standard, for packets of any length.
LEMMA CalcIsPolynomial ==
    ASSUME NEW s \in Seq(Octet)
    PROVE  calcCRC(s) = PolynomialCRC(s)
<1>0. Len(s) \in Nat
  BY LenProperties
<1>1. PICK f \in [0 .. Len(s) -> Octet] : IsCrcOf(f, s)
  BY Zenon, CrcExists
<1>2. ASSUME NEW c \in Octet, NEW x \in Octet
      PROVE  CrcStep(c, x) = Polynomial(ByteXor[<<c, x>>])
  BY Zenon, XorOctet, TableIsPolynomial DEF CrcStep
<1>3. IsDivisionOf(f, s)
  <2>1. \A k \in 0 .. Len(s) :
          f[k] = IF k = 0 THEN 0 ELSE CrcStep(f[k - 1], s[k])
    BY SMTT(20), <1>1 DEF IsCrcOf
  <2>2. \A k \in 0 .. Len(s) : k # 0 =>
          CrcStep(f[k - 1], s[k]) = Polynomial(ByteXor[<<f[k - 1], s[k]>>])
    <3> SUFFICES ASSUME NEW k \in 0 .. Len(s), k # 0
                 PROVE  f[k - 1] \in Octet /\ s[k] \in Octet
      BY Zenon, <1>2
    <3>1. k - 1 \in 0 .. Len(s) /\ k \in 1 .. Len(s)
      BY <1>0
    <3> QED
      BY Zenon, <1>1, <3>1, ElementOfSeq
  <2> QED
    BY Zenon, <1>1, <2>1, <2>2 DEF IsDivisionOf
<1> DEFINE g == CHOOSE h : IsDivisionOf(h, s)
<1>4. PolynomialCRC(s) = g[Len(s)]
  BY Zenon DEF PolynomialCRC, IsDivisionOf
<1>5. IsDivisionOf(g, s)
  BY Zenon, <1>3
<1> HIDE DEF g
<1> DEFINE T == {k \in Nat : k <= Len(s) => f[k] = g[k]}
<1>6. 0 \in T
  BY <1>0, <1>3, <1>5 DEF IsDivisionOf
<1>7. ASSUME NEW k \in Nat, k \in T, k + 1 <= Len(s)
      PROVE  f[k + 1] = g[k + 1]
  <2>1. k + 1 \in 0 .. Len(s) /\ k + 1 # 0 /\ (k + 1) - 1 = k /\ f[k] = g[k]
    BY <1>0, <1>7
  <2>2. f[k + 1] = Polynomial(ByteXor[<<f[k], s[k + 1]>>])
    BY <1>3, <2>1 DEF IsDivisionOf
  <2>3. g[k + 1] = Polynomial(ByteXor[<<g[k], s[k + 1]>>])
    BY <1>5, <2>1 DEF IsDivisionOf
  <2> QED
    BY Zenon, <2>1, <2>2, <2>3
<1>8. \A k \in Nat : k \in T => k + 1 \in T
  BY <1>7
<1> HIDE DEF T
<1>9. Len(s) \in T
  BY <1>0, <1>6, <1>8, NatSteps
<1>10. f[Len(s)] = g[Len(s)]
  BY <1>0, <1>9 DEF T
<1> QED
  BY Zenon, <1>1, <1>4, <1>10, CalcIs

-----------------------------------------------------------------------------
(* Fields.                                                                 *)

\* A byte taken from a field is a byte.
LEMMA ByteOctet ==
    ASSUME NEW n \in Nat, NEW v \in {1, 256, 65536, 16777216}
    PROVE  Byte(n, v) \in Octet
BY DEF Byte, Octet

\* A transaction ID is found again in its two bytes.
LEMMA TwoBytes ==
    ASSUME NEW n \in Nat, n < 65536
    PROVE  Byte(n, 256) * 256 + Byte(n, 1) = n
BY DEF Byte

\* A data length is found again in its three bytes.
LEMMA ThreeBytes ==
    ASSUME NEW n \in Nat, n < 16777216
    PROVE  Byte(n, 65536) * 65536 + Byte(n, 256) * 256 + Byte(n, 1) = n
BY DEF Byte

\* An address is found again in its four bytes.
LEMMA FourBytes ==
    ASSUME NEW n \in Nat, n \div 65536 < 65536
    PROVE  Byte(n, 16777216) * 16777216 + Byte(n, 65536) * 65536
             + Byte(n, 256) * 256 + Byte(n, 1) = n
BY DEF Byte

\* The reply address field has whole words, and room for the address.
LEMMA ReplyFieldSize ==
    ASSUME NEW n \in Nat, n <= 12
    PROVE  /\ ReplyField(n) \in {0, 4, 8, 12}
           /\ n <= ReplyField(n)
           /\ ReplyField(n) < n + 4
BY DEF ReplyField

-----------------------------------------------------------------------------
(* Parts of packets.                                                       *)

\* The least member of a set is its minimum.
LEMMA MinIs ==
    ASSUME NEW S, S \subseteq Int, NEW x \in S, \A y \in S : x <= y
    PROVE  Min(S) = x
<1>1. \A z \in S : (\A y \in S : z <= y) => z = x
  OBVIOUS
<1> QED
  BY Zenon, <1>1 DEF Min

\* What two packets joined have where.
LEMMA Joined ==
    ASSUME NEW a \in Seq(Octet), NEW b \in Seq(Octet)
    PROVE  /\ a \o b \in Seq(Octet)
           /\ Len(a \o b) = Len(a) + Len(b)
           /\ \A i \in 1 .. Len(a) : (a \o b)[i] = a[i]
           /\ \A i \in 1 .. Len(b) : (a \o b)[Len(a) + i] = b[i]
BY LenProperties, ConcatProperties

\* The bytes of s behind the first m, as many as b has, are b if they agree.
LEMMA Slice ==
    ASSUME NEW s \in Seq(Octet), NEW b \in Seq(Octet), NEW m \in Nat, NEW n,
           n = m + Len(b), n <= Len(s), \A i \in 1 .. Len(b) : s[m + i] = b[i]
    PROVE  SubSeq(s, m + 1, n) = b
<1> DEFINE u == SubSeq(s, m + 1, n)
<1>1. Len(s) \in Nat /\ Len(b) \in Nat /\ n \in Nat
  BY LenProperties
<1>2. \A i \in m + 1 .. n : s[i] \in Octet
  BY <1>1, ElementOfSeq
<1>3. /\ u \in Seq(Octet) /\ Len(u) = Len(b)
      /\ \A i \in 1 .. Len(b) : u[i] = s[(m + 1) + i - 1]
  BY <1>1, <1>2, SubSeqProperties
<1> HIDE DEF u
<1>4. \A i \in 1 .. Len(b) : (m + 1) + i - 1 = m + i
  BY <1>1
<1>5. \A i \in 1 .. Len(b) : u[i] = b[i]
  BY <1>3, <1>4
<1> QED
  BY <1>3, <1>5, SeqEqual DEF u

\* The zeros that pad a reply address are the zeros the parser strips.
LEMMA Stripped ==
    ASSUME NEW z \in Seq({0}), NEW r \in Seq(Octet)
    PROVE  StripZeros(z \o r) = StripZeros(r)
<1> DEFINE s == z \o r
           N(q) == {i \in 1 .. Len(q) : q[i] # 0}
<1>1. Len(z) \in Nat /\ Len(r) \in Nat /\ z \in Seq(Octet)
  BY LenProperties, SeqMonotonic DEF Octet
<1>2. \A i \in 1 .. Len(z) : z[i] = 0
  BY ElementOfSeq
<1>3. /\ s \in Seq(Octet) /\ Len(s) = Len(z) + Len(r)
      /\ \A i \in 1 .. Len(z) : s[i] = z[i]
      /\ \A i \in 1 .. Len(r) : s[Len(z) + i] = r[i]
  BY <1>1, Joined
<1> HIDE DEF s
<1>4. \A i \in N(r) : Len(z) + i \in N(s)
  BY <1>1, <1>3
<1>5. \A i \in N(s) : i - Len(z) \in N(r)
  <2> SUFFICES ASSUME NEW i \in N(s) PROVE i - Len(z) \in N(r)
    OBVIOUS
  <2>1. i \in 1 .. Len(s) /\ i \notin 1 .. Len(z)
    BY <1>2, <1>3
  <2>2. i - Len(z) \in 1 .. Len(r) /\ Len(z) + (i - Len(z)) = i
    BY <1>1, <1>3, <2>1
  <2> QED
    BY <1>3, <2>2
<1>6. CASE N(r) = {}
  <2>1. N(s) = {}
    BY SMTT(30), <1>5, <1>6
  <2> QED
    BY <1>6, <2>1 DEF StripZeros, s
<1>7. CASE N(r) # {}
  <2> DEFINE u == SubSeq(r, Min(N(r)), Len(r))
  <2>1. PICK m \in N(r) : \A i \in N(r) : m <= i
    <3>1. N(r) \subseteq Nat
      BY <1>1
    <3> HIDE DEF N
    <3> QED
      BY <3>1, <1>7, NatLeast
  <2>2. Min(N(r)) = m
    <3>1. N(r) \subseteq Int
      BY <1>1
    <3> HIDE DEF N
    <3> QED
      BY <3>1, <2>1, MinIs
  <2>3. Min(N(s)) = Len(z) + m
    <3>1. N(s) \subseteq Int /\ Len(z) + m \in N(s)
      BY <1>1, <1>3, <1>4, <2>1
    <3>2. \A i \in N(s) : Len(z) + m <= i
      BY <1>1, <1>5, <2>1, <3>1
    <3> HIDE DEF N
    <3> QED
      BY <3>1, <3>2, MinIs
  <2>4. m \in 1 .. Len(r)
    BY <2>1
  <2>5. /\ u \in Seq(Octet) /\ Len(u) = Len(r) - m + 1
        /\ \A i \in 1 .. Len(u) : u[i] = r[m + i - 1]
    <3>1. \A i \in m .. Len(r) : r[i] \in Octet
      BY <1>1, <2>4, ElementOfSeq
    <3> HIDE DEF N
    <3> QED
      BY <1>1, <2>2, <2>4, <3>1, SubSeqProperties
  <2> HIDE DEF u
  <2>6. SubSeq(s, Len(z) + m, Len(s)) = u
    <3> DEFINE k == Len(z) + m - 1
    <3>1. /\ k \in Nat /\ k + 1 = Len(z) + m
          /\ Len(s) = k + Len(u) /\ Len(s) <= Len(s)
      BY <1>1, <1>3, <2>4, <2>5
    <3>2. \A i \in 1 .. Len(u) : s[k + i] = u[i]
      <4> SUFFICES ASSUME NEW i \in 1 .. Len(u) PROVE s[k + i] = u[i]
        OBVIOUS
      <4>1. m + i - 1 \in 1 .. Len(r) /\ k + i = Len(z) + (m + i - 1)
        BY <1>1, <2>4, <2>5
      <4> HIDE DEF k
      <4> QED
        BY Zenon, <1>3, <2>5, <4>1
    <3> HIDE DEF k
    <3>3. SubSeq(s, k + 1, Len(s)) = u
      <4>1. s \in Seq(Octet) /\ u \in Seq(Octet)
        BY <1>3, <2>5
      <4> QED
        BY Zenon, <3>1, <3>2, <4>1, Slice
    <3> QED
      BY Zenon, <3>1, <3>3
  <2>7. N(s) # {}
    BY <1>4, <2>1
  <2> QED
    BY Zenon, <1>7, <2>2, <2>3, <2>6, <2>7 DEF StripZeros, s, u
<1> QED
  BY <1>6, <1>7

\* What seven sequences of the lengths of the fields of a command header put
\* one behind the other have at each place.
Placed(s, R, s1, q, i1, t, z, a, l) ==
    /\ s \in Seq(Octet) /\ Len(s) = 15 + R
    /\ \A i \in 1 .. 4 : s[i] = s1[i]
    /\ \A i \in 1 .. R : s[4 + i] = q[i]
    /\ s[5 + R] = i1[1]
    /\ s[6 + R] = t[1] /\ s[7 + R] = t[2]
    /\ s[9 + R] = a[1] /\ s[10 + R] = a[2]
    /\ s[11 + R] = a[3] /\ s[12 + R] = a[4]
    /\ s[13 + R] = l[1] /\ s[14 + R] = l[2] /\ s[15 + R] = l[3]

Sized(R, s1, q, i1, t, z, a, l) ==
    /\ R \in Nat /\ Len(s1) = 4 /\ Len(q) = R /\ Len(i1) = 1 /\ Len(t) = 2
    /\ Len(z) = 1 /\ Len(a) = 4 /\ Len(l) = 3

\* a and b start with the same n bytes.
Alike(a, b, n) == \A i \in 1 .. n : a[i] = b[i]

\* What starts like b, and b like c, starts like c.
LEMMA AlikeChain ==
    ASSUME NEW a, NEW b, NEW c, NEW m \in Nat, NEW n \in Nat, m <= n,
           Alike(a, b, n), Alike(b, c, m)
    PROVE  Alike(a, c, m)
<1>1. \A i \in 1 .. m : i \in 1 .. n
  BY SMTT(30)
<1> QED
  BY Zenon, <1>1 DEF Alike

\* Where each part of a command header ends up.
LEMMA FieldPlaces ==
    ASSUME NEW R,
           NEW s1 \in Seq(Octet), NEW q \in Seq(Octet), NEW i1 \in Seq(Octet),
           NEW t \in Seq(Octet), NEW z \in Seq(Octet), NEW a \in Seq(Octet),
           NEW l \in Seq(Octet), Sized(R, s1, q, i1, t, z, a, l)
    PROVE  Placed(s1 \o q \o i1 \o t \o z \o a \o l, R, s1, q, i1, t, z, a, l)
<1> DEFINE s2 == s1 \o q
           s3 == s2 \o i1
           s4 == s3 \o t
           s5 == s4 \o z
           s6 == s5 \o a
           s7 == s6 \o l
<1>2a. s2 \in Seq(Octet) /\ Len(s2) = Len(s1) + Len(q)
  BY Joined
<1>2b. \A i \in 1 .. Len(s1) : s2[i] = s1[i]
  BY Joined
<1>2c. \A i \in 1 .. Len(q) : s2[Len(s1) + i] = q[i]
  BY Joined
<1> HIDE DEF s2
<1>3a. s3 \in Seq(Octet) /\ Len(s3) = Len(s2) + Len(i1)
  BY Zenon, <1>2a, Joined
<1>3b. \A i \in 1 .. Len(s2) : s3[i] = s2[i]
  BY <1>2a, Joined
<1>3c. \A i \in 1 .. Len(i1) : s3[Len(s2) + i] = i1[i]
  BY <1>2a, Joined
<1> HIDE DEF s3
<1>4a. s4 \in Seq(Octet) /\ Len(s4) = Len(s3) + Len(t)
  BY Zenon, <1>3a, Joined
<1>4b. \A i \in 1 .. Len(s3) : s4[i] = s3[i]
  BY <1>3a, Joined
<1>4c. \A i \in 1 .. Len(t) : s4[Len(s3) + i] = t[i]
  BY Zenon, <1>3a, Joined
<1> HIDE DEF s4
<1>5a. s5 \in Seq(Octet) /\ Len(s5) = Len(s4) + Len(z)
  BY <1>4a, Joined
<1>5b. \A i \in 1 .. Len(s4) : s5[i] = s4[i]
  BY <1>4a, Joined
<1>5c. \A i \in 1 .. Len(z) : s5[Len(s4) + i] = z[i]
  BY <1>4a, Joined
<1> HIDE DEF s5
<1>6a. s6 \in Seq(Octet) /\ Len(s6) = Len(s5) + Len(a)
  BY Zenon, <1>5a, Joined
<1>6b. \A i \in 1 .. Len(s5) : s6[i] = s5[i]
  BY <1>5a, Joined
<1>6c. \A i \in 1 .. Len(a) : s6[Len(s5) + i] = a[i]
  BY Zenon, <1>5a, Joined
<1> HIDE DEF s6
<1>7a. s7 \in Seq(Octet) /\ Len(s7) = Len(s6) + Len(l)
  BY Zenon, <1>6a, Joined
<1>7b. \A i \in 1 .. Len(s6) : s7[i] = s6[i]
  BY <1>6a, Joined
<1>7c. \A i \in 1 .. Len(l) : s7[Len(s6) + i] = l[i]
  BY Zenon, <1>6a, Joined
<1> HIDE DEF s7
<1>8. /\ R \in Nat /\ Len(s1) = 4 /\ Len(q) = R /\ Len(i1) = 1 /\ Len(t) = 2
      /\ Len(z) = 1 /\ Len(a) = 4 /\ Len(l) = 3
  BY DEF Sized
<1>8a. R \in Nat
  BY <1>8
<1>9. /\ Len(s2) = 4 + R /\ Len(s3) = 5 + R /\ Len(s4) = 7 + R
      /\ Len(s5) = 8 + R /\ Len(s6) = 12 + R /\ Len(s7) = 15 + R
  BY <1>8, <1>2a, <1>3a, <1>4a, <1>5a, <1>6a, <1>7a
<1>9a. Alike(s7, s5, 8 + R)
  <2>1. Alike(s7, s6, 12 + R) /\ Alike(s6, s5, 8 + R)
    BY Zenon, <1>9, <1>6b, <1>7b DEF Alike
  <2> QED
    BY <1>8a, <2>1, AlikeChain
<1>9b. Alike(s7, s4, 7 + R)
  <2>1. Alike(s5, s4, 7 + R)
    BY Zenon, <1>9, <1>5b DEF Alike
  <2> QED
    BY <1>8a, <1>9a, <2>1, AlikeChain
<1>9c. Alike(s7, s3, 5 + R)
  <2>1. Alike(s4, s3, 5 + R)
    BY Zenon, <1>9, <1>4b DEF Alike
  <2> QED
    BY <1>8a, <1>9b, <2>1, AlikeChain
<1>9d. Alike(s7, s2, 4 + R)
  <2>1. Alike(s3, s2, 4 + R)
    BY Zenon, <1>9, <1>3b DEF Alike
  <2> QED
    BY <1>8a, <1>9c, <2>1, AlikeChain
<1>10. \A i \in 1 .. 4 : s7[i] = s1[i]
  <2>1. Alike(s2, s1, 4)
    BY Zenon, <1>8, <1>2b DEF Alike
  <2>2. Alike(s7, s1, 4)
    BY <1>8a, <1>9d, <2>1, AlikeChain
  <2> QED
    BY <2>2 DEF Alike
<1>11. \A i \in 1 .. R : s7[4 + i] = q[i]
  <2>1. \A i \in 1 .. R : s2[4 + i] = q[i]
    BY <1>8, <1>2c
  <2>2. \A i \in 1 .. R : 4 + i \in 1 .. 4 + R
    BY <1>8a
  <2> QED
    BY <1>8a, <2>1, <2>2, <1>9d DEF Alike
<1>12. s7[5 + R] = i1[1]
  <2>1. s3[(4 + R) + 1] = i1[1]
    BY <1>8, <1>9, <1>3c
  <2>2. (4 + R) + 1 = 5 + R /\ 5 + R \in 1 .. 5 + R
    BY <1>8a
  <2>3. s7[5 + R] = s3[5 + R]
    BY <1>8a, <2>2, <1>9c DEF Alike
  <2> QED
    BY <1>8a, <2>1, <2>2, <2>3
<1>13. s7[6 + R] = t[1] /\ s7[7 + R] = t[2]
  <2>1. s4[(5 + R) + 1] = t[1] /\ s4[(5 + R) + 2] = t[2]
    BY <1>8, <1>9, <1>4c
  <2>2. /\ (5 + R) + 1 = 6 + R /\ 6 + R \in 1 .. 7 + R
        /\ (5 + R) + 2 = 7 + R /\ 7 + R \in 1 .. 7 + R
    BY <1>8a
  <2>3. s7[6 + R] = s4[6 + R] /\ s7[7 + R] = s4[7 + R]
    BY <1>8a, <2>2, <1>9b DEF Alike
  <2> QED
    BY <1>8a, <2>1, <2>2, <2>3
<1>14. /\ s7[9 + R] = a[1] /\ s7[10 + R] = a[2]
       /\ s7[11 + R] = a[3] /\ s7[12 + R] = a[4]
  <2>1. /\ s6[(8 + R) + 1] = a[1] /\ s6[(8 + R) + 2] = a[2]
        /\ s6[(8 + R) + 3] = a[3] /\ s6[(8 + R) + 4] = a[4]
    BY <1>8, <1>9, <1>6c
  <2>2. \A j \in 1 .. 12 + R : s7[j] = s6[j]
    BY <1>8a, <1>9, <1>7b
  <2> QED
    BY <1>8a, <2>1, <2>2
<1>15. s7[13 + R] = l[1] /\ s7[14 + R] = l[2] /\ s7[15 + R] = l[3]
  <2>1. /\ s7[(12 + R) + 1] = l[1] /\ s7[(12 + R) + 2] = l[2]
        /\ s7[(12 + R) + 3] = l[3]
    BY <1>8, <1>9, <1>7c
  <2>2. /\ (12 + R) + 1 = 13 + R /\ (12 + R) + 2 = 14 + R
        /\ (12 + R) + 3 = 15 + R
    BY <1>8a
  <2> QED
    BY <2>1, <2>2
<1>16. Placed(s7, R, s1, q, i1, t, z, a, l)
  BY Zenon, <1>7a, <1>9, <1>10, <1>11, <1>12, <1>13, <1>14, <1>15 DEF Placed
<1> QED
  BY <1>16 DEF s2, s3, s4, s5, s6, s7

ReadInstruction  == Command + Reply + Increment
WriteInstruction == Command + Write + Reply + Flag(Verify, VerifyBit)
                      + Increment

\* The instruction byte of a command: the parser finds the size of the reply
\* address field in it, and the kind of the command.
LEMMA Instructions ==
    ASSUME NEW R \in {0, 4, 8, 12}, NEW n,
           n \in {ReadInstruction + (R \div 4), WriteInstruction + (R \div 4)}
    PROVE  /\ n \in Octet
           /\ (n % 4) * 4 = R
           /\ Bit(n, Command)
           /\ n = ReadInstruction + (R \div 4) => ~Bit(n, Write)
           /\ n = WriteInstruction + (R \div 4) => Bit(n, Write)
<1>1. ReadInstruction = 76 /\ (WriteInstruction = 108 \/ WriteInstruction = 124)
  BY DEF ReadInstruction, WriteInstruction, Command, Write, Reply, Increment,
         VerifyBit, Flag
<1>2. R \div 4 \in {0, 1, 2, 3} /\ (R \div 4) * 4 = R
  OBVIOUS
<1> QED
  BY <1>1, <1>2 DEF Octet, Bit, Command, Write

\* A padded reply address fills its field and is stripped like the address.
LEMMA PaddedShape ==
    ASSUME NEW r \in Seq(Octet), Len(r) <= 12
    PROVE  /\ PaddedReply(r) \in Seq(Octet)
           /\ Len(PaddedReply(r)) = ReplyField(Len(r))
           /\ ReplyField(Len(r)) \in {0, 4, 8, 12}
           /\ StripZeros(PaddedReply(r)) = StripZeros(r)
<1> DEFINE k == ReplyField(Len(r)) - Len(r)
           z == [i \in 1 .. k |-> 0]
<1>1. Len(r) \in Nat
  BY LenProperties
<1>2. ReplyField(Len(r)) \in {0, 4, 8, 12} /\ Len(r) <= ReplyField(Len(r))
  BY <1>1, ReplyFieldSize
<1>3. k \in Nat
  BY <1>1, <1>2
<1> HIDE DEF k
<1>4. z \in Seq({0}) /\ z \in Seq(Octet) /\ Len(z) = k
  BY <1>3 DEF Octet
<1> HIDE DEF z
<1>5. PaddedReply(r) = z \o r
  BY DEF PaddedReply, z, k
<1>6. /\ z \o r \in Seq(Octet) /\ Len(z \o r) = k + Len(r)
      /\ StripZeros(z \o r) = StripZeros(r)
  BY Zenon, <1>4, Joined, Stripped
<1>7. k + Len(r) = ReplyField(Len(r))
  BY <1>1, <1>2 DEF k
<1> QED
  BY <1>2, <1>5, <1>6, <1>7

\* The header of a command: what the parser reads at each place.
HeaderOf(h, R, c, ins, len) ==
    /\ h \in Seq(Octet) /\ Len(h) = 16 + R /\ calcCRC(h) = 0
    /\ h[1] = TargetLA /\ h[2] = 1 /\ h[3] = ins
    /\ \A i \in 1 .. R : h[4 + i] = PaddedReply(c.reply)[i]
    /\ h[5 + R] = InitiatorLA
    /\ h[6 + R] = Byte(c.id, 256) /\ h[7 + R] = Byte(c.id, 1)
    /\ h[9 + R] = Byte(c.addr, 16777216) /\ h[10 + R] = Byte(c.addr, 65536)
    /\ h[11 + R] = Byte(c.addr, 256) /\ h[12 + R] = Byte(c.addr, 1)
    /\ h[13 + R] = Byte(len, 65536) /\ h[14 + R] = Byte(len, 256)
    /\ h[15 + R] = Byte(len, 1)

\* The bytes of a field, two, three or four.
LEMMA BytesShape ==
    ASSUME NEW n \in Nat
    PROVE  /\ Bytes2(n) \in Seq(Octet) /\ Len(Bytes2(n)) = 2
           /\ Bytes3(n) \in Seq(Octet) /\ Len(Bytes3(n)) = 3
           /\ Bytes4(n) \in Seq(Octet) /\ Len(Bytes4(n)) = 4
<1>1. /\ Byte(n, 16777216) \in Octet /\ Byte(n, 65536) \in Octet
      /\ Byte(n, 256) \in Octet /\ Byte(n, 1) \in Octet
  BY ByteOctet
<1> QED
  BY <1>1 DEF Bytes2, Bytes3, Bytes4

\* Bytes in a row are a packet.
LEMMA TupleShape ==
    ASSUME NEW a \in Octet, NEW b \in Octet, NEW c \in Octet, NEW d \in Octet
    PROVE  /\ <<a>> \in Seq(Octet) /\ Len(<<a>>) = 1
           /\ <<a, b, c, d>> \in Seq(Octet) /\ Len(<<a, b, c, d>>) = 4
OBVIOUS

\* CommandHeader puts every field where the parser looks for it.
LEMMA HeaderShape ==
    ASSUME NEW c, c.reply \in Seq(Octet), Len(c.reply) <= 12, c.id \in Nat,
           c.addr \in Nat, NEW len \in Nat, NEW ins,
           ins + (ReplyField(Len(c.reply)) \div 4) \in Octet
    PROVE  HeaderOf(CommandHeader(c, ins, len), ReplyField(Len(c.reply)), c,
                    ins + (ReplyField(Len(c.reply)) \div 4), len)
<1> DEFINE R  == ReplyField(Len(c.reply))
           n  == ins + (R \div 4)
           s1 == <<TargetLA, ProtocolIdentifier, n, 0>>
           q  == PaddedReply(c.reply)
           i1 == <<InitiatorLA>>
           t  == Bytes2(c.id)
           z  == <<0>>
           a  == Bytes4(c.addr)
           l  == Bytes3(len)
           s  == s1 \o q \o i1 \o t \o z \o a \o l
           h  == WithCRC(s)
<1>1. CommandHeader(c, ins, len) = h
  BY DEF CommandHeader
<1>2. q \in Seq(Octet) /\ Len(q) = R /\ R \in {0, 4, 8, 12}
  BY PaddedShape
<1>3. R \in Nat
  BY <1>2
<1> HIDE DEF R
<1>4. n \in Octet
  BY DEF R
<1> HIDE DEF n
<1>5. /\ TargetLA \in Octet /\ ProtocolIdentifier \in Octet /\ 0 \in Octet
      /\ InitiatorLA \in Octet
  BY DEF TargetLA, ProtocolIdentifier, InitiatorLA, Octet
<1>7. s1 \in Seq(Octet) /\ i1 \in Seq(Octet) /\ z \in Seq(Octet)
  BY <1>4, <1>5, TupleShape
<1>8. Len(s1) = 4 /\ Len(i1) = 1 /\ Len(z) = 1
  BY <1>4, <1>5, TupleShape
<1>9. t \in Seq(Octet) /\ a \in Seq(Octet) /\ l \in Seq(Octet)
  BY BytesShape
<1>10. Len(t) = 2 /\ Len(a) = 4 /\ Len(l) = 3
  BY BytesShape
<1>11. /\ s1[1] = TargetLA /\ s1[2] = 1 /\ s1[3] = n /\ i1[1] = InitiatorLA
  BY DEF ProtocolIdentifier
<1>12. /\ t[1] = Byte(c.id, 256) /\ t[2] = Byte(c.id, 1)
       /\ a[1] = Byte(c.addr, 16777216) /\ a[2] = Byte(c.addr, 65536)
       /\ a[3] = Byte(c.addr, 256) /\ a[4] = Byte(c.addr, 1)
       /\ l[1] = Byte(len, 65536) /\ l[2] = Byte(len, 256)
       /\ l[3] = Byte(len, 1)
  BY DEF Bytes2, Bytes3, Bytes4
<1> HIDE DEF s1, q, i1, t, z, a, l
<1>13. Sized(R, s1, q, i1, t, z, a, l)
  BY <1>2, <1>3, <1>8, <1>10 DEF Sized
<1>14. Placed(s, R, s1, q, i1, t, z, a, l)
  BY <1>2, <1>7, <1>9, <1>13, FieldPlaces
<1> HIDE DEF s
<1>15. s \in Seq(Octet) /\ Len(s) = 15 + R
  BY <1>14 DEF Placed
<1>16. /\ h \in Seq(Octet) /\ Len(h) = Len(s) + 1 /\ calcCRC(h) = 0
       /\ \A i \in 1 .. Len(s) : h[i] = s[i]
  BY Zenon, <1>15, CrcChecks
<1> HIDE DEF h
<1>17. Len(h) = 16 + R /\ \A i \in 1 .. 15 + R : h[i] = s[i]
  BY <1>3, <1>15, <1>16
<1>18. /\ h[1] = TargetLA /\ h[2] = 1 /\ h[3] = n
  <2>1. s[1] = s1[1] /\ s[2] = s1[2] /\ s[3] = s1[3]
    BY <1>14 DEF Placed
  <2>2. 1 \in 1 .. 15 + R /\ 2 \in 1 .. 15 + R /\ 3 \in 1 .. 15 + R
    BY <1>3
  <2> QED
    BY <1>11, <1>17, <2>1, <2>2
<1>19. \A i \in 1 .. R : h[4 + i] = q[i]
  <2>1. \A i \in 1 .. R : 4 + i \in 1 .. 15 + R
    BY <1>3
  <2>2. \A i \in 1 .. R : s[4 + i] = q[i]
    BY Zenon, <1>14 DEF Placed
  <2> QED
    BY <1>17, <2>1, <2>2
<1>20. /\ h[5 + R] = s[5 + R] /\ h[6 + R] = s[6 + R] /\ h[7 + R] = s[7 + R]
       /\ h[9 + R] = s[9 + R] /\ h[10 + R] = s[10 + R]
       /\ h[11 + R] = s[11 + R] /\ h[12 + R] = s[12 + R]
       /\ h[13 + R] = s[13 + R] /\ h[14 + R] = s[14 + R]
       /\ h[15 + R] = s[15 + R]
  BY SMTT(30), <1>3, <1>17
<1>21. /\ s[5 + R] = i1[1] /\ s[6 + R] = t[1] /\ s[7 + R] = t[2]
       /\ s[9 + R] = a[1] /\ s[10 + R] = a[2]
       /\ s[11 + R] = a[3] /\ s[12 + R] = a[4]
       /\ s[13 + R] = l[1] /\ s[14 + R] = l[2] /\ s[15 + R] = l[3]
  BY SMTT(20), <1>14 DEF Placed
<1>22. /\ h[5 + R] = InitiatorLA
       /\ h[6 + R] = Byte(c.id, 256) /\ h[7 + R] = Byte(c.id, 1)
       /\ h[9 + R] = Byte(c.addr, 16777216) /\ h[10 + R] = Byte(c.addr, 65536)
       /\ h[11 + R] = Byte(c.addr, 256) /\ h[12 + R] = Byte(c.addr, 1)
       /\ h[13 + R] = Byte(len, 65536) /\ h[14 + R] = Byte(len, 256)
       /\ h[15 + R] = Byte(len, 1)
  BY <1>11, <1>12, <1>20, <1>21
<1>23. HeaderOf(h, R, c, n, len)
  BY SMTT(20), <1>16, <1>17, <1>18, <1>19, <1>22 DEF HeaderOf, q
<1> QED
  BY <1>1, <1>23 DEF R, n

-----------------------------------------------------------------------------
(* An inverted bit.                                                        *)

\* The bits of a byte
OneBit == {1, 2, 4, 8, 16, 32, 64, 128}

\* Bit v of x inverted
Inverted(x, v) == IF Bit(x, v) THEN x - v ELSE x + v

\* An inverted bit makes another byte, in which that bit alone is different.
LEMMA InvertedBits ==
    ASSUME NEW x \in Octet, NEW v \in OneBit
    PROVE  LET y == Inverted(x, v)
           IN  /\ y \in Octet /\ y # x
               /\ v # Command => (Bit(y, Command) <=> Bit(x, Command))
               /\ v = Command => (Bit(y, Command) <=> ~Bit(x, Command))
               /\ v # Write => (Bit(y, Write) <=> Bit(x, Write))
               /\ v = Write => (Bit(y, Write) <=> ~Bit(x, Write))
               /\ v \notin {1, 2} => y % 4 = x % 4
               /\ v \in {1, 2} => y % 4 # x % 4
<1>1. CASE v = 1
  BY <1>1 DEF Inverted, Bit, Octet, Command, Write
<1>2. CASE v = 2
  BY <1>2 DEF Inverted, Bit, Octet, Command, Write
<1>3. CASE v = 4
  BY <1>3 DEF Inverted, Bit, Octet, Command, Write
<1>4. CASE v = 8
  BY <1>4 DEF Inverted, Bit, Octet, Command, Write
<1>5. CASE v = 16
  BY <1>5 DEF Inverted, Bit, Octet, Command, Write
<1>6. CASE v = 32
  BY <1>6 DEF Inverted, Bit, Octet, Command, Write
<1>7. CASE v = 64
  BY <1>7 DEF Inverted, Bit, Octet, Command, Write
<1>8. CASE v = 128
  BY <1>8 DEF Inverted, Bit, Octet, Command, Write
<1> QED
  BY <1>1, <1>2, <1>3, <1>4, <1>5, <1>6, <1>7, <1>8 DEF OneBit

\* The target's logical address stays one.
LEMMA InvertedAddress ==
    ASSUME NEW v \in OneBit
    PROVE  Inverted(TargetLA, v) >= 32
BY DEF Inverted, Bit, TargetLA, OneBit

\* q is p with a bit of byte j inverted.
Hit(q, p, j, v) ==
    /\ q \in Seq(Octet) /\ p \in Seq(Octet) /\ Len(q) = Len(p)
    /\ j \in 1 .. Len(p) /\ v \in OneBit
    /\ q[j] = Inverted(p[j], v)
    /\ \A k \in 1 .. Len(p) : k # j => q[k] = p[k]

\* A CRC over bytes of which one has an inverted bit does not come out the
\* same.
LEMMA HitNoticed ==
    ASSUME NEW q, NEW p, NEW j, NEW v, Hit(q, p, j, v),
           NEW a \in Nat, NEW b \in Nat, 1 <= a, a <= j, j <= b, b <= Len(p),
           calcCRC(SubSeq(p, a, b)) = 0
    PROVE  calcCRC(SubSeq(q, a, b)) # 0
<1> DEFINE s == SubSeq(q, a, b)
           t == SubSeq(p, a, b)
           m == b - a + 1
           i == j - a + 1
<1>1. /\ q \in Seq(Octet) /\ p \in Seq(Octet) /\ Len(q) = Len(p)
      /\ j \in 1 .. Len(p) /\ Len(p) \in Nat
  BY LenProperties DEF Hit
<1>2. \A k \in a .. b : q[k] \in Octet /\ p[k] \in Octet
  <2>1. \A k \in a .. b : k \in 1 .. Len(p) /\ k \in 1 .. Len(q)
    BY <1>1
  <2> QED
    BY <1>1, <2>1, ElementOfSeq
<1>3. s \in Seq(Octet) /\ t \in Seq(Octet) /\ Len(s) = m /\ Len(t) = m
  BY <1>1, <1>2, SubSeqProperties
<1>4. /\ \A k \in 1 .. m : s[k] = q[a + k - 1]
      /\ \A k \in 1 .. m : t[k] = p[a + k - 1]
  BY <1>1, <1>2, SubSeqProperties
<1> HIDE DEF s, t
<1>4a. j \in Nat /\ Len(p) \in Nat
  BY <1>1
<1>5. i \in 1 .. m /\ a + i - 1 = j
  BY <1>4a
<1>6. q[j] # p[j]
  <2>1. p[j] \in Octet
    BY <1>1, ElementOfSeq
  <2>2. v \in OneBit /\ q[j] = Inverted(p[j], v)
    BY DEF Hit
  <2> QED
    BY <2>1, <2>2, InvertedBits
<1>7. \A k \in 1 .. m : k # i => s[k] = t[k]
  <2> SUFFICES ASSUME NEW k \in 1 .. m, k # i
               PROVE  s[k] = t[k]
    OBVIOUS
  <2>1. a + k - 1 \in 1 .. Len(p) /\ a + k - 1 # j
    BY <1>4a
  <2>2. q[a + k - 1] = p[a + k - 1]
    BY <2>1 DEF Hit
  <2> QED
    BY <1>4, <2>2
<1>8. s[i] # t[i]
  BY <1>4, <1>5, <1>6
<1> HIDE DEF i, m
<1>9. calcCRC(s) # calcCRC(t)
  BY Zenon, <1>3, <1>5, <1>7, <1>8, CrcNotices
<1> QED
  BY <1>9 DEF s, t

\* So is the CRC over the whole packet.
LEMMA HitWhole ==
    ASSUME NEW q, NEW p, NEW j, NEW v, Hit(q, p, j, v), calcCRC(p) = 0
    PROVE  calcCRC(q) # 0
<1>1. /\ q \in Seq(Octet) /\ p \in Seq(Octet) /\ Len(q) = Len(p)
      /\ j \in 1 .. Len(p) /\ v \in OneBit /\ q[j] = Inverted(p[j], v)
  BY Zenon DEF Hit
<1>2. q[j] # p[j]
  <2>1. p[j] \in Octet
    BY Zenon, <1>1, ElementOfSeq
  <2> QED
    BY <1>1, <2>1, InvertedBits
<1>3. \A k \in 1 .. Len(p) : k # j => q[k] = p[k]
  BY Zenon DEF Hit
<1> QED
  BY Zenon, <1>1, <1>2, <1>3, CrcNotices

\* The CRC of two parts of a packet that each end in their CRC comes out zero.
LEMMA CrcJoined ==
    ASSUME NEW p \in Seq(Octet), NEW m \in Nat, NEW n \in Nat, m <= n,
           n <= Len(p), calcCRC(SubSeq(p, 1, m)) = 0,
           calcCRC(SubSeq(p, m + 1, n)) = 0
    PROVE  calcCRC(SubSeq(p, 1, n)) = 0
<1> DEFINE a == SubSeq(p, 1, m)
           b == SubSeq(p, m + 1, n)
           s == SubSeq(p, 1, n)
<1>1. Len(p) \in Nat
  BY LenProperties
<1>2. \A i \in 1 .. n : p[i] \in Octet
  BY <1>1, ElementOfSeq
<1>3. a \in Seq(Octet) /\ Len(a) = m /\ \A i \in 1 .. m : a[i] = p[i]
  BY <1>1, <1>2, SubSeqProperties
<1>4. s \in Seq(Octet) /\ Len(s) = n /\ \A i \in 1 .. n : s[i] = p[i]
  BY <1>1, <1>2, SubSeqProperties
<1>5. /\ b \in Seq(Octet) /\ Len(b) = n - m
      /\ \A i \in 1 .. n - m : b[i] = p[m + i]
  <2>1. \A i \in m + 1 .. n : p[i] \in Octet
    BY <1>2
  <2>2. b \in Seq(Octet) /\ Len(b) = n - m
    BY <1>1, <2>1, SubSeqProperties
  <2>3. \A i \in 1 .. n - m : b[i] = p[m + 1 + i - 1]
    BY <1>1, <2>1, SubSeqProperties
  <2>4. \A i \in 1 .. n - m : m + 1 + i - 1 = m + i
    OBVIOUS
  <2> HIDE DEF b
  <2> QED
    BY Zenon, <2>2, <2>3, <2>4
<1>5a. calcCRC(a) = 0 /\ calcCRC(b) = 0
  OBVIOUS
<1> HIDE DEF a, b
<1>6. PICK f \in [0 .. m -> Octet] : IsCrcOf(f, a)
  BY <1>3, CrcExists
<1>7. PICK g \in [0 .. n - m -> Octet] : IsCrcOf(g, b)
  BY Zenon, <1>5, CrcExists
<1>8. /\ f[0] = 0 /\ \A k \in 1 .. m : f[k] = CrcStep(f[k - 1], a[k])
      /\ f[m] = 0
  <2>1. f[m] = 0
    BY Zenon, <1>3, <1>5a, <1>6, CalcIs
  <2>2. f = [k \in 0 .. m |-> IF k = 0 THEN 0 ELSE CrcStep(f[k - 1], a[k])]
    BY Zenon, <1>3, <1>6 DEF IsCrcOf
  <2> QED
    BY <2>1, <2>2
<1>9. /\ g[0] = 0 /\ \A k \in 1 .. n - m : g[k] = CrcStep(g[k - 1], b[k])
      /\ g[n - m] = 0
  <2>1. g[n - m] = 0
    BY Zenon, <1>5, <1>5a, <1>7, CalcIs
  <2>2. g = [k \in 0 .. n - m |->
               IF k = 0 THEN 0 ELSE CrcStep(g[k - 1], b[k])]
    BY Zenon, <1>5, <1>7 DEF IsCrcOf
  <2>3. n - m \in Nat
    OBVIOUS
  <2> QED
    BY <2>1, <2>2, <2>3
<1> DEFINE h == [k \in 0 .. n |-> IF k <= m THEN f[k] ELSE g[k - m]]
<1>10. \A k \in 1 .. n : h[k] = CrcStep(h[k - 1], s[k])
  <2> SUFFICES ASSUME NEW k \in 1 .. n
               PROVE  h[k] = CrcStep(h[k - 1], s[k])
    BY Zenon
  <2>0. k \in 0 .. n /\ k - 1 \in 0 .. n /\ s[k] = p[k]
    BY <1>4
  <2>1. CASE k <= m
    <3>1. k \in 1 .. m /\ k - 1 <= m
      BY <2>1
    <3>2. h[k] = f[k] /\ h[k - 1] = f[k - 1]
      BY <2>0, <2>1, <3>1
    <3>3. a[k] = s[k]
      BY Zenon, <1>3, <2>0, <3>1
    <3> HIDE DEF h
    <3> QED
      BY Zenon, <1>8, <3>1, <3>2, <3>3
  <2>2. CASE ~(k <= m)
    <3>1. k - m \in 1 .. n - m /\ m + (k - m) = k /\ k - m - 1 = k - 1 - m
      BY <2>2
    <3>2. h[k] = g[k - m]
      BY <2>0, <2>2
    <3>3. h[k - 1] = g[k - m - 1]
      <4>1. CASE k - 1 <= m
        <5>1. k - 1 = m /\ k - m - 1 = 0
          BY <2>2, <4>1
        <5>2. h[k - 1] = f[k - 1]
          BY <2>0, <4>1
        <5> HIDE DEF h
        <5> QED
          BY Zenon, <1>8, <1>9, <5>1, <5>2
      <4>2. CASE ~(k - 1 <= m)
        BY <2>0, <3>1, <4>2
      <4> QED
        BY <4>1, <4>2
    <3>4. b[k - m] = s[k]
      BY Zenon, <1>5, <2>0, <3>1
    <3> HIDE DEF h
    <3> QED
      BY Zenon, <1>9, <3>1, <3>2, <3>3, <3>4
  <2> QED
    BY <2>1, <2>2
<1>11. h[0] = 0 /\ h[n] = 0
  <2>1. 0 \in 0 .. n /\ n \in 0 .. n /\ 0 <= m
    OBVIOUS
  <2>2. h[0] = 0
    BY <1>8, <2>1
  <2>3. CASE n <= m
    <3>1. n = m
      BY <2>3
    <3> QED
      BY <1>8, <2>1, <3>1
  <2>4. CASE ~(n <= m)
    <3>1. h[n] = g[n - m]
      BY <2>1, <2>4
    <3> HIDE DEF h
    <3> QED
      BY Zenon, <1>9, <2>2, <3>1
  <2> QED
    BY <2>2, <2>3, <2>4
<1>12. IsCrcOf(h, s)
  <2>1. h = [k \in 0 .. n |-> h[k]]
    OBVIOUS
  <2> HIDE DEF h
  <2>2. \A k \in 0 .. n : h[k] = IF k = 0 THEN 0 ELSE CrcStep(h[k - 1], s[k])
    <3>1. \A k \in 0 .. n : k = 0 \/ k \in 1 .. n
      OBVIOUS
    <3>2. \A k \in 1 .. n : k # 0
      OBVIOUS
    <3> QED
      BY Zenon, <1>10, <1>11, <3>1, <3>2
  <2>3. h = [k \in 0 .. n |-> IF k = 0 THEN 0 ELSE CrcStep(h[k - 1], s[k])]
    BY Zenon, <2>1, <2>2
  <2> QED
    BY Zenon, <1>4, <2>3 DEF IsCrcOf
<1> HIDE DEF h
<1>13. calcCRC(s) = 0
  BY Zenon, <1>4, <1>11, <1>12, CalcIs
<1> QED
  BY <1>13 DEF s

\* What a bit inverted behind the path does to what parse looks at first: the
\* packet still starts with a logical address, and a bit of its instruction is
\* another one only if it is the inverted one.
LEMMA HitStart ==
    ASSUME NEW q, NEW p, NEW j, NEW v, Hit(q, p, j, v), p[1] = TargetLA,
           4 <= Len(p)
    PROVE  /\ q \in Seq(Octet) /\ q[1] >= 32 /\ 4 <= Len(q)
           /\ j = 3 /\ v = Command =>
                (Bit(q[3], Command) <=> ~Bit(p[3], Command))
           /\ ~(j = 3 /\ v = Command) =>
                (Bit(q[3], Command) <=> Bit(p[3], Command))
           /\ j = 3 /\ v = Write => (Bit(q[3], Write) <=> ~Bit(p[3], Write))
           /\ ~(j = 3 /\ v = Write) =>
                (Bit(q[3], Write) <=> Bit(p[3], Write))
           /\ j = 3 /\ v \in {1, 2} => ReplySize(q) # ReplySize(p)
           /\ ~(j = 3 /\ v \in {1, 2}) => ReplySize(q) = ReplySize(p)
<1>1. /\ q \in Seq(Octet) /\ p \in Seq(Octet) /\ Len(q) = Len(p)
      /\ Len(p) \in Nat /\ v \in OneBit /\ q[j] = Inverted(p[j], v)
  BY LenProperties DEF Hit
<1>2. 1 \in 1 .. Len(p) /\ 3 \in 1 .. Len(p)
  BY <1>1
<1>3. q[1] >= 32
  <2>1. CASE j = 1
    BY <1>1, <2>1, InvertedAddress
  <2>2. CASE j # 1
    <3>1. q[1] = TargetLA
      BY <1>2, <2>2 DEF Hit
    <3> QED
      BY <3>1 DEF TargetLA
  <2> QED
    BY <2>1, <2>2
<1>4. CASE j # 3
  <2>1. q[3] = p[3]
    BY <1>2, <1>4 DEF Hit
  <2> QED
    BY SMTT(20), <1>1, <1>3, <1>4, <2>1 DEF ReplySize
<1>5. CASE j = 3
  <2> DEFINE x == p[3]
             y == q[3]
  <2>1. x \in Octet /\ y = Inverted(x, v) /\ v \in OneBit
    BY <1>1, <1>2, <1>5, ElementOfSeq
  <2>2. y \in Octet
    BY <2>1, InvertedBits
  <2>3. /\ v # Command => (Bit(y, Command) <=> Bit(x, Command))
        /\ v = Command => (Bit(y, Command) <=> ~Bit(x, Command))
    BY <2>1, InvertedBits
  <2>4. /\ v # Write => (Bit(y, Write) <=> Bit(x, Write))
        /\ v = Write => (Bit(y, Write) <=> ~Bit(x, Write))
    BY <2>1, InvertedBits
  <2>5. /\ v \notin {1, 2} => y % 4 = x % 4
        /\ v \in {1, 2} => y % 4 # x % 4
    BY <2>1, InvertedBits
  <2> HIDE DEF x, y
  <2>6. /\ v \notin {1, 2} => (y % 4) * 4 = (x % 4) * 4
        /\ v \in {1, 2} => (y % 4) * 4 # (x % 4) * 4
    BY <2>1, <2>2, <2>5 DEF Octet
  <2>7. /\ v \notin {1, 2} => ReplySize(q) = ReplySize(p)
        /\ v \in {1, 2} => ReplySize(q) # ReplySize(p)
    BY <2>6 DEF ReplySize, x, y
  <2> QED
    BY <1>1, <1>3, <1>5, <2>3, <2>4, <2>7 DEF x, y
<1> QED
  BY <1>4, <1>5

\* The length of the reply address is a number.
LEMMA ReplySizeIs ==
    ASSUME NEW p \in Seq(Octet), 4 <= Len(p)
    PROVE  ReplySize(p) \in Nat
<1> DEFINE x == p[3]
<1>1. 3 \in 1 .. Len(p)
  BY LenProperties
<1>2. x \in 0 .. 255
  BY <1>1, ElementOfSeq DEF Octet
<1> HIDE DEF x
<1>3. (x % 4) * 4 \in Nat
  BY <1>2
<1> QED
  BY <1>3 DEF ReplySize, x

\* A sequence with a byte replaced
Replaced(s, i, x) == [s EXCEPT ![i] = x]

\* Every other byte is as it was.
LEMMA ByteReplaced ==
    ASSUME NEW s \in Seq(Octet), NEW i \in 1 .. Len(s), NEW x \in Octet
    PROVE  LET t == Replaced(s, i, x)
           IN  /\ t \in Seq(Octet) /\ Len(t) = Len(s) /\ t[i] = x
               /\ \A k \in 1 .. Len(s) : k # i => t[k] = s[k]
BY ExceptSeq DEF Replaced

\* A number that ends in front of the hit byte is as it was.
LEMMA HitElsewhere ==
    ASSUME NEW q, NEW p, NEW j, NEW v, Hit(q, p, j, v),
           NEW i \in Nat, i <= Len(p), i < j, 3 <= i
    PROVE  Number3(q, i - 3) = Number3(p, i - 3)
<1>1. Len(p) \in Nat /\ j \in Nat
  BY LenProperties DEF Hit
<1>2. /\ i - 3 + 1 \in 1 .. Len(p) /\ i - 3 + 1 # j
      /\ i - 3 + 2 \in 1 .. Len(p) /\ i - 3 + 2 # j
      /\ i - 3 + 3 \in 1 .. Len(p) /\ i - 3 + 3 # j
  BY <1>1
<1>3. /\ q[i - 3 + 1] = p[i - 3 + 1] /\ q[i - 3 + 2] = p[i - 3 + 2]
      /\ q[i - 3 + 3] = p[i - 3 + 3]
  BY Zenon, <1>2 DEF Hit
<1> QED
  BY <1>3 DEF Number3

=============================================================================
