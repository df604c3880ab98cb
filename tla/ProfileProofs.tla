------------------------------ MODULE ProfileProofs ------------------------------
(***************************************************************************)
(* What TLAPS proves of the profile that SmartConfig makes, for any key    *)
(* and any passwords: AES as security.cpp computes it decrypts what it     *)
(* encrypted.  A byte is its bits, so that ++ is addition without carries; *)
(* doubling is linear, four times MixColumns is the identity and Barreto's *)
(* step is twice MixColumns; the tables undo each other; and the rounds of *)
(* the one way are those of the other, backwards.                          *)
(***************************************************************************)
EXTENDS MCParts, WellFoundedInduction, TLAPS

a ++ b == Smart!++(a, b)
Byte   == 0 .. 255

-------------------------------------------------------------------------------
\* The two tables undo each other.
Undone(b, c) == c \in Byte /\ Smart!sbox[b] = c /\ Smart!rsbox[c] = b

LEMMA Tables == \A b \in Byte : \E c \in Byte : Undone(b, c)
  <1>1. \A b \in 0 .. 15 : \E c \in Byte : Undone(b, c)
    <2>1. /\ Undone(0, 99) /\ Undone(1, 124) /\ Undone(2, 119) /\ Undone(3, 123)
          /\ Undone(4, 242) /\ Undone(5, 107) /\ Undone(6, 111) /\ Undone(7, 197)
          /\ Undone(8, 48) /\ Undone(9, 1) /\ Undone(10, 103) /\ Undone(11, 43)
          /\ Undone(12, 254) /\ Undone(13, 215) /\ Undone(14, 171) /\ Undone(15, 118)
      BY DEF Smart!sbox, Smart!rsbox, Smart!Table, Smart!Byte, Byte, Undone
    <2> QED BY <2>1 DEF Undone
  <1>2. \A b \in 16 .. 31 : \E c \in Byte : Undone(b, c)
    <2>1. /\ Undone(16, 202) /\ Undone(17, 130) /\ Undone(18, 201) /\ Undone(19, 125)
          /\ Undone(20, 250) /\ Undone(21, 89) /\ Undone(22, 71) /\ Undone(23, 240)
          /\ Undone(24, 173) /\ Undone(25, 212) /\ Undone(26, 162) /\ Undone(27, 175)
          /\ Undone(28, 156) /\ Undone(29, 164) /\ Undone(30, 114) /\ Undone(31, 192)
      BY DEF Smart!sbox, Smart!rsbox, Smart!Table, Smart!Byte, Byte, Undone
    <2> QED BY <2>1 DEF Undone
  <1>3. \A b \in 32 .. 47 : \E c \in Byte : Undone(b, c)
    <2>1. /\ Undone(32, 183) /\ Undone(33, 253) /\ Undone(34, 147) /\ Undone(35, 38)
          /\ Undone(36, 54) /\ Undone(37, 63) /\ Undone(38, 247) /\ Undone(39, 204)
          /\ Undone(40, 52) /\ Undone(41, 165) /\ Undone(42, 229) /\ Undone(43, 241)
          /\ Undone(44, 113) /\ Undone(45, 216) /\ Undone(46, 49) /\ Undone(47, 21)
      BY DEF Smart!sbox, Smart!rsbox, Smart!Table, Smart!Byte, Byte, Undone
    <2> QED BY <2>1 DEF Undone
  <1>4. \A b \in 48 .. 63 : \E c \in Byte : Undone(b, c)
    <2>1. /\ Undone(48, 4) /\ Undone(49, 199) /\ Undone(50, 35) /\ Undone(51, 195)
          /\ Undone(52, 24) /\ Undone(53, 150) /\ Undone(54, 5) /\ Undone(55, 154)
          /\ Undone(56, 7) /\ Undone(57, 18) /\ Undone(58, 128) /\ Undone(59, 226)
          /\ Undone(60, 235) /\ Undone(61, 39) /\ Undone(62, 178) /\ Undone(63, 117)
      BY DEF Smart!sbox, Smart!rsbox, Smart!Table, Smart!Byte, Byte, Undone
    <2> QED BY <2>1 DEF Undone
  <1>5. \A b \in 64 .. 79 : \E c \in Byte : Undone(b, c)
    <2>1. /\ Undone(64, 9) /\ Undone(65, 131) /\ Undone(66, 44) /\ Undone(67, 26)
          /\ Undone(68, 27) /\ Undone(69, 110) /\ Undone(70, 90) /\ Undone(71, 160)
          /\ Undone(72, 82) /\ Undone(73, 59) /\ Undone(74, 214) /\ Undone(75, 179)
          /\ Undone(76, 41) /\ Undone(77, 227) /\ Undone(78, 47) /\ Undone(79, 132)
      BY DEF Smart!sbox, Smart!rsbox, Smart!Table, Smart!Byte, Byte, Undone
    <2> QED BY <2>1 DEF Undone
  <1>6. \A b \in 80 .. 95 : \E c \in Byte : Undone(b, c)
    <2>1. /\ Undone(80, 83) /\ Undone(81, 209) /\ Undone(82, 0) /\ Undone(83, 237)
          /\ Undone(84, 32) /\ Undone(85, 252) /\ Undone(86, 177) /\ Undone(87, 91)
          /\ Undone(88, 106) /\ Undone(89, 203) /\ Undone(90, 190) /\ Undone(91, 57)
          /\ Undone(92, 74) /\ Undone(93, 76) /\ Undone(94, 88) /\ Undone(95, 207)
      BY DEF Smart!sbox, Smart!rsbox, Smart!Table, Smart!Byte, Byte, Undone
    <2> QED BY <2>1 DEF Undone
  <1>7. \A b \in 96 .. 111 : \E c \in Byte : Undone(b, c)
    <2>1. /\ Undone(96, 208) /\ Undone(97, 239) /\ Undone(98, 170) /\ Undone(99, 251)
          /\ Undone(100, 67) /\ Undone(101, 77) /\ Undone(102, 51) /\ Undone(103, 133)
          /\ Undone(104, 69) /\ Undone(105, 249) /\ Undone(106, 2) /\ Undone(107, 127)
          /\ Undone(108, 80) /\ Undone(109, 60) /\ Undone(110, 159) /\ Undone(111, 168)
      BY DEF Smart!sbox, Smart!rsbox, Smart!Table, Smart!Byte, Byte, Undone
    <2> QED BY <2>1 DEF Undone
  <1>8. \A b \in 112 .. 127 : \E c \in Byte : Undone(b, c)
    <2>1. /\ Undone(112, 81) /\ Undone(113, 163) /\ Undone(114, 64) /\ Undone(115, 143)
          /\ Undone(116, 146) /\ Undone(117, 157) /\ Undone(118, 56) /\ Undone(119, 245)
          /\ Undone(120, 188) /\ Undone(121, 182) /\ Undone(122, 218) /\ Undone(123, 33)
          /\ Undone(124, 16) /\ Undone(125, 255) /\ Undone(126, 243) /\ Undone(127, 210)
      BY DEF Smart!sbox, Smart!rsbox, Smart!Table, Smart!Byte, Byte, Undone
    <2> QED BY <2>1 DEF Undone
  <1>9. \A b \in 128 .. 143 : \E c \in Byte : Undone(b, c)
    <2>1. /\ Undone(128, 205) /\ Undone(129, 12) /\ Undone(130, 19) /\ Undone(131, 236)
          /\ Undone(132, 95) /\ Undone(133, 151) /\ Undone(134, 68) /\ Undone(135, 23)
          /\ Undone(136, 196) /\ Undone(137, 167) /\ Undone(138, 126) /\ Undone(139, 61)
          /\ Undone(140, 100) /\ Undone(141, 93) /\ Undone(142, 25) /\ Undone(143, 115)
      BY DEF Smart!sbox, Smart!rsbox, Smart!Table, Smart!Byte, Byte, Undone
    <2> QED BY <2>1 DEF Undone
  <1>10. \A b \in 144 .. 159 : \E c \in Byte : Undone(b, c)
    <2>1. /\ Undone(144, 96) /\ Undone(145, 129) /\ Undone(146, 79) /\ Undone(147, 220)
          /\ Undone(148, 34) /\ Undone(149, 42) /\ Undone(150, 144) /\ Undone(151, 136)
          /\ Undone(152, 70) /\ Undone(153, 238) /\ Undone(154, 184) /\ Undone(155, 20)
          /\ Undone(156, 222) /\ Undone(157, 94) /\ Undone(158, 11) /\ Undone(159, 219)
      BY DEF Smart!sbox, Smart!rsbox, Smart!Table, Smart!Byte, Byte, Undone
    <2> QED BY <2>1 DEF Undone
  <1>11. \A b \in 160 .. 175 : \E c \in Byte : Undone(b, c)
    <2>1. /\ Undone(160, 224) /\ Undone(161, 50) /\ Undone(162, 58) /\ Undone(163, 10)
          /\ Undone(164, 73) /\ Undone(165, 6) /\ Undone(166, 36) /\ Undone(167, 92)
          /\ Undone(168, 194) /\ Undone(169, 211) /\ Undone(170, 172) /\ Undone(171, 98)
          /\ Undone(172, 145) /\ Undone(173, 149) /\ Undone(174, 228) /\ Undone(175, 121)
      BY DEF Smart!sbox, Smart!rsbox, Smart!Table, Smart!Byte, Byte, Undone
    <2> QED BY <2>1 DEF Undone
  <1>12. \A b \in 176 .. 191 : \E c \in Byte : Undone(b, c)
    <2>1. /\ Undone(176, 231) /\ Undone(177, 200) /\ Undone(178, 55) /\ Undone(179, 109)
          /\ Undone(180, 141) /\ Undone(181, 213) /\ Undone(182, 78) /\ Undone(183, 169)
          /\ Undone(184, 108) /\ Undone(185, 86) /\ Undone(186, 244) /\ Undone(187, 234)
          /\ Undone(188, 101) /\ Undone(189, 122) /\ Undone(190, 174) /\ Undone(191, 8)
      BY DEF Smart!sbox, Smart!rsbox, Smart!Table, Smart!Byte, Byte, Undone
    <2> QED BY <2>1 DEF Undone
  <1>13. \A b \in 192 .. 207 : \E c \in Byte : Undone(b, c)
    <2>1. /\ Undone(192, 186) /\ Undone(193, 120) /\ Undone(194, 37) /\ Undone(195, 46)
          /\ Undone(196, 28) /\ Undone(197, 166) /\ Undone(198, 180) /\ Undone(199, 198)
          /\ Undone(200, 232) /\ Undone(201, 221) /\ Undone(202, 116) /\ Undone(203, 31)
          /\ Undone(204, 75) /\ Undone(205, 189) /\ Undone(206, 139) /\ Undone(207, 138)
      BY DEF Smart!sbox, Smart!rsbox, Smart!Table, Smart!Byte, Byte, Undone
    <2> QED BY <2>1 DEF Undone
  <1>14. \A b \in 208 .. 223 : \E c \in Byte : Undone(b, c)
    <2>1. /\ Undone(208, 112) /\ Undone(209, 62) /\ Undone(210, 181) /\ Undone(211, 102)
          /\ Undone(212, 72) /\ Undone(213, 3) /\ Undone(214, 246) /\ Undone(215, 14)
          /\ Undone(216, 97) /\ Undone(217, 53) /\ Undone(218, 87) /\ Undone(219, 185)
          /\ Undone(220, 134) /\ Undone(221, 193) /\ Undone(222, 29) /\ Undone(223, 158)
      BY DEF Smart!sbox, Smart!rsbox, Smart!Table, Smart!Byte, Byte, Undone
    <2> QED BY <2>1 DEF Undone
  <1>15. \A b \in 224 .. 239 : \E c \in Byte : Undone(b, c)
    <2>1. /\ Undone(224, 225) /\ Undone(225, 248) /\ Undone(226, 152) /\ Undone(227, 17)
          /\ Undone(228, 105) /\ Undone(229, 217) /\ Undone(230, 142) /\ Undone(231, 148)
          /\ Undone(232, 155) /\ Undone(233, 30) /\ Undone(234, 135) /\ Undone(235, 233)
          /\ Undone(236, 206) /\ Undone(237, 85) /\ Undone(238, 40) /\ Undone(239, 223)
      BY DEF Smart!sbox, Smart!rsbox, Smart!Table, Smart!Byte, Byte, Undone
    <2> QED BY <2>1 DEF Undone
  <1>16. \A b \in 240 .. 255 : \E c \in Byte : Undone(b, c)
    <2>1. /\ Undone(240, 140) /\ Undone(241, 161) /\ Undone(242, 137) /\ Undone(243, 13)
          /\ Undone(244, 191) /\ Undone(245, 230) /\ Undone(246, 66) /\ Undone(247, 104)
          /\ Undone(248, 65) /\ Undone(249, 153) /\ Undone(250, 45) /\ Undone(251, 15)
          /\ Undone(252, 176) /\ Undone(253, 84) /\ Undone(254, 187) /\ Undone(255, 22)
      BY DEF Smart!sbox, Smart!rsbox, Smart!Table, Smart!Byte, Byte, Undone
    <2> QED BY <2>1 DEF Undone
  <1>17. \A b \in 0 .. 63 : \E c \in Byte : Undone(b, c)
    BY <1>1, <1>2, <1>3, <1>4
  <1>18. \A b \in 64 .. 127 : \E c \in Byte : Undone(b, c)
    BY <1>5, <1>6, <1>7, <1>8
  <1>19. \A b \in 128 .. 191 : \E c \in Byte : Undone(b, c)
    BY <1>9, <1>10, <1>11, <1>12
  <1>20. \A b \in 192 .. 255 : \E c \in Byte : Undone(b, c)
    BY <1>13, <1>14, <1>15, <1>16
  <1>21. \A b \in Byte : b \in 0 .. 63 \/ b \in 64 .. 127 \/ b \in 128 .. 191 \/ b \in 192 .. 255
    BY DEF Byte
  <1>22. ASSUME NEW b \in Byte PROVE \E c \in Byte : Undone(b, c)
    <2>1. CASE b \in 0 .. 63
      BY <1>17, <2>1
    <2>2. CASE b \in 64 .. 127
      BY <1>18, <2>2
    <2>3. CASE b \in 128 .. 191
      BY <1>19, <2>3
    <2>4. CASE b \in 192 .. 255
      BY <1>20, <2>4
    <2> QED BY <1>21, <2>1, <2>2, <2>3, <2>4
  <1> QED BY <1>22

-------------------------------------------------------------------------------
\* The halves of a byte: what ++ does to the bits of each.
Nibble == 0 .. 15
Bits(x) == /\ Smart!Bit(x, 1) \in 0 .. 1 /\ Smart!Bit(x, 2) \in 0 .. 1
           /\ Smart!Bit(x, 4) \in 0 .. 1 /\ Smart!Bit(x, 8) \in 0 .. 1
           /\ x = 8 * Smart!Bit(x, 8) + 4 * Smart!Bit(x, 4) + 2 * Smart!Bit(x, 2) + Smart!Bit(x, 1)

LEMMA NibbleBits == \A x \in Nibble : Bits(x)
  BY DEF Nibble, Bits, Smart!Bit

LEMMA NibbleOf ==
  ASSUME NEW p \in 0 .. 1, NEW q \in 0 .. 1, NEW r \in 0 .. 1, NEW t \in 0 .. 1,
         NEW x, x = 8 * p + 4 * q + 2 * r + t
  PROVE  /\ x \in Nibble
         /\ Smart!Bit(x, 8) = p /\ Smart!Bit(x, 4) = q /\ Smart!Bit(x, 2) = r /\ Smart!Bit(x, 1) = t
  BY DEF Nibble, Smart!Bit

Flip(x, y) == IF x = y THEN 0 ELSE 1

LEMMA NibbleXor ==
  ASSUME NEW a \in Nibble, NEW b \in Nibble, NEW x, x = Smart!XorTable[a][b]
  PROVE  /\ x \in Nibble
         /\ Smart!Bit(x, 8) = Flip(Smart!Bit(a, 8), Smart!Bit(b, 8))
         /\ Smart!Bit(x, 4) = Flip(Smart!Bit(a, 4), Smart!Bit(b, 4))
         /\ Smart!Bit(x, 2) = Flip(Smart!Bit(a, 2), Smart!Bit(b, 2))
         /\ Smart!Bit(x, 1) = Flip(Smart!Bit(a, 1), Smart!Bit(b, 1))
  <1>1. PICK p \in 0 .. 1, q \in 0 .. 1, r \in 0 .. 1, t \in 0 .. 1 :
          /\ p = Flip(Smart!Bit(a, 8), Smart!Bit(b, 8)) /\ q = Flip(Smart!Bit(a, 4), Smart!Bit(b, 4))
          /\ r = Flip(Smart!Bit(a, 2), Smart!Bit(b, 2)) /\ t = Flip(Smart!Bit(a, 1), Smart!Bit(b, 1))
    BY DEF Flip
  <1>2. x = Smart!XorBit(a, b, 1) + Smart!XorBit(a, b, 2) + Smart!XorBit(a, b, 4) + Smart!XorBit(a, b, 8)
    BY DEF Smart!XorTable, Smart!Block, Nibble
  <1>3. /\ Smart!XorBit(a, b, 1) = t     /\ Smart!XorBit(a, b, 2) = 2 * r
        /\ Smart!XorBit(a, b, 4) = 4 * q /\ Smart!XorBit(a, b, 8) = 8 * p
    BY <1>1 DEF Smart!XorBit, Flip
  <1>4. x = 8 * p + 4 * q + 2 * r + t
    BY <1>2, <1>3
  <1> QED BY <1>1, <1>4, NibbleOf

\* The bits of a byte are those of its halves.
LEMMA Halves ==
  ASSUME NEW x \in Byte
  PROVE  /\ x \div 16 \in Nibble /\ x % 16 \in Nibble /\ x = 16 * (x \div 16) + (x % 16)
         /\ Smart!Bit(x, 1) = Smart!Bit(x % 16, 1) /\ Smart!Bit(x, 2) = Smart!Bit(x % 16, 2)
         /\ Smart!Bit(x, 4) = Smart!Bit(x % 16, 4) /\ Smart!Bit(x, 8) = Smart!Bit(x % 16, 8)
         /\ Smart!Bit(x, 16) = Smart!Bit(x \div 16, 1) /\ Smart!Bit(x, 32) = Smart!Bit(x \div 16, 2)
         /\ Smart!Bit(x, 64) = Smart!Bit(x \div 16, 4) /\ Smart!Bit(x, 128) = Smart!Bit(x \div 16, 8)
  <1>1. x \div 16 \in Nibble /\ x % 16 \in Nibble /\ x = 16 * (x \div 16) + (x % 16)
    BY DEF Byte, Nibble
  <1>2. PICK h \in Nibble, l \in Nibble : h = x \div 16 /\ l = x % 16 /\ x = 16 * h + l
    BY <1>1
  <1>3. /\ (x \div 1) % 2 = (l \div 1) % 2 /\ (x \div 2) % 2 = (l \div 2) % 2
        /\ (x \div 4) % 2 = (l \div 4) % 2 /\ (x \div 8) % 2 = (l \div 8) % 2
    BY <1>2 DEF Nibble
  <1>4. /\ (x \div 16) % 2 = (h \div 1) % 2 /\ (x \div 32) % 2 = (h \div 2) % 2
        /\ (x \div 64) % 2 = (h \div 4) % 2 /\ (x \div 128) % 2 = (h \div 8) % 2
    BY <1>2 DEF Nibble
  <1> QED BY <1>1, <1>2, <1>3, <1>4 DEF Smart!Bit

\* ++ adds the bits without carries.
Weights == {1, 2, 4, 8, 16, 32, 64, 128}
On(x, v) == Smart!Bit(x, v) = 1

LEMMA XorIs ==
  ASSUME NEW a \in Byte, NEW b \in Byte
  PROVE  /\ a ++ b \in Byte
         /\ \A v \in Weights : On(a ++ b, v) <=> ~(On(a, v) <=> On(b, v))
  <1>1. PICK x \in Nibble, y \in Nibble :
          /\ x = Smart!XorTable[a \div 16][b \div 16] /\ y = Smart!XorTable[a % 16][b % 16]
          /\ a ++ b = 16 * x + y
    <2>1. /\ a \div 16 \in Nibble /\ a % 16 \in Nibble /\ b \div 16 \in Nibble /\ b % 16 \in Nibble
      BY Halves
    <2>2. Smart!XorTable[a \div 16][b \div 16] \in Nibble /\ Smart!XorTable[a % 16][b % 16] \in Nibble
      BY <2>1, NibbleXor
    <2>3. a ++ b = 16 * Smart!XorTable[a \div 16][b \div 16] + Smart!XorTable[a % 16][b % 16]
      BY DEF ++, Smart!++
    <2> QED BY <2>2, <2>3
  <1>2. PICK c \in Byte : c = 16 * x + y /\ c = a ++ b
    <2>1. 16 * x + y \in Byte
      BY DEF Nibble, Byte
    <2> QED BY <1>1, <2>1
  <1>3. c \div 16 = x /\ c % 16 = y
    BY <1>2 DEF Nibble
  <1>4. /\ Smart!Bit(c, 1) = Flip(Smart!Bit(a, 1), Smart!Bit(b, 1))
        /\ Smart!Bit(c, 2) = Flip(Smart!Bit(a, 2), Smart!Bit(b, 2))
        /\ Smart!Bit(c, 4) = Flip(Smart!Bit(a, 4), Smart!Bit(b, 4))
        /\ Smart!Bit(c, 8) = Flip(Smart!Bit(a, 8), Smart!Bit(b, 8))
    BY <1>1, <1>3, Halves, NibbleXor
  <1>5. /\ Smart!Bit(c, 16) = Flip(Smart!Bit(a, 16), Smart!Bit(b, 16))
        /\ Smart!Bit(c, 32) = Flip(Smart!Bit(a, 32), Smart!Bit(b, 32))
        /\ Smart!Bit(c, 64) = Flip(Smart!Bit(a, 64), Smart!Bit(b, 64))
        /\ Smart!Bit(c, 128) = Flip(Smart!Bit(a, 128), Smart!Bit(b, 128))
    BY <1>1, <1>3, Halves, NibbleXor
  <1>6. \A v \in Weights : Smart!Bit(c, v) = Flip(Smart!Bit(a, v), Smart!Bit(b, v))
    BY <1>4, <1>5 DEF Weights
  <1>7. \A v \in Weights : Smart!Bit(a, v) \in 0 .. 1 /\ Smart!Bit(b, v) \in 0 .. 1
    BY Halves, NibbleBits DEF Weights, Bits
  <1>8. ASSUME NEW v \in Weights
        PROVE  On(c, v) <=> ~(On(a, v) <=> On(b, v))
    BY <1>6, <1>7 DEF On, Flip
  <1> QED BY <1>2, <1>8

LEMMA SameByte ==
  ASSUME NEW a \in Byte, NEW b \in Byte, \A v \in Weights : On(a, v) <=> On(b, v)
  PROVE  a = b
  <1>1. \A v \in Weights : Smart!Bit(a, v) \in 0 .. 1 /\ Smart!Bit(b, v) \in 0 .. 1
    BY Halves, NibbleBits DEF Weights, Bits
  <1>2. \A v \in Weights : Smart!Bit(a, v) = Smart!Bit(b, v)
    BY <1>1 DEF On
  <1>3. PICK h \in Nibble, l \in Nibble : h = a \div 16 /\ l = a % 16 /\ a = 16 * h + l
    BY Halves
  <1>4. PICK i \in Nibble, m \in Nibble : i = b \div 16 /\ m = b % 16 /\ b = 16 * i + m
    BY Halves
  <1>5. /\ Smart!Bit(h, 1) = Smart!Bit(i, 1) /\ Smart!Bit(h, 2) = Smart!Bit(i, 2)
        /\ Smart!Bit(h, 4) = Smart!Bit(i, 4) /\ Smart!Bit(h, 8) = Smart!Bit(i, 8)
        /\ Smart!Bit(l, 1) = Smart!Bit(m, 1) /\ Smart!Bit(l, 2) = Smart!Bit(m, 2)
        /\ Smart!Bit(l, 4) = Smart!Bit(m, 4) /\ Smart!Bit(l, 8) = Smart!Bit(m, 8)
    BY <1>2, <1>3, <1>4, Halves DEF Weights
  <1>6. Bits(h) /\ Bits(i) /\ Bits(l) /\ Bits(m)
    BY NibbleBits
  <1>7. h = i /\ l = m
    BY <1>5, <1>6 DEF Bits
  <1> QED BY <1>3, <1>4, <1>7

-------------------------------------------------------------------------------
\* Doubling shifts the bits, and folds the one that falls out back.
D(x) == Smart!galois_mul2(x)

LEMMA Shifted ==
  ASSUME NEW a \in Byte, NEW c, c = (2 * a) % 256
  PROVE  /\ c \in Byte /\ ~On(c, 1)
         /\ On(c, 2) <=> On(a, 1)
         /\ On(c, 4) <=> On(a, 2)
         /\ On(c, 8) <=> On(a, 4)
         /\ On(c, 16) <=> On(a, 8)
         /\ On(c, 32) <=> On(a, 16)
         /\ On(c, 64) <=> On(a, 32)
         /\ On(c, 128) <=> On(a, 64)
  <1>1. PICK n \in Nat : n = c /\ n < 256 /\ (n = 2 * a \/ n = 2 * a - 256)
    BY DEF Byte
  <1>2. PICK m \in Nat : m = a /\ m < 256
    BY DEF Byte
  <1>3. /\ (n \div 1) % 2 = 0
        /\ (n \div 2) % 2 = (m \div 1) % 2    /\ (n \div 4) % 2 = (m \div 2) % 2
        /\ (n \div 8) % 2 = (m \div 4) % 2    /\ (n \div 16) % 2 = (m \div 8) % 2
    BY <1>1, <1>2
  <1>4. /\ (n \div 32) % 2 = (m \div 16) % 2  /\ (n \div 64) % 2 = (m \div 32) % 2
        /\ (n \div 128) % 2 = (m \div 64) % 2
    BY <1>1, <1>2
  <1>5. c \in Byte
    BY <1>1 DEF Byte
  <1> QED BY <1>1, <1>2, <1>3, <1>4, <1>5 DEF On, Smart!Bit

LEMMA DoubleIs ==
  ASSUME NEW a \in Byte
  PROVE  /\ D(a) \in Byte
         /\ On(D(a), 1) <=> On(a, 128)
         /\ On(D(a), 2) <=> ~(On(a, 1) <=> On(a, 128))
         /\ On(D(a), 4) <=> On(a, 2)
         /\ On(D(a), 8) <=> ~(On(a, 4) <=> On(a, 128))
         /\ On(D(a), 16) <=> ~(On(a, 8) <=> On(a, 128))
         /\ On(D(a), 32) <=> On(a, 16)
         /\ On(D(a), 64) <=> On(a, 32)
         /\ On(D(a), 128) <=> On(a, 64)
  <1>1. PICK c \in Byte : c = (2 * a) % 256
    BY Shifted
  <1>2. On(a, 128) <=> a >= 128
    BY DEF On, Smart!Bit, Byte
  <1>3. /\ 27 \in Byte /\ On(27, 1) /\ On(27, 2) /\ ~On(27, 4) /\ On(27, 8) /\ On(27, 16)
        /\ ~On(27, 32) /\ ~On(27, 64) /\ ~On(27, 128)
    BY DEF On, Smart!Bit, Byte
  <1>4. CASE a >= 128
    <2>1. D(a) = c ++ 27
      BY <1>1, <1>4 DEF D, Smart!galois_mul2, ++
    <2>2. D(a) \in Byte /\ \A v \in Weights : On(D(a), v) <=> ~(On(c, v) <=> On(27, v))
      BY <1>3, <2>1, XorIs
    <2> QED BY <1>1, <1>2, <1>3, <1>4, <2>2, Shifted DEF Weights
  <1>5. CASE ~(a >= 128)
    <2>1. D(a) = 2 * a
      BY <1>5 DEF D, Smart!galois_mul2
    <2>2. 2 * a = (2 * a) % 256
      BY <1>5 DEF Byte
    <2>3. D(a) = c
      BY <1>1, <2>1, <2>2
    <2> QED BY <1>1, <1>2, <1>5, <2>3, Shifted
  <1> QED BY <1>4, <1>5

LEMMA DoubleIsLinear ==
  ASSUME NEW a \in Byte, NEW b \in Byte
  PROVE  D(a ++ b) = D(a) ++ D(b)
  <1>1. PICK c \in Byte : c = a ++ b /\ \A v \in Weights : On(c, v) <=> ~(On(a, v) <=> On(b, v))
    BY XorIs
  <1>2. PICK x \in Byte, y \in Byte : x = D(a) /\ y = D(b)
    BY DoubleIs
  <1>3. PICK z \in Byte : z = x ++ y /\ \A v \in Weights : On(z, v) <=> ~(On(x, v) <=> On(y, v))
    BY XorIs
  <1>4. D(c) \in Byte
    BY DoubleIs
  <1>5. \A v \in Weights : On(D(c), v) <=> On(z, v)
    BY <1>1, <1>2, <1>3, DoubleIs DEF Weights
  <1>6. D(c) = z
    BY <1>4, <1>5, SameByte
  <1> QED BY <1>1, <1>2, <1>3, <1>6

\* Bytes with ++ are a group in which every byte undoes itself.
LEMMA Group ==
  ASSUME NEW a \in Byte, NEW b \in Byte, NEW c \in Byte
  PROVE  /\ a ++ b \in Byte /\ a ++ b = b ++ a /\ (a ++ b) ++ c = a ++ (b ++ c)
         /\ (a ++ b) ++ b = a
  <1>1. \A x, y \in Byte : x ++ y \in Byte
    BY XorIs
  <1>2. \A v \in Weights : On(a ++ b, v) <=> On(b ++ a, v)
    BY XorIs
  <1>3. \A v \in Weights : On((a ++ b) ++ c, v) <=> On(a ++ (b ++ c), v)
    BY <1>1, XorIs
  <1>4. \A v \in Weights : On((a ++ b) ++ b, v) <=> On(a, v)
    BY <1>1, XorIs
  <1>5. a ++ b = b ++ a
    BY <1>1, <1>2, SameByte
  <1>6. (a ++ b) ++ c = a ++ (b ++ c)
    BY <1>1, <1>3, SameByte
  <1>7. (a ++ b) ++ b = a
    BY <1>1, <1>4, SameByte
  <1> QED BY <1>1, <1>5, <1>6, <1>7

-------------------------------------------------------------------------------
\* A column.  MixColumns adds to a byte the double of it and the next one, and the
\* sum of the column.
Sum4(a, b, c, d) == ((a ++ b) ++ c) ++ d
Mixed(p, q, t)   == (p ++ D(p ++ q)) ++ t

LEMMA SumBits ==
  ASSUME NEW a \in Byte, NEW b \in Byte, NEW c \in Byte, NEW d \in Byte
  PROVE  /\ Sum4(a, b, c, d) \in Byte
         /\ \A v \in Weights :
              On(Sum4(a, b, c, d), v) <=> ~((On(a, v) <=> On(b, v)) <=> (On(c, v) <=> On(d, v)))
  <1>1. PICK x \in Byte : x = a ++ b /\ \A v \in Weights : On(x, v) <=> ~(On(a, v) <=> On(b, v))
    BY XorIs
  <1>2. PICK y \in Byte : y = x ++ c /\ \A v \in Weights : On(y, v) <=> ~(On(x, v) <=> On(c, v))
    BY XorIs
  <1>3. PICK z \in Byte : z = y ++ d /\ \A v \in Weights : On(z, v) <=> ~(On(y, v) <=> On(d, v))
    BY XorIs
  <1>4. Sum4(a, b, c, d) = z
    BY <1>1, <1>2, <1>3 DEF Sum4
  <1>5. ASSUME NEW v \in Weights
        PROVE  On(z, v) <=> ~((On(a, v) <=> On(b, v)) <=> (On(c, v) <=> On(d, v)))
    BY <1>1, <1>2, <1>3
  <1> QED BY <1>4, <1>5

LEMMA MixedBits ==
  ASSUME NEW a \in Byte, NEW b \in Byte, NEW t \in Byte
  PROVE  /\ Mixed(a, b, t) \in Byte /\ D(a) \in Byte /\ D(b) \in Byte
         /\ \A v \in Weights :
              On(Mixed(a, b, t), v)
                <=> ~((On(a, v) <=> On(t, v)) <=> (On(D(a), v) <=> On(D(b), v)))
  <1>1. PICK p \in Byte, q \in Byte : p = D(a) /\ q = D(b)
    BY DoubleIs
  <1>2. PICK x \in Byte : /\ x = p ++ q /\ x = D(a ++ b)
                          /\ \A v \in Weights : On(x, v) <=> ~(On(p, v) <=> On(q, v))
    <2>1. p ++ q \in Byte /\ \A v \in Weights : On(p ++ q, v) <=> ~(On(p, v) <=> On(q, v))
      BY XorIs
    <2>2. p ++ q = D(a ++ b)
      BY <1>1, DoubleIsLinear
    <2> QED BY <2>1, <2>2
  <1>3. PICK y \in Byte : y = a ++ x /\ \A v \in Weights : On(y, v) <=> ~(On(a, v) <=> On(x, v))
    BY XorIs
  <1>4. PICK z \in Byte : z = y ++ t /\ \A v \in Weights : On(z, v) <=> ~(On(y, v) <=> On(t, v))
    BY XorIs
  <1>5. Mixed(a, b, t) = z
    BY <1>2, <1>3, <1>4 DEF Mixed
  <1>6. ASSUME NEW v \in Weights
        PROVE  On(z, v) <=> ~((On(a, v) <=> On(t, v)) <=> (On(p, v) <=> On(q, v)))
    BY <1>2, <1>3, <1>4
  <1> QED BY <1>1, <1>5, <1>6

\* The sum of a column stays.
LEMMA SumStays ==
  ASSUME NEW a \in Byte, NEW b \in Byte, NEW c \in Byte, NEW d \in Byte
  PROVE  LET t == Sum4(a, b, c, d)
         IN  Sum4(Mixed(a, b, t), Mixed(b, c, t), Mixed(c, d, t), Mixed(d, a, t)) = t
  <1>1. PICK t \in Byte : /\ t = Sum4(a, b, c, d)
                          /\ \A v \in Weights :
                               On(t, v) <=> ~((On(a, v) <=> On(b, v)) <=> (On(c, v) <=> On(d, v)))
    BY SumBits
  <1>2. PICK w \in Byte, x \in Byte, y \in Byte, z \in Byte :
          w = Mixed(a, b, t) /\ x = Mixed(b, c, t) /\ y = Mixed(c, d, t) /\ z = Mixed(d, a, t)
    BY MixedBits
  <1>3. ASSUME NEW v \in Weights
        PROVE  On(Sum4(w, x, y, z), v) <=> On(t, v)
    <2>1. /\ On(w, v) <=> ~((On(a, v) <=> On(t, v)) <=> (On(D(a), v) <=> On(D(b), v)))
          /\ On(x, v) <=> ~((On(b, v) <=> On(t, v)) <=> (On(D(b), v) <=> On(D(c), v)))
          /\ On(y, v) <=> ~((On(c, v) <=> On(t, v)) <=> (On(D(c), v) <=> On(D(d), v)))
          /\ On(z, v) <=> ~((On(d, v) <=> On(t, v)) <=> (On(D(d), v) <=> On(D(a), v)))
      BY <1>2, MixedBits
    <2>2. On(Sum4(w, x, y, z), v) <=> ~((On(w, v) <=> On(x, v)) <=> (On(y, v) <=> On(z, v)))
      BY SumBits
    <2>3. On(t, v) <=> ~((On(a, v) <=> On(b, v)) <=> (On(c, v) <=> On(d, v)))
      BY <1>1
    <2> QED BY <2>1, <2>2, <2>3
  <1>4. Sum4(w, x, y, z) = t
    BY <1>3, SumBits, SameByte
  <1> QED BY <1>1, <1>2, <1>4

\* Twice MixColumns is Barreto's step.
LEMMA MixedTwice ==
  ASSUME NEW a \in Byte, NEW b \in Byte, NEW c \in Byte, NEW t \in Byte
  PROVE  Mixed(Mixed(a, b, t), Mixed(b, c, t), t) = a ++ D(D(a ++ c))
  <1>1. PICK w \in Byte, x \in Byte : w = Mixed(a, b, t) /\ x = Mixed(b, c, t)
    BY MixedBits
  <1>2. PICK p \in Byte, q \in Byte, r \in Byte : p = D(a) /\ q = D(b) /\ r = D(c)
    BY DoubleIs
  <1>3. w ++ x \in Byte /\ a ++ b \in Byte /\ p ++ r \in Byte
    BY XorIs
  <1>4. w ++ x = (a ++ b) ++ (p ++ r)
    <2>1. ASSUME NEW v \in Weights
          PROVE  On(w ++ x, v) <=> On((a ++ b) ++ (p ++ r), v)
      <3>1. /\ On(w, v) <=> ~((On(a, v) <=> On(t, v)) <=> (On(p, v) <=> On(q, v)))
            /\ On(x, v) <=> ~((On(b, v) <=> On(t, v)) <=> (On(q, v) <=> On(r, v)))
        BY <1>1, <1>2, MixedBits
      <3>2. /\ On(w ++ x, v) <=> ~(On(w, v) <=> On(x, v))
            /\ On(a ++ b, v) <=> ~(On(a, v) <=> On(b, v))
            /\ On(p ++ r, v) <=> ~(On(p, v) <=> On(r, v))
            /\ On((a ++ b) ++ (p ++ r), v) <=> ~(On(a ++ b, v) <=> On(p ++ r, v))
        BY <1>3, XorIs
      <3> QED BY <3>1, <3>2
    <2> QED BY <1>3, <2>1, XorIs, SameByte
  <1>5. PICK m \in Byte, n \in Byte, k \in Byte : m = D(a ++ b) /\ m = p ++ q /\ n = D(p ++ r) /\ k = D(w ++ x)
    BY <1>2, <1>3, DoubleIs, DoubleIsLinear
  <1>6. k = m ++ n
    <2>1. D((a ++ b) ++ (p ++ r)) = D(a ++ b) ++ D(p ++ r)
      BY <1>3, DoubleIsLinear
    <2> QED BY <1>4, <1>5, <2>1
  <1>7. D(D(a ++ c)) = n
    BY <1>2, <1>5, DoubleIsLinear
  <1>8. Mixed(w, x, t) = (w ++ k) ++ t
    BY <1>5 DEF Mixed
  <1>9. w = (a ++ m) ++ t
    BY <1>1, <1>5 DEF Mixed
  <1>10. (w ++ k) ++ t = a ++ n
    <2>1. w ++ k \in Byte /\ a ++ m \in Byte /\ a ++ n \in Byte /\ (w ++ k) ++ t \in Byte
      BY XorIs
    <2>2. ASSUME NEW v \in Weights
          PROVE  On((w ++ k) ++ t, v) <=> On(a ++ n, v)
      <3>1. /\ On(k, v) <=> ~(On(m, v) <=> On(n, v))
            /\ On(a ++ m, v) <=> ~(On(a, v) <=> On(m, v))
            /\ On(w, v) <=> ~(On(a ++ m, v) <=> On(t, v))
        BY <1>6, <1>9, <2>1, XorIs
      <3>2. /\ On(w ++ k, v) <=> ~(On(w, v) <=> On(k, v))
            /\ On((w ++ k) ++ t, v) <=> ~(On(w ++ k, v) <=> On(t, v))
            /\ On(a ++ n, v) <=> ~(On(a, v) <=> On(n, v))
        BY <2>1, XorIs
      <3> QED BY <3>1, <3>2
    <2> QED BY <2>1, <2>2, SameByte
  <1> QED BY <1>1, <1>7, <1>8, <1>10

-------------------------------------------------------------------------------
\* The state, four columns of four bytes.
States == [Nibble -> Byte]
Column(s, n, a, b, c, d) ==
  s[4 * n] = a /\ s[4 * n + 1] = b /\ s[4 * n + 2] = c /\ s[4 * n + 3] = d

LEMMA StatesAre == Smart!State = States /\ Smart!Byte = Byte /\ Smart!Block = Nibble
  BY DEF Smart!State, States, Smart!Byte, Byte, Smart!Block, Nibble

LEMMA Columns ==
  ASSUME NEW s \in States, NEW n \in 0 .. 3
  PROVE  \E a \in Byte, b \in Byte, c \in Byte, d \in Byte : Column(s, n, a, b, c, d)
  <1>1. 4 * n \in Nibble /\ 4 * n + 1 \in Nibble /\ 4 * n + 2 \in Nibble /\ 4 * n + 3 \in Nibble
    BY DEF Nibble
  <1> QED BY <1>1 DEF States, Column

LEMMA SameColumns ==
  ASSUME NEW s \in States, NEW u \in States,
         \A n \in 0 .. 3 : \E a \in Byte, b \in Byte, c \in Byte, d \in Byte :
                             Column(s, n, a, b, c, d) /\ Column(u, n, a, b, c, d)
  PROVE  s = u
  <1>1. ASSUME NEW i \in Nibble PROVE s[i] = u[i]
    <2>1. PICK n \in 0 .. 3 : i = 4 * n \/ i = 4 * n + 1 \/ i = 4 * n + 2 \/ i = 4 * n + 3
      BY DEF Nibble
    <2> QED BY <2>1 DEF Column
  <1> QED BY <1>1 DEF States

LEMMA AddedUp ==
  ASSUME NEW x \in Byte, NEW a \in Byte, NEW b \in Byte, NEW c \in Byte, NEW d \in Byte
  PROVE  (((x ++ a) ++ b) ++ c) ++ d = x ++ Sum4(a, b, c, d)
  <1>1. x ++ a \in Byte /\ a ++ b \in Byte /\ (x ++ a) ++ b \in Byte /\ (a ++ b) ++ c \in Byte
    BY XorIs
  <1>2. (x ++ a) ++ b = x ++ (a ++ b)
    BY Group
  <1>3. (x ++ (a ++ b)) ++ c = x ++ ((a ++ b) ++ c)
    BY <1>1, Group
  <1>4. (x ++ ((a ++ b) ++ c)) ++ d = x ++ (((a ++ b) ++ c) ++ d)
    BY <1>1, Group
  <1> QED BY <1>2, <1>3, <1>4 DEF Sum4

LEMMA MixColumn ==
  ASSUME NEW s \in States, NEW n \in 0 .. 3,
         NEW a \in Byte, NEW b \in Byte, NEW c \in Byte, NEW d \in Byte, Column(s, n, a, b, c, d)
  PROVE  LET t == Sum4(a, b, c, d)
         IN  Column(Smart!MixColumns[s], n, Mixed(a, b, t), Mixed(b, c, t), Mixed(c, d, t), Mixed(d, a, t))
  <1> DEFINE Sum(p, q) == ((((p ++ D(p ++ q)) ++ a) ++ b) ++ c) ++ d
  <1>1. Smart!MixColumns[s][4 * n] = Sum(a, b)
    <2>1. (4 * n) \div 4 = n /\ (4 * n) % 4 = 0 /\ 4 * n \in Nibble
      BY DEF Nibble
    <2> QED BY <2>1, StatesAre DEF Smart!MixColumns, Column, ++, D
  <1>2. Smart!MixColumns[s][4 * n + 1] = Sum(b, c)
    <2>1. (4 * n + 1) \div 4 = n /\ (4 * n + 1) % 4 = 1 /\ 4 * n + 1 \in Nibble
      BY DEF Nibble
    <2> QED BY <2>1, StatesAre DEF Smart!MixColumns, Column, ++, D
  <1>3. Smart!MixColumns[s][4 * n + 2] = Sum(c, d)
    <2>1. (4 * n + 2) \div 4 = n /\ (4 * n + 2) % 4 = 2 /\ 4 * n + 2 \in Nibble
      BY DEF Nibble
    <2> QED BY <2>1, StatesAre DEF Smart!MixColumns, Column, ++, D
  <1>4. Smart!MixColumns[s][4 * n + 3] = Sum(d, a)
    <2>1. (4 * n + 3) \div 4 = n /\ (4 * n + 3) % 4 = 3 /\ 4 * n + 3 \in Nibble
      BY DEF Nibble
    <2> QED BY <2>1, StatesAre DEF Smart!MixColumns, Column, ++, D
  <1>5. ASSUME NEW p \in Byte, NEW q \in Byte
        PROVE  Sum(p, q) = Mixed(p, q, Sum4(a, b, c, d))
    <2>1. p ++ D(p ++ q) \in Byte
      BY XorIs, DoubleIs
    <2> QED BY <2>1, AddedUp DEF Mixed
  <1> QED BY <1>1, <1>2, <1>3, <1>4, <1>5 DEF Column

\* MixColumns gives a state, and so does Barreto.
LEMMA MixTyped ==
  ASSUME NEW s \in States
  PROVE  Smart!MixColumns[s] \in States
  <1>1. Smart!MixColumns[s] = [i \in Nibble |-> Smart!MixColumns[s][i]]
    BY StatesAre DEF Smart!MixColumns
  <1>2. ASSUME NEW i \in Nibble PROVE Smart!MixColumns[s][i] \in Byte
    <2>1. PICK n \in 0 .. 3 : i = 4 * n \/ i = 4 * n + 1 \/ i = 4 * n + 2 \/ i = 4 * n + 3
      BY DEF Nibble
    <2>2. PICK a \in Byte, b \in Byte, c \in Byte, d \in Byte : Column(s, n, a, b, c, d)
      BY Columns
    <2>3. PICK t \in Byte : t = Sum4(a, b, c, d)
      BY SumBits
    <2>4. Column(Smart!MixColumns[s], n, Mixed(a, b, t), Mixed(b, c, t), Mixed(c, d, t), Mixed(d, a, t))
      BY <2>2, <2>3, MixColumn
    <2>5. /\ Mixed(a, b, t) \in Byte /\ Mixed(b, c, t) \in Byte
          /\ Mixed(c, d, t) \in Byte /\ Mixed(d, a, t) \in Byte
      BY MixedBits
    <2> QED BY <2>1, <2>4, <2>5 DEF Column
  <1> QED BY <1>1, <1>2 DEF States

Bent(a, c) == a ++ D(D(a ++ c))

LEMMA BarretoColumn ==
  ASSUME NEW s \in States, NEW n \in 0 .. 3,
         NEW a \in Byte, NEW b \in Byte, NEW c \in Byte, NEW d \in Byte, Column(s, n, a, b, c, d)
  PROVE  Column(Smart!Barreto[s], n, Bent(a, c), Bent(b, d), Bent(c, a), Bent(d, b))
  <1>1. Smart!Barreto[s][4 * n] = Bent(a, c)
    <2>1. (4 * n) \div 4 = n /\ (4 * n + 2) % 4 = 2 /\ 4 * n \in Nibble
      BY DEF Nibble
    <2> QED BY <2>1, StatesAre DEF Smart!Barreto, Column, ++, D, Bent
  <1>2. Smart!Barreto[s][4 * n + 1] = Bent(b, d)
    <2>1. (4 * n + 1) \div 4 = n /\ (4 * n + 1 + 2) % 4 = 3 /\ 4 * n + 1 \in Nibble
      BY DEF Nibble
    <2> QED BY <2>1, StatesAre DEF Smart!Barreto, Column, ++, D, Bent
  <1>3. Smart!Barreto[s][4 * n + 2] = Bent(c, a)
    <2>1. (4 * n + 2) \div 4 = n /\ (4 * n + 2 + 2) % 4 = 0 /\ 4 * n + 2 \in Nibble
      BY DEF Nibble
    <2> QED BY <2>1, StatesAre DEF Smart!Barreto, Column, ++, D, Bent
  <1>4. Smart!Barreto[s][4 * n + 3] = Bent(d, b)
    <2>1. (4 * n + 3) \div 4 = n /\ (4 * n + 3 + 2) % 4 = 1 /\ 4 * n + 3 \in Nibble
      BY DEF Nibble
    <2> QED BY <2>1, StatesAre DEF Smart!Barreto, Column, ++, D, Bent
  <1> QED BY <1>1, <1>2, <1>3, <1>4 DEF Column

LEMMA BentTyped ==
  ASSUME NEW a \in Byte, NEW c \in Byte
  PROVE  Bent(a, c) \in Byte
  <1>1. PICK x \in Byte : x = a ++ c
    BY XorIs
  <1>2. PICK y \in Byte : y = D(x)
    BY DoubleIs
  <1>3. PICK z \in Byte : z = D(y)
    BY DoubleIs
  <1> QED BY <1>1, <1>2, <1>3, XorIs DEF Bent

LEMMA BarretoTyped ==
  ASSUME NEW s \in States
  PROVE  Smart!Barreto[s] \in States
  <1>1. Smart!Barreto[s] = [i \in Nibble |-> Smart!Barreto[s][i]]
    BY StatesAre DEF Smart!Barreto
  <1>2. ASSUME NEW i \in Nibble PROVE Smart!Barreto[s][i] \in Byte
    <2>1. PICK n \in 0 .. 3 : i = 4 * n \/ i = 4 * n + 1 \/ i = 4 * n + 2 \/ i = 4 * n + 3
      BY DEF Nibble
    <2>2. PICK a \in Byte, b \in Byte, c \in Byte, d \in Byte : Column(s, n, a, b, c, d)
      BY Columns
    <2>3. Column(Smart!Barreto[s], n, Bent(a, c), Bent(b, d), Bent(c, a), Bent(d, b))
      BY <2>2, BarretoColumn
    <2> QED BY <2>1, <2>3, BentTyped DEF Column
  <1> QED BY <1>1, <1>2 DEF States

LEMMA TwiceMixed ==
  ASSUME NEW s \in States
  PROVE  Smart!MixColumns[Smart!MixColumns[s]] = Smart!Barreto[s]
  <1>1. PICK m \in States : m = Smart!MixColumns[s]
    BY MixTyped
  <1>2. PICK u \in States, w \in States : u = Smart!MixColumns[m] /\ w = Smart!Barreto[s]
    BY MixTyped, BarretoTyped
  <1>3. ASSUME NEW n \in 0 .. 3
        PROVE  \E a \in Byte, b \in Byte, c \in Byte, d \in Byte :
                 Column(u, n, a, b, c, d) /\ Column(w, n, a, b, c, d)
    <2>1. PICK a \in Byte, b \in Byte, c \in Byte, d \in Byte : Column(s, n, a, b, c, d)
      BY Columns
    <2>2. PICK t \in Byte : t = Sum4(a, b, c, d)
      BY SumBits
    <2>3. PICK e \in Byte, f \in Byte, g \in Byte, h \in Byte :
            e = Mixed(a, b, t) /\ f = Mixed(b, c, t) /\ g = Mixed(c, d, t) /\ h = Mixed(d, a, t)
      BY MixedBits
    <2>4. Column(m, n, e, f, g, h)
      BY <1>1, <2>1, <2>2, <2>3, MixColumn
    <2>5. Sum4(e, f, g, h) = t
      BY <2>2, <2>3, SumStays
    <2>6. Column(u, n, Mixed(e, f, t), Mixed(f, g, t), Mixed(g, h, t), Mixed(h, e, t))
      BY <1>2, <2>4, <2>5, MixColumn
    <2>7. /\ Mixed(e, f, t) = Bent(a, c) /\ Mixed(f, g, t) = Bent(b, d)
          /\ Mixed(g, h, t) = Bent(c, a) /\ Mixed(h, e, t) = Bent(d, b)
      BY <2>3, MixedTwice DEF Bent
    <2>8. Column(w, n, Bent(a, c), Bent(b, d), Bent(c, a), Bent(d, b))
      BY <1>2, <2>1, BarretoColumn
    <2>9. Bent(a, c) \in Byte /\ Bent(b, d) \in Byte /\ Bent(c, a) \in Byte /\ Bent(d, b) \in Byte
      BY BentTyped
    <2> QED BY <2>6, <2>7, <2>8, <2>9
  <1> QED BY <1>1, <1>2, <1>3, SameColumns

LEMMA TwiceBent ==
  ASSUME NEW a \in Byte, NEW c \in Byte
  PROVE  Bent(Bent(a, c), Bent(c, a)) = a
  <1>1. PICK x \in Byte : x = a ++ c /\ x = c ++ a
    BY XorIs, Group
  <1>2. PICK y \in Byte : y = D(D(x))
    <2>1. PICK z \in Byte : z = D(x)
      BY DoubleIs
    <2> QED BY <2>1, DoubleIs
  <1>3. PICK p \in Byte, q \in Byte : p = a ++ y /\ q = c ++ y /\ p = Bent(a, c) /\ q = Bent(c, a)
    BY <1>1, <1>2, XorIs DEF Bent
  <1>4. p ++ q = x
    <2>1. y ++ q = c
      <3>1. y ++ q = q ++ y
        BY Group
      <3>2. (c ++ y) ++ y = c
        BY Group
      <3> QED BY <1>3, <3>1, <3>2
    <2>2. (a ++ y) ++ q = a ++ (y ++ q)
      BY Group
    <2> QED BY <1>1, <1>3, <2>1, <2>2
  <1>5. Bent(p, q) = p ++ y
    BY <1>2, <1>4 DEF Bent
  <1>6. (a ++ y) ++ y = a
    BY Group
  <1> QED BY <1>3, <1>5, <1>6

\* So four times MixColumns changes nothing, and three times it undoes one.
LEMMA MixUndone ==
  ASSUME NEW s \in States
  PROVE  Smart!MixColumns[Smart!Barreto[Smart!MixColumns[s]]] = s
  <1>1. PICK m \in States, w \in States : m = Smart!MixColumns[s] /\ w = Smart!Barreto[s]
    BY MixTyped, BarretoTyped
  <1>2. PICK u \in States, v \in States : u = Smart!MixColumns[m] /\ v = Smart!MixColumns[u]
    BY MixTyped
  <1>3. u = w /\ v = Smart!Barreto[m]
    BY <1>1, <1>2, TwiceMixed
  <1>4. Smart!MixColumns[v] = Smart!Barreto[u]
    BY <1>2, TwiceMixed
  <1>5. PICK r \in States : r = Smart!Barreto[w]
    BY BarretoTyped
  <1>6. ASSUME NEW n \in 0 .. 3
        PROVE  \E a \in Byte, b \in Byte, c \in Byte, d \in Byte :
                 Column(r, n, a, b, c, d) /\ Column(s, n, a, b, c, d)
    <2>1. PICK a \in Byte, b \in Byte, c \in Byte, d \in Byte : Column(s, n, a, b, c, d)
      BY Columns
    <2>2. PICK e \in Byte, f \in Byte, g \in Byte, h \in Byte :
            e = Bent(a, c) /\ f = Bent(b, d) /\ g = Bent(c, a) /\ h = Bent(d, b)
      BY BentTyped
    <2>3. Column(w, n, e, f, g, h)
      BY <1>1, <2>1, <2>2, BarretoColumn
    <2>4. Column(r, n, Bent(e, g), Bent(f, h), Bent(g, e), Bent(h, f))
      BY <1>5, <2>3, BarretoColumn
    <2>5. Bent(e, g) = a /\ Bent(f, h) = b /\ Bent(g, e) = c /\ Bent(h, f) = d
      BY <2>2, TwiceBent
    <2> QED BY <2>1, <2>4, <2>5
  <1>7. r = s
    BY <1>6, SameColumns
  <1> QED BY <1>1, <1>3, <1>4, <1>5, <1>7

-------------------------------------------------------------------------------
\* The other steps of a round, each with what undoes it.
LEMMA KeyTwice ==
  ASSUME NEW s \in States, NEW k \in States
  PROVE  /\ Smart!AddRoundKey(s, k) \in States
         /\ Smart!AddRoundKey(Smart!AddRoundKey(s, k), k) = s
  <1>1. Smart!AddRoundKey(s, k) = [i \in Nibble |-> s[i] ++ k[i]]
    BY StatesAre DEF Smart!AddRoundKey, ++
  <1>2. \A i \in Nibble : s[i] \in Byte /\ k[i] \in Byte
    BY DEF States
  <1>3. ASSUME NEW i \in Nibble PROVE s[i] ++ k[i] \in Byte /\ (s[i] ++ k[i]) ++ k[i] = s[i]
    BY <1>2, Group
  <1>4. PICK u \in States : u = Smart!AddRoundKey(s, k)
    BY <1>1, <1>3 DEF States
  <1>5. Smart!AddRoundKey(u, k) = [i \in Nibble |-> u[i] ++ k[i]]
    BY StatesAre DEF Smart!AddRoundKey, ++
  <1>6. ASSUME NEW i \in Nibble PROVE u[i] ++ k[i] = s[i]
    BY <1>1, <1>3, <1>4
  <1>7. Smart!AddRoundKey(u, k) = [i \in Nibble |-> s[i]]
    BY <1>5, <1>6
  <1>8. s = [i \in Nibble |-> s[i]]
    BY DEF States
  <1> QED BY <1>4, <1>7, <1>8

LEMMA Turned ==
  ASSUME NEW i \in Nibble
  PROVE  Smart!Left(i) \in Nibble /\ Smart!Right(i) \in Nibble /\ Smart!Left(Smart!Right(i)) = i
  BY DEF Nibble, Smart!Left, Smart!Right

LEMMA SubTyped ==
  ASSUME NEW b \in Byte
  PROVE  Smart!sbox[b] \in Byte /\ Smart!rsbox[Smart!sbox[b]] = b
  BY Tables DEF Undone

LEMMA ShiftUndone ==
  ASSUME NEW s \in States, NEW k \in States
  PROVE  /\ Smart!SubShift(s, k) \in States
         /\ Smart!UnsubShift(Smart!SubShift(s, k), k) = s
  <1>1. Smart!SubShift(s, k) = [i \in Nibble |-> Smart!sbox[s[Smart!Left(i)] ++ k[Smart!Left(i)]]]
    BY StatesAre DEF Smart!SubShift, ++
  <1>2. \A i \in Nibble : s[i] \in Byte /\ k[i] \in Byte
    BY DEF States
  <1>3. \A i \in Nibble : s[i] ++ k[i] \in Byte /\ (s[i] ++ k[i]) ++ k[i] = s[i]
    BY <1>2, Group
  <1>4. \A i \in Nibble : Smart!sbox[s[Smart!Left(i)] ++ k[Smart!Left(i)]] \in Byte
    BY <1>3, Turned, SubTyped
  <1>5. PICK u \in States : u = Smart!SubShift(s, k)
    BY <1>1, <1>4 DEF States
  <1>6. Smart!UnsubShift(u, k) = [i \in Nibble |-> Smart!rsbox[u[Smart!Right(i)]] ++ k[i]]
    BY StatesAre DEF Smart!UnsubShift, ++
  <1>7. ASSUME NEW i \in Nibble PROVE Smart!rsbox[u[Smart!Right(i)]] ++ k[i] = s[i]
    <2>1. u[Smart!Right(i)] = Smart!sbox[s[i] ++ k[i]]
      BY <1>1, <1>5, Turned
    <2>2. Smart!rsbox[Smart!sbox[s[i] ++ k[i]]] = s[i] ++ k[i]
      BY <1>3, SubTyped
    <2> QED BY <1>3, <2>1, <2>2
  <1>8. Smart!UnsubShift(u, k) = [i \in Nibble |-> s[i]]
    BY <1>6, <1>7
  <1>9. s = [i \in Nibble |-> s[i]]
    BY DEF States
  <1> QED BY <1>5, <1>8, <1>9

\* A round key is a state.
LEMMA NextKeyTyped ==
  ASSUME NEW k \in States, NEW c \in Byte
  PROVE  Smart!NextKey[k][c] \in States
  <1> DEFINE Col == [0 .. 3 -> Byte]
             After(col, n) == [r \in 0 .. 3 |-> k[4 * n + r] ++ col[r]]
             first == [r \in 0 .. 3 |-> (Smart!sbox[k[12 + ((r + 1) % 4)]] ++ k[r]) ++ (IF r = 0 THEN c ELSE 0)]
  <1>1. \A i \in Nibble : k[i] \in Byte
    BY DEF States
  <1>2. ASSUME NEW col \in Col, NEW n \in 0 .. 3
        PROVE  After(col, n) \in Col
    <2>1. \A r \in 0 .. 3 : 4 * n + r \in Nibble
      BY DEF Nibble
    <2>2. \A r \in 0 .. 3 : k[4 * n + r] ++ col[r] \in Byte
      BY <1>1, <2>1, XorIs
    <2> QED BY <2>2
  <1>3. first \in Col
    <2>1. ASSUME NEW r \in 0 .. 3
          PROVE  (Smart!sbox[k[12 + ((r + 1) % 4)]] ++ k[r]) ++ (IF r = 0 THEN c ELSE 0) \in Byte
      <3>1. 12 + ((r + 1) % 4) \in Nibble /\ r \in Nibble
        BY DEF Nibble
      <3>2. PICK d \in Byte : d = IF r = 0 THEN c ELSE 0
        BY DEF Byte
      <3>3. Smart!sbox[k[12 + ((r + 1) % 4)]] \in Byte /\ k[r] \in Byte
        BY <1>1, <3>1, SubTyped
      <3>4. Smart!sbox[k[12 + ((r + 1) % 4)]] ++ k[r] \in Byte
        BY <3>3, XorIs
      <3> QED BY <3>2, <3>4, XorIs
    <2> QED BY <2>1
  <1> HIDE DEF After, first, Col
  <1>4. PICK c0 \in Col : c0 = first
    BY <1>3
  <1>5. PICK c1 \in Col : c1 = After(c0, 1)
    BY <1>2
  <1>6. PICK c2 \in Col : c2 = After(c1, 2)
    BY <1>2
  <1>7. PICK c3 \in Col : c3 = After(c2, 3)
    BY <1>2
  <1>8. PICK cs \in [1 .. 4 -> Col] : cs = <<c0, c1, c2, c3>>
    <2>1. <<c0, c1, c2, c3>> \in [1 .. 4 -> Col]
      OBVIOUS
    <2> QED BY <2>1
  <1>9. Smart!NextKey[k][c] = [b \in Nibble |-> cs[(b \div 4) + 1][b % 4]]
    <2> DEFINE Key(four) == [b \in Nibble |-> four[(b \div 4) + 1][b % 4]]
    <2>1. Smart!NextKey[k][c] = Key(<<first, After(first, 1), After(After(first, 1), 2),
                                      After(After(After(first, 1), 2), 3)>>)
      <3>1. k \in Smart!State /\ c \in Smart!Byte
        BY StatesAre
      <3> QED BY <3>1, StatesAre, Zenon DEF Smart!NextKey, ++, After, first
    <2> HIDE DEF Key
    <2>2. Smart!NextKey[k][c] = Key(cs)
      BY <1>4, <1>5, <1>6, <1>7, <1>8, <2>1
    <2> QED BY <2>2 DEF Key
  <1>10. ASSUME NEW b \in Nibble PROVE cs[(b \div 4) + 1][b % 4] \in Byte
    <2>1. (b \div 4) + 1 \in 1 .. 4 /\ b % 4 \in 0 .. 3
      BY DEF Nibble
    <2>2. cs[(b \div 4) + 1] \in [0 .. 3 -> Byte]
      BY <2>1 DEF Col
    <2> QED BY <2>1, <2>2
  <1> QED BY <1>9, <1>10 DEF States

-------------------------------------------------------------------------------
\* The rounds are recursive functions: those there are, since each value gives the
\* next one, which is by induction, that is by the least number without one.
LEMMA Least ==
  ASSUME NEW T, T \subseteq Nat, T # {}
  PROVE  \E n \in T : \A m \in T : ~(m < n)
  <1> DEFINE R == {ss \in Nat \X Nat : ss[1] < ss[2]}
  <1>1. IsWellFoundedOn(R, Nat)
    BY NatLessThanWellFounded, Zenon DEF OpToRel
  <1> HIDE DEF R
  <1>2. PICK n \in T : \A m \in T : ~(<<m, n>> \in R)
    BY <1>1, WFMin
  <1>3. ASSUME NEW m \in T PROVE ~(m < n)
    <2>1. <<m, n>> \in Nat \X Nat
      OBVIOUS
    <2> QED BY <1>2, <2>1 DEF R
  <1> QED BY <1>3

LEMMA Inductive ==
  ASSUME NEW S, 0 \in S, \A n \in Nat : n \in S => n + 1 \in S
  PROVE  Nat \subseteq S
  <1> DEFINE T == {n \in Nat : n \notin S}
  <1> SUFFICES ASSUME T # {} PROVE FALSE
    OBVIOUS
  <1>1. PICK n \in T : \A m \in T : ~(m < n)
    BY Least
  <1>2. n # 0 /\ n \in Nat /\ n \notin S
    OBVIOUS
  <1>3. n - 1 \in Nat /\ n - 1 \in S
    BY <1>1, <1>2
  <1>4. (n - 1) + 1 = n
    BY <1>2
  <1> QED BY <1>2, <1>3, <1>4

Follows(r, m, s, F) == r[0] = s /\ \A i \in 1 .. m : r[i] = F[i][r[i - 1]]

LEMMA Chain ==
  ASSUME NEW S, NEW N \in Nat, NEW F \in [1 .. N -> [S -> S]], NEW s \in S
  PROVE  \E r \in [0 .. N -> S] : Follows(r, N, s, F)
  <1> DEFINE T == {m \in Nat : m <= N => \E r \in [0 .. m -> S] : Follows(r, m, s, F)}
  <1>1. 0 \in T
    <2>1. [i \in 0 .. 0 |-> s] \in [0 .. 0 -> S] /\ Follows([i \in 0 .. 0 |-> s], 0, s, F)
      BY DEF Follows
    <2> QED BY <2>1
  <1>2. ASSUME NEW m \in Nat, m \in T PROVE m + 1 \in T
    <2> SUFFICES ASSUME m + 1 <= N
                 PROVE  \E r \in [0 .. m + 1 -> S] : Follows(r, m + 1, s, F)
      OBVIOUS
    <2>1. PICK r \in [0 .. m -> S] : Follows(r, m, s, F)
      BY <1>2
    <2>2. F[m + 1][r[m]] \in S
      <3>1. m + 1 \in 1 .. N /\ r[m] \in S
        OBVIOUS
      <3>2. F[m + 1] \in [S -> S]
        BY <3>1
      <3> QED BY <3>1, <3>2
    <2>3. PICK x \in S : x = F[m + 1][r[m]]
      BY <2>2
    <2>4. PICK q \in [0 .. m + 1 -> S] : q = [i \in 0 .. m + 1 |-> IF i = m + 1 THEN x ELSE r[i]]
      <3>1. \A i \in 0 .. m + 1 : (IF i = m + 1 THEN x ELSE r[i]) \in S
        OBVIOUS
      <3> QED BY <3>1
    <2>5. q[0] = s
      BY <2>1, <2>4 DEF Follows
    <2>6. ASSUME NEW i \in 1 .. m + 1 PROVE q[i] = F[i][q[i - 1]]
      <3>1. CASE i = m + 1
        <4>1. q[i] = x /\ i - 1 = m /\ q[m] = r[m]
          BY <2>4, <3>1
        <4> QED BY <2>3, <3>1, <4>1
      <3>2. CASE i # m + 1
        <4>1. q[i] = r[i] /\ q[i - 1] = r[i - 1] /\ i \in 1 .. m
          BY <2>4, <3>2
        <4> QED BY <2>1, <4>1 DEF Follows
      <3> QED BY <3>1, <3>2
    <2> QED BY <2>5, <2>6 DEF Follows
  <1>3. N \in T
    <2> HIDE DEF T
    <2> QED BY <1>1, <1>2, Inductive
  <1> QED BY <1>3

\* What the recursion of each says: there is a function of which it holds, so it
\* holds of the one that is chosen.
KeysAre(r, secret) ==
  r = [n \in 0 .. 10 |-> IF n = 0 THEN secret ELSE Smart!NextKey[r[n - 1]][Smart!Rcon[n]]]
RoundsAre(r, x, ks) ==
  r = [n \in 0 .. 9 |-> IF n = 0 THEN x ELSE Smart!MixColumns[Smart!SubShift(r[n - 1], ks[n])]]
BackAre(r, x, ks) ==
  r = [n \in 0 .. 9 |->
         IF n = 0 THEN Smart!UnsubShift(Smart!AddRoundKey(x, ks[11]), ks[10])
         ELSE Smart!UnsubShift(Smart!MixColumns[Smart!Barreto[r[n - 1]]], ks[10 - n])]

LEMMA Expanded ==
  ASSUME NEW secret, NEW k, KeysAre(k, secret)
  PROVE  \E r : KeysAre(r, secret) /\ Smart!expandKey(secret) = [n \in 1 .. 11 |-> r[n - 1]]
  <1> DEFINE u == CHOOSE r : KeysAre(r, secret)
  <1>1. Smart!expandKey(secret) = [n \in 1 .. 11 |-> u[n - 1]]
    BY Zenon DEF Smart!expandKey, KeysAre
  <1>2. KeysAre(u, secret)
    OBVIOUS
  <1> QED BY <1>1, <1>2

LEMMA Encr ==
  ASSUME NEW x, NEW ks, NEW e, RoundsAre(e, x, ks)
  PROVE  \E r : RoundsAre(r, x, ks) /\ Smart!aes_encr(x, ks)
                                         = Smart!AddRoundKey(Smart!SubShift(r[9], ks[10]), ks[11])
  <1> DEFINE u == CHOOSE r : RoundsAre(r, x, ks)
  <1>1. Smart!aes_encr(x, ks) = Smart!AddRoundKey(Smart!SubShift(u[9], ks[10]), ks[11])
    BY Zenon DEF Smart!aes_encr, RoundsAre
  <1>2. RoundsAre(u, x, ks)
    OBVIOUS
  <1> QED BY <1>1, <1>2

LEMMA Decr ==
  ASSUME NEW x, NEW ks, NEW d, BackAre(d, x, ks)
  PROVE  \E r : BackAre(r, x, ks) /\ Smart!aes_decr(x, ks) = r[9]
  <1> DEFINE u == CHOOSE r : BackAre(r, x, ks)
  <1>1. Smart!aes_decr(x, ks) = u[9]
    BY Zenon DEF Smart!aes_decr, BackAre
  <1>2. BackAre(u, x, ks)
    OBVIOUS
  <1> QED BY <1>1, <1>2

\* From one to the next, as far as the function goes.
LEMMA Reaches ==
  ASSUME NEW N \in Nat, NEW T, 0 \in T, \A n \in 1 .. N : n - 1 \in T => n \in T
  PROVE  \A n \in 0 .. N : n \in T
  <1> DEFINE S == {n \in Nat : n <= N => n \in T}
  <1>1. 0 \in S
    OBVIOUS
  <1>2. ASSUME NEW n \in Nat, n \in S PROVE n + 1 \in S
    <2> SUFFICES ASSUME n + 1 <= N PROVE n + 1 \in T
      OBVIOUS
    <2>1. n + 1 \in 1 .. N /\ (n + 1) - 1 = n /\ n \in T
      BY <1>2
    <2> QED BY <2>1
  <1>3. ASSUME NEW n \in 0 .. N PROVE n \in S
    <2> HIDE DEF S
    <2>1. n \in Nat
      OBVIOUS
    <2> QED BY <1>1, <1>2, <2>1, Inductive
  <1> QED BY <1>3

LEMMA KeysTyped ==
  ASSUME NEW secret \in States
  PROVE  \A n \in 1 .. 11 : Smart!expandKey(secret)[n] \in States
  <1>1. \A n \in 1 .. 10 : Smart!Rcon[n] \in Byte
    BY DEF Smart!Rcon, Byte
  <1>2. \A n \in 1 .. 10, k \in States : Smart!NextKey[k][Smart!Rcon[n]] \in States
    BY <1>1, NextKeyTyped
  <1>3. \E r : KeysAre(r, secret)
    <2>1. PICK F \in [1 .. 10 -> [States -> States]] :
            F = [n \in 1 .. 10 |-> [k \in States |-> Smart!NextKey[k][Smart!Rcon[n]]]]
      BY <1>2
    <2>2. PICK r \in [0 .. 10 -> States] : Follows(r, 10, secret, F)
      BY Chain
    <2>3. ASSUME NEW n \in 1 .. 10 PROVE r[n] = Smart!NextKey[r[n - 1]][Smart!Rcon[n]]
      BY <2>1, <2>2 DEF Follows
    <2>4. KeysAre(r, secret)
      BY <2>2, <2>3 DEF Follows, KeysAre
    <2> QED BY <2>4
  <1>4. PICK r : KeysAre(r, secret) /\ Smart!expandKey(secret) = [n \in 1 .. 11 |-> r[n - 1]]
    BY <1>3, Expanded
  <1> DEFINE T == {n \in 0 .. 10 : r[n] \in States}
  <1>5. 0 \in T
    BY <1>4 DEF KeysAre
  <1>6. ASSUME NEW n \in 1 .. 10, n - 1 \in T PROVE n \in T
    <2>1. r[n] = Smart!NextKey[r[n - 1]][Smart!Rcon[n]]
      BY <1>4 DEF KeysAre
    <2> QED BY <1>2, <1>6, <2>1
  <1>7. \A n \in 0 .. 10 : n \in T
    <2> HIDE DEF T
    <2> QED BY <1>5, <1>6, Reaches
  <1>8. ASSUME NEW n \in 1 .. 11 PROVE Smart!expandKey(secret)[n] \in States
    <2>1. Smart!expandKey(secret)[n] = r[n - 1] /\ n - 1 \in 0 .. 10
      BY <1>4
    <2> QED BY <1>7, <2>1
  <1> QED BY <1>8

\* What is decrypted is what was encrypted.
LEMMA Deciphered ==
  ASSUME NEW x \in States, NEW secret \in States
  PROVE  /\ Smart!aes_encrypt(x, secret) \in States
         /\ Smart!aes_decrypt(Smart!aes_encrypt(x, secret), secret) = x
  <1>1. PICK ks : ks = Smart!expandKey(secret)
    OBVIOUS
  <1>2. \A n \in 1 .. 11 : ks[n] \in States
    BY <1>1, KeysTyped
  <1>3. \A n \in 1 .. 10, s \in States : Smart!MixColumns[Smart!SubShift(s, ks[n])] \in States
    BY <1>2, ShiftUndone, MixTyped
  <1>4. \E r : RoundsAre(r, x, ks)
    <2>1. PICK F \in [1 .. 9 -> [States -> States]] :
            F = [n \in 1 .. 9 |-> [s \in States |-> Smart!MixColumns[Smart!SubShift(s, ks[n])]]]
      <3>1. \A n \in 1 .. 9 : n \in 1 .. 10
        OBVIOUS
      <3> QED BY <1>3, <3>1
    <2>2. PICK r \in [0 .. 9 -> States] : Follows(r, 9, x, F)
      BY Chain
    <2>3. ASSUME NEW n \in 1 .. 9 PROVE r[n] = Smart!MixColumns[Smart!SubShift(r[n - 1], ks[n])]
      BY <2>1, <2>2 DEF Follows
    <2>4. RoundsAre(r, x, ks)
      BY <2>2, <2>3 DEF Follows, RoundsAre
    <2> QED BY <2>4
  <1>5. PICK e : /\ RoundsAre(e, x, ks)
                 /\ Smart!aes_encr(x, ks) = Smart!AddRoundKey(Smart!SubShift(e[9], ks[10]), ks[11])
    BY <1>4, Encr
  <1>6. \A n \in 0 .. 9 : e[n] \in States
    <2> DEFINE T == {n \in 0 .. 9 : e[n] \in States}
    <2>1. 0 \in T
      BY <1>5 DEF RoundsAre
    <2>2. ASSUME NEW n \in 1 .. 9, n - 1 \in T PROVE n \in T
      <3>1. e[n] = Smart!MixColumns[Smart!SubShift(e[n - 1], ks[n])]
        BY <1>5 DEF RoundsAre
      <3> QED BY <1>3, <2>2, <3>1
    <2>3. \A n \in 0 .. 9 : n \in T
      <3> HIDE DEF T
      <3> QED BY <2>1, <2>2, Reaches
    <2> QED BY <2>3
  <1>7. PICK c : c = Smart!aes_encr(x, ks)
    OBVIOUS
  <1>8. Smart!UnsubShift(Smart!AddRoundKey(c, ks[11]), ks[10]) = e[9]
    <2>1. PICK u \in States : u = Smart!SubShift(e[9], ks[10])
      BY <1>2, <1>6, ShiftUndone
    <2>2. Smart!AddRoundKey(c, ks[11]) = u
      BY <1>2, <1>5, <1>7, <2>1, KeyTwice
    <2> QED BY <1>2, <1>6, <2>1, <2>2, ShiftUndone
  <1>9. ASSUME NEW n \in 1 .. 9
        PROVE  Smart!UnsubShift(Smart!MixColumns[Smart!Barreto[e[10 - n]]], ks[10 - n]) = e[9 - n]
    <2>1. PICK m \in 1 .. 9 : m = 10 - n /\ m - 1 = 9 - n
      OBVIOUS
    <2>2. e[m - 1] \in States /\ ks[m] \in States
      BY <1>2, <1>6
    <2>3. PICK u \in States : u = Smart!SubShift(e[m - 1], ks[m])
      BY <2>2, ShiftUndone
    <2>4. e[m] = Smart!MixColumns[u]
      BY <1>5, <2>3 DEF RoundsAre
    <2>5. Smart!MixColumns[Smart!Barreto[e[m]]] = u
      BY <2>4, MixUndone
    <2>6. Smart!UnsubShift(u, ks[m]) = e[m - 1]
      BY <2>2, <2>3, ShiftUndone
    <2> QED BY <2>1, <2>5, <2>6
  <1>10. \E r : BackAre(r, c, ks)
    <2>1. PICK r \in [0 .. 9 -> States] : r = [n \in 0 .. 9 |-> e[9 - n]]
      <3>1. [n \in 0 .. 9 |-> e[9 - n]] \in [0 .. 9 -> States]
        BY <1>6
      <3> QED BY <3>1
    <2>2. r[0] = e[9]
      BY <2>1
    <2>3. ASSUME NEW n \in 1 .. 9 PROVE r[n] = e[9 - n] /\ r[n - 1] = e[10 - n]
      <3>1. n - 1 \in 0 .. 9 /\ 9 - (n - 1) = 10 - n
        OBVIOUS
      <3> QED BY <2>1, <3>1
    <2>4. BackAre(r, c, ks)
      BY <1>8, <1>9, <2>1, <2>2, <2>3 DEF BackAre
    <2> QED BY <2>4
  <1>11. PICK d : BackAre(d, c, ks) /\ Smart!aes_decr(c, ks) = d[9]
    BY <1>10, Decr
  <1>12. \A n \in 0 .. 9 : d[n] = e[9 - n]
    <2> DEFINE T == {n \in 0 .. 9 : d[n] = e[9 - n]}
    <2>1. 0 \in T
      <3>1. d[0] = e[9] /\ 9 - 0 = 9
        BY <1>8, <1>11 DEF BackAre
      <3> QED BY <3>1
    <2>2. ASSUME NEW n \in 1 .. 9, n - 1 \in T PROVE n \in T
      <3>1. d[n] = Smart!UnsubShift(Smart!MixColumns[Smart!Barreto[d[n - 1]]], ks[10 - n])
        BY <1>11 DEF BackAre
      <3>2. d[n - 1] = e[10 - n]
        <4>1. 9 - (n - 1) = 10 - n
          OBVIOUS
        <4> QED BY <2>2, <4>1
      <3> QED BY <1>9, <3>1, <3>2
    <2>3. \A n \in 0 .. 9 : n \in T
      <3> HIDE DEF T
      <3> QED BY <2>1, <2>2, Reaches
    <2> QED BY <2>3
  <1>13. d[9] = e[0] /\ e[0] = x
    BY <1>5, <1>12 DEF RoundsAre
  <1>14. c \in States
    <2>1. Smart!SubShift(e[9], ks[10]) \in States
      BY <1>2, <1>6, ShiftUndone
    <2> QED BY <1>2, <1>5, <1>7, <2>1, KeyTwice
  <1> QED BY <1>1, <1>7, <1>11, <1>13, <1>14 DEF Smart!aes_decrypt, Smart!aes_encrypt

-------------------------------------------------------------------------------
\* The data of a password, and the password that is read in it.
Fits(n, first, s) ==
  /\ Smart!Filled(s) \in [0 .. 31 -> Byte]
  /\ Len(s) = n
  /\ n = 32 => s[1] = first
  /\ ~(n = 32 /\ first = 31) => Smart!KeyOf(Smart!Filled(s)) = s

LEMMA FilledIs ==
  ASSUME NEW n \in 0 .. 32, NEW first \in Byte, NEW s, s = Smart!Password(n, first)
  PROVE  Fits(n, first, s)
  <1>1. /\ s = [i \in 1 .. n |-> IF i = 1 THEN first ELSE 96 + (i % 26)]
        /\ s = [i \in 1 .. n |-> s[i]]
    BY DEF Smart!Password
  <1>2. \A i \in 1 .. n : s[i] \in Byte
    BY <1>1 DEF Byte
  <1>3. s \in Seq(Byte) /\ Len(s) = n
    BY <1>1, <1>2
  <1>4. ASSUME n = 32
        PROVE  /\ Smart!Filled(s) \in [0 .. 31 -> Byte]
               /\ first # 31 => Smart!KeyOf(Smart!Filled(s)) = s
    <2>1. PICK d : d = Smart!Filled(s) /\ d = [i \in 0 .. 31 |-> s[i + 1]]
      <3>1. \A i \in 0 .. 31 : i < Len(s)
        BY <1>3, <1>4
      <3> QED BY <1>3, <1>4, <3>1 DEF Smart!Filled, Smart!Padded
    <2>2. d \in [0 .. 31 -> Byte]
      <3>1. \A i \in 0 .. 31 : i + 1 \in 1 .. n
        BY <1>4
      <3> QED BY <1>2, <2>1, <3>1
    <2>3. d[31] = 102 /\ d[0] = first
      BY <1>1, <1>4, <2>1
    <2>4. first # 31 => Smart!KeyOf(d) = [i \in 1 .. 32 |-> d[i - 1]]
      BY <2>3 DEF Smart!KeyOf, Smart!LengthFirst, Byte
    <2>5. \A i \in 1 .. 32 : d[i - 1] = s[i]
      BY <2>1
    <2>6. [i \in 1 .. 32 |-> d[i - 1]] = s
      BY <1>1, <1>4, <2>5
    <2> QED BY <2>1, <2>2, <2>4, <2>6
  <1>5. ASSUME n # 32
        PROVE  /\ Smart!Filled(s) \in [0 .. 31 -> Byte]
               /\ Smart!KeyOf(Smart!Filled(s)) = s
    <2>1. PICK u : u = <<n>> \o s
      OBVIOUS
    <2>2. n \in Byte /\ u \in Seq(Byte) /\ Len(u) = n + 1
      BY <1>3, <2>1 DEF Byte
    <2>3. u[1] = n /\ \A i \in 1 .. n : u[i + 1] = s[i]
      BY <1>3, <2>1
    <2>4. PICK d : d = Smart!Filled(s) /\ d = [i \in 0 .. 31 |-> IF i < n + 1 THEN u[i + 1] ELSE 0]
      BY <1>3, <1>5, <2>1, <2>2 DEF Smart!Filled, Smart!Padded
    <2>5. d \in [0 .. 31 -> Byte]
      <3>1. \A i \in 0 .. 31 : i < n + 1 => u[i + 1] \in Byte
        BY <2>2
      <3>2. 0 \in Byte
        BY DEF Byte
      <3> QED BY <2>4, <3>1, <3>2
    <2>6. d[0] = n /\ (n # 31 => d[31] = 0)
      BY <1>5, <2>3, <2>4
    <2>7. Smart!KeyOf(d) = [i \in 1 .. n |-> d[i]]
      BY <2>6 DEF Smart!KeyOf, Smart!LengthFirst
    <2>8. \A i \in 1 .. n : d[i] = s[i]
      <3>1. \A i \in 1 .. n : i \in 0 .. 31 /\ i < n + 1
        BY <1>5
      <3> QED BY <2>3, <2>4, <3>1
    <2> QED BY <1>1, <2>4, <2>5, <2>7, <2>8
  <1>6. n = 32 => s[1] = first
    BY <1>1
  <1> QED BY <1>3, <1>4, <1>5, <1>6 DEF Fits

\* What is hidden with the key comes out with it.
LEMMA Revealed ==
  ASSUME NEW d \in [0 .. 31 -> Byte], NEW file0, file0.keyLen = 32, file0.data = Smart!Hidden(d)
  PROVE  Smart!Decrypted(file0, AesKey) = d
  <1>1. PICK x \in States, y \in States : x = Smart!Half(d, 0) /\ y = Smart!Half(d, 1)
    <2>1. \A i \in Nibble : 16 * 0 + i \in 0 .. 31 /\ 16 * 1 + i \in 0 .. 31
      BY DEF Nibble
    <2>2. \A i \in Nibble : d[16 * 0 + i] \in Byte /\ d[16 * 1 + i] \in Byte
      BY <2>1
    <2>3. Smart!Half(d, 0) \in States /\ Smart!Half(d, 1) \in States
      BY <2>2, StatesAre DEF Smart!Half, States
    <2> QED BY <2>3
  <1>2. AesKey \in States
    BY PasswordsAssumption, StatesAre
  <1>3. PICK p \in States, q \in States :
          /\ p = Smart!aes_encrypt(x, AesKey) /\ q = Smart!aes_encrypt(y, AesKey)
          /\ Smart!aes_decrypt(p, AesKey) = x /\ Smart!aes_decrypt(q, AesKey) = y
    BY <1>2, Deciphered
  <1>4. PICK h : h = Smart!Joined(p, q) /\ h = Smart!Hidden(d)
    BY <1>1, <1>3 DEF Smart!Hidden
  <1>5. Smart!Half(h, 0) = p /\ Smart!Half(h, 1) = q
    <2>1. h = [i \in 0 .. 31 |-> IF i < 16 THEN p[i] ELSE q[i - 16]]
      BY <1>4 DEF Smart!Joined
    <2>2. ASSUME NEW i \in Nibble PROVE h[16 * 0 + i] = p[i] /\ h[16 * 1 + i] = q[i]
      <3>1. /\ 16 * 0 + i = i /\ i \in 0 .. 31 /\ i < 16
            /\ 16 * 1 + i \in 0 .. 31 /\ ~(16 * 1 + i < 16) /\ (16 * 1 + i) - 16 = i
        BY DEF Nibble
      <3> QED BY <2>1, <3>1
    <2>3. p = [i \in Nibble |-> p[i]] /\ q = [i \in Nibble |-> q[i]]
      BY DEF States
    <2> QED BY <2>2, <2>3, StatesAre DEF Smart!Half
  <1>6. Smart!Decrypted(file0, AesKey) = Smart!Joined(x, y)
    BY <1>3, <1>4, <1>5 DEF Smart!Decrypted
  <1>7. Smart!Joined(x, y) = d
    <2>1. ASSUME NEW i \in 0 .. 31 PROVE (IF i < 16 THEN x[i] ELSE y[i - 16]) = d[i]
      <3>1. CASE i < 16
        <4>1. i \in Nibble /\ 16 * 0 + i = i
          BY <3>1 DEF Nibble
        <4> QED BY <1>1, <3>1, <4>1, StatesAre DEF Smart!Half
      <3>2. CASE ~(i < 16)
        <4>1. i - 16 \in Nibble /\ 16 * 1 + (i - 16) = i
          BY <3>2 DEF Nibble
        <4> QED BY <1>1, <3>2, <4>1, StatesAre DEF Smart!Half
      <3> QED BY <3>1, <3>2
    <2> QED BY <2>1 DEF Smart!Joined
  <1> QED BY <1>6, <1>7

-------------------------------------------------------------------------------
\* What the steps keep: what is in the files of the chip, and that the driver took
\* both from there.
FileOf(n, first, security) ==
  [keyLen |-> 32, security |-> security, data |-> Smart!Hidden(Smart!Filled(Smart!Password(n, first)))]
Received(n, first, security) ==
  /\ given = [security |-> security, password |-> Smart!Password(n, first)]
  /\ profileFile = FileOf(n, first, security)

ProfileInv ==
  /\ Smart!TypeOK
  /\ step \notin {"idle", "failed"} => keyFile = AesKey
  /\ step \in {"key", "profile", "process", "done"} =>
       \E n \in Lengths, first \in FirstBytes, security \in SecurityTypes :
         Received(n, first, security)
  /\ step \in {"profile", "process"} => key = AesKey
  /\ step = "process" => profileArray = profileFile
  /\ step # "done" => profile = NONE
  /\ Smart!ProfileIsWhatWasSent

LEMMA ProfileStays ==
  ASSUME ProfileInv, UNCHANGED smartVars
  PROVE  ProfileInv'
  <1>1. /\ step' = step /\ keyFile' = keyFile /\ profileFile' = profileFile /\ key' = key
        /\ profileArray' = profileArray /\ given' = given /\ profile' = profile
        /\ outcome' = outcome
    BY DEF smartVars
  <1> QED BY <1>1 DEF ProfileInv, Received, Smart!TypeOK, Smart!ProfileIsWhatWasSent

LEMMA ProfileStarts ==
  ASSUME Smart!Init
  PROVE  ProfileInv
  BY DEF Smart!Init, ProfileInv, Smart!TypeOK, Smart!ProfileIsWhatWasSent

\* The profile that is made of what was received.
LEMMA ProfileMade ==
  ASSUME ProfileInv, NEW ok \in BOOLEAN, Smart!wlan_smart_config_process(ok)
  PROVE  ProfileInv'
  <1>1. /\ step = "process" /\ profile = NONE /\ key = AesKey /\ profileArray = profileFile
        /\ step' = "done" /\ outcome' \in {NONE, -1, 0, 1}
        /\ keyFile' = keyFile /\ profileFile' = profileFile /\ key' = key
        /\ profileArray' = profileArray /\ given' = given
    BY DEF ProfileInv, Smart!wlan_smart_config_process, Smart!Returns, Smart!EFAIL
  <1>2. PICK n \in Lengths, first \in FirstBytes, security \in SecurityTypes :
          Received(n, first, security)
    BY <1>1 DEF ProfileInv
  <1>3. n \in 0 .. 32 /\ first \in Byte
    BY PasswordsAssumption, StatesAre
  <1>4. PICK s : s = Smart!Password(n, first)
    OBVIOUS
  <1>5. PICK d \in [0 .. 31 -> Byte] :
          /\ d = Smart!Filled(s) /\ Len(s) = n
          /\ n = 32 => s[1] = first
          /\ ~(n = 32 /\ first = 31) => Smart!KeyOf(d) = s
    <2>1. Fits(n, first, s)
      BY <1>3, <1>4, FilledIs
    <2> QED BY <2>1 DEF Fits
  <1>6. /\ profileArray = [keyLen |-> 32, security |-> security, data |-> Smart!Hidden(d)]
        /\ given = [security |-> security, password |-> s]
    BY <1>1, <1>2, <1>4, <1>5 DEF Received, FileOf
  <1>7. profileArray.security = security /\ given.security = security /\ given.password = s
    BY <1>6
  <1>8. Smart!Decrypted(profileArray, key) = d
    <2>1. profileArray.keyLen = 32 /\ profileArray.data = Smart!Hidden(d)
      BY <1>6
    <2> QED BY <1>1, <2>1, Revealed
  <1>9. Smart!ProfileIsWhatWasSent'
    <2>1. CASE profile' = profile
      BY <1>1, <2>1 DEF Smart!ProfileIsWhatWasSent
    <2>2. CASE profile' # profile
      <3>1. profile'.password = IF security = 0 THEN <<>> ELSE Smart!KeyOf(d)
        <4>1. \E p : profile' = [security |-> p,
                                 password |-> IF profileArray.security = 0 THEN <<>>
                                              ELSE Smart!KeyOf(Smart!Decrypted(profileArray, key))]
          BY <2>2 DEF Smart!wlan_smart_config_process, Smart!WLAN_SEC_UNSEC
        <4> QED BY <1>7, <1>8, <4>1
      <3>2. CASE security = 0
        BY <1>1, <1>7, <3>1, <3>2 DEF Smart!ProfileIsWhatWasSent, Smart!WLAN_SEC_UNSEC
      <3>3. CASE security # 0 /\ ~(n = 32 /\ first = 31)
        BY <1>1, <1>5, <1>7, <3>1, <3>3 DEF Smart!ProfileIsWhatWasSent
      <3>4. CASE n = 32 /\ first = 31
        BY <1>1, <1>5, <1>7, <3>4 DEF Smart!ProfileIsWhatWasSent
      <3> QED BY <3>2, <3>3, <3>4
    <2> QED BY <2>1, <2>2
  <1>10. Smart!TypeOK'
    BY <1>1 DEF ProfileInv, Smart!TypeOK, Smart!EFAIL
  <1>11. Received(n, first, security)'
    BY <1>1, <1>2 DEF Received
  <1> QED BY <1>1, <1>9, <1>10, <1>11 DEF ProfileInv

LEMMA ProfileNext ==
  ASSUME ProfileInv, Smart!Next
  PROVE  ProfileInv'
  <1>1. ASSUME NEW ok \in BOOLEAN, Smart!aes_write_key(ok) PROVE ProfileInv'
    BY <1>1 DEF ProfileInv, Smart!aes_write_key, Smart!TypeOK, Smart!ProfileIsWhatWasSent
  <1>2. ASSUME NEW ok \in BOOLEAN, Smart!aes_read_key(ok) PROVE ProfileInv'
    BY <1>2 DEF ProfileInv, Received, Smart!aes_read_key, Smart!Returns, Smart!EFAIL, Smart!TypeOK,
                Smart!ProfileIsWhatWasSent
  <1>3. ASSUME NEW ok \in BOOLEAN, Smart!ReadProfile(ok) PROVE ProfileInv'
    BY <1>3 DEF ProfileInv, Received, Smart!ReadProfile, Smart!Returns, Smart!EFAIL, Smart!TypeOK,
                Smart!ProfileIsWhatWasSent
  <1>4. ASSUME NEW ok \in BOOLEAN, Smart!wlan_smart_config_process(ok) PROVE ProfileInv'
    BY <1>4, ProfileMade
  <1>5. ASSUME NEW n \in Lengths, NEW first \in FirstBytes, NEW security \in SecurityTypes,
               Smart!TelephoneSends(n, first, security)
        PROVE  ProfileInv'
    <2>1. Received(n, first, security)'
      BY <1>5 DEF Smart!TelephoneSends, Received, FileOf
    <2> QED BY <1>5, <2>1 DEF ProfileInv, Smart!TelephoneSends, Smart!TypeOK,
                              Smart!ProfileIsWhatWasSent
  <1> QED BY <1>1, <1>2, <1>3, <1>4, <1>5 DEF Smart!Next

LEMMA ProfileHolds == Spec => []ProfileInv
  <1>1. Init => ProfileInv
    BY ProfileStarts DEF Init
  <1>2. ProfileInv /\ [Next]_<<level, cardVars, configVars, nodeVars, clockVars, timeVars,
                               driverVars, smartVars>> => ProfileInv'
    <2> SUFFICES ASSUME ProfileInv,
                        [Next]_<<level, cardVars, configVars, nodeVars, clockVars, timeVars,
                                 driverVars, smartVars>>
                 PROVE  ProfileInv'
      OBVIOUS
    <2>1. CASE UNCHANGED smartVars
      BY <2>1, ProfileStays
    <2>2. CASE Rest("smart") /\ Smart!Next
      BY <2>2, ProfileNext
    <2>3. UNCHANGED smartVars \/ (Rest("smart") /\ Smart!Next)
      BY DEF Next, Rest
    <2> QED BY <2>1, <2>2, <2>3
  <1> QED BY <1>1, <1>2, PTL DEF Spec

\* For any key and any passwords.  The password in the profile that the call makes is
\* the one that the telephone sent: the file holds it filled up to 32 bytes and
\* encrypted, and AES undoes what it did (security.cpp).  But a network without
\* security gets none, and one of 32 bytes that begins with 31 is taken for the
\* length of one of 31 (wlan.cpp:1148-1253).
THEOREM ProfileIsRight == Spec => []ProfileIsWhatWasSent
  <1>1. ProfileInv => ProfileIsWhatWasSent
    BY DEF ProfileInv, ProfileIsWhatWasSent
  <1> QED BY <1>1, ProfileHolds, PTL
===============================================================================
