----------------------------------- MODULE Aes -----------------------------------
(***************************************************************************)
(* AES-128 as the driver of the CC3000 computes it (security.cpp).  The    *)
(* state is 16 bytes, four to a column.  The code writes every byte of a   *)
(* round out; here a round is what it does to byte i.                      *)
(* The rounds are functions, not operators, for TLC to compute each once.  *)
(***************************************************************************)
EXTENDS Integers

Byte  == 0 .. 255
Block == 0 .. 15
State == [Block -> Byte]
Table(rows) == [b \in Byte |-> rows[(b \div 16) + 1][(b % 16) + 1]]

sbox == Table(<<
  <<99, 124, 119, 123, 242, 107, 111, 197, 48, 1, 103, 43, 254, 215, 171, 118>>,
  <<202, 130, 201, 125, 250, 89, 71, 240, 173, 212, 162, 175, 156, 164, 114, 192>>,
  <<183, 253, 147, 38, 54, 63, 247, 204, 52, 165, 229, 241, 113, 216, 49, 21>>,
  <<4, 199, 35, 195, 24, 150, 5, 154, 7, 18, 128, 226, 235, 39, 178, 117>>,
  <<9, 131, 44, 26, 27, 110, 90, 160, 82, 59, 214, 179, 41, 227, 47, 132>>,
  <<83, 209, 0, 237, 32, 252, 177, 91, 106, 203, 190, 57, 74, 76, 88, 207>>,
  <<208, 239, 170, 251, 67, 77, 51, 133, 69, 249, 2, 127, 80, 60, 159, 168>>,
  <<81, 163, 64, 143, 146, 157, 56, 245, 188, 182, 218, 33, 16, 255, 243, 210>>,
  <<205, 12, 19, 236, 95, 151, 68, 23, 196, 167, 126, 61, 100, 93, 25, 115>>,
  <<96, 129, 79, 220, 34, 42, 144, 136, 70, 238, 184, 20, 222, 94, 11, 219>>,
  <<224, 50, 58, 10, 73, 6, 36, 92, 194, 211, 172, 98, 145, 149, 228, 121>>,
  <<231, 200, 55, 109, 141, 213, 78, 169, 108, 86, 244, 234, 101, 122, 174, 8>>,
  <<186, 120, 37, 46, 28, 166, 180, 198, 232, 221, 116, 31, 75, 189, 139, 138>>,
  <<112, 62, 181, 102, 72, 3, 246, 14, 97, 53, 87, 185, 134, 193, 29, 158>>,
  <<225, 248, 152, 17, 105, 217, 142, 148, 155, 30, 135, 233, 206, 85, 40, 223>>,
  <<140, 161, 137, 13, 191, 230, 66, 104, 65, 153, 45, 15, 176, 84, 187, 22>>>>)

rsbox == Table(<<
  <<82, 9, 106, 213, 48, 54, 165, 56, 191, 64, 163, 158, 129, 243, 215, 251>>,
  <<124, 227, 57, 130, 155, 47, 255, 135, 52, 142, 67, 68, 196, 222, 233, 203>>,
  <<84, 123, 148, 50, 166, 194, 35, 61, 238, 76, 149, 11, 66, 250, 195, 78>>,
  <<8, 46, 161, 102, 40, 217, 36, 178, 118, 91, 162, 73, 109, 139, 209, 37>>,
  <<114, 248, 246, 100, 134, 104, 152, 22, 212, 164, 92, 204, 93, 101, 182, 146>>,
  <<108, 112, 72, 80, 253, 237, 185, 218, 94, 21, 70, 87, 167, 141, 157, 132>>,
  <<144, 216, 171, 0, 140, 188, 211, 10, 247, 228, 88, 5, 184, 179, 69, 6>>,
  <<208, 44, 30, 143, 202, 63, 15, 2, 193, 175, 189, 3, 1, 19, 138, 107>>,
  <<58, 145, 17, 65, 79, 103, 220, 234, 151, 242, 207, 206, 240, 180, 230, 115>>,
  <<150, 172, 116, 34, 231, 173, 53, 133, 226, 249, 55, 232, 28, 117, 223, 110>>,
  <<71, 241, 26, 113, 29, 41, 197, 137, 111, 183, 98, 14, 170, 24, 190, 27>>,
  <<252, 86, 62, 75, 198, 210, 121, 32, 154, 219, 192, 254, 120, 205, 90, 244>>,
  <<31, 221, 168, 51, 136, 7, 199, 49, 177, 18, 16, 89, 39, 128, 236, 95>>,
  <<96, 81, 127, 169, 25, 181, 74, 13, 45, 229, 122, 159, 147, 201, 156, 239>>,
  <<160, 224, 59, 77, 174, 42, 245, 176, 200, 235, 187, 60, 131, 83, 153, 97>>,
  <<23, 43, 4, 126, 186, 119, 214, 38, 225, 105, 20, 99, 85, 33, 12, 125>>>>)

Rcon == <<1, 2, 4, 8, 16, 32, 64, 128, 27, 54>>

\* ^ of two bytes, by halves, and of those by bits.
Bit(n, v) == (n \div v) % 2
XorBit(a, b, v) == IF Bit(a, v) = Bit(b, v) THEN 0 ELSE v
XorTable == [a \in Block |-> [b \in Block |->
               XorBit(a, b, 1) + XorBit(a, b, 2) + XorBit(a, b, 4) + XorBit(a, b, 8)]]
a ++ b == 16 * XorTable[a \div 16][b \div 16] + XorTable[a % 16][b % 16]
AddRoundKey(s, k) == [i \in Block |-> s[i] ++ k[i]]

galois_mul2(v) == IF v >= 128 THEN ((2 * v) % 256) ++ 27 ELSE 2 * v

-------------------------------------------------------------------------------
\* The round key after k: its first column from the last one of k, turned and
\* substituted, each other one from its own and the column before.
NextKey[k \in State] == [c \in Byte |->
  LET c0 == [r \in 0 .. 3 |-> sbox[k[12 + ((r + 1) % 4)]] ++ k[r] ++ (IF r = 0 THEN c ELSE 0)]
      After(col, n) == [r \in 0 .. 3 |-> k[4 * n + r] ++ col[r]]
      c1 == After(c0, 1)
      c2 == After(c1, 2)
      cs == <<c0, c1, c2, After(c2, 3)>>
  IN  [b \in Block |-> cs[(b \div 4) + 1][b % 4]]]

\* The eleven round keys.
expandKey(key) ==
  LET ks[n \in 0 .. 10] == IF n = 0 THEN key ELSE NextKey[ks[n - 1]][Rcon[n]]
  IN  [n \in 1 .. 11 |-> ks[n - 1]]

\* Row r of the state is turned left by r columns, or back.
Left(i)  == (i + (4 * (i % 4))) % 16
Right(i) == (i - (4 * (i % 4))) % 16
SubShift(s, k) == [i \in Block |-> sbox[s[Left(i)] ++ k[Left(i)]]]

UnsubShift(s, k) == [i \in Block |-> rsbox[s[Right(i)]] ++ k[i]]

\* Each byte, the double of it and the next one, and its column.
MixColumns[s \in State] ==
  LET At(i, r) == s[4 * (i \div 4) + (r % 4)] IN
  [i \in Block |-> s[i] ++ galois_mul2(s[i] ++ At(i, (i % 4) + 1))
                   ++ At(i, 0) ++ At(i, 1) ++ At(i, 2) ++ At(i, 3)]

\* "Barreto": what is added before MixColumns to undo one.
Barreto[s \in State] ==
  LET Other(i) == 4 * (i \div 4) + ((i + 2) % 4)
  IN  [i \in Block |-> s[i] ++ galois_mul2(galois_mul2(s[i] ++ s[Other(i)]))]

\* Nine rounds with MixColumns and the tenth without; and the reverse.
aes_encr(state, ks) ==
  LET round[n \in 0 .. 9] ==
        IF n = 0 THEN state ELSE MixColumns[SubShift(round[n - 1], ks[n])]
  IN  AddRoundKey(SubShift(round[9], ks[10]), ks[11])

aes_decr(state, ks) ==
  LET round[n \in 0 .. 9] ==
        IF n = 0 THEN UnsubShift(AddRoundKey(state, ks[11]), ks[10])
        ELSE UnsubShift(MixColumns[Barreto[round[n - 1]]], ks[10 - n])
  IN  round[9]

aes_encrypt(state, key) == aes_encr(state, expandKey(key))
aes_decrypt(state, key) == aes_decr(state, expandKey(key))
===============================================================================
