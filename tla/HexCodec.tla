------------------------------ MODULE HexCodec ------------------------------
(***************************************************************************)
(* The hex conversion helpers of casper_tapcp.c: hex_to_u32, u8_to_hex and *)
(* u32_to_hex.                                                             *)
(*                                                                         *)
(* Data abstraction.  TLC integers are 32-bit signed, so a uint32_t is     *)
(* represented as the sequence of its eight nibbles, most significant      *)
(* first.  A character is a one-character string; the hexadecimal digits  *)
(* are "0".."9", "A".."F" and "a".."f" (isxdigit), and XVal gives a        *)
(* digit's value.  The emitters only produce upper case.                   *)
(***************************************************************************)
EXTENDS Integers, Sequences

Nibble == 0 .. 15
Byte   == 0 .. 255
Word   == [1 .. 8 -> Nibble]

SP    == " "      \* isspace()
TAB   == "\t"     \* also isspace()
CR    == "\r"     \* also isspace(): netascii ends lines with CR LF
LF    == "\n"     \* also isspace()
COLON == ":"
NONHEX == "x"     \* any character that is neither hex digit nor space

UpperDigits == <<"0","1","2","3","4","5","6","7","8","9","A","B","C","D","E","F">>
LowerDigits == <<"a","b","c","d","e","f">>
XDigits     == {UpperDigits[i] : i \in 1 .. 16} \cup {LowerDigits[i] : i \in 1 .. 6}
Digit(n)    == UpperDigits[n + 1]
XVal        == [c \in XDigits |-> CHOOSE n \in Nibble : Digit(n) = c \/ (n >= 10 /\ LowerDigits[n - 9] = c)]
DigitsOf(w) == [i \in 1 .. Len(w) |-> Digit(w[i])]

IsXDigit(c) == c \in XDigits
IsSpace(c)  == c \in {SP, TAB, CR, LF}

WordOfInt(n)  == [i \in 1 .. 8 |-> (n \div (2 ^ (4 * (8 - i)))) % 16]
ByteOf(w, i)  == 16 * w[2 * i + 1] + w[2 * i + 2]   \* (u32 >> (24 - 8i)) & 0xff
BytesOf(w)    == [i \in 1 .. 4 |-> ByteOf(w, i - 1)]

(***************************************************************************)
(* hex_to_u32(p, &u32): if p is non-empty, zero u32 and shift in up to 8   *)
(* hex digits; stop at the first non-digit.  Returns the position after    *)
(* the digits consumed and the value; an empty input leaves u32 unchanged. *)
(* `s` is the text from p to the terminating NUL, `i` the 1-based p.       *)
(***************************************************************************)
\* Mutant: stops after 7 digits (off-by-one in the loop bound).
RECURSIVE ShiftIn7(_, _, _, _)
ShiftIn7(s, i, u32, k) ==
  IF k = 7 \/ i > Len(s) \/ ~IsXDigit(s[i])
    THEN [next |-> i, val |-> u32]
    ELSE ShiftIn7(s, i + 1, Append(Tail(u32), XVal[s[i]]), k + 1)

RECURSIVE ShiftIn(_, _, _, _)
ShiftIn(s, i, u32, k) ==
  IF k = 8 \/ i > Len(s) \/ ~IsXDigit(s[i])
    THEN [next |-> i, val |-> u32]
    ELSE ShiftIn(s, i + 1, Append(Tail(u32), XVal[s[i]]), k + 1)

hex_to_u32(s, i, u32) ==
  IF i <= Len(s) THEN ShiftIn(s, i, WordOfInt(0), 0)
                 ELSE [next |-> i, val |-> u32]

(***************************************************************************)
(* u8_to_hex(u8, p, do_zeros): the high digit is emitted if non-zero or    *)
(* (do_zeros >> 4); the low digit if non-zero, or (do_zeros & 0xf), or the *)
(* high digit was non-zero (do_zeros |= c).  do_zeros is given as its two  *)
(* nibble flags.                                                           *)
(***************************************************************************)
\* Mutant: the low digit ignores a non-zero high digit (do_zeros |= c dropped).
u8_to_hex_nohi(u8, lead, trail) ==
  LET hi == u8 \div 16
      lo == u8 % 16
  IN  (IF hi # 0 \/ lead THEN <<Digit(hi)>> ELSE <<>>)
      \o (IF lo # 0 \/ trail THEN <<Digit(lo)>> ELSE <<>>)

u8_to_hex(u8, lead, trail) ==
  LET hi == u8 \div 16
      lo == u8 % 16
  IN  (IF hi # 0 \/ lead THEN <<Digit(hi)>> ELSE <<>>)
      \o (IF lo # 0 \/ trail \/ hi # 0 THEN <<Digit(lo)>> ELSE <<>>)

(***************************************************************************)
(* u32_to_hex(u32, p, do_zeros): byte i is emitted with flags 0x11 once    *)
(* do_zeros is set (initially, or by an earlier non-zero byte), with flags *)
(* 0x01 for the last byte otherwise, and with 0x00 before that.            *)
(***************************************************************************)
RECURSIVE U32Bytes(_, _, _)
U32Bytes(w, i, zeros) ==
  IF i = 4 THEN <<>>
  ELSE LET c == ByteOf(w, i)
       IN  u8_to_hex(c, zeros, zeros \/ i = 3) \o U32Bytes(w, i + 1, zeros \/ c # 0)

u32_to_hex(w, do_zeros) == U32Bytes(w, 0, do_zeros)

=============================================================================
