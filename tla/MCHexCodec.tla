----------------------------- MODULE MCHexCodec -----------------------------
(***************************************************************************)
(* Checks the pure helpers against reference definitions: the hex          *)
(* conversions for every word whose nibbles are drawn from TestNibbles,    *)
(* and the reading of OFFSET and LENGTH for file-name texts built from the *)
(* filename grammar of spec §4.G (`hex` is 1 to 8 hex digits) and for      *)
(* texts outside it.  The state is the input under test.                    *)
(***************************************************************************)
EXTENDS TapcpName

CONSTANT TestNibbles
ASSUME TestNibbles \subseteq Nibble /\ 0 \in TestNibbles

TestWords == [1 .. 8 -> TestNibbles]

\* Hex fields of the grammar: one digit, two digits of both cases, eight.
HexFields == {<<"1">>, <<"a", "1">>, <<"F", "0">>, [i \in 1 .. 8 |-> "f"]}

\* OFF[.LEN] as the grammar writes it; len = <<>> when absent.
GrammarFields == [off : HexFields, len : HexFields \cup {<<>>}]
TextOf(r) == IF r.len = <<>> THEN r.off ELSE r.off \o <<".">> \o r.len

\* Texts the grammar does not produce: a non-hex field, a dot with nothing
\* after it, nine digits, a separator other than a dot, no offset before
\* the dot, a third field.
Malformed ==
  { <<"x">>, <<"1", ".">>, [i \in 1 .. 9 |-> "1"], <<"1", "x", "2">>,
    <<".", "1">>, <<"1", ".", "1", ".", "1">> }

\* <<>>: a /dev name without a dot, or with nothing after it.
TestTexts == {<<>>} \cup {TextOf(r) : r \in GrammarFields} \cup Malformed

VARIABLES
  w,   \* the word under test
  t    \* the field text under test

\* One input at a time: a word (with the empty text) or a text.
Inputs == {[w |-> x, t |-> <<>>] : x \in TestWords} \cup {[w |-> Zero, t |-> x] : x \in TestTexts}

Init == \E i \in Inputs : w = i.w /\ t = i.t
Next == \E i \in Inputs : w' = i.w /\ t' = i.t
Spec == Init /\ [][Next]_<<w, t>>

\* Reference: the 8-digit form is the word itself; the minimal form drops
\* leading zeros but keeps at least one digit.
FirstSignificant(x) ==
  IF \E i \in 1 .. 8 : x[i] # 0 THEN CHOOSE i \in 1 .. 8 : x[i] # 0 /\ \A j \in 1 .. i - 1 : x[j] = 0
                                 ELSE 8
MinimalHex(x) == SubSeq(x, FirstSignificant(x), 8)

\* Reference: the value of 1 to 8 hex digits, right-aligned in a word.
Denoted(ds) == [j \in 1 .. 8 |-> IF j > 8 - Len(ds) THEN XVal[ds[j - 8 + Len(ds)]] ELSE 0]

(* u32_to_hex renders a word as exactly eight digits when do_zeros is set  *)
(* (hexdump labels and FPGA words) and with leading zeros suppressed, but  *)
(* never as the empty string, when it is clear (/listdev offsets, lengths  *)
(* and types).                                                             *)
RenderMatchesReference ==
  /\ u32_to_hex(w, TRUE) = DigitsOf(w)
  /\ u32_to_hex(w, FALSE) = DigitsOf(MinimalHex(w))

(* hex_to_u32 applied to what u32_to_hex emitted, followed by a separator, *)
(* gives back the word in both forms and stops at the separator: a text    *)
(* read is valid text-write input.                                         *)
ParseInvertsRender ==
  \A z \in BOOLEAN :
    LET r == hex_to_u32(u32_to_hex(w, z) \o <<SP>>, 1, WordOfInt(5))
    IN  r.val = w /\ r.next = Len(u32_to_hex(w, z)) + 1

(* A file name written by the grammar opens with the OFFSET and LENGTH it  *)
(* denotes: open_dev and open_mem read OFF, skip the dot, read LEN; on a   *)
(* put LEN is ignored; an absent LEN is 0 for /dev (to the end of the      *)
(* device) and 1 for /fpga and /cpu; a /dev name without OFF reads from 0. *)
GrammarFieldsParsed ==
  /\ t = <<>> => \A wr \in BOOLEAN : DevFields(t, wr) = [off |-> Zero, len |-> Zero]
  /\ \A r \in GrammarFields, wr \in BOOLEAN :
       TextOf(r) = t =>
         LET len(dflt) == IF wr \/ r.len = <<>> THEN dflt ELSE Denoted(r.len)
         IN  /\ DevFields(t, wr) = [off |-> Denoted(r.off), len |-> len(Zero)]
             /\ MemFields(t, wr) = {[off |-> Denoted(r.off), len |-> len(One)]}

(* Spec §7: a malformed offset or length fails the open.  For /fpga. and   *)
(* /cpu. names outside the grammar, open_mem's field reading must give no  *)
(* fields.                                                                 *)
MalformedRejected ==
  t \in Malformed => MemFields(t, FALSE) = {}
=============================================================================
