---------------------------- MODULE MCTapcpWrite ----------------------------
(***************************************************************************)
(* Model-checking harness for TapcpWrite.  Files are built from a few      *)
(* kinds of line (text) or from two byte values (binary); packet sizes     *)
(* from 1 byte to larger than any file put every packet boundary at every  *)
(* position of every line and word; the bounds are those open can set      *)
(* (negative: unbounded).  line_buf is scaled down to LineBufSize.         *)
(***************************************************************************)
EXTENDS TapcpWrite, MCTapcpData, FiniteSets

MCBlockSizes == {1, 2, 3, 4, 5, 64}
MCBounds     == {-4, 0, 4, 8}

\* Kinds of text line.
Lbl       == <<"a", COLON>>
L_word    == Lbl \o <<"1", LF>>                              \* a: 1
L_two     == Lbl \o <<SP, "1", SP, "a", LF>>                 \* a: 1 a
L_comment == <<SP>> \o Lbl \o <<"1", NONHEX, LF>>            \*  a:1x
L_blank   == <<LF>>
L_run     == Lbl \o [i \in 1 .. 9 |-> "1"] \o <<LF>>         \* 9 digits: two words
L_long    == Lbl \o [i \in 1 .. LineBufSize |-> "1"] \o <<LF>> \* longer than line_buf
L_bare    == <<"1", "a", LF>>                                \* no label
L_bare2   == <<SP, "1", SP, "1", LF>>                        \* no label
L_label   == Lbl \o <<LF>>                                   \* label only
L_crlf    == Lbl \o <<"1", CR, LF>>                          \* netascii line end

TextFiles(kinds) ==
  {FlattenSeq(ls) : ls \in BoundedSeq(kinds, 3) \ {<<>>}}

Text(kinds)  == [codec : {"write_fpga_words_ascii"}, data : TextFiles(kinds), bound : MCBounds]
Binary       == [codec : {"write_fpga_words_binary"}, data : BoundedSeq({1, 171}, 9),
                 bound : MCBounds]

\* Files a netascii read produces: the hexdump of one word, and of five
\* words on two lines, the first of which needs 36 bytes of line_buf.
DumpWords == {<<WordOfInt(31)>>,
              <<WordOfInt(31), <<10, 11, 12, 13, 14, 15, 0, 1>>, WordOfInt(0),
                <<8, 0, 0, 0, 0, 0, 0, 0>>, WordOfInt(305419896)>>}
Dump(ws)  == Hexdump([i \in DOMAIN ws |-> DigitsOf(ws[i])])
DumpOf    == [ws \in DumpWords |-> Dump(ws)]
DumpPuts  == [codec : {"write_fpga_words_ascii"}, data : {DumpOf[ws] : ws \in DumpWords},
              bound : MCBounds]

\* A line longer than line_buf, alone, before and after a short one.
LongPuts  == [codec : {"write_fpga_words_ascii"},
              data : {L_long, L_word \o L_long, L_long \o L_word}, bound : MCBounds]

\* The hexdump format reads produce, with comments and blank lines.
MCPassPuts      == Binary \cup DumpPuts \cup LongPuts
                   \cup Text({L_word, L_two, L_comment, L_blank, L_run, L_crlf})
\* Lines without labels, as the header comment allows.
MCBarePuts      == [codec : {"write_fpga_words_ascii"}, data : TextFiles({L_bare, L_bare2}),
                    bound : {-4}]
\* Label-only lines among labelled ones.
MCLabelOnlyPuts == [codec : {"write_fpga_words_ascii"}, data : TextFiles({L_word, L_label}),
                    bound : {-4}]

-----------------------------------------------------------------------------
(* The words a file stands for, from the format rules in the header        *)
(* comment of casper_tapcp.c ("## Write Formats") and spec §4.F.           *)

IsLF(c)    == c = LF
IsColon(c) == c = COLON

\* The LF-terminated lines of a text file; an unterminated tail is no line.
RECURSIVE Lines(_)
Lines(d) ==
  LET k == SelectInSeq(d, IsLF)
  IN  IF k = 0 THEN <<>> ELSE <<SubSeq(d, 1, k - 1)>> \o Lines(SubSeq(d, k + 1, Len(d)))

\* Rule 2: everything up to the first colon is a label.
Body(l) == SubSeq(l, SelectInSeq(l, IsColon) + 1, Len(l))

\* A group of at most 8 digits, right-aligned in a word.
WordOfDigits(ds) == [j \in 1 .. 8 |-> IF j > 8 - Len(ds) THEN XVal[ds[j - 8 + Len(ds)]] ELSE 0]

\* Rules 3-5: white space separates groups, each group is a run of 8-digit
\* values with a shorter last one, and the first other character ends the line.
RECURSIVE Words(_)
Words(b) ==
  IF b = <<>> THEN <<>>
  ELSE IF IsSpace(Head(b)) THEN Words(Tail(b))
  ELSE IF ~IsXDigit(Head(b)) THEN <<>>
  ELSE LET m == SelectInSeq(b, LAMBDA c : ~IsXDigit(c))
           n == IF m = 0 THEN Len(b) ELSE m - 1
           k == IF n < 8 THEN n ELSE 8
       IN  <<WordOfDigits(SubSeq(b, 1, k))>> \o Words(SubSeq(b, k + 1, Len(b)))

TextWords(d) == LET ls == Lines(d) IN FlattenSeq([i \in DOMAIN ls |-> Words(Body(ls[i]))])

\* Binary: whole words, most significant byte first; a partial last word is
\* not written (spec §4.F(1)).
BinaryWords(d) ==
  [k \in 1 .. Len(d) \div 4 |->
     FlattenSeq([j \in 1 .. 4 |-> <<d[4 * k - 4 + j] \div 16, d[4 * k - 4 + j] % 16>>])]

WordsOfPut(p) == IF p.codec = "write_fpga_words_binary" THEN BinaryWords(p.data)
                                                         ELSE TextWords(p.data)

\* Characters of a line that reach line_buf: leading space is skipped.
RECURSIVE StripLead(_)
StripLead(l) == IF l # <<>> /\ IsSpace(Head(l)) THEN StripLead(Tail(l)) ELSE l

\* A line that does not fit in line_buf: its label (buffered until the
\* colon arrives, which is tested at lidx) or its body with the LF.
LineTooLong(l) ==
  LET k == SelectInSeq(l, IsColon)
  IN  \/ k > 0 /\ Len(StripLead(SubSeq(l, 1, k - 1))) >= LineBufSize
      \/ Len(StripLead(Body(l))) + 1 > LineBufSize

\* The put must fail: the bound does not admit the file, or a line is too long.
PutMustFail(p) ==
  \/ /\ p.bound >= 0
     /\ IF p.codec = "write_fpga_words_binary"
          THEN Len(p.data) > p.bound
          ELSE 4 * Len(WordsOfPut(p)) > p.bound
  \/ /\ p.codec = "write_fpga_words_ascii"
     /\ \E i \in DOMAIN Lines(p.data) : LineTooLong(Lines(p.data)[i])

\* Both, once per put (constant-level tables TLC evaluates once).
FileWordsOf == [p \in Puts |-> WordsOfPut(p)]
MustFailOf  == [p \in Puts |-> PutMustFail(p)]
FileWords   == FileWordsOf[put]
MustFail    == MustFailOf[put]

-----------------------------------------------------------------------------
TypeOK ==
  /\ put \in Puts
  /\ sent \in 0 .. Len(put.data)
  /\ state.nleft \in IF put.bound < 0 THEN {put.bound} ELSE 0 .. put.bound
  /\ state.lidx \in Nat
  /\ bword \in Word /\ tword \in Word
  /\ status \in {"open", "done", "failed"}

(* Every FPGA store writes the next word of the client's file at the next  *)
(* address, and a put that completes has written all of them: the words    *)
(* stored do not depend on how the file is cut into packets, nor on how a  *)
(* pbuf boundary splits a word (binary) or a line (text, held in the       *)
(* static line_buf between calls).                                         *)
StoresFollowFile ==
  /\ \A i \in 1 .. Len(stores) :
       i <= Len(FileWords) /\ stores[i] = [addr |-> i - 1, val |-> FileWords[i]]
  /\ status = "done" => Len(stores) = Len(FileWords)

(* A bounded put (nleft >= 0 after open) never stores past its bound: the  *)
(* per-byte nleft == 0 test of the binary codec and the per-word           *)
(* 0 <= nleft < 4 test of the text codec.                                  *)
StoresWithinBound ==
  put.bound >= 0 => 4 * Len(stores) <= put.bound

(* A put fails (the callback returns -1) only when the bound does not      *)
(* admit the file or a line overflows line_buf; an unbounded put of        *)
(* well-formed lines always completes.                                     *)
FailsOnlyWhenRequired ==
  status = "failed" => MustFail

(* The text codec never stores a byte outside line_buf: the lidx >=        *)
(* sizeof(line_buf) check must cover every position plb writes.            *)
NoLineBufOverrun == ~overrun

(* Under the engine's fairness (it hands the callback every data packet    *)
(* the client sends), every put ends, and it ends the way the file and the *)
(* bound require: failed (-1 returned) when the bound does not admit the   *)
(* file or a line overflows line_buf, completed otherwise.  This adds to   *)
(* FailsOnlyWhenRequired the converse: an excess byte, word or line is     *)
(* never accepted silently, whichever packet it arrives in.                *)
PutEndsAsRequired ==
  <>(status = IF MustFail THEN "failed" ELSE "done")
=============================================================================
