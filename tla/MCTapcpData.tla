---------------------------- MODULE MCTapcpData -----------------------------
(***************************************************************************)
(* The address spaces, help text and catalog the read harnesses share:     *)
(* distinct contents everywhere, so that a byte or word sent from the      *)
(* wrong place shows in the output.                                        *)
(***************************************************************************)
EXTENDS Integers, Sequences, SequencesExt, HexCodec

FpgaWords == 9                                   \* three hexdump lines
CpuBytes  == 40                                  \* three hexdump lines

MCHelpMsg == <<"h", "e", "l", "p", LF, SP, SP, "/", "h", LF>>
MCFpgaMem == [i \in 0 .. FpgaWords - 1 |-> WordOfInt(16843009 * i + 1)]
MCCpuMem  == [a \in 0 .. CpuBytes - 1 |-> (a * 37 + 5) % 256]
MCCatalog ==
  << [name |-> <<"a">>,      off |-> WordOfInt(256),    len |-> WordOfInt(32), type |-> 5],
     [name |-> <<"b", "c">>, off |-> WordOfInt(513),    len |-> WordOfInt(16), type |-> 6],
     [name |-> <<"d", "e", "v", "_", "r", "e", "g", "s">>,
                               off |-> WordOfInt(126979), len |-> WordOfInt(4),  type |-> 0] >>

\* Every request the open helpers produce within these spaces: byte offsets
\* aligned down and lengths aligned up to whole words.
AllRequests ==
  { [codec |-> "help", base |-> 1, n |-> Len(MCHelpMsg)],
    [codec |-> "listdev_ascii", base |-> 0, n |-> 0] }
  \cup { [codec |-> c, base |-> 4 * b, n |-> 4 * n] :
           c \in {"fpga_words_binary", "fpga_words_ascii"},
           b \in 0 .. FpgaWords - 1, n \in 1 .. FpgaWords }
  \cup { [codec |-> c, base |-> 4 * b, n |-> 4 * n] :
           c \in {"mem_bytes_binary", "mem_bytes_ascii"},
           b \in 0 .. CpuBytes \div 4 - 1, n \in 1 .. CpuBytes \div 4 }

InSpace(q) ==
  CASE q.codec \in {"fpga_words_binary", "fpga_words_ascii"} -> q.base + q.n <= 4 * FpgaWords
    [] q.codec \in {"mem_bytes_binary", "mem_bytes_ascii"}   -> q.base + q.n <= CpuBytes
    [] OTHER                                               -> TRUE

(* The netascii read format of the header comment ("## Read Formats").   *)
\* Hexdump: 8-digit label counting from 0 by 16, ": ", groups of four bytes
\* separated by single spaces, four groups per line, LF.
Hexdump(groups) ==
  LET nlines == (Len(groups) + 3) \div 4
      line(j) == LET gs == SubSeq(groups, 4 * j - 3, IF 4 * j < Len(groups) THEN 4 * j ELSE Len(groups))
                 IN  DigitsOf(WordOfInt(16 * (j - 1))) \o <<COLON, SP>>
                     \o FlattenSeq([i \in 1 .. Len(gs) |-> (IF i > 1 THEN <<SP>> ELSE <<>>) \o gs[i]])
                     \o <<LF>>
  IN  FlattenSeq([j \in 1 .. nlines |-> line(j)])

RequestsOf(cs) == {q \in AllRequests : q.codec \in cs /\ InSpace(q)}
====
