----------------------------- MODULE MCTapcpRead ----------------------------
(***************************************************************************)
(* Model-checking harness for TapcpRead: small address spaces with         *)
(* distinct contents, a three-entry catalog, and every request the open    *)
(* helpers can produce inside them.  Block is far smaller than the 512     *)
(* bytes lwIP asks for, so that hexdump and listing lines (19 to 46        *)
(* characters) straddle block boundaries at every possible position.       *)
(***************************************************************************)
EXTENDS TapcpRead, MCTapcpData, FiniteSets

MCAllRequests     == RequestsOf(Codecs)
MCRefineRequests  == RequestsOf({"help", "listdev_ascii", "mem_bytes_binary", "fpga_words_binary"})
MCFpgaAsciiRequests == RequestsOf({"fpga_words_ascii"})
MCMemAsciiRequests  == RequestsOf({"mem_bytes_ascii"})

\* Builds whose unaligned loads read the addressed byte, and every build.
MCUnalignedLoads == {"unaligned"}
MCAllLoadModes   == {"unaligned", "aligned"}

\* Every leftover, or only the statics as boot leaves them.
MCAllStatics  == Leftovers
MCBootStatics == {[lb |-> <<LF>>, word |-> WordOfInt(0), csl |-> 1]}

-----------------------------------------------------------------------------
(* Reference contents of each file, from the wire formats the source's     *)
(* header comment and spec describe.                                       *)

FpgaWordsOf(q) == [i \in 1 .. q.n \div 4 |-> MCFpgaMem[q.base \div 4 + i - 1]]
CpuBytesOf(q)  == [i \in 1 .. q.n |-> MCCpuMem[q.base + i - 1]]

Listing == FlattenSeq([i \in 1 .. Len(MCCatalog) |-> ListLine(MCCatalog[i])])

Expected(q) ==
  CASE q.codec = "help"              -> MCHelpMsg
    [] q.codec = "listdev_ascii"     -> Listing
    [] q.codec = "mem_bytes_binary"  -> CpuBytesOf(q)
    [] q.codec = "fpga_words_binary" -> FlattenSeq([i \in 1 .. q.n \div 4 |-> BytesOf(FpgaWordsOf(q)[i])])
    [] q.codec = "fpga_words_ascii"  -> Hexdump([i \in 1 .. q.n \div 4 |-> DigitsOf(FpgaWordsOf(q)[i])])
    [] q.codec = "mem_bytes_ascii"   ->
         Hexdump([g \in 1 .. q.n \div 4 |->
                    FlattenSeq([i \in 1 .. 4 |-> LET b == CpuBytesOf(q)[4 * g - 4 + i]
                                                 IN  <<Digit(b \div 16), Digit(b % 16)>>])])

-----------------------------------------------------------------------------
TypeOK ==
  /\ req \in AllRequests
  /\ state.codec \in Codecs
  /\ state.nleft \in 0 .. req.n
  /\ state.lidx \in -1 .. Len(line_buf)
  /\ line_buf \in Seq(STRING)
  /\ word \in Word
  /\ IF state.codec \in {"mem_bytes_binary", "fpga_words_binary"}
       THEN out \in Seq(Byte) ELSE out \in Seq(STRING)
  /\ done \in BOOLEAN

(* The FPGA codecs only ever load words inside the requested range:      *)
(* reading an FPGA register can have side effects, so a codec that        *)
(* fetched one word too many (for instance by not stopping when nleft     *)
(* reaches 0 in the middle of a hexdump line) would act on hardware the    *)
(* client never named.                                                     *)
ReadsWithinRequest == touched \subseteq req.base .. req.base + req.n - 1

(* Every complete line of a CPU hexdump shows, after its label, the bytes *)
(* of CPU memory from the requested address on, in order: the data digits *)
(* of the lines sent so far, spacing aside, are a prefix of the requested  *)
(* bytes' digits.  The bytes come from 32-bit loads at unaligned addresses  *)
(* (u8_to_hex(*(uint32_t *)state->ptr++, ...)), so this depends on how     *)
(* the build performs them.                                                *)
RECURSIVE LinesOf(_)
LinesOf(d) ==
  LET k == SelectInSeq(d, LAMBDA c : c = LF)
  IN  IF k = 0 THEN <<>> ELSE <<SubSeq(d, 1, k - 1)>> \o LinesOf(SubSeq(d, k + 1, Len(d)))
SentLines == LinesOf(out)
LineData(l) == SelectSeq(SubSeq(l, 11, Len(l)), LAMBDA c : c # SP)
ByteDigits(q) == FlattenSeq([i \in 1 .. q.n |-> LET b == CpuBytesOf(q)[i]
                                                IN  <<Digit(b \div 16), Digit(b % 16)>>])
DumpShowsMemory ==
  req.codec = "mem_bytes_ascii" =>
    IsPrefix(FlattenSeq([i \in DOMAIN SentLines |-> LineData(SentLines[i])]), ByteDigits(req))

(* Whatever the catalog holds, read_listdev_ascii's line fits line_buf,  *)
(* which it fills with no length check: an entry with the longest name     *)
(* the buffer's comment allows (255 characters), the offset, length and    *)
(* type that print the most digits, and either mode bit, gives a line of   *)
(* at most sizeof(line_buf) bytes, as is the line line_buf holds now.      *)
WidestEntries ==
  [name : {[i \in 1 .. 255 |-> "a"]},
   off  : {WordOfInt(0), WordOfInt(1), [i \in 1 .. 8 |-> 15]},
   len  : {WordOfInt(0), [i \in 1 .. 8 |-> 15]},
   type : {0, 15, 255}]
ListingFitsLineBuf ==
  \A l \in {line_buf} \cup {ListLine(e) : e \in WidestEntries} : Len(l) <= LineBufLen

(* The client receives exactly the requested file, in full blocks and one  *)
(* final short block: the chunked callbacks refine GetTransfer.            *)
GT == INSTANCE GetTransfer WITH stream <- Expected(req)
GetRefines == GT!Spec
=============================================================================
