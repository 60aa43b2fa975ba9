----------------------------- MODULE TapcpRead ------------------------------
(***************************************************************************)
(* The read callbacks ("get" codecs) of casper_tapcp.c, driven by the TFTP *)
(* engine one block at a time.                                             *)
(*                                                                         *)
(* `state` mirrors struct tapcp_state as the open helpers leave it; the    *)
(* engine calls the registered read callback with a buffer of Block bytes  *)
(* until a call returns fewer bytes, which ends the transfer.  Each action *)
(* is one whole callback invocation.  line_buf, the static `word` of       *)
(* casper_tapcp_read_fpga_words_binary and the catalog iterator are the    *)
(* file's (and csl's) static state, kept across calls.                     *)
(***************************************************************************)
EXTENDS Integers, Sequences, SequencesExt, HexCodec

CONSTANTS
  Block,      \* read size the engine requests (TFTP_MAX_PAYLOAD_SIZE)
  HelpMsg,    \* tapcp_help_msg, without its NUL
  FpgaMem,    \* FPGA address space: word index -> Word
  CpuMem,     \* CPU address space: byte address -> Byte
  Catalog,    \* core_info entries: [name, off, len : Word, type : Byte]
  Requests,   \* the opened transfers to explore (see Init)
  LoadModes,  \* how the build performs an unaligned 32-bit load (see LoadByte)
  Statics     \* the leftover statics to start from, a subset of Leftovers

ASSUME LoadModes \subseteq {"unaligned", "aligned"}

ASSUME Block \in Nat \ {0}

Codecs == {"help", "listdev_ascii", "mem_bytes_binary", "mem_bytes_ascii",
           "fpga_words_binary", "fpga_words_ascii"}

VARIABLES
  req,       \* the opened request: codec, first byte, length (history)
  state,     \* [codec, ptr, nleft, lidx, u32] : struct tapcp_state
  line_buf,  \* static line_buf: the line being sent, up to its LF
  word,      \* static word of casper_tapcp_read_fpga_words_binary
  csl,       \* csl iterator: index of the next catalog entry
  out,       \* bytes the engine has sent to the client (history)
  done,      \* a short block has ended the transfer
  touched,   \* FPGA byte addresses the callbacks have loaded (history)
  loadmode   \* the build's unaligned-load behaviour, fixed for the run

vars == <<req, state, line_buf, word, csl, out, done, touched, loadmode>>

-----------------------------------------------------------------------------
(* Helpers shared by the line-buffered codecs.                             *)

\* The copy loop: send line_buf from lidx up to and including its first LF,
\* at most `room` bytes; lidx returns to 0 once the LF has been sent.
CopyOut(lb, lidx, room) ==
  LET nl == CHOOSE i \in lidx + 1 .. Len(lb) :
              lb[i] = LF /\ \A j \in lidx + 1 .. i - 1 : lb[j] # LF
      k  == IF room < nl - lidx THEN room ELSE nl - lidx
  IN  [k |-> k, sent |-> SubSeq(lb, lidx + 1, lidx + k),
       lidx |-> IF lidx + k = nl THEN 0 ELSE lidx + k]

Label(u32) == u32_to_hex(WordOfInt(u32), TRUE) \o <<COLON, SP>>

\* Send part of the pending line and account for it in the loop record.
Drain(r) ==
  LET c == CopyOut(r.lb, r.st.lidx, Block - Len(r.buf))
  IN  [r EXCEPT !.st.lidx = c.lidx, !.buf = @ \o c.sent]

-----------------------------------------------------------------------------
(* casper_tapcp_read_fpga_words_ascii: a line is built from up to four     *)
(* words, stopping when nleft reaches 0 exactly.                           *)

\* Mutant: always four words per line (the `nleft == 0` break dropped).
FpgaLine4(r) ==
  LET s  == r.st
      at(x) == IF x \in DOMAIN FpgaMem THEN FpgaMem[x] ELSE WordOfInt(0)
      ws == [i \in 1 .. 4 |-> at(s.ptr \div 4 + i - 1)]
  IN  [r EXCEPT
        !.lb = Label(s.u32)
               \o FlattenSeq([i \in 1 .. 4 |->
                    (IF i > 1 THEN <<SP>> ELSE <<>>) \o u32_to_hex(ws[i], TRUE)])
               \o <<LF>>,
        !.st.u32 = s.u32 + 16,
        !.st.ptr = s.ptr + 16,
        !.st.nleft = s.nleft - 16,
        !.touched = @ \cup (s.ptr .. s.ptr + 15)]

FpgaLine(r) ==
  LET s  == r.st
      k  == IF \E i \in 1 .. 4 : s.nleft = 4 * i THEN s.nleft \div 4 ELSE 4
      ws == [i \in 1 .. k |-> FpgaMem[s.ptr \div 4 + i - 1]]
  IN  [r EXCEPT
        !.lb = Label(s.u32)
               \o FlattenSeq([i \in 1 .. k |->
                    (IF i > 1 THEN <<SP>> ELSE <<>>) \o u32_to_hex(ws[i], TRUE)])
               \o <<LF>>,
        !.st.u32 = s.u32 + 16,
        !.st.ptr = s.ptr + 4 * k,
        !.st.nleft = s.nleft - 4 * k,
        !.touched = @ \cup (s.ptr .. s.ptr + 4 * k - 1)]

\* while(len < bytes && state->nleft > 0) { new line if lidx == 0; copy }
FpgaAsciiMore(r) == Len(r.buf) < Block /\ r.st.nleft > 0
FpgaAsciiIter(r) == Drain(IF r.st.lidx = 0 THEN FpgaLine(r) ELSE r)

-----------------------------------------------------------------------------
(* casper_tapcp_read_mem_bytes_ascii: a line is built from up to 16 bytes, *)
(* a space after every fourth byte but the sixteenth, stopping when nleft  *)
(* reaches 0.  CPU loads are not tracked in `touched`.                     *)

\* u8_to_hex(*(uint32_t *)state->ptr++, ...): the low byte of a 32-bit load
\* at a byte address, unaligned for three bytes in four.  Its result is up
\* to the build: a little-endian MicroBlaze that performs the unaligned
\* access (in hardware or in the unaligned-exception handler) yields the
\* byte at a; one built without unaligned exceptions ignores the two low
\* address bits and yields the byte at a & ~3.
\* Mutant: every load ignores the low address bits.
LoadByteAligned(a) == CpuMem[a - (a % 4)]

LoadByte(a) == CpuMem[IF loadmode = "aligned" THEN a - (a % 4) ELSE a]

MemLine(r) ==
  LET s == r.st
      k == IF s.nleft >= 16 THEN 16 ELSE s.nleft
  IN  [r EXCEPT
        !.lb = Label(s.u32)
               \o FlattenSeq([i \in 1 .. k |->
                    u8_to_hex(LoadByte(s.ptr + i - 1), TRUE, TRUE)
                    \o (IF (i - 1) % 4 = 3 /\ i - 1 # 15 THEN <<SP>> ELSE <<>>)])
               \o <<LF>>,
        !.st.u32 = s.u32 + 16,
        !.st.ptr = s.ptr + k,
        !.st.nleft = s.nleft - k]

MemAsciiMore(r) == Len(r.buf) < Block /\ r.st.nleft > 0
MemAsciiIter(r) == Drain(IF r.st.lidx = 0 THEN MemLine(r) ELSE r)

-----------------------------------------------------------------------------
(* casper_tapcp_read_listdev_ascii: lidx = -1 starts the csl iterator;     *)
(* a line NAME TAB MODE TAB OFFSET TAB LENGTH TAB TYPE LF per entry.       *)

ClearLow2(w) == [w EXCEPT ![8] = @ - (@ % 4)]          \* n & ~3

\* sizeof(line_buf): the widest listing line, 255 + 1+1+1 + 8+1 + 8+1 + 2+1.
LineBufLen == 256 + 2 + 9 + 9 + 3

\* Mutant: the type printed with zeros, u32_to_hex(*payload, plb, 1).
ListLinePadType(e) ==
  e.name \o <<TAB, IF e.off[8] % 2 = 1 THEN "1" ELSE "3", TAB>>
  \o u32_to_hex(ClearLow2(e.off), FALSE) \o <<TAB>>
  \o u32_to_hex(e.len, FALSE) \o <<TAB>>
  \o u32_to_hex(WordOfInt(e.type), TRUE) \o <<LF>>

ListLine(e) ==
  e.name \o <<TAB, IF e.off[8] % 2 = 1 THEN "1" ELSE "3", TAB>>
  \o u32_to_hex(ClearLow2(e.off), FALSE) \o <<TAB>>
  \o u32_to_hex(e.len, FALSE) \o <<TAB>>
  \o u32_to_hex(WordOfInt(e.type), FALSE) \o <<LF>>

\* while(len < bytes): at a line start with no next entry, return len.
ListMore(r) == Len(r.buf) < Block /\ ~(r.st.lidx = 0 /\ r.csl > Len(Catalog))
ListIter(r) ==
  Drain(IF r.st.lidx = 0
          THEN [r EXCEPT !.lb = ListLine(Catalog[r.csl]), !.csl = @ + 1]
          ELSE r)

-----------------------------------------------------------------------------
(* casper_tapcp_read_fpga_words_binary: one byte per --nleft; when nleft   *)
(* & 3 is 3 the next word is loaded into the static `word` and ptr moves.  *)

FpgaBinMore(r) == Len(r.buf) < Block /\ r.st.nleft > 0
\* Mutant: the word is loaded on the last byte slot instead of the first.
FpgaBinIterLate(r) ==
  LET n    == r.st.nleft - 1
      load == n % 4 = 0
      w    == IF load THEN FpgaMem[r.st.ptr \div 4] ELSE r.word
  IN  [r EXCEPT
        !.st.nleft = n,
        !.st.ptr = IF load THEN @ + 4 ELSE @,
        !.word = w,
        !.touched = IF load THEN @ \cup (r.st.ptr .. r.st.ptr + 3) ELSE @,
        !.buf = Append(@, ByteOf(w, 3 - (n % 4)))]

FpgaBinIter(r) ==
  LET n    == r.st.nleft - 1
      load == n % 4 = 3
      w    == IF load THEN FpgaMem[r.st.ptr \div 4] ELSE r.word
  IN  [r EXCEPT
        !.st.nleft = n,
        !.st.ptr = IF load THEN @ + 4 ELSE @,
        !.word = w,
        !.touched = IF load THEN @ \cup (r.st.ptr .. r.st.ptr + 3) ELSE @,
        !.buf = Append(@, ByteOf(w, 3 - (n % 4)))]

-----------------------------------------------------------------------------
(* casper_tapcp_read_mem_bytes_binary and casper_tapcp_read_help: copy     *)
(* min(bytes, nleft) bytes from ptr.                                       *)

\* Mutant: copies a whole block without the min() against nleft.
CopyBlock(r, src) ==
  [r EXCEPT !.st.ptr = @ + Block, !.st.nleft = @ - Block,
            !.buf = [i \in 1 .. Block |-> IF r.st.ptr + i - 1 \in DOMAIN src
                                            THEN src[r.st.ptr + i - 1] ELSE src[r.st.ptr]]]

Copy(r, src) ==
  LET k == IF r.st.nleft <= 0 THEN 0
           ELSE IF Block < r.st.nleft THEN Block ELSE r.st.nleft
  IN  [r EXCEPT !.st.ptr = @ + k, !.st.nleft = @ - k,
                !.buf = [i \in 1 .. k |-> src[r.st.ptr + i - 1]]]

-----------------------------------------------------------------------------
(* One read callback.  The loop record carries every variable the handler  *)
(* may change; `buf` is the engine's buffer.                               *)

(* The callback's return: the loop record becomes the next state, and a    *)
(* short block ends the transfer.                                          *)
Return(r) ==
  /\ state' = r.st
  /\ line_buf' = r.lb
  /\ word' = r.word
  /\ csl' = r.csl
  /\ touched' = r.touched
  /\ out' = out \o r.buf
  /\ done' = (Len(r.buf) < Block)

\* Run the handler's loop: iterate Iter while More holds, then return.
\* Each iteration's record is bound by \E so that TLC evaluates it once.
RECURSIVE Run(_, _, _)
Run(More(_), Iter(_), r) ==
  IF More(r) THEN \E n \in {Iter(r)} : Run(More, Iter, n) ELSE Return(r)

NoMore(r) == FALSE     \* a single memcpy: no loop
Same(r)   == r

ReadCallback ==
  /\ ~done
  /\ LET r0 == [st |-> state, lb |-> line_buf, word |-> word, csl |-> csl,
                buf |-> <<>>, touched |-> touched]
     IN  CASE state.codec = "help"              -> Run(NoMore, Same, Copy(r0, HelpMsg))
           [] state.codec = "mem_bytes_binary"  -> Run(NoMore, Same, Copy(r0, CpuMem))
           [] state.codec = "mem_bytes_ascii"   -> Run(MemAsciiMore, MemAsciiIter, r0)
           [] state.codec = "fpga_words_binary" -> Run(FpgaBinMore, FpgaBinIter, r0)
           [] state.codec = "fpga_words_ascii"  -> Run(FpgaAsciiMore, FpgaAsciiIter, r0)
           [] state.codec = "listdev_ascii"     ->
                \* first call: csl_iter_init(), lidx = 0
                Run(ListMore, ListIter,
                    IF state.lidx = -1 THEN [r0 EXCEPT !.st.lidx = 0, !.csl = 1] ELSE r0)
  /\ UNCHANGED <<req, loadmode>>

-----------------------------------------------------------------------------
(* Initial states: the state the open helpers leave for each request.      *)
(* help: ptr = msg, nleft = its length.  listdev: lidx = -1.  mem/fpga:    *)
(* ptr = first byte, nleft = length in bytes, lidx = u32 = 0.              *)

OpenState(q) ==
  [codec |-> q.codec, ptr |-> q.base, nleft |-> q.n,
   lidx  |-> IF q.codec = "listdev_ascii" THEN -1 ELSE 0, u32 |-> 0]

\* The statics as boot or an earlier transfer leaves them: the engine may
\* abandon a transfer (timeout, client abort) mid-line, mid-word or
\* mid-listing without another codec call.
Leftovers ==
  [lb   : {<<LF>>, ListLine(Catalog[1])},
   word : {WordOfInt(0), [i \in 1 .. 8 |-> 15]},
   csl  : {1, Len(Catalog) + 1}]

ASSUME Statics \subseteq Leftovers /\ Statics # {}

Init ==
  /\ req \in Requests
  /\ state = OpenState(req)
  /\ \E l \in Statics : line_buf = l.lb /\ word = l.word /\ csl = l.csl
  /\ out = <<>>
  /\ done = FALSE
  /\ touched = {}
  /\ loadmode \in LoadModes

Next == ReadCallback

\* The engine calls the callback again after every full block it sends
\* (the client acknowledging each block).
Spec == Init /\ [][Next]_vars /\ WF_vars(ReadCallback)
=============================================================================
