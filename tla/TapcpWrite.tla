----------------------------- MODULE TapcpWrite -----------------------------
(***************************************************************************)
(* The write callbacks ("put" codecs) of casper_tapcp.c:                   *)
(* casper_tapcp_write_fpga_words_binary and _ascii, driven by the TFTP     *)
(* engine one data packet at a time.                                       *)
(*                                                                         *)
(* The client's file arrives in packets of `block` bytes, and the transfer *)
(* ends with the first shorter (possibly empty) packet, as in TFTP.  A     *)
(* packet's pbuf chain is consumed byte by byte in order, which is all the *)
(* chain walk does, so a packet is a flat byte sequence here.  Each action *)
(* is one whole callback invocation; a callback returning -1 fails the     *)
(* transfer.                                                               *)
(*                                                                         *)
(* FPGA stores are recorded in order as [addr, val], addr counting words   *)
(* from the transfer's first (state->ptr as set by open).                  *)
(***************************************************************************)
EXTENDS Integers, Sequences, SequencesExt, HexCodec

CONSTANTS
  LineBufSize,  \* sizeof(line_buf)
  BlockSizes,   \* data packet sizes the engine may use (512 on the target)
  Puts          \* [codec, data, bound]: the put, the file, and the nleft open set

WriteCodecs == {"write_fpga_words_binary", "write_fpga_words_ascii"}

VARIABLES
  put,       \* the request: codec, the client's file, initial nleft (history)
  block,     \* the engine's packet size for this transfer
  sent,      \* bytes of put.data delivered so far
  state,     \* [ptr, nleft, lidx, u32] : struct tapcp_state
  line_buf,  \* static line_buf; line_buf[i] is the C line_buf[i - 1]
  bword,     \* static word of casper_tapcp_write_fpga_words_binary
  tword,     \* static word of casper_tapcp_write_fpga_words_ascii
  stores,    \* FPGA word stores performed, in order (history)
  overrun,   \* a byte was stored at or past line_buf + sizeof(line_buf)
  status     \* "open", "done" (short packet taken) or "failed" (-1 returned)

vars == <<put, block, sent, state, line_buf, bword, tword, stores, overrun, status>>

\* The next packet: up to `block` bytes after those already delivered.
Packet == SubSeq(put.data, sent + 1,
                 IF sent + block < Len(put.data) THEN sent + block ELSE Len(put.data))

\* Mutant: the `nleft > 0` guard dropped.
ConsumeAlways(nleft, k) == nleft - k

\* if(state->nleft > 0) state->nleft -= k
Consume(nleft, k) == IF nleft > 0 THEN nleft - k ELSE nleft

\* One FPGA store: *(uint32_t *)state->ptr = w; state->ptr += 4
Store(r, w) ==
  [r EXCEPT !.stores = Append(@, [addr |-> r.st.ptr, val |-> w]), !.st.ptr = @ + 1]

-----------------------------------------------------------------------------
(* casper_tapcp_write_fpga_words_binary, for one byte b: fail if the bound *)
(* is used up, shift b into the static word, store it after every fourth   *)
(* byte of the transfer (state->u32 counts them).                          *)

\* Mutant: `nleft <= 0` for `nleft == 0`, so "unbounded" counts as used up.
BinByteLE(r, b) ==
  IF r.st.nleft <= 0 THEN [r EXCEPT !.err = TRUE]
  ELSE LET w == Append(Append(Tail(Tail(r.word)), b \div 16), b % 16)
           n == r.st.u32 + 1
           s == [r EXCEPT !.word = w, !.st.u32 = n, !.st.nleft = Consume(@, 1)]
       IN  IF n % 4 = 0 THEN Store(s, w) ELSE s

\* Mutant: the bound test dropped.
BinByteNoBound(r, b) ==
  LET w == Append(Append(Tail(Tail(r.word)), b \div 16), b % 16)
      n == r.st.u32 + 1
      s == [r EXCEPT !.word = w, !.st.u32 = n, !.st.nleft = Consume(@, 1)]
  IN  IF n % 4 = 0 THEN Store(s, w) ELSE s

BinByte(r, b) ==
  IF r.st.nleft = 0 THEN [r EXCEPT !.err = TRUE]
  ELSE LET w == Append(Append(Tail(Tail(r.word)), b \div 16), b % 16)   \* word <<= 8; word |= b
           n == r.st.u32 + 1
           s == [r EXCEPT !.word = w, !.st.u32 = n, !.st.nleft = Consume(@, 1)]
       IN  IF n % 4 = 0 THEN Store(s, w) ELSE s

-----------------------------------------------------------------------------
(* casper_tapcp_write_fpga_words_ascii.  plb is the local write pointer    *)
(* into line_buf: line_buf + lidx on entry, reset by a label colon, and    *)
(* left wherever the parse of a line stopped.                              *)

\* *plb++ = c; state->lidx++
StoreChar(r, c) ==
  [r EXCEPT !.lb = IF r.plb < Len(@) THEN [@ EXCEPT ![r.plb + 1] = c] ELSE Append(@, c),
            !.overrun = @ \/ r.plb >= LineBufSize,
            !.plb = @ + 1,
            !.st.lidx = @ + 1]

\* Process the buffered line from line_buf[0] up to its first LF: skip
\* white space, stop at a character that is neither space nor hex digit,
\* and store every word hex_to_u32 parses, failing when a bound is set and
\* fewer than 4 bytes of it are left.  plb is left where the walk stopped.
\* The loop record and position are bound as the arguments of a function
\* so that TLC evaluates each once (an operator argument is re-evaluated at
\* every use when TLC checks fairness).
\* Mutant: the bound test misses nleft == 0 (`0 < nleft`).
RECURSIVE ParseLineNoZero(_, _)
ParseLineNoZero(r0, p0) ==
  LET at[r \in {r0}, p \in {p0}] ==
        LET c == r.lb[p + 1] IN
        IF c = LF THEN [r EXCEPT !.plb = p]
        ELSE IF IsSpace(c) THEN ParseLineNoZero(r, p + 1)
        ELSE IF ~IsXDigit(c) THEN [r EXCEPT !.plb = p]
        ELSE IF 0 < r.st.nleft /\ r.st.nleft < 4 THEN [r EXCEPT !.err = TRUE]
        ELSE LET h == hex_to_u32(r.lb, p + 1, r.word)
             IN  ParseLineNoZero([Store(r, h.val) EXCEPT !.word = h.val,
                                                         !.st.nleft = Consume(@, 4)],
                                 h.next - 1)
  IN  at[r0, p0]

RECURSIVE ParseLine(_, _)
ParseLine(r0, p0) ==
  LET at[r \in {r0}, p \in {p0}] ==
        LET c == r.lb[p + 1] IN
        IF c = LF THEN [r EXCEPT !.plb = p]                      \* end of line
        ELSE IF IsSpace(c) THEN ParseLine(r, p + 1)
        ELSE IF ~IsXDigit(c) THEN [r EXCEPT !.plb = p]           \* rest ignored
        ELSE IF 0 <= r.st.nleft /\ r.st.nleft < 4 THEN [r EXCEPT !.err = TRUE]
        ELSE LET h == hex_to_u32(r.lb, p + 1, r.word)
             IN  ParseLine([Store(r, h.val) EXCEPT !.word = h.val,
                                                   !.st.nleft = Consume(@, 4)],
                           h.next - 1)
  IN  at[r0, p0]

\* Mutant: the colon flag is not cleared after a line.
TextCharKeepFlag(r, c) ==
  IF r.st.lidx >= LineBufSize THEN [r EXCEPT !.err = TRUE]
  ELSE IF r.st.lidx = 0 /\ IsSpace(c) THEN r
  ELSE IF c = COLON /\ r.st.u32 = 0
    THEN [r EXCEPT !.plb = 0, !.st.lidx = 0, !.st.u32 = 1]
  ELSE IF c = LF
    THEN LET q == ParseLine(StoreChar(r, c), 0)
         IN  IF q.err THEN q ELSE [q EXCEPT !.st.lidx = 0]
  ELSE StoreChar(r, c)

\* Mutant: the line_buf check is `lidx > sizeof(line_buf)`.
TextCharGT(r, c) ==
  IF r.st.lidx > LineBufSize THEN [r EXCEPT !.err = TRUE]
  ELSE IF r.st.lidx = 0 /\ IsSpace(c) THEN r
  ELSE IF c = COLON /\ r.st.u32 = 0
    THEN [r EXCEPT !.plb = 0, !.st.lidx = 0, !.st.u32 = 1]
  ELSE IF c = LF
    THEN LET q == ParseLine(StoreChar(r, c), 0)
         IN  IF q.err THEN q ELSE [q EXCEPT !.st.lidx = 0, !.st.u32 = 0]
  ELSE StoreChar(r, c)

\* The body of the per-byte loop for one character c.
TextChar(r, c) ==
  IF r.st.lidx >= LineBufSize THEN [r EXCEPT !.err = TRUE]    \* line_buf full
  ELSE IF r.st.lidx = 0 /\ IsSpace(c) THEN r                    \* leading space
  ELSE IF c = COLON /\ r.st.u32 = 0                             \* label ends
    THEN [r EXCEPT !.plb = 0, !.st.lidx = 0, !.st.u32 = 1]
  ELSE IF c = LF
    THEN LET q == ParseLine(StoreChar(r, c), 0)
         IN  IF q.err THEN q ELSE [q EXCEPT !.st.lidx = 0, !.st.u32 = 0]
  ELSE StoreChar(r, c)

-----------------------------------------------------------------------------
(* One write callback: the loop over the packet's bytes, stopping at the   *)
(* first error.  Each iteration's record is bound by \E so that TLC        *)
(* evaluates it once.                                                      *)

RECURSIVE Loop(_, _)
Loop(Step(_, _), r) ==
  IF ~r.err /\ r.i <= Len(r.pkt)
    THEN \E n \in {[Step(r, r.pkt[r.i]) EXCEPT !.i = @ + 1]} : Loop(Step, n)
    ELSE /\ state' = r.st
         /\ line_buf' = r.lb
         /\ stores' = r.stores
         /\ overrun' = r.overrun
         /\ sent' = sent + Len(r.pkt)
         /\ bword' = IF put.codec = "write_fpga_words_binary" THEN r.word ELSE bword
         /\ tword' = IF put.codec = "write_fpga_words_ascii" THEN r.word ELSE tword
         /\ status' = CASE r.err                -> "failed"   \* return -1
                        [] Len(r.pkt) < block   -> "done"     \* last packet
                        [] OTHER                -> "open"

WriteCallback ==
  /\ status = "open"
  /\ LET bin == put.codec = "write_fpga_words_binary"
         r0  == [st |-> state, lb |-> line_buf, plb |-> state.lidx, stores |-> stores,
                 word |-> IF bin THEN bword ELSE tword,
                 overrun |-> overrun, err |-> FALSE, pkt |-> Packet, i |-> 1]
     IN  IF bin THEN Loop(BinByte, r0) ELSE Loop(TextChar, r0)
  /\ UNCHANGED <<put, block>>

-----------------------------------------------------------------------------
(* Initial states: the state casper_tapcp_open_dev / _open_mem leave for a *)
(* put (ptr at the first word, nleft the bound, lidx = u32 = 0) and the    *)
(* statics as an earlier transfer may have left them.                      *)

Init ==
  /\ put \in Puts
  /\ block \in BlockSizes
  /\ sent = 0
  /\ state = [ptr |-> 0, nleft |-> put.bound, lidx |-> 0, u32 |-> 0]
  /\ line_buf = <<>>
  /\ bword \in {WordOfInt(0), [i \in 1 .. 8 |-> 15]}
  /\ tword = WordOfInt(0)
  /\ stores = <<>>
  /\ overrun = FALSE
  /\ status = "open"

Next == WriteCallback

\* The engine passes every data packet the client sends to the callback.
Spec == Init /\ [][Next]_vars /\ WF_vars(WriteCallback)
=============================================================================
