---------------------------- MODULE TapcpShared -----------------------------
(***************************************************************************)
(* Several read transfers in progress at once, their callbacks interleaved *)
(* by the engine.  Each transfer has its own struct tapcp_state; all of    *)
(* them share the file-level statics of casper_tapcp.c: line_buf, the      *)
(* static word of the binary FPGA reader and the csl iterator.  Spec §5    *)
(* ("Ordering guarantees") forbids the engine only to interleave callbacks *)
(* of transfers that share a physical resource, so the transfers here use  *)
(* pairwise different resources.  A step is one whole read callback of     *)
(* TapcpRead, applied to one transfer's state and to the shared statics.   *)
(* The open helpers touch no static, so every transfer starts opened.      *)
(* ("Shared resources" in §5 calls the statics safe only when transfers    *)
(* run one at a time; this module asks what the weaker guarantee allows.)  *)
(***************************************************************************)
EXTENDS Integers, Sequences, SequencesExt, HexCodec

CONSTANTS
  Block, HelpMsg, FpgaMem, CpuMem, Catalog, Requests, LoadModes, Statics,
  Transfers     \* the transfers in progress at once

VARIABLES
  req,       \* req[t]: the request transfer t opened (history)
  state,     \* state[t]: the struct tapcp_state of transfer t
  out,       \* out[t]: the bytes the engine has sent to t's client (history)
  done,      \* done[t]: a short block has ended transfer t
  line_buf,  \* the static line_buf, shared
  word,      \* the static word of casper_tapcp_read_fpga_words_binary, shared
  csl,       \* the csl iterator, shared
  touched,   \* FPGA byte addresses loaded by any transfer (history)
  loadmode   \* the build's unaligned-load behaviour, fixed for the run

vars == <<req, state, out, done, line_buf, word, csl, touched, loadmode>>

\* The codecs' loop bodies, on a loop record of one transfer.
R == INSTANCE TapcpRead

\* The physical resource behind a read codec.
Resource(q) ==
  CASE q.codec \in {"fpga_words_binary", "fpga_words_ascii"} -> "fpga"
    [] q.codec \in {"mem_bytes_binary", "mem_bytes_ascii"}   -> "cpu"
    [] q.codec = "listdev_ascii"                             -> "core_info"
    [] q.codec = "help"                                      -> "help"

-----------------------------------------------------------------------------
(* One read callback of transfer t: TapcpRead's ReadCallback with t's      *)
(* state in the loop record and the statics as whichever transfer ran      *)
(* last left them.                                                         *)

Return(t, r) ==
  /\ state' = [state EXCEPT ![t] = r.st]
  /\ line_buf' = r.lb
  /\ word' = r.word
  /\ csl' = r.csl
  /\ touched' = r.touched
  /\ out' = [out EXCEPT ![t] = @ \o r.buf]
  /\ done' = [done EXCEPT ![t] = Len(r.buf) < Block]

\* The loop guard and one loop iteration of the registered codec.
More(r) ==
  CASE r.st.codec = "mem_bytes_ascii"   -> R!MemAsciiMore(r)
    [] r.st.codec = "fpga_words_binary" -> R!FpgaBinMore(r)
    [] r.st.codec = "fpga_words_ascii"  -> R!FpgaAsciiMore(r)
    [] r.st.codec = "listdev_ascii"     -> R!ListMore(r)
    [] OTHER                            -> FALSE     \* a single memcpy
Iter(r) ==
  CASE r.st.codec = "mem_bytes_ascii"   -> R!MemAsciiIter(r)
    [] r.st.codec = "fpga_words_binary" -> R!FpgaBinIter(r)
    [] r.st.codec = "fpga_words_ascii"  -> R!FpgaAsciiIter(r)
    [] r.st.codec = "listdev_ascii"     -> R!ListIter(r)

RECURSIVE Run(_, _)
Run(t, r) == IF More(r) THEN \E n \in {Iter(r)} : Run(t, n) ELSE Return(t, r)

ReadCallback(t) ==
  /\ ~done[t]
  /\ LET s  == state[t]
         r0 == [st |-> s, lb |-> line_buf, word |-> word, csl |-> csl,
                buf |-> <<>>, touched |-> touched]
     IN  Run(t, CASE s.codec = "help"             -> R!Copy(r0, HelpMsg)
                  [] s.codec = "mem_bytes_binary" -> R!Copy(r0, CpuMem)
                  \* first listdev call: csl_iter_init(), lidx = 0
                  [] s.lidx = -1                  -> [r0 EXCEPT !.st.lidx = 0, !.csl = 1]
                  [] OTHER                        -> r0)
  /\ UNCHANGED <<req, loadmode>>

-----------------------------------------------------------------------------
Init ==
  /\ req \in [Transfers -> Requests]
  /\ \A t, u \in Transfers : t # u => Resource(req[t]) # Resource(req[u])
  /\ state = [t \in Transfers |-> R!OpenState(req[t])]
  /\ out = [t \in Transfers |-> <<>>]
  /\ done = [t \in Transfers |-> FALSE]
  /\ \E l \in Statics : line_buf = l.lb /\ word = l.word /\ csl = l.csl
  /\ touched = {}
  /\ loadmode \in LoadModes

Next == \E t \in Transfers : ReadCallback(t)

\* The engine keeps calling each transfer's callback while its client
\* acknowledges.
Spec == Init /\ [][Next]_vars /\ \A t \in Transfers : WF_vars(ReadCallback(t))
=============================================================================
