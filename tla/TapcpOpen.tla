----------------------------- MODULE TapcpOpen ------------------------------
(***************************************************************************)
(* The open helpers of casper_tapcp.c (casper_tapcp_open_help, _listdev,   *)
(* _dev, _mem) and the dispatch of a requested file name to them.          *)
(*                                                                         *)
(* Arithmetic keeps its width: uint32_t and pointers are W-bit unsigned    *)
(* (mod 2^W) and state->nleft is a W-bit signed int, with W a constant far *)
(* below 32 so that TLC can enumerate every offset and length a client can *)
(* write (hex_to_u32 yields any uint32_t).  Address spaces and devices are *)
(* scaled down with it.                                                    *)
(*                                                                         *)
(* A request is the file name as the open helpers parse it: the command,   *)
(* the device name, and the OFFSET and LENGTH fields, each either Absent   *)
(* or the value hex_to_u32 produced from it.                               *)
(***************************************************************************)
EXTENDS Integers

CONSTANTS
  W,            \* bits of uint32_t, int and pointers
  FpgaBase,     \* FPGA_BASEADDR
  FpgaNBytes,   \* FPGA_NBYTES
  Devices,      \* core_info: name -> [offset, length] (bytes; offset bit 0 = read-only)
  DevNames,     \* device names a client may ask for, known or not
  HelpLen,      \* sizeof(tapcp_help_msg) - 1
  CoreInfo,     \* CORE_INFO: the core_info image, after its 2-byte size
  CoreInfoSize, \* Xil_Ntohs(_core_info_size_be): bytes of the image
  Absent,       \* an OFFSET or LENGTH field that is not given
  NULL          \* open failed: the engine answers with a TFTP error

N      == 2 ^ W
Val    == 0 .. N - 1
U(x)   == x % N                                  \* uint32_t arithmetic
ToInt(x) == IF U(x) >= N \div 2 THEN U(x) - N ELSE U(x)   \* (int) conversion
AlignDown(x) == x - (x % 4)                      \* x & ~3

ASSUME /\ W \in 4 .. 16
       /\ FpgaBase \in Val /\ FpgaBase % 4 = 0
       /\ FpgaNBytes \in 1 .. N - FpgaBase /\ FpgaNBytes % 4 = 0
       \* as on the target, every byte count of FPGA space fits in an int
       /\ FpgaNBytes < N \div 2
       /\ HelpLen \in Nat /\ CoreInfo \in Val /\ CoreInfoSize \in 0 .. 65535
       /\ DOMAIN Devices \subseteq DevNames
       /\ \A d \in DOMAIN Devices :
            AlignDown(Devices[d].offset) + Devices[d].length <= FpgaNBytes

Commands == {"help", "listdev", "dev", "fpga", "cpu"}

Requests ==
  [cmd : Commands, name : DevNames, off : Val \cup {Absent},
   len : Val \cup {Absent}, write : BOOLEAN, binary : BOOLEAN]

-----------------------------------------------------------------------------
(* casper_find_dev (casper_devcsl.c): the device's memory in FPGA space    *)
(* and its descriptor.                                                     *)
DevPtr(d) == U(FpgaBase + AlignDown(Devices[d].offset))

\* The fields of struct tapcp_state that an open helper sets.
Opened(q, codec, ptr, nleft) ==
  [codec |-> codec, write |-> q.write, binary |-> q.binary,
   ptr |-> ptr, nleft |-> nleft, lidx |-> 0, u32 |-> 0]

FpgaCodec(q) ==
  IF q.write THEN IF q.binary THEN "write_fpga_words_binary" ELSE "write_fpga_words_ascii"
             ELSE IF q.binary THEN "fpga_words_binary" ELSE "fpga_words_ascii"

\* casper_tapcp_open_help and casper_tapcp_open_listdev (gets only).  The
\* binary listing is the raw image with its big-endian size in front
\* (_core_info_size_be lies just before _core_info), sent as CPU bytes.
OpenHelp(q) == Opened(q, "help", 0, HelpLen)
OpenListdev(q) ==
  IF q.binary THEN Opened(q, "mem_bytes_binary", U(CoreInfo - 2), CoreInfoSize + 2)
              ELSE [Opened(q, "listdev_ascii", CoreInfo, 0) EXCEPT !.lidx = -1]

(***************************************************************************)
(* casper_tapcp_open_dev: OFFSET and LENGTH count words and default to 0;  *)
(* LENGTH is ignored on writes; a zero LENGTH means "to the end of the     *)
(* device"; only reads are bounds-checked.                                 *)
(***************************************************************************)
\* Mutant: the read bounds check rejects a request that ends exactly at the
\* end of the device (>= for >).
OpenDevGE(q) ==
  LET off   == IF q.off = Absent THEN 0 ELSE q.off
      len0  == IF q.write \/ q.len = Absent THEN 0 ELSE q.len
      words == Devices[q.name].length \div 4
      len   == IF len0 = 0 THEN U(words - off) ELSE len0
  IN  IF q.name \notin DOMAIN Devices THEN NULL
      ELSE IF q.write /\ Devices[q.name].offset % 2 = 1 THEN NULL
      ELSE IF len0 = 0 /\ len = 0 THEN NULL
      ELSE IF ~q.write /\ U(off + len) >= words THEN NULL
      ELSE Opened(q, FpgaCodec(q), U(DevPtr(q.name) + U(off * 4)), ToInt(U(len * 4)))

OpenDev(q) ==
  LET off   == IF q.off = Absent THEN 0 ELSE q.off
      len0  == IF q.write \/ q.len = Absent THEN 0 ELSE q.len
      words == Devices[q.name].length \div 4               \* length >> 2
      len   == IF len0 = 0 THEN U(words - off) ELSE len0
  IN  IF q.name \notin DOMAIN Devices THEN NULL             \* not found
      ELSE IF q.write /\ Devices[q.name].offset % 2 = 1 THEN NULL   \* read-only
      ELSE IF len0 = 0 /\ len = 0 THEN NULL                 \* request too short
      ELSE IF ~q.write /\ U(off + len) > words THEN NULL    \* request too long
      ELSE Opened(q, FpgaCodec(q), U(DevPtr(q.name) + U(off * 4)), ToInt(U(len * 4)))

(***************************************************************************)
(* casper_tapcp_open_mem: /fpga.OFF[.LEN] and /cpu.OFF[.LEN] (gets only).  *)
(* Byte OFFSET required; LENGTH defaults to 1 and is ignored on writes;    *)
(* OFFSET aligned down, LENGTH up.  Reads: zero length fails, FPGA reads   *)
(* are bounds-checked, CPU reads may wrap.  Writes: nleft is the room left *)
(* in FPGA space after OFFSET.                                             *)
(***************************************************************************)
\* Mutant: LENGTH rounded up without the final `cmd_len &= ~3`.
OpenMemNoAlign(q) ==
  LET fpga   == q.cmd = "fpga"
      base   == IF fpga THEN FpgaBase ELSE 0
      nbytes == IF fpga THEN FpgaNBytes ELSE 0
      off    == AlignDown(q.off)
      len    == U((IF ~q.write /\ q.len # Absent THEN q.len ELSE 1) + 3)
      codec  == IF fpga THEN FpgaCodec(q)
                ELSE IF q.binary THEN "mem_bytes_binary" ELSE "mem_bytes_ascii"
  IN  IF ~fpga /\ q.write THEN NULL
      ELSE IF q.off = Absent THEN NULL
      ELSE IF ~q.write /\ len = 0 THEN NULL
      ELSE IF ~q.write /\ fpga /\ U(off + len) > nbytes THEN NULL
      ELSE Opened(q, codec, U(base + off),
                  IF q.write THEN ToInt(U(FpgaNBytes - off)) ELSE ToInt(len))

OpenMem(q) ==
  LET fpga   == q.cmd = "fpga"
      base   == IF fpga THEN FpgaBase ELSE 0
      nbytes == IF fpga THEN FpgaNBytes ELSE 0
      off    == AlignDown(q.off)
      len    == AlignDown(U((IF ~q.write /\ q.len # Absent THEN q.len ELSE 1) + 3))
      codec  == IF fpga THEN FpgaCodec(q)
                ELSE IF q.binary THEN "mem_bytes_binary" ELSE "mem_bytes_ascii"
  IN  IF ~fpga /\ q.write THEN NULL                         \* cpu is read-only
      ELSE IF q.off = Absent THEN NULL                      \* offset required
      ELSE IF ~q.write /\ len = 0 THEN NULL                 \* request too short
      ELSE IF ~q.write /\ fpga /\ U(off + len) > nbytes THEN NULL   \* too long
      ELSE Opened(q, codec, U(base + off),
                  IF q.write THEN ToInt(U(FpgaNBytes - off)) ELSE ToInt(len))

(***************************************************************************)
(* Dispatch of the requested name (casper_tftp.c): /help and /listdev are  *)
(* read-only, /fpga. and /cpu. go to open_mem, everything else (with or    *)
(* without /dev/) to open_dev.                                             *)
(***************************************************************************)
Open(q) ==
  CASE q.cmd \in {"help", "listdev"} /\ q.write -> NULL
    [] q.cmd = "help"              -> OpenHelp(q)
    [] q.cmd = "listdev"           -> OpenListdev(q)
    [] q.cmd = "dev"               -> OpenDev(q)
    [] q.cmd \in {"fpga", "cpu"}   -> OpenMem(q)

-----------------------------------------------------------------------------
CONSTANT Received   \* the requests the engine may receive, a subset of Requests

VARIABLES
  req,     \* the requested file name, mode and direction
  opened,  \* the open callback has run
  state    \* the transfer state it returned, NULL on failure

vars == <<req, opened, state>>

\* A request has arrived; nothing is open yet.
Init == req \in Received /\ opened = FALSE /\ state = NULL

\* The engine's open callback runs the dispatch once per request.
OpenRequest ==
  /\ ~opened
  /\ opened' = TRUE
  /\ state' = Open(req)
  /\ UNCHANGED req

Next == OpenRequest

Spec == Init /\ [][Next]_vars
=============================================================================
