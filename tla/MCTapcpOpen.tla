----------------------------- MODULE MCTapcpOpen ----------------------------
(***************************************************************************)
(* Model-checking harness for TapcpOpen: 6-bit words, so that every OFFSET *)
(* and LENGTH a client can give (0 .. 63, or absent) is tried, including   *)
(* those whose sums and products wrap; a 64-byte address space whose upper *)
(* half holds the 24 bytes of FPGA space; a writable and a read-only device; and a name that  *)
(* is not in the catalog.                                                  *)
(***************************************************************************)
EXTENDS TapcpOpen

MCDevices ==
  [d \in {"a", "b"} |->
     IF d = "a" THEN [offset |-> 4,  length |-> 12]       \* FPGA 0x04, 3 words
                ELSE [offset |-> 17, length |-> 4]]       \* FPGA 0x10, 1 word, read-only

MCReceived ==
  { q \in Requests :
      /\ q.cmd # "dev" => q.name = "zz"
      /\ q.cmd \in {"help", "listdev"} => q.off = Absent /\ q.len = Absent }

\* The gets and the puts alone: TLC reports one counterexample per run,
\* and Received <- MCReadReceived or MCWriteReceived shows the other kind.
MCReadReceived  == {q \in MCReceived : ~q.write}
MCWriteReceived == {q \in MCReceived : q.write}

\* Bytes of the address space a resource covers (cpu reads may wrap: none).
Resource(q) ==
  IF q.cmd = "dev" THEN DevPtr(q.name) .. DevPtr(q.name) + Devices[q.name].length - 1
                   ELSE FpgaBase .. FpgaBase + FpgaNBytes - 1

\* Bytes a read callback may load: nleft bytes from ptr, nothing if nleft <= 0.
ReadReach(s) == {U(s.ptr + i) : i \in 0 .. s.nleft - 1}

\* Bytes a write callback may store: nleft bounds the write when it is
\* non-negative; a negative nleft bounds nothing, and the client can send
\* data until the pointer has wrapped the whole space.
WriteReach(s) == IF s.nleft >= 0 THEN {U(s.ptr + i) : i \in 0 .. s.nleft - 1} ELSE Val

-----------------------------------------------------------------------------
ReadWithinResource ==
  (state # NULL /\ ~req.write /\ req.cmd \in {"dev", "fpga"})
    => ReadReach(state) \subseteq Resource(req)

\* A put to a device or to FPGA space that opens can only store into that
\* device or into FPGA space.
WriteWithinResource ==
  (state # NULL /\ req.write /\ req.cmd \in {"dev", "fpga"})
    => WriteReach(state) \subseteq Resource(req)

(* Every transfer of a device or of FPGA space that opens stays inside    *)
(* the resource, whatever OFFSET and LENGTH the client writes in the file  *)
(* name: the bounds check of casper_tapcp_open_dev and                     *)
(* casper_tapcp_open_mem keeps reads inside it, and the nleft they set     *)
(* stops the write callbacks at its end.                                   *)
AccessWithinResource == ReadWithinResource /\ WriteWithinResource

(* The range a get names, as the header comment of casper_tapcp.c         *)
(* documents it: /dev/NAME.OFF.LEN reads words OFF .. OFF+LEN-1 of the     *)
(* device (OFF absent: 0; LEN 0 or absent: to the end of the device), and  *)
(* /fpga.OFF.LEN reads the bytes of FPGA space from OFF rounded down to a  *)
(* word, LEN rounded up to words (LEN absent: 4).  Unbounded integers: a   *)
(* range is in bounds when it lies inside the resource.                    *)
DocumentedRange(q) ==
  IF q.cmd = "dev"
    THEN LET words == Devices[q.name].length \div 4
             off   == IF q.off = Absent THEN 0 ELSE q.off
             len   == IF q.len \in {0, Absent} THEN words - off ELSE q.len
         IN  [ptr |-> DevPtr(q.name) + 4 * off, nleft |-> 4 * len,
              inside |-> len > 0 /\ off + len <= words]
    ELSE LET off == AlignDown(q.off)
             len == AlignDown((IF q.len = Absent THEN 4 ELSE q.len) + 3)
         IN  [ptr |-> FpgaBase + off, nleft |-> len,
              inside |-> len > 0 /\ off + len <= FpgaNBytes]

(* A get of a device or of FPGA space whose documented range lies inside   *)
(* the resource opens, and the transfer state names exactly that range.    *)
(* The open helpers compute it in uint32_t, with the defaults in other     *)
(* places (LENGTH 1 then rounded up, a zero LENGTH turned into the rest of *)
(* the device) and a bounds check that must not reject a range ending at   *)
(* the resource's last byte.                                               *)
InBoundsGetOpens ==
  (opened /\ ~req.write
          /\ \/ req.cmd = "fpga" /\ req.off # Absent      \* BYTE_OFFSET is required
             \/ req.cmd = "dev" /\ req.name \in DOMAIN Devices
          /\ DocumentedRange(req).inside)
    => /\ state # NULL
       /\ state.ptr = DocumentedRange(req).ptr
       /\ state.nleft = DocumentedRange(req).nleft

(* Every transfer bound to an FPGA word codec starts on a word boundary    *)
(* with a whole number of words left (or an unbounded write): the word     *)
(* codecs load and store whole words only, and                             *)
(* casper_tapcp_read_fpga_words_binary loads a new word only when          *)
(* --nleft & 3 is 3, so an unaligned nleft would send bytes of the static  *)
(* word left over from an earlier transfer.                                *)
FpgaCodecAligned ==
  (state # NULL /\ state.codec \in {"fpga_words_binary", "fpga_words_ascii",
                                    "write_fpga_words_binary", "write_fpga_words_ascii"})
    => state.ptr % 4 = 0 /\ state.nleft % 4 = 0
=============================================================================
