----------------------------- MODULE TapcpName ------------------------------
(***************************************************************************)
(* The OFFSET and LENGTH fields of a requested file name, as               *)
(* casper_tapcp_open_dev and casper_tapcp_open_mem read them with          *)
(* hex_to_u32.  `t` is the text after the separating dot: for /dev the     *)
(* text after the first dot of NAME.OFF.LEN (empty when there is no dot),  *)
(* for /fpga. and /cpu. the text after the prefix.  The fields are         *)
(* uint32_t values (Word); TapcpOpen takes them from here as numbers.      *)
(***************************************************************************)
EXTENDS Integers, Sequences, HexCodec

Zero == WordOfInt(0)
One  == WordOfInt(1)

\* Mutant: LENGTH is read from the separator itself (`p` for `++p`).
DevFieldsNoSkip(t, write) ==
  IF t = <<>> THEN [off |-> Zero, len |-> Zero]
  ELSE LET o == hex_to_u32(t, 1, Zero)
       IN  [off |-> o.val,
            len |-> IF ~write /\ o.next <= Len(t) THEN hex_to_u32(t, o.next, Zero).val
                                                  ELSE Zero]

\* casper_tapcp_open_dev: cmd_off = cmd_len = 0; if a dot is followed by
\* text, cmd_off = hex_to_u32(p); on a read, if anything follows the
\* digits, one character is skipped and cmd_len = hex_to_u32(++p).
DevFields(t, write) ==
  IF t = <<>> THEN [off |-> Zero, len |-> Zero]              \* !(p && *p)
  ELSE LET o == hex_to_u32(t, 1, Zero)
       IN  [off |-> o.val,
            len |-> IF ~write /\ o.next <= Len(t) THEN hex_to_u32(t, o.next + 1, Zero).val
                                                  ELSE Zero]

\* casper_tapcp_open_mem: the offset is required (an empty text fails the
\* open); cmd_len defaults to 1 and is read, on a read, after skipping the
\* character that ends the offset's digits.  The fields, or {} for a
\* failed open.
MemFields(t, write) ==
  IF t = <<>> THEN {}                                         \* if(!*p) return NULL
  ELSE LET o == hex_to_u32(t, 1, Zero)
       IN  {[off |-> o.val,
             len |-> IF ~write /\ o.next <= Len(t) THEN hex_to_u32(t, o.next + 1, One).val
                                                   ELSE One]}
====
