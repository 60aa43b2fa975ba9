--------------------------- MODULE MCTapcpShared ----------------------------
(***************************************************************************)
(* Two transfers at once, over the address spaces, catalog and requests    *)
(* of MCTapcpData and the reference files of MCTapcpRead: an FPGA hexdump  *)
(* of any range beside a listing of the catalog.                           *)
(***************************************************************************)
EXTENDS TapcpShared, MCTapcpData

\* The single-transfer harness, for its reference files.
Ref == INSTANCE MCTapcpRead

MCUnalignedLoads == {"unaligned"}
MCBootStatics    == {[lb |-> <<LF>>, word |-> WordOfInt(0), csl |-> 1]}

MCTransfers == {"t1", "t2"}
MCSharedRequests ==
  RequestsOf({"fpga_words_ascii", "listdev_ascii"})

(* Each client receives a prefix of its own file, whatever the other       *)
(* transfers in progress do: a transfer that resumes a line it split       *)
(* across blocks (state->lidx > 0) finds that line still in line_buf.      *)
OwnStream == \A t \in Transfers : IsPrefix(out[t], Ref!Expected(req[t]))
=============================================================================
