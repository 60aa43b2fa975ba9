---------------------------- MODULE GetTransfer -----------------------------
(***************************************************************************)
(* What a TFTP "get" of a TAPCP file promises the client: the file is a    *)
(* fixed byte stream, delivered in order in blocks of exactly Block bytes  *)
(* followed by one shorter (possibly empty) final block that ends the      *)
(* transfer.  This is the contract the lwIP TFTP server imposes on a read  *)
(* callback: a return value smaller than the requested size ends the       *)
(* transfer.                                                               *)
(***************************************************************************)
EXTENDS Integers, Sequences

CONSTANT Block              \* bytes the engine asks for per read callback
ASSUME Block \in Nat \ {0}

VARIABLES
  stream,   \* the whole file the client is to receive (never changes)
  out,      \* the bytes delivered so far
  done      \* the final short block has been delivered

vars == <<stream, out, done>>

Init == out = <<>> /\ done = FALSE

\* A full block while at least Block bytes remain.
SendBlock ==
  /\ ~done
  /\ Len(stream) - Len(out) >= Block
  /\ out' = SubSeq(stream, 1, Len(out) + Block)
  /\ UNCHANGED <<stream, done>>

\* The final block: everything that remains, fewer than Block bytes.
SendLast ==
  /\ ~done
  /\ Len(stream) - Len(out) < Block
  /\ out' = stream
  /\ done' = TRUE
  /\ UNCHANGED stream

Next == SendBlock \/ SendLast

Spec == Init /\ [][Next]_vars /\ WF_vars(Next)
=============================================================================
