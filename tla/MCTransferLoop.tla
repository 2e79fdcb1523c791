--------------------------- MODULE MCTransferLoop ---------------------------
(* Instances of module TransferLoop for TLC. *)
EXTENDS TransferLoop

MCSizes == {0, 1, 3, 5}
=============================================================================
