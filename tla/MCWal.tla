-------------------------------- MODULE MCWal --------------------------------
(* A small instance of the write-ahead log. *)
EXTENDS WalProperties

CONSTANTS first, second, torn

=============================================================================
