--------------------------- MODULE MCClientStore ---------------------------
(* One message of each side, a reload and a lost connection at any moment. *)
EXTENDS ClientStore
=============================================================================
