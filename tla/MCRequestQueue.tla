--------------------------- MODULE MCRequestQueue ---------------------------
(* RequestQueue by itself, for the question whether server_exit returns. *)
EXTENDS RequestQueue
=============================================================================
