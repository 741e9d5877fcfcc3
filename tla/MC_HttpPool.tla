---------------------------- MODULE MC_HttpPool -----------------------------
(* HttpPool with keys that share a worker and a key that has one alone. *)
EXTENDS HttpPool

MCKey == {0, 1, 2}
=============================================================================
