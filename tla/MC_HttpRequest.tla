--------------------------- MODULE MC_HttpRequest ---------------------------
(* HttpRequest with answers shorter than, as long as and longer than the blob. *)
EXTENDS HttpRequest

MCContents == {0, 1, 2}
MCAnswers  == {0, 2, 3, 4}
=============================================================================
