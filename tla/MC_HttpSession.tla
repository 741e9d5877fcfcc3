--------------------------- MODULE MC_HttpSession ---------------------------
(***************************************************************************)
(* HttpSession with answers of every kind that its handlers tell apart:    *)
(* with and without headers, other statuses, other protocols, contents     *)
(* around the buffer size, blank lines in odd places, streams that end     *)
(* early.                                                                  *)
(***************************************************************************)
EXTENDS HttpSession

Status(code) == <<"HTTP/", code, CRLF>>
Header       == <<"word", CRLF>>
Body(n)      == [k \in 1 .. n |-> "word"]

MCResponses ==
  { Status("200") \o Header \o <<CRLF>> \o Body(n) : n \in {0, 2} } \cup
  { <<"HTTP/", "200", "word", CRLF>> \o Header \o <<CRLF, CRLF>>,
    <<CRLF>> \o Status("200") \o Header \o <<CRLF>>,
    Status("404") \o Header \o <<CRLF>>, <<"word", "200", CRLF>>, <<"HTTP/", "word", CRLF>>,
    Status("200") \o <<CRLF>> \o Body(1), Status("200") \o Header, <<"HTTP/", "200">>, <<>> }

MCTwo == {"s1", "s2"}

(* The instance meets what SessionContentRight asks of the answers. *)
ASSUME MCAnswersBegin == \A r \in MCResponses : WellBegun(r)
=============================================================================
