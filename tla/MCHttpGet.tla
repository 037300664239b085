------------------------------- MODULE MCHttpGet -------------------------------
(* Requests for TLC: a head of one item, then bodies with and without what *)
(* the parser takes for the end of a head or of a string.                  *)
EXTENDS HttpGet

Reply(rest) == <<"head", "crlf", "crlf">> \o rest

MCReplies == {Reply(<<"body", "body", "body">>), Reply(<<"body", "crlf", "crlf", "body">>),
              Reply(<<"body", "nul", "body">>)}
=============================================================================
