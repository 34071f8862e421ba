--------------------------- MODULE MCHttpSession ----------------------------
(***************************************************************************)
(* HttpSession for TLC: the scripts of the peer.                           *)
(***************************************************************************)
EXTENDS HttpSession

CONSTANT MaxHeads, MaxBody     \* bounds on the headers and body of a message

Request ==
  [kind : {"request"}, slash : BOOLEAN, heads : 0..MaxHeads, body : 0..MaxBody, eof : {FALSE}]

Response ==
  [kind : {"response"}, slash : {FALSE}, heads : 0..MaxHeads, body : 1..MaxBody, eof : {FALSE}]

\* A response without a length, which is the last message of its connection.
UntilEof ==
  [kind : {"response"}, slash : {FALSE}, heads : {0}, body : {0, MaxBody}, eof : {TRUE}]

\* A server's session hears requests, a client's hears responses.
Conversations ==
  {<<a, b>> : a, b \in Request} \cup {<<a, b>> : a \in Response, b \in Response \cup UntilEof}
=============================================================================
