----------------------------- MODULE MCRtpStream -----------------------------
(* Model-checking instance of RtpStream: every file that is up to five  *)
(* pieces long, which gives start codes of both kinds, next to each other   *)
(* or at the end, files without one, units of no byte and of up to twelve.  *)
EXTENDS RtpStream


Pieces == {<< >>, <<0, 0, 1>>, <<0, 0, 0, 1>>, <<0>>, <<7>>, <<7, 8, 9, 6>>}
MCContents ==
  {a \o b \o c \o d \o e : a \in Pieces, b \in Pieces, c \in Pieces, d \in Pieces, e \in Pieces}
=============================================================================
