--------------------------- MODULE MCRtspSession ---------------------------
(* Model-checking instance of RtspSession: two clients, the second with the *)
(* longer address; SETUPs of both profiles; a file that is not there.       *)
EXTENDS RtspSession

MCStarts == {"DESCRIBE a", "DESCRIBE b", "SETUP a", "PLAY a", "TEARDOWN a"}
MCStartOf ==
  [s \in MCStarts |->
     [method |-> CASE s \in {"DESCRIBE a", "DESCRIBE b"} -> "DESCRIBE" [] s = "SETUP a" -> "SETUP"
                   [] s = "PLAY a" -> "PLAY" [] s = "TEARDOWN a" -> "TEARDOWN",
      file |-> IF s = "DESCRIBE b" THEN "b" ELSE "a"]]
MCTransportOf ==
  [t \in {"udp 1", "plain 2"} |->
     IF t = "udp 1" THEN [udp |-> TRUE, port |-> 1] ELSE [udp |-> FALSE, port |-> 2]]
MCCSeqs == {"CSeq 2", "CSeq 3", "CSeq 4", "CSeq 5"}

Request(start, seq, rest) == <<start, "crlf", seq, "crlf">> \o rest \o <<"crlf">>
MCMessages ==
  {Request("DESCRIBE a", "CSeq 2", << >>), Request("DESCRIBE b", "CSeq 2", << >>),
   Request("SETUP a", "CSeq 3", <<"udp 1", "crlf">>),
   Request("SETUP a", "CSeq 3", <<"plain 2", "crlf">>), Request("PLAY a", "CSeq 4", << >>),
   Request("TEARDOWN a", "CSeq 5", << >>)}

MCIps == <<<<1>>, <<2, 3>>>>
MCMaxMessages == <<3, 2>>
MCJunk == {<< >>}

ASSUME RequestsAssumption == OnlyRequests
=============================================================================
