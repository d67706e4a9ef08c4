----------------------------- MODULE TextLines -----------------------------
(***************************************************************************)
(* Text as a sequence of tokens, and how both parsers cut it into lines:   *)
(* std::search for CRLF, and Buffer::RetrieveUntil.                        *)
(***************************************************************************)
EXTENDS Integers, Sequences

Contains(s, x) == \E k \in 1..Len(s) : s[k] = x

\* The first line of s, without its end; all of s when it has no end.
FirstLine(s) ==
  LET first(k) == \A l \in 1..k : s[l] # "crlf" IN
  SubSeq(s, 1, CHOOSE k \in 0..Len(s) : first(k) /\ (k < Len(s) => ~first(k + 1)))

\* lineEnd == buff.BeginWrite()
Unended(s) == ~Contains(s, "crlf")

\* buff.RetrieveUntil(lineEnd + 2)
NextLines(s) == SubSeq(s, Len(FirstLine(s)) + 2, Len(s))
=============================================================================
