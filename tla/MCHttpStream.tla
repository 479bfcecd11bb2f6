---------------------------- MODULE MCHttpStream ----------------------------
(* HttpStream for TLC: every short stream of a letter, CR and LF.           *)
EXTENDS HttpStream, SequencesExt

CONSTANTS x,           \* the byte that is neither CR nor LF
          MaxStream    \* bound on the length of a stream

AllStreams == BoundedSeq({x, "CR", "LF"}, MaxStream)

\* Two CRs in a row confuse consumeUntilLineFeed: kept apart.
NoDoubleCR == {s \in AllStreams : \A i \in 1..(Len(s) - 1) : ~(s[i] = "CR" /\ s[i + 1] = "CR")}
=============================================================================
