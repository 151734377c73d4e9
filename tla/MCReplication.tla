--------------------------- MODULE MCReplication ---------------------------
(* Two servers, and two series with different primaries.  The budget of an   *)
(* answer is two lines.                                                      *)
EXTENDS Replication, TLC

CONSTANTS s0, s1

MCSeries == {s0, s1}
MCPrimary == (s0 :> 0) @@ (s1 :> 1)
MCByteLen == [r \in Records |-> 1]

\* Lines of the second series are too long with the name of the primary in front, and
\* one of them as it is.
MCUnfit == {r \in Records : r.series = s1 /\ (r.replica \/ r.id = 2)}
=============================================================================
