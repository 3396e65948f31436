------------------------ MODULE MCUpstreamConnections ------------------------
(* Instances of UpstreamConnections for TLC. *)
EXTENDS UpstreamConnections, TLC

\* Calls are interchangeable, and so are sessions and tokens.
Symmetry == Permutations(Call) \cup Permutations(Session) \cup Permutations(Token)
=============================================================================
