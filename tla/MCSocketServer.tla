--------------------------- MODULE MCSocketServer ---------------------------
(***************************************************************************)
(* Three connections, one after another or at once, over two descriptors:  *)
(* enough for a descriptor to be reused twice, for two connections to be   *)
(* open together and for leaked descriptors to leave one in the backlog.   *)
(***************************************************************************)
EXTENDS SocketServer, TLC

CONSTANTS c1, c2, c3, s1, s2

\* Two connections of one user's session, one of another's.
MCSessionOf == [c \in Conn |-> IF c = c3 THEN s2 ELSE s1]

\* The two connections of one session are alike.
Symmetry == Permutations({c1, c2})
=============================================================================
