--------------------------- MODULE MCStreamToken ---------------------------
(* The symmetry of StreamToken's connections, for model checking. *)
EXTENDS StreamToken, TLC

AnyConn == Permutations(Conns)
============================================================================
