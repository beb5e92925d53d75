--------------------------- MODULE MCRepositories ---------------------------
(* Instances of Repositories for TLC.                                        *)
EXTENDS Repositories, TLC

\* The sessions run the same program.
SymmetricSessions == Permutations(Sessions)
=============================================================================
