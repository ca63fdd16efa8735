-------------------------------- MODULE MCAuth --------------------------------
(* A small instance of Auth for TLC. *)
EXTENDS Auth, TLC

\* Browsers, tabs and Google accounts are interchangeable, and so are the
\* addresses when all of them are allowed.
AuthSymmetry == Permutations(Tab) \cup Permutations(Sub) \cup Permutations(Email)

=============================================================================
