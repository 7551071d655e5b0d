--------------------------- MODULE MCFileTransfer ---------------------------
(***************************************************************************)
(* Three handlers, and files of up to three rows of every kind.            *)
(***************************************************************************)
EXTENDS FileTransfer, TLC

CONSTANTS h1, h2, h3

SmallUploads == UNION {[1..n -> Row] : n \in 1..3}

\* No definition names a handler.
HandlerSymmetry == Permutations(Handler)
=============================================================================
