------------------------------ MODULE MCSession ------------------------------
(* An instance of Session: the first edit breaks the file for cargo check  *)
(* alone, the second for the analyzer's own passes.                        *)
EXTENDS Session

MCNative == {2}
MCRustc == {1}
=============================================================================
