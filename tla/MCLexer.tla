------------------------------- MODULE MCLexer -------------------------------
(***************************************************************************)
(* All short files over one or two characters of every kind the lexer      *)
(* tells apart: n means something after a backslash and x does not, a is a *)
(* digit and stands for 0 to 9 as well.                                    *)
(***************************************************************************)
EXTENDS Lexer

MCAlphabet == {" ", "\n", ":", "\"", "/", Backslash, "a", "n", "x", EndByte}
=============================================================================
