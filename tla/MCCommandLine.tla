---------------------------- MODULE MCCommandLine ----------------------------
(***************************************************************************)
(* Every command line of a few words: two plain ones, the separator,       *)
(* options with and without a value, by letter and by name, help, and one  *)
(* that is not known.                                                      *)
(***************************************************************************)
EXTENDS CommandLine

MCWords == {Separator, Word("plain", "a", FALSE), Word("plain", "b", FALSE),
            Word("short", "r", FALSE), Word("short", "i", TRUE),
            Word("long", "rules", TRUE), Word("long", "output", FALSE),
            Word("short", "h", FALSE), Word("long", "rulesX", FALSE)}
=============================================================================
