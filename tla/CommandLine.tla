----------------------------- MODULE CommandLine -----------------------------
(***************************************************************************)
(* From main's argv to the options and the words of the program to run:    *)
(* scan_cli_arguments (src/src/cli_arguments.c), argparse_parse with the   *)
(* four options the program has (src/src/argparse.c), prepare_tokens       *)
(* (src/src/main.c).  argparse copies words to the front of argv while it  *)
(* reads it, and the words of the program are taken from the same array.   *)
(***************************************************************************)
EXTENDS Integers, Sequences

CONSTANTS
    Words,     \* words, argv[0] included
    MaxWords   \* how many a command line has at most (a bound)

(***************************************************************************)
(* A word is plain, the separator --, or an option by its letter or its    *)
(* name, with its value attached (-rX, --rules=X) or not.                  *)
(***************************************************************************)
Word(kind, name, attached) == [kind |-> kind, name |-> name, attached |-> attached]
NullWord   == Word("NULL", "", FALSE)
Separator  == Word("separator", "", FALSE)
IsOption(w) == w.kind \in {"short", "long"}

Options == {"rules", "input", "output"}
ShortNames == [r |-> "rules", i |-> "input", o |-> "output", h |-> "help"]

\* The entry of the option table a word selects.
OptionOf(w) ==
    CASE w.kind = "short" /\ w.name \in DOMAIN ShortNames    -> ShortNames[w.name]
      [] w.kind = "long" /\ w.name \in Options \cup {"help"} -> w.name
      [] OTHER -> "unknown"

Value(w, part) == [of |-> w, part |-> part]
Unset == Value(NullWord, "none")

ASSUME CommandLineAssumption ==
    /\ MaxWords \in Nat
    /\ NullWord \notin Words
    /\ \A w \in Words : w.kind \in {"plain", "separator", "short", "long"}

VARIABLES
    words,     \* the command line as it was given
    loc,       \* where the program is
    argv,      \* the array
    arg_num,   \* the index of --
    argc, at, cpidx,  \* struct argparse: argc, argv as an index, cpidx
    options,   \* cli_arguments
    tokens     \* what execvp will get

vars == <<words, loc, argv, arg_num, argc, at, cpidx, options, tokens>>

Count == Len(words)   \* main's argc

Init ==
    /\ \E n \in 0 .. MaxWords : words \in [1 .. n -> Words]
    /\ argv = [k \in 0 .. Count |-> IF k < Count THEN words[k + 1] ELSE NullWord]
    /\ loc = "scan" /\ arg_num = 0
    /\ argc = 0 /\ at = 0 /\ cpidx = 0
    /\ options = [o \in Options |-> Unset]
    /\ tokens = <<>>

Leave(how) == loc' = how /\ UNCHANGED <<words, argv, arg_num, options, tokens>>

(***************************************************************************)
(* scan_cli_arguments: the first --.                                       *)
(***************************************************************************)
Scan ==
    /\ loc = "scan" /\ arg_num < Count /\ argv[arg_num] # Separator
    /\ arg_num' = arg_num + 1
    /\ UNCHANGED <<words, loc, argv, argc, at, cpidx, options, tokens>>

MissingTracee ==
    /\ loc = "scan" /\ arg_num = Count
    /\ Leave("missing")
    /\ UNCHANGED <<argc, at, cpidx>>

\* argparse_parse is given what is before it.
Found ==
    /\ loc = "scan" /\ arg_num < Count /\ argv[arg_num] = Separator
    /\ loc' = "parse"
    /\ argc' = arg_num - 1 /\ at' = 1 /\ cpidx' = 0
    /\ UNCHANGED <<words, argv, arg_num, options, tokens>>

(***************************************************************************)
(* argparse_parse: one word a turn.  argc is not 0 in a turn, and below 0  *)
(* if argv[0] is --.                                                       *)
(***************************************************************************)
Turn == loc = "parse" /\ argc # 0
Current == argv[at]

Advance(n) == argc' = argc - n /\ at' = at + n

\* Copied to the front of argv.
Plain ==
    /\ Turn /\ Current.kind = "plain"
    /\ argv' = [argv EXCEPT ![cpidx] = Current]
    /\ cpidx' = cpidx + 1
    /\ Advance(1)
    /\ UNCHANGED <<words, loc, arg_num, options, tokens>>

\* Mutant of MayTakeNext: a value may also be taken from behind the end.
MayTakeAny == TRUE

\* A value of its own: "requires a value" otherwise.
MayTakeNext == argc > 1

\* Mutants of Consumed: a word with its value attached is not counted; the value
\* of its own is not skipped.
ConsumedOthers(w) == IF w.attached THEN 0 ELSE 2
ConsumedAlone(w)  == 1

Consumed(w) == IF w.attached THEN 1 ELSE 2

SetOption ==
    /\ Turn /\ IsOption(Current) /\ OptionOf(Current) \in Options
    /\ \/ /\ Current.attached
          /\ options' = [options EXCEPT ![OptionOf(Current)] = Value(Current, "attached")]
       \/ /\ ~Current.attached /\ MayTakeNext
          /\ options' = [options EXCEPT ![OptionOf(Current)] = Value(argv[at + 1], "whole")]
    /\ Advance(Consumed(Current))
    /\ UNCHANGED <<words, loc, argv, arg_num, cpidx, tokens>>

Help ==
    /\ Turn /\ IsOption(Current) /\ OptionOf(Current) = "help"
    /\ Leave("exit_success")
    /\ UNCHANGED <<argc, at, cpidx>>

\* An option without a value or not known.
Fail ==
    /\ Turn /\ IsOption(Current)
    /\ \/ OptionOf(Current) = "unknown"
       \/ OptionOf(Current) \in Options /\ ~Current.attached /\ ~MayTakeNext
    /\ Leave("exit_failure")
    /\ UNCHANGED <<argc, at, cpidx>>

\* Behind argv[0] = --: the end of argv is read as a word, or a second --
\* ends the loop and a negative number of words is moved.
Overrun ==
    /\ Turn /\ Current.kind \in {"NULL", "separator"}
    /\ Leave("crashed")
    /\ UNCHANGED <<argc, at, cpidx>>

\* Mutant of Terminate: the end is marked at the separator and one further.
TerminateBehind == argv' = [argv EXCEPT ![arg_num + 1] = NullWord]

\* The end of the words copied.
Terminate == argv' = [argv EXCEPT ![cpidx] = NullWord]

Parsed ==
    /\ loc = "parse" /\ argc = 0
    /\ Terminate
    /\ loc' = "prepare"
    /\ UNCHANGED <<words, arg_num, argc, at, cpidx, options, tokens>>

\* prepare_tokens: the rest of argv, and a NULL.
Prepare ==
    /\ loc = "prepare"
    /\ tokens' = [k \in 1 .. Count - arg_num |->
                    IF k < Count - arg_num THEN argv[arg_num + k] ELSE NullWord]
    /\ loc' = "run"
    /\ UNCHANGED <<words, argv, arg_num, argc, at, cpidx, options>>

Ended == loc \in {"missing", "exit_success", "exit_failure", "crashed", "run"} /\ UNCHANGED vars

Next ==
    \/ Scan \/ MissingTracee \/ Found
    \/ Plain \/ SetOption \/ Help \/ Fail \/ Overrun \/ Parsed
    \/ Prepare \/ Ended

Spec == Init /\ [][Next]_vars

\* One thread, which goes on as long as it can.
FairSpec == Spec /\ WF_vars(Next)

-----------------------------------------------------------------------------
(***************************************************************************)
(* Properties.  They read the command line as it was given.                *)
(***************************************************************************)
Locations == {"scan", "missing", "parse", "exit_success", "exit_failure", "crashed",
              "prepare", "run"}

\* Every variable has its type; indices stay within argv.
TypeOK ==
    /\ words \in Seq(Words) /\ loc \in Locations
    /\ argv \in [0 .. Count -> Words \cup {NullWord}]
    /\ arg_num \in 0 .. Count /\ argc \in Int
    /\ at \in 0 .. Count /\ cpidx \in 0 .. Count
    /\ DOMAIN options = Options
    /\ tokens \in Seq(Words \cup {NullWord})

\* The first separator, counted from 1, and the words of the program.
IsFirst(s) == words[s] = Separator /\ \A k \in 1 .. s - 1 : words[k] # Separator
Program(s) == [k \in 1 .. Count - s + 1 |-> IF k < Count - s + 1 THEN words[s + k] ELSE NullWord]

\* The program is run with exactly the words after the first --, in order and
\* with a NULL at the end: argparse's writes to argv have not reached them.
ProgramAsGiven ==
    loc = "run" => \E s \in 1 .. Count : IsFirst(s) /\ tokens = Program(s)

\* An option that takes the word after it, unless it is taken itself.
Takes(k) == OptionOf(words[k]) \in Options /\ ~words[k].attached

\* The word k is a value: of the options right before it, all from the word j on
\* and no other, the first takes the second, the third the fourth and the last it.
AllTake(j, k) == /\ \A i \in j .. k - 1 : Takes(i)
                 /\ j > 2 => ~Takes(j - 1)
IsValue(k) == \E j \in 2 .. k : AllTake(j, k) /\ (k - j) % 2 = 1
Before == {k \in 2 .. arg_num : ~IsValue(k)}
Setting(o) == {k \in Before : OptionOf(words[k]) = o}
SetBy(k) == IF words[k].attached THEN Value(words[k], "attached") ELSE Value(words[k + 1], "whole")
Given(o) ==
    IF Setting(o) = {} THEN Unset
    ELSE SetBy(CHOOSE k \in Setting(o) : \A j \in Setting(o) : j <= k)

\* When the program runs, every option has the last value given for it before
\* the separator, and nothing there was an option that is not known, asks for
\* help or lacks its value.
OptionsAsGiven ==
    loc = "run" =>
        /\ options = [o \in Options |-> Given(o)]
        /\ \A k \in Before : IsOption(words[k]) =>
             /\ OptionOf(words[k]) \in Options
             /\ words[k].attached \/ k < arg_num

\* Every command line is accepted or refused.
Terminates == <>(loc \in {"missing", "exit_success", "exit_failure", "crashed", "run"})

=============================================================================
