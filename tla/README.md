# Callbox: models and proofs

Callbox runs a program under `ptrace` and, following a rules file, blocks, filters or reports its
system calls. This directory holds TLA+ models of it, the TLC configurations that check them on
small instances, and theorems about them that the TLA+ proof system checks for all values of the
constants. Paths are relative to the repository; line numbers in `PROJECT.json` (`map`) tie every
definition to its source.

## 1. The system

| Part | State | Operations | Hard because |
|---|---|---|---|
| **Tracer** `src/executors.c` 3-171 (`run_tracer`, `trace_program`) | `status`, `in_syscall`, `is_filtered`, the tracee's registers, its exit status | one loop: wait for a stop, inspect an entry, block / filter / report, finish an exit, resume | two processes and the kernel interleave; entry and exit stops look alike; signals come through the same `waitpid`; SIGKILL can come between any two requests; every request can fail |
| **Rule table** `src/sandbox.c` 31-319 | columns `rules` and `action` of `syscalls_table`, list `syscalls_with_rules`, heap blocks | `set_rules_for_syscall_name`, `clean_syscall_rules`, `del_syscall_rules` | ownership of texts passes from parser to table; a rule is entered before it is checked; cells can be left unwritten |
| **Rules parser** `src/readers.c` 171-352 | position in the file, parser state, the line's action, name and arguments, `st` | one turn of a loop per token; `parse_array` | state carried from one line to the next, error exits at every token |
| **Lexer** `src/readers.c` 4-139 | the `FILE` position | `next_token`, `lex_string` | buffers that grow, one character of push-back |
| **Argument matching** `src/sandbox.c` 323-543 | the received arguments | read the arguments of a call from the tracee, compare, report | reads that fail, rules shorter than calls, types that differ |
| **Special calls** `include/special_syscalls.h` | none | nine handlers that choose arguments by an operation code | which argument exists depends on another |
| **Hash map** `include/hashmap.h`, instance `src/sandbox.c` 11-31 | buckets of linked entries | `new_`, `set_`, `get_`, `drop_`, `del_`; the program calls all but `drop_` | pointer surgery under collisions |
| **Workflow** `src/main.c`, `src/executors.c` 175-215 | exit status, descriptors | parse the rules, run the program, remove the rules | which error stops what |
| **Command line** `src/cli_arguments.c`, `src/argparse.c`, `src/main.c` 11-29 | `argv`, the options | find `--`, read the options before it, take the program's words after it | `argparse` writes to the array it reads, and the program's words are in it |
| Reports, utilities, table data | - | formatting, conversions | - |

How they interact. `main` reads the command line, fills the hash map with the numbers of the calls (`init_syscall_rules`)
and calls the workflow. The workflow has the parser read the rules file; at the end of each line the
parser calls `set_rules_for_syscall_name`, which looks the name up in the hash map and writes the
table. Then `trace_program` forks the program and `run_tracer` watches it: at every entry it looks up
the rule, has the matcher compare the arguments and acts on the verdict. At the end `main` removes the
rules. The table is written only before the fork and after the program has ended, so each part is modelled
apart, and `Callbox` composes them: Tracer alone starts from an arbitrary assignment of verdicts, Workflow
alone takes the run of the program as one step, and in `Callbox` the verdicts are those of the rules
that were read and the run is the steps of Tracer.

The concurrency is all in the tracer: the tracer and the tracee are two processes, and the kernel
decides when signals and SIGKILL arrive. Everything else is one thread; what is hard there is
protocol: long sequences of tokens, lines or map operations, errors half way, and who owns which
heap block.

What makes each part correct:

- Tracer: no blocked or filtered call is ever performed; the program sees `EACCES` for a filtered
  call and the kernel's own answer for all others; entries are not taken for exits; each call is
  reported once; no child is left behind; a blocked program ends.
- Rule table, parser, workflow: the rules in force are those of the file, in the table and in the
  list alike; a rule set in part is not enforced; no block is freed twice, and none is lost beyond those named in section 2; the
  program ends.
- Hash map: it is a map.
- Lexer: no character is dropped, doubled or given to the wrong token; its buffer holds what it writes;
  what it allocates it hands out or frees.
- Command line: the program gets exactly the words after the first `--`, the options those before it.
- All together: a call the file denies is never performed, one it does not mention never stopped, and
  the program starts only when everything asked for is in place.
- Matching: a verdict other than `NONE_ACTION` is given exactly when the mentioned arguments agree.

## 2. Modules

| Module | Models | Role |
|---|---|---|
| `SyscallGate` | the comments of `Action_type`, `include/sandbox.h` 34-39 | abstract promise to the user |
| `Tracer` | `run_tracer`, `trace_program`, the forked child, the kernel's side of ptrace | detailed model; implements `SyscallGate` (`GateSafety`, `GateSpec`) |
| `TracerProofs` | | theorems about `Tracer` |
| `RuleTable` | `set_rules_for_syscall_name`, `clean_syscall_rules` | operators and actions on the table |
| `RulesParser` | `parse_rules_from_file`, `parse_array` | EXTENDS `RuleTable` |
| `Workflow` | `main`, `execute_commands_workflow` | EXTENDS `RulesParser`; the specification and its properties |
| `WorkflowProofs` | | theorems about `Workflow`: heap, table, list |
| `RulesFileProofs` | | theorem about `Workflow`: the rules are those of the file; EXTENDS `WorkflowProofs` |
| `SpecialSyscalls` | the nine handlers of `include/special_syscalls.h` | which arguments a call has and how they are read |
| `Matcher` | `print_blocked_syscall_arguments`, `cmp_syscall_argument`, what a report prints | EXTENDS `RuleTable` and `SpecialSyscalls`; the verdict on a call |
| `MatcherProofs` | | theorems about `Matcher` |
| `TokenStream` | what a lexer promises: tokens as a function of characters | abstract lexer |
| `Lexer` | `next_token`, `lex_string` | detailed model; implements `TokenStream` (`Stream`) |
| `LexerProofs` | | theorems about `Lexer` |
| `CommandLine` | `scan_cli_arguments`, `argparse_parse`, `prepare_tokens` | the specification and its properties |
| `CommandLineProofs` | | theorems about `CommandLine` |
| `Callbox` | `execute_commands_workflow` with the run in detail | EXTENDS `Workflow`, composes it with instances of `Tracer` (through `TracerProofs`, whose theorems then hold of the instance) and `Matcher`; implements `Workflow` (`WorkflowKept`) |
| `CallboxProofs` | | theorems about `Callbox`, from those of `TracerProofs`, `WorkflowProofs` and `RulesFileProofs` |
| `NameMap` | what a hash map promises | abstract map |
| `Hashmap` | `include/hashmap.h` | detailed model; implements `NameMap` (`MapSpec`) |
| `HashmapProofs` | | theorems about `Hashmap` |
| `MC*` | | constants for TLC |

### Tracer

`tracer` is the location in the C code: one location before each system call the tracer makes
(`waitpid`, each ptrace request, `kill`), so another process can act between any two of them.
Variables `status`, `in_syscall`, `is_filtered`, `result`, `tracee_status` are the C variables.
The tracee has its own state: `tracee` says where it is (in the child's set-up code, in user code, in
the kernel, stopped at an entry, at an exit or for a signal, zombie, reaped, or free of the tracer),
`orig_rax`, `rdi`, `rax` its registers, `pending` and `doomed` a pending signal and SIGKILL.
A call stands for a number with one choice of arguments, so it has one verdict, fixed before the fork:
`NO_RULES`, what `print_blocked_syscall_arguments` returns, or `UNREADABLE` when a rule compares a
text the tracer cannot read; that is a crash of the tracer (`sandbox.c:367`), after which the kernel
detaches the tracee.

Assumed: the tracee is one thread and stays in its process group; signals before `PTRACE_TRACEME`
other than SIGKILL are folded into SIGKILL; nobody kills the tracer. The failure of `fork`
and of opening the input are in `Workflow` and `Callbox`.

### RuleTable, RulesParser, Workflow

`Workflow` has one action per turn of the parser's loop, by token and state (with the second
token that a turn reads), one per node removed by `clean_syscall_rules` and one per stage of the
workflow. Files are sequences of tokens. A text is a model-level string; which texts name calls, read
as numbers of which type or as array elements are constants.

The heap is followed where ownership passes on: names, values and arrays are blocks, `live` those
allocated, and parser locals and rule cells point to them. Memory that was never written is explicit:
a cell that `set_rules_for_syscall_name` skips is `RAW`, and code that reads it may find anything;
where that can crash (printing it, freeing it) there is an action for the crash beside the one for
survival. A name that was freed but is still pointed to may read as any text. The missing return at
the end of `set_rules_for_syscall_name` is a choice between success and error.

`clean_arguments` frees by the type of the cell, so a number kept as its text (a variadic position has no type to convert it
to, `sandbox.c:269`) stays allocated when the rule is removed. `HeapBalances` counts at the end of a run what is left against the tokens
of the file: such numbers, numbers that did not read (`continue` without `free`), values given a second time in a line, and the values of a
second line for a call. It speaks of files of rules read to the end; a refused line leaves more.
`NoHalfRuleEnforced` is about texts and arrays: a number that did not read leaves its cell without a value too, and
such a rule is enforced (`Matcher` gives the cell any value). `LoadedAsWritten` counts lines that end with a newline; the code drops
a last line without one.

Not followed: texts of operators compared within one turn and of wrong separators (leaks), the
`FILE`, elements of arrays beyond whether there are any, malloc failing. A rules file that cannot be
opened is a crash (`fopen`'s NULL goes to `getc`).

### Matcher and SpecialSyscalls

A behaviour of `Matcher` is one line of a rules file, made into a rule by `SetRules` of `RuleTable`, and
one call with its six registers; nothing but the rule is kept from one call to the next, so one call
is enough. `Collect` and `Compare` are turns of the two loops of `print_blocked_syscall_arguments`; a
special call is read in one step, `CollectSpecial`, by the tables of `SpecialSyscalls`: the arguments a
handler always reads, those it reads for a case of the operation code, and what it does when a read
fails. Any read of the program's memory may fail. A received argument is its type, the words of its
union as numbers where they are numbers, and the text or bytes it points to, so that a comparison
that takes a word for another member of the union finds what the code finds. A cell that was never
written, or lies behind the end of the rule or behind `EMPTY_RULES`, may compare in any way; a word of
the program followed as a pointer of the supervisor may do anything, crash included. `unread`, a
history variable, keeps which reads failed.

The properties do not look at the cells of the rule to decide what should happen: they compare the
verdict with the line and the registers. `Clear` names the positions where a line can be relied on.

What can go wrong in the report is followed as far as it can crash: a NULL text, an array of size 0 (of which 0 - 1 bytes are
printed), a call without arguments (`args[-1]`), and a long long, whose format in `print_message.c:52` is that of a text,
so that any number but 0 is followed as a pointer (`PrintedAsText`; `pread64` and `pwrite64` have such an argument). `CrashesExplained`
does not say that these do not happen: it says that there are no others, and that the call agreed with its line.

`held` are the blocks that the received arguments own, `lost` those that nothing points to any more: a read of a text that
fails leaves its buffer allocated, for `read_str_from_tracee` frees it only if it is NULL (`sandbox.c:454`), and the early return
for a cell of another type (`sandbox.c:498`) leaves what was read before. `BlocksAccounted` says exactly which are left.

Not followed: which operation codes belong to a case (`CaseOf` gives every case a code), the bytes of
texts (`Matches` says which agree, prefixes and regular expressions alike), malloc failing.

`Verdicts` is what the loops give, taken together, for a call without a handler; `VerdictsFollow` says that
every run of the loops ends in one of them, and `Callbox` uses them in place of the loops.

### TokenStream and Lexer

A file is a sequence of bytes; `TokenStream` says by quantifiers over positions where the next token
begins and ends and what text it has. `Lexer` has one step per turn of a loop, `getc` included, and the
buffer as the number of characters the code believes it holds (`capacity`) and the number it has
(`size`): these differ after the first growth, and that is why a text of exactly the first capacity is the one whose
terminator falls outside. `at`, the abstract position, moves when a token is handed out, so the refinement also
says where the next token is looked for. The byte 0xff equals `EOF` once it is in a `char`; both
modules have it as the end of the file for whoever meets it, and a file goes on behind it only if it
ended a word. The tokens that `RulesParser` takes are those `TokenStream` hands out, without the texts'
characters.

### CommandLine

One step per word. `argv` is one array with three readers: the search for `--`, `argparse_parse` (which
moves plain words to its front and puts a NULL behind them) and `prepare_tokens`. A word is its kind, its
name and whether a value is attached. If `argv[0]` is itself `--`, `argparse` counts from -1; the model
follows it to the end of the array, where it crashes, or to an exit before.

### Callbox

The variables of `Workflow`, those of `Tracer` under the same names (`verdicts` for its `rules`), and
`input` and `forked`. `Fork` fixes the verdict of every call from the rules read, by `Matcher`'s
`Verdicts` for its row and registers: memory of the program does not change while it is stopped. From then
until the tracer returns, only Tracer's steps happen. A supervisor that crashes in a comparison is the end of the run,
and the kernel lets the program go on unguarded. `Described` and `Contradicted` read the file, not the table,
to say what it asks for; a rule without arguments for a call that takes an array is not counted as
described, because the code then reads behind `EMPTY_RULES` (`sandbox.c:488`), nor is a call with a long long other than 0
(`Reportable`), whose report may crash the supervisor before the call is stopped. Numbers are compared in the
width of the type that the table gives the argument, as the code compares them, and it is assumed that the text or the
bytes an argument points to can be read (`CallboxAssumption`); what happens otherwise is in `Matcher`. Both
properties speak of the time while the program is traced: a tracer that has crashed guards nothing. The exception in
`DescribedNeverRun` is the `exit_group(2)` that the tracer puts in the place of a denied call, also when the file asks to stop
`exit_group`.

### NameMap and Hashmap

`drop_` is modelled as the macro defines it; nothing in the repository calls it, so the program itself only ever sets, gets and, at the
end, frees. `Hashmap` takes each turn of each loop as a step, over entries linked in a heap whose freed blocks
are wiped. An operation is requested (`Request`) and runs to its return. `Map`, the refinement
mapping, reads the value of every key off the allocated entries, not off the chains, so a refinement
step also says that walking the chain finds what is allocated.

## 3. What the runs check

| Run | Configuration | Shows |
|---|---|---|
| `tracer` | `MCTracer.cfg` | all properties of `Tracer`, the inductive invariant, `SyscallGate` with its fairness, for every assignment of the six verdicts to three calls |
| `rules` | `MCWorkflow.cfg` | table, list and heap agree; the rules are those of the file; half-set rules are not enforced; rules stay; what is still allocated at the end is exactly what the code is known to lose; the program ends |
| `matching` | `MCMatcher.cfg` | a call is acted on only if it agrees with its line; a clear rule misses no call it describes; the supervisor crashes only on a call that agrees with its line and for one of the reasons named; which blocks are left of what was read |
| `lexer` | `MCLexer.cfg` | nothing is written outside the buffer but one terminator; no buffer is lost but on a bad escape; the tokens are those of `TokenStream`, to the end |
| `command_line` | `MCCommandLine.cfg` | the program and the options are as given; every command line is accepted or refused |
| `callbox` | `MCCallbox.cfg` | a call the file denies or filters is never performed; nothing else is stopped; the program starts only when prepared; the whole implements `Workflow` with one step for the run; a denied call whose arguments can be reported, or a missing input, ends everything, the program included |
| `hashmap` | `MCHashmap.cfg` | chains are well formed, `del_` frees all, the heap implements the map, operations return |

The properties, in words: `StoppedCallsNeverRun`, `AnswersAreTrue`, `InSync`,
`ReportedOnceBeforeRun`, `NothingLeftBehind`, `ResultIsTrue`, `HandsOff`, `BlockedEnds`, `GateSafety`
and `GateSpec` (Tracer); `RecordedOnce`, `OneOwner`, `LoadedAsWritten`, `NoHalfRuleEnforced`,
`HeapBalances`, `FirstRuleStays`, `Terminates` (Workflow); `OnlyMatchesActedOn`,
`ClearRulesMissNothing`, `CrashesExplained`, `BlocksAccounted`, `VerdictsFollow` (Matcher); `InsideBuffer`,
`AllHandedOut`, `Stream` (Lexer); `ProgramAsGiven`, `OptionsAsGiven`, `Terminates` (CommandLine);
`DescribedNeverRun`, `OnlyAskedForStopped`, `RunsOnlyPrepared`, `WorkflowKept`, `DeniedEnds`,
`NoInputEnds` (Callbox); `Linked`, `Swept`, `MapSpec` (Hashmap).
Each is stated and explained in its module, and for each there is a mutant of the model, a plausible
slip in the code, that TLC finds it violated by.

Bounds and why they are enough:

- Tracer: three calls, which are `execve` and `exit_group`, which the code or the kernel treats
  apart, and one that stands for all others. Nothing in the tracer depends on two ordinary calls
  being different; sequences of calls, signals and interrupted calls are unbounded (the
  state has no counter except `lines`, which every new call resets).
- Workflow: three argument positions instead of six and three calls with one position of every kind
  the table distinguishes; seven heap blocks, which two lines do not exhaust. Files are all
  sequences of up to two of 31 kinds of lines (12 good, 19 bad), and all sequences of up to four of
  ten tokens alone and after a good line. Two lines are enough for one line to disturb the next and
  for duplicate rules; the sequences of tokens reach every error of the parser. Within these files
  there is no other bound.
- Matcher: all nine special rows with the types the table gives them, and six ordinary rows: an array
  in front, an array behind, an address, a variadic position without a handler, a long long (`pwrite64`), no argument. A line mentions
  any set of positions with a value of every kind the parser makes. Registers take a value that agrees,
  one that differs, and one that agrees only in the bits of an int (8 = 2^32); operation codes
  take every case and none. There is no loop but those over six positions.
- Lexer: all files of up to five bytes (`MaxLen`) over ten kinds of character, one or two of each kind that the code
  tells apart; a buffer of two characters (`Capacity`) is filled, grown once and filled again within that.
- Command line: up to five words (`MaxWords`) of nine kinds: an option, its value, a plain word, the separator
  and a word of the program fit, in any order, also twice the same option or separator.
- Callbox: four rows, five calls (two to one row with different arguments, so that a line can describe one
  and contradict the other; one with a long long that crashes the report), sixteen files: no line, an error, each of
  ten lines, four pairs. What
  a file can do to the table is `rules`, what a rule can say of a call `matching`, what can
  happen in a run `tracer`; this run is about how they fit.
- Hash map: two buckets, three colliding keys and one apart, two values, three entries at a time:
  chains are cut at their head, middle and end. Sequences of operations are unbounded.

Fairness. The tracer is a process that the scheduler runs (weak fairness of its steps); so is the
child's set-up code; a call to `exit_group` or to nothing returns, and a killed process dies. Nothing
is assumed of the traced program, which may compute for ever, nor of ordinary calls, which may block
for ever, nor of signals. The parser and the hash map are code of one thread that goes on as long as it can
(weak fairness of the program's step), and so are the lexer and the reading of the command line; in `Callbox`
the supervisor's steps outside the tracer have that fairness and those inside Tracer's; callers of the hash map need not call.

Deadlock is checked in all runs; where the program has ended there is an explicit stuttering step.

### Where the code and its comments disagree

Five runs check, each, one thing a comment or message of the source says and are expected to fail:

| Run | The source says | The model shows |
|---|---|---|
| `exec_failure` | executors.c 122-127: the parent handles exit code 127 | `trace_program` returns success |
| `exit_status` | executors.c 153: the exit status of the tracee is returned | after an early exit, an unset variable is |
| `errors_reported` | readers.c 271 and the other `// error` comments | an error after a good line returns 0; the program runs without the rest of the rules |
| `nothing_done` | sandbox.c 521 | a call that agrees in all arguments its rule mentions is let through, because unwritten cells and cells behind the rule are compared |
| `numbers_converted` | readers.c 325 | a number for a variadic argument is never converted: the rule acts when the argument is 0 |

## 4. What is proved

All theorems hold for any constants that satisfy the named `ASSUME`s of the modules, which TLC
evaluates for the instances above. Every safety property of a passing run is stated by a theorem, but for `HeapBalances`.

`TracerProofs` (any set of calls that has `execve` and `exit_group`, any rules):
`TypeCorrect`, `Invariance` (`Spec => []IInv`), `StoppedNeverRun`, `TrueAnswers`, `Synchrony`,
`ReportedOnce`, `NoneLeft`, `TrueResult`, `KeepsHandsOff`, and `Refinement`: every behaviour of `Tracer` is, through
`phase` and `reply`, a behaviour of the safety part of `SyscallGate`. The safety properties of a run
speak of moments: "when the kernel has the call". They follow from what holds at all the other
moments, which is what `IInv` adds: for each location of the tracer, where the tracee can be and
what the registers hold; that `in_syscall` says what the next syscall stop is; that `is_filtered`
and the emptied `orig_rax` belong to the call that is under way; that a tracee that is not stopped
is not the tracer's to change. The cases are the actions of `Next`, and under each the conjuncts it can
disturb.

`WorkflowProofs` (any table, any files, any number of positions and blocks): `TypeCorrect`,
`Invariance`, `ListAgrees` (`RecordedOnce`), `OwnedOnce` (`OneOwner`), `WholeRules`
(`NoHalfRuleEnforced`), `FirstStays` (`FirstRuleStays`). `OneOwner` is not inductive by itself: the
parser must also know that between lines its name points to nothing (`NameFreed`: otherwise the block
could be given out again and freed through the old pointer), that an argument with a type has a
body (`BodiesGiven`: it goes into the rule), and which locals mean anything at which location
(`Control`). `NoHalfRuleEnforced` rests on `HalfReported`: a rule set in part has made the parser
return an error, for which no step leads to `run`. The lemmas about `Installed` and `Released` (what of a
line's blocks goes to the rule, what is freed, and that these are disjoint) carry the step of `EndLine`.

`RulesFileProofs` (the same): `RulesAsWritten` (`LoadedAsWritten`): after a file of well-formed lines the table
holds, for every call, the rule of its first line, cell by cell. The property looks at whole lines, the parser at
one token at a time; `FInv` says where in the line it is. What was left over from the line before is gone
(`Emptied`); the action, the name and the values read so far are those of the line, each at the
position that was the last one named in front of it (`LinesRead`, with `Mark` for that position and `Holds`
and `Counted` for what is at it); and the rows have the rules of the lines that are over (`TableRead`). No induction
over the file is needed: an end of line is the only step that adds to the lines that are over, and it adds one.

`HashmapProofs` (any keys, hash function, number of buckets and amount of memory): `NothingLost` (`Linked`), `AllFreed`
(`Swept`) and `ImplementsMap`, the safety part of `MapSpec`. That an entry hangs in its bucket's chain would be an induction
along the chain. `From(node, first)`, the entries in every set that has `first` and is closed under `next`,
says it without one, and the lemmas `FromPush` and `FromCut` say what an insertion and a removal do to it. The
invariant adds to it how far a walk is (`Walking`: the entry looked for has not been passed, and `prev` is the one
before) and which buckets `del_` has emptied (`Sweeping`).

`MatcherProofs` (any table, line, call and memory): `Invariance`, `TypeCorrect`, `MatchesOnly` (`OnlyMatchesActedOn`),
`NothingMissed` (`ClearRulesMissNothing`), `CrashesHaveReasons` (`CrashesExplained`), `BlocksCounted` (`BlocksAccounted`) and
`VerdictIsAllowed` (`VerdictsFollow`), which is what `Callbox` relies on when it takes `Verdicts` for the loops. The invariant has one
part for each location: the positions before `argument_num` hold a reading of their register (`ReadUpTo`; `AllRead` for the
special calls too), those before `i` may be the same as their cell (`Passed`), and the verdict has a reason (`Decided`).
From there the work is in the lemmas that relate a cell to the line it was made of (`CellAsked`), a
received argument to the register it was read from (`ReceivedActual`), and the outcome of comparing
the two to whether line and register agree (`ComparedRight`). Assumed of the table: the arguments of a call
are contiguous and the last one is no array (its length is the argument behind it); rows of special calls are `VARIAD` or
`NONE` behind the arguments that are always there.

`LexerProofs` (any alphabet, any file, any first size of the buffer): `LexerTypes` (`TypeOK`), `BufferHolds` (`InsideBuffer`),
`NoBlockLost` (`AllHandedOut`) and `KeepsPromise`, the safety part of `Stream`: step by step, the lexer is a
`TokenStream`. For the buffer the invariant is that the block has one byte more than `capacity` once it has grown, as many before, and never
more characters than `capacity`. For the tokens it is `Place`: the character read last is the one at some position `q` (`At`),
and what is in the buffer is the text, or the word, from where the token begins up to `q` (`InText`, `InWord`). A text
at a turn of the loop has an even number of backslashes before `q` (`Even`), so a backslash there escapes and a quote
there closes; `EvenBackslash` carries it over two characters at once. `TextGrows` says that the abstract
text grows by the character put into the buffer, without a recursion over the text: a character has its place by how
many of the kept ones are not behind it.

`CommandLineProofs` (any words, any number of them): `TypeCorrect` (`TypeOK`), `GivenProgram` (`ProgramAsGiven`)
and `GivenOptions` (`OptionsAsGiven`). The words copied never
overtake the word read (`cpidx < at` while words are left), and what is read is before the separator: so no write reaches the words
behind it, at any location. With `argv[0]` a separator this fails, but then the program is never run. Whether a word is
the value of the option before it depends on whether that one is itself a value; `IsValue` says it by the parity of a row of
options that take a value, and the invariant has that the word read next is none (`Free`) and that every option is
set to the last of its values that were passed (`SetTo`).

`CallboxProofs` (any table, files, calls and rules about them): `WholeKeepsWorkflow` (`WorkflowKept`), because
every step is one of `Workflow` or leaves its variables alone; with it all that is proved of `Workflow` holds of the
composition, such as `WholeRunsWholeRules` (`NoHalfRuleEnforced`). `StartsPrepared` (`RunsOnlyPrepared`) needs to
know the composition between the parts (`PInv`): before the fork there is no child, after it the supervisor is
past the parser, and without an input the tracer gets no further than its first request. `Tracer` has its rules
from the start, here they come with the fork; but until then it is in its initial state, whatever the
rules (`TInv`), so its invariant carries over: `WholeTypes` (`TypesHold`), `WholeStopsCalls`, and
`WholeKeepsGate`: the fork is a start of `SyscallGate` with the verdicts it fixes, and every other step of the composition is a
step of the gate or a stutter.
`WholeStopsUnderRules`: the verdicts are taken from the table, and the table stands still while the program runs
(`VInv`), so that whatever is stopped is stopped under a rule that is there.

Last, the two theorems about the whole program, from the file to the call: `DescribedCallsStopped`
(`DescribedNeverRun`) and `NoOtherCallStopped` (`OnlyAskedForStopped`). From the fork on, the verdict of every call answers the
file (`RInv`): by `RulesAsWritten` the table has the line for the call (`LineInForce`), comparing its cells with
the call's registers can only come out as the line says (`OutcomeAt`), so a call that is described gets the line's action
(`DescribedVerdict`) and a verdict that stops has a line that asks for it (`VerdictAsked`). What the tracer does
under the verdicts is `TracerProofs`.

Proving corrected some statements. `Described` and `Contradicted` compared numbers at full width, where the code
compares as many bits as the type has. The exception in `DescribedNeverRun` was for calls that the file describes; a
call can also be denied that the file describes in part, for the line that is there does not contradict it, and
`exit_group(2)` is performed in its place too. `IsValue` was a recursion and is now a parity. What the matching proofs
need of a table, of lines and of memory had gone unsaid and is now assumed by name.

Types: `TypeOK` is part of what the runs check in Tracer (in `IInv`), Hashmap (in `Linked`), Matcher and CommandLine,
and is proved of all six and of Callbox (`TypesHold`); the runs of Workflow, Lexer and Callbox leave it to the proofs.

Only model-checked: `HeapBalances`, which counts blocks against the values of a whole file and would need an induction over it
(what can be said of one moment is `OneOwner`); liveness (`BlockedEnds`, `GateSpec`, `Terminates`, `DeniedEnds`, `NoInputEnds`, the
fairness of `MapSpec` and `Stream`), which needs ENABLED. The runs that expect a violation show one behaviour each and have
no theorem.

## 5. What is not modelled

- Formatting of reports, messages and usage; where reports are written (a failed open of the output
  file loses them).
- Option kinds and flags of `argparse` that the program's four options do not reach.
- Threads and children of the traced program (the tracer does not see them either), and memory that
  another process changes between the inspection of a call and its performance.
- The words in which the program's memory is read: any read may fail, and a read that does not fail is
  the text that is there.
- The contents of the table of system calls, which is a constant, and regular expressions (`Matches` says
  which texts agree).
- `malloc` failing. `realloc` failing is in `Lexer`.
- Code that is called from nowhere: `check_rules`, `reset_syscall_rules`, `read_rules_from_file`,
  `replace_esc_seq` and the escape sequences of `utils.c`, `wait_child_finish`.

Modelled but forbidden by no property, because nothing in the repository says otherwise or the run is a
plain one: `set_rules_for_syscall_name` ends without a return, so a good rule may be refused
(`sandbox.c:319`); a report of a long long may crash the supervisor (`print_message.c:52`); a line without a name after a first rule uses a freed name (`readers.c:244`); removing a rule goes
through six cells whatever its length (`sandbox.c:75`). The model takes every outcome of each, crash included, and
the properties above hold for all of them.

## 6. Plan

Done: all components of section 1 but the last, each with a run; their composition; every safety property
that a run checks proved, but for `HeapBalances`, and the safety part of every refinement.

Left:

1. The lexer and the parser as one: `Workflow` over the tokens of a `TokenStream`, whose texts are not followed now.
2. The verdicts of `Callbox` for calls with handlers of their own, which `Matcher` has and `Verdicts` leaves out.
