------------------------------- MODULE Callbox -------------------------------
(***************************************************************************)
(* The whole of a run, composed: Workflow reads the rules file and removes *)
(* the rules, Tracer supervises the program in between, and the verdicts   *)
(* Tracer finds are those Matcher allows under the rules that were read.   *)
(* The one step Run of Workflow becomes a fork and all steps of Tracer.    *)
(*                                                                         *)
(* The supervisor is one thread: it traces or it does something else.  The *)
(* calls are ordinary ones; which calls have handlers of their own, and    *)
(* what these read, is in Matcher alone.                                   *)
(***************************************************************************)
EXTENDS Workflow

CONSTANTS
    Calls, ExecCall, ExitCall, NoCall, JunkReturns,    \* as in Tracer
    RequestOf,                                         \* the row and registers of a call
    IntSize, Number, Low, High, WordAt, DataAt, NoData, Matches, ArrayOf  \* as in Matcher

ASSUME CallboxAssumption ==
    /\ \A c \in Calls : /\ RequestOf[c].row \in Syscalls
                        /\ RequestOf[c].raw \in [Positions -> Nat]
                        \* what a register points to can be read
                        /\ \A p \in Positions :
                             ArgTypes[RequestOf[c].row][p] \in {"STRING", "ARRAY"} =>
                                DataAt[RequestOf[c].raw[p]] # NoData
    /\ {ExecCall, ExitCall} \subseteq Calls /\ ExecCall # ExitCall /\ NoCall \notin Calls
    /\ JunkReturns \subseteq 0 .. 255 /\ JunkReturns # {}
    /\ Readable \subseteq Numeric \X Texts /\ IntSize \in Nat \ {0}

VARIABLES
    input,     \* cli_arguments->input_file: not given, opened, or not there
    forked,    \* trace_program has forked
    verdicts,  \* what the rules say of each call
    \* Tracer's variables; trace_result is the value of trace_program
    tracer, status, in_syscall, is_filtered, result, tracee_status, trace_result, lines,
    tracee, image, asked, orig_rax, rdi, rax, answer, pending, doomed, tracing, waitable, death

T == INSTANCE TracerProofs WITH   \* Tracer, and what is proved of it
        rules <- verdicts, returned <- trace_result, Exec <- ExecCall, Exit <- ExitCall
M(c) == INSTANCE Matcher WITH
        request <- RequestOf[c], Lines <- {}, Requests <- {}, CaseOf <- <<>>,
        line <- {}, i <- 0, received_args <- {}, argument_num <- 0,
        required_action <- "NONE_ACTION", held <- {}, lost <- {}, unread <- {}

tracerVars == <<tracer, status, in_syscall, is_filtered, result, tracee_status, trace_result, lines>>
traceeVars == <<tracee, image, asked, orig_rax, rdi, rax, answer, pending, doomed, tracing,
                waitable, death>>
runVars == <<input, forked, verdicts, tracerVars, traceeVars>>
allVars == <<vars, runVars>>

CallboxInit ==
    /\ Init
    /\ input \in {"none", "open", "missing"}
    /\ forked = FALSE
    /\ verdicts = [c \in Calls |-> "NO_RULES"]
    /\ T!Init

\* What get_rules_for_syscall_id and print_blocked_syscall_arguments say of c.
VerdictsOn(c) ==
    IF rules[RequestOf[c].row].kind = "NULL" THEN {"NO_RULES"} ELSE M(c)!Verdicts

\* Everything but the program's run.
Prepare ==
    /\ \/ Start \/ Parsed \/ Clean \/ CleanFails \/ Exit
       \/ Parse /\ UNCHANGED workflowVars
    /\ UNCHANGED runVars

Fork ==
    /\ loc = "run" /\ ~forked
    /\ forked' = TRUE
    /\ \E allowed \in {[c \in Calls |-> VerdictsOn(c)]} :
         verdicts' \in {v \in [Calls -> T!Verdicts] : \A c \in Calls : v[c] \in allowed[c]}
    /\ UNCHANGED <<vars, input, tracerVars, traceeVars>>

ForkFails ==
    /\ ~forked /\ RunFails
    /\ UNCHANGED runVars

\* Mutant of Traced: what dup2 returns is not looked at.
TracedUnchecked(step) ==
    /\ loc = "run" /\ forked
    /\ step
    /\ UNCHANGED <<vars, input, forked>>

\* The tracer, the program and the kernel, while there is a program.  The child
\* gets no further than dup2 if the input file could not be opened.
Traced(step) ==
    /\ loc = "run" /\ forked
    /\ step
    /\ tracee = "setup" /\ input = "missing" => tracee' # "signal"
    /\ UNCHANGED <<vars, input, forked>>

\* Mutant of Returned: the program ends without removing the rules.
ReturnedUncleaned ==
    /\ loc = "run" /\ forked /\ tracer = "done"
    /\ loc' = "done"
    /\ UNCHANGED <<tableVars, file, parserVars, workflowVars, runVars>>

Returned ==
    /\ forked /\ tracer = "done" /\ Run
    /\ UNCHANGED runVars

SupervisorCrashes ==
    /\ forked /\ tracer = "crashed" /\ RunFails
    /\ UNCHANGED runVars

Ended == loc \in {"done", "crashed"} /\ UNCHANGED allVars

Supervise == Prepare \/ Fork \/ ForkFails \/ Returned \/ SupervisorCrashes

CallboxNext ==
    \/ Supervise
    \/ Traced(T!TracerStep) \/ Traced(T!TraceeStep)
    \/ Ended

CallboxSpec == CallboxInit /\ [][CallboxNext]_allVars

\* Tracer's fairness, and that of the one thread.
CallboxFairSpec ==
    /\ CallboxSpec
    /\ WF_allVars(Supervise)
    /\ WF_allVars(Traced(T!TracerStep))
    /\ WF_allVars(Traced(T!ChildSetupFails \/ T!ChildStops))
    /\ WF_allVars(Traced(T!KernelExits \/ T!KernelSkips))
    /\ WF_allVars(Traced(T!Die))

-----------------------------------------------------------------------------
(***************************************************************************)
(* What the rules file asks for a call, read off its tokens.               *)
(***************************************************************************)
Row(c) == RequestOf[c].row
Arity(c) == {p \in Positions : \A q \in 0 .. p : ArgTypes[Row(c)][q] # "NONE"}

\* The lines for the call; the first one counts.
LinesFor(c) == LinesOf(Row(c))
LineFor(c)  == CHOOSE e \in LinesFor(c) : \A d \in LinesFor(c) : e <= d
Asks(c)     == IF LinesFor(c) = {} THEN "NO_RULES" ELSE ActionFor(Text(First(LineFor(c))))

\* A value that can be compared with the argument at p, and does or does not
\* agree: a number in the width that the argument has for the kernel.
Comparable(c, p) ==
    LET v == ValueFor(LineFor(c), p)
        t == ArgTypes[Row(c)][p]
    IN  \/ t \in Numeric /\ <<t, v.text>> \in Readable
        \/ t \in {"STRING", "ARRAY"} /\ v.type = "STRING"
AgreesAt(c, p) ==
    LET v == ValueFor(LineFor(c), p)
        t == ArgTypes[Row(c)][p]
        w == RequestOf[c].raw[p]
    IN  IF t \in Numeric THEN M(c)!Int(t, Number[v.text]) = M(c)!Int(t, w)
        ELSE <<v.text, DataAt[w]>> \in Matches

\* The report of the call takes no number for a pointer: a long long is printed as a
\* text, and only 0 is safe to print so.
Reportable(c) ==
    \A p \in Arity(c) : ArgTypes[Row(c)][p] = "LLONG" => RequestOf[c].raw[p] = 0

\* The line says of each argument what it is in the call; or it has no arguments,
\* and the call no array: what lies behind EMPTY_RULES decides about those.
Mentioned(c) == {p \in Positions : Given(LineFor(c), p) # {}}
Described(c) ==
    /\ LinesFor(c) # {} /\ Arity(c) # {} /\ Reportable(c)
    /\ \/ Mentioned(c) = {} /\ \A p \in Arity(c) : ArgTypes[Row(c)][p] # "ARRAY"
       \/ Mentioned(c) = Arity(c) /\ \A p \in Arity(c) : Comparable(c, p) /\ AgreesAt(c, p)
Contradicted(c) ==
    \E p \in Mentioned(c) \cap Arity(c) : Comparable(c, p) /\ ~AgreesAt(c, p)

-----------------------------------------------------------------------------
(***************************************************************************)
(* Properties.                                                             *)
(***************************************************************************)

\* Every variable has its type, those of the parts included.
TypesHold == TypeOK /\ T!TypeOK /\ forked \in BOOLEAN

\* From the text to the kernel: a call that the file denies or filters, by a line
\* without arguments or one that gives all of them, is never performed while the
\* program is traced, from the first call of the child on, provided that the report
\* of the call takes no number for a pointer.  The exit_group(2) in place of a call
\* taken for denied is the exception.
DescribedNeverRun ==
    GoodFile /\ tracee = "kernel" /\ ~doomed /\ orig_rax \in Calls
    /\ Described(orig_rax) /\ Asks(orig_rax) \in {"BLOCK", "FILTER"} =>
        Asks(asked) = "BLOCK" /\ ~Contradicted(asked) /\ orig_rax = ExitCall /\ rdi = 2

\* And back: the program is refused a call, or stopped at one, only if a line of
\* the file has it, with that action, and no argument given there is another in
\* the call.
OnlyAskedForStopped ==
    GoodFile =>
        /\ tracee = "user" /\ rax = "EACCES" => Asks(asked) = "FILTER" /\ ~Contradicted(asked)
        /\ result = T!BLOCKED_SYSCALL => Asks(asked) = "BLOCK" /\ ~Contradicted(asked)

\* The program is executed only if all that was asked for could be prepared: the
\* rules file read without an error that the parser returned, the input opened.
RunsOnlyPrepared ==
    image = "program" =>
        /\ input # "missing"
        /\ given => exists /\ returned = EXIT_SUCCESS_

\* Seen from Workflow the run is one step: the rules stand still meanwhile, and
\* are removed only when the tracer has returned.
WorkflowKept == Spec

\* A program that makes a call the file denies is the end of the whole run: the
\* program stops, the tracer returns, the rules are removed, the supervisor exits.
\* Nor does the program go on alone if it is the supervisor that crashes.
DeniedEnds ==
    GoodFile /\ tracee = "enter" /\ Described(asked) /\ Asks(asked) = "BLOCK" ~>
        loc \in {"done", "crashed"} /\ tracee \in T!Gone

\* Without its input the program cannot even start, and the run comes to an end.
NoInputEnds == input = "missing" ~> loc \in {"done", "crashed"}

=============================================================================
