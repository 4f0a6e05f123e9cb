---------------------------- MODULE CallboxProofs ----------------------------
(***************************************************************************)
(* The composition, for every table, every file, any calls and any rules   *)
(* about them: it implements Workflow, so that what is proved of Workflow  *)
(* holds of the whole run, and it starts no program unprepared.            *)
(***************************************************************************)
EXTENDS Callbox, RulesFileProofs

\* A step of the supervisor is one of Workflow, or a fork, which Workflow does not see.
LEMMA SupervisorSteps == Supervise => [Next]_vars
<1> SUFFICES ASSUME Supervise PROVE [Next]_vars
    OBVIOUS
<1>1. CASE Prepare
    BY <1>1 DEF Prepare, Next
<1>2. CASE Fork
    BY <1>2 DEF Fork
<1>3. CASE ForkFails \/ SupervisorCrashes
    BY <1>3 DEF ForkFails, SupervisorCrashes, Next
<1>4. CASE Returned
    BY <1>4 DEF Returned, Next
<1> QED BY <1>1, <1>2, <1>3, <1>4 DEF Supervise

LEMMA EveryStep == [CallboxNext]_allVars => [Next]_vars
<1> SUFFICES ASSUME [CallboxNext]_allVars PROVE [Next]_vars
    OBVIOUS
<1>1. CASE Supervise
    BY <1>1, SupervisorSteps
<1>2. CASE Traced(T!TracerStep) \/ Traced(T!TraceeStep)
    BY <1>2 DEF Traced
<1>3. CASE Ended \/ UNCHANGED allVars
    BY <1>3 DEF Ended, allVars
<1> QED BY <1>1, <1>2, <1>3 DEF CallboxNext

\* To whoever looks at the rules and the parser, the run of the program is one
\* step: the tracer and the program change neither (execute_commands_workflow).
THEOREM WholeKeepsWorkflow == CallboxSpec => WorkflowKept
<1>1. CallboxInit => Init
    BY DEF CallboxInit
<1> QED BY <1>1, EveryStep, PTL DEF CallboxSpec, WorkflowKept, Spec

\* So no rule that was set only in part is in force when a program runs, however
\* the run of the program interleaves with the rest.
COROLLARY WholeRunsWholeRules == CallboxSpec => []NoHalfRuleEnforced
BY WholeKeepsWorkflow, WholeRules, PTL DEF WorkflowKept

(***************************************************************************)
(* No program is started unprepared.  Before the fork there is only the    *)
(* child that trace_program will fork; a program runs only behind run,     *)
(* which is reached with the rules read; without its input the child never *)
(* stops for the tracer, so the tracer gets no further than its first      *)
(* request.                                                                *)
(***************************************************************************)
RulesRead == given => exists /\ returned = EXIT_SUCCESS_

Opened  == loc \in {"parse", "array", "parsed"} => exists
Ready   == loc = "run" => RulesRead
Unborn  == ~forked => tracee = "setup" /\ image = "child" /\ tracer = "wait_first"
Born    == forked => RulesRead /\ loc \notin {"start", "parse", "array", "parsed"}
NoStart == input = "missing" =>
              /\ image = "child" /\ tracee \in {"setup", "zombie", "reaped"}
              /\ tracer \in {"wait_first", "setoptions", "reap", "done"}

PInv == Opened /\ Ready /\ Unborn /\ Born /\ NoStart

\* The parser hands over in parsed.
LEMMA ParserLocations ==
    Parse => /\ loc \in {"parse", "array"} /\ loc' \in {"parse", "array", "parsed", "crashed"}
             /\ UNCHANGED file
<1> SUFFICES ASSUME Parse
             PROVE  /\ loc \in {"parse", "array"} /\ loc' \in {"parse", "array", "parsed", "crashed"}
                    /\ UNCHANGED file
    OBVIOUS
<1> USE DEF At, InArray, Return, Fail, Crash
<1>1. CASE SkipLine \/ RefuseLine \/ EndLine \/ EndLineDangling \/ EndLineCrashes
    BY <1>1 DEF SkipLine, RefuseLine, EndLine, EndLineDangling, EndLineCrashes
<1>2. CASE ReadAction \/ ReadName \/ ReadArgument \/ RefuseOperator
    BY <1>2 DEF ReadAction, ReadName, ReadArgument, RefuseOperator
<1>3. CASE ReadValue \/ OpenArray \/ RefuseValue
    BY <1>3 DEF ReadValue, OpenArray, RefuseValue
<1>4. CASE ArrayElement \/ SkipComma \/ CloseArray \/ RefuseArray \/ ArrayCrashes
    BY <1>4 DEF ArrayElement, SkipComma, CloseArray, RefuseArray, ArrayCrashes
<1>5. CASE Ignore \/ RefuseToken \/ EndOfFile
    BY <1>5 DEF Ignore, RefuseToken, EndOfFile
<1> QED BY <1>1, <1>2, <1>3, <1>4, <1>5 DEF Parse

\* Neither the tracer nor the program can start what has no input.
LEMMA TracerCannotStart ==
    ASSUME NoStart, input = "missing", Traced(T!TracerStep)
    PROVE  NoStart'
<1> USE DEF NoStart, Traced
<1>1. T!TracerStep /\ input' = "missing"
    OBVIOUS
<1>2. CASE T!WaitFirst
    BY <1>2, <1>1 DEF T!WaitFirst, T!Collect, T!Goto
<1>3. CASE T!SetOptions
    BY <1>3, <1>1 DEF T!SetOptions, T!Fail, T!Return, T!Goto, T!Accepted, T!Stopped,
        T!SyscallStops, T!traceeVars
<1>4. CASE T!Reap
    BY <1>4, <1>1 DEF T!Reap, T!Collect, T!Goto, T!traceeVars
<1>5. ~(T!GetRegs \/ T!Inspect \/ T!Crash \/ T!GroupKill \/ T!GroupKillFails \/ T!Cont
         \/ T!Filter \/ T!Leave \/ T!Resume \/ T!Wait)
    BY DEF T!GetRegs, T!Inspect, T!Crash, T!GroupKill, T!GroupKillFails, T!Cont, T!Filter,
        T!Leave, T!Resume, T!Wait
<1> QED BY <1>1, <1>2, <1>3, <1>4, <1>5 DEF T!TracerStep

LEMMA TraceeCannotStart ==
    ASSUME NoStart, input = "missing", Traced(T!TraceeStep)
    PROVE  NoStart'
<1> USE DEF NoStart, Traced
<1>1. T!TraceeStep /\ input' = "missing"
    OBVIOUS
<1>2. CASE T!ChildSetupFails \/ T!Sigkill \/ T!Die \/ T!SignalArrives
    BY <1>2, <1>1 DEF T!ChildSetupFails, T!Sigkill, T!Die, T!SignalArrives, T!tracerVars
<1>3. ~T!ChildStops
    BY DEF T!ChildStops
<1>4. ~((\E c \in Calls : T!Ask(c)) \/ T!TakeSignal \/ T!KernelExits \/ T!KernelPerforms
         \/ T!KernelInterrupts \/ T!KernelSkips)
    BY DEF T!Ask, T!TakeSignal, T!KernelExits, T!KernelPerforms, T!KernelInterrupts,
        T!KernelSkips, T!Performing
<1> QED BY <1>1, <1>2, <1>3, <1>4 DEF T!TraceeStep

LEMMA InitPrepared == CallboxInit => PInv
BY DEF CallboxInit, Init, T!Init, PInv, Opened, Ready, Unborn, Born, NoStart

LEMMA NextPrepared == PInv /\ [CallboxNext]_allVars => PInv'
<1> SUFFICES ASSUME PInv, [CallboxNext]_allVars PROVE PInv'
    OBVIOUS
<1> USE DEF PInv, Opened, Ready, Unborn, Born, RulesRead
<1>1. CASE Prepare
    <2>1. UNCHANGED runVars
        BY <1>1 DEF Prepare
    <2>2. NoStart'
        BY <2>1 DEF NoStart, runVars, tracerVars, traceeVars
    <2>3. CASE Start
        BY <2>1, <2>2, <2>3 DEF Start, runVars, tracerVars, traceeVars, workflowVars, parserVars
    <2>4. CASE Parsed
        BY <2>1, <2>2, <2>4 DEF Parsed, runVars, tracerVars, traceeVars, parserVars
    <2>5. CASE Clean \/ CleanFails \/ Exit
        BY <2>1, <2>2, <2>5 DEF Clean, CleanFails, Exit, Crash, runVars, tracerVars, traceeVars,
            workflowVars, parserVars
    <2>6. CASE Parse /\ UNCHANGED workflowVars
        BY <2>1, <2>2, <2>6, ParserLocations DEF runVars, tracerVars, traceeVars, workflowVars
    <2> QED BY <1>1, <2>3, <2>4, <2>5, <2>6 DEF Prepare
<1>2. CASE Fork
    BY <1>2 DEF Fork, NoStart, vars, tracerVars, traceeVars, workflowVars, parserVars
<1>3. CASE ForkFails \/ SupervisorCrashes
    BY <1>3 DEF ForkFails, SupervisorCrashes, RunFails, Crash, NoStart, runVars, tracerVars,
        traceeVars, workflowVars, parserVars
<1>4. CASE Returned
    BY <1>4 DEF Returned, Run, NoStart, runVars, tracerVars, traceeVars, workflowVars, parserVars
<1>5. CASE Traced(T!TracerStep) \/ Traced(T!TraceeStep)
    <2>1. NoStart'
        <3>1. CASE input = "missing"
            BY <3>1, <1>5, TracerCannotStart, TraceeCannotStart
        <3>2. CASE input # "missing"
            BY <3>2, <1>5 DEF Traced, NoStart
        <3> QED BY <3>1, <3>2
    <2>2. forked /\ UNCHANGED <<vars, input, forked>>
        BY <1>5 DEF Traced
    <2> QED BY <2>1, <2>2 DEF vars, workflowVars, parserVars
<1>6. CASE Ended \/ UNCHANGED allVars
    BY <1>6 DEF Ended, NoStart, allVars, vars, runVars, tracerVars, traceeVars, workflowVars,
        parserVars
<1> QED BY <1>1, <1>2, <1>3, <1>4, <1>5, <1>6 DEF CallboxNext, Supervise

\* The program is executed only if the rules were read without an error that the
\* parser returned and the input was opened (execute_commands_workflow, dup2).
THEOREM StartsPrepared == CallboxSpec => []RunsOnlyPrepared
<1>1. PInv => RunsOnlyPrepared
    BY DEF PInv, Unborn, Born, NoStart, RulesRead, RunsOnlyPrepared
<1> QED BY InitPrepared, NextPrepared, <1>1, PTL DEF CallboxSpec

(***************************************************************************)
(* What is proved of Tracer for rules fixed at the start holds here too:   *)
(* until the fork the tracer is in its initial state, whatever the         *)
(* verdicts will be, and from then on they stand.                          *)
(***************************************************************************)
TInv == forked \in BOOLEAN /\ T!IInv /\ (~forked => T!Init)

LEMMA TracerStarts == T!Init => T!IInv
BY T!InitInv, CallboxAssumption

LEMMA InitTraced == CallboxInit => TInv
BY TracerStarts DEF CallboxInit, TInv

LEMMA NextTraced == TInv /\ [CallboxNext]_allVars => TInv'
<1> SUFFICES ASSUME TInv, [CallboxNext]_allVars PROVE TInv'
    OBVIOUS
<1> USE DEF TInv
<1>s. UNCHANGED T!vars => T!IInv'
    BY T!NextInv, CallboxAssumption
<1>1. CASE UNCHANGED runVars
    <2>1. UNCHANGED T!vars
        BY <1>1 DEF runVars, tracerVars, traceeVars, T!vars, T!tracerVars, T!traceeVars
    <2>2. T!Init => T!Init'
        BY <1>1 DEF runVars, tracerVars, traceeVars, T!Init
    <2> QED BY <1>1, <1>s, <2>1, <2>2 DEF runVars
<1>2. CASE Fork
    <2>1. T!Init'
        BY <1>2 DEF Fork, tracerVars, traceeVars, T!Init
    <2>2. T!Init' => T!IInv'
        BY TracerStarts, PTL
    <2> QED BY <2>1, <2>2, <1>2 DEF Fork
<1>3. CASE Traced(T!TracerStep) \/ Traced(T!TraceeStep)
    <2>1. [T!Next]_(T!vars) /\ forked'
        BY <1>3 DEF Traced, T!Next
    <2> QED BY <2>1, T!NextInv, CallboxAssumption
<1> QED BY <1>1, <1>2, <1>3
    DEF CallboxNext, Supervise, Prepare, ForkFails, Returned, SupervisorCrashes, Ended, allVars

\* Every variable of the composition keeps its type.
THEOREM WholeTypes == CallboxSpec => []TypesHold
<1>1. TInv => T!TypeOK /\ forked \in BOOLEAN
    BY DEF TInv, T!IInv
<1>2. CallboxSpec => []TypeOK
    BY WholeKeepsWorkflow, TypeCorrect, PTL DEF WorkflowKept
<1> QED BY InitTraced, NextTraced, <1>1, <1>2, PTL DEF CallboxSpec, TypesHold

\* In a whole run, too, the kernel never performs a call that the verdicts on it
\* block or filter (run_tracer).
THEOREM WholeStopsCalls == CallboxSpec => []T!StoppedCallsNeverRun
<1>1. TInv => T!StoppedCallsNeverRun
    BY T!InvStops, CallboxAssumption DEF TInv
<1> QED BY InitTraced, NextTraced, <1>1, PTL DEF CallboxSpec

\* From the fork on the whole keeps SyscallGate's promise for the verdicts that the
\* fork fixed: the calls of the program are performed, refused or its end as
\* they say, and nothing that the supervisor does before or afterwards is more
\* than a stutter of the gate (execute_commands_workflow, run_tracer).
GateStep == IF Fork THEN T!Gate!Init' ELSE [T!Gate!Next]_(T!Gate!vars)
GateKept == T!Gate!Init /\ [][GateStep]_allVars

THEOREM WholeKeepsGate == CallboxSpec => GateKept
<1>1. T!Init => T!Gate!Init
    BY DEF T!Init, T!Gate!Init, T!Gate!Verdicts, T!Verdicts, T!phase, T!reply, T!Gone
<1>2. CallboxInit => T!Gate!Init
    BY <1>1 DEF CallboxInit
<1>3. TInv /\ [CallboxNext]_allVars => [GateStep]_allVars
    <2> SUFFICES ASSUME TInv, [CallboxNext]_allVars PROVE GateStep
        OBVIOUS
    <2> USE DEF GateStep
    <2>1. CASE Fork
        <3>1. T!Init'
            BY <2>1 DEF TInv, Fork, tracerVars, traceeVars, T!Init
        <3>2. T!Init' => T!Gate!Init'
            BY <1>1, PTL
        <3> QED BY <2>1, <3>1, <3>2
    <2>2. CASE Traced(T!TracerStep) \/ Traced(T!TraceeStep)
        <3>1. ~Fork
            BY <2>2 DEF Traced, Fork
        <3>2. [T!Next]_(T!vars) /\ T!IInv
            BY <2>2 DEF Traced, T!Next, TInv
        <3> QED BY <3>1, <3>2, T!StepRefines, CallboxAssumption
    <2>3. CASE UNCHANGED runVars
        <3>1. UNCHANGED T!vars
            BY <2>3 DEF runVars, tracerVars, traceeVars, T!vars, T!tracerVars, T!traceeVars
        <3>2. ~Fork
            BY <2>3 DEF Fork, runVars
        <3> QED BY <3>1, <3>2, T!StepRefines, CallboxAssumption DEF TInv
    <2> QED BY <2>1, <2>2, <2>3
        DEF CallboxNext, Supervise, Prepare, ForkFails, Returned, SupervisorCrashes, Ended, allVars
<1> QED BY InitTraced, NextTraced, <1>2, <1>3, PTL DEF CallboxSpec, GateKept

(***************************************************************************)
(* What the tracer is told comes from the table, and still stands there    *)
(* while the program runs.                                                 *)
(***************************************************************************)
ByTable(c) == verdicts[c] \in {"BLOCK", "FILTER"} =>
                 rules[Row(c)].kind # "NULL" /\ action[Row(c)] = verdicts[c]

VInv == forked /\ loc = "run" => \A c \in Calls : ByTable(c)

\* No step of the tracer or the program writes the verdicts.
LEMMA VerdictsKept == T!TracerStep \/ T!TraceeStep => UNCHANGED verdicts
<1>1. T!TracerStep => UNCHANGED verdicts
    BY DEF T!TracerStep, T!WaitFirst, T!SetOptions, T!GetRegs, T!Inspect, T!Crash, T!GroupKill,
        T!GroupKillFails, T!Cont, T!Filter, T!Leave, T!Resume, T!Wait, T!Reap, T!Fail
<1>2. T!TraceeStep => UNCHANGED verdicts
    BY DEF T!TraceeStep, T!ChildSetupFails, T!ChildStops, T!Ask, T!TakeSignal, T!KernelExits,
        T!KernelPerforms, T!KernelInterrupts, T!KernelSkips, T!SignalArrives, T!Sigkill, T!Die
<1> QED BY <1>1, <1>2

LEMMA NextVerdicts == PInv /\ VInv /\ [CallboxNext]_allVars => VInv'
<1> SUFFICES ASSUME PInv, VInv, [CallboxNext]_allVars, forked', loc' = "run", NEW c \in Calls
             PROVE  ByTable(c)'
    BY DEF VInv
<1>s. CASE loc = "run" /\ forked /\ UNCHANGED <<rules, action, verdicts>>
    BY <1>s DEF VInv, ByTable, Row
<1>1. CASE Fork
    <2>1. verdicts'[c] \in VerdictsOn(c) /\ UNCHANGED <<rules, action>>
        BY <1>1 DEF Fork, vars, tableVars
    <2>2. rules[Row(c)].kind = "NULL" => verdicts'[c] = "NO_RULES"
        BY <2>1 DEF VerdictsOn, Row
    <2>3. rules[Row(c)].kind # "NULL" => verdicts'[c] \in {"NONE_ACTION", action[Row(c)], "UNREADABLE"}
        BY <2>1 DEF VerdictsOn, Row, M!Verdicts, M!Row
    <2> QED BY <2>1, <2>2, <2>3 DEF ByTable, Row
<1>2. CASE Traced(T!TracerStep) \/ Traced(T!TraceeStep)
    BY <1>2, <1>s, VerdictsKept DEF Traced, vars, tableVars
<1>3. CASE Prepare
    <2>1. UNCHANGED forked
        BY <1>3 DEF Prepare, runVars
    <2>2. loc \notin {"start", "parse", "array", "parsed"}
        BY <2>1 DEF PInv, Born
    <2>3. CASE Clean
        BY <2>3 DEF Clean
    <2> QED BY <1>3, <2>2, <2>3, ParserLocations
            DEF Prepare, Start, Parsed, CleanFails, Exit, Crash
<1>4. CASE ForkFails \/ SupervisorCrashes \/ Returned
    BY <1>4 DEF ForkFails, SupervisorCrashes, Returned, RunFails, Run, Crash
<1>5. CASE Ended \/ UNCHANGED allVars
    BY <1>5, <1>s DEF Ended, allVars, vars, tableVars, runVars
<1> QED BY <1>1, <1>2, <1>3, <1>4, <1>5 DEF CallboxNext, Supervise

\* A call is taken for blocked, or answered with EACCES, only under a rule with
\* that action that is in the table at that moment (print_blocked_syscall_arguments,
\* run_tracer).
StoppedUnderRule ==
    loc = "run" =>
        /\ result = T!BLOCKED_SYSCALL =>
             rules[Row(asked)].kind # "NULL" /\ action[Row(asked)] = "BLOCK"
        /\ tracee = "user" /\ asked # NoCall /\ rax = "EACCES" =>
             rules[Row(asked)].kind # "NULL" /\ action[Row(asked)] = "FILTER"

\* In a whole run nothing is stopped without a rule that says so.
THEOREM WholeStopsUnderRules == CallboxSpec => []StoppedUnderRule
<1>1. TInv /\ VInv => StoppedUnderRule
    <2> SUFFICES ASSUME TInv, VInv, loc = "run" PROVE StoppedUnderRule
        BY DEF StoppedUnderRule
    <2>1. T!TypeOK /\ T!ResultIsTrue /\ T!AnswersAreTrue
        BY T!InvResult, T!InvAnswers, CallboxAssumption DEF TInv, T!IInv
    <2>2. CASE forked
        BY <2>1, <2>2 DEF VInv, ByTable, StoppedUnderRule, T!TypeOK, T!ResultIsTrue, T!AnswersAreTrue
    <2>3. CASE ~forked
        BY <2>3 DEF TInv, T!Init, StoppedUnderRule, T!SUCCESS, T!BLOCKED_SYSCALL
    <2> QED BY <2>2, <2>3 DEF TInv
<1>2. CallboxInit => VInv
    BY DEF CallboxInit, VInv
<1> QED BY InitPrepared, NextPrepared, InitTraced, NextTraced, NextVerdicts, <1>1, <1>2, PTL
        DEF CallboxSpec

(***************************************************************************)
(* From the text to the kernel.  While the program runs, the rule of a row *)
(* is what the first line about it says (RulesFileProofs); so it is known  *)
(* what comparing an argument with it finds, where the line gives a value  *)
(* that can be compared.                                                   *)
(***************************************************************************)

LEMMA CallFacts ==
    ASSUME NEW c \in Calls
    PROVE  /\ Row(c) \in Syscalls
           /\ Arity(c) \subseteq Positions
           /\ \A p \in Positions : RequestOf[c].raw[p] \in Nat /\ ArgTypes[Row(c)][p] \in Types
           /\ \A p \in Positions : M(c)!TypeAt(p) = ArgTypes[Row(c)][p]
           /\ M(c)!Taken = Arity(c)
<1>1. MaxArgs \in Nat \ {0}
    BY RuleTableAssumption
<1>2. Row(c) \in Syscalls /\ \A p \in Positions : RequestOf[c].raw[p] \in Nat
    BY CallboxAssumption DEF Row
<1>3. \A p \in Positions : ArgTypes[Row(c)][p] \in Types
    BY <1>2, RuleTableAssumption
<1>4. \A p \in Positions : M(c)!TypeAt(p) = ArgTypes[Row(c)][p]
    BY <1>1 DEF M!TypeAt, M!Row, Row, Positions
<1>5. M(c)!Taken = Arity(c)
    BY <1>1, <1>4 DEF M!Taken, Arity, Positions, M!Positions
<1> QED BY <1>2, <1>3, <1>4, <1>5 DEF Arity

\* What is converted to the width of its type stays as it is.
LEMMA IntTwice ==
    ASSUME NEW c, NEW t, NEW w \in Nat
    PROVE  M(c)!Int(t, M(c)!Int(t, w)) = M(c)!Int(t, w)
<1>1. IntSize \in Nat /\ IntSize > 0
    BY CallboxAssumption
<1>2. w % IntSize \in 0 .. IntSize - 1
    BY <1>1
<1>3. (w % IntSize) % IntSize = w % IntSize
    BY <1>1, <1>2
<1> QED BY <1>3 DEF M!Int

\* An argument that is not compared as an array is read in one way, and can be
\* printed, if the call has no number to be taken for a pointer.
LEMMA ReadAs ==
    ASSUME NEW c \in Calls, NEW p \in Arity(c),
           ArgTypes[Row(c)][p] = "ARRAY" => M(c)!RuleType(p) = "STRING",
           NEW way, way = IF ArgTypes[Row(c)][p] = "ARRAY" THEN "STRING" ELSE ArgTypes[Row(c)][p]
    PROVE  /\ M(c)!Received(p) = {M(c)!Fetch(way, RequestOf[c].raw[p], 0, FALSE)}
           /\ Reportable(c) => \A a \in M(c)!Received(p) : ~M(c)!CanCrash(a)
           /\ way \in Types \ {"NONE", "ARRAY"}
<1>1. p \in Positions /\ ArgTypes[Row(c)][p] \in Types \ {"NONE"}
    BY CallFacts, RuleTableAssumption DEF Arity, Positions
<1>2. M(c)!ReadsAs(p) = {way} /\ way \in Types \ {"NONE", "ARRAY"}
    BY <1>1, CallFacts DEF M!ReadsAs, Types, Numeric
<1>3. M(c)!Received(p) = {M(c)!Fetch(way, RequestOf[c].raw[p], 0, FALSE)}
    BY <1>2 DEF M!Received
<1>4. ~M(c)!CannotPrint(M(c)!Fetch(way, RequestOf[c].raw[p], 0, FALSE))
    <2>1. CASE way = "STRING"
        <3>1. DataAt[RequestOf[c].raw[p]] # NoData
            BY <1>1, <2>1, CallboxAssumption DEF Row
        <3> QED BY <2>1, <3>1 DEF M!Fetch, M!Read, M!Argument, M!CannotPrint, M!Numeric
    <2>2. CASE way \in Numeric
        BY <2>2 DEF M!Fetch, M!Argument, M!CannotPrint, M!Numeric, Numeric
    <2>3. CASE way \in {"ADDRESS", "VARIAD", "OTHER"}
        BY <2>3 DEF M!Fetch, M!Argument, M!CannotPrint, M!Numeric
    <2> QED BY <1>2, <2>1, <2>2, <2>3 DEF Types
<1>5. Reportable(c) => ~M(c)!PrintedAsText(M(c)!Fetch(way, RequestOf[c].raw[p], 0, FALSE))
    <2>1. CASE way = "LLONG"
        <3>1. Reportable(c) => RequestOf[c].raw[p] = 0
            BY <2>1 DEF Reportable
        <3>2. M(c)!Fetch(way, RequestOf[c].raw[p], 0, FALSE).word = RequestOf[c].raw[p]
            BY <2>1 DEF M!Fetch, M!Argument, M!Int, M!Numeric
        <3> QED BY <3>1, <3>2 DEF M!PrintedAsText
    <2>2. CASE way # "LLONG"
        <3>1. M(c)!Fetch(way, RequestOf[c].raw[p], 0, FALSE).type # "LLONG"
            <4>1. CASE way = "STRING"
                BY <4>1 DEF M!Fetch, M!Read, M!Argument, M!Numeric
            <4>2. CASE way \in Numeric
                BY <2>2, <4>2 DEF M!Fetch, M!Argument, M!Numeric, Numeric
            <4>3. CASE way \in {"ADDRESS", "VARIAD", "OTHER"}
                BY <4>3 DEF M!Fetch, M!Argument, M!Numeric
            <4> QED BY <1>2, <4>1, <4>2, <4>3 DEF Types
        <3> QED BY <3>1 DEF M!PrintedAsText
    <2> QED BY <2>1, <2>2
<1> QED BY <1>2, <1>3, <1>4, <1>5 DEF M!CanCrash

\* Where the line gives a value that can be compared, the comparison finds whether
\* it agrees, and the argument is not an array.
LEMMA OutcomeAt ==
    ASSUME NEW c \in Calls, RowOf(LineFor(c)) = Row(c), AsWritten(Row(c), LineFor(c)),
           rules[Row(c)].kind = "LIST", NEW p \in Mentioned(c) \cap Arity(c), Comparable(c, p)
    PROVE  /\ M(c)!Outcomes(p) = M(c)!If(AgreesAt(c, p))
           /\ ArgTypes[Row(c)][p] = "ARRAY" => M(c)!RuleType(p) = "STRING"
<1> DEFINE v == ValueFor(LineFor(c), p)
           t == ArgTypes[Row(c)][p]
           w == RequestOf[c].raw[p]
           cell == rules[Row(c)].cells[p]
<1>1. p \in Positions /\ w \in Nat /\ t \in Types \ {"NONE"} /\ M(c)!TypeAt(p) = t
    BY CallFacts, RuleTableAssumption DEF Arity, Positions
<1>2. Says(LineFor(c), p, cell)
    BY <1>1 DEF Mentioned, AsWritten
<1>3. M(c)!Rule = rules[Row(c)] /\ M(c)!Rule.cells[p] = cell
    BY DEF M!Rule, M!Row, Row
<1>4. CASE t \in Numeric
    <2>1. <<t, v.text>> \in Readable /\ v.text \in Texts
        BY <1>4, CallboxAssumption DEF Comparable, Numeric
    <2>2. cell.type = t /\ cell.text = v.text /\ v.text # NoText
        <3>1. ReadsAsType(t, v)
            BY <1>4, <2>1 DEF ReadsAsType, Numeric
        <3>2. cell.type = t /\ cell.text = v.text
            BY <1>1, <1>2, <1>4, <3>1 DEF Says
        <3> QED BY <2>1, <3>2, RuleTableAssumption
    <2> DEFINE a == M(c)!Fetch(t, w, 0, FALSE)
    <2>3. M(c)!Received(p) = {a} /\ a.word = M(c)!Int(t, w)
        <3>1. M(c)!Received(p) = {a}
            BY <1>4, ReadAs DEF Numeric
        <3>2. a.word = M(c)!Int(t, w)
            BY <1>4 DEF M!Fetch, M!Argument, M!Numeric, Numeric
        <3> QED BY <3>1, <3>2
    <2>4. M(c)!Compared(p, cell, a) = M(c)!If(AgreesAt(c, p))
        <3> HIDE DEF a
        <3>1. M(c)!Int(t, a.word) = M(c)!Int(t, w)
            BY <1>1, <2>3, IntTwice
        <3>2. AgreesAt(c, p) <=> M(c)!Int(t, Number[v.text]) = M(c)!Int(t, w)
            BY <1>4 DEF AgreesAt
        <3>3. M(c)!Compared(p, cell, a) = M(c)!If(M(c)!Int(t, Number[v.text]) = M(c)!Int(t, a.word))
            BY <1>1, <1>4, <2>2 DEF M!Compared, M!Converted, M!Numeric, Numeric
        <3> QED BY <3>1, <3>2, <3>3 DEF M!If
    <2>5. M(c)!Outcomes(p) = M(c)!Compared(p, cell, a)
        BY <1>3, <2>3 DEF M!Outcomes
    <2> QED BY <1>4, <2>4, <2>5 DEF Numeric
<1>5. CASE t \in {"STRING", "ARRAY"}
    <2>1. v.type = "STRING"
        BY <1>5 DEF Comparable, Numeric
    <2>2. cell.type = "STRING" /\ cell.text = v.text
        BY <1>2, <1>5, <2>1 DEF Says, Numeric
    <2>3. M(c)!RuleType(p) = "STRING"
        BY <1>3, <2>2 DEF M!RuleType
    <2> DEFINE a == M(c)!Fetch("STRING", w, 0, FALSE)
    <2>4. M(c)!Received(p) = {a}
        BY <1>5, <2>3, ReadAs
    <2>5. a.type = "STRING" /\ a.data = DataAt[w] /\ a.data # NoData
        <3>1. DataAt[w] # NoData
            BY <1>1, <1>5, CallboxAssumption DEF Row
        <3> QED BY <3>1 DEF M!Fetch, M!Argument, M!Read, M!Numeric
    <2>6. M(c)!Compared(p, cell, a) = M(c)!If(AgreesAt(c, p))
        <3> HIDE DEF a
        <3>1. AgreesAt(c, p) <=> <<v.text, a.data>> \in Matches
            BY <1>5, <2>5 DEF AgreesAt, Numeric
        <3>2. M(c)!Compared(p, cell, a) = M(c)!If(<<v.text, a.data>> \in Matches)
            BY <2>2, <2>5 DEF M!Compared, M!Numeric
        <3> QED BY <3>1, <3>2 DEF M!If
    <2>7. M(c)!Outcomes(p) = M(c)!Compared(p, cell, a)
        BY <1>3, <2>4 DEF M!Outcomes
    <2> QED BY <2>3, <2>6, <2>7
<1> QED BY <1>4, <1>5 DEF Comparable

\* The rule of the call is the line about it.
InForce(c) ==
    /\ rules[Row(c)].kind \in {"EMPTY", "LIST"} /\ action[Row(c)] = Asks(c)
    /\ RowOf(LineFor(c)) = Row(c) /\ AsWritten(Row(c), LineFor(c))

LEMMA LineInForce ==
    ASSUME TypeOK, TableRead, loc = "run", GoodFile, NEW c \in Calls, LinesFor(c) # {}
    PROVE  InForce(c)
<1>1. Row(c) \in Syscalls
    BY CallFacts
<1>2. LineFor(c) \in LinesOf(Row(c)) /\ rules[Row(c)].kind # "NULL" /\ AsWritten(Row(c), LineFor(c))
    BY <1>1, FirstLine DEF LineFor, LinesFor
<1>3. rules[Row(c)].kind \in {"NULL", "EMPTY", "LIST"}
    BY <1>1 DEF TypeOK, Rules
<1>4. action[Row(c)] = Asks(c)
    BY <1>2 DEF AsWritten, Asks
<1> QED BY <1>2, <1>3, <1>4 DEF InForce, LinesOf

\* A call that its line describes has the verdict the line asks for, and no other.
LEMMA DescribedVerdict ==
    ASSUME NEW c \in Calls, InForce(c), Described(c), NEW v \in VerdictsOn(c)
    PROVE  v = Asks(c)
<1>1. M(c)!Rule = rules[Row(c)] /\ M(c)!Row = Row(c)
    BY DEF M!Rule, M!Row, Row
<1>2. M(c)!Taken = Arity(c) /\ Arity(c) # {} /\ Arity(c) \subseteq Positions
    BY CallFacts DEF Described
<1>r. Reportable(c)
    BY DEF Described
<1>3. \A p \in Arity(c) : M(c)!TypeAt(p) = ArgTypes[Row(c)][p]
    BY <1>2, CallFacts
<1>4. v \in M(c)!Verdicts
    BY DEF InForce, VerdictsOn, Row
<1>5. ~M(c)!LetThrough /\ ~M(c)!Crashes
    <2>1. CASE Mentioned(c) = {} /\ \A p \in Arity(c) : ArgTypes[Row(c)][p] # "ARRAY"
        <3>1. M(c)!Rule.kind = "EMPTY"
            BY <1>1, <2>1 DEF InForce, AsWritten, Mentioned
        <3>2. \A p \in Arity(c) : \A a \in M(c)!Received(p) : ~M(c)!CanCrash(a)
            BY <1>r, <2>1, ReadAs
        <3>3. ~M(c)!LetThrough
            BY <1>2, <1>3, <2>1, <3>1 DEF M!LetThrough, M!May
        <3>4. ~M(c)!Crashes
            BY <1>2, <3>1, <3>2 DEF M!Crashes, M!May
        <3> QED BY <3>3, <3>4
    <2>2. CASE Mentioned(c) = Arity(c) /\ \A p \in Arity(c) : Comparable(c, p) /\ AgreesAt(c, p)
        <3>1. M(c)!Rule.kind = "LIST"
            BY <1>1, <1>2, <2>2 DEF InForce, AsWritten, Mentioned
        <3>2. \A p \in Arity(c) : /\ M(c)!Outcomes(p) = {"same"}
                                  /\ ArgTypes[Row(c)][p] = "ARRAY" => M(c)!RuleType(p) = "STRING"
            BY <1>1, <2>2, <3>1, OutcomeAt DEF InForce, M!If
        <3>3. \A p \in Arity(c) : \A a \in M(c)!Received(p) : ~M(c)!CanCrash(a)
            BY <1>r, <3>2, ReadAs
        <3>4. ~M(c)!May("differs") /\ ~M(c)!May("crash")
            BY <1>2, <3>2 DEF M!May
        <3>5. ~M(c)!LetThrough
            BY <1>2, <1>3, <3>2, <3>4 DEF M!LetThrough
        <3>6. ~M(c)!Crashes
            BY <1>2, <3>3, <3>4 DEF M!Crashes
        <3> QED BY <3>5, <3>6
    <2> QED BY <2>1, <2>2 DEF Described
<1>6. v = action[Row(c)]
    BY <1>1, <1>4, <1>5 DEF M!Verdicts
<1> QED BY <1>6 DEF InForce

\* A verdict that stops a call is what its line asks for, and the line does not
\* contradict the call.
LEMMA VerdictAsked ==
    ASSUME NEW c \in Calls, LinesFor(c) # {} => InForce(c),
           LinesFor(c) = {} => rules[Row(c)].kind = "NULL",
           NEW v \in VerdictsOn(c), v \in {"BLOCK", "FILTER"}
    PROVE  Asks(c) = v /\ ~Contradicted(c)
<1>1. rules[RequestOf[c].row].kind # "NULL" /\ v \in M(c)!Verdicts
    BY DEF VerdictsOn
<1>2. InForce(c) /\ M(c)!Rule = rules[Row(c)] /\ M(c)!Row = Row(c)
    BY <1>1 DEF M!Rule, M!Row, Row
<1>3. v = action[Row(c)] /\ M(c)!ActedOn
    BY <1>1, <1>2 DEF M!Verdicts
<1>4. ASSUME Contradicted(c) PROVE FALSE
    <2>1. PICK p \in Mentioned(c) \cap Arity(c) : Comparable(c, p) /\ ~AgreesAt(c, p)
        BY <1>4 DEF Contradicted
    <2>2. rules[Row(c)].kind = "LIST"
        BY <1>2, <2>1 DEF InForce, AsWritten, Mentioned
    <2>3. M(c)!Outcomes(p) = {"differs"}
        BY <1>2, <2>1, <2>2, OutcomeAt DEF InForce, M!If
    <2>4. p \in M(c)!Taken /\ p < MaxArgs
        <3>1. p \in Positions /\ p \in M(c)!Taken
            BY <2>1, CallFacts
        <3> QED BY <3>1, RuleTableAssumption DEF Positions
    <2>5. "same" \in M(c)!Outcomes(p)
        BY <1>2, <1>3, <2>2, <2>4 DEF M!ActedOn, M!Arrives
    <2> QED BY <2>3, <2>5
<1> QED BY <1>2, <1>3, <1>4 DEF InForce

(***************************************************************************)
(* The verdicts are what the file asks for: so they are when the program   *)
(* is forked, and then neither file nor verdicts change.                   *)
(***************************************************************************)
Answered(c) ==
    /\ Described(c) => verdicts[c] = Asks(c)
    /\ verdicts[c] \in {"BLOCK", "FILTER"} => Asks(c) = verdicts[c] /\ ~Contradicted(c)

RInv == forked /\ GoodFile => \A c \in Calls : Answered(c)

\* What the file says stands as long as it and the place reached in it do.
LEMMA FileStands ==
    ASSUME UNCHANGED <<file, pos>>
    PROVE  /\ GoodFile' <=> GoodFile
           /\ \A c : LinesFor(c)' = LinesFor(c) /\ Asks(c)' = Asks(c)
           /\ \A c : (Described(c)' <=> Described(c)) /\ (Contradicted(c)' <=> Contradicted(c))
<1>1. Ends' = Ends /\ Complete' = Complete
    BY LinesStand DEF Complete
<1>2. GoodFile' <=> GoodFile
    BY <1>1, LinesStand DEF GoodFile
<1>3. \A c : LinesFor(c)' = LinesFor(c)
    BY <1>1, LinesStand DEF LinesFor, LinesOf, Row
<1>4. \A c : LineFor(c)' = LineFor(c)
    BY <1>3 DEF LineFor
<1>5. \A c : Asks(c)' = Asks(c)
    <2>1. \A e : Text(First(e))' = Text(First(e))
        BY DEF Text, TokenAt, First, LineOf, Ends
    <2> QED BY <1>3, <1>4, <2>1 DEF Asks
<1>6. \A c, p : ValueFor(LineFor(c), p)' = ValueFor(LineFor(c), p)
    BY <1>4, LinesStand DEF ValueFor
<1>7. \A c : Mentioned(c)' = Mentioned(c)
    BY <1>4, LinesStand DEF Mentioned
<1>8. \A c, p : (Comparable(c, p)' <=> Comparable(c, p)) /\ (AgreesAt(c, p)' <=> AgreesAt(c, p))
    BY <1>6 DEF Comparable, AgreesAt, Row, M!Int
<1>9. \A c : Arity(c)' = Arity(c)
    BY DEF Arity, Row
<1>10. \A c : (Described(c)' <=> Described(c)) /\ (Contradicted(c)' <=> Contradicted(c))
    BY <1>3, <1>7, <1>8, <1>9 DEF Described, Reportable, Contradicted, Row
<1> QED BY <1>2, <1>3, <1>5, <1>10

LEMMA AnsweredStands ==
    RInv /\ UNCHANGED <<file, pos, forked, verdicts>> => RInv'
<1> SUFFICES ASSUME RInv, UNCHANGED <<file, pos, forked, verdicts>>, forked', GoodFile', NEW c \in Calls
             PROVE  Answered(c)'
    BY DEF RInv
<1>1. Answered(c)
    BY FileStands DEF RInv
<1> QED BY <1>1, FileStands DEF Answered

\* The verdicts are found with the rules in force.
LEMMA ForkAnswers == TypeOK /\ TableRead /\ Fork => RInv'
<1> SUFFICES ASSUME TypeOK, TableRead, Fork, GoodFile', NEW c \in Calls
             PROVE  Answered(c)'
    BY DEF RInv
<1>1. loc = "run" /\ UNCHANGED <<file, pos>> /\ verdicts'[c] \in VerdictsOn(c)
    BY DEF Fork, vars, parserVars
<1>2. GoodFile
    BY <1>1, FileStands
<1>3. LinesFor(c) # {} => InForce(c)
    BY <1>1, <1>2, LineInForce
<1>4. LinesFor(c) = {} => rules[Row(c)].kind = "NULL"
    BY <1>1, <1>2, CallFacts DEF TableRead, Enforced, Loaded, LinesFor
<1>5. Described(c) => verdicts'[c] = Asks(c)
    BY <1>1, <1>3, DescribedVerdict DEF Described
<1>6. verdicts'[c] \in {"BLOCK", "FILTER"} => Asks(c) = verdicts'[c] /\ ~Contradicted(c)
    BY <1>1, <1>3, <1>4, VerdictAsked
<1> QED BY <1>1, <1>5, <1>6, FileStands DEF Answered

LEMMA NextAnswers == TypeOK /\ TableRead /\ PInv /\ RInv /\ [CallboxNext]_allVars => RInv'
<1> SUFFICES ASSUME TypeOK, TableRead, PInv, RInv, [CallboxNext]_allVars PROVE RInv'
    OBVIOUS
<1>s. UNCHANGED <<file, pos, forked, verdicts>> => RInv'
    BY AnsweredStands
<1>1. CASE Fork
    BY <1>1, ForkAnswers
<1>2. CASE Traced(T!TracerStep) \/ Traced(T!TraceeStep)
    <2>1. UNCHANGED <<vars, forked, verdicts>>
        BY <1>2, VerdictsKept DEF Traced
    <2> QED BY <2>1, <1>s DEF vars, parserVars
<1>3. CASE Prepare
    <2>1. UNCHANGED <<forked, verdicts>>
        BY <1>3 DEF Prepare, runVars
    <2>2. CASE forked
        <3>1. loc \notin {"start", "parse", "array", "parsed"}
            BY <2>2 DEF PInv, Born
        <3>2. UNCHANGED <<file, pos>>
            BY <1>3, <3>1, ParserLocations
                DEF Prepare, Start, Parsed, Clean, CleanFails, Exit, Crash, parserVars
        <3> QED BY <2>1, <3>2, <1>s
    <2>3. CASE ~forked
        BY <2>1, <2>3 DEF RInv
    <2> QED BY <2>2, <2>3
<1>4. CASE ForkFails
    BY <1>4 DEF ForkFails, runVars, RInv
<1>5. CASE SupervisorCrashes \/ Returned
    BY <1>5, <1>s
        DEF SupervisorCrashes, Returned, RunFails, Run, Crash, runVars, parserVars
<1>6. CASE Ended \/ UNCHANGED allVars
    BY <1>6, <1>s DEF Ended, allVars, vars, runVars, parserVars
<1> QED BY <1>1, <1>2, <1>3, <1>4, <1>5, <1>6 DEF CallboxNext, Supervise

LEMMA WholeAnswers == CallboxSpec => [](TInv /\ RInv)
<1>1. CallboxInit => RInv
    BY DEF CallboxInit, RInv
<1>2. FInv => TableRead
    BY DEF FInv
<1>3. CallboxSpec => []TypeOK
    BY WholeKeepsWorkflow, TypeCorrect, PTL DEF WorkflowKept
<1>4. CallboxSpec => []TableRead
    BY WholeKeepsWorkflow, FileInvariance, <1>2, PTL DEF WorkflowKept
<1> QED BY InitTraced, NextTraced, InitPrepared, NextPrepared, NextAnswers, <1>1, <1>3, <1>4, PTL
        DEF CallboxSpec

\* A call that the rules file describes and denies or filters is never performed
\* while the program is traced: every step between the text and the kernel is
\* right, and they are taken in the right order (parse_rules_from_file,
\* set_rules_for_syscall_name, print_blocked_syscall_arguments, run_tracer).
THEOREM DescribedCallsStopped == CallboxSpec => []DescribedNeverRun
<1>1. TInv /\ RInv => DescribedNeverRun
    <2> SUFFICES ASSUME TInv, RInv, GoodFile, tracee = "kernel", ~doomed, orig_rax \in Calls,
                        Described(orig_rax), Asks(orig_rax) \in {"BLOCK", "FILTER"}
                 PROVE  Asks(asked) = "BLOCK" /\ ~Contradicted(asked) /\ orig_rax = ExitCall /\ rdi = 2
        BY DEF DescribedNeverRun
    <2>1. T!StoppedCallsNeverRun /\ asked \in Calls
        BY T!InvStops, T!CallMade, CallboxAssumption DEF TInv
    <2>2. forked
        BY DEF TInv, T!Init
    <2>3. Answered(orig_rax) /\ Answered(asked)
        BY <2>1, <2>2 DEF RInv
    <2>4. verdicts[orig_rax] \in {"BLOCK", "FILTER"} /\ orig_rax # NoCall
        BY <2>3, CallboxAssumption DEF Answered
    <2>5. verdicts[asked] = "BLOCK" /\ orig_rax = ExitCall /\ rdi = 2
        BY <2>1, <2>4 DEF T!StoppedCallsNeverRun
    <2> QED BY <2>3, <2>5 DEF Answered
<1> QED BY WholeAnswers, <1>1, PTL

\* And nothing else is stopped: a call is refused, or ends the program, only if
\* the first line about it in the rules file asks for that and gives no argument
\* another value than it has (the same functions).
THEOREM NoOtherCallStopped == CallboxSpec => []OnlyAskedForStopped
<1>1. TInv /\ RInv => OnlyAskedForStopped
    <2> SUFFICES ASSUME TInv, RInv, GoodFile PROVE OnlyAskedForStopped
        BY DEF OnlyAskedForStopped
    <2>1. T!TypeOK /\ T!ResultIsTrue /\ T!AnswersAreTrue
        BY T!InvResult, T!InvAnswers, CallboxAssumption DEF TInv, T!IInv
    <2>2. tracee = "user" /\ rax = "EACCES" => asked \in Calls
        BY T!CallMade, CallboxAssumption DEF TInv
    <2>3. CASE forked
        <3>1. \A c \in Calls : Answered(c)
            BY <2>3 DEF RInv
        <3>2. ASSUME tracee = "user", rax = "EACCES"
              PROVE  Asks(asked) = "FILTER" /\ ~Contradicted(asked)
            <4>1. asked \in Calls /\ asked # NoCall
                BY <2>2, <3>2, CallboxAssumption
            <4>2. verdicts[asked] = "FILTER"
                BY <2>1, <3>2, <4>1 DEF T!AnswersAreTrue, T!TypeOK
            <4> QED BY <3>1, <4>1, <4>2 DEF Answered
        <3>3. ASSUME result = T!BLOCKED_SYSCALL
              PROVE  Asks(asked) = "BLOCK" /\ ~Contradicted(asked)
            <4>1. asked \in Calls /\ verdicts[asked] = "BLOCK"
                BY <2>1, <3>3 DEF T!ResultIsTrue, T!TypeOK
            <4> QED BY <3>1, <4>1 DEF Answered
        <3> QED BY <3>2, <3>3 DEF OnlyAskedForStopped
    <2>4. CASE ~forked
        BY <2>4 DEF TInv, T!Init, OnlyAskedForStopped, T!SUCCESS, T!BLOCKED_SYSCALL
    <2> QED BY <2>3, <2>4
<1> QED BY WholeAnswers, <1>1, PTL

=============================================================================
