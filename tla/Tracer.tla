------------------------------- MODULE Tracer -------------------------------
(***************************************************************************)
(* The supervisor of one sandboxed program: run_tracer and trace_program   *)
(* of src/src/executors.c, with the child the supervisor forks (tracee)    *)
(* and as much of the kernel as ptrace, waitpid and kill show of it.       *)
(*                                                                         *)
(* The tracer is a sequential program; tracer is its location, the other   *)
(* tracer variables are the C locals.  The tracee runs by itself between   *)
(* stops, signals reach it at any time, and SIGKILL kills it even while it *)
(* is stopped, so any request of the tracer may find it gone.              *)
(*                                                                         *)
(* A call stands for a system call number with one choice of arguments, so *)
(* its verdict (what print_blocked_syscall_arguments returns, or NO_RULES) *)
(* is fixed by the rules loaded before the program is started.             *)
(***************************************************************************)
EXTENDS Integers

CONSTANTS
    Calls,        \* the system calls of the program
    Exec, Exit,   \* execve and exit_group (number 231), two of them
    NoCall,       \* orig_rax = -1: no call
    JunkReturns   \* what the return value computed from an unset status may be

ASSUME CallsAssumption ==
    /\ {Exec, Exit} \subseteq Calls
    /\ Exec # Exit
    /\ NoCall \notin Calls
ASSUME JunkReturnsAssumption == JunkReturns \subseteq 0..255 /\ JunkReturns # {}

VARIABLES
    rules,          \* the verdict on each call, loaded before the fork
    \* the tracer
    tracer,         \* where run_tracer or trace_program is
    status,         \* run_tracer's status: what the last waitpid saw
    in_syscall,     \* the next syscall stop is an exit stop
    is_filtered,    \* the call in progress was filtered on entry
    result,         \* what run_tracer returned
    tracee_status,  \* trace_program's tracee_status, uninitialized at first
    returned,       \* what trace_program returned
    lines,          \* report lines written for the call being made
    \* the tracee
    tracee,         \* what the tracee is doing or where it is stopped
    image,          \* the code it runs: the forked child's or the program's
    asked,          \* the call it last made
    orig_rax, rdi, rax,  \* its registers: call number, exit code, answer
    answer,         \* what the kernel itself answered to that call
    pending,        \* a signal other than SIGKILL is pending
    doomed,         \* SIGKILL is pending
    tracing,        \* it was resumed by PTRACE_SYSCALL
    waitable,       \* it has an event no waitpid has collected
    death           \* how it ended and with which exit code

tracerVars == <<tracer, status, in_syscall, is_filtered, result,
                tracee_status, returned, lines>>
traceeVars == <<tracee, image, asked, orig_rax, rdi, rax, answer,
                pending, doomed, tracing, waitable, death>>
vars == <<rules, tracerVars, traceeVars>>

SUCCESS         == 0   \* Trace_result
UNKNOWN_ERROR   == 1
BLOCKED_SYSCALL == 2

Verdicts == {"NO_RULES", "NONE_ACTION", "BLOCK", "FILTER", "NOTIFY", "UNREADABLE"}
Reported == {"BLOCK", "FILTER", "NOTIFY"}    \* the verdicts that print a line

SyscallStops == {"enter", "exit"}
Stopped == SyscallStops \cup {"signal"}
Gone    == {"zombie", "reaped"}
Alive   == {"setup", "user", "kernel"} \cup Stopped

ExitCodes == {0, 1, 127}
NotDead   == [how |-> "none", code |-> 0]
Exited(c) == [how |-> "exited", code |-> c]
Signaled  == [how |-> "signaled", code |-> 9]
Deaths    == {NotDead, Signaled} \cup {Exited(c) : c \in ExitCodes \cup {2}}
Unset     == [how |-> "unset", code |-> 0]
StopEvent == [how |-> "stopped", code |-> 0]

Locations == {"wait_first", "setoptions", "getregs", "inspect", "kill", "cont",
              "filter", "leave", "resume", "wait", "reap", "done", "crashed"}

Init ==
    /\ rules \in [Calls -> Verdicts]
    /\ tracer = "wait_first" /\ status = "none"
    /\ in_syscall = FALSE /\ is_filtered = FALSE
    /\ result = SUCCESS /\ returned = SUCCESS /\ tracee_status = Unset
    /\ lines = 0
    /\ tracee = "setup" /\ image = "child"
    /\ asked = NoCall /\ orig_rax = NoCall /\ rdi = 0 /\ rax = "ok" /\ answer = "ok"
    /\ pending = FALSE /\ doomed = FALSE /\ tracing = FALSE
    /\ waitable = FALSE /\ death = NotDead

(***************************************************************************)
(* The kernel's side of ptrace and waitpid.                                *)
(***************************************************************************)

\* A request needs a stopped tracee.  A killed one has left its stop or is
\* about to: the request may come in time or too late.
Accepted == tracee \in Stopped
Refused  == tracee \notin Stopped \/ doomed

\* What waitpid reports, in run_tracer's words.
Event ==
    CASE tracee \in SyscallStops -> "syscall"
      [] tracee = "signal"       -> "signal"
      [] OTHER                   -> death.how

\* waitpid takes the tracee's event; the exit of a tracee is taken once.
Collect ==
    /\ waitable' = FALSE
    /\ tracee' = IF tracee = "zombie" THEN "reaped" ELSE tracee
    /\ UNCHANGED <<image, asked, orig_rax, rdi, rax, answer, pending, doomed,
                   tracing, death>>

\* The tracee leaves its stop.  A killed tracee only leaves it to die.
Continue(syscalls) ==
    /\ tracee' = IF doomed THEN tracee
                 ELSE IF tracee = "enter" THEN "kernel" ELSE "user"
    /\ tracing' = syscalls
    /\ UNCHANGED <<image, asked, orig_rax, rdi, rax, answer, pending, doomed,
                   waitable, death>>

(***************************************************************************)
(* run_tracer                                                              *)
(***************************************************************************)

Goto(l) == tracer' = l

\* Mutant of Return: trace_program does not wait for the child again.
ReturnUnreaped(r) == Goto("done") /\ result' = r

\* Every way out of run_tracer leads to the last waitpid of trace_program.
Return(r) == Goto("reap") /\ result' = r

\* Mutant of Fail: every early return says that a call was blocked.
FailAsBlocked ==
    /\ Refused
    /\ Return(BLOCKED_SYSCALL)
    /\ UNCHANGED <<rules, status, in_syscall, is_filtered, tracee_status,
                   returned, lines, traceeVars>>

\* ptrace_or_error: a refused request ends run_tracer.
Fail ==
    /\ Refused
    /\ Return(UNKNOWN_ERROR)
    /\ UNCHANGED <<rules, status, in_syscall, is_filtered, tracee_status,
                   returned, lines, traceeVars>>

WaitFirst ==
    /\ tracer = "wait_first" /\ waitable
    /\ status' = Event
    /\ Goto("setoptions")
    /\ Collect
    /\ UNCHANGED <<rules, in_syscall, is_filtered, result, tracee_status,
                   returned, lines>>

SetOptions ==
    /\ tracer = "setoptions"
    /\ \/ Fail
       \/ /\ Accepted
          /\ Goto("getregs")
          /\ UNCHANGED <<rules, status, in_syscall, is_filtered, result,
                         tracee_status, returned, lines, traceeVars>>

\* Mutant of IsSyscallStop: the 0x80 of PTRACE_O_TRACESYSGOOD is not tested.
IsAnyStop == status \in {"syscall", "signal"}

\* Only stops for SIGTRAP | 0x80 are looked at.
IsSyscallStop == status = "syscall"

\* The head of the loop: in_syscall alone tells an entry from an exit.
GetRegs ==
    /\ tracer = "getregs"
    /\ \/ Fail
       \/ /\ Accepted
          /\ Goto(IF ~IsSyscallStop THEN "resume"
                  ELSE IF in_syscall THEN "leave" ELSE "inspect")
          /\ UNCHANGED <<rules, status, in_syscall, is_filtered, result,
                         tracee_status, returned, lines, traceeVars>>

\* get_rules_for_syscall_id, then what print_blocked_syscall_arguments returns.
VerdictOf(n) == IF n \in Calls THEN rules[n] ELSE "NO_RULES"

\* Mutants of AfterVerdict: the kill is left out; PTRACE_CONT is left out.
AfterVerdictNoKill(v) ==
    CASE v = "BLOCK" -> "cont" [] v = "FILTER" -> "filter" [] OTHER -> "resume"
AfterVerdictNoCont(v) ==
    CASE v = "BLOCK" -> "wait" [] v = "FILTER" -> "filter" [] OTHER -> "resume"

AfterVerdict(v) ==
    CASE v = "BLOCK" -> "kill" [] v = "FILTER" -> "filter" [] OTHER -> "resume"

\* An entry: the call is reported unless its arguments do not match its rules.
Inspect ==
    /\ tracer = "inspect"
    /\ VerdictOf(orig_rax) # "UNREADABLE"
    /\ Goto(AfterVerdict(VerdictOf(orig_rax)))
    /\ in_syscall' = (VerdictOf(orig_rax) \notin {"BLOCK", "FILTER"})
    /\ lines' = IF VerdictOf(orig_rax) \in Reported THEN lines + 1 ELSE lines
    /\ UNCHANGED <<rules, status, is_filtered, result, tracee_status, returned,
                   traceeVars>>

\* A string the tracer cannot read is NULL, and comparing it is fatal: the
\* pointer of the call is bad, or the tracee died before it was read.  The
\* kernel detaches a live tracee, which goes on by itself.
Crash ==
    /\ tracer = "inspect"
    /\ \/ VerdictOf(orig_rax) = "UNREADABLE"
       \/ VerdictOf(orig_rax) # "NO_RULES" /\ tracee \in Gone
    /\ Goto("crashed")
    /\ tracee' = IF tracee \in Gone THEN tracee ELSE "free"
    /\ waitable' = FALSE
    /\ UNCHANGED <<rules, status, in_syscall, is_filtered, result,
                   tracee_status, returned, lines, image, asked, orig_rax, rdi,
                   rax, answer, pending, doomed, tracing, death>>

\* kill(-group_id, SIGKILL)
GroupKill ==
    /\ tracer = "kill"
    /\ Goto("cont")
    /\ doomed' = (tracee \in Alive)
    /\ UNCHANGED <<rules, status, in_syscall, is_filtered, result,
                   tracee_status, returned, lines, tracee, image, asked,
                   orig_rax, rdi, rax, answer, pending, tracing, waitable, death>>

\* The fallback when kill is not permitted: the call becomes exit_group(2).
\* What PTRACE_SETREGS returns is ignored.
GroupKillFails ==
    /\ tracer = "kill"
    /\ Goto("cont")
    /\ \/ /\ Accepted
          /\ orig_rax' = Exit /\ rdi' = 2
       \/ /\ Refused
          /\ UNCHANGED <<orig_rax, rdi>>
    /\ UNCHANGED <<rules, status, in_syscall, is_filtered, result,
                   tracee_status, returned, lines, tracee, image, asked,
                   rax, answer, pending, doomed, tracing, waitable, death>>

\* PTRACE_CONT, after which the tracer looks at the tracee no more.
Cont ==
    /\ tracer = "cont"
    /\ \/ Fail
       \/ /\ Accepted
          /\ Continue(FALSE)
          /\ Return(BLOCKED_SYSCALL)
          /\ UNCHANGED <<rules, status, in_syscall, is_filtered, tracee_status,
                         returned, lines>>

\* First stage of filtering, on entry: no call number, nothing to execute.
Filter ==
    /\ tracer = "filter"
    /\ \/ Fail
       \/ /\ Accepted
          /\ orig_rax' = NoCall
          /\ is_filtered' = TRUE
          /\ in_syscall' = TRUE
          /\ Goto("resume")
          /\ UNCHANGED <<rules, status, result, tracee_status, returned, lines,
                         tracee, image, asked, rdi, rax, answer, pending, doomed,
                         tracing, waitable, death>>

\* Mutant of SecondStage: the answer of every call is overwritten.
SecondStageAlways == TRUE

\* The second stage of filtering, on exit, is for a call that was filtered.
SecondStage == is_filtered

\* The program is to see -EACCES.
Leave ==
    /\ tracer = "leave"
    /\ in_syscall' = FALSE
    /\ \/ /\ SecondStage /\ Refused
          /\ Return(UNKNOWN_ERROR)
          /\ UNCHANGED <<is_filtered, traceeVars>>
       \/ /\ SecondStage /\ Accepted
          /\ rax' = "EACCES"
          /\ is_filtered' = FALSE
          /\ Goto("resume")
          /\ UNCHANGED <<result, tracee, image, asked, orig_rax, rdi, answer,
                         pending, doomed, tracing, waitable, death>>
       \/ /\ ~SecondStage
          /\ Goto("resume")
          /\ UNCHANGED <<is_filtered, result, traceeVars>>
    /\ UNCHANGED <<rules, status, tracee_status, returned, lines>>

\* PTRACE_SYSCALL with no signal: whatever signal stopped the tracee is dropped.
Resume ==
    /\ tracer = "resume"
    /\ \/ /\ Refused
          /\ Return(SUCCESS)
          /\ UNCHANGED traceeVars
       \/ /\ Accepted
          /\ Continue(TRUE)
          /\ Goto("wait")
          /\ UNCHANGED result
    /\ UNCHANGED <<rules, status, in_syscall, is_filtered, tracee_status,
                   returned, lines>>

Wait ==
    /\ tracer = "wait" /\ waitable
    /\ status' = Event
    /\ Collect
    /\ IF Event \in {"exited", "signaled"}
         THEN Return(SUCCESS)
         ELSE Goto("getregs") /\ UNCHANGED result
    /\ UNCHANGED <<rules, in_syscall, is_filtered, tracee_status, returned, lines>>

(***************************************************************************)
(* trace_program after run_tracer.                                         *)
(***************************************************************************)

\* Mutant of ReturnsFor: the status is returned without WEXITSTATUS.
ReturnsRaw(st) == {256 * st.code}

\* The return value: for an unset status, whatever the garbage decodes to.
ReturnsFor(st) ==
    IF result \in {SUCCESS, BLOCKED_SYSCALL} THEN {SUCCESS}
    ELSE CASE st.how = "exited"   -> {st.code}
           [] st.how = "signaled" -> {128 + st.code}
           [] st.how = "unset"    -> JunkReturns
           [] OTHER               -> {UNKNOWN_ERROR}

\* The second waitpid on the same child: ECHILD when run_tracer took its exit.
Reap ==
    /\ tracer = "reap"
    /\ \/ /\ tracee = "reaped"
          /\ tracee_status' = Unset
          /\ UNCHANGED traceeVars
       \/ /\ waitable
          /\ tracee_status' = IF tracee = "zombie" THEN death ELSE StopEvent
          /\ Collect
    /\ returned' \in ReturnsFor(tracee_status')
    /\ Goto("done")
    /\ UNCHANGED <<rules, status, in_syscall, is_filtered, result, lines>>

TracerStep ==
    \/ WaitFirst \/ SetOptions \/ GetRegs
    \/ Inspect \/ Crash
    \/ GroupKill \/ GroupKillFails \/ Cont
    \/ Filter \/ Leave \/ Resume \/ Wait \/ Reap

(***************************************************************************)
(* The tracee: the child's code in trace_program until it executes the     *)
(* program, then the program.                                              *)
(***************************************************************************)

\* dup2 or PTRACE_TRACEME fails: _exit(UNKNOWN_ERROR), not traced yet.
ChildSetupFails ==
    /\ tracee = "setup" /\ ~doomed
    /\ tracee' = "zombie" /\ death' = Exited(UNKNOWN_ERROR) /\ waitable' = TRUE
    /\ UNCHANGED <<rules, tracerVars, image, asked, orig_rax, rdi, rax, answer,
                   pending, doomed, tracing>>

\* kill(getpid(), SIGSTOP), reported to the tracer as a signal.
ChildStops ==
    /\ tracee = "setup" /\ ~doomed
    /\ tracee' = "signal" /\ waitable' = TRUE
    /\ UNCHANGED <<rules, tracerVars, image, asked, orig_rax, rdi, rax, answer,
                   pending, doomed, tracing, death>>

\* What the tracee may call next.  The kernel itself makes an interrupted call
\* again; execvp tries execve along the path, then the child can only exit.
NextCalls ==
    IF rax = "RESTART" THEN {asked}
    ELSE IF image = "program" THEN Calls
    ELSE CASE asked = NoCall  -> {Exec}
           [] asked = Exec    -> {Exec, Exit}
           [] OTHER           -> {Exit}

ExitArguments(c) ==
    IF rax = "RESTART" THEN {rdi}
    ELSE IF c # Exit THEN {0}
    ELSE IF image = "child" THEN {UNKNOWN_ERROR, 127} ELSE ExitCodes

Ask(c) ==
    /\ tracee = "user" /\ ~doomed
    /\ c \in NextCalls
    /\ rax = "RESTART" => ~pending
    /\ asked' = c /\ orig_rax' = c /\ rdi' \in ExitArguments(c)
    /\ rax' = "ENOSYS" /\ answer' = "ENOSYS"
    /\ lines' = 0
    /\ IF tracing THEN tracee' = "enter" /\ waitable' = TRUE
                  ELSE tracee' = "kernel" /\ UNCHANGED waitable
    /\ UNCHANGED <<rules, tracer, status, in_syscall, is_filtered, result,
                   tracee_status, returned, image, pending, doomed, tracing, death>>

\* A signal is delivered on the way to user mode: the tracee stops for it.
TakeSignal ==
    /\ tracee = "user" /\ pending /\ ~doomed
    /\ tracee' = "signal" /\ pending' = FALSE /\ waitable' = TRUE
    /\ UNCHANGED <<rules, tracerVars, image, asked, orig_rax, rdi, rax, answer,
                   doomed, tracing, death>>

(***************************************************************************)
(* The kernel performing a call.  A call it was killed in has no answer.   *)
(***************************************************************************)

\* The call is over: traced, the tracee stops once more before its program sees it.
Finish ==
    IF tracing THEN tracee' = "exit" /\ waitable' = TRUE
               ELSE tracee' = "user" /\ UNCHANGED waitable

Performing(c) == tracee = "kernel" /\ ~doomed /\ orig_rax = c

KernelExits ==
    /\ Performing(Exit)
    /\ tracee' = "zombie" /\ death' = Exited(rdi) /\ waitable' = TRUE
    /\ UNCHANGED <<rules, tracerVars, image, asked, orig_rax, rdi, rax, answer,
                   pending, doomed, tracing>>

\* A successful execve also leaves a SIGTRAP for the tracer.
KernelPerforms ==
    /\ \E c \in Calls \ {Exit} : Performing(c)
    /\ \E a \in {"ok", "err"} :
         /\ rax' = a /\ answer' = a
         /\ image' = IF orig_rax = Exec /\ a = "ok" THEN "program" ELSE image
         /\ pending' = (pending \/ (orig_rax = Exec /\ a = "ok"))
    /\ Finish
    /\ UNCHANGED <<rules, tracerVars, asked, orig_rax, rdi, doomed, tracing, death>>

\* A signal interrupts the call: it is to be made again.
KernelInterrupts ==
    /\ \E c \in Calls \ {Exit, Exec} : Performing(c)
    /\ pending
    /\ rax' = "RESTART" /\ answer' = "RESTART"
    /\ Finish
    /\ UNCHANGED <<rules, tracerVars, image, asked, orig_rax, rdi, pending,
                   doomed, tracing, death>>

\* orig_rax = -1: nothing is executed, the answer stays what it was on entry.
KernelSkips ==
    /\ Performing(NoCall)
    /\ Finish
    /\ UNCHANGED <<rules, tracerVars, image, asked, orig_rax, rdi, rax, answer,
                   pending, doomed, tracing, death>>

SignalArrives ==
    /\ tracee \in Alive \ {"setup"} /\ ~pending
    /\ pending' = TRUE
    /\ UNCHANGED <<rules, tracerVars, tracee, image, asked, orig_rax, rdi, rax,
                   answer, doomed, tracing, waitable, death>>

\* SIGKILL from outside, e.g. the user's or the out-of-memory killer's.
Sigkill ==
    /\ tracee \in Alive /\ ~doomed
    /\ doomed' = TRUE
    /\ UNCHANGED <<rules, tracerVars, tracee, image, asked, orig_rax, rdi, rax,
                   answer, pending, tracing, waitable, death>>

Die ==
    /\ tracee \in Alive /\ doomed
    /\ tracee' = "zombie" /\ death' = Signaled /\ waitable' = TRUE
    /\ UNCHANGED <<rules, tracerVars, image, asked, orig_rax, rdi, rax, answer,
                   pending, doomed, tracing>>

TraceeStep ==
    \/ ChildSetupFails \/ ChildStops
    \/ \E c \in Calls : Ask(c)
    \/ TakeSignal
    \/ KernelExits \/ KernelPerforms \/ KernelInterrupts \/ KernelSkips
    \/ SignalArrives \/ Sigkill \/ Die

\* The supervisor has returned, or has crashed.
Terminated == tracer \in {"done", "crashed"} /\ UNCHANGED vars

Next == TracerStep \/ TraceeStep \/ Terminated

(***************************************************************************)
(* Fairness: the two processes and the kernel are scheduled.  The program  *)
(* may compute for ever and a call may take for ever, a call to exit or to *)
(* nothing does not, and a killed process dies.                            *)
(***************************************************************************)
Fairness ==
    /\ WF_vars(TracerStep)
    /\ WF_vars(ChildSetupFails \/ ChildStops)
    /\ WF_vars(KernelExits \/ KernelSkips)
    /\ WF_vars(Die)

Spec == Init /\ [][Next]_vars

FairSpec == Spec /\ Fairness

-----------------------------------------------------------------------------
(***************************************************************************)
(* Properties.                                                             *)
(***************************************************************************)

\* Every variable has its type.
TypeOK ==
    /\ rules \in [Calls -> Verdicts]
    /\ tracer \in Locations
    /\ status \in {"none", "syscall", "signal", "exited", "signaled"}
    /\ in_syscall \in BOOLEAN /\ is_filtered \in BOOLEAN
    /\ result \in {SUCCESS, UNKNOWN_ERROR, BLOCKED_SYSCALL}
    /\ tracee_status \in Deaths \cup {Unset, StopEvent}
    /\ returned \in 0..255
    /\ lines \in Nat
    /\ tracee \in Alive \cup Gone \cup {"free"}
    /\ image \in {"child", "program"}
    /\ asked \in Calls \cup {NoCall} /\ orig_rax \in Calls \cup {NoCall}
    /\ rdi \in ExitCodes \cup {2}
    /\ rax \in {"ENOSYS", "EACCES", "ok", "err", "RESTART"}
    /\ answer \in {"ENOSYS", "ok", "err", "RESTART"}
    /\ pending \in BOOLEAN /\ doomed \in BOOLEAN
    /\ tracing \in BOOLEAN /\ waitable \in BOOLEAN
    /\ death \in Deaths

\* The kernel never gets to perform a call whose verdict is BLOCK or FILTER
\* (sandbox.h: "before that syscall", "don't execute this syscall"): not after
\* a signal, a restart or a kill that came between entry and exit.  The one
\* call it performs in place of a blocked one is the fallback's exit_group(2).
StoppedCallsNeverRun ==
    tracee = "kernel" /\ ~doomed /\ orig_rax # NoCall =>
        \/ rules[orig_rax] \notin {"BLOCK", "FILTER"}
        \/ rules[asked] = "BLOCK" /\ orig_rax = Exit /\ rdi = 2

\* A program that computes again after a filtered call has seen EACCES, and
\* after any other call exactly what the kernel answered: the two halves of the
\* filtering, at the entry and at the exit, always belong to the same call.
AnswersAreTrue ==
    tracee = "user" /\ asked # NoCall =>
        rax = IF rules[asked] = "FILTER" THEN "EACCES" ELSE answer

\* run_tracer's in_syscall agrees with the kernel whenever the tracer looks at
\* a syscall stop: signal stops and interrupted calls do not shift the parity.
InSync ==
    tracer = "getregs" /\ status = "syscall" /\ tracee \in Alive =>
        (in_syscall <=> tracee = "exit")

\* A call the rules report has been reported exactly once by the time the
\* kernel has it, and other calls not at all; no entry is reported twice.
ReportedOnceBeforeRun ==
    /\ lines <= 1
    /\ tracee \in {"kernel", "exit"} =>
         lines = IF rules[asked] \in Reported THEN 1 ELSE 0

\* When trace_program returns, its child is dead and has been waited for:
\* neither a running program nor a zombie is left behind.
NothingLeftBehind == tracer = "done" => tracee = "reaped"

\* run_tracer returns BLOCKED_SYSCALL only for a call that is blocked, and any
\* other result only when the tracee is dead or as good as dead: no error path
\* stops supervising a program that can still go on.
ResultIsTrue ==
    /\ result = BLOCKED_SYSCALL => asked # NoCall /\ rules[asked] = "BLOCK"
    /\ tracer \in {"reap", "done"} /\ result # BLOCKED_SYSCALL =>
         tracee \in Gone \/ doomed

\* A step of the tracer changes neither what the program asked for nor, for a
\* call that is neither blocked nor filtered, anything in its registers.
HandsOff ==
    [][TracerStep /\ asked # NoCall /\ rules[asked] \notin {"BLOCK", "FILTER"}
          => UNCHANGED <<asked, orig_rax, rdi, rax, pending, doomed>>]_vars

\* A blocked call ends the program, and the supervisor with it: kill failing,
\* the kill racing PTRACE_CONT and an outside SIGKILL all lead there.
BlockedEnds ==
    tracee = "enter" /\ rules[asked] = "BLOCK" ~>
        tracee \in Gone /\ tracer \in {"done", "crashed"}

(***************************************************************************)
(* The tracer keeps the promise of SyscallGate.                            *)
(***************************************************************************)
phase ==
    IF tracee \in Gone THEN "dead"
    ELSE IF tracee = "free" THEN "unguarded"
    ELSE IF tracee \in {"enter", "kernel", "exit"} \/ rax = "RESTART" THEN "asked"
    ELSE "computing"
reply == IF phase = "computing" THEN rax ELSE "none"

Gate == INSTANCE SyscallGate WITH call <- asked

\* Seen through phase and reply, every behaviour is one SyscallGate allows: each
\* step of the promise is kept whatever the order of stops, signals and kills.
GateSafety == Gate!Init /\ [][Gate!Next]_(Gate!vars)

\* The same with its fairness: refused calls are answered, blocked programs stop.
GateSpec == Gate!Spec

(***************************************************************************)
(* What comments of the source say and the code does not do.               *)
(***************************************************************************)

\* "if it was -> I'm exiting with 127 (command not found) [...] Then let the
\* PARENT handle the error, depending on the exit code" (executors.c:122-127):
\* a child that could not execute the program is not a SUCCESS to the parent.
ExecFailureReported ==
    tracer = "done" /\ image = "child" /\ death = Exited(127) => returned = 127

\* "Tracing ended, and Tracee exited normally (status 0-255) -> just exit with
\* this status" (executors.c:153): after an error in tracing, the exit status of
\* the child is the value returned.
ExitStatusPassedOn ==
    tracer = "done" /\ result = UNKNOWN_ERROR /\ death.how = "exited" =>
        returned = death.code

=============================================================================
