---------------------------- MODULE TracerProofs ----------------------------
(***************************************************************************)
(* Theorems about Tracer.  The safety properties are not inductive: what   *)
(* the tracer may do next depends on how its location, in_syscall and      *)
(* is_filtered agree with where the tracee is stopped.  IInv says how they *)
(* agree at every location; it implies the properties and the refinement.  *)
(***************************************************************************)
EXTENDS Tracer, TLAPS

\* The call was just made; nobody has looked at it yet.
Entering ==
    /\ ~in_syscall /\ ~is_filtered
    /\ asked \in Calls /\ orig_rax = asked
    /\ rax = "ENOSYS" /\ answer = "ENOSYS"
    /\ lines = 0

\* The line about the call, if its verdict has one, is written.
Told ==
    /\ asked \in Calls
    /\ lines = IF rules[asked] \in Reported THEN 1 ELSE 0

\* The tracer has dealt with the entry: the call is emptied or let through.
Handled ==
    /\ in_syscall
    /\ Told
    /\ rules[asked] \notin {"BLOCK", "UNREADABLE"}
    /\ IF rules[asked] = "FILTER"
         THEN is_filtered /\ orig_rax = NoCall
         ELSE ~is_filtered /\ orig_rax = asked

\* The kernel is done with the call and the tracer has not looked yet.
Leaving ==
    /\ Handled
    /\ rules[asked] # "FILTER" => rax = answer /\ rax \in {"ok", "err", "RESTART"}

\* The answer is the one the program is to see.
Answered ==
    /\ ~in_syscall /\ ~is_filtered
    /\ asked # NoCall =>
         /\ rules[asked] \notin {"BLOCK", "UNREADABLE"}
         /\ IF rules[asked] = "FILTER"
              THEN rax = "EACCES"
              ELSE rax = answer /\ rax \in {"ok", "err", "RESTART"}
    /\ asked = NoCall => rax = "ok"

\* The tracee is stopped where the tracer left it, or it died there.
HeldAt(stops) ==
    /\ tracee \in stops \cup {"zombie"}
    /\ tracee # "zombie" => ~waitable

AtWaitFirst ==
    /\ tracee \in {"setup", "signal", "zombie"}
    /\ tracee = "setup" => ~waitable
    /\ asked = NoCall /\ Answered

AtSetOptions ==
    /\ (tracee = "reaped" /\ ~waitable) \/ HeldAt({"signal"})
    /\ tracee = "signal" => status = "signal" /\ Answered

AtGetRegs ==
    /\ HeldAt(Stopped)
    /\ tracee = "enter"  => status = "syscall" /\ Entering
    /\ tracee = "exit"   => status = "syscall" /\ Leaving
    /\ tracee = "signal" => status = "signal" /\ Answered

AtInspect == HeldAt({"enter"}) /\ Entering

AtKill == HeldAt({"enter"}) /\ Told /\ rules[asked] = "BLOCK"

AtCont == AtKill /\ (tracee = "enter" => doomed \/ (orig_rax = Exit /\ rdi = 2))

AtFilter ==
    /\ HeldAt({"enter"}) /\ Told
    /\ rules[asked] = "FILTER" /\ ~is_filtered /\ answer = "ENOSYS"

AtLeave == HeldAt({"exit"}) /\ Leaving

AtResume ==
    /\ HeldAt(Stopped)
    /\ tracee = "enter"  => Handled
    /\ tracee = "exit"   => Told /\ Answered
    /\ tracee = "signal" => Answered

AtWait ==
    /\ tracing
    /\ tracee \in Stopped \cup {"user", "kernel", "zombie"}
    /\ tracee \in Stopped => waitable \/ doomed
    /\ tracee \in {"user", "kernel"} => ~waitable
    /\ tracee = "enter" /\ waitable => Entering
    /\ tracee = "kernel" => Handled
    /\ tracee = "exit" => IF waitable THEN Leaving ELSE Told /\ Answered
    /\ tracee \in {"user", "signal"} => Answered

AtReap ==
    /\ waitable => tracee = "zombie"
    /\ IF result = BLOCKED_SYSCALL
         THEN /\ Told /\ rules[asked] = "BLOCK"
              /\ tracee \in {"enter", "kernel"} \cup Gone
              /\ tracee = "enter" => doomed
              /\ tracee = "kernel" => orig_rax = Exit /\ rdi = 2
         ELSE /\ tracee \in Gone \/ (tracee \in Stopped /\ doomed)
              /\ tracee = "exit" => Told

AtDone ==
    /\ tracee = "reaped"
    /\ result = BLOCKED_SYSCALL => asked \in Calls /\ rules[asked] = "BLOCK"

AtCrashed ==
    /\ tracee \in {"zombie", "free"}
    /\ tracee = "free" => asked \in Calls /\ orig_rax = asked /\ rules[asked] = "UNREADABLE"

DeadOfSomething == tracee \in Gone => death # NotDead

\* The inductive invariant: one conjunct per location of the tracer.
IInv ==
    /\ TypeOK
    /\ lines <= 1
    /\ DeadOfSomething
    /\ tracer \notin {"reap", "done"} => result = SUCCESS
    /\ tracer = "wait_first" => AtWaitFirst
    /\ tracer = "setoptions" => AtSetOptions
    /\ tracer = "getregs"    => AtGetRegs
    /\ tracer = "inspect"    => AtInspect
    /\ tracer = "kill"       => AtKill
    /\ tracer = "cont"       => AtCont
    /\ tracer = "filter"     => AtFilter
    /\ tracer = "leave"      => AtLeave
    /\ tracer = "resume"     => AtResume
    /\ tracer = "wait"       => AtWait
    /\ tracer = "reap"       => AtReap
    /\ tracer = "done"       => AtDone
    /\ tracer = "crashed"    => AtCrashed

-----------------------------------------------------------------------------

\* The names of the sets and numbers that every step's obligations mention.
USE DEF Locations, Verdicts, Reported, SyscallStops, Stopped, Gone, Alive,
        SUCCESS, UNKNOWN_ERROR, BLOCKED_SYSCALL, vars, tracerVars, traceeVars, Goto,
        IsSyscallStop, SecondStage, VerdictOf, AfterVerdict

\* What later steps need to know of the records in death and tracee_status.
LEMMA DeathFacts ==
  /\ NotDead \in Deaths /\ Signaled \in Deaths
  /\ \A c \in ExitCodes \cup {2} : Exited(c) \in Deaths
  /\ \A d \in Deaths : d.how \in {"none", "exited", "signaled"} /\ d.code \in 0..127
  /\ \A d \in Deaths : d # NotDead => d.how \in {"exited", "signaled"}
  /\ Unset.how = "unset" /\ StopEvent.how = "stopped"
  /\ UNKNOWN_ERROR \in ExitCodes /\ 127 \in ExitCodes /\ 0 \in ExitCodes
BY DEF Deaths, NotDead, Signaled, Exited, Unset, StopEvent, ExitCodes

\* A resumed tracee runs, or stays to die.
LEMMA ContinueType ==
  ASSUME TypeOK, NEW b \in BOOLEAN, Continue(b)
  PROVE  tracee' \in Alive \cup Gone \cup {"free"} /\ tracing' \in BOOLEAN
<1>1. tracee' \in {tracee, "kernel", "user"} /\ tracing' = b  BY DEF Continue
<1> QED  BY <1>1 DEF TypeOK

\* What trace_program returns fits a byte.
LEMMA ReturnsForType ==
  ASSUME NEW st \in Deaths \cup {Unset, StopEvent}
  PROVE  ReturnsFor(st) \subseteq 0..255
<1>1. st.how = "exited" => st.code \in 0..255  BY DeathFacts
<1>2. st.how = "signaled" => 128 + st.code \in 0..255  BY DeathFacts
<1> QED  BY <1>1, <1>2, JunkReturnsAssumption DEF ReturnsFor

\* Every action gives every variable a value of its type.
LEMMA TypeStep ==
  ASSUME TypeOK, [Next]_vars
  PROVE  TypeOK'
<1> USE CallsAssumption, JunkReturnsAssumption, DeathFacts
<1>1. CASE UNCHANGED vars  BY <1>1 DEF TypeOK
<1>2. CASE WaitFirst
  <2>1. /\ tracer' \in Locations
        /\ status' \in {"none", "syscall", "signal", "exited", "signaled"}
        /\ tracee' \in Alive \cup Gone \cup {"free"}
        /\ waitable' \in BOOLEAN
    BY <1>2 DEF WaitFirst, Event, Collect, TypeOK
  <2>2. UNCHANGED <<rules, in_syscall, is_filtered, result, tracee_status,
                    returned, lines, image, asked, orig_rax, rdi, rax,
                    answer, pending, doomed, tracing, death>>
    BY <1>2 DEF WaitFirst, Event, Collect
  <2> QED  BY <2>1, <2>2 DEF TypeOK
<1>3. CASE SetOptions
  <2>1. /\ tracer' \in Locations
        /\ result' \in {SUCCESS, UNKNOWN_ERROR, BLOCKED_SYSCALL}
    BY <1>3 DEF SetOptions, Fail, Return, TypeOK
  <2>2. UNCHANGED <<rules, status, in_syscall, is_filtered, tracee_status,
                    returned, lines, tracee, image, asked, orig_rax, rdi,
                    rax, answer, pending, doomed, tracing, waitable, death>>
    BY <1>3 DEF SetOptions, Fail, Return
  <2> QED  BY <2>1, <2>2 DEF TypeOK
<1>4. CASE GetRegs
  <2>1. /\ tracer' \in Locations
        /\ result' \in {SUCCESS, UNKNOWN_ERROR, BLOCKED_SYSCALL}
    BY <1>4 DEF GetRegs, Fail, Return, TypeOK
  <2>2. UNCHANGED <<rules, status, in_syscall, is_filtered, tracee_status,
                    returned, lines, tracee, image, asked, orig_rax, rdi,
                    rax, answer, pending, doomed, tracing, waitable, death>>
    BY <1>4 DEF GetRegs, Fail, Return
  <2> QED  BY <2>1, <2>2 DEF TypeOK
<1>5. CASE Inspect
  <2>1. /\ tracer' \in Locations
        /\ in_syscall' \in BOOLEAN
        /\ lines' \in Nat
    BY <1>5 DEF Inspect, TypeOK
  <2>2. UNCHANGED <<rules, status, is_filtered, result, tracee_status,
                    returned, tracee, image, asked, orig_rax, rdi, rax,
                    answer, pending, doomed, tracing, waitable, death>>
    BY <1>5 DEF Inspect
  <2> QED  BY <2>1, <2>2 DEF TypeOK
<1>6. CASE Crash
  <2>1. /\ tracer' \in Locations
        /\ tracee' \in Alive \cup Gone \cup {"free"}
        /\ waitable' \in BOOLEAN
    BY <1>6 DEF Crash, TypeOK
  <2>2. UNCHANGED <<rules, status, in_syscall, is_filtered, result,
                    tracee_status, returned, lines, image, asked, orig_rax,
                    rdi, rax, answer, pending, doomed, tracing, death>>
    BY <1>6 DEF Crash
  <2> QED  BY <2>1, <2>2 DEF TypeOK
<1>7. CASE GroupKill
  <2>1. /\ tracer' \in Locations
        /\ doomed' \in BOOLEAN
    BY <1>7 DEF GroupKill, TypeOK
  <2>2. UNCHANGED <<rules, status, in_syscall, is_filtered, result,
                    tracee_status, returned, lines, tracee, image, asked,
                    orig_rax, rdi, rax, answer, pending, tracing, waitable,
                    death>>
    BY <1>7 DEF GroupKill
  <2> QED  BY <2>1, <2>2 DEF TypeOK
<1>8. CASE GroupKillFails
  <2>1. /\ tracer' \in Locations
        /\ orig_rax' \in Calls \cup {NoCall}
        /\ rdi' \in ExitCodes \cup {2}
    BY <1>8 DEF GroupKillFails, TypeOK
  <2>2. UNCHANGED <<rules, status, in_syscall, is_filtered, result,
                    tracee_status, returned, lines, tracee, image, asked,
                    rax, answer, pending, doomed, tracing, waitable, death>>
    BY <1>8 DEF GroupKillFails
  <2> QED  BY <2>1, <2>2 DEF TypeOK
<1>9. CASE Cont
  <2>1. /\ tracer' \in Locations
        /\ result' \in {SUCCESS, UNKNOWN_ERROR, BLOCKED_SYSCALL}
        /\ tracee' \in Alive \cup Gone \cup {"free"}
        /\ tracing' \in BOOLEAN
    BY <1>9, ContinueType DEF Cont, Fail, Return, TypeOK
  <2>2. UNCHANGED <<rules, status, in_syscall, is_filtered, tracee_status,
                    returned, lines, image, asked, orig_rax, rdi, rax,
                    answer, pending, doomed, waitable, death>>
    BY <1>9 DEF Cont, Fail, Return, Continue
  <2> QED  BY <2>1, <2>2 DEF TypeOK
<1>10. CASE Filter
  <2>1. /\ tracer' \in Locations
        /\ result' \in {SUCCESS, UNKNOWN_ERROR, BLOCKED_SYSCALL}
        /\ in_syscall' \in BOOLEAN
        /\ is_filtered' \in BOOLEAN
        /\ orig_rax' \in Calls \cup {NoCall}
    BY <1>10 DEF Filter, Fail, Return, TypeOK
  <2>2. UNCHANGED <<rules, status, tracee_status, returned, lines, tracee,
                    image, asked, rdi, rax, answer, pending, doomed, tracing,
                    waitable, death>>
    BY <1>10 DEF Filter, Fail, Return
  <2> QED  BY <2>1, <2>2 DEF TypeOK
<1>11. CASE Leave
  <2>1. /\ tracer' \in Locations
        /\ result' \in {SUCCESS, UNKNOWN_ERROR, BLOCKED_SYSCALL}
        /\ in_syscall' \in BOOLEAN
        /\ is_filtered' \in BOOLEAN
        /\ rax' \in {"ENOSYS", "EACCES", "ok", "err", "RESTART"}
    BY <1>11 DEF Leave, Return, TypeOK
  <2>2. UNCHANGED <<rules, status, tracee_status, returned, lines, tracee,
                    image, asked, orig_rax, rdi, answer, pending, doomed,
                    tracing, waitable, death>>
    BY <1>11 DEF Leave, Return
  <2> QED  BY <2>1, <2>2 DEF TypeOK
<1>12. CASE Resume
  <2>1. /\ tracer' \in Locations
        /\ result' \in {SUCCESS, UNKNOWN_ERROR, BLOCKED_SYSCALL}
        /\ tracee' \in Alive \cup Gone \cup {"free"}
        /\ tracing' \in BOOLEAN
    BY <1>12, ContinueType DEF Resume, Return, TypeOK
  <2>2. UNCHANGED <<rules, status, in_syscall, is_filtered, tracee_status,
                    returned, lines, image, asked, orig_rax, rdi, rax,
                    answer, pending, doomed, waitable, death>>
    BY <1>12 DEF Resume, Return, Continue
  <2> QED  BY <2>1, <2>2 DEF TypeOK
<1>13. CASE Wait
  <2>1. /\ tracer' \in Locations
        /\ result' \in {SUCCESS, UNKNOWN_ERROR, BLOCKED_SYSCALL}
        /\ status' \in {"none", "syscall", "signal", "exited", "signaled"}
        /\ tracee' \in Alive \cup Gone \cup {"free"}
        /\ waitable' \in BOOLEAN
    BY <1>13 DEF Wait, Event, Collect, Return, TypeOK
  <2>2. UNCHANGED <<rules, in_syscall, is_filtered, tracee_status, returned,
                    lines, image, asked, orig_rax, rdi, rax, answer, pending,
                    doomed, tracing, death>>
    BY <1>13 DEF Wait, Event, Collect, Return
  <2> QED  BY <2>1, <2>2 DEF TypeOK
<1>14. CASE Reap
  <2>0. tracee_status' \in Deaths \cup {Unset, StopEvent}
    BY <1>14 DEF Reap, TypeOK
  <2>1. /\ tracer' \in Locations
        /\ tracee' \in Alive \cup Gone \cup {"free"}
        /\ waitable' \in BOOLEAN
    BY <1>14 DEF Reap, Collect, TypeOK
  <2>2. returned' \in 0..255
    <3>1. returned' \in ReturnsFor(tracee_status')  BY <1>14 DEF Reap
    <3> QED  BY <2>0, <3>1, ReturnsForType
  <2>3. UNCHANGED <<rules, status, in_syscall, is_filtered, result, lines,
                    image, asked, orig_rax, rdi, rax, answer, pending,
                    doomed, tracing, death>>
    BY <1>14 DEF Reap, Collect
  <2> QED  BY <2>0, <2>1, <2>2, <2>3 DEF TypeOK
<1>15. CASE ChildSetupFails
  <2>1. /\ tracee' \in Alive \cup Gone \cup {"free"}
        /\ waitable' \in BOOLEAN
        /\ death' \in Deaths
    BY <1>15 DEF ChildSetupFails, TypeOK
  <2>2. UNCHANGED <<rules, tracer, status, in_syscall, is_filtered, result,
                    tracee_status, returned, lines, image, asked, orig_rax,
                    rdi, rax, answer, pending, doomed, tracing>>
    BY <1>15 DEF ChildSetupFails
  <2> QED  BY <2>1, <2>2 DEF TypeOK
<1>16. CASE ChildStops
  <2>1. /\ tracee' \in Alive \cup Gone \cup {"free"}
        /\ waitable' \in BOOLEAN
    BY <1>16 DEF ChildStops, TypeOK
  <2>2. UNCHANGED <<rules, tracer, status, in_syscall, is_filtered, result,
                    tracee_status, returned, lines, image, asked, orig_rax,
                    rdi, rax, answer, pending, doomed, tracing, death>>
    BY <1>16 DEF ChildStops
  <2> QED  BY <2>1, <2>2 DEF TypeOK
<1>17. CASE TakeSignal
  <2>1. /\ tracee' \in Alive \cup Gone \cup {"free"}
        /\ pending' \in BOOLEAN
        /\ waitable' \in BOOLEAN
    BY <1>17 DEF TakeSignal, TypeOK
  <2>2. UNCHANGED <<rules, tracer, status, in_syscall, is_filtered, result,
                    tracee_status, returned, lines, image, asked, orig_rax,
                    rdi, rax, answer, doomed, tracing, death>>
    BY <1>17 DEF TakeSignal
  <2> QED  BY <2>1, <2>2 DEF TypeOK
<1>18. CASE KernelExits
  <2>1. /\ tracee' \in Alive \cup Gone \cup {"free"}
        /\ waitable' \in BOOLEAN
        /\ death' \in Deaths
    BY <1>18 DEF KernelExits, Performing, TypeOK
  <2>2. UNCHANGED <<rules, tracer, status, in_syscall, is_filtered, result,
                    tracee_status, returned, lines, image, asked, orig_rax,
                    rdi, rax, answer, pending, doomed, tracing>>
    BY <1>18 DEF KernelExits, Performing
  <2> QED  BY <2>1, <2>2 DEF TypeOK
<1>19. CASE KernelPerforms
  <2>1. /\ tracee' \in Alive \cup Gone \cup {"free"}
        /\ image' \in {"child", "program"}
        /\ rax' \in {"ENOSYS", "EACCES", "ok", "err", "RESTART"}
        /\ answer' \in {"ENOSYS", "ok", "err", "RESTART"}
        /\ pending' \in BOOLEAN
        /\ waitable' \in BOOLEAN
    BY <1>19 DEF KernelPerforms, Performing, Finish, TypeOK
  <2>2. UNCHANGED <<rules, tracer, status, in_syscall, is_filtered, result,
                    tracee_status, returned, lines, asked, orig_rax, rdi,
                    doomed, tracing, death>>
    BY <1>19 DEF KernelPerforms, Performing, Finish
  <2> QED  BY <2>1, <2>2 DEF TypeOK
<1>20. CASE KernelInterrupts
  <2>1. /\ tracee' \in Alive \cup Gone \cup {"free"}
        /\ rax' \in {"ENOSYS", "EACCES", "ok", "err", "RESTART"}
        /\ answer' \in {"ENOSYS", "ok", "err", "RESTART"}
        /\ waitable' \in BOOLEAN
    BY <1>20 DEF KernelInterrupts, Performing, Finish, TypeOK
  <2>2. UNCHANGED <<rules, tracer, status, in_syscall, is_filtered, result,
                    tracee_status, returned, lines, image, asked, orig_rax,
                    rdi, pending, doomed, tracing, death>>
    BY <1>20 DEF KernelInterrupts, Performing, Finish
  <2> QED  BY <2>1, <2>2 DEF TypeOK
<1>21. CASE KernelSkips
  <2>1. /\ tracee' \in Alive \cup Gone \cup {"free"}
        /\ waitable' \in BOOLEAN
    BY <1>21 DEF KernelSkips, Performing, Finish, TypeOK
  <2>2. UNCHANGED <<rules, tracer, status, in_syscall, is_filtered, result,
                    tracee_status, returned, lines, image, asked, orig_rax,
                    rdi, rax, answer, pending, doomed, tracing, death>>
    BY <1>21 DEF KernelSkips, Performing, Finish
  <2> QED  BY <2>1, <2>2 DEF TypeOK
<1>22. CASE SignalArrives
  <2>1. /\ pending' \in BOOLEAN
    BY <1>22 DEF SignalArrives, TypeOK
  <2>2. UNCHANGED <<rules, tracer, status, in_syscall, is_filtered, result,
                    tracee_status, returned, lines, tracee, image, asked,
                    orig_rax, rdi, rax, answer, doomed, tracing, waitable,
                    death>>
    BY <1>22 DEF SignalArrives
  <2> QED  BY <2>1, <2>2 DEF TypeOK
<1>23. CASE Sigkill
  <2>1. /\ doomed' \in BOOLEAN
    BY <1>23 DEF Sigkill, TypeOK
  <2>2. UNCHANGED <<rules, tracer, status, in_syscall, is_filtered, result,
                    tracee_status, returned, lines, tracee, image, asked,
                    orig_rax, rdi, rax, answer, pending, tracing, waitable,
                    death>>
    BY <1>23 DEF Sigkill
  <2> QED  BY <2>1, <2>2 DEF TypeOK
<1>24. CASE Die
  <2>1. /\ tracee' \in Alive \cup Gone \cup {"free"}
        /\ waitable' \in BOOLEAN
        /\ death' \in Deaths
    BY <1>24 DEF Die, TypeOK
  <2>2. UNCHANGED <<rules, tracer, status, in_syscall, is_filtered, result,
                    tracee_status, returned, lines, image, asked, orig_rax,
                    rdi, rax, answer, pending, doomed, tracing>>
    BY <1>24 DEF Die
  <2> QED  BY <2>1, <2>2 DEF TypeOK
<1>25. ASSUME NEW c \in Calls, Ask(c)  PROVE TypeOK'
  <2>0. rdi' \in ExitCodes \cup {2}
    <3>1. rdi' \in ExitArguments(c)  BY <1>25 DEF Ask
    <3>2. rdi \in ExitCodes \cup {2}  BY DEF TypeOK
    <3> QED  BY <3>1, <3>2 DEF ExitArguments, ExitCodes
  <2>1. /\ lines' \in Nat
        /\ tracee' \in Alive \cup Gone \cup {"free"}
        /\ asked' \in Calls \cup {NoCall}
        /\ orig_rax' \in Calls \cup {NoCall}
        /\ rax' \in {"ENOSYS", "EACCES", "ok", "err", "RESTART"}
        /\ answer' \in {"ENOSYS", "ok", "err", "RESTART"}
        /\ waitable' \in BOOLEAN
    BY <1>25 DEF Ask, TypeOK
  <2>2. UNCHANGED <<rules, tracer, status, in_syscall, is_filtered, result,
                    tracee_status, returned, image, pending, doomed, tracing, death>>
    BY <1>25 DEF Ask
  <2> QED  BY <2>0, <2>1, <2>2 DEF TypeOK
<1> QED
  BY <1>1, <1>2, <1>3, <1>4, <1>5, <1>6, <1>7, <1>8, <1>9, <1>10, <1>11, <1>12, <1>13, <1>14, <1>15, <1>16, <1>17, <1>18, <1>19, <1>20, <1>21, <1>22, <1>23, <1>24, <1>25
     DEF Next, TracerStep, TraceeStep, Terminated

\* Every variable keeps its type, for any set of calls.
THEOREM TypeCorrect == Spec => []TypeOK
<1>1. Init => TypeOK
  <2> SUFFICES ASSUME Init  PROVE TypeOK  OBVIOUS
  <2>1. /\ rules \in [Calls -> Verdicts] /\ tracer \in Locations
        /\ tracee_status \in Deaths \cup {Unset, StopEvent}
        /\ returned \in 0..255 /\ lines \in Nat
        /\ tracee \in Alive \cup Gone \cup {"free"}
        /\ rdi \in ExitCodes \cup {2} /\ death \in Deaths
    BY DeathFacts DEF Init
  <2> QED  BY <2>1 DEF Init, TypeOK
<1> QED  BY <1>1, TypeStep, PTL DEF Spec

-----------------------------------------------------------------------------

\* Where the tracer goes from each location, it finds what IInv says of it.
LEMMA TracerStepInv ==
  ASSUME IInv, TracerStep, TypeOK'
  PROVE  IInv'
<1> USE CallsAssumption, DeathFacts
<1>1. CASE WaitFirst
  <2>1. tracer = "wait_first" /\ AtWaitFirst /\ lines <= 1 /\ DeadOfSomething /\ result = SUCCESS
    BY <1>1 DEF WaitFirst, IInv
  <2>2. tracer' = "setoptions" /\ AtSetOptions' /\ result' = SUCCESS
    BY <1>1, <2>1 DEF WaitFirst, AtWaitFirst, AtSetOptions, HeldAt, Event, Collect, Answered
  <2>3. lines' <= 1 /\ DeadOfSomething'
    BY <1>1, <2>1 DEF WaitFirst, Collect, DeadOfSomething
  <2> QED  BY <2>2, <2>3 DEF IInv
<1>2. CASE SetOptions
  <2>1. tracer = "setoptions" /\ AtSetOptions /\ lines <= 1 /\ DeadOfSomething /\ result = SUCCESS
    BY <1>2 DEF SetOptions, IInv
  <2>2. \/ tracer' = "getregs" /\ AtGetRegs' /\ result' = SUCCESS
        \/ tracer' = "reap" /\ AtReap'
    BY <1>2, <2>1 DEF SetOptions, AtSetOptions, AtGetRegs, AtReap, HeldAt, Fail, Return, Refused, Accepted, Answered
  <2>3. lines' <= 1 /\ DeadOfSomething'
    BY <1>2, <2>1 DEF SetOptions, Fail, DeadOfSomething
  <2> QED  BY <2>2, <2>3 DEF IInv
<1>3. CASE GetRegs
  <2>1. tracer = "getregs" /\ AtGetRegs /\ lines <= 1 /\ DeadOfSomething /\ result = SUCCESS
    BY <1>3 DEF GetRegs, IInv
  <2>2. \/ tracer' = "resume" /\ AtResume' /\ result' = SUCCESS
        \/ tracer' = "leave" /\ AtLeave' /\ result' = SUCCESS
        \/ tracer' = "inspect" /\ AtInspect' /\ result' = SUCCESS
        \/ tracer' = "reap" /\ AtReap'
    BY <1>3, <2>1 DEF GetRegs, AtGetRegs, AtResume, AtLeave, AtInspect, AtReap, HeldAt, Fail, Return, Refused, Accepted, Answered, Entering, Leaving, Handled, Told
  <2>3. lines' <= 1 /\ DeadOfSomething'
    BY <1>3, <2>1 DEF GetRegs, Fail, DeadOfSomething
  <2> QED  BY <2>2, <2>3 DEF IInv
<1>4. CASE Inspect
  <2>1. tracer = "inspect" /\ AtInspect /\ lines <= 1 /\ DeadOfSomething /\ result = SUCCESS
    BY <1>4 DEF Inspect, IInv
  <2>2. \/ tracer' = "kill" /\ AtKill' /\ result' = SUCCESS
        \/ tracer' = "filter" /\ AtFilter' /\ result' = SUCCESS
        \/ tracer' = "resume" /\ AtResume' /\ result' = SUCCESS
    <3>1. /\ asked \in Calls /\ orig_rax = asked /\ rules[asked] # "UNREADABLE"
          /\ lines' = IF rules[asked] \in Reported THEN 1 ELSE 0
          /\ in_syscall' = (rules[asked] \notin {"BLOCK", "FILTER"})
          /\ answer = "ENOSYS" /\ ~is_filtered
          /\ UNCHANGED <<rules, tracee, waitable, asked, orig_rax, answer,
                         is_filtered, result>>
      BY <1>4, <2>1 DEF Inspect, AtInspect, Entering
    <3>2. Told' /\ HeldAt({"enter"})'
      BY <2>1, <3>1 DEF AtInspect, HeldAt, Told
    <3>3. CASE rules[asked] = "BLOCK"
      <4>1. tracer' = "kill"  BY <1>4, <3>1, <3>3 DEF Inspect
      <4> QED  BY <2>1, <3>1, <3>2, <3>3, <4>1 DEF AtKill
    <3>4. CASE rules[asked] = "FILTER"
      <4>1. tracer' = "filter"  BY <1>4, <3>1, <3>4 DEF Inspect
      <4> QED  BY <2>1, <3>1, <3>2, <3>4, <4>1 DEF AtFilter
    <3>5. CASE rules[asked] \notin {"BLOCK", "FILTER"}
      <4>1. tracer' = "resume"  BY <1>4, <3>1, <3>5 DEF Inspect
      <4>2. Handled'  BY <3>1, <3>2, <3>5 DEF Handled
      <4> QED  BY <2>1, <3>1, <3>2, <4>1, <4>2 DEF AtResume, HeldAt
    <3> QED  BY <3>3, <3>4, <3>5
  <2>3. lines' <= 1 /\ DeadOfSomething'
    BY <1>4, <2>1 DEF Inspect, AtInspect, Entering, DeadOfSomething
  <2> QED  BY <2>2, <2>3 DEF IInv
<1>5. CASE Crash
  <2>1. tracer = "inspect" /\ AtInspect /\ lines <= 1 /\ DeadOfSomething /\ result = SUCCESS
    BY <1>5 DEF Crash, IInv
  <2>2. tracer' = "crashed" /\ AtCrashed' /\ result' = SUCCESS
    BY <1>5, <2>1 DEF Crash, AtInspect, AtCrashed, HeldAt, Entering
  <2>3. lines' <= 1 /\ DeadOfSomething'
    BY <1>5, <2>1 DEF Crash, DeadOfSomething
  <2> QED  BY <2>2, <2>3 DEF IInv
<1>6. CASE GroupKill
  <2>1. tracer = "kill" /\ AtKill /\ lines <= 1 /\ DeadOfSomething /\ result = SUCCESS
    BY <1>6 DEF GroupKill, IInv
  <2>2. tracer' = "cont" /\ AtCont' /\ result' = SUCCESS
    BY <1>6, <2>1 DEF GroupKill, AtKill, AtCont, HeldAt, Told
  <2>3. lines' <= 1 /\ DeadOfSomething'
    BY <1>6, <2>1 DEF GroupKill, DeadOfSomething
  <2> QED  BY <2>2, <2>3 DEF IInv
<1>7. CASE GroupKillFails
  <2>1. tracer = "kill" /\ AtKill /\ lines <= 1 /\ DeadOfSomething /\ result = SUCCESS
    BY <1>7 DEF GroupKillFails, IInv
  <2>2. tracer' = "cont" /\ AtCont' /\ result' = SUCCESS
    BY <1>7, <2>1 DEF GroupKillFails, AtKill, AtCont, HeldAt, Told, Accepted, Refused
  <2>3. lines' <= 1 /\ DeadOfSomething'
    BY <1>7, <2>1 DEF GroupKillFails, DeadOfSomething
  <2> QED  BY <2>2, <2>3 DEF IInv
<1>8. CASE Cont
  <2>1. tracer = "cont" /\ AtCont /\ lines <= 1 /\ DeadOfSomething /\ result = SUCCESS
    BY <1>8 DEF Cont, IInv
  <2>2. tracer' = "reap" /\ AtReap'
    <3>1. tracer' = "reap"  BY <1>8 DEF Cont, Fail, Return
    <3>2. CASE Fail
      BY <2>1, <3>2 DEF AtCont, AtKill, HeldAt, AtReap, Fail, Return, Refused, Told
    <3>3. CASE Accepted /\ Continue(FALSE) /\ Return(BLOCKED_SYSCALL) /\ UNCHANGED <<rules, lines>>
      <4>1. tracee = "enter" /\ ~waitable /\ (doomed \/ (orig_rax = Exit /\ rdi = 2))
        BY <2>1, <3>3 DEF AtCont, AtKill, HeldAt, Accepted
      <4>2. /\ tracee' = IF doomed THEN "enter" ELSE "kernel"
            /\ UNCHANGED <<asked, orig_rax, rdi, doomed, waitable>>
        BY <3>3, <4>1 DEF Continue
      <4>3. Told' /\ (rules[asked] = "BLOCK")'
        <5>1. Told /\ rules[asked] = "BLOCK"  BY <2>1 DEF AtCont, AtKill
        <5>2. rules' = rules /\ lines' = lines /\ asked' = asked  BY <3>3, <4>2
        <5> QED  BY <5>1, <5>2 DEF Told
      <4> QED  BY <3>1, <3>3, <4>1, <4>2, <4>3 DEF AtReap, Return
    <3> QED  BY <1>8, <3>2, <3>3 DEF Cont
  <2>3. lines' <= 1 /\ DeadOfSomething'
    BY <1>8, <2>1 DEF Cont, Fail, Continue, DeadOfSomething
  <2> QED  BY <2>2, <2>3 DEF IInv
<1>9. CASE Filter
  <2>1. tracer = "filter" /\ AtFilter /\ lines <= 1 /\ DeadOfSomething /\ result = SUCCESS
    BY <1>9 DEF Filter, IInv
  <2>2. \/ tracer' = "resume" /\ AtResume' /\ result' = SUCCESS
        \/ tracer' = "reap" /\ AtReap'
    BY <1>9, <2>1 DEF Filter, AtFilter, AtResume, AtReap, HeldAt, Told, Handled, Fail, Return, Refused, Accepted
  <2>3. lines' <= 1 /\ DeadOfSomething'
    BY <1>9, <2>1 DEF Filter, Fail, DeadOfSomething
  <2> QED  BY <2>2, <2>3 DEF IInv
<1>10. CASE Leave
  <2>1. tracer = "leave" /\ AtLeave /\ lines <= 1 /\ DeadOfSomething /\ result = SUCCESS
    BY <1>10 DEF Leave, IInv
  <2>2. \/ tracer' = "resume" /\ AtResume' /\ result' = SUCCESS
        \/ tracer' = "reap" /\ AtReap'
    BY <1>10, <2>1 DEF Leave, AtLeave, AtResume, AtReap, HeldAt, Told, Handled, Leaving, Answered, Return, Refused, Accepted
  <2>3. lines' <= 1 /\ DeadOfSomething'
    BY <1>10, <2>1 DEF Leave, DeadOfSomething
  <2> QED  BY <2>2, <2>3 DEF IInv
<1>11. CASE Resume
  <2>1. tracer = "resume" /\ AtResume /\ lines <= 1 /\ DeadOfSomething /\ result = SUCCESS
    BY <1>11 DEF Resume, IInv
  <2>2. \/ tracer' = "wait" /\ AtWait' /\ result' = SUCCESS
        \/ tracer' = "reap" /\ AtReap'
    BY <1>11, <2>1 DEF Resume, AtResume, AtWait, AtReap, HeldAt, Told, Handled, Answered, Return, Refused, Accepted, Continue
  <2>3. lines' <= 1 /\ DeadOfSomething'
    BY <1>11, <2>1 DEF Resume, Continue, DeadOfSomething
  <2> QED  BY <2>2, <2>3 DEF IInv
<1>12. CASE Wait
  <2>1. tracer = "wait" /\ AtWait /\ lines <= 1 /\ DeadOfSomething /\ result = SUCCESS
    BY <1>12 DEF Wait, IInv
  <2>2. \/ tracer' = "getregs" /\ AtGetRegs' /\ result' = SUCCESS
        \/ tracer' = "reap" /\ AtReap'
    <3>1. tracee \in Stopped \cup {"zombie"}
      BY <1>12, <2>1 DEF Wait, AtWait
    <3>2. CASE tracee = "zombie"
      <4>1. status' \in {"exited", "signaled"}
        BY <1>12, <2>1, <3>2, DeathFacts DEF Wait, Event, DeadOfSomething, IInv, TypeOK
      <4> QED  BY <1>12, <3>2, <4>1 DEF Wait, Collect, Return, AtReap
    <3>3. CASE tracee \in Stopped
      <4>1. status' = IF tracee = "signal" THEN "signal" ELSE "syscall"
        BY <1>12, <3>3 DEF Wait, Event
      <4>2. /\ tracer' = "getregs" /\ ~waitable'
            /\ UNCHANGED <<result, rules, lines, in_syscall, is_filtered, tracee,
                           asked, orig_rax, rax, answer>>
        BY <1>12, <3>3, <4>1 DEF Wait, Collect
      <4>3. /\ tracee = "enter"  => Entering
            /\ tracee = "exit"   => Leaving
            /\ tracee = "signal" => Answered
        BY <1>12, <2>1 DEF Wait, AtWait
      <4>4. /\ tracee' = "enter"  => Entering'
            /\ tracee' = "exit"   => Leaving'
            /\ tracee' = "signal" => Answered'
        BY <4>2, <4>3 DEF Entering, Leaving, Handled, Told, Answered
      <4> QED  BY <2>1, <3>3, <4>1, <4>2, <4>4 DEF AtGetRegs, HeldAt
    <3> QED  BY <3>1, <3>2, <3>3
  <2>3. lines' <= 1 /\ DeadOfSomething'
    BY <1>12, <2>1 DEF Wait, Collect, DeadOfSomething
  <2> QED  BY <2>2, <2>3 DEF IInv
<1>13. CASE Reap
  <2>1. tracer = "reap" /\ AtReap /\ lines <= 1 /\ DeadOfSomething
    BY <1>13 DEF Reap, IInv
  <2>2. tracer' = "done" /\ AtDone'
    BY <1>13, <2>1 DEF Reap, AtReap, AtDone, Collect, Told
  <2>3. lines' <= 1 /\ DeadOfSomething'
    BY <1>13, <2>1 DEF Reap, Collect, DeadOfSomething
  <2> QED  BY <2>2, <2>3 DEF IInv
<1> QED  BY <1>1, <1>2, <1>3, <1>4, <1>5, <1>6, <1>7, <1>8, <1>9, <1>10, <1>11, <1>12, <1>13 DEF TracerStep

\* Where the tracee and the kernel go by themselves, IInv still holds for the
\* location the tracer is waiting at.
LEMMA TraceeStepInv ==
  ASSUME IInv, TraceeStep, TypeOK'
  PROVE  IInv'
<1> USE CallsAssumption, DeathFacts
<1>1. CASE ChildSetupFails
  <2>1. tracer = "wait_first" /\ AtWaitFirst
    BY <1>1 DEF ChildSetupFails, IInv, AtSetOptions, AtGetRegs, AtInspect, AtKill,
       AtCont, AtFilter, AtLeave, AtResume, AtWait, AtReap, AtDone, AtCrashed,
       HeldAt, TypeOK
  <2>2. AtWaitFirst'
    BY <1>1, <2>1 DEF ChildSetupFails, AtWaitFirst, Answered
  <2>3. DeadOfSomething'
    BY <1>1 DEF ChildSetupFails, DeadOfSomething, NotDead, Exited
  <2> QED  BY <1>1, <2>1, <2>2, <2>3 DEF ChildSetupFails, IInv
<1>2. CASE ChildStops
  <2>1. tracer = "wait_first" /\ AtWaitFirst
    BY <1>2 DEF ChildStops, IInv, AtSetOptions, AtGetRegs, AtInspect, AtKill,
       AtCont, AtFilter, AtLeave, AtResume, AtWait, AtReap, AtDone, AtCrashed,
       HeldAt, TypeOK
  <2>2. AtWaitFirst'
    BY <1>2, <2>1 DEF ChildStops, AtWaitFirst, Answered
  <2> QED  BY <1>2, <2>1, <2>2 DEF ChildStops, IInv, DeadOfSomething
<1>3. ASSUME NEW c \in Calls, Ask(c)  PROVE IInv'
  <2>1. tracer = "wait" /\ AtWait /\ result = SUCCESS
    BY <1>3 DEF Ask, IInv, AtWaitFirst, AtSetOptions, AtGetRegs, AtInspect, AtKill,
       AtCont, AtFilter, AtLeave, AtResume, AtReap, AtDone, AtCrashed,
       HeldAt, TypeOK
  <2>2. /\ tracee' = "enter" /\ waitable' /\ lines' = 0
        /\ rax' = "ENOSYS" /\ answer' = "ENOSYS" /\ asked' = c /\ orig_rax' = c
        /\ UNCHANGED <<tracer, result, tracing, in_syscall, is_filtered>>
    BY <1>3, <2>1 DEF Ask, AtWait
  <2>3. ~in_syscall /\ ~is_filtered
    BY <1>3, <2>1 DEF Ask, AtWait, Answered
  <2>4. Entering'  BY <2>2, <2>3 DEF Entering
  <2>5. AtWait'  BY <2>1, <2>2, <2>4 DEF AtWait
  <2> QED  BY <2>1, <2>2, <2>5 DEF IInv, DeadOfSomething
<1>4. CASE TakeSignal
  <2>1. tracer = "wait" /\ AtWait /\ Answered /\ result = SUCCESS /\ lines <= 1
    BY <1>4 DEF TakeSignal, IInv, AtWaitFirst, AtSetOptions, AtGetRegs, AtInspect, AtKill,
       AtCont, AtFilter, AtLeave, AtResume, AtWait, AtReap, AtDone, AtCrashed,
       HeldAt, TypeOK
  <2>2. AtWait'
    BY <1>4, <2>1 DEF TakeSignal, AtWait, Answered
  <2> QED  BY <1>4, <2>1, <2>2 DEF TakeSignal, IInv, DeadOfSomething
<1>5. CASE KernelExits
  <2>0. tracee = "kernel"  BY <1>5 DEF KernelExits, Performing
  <2>a. tracer \in {"wait", "reap"}
    BY <2>0 DEF IInv, AtWaitFirst, AtSetOptions, AtGetRegs, AtInspect,
       AtKill, AtCont, AtFilter, AtLeave, AtResume, AtDone, AtCrashed, HeldAt, TypeOK
  <2>1. /\ \/ tracer = "wait" /\ AtWait /\ result = SUCCESS
           \/ tracer = "reap" /\ AtReap
        /\ lines <= 1
    BY <2>a DEF IInv
  <2>2. AtWait => AtWait'  BY <1>5 DEF KernelExits, AtWait
  <2>3. AtReap => AtReap'
    BY <1>5 DEF KernelExits, Performing, AtReap, Told
  <2>4. DeadOfSomething'  BY <1>5 DEF KernelExits, DeadOfSomething, NotDead, Exited
  <2> QED  BY <1>5, <2>1, <2>2, <2>3, <2>4 DEF KernelExits, IInv
<1>6. ASSUME KernelPerforms \/ KernelInterrupts \/ KernelSkips  PROVE IInv'
  <2>1. orig_rax # Exit /\ ~doomed /\ tracee = "kernel"
    BY <1>6 DEF KernelPerforms, KernelInterrupts, KernelSkips, Performing
  <2>2. tracer = "wait" /\ AtWait /\ result = SUCCESS /\ lines <= 1
    BY <2>1 DEF IInv, AtWaitFirst, AtSetOptions, AtGetRegs, AtInspect,
       AtKill, AtCont, AtFilter, AtLeave, AtResume, AtReap, AtDone, AtCrashed,
       HeldAt, TypeOK
  <2>3. tracing /\ Handled  BY <2>1, <2>2 DEF AtWait
  <2>4. /\ tracee' = "exit" /\ waitable'
        /\ UNCHANGED <<rules, tracer, result, lines, in_syscall, is_filtered, asked,
                       orig_rax, tracing>>
    BY <1>6, <2>3 DEF KernelPerforms, KernelInterrupts, KernelSkips, Finish
  <2>5. rules[asked] # "FILTER" => rax' = answer' /\ rax' \in {"ok", "err", "RESTART"}
    BY <1>6, <2>3 DEF KernelPerforms, KernelInterrupts, KernelSkips, Performing, Handled, Told
  <2>6. Leaving'  BY <2>3, <2>4, <2>5 DEF Leaving, Handled, Told
  <2>7. AtWait'  BY <2>3, <2>4, <2>6 DEF AtWait
  <2> QED  BY <2>2, <2>4, <2>7 DEF IInv, DeadOfSomething
<1>7. ASSUME SignalArrives  PROVE IInv'
  BY <1>7 DEF SignalArrives, IInv, DeadOfSomething, AtWaitFirst, AtSetOptions, AtGetRegs, AtInspect,
     AtKill, AtCont, AtFilter, AtLeave, AtResume, AtWait, AtReap, AtDone, AtCrashed,
     HeldAt, Entering, Told, Handled, Leaving, Answered
<1>8. ASSUME Sigkill  PROVE IInv'
  BY <1>8 DEF Sigkill, IInv, DeadOfSomething, AtWaitFirst, AtSetOptions, AtGetRegs, AtInspect,
     AtKill, AtCont, AtFilter, AtLeave, AtResume, AtWait, AtReap, AtDone, AtCrashed,
     HeldAt, Entering, Told, Handled, Leaving, Answered
<1>9. CASE Die
  <2>1. /\ tracee \in Alive /\ tracee' = "zombie" /\ waitable'
        /\ UNCHANGED <<rules, tracerVars, image, asked, orig_rax, rdi, rax, answer,
                       pending, doomed, tracing>>
    BY <1>9 DEF Die
  <2>2. DeadOfSomething'  BY <1>9 DEF Die, DeadOfSomething, NotDead, Signaled
  <2>3. (Entering => Entering') /\ (Told => Told') /\ (Leaving => Leaving')
        /\ (Answered => Answered')
    BY <2>1 DEF Entering, Told, Leaving, Handled, Answered
  <2>4. tracer # "done" /\ tracer # "crashed"
    BY <2>1 DEF IInv, AtDone, AtCrashed, TypeOK
  <2>5. /\ AtWaitFirst => AtWaitFirst'
        /\ AtSetOptions => AtSetOptions'
        /\ AtGetRegs => AtGetRegs'
        /\ AtInspect => AtInspect'
        /\ AtLeave => AtLeave'
        /\ AtResume => AtResume'
    BY <2>1, <2>3 DEF AtWaitFirst, AtSetOptions, AtGetRegs, AtInspect, AtLeave, AtResume, HeldAt
  <2>6. /\ AtKill => AtKill'
        /\ AtCont => AtCont'
        /\ AtFilter => AtFilter'
        /\ AtWait => AtWait'
        /\ AtReap => AtReap'
    BY <2>1, <2>3 DEF AtKill, AtCont, AtFilter, AtWait, AtReap, HeldAt
  <2> QED  BY <2>1, <2>2, <2>4, <2>5, <2>6 DEF IInv
<1> QED  BY <1>1, <1>2, <1>3, <1>4, <1>5, <1>6, <1>7, <1>8, <1>9 DEF TraceeStep

\* The invariant holds at first, and every step keeps it.
LEMMA InitInv == Init => IInv
<1> SUFFICES ASSUME Init  PROVE IInv  OBVIOUS
<1>1. TypeOK
  <2>1. /\ rules \in [Calls -> Verdicts] /\ tracer \in Locations
        /\ tracee_status \in Deaths \cup {Unset, StopEvent}
        /\ returned \in 0..255 /\ lines \in Nat
        /\ tracee \in Alive \cup Gone \cup {"free"}
        /\ rdi \in ExitCodes \cup {2} /\ death \in Deaths
    BY DeathFacts DEF Init
  <2> QED  BY <2>1 DEF Init, TypeOK
<1>2. AtWaitFirst  BY DEF Init, AtWaitFirst, Answered
<1> QED  BY <1>1, <1>2 DEF Init, IInv, DeadOfSomething

LEMMA NextInv == IInv /\ [Next]_vars => IInv'
<1> SUFFICES ASSUME IInv, [Next]_vars  PROVE IInv'  OBVIOUS
<1>1. TypeOK'  BY TypeStep DEF IInv
<1>2. CASE TracerStep  BY <1>1, <1>2, TracerStepInv
<1>3. CASE TraceeStep  BY <1>1, <1>3, TraceeStepInv
<1>4. CASE UNCHANGED vars
  BY <1>4 DEF IInv, TypeOK, DeadOfSomething, AtWaitFirst, AtSetOptions, AtGetRegs, AtInspect,
     AtKill, AtCont, AtFilter, AtLeave, AtResume, AtWait, AtReap, AtDone, AtCrashed,
     HeldAt, Entering, Told, Handled, Leaving, Answered
<1> QED  BY <1>2, <1>3, <1>4 DEF Next, Terminated

\* IInv holds throughout every behaviour.
THEOREM Invariance == Spec => []IInv
BY InitInv, NextInv, PTL DEF Spec

-----------------------------------------------------------------------------

\* Which locations the tracer can be at while the tracee is at one of its own.
LEMMA Whereabouts ==
  ASSUME IInv
  PROVE  /\ tracee = "user" => tracer = "wait"
         /\ tracee = "kernel" => tracer \in {"wait", "reap"}
         /\ tracee = "exit" => tracer \in {"getregs", "leave", "resume", "wait", "reap"}
         /\ tracee = "setup" => tracer = "wait_first"
BY DEF IInv, TypeOK, AtWaitFirst, AtSetOptions, AtGetRegs, AtInspect, AtKill, AtCont,
   AtFilter, AtLeave, AtResume, AtWait, AtReap, AtDone, AtCrashed, HeldAt

\* What the kernel performs, and what the program was refused, is a call it made.
LEMMA CallMade ==
  ASSUME IInv
  PROVE  /\ tracee = "kernel" => asked \in Calls
         /\ tracee = "user" /\ rax = "EACCES" => asked \in Calls
BY Whereabouts DEF IInv, TypeOK, AtWait, AtReap, Handled, Told, Answered

LEMMA InvStops == IInv => StoppedCallsNeverRun
BY Whereabouts DEF IInv, AtWait, AtReap, Handled, Told, StoppedCallsNeverRun

\* For any calls and any rules, the kernel never performs a call the rules
\* block or filter.
THEOREM StoppedNeverRun == Spec => []StoppedCallsNeverRun
BY InvStops, Invariance, PTL

LEMMA InvAnswers == IInv => AnswersAreTrue
BY Whereabouts DEF IInv, AtWait, Answered, AnswersAreTrue

\* For any calls and any rules, the program sees EACCES for the calls that are
\* filtered and the kernel's answer for the others.
THEOREM TrueAnswers == Spec => []AnswersAreTrue
BY InvAnswers, Invariance, PTL

\* For any calls and any rules, in_syscall tells entry stops from exit stops.
THEOREM Synchrony == Spec => []InSync
<1>1. IInv => InSync
  BY DEF IInv, AtGetRegs, HeldAt, Entering, Leaving, Handled, InSync
<1> QED  BY <1>1, Invariance, PTL

\* For any calls and any rules, a call is reported once, before it is performed.
THEOREM ReportedOnce == Spec => []ReportedOnceBeforeRun
<1>1. IInv => ReportedOnceBeforeRun
  <2> SUFFICES ASSUME IInv, tracee \in {"kernel", "exit"}  PROVE Told
    BY DEF IInv, ReportedOnceBeforeRun, Told
  <2>1. CASE tracee = "kernel"
    BY <2>1, Whereabouts DEF IInv, AtWait, AtReap, Handled
  <2>2. CASE tracee = "exit"
    BY <2>2, Whereabouts DEF IInv, AtGetRegs, AtLeave, AtResume, AtWait, AtReap,
       Leaving, Handled
  <2> QED  BY <2>1, <2>2
<1> QED  BY <1>1, Invariance, PTL

\* For any calls and any rules, no child is left behind by trace_program.
THEOREM NoneLeft == Spec => []NothingLeftBehind
<1>1. IInv => NothingLeftBehind  BY DEF IInv, AtDone, NothingLeftBehind
<1> QED  BY <1>1, Invariance, PTL

LEMMA InvResult == IInv => ResultIsTrue
BY CallsAssumption DEF IInv, AtReap, AtDone, Told, ResultIsTrue

\* For any calls and any rules, run_tracer says that a call was blocked only when
\* it was, and gives up only on a dead or dying tracee.
THEOREM TrueResult == Spec => []ResultIsTrue
BY InvResult, Invariance, PTL

\* The tracer leaves alone the registers of a program whose call is neither
\* blocked nor filtered.
THEOREM KeepsHandsOff == Spec => HandsOff
<1> DEFINE Same == UNCHANGED <<asked, orig_rax, rdi, rax, pending, doomed>>
<1>1. IInv /\ TracerStep /\ asked # NoCall /\ rules[asked] \notin {"BLOCK", "FILTER"} => Same
  <2> SUFFICES ASSUME IInv, TracerStep, rules[asked] \notin {"BLOCK", "FILTER"}  PROVE Same
    OBVIOUS
  <2>1. CASE WaitFirst \/ Wait \/ Reap  BY <2>1 DEF WaitFirst, Wait, Reap, Collect
  <2>2. CASE SetOptions \/ GetRegs  BY <2>2 DEF SetOptions, GetRegs, Fail
  <2>3. CASE Inspect \/ Crash  BY <2>3 DEF Inspect, Crash
  <2>4. CASE GroupKill \/ GroupKillFails
    BY <2>4 DEF GroupKill, GroupKillFails, IInv, AtKill
  <2>5. CASE Cont \/ Resume  BY <2>5 DEF Cont, Resume, Continue, Fail
  <2>6. CASE Filter  BY <2>6 DEF Filter, IInv, AtFilter
  <2>7. CASE Leave
    <3>1. ~is_filtered  BY <2>7 DEF Leave, IInv, AtLeave, Leaving, Handled
    <3> QED  BY <2>7, <3>1 DEF Leave
  <2> QED  BY <2>1, <2>2, <2>3, <2>4, <2>5, <2>6, <2>7 DEF TracerStep
<1> QED  BY <1>1, Invariance, PTL DEF Spec, HandsOff

-----------------------------------------------------------------------------
(***************************************************************************)
(* The refinement: each step of the tracer, the tracee and the kernel is a *)
(* step of SyscallGate, or changes nothing that SyscallGate sees.          *)
(***************************************************************************)

\* Steps that leave asked, the answer and the tracee's place alone are stutters.
LEMMA Stutter ==
  ASSUME UNCHANGED <<rules, tracee, asked, rax>>
  PROVE  UNCHANGED Gate!vars
BY DEF Gate!vars, phase, reply

\* The steps that move the tracee, one by one.
LEMMA StepRefines ==
  ASSUME IInv, [Next]_vars
  PROVE  [Gate!Next]_(Gate!vars)
<1> USE CallsAssumption DEF Gate!vars, phase, reply
<1>1. CASE UNCHANGED vars  BY <1>1
<1>2. CASE WaitFirst \/ Wait \/ Reap
  <2>1. UNCHANGED <<rules, asked, rax>> /\ tracee' \in {tracee, "reaped"}
        /\ (tracee' # tracee => tracee = "zombie")
    BY <1>2 DEF WaitFirst, Wait, Reap, Collect
  <2> QED  BY <2>1
<1>3. CASE SetOptions \/ GetRegs \/ Inspect \/ GroupKill \/ GroupKillFails \/ Filter
  <2>1. UNCHANGED <<rules, tracee, asked, rax>>
    BY <1>3 DEF SetOptions, GetRegs, Inspect, GroupKill, GroupKillFails, Filter, Fail
  <2> QED  BY <2>1, Stutter
<1>4. CASE Crash
  <2>1. /\ AtInspect /\ UNCHANGED <<rules, asked, rax>>
        /\ tracee' = IF tracee \in Gone THEN tracee ELSE "free"
        /\ tracee \notin Gone => rules[orig_rax] = "UNREADABLE"
    BY <1>4 DEF Crash, IInv
  <2>2. CASE tracee \in Gone  BY <2>1, <2>2, Stutter
  <2>3. CASE tracee \notin Gone
    <3>1. tracee = "enter" /\ rules[asked] = "UNREADABLE" /\ tracee' = "free"
      BY <2>1, <2>3 DEF AtInspect, HeldAt, Entering
    <3>2. Gate!Abandon  BY <2>1, <3>1 DEF Gate!Abandon
    <3> QED  BY <3>2 DEF Gate!Next
  <2> QED  BY <2>2, <2>3
<1>5. CASE Cont
  <2>1. UNCHANGED <<rules, asked, rax>> /\ tracee' \in {tracee, "kernel", "user"}
        /\ (tracee = "enter" => tracee' \in {"enter", "kernel"})
        /\ (tracee \notin Stopped => tracee' = tracee)
        /\ tracee \in {"enter", "zombie"}
    BY <1>5 DEF Cont, Fail, Accepted, Continue, IInv, AtCont, AtKill, HeldAt
  <2> QED  BY <2>1
<1>6. CASE Leave
  <2>1. UNCHANGED <<rules, asked, tracee>> /\ tracee \in {"exit", "zombie"}
    BY <1>6 DEF Leave, IInv, AtLeave, HeldAt
  <2> QED  BY <2>1
<1>7. CASE Resume
  <2>1. AtResume /\ UNCHANGED <<rules, asked, rax>>
    BY <1>7 DEF Resume, Continue, IInv
  <2>2. CASE tracee' = tracee  BY <2>1, <2>2, Stutter
  <2>3. CASE tracee' # tracee
    <3>1. tracee \in Stopped /\ tracee' = IF tracee = "enter" THEN "kernel" ELSE "user"
      BY <1>7, <2>3 DEF Resume, Continue, Accepted
    <3>2. CASE tracee = "enter"  BY <2>1, <3>1, <3>2
    <3>3. CASE tracee = "signal"  BY <2>1, <3>1, <3>3
    <3>4. CASE tracee = "exit"
      <4>1. Told /\ Answered /\ asked # NoCall  BY <2>1, <3>4 DEF AtResume, Told
      <4>2. CASE rax = "RESTART"  BY <2>1, <3>1, <3>4, <4>2
      <4>3. CASE rules[asked] = "FILTER"
        <5>1. rax = "EACCES"  BY <4>1, <4>3 DEF Answered
        <5>2. Gate!Refuse  BY <2>1, <3>1, <3>4, <4>3, <5>1 DEF Gate!Refuse
        <5> QED  BY <5>2 DEF Gate!Next
      <4>4. CASE rax # "RESTART" /\ rules[asked] # "FILTER"
        <5>1. rax \in {"ok", "err"} /\ rules[asked] \notin {"BLOCK", "FILTER", "UNREADABLE"}
          BY <4>1, <4>4 DEF Answered
        <5>2. Gate!Perform  BY <2>1, <3>1, <3>4, <5>1 DEF Gate!Perform
        <5> QED  BY <5>2 DEF Gate!Next
      <4> QED  BY <4>2, <4>3, <4>4
    <3> QED  BY <3>1, <3>2, <3>3, <3>4
  <2> QED  BY <2>2, <2>3
<1>8. CASE ChildSetupFails \/ KernelExits \/ Die
  <2>1. /\ tracee \in Alive /\ tracee' = "zombie" /\ UNCHANGED <<rules, asked, rax>>
    BY <1>8 DEF ChildSetupFails, KernelExits, Performing, Die
  <2>2. Gate!Die  BY <2>1 DEF Gate!Die
  <2> QED  BY <2>2 DEF Gate!Next
<1>9. CASE ChildStops \/ TakeSignal
  <2>1. /\ tracee \in {"setup", "user"} /\ tracee' = "signal"
        /\ UNCHANGED <<rules, asked, rax>>
    BY <1>9 DEF ChildStops, TakeSignal
  <2> QED  BY <2>1
<1>10. ASSUME NEW c \in Calls, Ask(c)  PROVE [Gate!Next]_(Gate!vars)
  <2>1. /\ tracee = "user" /\ tracee' \in {"enter", "kernel"}
        /\ asked' = c /\ UNCHANGED rules /\ c \in NextCalls
    BY <1>10 DEF Ask
  <2>2. CASE rax = "RESTART"  BY <2>1, <2>2 DEF NextCalls
  <2>3. CASE rax # "RESTART"
    <3>1. Gate!Ask(c)  BY <2>1, <2>3 DEF Gate!Ask
    <3> QED  BY <3>1 DEF Gate!Next
  <2> QED  BY <2>2, <2>3
<1>11. CASE KernelPerforms \/ KernelInterrupts \/ KernelSkips
  <2>1. orig_rax # Exit /\ tracee = "kernel" /\ UNCHANGED <<rules, asked>> /\ ~doomed
    BY <1>11 DEF KernelPerforms, KernelInterrupts, KernelSkips, Performing
  <2>2. tracing  BY <2>1, Whereabouts DEF IInv, AtWait, AtReap
  <2>3. tracee' = "exit"
    BY <1>11, <2>2 DEF KernelPerforms, KernelInterrupts, KernelSkips, Finish
  <2> QED  BY <2>1, <2>3
<1>12. CASE SignalArrives \/ Sigkill
  <2>1. UNCHANGED <<rules, tracee, asked, rax>>  BY <1>12 DEF SignalArrives, Sigkill
  <2> QED  BY <2>1, Stutter
<1> QED
  BY <1>1, <1>2, <1>3, <1>4, <1>5, <1>6, <1>7, <1>8, <1>9, <1>10, <1>11, <1>12
     DEF Next, TracerStep, TraceeStep, Terminated

\* The tracer keeps the promise of SyscallGate, for any calls and any rules.
THEOREM Refinement == Spec => GateSafety
<1>1. Init => Gate!Init
  BY DEF Init, Gate!Init, Gate!Verdicts, phase, reply
<1>2. IInv /\ [Next]_vars => [Gate!Next]_(Gate!vars)  BY StepRefines
<1> QED  BY <1>1, <1>2, Invariance, PTL DEF Spec, GateSafety

=============================================================================
