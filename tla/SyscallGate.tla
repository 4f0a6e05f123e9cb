---------------------------- MODULE SyscallGate ----------------------------
(***************************************************************************)
(* What the sandbox promises a user about one program, whatever way the    *)
(* promise is kept.  The program computes, asks the kernel for calls, and  *)
(* every call is answered according to its rule (the comments of           *)
(* Action_type in sandbox.h):                                              *)
(*                                                                         *)
(*   BLOCK   "immediately stop execution of the program before that        *)
(*            syscall": the call is never performed, the program dies;     *)
(*   FILTER  "don't execute this syscall, continue executing the program": *)
(*            the call is never performed, the program sees EACCES;        *)
(*   any other verdict: the call is performed by the kernel.               *)
(*                                                                         *)
(* One verdict ends the promise: a rule that compares a string argument    *)
(* the tracer cannot read makes the tracer itself crash (UNREADABLE), and  *)
(* the program then runs on unguarded.                                     *)
(***************************************************************************)

CONSTANTS
    Calls,    \* the system calls of the program, each with its arguments
    NoCall    \* no call at all

VARIABLES
    rules,    \* the verdict the loaded rules give on each call
    phase,    \* what the program is doing
    call,     \* the call last asked for
    reply     \* the answer to it, "none" while there is none

vars == <<rules, phase, call, reply>>

Verdicts == {"NO_RULES", "NONE_ACTION", "BLOCK", "FILTER", "NOTIFY", "UNREADABLE"}

TypeOK ==
    /\ rules \in [Calls -> Verdicts]
    /\ phase \in {"computing", "asked", "dead", "unguarded"}
    /\ call \in Calls \cup {NoCall}
    /\ reply \in {"ok", "err", "EACCES", "none"}

Init ==
    /\ rules \in [Calls -> Verdicts]
    /\ phase = "computing"
    /\ call = NoCall
    /\ reply = "ok"

Ask(c) ==
    /\ phase = "computing"
    /\ phase' = "asked"
    /\ call' = c
    /\ reply' = "none"
    /\ UNCHANGED rules

\* The kernel performs the call and answers it.
Perform ==
    /\ phase = "asked"
    /\ rules[call] \notin {"BLOCK", "FILTER", "UNREADABLE"}
    /\ phase' = "computing"
    /\ reply' \in {"ok", "err"}
    /\ UNCHANGED <<rules, call>>

\* The call is refused: the program goes on and sees an access error.
Refuse ==
    /\ phase = "asked"
    /\ rules[call] = "FILTER"
    /\ phase' = "computing"
    /\ reply' = "EACCES"
    /\ UNCHANGED <<rules, call>>

\* A program may exit, or be killed, at any time.
Die ==
    /\ phase # "dead"
    /\ phase' = "dead"
    /\ reply' = "none"
    /\ UNCHANGED <<rules, call>>

\* The program is stopped before the call.
Stop == phase = "asked" /\ rules[call] = "BLOCK" /\ Die

\* The guard is gone.
Abandon ==
    /\ phase = "asked"
    /\ rules[call] = "UNREADABLE"
    /\ phase' = "unguarded"
    /\ UNCHANGED <<rules, call, reply>>

Next ==
    \/ \E c \in Calls : Ask(c)
    \/ Perform
    \/ Refuse
    \/ Die
    \/ Abandon

\* A refused call is answered and a blocked program does stop.
Spec == Init /\ [][Next]_vars /\ WF_vars(Refuse) /\ WF_vars(Stop)

=============================================================================
