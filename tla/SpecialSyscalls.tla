--------------------------- MODULE SpecialSyscalls ---------------------------
(***************************************************************************)
(* The calls whose arguments depend on one of them                         *)
(* (src/include/special_syscalls.h): which arguments the handler of each   *)
(* reads, and how.  A way of reading an argument is the type it gets; with *)
(* a star, the value is read from the tracee's memory through the          *)
(* argument; NULL is an address 0, ARRAY0 an array of no bytes, ONES       *)
(* 0xffffffff.                                                             *)
(***************************************************************************)
EXTENDS Naturals, Sequences

CONSTANT CaseOf   \* the case of the handler's switch that an operation code is in

Fixed ==
    [open       |-> <<"STRING", "INT">>,
     openat     |-> <<"INT", "STRING", "INT">>,
     ioctl      |-> <<"INT", "UINT">>,
     prctl      |-> <<"INT">>,
     futex      |-> <<"UINT*", "INT">>,
     mremap     |-> <<"ADDRESS", "ULONG", "ULONG", "INT">>,
     getsockopt |-> <<"INT", "INT", "INT", "ARRAY*", "ADDRESS">>,
     semctl     |-> <<"INT", "INT", "INT">>,
     fcntl      |-> <<"INT", "INT">>]

Special == DOMAIN Fixed

\* The arguments that come after them, by the case of the operation code.
Further ==
    [open   |-> [creates |-> <<"UINT">>],
     openat |-> [creates |-> <<"UINT">>],
     ioctl  |-> [int |-> <<"INT">>, result |-> <<"INT*">>, name |-> <<"STRING">>,
                 peek |-> <<"ARRAY0">>, struct |-> <<"ADDRESS">>],
     prctl  |-> [int |-> <<"INT">>, result |-> <<"INT*">>, name |-> <<"STRING">>,
                 speculation |-> <<"INT", "INT">>, seccomp |-> <<"INT", "ADDRESS">>],
     futex  |-> [wait |-> <<"UINT", "ADDRESS">>, wake |-> <<"UINT">>,
                 requeue |-> <<"UINT", "UINT", "UINT*">>,
                 cmp |-> <<"UINT", "UINT", "UINT*", "UINT">>,
                 bitset |-> <<"UINT", "ADDRESS", "NULL", "UINT">>],
     mremap |-> [moves |-> <<"ADDRESS">>],
     semctl |-> [value |-> <<"INT">>, struct |-> <<"ADDRESS">>],
     fcntl  |-> [int |-> <<"INT">>, struct |-> <<"ADDRESS">>]]

\* The position of the operation code or of the flags.
OpAt == [open |-> 1, openat |-> 2, ioctl |-> 1, prctl |-> 0, futex |-> 1,
         mremap |-> 3, semctl |-> 2, fcntl |-> 1]

Cases(s) == IF s \in DOMAIN Further THEN DOMAIN Further[s] ELSE {}
Ways(s, raw) ==
    LET case == IF s \in DOMAIN OpAt THEN CaseOf[s][raw[OpAt[s]]] ELSE "none" IN
    Fixed[s] \o IF case \in Cases(s) THEN Further[s][case] ELSE <<>>

\* What a handler is left with when it cannot read the positions in fails: a
\* word it needs first makes it give up, a later one is all ones and the last.
GivesUp(s, fails) == (s = "futex" /\ 0 \in fails) \/ (s = "getsockopt" /\ 4 \in fails)
WaysRead(s, raw, fails) ==
    LET ways == Ways(s, raw) IN
    IF GivesUp(s, fails) THEN SubSeq(ways, 1, IF s = "futex" THEN 1 ELSE 3)
    ELSE IF s = "futex" /\ 4 \in fails /\ Len(ways) > 4 /\ ways[5] = "UINT*"
      THEN SubSeq(ways, 1, 4) \o <<"ONES">>
    ELSE ways

\* The arguments through which a handler reads memory.
Followed(s, raw) ==
    {p \in 0 .. Len(Ways(s, raw)) - 1 :
        Ways(s, raw)[p + 1] \in {"STRING", "ARRAY*", "INT*", "UINT*"}}
    \cup IF s = "getsockopt" THEN {4} ELSE {}

\* The number of arguments the handler returns; ioctl's returns 2 in any case.
Count(s, raw, fails) ==
    IF GivesUp(s, fails) THEN 0 ELSE IF s = "ioctl" THEN 2 ELSE Len(Ways(s, raw))

=============================================================================
