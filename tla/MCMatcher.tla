------------------------------ MODULE MCMatcher ------------------------------
(***************************************************************************)
(* The nine special calls with their own types, and ordinary calls with    *)
(* an array in front, an array behind, a text between numbers, a long long *)
(* behind, an address and no argument at all.                              *)
(* An int has 3 bits and a register 4.  Odd addresses hold the text or     *)
(* bytes "x", even ones "y"; as a number, a word of memory is its address. *)
(***************************************************************************)
EXTENDS Matcher

Types6(t) == [p \in 0 .. 5 |-> IF p < Len(t) THEN t[p + 1] ELSE "NONE"]
MCArgTypes == [s \in Special \cup {"getpid", "brk", "write", "munmap", "pwrite64", "clone"} |->
    Types6(CASE s = "open"       -> <<"STRING", "INT", "VARIAD">>
             [] s = "openat"     -> <<"INT", "STRING", "INT", "VARIAD">>
             [] s = "ioctl"      -> <<"INT", "ULONG", "VARIAD">>
             [] s = "prctl"      -> <<"INT", "VARIAD">>
             [] s = "futex"      -> <<"ADDRESS", "INT", "VARIAD">>
             [] s = "mremap"     -> <<"ARRAY", "ULONG", "ULONG", "INT", "VARIAD">>
             [] s = "getsockopt" -> <<"INT", "INT", "INT", "ARRAY", "ADDRESS">>
             [] s = "semctl"     -> <<"INT", "INT", "INT", "VARIAD">>
             [] s = "fcntl"      -> <<"INT", "INT", "VARIAD">>
             [] s = "getpid"     -> <<>>
             [] s = "brk"        -> <<"ADDRESS">>
             [] s = "write"      -> <<"INT", "ARRAY", "ULONG">>
             [] s = "munmap"     -> <<"ARRAY", "ULONG">>
             [] s = "pwrite64"   -> <<"UINT", "STRING", "ULONG", "LLONG">>
             [] s = "clone"      -> <<"ADDRESS", "ADDRESS", "INT", "ADDRESS", "VARIAD">>)]
MCSyscalls == DOMAIN MCArgTypes
MCTexts == MCSyscalls \cup {"1", "9", "0x1-0x9", "word"}
MCNumberOf == [t \in MCTexts |-> IF t \in MCSyscalls THEN t ELSE "none"]
MCNotFound == "none"
MCReadable == Numeric \X {"1", "9"}
MCRanges == {"0x1-0x9"}
MCNumber == [t \in MCTexts |-> IF t = "9" THEN 9 ELSE 1]
MCLow == MCNumber
MCHigh == [t \in MCTexts |-> IF t \in {"9", "0x1-0x9"} THEN 9 ELSE 1]
MCWordAt == [w \in 0 .. 15 |-> w]
MCDataAt == [w \in 0 .. 15 |-> IF w % 2 = 1 THEN "x" ELSE "y"]
MCMatches == {<<"word", "x">>}
MCArrayOf == [b \in Blocks |-> [size |-> 1, data |-> "x"]]

\* The operation codes of a row: its cases, numbered, and others.
Codes(s) == CASE s \in {"open", "openat"} -> <<"creates">>
              [] s = "ioctl"  -> <<"int", "result", "name", "peek", "struct">>
              [] s = "prctl"  -> <<"int", "result", "name", "speculation", "seccomp">>
              [] s = "futex"  -> <<"wait", "wake", "requeue", "cmp", "bitset">>
              [] s = "mremap" -> <<"moves">>
              [] s = "semctl" -> <<"value", "struct">>
              [] OTHER        -> <<"int", "struct">>
MCCaseOf == [s \in DOMAIN OpAt |-> [w \in 0 .. 15 |->
                IF w % 8 \in DOMAIN Codes(s) THEN Codes(s)[w % 8] ELSE "other"]]

MCBlocks == {"b0", "b1", "b2", "b3", "b4"}
BlockAt == <<"b0", "b1", "b2", "b3", "b4">>

\* One line for a position: it is not mentioned, or has a value of some kind.
Mentions(t) ==
    {<<"NONE", NoText>>} \cup
    CASE t = "NONE"    -> {}
      [] t = "STRING"  -> {<<"STRING", "word">>}
      [] t = "ARRAY"   -> {<<"STRING", "word">>, <<"ARRAY", NoText>>}
      [] t = "ADDRESS" -> {<<"ULLONG", "9">>, <<"STRING", "0x1-0x9">>}
      [] t = "VARIAD"  -> {<<"ULLONG", "9">>, <<"STRING", "word">>}
      [] OTHER         -> {<<"ULLONG", "9">>}
ArgsOf(s) ==
    LET Kinds(p) == Mentions(MCArgTypes[s][p])
        picks == {<<k0, k1, k2, k3, k4>> : k0 \in Kinds(0), k1 \in Kinds(1), k2 \in Kinds(2),
                                           k3 \in Kinds(3), k4 \in Kinds(4)}
    IN  {[p \in 0 .. 5 |->
            IF p < 5 /\ k[p + 1][1] # "NONE"
              THEN [type |-> k[p + 1][1], text |-> k[p + 1][2], body |-> BlockAt[p + 1]]
              ELSE [type |-> "NONE", text |-> NoText, body |-> NoBlock]] : k \in picks}
Last(args) == {p \in 0 .. 5 : args[p].type # "NONE"}
MCLines == UNION {{[name |-> s, args |-> a, act |-> "FILTER",
                    n |-> CHOOSE n \in 0 .. 6 : (\A p \in Last(a) : p < n) /\ (n > 0 => n - 1 \in Last(a))]
                   : a \in ArgsOf(s)} : s \in MCSyscalls}

\* Registers: what decides about the kind of an argument, and values at and
\* beyond the ends of the ranges.
Registers(s, p) ==
    IF s \in DOMAIN OpAt /\ p = OpAt[s] THEN 0 .. Len(Codes(s))
    ELSE CASE s = "getsockopt" /\ p < 2 -> {9}
           [] s = "clone" /\ p \in {1, 2} -> {9}
           [] MCArgTypes[s][p] = "NONE" -> {1}
           [] MCArgTypes[s][p] \in {"STRING", "ARRAY"} -> {0, 1}
           [] OTHER -> {0, 1, 9}
MCRequests ==
    UNION {{[row |-> s, raw |-> [p \in 0 .. 5 |-> IF p < 5 THEN f[p + 1] ELSE 1]] :
              f \in {<<r0, r1, r2, r3, r4>> :
                       r0 \in Registers(s, 0), r1 \in Registers(s, 1), r2 \in Registers(s, 2),
                       r3 \in Registers(s, 3), r4 \in Registers(s, 4)}} : s \in MCSyscalls}
=============================================================================
