------------------------------ MODULE RuleTable ------------------------------
(***************************************************************************)
(* The rule columns of syscalls_table and the list of the rows that have   *)
(* rules (src/src/sandbox.c): set_rules_for_syscall_name, which turns one  *)
(* line of a rules file into a rule, and clean_syscall_rules.              *)
(*                                                                         *)
(* A rule is an array in the heap of one cell for each argument position   *)
(* up to the last one the line mentions, and one more cell of type NONE.   *)
(* It takes over the texts and byte arrays it keeps (their heap blocks)    *)
(* from the caller.  A cell never written is RAW: what it holds is what    *)
(* malloc left there; so are the cells after the terminator, which belong  *)
(* to other blocks.  C code that reads such a cell may find any type and   *)
(* any pointer in it.                                                      *)
(***************************************************************************)
EXTENDS Naturals, Sequences

CONSTANTS
    MaxArgs,     \* MAX_SYSCALL_ARGS_NUM, 6 in the code
    Syscalls,    \* the rows of syscalls_table that have a name
    ArgTypes,    \* their arg_types
    Texts,       \* the texts in rules files: names, numbers, strings
    NumberOf,    \* the row with a given name: syscalls_name_num_map
    NotFound,    \* HM_NOT_FOUND
    Readable,    \* <<type, text>> where the whole text reads as that type
    Ranges,      \* the texts of the form 0x..-0x..
    Blocks,      \* heap blocks for texts and arrays (a bound on how many live)
    NoText, NoBlock

Positions == 0 .. MaxArgs - 1

Numeric == {"INT", "UINT", "LONG", "ULONG", "LLONG", "ULLONG"}
Types == Numeric \cup {"NONE", "STRING", "ADDRESS", "ARRAY", "VARIAD", "OTHER"}
Actions == {"NONE_ACTION", "BLOCK", "FILTER", "NOTIFY"}

ASSUME RuleTableAssumption ==
    /\ MaxArgs \in Nat \ {0}
    /\ ArgTypes \in [Syscalls -> [Positions -> Types]]
    /\ NumberOf \in [Texts -> Syscalls \cup {NotFound}]
    /\ NotFound \notin Syscalls
    /\ NoText \notin Texts /\ NoBlock \notin Blocks

VARIABLES
    rules,     \* the column rules of syscalls_table
    action,    \* the column action
    recorded,  \* syscalls_with_rules, the newest row first
    live       \* the blocks of texts and arrays allocated and not freed

tableVars == <<rules, action, recorded, live>>

(***************************************************************************)
(* An argument as the caller passes it, and a cell of a rule: a type, the  *)
(* text its value was read from and the block the cell points to.          *)
(***************************************************************************)
Cell(type, text, body) == [type |-> type, text |-> text, body |-> body]
Cells == [type : Types \cup {"RAW"}, text : Texts \cup {NoText}, body : Blocks \cup {NoBlock}]
Raw   == Cell("RAW", NoText, NoBlock)
None  == Cell("NONE", NoText, NoBlock)

ArgumentTypes == {"NONE", "ULLONG", "STRING", "ARRAY"}
Arguments == [Positions -> [type : ArgumentTypes, text : Texts \cup {NoText},
                            body : Blocks \cup {NoBlock}]]

NoCells == [p \in Positions |-> Raw]
NULL    == [kind |-> "NULL", len |-> 0, cells |-> NoCells]
EMPTY_RULES == [kind |-> "EMPTY", len |-> 0, cells |-> NoCells]
Rules == [kind : {"NULL", "EMPTY", "LIST"}, len : 0 .. MaxArgs, cells : [Positions -> Cells]]

TableInit ==
    /\ rules = [s \in Syscalls |-> NULL]
    /\ action = [s \in Syscalls |-> "NONE_ACTION"]
    /\ recorded = <<>>
    /\ live = {}

\* What malloc returns: which of the free blocks makes no difference.
Fresh == CHOOSE b \in Blocks : b \notin live
Allocate == Blocks \ live # {} /\ live' = live \cup {Fresh}

(***************************************************************************)
(* Copying one argument.                                                   *)
(***************************************************************************)

\* "error: string expected", "error: array expected".
Rejects(type, a) ==
    \/ type = "STRING" /\ a.type \in {"ULLONG", "ARRAY"}
    \/ type = "ARRAY" /\ a.type = "ULLONG"

\* The length of an array is taken for the address of a text.
Misreads(type, a) == type \in Numeric \cup {"ADDRESS"} /\ a.type = "ARRAY"

\* A position not mentioned is skipped: its cell stays as malloc left it.  So
\* does the value of a cell whose text does not read as a number.
Copied(type, a) ==
    IF a.type = "NONE" THEN Raw
    ELSE IF type = "NONE" THEN None
    ELSE IF type = "ADDRESS" THEN
        Cell(type, IF a.type = "ULLONG" \/ a.text \in Ranges THEN a.text ELSE NoText, NoBlock)
    ELSE IF type \in Numeric THEN
        Cell(type, IF <<type, a.text>> \in Readable THEN a.text ELSE NoText, NoBlock)
    ELSE a

\* The texts that are read and then freed; one that did not read is leaked.
Consumed(type, a) ==
    \/ type \in {"NONE", "ADDRESS"}
    \/ type \in Numeric /\ <<type, a.text>> \in Readable

\* The positions copying cannot get past.
Stops(s, args, n) ==
    {p \in Positions : /\ p < n
                       /\ Rejects(ArgTypes[s][p], args[p]) \/ Misreads(ArgTypes[s][p], args[p])}

\* The first n positions as copying leaves them: where it stops the type is set
\* and the value is not, and what comes after is not touched.
Reached(s, args, n, p) == p < n /\ \A q \in Stops(s, args, n) : p < q
Installed(s, args, n) ==
    [p \in Positions |->
        IF Reached(s, args, n, p) THEN Copied(ArgTypes[s][p], args[p])
        ELSE IF p = n THEN None
        ELSE IF p < n /\ \A q \in Stops(s, args, n) : p <= q
               THEN Cell(ArgTypes[s][p], NoText, NoBlock)
        ELSE Raw]
Released(s, args, n) ==
    {args[p].body : p \in {q \in Positions : /\ Reached(s, args, n, q)
                                             /\ args[q].type # "NONE"
                                             /\ Consumed(ArgTypes[s][q], args[q])}}

\* Copying stops at a text that is none, or the report that follows it (a loop
\* up to the first cell of type NONE) prints a RAW cell as a string.
Misreading(s, args, n) ==
    \E p \in Stops(s, args, n) :
        /\ Misreads(ArgTypes[s][p], args[p])
        /\ \A q \in Stops(s, args, n) : p <= q
ReportsRaw(s, args, n) ==
    /\ Stops(s, args, n) = {}
    /\ \E p \in Positions : p < n /\ Installed(s, args, n)[p] = Raw

(***************************************************************************)
(* set_rules_for_syscall_name(name, args, n, act).                         *)
(***************************************************************************)

\* Mutant of AlreadySet: a second rule for the same call is set as well.
NeverSet(s) == FALSE

AlreadySet(s) == rules[s].kind # "NULL"

\* A line copied to the end reaches the end of the function without a return:
\* the result is what a register happens to hold.
Statuses(s, args, n) == IF Stops(s, args, n) = {} THEN {"ok", "err"} ELSE {"err"}

\* also is freed by the caller after the call.
SetRules(name, args, n, act, result, also) ==
    LET s == NumberOf[name] IN
    \/ /\ s = NotFound
       /\ result = "err"
       /\ live' = live \ also
       /\ UNCHANGED <<rules, action, recorded>>
    \/ /\ s # NotFound /\ AlreadySet(s)
       /\ result = "ok"
       /\ live' = live \ also
       /\ UNCHANGED <<rules, action, recorded>>
    \/ /\ s # NotFound /\ ~AlreadySet(s)
       /\ recorded' = <<s>> \o recorded
       /\ action' = [action EXCEPT ![s] = act]
       /\ \/ /\ n = 0
             /\ result = "ok"
             /\ rules' = [rules EXCEPT ![s] = EMPTY_RULES]
             /\ live' = live \ also
          \/ /\ n > 0 /\ ~Misreading(s, args, n)
             /\ result \in Statuses(s, args, n)
             /\ rules' = [rules EXCEPT ![s] = [kind |-> "LIST", len |-> n,
                                               cells |-> Installed(s, args, n)]]
             /\ live' = live \ (Released(s, args, n) \cup also)

SetRulesCrashes(name, args, n) ==
    LET s == NumberOf[name] IN
    /\ s # NotFound /\ ~AlreadySet(s) /\ n > 0
    /\ Misreading(s, args, n) \/ ReportsRaw(s, args, n)

(***************************************************************************)
(* clean_syscall_rules, one node of the list at a time; recorded is what   *)
(* is left of it.                                                          *)
(***************************************************************************)

\* Mutant of Kept: the blocks of byte arrays are forgotten.
KeptStrings(s) == {p \in Positions : rules[s].cells[p].type = "STRING"}

\* The cells whose pointers clean_arguments frees.
Kept(s) == {p \in Positions : rules[s].cells[p].type \in {"STRING", "ARRAY"}}

CleanNode ==
    /\ recorded # <<>>
    /\ LET s == Head(recorded) IN
         /\ rules' = [rules EXCEPT ![s] = NULL]
         /\ live' = live \ {rules[s].cells[p].body : p \in Kept(s)}
    /\ recorded' = Tail(recorded)
    /\ UNCHANGED action

\* clean_arguments looks at MaxArgs cells of every rule.  One that was not
\* written, or has a type and no value, may look like a pointer to free.
CleanCrashes ==
    /\ recorded # <<>>
    /\ LET r == rules[Head(recorded)] IN
         /\ r.kind = "LIST"
         /\ \E p \in Positions :
              r.cells[p].type \in {"RAW", "STRING", "ARRAY"} /\ r.cells[p].body = NoBlock

=============================================================================
