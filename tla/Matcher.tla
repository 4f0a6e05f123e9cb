------------------------------- MODULE Matcher -------------------------------
(***************************************************************************)
(* The verdict on one call (src/src/sandbox.c):                            *)
(* print_blocked_syscall_arguments, which reads the arguments of the call  *)
(* from the registers and the memory of the stopped program, compares them *)
(* with the rule of the call (cmp_syscall_argument) and reports it.        *)
(*                                                                         *)
(* The rule is one that set_rules_for_syscall_name (RuleTable) made of a   *)
(* line of the rules file; nothing but the rule is kept from one call to   *)
(* the next.  A step is one turn of a loop.  Any read of the program's     *)
(* memory may fail: the address is bad or the program was killed.         *)
(* A cell of the rule that was never written, or lies behind its end, is   *)
(* RAW: what is read there may be any type with any value.                 *)
(***************************************************************************)
EXTENDS RuleTable, SpecialSyscalls

CONSTANTS
    Lines,       \* lines of rules files: a name, its arguments, an action
    Requests,    \* system calls: a row and the six argument registers
    IntSize,     \* 2^32
    Number,      \* the value of a text as a number
    Low, High,   \* and as a range of addresses
    WordAt, DataAt,  \* the memory of the program, as a number, a text or bytes
    NoData,      \* a NULL pointer
    Matches,     \* <<text, data>> where the text or regex matches
    ArrayOf      \* the length and the bytes of an array of the rules

ASSUME MatcherAssumption ==
    \* lines as the parser passes them: with an action, a value for every argument
    /\ \A l \in Lines : /\ l.name \in Texts /\ l.args \in Arguments
                        /\ l.n \in 0 .. MaxArgs /\ l.act \in Actions \ {"NONE_ACTION"}
                        /\ \A p \in Positions :
                             /\ p >= l.n => l.args[p].type = "NONE"
                             /\ l.args[p].type \in {"ULLONG", "STRING"} => l.args[p].text \in Texts
                        \* it names a call and is one that is set to the end
                        /\ NumberOf[l.name] # NotFound
                        /\ Stops(NumberOf[l.name], l.args, l.n) = {}
    /\ \A r \in Requests : /\ r.row \in Syscalls /\ r.raw \in [Positions -> Nat]
                           /\ \A p \in Positions : /\ WordAt[r.raw[p]] \in Nat
                                                   /\ DataAt[r.raw[p]] # NoData
    /\ Readable \subseteq Numeric \X Texts /\ Ranges \subseteq Texts
    /\ IntSize \in Nat \ {0}
    \* the rows of syscalls_table: arguments from the first position on, no array in
    \* the last; what a special call has after its fixed arguments has no type
    /\ MaxArgs >= 6
    /\ \A s \in Syscalls : /\ ArgTypes[s][MaxArgs - 1] # "ARRAY"
                           /\ \A p, q \in Positions :
                                ArgTypes[s][p] = "NONE" /\ p <= q => ArgTypes[s][q] = "NONE"
                           /\ s \in Special => \A p \in Positions :
                                p >= Len(Fixed[s]) => ArgTypes[s][p] \in {"VARIAD", "NONE"}

VARIABLES
    line,             \* the line the rule was made of
    request,          \* the call
    loc,              \* where the program is
    i,
    received_args, argument_num, required_action,
    held,             \* the positions of received_args that own a block
    lost,             \* history: those whose block nothing points to any more
    unread            \* history: those memory could not be read for

given == <<tableVars, line, request>>
matcherVars == <<line, request, loc, i, received_args, argument_num, required_action,
                 held, lost, unread>>
vars == <<tableVars, matcherVars>>

Row == request.row
Rule == rules[Row]
TypeAt(p) == IF p < MaxArgs THEN ArgTypes[Row][p] ELSE "NONE"

\* A received argument: its type, the two words of its union as far as they are
\* numbers, and the text or the bytes it points to.
Argument(type, word, size, data) ==
    [type |-> type, word |-> word, size |-> size, data |-> data]
NoArgument == Argument("NONE", 0, 0, NoData)
NoArgumentsYet == [p \in Positions |-> NoArgument]

Init ==
    /\ TableInit
    /\ line \in Lines /\ request \in {r \in Requests : r.row = NumberOf[line.name]}
    /\ loc = "load" /\ i = 0
    /\ received_args = NoArgumentsYet /\ argument_num = 0
    /\ required_action = "NONE_ACTION"
    /\ held = {} /\ lost = {} /\ unread = {}

\* The parser has the rule of a line set.
Load ==
    /\ loc = "load"
    /\ SetRules(line.name, line.args, line.n, line.act, "ok", {})
    /\ loc' = "idle"
    /\ UNCHANGED <<line, request, i, received_args, argument_num, required_action, held, lost, unread>>

\* run_tracer asks for the verdict on a call that has a rule.
Enter ==
    /\ loc = "idle"
    /\ required_action' = action[Row]
    /\ received_args' = NoArgumentsYet /\ held' = {} /\ lost' = {} /\ unread' = {}
    /\ i' = 0
    /\ loc' = IF Row \in Special THEN "special" ELSE "collect"
    /\ UNCHANGED <<given, argument_num>>

(***************************************************************************)
(* Reading the arguments.                                                  *)
(***************************************************************************)
\* Mutant of Int: an int is compared in all its 64 bits.
IntWide(type, w) == w

Int(type, w) == IF type \in {"INT", "UINT"} THEN w % IntSize ELSE w
Read(type, w, size, fails) == Argument(type, 0, size, IF fails THEN NoData ELSE DataAt[w])

\* The argument in register w read in this way; len is the length of an array.
Fetch(way, w, len, fails) ==
    CASE way \in Numeric -> Argument(way, Int(way, w), 0, NoData)
      [] way = "ADDRESS" -> Argument(way, w, w, NoData)
      [] way = "NULL"    -> Argument("ADDRESS", 0, 0, NoData)
      [] way = "INT*"    -> Argument("INT", IF fails THEN 0 ELSE Int("INT", WordAt[w]), 0, NoData)
      [] way = "UINT*"   -> Argument("UINT", IF fails THEN 0 ELSE Int("UINT", WordAt[w]), 0, NoData)
      [] way = "ONES"    -> Argument("UINT", IntSize - 1, 0, NoData)
      [] way = "STRING"  -> Read("STRING", w, 0, fails)
      [] way \in {"ARRAY", "ARRAY*"} -> Read("ARRAY", w, len, fails /\ len > 0)
      [] way = "ARRAY0"  -> Argument("ARRAY", 1, 0, DataAt[w])
      [] OTHER           -> Argument(way, 0, 0, NoData)

\* A read that succeeds hands its block to the argument.  One that fails frees it if
\* it was reading bytes; read_str_from_tracee frees only what is NULL.
Owns(a) == a.type \in {"STRING", "ARRAY"} /\ a.data # NoData
Leaks(way, fails) == way = "STRING" /\ fails

\* What the rule says of an array position makes it an array or a text.
RuleType(p) ==
    IF Rule.kind = "EMPTY" /\ p = 0 THEN "NONE" ELSE Rule.cells[p].type

\* Mutant of ReadsAs: an array stays an array.
ReadsAsTyped(p) == {TypeAt(p)}

ReadsAs(p) ==
    IF TypeAt(p) # "ARRAY" THEN {TypeAt(p)}
    ELSE CASE RuleType(p) = "STRING" -> {"STRING"}
           [] RuleType(p) \in {"ARRAY", "NONE"} -> {"ARRAY"}
           [] OTHER -> {"STRING", "ARRAY"}

Collect ==
    /\ loc = "collect" /\ TypeAt(i) # "NONE"
    /\ \E way \in ReadsAs(i), fails \in BOOLEAN :
         LET a == Fetch(way, request.raw[i], IF way = "ARRAY" THEN request.raw[i + 1] ELSE 0, fails)
         IN  /\ fails => way \in {"STRING", "ARRAY"}
             /\ received_args' = [received_args EXCEPT ![i] = a]
             /\ held' = IF Owns(a) THEN held \cup {i} ELSE held
             /\ lost' = IF Leaks(way, fails) THEN lost \cup {i} ELSE lost
             /\ unread' = IF fails THEN unread \cup {i} ELSE unread
    /\ i' = i + 1
    /\ UNCHANGED <<given, loc, argument_num, required_action>>

\* The cell of an array position has yet another type: the call is let through
\* unreported, and what was read is not freed.
GiveUp ==
    /\ loc = "collect" /\ TypeAt(i) = "ARRAY" /\ RuleType(i) = "RAW"
    /\ required_action' = "NONE_ACTION"
    /\ loc' = "gave_up"
    /\ UNCHANGED <<given, i, received_args, argument_num, held, lost, unread>>

\* process_special_syscall
CollectSpecial ==
    /\ loc = "special"
    /\ \E fails \in SUBSET Followed(Row, request.raw) :
         LET ways == WaysRead(Row, request.raw, fails)
             Len4 == IF Row = "getsockopt" THEN Int("UINT", WordAt[request.raw[4]]) ELSE 0
             All == [p \in Positions |->
                       IF p < Len(ways) THEN Fetch(ways[p + 1], request.raw[p], Len4, p \in fails)
                       ELSE NoArgument]
         IN  /\ received_args' = All
             /\ held' = {p \in Positions : Owns(All[p])}
             /\ lost' = {p \in Positions : p < Len(ways) /\ Leaks(ways[p + 1], p \in fails)}
             /\ argument_num' = Count(Row, request.raw, fails)
             /\ unread' = IF GivesUp(Row, fails) THEN Positions ELSE fails
    /\ i' = 0
    /\ loc' = IF Rule.kind = "EMPTY" THEN "report" ELSE "compare"
    /\ UNCHANGED <<given, required_action>>

Collected ==
    /\ loc = "collect" /\ TypeAt(i) = "NONE"
    /\ argument_num' = i
    /\ i' = 0
    /\ loc' = IF Rule.kind = "EMPTY" THEN "report" ELSE "compare"
    /\ UNCHANGED <<given, received_args, required_action, held, lost, unread>>

(***************************************************************************)
(* cmp_syscall_argument.                                                   *)
(***************************************************************************)
If(equal) == IF equal THEN {"same"} ELSE {"differs"}

\* A number for a position without a fixed type was never converted: the cell
\* still holds the argument of the parser, whose first word is 0.
Converted(p) == TypeAt(p) \in Numeric \cup {"ADDRESS"}

\* A word of the program, followed as if it were a pointer of the supervisor.
Stray(address) == IF address = 0 THEN {"crash"} ELSE {"same", "differs", "crash"}

\* Mutant of InRange: the upper end is left out.
InRangeBelow(text, w) == Low[text] <= w /\ w < High[text]

InRange(text, w) == Low[text] <= w /\ w <= High[text]

Compared(p, c, a) ==
    CASE c.type = "NONE" -> {"same"}
      [] c.type = "RAW"  -> {"same", "differs", "crash"}
      [] c.type = "ADDRESS" ->
           IF c.text = NoText THEN If(a.word = 0)
           ELSE If(InRange(c.text, a.word))
      [] c.type \in Numeric /\ ~Converted(p) -> If(a.word = 0)
      [] c.type \in Numeric /\ Converted(p) ->
           IF c.text = NoText THEN {"same", "differs"}
           ELSE If(Int(c.type, Number[c.text]) = Int(c.type, a.word))
      [] c.type = "STRING" ->
           IF a.type = "STRING" /\ a.data # NoData THEN If(<<c.text, a.data>> \in Matches)
           ELSE Stray(a.size)
      [] c.type = "ARRAY" ->
           IF ArrayOf[c.body].size # a.size \/ (a.type = "STRING" /\ a.data # NoData)
             THEN {"differs"}
           ELSE IF a.size = 0 THEN {"same"}
           ELSE IF a.type = "ARRAY" /\ a.data # NoData THEN If(ArrayOf[c.body].data = a.data)
           ELSE Stray(a.word)

\* Mutant of Advance: only the last argument decides.
AdvanceLast(outcome) ==
    /\ required_action' = IF outcome = "same" THEN action[Row] ELSE "NONE_ACTION"
    /\ i' = i + 1 /\ UNCHANGED loc

\* The first difference decides.
Advance(outcome) ==
    IF outcome = "same"
      THEN i' = i + 1 /\ UNCHANGED <<required_action, loc>>
      ELSE required_action' = "NONE_ACTION" /\ loc' = "report" /\ UNCHANGED i

Compare ==
    /\ loc = "compare" /\ TypeAt(i) # "NONE"
    /\ \E outcome \in Compared(i, Rule.cells[i], received_args[i]) \ {"crash"} : Advance(outcome)
    /\ UNCHANGED <<given, received_args, argument_num, held, lost, unread>>

CompareCrashes ==
    /\ loc = "compare" /\ TypeAt(i) # "NONE"
    /\ "crash" \in Compared(i, Rule.cells[i], received_args[i])
    /\ loc' = "crashed"
    /\ UNCHANGED <<given, i, received_args, argument_num, required_action, held, lost, unread>>

AllCompared ==
    /\ loc = "compare" /\ TypeAt(i) = "NONE"
    /\ loc' = "report"
    /\ UNCHANGED <<given, i, received_args, argument_num, required_action, held, lost, unread>>

(***************************************************************************)
(* The report, print_catched_syscall.                                      *)
(***************************************************************************)

\* The arguments printed: up to one that is followed by none, and the last one.
Printed ==
    {p \in Positions : p = argument_num - 1 \/
        (p < argument_num - 1 /\ \A q \in 0 .. p : received_args[q + 1].type # "NONE")}

\* NULL is printed, or an array of size 0, of which 0 - 1 bytes and one more are.
CannotPrint(a) ==
    \/ a.type \in {"STRING", "ARRAY"} /\ a.data = NoData
    \/ a.type = "ARRAY" /\ a.size = 0

\* The format of a long long is that of a text: the number is followed as a pointer,
\* which may go well.  Of 0 it prints that it is NULL.
PrintedAsText(a) == a.type = "LLONG" /\ a.word # 0

CanCrash(a) == CannotPrint(a) \/ PrintedAsText(a)
Reporting == required_action # "NONE_ACTION"

\* Mutant of Freed: texts are freed and arrays are not.
FreedStrings == {p \in Positions : received_args[p].type = "STRING"}

\* clean_arguments(received_args)
Freed == {p \in Positions : received_args[p].type \in {"STRING", "ARRAY"}}

Report ==
    /\ loc = "report"
    /\ Reporting => \A p \in Printed : ~CannotPrint(received_args[p])
    /\ held' = held \ Freed
    /\ loc' = "decided"
    /\ UNCHANGED <<given, i, received_args, argument_num, required_action, lost, unread>>

\* With no arguments args[-1] is printed.
ReportCrashes ==
    /\ loc = "report" /\ Reporting
    /\ argument_num = 0 \/ \E p \in Printed : CanCrash(received_args[p])
    /\ loc' = "crashed"
    /\ UNCHANGED <<given, i, received_args, argument_num, required_action, held, lost, unread>>

Stopped == loc \in {"decided", "gave_up", "crashed"} /\ UNCHANGED vars

Next ==
    \/ Load \/ Enter
    \/ Collect \/ GiveUp \/ Collected \/ CollectSpecial
    \/ Compare \/ CompareCrashes \/ AllCompared
    \/ Report \/ ReportCrashes
    \/ Stopped

Spec == Init /\ [][Next]_vars

(***************************************************************************)
(* The loops taken together, for an ordinary call whose arguments can be   *)
(* read: what the comparison may find at each position, and the verdicts   *)
(* that leaves.  The crash of the supervisor is the verdict UNREADABLE.    *)
(***************************************************************************)
Received(p) == {Fetch(way, request.raw[p], IF way = "ARRAY" THEN request.raw[p + 1] ELSE 0, FALSE)
                  : way \in ReadsAs(p)}
Outcomes(p) == UNION {Compared(p, Rule.cells[p], a) : a \in Received(p)}

Taken == {p \in Positions : \A q \in 0 .. p : TypeAt(q) # "NONE"}
Arrives(p) == Rule.kind = "LIST" => \A q \in Taken : q < p => "same" \in Outcomes(q)
May(outcome) == Rule.kind = "LIST" /\ \E p \in Taken : Arrives(p) /\ outcome \in Outcomes(p)

LetThrough == May("differs") \/ \E p \in Taken : TypeAt(p) = "ARRAY" /\ RuleType(p) = "RAW"
ActedOn ==
    Arrives(MaxArgs) /\ \A p \in Taken : \E a \in Received(p) : ~CannotPrint(a)
Crashes ==
    \/ May("crash")
    \/ /\ Arrives(MaxArgs) /\ action[Row] # "NONE_ACTION"
       /\ Taken = {} \/ \E p \in Taken : \E a \in Received(p) : CanCrash(a)

Verdicts ==
    {v \in {"NONE_ACTION", action[Row], "UNREADABLE"} :
        \/ v = "NONE_ACTION" /\ LetThrough
        \/ v = "UNREADABLE" /\ Crashes
        \/ v = action[Row] /\ ActedOn}

-----------------------------------------------------------------------------
(***************************************************************************)
(* Properties.  They compare the verdict with the line of the rules file   *)
(* and the call, not with the cells of the rule and the arguments read.    *)
(***************************************************************************)
Locations == {"load", "idle", "special", "collect", "compare", "report",
              "decided", "gave_up", "crashed"}

\* Every variable has its type; an int has the width of an int.
TypeOK ==
    /\ loc \in Locations
    /\ request.row \in Syscalls /\ request.raw \in [Positions -> Nat]
    /\ rules \in [Syscalls -> Rules] /\ action \in [Syscalls -> Actions]
    /\ i \in 0 .. MaxArgs /\ argument_num \in 0 .. MaxArgs
    /\ required_action \in Actions
    /\ held \subseteq Positions /\ lost \subseteq Positions /\ unread \subseteq Positions
    /\ DOMAIN received_args = Positions
    /\ \A p \in Positions : received_args[p].type \in {"INT", "UINT"} =>
         received_args[p].word \in 0 .. IntSize - 1

\* The line mentions position p of the call, and what it says there.
Asked(p)  == TypeAt(p) # "NONE" /\ line.args[p].type # "NONE"
Wanted(p) == line.args[p]

\* The argument p of the call as it is, all of memory being readable.
WayOf(p) ==
    IF Row \in Special
      THEN IF p < Len(Ways(Row, request.raw)) THEN Ways(Row, request.raw)[p + 1] ELSE "NONE"
    ELSE IF TypeAt(p) = "ARRAY" /\ Wanted(p).type = "STRING" THEN "STRING"
    ELSE TypeAt(p)
LengthOf(p) ==
    IF WayOf(p) = "ARRAY" THEN request.raw[p + 1]
    ELSE IF WayOf(p) = "ARRAY*" THEN Int("UINT", WordAt[request.raw[4]])
    ELSE 0
Actual(p) == Fetch(WayOf(p), request.raw[p], LengthOf(p), FALSE)

\* What the line says makes sense for the type the argument has.
Sensible(p) ==
    \/ TypeAt(p) \in Numeric /\ <<TypeAt(p), Wanted(p).text>> \in Readable
    \/ TypeAt(p) = "ADDRESS" /\ (Wanted(p).type = "ULLONG" \/ Wanted(p).text \in Ranges)
    \/ TypeAt(p) \in {"STRING", "ARRAY"} /\ Wanted(p).type = Actual(p).type

Agrees(p) ==
    LET t == TypeAt(p)
        w == Wanted(p)
        a == Actual(p)
    IN  \/ t \in Numeric /\ Int(t, Number[w.text]) = Int(t, a.word)
        \/ t = "ADDRESS" /\ Low[w.text] <= a.word /\ a.word <= High[w.text]
        \/ /\ t \in {"STRING", "ARRAY"} /\ w.type = "STRING"
           /\ <<w.text, a.data>> \in Matches
        \/ /\ t \in {"STRING", "ARRAY"} /\ w.type = "ARRAY"
           /\ ArrayOf[w.body].size = a.size
           /\ a.size # 0 => ArrayOf[w.body].data = a.data
Disagrees(p) == Asked(p) /\ Sensible(p) /\ ~Agrees(p)

Acted == loc \in {"report", "decided"} /\ required_action # "NONE_ACTION"

\* The supervisor acts on a call only if every argument the rule mentions is as
\* the rule says: one difference, wherever it is, lets the call through.
OnlyMatchesActedOn ==
    Acted => \A p \in Positions : Disagrees(p) => p \in unread

\* A position where what the rule says means something: not mentioned and written
\* so, or mentioned with a value of the type the call has there.  The cells of a
\* rule without arguments are looked at where an array is read.
Clear(p) ==
    \/ TypeAt(p) = "NONE" \/ RuleType(p) = "NONE"
    \/ Rule.kind = "EMPTY" /\ (TypeAt(p) # "ARRAY" \/ Row \in Special)
    \/ Asked(p) /\ Sensible(p)

\* A rule that is clear at every position of its call misses no call it
\* describes, if its arguments could be read.
ClearRulesMissNothing ==
    loc \in {"decided", "gave_up"} /\ required_action = "NONE_ACTION" =>
        \E p \in Positions : Disagrees(p) \/ ~Clear(p) \/ p \in unread

\* An argument of the call whose report reads where it should not.
Unprintable(p) ==
    \/ Actual(p).type = "ARRAY" /\ Actual(p).size = 0
    \/ Actual(p).type = "LLONG" /\ Actual(p).word # 0

\* A call crashes the supervisor only as far as it agrees with the line.  The
\* comparison does it at a position where the rule is not clear or the argument
\* could not be read; the report, for a call that agrees everywhere, if there is such
\* a position, an argument that cannot be printed or no argument at all.
CrashesExplained ==
    loc = "crashed" =>
        LET comparing == Rule.kind = "LIST" /\ TypeAt(i) # "NONE" IN
        /\ \A p \in Positions : Disagrees(p) /\ (comparing => p < i) => p \in unread
        /\ comparing => ~Clear(i) \/ i \in unread
        /\ ~comparing => \/ TypeAt(0) = "NONE"
                         \/ \E p \in Positions : Unprintable(p) \/ ~Clear(p) \/ p \in unread

\* Turn by turn the loops come to one of the verdicts that the rule and the call
\* allow when looked at as a whole, whatever the unwritten cells hold.
VerdictsFollow ==
    Row \notin Special /\ unread = {} =>
        /\ loc = "decided" => required_action \in Verdicts
        /\ loc = "gave_up" => "NONE_ACTION" \in Verdicts
        /\ loc = "crashed" => "UNREADABLE" \in Verdicts

\* The blocks that are left when the verdict is returned are those of the texts that
\* could not be read, and what had been read when the call was given up.
BlocksAccounted ==
    loc \in {"decided", "gave_up"} =>
        held \cup lost = {p \in Positions :
            \/ p \in unread /\ received_args[p].type = "STRING"
            \/ loc = "gave_up" /\ Owns(received_args[p])}

(***************************************************************************)
(* What comments of the source say and the code does not do.               *)
(***************************************************************************)

\* "arguments don't match -> do nothing" (sandbox.c:521): when nothing is done on
\* a call with a rule and readable arguments, an argument did not match.
NothingDoneOnlyOnMismatch ==
    /\ loc = "decided" /\ required_action = "NONE_ACTION" /\ unread = {}
    => \E p \in Positions : Asked(p) /\ (Sensible(p) => ~Agrees(p))

\* "just uint64 by default, will be converted to the actual type later"
\* (readers.c:325): a number for an argument is compared as a number with it.
NumbersAreConverted ==
    Acted /\ unread = {} =>
        \A p \in Positions :
            Asked(p) /\ Wanted(p).type = "ULLONG" /\ Actual(p).type \in Numeric
              => Int(Actual(p).type, Number[Wanted(p).text]) = Actual(p).word

=============================================================================
