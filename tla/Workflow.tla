------------------------------ MODULE Workflow ------------------------------
(***************************************************************************)
(* One run of the program: main (src/src/main.c) and                       *)
(* execute_commands_workflow (src/src/executors.c).  The rules file is     *)
(* parsed, the program is run under the rules loaded (module Tracer), and  *)
(* the rules are removed.                                                  *)
(*                                                                         *)
(* The program runs once: every step but those of the traced program,      *)
(* which leaves the rules alone, is a step of one thread.                  *)
(***************************************************************************)
EXTENDS RulesParser, FiniteSets

CONSTANTS Files   \* the rules files, as sequences of tokens

Tokens == {t \in [type : TokenTypes, text : Texts \cup {NoText}] :
              t.type \in WithBody => t.text \in Texts}
ASSUME WorkflowAssumption == Files \subseteq Seq(Tokens)

VARIABLES
    given,    \* cli_arguments->rules_file is not NULL
    exists,   \* and can be opened
    warned    \* print_empty_rules was called

workflowVars == <<given, exists, warned>>
vars == <<tableVars, file, loc, parserVars, workflowVars>>

Locations == {"start", "parse", "array", "parsed", "run", "clean", "done", "crashed"}

Init ==
    /\ TableInit /\ ParserInit
    /\ file \in Files
    /\ given \in BOOLEAN /\ exists \in BOOLEAN
    /\ warned = FALSE
    /\ loc = "start"

\* fopen of a missing file gives NULL, which next_token hands to getc.
Start ==
    /\ loc = "start"
    /\ loc' = IF ~given THEN "run" ELSE IF exists THEN "parse" ELSE "crashed"
    /\ UNCHANGED <<tableVars, file, parserVars, workflowVars>>

\* Mutant of Parsed: what the parser returned is not looked at.
ParsedAnyway ==
    /\ loc = "parsed"
    /\ loc' = "run" /\ warned' = TRUE
    /\ UNCHANGED <<tableVars, file, parserVars, given, exists>>

\* The else belongs to the inner if: the warning that there are no rules comes
\* when a rules file was read.
Parsed ==
    /\ loc = "parsed"
    /\ IF returned # EXIT_SUCCESS_
         THEN loc' = "clean" /\ UNCHANGED warned
         ELSE loc' = "run" /\ warned' = TRUE
    /\ UNCHANGED <<tableVars, file, parserVars, given, exists>>

\* trace_program: its result is not looked at.
Run ==
    /\ loc = "run"
    /\ loc' = "clean"
    /\ UNCHANGED <<tableVars, file, parserVars, workflowVars>>

\* fork fails, which is exit(1) there and then, or the supervisor crashes.
RunFails ==
    /\ loc = "run"
    /\ Crash
    /\ UNCHANGED workflowVars

\* del_syscall_rules, on every path of main that ran init_syscall_rules.
Clean ==
    /\ loc = "clean"
    /\ CleanNode
    /\ UNCHANGED <<file, loc, parserVars, workflowVars>>
CleanFails ==
    /\ loc = "clean" /\ CleanCrashes
    /\ Crash
    /\ UNCHANGED workflowVars
Exit ==
    /\ loc = "clean" /\ recorded = <<>>
    /\ loc' = "done"
    /\ UNCHANGED <<tableVars, file, parserVars, workflowVars>>

Stopped == loc \in {"done", "crashed"} /\ UNCHANGED vars

Next ==
    \/ Start
    \/ Parse /\ UNCHANGED workflowVars
    \/ Parsed \/ Run \/ RunFails \/ Clean \/ CleanFails \/ Exit
    \/ Stopped

Spec == Init /\ [][Next]_vars

\* One thread, which goes on as long as it can.
FairSpec == Spec /\ WF_vars(Next)

-----------------------------------------------------------------------------
(***************************************************************************)
(* What a rules file says, independently of the parser's states: a line is *)
(* written as the grammar has it, and a rule is the first line that names  *)
(* its call, with the last value the line gives for each position.         *)
(***************************************************************************)
Ends == {i \in DOMAIN file : file[i].type = "ENDL"}
LineOf(e) ==   \* the tokens of the line that ends at e, as positions
    {i \in 1 .. e - 1 : \A d \in Ends : d < e => d < i}
Text(i)  == TokenAt(i).text
Type(i)  == TokenAt(i).type
First(e) == CHOOSE i \in LineOf(e) : \A j \in LineOf(e) : i <= j

Assigns(i) == Type(i) = "OPERATOR" /\ Type(i + 1) = "EQ_SIGN" /\ ArgNumber[Text(i)] \in Positions
HasValue(i) == Type(i + 2) \in {"NUMBER", "STRING", "REGEX", "LBRACE"}
InBraces(e, i) == \E j \in LineOf(e) : /\ j < i /\ Type(j) = "LBRACE"
                                       /\ \A k \in j .. i - 1 : Type(k) # "RBRACE"

\* A line action ':' name {argN '=' value} with commas anywhere.
WellFormed(e) ==
    /\ LineOf(e) # {}
    /\ LET f == First(e) IN
         /\ Type(f) = "OPERATOR" /\ Text(f) \in ActionTexts
         /\ Type(f + 1) = "COLON" /\ Type(f + 2) = "OPERATOR"
         /\ \A i \in LineOf(e) : i > f + 2 /\ ~InBraces(e, i) =>
              \/ Assigns(i) /\ HasValue(i)
              \/ Type(i) = "EQ_SIGN" /\ Assigns(i - 1)
              \/ Type(i) \in {"NUMBER", "STRING", "REGEX", "LBRACE"} /\ Assigns(i - 2)
              \/ Type(i) \in {"COMMA", "RBRACE"}
RowOf(e) == NumberOf[Text(First(e) + 2)]

\* The places where a line gives the position p a value, and what that value is;
\* the last one counts.
Given(e, p) ==
    {i \in LineOf(e) : /\ i > First(e) + 2 /\ ~InBraces(e, i)
                       /\ Assigns(i) /\ ArgNumber[Text(i)] = p}
LastFor(e, p) == CHOOSE i \in Given(e, p) : \A j \in Given(e, p) : j <= i
ValueAt(i) ==
    IF Type(i + 2) = "LBRACE" THEN [type |-> "ARRAY", text |-> NoText]
    ELSE [type |-> ArgumentTypeOf(Type(i + 2)), text |-> Text(i + 2)]
ValueFor(e, p) == ValueAt(LastFor(e, p))

\* The value is a number, or a range of addresses, for a position of type t.
ReadsAsType(t, v) ==
    IF t = "ADDRESS" THEN v.type = "ULLONG" \/ v.text \in Ranges ELSE <<t, v.text>> \in Readable

\* The cell c says what the line says about position p of its call.
Says(e, p, c) ==
    LET v == ValueFor(e, p)
        t == ArgTypes[RowOf(e)][p]
    IN  IF t = "NONE" THEN c.type = "NONE"
        ELSE IF t \in Numeric \cup {"ADDRESS"}
          THEN c.type = t /\ c.text = IF ReadsAsType(t, v) THEN v.text ELSE NoText
        ELSE c.type = v.type /\ c.text = v.text /\ c.body # NoBlock

\* The lines read so far; whether all are rules, and those about a row.
Complete   == {e \in Ends : e < pos}
GoodFile   == \A e \in Complete : LineOf(e) = {} \/ WellFormed(e)
LinesOf(s) == {e \in Complete : WellFormed(e) /\ RowOf(e) = s}

\* The rule of s is what the line that ends at e says.
AsWritten(s, e) ==
    /\ action[s] = ActionFor(Text(First(e)))
    /\ rules[s].kind = "EMPTY" <=> \A p \in Positions : Given(e, p) = {}
    /\ \A p \in Positions :
         IF Given(e, p) = {}
           THEN rules[s].cells[p].text = NoText /\ rules[s].cells[p].body = NoBlock
           ELSE p < rules[s].len /\ Says(e, p, rules[s].cells[p])

-----------------------------------------------------------------------------
(***************************************************************************)
(* Properties.                                                             *)
(***************************************************************************)

\* Every variable has its type.
TypeOK ==
    /\ rules \in [Syscalls -> Rules] /\ action \in [Syscalls -> Actions]
    /\ recorded \in Seq(Syscalls) /\ live \subseteq Blocks
    /\ file \in Seq(Tokens) /\ pos \in Nat /\ loc \in Locations
    /\ state \in {"EXPECT_ACTION", "EXPECT_NAME", "EXPECT_ARGN", "EXPECT_VALUE"}
    /\ rule_action \in Actions
    /\ syscall_name \in {NoName} \cup [text : Texts, body : Blocks]
    /\ arguments \in Arguments
    /\ arguments_number \in 0 .. MaxArgs /\ index \in Positions
    /\ st \in {0, 1} /\ returned \in {0, 1}
    /\ array \in Blocks \cup {NoBlock} /\ array_len \in {0, 1}
    /\ given \in BOOLEAN /\ exists \in BOOLEAN /\ warned \in BOOLEAN

\* The list of rows to clean and the rules column agree: the list has every row
\* with rules once, so clean_syscall_rules frees every rule and none twice.
RecordedOnce ==
    /\ \A i, j \in DOMAIN recorded : recorded[i] = recorded[j] => i = j
    /\ \A s \in Syscalls :
         rules[s].kind # "NULL" <=> \E i \in DOMAIN recorded : recorded[i] = s

\* Every text and array has one owner, which is a cell of a rule or a local of
\* the parser, and is there as long as its owner: nothing is freed twice.
CellBody(s, p) == rules[s].cells[p].body
InCells(b)  == \E s \in Syscalls, p \in Positions : CellBody(s, p) = b
InLocals(b) == \E p \in Positions : arguments[p].body = b
Parsing == loc \in {"parse", "array"}
Named   == state \in {"EXPECT_ARGN", "EXPECT_VALUE"}
CellsOwn ==
    \A s \in Syscalls, p \in Positions : CellBody(s, p) # NoBlock =>
        /\ CellBody(s, p) \in live
        /\ \A t \in Syscalls, q \in Positions :
             CellBody(t, q) = CellBody(s, p) => t = s /\ q = p
ArgumentsOwn ==
    Parsing => \A p \in Positions : arguments[p].body # NoBlock =>
        /\ arguments[p].body \in live /\ ~InCells(arguments[p].body)
        /\ \A q \in Positions : arguments[q].body = arguments[p].body => q = p
NameOwns ==
    Parsing /\ Named =>
        syscall_name.body \in live /\ ~InCells(syscall_name.body) /\ ~InLocals(syscall_name.body)
ArrayOwns ==
    loc = "array" =>
        /\ array \in live /\ ~InCells(array) /\ ~InLocals(array)
        /\ array # syscall_name.body
OneOwner == CellsOwn /\ ArgumentsOwn /\ NameOwns /\ ArrayOwns

\* When the program runs, the rules are those of the lines read so far, each
\* with its own action and its own values: nothing of one line gets into the
\* rule of another, the first line for a call decides, and other calls have none.
LoadedAsWritten ==
    loc = "run" /\ GoodFile =>
        \A s \in Syscalls :
            IF LinesOf(s) = {} THEN rules[s].kind = "NULL"
            ELSE /\ rules[s].kind # "NULL"
                 /\ AsWritten(s, CHOOSE e \in LinesOf(s) : \A d \in LinesOf(s) : e <= d)

\* No program is run with a rule that was only set in part: where copying stops
\* half way, the error does reach the caller.
Half(s, p) ==
    rules[s].cells[p].type \in {"STRING", "ARRAY"} /\ CellBody(s, p) = NoBlock
NoHalfRuleEnforced == loc = "run" => \A s \in Syscalls, p \in Positions : ~Half(s, p)

\* A rule, once set, is neither replaced nor changed until it is removed.
FirstRuleStays ==
    [][\A s \in Syscalls : rules[s].kind # "NULL" /\ loc # "clean" =>
           rules'[s] = rules[s] /\ action'[s] = action[s]]_vars

\* At the end exactly these values of the file are still allocated: those of a
\* second line for a call, those given again later in the line, numbers that did
\* not read, and numbers kept as texts, whose type clean_arguments does not free.
\* Every other text and array, and every name, has been freed (sandbox.c:73-105).
\* For files of rules read to the end, whose last line is ended.
Values(e) == {i \in LineOf(e) : i > First(e) + 2 /\ ~InBraces(e, i) /\ Assigns(i)}
Lost(e, i) ==
    LET p == ArgNumber[Text(i)]
        t == ArgTypes[RowOf(e)][p]
    IN  \/ \E d \in LinesOf(RowOf(e)) : d < e
        \/ i # LastFor(e, p)
        \/ t \in Numeric /\ <<t, Text(i + 2)>> \notin Readable
        \/ t \in {"VARIAD", "OTHER"} /\ ValueAt(i).type = "ULLONG"
LostValues == {i \in DOMAIN file : \E e \in Ends :
                   LineOf(e) # {} /\ i \in Values(e) /\ Lost(e, i)}
WhollyRead == returned = EXIT_SUCCESS_ /\ pos > Len(file) /\ Len(file) \in Ends
HeapBalances ==
    loc = "done" /\ given /\ WhollyRead /\ GoodFile => Cardinality(live) = Cardinality(LostValues)

\* Every file is parsed to an end: the program runs or is refused, and exits.
Terminates == <>(loc \in {"done", "crashed"})

(***************************************************************************)
(* The inductive invariant: the properties above with what they rest on.   *)
(***************************************************************************)

\* Between lines the name is a pointer to nothing.
NameFreed ==
    loc = "parse" /\ ~Named => syscall_name.body \notin live

\* An argument with a type has a body.
BodiesGiven ==
    Parsing => \A p \in Positions : arguments[p].type # "NONE" => arguments[p].body # NoBlock

\* A rule set in part has made the parser return an error.
HalfReported ==
    (\E s \in Syscalls, p \in Positions : Half(s, p)) =>
        returned # EXIT_SUCCESS_ /\ loc \in {"parsed", "clean", "done", "crashed"}

Control ==
    /\ loc = "array" => state = "EXPECT_ARGN"
    /\ loc \in {"start", "parse", "array"} => returned = EXIT_UNKNOWN_ERR
    /\ loc = "start" => state = "EXPECT_ACTION" /\ syscall_name = NoName /\ arguments = NoArguments

\* Inductive: TypeOK and the safety properties of rules and their owners follow.
IInv ==
    /\ TypeOK /\ RecordedOnce /\ OneOwner
    /\ NameFreed /\ BodiesGiven /\ HalfReported /\ Control

(***************************************************************************)
(* What comments of the source say and the code does not do.               *)
(***************************************************************************)

\* "error: wrong action" and the other errors (readers.c:271): a program does
\* not run when the parser has given up before the end of its rules file.
ErrorsReported == loc = "run" /\ given => pos > Len(file)

=============================================================================
