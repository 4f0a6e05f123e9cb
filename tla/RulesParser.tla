----------------------------- MODULE RulesParser -----------------------------
(***************************************************************************)
(* parse_rules_from_file and parse_array (src/src/readers.c): the rules    *)
(* file, as the tokens next_token makes of it, becomes rules in RuleTable. *)
(*                                                                         *)
(* A step is one turn of the parser's loop, with the further tokens that   *)
(* turn reads.  Texts of operators that are compared and freed within one  *)
(* turn are not followed in the heap; nor are those of a token that should *)
(* have been ':' or '=', which are leaked.                                 *)
(***************************************************************************)
EXTENDS RuleTable

CONSTANTS
    ArgNumber,    \* what a text means as argN: N, BadNumber or NotArg
    NotArg, BadNumber,
    BytesOf       \* the texts that read as an array element

TokenTypes == {"COMMA", "COLON", "LBRACE", "RBRACE", "EQ_SIGN", "ENDL", "ERR",
               "OPERATOR", "NUMBER", "STRING", "REGEX"}
WithBody == {"OPERATOR", "NUMBER", "STRING", "REGEX"}
ActionTexts == {"filter", "deny", "notify"}
ActionFor(t) == IF t = "filter" THEN "FILTER" ELSE IF t = "deny" THEN "BLOCK" ELSE "NOTIFY"

ASSUME RulesParserAssumption ==
    /\ ActionTexts \subseteq Texts
    /\ ArgNumber \in [Texts -> Nat \cup {NotArg, BadNumber}]
    /\ NotArg \notin Nat /\ BadNumber \notin Nat /\ NotArg # BadNumber
    /\ BytesOf \subseteq Texts

VARIABLES
    file,              \* the tokens of the file
    pos,               \* the next token
    loc,               \* where the program is
    state, rule_action, syscall_name, arguments, arguments_number, index,
                       \* the parser's locals; rule_action is its action
    st,                \* 0 is EXIT_SUCCESS_
    array, array_len,  \* the array being read
    returned           \* what parse_rules_from_file returned

parserVars == <<pos, state, rule_action, syscall_name, arguments, arguments_number,
                index, st, array, array_len, returned>>

EXIT_SUCCESS_    == 0
EXIT_UNKNOWN_ERR == 1

NoArguments == [p \in Positions |-> [type |-> "NONE", text |-> NoText, body |-> NoBlock]]
NoName == [text |-> NoText, body |-> NoBlock]

ParserInit ==
    /\ pos = 1
    /\ state = "EXPECT_ACTION" /\ rule_action = "NONE_ACTION" /\ syscall_name = NoName
    /\ arguments = NoArguments /\ arguments_number = 0 /\ index = 0
    /\ st = EXIT_UNKNOWN_ERR
    /\ array = NoBlock /\ array_len = 0
    /\ returned = EXIT_UNKNOWN_ERR

TokenAt(i) == IF i \in DOMAIN file THEN file[i] ELSE [type |-> "EOF", text |-> NoText]
Token == TokenAt(pos)
At(type) == loc = "parse" /\ Token.type = type

Return(status) ==
    /\ returned' = status
    /\ loc' = "parsed"
    /\ UNCHANGED <<file, pos, state, rule_action, syscall_name, arguments,
                   arguments_number, index, st, array, array_len>>

\* err: st is what the last line left in it.
Fail == Return(st)

Crash == loc' = "crashed" /\ UNCHANGED <<tableVars, file, parserVars>>

(***************************************************************************)
(* Ends of lines.                                                          *)
(***************************************************************************)
BlankLine == state = "EXPECT_ACTION" /\ rule_action = "NONE_ACTION"
NamelessLine == rule_action = "NONE_ACTION" \/ syscall_name.body = NoBlock

\* The name of the line before has been freed but the pointer is still there:
\* then anything may be read as the name, and it is freed once more.
Dangling == syscall_name.body \notin live
Name == IF Dangling THEN Texts ELSE {syscall_name.text}

\* Mutant of Reset: the arguments of one line are left to the next.
ResetNumberOnly == arguments_number' = 0 /\ UNCHANGED arguments

Reset == arguments_number' = 0 /\ arguments' = NoArguments

\* Mutant of LineStatus: the result of set_rules_for_syscall_name is ignored.
AlwaysSuccess(result) == st' = EXIT_SUCCESS_

\* st = (set_rules_for_syscall_name(...) != EXIT_SUCCESS_).
LineStatus(result) == st' = IF result = "ok" THEN 0 ELSE 1

SkipLine ==
    /\ At("ENDL") /\ BlankLine
    /\ pos' = pos + 1
    /\ UNCHANGED <<tableVars, file, loc, state, rule_action, syscall_name, arguments,
                   arguments_number, index, st, array, array_len, returned>>

RefuseLine ==
    /\ At("ENDL") /\ ~BlankLine /\ NamelessLine
    /\ Fail
    /\ UNCHANGED tableVars

EndLine ==
    /\ At("ENDL") /\ ~BlankLine /\ ~NamelessLine /\ ~Dangling
    /\ \E result \in {"ok", "err"} :
         /\ SetRules(syscall_name.text, arguments, arguments_number, rule_action, result,
                     IF result = "ok" THEN {syscall_name.body} ELSE {})
         /\ LineStatus(result)
         /\ IF st' = EXIT_SUCCESS_
              THEN /\ rule_action' = "NONE_ACTION" /\ state' = "EXPECT_ACTION" /\ index' = 0
                   /\ Reset
                   /\ pos' = pos + 1
                   /\ UNCHANGED <<loc, returned>>
              ELSE /\ returned' = st' /\ loc' = "parsed"
                   /\ UNCHANGED <<pos, state, rule_action, arguments, arguments_number, index>>
    /\ UNCHANGED <<file, syscall_name, array, array_len>>

\* The same with a freed name; if the line is accepted the second free aborts.
EndLineDangling ==
    /\ At("ENDL") /\ ~BlankLine /\ ~NamelessLine /\ Dangling
    /\ \E name \in Texts :
         /\ SetRules(name, arguments, arguments_number, rule_action, "err", {})
         /\ LineStatus("err")
    /\ returned' = st' /\ loc' = "parsed"
    /\ UNCHANGED <<file, pos, state, rule_action, syscall_name, arguments,
                   arguments_number, index, array, array_len>>
EndLineCrashes ==
    /\ At("ENDL") /\ ~BlankLine /\ ~NamelessLine
    /\ \/ Dangling
       \/ SetRulesCrashes(syscall_name.text, arguments, arguments_number)
    /\ Crash

(***************************************************************************)
(* Operators.                                                              *)
(***************************************************************************)

\* filter:, deny: or notify:.
ReadAction ==
    /\ At("OPERATOR") /\ state = "EXPECT_ACTION"
    /\ Token.text \in ActionTexts /\ TokenAt(pos + 1).type = "COLON"
    /\ state' = "EXPECT_NAME"
    /\ rule_action' = ActionFor(Token.text)
    /\ pos' = pos + 2
    /\ UNCHANGED <<tableVars, file, loc, syscall_name, arguments, arguments_number,
                   index, st, array, array_len, returned>>

ReadName ==
    /\ At("OPERATOR") /\ state = "EXPECT_NAME"
    /\ state' = "EXPECT_ARGN"
    /\ syscall_name' = [text |-> Token.text, body |-> Fresh]
    /\ Allocate
    /\ pos' = pos + 1
    /\ UNCHANGED <<rules, action, recorded, file, loc, rule_action, arguments,
                   arguments_number, index, st, array, array_len, returned>>

ArgumentInRange(n) == n \in Nat /\ n < MaxArgs

\* argN=.
ReadArgument ==
    LET n == ArgNumber[Token.text] IN
    /\ At("OPERATOR") /\ state = "EXPECT_ARGN"
    /\ ArgumentInRange(n) /\ TokenAt(pos + 1).type = "EQ_SIGN"
    /\ state' = "EXPECT_VALUE"
    /\ index' = n
    /\ arguments_number' = IF arguments_number <= n THEN n + 1 ELSE arguments_number
    /\ pos' = pos + 2
    /\ UNCHANGED <<tableVars, file, loc, rule_action, syscall_name, arguments,
                   st, array, array_len, returned>>

RefuseOperator ==
    /\ At("OPERATOR")
    /\ \/ /\ state = "EXPECT_ACTION"
          /\ Token.text \in ActionTexts => TokenAt(pos + 1).type # "COLON"
       \/ /\ state = "EXPECT_ARGN"
          /\ ArgumentInRange(ArgNumber[Token.text]) => TokenAt(pos + 1).type # "EQ_SIGN"
       \/ state = "EXPECT_VALUE"
    /\ Fail
    /\ UNCHANGED tableVars

(***************************************************************************)
(* Values.                                                                 *)
(***************************************************************************)
ArgumentTypeOf(type) == IF type = "NUMBER" THEN "ULLONG" ELSE "STRING"

ReadValue ==
    /\ loc = "parse" /\ Token.type \in {"STRING", "REGEX", "NUMBER"}
    /\ state = "EXPECT_VALUE"
    /\ state' = "EXPECT_ARGN"
    /\ arguments' = [arguments EXCEPT ![index] =
           [type |-> ArgumentTypeOf(Token.type), text |-> Token.text, body |-> Fresh]]
    /\ Allocate
    /\ pos' = pos + 1
    /\ UNCHANGED <<rules, action, recorded, file, loc, rule_action, syscall_name,
                   arguments_number, index, st, array, array_len, returned>>

OpenArray ==
    /\ At("LBRACE") /\ state = "EXPECT_VALUE"
    /\ state' = "EXPECT_ARGN"
    /\ array' = Fresh
    /\ Allocate
    /\ array_len' = 0
    /\ loc' = "array"
    /\ pos' = pos + 1
    /\ UNCHANGED <<rules, action, recorded, file, rule_action, syscall_name, arguments,
                   arguments_number, index, st, returned>>

RefuseValue ==
    /\ loc = "parse" /\ Token.type \in {"STRING", "REGEX", "NUMBER", "LBRACE"}
    /\ state # "EXPECT_VALUE"
    /\ Fail
    /\ UNCHANGED tableVars

(***************************************************************************)
(* parse_array.                                                            *)
(***************************************************************************)
InArray(type) == loc = "array" /\ Token.type = type

ArrayElement ==
    /\ loc = "array" /\ Token.type \in WithBody /\ Token.text \in BytesOf
    /\ array_len' = 1   \* that is, not zero
    /\ pos' = pos + 1
    /\ UNCHANGED <<tableVars, file, loc, state, rule_action, syscall_name, arguments,
                   arguments_number, index, st, array, returned>>

SkipComma ==
    /\ InArray("COMMA")
    /\ pos' = pos + 1
    /\ UNCHANGED <<tableVars, file, loc, state, rule_action, syscall_name, arguments,
                   arguments_number, index, st, array, array_len, returned>>

CloseArray ==
    /\ InArray("RBRACE") /\ array_len > 0
    /\ arguments' = [arguments EXCEPT ![index] =
                        [type |-> "ARRAY", text |-> NoText, body |-> array]]
    /\ array' = NoBlock
    /\ loc' = "parse"
    /\ pos' = pos + 1
    /\ UNCHANGED <<tableVars, file, state, rule_action, syscall_name, arguments_number,
                   index, st, array_len, returned>>

\* An element that is no number leaks the array, a broken token frees it.
RefuseArray ==
    /\ loc = "array"
    /\ \/ Token.type \in WithBody /\ Token.text \notin BytesOf /\ UNCHANGED live
       \/ Token.type \in {"ERR", "EOF"} /\ live' = live \ {array}
    /\ Fail
    /\ UNCHANGED <<rules, action, recorded>>

\* {} is freed twice (realloc to size 0, then free); a token without a text is
\* compared with "0x".
ArrayCrashes ==
    /\ loc = "array"
    /\ \/ Token.type = "RBRACE" /\ array_len = 0
       \/ Token.type \in {"COLON", "LBRACE", "EQ_SIGN", "ENDL"}
    /\ Crash

(***************************************************************************)
(* Tokens without meaning, and the end.                                    *)
(***************************************************************************)
Ignored == {"COMMA", "COLON", "RBRACE", "EQ_SIGN"}

\* Mutant of Skip: the next token is not read.
SkipNothing == UNCHANGED pos

Skip == pos' = pos + 1

Ignore ==
    /\ loc = "parse" /\ Token.type \in Ignored
    /\ Skip
    /\ UNCHANGED <<tableVars, file, loc, state, rule_action, syscall_name, arguments,
                   arguments_number, index, st, array, array_len, returned>>

RefuseToken == At("ERR") /\ Fail /\ UNCHANGED tableVars

\* A last line without its newline is dropped.
EndOfFile == At("EOF") /\ Return(EXIT_SUCCESS_) /\ UNCHANGED tableVars

Parse ==
    \/ SkipLine \/ RefuseLine \/ EndLine \/ EndLineDangling \/ EndLineCrashes
    \/ ReadAction \/ ReadName \/ ReadArgument \/ RefuseOperator
    \/ ReadValue \/ OpenArray \/ RefuseValue
    \/ ArrayElement \/ SkipComma \/ CloseArray \/ RefuseArray \/ ArrayCrashes
    \/ Ignore \/ RefuseToken \/ EndOfFile

=============================================================================
