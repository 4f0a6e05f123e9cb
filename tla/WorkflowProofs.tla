--------------------------- MODULE WorkflowProofs ---------------------------
(***************************************************************************)
(* Proofs about Workflow: the table of rules and its list agree, no heap   *)
(* block has two owners, and a program never runs under half a rule, for   *)
(* every table, every file and every number of positions and blocks.       *)
(***************************************************************************)
EXTENDS Workflow, TLAPS

USE RuleTableAssumption, RulesParserAssumption, WorkflowAssumption

-----------------------------------------------------------------------------
(***************************************************************************)
(* The operators of RuleTable.                                             *)
(***************************************************************************)

\* malloc returns a block that is not in use.
LEMMA FreshIsFree ==
    ASSUME Blocks \ live # {}
    PROVE  Fresh \in Blocks /\ Fresh \notin live
  BY DEF Fresh

\* Copying makes cells.
LEMMA CopiedType ==
    ASSUME NEW type \in Types,
           NEW a \in [type : ArgumentTypes, text : Texts \cup {NoText},
                      body : Blocks \cup {NoBlock}]
    PROVE  Copied(type, a) \in Cells
  <1>1. CASE a.type = "NONE"
    BY <1>1 DEF Copied, Raw, Cell, Cells
  <1>2. CASE a.type # "NONE" /\ type = "NONE"
    BY <1>2 DEF Copied, None, Cell, Cells, Types
  <1>3. CASE a.type # "NONE" /\ type = "ADDRESS"
    BY <1>3 DEF Copied, Cell, Cells, Types, Numeric
  <1>4. CASE a.type # "NONE" /\ type \in Numeric
    BY <1>4 DEF Copied, Cell, Cells, Types, Numeric
  <1>5. CASE a.type # "NONE" /\ type \notin Numeric \cup {"NONE", "ADDRESS"}
    <2>1. Copied(type, a) = a
      BY <1>5 DEF Copied
    <2>2. a \in Cells
      BY DEF Cells, ArgumentTypes, Types, Numeric
    <2> QED
      BY <2>1, <2>2
  <1> QED
    BY <1>1, <1>2, <1>3, <1>4, <1>5

\* A copy points to a block only where it takes over the argument as it is, and
\* then the argument is not among those that are freed.
LEMMA CopiedBody ==
    ASSUME NEW type \in Types, NEW a, Copied(type, a).body # NoBlock
    PROVE  Copied(type, a) = a /\ ~Consumed(type, a)
  <1>1. CASE a.type = "NONE"
    BY <1>1 DEF Copied, Raw, Cell
  <1>2. CASE a.type # "NONE" /\ type = "NONE"
    BY <1>2 DEF Copied, None, Cell
  <1>3. CASE a.type # "NONE" /\ type = "ADDRESS"
    BY <1>3 DEF Copied, Cell, Numeric
  <1>4. CASE a.type # "NONE" /\ type \in Numeric
    BY <1>4 DEF Copied, Cell, Numeric
  <1>5. CASE a.type # "NONE" /\ type \notin Numeric \cup {"NONE", "ADDRESS"}
    BY <1>5 DEF Copied, Consumed
  <1> QED
    BY <1>1, <1>2, <1>3, <1>4, <1>5

\* A copy of a string or an array has a block if its argument has one.
LEMMA CopiedWhole ==
    ASSUME NEW type \in Types, NEW a,
           a.type # "NONE" => a.body # NoBlock,
           Copied(type, a).type \in {"STRING", "ARRAY"}
    PROVE  Copied(type, a).body # NoBlock
  <1>1. CASE a.type = "NONE"
    BY <1>1 DEF Copied, Raw, Cell
  <1>2. CASE a.type # "NONE" /\ type = "NONE"
    BY <1>2 DEF Copied, None, Cell
  <1>3. CASE a.type # "NONE" /\ type = "ADDRESS"
    BY <1>3 DEF Copied, Cell, Numeric
  <1>4. CASE a.type # "NONE" /\ type \in Numeric
    BY <1>4 DEF Copied, Cell, Numeric
  <1>5. CASE a.type # "NONE" /\ type \notin Numeric \cup {"NONE", "ADDRESS"}
    BY <1>5 DEF Copied
  <1> QED
    BY <1>1, <1>2, <1>3, <1>4, <1>5

LEMMA InstalledType ==
    ASSUME NEW s \in Syscalls, NEW args \in Arguments, NEW n \in 0 .. MaxArgs
    PROVE  Installed(s, args, n) \in [Positions -> Cells]
  <1> SUFFICES ASSUME NEW p \in Positions
               PROVE  Installed(s, args, n)[p] \in Cells
    BY DEF Installed
  <1>1. ArgTypes[s][p] \in Types
    OBVIOUS
  <1>2. args[p] \in [type : ArgumentTypes, text : Texts \cup {NoText},
                     body : Blocks \cup {NoBlock}]
    BY DEF Arguments
  <1>3. Copied(ArgTypes[s][p], args[p]) \in Cells
    BY <1>1, <1>2, CopiedType
  <1>4. /\ None \in Cells /\ Raw \in Cells
        /\ Cell(ArgTypes[s][p], NoText, NoBlock) \in Cells
    BY <1>1 DEF None, Raw, Cell, Cells, Types, Numeric
  <1> QED
    BY <1>3, <1>4 DEF Installed

\* An installed cell points to the block of the argument of its position, and to
\* none that is freed.
LEMMA InstalledBody ==
    ASSUME NEW s \in Syscalls, NEW args \in Arguments, NEW n \in 0 .. MaxArgs,
           NEW p \in Positions, Installed(s, args, n)[p].body # NoBlock
    PROVE  /\ Installed(s, args, n)[p].body = args[p].body
           /\ ~Consumed(ArgTypes[s][p], args[p])
  <1>1. ArgTypes[s][p] \in Types
    OBVIOUS
  <1>2. Reached(s, args, n, p)
    BY DEF Installed, None, Raw, Cell
  <1>3. Installed(s, args, n)[p] = Copied(ArgTypes[s][p], args[p])
    BY <1>2 DEF Installed
  <1> QED
    BY <1>1, <1>3, CopiedBody

\* Where copying does not stop, every string and array is installed whole.
LEMMA InstalledWhole ==
    ASSUME NEW s \in Syscalls, NEW args \in Arguments, NEW n \in 0 .. MaxArgs,
           \A p \in Positions : args[p].type # "NONE" => args[p].body # NoBlock,
           Stops(s, args, n) = {},
           NEW p \in Positions,
           Installed(s, args, n)[p].type \in {"STRING", "ARRAY"}
    PROVE  Installed(s, args, n)[p].body # NoBlock
  <1>1. ArgTypes[s][p] \in Types
    OBVIOUS
  <1>2. p < n
    BY DEF Installed, Reached, None, Raw, Cell
  <1>3. Installed(s, args, n)[p] = Copied(ArgTypes[s][p], args[p])
    BY <1>2 DEF Installed, Reached
  <1> QED
    BY <1>1, <1>3, CopiedWhole

-----------------------------------------------------------------------------
(***************************************************************************)
(* Types.                                                                  *)
(***************************************************************************)

\* A token that has a text has one of the file's.
LEMMA TokenType ==
    ASSUME TypeOK, NEW i \in Nat, TokenAt(i).type \in WithBody
    PROVE  TokenAt(i).text \in Texts
  <1>1. i \in DOMAIN file
    BY DEF TokenAt, WithBody
  <1>2. file[i] \in Tokens
    BY <1>1 DEF TypeOK
  <1> QED
    BY <1>1, <1>2 DEF TokenAt, Tokens

\* set_rules_for_syscall_name keeps the types of the table.
LEMMA SetRulesType ==
    ASSUME TypeOK, NEW name \in Texts, NEW args \in Arguments, NEW n \in 0 .. MaxArgs,
           NEW act \in Actions, NEW result, NEW also,
           SetRules(name, args, n, act, result, also)
    PROVE  /\ rules' \in [Syscalls -> Rules] /\ action' \in [Syscalls -> Actions]
           /\ recorded' \in Seq(Syscalls) /\ live' \subseteq Blocks
  <1> DEFINE s == NumberOf[name]
  <1> USE DEF TypeOK
  <1>0. s # NotFound => s \in Syscalls
    OBVIOUS
  <1>1. CASE UNCHANGED <<rules, action, recorded>> /\ live' = live \ also
    BY <1>1
  <1>2. ASSUME s # NotFound, recorded' = <<s>> \o recorded,
               action' = [action EXCEPT ![s] = act]
        PROVE  recorded' \in Seq(Syscalls) /\ action' \in [Syscalls -> Actions]
    BY <1>0, <1>2
  <1>3. ASSUME s # NotFound, n = 0, rules' = [rules EXCEPT ![s] = EMPTY_RULES]
        PROVE  rules' \in [Syscalls -> Rules]
    <2>1. EMPTY_RULES \in Rules
      BY DEF EMPTY_RULES, Rules, NoCells, Raw, Cell, Cells
    <2> QED
      BY <1>3, <2>1
  <1>4. ASSUME s # NotFound, n > 0,
               rules' = [rules EXCEPT ![s] = [kind |-> "LIST", len |-> n,
                                              cells |-> Installed(s, args, n)]]
        PROVE  rules' \in [Syscalls -> Rules]
    <2>1. [kind |-> "LIST", len |-> n, cells |-> Installed(s, args, n)] \in Rules
      BY <1>0, <1>4, InstalledType DEF Rules
    <2> QED
      BY <1>4, <2>1
  <1> QED
    BY <1>1, <1>2, <1>3, <1>4 DEF SetRules

\* Every step keeps the types.
LEMMA TypeStep == TypeOK /\ [Next]_vars => TypeOK'
  <1> SUFFICES ASSUME TypeOK, [Next]_vars
               PROVE  TypeOK'
    OBVIOUS
  <1> USE DEF Locations, EXIT_SUCCESS_, EXIT_UNKNOWN_ERR
  <1>1. CASE UNCHANGED vars
    BY <1>1 DEF TypeOK, vars, tableVars, parserVars, workflowVars
  <1>2. CASE Start \/ Run \/ Exit
    <2>1. /\ UNCHANGED <<tableVars, file, parserVars, workflowVars>>
          /\ loc' \in Locations
      BY <1>2 DEF Start, Run, Exit
    <2> QED
      BY <2>1 DEF TypeOK, tableVars, parserVars, workflowVars
  <1>7. CASE Parsed
    <2>1. /\ UNCHANGED <<tableVars, file, parserVars, given, exists>>
          /\ loc' \in Locations /\ warned' \in BOOLEAN
      BY <1>7 DEF Parsed, TypeOK
    <2> QED
      BY <2>1 DEF TypeOK, tableVars, parserVars
  <1>3. CASE Clean
    <2>0. recorded \in Seq(Syscalls) /\ recorded # <<>>
      BY <1>3 DEF TypeOK, Clean, CleanNode
    <2>4. Head(recorded) \in Syscalls /\ Tail(recorded) \in Seq(Syscalls)
      BY <2>0
    <2>1. PICK s \in Syscalls : /\ rules' = [rules EXCEPT ![s] = NULL]
                                /\ live' \subseteq live
                                /\ recorded' = Tail(recorded)
                                /\ UNCHANGED <<action, file, loc, parserVars, workflowVars>>
      BY <1>3, <2>4 DEF Clean, CleanNode
    <2>2. NULL \in Rules
      BY DEF NULL, Rules, NoCells, Raw, Cell, Cells
    <2> QED
      BY <2>1, <2>2, <2>4 DEF TypeOK, parserVars, workflowVars
  <1>4. CASE CleanFails \/ RunFails
    BY <1>4 DEF TypeOK, CleanFails, RunFails, Crash, tableVars, parserVars, workflowVars
  <1>5. ASSUME Parse, UNCHANGED workflowVars
        PROVE  TypeOK'
    <2> USE <1>5 DEF workflowVars
    <2>1. CASE RefuseLine \/ RefuseOperator \/ RefuseValue \/ RefuseToken \/ EndOfFile
      BY <2>1 DEF TypeOK, RefuseLine, RefuseOperator, RefuseValue, RefuseToken, EndOfFile,
                  Fail, Return, tableVars
    <2>2. CASE RefuseArray
      BY <2>2 DEF TypeOK, RefuseArray, Fail, Return
    <2>3. CASE EndLineCrashes \/ ArrayCrashes
      BY <2>3 DEF TypeOK, EndLineCrashes, ArrayCrashes, Crash, tableVars, parserVars
    <2>4. CASE SkipLine \/ SkipComma \/ Ignore
      BY <2>4 DEF TypeOK, SkipLine, SkipComma, Ignore, Skip, tableVars
    <2>5. CASE ArrayElement
      BY <2>5 DEF TypeOK, ArrayElement, tableVars
    <2>6. CASE CloseArray
      BY <2>6 DEF TypeOK, CloseArray, tableVars, Arguments, ArgumentTypes
    <2>7. CASE ReadAction
      BY <2>7 DEF TypeOK, ReadAction, tableVars, ActionFor, Actions
    <2>8. CASE ReadName
      <3>1. Token.text \in Texts
        BY <2>8, TokenType DEF ReadName, At, Token, TypeOK, WithBody
      <3>2. Fresh \in Blocks
        BY <2>8, FreshIsFree DEF ReadName, Allocate
      <3> QED
        BY <2>8, <3>1, <3>2 DEF TypeOK, ReadName, Allocate
    <2>9. CASE ReadArgument
      BY <2>9 DEF TypeOK, ReadArgument, tableVars, ArgumentInRange, Positions
    <2>10. CASE ReadValue
      <3>1. Token.text \in Texts
        BY <2>10, TokenType DEF ReadValue, Token, TypeOK, WithBody
      <3>2. Fresh \in Blocks
        BY <2>10, FreshIsFree DEF ReadValue, Allocate
      <3>3. arguments' \in Arguments
        BY <2>10, <3>1, <3>2 DEF TypeOK, ReadValue, Arguments, ArgumentTypeOf, ArgumentTypes
      <3> QED
        BY <2>10, <3>2, <3>3 DEF TypeOK, ReadValue, Allocate
    <2>11. CASE OpenArray
      <3>1. Fresh \in Blocks
        BY <2>11, FreshIsFree DEF OpenArray, Allocate
      <3> QED
        BY <2>11, <3>1 DEF TypeOK, OpenArray, Allocate
    <2>12. CASE EndLine
      <3>1. PICK result \in {"ok", "err"} :
              /\ SetRules(syscall_name.text, arguments, arguments_number, rule_action, result,
                          IF result = "ok" THEN {syscall_name.body} ELSE {})
              /\ LineStatus(result)
        BY <2>12 DEF EndLine
      <3>2. syscall_name.text \in Texts
        BY <2>12 DEF EndLine, NamelessLine, TypeOK, NoName
      <3>3. /\ rules' \in [Syscalls -> Rules] /\ action' \in [Syscalls -> Actions]
            /\ recorded' \in Seq(Syscalls) /\ live' \subseteq Blocks
        BY <3>1, <3>2, SetRulesType DEF TypeOK
      <3>4. st' \in {0, 1}
        BY <3>1 DEF LineStatus
      <3>5. arguments' \in Arguments /\ arguments_number' \in 0 .. MaxArgs
        BY <2>12 DEF EndLine, TypeOK, Reset, NoArguments, Arguments, ArgumentTypes
      <3>6. index' \in Positions
        BY <2>12 DEF EndLine, TypeOK, Positions
      <3>7. /\ pos' \in Nat /\ loc' \in Locations /\ returned' \in {0, 1}
            /\ rule_action' \in Actions
            /\ state' \in {"EXPECT_ACTION", "EXPECT_NAME", "EXPECT_ARGN", "EXPECT_VALUE"}
        BY <2>12, <3>4 DEF EndLine, TypeOK, Actions
      <3> QED
        BY <2>12, <3>3, <3>4, <3>5, <3>6, <3>7 DEF EndLine, TypeOK
    <2>13. CASE EndLineDangling
      <3>1. PICK name \in Texts :
              /\ SetRules(name, arguments, arguments_number, rule_action, "err", {})
              /\ LineStatus("err")
        BY <2>13 DEF EndLineDangling
      <3>2. /\ rules' \in [Syscalls -> Rules] /\ action' \in [Syscalls -> Actions]
            /\ recorded' \in Seq(Syscalls) /\ live' \subseteq Blocks
        BY <3>1, SetRulesType DEF TypeOK
      <3> QED
        BY <2>13, <3>1, <3>2 DEF EndLineDangling, TypeOK, LineStatus
    <2> QED
      BY <1>5, <2>1, <2>2, <2>3, <2>4, <2>5, <2>6, <2>7, <2>8, <2>9, <2>10, <2>11, <2>12, <2>13
      DEF Parse
  <1>6. CASE Stopped
    BY <1>6, <1>1 DEF Stopped
  <1> QED
    BY <1>1, <1>2, <1>3, <1>4, <1>5, <1>6, <1>7 DEF Next


\* The first state has the types.
LEMMA InitType == Init => TypeOK
  <1> SUFFICES ASSUME Init
               PROVE  TypeOK
    OBVIOUS
  <1>1. NULL \in Rules
    BY DEF NULL, Rules, NoCells, Raw, Cell, Cells
  <1>2. /\ rules \in [Syscalls -> Rules] /\ action \in [Syscalls -> Actions]
        /\ recorded \in Seq(Syscalls) /\ live \subseteq Blocks
    BY <1>1 DEF Init, TableInit, Actions
  <1>3. arguments \in Arguments /\ syscall_name = NoName
    BY DEF Init, ParserInit, NoArguments, Arguments, ArgumentTypes
  <1>4. arguments_number \in 0 .. MaxArgs /\ index \in Positions
    BY DEF Init, ParserInit, Positions
  <1>5. /\ pos \in Nat /\ rule_action \in Actions
        /\ state \in {"EXPECT_ACTION", "EXPECT_NAME", "EXPECT_ARGN", "EXPECT_VALUE"}
        /\ st \in {0, 1} /\ returned \in {0, 1}
        /\ array \in Blocks \cup {NoBlock} /\ array_len \in {0, 1}
    BY DEF Init, ParserInit, Actions, EXIT_UNKNOWN_ERR
  <1>6. /\ file \in Seq(Tokens) /\ loc \in Locations
        /\ given \in BOOLEAN /\ exists \in BOOLEAN /\ warned \in BOOLEAN
    BY DEF Init, Locations
  <1> QED
    BY <1>2, <1>3, <1>4, <1>5, <1>6 DEF TypeOK

\* TypeOK holds in every reachable state.
THEOREM TypeCorrect == Spec => []TypeOK
  BY InitType, TypeStep, PTL DEF Spec

-----------------------------------------------------------------------------
(***************************************************************************)
(* What steps do to the table.                                             *)
(***************************************************************************)

\* A step other than the end of a line or of a rule leaves the table alone, and
\* frees nothing but the array being read.
LEMMA Rest ==
    ASSUME TypeOK, [Next]_vars, ~EndLine, ~EndLineDangling, ~Clean
    PROVE  /\ UNCHANGED <<rules, action, recorded>>
           /\ \/ live \subseteq live'
              \/ loc = "array" /\ loc' = "parsed" /\ live' = live \ {array}
  <1>1. ASSUME UNCHANGED vars \/ Start \/ Parsed \/ Run \/ CleanFails \/ RunFails \/ Exit \/ Stopped
        PROVE  UNCHANGED tableVars
    BY <1>1 DEF vars, tableVars, Start, Parsed, Run, CleanFails, RunFails, Crash, Exit, Stopped
  <1>2. ASSUME RefuseLine \/ RefuseOperator \/ RefuseValue \/ RefuseToken \/ EndOfFile
        PROVE  UNCHANGED tableVars
    BY <1>2 DEF tableVars, RefuseLine, RefuseOperator, RefuseValue, RefuseToken, EndOfFile
  <1>3. ASSUME \/ EndLineCrashes \/ ArrayCrashes \/ SkipLine \/ SkipComma \/ Ignore
               \/ ArrayElement \/ CloseArray \/ ReadAction \/ ReadArgument
        PROVE  UNCHANGED tableVars
    BY <1>3 DEF tableVars, EndLineCrashes, ArrayCrashes, Crash, SkipLine, SkipComma, Ignore,
                ArrayElement, CloseArray, ReadAction, ReadArgument
  <1>4. ASSUME ReadName \/ ReadValue \/ OpenArray
        PROVE  UNCHANGED <<rules, action, recorded>> /\ live \subseteq live'
    BY <1>4 DEF ReadName, ReadValue, OpenArray, Allocate
  <1>5. ASSUME RefuseArray
        PROVE  /\ UNCHANGED <<rules, action, recorded>>
               /\ loc = "array" /\ loc' = "parsed" /\ (live' = live \/ live' = live \ {array})
    BY <1>5 DEF RefuseArray, Fail, Return
  <1>6. \/ UNCHANGED vars \/ Start \/ Parsed \/ Run \/ CleanFails \/ RunFails \/ Exit \/ Stopped
        \/ RefuseLine \/ RefuseOperator \/ RefuseValue \/ RefuseToken \/ EndOfFile
        \/ EndLineCrashes \/ ArrayCrashes \/ SkipLine \/ SkipComma \/ Ignore
        \/ ArrayElement \/ CloseArray \/ ReadAction \/ ReadArgument
        \/ ReadName \/ ReadValue \/ OpenArray \/ RefuseArray
    BY DEF Next, Parse
  <1>7. \/ UNCHANGED tableVars
        \/ UNCHANGED <<rules, action, recorded>> /\ live \subseteq live'
        \/ RefuseArray
    BY <1>1, <1>2, <1>3, <1>4, <1>6, Zenon
  <1>8. CASE UNCHANGED tableVars
    BY <1>8 DEF tableVars
  <1> QED
    BY <1>5, <1>7, <1>8

\* The end of a line, with its name still there or not, is a call of
\* set_rules_for_syscall_name; if it succeeds the name is freed.
LEMMA LineEnds ==
    ASSUME TypeOK, EndLine \/ EndLineDangling
    PROVE  \E name \in Texts, result \in {"ok", "err"}, also \in SUBSET {syscall_name.body} :
             /\ SetRules(name, arguments, arguments_number, rule_action, result, also)
             /\ loc = "parse" /\ also \subseteq live
             /\ result = "ok" => /\ also = {syscall_name.body}
                                 /\ UNCHANGED <<loc, returned>>
                                 /\ state' = "EXPECT_ACTION"
                                 /\ arguments' = NoArguments
             /\ result = "err" => /\ also = {}
                                  /\ returned' = 1 /\ loc' = "parsed"
  <1>1. CASE EndLine
    <2>1. PICK result \in {"ok", "err"} :
            /\ SetRules(syscall_name.text, arguments, arguments_number, rule_action, result,
                        IF result = "ok" THEN {syscall_name.body} ELSE {})
            /\ LineStatus(result)
            /\ IF st' = EXIT_SUCCESS_
                 THEN state' = "EXPECT_ACTION" /\ Reset /\ UNCHANGED <<loc, returned>>
                 ELSE returned' = st' /\ loc' = "parsed"
      BY <1>1 DEF EndLine
    <2>2. syscall_name.text \in Texts /\ syscall_name.body \in live /\ loc = "parse"
      BY <1>1 DEF EndLine, NamelessLine, Dangling, At, TypeOK, NoName
    <2>3. CASE result = "ok"
      BY <2>1, <2>2, <2>3 DEF LineStatus, EXIT_SUCCESS_, Reset
    <2>4. CASE result = "err"
      BY <2>1, <2>2, <2>4 DEF LineStatus, EXIT_SUCCESS_
    <2> QED
      BY <2>3, <2>4
  <1>2. CASE EndLineDangling
    <2>1. PICK name \in Texts :
            /\ SetRules(name, arguments, arguments_number, rule_action, "err", {})
            /\ LineStatus("err")
      BY <1>2 DEF EndLineDangling
    <2>2. loc = "parse" /\ returned' = 1 /\ loc' = "parsed"
      BY <1>2, <2>1 DEF EndLineDangling, LineStatus, At
    <2> QED
      BY <2>1, <2>2
  <1> QED
    BY <1>1, <1>2

\* Row s, which had no rule, gets the rule r, whose cells point to blocks of the
\* arguments.
Sets(s, r, result, also) ==
    /\ rules[s].kind = "NULL" /\ r.kind # "NULL"
    /\ rules' = [rules EXCEPT ![s] = r]
    /\ action' = [action EXCEPT ![s] = rule_action]
    /\ recorded' = <<s>> \o recorded
    /\ \/ r = EMPTY_RULES /\ live' = live \ also
       \/ /\ r.cells = Installed(s, arguments, arguments_number)
          /\ result \in Statuses(s, arguments, arguments_number)
          /\ live' = live \ (Released(s, arguments, arguments_number) \cup also)
SetsNothing(also) == UNCHANGED <<rules, action, recorded>> /\ live' = live \ also

\* set_rules_for_syscall_name gives a rule to one row or does nothing.
LEMMA SetsOrNot ==
    ASSUME TypeOK, NEW name \in Texts, NEW result, NEW also,
           SetRules(name, arguments, arguments_number, rule_action, result, also)
    PROVE  SetsNothing(also) \/ \E s \in Syscalls, r \in Rules : Sets(s, r, result, also)
  <1> DEFINE s == NumberOf[name]
             r == [kind |-> "LIST", len |-> arguments_number,
                   cells |-> Installed(s, arguments, arguments_number)]
  <1>1. CASE s = NotFound \/ AlreadySet(s)
    BY <1>1 DEF SetRules, SetsNothing
  <1>2. CASE s # NotFound /\ ~AlreadySet(s)
    <2>1. s \in Syscalls /\ rules[s].kind = "NULL"
      BY <1>2 DEF AlreadySet
    <2>2. EMPTY_RULES \in Rules /\ EMPTY_RULES.kind # "NULL"
      BY DEF EMPTY_RULES, Rules, NoCells, Raw, Cell, Cells
    <2>3. r \in Rules /\ r.kind # "NULL"
      BY <2>1, InstalledType DEF Rules, TypeOK
    <2>4. CASE rules' = [rules EXCEPT ![s] = EMPTY_RULES] /\ live' = live \ also
      BY <1>2, <2>1, <2>2, <2>4 DEF SetRules, Sets
    <2>5. CASE /\ result \in Statuses(s, arguments, arguments_number)
               /\ rules' = [rules EXCEPT ![s] = r]
               /\ live' = live \ (Released(s, arguments, arguments_number) \cup also)
      BY <1>2, <2>1, <2>3, <2>5 DEF SetRules, Sets
    <2> QED
      BY <1>2, <2>4, <2>5 DEF SetRules
  <1> QED
    BY <1>1, <1>2


-----------------------------------------------------------------------------
(***************************************************************************)
(* The list of rows with rules.                                            *)
(***************************************************************************)

\* A row without a rule is put in front of the list.
LEMMA RecordedGrows ==
    ASSUME TypeOK, RecordedOnce, NEW s \in Syscalls, NEW r \in Rules,
           rules[s].kind = "NULL", r.kind # "NULL",
           rules' = [rules EXCEPT ![s] = r], recorded' = <<s>> \o recorded
    PROVE  RecordedOnce'
  <1> USE DEF TypeOK
  <1>1. /\ recorded \in Seq(Syscalls) /\ recorded' \in Seq(Syscalls)
        /\ Len(recorded') = Len(recorded) + 1
        /\ recorded'[1] = s
        /\ \A i \in 2 .. Len(recorded) + 1 : recorded'[i] = recorded[i - 1]
    OBVIOUS
  <1>2. \A i \in DOMAIN recorded : recorded[i] # s
    BY DEF RecordedOnce
  <1>3. ASSUME NEW i \in DOMAIN recorded', NEW j \in DOMAIN recorded',
               recorded'[i] = recorded'[j]
        PROVE  i = j
    <2>1. i \in 1 .. Len(recorded) + 1 /\ j \in 1 .. Len(recorded) + 1
      BY <1>1, <1>3
    <2>2. CASE i # 1 /\ j # 1
      <3>1. i - 1 \in DOMAIN recorded /\ j - 1 \in DOMAIN recorded
        BY <1>1, <2>1, <2>2
      <3>2. recorded[i - 1] = recorded[j - 1]
        BY <1>1, <1>3, <2>1, <2>2
      <3>3. i - 1 = j - 1
        BY <3>1, <3>2 DEF RecordedOnce
      <3> QED
        BY <2>1, <3>3
    <2>3. ASSUME NEW k \in 2 .. Len(recorded) + 1
          PROVE  recorded'[k] # s
      <3>1. k - 1 \in DOMAIN recorded
        BY <1>1
      <3> QED
        BY <1>1, <1>2, <3>1
    <2>4. i # 1 => recorded'[i] # s
      BY <2>1, <2>3, <1>1
    <2>5. j # 1 => recorded'[j] # s
      BY <2>1, <2>3, <1>1
    <2> QED
      BY <1>1, <1>3, <2>2, <2>4, <2>5
  <1>4. ASSUME NEW t \in Syscalls
        PROVE  rules'[t].kind # "NULL" <=> \E i \in DOMAIN recorded' : recorded'[i] = t
    <2>1. CASE t = s
      <3>1. 1 \in DOMAIN recorded'
        BY <1>1
      <3> QED
        BY <1>1, <2>1, <3>1
    <2>2. CASE t # s
      <3>1. rules'[t] = rules[t]
        BY <2>2
      <3>2. ASSUME NEW i \in DOMAIN recorded, recorded[i] = t
            PROVE  \E k \in DOMAIN recorded' : recorded'[k] = t
        <4>1. i + 1 \in DOMAIN recorded' /\ recorded'[i + 1] = recorded[i]
          BY <1>1
        <4> QED
          BY <3>2, <4>1
      <3>3. ASSUME NEW k \in DOMAIN recorded', recorded'[k] = t
            PROVE  \E i \in DOMAIN recorded : recorded[i] = t
        <4>1. k # 1 /\ k \in 1 .. Len(recorded) + 1
          BY <1>1, <2>2, <3>3
        <4>2. k - 1 \in DOMAIN recorded /\ recorded[k - 1] = t
          BY <1>1, <3>3, <4>1
        <4> QED
          BY <4>2
      <3> QED
        BY <3>1, <3>2, <3>3 DEF RecordedOnce
    <2> QED
      BY <2>1, <2>2
  <1> QED
    BY <1>3, <1>4 DEF RecordedOnce

\* Cleaning takes the rule of the first row of the list and that row off it.
LEMMA RecordedShrinks ==
    ASSUME TypeOK, RecordedOnce, Clean
    PROVE  RecordedOnce'
  <1> USE DEF TypeOK
  <1> DEFINE s == recorded[1]
  <1>1. recorded \in Seq(Syscalls) /\ recorded # <<>>
    BY DEF Clean, CleanNode
  <1>2. s \in Syscalls /\ s = Head(recorded)
    BY <1>1
  <1>3. rules' = [rules EXCEPT ![s] = NULL] /\ recorded' = Tail(recorded)
    BY <1>2 DEF Clean, CleanNode
  <1>4. /\ DOMAIN recorded' = 1 .. Len(recorded) - 1
        /\ \A i \in 1 .. Len(recorded) - 1 : recorded'[i] = recorded[i + 1]
    BY <1>1, <1>3
  <1>5. ASSUME NEW i \in DOMAIN recorded', NEW j \in DOMAIN recorded',
               recorded'[i] = recorded'[j]
        PROVE  i = j
    <2>1. /\ i + 1 \in DOMAIN recorded /\ j + 1 \in DOMAIN recorded
          /\ recorded[i + 1] = recorded[j + 1]
      BY <1>1, <1>4, <1>5
    <2>2. i + 1 = j + 1
      BY <2>1 DEF RecordedOnce
    <2> QED
      BY <1>4, <2>2
  <1>6. ASSUME NEW t \in Syscalls
        PROVE  rules'[t].kind # "NULL" <=> \E i \in DOMAIN recorded' : recorded'[i] = t
    <2>1. ASSUME NEW k \in DOMAIN recorded'
          PROVE  k + 1 \in DOMAIN recorded /\ recorded'[k] = recorded[k + 1] /\ k + 1 # 1
      BY <1>1, <1>4
    <2>2. CASE t = s
      <3>1. rules'[t].kind = "NULL"
        BY <1>2, <1>3, <2>2 DEF NULL
      <3>2. 1 \in DOMAIN recorded
        BY <1>1
      <3>3. ASSUME NEW k \in DOMAIN recorded', recorded'[k] = t
            PROVE  FALSE
        <4>1. k + 1 = 1
          BY <2>1, <2>2, <3>2, <3>3 DEF RecordedOnce
        <4> QED
          BY <4>1, <2>1
      <3> QED
        BY <3>1, <3>3
    <2>3. CASE t # s
      <3>1. rules'[t] = rules[t]
        BY <1>3, <2>3
      <3>2. ASSUME NEW i \in DOMAIN recorded, recorded[i] = t
            PROVE  \E k \in DOMAIN recorded' : recorded'[k] = t
        <4>1. i # 1 /\ i \in 1 .. Len(recorded)
          BY <1>1, <2>3, <3>2
        <4>2. i - 1 \in DOMAIN recorded' /\ recorded'[i - 1] = t
          BY <1>4, <3>2, <4>1
        <4> QED
          BY <4>2
      <3>3. ASSUME NEW k \in DOMAIN recorded', recorded'[k] = t
            PROVE  \E i \in DOMAIN recorded : recorded[i] = t
        BY <2>1, <3>3
      <3> QED
        BY <3>1, <3>2, <3>3 DEF RecordedOnce
    <2> QED
      BY <2>2, <2>3
  <1> QED
    BY <1>5, <1>6 DEF RecordedOnce

LEMMA RecordedStep == TypeOK /\ RecordedOnce /\ [Next]_vars => RecordedOnce'
  <1> SUFFICES ASSUME TypeOK, RecordedOnce, [Next]_vars
               PROVE  RecordedOnce'
    OBVIOUS
  <1>1. CASE EndLine \/ EndLineDangling
    <2>1. PICK result, also : \/ SetsNothing(also)
                              \/ \E s \in Syscalls, r \in Rules : Sets(s, r, result, also)
      BY <1>1, LineEnds, SetsOrNot
    <2>2. CASE SetsNothing(also)
      BY <2>2 DEF RecordedOnce, SetsNothing
    <2>3. ASSUME NEW s \in Syscalls, NEW r \in Rules, Sets(s, r, result, also)
          PROVE  RecordedOnce'
      BY <2>3, RecordedGrows DEF Sets
    <2> QED
      BY <2>1, <2>2, <2>3
  <1>2. CASE Clean
    BY <1>2, RecordedShrinks
  <1>3. CASE ~EndLine /\ ~EndLineDangling /\ ~Clean
    <2>1. UNCHANGED <<rules, action, recorded>>
      BY <1>3, Rest
    <2> QED
      BY <2>1 DEF RecordedOnce
  <1> QED
    BY <1>1, <1>2, <1>3


-----------------------------------------------------------------------------
(***************************************************************************)
(* Owners of blocks: the cells of the rules.                               *)
(***************************************************************************)

\* A name that is freed with its line belongs to nobody else.
LEMMA NameAlone ==
    ASSUME OneOwner, NameFreed, loc = "parse",
           NEW also \in SUBSET {syscall_name.body}, also \subseteq live,
           NEW b \in also
    PROVE  ~InCells(b) /\ ~InLocals(b)
  <1>1. b = syscall_name.body /\ b \in live
    OBVIOUS
  <1>2. Named
    BY <1>1 DEF NameFreed
  <1> QED
    BY <1>1, <1>2 DEF OneOwner, NameOwns, Parsing

\* The table after the end of a line: the blocks of the new rule were arguments.
LEMMA CellsOwnLoad ==
    ASSUME TypeOK, OneOwner, NameFreed, EndLine \/ EndLineDangling
    PROVE  CellsOwn'
  <1> DEFINE args == arguments
             n == arguments_number
  <1>1. PICK name \in Texts, result \in {"ok", "err"}, also \in SUBSET {syscall_name.body} :
          /\ SetRules(name, arguments, arguments_number, rule_action, result, also)
          /\ loc = "parse" /\ also \subseteq live
    BY LineEnds
  <1>2. \A b \in also : ~InCells(b) /\ ~InLocals(b)
    BY <1>1, NameAlone
  <1>3. \A t \in Syscalls, p \in Positions : CellBody(t, p) \notin also
    BY <1>2 DEF InCells
  <1>4. CASE SetsNothing(also)
    BY <1>3, <1>4 DEF OneOwner, CellsOwn, CellBody, SetsNothing
  <1>5. ASSUME NEW s \in Syscalls, NEW r \in Rules, Sets(s, r, result, also)
        PROVE  CellsOwn'
    <2>0. /\ rules' = [rules EXCEPT ![s] = r]
          /\ \/ r = EMPTY_RULES /\ live' = live \ also
             \/ /\ r.cells = Installed(s, args, n)
                /\ live' = live \ (Released(s, args, n) \cup also)
      BY <1>5 DEF Sets
    <2>1. rules'[s] = r /\ \A t \in Syscalls : t # s => rules'[t] = rules[t]
      BY <2>0 DEF TypeOK
    <2>2. Released(s, args, n) \subseteq {args[p].body : p \in Positions}
      BY DEF Released
    <2>3. ASSUME NEW t \in Syscalls, NEW p \in Positions, t # s, CellBody(t, p) # NoBlock
          PROVE  /\ CellBody(t, p)' = CellBody(t, p)
                 /\ CellBody(t, p) \in live'
                 /\ ~InLocals(CellBody(t, p))
      <3>1. CellBody(t, p)' = CellBody(t, p)
        BY <2>1, <2>3 DEF CellBody
      <3>2. CellBody(t, p) \in live
        BY <2>3 DEF OneOwner, CellsOwn
      <3>3. ~InLocals(CellBody(t, p))
        <4>1. SUFFICES ASSUME NEW q \in Positions, args[q].body = CellBody(t, p)
                       PROVE  FALSE
          BY DEF InLocals
        <4>2. ~InCells(args[q].body)
          BY <1>1, <2>3, <4>1 DEF OneOwner, ArgumentsOwn, Parsing
        <4> QED
          BY <4>1, <4>2 DEF InCells
      <3>4. CellBody(t, p) \notin Released(s, args, n)
        BY <2>2, <3>3 DEF InLocals
      <3> QED
        BY <1>3, <2>0, <3>1, <3>2, <3>3, <3>4
    <2>4. ASSUME NEW p \in Positions, r.cells[p].body # NoBlock
          PROVE  /\ CellBody(s, p)' = args[p].body
                 /\ args[p].body \in live' /\ args[p].body # NoBlock
      <3>1. r.cells = Installed(s, args, n) /\ live' = live \ (Released(s, args, n) \cup also)
        BY <2>0, <2>4 DEF EMPTY_RULES, NoCells, Raw, Cell
      <3>2. r.cells[p].body = args[p].body /\ ~Consumed(ArgTypes[s][p], args[p])
        BY <2>4, <3>1, InstalledBody DEF TypeOK
      <3>3. args[p].body \in live
        BY <1>1, <2>4, <3>2 DEF OneOwner, ArgumentsOwn, Parsing
      <3>4. args[p].body \notin Released(s, args, n)
        <4>1. \A q \in Positions : args[q].body = args[p].body => q = p
          BY <1>1, <2>4, <3>2 DEF OneOwner, ArgumentsOwn, Parsing
        <4> QED
          BY <3>2, <4>1 DEF Released
      <3>5. args[p].body \notin also
        BY <1>2 DEF InLocals
      <3> QED
        BY <2>1, <2>4, <3>1, <3>2, <3>3, <3>4, <3>5 DEF CellBody
    <2>5. SUFFICES ASSUME NEW t \in Syscalls, NEW p \in Positions, CellBody(t, p)' # NoBlock
                   PROVE  /\ CellBody(t, p)' \in live'
                          /\ \A u \in Syscalls, q \in Positions :
                               CellBody(u, q)' = CellBody(t, p)' => u = t /\ q = p
      BY DEF CellsOwn
    <2>6. CASE t = s
      <3>1. /\ CellBody(s, p)' = args[p].body
            /\ args[p].body \in live' /\ args[p].body # NoBlock
        BY <2>1, <2>4, <2>5, <2>6 DEF CellBody
      <3>2. ASSUME NEW u \in Syscalls, NEW q \in Positions, CellBody(u, q)' = CellBody(t, p)'
            PROVE  u = t /\ q = p
        <4>1. CASE u = s
          <5>1. CellBody(s, q)' = args[q].body
            BY <2>1, <2>4, <2>5, <3>2, <4>1 DEF CellBody
          <5>2. args[q].body = args[p].body
            BY <2>6, <3>1, <3>2, <4>1, <5>1
          <5>3. q = p
            BY <1>1, <3>1, <5>2 DEF OneOwner, ArgumentsOwn, Parsing
          <5> QED
            BY <2>6, <4>1, <5>3
        <4>2. CASE u # s
          <5>1. CellBody(u, q)' = CellBody(u, q)
            BY <2>1, <4>2 DEF CellBody
          <5>2. ~InLocals(CellBody(u, q))
            BY <2>3, <2>5, <3>2, <4>2, <5>1
          <5> QED
            BY <2>6, <3>1, <3>2, <5>1, <5>2 DEF InLocals
        <4> QED
          BY <4>1, <4>2
      <3> QED
        BY <2>6, <3>1, <3>2
    <2>7. CASE t # s
      <3>1. CellBody(t, p)' = CellBody(t, p)
        BY <2>1, <2>7 DEF CellBody
      <3>2. CellBody(t, p) \in live' /\ ~InLocals(CellBody(t, p))
        BY <2>3, <2>5, <2>7, <3>1
      <3>3. ASSUME NEW u \in Syscalls, NEW q \in Positions, CellBody(u, q)' = CellBody(t, p)'
            PROVE  u = t /\ q = p
        <4>1. CASE u = s
          <5>1. CellBody(s, q)' = args[q].body
            BY <2>1, <2>4, <2>5, <3>3, <4>1 DEF CellBody
          <5> QED
            BY <3>1, <3>2, <3>3, <4>1, <5>1 DEF InLocals
        <4>2. CASE u # s
          <5>1. CellBody(u, q)' = CellBody(u, q)
            BY <2>1, <4>2 DEF CellBody
          <5> QED
            BY <2>5, <3>1, <3>3, <5>1 DEF OneOwner, CellsOwn
        <4> QED
          BY <4>1, <4>2
      <3> QED
        BY <3>1, <3>2, <3>3
    <2> QED
      BY <2>6, <2>7
  <1>6. SetsNothing(also) \/ \E s \in Syscalls, r \in Rules : Sets(s, r, result, also)
    BY <1>1, SetsOrNot
  <1> QED
    BY <1>4, <1>5, <1>6

\* A rule is removed with its blocks, and no other rule points to them.
LEMMA CellsOwnClean ==
    ASSUME TypeOK, OneOwner, Clean
    PROVE  CellsOwn'
  <1>0. Head(recorded) \in Syscalls
    BY DEF Clean, CleanNode, TypeOK
  <1>1. PICK s \in Syscalls : s = Head(recorded)
    BY <1>0
  <1>2. /\ rules' = [rules EXCEPT ![s] = NULL]
        /\ live' = live \ {rules[s].cells[p].body : p \in Kept(s)}
    BY <1>1 DEF Clean, CleanNode
  <1>3. Kept(s) \subseteq Positions
    BY DEF Kept
  <1>4. \A t \in Syscalls : rules'[t] = IF t = s THEN NULL ELSE rules[t]
    BY <1>2 DEF TypeOK
  <1>5. \A p \in Positions : CellBody(s, p)' = NoBlock
    BY <1>1, <1>4 DEF CellBody, NULL, NoCells, Raw, Cell
  <1>6. \A t \in Syscalls, p \in Positions : t # s => CellBody(t, p)' = CellBody(t, p)
    BY <1>4 DEF CellBody
  <1>7. SUFFICES ASSUME NEW t \in Syscalls, NEW p \in Positions, CellBody(t, p)' # NoBlock
                 PROVE  /\ CellBody(t, p)' \in live'
                        /\ \A u \in Syscalls, q \in Positions :
                             CellBody(u, q)' = CellBody(t, p)' => u = t /\ q = p
    BY DEF CellsOwn
  <1>8. t # s /\ CellBody(t, p)' = CellBody(t, p)
    BY <1>5, <1>6, <1>7
  <1>9. /\ CellBody(t, p) \in live
        /\ \A u \in Syscalls, q \in Positions :
             CellBody(u, q) = CellBody(t, p) => u = t /\ q = p
    BY <1>7, <1>8 DEF OneOwner, CellsOwn
  <1>10. CellBody(t, p) \in live'
    BY <1>1, <1>2, <1>3, <1>8, <1>9 DEF CellBody
  <1>11. ASSUME NEW u \in Syscalls, NEW q \in Positions, CellBody(u, q)' = CellBody(t, p)'
         PROVE  u = t /\ q = p
    <2>1. u # s
      BY <1>5, <1>7, <1>11
    <2> QED
      BY <1>6, <1>8, <1>9, <1>11, <2>1
  <1> QED
    BY <1>8, <1>10, <1>11

LEMMA CellsOwnStep == TypeOK /\ OneOwner /\ NameFreed /\ [Next]_vars => CellsOwn'
  <1> SUFFICES ASSUME TypeOK, OneOwner, NameFreed, [Next]_vars
               PROVE  CellsOwn'
    OBVIOUS
  <1>1. CASE EndLine \/ EndLineDangling
    BY <1>1, CellsOwnLoad
  <1>2. CASE Clean
    BY <1>2, CellsOwnClean
  <1>3. CASE ~EndLine /\ ~EndLineDangling /\ ~Clean
    <2>1. /\ UNCHANGED <<rules, action, recorded>>
          /\ \/ live \subseteq live'
             \/ loc = "array" /\ loc' = "parsed" /\ live' = live \ {array}
      BY <1>3, Rest
    <2>2. \A s \in Syscalls, p \in Positions :
            CellBody(s, p)' = CellBody(s, p) /\ (loc = "array" => CellBody(s, p) # array)
      BY <2>1 DEF CellBody, OneOwner, ArrayOwns, InCells
    <2>3. \A s \in Syscalls, p \in Positions : CellBody(s, p) \in live => CellBody(s, p) \in live'
      BY <2>1, <2>2
    <2> QED
      BY <2>2, <2>3 DEF OneOwner, CellsOwn
  <1> QED
    BY <1>1, <1>2, <1>3


-----------------------------------------------------------------------------
(***************************************************************************)
(* Owners of blocks: the locals of the parser.                             *)
(***************************************************************************)
Locals == ArgumentsOwn /\ NameOwns /\ ArrayOwns /\ NameFreed /\ BodiesGiven

\* A new block belongs to nobody.
LEMMA FreshIsAlone ==
    ASSUME TypeOK, OneOwner, Parsing, Blocks \ live # {}
    PROVE  /\ Fresh \in Blocks /\ Fresh \notin live /\ Fresh # NoBlock
           /\ ~InCells(Fresh) /\ ~InLocals(Fresh)
  <1>1. Fresh \in Blocks /\ Fresh \notin live
    BY FreshIsFree
  <1>2. Fresh # NoBlock
    BY <1>1
  <1>3. ~InCells(Fresh)
    BY <1>1, <1>2 DEF InCells, OneOwner, CellsOwn
  <1>4. ~InLocals(Fresh)
    BY <1>1, <1>2 DEF InLocals, OneOwner, ArgumentsOwn
  <1> QED
    BY <1>1, <1>2, <1>3, <1>4

\* Once the parser is left its locals own nothing.
LEMMA LocalsGone ==
    ASSUME loc' \notin {"parse", "array"}
    PROVE  Locals'
  BY DEF Locals, ArgumentsOwn, NameOwns, ArrayOwns, NameFreed, BodiesGiven, Parsing

\* A step that moves on in the file and no block.
LEMMA LocalsKept ==
    ASSUME OneOwner, NameFreed, BodiesGiven,
           UNCHANGED <<tableVars, loc, syscall_name, arguments, array>>, Named' = Named
    PROVE  Locals'
  <1>1. UNCHANGED <<rules, live>>
    BY DEF tableVars
  <1>2. ArgumentsOwn' /\ BodiesGiven'
    BY <1>1 DEF OneOwner, ArgumentsOwn, BodiesGiven, Parsing, InCells, CellBody
  <1>3. NameOwns' /\ NameFreed'
    BY <1>1 DEF OneOwner, NameOwns, NameFreed, Parsing, InCells, InLocals, CellBody
  <1>4. ArrayOwns'
    BY <1>1 DEF OneOwner, ArrayOwns, InCells, InLocals, CellBody
  <1> QED
    BY <1>2, <1>3, <1>4 DEF Locals

\* Between lines there are no arguments and the name is gone.
LEMMA LocalsReset ==
    ASSUME loc' = "parse", arguments' = NoArguments, state' = "EXPECT_ACTION",
           syscall_name'.body \notin live'
    PROVE  Locals'
  <1>1. \A p \in Positions : arguments'[p].type = "NONE" /\ arguments'[p].body = NoBlock
    BY DEF NoArguments
  <1> QED
    BY <1>1 DEF Locals, ArgumentsOwn, NameOwns, ArrayOwns, NameFreed, BodiesGiven, Named

LEMMA LocalsReadName ==
    ASSUME TypeOK, OneOwner, BodiesGiven, ReadName
    PROVE  Locals'
  <1> DEFINE b == Fresh
  <1>1. /\ loc = "parse" /\ loc' = "parse" /\ state' = "EXPECT_ARGN"
        /\ UNCHANGED <<rules, arguments>>
        /\ syscall_name'.body = b
        /\ Blocks \ live # {} /\ live' = live \cup {b}
    BY DEF ReadName, At, Allocate
  <1>2. ~InCells(b) /\ ~InLocals(b)
    BY <1>1, FreshIsAlone DEF Parsing
  <1>3. PICK c : c = b
    OBVIOUS
  <1>4. InCells(c)' = InCells(c) /\ InLocals(c)' = InLocals(c)
    BY <1>1 DEF InCells, InLocals, CellBody
  <1>5. NameOwns' /\ NameFreed' /\ ArrayOwns'
    BY <1>1, <1>2, <1>3, <1>4 DEF NameOwns, NameFreed, ArrayOwns, Named
  <1>6. ArgumentsOwn' /\ BodiesGiven'
    BY <1>1 DEF OneOwner, ArgumentsOwn, BodiesGiven, Parsing, InCells, CellBody
  <1> QED
    BY <1>5, <1>6 DEF Locals

LEMMA LocalsReadValue ==
    ASSUME TypeOK, OneOwner, BodiesGiven, ReadValue
    PROVE  Locals'
  <1>1. PICK b : b = Fresh
    OBVIOUS
  <1>2. PICK a : a = [type |-> ArgumentTypeOf(Token.type), text |-> Token.text, body |-> b]
    OBVIOUS
  <1>3. /\ loc = "parse" /\ loc' = "parse" /\ state = "EXPECT_VALUE" /\ state' = "EXPECT_ARGN"
        /\ UNCHANGED <<rules, syscall_name>>
        /\ arguments' = [arguments EXCEPT ![index] = a]
        /\ Blocks \ live # {} /\ live' = live \cup {b}
    BY <1>1, <1>2 DEF ReadValue, Allocate
  <1>4. b \notin live /\ b # NoBlock /\ ~InCells(b) /\ ~InLocals(b)
    BY <1>1, <1>3, FreshIsAlone DEF Parsing
  <1>5. \A p \in Positions : arguments'[p] = IF p = index THEN a ELSE arguments[p]
    BY <1>3 DEF TypeOK, Arguments
  <1>6. \A c : InCells(c)' <=> InCells(c)
    BY <1>3 DEF InCells, CellBody
  <1>7. BodiesGiven'
    BY <1>2, <1>3, <1>4, <1>5 DEF BodiesGiven, Parsing
  <1>8. ArgumentsOwn'
    <2>1. SUFFICES ASSUME NEW p \in Positions, arguments'[p].body # NoBlock
                   PROVE  /\ arguments'[p].body \in live' /\ ~InCells(arguments[p].body)'
                          /\ \A q \in Positions : arguments'[q].body = arguments'[p].body => q = p
      BY DEF ArgumentsOwn
    <2>2. CASE p = index
      BY <1>2, <1>3, <1>4, <1>5, <1>6, <2>2 DEF InLocals
    <2>3. CASE p # index
      <3>1. /\ arguments[p].body \in live /\ ~InCells(arguments[p].body)
            /\ \A q \in Positions : arguments[q].body = arguments[p].body => q = p
        BY <1>3, <1>5, <2>1, <2>3 DEF OneOwner, ArgumentsOwn, Parsing
      <3> QED
        BY <1>2, <1>3, <1>4, <1>5, <1>6, <2>3, <3>1 DEF InLocals
    <2> QED
      BY <2>2, <2>3
  <1>9. NameOwns' /\ NameFreed' /\ ArrayOwns'
    <2>1. /\ syscall_name.body \in live
          /\ ~InCells(syscall_name.body) /\ ~InLocals(syscall_name.body)
      BY <1>3 DEF OneOwner, NameOwns, Parsing, Named
    <2>2. \A p \in Positions : arguments'[p].body # syscall_name.body
      BY <1>2, <1>4, <1>5, <2>1 DEF InLocals
    <2> QED
      BY <1>3, <1>6, <2>1, <2>2 DEF NameOwns, NameFreed, ArrayOwns, Named, InLocals
  <1> QED
    BY <1>7, <1>8, <1>9 DEF Locals

LEMMA LocalsOpenArray ==
    ASSUME TypeOK, OneOwner, BodiesGiven, OpenArray
    PROVE  Locals'
  <1>1. PICK b : b = Fresh
    OBVIOUS
  <1>2. /\ loc = "parse" /\ loc' = "array" /\ state = "EXPECT_VALUE" /\ state' = "EXPECT_ARGN"
        /\ UNCHANGED <<rules, syscall_name, arguments>>
        /\ array' = b
        /\ Blocks \ live # {} /\ live' = live \cup {b}
    BY <1>1 DEF OpenArray, At, Allocate
  <1>3. b \notin live /\ b # NoBlock /\ ~InCells(b) /\ ~InLocals(b)
    BY <1>1, <1>2, FreshIsAlone DEF Parsing
  <1>4. \A c : (InCells(c)' <=> InCells(c)) /\ (InLocals(c)' <=> InLocals(c))
    BY <1>2 DEF InCells, InLocals, CellBody
  <1>5. /\ syscall_name.body \in live
        /\ ~InCells(syscall_name.body) /\ ~InLocals(syscall_name.body)
    BY <1>2 DEF OneOwner, NameOwns, Parsing, Named
  <1>6. NameOwns' /\ NameFreed' /\ ArrayOwns'
    BY <1>2, <1>3, <1>4, <1>5 DEF NameOwns, NameFreed, ArrayOwns
  <1>7. ArgumentsOwn' /\ BodiesGiven'
    BY <1>2, <1>4 DEF OneOwner, ArgumentsOwn, BodiesGiven, Parsing
  <1> QED
    BY <1>6, <1>7 DEF Locals

LEMMA LocalsCloseArray ==
    ASSUME TypeOK, OneOwner, BodiesGiven, Control, CloseArray
    PROVE  Locals'
  <1>1. PICK a : a = [type |-> "ARRAY", text |-> NoText, body |-> array]
    OBVIOUS
  <1>2. /\ loc = "array" /\ loc' = "parse" /\ state = "EXPECT_ARGN" /\ state' = state
        /\ UNCHANGED <<rules, live, syscall_name>>
        /\ arguments' = [arguments EXCEPT ![index] = a]
    BY <1>1 DEF CloseArray, InArray, tableVars, Control
  <1>3. /\ array \in live /\ ~InCells(array) /\ ~InLocals(array)
        /\ array # syscall_name.body /\ array # NoBlock
    BY <1>2 DEF OneOwner, ArrayOwns, TypeOK
  <1>4. \A p \in Positions : arguments'[p] = IF p = index THEN a ELSE arguments[p]
    BY <1>2 DEF TypeOK, Arguments
  <1>5. \A c : InCells(c)' <=> InCells(c)
    BY <1>2 DEF InCells, CellBody
  <1>6. BodiesGiven'
    BY <1>1, <1>2, <1>3, <1>4 DEF BodiesGiven, Parsing
  <1>7. ArgumentsOwn'
    <2>1. SUFFICES ASSUME NEW p \in Positions, arguments'[p].body # NoBlock
                   PROVE  /\ arguments'[p].body \in live' /\ ~InCells(arguments[p].body)'
                          /\ \A q \in Positions : arguments'[q].body = arguments'[p].body => q = p
      BY DEF ArgumentsOwn
    <2>2. CASE p = index
      BY <1>1, <1>2, <1>3, <1>4, <1>5, <2>2 DEF InLocals
    <2>3. CASE p # index
      <3>1. /\ arguments[p].body \in live /\ ~InCells(arguments[p].body)
            /\ \A q \in Positions : arguments[q].body = arguments[p].body => q = p
        BY <1>2, <1>4, <2>1, <2>3 DEF OneOwner, ArgumentsOwn, Parsing
      <3> QED
        BY <1>1, <1>2, <1>3, <1>4, <1>5, <2>3, <3>1 DEF InLocals
    <2> QED
      BY <2>2, <2>3
  <1>8. NameOwns' /\ NameFreed' /\ ArrayOwns'
    <2>1. /\ syscall_name.body \in live
          /\ ~InCells(syscall_name.body) /\ ~InLocals(syscall_name.body)
      BY <1>2 DEF OneOwner, NameOwns, Parsing, Named
    <2>2. \A p \in Positions : arguments'[p].body # syscall_name.body
      BY <1>1, <1>3, <1>4, <2>1 DEF InLocals
    <2> QED
      BY <1>2, <1>5, <2>1, <2>2 DEF NameOwns, NameFreed, ArrayOwns, Named, InLocals
  <1> QED
    BY <1>6, <1>7, <1>8 DEF Locals


LEMMA LocalsStep ==
    ASSUME TypeOK, OneOwner, NameFreed, BodiesGiven, Control, [Next]_vars
    PROVE  Locals'
  <1>1. CASE Start
    <2>1. loc' # "parse" => loc' \notin {"parse", "array"}
      BY <1>1 DEF Start
    <2>2. ASSUME loc' = "parse"
          PROVE  Locals'
      <3>1. /\ arguments' = NoArguments /\ state' = "EXPECT_ACTION" /\ syscall_name' = NoName
            /\ live' = live
        BY <1>1 DEF Start, Control, tableVars, parserVars
      <3>2. NoBlock \notin live
        BY DEF TypeOK
      <3> QED
        BY <2>2, <3>1, <3>2, LocalsReset DEF NoName
    <2> QED
      BY <2>1, <2>2, LocalsGone
  <1>2. CASE EndLine \/ EndLineDangling
    <2>1. PICK name \in Texts, result \in {"ok", "err"}, also \in SUBSET {syscall_name.body} :
            /\ SetRules(name, arguments, arguments_number, rule_action, result, also)
            /\ loc = "parse"
            /\ result = "ok" => /\ also = {syscall_name.body}
                                /\ UNCHANGED loc
                                /\ state' = "EXPECT_ACTION"
                                /\ arguments' = NoArguments
            /\ result = "err" => loc' = "parsed"
      BY <1>2, LineEnds
    <2>2. CASE result = "err"
      BY <2>1, <2>2, LocalsGone
    <2>3. CASE result = "ok"
      <3>1. SetsNothing(also) \/ \E s \in Syscalls, r \in Rules : Sets(s, r, result, also)
        BY <2>1, SetsOrNot
      <3>2. syscall_name.body \notin live'
        BY <2>1, <2>3, <3>1 DEF SetsNothing, Sets
      <3>3. syscall_name' = syscall_name
        BY <1>2 DEF EndLine, EndLineDangling
      <3> QED
        BY <2>1, <2>3, <3>2, <3>3, LocalsReset
    <2> QED
      BY <2>2, <2>3
  <1>3. CASE \/ Parsed \/ Run \/ Clean \/ CleanFails \/ RunFails \/ Exit
             \/ RefuseLine \/ EndLineCrashes \/ RefuseOperator \/ RefuseValue
             \/ RefuseArray \/ ArrayCrashes \/ RefuseToken \/ EndOfFile
    <2>1. loc' \notin {"parse", "array"}
      BY <1>3 DEF Parsed, Run, Clean, CleanFails, RunFails, Exit, RefuseLine, EndLineCrashes, RefuseOperator,
                  RefuseValue, RefuseArray, ArrayCrashes, RefuseToken, EndOfFile, Crash, Fail, Return
    <2> QED
      BY <2>1, LocalsGone
  <1>4. CASE \/ UNCHANGED vars \/ SkipLine \/ ReadAction \/ ReadArgument
             \/ ArrayElement \/ SkipComma \/ Ignore
    <2>1. /\ UNCHANGED <<tableVars, loc, syscall_name, arguments, array>>
          /\ Named' = Named
      BY <1>4 DEF vars, parserVars, SkipLine, ReadAction, ReadArgument, ArrayElement, SkipComma,
                  Ignore, Named
    <2> QED
      BY <2>1, LocalsKept
  <1> QED
    BY <1>1, <1>2, <1>3, <1>4, LocalsReadName, LocalsReadValue, LocalsOpenArray, LocalsCloseArray
    DEF Next, Parse, Stopped

-----------------------------------------------------------------------------
(***************************************************************************)
(* Half rules, and where the program is.                                   *)
(***************************************************************************)

\* A new row is whole, or the line that made it is refused.
LEMMA SetsWhole ==
    ASSUME TypeOK, BodiesGiven, loc = "parse",
           NEW s \in Syscalls, NEW r \in Rules, NEW result, NEW also,
           Sets(s, r, result, also), result = "ok",
           NEW p \in Positions, r.cells[p].type \in {"STRING", "ARRAY"}
    PROVE  r.cells[p].body # NoBlock
  <1>1. CASE r = EMPTY_RULES
    BY <1>1 DEF EMPTY_RULES, NoCells, Raw, Cell
  <1>2. CASE /\ r.cells = Installed(s, arguments, arguments_number)
             /\ result \in Statuses(s, arguments, arguments_number)
    <2>1. Stops(s, arguments, arguments_number) = {}
      BY <1>2 DEF Statuses
    <2>2. \A q \in Positions : arguments[q].type # "NONE" => arguments[q].body # NoBlock
      BY DEF BodiesGiven, Parsing
    <2>3. arguments \in Arguments /\ arguments_number \in 0 .. MaxArgs
      BY DEF TypeOK
    <2> QED
      BY <1>2, <2>1, <2>2, <2>3, InstalledWhole
  <1> QED
    BY <1>1, <1>2 DEF Sets

LEMMA HalfStep ==
    ASSUME TypeOK, BodiesGiven, HalfReported, Control, [Next]_vars
    PROVE  HalfReported'
  <1>1. CASE EndLine \/ EndLineDangling
    <2>1. PICK name \in Texts, result \in {"ok", "err"}, also \in SUBSET {syscall_name.body} :
            /\ SetRules(name, arguments, arguments_number, rule_action, result, also)
            /\ loc = "parse"
            /\ result = "err" => returned' = 1 /\ loc' = "parsed"
      BY <1>1, LineEnds
    <2>2. CASE result = "err"
      BY <2>1, <2>2 DEF HalfReported, EXIT_SUCCESS_
    <2>3. CASE result = "ok"
      <3>1. \A s \in Syscalls, p \in Positions : ~Half(s, p)
        BY <2>1 DEF HalfReported
      <3>2. SUFFICES ASSUME NEW t \in Syscalls, NEW p \in Positions, Half(t, p)'
                     PROVE  FALSE
        BY DEF HalfReported
      <3>3. CASE SetsNothing(also)
        BY <3>1, <3>2, <3>3 DEF SetsNothing, Half, CellBody
      <3>4. ASSUME NEW s \in Syscalls, NEW r \in Rules, Sets(s, r, result, also)
            PROVE  FALSE
        <4>1. rules'[t] = IF t = s THEN r ELSE rules[t]
          BY <3>4 DEF Sets, TypeOK
        <4>2. CASE t = s
          BY <2>1, <2>3, <3>2, <3>4, <4>1, <4>2, SetsWhole DEF Half, CellBody
        <4>3. CASE t # s
          BY <3>1, <3>2, <4>1, <4>3 DEF Half, CellBody
        <4> QED
          BY <4>2, <4>3
      <3> QED
        BY <2>1, <3>3, <3>4, SetsOrNot
    <2> QED
      BY <2>2, <2>3
  <1>2. CASE Clean
    <2>1. Head(recorded) \in Syscalls
      BY <1>2 DEF Clean, CleanNode, TypeOK
    <2>2. PICK s \in Syscalls : rules' = [rules EXCEPT ![s] = NULL]
      BY <1>2, <2>1 DEF Clean, CleanNode
    <2>3. UNCHANGED <<loc, returned>>
      BY <1>2 DEF Clean, parserVars
    <2>4. ASSUME NEW t \in Syscalls, NEW p \in Positions, Half(t, p)'
          PROVE  Half(t, p)
      <3>1. rules'[t] = IF t = s THEN NULL ELSE rules[t]
        BY <2>2 DEF TypeOK
      <3>2. t # s
        BY <2>4, <3>1 DEF Half, NULL, NoCells, Raw, Cell
      <3> QED
        BY <2>4, <3>1, <3>2 DEF Half, CellBody
    <2> QED
      BY <2>3, <2>4 DEF HalfReported
  <1>3. CASE ~EndLine /\ ~EndLineDangling /\ ~Clean
    <2>1. UNCHANGED rules
      BY <1>3, Rest
    <2>2. SUFFICES ASSUME \E s \in Syscalls, p \in Positions : Half(s, p)
                   PROVE  returned' # EXIT_SUCCESS_ /\ loc' \in {"parsed", "clean", "done", "crashed"}
      BY <2>1 DEF HalfReported, Half, CellBody
    <2>3. returned # EXIT_SUCCESS_ /\ loc \in {"parsed", "clean", "done", "crashed"}
      BY <2>2 DEF HalfReported
    <2>4. ~Parse
      BY <2>3 DEF Parse, At, InArray, SkipLine, RefuseLine, EndLine, EndLineDangling, EndLineCrashes,
                  ReadAction, ReadName, ReadArgument, RefuseOperator, ReadValue, OpenArray,
                  RefuseValue, ArrayElement, SkipComma, CloseArray, RefuseArray, ArrayCrashes,
                  Ignore, RefuseToken, EndOfFile
    <2>5. \/ UNCHANGED vars \/ Start \/ Parsed \/ Run \/ CleanFails \/ RunFails \/ Exit
      BY <1>3, <2>4 DEF Next, Stopped
    <2> QED
      BY <2>3, <2>5 DEF vars, parserVars, Start, Parsed, Run, CleanFails, RunFails, Crash, Exit
  <1> QED
    BY <1>1, <1>2, <1>3

LEMMA ControlStep ==
    ASSUME TypeOK, Control, [Next]_vars
    PROVE  Control'
  <1> USE DEF Control
  <1>1. CASE EndLine \/ EndLineDangling
    <2>1. loc = "parse" /\ (UNCHANGED <<loc, returned>> \/ loc' = "parsed")
      BY <1>1, LineEnds
    <2> QED
      BY <2>1
  <1>2. CASE \/ RefuseLine \/ RefuseOperator \/ RefuseValue \/ RefuseArray \/ RefuseToken
             \/ EndOfFile \/ EndLineCrashes \/ ArrayCrashes
    <2>1. loc' \in {"parsed", "crashed"}
      BY <1>2 DEF RefuseLine, RefuseOperator, RefuseValue, RefuseArray, RefuseToken, EndOfFile,
                  EndLineCrashes, ArrayCrashes, Crash, Fail, Return
    <2> QED
      BY <2>1
  <1>3. CASE \/ SkipLine \/ ReadAction \/ ReadName \/ ReadArgument \/ ReadValue \/ Ignore
    <2>1. loc = "parse" /\ loc' = "parse" /\ returned' = returned
      BY <1>3 DEF SkipLine, ReadAction, ReadName, ReadArgument, ReadValue, Ignore, At
    <2> QED
      BY <2>1
  <1>4. CASE OpenArray
    <2>1. loc = "parse" /\ loc' = "array" /\ state' = "EXPECT_ARGN" /\ returned' = returned
      BY <1>4 DEF OpenArray, At
    <2> QED
      BY <2>1
  <1>5. CASE ArrayElement \/ SkipComma \/ CloseArray
    <2>1. loc = "array" /\ loc' \in {"parse", "array"} /\ UNCHANGED <<state, returned>>
      BY <1>5 DEF ArrayElement, SkipComma, CloseArray, InArray
    <2> QED
      BY <2>1
  <1>6. CASE Start \/ Parsed \/ Run \/ Clean \/ CleanFails \/ RunFails \/ Exit
    <2>1. UNCHANGED returned /\ loc' \notin {"start", "array"} /\ (loc' = "parse" => loc = "start")
      BY <1>6 DEF Start, Parsed, Run, Clean, CleanFails, RunFails, Crash, Exit, parserVars
    <2> QED
      BY <2>1
  <1>7. CASE UNCHANGED vars
    BY <1>7 DEF vars, parserVars
  <1> QED
    BY <1>1, <1>2, <1>3, <1>4, <1>5, <1>6, <1>7 DEF Next, Parse, Stopped

-----------------------------------------------------------------------------
(***************************************************************************)
(* The invariant and what follows from it.                                 *)
(***************************************************************************)

\* At the start there are no rules and no blocks.
LEMMA InitInv == Init => IInv
  <1> SUFFICES ASSUME Init
               PROVE  IInv
    OBVIOUS
  <1>1. TypeOK
    BY InitType
  <1>2. /\ \A s \in Syscalls : rules[s].kind = "NULL"
        /\ \A s \in Syscalls, p \in Positions :
             rules[s].cells[p].type = "RAW" /\ CellBody(s, p) = NoBlock
    BY DEF Init, TableInit, NULL, NoCells, Raw, Cell, CellBody
  <1>3. RecordedOnce
    <2>1. \A i \in DOMAIN recorded : FALSE
      BY DEF Init, TableInit
    <2> QED
      BY <1>2, <2>1 DEF RecordedOnce
  <1>4. OneOwner
    BY <1>2 DEF OneOwner, CellsOwn, ArgumentsOwn, NameOwns, ArrayOwns, Parsing, Init
  <1>5. NameFreed /\ BodiesGiven /\ HalfReported
    BY <1>2 DEF NameFreed, BodiesGiven, HalfReported, Half, Parsing, Init
  <1>6. Control
    BY DEF Control, Init, ParserInit
  <1> QED
    BY <1>1, <1>3, <1>4, <1>5, <1>6 DEF IInv

LEMMA StepInv == IInv /\ [Next]_vars => IInv'
  <1> SUFFICES ASSUME IInv, [Next]_vars
               PROVE  IInv'
    OBVIOUS
  <1>1. TypeOK /\ RecordedOnce /\ OneOwner /\ NameFreed /\ BodiesGiven /\ HalfReported /\ Control
    BY DEF IInv
  <1>2. TypeOK' /\ RecordedOnce'
    BY <1>1, TypeStep, RecordedStep
  <1>3. CellsOwn' /\ Locals'
    BY <1>1, CellsOwnStep, LocalsStep
  <1>4. HalfReported' /\ Control'
    BY <1>1, HalfStep, ControlStep
  <1> QED
    BY <1>2, <1>3, <1>4 DEF IInv, OneOwner, Locals

\* The inductive invariant holds in every reachable state.
THEOREM Invariance == Spec => []IInv
  BY InitInv, StepInv, PTL DEF Spec

\* RecordedOnce holds in every reachable state: the list that removing the rules
\* walks has every row that record_syscall_with_rules was given, once.
THEOREM ListAgrees == Spec => []RecordedOnce
  <1>1. IInv => RecordedOnce
    BY DEF IInv
  <1> QED
    BY <1>1, Invariance, PTL

\* OneOwner holds in every reachable state: no text or array that a rule or the
\* parser points to has been freed, and none is pointed to twice.
THEOREM OwnedOnce == Spec => []OneOwner
  <1>1. IInv => OneOwner
    BY DEF IInv
  <1> QED
    BY <1>1, Invariance, PTL

\* NoHalfRuleEnforced holds in every reachable state: an error half way through a
\* rule keeps the program from being run.
THEOREM WholeRules == Spec => []NoHalfRuleEnforced
  <1>1. IInv => NoHalfRuleEnforced
    BY DEF IInv, HalfReported, NoHalfRuleEnforced
  <1> QED
    BY <1>1, Invariance, PTL

\* FirstRuleStays holds of every behaviour: while the file is read and the
\* program runs, the rule of a row never changes.
THEOREM FirstStays == Spec => FirstRuleStays
  <1>1. ASSUME TypeOK, [Next]_vars,
               NEW s \in Syscalls, rules[s].kind # "NULL", loc # "clean"
        PROVE  rules'[s] = rules[s] /\ action'[s] = action[s]
    <2>1. CASE EndLine \/ EndLineDangling
      <3>1. PICK result, also : \/ SetsNothing(also)
                                \/ \E t \in Syscalls, r \in Rules : Sets(t, r, result, also)
        BY <1>1, <2>1, LineEnds, SetsOrNot
      <3>2. CASE SetsNothing(also)
        BY <3>2 DEF SetsNothing
      <3>3. ASSUME NEW t \in Syscalls, NEW r \in Rules, Sets(t, r, result, also)
            PROVE  rules'[s] = rules[s] /\ action'[s] = action[s]
        BY <1>1, <3>3 DEF Sets, TypeOK
      <3> QED
        BY <3>1, <3>2, <3>3
    <2>2. CASE ~EndLine /\ ~EndLineDangling
      <3>1. ~Clean
        BY <1>1 DEF Clean
      <3> QED
        BY <1>1, <2>2, <3>1, Rest
    <2> QED
      BY <2>1, <2>2
  <1>2. TypeOK /\ [Next]_vars =>
          [\A s \in Syscalls : rules[s].kind # "NULL" /\ loc # "clean" =>
              rules'[s] = rules[s] /\ action'[s] = action[s]]_vars
    BY <1>1
  <1> QED
    BY <1>2, TypeCorrect, PTL DEF Spec, FirstRuleStays

=============================================================================
