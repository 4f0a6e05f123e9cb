--------------------------- MODULE RulesFileProofs ---------------------------
(***************************************************************************)
(* What the parser makes of a rules file: when the program runs, the rules *)
(* are those that the lines read so far say, for every file whose lines    *)
(* are rules, every table and every number of positions.                   *)
(***************************************************************************)
EXTENDS WorkflowProofs

-----------------------------------------------------------------------------
(***************************************************************************)
(* The inductive invariant.                                                *)
(***************************************************************************)

\* Before the arguments of a line nothing is left of the line before.
Emptied ==
    /\ pos >= 1 /\ (loc = "start" => pos = 1)
    /\ Parsing \/ loc = "start" =>
         /\ ~Named => arguments = NoArguments /\ arguments_number = 0
         /\ state = "EXPECT_ACTION" => rule_action = "NONE_ACTION"
         /\ pos = 1 \/ Type(pos - 1) = "ENDL" => state = "EXPECT_ACTION"

\* The line that ends at e is being read.
Reading(e) == e \in Ends /\ pos <= e /\ \A d \in Ends : d < e => d < pos

\* The value of the assignment at m is still to come.
Pending(e, m) ==
    /\ m \in Given(e, index)
    /\ m + 2 <= pos /\ Type(m + 1) = "EQ_SIGN"

\* The assignments before m are in the arguments.
Mark(e, m) ==
    \/ loc = "parse" /\ state = "EXPECT_ARGN" /\ ~InBraces(e, pos) /\ m = pos
    \/ loc = "parse" /\ state = "EXPECT_VALUE" /\ ~InBraces(e, pos) /\ m + 2 = pos /\ Pending(e, m)
    \/ /\ loc = "array" /\ state = "EXPECT_ARGN" /\ m + 2 < pos /\ Pending(e, m)
       /\ Type(m + 2) = "LBRACE" /\ \A k \in m + 2 .. pos - 1 : Type(k) # "RBRACE"

\* An argument is what the last of the assignments to it before m says.
Holds(args, e, p, m) ==
    \/ (\A i \in Given(e, p) : i >= m) /\ args[p] = NoArguments[p]
    \/ \E i \in Given(e, p) :
         /\ i < m /\ \A j \in Given(e, p) : j < m => j <= i
         /\ args[p].type = ValueAt(i).type /\ args[p].text = ValueAt(i).text

\* n is more than every position assigned before k, and 0 if there is none.
Counted(e, n, k) ==
    /\ \A p \in Positions : (\E i \in Given(e, p) : i < k) => p < n
    /\ n # 0 => \E p \in Positions : \E i \in Given(e, p) : i < k

ArgumentsRead(e) ==
    /\ \E m \in Nat : Mark(e, m) /\ \A p \in Positions : Holds(arguments, e, p, m)
    /\ Counted(e, arguments_number, pos)

\* What has been read of the line is in the parser's locals.
LineRead(e) ==
    /\ First(e) \in LineOf(e)
    /\ ~Named => ~InBraces(e, pos)
    /\ state = "EXPECT_ACTION" => pos = First(e)
    /\ state = "EXPECT_NAME" => /\ pos = First(e) + 2
                                /\ rule_action = ActionFor(Text(First(e)))
    /\ Named => /\ pos > First(e) + 2
                /\ rule_action = ActionFor(Text(First(e)))
                /\ syscall_name.text = Text(First(e) + 2)
                /\ ArgumentsRead(e)

LinesRead == Parsing => \A e \in Ends : Reading(e) /\ WellFormed(e) => LineRead(e)

\* What the lines read have left in the table, unless the run has been refused.
FirstOf(s, e) == e \in LinesOf(s) /\ \A d \in LinesOf(s) : e <= d
Loaded(s) ==
    \/ LinesOf(s) = {} /\ rules[s].kind = "NULL"
    \/ rules[s].kind # "NULL" /\ \E e \in LinesOf(s) : FirstOf(s, e) /\ AsWritten(s, e)

Enforced == loc \in {"start", "parse", "array", "run"} \/ (loc = "parsed" /\ returned = EXIT_SUCCESS_)
TableRead == Enforced /\ GoodFile => \A s \in Syscalls : Loaded(s)

FInv == Emptied /\ LinesRead /\ TableRead

-----------------------------------------------------------------------------
(***************************************************************************)
(* Lines.                                                                  *)
(***************************************************************************)

LEMMA EndsType == TypeOK => Ends \subseteq Nat \ {0}
  BY DEF TypeOK, Ends

\* What the definitions that WellFormed is made of say of a line.
LEMMA WellBegun ==
    ASSUME NEW e, WellFormed(e)
    PROVE  /\ LineOf(e) # {}
           /\ Type(First(e)) = "OPERATOR" /\ Text(First(e)) \in ActionTexts
           /\ Type(First(e) + 1) = "COLON" /\ Type(First(e) + 2) = "OPERATOR"
  BY DEF WellFormed

LEMMA WellAssigned ==
    ASSUME NEW e, WellFormed(e), NEW p, NEW i \in Given(e, p)
    PROVE  HasValue(i)
  <1>1. i \in LineOf(e) /\ i > First(e) + 2 /\ ~InBraces(e, i) /\ Assigns(i)
    BY DEF Given
  <1>2. Type(i) = "OPERATOR"
    BY <1>1 DEF Assigns
  <1> QED
    BY <1>1, <1>2 DEF WellFormed

\* The line that is read begins behind the line before.
LEMMA LineBegins ==
    ASSUME TypeOK, pos >= 1, NEW e, Reading(e), pos = 1 \/ Type(pos - 1) = "ENDL"
    PROVE  LineOf(e) # {} => First(e) = pos /\ First(e) \in LineOf(e) /\ ~InBraces(e, pos)
  <1>1. e \in Nat /\ pos \in Nat /\ e \in Ends
    BY EndsType DEF TypeOK, Reading
  <1>2. pos > 1 => pos - 1 \in Ends
    <2>1. pos > 1 => pos - 1 \in DOMAIN file
      BY <1>1 DEF Type, TokenAt
    <2> QED
      BY <2>1 DEF Ends, Type, TokenAt
  <1>3. LineOf(e) \subseteq pos .. e - 1
    BY <1>1, <1>2 DEF LineOf, Reading
  <1> SUFFICES ASSUME LineOf(e) # {}
               PROVE  First(e) = pos /\ First(e) \in LineOf(e) /\ ~InBraces(e, pos)
    OBVIOUS
  <1>4. pos \in LineOf(e)
    <2>1. pos < e
      BY <1>1, <1>3
    <2> QED
      BY <1>1, <2>1 DEF LineOf, Reading
  <1>5. \A j \in LineOf(e) : j \in Nat /\ pos <= j
    BY <1>1, <1>3
  <1> PICK f : f = First(e)
    OBVIOUS
  <1>6. f \in LineOf(e) /\ \A j \in LineOf(e) : f <= j
    BY <1>4, <1>5 DEF First
  <1>7. ~InBraces(e, pos)
    BY <1>1, <1>5 DEF InBraces
  <1> QED
    BY <1>1, <1>4, <1>5, <1>6, <1>7

\* Inside braces or not, one token further.
LEMMA BracesStep ==
    ASSUME NEW e \in Nat, NEW i \in LineOf(e)
    PROVE  InBraces(e, i + 1) <=> Type(i) = "LBRACE" \/ (InBraces(e, i) /\ Type(i) # "RBRACE")
  <1>1. i \in Nat /\ \A j \in LineOf(e) : j \in Nat
    BY DEF LineOf
  <1>2. ASSUME InBraces(e, i + 1)
        PROVE  Type(i) = "LBRACE" \/ (InBraces(e, i) /\ Type(i) # "RBRACE")
    <2>1. PICK j \in LineOf(e) : /\ j < i + 1 /\ Type(j) = "LBRACE"
                                 /\ \A k \in j .. (i + 1) - 1 : Type(k) # "RBRACE"
      BY <1>2 DEF InBraces
    <2>2. CASE j = i
      BY <2>1, <2>2
    <2>3. CASE j # i
      <3>1. j < i /\ i \in j .. (i + 1) - 1 /\ \A k \in j .. i - 1 : k \in j .. (i + 1) - 1
        BY <1>1, <2>1, <2>3
      <3> QED
        BY <2>1, <3>1 DEF InBraces
    <2> QED
      BY <2>2, <2>3
  <1>3. ASSUME Type(i) = "LBRACE"
        PROVE  InBraces(e, i + 1)
    <2>1. \A k \in i .. (i + 1) - 1 : k = i
      BY <1>1
    <2>2. i < i + 1 /\ \A k \in i .. (i + 1) - 1 : Type(k) # "RBRACE"
      BY <1>1, <1>3, <2>1
    <2> QED
      BY <1>3, <2>2 DEF InBraces
  <1>4. ASSUME InBraces(e, i), Type(i) # "RBRACE"
        PROVE  InBraces(e, i + 1)
    <2>1. PICK j \in LineOf(e) : /\ j < i /\ Type(j) = "LBRACE"
                                 /\ \A k \in j .. i - 1 : Type(k) # "RBRACE"
      BY <1>4 DEF InBraces
    <2>2. j < i + 1 /\ \A k \in j .. (i + 1) - 1 : k \in j .. i - 1 \/ k = i
      BY <1>1, <2>1
    <2> QED
      BY <1>4, <2>1, <2>2 DEF InBraces
  <1> QED
    BY <1>2, <1>3, <1>4

\* From the mark on no assignment has been read but the one it may be at.
LEMMA NoneBehindMark ==
    ASSUME TypeOK, NEW e, Reading(e), NEW m \in Nat, Mark(e, m),
           NEW p, NEW i \in Given(e, p), i < pos
    PROVE  i < m \/ (i = m /\ m + 2 <= pos /\ p = index)
  <1>1. e \in Nat /\ pos \in Nat /\ i \in LineOf(e) /\ i \in Nat /\ i < e
    BY EndsType DEF TypeOK, Reading, Given, LineOf
  <1>2. Type(i) = "OPERATOR" /\ ~InBraces(e, i) /\ ArgNumber[Text(i)] = p
    BY DEF Given, Assigns
  <1>3. CASE m = pos
    BY <1>1, <1>3
  <1>4. CASE m + 2 <= pos /\ Pending(e, m)
    <2>1. Type(m + 1) = "EQ_SIGN" /\ m \in Given(e, index) /\ ArgNumber[Text(m)] = index
      BY <1>4 DEF Pending, Given
    <2>2. m \in LineOf(e)
      BY <2>1 DEF Given
    <2>3. i # m + 1
      BY <1>2, <2>1
    <2>4. ASSUME m + 2 <= i
          PROVE  FALSE
      <3>1. m + 2 < pos
        BY <1>1, <2>4
      <3>2. Type(m + 2) = "LBRACE" /\ \A k \in m + 2 .. pos - 1 : Type(k) # "RBRACE"
        BY <3>1 DEF Mark
      <3>3. m + 2 < i
        BY <1>1, <1>2, <2>4, <3>2
      <3>4. m + 2 \in LineOf(e)
        <4>1. \A d \in Ends : d < e => d < m
          BY <2>2 DEF LineOf
        <4>2. m + 2 \in 1 .. e - 1 /\ \A d \in Ends : d \in Nat
          BY <1>1, <3>1, EndsType DEF Reading
        <4> QED
          BY <4>1, <4>2 DEF LineOf
      <3>5. \A k \in m + 2 .. i - 1 : k \in m + 2 .. pos - 1
        BY <1>1
      <3> QED
        BY <1>2, <3>2, <3>3, <3>4, <3>5 DEF InBraces
    <2> QED
      BY <1>1, <1>2, <1>4, <2>1, <2>3, <2>4
  <1> QED
    BY <1>1, <1>3, <1>4 DEF Mark, Pending

-----------------------------------------------------------------------------
(***************************************************************************)
(* The file stands still.                                                  *)
(***************************************************************************)
LEMMA FileKept == [Next]_vars => file' = file
  <1> SUFFICES ASSUME [Next]_vars PROVE file' = file
    OBVIOUS
  <1>1. CASE UNCHANGED vars \/ Stopped
    BY <1>1 DEF vars, Stopped
  <1>2. CASE Start \/ Parsed \/ Run \/ RunFails \/ Clean \/ CleanFails \/ Exit
    BY <1>2 DEF Start, Parsed, Run, RunFails, Clean, CleanFails, Exit, Crash
  <1>3. CASE SkipLine \/ RefuseLine \/ EndLine \/ EndLineDangling \/ EndLineCrashes
    BY <1>3 DEF SkipLine, RefuseLine, EndLine, EndLineDangling, EndLineCrashes, Crash, Fail, Return
  <1>4. CASE ReadAction \/ ReadName \/ ReadArgument \/ RefuseOperator
    BY <1>4 DEF ReadAction, ReadName, ReadArgument, RefuseOperator, Fail, Return
  <1>5. CASE ReadValue \/ OpenArray \/ RefuseValue
    BY <1>5 DEF ReadValue, OpenArray, RefuseValue, Fail, Return
  <1>6. CASE ArrayElement \/ SkipComma \/ CloseArray \/ RefuseArray \/ ArrayCrashes
    BY <1>6 DEF ArrayElement, SkipComma, CloseArray, RefuseArray, ArrayCrashes, Crash, Fail, Return
  <1>7. CASE Ignore \/ RefuseToken \/ EndOfFile
    BY <1>7 DEF Ignore, RefuseToken, EndOfFile, Fail, Return
  <1> QED
    BY <1>1, <1>2, <1>3, <1>4, <1>5, <1>6, <1>7 DEF Next, Parse

\* And with it all that is said of its lines.
LEMMA LinesStand ==
    ASSUME UNCHANGED file
    PROVE  /\ Ends' = Ends
           /\ \A i : Type(i)' = Type(i) /\ Text(i)' = Text(i) /\ ValueAt(i)' = ValueAt(i)
           /\ \A e : LineOf(e)' = LineOf(e) /\ First(e)' = First(e) /\ RowOf(e)' = RowOf(e)
           /\ \A e, i : InBraces(e, i)' <=> InBraces(e, i)
           /\ \A e, p : Given(e, p)' = Given(e, p) /\ LastFor(e, p)' = LastFor(e, p)
           /\ \A e : WellFormed(e)' <=> WellFormed(e)
           /\ \A e, p, c : Says(e, p, c)' <=> Says(e, p, c)
  <1>1. /\ Ends' = Ends
        /\ \A i : Type(i)' = Type(i) /\ Text(i)' = Text(i)
    BY DEF Ends, Type, Text, TokenAt
  <1>2. \A i : ValueAt(i)' = ValueAt(i) /\ (Assigns(i)' <=> Assigns(i)) /\ (HasValue(i)' <=> HasValue(i))
    BY <1>1 DEF ValueAt, Assigns, HasValue
  <1>3. \A e : LineOf(e)' = LineOf(e)
    BY <1>1 DEF LineOf
  <1>4. \A e : First(e)' = First(e)
    BY <1>3 DEF First
  <1>5. \A e, i : InBraces(e, i)' <=> InBraces(e, i)
    BY <1>1, <1>3 DEF InBraces
  <1>6. \A e : RowOf(e)' = RowOf(e)
    BY <1>4 DEF RowOf, Text, TokenAt, First, LineOf, Ends
  <1>7. \A e, p : Given(e, p)' = Given(e, p)
    BY <1>1, <1>2, <1>3, <1>4, <1>5 DEF Given
  <1>8. \A e, p : LastFor(e, p)' = LastFor(e, p)
    BY <1>7 DEF LastFor
  <1>9. \A e : WellFormed(e)' <=> WellFormed(e)
    BY DEF WellFormed, Type, Text, TokenAt, First, LineOf, Ends, Assigns, HasValue, InBraces
  <1>10. \A e, p, c : Says(e, p, c)' <=> Says(e, p, c)
    BY DEF Says, ValueFor, ValueAt, LastFor, Given, Type, Text, TokenAt, First, LineOf, Ends, Assigns, InBraces, RowOf
  <1> QED
    BY <1>1, <1>2, <1>3, <1>4, <1>5, <1>6, <1>7, <1>8, <1>9, <1>10

\* A token within a line does not end it.
LEMMA StillReading ==
    ASSUME TypeOK, UNCHANGED file, pos >= 1, NEW e, Reading(e)',
           \/ pos' = pos /\ loc # "start"
           \/ pos' = pos + 1 /\ Type(pos) # "ENDL"
           \/ pos' = pos + 2 /\ Type(pos) # "ENDL" /\ Type(pos + 1) # "ENDL"
    PROVE  /\ Reading(e) /\ e \in Nat /\ pos' <= e
           /\ pos' >= pos + 1 => pos \in LineOf(e)
           /\ pos' = pos + 2 => pos + 1 \in LineOf(e)
  <1>1. /\ e \in Ends /\ pos' <= e /\ \A d \in Ends : d < e => d < pos'
        /\ pos \in Nat /\ \A d \in Ends : d \in Nat
    BY LinesStand, EndsType DEF Reading, TypeOK
  <1>2. \A d \in Ends : Type(d) = "ENDL"
    BY DEF Ends, Type, TokenAt
  <1>3. \A d \in Ends : d < e => d < pos
    BY <1>1, <1>2
  <1>4. Reading(e) /\ e \in Nat
    BY <1>1, <1>3 DEF Reading
  <1>5. pos' >= pos + 1 => pos \in LineOf(e)
    BY <1>1, <1>3 DEF LineOf
  <1>6. pos' = pos + 2 => pos + 1 \in LineOf(e)
    <2>1. pos' = pos + 2 => pos + 1 < e
      BY <1>1, <1>2
    <2> QED
      BY <1>1, <1>3, <2>1 DEF LineOf
  <1> QED
    BY <1>1, <1>4, <1>5, <1>6

(***************************************************************************)
(* What is to be shown of the next state, said of this state's file.       *)
(***************************************************************************)
LEMMA ArgumentsNext ==
    ASSUME UNCHANGED file, NEW e, NEW args, arguments' = args, NEW m \in Nat, Mark(e, m)',
           \A p \in Positions : Holds(args, e, p, m),
           Counted(e, arguments_number', pos')
    PROVE  ArgumentsRead(e)'
  <1>1. \A p \in Positions : Holds(arguments, e, p, m)'
    BY LinesStand DEF Holds, NoArguments
  <1>2. Counted(e, arguments_number, pos)'
    BY LinesStand DEF Counted, Positions
  <1> QED
    BY <1>1, <1>2 DEF ArgumentsRead, Positions

LEMMA NamedNext ==
    ASSUME UNCHANGED file, NEW e, First(e) \in LineOf(e), Named', pos' > First(e) + 2,
           rule_action' = ActionFor(Text(First(e))), syscall_name'.text = Text(First(e) + 2),
           ArgumentsRead(e)'
    PROVE  LineRead(e)'
  <1>1. First(e)' = First(e) /\ LineOf(e)' = LineOf(e)
    BY LinesStand
  <1> PICK f : f = First(e)
    OBVIOUS
  <1>2. Text(f)' = Text(f) /\ Text(f + 2)' = Text(f + 2)
    BY LinesStand
  <1>3. Text(First(e))' = Text(f) /\ Text(First(e) + 2)' = Text(f + 2)
    BY <1>1, <1>2 DEF Text, TokenAt
  <1> QED
    BY <1>1, <1>3 DEF LineRead, Named

LEMMA NamedOn ==
    ASSUME TypeOK, UNCHANGED <<file, rule_action, syscall_name>>, NEW e, LineRead(e),
           Named, Named', pos' \in Nat, pos' >= pos, ArgumentsRead(e)'
    PROVE  LineRead(e)'
  <1>1. First(e) \in Nat /\ pos \in Nat
    BY DEF LineRead, LineOf, TypeOK
  <1>2. pos' > First(e) + 2
    BY <1>1 DEF LineRead
  <1> QED
    BY <1>2, NamedNext DEF LineRead

LEMMA MarkPlain ==
    ASSUME UNCHANGED file, NEW e, NEW m, m = pos', loc' = "parse", state' = "EXPECT_ARGN",
           ~InBraces(e, m)
    PROVE  Mark(e, m)'
  <1>1. ~InBraces(e, pos)'
    BY LinesStand DEF InBraces
  <1> QED
    BY <1>1 DEF Mark

LEMMA PendingNext ==
    ASSUME UNCHANGED file, NEW e, NEW m \in Nat, NEW n, index' = n, m \in Given(e, n),
           Type(m + 1) = "EQ_SIGN", m + 2 <= pos'
    PROVE  Pending(e, m)'
  <1>1. m \in Given(e, index)'
    BY LinesStand DEF Given, Assigns
  <1>2. Type(m + 1)' = "EQ_SIGN"
    BY LinesStand
  <1> QED
    BY <1>1, <1>2 DEF Pending

LEMMA MarkValue ==
    ASSUME UNCHANGED file, NEW e, NEW m \in Nat, m + 2 = pos', loc' = "parse",
           state' = "EXPECT_VALUE", ~InBraces(e, m + 2), Pending(e, m)'
    PROVE  Mark(e, m)'
  <1>1. ~InBraces(e, pos)'
    BY LinesStand DEF InBraces
  <1> QED
    BY <1>1 DEF Mark

LEMMA MarkArray ==
    ASSUME UNCHANGED file, NEW e, NEW m \in Nat, m + 2 < pos', loc' = "array",
           state' = "EXPECT_ARGN", Pending(e, m)', Type(m + 2) = "LBRACE",
           \A k \in m + 2 .. pos' - 1 : Type(k) # "RBRACE"
    PROVE  Mark(e, m)'
  <1>1. Type(m + 2)' = "LBRACE" /\ \A k \in m + 2 .. pos' - 1 : Type(k)' # "RBRACE"
    BY LinesStand
  <1> QED
    BY <1>1 DEF Mark

(***************************************************************************)
(* The steps within a line.                                                *)
(***************************************************************************)
LEMMA LineReadAction ==
    ASSUME TypeOK, UNCHANGED file, NEW e \in Nat, LineRead(e),
           pos \in LineOf(e), pos + 1 \in LineOf(e), ReadAction
    PROVE  LineRead(e)'
  <1>1. /\ Type(pos) = "OPERATOR" /\ Type(pos + 1) = "COLON" /\ state = "EXPECT_ACTION"
        /\ state' = "EXPECT_NAME" /\ rule_action' = ActionFor(Text(pos)) /\ pos' = pos + 2
    BY DEF ReadAction, At, Token, Type, Text
  <1>2. pos = First(e) /\ First(e) \in LineOf(e) /\ ~InBraces(e, pos) /\ pos \in Nat
    BY <1>1 DEF LineRead, Named, TypeOK
  <1>3. ~InBraces(e, pos + 2)
    <2>1. ~InBraces(e, pos + 1)
      BY <1>1, <1>2, BracesStep
    <2>2. ~InBraces(e, (pos + 1) + 1)
      BY <1>1, <2>1, BracesStep
    <2>3. (pos + 1) + 1 = pos + 2
      BY <1>2
    <2> QED
      BY <2>2, <2>3
  <1> PICK f : f = pos
    OBVIOUS
  <1>4. /\ First(e)' = f /\ First(e)' \in LineOf(e)' /\ pos' = f + 2
        /\ Text(First(e))' = Text(f)
    <2>1. First(e)' = f /\ First(e)' \in LineOf(e)'
      BY <1>2, LinesStand
    <2>2. Text(First(e))' = Text(f)'
      BY <2>1 DEF Text, TokenAt
    <2> QED
      BY <1>1, <2>1, <2>2, LinesStand
  <1>5. ~InBraces(e, pos)'
    <2>1. ~InBraces(e, f + 2)
      BY <1>3
    <2> QED
      BY <1>4, <2>1, LinesStand DEF InBraces
  <1>6. rule_action' = ActionFor(Text(f))
    BY <1>1
  <1>7. ~Named'
    BY <1>1 DEF Named
  <1> QED
    BY <1>1, <1>4, <1>5, <1>6, <1>7 DEF LineRead, ActionFor

LEMMA LineReadName ==
    ASSUME TypeOK, Emptied, UNCHANGED file, NEW e \in Nat, LineRead(e), WellFormed(e),
           pos \in LineOf(e), ReadName
    PROVE  LineRead(e)'
  <1>1. /\ state = "EXPECT_NAME" /\ state' = "EXPECT_ARGN" /\ loc' = "parse" /\ loc = "parse"
        /\ UNCHANGED <<rule_action, arguments, arguments_number>>
        /\ syscall_name'.text = Text(pos) /\ Type(pos) = "OPERATOR" /\ pos' = pos + 1
    BY DEF ReadName, At, Token, Type, Text
  <1> PICK f : f = First(e)
    OBVIOUS
  <1>2. /\ pos = f + 2 /\ rule_action = ActionFor(Text(f)) /\ f \in LineOf(e) /\ f \in Nat
        /\ ~InBraces(e, pos) /\ pos \in Nat
    BY <1>1 DEF LineRead, Named, TypeOK, LineOf
  <1>3. ~InBraces(e, pos + 1)
    BY <1>1, <1>2, BracesStep
  <1>4. \A p, i : i \in Given(e, p) => i > f + 2 /\ i \in Nat
    BY DEF Given, LineOf
  <1> PICK args : args = NoArguments
    OBVIOUS
  <1> PICK m \in Nat : m = pos + 1
    BY <1>2
  <1>5. arguments' = args
    BY <1>1 DEF Emptied, Parsing, Named
  <1>6. \A p \in Positions : Holds(args, e, p, m)
    BY <1>2, <1>4 DEF Holds
  <1>7. Counted(e, arguments_number', pos')
    <2>1. \A p \in Positions : ~ \E i \in Given(e, p) : i < pos'
      BY <1>1, <1>2, <1>4
    <2>2. arguments_number' = 0
      BY <1>1 DEF Emptied, Parsing, Named
    <2> QED
      BY <2>1, <2>2 DEF Counted
  <1>8. Mark(e, m)'
    BY <1>1, <1>3, MarkPlain
  <1>9. ArgumentsRead(e)'
    BY <1>5, <1>6, <1>7, <1>8, ArgumentsNext
  <1>10. Named' /\ pos' > f + 2 /\ syscall_name'.text = Text(f + 2)
    BY <1>1, <1>2 DEF Named
  <1> QED
    BY <1>1, <1>2, <1>9, <1>10, NamedNext

\* The facts about a line whose name has been read.
LEMMA NamedLine ==
    ASSUME TypeOK, Named, NEW e \in Nat, LineRead(e)
    PROVE  /\ First(e) \in Nat /\ pos \in Nat /\ pos > First(e) + 2
           /\ \E m \in Nat : Mark(e, m) /\ \A p \in Positions : Holds(arguments, e, p, m)
           /\ Counted(e, arguments_number, pos)
  BY DEF LineRead, ArgumentsRead, LineOf, TypeOK

\* Where no assignment begins at pos the arguments are as they were.
LEMMA MarkMoves ==
    ASSUME TypeOK, NEW e \in Nat, LineRead(e), Named, pos \in LineOf(e),
           Type(pos) # "OPERATOR" \/ InBraces(e, pos)
    PROVE  Counted(e, arguments_number, pos + 1)
  <1>1. ASSUME NEW p, NEW i \in Given(e, p), i < pos + 1
        PROVE  i < pos
    <2>1. Type(i) = "OPERATOR" /\ ~InBraces(e, i) /\ i \in Nat /\ pos \in Nat
      BY DEF Given, Assigns, LineOf, TypeOK
    <2>2. i # pos
      BY <2>1
    <2> QED
      BY <1>1, <2>1, <2>2
  <1>2. \A p, i : i \in Given(e, p) => i \in Nat
    BY DEF Given, LineOf
  <1>3. Counted(e, arguments_number, pos) /\ pos \in Nat
    BY NamedLine
  <1> QED
    BY <1>1, <1>2, <1>3 DEF Counted

LEMMA LineReadArgument ==
    ASSUME TypeOK, UNCHANGED file, NEW e \in Nat, Reading(e), LineRead(e), WellFormed(e),
           pos \in LineOf(e), pos + 1 \in LineOf(e), ReadArgument
    PROVE  LineRead(e)'
  <1> PICK n, q : n = ArgNumber[Text(pos)] /\ q = pos
    OBVIOUS
  <1>1. /\ state = "EXPECT_ARGN" /\ loc = "parse" /\ state' = "EXPECT_VALUE" /\ loc' = "parse"
        /\ Type(q) = "OPERATOR" /\ Type(q + 1) = "EQ_SIGN" /\ n \in Nat /\ n < MaxArgs
        /\ index' = n /\ pos' = q + 2
        /\ arguments_number' = IF arguments_number <= n THEN n + 1 ELSE arguments_number
        /\ UNCHANGED <<rule_action, syscall_name, arguments>>
    BY DEF ReadArgument, At, Token, Type, Text, ArgumentInRange
  <1>2. Named /\ Named' /\ q \in Nat /\ arguments_number \in Nat
    BY <1>1 DEF Named, TypeOK
  <1>3. PICK m \in Nat : Mark(e, m) /\ \A p \in Positions : Holds(arguments, e, p, m)
    BY <1>2, NamedLine
  <1>4. m = q /\ ~InBraces(e, q)
    BY <1>1, <1>3 DEF Mark
  <1>5. q \in Given(e, n)
    <2>1. n \in Positions
      BY <1>1, RuleTableAssumption DEF Positions
    <2>2. Assigns(q)
      BY <1>1, <2>1 DEF Assigns
    <2>3. q > First(e) + 2
      BY <1>2, NamedLine
    <2> QED
      BY <1>4, <2>2, <2>3 DEF Given
  <1>6. ~InBraces(e, q + 2)
    <2>1. ~InBraces(e, q + 1)
      BY <1>1, <1>4, BracesStep
    <2>2. ~InBraces(e, (q + 1) + 1)
      BY <1>1, <2>1, BracesStep
    <2>3. (q + 1) + 1 = q + 2
      BY <1>2
    <2> QED
      BY <2>2, <2>3
  <1>7. Pending(e, q)'
    BY <1>1, <1>2, <1>5, PendingNext
  <1>8. Mark(e, q)'
    BY <1>1, <1>2, <1>6, <1>7, MarkValue
  <1>c. Counted(e, arguments_number, q)
    BY <1>2, NamedLine
  <1>d. ASSUME NEW p \in Positions, NEW i \in Given(e, p), i < pos'
        PROVE  p < arguments_number'
    <2>1. Type(i) = "OPERATOR" /\ i \in Nat /\ p \in Nat /\ ArgNumber[Text(i)] = p
      BY DEF Given, Assigns, LineOf, Positions
    <2>2. i < q \/ i = q
      BY <1>1, <1>2, <1>d, <2>1
    <2>3. i < q => p < arguments_number
      BY <1>c DEF Counted
    <2>4. i = q => p = n
      BY <2>1
    <2> QED
      BY <1>1, <1>2, <2>1, <2>2, <2>3, <2>4
  <1>9. Counted(e, arguments_number', pos')
    <2>1. n \in Positions /\ q < pos'
      BY <1>1, <1>2, RuleTableAssumption DEF Positions
    <2> QED
      BY <1>5, <1>d, <2>1 DEF Counted
  <1> PICK args : args = arguments
    OBVIOUS
  <1>10. ArgumentsRead(e)'
    BY <1>1, <1>2, <1>3, <1>4, <1>8, <1>9, ArgumentsNext
  <1> QED
    BY <1>1, <1>2, <1>10, NamedOn

\* A value for the assignment at m.
LEMMA ValueHolds ==
    ASSUME TypeOK, NEW e, Reading(e), NEW m \in Nat, Mark(e, m), m + 2 <= pos,
           Type(pos) # "OPERATOR", NEW v, v.type = ValueAt(m).type, v.text = ValueAt(m).text,
           \A p \in Positions : Holds(arguments, e, p, m)
    PROVE  \A p \in Positions : Holds([arguments EXCEPT ![index] = v], e, p, pos + 1)
  <1> PICK args : args = [arguments EXCEPT ![index] = v]
    OBVIOUS
  <1>1. m \in Given(e, index) /\ pos \in Nat /\ index \in Positions
    BY DEF Mark, Pending, TypeOK
  <1>2. args[index] = v /\ \A p \in Positions : p # index => args[p] = arguments[p]
    BY <1>1 DEF TypeOK, Arguments
  <1>3. ASSUME NEW p, NEW i \in Given(e, p), i < pos + 1
        PROVE  i < m \/ (i = m /\ p = index)
    <2>1. Type(i) = "OPERATOR" /\ i \in Nat
      BY DEF Given, Assigns, LineOf
    <2>2. i < pos
      BY <1>1, <1>3, <2>1
    <2> QED
      BY <2>2, NoneBehindMark
  <1>4. \A p, i : i \in Given(e, p) => i \in Nat
    BY DEF Given, LineOf
  <1>5. Holds(args, e, index, pos + 1)
    <2>1. m < pos + 1 /\ \A j \in Given(e, index) : j < pos + 1 => j <= m
      BY <1>1, <1>3, <1>4
    <2> QED
      BY <1>1, <1>2, <2>1 DEF Holds
  <1>6. ASSUME NEW p \in Positions, p # index
        PROVE  Holds(args, e, p, pos + 1)
    <2>1. \A i \in Given(e, p) : i < pos + 1 <=> i < m
      BY <1>1, <1>3, <1>4, <1>6
    <2>2. \A i \in Given(e, p) : i >= pos + 1 <=> i >= m
      BY <1>1, <1>4, <2>1
    <2> QED
      BY <1>2, <1>6, <2>1, <2>2 DEF Holds
  <1> QED
    BY <1>5, <1>6

LEMMA LineReadValue ==
    ASSUME TypeOK, UNCHANGED file, NEW e \in Nat, Reading(e), LineRead(e),
           pos \in LineOf(e), ReadValue
    PROVE  LineRead(e)'
  <1> PICK q, v : /\ q = pos
                  /\ v = [type |-> ArgumentTypeOf(Token.type), text |-> Token.text, body |-> Fresh]
    OBVIOUS
  <1>1. /\ state = "EXPECT_VALUE" /\ loc = "parse" /\ state' = "EXPECT_ARGN" /\ loc' = "parse"
        /\ Type(q) \in {"STRING", "REGEX", "NUMBER"} /\ pos' = q + 1
        /\ arguments' = [arguments EXCEPT ![index] = v]
        /\ UNCHANGED <<rule_action, syscall_name, arguments_number>>
    BY DEF ReadValue, Token, Type
  <1>2. Named /\ Named' /\ q \in Nat
    BY <1>1 DEF Named, TypeOK
  <1>3. PICK m \in Nat : Mark(e, m) /\ \A p \in Positions : Holds(arguments, e, p, m)
    BY <1>2, NamedLine
  <1>4. m + 2 = q /\ ~InBraces(e, q)
    BY <1>1, <1>3 DEF Mark
  <1>5. v.type = ValueAt(m).type /\ v.text = ValueAt(m).text
    BY <1>1, <1>4 DEF ValueAt, Type, Text, Token
  <1> PICK args : args = [arguments EXCEPT ![index] = v]
    OBVIOUS
  <1>6. \A p \in Positions : Holds(args, e, p, q + 1)
    <2>1. Type(pos) # "OPERATOR" /\ m + 2 <= pos /\ q + 1 = pos + 1
      BY <1>1, <1>2, <1>4
    <2>2. \A p \in Positions : Holds([arguments EXCEPT ![index] = v], e, p, pos + 1)
      BY <1>3, <1>5, <2>1, ValueHolds
    <2> QED
      BY <2>2
  <1>7. ~InBraces(e, q + 1)
    BY <1>1, <1>4, BracesStep
  <1>8. Mark(e, q + 1)'
    BY <1>1, <1>7, MarkPlain
  <1>9. Counted(e, arguments_number, q + 1)
    BY <1>1, <1>2, MarkMoves
  <1>10. ArgumentsRead(e)'
    <2>1. q + 1 \in Nat /\ arguments' = args
      BY <1>1, <1>2
    <2> QED
      BY <1>1, <1>6, <1>8, <1>9, <2>1, ArgumentsNext
  <1> QED
    BY <1>1, <1>2, <1>10, NamedOn

LEMMA LineOpenArray ==
    ASSUME TypeOK, UNCHANGED file, NEW e \in Nat, LineRead(e), pos \in LineOf(e), OpenArray
    PROVE  LineRead(e)'
  <1> PICK q, args, n : q = pos /\ args = arguments /\ n = index
    OBVIOUS
  <1>1. /\ state = "EXPECT_VALUE" /\ loc = "parse" /\ state' = "EXPECT_ARGN" /\ loc' = "array"
        /\ Type(q) = "LBRACE" /\ pos' = q + 1 /\ arguments' = args /\ index' = n
        /\ UNCHANGED <<rule_action, syscall_name, arguments_number>>
    BY DEF OpenArray, At, Token, Type
  <1>2. Named /\ Named' /\ q \in Nat
    BY <1>1 DEF Named, TypeOK
  <1>3. PICK m \in Nat : Mark(e, m) /\ \A p \in Positions : Holds(args, e, p, m)
    BY <1>2, NamedLine
  <1>4. m + 2 = q /\ m \in Given(e, n) /\ Type(m + 1) = "EQ_SIGN"
    BY <1>1, <1>3 DEF Mark, Pending
  <1>5. Pending(e, m)'
    BY <1>1, <1>2, <1>4, PendingNext
  <1>6. \A k \in m + 2 .. pos' - 1 : k = q
    BY <1>1, <1>2, <1>4
  <1>7. Mark(e, m)'
    BY <1>1, <1>2, <1>4, <1>5, <1>6, MarkArray
  <1>8. Counted(e, arguments_number, q + 1)
    BY <1>1, <1>2, MarkMoves
  <1>9. ArgumentsRead(e)'
    BY <1>1, <1>3, <1>7, <1>8, ArgumentsNext
  <1> QED
    BY <1>1, <1>2, <1>9, NamedOn

LEMMA LineInArray ==
    ASSUME TypeOK, UNCHANGED file, NEW e \in Nat, Reading(e), LineRead(e), pos \in LineOf(e),
           ArrayElement \/ SkipComma, state = "EXPECT_ARGN"
    PROVE  LineRead(e)'
  <1> PICK q, args, n : q = pos /\ args = arguments /\ n = index
    OBVIOUS
  <1>1. /\ loc = "array" /\ loc' = "array" /\ state' = "EXPECT_ARGN"
        /\ Type(q) # "RBRACE" /\ pos' = q + 1 /\ arguments' = args /\ index' = n
        /\ UNCHANGED <<rule_action, syscall_name, arguments_number>>
    BY DEF ArrayElement, SkipComma, InArray, Token, Type, WithBody
  <1>2. Named /\ Named' /\ q \in Nat
    BY <1>1 DEF Named, TypeOK
  <1>3. PICK m \in Nat : Mark(e, m) /\ \A p \in Positions : Holds(args, e, p, m)
    BY <1>2, NamedLine
  <1>4. /\ m + 2 < q /\ m \in Given(e, n) /\ Type(m + 1) = "EQ_SIGN" /\ Type(m + 2) = "LBRACE"
        /\ \A k \in m + 2 .. q - 1 : Type(k) # "RBRACE"
    BY <1>1, <1>3 DEF Mark, Pending
  <1>5. Pending(e, m)'
    BY <1>1, <1>2, <1>4, PendingNext
  <1>6. \A k \in m + 2 .. pos' - 1 : Type(k) # "RBRACE"
    <2>1. \A k \in m + 2 .. pos' - 1 : k \in m + 2 .. q - 1 \/ k = q
      BY <1>1, <1>2
    <2> QED
      BY <1>1, <1>4, <2>1
  <1>7. Mark(e, m)'
    BY <1>1, <1>2, <1>4, <1>5, <1>6, MarkArray
  <1>8. InBraces(e, q)
    <2>1. m + 2 \in LineOf(e)
      <3>1. m \in LineOf(e) /\ \A d \in Ends : d \in Nat
        BY <1>4, EndsType DEF Given
      <3> QED
        BY <1>2, <1>4, <3>1 DEF LineOf
    <2> QED
      BY <1>4, <2>1 DEF InBraces
  <1>9. Counted(e, arguments_number, q + 1)
    BY <1>2, <1>8, MarkMoves
  <1>10. ArgumentsRead(e)'
    BY <1>1, <1>3, <1>7, <1>9, ArgumentsNext
  <1> QED
    BY <1>1, <1>2, <1>10, NamedOn

LEMMA LineCloseArray ==
    ASSUME TypeOK, UNCHANGED file, NEW e \in Nat, Reading(e), LineRead(e),
           pos \in LineOf(e), CloseArray, state = "EXPECT_ARGN"
    PROVE  LineRead(e)'
  <1> PICK q, v : q = pos /\ v = [type |-> "ARRAY", text |-> NoText, body |-> array]
    OBVIOUS
  <1>1. /\ loc = "array" /\ state' = "EXPECT_ARGN" /\ loc' = "parse"
        /\ Type(q) = "RBRACE" /\ pos' = q + 1
        /\ arguments' = [arguments EXCEPT ![index] = v]
        /\ UNCHANGED <<rule_action, syscall_name, arguments_number>>
    BY DEF CloseArray, InArray, Token, Type
  <1>2. Named /\ Named' /\ q \in Nat
    BY <1>1 DEF Named, TypeOK
  <1>3. PICK m \in Nat : Mark(e, m) /\ \A p \in Positions : Holds(arguments, e, p, m)
    BY <1>2, NamedLine
  <1>4. m + 2 < q /\ Type(m + 2) = "LBRACE"
    BY <1>1, <1>3 DEF Mark
  <1>5. v.type = ValueAt(m).type /\ v.text = ValueAt(m).text
    BY <1>4 DEF ValueAt
  <1> PICK args : args = [arguments EXCEPT ![index] = v]
    OBVIOUS
  <1>6. \A p \in Positions : Holds(args, e, p, q + 1)
    <2>1. Type(pos) # "OPERATOR" /\ m + 2 <= pos /\ q + 1 = pos + 1
      BY <1>1, <1>2, <1>4
    <2>2. \A p \in Positions : Holds([arguments EXCEPT ![index] = v], e, p, pos + 1)
      BY <1>3, <1>5, <2>1, ValueHolds
    <2> QED
      BY <2>2
  <1>7. ~InBraces(e, q + 1)
    BY <1>1, BracesStep
  <1>8. Mark(e, q + 1)'
    BY <1>1, <1>7, MarkPlain
  <1>9. Counted(e, arguments_number, q + 1)
    BY <1>1, <1>2, MarkMoves
  <1>10. ArgumentsRead(e)'
    <2>1. q + 1 \in Nat /\ arguments' = args
      BY <1>1, <1>2
    <2> QED
      BY <1>1, <1>6, <1>8, <1>9, <2>1, ArgumentsNext
  <1> QED
    BY <1>1, <1>2, <1>10, NamedOn

\* In a line that is a rule separators are passed over only between arguments.
LEMMA LineIgnore ==
    ASSUME TypeOK, UNCHANGED file, NEW e \in Nat, Reading(e), LineRead(e), WellFormed(e),
           pos \in LineOf(e), Ignore
    PROVE  LineRead(e)'
  <1> PICK q, args : q = pos /\ args = arguments
    OBVIOUS
  <1>1. /\ loc = "parse" /\ loc' = "parse" /\ Type(q) \in Ignored /\ pos' = q + 1 /\ arguments' = args
        /\ UNCHANGED <<state, rule_action, syscall_name, arguments_number>>
    BY DEF Ignore, Skip, Token, Type
  <1>2. Type(q) \notin {"OPERATOR", "NUMBER", "STRING", "REGEX", "LBRACE"}
    BY <1>1 DEF Ignored
  <1>3. Named /\ Named' /\ q \in Nat
    <2>1. state # "EXPECT_ACTION" /\ state # "EXPECT_NAME"
      BY <1>2, WellBegun DEF LineRead
    <2> QED
      BY <1>1, <2>1 DEF Named, TypeOK
  <1>4. PICK m \in Nat : Mark(e, m) /\ \A p \in Positions : Holds(args, e, p, m)
    BY <1>3, NamedLine
  <1>5. state # "EXPECT_VALUE"
    <2> SUFFICES ASSUME state = "EXPECT_VALUE" PROVE FALSE
      OBVIOUS
    <2>1. m + 2 = q /\ m \in Given(e, index)
      BY <1>4 DEF Mark, Pending
    <2>2. HasValue(m)
      BY <2>1, WellAssigned
    <2> QED
      BY <1>2, <2>1, <2>2 DEF HasValue
  <1>6. m = q /\ ~InBraces(e, q) /\ state' = "EXPECT_ARGN"
    BY <1>1, <1>3, <1>4, <1>5 DEF Mark, Named
  <1>7. ~InBraces(e, q + 1)
    BY <1>2, <1>6, BracesStep
  <1>8. Mark(e, q + 1)'
    BY <1>1, <1>6, <1>7, MarkPlain
  <1>9. ASSUME NEW p \in Positions
        PROVE  Holds(args, e, p, q + 1)
    <2>1. \A i \in Given(e, p) : i \in Nat /\ i # q
      BY <1>2 DEF Given, Assigns, LineOf
    <2>2. \A i \in Given(e, p) : (i < q + 1 <=> i < q) /\ (i >= q + 1 <=> i >= q)
      BY <1>3, <2>1
    <2>3. Holds(args, e, p, q)
      BY <1>4, <1>6
    <2> QED
      BY <2>2, <2>3 DEF Holds
  <1>10. Counted(e, arguments_number, q + 1)
    BY <1>2, <1>3, MarkMoves
  <1>11. q + 1 \in Nat
    BY <1>3
  <1>12. ArgumentsRead(e)'
    BY <1>1, <1>8, <1>9, <1>10, <1>11, ArgumentsNext
  <1> QED
    BY <1>1, <1>3, <1>12, NamedOn

-----------------------------------------------------------------------------
(***************************************************************************)
(* The parser, step by step.                                               *)
(***************************************************************************)

\* Behind a token that ends no line no line begins.
LEMMA NoBeginning ==
    ASSUME UNCHANGED file, NEW q \in Nat, q >= 1, pos' = q + 1, Type(q) # "ENDL"
    PROVE  pos' # 1 /\ Type(pos - 1)' # "ENDL"
  <1>1. pos' - 1 = q /\ pos' # 1
    OBVIOUS
  <1>2. Type(pos - 1)' = Type(q)
    BY <1>1 DEF Type, TokenAt
  <1> QED
    BY <1>1, <1>2

LEMMA EmptiedStep ==
    ASSUME TypeOK, Control, Emptied, [Next]_vars
    PROVE  Emptied'
  <1>f. UNCHANGED file
    BY FileKept
  <1>1. CASE UNCHANGED vars \/ Stopped
    <2>1. UNCHANGED <<file, pos, loc, state, arguments, arguments_number, rule_action>>
      BY <1>1 DEF vars, parserVars, Stopped
    <2> QED
      BY <2>1 DEF Emptied, Parsing, Named, Type, TokenAt
  <1>2. CASE Start
    <2>1. /\ loc = "start" /\ loc' # "start"
          /\ UNCHANGED <<file, pos, state, arguments, arguments_number, rule_action>>
      BY <1>2 DEF parserVars, Start
    <2> QED
      BY <2>1 DEF Emptied, Parsing, Named, Type, TokenAt
  <1>3. CASE \/ Parsed \/ Run \/ RunFails \/ Clean \/ CleanFails \/ Exit
             \/ RefuseLine \/ EndLineDangling \/ EndLineCrashes \/ RefuseOperator \/ RefuseValue
             \/ RefuseArray \/ ArrayCrashes \/ RefuseToken \/ EndOfFile
    <2>1. CASE Parsed \/ Run \/ RunFails \/ Clean \/ CleanFails \/ Exit
      <3>1. pos' = pos /\ loc' \notin {"start", "parse", "array"}
        BY <2>1 DEF Parsed, Run, RunFails, Clean, CleanFails, Exit, Crash, parserVars
      <3> QED
        BY <3>1 DEF Emptied, Parsing
    <2>2. CASE \/ RefuseLine \/ EndLineDangling \/ EndLineCrashes \/ RefuseOperator \/ RefuseValue
               \/ RefuseArray \/ ArrayCrashes \/ RefuseToken \/ EndOfFile
      <3>1. pos' = pos /\ loc' \in {"parsed", "crashed"}
        BY <2>2 DEF RefuseLine, EndLineDangling, EndLineCrashes, RefuseOperator, RefuseValue,
                    RefuseArray, ArrayCrashes, RefuseToken, EndOfFile, Crash, Fail, Return, parserVars
      <3> QED
        BY <3>1 DEF Emptied, Parsing
    <2> QED
      BY <1>3, <2>1, <2>2
  <1>4. CASE EndLine
    <2>1. /\ loc = "parse"
          /\ \/ /\ rule_action' = "NONE_ACTION" /\ state' = "EXPECT_ACTION"
                /\ arguments_number' = 0 /\ arguments' = NoArguments
                /\ pos' = pos + 1 /\ loc' = loc
             \/ loc' = "parsed" /\ pos' = pos
      BY <1>4 DEF EndLine, At, Reset
    <2>2. pos \in Nat
      BY DEF TypeOK
    <2> QED
      BY <2>1, <2>2 DEF Emptied, Parsing, NoArguments, Positions
  <1>5. CASE SkipLine
    <2>1. /\ loc = "parse" /\ loc' = "parse" /\ state = "EXPECT_ACTION" /\ pos' = pos + 1
          /\ UNCHANGED <<state, arguments, arguments_number, rule_action>>
      BY <1>5 DEF SkipLine, At, BlankLine
    <2>2. pos \in Nat
      BY DEF TypeOK
    <2> QED
      BY <2>1, <2>2 DEF Emptied, Parsing, Named, NoArguments, Positions
  <1>6. CASE ReadAction \/ ReadName \/ ReadArgument \/ ReadValue \/ OpenArray
    <2>1. /\ loc = "parse" /\ state' # "EXPECT_ACTION"
          /\ \/ pos' = pos + 1 /\ Type(pos) # "ENDL"
             \/ pos' = pos + 2 /\ Type(pos + 1) # "ENDL"
          /\ loc' # "start"
      BY <1>6 DEF ReadAction, ReadName, ReadArgument, ReadValue, OpenArray, At, Token, Type
    <2>2. ~Named' => state = "EXPECT_ACTION" /\ UNCHANGED <<arguments, arguments_number>>
      BY <1>6 DEF ReadAction, ReadName, ReadArgument, ReadValue, OpenArray, Named
    <2>3. pos' >= 1 /\ pos' # 1 /\ Type(pos - 1)' # "ENDL"
      <3>1. pos \in Nat /\ pos >= 1 /\ (pos + 1) + 1 = pos + 2
        BY DEF Emptied, TypeOK
      <3> PICK q : q = pos
        OBVIOUS
      <3>2. CASE pos' = q + 1
        BY <1>f, <2>1, <3>1, <3>2, NoBeginning
      <3>3. CASE pos' = (q + 1) + 1
        <4>1. Type(q + 1) # "ENDL" /\ q + 1 \in Nat /\ q + 1 >= 1
          BY <2>1, <3>1, <3>3
        <4> QED
          BY <1>f, <3>1, <3>3, <4>1, NoBeginning
      <3> QED
        BY <2>1, <3>1, <3>2, <3>3
    <2>4. ~Named' => arguments' = NoArguments /\ arguments_number' = 0
      BY <2>1, <2>2 DEF Emptied, Parsing, Named
    <2> QED
      BY <2>1, <2>3, <2>4 DEF Emptied, NoArguments, Positions
  <1>7. CASE ArrayElement \/ SkipComma \/ CloseArray
    <2>1. loc = "array" /\ state' = state /\ pos' = pos + 1 /\ Type(pos) # "ENDL" /\ loc' # "start"
      BY <1>7 DEF ArrayElement, SkipComma, CloseArray, InArray, Token, Type, WithBody
    <2>2. pos \in Nat /\ pos >= 1 /\ state' = "EXPECT_ARGN"
      BY <2>1 DEF Emptied, Control, TypeOK
    <2>3. pos' >= 1 /\ pos' # 1 /\ Type(pos - 1)' # "ENDL"
      BY <1>f, <2>1, <2>2, NoBeginning
    <2> QED
      BY <2>1, <2>2, <2>3 DEF Emptied, Named
  <1>8. CASE Ignore
    <2>1. /\ loc = "parse" /\ pos' = pos + 1 /\ Type(pos) # "ENDL" /\ loc' # "start"
          /\ UNCHANGED <<state, arguments, arguments_number, rule_action>>
      BY <1>8 DEF Ignore, Skip, Ignored, Token, Type
    <2>2. pos \in Nat /\ pos >= 1
      BY DEF Emptied, TypeOK
    <2>3. pos' >= 1 /\ pos' # 1 /\ Type(pos - 1)' # "ENDL"
      BY <1>f, <2>1, <2>2, NoBeginning
    <2> QED
      BY <2>1, <2>3 DEF Emptied, Parsing, Named, NoArguments, Positions
  <1> QED
    BY <1>1, <1>2, <1>3, <1>4, <1>5, <1>6, <1>7, <1>8 DEF Next, Parse

\* A line begins: nothing of it has been read.
Begun == pos = 1 \/ Type(pos - 1) = "ENDL"
AtBeginning ==
    TypeOK /\ pos >= 1 /\ Begun =>
        \A e : Reading(e) /\ LineOf(e) # {} =>
                 First(e) = pos /\ First(e) \in LineOf(e) /\ ~InBraces(e, pos)

LEMMA Beginning == AtBeginning
  BY LineBegins DEF AtBeginning, Begun

LEMMA NextBeginning == AtBeginning'
  BY Beginning, PTL

LEMMA LineIsBegun ==
    ASSUME UNCHANGED file, TypeOK', Emptied', NEW e, Reading(e)', WellFormed(e),
           Parsing', Begun'
    PROVE  LineRead(e)'
  <1>1. LineOf(e)' # {}
    BY WellBegun, LinesStand
  <1>2. (First(e) = pos /\ First(e) \in LineOf(e) /\ ~InBraces(e, pos))'
    BY <1>1, NextBeginning DEF AtBeginning, Emptied
  <1>3. state' = "EXPECT_ACTION"
    BY DEF Emptied, Begun
  <1> QED
    BY <1>2, <1>3 DEF LineRead, Named

LEMMA LinesStep ==
    ASSUME TypeOK, Control, Emptied, LinesRead, [Next]_vars
    PROVE  LinesRead'
  <1>f. UNCHANGED file /\ TypeOK' /\ Emptied' /\ pos \in Nat /\ pos >= 1
    BY FileKept, TypeStep, EmptiedStep DEF TypeOK, Emptied
  <1> SUFFICES ASSUME Parsing', NEW e, Reading(e)', WellFormed(e)
               PROVE  LineRead(e)'
    BY <1>f, LinesStand DEF LinesRead
  <1>w. ASSUME Parsing, Reading(e)
        PROVE  LineRead(e)
    BY <1>w DEF LinesRead, Reading
  <1>1. CASE UNCHANGED vars \/ Stopped
    <2>1. UNCHANGED <<file, pos, loc, state, rule_action, syscall_name, arguments, arguments_number, index>>
      BY <1>1 DEF vars, parserVars, Stopped
    <2>2. Parsing /\ Reading(e)
      BY <2>1, LinesStand DEF Parsing, Reading
    <2>3. LineRead(e)
      BY <2>2, <1>w
    <2>4. \A i : InBraces(e, i)' <=> InBraces(e, i)
      BY <2>1, LinesStand
    <2> PICK q, args, n : q = pos /\ args = arguments /\ n = index
      OBVIOUS
    <2>5. CASE Named
      <3>1. PICK m \in Nat : Mark(e, m) /\ \A p \in Positions : Holds(args, e, p, m)
        BY <2>3, <2>5 DEF LineRead, ArgumentsRead
      <3>2. Mark(e, m)'
        BY <2>1, <3>1, LinesStand DEF Mark, Pending, InBraces, Given, Assigns
      <3>3. ArgumentsRead(e)'
        BY <2>1, <2>3, <2>5, <3>1, <3>2, ArgumentsNext DEF LineRead, ArgumentsRead
      <3>4. Named'
        BY <2>1, <2>5 DEF Named
      <3> QED
        BY <1>f, <2>1, <2>3, <2>5, <3>3, <3>4, NamedOn
    <2>6. CASE ~Named
      <3>1. state \in {"EXPECT_ACTION", "EXPECT_NAME"} /\ ~Named'
        BY <2>1, <2>6 DEF Named, TypeOK
      <3>2. ~InBraces(e, q) /\ First(e) \in LineOf(e)
        BY <2>3, <2>6 DEF LineRead
      <3>3. ~InBraces(e, pos)'
        BY <2>1, <3>2, LinesStand DEF InBraces
      <3>4. First(e)' = First(e) /\ LineOf(e)' = LineOf(e)
        BY <2>1, LinesStand
      <3>5. Text(First(e))' = Text(First(e))
        BY <2>1, <3>4 DEF Text, TokenAt
      <3> QED
        BY <2>1, <2>3, <3>1, <3>2, <3>3, <3>4, <3>5 DEF LineRead, ActionFor
    <2> QED
      BY <2>5, <2>6
  <1>2. CASE Start
    <2>1. loc = "start" /\ pos' = pos
      BY <1>2 DEF Start, parserVars
    <2>2. Begun'
      BY <2>1 DEF Emptied, Begun
    <2> QED
      BY <1>f, <2>2, LineIsBegun
  <1>3. CASE Parsed \/ Run \/ RunFails \/ Clean \/ CleanFails \/ Exit
    <2>1. loc' \notin {"start", "parse", "array"}
      BY <1>3 DEF Parsed, Run, RunFails, Clean, CleanFails, Exit, Crash, parserVars
    <2> QED
      BY <2>1 DEF Parsing
  <1>4. CASE \/ RefuseLine \/ EndLineDangling \/ EndLineCrashes \/ RefuseOperator \/ RefuseValue
             \/ RefuseArray \/ ArrayCrashes \/ RefuseToken \/ EndOfFile
    <2>1. loc' \in {"parsed", "crashed"}
      BY <1>4 DEF RefuseLine, EndLineDangling, EndLineCrashes, RefuseOperator, RefuseValue,
                  RefuseArray, ArrayCrashes, RefuseToken, EndOfFile, Crash, Fail, Return, parserVars
    <2> QED
      BY <2>1 DEF Parsing
  <1>5. CASE EndLine \/ SkipLine
    <2>1. Type(pos) = "ENDL" /\ (pos' = pos + 1 \/ loc' = "parsed")
      BY <1>5 DEF EndLine, SkipLine, At, Token, Type
    <2> PICK q : q = pos
      OBVIOUS
    <2>2. pos' = q + 1 /\ (q + 1) - 1 = q /\ Type(q)' = "ENDL"
      BY <1>f, <2>1, LinesStand DEF Parsing
    <2>3. Begun'
      BY <2>2 DEF Begun, Type, TokenAt
    <2> QED
      BY <1>f, <2>3, LineIsBegun
  <1>6. CASE ReadAction
    <2>1. pos' = pos + 2 /\ Type(pos) # "ENDL" /\ Type(pos + 1) # "ENDL" /\ loc = "parse"
      BY <1>6 DEF ReadAction, At, Token, Type
    <2> QED
      BY <1>f, <1>w, <1>6, <2>1, StillReading, LineReadAction DEF Parsing
  <1>7. CASE ReadArgument
    <2>1. pos' = pos + 2 /\ Type(pos) # "ENDL" /\ Type(pos + 1) # "ENDL" /\ loc = "parse"
      BY <1>7 DEF ReadArgument, At, Token, Type
    <2> QED
      BY <1>f, <1>w, <1>7, <2>1, StillReading, LineReadArgument DEF Parsing
  <1>8. CASE \/ ReadName \/ ReadValue \/ OpenArray \/ ArrayElement \/ SkipComma \/ CloseArray \/ Ignore
    <2>1. pos' = pos + 1 /\ Type(pos) # "ENDL" /\ Parsing
      BY <1>8 DEF ReadName, ReadValue, OpenArray, ArrayElement, SkipComma, CloseArray, Ignore, Skip,
                  At, InArray, Token, Type, WithBody, Ignored, Parsing
    <2>2. Reading(e) /\ e \in Nat /\ pos \in LineOf(e)
      BY <1>f, <2>1, StillReading
    <2>3. LineRead(e)
      BY <1>w, <2>1, <2>2
    <2>4. ArrayElement \/ SkipComma \/ CloseArray => state = "EXPECT_ARGN"
      BY DEF ArrayElement, SkipComma, CloseArray, InArray, Control
    <2> QED
      BY <1>f, <1>8, <2>2, <2>3, <2>4, LineReadName, LineReadValue, LineOpenArray, LineInArray,
         LineCloseArray, LineIgnore
  <1> QED
    BY <1>1, <1>2, <1>3, <1>4, <1>5, <1>6, <1>7, <1>8 DEF Next, Parse

-----------------------------------------------------------------------------
(***************************************************************************)
(* The end of a line.                                                      *)
(***************************************************************************)

\* A rule at whose end the parser is has been read, with all its assignments.
LEMMA LineAtEnd ==
    ASSUME TypeOK, At("ENDL"), WellFormed(pos), LineRead(pos)
    PROVE  /\ rule_action = ActionFor(Text(First(pos)))
           /\ NumberOf[syscall_name.text] = RowOf(pos)
           /\ \A p \in Positions : Holds(arguments, pos, p, pos)
           /\ \A p \in Positions : Given(pos, p) # {} => p < arguments_number
           /\ arguments_number # 0 => \E p \in Positions : Given(pos, p) # {}
  <1>1. Type(pos) = "ENDL" /\ loc = "parse" /\ pos \in Nat
    BY DEF At, Token, Type, TypeOK
  <1>2. Named
    <2>1. state # "EXPECT_ACTION"
      <3>1. pos \notin LineOf(pos)
        BY <1>1 DEF LineOf
      <3> QED
        BY <3>1 DEF LineRead
    <2>2. state # "EXPECT_NAME"
      BY <1>1, WellBegun DEF LineRead
    <2> QED
      BY <2>1, <2>2 DEF Named, TypeOK
  <1>3. PICK m \in Nat : Mark(pos, m) /\ \A p \in Positions : Holds(arguments, pos, p, m)
    BY <1>1, <1>2, NamedLine
  <1>4. m = pos
    <2>1. ASSUME m + 2 = pos, Pending(pos, m)
          PROVE  FALSE
      <3>1. HasValue(m)
        BY <2>1, WellAssigned DEF Pending
      <3> QED
        BY <1>1, <2>1, <3>1 DEF HasValue
    <2> QED
      BY <1>1, <1>3, <2>1 DEF Mark
  <1>5. Counted(pos, arguments_number, pos)
    BY <1>1, <1>2, NamedLine
  <1>6. \A p \in Positions : \A i \in Given(pos, p) : i < pos
    BY <1>1 DEF Given, LineOf
  <1>7. /\ \A p \in Positions : Given(pos, p) # {} => p < arguments_number
        /\ arguments_number # 0 => \E p \in Positions : Given(pos, p) # {}
    BY <1>5, <1>6 DEF Counted
  <1> QED
    BY <1>2, <1>3, <1>4, <1>7 DEF LineRead, RowOf

\* The arguments of a whole line, copied to the end, are the rule it says.
LEMMA CopiesAsWritten ==
    ASSUME TypeOK, BodiesGiven, At("ENDL"), RowOf(pos) \in Syscalls,
           \A p \in Positions : Holds(arguments, pos, p, pos),
           \A p \in Positions : Given(pos, p) # {} => p < arguments_number,
           Stops(RowOf(pos), arguments, arguments_number) = {}, NEW p \in Positions
    PROVE  LET c == Installed(RowOf(pos), arguments, arguments_number)[p]
           IN  IF Given(pos, p) = {} THEN c.text = NoText /\ c.body = NoBlock
               ELSE Says(pos, p, c)
  <1> PICK s, a, t, c : /\ s = RowOf(pos) /\ a = arguments[p] /\ t = ArgTypes[s][p]
                        /\ c = Installed(s, arguments, arguments_number)[p]
    OBVIOUS
  <1>1. /\ pos \in Nat /\ \A i \in Given(pos, p) : i \in Nat /\ i < pos
        /\ p \in Nat /\ arguments_number \in Nat
    BY RuleTableAssumption DEF TypeOK, Given, LineOf, Positions
  <1>2. Holds(arguments, pos, p, pos)
    OBVIOUS
  <1>3. p < arguments_number => c = Copied(t, a)
    BY DEF Installed, Reached
  <1>4. CASE Given(pos, p) = {}
    <2>1. a = NoArguments[p]
      BY <1>2, <1>4 DEF Holds
    <2>2. Copied(t, a) = Raw
      BY <2>1 DEF NoArguments, Copied
    <2>3. c \in {Raw, None}
      BY <1>1, <1>3, <2>2 DEF Installed, Reached
    <2> QED
      BY <1>4, <2>3 DEF Raw, None, Cell
  <1>5. CASE Given(pos, p) # {}
    <2>1. PICK i \in Given(pos, p) : /\ \A j \in Given(pos, p) : j <= i
                                     /\ a.type = ValueAt(i).type /\ a.text = ValueAt(i).text
      BY <1>1, <1>2, <1>5 DEF Holds
    <2>2. \A j \in Given(pos, p) : (\A k \in Given(pos, p) : k <= j) => j = i
      BY <1>1, <2>1
    <2>3. LastFor(pos, p) = i
      BY <2>1, <2>2 DEF LastFor
    <2> PICK v : v = ValueFor(pos, p)
      OBVIOUS
    <2>4. a.type = v.type /\ a.text = v.text
      BY <2>1, <2>3 DEF ValueFor
    <2>5. v.type # "NONE"
      BY <2>3 DEF ValueFor, ValueAt, ArgumentTypeOf
    <2>6. a.body # NoBlock
      BY <2>4, <2>5 DEF BodiesGiven, Parsing, At
    <2>7. c = Copied(t, a)
      BY <1>3, <1>5
    <2>8. CASE t = "NONE"
      BY <2>4, <2>5, <2>7, <2>8 DEF Copied, None, Cell, Says
    <2>9. CASE t \in Numeric \cup {"ADDRESS"}
      BY <2>4, <2>5, <2>7, <2>9 DEF Copied, Cell, Says, Numeric, ReadsAsType
    <2>10. CASE t \notin Numeric \cup {"NONE", "ADDRESS"}
      <3>1. c = a
        BY <2>4, <2>5, <2>7, <2>10 DEF Copied
      <3> QED
        BY <2>4, <2>6, <2>10, <3>1 DEF Says
    <2>11. Says(pos, p, c)
      BY <2>8, <2>9, <2>10
    <2> QED
      BY <1>5, <2>11
  <1> QED
    BY <1>4, <1>5

-----------------------------------------------------------------------------
(***************************************************************************)
(* The table, step by step.                                                *)
(***************************************************************************)

\* What a rule's cells are to be for the line that ends at e.
Written(e, r) ==
    /\ r.kind = "EMPTY" <=> \A p \in Positions : Given(e, p) = {}
    /\ \A p \in Positions :
         IF Given(e, p) = {} THEN r.cells[p].text = NoText /\ r.cells[p].body = NoBlock
         ELSE p < r.len /\ Says(e, p, r.cells[p])

\* What is said of the next state's lines, said of this state's file.
LEMMA LinesNext ==
    ASSUME UNCHANGED file
    PROVE  /\ \A s : LinesOf(s)' = {e \in Complete' : WellFormed(e) /\ RowOf(e) = s}
           /\ GoodFile' <=> \A e \in Complete' : LineOf(e) = {} \/ WellFormed(e)
           /\ \A s, e : AsWritten(s, e)' <=>
                action'[s] = ActionFor(Text(First(e))) /\ Written(e, rules'[s])
  <1>1. \A s : LinesOf(s)' = {e \in Complete' : WellFormed(e) /\ RowOf(e) = s}
    BY LinesStand DEF LinesOf
  <1>2. GoodFile' <=> \A e \in Complete' : LineOf(e) = {} \/ WellFormed(e)
    BY LinesStand DEF GoodFile
  <1>3. ASSUME NEW s, NEW e
        PROVE  AsWritten(s, e)' <=>
                 action'[s] = ActionFor(Text(First(e))) /\ Written(e, rules'[s])
    <2>1. First(e)' = First(e)
      BY LinesStand
    <2>2. Text(First(e))' = Text(First(e))
      BY <2>1 DEF Text, TokenAt
    <2>3. ActionFor(Text(First(e)))' = ActionFor(Text(First(e)))
      BY <2>2 DEF ActionFor
    <2>4. ASSUME NEW p
          PROVE  Says(e, p, rules[s].cells[p])' <=> Says(e, p, rules'[s].cells[p])
      BY DEF Says, ValueFor, ValueAt, LastFor, Given, Type, Text, TokenAt, First, LineOf, Ends,
             Assigns, InBraces, RowOf
    <2>5. \A p : Given(e, p)' = Given(e, p)
      BY LinesStand
    <2> QED
      BY <2>3, <2>4, <2>5 DEF AsWritten, Written, Positions
  <1> QED
    BY <1>1, <1>2, <1>3

\* A rule that is the first line read for its row.
LEMMA LoadedNext ==
    ASSUME UNCHANGED file, NEW s, NEW e \in Complete', WellFormed(e), RowOf(e) = s,
           \A d \in Complete' : WellFormed(d) /\ RowOf(d) = s => e <= d,
           rules'[s].kind # "NULL", action'[s] = ActionFor(Text(First(e))), Written(e, rules'[s])
    PROVE  Loaded(s)'
  <1>1. AsWritten(s, e)'
    BY LinesNext
  <1>2. FirstOf(s, e)'
    BY LinesNext DEF FirstOf
  <1>3. e \in LinesOf(s)'
    BY LinesNext
  <1> QED
    BY <1>1, <1>2, <1>3 DEF Loaded

LEMMA WrittenNow ==
    ASSUME NEW s, NEW e
    PROVE  AsWritten(s, e) <=> action[s] = ActionFor(Text(First(e))) /\ Written(e, rules[s])
  BY DEF AsWritten, Written

\* A row whose rule and lines stand.
LEMMA LoadedStands ==
    ASSUME UNCHANGED file, NEW s, LinesOf(s)' = LinesOf(s),
           rules'[s] = rules[s], action'[s] = action[s], Loaded(s)
    PROVE  Loaded(s)'
  <1>1. CASE LinesOf(s) = {} /\ rules[s].kind = "NULL"
    BY <1>1 DEF Loaded
  <1>2. CASE rules[s].kind # "NULL" /\ \E e \in LinesOf(s) : FirstOf(s, e) /\ AsWritten(s, e)
    <2>1. PICK e \in LinesOf(s) : FirstOf(s, e) /\ AsWritten(s, e)
      BY <1>2
    <2>2. AsWritten(s, e)'
      BY <2>1, WrittenNow, LinesNext
    <2>3. FirstOf(s, e)'
      BY <2>1 DEF FirstOf
    <2> QED
      BY <1>2, <2>1, <2>2, <2>3 DEF Loaded
  <1> QED
    BY <1>1, <1>2 DEF Loaded

LEMMA TableStands ==
    ASSUME UNCHANGED <<file, rules, action>>, Complete' = Complete, Enforced, TableRead
    PROVE  TableRead'
  <1>1. GoodFile' => GoodFile
    BY LinesNext DEF GoodFile
  <1>2. \A s : LinesOf(s)' = LinesOf(s)
    BY LinesNext DEF LinesOf
  <1> QED
    BY <1>1, <1>2, LoadedStands DEF TableRead

LEMMA CompleteStands ==
    ASSUME TypeOK, UNCHANGED file,
           \/ pos' = pos
           \/ pos' = pos + 1 /\ Type(pos) # "ENDL"
           \/ pos' = pos + 2 /\ Type(pos) # "ENDL" /\ Type(pos + 1) # "ENDL"
    PROVE  Complete' = Complete
  <1>1. /\ pos \in Nat /\ \A d \in Ends : d \in Nat
        /\ \A d \in Ends : Type(d) = "ENDL"
        /\ Ends' = Ends
    BY EndsType, LinesStand DEF TypeOK, Ends, Type, TokenAt
  <1>2. \A d \in Ends : d < pos' <=> d < pos
    BY <1>1
  <1> QED
    BY <1>1, <1>2 DEF Complete

LEMMA CompleteGrows ==
    ASSUME TypeOK, UNCHANGED file, Type(pos) = "ENDL", pos' = pos + 1
    PROVE  /\ pos \in Ends /\ Complete' = Complete \cup {pos}
           /\ \A e \in Complete : e \in Nat /\ e < pos
  <1>1. /\ pos \in Nat /\ \A d \in Ends : d \in Nat
        /\ pos \in Ends /\ Ends' = Ends
    BY EndsType, LinesStand DEF TypeOK, Ends, Type, TokenAt
  <1>2. \A d \in Ends : d < pos' <=> d < pos \/ d = pos
    BY <1>1
  <1> QED
    BY <1>1, <1>2 DEF Complete

\* Where a line without tokens ends nothing has been read.
LEMMA NoLine ==
    ASSUME TypeOK, Emptied, Parsing, LineOf(pos) = {}
    PROVE  BlankLine
  <1>1. pos \in Nat /\ pos >= 1 /\ \A d \in Ends : d \in Nat /\ Type(d) = "ENDL"
    BY EndsType DEF TypeOK, Emptied, Ends, Type, TokenAt
  <1>2. pos = 1 \/ Type(pos - 1) = "ENDL"
    <2> SUFFICES ASSUME pos > 1 PROVE pos - 1 \in Ends
      BY <1>1
    <2>1. pos - 1 \in 1 .. pos - 1
      BY <1>1
    <2>2. PICK d \in Ends : d < pos /\ ~(d < pos - 1)
      BY <2>1 DEF LineOf
    <2>3. d = pos - 1
      BY <1>1, <2>2
    <2> QED
      BY <2>3
  <1> QED
    BY <1>2 DEF Emptied, BlankLine

\* A line that is refused refuses the run.
LEMMA LineTable ==
    ASSUME TypeOK, BodiesGiven, Emptied, LinesRead, TableRead, UNCHANGED file, EndLine, Enforced'
    PROVE  TableRead'
  <1>1. PICK result \in {"ok", "err"} :
          /\ SetRules(syscall_name.text, arguments, arguments_number, rule_action, result,
                      IF result = "ok" THEN {syscall_name.body} ELSE {})
          /\ LineStatus(result)
          /\ IF st' = EXIT_SUCCESS_
               THEN /\ rule_action' = "NONE_ACTION" /\ state' = "EXPECT_ACTION" /\ index' = 0
                    /\ Reset
                    /\ pos' = pos + 1
                    /\ UNCHANGED <<loc, returned>>
               ELSE /\ returned' = st' /\ loc' = "parsed"
                    /\ UNCHANGED <<pos, state, rule_action, arguments, arguments_number, index>>
    BY DEF EndLine
  <1>2. /\ At("ENDL") /\ Type(pos) = "ENDL" /\ Parsing /\ ~BlankLine /\ Enforced
        /\ syscall_name.text \in Texts /\ pos \in Nat
    BY DEF EndLine, NamelessLine, At, Token, Type, Parsing, Enforced, TypeOK, NoName
  <1>3. result = "ok" /\ pos' = pos + 1
    BY <1>1 DEF LineStatus, EXIT_SUCCESS_, Enforced
  <1>4. /\ pos \in Ends /\ Complete' = Complete \cup {pos}
        /\ \A e \in Complete : e \in Nat /\ e < pos
    BY <1>2, <1>3, CompleteGrows
  <1> SUFFICES ASSUME GoodFile' PROVE \A s \in Syscalls : Loaded(s)'
    BY DEF TableRead
  <1>5. GoodFile /\ WellFormed(pos) /\ \A s \in Syscalls : Loaded(s)
    <2>1. GoodFile /\ (LineOf(pos) = {} \/ WellFormed(pos))
      BY <1>4, LinesNext DEF GoodFile
    <2>2. LineOf(pos) # {}
      BY <1>2, NoLine
    <2> QED
      BY <1>2, <2>1, <2>2 DEF TableRead
  <1>6. LineRead(pos)
    <2>1. Reading(pos)
      BY <1>2, <1>4 DEF Reading
    <2> QED
      BY <1>2, <1>4, <1>5, <2>1 DEF LinesRead
  <1>7. /\ rule_action = ActionFor(Text(First(pos)))
        /\ NumberOf[syscall_name.text] = RowOf(pos)
        /\ \A p \in Positions : Holds(arguments, pos, p, pos)
        /\ \A p \in Positions : Given(pos, p) # {} => p < arguments_number
        /\ arguments_number # 0 => \E p \in Positions : Given(pos, p) # {}
    BY <1>2, <1>5, <1>6, LineAtEnd
  <1> PICK s : s = RowOf(pos)
    OBVIOUS
  <1>8. s \in Syscalls
    BY <1>1, <1>2, <1>3, <1>7, RuleTableAssumption DEF SetRules
  <1>9. ASSUME NEW t \in Syscalls, t # s
        PROVE  LinesOf(t)' = LinesOf(t)
    BY <1>4, <1>9, LinesNext DEF LinesOf
  <1>10. CASE AlreadySet(s)
    <2>1. UNCHANGED <<rules, action>>
      BY <1>1, <1>7, <1>10 DEF SetRules
    <2>2. Loaded(s)'
      <3>1. PICK e \in LinesOf(s) : FirstOf(s, e) /\ AsWritten(s, e)
        BY <1>5, <1>8, <1>10 DEF Loaded, AlreadySet
      <3>2. /\ e \in Complete /\ WellFormed(e) /\ RowOf(e) = s
            /\ \A d \in Complete' : WellFormed(d) /\ RowOf(d) = s => e <= d
        BY <1>2, <1>4, <3>1 DEF FirstOf, LinesOf
      <3>3. action[s] = ActionFor(Text(First(e))) /\ Written(e, rules[s])
        BY <3>1, WrittenNow
      <3> QED
        BY <1>4, <1>10, <2>1, <3>2, <3>3, LoadedNext DEF AlreadySet
    <2> QED
      BY <1>5, <1>9, <2>1, <2>2, LoadedStands
  <1>11. CASE ~AlreadySet(s)
    <2>1. /\ action' = [action EXCEPT ![s] = rule_action]
          /\ \E r : /\ rules' = [rules EXCEPT ![s] = r] /\ r.kind # "NULL"
                    /\ \/ arguments_number = 0 /\ r = EMPTY_RULES
                       \/ /\ r = [kind |-> "LIST", len |-> arguments_number,
                                  cells |-> Installed(s, arguments, arguments_number)]
                          /\ arguments_number # 0 /\ Stops(s, arguments, arguments_number) = {}
      <3>1. result \in Statuses(s, arguments, arguments_number) =>
                Stops(s, arguments, arguments_number) = {}
        BY <1>3 DEF Statuses
      <3>2. EMPTY_RULES.kind # "NULL"
        BY DEF EMPTY_RULES
      <3>3. arguments_number > 0 => arguments_number # 0
        BY RuleTableAssumption DEF TypeOK
      <3> QED
        BY <1>1, <1>7, <1>8, <1>11, <3>1, <3>2, <3>3, RuleTableAssumption DEF SetRules
    <2>2. PICK r : /\ rules' = [rules EXCEPT ![s] = r] /\ r.kind # "NULL"
                   /\ \/ arguments_number = 0 /\ r = EMPTY_RULES
                      \/ /\ r = [kind |-> "LIST", len |-> arguments_number,
                                 cells |-> Installed(s, arguments, arguments_number)]
                         /\ arguments_number # 0 /\ Stops(s, arguments, arguments_number) = {}
      BY <2>1
    <2>3. /\ rules'[s] = r /\ action'[s] = rule_action
          /\ \A t \in Syscalls : t # s => rules'[t] = rules[t] /\ action'[t] = action[t]
      BY <1>8, <2>1, <2>2 DEF TypeOK
    <2>4. LinesOf(s) = {}
      BY <1>5, <1>8, <1>11 DEF Loaded, AlreadySet
    <2>5. \A d \in Complete' : WellFormed(d) /\ RowOf(d) = s => pos <= d
      BY <1>2, <1>4, <2>4 DEF LinesOf
    <2>6. Written(pos, r)
      <3>1. CASE arguments_number = 0 /\ r = EMPTY_RULES
        <4>1. \A p \in Positions : Given(pos, p) = {}
          BY <1>7, <3>1, RuleTableAssumption DEF Positions
        <4>2. \A p \in Positions : r.cells[p].text = NoText /\ r.cells[p].body = NoBlock
          BY <3>1 DEF EMPTY_RULES, NoCells, Raw, Cell
        <4> QED
          BY <3>1, <4>1, <4>2 DEF Written, EMPTY_RULES
      <3>2. CASE /\ r = [kind |-> "LIST", len |-> arguments_number,
                         cells |-> Installed(s, arguments, arguments_number)]
                 /\ arguments_number # 0 /\ Stops(s, arguments, arguments_number) = {}
        <4>1. /\ r.len = arguments_number /\ r.cells = Installed(s, arguments, arguments_number)
              /\ r.kind # "EMPTY" /\ \E p \in Positions : Given(pos, p) # {}
          BY <1>7, <3>2
        <4> SUFFICES ASSUME NEW p \in Positions
                     PROVE  IF Given(pos, p) = {}
                            THEN r.cells[p].text = NoText /\ r.cells[p].body = NoBlock
                            ELSE p < r.len /\ Says(pos, p, r.cells[p])
          BY <4>1 DEF Written
        <4>2. LET c == Installed(s, arguments, arguments_number)[p]
              IN  IF Given(pos, p) = {} THEN c.text = NoText /\ c.body = NoBlock
                  ELSE Says(pos, p, c)
          BY <1>2, <1>7, <1>8, <3>2, CopiesAsWritten
        <4> QED
          BY <1>7, <4>1, <4>2
      <3> QED
        BY <2>2, <3>1, <3>2
    <2>7. Loaded(s)'
      BY <1>4, <1>5, <1>7, <2>2, <2>3, <2>5, <2>6, LoadedNext
    <2> QED
      BY <1>5, <1>9, <2>3, <2>7, LoadedStands
  <1> QED
    BY <1>10, <1>11

LEMMA TableStep ==
    ASSUME TypeOK, Control, BodiesGiven, Emptied, LinesRead, TableRead, [Next]_vars
    PROVE  TableRead'
  <1>f. UNCHANGED file
    BY FileKept
  <1> SUFFICES ASSUME Enforced' PROVE TableRead'
    BY DEF TableRead
  <1>1. CASE EndLine
    BY <1>f, <1>1, LineTable
  <1>2. CASE EndLineDangling
    BY <1>2, LineEnds DEF EndLineDangling, LineStatus, EXIT_SUCCESS_, Enforced
  <1>3. CASE Clean
    BY <1>3 DEF Clean, Enforced
  <1>4. CASE SkipLine
    <2>1. /\ Type(pos) = "ENDL" /\ Parsing /\ Enforced /\ BlankLine /\ pos' = pos + 1
          /\ UNCHANGED <<rules, action>>
      BY <1>4 DEF SkipLine, At, Token, Type, Parsing, Enforced, tableVars
    <2>2. pos \in Ends /\ Complete' = Complete \cup {pos} /\ pos \in Nat
      BY <1>f, <2>1, CompleteGrows DEF TypeOK
    <2>3. ~WellFormed(pos)
      <3> SUFFICES ASSUME WellFormed(pos) PROVE FALSE
        OBVIOUS
      <3>1. LineRead(pos)
        BY <2>1, <2>2 DEF LinesRead, Reading
      <3>2. pos \in LineOf(pos)
        BY <2>1, <3>1 DEF LineRead, BlankLine
      <3> QED
        BY <2>2, <3>2 DEF LineOf
    <2>4. GoodFile' => GoodFile
      BY <1>f, <2>2, LinesNext DEF GoodFile
    <2>5. \A s : LinesOf(s)' = LinesOf(s)
      BY <1>f, <2>2, <2>3, LinesNext DEF LinesOf
    <2> QED
      BY <1>f, <2>1, <2>4, <2>5, LoadedStands DEF TableRead
  <1>5. CASE ~EndLine /\ ~EndLineDangling /\ ~Clean /\ ~SkipLine
    <2>1. UNCHANGED <<rules, action>>
      BY <1>5, Rest
    <2>2. Enforced /\ \/ pos' = pos
                      \/ pos' = pos + 1 /\ Type(pos) # "ENDL"
                      \/ pos' = pos + 2 /\ Type(pos) # "ENDL" /\ Type(pos + 1) # "ENDL"
      <3>1. CASE UNCHANGED vars \/ Stopped
        BY <3>1 DEF vars, parserVars, Stopped, Enforced
      <3>2. CASE Start \/ Parsed \/ Run \/ RunFails \/ CleanFails \/ Exit
        BY <3>2 DEF Start, Parsed, Run, RunFails, CleanFails, Exit, Crash, parserVars, Enforced
      <3>3. CASE RefuseLine \/ EndLineCrashes \/ RefuseOperator \/ RefuseValue \/ RefuseToken \/ EndOfFile
        BY <3>3 DEF RefuseLine, EndLineCrashes, RefuseOperator, RefuseValue, RefuseToken, EndOfFile,
                    Crash, Fail, Return, parserVars, At, Enforced
      <3>4. CASE RefuseArray \/ ArrayCrashes
        BY <3>4 DEF RefuseArray, ArrayCrashes, Crash, Fail, Return, parserVars, Enforced
      <3>5. CASE ReadAction \/ ReadName \/ ReadArgument \/ ReadValue \/ OpenArray
        BY <3>5 DEF ReadAction, ReadName, ReadArgument, ReadValue, OpenArray, At, Token, Type, Enforced
      <3>6. CASE ArrayElement \/ SkipComma \/ CloseArray \/ Ignore
        BY <3>6 DEF ArrayElement, SkipComma, CloseArray, Ignore, Skip, Ignored, InArray, Token, Type,
                    WithBody, Enforced
      <3> QED
        BY <1>5, <3>1, <3>2, <3>3, <3>4, <3>5, <3>6 DEF Next, Parse
    <2>3. Complete' = Complete
      BY <1>f, <2>2, CompleteStands
    <2> QED
      BY <1>f, <2>1, <2>2, <2>3, TableStands
  <1> QED
    BY <1>1, <1>2, <1>3, <1>4, <1>5

-----------------------------------------------------------------------------
LEMMA FirstFile == Init => FInv
  <1> SUFFICES ASSUME Init PROVE FInv
    OBVIOUS
  <1>1. /\ pos = 1 /\ loc = "start" /\ state = "EXPECT_ACTION" /\ rule_action = "NONE_ACTION"
        /\ arguments = NoArguments /\ arguments_number = 0 /\ rules = [s \in Syscalls |-> NULL]
        /\ TypeOK
    BY InitType DEF Init, TableInit, ParserInit
  <1>2. Emptied
    BY <1>1 DEF Emptied
  <1>3. LinesRead
    BY <1>1 DEF LinesRead, Parsing
  <1>4. \A s : LinesOf(s) = {}
    BY <1>1, EndsType DEF LinesOf, Complete
  <1>5. TableRead
    BY <1>1, <1>4 DEF TableRead, Loaded, NULL
  <1> QED
    BY <1>2, <1>3, <1>5 DEF FInv

LEMMA NextFile == IInv /\ FInv /\ [Next]_vars => FInv'
  BY EmptiedStep, LinesStep, TableStep DEF IInv, FInv

\* The first line for a row is the one the property names.
LEMMA FirstLine ==
  ASSUME TypeOK, TableRead, loc = "run", GoodFile, NEW s \in Syscalls, LinesOf(s) # {},
         NEW f, f = CHOOSE e \in LinesOf(s) : \A d \in LinesOf(s) : e <= d
  PROVE  f \in LinesOf(s) /\ rules[s].kind # "NULL" /\ AsWritten(s, f)
  <1>1. Loaded(s)
    BY DEF TableRead, Enforced
  <1>2. PICK g \in LinesOf(s) : FirstOf(s, g) /\ AsWritten(s, g)
    BY <1>1 DEF Loaded
  <1>3. \A e \in LinesOf(s) : e \in Nat
    BY EndsType DEF LinesOf, Complete
  <1>4. \A e \in LinesOf(s) : (\A d \in LinesOf(s) : e <= d) => e = g
    BY <1>2, <1>3 DEF FirstOf
  <1>5. f = g
    BY <1>2, <1>4 DEF FirstOf
  <1> QED
    BY <1>1, <1>2, <1>5 DEF Loaded

LEMMA FileWritten == TypeOK /\ FInv => LoadedAsWritten
  <1> SUFFICES ASSUME TypeOK, TableRead, loc = "run", GoodFile, NEW s \in Syscalls
               PROVE  IF LinesOf(s) = {} THEN rules[s].kind = "NULL"
                      ELSE /\ rules[s].kind # "NULL"
                           /\ AsWritten(s, CHOOSE e \in LinesOf(s) : \A d \in LinesOf(s) : e <= d)
    BY DEF FInv, LoadedAsWritten
  <1>1. CASE LinesOf(s) = {}
    BY <1>1 DEF TableRead, Enforced, Loaded
  <1>2. CASE LinesOf(s) # {}
    BY <1>2, FirstLine
  <1> QED
    BY <1>1, <1>2

LEMMA FileInvariance == Spec => []FInv
  <1>1. Spec => []IInv
    BY Invariance
  <1> QED
    BY FirstFile, NextFile, <1>1, PTL DEF Spec

\* When the program runs under the rules of a file whose lines are rules, the
\* rule of every call is what the first line about it says, and calls without a
\* line have none (parse_rules_from_file and set_rules_for_syscall_name).
THEOREM RulesAsWritten == Spec => []LoadedAsWritten
  BY FileInvariance, TypeCorrect, FileWritten, PTL

=============================================================================
