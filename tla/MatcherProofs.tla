---------------------------- MODULE MatcherProofs ----------------------------
(***************************************************************************)
(* Proofs about Matcher: what the supervisor acts on agrees with the line  *)
(* of the rules file, for every table of system calls, every line and      *)
(* every call.                                                             *)
(*                                                                         *)
(* The properties speak of the line and the call, the program of the cells *)
(* of the rule and of the arguments received.  The invariant says how far  *)
(* the loops are: that every argument received so far is a reading of its  *)
(* register and that every position compared so far may be the same.       *)
(***************************************************************************)
EXTENDS Matcher, TLAPS

-----------------------------------------------------------------------------
(***************************************************************************)
(* The inductive invariant.                                                *)
(***************************************************************************)

\* The call is one the line names, and the rule is the one made of the line.
Ruled ==
    /\ line \in Lines /\ request \in Requests /\ Row = NumberOf[line.name]
    /\ rules \in [Syscalls -> Rules] /\ action \in [Syscalls -> Actions]
    /\ IF loc = "load" THEN rules[Row].kind = "NULL"
       ELSE /\ action[Row] = line.act
            /\ Rule = IF line.n = 0 THEN EMPTY_RULES
                      ELSE [kind |-> "LIST", len |-> line.n,
                            cells |-> Installed(Row, line.args, line.n)]

\* The argument received at p is its register, read in one of the ways there are.
ReadAt(p) ==
    \E way \in ReadsAs(p), fails \in BOOLEAN :
        /\ received_args[p] = Fetch(way, request.raw[p],
                                    IF way = "ARRAY" THEN request.raw[p + 1] ELSE 0, fails)
        /\ fails => way \in {"STRING", "ARRAY"} /\ p \in unread

\* The positions before n have been read.
ReadUpTo(n) ==
    \A p \in Positions : IF p < n THEN TypeAt(p) # "NONE" /\ ReadAt(p)
                         ELSE received_args[p] = NoArgument

\* What the handler of a special call leaves.
SpecialRead ==
    \E fails \in SUBSET Followed(Row, request.raw) :
        /\ argument_num = Count(Row, request.raw, fails)
        /\ unread = IF GivesUp(Row, fails) THEN Positions ELSE fails
        /\ received_args =
             [p \in Positions |->
                IF p < Len(WaysRead(Row, request.raw, fails))
                  THEN Fetch(WaysRead(Row, request.raw, fails)[p + 1], request.raw[p],
                             IF Row = "getsockopt" THEN Int("UINT", WordAt[request.raw[4]]) ELSE 0,
                             p \in fails)
                ELSE NoArgument]

AllRead ==
    IF Row \in Special THEN SpecialRead
    ELSE /\ ReadUpTo(argument_num)
         /\ TypeAt(argument_num) = "NONE"

\* The arguments own what was read for them; what was read of other texts is lost.
Leaked == lost = {p \in Positions : p \in unread /\ received_args[p].type = "STRING"}
Owned  == held = {p \in Positions : Owns(received_args[p])} /\ Leaked

Outcome(p) == Compared(p, Rule.cells[p], received_args[p])

\* A rule without cells is not compared; the positions before n may be the same.
Passed(n) ==
    Rule.kind = "LIST" =>
        \A p \in Positions : p < n /\ TypeAt(p) # "NONE" => "same" \in Outcome(p)

\* The comparison is at position i and found this there.
FoundAt(outcome) ==
    /\ Rule.kind = "LIST" /\ i \in Positions /\ TypeAt(i) # "NONE"
    /\ Passed(i) /\ outcome \in Outcome(i)

\* The comparison, if there was one, is at its end.
Through == Passed(MaxArgs) /\ (Rule.kind = "LIST" => TypeAt(i) = "NONE")

Decided ==
    \/ required_action = action[Row] /\ Through
    \/ required_action = "NONE_ACTION" /\ FoundAt("differs")

AtCollect ==
    /\ Row \notin Special /\ required_action = action[Row]
    /\ ReadUpTo(i) /\ Owned /\ \A p \in unread : p < i
AtGaveUp ==
    /\ Row \notin Special /\ required_action = "NONE_ACTION" /\ Owned
    /\ ReadUpTo(i) /\ TypeAt(i) = "ARRAY" /\ RuleType(i) = "RAW"
AtCompare ==
    /\ AllRead /\ Owned /\ required_action = action[Row]
    /\ Rule.kind = "LIST" /\ Passed(i)
    /\ \A p \in Positions : p < i => TypeAt(p) # "NONE"
AtReport == AllRead /\ Owned /\ Decided
AtDecided ==
    /\ AllRead /\ Decided /\ held = {} /\ Leaked
    /\ Reporting => \A p \in Printed : ~CannotPrint(received_args[p])
AtCrashed ==
    /\ AllRead /\ required_action = action[Row]
    /\ \/ FoundAt("crash")
       \/ Through /\ (argument_num = 0 \/ \E p \in Printed : CanCrash(received_args[p]))

IInv ==
    /\ TypeOK
    /\ Ruled
    /\ loc = "load" \/ loc = "idle" => i = 0
    /\ loc = "special" => Row \in Special /\ required_action = action[Row]
    /\ loc = "collect" => AtCollect
    /\ loc = "gave_up" => AtGaveUp
    /\ loc = "compare" => AtCompare
    /\ loc = "report"  => AtReport
    /\ loc = "decided" => AtDecided
    /\ loc = "crashed" => AtCrashed

-----------------------------------------------------------------------------
(***************************************************************************)
(* The operators of Matcher.                                               *)
(***************************************************************************)

\* What is assumed of numbers.
LEMMA Sizes == /\ IntSize \in Nat /\ IntSize >= 1
               /\ MaxArgs \in Nat /\ MaxArgs >= 6
               /\ 0 \in Positions /\ MaxArgs - 1 \in Positions
               /\ \A p \in Positions : p \in Nat /\ p < MaxArgs
  BY RuleTableAssumption, MatcherAssumption DEF Positions

LEMMA IntType == ASSUME NEW type \in {"INT", "UINT"}, NEW w \in Nat
                 PROVE  Int(type, w) \in 0 .. IntSize - 1
  <1>1. w % IntSize \in 0 .. IntSize - 1
    BY Sizes
  <1> QED
    BY <1>1 DEF Int

\* An int has the width of an int, and only what could not be read has no data.
LEMMA FetchType ==
    ASSUME NEW way, NEW w \in Nat, WordAt[w] \in Nat, DataAt[w] # NoData,
           NEW len, NEW fails \in BOOLEAN,
           NEW a, a = Fetch(way, w, len, fails)
    PROVE  /\ a.type \in {"INT", "UINT"} => a.word \in 0 .. IntSize - 1
           /\ a.type \in {"STRING", "ARRAY"} /\ a.data = NoData => fails
  <1>0. 0 \in 0 .. IntSize - 1 /\ IntSize - 1 \in 0 .. IntSize - 1
    BY Sizes
  <1>1. CASE way \in Numeric
    <2>1. a = Argument(way, Int(way, w), 0, NoData)
      BY <1>1 DEF Fetch, Numeric
    <2>2. way \in {"INT", "UINT"} => Int(way, w) \in 0 .. IntSize - 1
      BY IntType
    <2> QED
      BY <2>1, <2>2, <1>1 DEF Argument, Numeric
  <1>2. CASE way = "ADDRESS"
    BY <1>2 DEF Fetch, Argument, Numeric
  <1>3. CASE way = "NULL"
    BY <1>3 DEF Fetch, Argument, Numeric
  <1>4. CASE way = "INT*"
    <2>1. a = Argument("INT", IF fails THEN 0 ELSE Int("INT", WordAt[w]), 0, NoData)
      BY <1>4 DEF Fetch, Numeric
    <2>2. Int("INT", WordAt[w]) \in 0 .. IntSize - 1
      BY IntType
    <2> QED
      BY <1>0, <2>1, <2>2 DEF Argument
  <1>5. CASE way = "UINT*"
    <2>1. a = Argument("UINT", IF fails THEN 0 ELSE Int("UINT", WordAt[w]), 0, NoData)
      BY <1>5 DEF Fetch, Numeric
    <2>2. Int("UINT", WordAt[w]) \in 0 .. IntSize - 1
      BY IntType
    <2> QED
      BY <1>0, <2>1, <2>2 DEF Argument
  <1>6. CASE way = "ONES"
    BY <1>0, <1>6 DEF Fetch, Argument, Numeric
  <1>7. CASE way = "STRING"
    BY <1>7 DEF Fetch, Argument, Numeric, Read
  <1>8. CASE way \in {"ARRAY", "ARRAY*"}
    <2>1. a = Read("ARRAY", w, len, fails /\ len > 0)
      BY <1>8 DEF Fetch, Numeric
    <2> QED
      BY <2>1 DEF Argument, Read
  <1>9. CASE way = "ARRAY0"
    BY <1>9 DEF Fetch, Argument, Numeric
  <1>10. CASE way \notin Numeric \cup {"ADDRESS", "NULL", "INT*", "UINT*", "ONES", "STRING",
                                       "ARRAY", "ARRAY*", "ARRAY0"}
    <2>1. a = Argument(way, 0, 0, NoData)
      BY <1>10 DEF Fetch
    <2> QED
      BY <2>1, <1>10 DEF Argument, Numeric
  <1> QED
    BY <1>1, <1>2, <1>3, <1>4, <1>5, <1>6, <1>7, <1>8, <1>9, <1>10

-----------------------------------------------------------------------------
(***************************************************************************)
(* The tables of special calls.                                            *)
(***************************************************************************)

\* The ways the handlers read in; an array with a length only getsockopt's.
HandlersRead(s) ==
    {"INT", "UINT", "ULONG", "ADDRESS", "STRING", "INT*", "UINT*", "NULL", "ARRAY0"}
    \cup IF s = "getsockopt" THEN {"ARRAY*"} ELSE {}

LEMMA FixedShape ==
    ASSUME NEW s \in Special
    PROVE  Fixed[s] \in Seq(HandlersRead(s)) /\ Len(Fixed[s]) \in 1 .. 5
  <1> USE DEF Fixed, HandlersRead
  <1>1. CASE s = "open"
    BY <1>1
  <1>2. CASE s = "openat"
    BY <1>2
  <1>3. CASE s = "ioctl"
    BY <1>3
  <1>4. CASE s = "prctl"
    BY <1>4
  <1>5. CASE s = "futex"
    BY <1>5
  <1>6. CASE s = "mremap"
    BY <1>6
  <1>7. CASE s = "getsockopt"
    BY <1>7
  <1>8. CASE s = "semctl"
    BY <1>8
  <1>9. CASE s = "fcntl"
    BY <1>9
  <1> QED
    BY <1>1, <1>2, <1>3, <1>4, <1>5, <1>6, <1>7, <1>8, <1>9 DEF Special

LEMMA FurtherShape ==
    ASSUME NEW s \in Special, NEW case \in Cases(s)
    PROVE  /\ Further[s][case] \in Seq(HandlersRead(s))
           /\ Len(Fixed[s]) + Len(Further[s][case]) <= 6
  <1>0. s \in DOMAIN Further /\ case \in DOMAIN Further[s]
    BY DEF Cases
  <1>1. CASE s = "open"
    <2>0. Len(Fixed[s]) = 2
      BY <1>1 DEF Fixed
    <2>1. case \in {"creates"}
      BY <1>0, <1>1 DEF Further
    <2>2. CASE case = "creates"
      <3>1. Further[s][case] = <<"UINT">>
        BY <1>1, <2>2 DEF Further
      <3>2. <<"UINT">> \in Seq(HandlersRead(s)) /\ Len(<<"UINT">>) = 1
        BY <1>1 DEF HandlersRead
      <3> QED
        BY <2>0, <3>1, <3>2
    <2> QED
      BY <2>1, <2>2
  <1>2. CASE s = "openat"
    <2>0. Len(Fixed[s]) = 3
      BY <1>2 DEF Fixed
    <2>1. case \in {"creates"}
      BY <1>0, <1>2 DEF Further
    <2>2. CASE case = "creates"
      <3>1. Further[s][case] = <<"UINT">>
        BY <1>2, <2>2 DEF Further
      <3>2. <<"UINT">> \in Seq(HandlersRead(s)) /\ Len(<<"UINT">>) = 1
        BY <1>2 DEF HandlersRead
      <3> QED
        BY <2>0, <3>1, <3>2
    <2> QED
      BY <2>1, <2>2
  <1>3. CASE s = "ioctl"
    <2>0. Len(Fixed[s]) = 2
      BY <1>3 DEF Fixed
    <2>1. case \in {"int", "result", "name", "peek", "struct"}
      BY <1>0, <1>3 DEF Further
    <2>2. CASE case = "int"
      <3>1. Further[s][case] = <<"INT">>
        BY <1>3, <2>2 DEF Further
      <3>2. <<"INT">> \in Seq(HandlersRead(s)) /\ Len(<<"INT">>) = 1
        BY <1>3 DEF HandlersRead
      <3> QED
        BY <2>0, <3>1, <3>2
    <2>3. CASE case = "result"
      <3>1. Further[s][case] = <<"INT*">>
        BY <1>3, <2>3 DEF Further
      <3>2. <<"INT*">> \in Seq(HandlersRead(s)) /\ Len(<<"INT*">>) = 1
        BY <1>3 DEF HandlersRead
      <3> QED
        BY <2>0, <3>1, <3>2
    <2>4. CASE case = "name"
      <3>1. Further[s][case] = <<"STRING">>
        BY <1>3, <2>4 DEF Further
      <3>2. <<"STRING">> \in Seq(HandlersRead(s)) /\ Len(<<"STRING">>) = 1
        BY <1>3 DEF HandlersRead
      <3> QED
        BY <2>0, <3>1, <3>2
    <2>5. CASE case = "peek"
      <3>1. Further[s][case] = <<"ARRAY0">>
        BY <1>3, <2>5 DEF Further
      <3>2. <<"ARRAY0">> \in Seq(HandlersRead(s)) /\ Len(<<"ARRAY0">>) = 1
        BY <1>3 DEF HandlersRead
      <3> QED
        BY <2>0, <3>1, <3>2
    <2>6. CASE case = "struct"
      <3>1. Further[s][case] = <<"ADDRESS">>
        BY <1>3, <2>6 DEF Further
      <3>2. <<"ADDRESS">> \in Seq(HandlersRead(s)) /\ Len(<<"ADDRESS">>) = 1
        BY <1>3 DEF HandlersRead
      <3> QED
        BY <2>0, <3>1, <3>2
    <2> QED
      BY <2>1, <2>2, <2>3, <2>4, <2>5, <2>6
  <1>4. CASE s = "prctl"
    <2>0. Len(Fixed[s]) = 1
      BY <1>4 DEF Fixed
    <2>1. case \in {"int", "result", "name", "speculation", "seccomp"}
      BY <1>0, <1>4 DEF Further
    <2>2. CASE case = "int"
      <3>1. Further[s][case] = <<"INT">>
        BY <1>4, <2>2 DEF Further
      <3>2. <<"INT">> \in Seq(HandlersRead(s)) /\ Len(<<"INT">>) = 1
        BY <1>4 DEF HandlersRead
      <3> QED
        BY <2>0, <3>1, <3>2
    <2>3. CASE case = "result"
      <3>1. Further[s][case] = <<"INT*">>
        BY <1>4, <2>3 DEF Further
      <3>2. <<"INT*">> \in Seq(HandlersRead(s)) /\ Len(<<"INT*">>) = 1
        BY <1>4 DEF HandlersRead
      <3> QED
        BY <2>0, <3>1, <3>2
    <2>4. CASE case = "name"
      <3>1. Further[s][case] = <<"STRING">>
        BY <1>4, <2>4 DEF Further
      <3>2. <<"STRING">> \in Seq(HandlersRead(s)) /\ Len(<<"STRING">>) = 1
        BY <1>4 DEF HandlersRead
      <3> QED
        BY <2>0, <3>1, <3>2
    <2>5. CASE case = "speculation"
      <3>1. Further[s][case] = <<"INT", "INT">>
        BY <1>4, <2>5 DEF Further
      <3>2. <<"INT", "INT">> \in Seq(HandlersRead(s)) /\ Len(<<"INT", "INT">>) = 2
        BY <1>4 DEF HandlersRead
      <3> QED
        BY <2>0, <3>1, <3>2
    <2>6. CASE case = "seccomp"
      <3>1. Further[s][case] = <<"INT", "ADDRESS">>
        BY <1>4, <2>6 DEF Further
      <3>2. <<"INT", "ADDRESS">> \in Seq(HandlersRead(s)) /\ Len(<<"INT", "ADDRESS">>) = 2
        BY <1>4 DEF HandlersRead
      <3> QED
        BY <2>0, <3>1, <3>2
    <2> QED
      BY <2>1, <2>2, <2>3, <2>4, <2>5, <2>6
  <1>5. CASE s = "futex"
    <2>0. Len(Fixed[s]) = 2
      BY <1>5 DEF Fixed
    <2>1. case \in {"wait", "wake", "requeue", "cmp", "bitset"}
      BY <1>0, <1>5 DEF Further
    <2>2. CASE case = "wait"
      <3>1. Further[s][case] = <<"UINT", "ADDRESS">>
        BY <1>5, <2>2 DEF Further
      <3>2. <<"UINT", "ADDRESS">> \in Seq(HandlersRead(s)) /\ Len(<<"UINT", "ADDRESS">>) = 2
        BY <1>5 DEF HandlersRead
      <3> QED
        BY <2>0, <3>1, <3>2
    <2>3. CASE case = "wake"
      <3>1. Further[s][case] = <<"UINT">>
        BY <1>5, <2>3 DEF Further
      <3>2. <<"UINT">> \in Seq(HandlersRead(s)) /\ Len(<<"UINT">>) = 1
        BY <1>5 DEF HandlersRead
      <3> QED
        BY <2>0, <3>1, <3>2
    <2>4. CASE case = "requeue"
      <3>1. Further[s][case] = <<"UINT", "UINT", "UINT*">>
        BY <1>5, <2>4 DEF Further
      <3>2. <<"UINT", "UINT", "UINT*">> \in Seq(HandlersRead(s)) /\ Len(<<"UINT", "UINT", "UINT*">>) = 3
        BY <1>5 DEF HandlersRead
      <3> QED
        BY <2>0, <3>1, <3>2
    <2>5. CASE case = "cmp"
      <3>1. Further[s][case] = <<"UINT", "UINT", "UINT*", "UINT">>
        BY <1>5, <2>5 DEF Further
      <3>2. <<"UINT", "UINT", "UINT*", "UINT">> \in Seq(HandlersRead(s)) /\ Len(<<"UINT", "UINT", "UINT*", "UINT">>) = 4
        BY <1>5 DEF HandlersRead
      <3> QED
        BY <2>0, <3>1, <3>2
    <2>6. CASE case = "bitset"
      <3>1. Further[s][case] = <<"UINT", "ADDRESS", "NULL", "UINT">>
        BY <1>5, <2>6 DEF Further
      <3>2. <<"UINT", "ADDRESS", "NULL", "UINT">> \in Seq(HandlersRead(s)) /\ Len(<<"UINT", "ADDRESS", "NULL", "UINT">>) = 4
        BY <1>5 DEF HandlersRead
      <3> QED
        BY <2>0, <3>1, <3>2
    <2> QED
      BY <2>1, <2>2, <2>3, <2>4, <2>5, <2>6
  <1>6. CASE s = "mremap"
    <2>0. Len(Fixed[s]) = 4
      BY <1>6 DEF Fixed
    <2>1. case \in {"moves"}
      BY <1>0, <1>6 DEF Further
    <2>2. CASE case = "moves"
      <3>1. Further[s][case] = <<"ADDRESS">>
        BY <1>6, <2>2 DEF Further
      <3>2. <<"ADDRESS">> \in Seq(HandlersRead(s)) /\ Len(<<"ADDRESS">>) = 1
        BY <1>6 DEF HandlersRead
      <3> QED
        BY <2>0, <3>1, <3>2
    <2> QED
      BY <2>1, <2>2
  <1>7. CASE s = "semctl"
    <2>0. Len(Fixed[s]) = 3
      BY <1>7 DEF Fixed
    <2>1. case \in {"value", "struct"}
      BY <1>0, <1>7 DEF Further
    <2>2. CASE case = "value"
      <3>1. Further[s][case] = <<"INT">>
        BY <1>7, <2>2 DEF Further
      <3>2. <<"INT">> \in Seq(HandlersRead(s)) /\ Len(<<"INT">>) = 1
        BY <1>7 DEF HandlersRead
      <3> QED
        BY <2>0, <3>1, <3>2
    <2>3. CASE case = "struct"
      <3>1. Further[s][case] = <<"ADDRESS">>
        BY <1>7, <2>3 DEF Further
      <3>2. <<"ADDRESS">> \in Seq(HandlersRead(s)) /\ Len(<<"ADDRESS">>) = 1
        BY <1>7 DEF HandlersRead
      <3> QED
        BY <2>0, <3>1, <3>2
    <2> QED
      BY <2>1, <2>2, <2>3
  <1>8. CASE s = "fcntl"
    <2>0. Len(Fixed[s]) = 2
      BY <1>8 DEF Fixed
    <2>1. case \in {"int", "struct"}
      BY <1>0, <1>8 DEF Further
    <2>2. CASE case = "int"
      <3>1. Further[s][case] = <<"INT">>
        BY <1>8, <2>2 DEF Further
      <3>2. <<"INT">> \in Seq(HandlersRead(s)) /\ Len(<<"INT">>) = 1
        BY <1>8 DEF HandlersRead
      <3> QED
        BY <2>0, <3>1, <3>2
    <2>3. CASE case = "struct"
      <3>1. Further[s][case] = <<"ADDRESS">>
        BY <1>8, <2>3 DEF Further
      <3>2. <<"ADDRESS">> \in Seq(HandlersRead(s)) /\ Len(<<"ADDRESS">>) = 1
        BY <1>8 DEF HandlersRead
      <3> QED
        BY <2>0, <3>1, <3>2
    <2> QED
      BY <2>1, <2>2, <2>3
  <1> QED
    BY <1>0, <1>1, <1>2, <1>3, <1>4, <1>5, <1>6, <1>7, <1>8 DEF Further

\* What the handlers read starts with the fixed arguments and fills six positions.
LEMMA WaysShape ==
    ASSUME NEW s \in Special, NEW raw
    PROVE  /\ Ways(s, raw) \in Seq(HandlersRead(s))
           /\ Len(Fixed[s]) <= Len(Ways(s, raw)) /\ Len(Ways(s, raw)) <= 6
           /\ \A q \in 1 .. Len(Fixed[s]) : Ways(s, raw)[q] = Fixed[s][q]
  <1>1. Fixed[s] \in Seq(HandlersRead(s)) /\ Len(Fixed[s]) \in 1 .. 5
    BY FixedShape
  <1>2. PICK more : /\ Ways(s, raw) = Fixed[s] \o more
                    /\ more \in Seq(HandlersRead(s)) /\ Len(Fixed[s]) + Len(more) <= 6
    <2> PICK case : case = IF s \in DOMAIN OpAt THEN CaseOf[s][raw[OpAt[s]]] ELSE "none"
      OBVIOUS
    <2>1. CASE case \in Cases(s)
      <3>1. Ways(s, raw) = Fixed[s] \o Further[s][case]
        BY <2>1 DEF Ways
      <3> QED
        BY <2>1, <3>1, FurtherShape
    <2>2. CASE case \notin Cases(s)
      <3> PICK none : none = <<>>
        OBVIOUS
      <3>1. Ways(s, raw) = Fixed[s] \o none
        BY <2>2 DEF Ways
      <3>2. none \in Seq(HandlersRead(s)) /\ Len(none) = 0
        OBVIOUS
      <3>3. Len(Fixed[s]) + Len(none) <= 6
        <4>1. \A n \in 1 .. 5 : n + 0 <= 6
          OBVIOUS
        <4>2. Len(none) = 0
          BY <3>2
        <4> QED
          BY <1>1, <4>1, <4>2
      <3> QED
        BY <3>1, <3>2, <3>3
    <2> QED
      BY <2>1, <2>2
  <1> QED
    BY <1>1, <1>2

LEMMA CountType ==
    ASSUME NEW s \in Special, NEW raw, NEW fails
    PROVE  Count(s, raw, fails) \in 0 .. MaxArgs
  <1>1. Len(Ways(s, raw)) \in Nat /\ Len(Ways(s, raw)) <= 6
    BY WaysShape
  <1> QED
    BY <1>1, Sizes DEF Count

\* A handler that does not give up reads the fixed arguments, and what it can read as
\* the table says.
LEMMA HandlerReads ==
    ASSUME NEW s \in Special, NEW raw, NEW fails, ~GivesUp(s, fails),
           NEW p \in Nat, p \notin fails
    PROVE  /\ p < Len(Fixed[s]) => p < Len(WaysRead(s, raw, fails))
           /\ p < Len(WaysRead(s, raw, fails)) =>
                /\ p < Len(Ways(s, raw))
                /\ WaysRead(s, raw, fails)[p + 1] = Ways(s, raw)[p + 1]
  <1> PICK ways : ways = Ways(s, raw)
    OBVIOUS
  <1>1. /\ ways \in Seq(HandlersRead(s)) /\ Len(Fixed[s]) <= Len(ways)
        /\ Len(Fixed[s]) \in 1 .. 5
    BY WaysShape, FixedShape
  <1>2. CASE s = "futex" /\ 4 \in fails /\ Len(ways) > 4 /\ ways[5] = "UINT*"
    <2>1. Len(Fixed[s]) = 2
      BY <1>2 DEF Fixed
    <2>2. WaysRead(s, raw, fails) = SubSeq(ways, 1, 4) \o <<"ONES">>
      BY <1>2 DEF WaysRead
    <2>3. SubSeq(ways, 1, 4) \in Seq(HandlersRead(s)) /\ Len(SubSeq(ways, 1, 4)) = 4
      BY <1>1, <1>2
    <2>4. <<"ONES">> \in Seq({"ONES"}) /\ Len(<<"ONES">>) = 1
      OBVIOUS
    <2>5. Len(WaysRead(s, raw, fails)) = 5
      BY <2>2, <2>3, <2>4
    <2>6. ASSUME p < 5
          PROVE  WaysRead(s, raw, fails)[p + 1] = ways[p + 1]
      <3>1. p # 4
        BY <1>2
      <3>2. p + 1 \in 1 .. 4
        BY <2>6, <3>1
      <3>3. SubSeq(ways, 1, 4)[p + 1] = ways[p + 1]
        BY <1>1, <1>2, <3>2
      <3>4. WaysRead(s, raw, fails)[p + 1] = SubSeq(ways, 1, 4)[p + 1]
        BY <2>2, <2>3, <2>4, <3>2
      <3> QED
        BY <3>3, <3>4
    <2> QED
      BY <1>1, <1>2, <2>1, <2>5, <2>6
  <1>3. CASE ~(s = "futex" /\ 4 \in fails /\ Len(ways) > 4 /\ ways[5] = "UINT*")
    <2>1. WaysRead(s, raw, fails) = ways
      BY <1>3 DEF WaysRead
    <2> QED
      BY <1>1, <2>1
  <1> QED
    BY <1>2, <1>3

\* What a handler reads is in the table, also when it gives up, and that is no text.
LEMMA WaysReadShape ==
    ASSUME NEW s \in Special, NEW raw, NEW fails, NEW p \in Nat,
           p < Len(WaysRead(s, raw, fails))
    PROVE  /\ WaysRead(s, raw, fails)[p + 1] \in HandlersRead(s) \cup {"ONES"}
           /\ GivesUp(s, fails) => WaysRead(s, raw, fails)[p + 1] # "STRING"
  <1> PICK ways : ways = Ways(s, raw)
    OBVIOUS
  <1>1. /\ ways \in Seq(HandlersRead(s)) /\ Len(Fixed[s]) <= Len(ways)
        /\ Len(Fixed[s]) \in 1 .. 5 /\ Fixed[s] \in Seq(HandlersRead(s))
    BY WaysShape, FixedShape
  <1>2. CASE s = "futex" /\ GivesUp(s, fails)
    <2>1. WaysRead(s, raw, fails) = SubSeq(ways, 1, 1)
      BY <1>2 DEF WaysRead
    <2>2. p = 0 /\ WaysRead(s, raw, fails)[p + 1] = ways[1]
      BY <1>1, <2>1
    <2>3. Fixed[s][1] = "UINT*" /\ 1 \in 1 .. Len(Fixed[s])
      <3>1. Fixed[s] = <<"UINT*", "INT">>
        BY <1>2 DEF Fixed
      <3> QED
        BY <3>1
    <2>4. ways[1] = "UINT*"
      BY <2>3, WaysShape
    <2> QED
      BY <2>2, <2>4 DEF HandlersRead
  <1>3. CASE s = "getsockopt" /\ GivesUp(s, fails)
    <2>1. WaysRead(s, raw, fails) = SubSeq(ways, 1, 3) /\ Len(Fixed[s]) = 5
      BY <1>3 DEF WaysRead, Fixed
    <2>2. p + 1 \in 1 .. 3 /\ WaysRead(s, raw, fails)[p + 1] = ways[p + 1]
      BY <1>1, <2>1
    <2>3. /\ Fixed[s][1] = "INT" /\ Fixed[s][2] = "INT" /\ Fixed[s][3] = "INT"
          /\ 1 .. 3 \subseteq 1 .. Len(Fixed[s])
      <3>1. Fixed[s] = <<"INT", "INT", "INT", "ARRAY*", "ADDRESS">>
        BY <1>3 DEF Fixed
      <3> QED
        BY <3>1
    <2>4. p + 1 = 1 \/ p + 1 = 2 \/ p + 1 = 3
      BY <2>2
    <2>5. WaysRead(s, raw, fails)[p + 1] = "INT"
      <3>1. ways[p + 1] = Fixed[s][p + 1]
        BY <2>2, <2>3, WaysShape
      <3> QED
        BY <2>2, <2>3, <2>4, <3>1
    <2> QED
      BY <2>5 DEF HandlersRead
  <1>4. CASE ~GivesUp(s, fails) /\ s = "futex" /\ 4 \in fails /\ Len(ways) > 4 /\ ways[5] = "UINT*"
    <2>1. WaysRead(s, raw, fails) = SubSeq(ways, 1, 4) \o <<"ONES">>
      BY <1>4 DEF WaysRead
    <2>2. SubSeq(ways, 1, 4) \in Seq(HandlersRead(s) \cup {"ONES"})
      BY <1>1, <1>4
    <2>3. <<"ONES">> \in Seq(HandlersRead(s) \cup {"ONES"})
      OBVIOUS
    <2>4. WaysRead(s, raw, fails) \in Seq(HandlersRead(s) \cup {"ONES"})
      BY <2>1, <2>2, <2>3
    <2> QED
      BY <1>4, <2>4
  <1>5. CASE /\ ~GivesUp(s, fails)
             /\ ~(s = "futex" /\ 4 \in fails /\ Len(ways) > 4 /\ ways[5] = "UINT*")
    <2>1. WaysRead(s, raw, fails) = ways
      BY <1>5 DEF WaysRead
    <2>2. p + 1 \in 1 .. Len(ways)
      BY <1>1, <2>1
    <2>3. ways[p + 1] \in HandlersRead(s)
      BY <1>1, <2>2
    <2> QED
      BY <1>5, <2>1, <2>3
  <1> QED
    BY <1>2, <1>3, <1>4, <1>5 DEF GivesUp

\* A handler that counts no arguments has given up.
LEMMA NoneCounted ==
    ASSUME SpecialRead, Row \in Special, argument_num = 0
    PROVE  unread = Positions
  <1> PICK fails : /\ argument_num = Count(Row, request.raw, fails)
                   /\ unread = IF GivesUp(Row, fails) THEN Positions ELSE fails
    BY DEF SpecialRead
  <1> PICK ways, fixed : ways = Ways(Row, request.raw) /\ fixed = Fixed[Row]
    OBVIOUS
  <1>1. Len(ways) # 0
    <2>1. Len(fixed) \in 1 .. 5 /\ Len(fixed) <= Len(ways)
      BY WaysShape, FixedShape
    <2>2. \A n \in 1 .. 5 : ~(n <= 0)
      OBVIOUS
    <2> QED
      BY <2>1, <2>2
  <1> QED
    BY <1>1 DEF Count

\* Only a text is received as a text.
LEMMA FetchText ==
    ASSUME NEW s, NEW way \in HandlersRead(s) \cup {"ONES"}, NEW w, NEW len, NEW fails
    PROVE  Fetch(way, w, len, fails).type = "STRING" <=> way = "STRING"
  <1>1. CASE way \in {"INT", "UINT", "ULONG"}
    BY <1>1 DEF Fetch, Argument, Numeric
  <1>2. CASE way \in {"ADDRESS", "NULL", "INT*", "UINT*", "ONES"}
    BY <1>2 DEF Fetch, Argument, Numeric
  <1>3. CASE way = "STRING"
    BY <1>3 DEF Fetch, Read, Argument, Numeric
  <1>4. CASE way \in {"ARRAY0", "ARRAY*"}
    BY <1>4 DEF Fetch, Read, Argument, Numeric
  <1> QED
    BY <1>1, <1>2, <1>3, <1>4 DEF HandlersRead

\* The length matters for arrays only.
LEMMA FetchLength ==
    ASSUME NEW way, way \notin {"ARRAY", "ARRAY*"}, NEW w, NEW len, NEW fails
    PROVE  Fetch(way, w, len, fails) = Fetch(way, w, 0, fails)
  BY DEF Fetch

-----------------------------------------------------------------------------
(***************************************************************************)
(* What has been received is the argument of the call.                     *)
(***************************************************************************)

\* The facts about the call and its row that the invariant keeps.
LEMMA RowFacts ==
    ASSUME Ruled
    PROVE  /\ Row \in Syscalls /\ request.raw \in [Positions -> Nat]
           /\ \A p \in Positions : /\ request.raw[p] \in Nat /\ WordAt[request.raw[p]] \in Nat
                                   /\ DataAt[request.raw[p]] # NoData
           /\ \A p \in Positions : TypeAt(p) = ArgTypes[Row][p] /\ TypeAt(p) \in Types
           /\ TypeAt(MaxArgs - 1) # "ARRAY" /\ TypeAt(MaxArgs) = "NONE"
           /\ \A p, q \in Positions : TypeAt(p) = "NONE" /\ p <= q => TypeAt(q) = "NONE"
           /\ Row \in Special => \A p \in Positions :
                p >= Len(Fixed[Row]) => TypeAt(p) \in {"VARIAD", "NONE"}
  <1>1. Row \in Syscalls /\ request \in Requests /\ Row = request.row
    BY MatcherAssumption DEF Ruled, Row
  <1>2. /\ request.raw \in [Positions -> Nat]
        /\ \A p \in Positions : /\ request.raw[p] \in Nat /\ WordAt[request.raw[p]] \in Nat
                                /\ DataAt[request.raw[p]] # NoData
    BY <1>1, MatcherAssumption
  <1>3. \A p \in Positions : TypeAt(p) = ArgTypes[Row][p] /\ TypeAt(p) \in Types
    BY <1>1, RuleTableAssumption, Sizes DEF TypeAt
  <1>4. TypeAt(MaxArgs - 1) # "ARRAY" /\ TypeAt(MaxArgs) = "NONE"
    <2>1. ArgTypes[Row][MaxArgs - 1] # "ARRAY"
      BY <1>1, MatcherAssumption
    <2> QED
      BY <2>1, Sizes DEF TypeAt
  <1>5. \A p, q \in Positions : TypeAt(p) = "NONE" /\ p <= q => TypeAt(q) = "NONE"
    BY <1>1, <1>3, MatcherAssumption
  <1>6. Row \in Special => \A p \in Positions :
          p >= Len(Fixed[Row]) => TypeAt(p) \in {"VARIAD", "NONE"}
    BY <1>1, <1>3, MatcherAssumption
  <1> QED
    BY <1>1, <1>2, <1>3, <1>4, <1>5, <1>6

\* By a handler of a special call, as far as it reads.
LEMMA SpecialActual ==
    ASSUME Ruled, Row \in Special, SpecialRead, NEW p \in Positions, p \notin unread
    PROVE  \/ received_args[p] = Actual(p)
           \/ received_args[p] = NoArgument /\ ~(p < Len(Fixed[Row]))
  <1> PICK fails \in SUBSET Followed(Row, request.raw) :
        /\ unread = IF GivesUp(Row, fails) THEN Positions ELSE fails
        /\ received_args =
             [q \in Positions |->
                IF q < Len(WaysRead(Row, request.raw, fails))
                  THEN Fetch(WaysRead(Row, request.raw, fails)[q + 1], request.raw[q],
                             IF Row = "getsockopt" THEN Int("UINT", WordAt[request.raw[4]]) ELSE 0,
                             q \in fails)
                ELSE NoArgument]
    BY DEF SpecialRead
  <1> PICK way : way = Ways(Row, request.raw)[p + 1]
    OBVIOUS
  <1> PICK len : len = IF Row = "getsockopt" THEN Int("UINT", WordAt[request.raw[4]]) ELSE 0
    OBVIOUS
  <1>1. ~GivesUp(Row, fails) /\ p \notin fails /\ p \in Nat
    BY Sizes
  <1>a. CASE ~(p < Len(WaysRead(Row, request.raw, fails)))
    BY <1>1, <1>a, HandlerReads
  <1> SUFFICES ASSUME p < Len(WaysRead(Row, request.raw, fails))
               PROVE  received_args[p] = Actual(p)
    BY <1>a
  <1>2. /\ p < Len(Ways(Row, request.raw))
        /\ WaysRead(Row, request.raw, fails)[p + 1] = way
    BY <1>1, HandlerReads
  <1>3. received_args[p] = Fetch(way, request.raw[p], len, p \in fails)
    BY <1>2
  <1>4. received_args[p] = Fetch(way, request.raw[p], len, FALSE)
    <2>1. (p \in fails) = FALSE
      BY <1>1
    <2> QED
      BY <1>3, <2>1
  <1>5. way \in HandlersRead(Row) /\ WayOf(p) = way
    <2>1. Ways(Row, request.raw) \in Seq(HandlersRead(Row))
      BY WaysShape
    <2> QED
      BY <1>1, <1>2, <2>1 DEF WayOf
  <1>6. Fetch(way, request.raw[p], len, FALSE) = Fetch(way, request.raw[p], LengthOf(p), FALSE)
    <2>1. CASE way = "ARRAY*"
      <3>1. len = LengthOf(p)
        BY <1>5, <2>1 DEF LengthOf, HandlersRead
      <3> QED
        BY <3>1
    <2>2. CASE way # "ARRAY*"
      <3>1. way # "ARRAY"
        BY <1>5 DEF HandlersRead
      <3> QED
        BY <2>2, <3>1, FetchLength
    <2> QED
      BY <2>1, <2>2
  <1> QED
    BY <1>4, <1>5, <1>6 DEF Actual

\* By the loop for ordinary calls, where the cell of an array says what it is.
LEMMA OrdinaryActual ==
    ASSUME Row \notin Special, NEW p, ReadAt(p), p \notin unread, TypeAt(p) \in Types,
           TypeAt(p) = "ARRAY" =>
             RuleType(p) = Wanted(p).type /\ Wanted(p).type \in {"STRING", "ARRAY", "NONE"}
    PROVE  received_args[p] = Actual(p)
  <1>1. PICK way \in ReadsAs(p), fails \in BOOLEAN :
          /\ received_args[p] = Fetch(way, request.raw[p],
                                      IF way = "ARRAY" THEN request.raw[p + 1] ELSE 0, fails)
          /\ fails => way \in {"STRING", "ARRAY"} /\ p \in unread
    BY DEF ReadAt
  <1>2. fails = FALSE
    BY <1>1
  <1>3. way = WayOf(p)
    <2>1. CASE TypeAt(p) # "ARRAY"
      BY <2>1 DEF ReadsAs, WayOf
    <2>2. CASE TypeAt(p) = "ARRAY" /\ Wanted(p).type = "STRING"
      BY <2>2 DEF ReadsAs, WayOf
    <2>3. CASE TypeAt(p) = "ARRAY" /\ Wanted(p).type \in {"ARRAY", "NONE"}
      BY <2>3 DEF ReadsAs, WayOf
    <2> QED
      BY <2>1, <2>2, <2>3
  <1>4. received_args[p] = Fetch(way, request.raw[p],
                                 IF way = "ARRAY" THEN request.raw[p + 1] ELSE 0, FALSE)
    BY <1>1, <1>2
  <1>5. CASE way = "ARRAY*"
    <2>1. FALSE
      BY <1>5, <1>1 DEF ReadsAs, Types, Numeric
    <2> QED
      BY <2>1
  <1>6. CASE way # "ARRAY*"
    <2>1. LengthOf(p) = IF way = "ARRAY" THEN request.raw[p + 1] ELSE 0
      BY <1>3, <1>6 DEF LengthOf
    <2> QED
      BY <1>3, <1>4, <2>1 DEF Actual
  <1> QED
    BY <1>5, <1>6

-----------------------------------------------------------------------------
(***************************************************************************)
(* A comparison at a position that the line mentions with a sensible value *)
(* finds out what is the case.                                             *)
(***************************************************************************)

\* What is received has the width of its type, and data unless it was not read.
LEMMA ReceivedAt ==
    ASSUME Ruled, NEW p \in Positions, ReadAt(p)
    PROVE  /\ received_args[p].type \in {"INT", "UINT"} => received_args[p].word \in 0 .. IntSize - 1
           /\ received_args[p].type \in {"STRING", "ARRAY"} /\ received_args[p].data = NoData
                => p \in unread
  <1>1. PICK way \in ReadsAs(p), fails \in BOOLEAN :
          /\ received_args[p] = Fetch(way, request.raw[p],
                                      IF way = "ARRAY" THEN request.raw[p + 1] ELSE 0, fails)
          /\ fails => way \in {"STRING", "ARRAY"} /\ p \in unread
    BY DEF ReadAt
  <1> QED
    BY <1>1, RowFacts, FetchType

LEMMA ReceivedType ==
    ASSUME TypeOK, Ruled, AllRead, NEW p \in Positions
    PROVE  /\ received_args[p].type \in {"INT", "UINT"} => received_args[p].word \in 0 .. IntSize - 1
           /\ received_args[p].type \in {"STRING", "ARRAY"} /\ received_args[p].data = NoData
                => p \in unread
  <1>1. CASE received_args[p] = NoArgument
    BY <1>1 DEF NoArgument, Argument
  <1>2. CASE received_args[p] # NoArgument /\ Row \notin Special
    BY <1>2, ReceivedAt DEF AllRead, ReadUpTo
  <1>3. CASE received_args[p] # NoArgument /\ Row \in Special
    <2>1. SpecialRead
      BY <1>3 DEF AllRead
    <2> PICK fails \in SUBSET Followed(Row, request.raw) :
          /\ unread = IF GivesUp(Row, fails) THEN Positions ELSE fails
          /\ received_args =
               [q \in Positions |->
                  IF q < Len(WaysRead(Row, request.raw, fails))
                    THEN Fetch(WaysRead(Row, request.raw, fails)[q + 1], request.raw[q],
                               IF Row = "getsockopt" THEN Int("UINT", WordAt[request.raw[4]]) ELSE 0,
                               q \in fails)
                  ELSE NoArgument]
      BY <2>1 DEF SpecialRead
    <2> PICK way : way = WaysRead(Row, request.raw, fails)[p + 1]
      OBVIOUS
    <2> PICK len : len = IF Row = "getsockopt" THEN Int("UINT", WordAt[request.raw[4]]) ELSE 0
      OBVIOUS
    <2>1a. request.raw[p] \in Nat /\ WordAt[request.raw[p]] \in Nat /\ DataAt[request.raw[p]] # NoData
      BY RowFacts
    <2>2. received_args[p] = Fetch(way, request.raw[p], len, p \in fails)
      BY <1>3
    <2>3. CASE p \in fails
      <3>1. (p \in fails) = TRUE
        BY <2>3
      <3>2. received_args[p] = Fetch(way, request.raw[p], len, TRUE)
        BY <2>2, <3>1
      <3>3. p \in unread
        BY <2>3
      <3> QED
        BY <2>1a, <3>2, <3>3, FetchType
    <2>4. CASE p \notin fails
      <3>1. (p \in fails) = FALSE
        BY <2>4
      <3>2. received_args[p] = Fetch(way, request.raw[p], len, FALSE)
        BY <2>2, <3>1
      <3> QED
        BY <2>1a, <3>2, FetchType
    <2> QED
      BY <2>3, <2>4
  <1> QED
    BY <1>1, <1>2, <1>3

\* Up to the last argument of the call, all have been received.
LEMMA AllReceived ==
    ASSUME TypeOK, Ruled, AllRead, Row \notin Special, NEW p \in Positions, TypeAt(p) # "NONE"
    PROVE  p < argument_num /\ ReadAt(p)
  <1>1. ReadUpTo(argument_num) /\ TypeAt(argument_num) = "NONE" /\ argument_num \in 0 .. MaxArgs
    BY DEF AllRead, TypeOK
  <1>2. p < argument_num
    <2> SUFFICES ASSUME argument_num <= p PROVE FALSE
      BY <1>1, Sizes
    <2>1. argument_num \in Positions
      BY <1>1, Sizes DEF Positions
    <2> QED
      BY <1>1, <2>1, RowFacts
  <1> QED
    BY <1>1, <1>2 DEF ReadUpTo

\* The cell of a position that the line mentions is the copy of what it says there.
LEMMA CellAsked ==
    ASSUME Ruled, loc # "load", NEW p \in Positions, Asked(p)
    PROVE  /\ Rule.kind = "LIST"
           /\ Rule.cells[p] = Copied(TypeAt(p), Wanted(p))
           /\ Wanted(p).type \in {"ULLONG", "STRING", "ARRAY"}
           /\ Wanted(p).type \in {"ULLONG", "STRING"} => Wanted(p).text \in Texts
           /\ TypeAt(p) \in {"STRING", "ARRAY"} => Wanted(p).type # "ULLONG"
  <1>1. /\ line.args \in Arguments /\ line.n \in 0 .. MaxArgs
        /\ p >= line.n => line.args[p].type = "NONE"
        /\ line.args[p].type \in {"ULLONG", "STRING"} => line.args[p].text \in Texts
        /\ Stops(Row, line.args, line.n) = {}
    BY MatcherAssumption DEF Ruled
  <1>2. line.args[p].type \in ArgumentTypes /\ line.args[p].type # "NONE"
    BY <1>1 DEF Arguments, Asked
  <1>3. p < line.n /\ line.n # 0
    BY <1>1, <1>2, Sizes
  <1>4. Rule = [kind |-> "LIST", len |-> line.n, cells |-> Installed(Row, line.args, line.n)]
    BY <1>3 DEF Ruled
  <1>5. Reached(Row, line.args, line.n, p)
    BY <1>1, <1>3 DEF Reached
  <1>6. Installed(Row, line.args, line.n)[p] = Copied(ArgTypes[Row][p], line.args[p])
    BY <1>5 DEF Installed
  <1>7. TypeAt(p) = ArgTypes[Row][p]
    BY RowFacts
  <1>8. ~Rejects(TypeAt(p), line.args[p])
    BY <1>1, <1>3, <1>7 DEF Stops
  <1>9. TypeAt(p) \in {"STRING", "ARRAY"} => line.args[p].type # "ULLONG"
    BY <1>8 DEF Rejects
  <1> QED
    BY <1>1, <1>2, <1>4, <1>6, <1>7, <1>9 DEF Wanted, ArgumentTypes

LEMMA ReceivedActual ==
    ASSUME TypeOK, Ruled, loc # "load", AllRead, NEW p \in Positions,
           Asked(p), Sensible(p), p \notin unread
    PROVE  received_args[p] = Actual(p)
  <1>1. TypeAt(p) \in Numeric \cup {"ADDRESS", "STRING", "ARRAY"}
    BY DEF Sensible
  <1>2. CASE Row \in Special
    <2>1. p < Len(Fixed[Row])
      <3> SUFFICES ASSUME p >= Len(Fixed[Row]) PROVE FALSE
        BY <1>2, FixedShape, Sizes
      <3> QED
        BY <1>1, <1>2, RowFacts DEF Numeric
    <2> QED
      BY <1>2, <2>1, SpecialActual DEF AllRead
  <1>3. CASE Row \notin Special
    <2>1. ReadAt(p) /\ TypeAt(p) \in Types
      BY <1>3, AllReceived, RowFacts DEF Asked
    <2>2. ASSUME TypeAt(p) = "ARRAY"
          PROVE  RuleType(p) = Wanted(p).type /\ Wanted(p).type \in {"STRING", "ARRAY"}
      <3>1. Wanted(p).type = Actual(p).type
        BY <2>2 DEF Sensible, Numeric
      <3>2. CASE Wanted(p).type # "STRING"
        <4>1. WayOf(p) = "ARRAY"
          BY <1>3, <2>2, <3>2 DEF WayOf
        <4>2. Actual(p).type = "ARRAY"
          BY <4>1 DEF Actual, Fetch, Read, Argument, Numeric
        <4> QED
          BY <3>1, <4>2, <2>2, CellAsked DEF RuleType, Copied, Numeric
      <3>3. CASE Wanted(p).type = "STRING"
        BY <3>3, <2>2, CellAsked DEF RuleType, Copied, Numeric
      <3> QED
        BY <3>2, <3>3
    <2> QED
      BY <1>3, <2>1, <2>2, OrdinaryActual
  <1> QED
    BY <1>2, <1>3

\* Where the rule is clear too, also when it is silent.
LEMMA ClearActual ==
    ASSUME TypeOK, Ruled, loc # "load", AllRead, NEW p \in Positions,
           Clear(p), p \notin unread, Row \notin Special => p < argument_num
    PROVE  received_args[p] \in {Actual(p), NoArgument}
  <1>1. CASE Row \in Special
    BY <1>1, SpecialActual DEF AllRead
  <1>2. CASE Row \notin Special
    <2>1. ReadAt(p) /\ TypeAt(p) # "NONE" /\ TypeAt(p) \in Types
      BY <1>2, RowFacts DEF AllRead, ReadUpTo
    <2>2. CASE Asked(p) /\ Sensible(p)
      BY <2>2, ReceivedActual
    <2>3. CASE TypeAt(p) # "ARRAY"
      BY <1>2, <2>1, <2>3, OrdinaryActual
    <2>4. CASE TypeAt(p) = "ARRAY" /\ RuleType(p) = "NONE"
      <3>1. ~Asked(p)
        <4> SUFFICES ASSUME Asked(p) PROVE FALSE
          OBVIOUS
        <4>1. /\ Rule.kind = "LIST" /\ Rule.cells[p] = Wanted(p)
              /\ Wanted(p).type \in {"STRING", "ARRAY"}
          BY <2>4, CellAsked DEF Copied, Numeric
        <4> QED
          BY <2>4, <4>1 DEF RuleType
      <3>2. Wanted(p).type = "NONE"
        BY <2>1, <3>1 DEF Asked, Wanted
      <3> QED
        BY <1>2, <2>1, <2>4, <3>2, OrdinaryActual
    <2> QED
      BY <1>2, <2>1, <2>2, <2>3, <2>4 DEF Clear
  <1> QED
    BY <1>1, <1>2

\* What agreeing is for each type of argument.
LEMMA AgreesAs ==
    ASSUME NEW p
    PROVE  /\ TypeAt(p) \in Numeric =>
                (Agrees(p) <=> Int(TypeAt(p), Number[Wanted(p).text]) = Int(TypeAt(p), Actual(p).word))
           /\ TypeAt(p) = "ADDRESS" =>
                (Agrees(p) <=> InRange(Wanted(p).text, Actual(p).word))
           /\ TypeAt(p) \in {"STRING", "ARRAY"} /\ Wanted(p).type = "STRING" =>
                (Agrees(p) <=> <<Wanted(p).text, Actual(p).data>> \in Matches)
           /\ TypeAt(p) \in {"STRING", "ARRAY"} /\ Wanted(p).type = "ARRAY" =>
                (Agrees(p) <=> /\ ArrayOf[Wanted(p).body].size = Actual(p).size
                               /\ Actual(p).size # 0 =>
                                    ArrayOf[Wanted(p).body].data = Actual(p).data)
  <1> PICK t : t = TypeAt(p)
    OBVIOUS
  <1>0. t \in Numeric => t # "ADDRESS" /\ t \notin {"STRING", "ARRAY"}
    BY DEF Numeric
  <1>1. ASSUME t \in Numeric
        PROVE  Agrees(p) <=> Int(t, Number[Wanted(p).text]) = Int(t, Actual(p).word)
    BY <1>0, <1>1 DEF Agrees
  <1>2. ASSUME t = "ADDRESS"
        PROVE  Agrees(p) <=> InRange(Wanted(p).text, Actual(p).word)
    BY <1>0, <1>2 DEF Agrees, InRange
  <1>3. ASSUME t \in {"STRING", "ARRAY"}, Wanted(p).type = "STRING"
        PROVE  Agrees(p) <=> <<Wanted(p).text, Actual(p).data>> \in Matches
    BY <1>0, <1>3 DEF Agrees
  <1>4. ASSUME t \in {"STRING", "ARRAY"}, Wanted(p).type = "ARRAY"
        PROVE  Agrees(p) <=> /\ ArrayOf[Wanted(p).body].size = Actual(p).size
                             /\ Actual(p).size # 0 =>
                                  ArrayOf[Wanted(p).body].data = Actual(p).data
    BY <1>0, <1>4 DEF Agrees
  <1> QED
    BY <1>1, <1>2, <1>3, <1>4

\* Where the line asks for a value that makes sense, and the argument could be read,
\* the comparison finds "same" exactly if they agree.
LEMMA ComparedRight ==
    ASSUME TypeOK, Ruled, loc # "load", AllRead, NEW p \in Positions,
           Asked(p), Sensible(p), p \notin unread
    PROVE  Outcome(p) = If(Agrees(p))
  <1> PICK a, c, w, t : /\ a = Actual(p) /\ c = Rule.cells[p] /\ w = Wanted(p) /\ t = TypeAt(p)
    OBVIOUS
  <1>1. received_args[p] = a
    BY ReceivedActual
  <1>2. /\ c = Copied(t, w) /\ w.type \in {"ULLONG", "STRING", "ARRAY"}
        /\ w.type \in {"ULLONG", "STRING"} => w.text \in Texts
    BY CellAsked
  <1>3. NoText \notin Texts /\ Readable \subseteq Numeric \X Texts /\ Ranges \subseteq Texts
    BY RuleTableAssumption, MatcherAssumption
  <1>4. Outcome(p) = Compared(p, c, a)
    BY <1>1 DEF Outcome
  <1>5. CASE t \in Numeric
    <2>1. <<t, w.text>> \in Readable
      BY <1>5 DEF Sensible, Numeric
    <2>2. w.text \in Texts
      BY <1>3, <2>1
    <2>3. c = Cell(t, w.text, NoBlock)
      BY <1>2, <1>5, <2>1 DEF Copied, Numeric
    <2>4. c.type = t /\ c.text = w.text /\ c.text # NoText
      BY <2>2, <2>3, <1>3 DEF Cell
    <2>5. Converted(p)
      BY <1>5 DEF Converted
    <2>6. Compared(p, c, a) = If(Int(t, Number[w.text]) = Int(t, a.word))
      BY <1>5, <2>4, <2>5 DEF Compared, Numeric
    <2>7. Agrees(p) <=> Int(t, Number[w.text]) = Int(t, a.word)
      BY <1>5, AgreesAs
    <2> QED
      BY <1>4, <2>6, <2>7 DEF If
  <1>6. CASE t = "ADDRESS"
    <2>1. w.type = "ULLONG" \/ w.text \in Ranges
      BY <1>6 DEF Sensible, Numeric
    <2>2. w.text \in Texts
      BY <1>2, <1>3, <2>1
    <2>3. c = Cell("ADDRESS", w.text, NoBlock)
      BY <1>2, <1>6, <2>1 DEF Copied
    <2>4. c.type = "ADDRESS" /\ c.text = w.text /\ c.text # NoText
      BY <2>2, <2>3, <1>3 DEF Cell
    <2>5. Compared(p, c, a) = If(InRange(w.text, a.word))
      BY <2>4 DEF Compared, Numeric
    <2>6. Agrees(p) <=> InRange(w.text, a.word)
      BY <1>6, AgreesAs
    <2> QED
      BY <1>4, <2>5, <2>6 DEF If
  <1>7. CASE t \in {"STRING", "ARRAY"}
    <2>1. w.type = a.type
      BY <1>7 DEF Sensible, Numeric
    <2>2. c = w
      BY <1>2, <1>7 DEF Copied, Numeric
    <2>3. a.type \in {"STRING", "ARRAY"} => a.data # NoData
      BY <1>1, ReceivedType
    <2>4. CASE w.type = "STRING"
      <3>1. Compared(p, c, a) = If(<<w.text, a.data>> \in Matches)
        BY <2>1, <2>2, <2>3, <2>4 DEF Compared, Numeric
      <3>2. Agrees(p) <=> <<w.text, a.data>> \in Matches
        BY <1>7, <2>4, AgreesAs
      <3> QED
        BY <1>4, <3>1, <3>2 DEF If
    <2>5. CASE w.type = "ARRAY"
      <3>1. Compared(p, c, a) =
              IF ArrayOf[w.body].size # a.size THEN {"differs"}
              ELSE IF a.size = 0 THEN {"same"}
              ELSE If(ArrayOf[w.body].data = a.data)
        BY <2>1, <2>2, <2>3, <2>5 DEF Compared, Numeric
      <3>2. Agrees(p) <=> /\ ArrayOf[w.body].size = a.size
                          /\ a.size # 0 => ArrayOf[w.body].data = a.data
        BY <1>7, <2>5, AgreesAs
      <3> QED
        BY <1>4, <3>1, <3>2 DEF If
    <2> QED
      BY <1>2, <1>7, <2>4, <2>5, CellAsked
  <1> QED
    BY <1>5, <1>6, <1>7 DEF Sensible

-----------------------------------------------------------------------------
(***************************************************************************)
(* The invariant is kept.                                                  *)
(***************************************************************************)

\* The call and the rule do not change during a verdict.
LEMMA GivenKept ==
    ASSUME UNCHANGED given
    PROVE  /\ Row' = Row /\ Rule' = Rule /\ rules' = rules /\ action' = action
           /\ line' = line /\ request' = request
           /\ \A p : /\ TypeAt(p)' = TypeAt(p) /\ ReadsAs(p)' = ReadsAs(p)
                    /\ RuleType(p)' = RuleType(p)
  BY DEF given, tableVars, Row, Rule, TypeAt, ReadsAs, RuleType

LEMMA RuledKept ==
    ASSUME UNCHANGED given, Ruled, loc # "load", loc' # "load"
    PROVE  Ruled'
  BY GivenKept DEF Ruled

\* Nor what has been read, once it is.
LEMMA ReadKept ==
    ASSUME UNCHANGED <<given, received_args, unread>>
    PROVE  /\ \A p : ReadAt(p) => ReadAt(p)'
           /\ \A n : ReadUpTo(n) => ReadUpTo(n)'
           /\ \A p : Outcome(p)' = Outcome(p)
           /\ \A n : Passed(n) => Passed(n)'
           /\ argument_num' = argument_num /\ AllRead => AllRead'
  <1>1. \A p : ReadAt(p) => ReadAt(p)'
    BY GivenKept DEF ReadAt
  <1>2. \A n : ReadUpTo(n) => ReadUpTo(n)'
    BY <1>1, GivenKept DEF ReadUpTo
  <1>3. \A p : Outcome(p)' = Outcome(p)
    <2>1. \A p, c, a : Compared(p, c, a)' = Compared(p, c, a)
      BY GivenKept DEF Compared, Converted
    <2> QED
      BY <2>1, GivenKept DEF Outcome
  <1>4. \A n : Passed(n) => Passed(n)'
    BY <1>3, GivenKept DEF Passed
  <1>5. (argument_num' = argument_num /\ AllRead) => AllRead'
    <2> SUFFICES ASSUME argument_num' = argument_num, AllRead
                 PROVE  AllRead'
      OBVIOUS
    <2>1. SpecialRead => SpecialRead'
      BY GivenKept DEF SpecialRead
    <2> QED
      BY <1>2, <2>1, GivenKept DEF AllRead
  <1> QED
    BY <1>1, <1>2, <1>3, <1>4, <1>5

\* Rules are well typed, also the ones made of a line.
LEMMA NoRulesTyped == NULL \in Rules /\ EMPTY_RULES \in Rules
  <1>1. Raw \in Cells
    BY DEF Raw, Cell, Cells
  <1>2. NoCells \in [Positions -> Cells]
    BY <1>1 DEF NoCells
  <1>3. 0 \in 0 .. MaxArgs
    BY Sizes
  <1> QED
    BY <1>2, <1>3 DEF NULL, EMPTY_RULES, Rules

LEMMA RulesTyped ==
    ASSUME NEW l \in Lines, NEW s \in Syscalls
    PROVE  [kind |-> "LIST", len |-> l.n, cells |-> Installed(s, l.args, l.n)] \in Rules
  <1>1. Raw \in Cells /\ None \in Cells
    BY DEF Raw, None, Cell, Cells, Types, Numeric
  <1>2. l.args \in Arguments /\ l.n \in 0 .. MaxArgs
    BY MatcherAssumption
  <1>3. ASSUME NEW p \in Positions
        PROVE  Installed(s, l.args, l.n)[p] \in Cells
    <2>1. /\ l.args[p] \in [type : ArgumentTypes, text : Texts \cup {NoText},
                            body : Blocks \cup {NoBlock}]
          /\ l.args[p] \in Cells
      BY <1>2 DEF Arguments, ArgumentTypes, Cells, Types, Numeric
    <2>2. ArgTypes[s][p] \in Types
      BY RuleTableAssumption
    <2>3. \A text \in Texts \cup {NoText} : Cell(ArgTypes[s][p], text, NoBlock) \in Cells
      BY <2>2 DEF Cell, Cells
    <2>4. Copied(ArgTypes[s][p], l.args[p]) \in Cells
      BY <1>1, <2>1, <2>3 DEF Copied
    <2> QED
      BY <1>1, <2>3, <2>4 DEF Installed
  <1>4. Installed(s, l.args, l.n) \in [Positions -> Cells]
    BY <1>3 DEF Installed
  <1> QED
    BY <1>2, <1>4 DEF Rules

LEMMA Start == Init => IInv
  <1> SUFFICES ASSUME Init PROVE IInv
    OBVIOUS
  <1>1. request \in Requests /\ Row = NumberOf[line.name] /\ line \in Lines
    BY DEF Init, Row
  <1>2. Row \in Syscalls /\ request.raw \in [Positions -> Nat] /\ Row = request.row
    BY <1>1, MatcherAssumption DEF Row
  <1>3. rules \in [Syscalls -> Rules] /\ action \in [Syscalls -> Actions] /\ Rule.kind = "NULL"
    BY <1>2, NoRulesTyped DEF Init, TableInit, Actions, Rule, NULL
  <1>4. TypeOK
    <2>1. /\ DOMAIN received_args = Positions
          /\ \A p \in Positions : received_args[p].type \notin {"INT", "UINT"}
      BY DEF Init, NoArgumentsYet, NoArgument, Argument
    <2> QED
      BY <1>2, <1>3, <2>1, Sizes DEF Init, TypeOK, Locations, Actions
  <1>5. Ruled
    BY <1>1, <1>3 DEF Ruled, Init, Rule
  <1> QED
    BY <1>4, <1>5 DEF Init, IInv

\* The loader gets to the end of the line.
LEMMA AfterLoad == IInv /\ Load => IInv'
  <1> SUFFICES ASSUME IInv, Load PROVE IInv'
    OBVIOUS
  <1>1. /\ TypeOK /\ Ruled /\ loc = "load" /\ i = 0 /\ loc' = "idle"
        /\ UNCHANGED <<line, request, i, received_args, argument_num, required_action, held, lost, unread>>
        /\ SetRules(line.name, line.args, line.n, line.act, "ok", {})
    BY DEF IInv, Load
  <1> PICK s : s = Row
    OBVIOUS
  <1>2. /\ s \in Syscalls /\ s = NumberOf[line.name] /\ rules[s].kind = "NULL" /\ line \in Lines
        /\ s # NotFound /\ line.act \in Actions /\ line.n \in 0 .. MaxArgs
        /\ Row' = s
    BY <1>1, MatcherAssumption, RuleTableAssumption DEF Ruled, TypeOK, Row
  <1>3. /\ action' = [action EXCEPT ![s] = line.act]
        /\ rules' = [rules EXCEPT ![s] =
                       IF line.n = 0 THEN EMPTY_RULES
                       ELSE [kind |-> "LIST", len |-> line.n,
                             cells |-> Installed(s, line.args, line.n)]]
    <2>1. ~AlreadySet(s) /\ s # NotFound
      BY <1>2 DEF AlreadySet
    <2>2. CASE line.n = 0
      BY <1>1, <1>2, <2>1, <2>2 DEF SetRules
    <2>3. CASE line.n # 0
      BY <1>1, <1>2, <2>1, <2>3 DEF SetRules
    <2> QED
      BY <2>2, <2>3
  <1>4. rules \in [Syscalls -> Rules] /\ action \in [Syscalls -> Actions]
    BY <1>1 DEF TypeOK
  <1>5. rules' \in [Syscalls -> Rules] /\ action' \in [Syscalls -> Actions]
    BY <1>2, <1>3, <1>4, RulesTyped, NoRulesTyped
  <1>6. TypeOK'
    BY <1>1, <1>5 DEF TypeOK, Locations
  <1>7. Ruled'
    <2>1. Rule' = IF line.n = 0 THEN EMPTY_RULES
                  ELSE [kind |-> "LIST", len |-> line.n,
                        cells |-> Installed(s, line.args, line.n)]
      BY <1>2, <1>3, <1>4 DEF Rule
    <2>2. action'[s] = line.act
      BY <1>2, <1>3, <1>4
    <2> QED
      BY <1>1, <1>2, <1>5, <2>1, <2>2 DEF Ruled
  <1> QED
    BY <1>1, <1>6, <1>7 DEF IInv

\* The first read.
LEMMA AfterEnter == IInv /\ Enter => IInv'
  <1> SUFFICES ASSUME IInv, Enter PROVE IInv'
    OBVIOUS
  <1>1. /\ TypeOK /\ Ruled /\ loc = "idle" /\ loc' \in {"special", "collect"}
        /\ required_action' = action[Row] /\ i' = 0 /\ held' = {} /\ lost' = {}
        /\ unread' = {} /\ received_args' = NoArgumentsYet /\ UNCHANGED <<given, argument_num>>
        /\ loc' = "special" <=> Row \in Special
    BY DEF IInv, Enter
  <1>2. Ruled' /\ required_action' = action'[Row'] /\ Row' = Row
    BY <1>1, RuledKept, GivenKept
  <1>3. TypeOK'
    <2>1. /\ DOMAIN received_args' = Positions
          /\ \A p \in Positions : received_args'[p].type \notin {"INT", "UINT"}
      BY <1>1 DEF NoArgumentsYet, NoArgument, Argument
    <2>2. action[Row] \in Actions
      BY <1>1 DEF TypeOK, Row
    <2> QED
      BY <1>1, <2>1, <2>2, GivenKept, Sizes DEF TypeOK, Locations
  <1>4. loc' = "collect" => AtCollect'
    <2>1. ReadUpTo(i)'
      BY <1>1, Sizes DEF ReadUpTo, NoArgumentsYet
    <2>2. Owned'
      BY <1>1 DEF Owned, Leaked, Owns, NoArgumentsYet, NoArgument, Argument
    <2> QED
      BY <1>1, <1>2, <2>1, <2>2 DEF AtCollect
  <1> QED
    BY <1>1, <1>2, <1>3, <1>4 DEF IInv

\* One more argument has been read.
LEMMA AfterCollect == IInv /\ Collect => IInv'
  <1> SUFFICES ASSUME IInv, Collect PROVE IInv'
    OBVIOUS
  <1>1. /\ TypeOK /\ Ruled /\ AtCollect /\ loc = "collect" /\ loc' = "collect" /\ i' = i + 1
        /\ TypeAt(i) # "NONE" /\ UNCHANGED <<given, argument_num, required_action>>
    BY DEF IInv, Collect
  <1> PICK n : n = i
    OBVIOUS
  <1>2. n \in Positions /\ n + 1 \in 0 .. MaxArgs /\ n \in Nat
    <2>1. n \in 0 .. MaxArgs /\ n # MaxArgs
      BY <1>1, RowFacts DEF TypeOK
    <2> QED
      BY <2>1, Sizes DEF Positions
  <1>3. PICK way \in ReadsAs(n), fails \in BOOLEAN :
          LET a == Fetch(way, request.raw[n], IF way = "ARRAY" THEN request.raw[n + 1] ELSE 0, fails)
          IN  /\ fails => way \in {"STRING", "ARRAY"}
              /\ received_args' = [received_args EXCEPT ![n] = a]
              /\ held' = IF Owns(a) THEN held \cup {n} ELSE held
              /\ lost' = IF Leaks(way, fails) THEN lost \cup {n} ELSE lost
              /\ unread' = IF fails THEN unread \cup {n} ELSE unread
    BY DEF Collect
  <1> PICK a : a = Fetch(way, request.raw[n], IF way = "ARRAY" THEN request.raw[n + 1] ELSE 0, fails)
    OBVIOUS
  <1>4. /\ fails => way \in {"STRING", "ARRAY"}
        /\ received_args' = [received_args EXCEPT ![n] = a]
        /\ held' = IF Owns(a) THEN held \cup {n} ELSE held
        /\ lost' = IF Leaks(way, fails) THEN lost \cup {n} ELSE lost
        /\ unread' = IF fails THEN unread \cup {n} ELSE unread
    BY <1>3
  <1>5. /\ DOMAIN received_args = Positions /\ DOMAIN received_args' = Positions
        /\ received_args'[n] = a
        /\ \A p \in Positions \ {n} : received_args'[p] = received_args[p]
    BY <1>1, <1>2, <1>4 DEF TypeOK
  <1>6. TypeOK'
    <2>1. a.type \in {"INT", "UINT"} => a.word \in 0 .. IntSize - 1
      BY <1>1, <1>2, RowFacts, FetchType
    <2>2. \A p \in Positions : received_args'[p].type \in {"INT", "UINT"} =>
            received_args'[p].word \in 0 .. IntSize - 1
      BY <1>1, <1>5, <2>1 DEF TypeOK
    <2>3. held' \subseteq Positions /\ lost' \subseteq Positions /\ unread' \subseteq Positions
      BY <1>1, <1>2, <1>4 DEF TypeOK
    <2> QED
      BY <1>1, <1>2, <1>5, <2>2, <2>3, GivenKept DEF TypeOK, Locations
  <1>7. ReadUpTo(n + 1)'
    <2>1. ReadAt(n)'
      BY <1>1, <1>4, <1>5, GivenKept DEF ReadAt
    <2>2. ASSUME NEW p \in Positions, p # n, ReadAt(p)
          PROVE  ReadAt(p)'
      <3>1. p \in unread => p \in unread'
        BY <1>4
      <3> QED
        BY <1>1, <1>5, <2>2, <3>1, GivenKept DEF ReadAt
    <2>3. ReadUpTo(n)
      BY <1>1 DEF AtCollect
    <2>4. ASSUME NEW p \in Positions
          PROVE  /\ p < n + 1 => TypeAt(p)' # "NONE" /\ ReadAt(p)'
                 /\ ~(p < n + 1) => received_args'[p] = NoArgument
      <3>1. p \in Nat
        BY Sizes
      <3>2. CASE p = n
        BY <1>1, <1>2, <2>1, <3>2, GivenKept
      <3>3. CASE p # n /\ p < n
        BY <1>1, <1>2, <2>2, <2>3, <3>1, <3>3, GivenKept DEF ReadUpTo
      <3>4. CASE p # n /\ ~(p < n)
        BY <1>2, <1>5, <2>3, <3>1, <3>4 DEF ReadUpTo
      <3> QED
        BY <3>2, <3>3, <3>4
    <2> QED
      BY <2>4 DEF ReadUpTo
  <1>8. Owned'
    <2>1. /\ Owned /\ ReadUpTo(n) /\ n \notin unread
      BY <1>1, <1>2 DEF AtCollect
    <2>2. received_args[n] = NoArgument
      BY <1>2, <2>1 DEF ReadUpTo
    <2>3. n \notin held /\ n \notin lost
      BY <2>1, <2>2 DEF Owned, Leaked, Owns, NoArgument, Argument
    <2>4. held' = {p \in Positions : Owns(received_args'[p])}
      BY <1>2, <1>4, <1>5, <2>1, <2>3 DEF Owned
    <2>5. n \in lost' <=> n \in unread' /\ a.type = "STRING"
      <3>1. CASE way = "STRING"
        <4>1. a.type = "STRING"
          BY <3>1 DEF Fetch, Read, Argument, Numeric
        <4> QED
          BY <1>4, <2>1, <2>3, <3>1, <4>1 DEF Leaks
      <3>2. CASE way = "ARRAY"
        <4>1. a.type = "ARRAY"
          BY <3>2 DEF Fetch, Read, Argument, Numeric
        <4> QED
          BY <1>4, <2>3, <3>2, <4>1 DEF Leaks
      <3>3. CASE way \notin {"STRING", "ARRAY"}
        BY <1>4, <2>1, <2>3, <3>3 DEF Leaks
      <3> QED
        BY <3>1, <3>2, <3>3
    <2>6. ASSUME NEW p \in Positions, p # n
          PROVE  p \in lost' <=> p \in unread' /\ received_args'[p].type = "STRING"
      BY <1>4, <1>5, <2>1, <2>6 DEF Owned, Leaked
    <2>7. Leaked'
      <3>1. lost' \subseteq Positions
        BY <1>6 DEF TypeOK
      <3> QED
        BY <1>5, <2>5, <2>6, <3>1 DEF Leaked
    <2> QED
      BY <2>4, <2>7 DEF Owned
  <1>9. AtCollect'
    <2>1. ReadUpTo(i)'
      BY <1>1, <1>7 DEF ReadUpTo
    <2>2. \A p \in unread' : p < i'
      <3>1. unread \subseteq Positions /\ \A p \in unread : p < n
        BY <1>1 DEF AtCollect, TypeOK
      <3> QED
        BY <1>1, <1>2, <1>4, <3>1, Sizes
    <2> QED
      BY <1>1, <1>8, <2>1, <2>2, GivenKept DEF AtCollect
  <1> QED
    BY <1>1, <1>6, <1>9, RuledKept DEF IInv

LEMMA AfterGiveUp == IInv /\ GiveUp => IInv'
  <1> SUFFICES ASSUME IInv, GiveUp PROVE IInv'
    OBVIOUS
  <1>1. /\ TypeOK /\ Ruled /\ AtCollect /\ loc = "collect" /\ loc' = "gave_up"
        /\ TypeAt(i) = "ARRAY" /\ RuleType(i) = "RAW" /\ required_action' = "NONE_ACTION"
        /\ UNCHANGED <<given, i, received_args, argument_num, held, lost, unread>>
    BY DEF IInv, GiveUp
  <1>2. TypeOK'
    BY <1>1, GivenKept DEF TypeOK, Locations, Actions
  <1>3. AtGaveUp'
    <2>1. ReadUpTo(i)'
      BY <1>1, ReadKept DEF ReadUpTo, AtCollect
    <2>2. TypeAt(i)' = "ARRAY" /\ RuleType(i)' = "RAW"
      BY <1>1, GivenKept DEF TypeAt, RuleType
    <2>3. Owned'
      BY <1>1 DEF AtCollect, Owned, Leaked, Owns
    <2> QED
      BY <1>1, <2>1, <2>2, <2>3, GivenKept DEF AtCollect, AtGaveUp
  <1> QED
    BY <1>1, <1>2, <1>3, RuledKept DEF IInv

\* A rule has cells or has none.
LEMMA KindOf ==
    ASSUME Ruled, loc # "load"
    PROVE  Rule.kind \in {"EMPTY", "LIST"}
  BY DEF Ruled, EMPTY_RULES

\* What follows the reading of the arguments.
LEMMA AfterReading ==
    ASSUME IInv, Ruled', loc' = (IF Rule.kind = "EMPTY" THEN "report" ELSE "compare"),
           UNCHANGED <<given, required_action>>, required_action = action[Row],
           i' = 0, TypeOK', AllRead', Owned', loc # "load"
    PROVE  IInv'
  <1>1. Rule' = Rule /\ Row' = Row /\ action' = action
    BY GivenKept
  <1>2. CASE Rule.kind = "EMPTY"
    <2>1. Through'
      BY <1>1, <1>2 DEF Through, Passed
    <2> QED
      BY <1>1, <1>2, <2>1 DEF IInv, AtReport, Decided
  <1>3. CASE Rule.kind = "LIST"
    <2>1. Passed(i)' /\ \A p \in Positions : ~(p < i')
      BY Sizes DEF Passed
    <2> QED
      BY <1>1, <1>3, <2>1 DEF IInv, AtCompare
  <1> QED
    BY <1>2, <1>3, KindOf DEF IInv

LEMMA AfterCollected == IInv /\ Collected => IInv'
  <1> SUFFICES ASSUME IInv, Collected PROVE IInv'
    OBVIOUS
  <1>1. /\ TypeOK /\ Ruled /\ AtCollect /\ loc = "collect"
        /\ loc' = IF Rule.kind = "EMPTY" THEN "report" ELSE "compare"
        /\ TypeAt(i) = "NONE" /\ argument_num' = i /\ i' = 0
        /\ UNCHANGED <<given, received_args, required_action, held, lost, unread>>
    BY DEF IInv, Collected
  <1>2. TypeOK'
    BY <1>1, GivenKept, Sizes DEF TypeOK, Locations
  <1>3. AllRead'
    <2>1. ReadUpTo(argument_num)'
      BY <1>1, ReadKept DEF ReadUpTo, AtCollect
    <2>2. TypeAt(argument_num)' = "NONE"
      BY <1>1, GivenKept DEF TypeAt
    <2> QED
      BY <1>1, <2>1, <2>2, GivenKept DEF AllRead, AtCollect
  <1>4. Owned'
    BY <1>1 DEF AtCollect, Owned, Leaked, Owns
  <1>5. required_action = action[Row]
    BY <1>1 DEF AtCollect
  <1> QED
    BY <1>1, <1>2, <1>3, <1>4, <1>5, RuledKept, AfterReading

\* What a handler reads through lies among the arguments of the call.
LEMMA FollowedType ==
    ASSUME NEW s \in Special, NEW raw
    PROVE  Followed(s, raw) \subseteq Positions
  <1>1. Len(Ways(s, raw)) \in Nat /\ Len(Ways(s, raw)) <= 6
    BY WaysShape
  <1>2. 0 .. Len(Ways(s, raw)) - 1 \subseteq Positions /\ 4 \in Positions
    BY <1>1, Sizes DEF Positions
  <1> QED
    BY <1>2 DEF Followed

LEMMA AfterCollectSpecial == IInv /\ CollectSpecial => IInv'
  <1> SUFFICES ASSUME IInv, CollectSpecial PROVE IInv'
    OBVIOUS
  <1>1. /\ TypeOK /\ Ruled /\ loc = "special" /\ Row \in Special /\ required_action = action[Row]
        /\ i' = 0 /\ loc' = IF Rule.kind = "EMPTY" THEN "report" ELSE "compare"
        /\ UNCHANGED <<given, required_action>>
    BY DEF IInv, CollectSpecial
  <1>2. PICK fails \in SUBSET Followed(Row, request.raw) :
          LET ways == WaysRead(Row, request.raw, fails)
              Len4 == IF Row = "getsockopt" THEN Int("UINT", WordAt[request.raw[4]]) ELSE 0
              All == [p \in Positions |->
                        IF p < Len(ways) THEN Fetch(ways[p + 1], request.raw[p], Len4, p \in fails)
                        ELSE NoArgument]
          IN  /\ received_args' = All
              /\ held' = {p \in Positions : Owns(All[p])}
              /\ lost' = {p \in Positions : p < Len(ways) /\ Leaks(ways[p + 1], p \in fails)}
              /\ argument_num' = Count(Row, request.raw, fails)
              /\ unread' = IF GivesUp(Row, fails) THEN Positions ELSE fails
    BY DEF CollectSpecial
  <1>3. /\ received_args' =
             [p \in Positions |->
                IF p < Len(WaysRead(Row, request.raw, fails))
                  THEN Fetch(WaysRead(Row, request.raw, fails)[p + 1], request.raw[p],
                             IF Row = "getsockopt" THEN Int("UINT", WordAt[request.raw[4]]) ELSE 0,
                             p \in fails)
                ELSE NoArgument]
        /\ held' = {p \in Positions : Owns(received_args'[p])}
        /\ lost' = {p \in Positions :
                      /\ p < Len(WaysRead(Row, request.raw, fails))
                      /\ Leaks(WaysRead(Row, request.raw, fails)[p + 1], p \in fails)}
        /\ argument_num' = Count(Row, request.raw, fails)
        /\ unread' = IF GivesUp(Row, fails) THEN Positions ELSE fails
    BY <1>2
  <1>4. SpecialRead'
    BY <1>1, <1>3, GivenKept DEF SpecialRead
  <1>5. AllRead'
    BY <1>1, <1>4, GivenKept DEF AllRead
  <1>6. TypeOK'
    <2>1. argument_num' \in 0 .. MaxArgs
      BY <1>1, <1>3, CountType
    <2>2. held' \subseteq Positions /\ lost' \subseteq Positions
      BY <1>3
    <2>3. unread' \subseteq Positions
      BY <1>1, <1>3, FollowedType
    <2>4. DOMAIN received_args' = Positions
      BY <1>3
    <2>5. ASSUME NEW p \in Positions
          PROVE  received_args'[p].type \in {"INT", "UINT"} =>
                   received_args'[p].word \in 0 .. IntSize - 1
      <3>1. CASE p < Len(WaysRead(Row, request.raw, fails))
        <4> PICK way : way = WaysRead(Row, request.raw, fails)[p + 1]
          OBVIOUS
        <4> PICK len : len = IF Row = "getsockopt" THEN Int("UINT", WordAt[request.raw[4]]) ELSE 0
          OBVIOUS
        <4>1. received_args'[p] = Fetch(way, request.raw[p], len, p \in fails)
          BY <1>3, <3>1
        <4>2. request.raw[p] \in Nat /\ WordAt[request.raw[p]] \in Nat /\ DataAt[request.raw[p]] # NoData
          BY <1>1, RowFacts
        <4>3. CASE p \in fails
          <5>1. (p \in fails) = TRUE
            BY <4>3
          <5>2. received_args'[p] = Fetch(way, request.raw[p], len, TRUE)
            BY <4>1, <5>1
          <5> QED
            BY <4>2, <5>2, FetchType
        <4>4. CASE p \notin fails
          <5>1. (p \in fails) = FALSE
            BY <4>4
          <5>2. received_args'[p] = Fetch(way, request.raw[p], len, FALSE)
            BY <4>1, <5>1
          <5> QED
            BY <4>2, <5>2, FetchType
        <4> QED
          BY <4>3, <4>4
      <3>2. CASE ~(p < Len(WaysRead(Row, request.raw, fails)))
        BY <1>3, <3>2 DEF NoArgument, Argument
      <3> QED
        BY <3>1, <3>2
    <2>6. /\ loc' \in Locations /\ i' \in 0 .. MaxArgs /\ required_action' \in Actions
          /\ request'.row \in Syscalls /\ request'.raw \in [Positions -> Nat]
          /\ rules' \in [Syscalls -> Rules] /\ action' \in [Syscalls -> Actions]
      BY <1>1, GivenKept, Sizes DEF TypeOK, Locations
    <2> QED
      BY <2>1, <2>2, <2>3, <2>4, <2>5, <2>6 DEF TypeOK
  <1>7. Owned'
    <2>1. ASSUME NEW p \in Positions
          PROVE  p \in lost' <=> p \in unread' /\ received_args'[p].type = "STRING"
      <3>1. CASE ~(p < Len(WaysRead(Row, request.raw, fails)))
        BY <1>3, <3>1 DEF NoArgument, Argument
      <3>2. CASE p < Len(WaysRead(Row, request.raw, fails))
        <4> PICK way : way = WaysRead(Row, request.raw, fails)[p + 1]
          OBVIOUS
        <4> PICK len : len = IF Row = "getsockopt" THEN Int("UINT", WordAt[request.raw[4]]) ELSE 0
          OBVIOUS
        <4>1. received_args'[p] = Fetch(way, request.raw[p], len, p \in fails)
          BY <1>3, <3>2
        <4>2. /\ way \in HandlersRead(Row) \cup {"ONES"}
              /\ GivesUp(Row, fails) => way # "STRING"
          BY <1>1, <3>2, Sizes, WaysReadShape
        <4>3. received_args'[p].type = "STRING" <=> way = "STRING"
          BY <4>1, <4>2, FetchText
        <4>4. p \in lost' <=> way = "STRING" /\ p \in fails
          BY <1>3, <3>2 DEF Leaks
        <4> QED
          BY <1>3, <4>2, <4>3, <4>4
      <3> QED
        BY <3>1, <3>2
    <2>2. Leaked'
      BY <1>3, <2>1 DEF Leaked
    <2> QED
      BY <1>3, <2>2 DEF Owned
  <1> QED
    BY <1>1, <1>5, <1>6, <1>7, RuledKept, AfterReading

\* The cells of a rule have the types that copying gives them, and a comparison with
\* one of those comes to something.
LEMMA CellTypes ==
    ASSUME Ruled, loc # "load", Rule.kind = "LIST", NEW p \in Positions
    PROVE  Rule.cells[p].type \in Numeric \cup {"NONE", "RAW", "ADDRESS", "STRING", "ARRAY"}
  <1>1. /\ line.args \in Arguments /\ line.n \in 0 .. MaxArgs /\ Row \in Syscalls
        /\ Stops(Row, line.args, line.n) = {}
    BY MatcherAssumption, RowFacts DEF Ruled
  <1>2. Rule.cells = Installed(Row, line.args, line.n)
    BY DEF Ruled, EMPTY_RULES
  <1>3. Installed(Row, line.args, line.n)[p] \in {Copied(ArgTypes[Row][p], line.args[p]), None, Raw}
    BY <1>1 DEF Installed, Reached
  <1>4. Copied(ArgTypes[Row][p], line.args[p]).type
          \in Numeric \cup {"NONE", "RAW", "ADDRESS", "STRING", "ARRAY"}
    <2>1. line.args[p].type \in ArgumentTypes
      BY <1>1 DEF Arguments
    <2> QED
      BY <2>1 DEF Copied, Raw, None, Cell, ArgumentTypes, Numeric
  <1> QED
    BY <1>2, <1>3, <1>4 DEF Raw, None, Cell

LEMMA OutcomeType ==
    ASSUME Ruled, loc # "load", Rule.kind = "LIST", NEW p \in Positions
    PROVE  Outcome(p) \subseteq {"same", "differs", "crash"}
  <1> PICK c, a, t : c = Rule.cells[p] /\ a = received_args[p] /\ t = c.type
    OBVIOUS
  <1>1. t \in Numeric \cup {"NONE", "RAW", "ADDRESS", "STRING", "ARRAY"}
    BY CellTypes
  <1>2. Outcome(p) = Compared(p, c, a)
    BY DEF Outcome
  <1>3. CASE t \in Numeric
    BY <1>2, <1>3 DEF Compared, If, Numeric
  <1>4. CASE t = "NONE"
    BY <1>2, <1>4 DEF Compared, Numeric
  <1>8. CASE t = "RAW"
    BY <1>2, <1>8 DEF Compared, Numeric
  <1>5. CASE t = "ADDRESS"
    BY <1>2, <1>5 DEF Compared, If
  <1>6. CASE t = "STRING"
    BY <1>2, <1>6 DEF Compared, If, Stray, Numeric
  <1>7. CASE t = "ARRAY"
    BY <1>2, <1>7 DEF Compared, If, Stray, Numeric
  <1> QED
    BY <1>1, <1>3, <1>4, <1>5, <1>6, <1>7, <1>8

\* One more position has been compared, or the difference was found.
LEMMA AfterCompare == IInv /\ Compare => IInv'
  <1> SUFFICES ASSUME IInv, Compare PROVE IInv'
    OBVIOUS
  <1>1. /\ TypeOK /\ Ruled /\ AtCompare /\ loc = "compare" /\ TypeAt(i) # "NONE"
        /\ UNCHANGED <<given, received_args, argument_num, held, lost, unread>>
    BY DEF IInv, Compare
  <1> PICK n : n = i
    OBVIOUS
  <1>2. n \in Positions /\ n + 1 \in 0 .. MaxArgs /\ n \in Nat
    <2>1. n \in 0 .. MaxArgs /\ n # MaxArgs
      BY <1>1, RowFacts DEF TypeOK
    <2> QED
      BY <2>1, Sizes DEF Positions
  <1>3. PICK outcome \in Outcome(n) \ {"crash"} : Advance(outcome)
    BY DEF Compare, Outcome
  <1>4. outcome \in {"same", "differs"}
    BY <1>1, <1>2, OutcomeType DEF AtCompare
  <1>5. AllRead /\ Owned /\ required_action = action[Row] /\ Rule.kind = "LIST" /\ Passed(n)
    BY <1>1 DEF AtCompare, Passed
  <1>6. AllRead' /\ Passed(n)' /\ Outcome(n)' = Outcome(n)
    BY <1>1, <1>5, ReadKept
  <1>7. Owned' /\ Row' = Row /\ action' = action /\ Rule' = Rule /\ TypeAt(n)' = TypeAt(n)
    BY <1>1, <1>5, GivenKept DEF Owned, Leaked, Owns
  <1>8. CASE outcome = "same"
    <2>1. i' = n + 1 /\ required_action' = required_action /\ loc' = loc
      BY <1>3, <1>8 DEF Advance
    <2>2. TypeOK'
      BY <1>1, <1>2, <2>1, GivenKept DEF TypeOK, Locations
    <2>3. Passed(n + 1)'
      <3>1. ASSUME NEW p \in Positions, p < n + 1, TypeAt(p)' # "NONE"
            PROVE  "same" \in Outcome(p)'
        <4>1. CASE p = n
          BY <1>3, <1>6, <1>8, <4>1
        <4>2. CASE p # n
          <5>1. p < n
            BY <1>2, <3>1, <4>2, Sizes
          <5> QED
            BY <1>5, <1>6, <1>7, <3>1, <5>1 DEF Passed
        <4> QED
          BY <4>1, <4>2
      <3> QED
        BY <3>1 DEF Passed
    <2>4. \A p \in Positions : p < n + 1 => TypeAt(p)' # "NONE"
      <3> SUFFICES ASSUME NEW p \in Positions, p < n + 1 PROVE TypeAt(p)' # "NONE"
        OBVIOUS
      <3>1. p = n \/ p < i
        BY <1>2, Sizes
      <3>2. TypeAt(p)' = TypeAt(p)
        BY <1>1, GivenKept
      <3> QED
        BY <1>1, <3>1, <3>2 DEF AtCompare
    <2>5. AtCompare'
      <3>1. Passed(i)'
        BY <2>1, <2>3 DEF Passed
      <3>2. \A p \in Positions : p < i' => TypeAt(p)' # "NONE"
        BY <2>1, <2>4
      <3> QED
        BY <1>5, <1>6, <1>7, <2>1, <3>1, <3>2 DEF AtCompare
    <2> QED
      BY <1>1, <2>1, <2>2, <2>5, RuledKept DEF IInv
  <1>9. CASE outcome = "differs"
    <2>1. i' = i /\ required_action' = "NONE_ACTION" /\ loc' = "report"
      BY <1>3, <1>9 DEF Advance
    <2>2. TypeOK'
      BY <1>1, <2>1, GivenKept DEF TypeOK, Locations, Actions
    <2>3. FoundAt("differs")'
      <3>1. Rule'.kind = "LIST" /\ i' \in Positions
        BY <1>2, <1>5, <1>7, <2>1
      <3>2. TypeAt(i)' # "NONE"
        BY <1>1, <2>1, GivenKept DEF TypeAt
      <3>3. Passed(i)'
        BY <1>6, <2>1 DEF Passed
      <3>4. "differs" \in Outcome(i)'
        BY <1>3, <1>6, <1>9, <2>1 DEF Outcome
      <3> QED
        BY <3>1, <3>2, <3>3, <3>4 DEF FoundAt
    <2>4. AtReport'
      BY <1>6, <1>7, <2>1, <2>3 DEF AtReport, Decided
    <2> QED
      BY <1>1, <2>1, <2>2, <2>4, RuledKept DEF IInv
  <1> QED
    BY <1>4, <1>8, <1>9

LEMMA AfterCompareCrashes == IInv /\ CompareCrashes => IInv'
  <1> SUFFICES ASSUME IInv, CompareCrashes PROVE IInv'
    OBVIOUS
  <1>1. /\ TypeOK /\ Ruled /\ AtCompare /\ loc = "compare" /\ TypeAt(i) # "NONE"
        /\ "crash" \in Outcome(i) /\ loc' = "crashed"
        /\ UNCHANGED <<given, i, received_args, argument_num, required_action, held, lost, unread>>
    BY DEF IInv, CompareCrashes, Outcome
  <1> PICK n : n = i
    OBVIOUS
  <1>2. n \in Positions
    <2>1. n \in 0 .. MaxArgs /\ n # MaxArgs
      BY <1>1, RowFacts DEF TypeOK
    <2> QED
      BY <2>1, Sizes DEF Positions
  <1>3. TypeOK'
    BY <1>1, GivenKept DEF TypeOK, Locations
  <1>4. AllRead /\ required_action = action[Row] /\ Rule.kind = "LIST" /\ Passed(n)
    BY <1>1 DEF AtCompare, Passed
  <1>5. AllRead' /\ Passed(n)' /\ Outcome(n)' = Outcome(n)
    BY <1>1, <1>4, ReadKept
  <1>6. Rule' = Rule /\ Row' = Row /\ action' = action
    BY <1>1, GivenKept
  <1>7. FoundAt("crash")'
    <2>1. TypeAt(i)' # "NONE"
      BY <1>1, GivenKept DEF TypeAt
    <2>2. Passed(i)'
      BY <1>1, <1>5 DEF Passed
    <2>3. "crash" \in Outcome(i)'
      BY <1>1, <1>5 DEF Outcome
    <2> QED
      BY <1>1, <1>2, <1>4, <1>6, <2>1, <2>2, <2>3 DEF FoundAt
  <1>8. AtCrashed'
    BY <1>1, <1>4, <1>5, <1>6, <1>7 DEF AtCrashed
  <1> QED
    BY <1>1, <1>3, <1>8, RuledKept DEF IInv

LEMMA AfterAllCompared == IInv /\ AllCompared => IInv'
  <1> SUFFICES ASSUME IInv, AllCompared PROVE IInv'
    OBVIOUS
  <1>1. /\ TypeOK /\ Ruled /\ AtCompare /\ loc = "compare" /\ TypeAt(i) = "NONE"
        /\ loc' = "report"
        /\ UNCHANGED <<given, i, received_args, argument_num, required_action, held, lost, unread>>
    BY DEF IInv, AllCompared
  <1>2. TypeOK'
    BY <1>1, GivenKept DEF TypeOK, Locations
  <1>3. AllRead /\ Owned /\ required_action = action[Row] /\ Passed(i)
    BY <1>1 DEF AtCompare
  <1>4. Passed(MaxArgs)
    <2> SUFFICES ASSUME Rule.kind = "LIST", NEW p \in Positions, TypeAt(p) # "NONE"
                 PROVE  "same" \in Outcome(p)
      BY DEF Passed
    <2>1. p < i
      <3> SUFFICES ASSUME ~(p < i) PROVE FALSE
        OBVIOUS
      <3>1. i \in Positions /\ i <= p
        BY <1>1, Sizes DEF TypeOK, Positions
      <3> QED
        BY <1>1, <3>1, RowFacts
    <2> QED
      BY <1>3, <2>1 DEF Passed
  <1>5. AllRead' /\ Passed(MaxArgs)'
    BY <1>1, <1>3, <1>4, ReadKept
  <1>6. Rule' = Rule /\ Row' = Row /\ action' = action
    BY <1>1, GivenKept
  <1>7. Through'
    BY <1>1, <1>5, GivenKept DEF Through, TypeAt
  <1>8. AtReport'
    BY <1>1, <1>3, <1>5, <1>6, <1>7 DEF AtReport, Decided, Owned, Leaked, Owns
  <1> QED
    BY <1>1, <1>2, <1>8, RuledKept DEF IInv

\* A difference that was found is still there when it is reported.
LEMMA DecidedKept ==
    ASSUME UNCHANGED <<given, i, received_args, unread, required_action>>
    PROVE  /\ \A outcome : FoundAt(outcome) => FoundAt(outcome)'
           /\ Through => Through'
           /\ Decided => Decided'
  <1> PICK n : n = i
    OBVIOUS
  <1>1. Rule' = Rule /\ Row' = Row /\ action' = action
    BY GivenKept
  <1>2. ASSUME NEW outcome, FoundAt(outcome)
        PROVE  FoundAt(outcome)'
    <2>1. TypeAt(i)' # "NONE"
      BY <1>2, GivenKept DEF TypeAt, FoundAt
    <2>2. Passed(n)' /\ Outcome(n)' = Outcome(n)
      BY <1>2, ReadKept DEF FoundAt
    <2>3. Passed(i)'
      BY <2>2 DEF Passed
    <2>4. outcome \in Outcome(i)'
      BY <1>2, <2>2 DEF FoundAt, Outcome
    <2> QED
      BY <1>1, <1>2, <2>1, <2>3, <2>4 DEF FoundAt
  <1>3. Through => Through'
    <2>1. Passed(MaxArgs) => Passed(MaxArgs)'
      BY ReadKept
    <2>2. TypeAt(i)' = TypeAt(i)
      BY GivenKept DEF TypeAt
    <2> QED
      BY <1>1, <2>1, <2>2 DEF Through
  <1> QED
    BY <1>1, <1>2, <1>3 DEF Decided

LEMMA AfterReport == IInv /\ Report => IInv'
  <1> SUFFICES ASSUME IInv, Report PROVE IInv'
    OBVIOUS
  <1>1. /\ TypeOK /\ Ruled /\ AtReport /\ loc = "report" /\ loc' = "decided"
        /\ Reporting => \A p \in Printed : ~CannotPrint(received_args[p])
        /\ held' = held \ Freed
        /\ UNCHANGED <<given, i, received_args, argument_num, required_action, lost, unread>>
    BY DEF IInv, Report
  <1>2. TypeOK'
    BY <1>1, GivenKept DEF TypeOK, Locations
  <1>3. held' = {}
    <2>1. held \subseteq Freed
      BY <1>1 DEF AtReport, Owned, Owns, Freed
    <2> QED
      BY <1>1, <2>1
  <1>4. AllRead' /\ Decided'
    BY <1>1, ReadKept, DecidedKept DEF AtReport
  <1>5. Reporting' = Reporting /\ Printed' = Printed
    BY <1>1 DEF Reporting, Printed
  <1>6. AtDecided'
    BY <1>1, <1>3, <1>4, <1>5 DEF AtDecided, AtReport, Owned, Leaked
  <1> QED
    BY <1>1, <1>2, <1>6, RuledKept DEF IInv

LEMMA AfterReportCrashes == IInv /\ ReportCrashes => IInv'
  <1> SUFFICES ASSUME IInv, ReportCrashes PROVE IInv'
    OBVIOUS
  <1>1. /\ TypeOK /\ Ruled /\ AtReport /\ loc = "report" /\ loc' = "crashed" /\ Reporting
        /\ argument_num = 0 \/ \E p \in Printed : CanCrash(received_args[p])
        /\ UNCHANGED <<given, i, received_args, argument_num, required_action, held, lost, unread>>
    BY DEF IInv, ReportCrashes
  <1>2. TypeOK'
    BY <1>1, GivenKept DEF TypeOK, Locations
  <1>3. required_action = action[Row] /\ Through
    BY <1>1 DEF AtReport, Decided, Reporting
  <1>4. AllRead' /\ Through' /\ Row' = Row /\ action' = action
    BY <1>1, <1>3, ReadKept, DecidedKept, GivenKept DEF AtReport
  <1>5. Printed' = Printed
    BY <1>1 DEF Printed
  <1>6. AtCrashed'
    BY <1>1, <1>3, <1>4, <1>5 DEF AtCrashed
  <1> QED
    BY <1>1, <1>2, <1>6, RuledKept DEF IInv

\* Steps that change nothing.
LEMMA AfterNothing == IInv /\ UNCHANGED vars => IInv'
  <1> SUFFICES ASSUME IInv, UNCHANGED vars PROVE IInv'
    OBVIOUS
  <1>1. UNCHANGED <<given, loc, i, received_args, argument_num, required_action, held, lost, unread>>
    BY DEF vars, matcherVars, given
  <1>2. /\ Rule' = Rule /\ Row' = Row /\ rules' = rules /\ action' = action /\ line' = line
        /\ request' = request /\ TypeAt(i)' = TypeAt(i) /\ RuleType(i)' = RuleType(i)
        /\ \A p : TypeAt(p)' = TypeAt(p)
    BY <1>1, GivenKept DEF TypeAt, RuleType
  <1>3. TypeOK'
    BY <1>1, <1>2 DEF IInv, TypeOK
  <1>4. Ruled'
    BY <1>1, <1>2 DEF IInv, Ruled
  <1>5. /\ AllRead => AllRead'
        /\ Owned => Owned'
        /\ Decided => Decided'
        /\ FoundAt("crash") => FoundAt("crash")'
        /\ Leaked => Leaked'
        /\ Through => Through'
    BY <1>1, ReadKept, DecidedKept DEF Owned, Leaked, Owns
  <1>6. /\ ReadUpTo(i) => ReadUpTo(i)'
        /\ Passed(i) => Passed(i)'
    BY <1>1, ReadKept DEF ReadUpTo, Passed
  <1>7. ASSUME loc = "collect" PROVE AtCollect'
    <2>1. AtCollect
      BY <1>7 DEF IInv
    <2> QED
      BY <1>1, <1>2, <1>5, <1>6, <2>1 DEF AtCollect
  <1>8. ASSUME loc = "gave_up" PROVE AtGaveUp'
    <2>1. AtGaveUp
      BY <1>8 DEF IInv
    <2> QED
      BY <1>1, <1>2, <1>5, <1>6, <2>1 DEF AtGaveUp
  <1>9. ASSUME loc = "compare" PROVE AtCompare'
    <2>1. AtCompare
      BY <1>9 DEF IInv
    <2> QED
      BY <1>1, <1>2, <1>5, <1>6, <2>1 DEF AtCompare
  <1>10. ASSUME loc = "report" PROVE AtReport'
    <2>1. AtReport
      BY <1>10 DEF IInv
    <2> QED
      BY <1>5, <2>1 DEF AtReport
  <1>11. Reporting' = Reporting /\ Printed' = Printed
    BY <1>1 DEF Reporting, Printed
  <1>12. ASSUME loc = "decided" PROVE AtDecided'
    <2>1. AtDecided
      BY <1>12 DEF IInv
    <2> QED
      BY <1>1, <1>5, <1>11, <2>1 DEF AtDecided
  <1>13. ASSUME loc = "crashed" PROVE AtCrashed'
    <2>1. AtCrashed
      BY <1>13 DEF IInv
    <2> QED
      BY <1>1, <1>2, <1>5, <1>11, <2>1 DEF AtCrashed
  <1> QED
    BY <1>1, <1>2, <1>3, <1>4, <1>7, <1>8, <1>9, <1>10, <1>12, <1>13 DEF IInv

\* The invariant holds at every step of every verdict.
THEOREM Invariance == Spec => []IInv
  <1>1. IInv /\ [Next]_vars => IInv'
    BY AfterLoad, AfterEnter, AfterCollect, AfterGiveUp, AfterCollected, AfterCollectSpecial,
       AfterCompare, AfterCompareCrashes, AfterAllCompared, AfterReport, AfterReportCrashes,
       AfterNothing DEF Next, Stopped
  <1> QED
    BY <1>1, Start, PTL DEF Spec

-----------------------------------------------------------------------------
(***************************************************************************)
(* What the verdict has to do with the line and the call.                  *)
(***************************************************************************)

\* Every variable has its type, and an int read from the program its width.
THEOREM TypeCorrect == Spec => []TypeOK
  <1>1. IInv => TypeOK
    BY DEF IInv
  <1> QED
    BY <1>1, Invariance, PTL

\* When the verdict is returned the blocks that are left are those of texts that could
\* not be read, and, where the call is given up, all that had been read.
THEOREM BlocksCounted == Spec => []BlocksAccounted
  <1>1. IInv => BlocksAccounted
    <2> SUFFICES ASSUME IInv PROVE BlocksAccounted
      OBVIOUS
    <2>1. CASE loc = "decided"
      BY <2>1 DEF IInv, AtDecided, Leaked, BlocksAccounted
    <2>2. CASE loc = "gave_up"
      BY <2>2 DEF IInv, AtGaveUp, Owned, Leaked, BlocksAccounted
    <2> QED
      BY <2>1, <2>2 DEF BlocksAccounted
  <1> QED
    BY <1>1, Invariance, PTL

\* The supervisor never acts on a call that the line does not describe: one
\* argument that differs, at any position and of any type, lets it through.
THEOREM MatchesOnly == Spec => []OnlyMatchesActedOn
  <1>1. IInv => OnlyMatchesActedOn
    <2> SUFFICES ASSUME IInv, Acted, NEW p \in Positions, Disagrees(p), p \notin unread
                 PROVE  FALSE
      BY DEF OnlyMatchesActedOn
    <2>1. /\ TypeOK /\ Ruled /\ loc # "load" /\ AllRead /\ Decided
          /\ required_action # "NONE_ACTION"
      BY DEF IInv, Acted, AtReport, AtDecided
    <2>2. Asked(p) /\ Sensible(p) /\ ~Agrees(p)
      BY DEF Disagrees
    <2>3. Outcome(p) = {"differs"}
      BY <2>1, <2>2, ComparedRight DEF If
    <2>4. Passed(MaxArgs)
      BY <2>1 DEF Decided, Through
    <2>5. "same" \in Outcome(p)
      BY <2>1, <2>2, <2>4, CellAsked, Sizes DEF Passed, Asked
    <2> QED
      BY <2>3, <2>5
  <1> QED
    BY <1>1, Invariance, PTL

\* At a position where the rule is clear, that could be read and does not disagree,
\* the comparison finds no difference and does not follow a stray pointer.
LEMMA ClearIsSame ==
    ASSUME TypeOK, Ruled, loc # "load", AllRead, NEW p \in Positions, TypeAt(p) # "NONE",
           Rule.kind = "LIST", Clear(p), p \notin unread
    PROVE  /\ "crash" \notin Outcome(p)
           /\ ~Disagrees(p) => Outcome(p) = {"same"}
  <1>1. CASE RuleType(p) = "NONE"
    <2>1. Rule.cells[p].type = "NONE"
      BY <1>1 DEF RuleType
    <2> QED
      BY <2>1 DEF Outcome, Compared, Numeric
  <1>2. CASE Asked(p) /\ Sensible(p)
    BY <1>2, ComparedRight DEF Disagrees, If
  <1> QED
    BY <1>1, <1>2 DEF Clear

\* A rule that says something clear at every position of its call misses no call
\* it describes.
THEOREM NothingMissed == Spec => []ClearRulesMissNothing
  <1>1. IInv => ClearRulesMissNothing
    <2> SUFFICES ASSUME IInv, loc \in {"decided", "gave_up"}, required_action = "NONE_ACTION",
                        \A p \in Positions : ~Disagrees(p) /\ Clear(p) /\ p \notin unread
                 PROVE  FALSE
      BY DEF ClearRulesMissNothing
    <2>1. TypeOK /\ Ruled /\ loc # "load"
      BY DEF IInv
    <2>2. action[Row] # "NONE_ACTION"
      BY <2>1, MatcherAssumption DEF Ruled
    <2>3. CASE loc = "decided"
      <3>1. AllRead /\ FoundAt("differs")
        BY <2>2, <2>3 DEF IInv, AtDecided, Decided
      <3> QED
        BY <2>1, <3>1, ClearIsSame DEF FoundAt
    <2>4. CASE loc = "gave_up"
      <3>1. Row \notin Special /\ TypeAt(i) = "ARRAY" /\ RuleType(i) = "RAW"
        BY <2>4 DEF IInv, AtGaveUp
      <3>2. i \in Positions
        BY <2>1, <3>1, RowFacts, Sizes DEF TypeOK, Positions
      <3>3. Asked(i)
        BY <3>1, <3>2 DEF Clear
      <3>4. Rule.kind = "LIST" /\ Rule.cells[i].type \in {"ULLONG", "STRING", "ARRAY"}
        BY <2>1, <3>1, <3>2, <3>3, CellAsked DEF Copied, Numeric
      <3> QED
        BY <3>1, <3>4 DEF RuleType
    <2> QED
      BY <2>3, <2>4
  <1> QED
    BY <1>1, Invariance, PTL

\* What the line and the call disagree in is found before the comparison gets further.
LEMMA PassedAgree ==
    ASSUME TypeOK, Ruled, loc # "load", AllRead, NEW n, Passed(n),
           NEW p \in Positions, p < n, Disagrees(p)
    PROVE  p \in unread
  <1> SUFFICES ASSUME p \notin unread PROVE FALSE
    OBVIOUS
  <1>1. Asked(p) /\ Sensible(p) /\ ~Agrees(p)
    BY DEF Disagrees
  <1>2. Outcome(p) = {"differs"}
    BY <1>1, ComparedRight DEF If
  <1>3. "same" \in Outcome(p)
    BY <1>1, CellAsked DEF Passed, Asked
  <1> QED
    BY <1>2, <1>3

\* The supervisor crashes only on a call that agrees with the line so far, and only
\* over a position that could not be read or where the rule is not clear, or, in
\* the report, over an argument that cannot be printed or for want of any.
THEOREM CrashesHaveReasons == Spec => []CrashesExplained
  <1>1. IInv => CrashesExplained
    <2> SUFFICES ASSUME IInv, loc = "crashed"
                 PROVE  CrashesExplained
      BY DEF CrashesExplained
    <2>1. /\ TypeOK /\ Ruled /\ loc # "load" /\ AllRead
          /\ \/ FoundAt("crash")
             \/ Through /\ (argument_num = 0 \/ \E p \in Printed : CanCrash(received_args[p]))
      BY DEF IInv, AtCrashed
    <2>2. CASE FoundAt("crash")
      <3>1. Rule.kind = "LIST" /\ TypeAt(i) # "NONE" /\ i \in Positions /\ Passed(i)
        BY <2>2 DEF FoundAt
      <3>2. \A p \in Positions : Disagrees(p) /\ p < i => p \in unread
        BY <2>1, <3>1, PassedAgree
      <3>3. ~Clear(i) \/ i \in unread
        BY <2>1, <2>2, <3>1, ClearIsSame DEF FoundAt
      <3> QED
        BY <3>1, <3>2, <3>3 DEF CrashesExplained
    <2>3. CASE Through /\ (argument_num = 0 \/ \E p \in Printed : CanCrash(received_args[p]))
      <3>1. Passed(MaxArgs) /\ ~(Rule.kind = "LIST" /\ TypeAt(i) # "NONE")
        BY <2>3 DEF Through
      <3>2. \A p \in Positions : Disagrees(p) => p \in unread
        BY <2>1, <3>1, PassedAgree, Sizes
      <3>3. CASE argument_num = 0
        <4>1. CASE Row \in Special
          <5>1. unread = Positions
            BY <2>1, <3>3, <4>1, NoneCounted DEF AllRead
          <5> QED
            BY <5>1, <3>1, <3>2, Sizes DEF CrashesExplained
        <4>2. CASE Row \notin Special
          <5>1. TypeAt(0) = "NONE"
            BY <2>1, <3>3, <4>2 DEF AllRead
          <5> QED
            BY <5>1, <3>1, <3>2 DEF CrashesExplained
        <4> QED
          BY <4>1, <4>2
      <3>4. CASE \E p \in Printed : CanCrash(received_args[p])
        <4>1. PICK p \in Printed : CanCrash(received_args[p])
          BY <3>4
        <4>2. p \in Positions /\ p < argument_num
          BY <2>1, <4>1, Sizes DEF Printed, TypeOK
        <4>3. ASSUME Clear(p), p \notin unread
              PROVE  Unprintable(p)
          <5>1. received_args[p] \in {Actual(p), NoArgument}
            BY <2>1, <4>2, <4>3, ClearActual
          <5>2. received_args[p].type \in {"STRING", "ARRAY"} => received_args[p].data # NoData
            BY <2>1, <4>2, <4>3, ReceivedType
          <5>3. \/ received_args[p].type = "ARRAY" /\ received_args[p].size = 0
                \/ received_args[p].type = "LLONG" /\ received_args[p].word # 0
            BY <4>1, <5>2 DEF CanCrash, CannotPrint, PrintedAsText
          <5>4. received_args[p] = Actual(p)
            BY <5>1, <5>3 DEF NoArgument, Argument
          <5> QED
            BY <5>3, <5>4 DEF Unprintable
        <4> QED
          BY <3>1, <3>2, <4>2, <4>3 DEF CrashesExplained
      <3> QED
        BY <2>3, <3>3, <3>4
    <2> QED
      BY <2>1, <2>2, <2>3
  <1> QED
    BY <1>1, Invariance, PTL

\* What is received for an argument of an ordinary call has a type.
LEMMA ReceivedSome ==
    ASSUME Ruled, NEW p \in Positions, TypeAt(p) # "NONE", ReadAt(p)
    PROVE  received_args[p].type # "NONE"
  <1>1. PICK way \in ReadsAs(p), fails \in BOOLEAN :
          received_args[p] = Fetch(way, request.raw[p],
                                   IF way = "ARRAY" THEN request.raw[p + 1] ELSE 0, fails)
    BY DEF ReadAt
  <1>2. way \in Types \ {"NONE"}
    BY <1>1, RowFacts DEF ReadsAs, Types, Numeric
  <1>3. CASE way \in Numeric
    BY <1>1, <1>3 DEF Fetch, Argument, Numeric
  <1>4. CASE way = "ADDRESS"
    BY <1>1, <1>4 DEF Fetch, Argument, Numeric
  <1>5. CASE way = "STRING"
    BY <1>1, <1>5 DEF Fetch, Read, Argument, Numeric
  <1>6. CASE way = "ARRAY"
    BY <1>1, <1>6 DEF Fetch, Read, Argument, Numeric
  <1>7. CASE way \in {"VARIAD", "OTHER"}
    BY <1>1, <1>7 DEF Fetch, Argument, Numeric
  <1> QED
    BY <1>2, <1>3, <1>4, <1>5, <1>6, <1>7 DEF Types

\* The arguments of an ordinary call, looked at as a whole and one by one.
LEMMA TakenAre ==
    ASSUME Ruled
    PROVE  Taken = {p \in Positions : TypeAt(p) # "NONE"}
  <1>1. ASSUME NEW p \in Positions, TypeAt(p) # "NONE", NEW q \in 0 .. p
        PROVE  TypeAt(q) # "NONE"
    <2>1. q \in Positions /\ q <= p
      BY Sizes DEF Positions
    <2> QED
      BY <1>1, <2>1, RowFacts
  <1>2. \A p \in Positions : p \in 0 .. p
    BY Sizes
  <1> QED
    BY <1>1, <1>2 DEF Taken

\* What was received is among what may be, and so are the outcomes.
LEMMA ReceivedMay ==
    ASSUME NEW p \in Positions, ReadAt(p), unread = {}
    PROVE  received_args[p] \in Received(p) /\ Outcome(p) \subseteq Outcomes(p)
  <1>1. PICK way \in ReadsAs(p), fails \in BOOLEAN :
          /\ received_args[p] = Fetch(way, request.raw[p],
                                      IF way = "ARRAY" THEN request.raw[p + 1] ELSE 0, fails)
          /\ fails => way \in {"STRING", "ARRAY"} /\ p \in unread
    BY DEF ReadAt
  <1>2. fails = FALSE
    BY <1>1
  <1>3. received_args[p] = Fetch(way, request.raw[p],
                                 IF way = "ARRAY" THEN request.raw[p + 1] ELSE 0, FALSE)
    BY <1>1, <1>2
  <1>4. received_args[p] \in Received(p)
    BY <1>3 DEF Received
  <1> QED
    BY <1>4 DEF Outcome, Outcomes

LEMMA PassedArrives ==
    ASSUME TypeOK, Ruled, AllRead, Row \notin Special, unread = {}, NEW n, Passed(n)
    PROVE  Arrives(n)
  <1> SUFFICES ASSUME Rule.kind = "LIST", NEW q \in Taken, q < n
               PROVE  "same" \in Outcomes(q)
    BY DEF Arrives
  <1>1. q \in Positions /\ TypeAt(q) # "NONE"
    BY TakenAre
  <1>2. "same" \in Outcome(q)
    BY <1>1 DEF Passed
  <1> QED
    BY <1>1, <1>2, AllReceived, ReceivedMay

LEMMA FoundMay ==
    ASSUME TypeOK, Ruled, AllRead, Row \notin Special, unread = {}, NEW outcome, FoundAt(outcome)
    PROVE  May(outcome)
  <1> PICK n : n = i
    OBVIOUS
  <1>1. Rule.kind = "LIST" /\ n \in Positions /\ TypeAt(n) # "NONE" /\ outcome \in Outcome(n)
    BY DEF FoundAt
  <1>2. Passed(n)
    BY DEF FoundAt
  <1>3. n \in Taken /\ Arrives(n) /\ outcome \in Outcomes(n)
    BY <1>1, <1>2, TakenAre, PassedArrives, AllReceived, ReceivedMay
  <1> QED
    BY <1>1, <1>3 DEF May

\* All arguments of an ordinary call are printed.
LEMMA AllPrinted ==
    ASSUME TypeOK, Ruled, AllRead, Row \notin Special
    PROVE  Taken \subseteq Printed
  <1> SUFFICES ASSUME NEW p \in Taken PROVE p \in Printed
    OBVIOUS
  <1>1. p \in Positions /\ TypeAt(p) # "NONE" /\ p \in Nat
    BY TakenAre, Sizes
  <1>2. p < argument_num /\ argument_num \in 0 .. MaxArgs
    BY <1>1, AllReceived DEF TypeOK
  <1>3. ASSUME p < argument_num - 1, NEW q \in 0 .. p
        PROVE  received_args[q + 1].type # "NONE"
    <2>1. q + 1 \in Positions /\ q + 1 < argument_num
      BY <1>1, <1>2, <1>3, Sizes DEF Positions
    <2>2. TypeAt(q + 1) # "NONE" /\ ReadAt(q + 1)
      BY <2>1 DEF AllRead, ReadUpTo
    <2> QED
      BY <2>1, <2>2, ReceivedSome
  <1>4. p = argument_num - 1 \/ p < argument_num - 1
    BY <1>1, <1>2
  <1> QED
    BY <1>1, <1>3, <1>4 DEF Printed

\* Turn by turn the loops come to one of the verdicts that the rule and the call
\* allow when looked at as a whole: Callbox relies on nothing else.
THEOREM VerdictIsAllowed == Spec => []VerdictsFollow
  <1>1. IInv => VerdictsFollow
    <2> SUFFICES ASSUME IInv, Row \notin Special, unread = {}
                 PROVE  /\ loc = "decided" => required_action \in Verdicts
                        /\ loc = "gave_up" => "NONE_ACTION" \in Verdicts
                        /\ loc = "crashed" => "UNREADABLE" \in Verdicts
      BY DEF VerdictsFollow
    <2>1. TypeOK /\ Ruled
      BY DEF IInv
    <2>2. loc # "load" => action[Row] # "NONE_ACTION"
      BY <2>1, MatcherAssumption DEF Ruled
    <2>3. ASSUME loc = "decided"
          PROVE  required_action \in Verdicts
      <3>1. AllRead /\ Decided /\ (Reporting => \A p \in Printed : ~CannotPrint(received_args[p]))
        BY <2>3 DEF IInv, AtDecided
      <3>2. CASE required_action = action[Row] /\ Through
        <4>1. Reporting
          BY <2>2, <2>3, <3>2 DEF Reporting
        <4>2. Arrives(MaxArgs)
          BY <2>1, <3>1, <3>2, PassedArrives DEF Through
        <4>3. ASSUME NEW p \in Taken
              PROVE  \E a \in Received(p) : ~CannotPrint(a)
          <5>1. p \in Positions /\ TypeAt(p) # "NONE" /\ p \in Printed
            BY <2>1, <3>1, TakenAre, AllPrinted
          <5>2. received_args[p] \in Received(p) /\ ~CannotPrint(received_args[p])
            BY <2>1, <3>1, <4>1, <5>1, AllReceived, ReceivedMay
          <5> QED
            BY <5>2
        <4>4. ActedOn
          BY <4>2, <4>3 DEF ActedOn
        <4> QED
          BY <3>2, <4>4 DEF Verdicts
      <3>3. CASE required_action = "NONE_ACTION" /\ FoundAt("differs")
        BY <2>1, <3>1, <3>3, FoundMay DEF Verdicts, LetThrough
      <3> QED
        BY <3>1, <3>2, <3>3 DEF Decided
    <2>4. ASSUME loc = "gave_up"
          PROVE  "NONE_ACTION" \in Verdicts
      <3>1. TypeAt(i) = "ARRAY" /\ RuleType(i) = "RAW"
        BY <2>4 DEF IInv, AtGaveUp
      <3>2. i \in Positions
        BY <2>1, <3>1, RowFacts, Sizes DEF TypeOK, Positions
      <3>3. i \in Taken
        BY <2>1, <3>1, <3>2, TakenAre
      <3> QED
        BY <3>1, <3>3 DEF Verdicts, LetThrough
    <2>5. ASSUME loc = "crashed"
          PROVE  "UNREADABLE" \in Verdicts
      <3>1. /\ AllRead
            /\ \/ FoundAt("crash")
               \/ Through /\ (argument_num = 0 \/ \E p \in Printed : CanCrash(received_args[p]))
        BY <2>5 DEF IInv, AtCrashed
      <3>2. CASE FoundAt("crash")
        BY <2>1, <3>1, <3>2, FoundMay DEF Verdicts, Crashes
      <3>3. CASE Through /\ argument_num = 0
        <4>1. Taken = {}
          <5> SUFFICES ASSUME NEW p \in Taken PROVE FALSE
            OBVIOUS
          <5>1. p \in Positions /\ TypeAt(p) # "NONE" /\ p \in Nat
            BY <2>1, TakenAre, Sizes
          <5>2. p < argument_num
            BY <2>1, <3>1, <5>1, AllReceived
          <5> QED
            BY <3>3, <5>1, <5>2
        <4>2. Arrives(MaxArgs)
          BY <2>1, <3>1, <3>3, PassedArrives DEF Through
        <4> QED
          BY <2>2, <2>5, <4>1, <4>2 DEF Verdicts, Crashes
      <3>4. CASE Through /\ \E p \in Printed : CanCrash(received_args[p])
        <4>1. PICK p \in Printed : CanCrash(received_args[p])
          BY <3>4
        <4>2. p \in Positions /\ p < argument_num
          BY <2>1, Sizes DEF Printed, TypeOK
        <4>3. TypeAt(p) # "NONE" /\ ReadAt(p)
          BY <3>1, <4>2 DEF AllRead, ReadUpTo
        <4>4. p \in Taken /\ received_args[p] \in Received(p)
          BY <2>1, <4>2, <4>3, TakenAre, ReceivedMay
        <4>5. Arrives(MaxArgs)
          BY <2>1, <3>1, <3>4, PassedArrives DEF Through
        <4> QED
          BY <2>2, <2>5, <4>1, <4>4, <4>5 DEF Verdicts, Crashes
      <3> QED
        BY <3>1, <3>2, <3>3, <3>4
    <2> QED
      BY <2>3, <2>4, <2>5
  <1> QED
    BY <1>1, Invariance, PTL

=============================================================================
