----------------------------- MODULE MCCallbox -----------------------------
(***************************************************************************)
(* Four rows of the table with their types, two calls to one of them with  *)
(* different arguments, and files of one or two lines about them.          *)
(***************************************************************************)
EXTENDS Callbox, Integers

MCCalls == {"execve(x)", "exit_group", "unlink(x)", "unlink(y)", "pwrite64"}
MCSyscalls == {"execve", "exit_group", "unlink", "pwrite64"}
MCTypes(s) == CASE s = "execve"     -> <<"STRING", "ARRAY", "ARRAY", "NONE">>
                [] s = "exit_group" -> <<"INT", "NONE", "NONE", "NONE">>
                [] s = "pwrite64"   -> <<"UINT", "STRING", "ULONG", "LLONG">>
                [] s = "unlink"     -> <<"STRING", "NONE", "NONE", "NONE">>
MCArgTypes == [s \in MCSyscalls |-> [p \in 0 .. 3 |-> MCTypes(s)[p + 1]]]
MCRequestOf ==
    [c \in MCCalls |->
        [row |-> CASE c = "execve(x)"   -> "execve"
                   [] c = "exit_group" -> "exit_group"
                   [] c = "pwrite64"   -> "pwrite64"
                   [] OTHER            -> "unlink",
         \* what the kernel takes of the int 9 is 1
         raw |-> [p \in 0 .. 3 |-> IF p # 0 THEN 1 ELSE CASE c = "unlink(y)"  -> 2
                                                           [] c = "exit_group" -> 9
                                                           [] OTHER            -> 1]]]

MCTexts == MCSyscalls \cup {"filter", "deny", "notify", "arg0", "arg1", "arg2", "x", "y", "1"}
MCNotFound == "none"
MCNumberOf == [t \in MCTexts |-> IF t \in MCSyscalls THEN t ELSE MCNotFound]
MCReadable == Numeric \X {"1"}
MCNotArg == -1
MCBadNumber == -2
MCArgNumber == [t \in MCTexts |-> CASE t = "arg0" -> 0 [] t = "arg1" -> 1
                                            [] t = "arg2" -> 2 [] OTHER -> -1]
MCNumber == [t \in MCTexts |-> 1]
MCWordAt == [w \in 0 .. 9 |-> w]
MCDataAt == [w \in 1 .. 9 |-> IF w = 2 THEN "y" ELSE "x"]
MCMatches == {<<"x", "x">>, <<"y", "y">>}
MCArrayOf == [b \in Blocks |-> [size |-> 1, data |-> "x"]]
MCJunkReturns == {0, 77}

Op(t)  == [type |-> "OPERATOR", text |-> t]
Str(t) == [type |-> "STRING", text |-> t]
Num(t) == [type |-> "NUMBER", text |-> t]
Sep(t) == [type |-> t, text |-> NoText]
Rule(a, s) == <<Op(a), Sep("COLON"), Op(s)>>
Arg(n, t)  == <<Op(n), Sep("EQ_SIGN"), Str(t)>>
End        == <<Sep("ENDL")>>

MCLines == {
    Rule("deny", "unlink"),
    Rule("filter", "unlink") \o Arg("arg0", "x"),
    Rule("deny", "unlink") \o Arg("arg0", "y"),
    Rule("notify", "unlink"),
    Rule("filter", "execve"),
    Rule("deny", "execve") \o Arg("arg1", "x"),
    Rule("filter", "execve") \o Arg("arg0", "x") \o Arg("arg1", "x") \o Arg("arg2", "x"),
    Rule("deny", "pwrite64"),
    Rule("deny", "exit_group"),
    Rule("deny", "exit_group") \o <<Op("arg0"), Sep("EQ_SIGN"), Num("1")>>}
MCFiles ==
    {<<>>, <<Op("deny"), Sep("COMMA")>>}
        \cup {l \o End : l \in MCLines}
        \cup {Rule("filter", "unlink") \o Arg("arg0", "x") \o End \o Rule("deny", "exit_group") \o End,
              Rule("deny", "unlink") \o Arg("arg0", "y") \o End \o Rule("deny", "execve") \o End,
              Rule("deny", "execve") \o Arg("arg1", "x") \o End \o Rule("deny", "exit_group") \o End,
              Rule("filter", "unlink") \o Arg("arg0", "x") \o End \o Rule("deny", "unlink") \o End}
=============================================================================
