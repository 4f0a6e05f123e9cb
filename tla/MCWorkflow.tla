----------------------------- MODULE MCWorkflow -----------------------------
(***************************************************************************)
(* Rules files for TLC.  Three positions stand for six.  The three calls   *)
(* have an argument of every kind the table tells apart: a string and an   *)
(* int, an array, an address, an unsigned long long and a variadic one.    *)
(***************************************************************************)
EXTENDS WorkflowProofs, Integers

CONSTANTS MaxLines, MaxTokens   \* how much a file has at most

MCSyscalls == {"open", "read", "ioctl"}
MCNotFound == "none"
MCTexts == {"filter", "deny", "notify", "bogus", "open", "read", "ioctl",
            "arg0", "arg1", "arg2", "arg3", "argx", "7", "huge", "word", "0x1-0x9"}
MCNumberOf == [t \in MCTexts |-> IF t \in MCSyscalls THEN t ELSE MCNotFound]
MCArgTypes ==
    [s \in MCSyscalls |-> [p \in 0 .. 2 |->
        CASE s = "open"  -> <<"STRING", "INT", "NONE">>[p + 1]
          [] s = "read"  -> <<"UINT", "ARRAY", "NONE">>[p + 1]
          [] s = "ioctl" -> <<"ADDRESS", "ULLONG", "VARIAD">>[p + 1]]]
MCReadable ==   \* strtoul takes what strtol finds out of range
    (Numeric \X {"7"}) \cup {<<"UINT", "huge">>, <<"ULONG", "huge">>}
MCNotArg == -1
MCBadNumber == -2
MCRanges == {"0x1-0x9"}
MCArgNumber ==
    [t \in MCTexts |-> CASE t = "arg0" -> 0 [] t = "arg1" -> 1 [] t = "arg2" -> 2
                         [] t = "arg3" -> 3 [] t = "argx" -> -2 [] OTHER -> -1]
MCBytesOf == {"7"}

Op(t)  == [type |-> "OPERATOR", text |-> t]
Num(t) == [type |-> "NUMBER", text |-> t]
Str(t) == [type |-> "STRING", text |-> t]
Sep(t) == [type |-> t, text |-> NoText]
Endl   == Sep("ENDL")
Rule(a, s) == <<Op(a), Sep("COLON"), Op(s)>>
Arg(n, v)  == <<Op(n), Sep("EQ_SIGN"), v>>
Braces(e)  == <<Sep("LBRACE")>> \o e \o <<Sep("RBRACE")>>
ArgList(n, e) == <<Op(n), Sep("EQ_SIGN")>> \o Braces(e)

\* Lines as users write them: complete, with gaps, with values of the wrong kind.
GoodLines == {
    <<>>,
    Rule("deny", "open"),
    Rule("filter", "open") \o Arg("arg0", Str("word")),
    Rule("notify", "open") \o Arg("arg1", Num("7")) \o <<Sep("COMMA")>> \o Arg("arg0", Str("word")),
    Rule("deny", "open") \o Arg("arg0", Str("word")) \o Arg("arg0", [Str("7") EXCEPT !.type = "REGEX"]),
    Rule("deny", "open") \o Arg("arg1", Num("huge")),
    Rule("deny", "open") \o Arg("arg2", Num("7")),
    Rule("filter", "read") \o Arg("arg0", Num("huge")),
    Rule("filter", "read") \o ArgList("arg1", <<Num("7"), Sep("COMMA"), Num("7")>>) \o Arg("arg0", Num("7")),
    Rule("deny", "read") \o Arg("arg1", Str("word")),
    Rule("notify", "ioctl") \o Arg("arg0", Num("7")) \o Arg("arg1", Num("7")) \o Arg("arg2", Str("word")),
    Rule("notify", "ioctl") \o Arg("arg0", Str("0x1-0x9")) \o Arg("arg2", Num("7"))}

\* Lines that are refused, or should be.
BadLines == {
    Rule("bogus", "open"),
    Rule("deny", "word"),
    <<Op("deny"), Sep("COLON")>>,
    <<Op("deny"), Op("open")>>,
    Rule("deny", "open") \o Arg("arg0", Num("7")) \o Arg("arg1", Num("7")),
    Rule("deny", "open") \o Arg("arg1", Str("word")) \o Arg("arg0", Num("7")),
    Rule("deny", "open") \o Arg("arg3", Num("7")),
    Rule("deny", "open") \o <<Op("arg0"), Str("word")>>,
    Rule("deny", "open") \o <<Op("arg0"), Sep("EQ_SIGN"), Op("word")>>,
    Rule("deny", "open") \o <<Str("word")>>,
    Rule("deny", "open") \o <<Op("arg0"), Sep("EQ_SIGN")>>,
    Rule("deny", "read") \o ArgList("arg1", <<>>),
    Rule("deny", "read") \o ArgList("arg1", <<Num("7"), Endl>>),
    Rule("deny", "read") \o ArgList("arg1", <<Str("word")>>),
    Rule("deny", "read") \o <<Op("arg1"), Sep("EQ_SIGN"), Sep("LBRACE"), Num("7")>>,
    Rule("deny", "read") \o <<Op("arg1"), Sep("EQ_SIGN"), Sep("LBRACE"), Sep("ERR")>>,
    Rule("deny", "read") \o <<Op("arg1"), Sep("EQ_SIGN"), Sep("LBRACE")>>,
    Rule("deny", "ioctl") \o ArgList("arg1", <<Num("7")>>),
    <<Sep("ERR")>>}

Lines == {l \o <<Endl>> : l \in GoodLines \cup BadLines}

\* Any tokens in any order.
AnyTokens == {Op("deny"), Op("open"), Op("arg0"), Num("7"), Str("word")}
                 \cup {Sep(t) : t \in {"COLON", "EQ_SIGN", "ENDL", "LBRACE", "RBRACE"}}

\* Up to MaxLines of these lines, the last with or without its newline, and up
\* to MaxTokens tokens, at the start of the file or after a good line.
MCFiles ==
    LET Of[n \in 0 .. MaxLines] ==
            IF n = 0 THEN {<<>>}
            ELSE {f \o l : f \in Of[n - 1], l \in Lines}
        Soup == UNION {[1 .. n -> AnyTokens] : n \in 1 .. MaxTokens}
    IN  UNION {Of[n] : n \in 0 .. MaxLines}
          \cup {f \o l : f \in Of[MaxLines - 1], l \in GoodLines}
          \cup Soup
          \cup {Rule("notify", "open") \o <<Endl>> \o f : f \in Soup}

=============================================================================
