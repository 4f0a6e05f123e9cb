----------------------------- MODULE TokenStream -----------------------------
(***************************************************************************)
(* What the lexer promises its caller (src/src/readers.c): the rules file  *)
(* is handed out token by token, each the longest that begins at the first *)
(* character not yet read that is no blank.                                *)
(*                                                                         *)
(* A file is a sequence of bytes, named by the character they stand for.   *)
(* EndByte is the byte 0xff: as a char it equals EOF, so it ends the file  *)
(* for whoever meets it.                                                   *)
(***************************************************************************)
EXTENDS SequencesExt

CONSTANTS
    Alphabet,   \* the bytes in rules files
    MaxLen,     \* how long a file is at most (a bound)
    Capacity    \* what a text holds before its buffer must grow, 20 in the code

EndByte   == "0xff"
Backslash == "\\"
Quotes    == {"\"", "/"}
Blanks    == {" ", "\t"}
Digits    == {"0", "1", "2", "3", "4", "5", "6", "7", "8", "9", "a", "b", "c", "d", "e", "f"}
Single    == [c \in {",", ":", "{", "}", "=", "\n"} |->
                CASE c = "," -> "COMMA"   [] c = ":" -> "COLON"  [] c = "{" -> "LBRACE"
                  [] c = "=" -> "EQ_SIGN" [] c = "}" -> "RBRACE" [] OTHER -> "ENDL"]
Stoppers  == DOMAIN Single \cup Blanks

\* What a character stands for after a backslash.
Escape ==
    [c \in {"a", "b", "e", "f", "n", "r", "t", "v", Backslash, "'", "\"", "?", " "} |->
        CASE c = "a" -> "BEL" [] c = "b" -> "BS" [] c = "e" -> "ESC" [] c = "f" -> "FF"
          [] c = "n" -> "\n"  [] c = "r" -> "\r" [] c = "t" -> "\t"  [] c = "v" -> "VT" [] OTHER -> c]

ASSUME TokenStreamAssumption ==
    /\ MaxLen \in Nat
    /\ Capacity \in Nat \ {0}

VARIABLES
    bytes,     \* the file
    at,        \* the first character not read
    tokens     \* the tokens handed out

vars == <<bytes, at, tokens>>

NoText == <<>>   \* a NULL body; the type tells it from an empty text
Tok(type, text) == [type |-> type, text |-> text]

\* The byte read at i; getc behind the last one gives EOF.
Char(i) == IF i <= Len(bytes) THEN bytes[i] ELSE EndByte
Ends(i) == Char(i) = EndByte

\* Where the next token begins.
Start == CHOOSE s \in at .. Len(bytes) + 1 :
            /\ Char(s) \notin Blanks
            /\ \A i \in at .. s - 1 : bytes[i] \in Blanks

\* Of the backslashes before k, back to the opening quote at s, the number is odd.
Escaped(s, k) ==
    \E j \in s .. k - 1 : /\ (k - 1 - j) % 2 = 1
                          /\ \A i \in j + 1 .. k - 1 : bytes[i] = Backslash
                          /\ bytes[j] # Backslash

\* The text that opens at s and closes at the first quote that is not escaped.
Closes(s, e) ==
    /\ e \in s + 1 .. Len(bytes) /\ bytes[e] = bytes[s] /\ ~Escaped(s, e)
    /\ \A k \in s + 1 .. e - 1 :
         /\ bytes[k] # EndByte
         /\ bytes[k] = bytes[s] => Escaped(s, k)
         /\ Escaped(s, k) => bytes[k] \in DOMAIN Escape

\* The text between s and e: an escaped character for the two it is written with.
Kept(s, e)  == {k \in s + 1 .. e - 1 : bytes[k] # Backslash \/ Escaped(s, k)}
Meant(s, k) == IF Escaped(s, k) THEN Escape[bytes[k]] ELSE bytes[k]
TextBetween(s, e) ==
    [i \in 1 .. Cardinality(Kept(s, e)) |->
        LET UpTo(k) == {j \in Kept(s, e) : j <= k} IN
        Meant(s, Max({k \in Kept(s, e) : Cardinality(UpTo(k)) <= i}))]

\* The word s .. e.
Word(s, e) ==
    /\ e \in s .. Len(bytes)
    /\ \A i \in s .. e : bytes[i] \notin Stoppers \cup {EndByte}
    /\ Char(e + 1) \in Stoppers \cup {EndByte}
IsNumber(w) == \A i \in DOMAIN w : w[i] \in Digits \/ (i = 2 /\ w[i] = "x")

Over == tokens # <<>> /\ Last(tokens).type \in {"EOF", "ERR"}
HandOut(type, text) == ~Over /\ tokens' = Append(tokens, Tok(type, text)) /\ UNCHANGED bytes

Init ==
    /\ \E n \in 0 .. MaxLen : bytes \in [1 .. n -> Alphabet]
    /\ at = 1 /\ tokens = <<>>

EndOfFile ==
    /\ Ends(Start)
    /\ HandOut("EOF", NoText)
    /\ UNCHANGED at

HandSingle ==
    /\ ~Ends(Start) /\ Char(Start) \in DOMAIN Single
    /\ HandOut(Single[Char(Start)], NoText)
    /\ at' = Start + 1

HandText ==
    /\ ~Ends(Start) /\ Char(Start) \in Quotes
    /\ \E e \in Start .. Len(bytes) :
         /\ Closes(Start, e)
         /\ HandOut(IF Char(Start) = "/" THEN "REGEX" ELSE "STRING", TextBetween(Start, e))
         /\ at' = e + 1

\* A word is over at a stopper, which is read again, or at the end.
HandWord ==
    /\ ~Ends(Start) /\ Char(Start) \notin Quotes
    /\ \E e \in Start .. Len(bytes) :
         /\ Word(Start, e)
         /\ LET w == SubSeq(bytes, Start, e) IN
            HandOut(IF IsNumber(w) THEN "NUMBER" ELSE "OPERATOR", w)
         /\ at' = IF e < Len(bytes) /\ bytes[e + 1] = EndByte THEN e + 2 ELSE e + 1

\* A text that is not closed, or has an escape sequence that means nothing.
Refuse ==
    /\ ~Ends(Start) /\ Char(Start) \in Quotes
    /\ ~\E e \in Start .. Len(bytes) : Closes(Start, e)
    /\ HandOut("ERR", NoText)
    /\ UNCHANGED at

\* There may be no memory for a text or a word longer than its first buffer.
OutOfMemory ==
    /\ Len(bytes) - Start >= Capacity /\ Char(Start) \notin DOMAIN Single
    /\ \A i \in Start .. Start + Capacity :
         bytes[i] # EndByte /\ (bytes[i] \in Stoppers => Char(Start) \in Quotes)
    /\ HandOut("ERR", NoText)
    /\ UNCHANGED at

Next == EndOfFile \/ HandSingle \/ HandText \/ HandWord \/ Refuse \/ OutOfMemory

\* The caller asks until it has an EOF or an ERR, and gets it.
Spec == Init /\ [][Next]_vars /\ WF_vars(Next)

=============================================================================
