-------------------------------- MODULE Lexer --------------------------------
(***************************************************************************)
(* next_token and lex_string (src/src/readers.c), called until there is no *)
(* more to read.  A step is one turn of a loop; getc is part of the turn   *)
(* that calls it.  The heap block a text is gathered in has size bytes, of *)
(* which the code believes to have capacity.                               *)
(***************************************************************************)
EXTENDS TokenStream

VARIABLES
    pos,             \* the next byte of the FILE
    loc,             \* where the lexer is
    ch, brk,         \* the character read, the quote that closes the text
    text, capacity, size,  \* the characters gathered, and the block they are in
    parsing_number,
    heap             \* the blocks allocated and not freed

bufferVars == <<text, capacity, size>>
lexerVars == <<bytes, at, tokens, pos, loc, ch, brk, bufferVars, parsing_number, heap>>

EOF == EndByte   \* (char)EOF is the byte 0xff

After(i) == IF i <= Len(bytes) THEN i + 1 ELSE i
Getc == ch' = Char(pos) /\ pos' = After(pos)

LexerInit ==
    /\ Init
    /\ pos = 1 /\ loc = "called" /\ ch = EOF /\ brk = EOF
    /\ text = <<>> /\ capacity = Capacity /\ size = Capacity
    /\ parsing_number = FALSE /\ heap = 0

(***************************************************************************)
(* next_token begins.                                                      *)
(***************************************************************************)
Call ==
    /\ loc = "called"
    /\ Getc
    /\ loc' = "begin"
    /\ UNCHANGED <<bytes, at, tokens, brk, bufferVars, parsing_number, heap>>

SkipBlank ==
    /\ loc = "begin" /\ ch \in Blanks
    /\ Getc
    /\ UNCHANGED <<bytes, at, tokens, loc, brk, bufferVars, parsing_number, heap>>

\* The caller asks again unless it got an EOF or an ERR.
ReturnToken(type, body) ==
    /\ tokens' = Append(tokens, Tok(type, body))
    /\ loc' = IF type \in {"EOF", "ERR"} THEN "over" ELSE "called"
    /\ UNCHANGED <<bytes, brk, bufferVars, parsing_number>>

ReturnEOF ==
    /\ loc = "begin" /\ ch = EOF
    /\ ReturnToken("EOF", NoText)
    /\ UNCHANGED <<at, pos, ch, heap>>

ReturnSingle ==
    /\ loc = "begin" /\ ch \in DOMAIN Single
    /\ ReturnToken(Single[ch], NoText)
    /\ at' = pos
    /\ UNCHANGED <<pos, ch, heap>>

NewBuffer == text' = <<>> /\ capacity' = Capacity /\ size' = Capacity /\ heap' = heap + 1

OpenText ==
    /\ loc = "begin" /\ ch \in Quotes
    /\ NewBuffer
    /\ brk' = ch
    /\ Getc
    /\ loc' = "text"
    /\ UNCHANGED <<bytes, at, tokens, parsing_number>>

OpenWord ==
    /\ loc = "begin" /\ ch \notin Blanks \cup DOMAIN Single \cup Quotes \cup {EOF}
    /\ NewBuffer
    /\ parsing_number' = TRUE
    /\ loc' = "word"
    /\ UNCHANGED <<bytes, at, tokens, pos, ch, brk>>

(***************************************************************************)
(* The buffer.                                                             *)
(***************************************************************************)

\* Mutant of Full: the buffer grows one character late.
FullLate == Len(text) > capacity

Full == Len(text) >= capacity

Put(c) ==
    /\ text' = Append(text, c)
    /\ IF Full THEN capacity' = 2 * capacity /\ size' = 2 * capacity + 1
               ELSE UNCHANGED <<capacity, size>>

\* Mutant of Release: the error path keeps the buffer.
ReleaseNothing == UNCHANGED heap

Release == heap' = heap - 1   \* free

\* goto err, when realloc fails.
GrowthFails ==
    /\ \/ loc = "text" /\ ch \notin {EOF, brk}
       \/ loc = "word" /\ ch \notin Stoppers \cup {EOF}
    /\ Full
    /\ ReturnToken("ERR", NoText)
    /\ Release
    /\ UNCHANGED <<at, pos, ch>>

(***************************************************************************)
(* lex_string                                                              *)
(***************************************************************************)
TextCharacter ==
    /\ loc = "text" /\ ch \notin {EOF, brk, Backslash}
    /\ Put(ch)
    /\ Getc
    /\ UNCHANGED <<bytes, at, tokens, loc, brk, parsing_number, heap>>

TextEscape ==
    /\ loc = "text" /\ ch = Backslash /\ Char(pos) \in DOMAIN Escape
    /\ Put(Escape[Char(pos)])
    /\ ch' = Char(pos + 1) /\ pos' = After(pos + 1)
    /\ UNCHANGED <<bytes, at, tokens, loc, brk, parsing_number, heap>>

\* The buffer is lost.
BadEscape ==
    /\ loc = "text" /\ ch = Backslash /\ Char(pos) \notin DOMAIN Escape
    /\ ReturnToken("ERR", NoText)
    /\ Getc
    /\ UNCHANGED <<at, heap>>

CloseText ==
    /\ loc = "text" /\ ch = brk
    /\ ReturnToken(IF brk = "/" THEN "REGEX" ELSE "STRING", text)
    /\ at' = pos
    /\ UNCHANGED <<pos, ch, heap>>

NotClosed ==
    /\ loc = "text" /\ ch = EOF
    /\ ReturnToken("ERR", NoText)
    /\ Release
    /\ UNCHANGED <<at, pos, ch>>

(***************************************************************************)
(* Numbers and operators.                                                  *)
(***************************************************************************)

\* A digit, where a to f are digits, or the x of 0x.
InNumber(c, len) == c \in Digits \/ (len = 1 /\ c = "x")

WordCharacter ==
    /\ loc = "word" /\ ch \notin Stoppers \cup {EOF}
    /\ parsing_number' = (parsing_number /\ InNumber(ch, Len(text)))
    /\ Put(ch)
    /\ Getc
    /\ UNCHANGED <<bytes, at, tokens, loc, brk, heap>>

\* Mutant of PutBack: the stopper is not returned to the stream.
PutBackNothing == pos' = pos

\* ungetc of a stopper
PutBack == pos' = IF ch \in Stoppers THEN pos - 1 ELSE pos

EndWord ==
    /\ loc = "word" /\ ch \in Stoppers \cup {EOF}
    /\ ReturnToken(IF parsing_number THEN "NUMBER" ELSE "OPERATOR", text)
    /\ PutBack
    /\ at' = pos'
    /\ UNCHANGED <<ch, heap>>

LexerNext ==
    \/ Call \/ SkipBlank \/ ReturnEOF \/ ReturnSingle \/ OpenText \/ OpenWord
    \/ GrowthFails \/ TextCharacter \/ TextEscape \/ BadEscape \/ CloseText \/ NotClosed
    \/ WordCharacter \/ EndWord
    \/ loc = "over" /\ UNCHANGED lexerVars

LexerSpec == LexerInit /\ [][LexerNext]_lexerVars

\* One thread, which goes on as long as it can.
LexerFairSpec == LexerSpec /\ WF_lexerVars(LexerNext)

-----------------------------------------------------------------------------
(***************************************************************************)
(* Properties.                                                             *)
(***************************************************************************)
WithBody == {"NUMBER", "OPERATOR", "STRING", "REGEX"}
Gathering == loc \in {"text", "word"}

\* Every variable has its type; the number of blocks is never negative, which a
\* block freed twice would make it.
Characters == Alphabet \cup {Escape[c] : c \in DOMAIN Escape}
TokenTypes == WithBody \cup {Single[c] : c \in DOMAIN Single} \cup {"EOF", "ERR"}
Tokens == [type : TokenTypes, text : Seq(Characters)]
TypeOK ==
    /\ bytes \in Seq(Alphabet) /\ at \in Nat /\ pos \in Nat \ {0}
    /\ tokens \in Seq(Tokens) /\ heap \in Nat
    /\ loc \in {"called", "begin", "text", "word", "over"}
    /\ ch \in Alphabet \cup {EOF} /\ brk \in Quotes \cup {EOF}
    /\ text \in Seq(Characters) /\ capacity \in Nat \ {0} /\ size \in Nat
    /\ parsing_number \in BOOLEAN

\* Characters are written inside the block, however often it has grown, and so
\* is the terminator of a text, unless the text has exactly the Capacity (20)
\* characters of the first block: then it is written right behind it.
InsideBuffer ==
    Gathering => /\ Len(text) <= size
                 /\ Len(text) = size => size = Capacity

\* Every block is the body of a token handed out, or in use, or was freed; one
\* can be lost: that of a text with a bad escape sequence, which ends it all.
Lost == heap - Cardinality({k \in DOMAIN tokens : tokens[k].type \in WithBody})
             - (IF Gathering THEN 1 ELSE 0)
AllHandedOut ==
    \/ Lost = 0
    \/ /\ Lost = 1 /\ Over /\ Last(tokens).type = "ERR"
       /\ \E k \in Start + 1 .. Len(bytes) + 1 : Escaped(Start, k) /\ Char(k) \notin DOMAIN Escape

\* Through the tokens handed out and the place of the first character not read,
\* the lexer keeps TokenStream's promise: it neither drops nor doubles a
\* character, splits or joins tokens, or reads on for ever.
Stream == Spec

=============================================================================
