----------------------------- MODULE LexerProofs -----------------------------
(***************************************************************************)
(* For every alphabet, every file and every first size of the buffer: the  *)
(* lexer's buffer holds what is written into it, the tokens are those that *)
(* TokenStream promises, and no block is lost but by a bad escape.         *)
(***************************************************************************)
EXTENDS Lexer, FiniteSetTheorems, SequenceTheorems, TLAPS

\* Types, and that a character that was read can be put back.
BufferTypes ==
    /\ TypeOK
    /\ loc # "called" /\ ch # EOF => pos > 1

\* A block that has grown has room for a terminator behind capacity characters.
Room ==
    /\ size = capacity + 1 \/ (size = capacity /\ capacity = Capacity)
    /\ Len(text) <= capacity

BufferInv == BufferTypes /\ (Gathering => Room /\ heap > 0)

\* getc stays inside the file and returns a character of it or EOF.
LEMMA GetcType ==
    ASSUME bytes \in Seq(Alphabet), NEW i \in Nat \ {0}
    PROVE  /\ Char(i) \in Alphabet \cup {EOF}
           /\ After(i) \in Nat \ {0}
           /\ Char(i) # EOF => After(i) > 1
<1>1. CASE i <= Len(bytes)
    BY <1>1 DEF Char, After
<1>2. CASE ~(i <= Len(bytes))
    BY <1>2 DEF Char, After, EOF
<1> QED BY <1>1, <1>2

\* One more character is within the block, grown or not.
LEMMA PutFits ==
    ASSUME TypeOK, Room, NEW c \in Characters, Put(c)
    PROVE  /\ text' \in Seq(Characters) /\ capacity' \in Nat \ {0} /\ size' \in Nat
           /\ Room'
<1>1. text' \in Seq(Characters) /\ Len(text') = Len(text) + 1 /\ Len(text) \in Nat
    BY DEF Put, TypeOK
<1>2. CASE Full
    BY <1>1, <1>2 DEF Put, TypeOK, Room, Full
<1>3. CASE ~Full
    BY <1>1, <1>3 DEF Put, TypeOK, Room, Full
<1> QED BY <1>2, <1>3

\* A token is handed out, and the caller asks again unless it is the last one.
LEMMA Returns ==
    ASSUME TypeOK, NEW type \in TokenTypes, NEW body \in Seq(Characters), ReturnToken(type, body)
    PROVE  /\ tokens' \in Seq(Tokens) /\ tokens' = Append(tokens, Tok(type, body))
           /\ loc' \in {"called", "over"}
           /\ loc' = "over" <=> type \in {"EOF", "ERR"}
           /\ UNCHANGED <<bytes, brk, text, capacity, size, parsing_number>>
<1>1. Tok(type, body) \in Tokens
    BY DEF Tok, Tokens
<1> QED BY <1>1 DEF ReturnToken, TypeOK, bufferVars

LEMMA TokenKinds ==
    /\ {"EOF", "ERR", "STRING", "REGEX", "NUMBER", "OPERATOR"} \subseteq TokenTypes
    /\ \A c \in DOMAIN Single : Single[c] \in TokenTypes \ ({"EOF", "ERR"} \cup WithBody)
    /\ NoText \in Seq(Characters)
<1>1. \A c \in DOMAIN Single : Single[c] \notin {"EOF", "ERR"} \cup WithBody
    BY DEF Single, WithBody
<1>2. <<>> \in Seq(Characters)
    OBVIOUS
<1>3. \A c \in DOMAIN Single : Single[c] \in TokenTypes
    BY DEF TokenTypes
<1> QED BY <1>1, <1>2, <1>3 DEF TokenTypes, WithBody, NoText

LEMMA InitBuffer == LexerInit => BufferInv
<1> SUFFICES ASSUME LexerInit PROVE BufferInv
    OBVIOUS
<1>1. PICK n \in 0 .. MaxLen : bytes \in [1 .. n -> Alphabet]
    BY DEF LexerInit, Init
<1>2. bytes \in Seq(Alphabet)
    BY <1>1, TokenStreamAssumption
<1>3. at = 1 /\ tokens = <<>> /\ parsing_number \in BOOLEAN
    BY DEF LexerInit, Init
<1>4. <<>> \in Seq(Tokens)
    OBVIOUS
<1> QED BY <1>2, <1>3, <1>4, TokenStreamAssumption DEF LexerInit, BufferInv, BufferTypes, TypeOK, Gathering

LEMMA NextBuffer == BufferInv /\ [LexerNext]_lexerVars => BufferInv'
<1> SUFFICES ASSUME BufferInv, [LexerNext]_lexerVars PROVE BufferInv'
    OBVIOUS
<1> USE DEF BufferInv, BufferTypes, TypeOK
<1>g. /\ Char(pos) \in Alphabet \cup {EOF} /\ After(pos) \in Nat \ {0}
      /\ Char(pos) # EOF => After(pos) > 1
    BY GetcType
<1>1. CASE Call
    BY <1>1, <1>g DEF Call, Getc, Gathering, bufferVars
<1>2. CASE SkipBlank
    BY <1>2, <1>g DEF SkipBlank, Getc, Gathering, bufferVars
<1>3. CASE ReturnEOF \/ ReturnSingle
    <2>1. PICK type \in TokenTypes : ReturnToken(type, NoText)
        BY <1>3, TokenKinds DEF ReturnEOF, ReturnSingle
    <2> QED BY <1>3, <2>1, Returns, TokenKinds DEF ReturnEOF, ReturnSingle, Gathering
<1>4. CASE OpenText
    BY <1>4, <1>g, TokenStreamAssumption DEF OpenText, NewBuffer, Getc, Gathering, Room
<1>5. CASE OpenWord
    BY <1>5, TokenStreamAssumption DEF OpenWord, NewBuffer, Gathering, Room
<1>6. CASE GrowthFails
    BY <1>6, Returns, TokenKinds DEF GrowthFails, Release, Gathering
<1>7. CASE TextCharacter
    <2>1. ch \in Characters
        BY <1>7 DEF TextCharacter, Characters
    <2>2. Put(ch) /\ Room
        BY <1>7 DEF TextCharacter, Gathering
    <2> QED BY <2>1, <2>2, <1>7, <1>g, PutFits DEF TextCharacter, Getc, Gathering
<1>8. CASE TextEscape
    <2>1. Escape[Char(pos)] \in Characters
        BY <1>8 DEF TextEscape, Characters
    <2>2. Put(Escape[Char(pos)]) /\ Room
        BY <1>8 DEF TextEscape, Gathering
    <2>3. /\ Char(pos + 1) \in Alphabet \cup {EOF} /\ After(pos + 1) \in Nat \ {0}
          /\ Char(pos + 1) # EOF => After(pos + 1) > 1
        BY GetcType
    <2> QED BY <2>1, <2>2, <2>3, <1>8, PutFits DEF TextEscape, Gathering
<1>9. CASE BadEscape
    BY <1>9, <1>g, Returns, TokenKinds DEF BadEscape, Getc, Gathering
<1>10. CASE CloseText
    BY <1>10, Returns, TokenKinds DEF CloseText, Gathering
<1>14. CASE NotClosed
    BY <1>14, Returns, TokenKinds DEF NotClosed, Release, Gathering
<1>11. CASE WordCharacter
    <2>1. ch \in Characters
        BY <1>11 DEF WordCharacter, Characters
    <2>2. Put(ch) /\ Room
        BY <1>11 DEF WordCharacter, Gathering
    <2> QED BY <2>1, <2>2, <1>11, <1>g, PutFits DEF WordCharacter, Getc, Gathering
<1>12. CASE EndWord
    <2>0. EOF \notin Stoppers
        <3>1. DOMAIN Single = {",", ":", "{", "}", "=", "\n"}
            BY DEF Single
        <3> QED BY <3>1 DEF Stoppers, EOF, EndByte, Blanks
    <2>1. pos' \in Nat \ {0}
        BY <2>0, <1>12 DEF EndWord, PutBack
    <2>2. /\ loc' = "called" /\ at' \in Nat /\ tokens' \in Seq(Tokens)
          /\ UNCHANGED <<bytes, ch, brk, text, capacity, size, parsing_number, heap>>
        BY <2>1, <1>12, Returns, TokenKinds DEF EndWord
    <2> QED BY <2>1, <2>2 DEF Gathering
<1>13. CASE UNCHANGED lexerVars
    BY <1>13 DEF lexerVars, bufferVars, Gathering, Room
<1> QED BY <1>1, <1>2, <1>3, <1>4, <1>5, <1>6, <1>7, <1>8, <1>9, <1>10, <1>11, <1>12, <1>13, <1>14
        DEF LexerNext

\* The lexer never writes outside its buffer, except the terminator of a text of
\* exactly Capacity characters, for every file (lex_string, next_token).
THEOREM BufferHolds == LexerSpec => []InsideBuffer
<1>1. BufferInv => InsideBuffer
    BY DEF BufferInv, BufferTypes, TypeOK, Room, InsideBuffer
<1> QED BY InitBuffer, NextBuffer, <1>1, PTL DEF LexerSpec

\* Every variable of the lexer keeps its type, for every alphabet and file.
THEOREM LexerTypes == LexerSpec => []TypeOK
<1>1. BufferInv => TypeOK
    BY DEF BufferInv, BufferTypes
<1> QED BY InitBuffer, NextBuffer, <1>1, PTL DEF LexerSpec

(***************************************************************************)
(* That the lexer keeps TokenStream's promise, step by step: the character *)
(* read last, and what has been gathered, say where in the file it is.     *)
(***************************************************************************)

\* Where the next token begins is the first character that is no blank.
BlankTo(q) == \A i \in at .. q - 1 : bytes[i] \in Blanks
Begins(s)  == s \in at .. Len(bytes) + 1 /\ Char(s) \notin Blanks /\ BlankTo(s)

LEMMA StartThere ==
    ASSUME bytes \in Seq(Alphabet), at \in Nat, NEW s, Begins(s)
    PROVE  Start = s
<1>1. s \in Int /\ Len(bytes) \in Nat
    BY DEF Begins
<1>2. ASSUME NEW t \in at .. Len(bytes) + 1, Char(t) \notin Blanks, BlankTo(t)
      PROVE  t = s
    <2>1. ~(t < s)
        <3>1. t < s => t \in at .. s - 1 /\ t <= Len(bytes)
            BY <1>1 DEF Begins
        <3> QED BY <3>1, <1>2 DEF Begins, BlankTo, Char
    <2>2. ~(s < t)
        <3>1. s < t => s \in at .. t - 1 /\ s <= Len(bytes)
            BY <1>1 DEF Begins
        <3> QED BY <3>1, <1>2 DEF Begins, BlankTo, Char
    <2> QED BY <1>1, <2>1, <2>2
<1> QED BY <1>2 DEF Start, Begins, BlankTo

\* An even number of backslashes stands before q.
Even(s, q) ==
    \E j \in s .. q - 1 : /\ (q - 1 - j) % 2 = 0
                          /\ \A i \in j + 1 .. q - 1 : bytes[i] = Backslash
                          /\ bytes[j] # Backslash

LEMMA EvenNotEscaped ==
    ASSUME NEW s \in Nat, NEW q \in Nat, Even(s, q)
    PROVE  ~Escaped(s, q)
<1>1. PICK j \in s .. q - 1 : /\ (q - 1 - j) % 2 = 0
                              /\ \A i \in j + 1 .. q - 1 : bytes[i] = Backslash
                              /\ bytes[j] # Backslash
    BY DEF Even
<1>2. ASSUME NEW k \in s .. q - 1, (q - 1 - k) % 2 = 1, bytes[k] # Backslash,
             \A i \in k + 1 .. q - 1 : bytes[i] = Backslash
      PROVE  FALSE
    <2>1. j \notin k + 1 .. q - 1 /\ k \notin j + 1 .. q - 1
        BY <1>1, <1>2
    <2>2. j = k
        BY <2>1
    <2> QED BY <1>1, <1>2, <2>2
<1> QED BY <1>2 DEF Escaped

\* What comes behind a character that is no backslash, a backslash, and what
\* that one escapes.
LEMMA EvenPlain ==
    ASSUME NEW s \in Nat, NEW q \in Nat, s <= q, bytes[q] # Backslash
    PROVE  Even(s, q + 1)
<1>1. q \in s .. (q + 1) - 1 /\ ((q + 1) - 1 - q) % 2 = 0 /\ (q + 1 .. (q + 1) - 1) = {}
    OBVIOUS
<1> QED BY <1>1 DEF Even

LEMMA EvenBackslash ==
    ASSUME NEW s \in Nat, NEW q \in Nat, s < q, Even(s, q), bytes[q] = Backslash
    PROVE  Escaped(s, q + 1) /\ Even(s, q + 2)
<1>1. PICK j \in s .. q - 1 : /\ (q - 1 - j) % 2 = 0
                              /\ \A i \in j + 1 .. q - 1 : bytes[i] = Backslash
                              /\ bytes[j] # Backslash
    BY DEF Even
<1>2. j \in s .. (q + 1) - 1 /\ ((q + 1) - 1 - j) % 2 = 1
    BY <1>1
<1>3. \A i \in j + 1 .. (q + 1) - 1 : bytes[i] = Backslash
    BY <1>1
<1>4. Escaped(s, q + 1)
    BY <1>1, <1>2, <1>3 DEF Escaped
<1>5. CASE bytes[q + 1] = Backslash
    <2>1. j \in s .. (q + 2) - 1 /\ ((q + 2) - 1 - j) % 2 = 0
        BY <1>1
    <2>2. \A i \in j + 1 .. (q + 2) - 1 : bytes[i] = Backslash
        BY <1>3, <1>5
    <2> QED BY <1>1, <1>4, <2>1, <2>2 DEF Even
<1>6. CASE bytes[q + 1] # Backslash
    <2>1. (q + 1) + 1 = q + 2
        OBVIOUS
    <2>2. Even(s, (q + 1) + 1)
        BY <1>6, EvenPlain
    <2> QED BY <1>4, <2>1, <2>2
<1> QED BY <1>5, <1>6

\* A character behind all others is the last one of the text.
LEMMA TextGrows ==
    ASSUME NEW s \in Nat, NEW e \in Nat, NEW m \in Nat, s < m, e <= m,
           Kept(s, m + 1) = Kept(s, e) \cup {m}
    PROVE  TextBetween(s, m + 1) = Append(TextBetween(s, e), Meant(s, m))
<1> DEFINE K == Kept(s, e)
           L == K \cup {m}
           n == Cardinality(K)
           Up(k) == {j \in K : j <= k}
           UpL(k) == {j \in L : j <= k}
<1>1. K \subseteq s + 1 .. e - 1 /\ m \notin K /\ \A k \in K : k \in Nat /\ k < m
    BY DEF Kept
<1>2. IsFiniteSet(K) /\ n \in Nat
    <2>1. IsFiniteSet(s + 1 .. e - 1)
        BY FS_Interval
    <2> QED BY <1>1, <2>1, FS_Subset, FS_CardinalityType
<1>3. IsFiniteSet(L) /\ Cardinality(L) = n + 1
    BY <1>1, <1>2, FS_AddElement
<1>4. \A k \in K : UpL(k) = Up(k) /\ Cardinality(Up(k)) \in Nat /\ Cardinality(Up(k)) <= n
    <2> SUFFICES ASSUME NEW k \in K
                 PROVE  UpL(k) = Up(k) /\ Cardinality(Up(k)) \in Nat /\ Cardinality(Up(k)) <= n
        OBVIOUS
    <2>1. UpL(k) = Up(k)
        BY <1>1
    <2>2. Up(k) \subseteq K
        OBVIOUS
    <2> QED BY <2>1, <2>2, <1>2, FS_Subset, FS_CardinalityType
<1>5. Cardinality(UpL(m)) = n + 1
    <2>1. UpL(m) = L
        BY <1>1
    <2> HIDE DEF UpL, L, n
    <2> QED BY <2>1, <1>3
<1>6. \A i \in 1 .. n : {k \in L : Cardinality(UpL(k)) <= i} = {k \in K : Cardinality(Up(k)) <= i}
    <2> SUFFICES ASSUME NEW i \in 1 .. n
                 PROVE  {k \in L : Cardinality(UpL(k)) <= i} = {k \in K : Cardinality(Up(k)) <= i}
        OBVIOUS
    <2>1. ~(Cardinality(UpL(m)) <= i)
        <3> HIDE DEF UpL
        <3> QED BY <1>2, <1>5
    <2>2. \A k \in K : Cardinality(UpL(k)) = Cardinality(Up(k))
        BY <1>4
    <2> HIDE DEF UpL, Up
    <2> QED BY <2>1, <2>2
<1>7. {k \in L : Cardinality(UpL(k)) <= n + 1} = L
    <2>1. \A k \in L : Cardinality(UpL(k)) <= n + 1
        <3>1. \A k \in K : Cardinality(UpL(k)) <= n + 1
            <4> HIDE DEF UpL, Up, n
            <4> QED BY <1>2, <1>4
        <3> HIDE DEF UpL, n
        <3> QED BY <3>1, <1>2, <1>5
    <2> HIDE DEF UpL, n
    <2> QED BY <2>1
<1>8. Max(L) = m
    <2>1. \A k \in L : k \in Nat /\ m >= k
        BY <1>1
    <2>2. \A x \in L : (\A y \in L : x >= y) => x = m
        BY <2>1
    <2> QED BY <2>1, <2>2 DEF Max
<1>9. TextBetween(s, e) = [i \in 1 .. n |-> Meant(s, Max({k \in K : Cardinality(Up(k)) <= i}))]
    BY DEF TextBetween
<1>10. TextBetween(s, m + 1) = [i \in 1 .. n + 1 |-> Meant(s, Max({k \in L : Cardinality(UpL(k)) <= i}))]
    BY <1>3 DEF TextBetween
<1> HIDE DEF K, L, n, Up, UpL
<1> DEFINE A(i) == Meant(s, Max({k \in K : Cardinality(Up(k)) <= i}))
           B(i) == Meant(s, Max({k \in L : Cardinality(UpL(k)) <= i}))
<1>11. /\ TextBetween(s, e) = [i \in 1 .. n |-> A(i)]
       /\ TextBetween(s, m + 1) = [i \in 1 .. n + 1 |-> B(i)]
    BY <1>9, <1>10
<1>12. \A i \in 1 .. n : B(i) = A(i)
    BY <1>6
<1>13. B(n + 1) = Meant(s, m)
    BY <1>7, <1>8
<1> HIDE DEF A, B
<1> QED BY <1>2, <1>11, <1>12, <1>13

(***************************************************************************)
(* The inductive invariant: where the lexer is in the file.                *)
(***************************************************************************)

\* The character that was read last is the one at q.
At(q) == q \in at .. Len(bytes) + 1 /\ ch = Char(q) /\ pos = After(q)

\* A text, or a word, begins at s, and what is before q has been gathered.
InText(s, q) ==
    /\ Begins(s) /\ bytes[s] = brk /\ brk \in Quotes
    /\ s < q /\ Even(s, q)
    /\ \A k \in s + 1 .. q - 1 :
         /\ bytes[k] # EndByte
         /\ bytes[k] = brk => Escaped(s, k)
         /\ Escaped(s, k) => bytes[k] \in DOMAIN Escape
    /\ text = TextBetween(s, q)
InWord(s, q) ==
    /\ Begins(s) /\ Char(s) \notin Quotes \cup Stoppers \cup {EndByte}
    /\ s <= q /\ \A i \in s .. q - 1 : bytes[i] \notin Stoppers \cup {EndByte}
    /\ text = SubSeq(bytes, s, q - 1) /\ (parsing_number <=> IsNumber(text))

Place ==
    /\ at \in 1 .. Len(bytes) + 1
    /\ loc = "called" => pos = at
    /\ loc = "begin" => \E q \in Nat : At(q) /\ BlankTo(q)
    /\ loc = "text" => \E s, q \in Nat : At(q) /\ InText(s, q)
    /\ loc = "word" => \E s, q \in Nat : At(q) /\ InWord(s, q)
    /\ Over <=> loc = "over"
    /\ Gathering => capacity >= Capacity

LexerInv == BufferInv /\ Place

LEMMA Kinds ==
    /\ EOF = EndByte /\ EndByte \notin Stoppers \cup Quotes /\ Backslash \notin Quotes \cup {EndByte}
    /\ Quotes \cap Stoppers = {} /\ Blanks \subseteq Stoppers /\ DOMAIN Single \subseteq Stoppers
    /\ DOMAIN Single \cap Blanks = {}
<1>1. DOMAIN Single = {",", ":", "{", "}", "=", "\n"}
    BY DEF Single
<1>2. \A c \in DOMAIN Single : c \notin Blanks /\ c \notin Quotes /\ c # EndByte
    BY <1>1, Zenon DEF EndByte, Blanks, Quotes
<1>3. Backslash \notin Quotes \cup {EndByte}
    BY DEF Backslash, Quotes, EndByte
<1>4. \A c \in Blanks : c \notin Quotes /\ c # EndByte
    BY Zenon DEF Blanks, Quotes, EndByte
<1>5. EndByte \notin Quotes
    BY DEF EndByte, Quotes
<1> QED BY <1>2, <1>3, <1>4, <1>5 DEF Stoppers, EOF

\* What is said of the file stands as it does.
LEMMA FileStands ==
    ASSUME UNCHANGED bytes
    PROVE  /\ \A i : Char(i)' = Char(i) /\ After(i)' = After(i)
           /\ \A s, q : (Escaped(s, q)' <=> Escaped(s, q)) /\ (Even(s, q)' <=> Even(s, q))
           /\ \A s, q : TextBetween(s, q)' = TextBetween(s, q)
           /\ UNCHANGED at => \A q : (BlankTo(q)' <=> BlankTo(q)) /\ (Begins(q)' <=> Begins(q))
<1>1. \A i : Char(i)' = Char(i) /\ After(i)' = After(i)
    BY DEF Char, After
<1>2. \A s, q : (Escaped(s, q)' <=> Escaped(s, q)) /\ (Even(s, q)' <=> Even(s, q))
    BY DEF Escaped, Even
<1>3. \A s, q : TextBetween(s, q)' = TextBetween(s, q)
    <2>1. \A s, q : Kept(s, q)' = Kept(s, q)
        BY <1>2 DEF Kept
    <2>2. \A s, k : Meant(s, k)' = Meant(s, k)
        BY <1>2 DEF Meant
    <2> QED BY <2>1, <2>2 DEF TextBetween
<1>4. UNCHANGED at => \A q : (BlankTo(q)' <=> BlankTo(q)) /\ (Begins(q)' <=> Begins(q))
    BY <1>1 DEF BlankTo, Begins
<1> QED BY <1>1, <1>2, <1>3, <1>4

\* A character that is not EOF is in the file, and the next one comes behind it.
LEMMA AtNext ==
    ASSUME BufferInv, NEW q \in Nat, At(q), ch # EOF
    PROVE  /\ q <= Len(bytes) /\ ch = bytes[q] /\ pos = q + 1 /\ q \in at .. Len(bytes)
           /\ Getc /\ UNCHANGED <<bytes, at>> => At(q + 1)'
<1>1. bytes \in Seq(Alphabet) /\ at \in Nat /\ Len(bytes) \in Nat
    BY DEF BufferInv, BufferTypes, TypeOK
<1>2. q <= Len(bytes) /\ ch = bytes[q] /\ pos = q + 1
    BY <1>1 DEF At, Char, After, EOF
<1>3. ASSUME Getc, UNCHANGED <<bytes, at>> PROVE At(q + 1)'
    <2>1. ch' = Char(q + 1) /\ pos' = After(q + 1)
        BY <1>2, <1>3 DEF Getc
    <2> QED BY <1>1, <1>2, <1>3, <2>1, FileStands DEF At
<1> QED BY <1>1, <1>2, <1>3 DEF At

\* A token is handed out as TokenStream does.
LEMMA HandsOut ==
    ASSUME LexerInv, loc # "over", NEW type \in TokenTypes, NEW body \in Seq(Characters),
           ReturnToken(type, body)
    PROVE  HandOut(type, body) /\ (Over' <=> loc' = "over") /\ ~Gathering'
<1>1. /\ tokens' = Append(tokens, Tok(type, body)) /\ bytes' = bytes
      /\ loc' \in {"called", "over"} /\ (loc' = "over" <=> type \in {"EOF", "ERR"})
    BY Returns DEF LexerInv, BufferInv, BufferTypes
<1>2. ~Over
    BY DEF LexerInv, Place
<1>3. tokens \in Seq(Tokens) /\ Tok(type, body) \in Tokens
    BY DEF LexerInv, BufferInv, BufferTypes, TypeOK, Tok, Tokens
<1>4. tokens' # <<>> /\ Last(tokens') = Tok(type, body)
    BY <1>1, <1>3 DEF Last
<1>5. Over' <=> type \in {"EOF", "ERR"}
    BY <1>4 DEF Over, Tok
<1> QED BY <1>1, <1>2, <1>5 DEF HandOut, Gathering

LEMMA Basics ==
    ASSUME LexerInv
    PROVE  /\ TypeOK /\ bytes \in Seq(Alphabet) /\ Len(bytes) \in Nat
           /\ at \in 1 .. Len(bytes) + 1 /\ at \in Nat
BY DEF LexerInv, BufferInv, BufferTypes, TypeOK, Place

(***************************************************************************)
(* The steps of next_token outside of texts and words.                     *)
(***************************************************************************)
LEMMA PlaceCall == LexerInv /\ Call => Place' /\ [Next]_vars
<1> SUFFICES ASSUME LexerInv, Call PROVE Place' /\ UNCHANGED vars
    OBVIOUS
<1>1. UNCHANGED vars
    BY DEF Call, vars
<1>2. At(at)' /\ BlankTo(at)'
    BY <1>1, Basics, FileStands DEF LexerInv, Place, Call, Getc, At, BlankTo, vars
<1>3. (Over' <=> Over) /\ loc' = "begin"
    BY <1>1 DEF Over, vars, Call
<1>4. at' = at /\ at \in Nat /\ at' \in 1 .. Len(bytes') + 1
    BY <1>1, Basics DEF vars
<1> QED BY <1>1, <1>2, <1>3, <1>4 DEF LexerInv, Place, Call, Gathering

LEMMA PlaceBlank == LexerInv /\ SkipBlank => Place' /\ [Next]_vars
<1> SUFFICES ASSUME LexerInv, SkipBlank PROVE Place' /\ UNCHANGED vars
    OBVIOUS
<1>1. UNCHANGED vars /\ loc = "begin" /\ loc' = loc /\ Getc /\ ch \in Blanks
    BY DEF SkipBlank, vars
<1>2. PICK q \in Nat : At(q) /\ BlankTo(q)
    BY <1>1 DEF LexerInv, Place
<1>3. ch # EOF
    BY <1>1, Kinds
<1>4. At(q + 1)' /\ q <= Len(bytes) /\ bytes[q] \in Blanks
    BY <1>1, <1>2, <1>3, AtNext DEF LexerInv, vars
<1>5. BlankTo(q + 1)
    BY <1>2, <1>4, Basics DEF BlankTo
<1>6. BlankTo(q + 1)' /\ (Over' <=> Over) /\ at' \in 1 .. Len(bytes') + 1
    BY <1>1, <1>5, FileStands, Basics DEF Over, vars
<1> QED BY <1>1, <1>4, <1>6 DEF LexerInv, Place, Gathering

LEMMA PlaceEOF == LexerInv /\ ReturnEOF => Place' /\ [Next]_vars
<1> SUFFICES ASSUME LexerInv, ReturnEOF PROVE Place' /\ Next
    OBVIOUS
<1>1. loc = "begin" /\ ch = EOF /\ ReturnToken("EOF", NoText) /\ UNCHANGED at
    BY DEF ReturnEOF
<1>2. PICK q \in Nat : At(q) /\ BlankTo(q)
    BY <1>1 DEF LexerInv, Place
<1>3. Begins(q) /\ Char(q) = EndByte
    BY <1>1, <1>2, Kinds DEF At, Begins
<1>4. Start = q
    BY <1>3, StartThere, Basics
<1>5. HandOut("EOF", NoText) /\ Over' /\ loc' = "over" /\ UNCHANGED bytes
    BY <1>1, HandsOut, TokenKinds, Returns, Basics
<1>6. EndOfFile
    BY <1>1, <1>3, <1>4, <1>5 DEF EndOfFile, Ends
<1> QED BY <1>1, <1>5, <1>6, Basics DEF Next, Place, Gathering

LEMMA PlaceSingle == LexerInv /\ ReturnSingle => Place' /\ [Next]_vars
<1> SUFFICES ASSUME LexerInv, ReturnSingle PROVE Place' /\ Next
    OBVIOUS
<1>1. /\ loc = "begin" /\ ch \in DOMAIN Single /\ ReturnToken(Single[ch], NoText)
      /\ at' = pos /\ pos' = pos
    BY DEF ReturnSingle
<1>2. PICK q \in Nat : At(q) /\ BlankTo(q)
    BY <1>1 DEF LexerInv, Place
<1>3. ch # EOF /\ ch \notin Blanks
    BY <1>1, Kinds
<1>4. q <= Len(bytes) /\ pos = q + 1 /\ q \in at .. Len(bytes)
    BY <1>2, <1>3, AtNext DEF LexerInv
<1>5. Begins(q) /\ Char(q) = ch
    BY <1>2, <1>3 DEF At, Begins
<1>6. Start = q
    BY <1>5, StartThere, Basics
<1>7. /\ HandOut(Single[ch], NoText) /\ loc' = "called" /\ ~Over' /\ UNCHANGED bytes
    BY <1>1, HandsOut, TokenKinds, Returns, Basics
<1>8. HandSingle
    BY <1>1, <1>3, <1>4, <1>5, <1>6, <1>7, Kinds DEF HandSingle, Ends
<1> QED BY <1>1, <1>4, <1>7, <1>8, Basics DEF Next, Place, Gathering

\* The quote opens a text that is empty so far.
LEMMA TextEmpty ==
    ASSUME NEW s \in Nat
    PROVE  TextBetween(s, s + 1) = <<>>
<1>1. Kept(s, s + 1) = {}
    BY DEF Kept
<1>2. Cardinality(Kept(s, s + 1)) = 0
    BY <1>1, FS_EmptySet
<1> QED BY <1>2 DEF TextBetween

LEMMA PlaceOpenText == LexerInv /\ OpenText => Place' /\ [Next]_vars
<1> SUFFICES ASSUME LexerInv, OpenText PROVE Place' /\ UNCHANGED vars
    OBVIOUS
<1>1. /\ loc = "begin" /\ loc' = "text" /\ ch \in Quotes /\ brk' = ch /\ text' = <<>>
      /\ capacity' = Capacity /\ Getc /\ UNCHANGED vars
    BY DEF OpenText, NewBuffer, vars
<1>2. PICK q \in Nat : At(q) /\ BlankTo(q)
    BY <1>1 DEF LexerInv, Place
<1>3. ch # EOF /\ ch \notin Blanks /\ ch # Backslash
    BY <1>1, Kinds
<1>4. At(q + 1)' /\ ch = bytes[q]
    BY <1>1, <1>2, <1>3, AtNext DEF LexerInv, vars
<1>5. Begins(q) /\ Even(q, q + 1) /\ TextBetween(q, q + 1) = <<>>
    <2>1. Begins(q)
        BY <1>2, <1>3 DEF At, Begins
    <2>2. bytes[q] # Backslash
        BY <1>3, <1>4
    <2> QED BY <2>1, <2>2, EvenPlain, TextEmpty
<1>6. InText(q, q + 1)'
    BY <1>1, <1>2, <1>4, <1>5, FileStands DEF InText, vars
<1>7. (Over' <=> Over) /\ at' \in 1 .. Len(bytes') + 1 /\ capacity' >= Capacity
    BY <1>1, Basics, TokenStreamAssumption DEF Over, vars
<1> QED BY <1>1, <1>2, <1>4, <1>6, <1>7 DEF LexerInv, Place, Gathering

LEMMA PlaceOpenWord == LexerInv /\ OpenWord => Place' /\ [Next]_vars
<1> SUFFICES ASSUME LexerInv, OpenWord PROVE Place' /\ UNCHANGED vars
    OBVIOUS
<1>1. /\ loc = "begin" /\ loc' = "word" /\ text' = <<>> /\ parsing_number'
      /\ ch \notin Quotes \cup Stoppers \cup {EndByte}
      /\ capacity' = Capacity /\ UNCHANGED vars /\ UNCHANGED <<ch, pos>>
    BY Kinds DEF OpenWord, NewBuffer, vars, Stoppers
<1>2. PICK q \in Nat : At(q) /\ BlankTo(q)
    BY <1>1 DEF LexerInv, Place
<1>3. Begins(q) /\ Char(q) = ch
    BY <1>1, <1>2, Kinds DEF At, Begins
<1>4. SubSeq(bytes, q, q - 1) = <<>> /\ IsNumber(<<>>)
    BY Basics DEF IsNumber
<1>5. At(q)' /\ InWord(q, q)'
    BY <1>1, <1>2, <1>3, <1>4, FileStands DEF At, InWord, IsNumber, vars
<1>6. (Over' <=> Over) /\ at' \in 1 .. Len(bytes') + 1 /\ capacity' >= Capacity
    BY <1>1, Basics, TokenStreamAssumption DEF Over, vars
<1> QED BY <1>1, <1>2, <1>5, <1>6 DEF LexerInv, Place, Gathering

\* 0xff is nothing an escape sequence can end with.
LEMMA EscapeDomain == EndByte \notin DOMAIN Escape
<1>1. DOMAIN Escape = {"a", "b", "e", "f", "n", "r", "t", "v", Backslash, "'", "\"", "?", " "}
    BY DEF Escape
<1>2. \A c \in DOMAIN Escape : c # EndByte
    BY <1>1, Zenon DEF EndByte, Backslash
<1> QED BY <1>2

\* What is kept of a text up to and with q.
LEMMA KeptNext ==
    ASSUME NEW s \in Nat, NEW q \in Nat, s < q
    PROVE  /\ bytes[q] # Backslash \/ Escaped(s, q) => Kept(s, q + 1) = Kept(s, q) \cup {q}
           /\ bytes[q] = Backslash /\ ~Escaped(s, q) => Kept(s, q + 1) = Kept(s, q)
<1>1. s + 1 .. (q + 1) - 1 = (s + 1 .. q - 1) \cup {q}
    OBVIOUS
<1> QED BY <1>1 DEF Kept

\* The buffer never shrinks.
LEMMA PutGrows ==
    ASSUME TypeOK, capacity >= Capacity, NEW c, Put(c)
    PROVE  capacity' >= Capacity /\ text' = Append(text, c)
<1>1. capacity \in Nat /\ Capacity \in Nat
    BY TokenStreamAssumption DEF TypeOK
<1> QED BY <1>1 DEF Put

(***************************************************************************)
(* The steps of lex_string.                                                *)
(***************************************************************************)

\* The next character of the text is q.
LEMMA PlaceTextCharacter == LexerInv /\ TextCharacter => Place' /\ [Next]_vars
<1> SUFFICES ASSUME LexerInv, TextCharacter PROVE Place' /\ UNCHANGED vars
    OBVIOUS
<1>1. /\ loc = "text" /\ loc' = loc /\ ch \notin {EOF, brk, Backslash} /\ brk' = brk
      /\ Put(ch) /\ Getc /\ UNCHANGED vars
    BY DEF TextCharacter, vars
<1>2. PICK s \in Nat, q \in Nat : At(q) /\ InText(s, q)
    BY <1>1 DEF LexerInv, Place
<1>3. q <= Len(bytes) /\ ch = bytes[q] /\ At(q + 1)'
    BY <1>1, <1>2, AtNext DEF LexerInv, vars
<1>4. s < q /\ ~Escaped(s, q) /\ Even(s, q + 1) /\ bytes[q] # Backslash
    BY <1>1, <1>2, <1>3, EvenNotEscaped, EvenPlain DEF InText
<1>5. TextBetween(s, q + 1) = Append(text, ch)
    <2>1. Kept(s, q + 1) = Kept(s, q) \cup {q}
        BY <1>4, KeptNext
    <2>2. TextBetween(s, q + 1) = Append(TextBetween(s, q), Meant(s, q))
        <3>1. s < q /\ q <= q
            BY <1>4
        <3> QED BY <2>1, <3>1, TextGrows
    <2> QED BY <2>2, <1>2, <1>3, <1>4 DEF InText, Meant
<1>6. text' = Append(text, ch) /\ capacity' >= Capacity
    <2>1. TypeOK /\ capacity >= Capacity
        BY <1>1, Basics DEF LexerInv, Place, Gathering
    <2> QED BY <1>1, <2>1, PutGrows
<1>7. ASSUME NEW k \in s + 1 .. (q + 1) - 1
      PROVE  /\ bytes[k] # EndByte
             /\ bytes[k] = brk => Escaped(s, k)
             /\ Escaped(s, k) => bytes[k] \in DOMAIN Escape
    <2>1. CASE k = q
        BY <2>1, <1>1, <1>3, <1>4, Kinds
    <2>2. CASE k # q
        BY <2>2, <1>2, <1>4 DEF InText
    <2> QED BY <2>1, <2>2
<1>8. InText(s, q + 1)'
    <2>1. Begins(s)' /\ (bytes[s] = brk)' /\ (brk \in Quotes)'
        BY <1>1, <1>2, FileStands DEF InText, vars
    <2>2. s < q + 1 /\ Even(s, q + 1)' /\ TextBetween(s, q + 1)' = text'
        BY <1>1, <1>4, <1>5, <1>6, FileStands DEF vars
    <2>3. \A k \in s + 1 .. (q + 1) - 1 :
             (/\ bytes[k] # EndByte
              /\ bytes[k] = brk => Escaped(s, k)
              /\ Escaped(s, k) => bytes[k] \in DOMAIN Escape)'
        BY <1>1, <1>7, FileStands DEF vars
    <2> QED BY <2>1, <2>2, <2>3 DEF InText
<1>9. (Over' <=> Over) /\ at' \in 1 .. Len(bytes') + 1
    BY <1>1, Basics DEF Over, vars
<1> QED BY <1>1, <1>3, <1>6, <1>8, <1>9 DEF LexerInv, Place, Gathering

\* The backslash at q and the character it escapes stand for one.
LEMMA PlaceTextEscape == LexerInv /\ TextEscape => Place' /\ [Next]_vars
<1> SUFFICES ASSUME LexerInv, TextEscape PROVE Place' /\ UNCHANGED vars
    OBVIOUS
<1>1. /\ loc = "text" /\ loc' = loc /\ ch = Backslash /\ Char(pos) \in DOMAIN Escape
      /\ Put(Escape[Char(pos)]) /\ brk' = brk
      /\ ch' = Char(pos + 1) /\ pos' = After(pos + 1) /\ UNCHANGED vars
    BY DEF TextEscape, vars
<1>2. PICK s \in Nat, q \in Nat : At(q) /\ InText(s, q)
    BY <1>1 DEF LexerInv, Place
<1>3. q <= Len(bytes) /\ bytes[q] = Backslash /\ pos = q + 1 /\ q \in at .. Len(bytes)
    BY <1>1, <1>2, Kinds, AtNext DEF LexerInv
<1>4. q + 1 <= Len(bytes) /\ Char(pos) = bytes[q + 1] /\ bytes[q + 1] # EndByte
    BY <1>1, <1>3, EscapeDomain, Basics DEF Char
<1>5. At(q + 2)'
    <2>1. ch' = Char(q + 2) /\ pos' = After(q + 2)
        BY <1>1, <1>3
    <2>2. q + 2 \in at .. Len(bytes) + 1
        BY <1>3, <1>4, Basics
    <2> QED BY <1>1, <2>1, <2>2, FileStands DEF At, vars
<1>6. /\ s < q /\ ~Escaped(s, q) /\ Escaped(s, q + 1) /\ Even(s, q + 2)
    BY <1>2, <1>3, EvenNotEscaped, EvenBackslash DEF InText
<1>7. TextBetween(s, q + 2) = Append(text, Escape[Char(pos)])
    <2>1. Kept(s, q + 1) = Kept(s, q)
        BY <1>3, <1>6, KeptNext
    <2>2. Kept(s, (q + 1) + 1) = Kept(s, q + 1) \cup {q + 1}
        <3>1. s < q + 1 /\ q + 1 \in Nat
            BY <1>6
        <3> QED BY <3>1, <1>6, KeptNext
    <2>3. TextBetween(s, (q + 1) + 1) = Append(TextBetween(s, q), Meant(s, q + 1))
        <3>1. Kept(s, (q + 1) + 1) = Kept(s, q) \cup {q + 1}
            BY <2>1, <2>2
        <3>2. s < q + 1 /\ q <= q + 1 /\ q + 1 \in Nat
            BY <1>6
        <3> QED BY <3>1, <3>2, TextGrows
    <2>4. (q + 1) + 1 = q + 2
        OBVIOUS
    <2> QED BY <2>3, <2>4, <1>2, <1>4, <1>6 DEF Meant, InText
<1>8. text' = Append(text, Escape[Char(pos)]) /\ capacity' >= Capacity
    <2>1. TypeOK /\ capacity >= Capacity
        BY <1>1, Basics DEF LexerInv, Place, Gathering
    <2> QED BY <1>1, <2>1, PutGrows
<1>9. ASSUME NEW k \in s + 1 .. (q + 2) - 1
      PROVE  /\ bytes[k] # EndByte
             /\ bytes[k] = brk => Escaped(s, k)
             /\ Escaped(s, k) => bytes[k] \in DOMAIN Escape
    <2>1. CASE k = q
        BY <2>1, <1>2, <1>3, <1>6, Kinds DEF InText
    <2>2. CASE k = q + 1
        BY <2>2, <1>1, <1>4, <1>6
    <2>3. CASE k # q /\ k # q + 1
        BY <2>3, <1>2, <1>6 DEF InText
    <2> QED BY <2>1, <2>2, <2>3
<1>10. InText(s, q + 2)'
    <2>1. Begins(s)' /\ (bytes[s] = brk)' /\ (brk \in Quotes)'
        BY <1>1, <1>2, FileStands DEF InText, vars
    <2>2. s < q + 2 /\ Even(s, q + 2)' /\ TextBetween(s, q + 2)' = text'
        BY <1>1, <1>6, <1>7, <1>8, FileStands DEF vars
    <2>3. \A k \in s + 1 .. (q + 2) - 1 :
             (/\ bytes[k] # EndByte
              /\ bytes[k] = brk => Escaped(s, k)
              /\ Escaped(s, k) => bytes[k] \in DOMAIN Escape)'
        BY <1>1, <1>9, FileStands DEF vars
    <2> QED BY <2>1, <2>2, <2>3 DEF InText
<1>11. (Over' <=> Over) /\ at' \in 1 .. Len(bytes') + 1
    BY <1>1, Basics DEF Over, vars
<1> QED BY <1>1, <1>5, <1>8, <1>10, <1>11 DEF LexerInv, Place, Gathering

\* After a token the lexer is where the caller finds it.
LEMMA PlaceAfter ==
    ASSUME LexerInv, loc # "over", NEW type \in TokenTypes, NEW body \in Seq(Characters),
           ReturnToken(type, body), at' \in 1 .. Len(bytes) + 1, loc' = "called" => pos' = at'
    PROVE  Place'
<1>1. /\ (Over' <=> loc' = "over") /\ ~Gathering' /\ loc' \in {"called", "over"}
      /\ bytes' = bytes
    BY Basics, HandsOut, Returns
<1> QED BY <1>1 DEF Place, Gathering

\* A text that has not been closed so far begins where the next token does.
LEMMA TextBegins ==
    ASSUME LexerInv, NEW s \in Nat, NEW q \in Nat, At(q), InText(s, q)
    PROVE  /\ Start = s /\ Char(s) = brk /\ bytes[s] = brk /\ ~Ends(s) /\ Char(s) \in Quotes
           /\ \A e : Closes(s, e) => e >= q
<1>1. s <= Len(bytes) /\ Begins(s) /\ bytes[s] = brk /\ brk \in Quotes /\ s < q
    BY Basics DEF InText, At
<1>2. Char(s) = brk /\ brk # EndByte
    BY <1>1, Kinds DEF Char
<1>3. Start = s
    BY <1>1, Basics, StartThere
<1>4. ASSUME NEW e, Closes(s, e) PROVE e >= q
    <2>1. e \in s + 1 .. Len(bytes) /\ bytes[e] = brk /\ ~Escaped(s, e)
        BY <1>1, <1>4 DEF Closes
    <2>2. e \notin s + 1 .. q - 1
        BY <2>1 DEF InText
    <2> QED BY <2>1, <2>2, Basics
<1> QED BY <1>1, <1>2, <1>3, <1>4 DEF Ends

\* No quote can close the text if what the backslash at q escapes means nothing.
LEMMA PlaceBadEscape == LexerInv /\ BadEscape => Place' /\ [Next]_vars
<1> SUFFICES ASSUME LexerInv, BadEscape PROVE Place' /\ Next
    OBVIOUS
<1>1. /\ loc = "text" /\ ch = Backslash /\ Char(pos) \notin DOMAIN Escape
      /\ ReturnToken("ERR", NoText) /\ at' = at
    BY DEF BadEscape
<1>2. PICK s \in Nat, q \in Nat : At(q) /\ InText(s, q)
    BY <1>1 DEF LexerInv, Place
<1>3. q <= Len(bytes) /\ bytes[q] = Backslash /\ pos = q + 1
    BY <1>1, <1>2, Kinds, AtNext DEF LexerInv
<1>4. Escaped(s, q + 1) /\ s < q
    BY <1>2, <1>3, EvenBackslash DEF InText
<1>5. ASSUME NEW e, Closes(s, e) PROVE FALSE
    <2>1. e >= q /\ e \in s + 1 .. Len(bytes) /\ bytes[e] \in Quotes /\ ~Escaped(s, e)
        BY <1>2, <1>5, TextBegins DEF Closes
    <2>2. e # q /\ e # q + 1
        BY <2>1, <1>3, <1>4, Kinds
    <2>3. q + 1 \in s + 1 .. e - 1 /\ q + 1 <= Len(bytes)
        BY <2>1, <2>2, <1>4, Basics
    <2>4. bytes[q + 1] \in DOMAIN Escape /\ Char(pos) = bytes[q + 1]
        BY <2>3, <1>3, <1>4, <1>5 DEF Closes, Char
    <2> QED BY <1>1, <2>4
<1>6. HandOut("ERR", NoText) /\ loc' = "over"
    BY <1>1, HandsOut, TokenKinds, Returns, Basics
<1>7. Refuse
    BY <1>1, <1>2, <1>5, <1>6, TextBegins DEF Refuse
<1>8. Place'
    BY <1>1, <1>6, PlaceAfter, TokenKinds, Basics
<1> QED BY <1>7, <1>8 DEF Next

\* Nor if the file ends at q.
LEMMA PlaceNotClosed == LexerInv /\ NotClosed => Place' /\ [Next]_vars
<1> SUFFICES ASSUME LexerInv, NotClosed PROVE Place' /\ Next
    OBVIOUS
<1>1. loc = "text" /\ ch = EndByte /\ ReturnToken("ERR", NoText) /\ at' = at
    BY Kinds DEF NotClosed
<1>2. PICK s \in Nat, q \in Nat : At(q) /\ InText(s, q)
    BY <1>1 DEF LexerInv, Place
<1>3. ASSUME NEW e, Closes(s, e) PROVE FALSE
    <2>1. e >= q /\ e \in s + 1 .. Len(bytes) /\ bytes[e] \in Quotes
        BY <1>2, <1>3, TextBegins DEF Closes
    <2>2. q <= Len(bytes) /\ bytes[q] = EndByte /\ q \in s + 1 .. e
        BY <1>1, <1>2, <2>1, Basics DEF At, Char, InText
    <2>3. e # q
        BY <2>1, <2>2, Kinds
    <2>4. q \in s + 1 .. e - 1
        BY <2>1, <2>2, <2>3
    <2> QED BY <1>3, <2>2, <2>4 DEF Closes
<1>4. HandOut("ERR", NoText) /\ loc' = "over"
    BY <1>1, HandsOut, TokenKinds, Returns, Basics
<1>5. Refuse
    BY <1>1, <1>2, <1>3, <1>4, TextBegins DEF Refuse
<1>6. Place'
    BY <1>1, <1>4, PlaceAfter, TokenKinds, Basics
<1> QED BY <1>5, <1>6 DEF Next

\* The quote at q closes the text.
LEMMA PlaceCloseText == LexerInv /\ CloseText => Place' /\ [Next]_vars
<1> SUFFICES ASSUME LexerInv, CloseText PROVE Place' /\ Next
    OBVIOUS
<1> DEFINE type == IF brk = "/" THEN "REGEX" ELSE "STRING"
<1>1. /\ loc = "text" /\ ch = brk /\ ReturnToken(type, text) /\ at' = pos /\ pos' = pos
    BY DEF CloseText
<1>2. PICK s \in Nat, q \in Nat : At(q) /\ InText(s, q)
    BY <1>1 DEF LexerInv, Place
<1>3. ch # EOF
    BY <1>1, <1>2, Kinds DEF InText
<1>4. q \in at .. Len(bytes) /\ ch = bytes[q] /\ pos = q + 1
    BY <1>2, <1>3, AtNext DEF LexerInv
<1>5. Start = s /\ Char(s) = brk /\ bytes[s] = brk /\ ~Ends(s) /\ Char(s) \in Quotes
    BY <1>2, TextBegins
<1>6. Closes(s, q) /\ q \in s .. Len(bytes)
    <2>1. s < q /\ ~Escaped(s, q) /\ q \in s + 1 .. Len(bytes)
        BY <1>2, <1>4, EvenNotEscaped DEF InText
    <2> QED BY <2>1, <1>1, <1>2, <1>4, <1>5 DEF Closes, InText
<1>7. type \in TokenTypes /\ type \notin {"EOF", "ERR"} /\ text \in Seq(Characters)
    BY TokenKinds, Basics DEF TypeOK
<1>8. HandOut(type, text) /\ loc' = "called"
    <2>1. loc # "over"
        BY <1>1
    <2> HIDE DEF type
    <2> QED BY <2>1, <1>1, <1>7, HandsOut, Returns, Basics
<1>9. HandText
    <2>1. text = TextBetween(s, q) /\ at' = q + 1
        BY <1>1, <1>2, <1>4 DEF InText
    <2>2. type = IF Char(Start) = "/" THEN "REGEX" ELSE "STRING"
        BY <1>5
    <2> HIDE DEF type
    <2> QED BY <1>5, <1>6, <1>8, <2>1, <2>2 DEF HandText
<1>10. Place'
    <2>1. at' \in 1 .. Len(bytes) + 1 /\ loc # "over"
        BY <1>1, <1>4, Basics
    <2> HIDE DEF type
    <2> QED BY <2>1, <1>1, <1>7, <1>8, PlaceAfter
<1> QED BY <1>9, <1>10 DEF Next

\* A text is no longer than what it is written with.
LEMMA TextLength ==
    ASSUME NEW s \in Nat, NEW q \in Nat, s < q
    PROVE  Len(TextBetween(s, q)) \in Nat /\ Len(TextBetween(s, q)) <= q - 1 - s
<1>1. IsFiniteSet(s + 1 .. q - 1) /\ Cardinality(s + 1 .. q - 1) = q - 1 - s
    <2>1. s + 1 \in Int /\ q - 1 \in Int /\ (s + 1 > q - 1 => q - 1 - s = 0) /\ (q - 1) - (s + 1) + 1 = q - 1 - s
        OBVIOUS
    <2> QED BY <2>1, FS_Interval
<1>2. Kept(s, q) \subseteq s + 1 .. q - 1
    BY DEF Kept
<1>3. Cardinality(Kept(s, q)) \in Nat /\ Cardinality(Kept(s, q)) <= q - 1 - s
    BY <1>1, <1>2, FS_Subset, FS_CardinalityType
<1>4. Len(TextBetween(s, q)) = Cardinality(Kept(s, q))
    BY <1>3 DEF TextBetween
<1> QED BY <1>3, <1>4

\* The word gathered so far begins where the next token does.
LEMMA WordBegins ==
    ASSUME LexerInv, NEW s \in Nat, NEW q \in Nat, At(q), InWord(s, q)
    PROVE  /\ Start = s /\ s <= Len(bytes) /\ bytes[s] = Char(s) /\ ~Ends(s)
           /\ Char(s) \notin Quotes \cup Stoppers /\ Len(text) = q - s
<1>1. Begins(s) /\ Char(s) \notin Quotes \cup Stoppers \cup {EndByte} /\ s <= q
    BY DEF InWord
<1>2. Start = s
    BY <1>1, Basics, StartThere
<1>3. s <= Len(bytes) /\ bytes[s] = Char(s)
    BY <1>1, Basics DEF Char
<1>4. Len(text) = q - s
    <2>1. text = SubSeq(bytes, s, q - 1) /\ s \in 1 .. Len(bytes) /\ q \in Nat /\ q <= Len(bytes) + 1
        BY <1>1, <1>3, Basics DEF InWord, At, Begins
    <2> QED BY <2>1, <1>1, Basics
<1> QED BY <1>1, <1>2, <1>3, <1>4 DEF Ends

\* Where the buffer must grow, the token is longer than the first buffer.
LEMMA PlaceGrowthFails == LexerInv /\ GrowthFails => Place' /\ [Next]_vars
<1> SUFFICES ASSUME LexerInv, GrowthFails PROVE Place' /\ Next
    OBVIOUS
<1>1. /\ Full /\ ReturnToken("ERR", NoText) /\ at' = at
      /\ \/ loc = "text" /\ ch \notin {EOF, brk}
         \/ loc = "word" /\ ch \notin Stoppers \cup {EOF}
    BY DEF GrowthFails
<1>2. Len(text) >= Capacity /\ Len(text) \in Nat /\ Capacity \in Nat
    <2>1. capacity >= Capacity
        BY <1>1 DEF LexerInv, Place, Gathering
    <2>2. capacity \in Nat /\ text \in Seq(Characters) /\ Capacity \in Nat
        BY Basics, TokenStreamAssumption DEF TypeOK
    <2> QED BY <1>1, <2>1, <2>2 DEF Full
<1>3. HandOut("ERR", NoText) /\ loc' = "over" /\ loc # "over"
    BY <1>1, HandsOut, TokenKinds, Returns, Basics
<1>4. ASSUME loc = "text" /\ ch \notin {EOF, brk} PROVE OutOfMemory
    <2>1. PICK s \in Nat, q \in Nat : At(q) /\ InText(s, q)
        BY <1>4 DEF LexerInv, Place
    <2>2. q <= Len(bytes) /\ s < q
        BY <1>4, <2>1, AtNext DEF LexerInv, InText
    <2>3. Start = s /\ Char(s) \in Quotes /\ bytes[s] = brk /\ brk # EndByte
        BY <2>1, TextBegins, Kinds
    <2>4. Len(text) <= q - 1 - s
        BY <2>1, <2>2, TextLength DEF InText
    <2>5. s + Capacity <= q - 1
        BY <1>2, <2>2, <2>4
    <2>6. \A i \in s .. s + Capacity : bytes[i] # EndByte
        <3> SUFFICES ASSUME NEW i \in s .. s + Capacity PROVE bytes[i] # EndByte
            OBVIOUS
        <3>1. i = s \/ i \in s + 1 .. q - 1
            BY <1>2, <2>5
        <3> QED BY <3>1, <2>1, <2>3 DEF InText
    <2>7. Len(bytes) - s >= Capacity
        BY <1>2, <2>2, <2>5, Basics
    <2> QED BY <1>1, <1>3, <2>3, <2>6, <2>7, Kinds DEF OutOfMemory
<1>5. ASSUME loc = "word" /\ ch \notin Stoppers \cup {EOF} PROVE OutOfMemory
    <2>1. PICK s \in Nat, q \in Nat : At(q) /\ InWord(s, q)
        BY <1>5 DEF LexerInv, Place
    <2>2. q <= Len(bytes) /\ bytes[q] = ch
        BY <1>5, <2>1, AtNext DEF LexerInv
    <2>3. Start = s /\ Char(s) \notin Stoppers /\ Len(text) = q - s
        BY <2>1, WordBegins
    <2>4. s + Capacity <= q
        BY <1>2, <2>3
    <2>5. \A i \in s .. s + Capacity : bytes[i] \notin Stoppers \cup {EndByte}
        <3> SUFFICES ASSUME NEW i \in s .. s + Capacity PROVE bytes[i] \notin Stoppers \cup {EndByte}
            OBVIOUS
        <3>1. i = q \/ i \in s .. q - 1
            BY <1>2, <2>4
        <3> QED BY <3>1, <1>5, <2>1, <2>2, Kinds DEF InWord
    <2>6. Len(bytes) - s >= Capacity
        BY <1>2, <2>2, <2>4, Basics
    <2> QED BY <1>1, <1>3, <2>3, <2>5, <2>6, Kinds DEF OutOfMemory
<1>6. Place'
    BY <1>1, <1>3, PlaceAfter, TokenKinds, Basics
<1> QED BY <1>1, <1>4, <1>5, <1>6 DEF Next

(***************************************************************************)
(* The steps of a word.                                                    *)
(***************************************************************************)

\* Whether a word is a number is told character by character.
LEMMA NumberGrows ==
    ASSUME NEW S, NEW w \in Seq(S), NEW c \in S
    PROVE  IsNumber(Append(w, c)) <=> IsNumber(w) /\ InNumber(c, Len(w))
<1> DEFINE v == Append(w, c)
           n == Len(w)
           Fits(x, i) == x \in Digits \/ (i = 2 /\ x = "x")
<1>1. n \in Nat /\ DOMAIN w = 1 .. n /\ DOMAIN v = 1 .. n + 1
    OBVIOUS
<1>2. v[n + 1] = c /\ \A i \in 1 .. n : v[i] = w[i]
    OBVIOUS
<1>3. IsNumber(v) <=> \A i \in 1 .. n + 1 : Fits(v[i], i)
    BY <1>1 DEF IsNumber
<1>4. IsNumber(w) <=> \A i \in 1 .. n : Fits(w[i], i)
    BY <1>1 DEF IsNumber
<1>5. InNumber(c, n) <=> Fits(c, n + 1)
    <2>1. n \in Nat
        OBVIOUS
    <2> HIDE DEF n
    <2> QED BY <2>1 DEF InNumber
<1> HIDE DEF v, n, Fits
<1>6. (\A i \in 1 .. n + 1 : Fits(v[i], i)) <=> (\A i \in 1 .. n : Fits(v[i], i)) /\ Fits(v[n + 1], n + 1)
    BY <1>1
<1> QED BY <1>2, <1>3, <1>4, <1>5, <1>6 DEF v, n

\* The next character of the word is q.
LEMMA PlaceWordCharacter == LexerInv /\ WordCharacter => Place' /\ [Next]_vars
<1> SUFFICES ASSUME LexerInv, WordCharacter PROVE Place' /\ UNCHANGED vars
    OBVIOUS
<1>1. /\ loc = "word" /\ loc' = loc /\ ch \notin Stoppers \cup {EOF}
      /\ parsing_number' = (parsing_number /\ InNumber(ch, Len(text)))
      /\ Put(ch) /\ Getc /\ UNCHANGED vars
    BY DEF WordCharacter, vars
<1>2. PICK s \in Nat, q \in Nat : At(q) /\ InWord(s, q)
    BY <1>1 DEF LexerInv, Place
<1>3. q <= Len(bytes) /\ ch = bytes[q] /\ At(q + 1)' /\ q \in at .. Len(bytes)
    BY <1>1, <1>2, AtNext DEF LexerInv, vars
<1>4. text' = Append(text, ch) /\ capacity' >= Capacity
    <2>1. TypeOK /\ capacity >= Capacity
        BY <1>1, Basics DEF LexerInv, Place, Gathering
    <2> QED BY <1>1, <2>1, PutGrows
<1>5. /\ Begins(s) /\ Char(s) \notin Quotes \cup Stoppers \cup {EndByte} /\ s <= q
      /\ text = SubSeq(bytes, s, q - 1) /\ (parsing_number <=> IsNumber(text))
      /\ s \in 1 .. q /\ q \in 1 .. Len(bytes)
    BY <1>2, <1>3, Basics DEF InWord, Begins
<1>6. text' = SubSeq(bytes, s, (q + 1) - 1)
    <2>1. SubSeq(bytes, s, q) = Append(SubSeq(bytes, s, q - 1), bytes[q])
        <3>1. s \in 1 .. Len(bytes) /\ q \in s .. Len(bytes)
            BY <1>5, Basics
        <3>2. SubSeq(bytes, s, q) = SubSeq(bytes, s, q - 1) \o <<bytes[q]>>
            BY <3>1, Basics, SubSeqRecursiveSecond
        <3>3. SubSeq(bytes, s, q - 1) \in Seq(Characters)
            BY <1>5, Basics DEF TypeOK
        <3> QED BY <3>2, <3>3
    <2>2. (q + 1) - 1 = q
        OBVIOUS
    <2> QED BY <2>1, <2>2, <1>3, <1>4, <1>5
<1>7. parsing_number' <=> IsNumber(text')
    <2>1. text \in Seq(Alphabet \cup Characters) /\ ch \in Alphabet \cup Characters
        BY <1>3, <1>5, Basics DEF TypeOK
    <2>2. IsNumber(text') <=> IsNumber(text) /\ InNumber(ch, Len(text))
        BY <2>1, <1>4, NumberGrows
    <2> QED BY <2>2, <1>1, <1>5, Zenon
<1>8. \A i \in s .. (q + 1) - 1 : bytes[i] \notin Stoppers \cup {EndByte}
    <2> SUFFICES ASSUME NEW i \in s .. (q + 1) - 1 PROVE bytes[i] \notin Stoppers \cup {EndByte}
        OBVIOUS
    <2>1. i = q \/ i \in s .. q - 1
        OBVIOUS
    <2> QED BY <2>1, <1>1, <1>2, <1>3, Kinds DEF InWord
<1>9. InWord(s, q + 1)'
    <2>1. Begins(s)' /\ Char(s)' = Char(s) /\ bytes' = bytes
        BY <1>1, <1>5, FileStands DEF vars
    <2>2. s <= q + 1
        BY <1>5
    <2> QED BY <2>1, <2>2, <1>5, <1>6, <1>7, <1>8 DEF InWord, IsNumber
<1>10. (Over' <=> Over) /\ at' \in 1 .. Len(bytes') + 1
    BY <1>1, Basics DEF Over, vars
<1> QED BY <1>1, <1>3, <1>4, <1>9, <1>10 DEF LexerInv, Place, Gathering

\* The word is over at q: a stopper is read again, EOF is not.
LEMMA PlaceEndWord == LexerInv /\ EndWord => Place' /\ [Next]_vars
<1> SUFFICES ASSUME LexerInv, EndWord PROVE Place' /\ Next
    OBVIOUS
<1> DEFINE type == IF parsing_number THEN "NUMBER" ELSE "OPERATOR"
<1>1. /\ loc = "word" /\ ch \in Stoppers \cup {EndByte} /\ ReturnToken(type, text)
      /\ PutBack /\ at' = pos'
    BY Kinds DEF EndWord
<1>2. PICK s \in Nat, q \in Nat : At(q) /\ InWord(s, q)
    BY <1>1 DEF LexerInv, Place
<1>3. /\ Start = s /\ s <= Len(bytes) /\ ~Ends(s)
      /\ Char(s) \notin Quotes \cup Stoppers \cup {EndByte}
    BY <1>2, WordBegins DEF InWord
<1>4. s < q /\ q \in at .. Len(bytes) + 1 /\ s \in Nat /\ Char(q) = ch
    <2>1. s <= q /\ q \in at .. Len(bytes) + 1 /\ Char(q) = ch
        BY <1>2 DEF InWord, At
    <2>2. s # q
        BY <2>1, <1>1, <1>3
    <2> QED BY <2>1, <2>2
<1>5. Word(s, q - 1) /\ q - 1 \in s .. Len(bytes) /\ text = SubSeq(bytes, s, q - 1)
    <2>1. q - 1 \in s .. Len(bytes) /\ (q - 1) + 1 = q
        BY <1>4, Basics
    <2>2. /\ \A i \in s .. q - 1 : bytes[i] \notin Stoppers \cup {EndByte}
          /\ text = SubSeq(bytes, s, q - 1)
        BY <1>2 DEF InWord
    <2>3. Char((q - 1) + 1) \in Stoppers \cup {EndByte}
        BY <2>1, <1>1, <1>4
    <2> QED BY <2>1, <2>2, <2>3 DEF Word
<1>6. at' = IF q - 1 < Len(bytes) /\ bytes[(q - 1) + 1] = EndByte THEN (q - 1) + 2 ELSE (q - 1) + 1
    <2>1. pos = IF q <= Len(bytes) THEN q + 1 ELSE q
        BY <1>2 DEF At, After
    <2>4. q \in Nat /\ (q - 1) + 1 = q /\ (q - 1) + 2 = q + 1 /\ (q - 1 < Len(bytes) <=> q <= Len(bytes))
        BY <1>4, Basics
    <2>5. at' = IF ch \in Stoppers THEN pos - 1 ELSE pos
        BY <1>1 DEF PutBack
    <2>6. ch \in Stoppers <=> ch # EndByte
        BY <1>1, Kinds
    <2>2. CASE q <= Len(bytes)
        <3>1. bytes[q] = ch
            BY <1>4, <2>2 DEF Char
        <3> QED BY <2>1, <2>2, <2>4, <2>5, <2>6, <3>1
    <2>3. CASE ~(q <= Len(bytes))
        <3>1. ch = EndByte /\ q = Len(bytes) + 1
            BY <1>4, <2>3, Basics DEF Char
        <3> QED BY <2>1, <2>3, <2>4, <2>5, <2>6, <3>1
    <2> QED BY <2>2, <2>3
<1>7. type \in TokenTypes /\ type \notin {"EOF", "ERR"} /\ text \in Seq(Characters)
    BY TokenKinds, Basics DEF TypeOK
<1>8. HandOut(type, text) /\ loc' = "called" /\ loc # "over"
    <2>1. loc # "over"
        BY <1>1
    <2> HIDE DEF type
    <2> QED BY <2>1, <1>1, <1>7, HandsOut, Returns, Basics
<1>9. HandWord
    <2>1. type = IF IsNumber(text) THEN "NUMBER" ELSE "OPERATOR"
        BY <1>2 DEF InWord
    <2>2. HandOut(IF IsNumber(SubSeq(bytes, s, q - 1)) THEN "NUMBER" ELSE "OPERATOR",
                  SubSeq(bytes, s, q - 1))
        BY <2>1, <1>5, <1>8
    <2> HIDE DEF type
    <2> QED BY <1>3, <1>5, <1>6, <2>2 DEF HandWord
<1>10. Place'
    <2>1. at' \in 1 .. Len(bytes) + 1
        BY <1>4, <1>6, Basics
    <2> HIDE DEF type
    <2> QED BY <2>1, <1>1, <1>7, <1>8, PlaceAfter
<1> QED BY <1>9, <1>10 DEF Next

(***************************************************************************)
(* Every step.                                                             *)
(***************************************************************************)
LEMMA PlaceStands == LexerInv /\ UNCHANGED lexerVars => Place' /\ UNCHANGED vars
<1> SUFFICES ASSUME LexerInv, UNCHANGED lexerVars PROVE Place' /\ UNCHANGED vars
    OBVIOUS
<1>1. UNCHANGED <<bytes, at, tokens, pos, loc, ch, brk, text, capacity, parsing_number>>
    BY DEF lexerVars, bufferVars
<1>2. /\ \A q : (At(q)' <=> At(q)) /\ (BlankTo(q)' <=> BlankTo(q))
      /\ \A s, q : (InText(s, q)' <=> InText(s, q)) /\ (InWord(s, q)' <=> InWord(s, q))
    <2>1. \A q : (At(q)' <=> At(q)) /\ (BlankTo(q)' <=> BlankTo(q)) /\ (Begins(q)' <=> Begins(q))
        BY <1>1, FileStands DEF At
    <2>2. \A s, q : InText(s, q)' <=> InText(s, q)
        BY <1>1, <2>1, FileStands DEF InText
    <2>3. \A s, q : InWord(s, q)' <=> InWord(s, q)
        BY <1>1, <2>1, FileStands DEF InWord, IsNumber
    <2> QED BY <2>1, <2>2, <2>3
<1> QED BY <1>1, <1>2 DEF LexerInv, Place, Over, Gathering, vars

LEMMA InitLexer == LexerInit => LexerInv /\ Init
<1> SUFFICES ASSUME LexerInit PROVE LexerInv /\ Init
    OBVIOUS
<1>1. Init /\ at = 1 /\ tokens = <<>> /\ pos = 1 /\ loc = "called"
    BY DEF LexerInit, Init
<1>2. BufferInv
    BY InitBuffer
<1>3. Len(bytes) \in Nat
    BY <1>2 DEF BufferInv, BufferTypes, TypeOK
<1> QED BY <1>1, <1>2, <1>3 DEF LexerInv, Place, Over, Gathering

LEMMA NextLexer == LexerInv /\ [LexerNext]_lexerVars => LexerInv' /\ [Next]_vars
<1> SUFFICES ASSUME LexerInv, [LexerNext]_lexerVars PROVE Place' /\ [Next]_vars
    BY NextBuffer DEF LexerInv
<1>1. CASE (loc = "over" /\ UNCHANGED lexerVars) \/ UNCHANGED lexerVars
    BY <1>1, PlaceStands
<1>2. CASE Call \/ SkipBlank \/ ReturnEOF \/ ReturnSingle \/ OpenText \/ OpenWord
    BY <1>2, PlaceCall, PlaceBlank, PlaceEOF, PlaceSingle, PlaceOpenText, PlaceOpenWord
<1>3. CASE TextCharacter \/ TextEscape \/ BadEscape \/ CloseText \/ NotClosed
    BY <1>3, PlaceTextCharacter, PlaceTextEscape, PlaceBadEscape, PlaceCloseText, PlaceNotClosed
<1>4. CASE GrowthFails \/ WordCharacter \/ EndWord
    BY <1>4, PlaceGrowthFails, PlaceWordCharacter, PlaceEndWord
<1> QED BY <1>1, <1>2, <1>3, <1>4 DEF LexerNext

\* What TokenStream allows: Stream but for its fairness.
StreamSafety == Init /\ [][Next]_vars

\* For every alphabet, file and first size of the buffer, the tokens that the
\* lexer hands out, and where it has read to, are those of TokenStream: no
\* character is dropped or doubled and no token split or joined, whatever the
\* escapes, the growth of the buffer and the characters put back (next_token,
\* lex_string).
THEOREM KeepsPromise == LexerSpec => StreamSafety
<1> QED BY InitLexer, NextLexer, PTL DEF LexerSpec, StreamSafety

(***************************************************************************)
(* The blocks on the heap.                                                 *)
(***************************************************************************)
Bodies == {k \in DOMAIN tokens : tokens[k].type \in WithBody}

\* Until the lexer is over every block is accounted for.
Accounted == (loc # "over" => Lost = 0) /\ AllHandedOut

LEMMA BodiesFinite == TypeOK => IsFiniteSet(Bodies) /\ Cardinality(Bodies) \in Nat /\ heap \in Nat
<1> SUFFICES ASSUME TypeOK PROVE IsFiniteSet(Bodies) /\ Cardinality(Bodies) \in Nat
    BY DEF TypeOK
<1>1. DOMAIN tokens = 1 .. Len(tokens) /\ Len(tokens) \in Nat
    BY DEF TypeOK
<1>2. IsFiniteSet(1 .. Len(tokens))
    BY <1>1, FS_Interval
<1>3. Bodies \subseteq 1 .. Len(tokens)
    BY <1>1 DEF Bodies
<1> QED BY <1>2, <1>3, FS_Subset, FS_CardinalityType

\* A token with a body is one more.
LEMMA BodiesGrow ==
    ASSUME TypeOK, NEW type \in TokenTypes, NEW body \in Seq(Characters), ReturnToken(type, body)
    PROVE  Cardinality(Bodies') = Cardinality(Bodies) + (IF type \in WithBody THEN 1 ELSE 0)
<1> DEFINE n == Len(tokens)
<1>1. tokens' = Append(tokens, Tok(type, body)) /\ tokens \in Seq(Tokens)
    BY Returns DEF TypeOK
<1>2. Tok(type, body).type = type
    BY DEF Tok
<1>3. /\ n \in Nat /\ DOMAIN tokens = 1 .. n /\ DOMAIN tokens' = 1 .. n + 1
      /\ \A k \in 1 .. n : tokens'[k] = tokens[k]
      /\ tokens'[n + 1].type = type
    BY <1>1, <1>2
<1> HIDE DEF n
<1>4. Bodies' = IF type \in WithBody THEN Bodies \cup {n + 1} ELSE Bodies
    BY <1>3 DEF Bodies
<1>5. n + 1 \notin Bodies
    BY <1>3 DEF Bodies
<1>6. Cardinality(Bodies \cup {n + 1}) = Cardinality(Bodies) + 1 /\ Cardinality(Bodies) \in Nat
    BY <1>5, BodiesFinite, FS_AddElement
<1>7. CASE type \in WithBody
    BY <1>4, <1>6, <1>7
<1>8. CASE type \notin WithBody
    BY <1>4, <1>6, <1>8
<1> QED BY <1>7, <1>8

LEMMA NextAccounted == LexerInv /\ Accounted /\ [LexerNext]_lexerVars => Accounted'
<1> SUFFICES ASSUME LexerInv, Accounted, [LexerNext]_lexerVars PROVE Accounted'
    OBVIOUS
<1> DEFINE held == IF Gathering THEN 1 ELSE 0
           n == Cardinality(Bodies)
<1>1. Lost = heap - n - held /\ (loc # "over" => heap = n + held) /\ n \in Nat /\ heap \in Nat
    <2>1. Lost = heap - n - held /\ n \in Nat /\ heap \in Nat
        BY Basics, BodiesFinite DEF Lost, Bodies
    <2> QED BY <2>1 DEF Accounted
<1>2. Lost' = heap' - n' - held'
    BY DEF Lost, Bodies
<1>3. ASSUME Lost' = 0 PROVE Accounted'
    BY <1>3 DEF Accounted, AllHandedOut
<1> HIDE DEF n
<1>4. CASE UNCHANGED lexerVars
    <2>1. UNCHANGED <<tokens, heap, loc, bytes, at>>
        BY <1>4 DEF lexerVars
    <2>2. Lost' = Lost
        BY <2>1 DEF Lost, Gathering
    <2>3. (Over' <=> Over) /\ Last(tokens)' = Last(tokens) /\ Start' = Start
        BY <2>1, FileStands DEF Over, Start
    <2>4. AllHandedOut' <=> AllHandedOut
        BY <2>1, <2>2, <2>3, FileStands DEF AllHandedOut
    <2> QED BY <2>1, <2>2, <2>4 DEF Accounted
<1>5. CASE Call \/ SkipBlank \/ TextCharacter \/ TextEscape \/ WordCharacter
    <2>1. UNCHANGED <<tokens, heap>> /\ loc # "over" /\ (Gathering' <=> Gathering)
        BY <1>5 DEF Call, SkipBlank, TextCharacter, TextEscape, WordCharacter, Gathering
    <2>2. n' = n
        BY <2>1 DEF n, Bodies
    <2> QED BY <2>1, <2>2, <1>1, <1>2, <1>3
<1>6. CASE OpenText \/ OpenWord
    <2>1. UNCHANGED tokens /\ heap' = heap + 1 /\ loc # "over" /\ ~Gathering /\ Gathering'
        BY <1>6 DEF OpenText, OpenWord, NewBuffer, Gathering
    <2>2. n' = n
        BY <2>1 DEF n, Bodies
    <2> QED BY <2>1, <2>2, <1>1, <1>2, <1>3
<1>7. ASSUME NEW type \in TokenTypes, NEW body \in Seq(Characters), ReturnToken(type, body),
             loc # "over",
             heap' = heap + (IF type \in WithBody THEN 1 ELSE 0) - held
      PROVE  Accounted'
    <2>1. n' = n + (IF type \in WithBody THEN 1 ELSE 0)
        BY <1>7, Basics, BodiesGrow DEF n
    <2>2. ~Gathering'
        BY <1>7, Basics, Returns DEF Gathering
    <2> QED BY <2>1, <2>2, <1>1, <1>2, <1>3, <1>7
<1>8. CASE ReturnEOF \/ ReturnSingle
    <2>1. PICK type \in TokenTypes \ WithBody : ReturnToken(type, NoText)
        BY <1>8, TokenKinds DEF ReturnEOF, ReturnSingle, WithBody
    <2>2. loc # "over" /\ ~Gathering /\ heap' = heap
        BY <1>8 DEF ReturnEOF, ReturnSingle, Gathering
    <2> QED BY <2>1, <2>2, <1>1, <1>7, TokenKinds
<1>9. CASE GrowthFails \/ NotClosed
    <2>1. ReturnToken("ERR", NoText) /\ loc # "over" /\ Gathering /\ heap' = heap - 1
        BY <1>9 DEF GrowthFails, NotClosed, Release, Gathering
    <2>2. "ERR" \in TokenTypes \ WithBody
        BY TokenKinds DEF WithBody
    <2> QED BY <2>1, <2>2, <1>1, <1>7, TokenKinds
<1>10. CASE CloseText \/ EndWord
    <2>1. PICK type \in TokenTypes : type \in WithBody /\ ReturnToken(type, text)
        BY <1>10, TokenKinds DEF CloseText, EndWord, WithBody
    <2>2. loc # "over" /\ Gathering /\ heap' = heap
        BY <1>10 DEF CloseText, EndWord, Gathering
    <2>3. text \in Seq(Characters)
        BY Basics DEF TypeOK
    <2> QED BY <2>1, <2>2, <2>3, <1>1, <1>7
<1>11. CASE BadEscape
    <2>1. /\ loc = "text" /\ ch = Backslash /\ Char(pos) \notin DOMAIN Escape
          /\ ReturnToken("ERR", NoText) /\ UNCHANGED <<at, heap>>
        BY <1>11 DEF BadEscape
    <2>2. PICK s \in Nat, q \in Nat : At(q) /\ InText(s, q)
        BY <2>1 DEF LexerInv, Place
    <2>3. q <= Len(bytes) /\ bytes[q] = Backslash /\ pos = q + 1 /\ s < q /\ Start = s
        BY <2>1, <2>2, Kinds, AtNext, TextBegins DEF LexerInv, InText
    <2>4. Escaped(s, q + 1) /\ Char(q + 1) \notin DOMAIN Escape
        BY <2>1, <2>2, <2>3, EvenBackslash DEF InText
    <2>5. q + 1 \in Start + 1 .. Len(bytes) + 1
        BY <2>3, Basics
    <2>6. UNCHANGED <<bytes, at>> /\ loc' = "over" /\ ~Gathering'
        BY <2>1, Basics, TokenKinds, Returns DEF Gathering
    <2>7. (\E k \in Start + 1 .. Len(bytes) + 1 : Escaped(Start, k) /\ Char(k) \notin DOMAIN Escape)'
        <3>1. Start' = s
            BY <2>3, <2>6, FileStands DEF Start
        <3>2. q + 1 \in s + 1 .. Len(bytes') + 1
            BY <2>3, <2>5, <2>6
        <3>3. Escaped(s, q + 1)' /\ Char(q + 1)' \notin DOMAIN Escape
            BY <2>4, <2>6, FileStands
        <3> QED BY <3>1, <3>2, <3>3
    <2>8. (Over /\ Last(tokens).type = "ERR")'
        <3>1. Over'
            BY <2>1, <2>6, HandsOut, TokenKinds
        <3>2. tokens' = Append(tokens, Tok("ERR", NoText)) /\ tokens \in Seq(Tokens)
            BY <2>1, Basics, Returns, TokenKinds DEF TypeOK
        <3>3. Tok("ERR", NoText) \in Tokens
            BY TokenKinds DEF Tok, Tokens
        <3>4. Last(tokens') = Tok("ERR", NoText)
            BY <3>2, <3>3 DEF Last
        <3> QED BY <3>1, <3>4 DEF Tok
    <2>9. Lost' = 1
        <3>1. n' = n
            <4>1. "ERR" \notin WithBody
                BY DEF WithBody
            <4> QED BY <4>1, <2>1, Basics, TokenKinds, BodiesGrow, <1>1 DEF n
        <3>2. held = 1 /\ held' = 0 /\ loc # "over"
            BY <2>1, <2>6 DEF Gathering
        <3>3. heap' = heap /\ heap = n + held
            BY <2>1, <3>2, <1>1
        <3> HIDE DEF held
        <3> QED BY <3>1, <3>2, <3>3, <1>1, <1>2
    <2> QED BY <2>6, <2>7, <2>8, <2>9 DEF Accounted, AllHandedOut
<1> QED BY <1>4, <1>5, <1>6, <1>8, <1>9, <1>10, <1>11 DEF LexerNext

\* Every block that the lexer allocates is the body of a token handed out, is
\* in use or was freed, for every file, wherever the memory ends; the only one
\* that can be lost is that of a text with a bad escape sequence.
THEOREM NoBlockLost == LexerSpec => []AllHandedOut
<1>1. LexerInit => Accounted
    <2> SUFFICES ASSUME LexerInit PROVE Lost = 0
        BY DEF Accounted, AllHandedOut
    <2>1. tokens = <<>> /\ heap = 0 /\ ~Gathering
        BY DEF LexerInit, Init, Gathering
    <2>2. Bodies = {}
        BY <2>1 DEF Bodies
    <2> QED BY <2>1, <2>2, FS_EmptySet DEF Lost, Bodies
<1>2. Accounted => AllHandedOut
    BY DEF Accounted
<1> QED BY <1>1, <1>2, InitLexer, NextLexer, NextAccounted, PTL DEF LexerSpec

=============================================================================
