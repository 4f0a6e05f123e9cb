-------------------------- MODULE CommandLineProofs --------------------------
(***************************************************************************)
(* For every command line: the program that is run is the one behind the   *)
(* first separator, word by word, although argparse writes to the array    *)
(* that its words are taken from afterwards; every option has the last     *)
(* value given for it; indices stay within argv.                           *)
(***************************************************************************)
EXTENDS CommandLine, TLAPS

\* The array as main got it; as much of it behind the separator.
Got(k)  == IF k < Count THEN words[k + 1] ELSE NullWord
Original  == \A k \in 0 .. Count : argv[k] = Got(k)
Untouched == \A k \in arg_num + 1 .. Count : argv[k] = Got(k)

Types ==
    /\ words \in Seq(Words) /\ loc \in Locations
    /\ DOMAIN argv = 0 .. Count
    /\ arg_num \in 0 .. Count
    /\ argc \in Int /\ at \in Int /\ cpidx \in Nat

\* What scan_cli_arguments has passed is no separator.
Scanning ==
    loc = "scan" => Original /\ \A k \in 1 .. arg_num : words[k] # Separator

\* argparse writes in front of the word it reads, and reads up to arg_num; with
\* argc below 0 nothing is known, but nothing is run either.
Parsing ==
    loc = "parse" =>
        /\ arg_num < Count /\ IsFirst(arg_num + 1)
        /\ at + argc = arg_num /\ cpidx < at
        /\ argc >= 0 => Untouched

Preparing ==
    loc \in {"prepare", "run"} =>
        /\ arg_num < Count /\ IsFirst(arg_num + 1)
        /\ Untouched
Running == loc = "run" => tokens = Program(arg_num + 1)

Inv == Types /\ Scanning /\ Parsing /\ Preparing /\ Running

LEMMA Start == Init => Inv
  <1> SUFFICES ASSUME Init PROVE Inv
    OBVIOUS
  <1>1. words \in Seq(Words) /\ Count \in Nat
    BY CommandLineAssumption DEF Init, Count
  <1>2. Types
    BY <1>1 DEF Init, Types, Locations
  <1>3. Scanning
    BY <1>1 DEF Init, Scanning, Original, Untouched, Got
  <1> QED
    BY <1>2, <1>3 DEF Init, Inv, Parsing, Preparing, Running

\* A turn moves on by one or two words, and by two only if there are two.
LEMMA Turns ==
    ASSUME Inv, Turn, NEW n \in {1, 2}, n = 2 => MayTakeNext, Advance(n),
           UNCHANGED <<words, loc, arg_num>>
    PROVE  /\ arg_num < Count /\ IsFirst(arg_num + 1)
           /\ at' + argc' = arg_num /\ at' \in Int /\ argc' \in Int
           /\ cpidx + 1 < at' + 1
           /\ argc' >= 0 => argc > 0 /\ cpidx < arg_num /\ Untouched
           /\ at' >= at + 1
  BY DEF Inv, Types, Parsing, Turn, Advance, MayTakeNext

\* Writing in front of the program's words leaves them.
LEMMA Front ==
    ASSUME Types, NEW w, NEW k \in Nat, k < arg_num + 1, Untouched,
           argv' = [argv EXCEPT ![k] = w], UNCHANGED <<words, arg_num>>
    PROVE  Untouched' /\ DOMAIN argv' = DOMAIN argv
  BY DEF Types, Original, Untouched, Got, Count

LEMMA Step == Inv /\ [Next]_vars => Inv'
  <1> SUFFICES ASSUME Inv, [Next]_vars PROVE Inv'
    OBVIOUS
  <1>0. Types /\ Count \in Nat
    BY DEF Inv, Types, Count
  <1>1. CASE Scan
    <2>1. Count' = Count /\ arg_num + 1 \in 0 .. Count /\ argv[arg_num] = words[arg_num + 1]
      BY <1>0, <1>1 DEF Scan, Inv, Scanning, Original, Untouched, Got, Types, Count
    <2>2. Types'
      BY <1>0, <1>1, <2>1 DEF Scan, Types
    <2>3. Scanning'
      BY <1>0, <1>1, <2>1 DEF Scan, Inv, Scanning, Original, Untouched, Got, Types
    <2> QED
      BY <1>1, <2>2, <2>3 DEF Scan, Inv, Parsing, Preparing, Running
  <1>2. CASE MissingTracee \/ Help \/ Fail \/ Overrun
    <2>1. /\ loc' \in {"missing", "exit_success", "exit_failure", "crashed"}
          /\ UNCHANGED <<words, argv, arg_num, argc, at, cpidx>>
      BY <1>2 DEF MissingTracee, Help, Fail, Overrun, Leave
    <2> QED
      BY <1>0, <2>1 DEF Inv, Types, Locations, Count, Scanning, Parsing, Preparing, Running
  <1>3. CASE Found
    <2>1. /\ loc = "scan" /\ loc' = "parse" /\ UNCHANGED <<words, argv, arg_num>>
          /\ argc' = arg_num - 1 /\ at' = 1 /\ cpidx' = 0
          /\ arg_num < Count /\ argv[arg_num] = Separator /\ Count' = Count
      BY <1>3 DEF Found, Count
    <2>2. IsFirst(arg_num + 1) /\ Untouched
      BY <1>0, <2>1 DEF Inv, Types, Scanning, Original, Untouched, Got, IsFirst
    <2>3. Types'
      BY <1>0, <2>1 DEF Types, Locations
    <2>5. IsFirst(arg_num + 1)' /\ Untouched' /\ (arg_num < Count)'
      BY <2>1, <2>2 DEF IsFirst, Untouched, Got
    <2>4. Parsing'
      BY <1>0, <2>1, <2>5 DEF Types, Parsing
    <2> QED
      BY <2>1, <2>3, <2>4 DEF Inv, Scanning, Preparing, Running
  <1>4. CASE Plain
    <2>1. /\ Turn /\ Advance(1) /\ UNCHANGED <<words, loc, arg_num, tokens>> /\ Count' = Count
          /\ argv' = [argv EXCEPT ![cpidx] = Current] /\ cpidx' = cpidx + 1 /\ loc = "parse"
      BY <1>4 DEF Plain, Turn, Count
    <2>2. /\ arg_num < Count /\ IsFirst(arg_num + 1)
          /\ at' + argc' = arg_num /\ at' \in Int /\ argc' \in Int /\ cpidx + 1 < at' + 1
          /\ argc' >= 0 => argc > 0 /\ cpidx < arg_num /\ Untouched
          /\ at' >= at + 1
      BY <2>1, Turns
    <2>3. Types'
      BY <1>0, <2>1, <2>2 DEF Types, Locations
    <2>4. cpidx' < at' /\ IsFirst(arg_num + 1)' /\ (arg_num < Count)'
      BY <1>0, <2>1, <2>2 DEF Types, IsFirst
    <2>5. argc' >= 0 => Untouched'
      BY <1>0, <2>1, <2>2, Front DEF Types
    <2>6. Parsing'
      BY <2>1, <2>2, <2>4, <2>5 DEF Parsing
    <2> QED
      BY <2>1, <2>3, <2>6 DEF Inv, Scanning, Preparing, Running
  <1>5. CASE SetOption
    <2>1. /\ Turn /\ UNCHANGED <<words, loc, arg_num, argv, cpidx, tokens>> /\ Count' = Count
          /\ loc = "parse"
      BY <1>5 DEF SetOption, Turn, Count
    <2>2. PICK n \in {1, 2} : Advance(n) /\ (n = 2 => MayTakeNext)
      BY <1>5 DEF SetOption, Consumed
    <2>3. /\ arg_num < Count /\ IsFirst(arg_num + 1)
          /\ at' + argc' = arg_num /\ at' \in Int /\ argc' \in Int /\ cpidx + 1 < at' + 1
          /\ argc' >= 0 => argc > 0 /\ cpidx < arg_num /\ Untouched
          /\ at' >= at + 1
      BY <2>1, <2>2, Turns
    <2>4. Types'
      BY <1>0, <2>1, <2>3 DEF Types, Locations
    <2>6. argc' >= 0 => Untouched'
      BY <2>1, <2>3 DEF Untouched, Got
    <2>7. cpidx' < at' /\ IsFirst(arg_num + 1)' /\ (arg_num < Count)'
      BY <1>0, <2>1, <2>3 DEF Types, IsFirst
    <2>5. Parsing'
      BY <2>1, <2>3, <2>6, <2>7 DEF Parsing
    <2> QED
      BY <2>1, <2>4, <2>5 DEF Inv, Scanning, Preparing, Running
  <1>6. CASE Parsed
    <2>1. /\ loc = "parse" /\ argc = 0 /\ loc' = "prepare"
          /\ argv' = [argv EXCEPT ![cpidx] = NullWord]
          /\ UNCHANGED <<words, arg_num, argc, at, cpidx, tokens>> /\ Count' = Count
      BY <1>6 DEF Parsed, Terminate, Count
    <2>2. arg_num < Count /\ IsFirst(arg_num + 1) /\ cpidx < arg_num /\ Untouched
      BY <1>0, <2>1 DEF Inv, Parsing, Types
    <2>5. cpidx \in Nat /\ cpidx < arg_num + 1 /\ UNCHANGED <<words, arg_num>>
      BY <1>0, <2>1, <2>2 DEF Types
    <2>3. Untouched' /\ DOMAIN argv' = DOMAIN argv
      BY <1>0, <2>1, <2>2, <2>5, Front
    <2>4. Types'
      BY <1>0, <2>1, <2>3 DEF Types, Locations
    <2> QED
      BY <2>1, <2>2, <2>3, <2>4 DEF Inv, Scanning, Parsing, Preparing, Running, IsFirst
  <1>7. CASE Prepare
    <2>1. /\ loc = "prepare" /\ loc' = "run" /\ Count' = Count
          /\ UNCHANGED <<words, argv, arg_num, argc, at, cpidx>>
          /\ tokens' = [k \in 1 .. Count - arg_num |->
                          IF k < Count - arg_num THEN argv[arg_num + k] ELSE NullWord]
      BY <1>7 DEF Prepare, Count
    <2>2. arg_num < Count /\ IsFirst(arg_num + 1) /\ Untouched
      BY <2>1 DEF Inv, Preparing
    <2>3. Count - (arg_num + 1) + 1 = Count - arg_num
      BY <1>0 DEF Types
    <2>4. \A k \in 1 .. Count - arg_num : k < Count - arg_num =>
             argv[arg_num + k] = words[arg_num + 1 + k]
      BY <1>0, <2>2 DEF Types, Original, Untouched, Got
    <2>5. tokens' = Program(arg_num + 1)
      BY <2>1, <2>3, <2>4 DEF Program
    <2>6. Types'
      BY <1>0, <2>1 DEF Types, Locations
    <2> QED
      BY <2>1, <2>2, <2>5, <2>6 DEF Inv, Scanning, Parsing, Preparing, Running, IsFirst, Untouched,
                                   Got, Program
  <1>8. CASE Ended \/ UNCHANGED vars
    BY <1>8 DEF Ended, vars, Inv, Types, Scanning, Parsing, Preparing, Running, IsFirst, Original,
                Untouched, Got, Program, Count
  <1> QED
    BY <1>1, <1>2, <1>3, <1>4, <1>5, <1>6, <1>7, <1>8 DEF Next

\* ProgramAsGiven for every command line: execvp gets exactly the words after
\* the first --, which neither argparse's copying nor its NULL has reached.
THEOREM GivenProgram == Spec => []ProgramAsGiven
  <1>1. Inv => ProgramAsGiven
    BY DEF Inv, Types, Preparing, Running, ProgramAsGiven, Count
  <1> QED
    BY Start, Step, <1>1, PTL DEF Spec

-----------------------------------------------------------------------------
(***************************************************************************)
(* Types.  argv[0] = -- makes argc negative; then words are read up to the *)
(* NULL at the end of argv, which nothing overwrites.                      *)
(***************************************************************************)
Bounded ==
    loc = "parse" => at \in 0 .. Count /\ argv[Count] = NullWord

LEMMA KindsDiffer ==
    /\ NullWord.kind = "NULL" /\ Separator.kind = "separator"
    /\ \A w : IsOption(w) => w.kind \notin {"NULL", "plain", "separator"}
  BY DEF NullWord, Separator, Word, IsOption

LEMMA TypeStart == Init => TypeOK
  <1> SUFFICES ASSUME Init PROVE TypeOK
    OBVIOUS
  <1>1. words \in Seq(Words) /\ Count \in Nat /\ \A k \in 1 .. Count : words[k] \in Words
    BY CommandLineAssumption DEF Init, Count
  <1>2. argv \in [0 .. Count -> Words \cup {NullWord}]
    BY <1>1 DEF Init
  <1> QED
    BY <1>1, <1>2 DEF Init, TypeOK, Locations

LEMMA TypeStep ==
    ASSUME Inv, TypeOK, Bounded, [Next]_vars
    PROVE  TypeOK' /\ Bounded'
  <1>0. Types /\ Count \in Nat
    BY DEF Inv, Types, Count
  <1>1. CASE Scan
    <2>1. Count' = Count /\ arg_num + 1 \in 0 .. Count
      BY <1>0, <1>1 DEF Scan, Types, Count
    <2> QED
      BY <1>1, <2>1 DEF Scan, TypeOK, Bounded, Locations
  <1>2. CASE MissingTracee \/ Help \/ Fail \/ Overrun
    <2>1. /\ loc' \in {"missing", "exit_success", "exit_failure", "crashed"}
          /\ UNCHANGED <<words, argv, arg_num, argc, at, cpidx, options, tokens>>
      BY <1>2 DEF MissingTracee, Help, Fail, Overrun, Leave
    <2> QED
      BY <2>1 DEF TypeOK, Bounded, Locations, Count
  <1>3. CASE Found
    <2>1. /\ loc = "scan" /\ loc' = "parse" /\ UNCHANGED <<words, argv, arg_num, options, tokens>>
          /\ argc' = arg_num - 1 /\ at' = 1 /\ cpidx' = 0 /\ arg_num < Count /\ Count' = Count
      BY <1>3 DEF Found, Count
    <2>2. argv[Count] = NullWord
      BY <1>0, <2>1 DEF Inv, Scanning, Original, Got
    <2> QED
      BY <1>0, <2>1, <2>2 DEF TypeOK, Bounded, Locations
  <1>4. CASE Plain
    <2>1. /\ loc = "parse" /\ Advance(1) /\ UNCHANGED <<words, loc, arg_num, options, tokens>>
          /\ Count' = Count /\ cpidx' = cpidx + 1 /\ Current.kind = "plain"
          /\ argv' = [argv EXCEPT ![cpidx] = Current]
      BY <1>4 DEF Plain, Turn, Count
    <2>2. cpidx < at /\ at \in 0 .. Count /\ argv[Count] = NullWord
      BY <1>0, <2>1 DEF Inv, Parsing, Bounded
    <2>3. at < Count /\ cpidx < Count
      BY <1>0, <2>1, <2>2, KindsDiffer DEF Current, Types
    <2>4. Current \in Words \cup {NullWord}
      BY <2>2 DEF TypeOK, Current
    <2>5. argv' \in [0 .. Count -> Words \cup {NullWord}] /\ argv'[Count] = NullWord
      BY <1>0, <2>1, <2>2, <2>3, <2>4 DEF TypeOK, Types
    <2>6. at' \in 0 .. Count /\ cpidx' \in 0 .. Count /\ argc' \in Int
      BY <1>0, <2>1, <2>2, <2>3 DEF Types, Advance
    <2> QED
      BY <2>1, <2>5, <2>6 DEF TypeOK, Bounded
  <1>5. CASE SetOption
    <2>1. /\ loc = "parse" /\ UNCHANGED <<words, loc, arg_num, argv, cpidx, tokens>>
          /\ Count' = Count /\ IsOption(Current)
      BY <1>5 DEF SetOption, Turn, Count
    <2>2. PICK n \in {1, 2} : Advance(n) /\ (n = 2 => MayTakeNext)
      BY <1>5 DEF SetOption, Consumed
    <2>3. at \in 0 .. Count /\ argv[Count] = NullWord /\ at + argc = arg_num
      BY <2>1 DEF Inv, Parsing, Bounded
    <2>4. at < Count
      BY <1>0, <2>1, <2>3, KindsDiffer DEF Current
    <2>5. at' \in 0 .. Count /\ argc' \in Int
      BY <1>0, <2>2, <2>3, <2>4 DEF Types, Advance, MayTakeNext
    <2>6. DOMAIN options' = Options
      BY <1>5 DEF SetOption, TypeOK
    <2> QED
      BY <2>1, <2>3, <2>5, <2>6 DEF TypeOK, Bounded
  <1>6. CASE Parsed
    <2>1. /\ loc' = "prepare" /\ argv' = [argv EXCEPT ![cpidx] = NullWord] /\ Count' = Count
          /\ UNCHANGED <<words, arg_num, argc, at, cpidx, options, tokens>>
      BY <1>6 DEF Parsed, Terminate, Count
    <2> QED
      BY <2>1 DEF TypeOK, Bounded, Locations
  <1>7. CASE Prepare
    <2>1. /\ loc = "prepare" /\ loc' = "run" /\ Count' = Count
          /\ UNCHANGED <<words, argv, arg_num, argc, at, cpidx, options>>
          /\ tokens' = [k \in 1 .. Count - arg_num |->
                          IF k < Count - arg_num THEN argv[arg_num + k] ELSE NullWord]
      BY <1>7 DEF Prepare, Count
    <2>2. Count - arg_num \in Nat /\ arg_num \in Nat
      BY <1>0 DEF Types
    <2>3. \A k \in 1 .. Count - arg_num : k < Count - arg_num => argv[arg_num + k] \in Words \cup {NullWord}
      BY <1>0, <2>2 DEF TypeOK
    <2>4. tokens' \in Seq(Words \cup {NullWord})
      BY <2>1, <2>2, <2>3
    <2> QED
      BY <2>1, <2>4 DEF TypeOK, Bounded, Locations
  <1>8. CASE Ended \/ UNCHANGED vars
    BY <1>8 DEF Ended, vars, TypeOK, Bounded, Count
  <1> QED
    BY <1>1, <1>2, <1>3, <1>4, <1>5, <1>6, <1>7, <1>8 DEF Next

LEMMA Invariance == Spec => []Inv
  BY Start, Step, PTL DEF Spec

\* Indices stay within argv for every command line, also with -- in front.
THEOREM TypeCorrect == Spec => []TypeOK
  <1>1. Init => Bounded
    BY DEF Init, Bounded
  <1>2. Inv /\ TypeOK /\ Bounded /\ [Next]_vars => TypeOK' /\ Bounded'
    BY TypeStep
  <1> QED
    BY <1>1, <1>2, TypeStart, Invariance, PTL DEF Spec

-----------------------------------------------------------------------------
(***************************************************************************)
(* The options.  argparse goes from an option to the word behind it or to  *)
(* the one behind its value, so which words are values follows from how    *)
(* many options without a value of their own stand before them.            *)
(***************************************************************************)

\* The word k has not been taken by the options before it.
Free(k) == \E j \in 2 .. k : AllTake(j, k) /\ (k - j) % 2 = 0

\* Where such options begin is determined.
LEMMA OneBeginning ==
    ASSUME NEW k \in Nat, NEW i \in 2 .. k, NEW j \in 2 .. k, AllTake(i, k), AllTake(j, k)
    PROVE  i = j
  <1>1. ASSUME NEW m \in 2 .. k, NEW n \in 2 .. k, AllTake(m, k), AllTake(n, k), m < n
        PROVE  FALSE
    <2>1. n - 1 \in m .. k - 1 /\ n > 2
      BY <1>1
    <2> QED
      BY <1>1, <2>1 DEF AllTake
  <1>2. ~(i < j) /\ ~(j < i)
    BY <1>1
  <1> QED
    BY <1>2

LEMMA FreeIsNoValue ==
    ASSUME NEW k \in Nat, Free(k)
    PROVE  ~IsValue(k)
  <1> SUFFICES ASSUME IsValue(k) PROVE FALSE
    OBVIOUS
  <1>1. PICK i \in 2 .. k : AllTake(i, k) /\ (k - i) % 2 = 0
    BY DEF Free
  <1>2. PICK j \in 2 .. k : AllTake(j, k) /\ (k - j) % 2 = 1
    BY DEF IsValue
  <1>3. i = j
    BY <1>1, <1>2, OneBeginning
  <1> QED
    BY <1>1, <1>2, <1>3

\* The word behind one that takes none is free.
LEMMA FreeNext ==
    ASSUME NEW k \in Nat, k >= 2, ~Takes(k)
    PROVE  Free(k + 1)
  <1>1. k + 1 \in 2 .. k + 1 /\ (k + 1) - (k + 1) = 0 /\ (k + 1) - 1 = k
    OBVIOUS
  <1>2. AllTake(k + 1, k + 1)
    BY <1>1 DEF AllTake
  <1> QED
    BY <1>1, <1>2 DEF Free

\* The word behind a free one that takes it is a value, and the one behind that free.
LEMMA FreeBehind ==
    ASSUME NEW k \in Nat, k >= 2, Free(k), Takes(k)
    PROVE  IsValue(k + 1) /\ Free(k + 2)
  <1>1. PICK j \in 2 .. k : AllTake(j, k) /\ (k - j) % 2 = 0
    BY DEF Free
  <1>2. AllTake(j, k + 1) /\ (k + 1 - j) % 2 = 1
    BY <1>1 DEF AllTake
  <1>3. IsValue(k + 1)
    BY <1>2 DEF IsValue
  <1>4. CASE Takes(k + 1)
    <2>1. AllTake(j, k + 2) /\ (k + 2 - j) % 2 = 0
      BY <1>1, <1>2, <1>4 DEF AllTake
    <2> QED
      BY <1>3, <2>1 DEF Free
  <1>5. CASE ~Takes(k + 1)
    <2>1. Free((k + 1) + 1)
      BY <1>5, FreeNext
    <2>2. (k + 1) + 1 = k + 2
      OBVIOUS
    <2> QED
      BY <1>3, <2>1, <2>2
  <1> QED
    BY <1>4, <1>5

\* The words up to n that set o.
SetUpTo(o, n) == {k \in 2 .. n : ~IsValue(k) /\ OptionOf(words[k]) = o}
LastOf(o, n, k) == k \in SetUpTo(o, n) /\ \A j \in SetUpTo(o, n) : j <= k

\* What has been read of the command line is in the options.
SetTo(given, n) ==
    /\ \A o \in Options :
         \/ SetUpTo(o, n) = {} /\ given[o] = Unset
         \/ \E k \in SetUpTo(o, n) : LastOf(o, n, k) /\ given[o] = SetBy(k)
    /\ \A k \in 2 .. n : ~IsValue(k) /\ IsOption(words[k]) =>
         /\ OptionOf(words[k]) \in Options
         /\ words[k].attached \/ k < arg_num

\* argparse is at a word that no option takes, and has not written where it reads.
Reading ==
    loc = "parse" =>
        /\ \A k \in at .. Count : argv[k] = Got(k)
        /\ argc >= 0 => at >= 1 /\ at <= arg_num /\ Free(at + 1) /\ SetTo(options, at)
Read ==
    loc \in {"prepare", "run"} => SetTo(options, arg_num)

OInv == /\ options = [o \in Options |-> options[o]]
        /\ loc = "scan" => options = [o \in Options |-> Unset]
        /\ Reading
        /\ Read

\* A word that is no option sets none.
LEMMA PlainSetsNothing ==
    ASSUME NEW w, w.kind = "plain"
    PROVE  OptionOf(w) = "unknown" /\ OptionOf(w) \notin Options /\ ~IsOption(w)
  BY DEF OptionOf, Options, IsOption

\* One more word that is a value or no option.
LEMMA MoreOf ==
    ASSUME NEW given, NEW n \in Nat, n >= 1, SetTo(given, n),
           IsValue(n + 1) \/ (OptionOf(words[n + 1]) \notin Options /\ ~IsOption(words[n + 1]))
    PROVE  SetTo(given, n + 1)
  <1>1. \A k : k \in 2 .. n + 1 <=> k \in 2 .. n \/ k = n + 1
    OBVIOUS
  <1>2. \A o \in Options : SetUpTo(o, n + 1) = SetUpTo(o, n)
    BY <1>1 DEF SetUpTo
  <1> QED
    BY <1>1, <1>2 DEF SetTo, LastOf

\* One more option.
LEMMA OneMore ==
    ASSUME NEW given, DOMAIN given = Options,
           NEW n \in Nat, n >= 1, SetTo(given, n), ~IsValue(n + 1),
           NEW o \in Options, o = OptionOf(words[n + 1]),
           words[n + 1].attached \/ n + 1 < arg_num
    PROVE  SetTo([given EXCEPT ![o] = SetBy(n + 1)], n + 1)
  <1> PICK new : new = [given EXCEPT ![o] = SetBy(n + 1)]
    OBVIOUS
  <1>1. \A k : k \in 2 .. n + 1 <=> k \in 2 .. n \/ k = n + 1
    OBVIOUS
  <1>2. /\ SetUpTo(o, n + 1) = SetUpTo(o, n) \cup {n + 1}
        /\ \A u \in Options \ {o} : SetUpTo(u, n + 1) = SetUpTo(u, n)
    BY <1>1 DEF SetUpTo
  <1>3. ASSUME NEW u \in Options
        PROVE  \/ SetUpTo(u, n + 1) = {} /\ new[u] = Unset
               \/ \E k \in SetUpTo(u, n + 1) : LastOf(u, n + 1, k) /\ new[u] = SetBy(k)
    <2>1. CASE u = o
      <3>1. LastOf(o, n + 1, n + 1)
        BY <1>2 DEF LastOf, SetUpTo
      <3>2. n + 1 \in SetUpTo(u, n + 1) /\ new[u] = SetBy(n + 1)
        BY <1>2, <2>1
      <3> QED
        BY <2>1, <3>1, <3>2
    <2>2. CASE u # o
      <3>1. SetUpTo(u, n + 1) = SetUpTo(u, n) /\ new[u] = given[u]
        BY <1>2, <2>2
      <3> QED
        BY <3>1 DEF SetTo, LastOf
    <2> QED
      BY <2>1, <2>2
  <1>4. ASSUME NEW k \in 2 .. n + 1, ~IsValue(k), IsOption(words[k])
        PROVE  OptionOf(words[k]) \in Options /\ (words[k].attached \/ k < arg_num)
    BY <1>1, <1>4 DEF SetTo
  <1> QED
    BY <1>3, <1>4 DEF SetTo

\* Where the words do not change, nor does what they say.
LEMMA WordsKept ==
    ASSUME UNCHANGED <<words, arg_num>>
    PROVE  /\ Count' = Count
           /\ \A k : /\ (IsValue(k) <=> IsValue(k)') /\ (Free(k) <=> Free(k)')
                    /\ SetBy(k)' = SetBy(k) /\ Got(k)' = Got(k)
           /\ \A given, n : SetTo(given, n) => SetTo(given, n)'
  BY DEF Count, IsValue, Free, AllTake, Takes, SetBy, SetUpTo, LastOf, SetTo, Got

\* The array and the options behind the next turn, said of this state's words.
LEMMA ReadingAt ==
    ASSUME NEW n, at' = n, NEW given, options' = given, UNCHANGED <<words, arg_num>>,
           \A k \in n .. Count : argv'[k] = Got(k),
           argc' >= 0 => n >= 1 /\ n <= arg_num /\ Free(n + 1) /\ SetTo(given, n)
    PROVE  Reading'
  <1>1. \A k \in at' .. Count' : argv'[k] = Got(k)'
    BY WordsKept
  <1>2. argc' >= 0 => Free(n + 1)' /\ SetTo(given, n)'
    BY WordsKept
  <1>3. argc' >= 0 => at' >= 1 /\ at' <= arg_num' /\ Free(at + 1)' /\ SetTo(options, at)'
    BY <1>2 DEF Free, SetTo, SetUpTo, LastOf
  <1> QED
    BY <1>1, <1>3 DEF Reading

LEMMA OptionsStep == Inv /\ TypeOK /\ OInv /\ [Next]_vars => OInv'
  <1> SUFFICES ASSUME Inv, TypeOK, OInv, [Next]_vars PROVE OInv'
    OBVIOUS
  <1>0. Types /\ Count \in Nat /\ DOMAIN options = Options
    <2>1. DOMAIN [o \in Options |-> options[o]] = Options
      OBVIOUS
    <2> QED
      BY <2>1 DEF Inv, Types, Count, OInv
  <1> PICK n, given : n = at /\ given = options
    OBVIOUS
  <1>1. CASE Scan
    BY <1>1 DEF Scan, OInv, Reading, Read
  <1>2. CASE MissingTracee \/ Help \/ Fail \/ Overrun
    <2>1. /\ loc' \in {"missing", "exit_success", "exit_failure", "crashed"}
          /\ options' = options
      BY <1>2 DEF MissingTracee, Help, Fail, Overrun, Leave
    <2> QED
      BY <2>1 DEF OInv, Reading, Read
  <1>3. CASE Found
    <2>1. /\ loc = "scan" /\ loc' = "parse" /\ UNCHANGED <<words, argv, arg_num, options>>
          /\ argc' = arg_num - 1 /\ at' = 1
      BY <1>3 DEF Found
    <2>2. /\ given = [o \in Options |-> Unset] /\ arg_num \in Nat
          /\ \A k \in 0 .. Count : argv[k] = Got(k)
      BY <1>0, <2>1 DEF OInv, Inv, Types, Scanning, Original
    <2>3. Free(1 + 1)
      <3>1. AllTake(2, 2) /\ 2 \in 2 .. 2 /\ (2 - 2) % 2 = 0 /\ 1 + 1 = 2
        BY DEF AllTake
      <3> QED
        BY <3>1 DEF Free
    <2>4. SetTo(given, 1)
      <3>1. 2 .. 1 = {}
        OBVIOUS
      <3> QED
        BY <2>2, <3>1 DEF SetTo, SetUpTo
    <2>5. Reading'
      <3>1. \A k \in 1 .. Count : argv'[k] = Got(k)
        BY <1>0, <2>1, <2>2
      <3>2. argc' >= 0 => 1 >= 1 /\ 1 <= arg_num
        BY <2>1, <2>2
      <3> QED
        BY <2>1, <2>3, <2>4, <3>1, <3>2, ReadingAt
    <2> QED
      BY <1>0, <2>1, <2>5 DEF OInv, Read
  <1>4. ASSUME Plain \/ SetOption
        PROVE  /\ loc = "parse" /\ loc' = "parse" /\ UNCHANGED <<words, arg_num>>
               /\ n \in Nat /\ cpidx < n /\ n + argc = arg_num
               /\ n + 1 <= Count => argv[n] = words[n + 1]
               /\ argc > 0 => /\ n >= 1 /\ n < arg_num /\ n + 1 <= Count
                              /\ Free(n + 1) /\ SetTo(given, n) /\ ~IsValue(n + 1)
               /\ argc # 0 /\ argc \in Int /\ arg_num \in Nat
               /\ \A k \in n .. Count : argv[k] = Got(k)
    <2>1. loc = "parse" /\ loc' = "parse" /\ UNCHANGED <<words, arg_num>> /\ argc # 0
      BY <1>4 DEF Plain, SetOption, Turn
    <2>2. /\ n \in Nat /\ cpidx < n /\ n + argc = arg_num /\ argc \in Int /\ arg_num \in Nat
          /\ arg_num < Count
      BY <1>0, <2>1 DEF TypeOK, Inv, Parsing
    <2>3. \A k \in n .. Count : argv[k] = Got(k)
      BY <2>1 DEF OInv, Reading
    <2>4. n + 1 <= Count => argv[n] = words[n + 1]
      BY <1>0, <2>2, <2>3 DEF Got
    <2>5. argc > 0 => Free(n + 1) /\ SetTo(given, n) /\ n >= 1
      BY <2>1, <2>2 DEF OInv, Reading
    <2>6. argc > 0 => ~IsValue(n + 1)
      BY <2>2, <2>5, FreeIsNoValue
    <2> QED
      BY <1>0, <2>1, <2>2, <2>3, <2>4, <2>5, <2>6
  <1>5. CASE Plain
    <2>1. /\ argc' = argc - 1 /\ at' = n + 1 /\ options' = given /\ argv[n].kind = "plain"
          /\ argv' = [argv EXCEPT ![cpidx] = argv[n]]
      BY <1>5 DEF Plain, Advance, Current
    <2>2. \A k \in n + 1 .. Count : argv'[k] = Got(k)
      BY <1>0, <1>4, <1>5, <2>1 DEF Types
    <2>3. ASSUME argc > 0
          PROVE  n + 1 >= 1 /\ n + 1 <= arg_num /\ Free((n + 1) + 1) /\ SetTo(given, n + 1)
      <3>1. words[n + 1].kind = "plain"
        BY <1>4, <1>5, <2>1, <2>3
      <3>2. OptionOf(words[n + 1]) \notin Options /\ ~IsOption(words[n + 1])
        BY <3>1, PlainSetsNothing
      <3>3. ~Takes(n + 1)
        BY <3>2 DEF Takes
      <3>4. Free((n + 1) + 1)
        BY <1>4, <1>5, <2>3, <3>3, FreeNext
      <3>5. SetTo(given, n + 1)
        BY <1>4, <1>5, <2>3, <3>2, MoreOf
      <3> QED
        BY <1>4, <1>5, <2>3, <3>4, <3>5
    <2>4. argc' >= 0 => argc > 0
      BY <1>4, <1>5, <2>1
    <2>5. Reading'
      BY <1>4, <1>5, <2>1, <2>2, <2>3, <2>4, ReadingAt
    <2> QED
      BY <1>0, <1>4, <1>5, <2>1, <2>5 DEF OInv, Read
  <1>6. CASE SetOption
    <2> PICK w, o : w = argv[n] /\ o = OptionOf(w)
      OBVIOUS
    <2>1. /\ o \in Options /\ argv' = argv
          /\ \/ w.attached /\ options' = [given EXCEPT ![o] = Value(w, "attached")]
             \/ ~w.attached /\ argc > 1 /\ options' = [given EXCEPT ![o] = Value(argv[n + 1], "whole")]
          /\ argc' = argc - Consumed(w) /\ at' = n + Consumed(w)
      BY <1>6 DEF SetOption, Advance, Current, MayTakeNext
    <2>2. options' = [u \in Options |-> options'[u]]
      BY <1>0, <2>1
    <2> PICK next : next = options'
      OBVIOUS
    <2>3. CASE w.attached
      <3>1. argc' = argc - 1 /\ at' = n + 1 /\ next = [given EXCEPT ![o] = Value(w, "attached")]
        BY <2>1, <2>3 DEF Consumed
      <3>2. ASSUME argc > 0
            PROVE  n + 1 >= 1 /\ n + 1 <= arg_num /\ Free((n + 1) + 1) /\ SetTo(next, n + 1)
        <4>1. w = words[n + 1]
          BY <1>4, <1>6, <3>2
        <4>2. ~Takes(n + 1) /\ next = [given EXCEPT ![o] = SetBy(n + 1)]
          BY <2>3, <3>1, <4>1 DEF Takes, SetBy
        <4>3. Free((n + 1) + 1)
          BY <1>4, <1>6, <3>2, <4>2, FreeNext
        <4>4. SetTo([given EXCEPT ![o] = SetBy(n + 1)], n + 1)
          BY <1>0, <1>4, <1>6, <2>1, <2>3, <3>2, <4>1, OneMore
        <4> QED
          BY <1>4, <1>6, <3>2, <4>2, <4>3, <4>4
      <3>3. argc' >= 0 => argc > 0
        BY <1>4, <1>6, <3>1
      <3>4. \A k \in n + 1 .. Count : argv'[k] = Got(k)
        BY <1>0, <1>4, <1>6, <2>1
      <3>5. Reading'
        BY <1>4, <1>6, <3>1, <3>2, <3>3, <3>4, ReadingAt
      <3> QED
        BY <1>4, <1>6, <2>2, <3>5 DEF OInv, Read
    <2>4. CASE ~w.attached
      <3>1. /\ argc' = argc - 2 /\ at' = n + 2 /\ argc > 1
            /\ next = [given EXCEPT ![o] = Value(argv[n + 1], "whole")]
        BY <2>1, <2>4 DEF Consumed
      <3>2. /\ n >= 1 /\ n + 2 <= arg_num /\ arg_num < Count /\ w = words[n + 1]
            /\ Free(n + 1) /\ SetTo(given, n) /\ ~IsValue(n + 1)
        BY <1>0, <1>4, <1>6, <3>1 DEF Inv, Parsing
      <3>3. argv[n + 1] = words[(n + 1) + 1]
        <4>1. argv[n + 1] = Got(n + 1)
          BY <1>0, <1>4, <1>6, <3>2
        <4>2. n + 1 < Count
          BY <1>0, <1>4, <1>6, <3>2
        <4> QED
          BY <4>1, <4>2 DEF Got
      <3>4. next = [given EXCEPT ![o] = SetBy(n + 1)] /\ Takes(n + 1)
        BY <2>1, <2>4, <3>1, <3>2, <3>3 DEF SetBy, Takes
      <3>5. IsValue((n + 1) + 1) /\ Free((n + 1) + 2)
        BY <1>4, <1>6, <3>2, <3>4, FreeBehind
      <3>6. SetTo(next, n + 1)
        <4>1. n + 1 < arg_num
          BY <1>4, <1>6, <3>2
        <4>2. SetTo([given EXCEPT ![o] = SetBy(n + 1)], n + 1)
          BY <1>0, <1>4, <1>6, <2>1, <3>2, <4>1, OneMore
        <4> QED
          BY <3>4, <4>2
      <3>7. SetTo(next, (n + 1) + 1)
        BY <1>4, <1>6, <3>5, <3>6, MoreOf
      <3>8. (n + 1) + 1 = n + 2 /\ (n + 1) + 2 = (n + 2) + 1
        BY <1>4, <1>6
      <3>9. \A k \in n + 2 .. Count : argv'[k] = Got(k)
        BY <1>0, <1>4, <1>6, <2>1
      <3>10. Reading'
        <4>1. n + 2 >= 1 /\ Free((n + 2) + 1) /\ SetTo(next, n + 2)
          BY <1>4, <1>6, <3>5, <3>7, <3>8
        <4> QED
          BY <1>4, <1>6, <3>1, <3>2, <3>9, <4>1, ReadingAt
      <3> QED
        BY <1>4, <1>6, <2>2, <3>10 DEF OInv, Read
    <2> QED
      BY <2>3, <2>4
  <1>7. CASE Parsed
    <2>1. /\ loc = "parse" /\ argc = 0 /\ loc' = "prepare"
          /\ UNCHANGED <<words, arg_num, options>>
      BY <1>7 DEF Parsed
    <2>2. at = arg_num /\ SetTo(given, at)
      BY <1>0, <2>1 DEF Inv, Parsing, OInv, Reading, Types, TypeOK
    <2>3. SetTo(given, n)'
      BY <2>1, <2>2, WordsKept
    <2>4. SetTo(options, arg_num)'
      BY <2>1, <2>2, <2>3 DEF SetTo, SetUpTo, LastOf
    <2> QED
      BY <1>0, <2>1, <2>4 DEF OInv, Reading, Read
  <1>8. CASE Prepare
    <2>1. loc = "prepare" /\ loc' = "run" /\ UNCHANGED <<words, arg_num, options>>
      BY <1>8 DEF Prepare
    <2> PICK m : m = arg_num
      OBVIOUS
    <2>2. SetTo(given, m)'
      BY <2>1, WordsKept DEF OInv, Read
    <2>3. SetTo(options, arg_num)'
      BY <2>1, <2>2 DEF SetTo, SetUpTo, LastOf
    <2> QED
      BY <1>0, <2>1, <2>3 DEF OInv, Reading, Read
  <1>9. CASE Ended \/ UNCHANGED vars
    <2>1. UNCHANGED vars
      BY <1>9 DEF Ended
    <2> PICK m : m = arg_num
      OBVIOUS
    <2>2. /\ loc' = loc /\ options' = given /\ at' = n /\ argv' = argv /\ argc' = argc
          /\ UNCHANGED <<words, arg_num>>
      BY <2>1 DEF vars
    <2>3. ASSUME loc = "parse" PROVE Reading'
      BY <2>2, <2>3, ReadingAt DEF OInv, Reading
    <2>4. ASSUME loc \in {"prepare", "run"} PROVE Read'
      <3>1. SetTo(given, m)'
        BY <2>2, <2>4, WordsKept DEF OInv, Read
      <3> QED
        BY <2>2, <3>1 DEF Read, SetTo, SetUpTo, LastOf
    <2>5. loc = "scan" => options' = [o \in Options |-> Unset]
      BY <2>2 DEF OInv
    <2> QED
      BY <1>0, <2>2, <2>3, <2>4, <2>5 DEF OInv, Reading, Read
  <1> QED
    BY <1>1, <1>2, <1>3, <1>5, <1>6, <1>7, <1>8, <1>9 DEF Next

\* Every option has the last value given for it before the separator, whichever
\* words are options, values or neither; a program is run only if all that stands
\* there is known and complete.
THEOREM GivenOptions == Spec => []OptionsAsGiven
  <1>1. Init => OInv
    BY DEF Init, OInv, Reading, Read
  <1>2. Spec => []OInv
    BY <1>1, OptionsStep, Invariance, TypeCorrect, PTL DEF Spec
  <1>3. TypeOK /\ OInv => OptionsAsGiven
    <2> SUFFICES ASSUME TypeOK, OInv, loc = "run" PROVE
          /\ options = [o \in Options |-> Given(o)]
          /\ \A k \in Before : IsOption(words[k]) =>
               /\ OptionOf(words[k]) \in Options
               /\ words[k].attached \/ k < arg_num
      BY DEF OptionsAsGiven
    <2>1. SetTo(options, arg_num)
      BY DEF OInv, Read
    <2>2. \A o \in Options : Setting(o) = SetUpTo(o, arg_num)
      BY DEF Setting, Before, SetUpTo
    <2>3. ASSUME NEW o \in Options
          PROVE  options[o] = Given(o)
      <3>1. CASE Setting(o) = {}
        BY <2>1, <2>2, <3>1 DEF SetTo, Given
      <3>2. CASE Setting(o) # {}
        <4>1. PICK k \in Setting(o) : (\A j \in Setting(o) : j <= k) /\ options[o] = SetBy(k)
          BY <2>1, <2>2, <3>2 DEF SetTo, LastOf
        <4>2. \A j \in Setting(o) : j \in Int
          BY DEF Setting, Before, TypeOK, Count
        <4>3. k = CHOOSE i \in Setting(o) : \A j \in Setting(o) : j <= i
          <5> PICK c : c = CHOOSE i \in Setting(o) : \A j \in Setting(o) : j <= i
            OBVIOUS
          <5>1. c \in Setting(o) /\ \A j \in Setting(o) : j <= c
            BY <4>1
          <5> QED
            BY <4>1, <4>2, <5>1
        <4> QED
          BY <3>2, <4>1, <4>3 DEF Given
      <3> QED
        BY <3>1, <3>2
    <2>4. options = [o \in Options |-> options[o]]
      BY DEF OInv
    <2> QED
      BY <2>1, <2>3, <2>4 DEF SetTo, Before
  <1> QED
    BY <1>2, <1>3, TypeCorrect, PTL

=============================================================================
