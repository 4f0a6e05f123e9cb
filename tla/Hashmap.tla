------------------------------- MODULE Hashmap -------------------------------
(***************************************************************************)
(* The hash map of src/include/hashmap.h, which init_syscall_rules fills   *)
(* with the numbers of all system calls by name: buckets that point to     *)
(* singly linked entries in the heap.  A step is one turn of a loop.       *)
(*                                                                         *)
(* An entry owns its copy of the key: the two are allocated and freed      *)
(* together and are one node here.  malloc does not fail.                  *)
(***************************************************************************)
EXTENDS Naturals, FiniteSets

CONSTANTS
    Keys, Values, NotFound,
    Size,      \* the number of buckets
    Hash,      \* Hash_F
    Nodes,     \* heap blocks (a bound on the entries)
    NULL, Idle, Deleted

Buckets == 0 .. Size - 1
Id(key) == Hash[key] % Size

Requests == [op : {"get", "drop", "del"}, key : Keys] \cup [op : {"set"}, key : Keys, val : Values]

ASSUME HashmapAssumption ==
    /\ Size \in Nat \ {0}
    /\ Hash \in [Keys -> Nat]
    /\ NULL \notin Nodes /\ NotFound \notin Values
    /\ Idle # Deleted /\ {Idle, Deleted} \cap Requests = {}

VARIABLES
    entries,        \* this->entries
    node,           \* the contents of the heap: _key, _val, next
    live,           \* the nodes allocated and not freed
    request,        \* the operation under way, with its arguments
    loc,            \* "enter", "walk" or "sweep" within it
    current, prev,  \* its locals
    i,              \* del_'s bucket
    answer          \* what get returned last

heapVars == <<entries, node, live>>
vars == <<heapVars, request, loc, current, prev, i, answer>>

\* What a block holds that is not in use.
Undefined == [key |-> NULL, val |-> NULL, next |-> NULL]

Init ==
    /\ entries = [b \in Buckets |-> NULL]
    /\ node = [n \in Nodes |-> Undefined]
    /\ live = {}
    /\ request = Idle /\ loc = "enter"
    /\ current = NULL /\ prev = NULL /\ i = 0
    /\ answer = NotFound

\* A set is requested only while there is memory for it.
Request ==
    /\ request = Idle
    /\ request' \in Requests
    /\ request'.op = "set" => live # Nodes
    /\ UNCHANGED <<heapVars, loc, current, prev, i, answer>>

Doing(ops, where) == request \in Requests /\ request.op \in ops /\ loc = where
Return ==
    /\ request' = Idle /\ loc' = "enter"
    /\ current' = NULL /\ prev' = NULL /\ UNCHANGED i

Enter ==
    /\ Doing({"get", "set", "drop"}, "enter")
    /\ loc' = "walk"
    /\ current' = entries[Id(request.key)] /\ prev' = entries[Id(request.key)]
    /\ UNCHANGED <<heapVars, request, i, answer>>

Arrived == current # NULL => node[current].key = request.key

\* Mutant of Follow: prev stays at the head of the bucket.
FollowWithoutPrev == current' = node[current].next /\ UNCHANGED prev

Follow == current' = node[current].next /\ prev' = current

Walk ==
    /\ Doing({"get", "set", "drop"}, "walk") /\ ~Arrived
    /\ Follow
    /\ UNCHANGED <<heapVars, request, loc, i, answer>>

NOT_FOUND == NotFound

Get ==
    /\ Doing({"get"}, "walk") /\ Arrived
    /\ answer' = IF current # NULL THEN node[current].val ELSE NOT_FOUND
    /\ Return
    /\ UNCHANGED heapVars

Replace ==
    /\ Doing({"set"}, "walk") /\ Arrived /\ current # NULL
    /\ node' = [node EXCEPT ![current].val = request.val]
    /\ Return
    /\ UNCHANGED <<entries, live, answer>>

\* Mutant of NextOfNew: the rest of the bucket is lost.
NextOfNewNull(b) == NULL

NextOfNew(b) == entries[b]

Insert ==
    LET b == Id(request.key)
        new == CHOOSE n \in Nodes : n \notin live
    IN  /\ Doing({"set"}, "walk") /\ Arrived /\ current = NULL
        /\ live' = live \cup {new}
        /\ node' = [node EXCEPT ![new] = [key |-> request.key, val |-> request.val,
                                          next |-> NextOfNew(b)]]
        /\ entries' = [entries EXCEPT ![b] = new]
        /\ Return
        /\ UNCHANGED answer

\* del_..._entry(n), where the contents of the nodes have become heap.
FreeIn(heap, n) == live' = live \ {n} /\ node' = [heap EXCEPT ![n] = Undefined]

DropNothing ==
    /\ Doing({"drop"}, "walk") /\ Arrived /\ current = NULL
    /\ Return
    /\ UNCHANGED <<heapVars, answer>>
DropEntry ==
    LET b == Id(request.key) IN
    /\ Doing({"drop"}, "walk") /\ Arrived /\ current # NULL
    /\ IF current = entries[b]
         THEN /\ entries' = [entries EXCEPT ![b] = node[current].next]
              /\ FreeIn(node, current)
         ELSE /\ FreeIn([node EXCEPT ![prev].next = node[current].next], current)
              /\ UNCHANGED entries
    /\ Return
    /\ UNCHANGED answer

(***************************************************************************)
(* del_: all buckets, all their entries.                                   *)
(***************************************************************************)
DelBegin ==
    /\ Doing({"del"}, "enter")
    /\ loc' = "sweep" /\ i' = 0 /\ current' = entries[0]
    /\ UNCHANGED <<heapVars, request, prev, answer>>

\* Mutant of LastBucket: the loop ends one bucket early.
LastBucketEarly == i >= Size - 2

LastBucket == i = Size - 1

DelEntry ==
    /\ Doing({"del"}, "sweep") /\ current # NULL
    /\ current' = node[current].next
    /\ FreeIn(node, current)
    /\ UNCHANGED <<entries, request, loc, prev, i, answer>>
DelBucket ==
    /\ Doing({"del"}, "sweep") /\ current = NULL /\ ~LastBucket
    /\ i' = i + 1 /\ current' = entries[i + 1]
    /\ UNCHANGED <<heapVars, request, loc, prev, answer>>
DelEnd ==
    /\ Doing({"del"}, "sweep") /\ current = NULL /\ LastBucket
    /\ request' = Deleted
    /\ UNCHANGED <<heapVars, loc, current, prev, i, answer>>

Operate ==
    \/ Enter \/ Walk \/ Get \/ Replace \/ Insert \/ DropNothing \/ DropEntry
    \/ DelBegin \/ DelEntry \/ DelBucket \/ DelEnd
Finished == request = Deleted /\ UNCHANGED vars
Next == Request \/ Operate \/ Finished

\* The caller need not call; an operation that was called goes on.
Spec == Init /\ [][Next]_vars /\ WF_vars(Operate)

-----------------------------------------------------------------------------
(***************************************************************************)
(* Properties.                                                             *)
(***************************************************************************)

\* Every variable has its type.
TypeOK ==
    /\ entries \in [Buckets -> Nodes \cup {NULL}]
    /\ node \in [Nodes -> [key : Keys \cup {NULL}, val : Values \cup {NULL},
                           next : Nodes \cup {NULL}]]
    /\ live \subseteq Nodes
    /\ request \in Requests \cup {Idle, Deleted}
    /\ loc \in {"enter", "walk", "sweep"}
    /\ current \in Nodes \cup {NULL} /\ prev \in Nodes \cup {NULL}
    /\ i \in Buckets /\ answer \in Values \cup {NotFound}

\* The links lead out of S from nowhere in S.
Closed(heap, S) == \A n \in S : heap[n].next \in S \cup {NULL}

\* The nodes that the links lead to from first: those in every closed set with it.
From(heap, first) ==
    {n \in Nodes : \A S \in SUBSET Nodes : (first \in S \cup {NULL} /\ Closed(heap, S)) => n \in S}

Chain(b) == From(node, entries[b])

\* The heap keeps its shape: between and during operations, every node in use is
\* linked from the bucket of its key and from no other, and nothing freed is: no
\* entry is lost or met twice.
Linked ==
    /\ TypeOK
    /\ request # Deleted /\ loc # "sweep" =>
         /\ live = UNION {Chain(b) : b \in Buckets}
         /\ \A b \in Buckets : \A n \in Chain(b) : Id(node[n].key) = b
         /\ \A m, n \in live : node[m].key = node[n].key => m = n

\* What del_ follows has not been freed, and at its end all memory is.
Swept ==
    /\ loc = "sweep" /\ current # NULL => current \in live
    /\ request = Deleted => live = {}

\* The map that the heap stands for: the value of the node that has the key.
Of(key) == {n \in live : node[n].key = key}
Ending  == request = Deleted \/ (request \in Requests /\ request.op = "del")
Map ==
    [k \in Keys |-> IF Ending \/ Of(k) = {} THEN NotFound
                   ELSE node[CHOOSE n \in Of(k) : TRUE].val]

\* The chains of nodes implement a map from keys to values, and every operation
\* on it returns.
Abstract == INSTANCE NameMap WITH map <- Map
MapSpec  == Abstract!Spec

=============================================================================
