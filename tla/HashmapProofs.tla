---------------------------- MODULE HashmapProofs ----------------------------
(***************************************************************************)
(* Proofs about Hashmap: no entry is lost or freed twice, and the linked   *)
(* entries implement the map of NameMap, for every set of keys, hash       *)
(* function, number of buckets and amount of memory.                       *)
(*                                                                         *)
(* "All entries of the bucket are linked from it" is said without counting *)
(* links: they are in every closed set with its first entry (From).  What  *)
(* a change of the heap does to the chains is then what it does to the     *)
(* closed sets, and needs no induction along the chain.                    *)
(***************************************************************************)
EXTENDS Hashmap, TLAPS

USE HashmapAssumption

-----------------------------------------------------------------------------
(***************************************************************************)
(* The inductive invariant.                                                *)
(***************************************************************************)

InBucket(b) == {n \in live : Id(node[n].key) = b}

\* Blocks in use hold entries, one for a key, linked within their bucket and from
\* at most one other; blocks not in use hold nothing.
Heap ==
    /\ \A n \in Nodes \ live : node[n] = Undefined
    /\ \A n \in live :
         /\ node[n].key \in Keys /\ node[n].val \in Values
         /\ node[n].next \in InBucket(Id(node[n].key)) \cup {NULL}
    /\ \A m, n \in live : node[m].key = node[n].key => m = n
    /\ \A m, n \in live : node[m].next = node[n].next /\ node[m].next # NULL => m = n

\* first is where all of bucket b hangs, and is linked from no entry.
Heads(first, b) ==
    /\ first \in InBucket(b) \cup {NULL}
    /\ InBucket(b) \subseteq From(node, first)
    /\ \A n \in live : node[n].next = first => first = NULL

\* The buckets that del_ has not come to yet.
Untouched == {b \in Buckets : request # Deleted /\ (loc = "sweep" => b > i)}

\* The walk for a key has not passed the entry it looks for, and prev is before it.
Walking ==
    /\ request \in Requests /\ request.op \in {"get", "set", "drop"}
    /\ current \in InBucket(Id(request.key)) \cup {NULL}
    /\ Of(request.key) \subseteq From(node, current)
    /\ \/ current \in {NULL, entries[Id(request.key)]}
       \/ prev \in live /\ node[prev].next = current

\* del_ has emptied the buckets before i, and what is left of bucket i hangs on current.
Sweeping ==
    /\ request \in Requests /\ request.op = "del"
    /\ Heads(current, i)
    /\ \A n \in live : Id(node[n].key) >= i

IInv ==
    /\ TypeOK
    /\ Heap
    /\ \A b \in Untouched : Heads(entries[b], b)
    /\ loc = "walk" => Walking
    /\ loc = "sweep" => Sweeping \/ request = Deleted
    /\ request = Deleted => loc = "sweep" /\ live = {} /\ current = NULL
    /\ (request \in Requests /\ request.op = "set") => live # Nodes

-----------------------------------------------------------------------------
(***************************************************************************)
(* The operators of Hashmap.                                               *)
(***************************************************************************)

\* Every key has a bucket.
LEMMA IdType == ASSUME NEW key \in Keys PROVE Id(key) \in Buckets
  <1>1. Hash[key] \in Nat
    OBVIOUS
  <1> QED
    BY <1>1 DEF Id, Buckets

\* There are no links from NULL.
LEMMA FromNULL == ASSUME NEW h PROVE From(h, NULL) = {}
  <1>1. Closed(h, {}) /\ {} \in SUBSET Nodes
    BY DEF Closed
  <1> QED
    BY <1>1 DEF From

\* From an entry, the links lead to the entry and where they lead from the next.
LEMMA FromNext ==
    ASSUME NEW h, NEW n \in Nodes
    PROVE  From(h, n) \subseteq {n} \cup From(h, h[n].next)
  <1> SUFFICES ASSUME NEW k \in From(h, n), k # n,
                      NEW S \in SUBSET Nodes, h[n].next \in S \cup {NULL}, Closed(h, S)
               PROVE  k \in S
    BY DEF From
  <1>1. Closed(h, S \cup {n}) /\ S \cup {n} \in SUBSET Nodes
    BY DEF Closed
  <1>2. k \in S \cup {n}
    BY <1>1 DEF From
  <1> QED
    BY <1>2

\* A set with no link out of it holds all that is linked from it.
LEMMA FromWithin ==
    ASSUME NEW h, NEW C \in SUBSET Nodes, Closed(h, C), NEW n \in C \cup {NULL}
    PROVE  From(h, n) \subseteq C
  BY DEF From

\* Whatever else becomes of the heap, the links within such a set lead where they led.
LEMMA FromLocal ==
    ASSUME NEW h, NEW g, NEW C \in SUBSET Nodes, Closed(h, C),
           \A n \in C : g[n].next = h[n].next,
           NEW first \in C \cup {NULL}
    PROVE  From(h, first) \subseteq From(g, first)
  <1> SUFFICES ASSUME NEW k \in From(h, first),
                      NEW S \in SUBSET Nodes, first \in S \cup {NULL}, Closed(g, S)
               PROVE  k \in S
    BY DEF From
  <1>1. Closed(h, S \cap C) /\ S \cap C \in SUBSET Nodes
    BY DEF Closed
  <1>2. k \in S \cap C
    BY <1>1 DEF From
  <1> QED
    BY <1>2

\* An entry put before another leads to itself and to all that the other leads to.
LEMMA FromPush ==
    ASSUME NEW g, NEW new \in Nodes
    PROVE  {new} \cup From(g, g[new].next) \subseteq From(g, new)
  <1> SUFFICES ASSUME NEW k \in {new} \cup From(g, g[new].next),
                      NEW S \in SUBSET Nodes, new \in S \cup {NULL}, Closed(g, S)
               PROVE  k \in S
    BY DEF From
  <1>1. new \in S
    OBVIOUS
  <1>2. g[new].next \in S \cup {NULL}
    BY <1>1 DEF Closed
  <1> QED
    BY <1>1, <1>2 DEF From

\* An entry cut out of the middle is the only one that is lost.
LEMMA FromCut ==
    ASSUME NEW h, NEW g, NEW before \in Nodes, NEW cut \in Nodes, before # cut,
           h[before].next = cut, g[before].next = h[cut].next,
           \A n \in Nodes \ {before, cut} : g[n].next = h[n].next /\ h[n].next # cut,
           h[cut].next # cut,
           NEW first \in Nodes, first # cut
    PROVE  From(h, first) \ {cut} \subseteq From(g, first)
  <1> SUFFICES ASSUME NEW k \in From(h, first), k # cut,
                      NEW S \in SUBSET Nodes, first \in S \cup {NULL}, Closed(g, S)
               PROVE  k \in S
    BY DEF From
  <1>1. CASE before \in S
    <2>1. Closed(h, S \cup {cut}) /\ S \cup {cut} \in SUBSET Nodes
      BY <1>1 DEF Closed
    <2> QED
      BY <2>1 DEF From
  <1>2. CASE before \notin S
    <2>1. Closed(h, S \ {cut}) /\ S \ {cut} \in SUBSET Nodes
      BY <1>2 DEF Closed
    <2> QED
      BY <2>1 DEF From
  <1> QED
    BY <1>1, <1>2

-----------------------------------------------------------------------------
(***************************************************************************)
(* What the invariant says of one bucket.                                  *)
(***************************************************************************)

\* No link leads out of a bucket.
LEMMA BucketClosed ==
    ASSUME TypeOK, Heap, NEW b
    PROVE  InBucket(b) \in SUBSET Nodes /\ Closed(node, InBucket(b))
  BY DEF TypeOK, Heap, InBucket, Closed

\* No entry is its own next one.
LEMMA NoLoop ==
    ASSUME TypeOK, Heap, NEW b, NEW first, Heads(first, b), NEW n \in InBucket(b)
    PROVE  node[n].next # n
  <1> SUFFICES ASSUME node[n].next = n PROVE FALSE
    OBVIOUS
  <1>0. n \in live /\ n \in Nodes
    BY DEF InBucket, TypeOK
  <1>1. first # n
    BY <1>0 DEF Heads
  <1>2. \A m \in InBucket(b) \ {n} : node[m].next \in (InBucket(b) \ {n}) \cup {NULL}
    <2> TAKE m \in InBucket(b) \ {n}
    <2>1. node[m].next \in InBucket(b) \cup {NULL}
      BY DEF Heap, InBucket
    <2>2. CASE node[m].next = n
      <3>1. m = n
        BY <2>2, <1>0 DEF Heap, InBucket
      <3> QED
        BY <3>1
    <2> QED
      BY <2>1, <2>2
  <1>3. Closed(node, InBucket(b) \ {n}) /\ InBucket(b) \ {n} \in SUBSET Nodes
    BY <1>2 DEF Closed, InBucket, TypeOK
  <1>4. n \in From(node, first) /\ first \in (InBucket(b) \ {n}) \cup {NULL}
    BY <1>1 DEF Heads
  <1> QED
    BY <1>3, <1>4 DEF From

\* Where the heap is left alone, what hangs on an entry stays.
LEMMA HeapStays == ASSUME UNCHANGED heapVars, Heap PROVE Heap'
  BY DEF heapVars, Heap, InBucket

-----------------------------------------------------------------------------
(***************************************************************************)
(* Every step keeps the invariant: first those that leave the heap alone.  *)
(***************************************************************************)

LEMMA InvInit == Init => IInv
  <1> SUFFICES ASSUME Init PROVE IInv
    OBVIOUS
  <1> USE DEF Init
  <1>1. TypeOK
    BY DEF TypeOK, Buckets, Undefined
  <1>2. Heap
    BY DEF Heap
  <1>3. \A b \in Untouched : Heads(entries[b], b)
    BY DEF Untouched, Heads, InBucket
  <1> QED
    BY <1>1, <1>2, <1>3 DEF IInv

LEMMA InvRequest == IInv /\ Request => IInv'
  <1> SUFFICES ASSUME IInv, Request PROVE IInv'
    OBVIOUS
  <1> USE DEF IInv, Request
  <1>1. UNCHANGED heapVars /\ UNCHANGED <<loc, current, prev, i>>
    OBVIOUS
  <1>2. TypeOK'
    BY DEF TypeOK, heapVars
  <1>3. Heap'
    BY <1>1, HeapStays
  <1>4. loc = "enter"
    BY DEF Walking, Sweeping, TypeOK
  <1>5. \A b \in Untouched' : Heads(entries[b], b)'
    BY <1>4 DEF Untouched, Heads, InBucket, heapVars
  <1>6. (request' \in Requests /\ request'.op = "set") => live' # Nodes
    BY DEF heapVars
  <1> QED
    BY <1>2, <1>3, <1>4, <1>5, <1>6

\* What a request may be.
LEMMA RequestTypes ==
    ASSUME request \in Requests
    PROVE  /\ request.key \in Keys /\ request.op \in {"get", "set", "drop", "del"}
           /\ request.op = "set" => request.val \in Values
           /\ request # Deleted /\ request # Idle
  BY DEF Requests

LEMMA InvEnter == IInv /\ Enter => IInv'
  <1> SUFFICES ASSUME IInv, Enter PROVE IInv'
    OBVIOUS
  <1> USE DEF IInv, Enter
  <1> DEFINE b == Id(request.key)
  <1>1. /\ UNCHANGED heapVars /\ UNCHANGED request
        /\ request \in Requests /\ request # Deleted /\ request.op \in {"get", "set", "drop"}
        /\ loc = "enter" /\ loc' = "walk"
        /\ current' = entries[b] /\ prev' = entries[b]
    BY RequestTypes DEF Doing
  <1>2. b \in Buckets /\ Untouched = Buckets /\ Untouched' = Buckets
    BY <1>1, RequestTypes, IdType DEF Untouched
  <1>3. TypeOK'
    BY <1>1, <1>2 DEF TypeOK, heapVars
  <1>4. Heap'
    BY <1>1, HeapStays
  <1>5. \A c \in Untouched' : Heads(entries[c], c)'
    BY <1>1, <1>2 DEF Heads, InBucket, heapVars
  <1>6. Walking'
    <2>1. Heads(entries[b], b)
      BY <1>2
    <2>2. current' \in InBucket(b)' \cup {NULL}
      BY <1>1, <2>1 DEF Heads, InBucket, heapVars
    <2>3. Of(request.key)' \subseteq From(node, current)'
      BY <1>1, <2>1 DEF Heads, InBucket, Of, heapVars
    <2> QED
      BY <1>1, <2>2, <2>3 DEF Walking, heapVars
  <1> QED
    BY <1>1, <1>3, <1>4, <1>5, <1>6 DEF heapVars

LEMMA InvWalk == IInv /\ Walk => IInv'
  <1> SUFFICES ASSUME IInv, Walk PROVE IInv'
    OBVIOUS
  <1> USE DEF IInv, Walk
  <1> DEFINE b == Id(request.key)
  <1>1. /\ UNCHANGED heapVars /\ UNCHANGED <<request, loc, i, answer>>
        /\ request \in Requests /\ request # Deleted /\ loc = "walk" /\ Walking
        /\ current # NULL /\ node[current].key # request.key
        /\ current' = node[current].next /\ prev' = current
    BY RequestTypes DEF Doing, Arrived, Follow
  <1>2. current \in InBucket(b) /\ current \in live /\ current \in Nodes
    BY <1>1 DEF Walking, InBucket, TypeOK
  <1>3. TypeOK'
    BY <1>1, <1>2 DEF TypeOK, heapVars
  <1>4. Heap'
    BY <1>1, HeapStays
  <1>5. \A c \in Untouched' : Heads(entries[c], c)'
    BY <1>1 DEF Heads, InBucket, heapVars, Untouched
  <1>6. Walking'
    <2>1. node[current].next \in InBucket(b) \cup {NULL}
      BY <1>2 DEF Heap, InBucket
    <2>2. current' \in InBucket(b)' \cup {NULL}
      BY <1>1, <2>1 DEF InBucket, heapVars
    <2>3. Of(request.key) \subseteq From(node, node[current].next)
      BY <1>1, <1>2, FromNext DEF Walking, Of
    <2>4. Of(request.key)' \subseteq From(node, current)'
      BY <1>1, <2>3 DEF Of, heapVars
    <2>5. prev' \in live' /\ node'[prev'].next = current'
      BY <1>1, <1>2 DEF heapVars
    <2> QED
      BY <1>1, <2>2, <2>4, <2>5 DEF Walking
  <1> QED
    BY <1>1, <1>3, <1>4, <1>5, <1>6 DEF heapVars

LEMMA InvReturn ==
    ASSUME IInv, UNCHANGED heapVars, Return, request \in Requests, loc = "walk",
           answer' \in Values \cup {NotFound}
    PROVE  IInv'
  <1> USE DEF IInv, Return
  <1>1. TypeOK'
    BY DEF TypeOK, heapVars
  <1>2. Heap'
    BY HeapStays
  <1>3. \A b \in Untouched' : Heads(entries[b], b)'
    BY RequestTypes DEF Heads, InBucket, heapVars, Untouched
  <1> QED
    BY <1>1, <1>2, <1>3

LEMMA InvGet == IInv /\ Get => IInv'
  <1> SUFFICES ASSUME IInv, Get PROVE IInv'
    OBVIOUS
  <1>1. request \in Requests /\ loc = "walk" /\ Return /\ UNCHANGED heapVars
    BY DEF Get, Doing
  <1>2. answer' \in Values \cup {NotFound}
    BY <1>1 DEF Get, IInv, Walking, InBucket, Heap, NOT_FOUND
  <1> QED
    BY <1>1, <1>2, InvReturn

LEMMA InvDropNothing == IInv /\ DropNothing => IInv'
  BY InvReturn DEF DropNothing, Doing, IInv, TypeOK

-----------------------------------------------------------------------------
(***************************************************************************)
(* The steps that change the heap.                                         *)
(***************************************************************************)

\* What hangs on an entry stays when its bucket stays, whatever happens to others.
LEMMA HeadsStays ==
    ASSUME TypeOK, Heap, TypeOK', Heap', NEW b, NEW first, Heads(first, b),
           InBucket(b)' = InBucket(b),
           \A n \in InBucket(b) : node'[n].next = node[n].next
    PROVE  Heads(first, b)'
  <1>1. first \in InBucket(b)' \cup {NULL}
    BY DEF Heads
  <1>2. InBucket(b)' \subseteq From(node', first)
    BY BucketClosed, FromLocal DEF Heads
  <1>3. \A n \in live' : node'[n].next = first => first = NULL
    <2> SUFFICES ASSUME NEW n \in live', node'[n].next = first, first # NULL PROVE FALSE
      OBVIOUS
    <2>1. n \in InBucket(b)'
      BY <1>1 DEF Heap, InBucket
    <2>2. n \in live /\ node[n].next = first
      BY <2>1 DEF InBucket
    <2> QED
      BY <2>2 DEF Heads
  <1> QED
    BY <1>1, <1>2, <1>3 DEF Heads

LEMMA InvReplace == IInv /\ Replace => IInv'
  <1> SUFFICES ASSUME IInv, Replace PROVE IInv'
    OBVIOUS
  <1> USE DEF IInv
  <1>1. /\ request \in Requests /\ request.op = "set" /\ request # Deleted /\ loc = "walk"
        /\ Return /\ UNCHANGED <<entries, live, answer>>
        /\ current # NULL
        /\ node' = [node EXCEPT ![current].val = request.val]
        /\ request.val \in Values
    BY RequestTypes DEF Replace, Doing
  <1>2. current \in live /\ current \in Nodes
    BY <1>1 DEF Walking, InBucket, TypeOK
  <1>3. TypeOK'
    BY <1>1, <1>2 DEF TypeOK, Return
  <1>4. /\ \A n \in Nodes : node'[n].key = node[n].key /\ node'[n].next = node[n].next
        /\ \A n \in Nodes \ {current} : node'[n] = node[n]
        /\ node'[current].val = request.val
    BY <1>1, <1>2 DEF TypeOK
  <1>5. \A b : InBucket(b)' = InBucket(b)
    BY <1>1, <1>4 DEF InBucket, TypeOK
  <1>6. Heap'
    <2>1. \A n \in Nodes \ live' : node'[n] = Undefined
      BY <1>1, <1>2, <1>4 DEF Heap
    <2>2. \A n \in live' :
            /\ node'[n].key \in Keys /\ node'[n].val \in Values
            /\ node'[n].next \in InBucket(Id(node[n].key))' \cup {NULL}
      <3> TAKE n \in live'
      <3>1. n \in live /\ n \in Nodes
        BY <1>1 DEF TypeOK
      <3>2. node'[n].val \in Values
        BY <1>1, <1>4, <3>1 DEF Heap
      <3>3. node'[n].key \in Keys /\ node'[n].next \in InBucket(Id(node[n].key)) \cup {NULL}
        BY <1>4, <3>1 DEF Heap
      <3> QED
        BY <1>4, <1>5, <3>1, <3>2, <3>3
    <2>3. \A m, n \in live' : node'[m].key = node'[n].key => m = n
      BY <1>1, <1>4 DEF Heap, TypeOK
    <2>4. \A m, n \in live' : node'[m].next = node'[n].next /\ node'[m].next # NULL => m = n
      BY <1>1, <1>4 DEF Heap, TypeOK
    <2> QED
      BY <2>1, <2>2, <2>3, <2>4 DEF Heap
  <1>7. \A b \in Untouched' : Heads(entries[b], b)'
    <2> TAKE b \in Untouched'
    <2>1. b \in Untouched
      BY <1>1, RequestTypes DEF Untouched, Return
    <2>2. PICK first : first = entries[b] /\ first = entries'[b]
      BY <1>1
    <2>3. Heads(first, b)
      BY <2>1, <2>2
    <2>4. \A n \in InBucket(b) : node'[n].next = node[n].next
      BY <1>4 DEF InBucket, TypeOK
    <2>5. Heads(first, b)'
      BY <1>3, <1>5, <1>6, <2>3, <2>4, HeadsStays
    <2> QED
      BY <2>2, <2>5 DEF Heads
  <1> QED
    BY <1>1, <1>3, <1>6, <1>7 DEF Return

LEMMA InvInsert == IInv /\ Insert => IInv'
  <1> SUFFICES ASSUME IInv, Insert PROVE IInv'
    OBVIOUS
  <1> USE DEF IInv
  <1> PICK b, new : b = Id(request.key) /\ new = CHOOSE n \in Nodes : n \notin live
    OBVIOUS
  <1>1. /\ request \in Requests /\ request.op = "set" /\ request # Deleted /\ loc = "walk"
        /\ Return /\ UNCHANGED answer /\ current = NULL
        /\ live' = live \cup {new}
        /\ node' = [node EXCEPT ![new] = [key |-> request.key, val |-> request.val,
                                          next |-> entries[b]]]
        /\ entries' = [entries EXCEPT ![b] = new]
        /\ request.val \in Values /\ request.key \in Keys
    BY RequestTypes DEF Insert, Doing, NextOfNew
  <1>2. new \in Nodes /\ new \notin live
    BY <1>1 DEF TypeOK
  <1>3. b \in Buckets /\ Untouched = Buckets /\ Heads(entries[b], b)
    BY <1>1, IdType DEF Untouched
  <1>4. TypeOK'
    BY <1>1, <1>2, <1>3 DEF TypeOK, Return
  <1>5. /\ node'[new].key = request.key /\ node'[new].val = request.val
        /\ node'[new].next = entries[b]
        /\ \A n \in Nodes \ {new} : node'[n] = node[n]
        /\ \A n \in live : n \in Nodes /\ n # new /\ node'[n] = node[n]
    BY <1>1, <1>2 DEF TypeOK
  <1>6. InBucket(b)' = InBucket(b) \cup {new}
    BY <1>1, <1>2, <1>5 DEF InBucket
  <1>7. \A c : c # b => InBucket(c)' = InBucket(c)
    BY <1>1, <1>2, <1>5 DEF InBucket
  <1>8. \A n \in live : node[n].key # request.key
    BY <1>1, FromNULL DEF Walking, Of
  <1>9. Heap'
    <2>0. live' = live \cup {new}
      BY <1>1
    <2>1. \A n \in Nodes \ live' : node'[n] = Undefined
      BY <1>1, <1>5 DEF Heap
    <2>2. \A n \in live' :
            /\ node'[n].key \in Keys /\ node'[n].val \in Values
            /\ node'[n].next \in InBucket(Id(node[n].key))' \cup {NULL}
      <3> TAKE n \in live'
      <3>1. CASE n = new
        BY <1>1, <1>3, <1>5, <1>6, <3>1 DEF Heads
      <3>2. CASE n \in live
        BY <1>5, <1>6, <1>7, <3>2 DEF Heap
      <3> QED
        BY <2>0, <3>1, <3>2
    <2>3. \A m, n \in live' : node'[m].key = node'[n].key => m = n
      <3>1. \A m \in live : node'[m].key = node[m].key /\ node'[m].key # node'[new].key
        BY <1>5, <1>8
      <3>2. \A m, n \in live : node'[m].key = node'[n].key => m = n
        BY <3>1 DEF Heap
      <3> QED
        BY <2>0, <3>1, <3>2
    <2>4. \A m, n \in live' : node'[m].next = node'[n].next /\ node'[m].next # NULL => m = n
      <3>1. \A m \in live : /\ node'[m].next = node[m].next
                            /\ node'[m].next = node'[new].next => node'[m].next = NULL
        BY <1>3, <1>5 DEF Heads
      <3>2. \A m, n \in live : node'[m].next = node'[n].next /\ node'[m].next # NULL => m = n
        BY <3>1 DEF Heap
      <3> QED
        BY <2>0, <3>1, <3>2
    <2> QED
      BY <2>1, <2>2, <2>3, <2>4 DEF Heap
  <1>10. Heads(new, b)'
    <2>1. InBucket(b) \subseteq From(node', entries[b])
      <3>1. \A n \in InBucket(b) : node'[n].next = node[n].next
        BY <1>5 DEF InBucket
      <3> QED
        BY <1>3, <3>1, BucketClosed, FromLocal DEF Heads
    <2>2. InBucket(b)' \subseteq From(node', new)
      BY <1>2, <1>5, <1>6, <2>1, FromPush
    <2>3. \A n \in live' : node'[n].next # new
      <3> TAKE n \in live'
      <3>1. CASE n = new
        BY <1>2, <1>3, <1>5, <3>1 DEF Heads, InBucket
      <3>2. CASE n \in live
        BY <1>2, <1>5, <3>2 DEF Heap, InBucket
      <3> QED
        BY <1>1, <3>1, <3>2
    <2> QED
      BY <1>6, <2>2, <2>3 DEF Heads
  <1>11. \A c \in Untouched' : Heads(entries[c], c)'
    <2> TAKE c \in Untouched'
    <2>0. c \in Buckets
      BY <1>1, RequestTypes DEF Untouched, Return
    <2>1. CASE c = b
      <3>1. entries'[c] = new
        BY <1>1, <1>3, <2>1 DEF TypeOK
      <3> QED
        BY <1>10, <2>1, <3>1 DEF Heads
    <2>2. CASE c # b
      <3>1. PICK first : first = entries[c] /\ first = entries'[c]
        BY <1>1, <2>0, <2>2 DEF TypeOK
      <3>2. Heads(first, c)
        BY <1>3, <2>0, <3>1
      <3>3. \A n \in InBucket(c) : node'[n].next = node[n].next
        BY <1>5 DEF InBucket
      <3>4. Heads(first, c)'
        BY <1>4, <1>7, <1>9, <2>2, <3>2, <3>3, HeadsStays
      <3> QED
        BY <3>1, <3>4 DEF Heads
    <2> QED
      BY <2>1, <2>2
  <1> QED
    BY <1>1, <1>4, <1>9, <1>11 DEF Return

-----------------------------------------------------------------------------
(***************************************************************************)
(* The steps that free an entry.                                           *)
(***************************************************************************)

\* cut is freed, and what was linked to it is linked to what came after it.
CutOut(cut) ==
    /\ cut \in live /\ live' = live \ {cut}
    /\ node'[cut] = Undefined
    /\ \A n \in Nodes \ {cut} :
         /\ node'[n].key = node[n].key /\ node'[n].val = node[n].val
         /\ node'[n].next = IF node[n].next = cut THEN node[cut].next ELSE node[n].next
    /\ \A n \in Nodes \ live : node'[n] = node[n]

LEMMA BucketsCut ==
    ASSUME TypeOK, NEW cut, CutOut(cut), NEW b
    PROVE  InBucket(b)' = InBucket(b) \ {cut}
  <1>1. \A n \in live \ {cut} : node'[n].key = node[n].key
    BY DEF CutOut, TypeOK
  <1>2. live' = live \ {cut}
    BY DEF CutOut
  <1> QED
    BY <1>1, <1>2 DEF InBucket

LEMMA HeapCut ==
    ASSUME TypeOK, Heap, NEW cut, CutOut(cut), node[cut].next # cut
    PROVE  Heap'
  <1>1. /\ cut \in live /\ cut \in Nodes /\ live' = live \ {cut} /\ live \subseteq Nodes
        /\ node'[cut] = Undefined
    BY DEF CutOut, TypeOK
  <1>2. \A n \in live' :
          /\ n \in live /\ n # cut
          /\ node'[n].key = node[n].key /\ node'[n].val = node[n].val
          /\ node'[n].next = IF node[n].next = cut THEN node[cut].next ELSE node[n].next
    BY <1>1 DEF CutOut
  <1>3. \A n \in Nodes \ live' : node'[n] = Undefined
    BY <1>1 DEF Heap, CutOut
  <1>4. \A n \in live' :
          /\ node'[n].key \in Keys /\ node'[n].val \in Values
          /\ node'[n].next \in InBucket(Id(node[n].key))' \cup {NULL}
    <2> TAKE n \in live'
    <2>1. node'[n].key \in Keys /\ node'[n].val \in Values
      BY <1>2 DEF Heap
    <2>2. InBucket(Id(node[n].key))' = InBucket(Id(node'[n].key)) \ {cut}
      BY BucketsCut
    <2>3. node[n].next \in InBucket(Id(node[n].key)) \cup {NULL}
      BY <1>2 DEF Heap
    <2>4. CASE node[n].next = cut
      <3>1. cut \in InBucket(Id(node[n].key))
        BY <1>1, <1>2, <2>3, <2>4 DEF Heap
      <3>2. node[cut].next \in InBucket(Id(node[n].key)) \cup {NULL}
        BY <1>1, <3>1 DEF Heap, InBucket
      <3>3. node'[n].next = node[cut].next
        BY <1>2, <2>4
      <3> QED
        BY <1>2, <2>1, <2>2, <3>2, <3>3
    <2>5. CASE node[n].next # cut
      <3>1. node'[n].next = node[n].next
        BY <1>2, <2>5
      <3> QED
        BY <1>2, <2>1, <2>2, <2>3, <2>5, <3>1
    <2> QED
      BY <2>4, <2>5
  <1>5. \A m, n \in live' : node'[m].key = node'[n].key => m = n
    BY <1>2 DEF Heap
  <1>6. \A m, n \in live' : node'[m].next = node'[n].next /\ node'[m].next # NULL => m = n
    <2> SUFFICES ASSUME NEW m \in live', NEW n \in live',
                        node'[m].next = node'[n].next, node'[m].next # NULL
                 PROVE  m = n
      OBVIOUS
    <2>1. \A k, l \in live : node[k].next = node[l].next /\ node[k].next # NULL => k = l
      BY DEF Heap
    <2>2. cut # NULL
      BY <1>1
    <2> QED
      BY <1>1, <1>2, <2>1, <2>2
  <1> QED
    BY <1>3, <1>4, <1>5, <1>6 DEF Heap

\* The other buckets stay.
LEMMA OthersCut ==
    ASSUME TypeOK, Heap, TypeOK', Heap', NEW cut, CutOut(cut),
           NEW b, NEW first, Heads(first, b), cut \notin InBucket(b)
    PROVE  Heads(first, b)'
  <1>1. InBucket(b)' = InBucket(b)
    BY BucketsCut
  <1>2. \A n \in InBucket(b) : node'[n].next = node[n].next
    <2> TAKE n \in InBucket(b)
    <2>1. n \in Nodes /\ n # cut /\ cut # NULL
      BY DEF InBucket, TypeOK, CutOut
    <2>2. node[n].next # cut
      BY <2>1 DEF Heap, InBucket
    <2> QED
      BY <2>1, <2>2 DEF CutOut
  <1> QED
    BY <1>1, <1>2, HeadsStays

\* The bucket whose first entry is freed hangs on the next one.
LEMMA FirstCut ==
    ASSUME TypeOK, Heap, TypeOK', Heap', NEW cut, CutOut(cut),
           NEW b, cut \in InBucket(b), Heads(cut, b), NEW next, next = node[cut].next
    PROVE  Heads(next, b)'
  <1>1. InBucket(b)' = InBucket(b) \ {cut} /\ cut \in live /\ cut \in Nodes /\ cut # NULL
    BY BucketsCut DEF CutOut, TypeOK
  <1>2. \A n \in live : node[n].next # cut
    BY <1>1 DEF Heads
  <1>3. \A n \in live' : n \in live /\ n \in Nodes /\ n # cut /\ node'[n].next = node[n].next
    BY <1>2 DEF CutOut, TypeOK
  <1>4. next \in InBucket(b)' \cup {NULL}
    BY <1>1, <1>2 DEF Heap, InBucket
  <1>5. InBucket(b)' \subseteq From(node', next)
    <2>1. InBucket(b)' \subseteq From(node, next)
      BY <1>1, FromNext DEF Heads
    <2>2. InBucket(b)' \in SUBSET Nodes /\ Closed(node, InBucket(b)')
      <3>1. InBucket(b)' \in SUBSET Nodes /\ Closed(node', InBucket(b)')
        BY BucketClosed, <1>3, <1>1 DEF Closed, InBucket, Heap
      <3> QED
        BY <3>1, <1>3 DEF Closed, InBucket
    <2>3. \A n \in InBucket(b)' : node'[n].next = node[n].next
      BY <1>3 DEF InBucket
    <2> QED
      BY <1>4, <2>1, <2>2, <2>3, FromLocal
  <1>6. \A n \in live' : node'[n].next = next => next = NULL
    <2> SUFFICES ASSUME NEW n \in live', node'[n].next = next, next # NULL PROVE FALSE
      OBVIOUS
    <2>1. n \in live /\ n # cut /\ node[n].next = node[cut].next /\ node[n].next # NULL
      BY <1>3
    <2> QED
      BY <1>1, <2>1 DEF Heap
  <1> QED
    BY <1>4, <1>5, <1>6 DEF Heads

\* The bucket of which another entry is freed still hangs on its first one.
LEMMA MiddleCut ==
    ASSUME TypeOK, Heap, TypeOK', Heap', NEW cut, CutOut(cut),
           NEW b, cut \in InBucket(b), NEW first, Heads(first, b), first # cut,
           NEW before \in live, node[before].next = cut
    PROVE  Heads(first, b)'
  <1>1. InBucket(b)' = InBucket(b) \ {cut} /\ cut \in live /\ cut \in Nodes /\ cut # NULL
    BY BucketsCut DEF CutOut, TypeOK
  <1>2. node[cut].next # cut /\ before # cut /\ before \in Nodes
    BY <1>1, NoLoop DEF TypeOK
  <1>3. first \in InBucket(b)
    <2>1. CASE first = NULL
      BY <2>1, FromNULL DEF Heads
    <2> QED
      BY <2>1 DEF Heads
  <1>4. first \in InBucket(b)' \cup {NULL} /\ first \in Nodes
    BY <1>1, <1>3 DEF InBucket, TypeOK
  <1>5. \A n \in Nodes \ {before, cut} : node'[n].next = node[n].next /\ node[n].next # cut
    <2> TAKE n \in Nodes \ {before, cut}
    <2>1. CASE n \in live
      <3>1. node[n].next # cut
        BY <1>1, <2>1 DEF Heap
      <3> QED
        BY <3>1 DEF CutOut
    <2>2. CASE n \notin live
      BY <1>1, <2>2 DEF CutOut, Heap, Undefined
    <2> QED
      BY <2>1, <2>2
  <1>6. node'[before].next = node[cut].next
    BY <1>2 DEF CutOut
  <1>7. From(node, first) \ {cut} \subseteq From(node', first)
    BY <1>1, <1>2, <1>4, <1>5, <1>6, FromCut
  <1>8. InBucket(b)' \subseteq From(node', first)
    BY <1>1, <1>7 DEF Heads
  <1>9. \A n \in live' : node'[n].next # first
    <2> TAKE n \in live'
    <2>1. n \in live /\ n \in Nodes /\ n # cut
      BY DEF CutOut, TypeOK
    <2>2. \A m \in live : node[m].next # first
      BY <1>4 DEF Heads
    <2> QED
      BY <1>1, <2>1, <2>2 DEF CutOut
  <1> QED
    BY <1>4, <1>8, <1>9 DEF Heads

LEMMA InvDropEntry == IInv /\ DropEntry => IInv'
  <1> SUFFICES ASSUME IInv, DropEntry PROVE IInv'
    OBVIOUS
  <1> USE DEF IInv
  <1> PICK b, cut, next : b = Id(request.key) /\ cut = current /\ next = node[cut].next
    OBVIOUS
  <1>1. /\ request \in Requests /\ request.op = "drop" /\ request # Deleted /\ loc = "walk"
        /\ request.key \in Keys
        /\ Return /\ UNCHANGED answer
        /\ cut # NULL /\ node[cut].key = request.key
        /\ live' = live \ {cut}
    BY RequestTypes DEF DropEntry, Doing, Arrived, FreeIn
  <1>2. cut \in live /\ cut \in Nodes /\ cut \in InBucket(b)
    BY <1>1 DEF Walking, InBucket, TypeOK
  <1>3. b \in Buckets /\ Untouched = Buckets /\ Untouched' = Buckets
    BY <1>1, RequestTypes, IdType DEF Untouched, Return
  <1>4. Heads(entries[b], b)
    BY <1>3
  <1>5. next # cut
    <2>1. PICK first : first = entries[b]
      OBVIOUS
    <2> QED
      BY <1>2, <1>4, <2>1, NoLoop
  <1>6. next \in Nodes \cup {NULL}
    BY <1>2 DEF TypeOK
  <1>7. \/ /\ cut = entries[b]
           /\ node' = [node EXCEPT ![cut] = Undefined]
           /\ entries' = [entries EXCEPT ![b] = next]
        \/ /\ cut # entries[b] /\ UNCHANGED entries
           /\ prev \in live /\ prev \in Nodes /\ node[prev].next = cut
           /\ node' = [[node EXCEPT ![prev].next = next] EXCEPT ![cut] = Undefined]
    BY <1>1 DEF DropEntry, FreeIn, Walking, TypeOK
  <1>8. TypeOK'
    <2>1. Undefined \in [key : Keys \cup {NULL}, val : Values \cup {NULL},
                         next : Nodes \cup {NULL}]
      BY DEF Undefined
    <2>2. node' \in [Nodes -> [key : Keys \cup {NULL}, val : Values \cup {NULL},
                               next : Nodes \cup {NULL}]]
      BY <1>2, <1>6, <1>7, <2>1 DEF TypeOK
    <2>3. entries' \in [Buckets -> Nodes \cup {NULL}]
      BY <1>3, <1>6, <1>7 DEF TypeOK
    <2> QED
      BY <1>1, <2>2, <2>3 DEF TypeOK, Return
  <1>9. CutOut(cut)
    <2>1. node'[cut] = Undefined
      BY <1>2, <1>7 DEF TypeOK
    <2>2. CASE cut = entries[b]
      <3>1. \A n \in Nodes \ {cut} : node'[n] = node[n]
        BY <1>7, <2>2 DEF TypeOK
      <3>2. \A n \in Nodes \ {cut} : node[n].next # cut
        <4> TAKE n \in Nodes \ {cut}
        <4>1. CASE n \in live
          BY <1>1, <1>4, <2>2, <4>1 DEF Heads
        <4>2. CASE n \notin live
          BY <1>1, <4>2 DEF Heap, Undefined
        <4> QED
          BY <4>1, <4>2
      <3> QED
        BY <1>1, <1>2, <2>1, <3>1, <3>2 DEF CutOut
    <2>3. CASE cut # entries[b]
      <3>1. /\ prev \in live /\ prev \in Nodes /\ node[prev].next = cut /\ prev # cut
            /\ node' = [[node EXCEPT ![prev].next = next] EXCEPT ![cut] = Undefined]
        BY <1>5, <1>7, <2>3
      <3>2. \A n \in Nodes \ {cut, prev} : node'[n] = node[n]
        BY <3>1 DEF TypeOK
      <3>3. /\ node'[prev].key = node[prev].key /\ node'[prev].val = node[prev].val
            /\ node'[prev].next = node[cut].next
        BY <3>1 DEF TypeOK
      <3>4. \A n \in Nodes \ {cut, prev} : node[n].next # cut
        <4> TAKE n \in Nodes \ {cut, prev}
        <4>1. CASE n \in live
          BY <1>1, <3>1, <4>1 DEF Heap
        <4>2. CASE n \notin live
          BY <1>1, <4>2 DEF Heap, Undefined
        <4> QED
          BY <4>1, <4>2
      <3>5. \A n \in Nodes \ live : n # cut /\ n # prev
        BY <1>2, <3>1
      <3> QED
        BY <1>1, <1>2, <2>1, <3>1, <3>2, <3>3, <3>4, <3>5 DEF CutOut
    <2> QED
      BY <2>2, <2>3
  <1>10. Heap'
    BY <1>5, <1>9, HeapCut
  <1>11. \A c \in Untouched' : Heads(entries[c], c)'
    <2> TAKE c \in Untouched'
    <2>0. c \in Buckets
      BY <1>3
    <2>1. CASE c # b
      <3>1. PICK first : first = entries[c] /\ first = entries'[c]
        BY <1>3, <1>7, <2>0, <2>1 DEF TypeOK
      <3>2. Heads(first, c) /\ cut \notin InBucket(c)
        BY <1>2, <1>3, <2>0, <2>1, <3>1 DEF InBucket
      <3>3. Heads(first, c)'
        BY <1>8, <1>9, <1>10, <3>2, OthersCut
      <3> QED
        BY <3>1, <3>3 DEF Heads
    <2>2. CASE c = b /\ cut = entries[b]
      <3>1. Heads(cut, b)
        BY <1>4, <2>2
      <3>2. Heads(next, b)'
        BY <1>2, <1>8, <1>9, <1>10, <3>1, FirstCut
      <3>3. next = entries'[c]
        BY <1>3, <1>7, <2>2 DEF TypeOK
      <3> QED
        BY <2>2, <3>2, <3>3 DEF Heads
    <2>3. CASE c = b /\ cut # entries[b]
      <3>1. PICK first, before : /\ first = entries[c] /\ first = entries'[c]
                                 /\ before = prev
        BY <1>7, <2>3
      <3>2. before \in live /\ node[before].next = cut /\ Heads(first, b) /\ first # cut
        BY <1>4, <1>7, <2>3, <3>1
      <3>3. Heads(first, b)'
        BY <1>2, <1>8, <1>9, <1>10, <3>2, MiddleCut
      <3> QED
        BY <2>3, <3>1, <3>3 DEF Heads
    <2> QED
      BY <2>1, <2>2, <2>3
  <1> QED
    BY <1>1, <1>8, <1>10, <1>11 DEF Return

LEMMA InvDelBegin == IInv /\ DelBegin => IInv'
  <1> SUFFICES ASSUME IInv, DelBegin PROVE IInv'
    OBVIOUS
  <1> USE DEF IInv
  <1>1. /\ request \in Requests /\ request.op = "del" /\ request # Deleted /\ loc = "enter"
        /\ loc' = "sweep" /\ i' = 0 /\ current' = entries[0]
        /\ UNCHANGED heapVars /\ UNCHANGED <<request, prev, answer>>
    BY RequestTypes DEF DelBegin, Doing
  <1>2. 0 \in Buckets /\ Untouched = Buckets /\ Untouched' \subseteq Buckets
    BY <1>1 DEF Untouched, Buckets
  <1>3. TypeOK'
    BY <1>1, <1>2 DEF TypeOK, heapVars
  <1>4. Heap'
    BY <1>1, HeapStays
  <1>5. \A b \in Untouched' : Heads(entries[b], b)'
    BY <1>1, <1>2 DEF Heads, InBucket, heapVars
  <1>6. Heads(current, i)'
    BY <1>1, <1>2 DEF Heads, InBucket, heapVars
  <1>7. \A n \in live' : Id(node'[n].key) >= i'
    BY <1>1, IdType DEF Heap, heapVars, Buckets
  <1> QED
    BY <1>1, <1>3, <1>4, <1>5, <1>6, <1>7 DEF Sweeping, heapVars

LEMMA InvDelEntry == IInv /\ DelEntry => IInv'
  <1> SUFFICES ASSUME IInv, DelEntry PROVE IInv'
    OBVIOUS
  <1> USE DEF IInv
  <1> PICK cut, next, b : cut = current /\ next = node[cut].next /\ b = i
    OBVIOUS
  <1>1. /\ request \in Requests /\ request.op = "del" /\ request # Deleted /\ loc = "sweep"
        /\ UNCHANGED <<entries, request, loc, prev, i, answer>>
        /\ cut # NULL /\ current' = next
        /\ live' = live \ {cut} /\ node' = [node EXCEPT ![cut] = Undefined]
    BY RequestTypes DEF DelEntry, Doing, FreeIn
  <1>2. Heads(cut, b) /\ Sweeping
    BY <1>1 DEF Sweeping
  <1>3. cut \in live /\ cut \in Nodes /\ cut \in InBucket(b)
    BY <1>1, <1>2 DEF Heads, InBucket, TypeOK
  <1>4. next # cut
    BY <1>2, <1>3, NoLoop
  <1>5. TypeOK'
    <2>1. Undefined \in [key : Keys \cup {NULL}, val : Values \cup {NULL},
                         next : Nodes \cup {NULL}]
      BY DEF Undefined
    <2> QED
      BY <1>1, <1>3, <2>1 DEF TypeOK
  <1>6. CutOut(cut)
    <2>1. \A n \in Nodes \ {cut} : node[n].next # cut
      <3> TAKE n \in Nodes \ {cut}
      <3>1. CASE n \in live
        BY <1>1, <1>2, <3>1 DEF Heads
      <3>2. CASE n \notin live
        BY <1>1, <3>2 DEF Heap, Undefined
      <3> QED
        BY <3>1, <3>2
    <2>2. /\ \A n \in Nodes \ {cut} : node'[n] = node[n]
          /\ node'[cut] = Undefined
      BY <1>1, <1>3 DEF TypeOK
    <2> QED
      BY <1>1, <1>3, <2>1, <2>2 DEF CutOut
  <1>7. Heap'
    BY <1>4, <1>6, HeapCut
  <1>8. Heads(next, b)'
    BY <1>2, <1>3, <1>5, <1>6, <1>7, FirstCut
  <1>9. \A c \in Untouched' : Heads(entries[c], c)'
    <2> TAKE c \in Untouched'
    <2>1. c \in Untouched /\ c > b
      BY <1>1 DEF Untouched
    <2>2. PICK first : first = entries[c] /\ first = entries'[c]
      BY <1>1
    <2>3. Heads(first, c)
      BY <2>1, <2>2
    <2>4. c # b
      BY <2>1 DEF Untouched, TypeOK, Buckets
    <2>5. cut \notin InBucket(c)
      BY <1>3, <2>4 DEF InBucket
    <2>6. Heads(first, c)'
      BY <1>5, <1>6, <1>7, <2>3, <2>5, OthersCut
    <2> QED
      BY <2>2, <2>6 DEF Heads
  <1>10. Sweeping'
    <2>1. Heads(current, i)'
      BY <1>1, <1>8 DEF Heads
    <2>2. \A n \in live' : Id(node'[n].key) >= i'
      <3> TAKE n \in live'
      <3>1. n \in live /\ node'[n].key = node[n].key
        BY <1>6 DEF CutOut, TypeOK
      <3> QED
        BY <1>1, <1>2, <3>1 DEF Sweeping
    <2> QED
      BY <1>1, <2>1, <2>2 DEF Sweeping
  <1> QED
    BY <1>1, <1>5, <1>7, <1>9, <1>10

\* Once it hangs on nothing, the bucket is empty.
LEMMA BucketEmptied ==
    ASSUME IInv, Sweeping, current = NULL
    PROVE  \A n \in live : Id(node[n].key) > i
  <1>1. InBucket(i) = {}
    BY FromNULL DEF Sweeping, Heads
  <1>2. \A n \in live : Id(node[n].key) # i /\ Id(node[n].key) >= i /\ Id(node[n].key) \in Buckets
    BY <1>1, IdType DEF InBucket, Sweeping, IInv, Heap
  <1> QED
    BY <1>2 DEF Buckets, IInv, TypeOK

LEMMA InvDelBucket == IInv /\ DelBucket => IInv'
  <1> SUFFICES ASSUME IInv, DelBucket PROVE IInv'
    OBVIOUS
  <1> USE DEF IInv
  <1>1. /\ request \in Requests /\ request.op = "del" /\ request # Deleted /\ loc = "sweep"
        /\ UNCHANGED heapVars /\ UNCHANGED <<request, loc, prev, answer>>
        /\ current = NULL /\ i # Size - 1 /\ i' = i + 1 /\ current' = entries[i + 1]
    BY RequestTypes DEF DelBucket, Doing, LastBucket
  <1>2. /\ Sweeping /\ i \in Buckets /\ i + 1 \in Buckets
        /\ Untouched = {b \in Buckets : b > i} /\ Untouched' = {b \in Buckets : b > i + 1}
    BY <1>1 DEF Untouched, Buckets, TypeOK
  <1>3. TypeOK'
    BY <1>1, <1>2 DEF TypeOK, heapVars
  <1>4. Heap'
    BY <1>1, HeapStays
  <1>5. \A b \in Untouched : Heads(entries[b], b)'
    BY <1>1 DEF Heads, InBucket, heapVars
  <1>6. i + 1 \in Untouched /\ Untouched' \subseteq Untouched
    BY <1>2 DEF Buckets
  <1>7. Heads(current, i)'
    BY <1>1, <1>5, <1>6 DEF Heads, heapVars
  <1>8. \A n \in live' : Id(node'[n].key) >= i'
    <2> TAKE n \in live'
    <2>1. n \in live /\ node'[n].key = node[n].key
      BY <1>1 DEF heapVars
    <2>2. Id(node[n].key) > i /\ Id(node[n].key) \in Buckets
      BY <1>1, <1>2, <2>1, BucketEmptied, IdType DEF Heap
    <2> QED
      BY <1>1, <1>2, <2>1, <2>2 DEF Buckets
  <1> QED
    BY <1>1, <1>3, <1>4, <1>5, <1>6, <1>7, <1>8 DEF Sweeping, heapVars

LEMMA InvDelEnd == IInv /\ DelEnd => IInv'
  <1> SUFFICES ASSUME IInv, DelEnd PROVE IInv'
    OBVIOUS
  <1> USE DEF IInv
  <1>1. /\ request \in Requests /\ request # Deleted /\ loc = "sweep"
        /\ UNCHANGED heapVars /\ UNCHANGED <<loc, current, prev, i, answer>>
        /\ current = NULL /\ i = Size - 1 /\ request' = Deleted
    BY RequestTypes DEF DelEnd, Doing, LastBucket
  <1>2. Untouched' = {}
    BY <1>1 DEF Untouched
  <1>3. TypeOK'
    BY <1>1 DEF TypeOK, heapVars
  <1>4. Heap'
    BY <1>1, HeapStays
  <1>5. live = {}
    <2> SUFFICES ASSUME NEW n \in live PROVE FALSE
      OBVIOUS
    <2>1. Id(node[n].key) > i /\ Id(node[n].key) \in Buckets
      BY <1>1, BucketEmptied, IdType DEF Heap
    <2> QED
      BY <1>1, <2>1 DEF Buckets
  <1> QED
    BY <1>1, <1>2, <1>3, <1>4, <1>5 DEF heapVars

LEMMA InvStutter == IInv /\ UNCHANGED vars => IInv'
  <1> SUFFICES ASSUME IInv, UNCHANGED vars PROVE IInv'
    OBVIOUS
  <1> USE DEF IInv, vars, heapVars
  <1>1. TypeOK'
    BY DEF TypeOK
  <1>2. Heap'
    BY HeapStays
  <1>3. \A b \in Untouched' : Heads(entries[b], b)'
    BY DEF Untouched, Heads, InBucket
  <1>4. (loc = "walk" => Walking)'
    BY DEF Walking, InBucket, Of
  <1>5. (loc = "sweep" => Sweeping \/ request = Deleted)'
    BY DEF Sweeping, Heads, InBucket
  <1> QED
    BY <1>1, <1>2, <1>3, <1>4, <1>5

\* The invariant is inductive.
THEOREM Invariance == Spec => []IInv
  <1>1. IInv /\ [Next]_vars => IInv'
    <2> SUFFICES ASSUME IInv, [Next]_vars PROVE IInv'
      OBVIOUS
    <2>1. CASE Request
      BY <2>1, InvRequest
    <2>2. CASE Enter
      BY <2>2, InvEnter
    <2>3. CASE Walk
      BY <2>3, InvWalk
    <2>4. CASE Get
      BY <2>4, InvGet
    <2>5. CASE Replace
      BY <2>5, InvReplace
    <2>6. CASE Insert
      BY <2>6, InvInsert
    <2>7. CASE DropNothing
      BY <2>7, InvDropNothing
    <2>8. CASE DropEntry
      BY <2>8, InvDropEntry
    <2>9. CASE DelBegin
      BY <2>9, InvDelBegin
    <2>10. CASE DelEntry
      BY <2>10, InvDelEntry
    <2>11. CASE DelBucket
      BY <2>11, InvDelBucket
    <2>12. CASE DelEnd
      BY <2>12, InvDelEnd
    <2>13. CASE Finished \/ UNCHANGED vars
      BY <2>13, InvStutter DEF Finished
    <2> QED
      BY <2>1, <2>2, <2>3, <2>4, <2>5, <2>6, <2>7, <2>8, <2>9, <2>10, <2>11, <2>12, <2>13
         DEF Next, Operate
  <1> QED
    BY <1>1, InvInit, PTL DEF Spec

-----------------------------------------------------------------------------
(***************************************************************************)
(* What follows.                                                           *)
(***************************************************************************)

\* Between and during operations every entry is linked from the bucket of its key
\* and from no other, and nothing that was freed is: set_, get_ and drop_ lose no
\* entry and leave none behind that is freed.
THEOREM NothingLost == Spec => []Linked
  <1>1. IInv => Linked
    <2> SUFFICES ASSUME IInv PROVE Linked
      OBVIOUS
    <2> USE DEF IInv
    <2>1. \A b \in Untouched : Chain(b) = InBucket(b)
      <3> TAKE b \in Untouched
      <3>1. PICK first : first = entries[b]
        OBVIOUS
      <3>2. Heads(first, b) /\ Chain(b) = From(node, first)
        BY <3>1 DEF Chain
      <3>3. From(node, first) \subseteq InBucket(b)
        BY <3>2, BucketClosed, FromWithin DEF Heads
      <3> QED
        BY <3>2, <3>3 DEF Heads
    <2>2. CASE request # Deleted /\ loc # "sweep"
      <3>1. Untouched = Buckets
        BY <2>2 DEF Untouched
      <3>2. \A n \in live : n \in InBucket(Id(node[n].key)) /\ Id(node[n].key) \in Buckets
        BY IdType DEF InBucket, Heap
      <3>3. live = UNION {Chain(b) : b \in Buckets}
        <4>1. \A n \in live : \E b \in Buckets : n \in Chain(b)
          BY <2>1, <3>1, <3>2
        <4>2. \A b \in Buckets : Chain(b) \subseteq live
          BY <2>1, <3>1 DEF InBucket
        <4> QED
          BY <4>1, <4>2
      <3>4. \A b \in Buckets : \A n \in Chain(b) : Id(node[n].key) = b
        BY <2>1, <3>1 DEF InBucket
      <3>5. \A m, n \in live : node[m].key = node[n].key => m = n
        BY DEF Heap
      <3> QED
        BY <3>3, <3>4, <3>5 DEF Linked
    <2> QED
      BY <2>2 DEF Linked
  <1> QED
    BY <1>1, Invariance, PTL

\* del_ never follows an entry it has freed, and when it returns every entry of
\* every bucket has been freed.
THEOREM AllFreed == Spec => []Swept
  <1>1. IInv => Swept
    <2> SUFFICES ASSUME IInv PROVE Swept
      OBVIOUS
    <2>1. loc = "sweep" /\ current # NULL => current \in live
      BY DEF IInv, Sweeping, Heads, InBucket
    <2>2. request = Deleted => live = {}
      BY DEF IInv
    <2> QED
      BY <2>1, <2>2 DEF Swept
  <1> QED
    BY <1>1, Invariance, PTL

-----------------------------------------------------------------------------
(***************************************************************************)
(* The map.  Looking a key up, changing an entry, linking and unlinking    *)
(* one are the operations of NameMap; all other steps leave the map alone. *)
(***************************************************************************)

\* The value of a key is that of its only entry.
LEMMA MapAt ==
    ASSUME NEW k \in Keys, ~Ending, NEW n, Of(k) = {n}
    PROVE  Map[k] = node[n].val
  BY DEF Map

LEMMA MapAtNone ==
    ASSUME NEW k \in Keys, Of(k) = {}
    PROVE  Map[k] = NotFound
  BY DEF Map

\* A walk ends at the entry of the key or, if the key has none, at NULL.
LEMMA WalkFinds ==
    ASSUME IInv, Walking, Arrived
    PROVE  Of(request.key) = IF current = NULL THEN {} ELSE {current}
  <1>1. CASE current = NULL
    BY <1>1, FromNULL DEF Walking
  <1>2. CASE current # NULL
    <2>1. current \in live /\ node[current].key = request.key
      BY <1>2 DEF Walking, Arrived, InBucket
    <2>2. \A n \in Of(request.key) : n = current
      BY <2>1 DEF IInv, Heap, Of
    <2> QED
      BY <1>2, <2>1, <2>2 DEF Of
  <1> QED
    BY <1>1, <1>2

\* While nobody ends the map, it changes only where its entries do.
LEMMA MapKeeps ==
    ASSUME ~Ending, ~Ending', NEW k \in Keys, Of(k)' = Of(k),
           \A n \in Of(k) : node'[n].val = node[n].val
    PROVE  Map'[k] = Map[k]
  <1>1. CASE Of(k) = {}
    BY <1>1 DEF Map
  <1>2. CASE Of(k) # {}
    <2>1. PICK n : n = CHOOSE m \in Of(k) : TRUE
      OBVIOUS
    <2>2. n \in Of(k) /\ Map[k] = node[n].val
      BY <1>2, <2>1 DEF Map
    <2>3. Map'[k] = node'[n].val
      BY <1>2, <2>1 DEF Map
    <2> QED
      BY <2>2, <2>3
  <1> QED
    BY <1>1, <1>2

\* A step that neither changes the heap nor ends the map leaves the map alone.
LEMMA MapStays ==
    ASSUME UNCHANGED heapVars, Ending' <=> Ending
    PROVE  Map' = Map
  BY DEF Map, Of, heapVars

LEMMA MapFunction == Map = [k \in Keys |-> Map[k]] /\ Map' = [k \in Keys |-> Map'[k]]
  BY DEF Map

LEMMA MapInit == Init => Abstract!Init
  BY DEF Init, Abstract!Init, Abstract!NoMap, Map, Of

LEMMA MapRequest == IInv /\ Request => Abstract!Request
  <1> SUFFICES ASSUME IInv, Request PROVE Abstract!Request
    OBVIOUS
  <1>1. request = Idle /\ request' \in Requests /\ UNCHANGED heapVars /\ UNCHANGED answer
    BY DEF Request
  <1>2. ~Ending /\ request' # Deleted
    BY <1>1, RequestTypes DEF Ending
  <1>3. Map' = IF request'.op = "del" THEN Abstract!NoMap ELSE Map
    <2>1. CASE request'.op = "del"
      BY <1>1, <2>1 DEF Map, Ending, Abstract!NoMap
    <2>2. CASE request'.op # "del"
      BY <1>1, <1>2, <2>2, MapStays DEF Ending
    <2> QED
      BY <2>1, <2>2
  <1> QED
    BY <1>1, <1>3 DEF Abstract!Request, Abstract!Requests, Requests

\* What the operations have in common when they return.
LEMMA Returning ==
    ASSUME IInv, NEW op \in {"get", "set", "drop"}, Doing({op}, "walk"), Return
    PROVE  /\ Abstract!Do(op) /\ request' = Idle /\ ~Ending /\ ~Ending'
           /\ Walking /\ request.key \in Keys
  <1>1. request \in Requests /\ request.op = op /\ loc = "walk" /\ request' = Idle
    BY DEF Doing, Return
  <1>2. ~Ending /\ ~Ending'
    BY <1>1, RequestTypes DEF Ending
  <1> QED
    BY <1>1, <1>2, RequestTypes DEF IInv, Abstract!Do, Abstract!Requests, Requests

LEMMA MapGet == IInv /\ Get => Abstract!Get
  <1> SUFFICES ASSUME IInv, Get PROVE Abstract!Get
    OBVIOUS
  <1>1. /\ Abstract!Do("get") /\ request' = Idle /\ ~Ending /\ ~Ending'
        /\ Walking /\ Arrived /\ request.key \in Keys /\ UNCHANGED heapVars
        /\ answer' = IF current # NULL THEN node[current].val ELSE NotFound
    BY Returning DEF Get, NOT_FOUND
  <1>2. Map' = Map
    BY <1>1, MapStays
  <1>3. answer' = Map[request.key]
    <2>1. CASE current = NULL
      BY <1>1, <2>1, WalkFinds, MapAtNone
    <2>2. CASE current # NULL
      BY <1>1, <2>2, WalkFinds, MapAt
    <2> QED
      BY <2>1, <2>2
  <1> QED
    BY <1>1, <1>2, <1>3 DEF Abstract!Get

LEMMA MapReplace == IInv /\ Replace => Abstract!Set
  <1> SUFFICES ASSUME IInv, Replace PROVE Abstract!Set
    OBVIOUS
  <1> PICK cut, key : cut = current /\ key = request.key
    OBVIOUS
  <1>1. /\ Abstract!Do("set") /\ request' = Idle /\ ~Ending /\ ~Ending'
        /\ Walking /\ Arrived /\ key \in Keys
        /\ UNCHANGED <<live, answer>> /\ current # NULL
        /\ node' = [node EXCEPT ![cut].val = request.val]
    BY Returning DEF Replace
  <1>2. Of(key) = {cut}
    BY <1>1, WalkFinds
  <1>3. cut \in live /\ cut \in Nodes /\ live \subseteq Nodes
    BY <1>2 DEF Of, IInv, TypeOK
  <1>4. /\ \A n \in Nodes : node'[n].key = node[n].key
        /\ \A n \in Nodes \ {cut} : node'[n].val = node[n].val
        /\ node'[cut].val = request.val
    BY <1>1, <1>3 DEF IInv, TypeOK
  <1>5. \A k : Of(k)' = Of(k)
    BY <1>1, <1>3, <1>4 DEF Of
  <1>6. Map'[key] = request.val
    BY <1>1, <1>2, <1>4, <1>5 DEF Map
  <1>7. \A k \in Keys : k # key => Map'[k] = Map[k]
    <2> TAKE k \in Keys
    <2> HAVE k # key
    <2>1. \A n \in Of(k) : node'[n].val = node[n].val
      BY <1>2, <1>3, <1>4 DEF Of
    <2> QED
      BY <1>1, <1>5, <2>1, MapKeeps
  <1>8. Map' = [Map EXCEPT ![key] = request.val]
    BY <1>1, <1>6, <1>7, MapFunction
  <1> QED
    BY <1>1, <1>8 DEF Abstract!Set

LEMMA MapInsert == IInv /\ Insert => Abstract!Set
  <1> SUFFICES ASSUME IInv, Insert PROVE Abstract!Set
    OBVIOUS
  <1> PICK b, new, key : /\ b = Id(request.key) /\ key = request.key
                         /\ new = CHOOSE n \in Nodes : n \notin live
    OBVIOUS
  <1>1. /\ Abstract!Do("set") /\ request' = Idle /\ ~Ending /\ ~Ending'
        /\ Walking /\ Arrived /\ key \in Keys /\ UNCHANGED answer /\ current = NULL
        /\ request \in Requests /\ request.op = "set"
        /\ live' = live \cup {new}
        /\ node' = [node EXCEPT ![new] = [key |-> request.key, val |-> request.val,
                                          next |-> entries[b]]]
    BY Returning DEF Insert, NextOfNew, Doing
  <1>2. Of(key) = {}
    BY <1>1, WalkFinds
  <1>3. new \in Nodes /\ new \notin live
    BY <1>1 DEF IInv, TypeOK
  <1>4. /\ node'[new].key = key /\ node'[new].val = request.val
        /\ \A n \in live : node'[n] = node[n]
    BY <1>1, <1>3 DEF IInv, TypeOK
  <1>5. Of(key)' = {new}
    <2>1. live' = live \cup {new}
      BY <1>1
    <2>2. \A n \in live : node'[n].key # key
      BY <1>2, <1>4 DEF Of
    <2> QED
      BY <1>4, <2>1, <2>2 DEF Of
  <1>6. Map'[key] = request.val
    BY <1>1, <1>4, <1>5 DEF Map
  <1>7. \A k \in Keys : k # key => Map'[k] = Map[k]
    <2> TAKE k \in Keys
    <2> HAVE k # key
    <2>1. Of(k)' = Of(k)
      BY <1>1, <1>4 DEF Of
    <2>2. \A n \in Of(k) : node'[n].val = node[n].val
      BY <1>4 DEF Of
    <2> QED
      BY <1>1, <2>1, <2>2, MapKeeps
  <1>8. Map' = [Map EXCEPT ![key] = request.val]
    BY <1>1, <1>6, <1>7, MapFunction
  <1> QED
    BY <1>1, <1>8 DEF Abstract!Set

LEMMA MapDropNothing == IInv /\ DropNothing => Abstract!Drop
  <1> SUFFICES ASSUME IInv, DropNothing PROVE Abstract!Drop
    OBVIOUS
  <1>1. /\ Abstract!Do("drop") /\ request' = Idle /\ ~Ending /\ ~Ending'
        /\ Walking /\ Arrived /\ request.key \in Keys
        /\ UNCHANGED answer /\ UNCHANGED heapVars /\ current = NULL
    BY Returning DEF DropNothing
  <1>2. Map' = Map
    BY <1>1, MapStays
  <1>3. Map[request.key] = NotFound
    BY <1>1, WalkFinds, MapAtNone
  <1> QED
    BY <1>1, <1>2, <1>3, MapFunction DEF Abstract!Drop

LEMMA MapDropEntry == IInv /\ DropEntry => Abstract!Drop
  <1> SUFFICES ASSUME IInv, DropEntry PROVE Abstract!Drop
    OBVIOUS
  <1> PICK cut, key : cut = current /\ key = request.key
    OBVIOUS
  <1>1. /\ Abstract!Do("drop") /\ request' = Idle /\ ~Ending /\ ~Ending'
        /\ Walking /\ Arrived /\ key \in Keys /\ UNCHANGED answer /\ current # NULL
        /\ live' = live \ {cut}
    BY Returning DEF DropEntry, FreeIn
  <1>2. Of(key) = {cut}
    BY <1>1, WalkFinds
  <1>3. cut \in live /\ cut \in Nodes /\ live \subseteq Nodes
    BY <1>2 DEF Of, IInv, TypeOK
  <1>4. \/ node' = [node EXCEPT ![cut] = Undefined]
        \/ node' = [[node EXCEPT ![prev].next = node[cut].next] EXCEPT ![cut] = Undefined]
    BY <1>1 DEF DropEntry, FreeIn
  <1>5. \A n \in Nodes \ {cut} : node'[n].key = node[n].key /\ node'[n].val = node[n].val
    BY <1>4 DEF IInv, TypeOK
  <1>6. Of(key)' = {}
    BY <1>1, <1>2, <1>3, <1>5 DEF Of
  <1>7. Map'[key] = NotFound
    BY <1>1, <1>6 DEF Map
  <1>8. \A k \in Keys : k # key => Map'[k] = Map[k]
    <2> TAKE k \in Keys
    <2> HAVE k # key
    <2>1. cut \notin Of(k)
      BY <1>2 DEF Of
    <2>2. Of(k)' = Of(k)
      BY <1>1, <1>3, <1>5, <2>1 DEF Of
    <2>3. \A n \in Of(k) : node'[n].val = node[n].val
      BY <1>3, <1>5, <2>1 DEF Of
    <2> QED
      BY <1>1, <2>2, <2>3, MapKeeps
  <1>9. Map' = [Map EXCEPT ![key] = NotFound]
    BY <1>1, <1>7, <1>8, MapFunction
  <1> QED
    BY <1>1, <1>9 DEF Abstract!Drop

LEMMA MapDelEnd == IInv /\ DelEnd => Abstract!Del
  BY DEF DelEnd, Doing, Map, Ending, Abstract!Del, Abstract!Do, Abstract!Requests, Requests

\* The turns of the loops are not seen.
LEMMA MapUnseen ==
    IInv /\ (Enter \/ Walk \/ DelBegin \/ DelEntry \/ DelBucket \/ UNCHANGED vars)
      => UNCHANGED Abstract!vars
  <1>1. ASSUME Enter \/ Walk \/ UNCHANGED vars PROVE UNCHANGED Abstract!vars
    <2>1. UNCHANGED heapVars /\ UNCHANGED <<request, answer>>
      BY <1>1 DEF Enter, Walk, vars
    <2> QED
      BY <2>1, MapStays DEF Abstract!vars, Ending
  <1>2. ASSUME DelBegin \/ DelEntry \/ DelBucket PROVE UNCHANGED Abstract!vars
    <2>1. Ending /\ UNCHANGED <<request, answer>>
      BY <1>2 DEF DelBegin, DelEntry, DelBucket, Doing, Ending
    <2>2. Map' = Map
      BY <2>1 DEF Map, Ending
    <2> QED
      BY <2>1, <2>2 DEF Abstract!vars
  <1> QED
    BY <1>1, <1>2

\* The part of MapSpec that is not about what must happen in the end.
MapSafety == Abstract!Init /\ [][Abstract!Next]_(Abstract!vars)

\* The linked entries are a map: get_ returns the value last set for the key, or
\* NOT_FOUND when there is none, set_ and drop_ change the value of their key and of
\* no other, whatever the buckets and the order of the entries in them.
THEOREM ImplementsMap == Spec => MapSafety
  <1>1. IInv /\ [Next]_vars => [Abstract!Next]_(Abstract!vars)
    <2> SUFFICES ASSUME IInv, [Next]_vars PROVE Abstract!Next \/ UNCHANGED Abstract!vars
      OBVIOUS
    <2>1. CASE Request
      BY <2>1, MapRequest DEF Abstract!Next
    <2>2. CASE Get
      BY <2>2, MapGet DEF Abstract!Next
    <2>3. CASE Replace \/ Insert
      BY <2>3, MapReplace, MapInsert DEF Abstract!Next
    <2>4. CASE DropNothing \/ DropEntry
      BY <2>4, MapDropNothing, MapDropEntry DEF Abstract!Next
    <2>5. CASE DelEnd
      BY <2>5, MapDelEnd DEF Abstract!Next
    <2>6. CASE Enter \/ Walk \/ DelBegin \/ DelEntry \/ DelBucket \/ Finished \/ UNCHANGED vars
      BY <2>6, MapUnseen DEF Finished
    <2> QED
      BY <2>1, <2>2, <2>3, <2>4, <2>5, <2>6 DEF Next, Operate
  <1> QED
    BY <1>1, MapInit, Invariance, PTL DEF Spec, MapSafety

=============================================================================
