------------------------------- MODULE NameMap -------------------------------
(***************************************************************************)
(* What a hash map promises its caller: the value last set for a key, as   *)
(* long as the key has not been dropped.  An operation is requested and    *)
(* then done in one step; del_ ends the map.                               *)
(***************************************************************************)
CONSTANTS Keys, Values, NotFound, Idle, Deleted

Requests == [op : {"get", "drop", "del"}, key : Keys] \cup [op : {"set"}, key : Keys, val : Values]

VARIABLES
    map,      \* the value of every key, NotFound for none
    request,  \* the operation under way, Idle between operations
    answer    \* what the last get returned

NoMap == [k \in Keys |-> NotFound]

Init ==
    /\ map = NoMap
    /\ request = Idle
    /\ answer = NotFound

\* Nothing can be asked any more once the end of the map is requested.
Request ==
    /\ request = Idle /\ request' \in Requests
    /\ map' = IF request'.op = "del" THEN NoMap ELSE map
    /\ UNCHANGED answer

Do(op) == request \in Requests /\ request.op = op
Get == /\ Do("get")
       /\ answer' = map[request.key]
       /\ request' = Idle
       /\ UNCHANGED map
Set == /\ Do("set")
       /\ map' = [map EXCEPT ![request.key] = request.val]
       /\ request' = Idle
       /\ UNCHANGED answer
Drop == /\ Do("drop")
        /\ map' = [map EXCEPT ![request.key] = NotFound]
        /\ request' = Idle
        /\ UNCHANGED answer
Del == /\ Do("del")
       /\ request' = Deleted
       /\ UNCHANGED <<map, answer>>

Next == Request \/ Get \/ Set \/ Drop \/ Del
vars == <<map, request, answer>>

\* A requested operation is done.
Spec == Init /\ [][Next]_vars /\ WF_vars(Get \/ Set \/ Drop \/ Del)

=============================================================================
