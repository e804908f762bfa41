------------------------------ MODULE StringMap ------------------------------
(***************************************************************************)
(* What src/src/data/map.h promises its only client, the symbol table: a   *)
(* map.  A request is made, and performed in one step.                     *)
(***************************************************************************)
EXTENDS Functions

CONSTANTS Hash, Val, NoVal

VARIABLES map, request, result

mapVars == <<map, request, result>>

NoRequest   == [op |-> "none"]
Freed       == [op |-> "free"]
AskSet(h, v) == [op |-> "set", hash |-> h, val |-> v]
AskGet(h)   == [op |-> "get", hash |-> h]
AskDel(h)   == [op |-> "del", hash |-> h]
Requests    == {AskSet(h, v) : h \in Hash, v \in Val}
               \cup {AskGet(h) : h \in Hash} \cup {AskDel(h) : h \in Hash}

MapInit == map = [h \in {} |-> NoVal] /\ request = NoRequest /\ result = NoVal

Ask == /\ request = NoRequest
       /\ request' \in Requests
       /\ UNCHANGED <<map, result>>

Set == /\ request.op = "set"
       /\ map' = [h \in DOMAIN map \cup {request.hash} |->
                    IF h = request.hash THEN request.val ELSE map[h]]
       /\ request' = NoRequest /\ UNCHANGED result

Get == /\ request.op = "get"
       /\ result' = IF request.hash \in DOMAIN map THEN map[request.hash] ELSE NoVal
       /\ request' = NoRequest /\ UNCHANGED map

Del == /\ request.op = "del"
       /\ map' = Restrict(map, DOMAIN map \ {request.hash})
       /\ request' = NoRequest /\ UNCHANGED result

(* The last request there may be. *)
Free == /\ request = NoRequest
        /\ map' = [h \in {} |-> NoVal] /\ request' = Freed /\ UNCHANGED result

Perform == Set \/ Get \/ Del

MapSpec == MapInit /\ [][Ask \/ Perform \/ Free]_mapVars /\ WF_mapVars(Perform)
=============================================================================
