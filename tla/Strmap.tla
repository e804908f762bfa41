------------------------------- MODULE Strmap -------------------------------
(***************************************************************************)
(* The map of src/src/data/strmap.c: a binary search tree over the hashes  *)
(* of the keys, not balanced.                                              *)
(*                                                                         *)
(* Each function of strmap.c is recursive on a pointer to a link, or on a  *)
(* node; one action is one level of the recursion, and at is that pointer. *)
(* A key is its hash: the text is never compared, so two keys of one hash  *)
(* are one entry.  Addresses of freed nodes are used again.                *)
(***************************************************************************)
EXTENDS Integers, Sequences, FiniteSets, Functions

CONSTANTS
  Hash,       \* values of fnv64a, compared with <
  Val,        \* pointers the client stores
  NoVal,      \* NULL, as a value
  MaxNodes    \* bound: the nodes malloc can provide

ASSUME StrmapAssumption ==
  Hash \subseteq Nat /\ NoVal \notin Val /\ MaxNodes \in Nat

VARIABLES
  nodes,   \* the allocated nodes, by address
  root,    \* *m
  call,    \* the operation in progress
  at,      \* the link the recursion has reached
  todo,    \* strmap_free: the nodes on the C call stack
  result,  \* what strmap_get returned last
  misuse   \* a key and value were freed twice, or lost with their node

strmapVars == <<nodes, root, call, at, todo, result, misuse>>

NULL == 0
Addr == 1..MaxNodes    \* what calloc returns
Root == [of |-> NULL, side |-> "root"]
Side(n, s) == [of |-> n, side |-> s]

Idle       == [op |-> "none"]
Requests   == [op : {"set"}, hash : Hash, val : Val]
              \cup [op : {"get", "del", "del_all"}, hash : Hash]
Frees      == [op : {"free", "free_fn"}]

(* *m: the content of a link *)
Deref(link) == IF link.side = "root" THEN root ELSE nodes[link.of][link.side]

(* The state after *link = n. *)
Store(link, n) ==
  IF link.side = "root"
  THEN root' = n /\ UNCHANGED nodes
  ELSE nodes' = [nodes EXCEPT ![link.of][link.side] = n] /\ UNCHANGED root

StrmapInit ==
  /\ nodes = [n \in {} |-> NULL] /\ root = NULL
  /\ call = Idle /\ at = Root /\ todo = <<>> /\ result = NoVal /\ misuse = FALSE

(* strmap_set, strmap_get, strmap_del and strmap_del_all: hash the key and *)
(* begin at the root.                                                      *)
Begin ==
  /\ call = Idle
  /\ call' \in Requests
  /\ at' = Root
  /\ UNCHANGED <<nodes, root, todo, result, misuse>>

(* calloc may return any free address; the lowest stands for all. *)
new_strnode(hash, val) ==
  [hash |-> hash, val |-> val, l |-> NULL, r |-> NULL, held |-> TRUE]

FreeAddr == Addr \ DOMAIN nodes

Lower(hash) == IF hash < nodes[Deref(at)].hash THEN "l" ELSE "r"

Descend(hash) ==
  /\ at' = Side(Deref(at), Lower(hash))
  /\ UNCHANGED <<nodes, root, call, todo, result, misuse>>

Found    == Deref(at) # NULL /\ nodes[Deref(at)].hash = call.hash
NotThere == Deref(at) # NULL /\ nodes[Deref(at)].hash # call.hash

-----------------------------------------------------------------------------
(* _strmap_set *)
SetNew ==
  /\ call.op = "set" /\ Deref(at) = NULL /\ FreeAddr # {}
  /\ LET n   == CHOOSE n \in FreeAddr : \A m \in FreeAddr : n <= m
         new == [m \in DOMAIN nodes \cup {n} |->
                   IF m = n THEN new_strnode(call.hash, call.val) ELSE nodes[m]]
     IN IF at.side = "root"
        THEN root' = n /\ nodes' = new
        ELSE nodes' = [new EXCEPT ![at.of][at.side] = n] /\ UNCHANGED root
  /\ call' = Idle /\ at' = Root
  /\ UNCHANGED <<todo, result, misuse>>

(* The old value and the new key are not given back; symbol_table_define   *)
(* sets only names that strmap_get did not find.                           *)
SetReplace ==
  /\ call.op = "set" /\ Found
  /\ nodes' = [nodes EXCEPT ![Deref(at)].val = call.val]
  /\ call' = Idle /\ at' = Root
  /\ UNCHANGED <<root, todo, result, misuse>>

SetBelow == call.op = "set" /\ NotThere /\ Descend(call.hash)

(* _strmap_get *)
GetEnds ==
  /\ call.op = "get" /\ (Found \/ Deref(at) = NULL)
  /\ result' = IF Found THEN nodes[Deref(at)].val ELSE NoVal
  /\ call' = Idle /\ at' = Root
  /\ UNCHANGED <<nodes, root, todo, misuse>>

(* Mutant of GetBelow: the order is taken the other way round. *)
GetBelow_other_side ==
  /\ call.op = "get" /\ NotThere
  /\ at' = Side(Deref(at), IF nodes[Deref(at)].hash < call.hash THEN "l" ELSE "r")
  /\ UNCHANGED <<nodes, root, call, todo, result, misuse>>

GetBelow == call.op = "get" /\ NotThere /\ Descend(call.hash)

-----------------------------------------------------------------------------
(***************************************************************************)
(* _strmap_del and _strmap_del_all: unlink the node, hang its subtrees     *)
(* back in from the root, left first, and free it.  The call becomes an    *)
(* "add": victim is the node n of the C function and sides its subtrees    *)
(* still to hang.                                                          *)
(***************************************************************************)
Deleting == call.op \in {"del", "del_all"}

Subtrees(n) == (IF nodes[n].l # NULL THEN <<"l">> ELSE <<>>)
               \o (IF nodes[n].r # NULL THEN <<"r">> ELSE <<>>)

DelNone ==
  /\ Deleting /\ Deref(at) = NULL
  /\ call' = Idle /\ at' = Root
  /\ UNCHANGED <<nodes, root, todo, result, misuse>>

DelBelow == Deleting /\ NotThere /\ Descend(call.hash)

Unlinked(n) == [op |-> IF call.op = "del_all" THEN "release" ELSE "add",
                victim |-> n, sides |-> Subtrees(n)]

(* Free of the key and value of node n. *)
Release(n) == /\ nodes' = [nodes EXCEPT ![n].held = FALSE]
              /\ misuse' = (misuse \/ ~nodes[n].held)

(* Mutant of DelUnlink: the link to the node is kept. *)
DelUnlink_keeps_link ==
  /\ Deleting /\ Found
  /\ call' = Unlinked(Deref(at)) /\ at' = Root
  /\ UNCHANGED <<nodes, root, todo, result, misuse>>

DelUnlink ==
  /\ Deleting /\ Found
  /\ Store(at, NULL)
  /\ call' = Unlinked(Deref(at)) /\ at' = Root
  /\ UNCHANGED <<todo, result, misuse>>

(* _strmap_del_all only *)
DelRelease ==
  /\ call.op = "release"
  /\ Release(call.victim)
  /\ call' = [call EXCEPT !.op = "add"]
  /\ UNCHANGED <<root, at, todo, result>>

(* _strmap_add_strnode *)
Hanging == nodes[call.victim][Head(call.sides)]

AddBelow ==
  /\ call.op = "add" /\ call.sides # <<>> /\ Deref(at) # NULL
  /\ Descend(nodes[Hanging].hash)

AddHere ==
  /\ call.op = "add" /\ call.sides # <<>> /\ Deref(at) = NULL
  /\ Store(at, Hanging)
  /\ call' = [call EXCEPT !.sides = Tail(@)] /\ at' = Root
  /\ UNCHANGED <<todo, result, misuse>>

DelEnds ==
  /\ call.op = "add" /\ call.sides = <<>>
  /\ nodes' = Restrict(nodes, DOMAIN nodes \ {call.victim})
  /\ call' = Idle /\ at' = Root
  /\ UNCHANGED <<root, todo, result, misuse>>

-----------------------------------------------------------------------------
(***************************************************************************)
(* strmap_free and strmap_free_fn (of which strmap_free_all is a case):    *)
(* todo is the C call stack, the functions called and what each does next. *)
(* The client's pointer is left dangling, so nothing is asked afterwards.  *)
(***************************************************************************)
Freeing == call.op \in {"free", "free_fn"}

(* Mutant of Visit: NULL is visited as well. *)
Visit_null(n) == <<[node |-> n, next |-> "l"]>>

Visit(n) == IF n = NULL THEN <<>> ELSE <<[node |-> n, next |-> "l"]>>

BeginFree ==
  /\ call = Idle
  /\ call' \in Frees
  /\ todo' = Visit(root)
  /\ UNCHANGED <<nodes, root, at, result, misuse>>

Caller == [todo EXCEPT ![1].next = IF @ = "l" THEN "r" ELSE "free"]

(* Mutant of FreeLeft: freefn is called only on the way down. *)
FreeLeft_inner ==
  /\ Freeing /\ todo # <<>> /\ Head(todo).next = "l"
  /\ todo' = Visit(nodes[Head(todo).node].l) \o Caller
  /\ IF call.op = "free_fn" /\ nodes[Head(todo).node].l # NULL
     THEN Release(Head(todo).node) ELSE UNCHANGED <<nodes, misuse>>
  /\ UNCHANGED <<root, call, at, result>>

(* freefn(m->key, m->val), once, and into the left subtree *)
FreeLeft ==
  /\ Freeing /\ todo # <<>> /\ Head(todo).next = "l"
  /\ todo' = Visit(nodes[Head(todo).node].l) \o Caller
  /\ IF call.op = "free_fn" THEN Release(Head(todo).node) ELSE UNCHANGED <<nodes, misuse>>
  /\ UNCHANGED <<root, call, at, result>>

FreeRight ==
  /\ Freeing /\ todo # <<>> /\ Head(todo).next = "r"
  /\ todo' = Visit(nodes[Head(todo).node].r) \o Caller
  /\ UNCHANGED <<nodes, root, call, at, result, misuse>>

(* free(m) *)
FreeNode ==
  /\ Freeing /\ todo # <<>> /\ Head(todo).next = "free"
  /\ nodes' = Restrict(nodes, DOMAIN nodes \ {Head(todo).node})
  /\ misuse' = (misuse \/ (call.op = "free_fn" /\ nodes[Head(todo).node].held))
  /\ todo' = Tail(todo)
  /\ UNCHANGED <<root, call, at, result>>

-----------------------------------------------------------------------------
Perform == \/ SetNew \/ SetReplace \/ SetBelow
           \/ GetEnds \/ GetBelow
           \/ DelNone \/ DelBelow \/ DelUnlink \/ DelRelease
           \/ AddBelow \/ AddHere \/ DelEnds
           \/ FreeLeft \/ FreeRight \/ FreeNode

StrmapNext == Begin \/ BeginFree \/ Perform

(* A call once made goes on; nobody has to make one. *)
StrmapSpec == StrmapInit /\ [][StrmapNext]_strmapVars /\ WF_strmapVars(Perform)

-----------------------------------------------------------------------------
Link == [of : {NULL}, side : {"root"}] \cup [of : Addr, side : {"l", "r"}]
Node == [hash : Hash, val : Val, l : Addr \cup {NULL}, r : Addr \cup {NULL},
         held : BOOLEAN]

(* Nodes, links and the stack of strmap_free have their types.             *)
StrmapTypeOK ==
  /\ DOMAIN nodes \subseteq Addr /\ \A n \in DOMAIN nodes : nodes[n] \in Node
  /\ root \in Addr \cup {NULL} /\ at \in Link
  /\ call \in Requests \cup Frees \cup {Idle}
             \cup [op : {"release", "add"}, victim : Addr, sides : Seq({"l", "r"})]
  /\ \A i \in 1..Len(todo) : todo[i] \in [node : Addr, next : {"l", "r", "free"}]
  /\ result \in Val \cup {NoVal} /\ misuse \in BOOLEAN

Links == {Root} \cup {Side(n, s) : n \in DOMAIN nodes, s \in {"l", "r"}}

(* Every allocated node hangs from the root by exactly one chain of links  *)
(* whenever no operation is in progress, and no link is left to a node     *)
(* that was freed: hanging the two subtrees of a deleted node back in      *)
(* loses none, shares none and closes no cycle.  After strmap_free nothing *)
(* is left.                                                                *)
OneTree ==
  /\ call = Idle =>
       /\ \A k \in Links : Deref(k) \in DOMAIN nodes \cup {NULL}
       /\ \A n \in DOMAIN nodes : Cardinality({k \in Links : Deref(k) = n}) = 1
       /\ \A S \in SUBSET DOMAIN nodes :
            root \in S \cup {NULL} /\ (\A n \in S : {nodes[n].l, nodes[n].r} \subseteq S \cup {NULL})
              => S = DOMAIN nodes
  /\ Freeing /\ todo = <<>> => nodes = [n \in {} |-> NULL]

(* A key and its value are given back once: by strmap_del_all with their   *)
(* node, or by strmap_free_fn before the node goes.  It counts what nodes  *)
(* hold, not what SetReplace drops.                                        *)
ReleasedOnce == ~misuse

(***************************************************************************)
(* The map the tree stands for.  A set takes effect when the recursion     *)
(* ends, a deletion when the node is freed, and every call comes to an     *)
(* end: a stale or cyclic link, a wrong turn or a lost subtree would show  *)
(* in an answer of strmap_get or in a call that goes on for ever.          *)
(***************************************************************************)
Contents == IF Freeing THEN [h \in {} |-> NoVal]
            ELSE [h \in {nodes[n].hash : n \in DOMAIN nodes} |->
                    nodes[CHOOSE n \in DOMAIN nodes : nodes[n].hash = h].val]

Requested ==
  CASE call.op \in {"release", "add"} -> [op |-> "del", hash |-> nodes[call.victim].hash]
    [] Deleting                       -> [op |-> "del", hash |-> call.hash]
    [] Freeing                        -> [op |-> "free"]
    [] OTHER                          -> call

Map == INSTANCE StringMap WITH map <- Contents, request <- Requested

ImplementsMap == Map!MapSpec
=============================================================================
