------------------------------ MODULE MCCompiler ------------------------------
(***************************************************************************)
(* The compiler on its own, over every line of Lines, awkward ones too.    *)
(***************************************************************************)
EXTENDS Compiler, Lines

AllTrees == Whole \cup Awkward
AllNodes == NodesOf(AllTrees)

(* A node is missing where the compiler needs one. *)
Hollow(n) ==
  \E m \in NodesOf({n}) :
    NoNode \in IF m.t = "ifelse" THEN {m.cond, m.body} ELSE Parts(m)

Params(n) == {n.params[i] : i \in DOMAIN n.params}

(* The names a function body assigns to, outside of the functions in it. *)
RECURSIVE Assigned(_)
Assigned(n) ==
  IF n.t = "function" THEN {}
  ELSE {m.name : m \in {k \in IF n.t = "assign" THEN {n.l} ELSE {} : k.t = "identifier"}}
       \cup UNION {Assigned(m) : m \in Parts(n)}

(* Somewhere in n a function uses a variable of a function around it.      *)
(* params and own are the parameters and all the variables of the function *)
(* that n is in, around the variables of those further out.                *)
RECURSIVE Captures(_, _, _, _)
Captures(n, params, own, around) ==
  \/ n.t = "identifier" /\ n.name \in around \ params
  \/ \E m \in Parts(n) :
       IF n.t = "function"
       THEN Captures(m, Params(n), Params(n) \cup Assigned(m), around \cup own)
       ELSE Captures(m, params, own, around)

(* Of the lines without a missing node only those with a function that     *)
(* uses a variable of a function around it can kill the compiler: names    *)
(* and symbols that were freed are touched for no other line, however its  *)
(* functions nest and whatever globals they share.                         *)
OnlyCapturesCrash == cstat = "crashed" => Hollow(tree) \/ Captures(tree, {}, {}, {})
=============================================================================
