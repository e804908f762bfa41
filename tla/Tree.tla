-------------------------------- MODULE Tree --------------------------------
(***************************************************************************)
(* The syntax trees of src/src/ast: nested records with the node's type in *)
(* t.  A name is a string; nothing looks inside it.  NoNode is the NULL    *)
(* that parse_expr returns where no expression begins, and which only an   *)
(* operand, a condition, an argument or a value can be: parse_block and    *)
(* parse do not add it to a block.                                         *)
(***************************************************************************)
EXTENDS Integers, Sequences

NoNode              == [t |-> "NULL"]
Integer(i)          == [t |-> "integer", i |-> i]
NullNode            == [t |-> "null"]
Identifier(n)       == [t |-> "identifier", name |-> n]
Operation(op, l, r) == [t |-> op, l |-> l, r |-> r]
Assign(l, r)        == [t |-> "assign", l |-> l, r |-> r]
Block(nodes)        == [t |-> "block", nodes |-> nodes]
CallNode(fn, args)  == [t |-> "call", fn |-> fn, args |-> args]
Return(val)         == [t |-> "return", val |-> val]
IfElse(cond, body, altern) ==
  [t |-> "ifelse", cond |-> cond, body |-> body, altern |-> altern]
FunctionNode(params, body) ==
  [t |-> "function", params |-> params, body |-> body]

(* The node types of Operation. *)
OperationTypes == {"plus", "minus", "less", "lesseq", "greater", "greatereq"}

(***************************************************************************)
(* The nodes the parser builds from parts of N: a block is the line, the   *)
(* body of a function or a branch of an if, and nothing else.  A set with  *)
(* N \subseteq NodesOver(N) holds every part of its nodes.                 *)
(***************************************************************************)
NodesOver(N) ==
  LET Expr   == {n \in N : n.t # "block"}
      Branch == {n \in N : n.t = "block"}
  IN {NoNode, NullNode}
     \cup [t : {"integer"}, i : Int]
     \cup [t : {"identifier"}, name : STRING]
     \cup [t : OperationTypes \cup {"assign"}, l : Expr, r : Expr]
     \cup [t : {"block"}, nodes : Seq(Expr)]
     \cup [t : {"call"}, fn : Expr, args : Seq(Expr)]
     \cup [t : {"return"}, val : Expr]
     \cup [t : {"ifelse"}, cond : Expr, body : Branch, altern : N]
     \cup [t : {"function"}, params : Seq(STRING), body : Branch]
=============================================================================
