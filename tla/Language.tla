------------------------------ MODULE Language ------------------------------
(***************************************************************************)
(* What a line of ctau means, independently of how it is compiled: an      *)
(* evaluator of trees, and the trees the compiler and the machine handle.  *)
(* Nothing here models code; it is the reference the pipeline is compared  *)
(* with.                                                                   *)
(*                                                                         *)
(* A value is an integer, null, a truth value or a function, which is its  *)
(* node: the functions of a plain line capture nothing.  Undefined is what *)
(* a global holds before it is assigned.                                   *)
(***************************************************************************)
EXTENDS Tree, FiniteSets

Num(i)     == [type |-> "integer", i |-> i]
Bool(b)    == [type |-> "boolean", i |-> IF b THEN 1 ELSE 0]
Null       == [type |-> "null"]
Fun(n)     == [type |-> "function", node |-> n]
Undefined  == [type |-> "undefined"]

Truthy(v) ==
  CASE v.type \in {"integer", "boolean"} -> v.i # 0
    [] v.type = "null"                   -> FALSE
    [] OTHER                             -> TRUE

(***************************************************************************)
(* An outcome: how the evaluation went on ("value", "return", or "stuck"   *)
(* when no rule applies), the value, and the variables afterwards: g those *)
(* of the session, env those of the function (NoEnv at the top level).     *)
(***************************************************************************)
Outcome(how, v, g, env) == [how |-> how, v |-> v, g |-> g, env |-> env]
Stuck(g, env) == Outcome("stuck", Undefined, g, env)
NoEnv == [top |-> TRUE, vars |-> [n \in {} |-> Undefined]]
Env(vars) == [top |-> FALSE, vars |-> vars]

With(f, n, v) == [m \in DOMAIN f \cup {n} |-> IF m = n THEN v ELSE f[m]]

Applied(t, a, b) ==
  CASE t = "plus"      -> Num(a + b)
    [] t = "minus"     -> Num(a - b)
    [] t = "less"      -> Bool(a < b)
    [] t = "lesseq"    -> Bool(a <= b)
    [] t = "greater"   -> Bool(a > b)
    [] t = "greatereq" -> Bool(a >= b)

RECURSIVE Eval(_, _, _), EvalBlock(_, _, _, _), EvalArgs(_, _, _, _)

(* The statements of a block from the i-th on; v is the value so far. *)
EvalBlock(nodes, v, g, env) ==
  IF nodes = <<>> THEN Outcome("value", v, g, env)
  ELSE LET o == Eval(Head(nodes), g, env)
       IN IF o.how # "value" THEN o
          ELSE EvalBlock(Tail(nodes), o.v, o.g, o.env)

EvalArgs(nodes, vs, g, env) ==
  IF nodes = <<>> THEN Outcome("value", vs, g, env)
  ELSE LET o == Eval(Head(nodes), g, env)
       IN IF o.how # "value" THEN o
          ELSE EvalArgs(Tail(nodes), Append(vs, o.v), o.g, o.env)

EvalCall(n, g, env) ==
  LET fn   == Eval(n.fn, g, env)
      args == EvalArgs(n.args, <<>>, fn.g, fn.env)
  IN IF fn.how # "value" THEN fn
     ELSE IF args.how # "value" THEN args
     ELSE IF fn.v.type # "function" THEN Stuck(args.g, args.env)
     ELSE IF Len(fn.v.node.params) # Len(n.args) THEN Stuck(args.g, args.env)
     ELSE LET params == fn.v.node.params
              slot(p) == CHOOSE i \in DOMAIN params : params[i] = p
              inner  == Env([p \in {params[i] : i \in DOMAIN params} |-> args.v[slot(p)]])
              o      == EvalBlock(fn.v.node.body.nodes, Null, args.g, inner)
          IN IF o.how = "stuck" THEN o
             ELSE Outcome("value", o.v, o.g, args.env)

EvalOperation(n, g, env) ==
  LET swapped == n.t \in {"less", "lesseq"}   \* less.c: compiled in inverted order
      first   == Eval(IF swapped THEN n.r ELSE n.l, g, env)
      second  == Eval(IF swapped THEN n.l ELSE n.r, first.g, first.env)
      l       == IF swapped THEN second.v ELSE first.v
      r       == IF swapped THEN first.v ELSE second.v
  IN IF first.how # "value" THEN first
     ELSE IF second.how # "value" THEN second
     ELSE IF l.type # "integer" \/ r.type # "integer" THEN Stuck(second.g, second.env)
     ELSE Outcome("value", Applied(n.t, l.i, r.i), second.g, second.env)

Eval(n, g, env) ==
  CASE n.t = "integer"    -> Outcome("value", Num(n.i), g, env)
    [] n.t = "null"       -> Outcome("value", Null, g, env)
    [] n.t = "function"   -> Outcome("value", Fun(n), g, env)
    [] n.t = "identifier" ->
         Outcome("value",
                 CASE n.name \in DOMAIN env.vars -> env.vars[n.name]
                   [] n.name \in DOMAIN g        -> g[n.name]
                   [] OTHER                      -> Undefined, g, env)
    [] n.t = "assign"     ->
         LET o == Eval(n.r, g, env)
         IN IF o.how # "value" THEN o
            ELSE IF env.top THEN [o EXCEPT !.g = With(@, n.l.name, o.v)]
            ELSE [o EXCEPT !.env = Env(With(@.vars, n.l.name, o.v))]
    [] n.t = "block"      -> EvalBlock(n.nodes, Null, g, env)
    [] n.t = "return"     ->
         LET o == Eval(n.val, g, env)
         IN IF o.how = "value" THEN [o EXCEPT !.how = "return"] ELSE o
    [] n.t = "ifelse"     ->
         LET c == Eval(n.cond, g, env)
         IN IF c.how # "value" THEN c
            ELSE IF c.v = Undefined THEN Stuck(c.g, c.env)
            ELSE IF Truthy(c.v) THEN Eval(n.body, c.g, c.env)
            ELSE IF n.altern = NoNode THEN Outcome("value", Null, c.g, c.env)
            ELSE Eval(n.altern, c.g, c.env)
    [] n.t = "call"       -> EvalCall(n, g, env)
    [] OTHER              -> EvalOperation(n, g, env)

(* The outcome of a line on its own. *)
Meaning(n) == Eval(n, [x \in {} |-> Undefined], NoEnv)

-----------------------------------------------------------------------------
(***************************************************************************)
(* Plain trees: there is a statement, no function refers to a variable of a function around it   *)
(* or assigns to a name that is not a parameter, parameters are distinct,  *)
(* the branches of an if hold a statement, a return stands in a function,  *)
(* and nothing is NULL.                                                    *)
(* The other trees are the ones the code is known not to handle.           *)
(***************************************************************************)
Children(n) ==
  CASE n.t = "assign"   -> {n.r}
    [] n.t = "block"    -> {n.nodes[i] : i \in DOMAIN n.nodes}
    [] n.t = "return"   -> {n.val}
    [] n.t = "ifelse"   -> {n.cond, n.body, n.altern}
    [] n.t = "call"     -> {n.fn} \cup {n.args[i] : i \in DOMAIN n.args}
    [] n.t = "function" -> {n.body}
    [] n.t \in OperationTypes -> {n.l, n.r}
    [] OTHER            -> {}

Params(n) == {n.params[i] : i \in DOMAIN n.params}

RECURSIVE PlainIn(_, _, _)

(* own: the names of the innermost function; around: those further out;    *)
(* top: not in a function.                                                 *)
PlainIn(n, own, around) ==
  LET top == own = {"top level"}
  IN /\ n.t = "identifier" => n.name \notin around \ own
     /\ n.t = "assign" => n.l.t = "identifier" /\ (top \/ n.l.name \in own)
     /\ n.t = "return" => ~top
     /\ n.t = "function" => Cardinality(Params(n)) = Len(n.params)
     /\ n.t = "ifelse" =>
          /\ n.body.nodes # <<>>
          /\ n.altern.t = "block" => n.altern.nodes # <<>>
     /\ n.t \notin {"ifelse", "NULL"} => NoNode \notin Children(n)
     /\ n.t = "ifelse" => n.cond # NoNode
     /\ \A c \in Children(n) :
          IF n.t = "function"
          THEN PlainIn(c, Params(n), IF top THEN {} ELSE own \cup around)
          ELSE PlainIn(c, own, around)

PlainTree(n) == n.t = "block" /\ n.nodes # <<>> /\ PlainIn(n, {"top level"}, {})
=============================================================================
