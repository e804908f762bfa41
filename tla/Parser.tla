-------------------------------- MODULE Parser --------------------------------
(***************************************************************************)
(* The parser of src/src/parser: precedence climbing over the items of the *)
(* lexer, each with its type and its text.                                 *)
(*                                                                         *)
(* The C call stack is the sequence calls: its head is what happens next,  *)
(* a function to enter or the rest of one that waits for the node ret.     *)
(* One action runs a function up to its next call of another one.          *)
(***************************************************************************)
EXTENDS Item, Tree, FiniteSets

CONSTANTS
  Inputs,    \* sequences of items [type, lit], as lexer_run leaves them
  strtol     \* the number a literal of digits stands for

ASSUME ParserAssumption ==
  \A s \in Inputs :
    /\ s \in Seq([type : item_type, lit : STRING]) /\ s # <<>> /\ s[Len(s)].type = "eof"
    /\ \A k \in DOMAIN s : s[k].type = "int" => strtol[s[k].lit] \in Int

VARIABLES
  items,   \* p->items
  p,       \* cur, peek and index of struct parser
  calls,   \* the calls still to make
  ret,     \* what the call that ended last returned
  pstat    \* "parsing", "parsed" or "exited"

parserVars == <<items, p, calls, ret, pstat>>

lowest == 0
Precedence == [
  assign |-> 1, plus_assign |-> 1, minus_assign |-> 1, slash_assign |-> 1,
  asterisk_assign |-> 1, modulus_assign |-> 1, bw_and_assign |-> 1, bw_or_assign |-> 1,
  bw_xor_assign |-> 1, lshift_assign |-> 1, rshift_assign |-> 1,
  or |-> 2, and |-> 3, bw_or |-> 4, bw_xor |-> 4, bw_and |-> 5,
  equals |-> 6, not_equals |-> 6, lt |-> 7, gt |-> 7, lteq |-> 7, gteq |-> 7,
  lshift |-> 8, rshift |-> 8, plus |-> 9, minus |-> 9,
  modulus |-> 10, slash |-> 10, asterisk |-> 10, plusplus |-> 11, minusminus |-> 11,
  lparen |-> 12, lbracket |-> 13, dot |-> 14 ]
get_precedence(type) == IF type \in DOMAIN Precedence THEN Precedence[type] ELSE lowest

(* infix_parser: the operators that build a node of two operands, and the  *)
(* other two that have a function.                                         *)
BinaryNode == [lt |-> "less", gt |-> "greater", lteq |-> "lesseq", gteq |-> "greatereq",
               plus |-> "plus", minus |-> "minus"]
Infix == DOMAIN BinaryNode \cup {"assign", "lparen"}

(* Mutant of next: at the end peek is forgotten instead of kept. *)
next_wraps(q) ==
  [cur |-> q.peek, index |-> q.index + 1,
   peek |-> items[IF q.index + 2 <= Len(items) THEN q.index + 2 ELSE 1]]

(* index counts from 0; at the end peek stays, and cur becomes peek. *)
next(q) ==
  IF q.index + 1 < Len(items)
  THEN [cur |-> q.peek, index |-> q.index + 1, peek |-> items[q.index + 2]]
  ELSE [q EXCEPT !.cur = q.peek]

Cur(type)  == p.cur.type = type
Peek(type) == p.peek.type = type

(* if (item_is(p->peek, item_semicolon)) next(p) *)
SkipSemicolon == IF Peek("semicolon") THEN next(p) ELSE p

-----------------------------------------------------------------------------
(***************************************************************************)
(* What waits on the call stack.                                           *)
(***************************************************************************)
Call(name)             == [do |-> name]
Expr(prec)             == [do |-> "parse_expr", prec |-> prec]
Loop(prec)             == [do |-> "infix", prec |-> prec]
Right(op, left)        == [do |-> "right", op |-> op, left |-> left]
Args(fn, args)         == [do |-> "args", fn |-> fn, args |-> args]
Body(cond)             == [do |-> "body", cond |-> cond]
Altern(cond, body)     == [do |-> "altern", cond |-> cond, body |-> body]
FunctionBody(params)   == [do |-> "function", params |-> params]
Statements(nodes, end) == [do |-> "statements", nodes |-> nodes, end |-> end]

At(name) == pstat = "parsing" /\ Head(calls).do = name

(* Move to q, call tasks before what is left, with the node n at hand. *)
Do(q, tasks, n) ==
  /\ p' = q /\ calls' = tasks \o Tail(calls) /\ ret' = n
  /\ UNCHANGED <<items, pstat>>
Continue(q, tasks) == Do(q, tasks, ret)
Answer(q, n)       == Do(q, <<>>, n)

exit == pstat' = "exited" /\ UNCHANGED <<items, p, calls, ret>>

(* expect_peek, for the functions that exit when it fails. *)
Expect(type, then) == \/ Peek(type) /\ then
                      \/ ~Peek(type) /\ exit

(* With one item, eof, peek is not set, and not read. *)
new_parser == [cur |-> items[1], index |-> 1,
               peek |-> items[IF Len(items) > 1 THEN 2 ELSE 1]]

CallParse == <<Statements(<<>>, {"eof"})>>

ParserInit ==
  /\ items \in Inputs
  /\ p = new_parser
  /\ calls = CallParse
  /\ ret = NoNode
  /\ pstat = "parsing"

-----------------------------------------------------------------------------
(***************************************************************************)
(* parse and parse_block: statements up to eof, or to the brace.           *)
(***************************************************************************)
AfterStatement == Call("after_statement")

(* Mutant of MoreStatements: parse_block does not look for the end of the  *)
(* input.                                                                  *)
MoreStatements_at_eof ==
  /\ At("statements")
  /\ p.cur.type \notin IF Len(calls) = 1 THEN {"eof"} ELSE {"rbrace"}
  /\ Continue(p, <<Call("parse_statement"), AfterStatement, Head(calls)>>)

MoreStatements ==
  /\ At("statements") /\ p.cur.type \notin Head(calls).end
  /\ Continue(p, <<Call("parse_statement"), AfterStatement, Head(calls)>>)

(* A statement that is NULL is not added. *)
StatementDone ==
  /\ At("after_statement")
  /\ LET block == calls[2]
         nodes == IF ret = NoNode THEN block.nodes ELSE Append(block.nodes, ret)
     IN /\ p' = next(p) /\ calls' = <<[block EXCEPT !.nodes = nodes]>> \o Tail(Tail(calls))
        /\ UNCHANGED <<items, ret, pstat>>

parse_block ==
  /\ At("parse_block")
  /\ Continue(next(p), <<Statements(<<>>, {"rbrace", "eof"})>>)

StatementsEnd ==
  /\ At("statements") /\ p.cur.type \in Head(calls).end
  /\ IF Len(calls) = 1
     THEN /\ ret' = Block(Head(calls).nodes) /\ pstat' = "parsed"
          /\ UNCHANGED <<items, p, calls>>
     ELSE IF Cur("rbrace") THEN Answer(p, Block(Head(calls).nodes)) ELSE exit

parse_statement ==
  /\ At("parse_statement")
  /\ Continue(p, IF Cur("return") THEN <<Call("parse_return")>> ELSE <<Expr(lowest)>>)

parse_return ==
  /\ At("parse_return")
  /\ IF next(p).cur.type = "semicolon"
     THEN Do(next(p), <<Call("returned")>>, NullNode)
     ELSE Continue(next(p), <<Expr(lowest), Call("returned")>>)

parse_return_end == At("returned") /\ Answer(SkipSemicolon, Return(ret))

-----------------------------------------------------------------------------
parse_identifier == Identifier(p.cur.lit)

(* The exit of parse_integer cannot be reached: an int begins with a digit, *)
(* so strtol fails only of numbers too large, and then does not return 0.   *)
parse_integer    == Integer(strtol[p.cur.lit])

(***************************************************************************)
(* parse_expr: a prefix function by the type of cur, then the loop.        *)
(***************************************************************************)
parse_expr ==
  /\ At("parse_expr")
  /\ LET loop == Loop(Head(calls).prec)
     IN CASE Cur("ident")    -> Do(p, <<loop>>, parse_identifier)
          [] Cur("int")      -> Do(p, <<loop>>, parse_integer)
          [] Cur("lparen")   -> Continue(next(p), <<Expr(lowest), Call("grouped"), loop>>)
          [] Cur("if")       -> Continue(p, <<Call("parse_ifexpr"), loop>>)
          [] Cur("function") -> Continue(p, <<Call("parse_function"), loop>>)
          [] OTHER           -> Answer(p, NoNode)

Binds == /\ ~Peek("semicolon") /\ p.peek.type \in Infix
         /\ Head(calls).prec < get_precedence(p.peek.type)

(* Mutant of infix: the right operand may hold operators as strong. *)
infix_right_assoc ==
  /\ At("infix") /\ Binds
  /\ LET op == p.peek.type
         q  == next(p)
     IN CASE op = "assign" -> Continue(next(q), <<Expr(lowest), Right(op, ret), Head(calls)>>)
          [] op = "lparen" -> Continue(q, <<Args(ret, <<>>), Head(calls)>>)
          [] OTHER -> Continue(next(q), <<Expr(get_precedence(op) - 1), Right(op, ret), Head(calls)>>)

infix ==
  /\ At("infix") /\ Binds
  /\ LET op == p.peek.type
         q  == next(p)
     IN CASE op = "assign" -> Continue(next(q), <<Expr(lowest), Right(op, ret), Head(calls)>>)
          [] op = "lparen" -> Continue(q, <<Args(ret, <<>>), Head(calls)>>)
          [] OTHER -> Continue(next(q), <<Expr(get_precedence(op)), Right(op, ret), Head(calls)>>)

(* Also where an operator has a precedence and no function. *)
parse_expr_end == At("infix") /\ ~Binds /\ Answer(SkipSemicolon, ret)

(* parse_plus ... parse_greater_eq and parse_assign, with both operands. *)
BuildOperation ==
  /\ At("right")
  /\ LET f == Head(calls)
     IN Answer(p, IF f.op = "assign" THEN Assign(f.left, ret)
                  ELSE Operation(BinaryNode[f.op], f.left, ret))

parse_grouped_expr == At("grouped") /\ Expect("rparen", Answer(next(p), ret))

(* parse_call and parse_node_sequence; cur is the parenthesis. *)
parse_call ==
  /\ At("args")
  /\ LET f == Head(calls)
     IN IF next(p).cur.type = "rparen" THEN Answer(next(p), CallNode(f.fn, <<>>))
        ELSE Continue(next(p), <<Expr(lowest), [f EXCEPT !.do = "arg"]>>)

parse_node_sequence ==
  /\ At("arg")
  /\ LET f    == Head(calls)
         args == Append(f.args, ret)
     IN IF Peek("comma")
        THEN Continue(next(next(p)), <<Expr(lowest), [f EXCEPT !.args = args]>>)
        ELSE Expect("rparen", Answer(next(p), CallNode(f.fn, args)))

-----------------------------------------------------------------------------
(***************************************************************************)
(* parse_ifexpr and parse_function.                                        *)
(***************************************************************************)
parse_ifexpr == At("parse_ifexpr") /\ Continue(next(p), <<Expr(lowest), Call("cond")>>)

parse_ifexpr_cond ==
  At("cond") /\ Expect("lbrace", Continue(next(p), <<Call("parse_block"), Body(ret)>>))

parse_ifexpr_body ==
  /\ At("body")
  /\ LET altern == Altern(Head(calls).cond, ret)
         q      == next(p)
     IN \/ ~Peek("else") /\ Answer(p, IfElse(Head(calls).cond, ret, NoNode))
        \/ /\ Peek("else") /\ q.peek.type = "if"
           /\ Continue(next(q), <<Call("parse_ifexpr"), altern>>)
        \/ /\ Peek("else") /\ q.peek.type = "lbrace"
           /\ Continue(next(q), <<Call("parse_block"), altern>>)
        \/ Peek("else") /\ q.peek.type \notin {"if", "lbrace"} /\ exit

parse_ifexpr_end ==
  At("altern") /\ Answer(p, IfElse(Head(calls).cond, Head(calls).body, ret))

parse_function ==
  /\ At("parse_function")
  /\ Expect("lparen",
       LET q == next(p)
       IN IF q.peek.type = "rparen"
          THEN Continue(next(q), <<FunctionBody(<<>>)>>)
          ELSE Continue(next(q), <<[do |-> "params", params |-> <<>>]>>))

(* parse_function_params: whatever item is there is a parameter. *)
parse_function_params ==
  /\ At("params")
  /\ LET params == Append(Head(calls).params, p.cur.lit)
     IN IF Peek("comma")
        THEN Continue(next(next(p)), <<[do |-> "params", params |-> params]>>)
        ELSE Expect("rparen", Continue(next(p), <<FunctionBody(params)>>))

parse_function_body ==
  /\ At("function")
  /\ Expect("lbrace",
       Continue(next(p), <<Call("parse_block"),
                           [Head(calls) EXCEPT !.do = "function_end"]>>))

parse_function_end ==
  At("function_end") /\ Answer(p, FunctionNode(Head(calls).params, ret))

-----------------------------------------------------------------------------
parse ==
  \/ MoreStatements \/ StatementDone \/ StatementsEnd \/ parse_block
  \/ parse_statement \/ parse_return \/ parse_return_end
  \/ parse_expr \/ infix \/ parse_expr_end \/ BuildOperation
  \/ parse_grouped_expr \/ parse_call \/ parse_node_sequence
  \/ parse_ifexpr \/ parse_ifexpr_cond \/ parse_ifexpr_body \/ parse_ifexpr_end
  \/ parse_function \/ parse_function_params \/ parse_function_body
  \/ parse_function_end

ParserSpec == ParserInit /\ [][parse]_parserVars /\ WF_parserVars(parse)

-----------------------------------------------------------------------------
(* cur and peek are neighbours among the items, or both the last one, and  *)
(* the call stack begins with the call of parse.                           *)
ParserTypeOK ==
  /\ p.index = 1 \/ p.index \in 1..Len(items) - 1
  /\ p.peek = items[IF Len(items) > 1 THEN p.index + 1 ELSE 1]
  /\ \/ p.cur = items[p.index]
     \/ p.index + 1 = Len(items) /\ p.cur = p.peek
  /\ pstat \in {"parsing", "parsed", "exited"}
  /\ calls # <<>> /\ calls[Len(calls)].do = "statements" /\ calls[Len(calls)].end = {"eof"}

(* The parser returns or exits, on every sequence of items that ends in an *)
(* eof: none of its loops can run on a cur that no longer changes.         *)
ParserEnds == <>(pstat # "parsing")
=============================================================================
