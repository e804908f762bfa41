------------------------------ MODULE MCParser ------------------------------
(***************************************************************************)
(* Inputs for the parser: the trees of Lines and pairs of operators in     *)
(* both shapes, written down; and every short sequence of items, alone or  *)
(* after the beginning of a function, a block and a call.                  *)
(***************************************************************************)
EXTENDS Parser, Grammar, Lines

MCstrtol == ("0" :> 0) @@ ("1" :> 1) @@ ("2" :> 2)

Join(op, a, b) == IF op = "call" THEN Ap(a, <<b>>) ELSE Op(op, a, b)
Joins == OperationTypes \cup {"assign", "call"}
Pairs == {B1(Join(a, Join(b, X, Y), One)) : a, b \in Joins}
         \cup {B1(Join(a, X, Join(b, Y, One))) : a, b \in Joins}
         \cup {B1(Join(a, Join(b, X, Y), Join(c, One, F))) : a, b, c \in Joins}
         \cup {B2(Join(a, X, One), Join(b, Y, Two)) : a, b \in Joins \ {"call"}}
         \cup {B1(Join(a, IfElse(X, B1(One), B1(Y)), Two)) : a \in Joins}
         \cup {B1(Join(a, Two, FnXY(B2(Join(a, X, One), Return(NullNode))))) : a \in Joins}

Written == {w \in {[tree |-> t, items |-> WriteLine(t)] : t \in Whole \cup Pairs} :
              Separated(w.items)}

MCWritten == {w.items : w \in Written}

Tokens == {It("ident", "x"), It("int", "1")}
          \cup {It(type, type) : type \in
                  {"semicolon", "lparen", "rparen", "lbrace", "rbrace", "comma", "assign",
                   "plus", "lt", "asterisk", "if", "else", "function", "return", "null"}}
Prefixes == {<<>>, Sign("function") \o Sign("lparen"), Sign("if") \o <<It("int", "1")>> \o Sign("lbrace"),
             <<It("ident", "x")>> \o Sign("lparen"), Sign("lbrace")}
Short == UNION {[1..k -> Tokens] : k \in 0..3}

MCShort == {a \o b \o Sign("eof") : a \in Prefixes, b \in Short}

MCInputs == MCWritten \cup MCShort

(* The parser gives back the tree that was written: precedence,            *)
(* associativity, blocks, semicolons and the lists of parameters and       *)
(* arguments are read as they are meant, and no item is left over.         *)
ParsedAsWritten ==
  pstat # "parsing" /\ items \in MCWritten =>
    \A w \in Written : w.items = items => pstat = "parsed" /\ ret = w.tree

-----------------------------------------------------------------------------
TwoStatements == B2(Assign(X, One), Op("minus", Assign(Y, Two), One))
MCTwoStatements == {WriteLine(TwoStatements)}

(* README.md:103: "The semicolon character `;` is implicit on a newline    *)
(* but can be used to separate multiple expressions on a single line."     *)
SemicolonSeparates == pstat = "parsed" => ret = TwoStatements
=============================================================================
