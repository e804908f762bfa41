------------------------------- MODULE Grammar -------------------------------
(***************************************************************************)
(* The language the parser is for: how a tree is written, with parentheses *)
(* only where precedence and associativity call for them.  It models no    *)
(* code.  The operators of two operands associate to the left, = to the    *)
(* right.                                                                  *)
(***************************************************************************)
EXTENDS Tree, TLC

It(type, lit) == [type |-> type, lit |-> lit]
Sign(type) == <<It(type, type)>>

OperatorOf == [less |-> "lt", greater |-> "gt", lesseq |-> "lteq", greatereq |-> "gteq",
               plus |-> "plus", minus |-> "minus"]

Level == [assign |-> 1, less |-> 2, greater |-> 2, lesseq |-> 2, greatereq |-> 2,
          plus |-> 3, minus |-> 3]
Tightest == 4

Joined(texts, separator) ==
  LET f[k \in 0..Len(texts)] ==
        IF k = 0 THEN <<>>
        ELSE f[k - 1] \o (IF k > 1 THEN separator ELSE <<>>) \o texts[k]
  IN f[Len(texts)]

RECURSIVE Write(_, _)

(* The items of tree t where operators of a level below least need          *)
(* parentheses.                                                             *)
Write(t, least) ==
  LET blockText(b) == Sign("lbrace")
                      \o Joined([k \in 1..Len(b.nodes) |-> Write(b.nodes[k], 0)], Sign("semicolon"))
                      \o Sign("rbrace")
      infixText == CASE t.t = "assign" -> Write(t.l, 2) \o Sign("assign") \o Write(t.r, 1)
                     [] OTHER -> Write(t.l, Level[t.t]) \o Sign(OperatorOf[t.t])
                                 \o Write(t.r, Level[t.t] + 1)
  IN CASE t.t = "integer"    -> <<It("int", ToString(t.i))>>
       [] t.t = "identifier" -> <<It("ident", t.name)>>
       [] t.t = "block"      -> blockText(t)
       [] t.t = "return"     -> Sign("return")
                                \o (IF t.val = NullNode THEN Sign("semicolon") ELSE Write(t.val, 0))
       [] t.t = "call"       -> Write(t.fn, Tightest) \o Sign("lparen")
                                \o Joined([k \in 1..Len(t.args) |-> Write(t.args[k], 0)],
                                          Sign("comma"))
                                \o Sign("rparen")
       [] t.t = "function"   -> Sign("function") \o Sign("lparen")
                                \o Joined([k \in 1..Len(t.params) |-> <<It("ident", t.params[k])>>],
                                          Sign("comma"))
                                \o Sign("rparen") \o blockText(t.body)
       [] t.t = "ifelse"     -> Sign("if") \o Write(t.cond, 0) \o blockText(t.body)
                                \o (IF t.altern = NoNode THEN <<>>
                                    ELSE Sign("else") \o Write(t.altern, 0))
       [] OTHER -> IF Level[t.t] < least
                   THEN Sign("lparen") \o infixText \o Sign("rparen")
                   ELSE infixText

(* A line: its statements, separated by semicolons. *)
WriteLine(t) ==
  Joined([k \in 1..Len(t.nodes) |-> Write(t.nodes[k], 0)], Sign("semicolon")) \o Sign("eof")

(* README.md:103 promises nothing else: see SemicolonSeparates. *)
Separated(s) ==
  \A k \in 1..Len(s) - 1 : s[k].type = "semicolon" => s[k + 1].type # "lparen"
=============================================================================
