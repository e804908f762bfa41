-------------------------------- MODULE Lines --------------------------------
(***************************************************************************)
(* Lines for TLC: the tree of every line is a block, as parse builds it.   *)
(***************************************************************************)
EXTENDS Tree

(* The nodes that trees are made of; none of the lines is ten levels deep. *)
Parts(n) ==
  CASE n.t \in OperationTypes \cup {"assign"} -> {n.l, n.r}
    [] n.t = "block"    -> {n.nodes[i] : i \in DOMAIN n.nodes}
    [] n.t = "return"   -> {n.val}
    [] n.t = "ifelse"   -> {n.cond, n.body, n.altern}
    [] n.t = "call"     -> {n.fn} \cup {n.args[i] : i \in DOMAIN n.args}
    [] n.t = "function" -> {n.body}
    [] OTHER            -> {}

NodesOf(trees) ==
  LET down[d \in 0..10] ==
        IF d = 0 THEN trees ELSE down[d - 1] \cup UNION {Parts(n) : n \in down[d - 1]}
  IN down[10]

One == Integer(1)   Two == Integer(2)   Zero == Integer(0)
X == Identifier("x")   Y == Identifier("y")   F == Identifier("f")

B1(a)       == Block(<<a>>)
B2(a, b)    == Block(<<a, b>>)
B3(a, b, c) == Block(<<a, b, c>>)
Fn0(body)   == FunctionNode(<<>>, body)
FnX(body)   == FunctionNode(<<"x">>, body)
FnXY(body)  == FunctionNode(<<"x", "y">>, body)
Ap(f, as)   == CallNode(f, as)
Op(t, a, b) == Operation(t, a, b)
Nothing     == Block(<<>>)

Atoms == {Zero, Two, Identifier("x")}
Operations == {Op(t, a, b) : t \in OperationTypes, a \in Atoms, b \in Atoms}

(* if, with and without else, else if, nested, and with branches that      *)
(* return or do several things.                                            *)
Conditions == {Zero, One, Op("less", One, Two), Op("greatereq", One, Two)}
Ifs == {IfElse(c, b, a) : c \in Conditions,
                          b \in {B1(One), B2(One, Two)},
                          a \in {NoNode, B1(Zero), IfElse(Zero, B1(One), B1(Two)),
                                 IfElse(One, B1(One), NoNode)}}
NestedIfs == {IfElse(c, B1(i), B1(j)) :
                c \in {Zero, One}, i, j \in {IfElse(Zero, B1(One), B1(Two)),
                                             IfElse(One, B2(Zero, Two), NoNode)}}

(* Calls whose functions do as they are told. *)
Bodies == {B1(X), B2(One, X), B1(Return(X)), B2(Return(One), X),
           B1(Op("plus", X, One)), B1(Assign(X, Two)), B2(Assign(X, Op("plus", X, X)), X),
           B1(IfElse(X, B1(Return(One)), NoNode)),
           B2(IfElse(Op("less", X, One), B1(Return(Two)), NoNode), X),
           B1(IfElse(X, B1(One), B1(Return(Zero)))),
           B1(IfElse(X, B1(Return(One)), B1(Return(Zero)))),
           B1(Op("plus", One, IfElse(X, B1(Return(Zero)), B1(Two)))),
           B1(Return(NullNode))}
Calls == {Ap(FnX(b), <<a>>) : b \in Bodies, a \in {Zero, Two}}
         \cup {Ap(FnX(b), <<>>) : b \in Bodies}
OtherCalls == {
  Ap(Fn0(Nothing), <<>>), Ap(Fn0(B1(Return(NullNode))), <<>>), Ap(One, <<>>),
  Ap(FnXY(B1(Op("minus", X, Y))), <<Two, One>>),
  Ap(FnXY(B1(Op("lesseq", X, Y))), <<Two, One>>),
  Ap(FnXY(B1(Ap(X, <<Y>>))), <<FnX(B1(Op("plus", X, X))), Two>>),
  Ap(FnXY(B1(Ap(X, <<Ap(X, <<Y>>)>>))), <<FnX(B1(Op("minus", X, One))), Two>>),
  Ap(Ap(FnX(B1(Fn0(B1(Two)))), <<One>>), <<>>),
  Op("plus", Ap(FnX(B1(X)), <<One>>), Ap(FnX(B1(X)), <<Two>>)) }

(* Several statements: globals, recursion, an error in the middle. *)
Programs == {
  B2(Assign(X, Two), X), B2(Assign(X, Assign(Y, One)), Op("plus", X, Y)),
  B3(Assign(X, One), Assign(X, Two), X), B1(Op("plus", Assign(X, One), X)),
  B1(Op("less", Assign(X, One), Two)), B1(Assign(X, X)), B2(Assign(X, X), One),
  B2(One, Assign(One, Two)),
  B2(Assign(F, FnX(B1(IfElse(X, B1(Op("plus", Ap(F, <<Op("minus", X, One)>>), X)),
                             B1(Zero))))), Ap(F, <<Two>>)),
  B2(Assign(F, FnX(B2(IfElse(Op("lesseq", X, Zero), B1(Return(One)), NoNode),
                      Ap(F, <<Op("minus", X, One)>>)))), Ap(F, <<One>>)),
  B3(Assign(Y, Two), Assign(F, FnX(B1(Op("plus", X, Y)))), Ap(F, <<One>>)),
  B3(Assign(F, FnX(B1(IfElse(X, B1(Y), NoNode)))), Assign(Y, Two), Ap(F, <<One>>)) }

Whole == {B1(e) : e \in Operations \cup Ifs \cup NestedIfs \cup Calls \cup OtherCalls}
         \cup {B2(One, e) : e \in Ifs \cup Calls} \cup Programs

(* The lines the code does not handle, of every kind. *)
Holes == {
  B1(Op("plus", One, NoNode)), B1(Assign(NoNode, One)),
  B1(IfElse(NoNode, B1(One), NoNode)), B1(Ap(FnX(B1(X)), <<NoNode>>)),
  B2(One, Ap(Y, <<One, NoNode>>)) }
Awkward == Holes \cup {
  Nothing, B1(Return(One)), B1(IfElse(One, Nothing, NoNode)),
  B1(IfElse(One, B1(Two), Nothing)), B1(IfElse(Zero, Nothing, Nothing)),
  B1(IfElse(One, B1(Y), NoNode)), B2(Two, Fn0(B2(One, Y))),
  B1(Fn0(B2(Assign(Y, Two), Y))), B1(Ap(Fn0(B2(Assign(Y, Two), Y)), <<>>)),
  B1(FnX(B1(FnXY(B1(X))))), B1(FnX(B1(Fn0(B1(X))))),
  B1(FnX(B1(Fn0(B1(Op("plus", X, X)))))),
  B1(FnX(B1(Fn0(B1(Fn0(B1(X))))))),
  B1(FnXY(B2(Fn0(B1(Op("plus", X, Y))), Y))),
  B1(FunctionNode(<<"x", "x">>, B1(X))), B1(Ap(FunctionNode(<<"x", "x">>, B1(X)), <<One>>)),
  B1(FnX(B1(IfElse(X, B1(Fn0(B1(Y))), NoNode)))) }
=============================================================================
