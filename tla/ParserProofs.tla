----------------------------- MODULE ParserProofs -----------------------------
(***************************************************************************)
(* Proofs about the parser, for items of any number in any order.          *)
(*                                                                         *)
(* ret is untyped in the code, as is what waits for it: what a function    *)
(* returns must be what the one that called it goes on with.  Stack says   *)
(* it of any two neighbours on the call stack.                             *)
(***************************************************************************)
EXTENDS Parser, SequenceTheorems, TLAPS

ItemType == [type : item_type, lit : STRING]

(* The items that the lexer makes. *)
Good == {i \in ItemType : i.type = "int" => strtol[i.lit] \in Int}

(* cur and peek are items: which ones does not matter to what is returned. *)
Place(q) == q \in [cur : Good, index : Nat, peek : Good]
PlaceOK == items \in Seq(Good) /\ Place(p)

(* They are neighbours among the items, or both the last one. *)
Beside(q) ==
  /\ q.index = 1 \/ q.index \in 1..Len(items) - 1
  /\ q.peek = items[IF Len(items) > 1 THEN q.index + 1 ELSE 1]
  /\ q.cur = items[q.index] \/ (q.index + 1 = Len(items) /\ q.cur = q.peek)

InOrder == items # <<>> /\ Beside(p)

(* The nodes of N are made of others of N, from nothing else, and no block *)
(* holds a NULL.                                                           *)
Solid(n) == n.t = "block" => \A i \in DOMAIN n.nodes : n.nodes[i] # NoNode
Made(N) ==
  /\ NoNode \in N /\ NullNode \in N
  /\ N \subseteq NodesOver(N) /\ \A n \in N : Solid(n)
  /\ \A U : NodesOver(U) \subseteq U => N \subseteq U

(* The nodes of N of a kind. *)
Kinds == {"expr", "block", "any"}
Kind(k, N) == {n \in N : /\ k = "expr" => n.t # "block"
                         /\ k = "block" => n.t = "block"}

(* The calls that may wait, with nodes of N. *)
Simple == {"after_statement", "parse_block", "parse_statement", "parse_return", "returned",
           "grouped", "parse_ifexpr", "cond", "parse_function"}
Statement(N) == Kind("expr", N) \ {NoNode}

Frame(N) ==
  [do : Simple]
    \cup [do : {"parse_expr", "infix"}, prec : Int]
    \cup [do : {"right"}, op : DOMAIN BinaryNode \cup {"assign"}, left : Kind("expr", N)]
    \cup [do : {"args", "arg"}, fn : Kind("expr", N), args : Seq(Kind("expr", N))]
    \cup [do : {"body"}, cond : Kind("expr", N)]
    \cup [do : {"altern"}, cond : Kind("expr", N), body : Kind("block", N)]
    \cup [do : {"params", "function", "function_end"}, params : Seq(STRING)]
    \cup [do : {"statements"}, nodes : Seq(Statement(N)), end : {{"eof"}, {"rbrace", "eof"}}]

(* What a call goes on with, and what it returns. *)
Takes(c) ==
  IF c.do \in {"body", "function_end"} THEN "block"
  ELSE IF c.do \in {"after_statement", "returned", "infix", "right", "grouped", "arg", "cond"}
       THEN "expr" ELSE "any"
Gives(c) == IF c.do \in {"statements", "parse_block"} THEN "block" ELSE "expr"

Meets(c, d) ==
  /\ Takes(d) \in {"any", Gives(c)}
  /\ c.do = "after_statement" => d.do = "statements"

Chained(w) == \A i \in 1..Len(w) - 1 : Meets(w[i], w[i + 1])

IsRoot(c) == c.do = "statements" /\ c.end = {"eof"}

Stack(w, N) == w \in Seq(Frame(N)) /\ w # <<>> /\ Chained(w) /\ IsRoot(w[Len(w)])

Now(N) == Made(N) /\ Stack(calls, N) /\ ret \in Kind(Takes(calls[1]), N)

CallsOK == \E N : Now(N) /\ (pstat = "parsed" => ret \in Kind("block", N))

ParserInv == PlaceOK /\ pstat \in {"parsing", "parsed", "exited"} /\ CallsOK

-----------------------------------------------------------------------------
(***************************************************************************)
(* Reading on.                                                             *)
(***************************************************************************)
LEMMA ItemFacts ==
  ASSUME items \in Seq(Good)
  PROVE  Len(items) \in Nat /\ \A i \in 1..Len(items) : items[i] \in Good
OBVIOUS

LEMMA NextPlace ==
  ASSUME items \in Seq(Good), NEW q, Place(q)
  PROVE  Place(next(q))
<1>1. Len(items) \in Nat /\ \A i \in 1..Len(items) : items[i] \in Good
  BY ItemFacts
<1>2. q = [cur |-> q.cur, index |-> q.index, peek |-> q.peek] /\ q.index \in Nat
      /\ q.cur \in Good /\ q.peek \in Good
  BY DEF Place
<1>3. CASE q.index + 1 < Len(items)
  <2>1. next(q) = [cur |-> q.peek, index |-> q.index + 1, peek |-> items[q.index + 2]]
    BY <1>3 DEF next
  <2>2. q.index + 2 \in 1..Len(items)
    BY <1>1, <1>2, <1>3
  <2>3. items[q.index + 2] \in Good /\ q.index + 1 \in Nat
    BY <1>1, <1>2, <2>2
  <2> QED BY <1>2, <2>1, <2>3 DEF Place
<1>4. CASE ~ (q.index + 1 < Len(items))
  <2>1. next(q) = [cur |-> q.peek, index |-> q.index, peek |-> q.peek]
    BY <1>2, <1>4 DEF next
  <2> QED BY <1>2, <2>1 DEF Place
<1> QED BY <1>3, <1>4

LEMMA SkipPlace == PlaceOK => Place(SkipSemicolon)
BY NextPlace DEF PlaceOK, SkipSemicolon

LEMMA NextBeside ==
  ASSUME items \in Seq(Good), items # <<>>, NEW q, Place(q), Beside(q)
  PROVE  Beside(next(q))
<1> DEFINE n == Len(items)
<1>1. n \in Nat /\ n >= 1
  OBVIOUS
<1>2. q = [cur |-> q.cur, index |-> q.index, peek |-> q.peek] /\ q.index \in Nat
  BY DEF Place
<1>3. /\ q.index = 1 \/ q.index \in 1..n - 1
      /\ q.peek = items[IF n > 1 THEN q.index + 1 ELSE 1]
  BY DEF Beside
<1> HIDE DEF n
<1>4. CASE q.index + 1 < n
  <2>1. next(q) = [cur |-> q.peek, index |-> q.index + 1, peek |-> items[q.index + 2]]
    BY <1>4 DEF next, n
  <2>2. q.index + 1 \in 1..n - 1 /\ n > 1 /\ (q.index + 1) + 1 = q.index + 2
    BY <1>1, <1>2, <1>3, <1>4
  <2> QED BY <1>3, <2>1, <2>2 DEF Beside, n
<1>5. CASE ~ (q.index + 1 < n)
  <2>1. next(q) = [cur |-> q.peek, index |-> q.index, peek |-> q.peek]
    BY <1>2, <1>5 DEF next, n
  <2>2. q.index + 1 = n \/ (n = 1 /\ q.index = 1)
    BY <1>1, <1>2, <1>3, <1>5
  <2> QED BY <1>1, <1>3, <2>1, <2>2 DEF Beside, n
<1> QED BY <1>4, <1>5

(* cur is an item. *)
LEMMA CurFacts ==
  ASSUME PlaceOK
  PROVE  /\ p.cur \in ItemType /\ p.cur.lit \in STRING
         /\ Cur("int") => strtol[p.cur.lit] \in Int
BY DEF PlaceOK, Place, Good, Cur, ItemType
-----------------------------------------------------------------------------
(***************************************************************************)
(* More nodes.                                                             *)
(***************************************************************************)
LEMMA SeqsGrow ==
  ASSUME NEW S, NEW T, S \subseteq T
  PROVE  Seq(S) \subseteq Seq(T)
OBVIOUS

LEMMA KindsGrow ==
  ASSUME NEW N, NEW M, N \subseteq M
  PROVE  /\ \A k : Kind(k, N) \subseteq Kind(k, M)
         /\ Statement(N) \subseteq Statement(M)
BY DEF Kind, Statement

LEMMA FramesGrow ==
  ASSUME NEW N, NEW M, N \subseteq M
  PROVE  Frame(N) \subseteq Frame(M)
<1> DEFINE A == Kind("expr", N)
           B == Kind("expr", M)
           C == Kind("block", N)
           E == Kind("block", M)
           SA == Seq(A)
           SB == Seq(B)
           T == Seq(Statement(N))
           U == Seq(Statement(M))
           W == Seq(STRING)
           Ops == DOMAIN BinaryNode \cup {"assign"}
<1>1. A \subseteq B /\ C \subseteq E /\ SA \subseteq SB /\ T \subseteq U
  BY KindsGrow, SeqsGrow
<1> SUFFICES ASSUME NEW c \in Frame(N) PROVE c \in Frame(M)
  OBVIOUS
<1>2. \/ c \in [do : Simple] \/ c \in [do : {"parse_expr", "infix"}, prec : Int]
      \/ c \in [do : {"right"}, op : Ops, left : A]
      \/ c \in [do : {"args", "arg"}, fn : A, args : SA]
      \/ c \in [do : {"body"}, cond : A]
      \/ c \in [do : {"altern"}, cond : A, body : C]
      \/ c \in [do : {"params", "function", "function_end"}, params : W]
      \/ c \in [do : {"statements"}, nodes : T, end : {{"eof"}, {"rbrace", "eof"}}]
  BY DEF Frame
<1> HIDE DEF A, B, C, E, SA, SB, T, U, W, Ops
<1>3. \/ c \in [do : Simple] \/ c \in [do : {"parse_expr", "infix"}, prec : Int]
      \/ c \in [do : {"right"}, op : Ops, left : B]
      \/ c \in [do : {"args", "arg"}, fn : B, args : SB]
      \/ c \in [do : {"body"}, cond : B]
      \/ c \in [do : {"altern"}, cond : B, body : E]
      \/ c \in [do : {"params", "function", "function_end"}, params : W]
      \/ c \in [do : {"statements"}, nodes : U, end : {{"eof"}, {"rbrace", "eof"}}]
  BY <1>1, <1>2
<1> QED BY <1>3 DEF Frame, B, E, SB, U, W, Ops

LEMMA NodesGrow ==
  ASSUME NEW N, NEW M, N \subseteq M
  PROVE  NodesOver(N) \subseteq NodesOver(M)
<1> DEFINE A == {n \in N : n.t # "block"}
           B == {n \in M : n.t # "block"}
           C == {n \in N : n.t = "block"}
           E == {n \in M : n.t = "block"}
           SA == Seq(A)
           SB == Seq(B)
           W == Seq(STRING)
<1>1. A \subseteq B /\ C \subseteq E /\ SA \subseteq SB
  BY SeqsGrow
<1> SUFFICES ASSUME NEW n \in NodesOver(N) PROVE n \in NodesOver(M)
  OBVIOUS
<1>2. \/ n = NoNode \/ n = NullNode
      \/ n \in [t : {"integer"}, i : Int]
      \/ n \in [t : {"identifier"}, name : STRING]
      \/ n \in [t : OperationTypes \cup {"assign"}, l : A, r : A]
      \/ n \in [t : {"block"}, nodes : SA]
      \/ n \in [t : {"call"}, fn : A, args : SA]
      \/ n \in [t : {"return"}, val : A]
      \/ n \in [t : {"ifelse"}, cond : A, body : C, altern : N]
      \/ n \in [t : {"function"}, params : W, body : C]
  BY DEF NodesOver
<1> HIDE DEF A, B, C, E, SA, SB, W
<1>3. \/ n = NoNode \/ n = NullNode
      \/ n \in [t : {"integer"}, i : Int]
      \/ n \in [t : {"identifier"}, name : STRING]
      \/ n \in [t : OperationTypes \cup {"assign"}, l : B, r : B]
      \/ n \in [t : {"block"}, nodes : SB]
      \/ n \in [t : {"call"}, fn : B, args : SB]
      \/ n \in [t : {"return"}, val : B]
      \/ n \in [t : {"ifelse"}, cond : B, body : E, altern : M]
      \/ n \in [t : {"function"}, params : W, body : E]
  BY <1>1, <1>2
<1> QED BY <1>3 DEF NodesOver, B, E, SB, W

LEMMA Grow ==
  ASSUME NEW N, Made(N), NEW n \in NodesOver(N), Solid(n)
  PROVE  Made(N \cup {n})
<1>1. NodesOver(N) \subseteq NodesOver(N \cup {n})
  BY NodesGrow
<1>2. ASSUME NEW U, NodesOver(U) \subseteq U PROVE N \cup {n} \subseteq U
  <2>1. N \subseteq U
    BY <1>2 DEF Made
  <2>2. NodesOver(N) \subseteq NodesOver(U)
    BY <2>1, NodesGrow
  <2> QED BY <1>2, <2>1, <2>2
<1> QED BY <1>1, <1>2 DEF Made

-----------------------------------------------------------------------------
(***************************************************************************)
(* The call stack: ts in place of the head of v.                           *)
(***************************************************************************)
LEMMA Chains ==
  /\ Chained(<<>>)
  /\ \A a : Chained(<<a>>)
  /\ \A a, b : Meets(a, b) => Chained(<<a, b>>)
  /\ \A a, b, c : Meets(a, b) /\ Meets(b, c) => Chained(<<a, b, c>>)
<1>1. \A a, b : Meets(a, b) => Chained(<<a, b>>)
  BY DEF Chained
<1>2. ASSUME NEW a, NEW b, NEW c, Meets(a, b), Meets(b, c) PROVE Chained(<<a, b, c>>)
  <2> DEFINE w == <<a, b, c>>
  <2>1. Len(w) = 3 /\ w[1] = a /\ w[2] = b /\ w[3] = c
    OBVIOUS
  <2> HIDE DEF w
  <2>2. \A i \in 1..Len(w) - 1 : i = 1 \/ i = 2
    BY <2>1
  <2>3. \A i \in 1..Len(w) - 1 : Meets(w[i], w[i + 1])
    BY <1>2, <2>1, <2>2
  <2> QED BY <2>3 DEF Chained, w
<1> QED BY <1>1, <1>2 DEF Chained

(* What ts must be. *)
Fits(ts, v, M) ==
  /\ ts \in Seq(Frame(M)) /\ Chained(ts)
  /\ ts # <<>> => /\ Gives(ts[Len(ts)]) = Gives(v[1])
                  /\ ts[Len(ts)].do # "after_statement"
  /\ Len(v) > 1 \/ (ts # <<>> /\ IsRoot(ts[Len(ts)]))

LEMMA Replace ==
  ASSUME NEW N, NEW M, N \subseteq M, NEW v, Stack(v, N), v[1].do # "after_statement",
         NEW ts, Fits(ts, v, M)
  PROVE  /\ Stack(ts \o Tail(v), M)
         /\ Head(ts \o Tail(v)) = IF ts = <<>> THEN v[2] ELSE ts[1]
         /\ ts = <<>> => Len(v) > 1 /\ Takes(v[2]) \in {"any", Gives(v[1])}
<1> DEFINE w == ts \o Tail(v)
           F == Frame(M)
<1>1. Frame(N) \subseteq F
  BY FramesGrow
<1>2. v \in Seq(F) /\ v # <<>> /\ ts \in Seq(F)
  <2>1. v \in Seq(Frame(N)) /\ Seq(Frame(N)) \subseteq Seq(F)
    BY <1>1, SeqsGrow DEF Stack
  <2> QED BY <2>1 DEF Fits, Stack
<1>3. /\ Chained(v) /\ IsRoot(v[Len(v)]) /\ Chained(ts)
      /\ ts # <<>> => Gives(ts[Len(ts)]) = Gives(v[1]) /\ ts[Len(ts)].do # "after_statement"
      /\ Len(v) > 1 \/ (ts # <<>> /\ IsRoot(ts[Len(ts)]))
  BY DEF Stack, Fits
<1> HIDE DEF F
<1>4. /\ w \in Seq(F) /\ Len(w) = Len(ts) + Len(v) - 1 /\ Len(ts) \in Nat /\ Len(v) \in Nat /\ Len(v) >= 1
      /\ \A i \in 1..Len(ts) : w[i] = ts[i]
      /\ \A i \in Len(ts) + 1..Len(w) : w[i] = v[i - Len(ts) + 1]
  <2> DEFINE u == Tail(v)
  <2>1. u \in Seq(F) /\ Len(u) = Len(v) - 1 /\ \A i \in 1..Len(u) : u[i] = v[i + 1]
    BY <1>2
  <2> HIDE DEF u
  <2>2. ts \o u \in Seq(F) /\ Len(ts \o u) = Len(ts) + Len(u)
        /\ \A i \in 1..Len(ts) + Len(u) :
             (ts \o u)[i] = IF i <= Len(ts) THEN ts[i] ELSE u[i - Len(ts)]
    BY <1>2, <2>1, ConcatProperties
  <2>3. Len(ts) \in Nat /\ Len(v) \in Nat /\ Len(v) >= 1
    BY <1>2
  <2>4. \A i \in Len(ts) + 1..Len(ts) + Len(u) : u[i - Len(ts)] = v[(i - Len(ts)) + 1]
    BY <2>1, <2>3
  <2>5. \A i \in 1..Len(ts) : (ts \o u)[i] = ts[i]
    BY <2>1, <2>2, <2>3
  <2>6. \A i \in Len(ts) + 1..Len(ts) + Len(u) : (ts \o u)[i] = v[(i - Len(ts)) + 1]
    BY <2>1, <2>2, <2>3, <2>4
  <2>7. Len(ts) + Len(u) = Len(ts) + Len(v) - 1
    BY <2>1, <2>3
  <2> QED BY <2>2, <2>3, <2>5, <2>6, <2>7 DEF u
<1>5. ts # <<>> => Len(ts) >= 1
  BY <1>2
<1>6. ts = <<>> => Len(ts) = 0
  OBVIOUS
<1> HIDE DEF w
<1>7. Len(w) >= 1 /\ w # <<>>
  <2>1. Len(w) >= 1
    BY <1>3, <1>4, <1>5
  <2> QED BY <1>4, <2>1
<1>8. IsRoot(w[Len(w)])
  <2>1. CASE Len(v) > 1
    <3>1. w[Len(w)] = v[Len(v)]
      BY <1>4, <2>1
    <3> QED BY <1>3, <3>1
  <2>2. CASE ~ (Len(v) > 1)
    <3>1. Len(w) = Len(ts) /\ ts # <<>> /\ IsRoot(ts[Len(ts)])
      BY <1>3, <1>4, <2>2
    <3>2. w[Len(ts)] = ts[Len(ts)]
      BY <1>4, <1>5, <3>1
    <3> QED BY <3>1, <3>2
  <2> QED BY <2>1, <2>2
<1>9. ASSUME NEW i \in 1..Len(w) - 1 PROVE Meets(w[i], w[i + 1])
  <2>1. CASE i + 1 <= Len(ts)
    <3>1. w[i] = ts[i] /\ w[i + 1] = ts[i + 1] /\ i \in 1..Len(ts) - 1
      BY <1>4, <2>1
    <3> QED BY <1>3, <3>1 DEF Chained
  <2>2. CASE i = Len(ts)
    <3>1. w[i] = ts[i] /\ w[i + 1] = v[2] /\ Len(v) > 1 /\ ts # <<>>
      BY <1>4, <1>6, <2>2
    <3>2. Meets(v[1], v[2])
      BY <1>3, <1>4, <3>1 DEF Chained
    <3> QED BY <1>3, <2>2, <3>1, <3>2 DEF Meets
  <2>3. CASE i > Len(ts)
    <3> DEFINE j == i - Len(ts) + 1
    <3>1. j \in 1..Len(v) - 1 /\ i \in Len(ts) + 1..Len(w) /\ i + 1 \in Len(ts) + 1..Len(w)
          /\ (i + 1) - Len(ts) + 1 = j + 1
      BY <1>4, <2>3
    <3>2. w[i] = v[j] /\ w[i + 1] = v[j + 1]
      BY <1>4, <3>1
    <3> HIDE DEF j
    <3> QED BY <1>3, <3>1, <3>2 DEF Chained
  <2> QED BY <1>4, <2>1, <2>2, <2>3
<1>10. w \in Seq(Frame(M))
  BY <1>4 DEF F
<1>11. Stack(w, M)
  BY <1>7, <1>8, <1>9, <1>10 DEF Stack, Chained
<1>12. Head(w) = w[1]
  BY <1>4, <1>7
<1>13. ts = <<>> => w[1] = v[2] /\ Len(v) > 1 /\ Meets(v[1], v[2])
  <2> SUFFICES ASSUME ts = <<>> PROVE w[1] = v[2] /\ Len(v) > 1 /\ Meets(v[1], v[2])
    OBVIOUS
  <2>1. Len(ts) = 0 /\ Len(v) > 1
    BY <1>3, <1>6
  <2>2. w[1] = v[2]
    BY <1>4, <1>7, <2>1
  <2>3. 1 \in 1..Len(v) - 1
    BY <1>4, <2>1
  <2> QED BY <1>3, <2>1, <2>2, <2>3 DEF Chained
<1>14. ts # <<>> => w[1] = ts[1]
  BY <1>4, <1>5
<1> QED BY <1>11, <1>12, <1>13, <1>14 DEF w, Meets
-----------------------------------------------------------------------------
(***************************************************************************)
(* What the calls hold.                                                    *)
(***************************************************************************)
LEMMA FrameFacts ==
  ASSUME NEW N, NEW c \in Frame(N)
  PROVE  /\ c.do \in {"parse_expr", "infix"} => c.prec \in Int
         /\ c.do = "right" => c.op \in DOMAIN BinaryNode \cup {"assign"} /\ c.left \in Kind("expr", N)
         /\ c.do \in {"args", "arg"} =>
              /\ c.fn \in Kind("expr", N) /\ c.args \in Seq(Kind("expr", N))
              /\ c = [do |-> c.do, fn |-> c.fn, args |-> c.args]
         /\ c.do \in {"body", "altern"} => c.cond \in Kind("expr", N)
         /\ c.do = "altern" => c.body \in Kind("block", N)
         /\ c.do \in {"params", "function", "function_end"} =>
              c.params \in Seq(STRING) /\ c = [do |-> c.do, params |-> c.params]
         /\ c.do = "statements" =>
              /\ c.nodes \in Seq(Statement(N)) /\ c.end \in {{"eof"}, {"rbrace", "eof"}}
              /\ c = [do |-> "statements", nodes |-> c.nodes, end |-> c.end]
<1> DEFINE A == Kind("expr", N)
           B == Kind("block", N)
           SA == Seq(A)
           T == Seq(Statement(N))
           W == Seq(STRING)
           Ops == DOMAIN BinaryNode \cup {"assign"}
           Ends == {{"eof"}, {"rbrace", "eof"}}
<1>1. \/ c \in [do : Simple] \/ c \in [do : {"parse_expr", "infix"}, prec : Int]
      \/ c \in [do : {"right"}, op : Ops, left : A]
      \/ c \in [do : {"args", "arg"}, fn : A, args : SA]
      \/ c \in [do : {"body"}, cond : A]
      \/ c \in [do : {"altern"}, cond : A, body : B]
      \/ c \in [do : {"params", "function", "function_end"}, params : W]
      \/ c \in [do : {"statements"}, nodes : T, end : Ends]
  BY DEF Frame
<1> HIDE DEF A, B, SA, T, W, Ops, Ends
<1>2. /\ c.do \in {"parse_expr", "infix"} => c.prec \in Int
      /\ c.do = "right" => c.op \in Ops /\ c.left \in A
      /\ c.do \in {"args", "arg"} =>
           c.fn \in A /\ c.args \in SA /\ c = [do |-> c.do, fn |-> c.fn, args |-> c.args]
      /\ c.do \in {"body", "altern"} => c.cond \in A
      /\ c.do = "altern" => c.body \in B
      /\ c.do \in {"params", "function", "function_end"} =>
           c.params \in W /\ c = [do |-> c.do, params |-> c.params]
      /\ c.do = "statements" =>
           c.nodes \in T /\ c.end \in Ends /\ c = [do |-> "statements", nodes |-> c.nodes, end |-> c.end]
  BY <1>1 DEF Simple
<1> QED BY <1>2 DEF A, B, SA, T, W, Ops, Ends

LEMMA FramesOf ==
  ASSUME NEW N
  PROVE  /\ \A name \in Simple : Call(name) \in Frame(N)
         /\ \A prec \in Int : Expr(prec) \in Frame(N) /\ Loop(prec) \in Frame(N)
         /\ \A op \in DOMAIN BinaryNode \cup {"assign"}, l \in Kind("expr", N) : Right(op, l) \in Frame(N)
         /\ \A fn \in Kind("expr", N), args \in Seq(Kind("expr", N)) :
              Args(fn, args) \in Frame(N) /\ [do |-> "arg", fn |-> fn, args |-> args] \in Frame(N)
         /\ \A cond \in Kind("expr", N) : Body(cond) \in Frame(N)
         /\ \A cond \in Kind("expr", N), body \in Kind("block", N) : Altern(cond, body) \in Frame(N)
         /\ \A params \in Seq(STRING) :
              /\ FunctionBody(params) \in Frame(N)
              /\ [do |-> "params", params |-> params] \in Frame(N)
              /\ [do |-> "function_end", params |-> params] \in Frame(N)
         /\ \A nodes \in Seq(Statement(N)), end \in {{"eof"}, {"rbrace", "eof"}} :
              Statements(nodes, end) \in Frame(N)
<1>1. /\ \A name \in Simple : Call(name) \in Frame(N)
      /\ \A prec \in Int : Expr(prec) \in Frame(N) /\ Loop(prec) \in Frame(N)
  BY DEF Frame, Call, Expr, Loop
<1>2. \A op \in DOMAIN BinaryNode \cup {"assign"}, l \in Kind("expr", N) : Right(op, l) \in Frame(N)
  BY DEF Frame, Right
<1>3. \A fn \in Kind("expr", N), args \in Seq(Kind("expr", N)) :
        Args(fn, args) \in Frame(N) /\ [do |-> "arg", fn |-> fn, args |-> args] \in Frame(N)
  BY DEF Frame, Args
<1>4. /\ \A cond \in Kind("expr", N) : Body(cond) \in Frame(N)
      /\ \A cond \in Kind("expr", N), body \in Kind("block", N) : Altern(cond, body) \in Frame(N)
  BY DEF Frame, Body, Altern
<1>5. \A params \in Seq(STRING) :
        /\ FunctionBody(params) \in Frame(N)
        /\ [do |-> "params", params |-> params] \in Frame(N)
        /\ [do |-> "function_end", params |-> params] \in Frame(N)
  BY DEF Frame, FunctionBody
<1>6. \A nodes \in Seq(Statement(N)), end \in {{"eof"}, {"rbrace", "eof"}} :
        Statements(nodes, end) \in Frame(N)
  BY DEF Frame, Statements
<1> QED BY <1>1, <1>2, <1>3, <1>4, <1>5, <1>6

(* What is on the call stack. *)
LEMMA HeadFacts ==
  ASSUME NEW N, Stack(calls, N)
  PROVE  /\ Len(calls) \in Nat /\ Len(calls) >= 1 /\ Head(calls) = calls[1] /\ calls[1] \in Frame(N)
         /\ calls[1].do # "statements" => Len(calls) > 1
         /\ Len(calls) = 1 => IsRoot(calls[1])
<1>1. calls \in Seq(Frame(N)) /\ calls # <<>> /\ IsRoot(calls[Len(calls)])
  BY DEF Stack
<1>2. Len(calls) \in Nat /\ Len(calls) >= 1 /\ Head(calls) = calls[1] /\ calls[1] \in Frame(N)
  BY <1>1
<1> QED BY <1>1, <1>2 DEF IsRoot

(* p stands at q, and ts goes on with n. *)
Goes(q, ts, n, M) ==
  /\ Do(q, ts, n) /\ pstat = "parsing" /\ Place(q)
  /\ calls[1].do # "after_statement" /\ Fits(ts, calls, M)
  /\ n \in Kind(IF ts = <<>> THEN Gives(calls[1]) ELSE Takes(ts[1]), M)

LEMMA GoesOn ==
  ASSUME ParserInv, NEW N, Now(N), NEW M, N \subseteq M, Made(M), NEW q, NEW ts, NEW n, Goes(q, ts, n, M)
  PROVE  ParserInv'
<1>1. /\ p' = q /\ calls' = ts \o Tail(calls) /\ ret' = n /\ items' = items /\ pstat' = pstat
      /\ pstat = "parsing" /\ Place(q) /\ calls[1].do # "after_statement" /\ Fits(ts, calls, M)
      /\ n \in Kind(IF ts = <<>> THEN Gives(calls[1]) ELSE Takes(ts[1]), M)
  BY DEF Goes, Do
<1>2. Stack(calls, N) /\ calls # <<>>
  BY DEF Now, Stack
<1>3. /\ Stack(calls', M)
      /\ Head(calls') = IF ts = <<>> THEN calls[2] ELSE ts[1]
      /\ ts = <<>> => Takes(calls[2]) \in {"any", Gives(calls[1])}
  BY <1>1, <1>2, Replace
<1>4. Head(calls') = calls'[1]
  BY <1>3 DEF Stack
<1>5. ret' \in Kind(Takes(calls'[1]), M)
  <2>1. CASE ts = <<>>
    <3>1. n \in Kind(Gives(calls[1]), M) /\ calls'[1] = calls[2]
      BY <1>1, <1>3, <1>4, <2>1
    <3> QED BY <1>1, <1>3, <2>1, <3>1 DEF Kind
  <2>2. CASE ts # <<>>
    BY <1>1, <1>3, <1>4, <2>2
  <2> QED BY <2>1, <2>2
<1>6. Now(M)'
  BY <1>3, <1>5 DEF Now
<1>7. PlaceOK'
  BY <1>1 DEF ParserInv, PlaceOK
<1>8. CallsOK'
  BY <1>1, <1>6 DEF CallsOK
<1> QED BY <1>1, <1>7, <1>8 DEF ParserInv
-----------------------------------------------------------------------------
(***************************************************************************)
(* A step: up to three calls in place of the head, or none.                *)
(***************************************************************************)
Ready(N) ==
  /\ ParserInv /\ Now(N) /\ pstat = "parsing"
  /\ Len(calls) > 1 /\ calls[1].do # "after_statement"

(* A node a function of kind k may return. *)
Fresh(n, k, N) == n \in NodesOver(N) /\ Solid(n) /\ n \in Kind(k, {n})

LEMMA OldIsFresh ==
  ASSUME NEW N, Made(N), NEW k, NEW n \in Kind(k, N)
  PROVE  Fresh(n, k, N)
BY DEF Made, Kind, Fresh

LEMMA FitsGrow ==
  ASSUME NEW N, NEW M, N \subseteq M, NEW ts, NEW v, Fits(ts, v, N)
  PROVE  Fits(ts, v, M)
<1>1. Seq(Frame(N)) \subseteq Seq(Frame(M))
  BY FramesGrow, SeqsGrow
<1> QED BY <1>1 DEF Fits

LEMMA Steps ==
  ASSUME NEW N, Ready(N), NEW q, Place(q), NEW ts, Fits(ts, calls, N), NEW n, Do(q, ts, n),
         Fresh(n, IF ts = <<>> THEN Gives(calls[1]) ELSE Takes(ts[1]), N)
  PROVE  ParserInv'
<1> DEFINE M == N \cup {n}
           k == IF ts = <<>> THEN Gives(calls[1]) ELSE Takes(ts[1])
<1>1. ParserInv /\ Now(N) /\ pstat = "parsing" /\ calls[1].do # "after_statement"
  BY DEF Ready
<1>2. Made(M)
  BY <1>1, Grow DEF Fresh, Now
<1>3. N \subseteq M
  OBVIOUS
<1>4. n \in Kind(k, M)
  <2>1. n \in Kind(k, {n})
    BY DEF Fresh
  <2> HIDE DEF k
  <2> QED BY <2>1 DEF Kind
<1> HIDE DEF M
<1>5. Fits(ts, calls, M)
  BY <1>3, FitsGrow
<1>6. Goes(q, ts, n, M)
  BY <1>1, <1>4, <1>5 DEF Goes, k
<1> QED BY <1>1, <1>2, <1>3, <1>6, GoesOn

LEMMA One ==
  ASSUME NEW N, Ready(N), NEW q, Place(q), NEW c \in Frame(N), Gives(c) = Gives(calls[1]),
         c.do # "after_statement", NEW n, Do(q, <<c>>, n), Fresh(n, Takes(c), N)
  PROVE  ParserInv'
<1> DEFINE ts == <<c>>
<1>1. ts \in Seq(Frame(N)) /\ ts # <<>> /\ Len(ts) = 1 /\ ts[1] = c /\ Chained(ts)
  BY Chains
<1> HIDE DEF ts
<1>2. Fits(ts, calls, N)
  BY <1>1 DEF Fits, Ready
<1>3. Do(q, ts, n) /\ Fresh(n, Takes(ts[1]), N)
  BY <1>1 DEF ts
<1>4. Fresh(n, IF ts = <<>> THEN Gives(calls[1]) ELSE Takes(ts[1]), N)
  BY <1>1, <1>3
<1> QED BY <1>2, <1>3, <1>4, Steps

LEMMA Two ==
  ASSUME NEW N, Ready(N), NEW q, Place(q), NEW c \in Frame(N), NEW d \in Frame(N), Meets(c, d),
         Gives(d) = Gives(calls[1]), d.do # "after_statement",
         NEW n, Do(q, <<c, d>>, n), Fresh(n, Takes(c), N)
  PROVE  ParserInv'
<1> DEFINE ts == <<c, d>>
<1>1. ts \in Seq(Frame(N)) /\ ts # <<>> /\ Len(ts) = 2 /\ ts[1] = c /\ ts[2] = d /\ Chained(ts)
  BY Chains
<1> HIDE DEF ts
<1>2. Fits(ts, calls, N)
  BY <1>1 DEF Fits, Ready
<1>3. Do(q, ts, n) /\ Fresh(n, Takes(ts[1]), N)
  BY <1>1 DEF ts
<1>4. Fresh(n, IF ts = <<>> THEN Gives(calls[1]) ELSE Takes(ts[1]), N)
  BY <1>1, <1>3
<1> QED BY <1>2, <1>3, <1>4, Steps

LEMMA Three ==
  ASSUME NEW N, Ready(N), NEW q, Place(q), NEW c \in Frame(N), NEW d \in Frame(N), NEW e \in Frame(N),
         Meets(c, d), Meets(d, e), Gives(e) = Gives(calls[1]), e.do # "after_statement",
         NEW n, Do(q, <<c, d, e>>, n), Fresh(n, Takes(c), N)
  PROVE  ParserInv'
<1> DEFINE ts == <<c, d, e>>
<1>1. ts \in Seq(Frame(N)) /\ ts # <<>> /\ Len(ts) = 3 /\ ts[1] = c /\ ts[3] = e /\ Chained(ts)
  BY Chains
<1> HIDE DEF ts
<1>2. Fits(ts, calls, N)
  BY <1>1 DEF Fits, Ready
<1>3. Do(q, ts, n) /\ Fresh(n, Takes(ts[1]), N)
  BY <1>1 DEF ts
<1>4. Fresh(n, IF ts = <<>> THEN Gives(calls[1]) ELSE Takes(ts[1]), N)
  BY <1>1, <1>3
<1> QED BY <1>2, <1>3, <1>4, Steps

LEMMA Answered ==
  ASSUME NEW N, Ready(N), NEW q, Place(q), NEW n, Answer(q, n), Fresh(n, Gives(calls[1]), N)
  PROVE  ParserInv'
<1>1. Fits(<<>>, calls, N)
  BY Chains DEF Fits, Ready
<1>2. Do(q, <<>>, n)
  BY DEF Answer
<1>3. Fresh(n, IF <<>> = <<>> THEN Gives(calls[1]) ELSE Takes((<<>>)[1]), N)
  OBVIOUS
<1> QED BY <1>1, <1>2, <1>3, Steps

LEMMA ExitOK == ParserInv /\ exit => ParserInv'
<1> SUFFICES ASSUME ParserInv, exit PROVE ParserInv'
  OBVIOUS
<1>1. pstat' = "exited" /\ items' = items /\ p' = p /\ calls' = calls /\ ret' = ret
  BY DEF exit
<1>2. PlaceOK'
  BY <1>1 DEF ParserInv, PlaceOK
<1>3. PICK N : Now(N)
  BY DEF ParserInv, CallsOK
<1>4. Now(N)'
  BY <1>1, <1>3 DEF Now
<1> QED BY <1>1, <1>2, <1>4 DEF ParserInv, CallsOK

(* Where a function begins or goes on. *)
LEMMA Here ==
  ASSUME ParserInv, NEW name, At(name), name \notin {"after_statement", "statements"}
  PROVE  \E N : /\ Ready(N) /\ calls[1] = Head(calls) /\ calls[1] \in Frame(N) /\ calls[1].do = name
                /\ ret \in Kind(Takes(calls[1]), N) /\ Made(N)
<1>1. PICK N : Now(N)
  BY DEF ParserInv, CallsOK
<1>2. Stack(calls, N) /\ Made(N) /\ ret \in Kind(Takes(calls[1]), N)
  BY <1>1 DEF Now
<1>3. calls[1] = Head(calls) /\ calls[1] \in Frame(N) /\ (calls[1].do # "statements" => Len(calls) > 1)
  BY <1>2, HeadFacts
<1>4. pstat = "parsing" /\ calls[1].do = name
  BY <1>3 DEF At
<1>5. Ready(N)
  BY <1>1, <1>3, <1>4 DEF Ready
<1> QED BY <1>2, <1>3, <1>4, <1>5

LEMMA Places ==
  ASSUME ParserInv
  PROVE  Place(p) /\ Place(next(p)) /\ Place(next(next(p))) /\ Place(SkipSemicolon)
<1>1. PlaceOK /\ items \in Seq(Good) /\ Place(p)
  BY DEF ParserInv, PlaceOK
<1> QED BY <1>1, NextPlace, SkipPlace
-----------------------------------------------------------------------------
(***************************************************************************)
(* The statements.                                                         *)
(***************************************************************************)
LEMMA MoreStatementsOK == ParserInv /\ MoreStatements => ParserInv'
<1> SUFFICES ASSUME ParserInv, MoreStatements PROVE ParserInv'
  OBVIOUS
<1>1. PICK N : Now(N)
  BY DEF ParserInv, CallsOK
<1>2. Stack(calls, N) /\ Made(N) /\ ret \in Kind(Takes(calls[1]), N)
  BY <1>1 DEF Now
<1>3. /\ calls[1] = Head(calls) /\ calls[1] \in Frame(N) /\ Len(calls) >= 1 /\ Len(calls) \in Nat
      /\ Len(calls) = 1 => IsRoot(calls[1])
  BY <1>2, HeadFacts
<1>4. pstat = "parsing" /\ calls[1].do = "statements"
      /\ Continue(p, <<Call("parse_statement"), AfterStatement, calls[1]>>)
  BY <1>3 DEF MoreStatements, At
<1> DEFINE c == Call("parse_statement")
           ts == <<c, AfterStatement, calls[1]>>
<1>5. /\ c \in Frame(N) /\ AfterStatement \in Frame(N) /\ c.do = "parse_statement"
      /\ AfterStatement.do = "after_statement"
  BY FramesOf DEF Call, AfterStatement, Simple
<1>6. Meets(c, AfterStatement) /\ Meets(AfterStatement, calls[1])
  BY <1>4, <1>5 DEF Meets, Takes, Gives
<1>7. ts \in Seq(Frame(N)) /\ ts # <<>> /\ Len(ts) = 3 /\ ts[1] = c /\ ts[3] = calls[1] /\ Chained(ts)
  BY <1>3, <1>5, <1>6, Chains
<1>8. Do(p, ts, ret)
  BY <1>4 DEF Continue
<1>9. ret \in Kind(Takes(c), N)
  BY <1>2, <1>5 DEF Takes, Kind
<1> HIDE DEF ts, c
<1>10. Fits(ts, calls, N)
  <2>1. Len(calls) > 1 \/ IsRoot(calls[1])
    BY <1>3
  <2> QED BY <1>4, <1>7, <2>1 DEF Fits
<1>11. Goes(p, ts, ret, N)
  BY <1>4, <1>7, <1>8, <1>9, <1>10, Places DEF Goes
<1> QED BY <1>1, <1>2, <1>11, GoesOn

(* A statement is added to the block of the call that waits. *)
LEMMA StatementDoneOK == ParserInv /\ StatementDone => ParserInv'
<1> SUFFICES ASSUME ParserInv, StatementDone PROVE ParserInv'
  OBVIOUS
<1>1. PICK N : Now(N)
  BY DEF ParserInv, CallsOK
<1>2. Stack(calls, N) /\ Made(N) /\ ret \in Kind(Takes(calls[1]), N)
  BY <1>1 DEF Now
<1>3. /\ calls[1] = Head(calls) /\ Len(calls) >= 1 /\ Len(calls) \in Nat
      /\ calls[1].do # "statements" => Len(calls) > 1
  BY <1>2, HeadFacts
<1>4. pstat = "parsing" /\ calls[1].do = "after_statement"
  BY <1>3 DEF StatementDone, At
<1> DEFINE v == Tail(calls)
           b == calls[2]
           nodes == IF ret = NoNode THEN b.nodes ELSE Append(b.nodes, ret)
           c == [b EXCEPT !.nodes = nodes]
           ts == <<c>>
<1>5. calls \in Seq(Frame(N)) /\ Chained(calls) /\ IsRoot(calls[Len(calls)]) /\ Len(calls) > 1
  BY <1>2, <1>3, <1>4 DEF Stack
<1>6. /\ v \in Seq(Frame(N)) /\ v # <<>> /\ Len(v) = Len(calls) - 1
      /\ \A i \in 1..Len(v) : v[i] = calls[i + 1]
  BY <1>5
<1>7. b \in Frame(N) /\ Meets(calls[1], b)
  BY <1>5 DEF Chained
<1>8. b.do = "statements" /\ ret \in Kind("expr", N)
  BY <1>2, <1>4, <1>7 DEF Meets, Takes
<1>9. b.nodes \in Seq(Statement(N)) /\ b.end \in {{"eof"}, {"rbrace", "eof"}}
      /\ b = [do |-> "statements", nodes |-> b.nodes, end |-> b.end]
  BY <1>7, <1>8, FrameFacts
<1>10. nodes \in Seq(Statement(N))
  <2>1. ret # NoNode => ret \in Statement(N)
    BY <1>8 DEF Statement
  <2> QED BY <1>9, <2>1
<1>11. c = Statements(nodes, b.end)
  <2> HIDE DEF nodes
  <2>1. [[do |-> "statements", nodes |-> b.nodes, end |-> b.end] EXCEPT !.nodes = nodes]
        = [do |-> "statements", nodes |-> nodes, end |-> b.end]
    OBVIOUS
  <2> QED BY <1>9, <2>1 DEF Statements
<1>12. p' = next(p) /\ calls' = ts \o Tail(v) /\ items' = items /\ ret' = ret /\ pstat' = pstat
  BY DEF StatementDone
<1> HIDE DEF nodes
<1>13. c \in Frame(N) /\ c.do = "statements" /\ c.end = b.end
  <2>1. Statements(nodes, b.end) \in Frame(N)
    BY <1>9, <1>10, FramesOf
  <2>2. c \in Frame(N)
    BY <1>11, <2>1
  <2>3. c.do = "statements" /\ c.end = b.end
    BY <1>11 DEF Statements
  <2> QED BY <2>2, <2>3
<1> HIDE DEF c
<1>14. /\ ts \in Seq(Frame(N)) /\ ts # <<>> /\ Len(ts) = 1 /\ ts[1] = c /\ Chained(ts)
  BY <1>13, Chains
<1> HIDE DEF ts
<1>15. Len(v) \in Nat /\ Len(v) >= 1 /\ v[1] = b /\ v[Len(v)] = calls[Len(calls)]
  BY <1>5, <1>6
<1>16. Stack(v, N)
  <2>1. ASSUME NEW i \in 1..Len(v) - 1 PROVE Meets(v[i], v[i + 1])
    <3>1. v[i] = calls[i + 1] /\ v[i + 1] = calls[(i + 1) + 1] /\ i + 1 \in 1..Len(calls) - 1
      BY <1>6, <1>15
    <3> QED BY <1>5, <3>1 DEF Chained
  <2> HIDE DEF v
  <2> QED BY <1>5, <1>6, <1>15, <2>1 DEF Stack, Chained
<1> HIDE DEF v
<1>17. Fits(ts, v, N)
  <2>1. Len(v) = 1 => IsRoot(b)
    BY <1>5, <1>15
  <2>2. Len(v) > 1 \/ IsRoot(c)
    <3>1. \A m \in Nat : m >= 1 /\ m # 1 => m > 1
      OBVIOUS
    <3>2. Len(v) = 1 \/ Len(v) > 1
      BY <1>15, <3>1
    <3> QED BY <1>13, <2>1, <3>2 DEF IsRoot
  <2>3. Gives(c) = Gives(b) /\ c.do # "after_statement"
    BY <1>8, <1>13 DEF Gives
  <2> QED BY <1>14, <1>15, <2>2, <2>3 DEF Fits
<1>18. Stack(calls', N) /\ Head(calls') = c
  BY <1>8, <1>12, <1>14, <1>15, <1>16, <1>17, Replace
<1>19. Head(calls') = calls'[1]
  BY <1>18 DEF Stack
<1>20. ret' \in Kind(Takes(calls'[1]), N)
  BY <1>8, <1>12, <1>13, <1>18, <1>19 DEF Kind, Takes
<1>21. Now(N)'
  BY <1>2, <1>18, <1>20 DEF Now
<1>22. PlaceOK'
  BY <1>12, Places DEF ParserInv, PlaceOK
<1> QED BY <1>4, <1>12, <1>21, <1>22 DEF ParserInv, CallsOK

LEMMA BlockFresh ==
  ASSUME NEW N, Made(N), NEW nodes \in Seq(Statement(N))
  PROVE  Fresh(Block(nodes), "block", N)
<1> DEFINE E == {n \in N : n.t # "block"}
           n == Block(nodes)
<1>1. Statement(N) \subseteq E
  BY DEF Statement, Kind
<1>2. nodes \in Seq(E)
  BY <1>1, SeqsGrow
<1>3. \A i \in DOMAIN nodes : nodes[i] # NoNode
  <2>1. \A i \in DOMAIN nodes : nodes[i] \in Statement(N)
    OBVIOUS
  <2> QED BY <2>1 DEF Statement
<1>4. n = [t |-> "block", nodes |-> nodes] /\ n.t = "block" /\ n.nodes = nodes
  BY DEF Block
<1>5. n \in NodesOver(N)
  <2>1. n \in [t : {"block"}, nodes : Seq(E)]
    BY <1>2, <1>4
  <2> QED BY <2>1 DEF NodesOver
<1> QED BY <1>3, <1>4, <1>5 DEF Fresh, Solid, Kind

LEMMA StatementsEndOK == ParserInv /\ StatementsEnd => ParserInv'
<1> SUFFICES ASSUME ParserInv, StatementsEnd PROVE ParserInv'
  OBVIOUS
<1>1. PICK N : Now(N)
  BY DEF ParserInv, CallsOK
<1>2. Stack(calls, N) /\ Made(N)
  BY <1>1 DEF Now
<1>3. calls[1] = Head(calls) /\ calls[1] \in Frame(N) /\ Len(calls) >= 1 /\ Len(calls) \in Nat
  BY <1>2, HeadFacts
<1>4. pstat = "parsing" /\ calls[1].do = "statements"
  BY <1>3 DEF StatementsEnd, At
<1> DEFINE n == Block(calls[1].nodes)
<1>5. Fresh(n, "block", N)
  BY <1>2, <1>3, <1>4, FrameFacts, BlockFresh
<1>6. CASE Len(calls) = 1
  <2>0. PICK M : M = N \cup {n}
    OBVIOUS
  <2>1. ret' = n /\ pstat' = "parsed" /\ items' = items /\ p' = p /\ calls' = calls
    BY <1>3, <1>6 DEF StatementsEnd
  <2>2. Made(M)
    BY <1>2, <1>5, <2>0, Grow DEF Fresh
  <2>3. Seq(Frame(N)) \subseteq Seq(Frame(M))
    BY <2>0, FramesGrow, SeqsGrow
  <2>4. n \in Kind("block", M) /\ n \in M
    BY <1>5, <2>0 DEF Fresh, Kind
  <2>5. Stack(calls', M)
    BY <1>2, <2>1, <2>3 DEF Stack
  <2> HIDE DEF n
  <2>6. ret' \in Kind(Takes(calls'[1]), M)
    BY <1>4, <2>1, <2>4 DEF Takes, Kind
  <2>7. Now(M)'
    BY <2>2, <2>5, <2>6 DEF Now
  <2>8. PlaceOK'
    BY <2>1 DEF ParserInv, PlaceOK
  <2>9. ret' \in Kind("block", M)
    BY <2>1, <2>4
  <2> QED BY <2>1, <2>7, <2>8, <2>9 DEF ParserInv, CallsOK
<1>7. CASE Len(calls) # 1
  <2>0. Len(calls) > 1 /\ calls[1].do # "after_statement"
    <3>1. Len(calls) > 1
      <4>1. \A m \in Nat : m >= 1 /\ m # 1 => m > 1
        OBVIOUS
      <4> QED BY <1>3, <1>7, <4>1
    <3> QED BY <1>4, <3>1
  <2>1. Ready(N)
    BY <1>1, <1>4, <2>0 DEF Ready
  <2>2. CASE Cur("rbrace")
    <3>1. Answer(p, n)
      BY <1>3, <1>7, <2>2 DEF StatementsEnd
    <3>2. Fresh(n, Gives(calls[1]), N)
      BY <1>4, <1>5 DEF Gives
    <3> HIDE DEF n
    <3> QED BY <2>1, <3>1, <3>2, Places, Answered
  <2>3. CASE ~ Cur("rbrace")
    <3>1. exit
      BY <1>7, <2>3 DEF StatementsEnd
    <3> QED BY <3>1, ExitOK
  <2> QED BY <2>2, <2>3
<1> QED BY <1>6, <1>7

LEMMA parse_blockOK == ParserInv /\ parse_block => ParserInv'
<1> SUFFICES ASSUME ParserInv, parse_block PROVE ParserInv'
  OBVIOUS
<1>1. PICK N : Ready(N) /\ calls[1] \in Frame(N) /\ calls[1].do = "parse_block"
               /\ ret \in Kind(Takes(calls[1]), N) /\ Made(N)
  BY Here DEF parse_block
<1> DEFINE c == Statements(<<>>, {"rbrace", "eof"})
<1>2. c \in Frame(N) /\ c.do = "statements"
  <2>1. <<>> \in Seq(Statement(N)) /\ {"rbrace", "eof"} \in {{"eof"}, {"rbrace", "eof"}}
    OBVIOUS
  <2>2. c \in Frame(N)
    BY <2>1, FramesOf
  <2> QED BY <2>2 DEF Statements
<1>3. Do(next(p), <<c>>, ret)
  BY DEF parse_block, Continue
<1> HIDE DEF c
<1>4. ret \in Kind(Takes(c), N)
  BY <1>1, <1>2 DEF Takes, Kind
<1>5. Fresh(ret, Takes(c), N)
  BY <1>1, <1>4, OldIsFresh
<1>6. Gives(c) = Gives(calls[1])
  BY <1>1, <1>2 DEF Gives
<1> QED BY <1>1, <1>2, <1>3, <1>5, <1>6, Places, One

LEMMA parse_statementOK == ParserInv /\ parse_statement => ParserInv'
<1> SUFFICES ASSUME ParserInv, parse_statement PROVE ParserInv'
  OBVIOUS
<1>1. PICK N : Ready(N) /\ calls[1] \in Frame(N) /\ calls[1].do = "parse_statement"
               /\ ret \in Kind(Takes(calls[1]), N) /\ Made(N)
  BY Here DEF parse_statement
<1>2. PICK c \in Frame(N) : c.do \in {"parse_return", "parse_expr"} /\ Do(p, <<c>>, ret)
  <2>1. CASE Cur("return")
    <3>1. Call("parse_return") \in Frame(N) /\ Call("parse_return").do = "parse_return"
      BY FramesOf DEF Simple, Call
    <3> QED BY <2>1, <3>1 DEF parse_statement, Continue
  <2>2. CASE ~ Cur("return")
    <3>1. Expr(lowest) \in Frame(N) /\ Expr(lowest).do = "parse_expr"
      BY FramesOf DEF lowest, Expr
    <3> QED BY <2>2, <3>1 DEF parse_statement, Continue
  <2> QED BY <2>1, <2>2
<1>3. Fresh(ret, Takes(c), N)
  <2>1. ret \in Kind(Takes(c), N)
    BY <1>1, <1>2 DEF Takes, Kind
  <2> QED BY <1>1, <2>1, OldIsFresh
<1>4. Gives(c) = Gives(calls[1])
  BY <1>1, <1>2 DEF Gives
<1> QED BY <1>1, <1>2, <1>3, <1>4, Places, One
(* Every function that takes no node begins with ret at hand. *)
LEMMA parse_returnOK == ParserInv /\ parse_return => ParserInv'
<1> SUFFICES ASSUME ParserInv, parse_return PROVE ParserInv'
  OBVIOUS
<1>1. PICK N : Ready(N) /\ calls[1] \in Frame(N) /\ calls[1].do = "parse_return"
               /\ ret \in Kind(Takes(calls[1]), N) /\ Made(N)
  BY Here DEF parse_return
<1> DEFINE c == Call("returned")
           d == Expr(lowest)
<1>2. c \in Frame(N) /\ c.do = "returned" /\ d \in Frame(N) /\ d.do = "parse_expr"
  BY FramesOf DEF Simple, Call, Expr, lowest
<1>3. CASE next(p).cur.type = "semicolon"
  <2>1. Do(next(p), <<c>>, NullNode)
    BY <1>3 DEF parse_return
  <2> HIDE DEF c
  <2>2. NullNode \in Kind(Takes(c), N)
    BY <1>1, <1>2 DEF Takes, Kind, Made, NullNode
  <2>3. Fresh(NullNode, Takes(c), N) /\ Gives(c) = Gives(calls[1])
    BY <1>1, <1>2, <2>2, OldIsFresh DEF Gives
  <2> QED BY <1>1, <1>2, <2>1, <2>3, Places, One
<1>4. CASE ~ (next(p).cur.type = "semicolon")
  <2>1. Do(next(p), <<d, c>>, ret)
    BY <1>4 DEF parse_return, Continue
  <2> HIDE DEF c, d
  <2>2. ret \in Kind(Takes(d), N)
    BY <1>1, <1>2 DEF Takes, Kind
  <2>3. Fresh(ret, Takes(d), N) /\ Gives(c) = Gives(calls[1]) /\ Meets(d, c)
    BY <1>1, <1>2, <2>2, OldIsFresh DEF Gives, Meets, Takes
  <2> QED BY <1>1, <1>2, <2>1, <2>3, Places, Two
<1> QED BY <1>3, <1>4

(* The nodes that are built of others. *)
LEMMA NodesFresh ==
  ASSUME NEW N, Made(N)
  PROVE  /\ \A val \in Kind("expr", N) : Fresh(Return(val), "expr", N)
         /\ \A name \in STRING : Fresh(Identifier(name), "expr", N)
         /\ \A i \in Int : Fresh(Integer(i), "expr", N)
         /\ \A l, r \in Kind("expr", N) :
              /\ Fresh(Assign(l, r), "expr", N)
              /\ \A op \in OperationTypes : Fresh(Operation(op, l, r), "expr", N)
         /\ \A fn \in Kind("expr", N), args \in Seq(Kind("expr", N)) : Fresh(CallNode(fn, args), "expr", N)
         /\ \A cond \in Kind("expr", N), body \in Kind("block", N), altern \in N :
              Fresh(IfElse(cond, body, altern), "expr", N)
         /\ \A params \in Seq(STRING), body \in Kind("block", N) :
              Fresh(FunctionNode(params, body), "expr", N)
<1>1. Kind("expr", N) = {n \in N : n.t # "block"} /\ Kind("block", N) = {n \in N : n.t = "block"}
  BY DEF Kind
<1> DEFINE A == {n \in N : n.t # "block"}
           B == {n \in N : n.t = "block"}
           SA == Seq(A)
           W == Seq(STRING)
<1>2. \A n \in NodesOver(N) : n.t # "block" => Fresh(n, "expr", N)
  BY DEF Fresh, Solid, Kind
<1>3. /\ [t : {"integer"}, i : Int] \subseteq NodesOver(N)
      /\ [t : {"identifier"}, name : STRING] \subseteq NodesOver(N)
      /\ [t : OperationTypes \cup {"assign"}, l : A, r : A] \subseteq NodesOver(N)
      /\ [t : {"call"}, fn : A, args : SA] \subseteq NodesOver(N)
      /\ [t : {"return"}, val : A] \subseteq NodesOver(N)
      /\ [t : {"ifelse"}, cond : A, body : B, altern : N] \subseteq NodesOver(N)
      /\ [t : {"function"}, params : W, body : B] \subseteq NodesOver(N)
  BY DEF NodesOver
<1> HIDE DEF A, B, SA, W
<1>4. \A val \in A : Fresh(Return(val), "expr", N)
  BY <1>2, <1>3 DEF Return
<1>5. \A name \in STRING : Fresh(Identifier(name), "expr", N)
  BY <1>2, <1>3 DEF Identifier
<1>6. \A i \in Int : Fresh(Integer(i), "expr", N)
  BY <1>2, <1>3 DEF Integer
<1>7. \A l, r \in A :
        /\ Fresh(Assign(l, r), "expr", N)
        /\ \A op \in OperationTypes : Fresh(Operation(op, l, r), "expr", N)
  BY <1>2, <1>3 DEF Assign, Operation, OperationTypes
<1>8. \A fn \in A, args \in SA : Fresh(CallNode(fn, args), "expr", N)
  BY <1>2, <1>3 DEF CallNode
<1>9. \A cond \in A, body \in B, altern \in N : Fresh(IfElse(cond, body, altern), "expr", N)
  BY <1>2, <1>3 DEF IfElse
<1>10. \A params \in W, body \in B : Fresh(FunctionNode(params, body), "expr", N)
  BY <1>2, <1>3 DEF FunctionNode
<1> QED BY <1>1, <1>4, <1>5, <1>6, <1>7, <1>8, <1>9, <1>10 DEF A, B, SA, W

LEMMA parse_return_endOK == ParserInv /\ parse_return_end => ParserInv'
<1> SUFFICES ASSUME ParserInv, parse_return_end PROVE ParserInv'
  OBVIOUS
<1>1. PICK N : Ready(N) /\ calls[1] \in Frame(N) /\ calls[1].do = "returned"
               /\ ret \in Kind(Takes(calls[1]), N) /\ Made(N)
  BY Here DEF parse_return_end
<1>2. ret \in Kind("expr", N) /\ Gives(calls[1]) = "expr"
  BY <1>1 DEF Takes, Gives
<1>3. Answer(SkipSemicolon, Return(ret))
  BY DEF parse_return_end
<1>4. Fresh(Return(ret), Gives(calls[1]), N)
  BY <1>1, <1>2, NodesFresh
<1> QED BY <1>1, <1>3, <1>4, Places, Answered

-----------------------------------------------------------------------------
(***************************************************************************)
(* The expressions.                                                        *)
(***************************************************************************)
LEMMA parse_exprOK == ParserInv /\ parse_expr => ParserInv'
<1> SUFFICES ASSUME ParserInv, parse_expr PROVE ParserInv'
  OBVIOUS
<1>1. PICK N : Ready(N) /\ calls[1] = Head(calls) /\ calls[1] \in Frame(N) /\ calls[1].do = "parse_expr"
               /\ ret \in Kind(Takes(calls[1]), N) /\ Made(N)
  BY Here DEF parse_expr
<1> DEFINE loop == Loop(calls[1].prec)
           group == Call("grouped")
           cif == Call("parse_ifexpr")
           fun == Call("parse_function")
           low == Expr(lowest)
<1>2. \/ Do(p, <<loop>>, parse_identifier)
      \/ Cur("int") /\ Do(p, <<loop>>, parse_integer)
      \/ Do(next(p), <<low, group, loop>>, ret)
      \/ Do(p, <<cif, loop>>, ret)
      \/ Do(p, <<fun, loop>>, ret)
      \/ Answer(p, NoNode)
  BY <1>1, Zenon DEF parse_expr, Continue
<1>3. /\ loop \in Frame(N) /\ loop.do = "infix" /\ low \in Frame(N) /\ low.do = "parse_expr"
      /\ group \in Frame(N) /\ group.do = "grouped" /\ cif \in Frame(N) /\ cif.do = "parse_ifexpr"
      /\ fun \in Frame(N) /\ fun.do = "parse_function"
  <2>1. calls[1].prec \in Int /\ lowest \in Int
    BY <1>1, FrameFacts DEF lowest
  <2>2. loop \in Frame(N) /\ low \in Frame(N)
    BY <2>1, FramesOf
  <2>3. group \in Frame(N) /\ cif \in Frame(N) /\ fun \in Frame(N)
    BY FramesOf DEF Simple
  <2> QED BY <2>2, <2>3 DEF Loop, Expr, Call
<1> HIDE DEF loop, group, cif, fun, low
<1>4. /\ Gives(loop) = Gives(calls[1]) /\ loop.do # "after_statement" /\ Takes(loop) = "expr"
      /\ Gives(calls[1]) = "expr"
      /\ Meets(low, group) /\ Meets(group, loop) /\ Meets(cif, loop) /\ Meets(fun, loop)
      /\ Takes(low) = "any" /\ Takes(cif) = "any" /\ Takes(fun) = "any"
  BY <1>1, <1>3 DEF Gives, Takes, Meets
<1>5. Fresh(ret, "any", N)
  <2>1. ret \in Kind("any", N)
    BY <1>1 DEF Kind
  <2> QED BY <1>1, <2>1, OldIsFresh
<1>6. PlaceOK /\ Place(p) /\ Place(next(p))
  BY Places DEF ParserInv
<1>7. CASE Do(p, <<loop>>, parse_identifier)
  <2>1. Fresh(parse_identifier, "expr", N)
    BY <1>1, <1>6, CurFacts, NodesFresh DEF parse_identifier
  <2> QED BY <1>1, <1>3, <1>4, <1>6, <1>7, <2>1, One
<1>8. CASE Cur("int") /\ Do(p, <<loop>>, parse_integer)
  <2>1. Fresh(parse_integer, "expr", N)
    BY <1>1, <1>6, <1>8, CurFacts, NodesFresh DEF parse_integer
  <2> QED BY <1>1, <1>3, <1>4, <1>6, <1>8, <2>1, One
<1>9. CASE Do(next(p), <<low, group, loop>>, ret)
  BY <1>1, <1>3, <1>4, <1>5, <1>6, <1>9, Three
<1>10. CASE Do(p, <<cif, loop>>, ret)
  BY <1>1, <1>3, <1>4, <1>5, <1>6, <1>10, Two
<1>11. CASE Do(p, <<fun, loop>>, ret)
  BY <1>1, <1>3, <1>4, <1>5, <1>6, <1>11, Two
<1>12. CASE Answer(p, NoNode)
  <2>1. NoNode \in Kind("expr", N)
    BY <1>1 DEF Made, Kind, NoNode
  <2>2. Fresh(NoNode, Gives(calls[1]), N)
    BY <1>1, <1>4, <2>1, OldIsFresh
  <2> QED BY <1>1, <1>6, <1>12, <2>2, Answered
<1> QED BY <1>2, <1>7, <1>8, <1>9, <1>10, <1>11, <1>12

(* What stands before an operator of two operands is at hand. *)
LEMMA infixOK == ParserInv /\ infix => ParserInv'
<1> SUFFICES ASSUME ParserInv, infix PROVE ParserInv'
  OBVIOUS
<1>1. PICK N : Ready(N) /\ calls[1] = Head(calls) /\ calls[1] \in Frame(N) /\ calls[1].do = "infix"
               /\ ret \in Kind(Takes(calls[1]), N) /\ Made(N)
  BY Here DEF infix
<1> DEFINE op == p.peek.type
           q  == next(p)
           prec == IF op = "assign" THEN lowest ELSE get_precedence(op)
           low == Expr(prec)
           right == Right(op, ret)
           args == Args(ret, <<>>)
<1>2. \/ op \in DOMAIN BinaryNode \cup {"assign"} /\ Do(next(q), <<low, right, calls[1]>>, ret)
      \/ Do(q, <<args, calls[1]>>, ret)
  <2>1. op \in DOMAIN BinaryNode \cup {"assign", "lparen"}
    BY DEF infix, Binds, Infix
  <2>2. CASE op = "assign"
    <3>1. Do(next(q), <<low, right, calls[1]>>, ret)
      BY <1>1, <2>2 DEF infix, Continue
    <3> QED BY <2>2, <3>1
  <2>3. CASE op = "lparen"
    BY <1>1, <2>3 DEF infix, Continue
  <2>4. CASE op # "assign" /\ op # "lparen"
    <3>1. Do(next(q), <<low, right, calls[1]>>, ret)
      BY <1>1, <2>4, Zenon DEF infix, Continue
    <3> QED BY <2>1, <2>4, <3>1
  <2> QED BY <2>2, <2>3, <2>4
<1>3. ret \in Kind("expr", N) /\ ret \in Kind("any", N)
  BY <1>1 DEF Takes, Kind
<1>4. Fresh(ret, "any", N)
  BY <1>1, <1>3, OldIsFresh
<1>5. prec \in Int
  BY DEF get_precedence, Precedence, lowest
<1>6. low \in Frame(N) /\ low.do = "parse_expr" /\ args \in Frame(N) /\ args.do = "args"
  <2>1. low \in Frame(N) /\ args \in Frame(N)
    <3>1. <<>> \in Seq(Kind("expr", N))
      OBVIOUS
    <3> HIDE DEF prec
    <3> QED BY <1>3, <1>5, <3>1, FramesOf
  <2> QED BY <2>1 DEF Expr, Args
<1>7. Gives(calls[1]) = "expr" /\ Takes(calls[1]) = "expr" /\ calls[1].do # "after_statement"
  BY <1>1 DEF Gives, Takes
<1>8. Place(q) /\ Place(next(q))
  BY Places
<1>9. CASE op \in DOMAIN BinaryNode \cup {"assign"} /\ Do(next(q), <<low, right, calls[1]>>, ret)
  <2>1. right \in Frame(N) /\ right.do = "right"
    <3>1. right \in Frame(N)
      BY <1>3, <1>9, FramesOf
    <3> QED BY <3>1 DEF Right
  <2> HIDE DEF op, prec, low, right, q
  <2>2. Meets(low, right) /\ Meets(right, calls[1]) /\ Takes(low) = "any"
    BY <1>1, <1>6, <2>1 DEF Meets, Takes, Gives
  <2> QED BY <1>1, <1>4, <1>6, <1>7, <1>8, <1>9, <2>1, <2>2, Three
<1>10. CASE Do(q, <<args, calls[1]>>, ret)
  <2> HIDE DEF args, q
  <2>1. Meets(args, calls[1]) /\ Takes(args) = "any"
    BY <1>1, <1>6 DEF Meets, Takes, Gives
  <2> QED BY <1>1, <1>4, <1>6, <1>7, <1>8, <1>10, <2>1, Two
<1> QED BY <1>2, <1>9, <1>10

LEMMA parse_expr_endOK == ParserInv /\ parse_expr_end => ParserInv'
<1> SUFFICES ASSUME ParserInv, parse_expr_end PROVE ParserInv'
  OBVIOUS
<1>1. PICK N : Ready(N) /\ calls[1] \in Frame(N) /\ calls[1].do = "infix"
               /\ ret \in Kind(Takes(calls[1]), N) /\ Made(N)
  BY Here DEF parse_expr_end
<1>2. ret \in Kind(Gives(calls[1]), N)
  BY <1>1 DEF Takes, Gives
<1>3. Answer(SkipSemicolon, ret)
  BY DEF parse_expr_end
<1>4. Fresh(ret, Gives(calls[1]), N)
  BY <1>1, <1>2, OldIsFresh
<1> QED BY <1>1, <1>3, <1>4, Places, Answered

LEMMA BuildOperationOK == ParserInv /\ BuildOperation => ParserInv'
<1> SUFFICES ASSUME ParserInv, BuildOperation PROVE ParserInv'
  OBVIOUS
<1>1. PICK N : Ready(N) /\ calls[1] = Head(calls) /\ calls[1] \in Frame(N) /\ calls[1].do = "right"
               /\ ret \in Kind(Takes(calls[1]), N) /\ Made(N)
  BY Here DEF BuildOperation
<1> DEFINE f == calls[1]
           n == IF f.op = "assign" THEN Assign(f.left, ret)
                ELSE Operation(BinaryNode[f.op], f.left, ret)
<1>2. Answer(p, n)
  BY <1>1 DEF BuildOperation
<1>3. f.op \in DOMAIN BinaryNode \cup {"assign"} /\ f.left \in Kind("expr", N)
      /\ ret \in Kind("expr", N) /\ Gives(f) = "expr"
  BY <1>1, FrameFacts DEF Takes, Gives
<1>4. f.op # "assign" => BinaryNode[f.op] \in OperationTypes
  BY <1>3 DEF BinaryNode, OperationTypes
<1>5. Fresh(n, Gives(f), N)
  BY <1>1, <1>3, <1>4, NodesFresh
<1> HIDE DEF n
<1> QED BY <1>1, <1>2, <1>5, Places, Answered

LEMMA parse_grouped_exprOK == ParserInv /\ parse_grouped_expr => ParserInv'
<1> SUFFICES ASSUME ParserInv, parse_grouped_expr PROVE ParserInv'
  OBVIOUS
<1>1. PICK N : Ready(N) /\ calls[1] \in Frame(N) /\ calls[1].do = "grouped"
               /\ ret \in Kind(Takes(calls[1]), N) /\ Made(N)
  BY Here DEF parse_grouped_expr
<1>2. exit \/ Answer(next(p), ret)
  BY DEF parse_grouped_expr, Expect
<1>3. ret \in Kind(Gives(calls[1]), N)
  BY <1>1 DEF Takes, Gives
<1>4. Fresh(ret, Gives(calls[1]), N)
  BY <1>1, <1>3, OldIsFresh
<1> QED BY <1>1, <1>2, <1>4, Places, Answered, ExitOK
LEMMA parse_callOK == ParserInv /\ parse_call => ParserInv'
<1> SUFFICES ASSUME ParserInv, parse_call PROVE ParserInv'
  OBVIOUS
<1>1. PICK N : Ready(N) /\ calls[1] = Head(calls) /\ calls[1] \in Frame(N) /\ calls[1].do = "args"
               /\ ret \in Kind(Takes(calls[1]), N) /\ Made(N)
  BY Here DEF parse_call
<1> DEFINE f == calls[1]
           n == CallNode(f.fn, <<>>)
           low == Expr(lowest)
           arg == [f EXCEPT !.do = "arg"]
<1>2. Answer(next(p), n) \/ Do(next(p), <<low, arg>>, ret)
  BY <1>1 DEF parse_call, Continue
<1>3. f.fn \in Kind("expr", N) /\ f.args \in Seq(Kind("expr", N))
      /\ f = [do |-> "args", fn |-> f.fn, args |-> f.args] /\ Gives(f) = "expr"
  BY <1>1, FrameFacts DEF Gives
<1>4. low \in Frame(N) /\ low.do = "parse_expr" /\ arg \in Frame(N) /\ arg.do = "arg"
  <2>1. arg = [do |-> "arg", fn |-> f.fn, args |-> f.args]
    BY <1>3
  <2>2. lowest \in Int
    BY DEF lowest
  <2> HIDE DEF arg
  <2>3. low \in Frame(N) /\ arg \in Frame(N)
    BY <1>3, <2>1, <2>2, FramesOf
  <2> QED BY <2>1, <2>3 DEF Expr
<1>5. Fresh(n, Gives(f), N)
  <2>1. <<>> \in Seq(Kind("expr", N))
    OBVIOUS
  <2> QED BY <1>1, <1>3, <2>1, NodesFresh
<1> HIDE DEF n, low, arg
<1>6. Meets(low, arg) /\ Gives(arg) = Gives(f) /\ arg.do # "after_statement"
  BY <1>3, <1>4 DEF Meets, Takes, Gives
<1>7. Fresh(ret, Takes(low), N)
  <2>1. ret \in Kind(Takes(low), N)
    BY <1>1, <1>4 DEF Takes, Kind
  <2> QED BY <1>1, <2>1, OldIsFresh
<1> QED BY <1>1, <1>2, <1>4, <1>5, <1>6, <1>7, Places, Answered, Two

LEMMA parse_node_sequenceOK == ParserInv /\ parse_node_sequence => ParserInv'
<1> SUFFICES ASSUME ParserInv, parse_node_sequence PROVE ParserInv'
  OBVIOUS
<1>1. PICK N : Ready(N) /\ calls[1] = Head(calls) /\ calls[1] \in Frame(N) /\ calls[1].do = "arg"
               /\ ret \in Kind(Takes(calls[1]), N) /\ Made(N)
  BY Here DEF parse_node_sequence
<1> DEFINE f == calls[1]
           more == Append(f.args, ret)
           n == CallNode(f.fn, more)
           low == Expr(lowest)
           arg == [f EXCEPT !.args = more]
<1>2. Answer(next(p), n) \/ exit \/ Do(next(next(p)), <<low, arg>>, ret)
  BY <1>1 DEF parse_node_sequence, Continue, Expect
<1>3. f.fn \in Kind("expr", N) /\ f.args \in Seq(Kind("expr", N)) /\ ret \in Kind("expr", N)
      /\ f = [do |-> "arg", fn |-> f.fn, args |-> f.args] /\ Gives(f) = "expr"
  BY <1>1, FrameFacts DEF Gives, Takes
<1>4. more \in Seq(Kind("expr", N))
  BY <1>3
<1>5. low \in Frame(N) /\ low.do = "parse_expr" /\ arg \in Frame(N) /\ arg.do = "arg"
  <2> HIDE DEF more
  <2>1. arg = [do |-> "arg", fn |-> f.fn, args |-> more]
    BY <1>3
  <2>2. lowest \in Int
    BY DEF lowest
  <2> HIDE DEF arg
  <2>3. low \in Frame(N) /\ arg \in Frame(N)
    BY <1>3, <1>4, <2>1, <2>2, FramesOf
  <2> QED BY <2>1, <2>3 DEF Expr
<1> HIDE DEF more
<1>6. Fresh(n, Gives(f), N)
  BY <1>1, <1>3, <1>4, NodesFresh
<1> HIDE DEF n, low, arg
<1>7. Meets(low, arg) /\ Gives(arg) = Gives(f) /\ arg.do # "after_statement"
  BY <1>3, <1>5 DEF Meets, Takes, Gives
<1>8. Fresh(ret, Takes(low), N)
  <2>1. ret \in Kind(Takes(low), N)
    BY <1>3, <1>5 DEF Takes, Kind
  <2> QED BY <1>1, <2>1, OldIsFresh
<1> QED BY <1>1, <1>2, <1>5, <1>6, <1>7, <1>8, Places, Answered, Two, ExitOK

-----------------------------------------------------------------------------
(***************************************************************************)
(* if and function.                                                        *)
(***************************************************************************)
LEMMA parse_ifexprOK == ParserInv /\ parse_ifexpr => ParserInv'
<1> SUFFICES ASSUME ParserInv, parse_ifexpr PROVE ParserInv'
  OBVIOUS
<1>1. PICK N : Ready(N) /\ calls[1] \in Frame(N) /\ calls[1].do = "parse_ifexpr"
               /\ ret \in Kind(Takes(calls[1]), N) /\ Made(N)
  BY Here DEF parse_ifexpr
<1> DEFINE low == Expr(lowest)
           cond == Call("cond")
<1>2. Do(next(p), <<low, cond>>, ret)
  BY DEF parse_ifexpr, Continue
<1>3. low \in Frame(N) /\ low.do = "parse_expr" /\ cond \in Frame(N) /\ cond.do = "cond"
  BY FramesOf DEF Simple, Call, Expr, lowest
<1> HIDE DEF low, cond
<1>4. Meets(low, cond) /\ Gives(cond) = Gives(calls[1]) /\ cond.do # "after_statement"
  BY <1>1, <1>3 DEF Meets, Takes, Gives
<1>5. Fresh(ret, Takes(low), N)
  <2>1. ret \in Kind(Takes(low), N)
    BY <1>1, <1>3 DEF Takes, Kind
  <2> QED BY <1>1, <2>1, OldIsFresh
<1> QED BY <1>1, <1>2, <1>3, <1>4, <1>5, Places, Two

LEMMA parse_ifexpr_condOK == ParserInv /\ parse_ifexpr_cond => ParserInv'
<1> SUFFICES ASSUME ParserInv, parse_ifexpr_cond PROVE ParserInv'
  OBVIOUS
<1>1. PICK N : Ready(N) /\ calls[1] \in Frame(N) /\ calls[1].do = "cond"
               /\ ret \in Kind(Takes(calls[1]), N) /\ Made(N)
  BY Here DEF parse_ifexpr_cond
<1> DEFINE block == Call("parse_block")
           body == Body(ret)
<1>2. exit \/ Do(next(p), <<block, body>>, ret)
  BY DEF parse_ifexpr_cond, Continue, Expect
<1>3. ret \in Kind("expr", N)
  BY <1>1 DEF Takes
<1>4. block \in Frame(N) /\ block.do = "parse_block" /\ body \in Frame(N) /\ body.do = "body"
  BY <1>3, FramesOf DEF Simple, Call, Body
<1> HIDE DEF block, body
<1>5. Meets(block, body) /\ Gives(body) = Gives(calls[1]) /\ body.do # "after_statement"
  BY <1>1, <1>4 DEF Meets, Takes, Gives
<1>6. Fresh(ret, Takes(block), N)
  <2>1. ret \in Kind(Takes(block), N)
    BY <1>3, <1>4 DEF Takes, Kind
  <2> QED BY <1>1, <2>1, OldIsFresh
<1> QED BY <1>1, <1>2, <1>4, <1>5, <1>6, Places, Two, ExitOK

(* The branches are blocks, or the alternative another if. *)
LEMMA parse_ifexpr_bodyOK == ParserInv /\ parse_ifexpr_body => ParserInv'
<1> SUFFICES ASSUME ParserInv, parse_ifexpr_body PROVE ParserInv'
  OBVIOUS
<1>1. PICK N : Ready(N) /\ calls[1] = Head(calls) /\ calls[1] \in Frame(N) /\ calls[1].do = "body"
               /\ ret \in Kind(Takes(calls[1]), N) /\ Made(N)
  BY Here DEF parse_ifexpr_body
<1> DEFINE f == calls[1]
           altern == Altern(f.cond, ret)
           n == IfElse(f.cond, ret, NoNode)
           cif == Call("parse_ifexpr")
           block == Call("parse_block")
<1>2. \/ exit \/ Answer(p, n)
      \/ Do(next(next(p)), <<cif, altern>>, ret) \/ Do(next(next(p)), <<block, altern>>, ret)
  BY <1>1 DEF parse_ifexpr_body, Continue
<1>3. f.cond \in Kind("expr", N) /\ ret \in Kind("block", N) /\ Gives(f) = "expr" /\ NoNode \in N
  BY <1>1, FrameFacts DEF Gives, Takes, Made
<1>4. Fresh(n, Gives(f), N)
  BY <1>1, <1>3, NodesFresh
<1>5. altern \in Frame(N) /\ altern.do = "altern" /\ cif \in Frame(N) /\ cif.do = "parse_ifexpr"
      /\ block \in Frame(N) /\ block.do = "parse_block"
  <2>1. altern \in Frame(N) /\ cif \in Frame(N) /\ block \in Frame(N)
    BY <1>3, FramesOf DEF Simple
  <2> QED BY <2>1 DEF Call, Altern
<1> HIDE DEF n, altern, cif, block
<1>6. /\ Meets(cif, altern) /\ Meets(block, altern) /\ Gives(altern) = Gives(f)
      /\ altern.do # "after_statement" /\ Takes(cif) = "any" /\ Takes(block) = "any"
  BY <1>3, <1>5 DEF Meets, Takes, Gives
<1>7. Fresh(ret, "any", N)
  <2>1. ret \in Kind("any", N)
    BY <1>3 DEF Kind
  <2> QED BY <1>1, <2>1, OldIsFresh
<1> QED BY <1>1, <1>2, <1>4, <1>5, <1>6, <1>7, Places, Answered, Two, ExitOK

LEMMA parse_ifexpr_endOK == ParserInv /\ parse_ifexpr_end => ParserInv'
<1> SUFFICES ASSUME ParserInv, parse_ifexpr_end PROVE ParserInv'
  OBVIOUS
<1>1. PICK N : Ready(N) /\ calls[1] = Head(calls) /\ calls[1] \in Frame(N) /\ calls[1].do = "altern"
               /\ ret \in Kind(Takes(calls[1]), N) /\ Made(N)
  BY Here DEF parse_ifexpr_end
<1> DEFINE f == calls[1]
           n == IfElse(f.cond, f.body, ret)
<1>2. Answer(p, n)
  BY <1>1 DEF parse_ifexpr_end
<1>3. f.cond \in Kind("expr", N) /\ f.body \in Kind("block", N) /\ ret \in N /\ Gives(f) = "expr"
  BY <1>1, FrameFacts DEF Gives, Kind
<1>4. Fresh(n, Gives(f), N)
  BY <1>1, <1>3, NodesFresh
<1> HIDE DEF n
<1> QED BY <1>1, <1>2, <1>4, Places, Answered

LEMMA ParamFrames ==
  ASSUME NEW N, NEW w \in Seq(STRING)
  PROVE  LET c == [do |-> "params", params |-> w]
             d == FunctionBody(w)
         IN /\ c \in Frame(N) /\ d \in Frame(N) /\ Gives(c) = "expr" /\ Gives(d) = "expr"
            /\ Takes(c) = "any" /\ Takes(d) = "any"
            /\ c.do # "after_statement" /\ d.do # "after_statement"
<1> DEFINE c == [do |-> "params", params |-> w]
           d == FunctionBody(w)
<1>1. c \in Frame(N) /\ d \in Frame(N)
  BY FramesOf
<1>2. c.do = "params" /\ d.do = "function"
  BY DEF FunctionBody
<1> HIDE DEF c, d
<1>3. /\ Gives(c) = "expr" /\ Gives(d) = "expr" /\ Takes(c) = "any" /\ Takes(d) = "any"
      /\ c.do # "after_statement" /\ d.do # "after_statement"
  BY <1>2 DEF Gives, Takes
<1> QED BY <1>1, <1>3 DEF c, d

LEMMA parse_functionOK == ParserInv /\ parse_function => ParserInv'
<1> SUFFICES ASSUME ParserInv, parse_function PROVE ParserInv'
  OBVIOUS
<1>1. PICK N : Ready(N) /\ calls[1] \in Frame(N) /\ calls[1].do = "parse_function"
               /\ ret \in Kind(Takes(calls[1]), N) /\ Made(N)
  BY Here DEF parse_function
<1> DEFINE c == [do |-> "params", params |-> <<>>]
           d == FunctionBody(<<>>)
<1>2. exit \/ Do(next(next(p)), <<d>>, ret) \/ Do(next(next(p)), <<c>>, ret)
  BY DEF parse_function, Continue, Expect
<1>3. /\ c \in Frame(N) /\ d \in Frame(N) /\ Gives(c) = "expr" /\ Gives(d) = "expr"
      /\ Takes(c) = "any" /\ Takes(d) = "any"
      /\ c.do # "after_statement" /\ d.do # "after_statement"
  <2>1. <<>> \in Seq(STRING)
    OBVIOUS
  <2> QED BY <2>1, ParamFrames
<1> HIDE DEF c, d
<1>4. Gives(calls[1]) = "expr"
  BY <1>1 DEF Gives
<1>5. Fresh(ret, "any", N)
  <2>1. ret \in Kind("any", N)
    BY <1>1 DEF Kind
  <2> QED BY <1>1, <2>1, OldIsFresh
<1> QED BY <1>1, <1>2, <1>3, <1>4, <1>5, Places, One, ExitOK

LEMMA parse_function_paramsOK == ParserInv /\ parse_function_params => ParserInv'
<1> SUFFICES ASSUME ParserInv, parse_function_params PROVE ParserInv'
  OBVIOUS
<1>1. PICK N : Ready(N) /\ calls[1] = Head(calls) /\ calls[1] \in Frame(N) /\ calls[1].do = "params"
               /\ ret \in Kind(Takes(calls[1]), N) /\ Made(N)
  BY Here DEF parse_function_params
<1> DEFINE w == Append(calls[1].params, p.cur.lit)
           c == [do |-> "params", params |-> w]
           d == FunctionBody(w)
<1>2. exit \/ Do(next(next(p)), <<c>>, ret) \/ Do(next(p), <<d>>, ret)
  BY <1>1 DEF parse_function_params, Continue, Expect
<1>3. w \in Seq(STRING)
  <2>1. calls[1].params \in Seq(STRING)
    BY <1>1, FrameFacts
  <2>2. p.cur.lit \in STRING
    BY CurFacts DEF ParserInv
  <2> QED BY <2>1, <2>2
<1> HIDE DEF w
<1>4. /\ c \in Frame(N) /\ d \in Frame(N) /\ Gives(c) = "expr" /\ Gives(d) = "expr"
      /\ Takes(c) = "any" /\ Takes(d) = "any"
      /\ c.do # "after_statement" /\ d.do # "after_statement"
  BY <1>3, ParamFrames
<1> HIDE DEF c, d
<1>5. Gives(calls[1]) = "expr"
  BY <1>1 DEF Gives
<1>6. Fresh(ret, "any", N)
  <2>1. ret \in Kind("any", N)
    BY <1>1 DEF Kind
  <2> QED BY <1>1, <2>1, OldIsFresh
<1> QED BY <1>1, <1>2, <1>4, <1>5, <1>6, Places, One, ExitOK

LEMMA parse_function_bodyOK == ParserInv /\ parse_function_body => ParserInv'
<1> SUFFICES ASSUME ParserInv, parse_function_body PROVE ParserInv'
  OBVIOUS
<1>1. PICK N : Ready(N) /\ calls[1] = Head(calls) /\ calls[1] \in Frame(N) /\ calls[1].do = "function"
               /\ ret \in Kind(Takes(calls[1]), N) /\ Made(N)
  BY Here DEF parse_function_body
<1> DEFINE f == calls[1]
           block == Call("parse_block")
           end == [f EXCEPT !.do = "function_end"]
<1>2. exit \/ Do(next(p), <<block, end>>, ret)
  BY <1>1 DEF parse_function_body, Continue, Expect
<1>3. f.params \in Seq(STRING) /\ f = [do |-> "function", params |-> f.params]
  BY <1>1, FrameFacts
<1>4. block \in Frame(N) /\ block.do = "parse_block" /\ end \in Frame(N) /\ end.do = "function_end"
  <2>1. end = [do |-> "function_end", params |-> f.params]
    BY <1>3
  <2> HIDE DEF end
  <2>2. end \in Frame(N) /\ block \in Frame(N)
    BY <1>3, <2>1, FramesOf DEF Simple
  <2> QED BY <2>1, <2>2 DEF Call
<1> HIDE DEF block, end
<1>5. Meets(block, end) /\ Gives(end) = Gives(f) /\ end.do # "after_statement" /\ Takes(block) = "any"
  BY <1>1, <1>4 DEF Meets, Takes, Gives
<1>6. Fresh(ret, "any", N)
  <2>1. ret \in Kind("any", N)
    BY <1>1 DEF Kind
  <2> QED BY <1>1, <2>1, OldIsFresh
<1> QED BY <1>1, <1>2, <1>4, <1>5, <1>6, Places, Two, ExitOK

LEMMA parse_function_endOK == ParserInv /\ parse_function_end => ParserInv'
<1> SUFFICES ASSUME ParserInv, parse_function_end PROVE ParserInv'
  OBVIOUS
<1>1. PICK N : Ready(N) /\ calls[1] = Head(calls) /\ calls[1] \in Frame(N)
               /\ calls[1].do = "function_end"
               /\ ret \in Kind(Takes(calls[1]), N) /\ Made(N)
  BY Here DEF parse_function_end
<1> DEFINE n == FunctionNode(calls[1].params, ret)
<1>2. Answer(p, n)
  BY <1>1 DEF parse_function_end
<1>3. calls[1].params \in Seq(STRING) /\ ret \in Kind("block", N) /\ Gives(calls[1]) = "expr"
  BY <1>1, FrameFacts DEF Takes, Gives
<1>4. Fresh(n, Gives(calls[1]), N)
  BY <1>1, <1>3, NodesFresh
<1> HIDE DEF n
<1> QED BY <1>1, <1>2, <1>4, Places, Answered

-----------------------------------------------------------------------------
(***************************************************************************)
(* The runs.                                                               *)
(***************************************************************************)
(* parse on items that begin anyhow. *)
LEMMA BeginOK ==
  ASSUME PlaceOK, calls = CallParse, ret = NoNode, pstat = "parsing"
  PROVE  ParserInv
<1> DEFINE N == {NoNode, NullNode}
           c == Statements(<<>>, {"eof"})
<1>1. calls = <<c>>
  BY DEF CallParse
<1>2. Made(N)
  <2>1. \A U : N \subseteq NodesOver(U)
    BY DEF NodesOver
  <2>2. NoNode.t = "NULL" /\ NullNode.t = "null"
    BY DEF NoNode, NullNode
  <2>3. \A n \in N : Solid(n)
    BY <2>2 DEF Solid
  <2> QED BY <2>1, <2>3 DEF Made
<1>3. c \in Frame(N) /\ c.do = "statements" /\ c.end = {"eof"}
  <2>1. <<>> \in Seq(Statement(N)) /\ {"eof"} \in {{"eof"}, {"rbrace", "eof"}}
    OBVIOUS
  <2>2. c \in Frame(N)
    BY <2>1, FramesOf
  <2> QED BY <2>2 DEF Statements
<1> HIDE DEF c
<1>4. Stack(calls, N)
  <2>1. calls \in Seq(Frame(N)) /\ calls # <<>> /\ Len(calls) = 1 /\ calls[1] = c
    BY <1>1, <1>3
  <2>2. Chained(calls)
    BY <1>1, Chains
  <2> QED BY <1>3, <2>1, <2>2 DEF Stack, IsRoot
<1>5. ret \in Kind(Takes(calls[1]), N)
  <2>1. Takes(calls[1]) = "any"
    BY <1>1, <1>3 DEF Takes
  <2> QED BY <1>1, <2>1 DEF Kind
<1> HIDE DEF N
<1>6. Now(N)
  BY <1>2, <1>4, <1>5 DEF Now
<1> QED BY <1>6 DEF ParserInv, CallsOK

LEMMA FirstPlace == ASSUME items \in Seq(Good), items # <<>> PROVE Place(new_parser) /\ Beside(new_parser)
<1>1. Len(items) \in Nat /\ Len(items) >= 1
  OBVIOUS
<1>2. items[1] \in Good /\ items[IF Len(items) > 1 THEN 2 ELSE 1] \in Good
  BY <1>1, ItemFacts
<1> QED BY <1>1, <1>2 DEF Place, Beside, new_parser

LEMMA InputFacts == ASSUME items \in Inputs PROVE items \in Seq(Good) /\ items # <<>>
<1>1. /\ items \in Seq(ItemType) /\ items # <<>>
      /\ \A k \in DOMAIN items : items[k].type = "int" => strtol[items[k].lit] \in Int
  BY ParserAssumption DEF ItemType
<1>2. \A k \in DOMAIN items : items[k] \in Good
  BY <1>1 DEF Good
<1>3. DOMAIN items = 1..Len(items) /\ Len(items) \in Nat
  BY <1>1
<1> HIDE DEF Good
<1>4. items = [k \in 1..Len(items) |-> items[k]]
  BY <1>1
<1> QED BY <1>1, <1>2, <1>3, <1>4

LEMMA InitOK == ParserInit => ParserInv /\ InOrder
<1> SUFFICES ASSUME ParserInit PROVE ParserInv /\ InOrder
  OBVIOUS
<1>1. items \in Seq(Good) /\ items # <<>> /\ p = new_parser
  BY InputFacts DEF ParserInit
<1>2. PlaceOK /\ InOrder
  BY <1>1, FirstPlace DEF PlaceOK, InOrder
<1>3. ParserInv
  BY <1>2, BeginOK DEF ParserInit
<1> QED BY <1>2, <1>3

LEMMA NextOK == ParserInv /\ [parse]_parserVars => ParserInv'
<1> SUFFICES ASSUME ParserInv, [parse]_parserVars PROVE ParserInv'
  OBVIOUS
<1>1. CASE UNCHANGED parserVars
  <2>1. items' = items /\ p' = p /\ calls' = calls /\ ret' = ret /\ pstat' = pstat
    BY <1>1 DEF parserVars
  <2> QED BY <2>1 DEF ParserInv, PlaceOK, Place, CallsOK, Now
<1>2. CASE parse
  BY <1>2, MoreStatementsOK, StatementDoneOK, StatementsEndOK, parse_blockOK, parse_statementOK,
     parse_returnOK, parse_return_endOK, parse_exprOK, infixOK, parse_expr_endOK, BuildOperationOK,
     parse_grouped_exprOK, parse_callOK, parse_node_sequenceOK, parse_ifexprOK, parse_ifexpr_condOK,
     parse_ifexpr_bodyOK, parse_ifexpr_endOK, parse_functionOK, parse_function_paramsOK,
     parse_function_bodyOK, parse_function_endOK DEF parse
<1> QED BY <1>1, <1>2

(* p moves on over the items. *)
LEMMA Moves ==
  ASSUME parse
  PROVE  /\ items' = items
         /\ p' = p \/ p' = next(p) \/ p' = next(next(p)) \/ p' = SkipSemicolon
<1> USE DEF Continue, Do, Answer, Expect, exit
<1>1. ASSUME \/ MoreStatements \/ StatementDone \/ StatementsEnd \/ parse_block
             \/ parse_statement \/ parse_return_end \/ parse_expr
      PROVE  items' = items /\ (p' = p \/ p' = next(p) \/ p' = next(next(p)) \/ p' = SkipSemicolon)
  BY <1>1 DEF MoreStatements, StatementDone, StatementsEnd, parse_block, parse_statement,
              parse_return_end, parse_expr
<1>2. ASSUME \/ parse_return \/ infix \/ parse_expr_end \/ BuildOperation
             \/ parse_grouped_expr \/ parse_call \/ parse_node_sequence
      PROVE  items' = items /\ (p' = p \/ p' = next(p) \/ p' = next(next(p)) \/ p' = SkipSemicolon)
  BY <1>2 DEF parse_return, infix, parse_expr_end, BuildOperation, parse_grouped_expr,
              parse_call, parse_node_sequence
<1>3. ASSUME \/ parse_ifexpr \/ parse_ifexpr_cond \/ parse_ifexpr_body \/ parse_ifexpr_end
             \/ parse_function \/ parse_function_params \/ parse_function_body
             \/ parse_function_end
      PROVE  items' = items /\ (p' = p \/ p' = next(p) \/ p' = next(next(p)) \/ p' = SkipSemicolon)
  BY <1>3 DEF parse_ifexpr, parse_ifexpr_cond, parse_ifexpr_body, parse_ifexpr_end,
              parse_function, parse_function_params, parse_function_body, parse_function_end
<1> QED BY <1>1, <1>2, <1>3 DEF parse

LEMMA OrderKept == ASSUME ParserInv, InOrder, [parse]_parserVars PROVE InOrder'
<1>1. items' = items /\ Beside(p) /\ items # <<>> /\ items \in Seq(Good) /\ Place(p)
  BY Moves DEF InOrder, ParserInv, PlaceOK, parserVars
<1>2. Place(next(p)) /\ Beside(next(p)) /\ Beside(next(next(p))) /\ Beside(SkipSemicolon)
  BY <1>1, NextPlace, NextBeside DEF SkipSemicolon
<1>3. Beside(p')
  BY <1>1, <1>2, Moves DEF parserVars
<1> QED BY <1>1, <1>3 DEF InOrder, Beside

LEMMA Invariant == ParserSpec => [](ParserInv /\ InOrder)
<1>1. ParserInv /\ InOrder /\ [parse]_parserVars => (ParserInv /\ InOrder)'
  BY NextOK, OrderKept
<1> QED BY <1>1, InitOK, PTL DEF ParserSpec

LEMMA TypeFollows == ParserInv /\ InOrder => ParserTypeOK
<1> SUFFICES ASSUME ParserInv, InOrder PROVE ParserTypeOK
  OBVIOUS
<1>1. PICK N : Now(N)
  BY DEF ParserInv, CallsOK
<1>2. calls # <<>> /\ IsRoot(calls[Len(calls)])
  BY <1>1 DEF Now, Stack
<1> QED BY <1>2 DEF ParserInv, InOrder, Beside, ParserTypeOK, IsRoot

(* cur and peek stay neighbours among the items and within them, however   *)
(* far the functions of the parser read on, and the call of parse is never *)
(* returned from but at the end.                                           *)
THEOREM ParserTyped == ParserSpec => []ParserTypeOK
BY Invariant, TypeFollows, PTL

(* What parse returns is a block of nodes made of nodes: every part is one *)
(* the compiler has a case for, a branch of an if and the body of a        *)
(* function are blocks, and no block holds the NULL of an expression that  *)
(* is not there.  It is in any set that is closed under building nodes.    *)
Parses ==
  pstat = "parsed" =>
    /\ ret.t = "block"
    /\ \E N : N \subseteq NodesOver(N) /\ ret \in N /\ \A n \in N : Solid(n)
    /\ \A U : NodesOver(U) \subseteq U => ret \in U

LEMMA ParsesFollows == ParserInv => Parses
BY DEF ParserInv, CallsOK, Now, Made, Kind, Parses

THEOREM TreesAreWhole == ParserSpec => []Parses
BY ParsesFollows, Invariant, PTL
=============================================================================
