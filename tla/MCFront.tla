------------------------------- MODULE MCFront -------------------------------
(***************************************************************************)
(* Standard inputs for TLC: the lines of Lines written as text, and what   *)
(* reading, lexing, parsing and compiling make special cases of.           *)
(***************************************************************************)
EXTENDS Front, MCRepl, Grammar

MCstrtol == ("0" :> 0) @@ ("1" :> 1) @@ ("2" :> 2)

-----------------------------------------------------------------------------
(***************************************************************************)
(* Items as text: nothing between two of them, unless both are words.      *)
(***************************************************************************)
Literals == L!itype_lit @@ L!Keywords @@ [eof |-> <<>>]
CharsOf(item) ==
  IF item.type \in {"ident", "int"} THEN <<item.lit>> ELSE Literals[item.type]
IsWord(item) == item.type \in {"ident", "int"} \cup DOMAIN L!Keywords

AsText(written) ==
  LET gap(k) == IF k > 1 /\ IsWord(written[k - 1]) /\ IsWord(written[k]) THEN <<" ">> ELSE <<>>
      upto[k \in 0..Len(written)] ==
        IF k = 0 THEN <<>> ELSE upto[k - 1] \o gap(k) \o CharsOf(written[k])
  IN upto[Len(written)] \o <<"\n">>

Sources == {s \in {[tree |-> t, items |-> WriteLine(t), text |-> AsText(WriteLine(t))] : t \in Whole} :
              Separated(s.items)}

-----------------------------------------------------------------------------
(***************************************************************************)
(* Texts that nobody means.                                                *)
(***************************************************************************)
E(type) == It(type, type)
Id(n)   == It("ident", n)
N(n)    == It("int", n)

Clumsy == {
  (* NULL nodes: (+) = 1, x = +, if + {1}, 1; z(1, +), (fn(x) {x})(+) *)
  <<E("lparen"), E("plus"), E("rparen"), E("assign"), N("1")>>,
  <<Id("x"), E("assign"), E("plus")>>,
  <<E("if"), E("plus"), E("lbrace"), N("1"), E("rbrace")>>,
  <<N("1"), E("semicolon"), Id("z"), E("lparen"), N("1"), E("comma"), E("plus"), E("rparen")>>,
  <<N("1"), E("semicolon"), Id("y"), E("minus"), E("rbrace")>>,
  <<E("function"), E("lparen"), Id("x"), E("rparen"), E("lbrace"), Id("x"), E("rbrace"),
    E("lparen"), E("plus"), E("rparen")>>,
  (* refused by the parser *)
  <<E("if"), N("1")>>, <<E("function"), Id("x")>>, <<E("lparen"), N("1")>>,
  <<E("if"), N("1"), E("lbrace"), N("2")>>, <<Id("x"), E("lparen"), N("1"), Id("x")>>,
  (* a number for a parameter, and one written twice *)
  <<E("function"), E("lparen"), N("1"), E("rparen"), E("lbrace"), N("1"), E("rbrace")>>,
  (* no return value, a return of nothing, at the top level *)
  <<E("return"), E("semicolon")>>, <<E("return"), N("1")>>,
  (* no statement *)
  <<>>, <<E("semicolon")>>, <<E("rbrace")>> }

Texts == {s.text : s \in Sources} \cup {AsText(WriteLine(t)) : t \in Awkward \ Holes}
         \cup {AsText(w \o Sign("eof")) : w \in Clumsy}

-----------------------------------------------------------------------------
(***************************************************************************)
(* Inputs: one line, two, and what is not simply a line.                   *)
(***************************************************************************)
Some == {AsText(WriteLine(t)) : t \in FewWritten}

Opening  == <<"i", "f", "1", "{">>
Blanks(n) == [i \in 1..n |-> " "]

Odd == {
  <<>>, <<"1">>, <<"1", ";", "#", "x">>, <<"@", "\n">>,
  <<L!Quote, "x", L!Quote, "\n">>, <<L!Quote, "x", "\n">>, <<"x", L!Quote, "\n", "1", "\n">>,
  <<"1", " ", "2", L!Quote, "\n">>, <<L!Backtick, "x", L!Backtick, "\n">>,
  (* hidden by a NUL *)
  <<"1", NUL, "2", "\n", "2", "\n">>,
  (* accept_until: at the end, with blank lines, and without *)
  Opening, Opening \o <<NUL, "\n">>,
  Opening \o <<NUL, "\n", "2", "\n", "}", "\n", "\n", "1", "\n">>,
  Opening \o <<NUL, "\n", "2", "\n", "}">>,
  (* lines that do not fit *)
  Opening \o <<NUL, "\n">> \o Blanks(BufSize) \o <<"}", "\n", "\n">>,
  <<"1">> \o Blanks(BufSize) \o <<"2", "\n">>,
  <<"1">> \o Blanks(BufSize - 3) \o <<"{", "2", "\n">> }

(* A line that is meant to fit does, wherever another is put behind it. *)
ASSUME TextsFit == \A t \in Texts : Len(t) < 60

MCInputs == Texts \cup {a \o b : a, b \in Some} \cup Odd

-----------------------------------------------------------------------------
(* From the text to the answer: what is printed for a line is the value of *)
(* the tree it was written from, read through the buffer, the lexer and    *)
(* the parser, and compiled and run, first line or not.                    *)
TextMeans ==
  Compiled /\ ~Running =>
    \A s \in Sources : s.text = text /\ PlainTree(s.tree) => Answers(s.tree)
=============================================================================
