----------------------------- MODULE FrontProofs -----------------------------
(***************************************************************************)
(* Proofs about the whole program, for every input and buffer size.        *)
(*                                                                         *)
(* What is proved of the lexer and of the parser holds of the instances of *)
(* Front: LP and PP are the modules of those proofs over the same state.   *)
(* What is proved of sessions holds because the program makes one.         *)
(***************************************************************************)
EXTENDS Front, ReplProofs

LP == INSTANCE LexerProofs WITH input <- text, lx <- lexer, state <- lexstate, Texts <- {}
PP == INSTANCE ParserProofs WITH items <- LexedItems, p <- parser, Inputs <- {}

-----------------------------------------------------------------------------
(***************************************************************************)
(* The instances are the same.                                             *)
(***************************************************************************)
LEMMA SameLexer == L!lexer_run => LP!lexer_run
<1>1. L!lex_identifier => LP!lex_identifier
  BY DEF L!lex_identifier, LP!lex_identifier, L!accept_run, LP!accept_run,
         L!len, LP!len, L!WordChars, LP!WordChars, L!Letters, LP!Letters,
         L!Digits, LP!Digits, L!Go, LP!Go, L!emit, LP!emit, L!lookup_type,
         LP!lookup_type, L!Keywords, LP!Keywords, L!Current, LP!Current
<1>2. L!lex_operator => LP!lex_operator
  BY DEF L!lex_operator, LP!lex_operator, L!Follow, LP!Follow, L!Table,
         LP!Table, L!Go, LP!Go, L!Char, LP!Char, L!len, LP!len, L!eof, LP!eof,
         L!Longest, LP!Longest, L!emit, LP!emit, L!next, LP!next, L!backup,
         LP!backup
<1>3. L!lex_string => LP!lex_string
  BY DEF L!lex_string, LP!lex_string, L!next, LP!next, L!len, LP!len, L!Char,
         LP!Char, L!eof, LP!eof, L!Quote, LP!Quote, L!Go, LP!Go, L!ignore,
         LP!ignore, L!emit, LP!emit, L!backup, LP!backup, L!Backslash,
         LP!Backslash
<1>4. L!lex_raw_string => LP!lex_raw_string
  BY DEF L!lex_raw_string, LP!lex_raw_string, L!Go, LP!Go, L!Char, LP!Char,
         L!len, LP!len, L!eof, LP!eof, L!Backtick, LP!Backtick, L!next,
         LP!next, L!ignore, LP!ignore, L!emit, LP!emit, L!backup, LP!backup
<1>5. L!lex_number => LP!lex_number
  BY DEF L!lex_number, LP!lex_number, L!accept, LP!accept, L!Accepts,
         LP!Accepts, L!Char, LP!Char, L!len, LP!len, L!eof, LP!eof, L!next,
         LP!next, L!backup, LP!backup, L!HexDigits, LP!HexDigits, L!Digits,
         LP!Digits, L!accept_run, LP!accept_run, L!Go, LP!Go, L!emit, LP!emit
<1>6. L!LexSpace => LP!LexSpace
  BY DEF L!LexSpace, LP!LexSpace, L!Char, LP!Char, L!len, LP!len, L!eof,
         LP!eof, L!Go, LP!Go, L!ignore, LP!ignore, L!next, LP!next
<1>7. L!LexLetter => LP!LexLetter
  BY DEF L!LexLetter, LP!LexLetter, L!Char, LP!Char, L!len, LP!len, L!eof,
         LP!eof, L!Letters, LP!Letters, L!Go, LP!Go, L!backup, LP!backup,
         L!next, LP!next
<1>8. L!LexDigit => LP!LexDigit
  BY DEF L!LexDigit, LP!LexDigit, L!Char, LP!Char, L!len, LP!len, L!eof,
         LP!eof, L!Digits, LP!Digits, L!Go, LP!Go, L!backup, LP!backup, L!next,
         LP!next
<1>9. L!LexSingle => LP!LexSingle
  BY DEF L!LexSingle, LP!LexSingle, L!Char, LP!Char, L!len, LP!len, L!eof,
         LP!eof, L!Single, LP!Single, L!Table, LP!Table, L!Go, LP!Go,
         L!ignore_spaces, LP!ignore_spaces, L!ignore, LP!ignore, L!accept_run,
         LP!accept_run, L!Spaces, LP!Spaces, L!VerticalTab,
         LP!VerticalTab, L!emit, LP!emit, L!next, LP!next,
         L!SingleOnly, LP!SingleOnly
<1>10. L!LexLonger => LP!LexLonger
  BY DEF L!LexLonger, LP!LexLonger, L!Char, LP!Char, L!len, LP!len, L!eof,
         LP!eof, L!Longer, LP!Longer, L!Table, LP!Table, L!Go, LP!Go, L!next,
         LP!next, L!Longest, LP!Longest, L!emit, LP!emit, L!backup, LP!backup,
         L!Follow, LP!Follow
<1>11. L!LexQuote => LP!LexQuote
  BY DEF L!LexQuote, LP!LexQuote, L!Char, LP!Char, L!len, LP!len, L!eof,
         LP!eof, L!Quote, LP!Quote, L!Go, LP!Go, L!ignore, LP!ignore, L!next,
         LP!next, L!Backtick, LP!Backtick
<1>12. L!LexComment => LP!LexComment
  BY DEF L!LexComment, LP!LexComment, L!Char, LP!Char, L!len, LP!len, L!eof,
         LP!eof, L!Go, LP!Go, L!ignore_spaces, LP!ignore_spaces, L!ignore,
         LP!ignore, L!accept_run, LP!accept_run, L!Spaces, LP!Spaces,
         L!VerticalTab, LP!VerticalTab
<1>13. L!LexEof => LP!LexEof
  BY DEF L!LexEof, LP!LexEof, L!Char, LP!Char, L!len, LP!len, L!eof, LP!eof,
         L!Go, LP!Go, L!emit, LP!emit, L!next, LP!next
<1>14. L!LexInvalid => LP!LexInvalid
  BY DEF L!LexInvalid, LP!LexInvalid, L!Char, LP!Char, L!len, LP!len, L!eof,
         LP!eof, L!Known, LP!Known, L!Quote, LP!Quote, L!Backtick, LP!Backtick,
         L!Letters, LP!Letters, L!Digits, LP!Digits, L!Single, LP!Single,
         L!Table, LP!Table, L!SingleOnly, LP!SingleOnly, L!Longer, LP!Longer,
         L!Go, LP!Go, L!next, LP!next
<1>15. L!lex_expression => LP!lex_expression
  BY <1>6, <1>7, <1>8, <1>9, <1>10, <1>11, <1>12, <1>13, <1>14 DEF L!lex_expression, LP!lex_expression
<1> QED BY <1>1, <1>2, <1>3, <1>4, <1>5, <1>15 DEF L!lexer_run, LP!lexer_run
LEMMA SameNew == L!new_lexer = LP!new_lexer
BY DEF L!new_lexer, LP!new_lexer, L!ignore_spaces, LP!ignore_spaces, L!ignore,
       LP!ignore, L!accept_run, LP!accept_run, L!len, LP!len, L!Spaces,
       LP!Spaces,
         L!VerticalTab, LP!VerticalTab
LEMMA SameParser == P!parse => PP!parse
BY DEF P!parse, PP!parse, P!MoreStatements, PP!MoreStatements,
       P!StatementDone, PP!StatementDone, P!StatementsEnd, PP!StatementsEnd,
       P!parse_block, PP!parse_block, P!parse_statement, PP!parse_statement,
       P!parse_return, PP!parse_return, P!parse_return_end,
       PP!parse_return_end, P!parse_expr, PP!parse_expr, P!infix, PP!infix,
       P!parse_expr_end, PP!parse_expr_end, P!BuildOperation,
       PP!BuildOperation, P!parse_grouped_expr, PP!parse_grouped_expr,
       P!parse_call, PP!parse_call, P!parse_node_sequence,
       PP!parse_node_sequence, P!parse_ifexpr, PP!parse_ifexpr,
       P!parse_ifexpr_cond, PP!parse_ifexpr_cond, P!parse_ifexpr_body,
       PP!parse_ifexpr_body, P!parse_ifexpr_end, PP!parse_ifexpr_end,
       P!parse_function, PP!parse_function, P!parse_function_params,
       PP!parse_function_params, P!parse_function_body,
       PP!parse_function_body, P!parse_function_end, PP!parse_function_end,
       P!lowest, PP!lowest, P!Precedence, PP!Precedence, P!get_precedence,
       PP!get_precedence, P!BinaryNode, PP!BinaryNode, P!Infix, PP!Infix,
       P!next, PP!next, P!Cur, PP!Cur, P!Peek, PP!Peek, P!SkipSemicolon,
       PP!SkipSemicolon, P!Call, PP!Call, P!Expr, PP!Expr, P!Loop, PP!Loop,
       P!Right, PP!Right, P!Args, PP!Args, P!Body, PP!Body, P!Altern,
       PP!Altern, P!FunctionBody, PP!FunctionBody, P!Statements,
       PP!Statements, P!At, PP!At, P!Do, PP!Do, P!Continue, PP!Continue,
       P!Answer, PP!Answer, P!exit, PP!exit, P!Expect, PP!Expect,
       P!AfterStatement, PP!AfterStatement, P!Binds, PP!Binds,
       P!parse_identifier, PP!parse_identifier, P!parse_integer,
       PP!parse_integer, P!NoNode, PP!NoNode, P!Integer, PP!Integer,
       P!NullNode, PP!NullNode, P!Identifier, PP!Identifier, P!Operation,
       PP!Operation, P!Assign, PP!Assign, P!Block, PP!Block, P!CallNode,
       PP!CallNode, P!Return, PP!Return, P!IfElse, PP!IfElse, P!FunctionNode,
       PP!FunctionNode

-----------------------------------------------------------------------------
(***************************************************************************)
(* Reading: the buffer is never left.                                      *)
(***************************************************************************)
BufType == [0..BufSize - 1 -> L!Characters]

(* strlen finds an end. *)
HasNUL(b, from) == \E i \in from..BufSize - 1 : b[i] = NUL

ReadOK ==
  /\ stdin \in Seq(L!Characters) /\ buf \in BufType /\ filled \in 0..BufSize
  /\ stage = "more" => filled >= 2 /\ (filled < BufSize => HasNUL(buf, filled))

(* What is true of the strings of TLA+ and not known to the provers; that   *)
(* strtol has a result whatever it is given; and that the trees of the     *)
(* session are all there are.                                              *)
Given ==
  /\ {"", NUL, "\n"} \subseteq STRING /\ \A a, b \in STRING : a \o b \in STRING
  /\ \A s \in STRING : strtol[s] \in Int
  /\ NodesOver(Trees) \subseteq Trees

LEMMA NULs ==
  ASSUME Given
  PROVE  BufSize \in Nat /\ BufSize > 1 /\ NUL \in L!Characters /\ "\n" \in L!Characters
<1>1. BufSize \in Nat /\ BufSize > 1
  BY BufSizeAssumption
<1>2. NUL \in L!Characters /\ "\n" \in L!Characters
  <2>1. NUL \in STRING /\ "\n" \in STRING
    BY DEF Given
  <2>2. NUL # "eof" /\ "\n" # "eof"
    BY SMT DEF NUL
  <2> QED BY <2>1, <2>2 DEF L!Characters, L!eof
<1> QED BY <1>1, <1>2

LEMMA Least ==
  ASSUME NEW S, S \subseteq Nat, S # {}
  PROVE  Min(S) \in S /\ \A y \in S : Min(S) <= y
BY LeastNumber DEF Min

LEMMA StrlenFacts ==
  ASSUME Given, NEW b, NEW from \in Nat, HasNUL(b, from), DOMAIN b = 0..BufSize - 1
  PROVE  /\ from + strlen(b, from) \in from..BufSize - 1
         /\ \A i \in from..BufSize - 1 : b[i] = NUL => from + strlen(b, from) <= i
         /\ b[from + strlen(b, from)] = NUL
<1> DEFINE S == {i \in DOMAIN b : i >= from /\ b[i] = NUL}
           m == Min(S)
<1>1. BufSize \in Nat
  BY NULs
<1>2. S \subseteq Nat /\ S # {}
  BY <1>1 DEF HasNUL
<1>3. m \in S /\ \A y \in S : m <= y
  <2> HIDE DEF S
  <2> QED BY <1>2, Least
<1>4. strlen(b, from) = m - from
  BY DEF strlen
<1> HIDE DEF m
<1>5. m \in Nat /\ m \in from..BufSize - 1 /\ b[m] = NUL
  BY <1>1, <1>3
<1>6. from + strlen(b, from) = m
  BY <1>4, <1>5
<1>7. \A i \in from..BufSize - 1 : b[i] = NUL => i \in S
  BY <1>1
<1> QED BY <1>3, <1>5, <1>6, <1>7

LEMMA StrlenType ==
  ASSUME NEW b, NEW from \in Nat, HasNUL(b, from), DOMAIN b = 0..BufSize - 1
  PROVE  strlen(b, from) \in Int
<1> DEFINE S == {i \in DOMAIN b : i >= from /\ b[i] = NUL}
<1>1. S \subseteq Nat /\ S # {}
  BY BufSizeAssumption DEF HasNUL
<1>2. Min(S) \in Nat
  <2> HIDE DEF S
  <2> QED BY <1>1, Least
<1> QED BY <1>2 DEF strlen

LEMMA ChunkFacts ==
  ASSUME stdin \in Seq(L!Characters), NEW n \in Nat, n >= 1
  PROVE  /\ Chunk(n) \in Seq(L!Characters) /\ Len(Chunk(n)) \in 0..n - 1
         /\ stdin = <<>> => Chunk(n) = <<>>
         /\ SubSeq(stdin, Len(Chunk(n)) + 1, Len(stdin)) \in Seq(L!Characters)
<1> DEFINE newlines == {i \in DOMAIN stdin : stdin[i] = "\n"}
           S == newlines \cup {Len(stdin), n - 1}
           k == Min(S)
           C == L!Characters
<1>1. Len(stdin) \in Nat /\ n - 1 \in Nat /\ newlines \subseteq Nat
  OBVIOUS
<1>2. Chunk(n) = SubSeq(stdin, 1, k)
  BY DEF Chunk
<1> HIDE DEF newlines
<1>3. S \subseteq Nat /\ S # {}
  BY <1>1
<1>4. k \in S /\ \A y \in S : k <= y
  <2> HIDE DEF S
  <2> QED BY <1>3, Least
<1>5. k \in Nat /\ k <= Len(stdin) /\ k <= n - 1
  BY <1>3, <1>4
<1> HIDE DEF k, C
<1>6. stdin \in Seq(C)
  BY DEF C
<1>7. SubSeq(stdin, 1, k) \in Seq(C) /\ Len(SubSeq(stdin, 1, k)) = k
  BY <1>1, <1>5, <1>6
<1>8. SubSeq(stdin, k + 1, Len(stdin)) \in Seq(C)
  BY <1>1, <1>5, <1>6
<1>9. stdin = <<>> => SubSeq(stdin, 1, k) = <<>>
  BY <1>1, <1>5, <1>7
<1> QED BY <1>2, <1>5, <1>7, <1>8, <1>9 DEF C

LEMMA FilledFacts ==
  ASSUME Given, NEW b \in BufType, NEW at \in 0..BufSize - 1, NEW s \in Seq(L!Characters),
         at + Len(s) < BufSize
  PROVE  /\ Filled(b, at, s) \in BufType
         /\ stdin # <<>> => Filled(b, at, s)[at + Len(s)] = NUL
         /\ stdin = <<>> => Filled(b, at, s) = b
         /\ \A i \in 0..BufSize - 1 : i > at + Len(s) => Filled(b, at, s)[i] = b[i]
<1> DEFINE C == L!Characters
           f == Filled(b, at, s)
<1>1. BufSize \in Nat /\ NUL \in C /\ Len(s) \in Nat
  BY NULs
<1>2. b \in [0..BufSize - 1 -> C] /\ s \in Seq(C)
  BY DEF BufType
<1> HIDE DEF C
<1>3. CASE stdin = <<>>
  BY <1>1, <1>3 DEF Filled
<1>4. CASE stdin # <<>>
  <2>1. f = [i \in DOMAIN b \cup at..at + Len(s) |->
              IF i \in at..at + Len(s) - 1 THEN s[i - at + 1]
              ELSE IF i = at + Len(s) THEN NUL ELSE b[i]]
    BY <1>4 DEF Filled
  <2>2. DOMAIN b \cup at..at + Len(s) = 0..BufSize - 1
    BY <1>1, <1>2
  <2>3. \A i \in at..at + Len(s) - 1 : s[i - at + 1] \in C
    BY <1>1, <1>2
  <2>4. f \in [0..BufSize - 1 -> C]
    BY <1>1, <1>2, <2>1, <2>2, <2>3
  <2>5. f[at + Len(s)] = NUL /\ \A i \in 0..BufSize - 1 : i > at + Len(s) => f[i] = b[i]
    BY <1>1, <2>1, <2>2
  <2> QED BY <1>4, <2>4, <2>5 DEF BufType, C
<1> QED BY <1>3, <1>4

(* What is given to the lexer is a text. *)
LEMMA FirstLexer ==
  LP!InputOK /\ lexer = LP!new_lexer /\ lexstate = "lex_expression" => LP!LexerInv
BY LP!NewLexer

LEMMA ParseInputOK ==
  ASSUME NEW b \in BufType, NEW n \in 0..BufSize, parse_input(b, n)
  PROVE  stage' = "lexing" /\ LP!LexerInv'
<1>1. (LP!InputOK /\ lexer = LP!new_lexer /\ lexstate = "lex_expression" => LP!LexerInv)'
  BY FirstLexer, PTL
<1>2. (L!new_lexer = LP!new_lexer)'
  BY SameNew, PTL
<1>3. /\ text' = [i \in 1..n |-> b[i - 1]] /\ lexer' = (L!new_lexer)'
      /\ lexstate' = "lex_expression" /\ stage' = "lexing"
  BY DEF parse_input
<1> DEFINE C == L!Characters
<1>4. b \in [0..BufSize - 1 -> C] /\ BufSize \in Nat
  BY BufSizeAssumption DEF BufType
<1>5. C = LP!Characters
  BY DEF L!Characters, LP!Characters, L!eof, LP!eof
<1> HIDE DEF C
<1>6. text' \in Seq(C)
  BY <1>3, <1>4
<1>7. (LP!InputOK)'
  BY <1>5, <1>6 DEF LP!InputOK
<1> QED BY <1>1, <1>2, <1>3, <1>7

(* What a step that reads leaves. *)
ReadOn ==
  /\ ReadOK' /\ stage' \in {"more", "lexing"} /\ (stage' = "lexing" => LP!LexerInv')
  /\ UNCHANGED sessionVars

LEMMA ReadInputOK ==
  ASSUME Given, ReadOK, ReadInput
  PROVE  ReadOn /\ mode = "reading"
<1> DEFINE s == Chunk(BufSize)
           b == Filled(Empty, 0, s)
           n == strlen(b, 0)
           k == Len(s)
           C == L!Characters
           e == [b EXCEPT ![n] = "\n"]
           more == fgets(s, e) /\ filled' = n + 1 /\ stage' = "more"
           all == fgets(s, b) /\ filled' = n /\ parse_input(b, n)
<1>1. /\ mode = "reading" /\ UNCHANGED sessionVars
      /\ (n > 0 /\ more) \/ all
  BY Zenon DEF ReadInput
<1>2. BufSize \in Nat /\ BufSize > 1 /\ NUL \in C /\ "\n" \in C
  BY NULs
<1>3. s \in Seq(C) /\ k \in 0..BufSize - 1 /\ SubSeq(stdin, k + 1, Len(stdin)) \in Seq(C)
      /\ (stdin = <<>> => s = <<>>)
  BY <1>2, ChunkFacts DEF ReadOK
<1>4. Empty \in BufType /\ \A i \in 0..BufSize - 1 : Empty[i] = NUL
  BY <1>2 DEF Empty, BufType
<1>5. /\ b \in BufType /\ b[k] = NUL /\ \A i \in 0..BufSize - 1 : i > k => b[i] = NUL
  <2>1. 0 \in 0..BufSize - 1 /\ 0 + k < BufSize /\ 0 + k = k /\ s \in Seq(L!Characters)
    BY <1>2, <1>3
  <2>2. /\ b \in BufType
        /\ stdin # <<>> => b[0 + k] = NUL
        /\ stdin = <<>> => b = Empty
        /\ \A i \in 0..BufSize - 1 : i > 0 + k => b[i] = Empty[i]
    BY <1>4, <2>1, FilledFacts
  <2> HIDE DEF s, b, k
  <2> QED BY <1>2, <1>3, <1>4, <2>1, <2>2
<1>6. n \in 0..BufSize - 1 /\ b[n] = NUL /\ n <= k
  <2>1. DOMAIN b = 0..BufSize - 1
    BY <1>5 DEF BufType
  <2>2. HasNUL(b, 0)
    BY <1>3, <1>5 DEF HasNUL
  <2> HIDE DEF s, b, k
  <2>3. /\ 0 + n \in 0..BufSize - 1 /\ b[0 + n] = NUL
        /\ \A i \in 0..BufSize - 1 : b[i] = NUL => 0 + n <= i
    BY <2>1, <2>2, StrlenFacts
  <2>4. n \in Int
    BY <2>1, <2>2, StrlenType
  <2> HIDE DEF n
  <2> QED BY <1>3, <1>5, <2>3, <2>4
<1>7. UNCHANGED sessionVars
  BY <1>1
<1>8. CASE all
  <2>1. stdin' = SubSeq(stdin, k + 1, Len(stdin)) /\ buf' = b /\ filled' = n
    BY <1>8 DEF fgets
  <2> HIDE DEF s, b, n, k
  <2>2. n \in 0..BufSize
    BY <1>2, <1>6
  <2>3. stage' = "lexing" /\ LP!LexerInv'
    BY <1>5, <1>8, <2>2, ParseInputOK
  <2>4. ReadOK'
    BY <1>3, <1>5, <2>1, <2>2, <2>3 DEF ReadOK, C, BufType
  <2> QED BY <1>7, <2>3, <2>4, <1>1 DEF ReadOn
<1>9. CASE n > 0 /\ more
  <2>1. stdin' = SubSeq(stdin, k + 1, Len(stdin)) /\ buf' = e /\ filled' = n + 1
        /\ stage' = "more" /\ n > 0
    BY <1>9 DEF fgets
  <2>2. e \in BufType /\ \A i \in 0..BufSize - 1 : i # n => e[i] = b[i]
    BY <1>2, <1>5, <1>6 DEF BufType
  <2> HIDE DEF s, b, n, k, e
  <2>3. n + 1 \in 0..BufSize /\ n + 1 >= 2
    BY <1>2, <1>6, <2>1
  <2>4. ASSUME n + 1 < BufSize PROVE HasNUL(e, n + 1)
    <3>1. CASE n < k
      <4>1. k \in n + 1..BufSize - 1 /\ e[k] = NUL
        BY <1>2, <1>3, <1>5, <1>6, <2>2, <3>1
      <4> QED BY <4>1 DEF HasNUL
    <3>2. CASE ~ (n < k)
      <4>1. n + 1 \in n + 1..BufSize - 1 /\ b[n + 1] = NUL /\ n + 1 # n
            /\ n + 1 \in 0..BufSize - 1
        BY <1>2, <1>3, <1>5, <1>6, <2>4, <3>2
      <4>2. e[n + 1] = NUL
        BY <2>2, <4>1
      <4> QED BY <4>1, <4>2 DEF HasNUL
    <3> QED BY <3>1, <3>2
  <2>5. ReadOK'
    BY <1>3, <2>1, <2>2, <2>3, <2>4 DEF ReadOK, C, BufType, HasNUL
  <2>6. ~ (stage' = "lexing")
    BY <2>1
  <2> QED BY <1>1, <1>7, <2>1, <2>5, <2>6 DEF ReadOn
<1> QED BY <1>1, <1>8, <1>9

LEMMA AcceptMoreOK ==
  ASSUME Given, ReadOK, AcceptMore
  PROVE  ReadOn /\ stage = "more"
<1> DEFINE s == Chunk(BufSize - filled)
           b == Filled(buf, filled, s)
           m == strlen(b, filled)
           n == filled + m
           k == Len(s)
           C == L!Characters
<1>1. /\ stage = "more" /\ filled < BufSize /\ UNCHANGED sessionVars
      /\ fgets(s, b) /\ filled' = n
      /\ parse_input(b, n) \/ UNCHANGED <<stage, text, lexer, lexstate>>
  BY DEF AcceptMore
<1>2. BufSize \in Nat /\ NUL \in C /\ filled \in 2..BufSize - 1 /\ BufSize - filled \in Nat
      /\ BufSize - filled >= 1
  BY <1>1, NULs DEF ReadOK
<1>3. s \in Seq(C) /\ k \in 0..BufSize - filled - 1
      /\ SubSeq(stdin, k + 1, Len(stdin)) \in Seq(C)
  BY <1>2, ChunkFacts DEF ReadOK
<1>4. buf \in BufType /\ HasNUL(buf, filled)
  BY <1>1, <1>2 DEF ReadOK
<1>5. b \in BufType /\ HasNUL(b, filled)
  <2>1. filled \in 0..BufSize - 1 /\ filled + k < BufSize /\ s \in Seq(L!Characters)
        /\ filled + k \in filled..BufSize - 1
    BY <1>2, <1>3
  <2>2. /\ b \in BufType
        /\ stdin # <<>> => b[filled + k] = NUL
        /\ stdin = <<>> => b = buf
    BY <1>4, <2>1, FilledFacts
  <2> HIDE DEF s, b, k
  <2> QED BY <1>4, <2>1, <2>2 DEF HasNUL
<1>6. n \in filled..BufSize - 1 /\ b[n] = NUL
  <2>1. DOMAIN b = 0..BufSize - 1 /\ filled \in Nat
    BY <1>2, <1>5 DEF BufType
  <2> HIDE DEF s, b, k
  <2> QED BY <1>5, <2>1, StrlenFacts
<1>7. stdin' = SubSeq(stdin, k + 1, Len(stdin)) /\ buf' = b /\ filled' = n
  BY <1>1 DEF fgets
<1> HIDE DEF s, b, n, k
<1>8. n \in 0..BufSize /\ n >= 2 /\ HasNUL(b, n)
  <2>1. n \in n..BufSize - 1
    BY <1>2, <1>6
  <2> QED BY <1>2, <1>6, <2>1 DEF HasNUL
<1>9. (stage' = "lexing" /\ LP!LexerInv') \/ stage' = "more"
  BY <1>1, <1>5, <1>8, ParseInputOK
<1>10. ReadOK'
  BY <1>3, <1>5, <1>7, <1>8, <1>9 DEF ReadOK, C, BufType, HasNUL
<1>11. stage' \in {"more", "lexing"} /\ (stage' = "lexing" => LP!LexerInv')
  BY <1>9
<1> QED BY <1>1, <1>10, <1>11 DEF ReadOn

-----------------------------------------------------------------------------
(***************************************************************************)
(* What the lexer hands to the parser.                                     *)
(***************************************************************************)
LEMMA SpelledString ==
  ASSUME Given, NEW chars \in Seq(STRING)
  PROVE  Spelled(chars) \in STRING
<1> DEFINE N == Len(chars)
           S == STRING
           empty == ""
           join(i, e) == e \o chars[i]
           step == [x \in (1..N) \X S |-> join(x[1], x[2])]
           Unfolds(h) == h = [i \in 0..N |-> IF i = 0 THEN empty ELSE join(i, h[i - 1])]
<1>1. N \in Nat /\ \A i \in 1..N : chars[i] \in STRING
  OBVIOUS
<1>2. empty \in S
  BY DEF Given
<1>3. ASSUME NEW i \in 1..N, NEW e \in S PROVE join(i, e) \in S
  <2>1. chars[i] \in STRING
    BY <1>1
  <2> QED BY <2>1 DEF Given
<1>4. Spelled(chars) = (CHOOSE h : Unfolds(h))[N]
  BY DEF Spelled
<1> HIDE DEF S, join, N, empty
<1>5. step \in [(1..N) \X S -> S]
  BY <1>3
<1>6. PICK g \in [0..N -> S] : Follows(g, N, empty, step)
  <2> HIDE DEF step
  <2> QED BY <1>1, <1>2, <1>5, RangeRecursion
<1>7. Unfolds(g)
  <2>1. ASSUME NEW i \in 0..N PROVE g[i] = IF i = 0 THEN empty ELSE join(i, g[i - 1])
    <3>1. CASE i = 0
      BY <1>6, <3>1 DEF Follows
    <3>2. CASE i # 0
      <4>1. i \in 1..N /\ g[i - 1] \in S
        BY <1>1, <1>6, <3>2
      <4> QED BY <1>6, <3>2, <4>1 DEF Follows
    <3> QED BY <3>1, <3>2
  <2> QED BY <1>6, <2>1
<1>8. Unfolds(CHOOSE h : Unfolds(h))
  <2>1. \E h : Unfolds(h)
    BY <1>7
  <2> QED BY <2>1
<1> DEFINE H == CHOOSE h : Unfolds(h)
           T == {i \in 0..N : H[i] \in S}
<1>9. \A i \in 0..N : H[i] = IF i = 0 THEN empty ELSE join(i, H[i - 1])
  BY <1>8
<1> HIDE DEF H, Unfolds
<1>10. 0 \in T
  BY <1>1, <1>2, <1>9
<1>11. ASSUME NEW i \in 0 + 1..N, i - 1 \in T PROVE i \in T
  BY <1>1, <1>3, <1>9, <1>11
<1> HIDE DEF T
<1>12. \A i \in 0..N : i \in T
  <2>1. 0 \in Int /\ N \in Int
    BY <1>1
  <2> QED BY <2>1, <1>10, <1>11, RangeInduction
<1>13. H[N] \in S
  BY <1>1, <1>12 DEF T
<1> QED BY <1>4, <1>13 DEF H, S

LEMMA ItemsGood ==
  ASSUME Given, LP!LexerInv
  PROVE  LexedItems \in Seq(PP!Good)
<1> DEFINE n == Len(lexer.items)
           C == LP!Characters
<1>1. LP!LexerTypeOK
  BY LP!TypeFollows
<1>2. lexer.items \in Seq(LP!ItemType) /\ text \in Seq(C)
  BY DEF LP!LexerInv, LP!Sound, LP!Place, LP!LexerType, LP!InputOK
<1>3. C \subseteq STRING
  BY DEF LP!Characters
<1> HIDE DEF C
<1>4. ASSUME NEW k \in 1..n
      PROVE  /\ lexer.items[k].type \in PP!item_type
             /\ L!Text(k) \in Seq(STRING)
  <2>1. /\ lexer.items[k].type \in LP!item_type
        /\ 0 <= lexer.items[k].from /\ lexer.items[k].from <= lexer.items[k].to
        /\ lexer.items[k].to <= lexer.pos /\ lexer.pos <= Len(text)
    BY <1>1 DEF LP!LexerTypeOK, LP!Items, LP!len
  <2>2. lexer.items[k].from \in Nat /\ lexer.items[k].to \in Nat /\ lexer.pos \in Nat
    <3>1. lexer.items[k] \in LP!ItemType
      BY <1>2
    <3>2. lexer.pos \in Nat
      BY DEF LP!LexerInv, LP!Sound, LP!Place, LP!LexerType
    <3> QED BY <3>1, <3>2 DEF LP!ItemType
  <2>3. LP!item_type = PP!item_type
    BY Zenon DEF LP!item_type, PP!item_type, LP!OperatorTypes, PP!OperatorTypes,
       LP!Keywords, PP!Keywords, LP!itype_lit, PP!itype_lit
  <2>4. text \in Seq(STRING)
    <3> DEFINE W == STRING
    <3>1. C \subseteq W
      BY <1>3
    <3> HIDE DEF W
    <3>2. text \in Seq(W)
      BY <1>2, <3>1
    <3> QED BY <3>2 DEF W
  <2>5. L!Text(k) = SubSeq(text, lexer.items[k].from + 1, lexer.items[k].to)
    BY DEF L!Text
  <2> DEFINE a == lexer.items[k].from
             z == lexer.items[k].to
             W == STRING
  <2>6. a \in Nat /\ z \in Nat /\ a <= z /\ z <= Len(text) /\ Len(text) \in Nat
    BY <2>1, <2>2, <2>4
  <2> HIDE DEF a, z, W
  <2>7. SubSeq(text, a + 1, z) \in Seq(W)
    BY <2>4, <2>6 DEF W
  <2> QED BY <2>1, <2>3, <2>5, <2>7 DEF a, z, W
<1>5. ASSUME NEW k \in 1..n
      PROVE  [type |-> lexer.items[k].type, lit |-> Spelled(L!Text(k))] \in PP!Good
  <2>1. Spelled(L!Text(k)) \in STRING /\ lexer.items[k].type \in PP!item_type
    BY <1>4, SpelledString
  <2>2. strtol[Spelled(L!Text(k))] \in Int
    BY <2>1 DEF Given
  <2> HIDE DEF PP!item_type
  <2> QED BY <2>1, <2>2 DEF PP!Good, PP!ItemType
<1>6. DOMAIN lexer.items = 1..n /\ n \in Nat
  BY <1>2
<1>7. LexedItems = [k \in 1..n |-> [type |-> lexer.items[k].type, lit |-> Spelled(L!Text(k))]]
  BY <1>6 DEF LexedItems
<1> HIDE DEF n
<1> QED BY <1>5, <1>6, <1>7

LEMMA SameNodes == PP!NodesOver(Trees) = NodesOver(Trees)
BY DEF NodesOver, PP!NodesOver, NoNode, PP!NoNode, NullNode, PP!NullNode,
       OperationTypes, PP!OperationTypes

-----------------------------------------------------------------------------
(***************************************************************************)
(* The invariant.                                                          *)
(***************************************************************************)
Stages == {"prompt", "more", "lexing", "parsing", "lost"}
StageOK == stage \in Stages /\ (stage # "prompt" => mode \in {"reading", "dead"})
LexOK   == stage \in {"lexing", "parsing"} => LP!LexerInv
ParseOK == stage = "parsing" => PP!ParserInv /\ (EndInEof => PP!InOrder)

FrontInv == ReadOK /\ StageOK /\ LexOK /\ ParseOK /\ LostByQuote

LEMMA ReadKept ==
  ASSUME ReadOK, UNCHANGED readVars, stage' = "more" => stage = "more"
  PROVE  ReadOK'
<1>1. stdin' = stdin /\ buf' = buf /\ filled' = filled
  BY DEF readVars
<1> QED BY <1>1 DEF ReadOK, HasNUL, BufType

LEMMA LexKept ==
  ASSUME UNCHANGED <<text, lexer, lexstate>>
  PROVE  /\ LP!LexerInv => LP!LexerInv'
         /\ LexedItems' = LexedItems
         /\ L!In(L!Quote) => (L!In(L!Quote))'
<1>1. UNCHANGED LP!lexerVars
  BY DEF LP!lexerVars
<1>2. LP!LexerInv => LP!LexerInv'
  BY <1>1, LP!LexerStep
<1>3. LexedItems' = LexedItems
  BY DEF LexedItems, L!Text
<1> QED BY <1>2, <1>3 DEF L!In, L!len

LEMMA ParseKept ==
  ASSUME PP!ParserInv, EndInEof => PP!InOrder, LexedItems' = LexedItems,
         PP!parse \/ UNCHANGED parseVars
  PROVE  PP!ParserInv' /\ (EndInEof' => PP!InOrder')
<1>1. [PP!parse]_(PP!parserVars)
  BY DEF PP!parserVars, parseVars
<1>2. PP!ParserInv'
  BY <1>1, PP!NextOK
<1>3. EndInEof' => EndInEof
  BY DEF EndInEof
<1>4. PP!InOrder => PP!InOrder'
  BY <1>1, PP!OrderKept
<1> QED BY <1>2, <1>3, <1>4

(* Nothing but the session moves on, or the process ends. *)
LEMMA InputKept ==
  ASSUME FrontInv, UNCHANGED inputVars, mode' \in {mode, "dead"} \/ stage = "prompt"
  PROVE  FrontInv'
<1>1. /\ UNCHANGED readVars /\ stage' = stage /\ UNCHANGED <<text, lexer, lexstate>>
      /\ UNCHANGED parseVars /\ filled' = filled
  BY DEF inputVars, readVars
<1>2. ReadOK' /\ StageOK'
  BY <1>1, ReadKept DEF FrontInv, StageOK, Stages
<1>3. LexOK' /\ LexedItems' = LexedItems /\ (L!In(L!Quote) => (L!In(L!Quote))')
  BY <1>1, LexKept DEF FrontInv, LexOK
<1>4. ParseOK'
  BY <1>1, <1>3, ParseKept DEF FrontInv, ParseOK
<1>5. LostByQuote'
  BY <1>1, <1>3 DEF FrontInv, LostByQuote
<1> QED BY <1>2, <1>3, <1>4, <1>5 DEF FrontInv

LEMMA ReadingOK ==
  ASSUME FrontInv, ReadOn, mode = "reading" \/ stage = "more"
  PROVE  FrontInv'
<1>1. ReadOK' /\ mode' = mode /\ stage' \in {"more", "lexing"}
      /\ (stage' = "lexing" => LP!LexerInv')
  BY DEF ReadOn, sessionVars, replVars
<1>2. StageOK' /\ LexOK' /\ ParseOK' /\ LostByQuote'
  BY <1>1 DEF FrontInv, StageOK, Stages, LexOK, ParseOK, LostByQuote
<1> QED BY <1>1, <1>2 DEF FrontInv

LEMMA OverrunOK ==
  ASSUME FrontInv, Overrun
  PROVE  FrontInv'
<1>1. CASE Die /\ UNCHANGED stage
  <2>1. UNCHANGED inputVars /\ mode' = "dead"
    BY <1>1 DEF Overrun, Die, inputVars
  <2> QED BY <2>1, InputKept
<1>2. CASE stage' = "lost" /\ UNCHANGED sessionVars
  <2>1. UNCHANGED readVars /\ mode' = mode /\ mode = "reading" /\ filled' = filled
        /\ filled = BufSize
    BY <1>2 DEF Overrun, sessionVars, replVars, readVars
  <2>2. ReadOK'
    BY <1>2, <2>1, ReadKept DEF FrontInv
  <2>3. StageOK' /\ LexOK' /\ ParseOK' /\ LostByQuote'
    BY <1>2, <2>1 DEF StageOK, Stages, LexOK, ParseOK, LostByQuote
  <2> QED BY <2>2, <2>3 DEF FrontInv
<1> QED BY <1>1, <1>2 DEF Overrun

LEMMA LexStepOK ==
  ASSUME FrontInv, Lex
  PROVE  FrontInv'
<1>1. stage = "lexing" /\ stage' = "lexing" /\ UNCHANGED readVars /\ mode' = mode
  BY DEF Lex, sessionVars, replVars
<1>2. LP!LexerInv'
  <2>1. LP!LexerInv /\ LP!lexer_run
    BY <1>1, SameLexer DEF Lex, FrontInv, LexOK
  <2> QED BY <2>1, LP!LexerStep
<1>3. ReadOK'
  BY <1>1, ReadKept DEF FrontInv
<1>4. StageOK' /\ LexOK' /\ ParseOK' /\ LostByQuote'
  BY <1>1, <1>2 DEF FrontInv, StageOK, LexOK, ParseOK, LostByQuote
<1> QED BY <1>3, <1>4 DEF FrontInv

(* The lexer ends without an eof only in a text with a quote. *)
LEMMA EofEnds ==
  ASSUME Given, FrontInv, Lexed, ~ L!In(L!Quote)
  PROVE  EndInEof
<1> DEFINE n == Len(lexer.items)
<1>1. LP!LexerInv /\ lexstate = "NULL"
  BY DEF Lexed, FrontInv, LexOK
<1>2. LP!EofLast
  BY <1>1, LP!EofFollows
<1>3. ~ LP!In(LP!Quote)
  BY DEF L!In, LP!In, L!Quote, LP!Quote, L!len, LP!len
<1>4. PICK k \in 1..n : lexer.items[k].type = "eof" /\ k = n
  BY <1>1, <1>2, <1>3 DEF LP!EofLast, LP!Items
<1>5. LexedItems \in Seq(PP!Good)
  BY <1>1, ItemsGood
<1>6. DOMAIN LexedItems = DOMAIN lexer.items
  BY DEF LexedItems
<1>7. DOMAIN lexer.items = 1..n /\ n \in Nat
  BY <1>1 DEF LP!LexerInv, LP!Sound, LP!Place, LP!LexerType
<1>8. Len(LexedItems) = n
  BY <1>5, <1>6, <1>7
<1>9. LexedItems[n].type = "eof"
  BY <1>4, <1>7 DEF LexedItems
<1> QED BY <1>4, <1>8, <1>9 DEF EndInEof

LEMMA LoseWayOK ==
  ASSUME Given, FrontInv, LoseWay
  PROVE  FrontInv'
<1>1. CASE Die /\ UNCHANGED stage
  <2>1. UNCHANGED inputVars /\ mode' = "dead"
    BY <1>1 DEF LoseWay, Die, inputVars
  <2> QED BY <2>1, InputKept
<1>2. CASE stage' = "lost" /\ UNCHANGED sessionVars
  <2>1. UNCHANGED readVars /\ mode' = mode /\ mode = "reading" /\ Lexed /\ ~ EndInEof
        /\ UNCHANGED <<text, lexer, lexstate>>
    BY <1>2 DEF LoseWay, Lexed, sessionVars, replVars
  <2>2. ReadOK'
    BY <1>2, <2>1, ReadKept DEF FrontInv
  <2>3. L!In(L!Quote)
    BY <2>1, EofEnds
  <2>4. (L!In(L!Quote))'
    BY <2>1, <2>3, LexKept
  <2>5. StageOK' /\ LexOK' /\ ParseOK' /\ LostByQuote'
    BY <1>2, <2>1, <2>4 DEF StageOK, Stages, LexOK, ParseOK, LostByQuote
  <2> QED BY <2>2, <2>5 DEF FrontInv
<1> QED BY <1>1, <1>2 DEF LoseWay

(* The parser begins. *)
LEMMA FirstParser ==
  PP!PlaceOK /\ calls = PP!CallParse /\ ret = PP!NoNode /\ pstat = "parsing" => PP!ParserInv
BY PP!BeginOK

LEMMA BeginParsingOK ==
  ASSUME Given, FrontInv, Lexed, NEW first, BeginParsing(first), PP!Place(first),
         EndInEof => LexedItems # <<>> /\ PP!Beside(first)
  PROVE  FrontInv'
<1>1. /\ parser' = first /\ calls' = P!CallParse /\ ret' = NoNode /\ pstat' = "parsing"
      /\ stage' = "parsing" /\ stage = "lexing"
      /\ UNCHANGED readVars /\ mode' = mode /\ mode = "reading"
      /\ UNCHANGED <<text, lexer, lexstate>>
  BY DEF BeginParsing, Lexed, sessionVars, replVars
<1>2. LP!LexerInv /\ LP!LexerInv' /\ LexedItems' = LexedItems
  BY <1>1, LexKept DEF FrontInv, LexOK
<1>3. LexedItems \in Seq(PP!Good)
  BY <1>2, ItemsGood
<1>4. PP!Good' = PP!Good
  BY DEF PP!Good, PP!ItemType
<1>5. (PP!PlaceOK)'
  <2>1. parser' \in [cur : PP!Good, index : Nat, peek : PP!Good]
    BY <1>1 DEF PP!Place
  <2> QED BY <1>2, <1>3, <1>4, <2>1 DEF PP!PlaceOK, PP!Place
<1>6. (PP!PlaceOK /\ calls = PP!CallParse /\ ret = PP!NoNode /\ pstat = "parsing"
         => PP!ParserInv)'
  BY FirstParser, PTL
<1>7. calls' = PP!CallParse /\ ret' = PP!NoNode
  BY <1>1 DEF P!CallParse, PP!CallParse, P!Statements, PP!Statements, NoNode, PP!NoNode
<1>8. PP!ParserInv'
  BY <1>1, <1>5, <1>6, <1>7
<1>9. EndInEof' => PP!InOrder'
  <2>1. EndInEof' => EndInEof
    BY <1>2 DEF EndInEof
  <2>2. PP!Beside(first) => PP!Beside(parser)'
    BY <1>1, <1>2 DEF PP!Beside
  <2> QED BY <1>2, <2>1, <2>2 DEF PP!InOrder
<1>10. ReadOK'
  BY <1>1, ReadKept DEF FrontInv
<1>11. StageOK' /\ LexOK' /\ ParseOK' /\ LostByQuote'
  BY <1>1, <1>2, <1>8, <1>9 DEF StageOK, Stages, LexOK, ParseOK, LostByQuote
<1> QED BY <1>10, <1>11 DEF FrontInv

LEMMA StartParserOK ==
  ASSUME Given, FrontInv, StartParser
  PROVE  FrontInv'
<1>1. LexedItems \in Seq(PP!Good) /\ LexedItems # <<>>
  BY ItemsGood DEF StartParser, Lexed, EndInEof, FrontInv, LexOK
<1>2. PP!Place(PP!new_parser) /\ PP!Beside(PP!new_parser)
  BY <1>1, PP!FirstPlace
<1>3. P!new_parser = PP!new_parser
  BY DEF P!new_parser, PP!new_parser
<1>4. Lexed /\ BeginParsing(PP!new_parser)
  BY <1>3 DEF StartParser
<1> HIDE DEF PP!new_parser
<1> QED BY <1>1, <1>2, <1>4, BeginParsingOK

(* Fewer than two items: what is not set may be anything, an eof as well. *)
LEMMA StartUnsetOK ==
  ASSUME Given, FrontInv, StartUnset
  PROVE  FrontInv'
<1> DEFINE first == [cur |-> IF LexedItems = <<>> THEN Unset ELSE LexedItems[1],
                     index |-> 1, peek |-> Unset]
<1>1. LexedItems \in Seq(PP!Good)
  BY ItemsGood DEF StartUnset, Lexed, FrontInv, LexOK
<1>2. Unset \in PP!Good
  <2>1. "" \in STRING /\ "eof" # "int"
    BY DEF Given
  <2>2. "eof" \in PP!item_type
    BY DEF PP!item_type
  <2> HIDE DEF PP!item_type
  <2> QED BY <2>1, <2>2 DEF Unset, PP!Good, PP!ItemType
<1>3. LexedItems # <<>> => LexedItems[1] \in PP!Good
  BY <1>1
<1>4. PP!Place(first)
  BY <1>2, <1>3 DEF PP!Place
<1>5. Lexed /\ ~ EndInEof /\ BeginParsing(first)
  BY DEF StartUnset
<1> HIDE DEF first
<1> QED BY <1>4, <1>5, BeginParsingOK

LEMMA ParseStepOK ==
  ASSUME FrontInv, Parse
  PROVE  FrontInv'
<1>1. /\ stage = "parsing" /\ stage' = "parsing" /\ UNCHANGED readVars /\ mode' = mode
      /\ UNCHANGED <<text, lexer, lexstate>> /\ P!parse
  BY DEF Parse, sessionVars, replVars
<1>2. LP!LexerInv' /\ LexedItems' = LexedItems
  BY <1>1, LexKept DEF FrontInv, LexOK
<1>3. PP!parse
  BY <1>1, SameParser
<1>4. PP!ParserInv' /\ (EndInEof' => PP!InOrder')
  BY <1>1, <1>2, <1>3, ParseKept DEF FrontInv, ParseOK
<1>5. ReadOK'
  BY <1>1, ReadKept DEF FrontInv
<1>6. StageOK' /\ LexOK' /\ ParseOK' /\ LostByQuote'
  BY <1>1, <1>2, <1>4 DEF FrontInv, StageOK, LexOK, ParseOK, LostByQuote
<1> QED BY <1>5, <1>6 DEF FrontInv

LEMMA ParsedOK ==
  ASSUME Given, FrontInv, Parsed
  PROVE  FrontInv' /\ ret \in Trees
<1>1. /\ stage = "parsing" /\ pstat = "parsed" /\ stage' = "prompt" /\ UNCHANGED readVars
  BY DEF Parsed
<1>2. PP!ParserInv
  BY <1>1 DEF FrontInv, ParseOK
<1>3. \A U : PP!NodesOver(U) \subseteq U => ret \in U
  BY <1>1, <1>2, PP!ParsesFollows DEF PP!Parses
<1>4. PP!NodesOver(Trees) \subseteq Trees
  BY SameNodes DEF Given
<1>5. ReadOK'
  BY <1>1, ReadKept DEF FrontInv
<1>6. StageOK' /\ LexOK' /\ ParseOK' /\ LostByQuote'
  BY <1>1 DEF StageOK, Stages, LexOK, ParseOK, LostByQuote
<1> QED BY <1>3, <1>4, <1>5, <1>6 DEF FrontInv

(* The compiler and the machine only work while nothing is read. *)
LEMMA Busy ==
  ASSUME FrontInv, mode # "reading", Process
  PROVE  stage = "prompt"
<1>1. mode \in {"compiling", "running", "disposing"}
  BY DEF Process, CompileStep, StartVM, RunStep, ProcessEnds, PrintAnswer, Printing, Stopped,
         DisposeTree, dispose_leaf_node, dispose_operation_node, dispose_return_node,
         dispose_ifelse_node, dispose_function_node, dispose_block_node, dispose_call_node,
         DisposeNULL, NameFreedTwice, Disposing, DisposeAborts, Dispose, TreeGone
<1> QED BY <1>1 DEF FrontInv, StageOK

LEMMA FrontStep ==
  ASSUME Given, FrontInv, [FrontNext]_frontVars
  PROVE  FrontInv'
<1>1. CASE ReadInput
  BY <1>1, ReadInputOK, ReadingOK DEF FrontInv
<1>2. CASE AcceptMore
  BY <1>2, AcceptMoreOK, ReadingOK DEF FrontInv
<1>3. CASE LexerExits \/ ParserExits
  BY <1>3, InputKept DEF LexerExits, ParserExits, Die
<1>4. CASE mode # "reading" /\ Process /\ UNCHANGED inputVars
  BY <1>4, Busy, InputKept
<1>5. CASE FrontDone \/ UNCHANGED frontVars
  <2>1. UNCHANGED inputVars /\ mode' = mode
    BY <1>5 DEF FrontDone, frontVars, sessionVars, replVars
  <2> QED BY <2>1, InputKept
<1> QED BY <1>1, <1>2, <1>3, <1>4, <1>5, OverrunOK, LexStepOK, StartParserOK, StartUnsetOK,
           LoseWayOK, ParseStepOK, ParsedOK
        DEF FrontNext, Program

LEMMA FrontBegins == Given /\ FrontInit => FrontInv
<1> SUFFICES ASSUME Given, FrontInit PROVE FrontInv
  OBVIOUS
<1>1. stdin \in Seq(L!Characters)
  BY InputsAssumption DEF FrontInit
<1>2. BufSize \in Nat /\ NUL \in L!Characters
  BY NULs
<1>3. buf \in BufType /\ filled \in 0..BufSize /\ stage = "prompt"
  BY <1>2 DEF FrontInit, Empty, BufType
<1> QED BY <1>1, <1>3 DEF FrontInv, ReadOK, StageOK, Stages, LexOK, ParseOK, LostByQuote

LEMMA FrontAlways == ASSUME Given PROVE FrontSpec => []FrontInv
<1>1. FrontInit => FrontInv
  BY FrontBegins
<1>2. FrontInv /\ [FrontNext]_frontVars => FrontInv'
  BY FrontStep
<1> QED BY <1>1, <1>2, PTL DEF FrontSpec

-----------------------------------------------------------------------------
(***************************************************************************)
(* A session.                                                              *)
(***************************************************************************)
LEMMA ProgramStep ==
  ASSUME Given, FrontInv, [FrontNext]_frontVars
  PROVE  ReplNext \/ Refuse \/ UNCHANGED sessionVars
<1>1. CASE ReadInput
  BY <1>1 DEF ReadInput
<1>2. CASE Parsed
  BY <1>2, ParsedOK DEF Parsed, ReplNext, ReadLine
<1>3. ASSUME Die, stage # "prompt" PROVE Refuse \/ UNCHANGED sessionVars
  <2>1. CASE mode = "reading"
    BY <1>3, <2>1 DEF Refuse
  <2>2. CASE mode = "dead"
    BY <1>3, <2>2 DEF Die, sessionVars, replVars
  <2> QED BY <1>3, <2>1, <2>2 DEF FrontInv, StageOK
<1>4. CASE LexerExits \/ ParserExits
  BY <1>3, <1>4 DEF LexerExits, ParserExits
<1>5. CASE Overrun \/ LoseWay
  BY <1>3, <1>5 DEF Overrun, LoseWay, Lexed
<1>6. CASE AcceptMore \/ Lex \/ StartParser \/ StartUnset \/ Parse
  BY <1>6 DEF AcceptMore, Lex, StartParser, StartUnset, BeginParsing, Parse
<1>7. CASE mode # "reading" /\ Process
  BY <1>7 DEF ReplNext
<1>8. CASE FrontDone \/ UNCHANGED frontVars
  BY <1>8 DEF FrontDone, frontVars
<1>9. Program => ReplNext \/ Refuse \/ UNCHANGED sessionVars
  BY <1>2, <1>4, <1>5, <1>6, <1>7 DEF Program
<1> QED BY <1>1, <1>8, <1>9 DEF FrontNext

LEMMA TypesFollow == FrontInv /\ ReplTypeOK => FrontTypeOK
<1> SUFFICES ASSUME FrontInv, ReplTypeOK PROVE FrontTypeOK
  OBVIOUS
<1>1. DOMAIN buf = 0..BufSize - 1 /\ filled \in 0..BufSize
  BY DEF FrontInv, ReadOK, BufType
<1>2. stage \in {"lexing", "parsing"} => L!LexerTypeOK
  BY LP!TypeFollows
     DEF FrontInv, LexOK, LP!LexerTypeOK, L!LexerTypeOK, LP!len, L!len, LP!Items, L!Items,
         LP!item_type, L!item_type, LP!OperatorTypes, L!OperatorTypes, LP!Keywords, L!Keywords,
         LP!itype_lit, L!itype_lit
<1>3. stage = "parsing" /\ EndInEof => P!ParserTypeOK
  BY PP!TypeFollows DEF FrontInv, ParseOK, PP!ParserTypeOK, P!ParserTypeOK
<1> QED BY <1>1, <1>2, <1>3 DEF FrontInv, StageOK, Stages, FrontTypeOK

(***************************************************************************)
(* The theorems are about any input and any size of the buffer.            *)
(***************************************************************************)

(* Whatever is typed, the program is a session: what it gives the compiler *)
(* are trees of the parser, which are all trees that a session may start   *)
(* from, and while it reads it touches nothing that the session keeps,     *)
(* except that it may end.                                                 *)
THEOREM ProgramIsSession ==
  ASSUME Given
  PROVE  FrontSpec => Session
<1>1. FrontInit => ReplInit
  BY DEF FrontInit
<1>2. FrontInv /\ [FrontNext]_frontVars => [ReplNext \/ Refuse]_sessionVars
  BY ProgramStep
<1> QED BY <1>1, <1>2, FrontAlways, PTL DEF FrontSpec, Session

(* Reading stays inside the buffer, in which strlen always finds an end,   *)
(* the lexer stays inside the text, and the parser among the items; the    *)
(* session keeps its types meanwhile.                                      *)
THEOREM FrontTyped ==
  ASSUME Given
  PROVE  FrontSpec => []FrontTypeOK
<1>1. SessionInv /\ FrontInv => FrontTypeOK
  BY SessionType, TypesFollow
<1> QED BY <1>1, ProgramIsSession, SessionInvHolds, FrontAlways, PTL

(* The lexer ends every text without a quote by an eof, so that the parser *)
(* finds its end; and accept_until leaves the buffer only when it is full. *)
THEOREM OnlyQuotesMislead ==
  ASSUME Given
  PROVE  FrontSpec => []LostByQuote
<1>1. FrontInv => LostByQuote
  BY DEF FrontInv
<1> QED BY <1>1, FrontAlways, PTL

(* What was proved of sessions of given trees holds from the characters    *)
(* on: no input, however wrong, takes the machine out of its frames or     *)
(* below its stack while the code is Trusted.                              *)
THEOREM InputsRunSafely ==
  ASSUME Given
  PROVE  FrontSpec => [](mode = "running" => FramesTile /\ NeverUnderflows)
BY ProgramIsSession, SafetyPromise

(* Nor does it move a constant or a global of the lines before, has        *)
(* tree->dispose go to a missing node of a line that compiled, or has a    *)
(* line use what was freed behind an earlier one, while its constants fit. *)
THEOREM InputsKeepPromises ==
  ASSUME Given
  PROVE  FrontSpec => /\ ConstantsNeverMove /\ GlobalsKeepIndices
                      /\ []NoHoleDisposed /\ []FreedStaysUnused
BY ProgramIsSession, ConstantsPromise, GlobalsPromise, HolesPromise, FreedPromise
=============================================================================
