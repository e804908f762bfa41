-------------------------------- MODULE Lexer --------------------------------
(***************************************************************************)
(* The lexer of src/src/lexer: a machine whose state functions name the    *)
(* next one.  One action is one call of a state function by lexer_run, or  *)
(* one turn of the loop inside lex_string.                                 *)
(*                                                                         *)
(* Positions count from 0.  An item keeps the slice [from, to) of the      *)
(* input it stands for.                                                    *)
(***************************************************************************)
EXTENDS Item, FiniteSets

CONSTANT Texts   \* the inputs

VARIABLES
  input,   \* the text
  lx,      \* struct lexer: start, pos, width, items
  state    \* the state function; "NULL" ends, "exited" is exit(1)

lexerVars == <<input, lx, state>>

eof == "eof"
Characters == STRING \ {eof}   \* next returns eof where there is none

ASSUME TextsAssumption == Texts \subseteq Seq(Characters)

(* Characters named by words, to keep them out of strings here. *)
Backtick == "backtick"
Quote == "quote"
Backslash == "backslash"
VerticalTab == "vertical tab"
len == Len(input)

Digits   == {"0", "1", "2", "3", "4", "5", "6", "7", "8", "9"}
HexDigits == Digits \cup {"a", "b", "c", "d", "e", "f", "A", "B", "C", "D", "E", "F"}
Spaces   == {" ", "\n", "\t", "\r", VerticalTab, "\f"}
Letters  == {"a", "b", "c", "d", "e", "f", "g", "h", "i", "j", "k", "l", "m",
             "n", "o", "p", "q", "r", "s", "t", "u", "v", "w", "x", "y", "z",
             "A", "B", "C", "D", "E", "F", "G", "H", "I", "J", "K", "L", "M",
             "N", "O", "P", "Q", "R", "S", "T", "U", "V", "W", "X", "Y", "Z"}
WordChars == Letters \cup Digits \cup {"_"}

-----------------------------------------------------------------------------
(***************************************************************************)
(* The primitives, on the lexer l: what next returns, and the lexer after  *)
(* each of them.                                                           *)
(***************************************************************************)
Char(l) == IF l.pos >= len THEN eof ELSE input[l.pos + 1]

(* Mutant of next: the end of the input is only recognised by its eof. *)
next_past_end(l) == [l EXCEPT !.pos = @ + l.width]

next(l) == IF l.pos >= len THEN [l EXCEPT !.width = 0]
           ELSE [l EXCEPT !.pos = @ + l.width]

ignore(l) == [l EXCEPT !.start = l.pos]
backup(l) == [l EXCEPT !.pos = @ - l.width]

(* At the end of the input accept does not call next and still backs up;   *)
(* otherwise next and backup cancel out.                                   *)
Accepts(l, valid) == Char(l) \in valid
accept(l, valid) ==
  CASE Accepts(l, valid) -> next(l)
    [] l.pos >= len      -> backup(l)
    [] OTHER             -> l

(* Skip while the characters are in valid, back up over the first other.   *)
accept_run(l, valid) ==
  LET stops == {p \in l.pos..len - 1 : input[p + 1] \notin valid}
  IN IF stops = {} THEN [l EXCEPT !.pos = len, !.width = 0]
     ELSE [l EXCEPT !.pos = CHOOSE p \in stops : \A q \in stops : p <= q]

Current(l) == SubSeq(input, l.start + 1, l.pos)

(* Mutant of emit: the next item begins where this one began. *)
emit_keeps_start(l, type) ==
  [l EXCEPT !.items = Append(@, [type |-> type, from |-> l.start, to |-> l.pos])]

emit(l, type) ==
  [l EXCEPT !.items = Append(@, [type |-> type, from |-> l.start, to |-> l.pos]),
            !.start = l.pos]

ignore_spaces(l) == ignore(accept_run(l, Spaces))

(* new_lexer and the first call of lexer_run. *)
new_lexer == ignore_spaces([start |-> 0, pos |-> 0, width |-> 1, items |-> <<>>])

LexerInit ==
  /\ input \in Texts
  /\ lx = new_lexer
  /\ state = "lex_expression"

Go(l, s) == lx' = l /\ state' = s /\ UNCHANGED input

-----------------------------------------------------------------------------
(* What a switch makes of its cases: rows of a case and its value. *)
Table(rows) == [c \in {r[1] : r \in rows} |-> (CHOOSE r \in rows : r[1] = c)[2]]

lex_identifier ==
  /\ state = "lex_identifier"
  /\ LET l == accept_run(lx, WordChars)
     IN Go(emit(l, lookup_type(Current(l))), "lex_expression")

(* lex_plus to lex_xor, and the cases = and ! of lex_expression: the type  *)
(* with each character that may follow, and the type without.              *)
Follow == [
  lex_plus  |-> [two |-> Table({<<"=", "plus_assign">>, <<"+", "plusplus">>}), one |-> "plus"],
  lex_minus |-> [two |-> Table({<<"=", "minus_assign">>, <<"+", "minusminus">>}), one |-> "minus"],
  lex_times |-> [two |-> Table({<<"=", "asterisk_assign">>}), one |-> "asterisk"],
  lex_slash |-> [two |-> Table({<<"=", "slash_assign">>}), one |-> "asterisk"],
  lex_mod   |-> [two |-> Table({<<"=", "modulus_assign">>}), one |-> "modulus"],
  lex_less_than |-> [two |-> Table({<<"=", "lteq">>}), one |-> "lt"],
  lex_greater_than |-> [two |-> Table({<<"=", "gteq">>}), one |-> "gt"],
  lex_and   |-> [two |-> Table({<<"&", "and">>, <<"=", "bw_and_assign">>}), one |-> "bw_and"],
  lex_or    |-> [two |-> Table({<<"|", "or">>, <<"=", "bw_or_assign">>}), one |-> "bw_or"],
  lex_xor   |-> [two |-> Table({<<"=", "bw_xor_assign">>}), one |-> "bw_xor"],
  equal     |-> [two |-> Table({<<"=", "equals">>}), one |-> "assign"],
  bang      |-> [two |-> Table({<<"=", "not_equals">>}), one |-> "bang"],
  lshift    |-> [two |-> Table({<<"=", "lshift_assign">>}), one |-> "lshift"],
  rshift    |-> [two |-> Table({<<"=", "rshift_assign">>}), one |-> "rshift"] ]

(* Mutant of Longest: the character that does not follow is not put back. *)
Longest_no_backup(l, rule) ==
  IF Char(l) \in DOMAIN rule.two THEN emit(next(l), rule.two[Char(l)])
  ELSE emit(next(l), rule.one)

Longest(l, rule) ==
  IF Char(l) \in DOMAIN rule.two THEN emit(next(l), rule.two[Char(l)])
  ELSE emit(backup(next(l)), rule.one)

(* The shift operators have a third character. *)
lex_operator ==
  /\ state \in DOMAIN Follow
  /\ Go(CASE state = "lex_less_than" /\ Char(lx) = "<"    -> Longest(next(lx), Follow.lshift)
          [] state = "lex_greater_than" /\ Char(lx) = ">" -> Longest(next(lx), Follow.rshift)
          [] OTHER                                        -> Longest(lx, Follow[state]),
        "lex_expression")

(* Mutant of lex_string: only a newline ends a string that is not closed. *)
lex_string_no_eof ==
  /\ state = "lex_string"
  /\ LET n == next(lx) IN
     IF Char(lx) = Quote THEN Go(ignore(next(emit(backup(n), "string"))), "lex_expression")
     ELSE Go(n, IF Char(lx) = "\n" THEN "NULL" ELSE "lex_string")

(* One turn of the loop of lex_string.  A backslash hides the character    *)
(* after it; with the end of the line, or of the input, the string is not  *)
(* terminated, and the items end without an eof.                           *)
lex_string ==
  /\ state = "lex_string"
  /\ LET n == next(lx) IN
     CASE Char(lx) = Quote ->
            Go(ignore(next(emit(backup(n), "string"))), "lex_expression")
       [] Char(lx) = Backslash /\ Char(n) \notin {eof, "\n"} -> Go(next(n), "lex_string")
       [] Char(lx) = Backslash /\ Char(n) \in {eof, "\n"}    -> Go(next(n), "NULL")
       [] Char(lx) \in {eof, "\n"}                      -> Go(n, "NULL")
       [] OTHER                                         -> Go(n, "lex_string")

(* The state set at the closing backtick is overwritten at the end. *)
lex_raw_string ==
  /\ state = "lex_raw_string"
  /\ Go(IF Char(lx) = Backtick
        THEN next(ignore(next(emit(backup(next(lx)), "rawstring"))))
        ELSE next(backup(next(lx))),
        "lex_raw_string")

(* Sign (lex_expression never sends one here), 0 or 0x, digits, point,     *)
(* exponent: each binding is the lexer after one part.                     *)
lex_number ==
  /\ state = "lex_number"
  /\ \E signed \in {accept(lx, {"+", "-"})} :
     \E zero \in {accept(signed, {"0"})} :
     \E prefix \in {IF Accepts(signed, {"0"}) THEN accept(zero, {"x", "X"}) ELSE zero} :
     LET hex    == Accepts(signed, {"0"}) /\ Accepts(zero, {"x", "X"})
         digits == IF hex THEN HexDigits ELSE Digits
     IN \E whole \in {accept_run(prefix, digits)} :
        \E dot \in {accept(whole, {"."})} :
        \E decimal \in {IF Accepts(whole, {"."}) THEN accept_run(dot, digits) ELSE dot} :
        \E exp \in {accept(decimal, {"e", "E"})} :
        LET float == Accepts(whole, {"."}) \/ Accepts(decimal, {"e", "E"})
            end   == IF Accepts(decimal, {"e", "E"})
                     THEN accept(accept(exp, {"+", "-"}), Digits) ELSE exp
        IN Go(emit(end, IF float THEN "float" ELSE "int"), "lex_expression")

-----------------------------------------------------------------------------
(***************************************************************************)
(* lex_expression, by its first character.  The case of the newline in its *)
(* switch is never reached: a newline is a space.                          *)
(***************************************************************************)
Single == Table({
  <<";", "semicolon">>, <<"(", "lparen">>, <<")", "rparen">>,
  <<"{", "lbrace">>, <<"}", "rbrace">>, <<",", "comma">>,
  <<"[", "lbracket">>, <<".", "dot">>})
SingleOnly == Table({
  <<"]", "rbracket">>, <<":", "colon">>, <<"~", "bw_not">>})

Longer == Table({
  <<"+", "lex_plus">>, <<"-", "lex_minus">>, <<"*", "lex_times">>,
  <<"/", "lex_slash">>, <<"%", "lex_mod">>, <<"<", "lex_less_than">>,
  <<">", "lex_greater_than">>, <<"&", "lex_and">>, <<"|", "lex_or">>,
  <<"^", "lex_xor">>})

LexSpace  == Char(lx) \in {" ", "\n", "\t"} /\ Go(ignore(next(lx)), state)
LexLetter == Char(lx) \in Letters /\ Go(backup(next(lx)), "lex_identifier")
LexDigit  == Char(lx) \in Digits /\ Go(backup(next(lx)), "lex_number")
LexSingle == \/ /\ Char(lx) \in DOMAIN Single
                /\ Go(ignore_spaces(emit(next(lx), Single[Char(lx)])), state)
             \/ /\ Char(lx) \in DOMAIN SingleOnly
                /\ Go(emit(next(lx), SingleOnly[Char(lx)]), state)
LexLonger == \/ /\ Char(lx) \in DOMAIN Longer
                /\ Go(next(lx), Longer[Char(lx)])
             \/ Char(lx) = "=" /\ Go(Longest(next(lx), Follow.equal), state)
             \/ Char(lx) = "!" /\ Go(Longest(next(lx), Follow.bang), state)
LexQuote  == \/ Char(lx) = Quote /\ Go(ignore(next(lx)), "lex_string")
             \/ Char(lx) = Backtick /\ Go(ignore(next(lx)), "lex_raw_string")

(* Mutant of LexComment: a comment on the last line ends the run. *)
LexComment_ends == Char(lx) = "#" /\ Go([lx EXCEPT !.pos = len, !.width = 0], "NULL")

(* accept_until(l, '\n') and ignore_spaces *)
LexComment == /\ Char(lx) = "#"
              /\ LET stops == {p \in lx.pos..len - 1 : input[p + 1] = "\n"}
                     l == IF stops = {} THEN [lx EXCEPT !.pos = len, !.width = 0]
                          ELSE [lx EXCEPT !.pos = CHOOSE p \in stops : \A q \in stops : p <= q]
                 IN Go(ignore_spaces(l), state)

LexEof == Char(lx) = eof /\ Go(emit(next(lx), "eof"), "NULL")

Known == {" ", "\n", "\t", "=", "!", Quote, Backtick, "#", eof} \cup Letters \cup Digits
         \cup DOMAIN Single \cup DOMAIN SingleOnly \cup DOMAIN Longer

LexInvalid == Char(lx) \notin Known /\ Go(next(lx), "exited")

lex_expression ==
  /\ state = "lex_expression"
  /\ \/ LexSpace \/ LexLetter \/ LexDigit \/ LexSingle \/ LexLonger
     \/ LexQuote \/ LexComment \/ LexEof \/ LexInvalid

lexer_run == lex_expression \/ lex_identifier \/ lex_operator \/ lex_string
             \/ lex_raw_string \/ lex_number

LexerSpec == LexerInit /\ [][lexer_run]_lexerVars /\ WF_lexerVars(lexer_run)

-----------------------------------------------------------------------------
Ended == state \in {"NULL", "exited"}
Items == 1..Len(lx.items)
Text(k) == SubSeq(input, lx.items[k].from + 1, lx.items[k].to)
In(c) == \E p \in 1..len : input[p] = c

(* The position stays inside the input, every item is a slice of it, and   *)
(* the state functions are those of the code.                              *)
LexerTypeOK ==
  /\ 0 <= lx.start /\ lx.start <= lx.pos /\ lx.pos <= len /\ lx.width \in {0, 1}
  /\ \A k \in Items : /\ lx.items[k].type \in item_type
                      /\ 0 <= lx.items[k].from /\ lx.items[k].from <= lx.items[k].to
                      /\ lx.items[k].to <= lx.pos
  /\ state \in {"lex_expression", "lex_identifier", "lex_string", "lex_raw_string",
                "lex_number", "NULL", "exited", "lex_plus", "lex_minus", "lex_times",
                "lex_slash", "lex_mod", "lex_less_than", "lex_greater_than",
                "lex_and", "lex_or", "lex_xor"}

Covering(p) == {k \in Items : lx.items[k].from <= p /\ p < lx.items[k].to}
Commented(p) == \E q \in 0..p : /\ input[q + 1] = "#" /\ Covering(q) = {}
                                /\ \A r \in q..p : input[r + 1] # "\n"

(* Whatever next, backup, accept and emit did to start and pos, a          *)
(* character of the text that was passed is in exactly one item, unless it *)
(* is a space, a quote or commented out: nothing is lost or read twice.    *)
TextCovered ==
  \A p \in 0..lx.start - 1 :
    \/ Cardinality(Covering(p)) = 1
    \/ /\ Covering(p) = {}
       /\ input[p + 1] \in Spaces \cup {Quote, Backtick} \/ Commented(p)

Operator(k) == lx.items[k].type \in OperatorTypes

NextChar(k) == {input[p] : p \in {lx.items[k].to + 1} \cap 1..len}

(* An operator is read as itself and is the longest one that begins there, *)
(* except that "/", "-+" and "--" are misread; a word ends where no letter *)
(* or digit follows, and is a keyword exactly if it is written like one.   *)
ItemsRead ==
  /\ \A k \in Items : Operator(k) =>
       /\ Text(k) \notin {<<"/">>, <<"-", "+">>} => Text(k) = itype_lit[lx.items[k].type]
       /\ \A c \in NextChar(k) : Text(k) \o <<c>> # <<"-", "-">> =>
            \A t \in OperatorTypes : itype_lit[t] # Text(k) \o <<c>>
  /\ \A k \in Items : lx.items[k].type \in DOMAIN Keywords \cup {"ident"} =>
       /\ NextChar(k) \cap WordChars = {}
       /\ lx.items[k].type = lookup_type(Text(k))

(* The parser stops at an eof item only: there is one, and it is the last, *)
(* unless the lexer gave up in a string.                                   *)
EofLast ==
  /\ \A k \in Items : lx.items[k].type = "eof" =>
       state = "NULL" /\ k = Len(lx.items) /\ lx.items[k].to = len
  /\ state = "NULL" /\ ~In(Quote) => \E k \in Items : lx.items[k].type = "eof"

(* lexer_run returns on every text without a raw string, strings that are  *)
(* not terminated and characters that begin no item included.              *)
LexerEnds == ~In(Backtick) => <>Ended

=============================================================================
