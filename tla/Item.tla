-------------------------------- MODULE Item --------------------------------
(***************************************************************************)
(* The items of src/src/item: types, their literals, and keywords.  A text *)
(* is a sequence of characters; a type is the code's enum item_type        *)
(* without its prefix.                                                     *)
(***************************************************************************)
EXTENDS Integers, Sequences

(* itype_lit, for the types that are written one way only.  ">>=" is       *)
(* written "<<=" in the table of item.c, which only shows in messages.     *)
itype_lit == [
  assign |-> <<"=">>, plus |-> <<"+">>, minus |-> <<"-">>, slash |-> <<"/">>,
  asterisk |-> <<"*">>, modulus |-> <<"%">>,
  plus_assign |-> <<"+", "=">>, minus_assign |-> <<"-", "=">>,
  asterisk_assign |-> <<"*", "=">>, slash_assign |-> <<"/", "=">>,
  modulus_assign |-> <<"%", "=">>, bw_and_assign |-> <<"&", "=">>,
  bw_or_assign |-> <<"|", "=">>, bw_xor_assign |-> <<"^", "=">>,
  lshift_assign |-> <<"<", "<", "=">>, rshift_assign |-> <<">", ">", "=">>,
  equals |-> <<"=", "=">>, not_equals |-> <<"!", "=">>, bang |-> <<"!">>,
  lt |-> <<"<">>, gt |-> <<">">>, lteq |-> <<"<", "=">>, gteq |-> <<">", "=">>,
  and |-> <<"&", "&">>, or |-> <<"|", "|">>, bw_and |-> <<"&">>,
  bw_not |-> <<"~">>, bw_or |-> <<"|">>, bw_xor |-> <<"^">>,
  lshift |-> <<"<", "<">>, rshift |-> <<">", ">">>,
  plusplus |-> <<"+", "+">>, minusminus |-> <<"-", "-">>,
  dot |-> <<".">>, comma |-> <<",">>, colon |-> <<":">>, semicolon |-> <<";">>,
  lparen |-> <<"(">>, rparen |-> <<")">>, lbrace |-> <<"{">>, rbrace |-> <<"}">>,
  lbracket |-> <<"[">>, rbracket |-> <<"]">> ]

Keywords == [
  function |-> <<"f", "n">>, for |-> <<"f", "o", "r">>,
  continue |-> <<"c", "o", "n", "t", "i", "n", "u", "e">>,
  break |-> <<"b", "r", "e", "a", "k">>, if |-> <<"i", "f">>,
  else |-> <<"e", "l", "s", "e">>, true |-> <<"t", "r", "u", "e">>,
  false |-> <<"f", "a", "l", "s", "e">>,
  return |-> <<"r", "e", "t", "u", "r", "n">>, null |-> <<"n", "u", "l", "l">>,
  import |-> <<"i", "m", "p", "o", "r", "t">>, tau |-> <<"t", "a", "u">> ]

OperatorTypes == DOMAIN itype_lit
item_type == OperatorTypes \cup DOMAIN Keywords
             \cup {"eof", "ident", "int", "float", "string", "rawstring"}

lookup_type(s) ==
  IF \E t \in DOMAIN Keywords : Keywords[t] = s
  THEN CHOOSE t \in DOMAIN Keywords : Keywords[t] = s
  ELSE "ident"
=============================================================================
