-------------------------------- MODULE Front --------------------------------
(***************************************************************************)
(* The whole program: main.c reading its input into a buffer of characters,*)
(* parse_input, which runs the lexer and then the parser on it, and the    *)
(* loop of Repl on the tree they make.                                     *)
(*                                                                         *)
(* Lexer and Parser are instances over parts of the state; the items go    *)
(* from one to the other as slices of the text.                            *)
(***************************************************************************)
EXTENDS Repl, FiniteSetsExt

CONSTANTS
  Inputs,    \* what standard input may hold: sequences of characters
  BufSize,   \* BUF_SIZE: 4096 in the code
  strtol     \* the number a literal of digits stands for

ASSUME BufSizeAssumption == BufSize \in Nat \ {0, 1}

VARIABLES
  stdin,     \* what is still to be read
  buf,       \* main's buffer
  filled,    \* len of main, and of accept_until
  stage,     \* "prompt", "more", "lexing", "parsing" or "lost"
  text,      \* what parse_input was given
  lexer, lexstate,            \* struct lexer and its state
  parser, calls, ret, pstat   \* struct parser, its calls and their result

readVars  == <<stdin, buf, filled>>
parseVars == <<parser, calls, ret, pstat>>
inputVars == <<readVars, stage, text, lexer, lexstate, parseVars>>
frontVars == <<sessionVars, inputVars>>

L == INSTANCE Lexer WITH input <- text, lx <- lexer, state <- lexstate, Texts <- {}

ASSUME InputsAssumption == Inputs \subseteq Seq(L!Characters)

Spelled(chars) ==
  LET upto[k \in 0..Len(chars)] == IF k = 0 THEN "" ELSE upto[k - 1] \o chars[k]
  IN upto[Len(chars)]

(* l.items, as the parser reads them. *)
LexedItems ==
  [k \in DOMAIN lexer.items |-> [type |-> lexer.items[k].type, lit |-> Spelled(L!Text(k))]]

P == INSTANCE Parser WITH items <- LexedItems, p <- parser, Inputs <- {}

-----------------------------------------------------------------------------
(***************************************************************************)
(* Reading.                                                                *)
(***************************************************************************)
NUL   == "NUL"
Empty == [i \in 0..BufSize - 1 |-> NUL]

(* strlen(&b[from]) *)
strlen(b, from) == Min({i \in DOMAIN b : i >= from /\ b[i] = NUL}) - from

(* The characters fgets takes for a buffer of n: through a newline, to the *)
(* end of the input, or n - 1.                                             *)
Chunk(n) ==
  LET newlines == {i \in DOMAIN stdin : stdin[i] = "\n"}
  IN SubSeq(stdin, 1, Min(newlines \cup {Len(stdin), n - 1}))

(* &b[at] after fgets took the characters s; at the end of the input it    *)
(* writes nothing.                                                         *)
Filled(b, at, s) ==
  IF stdin = <<>> THEN b
  ELSE [i \in DOMAIN b \cup at..at + Len(s) |->
          IF i \in at..at + Len(s) - 1 THEN s[i - at + 1]
          ELSE IF i = at + Len(s) THEN NUL ELSE b[i]]

fgets(s, b) == stdin' = SubSeq(stdin, Len(s) + 1, Len(stdin)) /\ buf' = b

(* parse_input(b, n): new_lexer, and the first call of lexer_run. *)
parse_input(b, n) ==
  /\ text' = [i \in 1..n |-> b[i - 1]]
  /\ lexer' = (L!new_lexer)'
  /\ lexstate' = "lex_expression"
  /\ stage' = "lexing"

(* The head of the loop.  trim_right begins at the NUL that ends the text, *)
(* where its loop stops: the newline stays.  So a brace is the last        *)
(* character only if there was no newline before the end of the input, of  *)
(* the buffer, or before a NUL.  accept_until then adds one.               *)
ReadInput ==
  /\ mode = "reading" /\ stage = "prompt" /\ lines < MaxLines
  /\ LET s == Chunk(BufSize)
         b == Filled(Empty, 0, s)
         n == strlen(b, 0)
     IN IF n > 0 /\ b[n - 1] = "{"
        THEN /\ fgets(s, [b EXCEPT ![n] = "\n"])
             /\ filled' = n + 1
             /\ stage' = "more"
             /\ UNCHANGED <<text, lexer, lexstate>>
        ELSE fgets(s, b) /\ filled' = n /\ parse_input(b, n)
  /\ UNCHANGED <<sessionVars, parseVars>>

EndsBlank(b, n) == b[n - 2] = "\n" /\ b[n - 1] = "\n"

(* Mutant of AcceptMore: the whole buffer is offered. *)
AcceptMore_whole_buffer ==
  /\ stage = "more" /\ filled < BufSize
  /\ LET s == Chunk(BufSize)
         b == Filled(buf, filled, s)
         n == filled + strlen(b, filled)
     IN /\ fgets(s, b)
        /\ filled' = n
        /\ IF EndsBlank(b, n) THEN parse_input(b, n)
           ELSE UNCHANGED <<stage, text, lexer, lexstate>>
  /\ UNCHANGED <<sessionVars, parseVars>>

(* One turn of accept_until.  With nothing left to read, or no room, it    *)
(* goes round for ever.                                                    *)
AcceptMore ==
  /\ stage = "more" /\ filled < BufSize
  /\ LET s == Chunk(BufSize - filled)
         b == Filled(buf, filled, s)
         n == filled + strlen(b, filled)
     IN /\ fgets(s, b)
        /\ filled' = n
        /\ IF EndsBlank(b, n) THEN parse_input(b, n)
           ELSE UNCHANGED <<stage, text, lexer, lexstate>>
  /\ UNCHANGED <<sessionVars, parseVars>>

(* The newline overwrote the last NUL: what follows the buffer is read. *)
Overrun ==
  /\ mode = "reading" /\ stage = "more" /\ filled = BufSize
  /\ \/ Die /\ UNCHANGED stage
     \/ stage' = "lost" /\ UNCHANGED sessionVars
  /\ UNCHANGED <<readVars, text, lexer, lexstate, parseVars>>

-----------------------------------------------------------------------------
(***************************************************************************)
(* parse_input: the lexer, then the parser on its items.                   *)
(***************************************************************************)
Lex ==
  /\ stage = "lexing" /\ L!lexer_run
  /\ UNCHANGED <<sessionVars, readVars, stage, parseVars>>

LexerExits ==
  /\ stage = "lexing" /\ lexstate = "exited"
  /\ Die
  /\ UNCHANGED inputVars

Lexed     == mode = "reading" /\ stage = "lexing" /\ lexstate = "NULL"
EndInEof  == LexedItems # <<>> /\ LexedItems[Len(LexedItems)].type = "eof"

BeginParsing(first) ==
  /\ parser' = first
  /\ calls' = P!CallParse /\ ret' = NoNode /\ pstat' = "parsing"
  /\ stage' = "parsing"
  /\ UNCHANGED <<sessionVars, readVars, text, lexer, lexstate>>

StartParser == Lexed /\ EndInEof /\ BeginParsing(P!new_parser)

(***************************************************************************)
(* Items without an eof.  cur or peek is not set if there are not two; it  *)
(* may happen to be an eof.  Otherwise parse exits, dies, or adds the last *)
(* statement again until it does.                                          *)
(***************************************************************************)
Unset == [type |-> "eof", lit |-> ""]

StartUnset ==
  /\ Lexed /\ ~EndInEof /\ Len(LexedItems) < 2
  /\ BeginParsing([cur |-> IF LexedItems = <<>> THEN Unset ELSE LexedItems[1],
                   index |-> 1, peek |-> Unset])

LoseWay ==
  /\ Lexed /\ ~EndInEof
  /\ \/ Die /\ UNCHANGED stage
     \/ stage' = "lost" /\ UNCHANGED sessionVars
  /\ UNCHANGED <<readVars, text, lexer, lexstate, parseVars>>

Parse ==
  /\ stage = "parsing"
  /\ UNCHANGED <<sessionVars, readVars, stage, text, lexer, lexstate>>
  /\ P!parse

ParserExits ==
  /\ stage = "parsing" /\ pstat = "exited"
  /\ Die
  /\ UNCHANGED inputVars

(* The tree goes to the compiler. *)
Parsed ==
  /\ stage = "parsing" /\ pstat = "parsed"
  /\ Take(ret)
  /\ stage' = "prompt"
  /\ UNCHANGED <<readVars, text, lexer, lexstate, parseVars>>

-----------------------------------------------------------------------------
FrontInit ==
  /\ ReplInit
  /\ stdin \in Inputs
  /\ buf = Empty /\ filled = 0 /\ text = <<>> /\ stage = "prompt"
  /\ lexer = L!new_lexer /\ lexstate = "NULL"
  /\ parser = [cur |-> Unset, index |-> 1, peek |-> Unset]
  /\ calls = <<>> /\ ret = NoNode /\ pstat = "parsed"

Program ==
  \/ AcceptMore \/ Overrun
  \/ Lex \/ LexerExits \/ StartParser \/ StartUnset \/ LoseWay
  \/ Parse \/ ParserExits \/ Parsed
  \/ mode # "reading" /\ Process /\ UNCHANGED inputVars

FrontDone ==
  /\ mode = "dead" \/ stage = "lost" \/ (stage = "prompt" /\ lines = MaxLines)
  /\ UNCHANGED frontVars

FrontNext == ReadInput \/ Program \/ FrontDone
FrontSpec == FrontInit /\ [][FrontNext]_frontVars /\ WF_frontVars(Program)
-----------------------------------------------------------------------------
(***************************************************************************)
(* Properties.                                                             *)
(***************************************************************************)

(* Type invariant: whatever the input, main stays inside its buffer, the   *)
(* session is left alone while a line is read, and the lexer and the       *)
(* parser keep their invariants on what they hand each other.              *)
FrontTypeOK ==
  /\ ReplTypeOK
  /\ DOMAIN buf = 0..BufSize - 1 /\ filled \in 0..BufSize
  /\ stage \in {"prompt", "more", "lexing", "parsing", "lost"}
  /\ stage # "prompt" => mode \in {"reading", "dead"}
  /\ stage \in {"lexing", "parsing"} => L!LexerTypeOK
  /\ stage = "parsing" /\ EndInEof => P!ParserTypeOK

(* The process reads memory it has not set only for a line that fills the  *)
(* buffer after a brace, or one with a quote: otherwise the lexer ends the *)
(* items with the eof that the parser stops at.                            *)
LostByQuote == stage = "lost" => filled = BufSize \/ L!In(L!Quote)

(* A line is answered, or the process ends.  It is the whole way: reading  *)
(* the text ends, its items end, the parser comes back or exits, the       *)
(* machine stops on whatever was compiled, and the tree is disposed.  Not  *)
(* so for raw strings, for which the lexer does not return, for a string   *)
(* that is not closed, and for a line that accept_until waits on.          *)
TextAnswered ==
  stage = "lexing" /\ {text[i] : i \in DOMAIN text} \cap {L!Quote, L!Backtick} = {}
    ~> (stage = "prompt" /\ mode = "reading") \/ mode = "dead"
=============================================================================
