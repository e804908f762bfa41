------------------------------ MODULE MCLexer ------------------------------
(***************************************************************************)
(* Texts for the lexer: every one of three characters, and longer ones     *)
(* over the characters that a state function waits for.                    *)
(***************************************************************************)
EXTENDS Lexer

UpTo(n, S) == UNION {[1..k -> S] : k \in 0..n}

Operatorish == {"+", "-", "*", "/", "%", "=", "!", "~", "<", ">", "&", "|", "^"}
Others == {"f", "n", "x", "_", "1", "0", ".", " ", "\n", "\r", ";", "(", ")", "{", "}",
           "[", "]", ",", ":", Quote, Backslash, "#", "@"}
Numberish == {"0", "1", "x", "e", ".", "+"}
Stringish == {Quote, Backslash, "x", "\n", "#", " "}
Keywordish == {Keywords[t] : t \in DOMAIN Keywords}

MCTexts == UpTo(3, Operatorish \cup Others) \cup UpTo(5, Numberish) \cup UpTo(5, Stringish)
           \cup Keywordish \cup {k \o <<c>> : k \in Keywordish, c \in {"(", "x", " "}}
           \cup {<<c, Backtick>> : c \in Others} \cup {<<Backtick, c, Backtick>> : c \in Others}
=============================================================================
