------------------------------- MODULE MCRepl -------------------------------
(***************************************************************************)
(* The session for TLC: single lines compared with what they mean, and     *)
(* sessions of several lines.                                              *)
(***************************************************************************)
EXTENDS Repl, Lines, Language

NoImages == {}

(* Lines that leave something behind, or fail, or kill the process. *)
FewWritten == {
  B1(Assign(X, One)), B1(X), B2(Assign(Y, Two), Op("plus", Y, One)), Nothing,
  B2(One, Fn0(B2(Assign(Y, One), Y))), B1(Ap(FnX(B1(Return(X))), <<Two>>)),
  B2(Assign(F, Fn0(B1(Two))), Ap(F, <<>>)),
  B1(IfElse(Zero, B1(Y), B1(One))), B1(FnX(B1(Identifier("z")))) }
FewLines == FewWritten \cup {
  B2(Two, Op("minus", Two, IfElse(One, B2(Assign(X, Two), One), B1(Zero)))),
  B1(Ap(FnX(B1(X)), <<NoNode>>)), B2(One, Ap(Identifier("z"), <<One, NoNode>>)) }
FewNodes == NodesOf(FewLines)

(* An object of the heap is the value v of the language. *)
Denotes(id, v) ==
  CASE id = NULL            -> v = Undefined
    [] v.type = "boolean"   -> id = parse_bool(v.i = 1)
    [] v.type = "function"  -> heap[id].type = "closure"
    [] v = Undefined        -> FALSE
    [] OTHER                -> heap[id] = v

Compiled == mode = "running" /\ ~failed

(* Constants this line added: bc.nconsts counts those before it, too. *)
OwnConstants == {consts[i] : i \in DOMAIN consts \cap state_nconsts - nconsts..nconsts - 1}

(* The code of every plain line that compiles keeps the promise of         *)
(* StackMap, with which the machine is known to be safe: functions, main   *)
(* chunk, and whatever patching and removal produced them.  A later line   *)
(* runs next to the functions of earlier ones, which need not be plain,    *)
(* and does not load them.                                                 *)
CompilerKeepsPromise ==
  Compiled /\ PlainTree(tree) =>
    /\ AcceptedMain(Fn(frames[1]))
    /\ \A id \in OwnConstants : IsType(id, "function") => Accepted(heap[id].fn)
    /\ lines = 1 => Trusted
    /\ Running => \A n \in 2..Len(frames) : \E id \in OwnConstants :
         IsType(id, "function") /\ heap[id].fn = Fn(frames[n])

(* The machine stopped with what t means: what is printed is the value of  *)
(* its last statement, or the run ends as an error where the language has  *)
(* no value.                                                               *)
Answers(t) ==
  LET o == Meaning(t)
  IN IF o.how = "stuck" THEN status \in {"exited", "fault"}
     ELSE status = "halted" /\ Denotes(Popped, o.v)

(* Compiling and running a plain line is evaluating it, and not what went  *)
(* before: with the globals gone (see GlobalsSurvive), no line changes     *)
(* what a later one means, through the constants, the symbol table, the    *)
(* stack or what was freed.                                                *)
MeaningKept == Compiled /\ PlainTree(tree) /\ ~Running => Answers(tree)

(* Integers, + and -, assignments and ifs. *)
RECURSIVE Arithmetic(_)
Arithmetic(n) ==
  /\ n.t \in {"integer", "plus", "minus", "assign", "ifelse", "block", "NULL"}
  /\ \A c \in Children(n) : Arithmetic(c)

(* A line of arithmetic that comes to a number is survived, wherever in a  *)
(* session: its compilation releases no name, and when the machine is      *)
(* disposed no static object, none in two slots, and none that an earlier  *)
(* line gave back is left on the stack.  (Not so if it reads a variable:   *)
(* x = 1; 1 + x; x leaves x in two slots; nor if it overflows the stack.) *)
ArithmeticSurvives ==
  mode = "dead" /\ PlainTree(tree) /\ Arithmetic(tree) =>
    Meaning(tree).v.type # "integer"
=============================================================================
