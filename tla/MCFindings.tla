------------------------------ MODULE MCFindings ------------------------------
(***************************************************************************)
(* Statements of the README, the headers and the tests that the code does  *)
(* not keep, each with the line or lines that show it.                     *)
(***************************************************************************)
EXTENDS MCRepl

CaptureLines    == {B1(FnX(B1(FunctionNode(<<"y">>, B1(Op("plus", X, Y))))))}
GlobalLines     == {B1(Assign(X, One))}
ComparisonLines == {B1(Op("less", One, Two))}
NumberLines     == {B1(One)}
FindingNodes    == NodesOf(CaptureLines \cup GlobalLines \cup ComparisonLines \cup NumberLines)

(* README.md, "Recommended usage": a function uses the local variable of   *)
(* the function around it.  So what a function loads from the globals is a *)
(* global somebody defined, and not a variable to capture.                 *)
GlobalsLoadedAreDefined ==
  mode = "compiling" =>
    \A k \in DOMAIN scopes : \A p \in DOMAIN scopes[k].insts :
      scopes[k].insts[p].op = "get_global" => scopes[k].insts[p].a < tables[1].num_defs

(* README.md, "REPL": a name assigned on one line is used on the next.     *)
(* When the next line is about to be read, the session knows the globals.  *)
GlobalsSurvive ==
  mode = "reading" => \A i \in DOMAIN globals : Value(state_globals, i) = globals[i]

(* README.md, "REPL", prints the answer and goes on, and obj.c gives the   *)
(* static objects a dispose that does nothing: a line whose value was      *)
(* printed does not end the process.                                       *)
PrintedGoesOn == mode = "dead" => printed = NULL

(* tautest.c reads back the operand of op_constant and expects the         *)
(* position compiler_add_const returned: an instruction just emitted loads *)
(* the constant that was just added.                                       *)
LoadsWhatWasAdded ==
  mode = "compiling" /\ Scope.insts # <<>> /\ Scope.last.op = "constant" =>
    Scope.insts[Scope.last.pos + 1].a = nconsts - 1
=============================================================================
