-------------------------------- MODULE Repl --------------------------------
(***************************************************************************)
(* The loop of main.c: the compiler and the virtual machine composed over  *)
(* the state of the session.                                               *)
(*                                                                         *)
(* Lexing and parsing give main a tree; here a line is one of Trees.  The  *)
(* state is copied by value into the machine, so the globals a run leaves  *)
(* in its copy are gone with it, while the symbol table and the constants  *)
(* are reached through pointers and stay.                                  *)
(*                                                                         *)
(* vm_dispose frees what every slot of the stack still points to and       *)
(* tree->dispose every string of the tree.  Freed objects are kept in      *)
(* freed.  free() of a static object aborts; of memory freed before, it    *)
(* aborts or goes unnoticed.                                               *)
(***************************************************************************)
EXTENDS Compiler, VM

CONSTANT MaxLines   \* bound: lines read in a session

VARIABLES
  mode,      \* "reading", "compiling", "running", "disposing" or "dead"
  lines,     \* lines read so far
  st,        \* state.st
  state_nconsts,   \* state.nconsts
  state_globals,   \* state.globals
  printed,   \* the object printed last, NULL before
  todo,      \* the nodes whose dispose is still to be called
  freed      \* objects that were given back

stateVars == <<st, state_nconsts, state_globals>>
replVars == <<mode, lines, stateVars, printed, todo, freed>>
sessionVars == <<replVars, compilerVars, machineVars>>

ReplInit ==
  /\ heap = Statics /\ consts = [i \in {} |-> NULL]
  /\ mode = "reading" /\ lines = 0
  /\ st = new_symbol_table /\ state_nconsts = 0
  /\ state_globals = [i \in {} |-> NULL]
  /\ printed = NULL /\ todo = <<>> /\ freed = {}
  /\ tree = NoNode /\ tables = <<st>> /\ scopes = <<new_scope>> /\ work = <<>>
  /\ nconsts = 0 /\ cstat = "compiled" /\ failed = FALSE /\ released = FALSE
  /\ stack = EmptyStack /\ sp = 0 /\ frames = <<>>
  /\ globals = state_globals /\ status = "halted"

(* What parse_input returned goes to new_compiler_with_state. *)
Take(n) ==
  /\ mode = "reading" /\ lines < MaxLines
  /\ LET c == Begin(st, n)
     IN /\ tree' = c.tree /\ tables' = c.tables
        /\ scopes' = c.scopes /\ work' = c.work
  /\ nconsts' = state_nconsts
  /\ cstat' = "compiling" /\ failed' = FALSE /\ released' = FALSE
  /\ mode' = "compiling" /\ lines' = lines + 1
  /\ UNCHANGED <<stateVars, printed, todo, freed, machineVars>>

ReadLine == \E n \in Trees : Take(n)

(* Mutant of CompileStep: the table of the innermost scope is kept. *)
CompileStep_innermost ==
  /\ mode = "compiling"
  /\ compile
  /\ mode' = IF cstat' = "crashed" THEN "dead" ELSE mode
  /\ st' = Innermost(tables')
  /\ UNCHANGED <<lines, state_nconsts, state_globals, printed, todo, freed, vmVars>>

(* compile; its result is not looked at. *)
CompileStep ==
  /\ mode = "compiling"
  /\ compile
  /\ mode' = IF cstat' = "crashed" THEN "dead" ELSE mode
  /\ st' = tables'[1]
  /\ UNCHANGED <<lines, state_nconsts, state_globals, printed, todo, freed, vmVars>>

(* Mutant of StartVM: state.nconsts is not updated. *)
StartVM_nconsts_lost ==
  /\ mode = "compiling" /\ cstat = "compiled"
  /\ heap' = Booted(heap, Scope.insts)
  /\ frames' = <<new_frame(Len(heap) + 2, 0)>>
  /\ stack' = EmptyStack /\ sp' = 0
  /\ globals' = state_globals
  /\ status' = "running" /\ mode' = "running"
  /\ UNCHANGED <<lines, stateVars, printed, todo, freed, consts, compilerVars>>

(* Mutant of StartVM: the memory of the machine before, not cleared. *)
StartVM_malloc ==
  /\ mode = "compiling" /\ cstat = "compiled"
  /\ state_nconsts' = state_nconsts + nconsts
  /\ heap' = Booted(heap, Scope.insts)
  /\ frames' = <<new_frame(Len(heap) + 2, 0)>>
  /\ stack' = stack /\ sp' = 0
  /\ globals' = state_globals
  /\ status' = "running" /\ mode' = "running"
  /\ UNCHANGED <<lines, st, state_globals, printed, todo, freed, consts, compilerVars>>

(* compiler_bytecode, the update of state.nconsts and new_vm_with_state.   *)
(* bc.nconsts already counts the constants of the lines before.            *)
StartVM ==
  /\ mode = "compiling" /\ cstat = "compiled"
  /\ state_nconsts' = state_nconsts + nconsts
  /\ heap' = Booted(heap, Scope.insts)
  /\ frames' = <<new_frame(Len(heap) + 2, 0)>>
  /\ stack' = EmptyStack /\ sp' = 0
  /\ globals' = state_globals
  /\ status' = "running" /\ mode' = "running"
  /\ UNCHANGED <<lines, st, state_globals, printed, todo, freed, consts, compilerVars>>

RunStep ==
  /\ mode = "running"
  /\ vm_run
  /\ UNCHANGED <<replVars, compilerVars>>

(***************************************************************************)
(* What comes after vm_run: the process ended in it, or the slot at sp is  *)
(* printed, the tree and the machine are disposed, and the loop goes on.   *)
(***************************************************************************)
Popped    == stack[sp]
OnStack   == {stack[i] : i \in Slots} \ {NULL}
Twice(id) == Cardinality({i \in Slots : stack[i] = id}) > 1

Stopped  == mode = "running" /\ status \in {"halted", "unhandled"} /\ sp < StackSize
Printing == Stopped /\ Popped # NULL

Die == mode' = "dead" /\ UNCHANGED <<lines, stateVars, printed, todo, freed,
                                     compilerVars, machineVars>>

ProcessEnds ==
  /\ mode = "running" /\ ~Running /\ ~Printing
  /\ Die

PrintAnswer ==
  /\ Printing
  /\ printed' = Popped
  /\ mode' = "disposing" /\ todo' = <<tree>>
  /\ UNCHANGED <<lines, stateVars, freed, compilerVars, machineVars>>

-----------------------------------------------------------------------------
(***************************************************************************)
(* tree->dispose, one action per dispose function.  Each of them disposes  *)
(* the children that are there; only dispose_call_node does not ask        *)
(* whether an argument is.  A name that compiler_leave_scope gave back is  *)
(* given back again, which aborts or goes unnoticed.                       *)
(***************************************************************************)
Disposing(types) == mode = "disposing" /\ todo # <<>> /\ Head(todo).t \in types

DisposeThen(children) ==
  /\ todo' = children \o Tail(todo)
  /\ UNCHANGED <<mode, lines, stateVars, printed, freed, compilerVars, machineVars>>

Present(n) == IF n = NoNode THEN <<>> ELSE <<n>>

dispose_leaf_node == Disposing({"integer", "null", "identifier"}) /\ DisposeThen(<<>>)

dispose_operation_node ==
  /\ Disposing(OperationTypes \cup {"assign"})
  /\ DisposeThen(Present(Head(todo).l) \o Present(Head(todo).r))

dispose_return_node ==
  Disposing({"return"}) /\ DisposeThen(Present(Head(todo).val))

dispose_ifelse_node ==
  /\ Disposing({"ifelse"})
  /\ DisposeThen(Present(Head(todo).cond) \o Present(Head(todo).body)
                 \o Present(Head(todo).altern))

dispose_function_node ==
  Disposing({"function"}) /\ DisposeThen(Present(Head(todo).body))

dispose_block_node == Disposing({"block"}) /\ DisposeThen(Head(todo).nodes)

dispose_call_node ==
  Disposing({"call"}) /\ DisposeThen(Present(Head(todo).fn) \o Head(todo).args)

DisposeNULL == Disposing({"NULL"}) /\ Die

HoldsName(n) == n.t = "identifier" \/ (n.t = "function" /\ n.params # <<>>)
NameFreedTwice ==
  /\ Disposing({"identifier", "function"})
  /\ released /\ HoldsName(Head(todo))
  /\ Die

DisposeTree ==
  \/ dispose_leaf_node \/ dispose_operation_node \/ dispose_return_node
  \/ dispose_ifelse_node \/ dispose_function_node \/ dispose_block_node
  \/ dispose_call_node \/ DisposeNULL \/ NameFreedTwice

-----------------------------------------------------------------------------
(* vm_dispose, after the tree. *)
TreeGone == mode = "disposing" /\ todo = <<>>

DisposeAborts ==
  /\ TreeGone
  /\ \/ OnStack \cap (1..3 \cup freed) # {}
     \/ \E id \in OnStack : Twice(id)
  /\ Die

(* Mutant of Dispose: the globals outlive the machine, the objects do not. *)
Dispose_keeps_globals ==
  /\ TreeGone
  /\ OnStack \cap 1..3 = {}
  /\ freed' = freed \cup OnStack
  /\ state_globals' = globals
  /\ mode' = "reading"
  /\ UNCHANGED <<lines, st, state_nconsts, printed, todo, compilerVars, machineVars>>

Dispose ==
  /\ TreeGone
  /\ OnStack \cap 1..3 = {}
  /\ freed' = freed \cup OnStack
  /\ mode' = "reading"
  /\ UNCHANGED <<lines, stateVars, printed, todo, compilerVars, machineVars>>

Process == CompileStep \/ StartVM \/ RunStep \/ ProcessEnds \/ PrintAnswer
           \/ DisposeTree \/ DisposeAborts \/ Dispose

(* The session is over, or as long as the bound lets it be. *)
SessionDone ==
  /\ mode = "dead" \/ (mode = "reading" /\ lines = MaxLines)
  /\ UNCHANGED sessionVars

ReplNext == ReadLine \/ Process \/ SessionDone
ReplSpec == ReplInit /\ [][ReplNext]_sessionVars /\ WF_sessionVars(Process)
-----------------------------------------------------------------------------
(***************************************************************************)
(* Properties.                                                             *)
(***************************************************************************)

(* Type invariant of the session. *)
ReplTypeOK ==
  /\ HeapOK
  /\ \A i \in DOMAIN consts : i \in Nat /\ consts[i] \in 1..Len(heap)
  /\ mode \in {"reading", "compiling", "running", "disposing", "dead"}
  /\ todo # <<>> => mode \in {"disposing", "dead"}
  /\ mode = "running" => TypeOK
  /\ TableOK(st)
  /\ freed \subseteq 1..Len(heap)
  /\ printed \in Ids(heap)

(* The constant a line was compiled against stays at its index for the     *)
(* rest of the session.  compile, which grows the array through a pointer, *)
(* and main, which counts the entries in a state of its own, have to       *)
(* agree: a count that is too small writes over older constants.           *)
ConstantsNeverMove ==
  [][\A i \in DOMAIN consts : i \in DOMAIN consts' /\ consts'[i] = consts[i]]_sessionVars

(* A global keeps its index, also when the line that introduced it failed  *)
(* halfway, inside nested scopes that are never left.                      *)
GlobalsKeepIndices ==
  [][\A n \in DOMAIN st.store :
       n \in DOMAIN st'.store /\ st'.store[n] = st.store[n]]_sessionVars

(* What the current chunk and the functions around it may still load. *)
Loaded(insts) ==
  {consts[insts[p].a] : p \in {q \in DOMAIN insts :
     insts[q].op \in {"constant", "closure"} /\ insts[q].a \in DOMAIN consts}}

(* No object that vm_dispose freed after an earlier line is reached by the *)
(* run of a later one: not through the stack, the globals or a captured    *)
(* variable, nor through the constants that its code loads, though the     *)
(* array of constants still points to freed objects.  Behind the constants *)
(* that an operand can name, a line would load those of an earlier one.    *)
FreedStaysUnused ==
  mode = "running" /\ Running /\ nconsts <= U16 =>
    /\ freed \cap (OnStack \cup {globals[i] : i \in DOMAIN globals}) = {}
    /\ \A n \in DOMAIN frames :
         LET cl == heap[frames[n].cl]
         IN freed \cap ({frames[n].cl} \cup Loaded(cl.fn.insts)
                         \cup {cl.free[i] : i \in DOMAIN cl.free}) = {}

(* tree->dispose falls into a missing argument only when the line did not  *)
(* compile: compile_call goes to every argument that dispose_call_node     *)
(* goes to, on a tree it has not seen the end of, and dies there itself.   *)
NoHoleDisposed ==
  mode = "disposing" /\ ~failed => \A i \in DOMAIN todo : todo[i] # NoNode
=============================================================================
