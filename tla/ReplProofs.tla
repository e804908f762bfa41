----------------------------- MODULE ReplProofs -----------------------------
(***************************************************************************)
(* Proofs about the session: the invariants of the compiler and of the     *)
(* machine hold in it, whatever lines are read in whatever order, and the  *)
(* promises that one line makes to the later ones are kept.                *)
(*                                                                         *)
(* SessionInv says what each mode of the loop may rely on: the compiler's  *)
(* invariant while a line is compiled, the machine's while it runs and is  *)
(* disposed, and in between only what main keeps in its own variables.     *)
(* HolesOK follows the nodes that tree->dispose comes by, and FreshInv     *)
(* what is left behind by the lines before.                                *)
(***************************************************************************)
EXTENDS Repl, CompilerProofs, VMProofs

USE DEF NULL, NullObj, TrueObj, FalseObj

Modes == {"reading", "compiling", "running", "disposing", "dead"}

KeptOK ==
  /\ mode \in Modes
  /\ HeapOK
  /\ DOMAIN consts \subseteq Nat /\ \A i \in DOMAIN consts : consts[i] \in 1..Len(heap)
  /\ state_nconsts \in Nat /\ DOMAIN state_globals = {}
  /\ st \in TableType /\ Numbered(st, global_scope)
  /\ freed \subseteq 1..Len(heap) /\ printed \in Ids(heap)
  /\ todo # <<>> => mode \in {"disposing", "dead"}

(* The constants are those that main has counted. *)
CountedOK ==
  mode \in {"reading", "running", "disposing"} => DOMAIN consts \subseteq 0..state_nconsts - 1

CompilingOK == mode = "compiling" => CompilerInv /\ st = tables[1]
RunningOK   == mode \in {"running", "disposing"} => SoundInv

SessionInv == KeptOK /\ CountedOK /\ CompilingOK /\ RunningOK

-----------------------------------------------------------------------------
(***************************************************************************)
(* Starting to compile and to run.                                         *)
(***************************************************************************)
Begun ==
  /\ StateOK /\ TablesOK
  /\ \E n \in Nodes : work = <<Visit(n), Halt>>
  /\ scopes = <<new_scope>> /\ Compiling /\ failed = FALSE

LEMMA BegunOK == Begun => CompilerInv
BY BeginFacts DEF Begun, CompilerInv

LEMMA BegunNext == (Begun => CompilerInv)'
BY BegunOK, PTL

LEMMA StartNext == (Starting => SoundInv)'
BY StartSound, PTL

(* A step of the machine, or none. *)
LEMMA SoundNext ==
  ASSUME SoundInv, vm_run \/ UNCHANGED machineVars
  PROVE  SoundInv'
<1>1. TypeOK'
  <2>1. UNCHANGED machineVars => TypeOK'
    BY UnchangedOK DEF SoundInv, TypeOK, machineVars, objVars, vmVars
  <2> QED BY <2>1, RunOK DEF SoundInv
<1>2. FramesTile' /\ NeverUnderflows'
  BY SoundStep DEF VMNext
<1> QED BY <1>1, <1>2 DEF SoundInv

-----------------------------------------------------------------------------
(***************************************************************************)
(* What a step of the compiler does to the state that outlives the line.   *)
(***************************************************************************)
LEMMA CompileIsStep ==
  ASSUME CompilerInv, compile
  PROVE  CompilerInv' /\ Compiling
<1>1. Kept
  BY CompilerStep DEF CompilerNext
<1>2. Compiling
  BY DEF compile, compile_integer, compile_null, compile_operation, compile_identifier,
         compile_assign, compile_assign_to_literal, compile_block, compile_call,
         compile_return, compile_ifelse, compile_ifelse_body, compile_ifelse_altern,
         compile_ifelse_end, compile_function, compile_function_end,
         compile_function_captures, compile_function_aborts, CompileNULL, Emit, Visiting, Doing
<1> QED BY <1>1, <1>2 DEF Kept

(* One object more at most, and no closure. *)
LEMMA CompileGrows ==
  ASSUME compile
  PROVE  heap' = heap \/ \E o : heap' = Append(heap, o) /\ o.type # "closure"
<1>1. \A i : new_integer_obj(i).type # "closure"
  BY DEF new_integer_obj
<1>2. \A i, p, l : new_function_obj(i, p, l).type # "closure"
  BY DEF new_function_obj
<1>3. ASSUME NEW s, AddFunction(s)
      PROVE  \E o : heap' = Append(heap, o) /\ o.type # "closure"
  BY <1>2, <1>3 DEF AddFunction
<1>4. CASE compile_integer
  BY <1>1, <1>4 DEF compile_integer
<1>5. CASE compile_function_end \/ compile_function_captures
  BY <1>3, <1>5 DEF compile_function_end, compile_function_captures, objVars
<1>6. CASE ~ compile_integer /\ ~ compile_function_end /\ ~ compile_function_captures
  <2>1. UNCHANGED heap
    BY <1>6 DEF compile, compile_null, compile_operation, compile_identifier,
         compile_assign, compile_assign_to_literal, compile_block, compile_call,
         compile_return, compile_ifelse, compile_ifelse_body, compile_ifelse_altern,
         compile_ifelse_end, compile_function,
         compile_function_aborts, CompileNULL, Emit, Plan, EmitHere, Fail,
         CompileAltern, objVars
  <2> QED BY <2>1
<1> QED BY <1>4, <1>5, <1>6

(* The array of constants is the same, or has one more at nconsts. *)
LEMMA CompileAdds ==
  ASSUME compile
  PROVE  UNCHANGED consts \/ \E id : compiler_add_const(id)
<1>1. ASSUME NEW s, AddFunction(s) PROVE \E id : compiler_add_const(id)
  BY <1>1 DEF AddFunction
<1>2. CASE compile_integer \/ compile_null
  BY <1>2 DEF compile_integer, compile_null
<1>3. CASE compile_function_end \/ compile_function_captures
  BY <1>1, <1>3 DEF compile_function_end, compile_function_captures, objVars
<1>4. CASE /\ ~ compile_integer /\ ~ compile_null
           /\ ~ compile_function_end /\ ~ compile_function_captures
  <2>1. UNCHANGED consts
    BY <1>4 DEF compile, compile_operation, compile_identifier,
         compile_assign, compile_assign_to_literal, compile_block, compile_call,
         compile_return, compile_ifelse, compile_ifelse_body, compile_ifelse_altern,
         compile_ifelse_end, compile_function,
         compile_function_aborts, CompileNULL, Emit, Plan, EmitHere, Fail,
         CompileAltern, objVars
  <2> QED BY <2>1
<1> QED BY <1>2, <1>3, <1>4

(* The constants there were stay where they are. *)
ConstantsStay == \A i \in DOMAIN consts : i \in DOMAIN consts' /\ consts'[i] = consts[i]

LEMMA CompileKeepsConstants ==
  ASSUME CompilerInv, compile
  PROVE  ConstantsStay
<1>1. CASE UNCHANGED consts
  BY <1>1 DEF ConstantsStay
<1>2. ASSUME NEW id, compiler_add_const(id) PROVE ConstantsStay
  <2>1. nconsts \in Nat /\ DOMAIN consts \subseteq 0..nconsts - 1
    BY DEF CompilerInv, StateOK
  <2>2. nconsts \notin DOMAIN consts
    BY <2>1
  <2>3. consts' = [j \in DOMAIN consts \cup {nconsts} |-> IF j = nconsts THEN id ELSE consts[j]]
    BY <1>2 DEF compiler_add_const, Put
  <2> QED BY <2>2, <2>3 DEF ConstantsStay
<1> QED BY <1>1, <1>2, CompileAdds

(* The names of the outermost table, which is the session's, keep their    *)
(* symbols; the tables of nested functions come and go behind it.          *)
NamesStay(t, u) == \A n \in DOMAIN t.store : n \in DOMAIN u.store /\ u.store[n] = t.store[n]

LEMMA FirstTableKept ==
  ASSUME CompilerInv, compile
  PROVE  NamesStay(tables[1], tables'[1])
<1>1. /\ Compiling /\ Chain(tables) /\ tables \in Seq(TableType)
      /\ Len(tables) \in Nat /\ Len(tables) >= 1 /\ Len(tables) = Len(scopes)
      /\ 1 \in DOMAIN tables
  <2>1. Compiling /\ Chain(tables) /\ Len(tables) = Len(scopes)
    BY CompileIsStep, Now
  <2> QED BY <2>1 DEF Chain
<1>2. ASSUME NEW ts, Extends(tables, ts) PROVE NamesStay(tables[1], ts[1])
  BY <1>1, <1>2 DEF Extends, NamesStay
<1>3. CASE UNCHANGED tables
  BY <1>3 DEF NamesStay
<1>4. CASE tables' = Outer(tables) /\ Head(work).do = "function"
  <2>1. Len(scopes) >= 2
    BY <1>1, <1>4, TwoScopes DEF Going, Halt, EmitTask
  <2> DEFINE m == Len(tables) - 1
  <2>2. m \in Nat /\ Len(tables) = m + 1 /\ 1 \in 1..m
    BY <1>1, <2>1
  <2>3. Outer(tables)[1] = tables[1]
    <3> HIDE DEF m
    <3> QED BY <1>1, <2>2, OuterFacts
  <2> QED BY <1>4, <2>3 DEF NamesStay
<1>5. CASE compile_identifier
  <2>1. Node.name \in STRING /\ tables' = symbol_table_resolve(tables, Node.name).tables
    <3>1. Going /\ Head(work).do = "visit" /\ Node.t = "identifier"
      BY <1>1, <1>5 DEF Going, compile_identifier, Visiting, Doing, Halt, EmitTask
    <3>2. Node.name \in STRING
      BY <3>1, Visited, NodeFacts
    <3> QED BY <1>5, <3>2 DEF compile_identifier
  <2>2. Extends(tables, tables')
    BY <1>1, <2>1, ResolveFacts, SameNamesFacts
  <2> QED BY <1>2, <2>2
<1>6. CASE compile_assign
  <2>1. Going /\ Head(work).do = "visit" /\ Node.t = "assign" /\ Node.l.t = "identifier"
    BY <1>1, <1>6 DEF Going, compile_assign, Visiting, Doing, Halt, EmitTask
  <2>2. Node.l.name \in STRING
    <3>1. Node \in Nodes
      BY <2>1, Visited
    <3>2. Node.l \in Nodes
      BY <2>1, <3>1, NodeFacts DEF Exprs
    <3> QED BY <2>1, <3>2, NodeFacts
  <2>3. Extends(tables, tables')
    BY <1>1, <1>6, <2>2, DefineFacts DEF compile_assign
  <2> QED BY <1>2, <2>3
<1>7. CASE compile_function
  <2>1. Going /\ Head(work).do = "visit" /\ Node.t = "function"
    BY <1>1, <1>7 DEF Going, compile_function, Visiting, Doing, Halt, EmitTask
  <2>2. Node.params \in Seq(STRING)
    BY <2>1, Visited, NodeFacts
  <2> DEFINE us == Append(tables, new_symbol_table)
  <2>3. Chain(us) /\ us[1] = tables[1] /\ 1 \in DOMAIN us
    BY <1>1, NewTableFacts
  <2> HIDE DEF us
  <2>4. Extends(us, DefineAll(us, Node.params))
    BY <2>2, <2>3, DefineAllFacts
  <2>5. tables' = DefineAll(us, Node.params)
    BY <1>7 DEF compile_function, us
  <2> QED BY <2>3, <2>4, <2>5 DEF Extends, NamesStay
<1>8. UNCHANGED tables \/ compile_identifier \/ compile_assign \/ compile_function
      \/ (tables' = Outer(tables) /\ Head(work).do = "function")
  BY DEF compile, compile_integer, compile_null, compile_operation,
         compile_assign_to_literal, compile_block, compile_call,
         compile_return, compile_ifelse, compile_ifelse_body, compile_ifelse_altern,
         compile_ifelse_end, compile_function_end, compile_function_captures,
         compiler_leave_scope,
         compile_function_aborts, CompileNULL, Emit, Plan, EmitHere, Fail, CompileAltern, Doing
<1> QED BY <1>3, <1>4, <1>5, <1>6, <1>7, <1>8

-----------------------------------------------------------------------------
(***************************************************************************)
(* One lemma for each kind of step of the session.                         *)
(***************************************************************************)
(* What the steps promise of the state that outlives a line. *)
Promises == ConstantsStay /\ NamesStay(st, st')

LEMMA SamePromises ==
  ASSUME UNCHANGED <<consts, st>>
  PROVE  Promises
BY DEF Promises, ConstantsStay, NamesStay

LEMMA SameHeap ==
  ASSUME HeapOK, UNCHANGED heap
  PROVE  HeapOK'
BY DEF HeapOK, Ids

LEMMA TakeStep ==
  ASSUME SessionInv, NEW n \in Trees, Take(n)
  PROVE  SessionInv' /\ Promises
<1>1. /\ mode = "reading" /\ mode' = "compiling"
      /\ tree' = n /\ tables' = <<st>> /\ scopes' = <<new_scope>> /\ work' = <<Visit(n), Halt>>
      /\ nconsts' = state_nconsts /\ cstat' = "compiling" /\ failed' = FALSE /\ released' = FALSE
      /\ UNCHANGED <<st, state_nconsts, state_globals, printed, todo, freed, heap, consts>>
  BY DEF Take, Begin, stateVars, machineVars, objVars
<1>2. KeptOK'
  BY <1>1, SameHeap DEF SessionInv, KeptOK, Modes, Ids
<1>3. StateOK'
  <2>1. DOMAIN consts \subseteq 0..state_nconsts - 1 /\ state_nconsts \in Nat
        /\ heap \in Seq(ObjectType) /\ Len(heap) >= 3
        /\ \A i \in DOMAIN consts : consts[i] \in 1..Len(heap)
    BY <1>1 DEF SessionInv, CountedOK, KeptOK, HeapOK
  <2> QED BY <1>1, <2>1 DEF StateOK
<1>4. TablesOK'
  <2>1. st \in TableType /\ Numbered(st, global_scope)
    BY DEF SessionInv, KeptOK
  <2> DEFINE ts == <<st>>
  <2>2. ts \in Seq(TableType) /\ Len(ts) = 1 /\ DOMAIN ts = {1} /\ ts[1] = st
    <3> HIDE DEF TableType
    <3> QED BY <2>1
  <2>3. Len(scopes') = 1 /\ tables' = ts
    BY <1>1
  <2> HIDE DEF ts
  <2> QED BY <2>1, <2>2, <2>3 DEF TablesOK
<1>5. Begun'
  <2>1. n \in Nodes
    BY NodesAssumption
  <2> QED BY <1>1, <1>3, <1>4, <2>1 DEF Begun, Compiling
<1>6. CompilerInv'
  BY <1>5, BegunNext
<1>7. tables'[1] = st'
  BY <1>1
<1> QED BY <1>1, <1>2, <1>6, <1>7, SamePromises
        DEF SessionInv, CountedOK, CompilingOK, RunningOK

LEMMA CompileSession ==
  ASSUME SessionInv, CompileStep
  PROVE  SessionInv' /\ Promises
<1>1. /\ mode = "compiling" /\ compile /\ CompilerInv /\ st = tables[1]
      /\ mode' = IF cstat' = "crashed" THEN "dead" ELSE mode
      /\ st' = tables'[1]
      /\ UNCHANGED <<state_nconsts, state_globals, printed, todo, freed>>
  BY DEF CompileStep, SessionInv, CompilingOK
<1>2. CompilerInv'
  BY <1>1, CompileIsStep
<1>3. ConstantsStay /\ NamesStay(st, st')
  BY <1>1, CompileKeepsConstants, FirstTableKept
<1>4. HeapOK' /\ Len(heap') >= Len(heap) /\ Len(heap) \in Nat /\ Len(heap') \in Nat
  <2>1. HeapOK /\ heap \in Seq(ObjectType) /\ Len(heap) \in Nat
    BY DEF SessionInv, KeptOK, HeapOK
  <2>2. heap' \in Seq(ObjectType)
    BY <1>2 DEF CompilerInv, StateOK
  <2>3. CASE heap' = heap
    BY <2>1, <2>3, SameHeap
  <2>4. ASSUME NEW o, heap' = Append(heap, o), o.type # "closure"
        PROVE  HeapOK' /\ Len(heap') >= Len(heap) /\ Len(heap') \in Nat
    <3>1. /\ Len(heap') = Len(heap) + 1 /\ heap'[Len(heap) + 1] = o
          /\ \A id \in 1..Len(heap) : heap'[id] = heap[id]
      <4> HIDE DEF ObjectType
      <4> QED BY <2>1, <2>2, <2>4
    <3>2. ASSUME NEW id \in 1..Len(heap'), heap'[id].type = "closure",
                 NEW i \in DOMAIN heap'[id].free
          PROVE  heap'[id].free[i] \in Ids(heap')
      <4>1. id \in 1..Len(heap)
        BY <2>1, <2>4, <3>1, <3>2
      <4>2. heap[id].free[i] \in Ids(heap)
        BY <2>1, <3>1, <3>2, <4>1 DEF HeapOK
      <4> QED BY <2>1, <3>1, <4>1, <4>2 DEF Ids
    <3> QED BY <2>1, <2>2, <3>1, <3>2 DEF HeapOK
  <2> QED BY <1>1, <2>1, <2>3, <2>4, CompileGrows
<1>5. /\ DOMAIN consts' \subseteq Nat
      /\ \A i \in DOMAIN consts' : consts'[i] \in 1..Len(heap')
  <2>1. /\ nconsts' \in Nat /\ DOMAIN consts' \subseteq 0..nconsts' - 1
        /\ \A i \in DOMAIN consts' : consts'[i] \in 1..Len(heap')
    BY <1>2 DEF CompilerInv, StateOK
  <2> QED BY <2>1
<1>6. st' \in TableType /\ Numbered(st', global_scope)
  <2>1. 1 \in DOMAIN tables'
    <3>1. Len(tables') = Len(scopes') /\ Len(scopes') >= 1 /\ tables' \in Seq(TableType)
      BY <1>2 DEF CompilerInv, TablesOK, ScopesOK
    <3> QED BY <3>1
  <2> QED BY <1>1, <1>2, <2>1 DEF CompilerInv, TablesOK
<1>7. freed' \subseteq 1..Len(heap') /\ printed' \in Ids(heap')
  <2>1. freed \subseteq 1..Len(heap) /\ printed \in Ids(heap)
    BY DEF SessionInv, KeptOK
  <2>2. 1..Len(heap) \subseteq 1..Len(heap') /\ Ids(heap) \subseteq Ids(heap')
    BY <1>4 DEF Ids
  <2> QED BY <1>1, <2>1, <2>2
<1>8. /\ mode' \in {"compiling", "dead"} /\ todo' = <<>>
      /\ state_nconsts' \in Nat /\ DOMAIN state_globals' = {}
  BY <1>1 DEF SessionInv, KeptOK
<1>9. KeptOK'
  BY <1>4, <1>5, <1>6, <1>7, <1>8 DEF KeptOK, Modes
<1> QED BY <1>1, <1>2, <1>3, <1>8, <1>9
        DEF SessionInv, CountedOK, CompilingOK, RunningOK, Promises

LEMMA StartSession ==
  ASSUME SessionInv, StartVM
  PROVE  SessionInv' /\ Promises
<1>1. /\ mode = "compiling" /\ mode' = "running" /\ CompilerInv
      /\ state_nconsts' = state_nconsts + nconsts
      /\ heap' = Booted(heap, Scope.insts) /\ frames' = <<new_frame(Len(heap) + 2, 0)>>
      /\ stack' = EmptyStack /\ sp' = 0 /\ globals' = state_globals /\ status' = "running"
      /\ UNCHANGED <<st, state_globals, printed, todo, freed, consts>>
  BY DEF StartVM, SessionInv, CompilingOK
<1>2. /\ HeapOK /\ heap \in Seq(ObjectType) /\ Len(heap) >= 3 /\ Len(heap) \in Nat
      /\ DOMAIN consts \subseteq Nat /\ \A i \in DOMAIN consts : consts[i] \in 1..Len(heap)
      /\ DOMAIN state_globals = {} /\ state_nconsts \in Nat
      /\ \A id \in 1..Len(heap) :
           heap[id].type = "closure" =>
             \A i \in DOMAIN heap[id].free : heap[id].free[i] \in Ids(heap)
  BY DEF SessionInv, KeptOK, HeapOK
<1>3. Scope.insts \in Seq(Cell)
  <2>1. Scope \in ScopeType
    BY <1>1 DEF CompilerInv, ScopesOK, Scope
  <2> QED BY <2>1 DEF ScopeType
<1>4. Starting'
  <2> DEFINE h == heap
             insts == Scope.insts
  <2>1. h \in Seq(ObjectType) /\ insts \in Seq(Cell)
    BY <1>2, <1>3
  <2>2. /\ Len(h) >= 3
        /\ \A id \in 1..Len(h) :
             h[id].type = "closure" =>
               \A i \in DOMAIN h[id].free : h[id].free[i] \in Ids(h)
        /\ DOMAIN consts' \subseteq Nat /\ DOMAIN globals' \subseteq Nat
        /\ \A i \in DOMAIN consts' : consts'[i] \in 1..Len(h)
        /\ \A i \in DOMAIN globals' : globals'[i] \in Ids(h)
        /\ heap' = Booted(h, insts) /\ frames' = <<new_frame(Len(h) + 2, 0)>>
        /\ stack' = EmptyStack /\ sp' = 0 /\ status' = "running"
    BY <1>1, <1>2
  <2> HIDE DEF h, insts
  <2> QED BY <2>1, <2>2 DEF Starting
<1>5. SoundInv' /\ TypeOK'
  BY <1>4, StartNext DEF SoundInv
<1>6. Len(heap') = Len(heap) + 2
  <2> DEFINE f == new_function_obj(Scope.insts, 0, 0)
             c == new_closure_obj(MainFunction(Scope.insts), <<>>)
  <2>1. heap' = heap \o <<f, c>>
    BY <1>1 DEF Booted
  <2> HIDE DEF f, c
  <2> QED BY <1>2, <2>1
<1>7. freed' \subseteq 1..Len(heap') /\ printed' \in Ids(heap')
  <2>1. freed \subseteq 1..Len(heap) /\ printed \in Ids(heap)
    BY DEF SessionInv, KeptOK
  <2>2. 1..Len(heap) \subseteq 1..Len(heap') /\ Ids(heap) \subseteq Ids(heap')
    BY <1>2, <1>6 DEF Ids
  <2> QED BY <1>1, <2>1, <2>2
<1>8. KeptOK'
  <2>1. nconsts \in Nat
    BY <1>1 DEF CompilerInv, StateOK
  <2>2. state_nconsts' \in Nat
    BY <1>1, <1>2, <2>1
  <2>3. /\ DOMAIN state_globals' = {} /\ st' \in TableType /\ Numbered(st', global_scope)
        /\ todo' = <<>> /\ mode' \in Modes
    BY <1>1, <1>2 DEF SessionInv, KeptOK, Modes
  <2>4. DOMAIN consts' \subseteq Nat /\ \A i \in DOMAIN consts' : consts'[i] \in 1..Len(heap')
    BY <1>5 DEF TypeOK, ReferencesOK
  <2>5. HeapOK'
    BY <1>5 DEF TypeOK
  <2> QED BY <1>7, <2>2, <2>3, <2>4, <2>5 DEF KeptOK
<1>9. CountedOK'
  <2>1. DOMAIN consts \subseteq 0..nconsts - 1 /\ nconsts \in Nat
    BY <1>1 DEF CompilerInv, StateOK
  <2>2. 0..nconsts - 1 \subseteq 0..state_nconsts' - 1
    BY <1>1, <1>2, <2>1
  <2> QED BY <1>1, <2>1, <2>2 DEF CountedOK
<1> QED BY <1>1, <1>5, <1>8, <1>9, SamePromises DEF SessionInv, CompilingOK, RunningOK

LEMMA RunSession ==
  ASSUME SessionInv, RunStep
  PROVE  SessionInv' /\ Promises
<1>1. /\ mode = "running" /\ SoundInv /\ TypeOK /\ vm_run
      /\ UNCHANGED <<mode, st, state_nconsts, state_globals, printed, todo, freed>>
  BY DEF RunStep, SessionInv, RunningOK, replVars, stateVars, SoundInv
<1>2. SoundInv' /\ TypeOK'
  BY <1>1, SoundNext DEF SoundInv
<1>3. HeapGrows
  BY <1>1, BottomStays DEF VMNext
<1>4. UNCHANGED consts
  BY <1>1 DEF vm_run, Load, ReturnWith, Stop,
           TARGET_CONST, TARGET_TRUE, TARGET_FALSE, TARGET_NULL,
           TARGET_CURRENT_CLOSURE, TARGET_GET_GLOBAL, TARGET_GET_LOCAL,
           TARGET_GET_FREE, TARGET_SET_GLOBAL, TARGET_SET_LOCAL, TARGET_ARITH,
           TARGET_BOOLEAN, TARGET_BANG, TARGET_CLOSURE, TARGET_CALL,
           TARGET_RETURN, TARGET_RETURN_VALUE, TARGET_JUMP,
           TARGET_JUMP_NOT_TRUTHY, TARGET_POP, TARGET_HALT, UNHANDLED,
           Underflow, Overflow, BadCode, Fault, Exit
<1>5. freed' \subseteq 1..Len(heap') /\ printed' \in Ids(heap')
  <2>1. freed \subseteq 1..Len(heap) /\ printed \in Ids(heap)
    BY DEF SessionInv, KeptOK
  <2>2. Len(heap) \in Nat
    BY <1>1 DEF TypeOK, HeapOK
  <2>3. 1..Len(heap) \subseteq 1..Len(heap') /\ Ids(heap) \subseteq Ids(heap')
    BY <1>3, <2>2 DEF Ids, HeapGrows
  <2> QED BY <1>1, <2>1, <2>3
<1>6. KeptOK'
  BY <1>1, <1>2, <1>4, <1>5 DEF SessionInv, KeptOK, TypeOK, ReferencesOK
<1>7. CountedOK'
  BY <1>1, <1>4 DEF SessionInv, CountedOK
<1> QED BY <1>1, <1>2, <1>4, <1>6, <1>7, SamePromises
        DEF SessionInv, CompilingOK, RunningOK

(* After the run: printing, disposing, dying, and going on. *)
LEMMA QuietStep ==
  ASSUME SessionInv, mode' \in {"reading", "disposing", "dead"},
         mode \in {"running", "disposing"} \/ mode' = "dead",
         UNCHANGED <<stateVars, machineVars>>,
         freed' \subseteq 1..Len(heap), printed' \in Ids(heap),
         todo' # <<>> => mode' \in {"disposing", "dead"}
  PROVE  SessionInv' /\ Promises
<1>1. UNCHANGED <<st, state_nconsts, state_globals, heap, consts, stack, sp, frames, globals, status>>
  BY DEF stateVars, machineVars, objVars, vmVars
<1>2. RunningOK'
  <2>1. CASE mode \in {"running", "disposing"}
    BY <2>1, SoundNext DEF SessionInv, RunningOK
  <2>2. CASE mode' = "dead"
    BY <2>2 DEF RunningOK
  <2> QED BY <2>1, <2>2
<1>3. KeptOK'
  BY <1>1, SameHeap DEF SessionInv, KeptOK, Modes, Ids
<1>4. CountedOK'
  BY <1>1 DEF SessionInv, CountedOK
<1> QED BY <1>1, <1>2, <1>3, <1>4, SamePromises DEF SessionInv, CompilingOK, RunningOK

LEMMA DieStep ==
  ASSUME SessionInv, mode \in {"reading", "running", "disposing"}, Die
  PROVE  SessionInv' /\ Promises
BY QuietStep DEF Die, SessionInv, KeptOK

LEMMA PrintStep ==
  ASSUME SessionInv, PrintAnswer
  PROVE  SessionInv' /\ Promises
<1>1. /\ mode = "running" /\ mode' = "disposing" /\ sp < StackSize
      /\ printed' = stack[sp] /\ TypeOK /\ UNCHANGED <<stateVars, machineVars, freed>>
  BY DEF PrintAnswer, Printing, Stopped, Popped, SessionInv, RunningOK, SoundInv
<1>2. sp \in Slots /\ stack \in [Slots -> Ids(heap)]
  BY <1>1, SizeAssumption DEF TypeOK, ReferencesOK, Slots
<1> QED BY <1>1, <1>2, QuietStep DEF SessionInv, KeptOK

LEMMA OnStackFacts ==
  ASSUME TypeOK
  PROVE  OnStack \subseteq 1..Len(heap)
<1>1. stack \in [Slots -> Ids(heap)] /\ Len(heap) \in Nat
  BY DEF TypeOK, ReferencesOK, HeapOK
<1> QED BY <1>1 DEF OnStack, Ids

LEMMA DisposeTreeStep ==
  ASSUME SessionInv, DisposeTree
  PROVE  SessionInv' /\ Promises
<1>1. mode = "disposing"
  BY DEF DisposeTree, dispose_leaf_node, dispose_operation_node, dispose_return_node,
         dispose_ifelse_node, dispose_function_node, dispose_block_node, dispose_call_node,
         DisposeNULL, NameFreedTwice, Disposing
<1>2. Die \/ \E children : DisposeThen(children)
  BY DEF DisposeTree, dispose_leaf_node, dispose_operation_node, dispose_return_node,
         dispose_ifelse_node, dispose_function_node, dispose_block_node, dispose_call_node,
         DisposeNULL, NameFreedTwice
<1>3. ASSUME NEW children, DisposeThen(children) PROVE SessionInv' /\ Promises
  BY <1>1, <1>3, QuietStep DEF DisposeThen, SessionInv, KeptOK
<1> QED BY <1>1, <1>2, <1>3, DieStep

LEMMA DisposeStep ==
  ASSUME SessionInv, DisposeAborts \/ Dispose
  PROVE  SessionInv' /\ Promises
<1>1. CASE DisposeAborts
  BY <1>1, DieStep DEF DisposeAborts, TreeGone
<1>2. CASE Dispose
  <2>1. /\ mode = "disposing" /\ mode' = "reading" /\ todo' = <<>>
        /\ freed' = freed \cup OnStack /\ UNCHANGED <<stateVars, machineVars, printed>>
    BY <1>2 DEF Dispose, TreeGone
  <2>2. OnStack \subseteq 1..Len(heap)
    BY <2>1, OnStackFacts DEF SessionInv, RunningOK, SoundInv
  <2> QED BY <2>1, <2>2, QuietStep DEF SessionInv, KeptOK
<1> QED BY <1>1, <1>2

LEMMA IdleStep ==
  ASSUME SessionInv, UNCHANGED sessionVars
  PROVE  SessionInv' /\ Promises
<1>1. /\ UNCHANGED <<mode, st, state_nconsts, state_globals, printed, todo, freed>>
      /\ UNCHANGED <<tree, tables, scopes, nconsts, work, cstat, failed, released>>
      /\ UNCHANGED <<heap, consts, stack, sp, frames, globals, status>>
  BY DEF sessionVars, replVars, stateVars, compilerVars, machineVars, objVars, vmVars
<1>2. KeptOK' /\ CountedOK'
  BY <1>1, SameHeap DEF SessionInv, KeptOK, CountedOK, Ids
<1>3. CompilerInv => CompilerInv'
  <2>1. Kept \/ ~ CompilerInv
    BY <1>1, CompilerStep DEF compilerVars, objVars
  <2> QED BY <2>1 DEF Kept
<1>4. SoundInv => SoundInv'
  BY <1>1, SoundNext DEF machineVars, objVars, vmVars
<1> QED BY <1>1, <1>2, <1>3, <1>4, SamePromises DEF SessionInv, CompilingOK, RunningOK

(* A session that may also end while a line is read: parse_input does not  *)
(* always come back with a tree.                                           *)
Refuse  == mode = "reading" /\ Die
Session == ReplInit /\ [][ReplNext \/ Refuse]_sessionVars

LEMMA EverySession == ReplSpec => Session
<1>1. [ReplNext]_sessionVars => [ReplNext \/ Refuse]_sessionVars
  OBVIOUS
<1> QED BY <1>1, PTL DEF ReplSpec, Session

LEMMA SessionStep ==
  ASSUME SessionInv, [ReplNext \/ Refuse]_sessionVars
  PROVE  SessionInv' /\ Promises
<1>1. CASE ReadLine
  BY <1>1, TakeStep DEF ReadLine
<1>2. CASE CompileStep
  BY <1>2, CompileSession
<1>3. CASE StartVM
  BY <1>3, StartSession
<1>4. CASE RunStep
  BY <1>4, RunSession
<1>5. CASE ProcessEnds \/ Refuse
  BY <1>5, DieStep DEF ProcessEnds, Refuse
<1>6. CASE PrintAnswer
  BY <1>6, PrintStep
<1>7. CASE DisposeTree
  BY <1>7, DisposeTreeStep
<1>8. CASE DisposeAborts \/ Dispose
  BY <1>8, DisposeStep
<1>9. CASE SessionDone \/ UNCHANGED sessionVars
  BY <1>9, IdleStep DEF SessionDone
<1> QED BY <1>1, <1>2, <1>3, <1>4, <1>5, <1>6, <1>7, <1>8, <1>9 DEF ReplNext, Process

LEMMA SessionBegins ==
  ASSUME ReplInit
  PROVE  SessionInv
<1>1. /\ heap = Statics /\ consts = [i \in {} |-> NULL]
      /\ mode = "reading" /\ st = new_symbol_table /\ state_nconsts = 0
      /\ state_globals = [i \in {} |-> NULL]
      /\ printed = NULL /\ todo = <<>> /\ freed = {}
  BY DEF ReplInit
<1>2. HeapOK
  <2>1. /\ NullObject \in ObjectType /\ new_boolean_obj(1) \in ObjectType
        /\ new_boolean_obj(0) \in ObjectType
        /\ NullObject.type # "closure" /\ new_boolean_obj(1).type # "closure"
        /\ new_boolean_obj(0).type # "closure"
    BY DEF NullObject, new_boolean_obj, ObjectType
  <2> HIDE DEF ObjectType, NullObject, new_boolean_obj
  <2>2. heap \in Seq(ObjectType) /\ Len(heap) = 3
    BY <1>1, <2>1 DEF Statics
  <2>3. \A id \in 1..Len(heap) : heap[id].type # "closure"
    BY <1>1, <2>1, <2>2 DEF Statics
  <2>4. Len(heap) >= 3
    BY <2>2
  <2> QED BY <2>2, <2>3, <2>4 DEF HeapOK
<1>3. st \in TableType /\ Numbered(st, global_scope)
  <2>1. st \in TableType
    <3>1. [n \in {} |-> NoSymbol] \in [{} -> SymbolType] /\ {} \in SUBSET STRING
          /\ <<>> \in Seq(SymbolType) /\ 0 \in Nat
      OBVIOUS
    <3> QED BY <1>1, <3>1 DEF new_symbol_table, TableType
  <2>2. DOMAIN st.store = {} /\ st.num_defs = 0 /\ 0..0 - 1 = {}
    BY <1>1 DEF new_symbol_table
  <2> QED BY <2>1, <2>2 DEF Numbered
<1>4. DOMAIN consts = {} /\ DOMAIN state_globals = {}
  BY <1>1
<1>5. NULL \in Ids(heap)
  BY <1>2 DEF HeapOK, Ids
<1> QED BY <1>1, <1>2, <1>3, <1>4, <1>5
        DEF SessionInv, KeptOK, CountedOK, CompilingOK, RunningOK, Modes

LEMMA SessionInvHolds == Session => []SessionInv
<1>1. ReplInit => SessionInv
  BY SessionBegins
<1>2. SessionInv /\ [ReplNext \/ Refuse]_sessionVars => SessionInv'
  BY SessionStep
<1> QED BY <1>1, <1>2, PTL DEF Session

LEMMA SessionType == SessionInv => ReplTypeOK
<1> SUFFICES ASSUME SessionInv PROVE ReplTypeOK
  OBVIOUS
<1>1. TableOK(st)
  <2>1. st \in TableType
    BY DEF SessionInv, KeptOK
  <2>2. /\ DOMAIN st.store \subseteq STRING
        /\ st.store \in [DOMAIN st.store -> SymbolType]
        /\ st.free \in Seq(SymbolType) /\ st.num_defs \in Nat
    BY <2>1, TableFacts
  <2> QED BY <2>2 DEF TableOK
<1> QED BY <1>1 DEF SessionInv, KeptOK, RunningOK, ReplTypeOK, Modes, SoundInv

LEMMA ConstantsPromise == Session => ConstantsNeverMove
<1>1. SessionInv /\ [ReplNext \/ Refuse]_sessionVars =>
        [\A i \in DOMAIN consts : i \in DOMAIN consts' /\ consts'[i] = consts[i]]_sessionVars
  BY SessionStep DEF Promises, ConstantsStay
<1> QED BY <1>1, SessionInvHolds, PTL DEF Session, ConstantsNeverMove

LEMMA GlobalsPromise == Session => GlobalsKeepIndices
<1>1. SessionInv /\ [ReplNext \/ Refuse]_sessionVars =>
        [\A n \in DOMAIN st.store :
           n \in DOMAIN st'.store /\ st'.store[n] = st.store[n]]_sessionVars
  BY SessionStep DEF Promises, NamesStay
<1> QED BY <1>1, SessionInvHolds, PTL DEF Session, GlobalsKeepIndices

-----------------------------------------------------------------------------
(* What main keeps between lines is well formed in every mode, and nothing *)
(* on the stack, in the globals or in a closure refers to an object that   *)
(* is not there, after any sequence of lines.                              *)
THEOREM SessionTyped == ReplSpec => []ReplTypeOK
BY EverySession, SessionType, SessionInvHolds, PTL

(* compiler_add_const, which writes where a count it was given points, and *)
(* main, which adds up the counts of the lines, never write over a         *)
(* constant of an earlier line.                                            *)
THEOREM ConstantsKeepTheirPlace == ReplSpec => ConstantsNeverMove
BY EverySession, ConstantsPromise

(* A name that a line entered into the table of the session keeps its      *)
(* index, whatever scopes later lines open and leave, or leave open.       *)
THEOREM GlobalsKeepTheirPlace == ReplSpec => GlobalsKeepIndices
BY EverySession, GlobalsPromise

(* The invariants of the compiler hold for every line of a session, on the *)
(* symbol table and the constants the lines before it left behind.         *)
THEOREM LinesCompileAlike ==
  ReplSpec => [](mode = "compiling" => CompilerTypeOK /\ SlotsAreOwn /\ LastInstTracked /\ JumpsWait)
<1>1. SessionInv => (mode = "compiling" => CompilerInv)
  BY DEF SessionInv, CompilingOK
<1>2. CompilerInv => CompilerTypeOK /\ SlotsAreOwn /\ LastInstTracked /\ JumpsWait
  BY InvImplies
<1> QED BY <1>1, <1>2, EverySession, SessionInvHolds, PTL

-----------------------------------------------------------------------------
(***************************************************************************)
(* tree->dispose goes where the compiler went.  V are the nodes that the   *)
(* compiler has been to; what dispose would go to from one of them is in V *)
(* or still to be compiled.  A missing node can be compiled only by dying, *)
(* so when nothing is left to compile and nothing failed, V is closed and  *)
(* has no missing node.                                                    *)
(***************************************************************************)
Elements(s) == {s[i] : i \in DOMAIN s}

(* The nodes whose dispose is called from n's. *)
Kids(n) ==
  CASE n.t \in OperationTypes \cup {"assign"} -> {n.l, n.r} \ {NoNode}
    [] n.t = "return"   -> {n.val} \ {NoNode}
    [] n.t = "ifelse"   -> {n.cond, n.body, n.altern} \ {NoNode}
    [] n.t = "function" -> {n.body} \ {NoNode}
    [] n.t = "block"    -> Elements(n.nodes)
    [] n.t = "call"     -> ({n.fn} \ {NoNode}) \cup Elements(n.args)
    [] OTHER            -> {}

(* The nodes that a call, or a sequence of calls, is going to compile. *)
Pend(c) ==
  CASE c.do = "visit" -> {c.node}
    [] c.do = "cond"  -> {c.node.body, c.node.altern} \ {NoNode}
    [] c.do = "body"  -> {c.node.altern} \ {NoNode}
    [] OTHER          -> {}
Pending(w) == UNION {Pend(w[i]) : i \in DOMAIN w}

OneHalt(w) == \A i \in 1..Len(w) - 1 : w[i] # Halt

Covers(V, w, t) ==
  /\ V \subseteq Nodes /\ NoNode \notin V
  /\ t \in V \cup Pending(w)
  /\ \A v \in V : Kids(v) \subseteq V \cup Pending(w)

Covered(w, t) == OneHalt(w) /\ \E V : Covers(V, w, t)

(* To go on with ts instead of c leaves no node out. *)
Enters(c, ts) ==
  /\ ts \in Seq(Task) /\ \A i \in DOMAIN ts : ts[i] # Halt
  /\ \E U \in SUBSET Nodes :
       /\ NoNode \notin U /\ \A n \in U : Kids(n) \subseteq U \cup Pending(ts)
       /\ Pend(c) \subseteq U \cup Pending(ts)

LEMMA PendingAfter ==
  ASSUME NEW v \in Seq(Task), v # <<>>, NEW ts \in Seq(Task)
  PROVE  /\ Pending(ts) \subseteq Pending(After(ts, v))
         /\ Pending(v) \subseteq Pend(v[1]) \cup Pending(After(ts, v))
<1> DEFINE w == After(ts, v)
<1>1. /\ w \in Seq(Task) /\ Len(v) \in Nat /\ Len(v) >= 1 /\ Len(ts) \in Nat
      /\ Len(w) = Len(ts) + Len(v) - 1
      /\ \A i \in 1..Len(ts) : w[i] = ts[i]
      /\ \A i \in 2..Len(v) : w[Len(ts) + i - 1] = v[i]
  BY Behind
<1> HIDE DEF w, Task
<1>2. \A i \in DOMAIN ts : i \in DOMAIN w /\ w[i] = ts[i]
  <2>1. DOMAIN ts = 1..Len(ts) /\ DOMAIN w = 1..Len(w)
    BY <1>1
  <2>2. 1..Len(ts) \subseteq 1..Len(w)
    BY <1>1
  <2> QED BY <1>1, <2>1, <2>2
<1>3. ASSUME NEW i \in DOMAIN v, i # 1 PROVE \E j \in DOMAIN w : w[j] = v[i]
  <2> DEFINE j == Len(ts) + i - 1
  <2>1. i \in 2..Len(v) /\ j \in 1..Len(w)
    BY <1>1, <1>3
  <2>2. j \in DOMAIN w /\ w[j] = v[i]
    BY <1>1, <2>1
  <2> HIDE DEF j
  <2> QED BY <2>2
<1>4. Pending(ts) \subseteq Pending(w)
  BY <1>2 DEF Pending
<1>5. Pending(v) \subseteq Pend(v[1]) \cup Pending(w)
  BY <1>3 DEF Pending
<1> QED BY <1>4, <1>5 DEF w

LEMMA OneHaltAfter ==
  ASSUME NEW v \in Seq(Task), v # <<>>, NEW ts \in Seq(Task), OneHalt(v),
         \A i \in DOMAIN ts : ts[i] # Halt
  PROVE  OneHalt(After(ts, v))
<1> DEFINE w == After(ts, v)
<1>1. /\ Len(v) \in Nat /\ Len(v) >= 1 /\ Len(ts) \in Nat
      /\ Len(w) = Len(ts) + Len(v) - 1
      /\ \A i \in 1..Len(ts) : w[i] = ts[i]
      /\ \A i \in Len(ts) + 1..Len(w) : w[i] = v[i - Len(ts) + 1]
  BY Behind
<1> HIDE DEF w, Task, Halt
<1>2. ASSUME NEW i \in 1..Len(w) - 1 PROVE w[i] # Halt
  <2>1. CASE i \in 1..Len(ts)
    BY <1>1, <2>1
  <2>2. CASE i \notin 1..Len(ts)
    <3>1. i \in Len(ts) + 1..Len(w) /\ i - Len(ts) + 1 \in 1..Len(v) - 1
      BY <1>1, <2>2
    <3> QED BY <1>1, <3>1 DEF OneHalt
  <2> QED BY <2>1, <2>2
<1> QED BY <1>2 DEF OneHalt, w

LEMMA CoverStep ==
  ASSUME NEW v \in Seq(Task), v # <<>>, NEW t, Covered(v, t), NEW ts, Enters(v[1], ts)
  PROVE  Covered(After(ts, v), t)
<1> DEFINE w == After(ts, v)
<1>1. OneHalt(w)
  BY OneHaltAfter DEF Enters, Covered
<1>2. PICK V : Covers(V, v, t)
  BY DEF Covered
<1>3. PICK U \in SUBSET Nodes :
        /\ NoNode \notin U /\ \A n \in U : Kids(n) \subseteq U \cup Pending(ts)
        /\ Pend(v[1]) \subseteq U \cup Pending(ts)
  BY DEF Enters
<1>4. /\ Pending(ts) \subseteq Pending(w)
      /\ Pending(v) \subseteq Pend(v[1]) \cup Pending(w)
  BY PendingAfter DEF Enters
<1> HIDE DEF w
<1>5. Pending(v) \subseteq U \cup Pending(w)
  BY <1>3, <1>4
<1>6. Covers(V \cup U, w, t)
  BY <1>2, <1>3, <1>4, <1>5 DEF Covers
<1> QED BY <1>1, <1>6 DEF Covered, w

LEMMA PendingHas ==
  ASSUME NEW ts, NEW c, Has(ts, c)
  PROVE  Pend(c) \subseteq Pending(ts)
BY DEF Has, Pending

LEMMA PendFacts ==
  /\ \A n : Pend(Visit(n)) = {n} /\ Visit(n) # Halt
  /\ \A n : Pend(AfterCond(n)) = {n.body, n.altern} \ {NoNode} /\ AfterCond(n) # Halt
  /\ \A n, p : Pend(AfterBody(n, p)) = {n.altern} \ {NoNode} /\ AfterBody(n, p) # Halt
  /\ \A p : AfterAltern(p) # Halt
  /\ \A n : AfterFunction(n) # Halt
BY DEF Pend, Visit, AfterCond, AfterBody, AfterAltern, AfterFunction, Halt, EmitTask

(* A node is entered by calls that go to all its parts. *)
LEMMA EntersNode ==
  ASSUME NEW c, NEW n \in Nodes, n # NoNode, Pend(c) = {n}, NEW ts \in Seq(Task),
         \A i \in DOMAIN ts : ts[i] # Halt, Kids(n) \subseteq Pending(ts)
  PROVE  Enters(c, ts)
<1> DEFINE U == {n}
<1>1. /\ U \in SUBSET Nodes /\ NoNode \notin U /\ \A m \in U : Kids(m) \subseteq U \cup Pending(ts)
      /\ Pend(c) \subseteq U \cup Pending(ts)
  OBVIOUS
<1> HIDE DEF U
<1> QED BY <1>1 DEF Enters

LEMMA EntersOn ==
  ASSUME NEW c, NEW ts \in Seq(Task),
         \A i \in DOMAIN ts : ts[i] # Halt, Pend(c) \subseteq Pending(ts)
  PROVE  Enters(c, ts)
<1> DEFINE U == {}
<1>1. /\ U \in SUBSET Nodes /\ NoNode \notin U /\ \A m \in U : Kids(m) \subseteq U \cup Pending(ts)
      /\ Pend(c) \subseteq U \cup Pending(ts)
  OBVIOUS
<1> HIDE DEF U
<1> QED BY <1>1 DEF Enters

(* No calls at all, after a node that has no parts, or after no node. *)
LEMMA EntersEmpty ==
  ASSUME NEW c
  PROVE  /\ Pend(c) = {} => Enters(c, <<>>)
         /\ \A n \in Nodes : n # NoNode /\ Pend(c) = {n} /\ Kids(n) = {} => Enters(c, <<>>)
<1> DEFINE ts == <<>>
<1>1. ts \in Seq(Task) /\ \A i \in DOMAIN ts : ts[i] # Halt
  OBVIOUS
<1> HIDE DEF ts
<1>2. Pend(c) = {} => Enters(c, ts)
  BY <1>1, EntersOn
<1>3. \A n \in Nodes : n # NoNode /\ Pend(c) = {n} /\ Kids(n) = {} => Enters(c, ts)
  BY <1>1, EntersNode
<1> QED BY <1>2, <1>3 DEF ts

(* The calls ts, and what they are going to compile. *)
Goal(ts, N) ==
  /\ ts \in Seq(Task) /\ \A i \in DOMAIN ts : ts[i] # Halt
  /\ N \subseteq Pending(ts)

LEMMA TwoCalls ==
  ASSUME NEW a \in Task, NEW b \in Task, a # Halt, b # Halt
  PROVE  Goal(<<a, b>>, Pend(a) \cup Pend(b))
<1> DEFINE ts == <<a, b>>
<1> HIDE DEF Task, Halt
<1>1. ts \in Seq(Task) /\ DOMAIN ts = {1, 2} /\ ts[1] = a /\ ts[2] = b
  OBVIOUS
<1> HIDE DEF ts
<1>2. \A i \in DOMAIN ts : ts[i] # Halt
  BY <1>1
<1>3. Pend(a) \cup Pend(b) \subseteq Pending(ts)
  BY <1>1 DEF Pending
<1>4. Goal(ts, Pend(a) \cup Pend(b))
  BY <1>1, <1>2, <1>3 DEF Goal
<1> QED BY <1>4 DEF ts

(* A step that goes on with calls that leave no node out. *)
GoesOn == \E ts \in Seq(Task) : work' = After(ts, work) /\ Enters(work[1], ts)

(* The node that is visited: it is there. *)
LEMMA AtNode ==
  ASSUME CompilerInv, Compiling, NEW types, Visiting(types), "NULL" \notin types
  PROVE  /\ Going /\ Node \in Nodes /\ Node # NoNode /\ Node.t \in types
         /\ Head(work).do = "visit" /\ Pend(work[1]) = {Node}
<1>1. Head(work).do = "visit" /\ Node.t \in types /\ Going
  BY DEF Visiting, Doing, Going, Halt, EmitTask
<1>2. Node \in Nodes
  BY <1>1, Visited
<1>3. Head(work) = work[1]
  BY Now
<1>4. Node # NoNode
  BY <1>1 DEF NoNode
<1> QED BY <1>1, <1>2, <1>3, <1>4 DEF Pend, Node

LEMMA PlanEnters ==
  ASSUME CompilerInv, Compiling, NEW types, Visiting(types), "NULL" \notin types,
         NEW ts, Goal(ts, Kids(Node)), work' = ts \o Tail(work)
  PROVE  GoesOn
<1>1. Node \in Nodes /\ Node # NoNode /\ Pend(work[1]) = {Node}
  BY AtNode
<1>2. Enters(work[1], ts)
  BY <1>1, EntersNode DEF Goal
<1> QED BY <1>2 DEF GoesOn, After, Goal

Leaves == {"integer", "null", "identifier"}

LEMMA LeafEnters ==
  ASSUME CompilerInv, Compiling, Visiting(Leaves), Continue(<<>>)
  PROVE  GoesOn
<1>1. "NULL" \notin Leaves
  BY DEF Leaves
<1>2. Node \in Nodes /\ Node # NoNode /\ Pend(work[1]) = {Node} /\ Node.t \in Leaves
  BY <1>1, AtNode
<1>3. Kids(Node) = {}
  BY <1>2 DEF Kids, Leaves, OperationTypes
<1> DEFINE ts == <<>>
<1>4. Enters(work[1], ts) /\ ts \in Seq(Task) /\ work' = After(ts, work)
  BY <1>2, <1>3, EntersEmpty DEF After, Continue
<1> HIDE DEF ts
<1> QED BY <1>4 DEF GoesOn

LEMMA OperationEnters ==
  ASSUME CompilerInv, Compiling, compile_operation
  PROVE  GoesOn
<1> DEFINE a == Visit(Node.l)
           b == Visit(Node.r)
           e == EmitTask(OperationOp(Node.t), 0)
           ts == (IF Node.t \in {"less", "lesseq"} THEN <<b, a>> ELSE <<a, b>>) \o <<e>>
<1>1. Visiting(OperationTypes) /\ "NULL" \notin OperationTypes /\ work' = ts \o Tail(work)
  BY DEF compile_operation, Plan, Continue, OperationTypes
<1>2. Node \in Nodes /\ Node.t \in OperationTypes
  BY <1>1, AtNode
<1>3. Node.l \in Nodes /\ Node.r \in Nodes
  BY <1>2, NodeFacts DEF Exprs
<1>4. OperationOp(Node.t) \in Deferred /\ OperationOp(Node.t) # "halt"
  BY <1>2 DEF OperationOp, OperationTypes, Deferred, Constants, Opcode, Plain
<1>5. Kids(Node) \subseteq {Node.l, Node.r}
  BY <1>2 DEF Kids, OperationTypes
<1>6. /\ a \in Task /\ b \in Task /\ e \in Task
      /\ Pend(a) = {Node.l} /\ Pend(b) = {Node.r} /\ a # Halt /\ b # Halt /\ e # Halt
  <2>1. 0 \in Nat
    OBVIOUS
  <2>2. e # Halt
    BY <1>4 DEF Halt, EmitTask
  <2> QED BY <1>3, <1>4, <2>1, <2>2, TasksOf, PendFacts
<1> HIDE DEF a, b, e, Task, Halt
<1>7. /\ ts \in Seq(Task) /\ DOMAIN ts = {1, 2, 3} /\ {ts[1], ts[2]} = {a, b} /\ ts[3] = e
  BY <1>6
<1> HIDE DEF ts
<1>8. Goal(ts, Kids(Node))
  <2>1. \A i \in {1, 2, 3} : ts[i] \in {a, b, e}
    BY <1>7
  <2>2. \A i \in DOMAIN ts : ts[i] # Halt
    BY <1>6, <1>7, <2>1
  <2>3. Pend(a) \cup Pend(b) \subseteq Pending(ts)
    BY <1>7 DEF Pending
  <2>4. {Node.l, Node.r} \subseteq Pending(ts)
    BY <1>6, <2>3
  <2> QED BY <1>5, <1>7, <2>2, <2>4 DEF Goal
<1> QED BY <1>1, <1>8, PlanEnters

LEMMA ReturnEnters ==
  ASSUME CompilerInv, Compiling, compile_return
  PROVE  GoesOn
<1> DEFINE a == Visit(Node.val)
           e == EmitTask("return_value", 0)
           ts == <<a, e>>
           types == {"return"}
<1>1. Visiting(types) /\ "NULL" \notin types /\ work' = ts \o Tail(work)
  BY DEF compile_return, Plan, Continue
<1>2. Node \in Nodes /\ Node.t = "return"
  BY <1>1, AtNode
<1>3. a \in Task /\ e \in Task /\ a # Halt /\ e # Halt /\ Pend(a) = {Node.val}
  <2>1. "return_value" \in Deferred /\ 0 \in Nat /\ Node.val \in Nodes
    BY <1>2, NodeFacts DEF Deferred, Constants, Opcode, Plain, Exprs
  <2>2. e # Halt
    BY DEF Halt, EmitTask
  <2> QED BY <2>1, <2>2, TasksOf, PendFacts
<1>4. Kids(Node) \subseteq {Node.val}
  BY <1>2 DEF Kids, OperationTypes
<1> HIDE DEF a, e, types
<1>5. Goal(ts, Kids(Node))
  BY <1>3, <1>4, TwoCalls DEF Goal
<1> HIDE DEF ts
<1> QED BY <1>1, <1>5, PlanEnters

LEMMA IfelseEnters ==
  ASSUME CompilerInv, Compiling, compile_ifelse
  PROVE  GoesOn
<1> DEFINE a == Visit(Node.cond)
           e == AfterCond(Node)
           ts == <<a, e>>
           types == {"ifelse"}
<1>1. Visiting(types) /\ "NULL" \notin types /\ work' = ts \o Tail(work)
  BY DEF compile_ifelse, Plan, Continue
<1>2. Node \in Nodes /\ Node.t = "ifelse"
  BY <1>1, AtNode
<1>3. /\ a \in Task /\ e \in Task /\ a # Halt /\ e # Halt /\ Pend(a) = {Node.cond}
      /\ Pend(e) = {Node.body, Node.altern} \ {NoNode}
  <2>1. Node.cond \in Nodes /\ Node \in OfType("ifelse")
    BY <1>2, NodeFacts DEF Exprs, OfType
  <2> QED BY <2>1, TasksOf, PendFacts
<1>4. Kids(Node) \subseteq {Node.cond} \cup ({Node.body, Node.altern} \ {NoNode})
  BY <1>2 DEF Kids, OperationTypes
<1> HIDE DEF a, e, types
<1>5. Goal(ts, Kids(Node))
  BY <1>3, <1>4, TwoCalls DEF Goal
<1> HIDE DEF ts
<1> QED BY <1>1, <1>5, PlanEnters

LEMMA FunctionEnters ==
  ASSUME CompilerInv, Compiling, compile_function
  PROVE  GoesOn
<1> DEFINE a == Visit(Node.body)
           e == AfterFunction(Node)
           ts == <<a, e>>
           types == {"function"}
<1>1. Visiting(types) /\ "NULL" \notin types /\ work' = ts \o Tail(work)
  BY DEF compile_function, Continue
<1>2. Node \in Nodes /\ Node.t = "function"
  BY <1>1, AtNode
<1>3. a \in Task /\ e \in Task /\ a # Halt /\ e # Halt /\ Pend(a) = {Node.body}
  <2>1. Node.body \in Nodes /\ Node \in OfType("function")
    BY <1>2, NodeFacts DEF Branches, OfType
  <2> QED BY <2>1, TasksOf, PendFacts
<1>4. Kids(Node) \subseteq {Node.body}
  BY <1>2 DEF Kids, OperationTypes
<1> HIDE DEF a, e, types
<1>5. Goal(ts, Kids(Node))
  BY <1>3, <1>4, TwoCalls DEF Goal
<1> HIDE DEF ts
<1> QED BY <1>1, <1>5, PlanEnters

LEMMA BlockEnters ==
  ASSUME CompilerInv, Compiling, compile_block
  PROVE  GoesOn
<1> DEFINE ts == Statements(Node.nodes)
           types == {"block"}
<1>1. Visiting(types) /\ "NULL" \notin types /\ work' = ts \o Tail(work)
  BY DEF compile_block, Plan, Continue
<1>2. Node \in Nodes /\ Node.t = "block"
  BY <1>1, AtNode
<1>3. Node.nodes \in Seq(Exprs)
  BY <1>2, NodeFacts
<1>4. /\ Planned(ts) /\ Simple(ts)
      /\ \A j \in 1..Len(Node.nodes) : Has(ts, Visit(Node.nodes[j]))
  BY <1>3, StatementsFacts
<1> HIDE DEF ts, types
<1>5. \A j \in 1..Len(Node.nodes) : Node.nodes[j] \in Pending(ts)
  BY <1>4, PendingHas, PendFacts
<1>6. Kids(Node) \subseteq Pending(ts)
  <2>1. Kids(Node) = Elements(Node.nodes)
    BY <1>2 DEF Kids, OperationTypes
  <2> QED BY <1>3, <1>5, <2>1 DEF Elements
<1>7. Goal(ts, Kids(Node))
  BY <1>4, <1>6 DEF Goal, Planned, Simple
<1> QED BY <1>1, <1>7, PlanEnters

LEMMA CallEnters ==
  ASSUME CompilerInv, Compiling, compile_call
  PROVE  GoesOn
<1> DEFINE n == Len(Node.args)
           a == Visit(Node.fn)
           e == EmitTask("call", n)
           bs == [i \in 1..n |-> Visit(Node.args[i])]
           ts == <<a>> \o bs \o <<e>>
           types == {"call"}
<1>1. Visiting(types) /\ "NULL" \notin types /\ work' = ts \o Tail(work)
  BY DEF compile_call, Plan, Continue
<1>2. Node \in Nodes /\ Node.t = "call"
  BY <1>1, AtNode
<1>3. Node.fn \in Nodes /\ Node.args \in Seq(Nodes) /\ n \in Nat
  <2>1. Node.args \in Seq(Exprs) /\ Node.fn \in Exprs
    BY <1>2, NodeFacts
  <2>2. \A x \in Exprs : x \in Nodes
    BY DEF Exprs
  <2> HIDE DEF a, e, bs, ts, types
  <2> QED BY <2>1, <2>2
<1>4. /\ a \in Task /\ e \in Task /\ a # Halt /\ e # Halt /\ Pend(a) = {Node.fn}
  <2>1. "call" \in Deferred
    BY DEF Deferred, Constants, Opcode, Narrow
  <2>2. e # Halt
    BY DEF Halt, EmitTask
  <2> QED BY <1>3, <2>1, <2>2, TasksOf, PendFacts
<1>5. \A i \in 1..n : bs[i] \in Task /\ bs[i] # Halt /\ Pend(bs[i]) = {Node.args[i]}
  BY <1>3, TasksOf, PendFacts
<1>6. bs \in [1..n -> Task]
  BY <1>5
<1>7. Kids(Node) \subseteq {Node.fn} \cup {Node.args[i] : i \in 1..n}
  <2>1. Kids(Node) = ({Node.fn} \ {NoNode}) \cup Elements(Node.args)
    BY <1>2 DEF Kids, OperationTypes
  <2> QED BY <1>3, <2>1 DEF Elements
<1> HIDE DEF a, e, bs, n, Task, Halt
<1>8. bs \in Seq(Task) /\ Len(bs) = n
  BY <1>3, <1>6
<1>9. /\ ts \in Seq(Task) /\ Len(ts) = n + 2
      /\ ts[1] = a /\ ts[n + 2] = e /\ \A i \in 1..n : ts[i + 1] = bs[i]
  BY <1>3, <1>4, <1>8
<1> HIDE DEF ts, types
<1>10. \A i \in DOMAIN ts : ts[i] # Halt
  <2>1. ASSUME NEW i \in DOMAIN ts PROVE i = 1 \/ i = n + 2 \/ (i - 1 \in 1..n /\ i = (i - 1) + 1)
    BY <1>3, <1>9
  <2> SUFFICES ASSUME NEW i \in DOMAIN ts PROVE ts[i] # Halt
    OBVIOUS
  <2>2. CASE i = 1
    BY <1>4, <1>9, <2>2
  <2>3. CASE i = n + 2
    BY <1>4, <1>9, <2>3
  <2>4. CASE i - 1 \in 1..n /\ i = (i - 1) + 1
    <3> DEFINE j == i - 1
    <3>1. j \in 1..n /\ i = j + 1
      BY <2>4
    <3> HIDE DEF j
    <3> QED BY <1>5, <1>9, <3>1
  <2> QED BY <2>1, <2>2, <2>3, <2>4
<1>11. 1 \in DOMAIN ts /\ \A i \in 1..n : i + 1 \in DOMAIN ts
  BY <1>3, <1>9
<1>12. {Node.fn} \cup {Node.args[i] : i \in 1..n} \subseteq Pending(ts)
  BY <1>4, <1>5, <1>9, <1>11 DEF Pending
<1>13. Goal(ts, Kids(Node))
  BY <1>7, <1>9, <1>10, <1>12 DEF Goal
<1> QED BY <1>1, <1>13, PlanEnters

(* The name that is assigned to is gone to by dispose only. *)
LEMMA AssignEnters ==
  ASSUME CompilerInv, Compiling, compile_assign
  PROVE  GoesOn
<1> DEFINE y == Innermost(tables').store[Node.l.name]
           op == IF y.scope = global_scope THEN "set_global" ELSE "set_local"
           a == Visit(Node.r)
           e == EmitTask(op, y.index)
           ts == <<a, e>>
           types == {"assign"}
<1>1. /\ Visiting(types) /\ "NULL" \notin types /\ Node.l.t = "identifier"
      /\ tables' = symbol_table_define(tables, Node.l.name)
      /\ work' = ts \o Tail(work)
  BY DEF compile_assign, Continue
<1>2. Node \in Nodes /\ Node.t = "assign" /\ Node # NoNode /\ Pend(work[1]) = {Node}
  BY <1>1, AtNode
<1>3. Node.l \in Nodes /\ Node.r \in Nodes /\ Node.l.name \in STRING
  <2>1. Node.r \in Nodes /\ Node.l \in Nodes
    BY <1>2, NodeFacts DEF Exprs
  <2> QED BY <1>1, <2>1, NodeFacts
<1>4. y.index \in Nat
  <2>1. Chain(tables)
    BY Now
  <2>2. Chain(tables') /\ Node.l.name \in DOMAIN Innermost(tables').store
    BY <1>1, <1>3, <2>1, DefineFacts
  <2>3. Innermost(tables') \in TableType
    BY <2>2 DEF Chain, Innermost
  <2>4. y \in SymbolType
    BY <2>2, <2>3, TableFacts
  <2> QED BY <2>4 DEF SymbolType
<1>5. /\ a \in Task /\ e \in Task /\ a # Halt /\ e # Halt /\ Pend(a) = {Node.r}
  <2>1. op \in Deferred /\ op # "halt"
    BY DEF Deferred, Constants, Opcode, Wide, Narrow
  <2> HIDE DEF op, y
  <2>2. e # Halt
    BY <2>1 DEF Halt, EmitTask
  <2> QED BY <1>3, <1>4, <2>1, <2>2, TasksOf, PendFacts
<1>6. Kids(Node) \subseteq {Node.l, Node.r} /\ Kids(Node.l) = {} /\ Node.l # NoNode
  BY <1>1, <1>2 DEF Kids, OperationTypes, NoNode
<1> HIDE DEF a, e, types
<1>7. Goal(ts, {Node.r})
  BY <1>5, TwoCalls DEF Goal
<1> HIDE DEF ts
<1> DEFINE U == {Node, Node.l}
<1>8. /\ U \in SUBSET Nodes /\ NoNode \notin U
      /\ \A n \in U : Kids(n) \subseteq U \cup Pending(ts)
      /\ Pend(work[1]) \subseteq U \cup Pending(ts)
  BY <1>2, <1>3, <1>6, <1>7 DEF Goal
<1> HIDE DEF U
<1>9. Enters(work[1], ts)
  BY <1>7, <1>8 DEF Enters, Goal
<1> QED BY <1>1, <1>7, <1>9 DEF GoesOn, After, Goal

LEMMA NothingEnters ==
  ASSUME Continue(<<>>), Pend(work[1]) = {}
  PROVE  GoesOn
<1> DEFINE ts == <<>>
<1>1. Enters(work[1], ts) /\ ts \in Seq(Task) /\ work' = After(ts, work)
  BY EntersEmpty DEF After, Continue
<1> HIDE DEF ts
<1> QED BY <1>1 DEF GoesOn

(* The rests of compile_ifelse. *)
LEMMA BranchEnters ==
  ASSUME CompilerInv, Compiling, compile_ifelse_body \/ compile_ifelse_altern
  PROVE  GoesOn
<1>1. /\ Head(work) = work[1] /\ work[1] \in Task /\ work[1].do \in {"cond", "body"}
      /\ Node \in OfType("ifelse") /\ Node = work[1].node
      /\ scopes \in Seq(ScopeType) /\ Scope \in ScopeType
  <2>1. Head(work).do \in {"cond", "body"}
    BY DEF compile_ifelse_body, compile_ifelse_altern, Doing
  <2> QED BY <2>1, Now, TaskFacts DEF Node, OfType
<1>2. Node \in Nodes /\ Node.body \in Nodes /\ Node.altern \in Nodes
  BY <1>1, NodeFacts DEF OfType, Branches
<1>3. CASE compile_ifelse_body
  <2> DEFINE p == compiler_pos(Scope)
             a == Visit(Node.body)
             e == AfterBody(Node, p)
             ts == <<a, e>>
  <2>1. work' = ts \o Tail(work) /\ work[1].do = "cond"
    BY <1>1, <1>3 DEF compile_ifelse_body, Continue, Doing
  <2>2. p \in Nat
    BY <1>1 DEF compiler_pos, ScopeType
  <2> HIDE DEF p
  <2>3. /\ a \in Task /\ e \in Task /\ a # Halt /\ e # Halt
        /\ Pend(a) = {Node.body} /\ Pend(e) = {Node.altern} \ {NoNode}
    BY <1>1, <1>2, <2>2, TasksOf, PendFacts
  <2> HIDE DEF a, e
  <2>4. Pend(work[1]) = {Node.body, Node.altern} \ {NoNode}
    BY <1>1, <2>1 DEF Pend
  <2>5. Goal(ts, Pend(work[1]))
    BY <2>3, <2>4, TwoCalls DEF Goal
  <2> HIDE DEF ts
  <2>6. Enters(work[1], ts)
    BY <2>5, EntersOn DEF Goal
  <2> QED BY <2>1, <2>5, <2>6 DEF GoesOn, After, Goal
<1>4. CASE compile_ifelse_altern /\ Node.altern = NoNode
  <2>1. Continue(<<>>) /\ work[1].do = "body"
    BY <1>1, <1>4 DEF compile_ifelse_altern, CompileAltern, Doing
  <2>2. Pend(work[1]) = {}
    BY <1>1, <1>4, <2>1 DEF Pend
  <2> QED BY <2>1, <2>2, NothingEnters
<1>5. CASE compile_ifelse_altern /\ Node.altern # NoNode
  <2> DEFINE p == compiler_pos(WithoutPop(Scope))
             a == Visit(Node.altern)
             e == AfterAltern(p)
             ts == <<a, e>>
  <2>1. work' = ts \o Tail(work) /\ work[1].do = "body"
    BY <1>1, <1>5 DEF compile_ifelse_altern, CompileAltern, Continue, Doing
  <2>2. p \in Nat
    <3>1. Tracked(Scope)
      BY Now
    <3>2. WithoutPop(Scope) \in ScopeType
      BY <1>1, <3>1, WithoutPopFacts
    <3> QED BY <3>2 DEF compiler_pos, ScopeType
  <2> HIDE DEF p
  <2>3. a \in Task /\ e \in Task /\ a # Halt /\ e # Halt /\ Pend(a) = {Node.altern}
    BY <1>2, <2>2, TasksOf, PendFacts
  <2> HIDE DEF a, e
  <2>4. Pend(work[1]) \subseteq {Node.altern}
    BY <1>1, <2>1 DEF Pend
  <2>5. Goal(ts, Pend(work[1]))
    BY <2>3, <2>4, TwoCalls DEF Goal
  <2> HIDE DEF ts
  <2>6. Enters(work[1], ts)
    BY <2>5, EntersOn DEF Goal
  <2> QED BY <2>1, <2>5, <2>6 DEF GoesOn, After, Goal
<1> QED BY <1>3, <1>4, <1>5

LEMMA RestEnters ==
  ASSUME CompilerInv, Compiling, ~ failed', cstat' # "crashed",
         compile_ifelse_end \/ compile_function_end \/ compile_function_captures \/ Emit
  PROVE  GoesOn
<1>1. Head(work) = work[1] /\ work[1].do \in {"altern", "function", "emit"}
  BY Now DEF compile_ifelse_end, compile_function_end, compile_function_captures, Emit, Doing
<1>2. Pend(work[1]) = {}
  BY <1>1 DEF Pend
<1>3. Continue(<<>>)
  BY DEF compile_ifelse_end, compile_function_end, compile_function_captures, Emit,
         AddFunction, Crash
<1> QED BY <1>2, <1>3, NothingEnters

LEMMA CompileEnters ==
  ASSUME CompilerInv, compile, ~ failed', cstat' # "crashed"
  PROVE  /\ ~ failed /\ UNCHANGED tree /\ GoesOn
         /\ cstat' = "compiled" => Head(work) = Halt
<1>1. Compiling
  BY CompileIsStep
<1>2. /\ ~ failed /\ UNCHANGED tree
      /\ cstat' = "compiled" => Head(work) = Halt
  <2>1. failed \in BOOLEAN /\ cstat = "compiling"
    BY <1>1 DEF Compiling, CompilerInv, StateOK
  <2> QED
    BY <2>1 DEF compile, compile_integer, compile_null, compile_operation, compile_identifier,
                compile_assign, compile_assign_to_literal, compile_block, compile_call,
                compile_return, compile_ifelse, compile_ifelse_body, compile_ifelse_altern,
                compile_ifelse_end, compile_function, compile_function_end,
                compile_function_captures,
                compile_function_aborts, CompileNULL, Emit, Plan, EmitHere, Fail,
                CompileAltern, AddFunction, compiler_leave_scope, Crash
<1>3. CASE compile_integer \/ compile_null \/ compile_identifier
  <2>1. Visiting(Leaves) /\ Continue(<<>>)
    BY <1>3 DEF compile_integer, compile_null, compile_identifier, Fail, Visiting, Leaves
  <2> QED BY <1>1, <1>2, <2>1, LeafEnters
<1>4. ~ compile_assign_to_literal /\ ~ compile_function_aborts /\ ~ CompileNULL
  BY DEF compile_assign_to_literal, compile_function_aborts, CompileNULL, Fail, Crash
<1> QED BY <1>1, <1>2, <1>3, <1>4, OperationEnters, AssignEnters, BlockEnters,
           CallEnters, ReturnEnters, IfelseEnters, BranchEnters, FunctionEnters, RestEnters
        DEF compile

-----------------------------------------------------------------------------
(* V is what dispose goes to from t, and no node is missing in it. *)
Closed(V, t) == V \subseteq Nodes /\ NoNode \notin V /\ t \in V /\ \A v \in V : Kids(v) \subseteq V

CoveredOK ==
  mode = "compiling" /\ ~ failed =>
    Covered(work, tree) /\ (cstat = "compiled" => work = <<>>)
ClosedOK ==
  mode \in {"running", "disposing"} /\ ~ failed =>
    \E V : Closed(V, tree) /\ todo \in Seq(V)

HolesOK == CoveredOK /\ ClosedOK

LEMMA TakeCovers ==
  ASSUME NEW n \in Trees, Take(n)
  PROVE  HolesOK'
<1> DEFINE w == <<Visit(n), Halt>>
           V == {}
<1>1. /\ mode' = "compiling" /\ tree' = n /\ work' = w /\ cstat' = "compiling"
  BY DEF Take, Begin
<1>2. /\ DOMAIN w = 1..2 /\ Len(w) = 2 /\ w[1] = Visit(n) /\ w[1] # Halt /\ n \in Pend(w[1])
  BY PendFacts
<1> HIDE DEF w
<1>3. OneHalt(w)
  BY <1>2 DEF OneHalt
<1>4. n \in Pending(w)
  BY <1>2 DEF Pending
<1>5. V \subseteq Nodes /\ NoNode \notin V /\ \A v \in V : Kids(v) \subseteq V \cup Pending(w)
  OBVIOUS
<1> HIDE DEF V
<1>6. Covers(V, w, n)
  BY <1>4, <1>5 DEF Covers
<1>7. Covered(w, n)
  BY <1>3, <1>6 DEF Covered
<1> QED BY <1>1, <1>7 DEF HolesOK, CoveredOK, ClosedOK

LEMMA CompileEnds ==
  ASSUME CompilerInv, compile, Head(work) = Halt
  PROVE  work' = Tail(work)
<1>1. /\ Compiling /\ work \in Seq(Task) /\ work # <<>>
  BY CompileIsStep, Now
<1>2. Head(work).do = "emit"
  BY DEF Halt, EmitTask
<1>3. Emit
  BY <1>2 DEF compile, compile_integer, compile_null, compile_operation, compile_identifier,
              compile_assign, compile_assign_to_literal, compile_block, compile_call,
              compile_return, compile_ifelse, compile_ifelse_body, compile_ifelse_altern,
              compile_ifelse_end, compile_function, compile_function_end,
              compile_function_captures, compile_function_aborts, CompileNULL, Visiting, Doing
<1>4. work' = <<>> \o Tail(work)
  BY <1>3 DEF Emit, Continue, EmitHere
<1>5. Tail(work) \in Seq(Task)
  <2> HIDE DEF Task
  <2> QED BY <1>1
<1> HIDE DEF Task
<1> QED BY <1>4, <1>5

LEMMA CompileCovers ==
  ASSUME SessionInv, HolesOK, CompileStep
  PROVE  HolesOK'
<1>1. /\ mode = "compiling" /\ compile /\ CompilerInv
      /\ mode' = IF cstat' = "crashed" THEN "dead" ELSE mode
  BY DEF CompileStep, SessionInv, CompilingOK
<1>2. CASE failed' \/ cstat' = "crashed"
  BY <1>1, <1>2 DEF HolesOK, CoveredOK, ClosedOK
<1>3. CASE ~ failed' /\ cstat' # "crashed"
  <2>1. /\ ~ failed /\ UNCHANGED tree /\ GoesOn /\ (cstat' = "compiled" => Head(work) = Halt)
    BY <1>1, <1>3, CompileEnters
  <2>2. Covered(work, tree)
    BY <1>1, <2>1 DEF HolesOK, CoveredOK
  <2>3. work \in Seq(Task) /\ work # <<>> /\ Compiling /\ Head(work) = work[1]
        /\ Len(work) \in Nat /\ Len(work) >= 1
    BY <1>1, CompileIsStep, Now
  <2>4. PICK ts \in Seq(Task) : work' = After(ts, work) /\ Enters(work[1], ts)
    BY <2>1 DEF GoesOn
  <2>5. Covered(work', tree')
    BY <2>1, <2>2, <2>3, <2>4, CoverStep
  <2>6. ASSUME cstat' = "compiled" PROVE work' = <<>>
    <3>1. Head(work) = Halt /\ work' = Tail(work)
      BY <1>1, <2>1, <2>6, CompileEnds
    <3>2. OneHalt(work)
      BY <2>2 DEF Covered
    <3> HIDE DEF Task, Halt
    <3>3. Len(work) = 1
      <4>1. 1 \notin 1..Len(work) - 1
        BY <2>3, <3>1, <3>2 DEF OneHalt
      <4> DEFINE k == Len(work)
      <4>2. 1 \notin 1..k - 1 /\ k \in Nat /\ k >= 1
        BY <2>3, <4>1
      <4> HIDE DEF k
      <4>3. k = 1
        BY <4>2
      <4> QED BY <4>3 DEF k
    <3> QED BY <2>3, <3>1, <3>3
  <2> QED BY <1>1, <1>3, <2>5, <2>6 DEF HolesOK, CoveredOK, ClosedOK
<1> QED BY <1>2, <1>3

(* Nothing is left to compile: what was gone to is closed. *)
LEMMA StartClosed ==
  ASSUME SessionInv, HolesOK, StartVM
  PROVE  HolesOK'
<1>1. /\ mode = "compiling" /\ mode' = "running" /\ cstat = "compiled"
      /\ UNCHANGED <<todo, failed, tree>> /\ todo = <<>>
  BY DEF StartVM, compilerVars, SessionInv, KeptOK
<1>2. ASSUME ~ failed PROVE \E V : Closed(V, tree) /\ todo \in Seq(V)
  <2>1. Covered(work, tree) /\ work = <<>>
    BY <1>1, <1>2 DEF HolesOK, CoveredOK
  <2>2. PICK V : Covers(V, work, tree)
    BY <2>1 DEF Covered
  <2>3. Pending(work) = {}
    BY <2>1 DEF Pending
  <2>4. Closed(V, tree)
    BY <2>2, <2>3 DEF Covers, Closed
  <2>5. todo \in Seq(V)
    BY <1>1
  <2> QED BY <2>4, <2>5
<1> QED BY <1>1, <1>2 DEF HolesOK, CoveredOK, ClosedOK

LEMMA PrintClosed ==
  ASSUME HolesOK, PrintAnswer
  PROVE  HolesOK'
<1>1. /\ mode = "running" /\ mode' = "disposing" /\ todo' = <<tree>>
      /\ UNCHANGED <<failed, tree>>
  BY DEF PrintAnswer, Printing, Stopped, compilerVars
<1>2. ASSUME ~ failed PROVE \E V : Closed(V, tree) /\ todo' \in Seq(V)
  <2>1. PICK V : Closed(V, tree)
    BY <1>1, <1>2 DEF HolesOK, ClosedOK
  <2>2. todo' \in Seq(V)
    BY <1>1, <2>1 DEF Closed
  <2> QED BY <2>1, <2>2
<1> QED BY <1>1, <1>2 DEF HolesOK, CoveredOK, ClosedOK

(* What the dispose of a node goes to is part of it. *)
LEMMA PresentIn ==
  ASSUME NEW V, NEW n, {n} \ {NoNode} \subseteq V
  PROVE  Present(n) \in Seq(V)
BY DEF Present

LEMMA ElementsIn ==
  ASSUME NEW V, NEW S, NEW s \in Seq(S), Elements(s) \subseteq V
  PROVE  s \in Seq(V)
BY DEF Elements

LEMMA DisposedIn ==
  ASSUME DisposeTree, ~ Die, NEW V, Closed(V, tree), todo \in Seq(V), NEW n \in V, n = Head(todo)
  PROVE  \E children \in Seq(V) : DisposeThen(children)
<1>1. n \in Nodes /\ n # NoNode /\ Kids(n) \subseteq V
  BY DEF Closed
<1>2. CASE dispose_leaf_node
  <2> DEFINE children == <<>>
  <2>1. DisposeThen(children) /\ children \in Seq(V)
    BY <1>2 DEF dispose_leaf_node
  <2> HIDE DEF children
  <2> QED BY <2>1
<1>3. CASE dispose_operation_node
  <2>1. Kids(n) = {n.l, n.r} \ {NoNode}
    BY <1>3 DEF dispose_operation_node, Disposing, Kids, OperationTypes
  <2>2. Present(n.l) \in Seq(V) /\ Present(n.r) \in Seq(V)
    BY <1>1, <2>1, PresentIn
  <2> DEFINE children == Present(n.l) \o Present(n.r)
  <2>3. DisposeThen(children)
    BY <1>3 DEF dispose_operation_node
  <2>4. children \in Seq(V)
    BY <2>2
  <2> HIDE DEF children
  <2> QED BY <2>3, <2>4
<1>4. CASE dispose_return_node
  <2>1. Kids(n) = {n.val} \ {NoNode}
    BY <1>4 DEF dispose_return_node, Disposing, Kids, OperationTypes
  <2>2. Present(n.val) \in Seq(V)
    BY <1>1, <2>1, PresentIn
  <2> QED BY <1>4, <2>2 DEF dispose_return_node
<1>5. CASE dispose_ifelse_node
  <2>1. Kids(n) = {n.cond, n.body, n.altern} \ {NoNode}
    BY <1>5 DEF dispose_ifelse_node, Disposing, Kids, OperationTypes
  <2>2. Present(n.cond) \in Seq(V) /\ Present(n.body) \in Seq(V) /\ Present(n.altern) \in Seq(V)
    BY <1>1, <2>1, PresentIn
  <2> DEFINE children == Present(n.cond) \o Present(n.body) \o Present(n.altern)
  <2>3. DisposeThen(children)
    BY <1>5 DEF dispose_ifelse_node
  <2>4. children \in Seq(V)
    BY <2>2
  <2> HIDE DEF children
  <2> QED BY <2>3, <2>4
<1>6. CASE dispose_function_node
  <2>1. Kids(n) = {n.body} \ {NoNode}
    BY <1>6 DEF dispose_function_node, Disposing, Kids, OperationTypes
  <2>2. Present(n.body) \in Seq(V)
    BY <1>1, <2>1, PresentIn
  <2> QED BY <1>6, <2>2 DEF dispose_function_node
<1>7. CASE dispose_block_node
  <2>1. n.t = "block"
    BY <1>7 DEF dispose_block_node, Disposing
  <2>2. Kids(n) = Elements(n.nodes) /\ n.nodes \in Seq(Exprs)
    BY <1>1, <2>1, NodeFacts DEF Kids, OperationTypes
  <2>3. n.nodes \in Seq(V)
    BY <1>1, <2>2, ElementsIn
  <2> QED BY <1>7, <2>3 DEF dispose_block_node
<1>8. CASE dispose_call_node
  <2>1. n.t = "call"
    BY <1>8 DEF dispose_call_node, Disposing
  <2>2. Kids(n) = ({n.fn} \ {NoNode}) \cup Elements(n.args) /\ n.args \in Seq(Exprs)
    BY <1>1, <2>1, NodeFacts DEF Kids, OperationTypes
  <2>3. n.args \in Seq(V) /\ Present(n.fn) \in Seq(V)
    BY <1>1, <2>2, ElementsIn, PresentIn
  <2> DEFINE children == Present(n.fn) \o n.args
  <2>4. DisposeThen(children)
    BY <1>8 DEF dispose_call_node
  <2>5. children \in Seq(V)
    BY <2>3
  <2> HIDE DEF children
  <2> QED BY <2>4, <2>5
<1>9. ~ DisposeNULL /\ ~ NameFreedTwice
  BY DEF DisposeNULL, NameFreedTwice
<1> QED BY <1>2, <1>3, <1>4, <1>5, <1>6, <1>7, <1>8, <1>9 DEF DisposeTree

LEMMA DisposeClosed ==
  ASSUME SessionInv, HolesOK, DisposeTree
  PROVE  HolesOK'
<1>1. mode = "disposing" /\ todo # <<>>
  BY DEF DisposeTree, dispose_leaf_node, dispose_operation_node, dispose_return_node,
         dispose_ifelse_node, dispose_function_node, dispose_block_node, dispose_call_node,
         DisposeNULL, NameFreedTwice, Disposing
<1>2. CASE Die
  BY <1>2 DEF Die, HolesOK, CoveredOK, ClosedOK
<1>3. CASE ~ Die
  <2>1. UNCHANGED <<mode, failed, tree>>
    BY <1>3 DEF DisposeTree, dispose_leaf_node, dispose_operation_node, dispose_return_node,
                dispose_ifelse_node, dispose_function_node, dispose_block_node,
                dispose_call_node, DisposeNULL, NameFreedTwice, DisposeThen, compilerVars
  <2>2. ASSUME ~ failed PROVE \E V : Closed(V, tree) /\ todo' \in Seq(V)
    <3>1. PICK V : Closed(V, tree) /\ todo \in Seq(V)
      BY <1>1, <2>2 DEF HolesOK, ClosedOK
    <3>2. Head(todo) \in V /\ Tail(todo) \in Seq(V)
      BY <1>1, <3>1
    <3>3. PICK children \in Seq(V) : DisposeThen(children)
      BY <1>3, <3>1, <3>2, DisposedIn
    <3>4. todo' = children \o Tail(todo)
      BY <3>3 DEF DisposeThen
    <3>5. todo' \in Seq(V)
      BY <3>2, <3>3, <3>4
    <3> QED BY <3>1, <3>5
  <2> QED BY <1>1, <2>1, <2>2 DEF HolesOK, CoveredOK, ClosedOK
<1> QED BY <1>2, <1>3

LEMMA HolesStep ==
  ASSUME SessionInv, HolesOK, [ReplNext \/ Refuse]_sessionVars
  PROVE  HolesOK'
<1>1. CASE ReadLine
  BY <1>1, TakeCovers DEF ReadLine
<1>2. CASE CompileStep
  BY <1>2, CompileCovers
<1>3. CASE StartVM
  BY <1>3, StartClosed
<1>4. CASE PrintAnswer
  BY <1>4, PrintClosed
<1>5. CASE DisposeTree
  BY <1>5, DisposeClosed
<1>6. CASE ProcessEnds \/ DisposeAborts \/ Refuse
  BY <1>6 DEF Refuse, ProcessEnds, DisposeAborts, Die, HolesOK, CoveredOK, ClosedOK
<1>7. CASE Dispose
  BY <1>7 DEF Dispose, HolesOK, CoveredOK, ClosedOK
<1>8. CASE RunStep \/ SessionDone \/ UNCHANGED sessionVars
  <2>1. UNCHANGED <<mode, tree, failed, work, cstat, todo>>
    BY <1>8 DEF RunStep, SessionDone, sessionVars, replVars, compilerVars
  <2> QED BY <2>1 DEF HolesOK, CoveredOK, ClosedOK
<1> QED BY <1>1, <1>2, <1>3, <1>4, <1>5, <1>6, <1>7, <1>8 DEF ReplNext, Process

LEMMA HolesPromise == Session => []NoHoleDisposed
<1>1. ReplInit => HolesOK
  BY DEF ReplInit, HolesOK, CoveredOK, ClosedOK
<1>2. SessionInv /\ HolesOK /\ [ReplNext \/ Refuse]_sessionVars => HolesOK'
  BY HolesStep
<1>3. HolesOK => NoHoleDisposed
  <2> SUFFICES ASSUME HolesOK, mode = "disposing", ~ failed, NEW i \in DOMAIN todo
               PROVE  todo[i] # NoNode
    BY DEF NoHoleDisposed
  <2>1. PICK V : Closed(V, tree) /\ todo \in Seq(V)
    BY DEF HolesOK, ClosedOK
  <2>2. todo[i] \in V
    BY <2>1
  <2> QED BY <2>1, <2>2 DEF Closed
<1> QED BY <1>1, <1>2, <1>3, SessionInvHolds, PTL DEF Session

LEMMA SafetyPromise == Session => [](mode = "running" => FramesTile /\ NeverUnderflows)
<1>1. SessionInv => (mode = "running" => FramesTile /\ NeverUnderflows)
  BY DEF SessionInv, RunningOK, SoundInv
<1> QED BY <1>1, SessionInvHolds, PTL

-----------------------------------------------------------------------------
(* After a line that compiled, tree->dispose finds no missing node,        *)
(* however the line is made up: compile_call, which goes to every argument *)
(* without asking whether it is there, would have died on it before.       *)
THEOREM HolesNeverDisposed == ReplSpec => []NoHoleDisposed
BY EverySession, HolesPromise

(* Every line of a session runs as safely as the first: as long as the     *)
(* code is Trusted, its frames tile the stack and no instruction finds     *)
(* less on it than it takes, although the line runs on the globals, the    *)
(* constants and the symbol table that earlier lines, and lines that       *)
(* failed halfway, left behind.                                            *)
THEOREM LinesRunSafely == ReplSpec => [](mode = "running" => FramesTile /\ NeverUnderflows)
BY EverySession, SafetyPromise
-----------------------------------------------------------------------------
(***************************************************************************)
(* What is freed stays unused, although the array of constants keeps       *)
(* pointing to it.  Not every object that is freed has to be followed for  *)
(* this: let F be all objects that were there when the line began, but     *)
(* the static ones.  All that was freed is in F, and the line never needs  *)
(* F at all: it starts with an empty stack and no globals, its constants   *)
(* are the ones from state_nconsts on, and its code loads only those.      *)
(* FreshInv says so: Spares(F), through what the compiler has made so far  *)
(* (LineOwns) and then through what the machine can reach (RunAvoids).     *)
(*                                                                         *)
(* The second half is where op_constant's operand matters: it keeps the    *)
(* number of a constant modulo U16, and a line with more constants behind  *)
(* it than that loads the ones of earlier lines.                           *)
(***************************************************************************)
(* Every constant that insts loads is at lo or behind. *)
LoadsFrom(insts, lo) ==
  \A p \in DOMAIN insts : insts[p].op \in Constants => insts[p].a >= lo

(* Where the cells of the second part of a sequence are. *)
LEMMA ConcatBehind ==
  ASSUME NEW S, NEW a \in Seq(S), NEW b \in Seq(S), NEW i \in 1..Len(b), NEW j, j = Len(a) + i
  PROVE  (a \o b)[j] = b[i]
OBVIOUS

(* An encoding is one instruction, then cells of operands. *)
LEMMA CellsOf ==
  ASSUME NEW op \in Opcode, NEW a \in Nat, NEW b \in Nat, NEW i \in DOMAIN Encode(op, a, b), i # 1
  PROVE  Encode(op, a, b)[i] = Operand
<1> DEFINE d == Decoded(op, a, b)
           m == InstLen(op) - 1
           rest == [k \in 1..m |-> Operand]
           k == i - 1
<1>1. InstLen(op) \in 1..5 /\ Len(Encode(op, a, b)) = InstLen(op) /\ Encode(op, a, b) \in Seq(Cell)
  BY EncodeFacts
<1>2. k \in 1..m /\ m \in Nat /\ i = 1 + k
  BY <1>1
<1>3. Operand \in Cell /\ d \in Cell
  BY EncodeFacts DEF Cell
<1>4. Encode(op, a, b) = <<d>> \o rest
  BY DEF Encode
<1> HIDE DEF Cell, d, k, m
<1>5. rest \in Seq(Cell) /\ Len(rest) = m /\ rest[k] = Operand
  BY <1>2, <1>3
<1>6. <<d>> \in Seq(Cell) /\ Len(<<d>>) = 1
  BY <1>3
<1> HIDE DEF rest
<1>7. (<<d>> \o rest)[i] = rest[k]
  BY <1>2, <1>5, <1>6, ConcatBehind
<1> QED BY <1>4, <1>5, <1>7

(* Emitting, cutting or patching code loads no earlier constant. *)
LEMMA EmittedLoads ==
  ASSUME NEW s \in ScopeType, NEW op \in Opcode, NEW a \in Nat, NEW b \in Nat, NEW lo \in Nat,
         LoadsFrom(s.insts, lo), op \in Constants => a % U16 >= lo
  PROVE  LoadsFrom(compiler_emit(s, op, a, b).insts, lo)
<1> DEFINE code == Encode(op, a, b)
           t == s.insts
<1>1. t \in Seq(Cell) /\ code \in Seq(Cell)
  BY EncodeFacts DEF ScopeType
<1>2. compiler_emit(s, op, a, b).insts = t \o code
  <2> DEFINE long == s.insts \o code
             e == compiler_emit(s, op, a, b)
             u == [s EXCEPT !.insts = long]
  <2>1. s = [insts |-> s.insts, last |-> s.last, prev |-> s.prev]
    BY DEF ScopeType
  <2>2. e = [u EXCEPT !.prev = u.last, !.last = Emitted(op, compiler_pos(s))]
    BY DEF compiler_emit, compiler_set_last_inst
  <2> HIDE DEF long, e
  <2>3. u = [insts |-> long, last |-> s.last, prev |-> s.prev]
    BY <2>1
  <2> HIDE DEF u
  <2>4. e.insts = long
    BY <2>2, <2>3
  <2> QED BY <2>4 DEF e, long
<1>3. \A i \in 1..Len(code) : code[i].op \in Constants => code[i].a >= lo
  <2>1. Len(code) = InstLen(op) /\ InstLen(op) \in 1..5 /\ code[1] = Decoded(op, a, b)
    BY EncodeFacts
  <2>2. op \in Constants => Decoded(op, a, b).a >= lo
    BY DEF Decoded, Constants, Wide, Narrow
  <2>3. Decoded(op, a, b).op = op
    BY DEF Decoded
  <2>4. ASSUME NEW i \in 1..Len(code), i # 1 PROVE code[i] = Operand
    <3>1. i \in DOMAIN Encode(op, a, b)
      BY <1>1, <2>4
    <3> QED BY <2>4, <3>1, CellsOf
  <2>5. Operand.op \notin Constants
    BY DEF Operand, Constants
  <2> HIDE DEF code
  <2> QED BY <2>1, <2>2, <2>3, <2>4, <2>5
<1> HIDE DEF t, code
<1>4. ASSUME NEW p \in DOMAIN (t \o code), (t \o code)[p].op \in Constants
      PROVE  (t \o code)[p].a >= lo
  <2>1. Len(t) \in Nat /\ Len(code) \in Nat /\ p \in 1..Len(t) + Len(code)
    BY <1>1, ConcatFacts
  <2>2. CASE p \in 1..Len(t)
    <3>1. (t \o code)[p] = t[p] /\ p \in DOMAIN t
      BY <1>1, <2>2, ConcatFacts
    <3> QED BY <1>4, <3>1 DEF LoadsFrom, t
  <2>3. CASE p \notin 1..Len(t)
    <3> DEFINE i == p - Len(t)
    <3>1. i \in 1..Len(code) /\ p = Len(t) + i
      BY <2>1, <2>3
    <3> HIDE DEF i
    <3>2. (t \o code)[p] = code[i]
      BY <1>1, <3>1, ConcatFacts
    <3> QED BY <1>3, <1>4, <3>1, <3>2
  <2> QED BY <2>2, <2>3
<1> QED BY <1>2, <1>4 DEF LoadsFrom

LEMMA CutLoads ==
  ASSUME NEW s \in ScopeType, Tracked(s), NEW lo \in Nat, LoadsFrom(s.insts, lo)
  PROVE  LoadsFrom(WithoutPop(s).insts, lo)
<1>1. CASE compiler_last_is(s, "pop")
  <2>1. WithoutPop(s) = compiler_remove_last(s)
    BY <1>1 DEF WithoutPop
  <2>2. WithoutPop(s).insts = SubSeq(s.insts, 1, s.last.pos)
    BY <2>1 DEF compiler_remove_last, ScopeType
  <2>3. s.insts \in Seq(Cell) /\ Len(s.insts) \in Nat /\ s.insts # <<>>
    BY <1>1 DEF ScopeType, compiler_last_is, compiler_pos
  <2>4. s.last.pos \in 0..Len(s.insts) - 1
    BY <2>3 DEF Tracked, EndsWith, IsInst
  <2> DEFINE t == s.insts  n == s.last.pos
  <2>5. t \in Seq(Cell) /\ n \in 0..Len(t) /\ LoadsFrom(t, lo)
    BY <2>3, <2>4
  <2> HIDE DEF t, n, Cell
  <2>6. /\ DOMAIN SubSeq(t, 1, n) = 1..n /\ 1..n \subseteq DOMAIN t
        /\ \A p \in 1..n : SubSeq(t, 1, n)[p] = t[p]
    BY <2>5
  <2>7. LoadsFrom(SubSeq(t, 1, n), lo)
    BY <2>5, <2>6 DEF LoadsFrom
  <2> QED BY <2>2, <2>7 DEF t, n
<1>2. CASE ~ compiler_last_is(s, "pop")
  BY <1>2 DEF WithoutPop
<1> QED BY <1>1, <1>2

LEMMA PatchedLoads ==
  ASSUME NEW s \in ScopeType, NEW p \in Nat, HeldAt(s.insts, p), NEW operand \in Nat,
         NEW lo \in Nat, LoadsFrom(s.insts, lo)
  PROVE  LoadsFrom(compiler_replace_operand(s, p, operand).insts, lo)
<1> DEFINE t == s.insts
           d == Decoded(t[p + 1].op, operand, 0)
           u == [t EXCEPT ![p + 1] = d]
<1>1. compiler_replace_operand(s, p, operand).insts = u
  <2>1. s = [insts |-> s.insts, last |-> s.last, prev |-> s.prev]
    BY DEF ScopeType
  <2>2. compiler_replace_operand(s, p, operand) = [s EXCEPT !.insts = u]
    BY DEF compiler_replace_operand
  <2> HIDE DEF u
  <2> QED BY <2>1, <2>2
<1>2. d.op \notin Constants
  BY DEF HeldAt, Jumps, Constants, Decoded
<1> HIDE DEF d
<1>3. LoadsFrom(u, lo)
  BY <1>2 DEF LoadsFrom
<1> QED BY <1>1, <1>3

(* Nor does ending a body by a return. *)
LEMMA ReturningLoads ==
  ASSUME NEW s \in ScopeType, Tracked(s), NEW lo \in Nat, LoadsFrom(s.insts, lo)
  PROVE  LoadsFrom(Returning(s).insts, lo)
<1> DEFINE r == IF compiler_last_is(s, "pop") THEN compiler_replace_last_pop_with_return(s) ELSE s
<1>1. s.insts \in Seq(Cell) /\ Len(s.insts) \in Nat /\ s.last \in EmittedType /\ s.prev \in EmittedType
  BY DEF ScopeType
<1>2. r \in ScopeType /\ LoadsFrom(r.insts, lo)
  <2>1. CASE compiler_last_is(s, "pop")
    <3> DEFINE d == Decoded("return_value", 0, 0)
               code == [s.insts EXCEPT ![s.last.pos + 1] = d]
               last == [s.last EXCEPT !.op = "return_value"]
    <3>1. d \in Cell /\ d.op \notin Constants
      BY EncodeFacts DEF Cell, Opcode, Plain, Constants, Decoded
    <3> HIDE DEF d
    <3>2. code \in Seq(Cell) /\ LoadsFrom(code, lo)
      <4>1. s.insts # <<>>
        BY <2>1 DEF compiler_last_is, compiler_pos
      <4>2. s.last.pos + 1 \in 1..Len(s.insts)
        BY <1>1, <4>1 DEF Tracked, EndsWith, IsInst
      <4>3. code \in Seq(Cell)
        BY <1>1, <3>1, <4>2
      <4>4. LoadsFrom(code, lo)
        BY <3>1 DEF LoadsFrom
      <4> QED BY <4>3, <4>4
    <3>3. last \in EmittedType
      <4>1. "return_value" \in Opcode
        BY DEF Opcode, Plain
      <4> QED BY <1>1, <4>1 DEF EmittedType
    <3>4. r = [insts |-> code, last |-> last, prev |-> s.prev]
      <4>1. s = [insts |-> s.insts, last |-> s.last, prev |-> s.prev]
        BY DEF ScopeType
      <4>2. r = [s EXCEPT !.insts = code, !.last = last]
        BY <2>1 DEF compiler_replace_last_pop_with_return, d
      <4> HIDE DEF r, code, last
      <4> QED BY <4>1, <4>2
    <3> HIDE DEF r, code, last
    <3> QED BY <1>1, <3>2, <3>3, <3>4 DEF ScopeType
  <2>2. CASE ~compiler_last_is(s, "pop")
    BY <2>2
  <2> QED BY <2>1, <2>2
<1>3. Returning(s) = IF compiler_last_is(r, "return_value") THEN r ELSE compiler_emit(r, "return", 0, 0)
  BY DEF Returning
<1> HIDE DEF r
<1>4. LoadsFrom(compiler_emit(r, "return", 0, 0).insts, lo)
  <2>1. "return" \in Opcode /\ "return" \notin Constants /\ 0 \in Nat
    BY DEF Opcode, Plain, Constants
  <2> QED BY <1>2, <2>1, EmittedLoads
<1> QED BY <1>2, <1>3, <1>4

(* Nor does loading the variables that a closure captures. *)
LEMMA SymbolsLoad ==
  ASSUME NEW s \in ScopeType, Tracked(s), NEW symbols \in Seq(SymbolType),
         \A i \in DOMAIN symbols : Loadable(symbols[i]), NEW lo \in Nat, LoadsFrom(s.insts, lo)
  PROVE  LoadsFrom(LoadAll(s, symbols).insts, lo)
<1> DEFINE N == Len(symbols)
           S == {e \in ScopeType : LoadsFrom(e.insts, lo)}
           load(i, e) == compiler_emit(e, LoadOp(symbols[i].scope), symbols[i].index, 0)
           step == [x \in (1..N) \X S |-> load(x[1], x[2])]
           Chosen(h) == h = [i \in 0..N |-> IF i = 0 THEN s ELSE load(i, h[i - 1])]
<1>1. N \in Nat /\ s \in S
  OBVIOUS
<1>2. ASSUME NEW i \in 1..N, NEW e \in S PROVE load(i, e) \in S
  <2>1. symbols[i] \in SymbolType /\ Loadable(symbols[i])
    OBVIOUS
  <2>2. /\ LoadOp(symbols[i].scope) \in Opcode /\ symbols[i].index \in Nat /\ 0 \in Nat
        /\ LoadOp(symbols[i].scope) \notin Constants
    <3>1. symbols[i].scope \in 0..4
      BY <2>1 DEF Loadable, SymbolType, global_scope, function_scope
    <3> QED BY <2>1, <3>1, LoadOpFacts DEF LoadOp, Constants, global_scope, local_scope,
                    builtin_scope, free_scope, function_scope
  <2>3. load(i, e) \in ScopeType /\ LoadsFrom(load(i, e).insts, lo)
    BY <2>2, EmitFacts, EmittedLoads
  <2> QED BY <2>3
<1> HIDE DEF S, load, N
<1>4. step \in [(1..N) \X S -> S]
  BY <1>2
<1>5. PICK g \in [0..N -> S] : Follows(g, N, s, step)
  <2> HIDE DEF step
  <2> QED BY <1>1, <1>4, RangeRecursion
<1>6. Chosen(g)
  <2>1. ASSUME NEW i \in 0..N PROVE g[i] = IF i = 0 THEN s ELSE load(i, g[i - 1])
    <3>1. CASE i = 0
      BY <1>5, <3>1 DEF Follows
    <3>2. CASE i # 0
      <4>1. i \in 1..N /\ g[i - 1] \in S
        BY <1>1, <1>5, <3>2
      <4> QED BY <1>5, <3>2, <4>1 DEF Follows
    <3> QED BY <3>1, <3>2
  <2> QED BY <1>5, <2>1
<1>7. LoadAll(s, symbols) = (CHOOSE h : Chosen(h))[N]
  BY DEF LoadAll, N, load
<1>8. Chosen(CHOOSE h : Chosen(h))
  <2>1. \E h : Chosen(h)
    BY <1>6
  <2> QED BY <2>1
<1> DEFINE H == CHOOSE h : Chosen(h)
           T == {i \in 0..N : H[i] \in S}
<1>9. \A i \in 0..N : H[i] = IF i = 0 THEN s ELSE load(i, H[i - 1])
  BY <1>8
<1> HIDE DEF H, Chosen
<1>10. 0 \in T
  BY <1>1, <1>9
<1>11. ASSUME NEW i \in 0 + 1..N, i - 1 \in T PROVE i \in T
  BY <1>1, <1>2, <1>9, <1>11
<1> HIDE DEF T
<1>12. \A i \in 0..N : i \in T
  <2>1. 0 \in Int /\ N \in Int
    BY <1>1
  <2> QED BY <2>1, <1>10, <1>11, RangeInduction
<1>13. H[N] \in S
  BY <1>1, <1>12 DEF T
<1> QED BY <1>7, <1>13 DEF H, S

(* What a line may load: nothing of F by its own constants, which are the  *)
(* ones at lo and behind, and its code, in the scopes or in the functions  *)
(* it made, loads no others.                                               *)
OwnConstants(F, lo) == \A i \in DOMAIN consts : i >= lo => consts[i] \notin F
OwnScopes(lo)       == \A k \in DOMAIN scopes : LoadsFrom(scopes[k].insts, lo)
OwnObject(o, lo)    == o.type # "closure" /\ (o.type = "function" => LoadsFrom(o.fn.insts, lo))
OwnCode(F, lo)      == \A id \in (1..Len(heap)) \ F : OwnObject(heap[id], lo)
LineOwns(F, lo)     == OwnConstants(F, lo) /\ OwnScopes(lo) /\ OwnCode(F, lo)

(* A step in the innermost scope, and leaving it. *)
LEMMA HereOwn ==
  ASSUME CompilerInv, Compiling, NEW lo, OwnScopes(lo), NEW s, InScope(s), LoadsFrom(s.insts, lo)
  PROVE  OwnScopes(lo)'
<1>1. scopes \in Seq(ScopeType) /\ scopes' = [scopes EXCEPT ![Len(scopes)] = s]
  BY Now DEF InScope
<1>2. ASSUME NEW k \in DOMAIN scopes' PROVE LoadsFrom(scopes'[k].insts, lo)
  <2>1. k \in DOMAIN scopes /\ scopes'[k] = IF k = Len(scopes) THEN s ELSE scopes[k]
    BY <1>1
  <2> QED BY <2>1 DEF OwnScopes
<1> QED BY <1>2 DEF OwnScopes

LEMMA LeavingOwn ==
  ASSUME CompilerInv, Compiling, NEW lo, OwnScopes(lo), NEW m \in Nat, m >= 1, Len(scopes) = m + 1,
         NEW s \in ScopeType, LoadsFrom(s.insts, lo), scopes' = Leaving(scopes, s)
  PROVE  OwnScopes(lo)'
<1>1. scopes \in Seq(ScopeType)
  BY Now
<1>2. IsLeaving(ScopeType, scopes, m, s, Leaving(scopes, s))
  <2> HIDE DEF ScopeType
  <2> QED BY <1>1, LeavingFacts
<1>3. ASSUME NEW k \in DOMAIN scopes' PROVE LoadsFrom(scopes'[k].insts, lo)
  <2>1. scopes' \in Seq(ScopeType) /\ Len(scopes') = m /\ scopes'[m] = s
        /\ \A j \in 1..m : j # m => scopes'[j] = scopes[j]
    BY <1>2 DEF IsLeaving
  <2>2. k \in 1..m /\ k \in DOMAIN scopes
    <3> HIDE DEF ScopeType
    <3> QED BY <1>1, <2>1
  <2> QED BY <2>1, <2>2 DEF OwnScopes
<1> QED BY <1>3 DEF OwnScopes

(* The instruction that loads a constant just added. *)
LEMMA LoadsNew ==
  ASSUME CompilerInv, NEW lo \in Nat, lo <= nconsts, nconsts + 1 <= U16,
         NEW s \in ScopeType, LoadsFrom(s.insts, lo), NEW op \in Constants, NEW b \in Nat
  PROVE  LoadsFrom(compiler_emit(s, op, nconsts, b).insts, lo)
<1>1. nconsts \in Nat /\ U16 \in Nat
  BY WidthAssumption DEF CompilerInv, StateOK
<1>2. nconsts % U16 = nconsts
  BY <1>1
<1>3. op \in Opcode
  BY DEF Constants, Opcode, Wide
<1> QED BY <1>1, <1>2, <1>3, EmittedLoads

(* Adding a function: its body loads no others, nor does the outer scope. *)
LEMMA AddFunctionOwn ==
  ASSUME Going, Head(work).do = "function", NEW lo \in Nat, lo <= nconsts, nconsts + 1 <= U16,
         OwnScopes(lo), NEW s \in ScopeType, LoadsFrom(s.insts, lo), AddFunction(s)
  PROVE  OwnScopes(lo)' /\ \E o : heap' = Append(heap, o) /\ OwnObject(o, lo)
<1> DEFINE n == Len(Innermost(tables).free)
           c == compiler_emit(s, "closure", nconsts, n)
           o == new_function_obj(Returning(Scope).insts, Innermost(tables).num_defs, Len(Node.params))
           m == Len(scopes) - 1
<1>1. heap' = Append(heap, o) /\ scopes' = Leaving(scopes, c)
  BY DEF AddFunction, Leaving
<1>2. /\ Scope \in ScopeType /\ Tracked(Scope) /\ Scope = scopes[Len(scopes)]
      /\ Len(scopes) \in Nat /\ Len(scopes) >= 2 /\ scopes \in Seq(ScopeType)
  BY Now, TwoScopes DEF Going
<1>3. LoadsFrom(Scope.insts, lo)
  BY <1>2 DEF OwnScopes
<1>4. OwnObject(o, lo)
  <2>1. LoadsFrom(Returning(Scope).insts, lo)
    BY <1>2, <1>3, ReturningLoads
  <2> QED BY <2>1 DEF OwnObject, new_function_obj, Function
<1>5. n \in Nat
  <2>1. Innermost(tables) \in TableType
    BY Now DEF Going, Chain, Innermost
  <2>2. Innermost(tables).free \in Seq(SymbolType)
    BY <2>1, TableFacts
  <2> DEFINE f == Innermost(tables).free
  <2>3. f \in Seq(SymbolType)
    BY <2>2
  <2> HIDE DEF f, SymbolType
  <2>4. Len(f) \in Nat
    BY <2>3
  <2> QED BY <2>4 DEF f
<1> HIDE DEF o, n
<1>6. "closure" \in Constants /\ "closure" \in Opcode /\ nconsts \in Nat
  BY DEF Constants, Opcode, Going, CompilerInv, StateOK
<1>7. c \in ScopeType /\ LoadsFrom(c.insts, lo)
  <2>1. LoadsFrom(c.insts, lo)
    BY <1>5, <1>6, LoadsNew DEF Going
  <2> QED BY <1>5, <1>6, <2>1, EmitFacts
<1> HIDE DEF c
<1>8. m \in Nat /\ m >= 1 /\ Len(scopes) = m + 1
  BY <1>2
<1> HIDE DEF m
<1>9. OwnScopes(lo)'
  BY <1>1, <1>7, <1>8, LeavingOwn DEF Going
<1> QED BY <1>1, <1>4, <1>9

(* The scopes after a step that adds no constant. *)
LEMMA ScopesOwn ==
  ASSUME CompilerInv, compile, NEW lo \in Nat, OwnScopes(lo),
         \/ compile_operation \/ compile_identifier \/ compile_assign \/ compile_assign_to_literal
         \/ compile_block \/ compile_call \/ compile_return \/ compile_ifelse \/ compile_ifelse_body
         \/ compile_ifelse_altern \/ compile_ifelse_end \/ compile_function
         \/ compile_function_aborts \/ CompileNULL \/ Emit
  PROVE  OwnScopes(lo)'
<1>1. Compiling
  BY CompileIsStep
<1>2. /\ Scope \in ScopeType /\ Tracked(Scope) /\ Scope = scopes[Len(scopes)]
      /\ Len(scopes) \in Nat /\ Len(scopes) >= 1 /\ scopes \in Seq(ScopeType)
      /\ Head(work) \in Task
  BY <1>1, Now
<1>3. LoadsFrom(Scope.insts, lo)
  BY <1>2 DEF OwnScopes
<1>4. ASSUME NEW op \in Deferred, NEW a \in Nat, NEW s \in ScopeType, LoadsFrom(s.insts, lo)
      PROVE  compiler_emit(s, op, a, 0) \in ScopeType
             /\ LoadsFrom(compiler_emit(s, op, a, 0).insts, lo)
  <2>1. op \in Opcode /\ op \notin Constants /\ 0 \in Nat
    BY DEF Deferred
  <2> QED BY <1>4, <2>1, EmitFacts, EmittedLoads
<1>5. CASE UNCHANGED scopes
  BY <1>5 DEF OwnScopes
<1>6. ASSUME NEW op \in Deferred, NEW a \in Nat, InScope(compiler_emit(Scope, op, a, 0))
      PROVE  OwnScopes(lo)'
  <2> DEFINE s == compiler_emit(Scope, op, a, 0)
  <2>1. LoadsFrom(s.insts, lo) /\ InScope(s)
    BY <1>2, <1>3, <1>4, <1>6
  <2> HIDE DEF s
  <2> QED BY <1>1, <2>1, HereOwn
<1>7. CASE compile_identifier
  <2>1. Going /\ Head(work).do = "visit" /\ Node.t = "identifier"
    BY <1>1, <1>7 DEF Going, compile_identifier, Visiting, Doing, Halt, EmitTask
  <2>2. Node.name \in STRING
    BY <2>1, Visited, NodeFacts
  <2> DEFINE y == symbol_table_resolve(tables, Node.name).symbol
  <2>3. y \in SymbolType \cup {NoSymbol}
    BY <1>1, <2>2, Now, ResolveFacts
  <2>4. UNCHANGED scopes \/ (Loadable(y) /\ InScope(compiler_emit(Scope, LoadOp(y.scope), y.index, 0)))
    BY <1>7 DEF compile_identifier
  <2> HIDE DEF y
  <2>5. ASSUME Loadable(y) PROVE LoadOp(y.scope) \in Deferred /\ y.index \in Nat
    <3>1. NoSymbol.scope = -1
      BY DEF NoSymbol, new_symbol
    <3>2. y \in SymbolType
      BY <2>3, <2>5, <3>1 DEF Loadable, global_scope, function_scope
    <3>3. y.scope \in 0..4
      BY <2>5, <3>2 DEF Loadable, SymbolType, global_scope, function_scope
    <3> QED BY <2>5, <3>2, <3>3, LoadOpFacts
            DEF Deferred, LoadOp, Constants, global_scope, local_scope, builtin_scope, free_scope, function_scope
  <2> QED BY <1>5, <1>6, <2>4, <2>5
<1>8. CASE Emit
  <2>1. Head(work).op \in Deferred /\ Head(work).a \in Nat
    BY <1>2, <1>8, TaskFacts DEF Emit, Doing
  <2> QED BY <1>6, <1>8, <2>1 DEF Emit
<1>9. CASE compile_ifelse_body
  <2>1. "jump_not_truthy" \in Deferred /\ PLACEHOLDER \in Nat
    BY DEF Deferred, Constants, Opcode, Wide, PLACEHOLDER
  <2> QED BY <1>6, <1>9, <2>1 DEF compile_ifelse_body, EmitHere
<1>a. CASE compile_function
  <2>1. scopes' = Append(scopes, new_scope)
    BY <1>a DEF compile_function
  <2>2. DOMAIN new_scope.insts = {}
    BY DEF new_scope
  <2> DEFINE e == new_scope
  <2>3. \A k \in DOMAIN Append(scopes, e) : Append(scopes, e)[k] = e \/ (k \in DOMAIN scopes /\ Append(scopes, e)[k] = scopes[k])
    <3> HIDE DEF e, ScopeType
    <3> QED BY <1>2
  <2>4. LoadsFrom(e.insts, lo)
    BY <2>2 DEF LoadsFrom
  <2> HIDE DEF e
  <2>5. scopes' = Append(scopes, e)
    BY <2>1 DEF e
  <2> QED BY <2>3, <2>4, <2>5 DEF OwnScopes
<1>b. CASE compile_ifelse_altern \/ compile_ifelse_end
  <2> DEFINE h == Head(work).pos
  <2>1. Holds(Head(work)) /\ Going
    BY <1>1, <1>b DEF compile_ifelse_altern, compile_ifelse_end, Doing, Holds, Going, Halt, EmitTask
  <2>2. h \in Nat /\ HeldAt(Scope.insts, h)
    BY <2>1, Branching
  <2>3. InScope(Ended(Scope, h)) \/ InScope(Patched(Scope, h)) \/ InScope(Valued(Scope, h))
    BY <1>b DEF compile_ifelse_altern, compile_ifelse_end, CompileAltern, EmitHere,
                Ended, Patched, Valued, WithNull, Jumping, compiler_pos
  <2> DEFINE r == WithoutPop(Scope)
             j == Jumping(Scope)
             u == Patched(Scope, h)
             w == WithNull(Scope, h)
             q == Len(r.insts)
  <2>4. r \in ScopeType /\ Tracked(r) /\ HeldAt(r.insts, h) /\ LoadsFrom(r.insts, lo) /\ q \in Nat
    <3>1. r \in ScopeType /\ Tracked(r) /\ HeldAt(r.insts, h) /\ LoadsFrom(r.insts, lo)
      BY <1>2, <1>3, <2>2, BranchFacts, CutLoads
    <3> HIDE DEF r
    <3>2. r.insts \in Seq(Cell)
      BY <3>1 DEF ScopeType
    <3> QED BY <3>1, <3>2
  <2>5. LoadsFrom(Ended(Scope, h).insts, lo)
    <3> HIDE DEF r, h
    <3>1. LoadsFrom(compiler_replace_operand(r, h, q).insts, lo)
      BY <2>2, <2>4, PatchedLoads
    <3> QED BY <3>1 DEF Ended, r, compiler_pos
  <2>6. j \in ScopeType /\ LoadsFrom(j.insts, lo) /\ HeldAt(j.insts, h) /\ Len(j.insts) \in Nat
    <3>0. "jump" \in Deferred /\ "jump" \in Opcode /\ PLACEHOLDER \in Nat /\ 0 \in Nat
      BY DEF Deferred, Constants, Opcode, Wide, PLACEHOLDER
    <3> DEFINE jj == compiler_emit(r, "jump", PLACEHOLDER, 0)
    <3> HIDE DEF r, h
    <3>1. jj \in ScopeType /\ LoadsFrom(jj.insts, lo)
      BY <1>4, <2>4, <3>0
    <3>2. Grown(r.insts, jj.insts, {})
      BY <2>4, <3>0, EmitFacts
    <3> HIDE DEF jj
    <3>3. jj.insts \in Seq(Cell) /\ r.insts \in Seq(Cell)
      BY <2>4, <3>1 DEF ScopeType
    <3>4. HeldAt(jj.insts, h) /\ Len(jj.insts) \in Nat
      <4>1. h \in 0..Len(r.insts) - 1 /\ r.insts[h + 1] \in Inst /\ r.insts[h + 1].op \in Jumps
        BY <2>4 DEF HeldAt, IsInst
      <4>2. h + 1 \in DOMAIN r.insts
        BY <3>3, <4>1
      <4>3. h + 1 \in DOMAIN jj.insts /\ jj.insts[h + 1] = r.insts[h + 1]
        BY <3>2, <4>2 DEF Grown
      <4>4. h \in 0..Len(jj.insts) - 1
        BY <2>2, <3>3, <4>3
      <4> QED BY <3>3, <4>1, <4>3, <4>4 DEF HeldAt, IsInst
    <3> QED BY <3>1, <3>4 DEF jj, r, Jumping
  <2>7. LoadsFrom(u.insts, lo)
    <3> HIDE DEF h, r
    <3>1. LoadsFrom(compiler_replace_operand(Jumping(Scope), h, Len(Jumping(Scope).insts)).insts, lo)
      BY <2>2, <2>6, PatchedLoads
    <3> QED BY <3>1 DEF Patched, compiler_pos
  <2>8. LoadsFrom(Valued(Scope, h).insts, lo)
    <3>1. u \in ScopeType /\ IsInst(u.insts, q) /\ u.insts[q + 1] = Decoded("jump", PLACEHOLDER, 0)
      BY <1>2, <2>2, PatchedFacts
    <3>2. "null" \in Deferred /\ "null" \in Opcode /\ 0 \in Nat
      BY DEF Deferred, Constants, Opcode, Plain
    <3> HIDE DEF u, h, r, q
    <3> DEFINE ww == compiler_emit(u, "null", 0, 0)
    <3>3. ww \in ScopeType /\ LoadsFrom(ww.insts, lo)
      BY <1>4, <2>7, <3>1, <3>2
    <3>4. Grown(u.insts, ww.insts, {})
      BY <3>1, <3>2, EmitFacts
    <3> HIDE DEF ww
    <3>5. u.insts \in Seq(Cell) /\ ww.insts \in Seq(Cell)
      BY <3>1, <3>3 DEF ScopeType
    <3>6. HeldAt(ww.insts, q) /\ Len(ww.insts) \in Nat
      <4>1. q \in 0..Len(u.insts) - 1 /\ u.insts[q + 1] \in Inst /\ u.insts[q + 1].op \in Jumps
        BY <3>1 DEF IsInst, Decoded, Jumps
      <4>2. q + 1 \in DOMAIN u.insts
        BY <3>5, <4>1
      <4>3. q + 1 \in DOMAIN ww.insts /\ ww.insts[q + 1] = u.insts[q + 1]
        BY <3>4, <4>2 DEF Grown
      <4>4. q \in 0..Len(ww.insts) - 1
        BY <2>4, <3>5, <4>3
      <4> QED BY <3>5, <4>1, <4>3, <4>4 DEF HeldAt, IsInst
    <3>7. LoadsFrom(compiler_replace_operand(ww, q, Len(ww.insts)).insts, lo)
      BY <2>4, <3>3, <3>6, PatchedLoads
    <3>8. ww = WithNull(Scope, h) /\ q = compiler_pos(WithoutPop(Scope)) /\ Len(ww.insts) = compiler_pos(WithNull(Scope, h))
      BY DEF ww, q, r, u, WithNull, compiler_pos
    <3> QED BY <3>7, <3>8 DEF Valued
  <2> HIDE DEF h
  <2> QED BY <1>1, <2>3, <2>5, <2>7, <2>8, HereOwn
<1>c. CASE \/ compile_operation \/ compile_assign \/ compile_assign_to_literal
           \/ compile_block \/ compile_call \/ compile_return \/ compile_ifelse
           \/ compile_function_aborts \/ CompileNULL
  BY <1>5, <1>c DEF compile_operation, compile_assign, compile_assign_to_literal, compile_block,
     compile_call, compile_return, compile_ifelse, compile_function_aborts, CompileNULL, Plan
<1> QED BY <1>7, <1>8, <1>9, <1>a, <1>b, <1>c

(* A constant just added is no object of F: it is new, or null. *)
LEMMA AddedOwn ==
  ASSUME StateOK, NEW F, F \subseteq 4..Len(heap), NEW lo, OwnConstants(F, lo),
         NEW id \in {NullObj, Len(heap) + 1}, compiler_add_const(id)
  PROVE  OwnConstants(F, lo)'
<1>1. Len(heap) \in Nat
  BY DEF StateOK
<1>2. id \notin F
  BY <1>1
<1>3. consts' = [j \in DOMAIN consts \cup {nconsts} |-> IF j = nconsts THEN id ELSE consts[j]]
  BY DEF compiler_add_const, Put
<1> QED BY <1>2, <1>3 DEF OwnConstants

(* The heap grows by one object at most, whose code is the line's own. *)
LEMMA GrownOwn ==
  ASSUME StateOK, NEW F, NEW lo, OwnCode(F, lo),
         heap' = heap \/ \E o : heap' = Append(heap, o) /\ OwnObject(o, lo)
  PROVE  OwnCode(F, lo)'
<1>1. heap \in Seq(ObjectType) /\ Len(heap) \in Nat
  BY DEF StateOK
<1>2. CASE heap' = heap
  BY <1>2 DEF OwnCode
<1>3. ASSUME NEW o, heap' = Append(heap, o), OwnObject(o, lo) PROVE OwnCode(F, lo)'
  <2>1. Len(heap') = Len(heap) + 1 /\ heap'[Len(heap) + 1] = o
        /\ \A id \in 1..Len(heap) : heap'[id] = heap[id]
    <3> HIDE DEF ObjectType
    <3> QED BY <1>1, <1>3
  <2>2. ASSUME NEW id \in (1..Len(heap')) \ F PROVE OwnObject(heap'[id], lo)
    <3>1. id \in 1..Len(heap) \/ id = Len(heap) + 1
      BY <1>1, <2>1
    <3>2. CASE id \in 1..Len(heap)
      BY <2>1, <3>2 DEF OwnCode
    <3>3. CASE id = Len(heap) + 1
      BY <1>3, <2>1, <3>3
    <3> QED BY <3>1, <3>2, <3>3
  <2> QED BY <2>2 DEF OwnCode
<1> QED BY <1>2, <1>3

(* compile() keeps what the line owns. *)
LEMMA CompileOwns ==
  ASSUME CompilerInv, compile, NEW lo \in Nat, lo <= nconsts, nconsts' <= U16,
         NEW F, F \subseteq 4..Len(heap), LineOwns(F, lo)
  PROVE  LineOwns(F, lo)'
<1>1. StateOK /\ OwnConstants(F, lo) /\ OwnScopes(lo) /\ OwnCode(F, lo) /\ Compiling
  BY CompileIsStep DEF LineOwns, CompilerInv
<1>2. nconsts \in Nat /\ Scope \in ScopeType /\ LoadsFrom(Scope.insts, lo) /\ U16 \in Nat
  <2>1. Scope \in ScopeType /\ Len(scopes) \in DOMAIN scopes /\ Scope = scopes[Len(scopes)]
    BY <1>1, Now
  <2> QED BY <1>1, <2>1, WidthAssumption DEF StateOK, OwnScopes
<1>3. CASE compile_integer
  <2>1. /\ heap' = Append(heap, new_integer_obj(Node.i)) /\ compiler_add_const(Len(heap) + 1)
        /\ InScope(compiler_emit(Scope, "constant", nconsts, 0)) /\ nconsts' = nconsts + 1
    BY <1>3 DEF compile_integer, compiler_add_const
  <2>2. OwnObject(new_integer_obj(Node.i), lo)
    BY DEF OwnObject, new_integer_obj
  <2>3. LoadsFrom(compiler_emit(Scope, "constant", nconsts, 0).insts, lo)
    BY <1>2, <2>1, LoadsNew DEF Constants
  <2>4. OwnScopes(lo)'
    BY <1>1, <2>1, <2>3, HereOwn
  <2>5. OwnConstants(F, lo)'
    BY <1>1, <2>1, AddedOwn
  <2>6. OwnCode(F, lo)'
    BY <1>1, <2>1, <2>2, GrownOwn
  <2> QED BY <2>4, <2>5, <2>6 DEF LineOwns
<1>4. CASE compile_null
  <2>1. /\ heap' = heap /\ compiler_add_const(NullObj)
        /\ InScope(compiler_emit(Scope, "constant", nconsts, 0)) /\ nconsts' = nconsts + 1
    BY <1>4 DEF compile_null, compiler_add_const
  <2>2. LoadsFrom(compiler_emit(Scope, "constant", nconsts, 0).insts, lo)
    BY <1>2, <2>1, LoadsNew DEF Constants
  <2>3. OwnScopes(lo)'
    BY <1>1, <2>1, <2>2, HereOwn
  <2>4. OwnConstants(F, lo)'
    BY <1>1, <2>1, AddedOwn
  <2>5. OwnCode(F, lo)'
    BY <1>1, <2>1, GrownOwn
  <2> QED BY <2>3, <2>4, <2>5 DEF LineOwns
<1>5. ASSUME NEW s \in ScopeType, LoadsFrom(s.insts, lo), Head(work).do = "function", AddFunction(s)
      PROVE  LineOwns(F, lo)'
  <2>1. compiler_add_const(Len(heap) + 1) /\ nconsts' = nconsts + 1 /\ Going
    BY <1>1, <1>5 DEF AddFunction, compiler_add_const, Going, Halt, EmitTask
  <2>2. OwnScopes(lo)' /\ \E o : heap' = Append(heap, o) /\ OwnObject(o, lo)
    BY <1>1, <1>5, <2>1, AddFunctionOwn
  <2>3. OwnConstants(F, lo)'
    BY <1>1, <2>1, AddedOwn
  <2>4. OwnCode(F, lo)'
    BY <1>1, <2>2, GrownOwn
  <2> QED BY <2>2, <2>3, <2>4 DEF LineOwns
<1>6. ASSUME UNCHANGED <<heap, consts>>, OwnScopes(lo)' PROVE LineOwns(F, lo)'
  BY <1>1, <1>6 DEF LineOwns, OwnConstants, OwnCode
<1>7. CASE compile_function_end \/ compile_function_captures
  <2> DEFINE m == Len(scopes) - 1
             s == scopes[m]
             free == Innermost(tables).free
  <2>1. Head(work).do = "function" /\ Going
    BY <1>1, <1>7 DEF compile_function_end, compile_function_captures, Doing, Going, Halt, EmitTask
  <2>2. /\ scopes \in Seq(ScopeType) /\ \A k \in DOMAIN scopes : Tracked(scopes[k])
        /\ Len(scopes) >= 2 /\ Len(scopes) \in Nat /\ Chain(tables)
    BY <1>1, <2>1, Now, TwoScopes DEF CompilerInv, ScopesOK
  <2>3. m \in Nat /\ m >= 1 /\ Len(scopes) = m + 1 /\ m \in DOMAIN scopes
    BY <2>2
  <2>4. free \in Seq(SymbolType) /\ Len(free) \in Nat
    <3>1. Innermost(tables) \in TableType
      BY <2>2 DEF Chain, Innermost
    <3>2. free \in Seq(SymbolType)
      BY <3>1, TableFacts
    <3> HIDE DEF free, SymbolType
    <3> QED BY <3>2
  <2>5. CASE compile_function_end
    <3>1. AddFunction(s)
      BY <2>5 DEF compile_function_end
    <3> HIDE DEF m
    <3>2. s \in ScopeType /\ LoadsFrom(s.insts, lo)
      BY <1>1, <2>2, <2>3 DEF OwnScopes
    <3> QED BY <1>5, <2>1, <3>1, <3>2
  <2>6. CASE compile_function_captures
    <3>1. \/ UNCHANGED <<scopes, heap, consts>>
          \/ /\ \E n \in 0..Len(free) - 1 :
                  /\ \A i \in 1..n : Loadable(free[i])
                  /\ scopes' = Leaving(scopes, LoadAll(s, SubSeq(free, 1, n)))
             /\ UNCHANGED <<heap, consts>>
          \/ /\ \A i \in DOMAIN free : Loadable(free[i])
             /\ AddFunction(LoadAll(s, free))
      BY <2>6 DEF compile_function_captures, Leaving, objVars
    <3> HIDE DEF m, free
    <3>2. s \in ScopeType /\ LoadsFrom(s.insts, lo) /\ Tracked(s)
      BY <1>1, <2>2, <2>3 DEF OwnScopes
    <3> HIDE DEF s
    <3>3. CASE UNCHANGED <<scopes, heap, consts>>
      BY <1>1, <1>6, <3>3 DEF OwnScopes
    <3>4. ASSUME NEW n \in 0..Len(free) - 1, \A i \in 1..n : Loadable(free[i]),
                 scopes' = Leaving(scopes, LoadAll(s, SubSeq(free, 1, n))), UNCHANGED <<heap, consts>>
          PROVE  LineOwns(F, lo)'
      <4> DEFINE us == SubSeq(free, 1, n)
                 c == LoadAll(s, us)
      <4>1. n \in 0..Len(free)
        BY <2>4, <3>4
      <4>2. us \in Seq(SymbolType) /\ \A i \in DOMAIN us : Loadable(us[i])
        BY <2>4, <3>4, <4>1, LoadedFacts
      <4>3. scopes' = Leaving(scopes, c)
        BY <3>4
      <4> HIDE DEF us
      <4>4. c \in ScopeType /\ LoadsFrom(c.insts, lo)
        BY <3>2, <4>2, LoadAllFacts, SymbolsLoad
      <4> HIDE DEF c
      <4>5. OwnScopes(lo)'
        BY <1>1, <2>3, <4>3, <4>4, LeavingOwn
      <4> QED BY <1>6, <3>4, <4>5
    <3>5. CASE /\ \A i \in DOMAIN free : Loadable(free[i])
               /\ AddFunction(LoadAll(s, free))
      <4> DEFINE c == LoadAll(s, free)
      <4>1. AddFunction(c) /\ c \in ScopeType /\ LoadsFrom(c.insts, lo)
        BY <2>4, <3>2, <3>5, LoadAllFacts, SymbolsLoad
      <4> HIDE DEF c
      <4> QED BY <1>5, <2>1, <4>1
    <3> QED BY <3>1, <3>3, <3>4, <3>5
  <2> QED BY <1>7, <2>5, <2>6
<1>8. CASE /\ ~ compile_integer /\ ~ compile_null
           /\ ~ compile_function_end /\ ~ compile_function_captures
  <2>1. UNCHANGED <<heap, consts>>
    BY <1>8 DEF compile, compile_operation, compile_identifier,
         compile_assign, compile_assign_to_literal, compile_block, compile_call,
         compile_return, compile_ifelse, compile_ifelse_body, compile_ifelse_altern,
         compile_ifelse_end, compile_function,
         compile_function_aborts, CompileNULL, Emit, Plan, EmitHere, Fail,
         CompileAltern, objVars
  <2>2. OwnScopes(lo)'
    BY <1>1, <1>8, ScopesOwn DEF compile
  <2> QED BY <1>6, <2>1, <2>2
<1> QED BY <1>3, <1>4, <1>7, <1>8

(* What a run may reach: none of F, from anywhere outside of F. *)
AvoidsObject(o, F) ==
  /\ o.type \in {"function", "closure"} => Loaded(o.fn.insts) \cap F = {}
  /\ o.type = "closure" => \A i \in DOMAIN o.free : o.free[i] \notin F
StackAvoids(F)   == \A i \in Slots : stack[i] \notin F
GlobalsAvoid(F)  == \A i \in DOMAIN globals : globals[i] \notin F
FramesAvoid(F)   == \A n \in DOMAIN frames : frames[n].cl \notin F
ObjectsAvoid(F)  == \A id \in (1..Len(heap)) \ F : AvoidsObject(heap[id], F)
RunAvoids(F)     == StackAvoids(F) /\ GlobalsAvoid(F) /\ FramesAvoid(F) /\ ObjectsAvoid(F)

(* The heap of a run grows by objects that avoid F. *)
LEMMA GrownAvoids ==
  ASSUME HeapOK, NEW F, ObjectsAvoid(F), consts' = consts,
         heap' = heap \/ \E o : heap' = Append(heap, o) /\ AvoidsObject(o, F)
  PROVE  ObjectsAvoid(F)'
<1>1. heap \in Seq(ObjectType) /\ Len(heap) \in Nat
  BY DEF HeapOK
<1>2. ASSUME NEW o, AvoidsObject(o, F) PROVE AvoidsObject(o, F)'
  BY <1>2 DEF AvoidsObject, Loaded
<1>3. CASE heap' = heap
  <2>1. ASSUME NEW id \in (1..Len(heap)) \ F PROVE AvoidsObject(heap[id], F)'
    <3>1. AvoidsObject(heap[id], F)
      BY DEF ObjectsAvoid
    <3> QED BY <1>3, <3>1 DEF AvoidsObject, Loaded
  <2> QED BY <1>3, <2>1 DEF ObjectsAvoid
<1>4. ASSUME NEW o, heap' = Append(heap, o), AvoidsObject(o, F) PROVE ObjectsAvoid(F)'
  <2>1. Len(heap') = Len(heap) + 1 /\ heap'[Len(heap) + 1] = o
        /\ \A id \in 1..Len(heap) : heap'[id] = heap[id]
    <3> HIDE DEF ObjectType
    <3> QED BY <1>1, <1>4
  <2>2. ASSUME NEW id \in (1..Len(heap')) \ F PROVE AvoidsObject(heap[id], F)'
    <3>1. id \in 1..Len(heap) \/ id = Len(heap) + 1
      BY <1>1, <2>1
    <3>2. CASE id \in 1..Len(heap)
      <4>1. PICK x : x = heap[id]
        OBVIOUS
      <4>2. AvoidsObject(x, F) /\ heap'[id] = x
        BY <2>1, <2>2, <3>2, <4>1 DEF ObjectsAvoid
      <4>3. AvoidsObject(x, F)'
        BY <1>2, <4>2
      <4> QED BY <4>2, <4>3 DEF AvoidsObject, Loaded
    <3>3. CASE id = Len(heap) + 1
      <4>1. AvoidsObject(o, F)' /\ heap'[id] = o
        BY <1>2, <1>4, <2>1, <3>3
      <4> QED BY <4>1 DEF AvoidsObject, Loaded
    <3> QED BY <3>1, <3>2, <3>3
  <2> QED BY <2>2 DEF ObjectsAvoid
<1> QED BY <1>3, <1>4

(* Leaving a value on the stack, and moving on. *)
LEMMA LeftAvoids ==
  ASSUME TypeOK, NEW F, StackAvoids(F), NEW taken, NEW id, id \notin F, Leave(taken, id)
  PROVE  StackAvoids(F)'
<1>1. stack \in [Slots -> Ids(heap)] /\ stack' = [stack EXCEPT ![sp - taken] = id]
  BY DEF TypeOK, ReferencesOK, Leave
<1>2. \A i \in Slots : stack'[i] = stack[i] \/ stack'[i] = id
  BY <1>1
<1> QED BY <1>2 DEF StackAvoids, Slots

LEMMA MovedAvoids ==
  ASSUME TypeOK, NEW F, FramesAvoid(F), NEW p, GoTo(p)
  PROVE  FramesAvoid(F)'
<1>1. frames \in Seq(FrameType) /\ Len(frames) \in 1..Len(frames) /\ Top = frames[Len(frames)]
  BY TopFacts DEF TypeOK, FramesOK, Top
<1>2. frames' = [frames EXCEPT ![Len(frames)] = [Top EXCEPT !.ip = p]]
  BY <1>1 DEF GoTo
<1>3. [Top EXCEPT !.ip = p].cl = Top.cl
  BY TopFacts DEF FrameType
<1> DEFINE fr == [Top EXCEPT !.ip = p]
<1> HIDE DEF fr
<1>4. ASSUME NEW n \in DOMAIN frames' PROVE frames'[n].cl \notin F
  <2>1. n \in DOMAIN frames /\ frames'[n] = IF n = Len(frames) THEN fr ELSE frames[n]
    BY <1>1, <1>2 DEF fr
  <2>2. fr.cl = Top.cl
    BY <1>3 DEF fr
  <2> QED BY <1>1, <2>1, <2>2 DEF FramesAvoid
<1> QED BY <1>4 DEF FramesAvoid

(* What the constants of the current instruction are. *)
LEMMA LoadedNow ==
  ASSUME TypeOK, NEW F, RunAvoids(F), Ready, Current.op \in Constants, Current.a \in DOMAIN consts
  PROVE  consts[Current.a] \notin F
<1>1. /\ heap[Top.cl] \in ClosureObject /\ Top \in FrameType
      /\ Len(frames) \in DOMAIN frames /\ Top = frames[Len(frames)]
  <2>1. Len(frames) \in Nat /\ Len(frames) >= 1 /\ frames \in Seq(FrameType)
    BY TopFacts DEF TypeOK, FramesOK
  <2>2. Len(frames) \in DOMAIN frames
    BY <2>1
  <2> QED BY <2>2, TopFacts DEF Top
<1>2. Top.cl \in (1..Len(heap)) \ F
  BY <1>1 DEF RunAvoids, FramesAvoid, FrameType
<1>3. AvoidsObject(heap[Top.cl], F)
  BY <1>2 DEF RunAvoids, ObjectsAvoid
<1>4. Loaded(Fn(Top).insts) \cap F = {}
  BY <1>1, <1>3 DEF AvoidsObject, ClosureObject, Fn
<1>5. Top.ip + 1 \in DOMAIN Fn(Top).insts
  <2>1. Top.ip \in 0..Len(Fn(Top).insts) - 1 /\ Fn(Top) \in FunctionType
    BY TopFacts DEF Ready, AtInst, IsInst
  <2>2. Fn(Top).insts \in Seq(Cell)
    BY <2>1 DEF FunctionType
  <2> DEFINE t == Fn(Top).insts
  <2>3. t \in Seq(Cell) /\ Top.ip \in 0..Len(t) - 1
    BY <2>1, <2>2
  <2> HIDE DEF t, Cell
  <2>4. Top.ip + 1 \in DOMAIN t
    BY <2>3
  <2> QED BY <2>4 DEF t
<1>6. consts[Current.a] \in Loaded(Fn(Top).insts)
  BY <1>5 DEF Loaded, Current, Constants
<1> QED BY <1>4, <1>6

(* Loading an object outside of F. *)
LEMMA LoadAvoids ==
  ASSUME TypeOK, NEW F, RunAvoids(F), NEW id, id \notin F, Load(id)
  PROVE  RunAvoids(F)'
<1>1. ObjectsAvoid(F)'
  BY GrownAvoids DEF Load, RunAvoids, TypeOK
<1>2. StackAvoids(F)'
  BY LeftAvoids DEF Load, RunAvoids
<1>3. FramesAvoid(F)'
  BY MovedAvoids DEF Load, RunAvoids, Step
<1>4. GlobalsAvoid(F)'
  BY DEF Load, RunAvoids, GlobalsAvoid
<1> QED BY <1>1, <1>2, <1>3, <1>4 DEF RunAvoids

(* One lemma per group of instructions: loading, *)
LEMMA LoadsAvoid ==
  ASSUME TypeOK, NEW F, F \subseteq 4..Len(heap), RunAvoids(F),
         \/ TARGET_CONST \/ TARGET_TRUE \/ TARGET_FALSE \/ TARGET_NULL
         \/ TARGET_CURRENT_CLOSURE
         \/ TARGET_GET_GLOBAL \/ TARGET_GET_LOCAL \/ TARGET_GET_FREE
  PROVE  RunAvoids(F)'
<1>0. Len(heap) \in Nat /\ \A i \in 0..3 : i \notin F
  BY DEF TypeOK, HeapOK
<1>1. /\ StackAvoids(F) /\ GlobalsAvoid(F) /\ FramesAvoid(F) /\ ObjectsAvoid(F)
  BY DEF RunAvoids
<1>2. Top.cl \in (1..Len(heap)) \ F /\ heap[Top.cl] \in ClosureObject
  <2>1. Len(frames) \in Nat /\ Len(frames) >= 1 /\ frames \in Seq(FrameType)
    BY TopFacts DEF TypeOK, FramesOK
  <2>2. Len(frames) \in DOMAIN frames
    BY <2>1
  <2> QED BY <1>1, <2>2, TopFacts DEF Top, FramesAvoid, FrameType
<1>4. CASE TARGET_CONST
  <2>1. Current.a \in DOMAIN consts
    BY <1>4 DEF TARGET_CONST, At, Faults, Binary, Arith, Logic, Equality, Compare
  <2>2. consts[Current.a] \notin F
    BY <1>4, <2>1, LoadedNow DEF TARGET_CONST, At, Constants
  <2> QED BY <1>4, <2>2, LoadAvoids DEF TARGET_CONST
<1>5. CASE TARGET_TRUE \/ TARGET_FALSE \/ TARGET_NULL
  BY <1>0, <1>5, LoadAvoids DEF TARGET_TRUE, TARGET_FALSE, TARGET_NULL
<1>6. CASE TARGET_CURRENT_CLOSURE
  BY <1>2, <1>6, LoadAvoids DEF TARGET_CURRENT_CLOSURE
<1>7. CASE TARGET_GET_GLOBAL
  <2>1. Value(globals, Current.a) \notin F
    BY <1>0, <1>1 DEF GlobalsAvoid, Value
  <2> QED BY <1>7, <2>1, LoadAvoids DEF TARGET_GET_GLOBAL
<1>8. CASE TARGET_GET_LOCAL
  <2>1. Top.base + Current.a \in Slots
    BY <1>8, ReadyFacts DEF TARGET_GET_LOCAL, At
  <2>2. stack[Top.base + Current.a] \notin F
    BY <1>1, <2>1 DEF StackAvoids
  <2> QED BY <1>8, <2>2, LoadAvoids DEF TARGET_GET_LOCAL
<1>9. CASE TARGET_GET_FREE
  <2> DEFINE free == heap[Top.cl].free
  <2>1. Ready /\ Current.op = "get_free" /\ ~Faults
    BY <1>9 DEF TARGET_GET_FREE, At
  <2>2. ~(Current.a >= Len(free))
    BY <2>1 DEF Faults, Binary, Arith, Logic, Equality, Compare
  <2>3. free \in Seq(Nat) /\ Len(free) \in Nat /\ DOMAIN free = 1..Len(free)
    <3>1. free \in Seq(Nat)
      BY <1>2 DEF ClosureObject
    <3> QED BY <3>1
  <2>4. Current.a \in Nat
    BY <2>1, ReadyFacts, InstFacts
  <2>5. Current.a + 1 \in DOMAIN free
    BY <2>2, <2>3, <2>4
  <2>6. AvoidsObject(heap[Top.cl], F)
    BY <1>1, <1>2 DEF ObjectsAvoid
  <2>7. free[Current.a + 1] \notin F
    BY <1>2, <2>5, <2>6 DEF AvoidsObject, ClosureObject
  <2> QED BY <1>9, <2>7, LoadAvoids DEF TARGET_GET_FREE
<1> QED BY <1>4, <1>5, <1>6, <1>7, <1>8, <1>9

(* writing a variable, jumping and stopping, *)
LEMMA WritesAvoid ==
  ASSUME TypeOK, NEW F, F \subseteq 4..Len(heap), RunAvoids(F),
         \/ TARGET_SET_GLOBAL \/ TARGET_SET_LOCAL
         \/ TARGET_JUMP \/ TARGET_JUMP_NOT_TRUTHY \/ TARGET_POP \/ Stops
  PROVE  RunAvoids(F)'
<1>1. /\ StackAvoids(F) /\ GlobalsAvoid(F) /\ FramesAvoid(F) /\ ObjectsAvoid(F) /\ HeapOK
  BY DEF RunAvoids, TypeOK
<1>2. UNCHANGED <<heap, consts>>
  BY StopsFacts DEF TARGET_SET_GLOBAL, TARGET_SET_LOCAL, TARGET_JUMP, TARGET_JUMP_NOT_TRUTHY, TARGET_POP
<1>3. ObjectsAvoid(F)'
  BY <1>1, <1>2, GrownAvoids
<1>4. FramesAvoid(F)'
  <2>1. UNCHANGED frames \/ \E p : GoTo(p)
    BY StopsFacts DEF TARGET_SET_GLOBAL, TARGET_SET_LOCAL, TARGET_JUMP, TARGET_JUMP_NOT_TRUTHY,
                      TARGET_POP, Step
  <2> QED BY <1>1, <2>1, MovedAvoids DEF FramesAvoid
<1>5. ASSUME TARGET_SET_GLOBAL \/ TARGET_SET_LOCAL PROVE Right \notin F
  <2>1. sp - 1 \in Slots
    BY <1>5, ReadyFacts DEF TARGET_SET_GLOBAL, TARGET_SET_LOCAL, At
  <2> QED BY <1>1, <2>1 DEF Right, StackAvoids
<1>6. StackAvoids(F)'
  <2>1. CASE UNCHANGED stack
    BY <1>1, <2>1 DEF StackAvoids, Slots
  <2>2. CASE TARGET_SET_LOCAL
    <3>1. stack \in [Slots -> Ids(heap)] /\ stack' = [stack EXCEPT ![Top.base + Current.a] = Right]
      BY <2>2 DEF TypeOK, ReferencesOK, TARGET_SET_LOCAL
    <3>2. Right \notin F
      BY <1>5, <2>2
    <3> DEFINE r == Right
    <3> HIDE DEF r
    <3>3. \A i \in Slots : stack'[i] = stack[i] \/ stack'[i] = r
      BY <3>1 DEF r
    <3> QED BY <1>1, <3>2, <3>3 DEF StackAvoids, Slots, r
  <2> QED BY <2>1, <2>2, StopsFacts DEF TARGET_SET_GLOBAL, TARGET_JUMP, TARGET_JUMP_NOT_TRUTHY, TARGET_POP
<1>7. GlobalsAvoid(F)'
  <2>1. CASE UNCHANGED globals
    BY <1>1, <2>1 DEF GlobalsAvoid
  <2>2. CASE TARGET_SET_GLOBAL
    <3>1. Right \notin F /\ globals' = Put(globals, Current.a, Right)
      BY <1>5, <2>2 DEF TARGET_SET_GLOBAL
    <3> DEFINE r == Right  a == Current.a
    <3> HIDE DEF r, a
    <3>2. r \notin F /\ globals' = Put(globals, a, r)
      BY <3>1 DEF r, a
    <3> QED BY <1>1, <3>2 DEF GlobalsAvoid, Put
  <2> QED BY <2>1, <2>2, StopsFacts DEF TARGET_SET_LOCAL, TARGET_JUMP, TARGET_JUMP_NOT_TRUTHY, TARGET_POP
<1> QED BY <1>3, <1>4, <1>6, <1>7 DEF RunAvoids

(* computing, *)
LEMMA ComputesAvoid ==
  ASSUME TypeOK, NEW F, F \subseteq 4..Len(heap), RunAvoids(F),
         TARGET_ARITH \/ TARGET_BOOLEAN \/ TARGET_BANG
  PROVE  RunAvoids(F)'
<1>1. /\ StackAvoids(F) /\ GlobalsAvoid(F) /\ FramesAvoid(F) /\ ObjectsAvoid(F) /\ HeapOK
      /\ Len(heap) \in Nat
  BY DEF RunAvoids, TypeOK, HeapOK
<1>2. TrueObj \notin F /\ FalseObj \notin F /\ Len(heap) + 1 \notin F
  BY <1>1
<1>3. ObjectsAvoid(F)'
  <2>1. CASE TARGET_ARITH
    <3> DEFINE o == new_integer_obj(ArithResult(Current.op, heap[Left].i, heap[Right].i))
    <3>1. o.type = "integer"
      BY DEF new_integer_obj
    <3>2. heap' = Append(heap, o) /\ consts' = consts
      BY <2>1 DEF TARGET_ARITH
    <3> HIDE DEF o
    <3>3. AvoidsObject(o, F)
      BY <3>1 DEF AvoidsObject
    <3> QED BY <1>1, <3>2, <3>3, GrownAvoids
  <2>2. CASE TARGET_BOOLEAN \/ TARGET_BANG
    <3>1. heap' = heap /\ consts' = consts
      BY <2>2 DEF TARGET_BOOLEAN, TARGET_BANG
    <3> QED BY <1>1, <3>1, GrownAvoids
  <2> QED BY <2>1, <2>2
<1>4. FramesAvoid(F)' /\ GlobalsAvoid(F)'
  <2>1. GoTo(Top.ip + InstLen(Current.op)) /\ globals' = globals
    BY DEF TARGET_ARITH, TARGET_BOOLEAN, TARGET_BANG, Step
  <2>2. FramesAvoid(F)'
    BY <1>1, <2>1, MovedAvoids
  <2> QED BY <1>1, <2>1, <2>2 DEF GlobalsAvoid
<1>5. StackAvoids(F)'
  <2>1. CASE TARGET_ARITH
    BY <1>1, <1>2, <2>1, LeftAvoids DEF TARGET_ARITH
  <2>2. CASE TARGET_BOOLEAN
    <3>1. PICK id \in {TrueObj, FalseObj} : Leave(2, id)
      BY <2>2 DEF TARGET_BOOLEAN, parse_bool
    <3> QED BY <1>1, <1>2, <3>1, LeftAvoids
  <2>3. CASE TARGET_BANG
    <3> DEFINE results == BangResults
    <3>1. Len(results) \in Nat /\ \A i \in 1..Len(results) : results[i] \notin F
      <4>1. \/ \E a \in {TrueObj, FalseObj} : results = <<a, TrueObj, FalseObj>>
            \/ results = <<TrueObj, FalseObj>> \/ results = <<FalseObj>>
        BY DEF BangResults, parse_bool
      <4> HIDE DEF results
      <4> QED BY <1>2, <4>1
    <3>2. stack' = [i \in Slots |-> IF i \in sp - 1..sp - 2 + Len(results)
                                    THEN results[i - sp + 2] ELSE stack[i]]
      BY <2>3 DEF TARGET_BANG
    <3>3. sp \in Nat /\ Slots \subseteq Int
      BY SizeAssumption DEF TypeOK, Slots
    <3> HIDE DEF results
    <3>4. ASSUME NEW i \in Slots PROVE stack'[i] \notin F
      <4>1. CASE i \in sp - 1..sp - 2 + Len(results)
        <5>1. i - sp + 2 \in 1..Len(results)
          BY <3>1, <3>3, <4>1
        <5> QED BY <3>1, <3>2, <4>1, <5>1
      <4>2. CASE i \notin sp - 1..sp - 2 + Len(results)
        BY <1>1, <3>2, <4>2 DEF StackAvoids
      <4> QED BY <4>1, <4>2
    <3> QED BY <3>4 DEF StackAvoids, Slots
  <2> QED BY <2>1, <2>2, <2>3
<1> QED BY <1>3, <1>4, <1>5 DEF RunAvoids

(* making a closure, which takes over what its function loads, *)
LEMMA ClosureAvoids ==
  ASSUME TypeOK, NEW F, F \subseteq 4..Len(heap), RunAvoids(F), TARGET_CLOSURE
  PROVE  RunAvoids(F)'
<1> DEFINE free == [i \in 1..Current.b |-> stack[sp - Current.b + i - 1]]
           fn   == heap[consts[Current.a]].fn
           o    == new_closure_obj(fn, free)
<1>1. Ready /\ Current.op = "closure" /\ ~Faults /\ ~Exits
  BY DEF TARGET_CLOSURE, At
<1>2. /\ Current.a \in Nat /\ Current.b \in Nat
      /\ sp \in Nat /\ Current.b <= sp /\ sp - Current.b \in Slots
  <2>1. Current \in Inst /\ sp - Current.b \in Slots /\ sp \in Nat
    BY <1>1, ReadyFacts DEF TypeOK
  <2>2. Current.a \in Nat /\ Current.b \in Nat
    BY <2>1, InstFacts
  <2> QED BY <2>1, <2>2, SizeAssumption DEF Slots
<1>3. /\ StackAvoids(F) /\ GlobalsAvoid(F) /\ FramesAvoid(F) /\ ObjectsAvoid(F) /\ HeapOK
      /\ Len(heap) \in Nat
  BY DEF RunAvoids, TypeOK, HeapOK
<1>4. Loaded(fn.insts) \cap F = {}
  <2>1. Current.a \in DOMAIN consts
    BY <1>1 DEF Faults, Binary, Arith, Logic, Equality, Compare
  <2>2. heap[consts[Current.a]].type = "function"
    BY <1>1 DEF Exits, Binary, Arith, Logic, Equality, Compare, IsType
  <2>3. consts[Current.a] \in (1..Len(heap)) \ F
    BY <1>1, <2>1, LoadedNow DEF Constants, TypeOK, ReferencesOK
  <2>4. AvoidsObject(heap[consts[Current.a]], F)
    BY <1>3, <2>3 DEF ObjectsAvoid
  <2> QED BY <2>2, <2>4 DEF AvoidsObject
<1>5. DOMAIN free = 1..Current.b /\ \A i \in 1..Current.b : free[i] \notin F
  <2>1. ASSUME NEW i \in 1..Current.b PROVE stack[sp - Current.b + i - 1] \notin F
    <3>1. sp <= StackSize
      BY <1>1, <1>2, ReadyFacts
    <3>2. sp - Current.b + i - 1 \in Slots
      BY <1>2, <3>1, SizeAssumption DEF Slots
    <3> QED BY <1>3, <3>2 DEF StackAvoids
  <2> QED BY <2>1
<1> HIDE DEF free, fn
<1>6. AvoidsObject(o, F)
  BY <1>4, <1>5 DEF AvoidsObject, new_closure_obj
<1> HIDE DEF o
<1>7. heap' = Append(heap, o) /\ consts' = consts /\ globals' = globals
  BY DEF TARGET_CLOSURE, o, free, fn
<1>8. ObjectsAvoid(F)'
  BY <1>3, <1>6, <1>7, GrownAvoids
<1>9. FramesAvoid(F)'
  BY <1>3, MovedAvoids DEF TARGET_CLOSURE, Step
<1>10. StackAvoids(F)'
  <2>1. Len(heap) + 1 \notin F
    BY <1>3
  <2> QED BY <1>3, <2>1, LeftAvoids DEF TARGET_CLOSURE
<1>11. GlobalsAvoid(F)'
  BY <1>3, <1>7 DEF GlobalsAvoid
<1> QED BY <1>8, <1>9, <1>10, <1>11 DEF RunAvoids

(* calling *)
LEMMA CallAvoids ==
  ASSUME TypeOK, NEW F, F \subseteq 4..Len(heap), RunAvoids(F), TARGET_CALL
  PROVE  RunAvoids(F)'
<1> DEFINE back == [frames EXCEPT ![Len(frames)].ip = @ + InstLen("call")]
           new  == new_frame(Callee, sp - Current.a)
           top  == [Top EXCEPT !.ip = Top.ip + InstLen("call")]
<1>1. /\ StackAvoids(F) /\ GlobalsAvoid(F) /\ FramesAvoid(F) /\ ObjectsAvoid(F) /\ HeapOK
      /\ Len(frames) \in Nat /\ Len(frames) \in 1..Len(frames) /\ frames \in Seq(FrameType)
      /\ Top = frames[Len(frames)]
  BY TopFacts DEF RunAvoids, TypeOK, FramesOK, Top
<1>2. frames' = Append(back, new) /\ UNCHANGED <<heap, consts, stack, globals>>
  BY DEF TARGET_CALL
<1>3. ObjectsAvoid(F)' /\ StackAvoids(F)' /\ GlobalsAvoid(F)'
  <2>1. ObjectsAvoid(F)'
    BY <1>1, <1>2, GrownAvoids
  <2> QED BY <1>1, <1>2, <2>1 DEF StackAvoids, GlobalsAvoid, Slots
<1>4. new.cl \notin F
  <2>1. sp - 1 - Current.a \in Slots
    BY CallFacts, ReadyFacts
  <2> QED BY <1>1, <2>1 DEF new_frame, Callee, StackAvoids
<1>5. back = [frames EXCEPT ![Len(frames)] = top] /\ top.cl = Top.cl /\ top \in FrameType
  <2>1. InstLen("call") = 2
    BY DEF InstLen, Wide, Narrow
  <2>2. Top.ip + InstLen("call") \in Nat
    BY <2>1, TopFacts DEF FrameType
  <2>3. top.cl = Top.cl /\ top \in FrameType
    BY <2>2, TopFacts DEF FrameType
  <2>4. back = [frames EXCEPT ![Len(frames)] = top]
    BY <1>1 DEF Top
  <2> QED BY <2>3, <2>4
<1> HIDE DEF back, new, top
<1>6. back \in Seq(FrameType) /\ Len(back) = Len(frames)
      /\ \A n \in 1..Len(frames) : back[n].cl = frames[n].cl
  <2>1. back \in Seq(FrameType) /\ Len(back) = Len(frames)
    BY <1>1, <1>5
  <2>2. \A n \in 1..Len(frames) : back[n] = IF n = Len(frames) THEN top ELSE frames[n]
    BY <1>1, <1>5
  <2> QED BY <1>1, <1>5, <2>1, <2>2
<1>7. \A n \in DOMAIN Append(back, new) : Append(back, new)[n] = new
        \/ (n \in 1..Len(frames) /\ Append(back, new)[n] = back[n])
  <2> HIDE DEF FrameType
  <2> QED BY <1>1, <1>6
<1>8. ASSUME NEW n \in DOMAIN frames' PROVE frames'[n].cl \notin F
  <2>1. frames'[n] = new \/ (n \in DOMAIN frames /\ frames'[n] = back[n] /\ n \in 1..Len(frames))
    BY <1>1, <1>2, <1>7
  <2> QED BY <1>1, <1>4, <1>6, <2>1 DEF FramesAvoid
<1>9. FramesAvoid(F)'
  BY <1>8 DEF FramesAvoid
<1> QED BY <1>3, <1>9 DEF RunAvoids

(* and returning. *)
LEMMA ReturnsAvoid ==
  ASSUME TypeOK, NEW F, F \subseteq 4..Len(heap), RunAvoids(F), TARGET_RETURN \/ TARGET_RETURN_VALUE
  PROVE  RunAvoids(F)'
<1>1. /\ StackAvoids(F) /\ GlobalsAvoid(F) /\ FramesAvoid(F) /\ ObjectsAvoid(F) /\ HeapOK
      /\ Len(heap) \in Nat /\ stack \in [Slots -> Ids(heap)] /\ frames \in Seq(FrameType)
      /\ Len(frames) \in Nat /\ Len(frames) >= 1
  BY TopFacts DEF RunAvoids, TypeOK, FramesOK, HeapOK, ReferencesOK
<1>2. PICK id : id \notin F /\ ReturnWith(id)
  <2>1. CASE TARGET_RETURN
    <3>1. NullObj \notin F
      BY <1>1
    <3> QED BY <2>1, <3>1 DEF TARGET_RETURN
  <2>2. CASE TARGET_RETURN_VALUE
    <3>1. sp - 1 \in Slots
      BY <2>2, ReadyFacts DEF TARGET_RETURN_VALUE, At
    <3>2. Right \notin F
      BY <1>1, <3>1 DEF StackAvoids, Right
    <3> QED BY <2>2, <3>2 DEF TARGET_RETURN_VALUE
  <2> QED BY <2>1, <2>2
<1>3. /\ frames' = SubSeq(frames, 1, Len(frames) - 1)
      /\ stack' = [stack EXCEPT ![Top.base - 1] = id]
      /\ UNCHANGED <<heap, consts, globals>>
  BY <1>2 DEF ReturnWith
<1>4. \A i \in Slots : stack'[i] = stack[i] \/ stack'[i] = id
  BY <1>1, <1>3
<1>5. StackAvoids(F)'
  BY <1>1, <1>2, <1>4 DEF StackAvoids, Slots
<1>6. \A n \in DOMAIN frames' : n \in DOMAIN frames /\ frames'[n] = frames[n]
  <2> HIDE DEF FrameType
  <2> QED BY <1>1, <1>3
<1>7. FramesAvoid(F)' /\ GlobalsAvoid(F)'
  BY <1>1, <1>3, <1>6 DEF FramesAvoid, GlobalsAvoid
<1>8. ObjectsAvoid(F)'
  BY <1>1, <1>3, GrownAvoids
<1> QED BY <1>5, <1>7, <1>8 DEF RunAvoids

(* So a run that avoids F keeps avoiding it. *)
LEMMA RunKeepsAway ==
  ASSUME TypeOK, NEW F, F \subseteq 4..Len(heap), RunAvoids(F), vm_run
  PROVE  RunAvoids(F)'
BY LoadsAvoid, WritesAvoid, ComputesAvoid, ClosureAvoids, CallAvoids, ReturnsAvoid DEF vm_run, Stops

(* An object whose code nothing can load from. *)
NoCode(o) == o.type \notin {"function", "closure"}

(* The objects of F, all that was freed among them, are behind the line:   *)
(* it neither makes code that loads one nor reaches one as it runs.        *)
Spares(F) ==
  /\ freed \subseteq F
  /\ mode = "compiling" => LineOwns(F, state_nconsts)
  /\ mode = "running" => RunAvoids(F)

FreshInv ==
  /\ \A id \in 1..3 : NoCode(heap[id])
  /\ freed \subseteq 4..Len(heap)
  /\ mode = "compiling" => state_nconsts <= nconsts
  /\ mode \in {"compiling", "running"} /\ nconsts <= U16 =>
       \E F \in SUBSET (4..Len(heap)) : Spares(F)

(* Code of the line's own loads nothing of F. *)
LEMMA OwnIsFresh ==
  ASSUME NEW F, NEW lo, OwnConstants(F, lo), NEW insts, LoadsFrom(insts, lo)
  PROVE  Loaded(insts) \cap F = {}
BY DEF OwnConstants, LoadsFrom, Loaded, Constants

(* The heap grows, whatever the step. *)
LEMMA FreshHeap ==
  ASSUME FreshInv, heap \in Seq(ObjectType), Len(heap) >= 3, Len(heap') \in Nat, Len(heap') >= Len(heap),
         \A id \in 1..Len(heap) : heap'[id] = heap[id]
  PROVE  /\ \A id \in 1..3 : NoCode(heap'[id])
         /\ \A F \in SUBSET (4..Len(heap)) : F \in SUBSET (4..Len(heap'))
         /\ freed \subseteq 4..Len(heap')
<1>1. Len(heap) \in Nat
  OBVIOUS
<1>2. \A id \in 1..3 : id \in 1..Len(heap)
  BY <1>1
<1>3. 4..Len(heap) \subseteq 4..Len(heap')
  BY <1>1
<1> QED BY <1>2, <1>3 DEF FreshInv

(* A line begins: F is all that there is but the static objects. *)
LEMMA TakeFresh ==
  ASSUME SessionInv, FreshInv, NEW n \in Trees, Take(n)
  PROVE  FreshInv'
<1>1. /\ mode = "reading" /\ mode' = "compiling" /\ scopes' = <<new_scope>>
      /\ nconsts' = state_nconsts /\ UNCHANGED <<state_nconsts, freed, heap, consts>>
  BY DEF Take, Begin, stateVars, machineVars, objVars
<1>2. /\ DOMAIN consts \subseteq 0..state_nconsts - 1 /\ state_nconsts \in Nat
      /\ heap \in Seq(ObjectType) /\ Len(heap) \in Nat /\ Len(heap) >= 3
  BY <1>1 DEF SessionInv, CountedOK, KeptOK, HeapOK
<1>3. PICK F : F = 4..Len(heap)
  OBVIOUS
<1>4. PICK lo : lo = state_nconsts
  OBVIOUS
<1>5. OwnConstants(F, lo)'
  <2>1. \A i \in DOMAIN consts : ~ (i >= lo)
    BY <1>2, <1>4
  <2> QED BY <1>1, <2>1 DEF OwnConstants
<1>6. OwnScopes(lo)'
  <2>1. DOMAIN new_scope.insts = {}
    BY DEF new_scope
  <2> DEFINE e == new_scope
  <2> HIDE DEF e
  <2>2. LoadsFrom(e.insts, lo)
    BY <2>1 DEF LoadsFrom, e
  <2>3. \A k \in DOMAIN <<e>> : <<e>>[k] = e
    OBVIOUS
  <2>4. scopes' = <<e>>
    BY <1>1 DEF e
  <2> QED BY <2>2, <2>3, <2>4 DEF OwnScopes
<1>7. OwnCode(F, lo)'
  <2>1. ASSUME NEW id \in (1..Len(heap)) \ F PROVE OwnObject(heap[id], lo)
    <3>1. id \in 1..3
      BY <1>2, <1>3
    <3> QED BY <3>1 DEF FreshInv, NoCode, OwnObject
  <2> QED BY <1>1, <2>1 DEF OwnCode, OwnObject
<1>8. Spares(F)'
  <2>1. LineOwns(F, lo)'
    BY <1>5, <1>6, <1>7 DEF LineOwns
  <2>2. LineOwns(F, state_nconsts)'
    BY <1>1, <1>4, <2>1 DEF LineOwns, OwnConstants, OwnScopes, OwnCode, OwnObject, LoadsFrom
  <2> QED BY <1>1, <1>3, <2>2 DEF Spares, FreshInv
<1>9. F \in SUBSET (4..Len(heap'))
  BY <1>1, <1>3
<1>10. \A id \in 1..3 : NoCode(heap'[id])
  BY <1>1 DEF FreshInv
<1> QED BY <1>1, <1>2, <1>8, <1>9, <1>10 DEF FreshInv

(* Compiling it adds behind F and loads from behind F. *)
LEMMA CompileFresh ==
  ASSUME SessionInv, FreshInv, CompileStep
  PROVE  FreshInv'
<1>1. /\ mode = "compiling" /\ compile /\ CompilerInv
      /\ mode' \in {"compiling", "dead"} /\ UNCHANGED <<state_nconsts, freed>>
  BY DEF CompileStep, SessionInv, CompilingOK
<1>2. heap \in Seq(ObjectType) /\ Len(heap) \in Nat /\ Len(heap) >= 3 /\ state_nconsts \in Nat
      /\ nconsts \in Nat
  BY <1>1 DEF SessionInv, KeptOK, HeapOK, CompilerInv, StateOK
<1>3. /\ Len(heap') \in Nat /\ Len(heap') >= Len(heap)
      /\ \A id \in 1..Len(heap) : heap'[id] = heap[id]
  <2> HIDE DEF ObjectType
  <2> QED BY <1>1, <1>2, CompileGrows
<1>4. nconsts' \in Nat /\ nconsts' >= nconsts
  <2>1. nconsts' = nconsts \/ nconsts' = nconsts + 1
    BY <1>1 DEF compile, compile_integer, compile_null, compile_operation, compile_identifier,
         compile_assign, compile_assign_to_literal, compile_block, compile_call,
         compile_return, compile_ifelse, compile_ifelse_body, compile_ifelse_altern,
         compile_ifelse_end, compile_function, compile_function_end,
         compile_function_captures,
         compile_function_aborts, CompileNULL, Emit, Plan, EmitHere, Fail,
         CompileAltern, AddFunction, compiler_add_const
  <2> QED BY <1>2, <2>1
<1>5. ASSUME nconsts' <= U16 PROVE \E F \in SUBSET (4..Len(heap')) : Spares(F)'
  <2>1. nconsts <= U16
    BY <1>2, <1>4, <1>5, WidthAssumption
  <2>2. PICK F \in SUBSET (4..Len(heap)) : Spares(F)
    BY <1>1, <2>1 DEF FreshInv
  <2>3. PICK lo : lo = state_nconsts
    OBVIOUS
  <2>4. LineOwns(F, lo) /\ lo \in Nat /\ lo <= nconsts
    BY <1>1, <1>2, <2>2, <2>3 DEF Spares, FreshInv
  <2>5. LineOwns(F, lo)'
    BY <1>1, <1>5, <2>2, <2>4, CompileOwns
  <2>6. LineOwns(F, state_nconsts)'
    BY <1>1, <2>3, <2>5 DEF LineOwns, OwnConstants, OwnScopes, OwnCode, OwnObject, LoadsFrom
  <2>7. Spares(F)'
    BY <1>1, <2>2, <2>6 DEF Spares
  <2> QED BY <1>2, <1>3, <2>2, <2>7, FreshHeap
<1>6. state_nconsts' <= nconsts'
  BY <1>1, <1>2, <1>4 DEF FreshInv
<1> QED BY <1>1, <1>2, <1>3, <1>5, <1>6, FreshHeap DEF FreshInv

(* The machine starts with the line's code, an empty stack and no globals. *)
LEMMA StartFresh ==
  ASSUME SessionInv, FreshInv, StartVM
  PROVE  FreshInv'
<1>1. /\ mode = "compiling" /\ mode' = "running" /\ CompilerInv
      /\ heap' = Booted(heap, Scope.insts) /\ frames' = <<new_frame(Len(heap) + 2, 0)>>
      /\ stack' = EmptyStack /\ globals' = state_globals
      /\ UNCHANGED <<freed, consts, nconsts>>
  BY DEF StartVM, SessionInv, CompilingOK, compilerVars
<1>2. /\ heap \in Seq(ObjectType) /\ Len(heap) >= 3 /\ Len(heap) \in Nat /\ DOMAIN state_globals = {}
  BY DEF SessionInv, KeptOK, HeapOK
<1> DEFINE insts == Scope.insts
           f == new_function_obj(insts, 0, 0)
           c == new_closure_obj(MainFunction(insts), <<>>)
<1>3. /\ Len(heap') = Len(heap) + 2 /\ heap'[Len(heap) + 1] = f /\ heap'[Len(heap) + 2] = c
      /\ \A id \in 1..Len(heap) : heap'[id] = heap[id]
  <2>1. heap' = heap \o <<f, c>>
    BY <1>1 DEF Booted
  <2> HIDE DEF f, c, ObjectType
  <2> QED BY <1>2, <2>1
<1>4. ASSUME nconsts' <= U16 PROVE \E F \in SUBSET (4..Len(heap')) : Spares(F)'
  <2>1. PICK F \in SUBSET (4..Len(heap)) : Spares(F)
    BY <1>1, <1>4 DEF FreshInv
  <2>2. PICK lo : lo = state_nconsts
    OBVIOUS
  <2>3. OwnConstants(F, lo) /\ OwnScopes(lo) /\ OwnCode(F, lo)
    BY <1>1, <2>1, <2>2 DEF Spares, LineOwns
  <2>4. Loaded(insts) \cap F = {}
    <3>1. Len(scopes) \in DOMAIN scopes
      BY <1>1 DEF CompilerInv, ScopesOK
    <3>2. LoadsFrom(insts, lo)
      BY <2>3, <3>1 DEF OwnScopes, Scope
    <3> HIDE DEF insts
    <3> QED BY <2>3, <3>2, OwnIsFresh
  <2>5. AvoidsObject(f, F) /\ AvoidsObject(c, F)
    <3> HIDE DEF insts
    <3>1. /\ f.type = "function" /\ f.fn.insts = insts
          /\ c.type = "closure" /\ c.fn.insts = insts /\ c.free = <<>>
      BY DEF new_function_obj, new_closure_obj, MainFunction, Function
    <3> HIDE DEF f, c
    <3> QED BY <2>4, <3>1 DEF AvoidsObject
  <2> HIDE DEF f, c, insts
  <2>6. ASSUME NEW o, AvoidsObject(o, F) PROVE AvoidsObject(o, F)'
    BY <1>1, <2>6 DEF AvoidsObject, Loaded
  <2>7. ObjectsAvoid(F)'
    <3>1. ASSUME NEW id \in (1..Len(heap')) \ F
          PROVE  \E o : heap'[id] = o /\ AvoidsObject(o, F)
      <4>1. CASE id \in 1..Len(heap)
        <5>1. OwnObject(heap[id], lo) /\ heap'[id] = heap[id]
          BY <1>3, <2>3, <4>1 DEF OwnCode
        <5>2. AvoidsObject(heap[id], F)
          BY <2>3, <5>1, OwnIsFresh DEF OwnObject, AvoidsObject
        <5> QED BY <5>1, <5>2
      <4>2. CASE id \notin 1..Len(heap)
        <5>1. id = Len(heap) + 1 \/ id = Len(heap) + 2
          BY <1>2, <1>3, <4>2
        <5> QED BY <1>3, <2>5, <5>1
      <4> QED BY <4>1, <4>2
    <3>2. ASSUME NEW id \in (1..Len(heap')) \ F PROVE AvoidsObject(heap[id], F)'
      <4>1. PICK o : heap'[id] = o /\ AvoidsObject(o, F)
        BY <3>1
      <4>2. AvoidsObject(o, F)'
        BY <2>6, <4>1
      <4> QED BY <4>1, <4>2 DEF AvoidsObject, Loaded
    <3> QED BY <3>2 DEF ObjectsAvoid
  <2>8. StackAvoids(F)' /\ GlobalsAvoid(F)' /\ FramesAvoid(F)'
    <3>1. Len(heap) + 2 \notin F /\ NULL \notin F
      BY <1>2, <2>1
    <3>2. frames'[1].cl = Len(heap) + 2 /\ DOMAIN frames' = {1}
      BY <1>1 DEF new_frame
    <3>3. \A i \in Slots : stack'[i] = NULL
      BY <1>1 DEF EmptyStack
    <3>4. DOMAIN globals' = {}
      BY <1>1, <1>2
    <3> QED BY <3>1, <3>2, <3>3, <3>4 DEF StackAvoids, GlobalsAvoid, FramesAvoid, Slots
  <2>9. Spares(F)'
    BY <1>1, <2>1, <2>7, <2>8 DEF Spares, RunAvoids
  <2>10. F \in SUBSET (4..Len(heap'))
    BY <1>2, <1>3
  <2> QED BY <2>9, <2>10
<1> HIDE DEF f, c
<1>5. Len(heap') \in Nat /\ Len(heap') >= Len(heap)
  BY <1>2, <1>3
<1> QED BY <1>1, <1>2, <1>3, <1>4, <1>5, FreshHeap DEF FreshInv

(* Running it keeps away from F. *)
LEMMA RunFresh ==
  ASSUME SessionInv, FreshInv, RunStep
  PROVE  FreshInv'
<1>1. /\ mode = "running" /\ TypeOK /\ vm_run
      /\ UNCHANGED <<mode, state_nconsts, freed, nconsts>>
  BY DEF RunStep, SessionInv, RunningOK, SoundInv, replVars, stateVars, compilerVars
<1>2. HeapGrows /\ heap \in Seq(ObjectType) /\ Len(heap) >= 3
  BY <1>1, BottomStays DEF VMNext, TypeOK, HeapOK
<1>3. ASSUME nconsts' <= U16 PROVE \E F \in SUBSET (4..Len(heap')) : Spares(F)'
  <2>1. PICK F \in SUBSET (4..Len(heap)) : Spares(F)
    BY <1>1, <1>3 DEF FreshInv
  <2>2. RunAvoids(F)'
    BY <1>1, <2>1, RunKeepsAway DEF Spares
  <2>3. Spares(F)'
    BY <1>1, <2>1, <2>2 DEF Spares
  <2> QED BY <1>2, <2>1, <2>3, FreshHeap DEF HeapGrows
<1> QED BY <1>1, <1>2, <1>3, FreshHeap DEF FreshInv, HeapGrows

(* Printing, disposing and dying say nothing about F. *)
LEMMA QuietFresh ==
  ASSUME FreshInv, UNCHANGED heap, mode' \notin {"compiling", "running"}, freed' \subseteq 4..Len(heap)
  PROVE  FreshInv'
BY DEF FreshInv

(* Neither does a step that changes nothing. *)
LEMMA IdleFresh ==
  ASSUME FreshInv, UNCHANGED sessionVars
  PROVE  FreshInv'
<1>1. /\ UNCHANGED <<mode, state_nconsts, freed, nconsts, scopes>>
      /\ UNCHANGED <<heap, consts, stack, sp, frames, globals>>
  BY DEF sessionVars, replVars, stateVars, compilerVars, machineVars, objVars, vmVars
<1>2. ASSUME NEW F, Spares(F) PROVE Spares(F)'
  BY <1>1, <1>2 DEF Spares, LineOwns, OwnConstants, OwnScopes, OwnCode, OwnObject, LoadsFrom,
     RunAvoids, StackAvoids, GlobalsAvoid, FramesAvoid, ObjectsAvoid, AvoidsObject, Loaded, Slots
<1>3. ASSUME mode \in {"compiling", "running"} /\ nconsts <= U16
      PROVE  \E F \in SUBSET (4..Len(heap')) : Spares(F)'
  <2>1. PICK F \in SUBSET (4..Len(heap)) : Spares(F)
    BY <1>3 DEF FreshInv
  <2> QED BY <1>1, <1>2, <2>1
<1> QED BY <1>1, <1>3 DEF FreshInv

(* Every step of the session. *)
LEMMA FreshStep ==
  ASSUME SessionInv, FreshInv, [ReplNext \/ Refuse]_sessionVars
  PROVE  FreshInv'
<1>1. CASE ReadLine
  BY <1>1, TakeFresh DEF ReadLine
<1>2. CASE CompileStep
  BY <1>2, CompileFresh
<1>3. CASE StartVM
  BY <1>3, StartFresh
<1>4. CASE RunStep
  BY <1>4, RunFresh
<1>5. freed \subseteq 4..Len(heap)
  BY DEF FreshInv
<1>6. CASE ProcessEnds \/ PrintAnswer \/ DisposeAborts \/ Refuse
  BY <1>5, <1>6, QuietFresh
     DEF ProcessEnds, PrintAnswer, DisposeAborts, Refuse, Die, machineVars, objVars
<1>7. CASE DisposeTree
  <2>1. mode = "disposing" /\ (Die \/ \E children : DisposeThen(children))
    BY <1>7 DEF DisposeTree, dispose_leaf_node, dispose_operation_node, dispose_return_node,
         dispose_ifelse_node, dispose_function_node, dispose_block_node, dispose_call_node,
         DisposeNULL, NameFreedTwice, Disposing
  <2> QED BY <1>5, <2>1, QuietFresh DEF Die, DisposeThen, machineVars, objVars
<1>8. CASE Dispose
  <2>1. /\ mode = "disposing" /\ mode' = "reading" /\ OnStack \cap 1..3 = {}
        /\ freed' = freed \cup OnStack /\ UNCHANGED heap
    BY <1>8 DEF Dispose, TreeGone, machineVars, objVars
  <2>2. OnStack \subseteq 1..Len(heap) /\ Len(heap) \in Nat
    BY <2>1, OnStackFacts DEF SessionInv, RunningOK, SoundInv, TypeOK, HeapOK
  <2>3. OnStack \subseteq 4..Len(heap)
    BY <2>1, <2>2
  <2> QED BY <1>5, <2>1, <2>3, QuietFresh
<1>9. CASE SessionDone \/ UNCHANGED sessionVars
  BY <1>9, IdleFresh DEF SessionDone
<1> QED BY <1>1, <1>2, <1>3, <1>4, <1>6, <1>7, <1>8, <1>9 DEF ReplNext, Process

(* No object is freed when the program starts. *)
LEMMA FreshBegins ==
  ASSUME ReplInit
  PROVE  FreshInv
<1>1. heap = Statics /\ mode = "reading" /\ freed = {}
  BY DEF ReplInit
<1>2. NoCode(NullObject) /\ NoCode(new_boolean_obj(1)) /\ NoCode(new_boolean_obj(0))
  BY DEF NoCode, NullObject, new_boolean_obj
<1> HIDE DEF NoCode
<1>3. \A id \in 1..3 : NoCode(heap[id])
  BY <1>1, <1>2 DEF Statics
<1> QED BY <1>1, <1>3 DEF FreshInv

(* The invariant of every session, *)
LEMMA FreshHolds == Session => [](SessionInv /\ FreshInv)
<1>1. ReplInit => SessionInv /\ FreshInv
  BY SessionBegins, FreshBegins
<1>2. SessionInv /\ FreshInv /\ [ReplNext \/ Refuse]_sessionVars => (SessionInv /\ FreshInv)'
  BY SessionStep, FreshStep
<1> QED BY <1>1, <1>2, PTL DEF Session

(* which says more than that what is freed stays unused. *)
LEMMA FreshUnused == SessionInv /\ FreshInv => FreedStaysUnused
<1> SUFFICES ASSUME SessionInv, FreshInv, mode = "running", nconsts <= U16
             PROVE  /\ freed \cap (OnStack \cup {globals[i] : i \in DOMAIN globals}) = {}
                    /\ \A n \in DOMAIN frames :
                         LET cl == heap[frames[n].cl]
                         IN freed \cap ({frames[n].cl} \cup Loaded(cl.fn.insts)
                                         \cup {cl.free[i] : i \in DOMAIN cl.free}) = {}
  BY DEF FreedStaysUnused
<1>1. PICK F \in SUBSET (4..Len(heap)) : freed \subseteq F /\ RunAvoids(F)
  BY DEF FreshInv, Spares
<1>2. TypeOK
  BY DEF SessionInv, RunningOK, SoundInv
<1>3. F \cap (OnStack \cup {globals[i] : i \in DOMAIN globals}) = {}
  BY <1>1 DEF RunAvoids, StackAvoids, GlobalsAvoid, OnStack
<1>4. ASSUME NEW n \in DOMAIN frames
      PROVE  LET cl == heap[frames[n].cl]
             IN F \cap ({frames[n].cl} \cup Loaded(cl.fn.insts)
                         \cup {cl.free[i] : i \in DOMAIN cl.free}) = {}
  <2>1. n \in 1..Len(frames)
    BY <1>2 DEF TypeOK, FramesOK
  <2>2. frames[n] \in FrameType /\ heap[frames[n].cl] \in ClosureObject
    BY <1>2, <2>1, FrameFacts
  <2>3. frames[n].cl \in (1..Len(heap)) \ F
    BY <1>1, <2>2 DEF FrameType, RunAvoids, FramesAvoid
  <2>4. AvoidsObject(heap[frames[n].cl], F)
    BY <1>1, <2>3 DEF RunAvoids, ObjectsAvoid
  <2>5. heap[frames[n].cl].type = "closure"
    BY <2>2 DEF ClosureObject
  <2> QED BY <2>3, <2>4, <2>5 DEF AvoidsObject
<1> QED BY <1>1, <1>3, <1>4

LEMMA FreedPromise == Session => []FreedStaysUnused
BY FreshHolds, FreshUnused, PTL

(* What vm_dispose freed after a line is nothing that a later line has on  *)
(* its stack, in its globals, in its frames or their closures, or can load *)
(* as a constant, whatever lines are read in whatever order and whichever  *)
(* of them fail, as long as the session's constants fit the operand that   *)
(* numbers them.                                                           *)
THEOREM FreedIsForgotten == ReplSpec => []FreedStaysUnused
BY EverySession, FreedPromise
=============================================================================
