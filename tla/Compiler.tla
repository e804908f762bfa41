------------------------------ MODULE Compiler ------------------------------
(***************************************************************************)
(* The compiler: the compile functions of src/src/ast and the emitter of   *)
(* src/src/compiler/compiler.c.                                            *)
(*                                                                         *)
(* The C call stack of the recursive descent is the sequence work: its     *)
(* head is what happens next, a node to visit or the rest of a function    *)
(* that waits for a child.  One action runs one function up to its next    *)
(* recursive call.                                                         *)
(*                                                                         *)
(* A failing function returns -1, every caller returns -1 (CHECK) without  *)
(* cleaning up, and compile still emits its op_halt: into the innermost    *)
(* scope at that time, and with the placeholders not yet patched.          *)
(***************************************************************************)
EXTENDS Objects, SymbolTable, Tree, FiniteSets

CONSTANTS
  Trees,   \* trees a compiler on its own starts from
  Nodes    \* the nodes they are made of

ASSUME NodesAssumption == Trees \subseteq Nodes /\ Nodes \subseteq NodesOver(Nodes)

VARIABLES
  tree,      \* what is compiled
  tables,    \* c->st and the tables around it
  scopes,    \* c->scopes[0 .. scope_index]: [insts, last, prev]
  nconsts,   \* c->nconsts
  work,      \* the calls still to make
  cstat,     \* "idle", "compiling", "compiled" or "crashed"
  failed,    \* some function returned -1
  released   \* a string that the tree or a table still holds was freed

compilerVars == <<tree, tables, scopes, nconsts, work, cstat, failed, released>>

(***************************************************************************)
(* What waits on the call stack.                                           *)
(***************************************************************************)
Visit(n)                == [do |-> "visit", node |-> n]
EmitTask(op, a)         == [do |-> "emit", op |-> op, a |-> a]
AfterCond(n)            == [do |-> "cond", node |-> n]
AfterBody(n, jump_not_truthy_pos) ==
  [do |-> "body", node |-> n, pos |-> jump_not_truthy_pos]
AfterAltern(jump_pos)   == [do |-> "altern", pos |-> jump_pos]
AfterFunction(n)        == [do |-> "function", node |-> n]
Halt                    == EmitTask("halt", 0)

-----------------------------------------------------------------------------
(***************************************************************************)
(* The emitter, on one scope.                                              *)
(***************************************************************************)
Emitted(op, pos) == [op |-> op, pos |-> pos]

(* (struct scope) {0}: opcode 0 is op_constant *)
new_scope == [insts |-> <<>>, last |-> Emitted("constant", 0),
              prev |-> Emitted("constant", 0)]

compiler_set_last_inst(s, op, pos) ==
  [s EXCEPT !.prev = s.last, !.last = Emitted(op, pos)]

compiler_pos(s) == Len(s.insts)

compiler_emit(s, op, a, b) ==
  compiler_set_last_inst([s EXCEPT !.insts = @ \o Encode(op, a, b)],
                         op, compiler_pos(s))

compiler_last_is(s, op) == compiler_pos(s) # 0 /\ s.last.op = op

(* Mutant of compiler_remove_last: last_inst is left as it was. *)
compiler_remove_last_keeps_last(s) == [s EXCEPT !.insts = SubSeq(@, 1, s.last.pos)]

(* Mutant of compiler_remove_last: cut where the instruction before begins. *)
compiler_remove_last_two(s) ==
  [s EXCEPT !.insts = SubSeq(@, 1, s.prev.pos), !.last = s.prev]

compiler_remove_last(s) ==
  [s EXCEPT !.insts = SubSeq(@, 1, s.last.pos), !.last = s.prev]

compiler_replace_operand(s, op_pos, operand) ==
  [s EXCEPT !.insts[op_pos + 1] = Decoded(@.op, operand, 0)]

compiler_replace_last_pop_with_return(s) ==
  [s EXCEPT !.insts[s.last.pos + 1] = Decoded("return_value", 0, 0),
            !.last.op = "return_value"]

Scope == scopes[Len(scopes)]
InScope(s) == scopes' = [scopes EXCEPT ![Len(scopes)] = s]

(* compiler_load_symbol; other scopes make it return -1. *)
LoadOp(scope) ==
  CASE scope = global_scope   -> "get_global"
    [] scope = local_scope    -> "get_local"
    [] scope = builtin_scope  -> "get_builtin"
    [] scope = free_scope     -> "get_free"
    [] scope = function_scope -> "current_closure"
Loadable(s) == s.scope \in global_scope..function_scope

(* Mutant of compiler_add_const: put after the last one there is. *)
compiler_add_const_after_last(id) ==
  /\ consts' = Put(consts, Cardinality(DOMAIN consts), id)
  /\ nconsts' = nconsts + 1

(* compiler_add_const of the object id. *)
compiler_add_const(id) ==
  /\ consts' = Put(consts, nconsts, id)
  /\ nconsts' = nconsts + 1

-----------------------------------------------------------------------------
Compiling    == cstat = "compiling"
Doing(what)  == Compiling /\ Head(work).do = what
Node         == Head(work).node
Visiting(ts) == Doing("visit") /\ Node.t \in ts

Continue(tasks) == work' = tasks \o Tail(work)

Fail == failed' = TRUE /\ work' = <<Halt>> /\ UNCHANGED <<tree, nconsts, cstat, released, objVars>>

compile_integer ==
  /\ Visiting({"integer"})
  /\ heap' = Append(heap, new_integer_obj(Node.i))
  /\ compiler_add_const(Len(heap) + 1)
  /\ InScope(compiler_emit(Scope, "constant", nconsts, 0))
  /\ Continue(<<>>)
  /\ UNCHANGED <<tree, tables, cstat, failed, released>>

compile_null ==
  /\ Visiting({"null"})
  /\ compiler_add_const(NullObj)
  /\ InScope(compiler_emit(Scope, "constant", nconsts, 0))
  /\ Continue(<<>>)
  /\ UNCHANGED <<tree, tables, cstat, failed, released, heap>>

(* What a node that only visits its children and emits leaves alone. *)
Plan(tasks) ==
  /\ Continue(tasks)
  /\ UNCHANGED <<tree, tables, scopes, nconsts, cstat, failed, released, objVars>>

(* compile_plus, _minus, _greater, _greatereq, _less and _lesseq: the last *)
(* two compile the operands in the opposite order.                         *)
OperationOp(t) ==
  CASE t = "plus"                      -> "add"
    [] t = "minus"                     -> "sub"
    [] t \in {"greater", "less"}       -> "greater_than"
    [] t \in {"greatereq", "lesseq"}   -> "greater_than_equal"

(* Mutant of compile_operation: less keeps the order of the operands. *)
compile_operation_in_order ==
  /\ Visiting(OperationTypes)
  /\ Plan(<<Visit(Node.l), Visit(Node.r), EmitTask(OperationOp(Node.t), 0)>>)

compile_operation ==
  /\ Visiting(OperationTypes)
  /\ LET operands == IF Node.t \in {"less", "lesseq"}
                     THEN <<Visit(Node.r), Visit(Node.l)>>
                     ELSE <<Visit(Node.l), Visit(Node.r)>>
     IN Plan(operands \o <<EmitTask(OperationOp(Node.t), 0)>>)

compile_identifier ==
  /\ Visiting({"identifier"})
  /\ LET resolved == symbol_table_resolve(tables, Node.name)
         s        == resolved.symbol
     IN /\ tables' = resolved.tables
        /\ IF Loadable(s)
           THEN /\ InScope(compiler_emit(Scope, LoadOp(s.scope), s.index, 0))
                /\ Continue(<<>>)
                /\ UNCHANGED <<tree, nconsts, cstat, failed, released, objVars>>
           ELSE Fail /\ UNCHANGED scopes

(* The name is defined before the value is compiled. *)
compile_assign ==
  /\ Visiting({"assign"})
  /\ Node.l.t = "identifier"
  /\ tables' = symbol_table_define(tables, Node.l.name)
  /\ LET s  == Innermost(tables').store[Node.l.name]
         op == IF s.scope = global_scope THEN "set_global" ELSE "set_local"
     IN Continue(<<Visit(Node.r), EmitTask(op, s.index)>>)
  /\ UNCHANGED <<tree, scopes, nconsts, cstat, failed, released, objVars>>

compile_assign_to_literal ==
  /\ Visiting({"assign"})
  /\ Node.l.t \notin {"identifier", "NULL"}
  /\ Fail
  /\ UNCHANGED <<tables, scopes>>

(* A pop after every statement but the returns. *)
Statement(n) ==
  IF n.t = "return" THEN <<Visit(n)>> ELSE <<Visit(n), EmitTask("pop", 0)>>

Statements(nodes) ==
  LET after[i \in 0..Len(nodes)] ==
        IF i = 0 THEN <<>> ELSE after[i - 1] \o Statement(nodes[i])
  IN after[Len(nodes)]

compile_block == Visiting({"block"}) /\ Plan(Statements(Node.nodes))

compile_call ==
  /\ Visiting({"call"})
  /\ LET arglen == Len(Node.args)
     IN Plan(<<Visit(Node.fn)>> \o [i \in 1..arglen |-> Visit(Node.args[i])]
             \o <<EmitTask("call", arglen)>>)

compile_return ==
  /\ Visiting({"return"})
  /\ Plan(<<Visit(Node.val), EmitTask("return_value", 0)>>)

(***************************************************************************)
(* compile_ifelse.  9999 stands in both jumps until their targets are      *)
(* known.                                                                  *)
(***************************************************************************)
PLACEHOLDER == 9999

EmitHere(s) ==
  InScope(s) /\ UNCHANGED <<tree, tables, nconsts, cstat, failed, released, objVars>>

compile_ifelse ==
  /\ Visiting({"ifelse"})
  /\ Plan(<<Visit(Node.cond), AfterCond(Node)>>)

compile_ifelse_body ==
  /\ Doing("cond")
  /\ EmitHere(compiler_emit(Scope, "jump_not_truthy", PLACEHOLDER, 0))
  /\ Continue(<<Visit(Node.body), AfterBody(Node, compiler_pos(Scope))>>)

WithoutPop(s) == IF compiler_last_is(s, "pop") THEN compiler_remove_last(s) ELSE s

(* Once the jump is emitted, the first placeholder is patched, and then    *)
(* the altern is compiled, or op_null emitted for it.                      *)
CompileAltern(jumping, jump_pos) ==
  LET patched == compiler_replace_operand(jumping, Head(work).pos, compiler_pos(jumping))
      valued  == compiler_emit(patched, "null", 0, 0)
  IN IF Node.altern # NoNode
     THEN /\ EmitHere(patched)
          /\ Continue(<<Visit(Node.altern), AfterAltern(jump_pos)>>)
     ELSE /\ EmitHere(compiler_replace_operand(valued, jump_pos, compiler_pos(valued)))
          /\ Continue(<<>>)

(* Mutant of compile_ifelse_altern: jump_pos is taken before the pop goes. *)
compile_ifelse_altern_early_pos ==
  /\ Doing("body")
  /\ LET s == WithoutPop(Scope)
     IN CompileAltern(compiler_emit(s, "jump", PLACEHOLDER, 0), compiler_pos(Scope))

compile_ifelse_altern ==
  /\ Doing("body")
  /\ LET s == WithoutPop(Scope)
     IN CompileAltern(compiler_emit(s, "jump", PLACEHOLDER, 0), compiler_pos(s))

(* Mutant of compile_ifelse_end: the value of the last statement is popped. *)
compile_ifelse_end_pops ==
  /\ Doing("altern")
  /\ EmitHere(compiler_replace_operand(Scope, Head(work).pos, compiler_pos(Scope)))
  /\ Continue(<<>>)

(* Mutant of compile_ifelse_end: the jump is patched with its own position. *)
compile_ifelse_end_self ==
  /\ Doing("altern")
  /\ EmitHere(compiler_replace_operand(WithoutPop(Scope), Head(work).pos,
                                       Head(work).pos))
  /\ Continue(<<>>)

compile_ifelse_end ==
  /\ Doing("altern")
  /\ LET s == WithoutPop(Scope)
     IN EmitHere(compiler_replace_operand(s, Head(work).pos, compiler_pos(s)))
  /\ Continue(<<>>)

(***************************************************************************)
(* compile_function.  Leaving the scope frees the table with the names in  *)
(* it, which are strings of the tree, and the captured symbols with their  *)
(* names, which are strings of the tables around it.                       *)
(***************************************************************************)
compile_function ==
  /\ Visiting({"function"})
  /\ scopes' = Append(scopes, new_scope)
  /\ tables' = DefineAll(Append(tables, new_symbol_table), Node.params)
  /\ Continue(<<Visit(Node.body), AfterFunction(Node)>>)
  /\ UNCHANGED <<tree, nconsts, cstat, failed, released, objVars>>

Returning(s) ==
  LET r == IF compiler_last_is(s, "pop")
           THEN compiler_replace_last_pop_with_return(s) ELSE s
  IN IF compiler_last_is(r, "return_value") THEN r ELSE compiler_emit(r, "return", 0, 0)

Outer(s) == SubSeq(s, 1, Len(s) - 1)

(* Mutant of compiler_leave_scope: c->st stays the inner table. *)
compiler_leave_scope_not_st ==
  LET t == Innermost(tables)
  IN /\ tables'   = tables
     /\ released' = (released \/ DOMAIN t.store # {} \/ t.free # <<>>)

compiler_leave_scope ==
  LET t == Innermost(tables)
  IN /\ tables'   = Outer(tables)
     /\ released' = (released \/ DOMAIN t.store # {} \/ t.free # <<>>)

(* The last lines, in the outer scope s. *)
AddFunction(s) ==
  /\ LET num_locals == Innermost(tables).num_defs
     IN heap' = Append(heap, new_function_obj(Returning(Scope).insts,
                                              num_locals, Len(Node.params)))
  /\ compiler_add_const(Len(heap) + 1)
  /\ scopes' = Append(Outer(Outer(scopes)),
                      compiler_emit(s, "closure", nconsts, Len(Innermost(tables).free)))
  /\ Continue(<<>>)
  /\ UNCHANGED <<tree, cstat, failed>>

compile_function_end ==
  /\ Doing("function")
  /\ Innermost(tables).free = <<>>
  /\ compiler_leave_scope
  /\ AddFunction(scopes[Len(scopes) - 1])

(***************************************************************************)
(* The symbols to capture are loaded after they were freed: the access may *)
(* fault, find a scope that is none, or find what was there before.  Names *)
(* that were freed before may also make free abort.                        *)
(***************************************************************************)
LoadAll(s, symbols) ==
  LET after[i \in 0..Len(symbols)] ==
        IF i = 0 THEN s
        ELSE compiler_emit(after[i - 1], LoadOp(symbols[i].scope), symbols[i].index, 0)
  IN after[Len(symbols)]

Crash == cstat' = "crashed" /\ work' = <<>>

compile_function_captures ==
  /\ Doing("function")
  /\ LET free  == Innermost(tables).free
         outer == scopes[Len(scopes) - 1]
     IN /\ free # <<>>
        /\ \/ Crash /\ UNCHANGED <<tree, tables, scopes, nconsts, failed, released, objVars>>
           \/ /\ \E n \in 0..Len(free) - 1 :
                   /\ \A i \in 1..n : Loadable(free[i])
                   /\ scopes' = Append(Outer(Outer(scopes)),
                                       LoadAll(outer, SubSeq(free, 1, n)))
              /\ tables' = Outer(tables)
              /\ released' = TRUE /\ failed' = TRUE /\ work' = <<Halt>>
              /\ UNCHANGED <<tree, nconsts, cstat, objVars>>
           \/ /\ \A i \in DOMAIN free : Loadable(free[i])
              /\ compiler_leave_scope
              /\ AddFunction(LoadAll(outer, free))

(***************************************************************************)
(* The names that a function inside captured are strings of this table,    *)
(* since it captures none itself.  The table of that function freed them;  *)
(* now free is called on them again, and may notice it and abort.          *)
(***************************************************************************)
compile_function_aborts ==
  /\ Doing("function")
  /\ Innermost(tables).free = <<>>
  /\ \E k \in DOMAIN Scope.insts : Scope.insts[k].op = "closure" /\ Scope.insts[k].b # 0
  /\ Crash
  /\ UNCHANGED <<tree, tables, scopes, nconsts, failed, released, objVars>>

(* Mutant of CompileNULL: what is missing is taken for null. *)
CompileNULL_as_null ==
  /\ Visiting({"NULL"})
  /\ InScope(compiler_emit(Scope, "null", 0, 0))
  /\ Continue(<<>>)
  /\ UNCHANGED <<tree, tables, nconsts, cstat, failed, released, objVars>>

(* A node that is not there. *)
CompileNULL ==
  /\ \/ Visiting({"NULL"})
     \/ Visiting({"assign"}) /\ Node.l = NoNode
  /\ Crash
  /\ UNCHANGED <<tree, tables, scopes, nconsts, failed, released, objVars>>

(* A call of compiler_emit; op_halt is the last thing compile does. *)
Emit ==
  /\ Doing("emit")
  /\ InScope(compiler_emit(Scope, Head(work).op, Head(work).a, 0))
  /\ cstat' = IF Head(work) = Halt THEN "compiled" ELSE cstat
  /\ Continue(<<>>)
  /\ UNCHANGED <<tree, tables, nconsts, failed, released, objVars>>

compile ==
  \/ compile_integer \/ compile_null \/ compile_operation
  \/ compile_identifier \/ compile_assign \/ compile_assign_to_literal
  \/ compile_block \/ compile_call \/ compile_return
  \/ compile_ifelse \/ compile_ifelse_body \/ compile_ifelse_altern
  \/ compile_ifelse_end
  \/ compile_function \/ compile_function_end \/ compile_function_captures
  \/ compile_function_aborts \/ CompileNULL \/ Emit

-----------------------------------------------------------------------------
(***************************************************************************)
(* new_compiler_with_state and the start of compile, on the table st.      *)
(***************************************************************************)
Begin(st, n) ==
  [tree |-> n, tables |-> <<st>>, scopes |-> <<new_scope>>,
   work |-> <<Visit(n), Halt>>]

(* new_compiler, as the tests use it: a fresh table and no constants. *)
CompilerInit ==
  /\ heap = Statics
  /\ consts = [i \in {} |-> NULL]
  /\ nconsts = 0
  /\ \E n \in Trees :
       LET c == Begin(new_symbol_table, n)
       IN tree = c.tree /\ tables = c.tables /\ scopes = c.scopes /\ work = c.work
  /\ cstat = "compiling"
  /\ failed = FALSE
  /\ released = FALSE

CompilerDone == ~Compiling /\ UNCHANGED <<compilerVars, objVars>>
CompilerNext == compile \/ CompilerDone
CompilerSpec == /\ CompilerInit /\ [][CompilerNext]_<<compilerVars, objVars>>
                /\ WF_<<compilerVars, objVars>>(compile)
-----------------------------------------------------------------------------
(***************************************************************************)
(* Properties.                                                             *)
(***************************************************************************)

(* Type invariant. *)
EmittedType == [op : Opcode, pos : Nat]
ScopeType   == [insts : Seq(Cell), last : EmittedType, prev : EmittedType]
SymbolType  == [name : STRING, scope : Nat, index : Nat]

TableOK(t) ==
  /\ DOMAIN t.store \subseteq STRING
  /\ \A n \in DOMAIN t.store : t.store[n] \in SymbolType
  /\ t.free \in Seq(SymbolType)
  /\ t.num_defs \in Nat

CompilerTypeOK ==
  /\ heap \in Seq(ObjectType)
  /\ DOMAIN consts \subseteq 0..nconsts - 1
  /\ \A i \in DOMAIN consts : consts[i] \in 1..Len(heap)
  /\ scopes \in Seq(ScopeType) /\ Len(scopes) >= 1
  /\ Len(tables) = Len(scopes)
  /\ \A k \in DOMAIN tables : TableOK(tables[k])
  /\ cstat \in {"compiling", "compiled", "crashed"}
  /\ failed \in BOOLEAN /\ released \in BOOLEAN

(* Every table numbers its own symbols 0, 1, .. without a gap or a         *)
(* repetition, whatever names the functions nested in it use: two          *)
(* variables never share a slot of the frame or an entry of globals.       *)
SlotsAreOwn ==
  \A k \in DOMAIN tables :
    LET t == tables[k]
    IN /\ {t.store[n].index : n \in DOMAIN t.store} = 0..t.num_defs - 1
       /\ \A m, n \in DOMAIN t.store : t.store[m].index = t.store[n].index => m = n
       /\ \A n \in DOMAIN t.store :
            t.store[n].scope = IF k = 1 THEN global_scope ELSE local_scope

EndsWith(insts, e) ==
  /\ IsInst(insts, e.pos)
  /\ insts[e.pos + 1].op = e.op
  /\ Len(insts) = e.pos + InstLen(e.op)

(* last_inst is the instruction a scope's code ends with; and when that is *)
(* an op_pop, which compile_ifelse may be about to remove, prev_inst is    *)
(* the one it ends with after that.  prev_inst is stale after a removal,   *)
(* so this is about the order in which the nested functions remove, emit   *)
(* and patch.                                                              *)
LastInstTracked ==
  \A k \in DOMAIN scopes :
    LET s == scopes[k]
    IN s.insts # <<>> =>
         /\ EndsWith(s.insts, s.last)
         /\ s.last.op = "pop" => EndsWith(SubSeq(s.insts, 1, s.last.pos), s.prev)

(* The scope the i-th waiting call works in. *)
ScopeOf(i) == 1 + Cardinality({j \in i + 1..Len(work) : work[j].do = "function"})

(* The calls that wait and the scopes agree, and every position a waiting  *)
(* compile_ifelse holds is still a jump with the placeholder: nothing a    *)
(* child emitted or removed in between moved it.                           *)
JumpsWait ==
  Compiling /\ ~failed =>
    /\ Len(scopes) = ScopeOf(0)
    /\ \A i \in DOMAIN work :
         work[i].do \in {"body", "altern"} =>
           LET insts == scopes[ScopeOf(i)].insts
               op    == IF work[i].do = "body" THEN "jump_not_truthy" ELSE "jump"
           IN /\ IsInst(insts, work[i].pos)
              /\ insts[work[i].pos + 1] = Decoded(op, PLACEHOLDER, 0)

(* Code that was emitted stays as it is, but for the placeholders and the  *)
(* pops that are taken back.                                               *)
CodeStands ==
  [][\A k \in DOMAIN scopes \cap DOMAIN scopes' :
       LET old == scopes[k].insts
           new == scopes'[k].insts
       IN Compiling => \A p \in DOMAIN old :
            \/ p \in DOMAIN new /\ new[p] = old[p]
            \/ /\ p \in DOMAIN new /\ new[p].op = old[p].op
               /\ old[p].op \in {"jump", "jump_not_truthy"}
               /\ old[p] = Decoded(old[p].op, PLACEHOLDER, 0)
            \/ p = Len(old) /\ old[p].op = "pop"]_<<compilerVars, objVars>>
=============================================================================
