----------------------------- MODULE SymbolTable -----------------------------
(***************************************************************************)
(* The symbol tables of src/src/compiler/symboltable.c.                    *)
(*                                                                         *)
(* The chain of tables the compiler holds through c->st is the sequence    *)
(* ts: ts[1] is the table of the session, the last one is c->st, and the   *)
(* outer table of ts[k] is ts[k - 1].  A table is a record of its store,   *)
(* free_symbols and num_defs.  The store is a map by name: strmap looks up *)
(* by the hash of the name, and names whose hashes collide are left out.   *)
(***************************************************************************)
EXTENDS Integers, Sequences

(* enum symbol_scope.  The field is an int that holds whatever it is given. *)
global_scope   == 0
local_scope    == 1
builtin_scope  == 2
free_scope     == 3
function_scope == 4

new_symbol(name, scope, index) == [name |-> name, scope |-> scope, index |-> index]
NoSymbol == new_symbol("", -1, -1)

new_symbol_table == [store |-> [n \in {} |-> NoSymbol], free |-> <<>>, num_defs |-> 0]

Innermost(ts) == ts[Len(ts)]

(* The table t after the new symbol s took the next index. *)
Entered(t, s) ==
  [store    |-> [n \in DOMAIN t.store \cup {s.name} |->
                   IF n = s.name THEN s ELSE t.store[n]],
   free     |-> t.free,
   num_defs |-> t.num_defs + 1]

NextSymbol(ts, name) ==
  new_symbol(name, IF Len(ts) > 1 THEN local_scope ELSE global_scope,
             Innermost(ts).num_defs)

(* Mutant of symbol_table_define: the name is not looked up first. *)
symbol_table_define_again(ts, name) ==
  [ts EXCEPT ![Len(ts)] = Entered(Innermost(ts), NextSymbol(ts, name))]

(***************************************************************************)
(* symbol_table_define on c->st.  A name that the table has is returned as *)
(* it is; a new one takes the next index.                                  *)
(***************************************************************************)
symbol_table_define(ts, name) ==
  IF name \in DOMAIN Innermost(ts).store THEN ts
  ELSE [ts EXCEPT ![Len(ts)] = Entered(Innermost(ts), NextSymbol(ts, name))]

(* The symbols of a list of names, defined one after the other. *)
DefineAll(ts, names) ==
  LET after[i \in 0..Len(names)] ==
        IF i = 0 THEN ts ELSE symbol_table_define(after[i - 1], names[i])
  IN after[Len(names)]

(***************************************************************************)
(* symbol_table_define_free: the number of captured symbols goes where     *)
(* new_symbol expects the scope, and free_scope where it expects the       *)
(* index.  The symbol is not entered in the store, so a second reference   *)
(* to the same name captures it again.                                     *)
(***************************************************************************)
FreeSymbol(t, original) == new_symbol(original.name, Len(t.free), free_scope)

(* Mutant of symbol_table_resolve: a global is captured, too. *)
symbol_table_resolve_any(ts, name) ==
  LET from[k \in 0..Len(ts)] ==
        IF k = 0 THEN [symbol |-> NoSymbol, tables |-> ts]
        ELSE IF name \in DOMAIN ts[k].store
        THEN [symbol |-> ts[k].store[name], tables |-> ts]
        ELSE LET outer == from[k - 1]
                 copy  == FreeSymbol(ts[k], outer.symbol)
             IN IF outer.symbol.scope = -1
                THEN outer
                ELSE [symbol |-> copy,
                      tables |-> [outer.tables EXCEPT ![k].free = Append(@, copy)]]
  IN from[Len(ts)]

(***************************************************************************)
(* symbol_table_resolve from ts[k]: the symbol, and the tables after every *)
(* table on the way took its copy of a symbol from further out.            *)
(***************************************************************************)
symbol_table_resolve(ts, name) ==
  LET from[k \in 0..Len(ts)] ==
        IF k = 0 THEN [symbol |-> NoSymbol, tables |-> ts]
        ELSE IF name \in DOMAIN ts[k].store
        THEN [symbol |-> ts[k].store[name], tables |-> ts]
        ELSE LET outer == from[k - 1]
                 copy  == FreeSymbol(ts[k], outer.symbol)
             IN IF outer.symbol.scope \in {-1, global_scope, builtin_scope}
                THEN outer
                ELSE [symbol |-> copy,
                      tables |-> [outer.tables EXCEPT ![k].free = Append(@, copy)]]
  IN from[Len(ts)]
=============================================================================
