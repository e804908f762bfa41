----------------------------- MODULE Activations -----------------------------
(***************************************************************************)
(* What a call is to who writes a function: an activation with locals and  *)
(* operands of its own, which no other activation reaches, begun with the  *)
(* arguments as the first locals and left with one result, which takes the *)
(* place of the callee among the operands of the caller.                   *)
(*                                                                         *)
(* There is no stack here and no room to run out of.  VM keeps all of it   *)
(* in one array, with sp and a base for each frame; for code that keeps    *)
(* the promise of StackMap it implements this.                             *)
(***************************************************************************)
EXTENDS Objects, StackMap

VARIABLE acts   \* the activations, the current one last

actVars == <<heap, consts, acts>>

Activation(cl, locals) ==
  [cl |-> cl, ip |-> 0, locals |-> locals, operands |-> <<>>]

Active == acts[Len(acts)]
Insts  == heap[Active.cl].fn.insts
Now    == Insts[Active.ip + 1]

(* The n topmost operands, and those below them. *)
Taken(n) == SubSeq(Active.operands, Len(Active.operands) - n + 1, Len(Active.operands))
Kept(n)  == SubSeq(Active.operands, 1, Len(Active.operands) - n)

(* The active one becomes a. *)
Suspended == SubSeq(acts, 1, Len(acts) - 1)
Become(a) == acts' = Append(Suspended, a)

Result(id) ==
  CASE Now.op = "constant"        -> id = consts[Now.a]
    [] Now.op = "current_closure" -> id = Active.cl
    [] Now.op = "get_local"       -> id = Active.locals[Now.a + 1]
    [] Now.op = "get_free"        -> id = heap[Active.cl].free[Now.a + 1]
    [] Now.op = "closure"         -> /\ id # NULL /\ heap'[id].type = "closure"
                                     /\ heap'[id].fn = heap[consts[Now.a]].fn
                                     /\ heap'[id].free = Taken(Now.b)
    [] OTHER                      -> TRUE

Compute ==
  /\ Now.op \in Loads \cup Binary \cup {"closure"}
  /\ \E id \in 0..Len(heap') :
       /\ Result(id)
       /\ \E q \in Follow(Insts, Active.ip) :
            Become([Active EXCEPT !.ip = q, !.operands = Append(Kept(Needs(Now)), id)])

(* set_global leaves its operand. *)
Move ==
  /\ Now.op \in {"jump", "jump_not_truthy", "pop", "set_global"}
  /\ \E q \in Follow(Insts, Active.ip) :
       Become([Active EXCEPT !.ip = q, !.operands = Kept(-Gain(Now))])

SetLocal ==
  /\ Now.op = "set_local"
  /\ \E q \in Follow(Insts, Active.ip) :
       Become([Active EXCEPT !.ip = q, !.locals[Now.a + 1] = Taken(1)[1]])

(* What the locals beyond the arguments hold at first is left open. *)
Call ==
  /\ Now.op = "call"
  /\ Len(acts') = Len(acts) + 1
  /\ LET callee == Taken(Now.a + 1)[1]
         locals == acts'[Len(acts) + 1].locals
     IN /\ Len(locals) = heap[callee].fn.num_locals
        /\ SubSeq(locals, 1, Now.a) = Taken(Now.a)
        /\ \E q \in Follow(Insts, Active.ip) :
             LET caller == [Active EXCEPT !.ip = q, !.operands = Kept(Now.a)]
             IN acts' = Suspended \o <<caller, Activation(callee, locals)>>

Return ==
  /\ Now.op \in Returns /\ Len(acts) > 1
  /\ LET result == IF Now.op = "return" THEN NullObj ELSE Taken(1)[1]
         caller == acts[Len(acts) - 1]
         below  == SubSeq(caller.operands, 1, Len(caller.operands) - 1)
     IN acts' = Append(SubSeq(acts, 1, Len(acts) - 2),
                       [caller EXCEPT !.operands = Append(below, result)])

Init == \E cl \in 1..Len(heap) : acts = <<Activation(cl, <<>>)>>

Next ==
  /\ \A id \in 1..Len(heap) : heap'[id] = heap[id]
  /\ consts' = consts
  /\ Compute \/ Move \/ SetLocal \/ Call \/ Return

Spec == Init /\ [][Next]_actVars
=============================================================================
