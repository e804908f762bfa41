------------------------------ MODULE StackMap ------------------------------
(***************************************************************************)
(* What each instruction does to the height of the operand stack, and the  *)
(* promise a chunk of code makes when every offset can be given one height *)
(* (a stack map, as in the class-file verifiers of other virtual           *)
(* machines).  ctau has no verifier: an accepted chunk is what the         *)
(* compiler is expected to produce and what the machine relies on, because *)
(* no handler of vm.c looks at the stack pointer before it pops.           *)
(***************************************************************************)
EXTENDS Code

(* The opcodes, by the shape of their handlers in vm_run. *)
Loads     == {"constant", "true", "false", "null", "current_closure",
              "get_global", "get_local", "get_free"}
Arith     == {"add", "sub", "mul", "div", "mod"}
Logic     == {"and", "or", "bw_and", "bw_or"}
Equality  == {"equal", "not_equal"}
Compare   == {"greater_than", "greater_than_equal"}
Binary    == Arith \cup Logic \cup Equality \cup Compare
Unhandled == {"list", "map", "bw_xor", "bw_not", "bw_lshift", "bw_rshift",
              "index", "concurrent_call", "dot", "define", "get_builtin",
              "load_module", "interpolate"}
Returns   == {"return", "return_value"}

(* Entries of the stack the handler takes for granted. *)
Needs(inst) ==
  CASE inst.op \in Binary -> 2
    [] inst.op \in {"set_global", "set_local", "jump_not_truthy", "pop",
                    "minus", "bang", "return_value"} -> 1
    [] inst.op = "closure" -> inst.b
    [] inst.op = "call"    -> inst.a + 1
    [] OTHER               -> 0

(* Entries it leaves, less those it takes, when the code goes on after it. *)
Gain(inst) ==
  CASE inst.op \in Loads   -> 1
    [] inst.op \in Binary \cup {"jump_not_truthy", "pop"} -> -1
    [] inst.op = "closure" -> 1 - inst.b
    [] inst.op = "call"    -> -inst.a
    [] OTHER               -> 0

(* Offsets control can reach in the same chunk after the instruction at p. *)
(* A call comes back to the next instruction; op_minus never comes back.   *)
Follow(insts, p) ==
  LET inst  == insts[p + 1]
      after == p + InstLen(inst.op)
  IN CASE inst.op \in Returns \cup Unhandled \cup {"minus", "halt"} -> {}
       [] inst.op = "jump"            -> {inst.a}
       [] inst.op = "jump_not_truthy" -> {inst.a, after}
       [] OTHER                       -> {after}

(***************************************************************************)
(* d gives each reachable offset of f its height above the locals.  There  *)
(* is no height for op_bang, whose missing breaks push one, two or three   *)
(* objects depending on the type of the operand.                           *)
(***************************************************************************)
WellMapped(f, d) ==
  /\ f.num_params <= f.num_locals
  /\ DOMAIN d \subseteq Nat
  /\ 0 \in DOMAIN d
  /\ d[0] = 0
  /\ \A p \in DOMAIN d :
       /\ IsInst(f.insts, p)
       /\ d[p] \in Nat
       /\ LET inst == f.insts[p + 1]
          IN /\ inst.op # "bang"
             /\ Needs(inst) <= d[p]
             /\ inst.op \in {"get_local", "set_local"} => inst.a < f.num_locals
             /\ \A q \in Follow(f.insts, p) :
                  q \in DOMAIN d /\ d[q] = d[p] + Gain(inst)

(***************************************************************************)
(* The map one walk down the chunk finds.  Jumps of ctau go forward only,  *)
(* so every offset is given its height before the walk comes to it.        *)
(***************************************************************************)
StackMapOf(f) ==
  LET walked[n \in 0..Len(f.insts)] ==
        IF n = 0 THEN [p \in {0} |-> 0]
        ELSE LET d == walked[n - 1]
             IN IF n - 1 \in DOMAIN d /\ IsInst(f.insts, n - 1)
                THEN [q \in DOMAIN d \cup Follow(f.insts, n - 1) |->
                        IF q \in DOMAIN d THEN d[q]
                        ELSE d[n - 1] + Gain(f.insts[n])]
                ELSE d
  IN walked[Len(f.insts)]

(* A function body, and the chunk of a whole line, that keep the promise.  *)
(* A line may not return: its frame has no caller.                         *)
Accepted(f) == WellMapped(f, StackMapOf(f))

AcceptedMain(f) ==
  /\ Accepted(f)
  /\ f.num_params = 0 /\ f.num_locals = 0
  /\ \A p \in DOMAIN StackMapOf(f) : f.insts[p + 1].op \notin Returns
=============================================================================
