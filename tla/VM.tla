--------------------------------- MODULE VM ---------------------------------
(***************************************************************************)
(* The virtual machine of src/src/vm: the operand stack, the call frames   *)
(* and one action per handler of vm_run.                                   *)
(*                                                                         *)
(* frames is the part of vm->frames below frame_idx, so its last element   *)
(* is the current frame, which vm_run keeps in the register `frame` and    *)
(* reads again after every call and return.                                *)
(*                                                                         *)
(* No handler checks anything before it uses the stack.  Where the C code  *)
(* has no defined next state the machine stops and status says why:        *)
(*   underflow  a pop below stack[0]; the unsigned sp wraps, and whatever  *)
(*              comes next (the result is read at the latest) uses         *)
(*              stack[2^32 - 1]                                            *)
(*   overflow   a slot at or above STACK_SIZE, or a frame beyond           *)
(*              MAX_FRAMES, which lie inside the struct's next member      *)
(*   badcode    ip is not at an instruction                                *)
(*   fault      NULL or a wild pointer is used as an object, or a trap     *)
(* The defined ways out are halted, unhandled (vm_run returns -1) and      *)
(* exited (the handler calls exit(1)).                                     *)
(***************************************************************************)
EXTENDS Objects, StackMap

CONSTANTS
  StackSize,   \* STACK_SIZE: 2048 in the code
  MaxFrames,   \* MAX_FRAMES: 1024 in the code
  Images       \* the states of the session a run of the machine can start
               \* from: records [heap, consts, globals, insts]

ASSUME SizeAssumption == StackSize \in Nat \ {0} /\ MaxFrames \in Nat \ {0}

(* A set of addresses, NULL included, as slots and globals may hold. *)
Ids(h) == 0..Len(h)

ASSUME ImagesAssumption ==
  \A im \in Images :
    /\ im.heap \in Seq(ObjectType)
    /\ Len(im.heap) >= 3 /\ \A i \in 1..3 : im.heap[i] = Statics[i]
    /\ DOMAIN im.consts \subseteq Nat /\ DOMAIN im.globals \subseteq Nat
    /\ \A i \in DOMAIN im.consts : im.consts[i] \in 1..Len(im.heap)
    /\ \A i \in DOMAIN im.globals : im.globals[i] \in Ids(im.heap)
    /\ \A id \in 1..Len(im.heap) :
         im.heap[id].type = "closure" =>
           \A i \in DOMAIN im.heap[id].free : im.heap[id].free[i] \in Ids(im.heap)
    /\ im.insts \in Seq(Cell)

VARIABLES
  stack,    \* vm->stack
  sp,       \* vm->sp
  frames,   \* vm->frames[0 .. frame_idx]: [cl, ip, base]
  globals,  \* vm->state.globals: a partial function, NULL where undefined
  status    \* how the run stands

vmVars == <<stack, sp, frames, globals, status>>
machineVars == <<objVars, vmVars>>

Slots == 0..StackSize - 1

Top     == frames[Len(frames)]
Fn(fr)  == heap[fr.cl].fn
Current == Fn(Top).insts[Top.ip + 1]
AtInst  == IsInst(Fn(Top).insts, Top.ip)

Value(f, i) == IF i \in DOMAIN f THEN f[i] ELSE NULL

(***************************************************************************)
(* new_vm_with_state: the chunk becomes a function of no parameters and no *)
(* locals, its closure the only frame, and the state of the caller is      *)
(* copied.  Used by VMInit and by the loop of main.                        *)
(***************************************************************************)
MainFunction(insts) == Function(insts, 0, 0)

Booted(h, insts) ==
  h \o <<new_function_obj(insts, 0, 0),
         new_closure_obj(MainFunction(insts), <<>>)>>

new_frame(cl, base) == [cl |-> cl, ip |-> 0, base |-> base]

EmptyStack == [i \in Slots |-> NULL]

(***************************************************************************)
(* The objects an instruction works on.                                    *)
(***************************************************************************)
Right  == stack[sp - 1]                    \* the topmost entry
Left   == stack[sp - 2]
Callee == stack[sp - 1 - Current.a]

IsType(id, t) == id # NULL /\ heap[id].type = t
Integers2     == IsType(Left, "integer") /\ IsType(Right, "integer")

is_truthy(id) ==
  CASE IsType(id, "boolean") -> id = TrueObj
    [] IsType(id, "integer") -> heap[id].i # 0
    [] IsType(id, "null")    -> FALSE
    [] OTHER                 -> TRUE

(* C division truncates towards zero. *)
Quotient(a, b) ==
  LET abs(x) == IF x < 0 THEN -x ELSE x
      q      == abs(a) \div abs(b)
  IN IF (a < 0) = (b < 0) THEN q ELSE -q

ArithResult(op, a, b) ==
  Wrap(CASE op = "add" -> a + b
         [] op = "sub" -> a - b
         [] op = "mul" -> a * b
         [] op = "div" -> Quotient(a, b)
         [] op = "mod" -> a - b * Quotient(a, b))

SameObject ==
  CASE Integers2 -> heap[Left].i = heap[Right].i
    [] {heap[Left].type, heap[Right].type} \subseteq {"boolean", "null"}
                 -> Left = Right
    [] OTHER     -> FALSE

(* vm_exec_not_eq answers false for operands it cannot compare. *)
Comparable ==
  \/ Integers2
  \/ {heap[Left].type, heap[Right].type} \subseteq {"boolean", "null"}

-----------------------------------------------------------------------------
(***************************************************************************)
(* What can go wrong at the current instruction, in the order the handlers *)
(* meet it.                                                                *)
(***************************************************************************)
Running == status = "running"

Short ==
  \/ sp < Needs(Current)
  \/ Current.op \in Returns /\ Len(frames) = 1    \* base_ptr - 1 wraps

BangPushes ==
  IF Right = NULL THEN 0
  ELSE CASE IsType(Right, "boolean") -> 3
         [] IsType(Right, "null")    -> 2
         [] OTHER                    -> 1

Spills ==
  LET op == Current.op
  IN \/ op \in Loads /\ sp >= StackSize
     \/ op = "closure" /\ sp - Current.b >= StackSize
     \/ op \in {"get_local", "set_local"} /\ Top.base + Current.a >= StackSize
     \/ op \in Returns /\ Top.base > StackSize
     \/ op \notin Loads \cup Unhandled \cup {"pop", "jump", "halt", "return"}
          /\ Needs(Current) > 0 /\ sp > StackSize
     \/ op = "bang" /\ sp <= StackSize /\ sp - 1 + BangPushes > StackSize

(* vm_exec_* read the type of the right operand only if the left one does  *)
(* not decide the case.                                                    *)
NullOperand ==
  LET op == Current.op
  IN Left # NULL =>
       /\ Right = NULL
       /\ CASE op \in {"and", "bw_and"} -> is_truthy(Left)
            [] op \in {"or", "bw_or"}   -> ~is_truthy(Left)
            [] op \in Equality ->
                 heap[Left].type \in {"boolean", "null", "integer"}
            [] op = "add" -> IsType(Left, "integer")
            [] OTHER      -> TRUE

Traps ==
  /\ Current.op \in {"div", "mod"}
  /\ Integers2
  /\ \/ heap[Right].i = 0
     \/ heap[Right].i = -1 /\ heap[Left].i = -Int63

Faults ==
  LET op == Current.op
  IN CASE op \in {"constant", "closure"} -> Current.a \notin DOMAIN consts
       [] op = "get_free" -> Current.a >= Len(heap[Top.cl].free)
       [] op \in Binary   -> NullOperand \/ Traps
       [] op \in {"jump_not_truthy", "bang", "minus"} -> Right = NULL
       [] op = "call"     -> Callee = NULL
       [] OTHER           -> FALSE

Exits ==
  LET op == Current.op
  IN CASE op = "closure" -> ~IsType(consts[Current.a], "function")
       [] op \in Arith \cup Compare ->
            Right = NULL \/ ~Integers2
       [] op = "minus"   -> TRUE
       [] op = "call"    -> IsType(Callee, "closure") =>
                              heap[Callee].fn.num_params # Current.a
       [] OTHER          -> FALSE

Ready == Running /\ AtInst /\ ~Short /\ ~Spills
At(ops) == Ready /\ Current.op \in ops /\ ~Faults /\ ~Exits

-----------------------------------------------------------------------------
GoTo(p) == frames' = [frames EXCEPT ![Len(frames)].ip = p]
Step    == GoTo(Top.ip + InstLen(Current.op))

(* vm_stack_push, after the handler took `taken` entries. *)
Leave(taken, id) ==
  /\ stack' = [stack EXCEPT ![sp - taken] = id]
  /\ sp' = sp - taken + 1

Load(id) ==
  /\ Leave(0, id)
  /\ Step
  /\ UNCHANGED <<heap, consts, globals, status>>

TARGET_CONST   == At({"constant"}) /\ Load(consts[Current.a])
TARGET_TRUE    == At({"true"})  /\ Load(TrueObj)
TARGET_FALSE   == At({"false"}) /\ Load(FalseObj)
TARGET_NULL    == At({"null"})  /\ Load(NullObj)
TARGET_CURRENT_CLOSURE == At({"current_closure"}) /\ Load(Top.cl)
TARGET_GET_GLOBAL == At({"get_global"}) /\ Load(Value(globals, Current.a))
TARGET_GET_LOCAL  == At({"get_local"}) /\ Load(stack[Top.base + Current.a])
TARGET_GET_FREE   == At({"get_free"}) /\ Load(heap[Top.cl].free[Current.a + 1])

TARGET_SET_GLOBAL ==
  /\ At({"set_global"})
  /\ globals' = Put(globals, Current.a, Right)
  /\ Step
  /\ UNCHANGED <<heap, consts, stack, sp, status>>

(* Mutant of TARGET_SET_LOCAL: counted from the operands, not the base. *)
TARGET_SET_LOCAL_above ==
  /\ At({"set_local"})
  /\ stack' = [stack EXCEPT ![Top.base + Current.a + 1] = Right]
  /\ Step
  /\ UNCHANGED <<heap, consts, sp, globals, status>>

TARGET_SET_LOCAL ==
  /\ At({"set_local"})
  /\ stack' = [stack EXCEPT ![Top.base + Current.a] = Right]
  /\ Step
  /\ UNCHANGED <<heap, consts, sp, globals, status>>

(* vm_exec_add, _sub, _mul, _div and _mod on two integers. *)
TARGET_ARITH ==
  /\ At(Arith)
  /\ heap' = Append(heap, new_integer_obj(
                 ArithResult(Current.op, heap[Left].i, heap[Right].i)))
  /\ Leave(2, Len(heap) + 1)
  /\ Step
  /\ UNCHANGED <<consts, globals, status>>

(* The comparisons and the connectives: the result is a static boolean. *)
BooleanResult ==
  CASE Current.op = "greater_than"       -> heap[Left].i > heap[Right].i
    [] Current.op = "greater_than_equal" -> heap[Left].i >= heap[Right].i
    [] Current.op = "equal"              -> SameObject
    [] Current.op = "not_equal"          -> Comparable /\ ~SameObject
    [] Current.op \in {"and", "bw_and"}  ->
         is_truthy(Left) /\ is_truthy(Right)
    [] Current.op \in {"or", "bw_or"}    ->
         is_truthy(Left) \/ is_truthy(Right)

TARGET_BOOLEAN ==
  /\ At(Logic \cup Equality \cup Compare)
  /\ IF Right = NULL /\ Current.op \in Equality
     THEN Leave(2, FalseObj)
     ELSE Leave(2, parse_bool(BooleanResult))
  /\ Step
  /\ UNCHANGED <<heap, consts, globals, status>>

(* The cases of vm_exec_bang fall through into each other. *)
BangResults ==
  CASE IsType(Right, "boolean") ->
         <<parse_bool(heap[Right].i = 0), TrueObj, FalseObj>>
    [] IsType(Right, "null")    -> <<TrueObj, FalseObj>>
    [] OTHER                    -> <<FalseObj>>

TARGET_BANG ==
  /\ At({"bang"})
  /\ stack' = [i \in Slots |-> IF i \in sp - 1..sp - 2 + Len(BangResults)
                               THEN BangResults[i - sp + 2] ELSE stack[i]]
  /\ sp' = sp - 1 + Len(BangResults)
  /\ Step
  /\ UNCHANGED <<heap, consts, globals, status>>

(* vm_push_closure: the captured objects are the num_free topmost ones. *)
TARGET_CLOSURE ==
  /\ At({"closure"})
  /\ LET free == [i \in 1..Current.b |-> stack[sp - Current.b + i - 1]]
     IN heap' = Append(heap, new_closure_obj(heap[consts[Current.a]].fn, free))
  /\ Leave(Current.b, Len(heap) + 1)
  /\ Step
  /\ UNCHANGED <<consts, globals, status>>

(* Mutant of TARGET_CALL: one frame more than there is room for. *)
TARGET_CALL_frames_off_by_one ==
  /\ At({"call"})
  /\ Len(frames) <= MaxFrames
  /\ frames' = Append([frames EXCEPT ![Len(frames)].ip = @ + InstLen("call")],
                      new_frame(Callee, sp - Current.a))
  /\ sp' = sp - Current.a + heap[Callee].fn.num_locals
  /\ UNCHANGED <<heap, consts, stack, globals, status>>

(* Mutant of TARGET_CALL: no room for the locals. *)
TARGET_CALL_no_locals ==
  /\ At({"call"})
  /\ Len(frames) < MaxFrames
  /\ frames' = Append([frames EXCEPT ![Len(frames)].ip = @ + InstLen("call")],
                      new_frame(Callee, sp - Current.a))
  /\ sp' = sp - Current.a
  /\ UNCHANGED <<heap, consts, stack, globals, status>>

(* vm_call_closure: the arguments become the first locals of the frame. *)
TARGET_CALL ==
  /\ At({"call"})
  /\ Len(frames) < MaxFrames
  /\ frames' = Append([frames EXCEPT ![Len(frames)].ip = @ + InstLen("call")],
                      new_frame(Callee, sp - Current.a))
  /\ sp' = sp - Current.a + heap[Callee].fn.num_locals
  /\ UNCHANGED <<heap, consts, stack, globals, status>>

(* Mutant of ReturnWith: the result is written but not kept on the stack. *)
ReturnWith_pops_result(id) ==
  /\ frames' = SubSeq(frames, 1, Len(frames) - 1)
  /\ stack' = [stack EXCEPT ![Top.base - 1] = id]
  /\ sp' = Top.base - 1
  /\ UNCHANGED <<heap, consts, globals, status>>

(* Mutant of ReturnWith: the slot below the callee's takes the result. *)
ReturnWith_one_too_low(id) ==
  /\ frames' = SubSeq(frames, 1, Len(frames) - 1)
  /\ stack' = [stack EXCEPT ![IF Top.base > 1 THEN Top.base - 2 ELSE 0] = id]
  /\ sp' = Top.base
  /\ UNCHANGED <<heap, consts, globals, status>>

(* vm_exec_return and vm_exec_return_value: the result replaces the callee. *)
ReturnWith(id) ==
  /\ frames' = SubSeq(frames, 1, Len(frames) - 1)
  /\ stack' = [stack EXCEPT ![Top.base - 1] = id]
  /\ sp' = Top.base
  /\ UNCHANGED <<heap, consts, globals, status>>

TARGET_RETURN       == At({"return"}) /\ ReturnWith(NullObj)
TARGET_RETURN_VALUE == At({"return_value"}) /\ ReturnWith(Right)

(* Mutant of TARGET_JUMP: ip is not moved. *)
TARGET_JUMP_stays ==
  /\ At({"jump"})
  /\ GoTo(Top.ip)
  /\ UNCHANGED <<heap, consts, stack, sp, globals, status>>

TARGET_JUMP ==
  /\ At({"jump"})
  /\ GoTo(Current.a)
  /\ UNCHANGED <<heap, consts, stack, sp, globals, status>>

TARGET_JUMP_NOT_TRUTHY ==
  /\ At({"jump_not_truthy"})
  /\ sp' = sp - 1
  /\ IF is_truthy(Right) THEN Step ELSE GoTo(Current.a)
  /\ UNCHANGED <<heap, consts, stack, globals, status>>

TARGET_POP ==
  /\ At({"pop"})
  /\ sp' = sp - 1
  /\ Step
  /\ UNCHANGED <<heap, consts, stack, globals, status>>

Stop(s) == status' = s /\ UNCHANGED <<heap, consts, stack, sp, frames, globals>>

TARGET_HALT == At({"halt"}) /\ Stop("halted")
UNHANDLED   == At(Unhandled) /\ Stop("unhandled")

Underflow == Running /\ AtInst /\ Short /\ Stop("underflow")
Overflow  ==
  /\ Running /\ AtInst /\ ~Short
  /\ \/ Spills
     \/ At({"call"}) /\ Len(frames) = MaxFrames
  /\ Stop("overflow")
BadCode   == Running /\ ~AtInst /\ Stop("badcode")
Fault     == Ready /\ Faults /\ Stop("fault")
Exit      == Ready /\ ~Faults /\ Exits /\ Stop("exited")

vm_run ==
  \/ TARGET_CONST \/ TARGET_TRUE \/ TARGET_FALSE \/ TARGET_NULL
  \/ TARGET_CURRENT_CLOSURE
  \/ TARGET_GET_GLOBAL \/ TARGET_GET_LOCAL \/ TARGET_GET_FREE
  \/ TARGET_SET_GLOBAL \/ TARGET_SET_LOCAL
  \/ TARGET_ARITH \/ TARGET_BOOLEAN \/ TARGET_BANG
  \/ TARGET_CLOSURE \/ TARGET_CALL \/ TARGET_RETURN \/ TARGET_RETURN_VALUE
  \/ TARGET_JUMP \/ TARGET_JUMP_NOT_TRUTHY \/ TARGET_POP
  \/ TARGET_HALT \/ UNHANDLED
  \/ Underflow \/ Overflow \/ BadCode \/ Fault \/ Exit

Statuses == {"running", "halted", "unhandled", "exited",
             "underflow", "overflow", "badcode", "fault"}

-----------------------------------------------------------------------------
(***************************************************************************)
(* The machine on its own: one run over one of the images.                 *)
(***************************************************************************)
VMInit ==
  \E im \in Images :
    /\ heap    = Booted(im.heap, im.insts)
    /\ consts  = im.consts
    /\ globals = im.globals
    /\ stack   = EmptyStack
    /\ sp      = 0
    /\ frames  = <<new_frame(Len(im.heap) + 2, 0)>>
    /\ status  = "running"

Done   == ~Running /\ UNCHANGED machineVars
VMNext == vm_run \/ Done
VMSpec == VMInit /\ [][VMNext]_machineVars /\ WF_machineVars(vm_run)
-----------------------------------------------------------------------------
(***************************************************************************)
(* Properties.                                                             *)
(***************************************************************************)

(* Type invariant: addresses are of allocated objects, captured ones       *)
(* included, and every frame runs a closure.                               *)
HeapOK ==
  /\ heap \in Seq(ObjectType)
  /\ Len(heap) >= 3
  /\ \A id \in 1..Len(heap) :
       heap[id].type = "closure" =>
         \A i \in DOMAIN heap[id].free : heap[id].free[i] \in Ids(heap)

ReferencesOK ==
  /\ DOMAIN consts \subseteq Nat
  /\ \A i \in DOMAIN consts : consts[i] \in 1..Len(heap)
  /\ DOMAIN globals \subseteq Nat
  /\ \A i \in DOMAIN globals : globals[i] \in Ids(heap)
  /\ stack \in [Slots -> Ids(heap)]

FrameType == [cl : 1..Len(heap), ip : Nat, base : Nat]

FramesOK ==
  /\ frames \in Seq(FrameType)
  /\ Len(frames) \in 1..MaxFrames
  /\ \A n \in 1..Len(frames) : IsType(frames[n].cl, "closure")

TypeOK ==
  /\ HeapOK /\ ReferencesOK /\ FramesOK
  /\ sp \in Nat
  /\ status \in Statuses

(***************************************************************************)
(* The code of the session keeps the promise of StackMap: the function     *)
(* bodies in the heap and the chunk that is run.                           *)
(***************************************************************************)
Trusted ==
  /\ \A id \in 1..Len(heap) :
       heap[id].type \in {"function", "closure"} => Accepted(heap[id].fn)
  /\ AcceptedMain(Fn(frames[1]))

Height(fr) == StackMapOf(Fn(fr))[fr.ip]
Ends(fr)   == fr.base + Fn(fr).num_locals + Height(fr)

(* The frames tile the stack: each one begins where the operands of its    *)
(* caller end, with the callee's slot between them, and sp is the end of   *)
(* the last.  vm_call_closure and the two returns move sp and base_ptr     *)
(* separately; this is what keeps them in step across nested calls.        *)
FramesTile ==
  Running /\ Trusted =>
    /\ frames[1].base = 0
    /\ \A n \in 1..Len(frames) : frames[n].ip \in DOMAIN StackMapOf(Fn(frames[n]))
    /\ \A n \in 1..Len(frames) - 1 :
         /\ frames[n + 1].base = Ends(frames[n])
         /\ Height(frames[n]) >= 1
    /\ sp = Ends(Top)

(* No handler of vm.c checks sp or ip; code that keeps the promise never   *)
(* pops from below the stack nor runs off its instructions, whatever the   *)
(* types of the operands and however the calls are nested.                 *)
NeverUnderflows == Trusted => status \notin {"underflow", "badcode"}

(* A step writes nothing below the base of its own frame, so the locals    *)
(* and the operands of every suspended caller survive a call.  The one     *)
(* exception is a return, which puts the result in the callee's slot.      *)
CallersUntouched ==
  [][Trusted => \A i \in Slots :
       i < Top.base /\ stack'[i] # stack[i] =>
         i = Top.base - 1 /\ Len(frames') = Len(frames) - 1]_machineVars

(***************************************************************************)
(* The slots of the stack as activations: a frame has its locals at its    *)
(* base, and its operands from there to the next frame's base or sp.       *)
(***************************************************************************)
Segment(from, to) ==
  [i \in 1..to - from |-> IF from + i - 1 \in Slots THEN stack[from + i - 1] ELSE NULL]

ActivationOf(n) ==
  LET fr       == frames[n]
      operands == fr.base + Fn(fr).num_locals
      end      == IF n < Len(frames) THEN frames[n + 1].base ELSE sp
  IN [cl |-> fr.cl, ip |-> fr.ip,
      locals |-> Segment(fr.base, operands), operands |-> Segment(operands, end)]

A == INSTANCE Activations WITH acts <- [n \in DOMAIN frames |-> ActivationOf(n)]

(* The machine implements activations, though a call moves nothing: the    *)
(* arguments become locals where they are, in their order, the operands of *)
(* every caller are the same when it goes on, with the result in the place *)
(* of the callee, and no jump, pop or store reaches another's.             *)
ImplementsActivations ==
  /\ Trusted => A!Init
  /\ [][Trusted => UNCHANGED A!actVars \/ A!Next]_machineVars

(* Jumps go forward and recursion runs into MAX_FRAMES or STACK_SIZE, so   *)
(* every run of code the compiler may produce comes to an end.             *)
RunEnds == Trusted => <>~Running
=============================================================================
