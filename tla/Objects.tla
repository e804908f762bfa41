------------------------------ MODULE Objects -------------------------------
(***************************************************************************)
(* The object system of src/src/obj and the two arrays the compiler and    *)
(* the virtual machine share: the heap the objects are allocated in and    *)
(* the constants of the session.                                           *)
(*                                                                         *)
(* An object is named by its address, an index of heap; 0 is the address   *)
(* NULL and the first three addresses are the statically allocated         *)
(* null_obj, true_obj and false_obj.  Objects are never written after they *)
(* were built, and the heap only grows: memory that was given back with    *)
(* free() is recorded where that happens.                                  *)
(*                                                                         *)
(* Floats and strings are left out: no constructor of the parser makes     *)
(* one, and vm_exec_minus, which builds a float, exits before anyone can   *)
(* use it.                                                                 *)
(***************************************************************************)
EXTENDS Code

CONSTANT Int63   \* 2^63: the int64_t values are -Int63 .. Int63 - 1

ASSUME Int63Assumption == Int63 \in Nat \ {0}

VARIABLES
  heap,    \* sequence of objects: heap[id] is the object at address id
  consts   \* the constants array: a partial function from indices to ids

objVars == <<heap, consts>>

NULL     == 0
NullObj  == 1
TrueObj  == 2
FalseObj == 3

parse_bool(b) == IF b THEN TrueObj ELSE FalseObj

(* Signed 64-bit arithmetic wraps in the build (no -ftrapv). *)
Wrap(i) == ((i + Int63) % (2 * Int63)) - Int63

new_boolean_obj(i)     == [type |-> "boolean", i |-> i]
new_integer_obj(i)     == [type |-> "integer", i |-> i]
new_closure_obj(f, fr) == [type |-> "closure", fn |-> f, free |-> fr]
NullObject             == [type |-> "null"]

(***************************************************************************)
(* The struct function and its constructor.  The parameters are in the     *)
(* order of the definition in function.c, which is not the order of the    *)
(* prototype in obj.h that the callers follow.                             *)
(***************************************************************************)
Function(insts, num_params, num_locals) ==
  [insts |-> insts, num_params |-> num_params, num_locals |-> num_locals]

new_function_obj(insts, num_params, num_locals) ==
  [type |-> "function", fn |-> Function(insts, num_params, num_locals)]

FunctionType == [insts : Seq(Cell), num_params : Nat, num_locals : Nat]

ObjectType ==
  [type : {"boolean", "integer"}, i : Int] \cup {NullObject}
    \cup [type : {"function"}, fn : FunctionType]
    \cup [type : {"closure"}, fn : FunctionType, free : Seq(Nat)]

Statics == <<NullObject, new_boolean_obj(1), new_boolean_obj(0)>>

(* A write to an array whose unset entries hold no object. *)
Put(f, i, v) == [j \in DOMAIN f \cup {i} |-> IF j = i THEN v ELSE f[j]]
=============================================================================
