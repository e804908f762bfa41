-------------------------------- MODULE MCVM --------------------------------
(***************************************************************************)
(* Instances of the virtual machine for TLC: a small stack, few frames,    *)
(* narrow integers, and hand-assembled images, put together with Encode as *)
(* tests/tautest.c puts its chunks together with compiler_emit.            *)
(***************************************************************************)
EXTENDS VM

(* Shorthands for chunks. *)
I0(op)       == Encode(op, 0, 0)
I1(op, a)    == Encode(op, a, 0)
K(i)         == I1("constant", i)
Call(n)      == I1("call", n)
Cl(i, n)     == Encode("closure", i, n)
Line(body)   == body \o I0("pop") \o I0("halt")
Ret          == I0("return_value")
Body(insts, params, locals) ==
  [type |-> "function", fn |-> Function(insts, params, locals)]

(***************************************************************************)
(* Objects 4 .. 9 are integers, 10 onwards functions; constant i is object *)
(* i + 4, so constants 0 .. 5 are the integers.                            *)
(***************************************************************************)
Numbers == <<0, 1, 3, -1, -Int63, 5>>

(* fn(n) { n } *)
Same == Body(I1("get_local", 0) \o Ret, 1, 1)

(* fn(a, b) { c = a + b; c }: a local beyond the parameters *)
Sum2 == Body(I1("get_local", 0) \o I1("get_local", 1) \o I0("add")
             \o I1("set_local", 2) \o I0("pop") \o I1("get_local", 2) \o Ret, 2, 3)

(* fn(n) { if n > 0 { self(n - 1) + n } else { 0 } }: recursion that ends *)
Down == Body(I1("get_local", 0) \o K(0) \o I0("greater_than")
             \o I1("jump_not_truthy", 24)
             \o I0("current_closure")
             \o I1("get_local", 0) \o K(1) \o I0("sub") \o Call(1)
             \o I1("get_local", 0) \o I0("add")
             \o I1("jump", 27)
             \o K(0) \o Ret, 1, 1)

(* fn() { self() }: recursion that does not *)
Loop == Body(I0("current_closure") \o Call(0) \o Ret, 0, 0)

(* fn() { } *)
Empty == Body(I0("return"), 0, 0)

(* fn(x) { fn(y) { x + y } }, with the capture the handlers provide for *)
AddInner == Body(I1("get_free", 0) \o I1("get_local", 0) \o I0("add") \o Ret, 1, 1)
Adder    == Body(I1("get_local", 0) \o Cl(11, 1) \o Ret, 1, 1)

(* fn(f, x) { f(f(x)) }: a function passed as an argument *)
Twice == Body(I1("get_local", 0) \o I1("get_local", 0) \o I1("get_local", 1)
              \o Call(1) \o Call(1) \o Ret, 2, 2)

Functions == <<Same, Sum2, Down, Loop, Empty, AddInner, Adder, Twice>>
SAME == 6   SUM == 7   DOWN == 8   LOOP == 9   EMPTY == 10   ADDER == 12
TWICE == 13

BaseHeap(fs) == Statics \o [i \in 1..Len(Numbers) |-> new_integer_obj(Numbers[i])]
                \o fs

Image(h, insts) ==
  [heap |-> h, insts |-> insts, globals |-> [i \in {} |-> NULL],
   consts |-> [i \in 0..Len(h) - 4 |-> i + 4]]

(* Every operator on every pair of operands, of every type. *)
Operands == {K(0), K(2), K(3), K(4), I0("true"), I0("false"), I0("null"),
             Cl(SAME, 0), I1("get_global", 1)}
BinaryLines == {Line(l \o r \o I0(op)) : l \in Operands, r \in Operands, op \in Binary}

(* What compiled lines look like, with frames and jumps. *)
GoodLines == {
  Line(Cl(SAME, 0) \o K(2) \o Call(1)),
  Line(K(5) \o Cl(SUM, 0) \o K(1) \o K(2) \o Call(2) \o I0("mul")),
  Line(Cl(DOWN, 0) \o K(1) \o Call(1)),
  Line(Cl(DOWN, 0) \o K(2) \o Call(1)),
  Line(Cl(LOOP, 0) \o Call(0)),
  Line(I0("current_closure") \o Call(0)),
  Line(Cl(EMPTY, 0) \o Call(0)),
  Line(Cl(SAME, 0) \o Call(0)),
  Line(K(1) \o Call(0)),
  Line(Cl(ADDER, 0) \o K(1) \o Call(1) \o K(2) \o Call(1)),
  Line(Cl(TWICE, 0) \o Cl(SAME, 0) \o K(2) \o Call(2)),
  Line(Cl(TWICE, 0) \o Cl(ADDER, 0) \o K(2) \o Call(2)),
  Line(Cl(SAME, 0) \o I1("set_global", 1) \o I0("pop")
       \o I1("get_global", 1) \o I1("get_global", 1) \o I1("get_global", 2) \o Call(1)),
  Line(I1("get_global", 3) \o Call(0)),
  Line(I1("get_global", 3) \o I1("jump_not_truthy", 12) \o K(1) \o I1("jump", 15) \o K(2)) }
  \cup {Line(c \o I1("jump_not_truthy", Len(c) + 9) \o K(1) \o I1("jump", Len(c) + 12) \o K(2)) :
          c \in Operands}
  \cup {Line(K(1) \o K(0) \o I0(op)) : op \in Unhandled}
  \cup {Line(c \o I0("minus")) : c \in Operands}
  \cup {Line(I0("true") \o Cl(1, 0))}

(* What only a mistake of the compiler would produce. *)
BadLines ==
  {Line(c \o I0("bang")) : c \in Operands}
  \cup {Line(K(1) \o K(1) \o K(1) \o K(1) \o K(1) \o K(1) \o K(1) \o K(1) \o c) :
          c \in {K(1), I0("true") \o I0("bang"), I1("closure", SAME)}}
  \cup {Line(c) : c \in {I0("return"), K(1) \o Ret, K(1) \o I0("add"), K(99),
                         I1("get_free", 0), I1("get_local", 0), I1("set_local", 3),
                         I1("jump", 1), I1("jump", 60), K(1) \o Call(3)}}
  \cup {K(1), <<>>}

SmallHeap == BaseHeap(Functions)

MCImages  == {Image(SmallHeap, l) : l \in BinaryLines \cup GoodLines}
AllImages == MCImages \cup {Image(SmallHeap, l) : l \in BadLines}

(* The promise of StackMap is kept where it is meant to be, so that the    *)
(* properties that assume it say something of these images.                *)
ASSUME GoodImagesAssumption ==
  \A im \in MCImages :
    /\ AcceptedMain(MainFunction(im.insts))
    /\ \A id \in 1..Len(im.heap) :
         im.heap[id].type = "function" => Accepted(im.heap[id].fn)
=============================================================================
