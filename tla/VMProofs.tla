------------------------------ MODULE VMProofs ------------------------------
(***************************************************************************)
(* Proofs about the virtual machine, for every stack size, number of       *)
(* frames, operand width, integer width and every set of images.           *)
(*                                                                         *)
(* Nothing here depends on how StackMapOf finds its map: the proofs use    *)
(* only that the map it finds is WellMapped, which is what Trusted says of *)
(* every function body of the session.                                     *)
(***************************************************************************)
EXTENDS VM, Induction

USE DEF NULL, NullObj, TrueObj, FalseObj

FunctionObject == [type : {"function"}, fn : FunctionType]
ClosureObject  == [type : {"closure"}, fn : FunctionType, free : Seq(Nat)]

-----------------------------------------------------------------------------
(***************************************************************************)
(* The heap.                                                               *)
(***************************************************************************)

(* An object's type tag says which fields it has. *)
LEMMA TaggedObjects ==
  ASSUME NEW o \in ObjectType
  PROVE  /\ o.type = "function" => o \in FunctionObject
         /\ o.type = "closure" => o \in ClosureObject
         /\ o.type \in {"boolean", "integer"} => o.i \in Int
  BY DEF ObjectType, FunctionObject, ClosureObject, NullObject

(* The new heap is the old one, or the old one with one more object. *)
HeapGrows ==
  /\ Len(heap') \in Nat /\ Len(heap') >= Len(heap)
  /\ \A id \in 1..Len(heap) : heap'[id] = heap[id]

LEMMA AppendGrows ==
  ASSUME HeapOK, NEW o \in ObjectType, heap' = Append(heap, o),
         o.type = "closure" =>
           \A i \in DOMAIN o.free : o.free[i] \in Ids(heap)
  PROVE  HeapOK' /\ HeapGrows /\ Len(heap') = Len(heap) + 1
<1>1. /\ heap \in Seq(ObjectType)
      /\ Len(heap) \in Nat
      /\ heap' \in Seq(ObjectType)
      /\ Len(heap') = Len(heap) + 1
      /\ \A id \in 1..Len(heap) : heap'[id] = heap[id]
      /\ heap'[Len(heap) + 1] = o
  BY DEF HeapOK
<1>2. HeapGrows
  BY <1>1 DEF HeapGrows
<1>3. ASSUME NEW id \in 1..Len(heap'), heap'[id].type = "closure",
             NEW i \in DOMAIN heap'[id].free
      PROVE  heap'[id].free[i] \in Ids(heap)
  <2>1. CASE id \in 1..Len(heap)
    BY <1>1, <1>3, <2>1 DEF HeapOK
  <2>2. CASE id = Len(heap) + 1
    BY <1>1, <1>3, <2>2
  <2> QED BY <1>1, <2>1, <2>2
<1>4. Ids(heap) \subseteq Ids(heap')
  BY <1>1 DEF Ids
<1> QED BY <1>1, <1>2, <1>3, <1>4 DEF HeapOK

LEMMA SameGrows ==
  ASSUME HeapOK, heap' = heap
  PROVE  HeapOK' /\ HeapGrows
  BY DEF HeapOK, HeapGrows, Ids

-----------------------------------------------------------------------------
(***************************************************************************)
(* The current frame and the current instruction.                          *)
(***************************************************************************)
LEMMA FrameFacts ==
  ASSUME TypeOK, NEW n \in 1..Len(frames)
  PROVE  /\ frames[n] \in FrameType
         /\ heap[frames[n].cl] \in ClosureObject
         /\ Fn(frames[n]) \in FunctionType
<1>1. frames[n] \in FrameType
  BY DEF TypeOK, FramesOK
<1>2. frames[n].cl \in 1..Len(heap) /\ heap[frames[n].cl] \in ObjectType
  BY <1>1 DEF TypeOK, HeapOK, FrameType
<1>3. heap[frames[n].cl].type = "closure"
  BY DEF TypeOK, FramesOK, IsType
<1>4. heap[frames[n].cl] \in ClosureObject
  BY <1>2, <1>3, TaggedObjects
<1> QED BY <1>1, <1>4 DEF ClosureObject, Fn

LEMMA TopFacts ==
  ASSUME TypeOK
  PROVE  /\ Len(frames) \in Nat /\ Len(frames) >= 1
         /\ Top \in FrameType
         /\ heap[Top.cl] \in ClosureObject
         /\ Fn(Top) \in FunctionType
         /\ AtInst => Current \in Inst
<1>1. Len(frames) \in 1..MaxFrames
  BY DEF TypeOK, FramesOK
<1>2. MaxFrames \in Nat
  BY SizeAssumption
<1>3. Len(frames) \in Nat /\ Len(frames) >= 1 /\ Len(frames) \in 1..Len(frames)
  BY <1>1, <1>2
<1> QED BY <1>3, FrameFacts DEF Top, AtInst, IsInst, Current

(* What an operand may be, and what comes after it. *)
LEMMA InstFacts ==
  ASSUME NEW inst \in Inst
  PROVE  /\ inst.op \in Opcode /\ inst.a \in Nat /\ inst.b \in Nat
         /\ InstLen(inst.op) \in Nat
         /\ Needs(inst) \in Nat
         /\ Gain(inst) \in Int
  BY DEF Inst, InstLen, Needs, Gain

-----------------------------------------------------------------------------
(***************************************************************************)
(* Type correctness.                                                       *)
(***************************************************************************)

(* References stay good, and frames stay well formed, when the heap grows. *)
LEMMA StillReferences ==
  ASSUME TypeOK, HeapGrows
  PROVE  /\ consts' = consts => \A i \in DOMAIN consts' : consts'[i] \in 1..Len(heap')
         /\ Ids(heap) \subseteq Ids(heap')
  BY DEF TypeOK, HeapOK, ReferencesOK, HeapGrows, Ids

LEMMA StillFrames ==
  ASSUME TypeOK, HeapGrows,
         NEW fs \in Seq(FrameType),
         \A n \in 1..Len(fs) : IsType(fs[n].cl, "closure"),
         Len(fs) \in 1..MaxFrames,
         frames' = fs
  PROVE  FramesOK'
<1>1. FrameType \subseteq FrameType'
  BY DEF FrameType, HeapGrows, TypeOK, HeapOK
<1>2. fs \in Seq(FrameType')
  BY <1>1
<1>3. ASSUME NEW n \in 1..Len(fs)
      PROVE  fs[n].cl # NULL /\ heap'[fs[n].cl].type = "closure"
  <2>1. fs[n] \in FrameType
    OBVIOUS
  <2>2. fs[n].cl \in 1..Len(heap)
    BY <2>1 DEF FrameType
  <2>3. heap'[fs[n].cl] = heap[fs[n].cl]
    BY <2>2 DEF HeapGrows
  <2> QED BY <2>2, <2>3 DEF IsType
<1> QED BY <1>2, <1>3 DEF FramesOK, IsType

LEMMA GoToOK ==
  ASSUME TypeOK, HeapGrows, NEW p \in Nat, GoTo(p)
  PROVE  FramesOK'
<1> DEFINE fs == [frames EXCEPT ![Len(frames)].ip = p]
<1>1. Len(frames) \in 1..Len(frames) /\ Top = frames[Len(frames)]
  BY TopFacts DEF Top
<1>2. [Top EXCEPT !.ip = p] \in FrameType
  BY TopFacts DEF FrameType
<1>3. /\ fs \in Seq(FrameType)
      /\ Len(fs) = Len(frames)
      /\ \A n \in 1..Len(frames) : fs[n].cl = frames[n].cl
  <2>1. frames \in Seq(FrameType)
    BY DEF TypeOK, FramesOK
  <2>2. fs = [frames EXCEPT ![Len(frames)] = [Top EXCEPT !.ip = p]]
    BY <1>1, <2>1
  <2>3. [Top EXCEPT !.ip = p].cl = Top.cl
    BY TopFacts DEF FrameType
  <2> HIDE DEF fs
  <2>4. fs \in Seq(FrameType) /\ Len(fs) = Len(frames)
    BY <1>1, <1>2, <2>1, <2>2
  <2>5. ASSUME NEW n \in 1..Len(frames) PROVE fs[n].cl = frames[n].cl
    BY <1>1, <2>1, <2>2, <2>3
  <2> QED BY <2>4, <2>5
<1>4. Len(frames) \in 1..MaxFrames /\ \A n \in 1..Len(frames) : IsType(frames[n].cl, "closure")
  BY DEF TypeOK, FramesOK
<1>5. \A n \in 1..Len(fs) : IsType(fs[n].cl, "closure")
  BY <1>3, <1>4
<1>6. frames' = fs
  BY DEF GoTo
<1> HIDE DEF fs
<1> QED BY <1>3, <1>4, <1>5, <1>6, StillFrames

(* Ready: the instruction is there, its operands too, and there is room. *)
LEMMA ReadyFacts ==
  ASSUME TypeOK, Ready
  PROVE  /\ Current \in Inst
         /\ Needs(Current) <= sp
         /\ Top.ip \in Nat
         /\ Top.ip + InstLen(Current.op) \in Nat
         /\ Current.op \in Loads => sp \in Slots
         /\ Current.op \in Binary => sp - 2 \in Slots /\ sp - 1 \in Slots
         /\ Current.op \in {"set_global", "set_local", "jump_not_truthy",
                            "minus", "bang", "return_value"} => sp - 1 \in Slots
         /\ Current.op = "closure" =>
              sp - Current.b \in Slots /\ (Current.b > 0 => sp <= StackSize)
         /\ Current.op = "call" =>
              sp - 1 - Current.a \in Slots /\ sp <= StackSize
         /\ Current.op \in {"get_local", "set_local"} =>
              Top.base + Current.a \in Slots
         /\ Current.op \in Returns =>
              Len(frames) > 1 /\ Top.base <= StackSize
<1>1. /\ Current \in Inst /\ Top \in FrameType
      /\ sp \in Nat /\ StackSize \in Nat /\ Len(frames) \in Nat
      /\ Len(frames) >= 1
  BY TopFacts, SizeAssumption DEF Ready, TypeOK
<1>2. /\ Needs(Current) \in Nat /\ InstLen(Current.op) \in Nat
      /\ Current.a \in Nat /\ Current.b \in Nat
      /\ Top.ip \in Nat /\ Top.base \in Nat
  BY <1>1, InstFacts DEF FrameType
<1>3. ~Short /\ ~Spills
  BY DEF Ready
<1>4. Needs(Current) <= sp /\ (Current.op \in Returns => Len(frames) > 1)
  <2>1. ~(sp < Needs(Current)) /\ ~(Current.op \in Returns /\ Len(frames) = 1)
    BY <1>3 DEF Short
  <2>2. Needs(Current) <= sp
    BY <1>1, <1>2, <2>1
  <2>3. ASSUME Current.op \in Returns PROVE Len(frames) > 1
    <3>1. Len(frames) # 1
      BY <2>1, <2>3
    <3>2. \A n \in Nat : n >= 1 /\ n # 1 => n > 1
      OBVIOUS
    <3> QED BY <1>1, <3>1, <3>2
  <2> QED BY <2>2, <2>3
<1>5. /\ Current.op \in Loads => sp < StackSize
      /\ Current.op = "closure" => sp - Current.b < StackSize
      /\ Current.op \in {"get_local", "set_local"} =>
           Top.base + Current.a < StackSize
      /\ Current.op \in Returns => Top.base <= StackSize
  BY <1>1, <1>2, <1>3 DEF Spills
<1>6. Current.op \notin Loads \cup Unhandled \cup {"pop", "jump", "halt", "return"}
        /\ Needs(Current) > 0 => sp <= StackSize
  BY <1>1, <1>2, <1>3 DEF Spills
<1>7. Current.op \in Binary => sp >= 2 /\ sp <= StackSize
  BY <1>1, <1>2, <1>4, <1>6
     DEF Needs, Binary, Arith, Logic, Equality, Compare, Loads, Unhandled
<1>8. Current.op \in {"set_global", "set_local", "jump_not_truthy", "minus",
                      "bang", "return_value"} => sp >= 1 /\ sp <= StackSize
  BY <1>1, <1>2, <1>4, <1>6
     DEF Needs, Binary, Arith, Logic, Equality, Compare, Loads, Unhandled
<1>9. Current.op = "call" => sp >= Current.a + 1 /\ sp <= StackSize
  BY <1>1, <1>2, <1>4, <1>6
     DEF Needs, Binary, Arith, Logic, Equality, Compare, Loads, Unhandled
<1>10. Current.op = "closure" =>
         sp >= Current.b /\ (Current.b > 0 => sp <= StackSize)
  BY <1>1, <1>2, <1>4, <1>6
     DEF Needs, Binary, Arith, Logic, Equality, Compare, Loads, Unhandled
<1>11. \A i \in Int : i >= 0 /\ i < StackSize => i \in Slots
  BY <1>1 DEF Slots
<1>12. /\ Current.op \in Loads => sp \in Slots
       /\ Current.op = "closure" => sp - Current.b \in Slots
       /\ Current.op \in {"get_local", "set_local"} =>
            Top.base + Current.a \in Slots
  BY <1>1, <1>2, <1>5, <1>10, <1>11
<1>13. /\ Current.op \in Binary => sp - 2 \in Slots /\ sp - 1 \in Slots
       /\ Current.op \in {"set_global", "set_local", "jump_not_truthy",
                          "minus", "bang", "return_value"} => sp - 1 \in Slots
       /\ Current.op = "call" => sp - 1 - Current.a \in Slots
  BY <1>1, <1>2, <1>7, <1>8, <1>9, <1>11
<1>14. Top.ip + InstLen(Current.op) \in Nat
  BY <1>2
<1> QED BY <1>1, <1>2, <1>4, <1>5, <1>9, <1>10, <1>12, <1>13, <1>14

LEMMA StepOK ==
  ASSUME TypeOK, Ready, HeapGrows, Step
  PROVE  FramesOK'
  BY ReadyFacts, GoToOK DEF Step

LEMMA LeaveOK ==
  ASSUME TypeOK, HeapGrows, NEW taken \in Nat, taken <= sp, sp - taken \in Slots,
         NEW id \in Ids(heap'), Leave(taken, id)
  PROVE  stack' \in [Slots -> Ids(heap')] /\ sp' \in Nat
<1>1. stack \in [Slots -> Ids(heap')]
  BY StillReferences DEF TypeOK, ReferencesOK
<1>2. stack' \in [Slots -> Ids(heap')]
  BY <1>1 DEF Leave
<1> QED BY <1>2 DEF Leave, TypeOK

LEMMA LoadOK ==
  ASSUME TypeOK, Ready, Current.op \in Loads, NEW id \in Ids(heap), Load(id)
  PROVE  TypeOK'
<1>1. HeapOK' /\ HeapGrows
  BY SameGrows DEF Load, TypeOK
<1>2. FramesOK'
  BY <1>1, StepOK DEF Load
<1>3. sp - 0 \in Slots /\ 0 <= sp /\ id \in Ids(heap')
  BY ReadyFacts DEF Load, TypeOK
<1>4. stack' \in [Slots -> Ids(heap')] /\ sp' \in Nat
  BY <1>1, <1>3, LeaveOK DEF Load
<1>5. ReferencesOK'
  BY <1>1, <1>4 DEF Load, TypeOK, ReferencesOK
<1> QED BY <1>1, <1>2, <1>4, <1>5 DEF Load, TypeOK

LEMMA LoadsOK ==
  ASSUME TypeOK,
         \/ TARGET_CONST \/ TARGET_TRUE \/ TARGET_FALSE \/ TARGET_NULL
         \/ TARGET_CURRENT_CLOSURE
         \/ TARGET_GET_GLOBAL \/ TARGET_GET_LOCAL \/ TARGET_GET_FREE
  PROVE  TypeOK'
<1>1. TrueObj \in Ids(heap) /\ FalseObj \in Ids(heap) /\ NullObj \in Ids(heap)
  BY DEF Ids, TypeOK, HeapOK
<1>2. Len(heap) \in Nat /\ 1..Len(heap) \subseteq Ids(heap)
  BY DEF Ids, TypeOK, HeapOK
<1>3. ASSUME Ready PROVE Current \in Inst /\ Current.a \in Nat
  BY <1>3, ReadyFacts, InstFacts
<1>4. CASE TARGET_CONST
  <2>1. Current.a \in DOMAIN consts
    BY <1>4 DEF TARGET_CONST, At, Faults, Binary, Arith, Logic, Equality, Compare
  <2>2. consts[Current.a] \in Ids(heap)
    BY <1>2, <2>1 DEF TypeOK, ReferencesOK
  <2> QED BY <1>4, <2>2, LoadOK DEF TARGET_CONST, At, Loads
<1>5. CASE TARGET_TRUE \/ TARGET_FALSE \/ TARGET_NULL
  BY <1>1, <1>5, LoadOK DEF TARGET_TRUE, TARGET_FALSE, TARGET_NULL, At, Loads
<1>6. CASE TARGET_CURRENT_CLOSURE
  <2>1. Top.cl \in Ids(heap)
    BY <1>2, TopFacts DEF FrameType
  <2> QED BY <1>6, <2>1, LoadOK DEF TARGET_CURRENT_CLOSURE, At, Loads
<1>7. CASE TARGET_GET_GLOBAL
  <2>1. Value(globals, Current.a) \in Ids(heap)
    BY <1>2 DEF TypeOK, ReferencesOK, Value, Ids
  <2> QED BY <1>7, <2>1, LoadOK DEF TARGET_GET_GLOBAL, At, Loads
<1>8. CASE TARGET_GET_LOCAL
  <2>1. Top.base + Current.a \in Slots
    BY <1>8, ReadyFacts DEF TARGET_GET_LOCAL, At
  <2>2. stack[Top.base + Current.a] \in Ids(heap)
    BY <2>1 DEF TypeOK, ReferencesOK
  <2> QED BY <1>8, <2>2, LoadOK DEF TARGET_GET_LOCAL, At, Loads
<1>9. CASE TARGET_GET_FREE
  <2> DEFINE free == heap[Top.cl].free
  <2>1. Ready /\ Current.op = "get_free" /\ ~Faults
    BY <1>9 DEF TARGET_GET_FREE, At
  <2>2. ~(Current.a >= Len(free))
    BY <2>1 DEF Faults, Binary, Arith, Logic, Equality, Compare
  <2>3. free \in Seq(Nat) /\ Len(free) \in Nat /\ DOMAIN free = 1..Len(free)
    <3>1. free \in Seq(Nat)
      BY TopFacts DEF ClosureObject
    <3> QED BY <3>1
  <2>4. Current.a + 1 \in DOMAIN free
    BY <1>3, <2>1, <2>2, <2>3
  <2>5. Top.cl \in 1..Len(heap) /\ heap[Top.cl].type = "closure"
    BY TopFacts DEF FrameType, ClosureObject
  <2>6. free[Current.a + 1] \in Ids(heap)
    BY <2>4, <2>5 DEF TypeOK, HeapOK
  <2> QED BY <1>9, <2>1, <2>6, LoadOK DEF TARGET_GET_FREE, Loads
<1> QED BY <1>4, <1>5, <1>6, <1>7, <1>8, <1>9

(* The operands of the binary instructions. *)
LEMMA OperandsOK ==
  ASSUME TypeOK, Ready, Current.op \in Binary
  PROVE  Left \in Ids(heap) /\ Right \in Ids(heap)
  BY ReadyFacts DEF TypeOK, ReferencesOK, Left, Right

LEMMA QuotientType ==
  ASSUME NEW a \in Int, NEW b \in Int, b # 0
  PROVE  Quotient(a, b) \in Int
<1> DEFINE x == IF a < 0 THEN -a ELSE a
           y == IF b < 0 THEN -b ELSE b
<1>1. x \in Int /\ y \in Int /\ y > 0
  OBVIOUS
<1> HIDE DEF x, y
<1>2. x \div y \in Int /\ -(x \div y) \in Int
  BY <1>1
<1> USE DEF x, y
<1> QED BY <1>2 DEF Quotient

LEMMA WrapType ==
  ASSUME NEW i \in Int
  PROVE  Wrap(i) \in Int
<1>1. 2 * Int63 \in Nat \ {0} /\ i + Int63 \in Int /\ Int63 \in Int
  BY Int63Assumption
<1>2. ASSUME NEW m \in Nat \ {0}, NEW j \in Int PROVE j % m \in Int
  OBVIOUS
<1> QED BY <1>1, <1>2 DEF Wrap

LEMMA ArithOK ==
  ASSUME TypeOK, TARGET_ARITH
  PROVE  TypeOK'
<1> DEFINE n == ArithResult(Current.op, heap[Left].i, heap[Right].i)
           o == new_integer_obj(n)
<1>1. Ready /\ Current.op \in Arith /\ Current.op \in Binary /\ ~Faults /\ ~Exits
  BY DEF TARGET_ARITH, At, Binary
<1>2. Integers2 /\ ~Traps
  BY <1>1 DEF Exits, Faults, Binary, Arith, Logic, Equality, Compare
<1>3. heap[Left].i \in Int /\ heap[Right].i \in Int
  <2>1. Left \in 1..Len(heap) /\ Right \in 1..Len(heap)
    BY <1>1, <1>2, OperandsOK DEF Integers2, IsType, Ids
  <2>2. heap[Left] \in ObjectType /\ heap[Right] \in ObjectType
    BY <2>1 DEF TypeOK, HeapOK
  <2> QED BY <1>2, <2>2, TaggedObjects DEF Integers2, IsType
<1>4. n \in Int
  <2>1. Current.op \in {"div", "mod"} => heap[Right].i # 0
    BY <1>2 DEF Traps
  <2> DEFINE l == heap[Left].i
             r == heap[Right].i
             q == Quotient(l, r)
  <2>2. Current.op \in {"div", "mod"} => q \in Int
    BY <1>3, <2>1, QuotientType
  <2>3. l \in Int /\ r \in Int
    BY <1>3
  <2> HIDE DEF l, r, q
  <2>4. l + r \in Int /\ l - r \in Int /\ l * r \in Int
    BY <2>3
  <2>5. Current.op \in {"div", "mod"} => r * q \in Int
    BY <2>2, <2>3
  <2>6. Current.op = "mod" => l - r * q \in Int
    BY <2>3, <2>5
  <2> DEFINE e == CASE Current.op = "add" -> l + r
                    [] Current.op = "sub" -> l - r
                    [] Current.op = "mul" -> l * r
                    [] Current.op = "div" -> q
                    [] Current.op = "mod" -> l - r * q
  <2>7. e \in Int
    BY <1>1, <2>2, <2>4, <2>6 DEF Arith
  <2>8. n = Wrap(e)
    BY DEF ArithResult, l, r, q
  <2> HIDE DEF e
  <2> QED BY <2>7, <2>8, WrapType
<1> HIDE DEF n
<1>5. o \in ObjectType /\ o.type # "closure"
  BY <1>4 DEF new_integer_obj, ObjectType
<1> HIDE DEF o
<1>6. heap' = Append(heap, o)
  BY DEF TARGET_ARITH, n, o
<1>7. HeapOK' /\ HeapGrows /\ Len(heap') = Len(heap) + 1
  BY <1>5, <1>6, AppendGrows DEF TypeOK
<1>8. FramesOK'
  BY <1>1, <1>7, StepOK DEF TARGET_ARITH
<1>9. Len(heap) + 1 \in Ids(heap')
  BY <1>7 DEF Ids, TypeOK, HeapOK
<1>10. 2 <= sp /\ sp - 2 \in Slots
  <2>1. sp - 2 \in Slots /\ sp \in Nat
    BY <1>1, ReadyFacts DEF TypeOK
  <2> QED BY <2>1, SizeAssumption DEF Slots
<1>11. stack' \in [Slots -> Ids(heap')] /\ sp' \in Nat
  BY <1>7, <1>9, <1>10, LeaveOK DEF TARGET_ARITH
<1>12. ReferencesOK'
  BY <1>7, <1>11, StillReferences DEF TARGET_ARITH, TypeOK, ReferencesOK
<1> QED BY <1>7, <1>8, <1>11, <1>12 DEF TARGET_ARITH, TypeOK

LEMMA BooleanOK ==
  ASSUME TypeOK, TARGET_BOOLEAN
  PROVE  TypeOK'
<1>1. Ready /\ Current.op \in Binary /\ heap' = heap
  BY DEF TARGET_BOOLEAN, At, Binary
<1>2. HeapOK' /\ HeapGrows
  BY <1>1, SameGrows DEF TypeOK
<1>3. FramesOK'
  BY <1>1, <1>2, StepOK DEF TARGET_BOOLEAN
<1>4. 2 <= sp /\ sp - 2 \in Slots
  <2>1. sp - 2 \in Slots /\ sp \in Nat
    BY <1>1, ReadyFacts DEF TypeOK
  <2> QED BY <2>1, SizeAssumption DEF Slots
<1>5. \E id \in {TrueObj, FalseObj} : Leave(2, id)
  BY DEF TARGET_BOOLEAN, parse_bool
<1>6. TrueObj \in Ids(heap') /\ FalseObj \in Ids(heap')
  BY <1>2 DEF HeapOK, Ids
<1>7. stack' \in [Slots -> Ids(heap')] /\ sp' \in Nat
  BY <1>2, <1>4, <1>5, <1>6, LeaveOK
<1>8. ReferencesOK'
  BY <1>2, <1>7, StillReferences DEF TARGET_BOOLEAN, TypeOK, ReferencesOK
<1> QED BY <1>2, <1>3, <1>7, <1>8 DEF TARGET_BOOLEAN, TypeOK

LEMMA BangOK ==
  ASSUME TypeOK, TARGET_BANG
  PROVE  TypeOK'
<1>1. Ready /\ Current.op = "bang" /\ heap' = heap
  BY DEF TARGET_BANG, At
<1>2. HeapOK' /\ HeapGrows
  BY <1>1, SameGrows DEF TypeOK
<1>3. FramesOK'
  BY <1>1, <1>2, StepOK DEF TARGET_BANG
<1>4. sp \in Nat /\ sp >= 1
  <2>1. sp - 1 \in Slots /\ sp \in Nat
    BY <1>1, ReadyFacts DEF TypeOK
  <2> QED BY <2>1, SizeAssumption DEF Slots
<1>5. BangResults \in Seq({TrueObj, FalseObj})
  <2> DEFINE p == parse_bool(heap[Right].i = 0)
  <2>1. p \in {TrueObj, FalseObj}
    BY DEF parse_bool
  <2> HIDE DEF p
  <2>2. /\ <<p, TrueObj, FalseObj>> \in Seq({TrueObj, FalseObj})
        /\ <<TrueObj, FalseObj>> \in Seq({TrueObj, FalseObj})
        /\ <<FalseObj>> \in Seq({TrueObj, FalseObj})
    BY <2>1
  <2>3. \/ BangResults = <<p, TrueObj, FalseObj>>
        \/ BangResults = <<TrueObj, FalseObj>>
        \/ BangResults = <<FalseObj>>
    <3>1. ~(IsType(Right, "boolean") /\ IsType(Right, "null"))
      BY DEF IsType
    <3> QED BY <3>1 DEF BangResults, p
  <2> QED BY <2>2, <2>3
<1>6. Len(BangResults) \in Nat
  BY <1>5
<1>7. sp' \in Nat
  BY <1>4, <1>6 DEF TARGET_BANG
<1>8. ASSUME NEW i \in Slots PROVE stack'[i] \in Ids(heap)
  <2>1. CASE i \in sp - 1..sp - 2 + Len(BangResults)
    <3>1. i - sp + 2 \in 1..Len(BangResults)
      BY <1>4, <1>6, <2>1, SizeAssumption DEF Slots
    <3>2. BangResults[i - sp + 2] \in {TrueObj, FalseObj}
      BY <1>5, <3>1
    <3>3. {TrueObj, FalseObj} \subseteq Ids(heap)
      BY DEF TypeOK, HeapOK, Ids
    <3> QED BY <2>1, <3>2, <3>3 DEF TARGET_BANG
  <2>2. CASE i \notin sp - 1..sp - 2 + Len(BangResults)
    BY <2>2 DEF TARGET_BANG, TypeOK, ReferencesOK
  <2> QED BY <2>1, <2>2
<1>9. ReferencesOK'
  BY <1>1, <1>8 DEF TARGET_BANG, TypeOK, ReferencesOK, Ids
<1> QED BY <1>2, <1>3, <1>7, <1>9 DEF TARGET_BANG, TypeOK

LEMMA ClosureOK ==
  ASSUME TypeOK, TARGET_CLOSURE
  PROVE  TypeOK'
<1> DEFINE free == [i \in 1..Current.b |-> stack[sp - Current.b + i - 1]]
           fn   == heap[consts[Current.a]].fn
           o    == new_closure_obj(fn, free)
<1>1. Ready /\ Current.op = "closure" /\ ~Faults /\ ~Exits
  BY DEF TARGET_CLOSURE, At
<1>2. /\ Current.a \in Nat /\ Current.b \in Nat
      /\ sp \in Nat /\ Current.b <= sp /\ sp - Current.b \in Slots
  <2>1. Current \in Inst /\ sp - Current.b \in Slots /\ sp \in Nat
    BY <1>1, ReadyFacts DEF TypeOK
  <2>2. Current.a \in Nat /\ Current.b \in Nat
    BY <2>1, InstFacts
  <2> QED BY <2>1, <2>2, SizeAssumption DEF Slots
<1>3. fn \in FunctionType
  <2>1. Current.a \in DOMAIN consts
    BY <1>1 DEF Faults, Binary, Arith, Logic, Equality, Compare
  <2>2. heap[consts[Current.a]].type = "function"
    BY <1>1 DEF Exits, Binary, Arith, Logic, Equality, Compare, IsType
  <2>3. heap[consts[Current.a]] \in ObjectType
    BY <2>1 DEF TypeOK, ReferencesOK, HeapOK
  <2> QED BY <2>2, <2>3, TaggedObjects DEF FunctionObject
<1>4. /\ free \in Seq(Ids(heap)) /\ free \in Seq(Nat)
      /\ \A i \in DOMAIN free : free[i] \in Ids(heap)
  <2>1. ASSUME NEW i \in 1..Current.b PROVE stack[sp - Current.b + i - 1] \in Ids(heap)
    <3>1. sp <= StackSize
      BY <1>1, <1>2, ReadyFacts
    <3>2. sp - Current.b + i - 1 \in Slots
      BY <1>2, <3>1, SizeAssumption DEF Slots
    <3> QED BY <3>2 DEF TypeOK, ReferencesOK
  <2>2. Ids(heap) \subseteq Nat
    BY DEF TypeOK, HeapOK, Ids
  <2> QED BY <1>2, <2>1, <2>2
<1> HIDE DEF free, fn
<1>5. o \in ObjectType /\ (o.type = "closure" => \A i \in DOMAIN o.free : o.free[i] \in Ids(heap))
  BY <1>3, <1>4 DEF new_closure_obj, ObjectType
<1> HIDE DEF o
<1>6. heap' = Append(heap, o)
  BY DEF TARGET_CLOSURE, o, free, fn
<1>7. HeapOK' /\ HeapGrows /\ Len(heap') = Len(heap) + 1
  BY <1>5, <1>6, AppendGrows DEF TypeOK
<1>8. FramesOK'
  BY <1>1, <1>7, StepOK DEF TARGET_CLOSURE
<1>9. Len(heap) + 1 \in Ids(heap')
  BY <1>7 DEF Ids, TypeOK, HeapOK
<1>10. stack' \in [Slots -> Ids(heap')] /\ sp' \in Nat
  BY <1>2, <1>7, <1>9, LeaveOK DEF TARGET_CLOSURE
<1>11. ReferencesOK'
  BY <1>7, <1>10, StillReferences DEF TARGET_CLOSURE, TypeOK, ReferencesOK
<1> QED BY <1>7, <1>8, <1>10, <1>11 DEF TARGET_CLOSURE, TypeOK

LEMMA StoresOK ==
  ASSUME TypeOK, TARGET_SET_GLOBAL \/ TARGET_SET_LOCAL
  PROVE  TypeOK'
<1>1. Ready /\ Current.op \in {"set_global", "set_local"} /\ heap' = heap
  BY DEF TARGET_SET_GLOBAL, TARGET_SET_LOCAL, At
<1>2. HeapOK' /\ HeapGrows
  BY <1>1, SameGrows DEF TypeOK
<1>3. FramesOK'
  BY <1>1, <1>2, StepOK DEF TARGET_SET_GLOBAL, TARGET_SET_LOCAL
<1>4. Right \in Ids(heap)
  BY <1>1, ReadyFacts DEF TypeOK, ReferencesOK, Right
<1>5. Current.a \in Nat
  BY <1>1, ReadyFacts, InstFacts
<1>6. CASE TARGET_SET_GLOBAL
  <2>1. /\ DOMAIN globals' \subseteq Nat
        /\ \A i \in DOMAIN globals' : globals'[i] \in Ids(heap)
    BY <1>4, <1>5, <1>6 DEF TARGET_SET_GLOBAL, Put, TypeOK, ReferencesOK
  <2>2. ReferencesOK'
    BY <1>1, <1>6, <2>1 DEF TARGET_SET_GLOBAL, TypeOK, ReferencesOK, Ids
  <2> QED BY <1>2, <1>3, <1>6, <2>2 DEF TARGET_SET_GLOBAL, TypeOK
<1>7. CASE TARGET_SET_LOCAL
  <2>1. stack' \in [Slots -> Ids(heap)]
    BY <1>4, <1>7 DEF TARGET_SET_LOCAL, TypeOK, ReferencesOK
  <2>2. ReferencesOK'
    BY <1>1, <1>7, <2>1 DEF TARGET_SET_LOCAL, TypeOK, ReferencesOK, Ids
  <2> QED BY <1>2, <1>3, <1>7, <2>2 DEF TARGET_SET_LOCAL, TypeOK
<1> QED BY <1>6, <1>7

LEMMA JumpsOK ==
  ASSUME TypeOK, TARGET_JUMP \/ TARGET_JUMP_NOT_TRUTHY \/ TARGET_POP
  PROVE  TypeOK'
<1>1. Ready /\ heap' = heap
  BY DEF TARGET_JUMP, TARGET_JUMP_NOT_TRUTHY, TARGET_POP, At
<1>2. HeapOK' /\ HeapGrows
  BY <1>1, SameGrows DEF TypeOK
<1>3. Current.a \in Nat /\ sp \in Nat /\ Needs(Current) <= sp
  BY <1>1, ReadyFacts, InstFacts DEF TypeOK
<1>4. FramesOK'
  <2>1. GoTo(Current.a) \/ Step
    BY DEF TARGET_JUMP, TARGET_JUMP_NOT_TRUTHY, TARGET_POP
  <2> QED BY <1>1, <1>2, <1>3, <2>1, GoToOK, StepOK
<1>5. sp' \in Nat
  <2>1. CASE TARGET_JUMP
    BY <1>3, <2>1 DEF TARGET_JUMP
  <2>2. CASE TARGET_JUMP_NOT_TRUTHY \/ TARGET_POP
    <3>1. Needs(Current) = 1 /\ sp' = sp - 1
      BY <2>2 DEF TARGET_JUMP_NOT_TRUTHY, TARGET_POP, At, Needs,
                  Binary, Arith, Logic, Equality, Compare
    <3> QED BY <1>3, <3>1
  <2> QED BY <2>1, <2>2
<1>6. ReferencesOK'
  BY <1>1 DEF TARGET_JUMP, TARGET_JUMP_NOT_TRUTHY, TARGET_POP,
              TypeOK, ReferencesOK, Ids
<1> QED BY <1>2, <1>4, <1>5, <1>6
        DEF TARGET_JUMP, TARGET_JUMP_NOT_TRUTHY, TARGET_POP, TypeOK

(* What the callee's frame is made of. *)
LEMMA CallFacts ==
  ASSUME TypeOK, TARGET_CALL
  PROVE  /\ Ready /\ Current \in Inst /\ Current.op = "call" /\ Current.a \in Nat
         /\ Callee \in 1..Len(heap)
         /\ heap[Callee] \in ClosureObject
         /\ heap[Callee].fn.num_params = Current.a
         /\ sp - Current.a \in Nat /\ sp - Current.a >= 1
<1>1. Ready /\ Current.op = "call" /\ ~Faults /\ ~Exits
  BY DEF TARGET_CALL, At
<1>2. /\ Current \in Inst /\ Current.a \in Nat
      /\ sp \in Nat /\ sp - 1 - Current.a \in Slots
  BY <1>1, ReadyFacts, InstFacts DEF TypeOK
<1>3. /\ IsType(Callee, "closure")
      /\ heap[Callee].fn.num_params = Current.a
  BY <1>1 DEF Exits, Binary, Arith, Logic, Equality, Compare
<1>4. Callee \in Ids(heap)
  BY <1>2 DEF TypeOK, ReferencesOK, Callee
<1>5. Callee \in 1..Len(heap)
  BY <1>3, <1>4 DEF IsType, Ids, TypeOK, HeapOK
<1>6. heap[Callee] \in ClosureObject
  BY <1>3, <1>5, TaggedObjects DEF IsType, TypeOK, HeapOK
<1>7. sp - Current.a \in Nat /\ sp - Current.a >= 1
  BY <1>2, SizeAssumption DEF Slots
<1> QED BY <1>1, <1>2, <1>3, <1>5, <1>6, <1>7

LEMMA CallOK ==
  ASSUME TypeOK, TARGET_CALL
  PROVE  TypeOK'
<1> DEFINE back == [frames EXCEPT ![Len(frames)].ip = @ + InstLen("call")]
           new  == new_frame(Callee, sp - Current.a)
<1>1. HeapOK' /\ HeapGrows
  BY SameGrows DEF TARGET_CALL, TypeOK
<1>2. /\ frames \in Seq(FrameType) /\ Len(frames) \in Nat
      /\ Len(frames) \in 1..Len(frames)
      /\ \A n \in 1..Len(frames) : IsType(frames[n].cl, "closure")
      /\ Top = frames[Len(frames)] /\ Top \in FrameType
  BY TopFacts DEF TypeOK, FramesOK, Top
<1>3. /\ back \in Seq(FrameType) /\ Len(back) = Len(frames)
      /\ \A n \in 1..Len(frames) : back[n].cl = frames[n].cl
  <2> DEFINE top == [Top EXCEPT !.ip = Top.ip + InstLen("call")]
  <2>1. top \in FrameType /\ top.cl = Top.cl
    <3>1. InstLen("call") = 2
      BY DEF InstLen, Wide, Narrow
    <3>2. Top.ip + InstLen("call") \in Nat
      BY <1>2, <3>1 DEF FrameType
    <3> QED BY <1>2, <3>2 DEF FrameType
  <2>2. back = [frames EXCEPT ![Len(frames)] = top]
    BY <1>2
  <2> HIDE DEF back, top
  <2>3. back \in Seq(FrameType) /\ Len(back) = Len(frames)
    BY <1>2, <2>1, <2>2
  <2>4. ASSUME NEW n \in 1..Len(frames) PROVE back[n].cl = frames[n].cl
    BY <1>2, <2>1, <2>2
  <2> QED BY <2>3, <2>4
<1>4. new \in FrameType /\ IsType(new.cl, "closure")
  BY CallFacts DEF new_frame, FrameType, IsType, ClosureObject
<1>5. frames' = Append(back, new)
  BY DEF TARGET_CALL
<1>6. Len(frames) + 1 \in 1..MaxFrames
  <2>1. Len(frames) < MaxFrames
    BY DEF TARGET_CALL
  <2>2. \A n, m \in Nat : n < m => n + 1 \in 1..m
    OBVIOUS
  <2> QED BY <1>2, <2>1, <2>2, SizeAssumption
<1> HIDE DEF back, new
<1>7. Append(back, new) \in Seq(FrameType) /\ Len(Append(back, new)) = Len(frames) + 1
  BY <1>3, <1>4
<1>8. ASSUME NEW n \in 1..Len(frames) + 1
      PROVE  IsType(Append(back, new)[n].cl, "closure")
  <2>1. CASE n \in 1..Len(frames)
    <3>1. Append(back, new)[n] = back[n]
      BY <1>3, <2>1
    <3>2. Append(back, new)[n].cl = frames[n].cl
      BY <1>3, <2>1, <3>1
    <3>3. IsType(frames[n].cl, "closure")
      BY <1>2, <2>1
    <3> QED BY <3>2, <3>3 DEF IsType
  <2>2. CASE n = Len(frames) + 1
    <3>1. Append(back, new)[n] = new
      BY <1>3, <2>2
    <3> QED BY <1>4, <3>1
  <2>3. \A k \in Nat : n \in 1..k + 1 => n \in 1..k \/ n = k + 1
    OBVIOUS
  <2> QED BY <1>2, <2>1, <2>2, <2>3
<1>9. FramesOK'
  BY <1>1, <1>5, <1>6, <1>7, <1>8, StillFrames
<1>10. sp' \in Nat
  BY CallFacts DEF TARGET_CALL, ClosureObject, FunctionType
<1>11. ReferencesOK'
  BY DEF TARGET_CALL, TypeOK, ReferencesOK, Ids
<1> QED BY <1>1, <1>9, <1>10, <1>11 DEF TARGET_CALL, TypeOK

LEMMA ReturnsOK ==
  ASSUME TypeOK, TARGET_RETURN \/ TARGET_RETURN_VALUE
  PROVE  TypeOK'
<1>1. Ready /\ Current.op \in Returns /\ heap' = heap
  BY DEF TARGET_RETURN, TARGET_RETURN_VALUE, ReturnWith, At, Returns
<1>2. HeapOK' /\ HeapGrows
  BY <1>1, SameGrows DEF TypeOK
<1>3. PICK id \in Ids(heap) : ReturnWith(id)
  <2>1. CASE TARGET_RETURN
    <3>1. NullObj \in Ids(heap)
      BY DEF Ids, TypeOK, HeapOK
    <3> QED BY <2>1, <3>1 DEF TARGET_RETURN
  <2>2. CASE TARGET_RETURN_VALUE
    <3>1. sp - 1 \in Slots
      BY <1>1, <2>2, ReadyFacts DEF TARGET_RETURN_VALUE, At
    <3>2. Right \in Ids(heap)
      BY <3>1 DEF TypeOK, ReferencesOK, Right
    <3> QED BY <2>2, <3>2 DEF TARGET_RETURN_VALUE
  <2> QED BY <2>1, <2>2
<1>4. /\ frames \in Seq(FrameType) /\ Len(frames) \in Nat /\ Len(frames) > 1
      /\ Len(frames) \in 1..MaxFrames /\ MaxFrames \in Nat
      /\ \A n \in 1..Len(frames) : IsType(frames[n].cl, "closure")
  BY <1>1, TopFacts, ReadyFacts, SizeAssumption DEF TypeOK, FramesOK
<1> DEFINE fs == SubSeq(frames, 1, Len(frames) - 1)
<1>5. /\ fs \in Seq(FrameType) /\ Len(fs) = Len(frames) - 1
      /\ \A n \in 1..Len(fs) : fs[n] = frames[n]
  BY <1>4
<1>6. frames' = fs
  BY <1>3 DEF ReturnWith
<1> HIDE DEF fs
<1>7. Len(fs) \in 1..MaxFrames
  <2>1. \A n, m \in Nat : n \in 1..m /\ n > 1 => n - 1 \in 1..m
    OBVIOUS
  <2> QED BY <1>4, <1>5, <2>1
<1>8. ASSUME NEW n \in 1..Len(fs) PROVE IsType(fs[n].cl, "closure")
  <2>1. n \in 1..Len(frames)
    BY <1>4, <1>5
  <2> QED BY <1>4, <1>5, <2>1
<1>9. FramesOK'
  BY <1>2, <1>5, <1>6, <1>7, <1>8, StillFrames
<1>10. sp' \in Nat
  BY <1>3, TopFacts DEF ReturnWith, FrameType
<1>11. stack' \in [Slots -> Ids(heap)]
  BY <1>3 DEF ReturnWith, TypeOK, ReferencesOK
<1>12. ReferencesOK'
  BY <1>1, <1>3, <1>11 DEF ReturnWith, TypeOK, ReferencesOK, Ids
<1> QED BY <1>2, <1>3, <1>9, <1>10, <1>12 DEF ReturnWith, TypeOK

(* The ways a run stops. *)
Stops == TARGET_HALT \/ UNHANDLED \/ Underflow \/ Overflow \/ BadCode \/ Fault \/ Exit

LEMMA StopsFacts ==
  ASSUME Stops
  PROVE  /\ status' \in Statuses \ {"running"}
         /\ UNCHANGED <<heap, consts, stack, sp, frames, globals>>
  BY DEF Stops, TARGET_HALT, UNHANDLED, Underflow, Overflow, BadCode, Fault,
         Exit, Stop, Statuses

LEMMA UnchangedOK ==
  ASSUME TypeOK, UNCHANGED <<heap, consts, stack, sp, frames, globals>>,
         status' \in Statuses
  PROVE  TypeOK'
  BY DEF TypeOK, HeapOK, ReferencesOK, FramesOK, FrameType, IsType, Ids

(* A run begins on the heap h and the code insts. *)
Starting ==
  \E h \in Seq(ObjectType), insts \in Seq(Cell) :
    /\ Len(h) >= 3
    /\ \A id \in 1..Len(h) :
         h[id].type = "closure" =>
           \A i \in DOMAIN h[id].free : h[id].free[i] \in Ids(h)
    /\ DOMAIN consts \subseteq Nat /\ DOMAIN globals \subseteq Nat
    /\ \A i \in DOMAIN consts : consts[i] \in 1..Len(h)
    /\ \A i \in DOMAIN globals : globals[i] \in Ids(h)
    /\ heap = Booted(h, insts) /\ frames = <<new_frame(Len(h) + 2, 0)>>
    /\ stack = EmptyStack /\ sp = 0 /\ status = "running"

LEMMA StartOK == Starting => TypeOK
<1> SUFFICES ASSUME Starting PROVE TypeOK
  OBVIOUS
<1>1. PICK h \in Seq(ObjectType), insts \in Seq(Cell) :
        /\ Len(h) >= 3
        /\ \A id \in 1..Len(h) :
             h[id].type = "closure" =>
               \A i \in DOMAIN h[id].free : h[id].free[i] \in Ids(h)
        /\ DOMAIN consts \subseteq Nat /\ DOMAIN globals \subseteq Nat
        /\ \A i \in DOMAIN consts : consts[i] \in 1..Len(h)
        /\ \A i \in DOMAIN globals : globals[i] \in Ids(h)
        /\ heap = Booted(h, insts) /\ frames = <<new_frame(Len(h) + 2, 0)>>
        /\ stack = EmptyStack /\ sp = 0 /\ status = "running"
  BY DEF Starting
<1>2. Len(h) \in Nat
  OBVIOUS
<1> DEFINE f == new_function_obj(insts, 0, 0)
           c == new_closure_obj(MainFunction(insts), <<>>)
<1>3. MainFunction(insts) \in FunctionType
  BY DEF MainFunction, Function, FunctionType
<1>4. f \in ObjectType /\ f.type = "function"
  BY <1>3 DEF new_function_obj, MainFunction, ObjectType
<1>5. c \in ObjectType /\ c.type = "closure" /\ c.free = <<>>
  BY <1>3 DEF new_closure_obj, ObjectType
<1> HIDE DEF f, c
<1>6. /\ heap \in Seq(ObjectType) /\ Len(heap) = Len(h) + 2
      /\ \A id \in 1..Len(h) : heap[id] = h[id]
      /\ heap[Len(h) + 1] = f /\ heap[Len(h) + 2] = c
  <2>1. heap = h \o <<f, c>>
    BY <1>1 DEF Booted, f, c
  <2> QED BY <1>2, <1>4, <1>5, <2>1
<1>7. Ids(h) \subseteq Ids(heap) /\ NULL \in Ids(heap)
  BY <1>2, <1>6 DEF Ids
<1>8. HeapOK
  <2>1. ASSUME NEW id \in 1..Len(heap), heap[id].type = "closure",
               NEW i \in DOMAIN heap[id].free
        PROVE  heap[id].free[i] \in Ids(heap)
    <3>1. CASE id \in 1..Len(h)
      BY <1>1, <1>6, <1>7, <2>1, <3>1
    <3>2. CASE id = Len(h) + 1
      BY <1>4, <1>6, <2>1, <3>2
    <3>3. CASE id = Len(h) + 2
      <4>1. DOMAIN heap[id].free = {}
        BY <1>5, <1>6, <3>3
      <4> QED BY <2>1, <4>1
    <3> QED BY <1>2, <1>6, <3>1, <3>2, <3>3
  <2> QED BY <1>1, <1>2, <1>6, <2>1 DEF HeapOK
<1>9. ReferencesOK
  <2>1. 1..Len(h) \subseteq 1..Len(heap)
    BY <1>2, <1>6
  <2> QED BY <1>1, <1>7, <2>1 DEF ReferencesOK, EmptyStack
<1>10. FramesOK
  <2> DEFINE fr == new_frame(Len(h) + 2, 0)
  <2>1. fr \in FrameType /\ IsType(fr.cl, "closure")
    BY <1>2, <1>5, <1>6 DEF new_frame, FrameType, IsType
  <2>2. frames = <<fr>>
    BY <1>1
  <2> HIDE DEF fr
  <2>3. frames \in Seq(FrameType) /\ Len(frames) = 1 /\ frames[1] = fr
    BY <2>1, <2>2
  <2> QED BY <2>1, <2>3, SizeAssumption DEF FramesOK
<1> QED BY <1>1, <1>8, <1>9, <1>10 DEF TypeOK, Statuses

LEMMA InitStarts ==
  ASSUME VMInit
  PROVE  Starting
<1>1. PICK im \in Images :
        /\ heap    = Booted(im.heap, im.insts)
        /\ consts  = im.consts
        /\ globals = im.globals
        /\ stack   = EmptyStack
        /\ sp      = 0
        /\ frames  = <<new_frame(Len(im.heap) + 2, 0)>>
        /\ status  = "running"
  BY DEF VMInit
<1> QED BY <1>1, ImagesAssumption DEF Starting

(* A step of the machine. *)
LEMMA RunOK ==
  ASSUME TypeOK, vm_run
  PROVE  TypeOK'
<1>1. CASE \/ TARGET_CONST \/ TARGET_TRUE \/ TARGET_FALSE \/ TARGET_NULL
           \/ TARGET_CURRENT_CLOSURE
           \/ TARGET_GET_GLOBAL \/ TARGET_GET_LOCAL \/ TARGET_GET_FREE
  BY <1>1, LoadsOK
<1>2. CASE TARGET_SET_GLOBAL \/ TARGET_SET_LOCAL
  BY <1>2, StoresOK
<1>3. CASE TARGET_ARITH
  BY <1>3, ArithOK
<1>4. CASE TARGET_BOOLEAN
  BY <1>4, BooleanOK
<1>5. CASE TARGET_BANG
  BY <1>5, BangOK
<1>6. CASE TARGET_CLOSURE
  BY <1>6, ClosureOK
<1>7. CASE TARGET_CALL
  BY <1>7, CallOK
<1>8. CASE TARGET_RETURN \/ TARGET_RETURN_VALUE
  BY <1>8, ReturnsOK
<1>9. CASE TARGET_JUMP \/ TARGET_JUMP_NOT_TRUTHY \/ TARGET_POP
  BY <1>9, JumpsOK
<1>10. CASE Stops
  BY <1>10, StopsFacts, UnchangedOK
<1> QED BY <1>1, <1>2, <1>3, <1>4, <1>5, <1>6, <1>7, <1>8, <1>9, <1>10 DEF vm_run, Stops

(* No handler, in any order, on any code, leaves an address of nothing on  *)
(* the stack, in the globals or in a closure: TypeOK holds in every state. *)
THEOREM TypeCorrect == VMSpec => []TypeOK
<1>1. VMInit => TypeOK
  BY InitStarts, StartOK
<1>2. TypeOK /\ [VMNext]_machineVars => TypeOK'
  <2> SUFFICES ASSUME TypeOK, [VMNext]_machineVars PROVE TypeOK'
    OBVIOUS
  <2>1. CASE Done \/ UNCHANGED machineVars
    <3>1. UNCHANGED <<heap, consts, stack, sp, frames, globals>> /\ status' = status
      BY <2>1 DEF Done, machineVars, objVars, vmVars
    <3> QED BY <3>1, UnchangedOK DEF TypeOK
  <2> QED BY <2>1, RunOK DEF VMNext
<1> QED BY <1>1, <1>2, PTL DEF VMSpec

-----------------------------------------------------------------------------
(***************************************************************************)
(* Soundness of the stack map.  FramesTile is the inductive invariant: it  *)
(* is restated over a heap, a sequence of frames and a stack pointer, so   *)
(* that the lemmas about moving, pushing and popping frames have no primes *)
(* in them.                                                                *)
(***************************************************************************)
MapOf(h, fr)    == StackMapOf(h[fr.cl].fn)
HeightOf(h, fr) == MapOf(h, fr)[fr.ip]
EndOf(h, fr)    == fr.base + h[fr.cl].fn.num_locals + HeightOf(h, fr)

Tiles(h, fs, s) ==
  /\ fs[1].base = 0
  /\ \A n \in 1..Len(fs) : fs[n].ip \in DOMAIN MapOf(h, fs[n])
  /\ \A n \in 1..Len(fs) - 1 :
       fs[n + 1].base = EndOf(h, fs[n]) /\ HeightOf(h, fs[n]) >= 1
  /\ s = EndOf(h, fs[Len(fs)])

LEMMA TilesDef == FramesTile <=> (Running /\ Trusted => Tiles(heap, frames, sp))
  BY DEF FramesTile, Tiles, EndOf, HeightOf, MapOf, Ends, Height, Fn, Top

(* Frames of unchanged closures keep their heights. *)
LEMMA SameHeights ==
  ASSUME NEW h, NEW h2, NEW fr, h2[fr.cl] = h[fr.cl]
  PROVE  /\ MapOf(h2, fr) = MapOf(h, fr)
         /\ HeightOf(h2, fr) = HeightOf(h, fr)
         /\ EndOf(h2, fr) = EndOf(h, fr)
  BY DEF MapOf, HeightOf, EndOf

(* The last frame moves on. *)
LEMMA TilesMove ==
  ASSUME NEW h, NEW h2, NEW fs, NEW fs2, NEW s, NEW s2, NEW k \in Nat,
         Len(fs) = k, Len(fs2) = k, k >= 1,
         Tiles(h, fs, s),
         \A n \in 1..k : h2[fs[n].cl] = h[fs[n].cl],
         \A n \in 1..k - 1 : fs2[n] = fs[n],
         fs2[k].cl = fs[k].cl, fs2[k].base = fs[k].base,
         fs2[k].ip \in DOMAIN MapOf(h2, fs2[k]),
         s2 = EndOf(h2, fs2[k])
  PROVE  Tiles(h2, fs2, s2)
<1>1. fs2[1].base = 0
  <2>1. CASE k = 1
    BY <2>1 DEF Tiles
  <2>2. CASE k > 1
    BY <2>2 DEF Tiles
  <2> QED BY <2>1, <2>2
<1>2. ASSUME NEW n \in 1..k PROVE fs2[n].ip \in DOMAIN MapOf(h2, fs2[n])
  <2>1. CASE n = k
    BY <2>1
  <2>2. CASE n \in 1..k - 1
    BY <2>2, SameHeights DEF Tiles
  <2> QED BY <2>1, <2>2
<1>3. ASSUME NEW n \in 1..k - 1
      PROVE  fs2[n + 1].base = EndOf(h2, fs2[n]) /\ HeightOf(h2, fs2[n]) >= 1
  <2>1. fs2[n] = fs[n] /\ EndOf(h2, fs[n]) = EndOf(h, fs[n])
        /\ HeightOf(h2, fs[n]) = HeightOf(h, fs[n])
    BY SameHeights
  <2>2. fs2[n + 1].base = fs[n + 1].base
    <3>1. CASE n + 1 = k
      BY <3>1
    <3>2. CASE n + 1 \in 1..k - 1
      BY <3>2
    <3> QED BY <3>1, <3>2
  <2>3. fs[n + 1].base = EndOf(h, fs[n]) /\ HeightOf(h, fs[n]) >= 1
    BY DEF Tiles
  <2> QED BY <2>1, <2>2, <2>3
<1> QED BY <1>1, <1>2, <1>3 DEF Tiles

(* A callee's frame on top of its caller's. *)
LEMMA TilesPush ==
  ASSUME NEW h, NEW fs, NEW fs2, NEW s, NEW s2, NEW k \in Nat,
         Len(fs) = k, Len(fs2) = k + 1, k >= 1,
         Tiles(h, fs, s), HeightOf(h, fs[k]) >= 1,
         \A n \in 1..k : fs2[n] = fs[n],
         fs2[k + 1].base = s,
         fs2[k + 1].ip \in DOMAIN MapOf(h, fs2[k + 1]),
         s2 = EndOf(h, fs2[k + 1])
  PROVE  Tiles(h, fs2, s2)
<1>1. fs2[1].base = 0
  BY DEF Tiles
<1>2. ASSUME NEW n \in 1..k + 1 PROVE fs2[n].ip \in DOMAIN MapOf(h, fs2[n])
  <2>1. CASE n = k + 1
    BY <2>1
  <2>2. CASE n \in 1..k
    BY <2>2 DEF Tiles
  <2> QED BY <2>1, <2>2
<1>3. ASSUME NEW n \in 1..k
      PROVE  fs2[n + 1].base = EndOf(h, fs2[n]) /\ HeightOf(h, fs2[n]) >= 1
  <2>1. CASE n = k
    BY <2>1 DEF Tiles
  <2>2. CASE n \in 1..k - 1
    <3>1. n + 1 \in 1..k
      BY <2>2
    <3> QED BY <2>2, <3>1 DEF Tiles
  <2> QED BY <2>1, <2>2
<1>4. k + 1 - 1 = k
  OBVIOUS
<1> QED BY <1>1, <1>2, <1>3, <1>4 DEF Tiles

(* Back to the caller, whose operands end where the callee began. *)
LEMMA TilesPop ==
  ASSUME NEW h, NEW fs, NEW fs2, NEW s, NEW s2, NEW k \in Nat,
         Len(fs) = k, Len(fs2) = k - 1, k > 1,
         Tiles(h, fs, s),
         \A n \in 1..k - 1 : fs2[n] = fs[n],
         s2 = fs[k].base
  PROVE  Tiles(h, fs2, s2)
<1>1. fs2[1].base = 0
  BY DEF Tiles
<1>2. ASSUME NEW n \in 1..k - 1 PROVE fs2[n].ip \in DOMAIN MapOf(h, fs2[n])
  BY DEF Tiles
<1>3. ASSUME NEW n \in 1..k - 2
      PROVE  fs2[n + 1].base = EndOf(h, fs2[n]) /\ HeightOf(h, fs2[n]) >= 1
  <2>1. n + 1 \in 1..k - 1 /\ n \in 1..k - 1
    OBVIOUS
  <2> QED BY <2>1 DEF Tiles
<1>4. s2 = EndOf(h, fs2[k - 1])
  <2>1. k - 1 \in 1..k - 1 /\ k - 1 + 1 = k
    OBVIOUS
  <2> QED BY <2>1 DEF Tiles
<1>5. k - 1 - 1 = k - 2
  OBVIOUS
<1> QED BY <1>1, <1>2, <1>3, <1>4, <1>5 DEF Tiles

LEMMA TrustKept ==
  ASSUME TypeOK, HeapGrows, Trusted', frames'[1].cl = frames[1].cl
  PROVE  Trusted
<1>1. ASSUME NEW id \in 1..Len(heap)
      PROVE  id \in 1..Len(heap') /\ heap'[id] = heap[id]
  BY DEF HeapGrows, TypeOK, HeapOK
<1>2. 1 \in 1..Len(frames) /\ frames[1].cl \in 1..Len(heap)
  <2>1. \A n \in Nat : n >= 1 => 1 \in 1..n
    OBVIOUS
  <2>2. 1 \in 1..Len(frames)
    BY <2>1, TopFacts
  <2> QED BY <2>2, FrameFacts DEF FrameType
<1>3. heap'[frames'[1].cl].fn = heap[frames[1].cl].fn
  BY <1>1, <1>2
<1>4. AcceptedMain(Fn(frames[1]))
  BY <1>3 DEF Trusted, Fn
<1>5. \A id \in 1..Len(heap) :
        heap[id].type \in {"function", "closure"} => Accepted(heap[id].fn)
  BY <1>1 DEF Trusted
<1> QED BY <1>4, <1>5 DEF Trusted

Sound == TypeOK /\ Running /\ Trusted /\ FramesTile

(* What the map says of the current instruction. *)
LEMMA TopMapped ==
  ASSUME Sound
  PROVE  /\ Tiles(heap, frames, sp)
         /\ AtInst /\ Current \in Inst
         /\ Height(Top) = HeightOf(heap, Top) /\ Height(Top) \in Nat
         /\ sp = Top.base + Fn(Top).num_locals + Height(Top)
         /\ Needs(Current) <= Height(Top)
         /\ Current.op # "bang"
         /\ Current.op \in {"get_local", "set_local"} =>
              Current.a < Fn(Top).num_locals
         /\ \A q \in Follow(Fn(Top).insts, Top.ip) :
              q \in DOMAIN StackMapOf(Fn(Top)) /\ q \in Nat
              /\ StackMapOf(Fn(Top))[q] = Height(Top) + Gain(Current)
         /\ Len(frames) = 1 => Current.op \notin Returns
<1> DEFINE f == Fn(Top)
           d == StackMapOf(f)
<1>1. Tiles(heap, frames, sp)
  BY TilesDef DEF Sound
<1>2. Len(frames) \in 1..Len(frames) /\ Top = frames[Len(frames)] /\ Top \in FrameType
  <2>1. \A n \in Nat : n >= 1 => n \in 1..n
    OBVIOUS
  <2> QED BY <2>1, TopFacts DEF Top, Sound
<1>3. WellMapped(f, d)
  <2>1. Top.cl \in 1..Len(heap) /\ heap[Top.cl].type = "closure"
    BY TopFacts DEF Sound, FrameType, ClosureObject
  <2> QED BY <2>1 DEF Sound, Trusted, Accepted, Fn
<1>4. Top.ip \in DOMAIN d /\ sp = Top.base + f.num_locals + d[Top.ip]
  BY <1>1, <1>2 DEF Tiles, EndOf, HeightOf, MapOf, Fn
<1>5. Height(Top) = d[Top.ip] /\ Height(Top) = HeightOf(heap, Top)
  BY DEF Height, HeightOf, MapOf, Fn
<1>6. Len(frames) = 1 => Current.op \notin Returns
  <2>1. Len(frames) = 1 => Top = frames[1]
    BY DEF Top
  <2> QED BY <1>4, <2>1 DEF Sound, Trusted, AcceptedMain, Current
<1> HIDE DEF f, d
<1>7. /\ AtInst /\ d[Top.ip] \in Nat
      /\ Needs(Current) <= d[Top.ip]
      /\ Current.op # "bang"
      /\ Current.op \in {"get_local", "set_local"} => Current.a < f.num_locals
      /\ \A q \in Follow(f.insts, Top.ip) :
           q \in DOMAIN d /\ q \in Nat /\ d[q] = d[Top.ip] + Gain(Current)
  BY <1>3, <1>4 DEF WellMapped, AtInst, Current, f
<1>8. Current \in Inst
  BY <1>7, TopFacts DEF Sound
<1> QED BY <1>1, <1>4, <1>5, <1>6, <1>7, <1>8 DEF f, d

(* The handlers find what they pop. *)
LEMMA NotShort ==
  ASSUME Sound
  PROVE  AtInst /\ ~Short
<1>1. /\ sp \in Nat /\ Top.base \in Nat /\ Fn(Top).num_locals \in Nat
      /\ Height(Top) \in Nat /\ sp = Top.base + Fn(Top).num_locals + Height(Top)
      /\ Needs(Current) <= Height(Top) /\ Needs(Current) \in Nat
  BY TopMapped, TopFacts, InstFacts DEF Sound, TypeOK, FrameType, FunctionType
<1>2. ~(sp < Needs(Current))
  BY <1>1
<1>3. ~(Current.op \in Returns /\ Len(frames) = 1)
  BY TopMapped
<1> QED BY <1>2, <1>3, TopMapped DEF Short

(* The last frame moves to an offset the map has a height for. *)
LEMMA MoveSound ==
  ASSUME Sound, HeapGrows, NEW q \in Follow(Fn(Top).insts, Top.ip),
         GoTo(q), sp' = sp + Gain(Current)
  PROVE  FramesTile'
<1> DEFINE k == Len(frames)
           fs2 == [frames EXCEPT ![Len(frames)].ip = q]
<1>1. k \in Nat /\ k >= 1 /\ k \in 1..k
  <2>1. \A n \in Nat : n >= 1 => n \in 1..n
    OBVIOUS
  <2> QED BY <2>1, TopFacts DEF Sound
<1>2. /\ frames \in Seq(FrameType) /\ Top = frames[k] /\ Top \in FrameType
      /\ TypeOK /\ Tiles(heap, frames, sp)
  BY TopFacts, TopMapped DEF Sound, TypeOK, FramesOK, Top
<1>3. frames' = fs2
  BY DEF GoTo
<1>4. /\ Len(fs2) = k
      /\ \A n \in 1..k - 1 : fs2[n] = frames[n]
      /\ fs2[k] = [Top EXCEPT !.ip = q]
  BY <1>1, <1>2
<1>5. fs2[k].cl = Top.cl /\ fs2[k].base = Top.base /\ fs2[k].ip = q
  BY <1>2, <1>4 DEF FrameType
<1> HIDE DEF k, fs2
<1>6. \A n \in 1..k : heap'[frames[n].cl] = heap[frames[n].cl]
  BY <1>2, FrameFacts DEF FrameType, HeapGrows, k
<1>7. heap'[fs2[k].cl].fn = Fn(Top)
  BY <1>1, <1>2, <1>5, <1>6 DEF Fn
<1>8. /\ fs2[k].ip \in DOMAIN MapOf(heap', fs2[k])
      /\ HeightOf(heap', fs2[k]) = Height(Top) + Gain(Current)
  BY <1>5, <1>7, TopMapped DEF MapOf, HeightOf
<1>9. sp' = EndOf(heap', fs2[k])
  <2>1. /\ Top.base \in Nat /\ Fn(Top).num_locals \in Nat
        /\ Height(Top) \in Nat /\ Gain(Current) \in Int
    BY <1>2, TopMapped, TopFacts, InstFacts DEF FrameType, FunctionType
  <2>2. sp = Top.base + Fn(Top).num_locals + Height(Top)
    BY TopMapped
  <2> QED BY <1>5, <1>7, <1>8, <2>1, <2>2 DEF EndOf
<1>10. Tiles(heap', fs2, sp')
  BY <1>1, <1>2, <1>4, <1>5, <1>6, <1>8, <1>9, TilesMove, Zenon DEF k
<1> QED BY <1>3, <1>10 DEF FramesTile, Tiles, EndOf, HeightOf, MapOf, Ends, Height, Fn, Top

(* The opcodes whose handlers only step to the next instruction. *)
Straight == Loads \cup Binary \cup {"set_global", "set_local", "closure", "pop"}

LEMMA StepSound ==
  ASSUME Sound, HeapGrows, Current.op \in Straight, Step,
         sp' = sp + Gain(Current)
  PROVE  FramesTile'
<1>1. Top.ip + InstLen(Current.op) \in Follow(Fn(Top).insts, Top.ip)
  BY DEF Straight, Follow, Current, Returns, Unhandled, Loads,
         Binary, Arith, Logic, Equality, Compare
<1> QED BY <1>1, MoveSound DEF Step

LEMMA GrowsFacts ==
  ASSUME Sound
  PROVE  /\ heap' = heap => HeapGrows
         /\ \A o : heap' = Append(heap, o) => HeapGrows
<1>1. heap \in Seq(ObjectType) /\ Len(heap) \in Nat
  BY DEF Sound, TypeOK, HeapOK
<1> QED BY <1>1 DEF HeapGrows

LEMMA StraightSound ==
  ASSUME Sound,
         \/ TARGET_CONST \/ TARGET_TRUE \/ TARGET_FALSE \/ TARGET_NULL
         \/ TARGET_CURRENT_CLOSURE
         \/ TARGET_GET_GLOBAL \/ TARGET_GET_LOCAL \/ TARGET_GET_FREE
         \/ TARGET_SET_GLOBAL \/ TARGET_SET_LOCAL
         \/ TARGET_ARITH \/ TARGET_BOOLEAN \/ TARGET_CLOSURE \/ TARGET_POP
  PROVE  FramesTile' /\ HeapGrows
<1>1. sp \in Nat /\ Current \in Inst /\ Current.b \in Nat
  BY TopMapped, InstFacts DEF Sound, TypeOK
<1>2. CASE \/ TARGET_CONST \/ TARGET_TRUE \/ TARGET_FALSE \/ TARGET_NULL
           \/ TARGET_CURRENT_CLOSURE
           \/ TARGET_GET_GLOBAL \/ TARGET_GET_LOCAL \/ TARGET_GET_FREE
  <2>1. Current.op \in Loads
    BY <1>2 DEF TARGET_CONST, TARGET_TRUE, TARGET_FALSE, TARGET_NULL,
                TARGET_CURRENT_CLOSURE, TARGET_GET_GLOBAL, TARGET_GET_LOCAL,
                TARGET_GET_FREE, At, Loads
  <2>2. \E id : Load(id)
    BY <1>2 DEF TARGET_CONST, TARGET_TRUE, TARGET_FALSE, TARGET_NULL,
                TARGET_CURRENT_CLOSURE, TARGET_GET_GLOBAL, TARGET_GET_LOCAL,
                TARGET_GET_FREE
  <2>3. sp' = sp - 0 + 1 /\ Step /\ heap' = heap
    BY <2>2 DEF Load, Leave
  <2>4. Gain(Current) = 1
    BY <2>1 DEF Gain, Loads, Binary, Arith, Logic, Equality, Compare
  <2> QED BY <1>1, <2>1, <2>3, <2>4, StepSound, GrowsFacts DEF Straight
<1>3. CASE TARGET_SET_GLOBAL \/ TARGET_SET_LOCAL
  <2>1. Current.op \in {"set_global", "set_local"} /\ sp' = sp /\ Step /\ heap' = heap
    BY <1>3 DEF TARGET_SET_GLOBAL, TARGET_SET_LOCAL, At
  <2>2. Gain(Current) = 0
    BY <2>1 DEF Gain, Loads, Binary, Arith, Logic, Equality, Compare
  <2> QED BY <1>1, <2>1, <2>2, StepSound, GrowsFacts DEF Straight
<1>4. CASE TARGET_ARITH \/ TARGET_BOOLEAN
  <2>1. /\ Current.op \in Binary /\ Step
        /\ \E id : Leave(2, id)
        /\ heap' = heap \/ \E o : heap' = Append(heap, o)
    BY <1>4 DEF TARGET_ARITH, TARGET_BOOLEAN, At, Binary
  <2>2. Gain(Current) = -1
    BY <2>1 DEF Gain, Loads, Binary, Arith, Logic, Equality, Compare
  <2>3. sp' = sp - 2 + 1
    BY <2>1 DEF Leave
  <2> QED BY <1>1, <2>1, <2>2, <2>3, StepSound, GrowsFacts DEF Straight
<1>5. CASE TARGET_CLOSURE
  <2>1. /\ Current.op = "closure" /\ Step
        /\ sp' = sp - Current.b + 1
        /\ \E o : heap' = Append(heap, o)
    BY <1>5 DEF TARGET_CLOSURE, At, Leave
  <2>2. Gain(Current) = 1 - Current.b
    BY <2>1 DEF Gain, Loads, Binary, Arith, Logic, Equality, Compare
  <2> QED BY <1>1, <2>1, <2>2, StepSound, GrowsFacts DEF Straight
<1>6. CASE TARGET_POP
  <2>1. Current.op = "pop" /\ Step /\ sp' = sp - 1 /\ heap' = heap
    BY <1>6 DEF TARGET_POP, At
  <2>2. Gain(Current) = -1
    BY <2>1 DEF Gain, Loads, Binary, Arith, Logic, Equality, Compare
  <2> QED BY <1>1, <2>1, <2>2, StepSound, GrowsFacts DEF Straight
<1> QED BY <1>2, <1>3, <1>4, <1>5, <1>6

LEMMA JumpSound ==
  ASSUME Sound, TARGET_JUMP \/ TARGET_JUMP_NOT_TRUTHY
  PROVE  FramesTile' /\ HeapGrows
<1>1. sp \in Nat /\ heap' = heap
  BY DEF TARGET_JUMP, TARGET_JUMP_NOT_TRUTHY, Sound, TypeOK
<1>2. CASE TARGET_JUMP
  <2>1. Current.op = "jump" /\ GoTo(Current.a) /\ sp' = sp
    BY <1>2 DEF TARGET_JUMP, At
  <2>2. Current.a \in Follow(Fn(Top).insts, Top.ip)
    BY <2>1 DEF Follow, Current, Returns, Unhandled
  <2>3. Gain(Current) = 0
    BY <2>1 DEF Gain, Loads, Binary, Arith, Logic, Equality, Compare
  <2> QED BY <1>1, <2>1, <2>2, <2>3, MoveSound, GrowsFacts
<1>3. CASE TARGET_JUMP_NOT_TRUTHY
  <2>1. /\ Current.op = "jump_not_truthy" /\ sp' = sp - 1
        /\ GoTo(Current.a) \/ GoTo(Top.ip + InstLen(Current.op))
    BY <1>3 DEF TARGET_JUMP_NOT_TRUTHY, At, Step
  <2>2. {Current.a, Top.ip + InstLen(Current.op)} \subseteq Follow(Fn(Top).insts, Top.ip)
    BY <2>1 DEF Follow, Current, Returns, Unhandled
  <2>3. Gain(Current) = -1
    BY <2>1 DEF Gain, Loads, Binary, Arith, Logic, Equality, Compare
  <2> QED BY <1>1, <2>1, <2>2, <2>3, MoveSound, GrowsFacts
<1> QED BY <1>2, <1>3

(* The caller's height after the call is its height less the arguments:    *)
(* its operands end where the callee's frame begins.                       *)
LEMMA CallSound ==
  ASSUME Sound, TARGET_CALL
  PROVE  FramesTile' /\ HeapGrows
<1> DEFINE k    == Len(frames)
           q    == Top.ip + InstLen("call")
           back == [frames EXCEPT ![Len(frames)].ip = @ + InstLen("call")]
           new  == new_frame(Callee, sp - Current.a)
<1>1. k \in Nat /\ k >= 1 /\ k \in 1..k
  <2>1. \A n \in Nat : n >= 1 => n \in 1..n
    OBVIOUS
  <2> QED BY <2>1, TopFacts DEF Sound
<1>2. /\ frames \in Seq(FrameType) /\ Top = frames[k] /\ Top \in FrameType
      /\ TypeOK /\ Tiles(heap, frames, sp)
  BY TopFacts, TopMapped DEF Sound, TypeOK, FramesOK, Top
<1>3. /\ Current.op = "call" /\ Current.a \in Nat /\ sp \in Nat
      /\ Callee \in 1..Len(heap) /\ heap[Callee].type = "closure"
      /\ heap[Callee].fn \in FunctionType
  BY <1>2, CallFacts DEF ClosureObject, TypeOK
<1>4. /\ heap' = heap /\ frames' = Append(back, new)
      /\ sp' = sp - Current.a + heap[Callee].fn.num_locals
  BY DEF TARGET_CALL
<1>5. /\ Len(back) = k
      /\ \A n \in 1..k - 1 : back[n] = frames[n]
      /\ back[k].cl = Top.cl /\ back[k].base = Top.base /\ back[k].ip = q
      /\ back \in Seq(FrameType)
  <2>1. back[k] = [Top EXCEPT !.ip = q]
    BY <1>1, <1>2
  <2>2. InstLen("call") = 2
    BY DEF InstLen, Wide, Narrow
  <2>3. [Top EXCEPT !.ip = q] \in FrameType
    <3>1. q \in Nat
      BY <1>2, <2>2 DEF FrameType
    <3> HIDE DEF q
    <3> QED BY <1>2, <3>1 DEF FrameType
  <2>4. back = [frames EXCEPT ![k] = [Top EXCEPT !.ip = q]]
    BY <1>1, <1>2
  <2> HIDE DEF back, q
  <2>5. back \in Seq(FrameType) /\ Len(back) = k /\ \A n \in 1..k - 1 : back[n] = frames[n]
    BY <1>1, <1>2, <2>3, <2>4
  <2> QED BY <1>2, <2>1, <2>5 DEF FrameType
<1>6. /\ q \in DOMAIN StackMapOf(Fn(Top))
      /\ StackMapOf(Fn(Top))[q] = Height(Top) - Current.a
  <2>1. q \in Follow(Fn(Top).insts, Top.ip)
    BY <1>3 DEF Follow, Current, Returns, Unhandled
  <2>2. Gain(Current) = -Current.a
    BY <1>3 DEF Gain, Loads, Binary, Arith, Logic, Equality, Compare
  <2> HIDE DEF q
  <2> QED BY <1>3, <2>1, <2>2, TopMapped
<1>7. /\ Height(Top) \in Nat /\ Current.a + 1 <= Height(Top)
      /\ Top.base \in Nat /\ Fn(Top).num_locals \in Nat
      /\ sp = Top.base + Fn(Top).num_locals + Height(Top)
  <2>1. Needs(Current) = Current.a + 1
    BY <1>3 DEF Needs, Binary, Arith, Logic, Equality, Compare
  <2> QED BY <1>2, <2>1, TopMapped, TopFacts DEF FrameType, FunctionType
<1>8. new.cl = Callee /\ new.base = sp - Current.a /\ new.ip = 0
  BY DEF new_frame
<1> HIDE DEF k, q, back, new
<1>9. HeightOf(heap, back[k]) = Height(Top) - Current.a
  BY <1>5, <1>6 DEF HeightOf, MapOf, Fn
<1>10. sp - Current.a = EndOf(heap, back[k])
  BY <1>3, <1>5, <1>7, <1>9 DEF EndOf, Fn
<1>11. Tiles(heap, back, sp - Current.a)
  <2>1. back[k].ip \in DOMAIN MapOf(heap, back[k])
    BY <1>5, <1>6 DEF MapOf, Fn
  <2>2. back[k].cl = frames[k].cl /\ back[k].base = frames[k].base
    BY <1>2, <1>5
  <2>3. /\ Len(frames) = k /\ Len(back) = k /\ Tiles(heap, frames, sp)
        /\ \A n \in 1..k : heap[frames[n].cl] = heap[frames[n].cl]
        /\ \A n \in 1..k - 1 : back[n] = frames[n]
    BY <1>2, <1>5 DEF k
  <2> QED BY <1>1, <1>10, <2>1, <2>2, <2>3, TilesMove
<1>12. WellMapped(heap[Callee].fn, StackMapOf(heap[Callee].fn))
  BY <1>3 DEF Sound, Trusted, Accepted
<1>13. /\ new.ip \in DOMAIN MapOf(heap, new)
       /\ HeightOf(heap, new) = 0
  BY <1>8, <1>12 DEF WellMapped, MapOf, HeightOf
<1>14. sp' = EndOf(heap, new)
  BY <1>3, <1>4, <1>7, <1>8, <1>13 DEF EndOf, FunctionType
<1>15. /\ Len(frames') = k + 1
       /\ \A n \in 1..k : frames'[n] = back[n]
       /\ frames'[k + 1] = new
  BY <1>1, <1>4, <1>5
<1>16. HeightOf(heap, back[k]) >= 1
  BY <1>3, <1>7, <1>9
<1>17. Tiles(heap, frames', sp')
  <2>1. /\ frames'[k + 1].base = sp - Current.a
        /\ frames'[k + 1].ip \in DOMAIN MapOf(heap, frames'[k + 1])
        /\ sp' = EndOf(heap, frames'[k + 1])
    BY <1>8, <1>13, <1>14, <1>15
  <2>2. /\ Len(back) = k /\ Len(frames') = k + 1
        /\ \A n \in 1..k : frames'[n] = back[n]
    BY <1>5, <1>15
  <2> QED BY <1>1, <1>11, <1>16, <2>1, <2>2, TilesPush
<1>18. HeapGrows
  BY <1>4, GrowsFacts
<1> QED BY <1>4, <1>17, <1>18
        DEF FramesTile, Tiles, EndOf, HeightOf, MapOf, Ends, Height, Fn, Top

LEMMA ReturnSound ==
  ASSUME Sound, TARGET_RETURN \/ TARGET_RETURN_VALUE
  PROVE  FramesTile' /\ HeapGrows
<1> DEFINE k == Len(frames)
<1>1. /\ frames' = SubSeq(frames, 1, Len(frames) - 1)
      /\ sp' = Top.base /\ heap' = heap
  BY DEF TARGET_RETURN, TARGET_RETURN_VALUE, ReturnWith
<1>2. k \in Nat /\ k > 1
  BY TopFacts, ReadyFacts DEF Sound, TARGET_RETURN, TARGET_RETURN_VALUE, At, Returns
<1>3. /\ frames \in Seq(FrameType) /\ Top = frames[k]
      /\ Tiles(heap, frames, sp)
  BY TopMapped DEF Sound, TypeOK, FramesOK, Top
<1>4. Len(frames') = k - 1 /\ \A n \in 1..k - 1 : frames'[n] = frames[n]
  BY <1>1, <1>2, <1>3
<1>5. sp' = frames[k].base
  BY <1>1, <1>3
<1> HIDE DEF k
<1>6. Tiles(heap, frames', sp')
  <2>1. Len(frames) = k /\ Tiles(heap, frames, sp)
    BY <1>3 DEF k
  <2> QED BY <1>2, <1>4, <1>5, <2>1, TilesPop
<1>7. HeapGrows
  BY <1>1, GrowsFacts
<1> QED BY <1>1, <1>6, <1>7
        DEF FramesTile, Tiles, EndOf, HeightOf, MapOf, Ends, Height, Fn, Top

LEMMA StartTiles ==
  ASSUME Starting
  PROVE  FramesTile
<1> SUFFICES ASSUME Trusted PROVE Tiles(heap, frames, sp)
  BY TilesDef
<1>1. TypeOK /\ sp = 0
  BY StartOK DEF Starting
<1>2. PICK fr : frames = <<fr>> /\ fr.ip = 0 /\ fr.base = 0
  BY DEF Starting, new_frame
<1>3. Len(frames) = 1 /\ frames[1] = fr /\ heap[fr.cl].fn = Fn(frames[1])
  BY <1>2 DEF Fn
<1>4. heap[fr.cl].fn.num_locals = 0 /\ WellMapped(heap[fr.cl].fn, MapOf(heap, fr))
  BY <1>3 DEF Trusted, AcceptedMain, Accepted, MapOf
<1>5. fr.ip \in DOMAIN MapOf(heap, fr) /\ HeightOf(heap, fr) = 0
  BY <1>2, <1>4 DEF WellMapped, HeightOf
<1>6. EndOf(heap, fr) = 0
  BY <1>2, <1>4, <1>5 DEF EndOf
<1> QED BY <1>1, <1>2, <1>3, <1>5, <1>6 DEF Tiles

(* A step of the machine, sorted by what it does to the frames. *)
LEMMA RunningStep ==
  ASSUME Sound, vm_run
  PROVE  \/ FramesTile' /\ HeapGrows /\ status' = status
         \/ Stops /\ ~Underflow /\ ~BadCode
<1>1. ~TARGET_BANG
  BY TopMapped DEF TARGET_BANG, At
<1>2. ~Underflow /\ ~BadCode
  BY NotShort DEF Underflow, BadCode
<1>3. CASE \/ TARGET_CONST \/ TARGET_TRUE \/ TARGET_FALSE \/ TARGET_NULL
           \/ TARGET_CURRENT_CLOSURE
           \/ TARGET_GET_GLOBAL \/ TARGET_GET_LOCAL \/ TARGET_GET_FREE
           \/ TARGET_SET_GLOBAL \/ TARGET_SET_LOCAL
           \/ TARGET_ARITH \/ TARGET_BOOLEAN \/ TARGET_CLOSURE \/ TARGET_POP
  <2>1. status' = status
    BY <1>3 DEF TARGET_CONST, TARGET_TRUE, TARGET_FALSE, TARGET_NULL,
                TARGET_CURRENT_CLOSURE, TARGET_GET_GLOBAL, TARGET_GET_LOCAL,
                TARGET_GET_FREE, TARGET_SET_GLOBAL, TARGET_SET_LOCAL,
                TARGET_ARITH, TARGET_BOOLEAN, TARGET_CLOSURE, TARGET_POP, Load
  <2> QED BY <1>3, <2>1, StraightSound
<1>4. CASE TARGET_JUMP \/ TARGET_JUMP_NOT_TRUTHY
  BY <1>4, JumpSound DEF TARGET_JUMP, TARGET_JUMP_NOT_TRUTHY
<1>5. CASE TARGET_CALL
  BY <1>5, CallSound DEF TARGET_CALL
<1>6. CASE TARGET_RETURN \/ TARGET_RETURN_VALUE
  BY <1>6, ReturnSound DEF TARGET_RETURN, TARGET_RETURN_VALUE, ReturnWith
<1>7. CASE Stops
  BY <1>2, <1>7
<1> QED BY <1>1, <1>3, <1>4, <1>5, <1>6, <1>7 DEF vm_run, Stops

(* What one step needs and keeps. *)
SoundInv == TypeOK /\ FramesTile /\ NeverUnderflows

(* The heap grows, and main's closure stays that of the bottom frame. *)
LEMMA BottomStays ==
  ASSUME TypeOK, [VMNext]_machineVars
  PROVE  HeapGrows /\ frames'[1].cl = frames[1].cl
<1>1. /\ heap \in Seq(ObjectType) /\ Len(heap) \in Nat
      /\ frames \in Seq(FrameType) /\ Len(frames) \in Nat /\ Len(frames) >= 1
      /\ 1 \in 1..Len(frames)
  <2>1. \A n \in Nat : n >= 1 => 1 \in 1..n
    OBVIOUS
  <2> QED BY <2>1, TopFacts DEF TypeOK, HeapOK, FramesOK
<1>2. HeapGrows
  <2>1. heap' = heap \/ \E o : heap' = Append(heap, o)
    BY DEF VMNext, vm_run, Done, machineVars, objVars, vmVars, Load, ReturnWith, Stop,
           TARGET_CONST, TARGET_TRUE, TARGET_FALSE, TARGET_NULL,
           TARGET_CURRENT_CLOSURE, TARGET_GET_GLOBAL, TARGET_GET_LOCAL,
           TARGET_GET_FREE, TARGET_SET_GLOBAL, TARGET_SET_LOCAL, TARGET_ARITH,
           TARGET_BOOLEAN, TARGET_BANG, TARGET_CLOSURE, TARGET_CALL,
           TARGET_RETURN, TARGET_RETURN_VALUE, TARGET_JUMP,
           TARGET_JUMP_NOT_TRUTHY, TARGET_POP, TARGET_HALT, UNHANDLED,
           Underflow, Overflow, BadCode, Fault, Exit
  <2> QED BY <1>1, <2>1 DEF HeapGrows
<1>3. ASSUME NEW p, GoTo(p) PROVE frames'[1].cl = frames[1].cl
  <2>1. frames' = [frames EXCEPT ![Len(frames)] = [Top EXCEPT !.ip = p]]
    BY <1>1, <1>3 DEF GoTo, Top
  <2>2. [Top EXCEPT !.ip = p].cl = Top.cl
    BY TopFacts DEF FrameType
  <2>3. frames'[1] = IF Len(frames) = 1 THEN [Top EXCEPT !.ip = p] ELSE frames[1]
    BY <1>1, <2>1
  <2>4. frames'[1].cl = frames[1].cl
    BY <2>2, <2>3 DEF Top
  <2> QED BY <2>4
<1>4. CASE TARGET_CALL
  <2> DEFINE back == [frames EXCEPT ![Len(frames)].ip = @ + InstLen("call")]
             new  == new_frame(Callee, sp - Current.a)
             top  == [Top EXCEPT !.ip = Top.ip + InstLen("call")]
  <2>1. back = [frames EXCEPT ![Len(frames)] = top] /\ top.cl = Top.cl /\ top \in FrameType
    <3>1. InstLen("call") = 2
      BY DEF InstLen, Wide, Narrow
    <3>2. Top.ip + InstLen("call") \in Nat
      BY <3>1, TopFacts DEF FrameType
    <3>3. top.cl = Top.cl /\ top \in FrameType
      BY <3>2, TopFacts DEF FrameType
    <3>4. back = [frames EXCEPT ![Len(frames)] = top]
      BY <1>1 DEF Top
    <3> QED BY <3>3, <3>4
  <2>2. frames' = Append(back, new)
    BY <1>4 DEF TARGET_CALL
  <2> HIDE DEF back, new, top
  <2>3. back \in Seq(FrameType) /\ Len(back) = Len(frames)
    BY <1>1, <2>1
  <2>4. frames'[1] = back[1]
    BY <1>1, <2>2, <2>3
  <2>5. back[1] = IF Len(frames) = 1 THEN top ELSE frames[1]
    BY <1>1, <2>1
  <2>6. back[1].cl = frames[1].cl
    BY <2>1, <2>5 DEF Top
  <2> QED BY <1>2, <2>4, <2>6
<1>5. CASE TARGET_RETURN \/ TARGET_RETURN_VALUE
  <2>1. frames' = SubSeq(frames, 1, Len(frames) - 1)
    BY <1>5 DEF TARGET_RETURN, TARGET_RETURN_VALUE, ReturnWith
  <2>2. Len(frames) > 1
    BY <1>5, ReadyFacts DEF TARGET_RETURN, TARGET_RETURN_VALUE, At, Returns
  <2>3. frames'[1] = frames[1]
    BY <1>1, <2>1, <2>2
  <2> QED BY <1>2, <2>3
<1>6. \/ \E p : GoTo(p)
      \/ TARGET_CALL \/ TARGET_RETURN \/ TARGET_RETURN_VALUE
      \/ frames' = frames
  BY DEF VMNext, vm_run, Done, machineVars, vmVars, Load, Step, Stop,
         TARGET_CONST, TARGET_TRUE, TARGET_FALSE, TARGET_NULL,
         TARGET_CURRENT_CLOSURE, TARGET_GET_GLOBAL, TARGET_GET_LOCAL,
         TARGET_GET_FREE, TARGET_SET_GLOBAL, TARGET_SET_LOCAL, TARGET_ARITH,
         TARGET_BOOLEAN, TARGET_BANG, TARGET_CLOSURE, TARGET_JUMP,
         TARGET_JUMP_NOT_TRUTHY, TARGET_POP, TARGET_HALT, UNHANDLED,
         Underflow, Overflow, BadCode, Fault, Exit
<1> QED BY <1>2, <1>3, <1>4, <1>5, <1>6

LEMMA SoundStep ==
  ASSUME SoundInv, [VMNext]_machineVars
  PROVE  FramesTile' /\ NeverUnderflows'
<1> SUFFICES ASSUME Trusted' PROVE FramesTile' /\ NeverUnderflows'
  BY DEF FramesTile, NeverUnderflows
<1>1. HeapGrows /\ frames'[1].cl = frames[1].cl
  BY BottomStays DEF SoundInv
<1>2. Trusted
  BY <1>1, TrustKept DEF SoundInv
<1>3. CASE vm_run
  <2>1. Running
    BY <1>3 DEF vm_run, At, Ready, Underflow, Overflow, BadCode, Fault, Exit,
           TARGET_CONST, TARGET_TRUE, TARGET_FALSE, TARGET_NULL,
           TARGET_CURRENT_CLOSURE, TARGET_GET_GLOBAL, TARGET_GET_LOCAL,
           TARGET_GET_FREE, TARGET_SET_GLOBAL, TARGET_SET_LOCAL, TARGET_ARITH,
           TARGET_BOOLEAN, TARGET_BANG, TARGET_CLOSURE, TARGET_CALL,
           TARGET_RETURN, TARGET_RETURN_VALUE, TARGET_JUMP,
           TARGET_JUMP_NOT_TRUTHY, TARGET_POP, TARGET_HALT, UNHANDLED
  <2>2. Sound
    BY <1>2, <2>1 DEF Sound, SoundInv
  <2>3. CASE FramesTile' /\ HeapGrows /\ status' = status
    BY <2>1, <2>3 DEF NeverUnderflows, Running
  <2>4. CASE Stops /\ ~Underflow /\ ~BadCode
    <3>1. status' \in {"halted", "unhandled", "overflow", "fault", "exited"}
      BY <2>4 DEF Stops, TARGET_HALT, UNHANDLED, Overflow, Fault, Exit, Stop
    <3> QED BY <3>1 DEF FramesTile, NeverUnderflows, Running
  <2> QED BY <1>3, <2>2, <2>3, <2>4, RunningStep
<1>4. CASE Done \/ UNCHANGED machineVars
  <2>1. UNCHANGED <<heap, frames, sp, status>>
    BY <1>4 DEF Done, machineVars, objVars, vmVars
  <2>2. FramesTile'
    BY <2>1 DEF SoundInv, FramesTile, Trusted, Running, Top, Ends, Height, Fn
  <2>3. NeverUnderflows'
    BY <1>2, <2>1 DEF SoundInv, NeverUnderflows
  <2> QED BY <2>2, <2>3
<1> QED BY <1>3, <1>4 DEF VMNext

LEMMA StartSound == Starting => SoundInv
<1> SUFFICES ASSUME Starting PROVE SoundInv
  OBVIOUS
<1>1. status = "running"
  BY DEF Starting
<1> QED BY <1>1, StartOK, StartTiles DEF SoundInv, NeverUnderflows

(* On code that keeps the promise the frames tile the stack in every state *)
(* and no handler ever pops from below it or leaves its chunk.             *)
THEOREM StackMapSound == VMSpec => []FramesTile /\ []NeverUnderflows
<1>1. VMInit => SoundInv
  BY InitStarts, StartSound
<1>2. TypeOK /\ TypeOK' /\ SoundInv /\ [VMNext]_machineVars => SoundInv'
  BY SoundStep DEF SoundInv
<1>3. SoundInv => FramesTile /\ NeverUnderflows
  BY DEF SoundInv
<1> QED BY <1>1, <1>2, <1>3, TypeCorrect, PTL DEF VMSpec

(* No handler of vm_run looks at sp before it pops, nor at ip before it    *)
(* dispatches: on code that keeps the promise none of them needs to.       *)
THEOREM NoCheckIsMissed == VMSpec => []NeverUnderflows
  BY StackMapSound, PTL

-----------------------------------------------------------------------------
(***************************************************************************)
(* What a step writes.                                                     *)
(***************************************************************************)
LEMMA OperandsAboveBase ==
  ASSUME Sound
  PROVE  /\ Top.base \in Nat /\ sp \in Nat
         /\ \A taken \in Nat : taken <= Needs(Current) => Top.base <= sp - taken
         /\ Current \in Inst
<1>1. /\ Top.base \in Nat /\ Fn(Top).num_locals \in Nat /\ sp \in Nat
      /\ Height(Top) \in Nat /\ Needs(Current) <= Height(Top)
      /\ sp = Top.base + Fn(Top).num_locals + Height(Top)
      /\ Needs(Current) \in Nat /\ Current \in Inst
  BY TopMapped, TopFacts, InstFacts DEF Sound, TypeOK, FrameType, FunctionType
<1> QED BY <1>1

(* The locals and operands of the callers survive whatever the callee does *)
(* on the part of the stack that is its own.                               *)
THEOREM CallersKeepTheirs == VMSpec => CallersUntouched
<1>1. TypeOK /\ FramesTile /\ [VMNext]_machineVars =>
        [Trusted => \A i \in Slots :
           i < Top.base /\ stack'[i] # stack[i] =>
             i = Top.base - 1 /\ Len(frames') = Len(frames) - 1]_machineVars
  <2> SUFFICES ASSUME TypeOK, FramesTile, VMNext, Trusted,
                      NEW i \in Slots, i < Top.base, stack'[i] # stack[i]
               PROVE  i = Top.base - 1 /\ Len(frames') = Len(frames) - 1
    OBVIOUS
  <2>1. CASE UNCHANGED stack
    BY <2>1
  <2>2. CASE TARGET_SET_LOCAL
    <3>1. Sound /\ stack' = [stack EXCEPT ![Top.base + Current.a] = Right]
      BY <2>2 DEF Sound, TARGET_SET_LOCAL, At, Ready
    <3>2. Top.base \in Nat /\ Current.a \in Nat
      BY <3>1, OperandsAboveBase, InstFacts
    <3>3. i # Top.base + Current.a
      BY <3>2 DEF Slots
    <3> QED BY <3>1, <3>3 DEF TypeOK, ReferencesOK
  <2>3. CASE \E taken \in Nat : /\ Running /\ taken <= Needs(Current)
                                /\ \E id : Leave(taken, id)
    <3>1. PICK taken \in Nat : /\ Running /\ taken <= Needs(Current)
                              /\ \E id : Leave(taken, id)
      BY <2>3
    <3>2. Top.base <= sp - taken /\ Top.base \in Nat /\ sp \in Nat
      BY <3>1, OperandsAboveBase DEF Sound
    <3>3. i # sp - taken
      BY <3>2 DEF Slots
    <3>4. PICK id : Leave(taken, id)
      BY <3>1
    <3> QED BY <3>3, <3>4 DEF Leave, TypeOK, ReferencesOK
  <2>4. CASE TARGET_RETURN \/ TARGET_RETURN_VALUE
    <3>1. PICK id : ReturnWith(id)
      BY <2>4 DEF TARGET_RETURN, TARGET_RETURN_VALUE
    <3>2. i = Top.base - 1
      BY <3>1 DEF ReturnWith, TypeOK, ReferencesOK
    <3>3. Len(frames) > 1 /\ Len(frames) \in Nat /\ frames \in Seq(FrameType)
      BY <2>4, ReadyFacts, TopFacts
         DEF TARGET_RETURN, TARGET_RETURN_VALUE, At, Returns, TypeOK, FramesOK
    <3>4. Len(frames') = Len(frames) - 1
      BY <3>1, <3>3 DEF ReturnWith
    <3> QED BY <3>2, <3>4
  <2>5. ~TARGET_BANG
    BY TopMapped DEF Sound, TARGET_BANG, At, Ready
  <2>6. CASE \/ TARGET_CONST \/ TARGET_TRUE \/ TARGET_FALSE \/ TARGET_NULL
             \/ TARGET_CURRENT_CLOSURE
             \/ TARGET_GET_GLOBAL \/ TARGET_GET_LOCAL \/ TARGET_GET_FREE
    <3>1. Running /\ \E id : Leave(0, id)
      BY <2>6 DEF TARGET_CONST, TARGET_TRUE, TARGET_FALSE, TARGET_NULL,
                  TARGET_CURRENT_CLOSURE, TARGET_GET_GLOBAL, TARGET_GET_LOCAL,
                  TARGET_GET_FREE, At, Ready, Load
    <3>2. 0 <= Needs(Current)
      BY <3>1, OperandsAboveBase, InstFacts DEF Sound
    <3> QED BY <2>3, <3>1, <3>2
  <2>7. CASE TARGET_ARITH \/ TARGET_BOOLEAN
    <3>1. Running /\ Current.op \in Binary /\ \E id : Leave(2, id)
      BY <2>7 DEF TARGET_ARITH, TARGET_BOOLEAN, At, Ready, Binary
    <3>2. 2 <= Needs(Current)
      BY <3>1 DEF Needs, Binary, Arith, Logic, Equality, Compare
    <3> QED BY <2>3, <3>1, <3>2
  <2>8. CASE TARGET_CLOSURE
    <3>1. Running /\ Current.op = "closure" /\ \E id : Leave(Current.b, id)
      BY <2>8 DEF TARGET_CLOSURE, At, Ready
    <3>2. Needs(Current) = Current.b
      BY <3>1 DEF Needs, Binary, Arith, Logic, Equality, Compare
    <3>3. Current.b \in Nat /\ Current.b <= Needs(Current)
      BY <3>1, <3>2, OperandsAboveBase, InstFacts DEF Sound
    <3> QED BY <2>3, <3>1, <3>3
  <2>9. CASE \/ TARGET_SET_GLOBAL \/ TARGET_CALL \/ TARGET_JUMP
             \/ TARGET_JUMP_NOT_TRUTHY \/ TARGET_POP \/ Stops \/ Done
    <3>1. UNCHANGED stack
      BY <2>9, StopsFacts
         DEF TARGET_SET_GLOBAL, TARGET_CALL, TARGET_JUMP,
             TARGET_JUMP_NOT_TRUTHY, TARGET_POP, Done, machineVars, vmVars
    <3> QED BY <2>1, <3>1
  <2> QED BY <2>2, <2>4, <2>5, <2>6, <2>7, <2>8, <2>9 DEF VMNext, vm_run, Stops
<1> QED BY <1>1, TypeCorrect, StackMapSound, PTL DEF VMSpec, CallersUntouched
-----------------------------------------------------------------------------
(***************************************************************************)
(* The machine implements activations, for every stack size, number of     *)
(* frames, operand width and set of images.                                *)
(*                                                                         *)
(* Activations and the machine share heap and consts; the activations are  *)
(* cut out of the one stack by the frames.  The proof is one lemma for     *)
(* each kind of handler, and all of them rest on the two invariants above: *)
(* TypeOK, and FramesTile, which says where the pieces end.                *)
(***************************************************************************)
(* The mapping of module VM, and its parts over a given stack. *)
Acts == [n \in DOMAIN frames |-> ActivationOf(n)]

Seg(st, from, to) ==
  [i \in 1..to - from |-> IF from + i - 1 \in Slots THEN st[from + i - 1] ELSE NULL]

StackType == [Slots -> Nat]

ActivationType ==
  [cl : Nat, ip : Nat, locals : Seq(Nat), operands : Seq(Nat)]

-----------------------------------------------------------------------------
(***************************************************************************)
(* Pieces of the stack.                                                    *)
(***************************************************************************)
LEMMA SegType ==
  ASSUME NEW st \in StackType, NEW from \in Nat, NEW to \in Nat, from <= to
  PROVE  /\ Seg(st, from, to) \in Seq(Nat)
         /\ Len(Seg(st, from, to)) = to - from
         /\ \A i \in 1..to - from :
              Seg(st, from, to)[i] =
                IF from + i - 1 \in Slots THEN st[from + i - 1] ELSE NULL
<1>1. to - from \in Nat
  OBVIOUS
<1>2. \A i \in 1..to - from :
        (IF from + i - 1 \in Slots THEN st[from + i - 1] ELSE NULL) \in Nat
  BY DEF StackType
<1> QED BY <1>1, <1>2 DEF Seg

LEMMA SegFirst ==
  ASSUME NEW st \in StackType, NEW from \in Nat, NEW to \in Nat, NEW v,
         1 \in 1..to - from, from <= to, from + 1 - 1 = v, v \in Slots
  PROVE  Seg(st, from, to)[1] = st[v]
  BY SegType

(* Two sequences are equal when they are of one length and agree. *)
LEMMA SameSeq ==
  ASSUME NEW S, NEW s \in Seq(S), NEW t \in Seq(S), Len(s) = Len(t),
         \A i \in 1..Len(s) : s[i] = t[i]
  PROVE  s = t
  OBVIOUS

(* A piece depends on its own slots only. *)
LEMMA SegSame ==
  ASSUME NEW st \in StackType, NEW st2 \in StackType,
         NEW from \in Nat, NEW to \in Nat,
         \A i \in Slots : from <= i /\ i < to => st2[i] = st[i]
  PROVE  Seg(st2, from, to) = Seg(st, from, to)
<1>1. ASSUME NEW i \in 1..to - from
      PROVE  (IF from + i - 1 \in Slots THEN st2[from + i - 1] ELSE NULL) =
             (IF from + i - 1 \in Slots THEN st[from + i - 1] ELSE NULL)
  OBVIOUS
<1> QED BY <1>1 DEF Seg

(* Without its n last entries, and those entries. *)
Cuts(s, n, low, high) ==
  SubSeq(s, 1, Len(s) - n) = low /\ SubSeq(s, Len(s) - n + 1, Len(s)) = high

LEMMA SegCut ==
  ASSUME NEW st \in StackType, NEW from \in Nat, NEW to \in Nat, NEW n \in Nat,
         from <= to - n
  PROVE  Cuts(Seg(st, from, to), n, Seg(st, from, to - n), Seg(st, to - n, to))
<1> DEFINE s == Seg(st, from, to)
           low == Seg(st, from, to - n)
           high == Seg(st, to - n, to)
<1>1. /\ from <= to /\ to - n \in Nat /\ to - n <= to /\ to - (to - n) = n
      /\ to - n - from \in Nat /\ to - from \in Nat /\ to - from - n = to - n - from
  OBVIOUS
<1>2. /\ s \in Seq(Nat) /\ Len(s) = to - from
      /\ \A i \in 1..to - from :
           s[i] = IF from + i - 1 \in Slots THEN st[from + i - 1] ELSE NULL
  BY <1>1, SegType
<1>3. /\ low \in Seq(Nat) /\ Len(low) = to - n - from
      /\ \A i \in 1..to - n - from :
           low[i] = IF from + i - 1 \in Slots THEN st[from + i - 1] ELSE NULL
  BY <1>1, SegType
<1>4. /\ high \in Seq(Nat) /\ Len(high) = n
      /\ \A i \in 1..n :
           high[i] = IF to - n + i - 1 \in Slots THEN st[to - n + i - 1] ELSE NULL
  BY <1>1, SegType
<1> HIDE DEF s, low, high
<1>5. SubSeq(s, 1, Len(s) - n) = low
  <2> DEFINE t == SubSeq(s, 1, Len(s) - n)
  <2>1. t \in Seq(Nat) /\ Len(t) = to - n - from /\ \A i \in 1..to - n - from : t[i] = s[i]
    BY <1>1, <1>2
  <2> HIDE DEF t
  <2>2. \A i \in 1..to - n - from : t[i] = low[i]
    BY <1>1, <1>2, <1>3, <2>1
  <2>3. t = low
    BY <1>3, <2>1, <2>2, SameSeq
  <2> QED BY <2>3 DEF t
<1>6. SubSeq(s, Len(s) - n + 1, Len(s)) = high
  <2> DEFINE t == SubSeq(s, Len(s) - n + 1, Len(s))
  <2>1. /\ t \in Seq(Nat) /\ Len(t) = n
        /\ \A i \in 1..n : t[i] = s[to - from - n + i]
    BY <1>1, <1>2
  <2> HIDE DEF t
  <2>2. ASSUME NEW i \in 1..n PROVE t[i] = high[i]
    <3>1. to - from - n + i \in 1..to - from /\ from + (to - from - n + i) - 1 = to - n + i - 1
      BY <1>1
    <3> QED BY <1>2, <1>4, <2>1, <3>1
  <2>3. t = high
    BY <1>4, <2>1, <2>2, SameSeq
  <2> QED BY <2>3 DEF t
<1> QED BY <1>5, <1>6 DEF s, low, high, Cuts

(* With one more entry. *)
LEMMA SegPush ==
  ASSUME NEW st \in StackType, NEW st2 \in StackType,
         NEW from \in Nat, NEW to \in Slots, from <= to,
         \A i \in Slots : from <= i /\ i < to => st2[i] = st[i]
  PROVE  Seg(st2, from, to + 1) = Append(Seg(st, from, to), st2[to])
<1>1. PICK m \in Nat : m = to + 1 /\ to \in Nat /\ from <= m
  BY SizeAssumption DEF Slots
<1>2. PICK n \in Nat : n = to - from /\ m - from = n + 1
  BY <1>1
<1> DEFINE s == Seg(st2, from, m)
           t == Seg(st, from, to)
<1>3. /\ s \in Seq(Nat) /\ Len(s) = n + 1
      /\ \A i \in 1..n + 1 :
           s[i] = IF from + i - 1 \in Slots THEN st2[from + i - 1] ELSE NULL
  <2>1. /\ Seg(st2, from, m) \in Seq(Nat)
        /\ Len(Seg(st2, from, m)) = m - from
        /\ \A i \in 1..m - from :
             Seg(st2, from, m)[i] =
               IF from + i - 1 \in Slots THEN st2[from + i - 1] ELSE NULL
    BY <1>1, SegType
  <2> QED BY <1>2, <2>1
<1>4. t = Seg(st2, from, to)
  BY <1>1, SegSame
<1>5. /\ t \in Seq(Nat) /\ Len(t) = n
      /\ \A i \in 1..n :
           t[i] = IF from + i - 1 \in Slots THEN st2[from + i - 1] ELSE NULL
  BY <1>1, <1>2, <1>4, SegType
<1>6. st2[to] \in Nat /\ from + (n + 1) - 1 = to
  BY <1>1, <1>2 DEF StackType
<1> HIDE DEF s, t
<1> DEFINE u == Append(t, st2[to])
<1>7. u \in Seq(Nat) /\ Len(u) = n + 1
      /\ (\A i \in 1..n : u[i] = t[i]) /\ u[n + 1] = st2[to]
  BY <1>5, <1>6
<1> HIDE DEF u
<1>8. ASSUME NEW i \in 1..n + 1 PROVE s[i] = u[i]
  <2>1. CASE i \in 1..n
    BY <1>3, <1>5, <1>7, <2>1
  <2>2. CASE i = n + 1
    BY <1>3, <1>6, <1>7, <2>2
  <2> QED BY <2>1, <2>2
<1>9. s = u
  BY <1>3, <1>7, <1>8, SameSeq
<1> QED BY <1>1, <1>9 DEF s, t, u

(* With one entry overwritten. *)
LEMMA SegPut ==
  ASSUME NEW st \in StackType, NEW st2 \in StackType,
         NEW from \in Nat, NEW to \in Nat, NEW a \in Nat,
         from <= to, a < to - from, from + a \in Slots,
         \A i \in Slots : i # from + a => st2[i] = st[i]
  PROVE  Seg(st2, from, to) = [Seg(st, from, to) EXCEPT ![a + 1] = st2[from + a]]
<1> DEFINE s == Seg(st2, from, to)
           t == Seg(st, from, to)
<1>1. /\ s \in Seq(Nat) /\ Len(s) = to - from
      /\ \A i \in 1..to - from :
           s[i] = IF from + i - 1 \in Slots THEN st2[from + i - 1] ELSE NULL
  BY SegType
<1>2. /\ t \in Seq(Nat) /\ Len(t) = to - from
      /\ \A i \in 1..to - from :
           t[i] = IF from + i - 1 \in Slots THEN st[from + i - 1] ELSE NULL
  BY SegType
<1>3. st2[from + a] \in Nat /\ a + 1 \in 1..to - from
  BY DEF StackType
<1> HIDE DEF s, t
<1> DEFINE u == [t EXCEPT ![a + 1] = st2[from + a]]
<1>4. /\ u \in Seq(Nat) /\ Len(u) = to - from
      /\ u[a + 1] = st2[from + a]
      /\ \A i \in 1..to - from : i # a + 1 => u[i] = t[i]
  BY <1>2, <1>3
<1> HIDE DEF u
<1>5. ASSUME NEW i \in 1..to - from PROVE s[i] = u[i]
  <2>1. CASE i = a + 1
    <3>1. from + i - 1 = from + a
      BY <2>1
    <3> QED BY <1>1, <1>4, <2>1, <3>1
  <2>2. CASE i # a + 1
    <3>1. from + i - 1 # from + a
      BY <2>2
    <3> QED BY <1>1, <1>2, <1>4, <2>2, <3>1
  <2> QED BY <2>1, <2>2
<1>6. s = u
  BY <1>1, <1>4, <1>5, SameSeq
<1> QED BY <1>6 DEF s, t, u

-----------------------------------------------------------------------------
(***************************************************************************)
(* The activations of a state.                                             *)
(***************************************************************************)
OperandsAt(n) == frames[n].base + Fn(frames[n]).num_locals
EndAt(n)      == IF n < Len(frames) THEN frames[n + 1].base ELSE sp

(* Where the piece of a frame begins, where its locals end, where it ends. *)
LEMMA Layout ==
  ASSUME Sound, NEW n \in 1..Len(frames)
  PROVE  /\ frames[n].cl \in Nat /\ frames[n].ip \in Nat
         /\ frames[n].base \in Nat /\ OperandsAt(n) \in Nat /\ EndAt(n) \in Nat
         /\ frames[n].base <= OperandsAt(n) /\ OperandsAt(n) <= EndAt(n)
         /\ n < Len(frames) => OperandsAt(n) < EndAt(n) /\ EndAt(n) = frames[n + 1].base
<1>1. /\ frames[n] \in FrameType /\ Fn(frames[n]) \in FunctionType
      /\ heap[frames[n].cl] \in ClosureObject /\ frames[n].cl \in 1..Len(heap)
      /\ Len(frames) \in Nat
  BY FrameFacts, TopFacts DEF Sound, FrameType
<1>2. /\ frames[n].base \in Nat /\ frames[n].ip \in Nat /\ frames[n].cl \in Nat
      /\ Fn(frames[n]).num_locals \in Nat
  BY <1>1 DEF FrameType, FunctionType, Sound, TypeOK, HeapOK
<1>3. /\ frames[n].ip \in DOMAIN MapOf(heap, frames[n])
      /\ n < Len(frames) => /\ frames[n + 1].base = EndOf(heap, frames[n])
                            /\ HeightOf(heap, frames[n]) >= 1
      /\ n = Len(frames) => sp = EndOf(heap, frames[n])
  BY <1>1, TopMapped DEF Tiles
<1>4. WellMapped(Fn(frames[n]), MapOf(heap, frames[n]))
  BY <1>1 DEF Sound, Trusted, Accepted, ClosureObject, MapOf, Fn
<1>5. HeightOf(heap, frames[n]) \in Nat
  BY <1>3, <1>4 DEF WellMapped, HeightOf
<1>6. EndOf(heap, frames[n]) = OperandsAt(n) + HeightOf(heap, frames[n])
  BY DEF EndOf, OperandsAt, Fn
<1>7. /\ OperandsAt(n) \in Nat /\ frames[n].base <= OperandsAt(n)
  BY <1>2 DEF OperandsAt
<1>8. EndAt(n) = EndOf(heap, frames[n])
  BY <1>1, <1>3 DEF EndAt
<1> QED BY <1>2, <1>3, <1>5, <1>6, <1>7, <1>8

LEMMA StackNat ==
  ASSUME TypeOK
  PROVE  stack \in StackType
  BY DEF TypeOK, HeapOK, ReferencesOK, StackType, Ids

LEMMA ActivationFacts ==
  ASSUME Sound, NEW n \in 1..Len(frames)
  PROVE  /\ ActivationOf(n) =
              [cl |-> frames[n].cl, ip |-> frames[n].ip,
               locals |-> Seg(stack, frames[n].base, OperandsAt(n)),
               operands |-> Seg(stack, OperandsAt(n), EndAt(n))]
         /\ ActivationOf(n) \in ActivationType
<1>1. ActivationOf(n) =
        [cl |-> frames[n].cl, ip |-> frames[n].ip,
         locals |-> Seg(stack, frames[n].base, OperandsAt(n)),
         operands |-> Seg(stack, OperandsAt(n), EndAt(n))]
  BY DEF ActivationOf, Segment, Seg, OperandsAt, EndAt
<1>2. /\ Seg(stack, frames[n].base, OperandsAt(n)) \in Seq(Nat)
      /\ Seg(stack, OperandsAt(n), EndAt(n)) \in Seq(Nat)
  BY Layout, StackNat, SegType DEF Sound
<1> QED BY <1>1, <1>2, Layout DEF ActivationType

(* A function on a range, as a sequence. *)
LEMMA RangeSeq ==
  ASSUME NEW k \in Nat, NEW S, NEW s,
         DOMAIN s = 1..k, s = [n \in 1..k |-> s[n]], \A n \in 1..k : s[n] \in S
  PROVE  s \in Seq(S) /\ Len(s) = k
<1>1. s \in [1..k -> S]
  OBVIOUS
<1> QED BY <1>1

(* The activations, the current one and the current instruction. *)
LEMMA ActsFacts ==
  ASSUME Sound
  PROVE  /\ Len(frames) \in Nat /\ Len(frames) >= 1
         /\ Acts \in Seq(ActivationType) /\ Len(Acts) = Len(frames)
         /\ \A n \in 1..Len(frames) : Acts[n] = ActivationOf(n)
         /\ A!Active = ActivationOf(Len(frames))
         /\ A!Active.cl = Top.cl /\ A!Active.ip = Top.ip
         /\ A!Insts = Fn(Top).insts
         /\ A!Now = Current
<1>1. /\ Len(frames) \in Nat /\ Len(frames) >= 1 /\ Len(frames) \in 1..Len(frames)
      /\ DOMAIN frames = 1..Len(frames)
  <2>1. \A n \in Nat : n >= 1 => n \in 1..n
    OBVIOUS
  <2>2. frames \in Seq(FrameType)
    BY DEF Sound, TypeOK, FramesOK
  <2> QED BY <2>1, <2>2, TopFacts DEF Sound
<1>2. /\ Acts = [n \in 1..Len(frames) |-> ActivationOf(n)]
      /\ \A n \in 1..Len(frames) : Acts[n] = ActivationOf(n)
  BY <1>1 DEF Acts
<1>3. Acts \in Seq(ActivationType) /\ Len(Acts) = Len(frames)
  BY <1>1, <1>2, ActivationFacts, RangeSeq
<1>4. A!Active = Acts[Len(Acts)]
  BY DEF A!Active, Acts
<1>5. A!Active = ActivationOf(Len(frames))
  BY <1>1, <1>2, <1>3, <1>4
<1>6. ActivationOf(Len(frames)).cl = Top.cl /\ ActivationOf(Len(frames)).ip = Top.ip
  BY <1>1, ActivationFacts DEF Top
<1>7. A!Active.cl = Top.cl /\ A!Active.ip = Top.ip
  BY <1>5, <1>6
<1>8. A!Insts = Fn(Top).insts
  BY <1>7 DEF A!Insts, Fn
<1>9. A!Now = Current
  BY <1>7, <1>8 DEF A!Now, Current
<1> QED BY <1>1, <1>2, <1>3, <1>5, <1>7, <1>8, <1>9

-----------------------------------------------------------------------------
(***************************************************************************)
(* What a step leaves to the activations it does not work on.              *)
(***************************************************************************)
LEMMA BasesRise ==
  ASSUME Sound, NEW j \in 1..Len(frames), NEW n \in 1..j
  PROVE  frames[n].base <= frames[j].base
<1> DEFINE T == {i \in n..j : frames[n].base <= frames[i].base}
<1>1. /\ Len(frames) \in Nat /\ n \in 1..Len(frames)
      /\ \A i \in 1..Len(frames) : frames[i].base \in Nat
  BY TopFacts, Layout DEF Sound
<1>2. n \in T
  BY <1>1
<1>3. ASSUME NEW i \in n + 1..j, i - 1 \in T PROVE i \in T
  <2>1. i - 1 \in 1..Len(frames) /\ i - 1 < Len(frames) /\ i - 1 + 1 = i /\ i \in n..j
        /\ i \in 1..Len(frames)
    BY <1>1
  <2>2. frames[i - 1].base <= OperandsAt(i - 1) /\ OperandsAt(i - 1) < frames[i].base
        /\ OperandsAt(i - 1) \in Nat
    BY <2>1, Layout
  <2>3. frames[n].base <= frames[i - 1].base
    BY <1>3
  <2> QED BY <1>1, <2>1, <2>2, <2>3
<1> HIDE DEF T
<1>4. \A i \in n..j : i \in T
  <2>1. n \in Int /\ j \in Int
    OBVIOUS
  <2> QED BY <1>2, <1>3, <2>1, RangeInduction
<1>5. j \in n..j
  OBVIOUS
<1>6. j \in T
  BY <1>4, <1>5
<1> QED BY <1>6 DEF T

(* The closures of the frames are what they were. *)
LEMMA SameCode ==
  ASSUME Sound, HeapGrows, NEW n \in 1..Len(frames)
  PROVE  heap'[frames[n].cl] = heap[frames[n].cl]
  BY FrameFacts DEF Sound, FrameType, HeapGrows

(* The activations below the frame j, when that frame stays where it is    *)
(* and nothing below it is written.                                        *)
LEMMA BelowSame ==
  ASSUME Sound, HeapGrows, NEW j \in 1..Len(frames),
         stack' \in StackType,
         \A i \in Slots : i < frames[j].base => stack'[i] = stack[i],
         Len(frames') \in Nat, j <= Len(frames') \/ j = Len(frames') + 1,
         \A n \in 1..j - 1 : frames'[n] = frames[n],
         j <= Len(frames') => frames'[j].base = frames[j].base,
         j = Len(frames') + 1 => sp' = frames[j].base
  PROVE  \A n \in 1..j - 1 : ActivationOf(n)' = ActivationOf(n)
<1> SUFFICES ASSUME NEW n \in 1..j - 1 PROVE ActivationOf(n)' = ActivationOf(n)
  OBVIOUS
<1>1. /\ Len(frames) \in Nat /\ n \in 1..Len(frames) /\ n < Len(frames)
      /\ n + 1 \in 1..j /\ n + 1 \in 1..Len(frames) /\ n + 1 <= j
  BY TopFacts DEF Sound
<1>2. frames'[n] = frames[n] /\ Fn(frames[n])' = Fn(frames[n])
  BY <1>1, SameCode DEF Fn
<1>3. OperandsAt(n)' = OperandsAt(n)
  BY <1>2 DEF OperandsAt, Fn
<1>4. EndAt(n)' = frames[n + 1].base /\ EndAt(n) = frames[n + 1].base
  <2>1. EndAt(n) = frames[n + 1].base
    BY <1>1 DEF EndAt
  <2>2. CASE n + 1 \in 1..j - 1
    BY <1>1, <2>2 DEF EndAt
  <2>3. CASE n + 1 = j /\ j <= Len(frames')
    BY <1>1, <2>3 DEF EndAt
  <2>4. CASE n + 1 = j /\ j = Len(frames') + 1
    BY <1>1, <2>4 DEF EndAt
  <2> QED BY <1>1, <2>1, <2>2, <2>3, <2>4
<1>5. /\ frames[n].base \in Nat /\ OperandsAt(n) \in Nat /\ EndAt(n) \in Nat
      /\ OperandsAt(n) <= EndAt(n) /\ EndAt(n) <= frames[j].base
      /\ frames[j].base \in Nat
  BY <1>1, <1>4, Layout, BasesRise
<1>6. stack \in StackType
  BY StackNat DEF Sound
<1>7. Seg(stack', frames[n].base, OperandsAt(n)) = Seg(stack, frames[n].base, OperandsAt(n))
  <2>1. \A i \in Slots : frames[n].base <= i /\ i < OperandsAt(n) => stack'[i] = stack[i]
    BY <1>5 DEF Slots
  <2> QED BY <1>5, <1>6, <2>1, SegSame
<1>8. Seg(stack', OperandsAt(n), EndAt(n)) = Seg(stack, OperandsAt(n), EndAt(n))
  <2>1. \A i \in Slots : OperandsAt(n) <= i /\ i < EndAt(n) => stack'[i] = stack[i]
    BY <1>5 DEF Slots
  <2> QED BY <1>5, <1>6, <2>1, SegSame
<1>9. ActivationOf(n)' =
        [cl |-> frames[n].cl, ip |-> frames[n].ip,
         locals |-> Seg(stack', frames[n].base, OperandsAt(n)),
         operands |-> Seg(stack', OperandsAt(n), EndAt(n))]
  <2>1. ActivationOf(n)' =
          [cl |-> frames'[n].cl, ip |-> frames'[n].ip,
           locals |-> Seg(stack', frames'[n].base, OperandsAt(n)'),
           operands |-> Seg(stack', OperandsAt(n)', EndAt(n)')]
    BY DEF ActivationOf, Segment, Seg, OperandsAt, EndAt
  <2> QED BY <1>2, <1>3, <1>4, <2>1
<1> QED BY <1>1, <1>7, <1>8, <1>9, ActivationFacts

(* All but the last activation are those of before. *)
LEMMA BecomeLast ==
  ASSUME Sound, NEW k \in Nat, k = Len(frames), DOMAIN frames' = 1..k,
         NEW a \in ActivationType,
         \A n \in 1..k - 1 : ActivationOf(n)' = ActivationOf(n),
         ActivationOf(k)' = a
  PROVE  A!Become(a)
<1>1. k >= 1 /\ Acts \in Seq(ActivationType) /\ Len(Acts) = k
      /\ \A n \in 1..k : Acts[n] = ActivationOf(n)
  BY ActsFacts
<1>2. /\ Acts' = [n \in 1..k |-> ActivationOf(n)']
      /\ \A n \in 1..k : Acts'[n] = ActivationOf(n)'
  BY DEF Acts
<1> DEFINE t == Append(SubSeq(Acts, 1, Len(Acts) - 1), a)
<1>3. /\ t \in Seq(ActivationType) /\ Len(t) = k /\ t[k] = a
      /\ \A n \in 1..k - 1 : t[n] = Acts[n]
  BY <1>1
<1>4. \A n \in 1..k : Acts'[n] = t[n]
  BY <1>1, <1>2, <1>3
<1> HIDE DEF t
<1>5. t = [n \in 1..k |-> t[n]]
  BY <1>3
<1>6. Acts' = t
  BY <1>2, <1>4, <1>5
<1> QED BY <1>6 DEF t, Acts, A!Become, A!Suspended

(* The two modules read the code in the same way. *)
LEMMA SameReading ==
  /\ A!Loads = Loads /\ A!Binary = Binary /\ A!Returns = Returns
  /\ \A inst : A!Needs(inst) = Needs(inst) /\ A!Gain(inst) = Gain(inst)
  /\ \A insts, p : A!Follow(insts, p) = Follow(insts, p)
  /\ A!NullObj = NullObj /\ A!NULL = NULL
  BY DEF A!Loads, Loads, A!Binary, Binary, A!Arith, Arith, A!Logic, Logic,
         A!Equality, Equality, A!Compare, Compare, A!Returns, Returns,
         A!Needs, Needs, A!Gain, Gain, A!Follow, Follow, A!Unhandled, Unhandled,
         A!InstLen, InstLen, A!Wide, Wide, A!Narrow, Narrow,
         A!NullObj, NullObj, A!NULL

-----------------------------------------------------------------------------
(***************************************************************************)
(* The current activation.                                                 *)
(***************************************************************************)
Ops == Top.base + Fn(Top).num_locals

LEMMA CurrentFacts ==
  ASSUME Sound
  PROVE  /\ Top.base \in Nat /\ Ops \in Nat /\ sp \in Nat /\ Top.cl \in Nat
         /\ Top.base <= Ops /\ Fn(Top).num_locals \in Nat
         /\ sp = Ops + Height(Top) /\ Height(Top) \in Nat
         /\ Needs(Current) \in Nat /\ Needs(Current) <= Height(Top)
         /\ Current \in Inst /\ Current.a \in Nat /\ Current.b \in Nat
         /\ A!Active = [cl |-> Top.cl, ip |-> Top.ip,
                        locals |-> Seg(stack, Top.base, Ops),
                        operands |-> Seg(stack, Ops, sp)]
<1>1. Len(frames) \in 1..Len(frames) /\ Top = frames[Len(frames)]
  BY ActsFacts DEF Top
<1>2. /\ OperandsAt(Len(frames)) = Ops /\ EndAt(Len(frames)) = sp
      /\ sp = Ops + Height(Top)
  BY <1>1, TopMapped, ActsFacts DEF OperandsAt, EndAt, Ops
<1>3. /\ Top.base \in Nat /\ Ops \in Nat /\ sp \in Nat /\ Top.cl \in Nat
      /\ Top.base <= Ops
  BY <1>1, <1>2, Layout
<1>4. Fn(Top).num_locals \in Nat
  BY TopFacts DEF Sound, FunctionType
<1>5. A!Active = [cl |-> Top.cl, ip |-> Top.ip,
                  locals |-> Seg(stack, Top.base, Ops),
                  operands |-> Seg(stack, Ops, sp)]
  BY <1>1, <1>2, ActsFacts, ActivationFacts
<1> QED BY <1>2, <1>3, <1>4, <1>5, TopMapped, InstFacts

(* The current activation, further on. *)
LEMMA ActiveUpdate ==
  ASSUME Sound, NEW q, NEW x
  PROVE  [A!Active EXCEPT !.ip = q, !.operands = x] =
           [cl |-> Top.cl, ip |-> q,
            locals |-> Seg(stack, Top.base, Ops), operands |-> x]
<1>1. A!Active = [cl |-> Top.cl, ip |-> Top.ip,
                  locals |-> Seg(stack, Top.base, Ops),
                  operands |-> Seg(stack, Ops, sp)]
  BY CurrentFacts
<1> DEFINE act == A!Active
           locals == Seg(stack, Top.base, Ops)
           operands == Seg(stack, Ops, sp)
<1>2. act = [cl |-> Top.cl, ip |-> Top.ip, locals |-> locals, operands |-> operands]
  BY <1>1
<1> HIDE DEF act, locals, operands
<1>3. [act EXCEPT !.ip = q, !.operands = x] =
        [cl |-> Top.cl, ip |-> q, locals |-> locals, operands |-> x]
  <2> DEFINE b == [act EXCEPT !.ip = q]
  <2>1. b = [cl |-> Top.cl, ip |-> q, locals |-> locals, operands |-> operands]
    BY <1>2
  <2>2. [act EXCEPT !.ip = q, !.operands = x] = [b EXCEPT !.operands = x]
    OBVIOUS
  <2> HIDE DEF b
  <2> QED BY <2>1, <2>2
<1> QED BY <1>3 DEF act, locals

(* The handler stays in its frame and writes nothing below it. *)
LEMMA TopMoves ==
  ASSUME Sound, HeapGrows, NEW q \in Nat, GoTo(q),
         stack' \in StackType, sp' \in Nat, Ops <= sp',
         \A i \in Slots : i < Top.base => stack'[i] = stack[i]
  PROVE  A!Become([cl |-> Top.cl, ip |-> q,
                   locals |-> Seg(stack', Top.base, Ops),
                   operands |-> Seg(stack', Ops, sp')])
<1> DEFINE a == [cl |-> Top.cl, ip |-> q,
                 locals |-> Seg(stack', Top.base, Ops),
                 operands |-> Seg(stack', Ops, sp')]
<1>1. PICK k \in Nat : k = Len(frames) /\ k >= 1 /\ k \in 1..Len(frames)
  BY ActsFacts
<1>2. frames \in Seq(FrameType) /\ Top = frames[k] /\ Top \in FrameType
  BY <1>1, TopFacts DEF Sound, TypeOK, FramesOK, Top
<1>3. frames' = [frames EXCEPT ![k] = [Top EXCEPT !.ip = q]]
  BY <1>1, <1>2 DEF GoTo
<1>4. [Top EXCEPT !.ip = q] \in FrameType
  BY <1>2 DEF FrameType
<1>5. /\ Len(frames') = k /\ DOMAIN frames' = 1..k
      /\ \A n \in 1..k - 1 : frames'[n] = frames[n]
      /\ frames'[k] = [Top EXCEPT !.ip = q]
  BY <1>1, <1>2, <1>3, <1>4
<1>6. frames'[k].cl = Top.cl /\ frames'[k].ip = q /\ frames'[k].base = Top.base
  BY <1>2, <1>5 DEF FrameType
<1>7. \A n \in 1..k - 1 : ActivationOf(n)' = ActivationOf(n)
  <2>1. /\ k \in 1..Len(frames) /\ Len(frames') \in Nat /\ k <= Len(frames')
        /\ k # Len(frames') + 1
        /\ frames'[k].base = frames[k].base
        /\ \A i \in Slots : i < frames[k].base => stack'[i] = stack[i]
    BY <1>1, <1>2, <1>5, <1>6
  <2> QED BY <1>5, <2>1, BelowSame
<1>8. heap'[Top.cl] = heap[Top.cl]
  BY <1>1, <1>2, SameCode
<1>9. ActivationOf(k)' = a
  <2>1. OperandsAt(k)' = Ops
    BY <1>6, <1>8 DEF OperandsAt, Ops, Fn
  <2>2. EndAt(k)' = sp'
    BY <1>5 DEF EndAt
  <2>3. ActivationOf(k)' =
          [cl |-> frames'[k].cl, ip |-> frames'[k].ip,
           locals |-> Seg(stack', frames'[k].base, OperandsAt(k)'),
           operands |-> Seg(stack', OperandsAt(k)', EndAt(k)')]
    BY DEF ActivationOf, Segment, Seg, OperandsAt, EndAt
  <2> QED BY <1>6, <2>1, <2>2, <2>3
<1>10. a \in ActivationType
  <2>1. /\ Seg(stack', Top.base, Ops) \in Seq(Nat)
        /\ Seg(stack', Ops, sp') \in Seq(Nat)
    BY CurrentFacts, SegType
  <2> QED BY <2>1, CurrentFacts DEF ActivationType
<1> HIDE DEF a
<1>11. A!Become(a)
  BY <1>1, <1>5, <1>7, <1>9, <1>10, BecomeLast
<1> QED BY <1>11 DEF a

(* What the handlers take off the operands, and what they keep. *)
LEMMA Operands ==
  ASSUME Sound, NEW n \in Nat, n <= Height(Top)
  PROVE  /\ A!Taken(n) = Seg(stack, sp - n, sp)
         /\ A!Kept(n) = Seg(stack, Ops, sp - n)
         /\ sp - n \in Nat /\ Ops <= sp - n
<1>1. sp - n \in Nat /\ Ops <= sp - n
  BY CurrentFacts
<1>2. A!Active.operands = Seg(stack, Ops, sp)
  BY CurrentFacts
<1> DEFINE s == Seg(stack, Ops, sp)
<1>3. /\ SubSeq(s, 1, Len(s) - n) = Seg(stack, Ops, sp - n)
      /\ SubSeq(s, Len(s) - n + 1, Len(s)) = Seg(stack, sp - n, sp)
  <2>1. stack \in StackType /\ Ops \in Nat /\ sp \in Nat
    BY CurrentFacts, StackNat DEF Sound
  <2>2. Cuts(s, n, Seg(stack, Ops, sp - n), Seg(stack, sp - n, sp))
    BY <1>1, <2>1, SegCut
  <2> QED BY <2>2 DEF Cuts
<1>4. A!Taken(n) = SubSeq(s, Len(s) - n + 1, Len(s)) /\ A!Kept(n) = SubSeq(s, 1, Len(s) - n)
  BY <1>2 DEF A!Taken, A!Kept
<1> QED BY <1>1, <1>3, <1>4

-----------------------------------------------------------------------------
(***************************************************************************)
(* The handlers, by the action of Activations they are.                    *)
(***************************************************************************)

(* Take what the instruction needs, leave one object. *)
LEMMA ComputeStep ==
  ASSUME Sound, HeapGrows, Current.op \in Loads \cup Binary \cup {"closure"},
         NEW n \in Nat, n = Needs(Current), sp - n \in Slots,
         NEW id \in Nat, id <= Len(heap'), Leave(n, id), Step, A!Result(id)
  PROVE  A!Compute
<1> DEFINE q == Top.ip + InstLen(Current.op)
           a == [cl |-> Top.cl, ip |-> q,
                 locals |-> Seg(stack', Top.base, Ops),
                 operands |-> Seg(stack', Ops, sp')]
<1>1. /\ Top.base \in Nat /\ Ops \in Nat /\ sp \in Nat /\ Top.base <= Ops
      /\ n <= Height(Top) /\ stack \in StackType
  BY CurrentFacts, StackNat DEF Sound
<1>2. /\ A!Kept(n) = Seg(stack, Ops, sp - n) /\ sp - n \in Nat /\ Ops <= sp - n
  BY <1>1, Operands
<1>3. stack' = [stack EXCEPT ![sp - n] = id] /\ sp' = sp - n + 1
  BY DEF Leave
<1>4. stack' \in StackType /\ stack'[sp - n] = id
  BY <1>1, <1>3 DEF StackType
<1>5. \A i \in Slots : i < sp - n => stack'[i] = stack[i]
  BY <1>1, <1>2, <1>3 DEF StackType, Slots
<1>6. q \in A!Follow(A!Insts, A!Active.ip) /\ q \in Nat
  <2>1. q \in Follow(Fn(Top).insts, Top.ip)
    BY DEF Follow, Current, Returns, Unhandled, Loads,
           Binary, Arith, Logic, Equality, Compare
  <2>2. q \in Nat
    BY <2>1, TopMapped
  <2> HIDE DEF q
  <2> QED BY <2>1, <2>2, ActsFacts, SameReading
<1>7. Seg(stack', Top.base, Ops) = Seg(stack, Top.base, Ops)
  <2>1. \A i \in Slots : Top.base <= i /\ i < Ops => stack'[i] = stack[i]
    BY <1>1, <1>2, <1>5 DEF Slots
  <2> QED BY <1>1, <1>4, <2>1, SegSame
<1>8. Seg(stack', Ops, sp') = Append(Seg(stack, Ops, sp - n), id)
  <2>1. \A i \in Slots : Ops <= i /\ i < sp - n => stack'[i] = stack[i]
    BY <1>5
  <2>2. Seg(stack', Ops, sp - n + 1) = Append(Seg(stack, Ops, sp - n), stack'[sp - n])
    BY <1>1, <1>2, <1>4, <2>1, SegPush
  <2> QED BY <1>3, <1>4, <2>2
<1>9. A!Become(a)
  <2>1. \A i \in Slots : i < Top.base => stack'[i] = stack[i]
    BY <1>1, <1>2, <1>5 DEF Slots
  <2>2. sp' \in Nat /\ Ops <= sp'
    BY <1>2, <1>3, <1>1
  <2>3. GoTo(q) /\ q \in Nat
    BY <1>6 DEF Step
  <2> HIDE DEF q
  <2> QED BY <1>4, <2>1, <2>2, <2>3, TopMoves
<1> HIDE DEF q
<1>10. a = [A!Active EXCEPT !.ip = q, !.operands = Append(A!Kept(n), id)]
  <2> DEFINE x == Append(A!Kept(n), id)
  <2>1. a = [cl |-> Top.cl, ip |-> q, locals |-> Seg(stack, Top.base, Ops), operands |-> x]
    BY <1>2, <1>7, <1>8
  <2> HIDE DEF a, x
  <2>2. a = [A!Active EXCEPT !.ip = q, !.operands = x]
    BY <2>1, ActiveUpdate
  <2> QED BY <2>2 DEF x
<1> HIDE DEF a
<1>11. /\ A!Now.op \in A!Loads \cup A!Binary \cup {"closure"}
       /\ A!Needs(A!Now) = n /\ id \in 0..Len(heap')
  BY ActsFacts, SameReading DEF Sound, TypeOK, HeapOK, HeapGrows
<1>12. A!Become([A!Active EXCEPT !.ip = q, !.operands = Append(A!Kept(A!Needs(A!Now)), id)])
  BY <1>9, <1>10, <1>11
<1> QED BY <1>6, <1>11, <1>12 DEF A!Compute

(* Go to one of the offsets that follow, with as many operands or one less. *)
LEMMA MoveStep ==
  ASSUME Sound, Current.op \in {"jump", "jump_not_truthy", "pop", "set_global"},
         heap' = heap, stack' = stack, sp' = sp + Gain(Current),
         NEW q \in Follow(Fn(Top).insts, Top.ip), GoTo(q)
  PROVE  A!Move
<1>1. PICK n \in Nat : Gain(Current) = -n /\ n <= Needs(Current) /\ -Gain(Current) = n
  <2>1. \/ Gain(Current) = 0
        \/ Gain(Current) = -1 /\ Needs(Current) = 1
    BY DEF Gain, Needs, Loads, Binary, Arith, Logic, Equality, Compare
  <2> QED BY <2>1, CurrentFacts
<1>2. /\ n <= Height(Top) /\ sp' = sp - n /\ stack \in StackType /\ q \in Nat
      /\ sp \in Nat
  BY <1>1, CurrentFacts, StackNat, TopMapped DEF Sound
<1>3. /\ A!Kept(n) = Seg(stack, Ops, sp - n) /\ sp - n \in Nat /\ Ops <= sp - n
  BY <1>2, Operands
<1>4. HeapGrows
  BY GrowsFacts
<1> DEFINE a == [cl |-> Top.cl, ip |-> q,
                 locals |-> Seg(stack', Top.base, Ops),
                 operands |-> Seg(stack', Ops, sp')]
<1>5. A!Become(a)
  BY <1>2, <1>3, <1>4, TopMoves
<1>6. a = [A!Active EXCEPT !.ip = q, !.operands = A!Kept(n)]
  BY <1>2, <1>3, ActiveUpdate
<1> HIDE DEF a
<1>7. /\ A!Now.op \in {"jump", "jump_not_truthy", "pop", "set_global"}
      /\ -A!Gain(A!Now) = n
      /\ q \in A!Follow(A!Insts, A!Active.ip)
  BY <1>1, ActsFacts, SameReading
<1>8. A!Become([A!Active EXCEPT !.ip = q, !.operands = A!Kept(-A!Gain(A!Now))])
  BY <1>5, <1>6, <1>7
<1> QED BY <1>7, <1>8 DEF A!Move

(* A store overwrites a local in its slot, below the operands. *)
LEMMA SetLocalStep ==
  ASSUME Sound, TARGET_SET_LOCAL
  PROVE  A!SetLocal
<1> DEFINE q == Top.ip + InstLen(Current.op)
           v == stack[sp - 1]
           locals == Seg(stack, Top.base, Ops)
           operands == Seg(stack, Ops, sp)
<1>1. /\ Current.op = "set_local" /\ Ready /\ heap' = heap
      /\ stack' = [stack EXCEPT ![Top.base + Current.a] = v]
      /\ sp' = sp /\ GoTo(q)
  BY DEF TARGET_SET_LOCAL, At, Right, Step
<1>2. /\ Top.base \in Nat /\ Ops \in Nat /\ sp \in Nat /\ Top.base <= Ops
      /\ Current.a \in Nat /\ Current.a < Ops - Top.base
      /\ sp >= Ops + 1 /\ Height(Top) >= 1
      /\ stack \in StackType
      /\ Top.base + Current.a \in Slots /\ sp - 1 \in Slots
  <2>1. Current.a < Fn(Top).num_locals
    BY <1>1, TopMapped
  <2>2. Needs(Current) = 1
    BY <1>1 DEF Needs, Binary, Arith, Logic, Equality, Compare
  <2>3. Top.base + Current.a \in Slots /\ sp - 1 \in Slots
    BY <1>1, ReadyFacts DEF Sound
  <2>4. Ops - Top.base = Fn(Top).num_locals
    BY CurrentFacts DEF Ops
  <2> QED BY <2>1, <2>2, <2>3, <2>4, CurrentFacts, StackNat DEF Sound
<1>3. v \in Nat /\ A!Taken(1)[1] = v
  <2>1. A!Taken(1) = Seg(stack, sp - 1, sp)
    BY <1>2, Operands
  <2>2. sp - 1 \in Nat /\ sp - 1 <= sp /\ 1 \in 1..sp - (sp - 1) /\ sp - 1 + 1 - 1 = sp - 1
    BY <1>2
  <2>3. Seg(stack, sp - 1, sp)[1] = stack[sp - 1]
    BY <1>2, <2>2, SegType
  <2> QED BY <1>2, <2>1, <2>3 DEF StackType
<1>4. q \in A!Follow(A!Insts, A!Active.ip) /\ q \in Nat
  <2>1. q \in Follow(Fn(Top).insts, Top.ip)
    BY <1>1 DEF Follow, Current, Returns, Unhandled
  <2>2. q \in Nat
    BY <2>1, TopMapped
  <2> HIDE DEF q
  <2> QED BY <2>1, <2>2, ActsFacts, SameReading
<1> HIDE DEF q, v
<1>5. /\ stack' \in StackType /\ stack'[Top.base + Current.a] = v
      /\ \A i \in Slots : i # Top.base + Current.a => stack'[i] = stack[i]
  BY <1>1, <1>2, <1>3 DEF StackType
<1>6. Seg(stack', Top.base, Ops) = [locals EXCEPT ![Current.a + 1] = v]
  <2>1. Seg(stack', Top.base, Ops) =
          [Seg(stack, Top.base, Ops) EXCEPT ![Current.a + 1] = stack'[Top.base + Current.a]]
    <3>1. PICK w \in Nat : w = Current.a
      BY <1>2
    <3>2. PICK from \in Nat : from = Top.base
      BY <1>2
    <3>3. PICK to \in Nat : to = Ops
      BY <1>2
    <3>4. /\ from <= to /\ w < to - from /\ from + w \in Slots
          /\ \A i \in Slots : i # from + w => stack'[i] = stack[i]
      BY <1>2, <1>5, <3>1, <3>2, <3>3
    <3>5. Seg(stack', from, to) = [Seg(stack, from, to) EXCEPT ![w + 1] = stack'[from + w]]
      BY <1>2, <1>5, <3>4, SegPut
    <3> QED BY <3>1, <3>2, <3>3, <3>5
  <2> QED BY <1>5, <2>1
<1>7. Seg(stack', Ops, sp') = operands
  <2>1. \A i \in Slots : Ops <= i /\ i < sp => stack'[i] = stack[i]
    BY <1>2, <1>5 DEF Slots
  <2> QED BY <1>1, <1>2, <1>5, <2>1, SegSame
<1> DEFINE a == [cl |-> Top.cl, ip |-> q,
                 locals |-> Seg(stack', Top.base, Ops),
                 operands |-> Seg(stack', Ops, sp')]
<1>8. A!Become(a)
  <2>1. \A i \in Slots : i < Top.base => stack'[i] = stack[i]
    BY <1>2, <1>5 DEF Slots
  <2>2. HeapGrows
    BY <1>1, GrowsFacts
  <2>3. sp' \in Nat /\ Ops <= sp'
    BY <1>1, <1>2
  <2> QED BY <1>1, <1>4, <1>5, <2>1, <2>2, <2>3, TopMoves
<1>9. a = [A!Active EXCEPT !.ip = q, !.locals[Current.a + 1] = v]
  <2> DEFINE act == A!Active
             w == Current.a + 1
  <2>1. act = [cl |-> Top.cl, ip |-> Top.ip, locals |-> locals, operands |-> operands]
    BY CurrentFacts
  <2>2. a = [cl |-> Top.cl, ip |-> q, locals |-> [locals EXCEPT ![w] = v], operands |-> operands]
    BY <1>6, <1>7
  <2> HIDE DEF act, locals, operands, a, w
  <2> DEFINE b == [act EXCEPT !.ip = q]
  <2>3. b = [cl |-> Top.cl, ip |-> q, locals |-> locals, operands |-> operands]
    BY <2>1
  <2>4. [act EXCEPT !.ip = q, !.locals[w] = v] = [b EXCEPT !.locals[w] = v]
    OBVIOUS
  <2> HIDE DEF b
  <2>5. [b EXCEPT !.locals[w] = v] = a
    BY <2>2, <2>3
  <2> QED BY <2>4, <2>5 DEF act, w
<1> HIDE DEF a
<1>10. A!Now = Current
  BY ActsFacts
<1>11. A!Become([A!Active EXCEPT !.ip = q, !.locals[A!Now.a + 1] = A!Taken(1)[1]])
  BY <1>3, <1>8, <1>9, <1>10
<1> QED BY <1>1, <1>4, <1>10, <1>11 DEF A!SetLocal

(* A call cuts the arguments off the operands of the caller: they are the  *)
(* first slots of the frame that is pushed.                                *)
LEMMA CallActs ==
  ASSUME Sound, TARGET_CALL
  PROVE  A!Call
<1> DEFINE q    == Top.ip + InstLen("call")
           back == [frames EXCEPT ![Len(frames)].ip = @ + InstLen("call")]
           new  == new_frame(Callee, sp - Current.a)
<1>1. PICK k \in Nat : k = Len(frames) /\ k >= 1 /\ k \in 1..Len(frames)
  BY ActsFacts
<1>2. /\ frames \in Seq(FrameType) /\ Top = frames[k] /\ Top \in FrameType
      /\ stack \in StackType
  BY <1>1, TopFacts, StackNat DEF Sound, TypeOK, FramesOK, Top
<1>3. PICK n \in Nat : n = Current.a
  BY CurrentFacts
<1>4. /\ Current.op = "call"
      /\ Callee \in 1..Len(heap) /\ heap[Callee] \in ClosureObject
      /\ heap[Callee].fn.num_params = n
  BY <1>3, CallFacts DEF Sound
<1>4a. /\ sp \in Nat /\ Ops \in Nat
       /\ n <= Height(Top) /\ n + 1 <= Height(Top)
       /\ Ops <= sp - n /\ sp - n \in Nat /\ sp - (n + 1) \in Nat
       /\ sp - 1 - n \in Slots /\ Top.base <= Ops /\ Top.base \in Nat
  <2>1. Needs(Current) = n + 1
    BY <1>3, <1>4 DEF Needs, Binary, Arith, Logic, Equality, Compare
  <2>2. sp - 1 - n \in Slots
    BY <1>3, CallFacts, ReadyFacts DEF Sound
  <2>3. /\ sp \in Nat /\ Ops \in Nat /\ Height(Top) \in Nat /\ sp = Ops + Height(Top)
        /\ Needs(Current) <= Height(Top) /\ Top.base <= Ops /\ Top.base \in Nat
    BY CurrentFacts
  <2>4. n <= Height(Top) /\ n + 1 <= Height(Top)
    BY <2>1, <2>3
  <2> QED BY <2>2, <2>3, <2>4
<1>5. /\ heap' = heap /\ stack' = stack /\ frames' = Append(back, new)
      /\ sp' = sp - n + heap[Callee].fn.num_locals
  BY <1>3 DEF TARGET_CALL
<1>6. PICK m \in Nat : m = heap[Callee].fn.num_locals /\ n <= m
  <2>1. heap[Callee].fn \in FunctionType /\ heap[Callee].type = "closure"
    BY <1>4 DEF ClosureObject
  <2>2. heap[Callee].fn.num_locals \in Nat
    BY <2>1 DEF FunctionType
  <2>3. WellMapped(heap[Callee].fn, StackMapOf(heap[Callee].fn))
    BY <1>4, <2>1 DEF Sound, Trusted, Accepted
  <2>4. n <= heap[Callee].fn.num_locals
    BY <1>4, <2>3 DEF WellMapped
  <2> QED BY <2>2, <2>4
<1>7. q \in A!Follow(A!Insts, A!Active.ip) /\ q \in Nat
  <2>1. q \in Follow(Fn(Top).insts, Top.ip)
    BY <1>4 DEF Follow, Current, Returns, Unhandled
  <2>2. q \in Nat
    BY <2>1, TopMapped
  <2> HIDE DEF q
  <2> QED BY <2>1, <2>2, ActsFacts, SameReading
<1>8. back = [frames EXCEPT ![k] = [Top EXCEPT !.ip = q]]
  BY <1>1, <1>2
<1>9. new.cl = Callee /\ new.ip = 0 /\ new.base = sp - n /\ new \in FrameType
  BY <1>3, <1>4, <1>4a DEF new_frame, FrameType
<1> HIDE DEF q, back, new
<1>10. [Top EXCEPT !.ip = q] \in FrameType
  BY <1>2, <1>7 DEF FrameType
<1>11. /\ back \in Seq(FrameType) /\ Len(back) = k
       /\ \A i \in 1..k - 1 : back[i] = frames[i]
       /\ back[k] = [Top EXCEPT !.ip = q]
  BY <1>1, <1>2, <1>8, <1>10
<1>12. /\ Len(frames') = k + 1 /\ DOMAIN frames' = 1..k + 1
       /\ \A i \in 1..k - 1 : frames'[i] = frames[i]
       /\ frames'[k] = [Top EXCEPT !.ip = q]
       /\ frames'[k + 1] = new
  BY <1>1, <1>5, <1>9, <1>11
<1>13. frames'[k].cl = Top.cl /\ frames'[k].ip = q /\ frames'[k].base = Top.base
  BY <1>2, <1>12 DEF FrameType
<1>14. \A i \in 1..k - 1 : ActivationOf(i)' = ActivationOf(i)
  <2>1. HeapGrows
    BY <1>5, GrowsFacts
  <2>2. /\ Len(frames') \in Nat /\ k <= Len(frames') /\ k # Len(frames') + 1
        /\ frames'[k].base = frames[k].base /\ stack' \in StackType
        /\ \A i \in Slots : i < frames[k].base => stack'[i] = stack[i]
    BY <1>1, <1>2, <1>5, <1>12, <1>13
  <2> QED BY <1>1, <1>12, <2>1, <2>2, BelowSame
<1> DEFINE locals == Seg(stack, sp - n, sp - n + m)
           caller == [cl |-> Top.cl, ip |-> q,
                      locals |-> Seg(stack, Top.base, Ops),
                      operands |-> Seg(stack, Ops, sp - n)]
           callee == [cl |-> Callee, ip |-> 0, locals |-> locals, operands |-> <<>>]
<1>15. ActivationOf(k)' = caller
  <2>1. OperandsAt(k)' = Ops
    BY <1>5, <1>13 DEF OperandsAt, Ops, Fn
  <2>2. EndAt(k)' = sp - n
    BY <1>9, <1>12 DEF EndAt
  <2>3. ActivationOf(k)' =
          [cl |-> frames'[k].cl, ip |-> frames'[k].ip,
           locals |-> Seg(stack', frames'[k].base, OperandsAt(k)'),
           operands |-> Seg(stack', OperandsAt(k)', EndAt(k)')]
    BY DEF ActivationOf, Segment, Seg, OperandsAt, EndAt
  <2> QED BY <1>5, <1>13, <2>1, <2>2, <2>3
<1>16. ActivationOf(k + 1)' = callee
  <2>1. OperandsAt(k + 1)' = sp - n + m
    BY <1>5, <1>6, <1>9, <1>12 DEF OperandsAt, Fn
  <2>2. EndAt(k + 1)' = sp - n + m
    BY <1>5, <1>6, <1>12 DEF EndAt
  <2>3. ActivationOf(k + 1)' =
          [cl |-> frames'[k + 1].cl, ip |-> frames'[k + 1].ip,
           locals |-> Seg(stack', frames'[k + 1].base, OperandsAt(k + 1)'),
           operands |-> Seg(stack', OperandsAt(k + 1)', EndAt(k + 1)')]
    BY DEF ActivationOf, Segment, Seg, OperandsAt, EndAt
  <2>4. Seg(stack, sp - n + m, sp - n + m) = <<>>
    <3>1. 1..(sp - n + m) - (sp - n + m) = {}
      BY <1>4a
    <3> QED BY <3>1 DEF Seg
  <2> QED BY <1>5, <1>9, <1>12, <2>1, <2>2, <2>3, <2>4
<1>17. /\ locals \in Seq(Nat) /\ Len(locals) = m
       /\ SubSeq(locals, 1, n) = Seg(stack, sp - n, sp)
  <2>1. PICK from \in Nat : from = sp - n
    BY <1>4a
  <2>2. PICK to \in Nat : to = from + m
    OBVIOUS
  <2>3. PICK d \in Nat : d = m - n
    BY <1>6
  <2>4. from <= to /\ from <= to - d /\ to - from = m /\ to - d = sp
    BY <1>4a, <2>1, <2>2, <2>3, <1>6
  <2>5. Seg(stack, from, to) \in Seq(Nat) /\ Len(Seg(stack, from, to)) = m
    BY <1>2, <2>4, SegType
  <2>6. SubSeq(Seg(stack, from, to), 1, Len(Seg(stack, from, to)) - d) = Seg(stack, from, to - d)
    <3>1. stack \in StackType /\ from <= to - d
      BY <1>2, <2>4
    <3>2. Cuts(Seg(stack, from, to), d, Seg(stack, from, to - d), Seg(stack, to - d, to))
      BY <3>1, SegCut
    <3> QED BY <3>2 DEF Cuts
  <2>7. m - d = n
    BY <2>3, <1>6
  <2> QED BY <2>1, <2>2, <2>4, <2>5, <2>6, <2>7
<1>18. caller \in ActivationType /\ callee \in ActivationType
  <2>1. Seg(stack, Top.base, Ops) \in Seq(Nat) /\ Seg(stack, Ops, sp - n) \in Seq(Nat)
    BY <1>2, <1>4a, SegType
  <2>2. Top.cl \in Nat /\ Callee \in Nat
    BY <1>4, CurrentFacts
  <2> HIDE DEF locals
  <2> QED BY <1>7, <1>17, <2>1, <2>2 DEF ActivationType
<1>19. /\ A!Taken(n) = Seg(stack, sp - n, sp) /\ A!Kept(n) = Seg(stack, Ops, sp - n)
       /\ A!Taken(n + 1)[1] = Callee
  <2>1. n <= Height(Top) /\ n + 1 \in Nat /\ n + 1 <= Height(Top)
    BY <1>4a
  <2>2. A!Taken(n + 1) = Seg(stack, sp - (n + 1), sp)
    BY <2>1, Operands
  <2>3. PICK from \in Nat : from = sp - (n + 1) /\ from <= sp /\ 1 \in 1..sp - from
                            /\ from + 1 - 1 = sp - 1 - n
    BY <1>4a
  <2>4. Seg(stack, from, sp)[1] = stack[sp - 1 - n]
    BY <1>2, <1>4a, <2>3, SegFirst
  <2>5. Callee = stack[sp - 1 - n]
    BY <1>3 DEF Callee
  <2> QED BY <2>1, <2>2, <2>3, <2>4, <2>5, Operands
<1>20. caller = [A!Active EXCEPT !.ip = q, !.operands = A!Kept(n)]
  BY <1>19, ActiveUpdate
<1>21. callee = A!Activation(Callee, locals)
  BY DEF A!Activation
<1> HIDE DEF caller, callee, locals
<1>22. /\ Acts \in Seq(ActivationType) /\ Len(Acts) = k
       /\ \A i \in 1..k : Acts[i] = ActivationOf(i)
  BY <1>1, ActsFacts
<1>23. /\ Acts' = [i \in 1..k + 1 |-> ActivationOf(i)']
       /\ \A i \in 1..k + 1 : Acts'[i] = ActivationOf(i)'
  BY <1>12 DEF Acts
<1> DEFINE t == SubSeq(Acts, 1, Len(Acts) - 1) \o <<caller, callee>>
<1>24. /\ t \in Seq(ActivationType) /\ Len(t) = k + 1
       /\ t[k] = caller /\ t[k + 1] = callee
       /\ \A i \in 1..k - 1 : t[i] = Acts[i]
  <2> DEFINE low == SubSeq(Acts, 1, Len(Acts) - 1)
  <2>1. /\ low \in Seq(ActivationType) /\ Len(low) = k - 1
        /\ \A i \in 1..k - 1 : low[i] = Acts[i]
    BY <1>1, <1>22
  <2>2. /\ <<caller, callee>> \in Seq(ActivationType) /\ Len(<<caller, callee>>) = 2
        /\ <<caller, callee>>[1] = caller /\ <<caller, callee>>[2] = callee
    BY <1>18
  <2>3. t = low \o <<caller, callee>>
    OBVIOUS
  <2> HIDE DEF low, t
  <2>4. t \in Seq(ActivationType) /\ Len(t) = k + 1
    BY <1>1, <2>1, <2>2, <2>3
  <2>5. \A i \in 1..k - 1 : t[i] = Acts[i]
    BY <1>1, <2>1, <2>2, <2>3
  <2>6. t[k] = caller /\ t[k + 1] = callee
    BY <1>1, <2>1, <2>2, <2>3
  <2> QED BY <2>4, <2>5, <2>6
<1> HIDE DEF t
<1>25. \A i \in 1..k + 1 : Acts'[i] = t[i]
  <2>1. ASSUME NEW i \in 1..k + 1 PROVE Acts'[i] = t[i]
    <3>1. CASE i \in 1..k - 1
      BY <1>14, <1>22, <1>23, <1>24, <3>1
    <3>2. CASE i = k
      BY <1>1, <1>15, <1>23, <1>24, <3>2
    <3>3. CASE i = k + 1
      BY <1>1, <1>16, <1>23, <1>24, <3>3
    <3> QED BY <1>1, <3>1, <3>2, <3>3
  <2> QED BY <2>1
<1>26. Acts' = t
  <2>1. t = [i \in 1..k + 1 |-> t[i]]
    BY <1>24
  <2> QED BY <1>23, <1>25, <2>1
<1>27. /\ Len(Acts') = Len(Acts) + 1 /\ Acts'[Len(Acts) + 1] = callee
       /\ callee.locals = locals
  BY <1>1, <1>22, <1>24, <1>26 DEF callee
<1>28. A!Now = Current
  BY ActsFacts
<1> QED
  <2>1. /\ Len(Acts'[Len(Acts) + 1].locals) = heap[A!Taken(A!Now.a + 1)[1]].fn.num_locals
        /\ SubSeq(Acts'[Len(Acts) + 1].locals, 1, A!Now.a) = A!Taken(A!Now.a)
    BY <1>3, <1>6, <1>17, <1>19, <1>27, <1>28
  <2>2. Acts' = A!Suspended \o <<[A!Active EXCEPT !.ip = q, !.operands = A!Kept(A!Now.a)],
                                A!Activation(A!Taken(A!Now.a + 1)[1],
                                             Acts'[Len(Acts) + 1].locals)>>
    <3>1. t = A!Suspended \o <<caller, callee>>
      BY DEF t, A!Suspended, Acts
    <3> QED BY <1>3, <1>19, <1>20, <1>21, <1>26, <1>27, <1>28, <3>1
  <2> HIDE DEF t
  <2> QED BY <1>4, <1>7, <1>27, <1>28, <2>1, <2>2 DEF A!Call, Acts

(* A return puts the result where the caller had the callee.               *)
LEMMA ReturnActs ==
  ASSUME Sound, NEW id \in Nat, Ready, Current.op \in Returns, ReturnWith(id),
         id = IF Current.op = "return" THEN NullObj ELSE stack[sp - 1]
  PROVE  A!Return
<1>1. PICK k \in Nat : k = Len(frames) /\ k > 1 /\ Top.base <= StackSize
  BY ActsFacts, ReadyFacts DEF Sound
<1>2. PICK j \in Nat : j = k - 1 /\ j \in 1..Len(frames) /\ j < Len(frames)
                       /\ k \in 1..Len(frames) /\ j + 1 = k /\ j >= 1
  BY <1>1
<1>3. /\ frames \in Seq(FrameType) /\ Top = frames[k] /\ Top \in FrameType
      /\ stack \in StackType
  BY <1>1, TopFacts, StackNat DEF Sound, TypeOK, FramesOK, Top
<1>4. PICK from \in Nat : from = OperandsAt(j)
  BY <1>2, Layout
<1>5. PICK to \in Nat : to = Top.base /\ to = EndAt(j)
  BY <1>2, <1>3, Layout
<1>6. PICK base \in Nat : base = frames[j].base
  BY <1>2, Layout
<1>7. base <= from /\ from < to /\ to - 1 \in Nat /\ from <= to - 1 /\ to - 1 + 1 = to
  <2>1. frames[j].base <= OperandsAt(j) /\ OperandsAt(j) < EndAt(j)
    BY <1>2, Layout
  <2> QED BY <1>4, <1>5, <1>6, <2>1
<1>8. to - 1 \in Slots
  BY <1>1, <1>5, <1>7, SizeAssumption DEF Slots
<1>9. /\ heap' = heap /\ frames' = SubSeq(frames, 1, k - 1)
      /\ stack' = [stack EXCEPT ![to - 1] = id] /\ sp' = to
  BY <1>1, <1>5 DEF ReturnWith
<1>10. /\ Len(frames') = j /\ DOMAIN frames' = 1..j
       /\ \A i \in 1..j : frames'[i] = frames[i]
  BY <1>1, <1>2, <1>3, <1>9
<1>11. /\ stack' \in StackType /\ stack'[to - 1] = id
       /\ \A i \in Slots : i # to - 1 => stack'[i] = stack[i]
  BY <1>3, <1>8, <1>9 DEF StackType
<1>12. \A i \in Slots : i < to - 1 => stack'[i] = stack[i]
  BY <1>7, <1>11 DEF Slots
<1>13. \A i \in 1..j - 1 : ActivationOf(i)' = ActivationOf(i)
  <2>1. HeapGrows
    BY <1>9, GrowsFacts
  <2>2. \A i \in Slots : i < frames[j].base => stack'[i] = stack[i]
    BY <1>6, <1>7, <1>12 DEF Slots
  <2>3. Len(frames') \in Nat /\ j <= Len(frames') /\ j # Len(frames') + 1
        /\ frames'[j].base = frames[j].base
        /\ \A i \in 1..j - 1 : frames'[i] = frames[i]
    BY <1>2, <1>10
  <2> QED BY <1>2, <1>11, <2>1, <2>2, <2>3, BelowSame
<1> DEFINE caller == ActivationOf(j)
           below  == Seg(stack, from, to - 1)
           a == [cl |-> frames[j].cl, ip |-> frames[j].ip,
                 locals |-> Seg(stack, base, from), operands |-> Append(below, id)]
<1>14. caller = [cl |-> frames[j].cl, ip |-> frames[j].ip,
                 locals |-> Seg(stack, base, from), operands |-> Seg(stack, from, to)]
  BY <1>2, <1>4, <1>5, <1>6, ActivationFacts
<1>15. ActivationOf(j)' = a
  <2>1. OperandsAt(j)' = from
    BY <1>2, <1>4, <1>9, <1>10 DEF OperandsAt, Fn
  <2>2. EndAt(j)' = to
    BY <1>9, <1>10 DEF EndAt
  <2>3. ActivationOf(j)' =
          [cl |-> frames'[j].cl, ip |-> frames'[j].ip,
           locals |-> Seg(stack', frames'[j].base, OperandsAt(j)'),
           operands |-> Seg(stack', OperandsAt(j)', EndAt(j)')]
    BY DEF ActivationOf, Segment, Seg, OperandsAt, EndAt
  <2>4. frames'[j] = frames[j]
    BY <1>2, <1>10
  <2>5. Seg(stack', base, from) = Seg(stack, base, from)
    <3>1. \A i \in Slots : base <= i /\ i < from => stack'[i] = stack[i]
      BY <1>7, <1>12 DEF Slots
    <3> QED BY <1>3, <1>11, <3>1, SegSame
  <2>6. Seg(stack', from, to) = Append(below, id)
    <3>1. \A i \in Slots : from <= i /\ i < to - 1 => stack'[i] = stack[i]
      BY <1>12
    <3>2. Seg(stack', from, to - 1 + 1) = Append(Seg(stack, from, to - 1), stack'[to - 1])
      BY <1>3, <1>7, <1>8, <1>11, <3>1, SegPush
    <3> QED BY <1>7, <1>11, <3>2
  <2> QED BY <1>6, <2>1, <2>2, <2>3, <2>4, <2>5, <2>6
<1>16. below \in Seq(Nat)
  BY <1>3, <1>7, SegType
<1>17. SubSeq(caller.operands, 1, Len(caller.operands) - 1) = below
  <2>1. Cuts(Seg(stack, from, to), 1, Seg(stack, from, to - 1), Seg(stack, to - 1, to))
    BY <1>3, <1>7, SegCut
  <2> QED BY <1>14, <2>1 DEF Cuts
<1>18. a \in ActivationType
  <2>1. Seg(stack, base, from) \in Seq(Nat) /\ Append(below, id) \in Seq(Nat)
    BY <1>3, <1>7, <1>16, SegType
  <2>2. frames[j].cl \in Nat /\ frames[j].ip \in Nat
    BY <1>2, Layout
  <2> HIDE DEF below
  <2> QED BY <2>1, <2>2 DEF ActivationType
<1>19. a = [caller EXCEPT !.operands = Append(below, id)]
  <2> DEFINE x == Append(below, id)
             locals == Seg(stack, base, from)
             operands == Seg(stack, from, to)
  <2>1. caller = [cl |-> frames[j].cl, ip |-> frames[j].ip,
                  locals |-> locals, operands |-> operands]
    BY <1>14
  <2>2. a = [cl |-> frames[j].cl, ip |-> frames[j].ip, locals |-> locals, operands |-> x]
    OBVIOUS
  <2> HIDE DEF a, below, caller, x, locals, operands
  <2>3. a = [caller EXCEPT !.operands = x]
    BY <2>1, <2>2
  <2> QED BY <2>3 DEF x
<1> HIDE DEF a, below, caller
<1>20. /\ Acts \in Seq(ActivationType) /\ Len(Acts) = k
       /\ \A i \in 1..k : Acts[i] = ActivationOf(i)
  BY <1>1, ActsFacts
<1>21. /\ Acts' = [i \in 1..j |-> ActivationOf(i)']
       /\ \A i \in 1..j : Acts'[i] = ActivationOf(i)'
  BY <1>10 DEF Acts
<1> DEFINE t == Append(SubSeq(Acts, 1, Len(Acts) - 2), a)
<1>22. /\ t \in Seq(ActivationType) /\ Len(t) = j /\ t[j] = a
       /\ \A i \in 1..j - 1 : t[i] = Acts[i]
  <2> DEFINE low == SubSeq(Acts, 1, Len(Acts) - 2)
  <2>1. /\ low \in Seq(ActivationType) /\ Len(low) = j - 1
        /\ \A i \in 1..j - 1 : low[i] = Acts[i]
    BY <1>1, <1>2, <1>20
  <2>2. t = Append(low, a)
    OBVIOUS
  <2> HIDE DEF low, t
  <2> QED BY <1>2, <1>18, <2>1, <2>2
<1> HIDE DEF t
<1>23. \A i \in 1..j : Acts'[i] = t[i]
  <2>1. ASSUME NEW i \in 1..j PROVE Acts'[i] = t[i]
    <3>1. CASE i \in 1..j - 1
      BY <1>1, <1>2, <1>13, <1>20, <1>21, <1>22, <3>1
    <3>2. CASE i = j
      BY <1>15, <1>21, <1>22, <3>2
    <3> QED BY <1>2, <3>1, <3>2
  <2> QED BY <2>1
<1>24. Acts' = t
  <2>1. t = [i \in 1..j |-> t[i]]
    BY <1>22
  <2> QED BY <1>21, <1>23, <2>1
<1>25. A!Now = Current /\ caller = Acts[Len(Acts) - 1]
  BY <1>1, <1>2, <1>20, ActsFacts DEF caller
<1>26. id = IF A!Now.op = "return" THEN A!NullObj ELSE A!Taken(1)[1]
  <2>1. CASE Current.op = "return"
    BY <1>25, <2>1, SameReading
  <2>2. CASE Current.op # "return"
    <3>1. Needs(Current) = 1
      BY <2>2 DEF Needs, Returns, Binary, Arith, Logic, Equality, Compare
    <3>2. 1 <= Height(Top) /\ sp \in Nat /\ sp - 1 \in Slots
      <4>1. sp - 1 \in Slots
        BY <2>2, ReadyFacts DEF Sound, Returns
      <4> QED BY <3>1, <4>1, CurrentFacts
    <3>3. A!Taken(1) = Seg(stack, sp - 1, sp) /\ sp - 1 \in Nat
      BY <3>2, Operands
    <3>4. PICK low \in Nat : /\ low = sp - 1 /\ low <= sp /\ 1 \in 1..sp - low
                             /\ low + 1 - 1 = sp - 1 /\ sp - 1 \in Slots
      BY <3>2, <3>3
    <3>5. Seg(stack, low, sp)[1] = stack[sp - 1]
      BY <1>3, <3>2, <3>4, SegFirst
    <3> QED BY <1>25, <2>2, <3>3, <3>4, <3>5
  <2> QED BY <2>1, <2>2
<1>27. A!Now.op \in A!Returns /\ Len(Acts) > 1
  BY <1>1, <1>20, <1>25, SameReading
<1>28. Acts' = Append(SubSeq(Acts, 1, Len(Acts) - 2),
                      [Acts[Len(Acts) - 1] EXCEPT
                         !.operands = Append(SubSeq(Acts[Len(Acts) - 1].operands, 1,
                                                    Len(Acts[Len(Acts) - 1].operands) - 1),
                                             id)])
  BY <1>17, <1>19, <1>24, <1>25 DEF t
<1> QED BY <1>26, <1>27, <1>28 DEF A!Return, Acts

LEMMA LoadsStep ==
  ASSUME Sound,
         \/ TARGET_CONST \/ TARGET_TRUE \/ TARGET_FALSE \/ TARGET_NULL
         \/ TARGET_CURRENT_CLOSURE
         \/ TARGET_GET_GLOBAL \/ TARGET_GET_LOCAL \/ TARGET_GET_FREE
  PROVE  A!Compute
<1>1. Current.op \in Loads /\ Ready
  BY DEF TARGET_CONST, TARGET_TRUE, TARGET_FALSE, TARGET_NULL,
         TARGET_CURRENT_CLOSURE, TARGET_GET_GLOBAL, TARGET_GET_LOCAL,
         TARGET_GET_FREE, At, Loads
<1>2. Needs(Current) = 0 /\ sp - 0 \in Slots
  <2>1. sp \in Slots /\ sp \in Nat
    BY <1>1, ReadyFacts, CurrentFacts DEF Sound
  <2> QED BY <1>1, <2>1 DEF Needs, Loads, Binary, Arith, Logic, Equality, Compare
<1>3. /\ A!Now = Current /\ A!Active.cl = Top.cl
      /\ A!Active.locals = Seg(stack, Top.base, Ops)
  BY ActsFacts, CurrentFacts
<1>4. /\ Len(heap) \in Nat /\ Len(heap) >= 3
      /\ DOMAIN consts \subseteq Nat /\ \A i \in DOMAIN consts : consts[i] \in 1..Len(heap)
      /\ \A i \in DOMAIN globals : globals[i] \in Ids(heap)
      /\ stack \in [Slots -> Ids(heap)]
  BY DEF Sound, TypeOK, HeapOK, ReferencesOK
<1>5. ASSUME NEW id \in Nat, id <= Len(heap), Load(id), A!Result(id)
      PROVE  A!Compute
  <2>1. HeapGrows /\ Len(heap') = Len(heap) /\ Leave(0, id) /\ Step
    BY <1>5, GrowsFacts DEF Load
  <2> QED BY <1>1, <1>2, <1>5, <2>1, ComputeStep
<1>6. CASE TARGET_CONST
  <2>1. Current.op = "constant" /\ Current.a \in DOMAIN consts
    BY <1>6 DEF TARGET_CONST, At, Faults, Binary, Arith, Logic, Equality, Compare
  <2>2. A!Result(consts[Current.a])
    BY <1>3, <2>1 DEF A!Result
  <2> QED BY <1>4, <1>5, <1>6, <2>1, <2>2 DEF TARGET_CONST
<1>7. CASE TARGET_TRUE \/ TARGET_FALSE \/ TARGET_NULL
  <2>1. Current.op \in {"true", "false", "null"}
    BY <1>7 DEF TARGET_TRUE, TARGET_FALSE, TARGET_NULL, At
  <2>2. \A id : A!Result(id)
    BY <1>3, <2>1 DEF A!Result
  <2>3. {TrueObj, FalseObj, NullObj} \subseteq Nat
        /\ \A id \in {TrueObj, FalseObj, NullObj} : id <= Len(heap)
    BY <1>4 DEF TrueObj, FalseObj, NullObj
  <2> QED BY <1>5, <1>7, <2>2, <2>3 DEF TARGET_TRUE, TARGET_FALSE, TARGET_NULL
<1>8. CASE TARGET_CURRENT_CLOSURE
  <2>1. Current.op = "current_closure"
    BY <1>8 DEF TARGET_CURRENT_CLOSURE, At
  <2>2. A!Result(Top.cl)
    BY <1>3, <2>1 DEF A!Result
  <2>3. Top.cl \in Nat /\ Top.cl <= Len(heap)
    BY <1>4, TopFacts DEF Sound, FrameType
  <2> QED BY <1>5, <1>8, <2>2, <2>3 DEF TARGET_CURRENT_CLOSURE
<1>9. CASE TARGET_GET_GLOBAL
  <2>1. Current.op = "get_global"
    BY <1>9 DEF TARGET_GET_GLOBAL, At
  <2>2. \A id : A!Result(id)
    BY <1>3, <2>1 DEF A!Result
  <2>3. Value(globals, Current.a) \in Nat /\ Value(globals, Current.a) <= Len(heap)
    BY <1>4 DEF Value, Ids
  <2> QED BY <1>5, <1>9, <2>2, <2>3 DEF TARGET_GET_GLOBAL
<1>10. CASE TARGET_GET_LOCAL
  <2>1. Current.op = "get_local"
    BY <1>10 DEF TARGET_GET_LOCAL, At
  <2>2. /\ Top.base + Current.a \in Slots /\ Current.a \in Nat
        /\ Current.a < Fn(Top).num_locals
    BY <1>1, <2>1, ReadyFacts, TopMapped, CurrentFacts DEF Sound
  <2>3. stack[Top.base + Current.a] \in Nat /\ stack[Top.base + Current.a] <= Len(heap)
    BY <1>4, <2>2 DEF Ids
  <2>4. Seg(stack, Top.base, Ops)[Current.a + 1] = stack[Top.base + Current.a]
    <3>1. PICK w \in Nat : w = Current.a + 1 /\ w \in 1..Ops - Top.base
                           /\ Top.base + w - 1 = Top.base + Current.a
      BY <2>2, CurrentFacts DEF Ops
    <3>2. PICK from \in Nat, to \in Nat : from = Top.base /\ to = Ops /\ from <= to
      BY CurrentFacts
    <3>3. stack \in StackType /\ from + w - 1 \in Slots /\ w \in 1..to - from
      BY <2>2, <3>1, <3>2, StackNat DEF Sound
    <3>4. Seg(stack, from, to)[w] = stack[from + w - 1]
      BY <3>2, <3>3, SegType
    <3> QED BY <3>1, <3>2, <3>4
  <2>5. A!Result(stack[Top.base + Current.a])
    BY <1>3, <2>1, <2>4 DEF A!Result
  <2> QED BY <1>5, <1>10, <2>3, <2>5 DEF TARGET_GET_LOCAL
<1>11. CASE TARGET_GET_FREE
  <2> DEFINE free == heap[Top.cl].free
  <2>1. Current.op = "get_free" /\ ~Faults
    BY <1>11 DEF TARGET_GET_FREE, At
  <2>2. ~(Current.a >= Len(free)) /\ Current.a \in Nat
    BY <2>1, CurrentFacts DEF Faults, Binary, Arith, Logic, Equality, Compare
  <2>3. free \in Seq(Nat) /\ Len(free) \in Nat /\ DOMAIN free = 1..Len(free)
    <3>1. free \in Seq(Nat)
      BY TopFacts DEF Sound, ClosureObject
    <3> QED BY <3>1
  <2>4. Top.cl \in 1..Len(heap) /\ heap[Top.cl].type = "closure"
    BY TopFacts DEF Sound, FrameType, ClosureObject
  <2>5. free[Current.a + 1] \in Ids(heap)
    <3>1. Current.a + 1 \in DOMAIN free
      BY <2>2, <2>3
    <3> QED BY <2>4, <3>1 DEF Sound, TypeOK, HeapOK
  <2>6. A!Result(free[Current.a + 1])
    BY <1>3, <2>1 DEF A!Result
  <2>7. free[Current.a + 1] \in Nat /\ free[Current.a + 1] <= Len(heap)
    BY <1>4, <2>5 DEF Ids
  <2>8. Load(free[Current.a + 1])
    BY <1>11 DEF TARGET_GET_FREE
  <2> QED BY <1>5, <2>6, <2>7, <2>8
<1> QED BY <1>6, <1>7, <1>8, <1>9, <1>10, <1>11

LEMMA BinaryStep ==
  ASSUME Sound, TARGET_ARITH \/ TARGET_BOOLEAN
  PROVE  A!Compute
<1>1. Ready /\ Current.op \in Binary /\ Step
  BY DEF TARGET_ARITH, TARGET_BOOLEAN, At, Binary
<1>2. Needs(Current) = 2 /\ sp - 2 \in Slots
  BY <1>1, ReadyFacts DEF Sound, Needs, Binary, Arith, Logic, Equality, Compare
<1>3. Len(heap) \in Nat /\ Len(heap) >= 3 /\ heap \in Seq(ObjectType)
  BY DEF Sound, TypeOK, HeapOK
<1>4. /\ HeapGrows
      /\ \E id \in Nat : id <= Len(heap') /\ Leave(2, id)
  <2>1. CASE TARGET_ARITH
    <3>1. PICK o : heap' = Append(heap, o) /\ Leave(2, Len(heap) + 1)
      BY <2>1 DEF TARGET_ARITH
    <3>2. Len(heap') = Len(heap) + 1
      BY <1>3, <3>1
    <3> QED BY <1>3, <3>1, <3>2, GrowsFacts
  <2>2. CASE TARGET_BOOLEAN
    <3>1. heap' = heap /\ \E id \in {TrueObj, FalseObj} : Leave(2, id)
      BY <2>2 DEF TARGET_BOOLEAN, parse_bool
    <3> QED BY <1>3, <3>1, GrowsFacts DEF TrueObj, FalseObj
  <2> QED BY <2>1, <2>2
<1>5. \A id : A!Result(id)
  BY <1>1, ActsFacts DEF A!Result, Binary, Arith, Logic, Equality, Compare
<1> QED BY <1>1, <1>2, <1>4, <1>5, ComputeStep

(* The captured objects are the operands the closure takes, in order. *)
LEMMA ClosureStep ==
  ASSUME Sound, TARGET_CLOSURE
  PROVE  A!Compute
<1>1. PICK n \in Nat : n = Current.b
  BY CurrentFacts
<1> DEFINE free == [i \in 1..n |-> stack[sp - n + i - 1]]
           fn   == heap[consts[Current.a]].fn
           o    == new_closure_obj(fn, free)
           id   == Len(heap) + 1
<1>2. Current.op = "closure" /\ Ready /\ Step
  BY DEF TARGET_CLOSURE, At
<1>3. heap' = Append(heap, o) /\ Leave(n, id)
  BY <1>1 DEF TARGET_CLOSURE
<1>4. Needs(Current) = n
  BY <1>1, <1>2 DEF Needs, Binary, Arith, Logic, Equality, Compare
<1>5. sp - n \in Slots /\ (n > 0 => sp <= StackSize) /\ sp \in Nat /\ n <= Height(Top)
  BY <1>1, <1>2, <1>4, ReadyFacts, CurrentFacts DEF Sound
<1>6. A!Taken(n) = free
  <2>1. PICK from \in Nat : from = sp - n /\ from <= sp /\ sp - from = n
    BY <1>5, Operands
  <2>2. A!Taken(n) = Seg(stack, from, sp)
    BY <1>5, <2>1, Operands
  <2>3. \A i \in 1..n : from + i - 1 \in Slots /\ from + i - 1 = sp - n + i - 1
    BY <1>5, <2>1, SizeAssumption DEF Slots
  <2>4. Seg(stack, from, sp) = [i \in 1..n |-> IF from + i - 1 \in Slots
                                               THEN stack[from + i - 1] ELSE NULL]
    BY <2>1 DEF Seg
  <2>5. \A i \in 1..n : (IF from + i - 1 \in Slots THEN stack[from + i - 1] ELSE NULL)
                          = stack[sp - n + i - 1]
    BY <2>3
  <2> QED BY <2>2, <2>4, <2>5
<1> HIDE DEF free, fn
<1>7. o.type = "closure" /\ o.fn = fn /\ o.free = free
  BY DEF new_closure_obj
<1> HIDE DEF o
<1>8. /\ Len(heap) \in Nat /\ heap \in Seq(ObjectType)
      /\ Len(heap') = Len(heap) + 1 /\ heap'[id] = o
  <2>1. Len(heap) \in Nat /\ heap \in Seq(ObjectType)
    BY DEF Sound, TypeOK, HeapOK
  <2> QED BY <1>3, <2>1
<1>9. id \in Nat /\ id <= Len(heap') /\ id # NULL /\ HeapGrows
  BY <1>3, <1>8, GrowsFacts
<1> HIDE DEF id
<1>10. A!Result(id)
  <2>1. A!Now = Current /\ A!NULL = NULL
    BY ActsFacts, SameReading
  <2>2. heap'[id].type = "closure" /\ heap'[id].fn = fn /\ heap'[id].free = A!Taken(n)
    BY <1>6, <1>7, <1>8
  <2> QED BY <1>1, <1>2, <1>9, <2>1, <2>2 DEF A!Result, fn
<1> QED BY <1>2, <1>3, <1>4, <1>5, <1>9, <1>10, ComputeStep

LEMMA JumpStep ==
  ASSUME Sound,
         TARGET_JUMP \/ TARGET_JUMP_NOT_TRUTHY \/ TARGET_POP \/ TARGET_SET_GLOBAL
  PROVE  A!Move
<1>1. heap' = heap /\ stack' = stack
  BY DEF TARGET_JUMP, TARGET_JUMP_NOT_TRUTHY, TARGET_POP, TARGET_SET_GLOBAL
<1>2. sp \in Nat
  BY CurrentFacts
<1>3. CASE TARGET_JUMP
  <2>1. Current.op = "jump" /\ GoTo(Current.a) /\ sp' = sp
    BY <1>3 DEF TARGET_JUMP, At
  <2>2. Current.a \in Follow(Fn(Top).insts, Top.ip)
    BY <2>1 DEF Follow, Current, Returns, Unhandled
  <2>3. Gain(Current) = 0
    BY <2>1 DEF Gain, Loads, Binary, Arith, Logic, Equality, Compare
  <2> QED BY <1>1, <1>2, <2>1, <2>2, <2>3, MoveStep
<1>4. CASE TARGET_JUMP_NOT_TRUTHY
  <2>1. /\ Current.op = "jump_not_truthy" /\ sp' = sp - 1
        /\ GoTo(Current.a) \/ GoTo(Top.ip + InstLen(Current.op))
    BY <1>4 DEF TARGET_JUMP_NOT_TRUTHY, At, Step
  <2>2. {Current.a, Top.ip + InstLen(Current.op)} \subseteq Follow(Fn(Top).insts, Top.ip)
    BY <2>1 DEF Follow, Current, Returns, Unhandled
  <2>3. Gain(Current) = -1
    BY <2>1 DEF Gain, Loads, Binary, Arith, Logic, Equality, Compare
  <2>4. sp' = sp + Gain(Current)
    BY <1>2, <2>1, <2>3
  <2> QED BY <1>1, <2>1, <2>2, <2>4, MoveStep
<1>5. CASE TARGET_POP \/ TARGET_SET_GLOBAL
  <2>1. /\ Current.op \in {"pop", "set_global"} /\ GoTo(Top.ip + InstLen(Current.op))
        /\ sp' = IF Current.op = "pop" THEN sp - 1 ELSE sp
    BY <1>5 DEF TARGET_POP, TARGET_SET_GLOBAL, At, Step
  <2>2. Top.ip + InstLen(Current.op) \in Follow(Fn(Top).insts, Top.ip)
    BY <2>1 DEF Follow, Current, Returns, Unhandled
  <2>3. Gain(Current) = IF Current.op = "pop" THEN -1 ELSE 0
    BY <2>1 DEF Gain, Loads, Binary, Arith, Logic, Equality, Compare
  <2>4. sp' = sp + Gain(Current)
    BY <1>2, <2>1, <2>3
  <2> QED BY <1>1, <2>1, <2>2, <2>4, MoveStep
<1> QED BY <1>3, <1>4, <1>5

LEMMA ReturnsStep ==
  ASSUME Sound, TARGET_RETURN \/ TARGET_RETURN_VALUE
  PROVE  A!Return
<1>1. CASE TARGET_RETURN
  <2>1. Ready /\ Current.op = "return" /\ ReturnWith(NullObj)
    BY <1>1 DEF TARGET_RETURN, At
  <2> QED BY <2>1, ReturnActs DEF Returns, NullObj
<1>2. CASE TARGET_RETURN_VALUE
  <2>1. Ready /\ Current.op = "return_value" /\ ReturnWith(stack[sp - 1])
    BY <1>2 DEF TARGET_RETURN_VALUE, At, Right
  <2>2. stack[sp - 1] \in Nat
    BY <2>1, ReadyFacts, StackNat DEF Sound, StackType
  <2> QED BY <2>1, <2>2, ReturnActs DEF Returns
<1> QED BY <1>1, <1>2

LEMMA SameActs ==
  ASSUME UNCHANGED <<heap, stack, sp, frames>>
  PROVE  Acts' = Acts
  BY DEF Acts, ActivationOf, Segment, Fn

(* One step of the machine is one step of the activations, or none. *)
LEMMA ActivationsStep ==
  ASSUME Sound, vm_run
  PROVE  UNCHANGED A!actVars \/ A!Next
<1>1. ~TARGET_BANG
  BY TopMapped DEF TARGET_BANG, At
<1>2. CASE Stops
  BY <1>2, StopsFacts, SameActs DEF A!actVars, Acts
<1>3. CASE ~Stops
  <2>1. A!Compute \/ A!Move \/ A!SetLocal \/ A!Call \/ A!Return
    BY <1>1, <1>3, LoadsStep, BinaryStep, ClosureStep, JumpStep, SetLocalStep,
       CallActs, ReturnsStep DEF vm_run, Stops
  <2>2. consts' = consts
    BY <1>1, <1>3
       DEF vm_run, Stops, Load, ReturnWith,
           TARGET_CONST, TARGET_TRUE, TARGET_FALSE, TARGET_NULL,
           TARGET_CURRENT_CLOSURE, TARGET_GET_GLOBAL, TARGET_GET_LOCAL,
           TARGET_GET_FREE, TARGET_SET_GLOBAL, TARGET_SET_LOCAL, TARGET_ARITH,
           TARGET_BOOLEAN, TARGET_CLOSURE, TARGET_CALL,
           TARGET_RETURN, TARGET_RETURN_VALUE, TARGET_JUMP,
           TARGET_JUMP_NOT_TRUTHY, TARGET_POP
  <2>3. HeapGrows
    BY BottomStays DEF VMNext, Sound
  <2> QED BY <2>1, <2>2, <2>3 DEF A!Next, HeapGrows
<1> QED BY <1>2, <1>3

LEMMA ActivationsInit ==
  ASSUME VMInit, TypeOK, Trusted
  PROVE  A!Init
<1>1. PICK cl : frames = <<[cl |-> cl, ip |-> 0, base |-> 0]>> /\ sp = 0
  BY DEF VMInit, new_frame
<1>2. Len(frames) = 1 /\ DOMAIN frames = {1} /\ frames[1] = [cl |-> cl, ip |-> 0, base |-> 0]
  BY <1>1
<1>3. cl \in 1..Len(heap)
  <2>1. Top \in FrameType /\ Top = frames[1]
    BY <1>2, TopFacts DEF Top
  <2> QED BY <1>2, <2>1 DEF FrameType
<1>4. Fn(frames[1]).num_locals = 0
  BY DEF Trusted, AcceptedMain
<1>5. Segment(0, 0) = <<>>
  BY DEF Segment
<1>6. ActivationOf(1) = A!Activation(cl, <<>>)
  BY <1>1, <1>2, <1>4, <1>5 DEF ActivationOf, A!Activation
<1>7. Acts = <<A!Activation(cl, <<>>)>>
  BY <1>2, <1>6 DEF Acts
<1> QED BY <1>3, <1>7 DEF A!Init, Acts

(* A call keeps its locals and its operands to itself, and a return leaves *)
(* one result in the place of the callee: the handlers of vm_run, on code  *)
(* that keeps the promise of StackMap, are the steps of Activations, though *)
(* they only move sp, base_ptr and frame_idx over one array.               *)
THEOREM MachineImplementsActivations == VMSpec => ImplementsActivations
<1>1. TypeOK /\ VMInit => (Trusted => A!Init)
  BY ActivationsInit
<1>2. TypeOK /\ FramesTile /\ [VMNext]_machineVars =>
        [Trusted => UNCHANGED A!actVars \/ A!Next]_machineVars
  <2> SUFFICES ASSUME TypeOK, FramesTile, VMNext, Trusted
               PROVE  UNCHANGED A!actVars \/ A!Next
    OBVIOUS
  <2>1. CASE Running
    <3>1. ~Done /\ Sound
      BY <2>1 DEF Done, Sound
    <3> QED BY <3>1, ActivationsStep DEF VMNext
  <2>2. CASE ~Running
    <3>1. UNCHANGED <<heap, consts, stack, sp, frames>>
      <4>1. Done
        BY <2>2 DEF VMNext, vm_run, At, Ready, Underflow, Overflow, BadCode, Fault, Exit,
               TARGET_CONST, TARGET_TRUE, TARGET_FALSE, TARGET_NULL,
               TARGET_CURRENT_CLOSURE, TARGET_GET_GLOBAL, TARGET_GET_LOCAL,
               TARGET_GET_FREE, TARGET_SET_GLOBAL, TARGET_SET_LOCAL, TARGET_ARITH,
               TARGET_BOOLEAN, TARGET_BANG, TARGET_CLOSURE, TARGET_CALL,
               TARGET_RETURN, TARGET_RETURN_VALUE, TARGET_JUMP,
               TARGET_JUMP_NOT_TRUTHY, TARGET_POP, TARGET_HALT, UNHANDLED
      <4> QED BY <4>1 DEF Done, machineVars, objVars, vmVars
    <3> QED BY <3>1, SameActs DEF A!actVars, Acts
  <2> QED BY <2>1, <2>2
<1> QED BY <1>1, <1>2, TypeCorrect, StackMapSound, PTL DEF VMSpec, ImplementsActivations
=============================================================================
