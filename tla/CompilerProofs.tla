--------------------------- MODULE CompilerProofs ---------------------------
(***************************************************************************)
(* The compiler's invariants, for every tree the parser can build and      *)
(* every width of the operands.                                            *)
(*                                                                         *)
(* None of the properties is inductive: they need each other, and they     *)
(* need what the waiting calls will do.  CompilerInv collects it.  Each    *)
(* clause of Waits speaks of the call stack and of the code at once: who   *)
(* waits holds a position of the scope it will go on in, no two wait at    *)
(* the same position of a scope, and an op_pop waits only behind a call    *)
(* that leaves an instruction other than an op_pop.                        *)
(***************************************************************************)
EXTENDS Compiler, Induction, FiniteSetTheorems, FunctionTheorems

(* The calls, with the nodes they hold.  An instruction that loads a        *)
(* constant is emitted when the constant is added; none of them waits.     *)
Constants == {"constant", "closure"}
Deferred  == Opcode \ Constants
OfType(t) == {n \in Nodes : n.t = t}
Task ==
  [do : {"visit"}, node : Nodes]
    \cup [do : {"emit"}, op : Deferred, a : Nat]
    \cup [do : {"cond"}, node : OfType("ifelse")]
    \cup [do : {"body"}, node : OfType("ifelse"), pos : Nat]
    \cup [do : {"altern"}, pos : Nat]
    \cup [do : {"function"}, node : OfType("function")]

Pop == EmitTask("pop", 0)

IsPop(c)   == c.do = "emit" /\ c.op = "pop"
Holds(c)   == c.do \in {"body", "altern"}

(* What leaves the value of one node: an instruction that is no op_pop. *)
Yields(c) ==
  /\ c.do = "visit" => c.node.t # "block"
  /\ c.do = "emit" => c.op # "pop"

(* In w, an op_pop waits right behind a call that yields. *)
PopsFollow(w) == \A i \in 2..Len(w) : IsPop(w[i]) => Yields(w[i - 1])

(* The calls after the head of v has gone on with ts. *)
After(ts, v) == ts \o Tail(v)

(* The functions that wait in w behind the i-th call. *)
Functions(w, i) == {j \in i + 1..Len(w) : w[j].do = "function"}
Depth(w, i) == 1 + Cardinality(Functions(w, i))

-----------------------------------------------------------------------------
(* A table, and the tables a compiler holds. *)
TableType == [store : UNION {[D -> SymbolType] : D \in SUBSET STRING},
              free : Seq(SymbolType), num_defs : Nat]

(* The symbols of t are numbered and all of one scope. *)
Numbered(t, scope) ==
  /\ {t.store[n].index : n \in DOMAIN t.store} = 0..t.num_defs - 1
  /\ \A m, n \in DOMAIN t.store : t.store[m].index = t.store[n].index => m = n
  /\ \A n \in DOMAIN t.store : t.store[n].scope = scope

(* A scope whose last instructions are tracked. *)
Tracked(s) ==
  s.insts # <<>> =>
    /\ EndsWith(s.insts, s.last)
    /\ s.last.op = "pop" => /\ EndsWith(SubSeq(s.insts, 1, s.last.pos), s.prev)
                            /\ s.prev.op # "pop"

(* The code ends with an instruction that is no op_pop. *)
Yielded(s) == s.insts # <<>> /\ s.last.op # "pop"

JumpOf(c) == IF c.do = "body" THEN "jump_not_truthy" ELSE "jump"

(* The position c holds is a jump of insts with the placeholder. *)
HeldIn(c, insts) ==
  /\ IsInst(insts, c.pos)
  /\ insts[c.pos + 1] = Decoded(JumpOf(c), PLACEHOLDER, 0)

-----------------------------------------------------------------------------
(* The calls of w and the scopes sc agree. *)
Waits(w, sc) ==
  /\ Len(sc) = Depth(w, 0)
  /\ \A i \in DOMAIN w : Holds(w[i]) => HeldIn(w[i], sc[Depth(w, i)].insts)
  /\ \A i, j \in DOMAIN w :
       Holds(w[i]) /\ Holds(w[j]) /\ i # j /\ Depth(w, i) = Depth(w, j) => w[i].pos # w[j].pos
  /\ PopsFollow(w)
  /\ IsPop(Head(w)) => Yielded(sc[Len(sc)])

StateOK ==
  /\ heap \in Seq(ObjectType) /\ Len(heap) >= 3
  /\ nconsts \in Nat
  /\ DOMAIN consts \subseteq 0..nconsts - 1
  /\ \A i \in DOMAIN consts : consts[i] \in 1..Len(heap)
  /\ cstat \in {"compiling", "compiled", "crashed"}
  /\ failed \in BOOLEAN /\ released \in BOOLEAN

TablesOK ==
  /\ tables \in Seq(TableType)
  /\ Len(tables) = Len(scopes)
  /\ \A k \in DOMAIN tables : Numbered(tables[k], IF k = 1 THEN global_scope ELSE local_scope)

ScopesOK ==
  /\ scopes \in Seq(ScopeType) /\ Len(scopes) >= 1
  /\ \A k \in DOMAIN scopes : Tracked(scopes[k])

WorkOK ==
  /\ work \in Seq(Task)
  /\ Compiling => work # <<>> /\ work[Len(work)] = Halt
  /\ Compiling /\ failed => work = <<Halt>>
  /\ Compiling /\ ~failed => Waits(work, scopes)

CompilerInv == StateOK /\ TablesOK /\ ScopesOK /\ WorkOK

-----------------------------------------------------------------------------
(***************************************************************************)
(* Nodes and calls.                                                        *)
(***************************************************************************)
Exprs    == {n \in Nodes : n.t # "block"}
Branches == OfType("block")

(* What the parts of a node are. *)
LEMMA NodeFacts ==
  ASSUME NEW n \in Nodes
  PROVE  /\ n.t = "integer" => n.i \in Int
         /\ n.t = "identifier" => n.name \in STRING
         /\ n.t \in OperationTypes \cup {"assign"} => n.l \in Exprs /\ n.r \in Exprs
         /\ n.t = "block" => n.nodes \in Seq(Exprs)
         /\ n.t = "call" => n.fn \in Exprs /\ n.args \in Seq(Exprs)
         /\ n.t = "return" => n.val \in Exprs
         /\ n.t = "ifelse" => n.cond \in Exprs /\ n.body \in Branches /\ n.altern \in Nodes
         /\ n.t = "function" => n.params \in Seq(STRING) /\ n.body \in Branches
<1>1. n \in NodesOver(Nodes)
  BY NodesAssumption
<1>2. \/ n = NoNode \/ n = NullNode
      \/ n \in [t : {"integer"}, i : Int]
      \/ n \in [t : {"identifier"}, name : STRING]
      \/ n \in [t : OperationTypes \cup {"assign"}, l : Exprs, r : Exprs]
      \/ n \in [t : {"block"}, nodes : Seq(Exprs)]
      \/ n \in [t : {"call"}, fn : Exprs, args : Seq(Exprs)]
      \/ n \in [t : {"return"}, val : Exprs]
      \/ n \in [t : {"ifelse"}, cond : Exprs, body : Branches, altern : Nodes]
      \/ n \in [t : {"function"}, params : Seq(STRING), body : Branches]
  BY <1>1 DEF NodesOver, Exprs, Branches, OfType
<1> HIDE DEF Exprs, Branches
<1> QED BY <1>2 DEF NoNode, NullNode, OperationTypes

(* What a call holds, and the calls there are. *)
LEMMA TaskFacts ==
  ASSUME NEW c \in Task
  PROVE  /\ c.do = "visit" => c = Visit(c.node) /\ c.node \in Nodes
         /\ c.do = "emit" => c = EmitTask(c.op, c.a) /\ c.op \in Deferred /\ c.a \in Nat
         /\ c.do \in {"cond", "body"} => c.node \in Nodes /\ c.node.t = "ifelse"
         /\ c.do = "function" => c.node \in Nodes /\ c.node.t = "function"
         /\ Holds(c) => c.pos \in Nat
         /\ c.do \in {"visit", "emit", "cond", "body", "altern", "function"}
BY DEF Task, Holds, OfType, Visit, EmitTask

LEMMA TasksOf ==
  /\ \A n \in Nodes : Visit(n) \in Task
  /\ \A op \in Deferred, a \in Nat : EmitTask(op, a) \in Task
  /\ \A n \in OfType("ifelse") : AfterCond(n) \in Task
  /\ \A n \in OfType("ifelse"), p \in Nat : AfterBody(n, p) \in Task
  /\ \A p \in Nat : AfterAltern(p) \in Task
  /\ \A n \in OfType("function") : AfterFunction(n) \in Task
BY DEF Task, Visit, EmitTask, AfterCond, AfterBody, AfterAltern, AfterFunction

-----------------------------------------------------------------------------
(***************************************************************************)
(* The call stack: After(ts, v) takes the place of v.                     *)
(***************************************************************************)
LEMMA Behind ==
  ASSUME NEW v \in Seq(Task), v # <<>>, NEW ts \in Seq(Task)
  PROVE  /\ After(ts, v) \in Seq(Task)
         /\ Len(v) \in Nat /\ Len(v) >= 1 /\ Len(ts) \in Nat
         /\ Len(After(ts, v)) = Len(ts) + Len(v) - 1
         /\ \A i \in 1..Len(ts) : After(ts, v)[i] = ts[i]
         /\ \A i \in Len(ts) + 1..Len(After(ts, v)) : After(ts, v)[i] = v[i - Len(ts) + 1]
         /\ \A i \in 2..Len(v) : After(ts, v)[Len(ts) + i - 1] = v[i]
<1> DEFINE w == ts \o Tail(v)
<1>1. Tail(v) \in Seq(Task) /\ Len(Tail(v)) = Len(v) - 1
      /\ \A i \in 1..Len(v) - 1 : Tail(v)[i] = v[i + 1]
  OBVIOUS
<1>2. w \in Seq(Task) /\ Len(w) = Len(ts) + Len(v) - 1
  BY <1>1
<1>3. \A i \in 1..Len(ts) : w[i] = ts[i]
  BY <1>1
<1>4. ASSUME NEW i \in Len(ts) + 1..Len(w) PROVE w[i] = v[i - Len(ts) + 1]
  <2>1. w[i] = Tail(v)[i - Len(ts)]
    BY <1>1, <1>2
  <2>2. i - Len(ts) \in 1..Len(v) - 1
    BY <1>2
  <2> QED BY <1>1, <2>1, <2>2
<1>5. ASSUME NEW i \in 2..Len(v) PROVE w[Len(ts) + i - 1] = v[i]
  <2> DEFINE j == Len(ts) + i - 1
  <2>1. j \in Nat /\ j = Len(ts) + i - 1
    OBVIOUS
  <2>2. j \in Len(ts) + 1..Len(w) /\ j - Len(ts) + 1 = i
    BY <1>2, <2>1
  <2> HIDE DEF j, w
  <2> QED BY <1>4, <2>1, <2>2
<1>6. Len(v) \in Nat /\ Len(v) >= 1 /\ Len(ts) \in Nat
  OBVIOUS
<1> HIDE DEF w
<1>7. w = After(ts, v)
  BY DEF w, After
<1> QED BY <1>2, <1>3, <1>4, <1>5, <1>6, <1>7

LEMMA FunctionsFinite ==
  ASSUME NEW w \in Seq(Task), NEW i \in Nat
  PROVE  /\ Functions(w, i) \subseteq i + 1..Len(w)
         /\ IsFiniteSet(Functions(w, i))
         /\ Depth(w, i) \in Nat /\ Depth(w, i) >= 1
<1>1. Functions(w, i) \in SUBSET (i + 1..Len(w))
  BY DEF Functions
<1>2. IsFiniteSet(i + 1..Len(w))
  BY FS_Interval
<1>3. IsFiniteSet(Functions(w, i))
  BY <1>1, <1>2, FS_Subset
<1>4. Cardinality(Functions(w, i)) \in Nat
  BY <1>3, FS_CardinalityType
<1> QED BY <1>1, <1>3, <1>4 DEF Depth

(* One call further in. *)
LEMMA DepthOnce ==
  ASSUME NEW w \in Seq(Task), NEW i \in 1..Len(w), NEW j \in Nat, j = i - 1
  PROVE  Depth(w, j) = IF w[i].do = "function" THEN Depth(w, i) + 1 ELSE Depth(w, i)
<1>1. IsFiniteSet(Functions(w, i)) /\ Cardinality(Functions(w, i)) \in Nat /\ i \notin Functions(w, i)
  <2>1. IsFiniteSet(Functions(w, i)) /\ Functions(w, i) \subseteq i + 1..Len(w)
    BY FunctionsFinite
  <2> QED BY <2>1, FS_CardinalityType
<1>2. CASE w[i].do = "function"
  <2>1. Functions(w, j) = Functions(w, i) \cup {i}
    BY <1>2 DEF Functions
  <2>2. Cardinality(Functions(w, j)) = Cardinality(Functions(w, i)) + 1
    BY <1>1, <2>1, FS_AddElement
  <2> QED BY <1>1, <1>2, <2>2 DEF Depth
<1>3. CASE w[i].do # "function"
  <2>1. Functions(w, j) = Functions(w, i)
    BY <1>3 DEF Functions
  <2> QED BY <1>3, <2>1 DEF Depth
<1> QED BY <1>2, <1>3

(* Further in is not less deep. *)
LEMMA DepthMonotone ==
  ASSUME NEW w \in Seq(Task), NEW i \in Nat, NEW j \in Nat, i <= j
  PROVE  Depth(w, j) <= Depth(w, i)
<1>1. Functions(w, j) \in SUBSET Functions(w, i) /\ IsFiniteSet(Functions(w, i))
  <2>1. j + 1..Len(w) \subseteq i + 1..Len(w)
    OBVIOUS
  <2>2. Functions(w, j) \subseteq Functions(w, i)
    BY <2>1 DEF Functions
  <2> QED BY <2>2, FunctionsFinite
<1>2. Cardinality(Functions(w, j)) <= Cardinality(Functions(w, i))
  BY <1>1, FS_Subset
<1>3. Cardinality(Functions(w, j)) \in Nat /\ Cardinality(Functions(w, i)) \in Nat
  BY FunctionsFinite, FS_CardinalityType
<1> QED BY <1>2, <1>3 DEF Depth

(* What waited goes on waiting, in the same scope. *)
LEMMA DepthBehind ==
  ASSUME NEW v \in Seq(Task), v # <<>>, NEW ts \in Seq(Task)
  PROVE  \A i \in 1..Len(v) : \A j \in Nat :
           j = Len(ts) + i - 1 => Depth(After(ts, v), j) = Depth(v, i)
<1> DEFINE w == After(ts, v)
<1> SUFFICES ASSUME NEW i \in 1..Len(v), NEW j \in Nat, j = Len(ts) + i - 1
             PROVE  Depth(w, j) = Depth(v, i)
  OBVIOUS
<1> DEFINE S == Functions(v, i)
           T == Functions(w, j)
           f == [x \in S |-> x + (j - i)]
<1>1. /\ w \in Seq(Task) /\ Len(v) \in Nat /\ Len(ts) \in Nat
      /\ Len(w) = Len(ts) + Len(v) - 1
      /\ \A k \in Len(ts) + 1..Len(w) : w[k] = v[k - Len(ts) + 1]
      /\ \A k \in 2..Len(v) : w[Len(ts) + k - 1] = v[k]
  BY Behind
<1>2. S \subseteq Int /\ T \subseteq Int /\ IsFiniteSet(S)
  <2>0. i \in Nat
    BY <1>1
  <2>1. S \subseteq i + 1..Len(v) /\ IsFiniteSet(S)
    BY <2>0, FunctionsFinite
  <2>2. T \subseteq j + 1..Len(w)
    BY <1>1, FunctionsFinite
  <2> HIDE DEF S, T
  <2> QED BY <1>1, <2>0, <2>1, <2>2
<1>3. ASSUME NEW x \in S PROVE x + (j - i) \in T
  <2>1. x \in i + 1..Len(v) /\ v[x].do = "function"
    BY DEF Functions
  <2>2. x \in 2..Len(v) /\ x + (j - i) = Len(ts) + x - 1
    BY <1>1, <2>1
  <2>3. w[x + (j - i)] = v[x]
    BY <1>1, <2>2
  <2>4. x + (j - i) \in j + 1..Len(w)
    BY <1>1, <2>1
  <2> QED BY <2>1, <2>3, <2>4 DEF Functions
<1>4. ASSUME NEW y \in T PROVE \E x \in S : x + (j - i) = y
  <2>1. y \in j + 1..Len(w) /\ w[y].do = "function"
    BY DEF Functions
  <2> DEFINE x == y - Len(ts) + 1
  <2>2. x \in Int /\ x = y - Len(ts) + 1
    BY <1>1, <2>1
  <2> HIDE DEF x
  <2>3. y \in Len(ts) + 1..Len(w) /\ x \in i + 1..Len(v) /\ x + (j - i) = y
    BY <1>1, <2>1, <2>2
  <2>4. w[y] = v[x]
    BY <1>1, <2>2, <2>3
  <2> QED BY <2>1, <2>3, <2>4 DEF Functions
<1> HIDE DEF S, T
<1>5. f \in Bijection(S, T)
  <2>1. f \in [S -> T] /\ \A x, y \in S : f[x] = f[y] => x = y
    BY <1>2, <1>3
  <2>2. \A y \in T : \E x \in S : f[x] = y
    BY <1>4
  <2> QED BY <2>1, <2>2, Fun_IsBij
<1>6. Cardinality(T) = Cardinality(S)
  BY <1>2, <1>5, FS_Bijection DEF ExistsBijection
<1> QED BY <1>6 DEF Depth, S, T

(* Each call of After(ts, v) is one of ts, or waited in v behind the      *)
(* head.                                                                   *)
LEMMA WhoWaits ==
  ASSUME NEW v \in Seq(Task), v # <<>>, NEW ts \in Seq(Task), NEW i \in DOMAIN After(ts, v)
  PROVE  \/ i \in 1..Len(ts) /\ After(ts, v)[i] = ts[i]
         \/ \E j \in 2..Len(v) : /\ i = Len(ts) + j - 1
                                 /\ After(ts, v)[i] = v[j]
                                 /\ Depth(After(ts, v), i) = Depth(v, j)
<1> DEFINE w == After(ts, v)
<1>1. /\ w \in Seq(Task) /\ Len(v) \in Nat /\ Len(ts) \in Nat
      /\ Len(w) = Len(ts) + Len(v) - 1
      /\ \A k \in 1..Len(ts) : w[k] = ts[k]
      /\ \A k \in Len(ts) + 1..Len(w) : w[k] = v[k - Len(ts) + 1]
  BY Behind
<1>2. CASE i \in 1..Len(ts)
  BY <1>1, <1>2
<1>3. CASE i \notin 1..Len(ts)
  <2>1. i \in Len(ts) + 1..Len(w)
    BY <1>1, <1>3
  <2> DEFINE k == i - Len(ts) + 1
  <2> HIDE DEF w
  <2>2. k \in 2..Len(v) /\ i = Len(ts) + k - 1 /\ i \in Nat /\ k \in 1..Len(v)
    BY <1>1, <2>1
  <2>3. w[i] = v[k]
    BY <1>1, <2>1
  <2> HIDE DEF k
  <2>4. PICK j \in 1..Len(v) : j = k
    BY <2>2
  <2>5. Depth(w, i) = Depth(v, j)
    <3>1. i \in Nat /\ i = Len(ts) + j - 1
      BY <2>2, <2>4
    <3> QED BY <3>1, DepthBehind DEF w
  <2>6. j \in 2..Len(v) /\ i = Len(ts) + j - 1 /\ w[i] = v[j]
    BY <2>2, <2>3, <2>4
  <2> QED BY <2>5, <2>6 DEF w
<1> QED BY <1>2, <1>3

(* A function's first calls: no op_pop waits without a value before it. *)
Planned(ts) ==
  /\ ts \in Seq(Task)
  /\ \A i \in DOMAIN ts : IsPop(ts[i]) => i # 1
  /\ PopsFollow(ts)

LEMMA PopsBehind ==
  ASSUME NEW v \in Seq(Task), v # <<>>, PopsFollow(v), NEW ts, Planned(ts),
         ts # <<>> /\ Yields(v[1]) => Yields(ts[Len(ts)])
  PROVE  /\ PopsFollow(After(ts, v))
         /\ After(ts, v) # <<>> /\ IsPop(Head(After(ts, v))) => ts = <<>> /\ Yields(v[1])
<1> DEFINE w == After(ts, v)
<1>1. ts \in Seq(Task)
  BY DEF Planned
<1>2. /\ w \in Seq(Task) /\ Len(v) \in Nat /\ Len(v) >= 1 /\ Len(ts) \in Nat
      /\ Len(w) = Len(ts) + Len(v) - 1
      /\ \A k \in 1..Len(ts) : w[k] = ts[k]
      /\ \A k \in Len(ts) + 1..Len(w) : w[k] = v[k - Len(ts) + 1]
  BY <1>1, Behind
<1>3. ASSUME NEW i \in 1..Len(w), IsPop(w[i])
      PROVE  \/ i >= 2 /\ Yields(w[i - 1])
             \/ i = 1 /\ ts = <<>> /\ Yields(v[1])
  <2>1. CASE i \in 1..Len(ts)
    <3>1. w[i] = ts[i] /\ i # 1
      BY <1>2, <1>3, <2>1 DEF Planned
    <3>2. i \in 2..Len(ts) /\ i - 1 \in 1..Len(ts) /\ w[i - 1] = ts[i - 1]
      BY <1>2, <2>1, <3>1
    <3>3. Yields(ts[i - 1])
      BY <1>3, <3>1, <3>2 DEF Planned, PopsFollow
    <3> QED BY <3>2, <3>3
  <2>2. CASE i \notin 1..Len(ts)
    <3> DEFINE j == i - Len(ts) + 1
    <3>1. j \in 2..Len(v) /\ w[i] = v[j] /\ i = j + Len(ts) - 1
      BY <1>2, <2>2
    <3>2. Yields(v[j - 1])
      BY <1>3, <3>1 DEF PopsFollow
    <3>3. CASE j = 2
      <4>1. i = Len(ts) + 1 /\ Yields(v[1])
        BY <1>2, <3>1, <3>2, <3>3
      <4>2. CASE ts = <<>>
        BY <4>1, <4>2
      <4>3. CASE ts # <<>>
        <5>1. Len(ts) >= 1 /\ i - 1 = Len(ts)
          BY <1>1, <4>1, <4>3
        <5> QED BY <1>2, <4>1, <4>3, <5>1
      <4> QED BY <4>2, <4>3
    <3>4. CASE j # 2
      <4>1. i - 1 \in Len(ts) + 1..Len(w) /\ (i - 1) - Len(ts) + 1 = j - 1 /\ i >= 2
        BY <1>2, <3>1, <3>4
      <4>2. w[i - 1] = v[j - 1]
        BY <1>2, <4>1
      <4> QED BY <3>2, <4>1, <4>2
    <3> QED BY <3>3, <3>4
  <2> QED BY <2>1, <2>2
<1>4. \A i \in 2..Len(w) : IsPop(w[i]) => Yields(w[i - 1])
  BY <1>2, <1>3
<1>5. w # <<>> => Head(w) = w[1] /\ 1 \in 1..Len(w)
  BY <1>2
<1> QED BY <1>3, <1>4, <1>5 DEF PopsFollow

-----------------------------------------------------------------------------
(***************************************************************************)
(* A scope changes under the calls that wait for it.                       *)
(***************************************************************************)
Jumps == {"jump", "jump_not_truthy"}

(* The jumps of old are in new as they were, but for those at P. *)
KeepsJumps(old, new, P) ==
  \A q \in 0..Len(old) - 1 :
    q \notin P /\ old[q + 1].op \in Jumps => q < Len(new) /\ new[q + 1] = old[q + 1]

LEMMA HeldStays ==
  ASSUME NEW old \in Seq(Cell), NEW new \in Seq(Cell), NEW P, KeepsJumps(old, new, P),
         NEW c, Holds(c), HeldIn(c, old), c.pos \notin P
  PROVE  HeldIn(c, new)
<1>1. c.pos \in 0..Len(old) - 1 /\ old[c.pos + 1] \in Inst
      /\ old[c.pos + 1] = Decoded(JumpOf(c), PLACEHOLDER, 0)
  BY DEF HeldIn, IsInst
<1>2. old[c.pos + 1].op \in Jumps
  BY <1>1 DEF Decoded, JumpOf, Jumps
<1>3. c.pos < Len(new) /\ new[c.pos + 1] = old[c.pos + 1]
  BY <1>1, <1>2 DEF KeepsJumps
<1> QED BY <1>1, <1>3 DEF HeldIn, IsInst

(* A jump that is held is no other instruction's place. *)
LEMMA HeldIsJump ==
  ASSUME NEW insts, NEW c, Holds(c), HeldIn(c, insts)
  PROVE  c.pos \in 0..Len(insts) - 1 /\ insts[c.pos + 1].op = JumpOf(c) /\ JumpOf(c) \in Jumps
BY DEF HeldIn, IsInst, Decoded, JumpOf, Jumps

(***************************************************************************)
(* One function goes on up to its next call, in the scope it is in: the    *)
(* head of v becomes ts, and the innermost scope becomes s, in which the   *)
(* jumps at P are patched.                                                 *)
(***************************************************************************)
Goes(v, sc, ts, s, P) ==
  /\ v \in Seq(Task) /\ Len(v) >= 2 /\ v[1].do # "function"
  /\ sc \in Seq(ScopeType) /\ Len(sc) >= 1
  /\ Waits(v, sc)
  /\ Planned(ts)
  /\ \A i \in DOMAIN ts : ts[i].do # "function"
  /\ s \in ScopeType
  /\ Yields(v[1]) => IF ts = <<>> THEN Yielded(s) ELSE Yields(ts[Len(ts)])
  /\ KeepsJumps(sc[Len(sc)].insts, s.insts, P)
  /\ \A i \in 2..Len(v) : Holds(v[i]) /\ Depth(v, i) = Len(sc) => v[i].pos \notin P
  /\ \A i \in DOMAIN ts : Holds(ts[i]) =>
       /\ i = Len(ts) /\ HeldIn(ts[i], s.insts)
       /\ \A j \in 2..Len(v) :
            Holds(v[j]) /\ Depth(v, j) = Len(sc) => v[j].pos # ts[i].pos

LEMMA WaitsOn ==
  ASSUME NEW v, NEW sc, NEW ts, NEW s, NEW P, Goes(v, sc, ts, s, P)
  PROVE  Waits(After(ts, v), [sc EXCEPT ![Len(sc)] = s])
<1> DEFINE w == After(ts, v)
           new == [sc EXCEPT ![Len(sc)] = s]
<1>1. /\ v \in Seq(Task) /\ Len(v) \in Nat /\ Len(v) >= 2 /\ v # <<>>
      /\ ts \in Seq(Task) /\ Len(ts) \in Nat
      /\ sc \in Seq(ScopeType) /\ Len(sc) \in Nat /\ Len(sc) >= 1
  BY DEF Goes, Planned
<1>2. /\ w \in Seq(Task) /\ Len(w) = Len(ts) + Len(v) - 1 /\ w # <<>>
      /\ \A i \in 1..Len(ts) : w[i] = ts[i]
  <2>1. /\ w \in Seq(Task) /\ Len(w) = Len(ts) + Len(v) - 1
        /\ \A i \in 1..Len(ts) : w[i] = ts[i]
    BY <1>1, Behind
  <2> HIDE DEF w
  <2>2. w # <<>>
    BY <1>1, <2>1
  <2> QED BY <2>1, <2>2
<1>3. /\ Len(new) = Len(sc) /\ new[Len(sc)] = s
      /\ \A k \in 1..Len(sc) : k # Len(sc) => new[k] = sc[k]
  BY <1>1
<1> HIDE DEF w, new
<1>4. Depth(v, 0) = Len(sc) /\ Depth(v, 1) = Len(sc)
  <2>1. Depth(v, 0) = Len(sc)
    BY DEF Goes, Waits
  <2>2. Depth(v, 0) = Depth(v, 1)
    BY <1>1, DepthOnce DEF Goes
  <2> QED BY <2>1, <2>2
<1>5. \A i \in 0..Len(ts) : Depth(w, i) = Len(sc)
  <2>1. Depth(w, Len(ts)) = Len(sc)
    <3>1. 1 \in 1..Len(v) /\ Len(ts) = Len(ts) + 1 - 1
      BY <1>1
    <3>2. Depth(After(ts, v), Len(ts)) = Depth(v, 1)
      BY <1>1, <3>1, DepthBehind
    <3> QED BY <1>4, <3>2 DEF w
  <2>2. ASSUME NEW i \in 0..Len(ts) PROVE Functions(w, i) = Functions(w, Len(ts))
    <3>1. ASSUME NEW j \in i + 1..Len(w), w[j].do = "function" PROVE j \in Len(ts) + 1..Len(w)
      <4>1. j \notin 1..Len(ts)
        BY <1>1, <1>2, <3>1 DEF Goes
      <4> QED BY <1>1, <1>2, <4>1
    <3>2. ASSUME NEW j \in Len(ts) + 1..Len(w) PROVE j \in i + 1..Len(w)
      BY <1>1, <1>2
    <3> QED BY <3>1, <3>2 DEF Functions
  <2> QED BY <2>1, <2>2 DEF Depth
<1>6. \A i \in 2..Len(v) : Depth(v, i) \in 1..Len(sc)
  <2>1. ASSUME NEW i \in 2..Len(v) PROVE Depth(v, i) \in 1..Len(sc)
    <3>1. Depth(v, i) \in Nat /\ Depth(v, i) >= 1
      BY <1>1, FunctionsFinite
    <3>2. Depth(v, i) <= Depth(v, 0)
      BY <1>1, DepthMonotone
    <3> QED BY <1>1, <1>4, <3>1, <3>2
  <2> QED BY <2>1
<1>7. \A i \in DOMAIN w :
        \/ i \in 1..Len(ts) /\ w[i] = ts[i] /\ Depth(w, i) = Len(sc)
        \/ \E j \in 2..Len(v) : /\ i = Len(ts) + j - 1 /\ w[i] = v[j]
                                /\ Depth(w, i) = Depth(v, j)
  BY <1>1, <1>5, WhoWaits DEF w
<1>8. ASSUME NEW j \in 2..Len(v), Holds(v[j])
      PROVE  HeldIn(v[j], new[Depth(v, j)].insts)
  <2>1. HeldIn(v[j], sc[Depth(v, j)].insts)
    BY <1>1, <1>8 DEF Goes, Waits
  <2>2. CASE Depth(v, j) = Len(sc)
    <3>1. sc[Len(sc)].insts \in Seq(Cell) /\ s.insts \in Seq(Cell)
      <4>1. sc[Len(sc)] \in ScopeType /\ s \in ScopeType
        BY <1>1 DEF Goes
      <4> QED BY <4>1 DEF ScopeType
    <3>2. KeepsJumps(sc[Len(sc)].insts, s.insts, P) /\ v[j].pos \notin P
      BY <1>8, <2>2 DEF Goes
    <3>3. HeldIn(v[j], s.insts)
      BY <1>8, <2>1, <2>2, <3>1, <3>2, HeldStays
    <3> QED BY <1>3, <2>2, <3>3
  <2>3. CASE Depth(v, j) # Len(sc)
    <3>1. new[Depth(v, j)] = sc[Depth(v, j)]
      BY <1>3, <1>6, <2>3
    <3> QED BY <2>1, <3>1
  <2> QED BY <2>2, <2>3
<1>9. ASSUME NEW i \in DOMAIN w, Holds(w[i]) PROVE HeldIn(w[i], new[Depth(w, i)].insts)
  <2>1. CASE i \in 1..Len(ts) /\ w[i] = ts[i] /\ Depth(w, i) = Len(sc)
    <3>1. HeldIn(ts[i], s.insts)
      BY <1>1, <1>9, <2>1 DEF Goes
    <3> QED BY <1>3, <2>1, <3>1
  <2>2. CASE \E j \in 2..Len(v) : i = Len(ts) + j - 1 /\ w[i] = v[j] /\ Depth(w, i) = Depth(v, j)
    BY <1>8, <1>9, <2>2
  <2> QED BY <1>7, <2>1, <2>2
<1>10. ASSUME NEW i \in DOMAIN w, NEW j \in DOMAIN w, Holds(w[i]), Holds(w[j]), i # j,
              Depth(w, i) = Depth(w, j)
       PROVE  w[i].pos # w[j].pos
  <2>1. ASSUME NEW a \in 1..Len(ts), Holds(ts[a]), NEW b \in 2..Len(v), Holds(v[b]),
               Depth(v, b) = Len(sc)
        PROVE  a = Len(ts) /\ v[b].pos # ts[a].pos
    BY <1>1, <2>1 DEF Goes
  <2>2. ASSUME NEW a \in 1..Len(ts), Holds(ts[a]) PROVE a = Len(ts)
    BY <1>1, <2>2 DEF Goes
  <2>3. ASSUME NEW a \in 2..Len(v), NEW b \in 2..Len(v), Holds(v[a]), Holds(v[b]), a # b,
               Depth(v, a) = Depth(v, b)
        PROVE  v[a].pos # v[b].pos
    BY <1>1, <2>3 DEF Goes, Waits
  <2> DEFINE New(a) == a \in 1..Len(ts) /\ w[a] = ts[a] /\ Depth(w, a) = Len(sc)
             Old(a) == \E b \in 2..Len(v) : /\ a = Len(ts) + b - 1 /\ w[a] = v[b]
                                            /\ Depth(w, a) = Depth(v, b)
  <2>4. (New(i) \/ Old(i)) /\ (New(j) \/ Old(j))
    BY <1>7
  <2>5. CASE New(i) /\ New(j)
    BY <1>10, <2>2, <2>5
  <2>6. CASE New(i) /\ Old(j)
    BY <1>10, <2>1, <2>6
  <2>7. CASE Old(i) /\ New(j)
    BY <1>10, <2>1, <2>7
  <2>8. CASE Old(i) /\ Old(j)
    <3>1. PICK a \in 2..Len(v) : i = Len(ts) + a - 1 /\ w[i] = v[a] /\ Depth(w, i) = Depth(v, a)
      BY <2>8
    <3>2. PICK b \in 2..Len(v) : j = Len(ts) + b - 1 /\ w[j] = v[b] /\ Depth(w, j) = Depth(v, b)
      BY <2>8
    <3>3. a # b
      BY <1>10, <3>1, <3>2
    <3>4. Holds(v[a]) /\ Holds(v[b]) /\ Depth(v, a) = Depth(v, b)
      BY <1>10, <3>1, <3>2
    <3>5. v[a].pos # v[b].pos
      BY <2>3, <3>3, <3>4
    <3> QED BY <3>1, <3>2, <3>5
  <2> QED BY <2>4, <2>5, <2>6, <2>7, <2>8
<1>11. PopsFollow(w) /\ (IsPop(Head(w)) => ts = <<>> /\ Yields(v[1]))
  <2>1. PopsFollow(v) /\ Planned(ts)
    BY DEF Goes, Waits
  <2>2. ts # <<>> /\ Yields(v[1]) => Yields(ts[Len(ts)])
    BY DEF Goes
  <2> QED BY <1>1, <1>2, <2>1, <2>2, PopsBehind DEF w
<1>12. IsPop(Head(w)) => Yielded(new[Len(new)])
  BY <1>3, <1>11 DEF Goes
<1>13. Len(new) = Depth(w, 0)
  BY <1>1, <1>3, <1>5
<1>14. Waits(w, new)
  BY <1>9, <1>10, <1>11, <1>12, <1>13 DEF Waits
<1> QED BY <1>14 DEF w, new

-----------------------------------------------------------------------------
(***************************************************************************)
(* The emitter.                                                            *)
(***************************************************************************)
LEMMA ConcatFacts ==
  ASSUME NEW S, NEW a \in Seq(S), NEW b \in Seq(S)
  PROVE  /\ a \o b \in Seq(S) /\ Len(a \o b) = Len(a) + Len(b)
         /\ \A i \in 1..Len(a) : (a \o b)[i] = a[i]
         /\ \A i \in 1..Len(b) : (a \o b)[Len(a) + i] = b[i]
OBVIOUS

LEMMA EncodeFacts ==
  ASSUME NEW op \in Opcode, NEW a \in Nat, NEW b \in Nat
  PROVE  /\ Encode(op, a, b) \in Seq(Cell)
         /\ Len(Encode(op, a, b)) = InstLen(op) /\ InstLen(op) \in 1..5
         /\ Encode(op, a, b)[1] = Decoded(op, a, b)
         /\ Decoded(op, a, b) \in Inst /\ Decoded(op, a, b).op = op
<1>1. InstLen(op) \in 1..5
  BY DEF InstLen
<1>2. Decoded(op, a, b) \in Inst /\ Decoded(op, a, b).op = op
  <2>1. a % U16 \in Nat /\ a % U8 \in Nat /\ b % U8 \in Nat /\ b % U16 \in Nat
    BY WidthAssumption
  <2> QED BY <2>1 DEF Decoded, Inst
<1> DEFINE rest == [i \in 1..InstLen(op) - 1 |-> Operand]
<1>3. rest \in Seq(Cell) /\ Len(rest) = InstLen(op) - 1
  <2>1. InstLen(op) - 1 \in Nat /\ Operand \in Cell
    BY <1>1 DEF Cell
  <2> HIDE DEF Cell
  <2>2. rest \in [1..InstLen(op) - 1 -> Cell]
    BY <2>1
  <2> QED BY <2>1, <2>2
<1>4. <<Decoded(op, a, b)>> \in Seq(Cell) /\ Len(<<Decoded(op, a, b)>>) = 1
      /\ <<Decoded(op, a, b)>>[1] = Decoded(op, a, b)
  <2>1. Decoded(op, a, b) \in Cell
    BY <1>2 DEF Cell
  <2> HIDE DEF Cell
  <2> QED BY <2>1
<1>5. Encode(op, a, b) = <<Decoded(op, a, b)>> \o rest
  BY DEF Encode
<1> HIDE DEF rest
<1> DEFINE first == <<Decoded(op, a, b)>>
<1> HIDE DEF first
<1>6. first \in Seq(Cell) /\ Len(first) = 1 /\ first[1] = Decoded(op, a, b)
  BY <1>4 DEF first
<1>7. Encode(op, a, b) = first \o rest
  BY <1>5 DEF first
<1>8. first \o rest \in Seq(Cell) /\ Len(first \o rest) = InstLen(op)
  <2>1. first \o rest \in Seq(Cell)
    BY <1>3, <1>6
  <2>2. Len(first \o rest) = Len(first) + Len(rest)
    BY <1>3, <1>6, ConcatFacts
  <2> QED BY <1>1, <1>3, <1>6, <2>1, <2>2
<1>9. (first \o rest)[1] = Decoded(op, a, b)
  BY <1>1, <1>3, <1>6
<1> QED BY <1>1, <1>2, <1>7, <1>8, <1>9

(* The code b is the code a with more behind it; the instructions at P may *)
(* have another operand.                                                   *)
Grown(a, b, P) ==
  \A p \in DOMAIN a : p \in DOMAIN b /\ (b[p] = a[p] \/ (p - 1 \in P /\ b[p].op = a[p].op))

(* The same, but an op_pop at the end may be gone. *)
Stands(a, b, P) ==
  \A p \in DOMAIN a :
    \/ p \in DOMAIN b /\ (b[p] = a[p] \/ (p - 1 \in P /\ b[p].op = a[p].op))
    \/ p = Len(a) /\ a[p].op = "pop"

LEMMA StandsThenGrown ==
  ASSUME NEW a \in Seq(Cell), NEW b \in Seq(Cell), NEW c \in Seq(Cell), NEW P, NEW Q
  PROVE  /\ Grown(a, b, P) => Stands(a, b, P)
         /\ Grown(a, b, P) /\ Grown(b, c, Q) => Grown(a, c, P \cup Q)
         /\ Stands(a, b, P) /\ Grown(b, c, Q) => Stands(a, c, P \cup Q)
         /\ Stands(a, b, P) => KeepsJumps(a, b, P)
<1>1. Grown(a, b, P) => Stands(a, b, P)
  BY DEF Grown, Stands
<1>2. Grown(a, b, P) /\ Grown(b, c, Q) => Grown(a, c, P \cup Q)
  BY DEF Grown
<1>3. Stands(a, b, P) /\ Grown(b, c, Q) => Stands(a, c, P \cup Q)
  BY DEF Grown, Stands
<1>4. ASSUME Stands(a, b, P), NEW q \in 0..Len(a) - 1, q \notin P, a[q + 1].op \in Jumps
      PROVE  q < Len(b) /\ b[q + 1] = a[q + 1]
  <2>1. q + 1 \in DOMAIN a /\ q + 1 - 1 = q /\ a[q + 1].op # "pop"
    BY <1>4 DEF Jumps
  <2>2. q + 1 \in DOMAIN b /\ b[q + 1] = a[q + 1]
    BY <1>4, <2>1 DEF Stands
  <2> QED BY <2>2
<1> QED BY <1>1, <1>2, <1>3, <1>4 DEF KeepsJumps

(* What compiler_emit does to a scope. *)
LEMMA EmitFacts ==
  ASSUME NEW s \in ScopeType, NEW op \in Opcode, NEW a \in Nat, NEW b \in Nat
  PROVE  /\ compiler_emit(s, op, a, b) \in ScopeType
         /\ Len(compiler_emit(s, op, a, b).insts) = Len(s.insts) + InstLen(op)
         /\ Grown(s.insts, compiler_emit(s, op, a, b).insts, {})
         /\ compiler_emit(s, op, a, b).insts[Len(s.insts) + 1] = Decoded(op, a, b)
         /\ IsInst(compiler_emit(s, op, a, b).insts, Len(s.insts))
         /\ compiler_emit(s, op, a, b).last = Emitted(op, Len(s.insts))
         /\ op # "pop" => Tracked(compiler_emit(s, op, a, b)) /\ Yielded(compiler_emit(s, op, a, b))
         /\ Tracked(s) /\ Yielded(s) => Tracked(compiler_emit(s, op, a, b))
<1> DEFINE e == compiler_emit(s, op, a, b)
           code == Encode(op, a, b)
           pos == Len(s.insts)
           long == s.insts \o code
<1>1. s.insts \in Seq(Cell) /\ s.last \in EmittedType /\ s.prev \in EmittedType /\ pos \in Nat
  BY DEF ScopeType
<1>2. /\ code \in Seq(Cell) /\ Len(code) = InstLen(op) /\ InstLen(op) \in 1..5
      /\ code[1] = Decoded(op, a, b)
      /\ Decoded(op, a, b) \in Inst /\ Decoded(op, a, b).op = op
  BY EncodeFacts
<1>3. e.insts = long /\ e.last = Emitted(op, pos) /\ e.prev = s.last
      /\ e = [insts |-> long, last |-> Emitted(op, pos), prev |-> s.last]
  <2>1. s = [insts |-> s.insts, last |-> s.last, prev |-> s.prev]
    BY DEF ScopeType
  <2> DEFINE t == [s EXCEPT !.insts = long]
  <2>3. e = [t EXCEPT !.prev = t.last, !.last = Emitted(op, pos)]
    BY DEF compiler_emit, compiler_set_last_inst, compiler_pos
  <2> HIDE DEF long, pos, e
  <2>2. t = [insts |-> long, last |-> s.last, prev |-> s.prev]
    BY <2>1
  <2> HIDE DEF t
  <2> QED BY <2>2, <2>3
<1> HIDE DEF e, code, pos
<1>4. /\ long \in Seq(Cell) /\ Len(long) = pos + InstLen(op)
      /\ \A p \in 1..pos : long[p] = s.insts[p]
      /\ long[pos + 1] = Decoded(op, a, b)
  <2>1. s.insts \in Seq(Cell) /\ Len(s.insts) = pos /\ pos \in Nat
    BY <1>1 DEF pos
  <2>2. InstLen(op) \in Nat /\ InstLen(op) >= 1
    BY <1>2
  <2> HIDE DEF Cell
  <2>3. /\ long \in Seq(Cell) /\ Len(long) = pos + InstLen(op)
        /\ \A p \in 1..pos : long[p] = s.insts[p]
    BY <1>2, <2>1
  <2>4. long[pos + 1] = code[1]
    <3> DEFINE t == s.insts  k == Len(code)
    <3>1. t \in Seq(Cell) /\ code \in Seq(Cell) /\ Len(t) = pos /\ pos \in Nat
          /\ k \in Nat /\ k >= 1 /\ long = t \o code
      BY <1>2, <2>1, <2>2
    <3>2. k = Len(code)
      OBVIOUS
    <3> HIDE DEF t, k, long
    <3>3. pos + 1 \in 1..(Len(t) + Len(code)) /\ ~(pos + 1 <= Len(t)) /\ (pos + 1) - Len(t) = 1
      BY <3>1, <3>2
    <3>4. (t \o code)[pos + 1] = code[(pos + 1) - Len(t)]
      BY <3>1, <3>3
    <3> QED BY <3>1, <3>3, <3>4
  <2> QED BY <1>2, <2>3, <2>4
<1> HIDE DEF long
<1>5. e \in ScopeType
  <2>1. Emitted(op, pos) \in EmittedType
    BY <1>1 DEF Emitted, EmittedType
  <2> QED BY <1>1, <1>3, <1>4, <2>1 DEF ScopeType
<1>6. Len(e.insts) = pos + InstLen(op) /\ e.insts[pos + 1] = Decoded(op, a, b)
  BY <1>3, <1>4
<1>7. Grown(s.insts, e.insts, {})
  <2>1. DOMAIN s.insts = 1..pos /\ DOMAIN e.insts = 1..pos + InstLen(op)
    BY <1>1, <1>3, <1>4 DEF pos
  <2>2. 1..pos \subseteq 1..pos + InstLen(op)
    BY <1>1, <1>2
  <2> QED BY <1>3, <1>4, <2>1, <2>2 DEF Grown
<1>8. IsInst(e.insts, pos)
  BY <1>1, <1>2, <1>3, <1>4 DEF IsInst
<1>9. EndsWith(e.insts, e.last) /\ e.insts # <<>>
  BY <1>1, <1>2, <1>3, <1>4, <1>8 DEF EndsWith, Emitted
<1>10. op # "pop" => Tracked(e) /\ Yielded(e)
  BY <1>3, <1>9 DEF Tracked, Yielded, Emitted
<1>11. ASSUME Tracked(s), Yielded(s) PROVE Tracked(e)
  <2>1. EndsWith(s.insts, s.last) /\ s.last.op # "pop"
    BY <1>11 DEF Tracked, Yielded
  <2>2. SubSeq(e.insts, 1, e.last.pos) = s.insts
    <3>1. e.last.pos = pos /\ pos = Len(s.insts)
      BY <1>3 DEF Emitted, pos
    <3>2. SubSeq(long, 1, pos) = s.insts
      <4>1. /\ SubSeq(long, 1, pos) \in Seq(Cell) /\ Len(SubSeq(long, 1, pos)) = pos
            /\ \A p \in 1..pos : SubSeq(long, 1, pos)[p] = long[p]
        BY <1>1, <1>2, <1>4
      <4>2. Len(s.insts) = pos
        BY DEF pos
      <4> QED BY <1>1, <1>4, <4>1, <4>2
    <3> QED BY <1>3, <3>1, <3>2
  <2> QED BY <1>3, <1>9, <2>1, <2>2 DEF Tracked
<1> QED BY <1>3, <1>5, <1>6, <1>7, <1>8, <1>10, <1>11 DEF e, pos

(* Without its op_pop, the code of a scope ends with what was before it. *)
LEMMA WithoutPopFacts ==
  ASSUME NEW s \in ScopeType, Tracked(s)
  PROVE  /\ WithoutPop(s) \in ScopeType /\ Tracked(WithoutPop(s))
         /\ s.insts # <<>> => Yielded(WithoutPop(s))
         /\ Stands(s.insts, WithoutPop(s).insts, {})
         /\ Len(WithoutPop(s).insts) >= Len(s.insts) - 1
<1> DEFINE r == compiler_remove_last(s)
           cut == SubSeq(s.insts, 1, s.last.pos)
<1>1. s.insts \in Seq(Cell) /\ Len(s.insts) \in Nat /\ s.last \in EmittedType /\ s.prev \in EmittedType
  BY DEF ScopeType
<1>2. CASE compiler_last_is(s, "pop")
  <2>1. /\ Len(s.insts) # 0 /\ s.last.op = "pop" /\ WithoutPop(s) = r
    BY <1>2 DEF compiler_last_is, compiler_pos, WithoutPop
  <2>2. EndsWith(s.insts, s.last) /\ EndsWith(cut, s.prev) /\ s.prev.op # "pop"
    BY <1>1, <2>1 DEF Tracked
  <2> DEFINE n == s.last.pos
  <2>3. n \in Nat /\ Len(s.insts) = n + 1 /\ s.insts[n + 1].op = "pop"
    <3>1. InstLen("pop") = 1
      BY DEF InstLen, Wide, Narrow
    <3> QED BY <1>1, <2>1, <2>2, <3>1 DEF EndsWith, EmittedType
  <2> HIDE DEF n
  <2>4. cut \in Seq(Cell) /\ Len(cut) = n /\ \A p \in 1..n : cut[p] = s.insts[p]
    <3>1. cut = SubSeq(s.insts, 1, n)
      BY DEF n
    <3>2. SubSeq(s.insts, 1, n) \in Seq(Cell) /\ Len(SubSeq(s.insts, 1, n)) = n
      BY <1>1, <2>3
    <3>3. \A p \in 1..n : SubSeq(s.insts, 1, n)[p] = s.insts[p]
      BY <1>1, <2>3
    <3> HIDE DEF cut
    <3> QED BY <3>1, <3>2, <3>3
  <2>5. r = [insts |-> cut, last |-> s.prev, prev |-> s.prev]
    <3>1. s = [insts |-> s.insts, last |-> s.last, prev |-> s.prev]
      BY DEF ScopeType
    <3>2. r = [s EXCEPT !.insts = cut, !.last = s.prev]
      BY DEF compiler_remove_last
    <3> HIDE DEF r, cut
    <3> QED BY <3>1, <3>2
  <2> HIDE DEF r, cut
  <2>6. r \in ScopeType
    BY <1>1, <2>4, <2>5 DEF ScopeType
  <2>7. r.insts = cut /\ r.last = s.prev
    BY <2>5
  <2>8. cut # <<>>
    BY <1>1, <2>2, <2>4 DEF EndsWith, IsInst
  <2>9. Tracked(r) /\ Yielded(r)
    BY <2>2, <2>7, <2>8 DEF Tracked, Yielded
  <2>10. Stands(s.insts, cut, {})
    <3>1. ASSUME NEW p \in DOMAIN s.insts
          PROVE  (p \in DOMAIN cut /\ cut[p] = s.insts[p]) \/ (p = Len(s.insts) /\ s.insts[p].op = "pop")
      <4>1. p \in 1..n + 1 /\ DOMAIN cut = 1..n
        BY <1>1, <2>3, <2>4
      <4>2. CASE p = n + 1
        BY <2>3, <4>2
      <4>3. CASE p # n + 1
        <5>1. p \in 1..n
          BY <2>3, <4>1, <4>3
        <5> QED BY <2>4, <4>1, <5>1
      <4> QED BY <4>2, <4>3
    <3> QED BY <3>1 DEF Stands
  <2> QED BY <1>1, <2>1, <2>3, <2>4, <2>6, <2>7, <2>9, <2>10
<1>3. CASE ~compiler_last_is(s, "pop")
  <2>1. WithoutPop(s) = s
    BY <1>3 DEF WithoutPop
  <2>2. s.insts # <<>> => Yielded(s)
    BY <1>1, <1>3 DEF compiler_last_is, compiler_pos, Yielded
  <2>3. Stands(s.insts, s.insts, {})
    BY DEF Stands
  <2> QED BY <1>1, <2>1, <2>2, <2>3
<1> QED BY <1>2, <1>3

(* What compiler_replace_operand does to a scope. *)
LEMMA PatchFacts ==
  ASSUME NEW s \in ScopeType, Tracked(s), NEW p \in Nat, IsInst(s.insts, p),
         NEW operand \in Nat
  PROVE  /\ compiler_replace_operand(s, p, operand) \in ScopeType
         /\ Tracked(compiler_replace_operand(s, p, operand))
         /\ Yielded(s) => Yielded(compiler_replace_operand(s, p, operand))
         /\ Grown(s.insts, compiler_replace_operand(s, p, operand).insts, {p})
         /\ Len(compiler_replace_operand(s, p, operand).insts) = Len(s.insts)
         /\ \A q \in 1..Len(s.insts) :
              q # p + 1 => compiler_replace_operand(s, p, operand).insts[q] = s.insts[q]
<1> DEFINE r == compiler_replace_operand(s, p, operand)
           d == Decoded(s.insts[p + 1].op, operand, 0)
           code == [s.insts EXCEPT ![p + 1] = d]
<1>1. s.insts \in Seq(Cell) /\ Len(s.insts) \in Nat /\ s.last \in EmittedType /\ s.prev \in EmittedType
  BY DEF ScopeType
<1>2. p \in 0..Len(s.insts) - 1 /\ s.insts[p + 1] \in Inst
  BY DEF IsInst
<1>3. d \in Inst /\ d.op = s.insts[p + 1].op
  <2>1. s.insts[p + 1].op \in Opcode
    BY <1>2 DEF Inst
  <2> QED BY <2>1, EncodeFacts
<1>4. r = [insts |-> code, last |-> s.last, prev |-> s.prev]
  <2>1. s = [insts |-> s.insts, last |-> s.last, prev |-> s.prev]
    BY DEF ScopeType
  <2>2. r = [s EXCEPT !.insts = code]
    BY DEF compiler_replace_operand
  <2> HIDE DEF r, code
  <2> QED BY <2>1, <2>2
<1> HIDE DEF r, d
<1>5. /\ code \in Seq(Cell) /\ Len(code) = Len(s.insts) /\ code[p + 1] = d
      /\ \A q \in 1..Len(s.insts) : q # p + 1 => code[q] = s.insts[q]
  <2>1. d \in Cell
    BY <1>3 DEF Cell
  <2> QED BY <1>1, <1>2, <2>1
<1> HIDE DEF code
<1>6. r.insts = code /\ r.last = s.last /\ r.prev = s.prev
  BY <1>4
<1>7. r \in ScopeType
  BY <1>1, <1>4, <1>5 DEF ScopeType
<1>8. \A q \in 1..Len(s.insts) : /\ code[q].op = s.insts[q].op
                                 /\ s.insts[q] \in Inst => code[q] \in Inst
  BY <1>1, <1>2, <1>3, <1>5
<1>9. ASSUME NEW e \in EmittedType, NEW n \in 0..Len(s.insts), EndsWith(SubSeq(s.insts, 1, n), e)
      PROVE  EndsWith(SubSeq(code, 1, n), e)
  <2>1. /\ SubSeq(s.insts, 1, n) \in Seq(Cell) /\ Len(SubSeq(s.insts, 1, n)) = n
        /\ \A q \in 1..n : SubSeq(s.insts, 1, n)[q] = s.insts[q]
    BY <1>1
  <2>2. /\ SubSeq(code, 1, n) \in Seq(Cell) /\ Len(SubSeq(code, 1, n)) = n
        /\ \A q \in 1..n : SubSeq(code, 1, n)[q] = code[q]
    BY <1>1, <1>5
  <2>3. e.pos \in 0..n - 1 /\ e.pos + 1 \in 1..n /\ e.pos + 1 \in 1..Len(s.insts)
    BY <1>1, <1>9, <2>1 DEF EndsWith, IsInst
  <2> QED BY <1>8, <1>9, <2>1, <2>2, <2>3 DEF EndsWith, IsInst
<1>10. ASSUME NEW e \in EmittedType, EndsWith(s.insts, e)
       PROVE  EndsWith(code, e)
  <2>1. e.pos \in 0..Len(s.insts) - 1 /\ e.pos + 1 \in 1..Len(s.insts)
    BY <1>1, <1>10 DEF EndsWith, IsInst
  <2> QED BY <1>5, <1>8, <1>10, <2>1 DEF EndsWith, IsInst
<1>11. Tracked(r)
  <2> SUFFICES ASSUME r.insts # <<>>
               PROVE  /\ EndsWith(r.insts, r.last)
                      /\ r.last.op = "pop" => /\ EndsWith(SubSeq(r.insts, 1, r.last.pos), r.prev)
                                              /\ r.prev.op # "pop"
    BY DEF Tracked
  <2>1. s.insts # <<>>
    BY <1>1, <1>2
  <2>2. EndsWith(s.insts, s.last) /\ EndsWith(code, s.last)
    BY <1>1, <1>10, <2>1 DEF Tracked
  <2>3. CASE s.last.op = "pop"
    <3>1. s.last.pos \in 0..Len(s.insts)
      BY <1>1, <2>2 DEF EndsWith, IsInst
    <3>2. EndsWith(SubSeq(s.insts, 1, s.last.pos), s.prev) /\ s.prev.op # "pop"
      BY <2>1, <2>3 DEF Tracked
    <3>3. EndsWith(SubSeq(code, 1, s.last.pos), s.prev)
      BY <1>1, <1>9, <3>1, <3>2
    <3> QED BY <1>6, <2>2, <3>2, <3>3
  <2>4. CASE s.last.op # "pop"
    BY <1>6, <2>2, <2>4
  <2> QED BY <2>3, <2>4
<1>12. Yielded(s) => Yielded(r)
  BY <1>1, <1>2, <1>5, <1>6 DEF Yielded
<1>13. Grown(s.insts, code, {p})
  BY <1>1, <1>5, <1>8 DEF Grown
<1> QED BY <1>5, <1>6, <1>7, <1>11, <1>12, <1>13 DEF r

(* The code of a function is made of cells. *)
LEMMA ReturningFacts ==
  ASSUME NEW s \in ScopeType, Tracked(s)
  PROVE  Returning(s).insts \in Seq(Cell)
<1> DEFINE r == IF compiler_last_is(s, "pop") THEN compiler_replace_last_pop_with_return(s) ELSE s
<1>1. s.insts \in Seq(Cell) /\ Len(s.insts) \in Nat /\ s.last \in EmittedType /\ s.prev \in EmittedType
  BY DEF ScopeType
<1>2. r \in ScopeType
  <2>1. CASE compiler_last_is(s, "pop")
    <3> DEFINE code == [s.insts EXCEPT ![s.last.pos + 1] = Decoded("return_value", 0, 0)]
               last == [s.last EXCEPT !.op = "return_value"]
    <3>1. Decoded("return_value", 0, 0) \in Cell
      BY EncodeFacts DEF Cell, Opcode, Plain
    <3>2. code \in Seq(Cell)
      <4>1. s.insts # <<>>
        BY <2>1 DEF compiler_last_is, compiler_pos
      <4>2. s.last.pos + 1 \in 1..Len(s.insts)
        BY <1>1, <4>1 DEF Tracked, EndsWith, IsInst
      <4> HIDE DEF Decoded
      <4> QED BY <1>1, <3>1, <4>2
    <3>3. last \in EmittedType
      <4>1. "return_value" \in Opcode
        BY DEF Opcode, Plain
      <4> QED BY <1>1, <4>1 DEF EmittedType
    <3>4. r = [insts |-> code, last |-> last, prev |-> s.prev]
      <4>1. s = [insts |-> s.insts, last |-> s.last, prev |-> s.prev]
        BY DEF ScopeType
      <4>2. r = [s EXCEPT !.insts = code, !.last = last]
        BY <2>1 DEF compiler_replace_last_pop_with_return
      <4> HIDE DEF r, code, last
      <4> QED BY <4>1, <4>2
    <3> HIDE DEF r, code, last
    <3> QED BY <1>1, <3>2, <3>3, <3>4 DEF ScopeType
  <2>2. CASE ~compiler_last_is(s, "pop")
    BY <2>2
  <2> QED BY <2>1, <2>2
<1>3. Returning(s) = IF compiler_last_is(r, "return_value") THEN r ELSE compiler_emit(r, "return", 0, 0)
  BY DEF Returning
<1> HIDE DEF r
<1>4. compiler_emit(r, "return", 0, 0) \in ScopeType
  <2>1. "return" \in Opcode
    BY DEF Opcode, Plain
  <2> QED BY <1>2, <2>1, EmitFacts
<1>5. Returning(s) \in ScopeType
  BY <1>2, <1>3, <1>4
<1> QED BY <1>5 DEF ScopeType

LEMMA LoadOpFacts ==
  ASSUME NEW y \in SymbolType, Loadable(y)
  PROVE  LoadOp(y.scope) \in Opcode /\ LoadOp(y.scope) # "pop" /\ y.index \in Nat
<1>1. y.scope \in 0..4 /\ y.index \in Nat
  BY DEF Loadable, SymbolType, global_scope, function_scope
<1> QED BY <1>1 DEF LoadOp, Opcode, Wide, Narrow, Plain, global_scope, local_scope,
                    builtin_scope, free_scope, function_scope

(* Loading symbols only adds code. *)
LEMMA LoadAllFacts ==
  ASSUME NEW s \in ScopeType, Tracked(s), NEW symbols \in Seq(SymbolType),
         \A i \in DOMAIN symbols : Loadable(symbols[i])
  PROVE  /\ LoadAll(s, symbols) \in ScopeType
         /\ Tracked(LoadAll(s, symbols))
         /\ Grown(s.insts, LoadAll(s, symbols).insts, {})
<1> DEFINE N == Len(symbols)
           S == {e \in ScopeType : Tracked(e) /\ Grown(s.insts, e.insts, {})}
           load(i, e) == compiler_emit(e, LoadOp(symbols[i].scope), symbols[i].index, 0)
           step == [x \in (1..N) \X S |-> load(x[1], x[2])]
           P(h) == h = [i \in 0..N |-> IF i = 0 THEN s ELSE load(i, h[i - 1])]
<1>1. N \in Nat
  OBVIOUS
<1>2. s \in S
  BY DEF Grown
<1>3. ASSUME NEW i \in 1..N, NEW e \in S PROVE load(i, e) \in S
  <2>1. symbols[i] \in SymbolType /\ Loadable(symbols[i])
    OBVIOUS
  <2>2. /\ LoadOp(symbols[i].scope) \in Opcode /\ LoadOp(symbols[i].scope) # "pop"
        /\ symbols[i].index \in Nat /\ 0 \in Nat
    BY <2>1, LoadOpFacts
  <2>3. /\ load(i, e) \in ScopeType /\ Tracked(load(i, e))
        /\ Grown(e.insts, load(i, e).insts, {})
    BY <2>2, EmitFacts
  <2> HIDE DEF load
  <2>4. s.insts \in Seq(Cell) /\ e.insts \in Seq(Cell) /\ load(i, e).insts \in Seq(Cell)
    BY <2>3 DEF ScopeType
  <2>5. Grown(s.insts, load(i, e).insts, {} \cup {})
    BY <2>3, <2>4, StandsThenGrown
  <2> QED BY <2>3, <2>5
<1> HIDE DEF S, load, N
<1>4. step \in [(1..N) \X S -> S]
  BY <1>3
<1>5. PICK g \in [0..N -> S] : Follows(g, N, s, step)
  <2> HIDE DEF step
  <2> QED BY <1>1, <1>2, <1>4, RangeRecursion
<1>6. P(g)
  <2>1. ASSUME NEW i \in 0..N PROVE g[i] = IF i = 0 THEN s ELSE load(i, g[i - 1])
    <3>1. CASE i = 0
      BY <1>5, <3>1 DEF Follows
    <3>2. CASE i # 0
      <4>1. i \in 1..N /\ g[i - 1] \in S
        BY <1>1, <1>5, <3>2
      <4> QED BY <1>5, <3>2, <4>1 DEF Follows
    <3> QED BY <3>1, <3>2
  <2> QED BY <1>5, <2>1
<1>7. LoadAll(s, symbols) = (CHOOSE h : P(h))[N]
  BY DEF LoadAll, N, load
<1>8. P(CHOOSE h : P(h))
  <2>1. \E h : P(h)
    BY <1>6
  <2> QED BY <2>1
<1> DEFINE H == CHOOSE h : P(h)
           T == {i \in 0..N : H[i] \in S}
<1>9. \A i \in 0..N : H[i] = IF i = 0 THEN s ELSE load(i, H[i - 1])
  BY <1>8
<1> HIDE DEF H, P
<1>10. 0 \in T
  BY <1>1, <1>2, <1>9
<1>11. ASSUME NEW i \in 0 + 1..N, i - 1 \in T PROVE i \in T
  BY <1>1, <1>3, <1>9, <1>11
<1> HIDE DEF T
<1>12. \A i \in 0..N : i \in T
  <2>1. 0 \in Int /\ N \in Int
    BY <1>1
  <2> QED BY <2>1, <1>10, <1>11, RangeInduction
<1>13. H[N] \in S
  BY <1>1, <1>12 DEF T
<1> QED BY <1>7, <1>13 DEF H, S

-----------------------------------------------------------------------------
(***************************************************************************)
(* The symbol tables.                                                      *)
(***************************************************************************)
ScopeAt(k) == IF k = 1 THEN global_scope ELSE local_scope

Chain(ts) ==
  /\ ts \in Seq(TableType) /\ Len(ts) >= 1
  /\ \A k \in DOMAIN ts : Numbered(ts[k], ScopeAt(k))

(* In us every table has the symbols it has in ts, as they are there. *)
Extends(ts, us) ==
  /\ Len(us) = Len(ts)
  /\ \A k \in DOMAIN ts : \A n \in DOMAIN ts[k].store :
       n \in DOMAIN us[k].store /\ us[k].store[n] = ts[k].store[n]

LEMMA TableFacts ==
  ASSUME NEW t \in TableType
  PROVE  /\ DOMAIN t.store \subseteq STRING
         /\ t.store \in [DOMAIN t.store -> SymbolType]
         /\ t.free \in Seq(SymbolType) /\ t.num_defs \in Nat
         /\ t = [store |-> t.store, free |-> t.free, num_defs |-> t.num_defs]
<1>1. /\ t.store \in UNION {[D -> SymbolType] : D \in SUBSET STRING}
      /\ t.free \in Seq(SymbolType) /\ t.num_defs \in Nat
      /\ t = [store |-> t.store, free |-> t.free, num_defs |-> t.num_defs]
  BY DEF TableType
<1>2. PICK D \in SUBSET STRING : t.store \in [D -> SymbolType]
  BY <1>1
<1> QED BY <1>1, <1>2

(* A table with one more symbol at the next index. *)
LEMMA NumberOneMore ==
  ASSUME NEW t \in TableType, NEW scope \in Nat, Numbered(t, scope),
         NEW name \in STRING, name \notin DOMAIN t.store,
         NEW u, u = Entered(t, new_symbol(name, scope, t.num_defs))
  PROVE  u \in TableType /\ Numbered(u, scope)
<1> DEFINE D == DOMAIN t.store
           s == new_symbol(name, scope, t.num_defs)
           st == [n \in D \cup {name} |-> IF n = name THEN s ELSE t.store[n]]
<1>1. /\ D \subseteq STRING /\ t.store \in [D -> SymbolType]
      /\ t.free \in Seq(SymbolType) /\ t.num_defs \in Nat
  BY TableFacts
<1>2. s \in SymbolType /\ s.index = t.num_defs /\ s.scope = scope
  BY <1>1 DEF new_symbol, SymbolType
<1> HIDE DEF s
<1>3. /\ u.store = st /\ u.free = t.free /\ u.num_defs = t.num_defs + 1
      /\ u = [store |-> st, free |-> t.free, num_defs |-> t.num_defs + 1]
  <2>1. s.name = name
    BY DEF s, new_symbol
  <2>2. u = [store |-> st, free |-> t.free, num_defs |-> t.num_defs + 1]
    BY <2>1 DEF Entered, s
  <2> HIDE DEF st
  <2> QED BY <2>2
<1>4. DOMAIN st = D \cup {name} /\ st[name] = s /\ \A n \in D : st[n] = t.store[n]
  OBVIOUS
<1>5. st \in [D \cup {name} -> SymbolType] /\ D \cup {name} \in SUBSET STRING
  BY <1>1, <1>2
<1> HIDE DEF st, D
<1>6. u \in TableType
  <2>1. st \in UNION {[A -> SymbolType] : A \in SUBSET STRING}
    BY <1>5
  <2>2. t.num_defs + 1 \in Nat
    BY <1>1
  <2> QED BY <1>1, <1>3, <2>1, <2>2 DEF TableType
<1>7. {st[n].index : n \in DOMAIN st} = 0..u.num_defs - 1
  <2>1. /\ \A n \in D : t.store[n].index \in 0..t.num_defs - 1
        /\ \A i \in 0..t.num_defs - 1 : \E n \in D : i = t.store[n].index
    <3>1. {t.store[n].index : n \in D} = 0..t.num_defs - 1
      BY DEF Numbered, D
    <3> QED BY <3>1
  <2>2. ASSUME NEW i \in {st[n].index : n \in DOMAIN st} PROVE i \in 0..t.num_defs
    <3>1. PICK n \in D \cup {name} : i = st[n].index
      BY <1>4
    <3>2. CASE n = name
      BY <1>1, <1>2, <1>4, <3>1, <3>2
    <3>3. CASE n # name
      <4>1. n \in D /\ i = t.store[n].index
        BY <1>4, <3>1, <3>3
      <4> QED BY <1>1, <2>1, <4>1
    <3> QED BY <3>2, <3>3
  <2>3. ASSUME NEW i \in 0..t.num_defs PROVE i \in {st[n].index : n \in DOMAIN st}
    <3>1. CASE i = t.num_defs
      BY <1>2, <1>4, <3>1
    <3>2. CASE i # t.num_defs
      <4>1. i \in 0..t.num_defs - 1
        BY <1>1, <3>2
      <4>2. \E n \in D : i = t.store[n].index
        BY <2>1, <4>1
      <4> QED BY <1>4, <4>2
    <3> QED BY <3>1, <3>2
  <2>4. u.num_defs - 1 = t.num_defs
    BY <1>1, <1>3
  <2> QED BY <2>2, <2>3, <2>4
<1>8. ASSUME NEW m \in DOMAIN st, NEW n \in DOMAIN st, st[m].index = st[n].index PROVE m = n
  <2>1. \A k \in D : t.store[k].index # t.num_defs
    <3>1. {t.store[k].index : k \in D} = 0..t.num_defs - 1
      BY DEF Numbered, D
    <3>2. t.num_defs \notin 0..t.num_defs - 1
      BY <1>1
    <3> QED BY <3>1, <3>2
  <2>2. \A a, b \in D : t.store[a].index = t.store[b].index => a = b
    BY DEF Numbered, D
  <2> QED BY <1>2, <1>4, <1>8, <2>1, <2>2
<1>9. \A n \in DOMAIN st : st[n].scope = scope
  BY <1>2, <1>4 DEF Numbered, D
<1> QED BY <1>3, <1>6, <1>7, <1>8, <1>9 DEF Numbered

(* symbol_table_define. *)
LEMMA DefineFacts ==
  ASSUME NEW ts, Chain(ts), NEW name \in STRING
  PROVE  /\ Chain(symbol_table_define(ts, name))
         /\ Extends(ts, symbol_table_define(ts, name))
         /\ name \in DOMAIN Innermost(symbol_table_define(ts, name)).store
<1> DEFINE L == Len(ts)
           t == ts[L]
           scope == IF L > 1 THEN local_scope ELSE global_scope
           u == Entered(t, new_symbol(name, scope, t.num_defs))
           us == [ts EXCEPT ![L] = u]
<1>1. ts \in Seq(TableType) /\ L \in Nat /\ L >= 1 /\ t \in TableType
      /\ \A k \in 1..L : ts[k] \in TableType /\ Numbered(ts[k], ScopeAt(k))
  BY DEF Chain
<1>2. scope = ScopeAt(L) /\ scope \in Nat
  BY <1>1 DEF ScopeAt, global_scope, local_scope
<1>3. CASE name \in DOMAIN t.store
  <2>1. symbol_table_define(ts, name) = ts
    BY <1>3 DEF symbol_table_define, Innermost
  <2> QED BY <1>3, <2>1 DEF Innermost, Extends
<1>4. CASE name \notin DOMAIN t.store
  <2>1. symbol_table_define(ts, name) = us
    BY <1>4 DEF symbol_table_define, NextSymbol, Innermost
  <2>2. u \in TableType /\ Numbered(u, scope)
    <3> HIDE DEF scope
    <3>1. Numbered(t, scope)
      BY <1>1, <1>2
    <3> HIDE DEF t
    <3> QED BY <1>1, <1>2, <1>4, <3>1, NumberOneMore
  <2>3. /\ name \in DOMAIN u.store
        /\ \A n \in DOMAIN t.store : n \in DOMAIN u.store /\ u.store[n] = t.store[n]
    BY <1>4 DEF Entered, new_symbol
  <2> HIDE DEF u, scope
  <2>4. /\ us \in Seq(TableType) /\ Len(us) = L /\ us[L] = u
        /\ \A k \in 1..L : k # L => us[k] = ts[k]
    BY <1>1, <2>2
  <2> HIDE DEF us
  <2>5. Chain(us)
    BY <1>1, <1>2, <2>2, <2>4 DEF Chain
  <2>6. Extends(ts, us)
    BY <1>1, <2>3, <2>4 DEF Extends
  <2> QED BY <2>1, <2>3, <2>4, <2>5, <2>6 DEF Innermost
<1> QED BY <1>3, <1>4

LEMMA ExtendsMore ==
  ASSUME NEW ts, NEW us, NEW vs, Chain(ts), Chain(us), Extends(ts, us), Extends(us, vs)
  PROVE  Extends(ts, vs)
<1>1. DOMAIN us = DOMAIN ts
  BY DEF Chain, Extends
<1> QED BY <1>1 DEF Extends

LEMMA DefineAllFacts ==
  ASSUME NEW ts, Chain(ts), NEW names \in Seq(STRING)
  PROVE  Chain(DefineAll(ts, names)) /\ Extends(ts, DefineAll(ts, names))
<1> DEFINE N == Len(names)
           S == {us \in Seq(TableType) : Chain(us) /\ Extends(ts, us)}
           define(i, us) == symbol_table_define(us, names[i])
           step == [x \in (1..N) \X S |-> define(x[1], x[2])]
           P(h) == h = [i \in 0..N |-> IF i = 0 THEN ts ELSE define(i, h[i - 1])]
<1>1. N \in Nat
  OBVIOUS
<1>2. ts \in S
  BY DEF Chain, Extends
<1>3. ASSUME NEW i \in 1..N, NEW us \in S PROVE define(i, us) \in S
  <2>1. Chain(us) /\ Extends(ts, us) /\ names[i] \in STRING
    OBVIOUS
  <2>2. Chain(define(i, us)) /\ Extends(us, define(i, us))
    BY <2>1, DefineFacts
  <2> HIDE DEF define
  <2>3. Extends(ts, define(i, us))
    BY <2>1, <2>2, ExtendsMore
  <2> QED BY <2>2, <2>3 DEF Chain
<1> HIDE DEF S, define, N
<1>4. step \in [(1..N) \X S -> S]
  BY <1>3
<1>5. PICK g \in [0..N -> S] : Follows(g, N, ts, step)
  <2> HIDE DEF step
  <2> QED BY <1>1, <1>2, <1>4, RangeRecursion
<1>6. P(g)
  <2>1. ASSUME NEW i \in 0..N PROVE g[i] = IF i = 0 THEN ts ELSE define(i, g[i - 1])
    <3>1. CASE i = 0
      BY <1>5, <3>1 DEF Follows
    <3>2. CASE i # 0
      <4>1. i \in 1..N /\ g[i - 1] \in S
        BY <1>1, <1>5, <3>2
      <4> QED BY <1>5, <3>2, <4>1 DEF Follows
    <3> QED BY <3>1, <3>2
  <2> QED BY <1>5, <2>1
<1>7. DefineAll(ts, names) = (CHOOSE h : P(h))[N]
  BY DEF DefineAll, N, define
<1>8. P(CHOOSE h : P(h))
  <2>1. \E h : P(h)
    BY <1>6
  <2> QED BY <2>1
<1> DEFINE H == CHOOSE h : P(h)
           T == {i \in 0..N : H[i] \in S}
<1>9. \A i \in 0..N : H[i] = IF i = 0 THEN ts ELSE define(i, H[i - 1])
  BY <1>8
<1> HIDE DEF H, P
<1>10. 0 \in T
  BY <1>1, <1>2, <1>9
<1>11. ASSUME NEW i \in 0 + 1..N, i - 1 \in T PROVE i \in T
  BY <1>1, <1>3, <1>9, <1>11
<1> HIDE DEF T
<1>12. \A i \in 0..N : i \in T
  <2>1. 0 \in Int /\ N \in Int
    BY <1>1
  <2> QED BY <2>1, <1>10, <1>11, RangeInduction
<1>13. H[N] \in S
  BY <1>1, <1>12 DEF T
<1> QED BY <1>7, <1>13 DEF H, S

(* us are the tables ts, but for what they captured. *)
SameNames(ts, us) ==
  /\ us \in Seq(TableType) /\ Len(us) = Len(ts)
  /\ \A k \in 1..Len(ts) : us[k].store = ts[k].store /\ us[k].num_defs = ts[k].num_defs

LEMMA SameNamesFacts ==
  ASSUME NEW ts, Chain(ts), NEW us, SameNames(ts, us)
  PROVE  Chain(us) /\ Extends(ts, us)
<1>1. ts \in Seq(TableType) /\ DOMAIN ts = 1..Len(ts) /\ DOMAIN us = 1..Len(ts) /\ Len(us) >= 1
  BY DEF Chain, SameNames
<1>2. Chain(us)
  BY <1>1 DEF Chain, SameNames, Numbered
<1> QED BY <1>1, <1>2 DEF Extends, SameNames

(* symbol_table_resolve: a symbol, or none; names and indices stay. *)
LEMMA ResolveFacts ==
  ASSUME NEW ts, Chain(ts), NEW name \in STRING
  PROVE  /\ symbol_table_resolve(ts, name).symbol \in SymbolType \cup {NoSymbol}
         /\ SameNames(ts, symbol_table_resolve(ts, name).tables)
<1> DEFINE N == Len(ts)
           Symbols == SymbolType \cup {NoSymbol}
           S == {r \in [symbol : Symbols, tables : Seq(TableType)] : SameNames(ts, r.tables)}
           none == [symbol |-> NoSymbol, tables |-> ts]
           from(k, outer) ==
             IF name \in DOMAIN ts[k].store
             THEN [symbol |-> ts[k].store[name], tables |-> ts]
             ELSE LET copy == FreeSymbol(ts[k], outer.symbol)
                  IN IF outer.symbol.scope \in {-1, global_scope, builtin_scope}
                     THEN outer
                     ELSE [symbol |-> copy,
                           tables |-> [outer.tables EXCEPT ![k].free = Append(@, copy)]]
           step == [x \in (1..N) \X S |-> from(x[1], x[2])]
           P(h) == h = [k \in 0..N |-> IF k = 0 THEN none ELSE from(k, h[k - 1])]
<1>1. N \in Nat /\ ts \in Seq(TableType) /\ \A k \in 1..N : ts[k] \in TableType
  BY DEF Chain
<1>2. none \in S
  BY <1>1 DEF SameNames
<1>3. ASSUME NEW k \in 1..N, NEW outer \in S PROVE from(k, outer) \in S
  <2>1. CASE name \in DOMAIN ts[k].store
    <3>1. ts[k].store[name] \in SymbolType
      BY <1>1, <2>1, TableFacts
    <3>2. SameNames(ts, ts)
      BY <1>1 DEF SameNames
    <3> QED BY <1>1, <2>1, <3>1, <3>2
  <2>2. CASE name \notin DOMAIN ts[k].store /\ outer.symbol.scope \in {-1, global_scope, builtin_scope}
    BY <2>2
  <2>3. CASE name \notin DOMAIN ts[k].store /\ outer.symbol.scope \notin {-1, global_scope, builtin_scope}
    <3> DEFINE copy == FreeSymbol(ts[k], outer.symbol)
               us == outer.tables
               t == us[k]
               u == [t EXCEPT !.free = Append(t.free, copy)]
               vs == [us EXCEPT ![k] = u]
    <3>1. outer.symbol \in SymbolType
      <4>1. NoSymbol.scope = -1
        BY DEF NoSymbol, new_symbol
      <4> QED BY <2>3, <4>1
    <3>2. copy \in SymbolType
      <4>1. ts[k].free \in Seq(SymbolType)
        BY <1>1, TableFacts
      <4>2. Len(ts[k].free) \in Nat /\ free_scope \in Nat /\ outer.symbol.name \in STRING
        BY <3>1, <4>1 DEF SymbolType, free_scope
      <4> QED BY <4>2 DEF FreeSymbol, new_symbol, SymbolType
    <3> HIDE DEF copy
    <3>3. SameNames(ts, us) /\ us \in Seq(TableType) /\ Len(us) = N /\ t \in TableType
      BY DEF SameNames
    <3>4. u \in TableType /\ u.store = t.store /\ u.num_defs = t.num_defs
      <4> DEFINE fr == Append(t.free, copy)  st == t.store  nd == t.num_defs  old == t.free
      <4>1. fr \in Seq(SymbolType) /\ st \in UNION {[D -> SymbolType] : D \in SUBSET STRING}
            /\ nd \in Nat /\ t = [store |-> st, free |-> old, num_defs |-> nd]
        BY <3>2, <3>3 DEF TableType
      <4>2. u = [t EXCEPT !.free = fr]
        OBVIOUS
      <4>3. st = t.store /\ nd = t.num_defs
        OBVIOUS
      <4> HIDE DEF fr, st, nd, old, t, u
      <4>4. u = [store |-> st, free |-> fr, num_defs |-> nd]
        BY <4>1, <4>2
      <4> QED BY <4>1, <4>3, <4>4 DEF TableType
    <3>5. from(k, outer) = [symbol |-> copy, tables |-> vs]
      BY <2>3 DEF copy
    <3> HIDE DEF from, u
    <3>6. SameNames(ts, vs)
      BY <3>3, <3>4 DEF SameNames
    <3> HIDE DEF vs
    <3>7. vs \in Seq(TableType)
      BY <3>6 DEF SameNames
    <3> QED BY <3>2, <3>5, <3>6, <3>7
  <2> QED BY <2>1, <2>2, <2>3
<1> HIDE DEF S, from, N, none
<1>4. step \in [(1..N) \X S -> S]
  BY <1>3
<1>5. PICK g \in [0..N -> S] : Follows(g, N, none, step)
  <2> HIDE DEF step
  <2> QED BY <1>1, <1>2, <1>4, RangeRecursion
<1>6. P(g)
  <2>1. ASSUME NEW i \in 0..N PROVE g[i] = IF i = 0 THEN none ELSE from(i, g[i - 1])
    <3>1. CASE i = 0
      BY <1>5, <3>1 DEF Follows
    <3>2. CASE i # 0
      <4>1. i \in 1..N /\ g[i - 1] \in S
        BY <1>1, <1>5, <3>2
      <4> QED BY <1>5, <3>2, <4>1 DEF Follows
    <3> QED BY <3>1, <3>2
  <2> QED BY <1>5, <2>1
<1>7. symbol_table_resolve(ts, name) = (CHOOSE h : P(h))[N]
  BY DEF symbol_table_resolve, N, from, none
<1>8. P(CHOOSE h : P(h))
  <2>1. \E h : P(h)
    BY <1>6
  <2> QED BY <2>1
<1> DEFINE H == CHOOSE h : P(h)
           T == {i \in 0..N : H[i] \in S}
<1>9. \A i \in 0..N : H[i] = IF i = 0 THEN none ELSE from(i, H[i - 1])
  BY <1>8
<1> HIDE DEF H, P
<1>10. 0 \in T
  BY <1>1, <1>2, <1>9
<1>11. ASSUME NEW i \in 0 + 1..N, i - 1 \in T PROVE i \in T
  BY <1>1, <1>3, <1>9, <1>11
<1> HIDE DEF T
<1>12. \A i \in 0..N : i \in T
  <2>1. 0 \in Int /\ N \in Int
    BY <1>1
  <2> QED BY <2>1, <1>10, <1>11, RangeInduction
<1>13. H[N] \in S
  BY <1>1, <1>12 DEF T
<1> QED BY <1>7, <1>13 DEF H, S

-----------------------------------------------------------------------------
(***************************************************************************)
(* What the nodes plan.                                                    *)
(***************************************************************************)
LEMMA NoPops ==
  ASSUME NEW ts \in Seq(Task), \A i \in DOMAIN ts : ~ IsPop(ts[i])
  PROVE  Planned(ts)
BY DEF Planned, PopsFollow

LEMMA PlannedConcat ==
  ASSUME NEW a, NEW b, Planned(a), Planned(b)
  PROVE  Planned(a \o b)
<1> DEFINE c == a \o b
<1>1. /\ a \in Seq(Task) /\ b \in Seq(Task) /\ c \in Seq(Task)
      /\ Len(a) \in Nat /\ Len(b) \in Nat /\ Len(c) = Len(a) + Len(b)
  BY DEF Planned
<1>2. /\ \A i \in 1..Len(a) : c[i] = a[i]
      /\ \A i \in 1..Len(b) : c[Len(a) + i] = b[i]
  BY <1>1, ConcatFacts
<1> HIDE DEF c
<1>3. ASSUME NEW i \in 1..Len(c), IsPop(c[i])
      PROVE  i \in 2..Len(c) /\ Yields(c[i - 1])
  <2>1. CASE i \in 1..Len(a)
    <3>1. IsPop(a[i])
      BY <1>2, <1>3, <2>1
    <3>2. i # 1
      BY <1>1, <2>1, <3>1 DEF Planned
    <3>3. i \in 2..Len(a) /\ i - 1 \in 1..Len(a)
      BY <1>1, <2>1, <3>2
    <3>4. Yields(a[i - 1])
      BY <3>1, <3>3 DEF Planned, PopsFollow
    <3> QED BY <1>1, <1>2, <3>3, <3>4
  <2>2. CASE i \notin 1..Len(a)
    <3> DEFINE j == i - Len(a)
    <3>1. j \in 1..Len(b) /\ i = Len(a) + j
      BY <1>1, <2>2
    <3> HIDE DEF j
    <3>2. IsPop(b[j])
      BY <1>2, <1>3, <3>1
    <3>3. j # 1
      BY <1>1, <3>1, <3>2 DEF Planned
    <3>4. j \in 2..Len(b) /\ j - 1 \in 1..Len(b) /\ i - 1 = Len(a) + (j - 1) /\ i \in 2..Len(c)
      BY <1>1, <3>1, <3>3
    <3>5. Yields(b[j - 1])
      BY <3>2, <3>4 DEF Planned, PopsFollow
    <3>6. c[i - 1] = b[j - 1]
      BY <1>2, <3>4
    <3> QED BY <3>4, <3>5, <3>6
  <2> QED BY <2>1, <2>2
<1>4. PopsFollow(c) /\ \A i \in DOMAIN c : IsPop(c[i]) => i # 1
  <2>1. DOMAIN c = 1..Len(c) /\ 2..Len(c) \subseteq 1..Len(c)
    BY <1>1
  <2> QED BY <1>3, <2>1 DEF PopsFollow
<1> QED BY <1>1, <1>4 DEF Planned, c

(* Calls that only visit and emit. *)
Simple(ts) == \A i \in DOMAIN ts : ts[i].do \in {"visit", "emit"} /\ ts[i] # Halt

Has(ts, c) == \E i \in DOMAIN ts : ts[i] = c

LEMMA StatementFacts ==
  ASSUME NEW n \in Exprs
  PROVE  Planned(Statement(n)) /\ Simple(Statement(n)) /\ Has(Statement(n), Visit(n))
<1>1. Visit(n) \in Task /\ EmitTask("pop", 0) \in Task
  <2>1. n \in Nodes /\ "pop" \in Deferred /\ 0 \in Nat
    BY DEF Exprs, Deferred, Constants, Opcode, Plain
  <2> QED BY <2>1, TasksOf
<1>2. /\ Visit(n).do = "visit" /\ ~ IsPop(Visit(n)) /\ Yields(Visit(n)) /\ EmitTask("pop", 0).do = "emit"
      /\ Visit(n) # Halt /\ EmitTask("pop", 0) # Halt
  BY DEF Visit, IsPop, Yields, EmitTask, Exprs, Halt
<1> DEFINE a == Visit(n)  b == EmitTask("pop", 0)
<1>3. Statement(n) = IF n.t = "return" THEN <<a>> ELSE <<a, b>>
  BY DEF Statement
<1> HIDE DEF a, b
<1>4. /\ a \in Task /\ b \in Task /\ a.do = "visit" /\ ~ IsPop(a) /\ Yields(a) /\ b.do = "emit"
      /\ a # Halt /\ b # Halt
  BY <1>1, <1>2 DEF a, b
<1> HIDE DEF Task
<1>5. Planned(<<a>>) /\ Simple(<<a>>) /\ Has(<<a>>, a)
  BY <1>4 DEF Planned, PopsFollow, Simple, Has
<1>6. Planned(<<a, b>>) /\ Simple(<<a, b>>) /\ Has(<<a, b>>, a)
  BY <1>4 DEF Planned, PopsFollow, Simple, Has
<1> QED BY <1>3, <1>5, <1>6 DEF a

LEMMA StatementsFacts ==
  ASSUME NEW nodes \in Seq(Exprs)
  PROVE  /\ Planned(Statements(nodes)) /\ Simple(Statements(nodes))
         /\ \A j \in 1..Len(nodes) : Has(Statements(nodes), Visit(nodes[j]))
<1> DEFINE N == Len(nodes)
           S == {ts \in Seq(Task) : Planned(ts) /\ Simple(ts)}
           add(i, ts) == ts \o Statement(nodes[i])
           step == [x \in (1..N) \X S |-> add(x[1], x[2])]
           P(h) == h = [i \in 0..N |-> IF i = 0 THEN <<>> ELSE add(i, h[i - 1])]
<1>1. N \in Nat
  OBVIOUS
<1>2. <<>> \in S
  BY DEF Planned, PopsFollow, Simple
<1>3. ASSUME NEW i \in 1..N, NEW ts \in S PROVE add(i, ts) \in S
  <2> DEFINE u == Statement(nodes[i])
  <2>1. Planned(u) /\ Simple(u) /\ u \in Seq(Task)
    BY StatementFacts DEF Planned
  <2> HIDE DEF u
  <2>2. Planned(ts) /\ Simple(ts) /\ ts \in Seq(Task)
    OBVIOUS
  <2>3. Planned(ts \o u)
    BY <2>1, <2>2, PlannedConcat
  <2>4. ts \o u \in Seq(Task)
    BY <2>1, <2>2, ConcatFacts
  <2>5. Simple(ts \o u)
    BY <2>1, <2>2 DEF Simple
  <2> QED BY <2>3, <2>4, <2>5 DEF u
<1>a. ASSUME NEW i \in 1..N, NEW ts \in S
      PROVE  /\ Has(add(i, ts), Visit(nodes[i]))
             /\ \A c : Has(ts, c) => Has(add(i, ts), c)
  <2> DEFINE u == Statement(nodes[i])
  <2>1. u \in Seq(Task) /\ Has(u, Visit(nodes[i]))
    BY StatementFacts DEF Planned
  <2>2. ts \in Seq(Task)
    OBVIOUS
  <2> HIDE DEF u, Task
  <2>3. \A c : Has(u, c) => Has(ts \o u, c)
    <3>1. \A p \in DOMAIN u : Len(ts) + p \in DOMAIN (ts \o u) /\ (ts \o u)[Len(ts) + p] = u[p]
      BY <2>1, <2>2
    <3> QED BY <3>1 DEF Has
  <2>4. \A c : Has(ts, c) => Has(ts \o u, c)
    <3>1. \A p \in DOMAIN ts : p \in DOMAIN (ts \o u) /\ (ts \o u)[p] = ts[p]
      BY <2>1, <2>2
    <3> QED BY <3>1 DEF Has
  <2> QED BY <2>1, <2>3, <2>4 DEF u
<1> HIDE DEF S, add, N
<1>4. step \in [(1..N) \X S -> S]
  BY <1>3
<1>5. PICK g \in [0..N -> S] : Follows(g, N, <<>>, step)
  <2> HIDE DEF step
  <2> QED BY <1>1, <1>2, <1>4, RangeRecursion
<1>6. P(g)
  <2>1. ASSUME NEW i \in 0..N PROVE g[i] = IF i = 0 THEN <<>> ELSE add(i, g[i - 1])
    <3>1. CASE i = 0
      BY <1>5, <3>1 DEF Follows
    <3>2. CASE i # 0
      <4>1. i \in 1..N /\ g[i - 1] \in S
        BY <1>1, <1>5, <3>2
      <4> QED BY <1>5, <3>2, <4>1 DEF Follows
    <3> QED BY <3>1, <3>2
  <2> QED BY <1>5, <2>1
<1>7. Statements(nodes) = (CHOOSE h : P(h))[N]
  BY DEF Statements, N, add
<1>8. P(CHOOSE h : P(h))
  <2>1. \E h : P(h)
    BY <1>6
  <2> QED BY <2>1
<1> DEFINE H == CHOOSE h : P(h)
           T == {i \in 0..N : H[i] \in S /\ \A j \in 1..i : Has(H[i], Visit(nodes[j]))}
<1>9. \A i \in 0..N : H[i] = IF i = 0 THEN <<>> ELSE add(i, H[i - 1])
  BY <1>8
<1> HIDE DEF H, P
<1>10. 0 \in T
  BY <1>1, <1>2, <1>9
<1>11. ASSUME NEW i \in 0 + 1..N, i - 1 \in T PROVE i \in T
  <2>1. i \in 1..N /\ i \in 0..N /\ H[i - 1] \in S /\ H[i] = add(i, H[i - 1])
        /\ \A j \in 1..i - 1 : Has(H[i - 1], Visit(nodes[j]))
    BY <1>1, <1>9, <1>11
  <2>2. H[i] \in S
    BY <1>3, <2>1
  <2>3. \A j \in 1..i : Has(H[i], Visit(nodes[j]))
    BY <1>a, <2>1
  <2> QED BY <2>1, <2>2, <2>3
<1> HIDE DEF T
<1>12. \A i \in 0..N : i \in T
  <2>1. 0 \in Int /\ N \in Int
    BY <1>1
  <2> QED BY <2>1, <1>10, <1>11, RangeInduction
<1>13. H[N] \in S /\ \A j \in 1..N : Has(H[N], Visit(nodes[j]))
  BY <1>1, <1>12 DEF T
<1> QED BY <1>7, <1>13 DEF H, S, N

-----------------------------------------------------------------------------
(***************************************************************************)
(* A step of the compiler.                                                 *)
(***************************************************************************)
Going == CompilerInv /\ Compiling /\ Head(work) # Halt

(* Whoever is called before the op_halt is called while nothing failed. *)
LEMMA Now ==
  ASSUME CompilerInv, Compiling
  PROVE  /\ work \in Seq(Task) /\ Len(work) \in Nat /\ Len(work) >= 1 /\ work # <<>>
         /\ Head(work) = work[1] /\ work[1] \in Task
         /\ scopes \in Seq(ScopeType) /\ Len(scopes) \in Nat /\ Len(scopes) >= 1
         /\ Scope = scopes[Len(scopes)] /\ Scope \in ScopeType /\ Tracked(Scope)
         /\ Len(tables) = Len(scopes) /\ Chain(tables)
         /\ Head(work) # Halt => /\ Len(work) >= 2 /\ ~ failed
                                 /\ Waits(work, scopes)
<1>1. /\ work \in Seq(Task) /\ work # <<>> /\ work[Len(work)] = Halt
      /\ failed => work = <<Halt>>
      /\ ~failed => Waits(work, scopes)
  BY DEF CompilerInv, WorkOK
<1>2. Len(work) \in Nat /\ Len(work) >= 1 /\ Head(work) = work[1] /\ work[1] \in Task
  <2> HIDE DEF Task
  <2> QED BY <1>1
<1>3. scopes \in Seq(ScopeType) /\ Len(scopes) \in Nat /\ Len(scopes) >= 1
      /\ \A k \in DOMAIN scopes : Tracked(scopes[k])
  BY DEF CompilerInv, ScopesOK
<1>4. Scope = scopes[Len(scopes)] /\ Scope \in ScopeType /\ Tracked(Scope)
  BY <1>3 DEF Scope
<1>5. Len(tables) = Len(scopes) /\ Chain(tables)
  BY <1>3 DEF CompilerInv, TablesOK, Chain, ScopeAt
<1>6. ASSUME Head(work) # Halt PROVE Len(work) >= 2 /\ ~failed /\ Waits(work, scopes)
  BY <1>1, <1>2, <1>6
<1> QED BY <1>1, <1>2, <1>3, <1>4, <1>5, <1>6

(* The jumps that wait for their target. *)
Placeholders(insts) ==
  {q \in 0..Len(insts) - 1 : \E op \in Jumps : insts[q + 1] = Decoded(op, PLACEHOLDER, 0)}

(* CodeStands, of one step. *)
CodeKept ==
  \A k \in DOMAIN scopes \cap DOMAIN scopes' :
    Stands(scopes[k].insts, scopes'[k].insts, Placeholders(scopes[k].insts))

LEMMA StandsWeaker ==
  ASSUME NEW a \in Seq(Cell), NEW b \in Seq(Cell), NEW P, NEW Q, Stands(a, b, P),
         \A p \in P : p \in 0..Len(a) - 1 =>
           p \in Q \/ (p + 1 = Len(a) /\ a[p + 1].op = "pop")
  PROVE  Stands(a, b, Q)
BY DEF Stands

LEMMA SameKept ==
  ASSUME UNCHANGED scopes
  PROVE  CodeKept
BY DEF CodeKept, Stands

LEMMA KeptHere ==
  ASSUME scopes \in Seq(ScopeType), Len(scopes) >= 1, NEW s \in ScopeType,
         scopes' = [scopes EXCEPT ![Len(scopes)] = s],
         NEW P, Stands(scopes[Len(scopes)].insts, s.insts, P),
         P \subseteq Placeholders(scopes[Len(scopes)].insts)
  PROVE  CodeKept
<1> SUFFICES ASSUME NEW k \in DOMAIN scopes \cap DOMAIN scopes'
             PROVE  Stands(scopes[k].insts, scopes'[k].insts, Placeholders(scopes[k].insts))
  BY DEF CodeKept
<1>1. CASE k = Len(scopes)
  <2>1. scopes[k] \in ScopeType /\ scopes'[k] = s
    BY <1>1
  <2>2. scopes[k].insts \in Seq(Cell) /\ s.insts \in Seq(Cell)
    BY <2>1 DEF ScopeType
  <2> QED BY <1>1, <2>1, <2>2, StandsWeaker
<1>2. CASE k # Len(scopes)
  <2>1. scopes'[k] = scopes[k]
    BY <1>2
  <2> QED BY <2>1 DEF Stands
<1> QED BY <1>1, <1>2

(* The op_halt stays the last call. *)
LEMMA HaltStays ==
  ASSUME NEW v \in Seq(Task), Len(v) >= 2, v[Len(v)] = Halt, NEW ts \in Seq(Task)
  PROVE  LET w == After(ts, v) IN w \in Seq(Task) /\ w # <<>> /\ w[Len(w)] = Halt
<1> DEFINE w == After(ts, v)
<1>1. Len(v) \in Nat /\ Len(ts) \in Nat /\ v # <<>>
  <2> HIDE DEF Task
  <2> QED OBVIOUS
<1>2. /\ w \in Seq(Task) /\ Len(w) = Len(ts) + Len(v) - 1
      /\ \A i \in 2..Len(v) : w[Len(ts) + i - 1] = v[i]
  BY <1>1, Behind
<1> HIDE DEF w
<1>3. Len(v) \in 2..Len(v) /\ Len(w) = Len(ts) + Len(v) - 1 /\ Len(w) # 0
  BY <1>1, <1>2
<1>4. w[Len(w)] = v[Len(v)]
  BY <1>2, <1>3
<1>5. w # <<>>
  <2> HIDE DEF Task
  <2> QED BY <1>2, <1>3
<1> QED BY <1>2, <1>4, <1>5 DEF w

(* The calls ts instead of the head, and the scope s instead of Scope. *)
LEMMA GoOn ==
  ASSUME Going, NEW ts, NEW s, NEW P, Goes(work, scopes, ts, s, P), Tracked(s),
         work' = ts \o Tail(work), scopes' = [scopes EXCEPT ![Len(scopes)] = s],
         UNCHANGED <<cstat, failed>>
  PROVE  ScopesOK' /\ WorkOK' /\ Len(scopes') = Len(scopes)
<1>1. /\ work \in Seq(Task) /\ Len(work) \in Nat /\ Len(work) >= 2 /\ work # <<>>
      /\ scopes \in Seq(ScopeType) /\ Len(scopes) \in Nat /\ Len(scopes) >= 1
      /\ ~failed
  BY Now DEF Going
<1>2. s \in ScopeType /\ ts \in Seq(Task) /\ Len(ts) \in Nat
  BY DEF Goes, Planned
<1>3. Len(scopes') = Len(scopes) /\ scopes' \in Seq(ScopeType)
  BY <1>1, <1>2
<1>4. ScopesOK'
  <2>1. \A k \in DOMAIN scopes' : Tracked(scopes'[k])
    <3>1. \A k \in DOMAIN scopes : Tracked(scopes[k])
      BY DEF Going, CompilerInv, ScopesOK
    <3> QED BY <1>1, <3>1
  <2> QED BY <1>1, <1>3, <2>1 DEF ScopesOK
<1>5. work' = After(ts, work)
  BY DEF After
<1>6. Waits(work', scopes')
  BY <1>5, WaitsOn
<1>7. work' \in Seq(Task) /\ work' # <<>> /\ work'[Len(work')] = Halt
  <2>1. work[Len(work)] = Halt
    BY DEF Going, CompilerInv, WorkOK
  <2> QED BY <1>1, <1>2, <1>5, <2>1, HaltStays
<1>8. WorkOK'
  BY <1>1, <1>6, <1>7 DEF WorkOK, Compiling, Going
<1> QED BY <1>3, <1>4, <1>8

LEMMA SameScope ==
  ASSUME NEW sc \in Seq(ScopeType), Len(sc) >= 1
  PROVE  [sc EXCEPT ![Len(sc)] = sc[Len(sc)]] = sc
OBVIOUS

(* Only calls: what Plan does. *)
LEMMA PlanStep ==
  ASSUME Going, NEW ts, Planned(ts), \A i \in DOMAIN ts : ts[i].do \notin {"body", "altern", "function"},
         Head(work).do # "function",
         Yields(Head(work)) => ts # <<>> /\ Yields(ts[Len(ts)]),
         Plan(ts)
  PROVE  CompilerInv' /\ CodeKept
<1>1. /\ work \in Seq(Task) /\ Len(work) >= 2 /\ Head(work) = work[1]
      /\ scopes \in Seq(ScopeType) /\ Len(scopes) >= 1
      /\ Scope = scopes[Len(scopes)] /\ Scope \in ScopeType /\ Tracked(Scope)
      /\ Waits(work, scopes) /\ ~failed
  BY Now DEF Going
<1>2. UNCHANGED <<tree, tables, scopes, nconsts, cstat, failed, released, heap, consts>>
      /\ work' = ts \o Tail(work)
  BY DEF Plan, Continue, objVars
<1>3. Goes(work, scopes, ts, Scope, {})
  <2>1. KeepsJumps(scopes[Len(scopes)].insts, Scope.insts, {})
    BY <1>1 DEF KeepsJumps
  <2>2. \A i \in DOMAIN ts : ~ Holds(ts[i])
    BY DEF Holds
  <2> QED BY <1>1, <2>1, <2>2 DEF Goes
<1>4. scopes' = [scopes EXCEPT ![Len(scopes)] = Scope]
  BY <1>1, <1>2, SameScope
<1>5. ScopesOK' /\ WorkOK' /\ Len(scopes') = Len(scopes)
  BY <1>1, <1>2, <1>3, <1>4, GoOn
<1>6. StateOK' /\ TablesOK'
  BY <1>2 DEF Going, CompilerInv, StateOK, TablesOK
<1>7. CodeKept
  BY <1>2, SameKept
<1> QED BY <1>5, <1>6, <1>7 DEF CompilerInv

(* One instruction that is no op_pop instead of the head. *)
LEMMA EmitStep ==
  ASSUME Going, Head(work).do \notin {"function"},
         NEW op \in Opcode, op # "pop", NEW a \in Nat, NEW b \in Nat,
         InScope(compiler_emit(Scope, op, a, b)), Continue(<<>>),
         UNCHANGED <<cstat, failed>>
  PROVE  ScopesOK' /\ WorkOK' /\ Len(scopes') = Len(scopes) /\ CodeKept
<1> DEFINE s == compiler_emit(Scope, op, a, b)
<1>1. /\ work \in Seq(Task) /\ Len(work) >= 2 /\ Head(work) = work[1]
      /\ scopes \in Seq(ScopeType) /\ Len(scopes) >= 1
      /\ Scope = scopes[Len(scopes)] /\ Scope \in ScopeType /\ Tracked(Scope)
      /\ Waits(work, scopes)
  BY Now DEF Going
<1>2. s \in ScopeType /\ Tracked(s) /\ Yielded(s) /\ Grown(Scope.insts, s.insts, {})
  BY <1>1, EmitFacts
<1>3. work' = <<>> \o Tail(work) /\ scopes' = [scopes EXCEPT ![Len(scopes)] = s]
  BY DEF Continue, InScope
<1> HIDE DEF s
<1>4. KeepsJumps(Scope.insts, s.insts, {})
  <2>1. Scope.insts \in Seq(Cell) /\ s.insts \in Seq(Cell)
    BY <1>1, <1>2 DEF ScopeType
  <2> QED BY <1>2, <2>1, StandsThenGrown
<1>5. Planned(<<>>)
  BY DEF Planned, PopsFollow
<1>6. Goes(work, scopes, <<>>, s, {})
  BY <1>1, <1>2, <1>4, <1>5 DEF Goes
<1>7. CodeKept
  <2>1. Scope.insts \in Seq(Cell) /\ s.insts \in Seq(Cell)
    BY <1>1, <1>2 DEF ScopeType
  <2> DEFINE P == {}
  <2>2. Stands(scopes[Len(scopes)].insts, s.insts, P)
    BY <1>1, <1>2, <2>1, StandsThenGrown
  <2>3. P \subseteq Placeholders(scopes[Len(scopes)].insts)
    OBVIOUS
  <2> HIDE DEF P
  <2> QED BY <1>1, <1>2, <1>3, <2>2, <2>3, KeptHere
<1> QED BY <1>2, <1>3, <1>6, <1>7, GoOn

-----------------------------------------------------------------------------
(***************************************************************************)
(* One lemma for each function of the compiler.                            *)
(***************************************************************************)
Kept == CompilerInv' /\ CodeKept

(* An object takes the next index. *)
LEMMA ConstAdded ==
  ASSUME StateOK, heap' \in Seq(ObjectType), Len(heap') >= Len(heap),
         NEW id \in 1..Len(heap'), compiler_add_const(id),
         UNCHANGED <<cstat, failed>>, released' \in BOOLEAN
  PROVE  StateOK'
<1>1. nconsts \in Nat /\ nconsts' = nconsts + 1 /\ DOMAIN consts \subseteq 0..nconsts - 1
      /\ \A i \in DOMAIN consts : consts[i] \in 1..Len(heap)
      /\ Len(heap) \in Nat /\ Len(heap') \in Nat /\ Len(heap) >= 3
  BY DEF StateOK, compiler_add_const
<1>2. consts' = [j \in DOMAIN consts \cup {nconsts} |-> IF j = nconsts THEN id ELSE consts[j]]
  BY DEF compiler_add_const, Put
<1>3. DOMAIN consts' \subseteq 0..nconsts' - 1 /\ nconsts' \in Nat
  <2>1. DOMAIN consts' = DOMAIN consts \cup {nconsts}
    BY <1>2
  <2>2. 0..nconsts - 1 \subseteq 0..nconsts' - 1 /\ nconsts \in 0..nconsts' - 1
    BY <1>1
  <2> QED BY <1>1, <2>1, <2>2
<1>4. ASSUME NEW i \in DOMAIN consts' PROVE consts'[i] \in 1..Len(heap')
  <2>1. CASE i = nconsts
    BY <1>2, <2>1
  <2>2. CASE i # nconsts
    <3>1. i \in DOMAIN consts /\ consts'[i] = consts[i]
      BY <1>2, <2>2
    <3>2. 1..Len(heap) \subseteq 1..Len(heap')
      BY <1>1
    <3> QED BY <1>1, <3>1, <3>2
  <2> QED BY <2>1, <2>2
<1>5. cstat' \in {"compiling", "compiled", "crashed"} /\ failed' \in BOOLEAN
  BY DEF StateOK
<1> QED BY <1>1, <1>3, <1>4, <1>5 DEF StateOK

LEMMA SameTables ==
  ASSUME TablesOK, UNCHANGED tables, Len(scopes') = Len(scopes)
  PROVE  TablesOK'
BY DEF TablesOK

LEMMA IntegerStep ==
  ASSUME Going, compile_integer
  PROVE  Kept
<1> DEFINE o == new_integer_obj(Node.i)
<1>1. /\ work \in Seq(Task) /\ Head(work) \in Task /\ Head(work).do = "visit" /\ Node.t = "integer"
      /\ heap' = Append(heap, o) /\ compiler_add_const(Len(heap) + 1)
      /\ InScope(compiler_emit(Scope, "constant", nconsts, 0)) /\ Continue(<<>>)
      /\ UNCHANGED <<tree, tables, cstat, failed, released>>
  BY Now DEF Going, compile_integer, Visiting, Doing
<1>2. o \in ObjectType
  <2>1. Node \in Nodes
    BY <1>1, TaskFacts DEF Node
  <2>2. Node.i \in Int
    BY <1>1, <2>1, NodeFacts
  <2> QED BY <2>2 DEF new_integer_obj, ObjectType
<1> HIDE DEF o
<1>3. StateOK'
  <2>1. StateOK /\ heap \in Seq(ObjectType) /\ Len(heap) \in Nat
    BY DEF Going, CompilerInv, StateOK
  <2> HIDE DEF ObjectType
  <2>2. heap' \in Seq(ObjectType) /\ Len(heap') = Len(heap) + 1
    BY <1>1, <1>2, <2>1
  <2>3. Len(heap) + 1 \in 1..Len(heap') /\ Len(heap') >= Len(heap) /\ released' \in BOOLEAN
    BY <1>1, <2>1, <2>2 DEF StateOK
  <2> DEFINE id == Len(heap) + 1
  <2>4. id \in 1..Len(heap') /\ compiler_add_const(id)
    BY <1>1, <2>3
  <2> HIDE DEF id
  <2> QED BY <1>1, <2>1, <2>2, <2>3, <2>4, ConstAdded
<1>4. ScopesOK' /\ WorkOK' /\ Len(scopes') = Len(scopes) /\ CodeKept
  <2>1. "constant" \in Opcode /\ "constant" # "pop" /\ nconsts \in Nat /\ 0 \in Nat
    BY DEF Going, CompilerInv, StateOK, Opcode, Wide
  <2> QED BY <1>1, <2>1, EmitStep
<1>5. TablesOK'
  BY <1>1, <1>4, SameTables DEF Going, CompilerInv
<1> QED BY <1>3, <1>4, <1>5 DEF Kept, CompilerInv

LEMMA NullStep ==
  ASSUME Going, compile_null
  PROVE  Kept
<1>1. /\ work \in Seq(Task) /\ Head(work) \in Task /\ Head(work).do = "visit"
      /\ compiler_add_const(NullObj)
      /\ InScope(compiler_emit(Scope, "constant", nconsts, 0)) /\ Continue(<<>>)
      /\ UNCHANGED <<tree, tables, cstat, failed, released, heap>>
  BY Now DEF Going, compile_null, Visiting, Doing
<1>2. StateOK'
  <2>1. /\ StateOK /\ heap' \in Seq(ObjectType) /\ Len(heap') >= Len(heap)
        /\ NullObj \in 1..Len(heap') /\ released' \in BOOLEAN
    BY <1>1 DEF Going, CompilerInv, StateOK, NullObj
  <2> QED BY <1>1, <2>1, ConstAdded
<1>3. ScopesOK' /\ WorkOK' /\ Len(scopes') = Len(scopes) /\ CodeKept
  <2>1. "constant" \in Opcode /\ "constant" # "pop" /\ nconsts \in Nat /\ 0 \in Nat
    BY DEF Going, CompilerInv, StateOK, Opcode, Wide
  <2> QED BY <1>1, <2>1, EmitStep
<1>4. TablesOK'
  BY <1>1, <1>3, SameTables DEF Going, CompilerInv
<1> QED BY <1>2, <1>3, <1>4 DEF Kept, CompilerInv

(* The functions that visit the children and emit one instruction. *)
Calls(ts) ==
  /\ ts \in Seq(Task) /\ ts # <<>>
  /\ \A i \in DOMAIN ts : ts[i].do \in {"visit", "emit", "cond"} /\ ~ IsPop(ts[i])
  /\ ts[Len(ts)].do # "visit"

LEMMA CallsStep ==
  ASSUME Going, Head(work).do = "visit", NEW ts, Calls(ts), Plan(ts)
  PROVE  Kept
<1>1. Planned(ts)
  BY NoPops DEF Calls
<1>2. Len(ts) \in DOMAIN ts /\ ts # <<>>
  BY DEF Calls
<1>3. Yields(ts[Len(ts)])
  BY <1>2 DEF Yields, IsPop, Calls
<1>4. \A i \in DOMAIN ts : ts[i].do \notin {"body", "altern", "function"}
  BY DEF Calls
<1> QED BY <1>1, <1>2, <1>3, <1>4, PlanStep DEF Kept

(* The node that is visited. *)
LEMMA Visited ==
  ASSUME Going, Head(work).do = "visit"
  PROVE  Node \in Nodes
BY Now, TaskFacts DEF Going, Node

LEMMA OperationStep ==
  ASSUME Going, compile_operation
  PROVE  Kept
<1> DEFINE a == Visit(Node.l)
           b == Visit(Node.r)
           e == EmitTask(OperationOp(Node.t), 0)
           ts == (IF Node.t \in {"less", "lesseq"} THEN <<b, a>> ELSE <<a, b>>) \o <<e>>
<1>1. Head(work).do = "visit" /\ Node.t \in OperationTypes /\ Plan(ts)
  BY DEF compile_operation, Visiting, Doing
<1>2. Node \in Nodes /\ Node.l \in Nodes /\ Node.r \in Nodes
  BY <1>1, Visited, NodeFacts DEF Exprs
<1>3. OperationOp(Node.t) \in Deferred /\ OperationOp(Node.t) # "pop"
  BY <1>1 DEF OperationOp, OperationTypes, Deferred, Constants, Opcode, Plain
<1>4. /\ a \in Task /\ b \in Task /\ e \in Task
      /\ a.do = "visit" /\ b.do = "visit" /\ e.do = "emit" /\ ~ IsPop(e)
      /\ ~ IsPop(a) /\ ~ IsPop(b)
  <2>1. 0 \in Nat
    OBVIOUS
  <2>2. a \in Task /\ b \in Task /\ e \in Task
    BY <1>2, <1>3, <2>1, TasksOf
  <2> QED BY <1>3, <2>2 DEF Visit, EmitTask, IsPop
<1> HIDE DEF a, b, e
<1> HIDE DEF Task
<1>5. PICK x, y \in {a, b} : ts = <<x, y>> \o <<e>>
  OBVIOUS
<1>6. Calls(ts)
  <2>1. /\ ts \in Seq(Task) /\ Len(ts) = 3
        /\ ts[1] = x /\ ts[2] = y /\ ts[3] = e
    BY <1>4, <1>5
  <2> HIDE DEF ts
  <2> QED BY <1>4, <2>1 DEF Calls
<1> HIDE DEF ts
<1> QED BY <1>1, <1>6, CallsStep

LEMMA ReturnStep ==
  ASSUME Going, compile_return
  PROVE  Kept
<1> DEFINE a == Visit(Node.val)
           e == EmitTask("return_value", 0)
           ts == <<a, e>>
<1>1. Head(work).do = "visit" /\ Node.t = "return" /\ Plan(ts)
  BY DEF compile_return, Visiting, Doing
<1>2. Node \in Nodes /\ Node.val \in Nodes
  BY <1>1, Visited, NodeFacts DEF Exprs
<1>3. "return_value" \in Deferred /\ 0 \in Nat
  BY DEF Deferred, Constants, Opcode, Plain
<1>4. /\ a \in Task /\ e \in Task
      /\ a.do = "visit" /\ e.do = "emit" /\ ~ IsPop(e) /\ ~ IsPop(a)
  BY <1>2, <1>3, TasksOf DEF Visit, EmitTask, IsPop
<1> HIDE DEF a, e
<1> HIDE DEF Task
<1>5. Calls(ts)
  BY <1>4 DEF Calls
<1> HIDE DEF ts
<1> QED BY <1>1, <1>5, CallsStep

LEMMA IfelseStep ==
  ASSUME Going, compile_ifelse
  PROVE  Kept
<1> DEFINE a == Visit(Node.cond)
           e == AfterCond(Node)
           ts == <<a, e>>
<1>1. Head(work).do = "visit" /\ Node.t = "ifelse" /\ Plan(ts)
  BY DEF compile_ifelse, Visiting, Doing
<1>2. Node \in OfType("ifelse") /\ Node.cond \in Nodes
  BY <1>1, Visited, NodeFacts DEF Exprs, OfType
<1>3. /\ a \in Task /\ e \in Task
      /\ a.do = "visit" /\ e.do = "cond" /\ ~ IsPop(e) /\ ~ IsPop(a)
  BY <1>2, TasksOf DEF Visit, AfterCond, IsPop
<1> HIDE DEF a, e
<1> HIDE DEF Task
<1>4. Calls(ts)
  BY <1>3 DEF Calls
<1> HIDE DEF ts
<1> QED BY <1>1, <1>4, CallsStep

LEMMA CallStep ==
  ASSUME Going, compile_call
  PROVE  Kept
<1> DEFINE n == Len(Node.args)
           a == Visit(Node.fn)
           e == EmitTask("call", n)
           bs == [i \in 1..n |-> Visit(Node.args[i])]
           ts == <<a>> \o bs \o <<e>>
<1>1. Head(work).do = "visit" /\ Node.t = "call" /\ Plan(ts)
  BY DEF compile_call, Visiting, Doing
<1>2. Node \in Nodes /\ Node.fn \in Nodes /\ Node.args \in Seq(Exprs)
  BY <1>1, Visited, NodeFacts DEF Exprs
<1>3. n \in Nat /\ \A i \in 1..n : Node.args[i] \in Nodes
  <2>1. Node.args \in Seq(Nodes)
    BY <1>2 DEF Exprs
  <2> QED BY <2>1
<1>4. "call" \in Deferred
  BY DEF Deferred, Constants, Opcode, Narrow
<1>5. /\ a \in Task /\ e \in Task
      /\ a.do = "visit" /\ e.do = "emit" /\ ~ IsPop(e) /\ ~ IsPop(a)
  BY <1>2, <1>3, <1>4, TasksOf DEF Visit, EmitTask, IsPop
<1>6. \A i \in 1..n : bs[i] \in Task /\ bs[i].do = "visit" /\ ~ IsPop(bs[i])
  BY <1>3, TasksOf DEF Visit, IsPop
<1> HIDE DEF a, e
<1> HIDE DEF Task
<1>7. bs \in [1..n -> Task] /\ n \in Nat
  BY <1>3, <1>6
<1> HIDE DEF bs, n
<1>a. bs \in Seq(Task) /\ Len(bs) = n
  BY <1>7
<1>8. /\ ts \in Seq(Task) /\ Len(ts) = n + 2
      /\ ts[1] = a /\ ts[n + 2] = e /\ \A i \in 2..n + 1 : ts[i] = bs[i - 1]
  BY <1>3, <1>5, <1>a
<1> HIDE DEF ts
<1>9. Calls(ts)
  <2>1. \A i \in 2..n + 1 : i - 1 \in 1..n
    BY <1>3
  <2>2. \A i \in 2..n + 1 : ts[i].do = "visit" /\ ~ IsPop(ts[i])
    BY <1>6, <1>8, <2>1
  <2>3. DOMAIN ts = 1..n + 2
    BY <1>8
  <2>4. \A i \in 1..n + 2 : i = 1 \/ i = n + 2 \/ i \in 2..n + 1
    BY <1>3
  <2>5. \A i \in DOMAIN ts : ts[i].do \in {"visit", "emit", "cond"} /\ ~ IsPop(ts[i])
    BY <1>5, <1>8, <2>2, <2>3, <2>4
  <2>6. ts # <<>>
    BY <1>3, <1>8
  <2> QED BY <1>5, <1>8, <2>5, <2>6 DEF Calls
<1> QED BY <1>1, <1>9, CallsStep

LEMMA BlockStep ==
  ASSUME Going, compile_block
  PROVE  Kept
<1> DEFINE ts == Statements(Node.nodes)
<1>1. Head(work).do = "visit" /\ Node.t = "block" /\ Plan(ts)
  BY DEF compile_block, Visiting, Doing
<1>2. Node.nodes \in Seq(Exprs)
  BY <1>1, Visited, NodeFacts
<1>3. Planned(ts) /\ Simple(ts)
  BY <1>2, StatementsFacts
<1>4. \A i \in DOMAIN ts : ts[i].do \notin {"body", "altern", "function"}
  BY <1>3 DEF Simple
<1>5. ~ Yields(Head(work))
  BY <1>1 DEF Yields, Node
<1> HIDE DEF ts
<1> QED BY <1>1, <1>3, <1>4, <1>5, PlanStep DEF Kept

(* After -1 only the op_halt is left; after a crash nothing is. *)
LEMMA WorkEnds ==
  /\ work' = <<Halt>> /\ failed' = TRUE => WorkOK'
  /\ work' = <<>> /\ cstat' = "crashed" => WorkOK'
<1>1. Halt \in Task
  <2>1. "halt" \in Deferred /\ 0 \in Nat
    BY DEF Deferred, Constants, Opcode, Plain
  <2> QED BY <2>1, TasksOf DEF Halt
<1> HIDE DEF Halt, Task
<1>2. ASSUME work' = <<Halt>>, failed' = TRUE PROVE WorkOK'
  BY <1>1, <1>2 DEF WorkOK
<1>3. ASSUME work' = <<>>, cstat' = "crashed" PROVE WorkOK'
  BY <1>3 DEF WorkOK, Compiling
<1> QED BY <1>2, <1>3

(* A function returns -1. *)
LEMMA FailStep ==
  ASSUME CompilerInv, Fail, TablesOK', UNCHANGED scopes
  PROVE  Kept
<1>1. StateOK' /\ ScopesOK'
  BY DEF CompilerInv, StateOK, ScopesOK, Fail, objVars
<1>2. WorkOK'
  BY WorkEnds DEF Fail
<1> QED BY <1>1, <1>2, SameKept DEF Kept, CompilerInv

LEMMA TablesAsChain ==
  ASSUME Chain(tables'), Len(tables') = Len(scopes')
  PROVE  TablesOK'
BY DEF Chain, TablesOK, ScopeAt

LEMMA IdentifierStep ==
  ASSUME Going, compile_identifier
  PROVE  Kept
<1> DEFINE r == symbol_table_resolve(tables, Node.name)
           s == r.symbol
<1>1. /\ Head(work).do = "visit" /\ Node.t = "identifier" /\ tables' = r.tables
      /\ IF Loadable(s)
         THEN /\ InScope(compiler_emit(Scope, LoadOp(s.scope), s.index, 0))
              /\ Continue(<<>>)
              /\ UNCHANGED <<tree, nconsts, cstat, failed, released, objVars>>
         ELSE Fail /\ UNCHANGED scopes
  BY DEF compile_identifier, Visiting, Doing
<1>2. Node.name \in STRING
  BY <1>1, Visited, NodeFacts
<1>3. /\ Chain(tables) /\ Len(tables) = Len(scopes)
      /\ s \in SymbolType \cup {NoSymbol} /\ SameNames(tables, r.tables)
  BY <1>2, Now, ResolveFacts DEF Going
<1> HIDE DEF s, r
<1>4. Chain(tables') /\ Len(tables') = Len(tables)
  BY <1>1, <1>3, SameNamesFacts DEF SameNames
<1>5. CASE Loadable(s)
  <2>1. s \in SymbolType
    <3>1. NoSymbol.scope = -1
      BY DEF NoSymbol, new_symbol
    <3>2. ~ Loadable(NoSymbol)
      BY <3>1 DEF Loadable, global_scope, function_scope
    <3> QED BY <1>3, <1>5, <3>2
  <2>2. LoadOp(s.scope) \in Opcode /\ LoadOp(s.scope) # "pop" /\ s.index \in Nat /\ 0 \in Nat
    BY <1>5, <2>1, LoadOpFacts
  <2>3. ScopesOK' /\ WorkOK' /\ Len(scopes') = Len(scopes) /\ CodeKept
    BY <1>1, <1>5, <2>2, EmitStep
  <2>4. StateOK'
    BY <1>1, <1>5 DEF Going, CompilerInv, StateOK, objVars
  <2>5. TablesOK'
    BY <1>3, <1>4, <2>3, TablesAsChain
  <2> QED BY <2>3, <2>4, <2>5 DEF Kept, CompilerInv
<1>6. CASE ~ Loadable(s)
  <2>1. TablesOK'
    BY <1>1, <1>3, <1>4, <1>6, TablesAsChain
  <2> QED BY <1>1, <1>6, <2>1, FailStep DEF Going
<1> QED BY <1>5, <1>6

LEMMA AssignToLiteralStep ==
  ASSUME Going, compile_assign_to_literal
  PROVE  Kept
BY FailStep, SameTables DEF Going, CompilerInv, compile_assign_to_literal

(* The name takes its slot, and the value is compiled. *)
LEMMA AssignStep ==
  ASSUME Going, compile_assign
  PROVE  Kept
<1> DEFINE y == Innermost(tables').store[Node.l.name]
           op == IF y.scope = global_scope THEN "set_global" ELSE "set_local"
           a == Visit(Node.r)
           e == EmitTask(op, y.index)
           ts == <<a, e>>
<1>1. /\ Head(work).do = "visit" /\ Node.t = "assign" /\ Node.l.t = "identifier"
      /\ tables' = symbol_table_define(tables, Node.l.name)
      /\ work' = ts \o Tail(work)
      /\ UNCHANGED <<tree, scopes, nconsts, cstat, failed, released, objVars>>
  BY DEF compile_assign, Visiting, Doing, Continue
<1>2. Node.r \in Nodes /\ Node.l.name \in STRING
  <2>1. Node \in Nodes
    BY <1>1, Visited
  <2>2. Node.r \in Nodes /\ Node.l \in Nodes
    BY <1>1, <2>1, NodeFacts DEF Exprs
  <2> QED BY <1>1, <2>2, NodeFacts
<1>3. /\ Chain(tables) /\ Len(tables) = Len(scopes)
      /\ Chain(tables') /\ Extends(tables, tables')
      /\ Node.l.name \in DOMAIN Innermost(tables').store
  <2>1. Chain(tables) /\ Len(tables) = Len(scopes)
    BY Now DEF Going
  <2> QED BY <1>1, <1>2, <2>1, DefineFacts
<1>4. TablesOK'
  BY <1>1, <1>3, TablesAsChain DEF Extends
<1>5. y.index \in Nat
  <2>1. Innermost(tables') \in TableType
    BY <1>3 DEF Chain, Innermost
  <2>2. y \in SymbolType
    BY <1>3, <2>1, TableFacts
  <2> QED BY <2>2 DEF SymbolType
<1>6. op \in Deferred /\ op # "pop"
  BY DEF Deferred, Constants, Opcode, Wide, Narrow
<1>7. /\ a \in Task /\ e \in Task
      /\ a.do = "visit" /\ e.do = "emit" /\ ~ IsPop(e) /\ ~ IsPop(a)
  BY <1>2, <1>5, <1>6, TasksOf DEF Visit, EmitTask, IsPop
<1> HIDE DEF a, e
<1> HIDE DEF Task
<1>8. /\ ts \in Seq(Task) /\ ts # <<>> /\ Len(ts) = 2 /\ ts[2] = e
      /\ \A i \in DOMAIN ts : ts[i].do \in {"visit", "emit"} /\ ~ IsPop(ts[i])
  BY <1>7
<1> HIDE DEF ts
<1>9. Planned(ts) /\ Yields(ts[Len(ts)])
  BY <1>7, <1>8, NoPops DEF Yields, IsPop
<1>a. /\ work \in Seq(Task) /\ Len(work) >= 2 /\ Head(work) = work[1]
      /\ scopes \in Seq(ScopeType) /\ Len(scopes) >= 1
      /\ Scope = scopes[Len(scopes)] /\ Scope \in ScopeType /\ Tracked(Scope)
      /\ Waits(work, scopes) /\ ~failed
  BY Now DEF Going
<1>b. Goes(work, scopes, ts, Scope, {})
  <2>1. KeepsJumps(scopes[Len(scopes)].insts, Scope.insts, {})
    BY <1>a DEF KeepsJumps
  <2>2. \A i \in DOMAIN ts : ts[i].do # "function" /\ ~ Holds(ts[i])
    BY <1>8 DEF Holds
  <2> QED BY <1>1, <1>8, <1>9, <1>a, <2>1, <2>2 DEF Goes
<1>c. scopes' = [scopes EXCEPT ![Len(scopes)] = Scope]
  BY <1>1, <1>a, SameScope
<1>d. ScopesOK' /\ WorkOK' /\ CodeKept
  BY <1>1, <1>a, <1>b, <1>c, GoOn, SameKept
<1>e. StateOK'
  BY <1>1 DEF Going, CompilerInv, StateOK, objVars
<1> QED BY <1>4, <1>d, <1>e DEF Kept, CompilerInv

(* The positions that are held in the scope at work, the head's among them.*)
LEMMA Held ==
  ASSUME Going, Head(work).do # "function"
  PROVE  /\ \A j \in 2..Len(work) : Holds(work[j]) /\ Depth(work, j) = Len(scopes) =>
              /\ HeldIn(work[j], Scope.insts)
              /\ Holds(Head(work)) => work[j].pos # Head(work).pos
         /\ Holds(Head(work)) => HeldIn(Head(work), Scope.insts) /\ Head(work).pos \in Nat
<1>1. /\ work \in Seq(Task) /\ Len(work) \in Nat /\ Len(work) >= 2
      /\ Head(work) = work[1] /\ work[1] \in Task /\ Scope = scopes[Len(scopes)]
      /\ Waits(work, scopes)
  BY Now DEF Going
<1>2. /\ Len(scopes) = Depth(work, 0)
      /\ \A i \in DOMAIN work : Holds(work[i]) => HeldIn(work[i], scopes[Depth(work, i)].insts)
      /\ \A i, j \in DOMAIN work :
           Holds(work[i]) /\ Holds(work[j]) /\ i # j /\ Depth(work, i) = Depth(work, j)
             => work[i].pos # work[j].pos
  BY <1>1 DEF Waits
<1>3. Depth(work, 1) = Len(scopes)
  <2> DEFINE i == 1  j == 0
  <2>1. i \in 1..Len(work) /\ j \in Nat /\ j = i - 1
    BY <1>1
  <2>2. Depth(work, j) = IF work[i].do = "function" THEN Depth(work, i) + 1 ELSE Depth(work, i)
    <3> HIDE DEF i, j
    <3> QED BY <1>1, <2>1, DepthOnce
  <2> QED BY <1>1, <1>2, <2>2
<1>4. 1 \in DOMAIN work /\ \A j \in 2..Len(work) : j \in DOMAIN work /\ j # 1
  <2> HIDE DEF Task
  <2> QED BY <1>1
<1>5. \A j \in 2..Len(work) : Holds(work[j]) /\ Depth(work, j) = Len(scopes) =>
        /\ HeldIn(work[j], Scope.insts)
        /\ Holds(work[1]) => work[j].pos # work[1].pos
  BY <1>1, <1>2, <1>3, <1>4
<1>6. Holds(work[1]) => HeldIn(work[1], Scope.insts) /\ work[1].pos \in Nat
  BY <1>1, <1>2, <1>3, <1>4, TaskFacts
<1> QED BY <1>1, <1>5, <1>6

(* A function goes on in the scope at work. *)
LEMMA ScopeStep ==
  ASSUME Going, NEW ts, NEW s, NEW P, Goes(work, scopes, ts, s, P), Tracked(s),
         NEW Q, Stands(Scope.insts, s.insts, Q), Q \subseteq Placeholders(Scope.insts),
         EmitHere(s), Continue(ts)
  PROVE  Kept
<1>1. /\ scopes' = [scopes EXCEPT ![Len(scopes)] = s] /\ work' = ts \o Tail(work)
      /\ UNCHANGED <<tree, tables, nconsts, cstat, failed, released, heap, consts>>
  BY DEF EmitHere, InScope, Continue, objVars
<1>2. ScopesOK' /\ WorkOK' /\ Len(scopes') = Len(scopes)
  BY <1>1, GoOn
<1>3. StateOK' /\ TablesOK'
  BY <1>1, <1>2 DEF Going, CompilerInv, StateOK, TablesOK
<1>4. CodeKept
  <2>1. /\ scopes \in Seq(ScopeType) /\ Len(scopes) >= 1 /\ Scope = scopes[Len(scopes)]
        /\ s \in ScopeType
    BY Now DEF Going, Goes
  <2> QED BY <1>1, <2>1, KeptHere
<1> QED BY <1>2, <1>3, <1>4 DEF Kept, CompilerInv

(* A position past the code is held by nobody. *)
LEMMA HeldBefore ==
  ASSUME NEW insts \in Seq(Cell), NEW c, HeldIn(c, insts)
  PROVE  c.pos < Len(insts) /\ c.pos # Len(insts)
BY DEF HeldIn, IsInst

LEMMA IfelseBodyStep ==
  ASSUME Going, compile_ifelse_body
  PROVE  Kept
<1> DEFINE pos == Len(Scope.insts)
           s == compiler_emit(Scope, "jump_not_truthy", PLACEHOLDER, 0)
           a == Visit(Node.body)
           e == AfterBody(Node, pos)
           ts == <<a, e>>
<1>1. Head(work).do = "cond" /\ EmitHere(s) /\ Continue(ts)
  BY DEF compile_ifelse_body, Doing, compiler_pos
<1>2. /\ work \in Seq(Task) /\ Len(work) >= 2 /\ Head(work) = work[1] /\ work[1] \in Task
      /\ scopes \in Seq(ScopeType) /\ Len(scopes) >= 1
      /\ Scope = scopes[Len(scopes)] /\ Scope \in ScopeType /\ Tracked(Scope)
      /\ Waits(work, scopes)
  BY Now DEF Going
<1>3. Node \in OfType("ifelse") /\ Node.body \in Nodes
  <2>1. Node \in Nodes /\ Node.t = "ifelse"
    BY <1>1, <1>2, TaskFacts DEF Node
  <2> QED BY <2>1, NodeFacts DEF OfType, Branches
<1>4. Scope.insts \in Seq(Cell) /\ pos \in Nat
  BY <1>2 DEF ScopeType
<1>5. /\ s \in ScopeType /\ Tracked(s) /\ Grown(Scope.insts, s.insts, {})
      /\ s.insts[pos + 1] = Decoded("jump_not_truthy", PLACEHOLDER, 0) /\ IsInst(s.insts, pos)
  <2>1. "jump_not_truthy" \in Opcode /\ "jump_not_truthy" # "pop" /\ PLACEHOLDER \in Nat /\ 0 \in Nat
    BY DEF Opcode, Wide, PLACEHOLDER
  <2> QED BY <1>2, <2>1, EmitFacts
<1>6. Stands(Scope.insts, s.insts, {}) /\ KeepsJumps(Scope.insts, s.insts, {})
  <2>1. s.insts \in Seq(Cell)
    BY <1>5 DEF ScopeType
  <2> QED BY <1>4, <1>5, <2>1, StandsThenGrown
<1>7. /\ a \in Task /\ e \in Task
      /\ a.do = "visit" /\ e.do = "body" /\ e.pos = pos /\ ~ IsPop(e) /\ ~ IsPop(a)
  BY <1>3, <1>4, TasksOf DEF Visit, AfterBody, IsPop
<1>8. HeldIn(e, s.insts)
  BY <1>5, <1>7 DEF HeldIn, JumpOf
<1> HIDE DEF a, e
<1> HIDE DEF Task
<1>9. /\ ts \in Seq(Task) /\ ts # <<>> /\ Len(ts) = 2 /\ ts[1] = a /\ ts[2] = e
      /\ DOMAIN ts = {1, 2}
  BY <1>7
<1> HIDE DEF ts
<1>a. Planned(ts) /\ Yields(ts[Len(ts)])
  BY <1>7, <1>9, NoPops DEF Yields, IsPop
<1>b. \A i \in DOMAIN ts : Holds(ts[i]) =>
        /\ i = Len(ts) /\ HeldIn(ts[i], s.insts)
        /\ \A j \in 2..Len(work) :
             Holds(work[j]) /\ Depth(work, j) = Len(scopes) => work[j].pos # ts[i].pos
  <2>1. \A j \in 2..Len(work) :
          Holds(work[j]) /\ Depth(work, j) = Len(scopes) => work[j].pos # pos
    <3>1. \A j \in 2..Len(work) :
            Holds(work[j]) /\ Depth(work, j) = Len(scopes) => HeldIn(work[j], Scope.insts)
      BY <1>1, Held
    <3> QED BY <1>4, <3>1, HeldBefore
  <2> HIDE DEF pos, s
  <2>2. \A i \in DOMAIN ts : Holds(ts[i]) => i = 2 /\ ts[i] = e
    BY <1>7, <1>9 DEF Holds
  <2> QED BY <1>7, <1>8, <1>9, <2>1, <2>2
<1> HIDE DEF s, pos
<1>c. \A i \in DOMAIN ts : ts[i].do # "function"
  BY <1>7, <1>9
<1> DEFINE P == {}
<1>d. Goes(work, scopes, ts, s, P)
  BY <1>1, <1>2, <1>5, <1>6, <1>9, <1>a, <1>b, <1>c DEF Goes
<1>e. Stands(Scope.insts, s.insts, P) /\ P \subseteq Placeholders(Scope.insts)
  BY <1>6
<1> HIDE DEF P
<1> QED BY <1>1, <1>5, <1>d, <1>e, ScopeStep

(* The code of a branch, with the position h of the jump before it. *)
HeldAt(insts, h) == IsInst(insts, h) /\ insts[h + 1].op \in Jumps

LEMMA HeldAtFacts ==
  ASSUME NEW insts, NEW c, Holds(c), HeldIn(c, insts)
  PROVE  HeldAt(insts, c.pos) /\ {c.pos} \subseteq Placeholders(insts)
<1>1. IsInst(insts, c.pos) /\ insts[c.pos + 1] = Decoded(JumpOf(c), PLACEHOLDER, 0)
      /\ JumpOf(c) \in Jumps
  BY DEF HeldIn, JumpOf, Jumps
<1>2. insts[c.pos + 1].op = JumpOf(c)
  BY <1>1 DEF Decoded
<1>3. c.pos \in 0..Len(insts) - 1
  BY <1>1 DEF IsInst
<1> QED BY <1>1, <1>2, <1>3 DEF HeldAt, Placeholders

(* The last op_pop of the branch goes: the jump before it stays. *)
LEMMA BranchFacts ==
  ASSUME NEW s \in ScopeType, Tracked(s), NEW h \in Nat, HeldAt(s.insts, h)
  PROVE  /\ WithoutPop(s) \in ScopeType /\ Tracked(WithoutPop(s)) /\ Yielded(WithoutPop(s))
         /\ Stands(s.insts, WithoutPop(s).insts, {})
         /\ HeldAt(WithoutPop(s).insts, h)
<1> DEFINE r == WithoutPop(s)
<1>1. s.insts \in Seq(Cell) /\ Len(s.insts) \in Nat
  BY DEF ScopeType
<1>2. s.insts # <<>>
  BY <1>1 DEF HeldAt, IsInst
<1>3. /\ r \in ScopeType /\ Tracked(r) /\ Yielded(r)
      /\ Stands(s.insts, r.insts, {})
  BY <1>2, WithoutPopFacts
<1> HIDE DEF r
<1>4. r.insts \in Seq(Cell) /\ Len(r.insts) \in Nat
  BY <1>3 DEF ScopeType
<1>5. KeepsJumps(s.insts, r.insts, {})
  BY <1>1, <1>3, <1>4, StandsThenGrown
<1>6. HeldAt(r.insts, h)
  <2>1. h \in 0..Len(s.insts) - 1 /\ s.insts[h + 1] \in Inst /\ s.insts[h + 1].op \in Jumps
    BY DEF HeldAt, IsInst
  <2>2. h < Len(r.insts) /\ r.insts[h + 1] = s.insts[h + 1]
    BY <1>5, <2>1 DEF KeepsJumps
  <2>3. h \in 0..Len(r.insts) - 1
    BY <1>4, <2>2
  <2> QED BY <2>1, <2>2, <2>3 DEF HeldAt, IsInst
<1> QED BY <1>3, <1>6 DEF r

(* The branch's scope at the end of the if. *)
Ended(s, h) ==
  compiler_replace_operand(WithoutPop(s), h, compiler_pos(WithoutPop(s)))

LEMMA EndedFacts ==
  ASSUME NEW s \in ScopeType, Tracked(s), NEW h \in Nat, HeldAt(s.insts, h)
  PROVE  /\ Ended(s, h) \in ScopeType /\ Tracked(Ended(s, h)) /\ Yielded(Ended(s, h))
         /\ Stands(s.insts, Ended(s, h).insts, {h})
<1> DEFINE r == WithoutPop(s)
           n == compiler_pos(r)
           u == compiler_replace_operand(r, h, n)
<1>1. /\ r \in ScopeType /\ Tracked(r) /\ Yielded(r)
      /\ Stands(s.insts, r.insts, {}) /\ HeldAt(r.insts, h)
  BY BranchFacts
<1>2. n \in Nat
  BY <1>1 DEF ScopeType, compiler_pos
<1> HIDE DEF n, r
<1>3. u \in ScopeType /\ Tracked(u) /\ Yielded(u) /\ Grown(r.insts, u.insts, {h})
  <2>1. IsInst(r.insts, h)
    BY <1>1 DEF HeldAt
  <2> QED BY <1>1, <1>2, <2>1, PatchFacts
<1> HIDE DEF u
<1>4. Stands(s.insts, u.insts, {} \cup {h})
  <2>1. s.insts \in Seq(Cell) /\ r.insts \in Seq(Cell) /\ u.insts \in Seq(Cell)
    BY <1>1, <1>3 DEF ScopeType
  <2> QED BY <1>1, <1>3, <2>1, StandsThenGrown
<1>5. {} \cup {h} = {h}
  OBVIOUS
<1> QED BY <1>3, <1>4, <1>5 DEF Ended, u, n, r

(* The scope's code after the branch, with the jump over the altern, and   *)
(* after the op_null that stands for an altern.                            *)
Jumping(s)    == compiler_emit(WithoutPop(s), "jump", PLACEHOLDER, 0)
Patched(s, h) == compiler_replace_operand(Jumping(s), h, compiler_pos(Jumping(s)))
WithNull(s, h) == compiler_emit(Patched(s, h), "null", 0, 0)
Valued(s, h)  ==
  compiler_replace_operand(WithNull(s, h), compiler_pos(WithoutPop(s)),
                           compiler_pos(WithNull(s, h)))

LEMMA PatchedFacts ==
  ASSUME NEW s \in ScopeType, Tracked(s), NEW h \in Nat, HeldAt(s.insts, h),
         NEW q, q = Len(WithoutPop(s).insts)
  PROVE  /\ Patched(s, h) \in ScopeType /\ Tracked(Patched(s, h)) /\ Yielded(Patched(s, h))
         /\ Stands(s.insts, Patched(s, h).insts, {h})
         /\ IsInst(Patched(s, h).insts, q) /\ q \in Nat
         /\ Patched(s, h).insts[q + 1] = Decoded("jump", PLACEHOLDER, 0)
<1> DEFINE r == WithoutPop(s)
           j == compiler_emit(r, "jump", PLACEHOLDER, 0)
           n == compiler_pos(j)
           u == compiler_replace_operand(j, h, n)
<1>1. /\ r \in ScopeType /\ Tracked(r) /\ Yielded(r)
      /\ Stands(s.insts, r.insts, {}) /\ HeldAt(r.insts, h) /\ q = Len(r.insts)
  BY BranchFacts
<1> HIDE DEF r
<1>2. /\ j \in ScopeType /\ Tracked(j) /\ Yielded(j) /\ Grown(r.insts, j.insts, {})
      /\ j.insts[q + 1] = Decoded("jump", PLACEHOLDER, 0) /\ IsInst(j.insts, q)
  <2>1. "jump" \in Opcode /\ "jump" # "pop" /\ PLACEHOLDER \in Nat /\ 0 \in Nat
    BY DEF Opcode, Wide, PLACEHOLDER
  <2> QED BY <1>1, <2>1, EmitFacts
<1>3. /\ s.insts \in Seq(Cell) /\ r.insts \in Seq(Cell) /\ j.insts \in Seq(Cell)
      /\ Len(r.insts) \in Nat /\ Len(j.insts) \in Nat
  BY <1>1, <1>2 DEF ScopeType
<1>4. n \in Nat
  BY <1>3 DEF compiler_pos
<1> HIDE DEF n, j
<1>5. h < q /\ q \in Nat /\ IsInst(j.insts, h)
  <2>1. h \in 0..Len(r.insts) - 1 /\ r.insts[h + 1] \in Inst
    BY <1>1 DEF HeldAt, IsInst
  <2>2. h + 1 \in DOMAIN r.insts
    BY <1>3, <2>1
  <2>3. h + 1 \in DOMAIN j.insts /\ j.insts[h + 1] = r.insts[h + 1]
    BY <1>2, <2>2 DEF Grown
  <2>4. h \in 0..Len(j.insts) - 1
    BY <1>3, <2>3
  <2> QED BY <1>1, <1>3, <2>1, <2>3, <2>4 DEF IsInst
<1>6. /\ u \in ScopeType /\ Tracked(u) /\ Yielded(u) /\ Grown(j.insts, u.insts, {h})
      /\ Len(u.insts) = Len(j.insts)
      /\ \A p \in 1..Len(j.insts) : p # h + 1 => u.insts[p] = j.insts[p]
  BY <1>2, <1>4, <1>5, PatchFacts
<1> HIDE DEF u
<1>7. u.insts[q + 1] = Decoded("jump", PLACEHOLDER, 0) /\ IsInst(u.insts, q)
  <2>1. q \in 0..Len(j.insts) - 1 /\ j.insts[q + 1] \in Inst
    BY <1>2 DEF IsInst
  <2>2. q + 1 \in 1..Len(j.insts) /\ q + 1 # h + 1
    BY <1>3, <1>5, <2>1
  <2>3. u.insts[q + 1] = j.insts[q + 1]
    BY <1>6, <2>2
  <2> QED BY <1>2, <1>6, <2>1, <2>3 DEF IsInst
<1>8. Stands(s.insts, u.insts, {h})
  <2>1. u.insts \in Seq(Cell)
    BY <1>6 DEF ScopeType
  <2>2. Stands(s.insts, j.insts, {} \cup {})
    BY <1>1, <1>2, <1>3, StandsThenGrown
  <2>3. {} \cup {} = {} /\ {} \cup {h} = {h}
    OBVIOUS
  <2>4. Stands(s.insts, j.insts, {})
    BY <2>2, <2>3
  <2>5. Stands(s.insts, u.insts, {} \cup {h})
    BY <1>3, <1>6, <2>1, <2>4, StandsThenGrown
  <2> QED BY <2>3, <2>5
<1> QED BY <1>5, <1>6, <1>7, <1>8 DEF Patched, Jumping, u, n, j, r

LEMMA ValuedFacts ==
  ASSUME NEW s \in ScopeType, Tracked(s), NEW h \in Nat, HeldAt(s.insts, h),
         NEW q, q = Len(WithoutPop(s).insts)
  PROVE  /\ Valued(s, h) \in ScopeType /\ Tracked(Valued(s, h)) /\ Yielded(Valued(s, h))
         /\ Stands(s.insts, Valued(s, h).insts, {h, q})
<1> DEFINE u == Patched(s, h)
           w == compiler_emit(u, "null", 0, 0)
           n == compiler_pos(w)
           x == compiler_replace_operand(w, q, n)
<1>1. /\ u \in ScopeType /\ Tracked(u) /\ Yielded(u) /\ Stands(s.insts, u.insts, {h})
      /\ IsInst(u.insts, q) /\ q \in Nat
  BY PatchedFacts
<1> HIDE DEF u
<1>2. w \in ScopeType /\ Tracked(w) /\ Yielded(w) /\ Grown(u.insts, w.insts, {})
  <2>1. "null" \in Opcode /\ "null" # "pop" /\ 0 \in Nat
    BY DEF Opcode, Plain
  <2> QED BY <1>1, <2>1, EmitFacts
<1>3. /\ s.insts \in Seq(Cell) /\ u.insts \in Seq(Cell) /\ w.insts \in Seq(Cell)
      /\ Len(u.insts) \in Nat /\ Len(w.insts) \in Nat
  BY <1>1, <1>2 DEF ScopeType
<1>4. n \in Nat
  BY <1>3 DEF compiler_pos
<1> HIDE DEF n, w
<1>5. IsInst(w.insts, q)
  <2>1. q \in 0..Len(u.insts) - 1 /\ u.insts[q + 1] \in Inst
    BY <1>1 DEF IsInst
  <2>2. q + 1 \in DOMAIN u.insts
    BY <1>3, <2>1
  <2>3. q + 1 \in DOMAIN w.insts /\ w.insts[q + 1] = u.insts[q + 1]
    BY <1>2, <2>2 DEF Grown
  <2>4. q \in 0..Len(w.insts) - 1
    BY <1>1, <1>3, <2>3
  <2> QED BY <2>1, <2>3, <2>4 DEF IsInst
<1>6. x \in ScopeType /\ Tracked(x) /\ Yielded(x) /\ Grown(w.insts, x.insts, {q})
  BY <1>1, <1>2, <1>4, <1>5, PatchFacts
<1> HIDE DEF x
<1>7. Stands(s.insts, x.insts, {h, q})
  <2>1. x.insts \in Seq(Cell)
    BY <1>6 DEF ScopeType
  <2>2. Stands(s.insts, w.insts, {h} \cup {})
    BY <1>1, <1>2, <1>3, StandsThenGrown
  <2>3. {h} \cup {} = {h} /\ {h} \cup {q} = {h, q}
    OBVIOUS
  <2>4. Stands(s.insts, w.insts, {h})
    BY <2>2, <2>3
  <2>5. Stands(s.insts, x.insts, {h} \cup {q})
    BY <1>3, <1>6, <2>1, <2>4, StandsThenGrown
  <2> QED BY <2>3, <2>5
<1> QED BY <1>6, <1>7 DEF Valued, WithNull, x, n, w, u, compiler_pos

(* Who holds a position in the scope at work, and the branch that ends.    *)
LEMMA Branching ==
  ASSUME Going, Holds(Head(work)), NEW h, h = Head(work).pos
  PROVE  /\ work \in Seq(Task) /\ Len(work) >= 2 /\ Head(work) = work[1] /\ work[1].do # "function"
         /\ scopes \in Seq(ScopeType) /\ Len(scopes) >= 1
         /\ Scope = scopes[Len(scopes)] /\ Scope \in ScopeType /\ Tracked(Scope)
         /\ Waits(work, scopes)
         /\ h \in Nat /\ HeldAt(Scope.insts, h) /\ {h} \subseteq Placeholders(Scope.insts)
         /\ \A j \in 2..Len(work) : Holds(work[j]) /\ Depth(work, j) = Len(scopes) =>
              work[j].pos # h /\ work[j].pos # Len(WithoutPop(Scope).insts)
<1>1. /\ work \in Seq(Task) /\ Len(work) >= 2 /\ Head(work) = work[1]
      /\ scopes \in Seq(ScopeType) /\ Len(scopes) >= 1
      /\ Scope = scopes[Len(scopes)] /\ Scope \in ScopeType /\ Tracked(Scope)
      /\ Waits(work, scopes)
  BY Now DEF Going
<1>2. Head(work).do # "function"
  BY DEF Holds
<1>3. HeldIn(Head(work), Scope.insts) /\ h \in Nat
  BY <1>2, Held
<1>4. HeldAt(Scope.insts, h) /\ {h} \subseteq Placeholders(Scope.insts)
  BY <1>3, HeldAtFacts
<1> DEFINE r == WithoutPop(Scope)
<1>5. r \in ScopeType /\ Stands(Scope.insts, r.insts, {})
  BY <1>1, WithoutPopFacts
<1>6. ASSUME NEW j \in 2..Len(work), Holds(work[j]), Depth(work, j) = Len(scopes)
      PROVE  work[j].pos # h /\ work[j].pos # Len(r.insts)
  <2>1. HeldIn(work[j], Scope.insts) /\ work[j].pos # h
    BY <1>2, <1>6, Held
  <2> HIDE DEF r
  <2>2. Scope.insts \in Seq(Cell) /\ r.insts \in Seq(Cell)
    BY <1>1, <1>5 DEF ScopeType
  <2>3. KeepsJumps(Scope.insts, r.insts, {})
    BY <1>5, <2>2, StandsThenGrown
  <2>4. HeldIn(work[j], r.insts)
    BY <1>6, <2>1, <2>2, <2>3, HeldStays
  <2> QED BY <2>1, <2>2, <2>4, HeldBefore
<1> QED BY <1>1, <1>2, <1>3, <1>4, <1>6

LEMMA IfelseEndStep ==
  ASSUME Going, compile_ifelse_end
  PROVE  Kept
<1> DEFINE h == Head(work).pos
           s == Ended(Scope, h)
<1>1. Head(work).do = "altern" /\ EmitHere(s) /\ Continue(<<>>)
  BY DEF compile_ifelse_end, Doing, Ended
<1>2. Holds(Head(work))
  BY <1>1 DEF Holds
<1> DEFINE P == {h}
<1>3. /\ work \in Seq(Task) /\ Len(work) >= 2 /\ Head(work) = work[1] /\ work[1].do # "function"
      /\ scopes \in Seq(ScopeType) /\ Len(scopes) >= 1
      /\ Scope = scopes[Len(scopes)] /\ Scope \in ScopeType /\ Tracked(Scope)
      /\ Waits(work, scopes)
      /\ h \in Nat /\ HeldAt(Scope.insts, h) /\ P \subseteq Placeholders(Scope.insts)
      /\ \A j \in 2..Len(work) :
           Holds(work[j]) /\ Depth(work, j) = Len(scopes) => work[j].pos \notin P
  BY <1>2, Branching
<1>4. /\ s \in ScopeType /\ Tracked(s) /\ Yielded(s) /\ Stands(Scope.insts, s.insts, P)
  BY <1>3, EndedFacts
<1> HIDE DEF P, s, h
<1>5. KeepsJumps(Scope.insts, s.insts, P)
  <2>1. Scope.insts \in Seq(Cell) /\ s.insts \in Seq(Cell)
    BY <1>3, <1>4 DEF ScopeType
  <2> QED BY <1>4, <2>1, StandsThenGrown
<1>6. Planned(<<>>)
  BY DEF Planned, PopsFollow
<1>7. Goes(work, scopes, <<>>, s, P)
  BY <1>3, <1>4, <1>5, <1>6 DEF Goes
<1> QED BY <1>1, <1>3, <1>4, <1>7, ScopeStep

LEMMA IfelseAlternStep ==
  ASSUME Going, compile_ifelse_altern
  PROVE  Kept
<1> DEFINE h == Head(work).pos
           q == Len(WithoutPop(Scope).insts)
           u == Patched(Scope, h)
           x == Valued(Scope, h)
           a == Visit(Node.altern)
           e == AfterAltern(q)
           ts == <<a, e>>
           P == {h}
           Q == {h, q}
<1>1. /\ Head(work).do = "body"
      /\ IF Node.altern # NoNode
         THEN EmitHere(u) /\ Continue(ts)
         ELSE EmitHere(x) /\ Continue(<<>>)
  BY DEF compile_ifelse_altern, Doing, CompileAltern, Patched, Valued, WithNull, Jumping, compiler_pos
<1>2. Holds(Head(work))
  BY <1>1 DEF Holds
<1>3. /\ work \in Seq(Task) /\ Len(work) >= 2 /\ Head(work) = work[1] /\ work[1].do # "function"
      /\ scopes \in Seq(ScopeType) /\ Len(scopes) >= 1
      /\ Scope = scopes[Len(scopes)] /\ Scope \in ScopeType /\ Tracked(Scope)
      /\ Waits(work, scopes)
      /\ h \in Nat /\ HeldAt(Scope.insts, h) /\ P \subseteq Placeholders(Scope.insts)
      /\ \A j \in 2..Len(work) :
           Holds(work[j]) /\ Depth(work, j) = Len(scopes) => work[j].pos # h /\ work[j].pos # q
  BY <1>2, Branching
<1>4. /\ u \in ScopeType /\ Tracked(u) /\ Yielded(u) /\ Stands(Scope.insts, u.insts, P)
      /\ IsInst(u.insts, q) /\ q \in Nat /\ u.insts[q + 1] = Decoded("jump", PLACEHOLDER, 0)
  BY <1>3, PatchedFacts
<1>5. /\ x \in ScopeType /\ Tracked(x) /\ Yielded(x) /\ Stands(Scope.insts, x.insts, Q)
  BY <1>3, ValuedFacts
<1>6. Node.altern \in Nodes
  <2>1. Node \in Nodes /\ Node.t = "ifelse"
    BY <1>1, <1>3, TaskFacts, Now DEF Node, Going
  <2> QED BY <2>1, NodeFacts
<1>7. /\ a \in Task /\ e \in Task
      /\ a.do = "visit" /\ e.do = "altern" /\ e.pos = q /\ ~ IsPop(e) /\ ~ IsPop(a)
  BY <1>4, <1>6, TasksOf DEF Visit, AfterAltern, IsPop
<1>8. HeldIn(e, u.insts)
  BY <1>4, <1>7 DEF HeldIn, JumpOf
<1>9. Scope.insts \in Seq(Cell) /\ u.insts \in Seq(Cell) /\ x.insts \in Seq(Cell)
  BY <1>3, <1>4, <1>5 DEF ScopeType
<1>a. CASE Node.altern # NoNode
  <2>1. KeepsJumps(Scope.insts, u.insts, P)
    BY <1>4, <1>9, StandsThenGrown
  <2> HIDE DEF a, e
  <2> HIDE DEF Task
  <2>2. /\ ts \in Seq(Task) /\ ts # <<>> /\ Len(ts) = 2 /\ ts[1] = a /\ ts[2] = e
        /\ DOMAIN ts = {1, 2}
    BY <1>7
  <2>3. EmitHere(u) /\ Continue(ts)
    BY <1>1, <1>a
  <2> HIDE DEF ts
  <2>4. Planned(ts) /\ Yields(ts[Len(ts)])
    BY <1>7, <2>2, NoPops DEF Yields, IsPop
  <2>5. \A j \in 2..Len(work) :
          Holds(work[j]) /\ Depth(work, j) = Len(scopes) => work[j].pos \notin P
    BY <1>3
  <2> HIDE DEF P, u, q, h
  <2>6. \A i \in DOMAIN ts : Holds(ts[i]) =>
          /\ i = Len(ts) /\ HeldIn(ts[i], u.insts)
          /\ \A j \in 2..Len(work) :
               Holds(work[j]) /\ Depth(work, j) = Len(scopes) => work[j].pos # ts[i].pos
    <3>1. \A i \in DOMAIN ts : Holds(ts[i]) => i = 2 /\ ts[i] = e
      BY <1>7, <2>2 DEF Holds
    <3> QED BY <1>3, <1>7, <1>8, <2>2, <3>1
  <2>7. \A i \in DOMAIN ts : ts[i].do # "function"
    BY <1>7, <2>2
  <2>8. Goes(work, scopes, ts, u, P)
    BY <1>3, <1>4, <2>1, <2>2, <2>4, <2>5, <2>6, <2>7 DEF Goes
  <2> QED BY <1>3, <1>4, <2>3, <2>8, ScopeStep
<1>b. CASE Node.altern = NoNode
  <2>1. KeepsJumps(Scope.insts, x.insts, Q)
    BY <1>5, <1>9, StandsThenGrown
  <2>2. EmitHere(x) /\ Continue(<<>>)
    BY <1>1, <1>b
  <2>3. \A j \in 2..Len(work) :
          Holds(work[j]) /\ Depth(work, j) = Len(scopes) => work[j].pos \notin Q
    BY <1>3
  <2>4. Planned(<<>>)
    BY DEF Planned, PopsFollow
  <2>5. Stands(Scope.insts, x.insts, P)
    <3>1. q \in 0..Len(Scope.insts) - 1 =>
            q + 1 = Len(Scope.insts) /\ Scope.insts[q + 1].op = "pop"
      <4> DEFINE r == WithoutPop(Scope)
      <4>1. r \in ScopeType /\ Stands(Scope.insts, r.insts, {}) /\ q = Len(r.insts)
        BY <1>3, WithoutPopFacts
      <4> HIDE DEF r, q
      <4>2. r.insts \in Seq(Cell)
        BY <4>1 DEF ScopeType
      <4>3. ASSUME q \in 0..Len(Scope.insts) - 1
            PROVE  q + 1 = Len(Scope.insts) /\ Scope.insts[q + 1].op = "pop"
        <5>1. q + 1 \in DOMAIN Scope.insts /\ q + 1 \notin DOMAIN r.insts
          BY <1>9, <4>1, <4>2, <4>3
        <5> QED BY <4>1, <5>1 DEF Stands
      <4> QED BY <4>3
    <3>2. \A p \in Q : p \in 0..Len(Scope.insts) - 1 =>
            p \in P \/ (p + 1 = Len(Scope.insts) /\ Scope.insts[p + 1].op = "pop")
      BY <3>1
    <3> HIDE DEF P, Q, x
    <3> QED BY <1>5, <1>9, <3>2, StandsWeaker
  <2> HIDE DEF P, Q, x, q, h
  <2>6. Goes(work, scopes, <<>>, x, Q)
    BY <1>3, <1>5, <2>1, <2>3, <2>4 DEF Goes
  <2> QED BY <1>3, <1>5, <2>2, <2>5, <2>6, ScopeStep
<1> QED BY <1>a, <1>b

(***************************************************************************)
(* Functions: a scope and a table are entered and left.                    *)
(***************************************************************************)
LEMMA EnterWaits ==
  ASSUME NEW v \in Seq(Task), Len(v) >= 2, v[1].do = "visit",
         NEW sc \in Seq(ScopeType), Len(sc) >= 1, Waits(v, sc),
         NEW a \in Task, a.do = "visit", NEW e \in Task, e.do = "function", NEW s \in ScopeType
  PROVE  Waits(After(<<a, e>>, v), Append(sc, s))
<1> DEFINE ts == <<a, e>>
           w == After(ts, v)
           new == Append(sc, s)
<1>1. /\ Len(v) \in Nat /\ v # <<>> /\ Len(sc) \in Nat
      /\ ts \in Seq(Task) /\ Len(ts) = 2 /\ ts[1] = a /\ ts[2] = e /\ DOMAIN ts = {1, 2}
  <2> HIDE DEF Task
  <2> QED OBVIOUS
<1>2. Len(new) = Len(sc) + 1 /\ \A k \in 1..Len(sc) : new[k] = sc[k]
  <2> HIDE DEF ScopeType
  <2> QED OBVIOUS
<1> HIDE DEF ts, new
<1>3. /\ w \in Seq(Task) /\ Len(w) = Len(v) + 1 /\ w[1] = a /\ w[2] = e
  <2>1. /\ w \in Seq(Task) /\ Len(w) = Len(ts) + Len(v) - 1
        /\ \A i \in 1..Len(ts) : w[i] = ts[i]
    BY <1>1, Behind
  <2> HIDE DEF w
  <2> QED BY <1>1, <2>1
<1>4. \A i \in 1..Len(v) : \A j \in Nat : j = Len(ts) + i - 1 => Depth(w, j) = Depth(v, i)
  BY <1>1, DepthBehind
<1>5. \A i \in DOMAIN w : Holds(w[i]) =>
        \E j \in 2..Len(v) : /\ i = j + 1 /\ w[i] = v[j] /\ Depth(w, i) = Depth(v, j)
  <2> SUFFICES ASSUME NEW i \in DOMAIN w, Holds(w[i])
               PROVE  \E j \in 2..Len(v) : i = j + 1 /\ w[i] = v[j] /\ Depth(w, i) = Depth(v, j)
    OBVIOUS
  <2>1. \/ i \in 1..Len(ts) /\ w[i] = ts[i]
        \/ \E j \in 2..Len(v) : /\ i = Len(ts) + j - 1
                                /\ w[i] = v[j]
                                /\ Depth(w, i) = Depth(v, j)
    BY <1>1, WhoWaits
  <2>2. ~ (i \in 1..Len(ts) /\ w[i] = ts[i])
    BY <1>1 DEF Holds
  <2>3. PICK j \in 2..Len(v) : i = Len(ts) + j - 1 /\ w[i] = v[j] /\ Depth(w, i) = Depth(v, j)
    BY <2>1, <2>2
  <2>4. i = j + 1
    BY <1>1, <2>3
  <2> HIDE DEF w
  <2> QED BY <2>3, <2>4
<1>6. Planned(ts) /\ Yields(ts[Len(ts)])
  BY <1>1, NoPops DEF IsPop, Yields
<1>7. /\ PopsFollow(v) /\ Len(sc) = Depth(v, 0)
      /\ \A i \in DOMAIN v : Holds(v[i]) => HeldIn(v[i], sc[Depth(v, i)].insts)
      /\ \A i, j \in DOMAIN v :
           Holds(v[i]) /\ Holds(v[j]) /\ i # j /\ Depth(v, i) = Depth(v, j) => v[i].pos # v[j].pos
  BY DEF Waits
<1>8. PopsFollow(w) /\ (IsPop(Head(w)) => FALSE)
  <2>1. PopsFollow(w) /\ (w # <<>> /\ IsPop(Head(w)) => ts = <<>> /\ Yields(v[1]))
    BY <1>1, <1>6, <1>7, PopsBehind
  <2>2. ts # <<>> /\ w # <<>>
    <3> HIDE DEF w, Task
    <3>1. Len(w) # 0 /\ Len(ts) # 0
      BY <1>1, <1>3
    <3> QED BY <3>1
  <2> QED BY <2>1, <2>2
<1>9. Len(new) = Depth(w, 0)
  <2> DEFINE i0 == 0  i1 == 1  i2 == 2
  <2>1. i0 \in Nat /\ i1 \in 1..Len(v) /\ i1 \in 1..Len(w) /\ i2 \in 1..Len(w) /\ i1 \in Nat /\ i2 \in Nat
        /\ i0 = i1 - 1 /\ i1 = i2 - 1 /\ i2 = Len(ts) + i1 - 1
    BY <1>1, <1>3
  <2> HIDE DEF i0, i1, i2
  <2>2. Depth(v, i0) = IF v[i1].do = "function" THEN Depth(v, i1) + 1 ELSE Depth(v, i1)
    BY <2>1, DepthOnce
  <2>3. Depth(w, i0) = IF w[i1].do = "function" THEN Depth(w, i1) + 1 ELSE Depth(w, i1)
    BY <1>3, <2>1, DepthOnce
  <2>4. Depth(w, i1) = IF w[i2].do = "function" THEN Depth(w, i2) + 1 ELSE Depth(w, i2)
    BY <1>3, <2>1, DepthOnce
  <2>5. Depth(w, i2) = Depth(v, i1)
    BY <1>4, <2>1
  <2> QED BY <1>2, <1>3, <1>7, <2>2, <2>3, <2>4, <2>5 DEF i0, i1, i2
<1>a. \A j \in 2..Len(v) : j \in DOMAIN v /\ Depth(v, j) \in 1..Len(sc)
  <2> SUFFICES ASSUME NEW j \in 2..Len(v) PROVE j \in DOMAIN v /\ Depth(v, j) \in 1..Len(sc)
    OBVIOUS
  <2> DEFINE i0 == 0
  <2>1. i0 \in Nat /\ j \in Nat /\ i0 <= j
    BY <1>1
  <2> HIDE DEF i0
  <2>2. Depth(v, j) <= Depth(v, i0) /\ Depth(v, j) \in Nat /\ Depth(v, j) >= 1
    BY <2>1, DepthMonotone, FunctionsFinite
  <2>3. j \in DOMAIN v
    <3> HIDE DEF Task
    <3> QED BY <1>1
  <2> QED BY <1>1, <1>7, <2>2, <2>3 DEF i0
<1> HIDE DEF w
<1>b. \A i \in DOMAIN w : Holds(w[i]) => HeldIn(w[i], new[Depth(w, i)].insts)
  BY <1>2, <1>5, <1>7, <1>a
<1>c. \A i, j \in DOMAIN w :
        Holds(w[i]) /\ Holds(w[j]) /\ i # j /\ Depth(w, i) = Depth(w, j) => w[i].pos # w[j].pos
  <2> SUFFICES ASSUME NEW i \in DOMAIN w, NEW j \in DOMAIN w,
                      Holds(w[i]), Holds(w[j]), i # j, Depth(w, i) = Depth(w, j)
               PROVE  w[i].pos # w[j].pos
    OBVIOUS
  <2>1. PICK x \in 2..Len(v) : i = x + 1 /\ w[i] = v[x] /\ Depth(w, i) = Depth(v, x)
    BY <1>5
  <2>2. PICK y \in 2..Len(v) : j = y + 1 /\ w[j] = v[y] /\ Depth(w, j) = Depth(v, y)
    BY <1>5
  <2>3. x # y /\ x \in DOMAIN v /\ y \in DOMAIN v
    BY <1>a, <2>1, <2>2
  <2> QED BY <1>7, <2>1, <2>2, <2>3
<1>d. Waits(w, new)
  BY <1>8, <1>9, <1>b, <1>c DEF Waits
<1> QED BY <1>d DEF w, new, ts

LEMMA NewTableFacts ==
  ASSUME NEW ts, Chain(ts)
  PROVE  Chain(Append(ts, new_symbol_table)) /\ Len(Append(ts, new_symbol_table)) = Len(ts) + 1
<1>1. new_symbol_table \in TableType
  <2>1. [n \in {} |-> NoSymbol] \in [{} -> SymbolType] /\ {} \in SUBSET STRING
    OBVIOUS
  <2>2. <<>> \in Seq(SymbolType) /\ 0 \in Nat
    OBVIOUS
  <2> QED BY <2>1, <2>2 DEF new_symbol_table, TableType
<1>2. Numbered(new_symbol_table, local_scope)
  <2>1. DOMAIN new_symbol_table.store = {} /\ new_symbol_table.num_defs = 0
    BY DEF new_symbol_table
  <2>2. 0..0 - 1 = {}
    OBVIOUS
  <2> QED BY <2>1, <2>2 DEF Numbered
<1> DEFINE t == new_symbol_table
<1> HIDE DEF t
<1>3. t \in TableType /\ Numbered(t, local_scope)
  BY <1>1, <1>2 DEF t
<1>4. ts \in Seq(TableType) /\ Len(ts) \in Nat /\ Len(ts) >= 1
      /\ \A k \in 1..Len(ts) : Numbered(ts[k], ScopeAt(k))
  BY DEF Chain
<1> HIDE DEF TableType
<1>5. /\ Append(ts, t) \in Seq(TableType) /\ Len(Append(ts, t)) = Len(ts) + 1
      /\ \A k \in 1..Len(ts) : Append(ts, t)[k] = ts[k]
      /\ Append(ts, t)[Len(ts) + 1] = t
  BY <1>3, <1>4
<1> DEFINE us == Append(ts, t)
<1> HIDE DEF us
<1>6. /\ us \in Seq(TableType) /\ Len(us) = Len(ts) + 1 /\ DOMAIN us = 1..Len(ts) + 1
      /\ \A k \in 1..Len(ts) : us[k] = ts[k] /\ us[Len(ts) + 1] = t
  BY <1>4, <1>5 DEF us
<1>7. \A k \in DOMAIN us : Numbered(us[k], ScopeAt(k))
  <2>1. ScopeAt(Len(ts) + 1) = local_scope
    BY <1>4 DEF ScopeAt
  <2>2. us[Len(ts) + 1] = t
    BY <1>5 DEF us
  <2>3. \A k \in DOMAIN us : k \in 1..Len(ts) \/ k = Len(ts) + 1
    BY <1>4, <1>6
  <2> QED BY <1>3, <1>4, <1>6, <2>1, <2>2, <2>3
<1>8. Chain(us)
  BY <1>4, <1>6, <1>7 DEF Chain
<1> QED BY <1>5, <1>8 DEF us, t

LEMMA FunctionStep ==
  ASSUME Going, compile_function
  PROVE  Kept
<1> DEFINE a == Visit(Node.body)
           e == AfterFunction(Node)
           ts == <<a, e>>
<1>1. /\ Head(work).do = "visit" /\ Node.t = "function"
      /\ scopes' = Append(scopes, new_scope)
      /\ tables' = DefineAll(Append(tables, new_symbol_table), Node.params)
      /\ work' = After(ts, work)
      /\ UNCHANGED <<tree, nconsts, cstat, failed, released, heap, consts>>
  BY DEF compile_function, Visiting, Doing, Continue, After, objVars
<1>2. /\ work \in Seq(Task) /\ Len(work) \in Nat /\ Len(work) >= 2 /\ work # <<>> /\ Head(work) = work[1]
      /\ scopes \in Seq(ScopeType) /\ Len(scopes) \in Nat /\ Len(scopes) >= 1
      /\ Len(tables) = Len(scopes) /\ Chain(tables)
      /\ Waits(work, scopes) /\ ~failed
  BY Now DEF Going
<1>3. Node \in OfType("function") /\ Node.body \in Nodes /\ Node.params \in Seq(STRING)
  <2>1. Node \in Nodes
    BY <1>1, Visited
  <2> QED BY <1>1, <2>1, NodeFacts DEF OfType, Branches
<1>4. /\ a \in Task /\ e \in Task /\ a.do = "visit" /\ e.do = "function"
  BY <1>3, TasksOf DEF Visit, AfterFunction
<1> HIDE DEF a, e
<1>5. new_scope \in ScopeType /\ Tracked(new_scope)
  <2>1. "constant" \in Opcode /\ 0 \in Nat /\ <<>> \in Seq(Cell)
    BY DEF Opcode, Wide
  <2> QED BY <2>1 DEF new_scope, ScopeType, EmittedType, Emitted, Tracked
<1>6. /\ scopes' \in Seq(ScopeType) /\ Len(scopes') = Len(scopes) + 1
      /\ \A k \in 1..Len(scopes) : scopes'[k] = scopes[k]
      /\ scopes'[Len(scopes) + 1] = new_scope
  <2> HIDE DEF ScopeType, new_scope
  <2> QED BY <1>1, <1>2, <1>5
<1>7. ScopesOK'
  <2>1. \A k \in 1..Len(scopes) : Tracked(scopes[k])
    BY <1>2 DEF Going, CompilerInv, ScopesOK
  <2>2. \A k \in DOMAIN scopes' : k \in 1..Len(scopes) \/ k = Len(scopes) + 1
    BY <1>2, <1>6
  <2>3. \A k \in DOMAIN scopes' : Tracked(scopes'[k])
    BY <1>5, <1>6, <2>1, <2>2
  <2> QED BY <1>2, <1>6, <2>3 DEF ScopesOK
<1>8. TablesOK'
  <2> DEFINE us == Append(tables, new_symbol_table)
  <2>1. Chain(us) /\ Len(us) = Len(tables) + 1
    BY <1>2, NewTableFacts
  <2> HIDE DEF us
  <2>2. Chain(tables') /\ Len(tables') = Len(us)
    BY <1>1, <1>3, <2>1, DefineAllFacts DEF Extends, us
  <2> QED BY <1>2, <1>6, <2>1, <2>2, TablesAsChain
<1>9. Waits(work', scopes')
  BY <1>1, <1>2, <1>4, <1>5, EnterWaits
<1>a. WorkOK'
  <2>1. ts \in Seq(Task)
    <3> HIDE DEF Task
    <3> QED BY <1>4
  <2>2. work[Len(work)] = Halt
    BY DEF Going, CompilerInv, WorkOK
  <2> HIDE DEF ts
  <2>3. work' \in Seq(Task) /\ work' # <<>> /\ work'[Len(work')] = Halt
    BY <1>1, <1>2, <2>1, <2>2, HaltStays
  <2> QED BY <1>1, <1>2, <1>9, <2>3 DEF WorkOK, Going, Compiling
<1>b. StateOK'
  BY <1>1 DEF Going, CompilerInv, StateOK
<1>c. CodeKept
  BY <1>2, <1>6 DEF CodeKept, Stands
<1> QED BY <1>7, <1>8, <1>a, <1>b, <1>c DEF Kept, CompilerInv

(* The scope around the innermost becomes the innermost, and s.            *)
Leaving(sc, s) == Append(Outer(Outer(sc)), s)

IsLeaving(S, sc, m, s, us) ==
  /\ us \in Seq(S) /\ Len(us) = m /\ us[m] = s
  /\ \A k \in 1..m : k # m => us[k] = sc[k]

LEMMA OuterFacts ==
  ASSUME NEW S, NEW sc \in Seq(S), NEW m \in Nat, Len(sc) = m + 1
  PROVE  /\ Outer(sc) \in Seq(S) /\ Len(Outer(sc)) = m
         /\ \A k \in 1..m : Outer(sc)[k] = sc[k]
<1>1. Outer(sc) = SubSeq(sc, 1, m)
  BY DEF Outer
<1>2. m \in 0..Len(sc)
  OBVIOUS
<1> QED BY <1>1, <1>2

LEMMA LeavingFacts ==
  ASSUME NEW S, NEW sc \in Seq(S), NEW m \in Nat, m >= 1, Len(sc) = m + 1, NEW s \in S
  PROVE  IsLeaving(S, sc, m, s, Leaving(sc, s))
<1> DEFINE a == Outer(sc)
           b == Outer(a)
           n == m - 1
<1>1. a \in Seq(S) /\ Len(a) = m /\ \A k \in 1..m : a[k] = sc[k]
  BY OuterFacts
<1>2. n \in Nat /\ m = n + 1
  OBVIOUS
<1> HIDE DEF a, n
<1>3. b \in Seq(S) /\ Len(b) = n /\ \A k \in 1..n : b[k] = a[k]
  BY <1>1, <1>2, OuterFacts
<1> HIDE DEF b
<1>4. /\ Append(b, s) \in Seq(S) /\ Len(Append(b, s)) = m /\ Append(b, s)[m] = s
      /\ \A k \in 1..n : Append(b, s)[k] = b[k]
  BY <1>2, <1>3
<1>5. ASSUME NEW k \in 1..m, k # m PROVE Append(b, s)[k] = sc[k]
  <2>1. k \in 1..n
    BY <1>2, <1>5
  <2> QED BY <1>1, <1>3, <1>4, <2>1
<1>6. Append(b, s) = Leaving(sc, s)
  BY DEF Leaving, a, b
<1> QED BY <1>4, <1>5, <1>6 DEF IsLeaving

LEMMA LeaveWaits ==
  ASSUME NEW v \in Seq(Task), Len(v) >= 2, v[1].do = "function",
         NEW sc \in Seq(ScopeType), NEW m \in Nat, Len(sc) = m + 1, Waits(v, sc),
         NEW s \in ScopeType, Yielded(s), KeepsJumps(sc[m].insts, s.insts, {})
  PROVE  m >= 1 /\ Waits(After(<<>>, v), Leaving(sc, s))
<1> DEFINE ts == <<>>
           w == After(ts, v)
           new == Leaving(sc, s)
<1>1. Len(v) \in Nat /\ v # <<>> /\ ts \in Seq(Task) /\ Len(ts) = 0
  <2> HIDE DEF Task
  <2> QED OBVIOUS
<1> HIDE DEF ts
<1>2. /\ PopsFollow(v) /\ Len(sc) = Depth(v, 0)
      /\ \A i \in DOMAIN v : Holds(v[i]) => HeldIn(v[i], sc[Depth(v, i)].insts)
      /\ \A i, j \in DOMAIN v :
           Holds(v[i]) /\ Holds(v[j]) /\ i # j /\ Depth(v, i) = Depth(v, j) => v[i].pos # v[j].pos
  BY DEF Waits
<1>3. m = Depth(v, 1) /\ m >= 1 /\ Depth(w, 0) = m
  <2> DEFINE i0 == 0  i1 == 1
  <2>1. i0 \in Nat /\ i1 \in 1..Len(v) /\ i1 \in Nat /\ i0 = i1 - 1 /\ i0 = Len(ts) + i1 - 1
    BY <1>1
  <2> HIDE DEF i0, i1
  <2>2. Depth(v, i0) = IF v[i1].do = "function" THEN Depth(v, i1) + 1 ELSE Depth(v, i1)
    BY <2>1, DepthOnce
  <2>3. Depth(v, i1) \in Nat /\ Depth(v, i1) >= 1
    BY <2>1, FunctionsFinite
  <2>4. Depth(w, i0) = Depth(v, i1)
    <3>1. \A i \in 1..Len(v) : \A j \in Nat :
             j = Len(ts) + i - 1 => Depth(After(ts, v), j) = Depth(v, i)
      <4> HIDE DEF Task, w
      <4> QED BY <1>1, DepthBehind
    <3>2. i0 = Len(ts) + i1 - 1 => Depth(After(ts, v), i0) = Depth(v, i1)
      BY <2>1, <3>1
    <3> QED BY <2>1, <3>2
  <2>5. Depth(v, i0) = m + 1 /\ v[i1].do = "function"
    BY <1>2 DEF i0, i1
  <2>6. Depth(v, i1) = m
    <3> DEFINE d == Depth(v, i1)
    <3>3. d \in Nat
      BY <2>3
    <3>4. Depth(v, i0) = d + 1
      BY <2>2, <2>5
    <3> HIDE DEF d
    <3>1. d \in Nat /\ m + 1 = d + 1
      BY <2>5, <3>3, <3>4
    <3>2. d = m
      BY <3>1
    <3> QED BY <3>2 DEF d
  <2> QED BY <2>3, <2>4, <2>6 DEF i0, i1
<1>4. /\ Len(new) = m /\ new[m] = s
      /\ \A k \in 1..m : k # m => new[k] = sc[k]
  <2>1. IsLeaving(ScopeType, sc, m, s, new)
    BY <1>3, LeavingFacts
  <2> QED BY <2>1 DEF IsLeaving
<1> HIDE DEF new
<1>5. \A j \in 2..Len(v) : j \in DOMAIN v /\ Depth(v, j) \in 1..m
  <2> SUFFICES ASSUME NEW j \in 2..Len(v) PROVE j \in DOMAIN v /\ Depth(v, j) \in 1..m
    OBVIOUS
  <2> DEFINE i1 == 1
  <2>1. i1 \in Nat /\ j \in Nat /\ i1 <= j
    BY <1>1
  <2> HIDE DEF i1
  <2>2. Depth(v, j) <= Depth(v, i1) /\ Depth(v, j) \in Nat /\ Depth(v, j) >= 1
    BY <2>1, DepthMonotone, FunctionsFinite
  <2>3. j \in DOMAIN v
    <3> HIDE DEF Task
    <3> QED BY <1>1
  <2> QED BY <1>3, <2>2, <2>3 DEF i1
<1>6. \A i \in DOMAIN w :
        \E j \in 2..Len(v) : /\ i = j - 1 /\ w[i] = v[j] /\ Depth(w, i) = Depth(v, j)
  <2> SUFFICES ASSUME NEW i \in DOMAIN w
               PROVE  \E j \in 2..Len(v) : i = j - 1 /\ w[i] = v[j] /\ Depth(w, i) = Depth(v, j)
    OBVIOUS
  <2>1. \/ i \in 1..Len(ts) /\ w[i] = ts[i]
        \/ \E j \in 2..Len(v) : /\ i = Len(ts) + j - 1
                                /\ w[i] = v[j]
                                /\ Depth(w, i) = Depth(v, j)
    BY <1>1, WhoWaits
  <2>2. ~ (i \in 1..Len(ts))
    BY <1>1
  <2>3. PICK j \in 2..Len(v) : i = Len(ts) + j - 1 /\ w[i] = v[j] /\ Depth(w, i) = Depth(v, j)
    BY <2>1, <2>2
  <2>4. i = j - 1
    BY <1>1, <2>3
  <2> HIDE DEF w
  <2> QED BY <2>3, <2>4
<1>7. PopsFollow(w)
  <2>1. Planned(ts)
    BY DEF Planned, PopsFollow, ts
  <2>2. ~ (ts # <<>>)
    BY DEF ts
  <2> QED BY <1>1, <1>2, <2>1, <2>2, PopsBehind
<1> HIDE DEF w
<1>8. ASSUME NEW i \in DOMAIN w, Holds(w[i]) PROVE HeldIn(w[i], new[Depth(w, i)].insts)
  <2>1. PICK j \in 2..Len(v) : i = j - 1 /\ w[i] = v[j] /\ Depth(w, i) = Depth(v, j)
    BY <1>6
  <2>2. j \in DOMAIN v /\ Depth(v, j) \in 1..m
    BY <1>5
  <2>3. HeldIn(v[j], sc[Depth(v, j)].insts)
    BY <1>2, <1>8, <2>1, <2>2
  <2>4. CASE Depth(v, j) = m
    <3>1. sc[m] \in ScopeType
      <4> HIDE DEF ScopeType
      <4> QED BY <1>3
    <3>2. sc[m].insts \in Seq(Cell) /\ s.insts \in Seq(Cell)
      BY <3>1 DEF ScopeType
    <3>3. HeldIn(v[j], s.insts)
      BY <1>8, <2>1, <2>3, <2>4, <3>2, HeldStays
    <3> QED BY <1>4, <2>1, <2>4, <3>3
  <2>5. CASE Depth(v, j) # m
    BY <1>4, <2>1, <2>2, <2>3, <2>5
  <2> QED BY <2>4, <2>5
<1>9. \A i, j \in DOMAIN w :
        Holds(w[i]) /\ Holds(w[j]) /\ i # j /\ Depth(w, i) = Depth(w, j) => w[i].pos # w[j].pos
  <2> SUFFICES ASSUME NEW i \in DOMAIN w, NEW j \in DOMAIN w,
                      Holds(w[i]), Holds(w[j]), i # j, Depth(w, i) = Depth(w, j)
               PROVE  w[i].pos # w[j].pos
    OBVIOUS
  <2>1. PICK x \in 2..Len(v) : i = x - 1 /\ w[i] = v[x] /\ Depth(w, i) = Depth(v, x)
    BY <1>6
  <2>2. PICK y \in 2..Len(v) : j = y - 1 /\ w[j] = v[y] /\ Depth(w, j) = Depth(v, y)
    BY <1>6
  <2>3. x # y /\ x \in DOMAIN v /\ y \in DOMAIN v
    BY <1>5, <2>1, <2>2
  <2> QED BY <1>2, <2>1, <2>2, <2>3
<1>a. Waits(w, new)
  BY <1>3, <1>4, <1>7, <1>8, <1>9 DEF Waits
<1> QED BY <1>3, <1>a DEF w, new, ts

(* A function that returns has a scope around its own.                     *)
LEMMA TwoScopes ==
  ASSUME Going, Head(work).do = "function"
  PROVE  Len(scopes) >= 2
<1>1. /\ work \in Seq(Task) /\ Len(work) \in Nat /\ Len(work) >= 2 /\ Head(work) = work[1]
      /\ Waits(work, scopes)
  BY Now DEF Going
<1>2. Len(scopes) = Depth(work, 0)
  BY <1>1 DEF Waits
<1> DEFINE i0 == 0  i1 == 1
<1>3. i0 \in Nat /\ i1 \in 1..Len(work) /\ i1 \in Nat /\ i0 = i1 - 1
  BY <1>1
<1> HIDE DEF i0, i1
<1>4. Depth(work, i0) = IF work[i1].do = "function" THEN Depth(work, i1) + 1 ELSE Depth(work, i1)
  BY <1>1, <1>3, DepthOnce
<1>5. Depth(work, i1) \in Nat /\ Depth(work, i1) >= 1
  BY <1>1, <1>3, FunctionsFinite
<1> QED BY <1>1, <1>2, <1>4, <1>5 DEF i0, i1

(* The innermost scope and table are left; c is the scope around them.     *)
LEMMA LeavingStep ==
  ASSUME Going, Head(work).do = "function",
         NEW m \in Nat, Len(scopes) = m + 1,
         NEW c \in ScopeType, Tracked(c), Grown(scopes[m].insts, c.insts, {}),
         scopes' = Leaving(scopes, c), tables' = Outer(tables)
  PROVE  ScopesOK' /\ TablesOK' /\ CodeKept
<1>1. scopes \in Seq(ScopeType) /\ Len(tables) = Len(scopes) /\ Chain(tables)
  BY Now DEF Going
<1>2. m >= 1
  BY TwoScopes
<1>3. /\ scopes' \in Seq(ScopeType) /\ Len(scopes') = m /\ scopes'[m] = c
      /\ \A k \in 1..m : k # m => scopes'[k] = scopes[k]
  <2>1. IsLeaving(ScopeType, scopes, m, c, Leaving(scopes, c))
    BY <1>1, <1>2, LeavingFacts
  <2> QED BY <2>1 DEF IsLeaving
<1>4. ScopesOK'
  <2>1. \A k \in 1..Len(scopes) : Tracked(scopes[k])
    BY <1>1 DEF Going, CompilerInv, ScopesOK
  <2>2. \A k \in DOMAIN scopes' : Tracked(scopes'[k])
    BY <1>3, <2>1
  <2> QED BY <1>2, <1>3, <2>2 DEF ScopesOK
<1>5. TablesOK'
  <2>1. tables \in Seq(TableType) /\ Len(tables) = m + 1
        /\ \A k \in DOMAIN tables : Numbered(tables[k], ScopeAt(k))
    BY <1>1 DEF Chain
  <2>2. tables' \in Seq(TableType) /\ Len(tables') = m /\ \A k \in 1..m : tables'[k] = tables[k]
    BY <2>1, OuterFacts
  <2>3. Chain(tables')
    BY <1>2, <2>1, <2>2 DEF Chain
  <2> QED BY <1>3, <2>2, <2>3, TablesAsChain
<1>6. CodeKept
  <2>1. ASSUME NEW k \in DOMAIN scopes \cap DOMAIN scopes'
        PROVE  Stands(scopes[k].insts, scopes'[k].insts, Placeholders(scopes[k].insts))
    <3>1. k \in 1..m
      BY <1>3
    <3>2. CASE k = m
      BY <1>3, <3>2 DEF Grown, Stands
    <3>3. CASE k # m
      BY <1>3, <3>1, <3>3 DEF Stands
    <3> QED BY <3>2, <3>3
  <2> QED BY <2>1 DEF CodeKept
<1> QED BY <1>4, <1>5, <1>6

(* The innermost scope becomes the code of a new function, and the scope s *)
(* around it, the captured symbols loaded, gets the op_closure.            *)
LEMMA AddFunctionStep ==
  ASSUME Going, Head(work).do = "function", compiler_leave_scope,
         NEW m \in Nat, Len(scopes) = m + 1,
         NEW s \in ScopeType, Grown(scopes[m].insts, s.insts, {}), Tracked(s),
         AddFunction(s)
  PROVE  Kept
<1> DEFINE t == Innermost(tables)
           o == new_function_obj(Returning(Scope).insts, t.num_defs, Len(Node.params))
           n == Len(t.free)
           c == compiler_emit(s, "closure", nconsts, n)
<1>1. /\ heap' = Append(heap, o) /\ compiler_add_const(Len(heap) + 1)
      /\ scopes' = Leaving(scopes, c) /\ tables' = Outer(tables)
      /\ work' = After(<<>>, work)
      /\ released' = (released \/ DOMAIN t.store # {} \/ t.free # <<>>)
      /\ UNCHANGED <<tree, cstat, failed>>
  BY DEF AddFunction, compiler_leave_scope, Leaving, Continue, After
<1>2. /\ work \in Seq(Task) /\ Len(work) \in Nat /\ Len(work) >= 2 /\ work # <<>> /\ Head(work) = work[1]
      /\ work[1] \in Task
      /\ scopes \in Seq(ScopeType) /\ Scope \in ScopeType /\ Tracked(Scope)
      /\ Len(tables) = Len(scopes) /\ Chain(tables)
      /\ Waits(work, scopes) /\ ~failed
  BY Now DEF Going
<1>3. t \in TableType /\ t.num_defs \in Nat /\ t.free \in Seq(SymbolType) /\ n \in Nat
  <2>1. t \in TableType
    BY <1>2 DEF Chain, Innermost
  <2> HIDE DEF t
  <2>2. t.num_defs \in Nat /\ t.free \in Seq(SymbolType)
    BY <2>1, TableFacts
  <2> QED BY <2>1, <2>2
<1>4. o \in ObjectType
  <2>1. Node \in Nodes /\ Node.t = "function"
    BY <1>2, TaskFacts DEF Node
  <2>2. Node.params \in Seq(STRING)
    BY <2>1, NodeFacts
  <2>3. Len(Node.params) \in Nat /\ Returning(Scope).insts \in Seq(Cell)
    BY <1>2, <2>2, ReturningFacts
  <2> HIDE DEF t
  <2> QED BY <1>3, <2>3 DEF new_function_obj, Function, ObjectType, FunctionType
<1>5. StateOK'
  <2>1. StateOK /\ heap \in Seq(ObjectType) /\ Len(heap) \in Nat
    BY DEF Going, CompilerInv, StateOK
  <2> HIDE DEF ObjectType, o, t
  <2>2. heap' \in Seq(ObjectType) /\ Len(heap') = Len(heap) + 1
    BY <1>1, <1>4, <2>1
  <2> DEFINE id == Len(heap) + 1
  <2>3. id \in 1..Len(heap') /\ Len(heap') >= Len(heap)
    BY <2>1, <2>2
  <2>4. released' \in BOOLEAN
    BY <1>1
  <2>5. compiler_add_const(id)
    BY <1>1
  <2> HIDE DEF id
  <2> QED BY <1>1, <2>1, <2>2, <2>3, <2>4, <2>5, ConstAdded
<1> HIDE DEF o
<1>6. /\ c \in ScopeType /\ Tracked(c) /\ Yielded(c) /\ Grown(s.insts, c.insts, {})
  <2>1. "closure" \in Opcode /\ "closure" # "pop" /\ nconsts \in Nat
    BY DEF Going, CompilerInv, StateOK, Opcode
  <2> HIDE DEF n
  <2> QED BY <1>3, <2>1, EmitFacts
<1> HIDE DEF c
<1>7. m \in 1..Len(scopes) => scopes[m] \in ScopeType
  <2> HIDE DEF ScopeType
  <2> QED BY <1>2
<1>8. m \in 1..Len(scopes) =>
        Grown(scopes[m].insts, c.insts, {}) /\ KeepsJumps(scopes[m].insts, c.insts, {})
  <2> SUFFICES ASSUME m \in 1..Len(scopes)
               PROVE  Grown(scopes[m].insts, c.insts, {}) /\ KeepsJumps(scopes[m].insts, c.insts, {})
    OBVIOUS
  <2>1. scopes[m].insts \in Seq(Cell) /\ s.insts \in Seq(Cell) /\ c.insts \in Seq(Cell)
    BY <1>6, <1>7 DEF ScopeType
  <2>2. Grown(scopes[m].insts, c.insts, {} \cup {}) /\ {} \cup {} = {}
    BY <1>6, <2>1, StandsThenGrown
  <2>3. Grown(scopes[m].insts, c.insts, {})
    BY <2>2
  <2> QED BY <2>1, <2>3, StandsThenGrown
<1>9. m >= 1
  BY TwoScopes
<1>a. m \in 1..Len(scopes)
  BY <1>9
<1>b. Waits(work', scopes')
  BY <1>1, <1>2, <1>6, <1>8, <1>a, LeaveWaits
<1>c. WorkOK'
  <2>1. <<>> \in Seq(Task) /\ work[Len(work)] = Halt
    BY DEF Going, CompilerInv, WorkOK
  <2>2. work' \in Seq(Task) /\ work' # <<>> /\ work'[Len(work')] = Halt
    BY <1>1, <1>2, <2>1, HaltStays
  <2> QED BY <1>1, <1>2, <1>b, <2>2 DEF WorkOK, Going, Compiling
<1>d. ScopesOK' /\ TablesOK' /\ CodeKept
  BY <1>1, <1>6, <1>8, <1>a, LeavingStep
<1> QED BY <1>5, <1>c, <1>d DEF Kept, CompilerInv

LEMMA GrownSame ==
  ASSUME NEW a
  PROVE  Grown(a, a, {})
BY DEF Grown

LEMMA FunctionEndStep ==
  ASSUME Going, compile_function_end
  PROVE  Kept
<1> DEFINE m == Len(scopes) - 1
           s == scopes[m]
<1>1. /\ Head(work).do = "function" /\ compiler_leave_scope /\ AddFunction(s)
  BY DEF compile_function_end, Doing
<1>2. /\ scopes \in Seq(ScopeType) /\ \A k \in DOMAIN scopes : Tracked(scopes[k])
      /\ Len(scopes) >= 2 /\ Len(scopes) \in Nat
  BY <1>1, Now, TwoScopes DEF Going, CompilerInv, ScopesOK
<1>3. m \in Nat /\ Len(scopes) = m + 1 /\ m \in DOMAIN scopes
  BY <1>2
<1> HIDE DEF m
<1>4. s \in ScopeType /\ Tracked(s) /\ Grown(scopes[m].insts, s.insts, {})
  <2>1. Grown(s.insts, s.insts, {})
    BY GrownSame
  <2> QED BY <1>2, <1>3, <2>1
<1> HIDE DEF s
<1> QED BY <1>1, <1>3, <1>4, AddFunctionStep

(* The part of the symbols that was loaded before a function failed.       *)
LEMMA LoadedFacts ==
  ASSUME NEW symbols \in Seq(SymbolType), NEW n \in 0..Len(symbols),
         \A i \in 1..n : Loadable(symbols[i])
  PROVE  /\ SubSeq(symbols, 1, n) \in Seq(SymbolType)
         /\ \A i \in DOMAIN SubSeq(symbols, 1, n) : Loadable(SubSeq(symbols, 1, n)[i])
<1> DEFINE us == SubSeq(symbols, 1, n)
<1> HIDE DEF SymbolType
<1>1. us \in Seq(SymbolType) /\ Len(us) = n /\ \A i \in 1..n : us[i] = symbols[i]
  OBVIOUS
<1> HIDE DEF us
<1>2. DOMAIN us = 1..n
  BY <1>1
<1>3. \A i \in DOMAIN us : Loadable(us[i])
  BY <1>1, <1>2
<1> QED BY <1>1, <1>3 DEF us

LEMMA CrashStep ==
  ASSUME CompilerInv, Crash, UNCHANGED <<tables, scopes, nconsts, failed, released, objVars>>
  PROVE  Kept
<1>1. StateOK' /\ TablesOK' /\ ScopesOK'
  BY DEF CompilerInv, StateOK, TablesOK, ScopesOK, Crash, objVars
<1>2. WorkOK'
  BY WorkEnds DEF Crash
<1> QED BY <1>1, <1>2, SameKept DEF Kept, CompilerInv

LEMMA FunctionCapturesStep ==
  ASSUME Going, compile_function_captures
  PROVE  Kept
<1> DEFINE m == Len(scopes) - 1
           s == scopes[m]
           free == Innermost(tables).free
<1>1. /\ Head(work).do = "function"
      /\ \/ Crash /\ UNCHANGED <<tree, tables, scopes, nconsts, failed, released, objVars>>
         \/ /\ \E n \in 0..Len(free) - 1 :
                 /\ \A i \in 1..n : Loadable(free[i])
                 /\ scopes' = Leaving(scopes, LoadAll(s, SubSeq(free, 1, n)))
            /\ tables' = Outer(tables)
            /\ released' = TRUE /\ failed' = TRUE /\ work' = <<Halt>>
            /\ UNCHANGED <<tree, nconsts, cstat, objVars>>
         \/ /\ \A i \in DOMAIN free : Loadable(free[i])
            /\ compiler_leave_scope
            /\ AddFunction(LoadAll(s, free))
  BY DEF compile_function_captures, Doing, Leaving
<1>2. /\ scopes \in Seq(ScopeType) /\ \A k \in DOMAIN scopes : Tracked(scopes[k])
      /\ Len(scopes) >= 2 /\ Len(scopes) \in Nat
      /\ Chain(tables)
  BY <1>1, Now, TwoScopes DEF Going, CompilerInv, ScopesOK
<1>3. m \in Nat /\ Len(scopes) = m + 1 /\ m \in DOMAIN scopes
  BY <1>2
<1>4. free \in Seq(SymbolType) /\ Len(free) \in Nat
  <2>1. Innermost(tables) \in TableType
    BY <1>2 DEF Chain, Innermost
  <2>2. free \in Seq(SymbolType)
    BY <2>1, TableFacts
  <2> HIDE DEF free
  <2> QED BY <2>2
<1> HIDE DEF m, free
<1>5. s \in ScopeType /\ Tracked(s)
  BY <1>2, <1>3
<1> HIDE DEF s
<1>6. CASE Crash /\ UNCHANGED <<tree, tables, scopes, nconsts, failed, released, objVars>>
  BY <1>6, CrashStep DEF Going
<1>7. CASE /\ \E n \in 0..Len(free) - 1 :
                /\ \A i \in 1..n : Loadable(free[i])
                /\ scopes' = Leaving(scopes, LoadAll(s, SubSeq(free, 1, n)))
           /\ tables' = Outer(tables)
           /\ released' = TRUE /\ failed' = TRUE /\ work' = <<Halt>>
           /\ UNCHANGED <<tree, nconsts, cstat, objVars>>
  <2>1. PICK n \in 0..Len(free) - 1 :
          /\ \A i \in 1..n : Loadable(free[i])
          /\ scopes' = Leaving(scopes, LoadAll(s, SubSeq(free, 1, n)))
    BY <1>7
  <2> DEFINE us == SubSeq(free, 1, n)
             c == LoadAll(s, us)
  <2>2. n \in 0..Len(free)
    BY <1>4
  <2>3. us \in Seq(SymbolType) /\ \A i \in DOMAIN us : Loadable(us[i])
    BY <1>4, <2>1, <2>2, LoadedFacts
  <2> HIDE DEF us
  <2>4. c \in ScopeType /\ Tracked(c) /\ Grown(s.insts, c.insts, {})
    BY <1>5, <2>3, LoadAllFacts
  <2>5. scopes' = Leaving(scopes, c) /\ tables' = Outer(tables)
    BY <1>7, <2>1 DEF us
  <2> HIDE DEF c
  <2>6. Grown(scopes[m].insts, c.insts, {})
    BY <2>4 DEF s
  <2>7. ScopesOK' /\ TablesOK' /\ CodeKept
    BY <1>1, <1>3, <2>4, <2>5, <2>6, LeavingStep
  <2>8. StateOK'
    BY <1>7 DEF Going, CompilerInv, StateOK, objVars
  <2>9. WorkOK'
    BY <1>7, WorkEnds
  <2> QED BY <2>7, <2>8, <2>9 DEF Kept, CompilerInv
<1>8. CASE /\ \A i \in DOMAIN free : Loadable(free[i])
           /\ compiler_leave_scope
           /\ AddFunction(LoadAll(s, free))
  <2> DEFINE c == LoadAll(s, free)
  <2>1. c \in ScopeType /\ Tracked(c) /\ Grown(s.insts, c.insts, {})
    BY <1>4, <1>5, <1>8, LoadAllFacts
  <2>2. AddFunction(c) /\ compiler_leave_scope
    BY <1>8
  <2> HIDE DEF c
  <2>3. Grown(scopes[m].insts, c.insts, {})
    BY <2>1 DEF s
  <2> QED BY <1>1, <1>3, <2>1, <2>2, <2>3, AddFunctionStep
<1> QED BY <1>1, <1>6, <1>7, <1>8

(* The op_halt: whether a function failed or not. *)
LEMMA HaltStep ==
  ASSUME CompilerInv, Compiling, Head(work) = Halt, Emit
  PROVE  Kept
<1> DEFINE s == compiler_emit(Scope, "halt", 0, 0)
<1>1. scopes' = [scopes EXCEPT ![Len(scopes)] = s] /\ cstat' = "compiled"
      /\ work' = Tail(work)
      /\ UNCHANGED <<tree, tables, nconsts, failed, released, heap, consts>>
  <2>1. <<>> \o Tail(work) = Tail(work)
    <3>1. Tail(work) \in Seq(Task)
      <4>1. work \in Seq(Task) /\ work # <<>>
        BY Now
      <4> HIDE DEF Task
      <4> QED BY <4>1
    <3> HIDE DEF Task
    <3> QED BY <3>1
  <2>2. Head(work).op = "halt" /\ Head(work).a = 0
    BY DEF Halt, EmitTask
  <2> QED BY <2>1, <2>2 DEF Emit, InScope, Continue, objVars
<1>2. /\ scopes \in Seq(ScopeType) /\ Len(scopes) \in Nat /\ Len(scopes) >= 1
      /\ Scope = scopes[Len(scopes)] /\ Scope \in ScopeType
      /\ work \in Seq(Task) /\ work # <<>>
  BY Now
<1>3. s \in ScopeType /\ Tracked(s) /\ Grown(Scope.insts, s.insts, {})
  <2>1. "halt" \in Opcode /\ "halt" # "pop" /\ 0 \in Nat
    BY DEF Opcode, Plain
  <2> QED BY <1>2, <2>1, EmitFacts
<1> HIDE DEF s
<1>4. ScopesOK'
  <2>1. \A k \in DOMAIN scopes : Tracked(scopes[k])
    BY DEF CompilerInv, ScopesOK
  <2>2. scopes' \in Seq(ScopeType) /\ Len(scopes') = Len(scopes)
    <3> HIDE DEF ScopeType
    <3> QED BY <1>1, <1>2, <1>3
  <2>3. \A k \in DOMAIN scopes' : Tracked(scopes'[k])
    BY <1>1, <1>2, <1>3, <2>1
  <2> QED BY <1>2, <2>2, <2>3 DEF ScopesOK
<1>5. TablesOK' /\ StateOK'
  BY <1>1 DEF CompilerInv, StateOK, TablesOK
<1>6. WorkOK'
  <2>1. work' \in Seq(Task)
    <3> HIDE DEF Task
    <3> QED BY <1>1, <1>2
  <2> QED BY <1>1, <2>1 DEF WorkOK, Compiling
<1>7. CodeKept
  <2> DEFINE P == {}
  <2>1. Scope.insts \in Seq(Cell) /\ s.insts \in Seq(Cell)
    BY <1>2, <1>3 DEF ScopeType
  <2>2. Stands(scopes[Len(scopes)].insts, s.insts, P)
    BY <1>2, <1>3, <2>1, StandsThenGrown
  <2>3. P \subseteq Placeholders(scopes[Len(scopes)].insts)
    OBVIOUS
  <2> HIDE DEF P
  <2> QED BY <1>1, <1>2, <1>3, <2>2, <2>3, KeptHere
<1> QED BY <1>4, <1>5, <1>6, <1>7 DEF Kept, CompilerInv

(* Any other instruction. *)
LEMMA InstructionStep ==
  ASSUME Going, Emit
  PROVE  Kept
<1> DEFINE op == Head(work).op
           a == Head(work).a
           s == compiler_emit(Scope, op, a, 0)
<1>1. /\ Head(work).do = "emit" /\ EmitHere(s) /\ Continue(<<>>)
  BY DEF Emit, Doing, EmitHere, Going
<1>2. /\ work \in Seq(Task) /\ Len(work) >= 2 /\ Head(work) = work[1] /\ work[1] \in Task
      /\ scopes \in Seq(ScopeType) /\ Len(scopes) >= 1
      /\ Scope = scopes[Len(scopes)] /\ Scope \in ScopeType /\ Tracked(Scope)
      /\ Waits(work, scopes)
  BY Now DEF Going
<1>3. op \in Opcode /\ a \in Nat
  BY <1>1, <1>2, TaskFacts DEF Deferred
<1>4. op = "pop" => Yielded(Scope)
  BY <1>1, <1>2 DEF Waits, IsPop
<1> HIDE DEF op, a
<1>5. /\ s \in ScopeType /\ Grown(Scope.insts, s.insts, {}) /\ Tracked(s)
      /\ op # "pop" => Yielded(s)
  <2>1. 0 \in Nat
    OBVIOUS
  <2> QED BY <1>2, <1>3, <1>4, <2>1, EmitFacts
<1>6. Yields(Head(work)) => Yielded(s)
  BY <1>1, <1>5 DEF Yields, op
<1> HIDE DEF s
<1>7. KeepsJumps(Scope.insts, s.insts, {}) /\ Stands(Scope.insts, s.insts, {})
  <2>1. Scope.insts \in Seq(Cell) /\ s.insts \in Seq(Cell)
    BY <1>2, <1>5 DEF ScopeType
  <2> QED BY <1>5, <2>1, StandsThenGrown
<1>8. Planned(<<>>)
  BY DEF Planned, PopsFollow
<1> DEFINE P == {}
<1>9. Goes(work, scopes, <<>>, s, P)
  BY <1>1, <1>2, <1>5, <1>6, <1>7, <1>8 DEF Goes
<1>a. Stands(Scope.insts, s.insts, P) /\ P \subseteq Placeholders(Scope.insts)
  BY <1>7
<1> HIDE DEF P
<1> QED BY <1>1, <1>5, <1>9, <1>a, ScopeStep

-----------------------------------------------------------------------------
(***************************************************************************)
(* The whole compiler.                                                     *)
(***************************************************************************)
LEMMA CompilerStep ==
  ASSUME CompilerInv, [CompilerNext]_<<compilerVars, objVars>>
  PROVE  Kept
<1>1. CASE UNCHANGED <<compilerVars, objVars>>
  <2>1. CompilerInv'
    BY <1>1 DEF CompilerInv, StateOK, TablesOK, ScopesOK, WorkOK, Compiling, compilerVars, objVars
  <2>2. CodeKept
    BY <1>1, SameKept DEF compilerVars
  <2> QED BY <2>1, <2>2 DEF Kept
<1>2. CASE compile
  <2>1. Compiling
    BY <1>2 DEF compile, compile_integer, compile_null, compile_operation, compile_identifier,
                compile_assign, compile_assign_to_literal, compile_block, compile_call,
                compile_return, compile_ifelse, compile_ifelse_body, compile_ifelse_altern,
                compile_ifelse_end, compile_function, compile_function_end,
                compile_function_captures, compile_function_aborts, CompileNULL,
                Emit, Visiting, Doing
  <2>2. ASSUME Head(work).do # "emit" PROVE Going
    BY <2>1, <2>2 DEF Going, Halt, EmitTask
  <2>3. CASE compile_integer
    BY <2>2, <2>3, IntegerStep DEF compile_integer, Visiting, Doing
  <2>4. CASE compile_null
    BY <2>2, <2>4, NullStep DEF compile_null, Visiting, Doing
  <2>5. CASE compile_operation
    BY <2>2, <2>5, OperationStep DEF compile_operation, Visiting, Doing
  <2>6. CASE compile_identifier
    BY <2>2, <2>6, IdentifierStep DEF compile_identifier, Visiting, Doing
  <2>7. CASE compile_assign
    BY <2>2, <2>7, AssignStep DEF compile_assign, Visiting, Doing
  <2>8. CASE compile_assign_to_literal
    BY <2>2, <2>8, AssignToLiteralStep DEF compile_assign_to_literal, Visiting, Doing
  <2>9. CASE compile_block
    BY <2>2, <2>9, BlockStep DEF compile_block, Visiting, Doing
  <2>10. CASE compile_call
    BY <2>2, <2>10, CallStep DEF compile_call, Visiting, Doing
  <2>11. CASE compile_return
    BY <2>2, <2>11, ReturnStep DEF compile_return, Visiting, Doing
  <2>12. CASE compile_ifelse
    BY <2>2, <2>12, IfelseStep DEF compile_ifelse, Visiting, Doing
  <2>13. CASE compile_ifelse_body
    BY <2>2, <2>13, IfelseBodyStep DEF compile_ifelse_body, Doing
  <2>14. CASE compile_ifelse_altern
    BY <2>2, <2>14, IfelseAlternStep DEF compile_ifelse_altern, Doing
  <2>15. CASE compile_ifelse_end
    BY <2>2, <2>15, IfelseEndStep DEF compile_ifelse_end, Doing
  <2>16. CASE compile_function
    BY <2>2, <2>16, FunctionStep DEF compile_function, Visiting, Doing
  <2>17. CASE compile_function_end
    BY <2>2, <2>17, FunctionEndStep DEF compile_function_end, Doing
  <2>18. CASE compile_function_captures
    BY <2>2, <2>18, FunctionCapturesStep DEF compile_function_captures, Doing
  <2>19. CASE compile_function_aborts \/ CompileNULL
    BY <2>19, CrashStep DEF compile_function_aborts, CompileNULL
  <2>20. CASE Emit
    <3>1. CASE Head(work) = Halt
      BY <2>1, <2>20, <3>1, HaltStep
    <3>2. CASE Head(work) # Halt
      BY <2>1, <2>20, <3>2, InstructionStep DEF Going
    <3> QED BY <3>1, <3>2
  <2> QED BY <1>2, <2>3, <2>4, <2>5, <2>6, <2>7, <2>8, <2>9, <2>10, <2>11, <2>12,
             <2>13, <2>14, <2>15, <2>16, <2>17, <2>18, <2>19, <2>20 DEF compile
<1> QED BY <1>1, <1>2 DEF CompilerNext, CompilerDone

(* The compiler begins with one scope, one table and two calls. *)
LEMMA BeginFacts ==
  ASSUME NEW n \in Nodes,
         work = <<Visit(n), Halt>>, scopes = <<new_scope>>, Compiling, failed = FALSE
  PROVE  ScopesOK /\ WorkOK
<1> DEFINE a == Visit(n)
<1>1. a \in Task /\ Halt \in Task /\ a.do = "visit" /\ Halt.do = "emit"
      /\ ~ IsPop(a) /\ ~ IsPop(Halt)
  <2>1. "halt" \in Deferred /\ 0 \in Nat
    BY DEF Deferred, Constants, Opcode, Plain
  <2> QED BY <2>1, TasksOf DEF Halt, Visit, EmitTask, IsPop
<1> HIDE DEF a
<1>2. ScopesOK
  <2>1. new_scope \in ScopeType /\ Tracked(new_scope)
    <3>1. "constant" \in Opcode /\ 0 \in Nat /\ <<>> \in Seq(Cell)
      BY DEF Opcode, Wide
    <3> QED BY <3>1 DEF new_scope, ScopeType, EmittedType, Emitted, Tracked
  <2> HIDE DEF ScopeType, new_scope
  <2> QED BY <2>1 DEF ScopesOK
<1>3. /\ work \in Seq(Task) /\ work # <<>> /\ Len(work) = 2 /\ work[1] = a /\ work[2] = Halt
      /\ DOMAIN work = {1, 2} /\ Head(work) = a
  <2> HIDE DEF Task, Halt
  <2> QED BY <1>1 DEF a
<1>4. Len(scopes) = Depth(work, 0)
  <2>1. Functions(work, 0) = {}
    BY <1>1, <1>3 DEF Functions
  <2>2. Cardinality(Functions(work, 0)) = 0
    BY <2>1, FS_EmptySet
  <2>3. Len(scopes) = 1
    OBVIOUS
  <2> QED BY <2>2, <2>3 DEF Depth
<1>5. \A i \in DOMAIN work : ~ Holds(work[i]) /\ ~ IsPop(work[i])
  BY <1>1, <1>3 DEF Holds
<1>6. PopsFollow(work)
  BY <1>3, <1>5 DEF PopsFollow
<1>7. Waits(work, scopes)
  BY <1>1, <1>3, <1>4, <1>5, <1>6 DEF Waits
<1> QED BY <1>2, <1>3, <1>7 DEF WorkOK

LEMMA CompilerBegins ==
  ASSUME CompilerInit
  PROVE  CompilerInv
<1>1. PICK n \in Trees : /\ tables = <<new_symbol_table>> /\ scopes = <<new_scope>>
                         /\ work = <<Visit(n), Halt>>
  BY DEF CompilerInit, Begin
<1>2. n \in Nodes
  BY NodesAssumption
<1>3. ScopesOK /\ WorkOK
  BY <1>1, <1>2, BeginFacts DEF CompilerInit, Compiling
<1>4. TablesOK
  <2> DEFINE t == new_symbol_table
  <2>1. t \in TableType /\ Numbered(t, global_scope)
    <3>1. [n_1 \in {} |-> NoSymbol] \in [{} -> SymbolType] /\ {} \in SUBSET STRING
          /\ <<>> \in Seq(SymbolType) /\ 0 \in Nat /\ 0..0 - 1 = {}
      OBVIOUS
    <3>2. t \in TableType
      BY <3>1 DEF new_symbol_table, TableType
    <3>3. DOMAIN t.store = {} /\ t.num_defs = 0
      BY DEF new_symbol_table
    <3> HIDE DEF t
    <3> QED BY <3>1, <3>2, <3>3 DEF Numbered
  <2> HIDE DEF t, TableType
  <2>2. tables = <<t>> /\ Len(scopes) = 1
    BY <1>1 DEF t
  <2>3. tables \in Seq(TableType) /\ Len(tables) = 1 /\ DOMAIN tables = {1} /\ tables[1] = t
    BY <2>1, <2>2
  <2> QED BY <2>1, <2>2, <2>3 DEF TablesOK
<1>5. StateOK
  <2>1. Statics \in Seq(ObjectType) /\ Len(Statics) = 3
    <3>1. NullObject \in ObjectType /\ new_boolean_obj(1) \in ObjectType /\ new_boolean_obj(0) \in ObjectType
      BY DEF NullObject, new_boolean_obj, ObjectType
    <3> HIDE DEF ObjectType, NullObject, new_boolean_obj
    <3> QED BY <3>1 DEF Statics
  <2> HIDE DEF ObjectType, Statics
  <2>2. /\ heap = Statics /\ DOMAIN consts = {} /\ nconsts = 0
        /\ cstat = "compiling" /\ failed = FALSE /\ released = FALSE
    BY DEF CompilerInit
  <2>3. heap \in Seq(ObjectType) /\ Len(heap) >= 3 /\ nconsts \in Nat
    <3>1. heap \in Seq(ObjectType)
      BY <2>1, <2>2
    <3>2. Len(heap) >= 3
      <4>1. Len(heap) = 3
        BY <2>1, <2>2
      <4> QED BY <4>1
    <3>3. nconsts \in Nat
      BY <2>2
    <3> QED BY <3>1, <3>2, <3>3
  <2>4. DOMAIN consts \subseteq 0..nconsts - 1 /\ \A i \in DOMAIN consts : consts[i] \in 1..Len(heap)
    BY <2>2
  <2> QED BY <2>2, <2>3, <2>4 DEF StateOK
<1> QED BY <1>3, <1>4, <1>5 DEF CompilerInv

LEMMA CompilerInvHolds == CompilerSpec => []CompilerInv
<1>1. CompilerInit => CompilerInv
  BY CompilerBegins
<1>2. CompilerInv /\ [CompilerNext]_<<compilerVars, objVars>> => CompilerInv'
  BY CompilerStep DEF Kept
<1> QED BY <1>1, <1>2, PTL DEF CompilerSpec

-----------------------------------------------------------------------------
(* CompilerInv has what the properties say. *)
LEMMA InvImplies ==
  CompilerInv => CompilerTypeOK /\ SlotsAreOwn /\ LastInstTracked /\ JumpsWait
<1> SUFFICES ASSUME CompilerInv
             PROVE  CompilerTypeOK /\ SlotsAreOwn /\ LastInstTracked /\ JumpsWait
  OBVIOUS
<1>1. CompilerTypeOK
  <2>1. \A k \in DOMAIN tables : TableOK(tables[k])
    <3> SUFFICES ASSUME NEW k \in DOMAIN tables PROVE TableOK(tables[k])
      OBVIOUS
    <3>1. tables[k] \in TableType
      BY DEF CompilerInv, TablesOK
    <3> DEFINE t == tables[k]
    <3> HIDE DEF t
    <3>2. /\ DOMAIN t.store \subseteq STRING
          /\ t.store \in [DOMAIN t.store -> SymbolType]
          /\ t.free \in Seq(SymbolType) /\ t.num_defs \in Nat
      BY <3>1, TableFacts DEF t
    <3>3. TableOK(t)
      BY <3>2 DEF TableOK
    <3> QED BY <3>3 DEF t
  <2> QED BY <2>1 DEF CompilerInv, StateOK, TablesOK, ScopesOK, CompilerTypeOK
<1>2. SlotsAreOwn
  BY DEF CompilerInv, TablesOK, Numbered, SlotsAreOwn
<1>3. LastInstTracked
  BY DEF CompilerInv, ScopesOK, Tracked, LastInstTracked
<1>4. JumpsWait
  <2> SUFFICES ASSUME Compiling, ~ failed
               PROVE  /\ Len(scopes) = ScopeOf(0)
                      /\ \A i \in DOMAIN work :
                           work[i].do \in {"body", "altern"} =>
                             HeldIn(work[i], scopes[ScopeOf(i)].insts)
    BY DEF JumpsWait, HeldIn, JumpOf
  <2>1. Waits(work, scopes)
    BY DEF CompilerInv, WorkOK
  <2>2. \A i : ScopeOf(i) = Depth(work, i)
    BY DEF ScopeOf, Depth, Functions
  <2> QED BY <2>1, <2>2 DEF Waits, Holds
<1> QED BY <1>1, <1>2, <1>3, <1>4

(* What the compiler holds is always well formed: every table, the object  *)
(* of every constant, and every instruction that compiler_emit and         *)
(* compiler_replace_operand put into the code of a scope.                  *)
THEOREM CompilerTyped == CompilerSpec => []CompilerTypeOK
BY InvImplies, CompilerInvHolds, PTL

(* symbol_table_define numbers the names of a table without a gap or a     *)
(* repetition, however the functions nested in it resolve, capture and     *)
(* define: two variables never share a slot.                               *)
THEOREM SlotsNeverShared == CompilerSpec => []SlotsAreOwn
BY InvImplies, CompilerInvHolds, PTL

(* last_inst and prev_inst are the end of the code wherever compile_ifelse *)
(* and compile_function look at them, although prev_inst is stale after    *)
(* compiler_remove_last and patching does not touch them.                  *)
THEOREM LastInstIsLast == CompilerSpec => []LastInstTracked
BY InvImplies, CompilerInvHolds, PTL

(* However deep conditions and functions nest, the position every waiting  *)
(* compile_ifelse holds is its own jump with the placeholder, in the scope *)
(* it will go on in.                                                       *)
THEOREM JumpsAreWaitedFor == CompilerSpec => []JumpsWait
BY InvImplies, CompilerInvHolds, PTL

(* No step changes code that was emitted, but for the placeholder of a     *)
(* jump that gets its target and an op_pop that is taken back.             *)
THEOREM EmittedCodeStands == CompilerSpec => CodeStands
<1> DEFINE Step ==
      \A k \in DOMAIN scopes \cap DOMAIN scopes' :
        LET old == scopes[k].insts
            new == scopes'[k].insts
        IN Compiling => \A p \in DOMAIN old :
             \/ p \in DOMAIN new /\ new[p] = old[p]
             \/ /\ p \in DOMAIN new /\ new[p].op = old[p].op
                /\ old[p].op \in {"jump", "jump_not_truthy"}
                /\ old[p] = Decoded(old[p].op, PLACEHOLDER, 0)
             \/ p = Len(old) /\ old[p].op = "pop"
<1>1. ASSUME CompilerInv, CodeKept PROVE Step
  <2> SUFFICES ASSUME NEW k \in DOMAIN scopes \cap DOMAIN scopes',
                      NEW p \in DOMAIN scopes[k].insts
               PROVE  LET old == scopes[k].insts
                          new == scopes'[k].insts
                      IN \/ p \in DOMAIN new /\ new[p] = old[p]
                         \/ /\ p \in DOMAIN new /\ new[p].op = old[p].op
                            /\ old[p].op \in {"jump", "jump_not_truthy"}
                            /\ old[p] = Decoded(old[p].op, PLACEHOLDER, 0)
                         \/ p = Len(old) /\ old[p].op = "pop"
    OBVIOUS
  <2> DEFINE old == scopes[k].insts
             new == scopes'[k].insts
  <2>1. Stands(old, new, Placeholders(old))
    BY <1>1 DEF CodeKept
  <2>2. ASSUME p - 1 \in Placeholders(old)
        PROVE  old[p].op \in {"jump", "jump_not_truthy"} /\ old[p] = Decoded(old[p].op, PLACEHOLDER, 0)
    <3>1. PICK op \in Jumps : old[p - 1 + 1] = Decoded(op, PLACEHOLDER, 0) /\ p - 1 \in 0..Len(old) - 1
      BY <2>2 DEF Placeholders
    <3>2. p - 1 + 1 = p
      <4>1. scopes[k] \in ScopeType
        BY <1>1 DEF CompilerInv, ScopesOK
      <4>2. scopes[k].insts \in Seq(Cell)
        BY <4>1 DEF ScopeType
      <4>3. p \in Int
        BY <4>2
      <4> QED BY <4>3
    <3>3. old[p].op = op
      BY <3>1, <3>2 DEF Decoded
    <3> QED BY <3>1, <3>2, <3>3 DEF Jumps
  <2> QED BY <2>1, <2>2 DEF Stands
<1>2. CompilerInv /\ [CompilerNext]_<<compilerVars, objVars>> => [Step]_<<compilerVars, objVars>>
  BY <1>1, CompilerStep DEF Kept
<1>3. CompilerSpec => [][Step]_<<compilerVars, objVars>>
  BY <1>2, CompilerInvHolds, PTL DEF CompilerSpec
<1> QED BY <1>3 DEF CodeStands
=============================================================================
