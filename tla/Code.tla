-------------------------------- MODULE Code --------------------------------
(***************************************************************************)
(* The bytecode of src/src/code: the opcodes, the widths of their operands *)
(* and what encoding does to an operand.                                   *)
(*                                                                         *)
(* A chunk is a sequence with one cell per byte, so a position of the code *)
(* is an offset (byte p is cell p + 1).  The first cell of an instruction  *)
(* is the decoded instruction [op, a, b]; the bytes of its operands are    *)
(* the cell Operand.  What is kept of the encoding is what it does: a      *)
(* value wider than the operand is cut to the operand's width, and an      *)
(* offset that is not the first byte of an instruction holds no opcode.    *)
(***************************************************************************)
EXTENDS Integers, Sequences

CONSTANTS
  U8,   \* values of a one-byte operand: 256 in the code
  U16   \* values of a two-byte operand: 65536 in the code

ASSUME WidthAssumption == U8 \in Nat \ {0} /\ U16 \in Nat \ {0}

(* The rows of the table `definitions`, by the widths of their operands. *)
Wide   == {"constant", "list", "map", "jump", "jump_not_truthy",
           "get_global", "set_global"}
Narrow == {"call", "concurrent_call", "get_local", "set_local",
           "get_builtin", "get_free"}
Plain  == {"true", "false", "null", "current_closure",
           "add", "sub", "mul", "div", "mod",
           "bw_and", "bw_or", "bw_xor", "bw_not", "bw_lshift", "bw_rshift",
           "and", "or", "equal", "not_equal",
           "greater_than", "greater_than_equal",
           "minus", "bang", "index", "return", "return_value",
           "dot", "define", "load_module", "pop", "halt"}
Opcode == Wide \cup Narrow \cup Plain \cup {"closure", "interpolate"}

InstLen(op) ==
  CASE op \in Wide        -> 3
    [] op \in Narrow      -> 2
    [] op = "closure"     -> 4
    [] op = "interpolate" -> 5
    [] OTHER              -> 1

Inst    == [op : Opcode, a : Nat, b : Nat]
Operand == [op |-> "operand", a |-> 0, b |-> 0]
Cell    == Inst \cup {Operand}

(* vmake_bcode: the bytes of one instruction. *)
Decoded(op, a, b) ==
  [op |-> op,
   a  |-> CASE op \in Wide \cup {"closure", "interpolate"} -> a % U16
            [] op \in Narrow -> a % U8
            [] OTHER         -> 0,
   b  |-> CASE op = "closure"     -> b % U8
            [] op = "interpolate" -> b % U16
            [] OTHER              -> 0]

Encode(op, a, b) ==
  <<Decoded(op, a, b)>> \o [i \in 1..InstLen(op) - 1 |-> Operand]

(* An instruction starts at offset p of the chunk. *)
IsInst(insts, p) == p \in 0..Len(insts) - 1 /\ insts[p + 1] \in Inst
=============================================================================
