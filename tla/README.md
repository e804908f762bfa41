# ctau in TLA+

ctau is the C implementation of the language Tau: a line is lexed, parsed to a
tree, compiled to bytecode and run on a stack machine, and `main.c` does this in
a loop over one session state. This directory models each stage of that
pipeline and all of them joined, from the characters of standard input to the
answer; it checks them with TLC. With TLAPS it proves, for every value of the
constants, the stack discipline of the virtual machine and that it implements calls
with stacks of their own, the bookkeeping of the compiler, what a session keeps from
line to line, that the lexer covers the text and the parser builds whole trees, and
that the string map is a map.

## Inventory

| Component (source) | State | Operations | What makes it correct |
|---|---|---|---|
| Bytecode (`src/code`) | none: a table of opcodes and operand widths | encode, read | an operand reads back as what was written; it is cut to its width |
| Objects (`src/obj`) | the heap; three static objects | allocate, print, dispose | an address in use is of an allocated object |
| Virtual machine (`src/vm`) | `stack`, `sp`, `frames`, `frame_idx`, a copy of the session state | `vm_run`: one handler per opcode; `vm_dispose` | frames tile the stack; nothing is popped below the stack; callers keep their values; a run ends |
| Symbol tables (`compiler/symboltable.c`) | a chain of tables: store, captured symbols, `num_defs` | define, resolve, define_free, free | a name has one slot, a slot has one name, and they do not change |
| Compiler (`compiler/compiler.c`, `ast/*.c`) | scopes with code and `last_inst`/`prev_inst`, the tables, the constants, the C call stack | one `compile` function per node, the emitter, back-patching | the code has the stack heights the machine relies on and computes what the tree means |
| REPL (`main.c`) | the input buffer; `struct state`: table, constants, their number, globals | read a line and its continuation, parse, compile, run, print, dispose of the tree and of the machine | stays inside the buffer; the answer is what the text means; one line does not damage the next |
| String map (`data/strmap.c`) | binary tree by hash | set, get, delete, free | is a map |
| Lexer, items (`lexer`, `item`) | position, items | state functions | ends; the items are those of the text |
| Parser (`parser`) | `cur`, `peek`, index | Pratt loop, blocks, sequences | ends; precedence; no NULL inside a tree |

How they interact: `main` passes the address of its constants array and its symbol
table to the compiler (shared state, changed in place), but passes the whole
`struct state` **by value** to the machine, whose globals therefore die with it.
`compile` is recursive descent over function pointers in the nodes; a failure
returns -1 through all callers without cleaning up, and `main` ignores it. The
machine frees what its stack points to, although constants stay in the array. The
text reaches the lexer as a pointer into the buffer of `main` and a length; the
items are slices of it. `parse_input` hands the parser whatever the lexer left, and
the tree may have NULL where no expression begins.

There are no threads (the opcodes for concurrency are unhandled), nothing is
persisted and nothing is sent, so the hard behaviours are of another kind: long
sequences of legal steps with bookkeeping that must stay in step (`sp` against
`base_ptr` over nested calls; `last_inst`/`prev_inst` and pending placeholders
over nested ifs), stale or doubled state (the number of constants, freed
symbols, the copy of the session), one step failing halfway, and bounds nobody
checks. `PROJECT.json` lists each hazard at its line.

## Modules

- `Code` – opcodes, operand widths, `Encode`. A chunk has a cell per byte, so
  positions and jump targets are the code's. The value of an operand is kept in
  the instruction's first cell, already cut to its width.
- `StackMap` – what each opcode takes from and leaves on the stack, and
  `Accepted`: a chunk every offset of which can be given one stack height. The
  program has no verifier; this is the unwritten contract between compiler and
  machine, made explicit.
- `Objects` – heap (append-only sequence, address = index, 0 = NULL, 1..3 the
  static objects), constants, 64-bit wrap-around with `Int63` for 2^63.
- `VM` – `stack`, `sp`, `frames` (the part in use), `globals`, and `status`. One
  action per handler; handlers of one shape share one action (the five
  arithmetic ones, the ten comparisons and connectives). Because the handlers
  check nothing, each undefined outcome is a status of its own: `underflow`,
  `overflow`, `badcode`, `fault`; `halted`, `unhandled` and `exited` are the
  defined ways out.
- `Activations` – what a call is to who writes a function: locals and operands of
  its own, and a result in the place of the callee; no stack, no base, no limits. It
  models no code: `ImplementsActivations` in `VM` maps each frame to one, its locals
  and operands the slots between its base and the next one's.
- `VMProofs` – the theorems about `VM`, the refinement among them.
- `Tree` – the node constructors, and `NodesOver(N)`: what the parser can build from
  nodes of `N`. A set with `N \subseteq NodesOver(N)` is closed under parts, which is how
  trees of any depth are spoken of without recursion. `SymbolTable` – the table operations as
  operators on the chain of tables, with the swapped arguments of
  `symbol_table_define_free` as they are in the code.
- `Compiler` – the emitter as operators on one scope, and one action for every
  stretch of a `compile_*` function between two recursive calls. The C call
  stack is the sequence `work`. `Nodes` is such a closed set and `Trees` the part of it
  that a compiler on its own starts from. Reading the captured symbols after they were
  freed is a choice between a fault, a failure and the old contents, and freeing a
  captured name again with the table around it may abort (`compile_function_aborts`).
  `CompilerProofs` – its theorems.
- `Repl` – `main`: composes `Compiler` and `VM` over the shared heap, constants
  and table. After the answer `tree->dispose` goes through the tree, one action per
  dispose function, `todo` its call stack; then `vm_dispose`. `freed` records what it
  gave back; `free()` of a static object aborts, of memory freed before, a name
  included, it aborts or goes unnoticed. `ReplProofs` – its theorems, which rest on
  those of `CompilerProofs` and `VMProofs`.
- `Front` – the whole program: `fgets`, `trim_right` and `accept_until` on the buffer,
  then instances of `Lexer` and `Parser` over its own variables, one after the other as
  `parse_input` calls them, then `Repl` on the tree. `stage` says where it is. Where
  the code leaves what is defined (a newline over the last NUL of the buffer, items
  without an `eof`) the process dies or goes on for ever, stage `lost`. `FrontProofs` –
  its theorems, which rest on those of `LexerProofs`, `ParserProofs` and `ReplProofs`.
- `Strmap` – `strmap.c` one level of its recursions per step: a pointer to a link
  (`at`) goes down the tree; a deletion unlinks the node and hangs its subtrees
  back in from the root. A key is its hash. `StringMap` is what the client is
  promised: one function, with the requests as its steps. `ImplementsMap` in
  `Strmap` gives the mapping. `StrmapProofs` – the theory of search trees made of nodes
  and links, and the theorems.
- `Item` – item types, keywords. `Lexer` – one action per call of a state function
  by `lexer_run`, and per turn of the loop of `lex_string`; the primitives `next`,
  `backup`, `accept`, `emit` are operators on `struct lexer`, with what they do at
  the end of the input. An item is the slice of the text it stands for. Its `Table`
  says which characters begin which operator; quote, backslash, backtick and vertical
  tab are named by words. `LexerProofs` – its theorems.
- `Parser` – precedence climbing over items. The C call stack is the sequence
  `calls`, as in `Compiler`; one action runs a function to its next call of
  another. `ParserProofs` – its theorems. `Grammar` writes a tree as items, with parentheses only where they are
  needed: the reference that the parser is compared with; `MCFront` makes text of
  them. It models no code.
- `Language` – the reference: an evaluator of trees, and `PlainTree`, the trees
  the implementation is meant to handle and does. It models no code.
- `Induction` – the least of a set of numbers, and recursion over a range of them, from
  the well-foundedness of `<`: what the proofs have in place of induction over data.
- `Lines` and the `MC*` modules – the instances for TLC.

Operators whose names extend the name of a code definition and whose comment begins with
"Mutant of" are plausible mistakes in that definition. Each of them makes one
property fail, which shows that the property says something about that code.

`Compiler`, `VM` and `Repl` were also compared with the built program: for the
242 trees of `Lines` that can be written as text, the bytes, the constants and
the parameter counts `compile` produces agree, and so do what the REPL prints
and whether it survives. In the same way the lexer's items agree on 66 278 texts,
and the parser's result, with where it stops, on all 52 442 of its inputs. `Front`
was compared by hand on its odd inputs: strings that are not closed, the end of the
input after a brace, a NUL before a continuation line, missing arguments.

## Runs

| Run | Properties | Bounds |
|---|---|---|
| `machine` (`MCVM_all`) | `TypeOK`, `FramesTile`, `NeverUnderflows`, `CallersUntouched`, `ImplementsActivations`, `RunEnds` | stack of 10, 4 frames, 4-bit integers |
| `compiler` (`MCCompiler_all`) | `CompilerTypeOK`, `SlotsAreOwn`, `LastInstTracked`, `JumpsWait`, `CodeStands`, `OnlyCapturesCrash` | the ~250 trees of `Lines`, real operand widths |
| `front` (`MCFront_all`) | `FrontTypeOK`, `LostByQuote`, `CompilerKeepsPromise`, `TextMeans`, `TextAnswered` | every line of `Lines` as text, pairs of some, malformed and odd inputs; a buffer of 80, three lines, stack of 16, 6 frames |
| `session` (`MCRepl_session`) | `FreedStaysUnused`, `NoHoleDisposed`, `MeaningKept`, `ArithmeticSurvives`, `ConstantsNeverMove`, `GlobalsKeepIndices` | four lines out of twelve |
| `strmap` (`MCStrmap_all`) | `StrmapTypeOK`, `OneTree`, `ReleasedOnce`, `ImplementsMap` | 4 hashes, 2 values, 4 nodes |
| `lexer` (`MCLexer_all`) | `LexerTypeOK`, `TextCovered`, `ItemsRead`, `EofLast`, `LexerEnds` | every text of three characters, and longer ones |
| `parser` (`MCParser_all`) | `ParserTypeOK`, `ParsedAsWritten`, `ParserEnds` | the trees of `Lines` and combinations of up to three operators, written down; every three items after each of five beginnings |
| `captures`, `globals`, `statics`, `constants` (`MCFindings_*`), `semicolon` (`MCParser_semicolon`) | one each, violated | see below |

The names are those of `PROJECT.json`. Deadlock is not checked of
`Strmap`, `Lexer` and `Parser`, which end: when the map is freed, the text is lexed,
the items are parsed. The other modules name their last states.

*machine.* The images are hand-assembled: each binary operator on operands of
every type, NULL included; calls with right and wrong arguments, recursion that
ends and that does not, captures, higher-order calls, globals, jumps; and broken
chunks that reach each undefined outcome. Ten slots and four frames are enough
for the stack and the frames to fill up from recursion, and for three frames
with operands pending below them; 4-bit integers wrap and have a most negative
value to divide by -1. The properties are stated for `Trusted` code, an
assumption `MCVM` asserts of its good images, so they are not vacuous, and do not
hold of the broken ones, which need the guard.

`ImplementsActivations` adds to the tiling of the frames what is in them: the
arguments are the first locals of the callee in their order, `get_local` and `set_local`
reach the slot that was meant, a closure holds what was on top, and the operands of
a caller come back as they were.

*compiler.* The trees are all operators over constants and a variable, ifs with
every shape of else nested in each other and at the end of functions, early
returns, calls, recursion through a global, and each kind of tree that fails or
is mishandled. `LastInstTracked` and `JumpsWait` are what makes back-patching
right: at any moment in the descent the last instruction is known, and the
positions the callers hold are still placeholders. Nesting deeper than two only
repeats what happens at two, since a scope remembers only two instructions.
`OnlyCapturesCrash` bounds what the freed symbols can do: a line that kills the compiler
has a node missing or a function that uses a variable of a function around it, which
its definition reads off the tree, without tables. Every other line, with functions in
functions and globals used in all of them, reads and frees nothing a second time.

*front.* The program as it is built, with a small buffer. `CompilerKeepsPromise`
joins compiler and machine: what the compiler makes of a plain tree is `Trusted`, so
the theorems about the machine apply to it, for whatever text the tree came from.
`TextMeans` compares the answer with the evaluator on the tree the text was written
from: it needs every stage to be right and each to hand the next what it expects.
`TextAnswered` is for every line, plain or not, failed compilations, NULL nodes and
items without an `eof` included. The buffer of 80 holds every text that is meant to
fit (`TextsFit`); lines that do not fit are made to end before it, at it and beyond
it, with a brace as the last character that fits, and a continuation line is cut off
by the end of the buffer and of the input. A brace is the last character of a text only
there or before a NUL, which some inputs have.

*session.* Four lines are enough for: define or add or free something, fail or do
something else, use it again, and answer. Constant indices, global indices and freed
objects are followed across the lines; one of them fails inside a nested function, and
two have an argument missing. `MeaningKept` says that a plain line answers what it
means at any place of a session: a constant written over, a table left too deep or an
object freed too early would show there, however long ago it happened.
`ArithmeticSurvives` says which lines cannot kill the program, after any others: nothing
static, nothing twice and nothing freed before is then left in the slots of the stack,
and no name is given back twice. `NoHoleDisposed` relates two recursions over one tree: disposing of a NULL argument,
which is not guarded, is left to lines whose compilation had failed before it.

*strmap.* The map is never balanced and a deletion does not replace the node but
adds its subtrees anew, so what can go wrong is a subtree that is lost, hung in
twice or on the wrong side. `OneTree` says that between operations the nodes are
one search tree without anything unreachable; `ReleasedOnce` that keys and values
go back once; `ImplementsMap` that a get, answered some steps later, answers what
the abstract map holds. Four hashes are the fewest for which the left subtree,
hung in again, is a chain that the right one is then added to.

*lexer.* No state function looks further than two characters ahead, so all texts of
three reach every pair of a state and what follows; numbers and strings, whose
functions read longer parts, have texts of five over their own characters.
`TextCovered` follows `start` and `pos` through all of `next`, `backup` and
`accept`: nothing is lost, nothing read twice. `ItemsRead` is longest match.
`EofLast` is what the parser relies on.

*parser.* `ParserEnds` is about texts nobody means: every item in
every position after the beginning of a function, a block, a call, at the end of
the input. `ParsedAsWritten` is about the others: `Grammar` writes the tree, the
parser must give it back. Three operators are enough to have one on either side
of another. Lines with a statement in parentheses after a semicolon are left out
(`Separated`), as they are read wrong: the run `semicolon`.

### Findings

Each of these runs checks one statement of the repository and finds it
violated; all were reproduced with the built program.

- `captures`: a variable of the enclosing function is compiled as a load of
  global 3 (swapped arguments), and compiling the enclosing function then uses
  freed memory. README shows such a function under "Recommended usage".
- `globals`: a global is lost at the end of the line; README's REPL session
  uses one on the next line.
- `statics`: answering `1 < 2` aborts, because `vm_dispose` frees `true_obj`.
- `constants`: `state.nconsts` about doubles on each line; in the run `U16` is 16
  and the sixth line loads the wrong constant, in the program it is the 18th.
- `semicolon`: `x = 1; (y = 2) - 1` is parsed as the call `(x = 1)(y = 2)` less 1: an
  assignment's right side skips the semicolon, and the loop around it goes on.

Other disagreements are plain from the code and have no run. The models do what the
code does in each, and the properties that would otherwise fail name the exception:
`new_function_obj` takes its last two parameters in the other order than its prototype,
so a function with a local variable cannot be called; `if 1 {}` underflows the stack
(both outside `PlainTree`); `/` is lexed as the item of `*` and `-+` as `--`
(`ItemsRead`); a newline is a space and does not end a statement; the lexer does not
return from a raw string (`LexerEnds`); `trim_right` trims nothing, so a block cannot be
continued on the next line as `accept_until` intends; the end of the input is read as
an empty line, which compiles to nothing and crashes in `print`, or makes `accept_until`
go round for ever; a line with a missing argument, `1; z(1, +)`, is answered and then
crashes in `dispose_call_node`; `x = 1; 1 + x; x` is answered and aborts, as `vm_dispose`
finds `x` in two slots.

## Fairness

`VM`, `Compiler`, `Repl`, `Lexer`, `Parser` and `Front` have weak fairness of the whole
step relation of the program (`vm_run`, `compile`, `Process`, `lexer_run`, `parse`,
`Program`): a
sequential program that can take a step takes one. In `Strmap` it is that of an
operation that was begun; whether the client asks for another one is its choice.
Reading the next line is not fair either, the user may wait; once a line is begun,
`Program` has its continuation lines, which are in the input from the start. Nothing stronger is
assumed.

## Proofs

Every theorem holds for every value of the constants that satisfies the `ASSUME` of
the module it is about. Each proof has the same shape: an invariant that is inductive,
one lemma for each action, and a temporal step that joins them. The properties of the
runs are mostly not inductive; what had to be added is what is worth reading.

**The machine** (`VMProofs`): for every `StackSize`, `MaxFrames`, `Int63`, operand width
and every set of images that satisfies `ImagesAssumption`.

- `TypeCorrect`: `VMSpec => []TypeOK`. The type invariant is inductive as it
  stands because the heap only grows: an address that was valid stays valid.
- `StackMapSound`: `VMSpec => []FramesTile /\ []NeverUnderflows`. Both are about
  code that is `Trusted`, which speaks of the whole heap and of the main closure, so
  a step may assume only `Trusted'`. But functions are never removed from the heap
  (`HeapGrows`) and the bottom frame keeps its closure (`BottomStays`), so `Trusted'`
  gives `Trusted` (`TrustKept`), and with it the frames tile the stack before the step
  (`Sound`). `FramesTile` says more than that frames do not overlap, which would not
  be inductive: the stack map of each frame is defined at its `ip`, its height is
  what the frame has on the stack, and a suspended frame has the callee's slot for
  its top operand. One step per handler then shows that the height of the current
  frame changes by what `StackMap` says, that a call starts a frame at height 0 where
  the caller's operands end, and that a return drops the frame and leaves the caller
  one entry higher than its slot. `NoCheckIsMissed` is its second half: no handler
  needs the check of `sp` or `ip` that it does not make.
- `CallersKeepTheirs`: `VMSpec => CallersUntouched`, from the same invariant: a
  handler writes at `sp - 1` or above less what it needs, or to a local below
  `num_locals`, and both lie in the current frame.

**Calls** (`VMProofs`): `MachineImplementsActivations` is
`VMSpec => ImplementsActivations`, the whole refinement. An activation is a piece of
the stack, from one frame's base to the next one's, so the proof needs `FramesTile`
to know where pieces end and `TypeOK` to know what is in them. There is one lemma per
kind of handler: the step maps to the step of `Activations` of the same name, or
leaves all of it unchanged.

**The compiler** (`CompilerProofs`): for every closed set of nodes (`NodesAssumption`)
and every operand width. `CompilerTyped`, `SlotsNeverShared`, `LastInstIsLast`,
`JumpsAreWaitedFor` and `EmittedCodeStands` are the properties of the run *compiler*
but for `OnlyCapturesCrash`, all from `CompilerInv == StateOK /\ TablesOK /\ ScopesOK /\ WorkOK`. None of
the five is inductive. That a placeholder is still there when its jump is patched
depends on what the calls in between will do, so `Waits` speaks of the call stack and
of the code at once: a call that holds a position goes on in the scope where that
position is its own jump with the placeholder, no two calls hold one position of one
scope, and an `op_pop` waits only behind a call that leaves an instruction other than
an `op_pop`. The last is what makes taking back a pop right; `ScopesOK` says of each
scope that `last_inst` is the end of its code and where `prev_inst` may be stale.

**The session** (`ReplProofs`): for any number of lines. `SessionInv` says what each
mode of the loop may rely on: `CompilerInv` while a line is compiled, the machine's
invariants while it runs and is disposed of, and in between only what `main` keeps.

- `SessionTyped`, `ConstantsKeepTheirPlace`, `GlobalsKeepTheirPlace`. The constants need
  that `DOMAIN consts` lies below the count `main` keeps (`CountedOK`), although
  that count is added to itself on each line; a failed line counts too.
- `LinesCompileAlike` and `LinesRunSafely`: the properties of the compiler and of the
  machine hold of every line, on the table, constants and globals earlier lines left.
- `HolesNeverDisposed`: `ReplSpec => []NoHoleDisposed`. It relates two recursions over one
  tree, the second of which begins when the first is long forgotten. The invariant is a
  set of nodes that the compiler has visited: as long as nothing failed, the parts of its
  nodes are in it or still to be compiled. When nothing is left to compile it is closed,
  dispose goes only to its nodes, and the compiler would have died of a NULL among them.
- `FreedIsForgotten`: `ReplSpec => []FreedStaysUnused`. The array of constants keeps
  pointing to objects that `vm_dispose` freed, so the invariant has to say why no line
  loads them. It does not follow the freed objects one by one (`FreshInv`): let `F` be
  whatever was there when the line began, but for the static objects. All that was freed
  is in `F`, and the line needs nothing of it: its constants are those from `state_nconsts`
  on, and its code, unfinished scopes and patched jumps included, loads only those
  (`LineOwns`); the machine starts it with an empty stack and no globals, and then reaches
  nothing of `F` by any instruction (`RunAvoids`). Objects that a line frees are in the `F`
  of the next. The property asks that `nconsts <= U16`: a constant's index is cut to the
  width of its operand, so behind that many a line loads the constants of earlier ones,
  which may be freed (the run `constants` gets there).

**The lexer** (`LexerProofs`): for every text over the characters told apart.
`LexerTyped`, `TextIsCovered` and `EofIsLast` follow from `LexerInv`: `Place` (`start`
and `pos` lie in the text in this order, and only at its end may the width that `backup`
takes off be 0) and `Taken` (each item lies before `start`, and
each character before it is in one item, blank or commented out). `lex_number` may back
up at the end over a character it should keep; that this never passes `start` is part
of the proof. `ReadAsWritten` (`ItemsRead`) takes `ReadInv` besides: every item so far is
read right, which nothing changes after `emit`, and the state function of an operator is
called with just its first character taken. That the operator is then the longest one is
a fact about the tables: each rule is `Good`, that is, takes the text of the operator it
emits and stops only at characters with which no literal goes on (`RulesGood`), `<<` and
`>>` having rules of their own.

**The parser** (`ParserProofs`): for any set of sequences of items that end in an eof
and whose literals `strtol` gives an integer (`ParserAssumption`).

- `ParserTyped`: `ParserSpec => []ParserTypeOK`.
- `TreesAreWhole`: what `parse` returns is a block of nodes made of nodes (`NodesOver`),
  where no block holds a NULL. It is `NodesAssumption` of the compiler for what the
  parser hands it. `ret` and what waits for it are untyped in C, and the invariant has
  to say what passes between them: of two neighbours on the call stack the
  lower one goes on with what the upper one returns (`Meets`), a block or anything but
  one; and every node held anywhere is of a set `N` that is closed under parts and
  grows with each node built (`Now`).

**The whole program** (`FrontProofs`): for any input and any size of the buffer.
`Lexer` and `Parser` are instances over parts of the state of `Front`, and so are
`LexerProofs` and `ParserProofs`: what is proved there is cited here, as `LP!` and `PP!`,
once the instances are shown to be the same (`SameLexer`, `SameParser`).

- `ProgramIsSession`: `FrontSpec => Session`, the refinement from characters to sessions.
  `Session` is `ReplSpec` without its fairness and with one more step, the end of the
  process while a line is read (`Refuse`: the lexer or the parser exits, or memory that is
  not set kills it). The theorems of the session are all proved of `Session`, of which
  `ReplSpec` is a special case, so they hold of the program: `InputsRunSafely` and
  `InputsKeepPromises` (constants, globals, missing nodes, freed objects).
- `FrontTyped`: `FrontSpec => []FrontTypeOK`. The invariant `FrontInv` says of each stage
  what the one before it hands over. While a continuation line is waited for there is a
  NUL at `filled` or behind it, which the newline that `accept_until` wrote over one did
  not take away unless the buffer is full; so `strlen` finds an end, and `fgets` writes
  before it. The text then is one of `Characters`, which is all `LexerInv` asks for, its
  items are those `ParserInv` asks for, and the tree is in every set closed under building
  nodes, so in `Trees`.
- `OnlyQuotesMislead`: `FrontSpec => []LostByQuote`.

They are proved from `Given`: that `Trees` is closed under building nodes, which makes the
sessions those of all trees (`FrontSpec` does not mention `Trees`); that `strtol` has an
integer for every string; and two facts about the strings of TLA+ that the provers do not
know, that some literals are strings and that strings joined are one. `InputsAssumption`,
which TLC evaluates, is that the inputs are sequences of characters.

**The string map** (`StrmapProofs`): for any hashes, values and number of nodes.
`StrmapTyped`, `KeysGivenBackOnce`, `TreeStaysOne` (`[]OneTree`) and `TreeImplementsMap`,
which is the refinement without its fairness: every step is a step of `StringMap` or
changes nothing of it. A tree is said to be one
without recursion (`Tree`): each link has a set `up[k]` of the links on its way from the
root, each node hangs from exactly one link, its hash sends a search along the way to
it, and of two ways one goes on where the other ends, or they part at a node. Between
operations the invariant is `Stands`: the nodes are one such tree. While a deletion
hangs the subtrees of its victim back in it is `Mends`: they are a forest, one tree
below the root and one below each link still to be hung, and the nodes of each know
their owner. Hanging a subtree in elsewhere keeps the search
order only because the hashes on its way agree on all of it; that is why `Mends` also
says on which side of the victim each node is, which no property mentions. `Falls` is
`strmap_free`. `Cut`, `Graft` and the lemmas about search stand on
their own and are used by all the operations.

### Model-checked only

- `RunEnds`, `TextAnswered`, `LexerEnds`, `ParserEnds` and the fairness in
  `ImplementsMap`: liveness is beyond the prover.
- `TextMeans`, `MeaningKept`, `ArithmeticSurvives`, `ParsedAsWritten`,
  `CompilerKeepsPromise` and `OnlyCapturesCrash`: they compare with a recursive
  reference or speak of plain trees, and `Language`, `Grammar`, `MCCompiler` and
  `MCRepl` are recursive.
- The inductive invariants of the map and of the parser are proved, and no run checks
  them themselves: they begin with `\E`, over ways, owners or sets of nodes, that TLC
  cannot enumerate. What follows from them the runs do check.

## Not modelled

What follows the buffer in memory; what becomes of items without an `eof`, beyond that
the process dies, exits or goes on for ever; `strtol`, a constant of `Parser` and `Front`
(the exit of `parse_integer` on `errno` is out of reach: an int begins with a digit, so
`strtol` fails only of numbers too large, and does not return 0 for them); the memory
that is lost when `strmap_set` meets a key it has, the old value and the new key, which
`ReleasedOnce` does not count;
the wording of `itype_str` and `print_item`; `fnv64a`; floats and
strings, which no expression evaluates to; builtins, lists, maps, modules and
concurrency, whose opcodes are unhandled; `compiler_add_inst`,
`compiler_replace_continue_operand`, `compiler_replace_break_operand`,
`read_operands` and `define_builtin`, which nothing calls; hash collisions of
names; the contents of memory that an overflow overwrites; recycling of freed
addresses.

## Plan

1. *(done)* `Code`, `Objects`, `StackMap`, `VM`, `VMProofs`; `SymbolTable`,
   `Tree`, `Compiler`; `Language`, `Repl`.
2. *(done)* `Strmap` and `StringMap`; `Item` and `Lexer`; `Parser` and `Grammar`.
3. *(done)* `Front`: `Lexer`, then `Parser`, then `Repl`, so that a line is a text;
   disposing of the tree.
4. *(done)* `Activations`: calls with private locals and operands, which `VM` on
   trusted code implements.
5. *(done)* Proofs of the refinements of the machine and of the string map, and of the
   invariants of the compiler, the session, the lexer and the parser.
6. *(done)* Proof that the program is a session of the trees its parser builds, and of
   `FrontTypeOK`, by instances of the proofs about the lexer and the parser.
7. *(done)* Proof that no line uses what was freed behind an earlier one.
8. *(done)* Proof that every item is read as written (`ItemsRead`).
