# A TLA+ verification project for the Lumen compiler

Lumen (`src/`) is a compiler: one process, one thread, a fixed pipeline of phases
that ends in a stack machine.  There is no concurrency and no persistence, so the
difficulty is not interleaving.  It is that **several components each rely on a
contract another one is supposed to establish, and nothing checks the contract at
run time**: the VM trusts the code generator's stack discipline, `lumenc exec`
trusts the verifier, lowering trusts the type checker and the type checker the resolver, the formatter
trusts the parser to undo it, the reader of an object file its counts,
every optimizer trusts one purity predicate, the MIR passes trust single assignment, the session trusts that no phase runs after an error.
The state spaces are those of programs: long sequences of legal instructions that
reach a state nobody wrote a test for.

## 1. Inventory

| component | source | state it keeps | operations | what makes it correct |
|---|---|---|---|---|
| bytecode | `backend/bytecode.rs` | a `Program`: chunks of `Op` | instruction effects | one effect per instruction, the same for verifier and VM |
| verifier | `backend/verify.rs` | `heights`, `work` per chunk | `verify`, `verify_chunk`, `push_edge`, `check_operands` | if it accepts, no execution underflows, misses a local, a constant or an instruction; it terminates |
| VM | `backend/vm.rs` | operand `stack`, call `frames`, array heap, `stdout`, step count | one per instruction, `enter`, `ret` | frames tile the stack; a callee never touches its caller's slots; every run ends |
| builtins | `backend/builtins.rs` | output buffer | `eval` | total over well-typed arguments |
| code generator | `backend/codegen.rs` | `code`, `consts`, stack of loop contexts | one per HIR node, backpatching | every expression nets +1, every statement 0; all jumps patched |
| peephole | `backend/peephole.rs` | the chunk rewritten in place | `thread_jumps`, `eliminate_push_pop` | same observable behaviour; targets remapped exactly; terminates |
| object format | `backend/object.rs` | - | `to_text`, `from_text` | exact inverses; a file that lost a part is not read as other code |
| disassembler | `backend/disasm.rs` | - | print | wording only |
| C backend | `backend/c.rs` | output text | one per HIR node | agrees with the VM on the scalar subset |
| HIR | `hir/mod.rs`, `hir/lower.rs` | locals, slot map | desugaring of `for`-each, `match`, `op=` | each operand evaluated once, in order; slots never shared |
| HIR optimizer | `opt/*.rs` | the tree rewritten in place | `inline`, `fold`, `dce`, to a bounded fixpoint | observable behaviour preserved, traps included |
| MIR builder | `mir/build.rs`, `mir/mod.rs` | blocks, registers, loop stack | one per HIR node | every block terminated; registers single-assignment |
| MIR passes | `mir/opt.rs` | the CFG rewritten in place | seven passes, to a bounded fixpoint | observable behaviour preserved |
| MIR interpreter | `mir/interp.rs` | registers, locals, output, steps | one per instruction | agrees with the VM |
| resolver | `sema/resolve.rs` | scope stack, side tables | `declare`, `lookup`, scopes | every use bound to the innermost visible definition |
| type checker | `sema/typeck.rs`, `sema/types.rs` | side tables, `loop_depth`, `cur_ret` | one per AST node | accepted programs do not go wrong; one mistake does not cascade |
| lexer | `lexer/*.rs` | cursor | scan a token | progress on every input; tokens are the longest match and tile the text |
| parser | `parser/mod.rs`, `parser/ast.rs` | position, `struct_ok`, ids | one per production, two recoveries | progress on every input; an error costs no other function or constant |
| formatter | `format.rs` | output text | one per form | what it writes is accepted again, as the same program |
| diagnostics | `diagnostics.rs`, `errors.rs`, `source.rs`, `span.rs` | the sink | emit, render | every error reported, in reading order |
| session, driver | `session.rs`, `main.rs` | artifacts, timings, diagnostics | `compile`, the CLI commands | no phase after an error; artifacts match the stage reached |
| printers, help | `explain.rs`, `suggest.rs`, `*/print.rs`, `mir/dot.rs` | - | print | wording only |

How they interact: `session::compile` calls the phases in order over a shared
diagnostics sink; `run` executes the generated program without verifying it;
`build` writes it as object text and `exec` reads object text, verifies and
executes.  MIR and C hang off the optimized HIR for `dump`.

Behaviours that are hard, by kind (each is a hazard of `PROJECT.json`, at its line):

- *long legal sequences*: heights of the stack over calls and joins; three optimizer
  passes each rewriting what the others left; jumps out of nested expressions;
- *ordering*: the verifier's worklist may visit a join by any path first; removing
  instructions shifts every later offset; inlining must keep arguments in order;
- *stale state*: shared arrays; slots reused for inlined parameters; names rebound while
  older uses still mean the older binding;
- *partial failure*: parsing and checking that go on after an error; an object file that lost a line; errors in one phase of a front-end that always runs to its end;
  output printed by a run that then fails;
- *boundaries*: integer width, division and remainder, the step budget, argument
  counts, exponents, string lengths;
- *termination*: the lexer, the parser's recovery, the worklist, the two rewriting loops, runaway programs.

## 2. Modules

```
Builtins <- Bytecode <- Verifier              (verify.rs)
                 ^  <- Runtime <- VM          (builtins.rs, vm.rs)
                 |               ^  INSTANCE Verifier
                 |               Exec         (main.rs: lumenc exec)
   Bytecode <- Peephole, Object   ^           (peephole.rs, object.rs)
         Exec, Peephole, Object <- Session    (session.rs, main.rs)
   Hir <- Codegen, Optimizer                  (codegen.rs, opt/)
   Hir, Runtime <- HirSemantics
   Session, Codegen, Optimizer, HirSemantics <- MCSession

   Verdict <- Judgement -> Verifier         (what verify promises, and that it keeps it)

   Ast <- Resolver <- Typeck <- Lowering   (parser/ast.rs, sema/, hir/lower.rs)
   Ast, HirSemantics <- Source
   Lowering, Source <- FrontEnd            (session.rs)
   Ast <- Lexer <- Parser, Formatter <- Syntax   (lexer/, parser/mod.rs, format.rs)

   Runtime <- Mir <- MirOpt, MirInterp     (mir/opt.rs, mir/interp.rs)
   MirOpt, MirInterp <- Engines
   Hir, Mir <- MirBuild                    (mir/build.rs)
   Engines, MirBuild, Optimizer, HirSemantics <- MCMir

RuntimeProofs                              induction without an operator parameter, and the
                                           operators of Runtime, which both machines share
VerifierProofs                             proofs about Verifier and Judgement
VMProofs <- ExecProofs                     about VM and Exec
PeepholeProofs, ObjectProofs <- SessionProofs   about the two passes, and the session
MirProofs                                  about MirOpt and MirInterp, in Engines
MCVerifier, MCExec, MCSession, MCMir, MCFront, MCSyntax,
MCPrograms, MCFloats                                          programs and floats for TLC
```

The state of the real program is Rust values and the control points of loops; every
loop that can go wrong is a step relation, every pure tree walk an operator.

**Builtins, Bytecode** (`backend/bytecode.rs`, the `Builtin` table of `sema/types.rs`).
Data and effects of instructions, `OperandError` (the checks of
`check_operands`), and the abstract specification of the verifier: a *typing* of a
function gives every reachable instruction a height, `IsTyping` says that it is
consistent. It mentions no worklist. All binary instructions with the same effect
are one set; operands are one field `n`, except calls, which also have `argc`.

**Verifier** (`backend/verify.rs`). `verify` as a state machine: `CheckEntry`; per function
`StartChunk`, `SkipEmptyChunk` or `FinishChunk`; per instruction taken off the
worklist one of `VisitUnderflow`, `VisitBadOperand`, `VisitReturn`, `VisitJump`,
`VisitBranch`, `VisitPlain`, each with the range and merge checks of `push_edge` in
code order (a branch checks its target first, and its fall-through sees what the
target's edge wrote). `typings` is a history variable: the heights of the functions
that passed, which the code discards.

**Verdict, Judgement.** `Verdict` is the abstract specification of `verify`: of the program it is
given it says once whether it is typable. `Judgement` says what typable means (every function with code has
some typing, of whatever heights) and maps the verifier's state to it: no answer while it walks, then
"ok", or "rejected" for every `VerifyError`. `DecidesTypability` is that the worklist
implements the abstract decision, every step of the walk being a stutter but the last.

**Runtime, VM** (`backend/builtins.rs`, `backend/vm.rs`). `Runtime` has the values and every operation that
needs no machine state. `VM` is `execute`: `Start` enters main, then one action per
family of instructions is a full turn of the loop: the step count, the fetch with its
error, the increment of `ip`, the pops in code order with their kind checks, the
effect. The stack is one sequence for all frames, exactly as in the code; a frame is
`[func, ip, base]`. Stack truncation on return, reservation of locals on entry and the
argument-count subtraction are written as the code writes them, since these lines
are where an off-by-one would hide. Arrays live in a heap and are values by address;
structs are arrays. Native aborts are modelled where the code has them: `str::repeat`
past the allocator's limit, and recursion of `value_eq` into an array that contains itself
(`ValueEq` follows the code's left-to-right order, so a difference met before the cycle
returns).

**Exec** (`main.rs`, `exec_object`). Load, verify, run, report, with the exit codes; it
composes `VM` and `Verifier` over one `program`.

**Ast** (`parser/ast.rs`). Trees as records `[kind, x, n, ann, tags, kids]`. The code numbers the nodes and
keys its side tables by the numbers; here a node is identified by its path from its
item, so that a path also says where a name stands.
**Resolver** (`sema/resolve.rs`) threads `[scopes, uses, locals, errs]` through the walk,
**Typeck** (`sema/typeck.rs`, `sema/types.rs`) the side tables, the diagnostics, the result type and the loop
depth, **Lowering** (`hir/lower.rs`) the number of slots and their map. Each has one operator per kind of
node, in the order in which the code visits the children; diagnostics are kept as their
codes. `holes` in Lowering notes that a fallback stood in for something that was not found.
**Source** is not code of the repository: the meaning of a source program, from
`docs/LANGUAGE.md`, by names, without types, slots and side tables. Whatever the language gives
no meaning to (operands of the wrong kind, a missing field or arm, a store to what is not
mutable, a name without a binding) ends in "wrong".

**Lexer** (`lexer/mod.rs`, `lexer/token.rs`). A character is `[c, x, n]`: its class and what the scanner looks at.
Letters that nothing looks into come as one word, a string's contents as a member of `Texts`.
**Parser** (`parser/mod.rs`) threads `[toks, pos, struct_ok, failed, vals, errs]`, one operator per production: where
the code returns early with `?` the state is `failed`, and every later step of that
production is skipped, as are the restorations the code would skip. `RecoverInBlock` and
`RecoverToItem` are the two recoveries. **Formatter** (`format.rs`) gives each form the text it writes, layout
reduced to single blanks, as characters, so that the lexer reads it again.
**Syntax** composes them as `lumenc fmt` does: lex, parse, format; then the output is lexed and parsed
in a second round, which the code leaves to its user.

**FrontEnd** (`session.rs`). Resolver, checker and lowering as `Session::compile` runs them: a step is one turn of
one of their loops over items, constants or functions. The checker also runs after
errors of the resolver and of the parser (`malformed`); lowering only without any.

**Hir** (`hir/mod.rs`). Trees as records `[kind, ty, n, x, kids]`, the children in the order of the Rust
fields. **HirSemantics** is not code of the repository: it is a reference definition
of what a program means, written from `docs/LANGUAGE.md`, with no stack and no jump. It also
says when a run agrees with a meaning: `SameOutcome`, and `Preserves` for optimized runs.
**Codegen** (`backend/codegen.rs`) threads a function compiler `[code, consts, loops]` through one operator
per node, with placeholders patched as the code patches them. **Optimizer** (`opt/`): `Fold`, `Dce`,
`Inline` as they walk the tree, and `Round`, one iteration of `optimize`. **Object** (`backend/object.rs`): `ToText` and `FromText` over lines `[word, name, nums, str]`; strings are quoted
and unquoted byte by byte, since their quotes, backslashes and line ends are what can go wrong.
`Damaged` is the fault model: a file cut off, or with a line lost or doubled. **Peephole** (`backend/peephole.rs`):
`ThreadJumps` and `EliminatePushPop` on one function, and `PeepholeTurn`, one iteration
of its loop.

**Session** (`session.rs`, `main.rs`). `Session::compile` with a step per phase and per iteration of a loop
(optimizer rounds, peephole turns), its stop points, its error gate and the
artifacts it leaves, then the driver: every command on a source file, the artifact it
looks for, the verifier for `dump verify`, the machine for `run`. A front-end phase is
abstracted to "may report an error"; `Lower` yields some program of `Corpus` and
records its meaning in a history variable. The three functions that work on trees, the meaning, a round of the
optimizer and the code generator, are parameters (`MeaningOf`, `RoundOf`, `CodeOf`): they
recurse over trees, and so are out of the prover's reach. `MCSession` gives them the
operators of `HirSemantics`, `Optimizer` and `Codegen`; the theorems hold for any others too.

**Mir** (`mir/mod.rs`). Functions as graphs of blocks, instructions as `[kind, dst, op, n, args]`, and
the operators on values that the interpreter and the constant folder both implement; `Graphs(O, N)` is
their shape over a set of operands and what they may name, `IsFunction` that a function has it.
**MirBuild** (`mir/build.rs`) threads the builder `[locals, regs, blocks, cur, loops, out]`
through one operator per HIR node. Block numbers are the code's (all blocks of a loop are
created when it is entered), and a `break` leaves the builder in a block nothing jumps
to, as in the code. **MirOpt** (`mir/opt.rs`) has one operator per pass and `MirTurn`, the seven in
order; none is recursive. `Quiet` is the code's "no pass counted a change".
**MirInterp** (`mir/interp.rs`) has one action per instruction and terminator; `EnterBlock` is the
turn the step limit counts. A call in the program is a call of the Rust function
`Interp::call`, so `frames` is the native stack and `MaxDepth` its end. `assigned` in a frame is history:
the registers this call has assigned, which the code cannot tell from those that still hold their first Unit.

**Engines** is the path from HIR through all of these: rounds of the HIR optimizer or
none, `BuildMir`, one turn of the passes over one function per step or none, and the run.
The repository's tests compare this engine with the VM on sample programs; here both
are compared with one meaning over one corpus, which is the stronger claim and says which one is wrong.
As in `Session`, the functions on trees are parameters (`BuildOf` is the builder), which `MCMir` fills in.
No command of `lumenc` runs the interpreter (`dump mir` builds and optimizes, the tests
interpret), so `Engines` starts where the tests do.

## 3. Runs

| run | what it asks | states |
|---|---|---|
| `verifier` | does `verify` accept exactly the typable programs, in linear time? | 30 320 |
| `exec` | does a verified program run without a structural fault, on exact heights, sparing its callers, and does `lumenc exec` end with a telling exit code? | 113 856 |
| `compile` | does the compiler, with and without its optimizers, emit code that verifies and does what the program means, and an object file that is read back as it; does anything run after an error, does each command find its artifact, does lumenc end? | 525 529 |
| `mir` | does the second engine, with and without the HIR and MIR optimizers, keep its graphs well-formed and do what the program means? | 153 096 |
| `front` | does the front end bind names lexically, report a mistake once, accept only what does not go wrong, and lower it to a tree that means the same? | 74 416 |
| `syntax` | are tokens the longest match, does an error cost only its item, and is a formatted program the same program? | 751 000 |

What the properties say, and why they are not obvious:

- `Sound`, `DecidesTypability`: the verdict does not depend on the order the worklist takes.
  Soundness needs `WalkInv` (settled instructions are locally typed, the worklist
  holds known heights, no instruction twice). `DecidesTypability`, the refinement, is soundness,
  completeness and that there is one answer; TLC compares with every
  assignment of heights up to `MaxHeight`, the proof with every assignment.
- `VerifiedRunsSafely`, `VerifiedDiscipline`, `VerifiedHeightIsExact`, `VerifiedCallersUntouched`:
  the machine does not check frames, so they relate the two components. `VerifiedDiscipline` is an
  inequality because nothing forces a function to count its parameters among its locals
  (an object file may say otherwise, and the sample `Uncounted` does); under
  `ParamsAreLocals`, which generated code satisfies, the height is exact. The first three leave out
  programs with a function without code, which `verify` accepts; what these do is the subject of the
  run `empty_code` (section 4).
- `OptimizerPreserves`: after every round the tree still means what it meant when
  it was lowered. For a program that finishes, outcome and output are equal. For one
  that traps, the output before the trap is a prefix: the optimizer does drop traps
  (see findings), and this says precisely how far that may go.
- `CompiledMeansTheSame`: output and outcome of the machine against the meaning;
  exact without the optimizer.
- `EmittedVerifies`, and in `CompiledMeansTheSame` that no structural or kind error ends a run: contracts
  nobody checks when `run` executes what was
  just generated. `EmittedVerifies` is also the property of a violation run, on one
  kind of program that breaks it; the corpus of `compile` does not have that kind. Nor has it the
  other two: an exponent that is negative or beyond `MaxExp` (`pow_int(2, -1)` is well typed and ends in `VmError::Internal`,
  `builtins.rs:38`, although `vm.rs:39` reserves that for compiler bugs), and a call of 256 arguments, whose
  count is narrowed to 0 (`codegen.rs:348`), so that what is emitted does not verify and runs on the
  wrong operands. The corpus has a call of `MaxArgc` arguments, the most an instruction counts.
- `ObjectFilesTell`: what `build` writes `exec` reads as the same program. Of a damaged file it reads
  nothing, or a prefix of whole functions as they were, never code shifted into another function. The format
  has no number of functions, so a file cut between two of them is read without complaint; `exec` then
  relies on the verifier. Damage inside a line is out of scope: a number that lost a digit is
  another number, and nothing in the format could tell.
- `NothingAfterErrors`, `DriverFindsItsArtifact`: the session and the driver
  each decide from the stage; the two decisions must agree for all 13 commands and
  forms, optimizing or not.
- `MirWellFormed`, after the builder and after every turn of the passes: no block keeps the
  placeholder terminator, targets are blocks of the function however they were
  renumbered, a register is assigned once, and its assignment dominates every read.
  The passes rely on all four and check none. Dominance is a statement about the graph; the last conjunct,
  `ReadsAssignedOnly`, says what it is for: whichever way a run takes, through loops and nested calls, an instruction reads
  registers that this call has assigned. The header of `build.rs` (line 15) promises
  more, that values cross blocks only in locals; this is not so for
  `x + if c { 1 } else { 2 }`, whose left operand crosses in a register, so dominance is
  the property that holds and that the passes need.
- `EnginesTypeOK` is more than types: constants stay in the width through every rewrite, every
  register, local, element and printed value does in every run, and no reference points outside the heap.
- `MirMeansTheSame`: as for the VM, on three levels: no optimizer (equal outcome and
  output), the MIR passes, the HIR optimizer and the MIR passes (`Preserves`); and no internal error.
- `RewritesHold` says of the optimizer's single rewrites what `MirMeansTheSame` says of the whole: at whatever instruction a run
  stands, in a loop or a nested call, what a pass would put in its place has the value that is about to be computed. For `copy_propagation` that the copy still holds what its
  source holds, for `const_fold` and `algebraic_simplify` that the operation gives the constant or operand (unless its operands have
  kinds it does not take), for `local_cse` that the register of the first such instruction has the result. The three places where the code is wrong about it are spelled out in the
  definition and left out: `x - x` of a float, arrays compared before and after one was changed, and constants that are equal but not the
  same (section 4 has all three).
- `UsesAreLexical`: what the walk with its stack of scopes binds, against a definition without scopes,
  by comparing the paths of a name and of the bindings that could be meant.
- `ErrorsMatchMistakes`: a program without mistakes has no diagnostic; the same program with one
  expression replaced by an unbound name, or one written type by an unknown one, has exactly
  one, wherever it is; with a type the parser already complained about, none. This is what the
  error type is for. Two places are left out because the promise does not hold there: in an
  operand of a constant's initialiser (`const A: bool = nowhere == 1` also gets NotConstant, since
  a comparison is of type bool whatever its operands), and as the return type of main, which also
  gets BadMain; a name that replaces an expression that returns may add MissingReturn.
- `AcceptedDoNotGoWrong`: type soundness against a semantics that knows no types. The checks of types, of
  mutability, of loops around a jump, of exhaustive matches and of missing returns all
  serve this one property, and dropping one of them breaks it.
- `LoweringMeansTheSame`, `NoPlaceholders`: the tree against the source, output and outcome. With
  `OptimizerPreserves`, `CompiledMeansTheSame` and `MirMeansTheSame` it ties both engines to the source. It
  also found what the language leaves open: the fields of a struct literal are evaluated in
  the order of the declaration, not of the literal (`lower.rs:389`), which no text mentions, and
  `Source` follows.
- `TokensAreTheText`: against a definition without a cursor: each token is spelled as its kind says
  and could not be longer, and between tokens there are only blanks and closed comments.
- `ItemsStandAlone`: with one item damaged at any token (a token lost, replaced or added), the functions and constants around it are
  parsed as if nothing had happened. Two limits of the code are left out. Structs: `recover_to_item` (949) stops at `fn` and
  `const` only, so a struct after an error is lost, although `parser/mod.rs:17-18` speaks of the next
  item. And damage that hides the next item from any parser: an unclosed brace,
  comment or string.
- `AlwaysForward`: every turn of the lexer's and the parser's loops takes something; the parser needs the
  guard at 208 for it, since recovery may stop at the token that could not be parsed.
- `RoundTrips`, `FormattingOnlyTidies`: the formatted text is accepted, is the same tree and loses no token but
  parentheses, commas and semicolons, for every pair of forms in the place of an operand, a condition, a bound, a base.
  `IsLossy` lists, form by form, what the formatter is known to write wrongly: a tuple of one element
  (written as a grouping); an access to a nested tuple or to an integer; a call or access
  whose base is a unary expression; an assignment as an operand, a callee, a base or a target,
  all written without parentheses; a struct literal in a condition, scrutinee or bound that needed
  parentheses; and control characters in strings, written with Rust's `\u{..}`, which Lumen does not
  read. An infinite float literal is written as `inf`; the model's floats are finite.
- `Finishes`, `Terminates`, `SessionFinishes`, `EngineStops`: see fairness.

**Bounds, and why they are enough.**
`verifier`: every code of up to 3 instructions over pushes, pops, an addition, returns and
both jumps to every offset including one out of range, and of 4 without `Jump` and the
addition. Joins with different heights, self-loops, back edges, a branch whose two successors
coincide, and unreachable code all occur within 3. Operand checks are local to an
instruction, so pairs of instructions in a function with one of three callees reach each.
`exec`: the same exhaustive idea at 3 instructions with a callee that has an argument and a
local, and hand-written programs for every other instruction and error. `MaxSteps` is 60:
each terminating hand-written program finishes below it; the looping ones exceed it.
`compile`: every command and form, with and without errors in each phase, and about 2300 programs: every operator on every pair of seven operands (constants at the
boundaries, a local, a call that prints, an inlined call, an inlined call that may
trap), read or unread; every nesting of two operators over four operands; conditions with
short circuits; loops with each kind of jump at different turns, nested; match chains;
early returns; recursion; inlining into inlined code and of mutually recursive
functions; aliased arrays and structs; strings; powers; nothing at all. `Fuel` (40 loop turns and calls) and `MaxSteps` (300)
exceed what each terminating program takes; a program out of fuel is not compared.
Integers are 8 bits wide (`Half` = 128), so that overflow occurs. `MaxBytes` (16) stands for the
allocator's limit and `MaxExp` (15) for `u32::MAX`. `MaxIterations` is the code's own 8.
`mir`: the same programs (`MCPrograms`), those whose operands jump (nothing is left on a
stack here), and programs about registers that outlive a store, operands in different
blocks, elements that change between equal expressions, empty blocks and loops, a branch whose arms come to
coincide, a sum that takes all eight turns, and recursion without end. `MirSteps` (120 blocks) and `MaxDepth` (12 calls) exceed what each terminating
program takes; `Fuel` is 20. `interp.rs:28` says that the step budget stops runaway
programs; endless recursion enters a block per call and the native stack ends long before
the 50 000 000th, and `MaxDepth` < `MirSteps` keeps that order.
`front`: 13 programs without mistakes that use every kind of item, statement and
expression, with shadowing by every kind of binding; each of them with one mistake at
every place; and about 4000 programs with one form (operator, call, store, literal, branch,
match, loop, return, item) over a variable of every type, a constant, a literal, a function, a builtin and
an unbound name, most of them ill-typed. The checker types a node from the types of its
children, so one form over every type of operand meets each of its rules; what goes wrong across nodes
(scopes, slots, joins of branches) is in the first group.
`syntax`: libraries of three items, the middle one damaged at every token in each of twelve ways; 27 atoms in
pairs under the operators that differ in precedence and associativity, nested in both ways, as bases, and in every place an
expression stands; every pair of statements with comments between; and every text of three characters of
those that scanning is about, with four after an opening slash or quote. A parser looks one token ahead (two for a struct literal or an
empty parenthesis), so pairs meet its decisions. `MaxInt` (99) stands for `i64::MAX`.
`MaxArgc` (7) stands for `u8::MAX` wherever programs are compiled or verified; no program but the one meant for
it has a call of more than three arguments.
Floats (`MCFloats`) are six values with the laws that matter here: NaN differs from itself and
absorbs, one infinity. There is no -0.0: nothing here says anything about the sign
of zero, about rounding, or about reassociation.

**Fairness.** The compiler is one sequential process: it takes its next step as long as it has
one. So the specifications assume weak fairness of their whole next-state relation and
nothing else. `Session` writes the enabling condition of that fairness out
(`phase # "exited"`), which deadlock checking confirms, and names what every step before the exit changes
(`Position`); evaluating `ENABLED` there would recompute a compilation. Termination then has to come from the code: the
worklist that takes an instruction once, the step budget, the bounded rounds, a
peephole turn that removes something or is the last. `Engines` spells its fairness
out in the same way: until the run has ended, a step that moves the position of the engine
keeps coming. `EngineStops` then rests on the bounded turns, the counted blocks and the depth of calls.

## 4. What disagrees with the documentation

Each is a violation run with its counterexample, and an entry under `findings`.

| run | the code | the text |
|---|---|---|
| `jump_out_of_operand` | `1 + { break; 2 }` leaves the 1 on the stack and is rejected by the verifier | verify/tests.rs:3 "every program the compiler itself emits must verify" |
| `lost_trap` | an unread division by zero is removed with its trap | DESIGN.md:113 "optimized and unoptimized builds always produce identical results" |
| `mir_stale_equality` | `local_cse` reuses `a == b` of two arrays across `a[0] = 2` | mir/opt.rs:545 "registers are single-assignment ... guaranteed still valid" |
| `forward_constant` | `const A: i64 = B; const B: i64 = 1;` is accepted and A is 0 | typeck.rs:256 "A constant may reference only constants declared before it" |
| `empty_code` | `verify` skips a function without code (249) and accepts a call of it; the machine runs past its end and fails with `VmError::Internal` | verify.rs:25 "Control never runs past the last instruction; every path ends at a `return`" |
| `format_reparse` | `(t.0).1` is formatted as `t.0.1`, which lexes as `t`, `.`, `0.1` and is rejected | format.rs:5 "the formatter emits **valid, re-parseable Lumen code**" |

Remarks that have no run of their own. `mir/opt.rs` says that it runs "to a fixpoint" (4, 54), and it does not
have to arrive at one, for two reasons. `simplify_cfg` counts only the blocks it removes: in `while x < 9 { break; }` the second turn
collapses the branch whose arms coincide, counts nothing, and is the last, so the comparison that nothing
reads any more stays, which `dead_code` would delete in another turn. And there are eight turns at most, each of which folds one
addition of `1 + 2 + ... + 11`, so that two are left. Nothing a program does depends on it, and no property of the runs claims it; both programs are in the
corpus of `mir`, whose other properties hold of them.
Further: MIR's `simplify_binary` turns `x - x` into the integer 0, also when x is a float, although
`mir/opt.rs:182` says "Only integer rules are applied" (the corpus of `mir` has no such difference);
`local_cse` compares constants with `==` of floats (`mir/opt.rs:602`), which takes `x / 0.0` and `x / -0.0` for one expression (the
floats of the model have one zero);
recovery stops at `fn` and `const` but not at `struct`; `scan_escape` (`lexer/mod.rs:322`) keeps the character after an unknown backslash and drops
the backslash, where the comment at 294 says "the backslash sequence is kept verbatim"; the grammar in the docs has one level for comparisons, the parser
puts `==` and `!=` below `<`; a `match` standing as a statement is not block-like (ast.rs:407) and needs its semicolon;
nothing bounds the depth of the parser's recursion; `str_repeat` with a large count panics (`builtins.rs:86`) in a machine
that "never panics" (`vm.rs:16`); `x * 0.0` folds to `0.0` (`fold.rs:195`), also when x is NaN, though each
rewrite is called value-preserving (`fold.rs:4`); `s += "x"` is rejected (`typeck.rs:994`) although
`s = s + "x"` is not and `docs/LANGUAGE.md` says that the compound forms desugar to
plain assignment; `session.rs:67` says an artifact is present iff its stage was
reached, but tokens are kept only when the pipeline stops right after lexing
(`session.rs:147`); and the two headers of `mir/` discussed above.

## 5. Proofs

All of section 5 holds for every program, step budget, width of integers, table of floats,
byte limit and count of arguments that satisfies the named assumptions. `ProgramsAssumption` says that
programs have the shape of the container and, for the machine, that literals fit an i64 or
are one of the floats; `HalfAssumption` that integers have two bits at least; `F64Assumption` that
the operations on floats yield floats and booleans where they should; the others
type the numeric constants. None of them says that a program is well behaved.

*Recursion.* The library's induction theorems take a predicate as a parameter, which no prover
here can instantiate. The least-number principle for *sets* needs none, and `RecursionExists`
derives from it that a loop that goes on with one smaller argument defines a function. On it rest
all lemmas about what the recursive functions of `Object`, `Peephole` and `Runtime` return. Those about `Runtime`
(*RuntimeProofs*: division and wrap-around, powers, comparison, one lemma per builtin) serve the proofs of both machines.

*VerifierProofs.* The inductive invariant is `Inv == TypeOK /\ WalkInv`. `Sound` alone
is not inductive: the walk passes through states where an instruction's height is
known but its successors are not, so `WalkInv` says that exactly the instructions not
on the worklist are locally typed. `FollowEdgeLemma` is the heart: an edge
that passes `push_edge` keeps the settled instructions settled. From it: `TypesHold`, `WalkHolds`,
`VerifierIsSound`, `InstructionsProcessedOnce`. `VerifierIsComplete` carries a second
invariant: heights agree with *every* typing the function has, of any height, so a
rejection contradicts each. `VerifierDecides` is the refinement: `Spec` implements `Verdict!Safety` under
the mapping of `Judgement`. `StepLemma` gives what a step may do to the verdict; an "ok" comes from
soundness with the recorded typings as witnesses, a rejection from completeness, or from an entry
point that is out of range. It assumes `Heights = Nat`, all heights a typing could give.

*VMProofs.* `Discipline(T)`, for a table of typings T, is inductive for the machine together with the
types of its state: the frames tile the stack, each suspended frame sits behind
its call with the result counted, the active one has the operands its typing promises, and no fewer
or, where parameters are locals, exactly as many as it promises. One
lemma per family of instructions; entry and return are the two where
frames move. A function without code has a typing and no first instruction; a machine that has
entered one is `Stuck`, and the invariant says that its next step is the failing fetch. So
`TypedProgramsRunSafely` covers programs that have such functions, given typings from anywhere.

Its second half is `MachineTypesHold`, for *any* program, verified or not: integers keep their width, floats are
among the floats, references point into the heap, frames run functions of the program. It rests on the
lemmas of `RuntimeProofs`.

*ExecProofs.* `ExecInv` ties the two: while the verifier walks, its invariant; once it
accepted, soundness gives the typing that `Discipline` needs. So
`VerifiedProgramsRunSafely`, `VerifiedProgramsKeepDiscipline`, `VerifiedHeightsAreExact`, `VerifiedProgramsSpareCallers`.
The first two leave out programs with a function without code, and
`VerifiedProgramsFailInEmptyCodeOnly` says that this is the one way past the verifier: the fetch in
such a function is the only structural error a verified program reports. The last holds for these programs too.
`ExecTypesHold` adds `ExecTypeInv` for the control of the process; `ExitCodesTell` is a conjunct of `ExecInv`.

*PeepholeProofs.* `PeepholeKeepsTypings`: a turn over one function of a well-formed, typed program leaves a
well-formed, typed program. The typing of the new code is read off the old one: `ThreadJumps` keeps
it, since a jump and what it threads to expect the same height (`ThreadLemma`); removing the pairs renumbers, and
`NewIndexLemma` and `OldLemma` say that the renumbering is monotone and arrives at the next
instruction that survived, whose height is the same, a pair being neutral. Nothing the pass
produces is new but the target of a jump, and no function loses all of its code.

*ObjectProofs.* `ObjectFilesRoundTrip`: every program as Rust's types have it (`IsObject`) is read back exactly, whatever the bytes
of its strings; unquoting undoes quoting by induction on what is left of the text, since an escape
is never cut. `DamageIsNoticed`: of a file that lost its end, lost a line or has one twice, nothing is read, or the
first functions as they were. The argument follows the first line that differs into the function it stands
in, whose counts then no longer meet its lines. It needs `HasCode`: the one line of a function
without constants and code can vanish unnoticed. Programs of the compiler have code in every function (see next).

*SessionProofs.* `PipelineInv` relates the phase, the errors and the artifacts of each stage; it gives
`ErrorsStopThePipeline` and `ArtifactsAreFound` whatever the phases compute, with no hypothesis. The
other theorems are about what is compiled, and say so: for a set of trees that holds the corpus and that the
optimizer stays in, if the code generator gives each tree a program that has a typing, literals in range, only
instructions and some code in each function (`Emits(Trees)`), then any number of turns of the peephole
pass and any order of the worklist later the verifier accepts it (`TypedCodeVerifies`, by `EmitInv`, from
`PeepholeKeepsTypings` and `VerifierIsComplete`); the machine that `run` starts without verifying meets no
structural error and spares its callers (`CompiledProgramsRunSafely`, by `MachineInv`); the state keeps its types
(`SessionTypesHold`, by `CountersInv`); and the file that `build` leaves tells (`BuiltFilesTell`, by `BuiltInv`). That the hypothesis is
not empty is what the run `compile` shows: its corpus of programs is accepted, so each has a
typing by `VerifierIsSound`. That it is needed is what `jump_out_of_operand` shows: on those trees the real code generator
does not satisfy it, and what `TypedCodeVerifies` concludes is false.

*MirProofs.* `PassesKeepMirWellFormed`, of the graphs: for any set of trees that holds the corpus and that the HIR optimizer stays in, if
the builder gives each tree functions that have the shape of `mir/mod.rs` and are well formed (`EmitsMir(Trees)`), then
every function is well formed after every turn of the seven passes, however many there are and
whatever the operators compute. One lemma per pass (`ConstFoldKeeps` to `RemoveUnreachableKeeps`). Dominance is the hard
conjunct, and is a statement about a recursive function, the walk that avoids a block. It is used in one form only: that
walk is the *least* set that holds the entry and that only jumps into the avoided block leave (`FromCovers`, by counting
the blocks that are left, and `LeastCover`). So a pass that moves no block keeps dominance if its jumps let no walk get
further: folding or collapsing a branch removes jumps, threading takes two at once (`NoFurtherLemma`, `PassLemma`). Copying
and common subexpressions read another register than before, whose assignment dominates the one that was
read (`DominatesTransitively`); `CopiesLemma` and `SeenLemma` carry this through the tables that the code fills while it walks.
Dropping instructions shifts positions and keeps their order (`DropLemma`), and needs that no definition that
is read is dropped; removing blocks renumbers all, and walks map to walks (`RenumberLemma`). That the real builder
satisfies `EmitsMir` on its corpus is what the run `mir` checks: `MirWellFormed` in the states that `BuildMir` leads to, and the shape
in `EnginesTypeOK`.

Its second part is about the interpreter that such functions reach, and proves under the same hypothesis
`ReadsAssignedOnly` (the other conjunct of `MirWellFormed`), `EnginesTypesHold` and `MirStructureHolds`. The
invariant (`EnginesInv`, of a run `RunOK`) says of every call on the native stack, not only of the one that runs, that it
stands at an instruction of its function, a waiting caller at the call it waits for; that it has all registers and locals the
function counts, with values that refer into the heap; and that it has assigned whatever is assigned on *every* way to where it
stands (`Knows`). The last is why dominance is not enough as it stands: it speaks of the walk from the entry, a run
of the way it took. `Knows` closes the gap: an assignment that dominates the end of a block dominates the start of
each block it may jump to, unless it is the block of the assignment itself, and then its position comes
after. Registers are only ever added to `assigned`, so a return finds the caller's as the call left them. From all of it
follows that no function, local, register or block is missing when it is asked for (`MirStructureErrors`), which is
half of what `MirMeansTheSame` says of internal errors. The other half are operands of the wrong kind, which `mir` knows nothing about: MIR has no types.

Its third part is `MirRewritesHold`, that what the passes replace has the value of what they put there. A rewrite is decided
by looking at the graph, and is right or wrong of the values in a run, so the invariant relates the two: of every call on the
stack, the copies made on *every* way to where it stands still equal their source (`CopiesHold`), and the instructions
that `local_cse` would remember here would give what their registers hold (`SeenHolds`). Both survive an assignment for one reason, the one
the comment at `mir/opt.rs:545` appeals to: an instruction on every way to a position does not read the register that is assigned there, or that assignment would
dominate itself (`ReadsOthers`, from well-formedness). It is not enough for `Load`, whose local a `Store` changes (`SeenStored`, where
`Forget` is needed), nor for `==` of arrays, which `Computed` leaves out. `SeenHolds` ends with its block; `CopiesHold` goes round loops, where a definition is
dominated again by its own block's start only if it comes after (`FollowsJump`). That the table
of `copy_propagation`, with its chains of copies, says nothing else is `Tracks`, a conjunct of the invariant of `CopiesLemma`.
`WellFormedMirRunsSafely` states the second and the third part with no hypothesis on the builder, of the interpreter alone and any
program of well-formed functions. What is not proved is the step from single rewrites to whole programs, a simulation of the run
before a pass by the one after it; dropping stores and unused instructions is not covered either, as it replaces no value.

What is only model-checked, and why:

- liveness (`Finishes`, `Terminates`, `SessionFinishes`, `EngineStops`): the prover has no fairness;
- that the code generator satisfies `Emits` and the builder `EmitsMir`; the preservation of meaning (`OptimizerPreserves`, `CompiledMeansTheSame`,
  `LoweringMeansTheSame`, `MirMeansTheSame`) and all of `FrontEnd` and `Syntax`:
  their operators recurse over trees, in modules the prover cannot read.

## 6. Plan

Order of work, the most important contracts first; all of it is done.

1. Verifier, VM and their composition, with soundness proved.
2. HIR, its meaning, code generation, peephole, optimizer: the back-end against the meaning.
3. Session and driver.
4. MIR: builder, passes and interpreter, composed with `HirSemantics` as the code generator
   is, so that both engines are compared with one meaning.
5. Lowering: the desugarings of `hir/lower.rs` against a source semantics.
6. Resolver and type checker: scopes against the innermost visible definition, soundness
   against the source semantics, and one diagnostic for one mistake.
7. Lexer, parser and formatter: progress, resynchronisation, and formatting as an inverse of parsing.
8. Object format: `from_text` after `to_text`, and after damage.
9. The verifier as an abstract decision, and the refinement.

## 7. Not modelled

The table under `components` lists every part. Left out for good: the text of
diagnostics, dumps, the disassembler, `explain` and suggestions (wording and
layout, no state; `Session` and `FrontEnd` keep the codes of the diagnostics and whether there are errors); the C back-end (what
its output means is defined by a C compiler outside the repository, undefined behaviour included); parsing the
command line; timings and tracing. Within
modelled parts: the wording of errors, the numbers in `OptStats`, how floats print, and the
bytes of strings beyond what concatenation, comparison and the string builtins need.
