# Verification of fythvm

fythvm is a playground for a Forth-like virtual machine built with Python, `ctypes` and
llvmlite. Its core logic is small, but almost all of it is code that *emits* native code, so
what it does is only seen when the emitted loop runs over an untyped block of memory. This
directory holds TLA+ models of that behaviour, the TLC runs that check them on small
instances, and TLAPS proofs.

Source paths below are relative to the repository root.

## 1. Inventory

| part | state it keeps | operations | talks to |
|---|---|---|---|
| RPN calculator, `src/fythvm/rpn16.py` | `CalcContext` (stack array, `sp`), owned by the caller; loop parameter `ip` | `evaluate` and, inside it, one handler per kind of cell | stack helpers, loop/exit/dispatch helpers |
| Stack helpers, `src/fythvm/codegen/stack.py` | the `stack` and `sp` fields of someone's structure | `reset`, `push`, `drop`, `pop2`, `binary_reduce`, `peek`, `has_*` | every interpreter |
| Dictionary runtime, `src/fythvm/dictionary/runtime.py` | one `DictionaryMemory`: registers, cells, two stacks | `create_word`, `find_word`, `iter_words` | shares its memory with compiled code |
| Dictionary helpers, `src/fythvm/dictionary/ir.py` | the same memory, from native code | `create_word`, `find_word`, `find_word_by_cfa` | current-word resolution |
| Current word, `src/fythvm/dictionary/current_word.py` | `current_xt` of an interpreter state | `resolve_from_state`, `install_xt`, `thread_ref` | dictionary helpers, inner interpreter |
| Inner interpreter, `explorations/lab/lowered-handler-python-loop-seam` | `LoweredLoopState`: `ip`, `current_xt`, thread pointer and length, data stack, return frames, halt flag | eight handlers, `lowered_step`, `lowered_step_xt`, `lowered_run`, and the Python drivers | all of the above |
| Thread compiler, `explorations/lab/handler-requirements-python-loop/run.py` | source cursor, emitted cells, patch stack | `LIT`, `+`, `EXIT`, `IF`, `THEN`, `S"` | hands its thread to the handler loop |
| Handler loop, same file | `LoopState`: `current_thread`, `ip`, `data_stack`, return stack, `halted` | `step_once`: preflight, resource injection, one of seven handlers | instruction registry |
| Instruction, family and compiler-word registries, `src/fythvm/dictionary/{instructions,families,compiler_words}.py` | tables built at import | lookups | drivers, lowering |
| Structure views, `src/fythvm/codegen/structs.py`, `dictionary/layout.py` | field layouts | `load`/`store` of fields and bit fields | every emitted access |
| Block protocols, `src/fythvm/codegen/{joins,loops,exits,dispatch}.py` | pending edges while a function is emitted | `add_incoming`, `begin`, `remember`, `finish` | every emitter |
| Shared-stack kernels, `explorations/lab/python-shared-stack-kernels` | two stack arrays with their pointers, byte memory | some fifty words, each raw and over a shared kernel | |
| Stack storage labs, `explorations/lab/{llvmlite-jit-stack-operations,context-struct-stack-storage}` | two contexts, the pointers bound to one of them | `bind`, `push`, `pop`, `dup`, `swap`, `over`, `reset`, `get_sp` | |
| Previous-link list, `explorations/lab/previous-link-list-ir-abstractions` | byte arena, HERE, LATEST | `append`, `count`, `get_nth` | |
| Memory, walk, search, merge and calculator labs | nothing that outlives a call | one compiled function each | `codegen` helpers or local copies of them |
| Module lifecycle, `explorations/lab/llvmlite-module-lifecycle-pattern` | registry of live modules and generations; a host context with counters | `load_module`, `init_module`, `unload_module`, the compiled `module_init`/`module_fini` | |
| Export plan, `explorations/lab/delayed-ir-export-pattern` | declared exports, bodies begun, callables | `declare`, `reopen`, `define`, `finalize`, `call_i64` | |
| Compilation, scripts, other labs | none that outlives a call | | |

Nothing here runs concurrently: there is one native thread, and Python calls it. What is hard
instead is

* state that outlives a call: a calculator context passed to several calls, a generator
  suspended while its dictionary grows, `current_xt` fetched ahead of the step that uses it;
* a call that fails half way (`create_word` raising after it has written);
* boundaries: the last cell, the full stack, the 5-, 7- and 18-bit fields, 16-bit overflow and
  the one undefined division;
* two implementations of one promise over one memory (Python and compiled lookup, stepping
  and running);
* build-time order: edges that arrive before the phis they belong to, bodies that call exports
  without a body, tokens of modules unloaded since;
* loops that carry several values on their back edges and exits, each of its own block;
* position arithmetic, shared between a handler, its operand reader and its continuation;
* checks made before a native call that goes on to do more than was checked.

The properties that make each part correct:

* calculator: a call is independent of the context it is given; the stack holds the values of
  the source's expressions; "ok" means one complete expression with its value; no access
  outside the array;
* dictionary: entries never overlap and never change; the chain is the history; both lookups
  find the newest visible word; an xt finds its own word; a failed call leaves nothing visible;
* interpreter: the cells mean what the instructions mean, however they are driven; thread
  pointers keep their own lengths; the preflight protects the arrays; loop-free programs stop;
* thread compiler and handler loop: exactly the well-formed sources compile; a patch never lands
  on code; executed offsets and emitted offsets agree, so a compiled source does what it says;
  the declared requirements bound the stack on any thread; a fault leaves the state it reports;
* kernels: the raw and the kernelized words do the same, and what their docstrings say;
* compiled functions: each call ends with the result of a plain reading of its arguments, writes
  nothing else, and uses the storage bound when it was called;
* structures: a layout has every field where `ctypes` has it; a bit field never disturbs another;
* host protocols: every predecessor of a merge block has its value in each phi, once and under its
  own block, and in any other order of calls each edge reaches exactly the phis it is said to; a module's
  resources are counted once however often it is told; what becomes callable is whole.

`PROJECT.json` lists all the hazards, each at its line with the properties that cover it.

## 2. Modules

| module | what it is |
|---|---|
| `WordArith` | The 16-bit word and the five binary operations as LLVM defines them; `Half` is 2^15 in the program. Shared by the calculator and the interpreter. |
| `RpnStack` | Abstract: one calculator call over a plain sequence. |
| `Rpn16` | The calculator: array, `sp`, `ip`, statuses, reused contexts. |
| `Rpn16_proofs` | Theorems about `Rpn16`. |
| `Dictionary_proofs` | Theorems about `Dictionary`. |
| `WordList` | Abstract: the dictionary as an append-only list of words. |
| `Dictionary` | The cells, registers, both writers, both lookups, the generator. |
| `ThreadCode` | Instructions, their requirements, and how programs are laid out as cells. |
| `ForthMachine` | Abstract: a machine over instructions, with no cells. |
| `InnerInterpreter` | The lowered interpreter and the two ways Python drives it. |
| `InnerInterpreter_proofs` | Theorems about `InnerInterpreter`. |
| `HandlerMetadata` | What the thread compiler and the handler loop share: ids, requirements, injected resources, counted payloads. |
| `HandlerLoop` | The metadata-driven Python loop, on any thread of cells. |
| `SourceText` | The source language: lexemes, and a reference reading of where words start and IFs end. |
| `SourceMachine` | Abstract: what a source does, said on the source, with no thread and no offsets. |
| `ThreadCompiler` | The source-to-thread compiler. |
| `CompileAndRun` | Composition: compiler, then loop. Implements `SourceMachine`. |
| `CompileAndRun_proofs` | Theorems about `HandlerLoop`, `ThreadCompiler` and `CompileAndRun`. |
| `StackMachine` | The kernel lab's machine: two arrays, their pointers, little-endian memory, and the first exception. |
| `StackKernels` | Every word of the lab, raw and over its kernel, side by side. |
| `StackKernels_proofs` | Theorems about `StackKernels`. |
| `StackEffects` | Abstract: the stack effects of the words, over sequences. |
| `CompiledFunction` | The state and the control (branch, return, tail call) that compiled functions share. |
| `ChunkedMemory` | `chunked_copy` and `chunked_compare`. |
| `LinkedWalks` | `count_nodes`, `index_of_value`. |
| `ResultSearches` | The threshold searches and the staged record search. |
| `PreviousLinkList` | The list in a byte arena. |
| `CellRpnBlocks` | The cell lab's calculator, block by block; implements `RpnStack`. |
| `CompiledStacks` | The stack functions over globals, bound pointers and a context struct. |
| `BitFields` | `BoundBitField` and the reification lab's loads and stores. |
| `StructLayout` | `StructHandle.from_ctypes`, and its first version in the lab. |
| `BlockProtocol` | `Join`, `ParamLoop.begin`, `SharedExit`. |
| `MergeFunctions` | The functions of the phi labs. |
| `RegionCompare` | The loop `compare_aligned_i32_regions` emits. |
| `ModuleLifecycle` | The registry of JIT modules and their compiled init and fini. |
| `ExportPlan` | The delayed export plan. |
| `CompiledHelpers` | Composition of `CompiledFunction` and the thirteen modules above: one `Init`, `Next` and fairness. |
| `CompiledMemory_proofs` | Theorems about `CompiledHelpers` and the compiled functions it composes. |
| `HostProtocols_proofs` | Theorems about `BlockProtocol`, `ModuleLifecycle`, `ExportPlan` and `StructLayout`. |
| `SetInduction` | Induction over numbers, stated with sets; the proofs about recursive functions rest on it. |
| `MC*` | Instances for TLC. |

A definition is named after the function or field it models where TLA+ allows. A definition
`X_fault` is a plausible slip in the code that `X` models; no specification uses it. Each one
shows that some property would notice that slip.

Some invariants that belong together are checked as one: `ValuesMatchSource`, `LookupsFindTheirWord`,
`StateIsConsistent`, `ChunksMakeTheCopy` and `ResultsAreRight` are conjunctions of the named parts
that the sections below speak of. The type invariants of `Dictionary` and `HandlerLoop` are proved for every
instance (section 5), so no run repeats them.

### Rpn16

`stack` and `sp` are `ctx.stack` and `ctx.sp`; the array grows downward and is never cleared,
`reset` only moves `sp`. `ip` is the loop parameter. Each disjunct of `Next` is one path through
the loop body, from the head to the next head or to the shared exit: `Literal` /
`LiteralOverflow`, `Binary` / `BinaryUnderflow` / `BinaryByZero`, `ExitSingleton` /
`ExitNotSingleton`, `BadOpcode`, `MissingExit`. A new call (`Evaluate`) may get a fresh context or the one
the last call left, whatever became of that call. A fresh `CalcContext()` has `sp = 0`, which
reads as a full stack until a call resets it.

The cells of a program are chosen as they are fetched. `ip` only grows, so a cell is fetched at
most once, and choosing late loses no behaviour. `cells`
remembers what was fetched, for the properties only.

The most negative word divided by -1 is undefined. The model allows what builds do: the process dies (`BinaryTrap`) or the result wraps.

`StackMatchesSource` and `ResultIsExpression` do not run a second stack machine: they parse the
fetched cells into postfix expressions by their extents (`ExpressionStart`) and evaluate those.

### Dictionary

A cell is a record of what was last written to it: a piece of name, a link, a code field, a data
value, or a code field whose last bits were never stored ("torn"). The two stacks follow the
cells in the structure and are modelled as cells that must stay zero. The Python
writer has three outcomes: success, `MemoryError` before any write, and `ValueError` after the
name, the link and four of five code-field members are written (`RuntimeBadData`). The compiled writer has one,
and no capacity check. Widths are `% NameMod`, `% HandlerMod`, `% DataMod` (32, 128, 2^18); a data cell wraps to a
signed number of `CellMod` values (2^32), so `data=[2**31]` reads back negative. Names, links and code fields are read by
address, but `read_data_cells` indexes the `cells` array and raises `IndexError` at its end: `read_data_cells` answers
with the error or the values, and `WordList` says which words' data is out of reach (`overrun`).
`find_word` compares exact bytes, `find_word_ir` lengths and then whole padded cells, as their
sources do. `iter_words` is a generator, so it is two actions with anything between them.

`entries` is a history variable: where every word was put.

### ThreadCode, ForthMachine, InnerInterpreter

A scenario is an entry thread, custom words and possibly a word run first by its xt.
`ThreadCode` gives it twice: as instructions and as the cells `prepare_scenario_execution` lays
out (operands inline, words called by the cell index of their code field, branch offsets
counted from the cell after the operand). `InnerInterpreter` runs the cells; `ForthMachine` the instructions.

One action of `InnerInterpreter` is one handler with its continuation
(`advance_ip`, `exact_ip`, re-dispatch, halt), or one entry point, or one loop decision. `at` says where control is. In mode "step",
`StepCall` requires the preflight of `execute_scenario_stepwise`, otherwise `StepRefused` ends
the run as the raised exception does. In mode "run" nothing is checked. An access outside an array or a thread ends the behaviour as "overrun",
since what it reads or overwrites is whatever lies next to it.

Data stack and frames are sequences; their array form is the subject of `Rpn16`. Word names matter
only through the cells they occupy. Words with a handler that is described but not lowered have no
requirements in the model: it does not matter, since they end the run either way.

### HandlerMetadata, HandlerLoop

`step_once` is one action per handler plus `Refuse`, which covers every way the handler is not
called, in the order of the code: end of thread, unknown word, unknown handler, no Python handler,
too few values, too little room, and a call whose injected resources are not the handler's
parameters. `outcome` is `"running"`, `"halted"`, the code of an `ExecutionFault`, or the name of
the Python exception that leaves `execute_scenario`. Positions are Python's: counted from 0, and a
negative one reads from the end (`Index`, `Slice`), so a backward branch past the start continues
at the tail of the thread or ends in an `IndexError`. `ADD` pops both values before it finds that one is
not a number, so its `TypeError` loses them; the faults do not.

Cells and values are Python ints and have no width. A payload byte is `% ByteValues` (256).

### SourceText, ThreadCompiler, SourceMachine, CompileAndRun

A source is a sequence of lexemes, each with the octets of its text, because `S"` consumes raw text
up to the next quote and not words: the text may hold `IF`, a `LIT` or another `S"`. `Token` reads a
lexeme; the compiler's actions are the branches of `compile_source_to_thread` with the handlers of the three
compiler words. `slots` is the patch stack.

`CompileAndRun` runs the compiler to its end and starts the loop of `HandlerLoop` on what was
emitted. Its refinement mapping takes a position in the thread to the place of the source whose
compiled cells begin there, the latest one since `THEN` compiles to nothing. `SourceMachine` finds the
`THEN` of an `IF` by counting, not by patching, and rejects malformed sources before it runs anything.

### StackMachine, StackKernels, StackEffects

A word is a composition of operations on a machine record, as its Python body is a sequence of
statements; after the first exception nothing changes any more, which is what raising does.
`StackKernels` keeps two machines and gives both the same word: `raw` runs the words of the five
operation files as they spell out their pushes and pops, `kernel` the same words over
`kernels.py`. A kernel that takes a Python function takes a TLA+ function on cells, nested for two arguments. `VariantsAgree` compares all of both machines, the popped cells included, since `DSP!` and
`RSP!` expose them again. `StackEffects` knows neither arrays nor the order of pushes: each word maps
the top items of a sequence to others, or fails, and both machines refine it through the view
of the live items. It says what a quotient, a stored cell or a moved block is, not how it is computed, and
leaves open only what the code leaves to chance: the popped items `DSP!` and `RSP!` expose, and how much of its
work a failing word has done on the stacks.

### CompiledFunction and what is built on it

A call is in `call` (its function and arguments), the block to run next in `block`, the arguments and
values the remaining blocks use in `env`, and what its pointers reach in `memory`. An action is one
basic block, with all its loads and stores, its terminator and what it hands to the phis of its target.
The labs emit many functions twice, raw and with Python helpers, and the two have the same
blocks: an action is mapped to one version and the predicate that groups a function's actions to
the other.

* `ChunkedMemory`: an activation is one chunk of 8, 4 or 1 bytes and a `musttail` call on the rest. A chunk
  is read whole before it is written. The wide loads state an alignment, which `ChunksAligned` checks.
* `LinkedWalks`, `ResultSearches`, `RegionCompare`, `MergeFunctions`: the header's phis are the
  fields of `env`, and an edge gives all of them.
* `PreviousLinkList`: cells at byte offsets 0, 4, 8...; `append` is one block, `count` and `get_nth` are
  loops, and a caller makes calls one after another on one arena of `MaxNodes` nodes.
* `CellRpnBlocks`: where `Rpn16` has one action per path through the loop, this has one per block, so
  that an `sp` loaded in a block and used in another is visible. It maps to `RpnStack` and stutters
  between dispatches.
* `CompiledStacks`: the functions have no checks. The host's scenarios call them only where the stack
  has room, and that is the guard of the actions; two contexts lie side by side in one memory and
  binding takes either.
* `BitFields`: a value is a function from bit numbers to BOOLEAN, so shifts, masks and truncations
  are exact at every width.
* `StructLayout`: the fields, then the storage units, one at a time; `ctypes` itself is modelled from its use (offsets by
  alignment, bit fields filling the current unit). A field has a size and an alignment of its own, which
  differ for an array. LLVM's offsets are those of its documented layout rule, element by element.
* `BlockProtocol`, `ModuleLifecycle`, `ExportPlan`: a step is one Python call and `memory` is what it has
  built so far. A call that raises is a step too. A join's `branch_from_here` emits its branch
  before it refuses the values; `SharedExit.remember` and `ParamLoop.begin` do not.
* `BlockProtocol`: `memory.branches` are the branches to the merge block, `memory.phis` the groups of phis put there:
  a join may be entered again, up to `MaxEntries` times, and makes new ones; an exit may be asked to
  remember after it is finished. A loop has the block it was made in (`call.entry`), under which `begin` gives its values
  wherever the builder stands by then. The caller ends each block once (`Unterminated`; llvmlite asserts it).
  `CalledAsMeant` is the order of calls of every user in `src/`.
* `ModuleLifecycle`: a host keeps tokens for as long as it likes, so `init_module` and `unload_module`
  take any generation handed out so far. `manual_fini` is the call through the record that the lab
  makes past the registry.
* `ExportPlan`: `with define` is two steps, entering and leaving, so bodies nest, and a body can end by an
  exception (`define_raises`), with its block left behind and a retry appending another. `body` in a
  block is a history variable.

## 3. Runs

| run | instance | what it shows |
|---|---|---|
| `rpn16_calculator` | words -4..3, 3 stack places, up to 7 cells, every literal, one unknown opcode, fresh or reused contexts for ever | every program, every status: the stack follows the source, "ok" means one complete expression, and every call refines the sequence machine whatever context it got |
| `dictionary_memory` | 2-byte cells, 9 cells and 4 stack cells, up to 3 words of 0 to 3 bytes by either writer, fields of 2 bits, data cells of 3 | chain is the history, append-only, disjoint, iteration is a snapshot, the two lookups agree and are right, xts resolve, Python leaves the stacks alone even after compiled code has passed the end; refines the word list |
| `interpreter_programs` | threads of up to 2 instructions from 24 kinds and of 3 from 7 kinds, five pairs of words, optional direct word, stacks of 2, both modes | the interpreter refines the instruction machine; lengths, fetch and preflight; loop-free programs stop |
| `handler_loop_threads` | all threads of up to 4 cells from 12 kinds with three sets of custom words, and of up to 5 from 7 kinds that push; stack limit 3, bytes of 4 bits | the stack keeps its limit and faults move nothing, on any thread |
| `compile_and_run` | all sources of up to 4 lexemes from 9 kinds and of up to 4 phrases from 8, and seven longer ones; stack limit 3, bytes of 4 bits | exactly the well-formed sources compile; the compiled thread does what the source says, stays on instructions, fails only as the program does, and stops |
| `shared_stack_kernels` | stacks of 4, memory of 5 bytes, cells of 2 bytes of 2 bits; every data stack of 0 to 4 of the values -8, -1, 0, 3, an empty and a full return stack; two words | the raw and the kernelized words agree and have the documented effects, failures included |
| `compiled_helpers` | every small call of each compiled function and every order of calls of the protocols; see below | each call ends, with the result of a plain reading of its arguments; stores reach nothing else; edges reach their phis in any order of calls, and the phis of a builder called as meant are complete; lifecycles balance; callables are whole |
| `dictionary_long_names` | 2-bit name length, names of 1 to 5 bytes | **violation**, see section 4 |
| `dictionary_ir_overrun` | compiled writer, 6 cells and 4 stack cells | **violation** |
| `interpreter_execute_unchecked` | stepping, threads of 3 | **violation** |
| `interpreter_xt_shadowing` | a second word whose code field is cell 15 | **violation** |
| `handler_loop_docol` | the lab's docol-call scenario | **violation** |

Why the bounds are enough. A calculator stack of 3 can be empty, singleton, partly full and full, and seven
cells reach every status from each of these, with literals that reach overflow, zero and the
undefined division. Nine dictionary cells hold up to three words, an exact fit and a failed fit by one, and four stack cells are enough for compiled code to write past the end and Python to go on after it.
The names cover no cell, a part of a cell, a whole cell and two cells, and one that is the zero-padded
prefix of another. Stacks of 2 and threads of 3 reach underflow and overflow of both stacks, nested calls, recursion,
branches in both directions and EXECUTE of primitives, words and itself. Threads of 4 cells hold every handler with a
missing, a negative and a too large operand, and a branch into an operand; five cells that push
reach the limit of 3 and one past it. Four lexemes hold every malformed shape (open `IF`, `THEN` alone, `LIT` at the end
or before a word, no closing quote, a quote that swallows a keyword); four phrases and the longer samples hold
nested `IF`s, taken and not, and text of 0 to 12 octets, so every remainder of the packing. A byte of 16 values keeps a packed cell within TLC's integers.

Two words of the kernel lab on every stack of up to four items meet every failure of every
word, at the first and at the second, on a full and on an empty stack; values -8 and -1 give the overflowing
quotient, and 5 bytes leave the last address without a whole cell behind it.

`compiled_helpers` takes copies of 0 to 15 bytes, so every mix of 8-, 4- and 1-byte chunks, between
regions apart on either side and one moved down onto its own tail; compares of 0 to 16 bytes with one byte
altered anywhere, up or down; lists and arrays of up to 3 elements of up to 3 values, with the wanted one first, last,
twice or missing; two records that fail each stage of the search; arenas of 4 nodes; programs of 7 cells
on a stack of 3; stacks of 3 over two contexts; a storage word of four bits with two neighbouring fields and one bit
of nobody's; all structures of up to three fields from ten kinds (integers, arrays, bit fields); joins, loops and exits of 0 to 2 parameters and 3
predecessors, entered up to twice; two module ids, four generations and four initialisations; two exports, two signatures
and two bodies, which may be of one export (a retry), nested, or of both. Each protocol is small enough
that a third predecessor, id or body only repeats what two do; the theorems of section 5 say so for any number.

The named bounds are `MaxCells`, `MaxWords`, `MaxInstructions`, `LexemesAtMost`, `PhrasesAtMost`, `AnyAtMost`,
`PushingAtMost`, `MaxNodes`, `MaxCellCount`, `MaxArity`, `MaxEntries`, `MaxGeneration`, `MaxEffects`, `MaxBodies` and `ValueBound`; the last stops a looping thread that keeps adding, and no
compiled source reaches it, or `Terminates` would fail.

Deadlock is not checked for the calculator, whose process may be killed, nor for the
interpreter, the handler loop, `CompileAndRun`, the kernels and the compiled functions, whose programs and calls end. It is checked for the dictionary, where a call is always possible.

Fairness. `InnerInterpreter` and `CompileAndRun` assume weak fairness of `Next`: each is one
thread of control, a native loop called by a Python loop or one call of `execute_scenario`: as long as it can take a step, it does.
`CompiledHelpers` assumes it of `Runs` only, the blocks of a function once it is called, for the same reason;
the caller's actions (another append, another push, another request) have none, because nobody has to call again. `EveryCallEnds`
is therefore about the loops themselves. The
calculator, the dictionary and the kernels are called by clients that need not call, so they have none.

## 4. Where code and documents disagree

* `dictionary_long_names`: a name of 32 bytes or more is stored in full by `create_word`, but its
  5-bit length is stored modulo 32 (`runtime.py:195`), so its word cannot be found.
  `docs/dictionary-contract.md:109` says redefinition shadows naturally.
* `dictionary_ir_overrun`: compiled `create_word` (`ir.py:269-330`) writes past the cells into the
  data and return stacks. `docs/execution-invariants.md:150-152` says HERE is the write frontier
  of dictionary memory and that the stack roles remain distinct.
* `interpreter_execute_unchecked`: EXECUTE dispatches its xt in the same native call
  (`seam_lowering.py:338`), after the only preflight. The lab's `README.md:253` says the preflight comes before each
  handler runs. `OnlyExecuteOverruns` is what does hold: a stepped program overruns nowhere else.
* `interpreter_xt_shadowing`: primitive ids and code-field indexes are one number space
  (`current_word.py:97`), and the dictionary is searched first. `docs/dictionary-contract.md:177` says that an
  xt is the address of a code field.

* `handler_loop_docol`: `injected_resources` gives `current_word_thread` to a handler that
  `needs_current_xt` (`run.py:968`), and the registry's `DOCOL` descriptor asks for
  `needs_code_field_execution` instead, so every call of `handle_docol` is a `TypeError`. The lab's
  `README.md:135-136` says that the colon word gets it, and its docol-call scenario expects to halt with
  `(5,)`. The run stops where the program does: `execute_scenario` does not catch the exception.

Behaviour that contradicts no document, but that a caller should know, is in the models as it is:

* `chunked_compare` truncates the difference of two 8-byte chunks to 32 bits, so regions whose first
  different byte is one of the upper four (bytes 4-7) of an 8-byte chunk compare as equal.
  `CompareDecides` says when the result is right.
* `compare_aligned_i32_regions` does not look at bytes after the last whole word; its one caller passes
  zero-padded cells.
* A `Join` emits its branch before it refuses a wrong number of values, and a join of no parameters
  keeps its edges pending for ever, which is harmless.
* `SharedExit.remember` after `finish` is accepted: it branches to the exit block, whose phis never hear of it. A join
  entered again makes new phis, gives them the edges that came before its first ones, and forgets the first ones: what
  came between is in them only. `ParamLoop.begin` gives its values under the block the loop was made in, and branches from
  where the builder stands. No user in `src/` does any of these; `EdgesReachTheirPhis`, a part of `PhisMatchPredecessors`, says exactly which phis each edge reaches.
* A data value outside int32 wraps, and the data of a word that compiled code put past the `cells` array cannot be read:
  `read_data_cells` raises `IndexError` there, though the word's name, link and code field can be read.
* The reification lab's `from_ctypes` accepts storage units that overlap; the promoted one refuses them.
* After `module_fini` was called through a record, the registry still calls the module initialized.
* A body abandoned after its `ret` leaves a whole block behind. If the body is then defined again, the
  abandoned block comes first, and is what the export runs. `CallablesAreWhole` says that this takes a second beginning:
  an export begun once is callable only with the body that ran to its end. A body abandoned before its `ret` makes
  `finalize` fail for ever, since its block cannot be taken back.
* An export declared after `finalize` is never callable: a second `finalize` does nothing.

The refinement `ImplementsForthMachine` holds with unchecked words behind EXECUTE, because the abstract EXECUTE hands
its xt to whatever the dictionary says. It says nothing of two kinds of program: one whose dictionary has a code field
at the number of a primitive the program uses, as in `interpreter_xt_shadowing`, and one that gives EXECUTE the number of `LIT` or
of a branch, which then takes a cell of the thread for its operand. Both leave the instructions the author wrote
(section 5).

## 5. Proofs

`Rpn16_proofs` proves, for every `Half`, `StackSize`, `Literals`, `Opcodes`, `MaxCells` and
`Contexts` that satisfy `HalfAssumption` and `Rpn16Assumption`:

* `TypeCorrect`: `Spec => []TypeOK`. `TypeOK` says that `sp` is in `0 .. StackSize` and every
  element a word, which is memory safety of every `push`, `pop2` and `peek`. It
  is inductive as it stands: each action's guard on `sp` keeps the slots it touches inside the
  array, and the arithmetic lemmas say that what it stores is a word (`Wrap` of any integer is one,
  and quotient and remainder of words are integers).
* `Refinement`: `Spec => ImplementsRpnStack`, with the refinement mapping `stk <- logical_stack`.
  The argument is that a push of the array is an `Append` of the view and a reduction is
  `Append(SubSeq(...), ...)`; two lemmas about the view say so. Each action maps to one action
  of `RpnStack`. A reused context is included: `Begin` does not look at the old stack.
* `ValuesCorrect`: `Spec => []ValuesMatchSource`. The reference reading of a program says for each cell where the
  expression that ends there starts and what it is worth, by recursion along the program. The inductive
  invariant `SourceInv` joins the property with `CellsAccepted`: every cell already executed was a literal in
  range or an operator with two operands before it. The lemmas say that the reference is defined on an accepted
  prefix, does not look beyond it, and that the expressions on the stack tile it: each starts where the one below it
  ends. A literal adds a tile (`AppendLit`), an operator joins the last two (`AppendOp`), and
  an exit with one value is reached with one tile, which is the whole program (`OneExpression`).

Facts about functions defined by recursion need induction over data. The induction theorems of the library take a predicate as
a parameter, which the provers cannot instantiate. `SetInduction` restates two of them with sets: a set that has 0
and, with a number, its successor has every natural. A proof defines the set of the numbers a fact holds of, shows it
closed, and reads the fact off its members.

`Dictionary_proofs` proves, for every `CellSize`, `NameMod`, `HandlerMod`, `DataMod`, `CellMod`, `Capacity`,
`StackCells`, `MaxWords`, `Writers` and set of `Requests` that satisfy `DictionaryAssumption` and
`RequestsAssumption`:

* `TypeCorrect`, `ChainCorrect`, `EntriesDisjoint`, `IterationSnapshot`: `Spec => []P` for `TypeOK`,
  `ChainIsHistory`, `EntriesAreDisjoint` and `IterationIsSnapshot`, whichever writers there are.
* `MemoryIsAppendOnly`: `Spec => AppendOnly`.
* `StacksLeftAlone`: `Spec => PythonLeavesStacks`, whichever writers there are. The stronger `StacksUntouched`
  does not hold of the compiled writer: the run `dictionary_ir_overrun` refutes it.
* `Refinement`: `Spec => ImplementsWordList`, assuming that every requested name is shorter than
  `NameMod`. Each word reads back as asked for, its fields and data reduced to their widths; the data of exactly the words
  that end past `Capacity` cannot be read. The assumption is needed: `dictionary_long_names` shows what a longer name does.
* `LookupsCorrect`: `Spec => []LookupsFindTheirWord` under the same assumption, and `CfaLookup`:
  `Spec => []CfaIdentifiesWord` without it, since a code field's index does not depend on the name.
* `NewestFound`: `Spec => []NewestDefinitionFound` under the same assumption. This is the property that the run
  `dictionary_long_names` refutes, so long names are its only exception.

None of the first four is inductive alone. `TypeOK` needs the chain: the link an iteration reads must
be a link cell, which holds only of the entries of the history. The chain needs the layout: an
entry keeps its link only while everything written lands at HERE or above and the entry lies
below it. So the inductive invariant `IInv` is the conjunction of the four with two facts of its own:
`BelowHere` (every entry ends at or below HERE) and `NotIterating` (no cursor without an iteration).
The proof has one lemma per kind of step: a word created (by either writer), a call that raises, an
iteration started and resumed. The lemmas under them say which cells a write touches
(`WrittenFacts`) and do the arithmetic of names: rounding up to cells is monotone, so a name whose
length was truncated still starts inside its own entry (`NewEntryStarts`), and byte `b` of a name
is read from the cell and offset it was written to (`NewNameReadBack`).

A lookup walks the links in rounds (`FirstMatch`): `WalkDefined` says that round `n` stands at the `n`-th
entry from the newest, by induction over `n`, and `FirstMatchIsNewest` that the walk ends at the newest entry that matches. What
matches is then said of words. For the runtime's lookup it is the refinement's reading of names. The compiled lookup
compares whole cells, padding included, so it needs `NamesPadded`, an invariant of its own: the bytes of a
name's last cell beyond the name are zero, as both writers leave them.

`InnerInterpreter_proofs` proves, for every `Half`, both capacities, `Modes` and every set of `Scenarios` that satisfies
`ThreadsAssumption` (xts are cell indexes behind a link cell, and a thread is an array of words, which is what
`create_word` and the int32 cells array make of any program; TLC evaluates it for the scenarios of the runs):

* `TypeCorrect` and `StateConsistent`: `Spec => []TypeOK` and `Spec => []StateIsConsistent`.
* `PreflightProtects`: `Spec /\ []OperandPresent => OnlyExecuteOverruns`. The preflight compares stack depths and
  does not look at operands, so the theorem assumes that a dispatched instruction has its operand in its thread
  (`OperandPresent`; it is not assumed of words that EXECUTE installs, which may have none).
* `ForthRefinement`: `Spec /\ []ExecuteTakesNoInline => ImplementsForthMachine`, when every scenario is `WellFormed`: its
  names, branches and operands are of its own threads, no custom word has `LIT` or a branch for a handler, and no code field has a
  number that the program uses as a primitive's. TLC evaluates `WellFormed` for the scenarios of `interpreter_programs`
  (`MCProgramsAreWellFormed`). `ExecuteTakesNoInline` is a condition on the values a program computes: EXECUTE installs
  no handler that wants an inline operand. Neither can be left out: TLC refutes the refinement for the programs of
  `interpreter_xt_shadowing` and for `LIT 72 EXECUTE HALT`, whose second `LIT` pushes the cell of `HALT` and passes over it.
* `PreflightProtectsPrograms`: under the same two conditions `OperandPresent` need not be assumed.
* `XtsOfWellFormedPrograms`: under the same two conditions `XtIsUnambiguous` is an invariant, so the shared number space is the
  only way in which a cell that names no word can enter one.

The inductive invariant `IInv` joins `TypeOK` and `LengthsBelongToThreads` with five facts: the program is a prepared
one (`ProgramOK`), the next xt is there whenever control is between two words and goes on (`FetchedAhead`),
there is no outcome before the end (`Going`), a stepped word that EXECUTE did not install has passed the
preflight (`Checked`), and a word is dispatched from a cell or from just before the first one (`Positioned`,
which makes the return position DOCOL stores a position). `FetchAgreesWithIp` alone is not inductive: it
speaks of the moment before a fetch, and the fetch was done in the step before that. Lengths need no knowledge of what
threads say: DOCOL takes pointer and length from one code field and stores them in one frame, and EXIT restores both.

For the refinement, cells have to be read as instructions again. `Starts` sums the sizes of a thread's instructions; it is
a recursive function, so that it exists, rises and reaches every instruction is proved by induction (`StartsFacts`, `StartsRise`),
and likewise that the code fields of different words differ (`XtsRise`), so that a lookup by xt finds its word (`WordFound`).
`ThreadCells` then says that cell `Starts[pc]` holds the opcode of instruction `pc` and the next one its operand.
The invariant `Aligned` says that control is always between two instructions: in the current thread, in every suspended caller,
and, while a word is installed, at the instruction that installed it, itself or by EXECUTE. A handler that leaves
`ip` elsewhere would break it for good, which is why it is the one fact about positions that has to be inductive: DOCOL
stores the start of the next instruction (`NextPlace`), a branch offset lands on the start of the instruction it names
(`BranchPlace`), and an operand is passed over as a whole (`InlinePlace`). There is one lemma per action for the invariant
(`DocolAligned`, ...) and one for the step it maps to (`DocolStep`, ...). Calls, requests for the end and the way back to Python
show nothing to the abstract machine (`SilentStep`).

`CompileAndRun_proofs` proves of the loop, for every `StackLimit`, `ByteValues`, `ValueBound` and set of `Scenarios` that satisfy
`StackLimitAssumption`, `ByteAssumption` and `ScenariosAssumption` (threads are sequences of numbers):

* `LoopTypeCorrect` and `StackBounded`: `LoopSpec => []LoopTypeOK` and `LoopSpec => []StackWithinLimit`, from the inductive
  invariant `LoopInv == LoopTypeOK /\ StackWithinLimit`. The two go together: room is compared as numbers,
  and the stack is a stack of numbers only while positions, slices and payloads are. Per handler, the
  requirements checked in the preflight (`ReadyFits`) cover what it really pushes.
* `FaultsKeepState`: `LoopSpec => FaultKeepsState`. No invariant is needed: no handler pops or moves before it
  raises a fault.

Of the compiler it proves, for every set of `Sources` that satisfies `SourcesAssumption` (lexemes
are records of numbers and octets, and the text between two places is a sequence of octets, a fact
about a fold that the provers cannot derive):

* `CompilerTypeCorrect` and `SlotsCorrect`: `CompilerSpec => []CompilerTypeOK` and `CompilerSpec => []SlotsReserved`, from the
  inductive invariant that joins them with `source \in Sources`. The order of slots in `SlotsReserved` is what makes it
  inductive: `THEN` writes to the last slot's operand, and since slots lie two cells apart at least,
  that cell is neither another slot's operand nor the 0BRANCH before one.
* `AcceptsCorrect`: `CompilerSpec => []AcceptsExactlyWellFormed`. `WordPositions` reads the words off
  a recursive function; `WordFacts` shows first that such a function exists (the least set of
  positions closed under "where the word before ends"). The inductive invariant says that the cursor stands
  where a word starts or at the end, that every word before it ends by there and is good (`GoodWord`), and
  that there is one slot for each open IF (`CursorAt`). `NoWordInside` is why it is inductive: a
  word that started inside the one at the cursor would follow a word before the cursor, and those have ended.

Of the two together it proves, under the same assumptions:

* `SpecCompiles`: `Spec => CompilerSpec`, so the theorems about the compiler are about `execute_scenario`, too.
* `OnInstructionCorrect`: `Spec => []OnInstruction`. The invariant of the compiler, `LayoutInv`, adds to `AcceptInv` that as many
  cells were emitted as the words before the cursor take (`CellsBefore`), and `Layout`: from each boundary
  the cells of one word reach to the next boundary, with none between, and an IF's operand is open or leads to a
  boundary. That no boundary lies inside a word is what keeps a patch off every other word's cells (`PatchLayout`). The invariant of the run,
  `RunInv`, is then that the thread is the emitted one and `ip` is a boundary: a word found there is a
  compiled one, its operands are there, its payload is representable (`PackedType`: four octets below `ByteValues` fit a
  cell), and it moves `ip` to a boundary.
* `SourceImplemented`: `Spec => ImplementsSource`, the refinement of `SourceMachine`. `OnInstruction` says that *some*
  word stands at `ip`; the refinement needs which one. `MeaningInv` adds to `LayoutInv` that the cells of every word
  before the cursor spell that word (`Spelled`: its number, its packed text, for a closed IF the way to its
  `Match`), and that the open slots are the operands of the IFs that are open, inner ones last (`SlotMeans`), so that the slot a THEN
  takes belongs to the IF it closes (`MatchFound`). `RunMeans` joins it with `RunInv` and `LoopInv`. A position
  is the last of the places with as many cells before it, because THENs take none (`LastPlace`); a handler that
  moves `ip` to a place's cells therefore proceeds to that place, past any THEN (`ProceedsTo`), one lemma per handler. What the
  preflight refuses is what does not fit, with the same code (`SameFaults`), and unpacking undoes packing for every
  text (`UnpackPacked`). Compile steps and the start of the loop stutter, except for the one that rejects a source.

`StackKernels_proofs` proves, for every `StackSize`, `MemorySize`, `CellBytes`, `ByteBits`, every seed and any number
of words, under `MachineAssumption` and `SeedAssumption` (scenarios push numbers and write bytes):

* `TypeCorrect`: `Spec => []TypeOK`. Pointers stay within their arrays, cells within a cell and bytes within a
  byte, after every failure too.
* `VariantsCorrect`: `Spec => []VariantsAgree`. Every word built from a shared kernel is its raw word.

`KernelInv` joins the two. A word runs only while both machines run, so from one machine, and `WordsAgree` compares the
variants there, one lemma per family of words. Kernels reduce what a function gives to a cell before they push or store it,
and raw words leave that to the push: `to_cell` keeps the bits that count and leaves a cell alone (`ToCell`, from the
arithmetic of remainders), so it makes no difference (`PushCell`, `StoreCell`). What a word reads from a missing item is
nothing in particular, so each lemma says that nothing depends on it once the underflow is raised. `SWAP` is the exception to
equal machines: it pops twice where its kernel rewrites a window, and an underflow finds its pointer already moved. That is
why `VariantsAgree` asks for equal machines only until an exception, and for the same exception and memory always.
`MachineAssumption` asks for cells of more than one byte because `memory_store` and `memory_fetch` tell a cell from a byte
by its width; `CELL_BYTES` is 4.

* `EffectsCorrect`: `Spec => WordsImplementEffects`, the refinement of `StackEffects` by both machines. `Effects(w, s, t)`
  says of one word and one machine what the refinement asks of a step: `t` has the effect of `w` on the items
  of `s`, or the exception `Failure` names and no item or byte altered. `RawWordEffect` proves it for every
  word, and with `KernelInv` it is a step of each machine (`EffectsStep`).

  The words are sequences of pushes, pops and window writes, so their effects compose. `Replaced(s, t, k, g)` says that
  the items of `t` are those of `s` with the top `k` replaced by `g`. A push, a pop and a rewritten window are such
  replacements (`PushReplaced`, `PopReplaced`, `WindowReplaced`), and so is each word. Three facts are arithmetic. `/MOD` divides
  absolute values and restores the sign, and `DivisionUnique` shows that no other quotient meets the docstring's
  condition. A little-endian cell is determined by its digits (`DigitsDetermine`), so that what `@` sums up is the
  cell whose bytes are there. `CMOVE` goes through a copy, so it moves overlapping blocks whole.
  Kernelized words follow from the raw ones: from a running machine they leave the same machine, except `SWAP` when it
  underflows, and then it has failed as it should (`KernelWordEffect`).

`CompiledMemory_proofs` takes the compiled functions one by one, and then together.

* `FieldsIndependent`: `BitSpec => []FieldsAreIndependent`, for every `StorageBits`, `FieldNames`, offsets, widths and
  `ValueBits` that satisfy `BitFieldAssumption` (fields lie in the storage and do not overlap). `BitInv` adds that memory
  is a storage word and that the history holds values of each field's width. Lemmas say bit by bit what a store by either
  emitter leaves, and that a load shifts it back.
* `CopyExact`, `TracePlanned`, `AlignedAccesses` and their conjunction `CopyMade`, for every `ArenaSize`, `ByteBits` and
  set of calls that satisfies the assumptions (8-aligned buffers in the arena, apart or moved downwards). The invariant
  says of both functions how far they are: what is copied and what is left (`DoneInv`), that the count only loses an 8
  while it has one and a 4 at most once (`CountInv`, from which alignment follows, since the narrower chunks come last),
  and that the trace so far is the plan for the whole (`GreedyInv`). A copy moved downwards reads no byte that was already
  overwritten.
* `ComparesCorrect`: `ChunkSpec => []CompareDecides`. A little-endian word is a sum with one digit for each byte. By induction over
  the width, two words differ when a byte differs, and below any digit they differ by less than its weight, so that
  a difference of eight bytes is a multiple of 2^32 just when the low four are equal. That is what the truncation to i32
  drops, and what `CompareDecides` excepts. `Alike` says that what was handled so far was equal.
* `ArenaHistory` and `ResultsCorrect`, for every `MaxNodes` and set of `NodeValues`. `ArenaIsHistory` says which cell
  holds what, and with the shape of the state it is inductive for appends. The walks need `WalkInv`: after `k` steps the
  cursor is at the `k`-th node from the newest, and `count` or the remaining index agrees.

The rest are theorems about `Spec`, the composition, and so about whatever is called in whatever order. `Family` maps a
function's name to its group. A step is always one of its call's own group (`StepFamily`, `OwnStep`), so
`HelperInv`, the disjunction of the groups' invariants, is inductive, and a promise about the other groups
asks nothing (`OthersPromise`).

* `HelperResults`: `Spec => []ResultsAreRight`. Each loop's invariant says that nothing before the cursor answers the call
  (`NotYet`, `Passed`, `SameUpTo`), and each merge's that what its phis hold stands, modulo the word, for the chosen arm's
  values (`StandsFor`; a wrapped sum of wrapped sums still stands for the exact one).
* `HelperPromises`: `Spec => []P` for `ChunksMakeTheCopy`, `ArenaIsHistory`, `ListResults`, `FieldsAreIndependent`,
  `LayoutIsLlvmLayout`, `PhisMatchPredecessors`, `ResourcesBalanced` and `CallablesAreWhole`, which the theorems above and
  below state of each module alone.
* `StacksApart`: `Spec => OnlyBoundStackChanges`, for any number of contexts, `STACK_SIZE` of three at least and each provider. Contexts'
  cells do not overlap (`ContextCellsIn` and the arithmetic of a context's size), and the view of a stack is read back
  after each store: one value more (`ViewPushed`), fewer, or its top rewritten.
* `RefusalsLeaveNothing`: `Spec => RefusalEmitsNothing`, and `TokensStayDead`: `Spec => StaleTokensAreDead`.
* `EvalRefinement`: `Spec => EvalImplementsRpnStack`, the refinement of `RpnStack` by the calculator's blocks, whose stack
  grows downwards. A reduction takes a path of blocks (checks, then the operation), of which the last one
  maps to the abstract step. `EvalInv` says what each test on the way has established, and that an error block is entered
  only for the error that is due (`Due`).
* `HelperTypes`: `Spec => []TypeOK`. It is inductive together with `HelperInv` and three facts that no property needs: a comparison
  traces chunks of 8, 4 and 1, only `ModuleIds` are loaded, and there are no more definitions, finished and open, than
  bodies (`PlanCount`, which bounds `definition_index`).

The assumptions are those on the calls, which TLC evaluates for the calls of the run: a list, an array or a region holds what
its length says, and words are integers (`WalkCallsAssumption`, `SearchCallsAssumption`, `RegionCallsAssumption`,
`MergeCallsAssumption`, `StructDeclarationsAssumption`).

`HostProtocols_proofs` proves, for calls in any order:

* `PhisComplete` and `RefusalsEmitNothing`, for any `Preds`, `MaxArity` and `MaxEntries`. `ProtocolInv` says
  that what is kept lists the branches that came before there were phis (`Lists`: as many, and of the same blocks and
  values), as long as it is still delivered anywhere (`StillDelivers`: a finished exit and a join without parameters keep
  edges for nobody), and that each phi lists the branches that reach it. `PhisComplete`, `[]PhisMatchPredecessors`, has two parts.
  `EdgesReachTheirPhis`, which edges each phi lists, holds in any order of calls. `WellFormedPhis`, that these are one for every
  block that branches, is of builders that are `CalledAsMeant`: entered or finished once, begun where made, nothing
  remembered after `finish`. Without that it is false of the code, as section 4 says.
* `ResourcesCounted` and `StaleTokensStayDead`, for any `ModuleIds`, `MaxGeneration` and `MaxEffects`. `RegistryInv` joins the
  balance with the types of the registry and the finiteness of the set of initialized modules, whose
  size the counter is: a step adds a module to it, takes one away, or leaves it.
* `CallablesWhole`, for any `ExportNames`, `ExportSignatures` and `MaxBodies`. `CallablesAreWhole` is not inductive: what
  `finalize` takes must already be such that every call of every block is to a declared export of
  the signature it was emitted for, and that an export which counts as defined has a block. `PlanOK` says so of
  every block, abandoned ones included, and `OpenOK` that the bodies being defined are where `env` says. `Marked` says how bodies
  ended: an open body is marked begun and is open once, so an exception through it cannot touch a finished one.

* `LayoutCorrect`: `LayoutSpec => []LayoutIsLlvmLayout`, for declarations of any number of integers, arrays and bit fields that
  satisfy `StructDeclarationsAssumption` (power-of-two alignments that divide the sizes, bit fields that fit their
  integer, none of them in a packed structure). Along the fields, the free bit only grows, and a bit field shares its
  unit with the one before it or starts behind it, so units that do not overlap are met in the order of their offsets and sorting
  leaves them so. Along the storage, `LayoutInv` says that the elements placed so far tile the bytes up to the cursor
  (`Tiled`), each at a multiple of its alignment. From a tiling LLVM's rule, which rounds the end of each element up to the
  next one's alignment, gives back every offset (`TiledIsLlvm`), and the tail padding the size. Padding is an array
  of bytes, of alignment 1, and a `ValueError` is raised at the first unit below the cursor, which the
  invariant keeps apart from the case without overlaps.

These modules are proved about as they stand alone; `HelperPromises` carries the results over to `CompiledHelpers`.

Only model-checked:

* `LoopFreeProgramsStop`, `Terminates` and `EveryCallEnds`: liveness under fairness, which TLAPS does not reach.

## 6. Not modelled

* LLVM itself: the emitted instructions are taken at their documented meaning. `codegen/llvm.py` and
  `codegen/types.py` only call llvmlite.
* Display: `render_program`, `debug_lines`, traces, reports, `decompile_thread`, `describe_exports`.
* The return stack and colon words of the handler loop: `handle_docol` is the only writer of that stack and
  is never called successfully (section 4), so `EXIT` always finds it empty. The fault for a
  missing compiler word is left out too: the registry is fixed and holds all three.
* The promoted return-stack and thread-cursor helpers outside the paths the seam lab takes; no other code calls them.
* Word families and the registries' tables: constants, built once at import.
* `SwitchDispatcher`: one `switch` and one case per handler; its effect is the choice of block in `Rpn16` and `InnerInterpreter`.
* Identified struct types, constant initialisers and generated view classes: they rename what `StructLayout` and
  `BitFields` model.
* Modules whose `module_init` or `module_fini` fails: the registry has branches for them and no builder makes one.
* The layout generator, the rendering scripts, and labs that ask one question of llvmlite (intrinsics, the JIT
  pipeline, host symbols) or hold a first layout of what `dictionary/runtime.py` promotes. They keep no state of the program.

## 7. Plan

1. Calculator: `RpnStack`, `Rpn16`, its three theorems. *Done.*
2. Dictionary: `WordList`, `Dictionary`, ten theorems. *Done.*
3. Inner interpreter: `ThreadCode`, `ForthMachine`, `InnerInterpreter`, six theorems. *Done.*
4. `HandlerLoop`, `ThreadCompiler`, their composition `CompileAndRun` against `SourceMachine`, nine
   theorems. *Done.*
5. `StackMachine`, `StackKernels` against `StackEffects`, three theorems. *Done.*
6. The compiled functions and host protocols, `CompiledHelpers`, twenty-one theorems. *Done.*
7. `DictionaryInterpreter`: the interpreter over the real dictionary cells instead of a thread table. *Open.*

The modules proved about declare no RECURSIVE operator.
