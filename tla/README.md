# A verification project for wasm-to-llvm-prototype

`llvm_wasm` is an ahead-of-time compiler.  It parses a `.wast` test script (modules in
S-expression form, with invokes and assertions), keeps the expressions of each function as
a tree of C++ objects, lets a pass annotate the tree, and generates LLVM IR: one LLVM module
for each WASM module, one for the assertions of the script, and one that initialises the
memories.  The IR is then linked with a small driver (`wrapper/main.cpp`), which runs the
assertions.

There are no threads, and nothing is persisted.  What is hard about this program is not
concurrency: it is that *emission is a long protocol*.  About thirty mutually recursive
methods share one insertion point, one stack of labels, one map of names and a list of
pending phi operands in each named expression, and the result is acceptable to LLVM only if
every method leaves all four as the methods around it expect, on every path, for every
nesting of expressions.  The repository's tests are a few dozen scripts; nesting is where
they do not reach, and where a model checker does.

## Inventory

| Component | State | Operations | Interacts with |
|---|---|---|---|
| Parser (`wasm.ypp`, `wasm.flex`, `function_field.h`, `simple.*`, `local.h`) | `Globals` (file, line count), the stack and the lookahead of the parser, counters for names | `yylex`, the reductions with their semantic actions, `Populate`, `PopulateAllocas` | hands a `WasmFile` to the driver; its line counts decide look-ups |
| Driver and passes (`main.cpp`, `passes/*`) | list of passes; `should_merge_` of an if | `Driver::Drive`, `PassDriver::RunPasses`, `UnreachablePass::Run` | walks the trees of all functions before code is generated |
| Expression code generation (`expression.*`, `function.*`) | insertion point, `labels_`, `mapped_labels_`, `named_exit_blocks_`, `incoming_phis_` | one `Codegen` for each class; `PushLabel`, `PopLabel`, `GetLabel`, `AddIncomingPhi`, `HandlePhiNodes`, `HandleReturn`, `Generate` | recursion over the tree; calls are looked up in the module |
| Operators (`binop.*`, `unop.*`, `utility.*`, `operation.h`) | none | code for arithmetic, comparisons, conversions; `HandleDivRem` builds a new tree | called by code generation, and calls it |
| tableswitch (`switch_expression.*`) | blocks and values of the cases, by name; the table itself, whose breaks are replaced | `SwitchExpression::Codegen`, `CaseExpression::Codegen` | code generation, and the label stack |
| Linear memory (`memory.*`, part of `module.cpp`) | `<module>_memory_base`, `<module>_memory_size`, the cached `local_base_` | memory initialisation, segments, load, store, grow, size | globals of the generated program; `realloc` |
| Modules and linking (`module.*`, `wasm_file.*`, `import_function.*`, `export.h`) | function tables by name and index, mangling maps, prototypes | `Initialize`, `MangleNames`, `Generate`, `GetWasmFunction`, `GetOrCreateIntrinsic` | a call in one module may find a function of another one |
| Test script (`wasm_script*`, `wrapper/main.cpp`) | script elements, the assert module | `Codegen` of invoke and assertions, `GenerateGeneralScriptCalls` | calls into the modules |
| LLVM (external) | basic blocks and instructions | `IRBuilder`, `verifyFunction` | `WasmModule::Generate` asserts the verification of each function |

What makes each of them correct, and what is hard:

* **Expression code generation.**  Each construct pops exactly the labels it pushed; a break
  jumps where scoping says; each block ends in one terminator; a phi has one operand for each
  predecessor, from the block in which the value is computed and not from the one in which its
  construct began; a value reaches the operand that needs it; generation ends although a
  division generates its operands again.  Hard: the *order* in which exits of a construct come
  up, methods that stop early after a jump, one-sided values.
* **Unreachable pass.**  It decides from a walk that stops at the first `if` and at each block
  whether the two sides of an if are merged.  A wrong answer is a phi of a trap.
* **Modules and linking.**  A call finds the function it names whatever the order of the
  modules; mangled names do not clash; tables change while modules are being generated.
* **tableswitch.**  The selector reaches the case the table says, cases fall into the next one, and
  the exit merges their values.  Hard: cases are generated before the selector, and remembered by the
  block in which they *ended*.
* **Parser.**  The file says what the text says, in its order, and lines are those where forms end.
  Hard: lists recurse to the left and to the right and are filled at either end, actions run one
  lookahead late, and one token skips text by itself.
* **Linear memory.**  Base and size globals describe the same allocation; a cached base is not
  used after the memory has moved; a limit is respected.
* **Test script.**  The line that is returned is that of the first failing assertion.
* **Operators.**  Results of divisions, shifts, comparisons, roundings and conversions at the boundary
  values, NaN, infinities and zeros of both signs included.

## Modules

| Module | What it models |
|---|---|
| `WasmAst` | The tree of one function: a sequence of nodes, operands by position.  What code generation writes into a node (`incoming_phis_`, `should_merge_`) is a field of the node.  Types are cut down to `i32` (any machine type), `i1`, `void`, `term` (terminator instruction) and `null` (no value). |
| `UnreachablePass` | `passes/basic.cpp` with the `Walk` methods it depends on, among them the classes that do not walk their operands and `BlockExpression::Walk`, which always stops the walk. |
| `LLVMVerifier` | External: the rules of `llvm::verifyFunction` that a wrong emission order breaks: one terminator per block, phi operands equal predecessors, uses dominated by definitions. |
| `ExprCodegen` | The core: code generation of one function, as a state machine. |
| `ExprCodegenProps` | What WASM says about a function, independent of the compiler (scopes, break targets, what an expression can end with, validity), the shapes the code generator copes with, and the properties. |
| `WasmMeaning` | What a function does by the rules of WASM and what the generated blocks do, as sets of runs. |
| `ExprCodegenProofs` | Its types and what its methods leave on `labels_`, proved. |
| `ExprScopeProofs` | A break jumps to the block its label means, proved. |
| `MCExprCodegen` | The instances TLC checks: all functions up to a size over vocabularies of expressions. |
| `ModuleLink` | The modules of a script and the functions their calls are bound to: mangling, the tables, look-ups, prototypes, functions of the host and intrinsics. |
| `ModuleLinkProps` | What a name in the text means, validity of a file, and the properties. |
| `ModuleLinkProofs` | Names are unique, and printed names are declared; the types of its state, and what is known of files, tables and the work left at every step. |
| `ModuleLinkBinding` | What each call, invoke, import and intrinsic is bound to, proved. |
| `MCModuleLink` | Families of files of two modules and a script. |
| `WasmMemory` | Abstract: a memory of bytes with a size, as the functions of a module see it. |
| `LinearMemory` | The same memory as the generated program keeps it: two globals, a block of the C heap, a base in each invocation. |
| `LinearMemoryProofs` | Its invariants and that it implements `WasmMemory`, proved. |
| `MCLinearMemory` | A heap of three bytes. |
| `WordArithmetic` | Arithmetic on words of any number of bits. |
| `WasmInteger` | What WASM says of the integer operations. |
| `IntegerOps` | Integer expressions as the generated program computes them, beside what `WasmInteger` says. |
| `FloatArithmetic` | Floating point numbers of two small formats, IEEE 754 arithmetic on them, and what WASM says. |
| `NumberOps` | `IntegerOps` with floating point operations and conversions added. |
| `NumberOpsProofs` | The theorems about the values of expressions, for every width and precision. |
| `MCNumberOps` | The formats. |
| `ScriptRun` | A test script, from its text to the exit status of the program that runs it. |
| `ScriptRunProofs` | The theorems about it. |
| `MCScriptRun` | All scripts up to a length. |
| `FileParser` | From the text to the `WasmFile`: scanner, parser, semantic actions, and the fields of functions. |
| `FileParserProofs` | Theorems about `FileParser`. |
| `FileParserProps` | What the file has to do with the text, and what `ModuleLink` and `ExprCodegen` assume of it, by instances of them. |
| `MCFileParser` | Texts put together from forms, laid out on lines, commented and damaged. |

### State and actions of `ExprCodegen`

The recursion of the `Codegen` methods is an explicit `stack` of frames; a frame holds the node,
the values its operands have returned, the blocks the method keeps in local variables, and (a
history variable) the length of `labels_` at entry.  What a method does before its operands,
between them and after them is one action each, and `NextOperand` is the call of the next one.

| Variable | In the code |
|---|---|
| `ast` | the expressions, `incoming_phis_`, `should_merge_` |
| `body` | the basic blocks of the LLVM function; a block's `owner` is `named_exit_blocks_` |
| `cur` | the insertion point of the builder |
| `labels`, `mapped` | `labels_`, `mapped_labels_` |
| `stack` | the active `Codegen` calls |
| `status` | before and after the passes, generated, verified, `rejected` (the verifier's assert), `crashed` (an assert of the compiler or of LLVM, or a null dereference) |

| Action | Code |
|---|---|
| `RunPasses` | `Driver::Drive`, `PassDriver::RunPasses` |
| `GenConst`, `GenGetLocal`, `GenSetLocal`, `GenCall`, `GenBinop`, `GenSelect`, `GenUnreachable` | the method of that class, after its operands |
| `HandleDivRem` | `Binop::HandleDivRem`: nine new nodes around the two operands, which are then shared |
| `IfCondition`, `IfTrueSide`, `IfFalseSide`, `IfMerge` | `IfExpression::Codegen`, cut at its recursive calls |
| `LabelEnter/Exit`, `LoopEnter/Exit`, `BlockEnter/Exit` | the named expressions, with `AddIncomingPhi` and `HandlePhiNodes` in `LeaveTo` |
| `SwitchEnter`, `SwitchCase`, `GenCase`, `SwitchFallOut` | `SwitchExpression::Codegen` up to its last case: the exit, a block for each case, the fall from one case into the next |
| `SwitchBreak`, `SwitchRenamed` | `HandleExpressionCase`, `HandleDefault`: a break in the table becomes a case of its own, and its entry a name |
| `SwitchSelector`, `SwitchExit` | back to the first block, the selector, the `switch` with its table, and the exit |
| `BreakTarget`, `GenBreak`, `GenBreakIf` | look-up of the target, and the jump after the operands |
| `GenReturn`, `FunctionEnd` | `HandleReturn` and the end of `WasmFunction::Generate` |
| `Verify` | the assertion in `WasmModule::Generate` |

The classes are those of `WasmAst.Ops`.  Left out are operations with one operand, loads, stores, calls of imports
and the operators that become a call of an intrinsic (`binop.cpp:221-251`): they generate their operands one after
the other, as `GenCall` and `GenBinop` do, but do not check for an operand without a value, so that invalid functions
with one end otherwise.  Left out of `GetLabel` is the search among the names of the blocks of
`labels_` (`function.cpp:324-328`), which comes after the look-up in `mapped_labels_`: a block has the name it was
pushed under, unless LLVM renamed it, so the search can only find a block for a name that no label of the
function has, and such a break is not valid.

Data is abstracted: constants, locals and operators have no value, only a type and the block that
computes them, for this is what the rules of the verifier and the assertions of LLVM look at.

`MeaningKept` looks further.  Each instruction knows the node that generated it, so `WasmMeaning` can run
the blocks: every condition may go either way, and a run is the sequence of calls, stores to locals, traps
and returns together with the ways taken at ifs, conditional breaks and switches.  The runs of the
generated code have to be those of the tree by the rules of WASM.  A loop that is started again ends the run,
as what follows is what was before.

### State and actions of `ModuleLink`

The two core modules meet in `CallExpression::Codegen`: `ExprCodegen` says where in a function the call is
generated, `ModuleLink` which function it finds.  A function is here the sequence of its calls, in the
order in which their callees are looked up; a call is of a function, of an import, or of an intrinsic the
operators need; it has a name or an index, and the line the lexer was on.

| Variable | In the code |
|---|---|
| `file` | the parsed modules and script elements |
| `names` | the mangled names; with the names of the text they are `map_hash_association_` and `map_reversed_hash_association_` |
| `table`, `order` | `map_functions_`, `vector_functions_` of each module |
| `syms`, `last` | the symbol table of each LLVM module, and LLVM's counter for names that are taken |
| `bound` | the callee of each call generated so far, and for an assertion of NaN the function whose type is used |
| `hosted` | the names that calls of imports and intrinsics are printed with |
| `at` | how far `WasmFile::Initialize` and `WasmFile::Generate` are |
| `checked` | whether functions are verified (`GetDisableVerificationOptimization`) |

| Action | Code |
|---|---|
| `MangleNext` | `WasmFunction::MangleFunctionName` with `RegisterMangle`: any letters that end the loop |
| `InitializeModule` | `WasmModule::Initialize` |
| `GenerateCall` | `CallExpression::GetCallee` with all that `GetWasmFunction` does, prototypes included |
| `GenerateImportCall` | `WasmImportFunction::GetFunction` with `Populate`, and the prototype it caches |
| `GenerateIntrinsicCall` | `GetOrCreateIntrinsic`, from the last module of the text or another one |
| `FunctionGenerated` | the verification of a function in `WasmModule::Generate` |
| `ModuleGenerated` | the end of `WasmModule::Generate`: exports, and the tables replaced by them |
| `GenerateScriptElem`, `ScriptGenerated` | the code for invokes and assertions, from the script module, with the look-up of a type (`Typing`) without a line |

Two orders matter and are easily overlooked.  The grammar is right recursive, so `modules_` holds the
last module of the text first, and modules are initialised and generated in that order; so when a body is
generated, the modules above it still have their internal tables and the ones below have their exports.
And `WasmFile::GetWasmFunction` walks in the same order, so the nearest module above is found first.
Names are sequences of symbols because LLVM builds new ones; `Flat` is what the loop over the characters
makes of a name, given as a constant.

The constructor of `WasmImportFunction` does not initialise `function_`, which `GetFunction` tests for null.  Whether the
memory of the object was null is a field of the import in the file (`stray`).  A stray pointer may be anything;
the model has the compiler stop at its first use.

### State and actions of `LinearMemory`

This module is about the program that the compiler emits.  Its actions are the pieces of IR of
`memory.cpp` and of `module.cpp`; the program is any sequence of them, so any function in WASM is among
its behaviours.

| Variable | In the code |
|---|---|
| `base`, `size` | the globals `<module>_memory_base` and `<module>_memory_size` |
| `heap`, `live` | external: the C heap, its bytes and its allocated blocks |
| `frames` | the active invocations; of each the `local_base_`, and the base loaded by each grow whose operand is still being evaluated |
| `did` | history: what the program asked in the last step, with the answer |
| `status` | before `wasm_llvm_init`, running, or `wild` after a use of memory that is not allocated |

| Action | Code |
|---|---|
| `SetMemoryBase` | `WasmModule::GenerateMemoryBaseFunction`: `malloc`, the globals, the segments in `HandleSegments` |
| `Call`, `Return` | entry of a function, where `GetBaseMemory` loads the base |
| `Load`, `Store` | `Load::Codegen`, `Store::Codegen` with `GetPointer` |
| `MemorySize` | `MemorySize::Codegen` |
| `GrowStart`, `Grow` | `MemoryGrow::Codegen`, cut at the evaluation of its operand, with any outcome of `realloc` and `UpdateMemoryInformation` |

`realloc` may extend the block where it is, move it to any free place, or fail; `malloc` may fail.  A block
that gets the size 0 is freed, and null with the size 0 gives a block of no bytes, as in the GNU C library.
`realloc` is declared with a size of 32 bits (`module.cpp:478`), which is taken to be the number the library sees.  Nothing in the code looks at the result, so both globals are stored also when it is null.  A
use of memory that is not allocated leads to `Wild`, of which nothing more is said: the program has no
bounds checks.  Left out: more than one memory in a module; the conversion between the width of a value
and that of its bytes; the result of `grow_memory`, which has none here.

`WasmMemory` promises what holds: what is read is what was written last, by whichever function; growth
keeps the bytes or loses the memory; and all this only for an invocation in which nothing has grown
since it was entered, since it keeps its first base.  A grow in the operand of a grow leads to the `realloc`
of a block that may have been freed.  Both are less than WASM asks for, and a run of its own
(`MemoryStale`) shows what goes wrong.

### State and actions of `IntegerOps` and `NumberOps`

An expression is evaluated twice, by the instructions the code generator emits and by WASM.  The
state is a stack of `operands`, each with both values, and a `cell` of memory.  A step applies one operation
to the top of the stack, so any expression is a behaviour, in the order in which `Codegen` methods
generate operands.

| Action | Code |
|---|---|
| `Const`, `FloatConst` | `Const::Codegen` |
| `Binop` | `Binop::Codegen` with `HandleInteger` or `HandleDivRem` |
| `FloatBinop` | `Binop::Codegen` with the predicates and instructions for floating point, and `HandleIntrinsic` |
| `Count`, `FloatUnop` | `Unop::Codegen`, the intrinsics and `NEG` |
| `Extend`, `Wrap`, `Convert`, `Trunc`, `FloatCast` | `Unop::Codegen` with `HandleTypeCasts` and the functions below it |
| `Select` | `SelectExpression::Codegen` with `TransformCondition` |
| `HandleReturn` | the cast of a result to the type of its function |
| `Store`, `Load` | the two `ResizeIntegerIfNeed`, with the size `UpdateSize` makes of what is written |

A floating point number is an integer count of halves, an infinity or NaN, with a sign of zero; a format has a
precision and a largest number.  That is enough for every rounding, order and conversion of the code to
differ from a wrong one, and keeps the state finite.  Widths and formats are constants: TLC takes small ones, and what it
checks of them is proved for all.

`status` becomes `apart` when a step leaves what the compiler gets right (these are exceptions of `ValuesAgree`,
each a condition in the action where it arises):

* a comparison is an `i1` until it is cast, and is wrong as an operand of signed comparisons, sums, differences
  and shifts, of a sign extension, of a signed conversion to floating point and of a signed store;
* a shift by the width or more gives any word;
* `NEG` subtracts from zero (`unop.cpp`), so it makes +0 of +0;
* `MIN` and `MAX` are `minnum` and `maxnum`, which prefer a number to NaN and any of two zeros;
* an `i64` becomes a float by way of a double, and is rounded twice (`utility.cpp:240`).

It becomes `trap` when WASM traps; the program answers the quotient that does not fit with the highest
number (the TODO at `binop.cpp:175` doubts this), and a floating point number that does not fit an integer is
undefined in LLVM.  Where the two operands of an operation have different machine types, as
in `(i32.add (i32.eq ...) (i32.const 1))`, LLVM's assertions stop the compiler, which is part of `ExprCodegen`.

### State and actions of `ScriptRun`

| Variable | In the code |
|---|---|
| `text`, `parsed`, `waiting` | the elements of the file, and how far the parser is |
| `elems` | `script_elems_` |
| `functions`, `generated` | the functions of the assert module |
| `main` | the calls in `execute_script` |
| `pc`, `calls`, `result` | the program at run time |

| Action | Code |
|---|---|
| `ParseElem`, `ReduceFile` | the semantic actions of `SCRIPT_ELEM` and `FILE`, with `AddScriptElem` |
| `GenerateElem` | the `Codegen` methods of script elements |
| `GenerateCall` | the loop of `GenerateGeneralScriptCalls`, with `HandleInvoke` and `HandleAssert` |
| `StartProgram`, `MainReturns` | `main` of the driver |
| `CallElem` | one call of `execute_script` with the comparison that follows; the invoked function may trap |
| `CallHandler` | `assert_trap_handler`, which answers -1 and calls nothing |

Results of functions are numbers and NaN; integers are the scripts in which no NaN comes up.

### State and actions of `FileParser`

The text is a sequence of lexemes: a parenthesis with its keyword, a closing one, an atom with its class, a
newline, a comment, a remark.  A form that is open is a frame of the stack with the symbols since its
parenthesis.

| Variable | In the code |
|---|---|
| `script`, `pos` | the text and how far it has been scanned |
| `line` | `Globals::line_cnt_` |
| `skip` | the count of parentheses while `assert_invalid` is skipped |
| `look`, `stack` | the lookahead and the stack of the LALR parser |
| `counts` | the static counters of `WasmFunction` and `WasmModule` |
| `file` | what `Globals` is given: modules, elements |
| `funs` | the lists and vectors of each `WasmFunction` |

| Action | Code |
|---|---|
| `Newline`, `Comment`, `Token`, `EndOfText` | the rules of `wasm.flex`, comments by longest match |
| `SkipInvalid`, `SkipPastEnd` | the loop of the rule for `assert_invalid` |
| `Shift` | a token that is no list's end |
| `OffsetAlign` | the `OffsetAlignInformation` of loads and stores |
| `EmptyList`, `Fold` | the reductions of a right-recursive list: its empty end, where a module is created, and then its elements from the last one on |
| `Close`, `EndOfFile` | the reduction of a form with its semantic action |
| `SyntaxError` | `yyerror`: nothing of a form that no rule matches is used |
| `Populate`, `PopulateAllocas` | the same of `WasmFunction`, at `Initialize` and at `Generate` |

A text that is refused is refused when the form with the error ends, not at the first token that fits no rule; no
action with an effect outside of the parser lies between.  `FileParserProps` states the properties by
positions of the text, so that they share nothing with the parser, and instantiates `ModuleLink` and `WasmAst`
with the parsed file: the three models fit together.

## Runs

Every run of `ExprCodegen` starts from *every* function of the given size over its vocabulary (prefix words, so the
initial states are exactly the trees), and follows the compiler to its end.  Deadlock is checked
everywhere: `Terminated` is the only step once the compiler has stopped.

| Run | Bounds | What it shows |
|---|---|---|
| `CodegenFunctions` | 5 expressions, two of them at the top, over constants, a local, a call without result, `return`, `br`, `br_if` with and without value, `if`, `if_else`, `label`, `block` and `loop` with two operands (4 in functions without result); 5 expressions over divisions, ifs, traps, scopes and breaks, and over blocks of one name that are left with a value; 4 expressions over the classes of `WasmAst` (all but `get_local`, which the first vocabulary has, and `bin`, which divisions are made into), labels by name and index, divisions, traps; 5 expressions over labels that use a name again; 6 expressions over switches: cases in and out of order, as default, missing, with blocks, breaks in the table, no table, in a division; 7 expressions over a switch with a break in its table, generated twice by a division | `TypeOK`; `LabelDiscipline`: `labels_` is what the active methods have pushed; `BreakTargetsScope`: a break jumps where scoping says, unless labels hide each other; `SupportedAccepted`: a function in the supported class is compiled to IR that verifies; `RepeatedRefused`: one that is not in it only because a division generates a named expression again never is, so no value of an earlier generation is used; `ValuesArrive`: an operand that must have a value, and has one by the semantics, returns one; `MeaningKept`: what is accepted does what it means; under fairness, `Terminates`: the compiler ends for every function |
| `CodegenLabels` | 3 expressions | violated, as expected: `ValidAccepted` |
| `CodegenHidden` | 4 expressions, blocks named alike | violated, as expected: `BreaksFollowScopes` |
| `CodegenDivision` | 3 expressions | violated, as expected: `CalledOnce` |
| `LinkFiles` | two modules of one to three functions out of five names, two of which are mangled alike; four lists of calls by name and index, three of exports; a script of an assertion of NaN and an invoke; every line of the script from below the first module to below the second, or all on one line; two modules that import the same or different functions of the host, once or twice or under a name like those LLVM makes, with up to three calls of imports and an intrinsic, an import perhaps made where memory was not null; a module whose second function has the name LLVM makes for a prototype of the first, with three invokes | `TypeOK`; `DefinitionsUnique`: no two functions have one mangled name; `UnsharedBindOwn`: a call is bound to the function of its module it names, unless a module above has the name too; `InvokesBindExports`: an invoke calls what the module it is about exports, and NaN is compared in its type unless a later module exports the name; `PrintedDeclared`: the name of each callee is declared; `CalleesDeclared`: as the function it is, unless it is named like another one with a number; `HostedByName`: calls of the host and of intrinsics keep the name made for them, unless another one claims it; `ValidLinked`: a valid file without calls of names that a module above has too, without repeated intrinsics, and without calls of imports made in memory that was not null, is never stopped by an assertion |
| `LinkShared` | two modules with a function of one name | violated, as expected: `CallsBindOwn` |
| `MemoryGrowth` | a heap of three bytes of two values; an initial size of 1, with a segment; accesses of 1 and 2 bytes at offsets 0 and 1; grows to 0 and 2; two invocations; one grow in progress in each | `TypeOK`: allocated blocks are disjoint; `BaseLive`: the globals describe one allocation, in whatever order nested grows end; `CachedCurrent`: a held base is the current one as long as nothing has grown; `Contract`: `LinearMemory` implements `WasmMemory` |
| `MemoryStale` | as `MemoryGrowth` | violated, as expected: `BasesAllocated` |
| `IntegerWords` | `i32` of two and `i64` of four bits; floating point of one and two bits of precision, up to 16; memory of one bit or of the width of the type; three operands, two with a floating point number or a whole `i64` in memory | `ValuesAgree`: the numbers computed are those of WASM, but for the exceptions listed above; `UndefinedTraps`: no instruction is undefined unless WASM traps; `NumbersTyped` |
| `ScriptAnswers` | scripts of up to three elements, on one or two lines, two numbers | `FirstFailureReported`: elements run in the order of the text, none twice and none left out, up to the first assertion that is seen to fail, whose line is the result; `TypeOK` |
| `ScriptNaN` | one element | violated, as expected: `SuccessMeansHeld` |
| `ParseFiles` | functions with each form of expression and its optional parts, under six kinds of declarations; modules of up to three elements in any order; scripts of up to three requests, on one line, a line for each, a line for each parenthesis; a comment or remark at each place; each lexeme left out; forms out of place | `FileHoldsText`: the file says what the text says, in its order; `LinesAreEnds`: lines are those where forms end; `LinesInOrder`: they do not decrease along the text; `LinkAssumed`, `CodegenAssumed`: what the other modules start from; `LocalsNumbered`: parameters before locals, in the order of the text; `WellFormedRead`: a well-formed text is read; under fairness, `Terminates`: a text is read or refused, unless an `assert_invalid` has no end; `TypeOK` |

**Bounds.**  Five expressions are enough for a construct in a construct with two exits of
different kinds and a use of the value (`return (block (br_if 0 v c) v)`), a jump in each operand
position of each construct, and a break across one construct.  Four are enough, over the whole
vocabulary, for a division in a construct, a construct in a division, a hidden name, and a trap in
either side of an if.  Six are enough for a switch with a
selector, two cases and an operand in each, or with a construct around it.  With these bounds every action is taken, and every property of a run is
broken by a mutation of the code (listed in `PROJECT.json`).  The
whole space of small functions over a vocabulary is the point of these runs: no case is picked by hand.
For `LinkFiles` two modules are enough for
a name above, a module that is generated and one that is not, and an export that hides another; `MaxTail`
is 2 because with three functions in a module two letters always end the loop.  Duplicate names, missing
functions, missing exports and stray imports are in the families, so the assertions of the compiler are reached.
For `MemoryGrowth` three bytes are enough to grow from 1 to 2 in place and by moving, and for either to
be impossible; two invocations for a callee that grows the memory its caller holds, and for grows nested
across a call.  For `IntegerWords` two bits have a lowest number, its negative that does not fit, -1 and 0;
results
become operands, so expressions are as deep as one likes, if no more than three operands wait.  The formats
are such that the wide one has every narrow integer and not every wide one, as in the code; with one bit of
precision nearly every result is rounded, and half-way cases, overflow and both zeros come up.  For
`ScriptAnswers` three elements are enough for a failure between two others, an element that makes nothing
before one that does, and two elements of one line.  For `ParseFiles` lists of two elements are enough to be reversed,
of three to be rotated, and the damaged texts reach every state in which the parser can refuse.

**Fairness.**  Both `Terminates` assume `WF_vars(Step)`: compiler and parser are one thread that nothing
blocks, so if it can take a step it does.  A step of `SkipPastEnd` changes nothing, so fairness does not help
there: that is the exception the property names.

### What the supported class says

`Supported` in `ExprCodegenProps` is the answer to "which functions does this code generator get
right?", found by starting from `Valid` (what WASM accepts) and removing what TLC showed to be
rejected.  Each clause is a restriction of the code:

* a `return` or `br` is fine as operand of a block if no break follows it, at the end of a loop, as
  the *true* side of an if, at the end of a case or in the table of a switch, and a return at the top of the function; elsewhere a second terminator
  follows it (a label always jumps to its exit, `expression.cpp:315`; the false side of an if always
  jumps to the end, `expression.cpp:252`);
* the exits of a named expression all carry a value or none does (`HandlePhiNodes` collects only
  those with a value);
* a loop ends in a value or in a jump (there is no jump to the exit otherwise,
  `expression.cpp:357-376`);
* the sides of an `if_else` agree: two calls without result make a phi of type void;
* a comparison has type `i1` and is good only as a condition or as result of the function;
* a named expression is not an operand of a division, which would generate it again with the
  phi operands of the first time (`RepeatedRefused` has all the other clauses, called `Copes`, and not this one; a switch even stops the compiler there, since the breaks of its table
  have been replaced);
* the cases of a switch consist of expressions that create no blocks: a case is entered in the block where it
  ended (`switch_expression.cpp:122`), so what came before is skipped, without any error;
* a table has no conditional break, which leaves a block open, and a switch with cases has a table: without one,
  the numbers of the selector stand for the cases by position, though WASM goes to the default;
* no label hides another one: of two of the same name `mapped_labels_` knows the one that was declared last
  (`function.h:97-104`), so a break may jump to a block that is closed.

`MeaningKept` has fewer conditions: of *every* valid function that is accepted, supported or not, only
those with hidden labels, with effects in a division, or with such a switch do something else.

### Findings

Each is a run that TLC refutes, with a counterexample of one function.

1. `CodegenLabels`: `(func (result i32) (label (br 0 (i32.const 0))))` is valid; the compiler stops
   at the verifier's assertion (`module.cpp:99-104`), since the label jumps to its exit after the
   jump of the break.
2. `CodegenHidden`: in `(block $a (block $a (nop)) (br $a))` the break goes to the exit of the inner
   block.  `PushLabel` overwrites `mapped_labels_` and `PopLabel` restores nothing
   (`function.h:97-104`).
3. `CodegenDivision`: `(i32.div_s (i32.const 1) (call $f))` executes `$f` twice: `HandleDivRem`
   shares the operand between a comparison and a division (`binop.cpp:158-219`).

4. `LinkShared`: with `$f` in two modules, a call of `$f` in the second is bound to the `$f` of the first.
   `InternalGetWasmFunction` looks up the unmangled name in the module, where only mangled ones are, and
   then in the whole file (`module.cpp:398-426`), before `GetWasmFunction` tries the mangled name in the
   module (`module.cpp:374-396`).  The module itself is skipped, as it ends on a later line.  The verifier
   rejects the function; with verification disabled the program calls the wrong one.
5. `ScriptNaN`: assertions compare with an equality that holds whenever a value is NaN, so
   `assert_return_nan` holds whatever the function returns, and `assert_return` when it returns NaN.

6. `MemoryStale`: after a `grow_memory` that moves the block, the function, and each one that was active, goes on
   loading and storing where the block has been (`local_base_`, `function.cpp:222-232`).  The base is also loaded
   before the operand of `grow_memory` is evaluated (`memory.cpp:215`), so a grow in the operand makes `realloc` get a
   block that has been freed.  The counterexample is of the first kind, which needs fewer steps; with `Widths = {}`, that
   is without loads and stores, TLC finds one of the second kind.

Preconditions of properties that hold are deviations as well:

* `RepeatedRefused`: `(i32.div_s (block (i32.const 1)) (i32.const 1))` is valid; the block is generated three times,
  and the second time its phi has the entry of the first time too, since nothing empties `incoming_phis_`
  (`expression.cpp:379`).  The verifier's assertion stops the compiler; with verification disabled the phi is not valid in LLVM.
* `CalleesDeclared`: `InternalGetWasmFunction` creates a prototype for each look-up in another module, even
  when there is one ("If it does not exist in our module, let us create a prototype.", `module.cpp:415`).  LLVM
  renames the second one of `wm_1_f` to `wm_1_f1`, which is the mangled name of `$f1`, whose own
  prototype is then renamed to a name that nothing defines.  A call of `$f1` is printed with a name that is declared
  as `$f`, which matters when their types differ.
* `ValidLinked`: a valid file is stopped at its first call of an import when the memory of the import was not null, for the
  constructor leaves `function_` alone (`import_function.h:54-57`) and `GetFunction` tests it.

Met while modelling, and not a run: a second import of one function of the host is renamed like a second
prototype, and so is an intrinsic used twice outside of the last module, which the verifier may
reject then (`HostedByName` and `ValidLinked` leave these out).  `assert_return_nan` takes the type of its
function from the last module of the file that exports the name.  `grow_memory` never consults the maximum
(`module.h:168`), its `Codegen` ends without a value (`memory.cpp:228`), and the alignment of loads is not used.
The parser stops at an import without a name (a string is constructed from null), at a second memory
(`module.h:160`) and at an `assert_return` with two results (`wasm.ypp:910`); two comments on a line are one, with
all that is between; parentheses in strings and remarks within `assert_invalid` are counted, and its loop
waits for 0 at the end of the text, where EOF is -1.

## Proofs

`ExprCodegenProofs` proves, for every function of any size over any set of label names, switches of any size included:

* `TypeCorrect == Spec => []TypeOK`.  `TypeOK` is inductive.  Beyond types it says which blocks a
  method holds at which point (a loop two or none yet, an if three after its condition, a switch one for each
  operand it is past, besides its exit), that all
  blocks mentioned anywhere exist, and that node 1 is the function and nothing else is.
* `LabelsDisciplined == Spec => []LabelDiscipline`: `labels_` is at every step the concatenation of
  what the active methods have pushed.

The only assumption is `NoNameIsNoName`: "no label" is no label name.

`LabelDiscipline` is not inductive as it stands: when a construct pops its labels, that what remains
belongs to the frames below needs that the bases of the frames are ordered.  The invariant is
`TypeOK /\ LabelInv` with `LabelInv == LabelDiscipline /\ Nested`.  Proof layout: lemmas about the
operators (`Emit`, `Append`, `SubSeq`, frames), then for each of the two invariants one lemma per
action, then the cases of `Next`, then the temporal step.  `HandleDivRem`, which extends `ast` and
shares operands, is the reason why `TypeOK` says of an operand only that it exists, and not that it
comes after its parent.

`ExprScopeProofs` proves, of the same functions, `BreaksReachScopes == Spec => []BreakTargetsScope`: in a valid function
in which no label hides another one, a break jumps to the exit of the expression its label means, or to the head of it if
it means the inner label of a loop.  Scoping is a matter of the tree: `ScopesAt` follows the parents of the break.
The compiler knows nothing of parents: it has a stack of methods, `labels_` and `mapped_labels_`.  The invariant
`ScopeInv(home)` holds them together by a function `home` from nodes to the scopes they are in.

* Along the tree (`IsHome`) an operand is in the scopes of its expression and those this one opens for it; along the
  stack (`OnStack`) a method is in the scopes of the one below and those whose labels that one has pushed.  So a switch
  that comes to its selector must have dropped its label, and not before (`SwitchSelectorScopes`).
* `home` exists for the initial states because the parser builds a tree (`IsTree`; `OneMoreHome` adds one node), and
  after `HandleDivRem` another one does: the nodes it makes share operands, and so have to be in the scopes of the
  division (`DivRemNodes`, `HandleDivRemScopes`).  For the expressions of the program `home` is `ScopesAt`, of which there
  is only one (`OneFollows`).
* A break by index is right because `labels_` corresponds to the scopes, position by position (`AllInScopes`, from
  `LabelDiscipline` and `OnStack`).
* A break by name is right because each name of an open scope is mapped to the block of that scope (`NamesMapped`).
  Nothing of this survives in `mapped_labels_` when a label hides another; without one, what is pushed
  has a name that no open scope has (`OwnNamesFresh`).  A block that has been closed stays in the map, which does no
  harm: another expression of that name overwrites it before a break can mean it.

Induction over the tree is induction over positions, for operands come after their expression.  It is derived from the order
of `Nat` being well founded (`AllUpTo`).

The attempt showed that `NoneHidden` had been too weak and that TLC had not seen it: it considered only scopes around
operands, so the inner block of `(block $a (block $a) (br $a))`, which has none, counted as hiding nothing.  It now considers
every label, and the vocabularies have named blocks without operands.  `Supported` turned out not to ask for
it at all: `(block $a (block $a) (br $a (i32.const 0)))` met each of its clauses and is rejected, since the value goes to the
block of the inner one.  It does now, and a vocabulary has such functions.

`ModuleLinkProofs` proves, for files of any number and size of modules, any names and letters:

* `MangledNamesUnique == Spec => []DefinitionsUnique`.  The invariant `NamesInv` adds to it where the
  compiler is and that a name has the prefix of its module: names of one module differ because of the
  loop of `MangleFunctionName`, those of two modules because of the prefix, which is why the loop may
  leave out the other modules.
* `PrintedNamesDeclared == Spec => []PrintedDeclared`.  The invariant `DeclaredInv` says that all functions
  in the tables of a module have their names in its LLVM module (`TablesPresent`), which holds before and
  after the exports replace the tables, and that nothing is bound before all names are made (`BoundLate`):
  a name may not change once it has been printed.

`LinkTyped == Spec => []TypeOK` (what tables, declarations and calls refer to exists, and so does the place the compiler is
at), in the same module, needs more than `TypeOK`: `ProgressInv`, that the file stays as parsed
and each module has as many names as `at` says; and `TablesKnown`, what a table holds: the module's functions
under their mangled names until it is generated (`InternalTable`), then what its exports stand for
(`MeantTable`, where the last export of a name counts).  `LinkInv` is their conjunction with the invariants above, on which
what follows rests.  `SymsFinite` is there because LLVM ends its search for a number only if finitely many are taken.

`ModuleLinkBinding` proves what calls are bound to:

* `OwnCallsBound == Spec => []UnsharedBindOwn`.  The invariant `BoundPlaced` says that each bound call stands
  somewhere in the file.  A binding is right when it is made, because a module not yet generated has only names of its
  own in its table, and one already generated only its exports, and stays so, because the file does.
* `InvokesBound == Spec => []InvokesBindExports`, for valid files.  Invokes are generated after all modules, when every table holds
  the exports; the walk of `WasmFile::GetWasmFunction` then ends at the greatest module number that exports the name
  (`GreatestNumber`), which is the last one above the invoke.  The type of an assertion of NaN is looked up without a line and comes from the
same function unless a module below exports the name.
* `HostsKeepNames == Spec => []HostedByName`, for files that need not be valid, and calls whose name nothing else has a
  claim to; of those that LLVM renames it says nothing.  The invariants `SymsKnown`
  (each symbol of an LLVM module is a function, or an import or intrinsic under its own name, or a numbered one
  that something else had a claim to) and `HostedKnown` (the same of what has been printed) relate the symbol table
  to the calls generated so far.
* `ValidFilesLinked == Spec => []ValidLinked`: no assertion and no verification stops a valid file, if it has no
  call of a name that a module above has too, no repeated intrinsic outside the last module, and no call of a stray import
  (`LinkShared` shows a file of the first kind that is stopped).  That linking ends is not
  part of it.  By the invariants, each step of a valid file finds
  what it looks for (`MangleSucceeds`, `CallSucceeds` and a lemma for each other step).

The assumptions are the types of the constants (`FlatTyped`, `LettersTyped`, `MaxTailTyped`, `IntrinsicsTyped`), and that a name
in the text, which begins with a `$`, is neither an index nor a mangled name (`KindsDisjoint`, `IdsUnlikeNames`).

`LinearMemoryProofs` proves, for a heap, segments, accesses and bounds of any size:

* `MemoryTyped == Spec => []TypeOK`, `GlobalsAgree == Spec => []BaseLive` and
  `BasesCurrent == Spec => []CachedCurrent`.  The invariant `MemoryInv` is their conjunction with
  `QuietStart`: nothing is allocated or called before `wasm_llvm_init` has run.  `BaseLive` needs the part
  of `TypeOK` that blocks are disjoint, for the block that is found at an address must be the only one.
* `MemoryImplements == Spec => Contract`.  The bytes of `WasmMemory` are the `size` cells from `base` on, its
  invocations are the frames without their addresses.  Each step maps to a step of `WasmMemory`.  The
  argument has three parts: an access in bounds by an invocation in which nothing has grown lies in an
  allocated block (`SoundOwned`), hence is not wild and touches the cell meant; `realloc` of the current
  block keeps the bytes that fit (`ReallocKeeps`); the history of the frames is that of the abstract
  invocations after a grow (`GrownMaps`).

The assumptions are the types of the constants (`HeapTyped`: addresses are positive; `SizesTyped`,
`AccessTyped`, `SegmentsTyped`), the last of which also has the segments disjoint, as WASM wants.

`ScriptRunProofs` proves, for scripts of any length, any lines and any results of functions:

* `ScriptTyped == Spec => []TypeOK` and `FirstFailureFirst == Spec => []FirstFailureReported`.  The invariant
  `ScriptInv` follows an element from the text to its call.  While the parser runs, the element of number n is waiting
  or has been added, and its body is that of the element of the text with n-1 before it that make one (`ParsedInv`);
  then the n-th call of `execute_script` is that of element n, whose function has this body (`GeneratedInv`); then all
  calls before `pc` that are not for the handler have been made, in order, and none but the last has
  failed (`RunInv`).  The place of an element in the text is the cardinality of a set rather than a
  filtered sequence, which makes places grow with positions (`PlaceGrows`) without an induction.

The assumptions are `LinesTyped` (a line is not the answer -1), `ScriptsTyped` and `NumbersTyped`.

`FileParserProofs` proves, for any set of texts, well formed or not:

* `TextScanned == Spec => []TypeOK`, by the invariant `ParserInv`.  That only the innermost form is being collected, and
  never has fewer symbols than its rule begins with, rests on two facts that `TypeOK` does not have: a form is
  being collected only while what ends it is the lookahead (`EndInSight`), so that no form can be opened inside of it; and
  a load or a store never is, so that `OffsetAlign` replaces the symbols of a form none of which is collected
  (`GrammarTyped`).  The line is right after a comment because the scanner's longest match exists (`CommentHasEnd`)
  and spans no newline.
* `LinesAscend == Spec => []LinesInOrder`.  This is what `ModuleLink` takes for granted of lines (in `IsParsedFile`), and what
  the look-ups by line depend on.  An object `Spans` two lines if it is in a set that has the operands of each of its members
  and no line outside of the two; an object that is built of others spans what they span (`SpansBuilt`), so that no step
  of the proof looks below the topmost symbols.  The invariant `LinesInv` says of each open form that its symbols,
  and what it is collected in, span from the line of any symbol that is complete in the file to the line that is read
  (`FrameLines`): a form that is open has begun after them.  A module that is being collected has the line that is
  read, for there is no newline between its parenthesis and the reductions (`NotSkippedFolding`, `ScannerLines`).  When the
  file itself is collected, what is left on the stack comes before all that has been taken, so the invariant
  (`FileSpans`) relates what has been collected to the lines of what is left, at both ends of the two lists.

`Within`, the objects below others in `LinesInOrder`, and `FormsOf` are recursive functions: that they exist, and what they are,
is shown from the order of `Nat` being well founded (`OneByOne`, `WithinExists`, `FormsExist`).

The assumption is `ScriptsTyped`: a text is a sequence of lexemes, those that open a form have a keyword, and other tokens
are of the classes of the scanner.

`NumberOpsProofs` proves, for integer types of any two widths above one bit, floating point types of any two precisions
and any largest number, any sizes in memory and any bound on the operands that wait:

* `NumbersKeepTypes == NumberSpec => []NumbersTyped`, `ExpressionsComputeWasm == NumberSpec => []ValuesAgree` and
  `OnlyTrapsUndefined == NumberSpec => []UndefinedTraps`.  The three follow from one invariant, `NumberInv`: while the
  program runs, each operand is a record of two equal values of its type, and the cell holds what was stored; once it is
  apart or has trapped, their types are still right.  None of the properties is inductive alone: what an instruction makes
  of two words is a word only if they were words of one width, and it is that of WASM only if they were equal.

The argument starts below the state machine.  Induction on natural numbers, for a set in the place of a predicate, is derived
from the order of `Nat` being well founded (`AllNaturals`), and the existence of recursive functions from it
(`Recursion`), so that powers of two and sums of bits can be reasoned about at all.  Then come words: wrapping is the inverse of
reading a word as a signed number (`ValuedWrapped`), an `i1` in the place of an `i32` does not matter to the operations
named in `SafeOnBooleans` (`BooleansCompared`, `BooleansCombined`), and `HandleDivRem` gives the quotient and remainder of WASM or
WASM traps (`DivRemAgrees`).  Then numbers of a format: the nearest one is of the format (`NearestRepresentable`), which is the
fixed points of `Nearest` (`RepresentableNearest`); so each operation stays in its format, `0 - x` is `-x` but for +0
(`ZeroMinus`), and a conversion by way of a double is exact if the double is (`ThroughDouble`).  Last, one lemma per
action, through `Arrived`, which says what a delivered value does to the state.

The assumptions are `WidthsOrdered`, `SizesTyped`, `TypesApart`, `PrecisionTyped` (a double has no less precision than
a float) and `LargestTyped` (the largest number is an integer: otherwise `CEIL` could leave the format).

Only model-checked, and why:

* `SupportedAccepted`, `ValuesArrive` and `MeaningKept` relate the tree to the blocks generated from it: outcomes,
  dominance and runs, all of them recursive, over graphs that change with each step.  Nothing short of a compiler
  correctness proof shows them for functions of any size.
* `FileHoldsText`, `LinesAreEnds`, `LinkAssumed`, `CodegenAssumed` and `WellFormedRead` read the objects of the file by
  recursion over their structure, in `RECURSIVE` operators, about which `tlapm` proves nothing; `LocalsNumbered` compares
  with the text by folds over sequences.  Of what `LinkAssumed` says, the order of lines is proved, as `LinesInOrder`.
* Both `Terminates` are liveness.

## Plan

In the order of importance; each module comes with its MC module and runs.

1. `ExprCodegen` with its properties and proofs, tableswitch included, and `WasmMeaning` (done).  Left: operands that
   are passed to functions, with their types.
2. `ModuleLink` with its properties, imports and intrinsics included, each of them a theorem (done).  Left: an abstract
   specification in which a call is bound to the function it names, implemented for files without shared names.
3. `LinearMemory` with the abstract `WasmMemory`, its invariants and the refinement, checked and proved
   (done).  Left: a run with two memories of two modules, initialised by the glue module.
4. `FileParser` with its links to `ModuleLink` and `WasmAst` (done), with theorems about the state of
   scanner and parser and about the order of lines.
5. `IntegerOps` and `NumberOps` against `WasmInteger` and `FloatArithmetic`, with theorems (done).  Left: bit patterns, which
   reinterpretation, NaN payloads and floating point numbers in memory need.
6. `ScriptRun` with its theorems (done).

## Not modelled

* How characters make up names, numbers and strings (`simple.cpp`, most of `wasm.flex`): no state of this program.
* The glue code that initialises memories: one call for each module; its effect is `SetMemoryBase`.
* LLVM's optimisations: external, and verified by the same assertion after they ran.
* Prototypes, allocas and the passing of arguments: straight-line code.
* Square roots and reinterpretation: operations on bit patterns.
* Options, printing, dumps, the print library, and the C programs under `compile_tests` and `perf_tests`, which are
  inputs and measurements: more than six thousand lines of generated multiplications are no part of the compiler.
