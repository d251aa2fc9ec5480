# CUDA Tile IR: TLA+ models of the bytecode and the passes

This directory holds TLA+ modules that model the CUDA Tile IR compiler
library, the TLC configurations that check them and proofs that TLAPS checks.
The repository is an MLIR dialect (`cuda_tile`), its bytecode format with a
writer and a reader, a few passes, and the generators and bindings around
them. Everything in it is sequential: there are no threads, no messages and no
persistent state. What is hard here is *order* and *agreement*: a writer and a
reader, written apart, that must number the same things in the same order;
tables that are filled by recursive calls while others already use their
indices; caches and recursion guards on input that comes from a file; versions
that leave out fields; and machine integers.

## 1. Inventory

| Component | Where | State it keeps | Operations | What makes it correct |
|---|---|---|---|---|
| String, type, constant and debug-info tables of the writer | `lib/Bytecode/Writer/BytecodeWriter.cpp` 256-1046 | a map item -> index and a list per table | get-or-create an index (recursively for types and debug info), write the section | an index once handed out is the item's position in the section; parts before wholes; nothing is added after the section's count |
| Function bodies, written | same file 1085-1630 | `valueIndexMap`, `nextValueIndex`, the location list of each function | write an operation, a region, a block | dense numbering of the values in scope; rollback at the end of a block; locations in the order of the operations |
| Sections and driver, writer | same file 181-221, 1643-1832 | the output stream | header, one function per section, the end byte | a section is written after everything that adds to its table; a failure leaves no end byte; nothing is lost silently for an old version |
| Lazy tables of the reader | `lib/Bytecode/Reader/BytecodeReader.cpp` 524-711, 968-1336 | cache, `currentlyParsing` | get a type or an attribute by index, recursively | the answer depends on the table alone; cyclic input ends |
| Function bodies, read | same file 1340-2135, 2454-2588 | `valueIndexList`, the location iterator | parse an operation, a region, a block | resolves every operand and location to what the writer meant |
| Sections and driver, reader | same file 309-520, 715-960, 2160-2450, 2600-3044 | `sectionPayloads`, tables | discover the sections, parse them in dependency order, create globals and functions, `getBytecodeSize` | rejects what it cannot represent; agrees with `getBytecodeSize` on where the bytecode ends |
| Encodings | `EncodingWriter` 65-168, `EncodingReader` 94-305, attributes and constants (writer 548-697, 1147-1460; reader 774-860, 1560-2000) | the cache of constants | varint, zigzag, fixed width, padding, i1 packing, attributes by tag | decoding inverts encoding over the full width; what is accepted from foreign bytes is an attribute the writer could have written |
| Versions | `lib/Bytecode/Common/Version.cpp`, `lib/Bytecode/Analysis`, `tools/cuda-tile-tblgen/Bytecode*Gen.cpp` | none | version comparison, flag words, optional fields and results by version, minimum version of a module | what an old version cannot express is refused, not dropped |
| Passes | `lib/Dialect/CudaTile/Transforms` | the IR | loop split, LICM, FMA fusion, scope synthesis, renaming | the program means the same afterwards and verifies |
| Optimizer | `lib/Dialect/CudaTile/Optimizer` | configuration, module, outputs | check the configuration, load, run the pipeline of a level, write the outputs | success means every requested output holds the result |
| Dialect | `lib/Dialect/CudaTile/IR`, `include/cuda_tile` | the IR | folds, canonicalizations, verifiers, type inference; parsers, printers | verifiers reject ill-formed IR; rewrites keep the meaning and end |
| C and Python bindings, tools | `lib/CAPI`, `python`, `tools` | none of their own | forward calls, command lines | pass arguments through |

How they interact. `writeBytecode` first walks the functions' signatures and
locations (`buildFunctionMap`), then the globals, the function bodies, and only
then writes the tables that all of these filled: constants, debug info, types,
producer and, last, strings, because every table before may still add strings.
The reader finds all sections first and parses them in the order of their
dependencies: strings, producer, types, constants, globals, debug info,
functions. Types and debug-info attributes are parsed when an operation asks
for them. The only shared state are these tables; the only way from the writer
to the reader is the file. The operations themselves are written and read by
generated code, and a third generated piece, the minimum-version analysis, has
to know what both of them do with every version. The optimizer is a pipeline:
load, passes with the verifier after each, outputs.

What lies outside: the C++ standard library, LLVM and MLIR (maps, uniquing of
types and attributes, walks, the rewriter), and whatever executes a compiled
kernel. Where a model needs them they are described by what the repository
relies on, and marked external in `PROJECT.json`.

### Behaviours that are hard to test

`PROJECT.json` lists them under `hazards`, each at its line. The common thread:

- An index is handed out while its table is still growing, and resolved when the
  table has long been written. Nothing in the file names the thing itself, so a
  slip shows as *another* type, value or location, not as an error.
- Writer and reader count the same things with different data structures:
  values in scope (a map with a counter against a list), locations (rows
  against one iterator), bytes (stream position against buffer position).
- State lives across the units it belongs to: the value map across functions,
  the recursion guard and the caches across requests.
- What an older version cannot express must be refused or have its default.
- The loop pass computes with integers that wrap, on values it does not know.
- Greedy rewriting applies a dozen patterns in an order nobody fixed, to code with
  early exits, and every intermediate program must verify and mean the same.
- A debug scope is right only in relation to its function's name and to the scopes of
  all other operations in it; passes change one of the three.

## 2. Modules

| Module | Models | Composes |
|---|---|---|
| `IndexTable` | the numbering of types and debug info by the writer | implements `DependencyLog` |
| `DependencyLog` | abstract: a log that appends an item once, after its parts | |
| `LazyTable` | reading types and debug info on demand | |
| `FunctionBody` | values through operations, regions and blocks, written and read back | writer and reader in one behaviour |
| `DebugIndices` | location rows, their offsets, the reader's iterator | writer and reader in one behaviour; takes indices of attributes as `IndexTable` proves them |
| `DebugScopes` | scope synthesis, renaming and the debug-info verifier, in front of the writer | all of `DebugIndices`, which it implements |
| `BytecodeFile` | header, sections, shared tables, versions, `getBytecodeSize` | writer, stream and reader in one behaviour |
| `LoopSplit` | the loop-split pass and a run of its output | `TileLoop`; implements `ForLoop` |
| `ForLoop` | abstract: what `cuda_tile.for` promises | `TileLoop` |
| `TileLoop` | machine integers, comparisons, branches and continue (external) | |
| `Fields`, `TypeFields`, `AttributeFields`, `OperationFields` | what the generators emit to write, read and score types, attributes and operations | each the one before |
| `Releases` | a module analysed, written for one version, read by another release | `OperationFields` |
| `Encodings`, `Pools` | numbers in bytes; string, type and constant sections | `Encodings` in `Pools` |
| `DebugAttributes`, `Attributes` | the bytes of debug-info attributes, and of every attribute of an operation, written, read back, or read from anywhere | `Pools` |
| `StructuredCode`, `CodeMeaning` | the code the passes work on and its verifiers; what it does | |
| `IfRewrites`, `SelectRewrites`, `FloatRewrites`, `LoopInvariants` | folds and patterns of `if` and `select`, fusion, LICM | `StructuredCode` |
| `Optimizer` | `optimizeTileIR`: configuration, pipeline, outputs | all rewrites, judged by `CodeMeaning` |
| `Selection` | the elements of a list that a loop does not skip | in `Fields` and `BytecodeFile` |
| `SequenceFacts` | lemmas about sequences: stacks, joins, beginnings, selections; and for the inductions of section 5 | |
| `IndexTableProofs`, `LazyTableProofs`, `DebugIndicesProofs`, `FunctionReplayProofs` (of `FunctionBody`), `BytecodeFileProofs`, `LoopSplitProofs`, `ReleasesProofs` | the theorems of the module they are named for | |
| `MC*` | constants for TLC; `MCLoopSplit` serves three runs, which choose their set of loops in the `.cfg` | |

Each module with a run also holds the wrong forms of its definitions that its
properties must notice (marked as mutants); `PROJECT.json` says which is for which.

**IndexTable.** `list` and `index` are `typeList`/`typeIndexMap` and
`debuginfoList`/`diIndexMap`. The C++ recursion is `stack`, a frame per active
`getTypeIndex`/`getDebugInfoIndex`; `RequestKnown` and `RequestNew` are a call
from a section writer, `RegisterPart` a step of `registerDependentTypes` or
`registerDebugInfo`, `RegisterItem` the end of a call. `StartSection`,
`SerializePart` and `FinishEntry` write the section, which asks for indices
again. The parts registered before an item (`Deps`) and those whose indices its entry holds (`Fields`)
are listed apart, as they are in the code, which keeps the second among the first
(`FieldsAssumption`); a part that is only in the second would be registered after the count. The two tables are instances: types have `Base = 0` and no reserved items,
debug info has `Base = 1` and reserved locations. `answer` and `out` remember
what went into the file, so that properties can relate it to the final table.

**LazyTable.** `cache` is `typeCache`/`diCache`, `parsing` is
`currentlyParsing`, `stack` the recursion and `ret` the value of the call that
just returned. An entry of the file is abstracted to whether its slice lies in
the payload, its kind, the parts it asks for with the kinds it accepts, and
whether its own content is valid. `Call` is the lookup with its early returns,
`BadSlice`, `TakePart` and `Finish` are the ways on and out, and `Fail` clears
the mark as the scope exit does.

**FunctionBody.** The IR is chosen while the writer walks it, with operands
among the values SSA dominance admits. `WriteOp`, `WriteRegion`, `WriteBlock`,
`FinishBlock`, `FinishOp` are the calls of the writer and their ends,
`ReadOp` ... `EndFunction` those of the reader. `valueIndexMap` is kept between
functions and cleared by `StartFunction`, as in the code. A lookup of a value
that is not in the map gives 0, as `MapVector::lookup` does. `RefuseOp` is the
error for a used result that the target version lacks.

**DebugIndices.** `AddFunction` numbers the function and, unless its location
is reserved, makes its row; `WriteOp` appends the location of an operation;
`WriteOffset`, `WriteRow` and `WriteAttributes` are the section. `CreateFunction`
and `ReadOp` take the next location from the iterator, `NextLoc`, with its
bounds as they are. `MayLocate` is what `DebugInfoVerifier` lets through.

**DebugScopes.** Locations are trees here. `code` is the module as it is,
`source` as it was given. `RunPass`, `SynthesizeScope` (a function each) and
`PassEnds` are `SynthesizeDebugInfoScopesPass`; `Rename` is `updateSymbolName`
within a function or the whole module, before or after the pass; `Verified` is
`DebugInfoVerifier`, and `StartWriting` asks it first, as `writeBytecode` does.
From then on the actions are those of `DebugIndices`, fed with the functions and
operations of `code`; a location that passed the verifier and not `MayLocate` would
deadlock, and `WritesVerifiedCode` says that the rest is a behaviour of `DebugIndices`.

**BytecodeFile.** `table` holds the four managers; `After` is the order of the
sections in `writeBytecode`, and each `Write*` action adds to the managers and
emits its section. Bytes count because padding does; the sizes of entries are
made up. `Deliver` hands the reader the file, a part of it, or the file with
more behind it; `ReadSection` ... `CreateFunctions` is `readBytecode`,
`Measure`, `SkipSection` and `FindSize` are `getBytecodeSize`.

**Fields to Releases.** A declaration is a list of fields with the version each
came in; the declarations are constants, restricted by the assumptions the
generators enforce (`TypesAccepted`, `AttrsAccepted`, `OpcodesAccepted`,
`OpAccepted`). What nothing enforces and the dialect happens to obey is kept apart and says so:
`Unforced` (optional parameters of a type), `AttrParamUnforced` (later parameters of an attribute),
`OpUnforced` (fallbacks, later operands and results), that opcodes of a later version are greater
(`OpcodesAssumption`), that an enum case in a type is as old as the parameter that holds it
(`TypeValueAccepted`) and that a result of a later version has a type no later than itself
(`LaterResultsUnforced`). The values, types and operations in use obey the declarations, as the verifiers see to
(`ValuesAssumption`, `TypeValuesAssumption`, `InstancesAssumption`). `OpTokens` is the generated writer, `ReadOp` the generated
reader, `OpVersion` the generated check of the analysis; a token is what one write
call emits. `Releases` builds a module, analyses it operation by operation with the set of
types seen (`AnalyseOperation`), writes it for any target, and lets every
release from that target on read it, which knows only the fields of its time.

**Encodings to Attributes.** Bytes with `Payload` + 1 bits and words of `WordBits` stand
for 8 and 64. `VarInt`, `ZigZag`, `APInt` ... and their readers compute with them;
`Pools` lays out sections with counts, padding and offsets; `Attributes` writes an
operation attribute by attribute (`WriteOpAttribute`), then its sections, parses
these and reads the attributes, with the constants in a cache. A job may instead
give the bytes, any bytes, and only read.

**StructuredCode to Optimizer.** A block is a sequence of operations with regions;
`Verifies` is the verifiers of control flow and dominance. A rewrite is an operator from a
block and a position to the blocks it may leave. `Optimizer` has an action for each
phase of `optimizeTileIR`; in a greedy pass *any* rewrite anywhere may be next, so that the
driver's worklist order is one of the behaviours. `Meaning` runs code lane by
lane in a world that gives the inputs; values are terms, so an operation the rewrites
do not look at stays a symbol, and a product that feeds an addition counts as fused
under the conditions the fusion has. A run that is undefined (division by zero)
permits anything afterwards.

**LoopSplit.** `WalkOp` looks at one branch as the pass does and, if it can,
splits; `CopyLoop` makes the copy for one side: the clones (`Cloned`) in a body that is empty if the
loop carries values (`carries`), and has a continue of its own if it carries none, as
`ForOp::build` leaves it. The verifier that runs after the pass accepts the copies or not
(`Accept`, `Refuse`). What it accepts runs: `RunFirst`,
`StartSecond`, `RunSecond`, or `RunKept` if nothing was split. The variable `ran`
records for each iteration the value and what was done, and is what `ForLoop`
sees. Operations leave no more than a trace.

## 3. Runs

| Run | Question | States |
|---|---|---|
| `index_table` | Is every index right in the end, and does numbering and writing end? | 6,500 |
| `lazy_table` | Does a table from a file, whatever it holds, give answers that depend on it alone, and always an answer? | 1.1 million |
| `function_body` | Does every operand come back as the value it was? | 1.3 million |
| `debug_scopes` | Does every operation get its own location back, whatever passes and renaming did, and does the module always verify? | 186,000 |
| `bytecode_file` | Is a file complete, accepted if whole and rejected if not, and is it the module again? | 0.8 million |
| `encodings` | Does every attribute survive its bytes, and is what foreign bytes are read as legal? | 74,000 |
| `releases` | Do writer, reader and analysis agree about every version, and in every release? | 57,000 |
| `min_version` | Does the analysis answer a version that supports the module? Not always: finding 3. | violation |
| `optimizer` | Does every rewrite keep meaning and validity, does rewriting end, and do the outputs hold the result? | 33,000 |
| `split_exact` | Does the split loop do what the loop did, when the split point does not wrap and the verifier accepts it? | 1.2 million |
| `split_wraps` | ... and when it does? It does not: finding 1. | violation |
| `split_refused` | Does the verifier accept what the pass leaves? Not if the loop carries nothing: finding 2. | violation |

Bounds. All are named constants and appear in the `.cfg` files.

- `index_table`: eight debug-info items with every shape the recursion has: shared
  parts, a part twice, a chain of five, a reserved part. The theorems hold for any
  items, so the run is there for liveness and to exercise every action.
- `lazy_table`: all tables of three entries with two parts of any index (cycles of
  every length up to three, references out of range), and all tables of two entries
  with two kinds and a reserved index. A mark or a cache entry that is left over
  shows with two entries already.
- `function_body`: two functions are enough to see state that leaks from one to the
  next; five operations make an operation after a region in a region, and two
  sibling regions; a block or a function has up to one argument.
- `debug_scopes`: about a thousand modules. One function with a location of each of eight
  shapes (a scope directly, in a block, inside a fused location, only in a callee, ...) and up
  to two operations with as many shapes, of which the verifier lets 980 modules
  through in all; two functions that share scopes in callees; three functions, so that a row
  lies between two others, or a function without a row between two with one. Two
  renamings, of any function, before or after the pass, within the function or the module, so that
  a function may take the name another gave up.
- `encodings`: bytes of three bits, words of seven, so that a varint has up to four bytes
  and one bit in the last, as ten bytes and one bit in the code; 32-bit offsets of two
  bytes, so that a section can outgrow them. One or two attributes of every kind per operation;
  every foreign body of up to three bytes for every kind; types with tags and
  slices nobody wrote, with bytes missing or left over.
- `releases`: four versions and a declaration of every kind of field (required, optional, unit,
  variadic, sized, with a default or a rank for older versions, evolved enum cases and
  parameters), up to three operations, every target and every release. Versions
  13.1, 13.2, ... are 1, 2, ...
- `optimizer`: about 1,500 programs of two conditionals in all their combinations of
  exits and yields, nested ones, selects over every fold, sums of products with both
  roundings, loops with divisions by constants and by unknown values; eight worlds for the
  conditions; loops run up to twice. Each program goes through the pipeline that concerns it.
- `bytecode_file`: three items that share names, types, constants and files, each
  version from 13.0 (refused) to 13.4, streams at 0, 3 and 8. Files of up to two
  items in versions 13.1 and 13.3 are cut at every byte.
- `split_exact`, `split_wraps`, `split_refused`: integers of three bits; the
  arithmetic has no case that needs more, as steps, bounds and values range over
  all of them. Bodies have two comparisons and up to three more operations, in loops
  that carry values and in loops that do not; the loops of `split_refused` carry none.

Fairness. `FairSpec` of `IndexTable`, `LazyTable` and `FunctionBody` says only
that code that can run does run (`WF` of the straight-line steps `Run` or
`Read`): everything is one thread. Nothing is assumed of callers; they need not
ask for anything. `Optimizer` states the same with a formula, `[]<>(phase \in Ends) \/
[]<><<TRUE>>_vars`: until it has ended there is always a step, and one is taken. Which of
the rewrites that match is taken is left open for ever, so `Settles` covers every
order of the greedy driver.

Liveness is where it says something about the code: the recursion on a cyclic
table ends (`RequestsReturn`), numbering and writing end though writing asks for
indices (`CallsReturn`, `SectionFinishes`), reading a body ends (`ReadingEnds`), and no
two rewrites undo each other (`Settles`). The debug, file, release and encoding models
have a bounded number of steps by construction and state no liveness; deadlock is checked in
the first two.

Every module has a type invariant, `TypeOK`. Those of `IndexTable`, `LazyTable`,
`DebugIndices`, `FunctionBody` and `LoopSplit` are proved (section 5), and what `FileInv`
says of `BytecodeFile` and `Shape` of `Releases` is more than types; the others
were checked and are not listed as properties of runs. The wrong forms of definitions are
run one at a time, each with the property it must break.

## 4. Findings

1. *Split points wrap* (`LoopSplit.cpp:297`, `:291`; run `split_wraps`). For an
   unsigned loop whose split value lies below the lower bound, `splitPoint - lb`
   wraps, and the rounded split point lands inside the range at a place that is not
   even aligned. For `<=` and `>` at the greatest integer the point is the least
   one. `split_exact` shows that nothing else is wrong with the arithmetic: its
   `Exact` loops are those whose intermediate values are all representable.
   Signed loops are affected too when `splitPoint - lb` overflows.
2. *A loop that carries nothing is split into code that does not verify* (`LoopSplit.cpp:194`; run
   `split_refused`). `copyLoop` makes the new loop without a builder for its body. If the loop carries
   no values, `ForOp::build` then puts the default continue into it (`CudaTile.cpp:2798`), and the
   clones, with the continue of the old body, go in front of that. Each copy has a continue in
   front of its last operation, and the verifier refuses it: the pass fails on a valid module. All loops that the
   tests split have `iter_values`, so no test meets it. `CopiesWellFormed`, in
   `split_exact`, says that this is the only way in which the copies are ill-formed.
3. *The minimum version may not be enough* (`MinVersionAnalyzer.cpp`, `BytecodeGen.cpp:1016`; run
   `min_version`). The analysis asks for the version of attributes and of the types of
   operands and results, not of the type of an attribute's value; a global whose
   value has elements of the youngest float type gets 13.3 and cannot be written for 13.3.
   `RefusalIsForeseen`, in `releases`, says that nothing else is missed but, where a
   declaration has one, a type's own parameter of a later version.

Seen while reading, and not findings of a run:

- The test of `LoopSplit.cpp:131` for a loop invariant asks whether the value's defining operation is in the
  loop. A value the loop carries is a block argument and has none: the loop is split, and the split
  point uses the value before the loop, where it does not exist. `LoopsAreExact` leaves such loops out.
- `updateSymbolName` looks for a subprogram in the function's location itself
  (`TransformsUtils.cpp:45`), `DebugInfoVerifier` in fused, named and opaque locations, too: a
  function located by one of these keeps its old linkage name and no longer verifies.
  `VerifierAccepts` leaves this case out.
- The reader refuses three sorts of attributes the writer writes: an empty symbol, the
  extreme integers in an array of integers, and a dense attribute inside an array or a
  dictionary (`Unreadable` in `Attributes`).
- `ReplaceYieldWithValue` takes splats of a tile for Boolean constants and would put a
  scalar condition in the place of a tile.

- `alignTo` pads by the position in the *stream*, the reader by the position in its
  *buffer*. They agree when a file starts at a multiple of its greatest alignment
  (0 and 8 in the run; `CompleteAccepted`, `RoundTrip` and `SizeIsFound` say so).
- `readBytecode` takes the last of two sections with the same id, `getBytecodeSize`
  refuses the file. The writer never produces one.
- Comments in the code: the header is described with a varint version where bytes are
  written in little-endian order, and the global section is described as padded to
  8 where neither side pads.

## 5. Theorems

`tlapm` proves all obligations of the `*Proofs` modules and of `SequenceFacts`, for every
value of the constants under the named assumptions, which TLC evaluates in the runs.
`PROJECT.json` lists the results under `theorems`. Each rests on an inductive invariant
that says more than the property; TLC checked it on the instance of the run before it was proved.

- **IndexTable.** Assumed: items are finite trees (`RankAssumption`: types and
  attributes are immutable, so no item is a part of itself) and index 0 is free
  if anything is reserved. The invariant `IInv` adds to the properties the shape of
  the recursion: on the stack each frame is a part of the one below, so ranks fall,
  *no item is on the stack twice*, and all the parts started by a frame below are
  in the list or on top (`CallStack`). That is why the index can be taken after the
  recursion. `SectionProgress` says that while the section is written everything
  asked for is known; `FrozenOnceCounted` and `EntryResolves` follow. That the fields of an item are among the parts registered
  before it is assumed (`FieldsAssumption`), of two lists that must be kept alike by hand; their orders may differ. The
  refinement of `DependencyLog` maps `RegisterItem` to `Enter`, a request that is
  answered at once to `Answer`, `StartSection` to `Close`, and every other step to a stutter.
- **LazyTable.** Nothing is assumed of the tables but their types. `IInv`
  ties the marks to the frames, each frame to the parts it has accepted so far
  (`PartsSoFar`), and each refused entry to a reason that does not go away
  (`RefusedStayBroken`): itself, or a part that is hopeless *or still being
  unwound* - a cyclic entry is refused because of a call below it, and only when that
  call has failed too is the reason in the table. `AnswersAgree` rests on this.
  `AcceptsBuildable` compares with a reference that knows no recursion guard: the entries that can be
  built bottom up in `Size` rounds. One direction: the cache never holds more than its
  own size in rounds gives (`CacheIsBuilt`), and rounds only grow. The other: the refused entries and, while
  a failure is handed down, those being parsed (`Doomed`) are each wrong in themselves or have a part that is out
  of range, of a wrong kind or doomed, too; so no round ever takes one in.
- **DebugIndices.** Assumed: indices of attributes are as `IndexTable` has
  them (distinct, 0 exactly for the reserved). `IInv` relates rows to functions in order, offsets
  to sums of lengths, the flat list to the rows, and the reader's position to
  the locations it gave. `IteratorInRow` follows although the code checks only the
  end of all rows: the reader asks once for each operation that was written. The theorems are
  about any locations that obey `MayLocate`; that verified modules do is what
  `WritesVerifiedCode` checks.
- **FunctionBody, writer** (`MapIsAlwaysScope`). Assumed of the bounds only that they are numbers. That
  the map is the scope is not inductive: when a block ends, as many entries are popped as
  the counter went up, and these must be the block's own. `Scoped` says so for each frame of the recursion:
  the entries of a block lie above the index its end goes back to (`Layered`) and below where
  any block inside it began (`Stacked`), and no value is there twice (`Distinct`), which SSA gives.
- **FunctionBody, reader** (`OperandsAlwaysSurvive`, `FunctionsAreComplete`). Nothing in the
  state tells how the tokens of a body came about. `ReplayInv` therefore says that a *run* of the parser
  over them exists: a sequence of parser states, joined by the parser's steps, from its start to a mirror
  of the writer's present state, where its list of values is the writer's map in order. Each action of
  the writer extends the run by one state (`GoesOn`). Reading then is at a state of that run, and
  as the parser is deterministic it can only go to the next (`ReaderGoesOn`).
- **BytecodeFile.** Assumed: `ModulesAssumption` (what the verifier leaves: symbols have names, values have types) and
  that absence is not a number. `FileInv` has a part for the writer (tables without duplicates that only grow at
  their end; every key of what was written so far in its table; every section in the file just the
  table it stands for; every section's padding a function of its position), one for the
  reader's walk (it has found a prefix of the file's sections, or nothing if the file is cut) and one for what was parsed. An index is
  resolved in a table that is longer than when it was handed out: `IndexStays` is the lemma that
  makes `RoundTrip` true, and `TablesComplete` the one that makes it apply to the section in the
  file. `PartialRejected` holds for any cut, as the end byte is the last and a payload has a length.
- **LoopSplit.** Assumed of the loops what the verifiers leave (`LoopsAssumption`). `ConditionAlwaysFlips` and
  the refinement also assume `LoopsAreExact`: no value on the way to the split point wraps. That is a
  restriction of the loops, not something the code ensures: finding 1 shows what happens otherwise. For every width, the comparison is true on one side of its
  *border* (`FlipsAtBorder`); the split point is the first value of the loop at or past the border (`PointIsAligned`),
  so each copy stays on its side. The copy of a loop that carries values does what the body does, by induction over
  the fold that makes it: both were left by a `continue`, or both have done the same so far (`Agree`). It is also
  well-formed, because what uses a comparison is still behind it; a copy of a loop that carries none never is (two
  continues), and `CopiesAreWellFormed` says both. So what runs is what the verifier has accepted, and `SplitPreservesLoop`
  follows step by step: an iteration of either copy is one of `ForLoop`, starting the second loop is
  a stutter. The model takes the value compared with as fixed while the loop runs, and `LoopsAreExact` leaves out
  loops compared with a value of their own (section 4).
- **Releases.** Assumed of the declarations what section 2 lists, part of it enforced by the generators and part not. `IInv`
  has four parts. `Shape`: every operation that is built is one the verifier lets through, and later operations change
  of it only which results are used. `Looked`: each type that was seen is no newer than the version so far,
  and each operation that was passed asks for no more than it; without the set of seen types this is not
  inductive, as a type is asked about once. `Needed`: the version so far is 13.1 or that of something in the module.
  `Taken`: each operation that was written was not refused, its types are in the table, each type in the
  table has an operation it came from, and a refusal has its operation or its type. `RefusalIsForeseen` combines
  `Looked` and `Taken`: whatever is refused has a version greater than the target, and the
  analysis has looked at all but the two exceptions. `AnalysisIsTight` combines `Needed` and `Taken`. Both go through
  lemmas about one declaration: each bit of a flag word belongs to a field and each field with a
  later version has its bit (`BitOrder`), an opcode is available from its operation's version on and not
  before (`MaxOpcode`), a type in use is registered with all its parts (`Registered`).
- **Releases, what is read** (`EveryReadingAgrees`: every release from the target version
  on understands the file and finds in it the operations and types that were written, nothing dropped). Two halves. *One operation*, `OperationReadIs`: the reader takes the
  tokens of a field where the writer put them and no others, so a walk through the fields ends
  with nothing left (`WalkExists`, one lemma for each reader of a field, up to `OpRead`). It meets
  all the cases in which the two releases differ: a field the reader does not know was not written or has its default, flags
  of unknown fields are behind the known ones (`KnownBits`), a flags field
  the older version lacks means that nothing optional is there, the rank of an operand and of the
  attribute that follows it agree (`RankAccepted`), and results that are left out are the youngest. *The file*, invariant
  `Codec`: there is one list `L` of all values, those of the arguments and then of each operation as
  many results as are written; the writer's index of a value is its place in a beginning of `L`, the reader's
  list is a beginning of `L`; each operation in the file is its tokens with the indices of such a
  beginning, each operation read is the meaning of the one written. The lists differ in length when an index is
  handed out and when it is resolved; that both are beginnings of one list is what makes them agree (`OperandListed`).

*Induction over data.* The provers take no theorem with an operator as its parameter, so induction is
over a set of numbers (`InductionOn`: a set that holds 0 and with each number the next, up to a bound), and a recursive function or a fold
is replaced by a sequence of its values whose existence is proved so (`RecursionExists`, `FoldExists`). All that is proved about
`Intern`, `FlattenSeq`, `CopyLoop`, `Execute`, `Buildable`, `Kept` and `Registered` goes through these.

Only model-checked: liveness, which is out of the provers' reach; the bytes of `Encodings`,
`Pools` and `Attributes`; `DebugScopes` and `Optimizer`. `DebugScopes`, `Attributes` and the
modules of the optimizer recurse over trees with RECURSIVE operators, which the provers cannot
take; their properties stay with TLC.

## 6. Not modelled, and the plan

Left out of the models that there are:

- *Optimizer.* The order of the greedy driver's worklist and its limit of ten iterations: any
  order is allowed, so what is checked holds for the driver's. Removal of common
  subexpressions and dead code and the hoisting of constants are MLIR's, and modelled as far as
  they give the patterns something to match. Loop splitting finds nothing to split there.
- *Encodings.* The swap on big-endian hosts; integers of several words, which no
  type of the dialect has; the serialisers of single dialect attributes, for which one stands.
- *Releases.* Operands that came later in an operation without operand segments, opcodes
  reserved for tests, versions that compare differently as strings (13.10 and 13.9): the
  dialect has none of them.
- *Function bodies.* Operations carry their operands, results and regions there, their
  fields in `OperationFields`, their attributes' bytes in `Attributes`; the three are
  not one file. A younger result in front of an older one is left out, too.
- *Files.* The flags of a function's entry, of which the reader refuses unknown ones, the visibility and the kind they
  stand for (a function that is no entry is refused), and the optimization hints behind them (writer
  1506-1532, reader 2373-2408, 2565-2570); the bytes of such an attribute are those of `Attributes`.
- *Debug info.* Columns; stripping of locations, a pass of MLIR.
- *Dialect.* The verifiers of single operations (shapes, views, memory ordering, hints) and
  type inference: each is a condition on one operation, and repeating it says nothing.

Left out for good: parsers and printers, remarks (text with no state), the verification of a
round trip (a comparison of two modules as text), documentation generators, the bindings and the
command-line tools, which have no state and no decisions of their own; the depth of
the C++ stack; the execution of kernels.

Next, proofs: that a table written by `IndexTable` is one `LazyTable` accepts; that `Encodings` reads back the numbers it writes, for any width.
