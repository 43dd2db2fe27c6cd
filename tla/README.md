# A TLA+ model of the SysY compiler

The repository is a compiler from SysY, a subset of C with `int`, `float`, arrays and functions, to ARM assembly.
This directory holds TLA+ modules that model its core, TLC configurations that check them on small instances, and proofs that TLAPS checks for all instances.
Paths like `LinearScan.cpp` are relative to `src/src`.

Contents: [the system](#the-system), [what is hard in it](#what-is-hard-in-it), [the modules](#the-modules), [the runs](#the-runs), [the proofs](#the-proofs), [disagreements found](#disagreements-found), [abstractions and limits](#abstractions-and-limits), [plan](#plan), [how to run](#how-to-run).

## The system

`main.cpp` runs the passes one after the other in a single thread:

```
 yyparse ──> Ast::genCode ──> Unit::genMachineCode ──> Unit::deadinst_mark ──> LinearScan::allocateRegisters ──> output
 (lexer.l,    (Ast.cpp:         (Instruction.cpp)        (marks IR that has     (calls LiveVariableAnalysis      (MachineCode.cpp:
  parser.y)    tree to IR)                                been translated)       before each round)               assembly text)
```

Each pass reads the structure the one before has built, and some hand information to a later pass through a field that is only read there: `saved_regs`, filled by the allocator and read by the prologue; the stack size, which grows until the output; the true and false lists of conditions.

| Component | State it keeps | Operations | Correct when | Status |
|---|---|---|---|---|
| Lexer (`lexer.l`) | yacc position | a regular expression for each token | — | not modelled: flex does the work |
| Parser (`parser.y`, `SymbolTable.cpp`) | globals that collect what a construct is made of: `curr_array`, `arraylist`, `idlist`, `globle_tmp_paramcalls`/`call_level`, `l_br`, `dims`, `dc_record`, `init_`, `init_array`, `paramsymbols`; the stack of symbol tables | one semantic action for each production | nested constructs do not take each other's parts; every use gets the entry of its declaration; nothing is left over for the next statement | partly: `Parser` |
| Statements and conditions (`Ast.cpp`) | the blocks of the function, the insertion point, true/false lists, the loops' `cond_bb` and `end_bb` | `genCode` of each node, `backPatch`; `break_list`/`continue_list` in the parser | the blocks do what the source does; every branch gets its target; the edges are those of the branches | modelled: `BranchCode`, `ControlFlow` |
| Expressions (`parser.y`, `Ast.cpp`, `Instruction.cpp`) | types and symbol entries of nodes | implicit conversions, constant folding, arithmetic | the code of an expression yields its value in C in a register of its type; folded values agree with it; so does what is stored, passed, returned and tested | partly: `Expressions` |
| Arrays (`Ast.cpp`, `Instruction.cpp`) | `last_hit`, `last_loc`, `tmp_space`, the frame's size | allocation, `memset`, one fetch per dimension, load, store | each item is read and written at its own word; no area overlaps another | modelled: `ArrayCode`, `ArrayAccess` |
| Intermediate code (`BasicBlock.cpp`, `Function.cpp`, `Unit.cpp`, `Operand.cpp`, `Type.cpp`) | instruction lists, edges | insertion, printing | — | partly: as `BranchCode` needs them |
| Calls and frames (`Instruction.cpp`, `MachineCode.cpp`) | the stack pointer, `saved_regs`, the arguments pushed so far | `CallInstruction`, `RetInstruction`, stores of parameters, prologue, epilogue | the callee finds its arguments, the caller its registers and its locals | modelled: `CallStack`, `CallFrame` |
| Instruction selection (`Instruction.cpp`) | — | `genMachineCode` | — | partly: calls, returns, branches, arithmetic, conversions, allocation, array access |
| Live variables (`LiveVariableAnalysis.cpp`) | `live_in`, `live_out`, def and use sets | one pass to a fixed point | the sets are exactly the live uses | modelled: `LiveVariables` |
| Linear scan (`LinearScan.cpp`) | `intervals`, `du_chains`, the free lists, `activelist`, spill marks | interval construction and merging, expiry, assignment, spilling, `genSpillCode`, `modifyCode` | the code on machine registers computes what it did on virtual ones; the rounds end | modelled: `LinearScan`, `WebMerge`, `RegAlloc` |
| Machine code structures and emission (`MachineCode.cpp`) | counters of the literal pools | `output`, `PrintGlobalDecl`, `PrintGlobalEnd` | each load finds its word in the next pool, and no instruction runs into a pool | partly: prologue, epilogue, offsets filled in late, literal pools, words of scalar globals |
| Global arrays (`MachineCode.cpp`) | items and initialisers of each | a `.word` for each item | a word is the value of its initialiser | partly: `Expressions` |
| Tree and IR printing, options | — | text output | — | not modelled |
| `Unit::deadinst_mark` | marks | — | — | not modelled: it runs after the machine code has been generated and changes nothing |
| Run-time library (`sysyruntimelibrary`) | — | external C code | — | not modelled |
| `assignments/` | — | earlier coursework | — | not part of the compiler |

Interactions the modules keep: the parser ties a `break` to its loop and the code generator reads the tie; the edges that `FunctionDef::genCode` records are what the live-variable analysis iterates over; the analysis hands its sets to the interval construction, which hands intervals to the scan; a failing scan rewrites the program and starts the analysis again; the registers a successful scan hands out decide where the callee's stack parameters lie; the value the parser folds for an initialiser is what `PrintGlobalDecl` prints; the number `MachineUnit::n` is raised while functions print pools and read while instructions print addresses.

## What is hard in it

The compiler is sequential, so no threads, messages or crashes are modelled. What makes it hard is this, and `PROJECT.json` lists each case at its line:

- **Global state that a nested construct shares with the one around it.** The grammar nests, the collected lists are global. The static fields by which one array fetch continues another outlive the item.
- **Values filled in later.** Branch targets (backpatching), the size of the frame, the place of the stack parameters, saved registers.
- **Iteration to a fixed point over a structure the iteration changes**: liveness over cyclic graphs, merging over a copy of the list it shortens, rounds of allocation that add code.
- **Order that one function keeps and another relies on**: the active list sorted by end, blocks laid out in the order of creation, chunks of registers pushed and popped.
- **Two calculations of one value**: the parser folds in doubles, the generated code calculates in ints and floats, and each consumer of an expression converts on its own.
- **Limits**: counters that restart at 500, 160 and 600 instructions, empty free lists, 16 registers in a vpush, offsets that do not fit an immediate, four and five argument registers, initialisers that exactly fill a sub-array.

What runs concurrently, in a sense, is the *generated* program: `CallFrame`, `ControlFlow`, `ArrayAccess` and `RegAlloc` therefore run it, against the source or against an abstract machine, with every input, call order and outcome of a test.

## The modules

```
 SyntaxTree <── SourceTree ┐                           MachineProgram <── LiveVariables ┐
      ^ └────── Parser ────┴── MCParser                        ^                        ├ INSTANCE ── RegAlloc ── MCRegAlloc
      └──────── ArrayCode <── ArrayAccess ── MCArrayAccess      │            LinearScan ─┘
                                                                └── MCLiveVariables
 CallStack <─ implements ─ CallFrame ── MCCallFrame            LinearScan ── MCLinearScan
 BranchCode <── ControlFlow ── MCControlFlow                   WebMerge ── MCWebMerge
 MachineValues <── Expressions ── MCExpressions                LiteralPools ── MCLiteralPools

 MinMaxLemmas <── LiveVariablesProofs, WebMergeProofs, LiteralPoolsProofs, CallFrameProofs, RegAllocProofs
 LinearScanProofs, LiveVariablesProofs <── INSTANCE ── RegAllocProofs
 ExpressionsProofs
```

*X*Proofs holds the theorems about module *X* (CallFrameProofs also those that relate CallFrame to CallStack); MinMaxLemmas has lemmas on minima, maxima and counting that several of them use. RegAllocProofs instantiates the proofs about the scan and the analysis, as RegAlloc instantiates the modules: their theorems are steps of its own.

Operators marked "For *P*" are slips that property *P* exists to catch; nothing uses them. `PROJECT.json` pairs each with the definition it spoils, so that one can see the property fail.

**LinearScan** — one call of `linearScanRegisterAllocation`. The variables are the fields of the class and of `Interval`; the for loop is `cur` and `pc`. `ExpireOldInterval` is a turn of the loop in `expireOldIntervals`, `ExpireReturns` its return, `AssignRegister` the branch with a free register, `SpillLast` and `SpillCurrent` the branches of `spillAtInterval`. `std::sort` may put equal ends in any order: `Activate` is nondeterministic.

**LiveVariables** (over **MachineProgram**) — `LiveVariableAnalysis::pass`: one action for a visit of a block, one for the end of a pass. The sets hold *operand objects*, as in the code, where an object knows one parent instruction. It starts with any sets an earlier round may have left.

**WebMerge** — the loop at the end of `computeLiveIntervals` that unites intervals of one register which share a use; one action for each pair that is compared. The pass walks over a copy from which nothing is erased.

**RegAlloc** — `allocateRegisters`: LiveVariables and LinearScan are instances whose steps are steps of a round, with `makeDuChains`, interval construction, `genSpillCode` and `modifyCode` between them. The result of merging is written there as connected components (`Component`); WebMerge shows that the loop computes them, and the theorem `WebsMerged` that both modules mean the same components. `SpillCode` is the function after all accesses to slots have been inserted, one after the other in the order of the loops (`InOrder`). When a round succeeds the function is *run*, on machine registers and on virtual registers at the same time.

**CallStack** is what calls promise: a stack of activations; a call adds one whose parameters are the arguments, a return takes one off and gives its result to the caller, all others stay as they are. **CallFrame** is the code: `CallInstruction`, the prologue and the parameter stores, the epilogue, on registers and a memory of words. Its refinement mapping walks from frame to frame along the saved `fp` and `lr`; `Implements` is CallStack's specification under this mapping.

**BranchCode** computes the blocks of a function from its tree: `Parse` follows the break and continue lists of the parser, `Gen` and `GenCond` the `genCode` methods with their insertion points and lists, `Compile` the end of `FunctionDef::genCode` with its return block. **ControlFlow** runs them next to the source. The tests yield anything; an operand or a flag that the current block has not set may be anything, too.

**SyntaxTree** holds the nodes that the parser and the array code share. **SourceTree** gives the order in which bison reduces a program. **Parser** has one action for each production with its mid-rule actions; the variables have the names of the globals. `out` records what went into the tree together with what the source has there.

**ArrayCode** computes the intermediate code of array items, of assignments, declarations and arguments with them. **ArrayAccess** translates and runs it: the code is straight-line, so an action generates the machine code of one instruction and runs it; `last_hit`, `last_loc` and `tmp_space` belong to the generator, `reg` and `mem` to the run, `store` is what the source says the arrays hold.

**MachineValues** counts numbers in quarters, rounds them as ints and floats do, and tags a word with how its bits are meant. **Expressions** parses and runs an expression node by node: each action is the parser's production (type, symbol entry, folded value), the node's `genCode` (conversions) and the machine instruction (operator, bank). An operand carries, next to what the code knows of it, the value it has in C (`want`), whether C calls it a constant expression the parser knows (`static`), and whether all its parts are forms the code treats right (`sure`). The actions at the end are the places an expression goes to: declarations of both scopes, alone and in lists, array initialisers of both scopes, assignment to names and items, return, argument, condition, operand of `&&`. Where an item lies is ArrayAccess's matter; here it is an operand of the items' type whose symbol entry is the array.

**LiteralPools** — the three nested loops of `output`, one action for an instruction printed and for the end of a block, of a function and of the unit. `pos` counts words, `defined` has the labels printed and `refs` the loads.

## The runs

Each configuration names its constants; every bound is listed here. The passing runs take each action of their modules at least once.

**MCLinearScan** (LinearScan). Two general registers and one float register; all lists of at most four intervals over four instruction numbers, of both kinds, sorted by start, ends before starts included (a definition that is never used has end -1). Four intervals meet in one instruction, so both banks run out, the victim of a spill may be of the other bank, and registers are returned after a spill, twice, too.
- `NoClash`: in a successful round intervals that live together have different registers. `TypeOK`: among the types, a returned register goes to the free list of its own bank, from which `OwnBank`, that a register is of its interval's bank, is proved. `VictimExists`: `activelist.back()` has something to return. `NoNeedlessSpill`: the first spill of a round happens only when every register of the bank is held. `SavedConsecutive`: the registers used are the first ones of their bank, which the vpush in the prologue needs. `LatestEndSpilled`: what is spilled ends last.

**MCLiveVariables** (LiveVariables). Three blocks, 45 flow graphs (loops, self-loops, unreachable blocks) times all bodies of at most one use and one definition for each block, over one register (registers do not influence each other in the analysis); two programs with two registers, one with an operand object in two instructions. Before the first pass the sets are empty or full.
- `LiveExact`: the sets never hold more than the definition by paths says, and at the end they are that. `Terminates`. Paths of three blocks suffice in the definition, as a shortest path to a use visits no block twice.

**MCWebMerge** (WebMerge). `MaxDefs` = 4 definitions of one register, each with any subset of three uses, so that definitions are linked through one, two or three others or not at all; two longer lists of two registers, where every second definition is linked to the next; the empty list.
- `ComponentsMerged`: at the end there is one interval for each connected component, and it spans its definitions, unused ones included. `NothingLost`: at all times each definition is in a listed interval. `Ends`.

**MCRegAlloc** (RegAlloc). Seven functions on three general and three float registers; with three, spill code still finds room for two operands and the address of a slot. `NearSlots` = 1: the first slot's offset fits the immediate, all later ones need a register for the address. The functions have nested sums that spill over several rounds, in ints and in floats, a float that ends last while general registers run out, comparisons used as values, a variable far from `fp`, a loop with a value carried around, and a diamond with one register defined on both sides. Their operand objects are those `genMachineCode` makes (`Layout`): it hands the object of a definition on to the instruction that uses it for every constant operand (`Instruction.cpp:1108-1118`), every `return` (1350-1354) and every address (779-810), and one object is written by both conditional moves of a comparison (1249-1275). The parent of such an object is its last user. All seven satisfy the hypothesis on programs of the [theorems](#register-allocation), which TLC evaluates (`PlainFunctions`).
- `RunsLikeVirtual`: whenever the result of the allocation reads a register, it holds the value its virtual register was given last, also while an object is on its way to the user where its interval starts. `UsesReloaded`: each instruction that used a spilled register is preceded by a load. `EveryVregMapped`: some round succeeds. `SharingKept`: spill code shares objects only in the ways of the code generator (`Tidy`), so that the next round is as good as the first. `CarriedKept`: an object on its way to its user is never spilled; its store would come after the user. This depends on whom the scan spills (its mutant is in LinearScan): such an object's interval ends where it starts, and one that ends later is taken.
- MCRegAllocFetch allocates a function that is not `Tidy`, and fails, as does the remainder (`MCRemainder`); see [below](#disagreements-found).

**MCCallFrame** (CallFrame). Five functions that call each other in every order, `MaxDepth` = 3 activations. `Bottom` = 133 words of stack hold three of the largest activations, of at most `Share` = 44 words; the code checks no such limit, and the deeper recursion of a program that overflows its stack is not modelled. The functions have register parameters of both kinds, parameters on the stack of either kind, frames of both parities, and 0, 1, 16, 17 and 27 saved float registers: no vpush, a short one, a full one, and two. Three activations are enough for the caller's caller to be disturbed. MCCallFrameMixed has two activations of at most 15 words, in 60.
- `RegistersKept`: what a function has in its registers survives its calls, and main gives back what it found and leaves `sp` where it was. `Implements`: the frames implement CallStack.

**MCControlFlow** (ControlFlow). Some 430 functions: fifteen shapes of ifs and loops (nested, with breaks, continues and returns in the middle and in last place) with eight conditions of up to three tests each; `MaxLevel` = 4 bounds the depth of loops. Every test yields both outcomes each time it is evaluated.
- `Agrees`: the next assignment, test or return of the code is the next one of the source. `FlagsFresh`: a conditional branch finds the flags of its own operand. `Answers`: between two visible steps the code takes finitely many.

**MCParser** (Parser). 7,042 programs in three families: (1) expressions of depth two over a variable, a one- and a two-dimensional array, a call with two arguments and one without, in each other's arguments and subscripts; (2) all initialisers of seven array shapes in which a brace stands for a whole sub-array, alone or in a list with another array before it; (3) pairs and triples of declarations, uses and blocks over names that shadow one another and parameters. `MaxCallLevel` = 6.
- `TreesBuilt`: an expression becomes the tree its source is. `InitialisersKept`: each declared name gets its initialiser, element by element. `NamesResolved`: a use gets the entry of the declaration in scope, and no two declarations share one.

**MCArrayAccess** (ArrayAccess). Globals g[2][3] and n[2], locals l[2][2], k[2][1][2] and m[2], parameters p[][3] and q[] that stand for g and its second row; 3,481 programs of declarations, assignments and arguments, with array items as subscripts two deep. `FrameWords` = 14 holds the largest frame; `Junk` = 7 is what memory holds at first, and no value or address that is meant.
- `ElementsReached`: every load, store and argument has the address of its element. `MemoryMatches`: areas of the frame and the word of the fetches do not overlap, and after each statement memory holds what the source says.

**MCExpressions** (Expressions). All programs with one name and at most `Leaves` = 3 literals, names used, calls and array items: two ints (2 and 2^24 + 1, which has one bit more than a float keeps), two floats (.0 and .5), a float call, items of either type, an int of 25 bits among them; both scopes, with and without const, alone and in lists. Three leaves give two operators, a conversion between them, and a name whose declaration had one operator. A second name would add only a constant that another is declared from; the [theorems](#the-proofs) hold for any number of names.
- `ValuesAgree`: the register of a node holds its value in C. `FoldsAgree`: a constant expression has been folded to its value. `StoresAgree`: what a name holds, what is passed and returned, and what a condition comes to is that value, converted. What they leave out is listed [below](#abstractions-and-limits).

**MCLiteralPools** (LiteralPools). Eleven programs with the limits of the source, 500, 160 and 600: blocks, functions and units just below and just above them, loads where a pool is furthest, pools of a function and of the unit on top of each other, a block of 2300 instructions that its own pools serve, and more than ten pools, whose numbers have two digits. The steps do not branch: a program is printed in one way.
- `AddressesFound`: a load finds its word by name, and it is in the next pool. `PoolsSkipped`: the branch over a pool leads behind it. `PoolsNear`: a load is no further from its word than the three counters allow together.

Each of these modules but WebMerge has one type invariant, `TypeOK`, as well; in CallFrame it also says that no register ever holds a saved `fp`, `lr` or a freed word, in ControlFlow that every branch has a target and the code does not run past its last block, in Parser that nothing collected for a statement is left over where a block begins or ends, in Expressions that an operand is in the bank of its type, in LiteralPools that the counters restart.

Two configurations end with a counterexample; see [below](#disagreements-found).

**Fairness.** All code is sequential and nothing waits: a step that can be taken is taken. Where a run checks a liveness property, the specification has weak fairness of the program's step (`WF_vars(Scan)`, `WF_vars(Next)` and so on), and of nothing else. It says nothing of the outcome of a test, so that `Answers` does not assume that loops of the *source* end. In RegAlloc the same fairness is stated action by action, and `Turn` stands for the three long actions, which change `phase` and are enabled exactly when it is.

## The proofs

Twenty-seven theorems hold for every value of the constants:

| Module | Theorem | States |
|---|---|---|
| LinearScanProofs | `TypeCorrect` | `Spec => []TypeOK` |
| | `NoClashHolds` | `Spec => []NoClash` |
| | `OwnBankHolds` | `Spec => []OwnBank` |
| | `VictimExistsHolds` | `Spec => []VictimExists` |
| | `NoNeedlessSpillHolds` | `Spec => []NoNeedlessSpill` |
| | `SavedConsecutiveHolds` | `Spec => []SavedConsecutive` |
| | `LatestEndSpilledHolds` | `Spec => LatestEndSpilled` |
| LiveVariablesProofs | `TypeCorrect` | `Spec => []TypeOK` |
| | `LiveVariablesExact` | `Spec => []LiveExact` |
| RegAllocProofs | `TypeCorrect` | `Plain` implies `Spec /\ SharingKept /\ CarriedKept => []TypeOK` |
| | `RunsLikeVirtualHolds` | `Plain` implies `Spec /\ SharingKept /\ CarriedKept => []RunsLikeVirtual` |
| | `UsesReloadedHolds` | `Plain` implies `Spec /\ SharingKept /\ CarriedKept => UsesReloaded` |
| | `WebsMerged` | RegAlloc's `Component` is WebMerge's, when the chains are put in a list |
| WebMergeProofs | `NothingNeverLost` | `Spec => []NothingLost` |
| | `MergedIntoComponents` | `Spec => []ComponentsMerged` |
| CallFrameProofs | `FramesTyped` | `Spec => []TypeOK` |
| | `RegistersSurvive` | `Spec => []RegistersKept` |
| | `FramesImplementCalls` | `ParametersInOrder` implies `Spec => Implements` |
| | `ArgumentsReachParameters` | `ParametersInOrder` implies `Spec => []ArgumentsArrive` |
| LiteralPoolsProofs | `PoolsTyped` | `Spec => []TypeOK` |
| | `AddressesAreFound` | `Spec => []AddressesFound` |
| | `PoolsSkippedHolds` | `Spec => []PoolsSkipped` |
| | `PoolsAreNear` | `Spec => []PoolsNear` |
| ExpressionsProofs | `TypesAgree` | `Spec => []TypeOK` |
| | `ValuesRight` | `Spec => []ValuesAgree` |
| | `FoldsRight` | `Spec => []FoldsAgree` |
| | `StoresRight` | `Spec => []StoresAgree` |

In each module a lemma proves that the initial states satisfy the inductive invariant, one lemma for each action that it keeps it, with a step for each conjunct it can disturb, and one more (`Invariance` or `Invariant`; in LiteralPoolsProofs there are three invariants, and CallFrameProofs adds to its own for the refinement) puts them together. None of the properties is inductive; what follows says what had to be added, and why.

### Register allocation

*LinearScan.* `NoClash` is about all intervals placed, while the code looks at the free lists and the front of the active list only. `IInv` adds what connects them:

- in every round: the active intervals have been placed (`ActivePlaced`), stand in the list once (`ActiveOnce`), in order of their ends (`ActiveSorted`); when one is placed the finished ones are gone (`Swept`); each register is free or held (`Conserved`). Order is what makes it right for `expireOldIntervals` to stop at the first live interval. `Conserved` survives spilling, where a register has two holders, and yields `VictimExists`.
- until the first spill (`Exclusive`): an interval not in the list has ended before all that follow (`Finished`), a register is free once and not held (`FreeOnce`), and held once (`HeldOnce`). A spill breaks `HeldOnce`, then the returns break `FreeOnce`: which is why the other properties are about successful rounds.
- `Orderly`: the free list still starts with the registers never given out, in their order, and returned ones come after them. It yields `SavedConsecutive`.

Assumed: both banks have registers, none twice, and the numbers below 11 are those of the general registers (`BanksAssumption`: the constructor of `LinearScan` fills its lists so); the intervals are sorted by start (`InputsAssumption`: `computeLiveIntervals` ends so).

*LiveVariables.* Two parts. `OnlyLive`: nothing is in a set that is not live along some path (of any length: `Live`). It is kept by each visit, since a path from a successor becomes a path from the block. `SolvedSoFar`: in a pass that has changed nothing so far, every block visited satisfies its two equations; so when the iteration stops, all do. That the solution then holds *all* that is live is an induction along the path to the use, from its end. `LiveExact` as TLC checks it looks at paths no longer than the number of blocks; the proof shows that a shortest path visits no block twice, so that these are enough. It also needs that the sets an earlier round has left are cleared before the first visit. Assumed: successors are blocks of the function (`ProgramsAssumption`).

*WebMerge.* The loop erases an interval from the list and not from the copy it walks over, so an erased interval goes on absorbing others, and these would be lost if they are erased with it. `Sweeping` says why that never happens: what an erased interval behind the current one could still absorb is erased as well, or the current one has all the uses of the erased one and reaches it first. `AllSound` keeps an interval inside one component, with the uses and the points of its definitions; `Unchanged` says of a pass without a change that no pair it has met belongs together, which at the end makes each interval a whole component. Assumed: the list is one of chains (`InputsAssumption`).

*RegAlloc.* The main theorem is about the whole of `allocateRegisters`: after any number of rounds, with any banks and any `NearSlots`, on every path of the finished function, a register that is read holds what its virtual register was given last. `IInv` joins three levels.

- *In a round.* The invariants of LiveVariables and LinearScan hold of their instances (`LVP!IInv`, `LSP!IInv`). Liveness is restated for instructions (`LiveAt`), since registers are handed out for instructions and not for blocks. `ChainsRight`: a definition's chain is the uses that are live behind it. `WebsRight`: no operand is in two webs, a use that is live at an instruction is in a web whose interval includes the instruction, or, when its object is on its way to its user (`Awaited`), starts at the user; the interval of a definition starts no later than its parent and holds all uses it reaches. So when nothing is spilled (`Succeeded`), a use that is live at an instruction is in another register than any other value written there, and in the same one as each definition that reaches it (`MappedFacts`): this is what `NoClash` of the scan is good for.
- *Between rounds.* `FunctionRight` says that the function may be allocated again: it is well formed, `Tidy`, `DefinedAbove`, and `Saved` holds of its slots: there is a register each slot stands for, and a set of instructions in front of which the slot is up to date; every load is one of them, and control reaches such an instruction only from one, or through a store to the slot; never past a write of the register that is not stored. That `genSpillCode` keeps it (`SpillRight`) is half of the proof. The accesses are followed one by one: `SavedBut` and `Partial` allow for those not made yet. The new instructions go in front of a use and behind a definition, so they change the flow of control (`FlowKept`), the numbers, and what is live where: behind a load its web is live no longer, which is `LiveReloaded`; all else stays (`LiveStill`). Each use of a spilled web is live where all its definitions have been stored (`AccessesRight`, from `WebsRight`).
- *In the run.* `Agree`: registers agree with the virtual registers on all that is live (`LiveAgree`), and the slots with the registers they stand for where they are up to date (`SlotsAgree`).

`UsesReloadedHolds` follows each load from the step that inserts it (`LoadMade`) through all later ones, which put only new instructions between it and its use (`LoadedStays`).

Assumed: `BanksAssumption` as for the scan, and `ProgramsAssumption`: functions are `WellFormed`, no block is empty, and there is no spill code in them yet. `Plain` is a hypothesis of the theorems on the functions, and has two parts, each needed:

- `Tidy`: what `genMachineCode` does with operand objects when it translates scalar code. A use is an object of its own. A definition is too, unless it is `Redone` (the two conditional moves of a comparison) or `Carried`: loaded and handed on to an instruction below, which becomes its parent. The interval of a carried object starts only at that instruction (`LinearScan.cpp:82`), so before it other values may be given its register; nothing happens to it because what stands between reads nothing and works for the same user, which therefore keeps all of it (`Carried` states this, and `WebsRight` and `MappedFacts` draw the conclusion). Not `Tidy` are the remainder, the access to an array item, and a constant stored to a variable more than 500 bytes from `fp`, whose address is computed by an ADD between the constant and its STR. For the first two the allocation can fail ([below](#disagreements-found)).
- `DefinedAbove`: what is live into a block was defined in a block laid out before it. A value that is never used gets an interval that ends at -1, and the merged span of a web starts at its first definition and not at its first instruction in the layout. Without the hypothesis the two meet: in a block that is laid out above all definitions of a value that is live into it, a dead definition in first place starts where the value's interval does, has expired by then, and may be given the register of the value. TLC finds this with `Layout(<< <<Get(30), Get(40)>>, <<Get(20), Put(11), Put(41), Put(31)>>, <<Get(10)>> >>, <<{3}, {}, {2}>>, {})` of MCRegAlloc as the program. No function of the compiler is like that: a temporary is used in the block that computes it, and a variable is in memory. The loops and diamonds of the run go further than the compiler.

Two more hypotheses are about what happens in the rounds, and are properties of the run: `SharingKept`, the new function is `Tidy` again, and `CarriedKept`, no carried object is spilled. They do not follow from `Plain`: with a single register, an instruction with two carried operands has to spill one of them. That this does not happen with three registers is checked and not proved.

### Calls

*CallFrame.* That a register survives a call depends on what lies in memory, for all activations at once. `IInv` says that there are activations `ch[1]`, ..., `ch[d]`, above `Ground`, the program that called main, such that memory holds them (`Chain`): each has its link and its saved registers where its caller's `sp` and its own `saved_regs` put them, chunk by chunk (`AllSaved`), and lies below its caller. `own` says for each register whose word it has in the body of an activation. `Running` and `Opening` say how far the code is: which chunks are pushed or popped and where `sp` is then, for every number of registers. `TypeOK` and `RegistersKept` are what it says of the topmost activation. The chain is bound by an existential quantifier and not a variable: the code has no such list.

Assumed: the saved registers are in order and `r4` is among them, a frame has at least one local word, main has no parameters (`FunctionsAssumption`), and the stack has room for `MaxDepth` activations of at most `Share` words (`StackAssumption`). `MaxDepth`, `Share` and `Bottom` are arbitrary.

*The refinement.* `FramesFound`: the walk along the saved frame pointers, by which the refinement mapping defines `Activations`, yields the chain. `Delivered` adds where arguments and results are between the bodies: those in registers in their registers, which later turns of the loop do not overwrite, and the others above the callee's frame. Then `StepRefines`: the step into a body (`Work`) is an `Enter` of CallStack, the one out of it (`CloseFrame`) a `Leave`, the end of a call (`EndCall`) a `Receive`; all others leave `Activations` unchanged. `ArgumentsReachParameters` follows, as CallStack never changes a parameter (`ArgumentsKept`).

`ParametersInOrder` says of every function that the parameters without a register come after all others. It is a hypothesis of these two theorems and not an assumption of the module, because the language does not give it: MCCallFrameMixed is a function without it, and there `ArgumentsArrive` fails. So for signatures that fulfil it the code around calls is right, and the finding is about the others. TLC evaluates it for the functions of MCCallFrame (`OrderAssumption`). `CallFrameProofs` does not need it: registers survive calls with mixed signatures, too.

### Literal pools

*PoolsSkipped* compares a branch with the labels of the whole text, while the code only counts. `IInv` adds that every label behind a pool was made with a number its counter has passed (`NumbersPassed`), so that the next one is new, and that such a label stands once (`MarksUnique`) at the end of its pool (`MarkBehind`). The labels of functions are numbered by `n`, which the pools of blocks raise, too; those of blocks by `label`, which is never reset; nothing here depends on the limits or on how the counters restart.

*AddressesFound*. `TextInv` describes the text: a load waits for the next pool or has its word (`LoadsAnswered`); a word that is there is a label behind a pool, a constant that waits no more, or an address of an earlier pool (`WordsKnown`), so the next pool's are new; no pool has come since a load that waits (`NextPoolNear`). With names that no numbering confuses, which is `NamesApart`, labels are unique (`WordsUnique`) and no pool lies between a load and its word (`WordsNear`). That a name and a number can be told apart is a fact about `%d`: `Digits` is shown to be injective.

*PoolsNear*. `NearInv`: a load that waits is no further back than what the three counters hold (`Counted`) and the words of prologues printed so far; the constants that wait are not more than those loaded so far, and `count`, which goes back to 0 with every pool of a function, never exceeds `size`, which is compared with the limit. When a pool comes, the counters are below their limits or at most the longest block above them, and the pool adds its own words. So the bound on the distance comes from the three limits together with what the code does not count: nothing in it is about the limit of an `ldr`.

Assumed: the limits are numbers, that of a block is not 0 (`EveryAssumption`); the structure of a program, whose loads are inside their blocks and refer to globals there are (`UnitsAssumption`).

### Expressions

Literals, names and nesting are arbitrary here, so the operands of an instruction are any numbers. `IInv` says of every node on the stack that it is in `Nodes`: its operand is junk or a value of its type (`IsWordOf`), and if it is `sure`, the operand is its value in C and, if it is `static`, `FoldKnown`: the value the parser keeps, cut if the node is an int, is that value, too. `Entries` and `Sinks` say the same of names and of what has arrived elsewhere. What is added to the properties is what the conversions of a later node rely on: that a number in a register is one of the register's type, that a node of a call or an item has no value, that a literal keeps its own, and that a condition is 0 or 1.

Below it are facts about numbers. Every number has one distance between floats around it (`StepFacts`); rounding stays in range, leaves a rounded number alone (`RoundedFacts`) and treats a number as its negative, so converting to a type is idempotent (`AsFacts`). `RemainderFacts`: the DIV, MUL and SUB that a remainder becomes leave the remainder of C. `BinaryFacts`, `CmpFacts` and `FixedFacts` say what an instruction leaves in a register.

The proof has changed the model. In runs with more literals the properties failed, for forms that smaller runs could not express: a sum of floats that a float has no room for is not rounded by the parser (`parser.y:697`), nor is an int with more than 24 bits that is kept for a float constant (`parser.y:1322`). They are now listed [below](#abstractions-and-limits) with the others, and MCExpressions has an int of 25 bits.

Assumed: a literal, a result or an item is a value of its type and at most `Largest`, and literals are not negative (`LiteralsAssumption`). Numbers are counted in quarters: a literal like 0.1, which a double keeps more precisely than a float, is outside.

### How induction is done

The induction theorems of the library take an operator as a parameter, and no installed prover can instantiate them. Where an argument runs over the length of a path, the digits of a number or the activations of a stack, the proof takes the least counterexample: `NatMinimum` of MinMaxLemmas gives the least element of a set of numbers, and the step below it is a contradiction. Recursive functions (`Digits`, the walk in `Activations`) are first shown to satisfy their equation; their definitions are functions and not RECURSIVE operators for this reason.

### Only model-checked

- All liveness: `Terminates`, `Ends`, `EveryVregMapped`, `Answers`. TLAPS does not handle fairness and ENABLED.
- ControlFlow with BranchCode, Parser with SourceTree, ArrayAccess with ArrayCode: their operators are RECURSIVE along the syntax tree, for which the prover has no definition it can use.
- `SharingKept` and `CarriedKept` of RegAlloc, which its theorems assume.

## Disagreements found

Each is a configuration in which TLC finds the property violated by what the code does.

- **MCCallFrameMixed**, `ArgumentsArrive` (`Instruction.cpp:1439`). When an argument has no register, `CallInstruction` pushes the last argument not pushed yet, whether or not that one goes to a register. With the signature of `test/level2-6/39_fp_params.sy:22` the callee finds the wrong words. MCCallFrame keeps to signatures where the arguments without a register are the last ones.
- **MCRegAllocFetch**, `RunsLikeVirtual` (`LinearScan.cpp:82`). An access to an array item computes the address of the array (`Instruction.cpp:1731`), stores it, loads it again and uses it (1805), all with one object `temp2`. Its interval starts at the last of these, and the register it is given may be the one that holds the offset from 1731 to 1786. Then the first ADD overwrites the offset. In `return a[i]` this happens with three registers; the free registers are a queue, so that with the seven of the code more of them have to be in use. The comments know of such conflicts (1739, 1747) and protect `temp2` itself, but not what it overwrites.

Three more need a change of a configuration to be seen, as the runs keep to what the code does right:

- *Remainders* (`LinearScan.cpp:248`). A remainder is translated into DIV, MUL and SUB that share operand objects (`Instruction.cpp:1162-1168`). An object knows only the last instruction it was built into, and `genSpillCode` inserts the reload in front of this one alone. When the operand is spilled, the other instructions read a register that has not been loaded; the comment says "insert ldr inst before the use of vreg" (`LinearScan.cpp:231`). MCRegAlloc with `Programs <- MCRemainder` violates `UsesReloaded`.
- *Edges of a break* (`Ast.cpp:154`). The edges of a block are taken from its last instruction, but a break, a continue or a return is followed by the branch of the statement around it. The edge of a break out of a loop is missing, and liveness does not see it. The comment there says that the edges of each block have to be set (`Ast.cpp:135`). MCControlFlow with `Functions <- BreakFunction` violates `EdgesComplete`.
- *Calls without arguments* (`parser.y:1719`). Such a call does not give its level back. In `f(1, g())` the arguments of `f` are split over two levels. MCParser with `NullaryAnywhere = TRUE` violates `TreesBuilt`.

## Abstractions and limits

Operands, virtual registers, blocks and symbol entries are numbers in order of creation; where the code orders by address (intervals of equal start) RegAlloc takes both orders. Values are tokens that say where they come from, so that a wrong word is never right by chance. The stack is counted in words. Formatting, text and diagnostics are left out.

*LinearScan, RegAlloc*: the banks are smaller than the code's (7 and 27). `modifyCode` gives an operand the register of the last interval that holds it. *CallFrame*: a body fills its variable and its registers and calls; words below `sp` may change at any time. *BranchCode*: a comparison stands for any expression used as a condition, whose type is abstracted; `!` is applied to comparisons and not to `&&` and `||`, whose lists the code does not exchange; no test of the repository does so. *ArrayAccess*: parameters refer to global arrays, which stand for the caller's memory.

*Parser*: one additive expression stands for all binary ones; type checks are left out, and types and folded values are in Expressions. The collected lists are only right for a part of the language, and MCParser keeps to that part (`Handled`, `Known`, `Distinct`):

- arguments after the first contain no call without arguments (see above);
- a subscript after the first contains no item of the same array, and leaves exactly one name in `curr_array` if it is an array item, and none otherwise: a sum of two items, or an item in the arguments of a call, leaves names behind and the next subscript goes to the wrong array;
- a brace stands for a whole sub-array and begins where one begins;
- a list declaration declares new names only, its arrays in ascending order, and the initialisers do not use the arrays of the same list: the outermost brace takes the *last* array of the list not installed yet.

*ArrayAccess*: at most three dimensions, and two for a parameter, as the stride of a parameter's first dimension is its second dimension whatever follows (`Instruction.cpp:1773`); no array item in the second subscript of a parameter, after whose code the fetch starts anew (`Instruction.cpp:1772`). Five subscripts get no code at all (`Ast.cpp:682`).

*Expressions*: an expression with one of these forms in it is not `sure`, and the properties do not speak of its value. Each is needed: without it TLC finds a violation (in the last of them with a float literal of 1 or more in an int array, which is not among the run's).

- a floating literal under a minus, which becomes an int: -1.5 is -1 (`parser.y:499`; `NegateLiteral`);
- a float between -1 and 1 as a condition or under `!`, which is cut to 0 first (`Ast.cpp:759`, `Ast.cpp:1441`; `Vanishes`); as an operand of `&&` and `||` it is compared as a float;
- constant expressions with more than 24 significant bits: the parser rounds products and quotients of ints to floats (`parser.y:565`, `parser.y:603`), and does not round sums of floats, nor ints that are converted to float for an operator (`parser.y:697`) or kept for a float constant (`parser.y:1322`; `Rounding`, `Fits`); sums and remainders of ints are right;
- the quotient of two ints that has a fraction as the initialiser of a float constant: `const float F = 7/2` is 3.5 (`Fraction`);
- initialisers other than 0 of global floats that are not const: the low half of a double is printed (`MachineCode.cpp:935`);
- a float as the initialiser of an int item of a local array, stored without conversion (`Ast.cpp:1261`; `LocalItem`);
- an array item as an argument for a parameter of the other type: its address is passed (`Ast.cpp:1521`; `Addressed`);
- items of global arrays whose initialiser is not 0 and is anything but an int literal in an int array (`MachineCode.cpp:1013`; `ItemDirective`).

A constant made of `-N` for a constant N has the value 0 (`parser.y:504`); such an expression is not `static`. The parser divides by zero itself in a remainder whose divisor folds to a number between 0 and 1 (`parser.y:635`): `Calculable` excludes it. Left out of the module are `x++` and `x--` (the first adds to a register that was never loaded, the second builds no node), the minus of a call or an item (whose symbol entry is not set, `parser.y:506`), names used in the declaration list that declares them, and comparisons outside conditions. Calculations that leave the range of numbers counted give junk.

*LiteralPools*: an instruction is one word, also `ldr r, =c`, and a block's instructions are counted as the code counts them; the epilogue's `vpop` of more than 16 registers is one instruction that prints two. No instruction is dead, since the marks are set on another structure after this one has been made. `PoolsNear` bounds a distance by 600 + 160 words, the smaller of 500 and the longest block, and what is printed without being counted; an `ldr` reaches 1025. The bound is below that for programs whose blocks have at most 200 instructions and that have few functions, constants and globals; nothing in the code sees to it for others. A global named like another one followed by digits (`a`, `a1`) has the same address words after ten pools (`NamesApart`).

These limits are listed as hazards at their lines in `PROJECT.json`.

## Plan

The order was: the scan, as the part where an error is silent and far from its cause; the analysis and the loop around it; the frames; control flow; the parser's lists; arrays; the pools of the output; expressions; then the proofs, of the parts first and of the composition (RegAlloc) last. What is left:

- *Parser*: that nothing is left pending (`TypeOK`), for inputs that are well nested; the order of reductions comes from SourceTree, which is RECURSIVE, so the statement has to be about what any well-nested sequence of productions leaves.
- *ArrayAccess*: that the areas of the frame are disjoint depends on the allocas alone and not on the recursive ArrayCode; to prove it, the actions of the frame would have to be a module of their own.

## How to run

In this directory, with the community modules and the TLAPS library on the path:

```
tlc -workers 2 -config MCLinearScan.cfg MCLinearScan
tlc -workers 2 -config MCCallFrameMixed.cfg MCCallFrame     (a counterexample)
tlapm LinearScanProofs.tla       (and LiveVariablesProofs, WebMergeProofs, RegAllocProofs,
                                  LiteralPoolsProofs, CallFrameProofs, ExpressionsProofs,
                                  MinMaxLemmas)
```

Each `.cfg` belongs to the module of its name; `MCCallFrameMixed` and `MCRegAllocFetch` are further configurations of MCCallFrame and MCRegAlloc. The runs find these numbers of distinct states: MCLinearScan 290,971, MCLiveVariables 62,889, MCWebMerge 47,341, MCRegAlloc 13,352, MCCallFrame 2,534, MCControlFlow 12,337, MCParser 202,456, MCArrayAccess 117,697, MCLiteralPools 12,366, MCExpressions 448,805. The longest, MCRegAlloc, takes about two minutes, the proofs together about twenty.
