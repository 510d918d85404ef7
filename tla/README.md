# pl-jit: a TLA+ verification of the PL/0 just-in-time compiler

`src/pljit` is a library that registers functions written in a PL/0 dialect and
compiles a function when it is called for the first time. This directory holds
TLA+ modules of its core, TLC configurations that check them on small
instances, and theorems that TLAPS has proved for every value of the constants.
`PROJECT.json` maps each definition to the lines it models and lists the runs,
the mutants that show each property can fail, the hazards, the findings and the
theorems.

## 1. The system

```
 threads --call--> function_handle --> Pljit (registry) --> Function
                                                            |  compile(), under a mutex
   SourceCode --chars--> lexer --tokens--> parser --parse tree--> ASTCreator
                                                                  |  symbol_table
                                             FunctionNode (AST) <-+
   Function::call_impl: AST + arguments --> ExecutionContext --> result
```

| Component | State it keeps | Operations | What makes it correct |
|---|---|---|---|
| `Function` (Pljit.hpp, Pljit.cpp) | `ast`, `compilation_failed`, `compilation_mutex`, in a debug build `compilation_passed`; shared by all callers | `operator()`, `compile`, `call_impl` | every call is answered with what the source means for its own argument, whoever compiles; no null or freed AST is used; one compilation; every call returns |
| `Pljit`, `function_handle` | the vector of functions | `register_function`, `get` | a call reaches the function its handle was made for, also while the vector moves; registrations that overlap break this |
| `SourceCode`, `SourcePosition`, `SourceFragment` | text, ends of the lines | iterate both ways, compare, extend, `str` | a position is a flat index in disguise; no read outside the text; a fragment covers what it was extended by |
| `lexer` | an iterator into the text | `next` | tokens tile the text and are maximal; an error or the end stays; every call returns |
| `parser` and the parse tree | one token of lookahead, the error flag, the call stack, the nodes | `parse_function_definition`, node constructors and accessors | accepts the language and nothing else, ends, and builds the tree of the text |
| `ASTCreator`, `symbol_table` | the table with its three counters, the name mapping, the statements | `CreateAST`, `insert`, `register_symbol` | table in the order parameters, variables, constants; what is accepted can be evaluated |
| AST and `ExecutionContext` | one slot per symbol, the result | context construction, `evaluate` | constants stay, arguments arrive and match the parameters, nothing is read before it is written, evaluation ends in a return |
| Optimisation passes | the AST, the values known of variables, the values remembered by the address of a node | `optimize_ast` of three passes | a function returns what it returned before; a pass ends, is not killed by what it evaluates and leaves nothing of its kind |
| Visitors, DOT printers | the next number of a node | print a parse tree, print an AST | the graph read back is the tree |

**Interaction.** Only `Function` is shared between threads. Everything below
`compile()` runs in one thread, on objects local to that call, as a pipeline of
pulls: the parser calls `lexer.next()`, the lexer dereferences positions of the
source. An accepted AST and its table are immutable and read by every caller;
each call has an `ExecutionContext` of its own. The registry is a vector that
is appended to, and indexed, by any thread without a lock. No code of the library runs an optimisation
pass; the tests build an AST and run passes over it, one after the other.

**What is hard.** (a) The double-checked test in `operator()`: `ast` and
`compilation_failed` are read without the mutex and `compile()` tests only one
of them again. (b) State used on the strength of an earlier check: `call_impl`
dereferences `ast` untested, `read_until` dereferences its iterator untested,
the parser reads the position of a lookahead that may be empty. (c) Indices
computed from counters and flags: the constants' place in the table, the
children of a parse tree node. (d) Error paths that leave a partial result: an
assignment without an expression, a declaration that failed and one that is
absent both being `nullptr`. (e) An unfair mutex, and loops that end only
because each turn makes progress. (f) References that outlive what they name: a
function called while the vector that owns it moves, an index taken from a size
that another thread has changed, a value remembered by the address of a freed
node. (g) Machine integers: overflow, division by zero and
the division that traps, at run time and while a pass folds it. Nothing is persisted and nothing is sent, so
there are no crashes or lost messages to model. `PROJECT.json` lists each
hazard at its line with the properties that watch it.

## 2. The modules

| Module | Role |
|---|---|
| `FunctionService` | abstract: calls are answered according to the source |
| `Function`, `MCFunction` | class Function with its threads, instance |
| `FunctionProofs` | proofs about `Function` and `Pljit` |
| `Pljit`, `MCPljit` | composes `Function` with the registry of functions, instance |
| `ASTCreator` | semantic analysis and the symbol table |
| `Execution`, `MCExecution`, `ExecutionProofs` | extends `ASTCreator` with calls of the accepted function, instance, proofs |
| `SourceCode` | the text, positions and fragments, as operators |
| `Lexer` | extends `SourceCode` with `lexer::next()` |
| `CodeReference`, `MCCodeReference` | composes `Lexer` with the fragment a node carries, instance |
| `LexerProofs` | proofs about `Lexer` and `CodeReference` |
| `Grammar` | abstract: a recogniser of the language |
| `Parser`, `ParseTree`, `ParserProofs` | the recursive descent, the finished tree and its accessors, proofs of `Parser` |
| `AST`, `ExpressionAnalysis` | the nodes of the AST, and their making from the parse tree |
| `TreeProofs`, `MeaningProofs` | proofs about the tree and its accessors, and about its translation |
| `DotPrinter`, `MCParser`, `PrinterProofs` | the two printers; the instance for all that extends `Parser`; proofs about the printers |
| `Evaluation` | the value of a function for its arguments, in machine integers |
| `Optimizer`, `MCOptimizer`, `OptimizerProofs` | the passes over a function, instance, proofs |

Conventions: definitions carry the name of the function or member they model;
`X_Y` beside a definition `X` is a plausible bug in that code, used only to
show that a property can fail; symbol handles and sequence indices count from
1 where the code counts from 0, lines and cursors of positions from 0 as in the
code.

### Function

A thread's `pc` is its place in `operator()` or `compile()`. Every read or
write of a shared member is a step: `ReadAst` and `ReadFailed` are the two
halves of `if (!ast && !compilation_failed)`; `Lock`, `Compile`, `Parse`,
`CreateAst`, `SetFailed`, `CheckPasses`, `Unlock` follow `compile()`; `Unwind`
is the exception of a debug build; `TestFailed`, `CallImpl`, `EvaluateAst`,
`Return` the rest of the call. What the passes make of the source is one of
three outcomes (`source_code`), fixed and unknown. `ast` is the number of the
compilation that built the tree, so a replaced tree is a different number.

The unsynchronised read of `ast` is a data race. The outcomes modelled are
those a machine can produce: the pointer is seen, but the nodes behind it only
by the threads in `nodes_visible`; evaluating unseen nodes gives `Undefined`.
With `TotalStoreOrder` stores become visible in program order, otherwise
`Propagate` or taking the mutex makes them visible. Compiler reorderings beyond
that (a torn pointer, an invented read) are left out.

### Pljit

Composes the whole of `Function`, for the one function numbered `Subject`, with
the vector that owns it and others. `register_function` is three steps:
`RegisterFunction` finds the end of the vector, `EmplaceBack` puts the element
there, `ReturnHandle` reads the size for the index in the handle. `get` is two:
`Get` indexes the array of the vector, `Dereference` follows the pointer it finds;
the array is replaced when the vector is full. `CallSubject` hands over to
`Function`; the other functions share no state with the subject, and their calls
return at once (`CallOther`).

The code takes no lock (`// TODO Thread safe`), so nothing keeps these steps apart.
Where they race the outcome is undefined and chosen freely within what is left in
memory: an append that finds another vector than it began with keeps the elements in
front of its own and may overwrite, empty or lose those behind
(`OverwriteFunctions`); a pointer read of an element that is not there, or no more,
is that of any function or of none. A call on none ends the process (`CallNothing`,
position "astray"). A race inside the allocator that tears the vector's own members
in other ways is left out. `overlapped` is a history variable: a registration has
overlapped another or a get. Calls that are under way overlap registrations without
setting it. `HandlesReachWhenApart` is what holds before: `HandleReachesItsFunction`
itself TLC refutes, in two threads and two registrations.

### ASTCreator and Execution

One action per declaration and per statement, in the order of the code. The
parse tree is not built first: each action picks the next child it may have, so
the behaviours are all programs within the bounds. An expression is the set of
names it mentions, which is all that analysis looks at. `InsertedSymbol`,
`RegisterSymbol`, `ConstantSlots` and `ContextOf` follow the table and the two
loops that fill a context. `EvaluateStatement` is a turn of the evaluation loop;
the value of an expression is chosen freely, or missing (division by zero), so
nothing depends on arithmetic. `EvaluationStops` is a null expression or the
code behind the loop. A call passes any number of arguments up to the size of
the table, since the constructor that `call_impl` selects compares nothing; more
arguments than symbols, which write behind the vector, are left out. The
assertion in ExecutionContext.hpp:22, which a test expects to fail for a wrong
number, belongs to the variadic constructor, which no call through `Pljit` reaches:
`wrong_arity` reports it, and `ArgumentsDelivered` is about calls with the right
number.

### SourceCode, Lexer, CodeReference

`Advance` and `Retreat` are `++` and `--` over (line, cursor), `Less` is
`operator<` as written. `Lexer` runs the loops of `next()` one turn at a step,
because each turn dereferences the iterator. Characters are reduced to one
member of each class. `CodeReference` extends one fragment over all tokens of a
text with `SourceFragment::extend`, as the parse functions do.

### Grammar, Parser, ParseTree

`Parser` keeps the calls in progress as a stack of frames; a frame holds the
parts its parse function still has to parse and the children it has. `Parts`
is the body of each parse function as data; `CallParse`, `Expect`, `Consume`,
`Mismatch`, `NoAlternative`, `TestHasError`, `ReturnNode` and `Finish` are what
the bodies are made of. The lexer is external here: `Consume` takes whatever
token `next()` may return. An empty lookahead dereferenced for its position
marks the frame `stale`. `primary_expression` returns `nullptr` without a
report when nothing fits (`NoAlternative`), as the code does.

`Grammar` reads the same tokens with no stack at all: a place, the rank of the
last declaration and a bracket count. It was written from the productions the
parse functions implement, independently of how they call each other, and
refuses a text at the first token that no function continues. `Parser` keeps
`phrase`, the recogniser's state, as a history variable, so
`ImplementsGrammar` says that both agree on every prefix.

`ParseTree` has the accessors whose index depends on the text; `Finds` says of a node
that they find the children they are named for. A node is handed to its caller once
and never changed, so `AccessorsFind` asks it of the children of all calls in
progress and of the tree.

### ExpressionAnalysis, DotPrinter

`analyze_expression`, `analyze_statement` and `CreateAST` build the AST from a
finished parse tree through the accessors, for the functions in which every name
is declared. Trees are records and `Trees[n]` those of a height up to n, as in
`Evaluation`; how many children a node has tells, as in the code, which constructor
made it. `Meaning` is the reference: it never sees a tree, but splits the
tokens of an expression at its operators outside of all brackets.
`DotPrinter` writes either tree as the pieces of a DOT text, in the order of the
code, where a node writes the end of an edge its parent has begun. A printer is a
record, its counter and what it has written, and `write_node[node]` the function
from the printer before a node to the one behind it. `WellFormed` and `Draws` read
the pieces back. An identifier of an AST is printed without its name, as in the
code.

### Evaluation, Optimizer

`Evaluation` has the meaning of a function: `Run` builds the context and executes
statements up to the first return. Integers lie between `-MaxInt - 1` and `MaxInt`.
Signed overflow is undefined in C++; what the build does is modelled, results wrap,
and dividing the least integer by -1 ends the process (`Trap`). Expressions are
records, the sets `Trees[n]` those of a height up to n, and what is computed over
them (`Evaluate`, `RemovePlus`, `Propagated`) recursive functions on
`Expressions`, so that it can be proved about.

`Optimizer` runs passes in any order, one turn of a loop over the statements at a
step. `PropagateConstants` is `constant_propagation` for one statement: it
threads the map from addresses to values through the tree, bottom up, as
`optimize` does. A node has an address, and live nodes have different ones
(`Accepted`); `NewFunction` puts another function into the same memory or
elsewhere, and a pass object may be used again or be new. Literals answer for
themselves and need no address while they live; one that is freed leaves an entry too
(constant_propagation.cpp:102), under `Elsewhere`, and `NewFunction` may give its
place to a node of the function that comes next (`Located`). `RemoveStatement` is
`erase(end())`, which the library of the build carries out as dropping the last
element; the standard leaves it undefined. Two history variables name the two
ways in which the code goes wrong: `reassigned`, a known variable took an unknown
value; `misled`, a live node lies at a remembered address. The properties hold
where neither happened, and `stale_constant` shows the first. The pass also evaluates
code that no call reaches and may be killed there, which `KilledOnlyByDeadlyCode`
leaves open.

## 3. The runs

| Run | States | Shows |
|---|---|---|
| `function_debug` | 71108 | 3 threads race for one function, debug build, no store order: `NoNullDereference`, `NoUseAfterFree`, `CompiledOnce`, `RecompilesBounded`, and liveness `EveryCallReturns`, `EventuallyLockFree` |
| `registry` | 1654481 | 3 threads register 2 functions and call them, races on the vector included, release build, ordered stores: `HandlesReachWhenApart`, `AnswersCorrect`, refinement of `FunctionService` (`ImplementsService`), `OutcomeIsFinal` |
| `functions` | 373672 | every function of the bounds, called again and again: `SymbolsOrdered`, `ConstantsKeepValue`, `ArgumentsDelivered`, `ReadsAreInitialized`, `NeverUnreachable` |
| `source_texts` | 41631 | every text of at most 4 characters: `NoReadPastEnd`, `IteratorIsFlat`, `TokensTile`, `MaximalMunch`, `ReferenceCoversLine`, `VerdictIsSticky`, `NextReturns` |
| `programs` | 319563 | every token sequence of three classes: `ImplementsGrammar`, `StepsShrink`, `NodesHavePosition`, `ErrorFlagAgrees`, `AccessorsFind`, `AstMeansText`, `DrawsTheTree` |
| `optimizer` | 510397 | up to 3 passes over each of the functions of `MCOptimizer`: `PreservesMeaning`, `KilledOnlyByDeadlyCode`, `RemembersOnlyFreed`, `NothingLeft`, liveness `EveryPassEnds` |

Six further runs each exhibit a disagreement between the code and what its own
tests, assertions or comments say:

| Run | Violates | What happens |
|---|---|---|
| `function_recompiled` | `NeverCompiledTwice` | two callers of a semantically invalid function compile it twice, and a debug build throws out of `operator()` |
| `function_unpublished` | `AnswersCorrect` | without store order a caller evaluates nodes it cannot see |
| `wrong_arity` | `ArgumentsMatchParameters` | a call with the wrong number of arguments runs: missing ones are zero, surplus ones become values of variables |
| `undeclared_in_assignment` | `NoNullExpression` | `a := b` with `b` undeclared is accepted and evaluates a null pointer |
| `self_initialisation` | `NoUninitializedRead` | `a := a` is accepted for an uninitialised `a` |
| `stale_constant` | `SameMeaning` | `a := 1; a := p; RETURN a` returns 1 once constants are propagated |

Three more are known and have no run of their own. `registry` includes registrations
that overlap, after which a handle may name another's function
(`HandlesReachWhenApart`). A fragment extended over a line break keeps only the last
line, because `operator<` holds both ways between lines (SourceCode.cpp:57): a test of
it, `MultiLineFragment`, returns before its assertion (TestSourceManagement.cpp:110-118),
and `ReferenceCoversLine` is about one line. And `constant_propagation` evaluates the
code behind a return: dividing the least integer by -1 there kills the optimiser of a
function whose every call succeeds, although constant_propagation.cpp:96 says "Should
an error occur during computation, leave the tree as is"; `KilledOnlyByDeadlyCode`
lists the case.

### Bounds, and why they are enough

- *Threads*: 3. A race needs the compiling thread and one that overtakes it;
  the third queues on the mutex meanwhile, or arrives when all is over. Two
  suffice where a run looks for one counterexample. Two arguments with
  different answers, one of them none, tell the calls apart. Calls repeat
  without limit; `compilation_passed` needs no bound because compilations end.
- *Functions registered*: 2. The vector moves when it is empty and when it has one
  element, the second time while the first function is compiled, called or about
  to be reached; two registrations overlap while a third thread calls.
  `FunctionProofs` has the property for every number.
- *Programs* (`functions`): 3 names give each section a symbol, or one section
  several; 2 values tell a constant or an argument from the default 0; 2
  statements give an assignment before a use, a use before an assignment and
  code behind a return.
- *Texts*: 8 characters are one of each class, and two letters for the one
  keyword `if`; 4 characters hold a token, the character that ends it, a
  newline and a further token, empty lines, and `:` at the end of a line.
- *Token sequences*: `Short` has all 19 token types and 6 tokens behind
  `BEGIN`: every error right behind every prefix. `LongBody` has 8 tokens
  behind `BEGIN`, one operator of each precedence and no declarations: brackets,
  signs, two operators, two statements. `LongHead` has 14 tokens up to `BEGIN`
  and the four of the shortest body: all three declarations together with lists.
  A text that has used up its room ends there, so truncated functions occur at
  every length.
- *Parse trees*: `MaxHeight` is 17, the height of the highest tree of the run; with
  16 one tree would not be looked at.
- *Optimised functions*: one parameter, one variable, the greatest integer as a
  constant, up to four statements over 21 expressions to begin with and 14 that
  use what was assigned. `MaxInt` 3 has every kind of number that matters: -4 to
  3, products and sums that overflow, and -4 / -1; `MaxHeight` 6 holds them all.
  Some functions fail on the left of a division that traps, which is what tells
  `KilledOnlyByDeadlyCode` from the stronger claim that the call would trap too:
  that one is false. 3 passes give every pass
  after every pair of others, and a pass object used for two functions. Of the
  places of freed literals one is given to a node of the second function: one entry
  is enough to mislead, and none to show that it does not where it is not looked up.
- *Symmetry* over threads or names only in runs without liveness.
- `CHECK_DEADLOCK FALSE` where a behaviour really ends: an analysis that
  refused its function, a call that went wrong, a finished parse, an optimiser
  that was killed or has run all its passes, a process that a call on no function
  has ended. `Function` and `Lexer` never stop and are checked for deadlock.

### Fairness

- `Function`: a thread inside a call keeps running, because the operating system
  schedules it. The mutex is *not* assumed fair: weak fairness of `Lock` lets a
  thread in only if the mutex stays free from some time on. That is why
  `EventuallyLockFree` is checked beside `EveryCallReturns`: callers do not
  starve because in the end nobody locks. Nothing forces a thread to call.
- `Pljit` has safety properties only, and no fairness.
- `Lexer`: a call of `next()` runs to its end; nothing forces the next call.
- `Parser`: `parse_function_definition` is one sequential call that runs on.
- `Optimizer`: a pass that has begun is one sequential call that runs on; nothing
  makes a pass begin.

## 4. The proofs

Eight modules hold proofs, of statements about every value of the constants:
`FunctionProofs` (every set of threads, arguments and
results, every evaluation function, both builds, any number of functions in the
registry), `ExecutionProofs` (every set of names and values, any
number of statements), `LexerProofs` (every alphabet,
table of keywords and set of texts), `ParserProofs` (texts of any length and
depth, of any tokens), `OptimizerProofs` (integers of any width, expressions of any
height, every set of accepted functions, any number of passes in any order),
`TreeProofs`, `MeaningProofs` and `PrinterProofs` (texts of any length and depth
again). Each has an inductive invariant, one lemma
per action, the theorem that the invariant holds, and the theorems from it.

| Theorem | Property |
|---|---|
| `FunctionProofs!TypeCorrect` | `TypeOK` |
| `FunctionProofs!CallImplHasAst` | `NoNullDereference` |
| `FunctionProofs!EvaluatedAstIsAlive` | `NoUseAfterFree` |
| `FunctionProofs!ValidCompiledOnce` | `CompiledOnce` |
| `FunctionProofs!OutcomeNeverRevised` | `OutcomeIsFinal` |
| `FunctionProofs!CallsAnsweredCorrectly` | `TotalStoreOrder =>` `AnswersCorrect` |
| `FunctionProofs!FunctionImplementsService` | `TotalStoreOrder =>` `ImplementsService` |
| `ExecutionProofs!TypeCorrect` | `TypeOK` |
| `ExecutionProofs!TableIsOrdered` | `SymbolsOrdered` |
| `ExecutionProofs!ConstantsAreConstant` | `ConstantsKeepValue` |
| `ExecutionProofs!ArgumentsArrive` | `ArgumentsDelivered` |
| `ExecutionProofs!CallsReturn` | `NeverUnreachable` |
| `ExecutionProofs!ReadsFollowWrites` | `ReadsAreInitialized` |
| `FunctionProofs!RecompilationsBounded` | finitely many threads: `RecompilesBounded` |
| `FunctionProofs!HandlesReachTheirFunctions` | `HandlesReachWhenApart` |
| `FunctionProofs!PljitImplementsFunction` | `Pljit` refines `Function` (safety) |
| `FunctionProofs!SubjectIsSafe` | `NoNullDereference`, `NoUseAfterFree`, `CompiledOnce` in `Pljit` |
| `FunctionProofs!SubjectOutcomeNeverRevised` | `OutcomeIsFinal` in `Pljit` |
| `FunctionProofs!SubjectIsAService` | `TotalStoreOrder =>` `AnswersCorrect`, `ImplementsService` in `Pljit` |
| `LexerProofs!LexerTypeCorrect` | `TypeOK` |
| `LexerProofs!NeverReadsPastEnd` | `NoReadPastEnd` |
| `LexerProofs!IteratorWalksTheText` | `IteratorIsFlat` |
| `LexerProofs!TokensTileTheText` | `TokensTile` |
| `LexerProofs!MunchIsMaximal` | `MaximalMunch` |
| `LexerProofs!VerdictsStick` | `VerdictIsSticky` |
| `LexerProofs!LexerTurnsShrink` | every turn of a loop in `next()` ends the call or leaves fewer turns: the safety half of `NextReturns` |
| `ParserProofs!ParserTypeCorrect` | `TypeOK` |
| `ParserProofs!NodesAlwaysHavePosition` | `NodesHavePosition` |
| `ParserProofs!ErrorFlagAlwaysAgrees` | `ErrorFlagAgrees` |
| `ParserProofs!ParserImplementsGrammar` | `ImplementsGrammar` without its fairness |
| `TreeProofs!FormsInvariance` | every call in progress has a form its node may have |
| `TreeProofs!AccessorsAlwaysFind` | `AccessorsFind` |
| `TreeProofs!ParserStepsShrink` | `StepsShrink`, in an order in which nothing gets smaller for ever |
| `MeaningProofs!AstAlwaysMeansText` | `AstMeansText` |
| `PrinterProofs!PrintersDrawTheTree` | `DrawsTheTree` |
| `LexerProofs!ReferencesCoverTheirLine` | `ReferenceCoversLine` |
| `OptimizerProofs!OptimizerTypeCorrect` | `TypeOK` |
| `OptimizerProofs!OptimizerPreservesMeaning` | `PreservesMeaning` |
| `OptimizerProofs!OptimizerKilledByDeadlyCode` | `KilledOnlyByDeadlyCode` |
| `OptimizerProofs!OptimizerRemembersFreed` | `RemembersOnlyFreed` |
| `OptimizerProofs!OptimizerLeavesNothing` | `NothingLeft` |
| `OptimizerProofs!OptimizerTurnsShrink` | every turn of a pass ends it or leaves fewer turns: the safety half of `EveryPassEnds` |
| `OptimizerProofs!RemovePlusCorrect` | `UnaryPlusRemoval` on one expression: no unary plus, same value in every context |
| `OptimizerProofs!PropagatedCorrect` | `constant_propagation` on one expression: same value wherever what is known holds |

*Assumptions.* `FunctionAssumption`: the marks (`NoArg`, `Exception`, ...) are
distinct from real values, and `Nullopt` is a result. `ASTCreatorAssumption`,
`ExecutionAssumption`: 0 is a value and the mark `NoValue` is not.
`PljitAssumption`: the subject is one of the functions that may be registered.
`LexerAssumption`: the classes of characters are disjoint, newline is white
space, and no keyword has the type of a literal. `ParserAssumption`: the mark of
an invalid symbol is no token. `EvaluationAssumption`: `MaxInt` and the bound on
heights are natural numbers, the two marks for failures are distinct and no
integers. `ExpressionAnalysisAssumption`: the bound on heights is a natural number.
`OptimizerAssumption`: the functions to optimise are what semantic
analysis accepts, with a return statement (`CallsReturn` rests on the same), and
nodes that are alive together have different addresses; `Elsewhere` is none of these.
The conditional theorems name
their condition in the statement, and `function_unpublished` shows what happens
without it.

*The argument for Function.* No property is inductive alone: what a thread may
rely on depends on the tests it passed. `LockInv` ties the mutex to the program
points of `compile()`, so that one thread at a time writes; `OutcomeInv` says
that an AST and a failure exclude each other; `PathInv` says what each program
point knows (above all, behind `compile()` there is an AST or a failure);
`CountInv` relates the number of compilations to who is compiling. Finality of
the outcome follows because a step that writes `ast` runs at a point where
`PathInv` has `ast = 0`. The refinement maps `pc` to idle, called, answered.

*The argument for Execution.* `SectionInv` ties the types in the table to the
section being analysed, which gives the order and so the place of the
constants. `InitializedInv` says that a variable marked initialised has been
assigned by a statement already built, and `StatementInv` that a statement uses
only what statements up to itself assign; during a call the statements before
`next` have all been executed, so their targets are in `written`. No statement
has a constant for a target, so constants stay; an accepted function has a
return statement, and `next` does not pass the first one.

*The argument for Pljit.* `StepOfFunction` maps every step of the composition to
a step of `Function` or a stutter, so `Function`'s invariant carries over, and with
it the finality of the outcome (`FinalStep`) and the service (`ServiceStep`).
`RegistryInv` says that, until something has overlapped (`ApartInv`), the element with
index i owns the i-th function made (`VectorInv`), an index in a handle is that of its
function, and a thread in the registry holds what its place tells (`HolderInv`): one
that appends, the end of the array in use and the last function made; one inside
`get`, its handle's element of the array in use; one behind `get`, the object itself,
which no append moves. Each of these survives the steps of the others because what
would disturb it sets `overlapped` when it begins. Of a registry in which something
has overlapped nothing is claimed, but that every step is one of `Function` still.

*The argument for RecompilesBounded.* Until a compilation has failed there is at
most one (`FirstInv`). From then on nobody joins the threads at the mutex
(`AtMutex`), because `operator()` sees the failure, and each that compiles leaves
them: compilations made and threads at the mutex are together no more than the
threads (`QueueInv`).

*The argument for Lexer.* A text ends in a newline and a newline belongs to no
token. `SourceInv` says that the ends of the lines are the newlines, in order, and
gives the arithmetic of the iterator (`AdvanceSteps`, `OffsetsOrdered`);
`Standing` that a token being read stands on one line with characters of its class
from where it began; `TokensInv` that finished tokens are maximal and have white
space between them; `VerdictInv` that after a verdict the iterator stands where
the next call comes to the same one. From `Standing` the iterator is at a
character whenever the code dereferences it unasked.

*The argument for Parser.* The recogniser has no stack, so the invariant says where
each frame stands in the phrase. A spot is a place of `Grammar` with the brackets
open there, the declarations behind it and the tokens that may still come. Every
part of a parse function leads from a spot to the next (`PartFits`): a terminal by
its token, and any other token is refused there by the language; a called function
as a whole (`NodeFits`), which `CalledFits` shows of every function and lookahead;
a part that may be missing because without its token the spots say the same
(`Passes`). `StackFits` chains them: each frame ends where its caller goes on, the
function at its period, and the phrase stands where the part in front begins. What
a parse function does with a wrong token is then what the language does. A frame
without a position has an empty lookahead and a last spot it does not stand at, so
it never becomes a node. While a declaration is abandoned the phrase stands
nowhere (`Aborting`), and the test of `has_error()` comes next (`Declaring`).

*The argument for the tree.* The children a call has and the parts it has still to
parse, taken together, are its form (`FormOf`). `Forms` lists the forms of each
node: the announced and the unannounced ones, for lists any number of elements
parted by separators. Every action moves a part from one side to the other or puts
an announced part in the place of its announcement, and both are again forms
(`AnnouncedForm`, `ConsumeForm`); a call that waits for another has that call's
node in front of its parts (`Awaited`). So when nothing is left to parse, the types
of the children are known, and `CompletedFinds` reads off where the accessors look.
`FunctionFinds` does the same for the function, whose declarations may be missing.
The lemmas need `Inv` of `ParserProofs` for the shape of the stack only.

*The argument for the translation.* `Meaning` never sees a tree: it splits a text at
the first sum or product outside of all brackets. So it has to be known of the text
of every node where such operators stand. Brackets are level in the text of every
expression, and it ends with a name, a number or a bracket (`Closed`); then the
operators of a text made of two are those of both and the one between
(`InfixSides`), brackets hide what they enclose (`BracketedText`), and a sign is
none (`SignedText`). `Means` says so of a node of each type, and that its
translation is the meaning of its text: a multiplicative expression has no sum
outside of brackets, a unary one no operator at all, which is why the first
operator of a text is the one the parser split at. `NodeMeans` shows it of every
node that is completed if it holds of its children, whose types are those of the
forms of `TreeProofs` (`CompletedShape`). The invariant `MeaningInv` says it of
the children of all calls in progress; it is inductive on top of `Inv` and
`TreeInv`, and has nothing to say of what a call has still to parse. That the
recursive functions `Trees`, `analyze_expression`, `Yield` and `Meaning` obey their
definitions (`TreesDefined`, `AnalysisDefined`, `YieldDefined`, `MeaningDefined`) is
shown by induction over a set of numbers (`Induction`): what a definition says of a
node depends on its children only, and of a text on shorter ones. As in the
property, trees higher than `MaxHeight` are not looked at; `MaxHeight` is any number.

*The argument for the printers.* What is printed of a node depends on the printer it
finds, and what is read back on the whole text, of which the node's is a stretch. So
`Prints` says two things of the printer behind a node. One is about what is written
so far (`Writes`): between two nodes it is a well-formed graph of all numbers given
(`Between`), and only where an edge has just been started may a node be written
(`Ready`). The other is about whatever is written afterwards (`Shows`): the node is
shown in every longer text in which no further edge starts from a number of this
stretch (`Apart`). A node and k of its children are printed (`WritesChildren`) if
k - 1 are and the next one, since the next child starts edges from its own numbers
only, and the edge to it is the last one from the node (`NextChild`); after the last
child the node is shown (`NodeShown`). By induction on the height every tree is
printed wherever it is to be (`TreesPrintable`), and `PrintedIsTree` is that for a
new printer. The AST is printed as the tree `visitFunction` makes of it, which is no
higher than the function was in the text: `MeaningInv` bounds the height of every
translated node (`Fits`), and `VisitedFunction` adds the statement and the function.

*The argument for CodeReference.* Positions are not ordered by `operator<`, but
tokens come in order (`InOrder`). `CoversLastLine` is what `extend` preserves
then (`ExtendOne`): the fragment ends with the last token and begins on its line,
with the first token if that is where it stands.

*The argument for Optimizer.* What a recursive function yields for every
expression is proved by induction on the height, where the induction is over the
set of the heights for which a statement holds (`NatSetInduction`), so no operator
has to be passed to a theorem. `TreesEquation` gives the recursion of the sets,
`StructuralRecursion` that a function defined by recursion over operands exists
and obeys its definition, from which the equations of `Evaluate`, `Nodes`,
`RemovePlus`, `Propagated` and `Execution` follow. `RemovePlusCorrect` and
`PropagatedCorrect` are the two passes on one expression. For whole functions the
invariant `Inv` says that the present and the original program have the same run
for every argument (`SameRuns`); that behind the statements already
propagated every known value is what a run has in its context, whatever its
arguments (`KnownHolds`); that `FindReturn` stands behind the first return
(`ReturnFound`); and what the pass has done to the statements before `next`
(`DoneSoFar`), which becomes `NothingLeft` when it ends. `PreservesMeaning` needs
all of these: a propagated constant is right only because the run up to there is
the original one, and removal of dead code only because the counter stands behind
a return. TLC checked the invariant on the run `optimizer` before it was proved,
and refuted a first form of `KilledOnlyByDeadlyCode` in which the call itself was
to trap: it may fail at the same statement before it comes to that division.

*The argument for the end of a parse.* A list of four numbers gets smaller with every
step, compared from the left (`Measure`). First come the tokens that are left. A frame
that takes none gives up, after which a declaration is abandoned for good (`Trying`),
or it has been called and has called. `Descent` ranks the nodes so that whatever a
form begins with is ranked below its node (`FormBegins`, from the forms of
`TreeProofs`), which is that the grammar has no left recursion; so a frame that has
parsed nothing yet calls its way down (`CallParseShrinks`). A frame that has parsed
something ranks by the depth of the stack, above all those that begin, and a call that
returns takes one frame away. Last come the parts a frame has still to go through:
`ListOf`, which stays when it is announced, is paid for by the separator in front of
it, since a frame at a token it will take or refuse ranks lowest. `LowerWellFounded`
is the library's theorem on lexicographic orders, for four numbers.

*Only model-checked*: liveness and fairness. That loops and descents do not go on
for ever is proved as a measure that every turn makes smaller (`LexerTurnsShrink`,
`ParserStepsShrink`, `OptimizerTurnsShrink`); that a next turn is enabled and taken
(`NextReturns`, `ImplementsGrammar`, `EveryPassEnds`) needs ENABLED and stays with
the runs, and so do `EveryCallReturns` and `EventuallyLockFree`, which rest on the
schedule. Every invariant and every other action property of a passing run is a
theorem as well.

## 5. Not modelled

- What overlapping registrations may do to the memory of the vector beyond its
  elements and its size.
- More arguments than the table has symbols, which is undefined as well.
- Literals that do not fit an integer (`get_value` says that none occur).
- The values and wording of names, messages and positions in messages;
  `main.cpp`, which does nothing; the layout of what the printers write.
- Accessors that return a child at a fixed index, except through
  `ExpressionAnalysis`.
- `src/cmake`: the vendored test framework, third-party code.

## 6. Plan

Written so far, in this order: `FunctionService` and `Function` with their
proofs (the concurrent heart), `ASTCreator` and `Execution` with their proofs,
`SourceCode`, `Lexer` and `CodeReference`, `Grammar`, `Parser` and `ParseTree`;
then `Evaluation` and `Optimizer`, `Pljit` with its proofs, `ExpressionAnalysis`
and `DotPrinter`, and the proofs of `RecompilesBounded`, `Lexer`,
`CodeReference`, `Parser`, `Optimizer`, the tree, its translation, the printers and
the end of a parse.

Left: `Pipeline`, lexer, parser and analysis composed, so that the three outcomes
`Function` takes for granted are those the passes produce.
