# basic-cc: specifications, model checking and proofs

basic-cc is a small C compiler: a flex lexer and a bison LALR parser build an
abstract syntax tree (AST), converting and checking types as they go, and a tree
walk writes i386 assembly for gcc to assemble. It is one thread, with no
persistent state and no input but the source text. What makes it hard is not
interleaving but *protocol*: half-built constructs on the parser's value stack
next to bare pointers that must agree with them, nodes that live on one list by
the one list node they have, types shared between the variables of a
declaration, and generated code whose correctness shows only when it runs.
This directory holds TLA+ models of those parts, TLC runs over small instances
of them, and TLAPS proofs for all instances.

Paths below are relative to the repository root (`src/ast/...`,
`include/...`, `test/...`).

## 1. The system

| Component | State | Operations | Talks to |
|---|---|---|---|
| Lexer `src/ast/in/lalr/lexer.l` | start condition, literal being built, location | next token | called by the parser; keeps its state in `struct bcc_parser_state` |
| Parse session `parser.y` (rules from `basic_cc_file` to `statement`), `parser.h` | value stack; `current_scope`, `current_func`, `declaration_type`; blocks, functions, variables, statements | one semantic action per rule | looks names up in `ast.c`, builds expressions, appends to lists |
| Expression typing `parser.y` (expression rules), `binop_create.c`, `assign_create.c`, `func_param_check.c`, `ast.c` | the expressions on the value stack | one action per operator | asks `type.c`, allocates nodes and types |
| Type names `parser.y` (`type_specifier` to `type_name_optional_ident`), `specifier_utils.c` | the base under construction, its specifier flags, the pointers of each open group | add specifier, qualifier, pointer, parenthesis | hands types to declarations, parameters and casts |
| Types `src/ast/type.c`, `include/ast/type.h` | chains of type objects | classification, identity, implicit casts, sizes | everything that types an expression |
| Linked lists `include/list.h` | two pointers in every node | add, delete, move, replace, rotate, cut, walk, take | every list of the AST |
| Object pool `src/ast/object_pool.c` | chain of blocks with threaded free lists | get, clear | `create_bcc_ast_type` |
| AST memory `bump_alloc.c`, `src/ast/nodes/*.c`, `bcc_ast_clear` | list of areas with clear functions | get, free all | every node constructor |
| Assembly generator `src/ast/out/asm_x86/{gen,load,store}.c` | output so far, `next_label`, `loffset` of variables | one generator per node kind | reads the AST |
| String escaping `src/ast/out/util.c` | output buffer | escape a literal | generator |
| Driver `src/main.c`, `src/arg_parser.c` | argument cursor, open files, format | parse options, parse, output, clear | everything |
| Dumpers `gen_text.c`, `gen_dump_ast.c` | indentation | print an AST | driver |
| Recursive parser stub `src/ast/in/recurse` | look-ahead token | print tokens | not selected by the build |

Interaction is by direct calls and shared pointers. The parser drives the
lexer, the lexer writes into the parser's state, semantic actions of *different*
rules share that state between the middle of one rule and the end of another,
and the generator reads what they left. An error in a semantic action
(`ABORT_WITH_ERROR`) ends the parse at once; `main` then prints nothing.

What is hard in each part, and the properties that make it correct:

* **Parse session.** `current_scope` and `current_func` must be what the nesting
  of the grammar says at every reduction (`ScopeChain`), lookup must then find
  the variable C's scoping means (`ResolvesLexically`), each variable must be on
  one owning list and have one place in the frame (`VariablesOwnedOnce`), each
  node must have one holder (`NodesOwnedOnce`), entries must keep the order of
  the source although they arrive by two paths (`EntriesInSourceOrder`), and
  lifting `const` around an initialiser must neither leak nor be forgotten
  (`ConstNeverAssigned`, `ConstPreserved`).
* **Expression typing.** Operands of equal width before the generator names one
  register size for both (`OperandsWide`); arguments converted one by one along
  two lists (`CallsConverted`); const not lost through any number of pointer
  layers but by a cast of the source or a pointer to void (`ConstRespected`).
* **Type names.** Specifiers come in any order and each is checked only against
  those before it (`BaseMeansC`, `RejectsWhatCRejects`); declarators are read
  outside in and linked inside out (`DeclaratorMeansC`). The name of a type is put
  together in a buffer of fixed size (`NamesStayInBuffer`).
* **Linked lists.** Four pointer writes per insertion, some reading what others
  wrote (`WellLinked`, `ImplementsLists`).
* **Object pool.** The free list runs through memory that callers overwrite
  (`FreeListIntact`, `ImplementsAllocator`).
* **Generator.** Stale register parts, the stack as temporary storage, labels
  from one counter, frames: all of it shows only in execution
  (`ImplementsExecution`, `StackBalanced`, `FramesLinked`, `CodeAssembles`).

* **AST memory.** A name goes from the scanner over up to five rules to the node or
  the rule that frees it, unless the parse ends with it in hand (`OwnedOnce`); the clear functions follow lists of nodes
  other areas free (`FreedOnce`); nothing on the value stack may point to what
  `&*` has freed (`NodesLive`).
* **Driver.** `current_arg` and `shrt` move together over several calls
  (`ArgumentsInOrder`, `StaysInArgv`, `ArgsEnd`); files are opened as arguments
  are met and closed long after (`FilesClosed`); output is in stdio's buffer while
  other things may still fail (`OutputSurvives`).
* **Lexer and strings.** Three fields make up a literal and are handed over
  together, and two buffers grow as they are written (`BuffersHold`); locations are
  kept by increments (`TokensLocated`); the diagnostics move the `FILE` flex reads
  in chunks (`FileReadInOrder`); escapes are undone by the scanner, redone by the
  output and undone by the assembler (`LiteralsMeanC`, `StringsReachTheProgram`).
* **Dumpers.** Indentation or brackets alone carry the structure
  (`DumpsTellApart`).

The hazards, each at its line, are listed in `PROJECT.json`.

## 2. The modules

| Module | Models | Kind |
|---|---|---|
| `ParseScopes` | the parse session | state machine |
| `ParseScopesProofs` | its pointers and scopes, who holds which variable and node, the order of entries, what an identifier finds | proofs |
| `MCParseScopes` | its constants for TLC | instance |
| `Types` | `type.h`, `type.c` | operators |
| `AstBuild` | node constructors and conversions | operators over `Types` |
| `Expressions`, `MCExpressions` | the expression rules over a value stack | state machine over `AstBuild` |
| `ExpressionsProofs` | what every node on the value stack is like | proofs |
| `TypeNames` | specifiers, qualifiers, declarators | state machine |
| `TypeNamesProofs` | what they mean, and where a type's name ends | proofs |
| `LinkedList`, `MCLinkedList` | `list.h` | state machine, refines `Lists` |
| `Lists` | what lists promise: sequences | abstract specification |
| `LinkedListProofs` | proofs about `LinkedList` | proofs |
| `ObjectPool`, `MCObjectPool` | `object_pool.c` | state machine, refines `Allocator` |
| `Allocator` | what an allocator promises | abstract specification |
| `ObjectPoolProofs` | proofs about `ObjectPool`, refinement included | proofs |
| `CodeGen` | `gen.c`, `load.c`, `store.c` | recursive operators, AST to instructions |
| `X86` | the instructions the generator uses, and the assembler's rules | operators (external) |
| `CSource` | what the C standard says a source program does | operators (external) |
| `Execution` | print what the source prints, then end | abstract specification |
| `Machine` | running what was compiled | state machine over `X86`, refines `Execution` |
| `Compile` | source to AST to code, and what it means | composition of `AstBuild`, `CodeGen`, `CSource` and `Machine` |
| `Dumps`, `MCCompile` | `gen_dump_ast.c`, `gen_text.c` | recursive operators over the ASTs of `Compile` |
| `AstMemory` | `bump_alloc.c`, `nodes/*.c`, `bcc_ast_clear`, and what every parser rule allocates, hands on and frees | state machine |
| `AstMemoryProofs` | its inductive invariant, one lemma per rule and per clearing step | proofs |
| `Driver`, `MCDriver` | `arg_parser.c`, `main.c` | state machine, composed with `AstMemory` |
| `DriverProofs` | `Driver` refines `AstMemory`; arguments, files and output | proofs |
| `Lexer` | `lexer.l`, the diagnostics of `parser.y` | state machine |
| `LexerProofs` | what a match is, where tokens stand, the shared FILE, the buffers of `Lexer` and `Literals`, the meaning of literals and what of it reaches the program | proofs |
| `Literals`, `MCLexer` | adjacent strings, `util.c`, the assembler's `.asciz` | state machine, composed with `Lexer` |

`Compile` composes `AstBuild`, `CodeGen`, `CSource` and `Machine`; `Expressions` runs
`AstBuild`; `AstBuild` rests on `Types`. `PROJECT.json` maps each definition to
the lines it models. Definitions that carry a suffix (`AddLocal_NoFrameEntry`,
`Subtract_Reversed`) are mutations of the definition they are named after: with
one put in its place, the property it is listed with fails, so the property
does depend on the code.

### How state and actions correspond to the code

**`ParseScopes`.** The heaps `typeObjs`, `varObjs`, `blockObjs`, `stmtObjs`,
`funcObjs` hold the structures of those names; a pointer is an index, 0 is
NULL. `currentFunc`, `currentScope`, `declType` are the three pointers of
`struct bcc_parser_state`. `stack` is the part of bison's value stack that holds
rules begun and not reduced; `result` is the `$$` of the statement or block
reduced last until a rule consumes it. One action is one rule's semantic action
(or mid-rule action), with everything it calls: `DeclareInit`, for instance,
resolves the initialiser, checks void, links the variable into block and
function, lifts const, builds the assignment or aborts, sets const again and
appends the statement. Every action may be followed by `SyntaxError`. Types are
a primitive and a const flag here, as the other modules treat types in full.

**`Expressions`/`AstBuild`.** `vals` is the expressions on the value stack. Since
any subexpression may be parenthesised, the rules may reduce in any postfix
order, so each action reduces the top of `vals`. A constructor that returns NULL
gives `Failed` (the parse ends), one that follows a null pointer gives `Fault`.
A cast node that the source wrote carries a mark (`SourceCast`) that the code does not
have and nothing in the model looks at: it only tells `ConstRespected` which
casts the program asked for.

**`TypeNames`.** `groups` holds, for each open parenthesis, the const flags of the
pointers read in it; closing a group links it over what it encloses, as the
loop `for (; type->inner; ...)` does.

**`LinkedList`.** `ring` is the two pointers of each node; each action performs the
function's writes in source order. `retired` marks what `list_replace` replaced,
which keeps stale pointers and which no caller uses again.

**`ObjectPool`.** `blocks` and `link` are the block headers and the first word of
each object's memory; `Write` is a caller using its object. The newest block is
the first of the chain.

**`Compile`/`Machine`.** `Compile` builds the AST of each program by the parser's
constructors and gives it to the generator (`Compiled`), and says what the program
means (`Meanings`). `Machine` takes both as its constants `Images` and `Runs`, so
that compiling is done once for each program and not in every state, and each
`Execute` runs one instruction. `fill` is what memory
and registers held before: every variable and upper register half the code
reads without setting shows it. `CallLibrary` is an external function, which
prints the word on top of the stack and may leave anything in `%eax`, `%ecx` and
`%edx`.

**`Dumps`.** Both printers as functions from an AST to the entries they print, in
order; an entry of the outline carries its indentation. Spacing and wording are
left out, so that two texts that differ only in blanks count as the same. A kind
of node the table has no printer for is `Crash`, and so is a function printed
inside itself (`busy`), which never ends.

**`AstMemory`.** `heap` says what is at each address and which names and
variables it is responsible for; `areas` is the allocator's list, newest first.
`symbols` is the part of the value stack that points to memory. One action is a
rule's semantic action as far as it touches memory; where the rule tests a name
or a type, which are not in the model, it may go either way, and several nodes
that one rule makes are one node. The forms of `if` are covered by `BinaryOp`
and `Statement`, which take and leave the same symbols. `malloc` gives the lowest free address,
so that what is freed is soon given out again. `FreeArea` is one step of
`ast_bump_alloc_free_all`, and a free of what is free already is
`memStatus = "doubleFree"`. A parse may end with memory in hand: the lookahead's
name or string at a syntax error, a rule's variable when the rule gives up, and
the buffer of a string that the text leaves open, where the scanner returns
`TOK_EOF` and the parse may even be accepted (`EndsIn`, `GiveUp`, `Accept`).
`lost` remembers what was in hand and has no owner since; no step looks at it.

**`Driver`.** An argument is a sequence of symbols (`-`, an option's letter, a
word). One `ArgStep` is one call of `arg_parser` and the branch of `main`'s loop
it leads to; `current`, `shrt` and `parsingDone` are `struct arg_parser`. `fopen`
may fail. `output` is whether what was generated is in stdio's buffer. `Parse` and
`Clear` run `AstMemory`'s steps; the argument vector is forgotten once it has been
read.

**`Lexer`.** `text` is what flex has read so far, in chunks as `YY_INPUT` does,
`at` how far it has matched, and `fpos` where the `FILE` stands. A step is one
match: the longest pattern of the current start condition (the earlier one of
two), decided once flex has looked as far as it has to, with the whole action of
that pattern. `loc` and `place` are the location fields, `lex` the literal that is
being built. `DisplayLine` is `display_invalid_token`, which moves the `FILE` and
moves it back, except that a pipe cannot be moved. What no pattern matches is
`echoed` to stdout by flex's default rule.

**`Literals`.** Takes each string token as the parser does, joins adjacent ones,
escapes the result as `util_escape_str` does, and reads that as the assembler
reads `.asciz`.

## 3. The runs

State counts are distinct states; all runs are exhaustive.

| Run | Checks | Bounds | States |
|---|---|---|---|
| `parse_session` | scopes, lookup, ownership, order, typing, const lifting | one name, prototypes and definitions with no or one (const) parameter, types `int`, `const int`, `void`, 2 functions, 3 blocks, 2 variables, 2 types, 3 expressions | 257k |
| `linked_list` | well-linkedness, refinement of sequences | 2 heads, 3 entries, every call | 4.6k |
| `object_pool` | free lists, refinement of the allocator | 2 blocks of 2 objects, any write | 0.8k |
| `type_names` | bases, declarators and their names | 4 specifiers or qualifiers, 3 pointers, 2 parentheses, names of 23 characters | 238k |
| `expressions` | conversions, calls, const | 7 types of variables, 2 functions, 3 operands, 2 operators | 1010k |
| `compile` | expressions, control flow, calls and frames run as C says; outlines and texts tell programs apart | 949 source programs with a meaning, two fillings of memory | 88k |
| `driver` | arguments, files, output, and memory from the first token to the exit | 18 command lines, 6 addresses, 5 symbols, one `&*` | 579k |
| `literals` | scanning, locations, literals, strings up to the program's memory | texts of one or two literals and layouts, chunks of 3, int of 16 bits, buffers of 2 | 135k |

Four runs end in a counterexample, each against a statement of the repository:

| Run | Property | What happens |
|---|---|---|
| `parse_void` | `LookupNeverFaults` | In `int f(void) { ... }` the unnamed parameter has no name; a lookup that reaches the parameters calls `strcmp(NULL, ...)` (`ast.c:111`). `test/output_test/param_void.bcc` is such a program. |
| `parse_param` | `ParamsNotVoid` | A named parameter of type void is accepted; `test/buggy_test/void_func_arg.bcc` must be rejected. |
| `expr_pointer` | `PointerArithmeticBuilt` | `1 + p` follows the integer type's null `inner` (`binop_create.c:45`). |
| `compile_not` | `CodeAssembles` | `!e` emits `setne %eax`, which no assembler takes (`load.c:316`). |

### Why the bounds are enough

* `parse_session`: three blocks give a function body with two nested or two
  sibling blocks, an if with both branches, or two functions; two variables give
  a parameter or an outer variable hidden by an inner one of the same (only)
  name. One name is the hardest case for lookup, as every declaration collides.
  Two variables on one declaration share a type object, the second initialiser
  may assign the first, and either may fail.
* `linked_list`: with three entries an entry has two different neighbours, or the
  head as one or both; with two heads entries move between lists.
* `object_pool`: two blocks of two objects give a full block behind one with
  room, first and last objects, and the last NULL of the threading.
* `type_names`: four tokens allow every legal list with one repetition or one
  illegal addition; three pointers in two groups give every order of linking.
  `NameSize` is 24 in place of 255, so that names of two pointers fit into it and those of three
  are cut, which the property leaves out (as 24 and more are in the code).
* `expressions`: two operators over three operands give an operator on the result
  of each kind of conversion; char and short need promotion, `char **` and
  `const char **` are the layers on which C's rule for const turns, and `void *` is
  the way around it.
* `compile`: a byte of four bits makes an int 16 bits wide, a short 8 and a char
  4, so small values overflow, cut and sign-extend. Every operator is applied
  to every pair of six operand forms (int, char, short, number, dereference,
  index), and five operators are nested in five others on either side. The flow
  programs put each pair of six statements into loops and both branches. Programs
  whose meaning C leaves undefined (115 of 1064) are not run (`MeaningfulPrograms`),
  though the dumps of the others must differ from theirs.
* `driver`: the command lines have every way to write an option, bundles, missing
  values, `--` in every position, repeated and failing files. Six pieces of
  memory hold a function with a name, a parameter or a block with a local, and an
  expression or a list under way; A rule that needs more memory than
  is left is not taken, and the parse goes on to an error instead.
* `literals`: chunks of 3 end before, in and after every kind of token; an int of
  two bytes takes one, two or too many characters; buffers of 2 grow twice.

### Deadlock and fairness

Deadlock is checked in `driver`: until the program exits it always has a step
(`Exited` is the one way to stay). It is not checked (`CHECK_DEADLOCK FALSE`) in
the other runs: a parse ends, accepted or not, a text ends, a program ends, a
pool is cleared, and the bounds stop the rest. `Machine` assumes weak fairness of the processor's step and nothing else;
the compiler gives no other guarantee, and the step is always the one
instruction at `pc`. Under it, `ImplementsExecution` says that every run prints
all that the source prints and then ends: an endless loop, a fault, or a lost
print all violate it. `Driver` assumes weak fairness of `ArgStep`, the loop over the arguments, which
waits for nothing; under it `ArgsEnd` says that the loop is left for every
command line. The other specifications have no liveness: how much source text
follows is up to its author.

## 4. The theorems

Proved for every value of the constants, from the named assumptions of the
modules only.

* `ParseScopesProofs`: `Invariance` (`Spec => []IInv`) and from it `ScopesAgree`
  (`ScopeChain`). `ScopeChain` speaks of
  `status = "parsing"` and of the innermost block; it is not inductive alone.
  The invariant `IInv` adds the typing of every heap (`PointersTyped`), that the
  expression heap is a sequence, that `declType` is set while a `declaration`
  frame is open (so that the variables it declares have a type), and that the
  function's frame is the outermost one and block and function frames name
  objects of their heaps. Both are kept by any step that leaves block and function
  frames alone (`ChainKept`). The
  bulk of the proof is one lemma per action (`OpenBlockStep`, `CloseBlockStep`,
  ...). Assumptions: the constants' types (`NamesAssumption`,
  `ParamListsAssumption`, `ExprsAssumption`, `DeclTypesAssumption`).
* `ParseScopesProofs`, on ownership: `OneListPerVariable` (`VariablesOwnedOnce`), `OneHolderPerNode`
  (`NodesOwnedOnce`), `EntriesKeepOrder` (`EntriesInSourceOrder`), and `ConstSetBack`
  (`ConstPreserved`). `OInv` adds to `IInv` how the frames nest (`Nested`: a declaration is in
  a block, an inner block in a statement of control, only an `else` holds a branch; `Reduction`:
  what waits to be taken is a statement, or the block of such a statement). Without it a step
  could put a node where another one already is. `EntriesOlder` makes the order inductive:
  the entries of every block are older than the next statement. `NodesOwned` says
  for all holders together (entries, bodies, branches, functions, frames, `result`) that each node is
  held once; each action then either makes a node with one holder (`AddOne`) or moves
  one from a holder to another (`MoveOne`), whatever happens to holders of nothing (`Alike`). It needs
  that a function has no block while its frame is open (`Bodiless`).
* `ParseScopesProofs`, on lookup: `LookupsAreLexical` (`ResolvesLexically`), `ConstIsRespected`
  (`ConstNeverAssigned`), `PointersStayInRange`
  (every list, `outer_block`, branch, body and function's block points into its heap) and
  `SessionTypes` (`TypeOK`, which has that as a part; it follows from who owns variables and nodes, the
  order of the entries and `Outward`). `LInv` adds to `OInv` that `outer_block` points to
  an older block (`Outward`) and what is known of accepted expressions. From `Outward` the
  recursive search order exists for any number of blocks (`WalksExist`: functions on the first
  n blocks, by the least n that has none), and the walk finds what the innermost open
  block declares (`WalkFinds`: by the least frame where it does not). For const: a step lifts
  the flag of a type and never sets it on one that exists (`ConstLifted`), so an expression
  stays legal once accepted.
* `TypeNamesProofs`: `BasesMeanC` (`BaseMeansC`), `BasesRejected` (`RejectsWhatCRejects`),
  `DeclaratorsMeanC` (`DeclaratorMeansC`) and `NamesStay` (`NamesStayInBuffer`), for any number of
  specifiers, pointers and parentheses and any size of the buffer. `BaseInv` ties the base to the
  set of its specifiers (`Width`), that set to what was read, and `RejectsWhatCRejects` to both: a set
  that C can complete (`Completable`) is one nothing was refused of, as `specifier_is_invalid`
  asks of each specifier what the set already holds. `DeclaratorInv` says what is linked while the
  parentheses are closed: as many pointers as the closed groups have, out of them, and in the order
  of the one group if there is one. So the theorem gives C's order for one group of
  pointers, and their number for groups of like ones; it says nothing of groups with different
  qualifiers, which the code nests in the wrong order (section 5). It needs that flattening distributes over the last group
  (`FlattenFront`), and the name needs what it is after k texts; both are recursions over the length of a
  sequence. The prover has no induction with an operator as a parameter, so
  each is proved by the least index at which it fails (`LeastOf`, from well-foundedness).
* `ExpressionsProofs`: `OperandsAreWide` (`OperandsWide`), `ArgumentsConverted`
  (`CallsConverted`) and `ConstIsKept` (`ConstRespected`), for any types, signatures and casts and
  expressions of any size. The properties look four levels into an expression; the invariant
  `ExprInv` looks at all of it: there is a set of nodes that holds what is on the value stack and the
  kids of each of its nodes, and each of them is `Good`. Each constructor has a lemma that what it makes
  of nodes of such a set is in a larger one (`Grown`). Const rests on `IdenticalIsSafe`:
  what `bcc_ast_type_lvalue_identical_to_rvalue` accepts is `Safe`, by
  downward induction over the layers. It is about the type a value has before the casts that
  assignments and calls put around it (`SourceType`); the value stack itself holds no such
  cast (`Plain`), so below an inserted cast is what the source wrote. Casts of the source and
  pointers to void are where const may go.
* `LexerProofs`: `TokensAreLocated` (`TokensLocated`), `FileInOrder` (`FileReadInOrder`),
  `LiteralsHold` (`LiteralHolds`, the scanner's half of `BuffersHold`) and `TypesHold` (`TypeOK`), for any
  texts, operators and reserved words and any size of the chunks. `MatchesAre` comes first: from the
  patterns alone, what every match is (`Matched`), most of all that no match but those of the newline
  rules and of the default rule has a newline in it (`InlineMatch`). `PlaceInv` then says that line, column and
  line offset are those of the next character (`Placed`), which only holds while no
  newline was echoed (`Clean`), and `TokenInv` that the last token's are its own; a text that grows does not move
  its lines (`NewlinesSame`). `LiteralInv` ties the start condition to the quote that opened the
  literal and to the buffer (`Building`). Each rule has a lemma (`NewlineStep`, `OpenStep`, ...).
  Assumptions: `LexerAssumption`, whose part about operators (not empty, without quote or newline) is
  read off `lexer.l`, and whose powers of two are facts the provers do not compute. `EscapesHold`
  (`BuffersHold`) goes on behind the scanner: a token's string ends in a NUL and what the parser joins does
  (`StringsEnd`), so what is escaped is a string of bytes (`CStringType`), and each `append_char` leaves
  the buffer longer than what is in it (`AppendedHolds`), from any `EscapeCapacity > 0`.
  `LiteralsMean` (`LiteralsMeanC`) compares the scanner with `InC`, which reads a whole body by C's
  rules. A match is as long as the text allows, and stays so when flex reads on (`RunEnds`, `Greedy`,
  `Stuck`), so a piece is the one C reads there. `MeanInv` says it while the body is still open:
  for every body the literal may turn out to have, the buffer holds what `InC` reads from it up to
  here (`BodyInv`: `BodyHolds`, `Holds`, `CharHolds`), in the start condition the last match left
  (`CondInv`); at the closing quote one body is left and the token has its value (`TokenMeans`). `InC`
  recurses over the rest of the body, the scanner goes forward; what holds of all rests is again
  proved by the least counterexample (`CGoesOn`, `ReadIs`).
  `StringsArrive` (`StringsReachTheProgram`) adds `MeantInv`: the parser's string is what was meant and
  a NUL, if what was meant are bytes (`PartsOfBytes`, `CStringIs`), also after joining, as nothing is
  read while a token is handed over (`TextStays`). `util_escape_str` writes for each character its `Form`
  (`AppendedAllWrites`, `FormIs`), each form starts where those before it end (`EscapesLie`), and
  the assembler reads each as its character (`FormRead`, `EscapedReads`); behind a `\x` that needs
  that the next form is not a digit (`NoDigit`), which is why `Carried` leaves such strings out.
* `LinkedListProofs`: `AlwaysWellLinked` (`Spec => []WellLinked`), for any heads and
  entries with `Heads \cap Nodes = {}`. With its typing `WellLinked` is inductive;
  the proof has one lemma per piece of surgery (`LinkedKeeps`, `UnlinkedKeeps`,
  `TurnedKeeps`, `ReplacedKeeps`) over an arbitrary ring, then one case per
  function.
* `ObjectPoolProofs`: `FreeListsStayIntact`, `NoRoomIsWasted`, and `PoolImplementsAllocator`, the
  refinement itself, for every `PoolSize > 0`. The invariant is typing,
  `FreeListIntact` and `NoRoomWasted` together: `FreeListIntact` says what the popped
  head is, so that it cannot be held already, and the threading of free objects
  cannot have been written since only held ones can.
* `AstMemoryProofs`: `OneOwner` (`MemSpec => []OwnedOnce`), `NothingFreedTwice`
  (`FreedOnce`), `NoDanglingNode` (`NodesLive`) and `MemTypes`, for any number of
  addresses, any depth of the value stack and any source text. None of them is
  inductive, as each says who owns a piece of memory only while nothing is under
  way. `IInv` has four parts beyond the types. `ParserInv`, while parsing: what
  the symbols, `current_func`, `current_scope` and the outer blocks point to is
  allocated and of the kind a rule takes it for, a dereference node is pointed to
  once (`See`), and the order of the symbols is the grammar's (`Grammar`,
  `Nesting`). `Handed`: a name, a variable and the memory of a symbol are
  allocated and have one owner of these sorts. `OwnerInv`: each area is a node of
  its kind, no node has two, and everything allocated has an owner or is in `lost`, which
  is empty until the parse ends and is owned by nobody after; this part
  holds until an `&` has undone a `*` (`undone = 0`), which is where the code
  frees twice and what the properties say too. A rule is proved by composition:
  `Sound(h, ar, sy, X, ...)` is the invariant of any heap, areas and stack where
  the memory in `X` is in the rule's hands, and each allocation, hand-over, push
  and pop is a lemma from one `Sound` to another. The clearing gets from `Handed`
  and `AreasHold` that what `FreeArea` frees is owned by that area and nothing else.
* `DriverProofs`: `DriverImplementsMem` (`DriverSpec => MemSpec`: every step of `main` is
  a step of the memory or leaves it alone), which carries `OneOwner`,
  `NothingFreedTwice` and `NoDanglingNode` over to the whole program
  (`DriverOwnsOnce`, `DriverFreesOnce`, `DriverNodesLive`); and, for every set of
  command lines, `ReadsInArgv` (`StaysInArgv`), `ClosesFiles` (`FilesClosed`),
  `LosesNoOutput` (`OutputSurvives`) and `DriverTypes`. The invariant `DInv` adds to
  `AstMemory`'s that the cursor is within `argv` at the head of each round (`ArgsPlace`; a last `--`
  takes it one behind), which
  file is open at which stage and in which mode (`FilesPlace`), and how far the
  output has come (`OutputPlace`). `ArgumentsKeepOrder` (`ArgumentsInOrder`) needs
  one part more, `OrderPlace`: what `arg_parser` has returned is what `argv` has in
  front of `current_arg` and `shrt` (`InFront`). Each branch of the parser returns
  what it goes past (`ArgParserPasses`), as dropping dashes distributes over
  concatenation (`WithoutConcat`) and an argument is its letters up to a place,
  the letter there and the rest (`Around`); and what is in front of a place is a
  prefix of everything (`InFrontFirst`).

The assumptions are the named ones of the modules: types of the constants
(`AddressesAssumption`, `BoundsAssumption`, `ArgvsAssumption`, ...), `PoolSize > 0`,
and that heads and entries of lists are different nodes. TLC has checked the
inductive invariants of `AstMemory` and `Driver` on the instance of `driver`.

Only model-checked, and why:

* `ArgsEnd` and the refinement of `Execution`: liveness. The code `Machine` runs comes, besides,
  from a generator recursive over the AST, so `CodeGen`, `CSource`, `Compile` and `Dumps` use
  RECURSIVE operators, and `X86` uses `Bitwise`; none of their properties is in the prover's reach.
* The refinement of `Lists`: what a walk of any length along pointers meets (induction over data).

## 5. Where the code departs from C, or from itself

Met while modelling, all in the models. The four above have runs; the others are
not contradicted by a text of the repository, or repeat the kind of one that is.

Parser:
* `&*p` frees the dereference node, which the allocator frees again
  (`parser.y:551`).
* A pointer to void may be assigned from a pointer to const and to any other
  pointer, so const is lost without a cast in the source (`type.c:137-142`;
  `Kept` names the case).
* `++` and `--` take a const lvalue (`parser.y:454-545`); plain assignment refuses it.
* The left side of an assignment is not checked to be an lvalue (`parser.y:40`); the
  generator then meets it with output half written (`store.c:52`).
* Every number literal has the type object marked as zero (`parser.y:441`), so any
  number may be assigned to a pointer (`type.h:44` says zero is special).
* A function used as an argument is linked by its own list node: using one twice
  corrupts the first argument list (`parser.y:400-411`; status `relinked`).
* A callee is taken for a `struct bae_function` if its type is a function, whatever
  node it is (`parser.y:494`; status `badCallee`).
* `*5` gives a node without a type, and the next rule dereferences it.
* Assignment through an implicit cast leaves the cast's `node_type` NULL.
* An abstract declarator of parentheses only is a null pointer that `type_name`
  dereferences (`parser.y:362`; status `fault`).
* `void unsigned` is accepted, and `const x` alone keeps a primitive of no size
  (`specifier_utils.c:20,35`).
* In a grouped declarator with differently qualified pointers the groups are linked
  in the order of the nesting, which is not C's (excluded in `DeclaratorMeansC`).

* The name of a type with 24 pointers or more is cut, and the room left is then
  computed below zero (`type.c:215`; `NamesStayInBuffer` states where that starts).

Driver and memory:
* `--` as the last argument reads behind `argv` (`arg_parser.c:98-101`).
* `fopen` is not checked; a null input is closed before the output is, so what was
  written may be lost (`main.c:53,80`).
* The AST is cleared before stdout is flushed: if the clearing aborts (`&*`), the
  output goes with it.
* The exit status is 0 after a parse error, and the output file has been truncated
  by then; naming one file as input and output empties it before it is read.
* The help text says that output goes to stdin by default (`main.c:13`).

Lexer and strings:
* Quotes and backslashes are escaped by nobody on the way out, characters above
  127 index the table of digits by a negative number, a NUL ends the string, and
  the assembler takes a hexadecimal digit after `\x..` for a part of it (`util.c:38-72`;
  all excluded by `Carried`).
* Octal numbers are read as decimal; hexadecimal escapes of more than two digits
  are cut; characters are sign extended in a character literal.
* Unknown characters and escapes are printed to stdout by flex's default rule, into
  the output if that is stdout. A newline in a character literal goes the same way,
  and every line number after it is one off.
* A literal's location is that of its closing quote. A string that the file's end
  leaves open is not freed, and outside of a function the parse is accepted all the same
  (`lexer.l:132`, `parser.y:877`).
* bison has no `%destructor`: at a syntax error, what the lookahead and the value stack hold is
  not freed (`LeftOver` in `AstMemory`).
* On a pipe, a diagnostic takes a line away from the scanner.

Dumpers:
* `--gen text` has no printer for variables, unary operators and calls, and
  `--gen ast` none for unary operators: both call a null function.
* A function named as a value is printed with its body, without end inside itself.

`bcc_ast_type_clone` would append to the list it walks if it were given a function type;
`func_param_check.c:99` calls it for every parameter, whose type the grammar keeps
from being one. Nothing calls `bae_function_get_temp_var` and `bae_function_put_temp_var`.

Generator (each can be seen by giving `MCCompileNot.cfg` the program named as `Programs`, with
`ImplementsExecution` or `CodeAssembles`):
* `||` leaves the operand's value, not 1 (`load.c:37-44`; `OrProgram`).
* Pointer difference: operands of `shr` swapped, the pointer's size in place of the
  element's, and left minus right exchanged (`load.c:224-242`, `binop_create.c:58`;
  `PointerDifference`).
* `&c` of a char: `lea` into `%al` (`load.c:299`; `AddressOfChar`).
* `++p` adds 1, not the element's size (`load.c:259`; `PointerStep`).
* `return` does not convert to the function's type (`load.c:395`; `NarrowReturn`).
* Comparison of unsigned values is signed (`load.c:154-188`; `UnsignedCompare`).
* Widening extends by the target's sign instead of the source's (`load.c:431`).
* `%ebx`, which the callee has to save, is overwritten (`load.c:90`). The generated
  code itself does not rely on it across calls.

## 6. Not modelled

Every operation of the modelled components that changes state is an action, and
every invariant the provers can reach is a theorem. The parse session and
expression typing could still be composed, with the full types.

Left out for good: the recursive parser stub (not built), the LALR tables
(generated; the grammar's nesting is what `ParseScopes` models), `bits.h` beyond
the three flag macros and `container_of.h` (macros without state),
`bcc_ast_type_clone` (a parameter's type is a value here, and its copy the same), and the wording of help and messages.
