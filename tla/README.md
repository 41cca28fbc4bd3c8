# Calculon: specification and proofs

Calculon is a header-only compiler for a small functional language: a script
and a type signature go in, a pointer to machine code comes out. Everything
happens in one thread, inside the constructor of `Program`; the state that is
hard to get right is therefore not in messages or locks but in the order in
which two passes over a tree fill in symbols, functions and types that later
steps rely on.

## 1. Inventory

Paths are relative to `src/`.

| component | state | operations | what makes it correct |
|---|---|---|---|
| lexer (`include/calculon_lexer.h`) | stream, position, current token | `next`, number, identifier, operator and comment readers | tokens and positions of any input; ends at end of file |
| parser (`include/calculon_compiler.h`) | lexer, operator precedences, the nodes it retains | one function per grammar rule | the tree is the one the documented precedences say; every error is an exception |
| tree and symbols (`include/calculon_ast.h`, `calculon_symbol.h`) | parent pointers, chained symbol tables, `FunctionSymbol::parent`/`locals`, `VariableSymbol::value` | `resolveVariables`, `importUpvalue`, `codegen`, `emitCall` | static scoping; closure conversion is complete; caller and callee agree |
| type registry (`include/calculon_types.h`) | `_byname`, `_byllvm` | `find` by name and by LLVM type, `addType` | names keep their type; the reverse lookup is total and answers what operators expect |
| operators and intrinsics (`include/calculon_intrinsics.h`) | `_firsttype` | parameter checks and code of each operator | defined on every type the documentation lists; sums every element once |
| external functions and globals (`calculon_symbol.h`, `calculon_intrinsics.h`) | the table of globals | `StandardSymbolTable::add`, marshalling in `emitCall` | values survive the conversion to C types and back |
| `Program`, `Compiler`, `Allocator` (`include/calculon.h`, `calculon_allocator.h`) | module, engine, owned objects | `init`, `compile`, `generate_machine_code` | ends with a function or an exception; nothing is used after it was freed |
| filter (`demo/filter.cc`) | options, row buffers | checks of options, row loop | reads and writes whole rows within its buffers |
| noise and fractal (`demo/`) | none | call a compiled function per pixel | stateless |
| tests (`tests/`) | golden files | `runtest` | the models follow what they record about `return` and errors |

How they interact: `Program::init` creates a `Compiler`; `compile` parses the
signature and the script (the parser asks the registry for types), binds the
parameters in the toplevel symbol table, which is chained to the globals, runs
`resolveVariables` over the tree and then `codegen`; `codegen` asks symbols for
values, the registry for the type of a value and callables to check and emit
calls. LLVM turns the module into machine code.

What is hard:

* **order within a pass**: a `let` registers its variable before its value is
  resolved; a function is visible in its own definition; insertion points and
  symbol values are set and restored around nested functions;
* **stale copies**: a call copies the callee's upvalue list while the callee may
  still be being resolved; the registry caches type objects that later lookups
  replace;
* **stale state**: operators keep the type of their first argument in a symbol
  that several compilers use, and errors are given a position that any call in
  an argument overwrites;
* **partial failure**: `return` produces no value, and only some callers expect
  that; input may end in the middle of a row;
* **edges**: sizes of vectors, the end of a file seen by looking ahead, rows
  larger than the buffers;
* **unbounded shape**: any nesting of functions, calls and declarations.

There is no concurrency, no persistence and no message passing in this code, so
no such model is offered.

## 2. Modules

| module | what it is |
|---|---|
| `Ast` | nodes, symbols and symbol tables: the vocabulary of both passes |
| `Resolver` | the first pass, one action per `resolveVariables()` step and per step of `importUpvalue()`; type invariant and properties |
| `StaticScope` | reference: static scoping and the least upvalue sets, defined on the tree alone |
| `ResolverScope` | the resolver compared with `StaticScope` |
| `ResolverInvariant` | the inductive invariant of the resolver |
| `ScopeWalk` | the scopes of the nodes of a tree, defined on the tree alone, and what the first pass leaves for the second |
| `ResolverProofs` | theorems about the resolver, proved with TLAPS |
| `Codegen` | extends `Resolver` with the second pass: the whole compiler after parsing |
| `CompileContract` | abstract specification: compiling ends, with a function or an exception, and the programs of which that is not promised |
| `CodegenScope` | the compiler compared with `StaticScope`, and its refinement of `CompileContract` |
| `CodegenInvariant` | the inductive invariant of the second pass, and what it needs of the first |
| `CodegenProofs` | theorems about the second pass and the two together, proved with TLAPS |
| `TypeRegistry` | creation and lookup of types, and the operators that depend on it |
| `TypeRegistryProofs` | theorems about the registry and those operators, proved with TLAPS |
| `Parser` | the recursive-descent parser, from the tokens of a signature and a script to lists of parameters and a tree of `Ast` |
| `Grammar` | reference: the sentences of the language with their trees |
| `ParserGrammar` | the parser compared with `Grammar` |
| `ParserProofs` | theorems about the parser's types and operands, proved with TLAPS |
| `Calls` | the checks and the emission of nested calls; contains an instance of `TypeRegistry` for each compiler |
| `CallsProofs` | theorems about what calls accept, remember and ask of the registry, proved with TLAPS |
| `AnySequence` | lemmas about sequences, and induction on numbers, used by the proofs of the resolver, code generation, calls and the parser |
| `VectorSum` | the code that `.sum` generates |
| `VectorSumProofs` | theorems about it, proved with TLAPS |
| `Lexemes` | reference: the lexemes of a text, defined on the text alone |
| `Lexer` | the lexer, character by character, compared with `Lexemes` |
| `RowContract` | abstract specification of filter: rows in, rows out, an exit status |
| `Filter` | filter, number by number, and its refinement of `RowContract` |
| `FilterProofs` | that refinement and the invariant it needs, proved with TLAPS |
| `Trees`, `MC...` | instances for TLC |

### Resolver

A tree is its preorder list of nodes, since both passes visit nodes in that
order. The C++ recursion is unrolled into `stack`, the open `ASTFrame`s, each
with the table its names resolve in, the functions whose bodies enclose it
(`chain`: its last is `getFunction()`) and the work left in it. A symbol table
with everything it is chained to is a function from names to the symbol
`resolve()` would answer. `locals[f]` holds the keys of
`FunctionSymbol::locals`; a key that `f` does not declare is an upvalue.
`climb` holds the activations of `importUpvalue()`: it first goes up through
`parent` (`ImportFromParent`) and then comes back, adding a copy on the way
(`ImportFound`). The order in which a callee's upvalues are imported is that of
a map keyed by addresses, hence a nondeterministic choice in `ImportUpvalues`.

Each `throw` of the code ends the run in a status of its own.

### Codegen

`gstack` is the second walk. An `llvm::Value` is its type and the LLVM function
it belongs to (none for a constant); `values[f][v]` is the `value` of the
symbol that `v` has in `f`; `llvm[f]` is the type of the LLVM function;
`emitted` records the calls; `insert` is the function the builder inserts into.
An operation that dereferences the NULL of a `return` ends in `crashed`, a
failed assertion of `ASTFunctionCall` in `aborted`, a failure inside an intrinsic
in `failed`: the model says where the code would leave its own rules, not what
the machine does then.

Intrinsics are given by a signature (`Signature`): their types, what an argument
of another type leads to (an exception; a failed assertion, for `[]`; nothing, for
the functions of the maths library, whose call is emitted and has the type of its
first argument), and whether a call can also be refused with another exception
(`refuses`: `.x` to `.w`, `[]`, unknown types of external functions) or break the
compiler (`breaks`: `.w`, vectors returned by external functions, operators where
`float` or `double` are about). Which calls do is the subject of `Calls`; here it
is a choice. A signature has one type for each parameter: that an operator
takes reals and vectors alike is left to `Calls` too, and vectors have one type.

### Parser

The recursion of the parse functions is unrolled into `todo`: one item per
program point at which a function waits for a token or for the return of
another. An action is what the code does with one token. `built` holds the
results of the calls that have returned; a node takes its operands from its end,
as the locals of the C++ functions (`lhs`, `value`, `parameters`) would. Trees
are preorder lists, the form in which `Resolver` takes them: the model of `and`
and `or` builds the conditions that the code builds.

A text is not fixed beforehand: the lexer may answer any word of the vocabulary
until the text has its greatest length, so that a run covers every text, right
or wrong, and errors cut the search short. Words are tokens with their text;
`let`, `if`, `in`, `then` and `else` are identifiers, as in the code. Positions
and the wording of errors are left out.

`Grammar` does not follow the parser. It builds the sentences of each length
from shorter ones: an operator joins a left operand that binds no looser and a
right one that binds tighter; a `let` or `if` is never the left operand of
anything, since it reaches as far as it can. One rule states something a reader
would not expect: a value takes a single accessor, and a second one, which the
parser rejects in `v.x.y`, is accepted in `let v = u in v.x.y` and applies to
the whole `let`.

`Grammar` takes from `Parser` the table of precedences, what an operator is
translated to and what a name without a call denotes (`Precedence`, `Applied`,
`Named`). What is checked is the trees that follow from the table, not the
numbers in it: those are to be compared with the order that
`doc/language.wiki:77-80` lists, by reading.

### TypeRegistry

`byname` and `byllvm` are the two maps, `objects` the types created. The
operators see values, that is LLVM types, and ask for a `Type` again:
`EqualityOf` and `ConvertRHS` are what `==` and `+` do with the answer.
Aliases of `real` and `boolean` are excluded by assumption.

### Calls

A script is whatever calls the compiler is given: `Begin` counts the
parameters of a call, which may nest in that of another, and `CheckParameter`
checks the types of its arguments, one by one, once they have been generated. An
argument is the LLVM type of its value: any that the script can have at that
point, and the value of the call that has just ended. `first` is the type that
each operator keeps in its symbol; it belongs to the table and outlives the
compilers, `by` tells which of them wrote it. `position` is
`CompilerState::position`. Each compiler has a registry, and the property
`Registries` says that calls use it as `TypeRegistry` describes, so that the
theorems about that module speak of calls too.

`last` is what became of the last call: emitted, rejected with an exception (a
wrong type or an unknown one, a wrong count), or one of three failures that
are no exceptions: an assertion, a malformed LLVM instruction, a result read
from the wrong place.

### VectorSum

`sum_non_power_of_2` and `find_power_of_2` cut the vector into parts,
`sum_power_of_2` halves each, and the partial sums are a vector that is cut
again. A sum is the set of the elements in it; adding two sums that share an
element gives `Twice`, reading a lane that is not there `Undefined`. An action
is a turn of a loop or a level of a recursion.

### Lexer

An action reads what one loop of a reader reads. `eof` is the end-of-file bit,
which is set by looking or reading beyond the end and not by reaching it, and
`bad` a stream that could not be opened. Characters are members of a small set,
one for each class that the code distinguishes. `Lexemes` knows nothing of
look-ahead or of readers: at each place it takes the longest word, number,
comment or operator.

### Filter

Numbers are told apart by their place in the input, so that `in`, the buffer,
says which numbers are in it. The state `overrun` is entered when a number or
a result would be written behind a buffer. `RowContract` has neither buffers
nor an index: it writes a row when the input holds one. `Filter` maps to it by
`width`, the size of a row, and `Ended`, which reads the exit status; every
`ReadNumber` within a row is a stutter.

## 3. Runs

| run | configuration | what it shows |
|---|---|---|
| `resolver` | trees of up to 6 or 7 nodes over three alphabets | scoping, closure conversion, termination |
| `codegen` | trees of up to 9 nodes, three alphabets | agreement of callers and callees, no unbound value, where `return` and calls outwards make the compiler fail; refinement of `CompileContract`, under fairness |
| `assertion` | as `codegen`, smaller | violated: see findings |
| `null_value` | as `codegen`, smaller | violated: see findings |
| `types` | every order of requests for 9 type names and aliases | stability and totality of lookups |
| `operators` | the same | violated: see findings |
| `parser` | all texts of up to 7 to 13 words over six vocabularies | exactly the sentences of the grammar are accepted, with their trees; operands and nodes balance; no parse gets stuck |
| `calls` | two compilers, two calls, nine operators and methods, two maths functions, six external functions, vectors of 2, 4 and 9 | what operators remember; which call an error names; which calls are not treated as documented, and that all others are |
| `documented_calls` | the same, one compiler and one call | violated: see findings |
| `sum` | vectors of 1 to 70, 127 and 128 elements | every element is added once, and generation ends |
| `lexer` | all texts of up to 4 to 6 characters over six alphabets | tokens and positions are those of the text; every text ends |
| `filter` | buffers of 3, rows of up to 4, inputs of up to 7 words, every wrong option | refinement of `RowContract`, under fairness |

Each property of a passing run has a defect in the module it speaks about (the
sections "Defects"): the operation as it would be with a plausible bug, for
which TLC finds the property violated.

**Bounds.** In the runs of the compiler `MaxNodes` bounds the trees, and nothing
else is bounded: the tree determines every other variable. Seven nodes are enough for two functions in
each other with two captured variables, recursion, a call through a function
that only relays an upvalue, and shadowing of a function by a variable and the
reverse; every defect is found with fewer. `Shadowing`, `Capturing`, `Nesting`,
`Mixed` and `Typed` are the alphabets: each holds the nodes that one kind of
mistake needs, so that the trees stay small. In the registry, "vector" and
"vector*3" share an LLVM type, "!float", "!double" and "real" another; one
alias points at a vector, one at an external type, one name is unknown.

The six vocabularies of the parser hold one group of constructs each, and the
lengths let the shortest text of every interaction occur: three operators with
parentheses, a `let` or an `if` with two accessors, nested lists with commas in
all places, a function with a type before and one after its parameters in which
`in` is also a variable and a type, and signatures with two typed lists. A
defect in any of the lists, loops or precedences is found well below them.

In `calls`, `MaxCalls` and `MaxCompilers` are 2: two calls are a call in an
argument of another, or one after it with the same operator, and the second compiler brings the types that the
first left behind. The external functions have each kind of signature: with
and without arguments, with vectors, an alias, an external type, and unknown
types at both ends. `sum` includes sizes whose partial sums are themselves not
a power of two and are cut three times. In `lexer` each alphabet has what one
reader needs (numbers, both comments, line ends, blanks, words, operators), so
that its lexemes occur next to each other and at the end of the text. In
`filter` a row of 4 does not fit into buffers of 3, and 7 numbers are two rows
of 3 and the beginning of a third.

**Fairness.** Weak fairness of the whole next-state relation, in the
specifications called `Fair...` only: compiler, lexer, generator and filter are
sequential code that runs until it returns, throws or exits, and there is no
other process to wait for. For filter this supposes that its input ends and
that the script returns. The systems stop at their end, hence
`CHECK_DEADLOCK FALSE` in their configurations, and in that of `calls`, where
scripts stop at `MaxCalls`; the registry is always ready for another request and the parser has a step
`Finished`: both are checked for deadlock.

## 4. Findings

* `assertion`: in
  `let f(x) = (let g(y) = f(y) in g(x) + a) in f(b)`, where `a` is a variable
  around `f`, the call of `f` in `g` is resolved before `f` captures `a`.
  `codegen` then finds no `a` in `g` and `assert(s)` (`ast.h:674`) fails.
  `AbortsOnlyOutward` shows that only calls of an enclosing function from a
  nested one do this, and `UpvaluesComplete` that without them the import is
  complete.
* `null_value`: `return` used as an operand is dereferenced
  (`ast.h:35`) where the documentation promises an exception;
  `CrashesOnlyOnReturn` shows that only that, and an output named like a
  function, have this effect.
* `operators`: once a signature with `float` or `double` has been looked up, the
  type found for a real value is no longer `realType`: `==` fails an assertion
  and `+` no longer applies a real to each component of a vector;
  `OperatorsDefined` shows that nothing else breaks the pointer comparisons.
* `documented_calls`: `CallsAsDocumented` says that a call is emitted, with the
  documented value, if its arguments are those documented, and refused with an
  exception if not. Five kinds of calls violate it, besides those of
  `operators`; TLC stops at the first of them, `.w` of a vector of two elements.
  To see another, leave that callable alone in `MCUsed`, `MCLibrary` and
  `MCExternals`:

  | call | code | document |
  |---|---|---|
  | `.w` of one to three elements fails an assertion | `intrinsics.h:534`, `types.h:193` | `language.wiki:33-34` "An out of bound access is a compile time error" |
  | `.x` to `.w` of more than four elements are refused | `intrinsics.h:493,503-535` | `language.wiki:32-33` "extract the first four elements" |
  | a type error in `[]` fails an assertion | `intrinsics.h:570,575`, `symbol.h:184` | `usage.wiki:7-8` "If compiling a script fails, an exception is thrown" |
  | a vector that an external function returns is read from its first argument | `symbol.h:498` | `usage.wiki:170-171` "via an extra parameter which appears last" |
  | the arguments of maths functions are not checked | `intrinsics.h:650` | `language.wiki:31` "Functions are not polymorphic", `96-97` |

  The run `calls` shows the rest. `EmittedAsDocumented`, `RejectedOnlyIfWrong`
  and `FailsOnlyAsKnown` are about the same calls (`Broken`, `Oversized`,
  `Unchecked`): each says what happens to them, and that every other call is
  treated as documented. They describe the code with these faults; they do not say
  that it does what the documents promise.

Other deviations contradict no document. The properties that meet them name
them as exceptions, so that they are the only ones:

* in `ErrorsNameTheCall`: only type errors are covered, since an error about
  the number of parameters names the call that was emitted before;
* in `TokensAsWritten`: a carriage return that does not precede a newline
  takes the next character with it (`LinesEndPlainly`), and `/*/` is a whole
  comment (`NoStarTwice`); a stream that cannot be opened is an "unknown
  character";
* in `PositionsTrue`: a number that begins with its point shifts the columns
  of the rest of the line by one, and an end of file after blanks alone has an
  uninitialised position; that of any other end is that of the last lexeme;
* in `RowContract`: nothing is promised when a row is larger than
  `MAX_VECTOR_ELEMENTS`; a row that the input does not complete is reported,
  but the exit status is 0.

## 5. Proofs

`ResolverProofs` proves, for all names, all sets of trees and all signatures
that satisfy the assumptions of `Ast`, `Resolver` and `ResolverScope` (which TLC evaluates):

| theorem | statement |
|---|---|
| `Invariance` | `Spec => []Inductive` |
| `TypeCorrect` | `Spec => []TypeOK` |
| `ClosureConversion` | `Spec => []UpvaluesChained` |
| `ImportsFound` | `Spec => []ImportsSucceed` |
| `SignaturesAreFinal` | `Spec => SignaturesFinal` |
| `ScopesRecorded` | `Spec => [](Passing => InStep)` |
| `StaticScoping` | `Spec => []ReferencesLexical` |
| `ImportsNeeded` | `Spec => []UpvaluesNeeded` |
| `ImportsComplete` | `Spec => []UpvaluesComplete` |

The properties are not inductive by themselves. Why does `importUpvalue()` never
run out of parents? Because the symbol it looks for was found through a frame,
and a frame only sees symbols of the functions whose bodies enclose it
(`VisibleFrom`); these functions are linked by `parent` (`ChainOK`), so that
climbing from the innermost passes the one that declares the symbol; and the
climb has not passed the innermost function that has it (`ClimbOK`). For an
import on behalf of a callee one needs `UpvaluesChained` too: what the callee
captured, the function around it has, and that function encloses the caller.
`Inductive` is the conjunction. It is checked by TLC in the run `resolver` and
proved there is one lemma per action, over lemmas on the first and last
elements of `stack`, `chain` and `climb`.
`SignaturesFinal` follows from the invariant: only functions on the chain of
the innermost frame are ever written.

`ScopesRecorded` says what the second pass may rely on. `Walk[p]` (in
`ScopeWalk`) is the list of the scopes of the subtrees still to be visited after
`p` nodes, computed on the tree alone; the frames of the pass stand in it
(`Standing`: the items that wait for a subtree match the scopes one by one),
and items that do not wait are in the scope of the node they are about
(`HomeStack`). So each node visited was looked up in `ScopeAt` of it, and what
was found, a callable or a variable that is by then a local of the function
around or about to be imported into it, is what is recorded (`Records`).
`LocalsScoped` is the converse: a function only ever gets locals that it
declares or that can be seen where it is defined, which for an import needs
that the climb passes functions inside the one that has the variable.

The last three compare the pass with `StaticScope`, where scopes are sets of
positions and upvalues a least set, defined without a walk:

* `StaticScoping`. A subtree ends at the first position at which fewer subtrees
  remain (`Remaining`, `LastOf`), and what the walk has still to visit after `p`
  nodes is as long as `Remaining` says (`WalkLexical`). A scope therefore waits
  in `Walk` exactly while the positions read are in the subtrees it is the scope
  of, and by induction over the nodes its table is, for every name, what
  `Denotes` answers there (`Agrees`); the innermost declaration is the one made
  last, hence the one with the greatest position. That gives
  `ScopeAt(p).table[x] = Denotes(script, p, x)` (`ScopeLexical`), and with
  `ScopesRecorded` the property;
* `ImportsNeeded`. Invariant is `Wanted`: every upvalue is needed, and a climb
  runs for a variable node, or for a call of a function that needs the variable
  (`Asked`). The functions that the climb passes on its way back are around that
  node and inside the declaration, so that the node is in the definition of each
  of them and each needs the variable too (`PassedNeeds`);
* `ImportsComplete`. A variable node leaves its variable with the function
  around it (`Records`). For calls of a function that is not around them the
  invariant is `Settling`: the definition of the callee is closed, and its
  upvalues are locals of the caller or the items that import them are pending.
  A closed definition gains nothing more (`SignaturesFinal` rests on the same
  fact), and a call of a function around it is one of the function itself or is
  excluded by hypothesis. Locals are passed on upwards (`UpvaluesChained`): all
  functions around a node up to the declaration have what the innermost has
  (`HeldAround`, for which `Dated` says that a variable is not older than its
  function). The functions that have `v` as an upvalue are thus closed under
  `Supplies`, and those that need it are among them.

`TreesAssumption` is used for the last: when the pass has ended, all nodes of the
script have been read (`AllRead`). A script is one syntax tree, all of whose
operands the parser has built; `OperandsFound` proves of the parser that one
tree is what it leaves.

`TypeRegistryProofs` proves, for all requests, aliases and vector types that
satisfy `LanesAssumption` and the other assumptions of `TypeRegistry`:

| theorem | statement |
|---|---|
| `RegistryConsistent` | `Spec => []Consistent` |
| `RegistryTypeCorrect` | `Spec => []TypeOK` |
| `LookupsTotal` | `Spec => []ReverseLookupTotal` |
| `NamesUnique` | `Spec => []OneObjectPerName` |
| `OperatorsWork` | `Spec => []OperatorsDefined` |
| `PointersStayValid` | `Spec => NamesKeepTypes` |

A new object may replace the one kept for its LLVM type (`float` has the LLVM
type of `real`), so nothing can be said of `byllvm` alone. What is invariant is
that it leads to *some* object with the right LLVM type (`LLVMTypesAgree`),
while a name leads to *its* object and back (`NamesAgree`). The operators
compare pointers: without an external type, the only object with the LLVM type
of `real` is the cached `realType` (`Cached`, and `VectorLanes`: a vector never
has the LLVM type of a scalar), so that a comparison with it succeeds.

`CodegenProofs` proves, for all trees and signatures:

| theorem | statement |
|---|---|
| `FramesInsert` | `CompileSpec => []Inserting` |
| `InsertionPoint` | `CompileSpec => []InsertionPointAgrees` |
| `PassesAgree` | `CompileSpec => []BothPasses` |
| `CodegenTypes` | `CompileSpec => []CodegenTypeOK` |
| `OperandsAreLocal` | `CompileSpec => []OperandsLocal` |
| `CallsMatch` | `CompileSpec => []CallsMatchSignatures` |
| `ValuesAreBound` | `CompileSpec => []NothingUnbound` |
| `AbortsAreOutward` | `CompileSpec => []AbortsOnlyOutward` |
| `CrashesAreReturns` | `CompileSpec => []CrashesOnlyOnReturn` |
| `ContractKept` | `CompileSpec => Contract!Safety` |

That the builder inserts into the innermost function is true of the top of
`gstack` and cannot be inductive alone: what it is after a function ends was
decided when it began. `Inserting` therefore says of every frame, not only of
the last, that it either generates code for the function of the frame below it,
or ends with an item that resumes that function (`Anchored`), and that nothing
comes after this item.

`BothPasses` (in `CodegenInvariant`) is the invariant of the two passes together:
`Inductive` and `InStep` while names are resolved, `Generated` while code is
generated, and the four properties throughout. What the first pass hands over
(`HandedOver`) is that each node was recorded in its scope. The second pass walks
through the same scopes, so `Generated` compares its frames with the same
`Walk` (`StandsHome`). On that rest:

* `Holding`: the operands are those of the frames, innermost last, each of the
  function of its frame, and the pending items find what they take (`Threads`
  over `Effects`, as in the parser). It is why an operand is local when a call
  takes it, and why `Taken` never reaches into another function's operands;
* `SettledStack`: what a scope can see has been given its value in every
  function around that holds it, and the functions it can call have been
  created. The one exception is the function that is about to be
  (`AboutToDefine`). A body refers to what can be seen where it is defined, so
  nothing is read unset;
* `ReadyStack` and `Once`: what an item will define has not been defined, and no
  other item defines it. Values and types of LLVM functions are therefore
  never overwritten, and what was compared with them stays true (`Keeps`);
* `ValuesAgree` and `FunctionsAgree`: the copies of a variable have the type of
  the variable, and the type of an LLVM function lists those of its upvalues.
  A call passes the caller's copies and `CallsMatchSignatures` compares them
  with the callee's: both have the types of the same variables;
* `Made`: the calls already emitted.

`assert(s)` fails when a callee has an upvalue that the caller does not. At the
end of the first pass this concerns calls outward only (`CallsReady`, from
`Settling`, `Dated` and `AllRead` of the resolver), and the second pass neither
adds locals nor changes what calls refer to. That is `AbortsAreOutward`.

A `return` leaves NULL, and NULL crashes the compiler when it is an operand of
anything. `CrashesAreReturns` rests on `NullsOnlyLast`: where every `return` of
the script ends the toplevel code (`ReturnsLast`), NULL is an operand only when
no work is left (`Still`), and no variable ever has it as its value. A `return`
can leave nothing behind it because of `TailsOK`: an item with none after it,
in its frame or in those around, that waits for an operand (`Final`) is a
subtree, a `let` about to be left, or work of a node that the program ends with.
The text itself decides the last: `Remaining` counts the subtrees still to be
read before each node, and after a node that the program ends with there is
none. The exception is an output named like a function, where `return` follows
NULL itself.

Together they give `ContractKept`, the safety part of the refinement
`KeepsContract`, for every program: compiling it is answered once, and in
another way than with an exception or a well-formed function only if the text
says so. There are two ways to be excepted. A program is not `Plain` if it has a
`return` that does not end the toplevel code (`InTail`), an output that denotes a
function there, a call outwards, or a call of an intrinsic that is not
`Sturdy`, one that its signature allows to fail without an exception; only of
such a program may the contract break (`Break`). It is not `OutputsTyped` if what a
`return` finds is declared with another type than its output, which
`ASTReturn::codegen` does not compare; only then may the function be malformed
(`Garble`). Both are defined on the tree with `Denotes`, without a walk, so that
the proof needs `ScopeLexical` again, and for the types that every variable of
the toplevel code has its declared type when it has a value (`DeclaredOK`).

A script that uses `[]`, `.w`, an external function returning a vector, or
operators together with external floats or doubles is not `Plain`, whatever the
arguments: `Codegen` does not see what `Calls` tells apart. Of their failures
`CallsProofs` says precisely when they occur.

The witnesses of `Holding` and `Standing` range over functions into the natural
numbers, so that TLC does not enumerate them; it checks the four properties, in
the run `codegen`.

`CallsProofs` proves, for all methods, signatures and numbers of calls and
compilers that satisfy `CallableAssumption` and `AliasAssumption`:

| theorem | statement |
|---|---|
| `OperatorsForget` | `Spec => []FirstIsOfThisCall` |
| `PositionOfErrors` | `Spec => []ErrorsNameTheCall` |
| `CallsUseRegistry` | `Spec => Registries` |
| `EmissionDocumented` | `Spec => []EmittedAsDocumented` |
| `RejectionDocumented` | `Spec => []RejectedOnlyIfWrong` |
| `FailuresKnown` | `Spec => []FailsOnlyAsKnown` |

The first two rest on `Checking`: arguments are generated before the first
parameter is checked, so that nothing nested runs between setting a position
or a type and using it. The third is a refinement: each step of a call is a
step of the registry of its compiler, or a new compiler, or a stutter. It
needs to know that every argument has a type that was asked for (`CallsSound`,
`TypesFound`), so that operators only look up types that are found, and that
an arithmetic operator applies what `TypeRegistry` says it accepts
(`OperandsAccepted`), which follows from the checks and from
`FirstIsOfThisCall`.

The last three hold of the code with the faults of section 4. They say that checking parameters one by one, by the `Type` that the
registry finds for an LLVM type, comes to what the documentation says of the
whole call. `Documented` is for each kind of callable a conjunction over the
parameters (`Fits`), and `Checked` is the part of it that is known when the
parameters below `index` have passed. A pointer comparison decides more or less
than a comparison of types: `Pointers` says which objects can be found for the
types of a script, whatever was looked up before, so that a check that the
code gets wrong is one of `KnownFailures`. That calls are refused for the number
of their arguments only where none of that number are documented rests on
`DocumentedCounted`: documented arguments are as many as the callable counts.

`ParserProofs` proves, for every vocabulary that satisfies `TokensAssumption`
and the other assumptions of `Parser`, and texts of any length:

| theorem | statement |
|---|---|
| `Invariance` | `Spec => []Inv` |
| `TypeCorrect` | `Spec => []TypeOK` |
| `OperandsFound` | `Spec => []OperandsBalance` |

Every pending item takes some trees and leaves at most one. `Balanced` says
that the pending items, one after another, find what they take in what has been
built or in what those before them leave, and that one tree remains
(`Goes`, with the number of trees after each item as a witness): a parse
function may be called at any height, which is what `Parses` says of the items
it is replaced by. Only the items of `compile()` stand outside this, and they
are last (`Pending`). `OperandsBalance` counts the same trees with the recursive
operators of the community modules; that its count is the witness is proved by
induction over the items (`TreesCounted`).

`VectorSumProofs` proves, for vectors of every size:

| theorem | statement |
|---|---|
| `SumsAccounted` | `Spec => []Inductive` |
| `SumOfEachOnce` | `Spec => []EachOnce` |

The elements are at each step spread over the lanes still to be cut, the part
that is being halved and the partial sums: `NothingLost` says that they are
all there, `NothingTwice` that these sets are disjoint, and `PartsFit` that no
lane is read beyond its vector. The last needs that halving never meets an odd
width but 1: a size found by `find_power_of_2` has no odd divisor except 1
(`IsPower`), and the halves of such a number have none either.

`FilterProofs` proves, for all command lines, inputs and sizes of buffers:

| theorem | statement |
|---|---|
| `Invariance` | `Spec => []Inductive` |
| `BufferNeverMixesRows` | `Spec => []BufferHoldsRow` |
| `FilterImplementsContract` | `Spec => Contract!Safety` |

The step that matters is `CallAndWrite`: `RowContract` computes a row from
positions in the input, filter from its buffer. They agree because the buffer
holds, below `index`, the numbers read last, in order, and the number of words
read is that of the rows written plus `index` (`BufferHoldsRow`).

Only model-checked:

* `AcceptsTheGrammar`, `RejectsOnlyErrors`, `SignatureAsWritten` and
  `TokensAsWritten` compare with recursive definitions of another shape: what
  these compute needs an induction over data. (`SignatureAsWritten` is about the
  parse of the signature alone; the lists of the functions that the code declares
  are others, in the model as in the code.)
* `Terminates` (of three modules) and the liveness parts of `KeepsContract` and
  `FiltersRows` are about fairness;
* `PositionsTrue` compares with `Lexemes` as `TokensAsWritten` does.

## 6. Plan

Done: all the components of section 2 are modelled and checked. Proved are the
safety properties of the resolver (scoping and closure conversion), of code generation, of
the type registry, of calls, of the sum and of filter, and the operands and
types of the parser. What is left, in this order:

1. the signatures of external functions, as `StandardSymbolTable::add()`
   parses them;
2. what the grammar and the lexer compute for texts of any length, once a prover
   for induction over data is at hand.

**Not modelled.**

* LLVM: the engine, the optimiser, machine code, and so `Program::init` and
  `generate_machine_code`, which only call it; the conversion of the index of
  `[]`, which is out of range or not when the script runs.
* The layouts of `Vector` and the settings (templates without state), the table
  of library names, the retaining of objects in `Allocator` (a set that only
  grows).
* The image demos, the tests and the build: no state of their own.
* The size of the C++ stack, which limits how deep a script can be nested.
