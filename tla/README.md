# Quirrel: a TLA+ model of the runtime and the compiler

Quirrel is a dynamically typed scripting language: a compiler to bytecode, a
virtual machine, a library and a C API for the program that embeds it. This
directory models the data structures and protocols whose correctness depends on
the order in which things happen, and the compiler, whose correctness depends on
how its parts fit together. One virtual machine runs in one thread
(`ValidateThreadAccess`), so "order" means the order of calls: scripts call the
host, the host calls back, objects are released while others are being changed,
and caches outlive what they describe.

TLC checks the models on small instances (12 runs); TLAPS proves most of the
safety properties for every value of the constants (37 theorems).
`PROJECT.json` lists every component with its status, every run, every hazard
of the code at its line with the properties that cover it, the lines each
definition models, and the theorems.

## Inventory

The core is `src/squirrel` (about 24,000 lines). For each component: its state,
its operations, whom it talks to, what is hard, what makes it correct.

* **Tables** (`sqtable.cpp`, `sqtable.h`). An array of nodes with the chains of
  the hash table inside it, a free pointer that only moves down, the number of
  used nodes and a type id. Operations: Get, Set, NewSlot, Remove, Rehash,
  Clear, Next, Clone, Finalize. Used by everything: globals, objects, class
  members, module exports. Hard: a removed node stays in its chain, an
  insertion may move another key, an insertion that runs out of nodes rehashes
  after it has already written its key. Correct: no key is lost or stored twice,
  lookups end, the counters are exact, iteration and caches survive changes as
  far as they promise to.
* **Inline caches** (`sqvm.cpp`, `_OP_GET_LITERAL`, `_OP_SET_LITERAL`). One word
  per instruction: a type id and a position. Hard: nothing is checked on use.
  Correct: a matching type id implies that the position holds the literal.
* **Interpreter** (`sqvm.cpp`, `sqvm.h`, `sqclosure.h`). Call frames, value
  stack, exception traps, open outers (captured variables that still live on
  the stack), generators, coroutines. Hard: frames unwound by exceptions through
  generators and native calls, stack reallocation under pointers, suspension.
  Correct: frames, traps and stack bases match again after every exit; a
  captured variable is one variable.
* **Handles of the host** (`RefTable` in `sqstate.cpp`). Counted references held
  by the embedding program: buckets and a free list in one block that doubles.
  Hard: the release of a handle runs destructors that use the table again.
  Correct: the table is the bag of the handles taken and not returned.
* **String interning** (`SQStringTable` in `sqstate.cpp`). Correct: equal strings
  are one object, and a string is in the table exactly as long as it lives.
* **Ownership and garbage collection** (`sqobject.h`, `sqobject.cpp`,
  `sqstate.cpp`). Reference counts, weak references, and a mark phase that moves
  reachable objects to a second chain. Correct: nothing reachable is freed,
  everything else is freed once, weak references are cleared in time.
* **Classes and instances** (`sqclass.cpp`, `sqclass.h`). Members indexed into
  value and method vectors, locked at the first instance or subclass. Correct:
  what was cached about a locked class stays true.
* **Module manager** (`src/sqmodules`). Loaded modules, running scripts, unload
  handlers, persistent state across hot reloads. Hard: requires nested in
  requires, failing scripts, handlers that require or register. Correct: a
  script runs once per load, circular requires are refused, failure leaves no
  trace of a module that did not finish.
* **Arrays and `sqvector`**, **deduplicating shrinker**: aliasing of elements
  with a reallocated block; sharing of values that must be immutable.
* **Host API, base library, standard libraries**: argument checks, pure
  functions, I/O; the blob and stream library keeps positions and lengths that
  can overflow.
* **Compiler** (`src/squirrel/compiler`: `codegen.cpp`, `sqfuncstate.cpp`,
  `constgen.cpp`, `optimizer.cpp`). Syntax trees become instructions in one pass
  that assigns registers, resolves jumps and merges an instruction with the one
  before it; a second optimizer folds and shortens what is finished; constant
  expressions are evaluated on the way. Hard: an instruction is changed when the
  next one is added, and jumps and captured variables must not notice. Correct:
  the bytecode does what the language reference says of the program.
* **Path resolution of modules** (`src/sqmodules/path.cpp`,
  `deffileaccess.cpp`). Correct: one file has one key, however it is spelled.
* **Static analyzer, debugger interface, sqrat, command line**: diagnostics,
  reporting, wrappers, I/O; no protocol of their own.


### How the components interact

The interpreter looks keys up in tables through inline caches, interns every
string through the string table, and calls native functions, which call back
through the C API. Every object it makes is on the chain of the collector and is
counted; the host's handles are roots of it. The module manager is a host: it
calls the compiler and then the script through the C API, and scripts call it
back (`require`, `persist`, `on_module_unload`). The compiler calls the
interpreter's arithmetic to fold constants and leaves prototypes that the
interpreter runs.

## Modules

| module | what it models | source |
|---|---|---|
| `Links` | singly linked lists in an array of nodes | `sqtable.h`, `sqstate.cpp` |
| `HashNodes` | the node array of a table, as operators on a record | `sqtable.cpp`, `sqtable.h` |
| `SQTable` | one table under any sequence of operations | `sqtable.cpp` |
| `TableMap` | what a table promises: a map | abstract |
| `TableForeach` | a foreach whose body changes its table | `sqtable.cpp`, `sqvm.cpp` (`FOREACH_OP`) |
| `TableCache` | the inline cache of one literal access | `sqvm.cpp`, `sqtable.h` |
| `RefTable` | the handle table: buckets, free list, growth, release | `sqstate.cpp` |
| `HandleBag` | what the handles promise: a bag | abstract |
| `SQStringTable` | the table of interned strings | `sqstate.cpp` |
| `Heap` | reference counts, release in cascade, the collector, the end of a VM | `sqobject.h`, `sqobject.cpp`, `sqstate.cpp`, `sqclosure.h`, `sqclass.h` |
| `Frames` | call frames, traps, outers, generators, native calls | `sqvm.cpp`, `sqclosure.h`, `sqobject.cpp` |
| `SqModules` | the module manager with its nested activations | `sqmodules.cpp` |
| `PathNames` | normalisation and resolution of module names | `path.cpp`, `deffileaccess.cpp` |
| `HostApi` | the stack effect of each call of the C API | `sqapi.cpp` |
| `Ast` | the syntax trees | `compiler/ast.h` |
| `ConstGen` | arithmetic of the VM, evaluation of constant expressions | `constgen.cpp`, `sqvm.cpp` |
| `FuncState` | the function being compiled: registers, targets, jumps, merging | `sqfuncstate.cpp` |
| `CodeGen` | the code generator, one operator per node | `codegen.cpp` |
| `Optimizer` | the optimizer of a finished function | `optimizer.cpp` |
| `Machine` | the interpreter, one action per group of instructions | `sqvm.cpp` |
| `Meaning` | what a program means, from the language reference | `doc/source/reference/language`, abstract |
| `MC...` | small instances for TLC | |
| `LinksProofs`, `SQTableProofs`, `TableUseProofs`, `RefTableProofs`, `SQStringTableProofs`, `HeapProofs`, `FramesProofs`, `HostProofs` | lemmas and theorems | |

Operators named `..._Bug` are wrong variants of the operator that follows them.
No specification uses them: each property is also run with one of them in place
of the right operator, and must then fail.

### Tables

A table is a record: `size` is `_numofnodes_minus_one + 1`; `key`, `val` and
`next` are the fields of the nodes, `next` being an index or `NULL` where the
code has a pointer; `firstfree`, `used` and `id` are `_firstfree`, `_usednodes`
and `_classTypeId`. A free node has the key `Free` (`OT_FREE_TABLE_SLOT`).
Operators that follow the code's steps (`Claim`, `MoveCollider`, `LinkFree`,
`Insert`, `Rehash`) take a table and return a table, and the actions of
`SQTable` (`NewSlot`, `Set`, `Get`, `Remove`, `Clear`) are each a whole call,
including the rehash it ends in. `Insert` returns `ok = FALSE` where the loop
over `_firstfree` ends at the first node and `Rehash(true)` is called; the key
is then in its node and not counted, as in the code.

* Keys and values are model values or small integers; `Hash` is any function
  to the naturals. Key equality is the equality of raw value and type in the
  code.
* The type id is an FNV hash of insert positions and string addresses. The model
  keeps the sequence that is hashed, so two ids are equal exactly if the hashed
  data are; a collision of the 59 bits that are compared is not modelled. `Addr`
  maps strings to addresses and need not be injective: strings that are not
  alive at the same time may share one.
* `MaxNodes` bounds growth: an operation whose result would have more nodes is
  not explored.

`TableForeach` adds the iterator (`cursor`, a node index) and, to state what
iteration promises, how often each key was visited (`visits`), which keys have
been there all along (`kept`), whether the array was reallocated (`intact`) and
whether a key was added (`grown`). `TableCache` adds one instruction's `lit` and
`hint`; the instruction runs on the table as it is, and on new tables, between
any operations (`Elsewhere` is what happens to the table while the instruction
does not run).

### Handles and strings

`RefTable` is the block with its buckets, nodes and free list; an action is a
call of `AddRef`, `Release` or `GetRefCount`, growth included. The destructor of
a released object runs when the table is whole again, so what it calls is a call
like any other. `SQStringTable` has a memory of `MaxStrings` addresses, each of
which may serve a new string as soon as the old one is dropped. In both, hash
functions are any functions, and `MaxRefs` bounds the references of an object.

### Heap

`Heap` is small-step: a C++ call in progress (`Release`, `Mark`, a turn of the
collector's loop) is an element of the stack `calls` with the statement it is at;
`TurnSteps`, `ReleaseSteps` and `MarkSteps` list the statements for each kind of
object in the order of the code (a table releases its delegate, leaves the chain
and then releases its values; a closure releases first and leaves the chain
last). While a call is in progress the program waits; the hook of an instance
runs with one more reference and may give the handle of its C++ part back, which
may release another object in the middle of this one.

* An object refers to others by `val`, which stands for all its values, and by
  `fixed`, for what is set once when it is made (delegate, function, class).
  `HasFixed` and `MaxStack` are bounds.
* A node of the handle table counts one reference, however many handles it
  stands for.
* `doomed` is history: what was unreachable when the collection began.
* A hook that makes objects, or stores the dying one somewhere, is not modelled.
  Weak references are not modelled.

### Frames

`vm` is the state of a VM: frames, activations of `Execute` with their variable
`traps`, `_etraps`, open outers, generators. A script is *any* sequence of the
steps that compiled code can take: it opens blocks, switches, loops (with or
without a variable of their own) and try blocks, and leaves them by their ends,
by `break` and by `continue`, with the instructions that the code generator emits
there. Which outers those close is that of the code: a `break` or `continue`
closes from the stack size that the innermost loop *or switch* recorded
(`Innermost`), an instruction is there at all only if the source of the function
captures some local above (`Compiled`: a free choice, except that a local captured
now has a closure in the source). The outers that should have been closed and are
not are kept in `vm.stray`: those of the scopes that an exception leaves, and
those of a loop body that a `continue` inside a switch leaves. Native functions
call scripts again by an `Execute` of their own and may tail call. The locals of a
function are identities of variables, so that the properties can say whose slot
it is. Two constants say what scripts do: `TryInForeach` and `SharedGenerators`.
The code goes wrong for both (see "Known divergences"); the run has them FALSE,
and so do the theorems, `TryInForeach` only where it matters. Where the code
detaches a captured variable or leaves its outer open, the model does too, and
the properties name these cases as their only exceptions.

### Module manager, names and the C API

`SqModules` is small-step too: `requireModule` calls the compiler, which loads
imports, and then the script, which loads others; the C++ activations in
progress are the stack `acts`. A file may parse or not, exist or not
(`Volatile`), import and require anything, fail at every stage, persist values
and register unload handlers; the host loads, reloads one module or all, and
closes. `HandlersRegister` says whether handlers register handlers.

`HostApi` has one operator per function: the *set* of outcomes of a call on a
stack of types, since what depends on data that the stack does not show is open.
`CallsOn(s)` is every call on the stack `s` at every positive and negative
index, with what the manual says it takes and leaves. An outcome may be that the
function suspended the VM: `sq_call` then leaves the closure and the arguments,
`sq_resume` its slot, and only `sq_wakeupvm` goes on, to the end or to the next
suspension (`suspended`). An iterator of `sq_next` is a number, or what a metamethod
`_nexti` answers, and its end is a failure. Other calls on a VM that waits,
metamethods that suspend it, `sq_tailcall`, `sq_move` and functions that only read
are not modelled. `PathNames` follows the
in-place editing of the C string index by index and compares with the meaning of
the name as a walk through directories.

### Compiler

`CodeGen` compiles a tree with `FuncState` into instructions with their
operands, `Optimizer` rewrites them, `Machine` runs them in registers with frames,
traps, captured variables and static memos, and `Meaning` evaluates the same tree
without any of these. The programs are families: a context with every statement
or expression of a set in it (`MCMachine`). Strings are atomic, integers do not
overflow, floats are left out.

## Runs

| run | instance | what it shows |
|---|---|---|
| `table` | keys 0, 2, 3, 4, 6, 8 (their own hashes), 1, 2 or 4 nodes at the start, up to 16 | `NodesInv`, `FoundInv`, `UsedExact`, `RehashHasRoom` |
| `table_map` | keys 0, 3, 8, two values | `ImplementsMap`: the node array refines `TableMap` |
| `table_foreach` | keys 0, 3, 4, 8, 1 or 4 nodes, up to 8 | `VisitedOnce`, `NoneMissed` |
| `table_cache` | four strings, two of them at one address, and an integer key; ids up to 4 nodes; tables of 1 to 8 nodes | `HintIsRight` |
| `handles` | five objects in a block of 4 nodes that grows to 8 | `EveryNodeInOneList`, `ImplementsBag`: the block refines `HandleBag` |
| `values` | five texts in a table of 4 buckets that grows to 8; stacks of up to three values of 15 types, the VM suspended or not (two parts that share a run; 17,930 states) | `OneObjectPerText`; `StackAsDocumented` |
| `heap` | a table, a closure and an instance that owns a handle of the table; two references of the stack (370,233 states) | `CountsExact`, `ChainsSound`, `ReachableKept`, `GarbageGone`, `CollectorEnds` |
| `frames` | two variables, one generator, three frames of two locals, two open scopes (362,149 states) | `TypeOK`, `TrapsSound`, `OuterOfItsVariable`, `CapturedShared`, `GeneratorFrames` |
| `host` | three files, three runs of scripts, one reload, five activations; names of six pieces (two parts; 1,290,326 states) | `RunningStack`, `LoadedOnce`, `StorageReused`, `ReloadComplete`; `NamesKept` |
| `compile` | 200 programs of loops, 51 expressions in 20 places, 11 functions in 7 call sites, with and without the optimizer | `MeansTheSame`, `InFrame`, `TrapsBalanced`, `MemoOnce`, `Ends` |
| `sq_modules_persist` | as `host` | `PersistKept` does *not* hold |
| `compile_for_modifier` | one program | `MeansTheSame` does *not* hold |

Why the bounds are enough.

* Tables. The code's decisions depend on whether a node is free, on whether a
  key is in its main position, on the order of nodes around the free pointer and
  on the two thresholds of `Rehash`. In the `table` run three keys share a main
  position in four nodes (0, 4, 8), so chains have three links; two more (2, 6)
  form a second chain whose nodes the first chain takes, so colliders are moved
  out of the middle and off the end of a chain; sizes 1, 2 and 4 give the
  degenerate thresholds; six keys fill eight nodes to the growth threshold and
  reach sixteen. Every sequence of insertions, removals and clears over these
  keys is explored to the end. With fewer colliding keys the wrong variant
  `LinkFree_Bug`, which cuts a chain, goes unnoticed. In the cache run
  `TypedNodes` is 4 instead of 32, so that the loss of the id at the limit is
  reached with an array of 8.
* Handles and strings. Two objects share a bucket before the growth and after
  it, two before it only, so a growth both splits and keeps a chain; the fifth
  object forces it. Releases happen in the middle and at the ends of buckets.
* Heap. One object of each kind, since the kinds differ in the order of their
  statements; three make every cycle and every cascade of two releases, a hook
  that releases an object in the middle of another's release, and collections of
  cycles with a part that is reachable. Every sequence of operations is explored.
* Frames. Three frames are a script, a native function above it, and a script or a
  generator that this one runs in an Execute of its own. `MaxScopes` counts the
  open scopes of all frames and of the suspended generators; two are a try block in
  a block and the reverse, and a switch in a loop, which is what `continue` needs to
  leave an outer open. Two variables are one that a closure captures and another
  that comes to its slot, or the exception. One generator is resumed, killed and
  resumed elsewhere at another base. Each exception of `OuterOfItsVariable` and
  `CapturedShared` occurs within the bounds: without it the run fails.
* Modules. Three files make circular requires of every length up to three; three
  runs of scripts are a load, a failed load and a load after a reload. Two files
  are interchangeable (symmetry); the third may be missing.
* Names. Six pieces are two directories, each with a "." or ".." after it, or a
  directory and a name required from it; the pieces include the slashes doubled
  and missing.
* C API. Three values are the object, a key and a value; more lie below these
  and are not touched, which the proof shows for any height.
* Compiler. `NearJump` is 3 instead of 127, so that jumps of both lengths
  occur; `StackSize` only has to exceed what the programs use. The expressions
  are chosen so that each merging rule of the two optimizers meets each place
  that reads its result. Each function is run with a true and with a false
  value of its variable, and what it throws is caught and printed.

Fairness is assumed in two runs. In `heap`, `WF_vars(Continue)`: a release, a
marking and a loop of the collector are C++ calls of the same thread and do not
pause; the program itself need not go on. In `compile`, the machine does not
stop between two instructions: stated as `[]<><<Next>>_vars \/ []<>(status #
"running")`, which is weak fairness of a step that is possible as long as the
program runs. The other models are of passive structures or of programs that may
stop at any time, and claim no liveness.

What the runs do *not* say: a foreach whose body inserts may miss an entry (an
insertion may move an entry below the cursor), and one whose table is
reallocated may repeat or miss entries; `VisitedOnce` and `NoneMissed` state what
is left. `StackAsDocumented` says of the calls that fail what they may leave behind
(`LeftBehind`: `sq_resume` and `sq_new_closure_slot_from_decl_string`, see below),
and that the iterator of a failed `sq_next` may have been overwritten. A handle that is given back during a
collection, when only it kept the object, leaves a marked object with count 0
until the next collection.

## Proofs

Every theorem holds for all values of the constants that satisfy the named
assumptions of the modules (`ASSUME ...Assumption`): types, finiteness of the
objects and files, null values that are not values. Nothing is assumed of hash
functions or addresses, and not even that sizes are powers of two (`MainPos` is a
remainder). The bounds (`MaxNodes`, `MaxFrames`, ...) are any naturals, so the
theorems say that no instance, however large, violates the property.

| module | theorems |
|---|---|
| `SQTableProofs` | `TypeCorrect`, `NodesSound`, `LinksStaySound`, `KeysAreFound`, `LoopsStop`, `CountIsExact`, `PredecessorIsFound`, `ReinsertionsHaveRoom`, `TableIsMap` (refinement of `TableMap`) |
| `TableUseProofs` | `ForeachInvariant`, `ForeachVisitsOnce`, `ForeachMissesNone`, `CacheInvariant`, `CacheHintIsRight` |
| `RefTableProofs` | `WholeTableInvariant`, `EveryNodeInOneListInvariant`, `TableImplementsBag` (refinement of `HandleBag`) |
| `SQStringTableProofs` | `WholeStringsInvariant`, `OneObjectPerTextInvariant` |
| `HeapProofs` | `HeapInvariant`, `HeapCountsExact`, `HeapChainsSound`, `HeapReachableKept`, `HeapGarbageGone` |
| `FramesProofs` | `FramesTypeOK`, `FramesTraps`, `FramesOuters`, `FramesShared`, `FramesGenerators` |
| `HostProofs` | `ManagerInvariant`, `ManagerTyped`, `ManagerRunningStack`, `ManagerLoadedOnce`, `ManagerStorageReused`, `ManagerReloadsAll`, `ManagerReloadComplete`, `HostStackAsDocumented` |

**`LinksProofs`** (lemmas only). What a walk along `next` visits is the least set
that holds its start and is closed under `next`; the recursion that computes it is
a recursive function, and by the pigeonhole principle it has come to the end, or
repeats itself, after as many steps as there are nodes. Then: what unlinking a
node and linking it elsewhere do to walks. No later proof mentions the recursion.
`LeastNat` and `InductionUpTo` give induction over naturals in a form that the
provers can use (sets instead of predicates).

**`SQTableProofs`.** None of the safety properties is inductive. Moving a collider
needs its predecessor to exist, so the collider must be reachable from its own
main position; that this survives the next move needs that no stored key's main
position is a node occupied by a stranger; that in turn needs that the node taken
from the free pointer is nobody's main position, which follows from
reachability, since that node is free and ends its chain. `Placed` collects these
facts in the form that holds after a key has been given its node and before the
free pointer moves; `Sound` adds the free pointer and the count. Acyclicity is
preserved by way of `NoTrap`: no set of nodes leads only into itself. For
`Rehash`, the new array is also `Packed` (no free node above the free pointer or
with a successor), so an insertion fails only if it takes the last node, and
`NewSizeRoom` shows by arithmetic on the two thresholds that one is always left,
even for the key that `NewSlot` placed without counting. The steps of the
refinement follow from the entries (`Has`) before and after each operation.

**`TableUseProofs`.** For the foreach: within one array an operation either
leaves every key where it is (`Stays`) or adds a key and moves the others down
(`Sinks`); so a visited key is never ahead of the cursor (`AheadUnvisited`), and
one that is missed means that a key was added. For the cache: from some entry on
(`StartIsOne`), the id of a table tells at which node each of its keys was put,
in the order of insertions. Two tables with the same id tell the same story, and
a story leaves every key at the same node even in arrays of different sizes
(`StoryIsOne`). This needs the keys that are moved on the way: the id does not
record where they go, but it is the highest free node, which the story determines.

**`RefTableProofs`.** `WholeTable`: every node is in exactly one list, lists are
acyclic and do not meet, and a node counts handles exactly while in use. Growth
copies the nodes one by one into the new block; `MoveCopies` and `ResizeCopies`
state what has been copied after each, so that the counts of the new table are
those of the old one, and a call changes the bag at one object.

**`SQStringTableProofs`.** `WholeStrings`: as many chains as buckets, each holding
the live strings of its bucket. Growth moves the strings of one bucket after the
other; `Midway` says which chains are already those of the larger table, and
`Turns` follows the inner loop along a chain.

**`HeapProofs`.** The invariant holds between any two statements of the calls in
progress, and is a conjunction of `Typed`, `Called`, `Dead`, `Dying`, `Counted`,
`OnChains`, `Marks`, `Doom`, `Older` and `Loops`. What each call has done so far is
read off the statement it is at (`Done`). An object that is being released has
left the chain and dropped its fields as far as its call has come; the count of
every object is the number of its references (`Counted`), which are none for one
that is being released, so a reference that ends is never one of these, and
nothing is released twice. A chain is a set of objects linked both ways, no part
of which leads into itself only, so that what the links lead to from its head is
the whole set. `ReachableKept` needs that a call in progress is of an object that
nothing reachable refers to. `GarbageGone` is the hardest: that the loop of the
collector leaves nothing unmarked (`AllSwept`) needs to know what it has finalized
already (`Passed`) and that an object refers by `fixed`, which the loop keeps for
closures, to an older one only (`Older`: fixed references are set when an object
is made): if some were left, the newest of them would be referred to by none of
the others, its count would be 0, and it would have been released.

**`FramesProofs`.** Every action keeps the lowest n frames for some n and puts at
most one frame on them (`Over`), and a lemma for each part of the invariant says
what such a step has to establish about the new frame; an exception, which may
unwind through native calls and generators, is one such step. `Good` is `Core`
(types, nested scopes, slots of distinct variables, root frames, generators owned
by one frame, traps that fit the scopes of their frames) with the count of traps
of each `Execute` and, for every open outer that is not in `vm.stray`, the variable
in its slot (`Outers`). `FramesShared` is about steps: a lemma for each way to leave
a scope or a frame says that what it closes is no longer in scope (`Shares`), and
for a yield and a `continue` which variables these miss. The theorems assume
`~SharedGenerators`, and `FramesTraps` also `~TryInForeach`: what the code does not
handle, see below. Scripts may capture any local of any block, try block, loop or
generator.

**`HostProofs`.** The stack of activations of the module manager has a shape: at
its bottom a reload or a close, on it a handler, scripts above, and only the
topmost script can be in its compilation. `runningScripts` is the stack of the
scripts that execute; that every error path pops it is the step of each failing
action. With it, a file that is loaded or being executed is never loaded again
(`Fresh`), and handlers and reloads keep their place in their lists (`Calls`,
`Reloads`). `ManagerReloadComplete` assumes `~HandlersRegister`, see below. For the
C API, a call is one of a few ways to change a stack (a value pushed, values
popped, popped and one pushed, one replaced), each of which leaves the values
below where they are; a lemma says so of each way, and then every call at every
index is one of them.

### What stays with TLC

* Liveness: `CollectorEnds` and `Ends`. The provers have no rule for fairness.
* The compiler: `MeansTheSame`, `InFrame`, `TrapsBalanced` and `MemoOnce` are about
  recursive operators on trees (`CodeGen`, `Meaning`), which the provers do not
  take, and would be an induction over programs.
* `NamesKept`: the loops of `PathNames` are recursive operators, and the property
  is an induction over the characters of a name.

## Known divergences

Met while modelling, where the code does not do what its documentation, comments
or assertions say. The first two are runs that end in a violation; the others are
left out of the runs by a constant of the model or by the choice of programs, and
can be seen by changing it.

* `sqmodules.cpp:593` (run `sq_modules_persist`). `reloadModule` drops the records
  of the previous generation: a module that the reload did not require, executed
  again later, has lost its persisted values.
* `codegen.cpp:435` (run `compile_for_modifier`). The modifier of a `for` is
  compiled, taken out and added again after the body; the optimizer, switched off
  at a joining point inside it, merges across that point, and
  `i = x ? i + 1 : i + 2` does not advance `i`.
* `sqmodules.cpp:790` (`HandlersRegister`). A handler that is registered while the
  handlers run is cleared without being called.
* `sqvm.cpp:1810` (in `Frames`: `vm.stray`). The unwinding to a trap does not close
  the outers of the scopes it leaves: a closure that captured a local of the try
  block reads the variables of the catch block.
* `codegen.cpp:703` (in `Frames`: `vm.stray`, `Continue`). A `continue` closes outers
  from the stack size of the innermost loop or switch. Inside a switch, the captured
  locals of the loop body stay open, and the next iteration uses their slots; in a
  `for`, the captured variable of the loop is detached from its closures.
* `sqvm.cpp:1641` (in `Frames`: `YIELD`). A yield closes the outers of the frame:
  closures keep a copy, and the generator and they no longer share the variable.
* `sqvm.cpp:792` (`TryInForeach`). `foreach` resumes a generator without adding its
  traps to the count of the `Execute`, from which they are later subtracted:
  `assert(traps == 0)` fails, and an error handler may not be called.
* `sqobject.cpp:179` (`SharedGenerators`). A generator that `sq_resume` has run keeps
  the root flag of that frame; resumed by a script, its yield or return ends the
  `Execute` of the script.
* `sqapi.cpp:1614` (`StackGrows`). The result of a resumed generator is written
  through a reference into the stack, which may have moved: a null is left instead.
* `sqapi.cpp:1618` (`LeftBehind`). A resume that fails, or that suspends the VM, leaves
  the slot for the result on the stack.
* `sqapi.cpp:842` (`LeftBehind`). `sq_new_closure_slot_from_decl_string` leaves the name
  and the closure on the stack when the slot cannot be made; the free variables
  are gone in either case.
* `sqvm.cpp:761`. At the end of an iteration by `_nexti`, `sq_next` fails and has
  overwritten the iterator with null.
* `sqstate.cpp:447`. `RefTable::Finalize` nulls the object of each node in turn and
  keeps the nodes in their buckets; a hook that gives a handle back in between runs
  into `assert(0)` at line 510. In `Heap`, a hook then finds no handle to give back.
* `sqvm.cpp:2569`. An open outer is counted by the list of open outers, which is
  not marked: a collection finalizes it and forgets it when it replaces the chain.
  `Heap` has no open outers.
* `sqtable.cpp:267`. `NewSlot` of a new key answers false when it had to rehash,
  where `sqtable.h:146` promises true; `TableMap` only promises that true means a
  new key.
* The programs of `MCMachine` under "Programs that the compiled code gives another
  meaning": a `continue` inside a `switch` (`codegen.cpp:703`, see above); `1 + s` concatenates in the other order
  (`codegen.cpp:2372`); a constant `true || (1 / 0)` is rejected
  (`constgen.cpp:301`); a `return` of a code block inside a loop only leaves the loop
  (`codegen.cpp:733`); the fold of an addition drops the assignment of a parameter
  (`optimizer.cpp:53`); a call of the function's own name under which an outer
  variable exists returns the function (`codegen.cpp:1769`); the callee is evaluated
  before the arguments, where the reference says after (`codegen.cpp:1724`).

## Not modelled

* `Clone` and `IsBinaryEqual` of tables, delegates in lookups; classes (members,
  inheritance, locking) and the instance half of the inline cache; arrays and
  `sqvector`; the deduplicating shrinker.
* Weak references; hooks that make objects; kinds of objects beyond a table, a
  closure and an instance, which differ in how many references they have.
* Coroutines (threads of a VM), the growth of the stack and its limits,
  metamethods, the debug hook.
* The lexer and the parser; the compilation of tables, classes, generators,
  destructuring and type checks; the static analyzer.
* The base and standard libraries, serialization, the debugger interface, sqrat and
  the command line: pure functions, I/O and wrappers.
* Memory allocation failure; variable tracing.

`PROJECT.json` gives the reason for each component.
