# A TLA+ model of the Zymbol interpreter

Zymbol is a small imperative language with two engines that are meant to behave
alike: a tree-walking interpreter (`crates/zymbol-interpreter`) and a compiler to
a register machine (`crates/zymbol-compiler`, `crates/zymbol-vm`).  Around them
stand the checks made before a run, a formatter, a language server, packages and a
command line.  This directory specifies what is hard to test in them: calls that
move state about, errors that unwind it, two engines that must agree, walks over
the same tree that must find the same names, threads and messages that race.

## 1. Inventory

| Component | State it keeps | Operations | Works with | Hard behaviour | What makes it correct |
|---|---|---|---|---|---|
| Tree-walker: frames and scopes (`interpreter/src/lib.rs`, `functions_lambda.rs`, `loops.rs`, `match_stmt.rs`) | scope stack, marks of open loops, ended names, installed functions and aliases, `active_calls`; one `SavedCallState` for each suspended call; `loaded_modules[..].all_variables`, moved into the frame that runs against it | assignment, `x°`/`°x`, `\ x`, blocks, loops, `!?`, lambdas, calls, tail calls, return | module store, values | every error path leaves some scopes open and somebody further out closes them; a module's table is *moved*; a flag set in one activation is read in another | frames stay apart, remembered places stay valid, counts balance, a module's table is in one place |
| Tree-walker: values, expressions, collections | none | `$` operators, deep edits, slices, sorts; captures of lambdas | frames | an operand that writes the receiver; an edit that fails half-way; names a walk forgets | both engines and the definition agree; a refused edit changes nothing |
| Tree-walker: module loading (`modules.rs`) | `loading`, `loaded_modules` | load, refuse a cycle, merge | a nested interpreter per module | diamonds; a cycle behind a module already loaded | each file once, no cycle loaded, what is loaded is closed |
| Compiler and bytecode (`zymbol-compiler`, `zymbol-bytecode`) | registers and scopes of the function being compiled; one table of names | tree to chunks, exits of a `!?`, dead code, imports | analysis, VM | temporaries given back too early; jumps that owe handler instructions; aliases of one file seen by another | what the machine does is what the tree-walker does |
| Register VM (`zymbol-vm`) | register stack, frames, handlers, write-backs | instructions | compiler | unwinding through frames; a tail call reuses a frame | frames stay apart, handlers are left as they were found |
| Semantic analysis (`zymbol-semantic`) | none between files | last use, unreachable, destroyed, coverage, loop context, scopes, members of modules | parser, both engines | fixpoints over loops, `!?` and `:>` | what is said holds of every run |
| Lexer, parser, tree, diagnostics | none between calls | tokens to tree, recovery | everything | a `[` or `(` on a new line; resuming after a mistake | one mistake is one diagnostic |
| Formatter (`zymbol-formatter`) | none | tree to text, the gate | parser | line breaks change how text is read | meaning kept, second pass changes nothing |
| Analyzer and language server (`zymbol-analyzer`, `zymbol-lsp`) | documents, module index | open, change, save, close, scan, watched files | editor, disk | reports that arrive late and out of order | the index follows the texts; what is shown is of the last text |
| Command line (`zymbol-cli/src/main.rs`, `zymbol-common/src/shell.rs`) | running commands, `STOPPING` | run, `--timeout` | the program's thread and the timeout's | spawn against kill | nothing is left behind |
| Packages (`zymbol-package`) | none | the files a script reaches | modules | scripts that run scripts | the set is complete, the walk ends |
| Standard library (`interpreter/src/stdlib`) | handles of the host | native functions | host | I/O | functional |
| REPL (`zymbol-repl`) | one interpreter for every line | evaluate a line | tree-walker | a failed line | the next line finds a usable interpreter |
| Host, intrinsics, common, standalone builder | - | bindings and helpers | - | I/O | functional |

How the parts meet:

* A call is the busiest meeting point.  `take_call_state` sets the caller's scopes
  aside, gives a module's table back to the store and counts the loops and ended
  names out; `restore_call_state` undoes it; `eval_traditional_function_call_body`
  adds what only functions have (function table, lent arguments,
  `current_function`, the tail-call loop) and undoes that by hand on each of two
  ways out.  Nothing here is a destructor: every path has to remember.
* An error is a Rust `Err` that travels through those same functions, or control
  flow left pending in the interpreter; `execute_try` is the only place that stops
  an error.  In the VM it is a search of the frames for an armed handler.
* The two engines share no state; they share the tree, the `last_use` schedule, and
  what the manual promises of the language.
* Four readers follow imports: the tree-walker, the compiler, the checks made before
  a run, and the package builder; each with its own walk.
* The only threads are the program's and the one `--timeout` starts.  The language
  server is asynchronous, but its handlers wait only in their last step.

## 2. Plan and order of work

| # | Modules | Of | State |
|---|---|---|---|
| 1 | `Scopes`, `Frames`, abstract `ModuleStore` | calls, constructs, errors, module tables, lent arguments | checked; every safety property and the refinement proved |
| 2 | `TailCalls` | the request `<~ f(..)` makes and who grants it | checked; proved |
| 3 | `StopRunning` | `--timeout` against the program | checked; proved |
| 4 | `Values`, `Syntax`, `Bytecode`, `Machine`, `Compiler`, `Walker`, abstract `Promise`, composed in `Engines` | a program in both engines | checked; `Machine` proved |
| 5 | `Captures` | what a lambda remembers | checked |
| 6 | `CollectionValues`, `TreeCollections`, `MachineCollections`, composed in `Edits` | the `$` operators in both engines | checked |
| 7 | `Parser`, `Formatter`, composed in `Formatting` | `zymbol fmt` | checked |
| 8 | `Checks`, `NameChecks`, composed with runs in `CheckedRuns` | what `zymbol check` says | checked |
| 9 | `Projects`, `Loading`, `Linking`, `ModuleTables`, `Packing`, composed in `Programs` | the files of a program | checked; `Loading` proved |
| 10 | `LanguageServer` | documents, index, disk, watcher | checked; proved |

`MC...` modules hold the instances; `FramesProofs`, `FramesMarks`, `FramesValues`,
`TailCallsProofs`, `StopRunningProofs`, `MachineProofs`, `LoadingProofs` and
`LanguageServerProofs` hold the theorems.

## 3. The modules

### Scopes

One frame's scope stack as a sequence of functions from names to values; `Absent`
is "not in this scope".  The operators are the methods of `Interpreter` that touch
only the running frame: `set_variable` (with `revive`, GLB-147: a name that was
ended comes back in the scope it was taken from), `set_variable_new`, `x°`/`°x`
(`set_at_nearest_loop`, `set_above_nearest_loop`), `take_variable`,
`destroy_variable`, `pop_scope`, `unwind_scopes_to`.  A frame that runs a module's
function has the module's table as scope 1 and its own as scope 2 (`Base`).

### Frames and ModuleStore

| `Frames` | code |
|---|---|
| `store[m]` | `loaded_modules[m].all_variables`, `.dead_variables` |
| `frame` | `scope_stack`, `loop_scope_depths`, `dead_variables`, `current_module_path`, `module_scope`, `import_aliases`, and the constructs the Rust stack holds (`nest`) |
| `moduleDead` | `module_dead` |
| `functions` | whose function table is in `self.functions` |
| `stack[i]` | the `SavedCallState` and locals of `eval_traditional_function_call_body` (lent pairs, `saved_functions`) of each suspended call |
| `pending[k]` | the Rust frames of `eval_traditional_function_call_body` that are evaluating their arguments: what is called, `lent`, and the copy of an output argument that is not lent |
| `activeCalls` | `active_calls` |
| `mode` | running, an error on its way out, stopped |

Actions: `Assign`, `AssignHot`, `AssignHotFails`, `EndVariable`, `Raise`;
`EnterBlock`, `EnterLoop`, `EnterTry`, `EnterLambdaExpr` and their ends;
`BeginCall`, `CopyArgument`, `CallFunction`, `AbandonCall`, `CallLambda`,
`CallRefused`, `Return`; for an error `UnwindConstruct`, `Catch`, `PassTry`,
`UnwindCall`, `FailCall`, `Stop`.  A program is every sequence of these statements that
the guards let through, so a run covers all programs over its names at once.

A call of a function has two halves, as in `eval_traditional_function_call`.
`BeginCall` finds the function, counts the call and decides what is lent.  Its
arguments are evaluated next: nothing else of the model knows of them, so they may
call, open lambdas and blocks of a `??`, assign there, and fail.  `CallFunction` then
takes what is lent, sets the caller's state aside, checks the module's table in,
installs functions and aliases, checks the callee's table out and binds the parameters.
`UnwindCall` is the argument that fails, `AbandonCall` the one whose `??` arm leaves
the statement (`RuntimeError::Unwind`).  `ArgumentsEnd` says whether an argument may end
by `\ x` the very x its call has decided to lend: the code lets it (section 7).

Two details of the code decide much of this module.  A block that fails does *not* pop
its scope, while a loop and a short-path lambda pop one scope each whatever it is;
`Catch` alone knows the depth to go back to.  And an expression lambda without captures
runs on its caller's scopes (`EnterLambdaExpr` opens a construct, not an activation).

`ModuleStore` is what the manual promises: a cell for each variable a module declares,
written one at a time by that module's code, kept between calls.  `Frames` implements
it with `cells <- Cells`, the value wherever the table happens to be.

### TailCalls

`frames` is the stack of activations with what a tail call touches: the function's
name, its argument, the constants marked in its frame, the `!?` it stands in
(`tries`, whose length is `try_depth`) with the part that runs and what a `:>` has set
aside, and `prev_fn`.  `currentFunction`, `pending`, `args` are the interpreter's
fields; `flow` is `control_flow` or the travelling error.  `asker` and `turn` are
history variables no guard reads.  `Ask` is the `<~ f(..)` that becomes a request;
`Restart` is one turn of the loop in `eval_traditional_function_call_body`;
`FunctionReturns`, `ValueReturns` and `CallFails` are the ways out of an activation.
`CallValue` runs a body as `eval_lambda_call` does: a lambda's, or that of a named
function called through a variable or handed to an operator, neither of which sets
`current_function`.  Such a body may ask like any other; its request has no `asker`.
Only the depth limit of `enter_call` is modelled, not its check of the remaining Rust
stack, which the tests of the repository size the limit to stay under.

### StopRunning

Both threads as programs with a place each: `run_command` has a step for `spawn`,
for registering, for `wait_with_output`, for the look at `STOPPING`, for
unregistering; `stop_running_commands` and the rest of `arm_timeout` one for each
effect the other thread can see.  `CommandEnds` is the command itself, which is
outside this repository.  `exit` is which thread ended the process.

### Engines

`Syntax` is the tree (records with a field `k`), with `last_use`'s two questions: which
names a statement mentions and after which statement of a region a name is last used.
`Compiler` is `compile_*`: an operator takes the context of the function being compiled
(`FunctionCtx`: registers of names, free registers, temporaries of the statement, open
loops, open `!?` with what a jump out of each owes) and gives the context after it; then
dead code is removed, jumps renumbered and `num_registers` lowered to the highest
register still used.  `Bytecode` says what an instruction reads, writes and jumps to,
what a well-formed image is (`ImageFits`), and what its code does for the `!?`s it opens
(`HandlersKept`): run over what a frame holds for its handlers - the armed one, the
pending errors, what each register remembers - every place of a chunk is as the
instruction there needs it.  `Machine` has one action for each
instruction on `image`, `regs` (the flat stack), `height`, `frames`, `ip`, `writeback`
(the output arguments of the call to come), `raising` and `inFlight` (the travelling
error; one frame is left per step), `dead` (`destroyed_slots`), `said`, `outcome`.
`Walker` is the tree-walker as a recursive function of the program: `err` stops at once,
`flow` is looked at when a statement ends.  `Promise` is what the user is told: the
values of the program's meaning, printed in order, and then its end.  `Engines` puts the
compiled program on the machine, takes `Walker`'s result for its meaning, and refines
`Promise`; `ZYMBOL_POISON_TEMPS` (`poison`) overwrites every temporary given back.

### Captures, and the collection operators

`Captures` runs one lambda body against the copies it took.  The three walks that find
its names (`collect_refs_*` of the tree-walker, `collect_free_*` of the compiler,
`scan_*` of the last-use analysis) are tables of the places of the tree each enters;
the body is run step by step beside a run in which every name in view was copied.
What a walk leaves out is listed once more in `MCCaptures`, read off the source place
by place and not off the tables, and only a lambda that reads an outer name in those
places alone is left out: a walk that loses a place fails the run.

`TreeCollections` and `MachineCollections` are the `$` operators as each engine writes
them (the VM's with the instruction sequences the compiler emits around them);
`Edits` runs a statement on a variable in both at once - `x op`, `x = x op`, `y = x op`,
at the name or at a path - with operands that are literals, calls, calls that write the
receiver or that fail.  The statements of an instance are the `Turns` of `MCEdits`.

### Formatting

A token is a word with the line it starts on; `Parser` has one operator for each
function of `zymbol-parser`, which call one another through `Parse`; `Formatter` writes
a tree back as words and line breaks, and asks `wide`/`long` where the code measures.
`Formatting` is `zymbol fmt`: someone breaks lines anywhere (`BreakLine`), the file is
parsed, written, compared by the gate and written once more.

### Checks

`Checks` has unreachable, destroyed, match coverage and loop context; `NameChecks` the
scopes of `variable_analysis` and of the type checker; both are operators on a program.
`CheckedRuns` runs what they accept as the tree-walker does, with every outcome of a
condition or a failure.  Any value may come to a `??`, of the kind of its arms or not:
an arm it cannot be compared with fails or is passed over, as in `pattern_matches`.

### Programs

A file is what it imports, exports, asks of its imports and runs with `</ />`.
`Loading` is `load_import`/`load_module` with an interpreter per file under way;
`Linking` is the compiler's one table of names; `ModuleTables` what the checks know;
`Packing` the walk of the package builder and of the effects check.  `Programs` takes
the two engines and the walk in turn over one project: a step of it is one of
`Loading` (`TreeSpec`) or leaves the project and the tree-walker as they are.

### LanguageServer

`mail` is the messages on their way to the server, in order; `Opened`, `Changed`,
`Saved`, `Closed`, `FileThere`, `FileGone` and `Scanned` are its handlers, each whole;
the editor, other programs and the watcher act between them.  `lost` and `since` are
history: files whose index the server knowingly leaves behind, and files under whose
diagnostics another file has changed, or their own text on disk while a file there
re-exports from it.  `Followed` is `exports_of_file`: the checks know what a file gives
only if each of its re-exports can be followed to its end.

## 4. Runs

| Run | Bounds | What it shows |
|---|---|---|
| `modules` | two modules, one name, two values, three calls counted at once, no constructs | `ModuleCodeAtHome`; `ImplementsModuleStore` |
| `unwinding` | one module, one name, one value, two calls counted at once, two constructs, at most five things open (a call is worth two) | `OneTable`, `LentOnce`, `MarksInside`, `NoStrayScope`, `CallsBalanced`, `ErrorLands`, `EndedKeepsItsPlace` |
| `tail_requests` | two functions, one argument, one constant, three calls, one `!?` in each | `RequestIsOwn`, `CurrentIsInnermost` |
| `stops` | three commands | `KilledReleasesNobody`, `ListedAreEnded`, `OwnExitLeavesNothing`, `StopperExits` |
| `engines` | the programs of `MCEngines`, three calls deep | `FramesFit`, `NothingLeftOpen`, `CodeFits`, `AutoFreeIsInvisible`; `KeepsPromise` |
| `captures` | the bodies of `MCCaptures` | `ReadsItsSnapshot` |
| `collections` | eleven values, every operator, then a second statement | `EnginesAgree`, `LeftToRight`, `EditsByDefinition`, `RefusedEditLeavesReceiver` |
| `formatting` | the sources of `MCFormatting`, one broken line, every layout | `KeepsMeaning`, `FixedPoint`, `OneMistakeOneDiagnostic` |
| `checks` | thirteen thousand programs, two turns of a loop | `BranchesAsWarned`, `DestroyedReadsFail`, `UnreadIsNotRead`, `AcceptedRunsOn` |
| `loading` | four thousand projects of up to seven files, each collected in both ways | `CyclesAreFound`, `LoadedIsClosed`, `EnginesLinkAlike`, `ChecksKnowTheRun`, `PackageHasWhatRuns`, `WalkEnds` |
| `server` | two files, four steps of editor and disk | `IndexFollowsText`, `ShownIsCurrent` |
| `aliases` | three files | `EnginesLinkAlike`, which the code does not have there (section 7) |

Why the bounds are enough to be of use.

* `modules`, `unwinding`: a module's table moves at a call and at its end, so the hard
  cases are a module that calls itself, that is called back through another module, and
  a lambda of another file between the two: three calls reach all of them, and two
  modules both roles.  An argument lent on by the callee that borrowed it needs two
  calls.  Stray scopes need one construct that fails inside another that does not know:
  two constructs, on both sides of a call (`MaxNest` is for each activation).  A call
  that waits for an argument counts as one; two are `f(g())`, and a variable that is
  lent while another argument's block assigns it needs one call and one block.
* `tail_requests`: a misplaced request needs the function that asks, one between it and
  the end, and one to be mistaken for it: three activations.
* `stops`: only the last command can be running, so three give one before, one at and
  one after the copy of the list.
* `engines`: every way control leaves (fall through, `@!`, `@>`, `<~`, an error, a tail
  call) from every place two constructs deep (`!?`, clause, `:>`, loop, branch), and the
  rules of calls: output arguments, depth, names ended.  Two levels are what a jump that
  owes handler instructions of an outer `!?` needs.
* `captures`: one place inside another with a read in it, a write or a read in any
  place and a read in another, a write in a place of a block that goes on to read: a
  walk is wrong about one place or about the order of two.  Dropping any one place from
  either walk breaks `ReadsItsSnapshot`; the places already missing are in section 7.
* `collections`: the values have every kind, the empty, the one-element and the nested
  case; indices go past both ends; the second statement finds what a refused edit left.
* `formatting`: each construct of the grammar, and each pair whose grouping could
  change.  One break per source, because the parser decides line by line.
* `checks`: every way to fill the blocks of a construct with a few statements about one
  name; two turns, so that a loop comes back once.
* `loading`: every way three modules can import one another and one defect among them;
  scripts in two directories that run one another and come to one module by several
  ways, with room in a path for a directory to be left and entered again (`MaxPath`,
  which stands for the system's `PATH_MAX`).
* `server`: two files give importer and imported; four steps are open, edit, a change
  elsewhere and its late report.

The bounds are `MaxCalls` (the code's own constant, 10 000 there, and the code does
refuse the next call), and the model's `MaxNest`, `MaxOpen`, `MaxTries`, `MaxCommands`, `MaxBreaks`,
`MaxTurns`, `MaxReexports`, `MaxPath` and `MaxChanges`.  All runs have deadlock checking off: a
program ends, a process does, and an editor may be left alone.

Families leave out programs about which the two engines disagree (section 7): each
precondition is a line of `MCEngines`, of `Comparable` in `Edits`, or of `MCChecks`, and
says what it excludes.  In `checks` two exceptions are part of the properties:
`Forgotten`, what `destroyed` overlooks of a `:>`, and `LeftToBooleans`, a `??` with an
arm for each boolean that meets a value of another kind.  The principal ones for `engines`: no `@!`, `@>` or `<~` out of a
`:>`, `$!!` only as a statement, no `_err` after an inner `!?` of a clause, no tail call
that passes one output variable twice, literal bounds of ranges, and no output argument
at the depth limit.

## 5. Fairness

`Frames` and `TailCalls` are one sequential program.  `FairSpec` asks that a step of
unwinding is taken if it stays possible (`Errors`, `Stop`): nothing else can happen
while an error travels, and Rust returns from a function that fails.  Nothing is asked
of the program's own statements - a loop may run for ever.

`Machine` and `Engines` ask weak fairness of `Next`: the machine's loop runs the next
instruction, and `Promise` asks that the program goes on to its end (the family's
programs all end).  `Programs` asks the same of its one thread, for `WalkEnds`.

`StopRunning` asks weak fairness of the stopper's thread only: the operating system
runs it.  It asks nothing of the program's thread, which may wait for ever, and
nothing of the commands, which may never end.  The locks the two share are held for
one assignment or one copy and never across a wait, which is why taking one is a part
of a step.

`LanguageServer` asks nothing: its properties are about states in which everything
that was sent has been handled.

## 6. Proofs

Checked by TLAPS for every value of the constants, from the named assumptions of the
modules (`ConstantsAssumption`, `MaxCommandsAssumption`, those of `Scopes`; that `NoText`
is no text, `NoTextAssumption`; ...) and from the hypotheses a theorem states itself.

* `FramesProofs`: `OneTableHolds`.  `OneTable` is not inductive: to
  check a table out, it must be known that a suspended frame of that module left an
  empty scope 1 behind, and that no operation on the frame's own scopes - popping,
  unwinding, reviving an ended name - reaches down to scope 1.  `IInv` therefore
  says that the running state is `Sound` (every module's table is `Whole`, in the
  store or in scope 1), that every frame has `FrameShape` (as many scopes as
  constructs at least, every remembered depth not below the frame's own base, and loop
  marks counted construct by construct), and that suspended frames are `Parked`.
  The first lemmas prove that each operator of `Scopes` and each move of a table keeps
  `Sound`; then there is one lemma for each group of actions.
* `FramesProofs`, last part: `CallsBalancedHolds` and `TypeCorrect`.  The count is spread over
  the stack and the calls that wait for their arguments: such a call adds one of those and
  then turns it into an activation, a short-path lambda adds a construct inside one, and
  an argument that fails takes its call off again.  `Counted` carries the count each
  activation began with, and that these rise; `Rising` is what keeps the counter a
  natural number through the subtractions.
* `FramesMarks`: `ModuleCodeAtHomeHolds`, `MarksInsideHolds`, `NoStrayScopeHolds`.  None
  of them looks at what scopes hold, so `EveryStepMoves` first proves that each step is
  one of six moves: write, open a construct, close one, catch, call, go back.  `AtHome`
  then says of every frame of a module, the suspended ones with the functions saved for
  them, that outside its first lambda the aliases in force are the module's; and
  `Marked` that construct i began with i - 1 scopes besides its own and that the marks
  of loops and the places of ended names lie below what is open.  For `NoStrayScope`
  what counts is that a frame at work has exactly these scopes, while one that an error
  leaves may have more.
* `FramesValues`: `LentOnceHolds`, `EndedKeepsItsPlaceHolds` and the refinement
  `ModuleStoreImplemented`; it extends `FramesMarks`.  Each step of a handler either
  writes one variable of one scope or hands scopes over as they are (`Wrote`).
  `ValuesInv` has three parts.  `LentInv` says where the placeholder of a lent variable
  is: nowhere in view, and in a suspended frame only in the scope the value comes back
  to (`Owes`).  `Copies` says that a call that waits has not copied a placeholder.
  `Promises` says that what a waiting call decided to lend is still there to be taken:
  in view, in a scope below the constructs its arguments open, which they close before
  the call goes on.  That is where `LentOnceHolds` and `ModuleStoreImplemented` ask for
  `~ ArgumentsEnd`; section 7 says what the code does without it.  The refinement is proved step by step: the initial
  tables are the initial cells, a table that is checked in or out holds the same cells,
  and a write changes one cell of the module whose code runs, or none.
* `TailCallsProofs`: `CurrentIsInnermostHolds`, `TypeCorrect` and `RequestIsOwnHolds`,
  without a hypothesis on the program.  `NamesKept` says of every function on the stack
  that the name it remembers in `prev_fn` is the one that held where it was called;
  with it, a function that finds its name in `current_function` is that function, is in
  no `!?`, and nothing runs between its request and the restart.  Nothing of the kind
  holds of a request made in a body run as a value, of which the property says nothing
  (section 7).
* `StopRunningProofs`: `KilledReleasesNobodyHolds`, `ListedAreEndedHolds`,
  `OwnExitLeavesNothingHolds`, `TypeCorrect`.  The invariant: only the last command can be
  running, it is registered while the thread waits, and whatever is listed has ended or is
  still to be killed; `ScreenInOrder` adds that the terminal is taken only inside a `>>|`
  or by the step before it, so that a program that is finished has given it back.
* `MachineProofs`: `FramesStayApart` and `AccessesAreInside`, for every image that fits
  (`ImageFits`, which `CodeFits` checks of each compiled program) and a run of it.
  `FrameInv` says that no frame reaches into the next one or past the end of the
  register stack.  Every instruction is one of four moves of the stack - quiet, on
  top, push, pop (`QuietStep`, `OnTopStep`, `PushStep`, `PopStep`) - and so is a step of
  unwinding; a tail call is `OnTopStep` with another size.
* `MachineProofs`, second half: `FramesAreLeftClosed` (`NothingLeftOpen`) and
  `TheMachineStaysInItsCode`, for every image whose code keeps its handlers
  (`HandlersKept`, which `CodeFits` checks of each compiled program) and every depth of
  calls.  The code is judged chunk by chunk and the machine runs through many frames at
  once, so the invariant `HandlerInv` says of the running frame that what it holds is
  what its chunk was judged with at this place; of every frame below it that it will be
  so when the call it waits at returns or fails (`Waits`: what it lent it has let go of
  and gets other values back, its result register is free); and of an error on its way
  up that the frame it reaches can land it.  An error crosses as many frames as it
  likes, one per step, and each hands back what it was lent.  The parameters a frame
  gives back must remember no handler (`PlainParameters`), and which of the lent pairs
  named a register last is asked with a greatest element of a set of naturals
  (`GreatestUpTo`).  `[]LendsWithinDepth` leaves out what section 7 says of the depth
  limit: there the theorem would not hold, because what the refused call leaves behind
  is lent to another.  In the programs of `engines` it always holds.
* `LoadingProofs`: `EveryModuleIsThere` (`LoadedIsClosed`) and `CircularImportsAreCycles`,
  for every project whose imports are lists (`ImportsAreLists`, which `Programs` assumes
  of its instances).  An interpreter's modules are handed up when its file ends and the
  files under way are handed down, so `StackInv` says of each interpreter of the stack
  that its modules are just what the imports it has done lead to, in no cycle and with
  no file under way among them (`Good`, `InPlace`), and that the next one loads what it
  stands at (`IsLoadedBelow`).  That a module is not among what it leads to follows
  from the absence of cycles in that (`NotAmongItsOwn`); then what it brings can be
  merged (`MergedGood`).  A path under way that is imported again closes a cycle
  through the interpreters above it (`ClosesACycle`).  Files are told apart by the
  paths the tree-walker computes, as its table of modules does.
* `LanguageServerProofs`: `IndexFollowsTextHolds` and `ShownIsCurrentHolds`, for any
  number of files, changes and messages on their way.  Both properties speak of a session
  at rest and say nothing of the steps to it.  `Inv` therefore says of every file what is
  true meanwhile: the last message about its document says what the editor has by then
  (`DocumentsArrive`); it is opened before it is changed or closed, and again before it is
  closed again (`ComesInOrder`), without which closing could not compare a text with the
  disk; the last report, at the watcher or in the mail, says whether the file is there by
  then (`ReportsArrive`); and the index says what the document or, without one, the disk
  says, unless the file is in `lost` or one of these is still to be handled
  (`IndexRight`).  The hard steps are the reports that come late: one that the disk has
  overtaken leaves the index wrong, and is made good because another one follows it
  (`OutdatedReport`); and the scan, which reads what was listed when the session opened
  while files come and go.  What the checks know of a file depends on the texts its
  re-exports lead to; that a text no file asks says nothing of them
  (`FollowedElsewhere`) keeps the diagnostics of the file that was written.

Model-checked only:

* `ErrorLands`, `StopperExits`, `WalkEnds` and `KeepsPromise` are liveness or need
  fairness, which is out of the prover's reach.
* `Compiler`, `Walker`, `Parser` and `Formatter` are recursive on trees.  Natural numbers
  can be inducted over by the least element of a set (`LeastNatural`), but nothing can
  be proved of a recursive declaration, so what is said through them stays with TLC:
  `CodeFits`, `AutoFreeIsInvisible`, `KeepsMeaning`, `FixedPoint`,
  `OneMistakeOneDiagnostic`.
* `Captures`, `Edits` and `CheckedRuns` compare two walks over one tree, each again a
  recursion over data, on families of instances.  So do the rest of the properties of
  `Programs`: what a project leads to is a recursive definition there, by places on the
  disk where `Loading` has paths, and four readers of imports are compared.

## 7. Where the code and the text disagree

One disagreement is a run:

* `aliases`: `register_module_alias` (compiler `lib.rs:1255`) writes `alias::fn` into one
  table for the whole program.  When main imports `./a` as `u` and `./b` as `v`, and b
  imports `./c` as `u`, main's `u::f` is compiled to c's f; the tree-walker calls a's.

The others were found while modelling.  Each is outside the instances, at the place named.

In the tree-walker (`Frames`, `TailCalls`):

* The short path of an expression lambda shares the caller's scopes on the ground that
  an expression cannot assign (`functions_lambda.rs:112`).  The block of a `??` arm can,
  and assigns or ends the caller's variables.
* Binding a parameter of such a lambda takes the name out of the *caller's* ended names;
  the caller's variable then comes back in the wrong scope.  `EndedKeepsItsPlace` leaves
  out the step that binds it.
* A lambda carries the aliases of its file and not its function table, so in a module's
  frame its bare calls resolve in the module.
* `f(a<~, ?? 1 { _ => 2 { \ a } })`: `lendable_arguments` is asked before the other
  arguments are evaluated (`functions_lambda.rs:532`) and the value is moved after them
  (544), when a has ended.  "Nothing can look at the caller's variable while it is out"
  (`functions_lambda.rs:528`) does not cover that: nothing is moved, the parameter is
  left the `##_` that was put in its place, or, if the module has a variable a, that one
  is moved and the module is left the placeholder.  With `ArgumentsEnd = TRUE` `LentOnce`
  is violated in seven steps.
* `current_function` is still f inside a body that f runs as a value - a lambda, `g = f`
  and `g(n - 1)`, `xs$> f` - so a `<~ f(..)` there does not call f: the body's value is
  `##_` and the function that ends next is run again with the arguments.  REFERENCE.md:1762
  has such a call take the place of the one that made it.
* A call forwards the constants of its caller's body to the callee and a restart keeps
  those of the last turn (`functions_lambda.rs:666`), so a body that declares a constant
  and calls itself fails in the second call: the name is already declared.
* A line of the REPL that fails inside a block leaves that block's scope on the stack
  (`execute_line` has no `unwind_scopes_to`); the variables of the next lines go there.

Under `--timeout` (`StopRunning`): a command may be started without the stopper ever
seeing it (`Spawn`, `ListCommands`, `Register`); the stopper asks once whether a `>>|`
block is open, while the block takes the terminal a step before it says so; and it
learns of a package's directory when the last file is written, and never of
`--keep-temp`, so that a package stopped while it unpacks stays and one that was to be
kept goes.

Between the engines (`Engines`): a tail call `<~ f(x, x)` passes `##_` as the second
argument in the VM and keeps `destroyed_slots` of the last turn; a call refused at the
depth limit leaves its write-back for the next; `@!` or `@>` in a `:>` aimed at an outer
loop is discarded by one and taken by the other, and after `<~` in a `:>` one stops the
`:>` and the other goes on; a jump out of `>>|` does not leave the screen in the VM
(GUIDE.md:903); `$!!` inside a larger expression (GUIDE.md:4092); `_err` after an inner
`!?` (GUIDE.md:4016); variables of a loop's body stay bound in the VM; calls are counted
differently at the limit.  In both, the arguments of `<\ \>` and the prompt of `<<` are
not captured by a lambda (`Captures`), and an edit at a path evaluates a calling step
twice.  The tree-walker's walk (`collect_refs_in_stmts`, `functions_lambda.rs:1113-1130`)
leaves out much more that the compiler's has: `_?` and `_` branches with their
conditions, the condition of a `@ c` loop, what an `@ i:xs` goes over, `!?` with its
clauses and `:>`, `??` as a statement, patterns that name a variable, `>>|`, the items of
`>>` at a position.  A lambda that reads an outer name only there does not find it when it
runs in a frame of its own.

Between the engines (`Edits`): the VM refuses to remove a value from a tuple; `$-[..]`
with an end of 0; which failure comes first when a bound and a type are both wrong; a
navigation that reads into a text gives a text in one and a character in the other; a
needle that is not a character; `y = ""[-4]$~ 7`.  GUIDE.md:2819 says `$[4..-4]` of five
elements is empty: both engines reverse.

In the formatter and the parser (`Formatting`): an item of `>>` continues over lines and a
postfix must be on the line the item *starts* on, so a break inside `>> [1, 2][1]`
changes the meaning and passes the gate; sources the parser accepts and the formatter
refuses, among them `>> x#?[1]` (GUIDE.md:4917), `x = a == b < c`, trailing commas,
`x°$!!`, `##K(_)` patterns, absolute import paths; recovery stops *on* a `;`, which is
then a second mistake.

In the checks (`Checks`, `NameChecks`): `destroyed` judges a `:>` by what the `!?` body
left or a failure there, and not by what a clause assigned (`destroyed.rs:248`), so
`x = 1 \ x !? { >> x } :! { x = 5 } :> { >> x }` is warned of a read that succeeds, and
it ignores what a `:>` assigns for what follows; `?? n { #1 => .. #0 => .. }` is complete
for `match_coverage.rs:139` whatever n is, and a number finds no arm; names a
match arm binds are not among the assigned; a function's parameter of the same name
makes the outer variable "unused" (REFERENCE.md:1861); so do an iterator that persists
and `°h` written after its read in a loop; an underscore name is looked up in the first
scope that ever declared it; a constant of a block is global to the type checker; `°x` in
a loop of a block lands at the frame's base in a run.

Between the readers of imports (`Programs`): which output parameters a member has is not
followed through re-exports while its arity is (`type_check.rs:3481`), so
`layer::f(x<~)` is refused; `</ />` is resolved from the running script for a package and
from the file it is written in by both engines; the effects walk resolves a `</ />` "from
every script directory that reaches it" (`closure.rs:351`), but it follows the imports of a
file only the first time, so a module behind one that was seen already is not resolved
from the second script's directory (`MetAtHome` says when it is); it tells directories
apart by spelling, and follows two scripts that run each other by way of `..` until their
path is too long to open (`Opens`), when it reports a file that is there as missing, though
`lexical_absolute` is said to resolve `..` (`closure.rs:568`); one module reached by two spellings of its
path has two states in the tree-walker (GUIDE.md:4313); a re-export with the wrong sort,
and an import of a file that is no module, are taken by one engine only.

In the language server: closing without saving keeps what the editor had exported in the
index; a removal reported for an open file drops it from the index and the creation that
follows does not bring it back (saving by rename); changes between the listing of the
folder and the registration of the watcher are never seen; files that import a changed
file are not diagnosed again, nor is a file whose own text on disk has changed what it
is told of one that re-exports from it; a text that does not parse keeps the old exports.

## 8. What is not modelled

* The lexer (tokens are given word by word; a lexer error that still parses does not
  occur), comments and their place in formatted text, the width of text, numeral
  systems, arithmetic and formatting of numbers, strings character by character: these
  are conversions, tested as such in the repository.
* The types the type checker infers, `def_use` and `cfg`: they judge values, and the
  models keep none; their scopes are in `NameChecks`.
* In `Frames`: constants and what is forwarded of them, the pools of recycled maps.  Its
  imports are all loaded when a program starts; their loading is `Loading`.
* In `TailCalls`: variables other than the parameter and the constants of the outermost
  block; `break` and `continue`, which no tail call crosses.
* In `StopRunning`: the reuse of process ids, nested `>>|`, and Windows' `taskkill`.
* In `Engines`: `@~`, key input, strings, the native modules, the folding of constants.
  In `Edits`: receivers are compared as written or not, script mirror slots are left out.
* In `Programs`: imports of `std/`, E001, the memo of `call_arity`, imports above the
  working directory; the engines and the walk are taken in turn.
* In `LanguageServer`: questions (hover, completion, rename, tokens), which change
  nothing; versions of documents; changes of the workspace's folders; a publication
  reaches the editor at once, as delivery is in order.
* The standard library, the host's bindings and the standalone builder, which are I/O or
  functions of their arguments; the REPL's editing of a line.
