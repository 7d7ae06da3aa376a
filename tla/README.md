# A TLA+ verification of VeriFast

VeriFast verifies annotated C, Java and Rust programs by symbolic execution with
separation logic. The modules here model the parts of the program that hold
state and that decide whether a verdict is right: the symbolic executor, the
context it works in, the prover Redux, the linker, and the shell that runs the
test suites. They also model concurrent programs among the examples that VeriFast
is shipped with: locks, lock-free objects, a device driver, a garbage collector.
Paths below are relative to the repository; the OCaml sources are in `src/src/`,
the examples in `src/examples/`.

## 1. The system

| part | source | state | operations |
|---|---|---|---|
| symbolic execution context | `verifast1.ml` | used identifiers, undo list, dummy fraction terms, predicate constructor applications, path condition, context stack | `mk_ident`, `push`, `pop`, `assume`, `branch`, `in_temporary_context`, `with_context`, `assert_false`, `check_should_fail` |
| symbolic heap | `assertions.ml` | the chunks, with fractions, of one branch | `produce_chunk`, `assume_field`, `match_chunk`, `consume_chunk`, `produce_asn`, `consume_asn`, the auto-open and auto-close rules |
| statements and calls | `verifast.ml`, `verify_expr.ml` | heap, environment and continuation of a branch | `verify_func`, `verify_stmt`, `verify_call`, `check_leaks` |
| Redux, congruence closure | `redux.ml` | term nodes, value nodes, redexes, pop stacks | `get_node`, `assert_eq`, `assert_neq`, `reduce`, `push`, `pop` |
| Redux, case splits | `redux.ml` | implications, pending splits, axioms | `assume`, `query`, `perform_pending_splits` |
| Redux, arithmetic | `simplex.ml` | a tableau | `assert_ge`, `assert_eq`, `assert_neq`, `push`, `pop` |
| linker | `verifast.ml` | the tables of implementations, structures, predicates and modules; manifests on disk | `create_manifest_file`, `link_program` |
| mysh | `mysh/mysh.ml` | threads, semaphore, alarms, failure log | `exec_cmds`, `launch_process`, `join_children`, `create_alarm` |
| provers | `combineprovers.ml`, `smtlibprover.ml`, `z3v4dot5prover.ml` | the solvers' stacks | the `context` interface of `proverapi.ml` |
| examples: synchronisation | `busywaiting/`, `futexes/`, `monitors/`, `barrier.c`, `termination/concurrent/` | locks, condition variables, channels | acquire, release, wait, signal, send, receive |
| examples: objects | `jayanti/`, `mcas/`, `shared_boxes/`, `lcset/`, `queue/` | shared linked structures, descriptors, hazard pointers | reads, writes, compare-and-sets of the operations |
| examples: systems | `usbkbd/`, `MockKernel/`, `gcl.c` | URBs and device objects; loaded modules; a heap with roots | kernel callbacks; connections; evaluation and collection |
| declarations, front ends, IDE, tools | `verifast1.ml`, `frontend/`, `java_frontend/`, `cxx_frontend/`, `rust_frontend/`, `vfide/`, ... | symbol tables, syntax trees, windows | |

How they interact: the executor explores the branches of a function depth first,
in continuation-passing style. It asks the prover whether the path condition is
contradictory (`assume`) and whether a fact follows (`query`), and brackets every
branch with `push` and `pop` of the prover, of the identifiers and of the context
stack. Redux keeps a graph of terms and passes arithmetic facts to Simplex, which
reports equalities back. After verification each source file has a manifest, and
the linker checks the manifests of a program against each other. mysh runs
VeriFast on the examples, in parallel. The examples are programs of their own,
annotated with the proofs that VeriFast checks; some of them are libraries that
others use (the cohort lock uses the ticket lock, mcas uses rdcss).

Where such a program is hard to get right:

- *Backtracking.* Every component undoes by hand: counters, lists, logs of
  overwritten cells. An error that is caught on the way skips the undoing.
- *Reentrancy.* A merge in the graph triggers further merges while the first is in
  progress; closing a row of the tableau enqueues work that pivots again.
- *Order.* A chunk matches the first of several; fractions are split and merged in
  whatever order the program takes; the linker consumes modules in argument order.
- *Threads.* mysh has one thread per parallel block and per process, with a
  semaphore, a condition variable, an alarm thread, and one variable read without
  the lock.

What correct means here: Redux answers "unsat" only for contradictory assumptions
and finds the contradictions it is built to find; a pop restores what the push
found; fresh names are fresh; a program that the executor accepts does not fail
and does not leak; a program that links has every function, body and module once;
mysh keeps within its number of processes, stops after a failure, ends, and reports
truthfully. Of the examples: a lock lets one thread in and does let it in, an object
answers as if its operations were instantaneous, and nothing that was freed is used.
VeriFast proves much of this of the annotated code; the models check what the
annotations leave out (counters that wrap around, termination where only partial
correctness is annotated, code that is trusted) and the algorithms independently of
the proofs.

## 2. Modules

| module | models | checked by |
|---|---|---|
| `SymContext` | the symbolic execution context | `symcontext`, `symcontext_leftover`, proofs |
| `SymContextLemmas`, `SymContextProofs` | the inductive invariant of `SymContext` with its lemmas, and the theorems | TLAPS |
| `SymExec` | the symbolic heap, assertions, statements, calls and functions | `symexec` |
| `SymSound` | `SymExec` composed with a concrete C machine | `symexec` |
| `Egraph` | Redux's congruence closure | `redux` |
| `ReduxSplits` | Redux's implications and case splits | `redux` |
| `Simplex` | Redux's arithmetic | `simplex`, `simplex_cycle` |
| `Link` | manifests and the linker | `link_programs`, `link_dll_modules`, proofs |
| `LinkProofs` | the inductive invariant of `Link` and the theorems | TLAPS |
| `Mysh` | the shell | `mysh`, proofs |
| `MyshLemmas`, `MyshProofs` | the inductive invariant of `Mysh` with its lemmas, and the theorems | TLAPS |
| `Lock`, `FifoLock` | abstract specifications of locks | refined by the next four |
| `TicketLock`, `ClhLock`, `CohortLock`, `FutexMutex` | the locks | `sync`, proofs |
| `Monitors` | the barrier, bounded buffer and readers-writers programs on condition variables | `sync` |
| `WaitingPrograms` | `prodcons.c`, `tricky_client.c`, `bounded_fifo.c`, `echo_live_mt.c` and `barrier.c` | `sync`, proofs for `prodcons.c` and `barrier.c` |
| `UsbKbd` | the USB keyboard driver and the kernel that calls it | `sync`, proofs |
| `FifoLockProofs` | theorems about the ticket lock and the CLH lock | TLAPS |
| `ConstructProofs` | theorems about the cohort lock, the keyboard driver, `prodcons.c`, `barrier.c` and the futex mutex | TLAPS |
| `SyncProofs` | the same of `MCSync`, which composes them | TLAPS |
| `Linearization` | all the ways in which the operations under way can have taken effect | used by the next seven |
| `Jayanti`, `Rdcss`, `Mcas`, `ConcurrentStack`, `ConcurrentQueue`, `LcSet`, `ReversedQueue` | concurrent objects | `objects` |
| `CowList` | copy-on-write lists | `objects` |
| `MockKernel` | modules that connections load, use and unload | `objects`, `kernel_fresh_modules` |
| `Collector`, `Gcl` | the collector of `gcl.c`, and the interpreter above it | `objects` |

A module `MCx` instantiates module `x` for TLC; `MCRedux` (`Egraph` and `ReduxSplits`),
`MCSync` and `MCObjects` instantiate several, side by side: a behaviour chooses one of
them in its initial state. Definitions whose comment starts with "Mutant" are wrong versions of the definition below them. They are not part
of any specification; substituting one for the definition it mutates violates a
property, which shows that the property depends on that piece of the code.

### SymContext

The variables have the code's names. A term is the identifier of the symbol it is
about. `used_ids_undo_stack` is a multiset, because its order does not matter. The
OCaml calls in progress are `frames`; each frame has ghost copies of the state at
its entry, against which the properties compare. `issued` is a ghost count of the
live symbols per identifier. `IdentAt` maps a count to the string that
`sprintf "%s%d"` gives; the constant `Index` is arbitrary except that an index
changes the string, so that "x" with index 0 may be another base identifier "x0".

An action is a call, a return, or an operation of the code that runs inside a
call: `StartFunc`/`EndFunc` (`verify_func`), `StartTemporary`/`EndTemporary`
(`in_temporary_context`), `StartWithContext`/`EndWithContext`, `StartAssume`/
`EndAssume`, `StartBranch`/`SwitchBranch`/`EndBranch`. `AssertFalse` raises
`SymbolicExecutionError`; `UnwindWithContext` runs the one `finally` clause there
is, `UnwindOther` abandons a call without popping (also `with_context_force`, which is
`with_context` without the `finally`), and `CatchShouldFail` is
`check_should_fail` followed by the `pop()` of `verify_func`.

### SymExec and SymSound

Programs have one struct with one pointer field, so a term is a pointer: null or a
symbol. Chunks are the field (initialised `f`, or `f_`), `malloc_block` and user
predicates without a precise declaration. Coefficients keep what the code tells
apart by physical equality: the term `real_unit`, other known fractions, registered
dummy fractions, and sums with a dummy fraction that nobody registers.
`assume_field` assumes addresses distinct or merges fractions, in heap order;
`consume_chunk` takes the first match, splits it if the fraction is smaller, and
falls back on `field_chunk_to_field_chunk__rule`. The order of the heap is that of
the code, reversed prefixes included. The prover is exact for (dis)equalities of
pointers.

A branch of `SymExec` is a record: heap, framed heaps, path condition, next symbol,
environments and continuation. The continuation is a sequence of items: statements
of the program, and pieces of the code that run after a callback (`consume_asn`,
"result", "iteration", `check_leaks`, ...). `todo` is the stack of branches; one
step runs the first item of the first branch. `Become` drops contradictory
branches, as `assume` does.

`SymSound` verifies a program and then, if it is accepted, runs `main` on a machine
with a memory, a stack and C's statements. The machine is what the annotations talk
about; it is not VeriFast code.

### Egraph

Term and value nodes with all their mutable fields and pop stacks. A call of
`assert_eq` inside another is an entry of an agenda, so that TLC sees the states
in between. `MergeInto` is `merge_into` with constructors, disequalities, redundant
parents and redexes; `Reduce` and `Perform` are `reduce0` and the redexes of
fixpoints, `==`, `&&` and `||`.

### Simplex

The objects' fields are cells of a heap, and `popactions` is the log of overwritten
cells, so that undoing is what the code does (cells written without a log entry
included). `Maximize` is one pivot of `maximize_row`; `NextInQueue` takes the next
unknown `close_row` enqueued. Rationals are exact.

### ReduxSplits

Implications and case splits over a Boolean theory: a term is an atom, a connective
or a negation, and `Forced` is what the congruence closure makes of the values of
connectives and their arguments. The linked list of pending splits is a sequence of
cells with the positions of its front and back, because pop actions put a cell or a
position back and not the list. `assume_core`, `holds`, `perform_implications`,
`Iter` (the loop of `perform_pending_splits`), `prune_pending_splits`, `assume` and
`query` follow the code case by case. One case of the code cannot happen: when the
second branch of a split is contradictory, `continue` is true, so the cell that would
make `prune_pending_splits` "immediately assume the first branch" is never written
(`redux.ml:1352`).

### Locks, monitors and programs

A step of a thread is one atomic operation or one critical section. A failed attempt
of a loop that busy-waits changes nothing and is not a step. `TicketLock` has counters
with `W` values, 2^64 in the code, and `release` loads and stores `owner` in two
steps. In `ClhLock` thread objects come and go, and a node that was freed may be
allocated again. `CohortLock` is the two-level lock over `FifoLock`s, one per cohort
and one that the cohorts share. `FutexMutex` has the kernel's `futex_wait` and
`futex_wake_one` as external operations, and compare-and-sets that fail spuriously.
`Monitors` has the condition variables of `monitors.h` as external operations.

`UsbKbd` has the driver's callbacks and the part of the USB and input core that calls
them: URBs that are submitted, complete, are unlinked or killed, each with its
handler; opening, closing, LED events, probing with failures at every step,
disconnecting, loading and unloading the module. A use of memory that was freed sets
`fault`.

### Concurrent objects

A step of a thread is one atomic access to shared memory. The state of an object is
what the C code stores: nodes, pointers, descriptors with tag bits, hazard pointers.
What the object promises is a sequential operation `Apply`, taken from the
annotations of its header, and `Linearization` keeps the set of all pairs of an
abstract state and results that the operations called so far can have had; a call
that returns something outside that set empties it. So no linearization points have
to be named, also not for `rdcss`, `mcas` and the snapshot, where they lie in other
threads or in the past. `Rdcss` has `rdcss`, `rdcss_read` and
`rdcss_compare_and_store`; the last one may fail although the word has the expected
value, when a descriptor is in it (`rdcss.h:127`), and its `Apply` allows that. `Mcas`
does not rely on this abstract view: its threads take the steps of `rdcss.c`, so a
word can hold an rdcss descriptor that has taken effect while another thread tries to
replace a call descriptor, and a call descriptor can be put back into a word after its
call was decided, or stay there after its call has returned.

`CowList` compares lists that share nodes with lists that do not. `Collector` has
marking by pointer reversal step by step; `Gcl` has the evaluator with its explicit
roots, and an allocation may collect at any time, which is the worst the code can do.
The parser gets tokens, of a program or of one whose last ')' is missing.

`MockKernel` has connections that load and unload modules and open devices, with
`kernelLock`, the loader's lock, the list `loadedLibs` and the operating system's
reference counts of DLLs.

### Link and Mysh

`Link` reads manifests line by line (`LinkLine`), as `link_program` does, with the
tables as association lists; the manifest a link writes for a DLL is read by a later
link. `Mysh` has one program counter per block and per process; a section between
`Mutex.lock` and `Mutex.unlock` that cannot block is one step, and reads outside it
are steps of their own.

## 3. Runs

Deadlock is not checked where the system may stop: a caller may stop after an
answer, a bound is reached, or the program has ended. All bounds are constants or
named definitions of the MC modules.

**`symcontext`** (about 323,000 states). Base identifiers "x" and "x0", so that the
second name made for "x" is the first made for "x0"; up to 4 nested calls of every
kind, 3 levels, 3 live symbols, 2 terms (`FewTerms`), errors caught and not caught.
Checks `NamesDistinct`, `TermsAreLive` (dummy fraction terms and predicate constructor
applications are about live symbols, always; assumptions are, unless a caught error
left a level of the prover over), `StacksSuffice` (no pop meets an empty
stack, also after an exception skipped pops) and `RestoredOnReturn`. The bounds let a
call of each kind be inside each other kind, and let an error abandon two levels.

**`symcontext_leftover`** is a counterexample: an error that `check_should_fail`
catches leaves the levels below `verify_func` pushed, so that the final `pop()`
undoes the innermost leftover level, and the function's own path condition and
identifiers stay. The comment on `pop` promises the previous path condition. The run
`symcontext` shows what remains true: names stay fresh and no pop fails.

**`symexec`** (about 150,000 states). Nine annotated programs (two cells, a list disposed of
recursively and in a loop, a reader with half a permission, half predicates, leaked
predicates, a partly leaked block, a conditional contract, a loop that returns from
its middle), every program that results from them by at most two edits (a statement
or a conjunct left out, a statement repeated, half of a permission left out), and
three wrong ones: 3822 programs, of which 652 are accepted. `Sound`: no accepted
program reads, writes or frees what it does not own, reads an uninitialised field, or
fails an assertion. `NoLeaks`: an accepted program without `leak` frees everything.
`AcceptsIntended`: the nine are accepted. `VerificationTerminates`. Memory has two
addresses and the stack four frames, enough for two objects that alias or not and for
a recursive disposal of a list of two; a deeper call stops the machine.

**`redux`** (about 284,000 states). Two parts of Redux, side by side.

The graph of nodes: four small worlds (congruence with equality terms, constructors
with a fixpoint, connectives, and backtracking over two levels), with two or three
assumptions each. The reference is a closure computed from the definition of
congruence, injectivity and distinctness. `MergesSound` and `UnsatSound`: whatever is
merged or refuted follows. `ClosureComplete`: equalities that congruence alone gives
are found. `ValidWasImplied`: the answer Valid is given only when nothing changed.
`NoDanglingValue`: no reference to a merged node is left.

The case splits: up to four of nine assumptions (disjunctions that share atoms, a
nested one, exclusive disjunctions of which three contradict each other, which only
splitting finds), an axiom with a trigger, four questions in between, and one level of
backtracking. The reference is the truth table. `RefutationsSound`: nothing satisfiable
is refuted, and the assertion in `query` holds. `RefutationsComplete`: without the axiom
every contradiction is found, whatever splits were pruned, decided or brought back
before. `PopsRestore`, of both parts: a pop gives back what the push found.

**`simplex`** (about 193,000 states). Two unknowns and small constraints: three of
all kinds at a time, four degenerate ones through the origin with one level of
backtracking, or four upper and lower bounds that allow pivots of different lengths. The reference is the polyhedron itself, on a grid fine enough to contain
a point of every feasible combination of these constraints. `UnsatIsRight`,
`SatIsRight`, `ReportedEqualitiesHold`, and `AllRemaximized`, which is the TODO of
`close_row`: the unknowns it enqueues suffice. `RowsAreEquations`, `TableauFeasible`
(where every column is 0 the restricted unknowns are not negative, apart from the one
that is being maximized, also between pivots), `AssertionsHold`, `PopRestores`.

**`simplex_cycle`** is a counterexample. `README.txt` calls `simplex.ml` "a decision
procedure", but `maximize_row` has no anti-cycling rule: it takes the first column that
fits and the first of the tightest rows. Seven inequalities in four unknowns that meet
in the origin make all pivots degenerate, and when an eighth is asserted the
maximization comes back to a tableau it had before (the comparison is of the whole
tableau, the order of its terms included), so that it goes on for ever. With two
unknowns this cannot happen, which is why the run has four.

**`link_programs`** (about 371,000 states). Five source files and two DLLs, up to three links.
`RequirementsMet`: a program that links has every function it uses implemented, by a
file at or before the use. `OneBody`: and one body of every structure and predicate.
`SourcesImportedOnce`: a program linked from source files alone has one importer of
every module.

**`link_dll_modules`** is a counterexample: through DLLs a module can be imported
twice, in the program that `module_imports.mysh` expects to be rejected when it is
linked from source.

**`mysh`** (about 66,000 states). Three scripts: nested blocks with one permit, a
macro with a parallel block and a `del`, and errors that kill threads. Processes
succeed or fail, and time passes or does not. `AtMostMaxProcesses`, `SequentialStop`,
`ExitStatusTruthful`, `PromptNotSlow`, `Termination`.

**`sync`** (about 53,000 states, liveness included). Three threads on each lock, with
counters of four values, so that tickets wrap around while all three wait, and four
nodes, one more than the threads hold, so that a freed node comes back at once; two
cohorts that pass the lock on twice; three threads at the barrier, three producers
and consumers with one place, three readers and two writers; three rounds and
messages; one keyboard with two LED states, and two handlers of a URB
that have yet to return.
`LocksImplement`: each lock implements `Lock` or `FifoLock` under a refinement
mapping. `AcquireReturns`: every `acquire` of the fair locks returns, and some thread
gets the futex mutex. `Progress`: the programs come to an end, module unloading
returns, messages are sent. `SafeAccess`: no race, no use of freed memory (by the
driver, the channel's users or the CLH lock), no URB submitted twice, nothing left
allocated, messages in order. `LedsFollow`: the keyboard comes to show the
LEDs of the last event unless a transfer fails. Deadlock is checked: a program that
has finished stutters, and in the monitor programs a lost signal would be reported as
a deadlock.

**`objects`** (about 1,490,000 states). Two or three threads with two or three calls
each; three to five nodes, so that a freed node is allocated again while others hold
stale pointers to it; for `mcas` two words, which calls set to 1, set back to 0 and
change alone, so that a call can fail at the second word, which has the expected value
again before the call is decided; three lists over four nodes; a heap of three objects.
`Linearizable`: the seven concurrent objects answer as if their operations were
instantaneous. `AsSpecified`: the copy-on-write lists hold what lists that share nothing
would hold, the collector frees exactly what cannot be reached, and the interpreter
prints what its program means. `MemorySafe`: nothing freed is read, written or freed
again.

**`kernel_fresh_modules`** is a counterexample. `library_free` calls `FreeLibrary`
and removes the entry of `loadedLibs`, and `load_library` calls `LoadLibrary` before
it takes the loader's lock. If a load and an unload of one DLL overlap, the DLL stays
mapped, and the load returns it with the globals that the last user left, where
`libraries.h` promises `module(mainModule, true)`, initial values. `AdderModule.c`
relies on them.

### Fairness

`SymSound` assumes weak fairness of the verifier: it is a sequential program that
runs as long as it has work. The machine is under no fairness: accepted programs may
run for ever. `Mysh` assumes weak fairness of all steps except the clock's
together: some thread that can run does run, and processes end. Fairness per thread
is not needed, because no thread can loop for ever while the clock stands still.
`MCSync` assumes weak fairness of every thread that is inside `acquire` or `release`,
holds a lock, or runs one of the programs: the scheduler runs every thread that can
run, and clients release what they hold, as the annotations demand of them. Nobody is
obliged to call `acquire`. Of the kernel it assumes that a call under way goes on, a
handler returns, and a URB that was unlinked, or that the keyboard has only to
answer, completes; keys, events and unplugging may happen or not. No strong fairness
is assumed, so the unfair spinlock may starve a thread, which `tricky_client.c` is
built to survive. The other specifications state safety only.

## 4. Proofs

`SymContextProofs` proves for all identifiers, index functions and bounds (under
`IdentAssumption` and `BoundAssumption`, which TLC evaluates in every run):

- `TypeCorrect`: `[]TypeOK`. No undo takes a counter below zero.
- `Freshness`: `[]NamesDistinct`. Two live symbols never have the same name.
- `PopsSucceed`: `[]StacksSuffice`. No pop meets an empty stack.
- `ReturnsRestore`: `RestoredOnReturn`. A call that returns restores what it found.
- `TermsStayLive`: `[]TermsAreLive`. No dummy fraction term or predicate constructor
  application is about a symbol that a pop has given back, also after caught errors;
  nor is an assumption, as long as no caught error left a level of the prover over.

All rest on `Invariance`, that `IInv` is inductive. Its conjuncts:

- `UndoChain`: the counters at a level are those saved one level down plus the
  decrements due at the pop. Without it a pop could not be shown to restore the
  counters, since the code decrements and does not copy.
- `FreshLevels`: at every level, saved or current, a live symbol is unique and its
  counter is positive. `NamesDistinct` alone is not inductive: a pop brings back a
  saved level.
- `Depths`: the levels a call pushed are still there during the calls inside it, also
  while an exception propagates. Gives `StacksSuffice`.
- `Aligned`: while no exception propagates, the level a call will pop is its own and
  holds the state at entry. This is what makes returns restore; an exception breaks it
  for the calls it abandons, and the catch removes these from `frames`.
- `FuncOutermost`: `verify_func` is not nested.

The proof has one lemma for each piece (`MkIdentInv`, `PushUsedIdsInv`,
`PopUsedIdsInv`, `EnterInv`, `LeaveInv`, ...; most are in `SymContextLemmas`) and
`NextInv` has one step per action. `TermsAreLive` needs more (`TInv`): what was live at
every saved level (`LevelsLive`) and at the entry of every call (`EntriesLive`) is live
at the levels above, and a path condition refers to live symbols only while nothing is
left over from a caught error (`PathLive`); the outermost call's path condition is
still on the prover's stack (`OutermostSaved`), which is where a catch goes back to.

`MyshProofs` proves for all scripts, however their blocks are nested, and all numbers of
permits (`ScriptAssumption`: types; `TreeAssumption`: a script is a finite tree, in which
every block and every process stands for one command):

- `PermitsBound`: `[]AtMostMaxProcesses`.
- `StopsAtFailure`: `[]SequentialStop`. After the failure of a process of a sequential
  block, nested blocks included, no process of a command after the next check of the
  log of failures is launched.
- `ExitTruth`: `[]ExitStatusTruthful`.

The invariant `RInv` ties the program counters together. `Core`: only blocks whose
parent is at the command that calls them run; a parallel block that has been joined has
no child left; and unless a thread died no command was skipped. `Budget`: the permits
left, the threads that hold one to launch a process and the processes that run on one
are together no more than the permits there were; a permit may be lost (a thread dies),
never made. `Counted`: a parallel block counts a child as finished only once, so that a
join that returns has waited for all. For `StopsAtFailure`, `PassedFine` and
`StartedFine` say that a sequential block has gone past a check only when all processes
before it had succeeded. The strengthenings are needed because the properties talk of
processes and the code of permits and counts.

`LinkProofs` proves for all source files, command lines and chains of links through
DLLs:

- `RequirementsAreMet`: `[]RequirementsMet`.
- `OneBodyEach`: `[]OneBody`.

The assumption (`LinkAssumption`): source files and DLLs have different paths, what the
verifier collects of a file is finite, and a file gives a structure or predicate one
body, which the verifier checks before it writes a manifest ("Duplicate struct name");
a name declared in a .c file has its body there. The invariant `LInv` says what a
manifest on disk means (`DllInv`: the manifest of a DLL describes the source files that
were linked into it, as if it were one of them), where the loops of `link_program` are
(`PlaceInv`), and what the tables hold when no error has been met (`TablesInv`: what
the lines read so far say, so that a requirement was looked up among what came before
it and a body was compared with the one in the table). `SourcesImportedOnce` is
not a theorem for all files: two source files that have the same module name, or one
that is listed twice, give a module two importers.

`FifoLockProofs` proves for any finite set of threads and any number `W` of counter
values that is at least as large (`TicketsSuffice`), of the ticket lock:

- `Exclusion`: at most one thread is inside.
- `InOrder`: of two threads that wait, the one that drew its ticket first gets in
  first.
- `Refinement` and `FifoRefinement`: it implements `Lock` and `FifoLock`.

The annotations of the code reason about counters that never wrap; here they do. What
makes mutual exclusion inductive (`Invariance`) is where the tickets lie on the circle
of counter values. `TicketsInWindow`: the tickets of the K threads that hold one are
at different distances 0 .. K-1 ahead of `owner`, and `next` is at distance K.
`HolderIsFirst`: a thread that is inside has the ticket at distance 0, and what
`release` has loaded from `owner` is still there. The queue of `FifoLock` is the
threads in the order of their distance.

And of the CLH lock, for any set of nodes that is not empty: `ClhRefinement`, it
implements `FifoLock`, and `ClhReadsAllocated`, no thread reads a node that was freed.
The queue exists only as a chain of nodes: a thread waits for the node of its
predecessor, and the first for one that nobody owns. The invariant (`ClhInv`) says that
some sequence of the threads is such a chain and ends at the tail (`Chain`); that every
thread object and the end of the chain own a node of their own, allocated and no one
else's (`NodesOwned`), although `release` makes a thread the owner of its
predecessor's node; and that the node of a thread that waits or is inside is marked
(`Marked`). The refinement mapping computes the queue from the chain by a
recursive function, so the proof first shows that a chain determines what the function
returns.

`ConstructProofs` proves of the cohort lock that it implements `Lock`, for any threads,
cohorts and bound on passes, whatever `release` reads from `queueSize`, provided that
the shared lock is not the lock of a cohort (`Refinement`). Its locks are `FifoLock`s,
so with `FifoRefinement` it holds for the code, whose locks are ticket locks. The
invariant: the holder of a cohort's lock is the first in its queue (`LeaderIsFirst`),
and at most one cohort owns the shared lock, because a member is inside or its
`passing` flag is set (`SharedHasOneOwner`). The futex mutex implements `Lock`
(`FutexRefinement`): a thread is inside only while the word is set, and only it clears
it.

`UsbDriverSafe`: the keyboard driver is safe for any LED values and any number of
handlers that have yet to return. `UsbMemory` says what is allocated at each stage of
probe and disconnect; `UsbUrbs`, that a URB is in flight or its handler before its
effect, not both, and that neither is possible for the keys' URB once the input device
is closed or unregistered, and for the LED URB once `usb_kill_urb` has returned: a handler cannot submit again while somebody waits in
`usb_kill_urb`. `led_urb_submitted` is false only when the LED URB is idle, which keeps
`usb_kbd_event` from submitting it twice.

`ChannelSafe`: `prodcons.c` is safe for any number of messages. The semaphore's count,
the message the consumer has claimed and those it has received add up to those sent;
the queue holds consecutive messages from the next to be received; and the channel is
disposed of only after the last message, whose sender does not touch it again.
`BarrierRaceFree`: `barrier.c` has no race for any number of rounds. The two threads
are at the same barrier, or one is in it and the other on its way there, which the
invariant lists by place (`InStep`, `FirstAhead`, `SecondAhead`) with the loop counters
that decide the exits.

`SyncProofs` puts these together for what the run `sync` checks, under
`SyncAssumption` (at least one message, a node and a cohort, and the shared lock is not
a cohort's):

- `AccessIsSafe`: `[]SafeAccess`.
- `LocksRefine`: `LocksImplement`.

A step of `MCSync` is a step of one construct and leaves the others alone
(`SyncStep`). The modules of proofs instantiate the constructs anew, and the lemmas
`...Same` show that their definitions are those of `MCSync`.

TLC evaluates all assumptions in the runs of the modules that state them.

Model-checked only: everything else. `Egraph`, `ReduxSplits`, `SymExec` and the
concurrent objects are built from recursive operators over terms, formulas, chunks or
sets of histories; the prover supports neither these nor induction over data, which is
how one would show what they compute. `Simplex` needs sums over the entries of a row and
products of rationals, which the backends do not decide. `PromptNotSlow` depends on how
`SelectSeq` filters a log. Liveness (`AcquireReturns`, `Progress`, `LedsFollow`,
`Termination`, `VerificationTerminates`) is checked by TLC.

## 5. Abstractions, and what is not modelled

- `SymContext` has no heap and no environment. It and `SymExec` meet in the path
  condition, which `SymExec` keeps per branch.
- `SymExec` has no arrays, predicate families, instance predicates, boxes,
  coefficient variables and precise predicates, hence no auto-open and auto-close
  rules. It has no loop specifications, gotos, switch, exceptions, local
  objects whose address is taken, lemmas and termination checks.
- `Egraph` does not talk to Simplex and has no `<==>`, multiplication and axioms. A
  context that answered Unsat is not used until it is popped.
- `ReduxSplits` has atoms for what equality and arithmetic decide, no `<==>`, and
  axioms whose trigger is one term without variables.
- `Link` takes a symbol for a path with a name, and DLLs are written once.
- The front ends, the declaration checker, the parser, the emitters and the IDE are
  functions on syntax trees or user interfaces around the parts above.
- The disposal of locks, stacks and queues is not an action: the annotations allow it
  only when no thread uses the object any more. All memory accesses are sequentially
  consistent, as the annotations of the atomic operations say.
- `Mcas` has calls that list their words in one order. With opposite orders
  `mcas_impl` calls itself for the descriptor it meets without giving up its own
  (`mcas.c:1425`), and two such calls can help each other for ever; the annotations
  state partial correctness only.
- `UsbKbd` leaves out which keys a report holds. When a submission fails in
  `usb_kbd_event`, the buffer already has the new LEDs, so that the same event is not
  sent again (`usbkbd_verified.c:903`), and before the first transfer the buffer is
  not initialised (`usbkbd_verified.c:874`). `LedsFollow` therefore excludes failed
  transfers and starts with the first transfer.
- `MockKernel` has a second defect in its states, without a document that it
  contradicts: `load_library` returns without leaving the loader's lock when the DLL
  is loaded already (`libraries.c:45`), and the next connection to unload a module
  waits for ever with `kernelLock` held. The run `objects` accepts that one way of
  stopping and no other.
- `Gcl` leaves out the error of `register_object` when 10000 objects stay reachable
  (`gcl.c:720`): the programs of the run need far fewer. Tokens are given, not read
  character by character.
- `stack_hp.c` is the algorithm of `ConcurrentStack` with client records that are
  used again. When none is free, `increment_hpCount` loops until a variable is set
  that it never sets (`stack_hp.c:1108`). `fset*.c` are other proofs of the list that
  `LcSet` models. `barbershop.c` aborts or not depending on who comes first.
- The other examples, some 900 files, are sequential data structures and algorithms,
  one contract each, servers over sockets, tests of the verifier, and libraries of
  lemmas.

How much this is: the modules stand for about 3,600 lines of OCaml, of some 24,500 in
`src/src/*.ml`, and for about 11,300 lines of C. The C files of the repository have
156,000 lines, of which about 61,000 are in C functions; the rest is predicates,
lemmas and contracts, which are proofs about programs and not programs. A model of
most of these lines would be hundreds of unrelated small programs. The models keep to
the verifier itself and to the examples in which several threads, callbacks or a
manual undo make the question hard.

Hazards of the code that no property covers, besides those above:

- `mk_app` caches a node in a term; a term used after the pop of its level would refer
  to a node its arguments do not know (`redux.ml`). The executor never does that.
- `assert_term` drops an `Unsat` answer and the context goes on in the middle of an
  interrupted merge (`redux.ml:1125`). In `Egraph` a context waits for its pop.
- An unsatisfied `.produces` of an export manifest is reported after the errors were
  raised, and so never (`verifast.ml:4563`). `Link` does what the code does.
- `consume_chunk_recursion_depth` stays raised when a rule's branch is contradictory
  or an error is caught (`assertions.ml:1121`); the rules are not modelled.

## 6. Further work

1. Simplex, congruence closure and case splits composed, with the equalities that one
   reports to the other in the middle of a merge.
2. Auto-open and auto-close rules, with `consume_chunk_recursion_depth`;
   loop specifications, gotos and lemmas in `SymExec`.
3. Proofs about the tableau (rows stay equations, undoing the log restores them) and
   about the concurrent objects with linearization points named.
