# A TLA+ model of llmlang

llmlang is a compiler (Rust, `src/src/compiler`) for a small prefix language with
linear ownership, and a C runtime (`src/src/runtime`) that every compiled program
is linked with. The compiler decides who owns each value and which expressions run
in parallel; the runtime keeps the threads, the reference counts, the telemetry
queue and the connections. Around the compiler there is an MCP server, with which a
client reads and patches a code base. This directory holds the specification of the parts of
both that have behaviour of their own, the TLC models that check it and the proofs
TLAPS checks.

Paths are those of the repository with `src/` in front, so the thread pool is
`src/src/runtime/threads.c`.

## 1. Inventory

| Component | State | Operations | Works with | Hard because |
|---|---|---|---|---|
| Fork/join pool, `runtime/threads.c` | ring of work items, pool mutex and condition, one handle per task (result, done, mutex, condition) | `llm_fork`, `llm_join`, `llm_do_work`, `llm_worker`, `llm_init_pool` | forked expressions (`codegen/parallel.rs`) | nested joins on few threads, a full ring, a 1 ms timed wait, a handle freed by the joiner while the runner unlocks it, environments on the parent's stack |
| Reference counts, `runtime/memory.c` | a header per value: magic, type, `ref_cnt` | `llm_rt_alloc`, `llm_dup`, `llm_drop` | every other part | dup and drop are several steps; the count is right only if each user holds a reference |
| Emission queue, `runtime/http_server.c` | linked list, started and shutdown flags, one flusher thread | `llm_emit_async`, `llm_emit_wait_all`, `llm_otel_emit_span` | `oe`, discarded `http` calls, spans | many producers, lost signals, flush before exit, who drops an argument |
| Span context, `runtime/http_server.c` | per thread: trace, span, a stack of 256 | `llm_otel_enter_span`, `llm_otel_exit_span` | functions tagged `M "otel"` | overflow, exits that a panic skips |
| Traps, `runtime/io.c` | per thread: a list of `jmp_buf`; one environment variable for the message | `llm_try`, `llm_panic`, push, pop | pool, spans | `longjmp` past joins, past helped tasks and past span exits |
| HTTP server, `runtime/http_server.c`, `tls.c` | listening socket, a request per connection, its buffer | start, accept, respond, drop | router code, picohttpparser, mbedTLS | bodies in several reads, timeouts, failed accepts |
| HTTP client, `runtime/http.c` | none between calls | `llm_http_client`, get, post, decode | libcurl | nothing that needs a model |
| JSON, `runtime/json.c` | per thread: registry of 256 root cells | parse, get, stringify, drop, pack, unpack | cJSON, SoA instances | registry full; values that cross threads |
| Databases, `runtime/db.c` and drivers | list of drivers; per connection: driver, connection, last error | connect, query, exec, error, drop | sqlite, redis, mongo clients | stale error |
| Files, strings, time, money | file handles | sequential functions | | numeric edges only |
| OpenCL, `opencl_dispatch.c`, `driver_src` | loaded flag and function | map | codegen of `map` | unsynchronised lazy load, release ladder |
| Crypto, TLS | keys, contexts | sequential functions | mbedTLS | nothing between calls |
| Lexer, parser and printer, `lexer`, `parser`, `ast/display.rs` | scopes, generated functions, shapes imported | `parse_expr`, `parse_module`, `parse_router`, `Display` | signatures of imported modules; the MCP server prints and parses again | De Bruijn indices, generated names, texts that are read differently from what was printed |
| Verifier | state of each variable: Available, Borrowed, Moved | `verify_expr` | code generation, which keeps the same states again | the two must agree, or a value is dropped twice or never |
| Analysis | call graph, pointer and purity inference | `prune_dead_code`, `is_pure`, `returns_ptr` | verifier, code generation | a worklist over names that several items may share; what is forked must be pure |
| Code generation | LLVM module, tables of shapes, imports and templates, stack of variables | `gen_function`, `gen_expr`, `gen_parallel_expr` | runtime calls, the linker | drops on every path; an item sees only what was generated before it |
| MCP server, `bin/mcp_server.rs` | index of functions and shapes behind a read-write lock | analyze, patch, query tools | parser, printer, files | requests at the same time, a lock released between finding a file and writing it, two paths of one file |
| Test harness | work directory, compiled harness | `run_tests` | compiler, processes | concurrent runs |
| Command line, `main.rs` | the module, the item to generate next, the object so far | parse, prune, verify, generate, link | all of the compiler | an item sees only what was generated before it |

What makes each part correct, in a sentence:

* pool: each forked task runs once, ends before its parent does, is joined with its
  result, no thread waits for ever, and nothing is touched after it was freed;
* counts: `ref_cnt` is the number of references, a value lives as long as somebody can
  name it and not longer;
* emission: one log, in order, nothing lost before a normal exit, arguments alive;
* spans: after a function returns the context is what it was before the call;
* traps: a trap gives back a program in which every other task can still end;
* connections: a request is answered from the bytes the peer sent, however they arrive;
* JSON and database handles: a handle resolves to what it was made for until it is dropped;
* ownership: a program the verifier accepts drops each value exactly once;
* parser and printer: what is printed means, when it is read again, what was printed;
* command line: what is in use is kept, what is verified is generated, and links;
* tools: the index says what was last read, every request is answered, and when the server
  is at rest the index equals the files.

`PROJECT.json` lists the hazards of the modelled parts with their lines, and the property that
covers each or the reason why none does; section 6 has those of the other parts.

## 2. Modules

| Module | Stands for |
|---|---|
| `ForkJoin` | what a program may expect of `llm_fork` and `llm_join` (abstract) |
| `ThreadPool` | `threads.c`, with the tasks `gen_parallel_expr` outlines |
| `ThreadPoolProofs` | proofs about `ThreadPool`; that it implements `ForkJoin`, and that its joiners never all wait |
| `RefCount` | `llm_rt_alloc`, `llm_dup`, `llm_drop`, with tasks that borrow from their parent |
| `RefCountProofs` | proofs about `RefCount` |
| `Outbox` | what a program may expect of the emission queue (abstract) |
| `EmissionQueue` | the queue, its flusher, and the code that emits |
| `EmissionProofs` | proofs about `EmissionQueue`; that it implements `Outbox` |
| `Expressions` | the expressions of `ast/mod.rs` that own strings, their meaning, `returns_ptr`, `is_pure`, `complexity` |
| `Verifier` | `verify_expr` of `analysis/verify.rs` |
| `Codegen` | `infer_constraints`, `gen_expr`, `gen_parallel_expr`, `gen_function`, to instructions over temporaries |
| `Ownership` | a function verified, compiled and executed, on the heap and the trap stack of the runtime |
| `Unwinding` | what each thread keeps: trap stack, span context, JSON roots, under tasks that run on any thread |
| `UnwindingProofs`, `TaskProofs` | proofs about `Unwinding`: traps and spans; tasks and JSON roots |
| `Syntax` | tokens and expressions |
| `Parser` | `parse_module`, `parse_expr`, `parse_router` |
| `Display`, `Printing` | the printer; what printing and parsing again amounts to |
| `Names` | `get_calls`, the rules of `verify_expr` on names, shapes and fields, and the functions `gen_expr` looks up |
| `Subsequence` | what `Vec::retain` leaves of a list |
| `Prune` | `prune_dead_code`, one step per iteration |
| `PruneProofs` | proofs about `Prune`, and the facts about subsequences |
| `Build` | the command line: a file pruned, verified and generated to symbols (extends `Prune`), for any parser, verifier and generator of expressions |
| `BuildProofs` | the invariant of `Build` and what follows from it |
| `McpServer` | the index, its lock, `analyze_codebase` and `patch_symbol`, and an editor, for any parser and printer |
| `Workbench` | both on the same files (extends `Build` and `McpServer`) |
| `WorkbenchProofs` | the invariant of `McpServer`, and the theorems about `Workbench` |
| `Toolchain` | `Workbench` with the compiler's own parser, printer and verifier (extends it with `Names` and `Printing`) |
| `MC...` | constants for TLC |

### ThreadPool

A task of the model is one call of an outlined task function. The program is a tree
`Parent`; which children a task forks, and in which order it joins them, is left open,
which includes every order the code generator emits. A thread carries a stack of tasks,
since `llm_join` runs other work while it waits and `llm_fork` runs a task itself when
the ring is full: `top` and `below` are that stack, `at` the position of each task in
`llm_fork`, `llm_join` or `llm_do_work`.

A critical section is one step, because nothing it touches is touched outside the mutex
and it does not block. Two places need more care and get it: the runner's section in
which it sets `done`, signals and unlocks is two steps (`Publish`, `Unlock`), so that the
joiner that frees the handle may come as early as the mutex lets it; and the worker's test
of the ring and its removal of an item are separate sections in the code, hence two
actions (`WorkerPoll`, `WorkerTake` or `WorkerMiss`). The slots of the ring keep their
stale contents. `shutdown` is never set by any code, so the branch that looks at it is
left out.

### RefCount

A reference is a variable, parameter or temporary that owes one drop. `llm_dup` is the test
of `magic` and then the increment; `llm_drop` the test, the decrement, and for whoever took
the last reference the clearing of `magic` and the `free`. The steps of different tasks
interleave. A task captures at its fork some of its parent's references and all that the
parent itself borrows; it may dup what it borrows, never drop it. Blocks are reused.
`CallerKeepsLent` is the discipline under which the counts are right: the parent leaves what
it lent alone until the join. `RefCountSafe` checks that the runtime is right under it,
`RefCountApply` that the code for a call with a forked argument does not keep it.

### EmissionQueue

The list is modelled as it is, `head`, `tail` and `next` of blocks that `malloc` hands out
again; `order` is a ghost sequence the list is compared with. A producer fills a block, links
it in one critical section, and then goes on, which for `oe` and discarded `http` calls means
dropping the arguments it owns. A producer may panic at any point of its own code, which ends
the process, and one in `Abandoned` may still run when main has left its trap and returns.
The four task types differ in what they write and are one step.

### Expressions, Verifier, Codegen, Ownership

Here the program itself is the input: `Init` chooses any well-typed body up to a given
size, with every way to write a reference (bare, moved `>`, borrowed `$`), and the
behaviour is its life in the compiler and one execution. `Verifier!Verify` is `verify_expr`
over the linear states of the variables. `Codegen!Gen` is `gen_expr`, which keeps those
states a second time in its stack and emits instructions: what LLVM would be given, less the
types. `infer_constraints` is run to its fixed point first, since a drop is emitted only for
what is known to be a pointer. An argument worth it (`Forked`) becomes a task, and
`Ownership` lets the task run at its fork or not before its join. A trap saves the
continuation of its fallback, a panic resumes there. A block is never used again, so that a
use of a destroyed one is seen; it ends the execution in the phase `fault`.

Three questions are asked of this:

* does the generator compile what the verifier accepts (`VerifiedCompiles`)? Both follow the
  states, by separate code, and the generator panics where it disagrees. It may only do so
  inside a forked argument, whose task sees its parent's variables as borrowed while the
  verifier sees them as available;
* is the result the meaning of the body (`ComputesMeaning`, against `Meaning`, a semantics
  that knows no memory)? It is, whenever no misuse occurs and no trap or task was built after
  a move, since such a capture renumbers the variables;
* is the memory in order (`MemorySafe`, `NoLeak`)? Not for all that the verifier accepts, but
  for a discipline, `Disciplined`: a variable leaves its scope, or enters a call or a binding,
  only by a move; elsewhere it is read in place; and no operand moves what an earlier operand
  of the same operation named. `Sound` adds that every parameter is recognised as a pointer.
  Every clause is needed: without any one of them TLC finds a string used after it was
  destroyed, or one that never is. Nothing in the compiler asks for the discipline.

A panic abandons what the frames it leaves had allocated, so `NoLeak` speaks of bodies
without one.

### Unwinding

Three pieces of state belong to a thread and not to a task: `llm_trap_stack` (`io.c`), the
span context (`http_server.c`) and `active_json_roots` (`json.c`). A task runs on whichever
thread takes it, on top of whatever a joining thread was doing. `stack` is the call stack of
a thread, a frame for each task, trap, fallback, function with a span and scope that holds a
JSON value; `traps` are positions of frames, as `jmp_buf`s are. A panic goes to the innermost
trap of its thread and discards the frames above it, whichever tasks these belong to. The
pool is that of `ForkJoin`; the ring, its mutexes and the task run by `llm_fork` itself are
left to `ThreadPool`. The program is any that keeps to `Budgets`: at each point it may fork,
join, open or leave a trap, a span or a JSON scope, or panic. Where the code has a limit of
256 the model has `MaxSpans` and `MaxRoots`.

The properties say what the code guarantees and name what it does not, in the history
variables:

* a panic that leaves a task which a joiner was helping discards that task. It is never
  done, and who joins it waits for ever: `TaskEnds` and `StructuredUnlessCut` have `cut`;
* a panic in a task on a thread without traps of its own ends the process, although the task's
  parent may have a trap;
* a task forked and not joined before a panic runs on with an environment that is gone
  (`orphaned`);
* an exit that a panic skipped, or a span entered at full depth, leaves the thread in a wrong
  context for good: `SpanFollowsCalls` speaks of threads outside of `tainted`. The trace of a
  span in a task is that of whatever thread runs it;
* a JSON value that a task returns is no root for the thread that joins it, which takes the
  cell for a node of cJSON; freed there, it leaves a stale entry in the registry of its maker
  (`stray`). A thread with `MaxRoots` live roots registers none (`unlisted`).

### Syntax, Parser, Display, Printing

Text is a sequence of tokens; the lexer's characters and the signature files are constants.
An expression is one record (`op`, `kids`, a name and a number). `Parse` is the descent of
`parser/mod.rs` for every form of the grammar, with its scopes, its imported shapes and the
functions it generates for routers. `Show` is `display.rs`, as the tokens the lexer will make
of it: a negative integer becomes a minus and a number.

`display.rs:172` says that parse, print, parse must yield an identical tree. It need not:
names are resolved again, so a name that was free because it stood at the top level, in an
expanded body or in a router's handler is captured by the binders it is now printed under
(`Bind`); and six texts are read differently whatever is in scope (`Clean`): a negative
integer, a shape before a name, the current time before a sum, and a function whose body
begins with a name or a tick. `PrintedMeansBound` says that this is all: a module is read back
as its binding if and only if it is free of the six.

### Names, Prune, Build

`Build` takes a module through `prune_dead_code`, `verify_module` and the loop over items in
`main.rs`. What the compiler reads of one expression is a parameter of it: the names in an item
(`Calls`), whether a body is verified with given shapes and functions (`BodyOK`), the fields it
looks up in every shape (`Guessed`), and what its code looks up, in order (`References`):
functions, fields, parameters of templates, variables it gives away, operands. The run gives
them the operators of `Names`, which are recursive; the theorems hold of all that are as
section 4 says. A function is generated step by step, one look-up at a time (`GenCall`,
`GenValue`, `GenField`, `GenExpand`, `GenMove`, `GenOperator`), with a stack of the templates
being expanded (`pending`), so that an expansion without end is a state and not a missing
value. A template is generated with what its call passes: a frame has the shapes of the
arguments that there are, and `Arguments` in `Names` infers them as the code does, each on the
stack that has the earlier arguments already.

`Prune` keeps the worklist as it is, a stack of definitions that may hold one
several times beside two sets of names, because that is where it can go wrong: names, and not
items, are marked, while several items may have one name. `Names` has the rules of the
verifier that module `Verifier` leaves out, and both places that apply them, `verify_module`
and `gen_function`, which does so again with what has been generated so far. Of generated code
the model keeps symbols: defined, declared, imported, referred to, and templates, which are
generated in place of their calls.

The generator fails in more ways than the verifier rejects, and by panics. `stage` then says
why (`Failures`): `unverified`, `gen_function` rejects the body after all; `parameters`, it
continues a function of too few parameters; `unknown`, a name is not there; `endless`, a
template expands itself, for which the compiler overflows its stack; `arguments`, a template
misses a parameter that was not passed (E013); `field`, the shape that was passed has no such
field (E007); `moved`, a variable is moved, lent or elsewhere than the verifier has it (E003 to
E005, E009, E016); `typed`, an operator does not take its operands (E008); `output`, LLVM
cannot optimize or write the object. The last three are nondeterministic. Where variables are
is the subject of `Ownership`, and `Build` only says when it may go wrong (`Uncertain`): where
something was moved before or in what is generated now, which a fork or a trap then renumbers
and lends, and below a template that was not passed all its arguments. Types of operands and
LLVM are not modelled, and any operator or any output may fail.

`VerifiedBuilds` says which of these a verified module is spared. The first premise is
`InOrder`: an item sees only what came before it, so shapes, templates and functions used as
values must come before their use, a template has a name of its own, and metadata other than
`otel`, which drops a definition without a word, holds none. Such a module is never
`unverified`, `unknown` or `endless`, and if an object is written nothing in it is undefined.
The second, `Fitting`, is what nobody verifies: definitions and imports of one name have as many
parameters, a call passes a template all of them, and a shape that is passed has the fields
that templates look up without knowing the shape. Then there are no failures by `parameters`,
`arguments` or `field` either. Nothing is said of the last three failures. `LinksExactly`
says without that premise what the linker will miss: functions called before they are
exported, because `resolve_symbol_name` only finds an exported symbol that exists already and
else has a private one declared, and dropped definitions. `PruneKeepsVerdict` shows the one
way in which pruning alters the verdict: a field of an unknown shape is looked up in all
shapes, and the shape that had it may have been pruned.

### McpServer and Workbench

Each request is a process, `pc` its place between two awaits or system calls: an analysis
takes the write lock and walks path by path; a patch finds its file under the read lock,
releases it, reads and prints, empties the file, fills it, and then analyzes that path. The
editor writes or deletes files at any time, at most `edits` times. Files and the paths that
lead to them are apart, since the index is by path. Queries only read the index. The parser
and the printer are parameters, `Parsed` and `Printed`, which the run `Workbench` sets to those
of the compiler. `Keeping` is `Vec::retain`: what is left of a list, in its order, written out
because the prover has no definition of `SelectSeq`.

That requests overlap is an assumption about the external `mcp_sdk_rs`: the handler is shared
by reference counting and guards its index with a `RwLock` on a multi-threaded executor, which
has a point only if they do.

`EveryRequestAnswered` is checked with a fair executor. `SomeRequestMoves` is what it owes to the
lock: as long as a request is unanswered, one need not wait, whichever side of the lock is taken
and however the search under it ends. Only the theorem `RequestsMove` states it, since where the
run checks the first, the second holds too.

`IndexExact` relates the index to the modules last read (`seen`), `FreshAtRest` to the files:
the index is right at rest for a file that no editor changed and that has one path. Both
conditions are needed. `mcp_server.rs:32` keeps paths apart by their spelling, so `a.llm` and
`./a.llm` are indexed twice; a file deleted keeps its entries; and a shape that two files
define is lost with either (`contested`). Two patches of a file at a time can lose one, which
`FreshAtRest` does not exclude: the index then agrees with the file that lost it.

## 3. Runs

| Run | Instance | Shows |
|---|---|---|
| `ThreadPoolSafety` | 5 tasks on three levels, 2 workers, 2 slots | all safety properties of the pool, refinement of `ForkJoin`, no deadlock |
| `ThreadPoolLiveness` | a chain of 3 and a sibling, 1 worker, 1 slot | every fork is joined |
| `RefCountSafe` | 2 values, 1 constant, 4 references, 3 tasks | counts exact, no use after free, one destroyer, no leak |
| `RefCountApply` | the same, parent not held to its loans | use after free: a finding |
| `EmissionQueue` | 3 producers, 2 emissions each, 3 blocks | list exact, arguments alive, refinement of `Outbox`, no deadlock |
| `EmissionFlush` | 3 producers, 1 emission each, 2 blocks | what is emitted is written, `llm_emit_wait_all` returns |
| `EmissionHandoff` | with arguments the program owns | use after free: a finding |
| `OwnershipSound` | all bodies of up to 6 nodes with 1 parameter, of up to 5 with 2 | disciplined bodies are memory safe and leak nothing, results are meanings, what is verified compiles |
| `OwnershipVerified` | bodies of up to 4 nodes, 1 or 2 parameters | a verified body that drops twice: a finding |
| `OwnershipCapture` | bodies of up to 5 nodes, 3 parameters | a reference in a trap that names another parameter: a finding |
| `Unwinding` | 2 threads, 2 addresses, 2 spans and 2 roots at most, 5 budgets | trap stacks match call stacks, tasks end unless a panic cut one, span contexts and roots exact |
| `Workbench` | every text of up to 3 items from a fixed list, alone; requests, editor and compiler on 2 files | parsing, printing, pruning, verifying and linking agree; index exact and fresh; every request answered, every build ends |

Why the bounds are enough. In `ThreadPoolSafety` the root forks three tasks and one of them a
fourth, so the ring wraps around, is full with a fork pending (`ForkInline`), and a joiner
helps with a task that is not the one it waits for and that itself joins: two levels of
helping on one stack. Every action fires. In `ThreadPoolLiveness` there are fewer threads than
nested joins. `RefCountSafe` needs two tasks besides main for two drops to race with a dup
and with main; four references allow a value with three holders beside another value. In
`EmissionQueue` three blocks for six emissions force reuse while others are linked.

The 57,365 bodies of `OwnershipSound` hold every operation inside every other to a depth of
three, calls with a forked argument (`Threshold` is 6, so that a `cat` is worth a task and a
leaf is not), traps within traps, and lets with two variables in scope besides the parameters.
The called function is `sc $p $q`, which borrows and then drops both of its parameters.
`Numbers` has a false value and one that no string is as long as. `MaxParallelDepth` is 1:
a task forks no other.

`Unwinding` has 36,252 states. Its budgets are one for each interplay, as all operations at
once would be too many: three forks, a trap and a panic; the same with a span and two forks;
three nested spans, one more than fit, with a trap, a fork and a panic; three JSON values, one
more root than fits, with two forks, or with a trap and a panic. Two threads are enough for a
task to run under its joiner or beside it.

`Workbench` has 182,742 states. Its sessions are of four kinds. `Solo` builds one file: each
form of the grammar by itself, all pairs from some forty items, all triples from thirteen that
need one another (definitions that call, shadow, export, expand, import), these also with
definitions and calls that do not fit one another (`Loose`), and templates that read a field
of what they are passed, directly or through another template, with the shape that has it,
one that has not, or none (`Passing`), all under a file name that prefixes symbols and one that
does not. Every failure of the
generator occurs. `Patching` analyzes and then patches twice, with
seven bodies that bind, capture or change sign. `Team` has three requests, two files, a walk of
the directory, a second path and an edit. `Together` lets a patch, an editor and a build meet
in one file, which the build may find empty, as `fs::write` first truncates it.

`CHECK_DEADLOCK FALSE` is said for `RefCount`, where the program may simply have nothing left
to do, for `Ownership`, where a function returns, for `Workbench`, where all work is done, and
for `Unwinding`, where the process ends and where the join of a discarded task does wait for
ever.

### Fairness

Weak fairness of each thread's code: the operating system schedules every thread, a critical
section is left, and a timed wait ends. A thread that competes for a mutex is taken to get
it, which POSIX does not promise and which holds for the default mutexes as long as the other
threads leave the lock from time to time, as these do. Nothing is assumed of spurious wakeups.
In `EmissionQueue` only the flusher and the join in main are fair: no producer has to emit or
to end. `MaxEmits` bounds what an abandoned task emits; one that emits for ever would keep the
flusher from finding its list empty and `llm_emit_wait_all` from returning.

In `Unwinding` each thread is fair and the budget runs out, so that only the joins decide
whether a task ends. In `Workbench` the compiler and each request are fair, the executor being
one that runs every task that is ready; the editor and the start of a build are not. ENABLED is
spelled out there (`CanCompile`, `CanServe`), which TLC checks much faster.

## 4. Proofs

`ThreadPoolProofs` proves for every tree of tasks, every finite set of workers and every ring
size, from the assumptions in `ThreadPool`:

* `TypeCorrect`: `Spec => []TypeOK`;
* `QueueIsExact`: `Spec => []QueueExact`;
* `HandleStaysLive`: `Spec => []HandleLive`;
* `EnvironmentStaysLive`: `Spec => []EnvironmentLive`.

None of these is inductive by itself. The inductive invariant is the conjunction of named
parts in that module: the types, the ring, the link between a task's position, its handle
and `done`, the shape of the stacks (a task is on at most one stack, and every task on one is
active), and for each join the fact that the task waited for is a pending child. That a
handle is live follows because only the joiner frees it, it does so at `reap`, it is at
`reap` only if `done` was set under the handle's mutex, and then the runner has left or
holds no more of it. `Inductive` shows that the invariant holds initially and is kept by each
action, one step per action; the theorems follow by PTL.

The refinement and progress come after:

* `PoolImplementsForkJoin`: `Spec => ImplementsForkJoin`. The status of a task in `ForkJoin`
  is a function of its place, of `done` and of its handle. One lemma per kind of step shows
  that it changes the status of one task, as `ForkJoin` allows, or of none. Beyond the
  invariant above this needs only `EndShape`: a task whose code has ended is done.
* `NoSignalIsLost`: `Spec => []NoLostWakeup`, by counting: an item added is met by a signal
  or finds no worker asleep, an item removed takes at most one waking worker with it. The types
  are all it needs besides.

The last is `JoinersProgress`: `Spec => []NoCircularWait`. A task on a stack waits
for a child it joins or for the task above it, and both started after it. The model keeps no
times, so the invariant says what follows from them: among any tasks on the stacks there is
one with none of its children and nothing above it among them (`Youngest`), and a task that
is not on top has one above it (`Covered`). A step pushes a task with no child on any stack,
pops one, or leaves the stacks alone, one lemma each. With an empty ring the youngest of all
is on top of a thread, and the task it joins is neither queued nor on a stack, so it is done.

`RefCountProofs` assumes `CallerKeepsLent` and proves for every tree of tasks and any number of
values and references `CountTyped`, `CountsAreExact`, `ValuesOutliveUse`, `DestroyedByOne` and
`NothingLeaks`. The invariant has who runs below whom (`Nested`), where a loan comes from
(`Loans`), what each step of a call still relies on (`Calls`), that what is referred to is
alive and has its magic (`Live`), and the counts. All of it looks no further than a task and
its parent, except `NotLent`: a reference that its owner has not on loan is borrowed by no
task at all. Who borrows it got it from its parent, so those that borrow it would be a set
of tasks without a top, which `TreeAssumption` excludes. This is where the discipline enters,
and it enters nowhere else.

`EmissionProofs` proves `QueueTyped`, `ListStaysExact`, `NoSignalMissed`, `ArgumentStaysLive`
(if nobody drops what he handed over, so for `"span"` and `"literal"`) and
`QueueImplementsOutbox`, for any number of producers, blocks and emissions. The invariant says
that every allocated block has one holder, the list, the flusher or a producer (`Owned`,
`Places`); for arguments, that the blocks hold different emissions (`Carries`); for the
refinement, that an emission about to be handed over is new (`Fresh`) and that nothing main
waits for is left when the flusher leaves (`Waits`). The log is a concatenation, so that each
step comes down to an equation between sequences.

`PruneProofs` proves for every module `KeepsReachable`: when the worklist is empty, what is
kept is closed under calls and contained in every set that is. It is closed because what is
reached and not visited waits on the stack (`WaitingShape`), and what is visited either had
its calls reached or waits once more (`VisitedShape`): the second case is what a name with
several definitions needs. Closedness has the premise `RootsAgree`: an exported and a private
definition of one name are both kept, but the private one is never visited.

`UnwindingProofs` proves `TrapsStayFrames`: `Spec => []TrapsAreFrames` for any number of
threads and any budget. That the list of traps is in order and that it lists exactly the trap
frames are proved together: a panic cuts both stacks at the last trap, which leaves them
matching only because the last trap is the highest. `SpansFollowCalls`: `Spec =>
[]SpanFollowsCalls` has the spans of the stack listed in the same way, now only in the
invariant (`SpanChain`), where each saved context must be the one its span was entered from:
that only the current one is right would not survive an exit.

`TaskProofs` extends it:

* `TasksStayStructured`: `Spec => []StructuredUnlessCut`. The count of the places of a task
  is split into what keeps it: nothing is queued twice (`QueuedOnce`), what is queued is on no
  stack (`QueuedWaits`), no two frames run one task (`RunsOnce`), and there is a place for
  each task that has not ended (`Somewhere`). A thread that runs anything has a task at the
  bottom (`TaskBelow`), so that a join always has a task to be in.
* `RootsStayOwn`: `Spec => []RootsAreOwn`. A drop removes the first entry for an address. An
  address that is reused may be listed twice, and the first entry need not be that of the
  cell that is dropped; this is harmless because then one of them is an entry that another
  thread should have removed (`ListedOnce`).

`BuildProofs` and `WorkbenchProofs` prove every safety property of the run `Workbench` but
`PrintedMeansBound`, on `WorkbenchSpec`, for any files, paths, requests, edits and order of
steps: `WorkbenchTyped`, `WorkbenchPrunes` (`KeepsExactlyReachable`), `PruningKeepsVerdict`,
`VerifiedModulesBuild`, `ObjectsLinkExactly`, `IndexStaysExact`, `IndexFreshAtRest` and
`RequestsMove`. The compiler and the server meet only in the files, so each keeps its own
invariant (`BuildInv`, `IndexInv`) and both need only that what lies on the disk is a text
(`Texts`), whoever wrote it (`WorkbenchInvariant`).

These theorems have one premise, `ToolsFit`, a statement about the constants of `Workbench`
that no state occurs in:

* what the parser returns without an error is a list of items whose parts are of their types,
  and the names of an item under metadata are among those of the whole (`WellParsed`);
* the verdict on a definition depends on what the names in its body are and on nothing else,
  but for a field that is looked up in every shape, for which some shape must have it; and
  in a body with the verdict yes, every parameter that expands is one of the definition, and
  every field of a known shape is in it (`JudgedByNames`, `FindsAll`). This is what
  `verify_expr` promises by reading its tables of shapes and functions only at names that
  `get_calls` collects. It is what makes pruning harmless, and it is why `gen_function`, which
  asks again with smaller tables, gives the same answer;
* what is printed of a module after a patch that is asked for is again a text.

The compiler's own operators are recursive over expressions, so that they meet the premise
cannot be proved here. TLC evaluates its first two parts (`ParserFitsHere` in `MCWorkbench`) on
the definitions of every form of the grammar, on shape tables with and without a field and on
all sets of three function names; the third is checked as part of `TypeOK`, for every patch of
every session. Without it a mutant of the printer that writes a negative integer as one
token breaks `TypeOK`.

`BuildInv` says where every symbol of the object comes from (`SymbolsShape`): it is defined by
a function that was started, extern by an import, declared by a template, or declared by a
call that came before every definition of the name it calls. Only the last kind can miss
its definition, and then it does so under the private name (`MissingShape`); a symbol tells the
name it was made from (`SymbolTellsName`), so nothing else can be taken for it, and
`LinksExactly` follows in both directions when nothing is left to generate. For
`VerifiedBuilds` the invariant keeps, under `InOrder`, that the templates being expanded come
ever earlier in the module (`Descending`), so that none is expanded inside itself, and that no
code refers to a template's symbol (`NoneOfTemplates`); that a symbol has as many parameters as
some definition or import of its name (`ParamsShape`), and under `Fitting` that every frame
above the first has a shape for each parameter of its template, one with all fields that
templates guess or none (`PassedShape`); that a body verified by
`verify_module` is verified again by `gen_function` is `BodyVerified`, from `JudgedByNames` and
the shapes and functions known at that point. `PruneKeepsVerdict` needs from
`PruneInv` that the names in a kept item are reached: all items of such a name are kept, so it has
the same last shape and is a function as before (`SameShapes`, `SameFunctions`), and
`JudgedByNames` says what may still differ.

Freshness at rest is not inductive, because a request that has emptied or written a file has
yet to read it again; the invariant (`Fresh`) says of every indexed path that no editor touched:
it is up to date, or there is a request that is to read the file (`Due`). A second path of
the file that is indexed first is the exception that `FreshAtRest` makes. Exactness needs a
little algebra of subsequences (`Ranks` to `Sublist` in `PruneProofs`, `Replacing`), and for
shapes that two paths that define one make it contested (`Contested`). For the lock, `Locks`
says that who holds it is at a step that does not wait.

The constants have the assumptions their modules state: the tasks are a tree, the workers are
finite, `Null` is no block, the walk of a file reports that file, a session and an editor put texts
into files, bounds are natural numbers. Nothing else is assumed, but for `ToolsFit` where it is
said.

Only model-checked: all liveness, which is out of the prover's reach, and what is computed by
recursion over expressions: `TypeOK`, `MemorySafe`, `NoLeak`, `ComputesMeaning` and
`VerifiedCompiles` of `Ownership`, which speak of the code that `Gen` makes of a body, and
`PrintedMeansBound`, which speaks of what `Parse` makes of what `Show` wrote. They are checked
over bounded inputs and cannot be proved for all with this prover, which has neither induction
over expressions nor recursive operators. `Prune`, `Build`, `McpServer` and `Workbench` are
written without recursion, with those operators as parameters, for that reason.

## 5. Findings

1. A call's forked argument borrows variables that a later argument of the same call, which
   is evaluated before the join, may consume (`codegen/expr.rs:316`). `verify_expr` accepts
   this. Run `RefCountApply`.
2. `oe` and discarded `http` calls drop arguments they have handed to the flusher, which
   drops them too (`codegen/expr.rs:705`, `:658`); `lib/otel.llm:20` does it. Run
   `EmissionHandoff`.
3. A bare variable passed to a function is not duplicated (`codegen/expr.rs:380`) and stays
   available in the caller, so both drop it; `verify_expr` accepts it. Run `OwnershipVerified`.
4. A trap or forked argument built after a move sees a shorter list of variables than its
   indices were counted in (`analysis/verify.rs:328`, `codegen/expr.rs:1083`,
   `codegen/parallel.rs:9`). Run `OwnershipCapture`.

Not runs of their own; the properties name these cases as their premises, or the models leave
them out where said.

Compiler:

* a string parameter its function never uses as one is not recognised as a pointer
  (`codegen/symbol.rs:515`) and is never dropped, which is why `Sound` has its second conjunct;
* routers in different definitions both generate `_rt_loop_1` (`parser/mod.rs:583`), and
  `gen_function` continues an existing LLVM function instead of a new one, so the second
  router runs the first one's routes; the same goes for any two definitions of one name, and
  where the second has more parameters the compiler panics (`codegen/symbol.rs:158`);
* the verifier does not count arguments: a call that passes a template too few makes the
  generator panic (`codegen/expr.rs:406`), or take a variable of the caller for the parameter;
* a field of a template's parameter is verified against every shape and generated with the
  shape that is passed, which may lack it (`codegen/expr.rs:198`); and that shape is inferred
  on the stack that already has the earlier arguments, so a variable that is passed as a second
  argument is given the shape of another one (`codegen/expr.rs:339`);
* a forked argument that moves a variable is verified, and panics in the generator
  (`codegen/expr.rs:116`); so do bit operators on floats (`codegen/expr.rs:79`);
* a handler's De Bruijn indices were counted where the router stands, but its body is moved
  into the loop function, whose variables it then names;
* a field read or written on a value without an inferred shape takes its position from
  whichever shape a hash map yields first (`codegen/expr.rs:185`), and so depends on the run;
* `M` with a tag other than `otel` or `test` drops its definition silently. One tagged `test`
  is verified and then stripped, so that a caller of it does not link;
* an exported function called before its definition leaves an undefined private symbol
  (`codegen/symbol.rs:23`); a function used as a value before its definition makes the generator
  panic; a template must precede its use, and a recursive one is expanded without end;
* a shape that is imported or not exported, and used only to read a field of a parameter, is
  pruned, and the verifier then reports a field it does not know (`analysis/mod.rs:351`).

MCP server:

* a patch prints the whole file again: comments are lost, and so is the meaning of the six
  texts of `Clean` and of names that are captured (`display.rs:55`);
* a file that is deleted keeps its entries, a file reached by two paths has two sets of them,
  and a shape that two files define disappears when either is analyzed again;
* of two patches of a file at a time one may be lost, and because `fs::write` truncates first,
  a build or an analysis may see an empty file, which is a valid one;
* the fingerprint by which functions are compared maps many operators to one (it is left out).

Runtime:

* what `Unwinding` names above: tasks that are never done, that exit the process past a trap
  of their parent, or that run without their environment; span contexts that stay wrong;
  handles of JSON values that are not registered where they are used.

## 6. Not modelled, and what is left

Left out for good, as there is no state between calls or no interplay for a model to find:
the characters of the lexer, the signature files, LLVM IR and OpenCL kernels; the HTTP server,
whose connection belongs to one thread and whose difficulties are in the bytes and in
picohttpparser; the HTTP client, TLS, crypto and the database drivers, which are calls into
libraries; files, strings, time and money, which are sequential; the lazy load of OpenCL, a data
race inside `dlopen`; the test harness, whose runs are other processes; the MCP tools that only
read the index. `malloc` and `pthread_create` failing are not modelled where the code does not
look at the result. What is hard to test in these parts: the parser is told how much of a buffer
it has seen before a body is complete (`http_server.c:244`); a failed `accept` is used as a
request (`http_server.c:177`); a database error outlives the next success (`db.c:67`); two
tasks may load OpenCL at once (`opencl_dispatch.c:11`); two test runs of one process share a
directory (`testing/mod.rs:358`).

In the modelled parts, the message of a panic, the accessors of JSON, the builtins that treat
their operands as `cat` or `len` do, `llm_alloc` and `llm_drop_soa`, the fingerprint, the
forked operand of an arithmetic operator, who owns what a template is passed, and definitions
that have the name of a runtime function are left out.

Every safety property and every refinement of a module that does not use the recursive ones is
proved. What is left is to show, with a prover that has induction over expressions, that the
operators of `Parser`, `Printing` and `Names` meet `ToolsFit`, and the properties of `Ownership`.
