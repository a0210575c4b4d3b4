# LioNet in TLA+

Specifications of the concurrent core of LioNet (`src/LioNet/`), a C++ library
with an N:M coroutine scheduler on `ucontext`, a logging system and a
configuration system built on change listeners. The modules are translated from
the source; TLC checks them on small instances, and TLAPS proves every safety
property for every instance, and that the scheduler implements an abstract pool
of tasks.

## The system

| Component | State | Operations | Interacts with |
| --- | --- | --- | --- |
| `Scheduler` | `m_fibers` (task list), `m_activeThreadCount`, `m_idleThreadCount`, `m_stopping`, `m_autoStop`, `m_threads`, `m_rootFiber`; locals of `run()` per thread | `start`, `stop`, `schedule` (one task, a batch), `switchTo`, `run`, `idle`, `stopping` | drives `Fiber`, owns `Thread`s; all workers share the list under `m_mutex` |
| `Fiber` | `m_state`, `m_ctx`, `m_stack`, `m_func`; thread-local `t_fiber`, `t_threadFiber` | constructors, `reset`, `call`/`back`, `swapIn`/`swapOut`, `YieldToReady`/`YieldToHold`, `MainFunc`/`CallerMainFunc`, destructor | switches to `Scheduler::GetMainFiber()`; its state is read by other workers |
| `Thread` | `m_id`, `m_thread`, `m_semaphore`, thread-local `t_thread` | constructor (waits for `run`), `run`, `join`, destructor (detaches) | constructed by `Scheduler::start` under `m_mutex` |
| `ConfigVar<T>` | `m_val`, `m_cbs`, static `s_fun_id`, `m_mutex` (read-write) | `setValue`, `addListener`, `delListener`, `clearListener` | callbacks run in the setter's thread under the read lock |
| `Config` | registry `GetDatas()`, `s_file2modifytime` | `Lookup`, `LoadFromConfDir`, `LoadFromYaml`, `ListAllMember` | files that others edit |
| `Logger`, `LoggerManager`, `LogIniter` | level, formatter, appenders of each logger; the `logs` variable | `log`, `setFormatter`, `addAppender`, `clearAppenders`, ..., the listener that applies a configuration | appenders; `ConfigVar` |
| `FileLogAppender` | `m_filestream`, `m_lastTime` | `log`, `reopen` | file system, threads of all loggers that share it |
| `LogFormatter` | `m_pattern`, `m_items`, `m_error` | `init` | `setFormatter` and the listener test `isError` |
| `LexicalCast`, YAML side of the log | none of its own; text and value of a variable, the loggers | `fromString`, `toString`, the casts, `toYamlString` | `ConfigVar`, `LogIniter`; yaml-cpp |
| Locks (`mutex.h`) | the lock; `m_locked` of each scoped guard | constructor, `lock`, `unlock`, destructor of the guards | every component |
| `FSUtil` | the file system | `Mkdir`, `Rm`, `Unlink`, `Mv`, `Symlink`, `OpenForWrite` | `FileLogAppender`, other threads and processes |
| `Env` | `m_args`, `m_helps` | `init`, `add`, `del`, `addHelp`, `removeHelp` | command line; `LogIniter` asks for `-d` |
| `SchedulerSwitcher`, format items, macros | see "Not modelled" | | |

What is hard in it, and what has to hold:

* **Scheduler.** A fiber is off the list while a worker runs it, on it again
  after a yield, and on neither while an event source keeps it. Its worker
  decides which by `m_state` *after* the fiber has switched away, uncounts
  itself *before* the fiber is back in the list, and somebody may wake the fiber
  in between. No task may get lost, none may be on two threads, the counts that
  `stopping()` uses must be exact, the last worker may not leave work behind,
  and `stop()` must return.
* **Fiber.** Two kinds of fibers return to two different places, on a worker and
  on the caller's thread. `t_fiber` has to be the fiber that runs, and every
  context must be resumed at most once and by the right switch.
* **Thread.** `start()` waits, with `m_mutex` locked, for threads whose task
  locks `m_mutex`; the object may be destroyed as soon as its constructor returns.
* **ConfigVar and Config.** Callbacks, assignment and registration are three
  critical sections; the time of a file is recorded before the file is read.
* **Locks and FSUtil.** A guard is unlocked, locked again and destroyed on any
  path, and must give back only what it has. A file operation is several system
  calls, and somebody else may make or remove the same paths between two of them.
* **Conversions.** A value that cannot be converted must leave the variable as it
  was, and what is written must be readable as the same value.
* **Logging.** A logger is reconfigured in many small steps while others log
  through it; an appender is shared by several loggers with different locks.

## Modules

| Module | Models | About |
| --- | --- | --- |
| `FiberState` | `Fiber::State` | the states and the three sets of them the code tests for |
| `Scheduler` | `scheduler.cc`, `scheduler.h`, part of `fiber.cc` | the scheduler with its workers, the application thread and event sources |
| `SchedulerInv` | | the inductive invariants of the scheduler |
| `TaskPool` | | the abstract specification: what a pool of tasks promises |
| `SchedulerPool` | | refinement mapping from `Scheduler` to `TaskPool` |
| `SchedulerProofs` | | theorems about `Scheduler`: types, counters, ownership |
| `SchedulerTaskProofs` | | theorems about `Scheduler`: the tasks, and the refinement of `TaskPool` |
| `Fiber`, `FiberProofs` | `fiber.cc`, `fiber.h` | switches of one thread, and theorems about them |
| `Thread` | `thread.cc`, parts of `scheduler.cc` and `mutex.cc` | handshake of constructor and thread, `start()` and `stop()` around it |
| `Locks` | `mutex.h` | the scoped guards over the locks |
| `FSUtil` | `util.cc` | the file operations, one step per system call |
| `Env` | `env.cc` | the command line and the help list |
| `PrimitivesProofs` | | theorems about `Locks`, `Thread`, `Env` and `FSUtil` |
| `ConfigVar`, `ConfigVarProofs` | `config.h` | variables of one type and their listeners, several threads, and theorems about them |
| `Config`, `ConfigProofs` | `config.cc`, `config.h` | registry, directory loading and the modification-time cache, and theorems about them |
| `LexicalCast` | `config.h` | the casts between text and value |
| `LogYaml` | `log.cc` | the configuration of the loggers, read and dumped (extends `LexicalCast`) |
| `Logger`, `LoggerProofs` | `log.cc`, `log.h` | loggers, their events and the reconfiguration listener, and theorems about them |
| `FileLogAppender` | `log.cc`, `util.cc` | the log file with its three-second reopening |
| `LogFormatter` | `log.cc` | the pattern parser |
| `LogTextProofs` | | theorems about `FileLogAppender`, `LogFormatter`, `LexicalCast` and `LogYaml` |
| `MCScheduler`, `MCConfig`, `MCLogger` | | constants for TLC |
| `MCPrimitives`, `MCLogText` | | several components for one run of TLC |

`MCPrimitives` (`Fiber`, `Thread`, `Locks`, `FSUtil`, `Env`) and `MCLogText`
(`LogFormatter`, `LexicalCast`, `LogYaml`, `FileLogAppender`) put components that
share no state next to each other: the variable `part` says which one a behaviour
belongs to, the others stay in their initial state.

`Scheduler`. One action per stretch of code between two points at which another
thread can see or change something. `pc[w]` is the place of thread `w` in
`run()`: `scan` (about to take the lock), `dispatch` (an entry taken), `user`
(on the fiber's stack), `hold` (in `switchTo`, listed but not yet yielded),
`leaving` (state written, context not yet saved), `ret` (back in `run()`, still
counted), `post` (uncounted, not yet listed), `idle`, `exit`. `caller` is the
place of the application thread in `start()`/`stop()`. The body of a task is
arbitrary: it may yield either way, suspend itself with a plain `swapOut` after
it registered with an event source (`armed`, then `Wake`), spawn, call
`switchTo`, return or throw. Tasks are fibers or functions; `Pool` are the
`Fiber` objects `run()` allocates for functions. `m_stopping` and `m_autoStop`
have no initialiser in the source, so their first value is a constant set.

`TaskPool` knows only whether a task is new, ready, running, waiting or done and
which worker runs it. `SchedulerPool` maps the scheduler's state to it: a task
is *running* while its body executes (`pc` is `user` or `hold`). Once the body
has yielded, registered for its wake-up or ended, the task is ready, *waiting* or
*done*, although its worker still has it in hand while it leaves the stack and
books the task again. The refinement says that these windows are invisible:
nobody else can run the task in them, and nothing in them changes what it is.

`Fiber` abstracts a machine context to the fiber whose code it continues.
`swapcontext(a, b)` stores the code that runs in `m_ctx[a]`, whether or not `a`
is the fiber that runs; that is where nested use goes wrong. `SchedFiber` is
`Scheduler::GetMainFiber()`: the main fiber on a worker, the root fiber on the
caller's thread, none on a thread without scheduler.

`ConfigVar`: `Removing` are callbacks that call into their own variable; the
setter that calls one waits for the lock it holds itself (`stuck`).

`Config`: a document is the sequence of its nodes; what `ListAllMember` leaves out
is passed over when its turn comes (`ApplyNode`). `settled`, `known`, `cached`
and `doubt` are history variables for the properties. `doubt` holds the files
whose recorded time proves nothing: written twice in a second, read by two
loaders at once, or recorded from an `lstat` that failed (`StatGarbage`).

`Logger`: `reconf` is the place of each setter in the listener; each step of it
takes one lock of one logger. `lost` collects events that were accepted and
reached no appender, `overlap` remembers that two setters ran together.
`LogYaml` has the same listener as one function (`Apply`), because there the
question is what a document means, not what happens meanwhile.

`LexicalCast`: a text is the YAML document it is parsed to. The container casts
take their items converted by the cast of the element type, as the templates do,
and `LogYaml` fills its set of definitions as `std::set` does (`SetOf`). The
loggers of `LogYaml` are a function on the names `m_loggers` has: an unknown name
is added by `getLogger`, from the application or from the listener.

`FileLogAppender`: a file is a number; `path` is the file the name stands for
now, which differs from the open one after a rotation. `std::ofstream`, the
file system and the clock are external. `LogFormatter`: one step per round of
the parser's loop, over every pattern up to a length.

`Locks`: a pthread lock is a bit and a count that do not know who holds them, so
that a guard that gives back too much takes the lock away from somebody else.
`m_locked` has an arbitrary value until the constructor sets it.

`FSUtil`: `tree` says what each path names; every system call is atomic and fails
where the tree or `Refused` makes it fail. `stack[t]` are the activations of the
recursive `Rm`. `made` and `gone` record what changed during a call. A thread
whose `OpenForWrite` failed tries again, as `FileLogAppender::log` does.

`Env`: `removeHelp` advances its iterator twice; behind the end of the list its
behaviour is undefined and the model stops (`RemoveBeyond`).

Definitions that follow the words "Mutant of" in a comment are deliberate
mistakes. Each property is checked to fail when its mutant takes the place of
the definition it is a mutant of; they are part of no specification.

## Runs

| Run | Instance | Shows |
| --- | --- | --- |
| `SchedulerPool` | 2 workers, 1 fiber, 2 functions, 1 yield each, symmetry | `TypeOK`, `SwapInPre`, `FiberAsserts`, `CountsExact`, `NoTaskLost`, `RunOnce`, `Ownership`, `LastExitDrains`, refinement of `TaskPool` |
| `SchedulerCaller` | `use_caller`, 1 worker, 2 tasks, 2 yields, tasks meant for the caller; fair | `StopReturns`, `StopDrains`, `EveryTaskRuns` |
| `SchedulerSolo` | `use_caller`, no worker, 2 starts, all values of the flags, a fiber twice in a batch, `switchTo` abroad | `NoTaskLost` |
| `SwitchToTwice` | 2 workers, `switchTo` between them | refutes `SwapInNotExec` |
| `PinnedYield` | 2 workers, tasks scheduled for one of them | refutes `PinHonoured` |
| `Primitives`, `Fiber` | caller's thread, root fiber, 3 children, 2 of them reset | `ThisRuns`, `ContextKept`, `SwitchesSound` |
| `Primitives`, `Thread` | 2 scheduler threads, 2 others, `pthread_create` may fail; fair | `Handshake`, `StartReturns`, `JoinReturns` |
| `Primitives`, `Locks` | 3 guards, a mutex and a read-write lock | `Exclusion` |
| `Primitives`, `FSUtil` | 2 threads, 7 paths, an empty tree and two full ones, one with something that cannot be removed; fair | `MkdirMade`, `RmTruthful`, `MvKeeps`, `OpenedInTheEnd` |
| `Primitives`, `Env` | all command lines of up to 4 words with 2 options, 2 calls for the help list | `ArgsExact` |
| `ConfigVar` | 2 setters, 2 adders, a clearer, 3 listeners, callbacks that throw or call back, 3 sets; fair | `ToldAll`, `IdsUnique`, `IterationStable`, `SetReturns` |
| `ListenerIds` | 2 variables of one type, 2 adders | refutes `IdsUnique` |
| `Config` | 2 loaders, 2 files, 2 edits, 2 loads, one late variable, edits in one second, a file that vanishes | `LoadedOnReturn`, `CacheFresh` |
| `Logger` | 2 threads, 2 setters, root and 3 loggers, 2 configurations, 2 calls | `EventKept`, `FormatterPresent`, `ConfigApplied` |
| `LoggerAppenders` | configurations that differ in appenders only | refutes `ConfigApplied` |
| `LogText`, `LogFormatter` | all patterns up to 6 of 6 kinds of characters | `ErrorExact`, `ItemsFaithful` |
| `LogText`, `LexicalCast` | scalars, vectors, sets and maps of up to 3 items, one text that is no number, two texts of one number | `TextStable` |
| `LogText`, `LogYaml` | documents of one and two definitions of every kind, 3 loggers, 1 change | `DumpRestores` |
| `LogText`, `FileLogAppender` | 2 threads, several troubles within a bounded time | `NotAstray`, `Recovered` |

Bounds. `MaxYields`, `MaxStarts`, `MaxSets`, `MaxEdits`, `MaxLoads`,
`MaxConfigs`, `MaxCalls`, `MaxTime`, `MaxTroubles`, `MaxLen`, `MaxItems`,
`MaxChanges`, `MaxArgs` and `MaxHelps` bound how often something happens, never
what. Two workers and three tasks reach every hand-over
between workers: a fiber taken by the worker that did not run it last, woken
while it is leaving, with a third task to keep a worker busy or idle; one yield
and one suspension are enough because what a fiber leaves behind (its state, its
entry) does not depend on how often it did so before. Two starts are needed for
the root fiber that has ended. Six characters hold two items, or an item with a
format, text and an ending of each kind. In `FileLogAppender` the time runs
past two intervals of three seconds. Three guards are a holder, one that waits
and one that destroys what it no longer has. The paths of `FSUtil` are three
deep, so that `Rm` recurses twice and `Mkdir` makes a directory and its parent;
two threads are enough, as a third could only do again what one of them does
between two calls of the other. Four words hold an option with a value after one
without, with a lone dash between them. Two loaders with two edits meet in every
way two loads of a file can: one during the other, with a version of the file each.
Deadlock checking is off where the program
ends or the bounds run out; `Logger` never stops.

Fairness. `Scheduler!Fairness`: every thread that can take a step eventually
does (threads are preemptively scheduled, `idle` polls and never blocks), the
body of a task comes to its next yield or its end, and an event somebody waits
for happens. Nothing is assumed about the application: it need not call
`stop()`, but continues once inside it. The mutex needs no more than that, as a
critical section is one step; a runner that polls can only be kept from a task
by another runner that takes it, and bodies are finite. `ThreadFairness`
likewise, with tasks that end. `ConfigVar!FairSpec`: a thread inside `setValue` or
`addListener` goes on, and a lock that stays free is given to who waits; calls are
bounded, so that no stream of readers keeps a writer waiting, which
`pthread_rwlock` would allow. `FSFairness`: a thread inside a file operation goes
on, and one that could not open its log file tries again. `EveryTaskRuns` excludes tasks meant for the
caller's thread, which wait for `stop()` by design. No task of these runs
suspends until it is woken: `stop()` does not wait for suspended fibers, and one
that is woken when the workers have left is never run.

## Proofs

`SchedulerProofs`, for any finite set of workers, any tasks and any bounds:

* `TypeCorrect`: `Spec => []TypeOK`. `Types`, the types with integers for the two
  counters, is `TypesHold`. It is not inductive: that `Cur(w)` is a fiber in the
  states in which `run()` uses it needs `LocalsInv` (the locals of `run()` agree
  with its place), which needs `ControlInv` (the application thread and the
  workers agree on who has been started). `TypeOK` adds that the counters, which
  are `size_t`, never go below zero; that follows from `CountersExact`.
* `CountersExact`: `Spec => []CountsExact`, with no assumption on how fibers are
  submitted. Each action changes the set of counted runners by one element, or
  not at all, exactly as it changes the counter; lemmas on the cardinality of a
  set with one element more or less carry the proof.
* `OwnershipHolds`, `SwapInSafe`, `AssertsHold`: under `SingleSubmission` (no
  `switchTo`, no fiber twice in a batch) the invariant `Ownership` holds, and
  `SwapInPre` and `FiberAsserts` follow from it. `Ownership` says that at most one runner
  refers to a fiber (`OwnerInv`), that the list has no duplicates and a fiber in
  it or due to be woken is in nobody's hands, except in those of a runner that is
  leaving it while its state is still `EXEC` (`ListInv`), that what is not yet
  scheduled or allocated is nowhere (`FreshInv`), and which states go with which
  place (`StateInv`). The exception is the heart of it: a fiber can be woken
  before its runner has let go, and the scan's test for `EXEC` is what keeps
  another worker off its stack. The assumption is needed: without it `SwitchToTwice`
  refutes `SwapInNotExec`, which is a part of `SwapInPre`.

`FiberProofs`, for any number of fibers on a worker or the caller's thread:
`ThisIsRunning`, `ContextsKept`, `SwitchesAreSound`, under `Scheduled` (there is a
scheduler, whose fiber is the thread's main fiber or its only `use_caller` fiber;
`swapIn` is called by its loop only, and only fibers made for `swapIn` are
reset). The inductive invariant `SwitchInv`: `t_fiber` is the fiber that runs;
the main fiber, the running fiber and, below a child, the scheduler's fiber are in
state `EXEC`; the context of every fiber that does not run is what its state
says; and a fiber was made with the entry function that leads back to where it is
resumed from. A `use_caller` fiber may be called after its end, as `Scheduler::stop`
does: then `never reach` is reached, and `SwitchesSound` says that this is the only
way to it. A fiber may also leave with a plain `swapOut` (`Suspend`); `run()` then stores
`HOLD` (`Hold`).

`SchedulerTaskProofs`, for any workers, tasks and bounds:

* `NoTaskIsLost`: `Spec => []NoTaskLost`, with no assumption on how fibers are
  submitted; it holds even where `SwapInPre` fails. `NoTaskLost` alone says
  nothing about a fiber that `run()` is about to forget. `EndInv` does: a fiber that
  comes back neither yielded nor ended is on its way to a runner elsewhere, in the
  list, at an event source or in the hands of somebody who will execute it.
  `FuncInv` adds that `func_fiber` belongs to one runner and is empty whenever a
  function is put into it, so that no function is overwritten, and `KeptInv` is the
  conclusion, on fibers and functions.
* `LastRunnerDrains`: `Spec => LastExitDrains`, under `Unpinned` (nobody asks for a
  particular thread). A runner leaves after a scan that found nothing to take.
  What it could not take was in state `EXEC`, and by `ExecInv` such a fiber is in
  the hands of another runner, which is therefore still in `run()`. With pinned tasks the
  property is false: their thread may be gone (see below).
* `RunsOnce`: `Spec => []RunOnce`, under `SingleSubmission`. `OnceInv` extends
  `Ownership` from Fiber objects to functions (`FuncOnce`), to what has ended
  (`DoneInv`) and to what a Fiber object contains (`InsideInv`).
* `PoolImplemented`: `Spec => ImplementsPool`, under both. Initial states map to
  initial states and every action of `Scheduler` to one action of `TaskPool` or to a
  stutter. The window between the yield of a body and its new entry in the list
  is a stutter because of `Ownership`; the exit of the last thread maps to that of
  `TaskPool` because of the argument for `LastRunnerDrains`.

`ConfigVarProofs`, for any threads, variables, values and listeners:

* `SetValueTellsAll` (`ToldAll`) and `WalkUndisturbed` (the action property
  `IterationStable`), from `SetInv`: the lock of a variable and the places of the
  threads agree (`LockInv`), a callback is registered by one thread and once
  (`FreshInv`), and the loop has called what it has passed (`WalkInv`).
* `ListenerIdsUnique` (`IdsUnique`), under `OneVar`: there is one variable of the
  type. `ListenerIds` refutes it with two. `IdInv`: ids in the map are below
  the counter and belong to who stands there.
* `IdsFit`: the ids given out are at most as many as the listeners, so that the set
  of ids of the model is no restriction (`FitInv`).

`ConfigProofs`, for any files, documents, variables, loaders and writes:
`CacheIsFresh` (`CacheFresh`) and `LoadedWhenReturned` (`LoadedOnReturn`), under
`OneHome` (each name is in one file, once; with two values for a name the last
applied wins, whatever it is). `CacheInv` says what a record of a
modification time is worth: if it is beyond doubt and current, one loader at most
is at the file; it has still to apply a suffix of what is on disk, and what
comes before is applied (`Halfway`); if nobody is at it, all of it is applied.
A file that a call has passed and that nobody wrote since has a current record.
`Config.cfg` satisfies `OneHome`.

`LoggerProofs`, for any loggers, threads, setters, configurations and calls of the
application:

* `FormattersPresent` (`FormatterPresent`), from `FormatInv`: every logger and every
  appender attached to one has a formatter.
* `EventsKept` (`EventKept`), under `RootLeftAlone` (neither a configuration nor the
  application changes root; otherwise events are lost, see below). `RootInv`: root
  has an appender, and no setter has root before it. `LevelInv` and `EventInv`: root's
  level stays the lowest, and an event on its way has one of the levels, so that root
  accepts it.
* `ConfigurationApplied` (`ConfigApplied`), under `Distinguished`: configured loggers
  are left alone by the application, and `operator==` of `LogDefine` tells
  definitions apart; `LoggerAppenders` refutes it without. `AppliedInv`: as
  long as no two setters overlapped, the loggers the setter has done are as
  defined, the one it is at has its level, its pattern and a prefix of its
  appenders (`JobDone`), and between two calls the stored value is what was asked
  for and every logger is as stored. The number of appenders attached so far is the number
  of those before the current one that are kept, by lemmas on cardinality.

`Logger.cfg` satisfies `RootLeftAlone` and `Distinguished`.

`LogTextProofs`, for text, documents and containers of any size:

* `NeverAstray` (`NotAstray`) and `RecoversInTime` (`Recovered`), for any threads,
  times and troubles. The test of `m_lastTime`, the reopening and the
  assignment are separate steps of threads that share the appender. `StaleInv` says
  why that is harmless: a stream that a reopening would repair has not been reopened
  since the trouble, so `m_lastTime`, and what any thread is about to assign to it,
  are no later, and an event of three seconds after the trouble reaches the write by
  a reopening only.
* `ErrorsAreExact` (`ErrorExact`) and `NothingIsLost` (`ItemsFaithful`), for any set of
  patterns and any table of items; both leave out patterns with `%%`, which `init`
  reads wrongly (see below). `SpellInv`: as long as there is no error, what was
  found and the text not yet pushed spell the pattern up to the place reached.
  `ErrorInv`: the pattern follows the grammar exactly if there is no error yet, every
  name found is in the table and the rest of the pattern, from the place reached,
  follows the grammar. `ItemGrammar` is the heart of it: at a `%`, where the inner
  loop stops is where the grammar says the item ends.
* `TextsAreStable` (`TextStable`): the value of a variable is one its kind of cast can
  give (`CastTypeOK`), and each kind of value is what its texts are read as: a set or a
  map is written with every element or key once, so that `insert()` drops nothing.
* `DumpsAreRestored` (`DumpRestores`), from `LogYamlInv`: whatever documents and calls
  made them, the loggers are in order (`GoodLogs`): each has its own name, levels
  from 0 to 5, a pattern that is neither empty nor in error, and appenders the reader
  of a document accepts, with patterns of their own. That is what makes the way back
  exact: nothing is passed over, and no pattern falls back to that of the logger.

The grammar (`WellFormed`) and `FlattenSeq` are recursive functions. The induction
theorems of the library, which take an operator, are of no use to the provers; that
the order of the numbers is well-founded is, and it gives induction for a
set of numbers (`LeastNat`, `SetInduction`). With it the two functions are shown to
exist and to satisfy their equations (`JoinsExists`, `FollowsExists`), and the
rest is an invariant over the steps of the parser.

`PrimitivesProofs`:

* `LocksExclude`: `LocksSpec => []Exclusion`, for any finite set of guards and any
  locks. `Exclusion` says nothing about the fields of a lock and is not inductive.
  `LocksInv` ties them to the guards: the number of readers is the number of read
  guards that hold the lock (`Holders`, between the return of `lock()` and the call
  of `unlock()`), the bit is set exactly if a write guard holds it, there is one of
  these at most and then no reader. A step of a guard moves it into or out of one
  set of holders and changes the field that counts it; lemmas on the cardinality of
  a set with an element more or less do the rest. The flag matters in one place:
  `unlock()` is a step out of the set only for a guard that is in it.
* `HandshakeHolds`: `ThreadSpec => []Handshake`, for any threads. `ThreadInv`: the
  semaphore is 1 exactly from the `notify` of `run()` to the end of the
  constructor's wait.
* `CommandLineRead`: `EnvSpec => []ArgsExact`, for command lines of every length.
  `EnvInv` describes the loop half-way: which option waits for its value
  (`WaitingInv`), what the others have got (`GivenInv`), and that no value came
  without an option (`ValuesInv`).
* `MkdirIsTruthful`, `RmIsTruthful`, `MvKeepsSource`: `FSSpec` implies `[]MkdirMade`,
  `[]RmTruthful` and `[]MvKeeps`, for any set of paths, trees of any depth, and any
  threads and calls. `FSInv`: the activations of an `Rm` form a chain, each of an entry
  of the directory of the one before (`Chain`); while nobody else removes anything
  and nothing is made below the path, what an activation learned from `lstat` is
  still so, and its loop has still to do, or is at, every entry of its directory,
  unless something there cannot be removed (`Knows`); a `Mv` nobody interferes with
  has its file at the source until it is done (`MvInv`). A step of another thread is
  dealt with once, by what it may do to the tree (`TreeStep`: nothing, a path made, a
  path below its own removed, a rename). The loop of `Rm` overwrites the result of every
  entry but the last; that is harmless because an entry that stays makes `rmdir` fail.

Only model-checked:

* `StopReturns`, `StopDrains`, `EveryTaskRuns`, `StartReturns`, `JoinReturns`,
  `SetReturns`, `OpenedInTheEnd`: they need fairness, which is out of the prover's
  reach.

## Disagreements between the code and what is said of it

Four have a run. `SwitchToTwice`: `switchTo` lists the fiber, its `YieldToHold`
makes `run()` list it again (`scheduler.cc:243`, `168`); two workers take the two
entries while its state is `HOLD`, one swaps it in, and the other comes to `swapIn` a
fiber in state `EXEC`, against `fiber.h:66`. `LoggerAppenders`:
`LogDefine::operator==` compares `appenders` with itself (`log.cc:615`), so a change of
appenders alone is not applied, against `config.h:364`. `ListenerIds`: the counter
of `addListener` is shared by all variables of a type and protected by the lock of
one (`config.h:393`), so that the id returned may be another callback's, against
`config.h:388`. `PinnedYield`: `run()` lists a yielded fiber for any thread
(`scheduler.cc:170`), against `scheduler.h:71`.

Others were met while modelling; the model has the behaviour, and a property
that denies it fails with the constants named:

* `scheduler.h:214`, `scheduler.cc:54`: with an uninitialised `m_stopping` that is
  false, `start()` starts nothing (`StoppingInit = {FALSE}`).
* `scheduler.cc:98`: `stop()` calls the root fiber without a test that it has not
  ended. After start, stop, a new task and start, the second `stop()` of a
  `use_caller` scheduler runs into "never reach" (`fiber.cc:241`; `CallDeadRoot`, which
  `SchedulerSolo` takes).
* `scheduler.cc:139`: a task pinned to a worker that has left keeps the others, and
  `stop()`, for ever (`SpawnPins = Workers`).
* `fiber.cc:149`: a yield on a thread without scheduler follows a null pointer
  (`SchedFiber = None`); `tests/test_fiber.cc` does that.
* `fiber.cc:142`: after a nested `swapIn`, `GetThis` is not the fiber that runs
  (`Nested = TRUE`). `fiber.cc:119`: a fiber made for `call()` and reset ends in the
  wrong place (`Reused` with a caller). `fiber.cc:212`: `MainFunc` returns to the scheduler
  fiber, not to the thread's main fiber as `fiber.h:130` says. `fiber.cc:90`: `m_stack`
  of the main fiber is uninitialised when its destructor branches on it.
* `config.h:377`: two setters leave listeners with a value the variable does not have;
  a listener added between callbacks and assignment is not told of the change.
  `config.h:374`: a callback that calls `setValue`, `addListener` or `delListener` of
  its own variable blocks for ever (`Removing`). `config.h:422`: `clearListener` empties the map under a read
  lock while a setter iterates over it (`DanglingEnd`).
* `config.cc:80`: a variable registered after its file was loaded is not set by the
  next load (`LoadedOnReturn` says so), and an edit within the same second is
  never loaded (`SameSecond`). `config.cc:83`: a second loader returns before the first
  has applied a file, and two loaders can leave the older of two versions
  (two `Loaders`). `config.cc:78`: a failed `lstat` leaves the time it records
  undefined (`Garbage`). The properties leave out just these files (`doubt`). `config.h:473`: the digit 9 is missing from the
  accepted characters, against `config.h:450` (`Accepted`).
* `log.cc:461`: for `%%` one `%` is put into the text, and the parser goes on at the
  second one instead of behind it: the pattern `%%` is refused and `%%m` is a `%` and the
  item `m`, against `log.cc:447`. `ErrorExact` and `ItemsFaithful` leave out patterns
  with `%%` (`NoEscape`); without that the first is refuted by `%%`, and the second would hold of `%%m`
  without its meaning anything.
* `log.cc:744`: an event logged while root is reconfigured is lost (`RootConfigs`).
  `log.cc:276`: an appender that got its formatter from its logger no longer follows
  it. `log.cc:396`:
  after a failed write the file is never reopened (`Stuck`).
* `log.cc:700`: the level of an appender is written to a configuration and never
  read from one (`DumpRestores` says so).
* `log.cc:721`: two setters of `logs` at once mix their configurations (`overlap`).
* `util.cc:131`: the loser of a race between `access` and `mkdir` reports a failure
  although the directory is there; `util.cc:196`: `st_mode & S_IFDIR` takes a socket or
  a block device for a directory, and `Rm` fails on it; `util.cc:222`: `Mv` removes its
  target first, and with it a source that lies below the target.
* `env.cc:91`: with a help text in the list, the next `addHelp` or `removeHelp`
  steps behind its end (`RemoveBeyond`). `env.cc:139`: the pointer that `Lookup` returns
  is followed without a test, and stays null if the variable came later.
* `thread.cc:49`: a detached thread keeps `t_thread` to a destroyed object.
  `scheduler.cc:63`: a `start()` that throws leaves null entries that `stop()` joins.

## Not modelled

* `SchedulerSwitcher` and a `switchTo` into another scheduler: need two
  schedulers in one model. What `SwitchToTwice` shows applies to them: the fiber
  that yields by `YieldToHold` is listed again by the scheduler it wants to
  leave. The destructor of `Scheduler`.
* Format items, `LogEvent`, `LogEventWrap`, `StdoutLogAppender::log`: output
  without state, done by iostreams.
* Documents of the wrong shape for a cast (a map for a vector, a sequence for a
  map): what yaml-cpp does with `node[i]` then is not told apart by any code here.
* `FSUtil::ListAllFile`, `Realpath`, `IsRunningPidfile`, `OpenForRead`, backtraces and
  times: they only read. What `ListAllFile` returns is an input of `Config`.
* `Env`: paths, the environment of the process and the printed help.
* `NullMutex` does nothing. `NullRWMutex` has no user, and its guards, which are
  over `NullMutex`, would not compile.
* Failures of `sem_wait` (`mutex.cc:17`) and `pthread_join` (`thread.cc:56`), which
  throw: they fail only on an object that is not valid. That of `pthread_create` is
  modelled.
* In `Config`, a listener that throws during a load (`config.h:345`, `config.cc:90`):
  `ConfigVar` has what a throwing listener does to its variable, `Config` has
  variables without listeners.
* In `Logger`, the gap between `getLogger` and `setLevel` (`log.cc:730`, `740`): they
  are one step. The gap differs from the time before `getLogger` only in that a new
  logger exists with its defaults, as it does when the application asks for it.
* What a symbolic link points to: `access()` on one may succeed or fail.
* In `LexicalCast`, elements that are no numbers: YAML would read some strings (an
  empty one, one that begins with `#`) differently from how they were written.
* Thread names, fiber ids and counts, stack memory, log texts.
* Weak memory, apart from the remark on `m_state` at the head of `Scheduler`.

## Plan

Done, in this order: `Scheduler` with its abstract specification and proofs,
`Fiber` with its proofs, `ConfigVar`, `Config`, `Logger`, `LogFormatter`,
`FileLogAppender`, `Thread`; then `Locks` with its proof, `FSUtil`, `Env`,
`LexicalCast`, `LogYaml`, callbacks that call back, two loaders, two setters of
the loggers; then the proofs about tasks and their refinement, `ConfigVar`,
`Config`, `Logger`, `FileLogAppender`, `Thread`, `Env` and `FSUtil`; then those about
the conversions, `LogFormatter`, `LexicalCast` and `LogYaml`.

Next, for the model: `SchedulerSwitcher` with two schedulers.

The proofs are complete for what the prover can reach: every invariant and action
property of a passing run is a theorem. What
could still be weakened is a hypothesis: `LastExitDrains` and the refinement with tasks
for a particular thread that is known to stay.
