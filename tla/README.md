# Verification of the `supplementary` packages

The repository is a collection of ROS packages for a robot soccer team: supervision of the processes
on each robot with its operator displays, a configuration reader, synchronisation helpers, a
constraint solver with automatic differentiation, and a few utilities. This directory holds TLA+
modules translated from the source, the TLC configurations that check them on small instances, and
proofs that the TLA+ proof system checks for every value of the constants.

`PROJECT.json` maps each definition to the lines it stands for, lists the runs, for each property a
mutation of the code that breaks it, the hazards and the findings.

## 1. The system

| Component | State it keeps | Operations | Works with | What is hard | What makes it correct |
|---|---|---|---|---|---|
| process_manager: one executable (`ManagedExecutable`) | desired run state and parameters, managed pid, what was read of the running process, queue of pids, two log publishing threads | commands, `update`, start, kill, adopt, read `/proc`, publish logs | main loop, ROS thread, publishers, the operating system | no lock between the command handler and `update`; processes die, are started by hand, exec and exit late | START and STOP are fulfilled; no surplus process is overlooked, the kept one never killed; the main loop never blocks |
| process_manager: dispatch (`ProcessManager`, `ManagedRobot`, registry) | maps of robots and executables, arguments, subscription | route a command, create on first use, scan `/proc`, iterate, report, crash, restart | all managers share one topic; reports go to the displays | commands for several machines on one topic, a bounded queue, restarts that forget everything | each manager acts on its own commands only, the last one wins, what was wished survives a restart |
| pm_control | message queue, map of managers, robots, executables, each with a time stamp | receive, refresh, time out, select a bundle, click | process managers (reports in, commands out) | lost and late reports, time-outs on three levels | what is green ran a moment ago; in the end the display shows what runs |
| robot_control (`RobotsControl`, `Robot`) | two message queues, one entry per robot with the controls of pm_control and the plan of its ALICA engine | receive, refresh, time out, toggle | process managers, ALICA engines | two queues feed one time stamp; unknown robots | nothing is shown of a robot that is silent |
| event_handling (`AutoResetEvent`, `Timer`, `NotifyTimer`) | flags, condition variables, threads | set, reset, wait; start, stop, destroy, fire | their owners' threads | lost and spurious wake-ups, destruction while a thread runs | no wake-up lost, one release per set, destructors return, no call afterwards |
| system_config (`Configuration`, `SystemConfig`) | tree of configuration nodes, map of loaded files | load, serialise, get, set, change of host name | everything reads it | two threads load the same file; a path search with recursion inside a loop | `get` returns the value at the path; what is stored is read back; pointers handed out stay valid |
| constraintsolver: SAT | clauses, watches, trail, decision levels | add clause, propagate, analyse a conflict, backjump | SMT loop | bookkeeping across backjumps | agrees with the definition of satisfiability |
| constraintsolver: SMT loop, gradient | formula, ranges, best point | transform, propagate ranges, descend | SAT, intervals, autodiff | time limits, negated terms | a model satisfies the formula |
| constraintsolver: intervals | range of every variable | propagate up and down | SMT loop | zero and infinite bounds, cycles | no solution is cut off; the work list empties |
| autodiff | term DAG, compiled tape | build, simplify, differentiate, compile, evaluate | constraintsolver | shared subterms, order of the tape | a rewritten or compiled term has the value of the original |
| alica_client, cnc_geometry, fsystem, system_util, udp_proxy_generator | little or none | display, geometry, file names, logging, text generation | – | – | – |

Processes and displays interact by messages only. Inside a process manager the main thread, one ROS
callback at a time (four spinner threads, but a single subscription) and two log publishers per
executable share fields without locks. Inside a display a ROS thread fills a queue under a mutex and
the refresh timer empties it.

## 2. Modules

| Module | What it is |
|---|---|
| `ManagedExecutable` | one executable; every read of a field that another thread writes is a step |
| `Supervision` | the abstract promise of a manager for one executable |
| `ManagedExecutableProofs` | theorems about `ManagedExecutable` and the refinement of `Supervision` |
| `ExecutableRegistry` | constants shared by managers and displays |
| `ProcessManager` | the managers of a team: topic, queues, dispatch, iterations, crash and restart |
| `ProcessManagerProofs` | theorems about `ProcessManager` |
| `PMControl` | the display pm_control as data and handlers |
| `Control` | managers, display, operator and time, composed |
| `RobotsControl` | the display robot_control, on top of the controls of `PMControl` |
| `DisplayProofs` | theorems about `Control` and `RobotsControl` |
| `AutoResetEvent`, `Timer`, `NotifyTimer` | the three synchronisation classes |
| `CNSat` | the conflict driven SAT solver |
| `CNSatProofs` | the invariant of `CNSat`, and theorems about it without a theory |
| `CNSMTGSolver` | the loop between SAT solver, interval propagation and probing, on top of `CNSat` |
| `CNSMTGSolverProofs` | theorems about the loop, on top of `CNSatProofs` |
| `TermHeap` | the nodes that terms are made of |
| `Terms` | terms of autodiff: builders, negation, derivation, constant folding |
| `CompiledTerms` | the compiler of terms and the sweeps over the tape, on top of `Terms` |
| `FormulaTransform` | from a constraint to clauses, on top of `Terms` |
| `Propagators` | the visits of interval propagation, for every class of node, and the loop over the work list |
| `Intervals` | propagations of the terms of `Terms`, one after the other: parents, reset, ranges |
| `GSolver` | gradient descent: `GSolver`, `CGSolver` and the probing of `CNSMTGSolver` |
| `NumericProofs` | theorems about `GSolver` and `Propagators` |
| `FoldFacts` | lemmas about left folds and about numbers, which the other proofs share |
| `Configuration` | one configuration file: parser, queries, `set`, `store` |
| `SystemConfig` | the map of configurations that threads share |
| `LibraryProofs` | theorems about the synchronisation classes and the map of configurations |
| `MCManagedExecutable`, `MCFleet`, `MCControl`, `MCEventHandling`, `MCSolver` | instances for TLC |

**ManagedExecutable.** `pc` is where the main thread is inside `ManagedExecutable::update`. The ROS
thread writes `desiredRunState` first and `desiredParamSet` last (`ChangeDesiredRunState`,
`ChangeDesiredParamSet`), so a command is two steps with `inFlight` in between. A branch of `update`
is cut wherever it reads one of these fields again: lines 106 (twice), 127, 128, 172 and 431. The
operating system gives out pids; a process is `hidden` between fork and exec (its command line still
is the manager's), `up`, or `dying` after SIGTERM. Three constants choose the environment: `Crashes`
(processes may exit on their own), `Prompt` (exec, exit and the end of a publisher take less than an
iteration) and `Interleaved` (commands may arrive during an iteration). With `Interleaved = FALSE`
commands arrive while the main thread sleeps, which it does for most of each second. `CommandParams` are
the parameter sets commands name, registered or not: nobody tests that before `startProcess` looks one
up, and an unknown one ends the main thread and with it the manager (`LookUpThrows`).

**ProcessManager.** Here an iteration is one step, as the interleaving inside is the subject of the
module above. `commandQueue` is the subscription's queue, `todo` the calls `handleProcessCommand`
has still to make; the main loop may run between two of them. At most one process per executable and
ROBOT variable runs on a machine, and only managers end processes, so the module is silent about
what the module above says of several processes and of crashes. `wish` and `commanded` are history:
what the last message for an executable said. An iteration in which an update throws (`Throwing`) ends the
manager after it has updated the executables before that one in the order of the maps (`runThrows`).

**PMControl, Control.** Times are ages in seconds, capped at one more than the time-out, the only
comparison the code makes. `Iterate` is one iteration of a manager including its report, which
arrives or is lost; `Refresh` is the 200 ms timer; `ControlTick` is a second. A manager iterates once
a second because `run` sleeps for the rest of its iteration time.

**RobotsControl.** The same ages, two queues, and one time stamp per robot that messages of both
queues write, the statistics first. A sender reports about itself. A message of a robot without an
entry makes the refresh end the display (`crashed`), since the code dereferences the null pointer
`operator[]` has just created; `ReopenRobots` is the operator who loads the plug-in anew.

**AutoResetEvent, Timer, NotifyTimer.** One action per statement that touches shared state. A wait on
a condition variable is test of the predicate, block, wake: notifications reach only who is blocked,
and wake-ups may be spurious. The classes share nothing, so one run covers the sum of their state
spaces (`subject` picks the class).

**CNSat.** One step per turn of the loops of `solve`: a visit of a watcher in `propagate`, a
reason in `resolveConflict`, a decision, a backjump. `db` keeps every clause with the list that holds
it; `satisfied` are the flags that backtracking clears by its own rule, not by the truth of a
literal, which is one of the things checked. The decision heuristic is any literal the code may
choose: its activities only order them. `FreshSeen` are marks an uninitialised `Var::seen` may
hold; the history `clean` remembers that no analysis so far began with one of these. `SatAssumption` says
which formulas are looked at: no clause is empty, which `addBasicClause` refuses, and none names a
variable twice, which `Clause::addChecked` is there for but does not always see to (see Findings). `Learn`
has both outcomes of `addSATClause`, the refusal of a fact that contradicts a locked variable included
(`Refuted`, `GiveUp`). `SatSpec` is the solver on its own, without the answers of a theory.

**CNSMTGSolver.** Adds to `CNSat` what happens when `solve` asks the theory: interval propagation
of the trail, the search for offenders, probing, the clauses that come of a refusal, time-out and
restart. The real variables are one variable over a few points; a constraint is the set of points it
holds at. The history `stood` remembers that no fact has been set anew. The ranges of `IntervalPropagator` are shared pointers and stay narrowed, as in the code.

**Terms, CompiledTerms, FormulaTransform.** The heap of nodes with sharing and with rewriting in
place. A double is a number modulo a prime: this keeps the laws of a field, so that a wrong sign, a
dropped operand or a wrong chain rule shows, and has no rounding. A comparison keeps its negation and
its negation keeps it (`negatedform`), as `LTConstraint::negate` and `LTEConstraint::negate` do: a term
that is negated twice is the term itself, and an atom and its negation have one variable in the clauses
of `FormulaTransform`. `Ordered` is a comparison that is there from the start, so that a formula may
name it several times. Transcendental functions are
uninterpreted (`StandIn`). `Dual` evaluates a term together with its gradient by the chain rule, and
is the definition to which folding, derivation, compilation and both sweeps are compared. Tapes with
an abs, an atan2 or a reification, whose weights in the code are no derivatives (see Findings), are
compared by value only (`HasSlope`), and only terms whose derivative the code builds rightly are
derived (`Derivable`).

**Propagators, Intervals.** A visit (`Down`, `Up`) is one function of intervals, work list and node, as
the visitors are called one after the other on the first node of the list (`PropagateNode`); the
modules are two because `Propagators` has no recursive operator and can be proved about. A double is an integer, one of the infinities or NaN; bounds are rounded outwards,
the smallest positive double is 0 (`Term::min` starts with it), and sums near the largest double are
rounded to it. Propagators whose bounds would not stay integers (exp, log, sin, cos, fractional
powers) are left out, and so is a term that contains one. Some visitors miss their return statement;
they are modelled as if they returned. Classes that are not implemented throw text, which ends the
propagation (`aborted`).

**GSolver.** One variable with five spots; a landscape tells the utility and the slope of a term at
each. Time and the number of evaluations are a free choice wherever the code looks at them. That the
current point, the initial and the final point of a run in `GSolver` are one vector is modelled: the
point a run returns goes on moving. `CNSMTGSolver` copies it, and `FeasiblePoint` shows the difference. `FeasiblePoint` says of a point that
is called a solution that no constraint is violated there; a utility that is not a number counts as
met in the code (see Findings).

**Configuration.** A file is a sequence of lines, a line the sequence of pieces the parser finds in
it, names and texts are atoms. `Reading` is what the parser does to a text with blanks or quotes. A
query ends a behaviour, as it changes nothing. **SystemConfig**: `Find` and `Open` are the two
critical sections of `operator[]`, `BuildPaths` is what lies between them without the mutex. The
change of the host name is one step. Two histories tell how pointers are lost: `overtaken` are the
threads that missed in the map what another one has put there since, `orphaned` those that hold what was
replaced or cleared away.

## 3. Runs

Runs that pass:

| Run | Instance | Shows |
|---|---|---|
| `ManagedExecutableRaces` | 3 pids, 1 parameter set, all environment switches on | `TypeOK`; a fork is due only with registered parameters (`ForkHasParams`); whatever leaves the queue is managed or got SIGTERM (`NoPidForgotten`), and the kept process does not (`ManagedSpared`) |
| `ManagedExecutableCalm` | 2 pids, 2 parameter sets, log publishing | own processes are kept for the right reason (`KeepsRightParams`); CPU times of two processes are not mixed (`CpuOfOneProcess`); `StopFulfilled`, `MainThreadAlive` |
| `ManagedExecutableRestarts` | 2 pids, 1 registered parameter set and commands that also name an unregistered one, crashes, users starting processes | whatever `update` reads of a process it adopts, the fields it writes agree with the last command (`WishRespected`); its assertion holds (`QueueDrained`), the executable implements `Supervision` (`KeepsPromise`), and START is fulfilled by restarting (`StartFulfilled`) |
| `EventHandling` | 3 waiters and 4 sets; 2 condition variables | `NoWakeupLost`, `OneReleasePerSet`, `SetReleases`; a stopped timer fires at most once more (`AtMostOneLateFiring`), a running one keeps firing and a destroyed one returns unless a notification fell into the gap (`RunnerAnswers`); `CallsWhileAlive` |
| `Fleet` | 2 managers (one `-autostart -sim`, one `-sim`), 2 executables, 2 parameter sets, queue of 2, 3 out of 6 commands, one with a parameter set nobody knows, 1 crash or process started by hand | `LastCommandWins`, `NeverKillsWanted`, `StartReaches` |
| `Control` | pm_control: 1 manager, 2 executables (one autostarted), time-out 1 s, 2 clicks, 2 hiccups, 1 crash; robot_control: 1 robot with an entry, 1 without | what is green ran a moment ago (`GreenRan`); in the end the display shows what runs and nothing else (`ShowsWhatRuns`), and a STOP (`StopIsShown`); robot control shows nothing of a silent robot (`NothingStale`) |
| `Solver` | see below | the algorithms, each behaviour about one of them |

The parts of `Solver`:

| Subject | Instance | Shows |
|---|---|---|
| `CNSat` | 4 formulas in 3 or 4 variables: all sign patterns, all but one of them, contradicting facts, a chain with several reasons per conflict; any marks of two variables left by memory; `reduceDB` every 3 decisions | the answer is right (`AnswerRight`), learnt clauses follow (`LearntFollows`), the trail explains itself and misses nothing (`TrailRight`), `solve` returns (`Returns`) |
| `CNSMTGSolver` | 3 formulas, 27 theories over 3 points, with and without intervals | a point that is returned meets every clause (`SolutionFits`); what the propagator refuses is refused rightly (`OffendersClash`) |
| `Terms`, `CompiledTerms` | every term of up to 2 constructors (3 of logic), 1 rewriting, 2 calls of the tape | rewriting keeps the value (`MeaningKept`), the tape has the value and gradient of the term (`GradientRight`) |
| `FormulaTransform` | every constraint of up to 3 builds | the clauses mean the same at every step (`ClausesEquivalent`) |
| `Propagators`, `Intervals` | the same terms, 2 pairs of ranges, one unbounded, 2 propagations in a row | no solution is cut off (`NoSolutionCut`) |
| `GSolver` | 5 objectives, 4 lists of seeds, 3 lists of ranges, all four callers | `FeasiblePoint`, `BestReturned` |
| `Configuration` | 8 files, among them ones that cannot be read | `get` returns the value at its path (`GetIsExact`), what is stored is read back (`ReadBack`) |
| `SystemConfig` | 2 threads, 3 names, 2 hosts, a missing and a malformed file | a pointer is to what the map holds until a late loader or a change of the host name takes it away, and no longer (`HandedOutAlive`) |

Runs that show a disagreement between the code and what is written about it:

| Run | Shows |
|---|---|
| `ManagedExecutableAssert` | START handled between lines 106 and 172 of `ManagedExecutable.cpp` makes the assertion of line 203 fail |
| `ManagedExecutableJoin` | a process whose logs are published crashes and `publishing` stays set; the restart joins the old publishing thread, which nobody has told to end, and the main thread waits for ever |
| `TimerDestructor` | the destructor's notification falls between the runner's test and its sleep |
| `SolverMarks` | a mark left in `Var::seen` makes the SAT solver learn what does not follow and refuse a satisfiable formula |
| `SystemConfigRace` | two threads miss the same name; the second to load it deletes what the first has got |

Eight further configurations are kept beside the runs and are not among the runs of `PROJECT.json`. Each is
checked by hand (`tlc -config X.cfg M`), violates the one property named, and shows that a premise of a
property or theorem is needed, or what a finding of section 5 looks like:

| Configuration | Module | Violated | Shows |
|---|---|---|---|
| `ManagedExecutableStaleParams.cfg` | `MCManagedExecutable` | `KeepsRightParams` | `runningParamSet` survives its process, so a process with other parameters than START named is kept |
| `ManagedExecutableUndone.cfg` | `MCManagedExecutable` | `WishRespected` | a command is handled while `update` is adopting a process: `update` overwrites the run state or the parameters the command has asked for |
| `ManagedExecutableUnregistered.cfg` | `MCManagedExecutable` | `ForkHasParams` | a START with a parameter set that is not registered reaches `startProcess`, whose look-up throws in the main thread |
| `ManagedExecutableSlowStop.cfg` | `MCManagedExecutable` | `StopFulfilled` | a process that execs or exits slowly is taken for one a user started, and STOP is not fulfilled |
| `TimerStart.cfg` | `MCEventHandling` | `StartedFires` | the notification of `start` falls there: a timer with registered condition variables runs and never fires |
| `SolverFacts.cfg` | `MCSolver` | `ClausesSatisfied` | a fact of the theory overwrites a contradicting one, and `solve` returns true with a clause that has no true literal |
| `SolverBestPoint.cfg` | `MCSolver` | `BestPointReturned` | the point `GSolver::solve` returns does not have the utility it reports |
| `SystemConfigMove.cfg` | `MCSolver` | `PointersValid` | a change of the host name deletes what threads hold |

Why the bounds are enough. Three pids give a managed process, a surplus one and a third in any other
condition; two parameter sets give a right and a wrong one, and the code only compares pids and ids
(hence the symmetry). Three waiters are one that is notified, one that overtakes it and one that
still sleeps. Two managers are one a command is for and one it is not for; one runs with and one
without `-autostart`, and a queue of two overflows with three commands (10 in the code). The set of
commands holds the wildcard receiver, several robots, an unknown robot, an unknown executable, an
unregistered parameter set, a malformed list and the logging commands; the clicks of `Control` name registered sets, as a
display offers no others. In `Control` a time-out of one second lies between an age
that is fresh and one that is not; two hiccups lose two reports in a row, or lose one and delay the
refresh. `CHECK_DEADLOCK FALSE` stands only where a system may stop: destroyed timers, used-up sets,
the join that blocks for ever, and the algorithms, which end.

In `Solver` the formulas are chosen so that conflicts need analyses of several steps, backjumps over
more than one level, facts that are learnt and clauses that are forgotten (`ReduceEvery` is 1000 and
`LearntNum` 700 in the code); marks on two variables (`FreshSeen`) are enough for an analysis that skips a
literal of its own clause and for one that skips a literal of a reason; three points give a constraint room to hold, to fail and to clash with
another; `MaxClauses` and `MaxAttempts` stop a theory that keeps refusing. Terms are bounded by the
number of constructors (`MaxBuilds`, `MaxLogic`), which may share operands, and the calls on them by
`MaxChanges`, `MaxCalls` and `MaxPropagations`; the loop that narrows the operands of a sum ends after
`MaxRounds` turns, more than a sum needs here (the theorem is for any number of them); modulo the prime 1009 two
different small values do not coincide by accident. A descent takes `MaxIter` steps of at most `MaxStep`
spots, which crosses the landscape, and `MaxBad` refusals in a row; `ExtraRuns` and `MaxFree` bound
the runs a caller adds. `MaxEdits` is one change of a configuration, `MaxLoaded` the loads of a
process: one each, and one more for a race.

What the properties presuppose. `AnswerRight` and `TrailRight` say nothing once a fact was
overwritten (`FactsStand`; `SolverFacts` shows why). `LearntFollows`, and `AnswerRight` of the answer
false, say nothing once an analysis began with a mark that memory had left (`clean`; `SolverMarks` shows
why). `SolutionFits` says nothing when a refused constraint was
compiled as the one that is wanted. `ClausesEquivalent` says nothing about formulas with the constant
`Term::FALSE`, which is positive. `NoSolutionCut` is about points whose values fit the intervals every
node starts with, some of which a reset leaves as they were, and about propagations that never
multiply 0 by an infinity. `HandedOutAlive` names the two ways to lose a pointer and says that there is
no other; `PointersValid`, which `SystemConfigRace` and `SystemConfigMove` refute, is what a caller would
wish. `GetIsExact` is about paths that exist in trees whose sections have
children of different names. Each of these is the exact condition under which the code is right; what
happens without it is a finding or a hazard.

Fairness. Threads of the program are scheduled (weak fairness of each thread's steps), exec succeeds
or fails in finite time, a process with SIGTERM ends. `SearchProcFS` gets strong fairness: the main
thread is woken by a timer, and a stream of commands, each over in microseconds, does not hold it
back. In `Control` seconds pass, managers iterate and the display is refreshed; the hiccups are
bounded in number, so that "in the end" means after the last of them. Nothing is assumed of
operators, users or crashes: properties speak of "for good" in their premises instead. `RunnerAnswers`
has the premise that no notification fell into the gap `TimerDestructor` and `TimerStart` show. The SAT solver keeps
running (`WF` of `SatTurn`), as a single thread does.

## 4. Proofs

For every set of processes, parameter sets, waiters, threads, names and files, from the named
assumptions on the constants:

- `TypeCorrect`: `TypeOK` is inductive; one lemma per thread, one step per action.
- `ForkAlwaysHasParams`: commands that name registered parameter sets are its premise, which the code
  does not see to (`ManagedExecutableUnregistered`). `ForkInv` adds that in the states before
  `desiredParamSet` is overwritten by `readProcParams` the value to be written is registered. Without it
  the invariant is not inductive: the command handler could be undone with an unknown id.
- `NoneForgotten`, `ManagedIsSpared`: action properties, from type correctness and `SafeStep`, what
  each action does to queue and signals.
- `AssertionHolds`, `WishIsRespected`, `PromiseIsKept`, under `~Interleaved`: `CalmInv` is type
  correctness, what `pc` implies about the fields read so far (`AtPoint`), and the agreement of the
  fields with the last command (`AsCommanded`). `PromiseIsKept` maps `kept` to `managedPid` and
  shows that each action is a step of `Supervision` or a stutter. The assumption is needed:
  `ManagedExecutableAssert` is the counterexample without it.
- `OwnInvariant`, `TimesAreOfOneProcess`, `RightParamsAreKept`, under `Undisturbed` (no crashes, and
  users start nothing) and `Prompt`, the last one under `~Interleaved` as well: `OwnInv` says that the
  managed process lives and that the parameters and times read are its own (`OwnProcess`), and that
  the queue is what runs until `update` has decided whom to kill (`OwnQueue`); so no iteration meets
  another process in place of its own. The assumptions are needed: `ManagedExecutableStaleParams`
  breaks the agreement of parameters by a crash, `ManagedExecutableSlowStop` the one of queue and
  processes by a slow exec or exit.
- `WakeupsAreKept`, `SetReleasesOne`, `StopIsPrompt`: `EventInv` is the conjunction of the type
  invariant and both properties; `LateInv` ties the number of firings after `stop` to where the
  runner is.
- `CalleeIsAlive`: `CalleeInv` says that `running` can be set only once the constructor is through,
  so a thread that has read it finds the callee.
- `PointersAreAlive`: for any threads, names and files, races and changes of the host name included.
  `RegistryInv` says that who holds what the map does not is in `orphaned` and the other way round, that
  nothing that is held or in the map is newer than the newest load, and that a thread still loading a name that is in the map is
  in `overtaken`; so the second critical section replaces something only when such a thread enters it.
- `FleetInvariant`, `LastCommandAlwaysWins`, `WantedIsNeverKilled`: `FleetInv` says what a manager
  remembers of each executable (`MemoryInv`: what it read of a process, or manages, is there and is
  as it read it) and how that agrees with the last command (`WishInv`). `LastCommandWins` speaks of
  managers with an empty queue only and is not inductive. `Obeys` adds: the last command for an
  executable that waits in the queue is the wish; when none waits, the last call for it that
  `handleProcessCommand` has still to make is; when there is neither, the fields agree with it. An
  executable nobody asked this manager about is left as it is found (`Untouched`): what runs of it may be
  what an earlier manager was asked to start.
  `WantedIsNeverKilled` is the action property, from the same invariant; it covers restarts.
- `RobotsInvariant`, `RobotsNeverShowStale`: in `RobotsInv` no time stamp robot control holds, and
  no message in either queue, is younger than the last message of its robot. `ControlInvariant`,
  `GreenAlwaysRan`: `ControlInv` adds to `FleetInv`, which an operator's clicks keep as well, that no
  report that waits and no stamp of the display is younger than the run it tells of. `LastClickWins`
  is `LastCommandWins` under such an operator.
- `DescentInvariant`, `ProbeIsFeasible`, `SolveReturnsBest`: `DescentInv` keeps a descent within
  limits that are not empty, ties the best utility of a probe to the point it was measured at, and
  every kept result to having been usable. It promises nothing of `existsSolution`, whose limits the
  code intersects wrongly (see Findings).
- `SolutionsStay`: a valuation of the nodes of a term, each of which has the value that follows from its
  operands (`Valued`), and which fits the intervals a propagation starts from (`Started`), stays within
  all of them, and the propagation never calls the term unsolvable. It is what `NoSolutionCut` samples,
  for terms of any size and sharing, all ranges, and every order of the work list; the values are whole
  numbers up to half the largest double, so that a sum of them is one. The proof has a lemma for each
  class and direction (`DownSumKeeps`, `UpProductKeeps`, ...): the bounds a visit computes lie on their
  sides of the value. Products and quotients need that a product of two ranges is between the products
  of the bounds (`Corners`, `RatiosAround`); powers that they are in the order of their bases, cut off at
  infinity, and that a negative base changes at most the sign (`PowerInOrder`, `PowersOfNegative`); roots
  that the root rounded up and the one rounded down are on either side (`RootsAround`). Where the code makes NaN of a
  bound (a root of a negative number), the lemma shows that the comparison fails and nothing changes.
  `VisitGrows` shows that nothing undefined is forgotten, which is why one flag is enough.

  The premises say what the code builds: comparisons with a steepness that is not negative, operands
  of a conjunction or disjunction that are constraints, a utility of at least 1 (where its
  interval starts). Exponents below 2 are excluded. For exponent 1 the visit of a power is wrong: it takes
  the roots of the bounds for magnitudes (`DownwardPropagator.cpp`, lines 115 to 124), so that [-8, 1] and
  a base of at most 0 give a base of at most -1. A first power comes of a derivative, or of folding a power
  of a power; the terms that `Intervals` propagates hold squares only.
- `FoldFacts` proves what a left fold over a sequence computes, from its definition in the community
  modules, for the folds of the managers, the displays, the descent and the intervals; and induction on the natural
  numbers for a set, since the library's rule, whose parameter is an operator, cannot be used.
- `SatInvariant`, `LearntFollowsAlways`, `TrailRightAlways`, `AnswerRightAlways`, `NeverCrashes`, about
  `SatSpec`: for every formula, every order of decisions and every choice of clauses to forget. The
  parts of `SatInv`:
  - `TrailInv`: the trail names each variable once, the levels cut it into segments, and each variable
    has the level of its segment; `ReasonInv`: the reason of an implied variable is a clause with that
    literal true and all others false, earlier and at no newer level.
  - `WatchersInv`: a false watched literal is backed by the other one, which is true and stays so as
    long as this one is set, or a visit of it is still due (`Pending`). This is what makes two watched
    literals enough although a jump back restores none of them, and it is why the level of the true
    literal has to be part of it. `FlagInv`: a clause that is flagged as satisfied has a true literal
    among those it watches, so the flags that backtracking leaves are right.
  - `Sound`, `FactsInv`: every clause, and every variable set on the first level, follows from the
    formula. `AnalysisInv`: the literals collected so far and those still marked on the way down the
    trail cannot all be false; so what is learnt follows, and there is always a marked variable left to
    walk to (`NeverCrashes`). `AddingInv`, `UnitInv`, `VisitInv`, `AnswerInv` tie clauses of one
    literal, the place of propagation and the answer to these.

  The code does not see to it that the marks `seen` are clear at first (see Findings), and the theorems do
  not assume it. The trail, the answer true and the absence of crashes do not depend on marks: one that
  memory left makes an analysis collect fewer literals and count fewer variables of the newest level, never
  more, so it still ends at a marked variable that has a reason. What is learnt, and so the answer false, is right as
  long as no analysis began with such a mark (`clean`); the invariant compares with the models of the
  formula while `clean` holds and with nothing after that (`Sure`). The premise says nothing of marks the
  analyses themselves leave; that they leave none is part of what is proved (`MarksInv`), and without marks of
  old none stands between two analyses (`MarksAreTakenBack`). `SolverMarks` shows that the
  premise is needed.

- `SmtInvariant`, `SolutionFitsAlways`, `SmtSearchRight`, `OnlyNoResultCrashes`, `OffendersClashAlways`,
  about `SmtSpec`: for every formula, every finite set of points and every theory on them. `SatInv` is
  stated so that it serves both solvers; with a theory, clauses enter in the middle of a search, when
  the assignment is complete or a conflict is on, and `solve` may start anew with the clauses it has
  kept. `SmtInv` adds:
  - `PrefixInv`: the unit decisions `solve` falls back to are the beginning of the trail, and each is
    the variable of a clause of one literal that survives a new attempt. Without it a restart could
    leave a variable set for which there is no reason left.
  - `MetInv`: the point gradient descent found meets every decision on the trail, from the moment it is
    found to the answer, unless a refused constraint was compiled as the one that is wanted.
  - `MarksInv` once more: a theory touches no mark.
  - `OutcomeInv`: there is an answer exactly when the loop has ended, and the only thing that crashes is
    the dereference of a result that was never given (see Findings).

  `SolutionFits` follows: each clause has a true literal, which the trail holds and the point meets.
  `OffendersClashAlways` is an action property: within the ranges of the call no point meets all that a
  clause of the interval propagator forbids, since what `RangeAfter` cuts off it cuts off for a decision
  the clause names.

  The theorems are about every behaviour of `SmtSpec`, as long as no fact has been set anew in it so far
  (`stood`). After that the solver is wrong, which `SolverFacts` shows.

Only model-checked:

- Everything under fairness (liveness and `ENABLED` are out of the prover's reach): that START and STOP
  are fulfilled, that the display shows what runs in the end, that `solve` returns, that destructors
  and waits end.
- What is about terms and trees: `MeaningKept`, `GradientRight`, `ClausesEquivalent`,
  `GetIsExact`, `ReadBack`. Their modules define values of terms, or of paths in trees, by recursive
  operators, for which the prover has neither a backend nor an induction rule. So does `NoSolutionCut`
  as it is stated; `SolutionsStay` says the same of a valuation that is given, and leaves to TLC that the
  reset, the order of the first work list and `Dual` make one (`Intervals`).
- With a theory, the part of `TrailRight` that says propagation has missed nothing; that reasons explain
  the trail is proved with a theory too. Behaviours after a fact was set anew, of which TLC checks
  `OffendersClash`, and `SolutionFits` whenever the facts stand again.

## 5. Findings

Besides the five runs and eight configurations above, met while translating and listed in `PROJECT.json`
with their lines.

Supervision: the message definition calls receiver 0 a wildcard for all managers, the code accepts it
in simulation only, and robot_control sends it until a robot was reported; the example command of the
message definition is rejected as malformed; `==` stands for `=` in lines 91 and 441 of
`ManagedExecutable.cpp`; `isThreadWaiting` counts up only; `addRobot` catches by reference what is
thrown as a pointer; the check box is disabled for a wrong bundle only at the moment of selection; a
message of a robot without an entry ends robot_control; the plan of a dead ALICA engine stays as long
as the process manager of its robot reports.

system_config: the search for a path finds nodes at other paths, which `set` overwrites;
`setCreateIfNotExistent` fails where it should create.

constraintsolver and autodiff: a utility that is not a number counts as a constraint that is met; a clause
read from a file may hold a literal twice or with its opposite, which propagation does not expect, and so
may one of `FormulaTransform`: `addChecked` compares a temporary literal with temporary ones only, and
clones of a clause share their literals; `CGSolver::existsSolution` intersects lower bounds with `min` and hands null
seeds on; a constraint decided FALSE may be compiled as it is; interval propagation narrows the global
ranges for good; the derivatives of atan2 and of the
sigmoid are wrong, the derivative of a constant is a null pointer, and a power of a power is folded
where it must not be.

## 6. Not modelled

- The formatting and parsing of messages, logs and widgets' texts; CPU and memory figures, except
  whose they are.
- `selfCheck`, the matching of command lines (`matchSplittedCmdLine`) and the orderly shutdown of a
  manager. Data races on `std::map` have no defined outcome and are listed as hazards.
- The context menu of pm_control and the optimised build: a compiler may merge two reads of a
  field, which removes interleavings and adds none.
- Rounding and overflow of floating point: the geometry of cnc_geometry, the size of a descent's
  steps, intervals of transcendental functions and fractional powers.
- `rPropOptimizeFeasible` and the solvers' protocols of runs: nothing in the repository sets `optimize`, which the
  constructor of CNSMTGSolver leaves false (line 54), so the optimisation under hard constraints is never entered.
- Lists of values in a configuration entry, loading into an object a second time, directories.
- alica_client, fsystem, system_util: display and input or output without a decision.
- udp_proxy_generator writes C++ and Java from templates; of its code only `checkForCollisions`
  decides anything.

## 7. Plan

1. Lemmas about one step of the compiler, with its operators in a module apart from the recursive
   definitions; that the reset and the first work list start a propagation as `SolutionsStay` presumes.
2. process_manager: the orderly shutdown, with the publishing threads it deletes without a join.
