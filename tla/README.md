# minebtx in TLA+

A verification project for the `dexbtx-miner` program: the Python wrapper that
mines for a Stratum pool by driving a long-running GPU solver process
(`btx-gbt-solve --daemon`). The modules model the program's control flow at the
level of what runs between two `await`s; TLC checks them on small instances;
TLAPS proves the invariants for all values of the constants.

Paths below are relative to `src/` of the repository, `dexbtx_miner/` stands for
`src/dexbtx_miner/`.

## The system

| component | state | operations | talks to |
|---|---|---|---|
| GbtSolveWrapper (`dexbtx_miner/gbt_solve_wrapper.py`) | `_daemon`, `_matmul_params`, `_solver_preempt_capable` | `solve_slice`, `_send_job_with_retry`, `_ensure_daemon`, `_shutdown_daemon`, `force_restart`, `preempt` | the daemon, through stdin, stdout, stderr, SIGUSR1 and SIGKILL |
| solver daemon (`.github/build-patches/btx-gbt-solve.cpp`) | `g_preempt`, the job it works on | `main` (daemon loop), `RunOneJob`, the signal handler | the wrapper |
| solver loop (`dexbtx_miner/stratum_client.py:466-604`) | `_current_job` with the nonce cursor in it, `_inflight_parent`, locals | one slice after another, stale-share guard, cursor write-back | wrapper, notify handler, submissions |
| notify handler (370-407) | `_current_job` | replaces the job, carries the cursor over, preempts | solver loop, wrapper |
| Stratum session (187-365, 606-640, 748-767) | connection, `_pending`, reader task, backoff, `_consec_rejects` | `run_forever`, `_session_once`, `_handshake`, `_call`, `_send`, `_reader_loop`, `_submit_share` | the pool |
| auto-heal watchdog (642-708) | windows, cooldown, streak | `_heal_loop`: trigger A (no result for 90 s), trigger B (8 rejects in a row) | wrapper (`force_restart`) |
| canonical names (`dexbtx_miner/canonical_names.py`) | a cache file shared by the miners of a host | `load`, `save`, `upsert` | the disk |
| metrics, difficulty, extranonce | telemetry, two numbers | `_metrics_loop`, two handlers | the pool |
| wrapper auto-update (`dexbtx_miner/wrapper_updater.py`) | installed package, environment | `maybe_self_upgrade` | the channel, pip, `execvpe` |
| solver auto-update (`dexbtx_miner/solver_updater.py`) | the solver binary | `maybe_update_solver` | the channel, the disk |
| entry point (`dexbtx_miner/__main__.py`) | the process | `main`, `_run`, `_solver_update_watcher` | the updaters, the session |
| hardware, benchmark, config, installer, CI, patches | none that outlives a call | | |

Everything inside one miner runs on one asyncio event loop. The concurrency that
matters is therefore the interleaving of coroutines at their awaits (reader,
solver loop, watchdog, background submissions, update watcher), together with
what lives outside the loop: the solver process with its pipes and its signal,
the TCP connection, the channel, and the processes that crash.

What must hold, by component:

* wrapper and daemon: a slice gets its own answer and ends, whatever the solver
  does; shutdowns by two coroutines, respawns and cancellations lose no process
  (two daemons would share the GPU); a preempt hits the slice it was meant for
  and nothing else.
* solver loop: no nonce range is scanned again after a rotation, slices make
  progress although the pool rotates jobs faster than slices end, no share of a
  dead tip goes out, a slice on a dead tip is told.
* session: an answer reaches the call it is for, never a call of another
  connection; every submission ends; the miner always gets back to the pool; the
  reject streak that bounces the solver is about the session it is counted in.
* watchdog: a solver whose shares are rejected is bounced; bounces leave slices
  time to end; the wrapper's own retries and the watchdog do not chase each other.
* the miner as a whole: whatever a lost session leaves in the solver's pipes, the
  miner gets back to submitting shares the pool accepts.
* names: miners that share the file do not lose each other's names for good, and
  a crash leaves the file readable.
* updates: only builds the channel names and whose SHA matches are installed;
  the wrapper is never downgraded; a broken release does not keep the miner from
  mining; long-running miners converge to what is published; refusals happen
  exactly under the declared floor.

`PROJECT.json` lists the hazards behind these one by one, each at its line.

## Modules

| module | models |
|---|---|
| `SliceService` | abstract: what `solve_slice` promises the solver loop. One request at a time; it is answered with its own result or given up; after a drop the service may be out of step until the process ends; `bounced` says that it has ended and only the slice in flight may still read one line of it. |
| `GbtSolveWrapper` | the wrapper, the daemon, their pipes and signals; implements `SliceService` |
| `SolverLoop` | `_solver_loop`, `_on_notify`, `Job`; the outcome of a slice is an input |
| `StratumSession` | connection, handshake, RPC table, submissions, reject streak, metrics reports |
| `MinerSystem` | the composition: `SolverLoop` and `SliceService` as components, shares on their way to the pool, its verdicts, the watchdog |
| `HealWatchdog` | `_heal_loop` in discrete time, against slices with their timeouts |
| `CanonicalNames` | the names file, written by several miners |
| `AutoUpdate` | both updaters, startup and watcher, `execvpe`, crashes, the channel |
| `MC...` | the instances for TLC |
| `...Proofs` | theorems and their proofs |
| `GbtSolveWrapperRefinement` | the proof that `GbtSolveWrapper` implements `SliceService`, and what rests on the same invariants |

Each variable's comment names the attribute it stands for; each action's comment
names the code. `PROJECT.json` maps every definition to its lines. The
definitions whose comment begins with "Mutant" are not part of a specification:
each is a plausible bug that shows that the property it is paired with can fail.

### GbtSolveWrapper

`pc` is the await at which the coroutine inside `solve_slice` is suspended:
`ensure` (looking for a daemon), `reshape` (shutting down one whose matmul shape
differs), `spawn` (inside `create_subprocess_exec`), `ready` (waiting for the
ready line), `read` (waiting for the answer), `retry`, `backoff` and `abandon`
(`_shutdown_daemon` after a failure, the 1 s sleep, and the exception path of a
ready timeout). `stop[c]` is the process that a running `_shutdown_daemon` of
coroutine c waits for; note that the code reads `self._daemon` again afterwards
(lines 273, 277), and so do `KillDaemon` and `FinishShutdown`. A process has a
stdin queue, the job it works on, the preempt flag and a stdout queue; closing
stdin, hanging, crashing and being killed are separate. A first line on stderr that
is not a ready line, and a ready line without the preempt flag (an older solver), are
taken as the code takes them (`Ready`); what SIGUSR1 does to an older solver is one
of the ways it can die (`Crash`). A kill that finds no daemon any more (`KillDaemon`)
is the `AttributeError` of line 273. `shape[p]` is the matmul
shape on the command line of process p, `params` what `_matmul_params` records,
which is not always the same (`Strayed`). `DropSession` is the
cancellation of the solver task at any await; it leaves the process and its
pipes alone, as the code does.

The job names of a run are reused once no trace of a name is left; the slots of
processes likewise. `MaxStale` bounds how many slices dropped sessions may leave
in the pipes. `Prompt` says that a shutdown whose process is gone resumes before a
spawn is over. Whether that is so depends on asyncio: `wait_for` on a process
that has already exited returns at once in Python 3.12, while in 3.10 and 3.11
it goes through the event loop several times, which is long enough for a spawn
to complete. `pyproject.toml` allows 3.10 and the installer picks 3.11 first.
Only `NoOrphanEver` and the run `wrapper` assume `Prompt`; the run `wrapper_orphan` shows
what happens without it, and `OnlyALateBounceOrphans` that nothing else does. The same schedule, replayed on the real class under Python 3.11 (a
`force_restart` six to eight event loop turns into the respawn after a crash),
leaves an orphaned daemon and a slice that fails with `AttributeError`.

### SolverLoop

The cursor is `job.start`, the code's `_current_job.matmul["nonce64_start"]`.
`Notify` carries it over; `Advance` writes it back onto whatever job is current
when a slice ends. `placed` says whether a job's matmul part has the field at
all (the code's `get(..., 0)`), `seeded` whether `to_solve_challenge` accepts it.
The cursor is followed up to `MaxNonce` and stays there; slices go on.

### StratumSession

`_pending` is a dictionary of futures; the futures themselves outlive its
clearing, so the model has both `pending` (what the reader can resolve) and
`call` (what a coroutine waits for). `requests` and `answers` are the connection.
The pool may answer in any order, refuse, fall silent, drop the connection
with everything on it, and send a line at which the reader raises (`ReaderRaises`). The connection may also be cut without a trace (`link` is
"cut"): the reader then waits for ever, and the only way out is data the kernel
cannot deliver, after which it gives the connection up (`Sends`, "doubted",
`GivesUp`). Submissions are such data; a miner that finds no share has the reports
of `_metrics_loop` (`Report`). `current` and `own` are history: which submissions belong
to this session and how much of the streak they account for.

### MinerSystem

`Loop` and `Service` are instances of `SolverLoop` and `SliceService`; an action of
`MinerSystem` is a conjunction of an action of each component that takes part in
it. `Bounce` (the watchdog) and `Restart` (`solve_slice` itself, for another shape
or a second attempt) both are `SliceService`'s `Bounce`. `GbtSolveWrapper` is represented by the service it is shown to implement in
the run `wrapper`. What the composition adds is the identity of shares: `of[t]` is
the job slice t was asked for, `mail` the shares on their way, each with the job
it is submitted as and the job the daemon found it for. The pool accepts a share
if the two agree and the parent is the tip (`Good`, external); it may reject any.
A bounce does not take away what a killed daemon has
already written: the slice in flight may still read one line of it, hence
`bounced`, which is part of the service.

### HealWatchdog

The unit of time is `heal_check_interval_secs` (15 s). A `Tick` lets all clocks
advance and is allowed only when everything that has its time now has run, which
is how timeouts are both possible and certain. Between two ticks actions happen
in any order, so a clock that shows n has run for more than n-1 and less than n+1
units; a comparison with a threshold may go either way when the two are equal or
one apart (`MayExceed`, `MustExceed`). A slice is followed through the awaits that
take time (`boot`, `read`, `retry`, `error`), a bounce through the up to 5 s of a
shutdown that ignores its stdin and the kill (`heal`). `BounceEnds` writes the
time of the decision, not of the end, as line 701 does. A session that ends
cancels a bounce without recording it. `_last_heal_at` starts as 0.0 on a clock
that counts from the start of the host, hence `since` in `Init`. `dry`, `failed` and
`chance` are history.

### CanonicalNames

A file is a dictionary with entries for a set of GPUs, a torn text, empty or
absent. `fd[m]` says where the descriptor of miner m points now: the code writes
`canonical_names.json.tmp`, whose name all miners share, and a file keeps its open
descriptors when `os.replace` moves it, so a miner can end up writing to the
published file. A write to a file that another has written to in between may
leave the end of the longer text behind the shorter one (`Torn`). `disturbed` is
history: two upserts have overlapped, or a file could not be read, and what came
of it is not over.

### AutoUpdate

`pc` walks through one check: `wrapper`, `pip`, `exec`, then `solver` (manifest
about to be fetched), `resolve` (fetched), `install`, `reexec`. At startup the
miner starts when both checks are over; the watcher runs the same steps while
`up` is "mining". A version or build is a number, in the order of release; a
release in `Broken` has not bumped its `__version__`, so the package it installs
loads as the version before. Every call to the outside may fail, pip may fail
after it has replaced the package, and the process may die anywhere. `calm` marks
a point after which nothing fails and nothing is published; the liveness property
speaks about what happens from there. `bornOf` is history.

## Runs

| run | shows |
|---|---|
| `wrapper` | refinement of `SliceService`, no lost process, preempts hit their slice, daemons get slices of their own shape, only drops leave answers behind, every slice ends |
| `solver_loop` | the cursor loses no ground and rescans none, slices on a dead tip are preempted; progress under rotation |
| `session` | RPC correlation across sessions, every submission ends, recovery from refused, closed and cut connections |
| `system` | shares go out under the wrong job only while the service is out of step; the miner heals |
| `heal` | slices end in bounded time under bounces, bounces leave slices their chance, wedges are bounced |
| `names` | names are kept unless upserts overlap, and come back if they do |
| `auto_update` | verified installs, no downgrade, one upgrade per start, loops with broken releases only, convergence |
| `wrapper_orphan` | violated: `force_restart` is not safe during a respawn without `Prompt` |
| `solver_loop_resume` | violated: after a slice with shares the cursor does not go on where the solver stopped |
| `session_streak` | violated: rejects of the old session count in the new one |
| `system_dead_tip` | violated: after a dropped session shares of a dead tip are submitted |
| `upgrade_loop` | violated: the watcher installs a broken release again at every interval |

The five violated properties are statements of the code's own comments;
`PROJECT.json` quotes each under "findings". The models show more disagreements of
this kind, which have no run of their own:

* `preempt()` may kill a daemon: `_solver_preempt_capable` is the previous daemon's
  while a new one boots, and SIGUSR1 before `std::signal` (btx-gbt-solve.cpp:526)
  ends it, against gbt_solve_wrapper.py:296 "WITHOUT killing it" (`Preempt`, a
  process in state "boot").
* A slice may return another slice's answer, against "one result JSON per job"
  (gbt_solve_wrapper.py:20); `system_dead_tip` shows the consequence.
* A daemon may be handed slices of another shape, against "guards against silent
  consensus drift" (gbt_solve_wrapper.py:191). A bounce that is over before the
  ready line is read leaves `_matmul_params` recorded (line 260) without a daemon;
  the next daemon is started for a slice of another shape and its ready wait
  cancelled by the end of the session; a slice of the recorded shape then passes
  the check at 198 and is written to it. Without the premise `~Strayed` TLC finds
  `SolvesItsShape` violated by these steps; `StraysOnlyByBounce` says that there is
  no other way into them.
* A preempt that arrives before the daemon has read the job is forgotten
  (btx-gbt-solve.cpp:318-321, `TakeJob`), and the slice runs to its end on a dead
  tip, against config.py:80-81.
* A parent change announced with `clean_jobs` false carries the cursor over
  (`Notify`), against stratum_client.py:488-489 "true reset".
* Trigger A may bounce the fresh daemon of a second attempt for the silence of
  the first (`BounceOnSilence` with `attempt` = 2), against 650-651 "while the
  process is alive".
* A solver newer than the floor is refused when a still newer one cannot be
  downloaded (`DownloadFailed`), and one below it is not when the install fails
  (`InstallFails`), against .solver-channel.json:11.
* Exceptions outside the updaters' `except` clauses end the miner at startup
  (`Raises`), against solver_updater.py:227-228.
* The reconnect backoff is never reset (line 191 is not reached, since
  `_session_once` always ends with an exception).

What the passing properties say, and why they could fail:

* `ImplementsSliceService` (wrapper): an answer that comes after the timeout, a
  retry on a fresh process and a bounce by the watchdog all happen while the
  loop waits; none may hand over another slice's answer. It holds because every
  failed attempt ends the process before the next write. A session dropped in the
  middle of a slice is the exception, and `SliceService` says exactly how far it
  goes: out of step, a slice gets the answer of one left behind and leaves its
  own, until the process ends.
* `NoOrphan`, `ShutdownForgetsItsOwn`: two overlapping `_shutdown_daemon` calls
  and a respawn, without the `_daemon_lock` the header speaks of.
* `PreemptHitsItsSlice`: the flag is cleared when a job is taken, so a signal
  that came after the previous slice finished, or that hit a slice left behind, is
  forgotten.
* `OnlyADropLeavesBehind`: a slice has up to two attempts, each on a process that
  may crash, be bounced, hang or answer late; every way out of them has to end the
  process before the pipes are used again.
* `SolvesItsShape`, `StraysOnlyByBounce`: three coroutines write `_daemon` and
  `_matmul_params`, at different awaits; slices left behind on a daemon when the
  shape changes count too.
* `SliceEnds`: with nothing at all assumed of the solver process.
* `CursorNeverBacktracks`: notify copies the cursor while a slice that will
  write it is in flight.
* `NeverRescans`: the position a slice reports is written to whatever job is current
  by then, which has the position of an earlier one; and it must survive slices that
  raise, are given up on or find shares, and jobs that are refused. `frontier` is
  history: how far slices on the live tip have reported to have scanned since the last
  clean notify. The nonces before a share are not counted, since the result that
  carries them has no `nonce_end` (`solver_loop_resume`).
* `DeadTipIsPreempted`: `_inflight_parent` is set, cleared, and left over from a
  dropped session at different awaits.
* `Progress`: slices that end under another job id still move the cursor.
* `AnswerFindsCaller`, `NoAnswerAcrossSessions`: submissions are not cancelled
  with their session and their ids stay in the table until teardown clears it.
* `EverySubmitEnds`, `Recovers`: the reader can end while the handshake waits, or
  wait for ever on a connection that is cut; "in a session" means one whose
  connection works.
* `HandsOverOwnWork`: the loop's stale-share guard looks at the job it asked the
  slice for. That this is the job the answer is for depends on the service being
  in step, and on nothing else: not on when the tip moves, rejects or bounces come.
* `Heals`: sessions may leave the service out of step at any time, even while the
  rejects of the last time are being counted, a reconnect clears the streak, and
  rejects of the old daemon may be counted against the new one. Its premises:
  the tip stands, the pool does not for ever reject good shares, shares are found.
* `EverySliceIsOver`: two attempts of a slice take up to 14 units of 15 s, trigger A
  fires after 6 of silence: it hits slices that are still being retried, and makes
  them start over. They end all the same because the cooldown (20 units) outlasts
  the slice that starts over.
* `ChancePerBounce`: the cooldown begins when the bounce was decided, is not
  recorded when the session ends during it, and may meet the slice in any await.
  It is about the bounces of one session: a bounce cancelled with its session may be
  followed by one in the next, on rejects left over, before a slice has ended.
* `WedgeIsHealed`: the cooldown grows, and every check may find it not over.
* `NamesStay`, `WholeUnlessDisturbed`: kills and failed writes at any point of a
  save; without the temporary file (the mutants) both fail.
* `Relearns`: overlapping upserts do lose names and may publish a torn file (TLC
  shows both); what brings them back is that a torn file is read as empty and that
  the pool names every GPU again.
* `InstallsWhatWasNamed`: the channel may change between fetch and download, and
  the process may die in between.
* `NeverDowngraded`: failed execs leave the package ahead of the running version
  and the channel may go back.
* `UpgradesOnceAtStart`, `OnlyBrokenLoops`: the loop guard lives in an environment
  that is popped, inherited by the exec for a new solver, and lost in a restart; the
  channel goes back and forth meanwhile. `OnlyBrokenLoops` delimits the finding of
  `upgrade_loop`: a release that bumps its version is never installed again by a
  process it has started. It does not speak of restarts for a new solver: a channel
  whose builds alternate restarts a miner at every check.
* `GetsPastUpdaters`, `Converges`: the loop guard and the watcher.

### Bounds

Wrapper: two process slots (a fresh daemon next to the memory of an exited one;
a third could only be a further orphan, which `NoOrphan` excludes), three slices
of two shapes (two of the same, so that one can follow another on the daemon it
was left behind on), at most one slice left behind in the pipes by a session. Solver
loop: three job ids (the slice's job, the current one, the next), two parents, so
that the tip can move away and come back, five cursor positions with a base of 1
and slices of 2, so that a slice may end before, at and after its nominal end.
Composition: the cursor collapsed to one value, three job ids, two parents, two
slices (one in flight, one left behind), a threshold of 2 rejects.
Watchdog: the thresholds keep the order of the real ones (one read timeout < stall
< two; grace > stall; the cooldown just longer than a slice, two escalations of
five); the safety properties were also checked with the real numbers in units of
15 s (6, 8, 20, 4, 2). Names: two miners, three GPUs. With two miners every
overlap of two saves happens; the proofs of `CanonicalNames` hold for any number.
Session: three ids (two submissions of a lost session next to a handshake call of
the new one), a threshold of 2 under a cap of 3. Updates: four versions of which
one is broken, three builds, five manifests that move version, build and floor
separately and in both directions. TLC explores these instances completely.

`CHECK_DEADLOCK FALSE` in the update runs: when the recheck is disabled the
updater has nothing left to do once the miner runs.

### Fairness

Wrapper: weak fairness of the two coroutines, since asyncio resumes what is ready
and every await of theirs has a timeout; none for the solver process. Solver loop:
slices end (that is `SliceEnds`), pauses end, submissions are sent or fail.
Session: the same, for each submission; that the pool behaves is a premise of
`Recovers`, not an assumption of the specification; the metrics loop runs, and the
kernel gives up on data nobody acknowledges. Composition: the loop, the verdicts
(a submission has a timeout) and the watchdog take their turns. Watchdog: weak
fairness of the coroutines and strong fairness of `Tick`, since time passes however
much happens in between. Names: `save` is synchronous code and goes on once it has
begun; that miners stop overlapping is a premise of `Relearns`. Updates: the updaters' calls
have timeouts (8 s, 15 s, 300 s), slices keep coming, and a supervisor restarts
the process, which only `Converges` needs.

## Proofs

For every value of the constants that satisfies the named assumptions of each
module (distinctness of names from their "none" values, and the order of the
numeric bounds; `Prompt` where said), tlapm checks:

| module | theorems | invariant |
|---|---|---|
| `GbtSolveWrapperProofs` | `TypeCorrect`, `ForgetsItsOwn`, `OnlyALateBounceOrphans`; `NoOrphanEver` under `Prompt` | `TypeInv`, `ShutdownInv` |
| `GbtSolveWrapperRefinement` | `Implements` (the refinement of `SliceService`), `PreemptHits`, `OnlyADropLeaves`, `OwnShape`, `BounceStrays`; with and without `Prompt` | `WireInv`, `FlagInv`, `StartInv` |
| `SolverLoopProofs` | `TypeCorrect`, `DeadTipPreempted`, `CursorKeepsGround`, `ScansNewGround` | `LoopInv`, `FrontierInv` |
| `StratumSessionProofs` | `TypeCorrect`, `AnswersFindCallers`, `NoAnswerCrosses` | `SessionInv` |
| `MinerSystemProofs` | `SystemIsLoop`, `SystemIsService` (refinements), `DeadTipPreempted`, `TypeCorrect`, `HandsOverOwn` | `SysInv` |
| `HealWatchdogProofs` | `TypeCorrect`, `SlicesAreOver`, `BouncesGiveAChance` | `WatchInv` |
| `CanonicalNamesProofs` | `TypeCorrect`, `FileIsWhole`, `NamesAreKept` | `NamesInv` |
| `AutoUpdateProofs` | `TypeCorrect`, `NeverDowngrades`, `InstallsNamed`, `UpgradesOnce`, `LoopsOnlyIfBroken` | `UpdateInv`, `BornInv` |

None of the properties is inductive as it stands; what each invariant adds:

* `TypeInv` adds that a coroutine inside `solve_slice` has a slice and, while it
  waits for a pipe, a process, and that a busy process works on a slice;
  otherwise a write or an answer could be of nothing.
* `ShutdownInv` is `ShutdownForgetsItsOwn`, `SpawnInv`, `StopInv` and `HealInv`
  together, and holds with and without `Prompt`. A shutdown that kills or forgets
  `self._daemon` hits another process only if a new one has become the daemon
  during its wait. A new one is spawned only when the old one is gone or forgotten
  (`SpawnInv`); the solver loop does not spawn while it waits itself (`StopInv`);
  and the process the watchdog waits for is the daemon as long as it lives
  (`HealInv`). What is left is a watchdog whose process is gone and that has not
  resumed: with `Prompt` it does so before the spawn is over, which gives
  `NoOrphanEver`; without, `FinishShutdown("heal")` is the one step that can lose a
  process (`OnlyALateBounceOrphans`).
* `WireInv` is about the pipes. `PipesInv`: no slice is twice in the pipes of a
  process (stdin, the slice it works on, stdout); the one being served is not in
  there before it is written, and afterwards is the last one in; a new process has
  empty pipes. So a line that is read is either the slice's own, and then nothing
  is left, or that of one left behind, and then the slice itself stays. Each
  action's effect on a process' pipes is one of a few (`Keeps`: nothing comes in,
  and what leaves does so in order; `Written`: the slice being served goes in at
  the end). `CoroutineInv` ties the process the coroutine reads from to `_daemon`:
  they are the same unless the latter is `None`, and a shutdown seen to its end
  leaves none. `ServiceStep` then shows, action by action, which step of
  `SliceService` each is.
* `FlagInv` says whose preempt the flag of the busy daemon is while it works on the
  slice being served; it needs `WireInv` because the flag is cleared when a job is
  taken, which must not be mistaken for the taking of another one.
* `StartInv` ties the shape of a process that is being started to the slice that
  waits for it, and, while a new one is being started next to the memory of an
  earlier daemon, the recorded shape to that slice too. So what `Ready` records is
  the shape of the daemon, if there still is one.
* `LoopInv` adds `SliceInv` (outside `next` the loop has a slice, and while it
  runs `_inflight_parent` is its parent) and `CursorInv`: the cursor of whatever
  job is current is at most where the running slice began, or a fresh start. It
  is this that makes the write-back at the end of the slice, onto a job the slice
  may not be of, a step forward.
* `FrontierInv` adds that a running slice began at or beyond `frontier`, so that what
  its end writes back is not below it, and that there is a placed job to copy the
  position from as long as anything has been reported scanned.
* `SessionInv` adds `PhaseInv` (between sessions nothing is registered or on the
  wire; a handshake id exists in the handshake only) and `OnceInv` (an id is on
  the wire at most once, and no more when its call is resolved). From the second
  it follows that nothing is left of `mining.subscribe` when `mining.authorize`
  is sent, and that the reader, when it takes an answer, leaves no other behind
  for an id it has just removed from the table.
* `SysInv` adds `KnownInv` (every slice the service may still answer has a job) and
  `OwnInv` (while the loop waits, the service serves a slice that was asked for the
  loop's own job). The theorems about the loop are not proved again: `SystemIsLoop`
  says that every step of the system is a step of the loop or a stutter, and
  `DeadTipPreempted` follows from the theorem of `SolverLoopProofs`.
* `WatchInv` measures how far a slice has come (`Spent`: the longest it can have
  taken to get to its await) and compares it with the two clocks. `SinceInv`: since
  a bounce after which no slice has had its chance, no more time has passed than
  `Spent` and a little; with a cooldown longer than a slice there is no second
  bounce then. `DryInv`: a slice is undisturbed and within `Spent`, or in the pause
  after a bounce hit its daemon while it started, or has started over after it.
  `BootInv` and `ErrorInv` tie a daemon that vanished while it started to a bounce
  that has just been. The one assumption is `CooldownAssumption`: the cooldown is
  longer than the two attempts of a slice (in the code 300 s against 210 s).
* `NamesInv` adds that a miner has a descriptor only while it is about to write,
  and that while nobody has been overtaken there is at most one upsert, it writes
  to the temporary file and carries every name the file has.
* `UpdateInv` adds that pip is only asked for a version newer than the running
  one, that what is about to be installed is what the held manifest names, and
  that the package on the disk is never older than the process that runs, which
  is why an exec cannot downgrade, whatever failed before it.
* `BornInv` says what a process still knows of the upgrade that started it: the
  guard in its environment is that upgrade or gone, it is there until the wrapper
  check of the start is over, and the running version is no older than the release
  unless the release is broken.

An action property (`CursorNeverBacktracks`, `HandsOverOwnWork`,
`OnlyADropLeavesBehind`, `StraysOnlyByBounce`, `NeverDowngraded`,
`InstallsWhatWasNamed`, `UpgradesOnceAtStart`, `OnlyBrokenLoops`) is proved from the invariant of its
module, one step per action. The counters of the models are bounded by constants
(`MaxNonce`, `MaxStreak`, `MaxBackoff`, `MaxStale`) about which the proofs assume only that
they are numbers in the right order.

`Implements` and `SystemIsService` meet in `SliceService`: what `MinerSystemProofs` shows
of the miner rests on the service only, and the service is what the wrapper is
proved to be.

Only model-checked: the liveness properties (`SliceEnds`, `Progress`, `EverySubmitEnds`,
`Recovers`, `Heals`, `WedgeIsHealed`, `Relearns`, `GetsPastUpdaters`, `Converges`), since
temporal reasoning under fairness is out of the prover's reach; and, of course, the
five violated statements. Every invariant and every action property a passing run
checks is also proved.

## Not modelled

* hardware probing, the content of metrics, benchmark, configuration: input data
  or sequential code without state that outlives a call. The benchmark's one
  write to `config.yaml` is listed under the hazards.
* difficulty and extranonce handlers: they set values nothing in the protocol
  depends on.
* the installer, release tooling, workflows, and the patches to the upstream
  node, whose code is not in the repository.
* the share loop of the daemon and the GPU search under it: a slice ends done,
  preempted or with an error. Where `SolveMatMul` stands when it gives up is decided
  by upstream code.
* the daemon's one-shot mode, which the miner does not use.
* awaits without a timeout on the connection: `wait_closed` in the teardown and
  `drain` in `_send` are taken to end, as the kernel lets them; a peer that keeps
  the connection and reads nothing could hold them up.
* a job without `nonce64_start` in `MinerSystem`, which collapses the cursor;
  `SolverLoop` has it.
* in `HealWatchdog`, a change of the matmul shape, which never happens on one network.
* the backup `_install_atomic` makes, which is read by nothing.
* time, outside `HealWatchdog`: timeouts are actions that may happen whenever the
  wait they end is on.

## Plan

Done: `GbtSolveWrapper`, `SolverLoop`, `StratumSession`, `AutoUpdate`, then
`MinerSystem`, `HealWatchdog`, `CanonicalNames` and connections that are cut; every
safety property proved; the shape of a process; the refinement proof. What is left:

1. The share loop of `RunOneJob` with its watchdog thread, as a module of its own
   whose result refines `FinishJob`.
2. The steps of `_install_atomic` (mode, rename, and the backup) and the hashes the watcher
   takes before and after it (`hardware.py:762-775`, None if the file cannot be read)
   as separate steps of `AutoUpdate`, with the property that a miner mines on
   a replaced build only after an exec, or a hash, that failed.
3. A theorem that puts `Implements` and `HandsOverOwn` together in a composition of
   `SolverLoop` with `GbtSolveWrapper` itself.
