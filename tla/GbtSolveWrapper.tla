-------------------------- MODULE GbtSolveWrapper --------------------------
(***************************************************************************)
(* The wrapper around the solver daemon (gbt_solve_wrapper.py) together    *)
(* with the daemon itself in --daemon mode (btx-gbt-solve.cpp): the two    *)
(* coroutines that touch the process (the solver loop inside solve_slice,  *)
(* the auto-heal watchdog inside force_restart), the tip-preempt signal,   *)
(* the pipes, and the processes that crash, hang or answer late.           *)
(*                                                                         *)
(* A step is what runs between two awaits. Processes live in slots; a slot *)
(* is reused once its process is gone and nothing refers to it any more.   *)
(* The job names in use at one time are distinct; a name returns to the    *)
(* pool when no trace of the earlier job is left in the pipes.             *)
(***************************************************************************)
EXTENDS Naturals, Sequences, FiniteSets

CONSTANTS Slots,      \* room for solver processes
          None,       \* Python's None
          Jobs,       \* slices
          NoJob,      \* no slice
          Shapes,     \* values of (matmul_n, matmul_b, matmul_r, epsilon_bits)
          ShapeOf,    \* the shape each slice's challenge carries
          MaxStale,   \* bound: slices a dropped session may leave in the pipes
          Prompt      \* a shutdown whose process has exited resumes before
                      \* the await of create_subprocess_exec is over

ASSUME SlotAssumption == None \notin Slots
ASSUME JobAssumption == /\ NoJob \notin Jobs
                        /\ None \notin Shapes
                        /\ ShapeOf \in [Jobs -> Shapes]
                        /\ MaxStale \in Nat
ASSUME PromptAssumption == Prompt \in BOOLEAN

VARIABLES
  \* the wrapper object
  daemon,      \* self._daemon
  params,      \* self._matmul_params
  capable,     \* self._solver_preempt_capable
  \* the coroutine running solve_slice
  pc,          \* the await it is suspended at
  job,         \* the slice it serves
  attempt,     \* _send_job_with_retry's attempt
  using,       \* the process it starts, or its local variable daemon
  inflight,    \* StratumClient._inflight_parent is not None
  result,      \* what solve_slice handed to the solver loop when it ended
  \* _shutdown_daemon, per caller: the process it waits for
  stop,
  \* the processes
  st, closed, stdin, working, flag, stdout,
  shape,       \* what a process was started with
  \* history: preempt() returned True during the slice in flight
  signalled

wrapper == <<daemon, params, capable>>
caller  == <<pc, job, attempt, using, inflight, result>>
process == <<st, closed, stdin, working, flag, stdout, shape>>
vars == <<wrapper, caller, stop, process, signalled>>

Callers == {"solver", "heal"}
Stopping == {"reshape", "abandon", "retry"}
PCs == {"idle", "ensure", "spawn", "ready", "read", "backoff"} \cup Stopping
Replies == [job : Jobs, kind : {"done", "preempted", "error"}]

NoResult == [asked |-> NoJob, answered |-> NoJob]

Alive(p) == st[p] # "gone"

TypeOK ==
  /\ daemon \in Slots \cup {None}
  /\ params \in Shapes \cup {None}
  /\ capable \in BOOLEAN
  /\ pc \in PCs
  /\ job \in Jobs \cup {NoJob}
  /\ attempt \in 1..2
  /\ using \in Slots \cup {None}
  /\ inflight \in BOOLEAN
  /\ result \in [asked : Jobs \cup {NoJob}, answered : Jobs \cup {NoJob}]
  /\ stop \in [Callers -> Slots \cup {None}]
  /\ st \in [Slots -> {"boot", "idle", "busy", "gone"}]
  /\ closed \in [Slots -> BOOLEAN]
  /\ stdin \in [Slots -> Seq(Jobs)]
  /\ working \in [Slots -> Jobs \cup {NoJob}]
  /\ flag \in [Slots -> BOOLEAN]
  /\ stdout \in [Slots -> Seq(Replies)]
  /\ shape \in [Slots -> Shapes \cup {None}]
  /\ signalled \in BOOLEAN

Init ==
  /\ daemon = None
  /\ params = None
  /\ capable = FALSE
  /\ pc = "idle"
  /\ job = NoJob
  /\ attempt = 1
  /\ using = None
  /\ inflight = FALSE
  /\ result = NoResult
  /\ stop = [c \in Callers |-> None]
  /\ st = [p \in Slots |-> "gone"]
  /\ closed = [p \in Slots |-> TRUE]
  /\ stdin = [p \in Slots |-> <<>>]
  /\ working = [p \in Slots |-> NoJob]
  /\ flag = [p \in Slots |-> FALSE]
  /\ stdout = [p \in Slots |-> <<>>]
  /\ shape = [p \in Slots |-> None]
  /\ signalled = FALSE

\* A process ends: its memory and its end of stdin go with it. What it has
\* written to stdout can still be read.
Die(p) ==
  /\ st' = [st EXCEPT ![p] = "gone"]
  /\ closed' = [closed EXCEPT ![p] = TRUE]
  /\ stdin' = [stdin EXCEPT ![p] = <<>>]
  /\ working' = [working EXCEPT ![p] = NoJob]
  /\ flag' = [flag EXCEPT ![p] = FALSE]
  /\ shape' = [shape EXCEPT ![p] = None]
  /\ UNCHANGED stdout

\* An exception _send_job_with_retry does not catch reaches the solver loop,
\* which leaves _inflight_parent as it is.
Raise ==
  /\ pc' = "idle"
  /\ job' = NoJob
  /\ using' = None
  /\ attempt' = 1
  /\ result' = [asked |-> job, answered |-> NoJob]
  /\ UNCHANGED inflight

-----------------------------------------------------------------------------
(* _shutdown_daemon, run by the solver loop and by force_restart. *)

\* Up to its first await: with no daemon it returns at once; else it closes
\* the daemon's stdin and waits for that process.
BeginShutdown(c) ==
  IF daemon = None
    THEN UNCHANGED <<closed, stop>>
    ELSE /\ closed' = [closed EXCEPT ![daemon] = TRUE]
         /\ stop' = [stop EXCEPT ![c] = daemon]

\* Mutant of KillDaemon: a shutdown that waits for ever.
KillDaemonNever(c) == stop[c] # None /\ Alive(stop[c]) /\ UNCHANGED vars

\* The process did not exit within 5 s: SIGKILL. The attribute self._daemon
\* is read again here, it is not the process the wait was started on; if it is
\* None, an AttributeError ends solve_slice, or is logged by the watchdog.
KillDaemon(c) ==
  /\ stop[c] # None
  /\ Alive(stop[c])
  /\ IF daemon # None
       THEN Die(daemon) /\ UNCHANGED <<caller, stop>>
       ELSE /\ stop' = [stop EXCEPT ![c] = None]
            /\ IF c = "solver" THEN Raise ELSE UNCHANGED caller
            /\ UNCHANGED process
  /\ UNCHANGED <<wrapper, signalled>>

\* Mutant of FinishShutdown: the shape of the daemon outlives it.
FinishShutdownKeepsShape(c) ==
  /\ stop[c] # None
  /\ ~Alive(stop[c])
  /\ stop' = [stop EXCEPT ![c] = None]
  /\ daemon' = None
  /\ UNCHANGED <<params, capable, caller, process, signalled>>

\* Mutant of FinishShutdown: forget the daemon without waiting for its exit.
FinishShutdownEarly(c) ==
  /\ stop[c] # None
  /\ stop' = [stop EXCEPT ![c] = None]
  /\ daemon' = None
  /\ params' = None
  /\ UNCHANGED <<capable, caller, process, signalled>>

\* The wait is over: forget the daemon.
FinishShutdown(c) ==
  /\ stop[c] # None
  /\ ~Alive(stop[c])
  /\ stop' = [stop EXCEPT ![c] = None]
  /\ daemon' = None
  /\ params' = None
  /\ UNCHANGED <<capable, caller, process, signalled>>

\* A process has exited and somebody who waited for it has not resumed yet.
\* Up to Python 3.11 asyncio.wait_for takes a few turns of the event loop
\* even if the process is long gone; later versions take none.
WakeupDue == \E c \in Callers : stop[c] # None /\ ~Alive(stop[c])

-----------------------------------------------------------------------------
(* solve_slice, _send_job_with_retry and _ensure_daemon. *)

\* Jobs in the pipes of process p, or which it works on.
InPipes(p) ==
  IF p = None THEN {}
  ELSE {stdin[p][i] : i \in DOMAIN stdin[p]}
       \cup {stdout[p][i].job : i \in DOMAIN stdout[p]}
       \cup ({working[p]} \ {NoJob})

\* The solver loop calls solve_slice with slice j.
SolveSlice(j) ==
  /\ pc = "idle"
  /\ j \notin InPipes(daemon)
  /\ pc' = "ensure"
  /\ job' = j
  /\ attempt' = 1
  /\ inflight' = TRUE
  /\ result' = NoResult
  /\ signalled' = FALSE
  /\ UNCHANGED <<wrapper, using, stop, process>>

\* Mutant of Return: a missing record is passed on as Python's None.
ReturnNone(a) ==
  /\ pc' = "idle"
  /\ job' = NoJob
  /\ using' = None
  /\ inflight' = FALSE
  /\ attempt' = 1
  /\ result' = [asked |-> job, answered |-> IF a = NoJob THEN None ELSE a]

\* solve_slice returns to the solver loop with answer a (NoJob: none).
Return(a) ==
  /\ pc' = "idle"
  /\ job' = NoJob
  /\ using' = None
  /\ inflight' = FALSE
  /\ attempt' = 1
  /\ result' = [asked |-> job, answered |-> a]

\* The job line goes to process p. A closing stdin swallows it.
Write(p) ==
  /\ pc' = "read"
  /\ using' = p
  /\ stdin' = [stdin EXCEPT ![p] = IF closed[p] THEN @ ELSE Append(@, job)]
  /\ UNCHANGED <<job, attempt, inflight, result>>

\* Mutant of OtherShape: a daemon of any shape will do.
AnyShape == FALSE

\* _ensure_daemon's two tests.
OtherShape == daemon # None /\ params # ShapeOf[job]
Running == IF daemon = None THEN FALSE ELSE Alive(daemon)

\* _ensure_daemon finds a daemon of another shape and shuts it down first.
Reshape ==
  /\ pc = "ensure"
  /\ OtherShape
  /\ pc' = "reshape"
  /\ BeginShutdown("solver")
  /\ UNCHANGED <<wrapper, job, attempt, using, inflight, result, st,
                 stdin, working, flag, stdout, shape, signalled>>

\* _ensure_daemon finds a running daemon of the right shape; the job is
\* written without an await in between.
Reuse ==
  /\ pc = "ensure"
  /\ ~OtherShape
  /\ Running
  /\ Write(daemon)
  /\ UNCHANGED <<wrapper, stop, st, closed, working, flag, stdout, shape,
                 signalled>>

\* _ensure_daemon has to start a process: there is none, or the one it had has
\* exited, or the one of another shape is shut down.
Spawning ==
  /\ \/ pc = "ensure" /\ ~OtherShape
     \/ pc = "reshape" /\ stop["solver"] = None
  /\ ~Running

\* create_subprocess_exec forks; the process is not in self._daemon yet.
Fork(p) ==
  /\ Spawning
  /\ ~Alive(p)
  /\ p \notin {daemon} \cup {stop[c] : c \in Callers}
  /\ pc' = "spawn"
  /\ using' = p
  /\ st' = [st EXCEPT ![p] = "boot"]
  /\ closed' = [closed EXCEPT ![p] = FALSE]
  /\ stdin' = [stdin EXCEPT ![p] = <<>>]
  /\ working' = [working EXCEPT ![p] = NoJob]
  /\ flag' = [flag EXCEPT ![p] = FALSE]
  /\ stdout' = [stdout EXCEPT ![p] = <<>>]
  /\ shape' = [shape EXCEPT ![p] = ShapeOf[job]]
  /\ UNCHANGED <<wrapper, job, attempt, inflight, result, stop, signalled>>

\* The binary cannot be run: an OSError nobody in the wrapper catches.
ForkFails ==
  /\ Spawning
  /\ Raise
  /\ UNCHANGED <<wrapper, stop, process, signalled>>

\* The pipes are connected: the process becomes self._daemon.
Spawned ==
  /\ pc = "spawn"
  /\ Prompt => ~WakeupDue
  /\ pc' = "ready"
  /\ daemon' = using
  /\ UNCHANGED <<params, capable, job, attempt, using, inflight, result, stop,
                 process, signalled>>

\* The wait for the ready line ends with the first line on stderr, or with the
\* end of stderr of a process that is gone. The line is the ready line, which an
\* older solver prints without the preempt flag, or one that came before it,
\* which is taken for it. _ensure_daemon then returns self._daemon as it is now:
\* None if force_restart has been faster.
Ready ==
  /\ pc = "ready"
  /\ capable' \in BOOLEAN
  /\ capable' => st[using] # "boot"
  /\ params' = ShapeOf[job]
  /\ IF daemon = None
       THEN Raise /\ UNCHANGED stdin
       ELSE Write(daemon)
  /\ UNCHANGED <<daemon, stop, st, closed, working, flag, stdout, shape,
                 signalled>>

\* No ready line within 30 s.
ReadyTimeout ==
  /\ pc = "ready"
  /\ st[using] = "boot"
  /\ pc' = "abandon"
  /\ BeginShutdown("solver")
  /\ UNCHANGED <<wrapper, job, attempt, using, inflight, result, st,
                 stdin, working, flag, stdout, shape, signalled>>

\* One line of the daemon's stdout. An error line ends the slice too.
ReadReply ==
  /\ pc = "read"
  /\ stdout[using] # <<>>
  /\ Return(IF Head(stdout[using]).kind = "error"
              THEN NoJob ELSE Head(stdout[using]).job)
  /\ stdout' = [stdout EXCEPT ![using] = Tail(@)]
  /\ UNCHANGED <<wrapper, stop, st, closed, stdin, working, flag, shape,
                 signalled>>

\* Mutant of IoFailed: retry on the daemon that has not answered.
IoFailedKeepDaemon ==
  /\ pc = "read"
  /\ stdout[using] = <<>> \/ ~Alive(using)
  /\ pc' = "retry"
  /\ UNCHANGED <<wrapper, job, attempt, using, inflight, result, stop, process,
                 signalled>>

\* End of stdout, a broken pipe, or no line before the timeout.
IoFailed ==
  /\ pc = "read"
  /\ stdout[using] = <<>> \/ ~Alive(using)
  /\ pc' = "retry"
  /\ BeginShutdown("solver")
  /\ UNCHANGED <<wrapper, job, attempt, using, inflight, result, st,
                 stdin, working, flag, stdout, shape, signalled>>

\* After the shutdown of a failed attempt: give up on the second one, else
\* pause for a second.
Retry ==
  /\ pc = "retry"
  /\ stop["solver"] = None
  /\ IF attempt = 2
       THEN Return(NoJob)
       ELSE /\ pc' = "backoff"
            /\ UNCHANGED <<job, attempt, using, inflight, result>>
  /\ UNCHANGED <<wrapper, stop, process, signalled>>

\* The pause is over.
SecondAttempt ==
  /\ pc = "backoff"
  /\ pc' = "ensure"
  /\ attempt' = 2
  /\ UNCHANGED <<wrapper, job, using, inflight, result, stop, process,
                 signalled>>

\* After the shutdown of a daemon that never got ready: RuntimeError.
Abandon ==
  /\ pc = "abandon"
  /\ stop["solver"] = None
  /\ Raise
  /\ UNCHANGED <<wrapper, stop, process, signalled>>

-----------------------------------------------------------------------------
(* What StratumClient does to the wrapper besides solve_slice. *)

\* The heal watchdog: force_restart, without the lock.
ForceRestart ==
  /\ stop["heal"] = None
  /\ daemon # None
  /\ BeginShutdown("heal")
  /\ UNCHANGED <<wrapper, caller, st, stdin, working, flag, stdout, shape,
                 signalled>>

\* The session ends: the solver task and the heal task are cancelled at
\* whatever await they are. Nothing tells the daemon; only a process that is
\* still being started is killed, by asyncio.
DropSession ==
  /\ Cardinality(InPipes(daemon)) <= MaxStale
  /\ \/ pc # "idle" /\ result' = [asked |-> job, answered |-> NoJob]
     \/ pc = "idle" /\ UNCHANGED result
  /\ pc' = "idle"
  /\ job' = NoJob
  /\ using' = None
  /\ attempt' = 1
  /\ stop' = [c \in Callers |-> None]
  /\ IF pc = "spawn" THEN Die(using) ELSE UNCHANGED process
  /\ UNCHANGED <<wrapper, inflight, signalled>>

\* A notify for another parent block: preempt() sends SIGUSR1. Before the
\* handler is installed the signal's default action ends the process.
Preempt ==
  /\ inflight
  /\ capable
  /\ Running
  /\ IF st[daemon] = "boot"
       THEN Die(daemon)
       ELSE /\ flag' = [flag EXCEPT ![daemon] = TRUE]
            /\ UNCHANGED <<st, closed, stdin, working, stdout, shape>>
  /\ signalled' = (job # NoJob)
  /\ UNCHANGED <<wrapper, caller, stop>>

-----------------------------------------------------------------------------
(* The daemon process: main and RunOneJob of btx-gbt-solve.cpp. *)

\* The signal handler is installed and the ready line is out.
Boot(p) ==
  /\ st[p] = "boot"
  /\ st' = [st EXCEPT ![p] = "idle"]
  /\ UNCHANGED <<wrapper, caller, stop, closed, stdin, working, flag,
                 stdout, shape, signalled>>

\* Mutant of TakeJob: an old preempt stays pending.
TakeJobKeepFlag(p) ==
  /\ st[p] = "idle"
  /\ stdin[p] # <<>>
  /\ st' = [st EXCEPT ![p] = "busy"]
  /\ working' = [working EXCEPT ![p] = Head(stdin[p])]
  /\ stdin' = [stdin EXCEPT ![p] = Tail(@)]
  /\ UNCHANGED <<wrapper, caller, stop, closed, flag, stdout, shape, signalled>>

\* A job line is read. RunOneJob first drops a preempt that came between jobs.
TakeJob(p) ==
  /\ st[p] = "idle"
  /\ stdin[p] # <<>>
  /\ st' = [st EXCEPT ![p] = "busy"]
  /\ working' = [working EXCEPT ![p] = Head(stdin[p])]
  /\ stdin' = [stdin EXCEPT ![p] = Tail(@)]
  /\ flag' = [flag EXCEPT ![p] = FALSE]
  /\ UNCHANGED <<wrapper, caller, stop, closed, stdout, shape, signalled>>

\* The slice ends: tries or seconds exhausted, preempted, or an exception.
FinishJob(p, kind) ==
  /\ st[p] = "busy"
  /\ kind \in {"error", IF flag[p] THEN "preempted" ELSE "done"}
  /\ st' = [st EXCEPT ![p] = "idle"]
  /\ stdout' = [stdout EXCEPT ![p] = Append(@, [job |-> working[p],
                                                kind |-> kind])]
  /\ working' = [working EXCEPT ![p] = NoJob]
  /\ UNCHANGED <<wrapper, caller, stop, closed, stdin, flag, shape, signalled>>

\* End of stdin ends the loop in main.
ExitAtEof(p) ==
  /\ st[p] = "idle"
  /\ stdin[p] = <<>>
  /\ closed[p]
  /\ Die(p)
  /\ UNCHANGED <<wrapper, caller, stop, signalled>>

\* The process dies on its own.
Crash(p) ==
  /\ Alive(p)
  /\ Die(p)
  /\ UNCHANGED <<wrapper, caller, stop, signalled>>

-----------------------------------------------------------------------------
SolverStep ==
  \/ Reshape
  \/ Reuse
  \/ \E p \in Slots : Fork(p)
  \/ ForkFails
  \/ Spawned
  \/ Ready
  \/ ReadyTimeout
  \/ ReadReply
  \/ IoFailed
  \/ Retry
  \/ SecondAttempt
  \/ Abandon
  \/ KillDaemon("solver")
  \/ FinishShutdown("solver")

HealStep == KillDaemon("heal") \/ FinishShutdown("heal")

ProcessStep(p) ==
  \/ Boot(p)
  \/ TakeJob(p)
  \/ \E kind \in {"done", "preempted", "error"} : FinishJob(p, kind)
  \/ ExitAtEof(p)
  \/ Crash(p)

Next ==
  \/ \E j \in Jobs : SolveSlice(j)
  \/ SolverStep
  \/ HealStep
  \/ ForceRestart
  \/ DropSession
  \/ Preempt
  \/ \E p \in Slots : ProcessStep(p)

Spec == Init /\ [][Next]_vars

\* asyncio resumes a coroutine whose await is over, and its timers expire.
\* Nothing is assumed of the solver process: it may hang for ever.
Fairness == WF_vars(SolverStep) /\ WF_vars(HealStep)
FairSpec == Spec /\ Fairness

-----------------------------------------------------------------------------
(* Properties. *)

\* Every live solver process is the one the wrapper refers to, or is about to:
\* shutdowns by the solver loop and by the heal watchdog, overlapping each
\* other and a respawn, never leave a process behind that nobody will stop, so
\* two never share the GPU.
Owned == {daemon} \cup (IF pc = "spawn" THEN {using} ELSE {})
NoOrphan == \A p \in Slots : Alive(p) => p \in Owned

\* The daemon a shutdown kills is the one it asked to exit, on every Python:
\* as long as that process lives, nobody puts a fresh daemon in self._daemon.
\* And the daemon it forgets is that one too, except that force_restart, if it
\* is slow to resume, may forget a fresh one.
ShutdownForgetsItsOwn ==
  \A c \in Callers :
    stop[c] # None => \/ daemon \in {stop[c], None}
                      \/ ~Prompt /\ c = "heal" /\ ~Alive(stop[c])

\* A slice comes back preempted only if a preempt was sent while it was the
\* one in flight: neither a signal that arrives after a slice has finished nor
\* one that hits a slice left behind cuts short the next one.
PreemptHitsItsSlice ==
  daemon # None =>
    \A i \in DOMAIN stdout[daemon] :
      stdout[daemon][i] = [job |-> job, kind |-> "preempted"] => signalled

\* The recorded shape is that of no daemon, or not that of the one there is.
Strayed ==
  /\ params # None
  /\ daemon = None \/ (Alive(daemon) /\ shape[daemon] # params)

\* A running daemon solves slices of the shape it was started with only, across
\* respawns, retries and dropped sessions, unless the recorded shape has strayed
\* from it.
SolvesItsShape ==
  daemon # None /\ Alive(daemon) /\ ~Strayed =>
    \A j \in InPipes(daemon) : ShapeOf[j] = shape[daemon]

\* Which it does only when the watchdog's bounce is over before solve_slice
\* sees the ready line of the daemon it has bounced.
StraysOnlyByBounce == [][Strayed' => Strayed \/ (Ready /\ daemon = None)]_vars

\* solve_slice implements the service the solver loop relies on: a late
\* answer, a retry or a bounce never hands over another slice's answer, and
\* a dropped session does so only until the process it left ends.
LeftBehind == (InPipes(daemon) \cup InPipes(using)) \ {job}
Service == INSTANCE SliceService
             WITH asked <- job, answer <- result, behind <- LeftBehind,
                  bounced <- (daemon = None /\ LeftBehind # {})
ImplementsSliceService == Service!Spec

\* The answer of one slice is left for another to read only by a session that
\* drops it: a time-out, a retry, a crash or a bounce in the middle of a slice
\* leaves nothing behind in a pipe that will be read again.
OnlyADropLeavesBehind ==
  [][LeftBehind' # {} => LeftBehind # {} \/ DropSession]_vars

\* force_restart is "safe to call while a slice is in flight"
\* (gbt_solve_wrapper.py:285): it loses no process, on any Python the project
\* supports.
SafeWhileInFlight == NoOrphan

\* Every slice ends, even if the solver hangs, ignores its closed stdin or is
\* bounced by the watchdog while the slice is in flight.
SliceEnds == pc # "idle" ~> pc = "idle"
=============================================================================
