----------------------- MODULE GbtSolveWrapperProofs -----------------------
(***************************************************************************)
(* Safety of the wrapper, for any number of process slots, slices and      *)
(* shapes: its types; which process a shutdown may kill and forget, on any *)
(* Python; and that overlapping shutdowns and respawns never leave a       *)
(* solver process behind, provided that a shutdown whose process has       *)
(* exited resumes before a spawn is over (Prompt).                         *)
(***************************************************************************)
EXTENDS GbtSolveWrapper, TLAPS

\* A coroutine inside solve_slice has a slice, and a process while it waits
\* for one of its pipes.
CallInv == /\ pc # "idle" => job \in Jobs
           /\ pc \in {"spawn", "ready", "read"} => using \in Slots

\* A busy process works on a slice.
WorkInv == \A p \in Slots : st[p] = "busy" => working[p] \in Jobs

TypeInv == TypeOK /\ CallInv /\ WorkInv

\* While a process is being started it is not the daemon yet, nobody waits
\* for it, and the daemon there was is gone.
SpawnInv == pc = "spawn" =>
              /\ daemon # None => ~Alive(daemon)
              /\ using \notin {daemon} \cup {stop[c] : c \in Callers}

\* Only a coroutine that is shutting the daemon down waits for its exit.
StopInv == stop["solver"] # None => pc \in Stopping

\* The process the watchdog waits for is the daemon as long as it lives: the
\* solver loop forgets no process but one it has seen exit.
HealInv == stop["heal"] # None /\ Alive(stop["heal"]) => daemon = stop["heal"]

\* The four need each other: a shutdown forgets its own daemon because a new
\* one becomes the daemon only when the solver loop waits for nothing, and the
\* watchdog for nothing that lives.
ShutdownInv == ShutdownForgetsItsOwn /\ SpawnInv /\ StopInv /\ HealInv

\* SIGKILL, and the shutdowns that find no daemon to kill.
Kills(c) == KillDaemon(c) /\ daemon # None
SolverMisses == KillDaemon("solver") /\ daemon = None
HealMisses == KillDaemon("heal") /\ daemon = None

-----------------------------------------------------------------------------
(* Types. *)

\* Any slice names that are distinct from NoJob and any slots distinct from
\* None make the initial state well typed.
LEMMA InitTyped == Init => TypeInv
<1> SUFFICES ASSUME Init PROVE TypeInv
  OBVIOUS
<1>1. capable \in BOOLEAN /\ inflight \in BOOLEAN
  BY DEF Init
<1>2. /\ result \in [asked : Jobs \cup {NoJob}, answered : Jobs \cup {NoJob}]
      /\ signalled \in BOOLEAN
  BY DEF Init, NoResult
<1>3. /\ closed \in [Slots -> BOOLEAN]
      /\ flag \in [Slots -> BOOLEAN]
  BY DEF Init
<1> QED
  BY <1>1, <1>2, <1>3 DEF Init, TypeInv, TypeOK, CallInv, WorkInv, PCs

\* A shutdown that begins waits for a slot, or not at all.
LEMMA BeginShutdownTyped ==
  ASSUME TypeOK, NEW c \in Callers, BeginShutdown(c)
  PROVE  /\ stop' \in [Callers -> Slots \cup {None}]
         /\ closed' \in [Slots -> BOOLEAN]
BY DEF BeginShutdown, TypeOK

\* A process that ends leaves every process variable well typed.
LEMMA DieTyped ==
  ASSUME TypeInv, NEW p \in Slots, Die(p)
  PROVE  /\ st' \in [Slots -> {"boot", "idle", "busy", "gone"}]
         /\ closed' \in [Slots -> BOOLEAN]
         /\ stdin' \in [Slots -> Seq(Jobs)]
         /\ working' \in [Slots -> Jobs \cup {NoJob}]
         /\ flag' \in [Slots -> BOOLEAN]
         /\ stdout' \in [Slots -> Seq(Replies)]
         /\ shape' \in [Slots -> Shapes \cup {None}]
         /\ WorkInv'
BY DEF Die, TypeInv, TypeOK, WorkInv

\* Whether or not there is a daemon to kill.
LEMMA KillTyped ==
  ASSUME TypeInv, NEW c \in Callers, KillDaemon(c)
  PROVE  TypeInv'
<1> USE SlotAssumption, JobAssumption
<1>1. CASE daemon # None
  <2>1. daemon \in Slots /\ Die(daemon)
    BY <1>1 DEF KillDaemon, TypeInv, TypeOK
  <2> QED
    BY <1>1, <2>1, DieTyped DEF KillDaemon, TypeInv, TypeOK, CallInv, wrapper,
       caller
<1>2. CASE daemon = None
  <2>1. /\ stop' \in [Callers -> Slots \cup {None}]
        /\ UNCHANGED <<daemon, params, capable, process, signalled>>
    BY <1>2 DEF KillDaemon, TypeInv, TypeOK, wrapper
  <2>2. CASE c = "solver"
    BY <1>2, <2>1, <2>2 DEF KillDaemon, Raise, TypeInv, TypeOK, CallInv,
       WorkInv, PCs, process
  <2>3. CASE c # "solver"
    BY <1>2, <2>1, <2>3 DEF KillDaemon, TypeInv, TypeOK, CallInv, WorkInv,
       caller, process
  <2> QED
    BY <2>2, <2>3
<1> QED
  BY <1>1, <1>2

\* The steps of the coroutine that runs solve_slice keep the types.
LEMMA SolverStepTyped == TypeInv /\ SolverStep => TypeInv'
<1> SUFFICES ASSUME TypeInv, SolverStep PROVE TypeInv'
  OBVIOUS
<1> USE SlotAssumption, JobAssumption
<1>1. CASE Reshape
  BY <1>1, BeginShutdownTyped DEF Reshape, TypeInv, TypeOK, CallInv, WorkInv,
     PCs, Stopping, Callers, wrapper
<1>2. CASE Reuse
  <2>1. daemon \in Slots /\ job \in Jobs
    BY <1>2 DEF Reuse, Running, TypeInv, TypeOK, CallInv
  <2>2. stdin' \in [Slots -> Seq(Jobs)]
    BY <1>2, <2>1 DEF Reuse, Write, TypeInv, TypeOK
  <2> QED
    BY <1>2, <2>1, <2>2 DEF Reuse, Write, TypeInv, TypeOK, CallInv, WorkInv,
       PCs, wrapper
<1>3. CASE \E p \in Slots : Fork(p)
  <2> PICK p \in Slots : Fork(p)
    BY <1>3
  <2>1. job \in Jobs /\ ShapeOf[job] \in Shapes
    BY DEF Fork, Spawning, TypeInv, CallInv
  <2>2. /\ stdin' \in [Slots -> Seq(Jobs)]
        /\ stdout' \in [Slots -> Seq(Replies)]
    BY <2>1 DEF Fork, TypeInv, TypeOK
  <2> QED
    BY <2>1, <2>2 DEF Fork, TypeInv, TypeOK, CallInv, WorkInv, PCs, wrapper
<1>13. CASE ForkFails
  BY <1>13 DEF ForkFails, Raise, TypeInv, TypeOK, CallInv, WorkInv, PCs,
     wrapper, process
<1>14. CASE Spawned
  BY <1>14 DEF Spawned, TypeInv, TypeOK, CallInv, WorkInv, PCs, process
<1>4. CASE Ready
  <2>1. job \in Jobs /\ ShapeOf[job] \in Shapes
    BY <1>4 DEF Ready, TypeInv, CallInv
  <2>2. capable' \in BOOLEAN
    BY <1>4 DEF Ready
  <2>3. CASE daemon = None
    BY <1>4, <2>1, <2>2, <2>3 DEF Ready, Raise, TypeInv, TypeOK, CallInv,
       WorkInv, PCs
  <2>4. CASE daemon # None
    <3>1. daemon \in Slots /\ Write(daemon)
      BY <1>4, <2>4 DEF Ready, TypeInv, TypeOK
    <3>2. stdin' \in [Slots -> Seq(Jobs)]
      BY <2>1, <3>1 DEF Write, TypeInv, TypeOK
    <3> QED
      BY <1>4, <2>1, <2>2, <2>4, <3>1, <3>2 DEF Ready, Write, TypeInv, TypeOK,
         CallInv, WorkInv, PCs
  <2> QED
    BY <2>3, <2>4
<1>5. CASE ReadyTimeout
  BY <1>5, BeginShutdownTyped DEF ReadyTimeout, TypeInv, TypeOK, CallInv,
     WorkInv, PCs, Stopping, Callers, wrapper
<1>6. CASE ReadReply
  <2>1. using \in Slots /\ job \in Jobs
    BY <1>6 DEF ReadReply, TypeInv, CallInv
  <2>2. Head(stdout[using]) \in Replies /\ Tail(stdout[using]) \in Seq(Replies)
    BY <1>6, <2>1 DEF ReadReply, TypeInv, TypeOK
  <2>3. stdout' \in [Slots -> Seq(Replies)]
    BY <1>6, <2>1, <2>2 DEF ReadReply, TypeInv, TypeOK
  <2>4. result' \in [asked : Jobs \cup {NoJob}, answered : Jobs \cup {NoJob}]
    BY <1>6, <2>1, <2>2 DEF ReadReply, Return, Replies
  <2>5. inflight' \in BOOLEAN
    BY <1>6 DEF ReadReply, Return
  <2> QED
    BY <1>6, <2>3, <2>4, <2>5 DEF ReadReply, Return, TypeInv, TypeOK, CallInv,
       WorkInv, PCs, wrapper
<1>7. CASE IoFailed
  BY <1>7, BeginShutdownTyped DEF IoFailed, TypeInv, TypeOK, CallInv, WorkInv,
     PCs, Stopping, Callers, wrapper
<1>8. CASE Retry
  <2>1. result' \in [asked : Jobs \cup {NoJob}, answered : Jobs \cup {NoJob}]
    BY <1>8 DEF Retry, Return, TypeInv, TypeOK
  <2>2. inflight' \in BOOLEAN
    BY <1>8 DEF Retry, Return, TypeInv, TypeOK
  <2> QED
    BY <1>8, <2>1, <2>2 DEF Retry, Return, TypeInv, TypeOK, CallInv, WorkInv,
       PCs, wrapper, process
<1>9. CASE SecondAttempt
  BY <1>9 DEF SecondAttempt, TypeInv, TypeOK, CallInv, WorkInv, PCs, wrapper,
     process
<1>10. CASE Abandon
  BY <1>10 DEF Abandon, Raise, TypeInv, TypeOK, CallInv, WorkInv, PCs, wrapper,
     process
<1>11. CASE KillDaemon("solver")
  BY <1>11, KillTyped DEF Callers
<1>12. CASE FinishShutdown("solver")
  BY <1>12 DEF FinishShutdown, TypeInv, TypeOK, CallInv, WorkInv, Callers,
     caller, process
<1> QED
  BY <1>1, <1>2, <1>3, <1>4, <1>5, <1>6, <1>7, <1>8, <1>9, <1>10, <1>11, <1>12,
     <1>13, <1>14
  DEF SolverStep

\* What StratumClient does besides, and the watchdog's shutdown, keep the
\* types.
LEMMA ClientStepTyped ==
  ASSUME TypeInv,
         \/ \E j \in Jobs : SolveSlice(j)
         \/ HealStep
         \/ ForceRestart
         \/ DropSession
         \/ Preempt
  PROVE  TypeInv'
<1> USE SlotAssumption, JobAssumption
<1>1. CASE \E j \in Jobs : SolveSlice(j)
  <2> PICK j \in Jobs : SolveSlice(j)
    BY <1>1
  <2>1. inflight' \in BOOLEAN /\ signalled' \in BOOLEAN
    BY DEF SolveSlice
  <2>2. result' \in [asked : Jobs \cup {NoJob}, answered : Jobs \cup {NoJob}]
    BY DEF SolveSlice, NoResult
  <2> QED
    BY <2>1, <2>2 DEF SolveSlice, TypeInv, TypeOK, CallInv, WorkInv, PCs, wrapper,
       process
<1>2. CASE KillDaemon("heal")
  BY <1>2, KillTyped DEF Callers
<1>3. CASE FinishShutdown("heal")
  BY <1>3 DEF FinishShutdown, TypeInv, TypeOK, CallInv, WorkInv, Callers,
     caller, process
<1>4. CASE ForceRestart
  BY <1>4, BeginShutdownTyped DEF ForceRestart, TypeInv, TypeOK, CallInv,
     WorkInv, Callers, wrapper, caller
<1>5. CASE DropSession
  <2>1. result' \in [asked : Jobs \cup {NoJob}, answered : Jobs \cup {NoJob}]
    BY <1>5 DEF DropSession, TypeInv, TypeOK
  <2>2. stop' \in [Callers -> Slots \cup {None}]
    BY <1>5 DEF DropSession
  <2>3. CASE pc = "spawn"
    <3>1. using \in Slots /\ Die(using)
      BY <1>5, <2>3 DEF DropSession, TypeInv, CallInv
    <3> QED
      BY <1>5, <2>1, <2>2, <3>1, DieTyped DEF DropSession, TypeInv, TypeOK,
         CallInv, PCs, wrapper
  <2>4. CASE pc # "spawn"
    BY <1>5, <2>1, <2>2, <2>4 DEF DropSession, TypeInv, TypeOK, CallInv,
       WorkInv, PCs, wrapper, process
  <2> QED
    BY <2>3, <2>4
<1>6. CASE Preempt
  <2>1. daemon \in Slots
    BY <1>6 DEF Preempt, Running, TypeInv, TypeOK
  <2>2. signalled' \in BOOLEAN
    BY <1>6 DEF Preempt
  <2>3. CASE st[daemon] = "boot"
    <3>1. Die(daemon)
      BY <1>6, <2>3 DEF Preempt
    <3> QED
      BY <1>6, <2>1, <2>2, <3>1, DieTyped DEF Preempt, TypeInv, TypeOK, CallInv,
         wrapper, caller
  <2>4. CASE st[daemon] # "boot"
    <3>1. flag' \in [Slots -> BOOLEAN]
      BY <1>6, <2>1, <2>4 DEF Preempt, TypeInv, TypeOK
    <3> QED
      BY <1>6, <2>2, <2>4, <3>1 DEF Preempt, TypeInv, TypeOK, CallInv, WorkInv,
         wrapper, caller
  <2> QED
    BY <2>3, <2>4
<1> QED
  BY <1>1, <1>2, <1>3, <1>4, <1>5, <1>6 DEF HealStep

\* The steps of a solver process keep the types.
LEMMA ProcessStepTyped ==
  ASSUME TypeInv, NEW p \in Slots, ProcessStep(p)
  PROVE  TypeInv'
<1>1. CASE Boot(p)
  BY <1>1 DEF Boot, TypeInv, TypeOK, CallInv, WorkInv, wrapper, caller
<1>2. CASE TakeJob(p)
  <2>1. Head(stdin[p]) \in Jobs /\ Tail(stdin[p]) \in Seq(Jobs)
    BY <1>2 DEF TakeJob, TypeInv, TypeOK
  <2>2. stdin' \in [Slots -> Seq(Jobs)] /\ flag' \in [Slots -> BOOLEAN]
    BY <1>2, <2>1 DEF TakeJob, TypeInv, TypeOK
  <2> QED
    BY <1>2, <2>1, <2>2 DEF TakeJob, TypeInv, TypeOK, CallInv, WorkInv, wrapper,
       caller
<1>3. CASE \E kind \in {"done", "preempted", "error"} : FinishJob(p, kind)
  <2> PICK kind \in {"done", "preempted", "error"} : FinishJob(p, kind)
    BY <1>3
  <2>1. [job |-> working[p], kind |-> kind] \in Replies
    BY DEF FinishJob, TypeInv, WorkInv, Replies
  <2>2. stdout' \in [Slots -> Seq(Replies)]
    BY <2>1 DEF FinishJob, TypeInv, TypeOK
  <2> QED
    BY <2>2 DEF FinishJob, TypeInv, TypeOK, CallInv, WorkInv, wrapper, caller
<1>4. CASE ExitAtEof(p)
  BY <1>4, DieTyped DEF ExitAtEof, TypeInv, TypeOK, CallInv, wrapper, caller
<1>5. CASE Crash(p)
  BY <1>5, DieTyped DEF Crash, TypeInv, TypeOK, CallInv, wrapper, caller
<1> QED
  BY <1>1, <1>2, <1>3, <1>4, <1>5 DEF ProcessStep

\* TypeInv holds in every reachable state.
LEMMA TypeInvAlways == Spec => []TypeInv
<1>1. TypeInv /\ [Next]_vars => TypeInv'
  <2> SUFFICES ASSUME TypeInv, [Next]_vars PROVE TypeInv'
    OBVIOUS
  <2>1. CASE Next
    BY <2>1, SolverStepTyped, ClientStepTyped, ProcessStepTyped DEF Next
  <2>2. CASE UNCHANGED vars
    BY <2>2 DEF vars, wrapper, caller, process, TypeInv, TypeOK, CallInv,
       WorkInv
  <2> QED
    BY <2>1, <2>2
<1> QED
  BY InitTyped, <1>1, PTL DEF Spec

\* Every variable of the wrapper and of the solver processes keeps its type,
\* however crashes, bounces, drops and signals interleave.
THEOREM TypeCorrect == Spec => []TypeOK
<1>1. TypeInv => TypeOK
  BY DEF TypeInv
<1> QED
  BY TypeInvAlways, <1>1, PTL

-----------------------------------------------------------------------------
(* The right process. *)

\* Every kind of step there is.
LEMMA Steps ==
  ASSUME [Next]_vars
  PROVE  \/ \E j \in Jobs : SolveSlice(j)
         \/ \E p \in Slots : Fork(p)
         \/ \E p \in Slots : ProcessStep(p)
         \/ \E c \in Callers : Kills(c)
         \/ SolverMisses \/ HealMisses
         \/ \E c \in Callers : FinishShutdown(c)
         \/ Reshape \/ Reuse \/ ForkFails \/ Spawned \/ Ready \/ ReadyTimeout
         \/ ReadReply \/ IoFailed \/ Retry \/ SecondAttempt \/ Abandon
         \/ ForceRestart \/ DropSession \/ Preempt
         \/ UNCHANGED vars
<1>1. "solver" \in Callers /\ "heal" \in Callers
  BY DEF Callers
<1>2. CASE SolverStep
  BY <1>1, <1>2 DEF SolverStep, Kills, SolverMisses
<1>3. CASE HealStep
  BY <1>1, <1>3 DEF HealStep, Kills, HealMisses
<1> QED
  BY <1>2, <1>3 DEF Next

\* A shutdown waits for the daemon, if for anything.
LEMMA BeginShutdownWaits ==
  ASSUME TypeOK, NEW c \in Callers, BeginShutdown(c)
  PROVE  /\ \A d \in Callers : d # c => stop'[d] = stop[d]
         /\ stop'[c] \in {stop[c], daemon, None}
BY DEF BeginShutdown, TypeOK

\* A process that ends revives no other.
LEMMA DieRevivesNone ==
  ASSUME TypeOK, NEW p \in Slots, Die(p)
  PROVE  \A q \in Slots : st'[q] # "gone" => st[q] # "gone"
BY DEF Die, TypeOK

\* Only a fork brings a process to life.
LEMMA RevivesNone ==
  ASSUME TypeInv, [Next]_vars, ~(\E p \in Slots : Fork(p))
  PROVE  \A q \in Slots : st'[q] # "gone" => st[q] # "gone"
<1> DEFINE Goal == \A q \in Slots : st'[q] # "gone" => st[q] # "gone"
<1> USE DEF TypeInv
<1>1. ASSUME NEW p \in Slots, ProcessStep(p) PROVE Goal
  BY <1>1, DieRevivesNone
  DEF ProcessStep, Boot, TakeJob, FinishJob, ExitAtEof, Crash, TypeOK
<1>2. ASSUME NEW c \in Callers, Kills(c) PROVE Goal
  <2>1. daemon \in Slots /\ Die(daemon)
    BY <1>2 DEF Kills, KillDaemon, TypeOK
  <2> QED
    BY <2>1, DieRevivesNone
<1>3. CASE Preempt
  <2>1. daemon \in Slots
    BY <1>3 DEF Preempt, Running, TypeOK
  <2> QED
    BY <1>3, <2>1, DieRevivesNone DEF Preempt
<1>4. CASE DropSession
  <2>1. CASE pc = "spawn"
    BY <1>4, <2>1, DieRevivesNone DEF DropSession, CallInv
  <2>2. CASE pc # "spawn"
    BY <1>4, <2>2 DEF DropSession, process
  <2> QED
    BY <2>1, <2>2
<1>5. ASSUME \/ \E j \in Jobs : SolveSlice(j)
             \/ \E c \in Callers : FinishShutdown(c)
             \/ SolverMisses \/ HealMisses
             \/ Reshape \/ Reuse \/ ForkFails \/ Spawned \/ Ready
             \/ ReadyTimeout \/ ReadReply \/ IoFailed \/ Retry \/ SecondAttempt
             \/ Abandon \/ ForceRestart \/ UNCHANGED vars
      PROVE  UNCHANGED st
  BY <1>5 DEF SolveSlice, SolverMisses, HealMisses, KillDaemon, FinishShutdown,
     Reshape, Reuse, ForkFails, Spawned, Ready, ReadyTimeout, ReadReply,
     IoFailed, Retry, SecondAttempt, Abandon, ForceRestart, vars, process
<1>6. CASE UNCHANGED st
  BY <1>6
<1> QED
  BY <1>1, <1>2, <1>3, <1>4, <1>5, <1>6, Steps

\* A step that starts no process and keeps self._daemon, and shutdowns that
\* wait for the daemon if for anything, keep ShutdownInv; unless a spawn begins.
LEMMA Quiet ==
  ASSUME TypeInv, ShutdownInv,
         daemon' = daemon,
         pc' = "spawn" => pc = "spawn" /\ using' = using,
         \A p \in Slots : st'[p] # "gone" => st[p] # "gone",
         \A c \in Callers : stop'[c] \in {stop[c], daemon, None},
         stop'["solver"] # None => pc' \in Stopping
  PROVE  ShutdownInv'
<1> USE DEF Callers
<1>1. /\ stop \in [Callers -> Slots \cup {None}]
      /\ daemon \in Slots \cup {None}
  BY DEF TypeInv, TypeOK
<1>2. \A c \in Callers : stop[c] # None => stop[c] \in Slots
  BY <1>1
<1>3. ShutdownForgetsItsOwn'
  BY <1>1, <1>2 DEF ShutdownInv, ShutdownForgetsItsOwn, Alive
<1>4. SpawnInv'
  BY <1>1, SlotAssumption DEF ShutdownInv, SpawnInv, Alive, TypeInv, CallInv
<1>5. StopInv' /\ HealInv'
  BY <1>1, <1>2 DEF ShutdownInv, StopInv, HealInv, Alive
<1> QED
  BY <1>3, <1>4, <1>5 DEF ShutdownInv

\* A wait that is over: the daemon the solver loop forgets is not one the
\* watchdog still waits for, because it is gone.
LEMMA FinishShutdownKeeps ==
  ASSUME TypeInv, ShutdownInv, NEW c \in Callers, FinishShutdown(c)
  PROVE  ShutdownInv'
<1> USE SlotAssumption DEF Callers
<1>1. /\ stop \in [Callers -> Slots \cup {None}]
      /\ stop' = [stop EXCEPT ![c] = None]
      /\ daemon' = None /\ UNCHANGED <<st, pc, using>>
  BY DEF FinishShutdown, TypeInv, TypeOK, caller, process
<1>2. ShutdownForgetsItsOwn'
  BY <1>1 DEF ShutdownForgetsItsOwn
<1>3. SpawnInv'
  BY <1>1 DEF ShutdownInv, SpawnInv, TypeInv, CallInv
<1>4. StopInv'
  BY <1>1 DEF ShutdownInv, StopInv
<1>5. HealInv'
  <2>1. CASE c = "heal"
    BY <1>1, <2>1 DEF HealInv
  <2>2. CASE c = "solver"
    <3>1. stop["heal"] # None /\ Alive(stop["heal"]) => stop["heal"] = stop["solver"]
      BY <2>2 DEF FinishShutdown, ShutdownInv, ShutdownForgetsItsOwn, HealInv
    <3>2. ~(stop["heal"] # None /\ Alive(stop["heal"]))
      BY <2>2, <3>1 DEF FinishShutdown
    <3> QED
      BY <1>1, <2>2, <3>2 DEF HealInv, Alive
  <2> QED
    BY <2>1, <2>2
<1> QED
  BY <1>2, <1>3, <1>4, <1>5 DEF ShutdownInv

\* A process is started in a slot nobody refers to.
LEMMA ForkKeeps ==
  ASSUME TypeInv, ShutdownInv, NEW p \in Slots, Fork(p)
  PROVE  ShutdownInv'
<1> USE DEF Callers
<1>1. /\ stop' = stop /\ daemon' = daemon
      /\ pc' = "spawn" /\ using' = p
      /\ p \notin {daemon} \cup {stop[c] : c \in Callers}
      /\ daemon # None => ~Alive(daemon)
  BY DEF Fork, Spawning, Running, wrapper
<1>2. /\ stop \in [Callers -> Slots \cup {None}]
      /\ daemon \in Slots \cup {None}
      /\ \A q \in Slots : q # p => st'[q] = st[q]
  BY DEF Fork, TypeInv, TypeOK
<1>3. ShutdownForgetsItsOwn'
  BY <1>1, <1>2 DEF ShutdownInv, ShutdownForgetsItsOwn, Alive
<1>4. SpawnInv'
  BY <1>1, <1>2 DEF SpawnInv, Alive
<1>5. StopInv'
  BY <1>1 DEF Fork, Spawning, ShutdownInv, StopInv, Stopping
<1>6. HealInv'
  BY <1>1, <1>2 DEF ShutdownInv, HealInv, Alive
<1> QED
  BY <1>3, <1>4, <1>5, <1>6 DEF ShutdownInv

\* It becomes the daemon when the solver loop waits for nothing, and the
\* watchdog for nothing that lives: that would be the daemon there was.
LEMMA SpawnedKeeps ==
  ASSUME TypeInv, ShutdownInv, Spawned
  PROVE  ShutdownInv'
<1> USE DEF Callers
<1>1. /\ daemon' = using /\ pc' = "ready" /\ UNCHANGED <<stop, st>>
      /\ Prompt => ~WakeupDue
  BY DEF Spawned, process
<1>2. stop["solver"] = None
  BY DEF Spawned, ShutdownInv, StopInv, Stopping
<1>3. stop["heal"] # None => ~Alive(stop["heal"])
  BY DEF Spawned, ShutdownInv, SpawnInv, HealInv
<1>4. ShutdownForgetsItsOwn'
  BY <1>1, <1>2, <1>3 DEF ShutdownForgetsItsOwn, WakeupDue, Alive
<1>5. SpawnInv' /\ StopInv' /\ HealInv'
  BY <1>1, <1>2, <1>3 DEF SpawnInv, StopInv, HealInv, Alive
<1> QED
  BY <1>4, <1>5 DEF ShutdownInv

\* Every step keeps ShutdownInv.
LEMMA ShutdownStep == TypeInv /\ ShutdownInv /\ [Next]_vars => ShutdownInv'
<1> SUFFICES ASSUME TypeInv, ShutdownInv, [Next]_vars PROVE ShutdownInv'
  OBVIOUS
<1> USE DEF Callers
<1>0. /\ TypeOK
      /\ stop["solver"] # None => pc \in Stopping
  BY DEF TypeInv, ShutdownInv, StopInv
<1>1. CASE \E p \in Slots : Fork(p)
  BY <1>1, ForkKeeps
<1>2. CASE \E c \in Callers : FinishShutdown(c)
  BY <1>2, FinishShutdownKeeps
<1>3. CASE Spawned
  BY <1>3, SpawnedKeeps
<1>4. CASE /\ ~(\E p \in Slots : Fork(p)) /\ ~Spawned
           /\ ~(\E c \in Callers : FinishShutdown(c))
  <2>1. \A q \in Slots : st'[q] # "gone" => st[q] # "gone"
    BY <1>4, RevivesNone
  <2>2. CASE Reshape \/ ReadyTimeout \/ IoFailed
    <3>1. /\ BeginShutdown("solver") /\ daemon' = daemon
          /\ pc' \in Stopping /\ pc' # "spawn"
      BY <2>2 DEF Reshape, ReadyTimeout, IoFailed, wrapper, Stopping
    <3>2. \A c \in Callers : stop'[c] \in {stop[c], daemon, None}
      BY <1>0, <3>1, BeginShutdownWaits
    <3> QED
      BY <2>1, <3>1, <3>2, Quiet
  <2>3. CASE ForceRestart
    <3>1. BeginShutdown("heal") /\ UNCHANGED <<daemon, pc, using>> /\ daemon # None
      BY <2>3 DEF ForceRestart, wrapper, caller
    <3>2. /\ stop'["solver"] = stop["solver"]
          /\ stop'["heal"] \in {stop["heal"], daemon, None}
      BY <1>0, <3>1, BeginShutdownWaits
    <3> QED
      BY <1>0, <2>1, <3>1, <3>2, Quiet
  <2>4. ASSUME \/ \E j \in Jobs : SolveSlice(j)
               \/ Reuse \/ ForkFails \/ Ready \/ ReadReply
               \/ Retry \/ SecondAttempt \/ Abandon
        PROVE  ShutdownInv'
    <3>1. /\ UNCHANGED <<daemon, stop>> /\ pc' # "spawn"
          /\ stop["solver"] = None
      BY <1>0, <2>4
      DEF SolveSlice, Reuse, ForkFails, Spawning, Ready, ReadReply, Retry,
          SecondAttempt, Abandon, Return, Raise, Write, wrapper, Stopping
    <3> QED
      BY <2>1, <3>1, Quiet
  <2>5. ASSUME \/ SolverMisses \/ DropSession
        PROVE  ShutdownInv'
    <3>1. /\ daemon' = daemon /\ pc' # "spawn" /\ stop'["solver"] = None
          /\ stop'["heal"] \in {stop["heal"], None}
      BY <1>0, <2>5
      DEF SolverMisses, KillDaemon, DropSession, Raise, wrapper, TypeOK
    <3> QED
      BY <2>1, <3>1, Quiet
  <2>6. CASE HealMisses
    <3>1. /\ UNCHANGED <<daemon, pc, using, st>> /\ stop'["solver"] = stop["solver"]
          /\ stop'["heal"] = None
      BY <1>0, <2>6 DEF HealMisses, KillDaemon, wrapper, caller, process, TypeOK
    <3> QED
      BY <1>0, <2>1, <3>1, Quiet
  <2>7. ASSUME \/ \E p \in Slots : ProcessStep(p)
               \/ \E c \in Callers : Kills(c)
               \/ Preempt \/ UNCHANGED vars
        PROVE  ShutdownInv'
    <3>1. UNCHANGED <<daemon, stop, pc, using>>
      BY <2>7
      DEF ProcessStep, Boot, TakeJob, FinishJob, ExitAtEof, Crash, Kills,
          KillDaemon, Preempt, vars, wrapper, caller
    <3> QED
      BY <1>0, <2>1, <3>1, Quiet
  <2> QED
    BY <1>4, <2>2, <2>3, <2>4, <2>5, <2>6, <2>7, Steps
<1> QED
  BY <1>1, <1>2, <1>3, <1>4

LEMMA InitShutdown == Init => ShutdownInv
BY DEF Init, ShutdownInv, ShutdownForgetsItsOwn, SpawnInv, StopInv, HealInv,
   Callers

LEMMA ShutdownAlways == Spec => [](TypeInv /\ ShutdownInv)
BY InitShutdown, ShutdownStep, TypeInvAlways, PTL DEF Spec

-----------------------------------------------------------------------------
(* One process. *)

\* A step that starts no process and keeps self._daemon leaves none behind.
LEMMA QuietOwned ==
  ASSUME NoOrphan,
         daemon' = daemon,
         pc = "spawn" => pc' = "spawn" /\ using' = using,
         \A p \in Slots : st'[p] # "gone" => st[p] # "gone"
  PROVE  NoOrphan'
BY DEF NoOrphan, Owned, Alive

\* The process a finished wait was for is the daemon it forgets, and it is
\* gone; only a late watchdog may forget another.
LEMMA FinishShutdownOwned ==
  ASSUME TypeInv, ShutdownInv, NoOrphan, NEW c \in Callers, FinishShutdown(c),
         Prompt \/ c # "heal"
  PROVE  NoOrphan'
<1>1. \A p \in Slots : Alive(p) => p # daemon
  BY SlotAssumption DEF FinishShutdown, ShutdownInv, ShutdownForgetsItsOwn
<1> QED
  BY <1>1 DEF FinishShutdown, process, caller, NoOrphan, Owned, Alive

\* A process is started only when no other lives.
LEMMA ForkOwned ==
  ASSUME TypeInv, NoOrphan, NEW p \in Slots, Fork(p)
  PROVE  NoOrphan'
<1>1. pc # "spawn" /\ ~Running
  BY DEF Fork, Spawning
<1>2. \A q \in Slots : ~Alive(q)
  BY <1>1, SlotAssumption DEF Running, NoOrphan, Owned
<1> QED
  BY <1>2 DEF Fork, NoOrphan, Owned, Alive, TypeInv, TypeOK

\* It becomes the daemon when the daemon there was is gone.
LEMMA SpawnedOwned ==
  ASSUME TypeInv, ShutdownInv, NoOrphan, Spawned
  PROVE  NoOrphan'
<1>1. \A q \in Slots : Alive(q) => q = using
  BY SlotAssumption DEF Spawned, ShutdownInv, NoOrphan, Owned, SpawnInv
<1> QED
  BY <1>1 DEF Spawned, NoOrphan, Owned, Alive, process

\* A dropped session kills the process it was starting.
LEMMA DropSessionOwned ==
  ASSUME TypeInv, NoOrphan, DropSession
  PROVE  NoOrphan'
<1>1. \A q \in Slots : st'[q] # "gone" => st[q] # "gone" /\ q = daemon
  <2>1. CASE pc = "spawn"
    <3>1. using \in Slots /\ Die(using)
      BY <2>1 DEF DropSession, TypeInv, CallInv
    <3>2. st'[using] = "gone"
      BY <3>1 DEF Die, TypeInv, TypeOK
    <3> QED
      BY <2>1, <3>1, <3>2, DieRevivesNone DEF TypeInv, NoOrphan, Owned, Alive
  <2>2. CASE pc # "spawn"
    BY <2>2 DEF DropSession, process, NoOrphan, Owned, Alive
  <2> QED
    BY <2>1, <2>2
<1> QED
  BY <1>1 DEF DropSession, wrapper, NoOrphan, Owned, Alive

\* Nothing but a late end of the watchdog's shutdown leaves a process behind.
LEMMA OwnedStep ==
  ASSUME TypeInv, ShutdownInv, NoOrphan, [Next]_vars,
         Prompt \/ ~FinishShutdown("heal")
  PROVE  NoOrphan'
<1>1. CASE \E p \in Slots : Fork(p)
  BY <1>1, ForkOwned
<1>2. CASE \E c \in Callers : FinishShutdown(c)
  BY <1>2, FinishShutdownOwned
<1>3. CASE Spawned
  BY <1>3, SpawnedOwned
<1>4. CASE DropSession
  BY <1>4, DropSessionOwned
<1>5. CASE /\ ~(\E p \in Slots : Fork(p)) /\ ~Spawned /\ ~DropSession
           /\ ~(\E c \in Callers : FinishShutdown(c))
  <2>1. \A q \in Slots : st'[q] # "gone" => st[q] # "gone"
    BY <1>5, RevivesNone
  <2>2. ASSUME \/ \E j \in Jobs : SolveSlice(j)
               \/ SolverMisses \/ Reshape \/ Reuse \/ ForkFails \/ Ready
               \/ ReadyTimeout \/ ReadReply \/ IoFailed \/ Retry
               \/ SecondAttempt \/ Abandon
        PROVE  daemon' = daemon /\ pc # "spawn"
    BY <2>2
    DEF SolveSlice, SolverMisses, KillDaemon, ShutdownInv, StopInv, Stopping,
        Reshape, Reuse, ForkFails, Spawning, Ready, ReadyTimeout, ReadReply,
        IoFailed, Retry, SecondAttempt, Abandon, wrapper
  <2>3. ASSUME \/ \E p \in Slots : ProcessStep(p)
               \/ \E c \in Callers : Kills(c)
               \/ HealMisses \/ ForceRestart \/ Preempt \/ UNCHANGED vars
        PROVE  UNCHANGED <<daemon, pc, using>>
    BY <2>3
    DEF ProcessStep, Boot, TakeJob, FinishJob, ExitAtEof, Crash, Kills,
        HealMisses, KillDaemon, ForceRestart, Preempt, vars, wrapper, caller
  <2> QED
    BY <1>5, <2>1, <2>2, <2>3, QuietOwned, Steps
<1> QED
  BY <1>1, <1>2, <1>3, <1>4, <1>5

LEMMA InitOwned == Init => NoOrphan
BY DEF Init, NoOrphan, Alive

-----------------------------------------------------------------------------
(* Theorems. *)

\* On every Python, whether a finished wait resumes at once or late: the solver
\* loop's shutdown forgets and kills no daemon but the one it asked to exit;
\* the watchdog's kills no other, and forgets no other unless it resumes late,
\* after the process it asked has been replaced.
THEOREM ForgetsItsOwn == Spec => []ShutdownForgetsItsOwn
<1>1. ShutdownInv => ShutdownForgetsItsOwn
  BY DEF ShutdownInv
<1> QED
  BY <1>1, ShutdownAlways, PTL

\* On every Python, if a solver process is left behind, it is by a
\* force_restart that resumes late, and by no other step: not by a crash, a
\* retry, a dropped session or a shutdown of the solver loop's own.
THEOREM OnlyALateBounceOrphans ==
  Spec => [][NoOrphan => NoOrphan' \/ (~Prompt /\ FinishShutdown("heal"))]_vars
<1>1. TypeInv /\ ShutdownInv /\ [Next]_vars =>
        [NoOrphan => NoOrphan' \/ (~Prompt /\ FinishShutdown("heal"))]_vars
  BY OwnedStep
<1> QED
  BY <1>1, ShutdownAlways, PTL DEF Spec

\* Whatever the order in which the solver loop and the heal watchdog close,
\* kill and forget the daemon, every live solver process is the one
\* self._daemon refers to, or the one being started; on a Python where a
\* finished wait resumes before a spawn.
THEOREM NoOrphanEver == ASSUME Prompt PROVE Spec => []NoOrphan
<1>1. TypeInv /\ ShutdownInv /\ NoOrphan /\ [Next]_vars => NoOrphan'
  BY OwnedStep
<1> QED
  BY InitOwned, <1>1, ShutdownAlways, PTL DEF Spec
=============================================================================
