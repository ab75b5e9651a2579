----------------------------- MODULE HealWatchdog -----------------------------
(***************************************************************************)
(* StratumClient._heal_loop (stratum_client.py) in discrete time, against  *)
(* what it watches: the slices of GbtSolveWrapper with their own timeouts, *)
(* the outcomes of submissions, and sessions that come and go.             *)
(*                                                                         *)
(* The unit of time is cfg.heal_check_interval_secs. Between two ticks     *)
(* events happen in any order, so an age of n ticks is a time of more than *)
(* n-1 and less than n+1 units: MayExceed and MustExceed compare it.       *)
(***************************************************************************)
EXTENDS Naturals

CONSTANTS Stall,         \* cfg.heal_solver_stall_secs
          Grace,         \* cfg.heal_first_slice_grace_secs
          Cooldown,      \* cfg.heal_cooldown_secs
          Escalations,   \* how often the cooldown grows (the code's 5)
          Threshold,     \* cfg.heal_consec_rejects
          None,          \* not in force_restart
          ReadTimeout,   \* wait for a slice's answer (_send_job_with_retry)
          ReadyTimeout   \* wait for a new daemon (_ensure_daemon)

ASSUME NoneAssumption == None \notin {0, 1}
ASSUME TimeAssumption ==
  /\ {Stall, Grace, Cooldown, ReadTimeout, ReadyTimeout} \subseteq Nat
  /\ {Escalations, Threshold} \subseteq Nat \ {0}

\* The longest a slice can take: two attempts, each on a new daemon; and with
\* a bounce that makes it start over, at the worst moment.
LongestSlice == 2 * (ReadyTimeout + ReadTimeout + 1)
LongestBounced == LongestSlice + 2 * ReadyTimeout + ReadTimeout + 2

ASSUME CooldownAssumption == Cooldown > LongestSlice + 2

VARIABLES
  up,       \* a session is up: the solver loop and the watchdog run
  job,      \* it has a job
  pc,       \* the await the slice is suspended at ("idle": no slice)
  attempt,  \* of _send_job_with_retry
  timer,    \* how long that await has lasted
  daemon,   \* self._daemon is set
  checked,  \* the watchdog has had its turn since the last tick
  heal,     \* how long it has been in force_restart, or None
  heals,    \* _heals_without_accept, counted up to Escalations
  streak,   \* _consec_rejects, counted up to Threshold
  \* ages of timestamps
  silence,  \* _last_solver_result_at
  age,      \* _session_started_at
  since,    \* _last_heal_at; initially the time the host has been up
  \* history
  dry,      \* how long the slices of this session have not had an end
  failed,   \* a daemon has failed to start since then
  chance    \* a slice has ended, or there was no job, since the last bounce

slices == <<job, pc, attempt, timer, dry, failed>>
watchdog == <<checked, heal, heals, since>>
vars == <<up, slices, daemon, watchdog, streak, silence, age, chance>>

\* An age is followed until it exceeds the limit it is compared with.
Ages(limit) == 0..(limit + 1)
Later(n, limit) == IF n <= limit THEN n + 1 ELSE n
MayExceed(n, limit) == n >= limit
MustExceed(n, limit) == n > limit

\* How long each await can last; what takes less than a check interval (the
\* 5 s of a shutdown, the pauses of 1 s) may still see one tick.
Limit == [boot |-> ReadyTimeout, read |-> ReadTimeout, retry |-> 1, error |-> 1]

LongestCooldown == Cooldown * (1 + Escalations)

TypeOK ==
  /\ up \in BOOLEAN
  /\ job \in BOOLEAN
  /\ pc \in {"idle"} \cup DOMAIN Limit
  /\ attempt \in {1, 2}
  /\ timer \in 0..(IF pc = "idle" THEN 0 ELSE Limit[pc])
  /\ daemon \in BOOLEAN
  /\ checked \in BOOLEAN
  /\ heal \in {0, 1, None}
  /\ heals \in 0..Escalations
  /\ streak \in 0..Threshold
  /\ silence \in Ages(Stall)
  /\ age \in Ages(Grace)
  /\ since \in Ages(LongestCooldown)
  /\ dry \in Ages(LongestBounced)
  /\ failed \in BOOLEAN
  /\ chance \in BOOLEAN

Init ==
  /\ up = FALSE
  /\ job = FALSE
  /\ pc = "idle"
  /\ attempt = 1
  /\ timer = 0
  /\ daemon = FALSE
  /\ checked = TRUE
  /\ heal = None
  /\ heals = 0
  /\ streak = 0
  /\ silence = 0
  /\ age = 0
  /\ since \in Ages(LongestCooldown)
  /\ dry = 0
  /\ failed = FALSE
  /\ chance = TRUE

-----------------------------------------------------------------------------
(* Sessions. *)

\* A session is authorized: a fresh window for the watchdog.
SessionBegins ==
  /\ ~up
  /\ up' = TRUE
  /\ silence' = 0
  /\ age' = 0
  /\ streak' = 0
  /\ checked' = TRUE
  /\ chance' = TRUE
  /\ UNCHANGED <<slices, daemon, heal, heals, since>>

\* It ends: the slice and the watchdog are cancelled wherever they are. The
\* daemon stays, also where _shutdown_daemon is cancelled while it waits, and a
\* bounce under way leaves no trace in the watchdog.
SessionEnds ==
  /\ up
  /\ up' = FALSE
  /\ job' = FALSE
  /\ pc' = "idle"
  /\ attempt' = 1
  /\ timer' = 0
  /\ dry' = 0
  /\ failed' = FALSE
  /\ heal' = None
  /\ daemon' \in IF pc \in {"retry", "error"} THEN BOOLEAN ELSE {daemon}
  /\ UNCHANGED <<checked, heals, since, streak, silence, age, chance>>

\* The first notify of the session.
JobArrives ==
  /\ up
  /\ ~job
  /\ job' = TRUE
  /\ chance' = TRUE
  /\ UNCHANGED <<up, pc, attempt, timer, dry, failed, daemon, watchdog, streak,
                 silence, age>>

-----------------------------------------------------------------------------
(* A slice (solve_slice), as far as it takes time. *)

Goto(p) == pc' = p /\ timer' = 0

\* It needs a daemon: the one there is, if it has not exited, or a new one.
Dispatch(n) ==
  /\ attempt' = n
  /\ \/ daemon /\ Goto("read")
     \/ Goto("boot")
  /\ daemon' = TRUE

BeginSlice ==
  /\ pc = "idle"
  /\ job
  /\ Dispatch(1)
  /\ UNCHANGED <<up, job, dry, failed, watchdog, streak, silence, age, chance>>

\* solve_slice returns, with or without an answer: the solver is taken to be
\* alive.
Ended ==
  /\ Goto("idle")
  /\ attempt' = 1
  /\ silence' = 0
  /\ dry' = 0
  /\ failed' = FALSE
  /\ chance' = TRUE
  /\ UNCHANGED <<up, job, watchdog, streak, age>>

Booted ==
  /\ pc = "boot"
  /\ daemon
  /\ Goto("read")
  /\ UNCHANGED <<up, job, attempt, dry, failed, daemon, watchdog, streak,
                 silence, age, chance>>

\* The daemon does not start, or is bounced before it has: an exception. The
\* solver loop pauses; no result, no new timestamp.
BootFails ==
  /\ pc = "boot"
  /\ Goto("error")
  /\ failed' = (failed \/ daemon)
  /\ daemon' = FALSE
  /\ UNCHANGED <<up, job, attempt, dry, watchdog, streak, silence, age, chance>>

ErrorOver ==
  /\ pc = "error"
  /\ Goto("idle")
  /\ attempt' = 1
  /\ UNCHANGED <<up, job, dry, failed, daemon, watchdog, streak, silence, age,
                 chance>>

Answered ==
  /\ pc = "read"
  /\ daemon
  /\ Ended
  /\ UNCHANGED daemon

\* The timeout, or the daemon has died or been bounced: it is shut down.
IoFailed ==
  /\ pc = "read"
  /\ Goto("retry")
  /\ daemon' = FALSE
  /\ UNCHANGED <<up, job, attempt, dry, failed, watchdog, streak, silence, age,
                 chance>>

\* Mutant of Retry: the attempts are not counted.
RetryForEver ==
  /\ pc = "retry"
  /\ Dispatch(2)
  /\ UNCHANGED <<up, job, dry, failed, watchdog, streak, silence, age, chance>>

\* A second attempt, or found=False.
Retry ==
  /\ pc = "retry"
  /\ \/ /\ attempt = 1
        /\ Dispatch(2)
        /\ UNCHANGED <<up, job, dry, failed, watchdog, streak, silence, age,
                       chance>>
     \/ attempt = 2 /\ Ended /\ UNCHANGED daemon

-----------------------------------------------------------------------------
(* Submissions. *)

ShareAccepted ==
  /\ streak' = 0
  /\ heals' = 0
  /\ UNCHANGED <<up, slices, daemon, checked, heal, since, silence, age, chance>>

ShareRejected ==
  /\ streak < Threshold
  /\ streak' = streak + 1
  /\ UNCHANGED <<up, slices, daemon, watchdog, silence, age, chance>>

-----------------------------------------------------------------------------
(* The watchdog. *)

CooldownNow == Cooldown * (1 + heals)
MaybeSilent == MayExceed(silence, Stall) /\ MayExceed(age, Grace)
SurelySilent == MustExceed(silence, Stall) /\ MustExceed(age, Grace)

Turn == up /\ heal = None /\ ~checked

\* Mutant of Pass: the time of every check is recorded as that of a bounce.
PassRecorded ==
  /\ Turn
  /\ \/ ~MustExceed(since, CooldownNow)
     \/ streak < Threshold /\ ~SurelySilent
  /\ checked' = TRUE
  /\ since' = 0
  /\ UNCHANGED <<up, slices, daemon, heal, heals, streak, silence, age, chance>>

\* Nothing to do, or too soon after the last bounce.
Pass ==
  /\ Turn
  /\ \/ ~MustExceed(since, CooldownNow)
     \/ streak < Threshold /\ ~SurelySilent
  /\ checked' = TRUE
  /\ UNCHANGED <<up, slices, daemon, heal, heals, since, streak, silence, age,
                 chance>>

\* A trigger fires: force_restart begins.
Bounce ==
  /\ Turn
  /\ MayExceed(since, CooldownNow)
  /\ checked' = TRUE
  /\ heal' = 0
  /\ chance' = FALSE
  /\ UNCHANGED <<up, slices, daemon, heals, since, streak, silence, age>>

BounceOnRejects == streak >= Threshold /\ Bounce
BounceOnSilence == streak < Threshold /\ MaybeSilent /\ Bounce

\* Mutant of BounceEnds: the time of the bounce is not recorded.
BounceEndsUnrecorded ==
  /\ heal # None
  /\ heal' = None
  /\ daemon' = FALSE
  /\ silence' = heal
  /\ heals' = IF heals < Escalations THEN heals + 1 ELSE heals
  /\ streak' = 0
  /\ UNCHANGED <<up, slices, checked, since, age, chance>>

\* force_restart is over. The timestamps it writes are those of the decision.
BounceEnds ==
  /\ heal # None
  /\ heal' = None
  /\ daemon' = FALSE
  /\ since' = heal
  /\ silence' = heal
  /\ heals' = IF heals < Escalations THEN heals + 1 ELSE heals
  /\ streak' = 0
  /\ UNCHANGED <<up, slices, checked, age, chance>>

-----------------------------------------------------------------------------
\* Mutant of Waits: no timeout.
WaitsForEver == \/ pc = "idle" /\ ~job
                \/ pc \in {"boot", "read"} /\ daemon

\* What has its time now is done before time goes on.
Waits == \/ pc = "idle" /\ ~job
         \/ /\ pc \in DOMAIN Limit
            /\ timer < Limit[pc]
            /\ pc \in {"boot", "read"} => daemon
Tick ==
  /\ Waits
  /\ up => checked
  /\ heal \in {0, None}
  /\ timer' = IF pc = "idle" THEN 0 ELSE timer + 1
  /\ heal' = IF heal = 0 THEN 1 ELSE None
  /\ silence' = Later(silence, Stall)
  /\ age' = Later(age, Grace)
  /\ since' = Later(since, LongestCooldown)
  /\ dry' = IF job THEN Later(dry, LongestBounced) ELSE 0
  /\ checked' = (heal # None)
  /\ UNCHANGED <<up, job, pc, attempt, failed, daemon, heals, streak, chance>>

SliceStep == \/ BeginSlice \/ Booted \/ BootFails \/ ErrorOver
             \/ Answered \/ IoFailed \/ Retry
HealStep == Pass \/ BounceOnRejects \/ BounceOnSilence \/ BounceEnds

Next ==
  \/ SessionBegins \/ SessionEnds \/ JobArrives
  \/ SliceStep
  \/ ShareAccepted \/ ShareRejected
  \/ HealStep
  \/ Tick

Spec == Init /\ [][Next]_vars
\* Time passes, coroutines whose await is over run, timeouts expire.
Fairness == SF_vars(Tick) /\ WF_vars(SliceStep) /\ WF_vars(HealStep)
FairSpec == Spec /\ Fairness

-----------------------------------------------------------------------------
(* Properties. *)

\* As long as daemons start when they are asked to, a slice is over within two
\* attempts, or as much again if a bounce makes it start over: the timeouts of
\* the wrapper and the watchdog's bounces do not chase each other.
EverySliceIsOver == ~failed => dry <= LongestBounced

\* After a bounce a slice gets its chance before the next one: the cooldown is
\* longer than any slice, however the bounce met the slice in flight.
ChancePerBounce == [][Bounce /\ job /\ ~failed => chance]_vars

\* A solver whose shares are rejected is bounced, unless a share is accepted
\* or the session ends: no cooldown holds the watchdog back for ever.
WedgeIsHealed == up /\ streak = Threshold ~> ~up \/ streak < Threshold
=============================================================================
