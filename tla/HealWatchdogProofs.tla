-------------------------- MODULE HealWatchdogProofs --------------------------
(***************************************************************************)
(* Proofs about HealWatchdog, for all timeouts, thresholds and cooldowns   *)
(* that satisfy its assumptions. The invariant measures how far a slice    *)
(* has come (Spent) against the two clocks: the time since the last slice  *)
(* ended (dry) and the time since the last bounce (since).                 *)
(***************************************************************************)
EXTENDS HealWatchdog, TLAPS

\* The longest it can have taken to get where the slice is.
Spent == timer + (IF attempt = 2 THEN ReadyTimeout + ReadTimeout + 1 ELSE 0)
               + (IF pc = "read" THEN ReadyTimeout
                  ELSE IF pc = "retry" THEN ReadyTimeout + ReadTimeout ELSE 0)

\* Without a job there is no slice and nothing to wait for.
RestInv == ~job => pc = "idle" /\ dry = 0
IdleInv == pc = "idle" => attempt = 1

\* A daemon that is gone while it starts has been bounced this very moment.
BootInv == pc = "boot" /\ ~daemon => since <= 1 /\ heal = None

\* A start that fails for no fault of the daemon's follows a bounce at once.
ErrorInv == pc = "error" /\ ~failed => since <= 1 + timer /\ heal = None

\* Since the last bounce no more time has passed than the slice it hit, and
\* the one it started over, can have taken.
SinceInv == job /\ ~failed /\ ~chance /\ heal = None /\ pc # "error"
              => since <= 2 + Spent

\* How long the current slice can have taken: undisturbed; in the pause after
\* a bounce has hit its daemon while it started; after that pause.
Undisturbed == pc # "error" /\ dry <= Spent
Disturbed == pc = "error" /\ dry <= 2 * ReadyTimeout + ReadTimeout + 1 + timer
StartedOver == /\ pc # "error"
               /\ pc = "boot" => daemon
               /\ heal = None
               /\ dry <= 2 * ReadyTimeout + ReadTimeout + 2 + Spent
               /\ since <= 2 + Spent
DryInv == job /\ ~failed => Undisturbed \/ Disturbed \/ StartedOver

WatchInv == /\ TypeOK
            /\ RestInv /\ IdleInv /\ BootInv /\ ErrorInv
            /\ SinceInv /\ DryInv

USE DEF MayExceed, MustExceed

\* The constants are numbers, and the cooldown outlasts a slice however often
\* it has grown.
LEMMA Constants ==
  /\ Stall \in Nat /\ Grace \in Nat /\ Cooldown \in Nat
  /\ ReadTimeout \in Nat /\ ReadyTimeout \in Nat
  /\ Escalations \in Nat /\ Escalations > 0
  /\ Threshold \in Nat /\ Threshold > 0
  /\ LongestCooldown \in Nat /\ LongestBounced \in Nat
<1>1. /\ Stall \in Nat /\ Grace \in Nat /\ Cooldown \in Nat
      /\ ReadTimeout \in Nat /\ ReadyTimeout \in Nat
      /\ Escalations \in Nat /\ Escalations > 0
      /\ Threshold \in Nat /\ Threshold > 0
  BY TimeAssumption
<1>2. \A c, e \in Nat : c * (1 + e) \in Nat
  OBVIOUS
<1>. QED BY <1>1, <1>2 DEF LongestCooldown, LongestBounced, LongestSlice

LEMMA CooldownOutlasts ==
  ASSUME heals \in 0..Escalations
  PROVE  CooldownNow \in Nat /\ CooldownNow > LongestSlice + 2
<1>1. \A c, h \in Nat : c * (1 + h) \in Nat /\ c * (1 + h) >= c
  <2>1. \A c, h \in Nat : c * (1 + h) = c + c * h /\ c * h \in Nat
    OBVIOUS
  <2>. QED BY <2>1
<1>2. heals \in Nat
  BY Constants
<1>3. LongestSlice \in Nat
  BY Constants DEF LongestSlice
<1>. QED BY <1>1, <1>2, <1>3, Constants, CooldownAssumption DEF CooldownNow

\* A slice that is not in its error pause has not spent more than a slice.
LEMMA SpentBound ==
  ASSUME TypeOK, pc # "error"
  PROVE  Spent \in Nat /\ Spent <= LongestSlice
BY Constants DEF TypeOK, Limit, Spent, LongestSlice

\* No bounce is decided so soon after the last one.
LEMMA NoBounceYet ==
  ASSUME TypeOK, Bounce
  PROVE  since > LongestSlice + 2
<1>1. heals \in 0..Escalations
  BY DEF TypeOK
<1>2. since \in Nat /\ LongestSlice \in Nat
  BY Constants DEF TypeOK, Ages, LongestSlice
<1>. QED BY <1>1, <1>2, CooldownOutlasts DEF Bounce

-----------------------------------------------------------------------------
(* Type correctness. *)

\* The actions, with the two bounces as one.
LEMMA Actions ==
  ASSUME Next
  PROVE  \/ SessionBegins \/ SessionEnds \/ JobArrives
         \/ BeginSlice \/ Booted \/ BootFails \/ ErrorOver
         \/ Answered \/ IoFailed \/ Retry
         \/ ShareAccepted \/ ShareRejected
         \/ Pass \/ Bounce \/ BounceEnds
         \/ Tick
BY DEF Next, SliceStep, HealStep, BounceOnRejects, BounceOnSilence

\* The type invariant in two parts, for the provers' sake.
Flags == /\ up \in BOOLEAN /\ job \in BOOLEAN /\ daemon \in BOOLEAN
         /\ checked \in BOOLEAN /\ failed \in BOOLEAN /\ chance \in BOOLEAN
Numbers == /\ pc \in {"idle", "boot", "read", "retry", "error"}
           /\ attempt \in {1, 2}
           /\ timer \in 0..(IF pc = "idle" THEN 0 ELSE Limit[pc])
           /\ heal \in {0, 1, None}
           /\ heals \in 0..Escalations
           /\ streak \in 0..Threshold
           /\ silence \in Ages(Stall)
           /\ age \in Ages(Grace)
           /\ since \in Ages(LongestCooldown)
           /\ dry \in Ages(LongestBounced)

LEMMA TypeParts == TypeOK <=> Flags /\ Numbers
BY DEF TypeOK, Flags, Numbers, Limit

LEMMA FlagStep ==
  ASSUME Flags, [Next]_vars
  PROVE  Flags'
<1>. USE DEF Flags
<1>1. CASE SessionBegins
  BY <1>1, Zenon DEF SessionBegins, slices, watchdog
<1>2. CASE SessionEnds
  BY <1>2, Zenon DEF SessionEnds, slices, watchdog
<1>3. CASE JobArrives
  BY <1>3, Zenon DEF JobArrives, slices, watchdog
<1>4. CASE BeginSlice
  BY <1>4, Zenon DEF BeginSlice, Dispatch, Goto, slices, watchdog
<1>5. CASE Booted
  BY <1>5, Zenon DEF Booted, Goto, slices, watchdog
<1>6. CASE BootFails
  BY <1>6, Zenon DEF BootFails, Goto, slices, watchdog
<1>7. CASE ErrorOver
  BY <1>7, Zenon DEF ErrorOver, Goto, slices, watchdog
<1>8. CASE Answered
  BY <1>8, Zenon DEF Answered, Goto, Ended, slices, watchdog
<1>9. CASE IoFailed
  BY <1>9, Zenon DEF IoFailed, Goto, slices, watchdog
<1>10. CASE Retry
  BY <1>10, Zenon DEF Retry, Goto, Ended, Dispatch, slices, watchdog
<1>11. CASE ShareAccepted
  BY <1>11, Zenon DEF ShareAccepted, slices, watchdog
<1>12. CASE ShareRejected
  BY <1>12, Zenon DEF ShareRejected, slices, watchdog
<1>13. CASE Pass
  BY <1>13, Zenon DEF Pass, Turn, slices, watchdog
<1>14. CASE Bounce
  BY <1>14, Zenon DEF Bounce, Turn, slices, watchdog
<1>15. CASE BounceEnds
  BY <1>15, Zenon DEF BounceEnds, slices, watchdog
<1>16. CASE Tick
  BY <1>16, Zenon DEF Tick, Waits, Later, slices, watchdog
<1>17. CASE UNCHANGED vars
  BY <1>17, Zenon DEF vars, slices, watchdog
<1>. QED BY Actions, <1>1, <1>2, <1>3, <1>4, <1>5, <1>6, <1>7, <1>8, <1>9, <1>10, <1>11, <1>12, <1>13, <1>14, <1>15, <1>16, <1>17

LEMMA NumberStep ==
  ASSUME Numbers, [Next]_vars
  PROVE  Numbers'
<1>. USE Constants DEF Numbers, Ages, Limit
<1>1. CASE SessionBegins
  BY <1>1 DEF SessionBegins, slices, watchdog
<1>2. CASE SessionEnds
  BY <1>2 DEF SessionEnds, slices, watchdog
<1>3. CASE JobArrives
  BY <1>3 DEF JobArrives, slices, watchdog
<1>4. CASE BeginSlice
  BY <1>4 DEF BeginSlice, Dispatch, Goto, slices, watchdog
<1>5. CASE Booted
  BY <1>5 DEF Booted, Goto, slices, watchdog
<1>6. CASE BootFails
  BY <1>6 DEF BootFails, Goto, slices, watchdog
<1>7. CASE ErrorOver
  BY <1>7 DEF ErrorOver, Goto, slices, watchdog
<1>8. CASE Answered
  BY <1>8 DEF Answered, Goto, Ended, slices, watchdog
<1>9. CASE IoFailed
  BY <1>9 DEF IoFailed, Goto, slices, watchdog
<1>10. CASE Retry
  BY <1>10 DEF Retry, Goto, Ended, Dispatch, slices, watchdog
<1>11. CASE ShareAccepted
  BY <1>11 DEF ShareAccepted, slices, watchdog
<1>12. CASE ShareRejected
  BY <1>12 DEF ShareRejected, slices, watchdog
<1>13. CASE Pass
  BY <1>13 DEF Pass, Turn, slices, watchdog
<1>14. CASE Bounce
  BY <1>14 DEF Bounce, Turn, slices, watchdog
<1>15. CASE BounceEnds
  BY <1>15 DEF BounceEnds, slices, watchdog
<1>16. CASE Tick
  BY <1>16 DEF Tick, Waits, Later, slices, watchdog
<1>17. CASE UNCHANGED vars
  BY <1>17 DEF vars, slices, watchdog
<1>. QED BY Actions, <1>1, <1>2, <1>3, <1>4, <1>5, <1>6, <1>7, <1>8, <1>9, <1>10, <1>11, <1>12, <1>13, <1>14, <1>15, <1>16, <1>17

\* Every step keeps the types.
LEMMA TypeStep ==
  ASSUME TypeOK, [Next]_vars
  PROVE  TypeOK'
<1>1. Flags' /\ Numbers'
  BY TypeParts, FlagStep, NumberStep
<1>2. TypeOK' <=> Flags' /\ Numbers'
  BY TypeParts, PTL
<1>. QED BY <1>1, <1>2

-----------------------------------------------------------------------------
(* The invariant. *)

\* What the parts of the invariant need of the types, unfolded.
LEMMA Typed ==
  ASSUME TypeOK
  PROVE  /\ pc \in {"idle", "boot", "read", "retry", "error"}
         /\ attempt \in {1, 2}
         /\ timer \in Nat
         /\ pc = "idle" => timer = 0
         /\ pc = "boot" => timer <= ReadyTimeout
         /\ pc = "read" => timer <= ReadTimeout
         /\ pc \in {"retry", "error"} => timer <= 1
         /\ heal \in {0, 1, None}
         /\ since \in Nat /\ dry \in Nat
BY Constants DEF TypeOK, Ages, Limit

\* Every step keeps it.
LEMMA WatchStep ==
  ASSUME WatchInv, [Next]_vars
  PROVE  WatchInv'
<1>0. TypeOK /\ TypeOK'
  BY TypeStep DEF WatchInv
<1>. USE Typed, <1>0, Constants, NoneAssumption
     DEF WatchInv, RestInv, IdleInv, BootInv, ErrorInv, SinceInv, DryInv,
         Undisturbed, Disturbed, StartedOver, Spent
<1>1. CASE SessionBegins
  BY <1>1 DEF SessionBegins, slices, watchdog
<1>2. CASE SessionEnds
  BY <1>2 DEF SessionEnds, slices, watchdog
<1>3. CASE JobArrives
  BY <1>3 DEF JobArrives, slices, watchdog
<1>4. CASE BeginSlice
  BY <1>4 DEF BeginSlice, Dispatch, Goto, slices, watchdog
<1>5. CASE Booted
  BY <1>5 DEF Booted, Goto, slices, watchdog
<1>6. CASE BootFails
  <2>. USE <1>6 DEF BootFails, Goto, slices, watchdog
  <2>1. (RestInv /\ IdleInv /\ BootInv /\ SinceInv)'
    OBVIOUS
  <2>2. ~failed' => ~daemon /\ ~failed
    OBVIOUS
  <2>3. ErrorInv'
    BY <2>2
  <2>4. DryInv'
    BY <2>2
  <2>. QED BY <2>1, <2>3, <2>4
<1>7. CASE ErrorOver
  BY <1>7 DEF ErrorOver, Goto, slices, watchdog
<1>8. CASE Answered
  BY <1>8 DEF Answered, Goto, Ended, slices, watchdog
<1>9. CASE IoFailed
  BY <1>9 DEF IoFailed, Goto, slices, watchdog
<1>10. CASE Retry
  BY <1>10 DEF Retry, Goto, Ended, Dispatch, slices, watchdog
<1>11. CASE ShareAccepted
  BY <1>11 DEF ShareAccepted, slices, watchdog
<1>12. CASE ShareRejected
  BY <1>12 DEF ShareRejected, slices, watchdog
<1>13. CASE Pass
  BY <1>13 DEF Pass, Turn, slices, watchdog
<1>14. CASE Bounce
  <2>1. since > LongestSlice + 2 /\ LongestSlice \in Nat
    BY <1>14, NoBounceYet DEF LongestSlice
  <2>2. pc # "error" => Spent <= LongestSlice /\ Spent \in Nat
    BY SpentBound
  <2>. USE <1>14 DEF Bounce, Turn, slices, watchdog
  <2>3. (RestInv /\ IdleInv /\ SinceInv)'
    OBVIOUS
  <2>4. BootInv' /\ ErrorInv'
    BY <2>1 DEF LongestSlice
  <2>5. ~StartedOver
    BY <2>1, <2>2
  <2>6. DryInv'
    BY <2>5
  <2>. QED BY <2>3, <2>4, <2>6
<1>15. CASE BounceEnds
  BY <1>15 DEF BounceEnds, slices, watchdog
<1>16. CASE Tick
  <2>. USE <1>16 DEF Tick, Waits, Later, slices, watchdog
  <2>1. pc' = pc /\ attempt' = attempt /\ job' = job /\ failed' = failed
        /\ chance' = chance /\ daemon' = daemon
    OBVIOUS
  <2>2. pc # "idle" => timer' = timer + 1
    OBVIOUS
  <2>3. since' <= since + 1 /\ dry' <= dry + 1 /\ since' \in Nat /\ dry' \in Nat
    OBVIOUS
  <2>4. (RestInv /\ IdleInv)'
    BY <2>1
  <2>5. (BootInv /\ ErrorInv)'
    BY <2>1, <2>2, <2>3
  <2>6. heal' = None => heal = None
    OBVIOUS
  <2>7. job => pc # "idle" /\ Spent \in Nat /\ Spent' = Spent + 1
    <3>1. job => pc # "idle"
      BY DEF Limit
    <3>2. Spent \in Nat
      OBVIOUS
    <3>3. pc # "idle" => Spent' = Spent + 1
      <4>. HIDE DEF Tick, Waits
      <4>. QED BY <2>1, <2>2
    <3>. QED BY <3>1, <3>2, <3>3
  <2>8. heal = None => heal' = None
    OBVIOUS
  <2>9. (SinceInv /\ DryInv)'
    <3>. HIDE DEF Spent, Tick, Waits
    <3>1. SinceInv'
      BY <2>1, <2>3, <2>6, <2>7
    <3>2. DryInv'
      BY <2>1, <2>2, <2>3, <2>7, <2>8
    <3>. QED BY <3>1, <3>2
  <2>. QED BY <2>4, <2>5, <2>9
<1>17. CASE UNCHANGED vars
  BY <1>17 DEF vars, slices, watchdog
<1>. QED BY Actions, <1>1, <1>2, <1>3, <1>4, <1>5, <1>6, <1>7, <1>8, <1>9, <1>10, <1>11, <1>12, <1>13, <1>14, <1>15, <1>16, <1>17

-----------------------------------------------------------------------------
(* Theorems. *)

\* No session, no slice, no time: nothing to wait for.
LEMMA WatchInit == Init => WatchInv
<1>. SUFFICES ASSUME Init PROVE WatchInv
  OBVIOUS
<1>1. Flags
  BY Zenon DEF Init, Flags
<1>2. Numbers
  BY Constants DEF Init, Numbers, Ages
<1>3. RestInv /\ IdleInv /\ BootInv /\ ErrorInv
  BY DEF Init, RestInv, IdleInv, BootInv, ErrorInv
<1>4. SinceInv /\ DryInv
  BY DEF Init, SinceInv, DryInv
<1>. QED BY <1>1, <1>2, <1>3, <1>4, TypeParts DEF WatchInv

LEMMA Watched == Spec => []WatchInv
<1>1. WatchInv /\ [Next]_vars => WatchInv'
  BY WatchStep
<1>. QED BY <1>1, WatchInit, PTL DEF Spec

\* Type correctness: the timer of each await stays within its timeout, the
\* counters and clocks within their ranges.
THEOREM TypeCorrect == Spec => []TypeOK
<1>1. WatchInv => TypeOK
  BY DEF WatchInv
<1>. QED BY <1>1, Watched, PTL

\* The retries of the wrapper and the bounces of the watchdog do not chase each
\* other: whatever the timeouts, if the cooldown outlasts a slice, a slice is
\* over within LongestBounced.
THEOREM SlicesAreOver == Spec => []EverySliceIsOver
<1>1. ASSUME WatchInv
      PROVE  EverySliceIsOver
  <2>1. TypeOK
    BY <1>1 DEF WatchInv
  <2>2. pc # "error" => Spent \in Nat /\ Spent <= LongestSlice
    BY <2>1, SpentBound
  <2>3. CASE ~job
    BY <1>1, <2>3, Constants DEF WatchInv, RestInv, EverySliceIsOver
  <2>4. CASE job /\ ~failed
    <3>1. dry <= LongestBounced
      BY <1>1, <2>1, <2>2, <2>4, Typed, Constants
      DEF WatchInv, DryInv, Undisturbed, Disturbed, StartedOver,
          LongestBounced, LongestSlice
    <3>. QED BY <3>1 DEF EverySliceIsOver
  <2>. QED BY <2>3, <2>4 DEF EverySliceIsOver
<1>. QED BY <1>1, Watched, PTL

\* Whatever the timeouts, if the cooldown outlasts a slice, a bounce is
\* followed by the end of a slice before the next one.
THEOREM BouncesGiveAChance == Spec => ChancePerBounce
<1>1. ASSUME WatchInv, Bounce, job, ~failed
      PROVE  chance
  <2>1. TypeOK
    BY <1>1 DEF WatchInv
  <2>2. since > LongestSlice + 2 /\ LongestSlice \in Nat
    BY <1>1, <2>1, NoBounceYet, Constants DEF LongestSlice
  <2>3. heal = None
    BY <1>1 DEF Bounce, Turn
  <2>4. CASE pc = "error"
    <3>1. since <= 2
      BY <1>1, <2>1, <2>4, Typed DEF WatchInv, ErrorInv
    <3>. QED BY <3>1, <2>1, <2>2, Typed
  <2>5. CASE pc # "error"
    <3>1. Spent \in Nat /\ Spent <= LongestSlice
      BY <2>1, <2>5, SpentBound
    <3>2. chance \/ since <= 2 + Spent
      BY <1>1, <2>3, <2>5 DEF WatchInv, SinceInv
    <3>. QED BY <3>1, <3>2, <2>1, <2>2, Typed
  <2>. QED BY <2>4, <2>5
<1>2. WatchInv => (Bounce /\ job /\ ~failed => chance)
  BY <1>1
<1>3. WatchInv /\ [Next]_vars => [Bounce /\ job /\ ~failed => chance]_vars
  BY <1>2
<1>. QED BY <1>3, Watched, PTL DEF Spec, ChancePerBounce

=============================================================================
