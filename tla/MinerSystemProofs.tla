-------------------------- MODULE MinerSystemProofs --------------------------
(***************************************************************************)
(* Proofs about MinerSystem, for all jobs, slices and thresholds: it is a  *)
(* solver loop and a slice service, so what is proved of them holds in it; *)
(* and shares only go out under a foreign job while the service is out of  *)
(* step.                                                                   *)
(***************************************************************************)
EXTENDS MinerSystem, TLAPS

-----------------------------------------------------------------------------
(* The steps, by what takes part in them. *)

\* A step of the system with what it does to the solver loop.
LEMMA LoopSteps ==
  ASSUME [Next]_vars
  PROVE  Loop!Next \/ UNCHANGED Loop!vars
<1>1. CASE PoolNotifies
  <2>1. PICK id \in JobIds \ (Loop!UsedIds \cup Remembered), parent \in Parents,
             clean, seeded \in BOOLEAN : Loop!Notify(id, parent, clean, TRUE, seeded)
    BY <1>1 DEF PoolNotifies
  <2>2. Loop!PoolNotifies
    BY <2>1 DEF Loop!PoolNotifies
  <2>. QED BY <2>2 DEF Loop!Next
<1>2. CASE LoopStep
  <2>1. CASE \E t \in Slices : BeginSlice(t)
    BY <2>1 DEF BeginSlice, Loop!Next, Loop!LoopStep
  <2>2. CASE \E t \in Slices : SliceAnswered(t)
    <3>1. PICK end \in Loop!Ends : Loop!NotFound(end) \/ Loop!Found(end)
      BY <2>2 DEF SliceAnswered
    <3>2. pc = "solve"
      BY <3>1 DEF Loop!NotFound, Loop!Found, Loop!Returned
    <3>3. Loop!SliceEnds
      BY <3>1, <3>2 DEF Loop!SliceEnds
    <3>. QED BY <3>3 DEF Loop!Next, Loop!LoopStep
  <2>3. CASE SliceFails
    BY <2>3 DEF SliceFails, Loop!Next, Loop!LoopStep, Loop!SliceEnds
  <2>4. CASE Resume \/ RefuseJob
    BY <2>4 DEF Resume, RefuseJob, Loop!Next, Loop!LoopStep
  <2>. QED BY <1>2, <2>1, <2>2, <2>3, <2>4 DEF LoopStep
<1>3. CASE DropSession
  BY <1>3 DEF DropSession, Loop!Next
<1>4. ASSUME Crash \/ Restart \/ HealRejects \/ HealSilence \/ UNCHANGED vars
      PROVE  UNCHANGED Loop!vars
  BY <1>4 DEF Crash, Restart, HealRejects, HealSilence, Bounce, vars, loop, Loop!vars, Outbox
<1>5. ASSUME NEW m \in mail, Sent(m)
      PROVE  Loop!Next \/ UNCHANGED Loop!vars
  <2>1. UNCHANGED <<job, pc, slice, next, inflight, preempted, scanned, frontier>>
    BY <1>5 DEF Sent, loop
  <2>2. m.as \in Outbox
    BY DEF Outbox
  <2>3. Outbox' = Outbox \/ Outbox' = Outbox \ {m.as}
    BY <1>5, Zenon DEF Sent, Outbox
  <2>4. CASE Outbox' = Outbox
    BY <2>1, <2>4 DEF Loop!vars
  <2>5. CASE Outbox' = Outbox \ {m.as}
    BY <2>1, <2>2, <2>5 DEF Loop!Send, Loop!Next
  <2>. QED BY <2>3, <2>4, <2>5
<1>6. CASE Verdict
  BY <1>5, <1>6 DEF Verdict, Accepted, Rejected
<1>. QED BY <1>1, <1>2, <1>3, <1>4, <1>6 DEF Next

\* The same for the service.
LEMMA ServiceSteps ==
  ASSUME [Next]_vars
  PROVE  Service!Next \/ UNCHANGED Service!vars
<1>. USE DEF Service!Next
<1>1. CASE PoolNotifies
  BY <1>1 DEF PoolNotifies, service, Service!vars
<1>2. CASE LoopStep
  <2>1. CASE \E t \in Slices : BeginSlice(t)
    BY <2>1 DEF BeginSlice
  <2>2. CASE \E t \in Slices : SliceAnswered(t)
    BY <2>2 DEF SliceAnswered, Answers
  <2>3. CASE SliceFails
    BY <2>3 DEF SliceFails
  <2>4. CASE Resume \/ RefuseJob
    BY <2>4 DEF Resume, RefuseJob, service, Service!vars
  <2>. QED BY <1>2, <2>1, <2>2, <2>3, <2>4 DEF LoopStep
<1>3. CASE DropSession
  BY <1>3 DEF DropSession, service, Service!vars
<1>4. CASE Crash
  BY <1>4 DEF Crash
<1>5. CASE Restart \/ HealRejects \/ HealSilence
  BY <1>5 DEF Restart, HealRejects, HealSilence, Bounce
<1>6. CASE Verdict
  BY <1>6 DEF Verdict, Accepted, Rejected, Sent, service, Service!vars
<1>7. CASE UNCHANGED vars
  BY <1>7 DEF vars, service, Service!vars
<1>. QED BY <1>1, <1>2, <1>3, <1>4, <1>5, <1>6, <1>7 DEF Next

-----------------------------------------------------------------------------
(* The system is made of its components. *)

\* Within the system the solver loop of SolverLoop is at work: bounces, crashes
\* and slices left behind are steps it does not see.
THEOREM SystemIsLoop == Spec => ImplementsLoop
<1>1. Init => Loop!Init
  BY DEF Init
<1>2. [Next]_vars => [Loop!Next]_(Loop!vars)
  BY LoopSteps
<1>. QED BY <1>1, <1>2, PTL DEF Spec, ImplementsLoop, Loop!Spec

\* Its steps ask nothing of the service that SliceService does not offer.
THEOREM SystemIsService == Spec => ImplementsService
<1>1. Init => Service!Init
  BY DEF Init
<1>2. [Next]_vars => [Service!Next]_(Service!vars)
  BY ServiceSteps
<1>. QED BY <1>1, <1>2, PTL DEF Spec, ImplementsService, Service!Spec

-----------------------------------------------------------------------------
(* What is proved of the loop holds in the system. *)

LoopProofs == INSTANCE SolverLoopProofs WITH outbox <- Outbox

LEMMA LoopWithProofs == Spec => LoopProofs!Spec
<1>1. Loop!Init <=> LoopProofs!Init
  BY DEF Loop!Init, LoopProofs!Init, Loop!NoJob, LoopProofs!NoJob
<1>2. [Loop!Next]_(Loop!vars) <=> [LoopProofs!Next]_(LoopProofs!vars)
  BY Zenon
  DEF Loop!HasJob, Loop!NoJob, Loop!Nonces, Loop!Cap, Loop!StartOf,
      Loop!IsPlaced, Loop!Notify, Loop!UsedIds, Loop!PoolNotifies,
      Loop!Advance, Loop!Stale, Loop!BeginSlice, Loop!RefuseJob, Loop!Ends,
      Loop!Returned, Loop!NotFound, Loop!NoAnswer, Loop!Found, Loop!FoundOne,
      Loop!SliceRaised, Loop!Resume, Loop!Send, Loop!DropSession,
      Loop!SliceEnds, Loop!LoopStep, Loop!Next, Loop!vars,
      LoopProofs!HasJob, LoopProofs!NoJob, LoopProofs!Nonces, LoopProofs!Cap,
      LoopProofs!StartOf, LoopProofs!IsPlaced, LoopProofs!Notify,
      LoopProofs!UsedIds, LoopProofs!PoolNotifies, LoopProofs!Advance,
      LoopProofs!Stale, LoopProofs!BeginSlice, LoopProofs!RefuseJob,
      LoopProofs!Ends, LoopProofs!Returned, LoopProofs!NotFound,
      LoopProofs!NoAnswer, LoopProofs!Found, LoopProofs!FoundOne,
      LoopProofs!SliceRaised, LoopProofs!Resume, LoopProofs!Send,
      LoopProofs!DropSession, LoopProofs!SliceEnds, LoopProofs!LoopStep,
      LoopProofs!Next, LoopProofs!vars
<1>. QED BY <1>1, <1>2, SystemIsLoop, PTL
         DEF ImplementsLoop, Loop!Spec, LoopProofs!Spec

LEMMA LoopTyped == Spec => []Loop!TypeOK
<1>1. LoopProofs!Spec => []LoopProofs!TypeOK
  BY LoopAssumption, LoopProofs!TypeCorrect
<1>2. LoopProofs!TypeOK <=> Loop!TypeOK
  BY DEF Loop!TypeOK, Loop!Jobs, Loop!NoJob, Loop!Nonces, Loop!Shares,
         LoopProofs!TypeOK, LoopProofs!Jobs, LoopProofs!NoJob,
         LoopProofs!Nonces, LoopProofs!Shares
<1>. QED BY <1>1, <1>2, LoopWithProofs, PTL

\* In the system too a slice that runs on while the tip has moved has been
\* preempted, whatever state the service behind it is in.
THEOREM DeadTipPreempted == Spec => []Loop!DeadTipIsPreempted
<1>1. LoopProofs!Spec => []LoopProofs!DeadTipIsPreempted
  BY LoopAssumption, LoopProofs!DeadTipPreempted
<1>2. LoopProofs!DeadTipIsPreempted <=> Loop!DeadTipIsPreempted
  BY DEF Loop!DeadTipIsPreempted, Loop!Stale, Loop!HasJob, Loop!NoJob,
         LoopProofs!DeadTipIsPreempted, LoopProofs!Stale, LoopProofs!HasJob,
         LoopProofs!NoJob
<1>. QED BY <1>1, <1>2, LoopWithProofs, PTL

-----------------------------------------------------------------------------
(* The invariant: what the service works for. *)

\* Types of the service and of what is on its way to the pool.
ServiceTypes == /\ asked \in Slices \cup {None}
                /\ answer \in [asked : Slices \cup {None},
                              answered : Slices \cup {None}]
                /\ behind \subseteq Slices
                /\ bounced \in BOOLEAN
WorkTypes == /\ of \in [Slices -> Work \cup {NoWork}]
             /\ mail \subseteq [as : Work, of : Work]
CountTypes == streak \in 0..Threshold

\* Every slice the service may still answer is one it was given a job for.
KnownInv == \A t \in Slices : t \in behind \cup {asked} => of[t] \in Work

\* While the solver loop waits for a slice, the service serves it, for the
\* loop's own job.
OwnInv == pc = "solve" =>
            asked \in Slices /\ of[asked] = [id |-> slice.id, parent |-> slice.parent]

SysInv == ServiceTypes /\ WorkTypes /\ CountTypes /\ KnownInv /\ OwnInv

LEMMA SysInit == Init => SysInv
<1>. SUFFICES ASSUME Init PROVE SysInv
  OBVIOUS
<1>1. ServiceTypes /\ KnownInv
  <2>1. bounced \in BOOLEAN
    BY Zenon DEF Init, Service!Init
  <2>. QED BY <2>1, SliceAssumption
           DEF Init, Service!Init, Service!NoAnswer, ServiceTypes, KnownInv
<1>2. WorkTypes
  BY DEF Init, WorkTypes
<1>3. CountTypes
  BY ThresholdAssumption DEF Init, CountTypes
<1>4. OwnInv
  BY DEF Init, Loop!Init, OwnInv
<1>. QED BY <1>1, <1>2, <1>3, <1>4 DEF SysInv

\* However a slice ends, the service leaves behind at most what it had and the
\* slice itself.
LEMMA EndTyped ==
  ASSUME ServiceTypes, NEW a \in Slices \cup {None},
         NEW left \in SUBSET (behind \cup {asked}), Service!End(a, left)
  PROVE  /\ ServiceTypes'
         /\ behind' \subseteq behind \cup {asked} /\ asked' = None
<1>1. /\ asked \in Slices /\ asked' = None /\ bounced' = FALSE
      /\ answer' = [asked |-> asked, answered |-> a] /\ behind' \subseteq left
  BY DEF ServiceTypes, Service!End
<1>2. bounced' \in BOOLEAN
  BY <1>1
<1>. QED BY <1>1, <1>2 DEF ServiceTypes

LEMMA EndsTyped ==
  ASSUME ServiceTypes,
         Service!Answer \/ Service!AnswerBehind \/ Service!GiveUp \/ Service!Drop
  PROVE  /\ ServiceTypes'
         /\ behind' \subseteq behind \cup {asked} /\ asked' = None
<1>1. CASE Service!Answer
  BY <1>1, EndTyped DEF Service!Answer, ServiceTypes
<1>2. CASE Service!AnswerBehind
  <2> PICK t \in behind : \E a \in {t, None} :
             Service!End(a, (behind \ {t}) \cup {asked})
    BY <1>2 DEF Service!AnswerBehind
  <2>1. PICK a \in {t, None} : Service!End(a, (behind \ {t}) \cup {asked})
    OBVIOUS
  <2>2. a \in Slices \cup {None}
    BY DEF ServiceTypes
  <2>. QED BY <2>1, <2>2, EndTyped
<1>3. CASE Service!GiveUp
  BY <1>3, EndTyped DEF Service!GiveUp
<1>4. CASE Service!Drop
  BY <1>4, EndTyped DEF Service!Drop
<1>. QED BY <1>1, <1>2, <1>3, <1>4

LEMMA ServiceTyped ==
  ASSUME ServiceTypes, [Next]_vars
  PROVE  ServiceTypes'
<1>. USE SliceAssumption
<1>1. CASE \E t \in Slices : Service!Ask(t)
  <2>1. PICK t \in Slices : Service!Ask(t)
    BY <1>1
  <2>2. asked' = t /\ behind' = behind /\ bounced' = bounced
    BY <2>1 DEF Service!Ask
  <2>3. answer' = [asked |-> None, answered |-> None]
    BY <2>1 DEF Service!Ask, Service!NoAnswer
  <2>. QED BY <2>2, <2>3 DEF ServiceTypes
<1>2. CASE \/ Service!Answer \/ Service!AnswerBehind
           \/ Service!GiveUp \/ Service!Drop
  BY <1>2, EndsTyped
<1>3. CASE Service!Bounce \/ Service!Lose
  <2>1. bounced' \in BOOLEAN
    BY <1>3, Zenon DEF Service!Bounce, Service!Lose, ServiceTypes
  <2>2. behind' \subseteq behind /\ UNCHANGED <<asked, answer>>
    BY <1>3 DEF Service!Bounce, Service!Lose
  <2>. QED BY <2>1, <2>2 DEF ServiceTypes
<1>4. CASE UNCHANGED Service!vars
  BY <1>4 DEF Service!vars, ServiceTypes
<1>. QED BY ServiceSteps, <1>1, <1>2, <1>3, <1>4 DEF Service!Next

\* Forgetting keeps what may still be answered.
LEMMA ForgetKeeps ==
  ASSUME of \in [Slices -> Work \cup {NoWork}], KnownInv, Forget,
         behind' \subseteq behind \cup {asked}, asked' \in {asked, None}
  PROVE  /\ of' \in [Slices -> Work \cup {NoWork}]
         /\ KnownInv'
         /\ asked' \in Slices => of'[asked'] = of[asked']
<1>1. of' \in [Slices -> Work \cup {NoWork}]
  BY DEF Forget
<1>2. ASSUME NEW t \in Slices, t \in behind' \cup {asked'}
      PROVE  of'[t] = of[t] /\ of[t] \in Work
  BY <1>2, SliceAssumption DEF Forget, KnownInv
<1>3. KnownInv'
  BY <1>2 DEF KnownInv
<1>. QED BY <1>1, <1>2, <1>3

\* What an answered slice puts in the mail.
LEMMA AnswerCarries ==
  ASSUME SysInv, NEW t \in Slices, SliceAnswered(t)
  PROVE  /\ mail' \subseteq mail \cup
                    {[as |-> [id |-> slice.id, parent |-> slice.parent], of |-> of[t]]}
         /\ pc = "solve" /\ asked \in Slices
         /\ of[asked] = [id |-> slice.id, parent |-> slice.parent]
         /\ of[asked] \in Work /\ of[t] \in Work
         /\ behind = {} => t = asked
         /\ mail' # mail => ~Loop!Stale
<1>1. pc = "solve"
  BY DEF SliceAnswered, Loop!NotFound, Loop!Found, Loop!Returned
<1>2. asked \in Slices /\ of[asked] = [id |-> slice.id, parent |-> slice.parent]
  BY <1>1 DEF SysInv, OwnInv
<1>3. t \in behind \cup {asked} /\ (behind = {} => t = asked)
  BY SliceAssumption, <1>2
  DEF SliceAnswered, Answers, Service!Answer, Service!AnswerBehind, Service!End
<1>4. of[asked] \in Work /\ of[t] \in Work
  BY <1>2, <1>3 DEF SysInv, KnownInv
<1>5. mail' = mail \/ mail' = Carry(t)
  BY DEF SliceAnswered
<1>. QED BY <1>1, <1>2, <1>3, <1>4, <1>5 DEF Carry

LEMMA SysStep ==
  ASSUME SysInv, Loop!TypeOK, [Next]_vars
  PROVE  SysInv'
<1>1. ServiceTypes'
  BY ServiceTyped DEF SysInv
<1>2. CountTypes'
  <2>1. \/ streak' = streak \/ streak' = 0
        \/ streak' = IF streak < Threshold THEN streak + 1 ELSE streak
    BY Zenon
    DEF Next, PoolNotifies, LoopStep, BeginSlice, SliceAnswered, SliceFails,
        Resume, RefuseJob, DropSession, Crash, Restart, Verdict, Accepted, Rejected,
        HealRejects, HealSilence, Bounce, vars
  <2>. QED BY <2>1, ThresholdAssumption DEF SysInv, CountTypes
<1>3. ASSUME Forget, behind' \subseteq behind \cup {asked}, asked' \in {asked, None},
             pc' = "solve" => pc = "solve" /\ slice' = slice /\ asked' = asked
      PROVE  of' \in [Slices -> Work \cup {NoWork}] /\ KnownInv' /\ OwnInv'
  <2>1. /\ of' \in [Slices -> Work \cup {NoWork}] /\ KnownInv'
        /\ asked' \in Slices => of'[asked'] = of[asked']
    BY <1>3, ForgetKeeps DEF SysInv, WorkTypes
  <2>2. OwnInv'
    BY <1>3, <2>1 DEF SysInv, OwnInv
  <2>. QED BY <2>1, <2>2
<1>4. ASSUME UNCHANGED <<service, of>>,
             pc' = "solve" => pc = "solve" /\ slice' = slice
      PROVE  of' \in [Slices -> Work \cup {NoWork}] /\ KnownInv' /\ OwnInv'
  BY <1>4 DEF SysInv, WorkTypes, KnownInv, OwnInv, service
<1>5. CASE PoolNotifies
  <2>1. UNCHANGED <<service, of, mail, pc, slice>>
    BY <1>5 DEF PoolNotifies, Loop!Notify
  <2>. QED BY <1>1, <1>2, <1>4, <2>1 DEF SysInv, WorkTypes
<1>6. CASE \E t \in Slices : BeginSlice(t)
  <2>1. PICK t \in Slices : BeginSlice(t)
    BY <1>6
  <2>2. /\ asked = None /\ asked' = t /\ behind' = behind /\ mail' = mail
        /\ slice'.id = job.id /\ slice'.parent = job.parent /\ t \notin behind
    BY <2>1 DEF BeginSlice, Service!Ask, Loop!BeginSlice
  <2>3. [id |-> job.id, parent |-> job.parent] \in Work
    BY <2>1 DEF BeginSlice, Loop!BeginSlice, Loop!TypeOK, Loop!HasJob,
                Loop!Jobs, Work
  <2>4. of' = [of EXCEPT ![t] = [id |-> job.id, parent |-> job.parent]]
    BY <2>1 DEF BeginSlice
  <2>5. WorkTypes'
    BY <2>2, <2>3, <2>4 DEF SysInv, WorkTypes
  <2>6. of'[t] = [id |-> job.id, parent |-> job.parent]
    BY <2>4 DEF SysInv, WorkTypes
  <2>7. KnownInv'
    BY <2>2, <2>3, <2>4, <2>6 DEF SysInv, WorkTypes, KnownInv
  <2>8. OwnInv'
    BY <2>2, <2>6 DEF OwnInv
  <2>. QED BY <1>1, <1>2, <2>5, <2>7, <2>8 DEF SysInv
<1>7. CASE \E t \in Slices : SliceAnswered(t)
  <2>1. PICK t \in Slices : SliceAnswered(t)
    BY <1>7
  <2>2. pc' # "solve" /\ Forget
    BY <2>1 DEF SliceAnswered, Loop!NotFound, Loop!Found
  <2>3. behind' \subseteq behind \cup {asked} /\ asked' \in {asked, None}
    BY <2>1, EndsTyped DEF SliceAnswered, Answers, SysInv
  <2>4. mail' \subseteq [as : Work, of : Work]
    BY <2>1, AnswerCarries DEF SysInv, WorkTypes
  <2>. QED BY <1>1, <1>2, <1>3, <2>2, <2>3, <2>4 DEF SysInv, WorkTypes
<1>8. CASE SliceFails
  <2>1. pc' # "solve" /\ Forget /\ mail' = mail
    BY <1>8 DEF SliceFails, Loop!NoAnswer, Loop!SliceRaised
  <2>2. behind' \subseteq behind \cup {asked} /\ asked' \in {asked, None}
    BY <1>8, EndsTyped DEF SliceFails, SysInv
  <2>. QED BY <1>1, <1>2, <1>3, <2>1, <2>2 DEF SysInv, WorkTypes
<1>9. CASE Resume \/ RefuseJob
  <2>1. UNCHANGED <<service, of, mail>> /\ pc' # "solve"
    BY <1>9 DEF Resume, Loop!Resume, RefuseJob, Loop!RefuseJob
  <2>. QED BY <1>1, <1>2, <1>4, <2>1 DEF SysInv, WorkTypes
<1>10. CASE DropSession
  <2>1. pc' # "solve" /\ Forget /\ mail' = mail
    BY <1>10 DEF DropSession, Loop!DropSession
  <2>2. behind' \subseteq behind \cup {asked} /\ asked' \in {asked, None}
    BY <1>10, EndsTyped DEF DropSession, service, SysInv
  <2>. QED BY <1>1, <1>2, <1>3, <2>1, <2>2 DEF SysInv, WorkTypes
<1>11. CASE Crash
  <2>1. UNCHANGED <<pc, slice, asked, mail>> /\ Forget /\ behind' \subseteq behind
    BY <1>11 DEF Crash, Service!Lose, loop
  <2>. QED BY <1>1, <1>2, <1>3, <2>1 DEF SysInv, WorkTypes
<1>12. CASE Verdict
  <2>1. UNCHANGED <<pc, slice, service, of>> /\ mail' \subseteq mail
    BY <1>12 DEF Verdict, Accepted, Rejected, Sent, loop
  <2>. QED BY <1>1, <1>2, <1>4, <2>1 DEF SysInv, WorkTypes
<1>13. CASE Restart \/ HealRejects \/ HealSilence
  <2>1. UNCHANGED <<pc, slice, asked, mail>> /\ Forget /\ behind' \subseteq behind
    BY <1>13 DEF Restart, HealRejects, HealSilence, Bounce, Service!Bounce, loop
  <2>. QED BY <1>1, <1>2, <1>3, <2>1 DEF SysInv, WorkTypes
<1>14. CASE UNCHANGED vars
  <2>1. UNCHANGED <<pc, slice, service, of, mail>>
    BY <1>14 DEF vars, loop
  <2>. QED BY <1>1, <1>2, <1>4, <2>1 DEF SysInv, WorkTypes
<1>. QED BY <1>5, <1>6, <1>7, <1>8, <1>9, <1>10, <1>11, <1>12, <1>13, <1>14
         DEF Next, LoopStep

LEMMA SysInvAlways == Spec => []SysInv
<1>1. SysInv /\ Loop!TypeOK /\ [Next]_vars => SysInv'
  BY SysStep
<1>. QED BY <1>1, SysInit, LoopTyped, PTL DEF Spec

-----------------------------------------------------------------------------
(* Theorems. *)

\* Type correctness of the system, its parts' included.
THEOREM TypeCorrect == Spec => []TypeOK
<1>1. Loop!TypeOK /\ SysInv => TypeOK
  BY DEF SysInv, ServiceTypes, WorkTypes, CountTypes, TypeOK
<1>. QED BY <1>1, LoopTyped, SysInvAlways, PTL

\* While the service is in step, no share goes out under a job it was not found
\* for, nor for a tip that has moved: for this to fail a session must have been
\* dropped in the middle of a slice.
THEOREM HandsOverOwn == Spec => HandsOverOwnWork
<1> DEFINE Own == \A m \in mail' \ mail :
                    behind = {} => m.of = m.as /\ (Loop!HasJob => m.of.parent = job.parent)
<1>1. ASSUME SysInv, NEW t \in Slices, SliceAnswered(t)
      PROVE  Own
  <2>1. SUFFICES ASSUME NEW m \in mail' \ mail, behind = {}
                 PROVE  m.of = m.as /\ (Loop!HasJob => m.of.parent = job.parent)
    OBVIOUS
  <2>2. m = [as |-> [id |-> slice.id, parent |-> slice.parent], of |-> of[t]]
    BY <1>1, <2>1, AnswerCarries
  <2>3. of[t] = [id |-> slice.id, parent |-> slice.parent]
    BY <1>1, <2>1, AnswerCarries
  <2>4. ~Loop!Stale
    BY <1>1, <2>1, AnswerCarries
  <2>. QED BY <2>2, <2>3, <2>4 DEF Loop!Stale
<1>2. ASSUME ~(\E t \in Slices : SliceAnswered(t)), [Next]_vars
      PROVE  mail' \subseteq mail
  BY <1>2 DEF Next, PoolNotifies, LoopStep, BeginSlice, SliceFails, Resume, RefuseJob,
      DropSession, Crash, Restart, Verdict, Accepted, Rejected, Sent,
      HealRejects, HealSilence, Bounce, vars
<1>3. SysInv /\ [Next]_vars => [Own]_vars
  BY <1>1, <1>2
<1>. QED BY <1>3, SysInvAlways, PTL DEF Spec, HandsOverOwnWork
=============================================================================
