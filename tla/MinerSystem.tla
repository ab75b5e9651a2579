----------------------------- MODULE MinerSystem -----------------------------
(***************************************************************************)
(* The miner as a whole: the solver loop (SolverLoop), the service it asks *)
(* for slices (SliceService, which GbtSolveWrapper implements), the pool's *)
(* verdict on the shares, the reject streak and the auto-heal watchdog     *)
(* that bounces the solver.                                                *)
(*                                                                         *)
(* A session that ends in the middle of a slice leaves the service out of  *)
(* step: from then on the loop submits, under the job of each slice, the   *)
(* shares of the one before. The pool rejects what was mined for another   *)
(* job, the rejects arm the watchdog, and its bounce brings the service    *)
(* back in step.                                                           *)
(*                                                                         *)
(* Every step is a step of the components that take part in it, with the   *)
(* other components' variables unchanged.                                  *)
(***************************************************************************)
EXTENDS Naturals, FiniteSets

CONSTANTS JobIds, Parents, None, Base, SliceTries, MaxNonce,  \* see SolverLoop
          Slices,     \* names of slices
          Threshold,  \* cfg.heal_consec_rejects; the streak is counted up to it
          MaxStale    \* bound on the slices sessions may leave behind

ASSUME LoopAssumption == /\ None \notin Parents
                         /\ Base \in Nat
                         /\ SliceTries \in Nat \ {0}
                         /\ MaxNonce \in Nat
                         /\ Base <= MaxNonce
ASSUME SliceAssumption == None \notin Slices
ASSUME ThresholdAssumption == Threshold \in Nat \ {0}

VARIABLES
  job, pc, slice, next, inflight, preempted, scanned, frontier,  \* the solver loop
  asked, answer, behind, bounced,                      \* the service
  of,       \* per slice: the job the service was given for it
  mail,     \* shares on their way to the pool: the job they are submitted
            \* as, and the job the solver found them for
  streak    \* _consec_rejects

loop == <<job, pc, slice, next, inflight, preempted, scanned, frontier>>
service == <<asked, answer, behind, bounced>>
vars == <<loop, service, of, mail, streak>>

Outbox == {m.as : m \in mail}
Loop == INSTANCE SolverLoop WITH outbox <- Outbox
Service == INSTANCE SliceService WITH Jobs <- Slices, NoJob <- None

Work == [id : JobIds, parent : Parents]
NoWork == [id |-> None]

TypeOK ==
  /\ Loop!TypeOK
  /\ asked \in Slices \cup {None}
  /\ answer \in [asked : Slices \cup {None}, answered : Slices \cup {None}]
  /\ behind \subseteq Slices
  /\ of \in [Slices -> Work \cup {NoWork}]
  /\ bounced \in BOOLEAN
  /\ mail \subseteq [as : Work, of : Work]
  /\ streak \in 0..Threshold

Init ==
  /\ mail = {}
  /\ Loop!Init
  /\ Service!Init
  /\ of = [t \in Slices |-> NoWork]
  /\ streak = 0

\* The service forgets a slice that is neither in flight nor left behind.
Forget == of' = [t \in Slices |-> IF t \in behind' \cup {asked'} THEN of[t]
                                                            ELSE NoWork]

-----------------------------------------------------------------------------
(* The solver loop and the service. *)

\* A notify, with or without what a challenge needs; job ids the pool has not
\* heard the last of are not reused. It always has a nonce64_start: that only
\* bears on the cursor, which SolverLoop follows.
Remembered == {of[t].id : t \in Slices} \cup {m.of.id : m \in mail}

PoolNotifies ==
  /\ mail' = mail
  /\ \E id \in JobIds \ (Loop!UsedIds \cup Remembered), parent \in Parents,
        clean, seeded \in BOOLEAN : Loop!Notify(id, parent, clean, TRUE, seeded)
  /\ UNCHANGED <<service, of, streak>>

\* The loop asks the service for a slice of the current job.
BeginSlice(t) ==
  /\ mail' = mail
  /\ Loop!BeginSlice
  /\ Service!Ask(t)
  /\ of' = [of EXCEPT ![t] = [id |-> job.id, parent |-> job.parent]]
  /\ UNCHANGED streak

\* The service answers with the result of slice t.
Answers(t) ==
  /\ \/ Service!Answer
     \/ Service!AnswerBehind
  /\ answer'.answered = t

\* That result holds no share, or shares, which go out under the job the loop
\* asked for unless the tip has moved meanwhile. (The daemon always lists its
\* shares, so their submission is not awaited.)
Carry(t) == IF Loop!Stale THEN mail
            ELSE mail \cup {[as |-> [id |-> slice.id, parent |-> slice.parent],
                             of |-> of[t]]}

SliceAnswered(t) ==
  /\ Answers(t)
  /\ \/ mail' = mail /\ \E end \in Loop!Ends : Loop!NotFound(end)
     \/ mail' = Carry(t) /\ \E end \in Loop!Ends : Loop!Found(end)
  /\ Forget
  /\ UNCHANGED streak

\* The slice ends without a result: an error line, its own or that of a slice
\* left behind, or the wrapper has given up on it.
SliceFails ==
  /\ mail' = mail
  /\ Loop!NoAnswer \/ Loop!SliceRaised
  /\ Service!GiveUp \/ Service!AnswerBehind
  /\ answer'.answered = None
  /\ Forget
  /\ UNCHANGED streak

\* The loop refuses a job; the service is not asked.
RefuseJob ==
  /\ mail' = mail
  /\ Loop!RefuseJob
  /\ UNCHANGED <<service, of, streak>>

Resume ==
  /\ mail' = mail
  /\ Loop!Resume
  /\ UNCHANGED <<service, of, streak>>

\* The session ends. The slice in flight stays in the daemon's pipes; the next
\* session starts without a streak.
DropSession ==
  /\ Cardinality(behind) < MaxStale
  /\ mail' = mail
  /\ Loop!DropSession
  /\ IF asked = None THEN UNCHANGED service ELSE Service!Drop
  /\ streak' = 0
  /\ Forget

\* A solver process ends on its own, and with it what it had left to answer.
Crash ==
  /\ Service!Lose
  /\ behind' # behind
  /\ UNCHANGED <<loop, mail, streak>>
  /\ Forget

\* solve_slice shuts the daemon down, for its shape or to try again.
Restart ==
  /\ asked # None
  /\ Service!Bounce
  /\ UNCHANGED <<loop, mail, streak>>
  /\ Forget

-----------------------------------------------------------------------------
(* The pool's verdict, and the watchdog. *)

\* The pool accepts a share that was found for the job it is submitted under,
\* as long as that job's parent is the tip.
Good(m) == Loop!HasJob /\ m.of = m.as /\ m.as.parent = job.parent

Sent(m) ==
  /\ mail' = mail \ {m}
  /\ UNCHANGED <<loop, service, of>>

Accepted(m) ==
  /\ Good(m)
  /\ Sent(m)
  /\ streak' = 0

\* Mutant of Rejected: a streak that outgrows what can trigger the watchdog.
RejectedUncapped(m) ==
  /\ Sent(m)
  /\ streak' = streak + 1

\* Not accepted, not answered, or not sent.
Rejected(m) ==
  /\ Sent(m)
  /\ streak' = IF streak < Threshold THEN streak + 1 ELSE streak

\* Mutant of Bounce: reconnect instead.
BounceSession ==
  /\ Loop!HasJob
  /\ streak' = 0
  /\ UNCHANGED <<loop, service, of, mail>>

\* _heal_loop bounces the daemon and forgets the streak. A slice in flight may
\* still read what the daemon has left in its stdout.
Bounce ==
  /\ Loop!HasJob
  /\ streak' = 0
  /\ Service!Bounce
  /\ UNCHANGED <<loop, mail>>
  /\ Forget

\* Trigger B, and trigger A (see HealWatchdog for when it fires).
HealRejects == streak >= Threshold /\ Bounce
HealSilence == asked # None /\ Bounce

-----------------------------------------------------------------------------
LoopStep == \/ \E t \in Slices : BeginSlice(t) \/ SliceAnswered(t)
            \/ SliceFails
            \/ RefuseJob
            \/ Resume

Verdict == \E m \in mail : Accepted(m) \/ Rejected(m)

Next ==
  \/ PoolNotifies
  \/ LoopStep
  \/ DropSession
  \/ Crash
  \/ Restart
  \/ Verdict
  \/ HealRejects
  \/ HealSilence

Spec == Init /\ [][Next]_vars

\* Every slice ends (GbtSolveWrapper!SliceEnds), submissions get an outcome
\* (StratumSession!EverySubmitEnds), and the watchdog's turn comes.
Fairness ==
  /\ WF_vars(LoopStep)
  /\ WF_vars(Verdict)
  /\ WF_vars(HealRejects)
FairSpec == Spec /\ Fairness

-----------------------------------------------------------------------------
(* Properties. *)

\* The system is made of its components: what is checked or proved of them
\* holds in it.
ImplementsLoop == Loop!Spec
ImplementsService == Service!Spec

\* Nothing goes wrong with shares while the service is in step: what is handed
\* over was found for the job it is submitted under, and for the live tip.
HandsOverOwnWork ==
  [][\A m \in mail' \ mail :
       behind = {} => m.of = m.as /\ (Loop!HasJob => m.of.parent = job.parent)]_vars

\* Shares keep being handed over, and accepted.
HandsOver == mail' \ mail # {}
Accepts == \E m \in mail : Accepted(m)
RejectsGood == \E m \in mail : Good(m) /\ Rejected(m)

\* The miner heals: however far out of step earlier sessions have left it, a
\* miner that keeps finding shares while the tip stands has shares accepted
\* again and again.
Heals ==
  /\ Loop!TipStands
  /\ <>[][~RejectsGood]_vars
  /\ []<><<HandsOver>>_vars
  => []<><<Accepts>>_vars

\* Shares of a slice whose tip has moved "are stale" and the loop is to "Drop
\* them" (stratum_client.py:524-528).
OnlyLiveTipMailed ==
  [][\A m \in mail' \ mail : Loop!HasJob => m.of.parent = job.parent]_vars
=============================================================================
