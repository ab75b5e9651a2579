-------------------------- MODULE SolverLoopProofs --------------------------
(***************************************************************************)
(* Safety of the solver loop and the notify handler, for any jobs, parents *)
(* and nonce ranges: the cursor loses no ground, it stays beyond the       *)
(* nonces reported scanned, and a slice on a dead tip has been preempted.  *)
(***************************************************************************)
EXTENDS SolverLoop, TLAPS

Slices == [id : JobIds, parent : Parents, from : Nonces]

\* Outside "next" the loop has a slice; _inflight_parent is its parent while
\* it runs.
SliceInv ==
  /\ pc # "next" => slice \in Slices
  /\ pc = "solve" => inflight = slice.parent

\* What ties the cursor of whatever job is current to the running slice: it
\* is where the slice began or a fresh start, because a notify in between has
\* carried it over or reset it; and the loop only goes on from further up.
CursorInv ==
  /\ HasJob /\ ~job.placed => job.start = 0
  /\ pc # "next" /\ HasJob => job.start <= slice.from \/ job.start <= Base
  /\ pc \in {"submit", "pause"} => next >= slice.from

LoopInv == TypeOK /\ SliceInv /\ CursorInv /\ DeadTipIsPreempted

-----------------------------------------------------------------------------
\* The capped cursor is a nonce, and never below a nonce it is taken above.
LEMMA CapTyped ==
  ASSUME NEW n \in Nat
  PROVE  /\ Cap(n) \in Nonces
         /\ \A m \in Nonces : n >= m => Cap(n) >= m
BY NonceAssumption DEF Cap, Nonces

LEMMA InitInv == Init => LoopInv
<1> SUFFICES ASSUME Init PROVE LoopInv
  OBVIOUS
<1>1. preempted \in BOOLEAN
  BY DEF Init
<1> QED
  BY <1>1, NonceAssumption DEF Init, LoopInv, TypeOK, SliceInv, CursorInv,
     DeadTipIsPreempted, Stale, HasJob, Nonces

\* The job a notify puts in place, whatever was there.
LEMMA NotifyTyped ==
  ASSUME LoopInv,
         NEW id \in JobIds, NEW parent \in Parents, NEW clean \in BOOLEAN,
         NEW placed \in BOOLEAN, NEW seeded \in BOOLEAN,
         Notify(id, parent, clean, placed, seeded)
  PROVE  /\ job' \in Jobs
         /\ job'.id = id /\ job'.parent = parent
         /\ job'.start \in {0, Base} \cup (IF HasJob THEN {job.start} ELSE {})
         /\ ~job'.placed => job'.start = 0
         /\ HasJob /\ ~clean => job'.start >= job.start
         /\ job'.clean = clean
<1>1. StartOf(clean, placed) \in Nonces
  BY NonceAssumption DEF LoopInv, TypeOK, StartOf, Nonces, HasJob, Jobs
<1>2. IsPlaced(clean, placed) \in BOOLEAN
  BY DEF IsPlaced, LoopInv, TypeOK, HasJob, Jobs
<1>3. job' \in Jobs
  BY <1>1, <1>2 DEF Notify, Jobs
<1>4. /\ job'.id = id /\ job'.parent = parent /\ job'.clean = clean
      /\ job'.start = StartOf(clean, placed)
      /\ job'.placed = IsPlaced(clean, placed)
  BY DEF Notify
<1>5. HasJob => job \in Jobs
  BY DEF LoopInv, TypeOK, HasJob
<1>6. HasJob => job.start \in Nat
  BY <1>5 DEF Jobs, Nonces
<1>7. HasJob /\ ~clean => job'.start >= job.start
  BY <1>4, <1>6, NonceAssumption DEF StartOf, LoopInv, CursorInv
<1> QED
  BY <1>3, <1>4, <1>7 DEF StartOf, IsPlaced

\* A notify in between keeps the ties to the running slice.
LEMMA NotifyInv ==
  ASSUME LoopInv,
         NEW id \in JobIds, NEW parent \in Parents, NEW clean \in BOOLEAN,
         NEW placed \in BOOLEAN, NEW seeded \in BOOLEAN,
         Notify(id, parent, clean, placed, seeded)
  PROVE  LoopInv'
<1>1. preempted' \in BOOLEAN
  BY DEF Notify, LoopInv, TypeOK
<1>2. frontier' \in Nonces
  BY NonceAssumption DEF Notify, LoopInv, TypeOK, Nonces
<1>6. TypeOK'
  BY <1>1, <1>2, NotifyTyped DEF Notify, LoopInv, TypeOK
<1>3. SliceInv'
  BY DEF Notify, LoopInv, SliceInv
<1>4. CursorInv'
  <2>1. pc # "next" => slice.from \in Nat
    BY DEF LoopInv, SliceInv, Slices, Nonces
  <2> QED
    BY <2>1, NotifyTyped, NonceAssumption DEF Notify, LoopInv, CursorInv, HasJob
<1>5. DeadTipIsPreempted'
  BY NotifyTyped, NameAssumption DEF Notify, LoopInv, SliceInv, Slices,
     DeadTipIsPreempted, Stale, HasJob
<1> QED
  BY <1>3, <1>4, <1>5, <1>6 DEF LoopInv
-----------------------------------------------------------------------------
(* The solver loop.                                                        *)

\* The end of an iteration that has reached n: the job keeps its id and its
\* place among the jobs, and its cursor does not go back to before the slice.
LEMMA AdvanceTyped ==
  ASSUME LoopInv, pc # "next", NEW n \in Nat, n >= slice.from, Advance(n)
  PROVE  /\ job' \in Jobs \cup {NoJob}
         /\ HasJob' => job' \in Jobs
         /\ job'.id = job.id
         /\ HasJob' /\ ~job'.placed => job'.start = 0
         /\ HasJob' => job'.start >= job.start \/ slice.from < Base
<1>1. slice \in Slices
  BY DEF LoopInv, SliceInv
<1>2. Cap(n) \in Nonces /\ Cap(n) >= slice.from
  BY <1>1, CapTyped DEF Slices
<1>3. CASE HasJob /\ job.parent = slice.parent
  <2>1. job \in Jobs
    BY <1>3 DEF LoopInv, TypeOK, HasJob
  <2>2. job' = [job EXCEPT !.start = Cap(n), !.placed = TRUE]
    BY <1>3 DEF Advance
  <2>3. /\ job' \in Jobs /\ job'.id = job.id
        /\ job'.placed /\ job'.start = Cap(n)
    BY <1>2, <2>1, <2>2 DEF Jobs
  <2>4. job.start \in Nat /\ slice.from \in Nat /\ Cap(n) \in Nat
    BY <1>1, <1>2, <2>1 DEF Jobs, Slices, Nonces
  <2>5. job.start <= slice.from \/ job.start <= Base
    BY <1>3 DEF LoopInv, CursorInv
  <2> QED
    BY <1>2, <2>3, <2>4, <2>5, NonceAssumption
<1>4. CASE ~(HasJob /\ job.parent = slice.parent)
  <2>1. job' = job
    BY <1>4 DEF Advance
  <2>2. HasJob => job.start \in Nat
    BY DEF LoopInv, TypeOK, HasJob, Jobs, Nonces
  <2> QED
    BY <2>1, <2>2 DEF LoopInv, TypeOK, CursorInv, HasJob
<1> QED
  BY <1>3, <1>4

\* An iteration ends: the loop goes on with no slice.
LEMMA IterationEnds ==
  ASSUME LoopInv, pc # "next", NEW n \in Nat, n >= slice.from, Advance(n),
         pc' = "next", slice' = NoJob,
         next' \in Nonces,
         inflight' \in {inflight, None},
         UNCHANGED preempted,
         outbox' \subseteq outbox \cup {[id |-> slice.id, parent |-> slice.parent]},
         scanned' \in [id : JobIds, upto : Nonces] \cup {NoJob},
         frontier' \in Nonces
  PROVE  LoopInv'
<1>1. outbox' \subseteq Shares
  BY DEF LoopInv, TypeOK, SliceInv, Slices, Shares
<1> QED
  BY <1>1, AdvanceTyped DEF LoopInv, TypeOK, SliceInv, CursorInv,
     DeadTipIsPreempted, HasJob

\* A slice that runs, and where it may end.
LEMMA SliceTyped ==
  ASSUME LoopInv, pc # "next"
  PROVE  /\ slice.id \in JobIds /\ slice.parent \in Parents
         /\ slice.from \in Nonces /\ slice.from \in Nat
         /\ slice.from + SliceTries \in Nat
         /\ slice.from + SliceTries >= slice.from
         /\ \A end \in Ends : end \in Nonces /\ end >= slice.from /\ end + 1 \in Nat
         /\ frontier \in Nonces
BY NonceAssumption DEF LoopInv, TypeOK, SliceInv, Slices, Nonces, Ends

LEMMA LoopStepInv == LoopInv /\ LoopStep => LoopInv'
<1> SUFFICES ASSUME LoopInv, LoopStep PROVE LoopInv'
  OBVIOUS
<1>1. next \in Nonces /\ (HasJob => job \in Jobs)
  BY DEF LoopInv, TypeOK, HasJob
<1>2. CASE BeginSlice
  <2>1. job \in Jobs
    BY <1>1, <1>2 DEF BeginSlice
  <2>2. slice' \in Slices /\ slice'.from = job.start /\ slice'.parent = job.parent
    BY <1>2, <2>1 DEF BeginSlice, Slices, Jobs
  <2>3. preempted' \in BOOLEAN
    BY <1>2 DEF BeginSlice
  <2>4. job.start \in Nat
    BY <2>1 DEF Jobs, Nonces
  <2> QED
    BY <1>2, <2>1, <2>2, <2>3, <2>4 DEF BeginSlice, LoopInv, TypeOK, SliceInv,
       CursorInv, DeadTipIsPreempted, Stale, HasJob, Slices
<1>3. CASE RefuseJob
  <2>1. job \in Jobs
    BY <1>1, <1>3 DEF RefuseJob
  <2>2. slice' \in Slices /\ slice'.from = job.start
    BY <1>3, <2>1 DEF RefuseJob, Slices, Jobs
  <2>3. job.start \in Nonces /\ job.start \in Nat
    BY <2>1 DEF Jobs, Nonces
  <2>4. next' \in Nonces /\ next' >= job.start
    BY <1>3, <2>3, CapTyped, NonceAssumption DEF RefuseJob
  <2> QED
    BY <1>3, <2>1, <2>2, <2>3, <2>4 DEF RefuseJob, LoopInv, TypeOK, SliceInv,
       CursorInv, DeadTipIsPreempted, Stale, HasJob, Slices
<1>4. ASSUME NEW end \in Ends, NotFound(end) PROVE LoopInv'
  <2>1. (IF end > slice.from THEN end + 1 ELSE slice.from + SliceTries) >= slice.from
    BY <1>4, SliceTyped DEF NotFound, Returned, Nonces
  <2>2. frontier' \in Nonces
    BY <1>4, SliceTyped, CapTyped DEF NotFound, Returned
  <2> QED
    BY <1>1, <1>4, <2>1, <2>2, SliceTyped, IterationEnds DEF NotFound, Returned
<1>5. CASE NoAnswer
  BY <1>1, <1>5, SliceTyped, IterationEnds DEF NoAnswer, Returned
<1>6. ASSUME NEW end \in Ends, Found(end) PROVE LoopInv'
  BY <1>1, <1>6, SliceTyped, IterationEnds DEF Found, Returned
<1>7. CASE Resume
  <2>1. pc \in {"submit", "pause"} /\ next \in Nat /\ next >= slice.from
    BY <1>1, <1>7 DEF Resume, LoopInv, CursorInv, Nonces
  <2>2. next' \in Nonces
    BY <1>7, NonceAssumption DEF Resume, Nonces
  <2>3. /\ scanned' \in [id : JobIds, upto : Nonces] \cup {NoJob}
        /\ frontier' \in Nonces
    BY <1>7 DEF Resume, LoopInv, TypeOK
  <2> QED
    BY <1>7, <2>1, <2>2, <2>3, IterationEnds DEF Resume
<1>8. CASE SliceRaised \/ \E end \in Ends : FoundOne(end)
  <2>1. pc = "solve" /\ slice \in Slices
    BY <1>8 DEF SliceRaised, FoundOne, Returned, LoopInv, SliceInv
  <2>2. next' \in Nonces /\ next' >= slice.from
    BY <1>8, <2>1, SliceTyped, CapTyped DEF SliceRaised, FoundOne
  <2>3. outbox' \subseteq Shares
    BY <1>8, <2>1, SliceTyped DEF SliceRaised, FoundOne, LoopInv, TypeOK, Shares
  <2>4. scanned' \in [id : JobIds, upto : Nonces] \cup {NoJob}
    BY <1>8, <2>1, SliceTyped DEF SliceRaised, FoundOne
  <2>5. /\ pc' \in {"pause", "submit"} /\ inflight' \in {inflight, None}
        /\ UNCHANGED <<job, slice, preempted, frontier>>
    BY <1>8 DEF SliceRaised, FoundOne, Returned
  <2> QED
    BY <2>1, <2>2, <2>3, <2>4, <2>5 DEF LoopInv, TypeOK, SliceInv, CursorInv,
       DeadTipIsPreempted, HasJob, Slices
<1> QED
  BY <1>2, <1>3, <1>4, <1>5, <1>6, <1>7, <1>8 DEF LoopStep, SliceEnds

LEMMA NextInv == LoopInv /\ [Next]_vars => LoopInv'
<1> SUFFICES ASSUME LoopInv, [Next]_vars PROVE LoopInv'
  OBVIOUS
<1>1. CASE PoolNotifies
  BY <1>1, NotifyInv DEF PoolNotifies
<1>2. CASE \E share \in outbox : Send(share)
  BY <1>2 DEF Send, LoopInv, TypeOK, SliceInv, CursorInv, DeadTipIsPreempted,
     Stale, HasJob
<1>3. CASE DropSession
  <2>1. next' \in Nonces /\ frontier' \in Nonces
    BY <1>3, NonceAssumption DEF DropSession, Nonces
  <2> QED
    BY <1>3, <2>1 DEF DropSession, LoopInv, TypeOK, SliceInv, CursorInv,
       DeadTipIsPreempted, Stale, HasJob
<1>4. CASE UNCHANGED vars
  BY <1>4 DEF vars, LoopInv, TypeOK, SliceInv, CursorInv, DeadTipIsPreempted,
     Stale, HasJob
<1> QED
  BY <1>1, <1>2, <1>3, <1>4, LoopStepInv DEF Next

LEMMA LoopInvAlways == Spec => []LoopInv
BY InitInv, NextInv, PTL DEF Spec
-----------------------------------------------------------------------------
(* The frontier.                                                           *)

\* The position a notify may copy is that of a placed job, and a slice begins
\* beyond the frontier, so whatever its end writes back is beyond it too.
FrontierInv ==
  /\ NeverRescans
  /\ frontier > 0 => HasJob /\ job.placed
  /\ pc # "next" => HasJob /\ slice.from >= frontier

LEMMA NoJobIsNone == NoJob \notin Jobs
<1> SUFFICES ASSUME NoJob \in Jobs PROVE FALSE
  OBVIOUS
<1>1. PICK j \in Jobs : j = NoJob
  OBVIOUS
<1>2. "parent" \in DOMAIN j
  BY DEF Jobs
<1>3. DOMAIN NoJob = {"id"}
  BY DEF NoJob
<1> QED
  BY <1>1, <1>2, <1>3

LEMMA FrontierInit == Init => FrontierInv
BY DEF Init, FrontierInv, NeverRescans, HasJob

LEMMA NotifyFrontier ==
  ASSUME LoopInv, FrontierInv,
         NEW id \in JobIds, NEW parent \in Parents, NEW clean \in BOOLEAN,
         NEW placed \in BOOLEAN, NEW seeded \in BOOLEAN,
         Notify(id, parent, clean, placed, seeded)
  PROVE  FrontierInv'
<1>1. /\ job' \in Jobs /\ job'.start = StartOf(clean, placed)
      /\ job'.placed = IsPlaced(clean, placed)
      /\ frontier' = (IF clean THEN 0 ELSE frontier)
      /\ pc' = pc /\ slice' = slice
  BY NotifyTyped DEF Notify
<1>2. HasJob'
  BY <1>1, NoJobIsNone DEF HasJob, NoJob
<1>3. job'.start \in Nat /\ frontier \in Nat
  BY <1>1 DEF Jobs, Nonces, LoopInv, TypeOK
<1>4. pc # "next" => slice.from \in Nat
  BY DEF LoopInv, SliceInv, Slices, Nonces
<1>5. CASE clean
  <2>1. frontier' = 0 /\ (pc' # "next" => slice'.from \in Nat)
    BY <1>1, <1>4, <1>5
  <2>2. ~(frontier' > 0) /\ job'.start >= frontier'
    BY <1>3, <2>1
  <2>3. pc' # "next" => slice'.from >= frontier'
    BY <2>1
  <2> QED
    BY <1>2, <2>2, <2>3 DEF FrontierInv, NeverRescans
<1>6. CASE ~clean /\ frontier > 0
  BY <1>1, <1>2, <1>6 DEF FrontierInv, NeverRescans, StartOf, IsPlaced
<1>7. CASE ~clean /\ ~(frontier > 0)
  BY <1>1, <1>2, <1>3, <1>7 DEF FrontierInv, NeverRescans
<1> QED
  BY <1>5, <1>6, <1>7

\* The end of an iteration that has reached n leaves the cursor at n or later,
\* or where it was, and the frontier where it was or at most at n.
LEMMA IterationFrontier ==
  ASSUME LoopInv, FrontierInv, pc # "next", NEW n \in Nat, n >= slice.from,
         Advance(n), pc' = "next",
         \/ frontier' = frontier
         \/ ~Stale /\ \E m \in Nat : m <= n /\ frontier' = Cap(m)
  PROVE  FrontierInv'
<1>1. HasJob /\ job \in Jobs /\ slice.from >= frontier /\ slice.from \in Nonces
  BY DEF LoopInv, TypeOK, FrontierInv, HasJob, SliceInv, Slices
<1>2. frontier \in Nat /\ job.start \in Nat /\ slice.from \in Nat
  BY <1>1 DEF LoopInv, TypeOK, Jobs, Nonces
<1>3. CASE Stale
  BY <1>1, <1>3 DEF Stale, Advance, FrontierInv, NeverRescans, HasJob
<1>4. CASE ~Stale
  <2>1. job' = [job EXCEPT !.start = Cap(n), !.placed = TRUE]
    BY <1>1, <1>4 DEF Stale, Advance
  <2>2. Cap(n) \in Nonces /\ Cap(n) >= slice.from
    BY <1>1, CapTyped
  <2>3. job' \in Jobs /\ job'.start = Cap(n) /\ job'.placed
    BY <1>1, <2>1, <2>2 DEF Jobs
  <2>4. frontier' <= Cap(n)
    <3>1. CASE frontier' = frontier
      BY <1>1, <1>2, <2>2, <3>1 DEF Nonces
    <3>2. ASSUME NEW m \in Nat, m <= n, frontier' = Cap(m)
          PROVE  frontier' <= Cap(n)
      BY <3>2, NonceAssumption DEF Cap
    <3> QED
      BY <3>1, <3>2
  <2> QED
    BY <2>3, <2>4, NoJobIsNone DEF FrontierInv, NeverRescans, HasJob, NoJob
<1> QED
  BY <1>3, <1>4

LEMMA LoopStepFrontier == LoopInv /\ FrontierInv /\ LoopStep => FrontierInv'
<1> SUFFICES ASSUME LoopInv, FrontierInv, LoopStep PROVE FrontierInv'
  OBVIOUS
<1>1. CASE BeginSlice \/ RefuseJob
  <2>1. /\ HasJob /\ slice'.from = job.start
        /\ UNCHANGED <<job, frontier>>
    BY <1>1 DEF BeginSlice, RefuseJob
  <2> QED
    BY <2>1 DEF FrontierInv, NeverRescans, HasJob, NoJob
<1>2. ASSUME NEW end \in Ends, NotFound(end) PROVE FrontierInv'
  <2> DEFINE n == IF end > slice.from THEN end + 1 ELSE slice.from + SliceTries
  <2>1. pc = "solve" /\ pc' = "next" /\ Advance(n)
    BY <1>2 DEF NotFound, Returned
  <2>2. /\ end \in Nat /\ slice.from \in Nat /\ end >= slice.from
        /\ slice.from + SliceTries >= slice.from + 1
    BY <2>1, SliceTyped, NonceAssumption DEF Nonces
  <2>3. n \in Nat /\ n >= slice.from /\ end + 1 \in Nat /\ end + 1 <= n
    BY <2>2, NonceAssumption
  <2>4. \/ frontier' = frontier
        \/ ~Stale /\ frontier' = Cap(end + 1)
    BY <1>2 DEF NotFound
  <2> HIDE DEF n
  <2> QED
    BY <2>1, <2>3, <2>4, IterationFrontier
<1>3. CASE NoAnswer \/ \E end \in Ends : Found(end)
  BY <1>3, SliceTyped, IterationFrontier DEF NoAnswer, Found, Returned
<1>4. CASE Resume
  BY <1>4, IterationFrontier DEF Resume, LoopInv, TypeOK, CursorInv, Nonces
<1>5. CASE SliceRaised \/ \E end \in Ends : FoundOne(end)
  BY <1>5 DEF SliceRaised, FoundOne, Returned, FrontierInv, NeverRescans, HasJob
<1> QED
  BY <1>1, <1>2, <1>3, <1>4, <1>5 DEF LoopStep, SliceEnds

LEMMA NextFrontier == LoopInv /\ FrontierInv /\ [Next]_vars => FrontierInv'
<1> SUFFICES ASSUME LoopInv, FrontierInv, [Next]_vars PROVE FrontierInv'
  OBVIOUS
<1>1. CASE PoolNotifies
  BY <1>1, NotifyFrontier DEF PoolNotifies
<1>2. CASE DropSession
  BY <1>2 DEF DropSession, FrontierInv, NeverRescans, HasJob, NoJob
<1>3. CASE (\E share \in outbox : Send(share)) \/ UNCHANGED vars
  BY <1>3 DEF Send, vars, FrontierInv, NeverRescans, HasJob
<1> QED
  BY <1>1, <1>2, <1>3, LoopStepFrontier DEF Next

-----------------------------------------------------------------------------
(* Theorems.                                                               *)

\* Jobs, slices and cursors keep their types.
THEOREM TypeCorrect == Spec => []TypeOK
<1>1. LoopInv => TypeOK
  BY DEF LoopInv
<1> QED
  BY LoopInvAlways, <1>1, PTL

\* A slice that runs on while the tip has moved has been preempted
\* (stratum_client.py:400-407).
THEOREM DeadTipPreempted == Spec => []DeadTipIsPreempted
<1>1. LoopInv => DeadTipIsPreempted
  BY DEF LoopInv
<1> QED
  BY LoopInvAlways, <1>1, PTL

\* Rotations and write-backs lose no ground (stratum_client.py:376-391 and
\* 587-604).
THEOREM CursorKeepsGround == Spec => CursorNeverBacktracks
<1> DEFINE Keeps == HasJob /\ job'.id # None =>
                      \/ job'.start >= job.start
                      \/ job'.id # job.id /\ job'.clean
                      \/ pc # "next" /\ slice.from < Base
<1>1. LoopInv /\ [Next]_vars => [Keeps]_vars
  <2> SUFFICES ASSUME LoopInv, Next, HasJob, job'.id # None PROVE Keeps
    OBVIOUS
  <2>1. job \in Jobs /\ job.start \in Nat
    BY DEF LoopInv, TypeOK, HasJob, Jobs, Nonces
  <2>2. CASE UNCHANGED job
    BY <2>1, <2>2
  <2>3. CASE PoolNotifies
    <3>1. PICK id \in JobIds \ UsedIds, parent \in Parents,
               clean \in BOOLEAN, placed \in BOOLEAN, seeded \in BOOLEAN :
                 Notify(id, parent, clean, placed, seeded)
      BY <2>3 DEF PoolNotifies
    <3>2. job'.id # job.id
      BY <3>1, NotifyTyped DEF UsedIds
    <3> QED
      BY <3>1, <3>2, NotifyTyped
  <2>4. CASE DropSession
    BY <2>4 DEF DropSession, NoJob
  <2>5. ASSUME pc # "next", NEW n \in Nat, n >= slice.from, Advance(n)
        PROVE  Keeps
    <3>1. HasJob'
      BY <2>5 DEF HasJob, NoJob
    <3> QED
      BY <2>5, <3>1, AdvanceTyped
  <2>6. CASE LoopStep
    <3>1. ASSUME NEW end \in Ends, NotFound(end) PROVE Keeps
      <4>1. (IF end > slice.from THEN end + 1 ELSE slice.from + SliceTries) >= slice.from
        BY <3>1, SliceTyped DEF NotFound, Returned, Nonces
      <4> QED
        BY <2>5, <3>1, <4>1, SliceTyped DEF NotFound, Returned
    <3>2. CASE NoAnswer \/ \E end \in Ends : Found(end)
      BY <2>5, <3>2, SliceTyped DEF NoAnswer, Found, Returned
    <3>3. CASE Resume
      BY <2>5, <3>3 DEF Resume, LoopInv, TypeOK, CursorInv, Nonces
    <3> QED
      BY <2>2, <2>6, <3>1, <3>2, <3>3 DEF LoopStep, SliceEnds, BeginSlice,
         RefuseJob, FoundOne, SliceRaised
  <2> QED
    BY <2>2, <2>3, <2>4, <2>6 DEF Next, Send
<1> QED
  BY LoopInvAlways, <1>1, PTL DEF Spec, CursorNeverBacktracks

\* No nonce that slices have reported scanned on the live tip is scanned again
\* before a clean notify (stratum_client.py:388-391 and 575-604).
THEOREM ScansNewGround == Spec => []NeverRescans
<1>1. FrontierInv => NeverRescans
  BY DEF FrontierInv
<1> QED
  BY LoopInvAlways, FrontierInit, NextFrontier, <1>1, PTL DEF Spec
=============================================================================
