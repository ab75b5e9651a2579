----------------------------- MODULE SolverLoop -----------------------------
(***************************************************************************)
(* StratumClient._solver_loop and _on_notify (stratum_client.py): the pool *)
(* rotates jobs while the solver loop scans one slice of nonces after      *)
(* another. The two coroutines share _current_job, whose                   *)
(* matmul["nonce64_start"] is the scan position (the cursor): notify       *)
(* carries it over to the next job, the solver loop writes it back when a  *)
(* slice ends, possibly onto a job that arrived while the slice ran.       *)
(*                                                                         *)
(* A slice's result is an input here; GbtSolveWrapper models where it      *)
(* comes from.                                                             *)
(***************************************************************************)
EXTENDS Naturals

CONSTANTS JobIds,      \* names of jobs
          Parents,     \* hashes of parent blocks
          None,        \* Python's None
          Base,        \* the nonce64_start the pool broadcasts in a session
          SliceTries,  \* cfg.nonces_per_slice
          MaxNonce     \* bound: the cursor is not followed beyond it

ASSUME NameAssumption == None \notin Parents
ASSUME NonceAssumption == /\ Base \in Nat
                          /\ SliceTries \in Nat \ {0}
                          /\ MaxNonce \in Nat
                          /\ Base <= MaxNonce

VARIABLES
  job,        \* _current_job (job.id = None: there is none)
  pc,         \* the await _solver_loop is suspended at
  slice,      \* its locals: the job's id and parent, and nonce_start
  next,       \* its local next_nonce_start, while it waits with it
  inflight,   \* _inflight_parent
  preempted,  \* preempt() was called since the slice began
  outbox,     \* shares handed to _submit_share and not sent yet
  scanned,    \* history: how far the last slice got, and on which job,
              \* when it came back with shares
  frontier    \* history: the nonces below it need no second scan, slices have
              \* reported them scanned since the last clean notify

vars == <<job, pc, slice, next, inflight, preempted, outbox, scanned, frontier>>

Nonces == 0..MaxNonce
Cap(n) == IF n <= MaxNonce THEN n ELSE MaxNonce

\* A parsed notify: whether its matmul part has a nonce64_start, the value,
\* whether it has the fields a challenge needs, and (history) what it said
\* under clean_jobs.
Jobs == [id : JobIds, parent : Parents, placed : BOOLEAN, start : Nonces,
         seeded : BOOLEAN, clean : BOOLEAN]
NoJob == [id |-> None]
HasJob == job # NoJob
Shares == [id : JobIds, parent : Parents]

TypeOK ==
  /\ job \in Jobs \cup {NoJob}
  /\ pc \in {"next", "solve", "submit", "pause"}
  /\ slice \in [id : JobIds, parent : Parents, from : Nonces] \cup {NoJob}
  /\ next \in Nonces
  /\ inflight \in Parents \cup {None}
  /\ preempted \in BOOLEAN
  /\ outbox \subseteq Shares
  /\ scanned \in [id : JobIds, upto : Nonces] \cup {NoJob}
  /\ frontier \in Nonces

Init ==
  /\ job = NoJob
  /\ pc = "next"
  /\ slice = NoJob
  /\ next = 0
  /\ inflight = None
  /\ preempted = FALSE
  /\ outbox = {}
  /\ scanned = NoJob
  /\ frontier = 0

-----------------------------------------------------------------------------
(* The reader: mining.notify. *)

\* Mutants of StartOf: the broadcast position wins on every notify; the
\* carried position is taken as an offset to it.
StartOfBroadcast(clean, placed) == IF placed THEN Base ELSE 0
StartOfOffset(clean, placed) ==
  IF ~clean /\ HasJob /\ job.placed THEN Base + job.start
  ELSE IF placed THEN Base ELSE 0

\* The position a notify's job starts from: with clean=false the previous
\* job's, if it has one; else the broadcast one; 0 if the notify has none
\* (matmul.get("nonce64_start", 0)).
StartOf(clean, placed) ==
  IF ~clean /\ HasJob /\ job.placed THEN job.start
  ELSE IF placed THEN Base ELSE 0

IsPlaced(clean, placed) == placed \/ (~clean /\ HasJob /\ job.placed)

\* Mutant of Notify: only a clean notify preempts.
NotifyCleanPreempts(id, parent, clean, placed, seeded) ==
  /\ job' = [id |-> id, parent |-> parent,
             placed |-> IsPlaced(clean, placed),
             start |-> StartOf(clean, placed), seeded |-> seeded,
             clean |-> clean]
  /\ preempted' = (preempted \/ (clean /\ inflight \notin {None, parent}))
  /\ frontier' = IF clean THEN 0 ELSE frontier
  /\ UNCHANGED <<pc, slice, next, inflight, outbox, scanned>>

\* A well-formed notify. A slice in flight on another parent is preempted,
\* whatever clean says.
Notify(id, parent, clean, placed, seeded) ==
  /\ job' = [id |-> id, parent |-> parent,
             placed |-> IsPlaced(clean, placed),
             start |-> StartOf(clean, placed), seeded |-> seeded,
             clean |-> clean]
  /\ preempted' = (preempted \/ inflight \notin {None, parent})
  /\ frontier' = IF clean THEN 0 ELSE frontier
  /\ UNCHANGED <<pc, slice, next, inflight, outbox, scanned>>

\* Ids are fresh: the pool does not reuse one that is still around.
UsedIds == {job.id, slice.id, scanned.id} \cup {s.id : s \in outbox}

PoolNotifies ==
  \E id \in JobIds \ UsedIds, parent \in Parents,
     clean, placed, seeded \in BOOLEAN :
       Notify(id, parent, clean, placed, seeded)

-----------------------------------------------------------------------------
(* _solver_loop. *)

\* Mutant of Advance: the position is written back to the slice's job only.
AdvanceSameJob(n) ==
  job' = IF job.id = slice.id
           THEN [job EXCEPT !.start = Cap(n), !.placed = TRUE] ELSE job

\* The end of an iteration: the cursor moves on if the tip is still the one
\* the slice was for, on whatever job is current now.
Advance(n) ==
  job' = IF HasJob /\ job.parent = slice.parent
           THEN [job EXCEPT !.start = Cap(n), !.placed = TRUE] ELSE job

\* Mutant of Stale: no guard against it.
StaleNever == FALSE

\* The tip moved to another parent while the slice ran.
Stale == HasJob /\ job.parent # slice.parent

\* A slice of the current job is handed to solve_slice.
BeginSlice ==
  /\ pc = "next"
  /\ HasJob
  /\ job.seeded
  /\ pc' = "solve"
  /\ slice' = [id |-> job.id, parent |-> job.parent, from |-> job.start]
  /\ inflight' = job.parent
  /\ preempted' = FALSE
  /\ scanned' = NoJob
  /\ UNCHANGED <<job, next, outbox, frontier>>

\* to_solve_challenge refuses a job without the matmul fields: the loop
\* pauses for a second with the position it would go on from.
RefuseJob ==
  /\ pc = "next"
  /\ HasJob
  /\ ~job.seeded
  /\ pc' = "pause"
  /\ slice' = [id |-> job.id, parent |-> job.parent, from |-> job.start]
  /\ next' = Cap(job.start + SliceTries)
  /\ scanned' = NoJob
  /\ UNCHANGED <<job, inflight, preempted, outbox, frontier>>

\* How far the solver got; whatever it was asked for, it counts tries and not
\* nonces, so it may stop before or after from + SliceTries.
Ends == slice.from..MaxNonce

\* solve_slice returned a result (found or not).
Returned ==
  /\ pc = "solve"
  /\ inflight' = None
  /\ UNCHANGED preempted

\* No share; the solver says where it stopped.
NotFound(end) ==
  /\ Returned
  /\ Advance(IF end > slice.from THEN end + 1 ELSE slice.from + SliceTries)
  /\ frontier' = IF Stale THEN frontier ELSE Cap(end + 1)
  /\ scanned' = NoJob
  /\ pc' = "next"
  /\ slice' = NoJob
  /\ UNCHANGED <<next, outbox>>

\* The wrapper gave up on the slice: found=False and no nonce_end.
NoAnswer ==
  /\ Returned
  /\ Advance(slice.from + SliceTries)
  /\ scanned' = NoJob
  /\ pc' = "next"
  /\ slice' = NoJob
  /\ UNCHANGED <<next, outbox, frontier>>

\* One or more shares; the wrapper's result for them has no nonce_end. The
\* submissions run in the background.
Found(end) ==
  /\ Returned
  /\ outbox' = IF Stale THEN outbox
               ELSE outbox \cup {[id |-> slice.id, parent |-> slice.parent]}
  /\ Advance(slice.from + SliceTries)
  /\ scanned' = [id |-> slice.id, upto |-> end]
  /\ pc' = "next"
  /\ slice' = NoJob
  /\ UNCHANGED <<next, frontier>>

\* A solver that reports a single share: the loop awaits its submission
\* before it computes the next position.
FoundOne(end) ==
  /\ Returned
  /\ ~Stale
  /\ outbox' = outbox \cup {[id |-> slice.id, parent |-> slice.parent]}
  /\ scanned' = [id |-> slice.id, upto |-> end]
  /\ pc' = "submit"
  /\ next' = Cap(slice.from + SliceTries)
  /\ UNCHANGED <<job, slice, frontier>>

\* solve_slice raised: the loop pauses; _inflight_parent stays.
SliceRaised ==
  /\ pc = "solve"
  /\ pc' = "pause"
  /\ next' = Cap(slice.from + SliceTries)
  /\ scanned' = NoJob
  /\ UNCHANGED <<job, slice, inflight, preempted, outbox, frontier>>

\* The pause, or the awaited submission, is over.
Resume ==
  /\ \/ pc = "pause"
     \/ pc = "submit" /\ [id |-> slice.id, parent |-> slice.parent] \notin outbox
  /\ Advance(next)
  /\ pc' = "next"
  /\ slice' = NoJob
  /\ next' = 0
  /\ UNCHANGED <<inflight, preempted, outbox, scanned, frontier>>

\* A submission is sent.
Send(share) ==
  /\ share \in outbox
  /\ outbox' = outbox \ {share}
  /\ UNCHANGED <<job, pc, slice, next, inflight, preempted, scanned, frontier>>

-----------------------------------------------------------------------------
\* The session ends: the solver loop is cancelled and the job forgotten.
\* Background submissions are not cancelled, _inflight_parent is not reset.
DropSession ==
  /\ HasJob
  /\ job' = NoJob
  /\ pc' = "next"
  /\ slice' = NoJob
  /\ next' = 0
  /\ outbox' = IF pc = "submit"
                 THEN outbox \ {[id |-> slice.id, parent |-> slice.parent]}
                 ELSE outbox
  /\ scanned' = NoJob
  /\ frontier' = 0
  /\ UNCHANGED <<inflight, preempted>>

SliceEnds == \/ /\ pc = "solve"
                /\ \E end \in Ends :
                     NotFound(end) \/ Found(end) \/ FoundOne(end)
             \/ NoAnswer
             \/ SliceRaised

LoopStep == BeginSlice \/ RefuseJob \/ SliceEnds \/ Resume

Next == \/ PoolNotifies
        \/ LoopStep
        \/ \E share \in outbox : Send(share)
        \/ DropSession

Spec == Init /\ [][Next]_vars

\* A slice ends (GbtSolveWrapper!SliceEnds), a pause is over, a submission is
\* sent or fails: the event loop runs what is ready.
Fairness == /\ WF_vars(LoopStep)
            /\ \A share \in Shares : WF_vars(Send(share))
FairSpec == Spec /\ Fairness

-----------------------------------------------------------------------------
(* Properties. *)

\* The cursor only moves forward while jobs rotate under the running slice:
\* only a clean notify sets it back; neither a clean=false notify nor the
\* write-back of a slice that began on an earlier job loses ground already
\* covered. (Except for a slice that began below Base, because a notify came
\* without nonce64_start.)
CursorNeverBacktracks ==
  [][HasJob /\ job'.id # None =>
       \/ job'.start >= job.start
       \/ job'.id # job.id /\ job'.clean
       \/ pc # "next" /\ slice.from < Base]_vars

\* No slice keeps running on a dead tip without a preempt: in flight on
\* another parent than the current job's, it has been signalled.
DeadTipIsPreempted ==
  pc = "solve" /\ Stale => preempted

\* No work is done twice: the position the next slice will start from is never
\* below the nonces that slices on the live tip have reported scanned. A report
\* is not lost when the job was rotated under the slice (notify has copied the
\* position from before the report), when a later slice raises, is given up on
\* or finds shares, or when the loop refuses a job. Only a clean notify, which
\* brings a position of its own, makes the miner start over.
NeverRescans == HasJob => job.start >= frontier

\* The tip stands: from now on the session stays up and every notify is a
\* clean=false one for the same parent.
Rotation == /\ HasJob /\ job'.id # None
            /\ job'.parent = job.parent
            /\ job'.id # job.id => ~job'.clean
TipStands == <>[][Rotation]_vars

\* While the tip stands the cursor moves on for ever, however often the pool
\* rotates the job: slices that end under another job id are not lost.
Progress ==
  TipStands => \A n \in 0..(MaxNonce - 1) :
                 (HasJob /\ job.start = n) ~> (~HasJob \/ job.start # n)

\* The position the solver reports "always (found or not)" is "crucial for
\* advancing nonce_start correctly" (gbt_solve_wrapper.py:88-89): after a slice
\* with shares the next one of the same job goes on where the solver stopped.
ResumesWhereStopped ==
  [][BeginSlice /\ scanned.id = job.id => job.start <= scanned.upto + 1]_vars
=============================================================================
