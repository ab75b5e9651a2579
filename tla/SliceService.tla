---------------------------- MODULE SliceService ----------------------------
(***************************************************************************)
(* What GbtSolveWrapper.solve_slice promises its caller, whatever happens  *)
(* to solver processes underneath: slices are served one at a time, and a  *)
(* slice ends either with the answer to that very slice or with no answer  *)
(* (found=False, or an exception the solver loop turns into a pause).      *)
(*                                                                         *)
(* A session that drops a slice puts the service out of step: from then on *)
(* a slice gets the answer of one before it and leaves its own behind, and *)
(* only the end of the solver process puts the service right again: the    *)
(* slice in flight may still read one line of what the process has left in *)
(* its stdout, the next one starts clean.                                  *)
(* NoJob stands for "no slice" and for "no answer".                        *)
(***************************************************************************)
CONSTANTS Jobs,    \* slices the solver loop can ask for
          NoJob    \* not a slice

VARIABLES asked,   \* the slice being served, or NoJob
          answer,  \* the answer handed back, once the slice has ended
          behind,  \* slices left behind whose answer may still come
          bounced  \* the process that holds them has been shut down

vars == <<asked, answer, behind, bounced>>

NoAnswer == [asked |-> NoJob, answered |-> NoJob]

Init == /\ asked = NoJob
        /\ answer = NoAnswer
        /\ behind = {}
        /\ bounced = FALSE

\* The solver loop asks for the next slice.
Ask(j) == /\ asked = NoJob
          /\ j \notin behind
          /\ asked' = j
          /\ answer' = NoAnswer
          /\ UNCHANGED <<behind, bounced>>

\* The slice in flight ends with answer a; slices in left stay behind, or fewer,
\* and none when the process has been shut down.
End(a, left) ==
  /\ asked # NoJob
  /\ asked' = NoJob
  /\ answer' = [asked |-> asked, answered |-> a]
  /\ behind' \in SUBSET (IF bounced THEN {} ELSE left)
  /\ bounced' = FALSE

\* With the answer that belongs to it.
Answer == behind = {} /\ End(asked, {})

\* Out of step, with the answer, or the error, of a slice left behind; its own
\* may come later, unless the process was already told to exit.
AnswerBehind ==
  \E j \in behind : \E a \in {j, NoJob} : End(a, (behind \ {j}) \cup {asked})

\* The service gives the slice up.
GiveUp == End(NoJob, behind)

\* The caller drops the slice and may leave it behind.
Drop == End(NoJob, behind \cup {asked})

\* The process is shut down; the slice in flight may still read what it has
\* left in its stdout.
Bounce == /\ behind' \in SUBSET (IF asked = NoJob THEN {} ELSE behind)
          /\ bounced' = (behind' # {})
          /\ UNCHANGED <<asked, answer>>

\* A process ends, and with it what it had left to answer.
Lose == /\ behind' \in SUBSET behind
        /\ bounced' = (bounced /\ behind' # {})
        /\ UNCHANGED <<asked, answer>>

Next == \/ \E j \in Jobs : Ask(j)
        \/ Answer
        \/ AnswerBehind
        \/ GiveUp
        \/ Drop
        \/ Bounce
        \/ Lose

Spec == Init /\ [][Next]_vars
=============================================================================
