---------------------- MODULE GbtSolveWrapperRefinement ----------------------
(***************************************************************************)
(* GbtSolveWrapper implements SliceService, for any slots, slices, shapes  *)
(* and any number of slices left behind: what solve_slice hands back is    *)
(* what the service promises, whatever timeouts, crashes, retries, bounces *)
(* and dropped sessions come in between. And a slice only comes back       *)
(* preempted if it was preempted itself.                                   *)
(*                                                                         *)
(* Both rest on what is in the pipes of a process: a slice is there at     *)
(* most once, and the one being served is the last to have gone in. So     *)
(* does, with the shape each process was started with, that a daemon is    *)
(* given slices of its own shape.                                          *)
(***************************************************************************)
EXTENDS GbtSolveWrapperProofs

\* The slices in each process' pipes, or which it works on.
Pipes == [p \in Slots |-> InPipes(p)]

\* No slice is twice in the pipes of a process.
Distinct(p) ==
  /\ \A i, k \in DOMAIN stdin[p] : stdin[p][i] = stdin[p][k] => i = k
  /\ \A i, k \in DOMAIN stdout[p] : stdout[p][i].job = stdout[p][k].job => i = k
  /\ \A i \in DOMAIN stdin[p], k \in DOMAIN stdout[p] :
       stdin[p][i] # stdout[p][k].job
  /\ \A i \in DOMAIN stdin[p] : stdin[p][i] # working[p]
  /\ \A i \in DOMAIN stdout[p] : stdout[p][i].job # working[p]

\* If slice j is in the pipes of a process, nothing has come in after it.
Last(p, j) ==
  /\ \A i \in DOMAIN stdin[p] : stdin[p][i] = j => i = Len(stdin[p])
  /\ working[p] = j => stdin[p] = <<>>
  /\ \A i \in DOMAIN stdout[p] :
       stdout[p][i].job = j =>
         i = Len(stdout[p]) /\ working[p] = NoJob /\ stdin[p] = <<>>

\* The coroutine: between slices it holds nothing; it reads from the daemon, or
\* from a process that was the daemon; a shutdown it has seen to the end has
\* left no daemon.
CoroutineInv ==
  /\ pc = "idle" => job = NoJob /\ using = None
  /\ pc \in {"ready", "read"} => daemon \in {using, None}
  /\ pc = "backoff" => daemon = None
  /\ pc \in Stopping /\ stop["solver"] = None => daemon = None

\* Only a busy process works on a slice.
Idlers == \A p \in Slots : st[p] # "busy" => working[p] = NoJob

\* The pipes: no slice is there twice; the slice being served is not there
\* before it is written, and then is the last; a new process has empty pipes.
PipesInv ==
  /\ Idlers
  /\ \A p \in Slots : Distinct(p)
  /\ pc \in {"ensure", "reshape", "spawn"} /\ daemon # None =>
       job \notin Pipes[daemon]
  /\ pc \in {"spawn", "ready"} => Pipes[using] = {}
  /\ pc = "read" => Last(using, job)

\* The slice being served has been preempted only by a preempt of its own.
FlagInv ==
  daemon # None /\ st[daemon] = "busy" /\ working[daemon] = job /\ flag[daemon]
    => signalled

WireInv == StopInv /\ CoroutineInv /\ PipesInv

-----------------------------------------------------------------------------
(* What a step does to the pipes of one process. *)

\* A step puts nothing in the pipes of p, and takes away what it does in order.
Keeps(p) == /\ Pipes'[p] \subseteq Pipes[p]
            /\ Distinct(p) => Distinct(p)'
            /\ \A j \in Jobs : Last(p, j) => Last(p, j)'

\* The three parts of a process' pipes.
LEMMA InPipe ==
  ASSUME TypeOK, NEW p \in Slots, NEW j
  PROVE  j \in Pipes[p] <=>
           \/ \E i \in DOMAIN stdin[p] : stdin[p][i] = j
           \/ \E i \in DOMAIN stdout[p] : stdout[p][i].job = j
           \/ working[p] = j /\ j # NoJob
BY SlotAssumption DEF Pipes, InPipes

LEMMA InPipeNext ==
  ASSUME TypeOK', NEW p \in Slots, NEW j
  PROVE  j \in Pipes'[p] <=>
           \/ \E i \in DOMAIN stdin'[p] : stdin'[p][i] = j
           \/ \E i \in DOMAIN stdout'[p] : stdout'[p][i].job = j
           \/ working'[p] = j /\ j # NoJob
BY SlotAssumption DEF Pipes, InPipes

\* What is in stdin and stdout.
LEMMA InStdin ==
  ASSUME TypeOK, NEW p \in Slots, NEW i \in DOMAIN stdin[p]
  PROVE  stdin[p][i] \in Jobs
<1>1. stdin[p] \in Seq(Jobs)
  BY DEF TypeOK
<1> QED
  BY <1>1

LEMMA InStdout ==
  ASSUME TypeOK, NEW p \in Slots, NEW i \in DOMAIN stdout[p]
  PROVE  stdout[p][i].job \in Jobs
<1>1. stdout[p] \in Seq(Replies)
  BY DEF TypeOK
<1>2. stdout[p][i] \in Replies
  BY <1>1
<1> QED
  BY <1>2 DEF Replies

\* Only slices are in a process' pipes.
LEMMA PipesHoldJobs ==
  ASSUME TypeOK, NEW p \in Slots
  PROVE  Pipes[p] \subseteq Jobs
<1>1. working[p] \in Jobs \cup {NoJob}
  BY DEF TypeOK
<1> QED
  BY <1>1, InPipe, InStdin, InStdout

\* Untouched pipes.
LEMMA SameKeeps ==
  ASSUME TypeOK, TypeOK', NEW p \in Slots,
         stdin'[p] = stdin[p], stdout'[p] = stdout[p], working'[p] = working[p]
  PROVE  Keeps(p)
<1>1. Pipes'[p] \subseteq Pipes[p]
  BY InPipe, InPipeNext
<1>2. Distinct(p) => Distinct(p)'
  BY DEF Distinct
<1>3. \A j \in Jobs : Last(p, j) => Last(p, j)'
  BY DEF Last
<1> QED
  BY <1>1, <1>2, <1>3 DEF Keeps

\* A process that has ended.
LEMMA EndedKeeps ==
  ASSUME TypeOK, TypeOK', NEW p \in Slots,
         stdin'[p] = <<>>, stdout'[p] = stdout[p], working'[p] = NoJob
  PROVE  Keeps(p)
<1>1. Pipes'[p] \subseteq Pipes[p]
  BY InPipe, InPipeNext
<1>2. \A i \in DOMAIN stdout[p] : stdout[p][i].job # NoJob
  BY InStdout, JobAssumption
<1>3. Distinct(p) => Distinct(p)'
  BY <1>2 DEF Distinct
<1>4. \A j \in Jobs : Last(p, j) => Last(p, j)'
  BY JobAssumption DEF Last
<1> QED
  BY <1>1, <1>3, <1>4 DEF Keeps

\* The head of a sequence and its tail.
LEMMA TailIndex ==
  ASSUME NEW S, NEW s \in Seq(S), s # <<>>
  PROVE  /\ Head(s) = s[1] /\ 1 \in DOMAIN s
         /\ Len(s) \in Nat /\ Len(Tail(s)) = Len(s) - 1
         /\ \A i \in DOMAIN Tail(s) : i + 1 \in DOMAIN s /\ Tail(s)[i] = s[i + 1]
         /\ \A i \in DOMAIN s : i # 1 => i - 1 \in DOMAIN Tail(s)
         /\ DOMAIN s = 1..Len(s) /\ DOMAIN Tail(s) = 1..(Len(s) - 1)
OBVIOUS

\* A sequence and what is appended to it.
LEMMA AppendIndex ==
  ASSUME NEW S, NEW s \in Seq(S), NEW e \in S
  PROVE  /\ Append(s, e) \in Seq(S)
         /\ DOMAIN s = 1..Len(s) /\ Len(s) \in Nat
         /\ Len(Append(s, e)) = Len(s) + 1
         /\ DOMAIN Append(s, e) = 1..(Len(s) + 1)
         /\ Append(s, e)[Len(s) + 1] = e
         /\ \A i \in DOMAIN s : Append(s, e)[i] = s[i]
OBVIOUS

\* A job line is taken: the head of stdin moves to the process.
LEMMA TakeKeeps ==
  ASSUME TypeOK, TypeOK', NEW p \in Slots, TakeJob(p), working[p] = NoJob
  PROVE  Keeps(p)
<1> DEFINE s == stdin[p]
           t == stdin'[p]
<1>1. s \in Seq(Jobs) /\ s # <<>> /\ t = Tail(s)
  BY DEF TakeJob, TypeOK
<1>2. /\ Head(s) = s[1] /\ 1 \in DOMAIN s
      /\ Len(s) \in Nat /\ Len(t) = Len(s) - 1
      /\ \A i \in DOMAIN t : i + 1 \in DOMAIN s /\ t[i] = s[i + 1]
      /\ DOMAIN s = 1..Len(s) /\ DOMAIN t = 1..(Len(s) - 1)
  BY <1>1, TailIndex
<1>3. /\ working'[p] = s[1] /\ s[1] \in Jobs
      /\ stdout'[p] = stdout[p]
  BY <1>1, <1>2 DEF TakeJob, TypeOK
<1> HIDE DEF s, t
<1>4. Pipes'[p] \subseteq Pipes[p]
  <2> SUFFICES ASSUME NEW j \in Pipes'[p] PROVE j \in Pipes[p]
    OBVIOUS
  <2>1. \/ \E i \in DOMAIN t : t[i] = j
        \/ \E i \in DOMAIN stdout[p] : stdout[p][i].job = j
        \/ s[1] = j
    BY <1>3, InPipeNext DEF t
  <2>2. ASSUME NEW i \in DOMAIN t, t[i] = j
        PROVE  \E k \in DOMAIN s : s[k] = j
    BY <1>2, <2>2
  <2> QED
    BY <1>2, <2>1, <2>2, InPipe DEF s
<1>5. ASSUME Distinct(p) PROVE Distinct(p)'
  <2>1. \A i, k \in DOMAIN s : s[i] = s[k] => i = k
    BY <1>5 DEF Distinct, s
  <2>2. \A i, k \in DOMAIN t : t[i] = t[k] => i = k
    BY <1>2, <2>1
  <2>3. \A i \in DOMAIN t : t[i] # s[1]
    BY <1>2, <2>1
  <2>4. \A i \in DOMAIN t, k \in DOMAIN stdout[p] : t[i] # stdout[p][k].job
    BY <1>2, <1>5 DEF Distinct, s
  <2>5. \A i \in DOMAIN stdout[p] : stdout[p][i].job # s[1]
    BY <1>2, <1>5 DEF Distinct, s
  <2> QED
    BY <1>3, <1>5, <2>2, <2>3, <2>4, <2>5 DEF Distinct, t
<1>6. ASSUME NEW j \in Jobs, Last(p, j) PROVE Last(p, j)'
  <2>1. /\ \A i \in DOMAIN s : s[i] = j => i = Len(s)
        /\ \A i \in DOMAIN stdout[p] : stdout[p][i].job # j
    BY <1>1, <1>6 DEF Last, s
  <2>2. \A i \in DOMAIN t : t[i] = j => i = Len(t)
    BY <1>2, <2>1
  <2>3. s[1] = j => t = <<>>
    BY <1>1, <1>2, <2>1
  <2> QED
    BY <1>3, <2>1, <2>2, <2>3 DEF Last, t
<1> QED
  BY <1>4, <1>5, <1>6 DEF Keeps

\* A job is finished: it moves to the end of stdout.
LEMMA FinishKeeps ==
  ASSUME TypeOK, TypeOK', NEW p \in Slots, NEW kind, FinishJob(p, kind),
         working[p] \in Jobs
  PROVE  Keeps(p)
<1> DEFINE s == stdout[p]
           t == stdout'[p]
           e == [job |-> working[p], kind |-> kind]
<1>1. s \in Seq(Replies) /\ e \in Replies /\ t = Append(s, e)
  BY DEF FinishJob, TypeOK, Replies
<1>2. /\ DOMAIN s = 1..Len(s) /\ Len(s) \in Nat
      /\ Len(t) = Len(s) + 1
      /\ DOMAIN t = 1..(Len(s) + 1)
      /\ t[Len(s) + 1] = e
      /\ \A i \in DOMAIN s : t[i] = s[i]
  BY <1>1, AppendIndex
<1>3. working'[p] = NoJob /\ stdin'[p] = stdin[p] /\ e.job = working[p]
  BY DEF FinishJob, TypeOK
<1> HIDE DEF s, t, e
<1>4. Pipes'[p] \subseteq Pipes[p]
  <2> SUFFICES ASSUME NEW j \in Pipes'[p] PROVE j \in Pipes[p]
    OBVIOUS
  <2>1. \/ \E i \in DOMAIN stdin[p] : stdin[p][i] = j
        \/ \E i \in DOMAIN t : t[i].job = j
    BY <1>3, InPipeNext DEF t
  <2>2. ASSUME NEW i \in DOMAIN t, t[i].job = j
        PROVE  \/ \E k \in DOMAIN s : s[k].job = j
               \/ working[p] = j
    BY <1>2, <1>3, <2>2
  <2> QED
    BY <2>1, <2>2, JobAssumption, InPipe DEF s
<1>5. ASSUME Distinct(p) PROVE Distinct(p)'
  <2>1. /\ \A i, k \in DOMAIN s : s[i].job = s[k].job => i = k
        /\ \A i \in DOMAIN s : s[i].job # working[p]
    BY <1>5 DEF Distinct, s
  <2>2. \A i, k \in DOMAIN t : t[i].job = t[k].job => i = k
    BY <1>2, <1>3, <2>1
  <2>3. \A i \in DOMAIN t : t[i].job # NoJob
    BY <1>2, <1>3, InStdout, JobAssumption DEF s
  <2>4. \A i \in DOMAIN stdin[p], k \in DOMAIN t : stdin[p][i] # t[k].job
    BY <1>2, <1>3, <1>5 DEF Distinct, s
  <2>5. \A i \in DOMAIN stdin[p] : stdin[p][i] # NoJob
    BY InStdin, JobAssumption
  <2> QED
    BY <1>3, <1>5, <2>2, <2>3, <2>4, <2>5 DEF Distinct, t
<1>6. ASSUME NEW j \in Jobs, Last(p, j) PROVE Last(p, j)'
  <2>1. \A i \in DOMAIN s : s[i].job # j
    BY <1>6, JobAssumption DEF Last, s
  <2>2. \A i \in DOMAIN t : t[i].job = j => i = Len(t) /\ stdin[p] = <<>>
    BY <1>2, <1>3, <1>6, <2>1 DEF Last
  <2>3. \A i \in DOMAIN stdin[p] : stdin[p][i] = j => i = Len(stdin[p])
    BY <1>6 DEF Last
  <2> QED
    BY <1>3, <2>2, <2>3, JobAssumption DEF Last, t
<1> QED
  BY <1>4, <1>5, <1>6 DEF Keeps

\* A line of stdout is read.
LEMMA ReadKeeps ==
  ASSUME TypeOK, TypeOK', NEW p \in Slots, Distinct(p), stdout[p] # <<>>,
         stdout'[p] = Tail(stdout[p]), stdin'[p] = stdin[p],
         working'[p] = working[p]
  PROVE  /\ Keeps(p)
         /\ Head(stdout[p]).job \in Pipes[p]
         /\ Head(stdout[p]).job \notin Pipes'[p]
<1> DEFINE s == stdout[p]
           t == stdout'[p]
<1>1. s \in Seq(Replies) /\ t = Tail(s)
  BY DEF TypeOK
<1>2. /\ Head(s) = s[1] /\ 1 \in DOMAIN s
      /\ Len(s) \in Nat /\ Len(t) = Len(s) - 1
      /\ \A i \in DOMAIN t : i + 1 \in DOMAIN s /\ t[i] = s[i + 1]
      /\ DOMAIN s = 1..Len(s) /\ DOMAIN t = 1..(Len(s) - 1)
  BY <1>1, TailIndex
<1>3. s[1].job \in Jobs
  BY <1>2, InStdout
<1> HIDE DEF s, t
<1>4. ASSUME NEW j \in Pipes'[p] PROVE j \in Pipes[p]
  <2>1. \/ \E i \in DOMAIN stdin[p] : stdin[p][i] = j
        \/ \E i \in DOMAIN t : t[i].job = j
        \/ working[p] = j /\ j # NoJob
    <3>1. \/ \E i \in DOMAIN stdin'[p] : stdin'[p][i] = j
          \/ \E i \in DOMAIN stdout'[p] : stdout'[p][i].job = j
          \/ working'[p] = j /\ j # NoJob
      BY <1>4, InPipeNext
    <3> QED
      BY <3>1 DEF t
  <2>2. \/ \E i \in DOMAIN stdin[p] : stdin[p][i] = j
        \/ \E i \in DOMAIN s : s[i].job = j
        \/ working[p] = j /\ j # NoJob
    BY <1>2, <2>1
  <2> QED
    BY <2>2, InPipe DEF s
<1>5. Distinct(p)'
  <2>1. \A i, k \in DOMAIN s : s[i].job = s[k].job => i = k
    BY DEF Distinct, s
  <2>2. \A i, k \in DOMAIN t : t[i].job = t[k].job => i = k
    BY <1>2, <2>1
  <2>3. \A i \in DOMAIN stdin[p], k \in DOMAIN t : stdin[p][i] # t[k].job
    BY <1>2 DEF Distinct, s
  <2>4. \A i \in DOMAIN t : t[i].job # working[p]
    BY <1>2 DEF Distinct, s
  <2> QED
    BY <2>2, <2>3, <2>4 DEF Distinct, t
<1>6. ASSUME NEW j \in Jobs, Last(p, j) PROVE Last(p, j)'
  <2>1. \A i \in DOMAIN t : t[i].job = j =>
          i = Len(t) /\ working[p] = NoJob /\ stdin[p] = <<>>
    BY <1>2, <1>6 DEF Last, s
  <2> QED
    BY <1>6, <2>1 DEF Last, t
<1>7. s[1].job \in Pipes[p]
  BY <1>2, InPipe DEF s
<1>8. s[1].job \notin Pipes'[p]
  <2>1. \A i \in DOMAIN t : t[i].job # s[1].job
    BY <1>2 DEF Distinct, s
  <2>2. \A i \in DOMAIN stdin[p] : stdin[p][i] # s[1].job
    BY <1>2 DEF Distinct, s
  <2>3. working[p] # s[1].job
    BY <1>2 DEF Distinct, s
  <2>4. ~ \/ \E i \in DOMAIN stdin'[p] : stdin'[p][i] = s[1].job
          \/ \E i \in DOMAIN t : t[i].job = s[1].job
          \/ working'[p] = s[1].job
    BY <2>1, <2>2, <2>3
  <2> QED
    BY <2>4, InPipeNext DEF t
<1> QED
  BY <1>2, <1>4, <1>5, <1>6, <1>7, <1>8 DEF Keeps, s

\* A slice that is not in a process' pipes is written to its stdin, or swallowed.
LEMMA WriteKeeps ==
  ASSUME TypeOK, TypeOK', NEW p \in Slots, NEW j \in Jobs, j \notin Pipes[p],
         Distinct(p), stdout'[p] = stdout[p], working'[p] = working[p],
         stdin'[p] = stdin[p] \/ stdin'[p] = Append(stdin[p], j)
  PROVE  Pipes'[p] \subseteq Pipes[p] \cup {j} /\ Distinct(p)' /\ Last(p, j)'
<1> DEFINE s == stdin[p]
           t == stdin'[p]
<1>1. s \in Seq(Jobs)
  BY DEF TypeOK
<1>2. /\ \A i \in DOMAIN s : s[i] # j
      /\ \A i \in DOMAIN stdout[p] : stdout[p][i].job # j
      /\ working[p] # j
  BY InPipe, JobAssumption
<1>3. CASE t = s
  <2>1. Keeps(p)
    BY <1>3, SameKeeps
  <2>2. Last(p, j)'
    BY <1>2, <1>3 DEF Last
  <2> QED
    BY <2>1, <2>2 DEF Keeps
<1>4. CASE t = Append(s, j)
  <2>1. /\ DOMAIN s = 1..Len(s) /\ Len(s) \in Nat
        /\ Len(t) = Len(s) + 1
        /\ DOMAIN t = 1..(Len(s) + 1)
        /\ t[Len(s) + 1] = j
        /\ \A i \in DOMAIN s : t[i] = s[i]
    BY <1>1, <1>4, AppendIndex
  <2> HIDE DEF s, t
  <2>2. ASSUME NEW k \in Pipes'[p] PROVE k \in Pipes[p] \cup {j}
    <3>1. \/ \E i \in DOMAIN t : t[i] = k
          \/ \E i \in DOMAIN stdout[p] : stdout[p][i].job = k
          \/ working[p] = k /\ k # NoJob
      <4>1. \/ \E i \in DOMAIN stdin'[p] : stdin'[p][i] = k
            \/ \E i \in DOMAIN stdout'[p] : stdout'[p][i].job = k
            \/ working'[p] = k /\ k # NoJob
        BY <2>2, InPipeNext
      <4> QED
        BY <4>1 DEF t
    <3>2. \/ k = j
          \/ \E i \in DOMAIN s : s[i] = k
          \/ \E i \in DOMAIN stdout[p] : stdout[p][i].job = k
          \/ working[p] = k /\ k # NoJob
      BY <2>1, <3>1
    <3> QED
      BY <3>2, InPipe DEF s
  <2>3. Distinct(p)'
    <3>1. /\ \A i, k \in DOMAIN s : s[i] = s[k] => i = k
          /\ \A i \in DOMAIN s, k \in DOMAIN stdout[p] : s[i] # stdout[p][k].job
          /\ \A i \in DOMAIN s : s[i] # working[p]
      BY DEF Distinct, s
    <3>2. /\ \A i, k \in DOMAIN t : t[i] = t[k] => i = k
          /\ \A i \in DOMAIN t, k \in DOMAIN stdout[p] : t[i] # stdout[p][k].job
          /\ \A i \in DOMAIN t : t[i] # working[p]
      BY <1>2, <2>1, <3>1 DEF s
    <3> QED
      BY <3>2 DEF Distinct, t
  <2>4. \A i \in DOMAIN t : t[i] = j => i = Len(t)
    BY <1>2, <2>1 DEF s
  <2>5. Last(p, j)'
    BY <1>2, <2>4 DEF Last, t
  <2> QED
    BY <2>2, <2>3, <2>5
<1> QED
  BY <1>3, <1>4

\* A new process has empty pipes.
LEMMA ForkEmpties ==
  ASSUME TypeOK', NEW p \in Slots,
         stdin'[p] = <<>>, stdout'[p] = <<>>, working'[p] = NoJob
  PROVE  Pipes'[p] = {} /\ Distinct(p)'
<1>1. \A j : j \notin Pipes'[p]
  BY InPipeNext
<1>2. Distinct(p)'
  BY DEF Distinct
<1> QED
  BY <1>1, <1>2

-----------------------------------------------------------------------------
(* What a step does to all pipes. *)

LEMMA DieKeeps ==
  ASSUME TypeOK, TypeOK', NEW p \in Slots, Die(p)
  PROVE  \A q \in Slots : Keeps(q)
<1>1. Keeps(p)
  BY EndedKeeps DEF Die, TypeOK
<1>2. ASSUME NEW q \in Slots, q # p PROVE Keeps(q)
  BY <1>2, SameKeeps DEF Die, TypeOK
<1> QED
  BY <1>1, <1>2

LEMMA StillKeeps ==
  ASSUME TypeOK, TypeOK', UNCHANGED <<stdin, stdout, working>>
  PROVE  \A q \in Slots : Keeps(q)
BY SameKeeps

\* A solver process only takes and finishes what it was given.
LEMMA ProcessKeeps ==
  ASSUME TypeInv, TypeOK', WireInv, NEW p \in Slots, ProcessStep(p)
  PROVE  \A q \in Slots : Keeps(q)
<1> USE DEF TypeInv
<1>1. CASE Boot(p)
  BY <1>1, StillKeeps DEF Boot
<1>2. CASE TakeJob(p)
  <2>1. Keeps(p)
    BY <1>2, TakeKeeps DEF TakeJob, WireInv, PipesInv, Idlers
  <2>2. ASSUME NEW q \in Slots, q # p PROVE Keeps(q)
    BY <1>2, <2>2, SameKeeps DEF TakeJob, TypeOK
  <2> QED
    BY <2>1, <2>2
<1>3. ASSUME NEW kind, FinishJob(p, kind) PROVE \A q \in Slots : Keeps(q)
  <2>1. Keeps(p)
    BY <1>3, FinishKeeps DEF FinishJob, WorkInv
  <2>2. ASSUME NEW q \in Slots, q # p PROVE Keeps(q)
    BY <1>3, <2>2, SameKeeps DEF FinishJob, TypeOK
  <2> QED
    BY <2>1, <2>2
<1>4. CASE ExitAtEof(p) \/ Crash(p)
  BY <1>4, DieKeeps DEF ExitAtEof, Crash
<1> QED
  BY <1>1, <1>2, <1>3, <1>4 DEF ProcessStep

-----------------------------------------------------------------------------
(* The coroutine. *)

LEMMA CoroutineStep ==
  ASSUME TypeInv, CoroutineInv, [Next]_vars
  PROVE  CoroutineInv'
<1> USE SlotAssumption, JobAssumption DEF CoroutineInv, TypeInv
<1>1. ASSUME NEW j \in Jobs, SolveSlice(j) PROVE CoroutineInv'
  BY <1>1 DEF SolveSlice, wrapper, Stopping
<1>2. CASE Reshape \/ ReadyTimeout \/ IoFailed
  <2>1. /\ BeginShutdown("solver") /\ UNCHANGED <<daemon, job, using>>
        /\ pc \in PCs \ {"idle"}
        /\ pc' \in {"reshape", "abandon", "retry"}
    BY <1>2 DEF Reshape, ReadyTimeout, IoFailed, wrapper, PCs
  <2>2. daemon # None => stop'["solver"] = daemon
    BY <2>1 DEF BeginShutdown, TypeOK, Callers
  <2> QED
    BY <2>1, <2>2
<1>3. CASE Reuse
  BY <1>3 DEF Reuse, Write, wrapper, Stopping
<1>4. ASSUME NEW p \in Slots, Fork(p) PROVE CoroutineInv'
  BY <1>4 DEF Fork, Stopping
<1>5. CASE ForkFails
  BY <1>5 DEF ForkFails, Raise, Stopping
<1>6. CASE Spawned
  BY <1>6 DEF Spawned, Stopping
<1>7. CASE Ready
  BY <1>7 DEF Ready, Raise, Write, Stopping
<1>8. CASE ReadReply
  BY <1>8 DEF ReadReply, Return, Stopping
<1>9. CASE Retry
  BY <1>9 DEF Retry, Return, Stopping, wrapper
<1>10. CASE SecondAttempt
  BY <1>10 DEF SecondAttempt, Stopping
<1>11. CASE Abandon
  BY <1>11 DEF Abandon, Raise, Stopping
<1>12. ASSUME NEW c \in Callers, KillDaemon(c) PROVE CoroutineInv'
  <2>1. CASE Kills(c) \/ HealMisses
    <3>1. /\ UNCHANGED <<daemon, caller>>
          /\ stop'["solver"] = stop["solver"]
      BY <2>1 DEF Kills, HealMisses, KillDaemon, wrapper, caller, TypeOK,
         Callers
    <3> QED
      BY <3>1 DEF caller
  <2>2. CASE SolverMisses
    BY <2>2 DEF SolverMisses, KillDaemon, Raise, Stopping
  <2> QED
    BY <1>12, <2>1, <2>2 DEF Kills, SolverMisses, HealMisses, Callers
<1>13. ASSUME NEW c \in Callers, FinishShutdown(c) PROVE CoroutineInv'
  BY <1>13 DEF FinishShutdown, caller
<1>14. CASE ForceRestart
  <2>1. /\ daemon # None
        /\ stop' = [stop EXCEPT !["heal"] = daemon]
        /\ UNCHANGED <<daemon, caller>>
    BY <1>14 DEF ForceRestart, BeginShutdown, wrapper
  <2>2. stop'["solver"] = stop["solver"]
    BY <2>1 DEF TypeOK
  <2> QED
    BY <2>1, <2>2 DEF caller
<1>15. CASE DropSession
  BY <1>15 DEF DropSession, Stopping
<1>16. CASE Preempt
  BY <1>16 DEF Preempt, wrapper, caller
<1>17. ASSUME NEW p \in Slots, ProcessStep(p) PROVE CoroutineInv'
  BY <1>17 DEF ProcessStep, Boot, TakeJob, FinishJob, ExitAtEof, Crash, wrapper,
     caller
<1>18. CASE UNCHANGED vars
  BY <1>18 DEF vars, wrapper, caller
<1> QED
  BY <1>1, <1>2, <1>3, <1>4, <1>5, <1>6, <1>7, <1>8, <1>9, <1>10, <1>11, <1>12,
     <1>13, <1>14, <1>15, <1>16, <1>17, <1>18
  DEF Next, SolverStep, HealStep, Callers

-----------------------------------------------------------------------------
(* The pipes. *)

LEMMA PipesOf ==
  ASSUME TypeOK, NEW p \in Slots
  PROVE  InPipes(p) = Pipes[p]
BY DEF Pipes

LEMMA DieIdlers ==
  ASSUME TypeOK, Idlers, NEW p \in Slots, Die(p)
  PROVE  Idlers'
BY DEF Die, TypeOK, Idlers

LEMMA IdlersStep ==
  ASSUME TypeInv, Idlers, [Next]_vars
  PROVE  Idlers'
<1> USE DEF TypeInv
<1>1. ASSUME NEW p \in Slots, ProcessStep(p) PROVE Idlers'
  BY <1>1, DieIdlers
  DEF ProcessStep, Boot, TakeJob, FinishJob, ExitAtEof, Crash, TypeOK, Idlers
<1>2. ASSUME NEW c \in Callers, Kills(c) PROVE Idlers'
  <2>1. daemon \in Slots /\ Die(daemon)
    BY <1>2 DEF Kills, KillDaemon, TypeOK
  <2> QED
    BY <2>1, DieIdlers
<1>3. CASE Preempt
  <2>1. daemon \in Slots
    BY <1>3 DEF Preempt, Running, TypeOK
  <2> QED
    BY <1>3, <2>1, DieIdlers DEF Preempt, Idlers
<1>4. CASE DropSession
  <2>1. CASE pc = "spawn"
    BY <1>4, <2>1, DieIdlers DEF DropSession, CallInv
  <2>2. CASE pc # "spawn"
    BY <1>4, <2>2 DEF DropSession, process, Idlers
  <2> QED
    BY <2>1, <2>2
<1>5. ASSUME NEW p \in Slots, Fork(p) PROVE Idlers'
  BY <1>5 DEF Fork, TypeOK, Idlers
<1>6. CASE UNCHANGED <<st, working>>
  BY <1>6 DEF Idlers
<1>7. ASSUME \/ \E j \in Jobs : SolveSlice(j)
             \/ \E c \in Callers : FinishShutdown(c)
             \/ SolverMisses \/ HealMisses
             \/ Reshape \/ Reuse \/ ForkFails \/ Spawned \/ Ready
             \/ ReadyTimeout \/ ReadReply \/ IoFailed \/ Retry \/ SecondAttempt
             \/ Abandon \/ ForceRestart \/ UNCHANGED vars
      PROVE  UNCHANGED <<st, working>>
  BY <1>7 DEF SolverMisses, HealMisses, KillDaemon, SolveSlice, FinishShutdown, Reshape, Reuse, ForkFails, Spawned,
     Ready, ReadyTimeout, ReadReply, IoFailed, Retry, SecondAttempt, Abandon,
     ForceRestart, vars, process
<1> QED
  BY <1>1, <1>2, <1>3, <1>4, <1>5, <1>6, <1>7, Steps

\* Steps that put nothing in a pipe keep the invariant, if they leave the
\* coroutine before the write, or after it, on the same process.
LEMMA Carried ==
  ASSUME TypeInv, TypeInv', WireInv, Idlers',
         \A p \in Slots : Keeps(p),
         pc' \in {"ensure", "reshape", "spawn"} /\ daemon' # None =>
           daemon' = daemon /\ job' \notin Pipes[daemon],
         pc' \in {"spawn", "ready"} => pc \in {"spawn", "ready"} /\ using' = using,
         pc' = "read" => pc = "read" /\ using' = using /\ job' = job
  PROVE  PipesInv'
<1> USE DEF TypeInv, WireInv, PipesInv, Keeps
<1>1. \A p \in Slots : Distinct(p)'
  OBVIOUS
<1>2. pc' \in {"ensure", "reshape", "spawn"} /\ daemon' # None =>
        job' \notin Pipes'[daemon']
  BY DEF TypeOK
<1>3. pc' \in {"spawn", "ready"} => Pipes'[using'] = {}
  BY DEF CallInv
<1>4. pc' = "read" => Last(using, job)'
  <2> SUFFICES ASSUME pc' = "read" PROVE Last(using, job)'
    OBVIOUS
  <2>1. using \in Slots /\ job \in Jobs /\ using' = using /\ job' = job
    BY DEF CallInv
  <2>2. Last(using, job)
    OBVIOUS
  <2>3. Keeps(using)
    BY <2>1
  <2> QED
    BY <2>1, <2>2, <2>3 DEF Last
<1> QED
  BY <1>1, <1>2, <1>3, <1>4

\* The slice goes into the pipes of process p, which has not seen it before.
LEMMA Written ==
  ASSUME TypeInv, TypeInv', WireInv, Idlers', NEW p \in Slots, Write(p),
         job \in Jobs, job \notin Pipes[p], UNCHANGED <<stdout, working>>
  PROVE  PipesInv' /\ Pipes'[p] \subseteq Pipes[p] \cup {job}
<1> USE DEF TypeInv, WireInv, PipesInv
<1>1. stdin'[p] = stdin[p] \/ stdin'[p] = Append(stdin[p], job)
  BY DEF Write, TypeOK
<1>2. \A j \in Jobs : j \notin Pipes[p] /\ j = job =>
        Pipes'[p] \subseteq Pipes[p] \cup {j} /\ Distinct(p)' /\ Last(p, j)'
  BY <1>1, WriteKeeps
<1>3. Pipes'[p] \subseteq Pipes[p] \cup {job} /\ Distinct(p)'
  BY <1>2
<1>4. pc' = "read" /\ using' = p /\ job' = job
  BY DEF Write
<1>5. Last(using, job)'
  BY <1>2, <1>4 DEF Last
<1>6. ASSUME NEW q \in Slots, q # p PROVE Distinct(q)'
  <2>1. stdin'[q] = stdin[q]
    BY <1>6 DEF Write, TypeOK
  <2>2. Keeps(q)
    BY <2>1, SameKeeps
  <2> QED
    BY <2>2 DEF Keeps
<1> QED
  BY <1>3, <1>4, <1>5, <1>6

LEMMA ReuseWrites ==
  ASSUME TypeInv, WireInv, Reuse
  PROVE  /\ daemon \in Slots /\ Write(daemon) /\ job \in Jobs
         /\ job \notin Pipes[daemon] /\ UNCHANGED <<stdout, working>>
BY SlotAssumption
DEF TypeInv, TypeOK, CallInv, WireInv, PipesInv, Reuse, Running

LEMMA ReadyWrites ==
  ASSUME TypeInv, WireInv, Ready, daemon # None
  PROVE  /\ daemon = using /\ using \in Slots /\ Write(daemon) /\ job \in Jobs
         /\ Pipes[using] = {} /\ UNCHANGED <<stdout, working>>
BY DEF TypeInv, TypeOK, CallInv, WireInv, CoroutineInv, PipesInv, Ready

\* A process is forked into a slot with no trace of an earlier one.
LEMMA Forked ==
  ASSUME TypeInv, TypeInv', NEW p \in Slots, Fork(p)
  PROVE  /\ Pipes'[p] = {} /\ Distinct(p)'
         /\ \A q \in Slots : q # p => Keeps(q)
<1> USE DEF TypeInv
<1>1. stdin'[p] = <<>> /\ stdout'[p] = <<>> /\ working'[p] = NoJob
  BY DEF Fork, TypeOK
<1>2. ASSUME NEW q \in Slots, q # p PROVE Keeps(q)
  BY <1>2, SameKeeps DEF Fork, TypeOK
<1> QED
  BY <1>1, <1>2, ForkEmpties

\* A step that is neither a fork nor a write puts nothing in a pipe.
LEMMA OthersKeep ==
  ASSUME TypeInv, TypeInv', WireInv, [Next]_vars,
         ~Reuse, ~(Ready /\ daemon # None), ~(\E p \in Slots : Fork(p))
  PROVE  \A q \in Slots : Keeps(q)
<1> USE DEF TypeInv
<1>1. ASSUME NEW p \in Slots, ProcessStep(p) PROVE \A q \in Slots : Keeps(q)
  BY <1>1, ProcessKeeps
<1>2. ASSUME NEW c \in Callers, Kills(c) PROVE \A q \in Slots : Keeps(q)
  <2>1. daemon \in Slots /\ Die(daemon)
    BY <1>2 DEF Kills, KillDaemon, TypeOK
  <2> QED
    BY <2>1, DieKeeps
<1>3. CASE Preempt
  <2>1. daemon \in Slots
    BY <1>3 DEF Preempt, Running, TypeOK
  <2>2. CASE st[daemon] = "boot"
    BY <1>3, <2>1, <2>2, DieKeeps DEF Preempt
  <2>3. CASE st[daemon] # "boot"
    BY <1>3, <2>3, StillKeeps DEF Preempt
  <2> QED
    BY <2>2, <2>3
<1>4. CASE DropSession
  <2>1. CASE pc = "spawn"
    BY <1>4, <2>1, DieKeeps DEF DropSession, CallInv
  <2>2. CASE pc # "spawn"
    BY <1>4, <2>2, StillKeeps DEF DropSession, process
  <2> QED
    BY <2>1, <2>2
<1>5. CASE ReadReply
  <2>1. /\ using \in Slots /\ Distinct(using) /\ stdout[using] # <<>>
        /\ stdout'[using] = Tail(stdout[using]) /\ UNCHANGED <<stdin, working>>
    BY <1>5 DEF ReadReply, CallInv, TypeOK, WireInv, PipesInv
  <2>2. Keeps(using)
    BY <2>1, ReadKeeps
  <2>3. ASSUME NEW q \in Slots, q # using PROVE Keeps(q)
    <3>1. stdout'[q] = stdout[q]
      BY <1>5, <2>3 DEF ReadReply, TypeOK
    <3> QED
      BY <2>1, <3>1, SameKeeps
  <2> QED
    BY <2>2, <2>3
<1>6. ASSUME \/ \E j \in Jobs : SolveSlice(j)
             \/ \E c \in Callers : FinishShutdown(c)
             \/ SolverMisses \/ HealMisses
             \/ Reshape \/ ForkFails \/ Spawned \/ (Ready /\ daemon = None)
             \/ ReadyTimeout \/ IoFailed \/ Retry \/ SecondAttempt
             \/ Abandon \/ ForceRestart \/ UNCHANGED vars
      PROVE  UNCHANGED <<stdin, stdout, working>>
  BY <1>6 DEF SolverMisses, HealMisses, KillDaemon, SolveSlice,
     FinishShutdown, Reshape, ForkFails, Spawned,
     Ready, ReadyTimeout, IoFailed, Retry, SecondAttempt, Abandon,
     ForceRestart, vars, process
<1>7. CASE UNCHANGED <<stdin, stdout, working>>
  BY <1>7, StillKeeps
<1>8. \/ \E p \in Slots : ProcessStep(p)
      \/ \E c \in Callers : Kills(c)
      \/ Preempt \/ DropSession \/ ReadReply
      \/ UNCHANGED <<stdin, stdout, working>>
  BY <1>6, Steps
<1> QED
  BY <1>1, <1>2, <1>3, <1>4, <1>5, <1>7, <1>8


\* Such a step goes back to the state before a write only with a slice that is
\* not in the daemon's pipes, or without a daemon.
LEMMA OthersCoroutine ==
  ASSUME TypeInv, WireInv, [Next]_vars,
         ~Reuse, ~(Ready /\ daemon # None), ~(\E p \in Slots : Fork(p))
  PROVE  /\ pc' \in {"ensure", "reshape", "spawn"} /\ daemon' # None =>
              daemon' = daemon /\ job' \notin Pipes[daemon]
         /\ pc' \in {"spawn", "ready"} =>
              pc \in {"spawn", "ready"} /\ using' = using
         /\ pc' = "read" => pc = "read" /\ using' = using /\ job' = job
<1> DEFINE Same == UNCHANGED <<pc, job, using>> /\ daemon' \in {daemon, None}
           Back == pc' \in {"idle", "abandon", "retry", "backoff"}
<1>1. \/ Same \/ Back \/ Reshape \/ Spawned \/ SecondAttempt
      \/ \E j \in Jobs : SolveSlice(j)
  <2>1. ASSUME \/ ForkFails \/ (Ready /\ daemon = None) \/ ReadyTimeout
               \/ ReadReply \/ IoFailed \/ Retry \/ Abandon \/ DropSession
               \/ SolverMisses
        PROVE  Back
    BY <2>1 DEF SolverMisses, KillDaemon, ForkFails, Ready, ReadyTimeout, ReadReply, IoFailed, Retry,
       Abandon, DropSession, Return, Raise
  <2>2. ASSUME \/ \E c \in Callers : Kills(c) \/ FinishShutdown(c)
               \/ HealMisses \/ ForceRestart \/ Preempt
               \/ \E p \in Slots : ProcessStep(p)
               \/ UNCHANGED vars
        PROVE  Same
    BY <2>2 DEF Kills, HealMisses, KillDaemon, FinishShutdown, ForceRestart, Preempt, ProcessStep,
       Boot, TakeJob, FinishJob, ExitAtEof, Crash, vars, wrapper, caller
  <2> QED
    BY <2>1, <2>2, Steps
<1>2. CASE Same
  BY <1>2 DEF WireInv, PipesInv
<1>3. CASE Back
  BY <1>3
<1>4. CASE Reshape
  BY <1>4 DEF Reshape, wrapper, WireInv, PipesInv
<1>5. CASE Spawned
  BY <1>5 DEF Spawned
<1>6. CASE SecondAttempt
  BY <1>6 DEF SecondAttempt, wrapper, WireInv, CoroutineInv
<1>7. ASSUME NEW j \in Jobs, SolveSlice(j) PROVE
        /\ pc' = "ensure" /\ daemon' = daemon
        /\ daemon # None => job' \notin Pipes[daemon]
  BY <1>7, PipesOf DEF SolveSlice, wrapper, TypeInv, TypeOK
<1> QED
  BY <1>1, <1>2, <1>3, <1>4, <1>5, <1>6, <1>7

\* What the pipes hold, and in which order, is kept by every step.
LEMMA PipesStep ==
  ASSUME TypeInv, TypeInv', WireInv, [Next]_vars
  PROVE  PipesInv'
<1>1. Idlers'
  BY IdlersStep DEF WireInv, PipesInv
<1>2. CASE Reuse
  <2>1. /\ daemon \in Slots /\ Write(daemon) /\ job \in Jobs
        /\ job \notin Pipes[daemon] /\ UNCHANGED <<stdout, working>>
    BY <1>2, ReuseWrites
  <2> QED
    BY <1>1, <2>1, Written
<1>3. CASE Ready /\ daemon # None
  <2>1. /\ daemon = using /\ using \in Slots /\ Write(daemon) /\ job \in Jobs
        /\ Pipes[using] = {} /\ UNCHANGED <<stdout, working>>
    BY <1>3, ReadyWrites
  <2> QED
    BY <1>1, <2>1, Written
<1>4. ASSUME NEW p \in Slots, Fork(p) PROVE PipesInv'
  <2>1. /\ Pipes'[p] = {} /\ Distinct(p)'
        /\ \A q \in Slots : q # p => Keeps(q)
    BY <1>4, Forked
  <2>2. /\ pc' = "spawn" /\ using' = p /\ daemon' = daemon /\ daemon # p
        /\ job' = job /\ pc \in {"ensure", "reshape"}
    BY <1>4 DEF Fork, Spawning, wrapper
  <2>3. \A q \in Slots : Distinct(q)'
    BY <2>1 DEF Keeps, WireInv, PipesInv
  <2>4. daemon' # None => job' \notin Pipes'[daemon']
    BY <2>1, <2>2 DEF Keeps, WireInv, PipesInv, TypeInv, TypeOK
  <2> QED
    BY <1>1, <2>1, <2>2, <2>3, <2>4 DEF PipesInv
<1>5. CASE /\ ~Reuse /\ ~(Ready /\ daemon # None)
           /\ ~(\E p \in Slots : Fork(p))
  <2>1. \A q \in Slots : Keeps(q)
    BY <1>5, OthersKeep
  <2> QED
    BY <1>1, <1>5, <2>1, OthersCoroutine, Carried
<1> QED
  BY <1>2, <1>3, <1>4, <1>5

LEMMA InitWire == Init => WireInv
<1> SUFFICES ASSUME Init PROVE WireInv
  OBVIOUS
<1>1. CoroutineInv
  BY DEF Init, CoroutineInv, Stopping
<1>2. Idlers /\ \A p \in Slots : Distinct(p)
  BY DEF Init, Idlers, Distinct
<1> QED
  BY <1>1, <1>2 DEF Init, WireInv, PipesInv, StopInv, Callers

\* WireInv holds in every reachable state.
LEMMA WireAlways == Spec => [](TypeInv /\ WireInv)
<1>1. /\ TypeInv /\ ShutdownInv /\ (TypeInv /\ ShutdownInv)'
      /\ WireInv /\ [Next]_vars
      => WireInv'
  BY CoroutineStep, PipesStep DEF WireInv, ShutdownInv
<1> QED
  BY InitWire, ShutdownAlways, <1>1, PTL DEF Spec


-----------------------------------------------------------------------------
(* A slice comes back preempted only if it was preempted itself. *)

\* Between slices nothing is claimed, and after a preempt of the slice being
\* served nothing is left to show.
LEMMA NothingToShow ==
  ASSUME TypeInv', job' = NoJob \/ signalled'
  PROVE  FlagInv' /\ PreemptHitsItsSlice'
<1>1. CASE job' = NoJob
  <2>1. ASSUME NEW p \in Slots, NEW i \in DOMAIN stdout'[p]
        PROVE  stdout'[p][i].job \in Jobs
    <3>1. stdout'[p] \in Seq(Replies)
      BY DEF TypeInv, TypeOK
    <3>2. stdout'[p][i] \in Replies
      BY <3>1
    <3> QED
      BY <3>2 DEF Replies
  <2>2. PreemptHitsItsSlice'
    BY <1>1, <2>1, JobAssumption DEF PreemptHitsItsSlice, TypeInv, TypeOK
  <2>3. FlagInv'
    BY <1>1, JobAssumption DEF FlagInv, TypeInv, TypeOK, WorkInv
  <2> QED
    BY <2>2, <2>3
<1>2. CASE signalled'
  BY <1>2 DEF FlagInv, PreemptHitsItsSlice
<1> QED
  BY <1>1, <1>2

\* A daemon without a trace of the slice shows nothing either.
LEMMA NoTrace ==
  ASSUME TypeInv', daemon' # None => job' \notin Pipes'[daemon'], job' \in Jobs
  PROVE  FlagInv' /\ PreemptHitsItsSlice'
<1>1. ASSUME daemon' # None
      PROVE  /\ working'[daemon'] # job'
             /\ \A i \in DOMAIN stdout'[daemon'] :
                  stdout'[daemon'][i].job # job'
  BY <1>1, JobAssumption, InPipeNext DEF TypeInv, TypeOK
<1> QED
  BY <1>1 DEF FlagInv, PreemptHitsItsSlice

\* A step that changes nothing of the daemon that counts here.
LEMMA SameShown ==
  ASSUME FlagInv, PreemptHitsItsSlice, UNCHANGED <<job, signalled>>,
         daemon' \in {daemon, None},
         daemon # None =>
           /\ stdout'[daemon] = stdout[daemon]
           /\ st'[daemon] = "busy" /\ flag'[daemon] =>
                st[daemon] = "busy" /\ flag[daemon]
                /\ working'[daemon] = working[daemon]
  PROVE  FlagInv' /\ PreemptHitsItsSlice'
BY DEF FlagInv, PreemptHitsItsSlice

\* The end of a process.
LEMMA DieShown ==
  ASSUME TypeInv, FlagInv, PreemptHitsItsSlice, NEW p \in Slots, Die(p),
         UNCHANGED <<daemon, job, signalled>>
  PROVE  FlagInv' /\ PreemptHitsItsSlice'
<1>1. daemon # None =>
           /\ stdout'[daemon] = stdout[daemon]
           /\ st'[daemon] = "busy" /\ flag'[daemon] =>
                st[daemon] = "busy" /\ flag[daemon]
                /\ working'[daemon] = working[daemon]
  BY DEF Die, TypeInv, TypeOK
<1> QED
  BY <1>1, SameShown

\* A job finished as preempted is one whose flag was up.
LEMMA FinishShown ==
  ASSUME TypeInv, FlagInv, PreemptHitsItsSlice, NEW p \in Slots, NEW kind,
         FinishJob(p, kind)
  PROVE  FlagInv' /\ PreemptHitsItsSlice'
<1>1. UNCHANGED <<daemon, job, signalled, flag>>
  BY DEF FinishJob, wrapper, caller
<1>2. FlagInv'
  BY <1>1 DEF FinishJob, FlagInv, TypeInv, TypeOK
<1>3. CASE daemon = p
  <2> DEFINE s == stdout[p]
             e == [job |-> working[p], kind |-> kind]
  <2>1. s \in Seq(Replies) /\ e \in Replies /\ stdout'[p] = Append(s, e)
    BY DEF FinishJob, TypeInv, TypeOK, WorkInv, Replies
  <2>2. \A i \in DOMAIN stdout'[p] : stdout'[p][i] = e \/
          \E k \in DOMAIN s : stdout'[p][i] = s[k]
    <3>1. /\ DOMAIN stdout'[p] = 1..(Len(s) + 1) /\ Len(s) \in Nat
          /\ DOMAIN s = 1..Len(s)
          /\ stdout'[p][Len(s) + 1] = e
          /\ \A i \in DOMAIN s : stdout'[p][i] = s[i]
      BY <2>1, AppendIndex
    <3> HIDE DEF s, e
    <3> QED
      BY <3>1
  <2>3. e = [job |-> job, kind |-> "preempted"] => signalled
    BY <1>3, SlotAssumption DEF FinishJob, FlagInv
  <2>4. \A k \in DOMAIN s :
          s[k] = [job |-> job, kind |-> "preempted"] => signalled
    BY <1>3, SlotAssumption DEF PreemptHitsItsSlice
  <2> HIDE DEF s, e
  <2> QED
    BY <1>1, <1>2, <1>3, <2>2, <2>3, <2>4 DEF PreemptHitsItsSlice
<1>4. CASE daemon # p
  BY <1>1, <1>2, <1>4 DEF FinishJob, PreemptHitsItsSlice, TypeInv, TypeOK
<1> QED
  BY <1>3, <1>4

LEMMA ShownStep ==
  ASSUME TypeInv, TypeInv', WireInv, FlagInv, PreemptHitsItsSlice, [Next]_vars
  PROVE  FlagInv' /\ PreemptHitsItsSlice'
<1>1. ASSUME NEW j \in Jobs, SolveSlice(j)
      PROVE  FlagInv' /\ PreemptHitsItsSlice'
  <2>1. daemon' = daemon /\ job' = j /\ Pipes' = Pipes
    BY <1>1 DEF SolveSlice, wrapper, process, Pipes, InPipes
  <2>2. daemon # None => j \notin Pipes[daemon]
    BY <1>1, PipesOf DEF SolveSlice, TypeInv, TypeOK
  <2> QED
    BY <2>1, <2>2, NoTrace
<1>2. ASSUME NEW p \in Slots, Fork(p) PROVE FlagInv' /\ PreemptHitsItsSlice'
  BY <1>2, SameShown DEF Fork, wrapper, TypeInv, TypeOK
<1>3. ASSUME NEW c \in Callers, Kills(c)
      PROVE  FlagInv' /\ PreemptHitsItsSlice'
  <2>1. daemon \in Slots /\ Die(daemon)
    BY <1>3 DEF Kills, KillDaemon, TypeInv, TypeOK
  <2> QED
    BY <1>3, <2>1, DieShown DEF Kills, KillDaemon, wrapper, caller
<1>4. ASSUME \/ \E c \in Callers : FinishShutdown(c)
             \/ HealMisses \/ Reshape \/ Reuse \/ ReadyTimeout \/ IoFailed \/ SecondAttempt
             \/ (Ready /\ daemon # None) \/ ForceRestart \/ UNCHANGED vars
      PROVE  FlagInv' /\ PreemptHitsItsSlice'
  <2>1. UNCHANGED <<job, signalled, stdout, st, flag, working>>
        /\ daemon' \in {daemon, None}
    BY <1>4 DEF HealMisses, KillDaemon, FinishShutdown, Reshape, Reuse,
       ReadyTimeout, IoFailed,
       SecondAttempt, Ready, Write, ForceRestart, vars, wrapper, caller, process
  <2> QED
    BY <2>1, SameShown
<1>5. ASSUME \/ ForkFails \/ (Ready /\ daemon = None) \/ ReadReply \/ Abandon
             \/ (Retry /\ attempt = 2) \/ DropSession \/ SolverMisses
      PROVE  FlagInv' /\ PreemptHitsItsSlice'
  <2>1. job' = NoJob
    BY <1>5 DEF SolverMisses, KillDaemon, ForkFails, Ready, ReadReply, Abandon,
       Retry, DropSession, Raise, Return
  <2> QED
    BY <2>1, NothingToShow
<1>6. CASE Retry /\ attempt # 2
  BY <1>6, SameShown DEF Retry, wrapper, process
<1>7. CASE Spawned
  <2>1. daemon' = using /\ Pipes' = Pipes
    BY <1>7 DEF Spawned, process, Pipes, InPipes
  <2>2. Pipes[using] = {} /\ job' \in Jobs
    BY <1>7 DEF Spawned, WireInv, PipesInv, TypeInv, CallInv
  <2> QED
    BY <2>1, <2>2, NoTrace
<1>8. CASE Preempt
  <2>1. job' = NoJob \/ signalled'
    BY <1>8 DEF Preempt, caller
  <2> QED
    BY <2>1, NothingToShow
<1>9. ASSUME NEW p \in Slots, ProcessStep(p)
      PROVE  FlagInv' /\ PreemptHitsItsSlice'
  <2>1. CASE Boot(p)
    BY <2>1, SameShown DEF Boot, wrapper, caller, TypeInv, TypeOK
  <2>2. CASE TakeJob(p)
    BY <2>2, SameShown DEF TakeJob, wrapper, caller, TypeInv, TypeOK
  <2>3. ASSUME NEW kind, FinishJob(p, kind)
        PROVE  FlagInv' /\ PreemptHitsItsSlice'
    BY <2>3, FinishShown
  <2>4. CASE ExitAtEof(p) \/ Crash(p)
    BY <2>4, DieShown DEF ExitAtEof, Crash, wrapper, caller
  <2> QED
    BY <1>9, <2>1, <2>2, <2>3, <2>4 DEF ProcessStep
<1> QED
  BY <1>1, <1>2, <1>3, <1>4, <1>5, <1>6, <1>7, <1>8, <1>9, Steps

\* A result line "preempted" in the daemon's pipe for the slice in flight means
\* that a preempt was sent while that slice was in flight: a signal that comes
\* late or hits a slice left behind cuts no other short.
THEOREM PreemptHits == Spec => []PreemptHitsItsSlice
<1>1. Init => FlagInv /\ PreemptHitsItsSlice
  BY DEF Init, FlagInv, PreemptHitsItsSlice
<1>2. /\ TypeInv /\ WireInv /\ (TypeInv /\ WireInv)'
      /\ FlagInv /\ PreemptHitsItsSlice /\ [Next]_vars
      => (FlagInv /\ PreemptHitsItsSlice)'
  BY ShownStep
<1> QED
  BY <1>1, <1>2, WireAlways, PTL DEF Spec


-----------------------------------------------------------------------------
(* Every step is a step of the service. *)

\* What process slot p holds, if p is a slot.
Held(p) == IF p = None THEN {} ELSE Pipes[p]

LEMMA LeftIs ==
  ASSUME TypeOK
  PROVE  LeftBehind = (Held(daemon) \cup Held(using)) \ {job}
BY PipesOf DEF LeftBehind, Held, TypeOK, InPipes

LEMMA LeftIsNext ==
  ASSUME TypeOK'
  PROVE  LeftBehind' = (Held(daemon)' \cup Held(using)') \ {job'}
<1>1. InPipes(daemon)' = Held(daemon)' /\ InPipes(using)' = Held(using)'
  BY DEF Held, Pipes, InPipes, TypeOK
<1> QED
  BY <1>1 DEF LeftBehind

\* The end of a slice leaves the service no process but the daemon it had.
LEMMA Ends ==
  ASSUME TypeOK', NEW a, NEW left,
         job # NoJob, job' = NoJob, using' = None, daemon' = daemon,
         result' = [asked |-> job, answered |-> a],
         LeftBehind' \subseteq left
  PROVE  Service!End(a, left)
<1>1. daemon' = None => LeftBehind' = {}
  BY LeftIsNext DEF Held
<1> QED
  BY <1>1 DEF Service!End

\* A step that leaves no more behind, with the same daemon or nothing.
LEMMA Loses ==
  ASSUME UNCHANGED <<job, result>>, LeftBehind' \subseteq LeftBehind,
         daemon' = daemon \/ LeftBehind' = {}
  PROVE  Service!Lose
BY DEF Service!Lose


\* The solver loop asks for a slice.
LEMMA Asks ==
  ASSUME TypeInv, TypeInv', WireInv, NEW j \in Jobs, SolveSlice(j)
  PROVE  Service!Ask(j)
<1> USE DEF TypeInv
<1>1. /\ job = NoJob /\ using = None /\ job' = j /\ using' = using
      /\ daemon' = daemon /\ Pipes' = Pipes /\ result' = NoResult
  BY DEF SolveSlice, wrapper, process, Pipes, InPipes, WireInv, CoroutineInv
<1>2. j \notin Held(daemon) /\ NoJob \notin Held(daemon)
  BY PipesOf, PipesHoldJobs, JobAssumption DEF SolveSlice, Held, TypeOK
<1>3. LeftBehind = Held(daemon) /\ LeftBehind' = Held(daemon)
  BY <1>1, <1>2, LeftIs, LeftIsNext DEF Held
<1>4. daemon = None => LeftBehind = {}
  BY <1>3 DEF Held
<1> QED
  BY <1>1, <1>2, <1>3, <1>4 DEF Service!Ask, Service!NoAnswer, NoResult

\* A line of stdout ends the slice: with its own answer if nothing else was
\* left in the pipes, and else with what had been left there first.
LEMMA Reads ==
  ASSUME TypeInv, TypeInv', WireInv, ReadReply
  PROVE  Service!Answer \/ Service!AnswerBehind \/ Service!GiveUp
<1> USE DEF TypeInv
<1> DEFINE h == Head(stdout[using])
           a == IF h.kind = "error" THEN NoJob ELSE h.job
<1>1. /\ using \in Slots /\ job \in Jobs /\ using # None /\ job # NoJob
      /\ daemon \in {using, None} /\ daemon' = daemon
      /\ job' = NoJob /\ using' = None
      /\ result' = [asked |-> job, answered |-> a]
  BY SlotAssumption, JobAssumption
  DEF ReadReply, Return, CallInv, WireInv, CoroutineInv, wrapper
<1>2. /\ Distinct(using) /\ Last(using, job)
      /\ stdout[using] # <<>> /\ stdout'[using] = Tail(stdout[using])
      /\ stdin'[using] = stdin[using] /\ working'[using] = working[using]
  BY <1>1 DEF ReadReply, WireInv, PipesInv, TypeOK
<1>3. Pipes'[using] \subseteq Pipes[using] /\ h.job \in Pipes[using] \ Pipes'[using]
  BY <1>1, <1>2, ReadKeeps DEF Keeps
<1>4. LeftBehind = Pipes[using] \ {job}
  BY <1>1, LeftIs DEF Held
<1>5. LeftBehind' \subseteq Pipes'[using]
  BY <1>1, LeftIsNext DEF Held
<1>6. CASE h.job = job
  <2>1. Pipes[using] \subseteq {job}
    <3>1. h = stdout[using][1] /\ 1 \in DOMAIN stdout[using]
      BY <1>1, <1>2, TailIndex DEF TypeOK
    <3>2. Len(stdout[using]) = 1 /\ working[using] = NoJob /\ stdin[using] = <<>>
      BY <1>2, <1>6, <3>1 DEF Last
    <3>3. \A i \in DOMAIN stdout[using] : i = 1
      BY <1>1, <3>2 DEF TypeOK
    <3> HIDE DEF h
    <3> QED
      BY <1>1, <1>6, <3>1, <3>2, <3>3, InPipe
  <2>2. LeftBehind = {} /\ LeftBehind' = {}
    BY <1>3, <1>4, <1>5, <1>6, <2>1
  <2>3. Service!End(a, {})
    BY <1>1, <2>2, Ends
  <2>4. CASE h.kind = "error"
    BY <2>2, <2>3, <2>4 DEF Service!GiveUp
  <2>5. CASE h.kind # "error"
    BY <1>6, <2>2, <2>3, <2>5 DEF Service!Answer
  <2> QED
    BY <2>4, <2>5
<1>7. CASE h.job # job
  <2>1. h.job \in LeftBehind /\ LeftBehind' \subseteq (LeftBehind \ {h.job}) \cup {job}
    BY <1>3, <1>4, <1>5, <1>7
  <2>2. Service!End(a, (LeftBehind \ {h.job}) \cup {job})
    BY <1>1, <2>1, Ends
  <2> QED
    BY <2>1, <2>2 DEF Service!AnswerBehind
<1> QED
  BY <1>6, <1>7

\* Without an answer: a second attempt that failed, or an exception.
LEMMA GivesUp ==
  ASSUME TypeInv, TypeInv', WireInv,
         \/ ForkFails \/ (Ready /\ daemon = None) \/ Abandon
         \/ (Retry /\ attempt = 2) \/ SolverMisses
  PROVE  Service!GiveUp
<1> USE DEF TypeInv
<1>1. /\ job' = NoJob /\ using' = None /\ daemon' = daemon
      /\ result' = [asked |-> job, answered |-> NoJob]
      /\ UNCHANGED <<stdout, stdin, working>>
  BY DEF SolverMisses, KillDaemon, ForkFails, Ready, Abandon, Retry, Raise,
     Return, wrapper, process
<1>2. job \in Jobs /\ job # NoJob
  BY JobAssumption
  DEF SolverMisses, KillDaemon, WireInv, StopInv, Stopping, ForkFails, Spawning,
      Ready, Abandon, Retry, CallInv
<1>3. daemon = None \/ job \notin Pipes[daemon]
  BY DEF SolverMisses, ForkFails, Spawning, Ready, Abandon, Retry, WireInv, PipesInv,
     CoroutineInv, Stopping
<1>4. Pipes' = Pipes
  BY <1>1 DEF Pipes, InPipes
<1>5. LeftBehind' \subseteq LeftBehind
  BY <1>1, <1>3, <1>4, LeftIs, LeftIsNext DEF Held
<1> QED
  BY <1>1, <1>2, <1>5, Ends DEF Service!GiveUp

\* The session drops the slice in flight, if there is one.
LEMMA Drops ==
  ASSUME TypeInv, TypeInv', WireInv, DropSession,
         \A q \in Slots : Keeps(q)
  PROVE  Service!Drop \/ Service!Lose
<1> USE DEF TypeInv
<1>1. job' = NoJob /\ using' = None /\ daemon' = daemon
  BY DEF DropSession, wrapper
<1>2. LeftBehind' \subseteq LeftBehind \cup {job}
  <2>1. /\ \A q \in Slots : Pipes'[q] \subseteq Pipes[q]
        /\ daemon \in Slots \cup {None}
    BY DEF Keeps, TypeOK
  <2> QED
    BY <1>1, <2>1, LeftIs, LeftIsNext DEF Held
<1>3. CASE pc = "idle"
  <2>1. job = NoJob /\ result' = result /\ NoJob \notin LeftBehind'
    BY <1>1, <1>3, LeftIsNext DEF DropSession, WireInv, CoroutineInv
  <2> QED
    BY <1>1, <1>2, <2>1, Loses
<1>4. CASE pc # "idle"
  <2>1. job # NoJob /\ result' = [asked |-> job, answered |-> NoJob]
    BY <1>4, JobAssumption DEF DropSession, CallInv
  <2> QED
    BY <1>1, <1>2, <2>1, Ends DEF Service!Drop
<1> QED
  BY <1>3, <1>4

\* The daemon is forgotten: the slice in flight may still read from it.
LEMMA Bounces ==
  ASSUME TypeInv, TypeInv', WireInv, NEW c \in Callers, FinishShutdown(c)
  PROVE  Service!Bounce
<1> USE DEF TypeInv
<1>1. /\ daemon' = None /\ UNCHANGED <<job, using, result>> /\ Pipes' = Pipes
  BY DEF FinishShutdown, caller, process, Pipes, InPipes
<1>2. LeftBehind' \subseteq LeftBehind
  BY <1>1, LeftIs, LeftIsNext DEF Held
<1>3. job = NoJob => LeftBehind' = {}
  <2>1. job = NoJob => using = None
    BY JobAssumption DEF CallInv, WireInv, CoroutineInv
  <2> QED
    BY <1>1, <2>1, LeftIsNext DEF Held
<1> QED
  BY <1>1, <1>2, <1>3 DEF Service!Bounce


\* The job line, or a new process, brings nothing else into the pipes.
LEMMA Starts ==
  ASSUME TypeInv, TypeInv', WireInv,
         \/ Reuse \/ (Ready /\ daemon # None) \/ Spawned
         \/ \E p \in Slots : Fork(p)
  PROVE  Service!Lose
<1> USE DEF TypeInv
<1>1. Idlers'
  <2>1. \/ Reuse \/ Ready \/ Spawned \/ \E p \in Slots : Fork(p)
    OBVIOUS
  <2>2. [Next]_vars
    BY <2>1 DEF Next, SolverStep
  <2> QED
    BY <2>2, IdlersStep DEF WireInv, PipesInv
<1>2. CASE Reuse
  <2>1. /\ daemon \in Slots /\ Write(daemon) /\ job \in Jobs
        /\ job \notin Pipes[daemon] /\ UNCHANGED <<stdout, working>>
    BY <1>2, ReuseWrites
  <2>2. Pipes'[daemon] \subseteq Pipes[daemon] \cup {job}
    BY <1>1, <2>1, Written
  <2>3. using' = daemon /\ daemon' = daemon /\ UNCHANGED <<job, result>>
    BY <1>2 DEF Reuse, Write, wrapper
  <2>4. LeftBehind' \subseteq LeftBehind
    BY <2>2, <2>3, LeftIs, LeftIsNext DEF Held
  <2> QED
    BY <2>3, <2>4, Loses
<1>3. CASE Ready /\ daemon # None
  <2>1. /\ daemon = using /\ using \in Slots /\ Write(daemon) /\ job \in Jobs
        /\ Pipes[using] = {} /\ UNCHANGED <<stdout, working>>
    BY <1>3, ReadyWrites
  <2>2. Pipes'[daemon] \subseteq {job}
    BY <1>1, <2>1, Written
  <2>3. using' = daemon /\ daemon' = daemon /\ UNCHANGED <<job, result>>
    BY <1>3, <2>1 DEF Ready, Write
  <2>4. LeftBehind' = {}
    BY <2>2, <2>3, LeftIsNext DEF Held
  <2> QED
    BY <2>3, <2>4, Loses
<1>4. CASE Spawned
  <2>1. /\ daemon' = using /\ using' = using /\ Pipes' = Pipes
        /\ UNCHANGED <<job, result>>
    BY <1>4 DEF Spawned, process, Pipes, InPipes
  <2>2. Pipes[using] = {}
    BY <1>4 DEF Spawned, WireInv, PipesInv
  <2>3. LeftBehind' = {}
    BY <2>1, <2>2, LeftIsNext DEF Held
  <2> QED
    BY <2>1, <2>3, Loses
<1>5. ASSUME NEW p \in Slots, Fork(p) PROVE Service!Lose
  <2>1. /\ daemon' = daemon /\ daemon # p /\ using' = p
        /\ UNCHANGED <<job, result>>
    BY <1>5 DEF Fork, wrapper
  <2>2. Pipes'[p] = {} /\ (daemon # None => Pipes'[daemon] \subseteq Pipes[daemon])
    BY <1>5, <2>1, Forked DEF Keeps, TypeOK
  <2>3. LeftBehind' \subseteq LeftBehind
    BY <2>1, <2>2, LeftIs, LeftIsNext DEF Held
  <2> QED
    BY <2>1, <2>3, Loses
<1> QED
  BY <1>2, <1>3, <1>4, <1>5

\* Any step but the drop of a session is a step of a service that is not left
\* out of step.
InStep == \/ \E j \in Jobs : Service!Ask(j)
          \/ Service!Answer
          \/ Service!AnswerBehind
          \/ Service!GiveUp
          \/ Service!Bounce
          \/ Service!Lose

LEMMA ServiceStep ==
  ASSUME TypeInv, TypeInv', WireInv, [Next]_vars
  PROVE  InStep \/ (DropSession /\ Service!Drop)
<1> USE DEF TypeInv
<1>1. CASE Reuse \/ (Ready /\ daemon # None) \/ \E p \in Slots : Fork(p)
  BY <1>1, Starts DEF InStep
<1>2. CASE /\ ~Reuse /\ ~(Ready /\ daemon # None)
           /\ ~(\E p \in Slots : Fork(p))
  <2>1. \A q \in Slots : Keeps(q)
    BY <1>2, OthersKeep
  <2>2. ASSUME NEW j \in Jobs, SolveSlice(j) PROVE InStep
    BY <2>2, Asks DEF InStep
  <2>3. CASE ReadReply
    BY <2>3, Reads DEF InStep
  <2>4. CASE \/ ForkFails \/ (Ready /\ daemon = None) \/ Abandon
             \/ (Retry /\ attempt = 2) \/ SolverMisses
    BY <2>4, GivesUp DEF InStep
  <2>5. CASE DropSession
    BY <2>1, <2>5, Drops DEF InStep
  <2>6. ASSUME NEW c \in Callers, FinishShutdown(c) PROVE InStep
    BY <2>6, Bounces DEF InStep
  <2>7. CASE Spawned
    BY <2>7, Starts DEF InStep
  <2>8. CASE UNCHANGED <<daemon, using, job, result>>
    <3>0. \A q \in Slots : Pipes'[q] \subseteq Pipes[q]
      BY <2>1 DEF Keeps
    <3>1. {daemon, using} \subseteq Slots \cup {None}
      BY DEF TypeOK
    <3>2. LeftBehind' \subseteq LeftBehind
      BY <2>8, <3>0, <3>1, LeftIs, LeftIsNext DEF Held
    <3> QED
      BY <2>8, <3>2, Loses DEF InStep
  <2>9. ASSUME \/ \E p \in Slots : ProcessStep(p)
               \/ (\E c \in Callers : Kills(c)) \/ HealMisses
               \/ Reshape \/ ReadyTimeout \/ IoFailed \/ SecondAttempt
               \/ (Retry /\ attempt # 2) \/ ForceRestart \/ Preempt
               \/ UNCHANGED vars
        PROVE  UNCHANGED <<daemon, using, job, result>>
    BY <2>9 DEF ProcessStep, Boot, TakeJob, FinishJob, ExitAtEof, Crash,
       Kills, HealMisses, KillDaemon, Reshape, ReadyTimeout, IoFailed, SecondAttempt, Retry,
       ForceRestart, Preempt, vars, wrapper, caller
  <2> QED
    BY <1>2, <2>2, <2>3, <2>4, <2>5, <2>6, <2>7, <2>8, <2>9, Steps
<1> QED
  BY <1>1, <1>2

\* solve_slice, for any number of slots and slices, whatever crashes, times
\* out, is retried, bounced or dropped, serves its slices as SliceService says:
\* with the right answer or none, and out of step only from a dropped session
\* to the next shutdown or death of the process.
THEOREM Implements == Spec => ImplementsSliceService
<1>1. Init => Service!Init
  BY DEF Init, Service!Init, Service!NoAnswer, NoResult, LeftBehind, InPipes
<1>2. /\ TypeInv /\ WireInv /\ (TypeInv /\ WireInv)' /\ [Next]_vars
      => [Service!Next]_(Service!vars)
  BY ServiceStep DEF InStep, Service!Next
<1> QED
  BY <1>1, <1>2, WireAlways, PTL DEF Spec, ImplementsSliceService, Service!Spec

\* A time-out, a crash, a retry or a bounce in the middle of a slice leaves
\* nothing in the pipes that a later slice could take for its own answer: only
\* a session dropped in the middle of one does.
THEOREM OnlyADropLeaves == Spec => OnlyADropLeavesBehind
<1>1. /\ TypeInv /\ WireInv /\ (TypeInv /\ WireInv)' /\ [Next]_vars
      => [LeftBehind' # {} => LeftBehind # {} \/ DropSession]_vars
  <2> SUFFICES ASSUME TypeInv, TypeInv', WireInv, [Next]_vars, ~DropSession,
                      LeftBehind = {}
               PROVE  LeftBehind' = {}
    OBVIOUS
  <2>1. InStep
    BY ServiceStep
  <2> QED
    BY <2>1 DEF InStep, Service!Ask, Service!Answer, Service!AnswerBehind,
       Service!GiveUp, Service!Bounce, Service!Lose, Service!End
<1> QED
  BY <1>1, WireAlways, PTL DEF Spec, OnlyADropLeavesBehind


-----------------------------------------------------------------------------
(* A daemon solves slices of its own shape. *)

\* A process being started was started for the slice that waits for it, and
\* the shape on record, if it is that of an earlier daemon, is the same.
StartInv ==
  /\ pc = "spawn" /\ daemon # None => params = ShapeOf[job]
  /\ pc \in {"spawn", "ready"} /\ Alive(using) => shape[using] = ShapeOf[job]

\* The end of a process.
LEMMA DieShapes ==
  ASSUME TypeOK, NEW p \in Slots, Die(p)
  PROVE  \A q \in Slots : st'[q] # "gone" =>
           st[q] # "gone" /\ shape'[q] = shape[q]
BY DEF Die, TypeOK

\* Only a fork brings a process to life, or changes its shape.
LEMMA ForkShapes ==
  ASSUME TypeInv, NEW p \in Slots, Fork(p)
  PROVE  /\ shape'[p] = ShapeOf[job]
         /\ \A q \in Slots : q # p => st'[q] = st[q] /\ shape'[q] = shape[q]
BY DEF Fork, TypeInv, TypeOK

LEMMA OthersShapes ==
  ASSUME TypeInv, [Next]_vars, ~(\E p \in Slots : Fork(p))
  PROVE  \A q \in Slots : st'[q] # "gone" =>
           st[q] # "gone" /\ shape'[q] = shape[q]
<1> DEFINE Goal == \A q \in Slots : st'[q] # "gone" =>
                     st[q] # "gone" /\ shape'[q] = shape[q]
<1>1. ASSUME NEW p \in Slots, ProcessStep(p) PROVE Goal
  <2>1. CASE Boot(p) \/ TakeJob(p) \/ \E kind : FinishJob(p, kind)
    BY <2>1 DEF Boot, TakeJob, FinishJob, TypeInv, TypeOK
  <2>2. CASE ExitAtEof(p) \/ Crash(p)
    BY <2>2, DieShapes DEF ExitAtEof, Crash, TypeInv
  <2> QED
    BY <1>1, <2>1, <2>2 DEF ProcessStep
<1>2. ASSUME NEW c \in Callers, Kills(c) PROVE Goal
  <2>1. daemon \in Slots /\ Die(daemon)
    BY <1>2 DEF Kills, KillDaemon, TypeInv, TypeOK
  <2> QED
    BY <2>1, DieShapes DEF TypeInv
<1>3. CASE Preempt
  <2>1. daemon \in Slots
    BY <1>3 DEF Preempt, Running, TypeInv, TypeOK
  <2> QED
    BY <1>3, <2>1, DieShapes DEF Preempt, TypeInv
<1>4. CASE DropSession
  <2>1. CASE pc = "spawn"
    BY <1>4, <2>1, DieShapes DEF DropSession, TypeInv, CallInv
  <2>2. CASE pc # "spawn"
    BY <1>4, <2>2 DEF DropSession, process
  <2> QED
    BY <2>1, <2>2
<1>5. ASSUME \/ \E j \in Jobs : SolveSlice(j)
             \/ \E c \in Callers : FinishShutdown(c)
             \/ SolverMisses \/ HealMisses
             \/ Reshape \/ Reuse \/ ForkFails \/ Spawned \/ Ready
             \/ ReadyTimeout \/ ReadReply \/ IoFailed \/ Retry \/ SecondAttempt
             \/ Abandon \/ ForceRestart \/ UNCHANGED vars
      PROVE  UNCHANGED <<st, shape>>
  BY <1>5 DEF SolverMisses, HealMisses, KillDaemon, SolveSlice, FinishShutdown,
     Reshape, Reuse, ForkFails, Spawned,
     Ready, ReadyTimeout, ReadReply, IoFailed, Retry, SecondAttempt, Abandon,
     ForceRestart, vars, process
<1>6. CASE UNCHANGED <<st, shape>>
  BY <1>6
<1> QED
  BY <1>1, <1>2, <1>3, <1>4, <1>5, <1>6, Steps

\* What a step does to the daemon and to the shape on record.
LEMMA DaemonStep ==
  ASSUME TypeInv, [Next]_vars, ~Spawned, ~Ready
  PROVE  \/ UNCHANGED <<daemon, params>>
         \/ daemon' = None /\ params' = None
<1>1. ASSUME NEW c \in Callers, FinishShutdown(c)
      PROVE  daemon' = None /\ params' = None
  BY <1>1 DEF FinishShutdown
<1>2. ASSUME \/ \E j \in Jobs : SolveSlice(j)
             \/ \E p \in Slots : Fork(p) \/ ProcessStep(p)
             \/ (\E c \in Callers : Kills(c)) \/ SolverMisses \/ HealMisses
             \/ Reshape \/ Reuse \/ ForkFails \/ ReadyTimeout \/ ReadReply
             \/ IoFailed \/ Retry \/ SecondAttempt \/ Abandon \/ ForceRestart
             \/ DropSession \/ Preempt \/ UNCHANGED vars
      PROVE  UNCHANGED <<daemon, params>>
  BY <1>2 DEF SolveSlice, Fork, ProcessStep, Boot, TakeJob, FinishJob,
     ExitAtEof, Crash, Kills, SolverMisses, HealMisses, KillDaemon, Reshape, Reuse, ForkFails, ReadyTimeout,
     ReadReply, IoFailed, Retry, SecondAttempt, Abandon, ForceRestart,
     DropSession, Preempt, vars, wrapper
<1> QED
  BY <1>1, <1>2, Steps

LEMMA StartStep ==
  ASSUME TypeInv, WireInv, StartInv, [Next]_vars
  PROVE  StartInv'
<1>1. ASSUME NEW p \in Slots, Fork(p) PROVE StartInv'
  <2>1. /\ shape'[p] = ShapeOf[job] /\ using' = p /\ UNCHANGED <<job, daemon, params>>
    BY <1>1, ForkShapes DEF Fork, wrapper
  <2>2. daemon # None => params = ShapeOf[job]
    BY <1>1 DEF Fork, Spawning, OtherShape, WireInv, CoroutineInv, Stopping
  <2> QED
    BY <2>1, <2>2 DEF StartInv, Alive
<1>2. CASE ~(\E p \in Slots : Fork(p))
  <2>1. /\ pc' \in {"spawn", "ready"} =>
             pc \in {"spawn", "ready"} /\ UNCHANGED <<using, job>>
        /\ pc' = "spawn" => pc = "spawn"
    <3>1. ASSUME \/ \E j \in Jobs : SolveSlice(j)
                 \/ Reshape \/ Reuse \/ ForkFails \/ Ready \/ ReadyTimeout
                 \/ ReadReply \/ IoFailed \/ Retry \/ SecondAttempt \/ Abandon
                 \/ DropSession \/ SolverMisses
          PROVE  pc' \notin {"spawn", "ready"}
      BY <3>1 DEF SolveSlice, Reshape, Reuse, ForkFails, Ready, ReadyTimeout,
         ReadReply, IoFailed, Retry, SecondAttempt, Abandon, DropSession,
         SolverMisses, KillDaemon, Write, Return, Raise
    <3>2. ASSUME \/ \E p \in Slots : ProcessStep(p)
                 \/ \E c \in Callers : Kills(c) \/ FinishShutdown(c)
                 \/ HealMisses \/ ForceRestart \/ Preempt \/ UNCHANGED vars
          PROVE  UNCHANGED <<pc, using, job>>
      BY <3>2 DEF ProcessStep, Boot, TakeJob, FinishJob, ExitAtEof, Crash,
         Kills, HealMisses, KillDaemon, FinishShutdown, ForceRestart, Preempt,
         vars, caller
    <3>3. CASE Spawned
      BY <3>3 DEF Spawned
    <3> QED
      BY <1>2, <3>1, <3>2, <3>3, Steps
  <2>2. pc' = "spawn" => UNCHANGED <<daemon, params>> \/ daemon' = None
    <3>1. pc' = "spawn" => ~Spawned /\ ~Ready
      BY DEF Spawned, Ready, Raise, Write
    <3> QED
      BY <3>1, DaemonStep
  <2>3. pc \in {"spawn", "ready"} => using \in Slots
    BY DEF TypeInv, CallInv
  <2> QED
    BY <1>2, <2>1, <2>2, <2>3, OthersShapes DEF StartInv, Alive
<1> QED
  BY <1>1, <1>2

\* A recorded shape strays only when the wait for the ready line is over after
\* the daemon has been forgotten.
LEMMA StrayStep ==
  ASSUME TypeInv, WireInv, StartInv, [Next]_vars, Strayed', ~Strayed
  PROVE  Ready /\ daemon = None
<1>0. daemon # None => daemon \in Slots
  BY DEF TypeInv, TypeOK
<1>1. CASE Ready /\ daemon # None
  <2>1. /\ daemon' = daemon /\ daemon = using /\ daemon \in Slots
        /\ params' = ShapeOf[job] /\ UNCHANGED <<st, shape>> /\ pc = "ready"
    BY <1>0, <1>1 DEF Ready, WireInv, CoroutineInv
  <2> QED
    BY <2>1, SlotAssumption DEF Strayed, StartInv, Alive
<1>2. CASE Spawned
  <2>1. /\ daemon' = using /\ using \in Slots /\ pc = "spawn"
        /\ UNCHANGED <<params, st, shape>>
    BY <1>2 DEF Spawned, process, TypeInv, CallInv
  <2> QED
    BY <2>1, SlotAssumption DEF Strayed, StartInv, Alive
<1>3. CASE ~Spawned /\ ~Ready
  <2>1. UNCHANGED <<daemon, params>>
    BY <1>3, DaemonStep DEF Strayed
  <2>2. daemon # None /\ params # None
    BY <2>1 DEF Strayed
  <2>3. st'[daemon] # "gone" => st[daemon] # "gone" /\ shape'[daemon] = shape[daemon]
    <3>1. ASSUME NEW p \in Slots, Fork(p) PROVE p # daemon
      BY <3>1 DEF Fork
    <3> QED
      BY <1>0, <2>2, <3>1, ForkShapes, OthersShapes
  <2> QED
    BY <2>1, <2>2, <2>3 DEF Strayed, Alive
<1> QED
  BY <1>1, <1>2, <1>3

LEMMA ShapeNext ==
  ASSUME TypeOK'
  PROVE  SolvesItsShape' <=>
           (daemon' # None /\ Alive(daemon)' /\ ~Strayed' =>
              \A j \in Pipes'[daemon'] : ShapeOf[j] = shape'[daemon'])
<1>1. daemon' # None => InPipes(daemon)' = Pipes'[daemon']
  BY DEF Pipes, InPipes, TypeOK
<1> QED
  BY <1>1 DEF SolvesItsShape

LEMMA ShapeStep ==
  ASSUME TypeInv, TypeInv', WireInv, StartInv, SolvesItsShape, [Next]_vars
  PROVE  SolvesItsShape'
<1> SUFFICES ASSUME daemon' # None, Alive(daemon)', ~Strayed'
             PROVE  \A j \in Pipes'[daemon'] : ShapeOf[j] = shape'[daemon']
  BY ShapeNext DEF TypeInv
<1>0. daemon' \in Slots
  BY DEF TypeInv, TypeOK
<1>1. Idlers'
  BY IdlersStep DEF WireInv, PipesInv
<1>2. CASE Spawned
  <2>1. daemon' = using /\ Pipes' = Pipes
    BY <1>2 DEF Spawned, process, Pipes, InPipes
  <2>2. Pipes[using] = {}
    BY <1>2 DEF Spawned, WireInv, PipesInv
  <2> QED
    BY <2>1, <2>2
<1>3. CASE Ready
  <2>1. /\ daemon' = daemon /\ daemon # None /\ UNCHANGED <<st, shape>>
        /\ pc = "ready"
    BY <1>3 DEF Ready
  <2>2. /\ daemon = using /\ using \in Slots /\ Write(daemon) /\ job \in Jobs
        /\ Pipes[using] = {} /\ UNCHANGED <<stdout, working>>
    BY <1>3, <2>1, ReadyWrites
  <2>3. Pipes'[daemon] \subseteq {job}
    BY <1>1, <2>2, Written
  <2>4. shape[using] = ShapeOf[job]
    BY <2>1, <2>2 DEF StartInv, Alive
  <2> QED
    BY <2>1, <2>2, <2>3, <2>4
<1>4. CASE ~Spawned /\ ~Ready
  <2>1. UNCHANGED <<daemon, params>> /\ daemon \in Slots
    BY <1>0, <1>4, DaemonStep
  <2>2. /\ st[daemon] # "gone" /\ shape'[daemon] = shape[daemon]
        /\ ~(\E p \in Slots : Fork(p)) \/ Pipes'[daemon] \subseteq Pipes[daemon]
    <3>1. ASSUME NEW p \in Slots, Fork(p) PROVE p # daemon
      BY <3>1 DEF Fork
    <3>2. ASSUME NEW p \in Slots, Fork(p)
          PROVE  Pipes'[daemon] \subseteq Pipes[daemon]
      BY <2>1, <3>1, <3>2, Forked DEF Keeps
    <3> QED
      BY <2>1, <3>1, <3>2, ForkShapes, OthersShapes DEF Alive
  <2>3. ~Strayed
    BY <2>1, <2>2 DEF Strayed, Alive
  <2>4. \A j \in Pipes[daemon] : ShapeOf[j] = shape[daemon]
    BY <2>1, <2>2, <2>3, PipesOf, SlotAssumption
    DEF SolvesItsShape, Alive, TypeInv
  <2>5. CASE Reuse
    <3>1. /\ daemon \in Slots /\ Write(daemon) /\ job \in Jobs
          /\ job \notin Pipes[daemon] /\ UNCHANGED <<stdout, working>>
      BY <2>5, ReuseWrites
    <3>2. Pipes'[daemon] \subseteq Pipes[daemon] \cup {job}
      BY <1>1, <3>1, Written
    <3>3. params = ShapeOf[job] /\ params # None
      BY <2>1, <2>5, <3>1, SlotAssumption, JobAssumption DEF Reuse, OtherShape
    <3>4. shape[daemon] = ShapeOf[job]
      BY <2>2, <2>3, <3>3 DEF Strayed, Alive
    <3> QED
      BY <2>1, <2>2, <2>4, <3>2, <3>4
  <2>6. CASE ~Reuse
    <3>1. Pipes'[daemon] \subseteq Pipes[daemon]
      BY <1>4, <2>1, <2>2, <2>6, OthersKeep DEF Keeps
    <3> QED
      BY <2>1, <2>2, <2>4, <3>1
  <2> QED
    BY <2>5, <2>6
<1> QED
  BY <1>2, <1>3, <1>4

LEMMA ShapeAlways ==
  Spec => [](TypeInv /\ WireInv /\ StartInv /\ SolvesItsShape)
<1>1. Init => StartInv /\ SolvesItsShape
  BY DEF Init, StartInv, SolvesItsShape
<1>2. /\ TypeInv /\ WireInv /\ (TypeInv /\ WireInv)'
      /\ StartInv /\ SolvesItsShape /\ [Next]_vars
      => (StartInv /\ SolvesItsShape)'
  BY StartStep, ShapeStep
<1> QED
  BY <1>1, <1>2, WireAlways, PTL DEF Spec

\* A running daemon is given slices of the shape it was started with only, in
\* every order of respawns, retries, bounces and dropped sessions in which the
\* recorded shape stays with its daemon.
THEOREM OwnShape == Spec => []SolvesItsShape
BY ShapeAlways, PTL

\* And that the recorded shape leaves its daemon takes a bounce that is over
\* before the wait for the ready line is.
THEOREM BounceStrays == Spec => StraysOnlyByBounce
<1>1. TypeInv /\ WireInv /\ StartInv /\ SolvesItsShape /\ [Next]_vars
      => [Strayed' => Strayed \/ (Ready /\ daemon = None)]_vars
  BY StrayStep
<1> QED
  BY <1>1, ShapeAlways, PTL DEF Spec, StraysOnlyByBounce
=============================================================================
