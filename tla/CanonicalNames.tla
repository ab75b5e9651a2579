---------------------------- MODULE CanonicalNames ----------------------------
(***************************************************************************)
(* The cache of the names the pool assigns to GPUs (canonical_names.py),   *)
(* one file shared by all miners of a host. mining.set_canonical_name      *)
(* makes a miner read the file, add an entry and save it: write to a       *)
(* temporary file, which has the same name for every miner, and rename it  *)
(* over the old one. There is no lock.                                     *)
(*                                                                         *)
(* A file is followed through its names: a miner's open descriptor stays   *)
(* with the file it was opened on when that file is renamed or replaced.   *)
(***************************************************************************)
CONSTANTS Miners,  \* processes on one host
          Gpus     \* gpu_uuids

\* What a file can be: the text of a dict with entries for these GPUs, some
\* text that is none, a file that has just been truncated, no file.
Dict(gpus) == [is |-> "dict", of |-> gpus]
Torn == [is |-> "torn", of |-> {}]
Empty == [is |-> "empty", of |-> {}]
Absent == [is |-> "absent", of |-> {}]
Dicts == {Dict(gpus) : gpus \in SUBSET Gpus}
Files == Dicts \cup {Torn, Empty, Absent}

VARIABLES
  names,     \* canonical_names.json
  tmp,       \* canonical_names.json.tmp
  pc,        \* how far a miner is in upsert ("idle": not in it)
  cache,     \* its local dict
  fd,        \* the file it writes to: "tmp", "names", "gone", or "none"
  disturbed  \* history: an upsert was overtaken by another, or could not read
             \* the file, and what came of it is not over

vars == <<names, tmp, pc, cache, fd, disturbed>>

Sound == names.is \in {"dict", "absent"}
Quiet == \A m \in Miners : pc[m] = "idle"

TypeOK ==
  /\ names \in Files
  /\ tmp \in Files
  /\ pc \in [Miners -> {"idle", "loaded", "opened", "written"}]
  /\ cache \in [Miners -> Dicts]
  /\ fd \in [Miners -> {"none", "tmp", "names", "gone"}]
  /\ disturbed \in BOOLEAN

Init ==
  /\ names = Absent
  /\ tmp = Absent
  /\ pc = [m \in Miners |-> "idle"]
  /\ cache = [m \in Miners |-> Dict({})]
  /\ fd = [m \in Miners |-> "none"]
  /\ disturbed = FALSE

\* The upsert of m is over, in one way or another.
Return(m) ==
  /\ pc' = [pc EXCEPT ![m] = "idle"]
  /\ cache' = [cache EXCEPT ![m] = Dict({})]
  /\ disturbed' = (disturbed /\ ~(Quiet' /\ Sound'))

Goto(m, p) == pc' = [pc EXCEPT ![m] = p]

-----------------------------------------------------------------------------
(* load. *)

\* Mutant of Load: what cannot be parsed is taken for the cache as it is.
LoadUnchecked(m, g) ==
  /\ pc[m] = "idle"
  /\ Goto(m, "loaded")
  /\ cache' = [cache EXCEPT ![m] = IF names.is = "torn" THEN names
                                   ELSE Dict(names.of \cup {g})]
  /\ disturbed' = (disturbed \/ ~Quiet)
  /\ UNCHANGED <<names, tmp, fd>>

\* The pool names GPU g to miner m. A file that cannot be parsed counts as
\* empty.
Load(m, g) ==
  /\ pc[m] = "idle"
  /\ Goto(m, "loaded")
  /\ cache' = [cache EXCEPT ![m] = Dict(names.of \cup {g})]
  /\ disturbed' = (disturbed \/ ~Quiet)
  /\ UNCHANGED <<names, tmp, fd>>

\* So does one that cannot be read.
LoadFails(m, g) ==
  /\ pc[m] = "idle"
  /\ names # Absent
  /\ Goto(m, "loaded")
  /\ cache' = [cache EXCEPT ![m] = Dict({g})]
  /\ disturbed' = TRUE
  /\ UNCHANGED <<names, tmp, fd>>

-----------------------------------------------------------------------------
(* save. *)

\* Mutant of Open: the file itself is opened, without a temporary one.
OpenInPlace(m) ==
  /\ pc[m] = "loaded"
  /\ Goto(m, "opened")
  /\ names' = Empty
  /\ fd' = [fd EXCEPT ![m] = "names"]
  /\ UNCHANGED <<tmp, cache, disturbed>>

\* The temporary file is created, or truncated if there is one.
Open(m) ==
  /\ pc[m] = "loaded"
  /\ Goto(m, "opened")
  /\ tmp' = Empty
  /\ fd' = [fd EXCEPT ![m] = "tmp"]
  /\ UNCHANGED <<names, cache, disturbed>>

\* m's descriptor, at offset 0, writes one of these texts over a file.
Put(m, texts) ==
  /\ CASE fd[m] = "tmp" -> tmp' \in texts /\ UNCHANGED names
       [] fd[m] = "names" -> names' \in texts /\ UNCHANGED tmp
       [] OTHER -> UNCHANGED <<names, tmp>>
  /\ fd' = [fd EXCEPT ![m] = "none"]

Target(m) == IF fd[m] = "names" THEN names ELSE tmp

\* The text is written over what another miner has written since the file was
\* truncated; the longer one of the two shows behind it.
Write(m) ==
  /\ pc[m] = "opened"
  /\ Goto(m, "written")
  /\ Put(m, IF Target(m) = Empty THEN {cache[m]} ELSE {cache[m], Torn})
  /\ UNCHANGED <<cache, disturbed>>

\* Mutant of WriteFails: the temporary file is moved in any case.
WriteFailsMoves(m) ==
  /\ pc[m] = "opened"
  /\ fd' = [fd EXCEPT ![m] = "none"]
  /\ names' = Torn
  /\ tmp' = Absent
  /\ Return(m)

\* The write fails halfway.
WriteFails(m) ==
  /\ pc[m] = "opened"
  /\ Put(m, {Target(m), Torn})
  /\ Return(m)

\* os.replace: the temporary file, whoever wrote it last, becomes the file.
\* There is none if another miner has already moved it.
Replace(m) ==
  /\ pc[m] = "written"
  /\ IF tmp = Absent
       THEN UNCHANGED <<names, tmp, fd>>
       ELSE /\ names' = tmp
            /\ tmp' = Absent
            /\ fd' = [n \in Miners |->
                        CASE fd[n] = "tmp" -> "names"
                          [] fd[n] = "names" -> "gone"
                          [] OTHER -> fd[n]]
  /\ Return(m)

\* No temporary file can be opened, or it cannot be renamed.
SaveFails(m) ==
  /\ pc[m] \in {"loaded", "written"}
  /\ UNCHANGED <<names, tmp, fd>>
  /\ Return(m)

-----------------------------------------------------------------------------
\* A miner is killed; a new one takes its place.
Kill(m) ==
  /\ pc[m] # "idle"
  /\ fd' = [fd EXCEPT ![m] = "none"]
  /\ UNCHANGED <<names, tmp>>
  /\ Return(m)

Save(m) == Open(m) \/ Write(m) \/ Replace(m)
Fails(m) == WriteFails(m) \/ SaveFails(m) \/ Kill(m)

Next == \E m \in Miners :
          \/ \E g \in Gpus : Load(m, g) \/ LoadFails(m, g)
          \/ Save(m)
          \/ Fails(m)

Spec == Init /\ [][Next]_vars
\* save is synchronous code: once begun, it goes on.
Fairness == \A m \in Miners : WF_vars(Save(m))
FairSpec == Spec /\ Fairness

-----------------------------------------------------------------------------
(* Properties. *)

\* "reconnects retain the info" (canonical_names.py:5): unless an upsert was
\* overtaken by another miner's, or could not read the file, names once saved
\* stay, whatever else fails and whoever is killed in the middle of a save.
NamesStay == [][~disturbed => names.of \subseteq names'.of]_vars

\* And the file is whole.
WholeUnlessDisturbed == ~disturbed => Sound

\* What the miners did to each other's names is repaired: once upserts no
\* longer meet and nothing fails, GPUs the pool keeps naming get back into the
\* file for good.
Meets == \E m \in Miners, g \in Gpus : Load(m, g) /\ ~Quiet
Trouble == \/ Meets
           \/ \E m \in Miners : Fails(m) \/ \E g \in Gpus : LoadFails(m, g)
Named(g) == \E m \in Miners : Load(m, g)
Relearns ==
  <>[][~Trouble]_vars =>
    \A g \in Gpus : []<><<Named(g)>>_vars => <>[](g \in names.of)
=============================================================================
