------------------------- MODULE CanonicalNamesProofs -------------------------
(***************************************************************************)
(* Proofs about CanonicalNames, for any number of miners and GPUs: what a  *)
(* save that is not overtaken guarantees, through kills and failures.      *)
(***************************************************************************)
EXTENDS CanonicalNames, TLAPS

\* A descriptor is open between Open and the end of the write.
FdInv == \A m \in Miners : fd[m] # "none" => pc[m] = "opened"

\* While nobody has been overtaken there is one upsert at most, it writes to
\* the temporary file, and carries all the names there are.
AloneInv ==
  ~disturbed =>
    /\ Sound
    /\ \A m, n \in Miners : pc[m] # "idle" /\ pc[n] # "idle" => m = n
    /\ \A m \in Miners :
         /\ pc[m] # "idle" => cache[m].is = "dict" /\ names.of \subseteq cache[m].of
         /\ pc[m] = "opened" => fd[m] = "tmp" /\ tmp = Empty
         /\ pc[m] = "written" => tmp = cache[m]

NamesInv == TypeOK /\ FdInv /\ AloneInv

-----------------------------------------------------------------------------
LEMMA DictFacts ==
  /\ \A gpus \in SUBSET Gpus : Dict(gpus) \in Dicts
  /\ \A d \in Dicts : d.is = "dict" /\ d.of \in SUBSET Gpus
  /\ \A f \in Files : f.of \in SUBSET Gpus
  /\ Dict({}) \in Dicts /\ Dicts \subseteq Files
  /\ {Torn, Empty, Absent} \subseteq Files
BY DEF Dicts, Dict, Files, Torn, Empty, Absent

\* Every step keeps the types.
LEMMA TypeStep ==
  ASSUME TypeOK, [Next]_vars
  PROVE  TypeOK'
<1>. USE DictFacts DEF TypeOK
<1>1. CASE UNCHANGED vars
  BY <1>1 DEF vars
<1>2. ASSUME NEW m \in Miners, NEW g \in Gpus, Load(m, g) \/ LoadFails(m, g)
      PROVE  TypeOK'
  <2>1. Dict(names.of \cup {g}) \in Dicts /\ Dict({g}) \in Dicts
    OBVIOUS
  <2>2. disturbed' \in BOOLEAN
    BY <1>2, Zenon DEF Load, LoadFails
  <2>3. UNCHANGED <<names, tmp, fd>>
    BY <1>2 DEF Load, LoadFails
  <2>4. pc' \in [Miners -> {"idle", "loaded", "opened", "written"}]
    BY <1>2 DEF Load, LoadFails, Goto
  <2>5. cache' \in [Miners -> Dicts]
    BY <1>2, <2>1 DEF Load, LoadFails
  <2>. QED BY <2>2, <2>3, <2>4, <2>5
<1>3. ASSUME NEW m \in Miners, Open(m)
      PROVE  TypeOK'
  BY <1>3 DEF Open, Goto
<1>4. ASSUME NEW m \in Miners, NEW texts \in SUBSET Files, Put(m, texts)
      PROVE  /\ names' \in Files /\ tmp' \in Files
             /\ fd' \in [Miners -> {"none", "tmp", "names", "gone"}]
  BY <1>4 DEF Put
<1>5. ASSUME NEW m \in Miners, Write(m)
      PROVE  TypeOK'
  <2>1. {cache[m]} \in SUBSET Files /\ {cache[m], Torn} \in SUBSET Files
    OBVIOUS
  <2>2. \E texts \in SUBSET Files : Put(m, texts)
    BY <1>5, <2>1 DEF Write
  <2>. QED BY <1>4, <1>5, <2>2 DEF Write, Goto
<1>6. ASSUME NEW m \in Miners, Return(m)
      PROVE  /\ pc' \in [Miners -> {"idle", "loaded", "opened", "written"}]
             /\ cache' \in [Miners -> Dicts]
             /\ disturbed' \in BOOLEAN
  <2>1. disturbed' \in BOOLEAN
    BY <1>6, Zenon DEF Return
  <2>. QED BY <1>6, <2>1 DEF Return
<1>7. ASSUME NEW m \in Miners, WriteFails(m)
      PROVE  TypeOK'
  <2>1. {Target(m), Torn} \in SUBSET Files
    BY DEF Target
  <2>. QED BY <1>4, <1>6, <1>7, <2>1 DEF WriteFails
<1>8. ASSUME NEW m \in Miners, Replace(m)
      PROVE  TypeOK'
  <2>1. names' \in Files /\ tmp' \in Files
    BY <1>8 DEF Replace
  <2>2. fd' \in [Miners -> {"none", "tmp", "names", "gone"}]
    BY <1>8 DEF Replace
  <2>. QED BY <1>6, <1>8, <2>1, <2>2 DEF Replace
<1>9. ASSUME NEW m \in Miners, SaveFails(m) \/ Kill(m)
      PROVE  TypeOK'
  BY <1>6, <1>9 DEF SaveFails, Kill
<1>. QED BY <1>1, <1>2, <1>3, <1>5, <1>7, <1>8, <1>9 DEF Next, Save, Fails

-----------------------------------------------------------------------------
(* The invariant. *)

LEMMA NamesInit == Init => NamesInv
<1>. SUFFICES ASSUME Init PROVE NamesInv
  OBVIOUS
<1>1. disturbed \in BOOLEAN
  BY Zenon DEF Init
<1>2. TypeOK
  BY <1>1, DictFacts DEF Init, TypeOK
<1>. QED BY <1>2 DEF Init, NamesInv, FdInv, AloneInv, Sound, Absent

\* An upsert that has not been overtaken leaves everybody idle.
LEMMA AloneReturns ==
  ASSUME NamesInv, NEW m \in Miners, pc[m] # "idle", Return(m), Sound',
         fd'[m] = "none", \A n \in Miners : fd'[n] # "none" => fd[n] # "none"
  PROVE  FdInv' /\ AloneInv'
<1>1. pc'[m] = "idle" /\ \A n \in Miners \ {m} : pc'[n] = pc[n]
  BY DEF NamesInv, TypeOK, Return
<1>2. FdInv'
  BY <1>1 DEF NamesInv, FdInv
<1>3. CASE ~disturbed
  <2>1. \A n \in Miners : pc'[n] = "idle"
    BY <1>1, <1>3 DEF NamesInv, AloneInv
  <2>. QED BY <1>2, <2>1 DEF AloneInv
<1>4. CASE disturbed
  <2>1. ~disturbed' => Quiet'
    BY <1>4 DEF Return
  <2>2. ~disturbed' => \A n \in Miners : pc'[n] = "idle"
    BY <2>1 DEF Quiet
  <2>. QED BY <1>2, <2>2 DEF AloneInv
<1>. QED BY <1>3, <1>4

LEMMA NamesStep ==
  ASSUME NamesInv, [Next]_vars
  PROVE  NamesInv'
<1>0. TypeOK /\ TypeOK'
  BY TypeStep DEF NamesInv
<1>1. CASE UNCHANGED vars
  BY <1>0, <1>1 DEF vars, NamesInv, FdInv, AloneInv, Sound
<1>2. ASSUME NEW m \in Miners, NEW g \in Gpus, Load(m, g)
      PROVE  FdInv' /\ AloneInv'
  <2>1. /\ pc[m] = "idle" /\ pc'[m] = "loaded"
        /\ \A n \in Miners \ {m} : pc'[n] = pc[n] /\ cache'[n] = cache[n]
        /\ cache'[m] = Dict(names.of \cup {g})
        /\ UNCHANGED <<names, tmp, fd>>
    BY <1>0, <1>2 DEF Load, Goto, TypeOK
  <2>2. FdInv'
    BY <2>1 DEF NamesInv, FdInv
  <2>3. ~disturbed' => ~disturbed /\ Quiet
    BY <1>2 DEF Load
  <2>4. AloneInv'
    BY <2>1, <2>3 DEF NamesInv, AloneInv, Quiet, Sound, Dict
  <2>. QED BY <2>2, <2>4
<1>3. ASSUME NEW m \in Miners, NEW g \in Gpus, LoadFails(m, g)
      PROVE  FdInv' /\ AloneInv'
  BY <1>0, <1>3 DEF LoadFails, Goto, NamesInv, TypeOK, FdInv, AloneInv
<1>4. ASSUME NEW m \in Miners, Open(m)
      PROVE  FdInv' /\ AloneInv'
  <2>1. /\ pc[m] = "loaded" /\ pc'[m] = "opened" /\ fd'[m] = "tmp"
        /\ \A n \in Miners \ {m} : pc'[n] = pc[n] /\ fd'[n] = fd[n]
        /\ tmp' = Empty /\ UNCHANGED <<names, cache, disturbed>>
    BY <1>0, <1>4 DEF Open, Goto, TypeOK
  <2>. QED BY <2>1 DEF NamesInv, FdInv, AloneInv, Sound
<1>5. ASSUME NEW m \in Miners, Write(m)
      PROVE  FdInv' /\ AloneInv'
  <2>1. /\ pc[m] = "opened" /\ pc'[m] = "written" /\ fd'[m] = "none"
        /\ \A n \in Miners \ {m} : pc'[n] = pc[n] /\ fd'[n] = fd[n]
        /\ UNCHANGED <<cache, disturbed>>
    BY <1>0, <1>5 DEF Write, Put, Goto, TypeOK
  <2>2. ~disturbed => tmp' = cache[m] /\ names' = names
    BY <1>5 DEF Write, Put, Target, NamesInv, AloneInv
  <2>. QED BY <2>1, <2>2 DEF NamesInv, FdInv, AloneInv, Sound
<1>6. ASSUME NEW m \in Miners, WriteFails(m)
      PROVE  FdInv' /\ AloneInv'
  <2>1. pc[m] = "opened" /\ fd' = [fd EXCEPT ![m] = "none"]
    BY <1>6 DEF WriteFails, Put
  <2>2. ~disturbed => names' = names
    BY <1>6 DEF WriteFails, Put, NamesInv, AloneInv
  <2>3. Return(m)
    BY <1>6 DEF WriteFails
  <2>4. CASE Sound'
    BY <1>0, <2>1, <2>3, <2>4, AloneReturns DEF TypeOK
  <2>5. CASE ~Sound'
    <3>1. disturbed
      BY <2>2, <2>5 DEF NamesInv, AloneInv, Sound
    <3>2. disturbed'
      BY <2>3, <2>5, <3>1 DEF Return
    <3>3. FdInv'
      BY <1>0, <2>1, <2>3 DEF Return, NamesInv, FdInv, TypeOK
    <3>. QED BY <3>2, <3>3 DEF AloneInv
  <2>. QED BY <2>4, <2>5
<1>7. ASSUME NEW m \in Miners, Replace(m)
      PROVE  FdInv' /\ AloneInv'
  <2>1. pc[m] = "written" /\ Return(m)
    BY <1>7 DEF Replace
  <2>2. fd[m] = "none"
    BY <2>1 DEF NamesInv, FdInv
  <2>3. \A n \in Miners : fd'[n] # "none" => fd[n] # "none"
    BY <1>7 DEF Replace
  <2>4. fd'[m] = "none"
    BY <2>2, <2>3
  <2>5. ~disturbed => Sound'
    BY <1>7, <2>1 DEF Replace, NamesInv, AloneInv, Sound
  <2>6. CASE Sound'
    BY <2>1, <2>3, <2>4, <2>6, AloneReturns
  <2>7. CASE ~Sound'
    <3>1. disturbed'
      BY <2>1, <2>5, <2>7 DEF Return
    <3>2. FdInv'
      BY <1>0, <2>1, <2>3, <2>4 DEF Return, NamesInv, FdInv, TypeOK
    <3>. QED BY <3>1, <3>2 DEF AloneInv
  <2>. QED BY <2>6, <2>7
<1>8. ASSUME NEW m \in Miners, SaveFails(m) \/ Kill(m)
      PROVE  FdInv' /\ AloneInv'
  <2>1. pc[m] # "idle" /\ Return(m) /\ names' = names
    BY <1>8 DEF SaveFails, Kill
  <2>2. fd'[m] = "none" /\ \A n \in Miners : fd'[n] # "none" => fd[n] # "none"
    BY <1>0, <1>8 DEF SaveFails, Kill, NamesInv, FdInv, TypeOK
  <2>3. CASE Sound'
    BY <2>1, <2>2, <2>3, AloneReturns
  <2>4. CASE ~Sound'
    <3>1. disturbed
      BY <2>1, <2>4 DEF NamesInv, AloneInv, Sound
    <3>2. disturbed'
      BY <2>1, <2>4, <3>1 DEF Return
    <3>3. FdInv'
      BY <1>0, <2>1, <2>2 DEF Return, NamesInv, FdInv, TypeOK
    <3>. QED BY <3>2, <3>3 DEF AloneInv
  <2>. QED BY <2>3, <2>4
<1>9. FdInv' /\ AloneInv'
  BY <1>1, <1>2, <1>3, <1>4, <1>5, <1>6, <1>7, <1>8 DEF Next, Save, Fails, NamesInv
<1>. QED BY <1>0, <1>9 DEF NamesInv

LEMMA NamesInvAlways == Spec => []NamesInv
<1>1. NamesInv /\ [Next]_vars => NamesInv'
  BY NamesStep
<1>. QED BY <1>1, NamesInit, PTL DEF Spec

-----------------------------------------------------------------------------
(* Theorems. *)

\* Files, dicts and descriptors keep their types.
THEOREM TypeCorrect == Spec => []TypeOK
<1>1. NamesInv => TypeOK
  BY DEF NamesInv
<1>. QED BY <1>1, NamesInvAlways, PTL

\* Without an overtaking no kill and no failure leaves a file that cannot be
\* parsed.
THEOREM FileIsWhole == Spec => []WholeUnlessDisturbed
<1>1. NamesInv => WholeUnlessDisturbed
  BY DEF NamesInv, AloneInv, WholeUnlessDisturbed
<1>. QED BY <1>1, NamesInvAlways, PTL

\* Without an overtaking no kill and no failure loses a name.
THEOREM NamesAreKept == Spec => NamesStay
<1>1. ASSUME NamesInv, ~disturbed, [Next]_vars
      PROVE  names.of \subseteq names'.of
  <2>1. ASSUME NEW m \in Miners, Replace(m)
        PROVE  names.of \subseteq names'.of
    BY <1>1, <2>1 DEF Replace, NamesInv, AloneInv
  <2>2. ASSUME NEW m \in Miners, Write(m) \/ WriteFails(m)
        PROVE  names' = names
    BY <1>1, <2>2 DEF Write, WriteFails, Put, NamesInv, AloneInv
  <2>3. ASSUME NEW m \in Miners, NEW g \in Gpus, Load(m, g) \/ LoadFails(m, g)
        PROVE  names' = names
    BY <2>3 DEF Load, LoadFails
  <2>4. ASSUME NEW m \in Miners, Open(m) \/ SaveFails(m) \/ Kill(m)
        PROVE  names' = names
    BY <2>4 DEF Open, SaveFails, Kill
  <2>5. CASE UNCHANGED vars
    BY <2>5 DEF vars
  <2>. QED BY <1>1, <2>1, <2>2, <2>3, <2>4, <2>5 DEF Next, Save, Fails
<1>2. NamesInv /\ [Next]_vars => [~disturbed => names.of \subseteq names'.of]_vars
  BY <1>1
<1>. QED BY <1>2, NamesInvAlways, PTL DEF Spec, NamesStay
=============================================================================
