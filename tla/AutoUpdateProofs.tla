-------------------------- MODULE AutoUpdateProofs --------------------------
(***************************************************************************)
(* Safety of the updaters, for any channel, any releases and any builds:   *)
(* what gets installed, and that the wrapper never goes back.              *)
(***************************************************************************)
EXTENDS AutoUpdate, TLAPS

\* The check under way: a manifest is held where it is used; the version pip
\* installs is newer than the running one; what is to be installed is the
\* build the held manifest names.
CheckInv ==
  /\ pc \in {"pip", "exec", "resolve", "install"} => seen \in Manifests
  /\ pc = "pip" => seen.version > running
  /\ pc = "install" => tmp = seen.build /\ tmp \in Builds

\* The package on the disk is never older than the one that runs: pip is only
\* asked for a newer one, and even a broken release loads as the version just
\* before its own.
PackageInv == package >= running

UpdateInv == TypeOK /\ CheckInv /\ PackageInv

\* What a process knows of the upgrade that started it: unless the release is
\* broken it runs that release or a later one, and while it starts it looks
\* for another upgrade only if it was not started by one.
BornInv ==
  /\ just \in {None, bornOf}
  /\ bornOf \in Versions \ Broken => running >= bornOf
  /\ up = "starting" /\ pc = "wrapper" => just = bornOf
  /\ up = "starting" /\ pc \in {"pip", "exec"} => bornOf = None
  /\ pc = "exec" => package = Loads(seen.version)

-----------------------------------------------------------------------------
\* What a manifest holds.
LEMMA ManifestTyped ==
  ASSUME NEW m \in Manifests
  PROVE  /\ m.version \in Versions
         /\ m.build \in Builds \cup {None}
         /\ m.floor \in Builds \cup {None}
BY ManifestAssumption

\* A newer release, broken or not, loads as a version no older than the one
\* that installs it.
LEMMA LoadsNoOlder ==
  ASSUME NEW v \in Versions, NEW r \in Versions, v > r
  PROVE  Loads(v) \in Versions /\ Loads(v) >= r
BY VersionAssumption DEF Loads

LEMMA InitInv == Init => UpdateInv
<1> SUFFICES ASSUME Init PROVE UpdateInv
  OBVIOUS
<1>1. calm \in BOOLEAN
  BY DEF Init
<1>2. package \in Nat
  BY VersionAssumption DEF Init
<1> QED
  BY <1>1, <1>2 DEF Init, UpdateInv, TypeOK, CheckInv, PackageInv

\* The ways a check or a process ends keep the invariant.
LEMMA BootInv ==
  ASSUME UpdateInv, NEW e \in Versions \cup {None}, Boot(e)
  PROVE  UpdateInv'
<1>1. package \in Nat
  BY VersionAssumption DEF UpdateInv, TypeOK
<1> QED
  BY <1>1 DEF Boot, UpdateInv, TypeOK, CheckInv, PackageInv, disk

LEMMA EndedInv ==
  ASSUME UpdateInv, NEW how \in {"off", "refused", "died"}, Ended(how)
  PROVE  UpdateInv'
BY DEF Ended, UpdateInv, TypeOK, CheckInv, PackageInv, disk

LEMMA RaisesInv ==
  ASSUME UpdateInv, NEW how \in {"off", "refused", "died"}, Raises(how)
  PROVE  UpdateInv'
<1>1. CASE up = "starting"
  BY <1>1, EndedInv DEF Raises
<1>2. CASE up # "starting"
  BY <1>2 DEF Raises, UpdateInv, TypeOK, CheckInv, PackageInv, disk, memory
<1> QED
  BY <1>1, <1>2

\* The wrapper check is over with a package no older than the running one.
LEMMA WrapperReturnsInv ==
  ASSUME UpdateInv, WrapperReturns,
         package' \in Versions, package' >= running,
         just' \in {just, None}
  PROVE  UpdateInv'
BY DEF WrapperReturns, UpdateInv, TypeOK, CheckInv, PackageInv

\* The solver check is over with a build, or still none, in place.
LEMMA SolverReturnsInv ==
  ASSUME UpdateInv, NEW b \in Builds \cup {None}, SolverReturns(b)
  PROVE  UpdateInv'
BY DEF SolverReturns, UpdateInv, TypeOK, CheckInv, PackageInv, memory
-----------------------------------------------------------------------------
(* The actions.                                                            *)

LEMMA WrapperCheckInv == UpdateInv /\ WrapperCheck => UpdateInv'
<1> SUFFICES ASSUME UpdateInv, WrapperCheck PROVE UpdateInv'
  OBVIOUS
<1>0. /\ {package, running} \subseteq Versions
      /\ package >= running
  BY DEF UpdateInv, TypeOK, PackageInv
<1>1. CASE UNCHANGED package /\ just' \in {just, None} /\ WrapperReturns
  BY <1>0, <1>1, WrapperReturnsInv DEF WrapperReturns
<1>2. CASE WrapperOptedOut \/ WrapperUpToDate \/ WrapperFetchFails
           \/ WrapperExecFails
  BY <1>1, <1>2 DEF WrapperOptedOut, WrapperUpToDate, WrapperFetchFails,
     WrapperExecFails
<1>3. CASE JustUpgraded
  BY <1>1, <1>3 DEF JustUpgraded
<1>4. CASE WrapperFetchBreaks
  BY <1>4, RaisesInv DEF WrapperFetchBreaks, Breaks
<1>5. CASE WrapperOutdated
  BY <1>5 DEF WrapperOutdated, UpdateInv, TypeOK, CheckInv, PackageInv, disk,
     memory
<1>6. ASSUME pc = "pip"
      PROVE  Loads(seen.version) \in Versions /\ Loads(seen.version) >= running
  BY <1>0, <1>6, ManifestTyped, LoadsNoOlder DEF UpdateInv, CheckInv
<1>7. CASE PipInstalls
  BY <1>6, <1>7 DEF PipInstalls, UpdateInv, TypeOK, CheckInv, PackageInv,
     memory, check
<1>8. CASE PipFails
  <2>1. package' \in Versions /\ package' >= running
    BY <1>0, <1>6, <1>8 DEF PipFails
  <2> QED
    BY <1>8, <2>1, WrapperReturnsInv DEF PipFails
<1>9. CASE WrapperExec
  <2>1. seen.version \in Versions
    BY <1>9, ManifestTyped DEF WrapperExec, UpdateInv, CheckInv
  <2> QED
    BY <1>9, <2>1, BootInv DEF WrapperExec
<1> QED
  BY <1>2, <1>3, <1>4, <1>5, <1>7, <1>8, <1>9 DEF WrapperCheck

LEMMA SolverCheckInv == UpdateInv /\ SolverCheck => UpdateInv'
<1> SUFFICES ASSUME UpdateInv, SolverCheck PROVE UpdateInv'
  OBVIOUS
<1>0. binary \in Builds \cup {None}
  BY DEF UpdateInv, TypeOK
<1>1. CASE SolverReturns(binary)
  BY <1>0, <1>1, SolverReturnsInv
<1>2. CASE SolverOptedOut \/ SolverFetchFails \/ NothingToInstall \/ InstallFails
  BY <1>1, <1>2 DEF SolverOptedOut, SolverFetchFails, NothingToInstall,
     InstallFails
<1>3. CASE SolverFetch
  BY <1>3 DEF SolverFetch, UpdateInv, TypeOK, CheckInv, PackageInv, disk, memory
<1>4. CASE SolverFetchBreaks \/ DownloadBreaks
  BY <1>4, RaisesInv DEF SolverFetchBreaks, DownloadBreaks, Breaks
<1>5. ASSUME NEW content \in Builds \cup {Torn}, Download(content)
      PROVE  UpdateInv'
  <2>1. seen \in Manifests /\ seen.build \in Builds
    BY <1>5, ManifestTyped DEF Download, Outdated, UpdateInv, CheckInv
  <2>2. CASE Downloaded
    BY <2>1, <2>2 DEF Downloaded, UpdateInv, TypeOK, CheckInv, PackageInv, disk,
       memory
  <2>3. CASE DownloadFailed
    BY <1>1, <2>3, RaisesInv DEF DownloadFailed
  <2> QED
    BY <1>5, <2>2, <2>3 DEF Download
<1>6. CASE Install
  BY <1>6, SolverReturnsInv DEF Install, UpdateInv, CheckInv
<1>7. CASE SolverReexec
  BY <1>7, BootInv DEF SolverReexec, UpdateInv, TypeOK
<1>8. CASE SolverReexecFails
  BY <1>8 DEF SolverReexecFails, UpdateInv, TypeOK, CheckInv, PackageInv, disk,
     memory, check
<1> QED
  BY <1>2, <1>3, <1>4, <1>5, <1>6, <1>7, <1>8 DEF SolverCheck

LEMMA NextInv == UpdateInv /\ [Next]_vars => UpdateInv'
<1> SUFFICES ASSUME UpdateInv, [Next]_vars PROVE UpdateInv'
  OBVIOUS
<1>1. CASE Start
  BY <1>1, BootInv DEF Start
<1>2. CASE Crash
  BY <1>2, EndedInv DEF Crash
<1>3. CASE WatcherWakes
  BY <1>3 DEF WatcherWakes, UpdateInv, TypeOK, CheckInv, PackageInv, disk,
     memory, check
<1>4. CASE SpawnDaemon
  BY <1>4 DEF SpawnDaemon, UpdateInv, TypeOK, CheckInv, PackageInv, disk,
     memory, check
<1>5. CASE Publish
  BY <1>5 DEF Publish, UpdateInv, TypeOK, CheckInv, PackageInv, disk, memory,
     check
<1>6. CASE GetsCalm
  <2>1. calm' \in BOOLEAN
    BY <1>6 DEF GetsCalm
  <2> QED
    BY <1>6, <2>1 DEF GetsCalm, UpdateInv, TypeOK, CheckInv, PackageInv, disk,
       memory, check
<1>7. CASE UNCHANGED vars
  BY <1>7 DEF vars, UpdateInv, TypeOK, CheckInv, PackageInv, disk, memory, check
<1> QED
  BY <1>1, <1>2, <1>3, <1>4, <1>5, <1>6, <1>7, WrapperCheckInv, SolverCheckInv
  DEF Next, UpdaterStep

LEMMA UpdateInvAlways == Spec => []UpdateInv
BY InitInv, NextInv, PTL DEF Spec
-----------------------------------------------------------------------------
(* Where a process comes from.                                             *)

LEMMA InitBorn == Init => BornInv
BY NoneAssumption DEF Init, BornInv

\* A process that loads the package on the disk.
LEMMA BootBorn ==
  ASSUME NEW e, Boot(e), e \in Versions \ Broken => package >= e
  PROVE  BornInv'
BY DEF Boot, BornInv

LEMMA EndedBorn ==
  ASSUME NEW how, Ended(how)
  PROVE  BornInv'
BY NoneAssumption DEF Ended, BornInv

\* The check goes on, or the process mines.
LEMMA CheckedBorn ==
  ASSUME BornInv, UNCHANGED <<running, bornOf>>, just' \in {just, None},
         pc' \notin {"wrapper", "pip", "exec"}
  PROVE  BornInv'
BY DEF BornInv

LEMMA RaisesBorn ==
  ASSUME BornInv, NEW how, Raises(how)
  PROVE  BornInv'
<1>1. CASE up = "starting"
  BY <1>1, EndedBorn DEF Raises
<1>2. CASE up # "starting"
  BY <1>2, CheckedBorn DEF Raises, memory
<1> QED
  BY <1>1, <1>2

LEMMA WrapperReturnsBorn ==
  ASSUME BornInv, WrapperReturns, just' \in {just, None}
  PROVE  BornInv'
BY CheckedBorn DEF WrapperReturns

LEMMA WrapperCheckBorn ==
  ASSUME UpdateInv, BornInv, WrapperCheck
  PROVE  BornInv'
<1>1. CASE WrapperOptedOut \/ JustUpgraded \/ WrapperUpToDate
           \/ WrapperFetchFails \/ PipFails \/ WrapperExecFails
  <2>1. WrapperReturns /\ just' \in {just, None}
    BY <1>1 DEF WrapperOptedOut, JustUpgraded, WrapperUpToDate,
       WrapperFetchFails, PipFails, WrapperExecFails
  <2> QED
    BY <2>1, WrapperReturnsBorn
<1>2. CASE WrapperFetchBreaks
  BY <1>2, RaisesBorn DEF WrapperFetchBreaks, Breaks
<1>3. CASE WrapperOutdated
  BY <1>3 DEF WrapperOutdated, ChecksVersion, BornInv, memory, disk
<1>4. CASE PipInstalls
  BY <1>4 DEF PipInstalls, BornInv, memory, check, Loads
<1>5. CASE WrapperExec
  <2>1. package = Loads(seen.version) /\ seen.version \in Versions
    BY <1>5, ManifestTyped DEF WrapperExec, UpdateInv, CheckInv, BornInv
  <2>2. seen.version \in Versions \ Broken => package >= seen.version
    BY <2>1, VersionAssumption DEF Loads
  <2> QED
    BY <1>5, <2>2, BootBorn DEF WrapperExec
<1> QED
  BY <1>1, <1>2, <1>3, <1>4, <1>5 DEF WrapperCheck

LEMMA SolverCheckBorn ==
  ASSUME UpdateInv, BornInv, SolverCheck
  PROVE  BornInv'
<1>1. ASSUME NEW b, SolverReturns(b) PROVE BornInv'
  BY <1>1, CheckedBorn DEF SolverReturns, memory
<1>2. CASE SolverOptedOut \/ SolverFetchFails \/ NothingToInstall \/ InstallFails
           \/ Install
  BY <1>1, <1>2 DEF SolverOptedOut, SolverFetchFails, NothingToInstall,
     InstallFails, Install
<1>3. CASE SolverFetch \/ SolverReexecFails
  BY <1>3, CheckedBorn DEF SolverFetch, SolverReexecFails, memory
<1>4. CASE SolverFetchBreaks \/ DownloadBreaks
  BY <1>4, RaisesBorn DEF SolverFetchBreaks, DownloadBreaks, Breaks
<1>5. ASSUME NEW content, Download(content) PROVE BornInv'
  <2>1. CASE Downloaded
    BY <2>1, CheckedBorn DEF Downloaded, memory
  <2>2. CASE DownloadFailed
    BY <1>1, <2>2, RaisesBorn DEF DownloadFailed
  <2> QED
    BY <1>5, <2>1, <2>2 DEF Download
<1>6. CASE SolverReexec
  <2>1. just \in Versions \ Broken => package >= just
    <3>1. /\ running \in Nat /\ package \in Nat /\ package >= running
          /\ bornOf \in Versions => bornOf \in Nat
      BY VersionAssumption DEF UpdateInv, TypeOK, PackageInv
    <3> QED
      BY <3>1, NoneAssumption DEF BornInv
  <2> QED
    BY <1>6, <2>1, BootBorn DEF SolverReexec
<1> QED
  BY <1>2, <1>3, <1>4, <1>5, <1>6 DEF SolverCheck

LEMMA NextBorn ==
  ASSUME UpdateInv, BornInv, [Next]_vars
  PROVE  BornInv'
<1>1. CASE Start
  BY <1>1, NoneAssumption, BootBorn DEF Start
<1>2. CASE Crash
  BY <1>2, EndedBorn DEF Crash
<1>3. CASE WatcherWakes
  BY <1>3 DEF WatcherWakes, BornInv, memory
<1>4. CASE SpawnDaemon \/ Publish \/ GetsCalm \/ UNCHANGED vars
  BY <1>4 DEF SpawnDaemon, Publish, GetsCalm, vars, BornInv, memory, disk, check
<1> QED
  BY <1>1, <1>2, <1>3, <1>4, WrapperCheckBorn, SolverCheckBorn
  DEF Next, UpdaterStep

LEMMA BornInvAlways == Spec => [](UpdateInv /\ BornInv)
<1>1. UpdateInv /\ BornInv /\ [Next]_vars => BornInv'
  BY NextBorn
<1> QED
  BY InitBorn, UpdateInvAlways, <1>1, PTL DEF Spec

-----------------------------------------------------------------------------
(* Theorems.                                                               *)

\* The updaters and what they keep on the disk are well typed.
THEOREM TypeCorrect == Spec => []TypeOK
<1>1. UpdateInv => TypeOK
  BY DEF UpdateInv
<1> QED
  BY UpdateInvAlways, <1>1, PTL

\* A process that loads a version runs the package on the disk, which is no
\* older than what ran before: upgrades never take a miner back
\* (wrapper_updater.py:176).
THEOREM NeverDowngrades == Spec => NeverDowngraded
<1>1. UpdateInv /\ [Next]_vars => [running' >= running]_vars
  <2> SUFFICES ASSUME UpdateInv, [Next]_vars PROVE running' >= running \/ UNCHANGED vars
    OBVIOUS
  <2>1. running \in Nat /\ package >= running
    BY VersionAssumption DEF UpdateInv, TypeOK, PackageInv
  <2>2. running' \in {running, package} \/ UNCHANGED vars
    BY DEF Next, Start, Crash, UpdaterStep, WrapperCheck, SolverCheck,
       WatcherWakes, SpawnDaemon, Publish, GetsCalm, WrapperOptedOut,
       JustUpgraded, WrapperUpToDate, WrapperFetchFails, WrapperFetchBreaks,
       WrapperOutdated, PipInstalls, PipFails, WrapperExec, WrapperExecFails,
       SolverOptedOut, SolverFetch, SolverFetchFails, SolverFetchBreaks,
       NothingToInstall, DownloadBreaks, Download, Downloaded, DownloadFailed,
       Install, InstallFails, SolverReexec, SolverReexecFails, Boot, Ended,
       Raises, Breaks, WrapperReturns, SolverReturns, memory
  <2> QED
    BY <2>1, <2>2
<1> QED
  BY UpdateInvAlways, <1>1, PTL DEF Spec, NeverDowngraded

\* Whatever is downloaded, the solver file changes only to the build the
\* manifest of the same check names (solver_updater.py:200-217).
THEOREM InstallsNamed == Spec => InstallsWhatWasNamed
<1>1. UpdateInv /\ [Next]_vars => [binary' # binary => binary' = seen.build]_vars
  <2> SUFFICES ASSUME UpdateInv, [Next]_vars, binary' # binary
               PROVE  binary' = seen.build
    BY DEF vars, disk
  <2>1. Install
    BY DEF vars, Next, Start, Crash, UpdaterStep, WrapperCheck, SolverCheck,
       WatcherWakes, SpawnDaemon, Publish, GetsCalm, WrapperOptedOut,
       JustUpgraded, WrapperUpToDate, WrapperFetchFails, WrapperFetchBreaks,
       WrapperOutdated, PipInstalls, PipFails, WrapperExec, WrapperExecFails,
       SolverOptedOut, SolverFetch, SolverFetchFails, SolverFetchBreaks,
       NothingToInstall, DownloadBreaks, Download, Downloaded, DownloadFailed,
       InstallFails, SolverReexec, SolverReexecFails, Boot, Ended,
       Raises, Breaks, WrapperReturns, SolverReturns, disk
  <2> QED
    BY <2>1 DEF Install, SolverReturns, UpdateInv, CheckInv
<1> QED
  BY UpdateInvAlways, <1>1, PTL DEF Spec, InstallsWhatWasNamed

\* A start installs at most one upgrade before the miner mines: the guard in
\* the environment survives the exec, whatever the new release says its version
\* is (wrapper_updater.py:131-170).
THEOREM UpgradesOnce == Spec => UpgradesOnceAtStart
<1>1. UpdateInv /\ BornInv /\ [Next]_vars
      => [up = "starting" /\ pc = "pip" /\ pc' = "exec" => bornOf = None]_vars
  BY DEF BornInv
<1> QED
  BY <1>1, BornInvAlways, PTL DEF Spec, UpgradesOnceAtStart

\* A process installs the release that has started it again only if that
\* release does not bump its version.
THEOREM LoopsOnlyIfBroken == Spec => OnlyBrokenLoops
<1>1. UpdateInv /\ BornInv /\ [Next]_vars
      => [pc = "pip" /\ pc' = "exec" /\ seen.version = bornOf
            => bornOf \in Broken]_vars
  <2> SUFFICES ASSUME UpdateInv, BornInv, pc = "pip", seen.version = bornOf,
                      bornOf \notin Broken
               PROVE  FALSE
    OBVIOUS
  <2>1. bornOf \in Versions /\ bornOf > running
    BY ManifestTyped DEF UpdateInv, CheckInv
  <2>2. running >= bornOf
    BY <2>1 DEF BornInv
  <2>3. running \in Nat /\ bornOf \in Nat
    BY <2>1, VersionAssumption DEF UpdateInv, TypeOK
  <2> QED
    BY <2>1, <2>2, <2>3
<1> QED
  BY <1>1, BornInvAlways, PTL DEF Spec, OnlyBrokenLoops
=============================================================================
