----------------------------- MODULE AutoUpdate -----------------------------
(***************************************************************************)
(* How a miner keeps itself current: wrapper_updater.maybe_self_upgrade    *)
(* (the Python package) and solver_updater.maybe_update_solver (the solver *)
(* binary), run one after the other by main and _run at startup and by     *)
(* _solver_update_watcher while the miner mines.                           *)
(*                                                                         *)
(* A version and a solver build are numbered in the order they were made.  *)
(* The SHA256 of a file is its content: a build, or Torn for any other     *)
(* bytes.  pip, the download and the channel are external.  The mode and   *)
(* the rename of _install_atomic are one step; the backup it makes before  *)
(* them is read by nothing and left out.                                   *)
(***************************************************************************)
EXTENDS Naturals

CONSTANTS Versions,   \* releases of the wrapper
          Broken,     \* those whose tarball still says the version before
          Builds,     \* builds of the solver
          Torn,       \* what a bad download contains
          Manifests,  \* what the channel may publish
          None        \* Python's None

ASSUME VersionAssumption == /\ Versions \subseteq Nat \ {0}
                            /\ Broken \subseteq Versions
                            /\ \A v \in Broken : v - 1 \in Versions
ASSUME BuildAssumption == Builds \subseteq Nat /\ Torn \notin Builds
ASSUME NoneAssumption == None \notin Versions \cup Builds /\ None \notin Manifests

\* A manifest's entry for this platform: build is None when it has no valid
\* sha256 or url, floor when it has no min_required_sha256.
ASSUME ManifestAssumption ==
  Manifests \subseteq [version : Versions, build : Builds \cup {None},
                       floor : Builds \cup {None}]

VARIABLES
  published,   \* the manifest at manifest_url
  up,          \* the process: starting or mining; else how it ended
  pc,          \* where its updater is; "idle": between two checks
  running,     \* the __version__ it loaded
  package,     \* the version the installed package would load
  just,        \* DEXBTX_WRAPPER_JUST_UPGRADED in its environment
  bornOf,      \* history: the upgrade whose exec started it
  optOut,      \* the updaters its environment disables
  seen,        \* the manifest the check under way fetched
  before,      \* the watcher's local of that name
  tmp,         \* the verified download
  binary,      \* the file at gbt_solve_path
  daemon,      \* the build the solver daemon runs
  calm         \* from here on nothing fails and nothing is published

disk == <<package, binary>>
memory == <<running, just, bornOf, optOut>>
check == <<seen, before, tmp>>
vars == <<published, up, pc, disk, memory, check, daemon, calm>>

TypeOK ==
  /\ published \in Manifests
  /\ up \in {"off", "starting", "mining", "refused", "died"}
  /\ pc \in {"idle", "wrapper", "pip", "exec", "solver", "resolve",
             "install", "reexec"}
  /\ {running, package} \subseteq Versions
  /\ {just, bornOf} \subseteq Versions \cup {None}
  /\ optOut \subseteq {"wrapper", "solver", "recheck"}
  /\ seen \in Manifests \cup {None}
  /\ {before, tmp, binary, daemon} \subseteq Builds \cup {None}
  /\ calm \in BOOLEAN

Init ==
  /\ published \in Manifests
  /\ up = "off" /\ pc = "idle"
  /\ package \in Versions /\ running = package
  /\ optOut \in SUBSET {"wrapper", "solver", "recheck"}
  /\ just = None /\ bornOf = None
  /\ seen = None /\ before = None /\ tmp = None
  /\ binary \in Builds \cup {None}
  /\ daemon = None
  /\ calm = FALSE
-----------------------------------------------------------------------------
\* A fresh interpreter on the installed package: start, and os.execvpe.
\* The daemon of the image it replaces loses its stdin and goes.
Boot(environ) ==
  /\ up' = "starting" /\ pc' = "wrapper"
  /\ running' = package
  /\ just' = environ /\ bornOf' = environ
  /\ seen' = None /\ before' = None /\ tmp' = None
  /\ daemon' = None
  /\ UNCHANGED <<published, disk, optOut, calm>>

Start == up \in {"off", "refused", "died"} /\ Boot(None)

\* The process ends; only the disk remains.
Ended(how) ==
  /\ up' = how /\ pc' = "idle"
  /\ just' = None /\ bornOf' = None
  /\ seen' = None /\ before' = None /\ tmp' = None
  /\ daemon' = None
  /\ UNCHANGED <<published, disk, running, optOut, calm>>

Crash == up \in {"starting", "mining"} /\ ~calm /\ Ended("off")

\* A check ends in an exception: startup does not survive it, the watcher
\* logs it and waits for its next cycle.
Raises(how) ==
  IF up = "starting"
  THEN Ended(how)
  ELSE /\ pc' = "idle"
       /\ seen' = None /\ before' = None /\ tmp' = None
       /\ UNCHANGED <<published, up, disk, memory, daemon, calm>>

\* One that the updaters do not expect: a truncated response raises
\* IncompleteRead, which is no OSError; mkdir and mkstemp stand outside try.
Breaks == ~calm /\ Raises("died")
-----------------------------------------------------------------------------
(* maybe_self_upgrade.                                                     *)

\* It returns; main goes on to _run, the watcher to the solver.
WrapperReturns ==
  /\ pc' = "solver"
  /\ before' = IF up = "mining" THEN binary ELSE None
  /\ seen' = None
  /\ UNCHANGED <<published, up, binary, running, bornOf, optOut, tmp, daemon,
                 calm>>

WrapperOptedOut ==
  /\ pc = "wrapper" /\ "wrapper" \in optOut
  /\ WrapperReturns
  /\ UNCHANGED <<package, just>>

\* Mutant: before v0.4.9, the guard held for an upgrade that had caught up.
JustUpgradedIfConfirmed ==
  /\ pc = "wrapper" /\ "wrapper" \notin optOut
  /\ just # None
  /\ just' = None
  /\ IF just <= running
     THEN WrapperReturns /\ UNCHANGED package
     ELSE UNCHANGED <<published, up, pc, disk, running, bornOf, optOut, check,
                      daemon, calm>>

\* The loop guard: no upgrade in the process an upgrade has started, whether
\* or not its version caught up.
JustUpgraded ==
  /\ pc = "wrapper" /\ "wrapper" \notin optOut
  /\ just # None
  /\ just' = None
  /\ WrapperReturns
  /\ UNCHANGED package

ChecksVersion == pc = "wrapper" /\ "wrapper" \notin optOut /\ just = None

WrapperUpToDate ==
  /\ ChecksVersion
  /\ published.version <= running
  /\ WrapperReturns
  /\ UNCHANGED <<package, just>>

WrapperFetchFails ==
  /\ ChecksVersion /\ ~calm
  /\ WrapperReturns
  /\ UNCHANGED <<package, just>>

WrapperFetchBreaks == ChecksVersion /\ Breaks

\* Mutant: any other version is taken for a newer one.
WrapperDiffers ==
  /\ ChecksVersion
  /\ published.version # running
  /\ seen' = published
  /\ pc' = "pip"
  /\ UNCHANGED <<published, up, disk, memory, before, tmp, daemon, calm>>

\* Mutant: the published version is taken for a newer one when it is the same.
WrapperNotNewer ==
  /\ ChecksVersion
  /\ published.version >= running
  /\ seen' = published
  /\ pc' = "pip"
  /\ UNCHANGED <<published, up, disk, memory, before, tmp, daemon, calm>>

WrapperOutdated ==
  /\ ChecksVersion
  /\ published.version > running
  /\ seen' = published
  /\ pc' = "pip"
  /\ UNCHANGED <<published, up, disk, memory, before, tmp, daemon, calm>>

\* The version the tarball of release v loads.
Loads(v) == IF v \in Broken THEN v - 1 ELSE v

PipInstalls ==
  /\ pc = "pip"
  /\ package' = Loads(seen.version)
  /\ pc' = "exec"
  /\ UNCHANGED <<published, up, binary, memory, check, daemon, calm>>

\* It exits with an error or is killed at the timeout, before or after it
\* replaced the package.
PipFails ==
  /\ pc = "pip" /\ ~calm
  /\ package' \in {package, Loads(seen.version)}
  /\ WrapperReturns
  /\ UNCHANGED just

WrapperExec == pc = "exec" /\ Boot(seen.version)

WrapperExecFails ==
  /\ pc = "exec" /\ ~calm
  /\ WrapperReturns
  /\ UNCHANGED <<package, just>>
-----------------------------------------------------------------------------
(* maybe_update_solver.                                                    *)

\* It returns with the solver build b in place: the miner starts, or the
\* watcher compares the file with what it was before the check.
SolverReturns(b) ==
  /\ up' = "mining"
  /\ pc' = IF up = "mining" /\ None \notin {before, b} /\ before # b
           THEN "reexec" ELSE "idle"
  /\ binary' = b
  /\ seen' = None /\ before' = None /\ tmp' = None
  /\ UNCHANGED <<published, package, memory, daemon, calm>>

SolverOptedOut ==
  /\ pc = "solver" /\ "solver" \in optOut
  /\ SolverReturns(binary)

SolverFetch ==
  /\ pc = "solver" /\ "solver" \notin optOut
  /\ seen' = published
  /\ pc' = "resolve"
  /\ UNCHANGED <<published, up, disk, memory, before, tmp, daemon, calm>>

SolverFetchFails ==
  /\ pc = "solver" /\ "solver" \notin optOut /\ ~calm
  /\ SolverReturns(binary)

SolverFetchBreaks == pc = "solver" /\ "solver" \notin optOut /\ Breaks

NothingToInstall ==
  /\ pc = "resolve"
  /\ seen.build \in {None, binary}
  /\ SolverReturns(binary)

Outdated == pc = "resolve" /\ seen.build \notin {None, binary}

Downloaded ==
  /\ tmp' = seen.build
  /\ pc' = "install"
  /\ UNCHANGED <<published, up, disk, memory, seen, before, daemon, calm>>

\* No complete download with the right SHA: the miner keeps the build it
\* has, unless the floor is another one.
DownloadFailed ==
  IF seen.floor \in {None, binary} THEN SolverReturns(binary)
                                   ELSE Raises("refused")

\* Mutant: the download is not verified.
DownloadUnverified(content) ==
  /\ Outdated
  /\ tmp' = content
  /\ pc' = "install"
  /\ UNCHANGED <<published, up, disk, memory, seen, before, daemon, calm>>

\* Mutant: it is verified against what the channel says by then.
DownloadOfTheDay(content) ==
  /\ Outdated
  /\ IF content = published.build
     THEN /\ tmp' = content
          /\ pc' = "install"
          /\ UNCHANGED <<published, up, disk, memory, seen, before, daemon, calm>>
     ELSE ~calm /\ DownloadFailed

\* What arrives, when it arrives, is any file.
Download(content) ==
  /\ Outdated
  /\ IF content = seen.build THEN Downloaded ELSE ~calm /\ DownloadFailed

DownloadBreaks == Outdated /\ Breaks

Install ==
  /\ pc = "install"
  /\ SolverReturns(tmp)

InstallFails ==
  /\ pc = "install" /\ ~calm
  /\ SolverReturns(binary)

SolverReexec == pc = "reexec" /\ Boot(just)

SolverReexecFails ==
  /\ pc = "reexec" /\ ~calm
  /\ pc' = "idle"
  /\ UNCHANGED <<published, up, disk, memory, check, daemon, calm>>
-----------------------------------------------------------------------------
\* Mutant: before v0.4.19, the watcher checked the solver only.
WatcherChecksSolver ==
  /\ up = "mining" /\ pc = "idle" /\ "recheck" \notin optOut
  /\ pc' = "solver" /\ before' = binary
  /\ UNCHANGED <<published, up, disk, memory, seen, tmp, daemon, calm>>

\* solver_recheck_interval_secs have passed.
WatcherWakes ==
  /\ up = "mining" /\ pc = "idle" /\ "recheck" \notin optOut
  /\ pc' = "wrapper"
  /\ UNCHANGED <<published, up, disk, memory, check, daemon, calm>>

\* The slices of GbtSolveWrapper start the daemon they find missing, and
\* replace it after a crash or a bounce.
SpawnDaemon ==
  /\ up = "mining" /\ binary # None
  /\ daemon = None \/ (daemon # binary /\ ~calm)
  /\ daemon' = binary
  /\ UNCHANGED <<published, up, pc, disk, memory, check, calm>>

Publish ==
  /\ ~calm
  /\ published' \in Manifests \ {published}
  /\ UNCHANGED <<up, pc, disk, memory, check, daemon, calm>>

GetsCalm ==
  /\ ~calm /\ calm' = TRUE
  /\ UNCHANGED <<published, up, pc, disk, memory, check, daemon>>

WrapperCheck ==
  \/ WrapperOptedOut \/ JustUpgraded \/ WrapperUpToDate \/ WrapperFetchFails
  \/ WrapperFetchBreaks \/ WrapperOutdated \/ PipInstalls \/ PipFails
  \/ WrapperExec \/ WrapperExecFails

SolverCheck ==
  \/ SolverOptedOut \/ SolverFetch \/ SolverFetchFails \/ SolverFetchBreaks
  \/ NothingToInstall \/ DownloadBreaks
  \/ \E content \in Builds \cup {Torn} : Download(content)
  \/ Install \/ InstallFails \/ SolverReexec \/ SolverReexecFails

UpdaterStep == WrapperCheck \/ SolverCheck \/ WatcherWakes

Next == Start \/ Crash \/ UpdaterStep \/ SpawnDaemon \/ Publish \/ GetsCalm

Spec == Init /\ [][Next]_vars

\* Every await and every blocking call of the updaters has a timeout, slices
\* keep coming while the miner runs, and a supervisor restarts the process.
FairSpec == Spec /\ WF_vars(UpdaterStep) /\ WF_vars(SpawnDaemon) /\ WF_vars(Start)
-----------------------------------------------------------------------------
(* Properties.                                                             *)

\* The solver file only ever changes to the complete build that the manifest
\* fetched in the same check names, whatever the download delivered, the
\* channel published meanwhile, or wherever the process died
\* (solver_updater.py:200-217).
InstallsWhatWasNamed == [][binary' # binary => binary' = seen.build]_vars

\* Upgrades never take a miner to an older version than the one it ran
\* before, whatever the channel publishes and whether or not pip's and
\* exec's failures left another package on the disk
\* (wrapper_updater.py:176).
NeverDowngraded == [][running' >= running]_vars

\* The loop guard: between one start of the miner and its mining at most one
\* upgrade is installed, whatever the releases on the channel load as
\* (wrapper_updater.py:131-170).
UpgradesOnceAtStart ==
  [][up = "starting" /\ pc = "pip" /\ pc' = "exec" => bornOf = None]_vars

\* The process a release has started installs that release again only if the
\* release does not bump its version, however the channel goes back and forth
\* in between. (Restarts for a new solver are another matter: the process they
\* start is not born of a release, and a channel whose builds alternate
\* restarts a miner at every check.)
OnlyBrokenLoops ==
  [][pc = "pip" /\ pc' = "exec" /\ seen.version = bornOf => bornOf \in Broken]_vars

\* A process that starts gets past the updaters, even when the published
\* release is broken (wrapper_updater.py:139-153).
GetsPastUpdaters == up = "starting" ~> up # "starting"

\* Once the channel rests and nothing fails, a long-running miner ends up on
\* the published wrapper and solver (__main__.py:128-137).  Not when the
\* exec that was to load a new solver has failed: no later cycle sees a
\* difference.
Current ==
  /\ up = "mining"
  /\ running >= published.version
  /\ binary = published.build /\ daemon = binary

Converges ==
  [](/\ calm /\ optOut = {}
     /\ published.version \notin Broken /\ published.build # None
     /\ daemon \in {None, binary}
     => <>[]Current)
-----------------------------------------------------------------------------
(* A statement of the comments the code does not meet.                     *)

\* "a broken release can't infinite-loop the operator's process"
\* (wrapper_updater.py:21): the process that release v started does not
\* install v again.
NoUpgradeLoop == [][pc = "pip" /\ pc' = "exec" => seen.version # bornOf]_vars
=============================================================================
