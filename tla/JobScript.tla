----------------------------- MODULE JobScript -----------------------------
(***************************************************************************)
(* The scripts the runner generates for the stages of a job                *)
(* (shells/abstract.go, with the job variables read in common/build.go),   *)
(* and what running them does to the job's working directory.              *)
(*                                                                         *)
(* A script is a sequence of commands.  A command is FATAL when its        *)
(* failure ends the script; the commands written inside IfCmdWithOutput    *)
(* are not, and which others are depends on the shell.  The text of a      *)
(* command is left out: a command is named for what it does.               *)
(***************************************************************************)
EXTENDS Naturals, Sequences

Stages == <<"Prepare", "GetSources", "RestoreCache", "DownloadArtifacts", "UserScript",
            "AfterScript", "ArchiveCache", "UploadOnSuccess", "UploadOnFailure">>

Fatal(c)    == << [do |-> c, fatal |-> TRUE] >>
NonFatal(c) == << [do |-> c, fatal |-> FALSE] >>
When(b, commands) == IF b THEN commands ELSE <<>>

\* --- The shells ---------------------------------------------------------------
\* MkDir, RmDir and RmFile are commands like others for bash.  The scripts for cmd
\* and PowerShell do not look at how they end.
bashMkRm(c) == Fatal(c)
cmdMkRm(c)  == NonFatal(c)
psMkRm(c)   == NonFatal(c)
MkRm(job, c) ==
  CASE job.shell = "bash" -> bashMkRm(c) [] job.shell = "cmd" -> cmdMkRm(c)
    [] job.shell = "powershell" -> psMkRm(c)

\* How a script ends when a fatal command fails.  bash runs under set -e, cmd exits
\* with the errorlevel.  PowerShell exits with $LASTEXITCODE, which is that of the last
\* program: after a cmdlet (a cd, or one of the job's own) it may be 0.
bashExits(c) == {"fail"}
cmdExits(c)  == {"fail"}
psExits(c) ==
  IF c \in {"cd", "init", "script", "pre_clone_script", "pre_build_script", "after_script"}
  THEN {"fail", "ok"} ELSE {"fail"}
Exits(job, c) ==
  CASE job.shell = "bash" -> bashExits(c) [] job.shell = "cmd" -> cmdExits(c)
    [] job.shell = "powershell" -> psExits(c)

\* --- What the job's variables ask for (an unset variable is "") -------------
GetGitStrategy(job) ==
  IF job.GIT_STRATEGY \in {"clone", "fetch", "none"} THEN job.GIT_STRATEGY
  ELSE IF job.AllowGitFetch THEN "fetch" ELSE "clone"

\* A value that ParseBool refuses counts as true.
GetGitCheckout(job) == GetGitStrategy(job) # "none" /\ job.GIT_CHECKOUT # "false"

GetSubmoduleStrategy(job) ==
  IF GetGitStrategy(job) = "none" \/ job.GIT_SUBMODULE_STRATEGY = "" THEN "none"
  ELSE IF job.GIT_SUBMODULE_STRATEGY \in {"normal", "recursive", "none"}
       THEN job.GIT_SUBMODULE_STRATEGY ELSE "invalid"

GetGitCleanFlags(job) == job.GIT_CLEAN_FLAGS # "none"

\* --- The commands of the stages ----------------------------------------------
\* git init, and cd; the lock files a killed git left behind are removed before the
\* first command that needs them; then the fetch itself.
\* Variant of writeRefspecFetchCmd: the clean-up of the locks is forgotten.
FetchWithoutCleanup(job) == Fatal("init") \o Fatal("fetch")
writeGitCleanup(job) == MkRm(job, "remove locks")
writeRefspecFetchCmd(job) == Fatal("init") \o writeGitCleanup(job) \o Fatal("fetch")

writeCheckoutCmd(job) == Fatal("checkout") \o When(GetGitCleanFlags(job), Fatal("clean"))

writeSubmoduleUpdateCmd(job) ==
  Fatal("sync submodules") \o Fatal("clean submodules") \o Fatal("update submodules")
    \o When(~job.GIT_LFS_SKIP_SMUDGE, Fatal("lfs"))

handleGetSourcesStrategy(job) ==
  CASE GetGitStrategy(job) = "fetch" -> writeRefspecFetchCmd(job)
    [] GetGitStrategy(job) = "clone" -> MkRm(job, "remove directory") \o writeRefspecFetchCmd(job)
    [] GetGitStrategy(job) = "none"  -> MkRm(job, "make directory")

writeCloneFetchCmds(job) ==
  handleGetSourcesStrategy(job)
    \o When(GetGitCheckout(job),
            writeCheckoutCmd(job) \o When(~job.GIT_LFS_SKIP_SMUDGE, Fatal("lfs")))

writeSubmoduleUpdateCmds(job) ==
  When(GetSubmoduleStrategy(job) \in {"normal", "recursive"}, writeSubmoduleUpdateCmd(job))

writeGetSourcesScript(job) ==
  When(job.preScripts /\ GetGitStrategy(job) # "none", Fatal("pre_clone_script"))
    \o writeCloneFetchCmds(job) \o writeSubmoduleUpdateCmds(job)

\* The runner's own commands need the helper binary where the script runs;
\* without it the block is skipped with a warning and the script goes on.
guardRunnerCommand(job, commands) == When(job.helper, commands)

cacheExtractor(job) ==
  When("pull" \in job.cache, guardRunnerCommand(job, NonFatal("cache-extractor")))
writeRestoreCacheScript(job) == Fatal("cd") \o cacheExtractor(job)

downloadAllArtifacts(job) ==
  When(job.dependencies, guardRunnerCommand(job, Fatal("artifacts-downloader")))
writeDownloadArtifactsScript(job) == Fatal("cd") \o downloadAllArtifacts(job)

writeUserScript(job) ==
  Fatal("cd") \o When(job.preScripts, Fatal("pre_build_script")) \o Fatal("script")

writeAfterScript(job) == When(job.afterScript, Fatal("cd") \o Fatal("after_script"))

cacheArchiver(job) ==
  When("push" \in job.cache, guardRunnerCommand(job, NonFatal("cache-archiver")))
writeArchiveCacheScript(job) == Fatal("cd") \o cacheArchiver(job)

\* The job's artifacts are the set of their "when" values.
OnSuccess == {"on_success", "always"}
OnFailure == {"on_failure", "always"}
\* Variant of writeUploadArtifacts: the "when" of an artifact is not looked at.
UploadWhatever(job, onSuccess) ==
  Fatal("cd") \o When(job.artifacts # {}, guardRunnerCommand(job, Fatal("artifacts-uploader")))
writeUploadArtifacts(job, onSuccess) ==
  Fatal("cd")
    \o When(job.artifacts \cap (IF onSuccess THEN OnSuccess ELSE OnFailure) # {},
            guardRunnerCommand(job, Fatal("artifacts-uploader")))

\* The script of a stage.  Prepare only greets (shells/bash.go).
writeScript(job, stage) ==
  CASE stage = "Prepare"           -> Fatal("hello")
    [] stage = "GetSources"        -> writeGetSourcesScript(job)
    [] stage = "RestoreCache"      -> writeRestoreCacheScript(job)
    [] stage = "DownloadArtifacts" -> writeDownloadArtifactsScript(job)
    [] stage = "UserScript"        -> writeUserScript(job)
    [] stage = "AfterScript"       -> writeAfterScript(job)
    [] stage = "ArchiveCache"      -> writeArchiveCacheScript(job)
    [] stage = "UploadOnSuccess"   -> writeUploadArtifacts(job, TRUE)
    [] stage = "UploadOnFailure"   -> writeUploadArtifacts(job, FALSE)

\* Generating the script itself fails for an unknown submodule strategy.
GenerateScriptFails(job, stage) ==
  stage = "GetSources" /\ GetSubmoduleStrategy(job) = "invalid"

\* --- The working directory -----------------------------------------------------
\* src: which sources are checked out ("half" when a checkout or a removal was
\* cut short); tidy: no files of an earlier job are left; lock: git's lock files
\* are there; built: the job's script has run to its end; deps: the artifacts of
\* the jobs this one depends on are there; stuck: a removal failed and nobody noticed.
NoSources == [src |-> "none", tidy |-> TRUE, lock |-> FALSE, built |-> FALSE, deps |-> FALSE,
              stuck |-> FALSE]

\* What a command whose failure is not looked at leaves when it fails.
Unnoticed(c, ws) ==
  CASE c = "remove directory" -> {[ws EXCEPT !.stuck = TRUE], [ws EXCEPT !.stuck = TRUE, !.src = "half"]}
    [] c = "remove locks"     -> {[ws EXCEPT !.stuck = TRUE]}
    [] OTHER                  -> {ws}

\* What a command that succeeds leaves.
Effect(c, ws) ==
  CASE c = "remove directory"     -> [ws EXCEPT !.src = "none", !.tidy = TRUE, !.lock = FALSE]
    [] c = "remove locks"         -> [ws EXCEPT !.lock = FALSE]
    [] c = "checkout"             -> [ws EXCEPT !.src = "sha"]
    [] c = "clean"                -> [ws EXCEPT !.tidy = TRUE]
    [] c = "artifacts-downloader" -> [ws EXCEPT !.deps = TRUE]
    [] c = "script"               -> [ws EXCEPT !.built = TRUE, !.tidy = FALSE]
    [] OTHER                      -> ws

\* git refuses to fetch or to check out while a lock file exists.
NeedsLock == {"fetch", "checkout"}

\* What a command leaves when the process is killed in the middle of it: git's
\* commands, and the job's own, may leave a lock; a checkout or a removal may
\* be half done.
KilledIn(c, ws) ==
  CASE c \in {"checkout", "remove directory"} ->
         {ws, [ws EXCEPT !.src = "half"], [ws EXCEPT !.src = "half", !.lock = TRUE]}
    [] c \in {"fetch", "script"} -> {ws, [ws EXCEPT !.lock = TRUE]}
    [] OTHER -> {ws}

\* The directory as the next job of the slot finds it.
ForNextJob(ws) ==
  [ws EXCEPT !.src = IF @ = "sha" THEN "old" ELSE @, !.tidy = @ /\ ws.src = "none",
             !.built = FALSE, !.deps = FALSE, !.stuck = FALSE]
=============================================================================
