------------------------------ MODULE MCJobRun ------------------------------
EXTENDS JobRun

\* A plain job, and what the jobs below change in it.
Plain ==
  [GIT_STRATEGY |-> "", AllowGitFetch |-> TRUE, GIT_CHECKOUT |-> "",
   GIT_SUBMODULE_STRATEGY |-> "", GIT_CLEAN_FLAGS |-> "", GIT_LFS_SKIP_SMUDGE |-> TRUE,
   preScripts |-> FALSE, helper |-> TRUE, cache |-> {}, dependencies |-> FALSE,
   afterScript |-> FALSE, artifacts |-> {}, attempts |-> 1, service |-> FALSE,
   nocache |-> FALSE, legacyOrder |-> FALSE,
   snapshots |-> FALSE, credentials |-> FALSE, ports |-> FALSE, shell |-> "bash"]

Full ==
  [Plain EXCEPT !.GIT_SUBMODULE_STRATEGY = "recursive", !.GIT_LFS_SKIP_SMUDGE = FALSE,
                !.preScripts = TRUE, !.cache = {"pull", "push"}, !.dependencies = TRUE,
                !.afterScript = TRUE, !.artifacts = {"on_success"}, !.attempts = 2]

MCKinds == {"shell", "ssh", "docker", "docker-ssh", "kubernetes", "virtualbox", "parallels"}

\* A job that takes no sources has the shortest scripts.
Short == [Plain EXCEPT !.GIT_STRATEGY = "none"]

MCJobsOf(k) ==
  CASE k = "shell" ->
         {Full, [Plain EXCEPT !.preScripts = TRUE, !.GIT_STRATEGY = "clone"],
          [Plain EXCEPT !.GIT_STRATEGY = "clone", !.artifacts = {"on_failure"}, !.shell = "cmd"],
          [Plain EXCEPT !.GIT_SUBMODULE_STRATEGY = "other", !.artifacts = {"always"}],
          [Short EXCEPT !.helper = FALSE, !.shell = "powershell"], [Short EXCEPT !.attempts = 11]}
    [] k = "docker" -> {[Plain EXCEPT !.service = TRUE]}
    [] k = "docker-ssh" -> {[Short EXCEPT !.nocache = TRUE, !.service = s, !.legacyOrder = s] : s \in BOOLEAN}
    [] k = "kubernetes" -> {[Short EXCEPT !.credentials = s, !.ports = s] : s \in BOOLEAN}
    [] k \in {"virtualbox", "parallels"} -> {[Short EXCEPT !.snapshots = s] : s \in BOOLEAN}
    [] OTHER -> {Plain}

\* Where a job leaves something the next one uses, a second job follows.
MCMaxJobs(k) == IF k \in {"shell", "docker", "virtualbox"} THEN 2 ELSE 1
=============================================================================
