--------------------------- MODULE DockerExecutor ---------------------------
(***************************************************************************)
(* The docker and docker-ssh executors (executors/docker and its volumes   *)
(* package).  Containers are known by their role: "cache" and "builds"     *)
(* hold volumes, "service" is the job's service, "wait" its health check,  *)
(* "build" runs the job's script, "predefined" stands for the helper       *)
(* containers of the other stages.  Their names are made from the runner,  *)
(* the project and the slot, so that the next job of the slot meets what   *)
(* an earlier one left.                                                    *)
(*                                                                         *)
(* Every call of the daemon outside Cleanup is made under the job's        *)
(* context: once that has ended they all fail.  A create may be carried    *)
(* out although the runner gets an error; the container is then "lost".    *)
(***************************************************************************)
EXTENDS Executor

IsDocker == kind \in {"docker", "docker-ssh"}

\* --- Prepare ------------------------------------------------------------------
connectDocker == IsDocker /\ Attempt("Prepare", "begin", Live, "buildsDir", {"build", "system"})
prepareBuildsDir ==
  IsDocker /\ Attempt("Prepare", "buildsDir", TRUE, "shell", {"build", "system"})
dockerPrepare == IsDocker /\ PrepareBuildAndShell("shell", "imageName")
expandImageName == IsDocker /\ Attempt("Prepare", "imageName", TRUE, "devices", {"system"})

\* What is set up, in this order; the old order is kept under a feature flag.
createDependencies ==
  IF job.legacyOrder THEN <<"devices", "manager", "buildVolume", "services", "volumes", "images">>
  ELSE <<"devices", "manager", "volumes", "buildVolume", "services", "images">>
After(l) == LET i == CHOOSE i \in 1..5 : createDependencies[i] = l IN createDependencies[i + 1]

bindDevices == IsDocker /\ Attempt("Prepare", "devices", TRUE, After("devices"), {"system"})

\* An image: the local one when the policy allows it, or else the registry's.
\* That there is none is the job's fault when it was asked for.
getDockerImage(op, l, next, pull) == Attempt(op, l, Live, next, {"system"}) \/
  (Live /\ At(op, l) /\ Goto(pull) /\ UNCHANGED <<resources, scripts>>)
pullDockerImage(op, l, next) == Attempt(op, l, Live, next, {"build", "system"})

\* The helper image, for the volumes manager: configured, there, loaded from the
\* runner's files, or pulled.
createVolumesManager == IsDocker /\ getDockerImage("Prepare", "manager", After("manager"), "pullHelper")
getPrebuiltImage == IsDocker /\ pullDockerImage("Prepare", "pullHelper", After("manager"))

\* A volume kept in a container: the one of that name, unless it is broken (it
\* is removed then) ...
FindOrCleanExisting(name, temporary, next) ==
  /\ Live /\ name \in outside
  /\ mine' = mine \cup (IF temporary THEN {name} ELSE {})
  /\ Goto(next) /\ UNCHANGED <<outside, lost, ws>>
\* ... or a new one, which is started once to set it up.  Those that could not be
\* set up are removed by Cleanup, and so are temporary ones.
createCacheContainer(name, temporary, next) ==
  LET fresh == IF name = "builds" THEN NoSources ELSE ws
  IN  \/ /\ Live /\ ws' = fresh
         /\ outside' = outside \cup {name} /\ lost' = lost \ {name}
         /\ \/ mine' = mine \cup (IF temporary THEN {name} ELSE {}) /\ Goto(next)
            \/ mine' = mine \cup {name} /\ Return("system")
      \/ Return("system") /\ UNCHANGED <<outside, lost, mine, ws>>
      \/ /\ Live /\ name \notin outside
         /\ outside' = outside \cup {name} /\ lost' = lost \cup {name}
         /\ ws' = fresh /\ Return("system") /\ UNCHANGED mine
createContainerBasedCacheVolume(l, name, temporary) ==
  /\ At("Prepare", l)
  /\ FindOrCleanExisting(name, temporary, After(l)) \/ createCacheContainer(name, temporary, After(l))
  /\ UNCHANGED <<ready, exit, procs>>

\* Without cache volumes (disable_cache) the user's volumes are left out.
createVolumes ==
  /\ IsDocker
  /\ IF job.nocache
     THEN At("Prepare", "volumes") /\ Goto(After("volumes")) /\ UNCHANGED <<resources, scripts>>
     ELSE createContainerBasedCacheVolume("volumes", "cache", FALSE)

\* The sources are kept between jobs only when they are to be fetched.
createBuildVolume ==
  /\ IsDocker
  /\ createContainerBasedCacheVolume("buildVolume", "builds",
       GetGitStrategy(job) # "fetch" \/ job.nocache)

createServices ==
  /\ IsDocker /\ At("Prepare", "services")
  /\ \/ ~job.service /\ Goto(After("services"))
     \/ job.service /\ Goto("service")
     \/ job.service /\ Return("system") \* a service that is not allowed
  /\ UNCHANGED <<resources, scripts>>

\* A container of this name is removed first, whatever comes of it.  The new one
\* is remembered when it was started, and also when starting it failed.
\* Variant of createService: a service that does not start is forgotten.
createServiceForgets ==
  /\ IsDocker /\ At("Prepare", "service")
  /\ \/ /\ Live
        /\ outside' = outside \cup {"service"} /\ lost' = lost \ {"service"}
        /\ \/ mine' = mine \cup {"service"} /\ Goto("health")
           \/ UNCHANGED mine /\ Return("system")
     \/ (\E e \in {"build", "system"} : Return(e)) /\ UNCHANGED <<outside, lost, mine>>
  /\ UNCHANGED <<ready, scripts>>
createService ==
  /\ IsDocker /\ At("Prepare", "service")
  /\ \/ /\ Live
        /\ outside' = outside \cup {"service"} /\ lost' = lost \ {"service"}
        /\ mine' = mine \cup {"service"}
        /\ (Goto("health") \/ Return("system"))
     \/ /\ \E e \in {"build", "system"} : Return(e)
        /\ outside' \in {outside} \cup (IF Live THEN {outside \ {"service"}} ELSE {})
        /\ UNCHANGED <<lost, mine>>
     \/ /\ Live
        /\ outside' = outside \cup {"service"} /\ lost' = lost \cup {"service"}
        /\ Return("system") /\ UNCHANGED mine
  /\ UNCHANGED <<ready, scripts>>

\* The health check has a container of its own.  Whatever goes wrong here is
\* only a warning; the name is not freed first.
runServiceHealthCheckContainer ==
  /\ IsDocker /\ At("Prepare", "health")
  /\ \/ /\ Live /\ "wait" \notin outside
        /\ outside' = outside \cup {"wait"}
        /\ \/ UNCHANGED lost /\ Goto("healthy")
           \/ lost' = lost \cup {"wait"} /\ Goto(After("services"))
     \/ Goto(After("services")) /\ UNCHANGED <<outside, lost>>
  /\ UNCHANGED <<mine, ready, scripts>>

\* It is removed when the check ends, under the job's context.
waitForServiceContainer ==
  /\ IsDocker /\ At("Prepare", "healthy") /\ Goto(After("services"))
  /\ \/ Live /\ outside' = outside \ {"wait"} /\ UNCHANGED lost
     \/ Live /\ lost' = lost \cup {"wait"} /\ UNCHANGED outside
     \/ ~Live /\ UNCHANGED <<outside, lost>>
  /\ UNCHANGED <<mine, ready, scripts>>

\* The image of the job.  (The helper image is known to be there by now.)
getBuildImage ==
  /\ kind = "docker"
  /\ \/ getDockerImage("Prepare", "images", "prepared", "pullImage")
     \/ pullDockerImage("Prepare", "pullImage", "prepared")
commandPrepared ==
  kind = "docker" /\ At("Prepare", "prepared") /\ Return("none") /\ UNCHANGED <<resources, scripts>>

\* --- Containers that run scripts --------------------------------------------------
\* One of the same name is removed first, with what it runs.  A container is
\* remembered as soon as its ID is known.
Freed(name) == procs' = {p \in procs : p.in # name}
createContainer(op, l, name, then) ==
  /\ At(op, l)
  /\ \/ /\ Live /\ Freed(name)
        /\ outside' = outside \cup {name} /\ mine' = mine \cup {name} /\ lost' = lost \ {name}
        /\ \/ Goto(then) /\ ready' = (ready \/ name = "build")
           \/ Return("system") /\ UNCHANGED ready
     \/ /\ \E e \in {"build", "system"} : Return(e)
        /\ \/ UNCHANGED <<outside, lost, procs>>
           \/ Live /\ Freed(name) /\ outside' = outside \ {name} /\ lost' = lost \ {name}
        /\ UNCHANGED <<mine, ready>>
     \/ /\ Live /\ Freed(name)
        /\ outside' = outside \cup {name} /\ lost' = lost \cup {name}
        /\ Return("system") /\ UNCHANGED <<mine, ready>>
  /\ UNCHANGED <<exit, ws>>

Where == IF stage \in {"UserScript", "AfterScript"} THEN "build" ELSE "predefined"

requestNewPredefinedContainer ==
  /\ kind = "docker" /\ Where = "predefined"
  /\ createContainer("Run", "begin", "predefined", "attach")

\* after_script runs in the container of the script.
requestBuildContainer ==
  /\ kind = "docker" /\ Where = "build"
  /\ IF ready
     THEN At("Run", "begin") /\ Goto("attach") /\ UNCHANGED <<resources, scripts>>
     ELSE createContainer("Run", "begin", "build", "attach")

\* watchContainer: attach and start under the stage's context...
attachContainer ==
  /\ kind = "docker" /\ At("Run", "attach")
  /\ \/ ~StageDone /\ Live /\ StartIn(Where) /\ Goto("wait") /\ UNCHANGED <<ws, lost>>
     \/ Return("system") /\ UNCHANGED <<scripts, lost>>
     \/ /\ ~StageDone /\ Return("system") /\ UNCHANGED <<exit, ws>>
        /\ procs' = procs \cup {Unknown(Where)} /\ lost' = lost \cup {"script"}
  /\ UNCHANGED <<mine, ready, outside>>

\* ... then wait for the first of: the container has stopped, the stage's context
\* has ended, the attached stream has broken.  Waiting is by polling under the
\* job's context, and gives up after a few errors: the container runs on then.
\* Variant of watchContainer: the container is left running when the stage ends.
watchContainerLeaves ==
  /\ kind = "docker" /\ At("Run", "wait")
  /\ \/ exit # "none" /\ Return(ExitError(exit)) /\ UNCHANGED lost
     \/ StageDone /\ Return("system") /\ UNCHANGED lost
  /\ UNCHANGED <<mine, ready, outside, scripts>>
waitForContainer ==
  \/ exit # "none" /\ Return(ExitError(exit)) /\ UNCHANGED <<procs, lost>>
  \/ ~Live /\ Return("system") /\ UNCHANGED <<procs, lost>>
  \/ exit = "none" /\ Return("system") /\ Leave({p \in procs : Awaited(p)})
watchContainer ==
  /\ kind = "docker" /\ At("Run", "wait")
  /\ \/ waitForContainer
     \/ (StageDone \/ exit = "none") /\ Goto("kill") /\ UNCHANGED <<procs, lost>>
  /\ UNCHANGED <<mine, ready, outside, exit, ws>>

\* Kill, once a second, until the poll sees the container stopped, or gives up
\* because the job's context has ended.
killContainer ==
  /\ kind = "docker" /\ At("Run", "kill") /\ Return("system")
  /\ \/ Live /\ Kill({p \in procs : Awaited(p)}) /\ UNCHANGED exit
     \/ (~Live \/ exit # "none") /\ UNCHANGED scripts
  /\ UNCHANGED resources

\* Removal has a context of its own, so it also works for a cancelled job.
dockerCleanup ==
  /\ IsDocker /\ At("Cleanup", "begin")
  /\ Return("none") /\ UNCHANGED exit
  /\ RemoveMine("builds")

\* --- docker-ssh: the build container runs an SSH server ------------------------------
dockerSSHPrepare ==
  kind = "docker-ssh" /\ createContainer("Prepare", "images", "build", "connect")
dockerSSHConnect ==
  /\ kind = "docker-ssh" /\ At("Prepare", "connect")
  /\ \E e \in IF Live THEN {"none", "system"} ELSE {"system"} : Return(e)
  /\ UNCHANGED <<resources, scripts>>
dockerSSHRun == kind = "docker-ssh" /\ sshStart("build") /\ UNCHANGED resources
dockerSSHWait == kind = "docker-ssh" /\ sshWait /\ UNCHANGED <<mine, ready, outside>>

DockerNext ==
  \/ connectDocker \/ prepareBuildsDir \/ dockerPrepare \/ expandImageName \/ bindDevices
  \/ createVolumesManager \/ getPrebuiltImage \/ createVolumes \/ createBuildVolume
  \/ createServices \/ createService
  \/ runServiceHealthCheckContainer \/ waitForServiceContainer \/ getBuildImage \/ commandPrepared
  \/ requestNewPredefinedContainer \/ requestBuildContainer \/ attachContainer
  \/ watchContainer \/ killContainer \/ dockerCleanup
  \/ dockerSSHPrepare \/ dockerSSHConnect \/ dockerSSHRun \/ dockerSSHWait
=============================================================================
