------------------------- MODULE KubernetesExecutor -------------------------
(***************************************************************************)
(* The kubernetes executor (executors/kubernetes).  Nothing is created     *)
(* before the first script: Run makes the pull secret, the pod and the     *)
(* services of the session's proxy when there is no pod yet.  The scripts  *)
(* of all stages are run by exec in the containers of that one pod.  None  *)
(* of these calls is made under the job's context.                         *)
(***************************************************************************)
EXTENDS Executor

IsKubernetes == kind = "kubernetes"
ProxyServices == {"proxy1", "proxy2"}

\* --- Prepare: only checks the configuration -------------------------------------
kubernetesPrepare == IsKubernetes /\ PrepareBuildAndShell("begin", "resources")
setupResources == IsKubernetes /\ Attempt("Prepare", "resources", TRUE, "overwrites", {"system"})
prepareOverwrites == IsKubernetes /\ Attempt("Prepare", "overwrites", TRUE, "defaults", {"system"})
checkDefaults == IsKubernetes /\ Attempt("Prepare", "defaults", TRUE, "client", {"system"})
getKubeClient ==
  /\ IsKubernetes /\ At("Prepare", "client")
  /\ \E e \in {"none", "system"} : Return(e)
  /\ UNCHANGED <<resources, scripts>>

\* --- Run -------------------------------------------------------------------------
\* The first script of a job sets up its pod; when that failed the last stage,
\* the upload, tries once more.  Whatever Create answers takes the place of an
\* earlier secret in the executor's memory: that one is never deleted.
Secret == IF stage = "Prepare" THEN "secret" ELSE "retrySecret"
setupCredentials ==
  /\ IsKubernetes /\ ~ready /\ At("Run", "begin")
  /\ \/ ~job.credentials /\ Goto("pod") /\ UNCHANGED <<mine, outside, lost>>
     \/ /\ job.credentials /\ Goto("pod")
        /\ outside' = outside \cup {Secret} /\ mine' = {Secret} /\ lost' = lost \cup mine
     \/ /\ job.credentials /\ Return("system") /\ mine' = {}
        /\ \/ lost' = lost \cup mine /\ UNCHANGED outside
           \/ outside' = outside \cup {Secret} /\ lost' = lost \cup mine \cup {Secret}
  /\ UNCHANGED <<ready, scripts>>

\* The pod has the volume of the sources: a new pod starts without any.
setupBuildPod ==
  /\ IsKubernetes /\ At("Run", "pod")
  /\ \/ /\ outside' = outside \cup {"pod"} /\ mine' = mine \cup {"pod"} /\ ready' = TRUE
        /\ ws' = NoSources /\ Goto("services") /\ UNCHANGED lost
     \/ Return("system") /\ UNCHANGED <<outside, mine, ready, lost, ws>>
     \/ /\ outside' = outside \cup {"pod"} /\ lost' = lost \cup {"pod"}
        /\ Return("system") /\ UNCHANGED <<mine, ready, ws>>
  /\ UNCHANGED <<exit, procs>>

\* The services are created side by side.  All are remembered, or, after the
\* first error, none.
makePodProxyServices ==
  /\ IsKubernetes /\ At("Run", "services")
  /\ \/ ~job.ports /\ Goto("start") /\ UNCHANGED <<outside, mine, lost>>
     \/ /\ job.ports /\ outside' = outside \cup ProxyServices
        /\ mine' = mine \cup ProxyServices /\ Goto("start") /\ UNCHANGED lost
     \/ /\ job.ports
        /\ \E made \in (SUBSET ProxyServices) \ {ProxyServices} :
             outside' = outside \cup made /\ lost' = lost \cup made
        /\ Return("system") /\ UNCHANGED mine
  /\ UNCHANGED <<ready, scripts>>

usePod ==
  /\ IsKubernetes /\ ready /\ At("Run", "begin") /\ Goto("start")
  /\ UNCHANGED <<resources, scripts>>

\* A goroutine of its own waits until the pod runs, polling; an image that cannot
\* be pulled is the job's fault.  When the stage's context ends first, Run returns
\* without it; the goroutine may not notice in time, and exec the script.
waitForPodRunning ==
  /\ IsKubernetes /\ At("Run", "start")
  /\ \/ Goto("exec") /\ UNCHANGED scripts
     \/ (\E e \in {"build", "system"} : Return(e)) /\ UNCHANGED scripts
     \/ /\ StageDone /\ Return("system")
        /\ procs' \in {procs, procs \cup {Unknown("pod")}} /\ UNCHANGED <<exit, ws>>
  /\ UNCHANGED resources

runInContainer ==
  /\ IsKubernetes /\ At("Run", "exec")
  /\ \/ StartIn("pod") /\ Goto("wait") /\ UNCHANGED ws
     \/ Return("system") /\ UNCHANGED scripts
  /\ UNCHANGED resources

\* Nothing stops a script that Run no longer waits for, because the stage's
\* context has ended or the stream has broken.
waitForExec ==
  /\ IsKubernetes /\ At("Run", "wait")
  /\ \/ exit # "none" /\ Return(ExitError(exit)) /\ UNCHANGED <<procs, lost>>
     \/ exit = "none" /\ Return("system") /\ Leave({p \in procs : Awaited(p)})
     \/ /\ StageDone /\ Return("system") /\ UNCHANGED lost
        /\ procs' = IF exit = "none" THEN Abandoned({p \in procs : Awaited(p)}) ELSE procs
  /\ UNCHANGED <<mine, ready, outside, exit, ws>>

\* The pod goes, and with it what runs in it; then the secret and the services.
kubernetesCleanup ==
  /\ IsKubernetes /\ At("Cleanup", "begin")
  /\ Return("none") /\ UNCHANGED exit
  /\ RemoveMine("pod")

KubernetesNext ==
  \/ kubernetesPrepare \/ setupResources \/ prepareOverwrites \/ checkDefaults \/ getKubeClient
  \/ setupCredentials \/ setupBuildPod \/ makePodProxyServices \/ usePod
  \/ waitForPodRunning \/ runInContainer \/ waitForExec \/ kubernetesCleanup
=============================================================================
