----------------------------- MODULE VMExecutor -----------------------------
(***************************************************************************)
(* The virtualbox and parallels executors (executors/virtualbox,           *)
(* executors/parallels).  A job runs in a virtual machine named for the    *)
(* runner and the slot.  With snapshots the machine is kept between jobs   *)
(* and set back to the snapshot taken when it was created; without         *)
(* snapshots it is deleted after the job.                                  *)
(*                                                                         *)
(* The machine is described by what is in outside: "vm" (it exists), "on"  *)
(* (it runs), "snapshot" (it has the snapshot to start from), "used" (a    *)
(* script has run since it was created or set back).                       *)
(***************************************************************************)
EXTENDS Executor

Machine == {"vm", "on", "snapshot", "used"}
VMExists == "vm" \in outside

\* --- The VM tools (helpers/virtualbox, helpers/parallels), as far as used ------
\* Kill, then Delete and Unregister: no error of theirs is looked at, so the
\* machine may still be there, and may even still run.
InVM == {p \in procs : p.in = "vm"}
KillVM(kept) ==
  \/ /\ outside' = outside \ ((Machine \ kept) \cup {"on"}) /\ Kill(InVM)
     /\ lost' = IF kept = {} THEN lost \ {"vm"} ELSE lost
  \/ /\ kept = {} /\ VMExists /\ outside' = outside \ {"on"} /\ Kill(InVM)
     /\ lost' = lost \cup {"vm"}
  \/ /\ VMExists /\ procs' = Abandoned(InVM)
     /\ lost' = lost \cup {"vm"} /\ UNCHANGED <<outside, ws>>

\* --- Prepare, the same in both executors ------------------------------------------
Configure(l, next) ==
  /\ At("Prepare", l)
  /\ \/ mine' = {"vm"} /\ Goto(next)
     \/ Return("system") /\ UNCHANGED mine
  /\ UNCHANGED <<ready, outside, lost, scripts>>

\* A machine left over is of no use without snapshots.
DeleteOld ==
  /\ At("Prepare", "old") /\ Goto("restore")
  /\ IF VMExists /\ ~job.snapshots THEN KillVM({})
     ELSE UNCHANGED <<outside, lost, procs, ws>>
  /\ UNCHANGED <<mine, ready, exit>>

\* A machine that is there is set back; one that cannot be is deleted.
SetBack ==
  /\ VMExists /\ "snapshot" \in outside
  /\ outside' = outside \ {"on", "used"} /\ lost' = lost \ {"vm"}
  /\ procs' = procs \ InVM /\ ws' = NoSources
\* Variant of RestoreOrDelete: a machine that cannot be set back is used as it is.
RestoreOrUse ==
  /\ At("Prepare", "restore") /\ Goto("create")
  /\ SetBack \/ UNCHANGED <<outside, lost, procs, ws>>
  /\ UNCHANGED <<mine, ready, exit>>
RestoreOrDelete ==
  /\ At("Prepare", "restore") /\ Goto("create")
  /\ \/ SetBack
     \/ VMExists /\ KillVM({})
     \/ ~VMExists /\ UNCHANGED <<outside, lost, procs, ws>>
  /\ UNCHANGED <<mine, ready, exit>>

\* A missing machine is cloned; a template or a base snapshot is made first when
\* there is none.
Clone(base, next) ==
  /\ At("Prepare", "create")
  /\ \/ VMExists /\ Goto("start") /\ UNCHANGED <<outside, ws>>
     \/ ~VMExists /\ outside' = outside \cup base \cup {"vm"} /\ ws' = NoSources /\ Goto(next)
     \/ ~VMExists /\ Return("system") /\ outside' \in {outside, outside \cup base} /\ UNCHANGED ws
  /\ UNCHANGED <<mine, ready, lost, exit, procs>>
\* The new machine is started,
Boot(next) ==
  /\ At("Prepare", "boot")
  /\ \/ outside' = outside \cup {"on"} /\ Goto(next)
     \/ Return("system") /\ UNCHANGED outside
  /\ UNCHANGED <<mine, ready, lost, scripts>>
\* must let an SSH session in,
verifyMachine == Attempt("Prepare", "verify", TRUE, "snapshot", {"system"})
\* and what its later jobs start from is recorded.
CreateSnapshot ==
  /\ At("Prepare", "snapshot")
  /\ \/ ~job.snapshots /\ Goto("start") /\ UNCHANGED outside
     \/ job.snapshots /\ outside' = outside \cup {"snapshot"} /\ Goto("start")
     \/ job.snapshots /\ Return("system") /\ UNCHANGED outside
  /\ UNCHANGED <<mine, ready, lost, scripts>>

\* A machine that is off is started.
StartVM ==
  /\ At("Prepare", "start")
  /\ \/ outside' = outside \cup {"on"} /\ Goto("respond")
     \/ outside' \in {outside, outside \cup {"on"}} /\ Return("system")
  /\ UNCHANGED <<mine, ready, lost, scripts>>
\* It must let an SSH session in, if it has not yet: it is provisioned.
Provision(next) ==
  /\ At("Prepare", "respond")
  /\ \/ ready' = TRUE /\ Goto(next)
     \/ Return("system") /\ UNCHANGED ready
  /\ UNCHANGED <<mine, outside, lost, scripts>>

ConnectSSH ==
  /\ At("Prepare", "connect")
  /\ \E e \in {"none", "system"} : Return(e)
  /\ UNCHANGED <<resources, scripts>>

\* --- Run, the same in both -------------------------------------------------------------
RunOverSSH ==
  /\ sshStart("vm")
  /\ outside' = IF procs' # procs THEN outside \cup {"used"} ELSE outside
  /\ UNCHANGED <<mine, ready, lost>>
WaitOverSSH == sshWait /\ UNCHANGED <<mine, ready, outside>>

\* --- Cleanup: the machine is stopped; it is kept only when it can be set back ----------
PowerOff ==
  /\ At("Cleanup", "begin") /\ Return("none")
  /\ IF mine = {} \* no machine was named yet
     THEN UNCHANGED <<outside, lost, procs, ws>>
     ELSE KillVM(IF job.snapshots /\ ready THEN Machine ELSE {})
  /\ mine' = {} /\ ready' = FALSE /\ UNCHANGED exit

\* --- virtualbox --------------------------------------------------------------------------
IsVirtualBox  == kind = "virtualbox"
vboxPrepare   == IsVirtualBox /\ PrepareBuildAndShell("begin", "configure")
vboxConfigure == IsVirtualBox /\ Configure("configure", "old")
vboxDeleteOld == IsVirtualBox /\ DeleteOld
vboxRestore   == IsVirtualBox /\ RestoreOrDelete
vboxClone     == IsVirtualBox /\ Clone({"base"}, "port")
\* A free port of the host is forwarded to the machine's SSH port.
ConfigureSSH  == IsVirtualBox /\ Attempt("Prepare", "port", TRUE, "boot", {"system"})
vboxBoot      == IsVirtualBox /\ Boot("verify")
vboxVerify    == IsVirtualBox /\ verifyMachine
vboxSnapshot  == IsVirtualBox /\ CreateSnapshot
vboxStart     == IsVirtualBox /\ StartVM
vboxProvision == IsVirtualBox /\ Provision("connect")
vboxConnect   == IsVirtualBox /\ ConnectSSH
vboxRun       == IsVirtualBox /\ (RunOverSSH \/ WaitOverSSH)
vboxCleanup   == IsVirtualBox /\ PowerOff

\* --- parallels: clones a template, sets the guest's clock ----------------------------------
IsParallels   == kind = "parallels"
prlPrepare    == IsParallels /\ PrepareBuildAndShell("begin", "configure")
prlConfigure  == IsParallels /\ Configure("configure", "old")
prlDeleteOld  == IsParallels /\ DeleteOld
prlRestore    == IsParallels /\ RestoreOrDelete
prlClone      == IsParallels /\ Clone({"base"}, "boot")
prlBoot       == IsParallels /\ Boot("up")
\* Guest commands are tried once a second until one works.
TryExec       == IsParallels /\ Attempt("Prepare", "up", TRUE, "verify", {"system"})
prlVerify     == IsParallels /\ verifyMachine
prlSnapshot   == IsParallels /\ CreateSnapshot
prlStart      == IsParallels /\ StartVM
prlProvision  == IsParallels /\ Provision("guestTime")
updateGuestTime == IsParallels /\ Attempt("Prepare", "guestTime", TRUE, "address", {"system"})
waitForIPAddress == IsParallels /\ Attempt("Prepare", "address", TRUE, "connect", {"system"})
prlConnect    == IsParallels /\ ConnectSSH
prlRun        == IsParallels /\ (RunOverSSH \/ WaitOverSSH)
prlCleanup    == IsParallels /\ PowerOff

VMNext ==
  \/ vboxPrepare \/ vboxConfigure \/ vboxDeleteOld \/ vboxRestore \/ vboxClone \/ ConfigureSSH
  \/ vboxBoot \/ vboxVerify \/ vboxSnapshot \/ vboxStart \/ vboxProvision \/ vboxConnect
  \/ vboxRun \/ vboxCleanup
  \/ prlPrepare \/ prlConfigure \/ prlDeleteOld \/ prlRestore \/ prlClone \/ prlBoot \/ TryExec
  \/ prlVerify \/ prlSnapshot \/ prlStart \/ prlProvision \/ updateGuestTime
  \/ waitForIPAddress \/ prlConnect \/ prlRun \/ prlCleanup
=============================================================================
