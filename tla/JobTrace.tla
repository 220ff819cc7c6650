-------------------------------- MODULE JobTrace --------------------------------
(***************************************************************************)
(* network/trace.go: how one job's log and result reach GitLab.  Two       *)
(* goroutines send: watch, at every updateInterval, and after it the one   *)
(* that runs the job, in finish.  They share sentTrace, state and          *)
(* sentState under a lock; cancelFunc and failureReason are read outside   *)
(* of it.                                                                  *)
(*                                                                         *)
(* A log is its length: it is only ever appended to.  The buffer           *)
(* (helpers/trace) shows the first `log` characters, and holds back `rest` *)
(* more, still in its pipe or possibly part of a masked value.             *)
(*                                                                         *)
(* GitLab is not part of the source: its side is what network/gitlab.go    *)
(* tells apart in the answers.  A request, what GitLab does with it and    *)
(* the handling of the answer are one step, as nothing the other goroutine *)
(* does in between touches what they touch.                                *)
(***************************************************************************)
EXTENDS Integers

CONSTANTS
  MaxLog,             \* bound: characters the job writes
  MaxTracePatchSize,  \* maxTracePatchSize
  Reasons,            \* failure reasons
  NoneFailure,        \* common.NoneFailure
  MaxFaults           \* bound: lost requests, lost answers, answers without Range

ASSUME TraceAssumption ==
  /\ MaxLog \in Nat /\ MaxTracePatchSize \in Nat \ {0} /\ MaxFaults \in Nat
  /\ NoneFailure \notin Reasons

VARIABLES
  log,            \* buffer.logMaskedSize: what Bytes() shows
  rest,           \* characters written and not shown yet
  state,          \* c.state
  failureReason,  \* c.failureReason
  sentTrace,      \* c.sentTrace
  sentState,      \* c.sentState
  cancelFunc,     \* c.cancelFunc: unset, set, or called
  watcher,        \* watch: where it is
  job,            \* the goroutine of the job: where it is
  sending,        \* what each of the two has read for its request
  remoteLog,      \* GitLab: the characters received of the log
  remoteJob,      \* GitLab: state and failure reason of the job
  faults          \* network faults so far (bounds the model)

traceVars  == <<state, failureReason, sentTrace, sentState, cancelFunc>>
remoteVars == <<remoteLog, remoteJob>>
vars == <<log, rest, traceVars, watcher, job, sending, remoteVars, faults>>

Running == "running"
Results == {"success", "failed"}
Senders == {"watch", "finish"}
Nothing == [from |-> 0, to |-> 0, state |-> Running]

Init ==
  /\ log = 0 /\ rest = 0
  /\ state = Running /\ failureReason = NoneFailure
  /\ sentTrace = 0 /\ sentState = Running
  /\ cancelFunc = "unset"
  /\ watcher = "wait" /\ job = "pending"
  /\ sending = [s \in Senders |-> Nothing]
  /\ remoteLog = 0
  /\ remoteJob = [state |-> Running, reason |-> NoneFailure]
  /\ faults = 0

-----------------------------------------------------------------------------
(* GitLab.  It takes log and result only of a job that is running: others  *)
(* are refused (403, or a Job-Status of canceled or failed), and a deleted *)
(* job is not found.  A patch has to start where the log ends.             *)

CancelJob ==
  /\ remoteJob.state = Running
  /\ \E s \in {"canceled", "deleted"} : remoteJob' = [remoteJob EXCEPT !.state = s]
  /\ UNCHANGED <<log, rest, traceVars, watcher, job, sending, remoteLog, faults>>

\* A request or its answer is lost, or GitLab answers without what it should.
Fault == faults < MaxFaults /\ faults' = faults + 1

\* PatchTrace of characters from+1..to, answered by an update state and the
\* offset to go on from.  Without a Range in a 416 that offset is 0.
PatchTrace(from, to, answer, offset) ==
  /\ \/ /\ remoteJob.state \in {"canceled"} \cup Results
        /\ answer = "Abort" /\ offset = from
        /\ UNCHANGED <<remoteLog, faults>>
     \/ /\ remoteJob.state = "deleted"
        /\ answer = "NotFound" /\ offset = from
        /\ UNCHANGED <<remoteLog, faults>>
     \/ /\ remoteJob.state = Running /\ from = remoteLog
        /\ remoteLog' = to
        /\ \/ answer = "Succeeded" /\ offset = to /\ UNCHANGED faults
           \/ answer = "Failed" /\ offset = from /\ Fault
     \/ /\ remoteJob.state = Running /\ from # remoteLog
        /\ answer = "RangeMismatch"
        /\ \/ offset = remoteLog /\ UNCHANGED faults
           \/ offset = 0 /\ Fault
        /\ UNCHANGED remoteLog
     \/ /\ answer = "Failed" /\ offset = from /\ Fault
        /\ UNCHANGED remoteLog
  /\ UNCHANGED remoteJob

\* UpdateJob with state s and failure reason r.  Running only touches the job.
UpdateJob(s, r, answer) ==
  /\ \/ /\ remoteJob.state # Running
        /\ answer = "Abort"
        /\ UNCHANGED <<remoteJob, faults>>
     \/ /\ remoteJob.state = Running
        /\ remoteJob' = IF s = Running THEN remoteJob ELSE [state |-> s, reason |-> r]
        /\ \/ answer = "Succeeded" /\ UNCHANGED faults
           \/ answer = "Failed" /\ Fault
     \/ /\ answer = "Failed" /\ Fault
        /\ UNCHANGED remoteJob
  /\ UNCHANGED remoteLog

-----------------------------------------------------------------------------
(* sendPatch and sendUpdate, used by both goroutines.                      *)

UpdateStates == {"Succeeded", "NotFound", "Abort", "Failed", "RangeMismatch"}

\* What sendPatch reads under the lock, when there is something to send.
ReadTrace(s) ==
  /\ log # sentTrace
  /\ sending' = [sending EXCEPT ![s] =
       [from  |-> sentTrace,
        to    |-> IF log - sentTrace > MaxTracePatchSize THEN sentTrace + MaxTracePatchSize
                                                         ELSE log,
        state |-> Running]]

\* Variant of sendPatch: the offset is taken over whatever the answer says.
sendPatchTrusting(s, answer) ==
  /\ \E offset \in 0..MaxLog : PatchTrace(sending[s].from, sending[s].to, answer, offset)
  /\ sentTrace' = IF answer = "Abort" THEN sentTrace ELSE sending[s].to
  /\ UNCHANGED <<state, failureReason, sentState, cancelFunc>>

sendPatch(s, answer) ==
  /\ \E offset \in 0..MaxLog :
       /\ PatchTrace(sending[s].from, sending[s].to, answer, offset)
       /\ sentTrace' = IF answer \in {"Succeeded", "RangeMismatch"} THEN offset ELSE sentTrace
  /\ UNCHANGED <<state, failureReason, sentState, cancelFunc>>

\* What sendUpdate reads under the lock.
ReadState(s) == sending' = [sending EXCEPT ![s] = [from |-> 0, to |-> 0, state |-> state]]

\* failureReason is read after the lock was released.
sendUpdate(s, answer) ==
  /\ UpdateJob(sending[s].state, failureReason, answer)
  /\ sentState' = IF answer = "Succeeded" THEN sending[s].state ELSE sentState
  /\ UNCHANGED <<state, failureReason, sentTrace, cancelFunc>>

-----------------------------------------------------------------------------
(* watch                                                                   *)

\* The timer fires: incrementalUpdate begins with sendPatch.
WatchTick ==
  /\ watcher = "wait"
  /\ \/ ReadTrace("watch") /\ watcher' = "patch"
     \/ log = sentTrace /\ watcher' = "status" /\ UNCHANGED sending
  /\ UNCHANGED <<log, rest, traceVars, job, remoteVars, faults>>

\* Variant of WatchPatch: a failed patch is taken for an abort.
WatchPatchAbrupt ==
  /\ watcher = "patch"
  /\ \E answer \in UpdateStates :
       /\ sendPatch("watch", answer)
       /\ watcher' = CASE answer = "Succeeded"          -> "status"
                       [] answer \in {"Abort", "Failed"} -> "abort"
                       [] OTHER                          -> "wait"
  /\ UNCHANGED <<log, rest, job, sending>>

WatchPatch ==
  /\ watcher = "patch"
  /\ \E answer \in UpdateStates :
       /\ sendPatch("watch", answer)
       /\ watcher' = CASE answer = "Succeeded" -> "status"
                       [] answer = "Abort"     -> "abort"
                       [] OTHER                -> "wait"
  /\ UNCHANGED <<log, rest, job, sending>>

\* sendUpdate(false) when state has changed, or forceSendInterval has passed.
WatchRefresh ==
  /\ watcher = "status"
  /\ ReadState("watch") /\ watcher' = "update"
  /\ UNCHANGED <<log, rest, traceVars, job, remoteVars, faults>>

\* sendUpdate(false) with nothing to do.
WatchIdle ==
  /\ watcher = "status"
  /\ state = sentState /\ watcher' = "wait"
  /\ UNCHANGED <<log, rest, traceVars, job, sending, remoteVars, faults>>

WatchUpdate ==
  /\ watcher = "update"
  /\ \E answer \in UpdateStates :
       /\ sendUpdate("watch", answer)
       /\ watcher' = IF answer = "Abort" THEN "abort" ELSE "wait"
  /\ UNCHANGED <<log, rest, job, sending>>

\* Variants of Abort: the watcher returns at once; or it also stops asking when
\* there was no cancelFunc to call.
AbortReturns ==
  /\ watcher = "abort"
  /\ IF cancelFunc = "set" THEN cancelFunc' = "called" /\ watcher' = "done"
                           ELSE watcher' = "wait" /\ UNCHANGED cancelFunc
  /\ UNCHANGED <<log, rest, state, failureReason, sentTrace, sentState, job, sending,
                 remoteVars, faults>>
AbortGivesUp ==
  /\ watcher = "abort" /\ watcher' = "aborted"
  /\ cancelFunc' = IF cancelFunc = "set" THEN "called" ELSE cancelFunc
  /\ UNCHANGED <<log, rest, state, failureReason, sentTrace, sentState, job, sending,
                 remoteVars, faults>>

\* abort: with no cancelFunc the watcher goes on, and asks again.
Abort ==
  /\ watcher = "abort"
  /\ IF cancelFunc = "set" THEN cancelFunc' = "called" /\ watcher' = "aborted"
                           ELSE watcher' = "wait" /\ UNCHANGED cancelFunc
  /\ UNCHANGED <<log, rest, state, failureReason, sentTrace, sentState, job, sending,
                 remoteVars, faults>>

-----------------------------------------------------------------------------
(* The buffer, and the goroutine of the job.                               *)

Write ==
  /\ job \in {"pending", "running"}
  /\ log + rest < MaxLog
  /\ rest' = rest + 1
  /\ UNCHANGED <<log, traceVars, watcher, job, sending, remoteVars, faults>>

\* writeRune shows what cannot be part of a masked value any more.
Advance ==
  /\ \E n \in 1..rest : log' = log + n /\ rest' = rest - n
  /\ UNCHANGED <<traceVars, watcher, job, sending, remoteVars, faults>>

\* build.Run, before it prepares anything.
SetCancelFunc ==
  /\ job = "pending"
  /\ job' = "running"
  /\ cancelFunc' = "set"
  /\ UNCHANGED <<log, rest, state, failureReason, sentTrace, sentState, watcher, sending,
                 remoteVars, faults>>

\* Variant of Fail: a later call replaces the result of the first.
FailAgain(result, reason) ==
  /\ job \in {"pending", "running", "reported"}
  /\ state' = result /\ failureReason' = reason
  /\ job' = IF job = "reported" THEN "done" ELSE "close"
  /\ UNCHANGED <<log, rest, sentTrace, sentState, cancelFunc, watcher, sending, remoteVars, faults>>

\* Fail and Success: called by build.Run, then by processRunner's deferred
\* function (only by that one, with its error, if there is no build); the second
\* call returns.
Fail(result, reason) ==
  /\ job \in {"pending", "running", "reported"}
  /\ job = "pending" => result = "failed"
  /\ IF state # Running
     THEN job' = "done" /\ UNCHANGED <<state, failureReason>>
     ELSE job' = "close" /\ state' = result /\ failureReason' = reason
  /\ UNCHANGED <<log, rest, sentTrace, sentState, cancelFunc, watcher, sending, remoteVars, faults>>

\* Variant of Close: what the buffer still holds back is dropped.
CloseDiscards ==
  /\ job = "close"
  /\ rest' = 0 /\ job' = "finish"
  /\ UNCHANGED <<log, traceVars, watcher, sending, remoteVars, faults>>

\* finish: buffer.Close shows all that is left.
Close ==
  /\ job = "close"
  /\ log' = log + rest /\ rest' = 0
  /\ job' = "finish"
  /\ UNCHANGED <<traceVars, watcher, sending, remoteVars, faults>>

\* Variant of Finish: the watcher is told, but not waited for.
FinishUnasked ==
  /\ job = "finish"
  /\ job' = "trace"
  /\ watcher' = IF watcher \in {"wait", "aborted"} THEN "done" ELSE watcher
  /\ UNCHANGED <<log, rest, traceVars, sending, remoteVars, faults>>

\* c.finished <- true, received by the watcher in its select or after abort.
Finish ==
  /\ job = "finish"
  /\ watcher \in {"wait", "aborted"}
  /\ job' = "trace" /\ watcher' = "done"
  /\ UNCHANGED <<log, rest, traceVars, sending, remoteVars, faults>>

finalTraceUpdate ==
  /\ job = "trace"
  /\ \/ ReadTrace("finish") /\ job' = "patch"
     \/ log = sentTrace /\ job' = "status" /\ UNCHANGED sending
  /\ UNCHANGED <<log, rest, traceVars, watcher, remoteVars, faults>>

\* Variant of FinalPatch: a failed patch is not tried again.
FinalPatchOnce ==
  /\ job = "patch"
  /\ \E answer \in UpdateStates :
       /\ sendPatch("finish", answer)
       /\ job' = IF answer = "Succeeded" THEN "trace" ELSE "status"
  /\ UNCHANGED <<log, rest, watcher, sending>>

FinalPatch ==
  /\ job = "patch"
  /\ \E answer \in UpdateStates :
       /\ sendPatch("finish", answer)
       /\ job' = IF answer \in {"Abort", "NotFound"} THEN "status" ELSE "trace"
  /\ UNCHANGED <<log, rest, watcher, sending>>

finalStatusUpdate ==
  /\ job = "status"
  /\ ReadState("finish") /\ job' = "update"
  /\ UNCHANGED <<log, rest, traceVars, watcher, remoteVars, faults>>

\* Variant of FinalUpdate: a failed update is not tried again.
FinalUpdateOnce ==
  /\ job = "update"
  /\ \E answer \in UpdateStates : sendUpdate("finish", answer)
  /\ job' = "reported"
  /\ UNCHANGED <<log, rest, watcher, sending>>

FinalUpdate ==
  /\ job = "update"
  /\ \E answer \in UpdateStates :
       /\ sendUpdate("finish", answer)
       /\ job' = IF answer = "Failed" THEN "status" ELSE "reported"
  /\ UNCHANGED <<log, rest, watcher, sending>>

-----------------------------------------------------------------------------

Watch == WatchTick \/ WatchPatch \/ WatchRefresh \/ WatchIdle \/ WatchUpdate \/ Abort

ReportStep == Close \/ Finish \/ finalTraceUpdate \/ FinalPatch \/ finalStatusUpdate \/ FinalUpdate

JobEnds == Fail("success", NoneFailure) \/ \E r \in Reasons : Fail("failed", r)

Done == job = "done" /\ UNCHANGED vars

Next ==
  \/ CancelJob \/ Write \/ Advance \/ SetCancelFunc \/ JobEnds
  \/ Watch \/ ReportStep \/ Done

Spec == Init /\ [][Next]_vars

(***************************************************************************)
(* Goroutines that can run do run, and the timer fires.  A watcher whose   *)
(* log is all sent finds forceSendInterval over at one of its rounds, and  *)
(* its select, ready for `finished` in every round, takes it at one of     *)
(* them: strong fairness.  A job need not end, nor GitLab cancel it; the   *)
(* faults are finitely many.                                               *)
(***************************************************************************)
Fairness ==
  /\ WF_vars(Watch) /\ WF_vars(ReportStep) /\ WF_vars(SetCancelFunc \/ (job = "pending" /\ JobEnds))
  /\ SF_vars(WatchRefresh) /\ SF_vars(Finish)

FairSpec == Spec /\ Fairness

-----------------------------------------------------------------------------
(* Properties                                                              *)

WatcherPC == {"wait", "patch", "status", "update", "abort", "aborted", "done"}
JobPC == {"pending", "running", "close", "finish", "trace", "patch", "status", "update",
          "reported", "done"}

\* Every variable has the type its Go declaration, or GitLab, gives it.
TypeOK ==
  /\ log \in 0..MaxLog /\ rest \in 0..MaxLog /\ log + rest <= MaxLog
  /\ state \in Results \cup {Running} /\ failureReason \in Reasons \cup {NoneFailure}
  /\ sentTrace \in 0..MaxLog /\ sentState \in Results \cup {Running}
  /\ cancelFunc \in {"unset", "set", "called"}
  /\ watcher \in WatcherPC /\ job \in JobPC
  /\ sending \in [Senders -> [from: 0..MaxLog, to: 0..MaxLog, state: Results \cup {Running}]]
  /\ remoteLog \in 0..MaxLog
  /\ remoteJob \in [state: Results \cup {Running, "canceled", "deleted"},
                    reason: Reasons \cup {NoneFailure}]
  /\ faults \in 0..MaxFaults

\* However requests and answers are lost, sendPatch never believes GitLab has
\* more than it has, nor does GitLab have more than the buffer shows: the slice
\* trace[sentTrace:] is in range and no part of the log is skipped.
SentInOrder == sentTrace <= remoteLog /\ remoteLog <= log

\* finish sends only after the watcher has stopped: one request at a time, so
\* what sendPatch read is still true when it records the answer.
OneSender ==
  /\ job \in {"trace", "patch", "status", "update", "reported", "done"} => watcher = "done"
  /\ watcher = "patch" => sending["watch"].from = sentTrace
  /\ job = "patch" => sending["finish"].from = sentTrace

\* The result GitLab has is the one of the first Fail or Success, with the
\* failure reason that belongs to it although that is read without the lock.
ResultFaithful ==
  remoteJob.state \in Results => remoteJob = [state |-> state, reason |-> failureReason]

\* When Fail returns, GitLab has a result or has itself ended the job.
ResultDelivered == job \in {"reported", "done"} => remoteJob.state # Running

\* finish gives the result only to a GitLab that has the whole log.
LogBeforeResult ==
  [][job = "update" /\ remoteJob'.state \in Results /\ remoteJob.state = Running
       => remoteLog = log + rest]_vars

\* The build is cancelled only because GitLab has ended the job: no network
\* fault does it.
CancelledByGitLab == cancelFunc = "called" => remoteJob.state # Running

\* Once the job has ended, its report comes to an end: watcher and finish do
\* not block each other, and retries do not go on for ever.
ReportEnds == job = "close" ~> job = "reported"

\* A job GitLab cancels is cancelled here, even if GitLab does so before
\* build.Run has set cancelFunc.
CancelHonoured == remoteJob.state = "canceled" ~> (cancelFunc = "called" \/ state # Running)

\* network/trace_test.go expects every byte of the log to have been sent when
\* Success returns.  (The code does not keep this: the watcher's sendUpdate may
\* send the result before the rest of the log, which is then refused.)
LogDelivered == job = "reported" /\ remoteJob.state \in Results => remoteLog = log

\* Refinement: to the job and to GitLab, the goroutines, requests, retries and
\* faults of network/trace.go are steps of JobReport or no steps at all.
Report == INSTANCE JobReport WITH
  written  <- log + rest,
  result   <- [state |-> state, reason |-> failureReason],
  received <- remoteLog,
  outcome  <- remoteJob

\* The log and the result reach GitLab as common.JobTrace promises.
ReportsJob == Report!Spec

(***************************************************************************)
(* What makes the properties inductive.                                    *)
(***************************************************************************)
\* What a sender has read for the request it is about to make.
ReadsValid ==
  /\ watcher = "patch" => sending["watch"].to \in (sentTrace + 1)..log
  /\ job = "patch" => sending["finish"].to \in (sentTrace + 1)..log
  /\ watcher = "update" => sending["watch"].state \in {Running, state}
  /\ job = "update" => sending["finish"].state = state

\* The result is set exactly from Fail on, and nothing is written after Close.
ResultSet ==
  /\ state = Running <=> job \in {"pending", "running"}
  /\ job \notin {"pending", "running", "close"} => rest = 0

\* finish sends the result when GitLab has the log, or has ended the job.
LogSent == job \in {"status", "update"} => remoteLog = log \/ remoteJob.state # Running

\* An abort is only ever GitLab's answer.
AbortAnswered == watcher \in {"abort", "aborted"} => remoteJob.state # Running

TraceInv ==
  /\ TypeOK /\ SentInOrder /\ OneSender /\ ReadsValid /\ ResultSet /\ LogSent
  /\ AbortAnswered /\ CancelledByGitLab /\ ResultFaithful /\ ResultDelivered
=============================================================================
