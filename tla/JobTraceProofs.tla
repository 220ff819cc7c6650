----------------------------- MODULE JobTraceProofs -----------------------------
(***************************************************************************)
(* The report of a job, for logs of every length, patches of every size    *)
(* and any number of network faults: TraceInv is inductive, and implies    *)
(* the safety properties of JobTrace.                                      *)
(***************************************************************************)
EXTENDS JobTrace, TLAPS

USE DEF vars, traceVars, remoteVars, Running, Results, Senders, UpdateStates

\* Initially nothing is written, read or sent.
LEMMA InitInv == Init => TraceInv
<1> SUFFICES ASSUME Init PROVE TraceInv
  OBVIOUS
<1>1. TypeOK
  BY TraceAssumption DEF Init, TypeOK, WatcherPC, JobPC, Nothing
<1>2. SentInOrder /\ OneSender /\ ReadsValid /\ ResultSet /\ LogSent
  BY DEF Init, SentInOrder, OneSender, ReadsValid, ResultSet, LogSent
<1>3. AbortAnswered /\ CancelledByGitLab /\ ResultFaithful /\ ResultDelivered
  BY DEF Init, AbortAnswered, CancelledByGitLab, ResultFaithful, ResultDelivered
<1> QED
  BY <1>1, <1>2, <1>3 DEF TraceInv

\* Replacing what one sender has read.
LEMMA SendingExcept ==
  ASSUME NEW S, NEW f \in [Senders -> S], NEW s \in Senders, NEW r \in S
  PROVE  /\ [f EXCEPT ![s] = r] \in [Senders -> S]
         /\ [f EXCEPT ![s] = r][s] = r
         /\ \A q \in Senders \ {s} : [f EXCEPT ![s] = r][q] = f[q]
  OBVIOUS

\* What the two goroutines read keeps its type, and is about the present log.
LEMMA ReadTraceFacts ==
  ASSUME TypeOK, SentInOrder, NEW s \in Senders, ReadTrace(s)
  PROVE  /\ sending' \in [Senders -> [from: 0..MaxLog, to: 0..MaxLog, state: Results \cup {Running}]]
         /\ sending'[s].from = sentTrace
         /\ sending'[s].to \in (sentTrace + 1)..log
         /\ \A q \in Senders \ {s} : sending'[q] = sending[q]
<1> DEFINE end == IF log - sentTrace > MaxTracePatchSize THEN sentTrace + MaxTracePatchSize ELSE log
           S   == [from: 0..MaxLog, to: 0..MaxLog, state: Results \cup {Running}]
           r   == [from |-> sentTrace, to |-> end, state |-> Running]
<1>1. end \in 0..MaxLog /\ end \in (sentTrace + 1)..log /\ sentTrace \in 0..MaxLog
  BY TraceAssumption DEF TypeOK, SentInOrder, ReadTrace
<1>2. sending' = [sending EXCEPT ![s] = r] /\ sending \in [Senders -> S]
  BY DEF ReadTrace, TypeOK
<1> HIDE DEF end
<1>3. r \in S /\ r.from = sentTrace /\ r.to = end
  BY <1>1
<1> HIDE DEF S, r
<1>4. sending' \in [Senders -> S] /\ sending'[s] = r /\ \A q \in Senders \ {s} : sending'[q] = sending[q]
  BY <1>2, <1>3, SendingExcept
<1> QED
  BY <1>1, <1>3, <1>4 DEF S

\* The same for the state.
LEMMA ReadStateFacts ==
  ASSUME TypeOK, NEW s \in Senders, ReadState(s)
  PROVE  /\ sending' \in [Senders -> [from: 0..MaxLog, to: 0..MaxLog, state: Results \cup {Running}]]
         /\ sending'[s].state = state
         /\ \A q \in Senders \ {s} : sending'[q] = sending[q]
<1> DEFINE S == [from: 0..MaxLog, to: 0..MaxLog, state: Results \cup {Running}]
           r == [from |-> 0, to |-> 0, state |-> state]
<1>1. sending' = [sending EXCEPT ![s] = r] /\ sending \in [Senders -> S]
  BY DEF ReadState, TypeOK
<1>2. r \in S /\ r.state = state
  BY TraceAssumption DEF TypeOK
<1> HIDE DEF S, r
<1>3. sending' \in [Senders -> S] /\ sending'[s] = r /\ \A q \in Senders \ {s} : sending'[q] = sending[q]
  BY <1>1, <1>2, SendingExcept
<1> QED
  BY <1>2, <1>3 DEF S

\* A patch: GitLab's log grows by what was read or not at all, and sentTrace
\* follows it or falls behind.
LEMMA PatchFacts ==
  ASSUME TraceInv, NEW s \in Senders, NEW answer \in UpdateStates, sendPatch(s, answer),
         sending[s].from = sentTrace, sending[s].to \in (sentTrace + 1)..log
  PROVE  /\ sentTrace' \in 0..MaxLog /\ remoteLog' \in 0..MaxLog /\ faults' \in 0..MaxFaults
         /\ sentTrace' <= remoteLog' /\ remoteLog' <= log /\ remoteLog <= remoteLog'
         /\ answer \in {"Abort", "NotFound"} => remoteJob.state # Running
         /\ answer = "Succeeded" => remoteJob.state = Running
         /\ remoteJob' = remoteJob
         /\ UNCHANGED <<state, failureReason, sentState, cancelFunc>>
<1>1. PICK offset \in 0..MaxLog :
        /\ PatchTrace(sending[s].from, sending[s].to, answer, offset)
        /\ sentTrace' = IF answer \in {"Succeeded", "RangeMismatch"} THEN offset ELSE sentTrace
  BY DEF sendPatch
<1>2. sending[s].to \in 0..MaxLog /\ sentTrace \in 0..MaxLog /\ remoteLog \in 0..MaxLog
      /\ log \in 0..MaxLog /\ faults \in 0..MaxFaults /\ sentTrace <= remoteLog /\ remoteLog <= log
  BY DEF TraceInv, TypeOK, SentInOrder
<1>3. UNCHANGED <<state, failureReason, sentState, cancelFunc>> /\ remoteJob' = remoteJob
  BY <1>1 DEF sendPatch, PatchTrace
<1> QED
  BY <1>1, <1>2, <1>3, TraceAssumption DEF PatchTrace, Fault

\* An update: GitLab takes the result only of a job that is running there.
LEMMA UpdateFacts ==
  ASSUME TraceInv, NEW s \in Senders, NEW answer \in UpdateStates, sendUpdate(s, answer)
  PROVE  /\ faults' \in 0..MaxFaults /\ remoteLog' = remoteLog
         /\ sentState' \in {sentState, sending[s].state}
         /\ \/ remoteJob' = remoteJob
            \/ /\ sending[s].state # Running /\ remoteJob.state = Running
               /\ remoteJob' = [state |-> sending[s].state, reason |-> failureReason]
         /\ answer = "Abort" => remoteJob.state # Running
         /\ answer # "Failed" => remoteJob'.state # Running \/ sending[s].state = Running
         /\ UNCHANGED <<state, failureReason, sentTrace, cancelFunc>>
<1>1. faults \in 0..MaxFaults
  BY DEF TraceInv, TypeOK
<1> QED
  BY <1>1, TraceAssumption DEF sendUpdate, UpdateJob, Fault

\* GitLab ends the job: only weaker promises are left.
LEMMA StepCancelJob == TraceInv /\ CancelJob => TraceInv'
<1> SUFFICES ASSUME TraceInv, CancelJob PROVE TraceInv'
  OBVIOUS
<1>1. TypeOK'
  BY TraceAssumption DEF TraceInv, CancelJob, TypeOK, WatcherPC, JobPC
<1>2. SentInOrder' /\ OneSender' /\ ReadsValid'
  BY DEF TraceInv, CancelJob, TypeOK, SentInOrder, OneSender, ReadsValid
<1>3. ResultSet' /\ LogSent' /\ AbortAnswered'
  BY DEF TraceInv, CancelJob, TypeOK, ResultSet, LogSent, AbortAnswered
<1>4. CancelledByGitLab' /\ ResultFaithful' /\ ResultDelivered'
  BY DEF TraceInv, CancelJob, TypeOK, CancelledByGitLab, ResultFaithful, ResultDelivered
<1> QED
  BY <1>1, <1>2, <1>3, <1>4 DEF TraceInv

\* More is written; nothing shown changes.
LEMMA StepWrite == TraceInv /\ Write => TraceInv'
<1> SUFFICES ASSUME TraceInv, Write PROVE TraceInv'
  OBVIOUS
<1>1. TypeOK'
  BY TraceAssumption DEF TraceInv, Write, TypeOK, WatcherPC, JobPC
<1>2. SentInOrder' /\ OneSender' /\ ReadsValid'
  BY DEF TraceInv, Write, TypeOK, SentInOrder, OneSender, ReadsValid
<1>3. ResultSet' /\ LogSent' /\ AbortAnswered'
  BY DEF TraceInv, Write, TypeOK, ResultSet, LogSent, AbortAnswered
<1>4. CancelledByGitLab' /\ ResultFaithful' /\ ResultDelivered'
  BY DEF TraceInv, Write, TypeOK, CancelledByGitLab, ResultFaithful, ResultDelivered
<1> QED
  BY <1>1, <1>2, <1>3, <1>4 DEF TraceInv

\* The buffer shows more.
LEMMA StepAdvance == TraceInv /\ Advance => TraceInv'
<1> SUFFICES ASSUME TraceInv, Advance PROVE TraceInv'
  OBVIOUS
<1>1. TypeOK'
  BY TraceAssumption DEF TraceInv, Advance, TypeOK, WatcherPC, JobPC
<1>2. SentInOrder' /\ OneSender' /\ ReadsValid'
  BY DEF TraceInv, Advance, TypeOK, SentInOrder, OneSender, ReadsValid
<1>3. ResultSet' /\ LogSent' /\ AbortAnswered'
  BY DEF TraceInv, Advance, TypeOK, ResultSet, LogSent, AbortAnswered
<1>4. CancelledByGitLab' /\ ResultFaithful' /\ ResultDelivered'
  BY DEF TraceInv, Advance, TypeOK, CancelledByGitLab, ResultFaithful, ResultDelivered
<1> QED
  BY <1>1, <1>2, <1>3, <1>4 DEF TraceInv

\* The build begins.
LEMMA StepSetCancelFunc == TraceInv /\ SetCancelFunc => TraceInv'
<1> SUFFICES ASSUME TraceInv, SetCancelFunc PROVE TraceInv'
  OBVIOUS
<1>1. TypeOK'
  BY TraceAssumption DEF TraceInv, SetCancelFunc, TypeOK, WatcherPC, JobPC
<1>2. SentInOrder' /\ OneSender' /\ ReadsValid'
  BY DEF TraceInv, SetCancelFunc, TypeOK, SentInOrder, OneSender, ReadsValid
<1>3. ResultSet' /\ LogSent' /\ AbortAnswered'
  BY DEF TraceInv, SetCancelFunc, TypeOK, ResultSet, LogSent, AbortAnswered
<1>4. CancelledByGitLab' /\ ResultFaithful' /\ ResultDelivered'
  BY DEF TraceInv, SetCancelFunc, TypeOK, CancelledByGitLab, ResultFaithful, ResultDelivered
<1> QED
  BY <1>1, <1>2, <1>3, <1>4 DEF TraceInv

\* Fail or Success sets the result, once.
LEMMA StepJobEnds == TraceInv /\ JobEnds => TraceInv'
<1> SUFFICES ASSUME TraceInv, JobEnds PROVE TraceInv'
  OBVIOUS
<1>1. TypeOK'
  BY TraceAssumption DEF TraceInv, JobEnds, Fail, TypeOK, WatcherPC, JobPC
<1>2. SentInOrder' /\ OneSender' /\ ReadsValid'
  BY DEF TraceInv, JobEnds, Fail, TypeOK, ResultSet, SentInOrder, OneSender, ReadsValid
<1>3. ResultSet' /\ LogSent' /\ AbortAnswered'
  BY DEF TraceInv, JobEnds, Fail, TypeOK, ResultSet, LogSent, AbortAnswered
<1>4. CancelledByGitLab' /\ ResultFaithful' /\ ResultDelivered'
  BY DEF TraceInv, JobEnds, Fail, TypeOK, ResultSet, CancelledByGitLab, ResultFaithful, ResultDelivered
<1> QED
  BY <1>1, <1>2, <1>3, <1>4 DEF TraceInv

\* The watcher reads the log, or finds it all sent.
LEMMA StepWatchTick == TraceInv /\ WatchTick => TraceInv'
<1> SUFFICES ASSUME TraceInv, WatchTick PROVE TraceInv'
  OBVIOUS
<1>1. CASE ReadTrace("watch") /\ watcher' = "patch"
  <2>1. "watch" \in Senders
    OBVIOUS
  <2>2. /\ sending' \in [Senders -> [from: 0..MaxLog, to: 0..MaxLog, state: Results \cup {Running}]]
        /\ sending'["watch"].from = sentTrace /\ sending'["watch"].to \in (sentTrace + 1)..log
        /\ \A q \in Senders \ {"watch"} : sending'[q] = sending[q]
    BY <1>1, <2>1, ReadTraceFacts DEF TraceInv
  <2>3. TypeOK'
    BY <1>1, <2>2 DEF TraceInv, WatchTick, TypeOK, WatcherPC, JobPC
  <2>4. SentInOrder' /\ OneSender' /\ ReadsValid'
    BY <1>1, <2>2 DEF TraceInv, WatchTick, TypeOK, SentInOrder, OneSender, ReadsValid
  <2>5. ResultSet' /\ LogSent' /\ AbortAnswered'
    BY <1>1, <2>2 DEF TraceInv, WatchTick, TypeOK, ResultSet, LogSent, AbortAnswered
  <2>6. CancelledByGitLab' /\ ResultFaithful' /\ ResultDelivered'
    BY <1>1, <2>2 DEF TraceInv, WatchTick, TypeOK, CancelledByGitLab, ResultFaithful, ResultDelivered
  <2> QED
    BY <2>3, <2>4, <2>5, <2>6 DEF TraceInv
<1>2. CASE log = sentTrace /\ watcher' = "status" /\ UNCHANGED sending
  <2>1. TypeOK'
    BY <1>2 DEF TraceInv, WatchTick, TypeOK, WatcherPC, JobPC
  <2>2. SentInOrder' /\ OneSender' /\ ReadsValid'
    BY <1>2 DEF TraceInv, WatchTick, TypeOK, SentInOrder, OneSender, ReadsValid
  <2>3. ResultSet' /\ LogSent' /\ AbortAnswered'
    BY <1>2 DEF TraceInv, WatchTick, TypeOK, ResultSet, LogSent, AbortAnswered
  <2>4. CancelledByGitLab' /\ ResultFaithful' /\ ResultDelivered'
    BY <1>2 DEF TraceInv, WatchTick, TypeOK, CancelledByGitLab, ResultFaithful, ResultDelivered
  <2> QED
    BY <2>1, <2>2, <2>3, <2>4 DEF TraceInv
<1> QED
  BY <1>1, <1>2 DEF WatchTick

\* The watcher's patch: sentTrace and GitLab's log move together.
LEMMA StepWatchPatch == TraceInv /\ WatchPatch => TraceInv'
<1> SUFFICES ASSUME TraceInv, WatchPatch PROVE TraceInv'
  OBVIOUS
<1>1. PICK answer \in UpdateStates : sendPatch("watch", answer) /\ watcher' = CASE answer = "Succeeded" -> "status" [] answer = "Abort" -> "abort" [] OTHER -> "wait"
  BY DEF WatchPatch
<1>2. "watch" \in Senders
  OBVIOUS
<1>3. sending["watch"].from = sentTrace /\ sending["watch"].to \in (sentTrace + 1)..log
  BY DEF WatchPatch, TraceInv, OneSender, ReadsValid
<1>4. /\ sentTrace' \in 0..MaxLog /\ remoteLog' \in 0..MaxLog /\ faults' \in 0..MaxFaults
      /\ sentTrace' <= remoteLog' /\ remoteLog' <= log /\ remoteLog <= remoteLog'
      /\ answer \in {"Abort", "NotFound"} => remoteJob.state # Running
      /\ remoteJob' = remoteJob
      /\ UNCHANGED <<state, failureReason, sentState, cancelFunc>>
  BY <1>1, <1>2, <1>3, PatchFacts
<1>5. UNCHANGED <<log, rest, sending>> /\ UNCHANGED job /\ watcher = "patch"
  BY DEF WatchPatch
<1>6. watcher' \in {"status", "abort", "wait"} /\ (watcher' = "abort" => answer = "Abort")
  BY <1>1
<1>7. TypeOK'
  BY <1>3, <1>4, <1>5, <1>6, TraceAssumption DEF TraceInv, TypeOK, WatcherPC, JobPC
<1>8. SentInOrder' /\ OneSender' /\ ReadsValid'
  BY <1>3, <1>4, <1>5, <1>6 DEF TraceInv, TypeOK, SentInOrder, OneSender, ReadsValid
<1>9. ResultSet' /\ LogSent' /\ AbortAnswered'
  BY <1>3, <1>4, <1>5, <1>6 DEF TraceInv, TypeOK, ResultSet, LogSent, AbortAnswered
<1>10. CancelledByGitLab' /\ ResultFaithful' /\ ResultDelivered'
  BY <1>3, <1>4, <1>5, <1>6 DEF TraceInv, TypeOK, CancelledByGitLab, ResultFaithful, ResultDelivered
<1> QED
  BY <1>7, <1>8, <1>9, <1>10 DEF TraceInv

\* The watcher reads the state.
LEMMA StepWatchRefresh == TraceInv /\ WatchRefresh => TraceInv'
<1> SUFFICES ASSUME TraceInv, WatchRefresh PROVE TraceInv'
  OBVIOUS
<1>1. "watch" \in Senders
  OBVIOUS
<1>2. /\ sending' \in [Senders -> [from: 0..MaxLog, to: 0..MaxLog, state: Results \cup {Running}]]
      /\ sending'["watch"].state = state
      /\ \A q \in Senders \ {"watch"} : sending'[q] = sending[q]
  BY <1>1, ReadStateFacts DEF TraceInv, WatchRefresh
<1>3. TypeOK'
  BY <1>2, TraceAssumption DEF TraceInv, WatchRefresh, TypeOK, WatcherPC, JobPC
<1>4. SentInOrder' /\ OneSender' /\ ReadsValid'
  BY <1>2 DEF TraceInv, WatchRefresh, TypeOK, SentInOrder, OneSender, ReadsValid
<1>5. ResultSet' /\ LogSent' /\ AbortAnswered'
  BY <1>2 DEF TraceInv, WatchRefresh, TypeOK, ResultSet, LogSent, AbortAnswered
<1>6. CancelledByGitLab' /\ ResultFaithful' /\ ResultDelivered'
  BY <1>2 DEF TraceInv, WatchRefresh, TypeOK, CancelledByGitLab, ResultFaithful, ResultDelivered
<1> QED
  BY <1>3, <1>4, <1>5, <1>6 DEF TraceInv

\* The watcher has nothing to report.
LEMMA StepWatchIdle == TraceInv /\ WatchIdle => TraceInv'
<1> SUFFICES ASSUME TraceInv, WatchIdle PROVE TraceInv'
  OBVIOUS
<1>1. TypeOK'
  BY TraceAssumption DEF TraceInv, WatchIdle, TypeOK, WatcherPC, JobPC
<1>2. SentInOrder' /\ OneSender' /\ ReadsValid'
  BY DEF TraceInv, WatchIdle, TypeOK, SentInOrder, OneSender, ReadsValid
<1>3. ResultSet' /\ LogSent' /\ AbortAnswered'
  BY DEF TraceInv, WatchIdle, TypeOK, ResultSet, LogSent, AbortAnswered
<1>4. CancelledByGitLab' /\ ResultFaithful' /\ ResultDelivered'
  BY DEF TraceInv, WatchIdle, TypeOK, CancelledByGitLab, ResultFaithful, ResultDelivered
<1> QED
  BY <1>1, <1>2, <1>3, <1>4 DEF TraceInv

\* The watcher's update may carry the result, and then its reason.
LEMMA StepWatchUpdate == TraceInv /\ WatchUpdate => TraceInv'
<1> SUFFICES ASSUME TraceInv, WatchUpdate PROVE TraceInv'
  OBVIOUS
<1>1. PICK answer \in UpdateStates : sendUpdate("watch", answer) /\ watcher' = IF answer = "Abort" THEN "abort" ELSE "wait"
  BY DEF WatchUpdate
<1>2. "watch" \in Senders
  OBVIOUS
<1>3. sending["watch"].state \in {Running, state} /\ sending["watch"].state \in Results \cup {Running}
  BY <1>2 DEF WatchUpdate, TraceInv, ReadsValid, TypeOK
<1>4. /\ faults' \in 0..MaxFaults /\ remoteLog' = remoteLog
      /\ sentState' \in {sentState, sending["watch"].state}
      /\ \/ remoteJob' = remoteJob
         \/ /\ sending["watch"].state # Running /\ remoteJob.state = Running
            /\ remoteJob' = [state |-> sending["watch"].state, reason |-> failureReason]
      /\ answer = "Abort" => remoteJob.state # Running
      /\ answer # "Failed" => remoteJob'.state # Running \/ sending["watch"].state = Running
      /\ UNCHANGED <<state, failureReason, sentTrace, cancelFunc>>
  BY <1>1, <1>2, UpdateFacts
<1>5. UNCHANGED <<log, rest, sending>> /\ UNCHANGED job /\ watcher = "update"
  BY DEF WatchUpdate
<1>6. watcher' \in {"abort", "wait"} /\ (watcher' = "abort" => answer = "Abort")
  BY <1>1
<1>7. TypeOK'
  BY <1>3, <1>4, <1>5, <1>6, TraceAssumption DEF TraceInv, TypeOK, WatcherPC, JobPC
<1>8. SentInOrder' /\ OneSender' /\ ReadsValid'
  BY <1>3, <1>4, <1>5, <1>6 DEF TraceInv, TypeOK, SentInOrder, OneSender, ReadsValid
<1>9. ResultSet' /\ LogSent' /\ AbortAnswered'
  BY <1>3, <1>4, <1>5, <1>6 DEF TraceInv, TypeOK, ResultSet, LogSent, AbortAnswered
<1>10. CancelledByGitLab' /\ ResultFaithful' /\ ResultDelivered'
  BY <1>3, <1>4, <1>5, <1>6 DEF TraceInv, TypeOK, CancelledByGitLab, ResultFaithful, ResultDelivered
<1> QED
  BY <1>7, <1>8, <1>9, <1>10 DEF TraceInv

\* The watcher cancels the build, or finds no cancelFunc.
LEMMA StepAbort == TraceInv /\ Abort => TraceInv'
<1> SUFFICES ASSUME TraceInv, Abort PROVE TraceInv'
  OBVIOUS
<1>1. TypeOK'
  BY TraceAssumption DEF TraceInv, Abort, TypeOK, WatcherPC, JobPC
<1>2. SentInOrder' /\ OneSender' /\ ReadsValid'
  BY DEF TraceInv, Abort, TypeOK, SentInOrder, OneSender, ReadsValid
<1>3. ResultSet' /\ LogSent' /\ AbortAnswered'
  BY DEF TraceInv, Abort, TypeOK, ResultSet, LogSent, AbortAnswered
<1>4. CancelledByGitLab' /\ ResultFaithful' /\ ResultDelivered'
  BY DEF TraceInv, Abort, TypeOK, AbortAnswered, CancelledByGitLab, ResultFaithful, ResultDelivered
<1> QED
  BY <1>1, <1>2, <1>3, <1>4 DEF TraceInv

\* The whole log is shown.
LEMMA StepClose == TraceInv /\ Close => TraceInv'
<1> SUFFICES ASSUME TraceInv, Close PROVE TraceInv'
  OBVIOUS
<1>1. TypeOK'
  BY TraceAssumption DEF TraceInv, Close, TypeOK, WatcherPC, JobPC
<1>2. SentInOrder' /\ OneSender' /\ ReadsValid'
  BY DEF TraceInv, Close, TypeOK, SentInOrder, OneSender, ReadsValid
<1>3. ResultSet' /\ LogSent' /\ AbortAnswered'
  BY DEF TraceInv, Close, TypeOK, ResultSet, LogSent, AbortAnswered
<1>4. CancelledByGitLab' /\ ResultFaithful' /\ ResultDelivered'
  BY DEF TraceInv, Close, TypeOK, CancelledByGitLab, ResultFaithful, ResultDelivered
<1> QED
  BY <1>1, <1>2, <1>3, <1>4 DEF TraceInv

\* The watcher stops, and only then finish goes on.
LEMMA StepFinish == TraceInv /\ Finish => TraceInv'
<1> SUFFICES ASSUME TraceInv, Finish PROVE TraceInv'
  OBVIOUS
<1>1. TypeOK'
  BY TraceAssumption DEF TraceInv, Finish, TypeOK, WatcherPC, JobPC
<1>2. SentInOrder' /\ OneSender' /\ ReadsValid'
  BY DEF TraceInv, Finish, TypeOK, SentInOrder, OneSender, ReadsValid
<1>3. ResultSet' /\ LogSent' /\ AbortAnswered'
  BY DEF TraceInv, Finish, TypeOK, ResultSet, LogSent, AbortAnswered
<1>4. CancelledByGitLab' /\ ResultFaithful' /\ ResultDelivered'
  BY DEF TraceInv, Finish, TypeOK, CancelledByGitLab, ResultFaithful, ResultDelivered
<1> QED
  BY <1>1, <1>2, <1>3, <1>4 DEF TraceInv

\* finish reads the log, or finds it all sent.
LEMMA StepFinalTraceUpdate == TraceInv /\ finalTraceUpdate => TraceInv'
<1> SUFFICES ASSUME TraceInv, finalTraceUpdate PROVE TraceInv'
  OBVIOUS
<1>1. CASE ReadTrace("finish") /\ job' = "patch"
  <2>1. "finish" \in Senders
    OBVIOUS
  <2>2. /\ sending' \in [Senders -> [from: 0..MaxLog, to: 0..MaxLog, state: Results \cup {Running}]]
        /\ sending'["finish"].from = sentTrace /\ sending'["finish"].to \in (sentTrace + 1)..log
        /\ \A q \in Senders \ {"finish"} : sending'[q] = sending[q]
    BY <1>1, <2>1, ReadTraceFacts DEF TraceInv
  <2>3. TypeOK'
    BY <1>1, <2>2 DEF TraceInv, finalTraceUpdate, TypeOK, WatcherPC, JobPC
  <2>4. SentInOrder' /\ OneSender' /\ ReadsValid'
    BY <1>1, <2>2 DEF TraceInv, finalTraceUpdate, TypeOK, SentInOrder, OneSender, ReadsValid
  <2>5. ResultSet' /\ LogSent' /\ AbortAnswered'
    BY <1>1, <2>2 DEF TraceInv, finalTraceUpdate, TypeOK, ResultSet, LogSent, AbortAnswered
  <2>6. CancelledByGitLab' /\ ResultFaithful' /\ ResultDelivered'
    BY <1>1, <2>2 DEF TraceInv, finalTraceUpdate, TypeOK, CancelledByGitLab, ResultFaithful, ResultDelivered
  <2> QED
    BY <2>3, <2>4, <2>5, <2>6 DEF TraceInv
<1>2. CASE log = sentTrace /\ job' = "status" /\ UNCHANGED sending
  <2>1. TypeOK'
    BY <1>2 DEF TraceInv, finalTraceUpdate, TypeOK, WatcherPC, JobPC
  <2>2. SentInOrder' /\ OneSender' /\ ReadsValid'
    BY <1>2 DEF TraceInv, finalTraceUpdate, TypeOK, SentInOrder, OneSender, ReadsValid
  <2>3. ResultSet' /\ LogSent' /\ AbortAnswered'
    BY <1>2 DEF TraceInv, finalTraceUpdate, TypeOK, SentInOrder, ResultSet, LogSent, AbortAnswered
  <2>4. CancelledByGitLab' /\ ResultFaithful' /\ ResultDelivered'
    BY <1>2 DEF TraceInv, finalTraceUpdate, TypeOK, CancelledByGitLab, ResultFaithful, ResultDelivered
  <2> QED
    BY <2>1, <2>2, <2>3, <2>4 DEF TraceInv
<1> QED
  BY <1>1, <1>2 DEF finalTraceUpdate

\* finish leaves the log only when GitLab refuses it.
LEMMA StepFinalPatch == TraceInv /\ FinalPatch => TraceInv'
<1> SUFFICES ASSUME TraceInv, FinalPatch PROVE TraceInv'
  OBVIOUS
<1>1. PICK answer \in UpdateStates : sendPatch("finish", answer) /\ job' = IF answer \in {"Abort", "NotFound"} THEN "status" ELSE "trace"
  BY DEF FinalPatch
<1>2. "finish" \in Senders
  OBVIOUS
<1>3. sending["finish"].from = sentTrace /\ sending["finish"].to \in (sentTrace + 1)..log
  BY DEF FinalPatch, TraceInv, OneSender, ReadsValid
<1>4. /\ sentTrace' \in 0..MaxLog /\ remoteLog' \in 0..MaxLog /\ faults' \in 0..MaxFaults
      /\ sentTrace' <= remoteLog' /\ remoteLog' <= log /\ remoteLog <= remoteLog'
      /\ answer \in {"Abort", "NotFound"} => remoteJob.state # Running
      /\ remoteJob' = remoteJob
      /\ UNCHANGED <<state, failureReason, sentState, cancelFunc>>
  BY <1>1, <1>2, <1>3, PatchFacts
<1>5. UNCHANGED <<log, rest, sending>> /\ UNCHANGED watcher /\ job = "patch"
  BY DEF FinalPatch
<1>6. job' \in {"status", "trace"} /\ (job' = "status" => answer \in {"Abort", "NotFound"})
  BY <1>1
<1>7. TypeOK'
  BY <1>3, <1>4, <1>5, <1>6, TraceAssumption DEF TraceInv, TypeOK, WatcherPC, JobPC
<1>8. SentInOrder' /\ OneSender' /\ ReadsValid'
  BY <1>3, <1>4, <1>5, <1>6 DEF TraceInv, TypeOK, SentInOrder, OneSender, ReadsValid
<1>9. ResultSet' /\ LogSent' /\ AbortAnswered'
  BY <1>3, <1>4, <1>5, <1>6 DEF TraceInv, TypeOK, ResultSet, LogSent, AbortAnswered
<1>10. CancelledByGitLab' /\ ResultFaithful' /\ ResultDelivered'
  BY <1>3, <1>4, <1>5, <1>6 DEF TraceInv, TypeOK, CancelledByGitLab, ResultFaithful, ResultDelivered
<1> QED
  BY <1>7, <1>8, <1>9, <1>10 DEF TraceInv

\* finish reads the result.
LEMMA StepFinalStatusUpdate == TraceInv /\ finalStatusUpdate => TraceInv'
<1> SUFFICES ASSUME TraceInv, finalStatusUpdate PROVE TraceInv'
  OBVIOUS
<1>1. "finish" \in Senders
  OBVIOUS
<1>2. /\ sending' \in [Senders -> [from: 0..MaxLog, to: 0..MaxLog, state: Results \cup {Running}]]
      /\ sending'["finish"].state = state
      /\ \A q \in Senders \ {"finish"} : sending'[q] = sending[q]
  BY <1>1, ReadStateFacts DEF TraceInv, finalStatusUpdate
<1>3. TypeOK'
  BY <1>2, TraceAssumption DEF TraceInv, finalStatusUpdate, TypeOK, WatcherPC, JobPC
<1>4. SentInOrder' /\ OneSender' /\ ReadsValid'
  BY <1>2 DEF TraceInv, finalStatusUpdate, TypeOK, SentInOrder, OneSender, ReadsValid
<1>5. ResultSet' /\ LogSent' /\ AbortAnswered'
  BY <1>2 DEF TraceInv, finalStatusUpdate, TypeOK, ResultSet, LogSent, AbortAnswered
<1>6. CancelledByGitLab' /\ ResultFaithful' /\ ResultDelivered'
  BY <1>2 DEF TraceInv, finalStatusUpdate, TypeOK, CancelledByGitLab, ResultFaithful, ResultDelivered
<1> QED
  BY <1>3, <1>4, <1>5, <1>6 DEF TraceInv

\* finish stops when GitLab has the result or refuses it.
LEMMA StepFinalUpdate == TraceInv /\ FinalUpdate => TraceInv'
<1> SUFFICES ASSUME TraceInv, FinalUpdate PROVE TraceInv'
  OBVIOUS
<1>1. PICK answer \in UpdateStates : sendUpdate("finish", answer) /\ job' = IF answer = "Failed" THEN "status" ELSE "reported"
  BY DEF FinalUpdate
<1>2. "finish" \in Senders
  OBVIOUS
<1>3. sending["finish"].state \in {Running, state} /\ sending["finish"].state \in Results \cup {Running}
  BY <1>2 DEF FinalUpdate, TraceInv, ReadsValid, TypeOK
<1>4. /\ faults' \in 0..MaxFaults /\ remoteLog' = remoteLog
      /\ sentState' \in {sentState, sending["finish"].state}
      /\ \/ remoteJob' = remoteJob
         \/ /\ sending["finish"].state # Running /\ remoteJob.state = Running
            /\ remoteJob' = [state |-> sending["finish"].state, reason |-> failureReason]
      /\ answer = "Abort" => remoteJob.state # Running
      /\ answer # "Failed" => remoteJob'.state # Running \/ sending["finish"].state = Running
      /\ UNCHANGED <<state, failureReason, sentTrace, cancelFunc>>
  BY <1>1, <1>2, UpdateFacts
<1>5. UNCHANGED <<log, rest, sending>> /\ UNCHANGED watcher /\ job = "update"
  BY DEF FinalUpdate
<1>6. job' \in {"status", "reported"} /\ (job' = "reported" => answer # "Failed")
  BY <1>1
<1>7. TypeOK'
  BY <1>3, <1>4, <1>5, <1>6, TraceAssumption DEF TraceInv, TypeOK, WatcherPC, JobPC
<1>8. SentInOrder' /\ OneSender' /\ ReadsValid'
  BY <1>3, <1>4, <1>5, <1>6 DEF TraceInv, TypeOK, SentInOrder, OneSender, ReadsValid
<1>9. ResultSet' /\ LogSent' /\ AbortAnswered'
  BY <1>3, <1>4, <1>5, <1>6 DEF TraceInv, TypeOK, ResultSet, LogSent, AbortAnswered
<1>10. CancelledByGitLab' /\ ResultFaithful' /\ ResultDelivered'
  BY <1>3, <1>4, <1>5, <1>6 DEF TraceInv, TypeOK, OneSender, ReadsValid, ResultSet, CancelledByGitLab, ResultFaithful, ResultDelivered
<1> QED
  BY <1>7, <1>8, <1>9, <1>10 DEF TraceInv

\* Every step preserves the invariant.
LEMMA NextInv == TraceInv /\ [Next]_vars => TraceInv'
<1> SUFFICES ASSUME TraceInv, [Next]_vars PROVE TraceInv'
  OBVIOUS
<1>1. CASE UNCHANGED vars
  BY <1>1 DEF TraceInv, TypeOK, SentInOrder, OneSender, ReadsValid, ResultSet, LogSent,
              AbortAnswered, CancelledByGitLab, ResultFaithful, ResultDelivered
<1>2. CASE CancelJob \/ Write \/ Advance \/ SetCancelFunc \/ JobEnds
  BY <1>2, StepCancelJob, StepWrite, StepAdvance, StepSetCancelFunc, StepJobEnds
<1>3. CASE Watch
  BY <1>3, StepWatchTick, StepWatchPatch, StepWatchRefresh, StepWatchIdle, StepWatchUpdate, StepAbort
     DEF Watch
<1>4. CASE ReportStep
  BY <1>4, StepClose, StepFinish, StepFinalTraceUpdate, StepFinalPatch, StepFinalStatusUpdate,
     StepFinalUpdate DEF ReportStep
<1> QED
  BY <1>1, <1>2, <1>3, <1>4 DEF Next, Done

\* TraceInv holds in every reachable state.
THEOREM TraceCorrect == Spec => []TraceInv
<1>1. Init => TraceInv
  BY InitInv
<1>2. TraceInv /\ [Next]_vars => TraceInv'
  BY NextInv
<1> QED
  BY <1>1, <1>2, PTL DEF Spec

\* Every variable of the job trace keeps its type.
THEOREM TraceTypeCorrect == Spec => []TypeOK
<1>1. TraceInv => TypeOK
  BY DEF TraceInv
<1> QED
  BY <1>1, TraceCorrect, PTL

\* sendPatch never skips a part of the log nor slices out of range, whatever
\* requests and answers are lost.
THEOREM AlwaysSentInOrder == Spec => []SentInOrder
<1>1. TraceInv => SentInOrder
  BY DEF TraceInv
<1> QED
  BY <1>1, TraceCorrect, PTL

\* The watcher and finish never send at the same time.
THEOREM AlwaysOneSender == Spec => []OneSender
<1>1. TraceInv => OneSender
  BY DEF TraceInv
<1> QED
  BY <1>1, TraceCorrect, PTL

\* GitLab never has a result, or a reason, other than the job's first one.
THEOREM ResultAlwaysFaithful == Spec => []ResultFaithful
<1>1. TraceInv => ResultFaithful
  BY DEF TraceInv
<1> QED
  BY <1>1, TraceCorrect, PTL

\* Fail and Success return only when GitLab has a result or has ended the job.
THEOREM ResultAlwaysDelivered == Spec => []ResultDelivered
<1>1. TraceInv => ResultDelivered
  BY DEF TraceInv
<1> QED
  BY <1>1, TraceCorrect, PTL

\* Only GitLab's answer makes the watcher cancel a build.
THEOREM AlwaysCancelledByGitLab == Spec => []CancelledByGitLab
<1>1. TraceInv => CancelledByGitLab
  BY DEF TraceInv
<1> QED
  BY <1>1, TraceCorrect, PTL

\* finish reports the result only after the whole log.
THEOREM LogAlwaysBeforeResult == Spec => LogBeforeResult
<1>1. TraceInv => (job = "update" /\ remoteJob.state = Running => remoteLog = log + rest)
  BY DEF TraceInv, TypeOK, LogSent, ResultSet
<1>2. TraceInv /\ [Next]_vars
        => [job = "update" /\ remoteJob'.state \in Results /\ remoteJob.state = Running
              => remoteLog = log + rest]_vars
  BY <1>1
<1> QED
  BY <1>2, TraceCorrect, PTL DEF Spec, LogBeforeResult

(* The refinement: every step of the goroutines is a step of JobReport or   *)
(* changes nothing it speaks of.                                            *)

\* A patch GitLab takes is a Receive; any other answer changes nothing there.
LEMMA PatchRefines ==
  ASSUME TraceInv, NEW s \in Senders, NEW answer \in UpdateStates, sendPatch(s, answer),
         sending[s].from = sentTrace, sending[s].to \in (sentTrace + 1)..log,
         UNCHANGED <<log, rest>>
  PROVE  Report!Receive \/ UNCHANGED Report!vars
<1>1. PICK offset \in 0..MaxLog : PatchTrace(sending[s].from, sending[s].to, answer, offset)
  BY DEF sendPatch
<1>2. remoteLog' = remoteLog \/ (remoteJob.state = Running /\ remoteLog' = sending[s].to /\ remoteLog = sentTrace)
  BY <1>1 DEF PatchTrace
<1>3. UNCHANGED <<state, failureReason, remoteJob>>
  BY <1>1 DEF sendPatch, PatchTrace
<1>4. log \in Nat /\ rest \in Nat /\ remoteLog \in Nat /\ sentTrace \in Nat
  BY TraceAssumption DEF TraceInv, TypeOK
<1>5. CASE remoteLog' = remoteLog
  BY <1>3, <1>5 DEF Report!vars
<1>6. CASE remoteJob.state = Running /\ remoteLog' = sending[s].to /\ remoteLog = sentTrace
  <2>1. remoteLog' \in (remoteLog + 1)..(log + rest)
    BY <1>4, <1>6
  <2> QED
    BY <1>3, <1>6, <2>1 DEF Report!Receive
<1> QED
  BY <1>2, <1>5, <1>6

\* An update GitLab takes with a result is a Report.
LEMMA UpdateRefines ==
  ASSUME TraceInv, NEW s \in Senders, NEW answer \in UpdateStates, sendUpdate(s, answer),
         sending[s].state \in {Running, state}, UNCHANGED <<log, rest>>
  PROVE  Report!Report \/ UNCHANGED Report!vars
<1>1. /\ UNCHANGED <<state, failureReason, remoteLog>>
      /\ \/ remoteJob' = remoteJob
         \/ /\ sending[s].state # Running /\ remoteJob.state = Running
            /\ remoteJob' = [state |-> sending[s].state, reason |-> failureReason]
  BY UpdateFacts
<1> QED
  BY <1>1 DEF Report!Report, Report!vars

\* Every step maps to a step or a stutter.
LEMMA StepRefines == TraceInv /\ [Next]_vars => [Report!Next]_Report!vars
<1> SUFFICES ASSUME TraceInv, [Next]_vars PROVE Report!Next \/ UNCHANGED Report!vars
  OBVIOUS
<1>1. CASE UNCHANGED vars
  BY <1>1 DEF Report!vars
<1>2. CASE CancelJob
  BY <1>2 DEF CancelJob, Report!Next, Report!Withdraw
<1>3. CASE Write
  <2>1. log \in Nat /\ rest \in Nat /\ state = Running
    BY <1>3, TraceAssumption DEF Write, TraceInv, TypeOK, ResultSet
  <2>2. log' + rest' = (log + rest) + 1
    BY <1>3, <2>1 DEF Write
  <2> QED
    BY <1>3, <2>1, <2>2 DEF Write, Report!Next, Report!Write
<1>4. CASE Advance \/ Close
  <2>1. log \in Nat /\ rest \in Nat
    BY TraceAssumption DEF TraceInv, TypeOK
  <2>2. log' + rest' = log + rest
    BY <1>4, <2>1 DEF Advance, Close
  <2> QED
    BY <1>4, <2>2 DEF Advance, Close, Report!vars
<1>5. CASE JobEnds
  <2>1. PICK res \in Results, r \in Reasons \cup {NoneFailure} :
          Fail(res, r) /\ [state |-> res, reason |-> r] \in Report!Given
    BY <1>5 DEF JobEnds, Report!Given
  <2>2. CASE state # Running
    BY <2>1, <2>2 DEF Fail, Report!vars
  <2>3. CASE state = Running
    BY <2>1, <2>3 DEF Fail, Report!Next, Report!End
  <2> QED
    BY <2>2, <2>3
<1>6. CASE WatchPatch
  <2>1. PICK answer \in UpdateStates : sendPatch("watch", answer)
    BY <1>6 DEF WatchPatch
  <2>2. sending["watch"].from = sentTrace /\ sending["watch"].to \in (sentTrace + 1)..log
    BY <1>6 DEF WatchPatch, TraceInv, OneSender, ReadsValid
  <2> QED
    BY <1>6, <2>1, <2>2, PatchRefines DEF WatchPatch, Report!Next
<1>7. CASE FinalPatch
  <2>1. PICK answer \in UpdateStates : sendPatch("finish", answer)
    BY <1>7 DEF FinalPatch
  <2>2. sending["finish"].from = sentTrace /\ sending["finish"].to \in (sentTrace + 1)..log
    BY <1>7 DEF FinalPatch, TraceInv, OneSender, ReadsValid
  <2> QED
    BY <1>7, <2>1, <2>2, PatchRefines DEF FinalPatch, Report!Next
<1>8. CASE WatchUpdate
  <2>1. PICK answer \in UpdateStates : sendUpdate("watch", answer)
    BY <1>8 DEF WatchUpdate
  <2>2. sending["watch"].state \in {Running, state}
    BY <1>8 DEF WatchUpdate, TraceInv, ReadsValid
  <2> QED
    BY <1>8, <2>1, <2>2, UpdateRefines DEF WatchUpdate, Report!Next
<1>9. CASE FinalUpdate
  <2>1. PICK answer \in UpdateStates : sendUpdate("finish", answer)
    BY <1>9 DEF FinalUpdate
  <2>2. sending["finish"].state \in {Running, state}
    BY <1>9 DEF FinalUpdate, TraceInv, ReadsValid
  <2> QED
    BY <1>9, <2>1, <2>2, UpdateRefines DEF FinalUpdate, Report!Next
<1>10. CASE SetCancelFunc \/ WatchTick \/ WatchRefresh \/ WatchIdle \/ Abort
  BY <1>10 DEF SetCancelFunc, WatchTick, WatchRefresh, WatchIdle, Abort, Report!vars
<1>11. CASE Finish \/ finalTraceUpdate \/ finalStatusUpdate \/ Done
  BY <1>11 DEF Finish, finalTraceUpdate, finalStatusUpdate, Done, Report!vars
<1> QED
  BY <1>1, <1>2, <1>3, <1>4, <1>5, <1>6, <1>7, <1>8, <1>9, <1>10, <1>11
     DEF Next, Watch, ReportStep

\* The two goroutines of network/trace.go, with every fault of the network,
\* implement JobReport.
THEOREM TraceRefinesReport == Spec => ReportsJob
<1>1. Init => Report!Init
  BY DEF Init, Report!Init, Report!Open
<1>2. TraceInv /\ [Next]_vars => [Report!Next]_Report!vars
  BY StepRefines
<1> QED
  BY <1>1, <1>2, TraceCorrect, PTL DEF Spec, ReportsJob, Report!Spec
=============================================================================
