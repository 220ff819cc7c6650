--------------------------- MODULE ConfigCommands ---------------------------
(***************************************************************************)
(* The commands that keep config.toml and GitLab's list of runners in      *)
(* step: register, unregister and verify (commands/).  Each loads the      *)
(* file, talks to GitLab, and writes the whole file back.  There is no     *)
(* lock: several of them may run at the same time.  The administrator may  *)
(* interrupt one at any moment, and remove runners in GitLab.              *)
(*                                                                         *)
(* A runner is its token and whether its settings name TLS files, which    *)
(* credentials given on the command line do not.  Its name is its token.   *)
(***************************************************************************)
EXTENDS Naturals, Sequences, SequencesExt, TLC

CONSTANTS
  Procs,         \* processes of the runner's binary
  NewToken(_),   \* the token GitLab makes for a registration by a process
  Old,           \* the runners in the file at first
  ConfigCalls,   \* the command lines
  LaterCalls,    \* those of one more command, run when another has ended
  MaxFaults      \* answers lost, files not read or written, interrupts

ASSUME ConfigAssumption == MaxFaults \in Nat

VARIABLES
  file,      \* config.toml's runners
  fileIs,    \* "whole", "empty" while it is written, "mixed" from two writers
  gitlab,    \* the tokens GitLab knows
  excused,   \* tokens whose entry went missing for a reason named below (history)
  faults,    \* faults so far
  cp         \* process -> its state

configVars == <<file, fileIs, gitlab, excused, faults, cp>>

NoToken  == "none"
Start(c) == [at |-> "load", call |-> c, runners |-> <<>>, todo |-> <<>>, keep |-> <<>>,
             token |-> NoToken, registered |-> FALSE, handler |-> "none", later |-> FALSE]
Exited   == [Start([name |-> NoToken]) EXCEPT !.at = "exit"]

TokensOf(l) == {l[i].token : i \in DOMAIN l}
InFile      == IF fileIs = "whole" THEN TokensOf(file) ELSE {}

ConfigInit ==
  /\ file = Old /\ fileIs = "whole" /\ gitlab = TokensOf(Old)
  /\ excused = {} /\ faults = 0
  /\ \E calls \in [Procs -> ConfigCalls] : cp = [p \in Procs |-> Start(calls[p])]

Is(p, n, a) == cp[p].call.name = n /\ cp[p].at = a
To(p, r)    == cp' = [cp EXCEPT ![p] = r @@ cp[p]]
Quit(p)     == cp' = [cp EXCEPT ![p] = [Exited EXCEPT !.later = cp[p].later]]
Excuse(ts)  == excused' = excused \cup ts
Fault       == faults < MaxFaults /\ faults' = faults + 1
Well        == UNCHANGED faults
theFile     == <<file, fileIs>>

\* The process ends in the middle of what it was doing: its registration is not
\* written, and the file stays as it is, be it empty.
Dies(p) ==
  /\ Quit(p)
  /\ Excuse((IF cp[p].registered THEN {cp[p].token} ELSE {})
              \cup (IF cp[p].at = "write" THEN TokensOf(file \o cp[p].keep) ELSE {}))

\* --- GitLab's answers ---------------------------------------------------------------
\* doJSON gives the status of the answer, or clientError: no connection, no answer,
\* or one that is not JSON.
Answers == {"ok", "forbidden", "clientError", "other"}

\* Variant of VerifyRunner: a runner that cannot be verified is taken for removed.
VerifyRunnerStrictly(answer) == answer = "ok"
\* VerifyRunner: only a 403 says that the runner is gone.
VerifyRunner(answer) == answer # "forbidden"
UnregisterRunner(answer) == answer = "ok"

\* Asked about a runner, GitLab says that it is there or not, or fails to say.
AskVerify(t) == {a \in Answers : IF t \in gitlab THEN a # "forbidden" ELSE a # "ok"}

\* Asked to remove one, it does and says so, does and is not heard, or does not.
AskUnregister(t, a) ==
  \/ a = "ok" /\ t \in gitlab /\ gitlab' = gitlab \ {t} /\ Well
  \/ a = "clientError" /\ t \in gitlab /\ gitlab' = gitlab \ {t} /\ Fault
  \/ a = "forbidden" /\ t \notin gitlab /\ UNCHANGED gitlab /\ Well
  \/ a \in {"clientError", "other"} /\ UNCHANGED gitlab /\ Fault

\* --- The file -------------------------------------------------------------------------
\* loadConfig: a file that is empty for the moment has no runners.  One that cannot
\* be read or decoded ends the command.
loadConfig(p) ==
  /\ cp[p].at = "load"
  /\ \/ fileIs # "mixed" /\ Well
        /\ To(p, [at |-> "loaded", runners |-> IF fileIs = "empty" THEN <<>> ELSE file])
     \/ fileIs = "mixed" /\ Well /\ Quit(p)
     \/ Fault /\ Quit(p)
  /\ UNCHANGED <<theFile, gitlab, excused>>

\* saveConfig: WriteFile empties the file and writes it.  What others have added
\* since it was loaded is lost.  A failure is fatal, or unnoticed by register.
saveConfig(p) ==
  /\ cp[p].at = "save"
  /\ \/ /\ To(p, [at |-> "write"]) /\ fileIs' = "empty" /\ Well
        /\ Excuse(InFile \ TokensOf(cp[p].runners))
     \/ Dies(p) /\ Fault /\ UNCHANGED fileIs
  /\ UNCHANGED <<file, gitlab>>

\* Two writers that both emptied the file write over each other.
write(p) ==
  /\ cp[p].at = "write"
  /\ \/ /\ file' = cp[p].keep /\ fileIs' = "whole" /\ Quit(p) /\ Well
        /\ Excuse(InFile \ TokensOf(cp[p].runners))
     \/ /\ fileIs = "whole" /\ fileIs' = "mixed" /\ UNCHANGED file /\ Well /\ Dies(p)
     \/ Dies(p) /\ Fault /\ UNCHANGED theFile
  /\ UNCHANGED gitlab

\* verify without --delete changes nothing.
mayDelete(p) == cp[p].call.name = "verify" => cp[p].call.delete

\* The command is done, without a change or with one that it has to write.
decide(p) ==
  /\ cp[p].at = "decide"
  /\ IF Len(cp[p].keep) # Len(cp[p].runners) /\ mayDelete(p)
     THEN To(p, [at |-> "save"]) ELSE Quit(p)
  /\ UNCHANGED <<theFile, gitlab, excused, faults>>

\* --- unregister and verify ----------------------------------------------------------------
\* RunnerByName: the first runner of that name, the empty sequence if there is none.
RunnerByName(p, name) ==
  LET named == SelectSeq(cp[p].runners, LAMBDA r : r.token = name)
  IN  IF named = <<>> THEN <<>> ELSE <<Head(named)>>

\* unregisterSingleRunner: by name, with the credentials in the file, or by token.
unregisterSingleRunner(p) ==
  /\ Is(p, "unregister", "loaded") /\ cp[p].call.which # "all"
  /\ LET found == IF cp[p].call.which = "name" THEN RunnerByName(p, cp[p].call.token)
                  ELSE <<[token |-> cp[p].call.token, tls |-> FALSE]>>
     IN  \/ found = <<>> /\ Quit(p) /\ UNCHANGED <<gitlab, faults>>
         \/ /\ found # <<>>
            /\ \E a \in Answers :
                 /\ AskUnregister(found[1].token, a)
                 /\ IF UnregisterRunner(a)
                    THEN To(p, [at |-> "decide",
                                keep |-> SelectSeq(cp[p].runners, LAMBDA r : r # found[1])])
                    ELSE Quit(p)
  /\ UNCHANGED <<theFile, excused>>

\* selectRunners, and the start of unregisterAllRunners.
SameAs(r, c) == r.token = c.token
selectRunners(p) ==
  /\ cp[p].at = "loaded"
  /\ \/ /\ \/ cp[p].call.name = "unregister" /\ cp[p].call.which = "all"
           \/ cp[p].call.name = "verify" /\ cp[p].call.token = NoToken
        /\ To(p, [at |-> "each", todo |-> cp[p].runners])
     \/ /\ cp[p].call.name = "verify" /\ cp[p].call.token # NoToken
        /\ LET selected == SelectSeq(cp[p].runners, LAMBDA r : SameAs(r, cp[p].call))
           IN  IF selected = <<>> THEN Quit(p)
               ELSE To(p, [at |-> "each", todo |-> selected,
                           keep |-> SelectSeq(cp[p].runners, LAMBDA r : ~SameAs(r, cp[p].call))])
  /\ UNCHANGED <<theFile, gitlab, excused, faults>>

\* The loops over the runners: one that could not be unregistered is kept, and one
\* that may still exist.
Keep(p, kept) ==
  To(p, [todo |-> Tail(cp[p].todo),
         keep |-> IF kept THEN Append(cp[p].keep, Head(cp[p].todo)) ELSE cp[p].keep])

unregisterAllRunners(p) ==
  /\ Is(p, "unregister", "each")
  /\ \/ cp[p].todo = <<>> /\ To(p, [at |-> "decide"]) /\ UNCHANGED <<gitlab, faults>>
     \/ /\ cp[p].todo # <<>>
        /\ \E a \in Answers : /\ AskUnregister(Head(cp[p].todo).token, a)
                              /\ Keep(p, ~UnregisterRunner(a))
  /\ UNCHANGED <<theFile, excused>>

verifyRunners(p) ==
  /\ Is(p, "verify", "each")
  /\ \/ cp[p].todo = <<>> /\ To(p, [at |-> "decide"])
     \/ /\ cp[p].todo # <<>>
        /\ \E a \in AskVerify(Head(cp[p].todo).token) : Keep(p, VerifyRunner(a))
  /\ UNCHANGED <<theFile, gitlab, excused, faults>>

\* --- register -------------------------------------------------------------------------------
\* askRunner: a runner token is verified; otherwise GitLab registers a runner, perhaps
\* unheard.  Panics up to here leave at once: nothing is deferred yet.
RegisterRunner(p) ==
  LET new == NewToken(p)
  IN  \/ /\ gitlab' = gitlab \cup {new} /\ Well /\ UNCHANGED excused
         /\ To(p, [at |-> "registered", token |-> new, registered |-> TRUE])
      \/ gitlab' = gitlab \cup {new} /\ Fault /\ Quit(p) /\ Excuse({new})
      \/ Fault /\ Quit(p) /\ UNCHANGED <<gitlab, excused>>
accessLevelValid(p) == cp[p].call.valid

askRunner(p) ==
  /\ Is(p, "register", "loaded")
  /\ \/ ~accessLevelValid(p) /\ Quit(p) /\ UNCHANGED <<gitlab, excused, faults>>
     \/ /\ accessLevelValid(p) /\ cp[p].call.token # NoToken
        /\ \E a \in AskVerify(cp[p].call.token) :
             IF VerifyRunner(a) THEN To(p, [at |-> "registered", token |-> cp[p].call.token])
             ELSE Quit(p)
        /\ UNCHANGED <<gitlab, excused, faults>>
     \/ accessLevelValid(p) /\ cp[p].call.token = NoToken /\ RegisterRunner(p)
  /\ UNCHANGED theFile

\* The deferred function and the signal's handler are set up.
Notify(p) ==
  /\ cp[p].at = "registered"
  /\ To(p, [at |-> "executor", handler |-> IF cp[p].call.leave THEN "none" ELSE "armed"])
  /\ UNCHANGED <<theFile, gitlab, excused, faults>>

\* ask: an answer that is missing, on the command line or at the end of the input, is
\* a panic.  What is deferred by then runs, if it has anything to undo.
ask(p) ==
  /\ Fault
  /\ \/ cp[p].call.leave /\ Dies(p)
     \/ ~cp[p].call.leave /\ cp[p].registered /\ To(p, [at |-> "undo"]) /\ UNCHANGED excused
     \/ ~cp[p].call.leave /\ ~cp[p].registered /\ Quit(p) /\ UNCHANGED excused

askExecutor(p) ==
  /\ cp[p].at = "executor"
  /\ (To(p, [at |-> "options"]) /\ UNCHANGED <<excused, faults>>) \/ ask(p)
  /\ UNCHANGED <<theFile, gitlab>>

addRunner(p) == Append(cp[p].runners, [token |-> cp[p].token, tls |-> cp[p].call.tls])

askExecutorOptions(p) ==
  /\ cp[p].at = "options"
  /\ \/ To(p, [at |-> "save", keep |-> addRunner(p)]) /\ UNCHANGED <<excused, faults>>
     \/ ask(p)
  /\ UNCHANGED <<theFile, gitlab>>

\* The deferred function: UnregisterRunner, its answer is not looked at.
undo(p) ==
  /\ cp[p].at = "undo"
  /\ \E a \in Answers : /\ AskUnregister(cp[p].token, a)
                        /\ IF UnregisterRunner(a) THEN UNCHANGED excused ELSE Excuse({cp[p].token})
  /\ Quit(p)
  /\ UNCHANGED theFile

\* SIGINT wakes the handler, or ends a process that has none.
Interrupt(p) ==
  /\ cp[p].at # "exit" /\ Fault
  /\ \/ cp[p].handler = "none" /\ Dies(p)
     \/ cp[p].handler = "armed" /\ To(p, [handler |-> "awake"]) /\ UNCHANGED excused
  /\ UNCHANGED <<theFile, gitlab>>

\* The handler's goroutine unregisters the runner, even one it did not register, and
\* ends the process wherever the command is by then.
handlerUnregisters(p) ==
  /\ cp[p].handler = "awake"
  /\ \E a \in Answers : AskUnregister(cp[p].token, a)
  /\ To(p, [handler |-> "undone"])
  /\ UNCHANGED <<theFile, excused>>
handlerExits(p) ==
  /\ cp[p].handler = "undone" /\ Dies(p)
  /\ UNCHANGED <<theFile, gitlab, faults>>

\* The administrator runs another command.
Later(p) ==
  /\ cp[p].at = "exit" /\ \A q \in Procs : ~cp[q].later
  /\ \E c \in LaterCalls : cp' = [cp EXCEPT ![p] = [Start(c) EXCEPT !.later = TRUE]]
  /\ UNCHANGED <<theFile, gitlab, excused, faults>>

\* Someone removes a runner in GitLab.
Removed ==
  /\ \E t \in gitlab : gitlab' = gitlab \ {t}
  /\ UNCHANGED <<theFile, excused, faults, cp>>

ConfigNext ==
  \/ \E p \in Procs :
       \/ loadConfig(p) \/ saveConfig(p) \/ write(p) \/ decide(p)
       \/ unregisterSingleRunner(p) \/ selectRunners(p)
       \/ unregisterAllRunners(p) \/ verifyRunners(p)
       \/ askRunner(p) \/ Notify(p) \/ askExecutor(p)
       \/ askExecutorOptions(p) \/ undo(p)
       \/ Interrupt(p) \/ handlerUnregisters(p) \/ handlerExits(p)
       \/ Later(p)
  \/ Removed

\* A runner that GitLab knows, and would give jobs to, is in config.toml or in the hands
\* of a running command, except where the code lets go of it: a registration whose answer
\* was lost, that was interrupted, failed with --leave-runner, could not be undone or not
\* be saved; a file that was not written to the end; an entry that another command wrote
\* after the file was loaded.  So no unregister, by name, token or for all, and no
\* verify --delete drops an entry whose runner still exists, whatever GitLab answers,
\* and a register that fails without --leave-runner takes its registration back.
RunnersKept ==
  \A t \in gitlab :
    \/ t \in InFile \cup excused
    \/ \E p \in Procs : \/ cp[p].at # "exit" /\ cp[p].registered /\ cp[p].token = t
                        \/ cp[p].at = "write" /\ t \in TokensOf(cp[p].keep)
=============================================================================
