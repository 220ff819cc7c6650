------------------------------ MODULE Terminal ------------------------------
(***************************************************************************)
(* The interactive terminal of a job: the session of session/session.go,   *)
(* the proxying of session/terminal/terminal.go with the connections of    *)
(* the shell, docker and kubernetes executors, and Build.waitForTerminal,  *)
(* which holds a finished job back while its terminal is in use.           *)
(*                                                                         *)
(* TimeoutCh and DisconnectCh are unbuffered: a send happens together with *)
(* its receive.  The session's mutex is held over Connect, which for       *)
(* docker waits for the build container; every other critical section is   *)
(* one step.  Each client makes one request.                               *)
(***************************************************************************)
CONSTANTS
  Clients,     \* requests to the session's /exec endpoint
  Kinds,       \* executors with a terminal
  NoConn

VARIABLES
  kind,          \* the job's executor
  pc,            \* Build.Run: "create", "script", "check", "enter", "select",
                 \*   "timeout", "kill", "done"
  ctx,           \* the job's context: "live" or "ended"
  interrupt,     \* SystemInterrupt has a value
  available,     \* session.interactiveTerminal is set
  lock,          \* the client whose request holds the session's mutex
  conn,          \* session.terminalConn
  closed,        \* connections that Close was called on
  req,           \* a client's request: "none", "dial", "connect", "start",
                 \*   "proxy", "close", "refused", "over"
  handler,       \* the exit handler of its connection: "none", "wait", "over"
  disconnected,  \* clients whose channel disconnected holds its value
  stopCh         \* clients whose proxy was told to stop

session == <<available, lock, conn, closed>>
conns   == <<req, handler, disconnected, stopCh>>
vars    == <<kind, pc, ctx, interrupt, session, conns>>

Init ==
  /\ kind \in Kinds /\ pc = "create" /\ ctx = "live" /\ interrupt = FALSE
  /\ available = FALSE /\ lock = NoConn /\ conn = NoConn /\ closed = {}
  /\ req = [c \in Clients |-> "none"] /\ handler = [c \in Clients |-> "none"]
  /\ disconnected = {} /\ stopCh = {}

Free == lock = NoConn
To(c, r) == req' = [req EXCEPT ![c] = r]

\* --- The requests ------------------------------------------------------------
\* handleSessionRequest finds the session by the build, which is in the list until
\* its Run returns.
sessionFound == pc # "done"

\* execHandler: an authorised request for a websocket wants the terminal of a
\* prepared executor.
execHandler(c) ==
  /\ req[c] = "none"
  /\ To(c, IF sessionFound /\ available THEN "dial" ELSE "refused")
  /\ UNCHANGED <<kind, pc, ctx, interrupt, session, handler, disconnected, stopCh>>

\* newTerminalConn: one connection at a time.  Connect may take its time.
newTerminalConn(c) ==
  /\ req[c] = "dial" /\ Free
  /\ \/ conn # NoConn /\ To(c, "refused") /\ UNCHANGED lock
     \/ conn = NoConn /\ To(c, "connect") /\ lock' = c
  /\ UNCHANGED <<kind, pc, ctx, interrupt, available, conn, closed,
                 handler, disconnected, stopCh>>

\* The executor's Connect: a shell is started, the running build container is
\* found within 15 seconds, or the pod's settings are read; any of it may fail.
Connect(c) ==
  /\ req[c] = "connect" /\ lock' = NoConn
  /\ \/ conn' = c /\ To(c, "start")
     \/ UNCHANGED conn /\ To(c, "refused")
  /\ UNCHANGED <<kind, pc, ctx, interrupt, available, closed,
                 handler, disconnected, stopCh>>

\* Start: ProxyTerminal starts its exit handler and proxies.  For docker the exec
\* is created and attached to first, and a failure returns at once.
Start(c) ==
  /\ req[c] = "start"
  /\ \/ To(c, "proxy") /\ handler' = [handler EXCEPT ![c] = "wait"]
     \/ kind = "docker" /\ To(c, "close") /\ UNCHANGED handler
  /\ UNCHANGED <<kind, pc, ctx, interrupt, session, disconnected, stopCh>>

\* proxyFunc returns and the exit handler can hear of it.  disconnected has room
\* for one value, so this never waits.
ProxyReturns(c) ==
  /\ req[c] = "proxy" /\ To(c, "close") /\ disconnected' = disconnected \cup {c}
  /\ UNCHANGED <<kind, pc, ctx, interrupt, session, handler, stopCh>>

\* The client goes away when it likes.
ClientLeaves(c) == ProxyReturns(c)

\* A closed shell has no descriptor to copy from, and docker's cancelled context
\* ends waitForContainer, so the proxy stops.  Closing a kubernetes connection does
\* nothing.
CloseStops == kind # "kubernetes"

\* The proxy ends by itself once it is told to stop, or with its connection.
ProxyStops(c) ==
  /\ c \in stopCh \/ (c \in closed /\ CloseStops)
  /\ ProxyReturns(c)

\* The exit handler hears of the disconnection and passes it on, if waitForTerminal
\* is receiving at that moment.
nonBlockingSend(c) ==
  /\ handler[c] = "wait" /\ c \in disconnected
  /\ handler' = [handler EXCEPT ![c] = "over"] /\ disconnected' = disconnected \ {c}
  /\ pc' = IF pc = "select" THEN "done" ELSE pc
  /\ UNCHANGED <<kind, ctx, interrupt, session, req, stopCh>>

\* closeTerminalConn, after Start has returned.
closeTerminalConn(c) ==
  /\ req[c] = "close" /\ Free /\ To(c, "over")
  /\ closed' = closed \cup {c} /\ conn' = IF conn = c THEN NoConn ELSE conn
  /\ UNCHANGED <<kind, pc, ctx, interrupt, available, lock, handler, disconnected, stopCh>>

\* --- The build ---------------------------------------------------------------
\* run sets the terminal of the prepared executor, and returns when the script has
\* ended.
run ==
  /\ \/ pc = "create" /\ Free /\ available' = TRUE /\ pc' = "script"
     \/ pc = "script" /\ pc' = "check" /\ UNCHANGED available
  /\ UNCHANGED <<kind, ctx, interrupt, lock, conn, closed, conns>>

\* waitForTerminal: is the terminal connected?  The answer is used after the
\* session has been unlocked.
Connected ==
  /\ pc = "check" /\ Free
  /\ pc' = IF conn = NoConn THEN "done" ELSE "enter"
  /\ UNCHANGED <<kind, ctx, interrupt, session, conns>>

\* getTerminalTimeout and the message; then the select is entered.
enter ==
  /\ pc = "enter" /\ pc' = "select"
  /\ UNCHANGED <<kind, ctx, interrupt, session, conns>>

\* The select's own cases: the context, the timer (not later than the context) and
\* the shutdown.  The fourth, DisconnectCh, is nonBlockingSend.
select ==
  /\ pc = "select"
  /\ \/ (ctx = "ended" \/ interrupt) /\ pc' = "kill"
     \/ pc' = "timeout"
  /\ UNCHANGED <<kind, ctx, interrupt, session, conns>>

\* Session.Kill.
Kill ==
  /\ pc = "kill" /\ Free /\ pc' = "done"
  /\ closed' = closed \cup ({conn} \ {NoConn}) /\ conn' = NoConn
  /\ UNCHANGED <<kind, ctx, interrupt, available, lock, conns>>

\* TimeoutCh <- err, received by the exit handler of some connection, which passes
\* it on to its proxy.
sendTimeout(c) ==
  /\ pc = "timeout" /\ handler[c] = "wait"
  /\ pc' = "done" /\ handler' = [handler EXCEPT ![c] = "over"]
  /\ stopCh' = stopCh \cup {c}
  /\ UNCHANGED <<kind, ctx, interrupt, session, req, disconnected>>

\* The job times out or is cancelled.
ContextEnds ==
  /\ pc # "done" /\ ctx = "live" /\ ctx' = "ended"
  /\ UNCHANGED <<kind, pc, interrupt, session, conns>>

\* The runner is being stopped.
SystemInterrupt ==
  /\ pc # "done" /\ ~interrupt /\ interrupt' = TRUE
  /\ UNCHANGED <<kind, pc, ctx, session, conns>>

BuildNext == run \/ Connected \/ enter \/ select \/ Kill \/ \E c \in Clients : sendTimeout(c)
Serve(c)  == \/ newTerminalConn(c) \/ Connect(c) \/ Start(c) \/ ProxyStops(c)
             \/ nonBlockingSend(c) \/ closeTerminalConn(c)
Next ==
  \/ BuildNext \/ ContextEnds \/ SystemInterrupt
  \/ \E c \in Clients : execHandler(c) \/ ClientLeaves(c) \/ Serve(c)

\* Goroutines that can go on do, and the timers and the job's deadline fire.  Clients come and go as they
\* like.
Spec ==
  /\ Init /\ [][Next]_vars
  /\ WF_vars(BuildNext) /\ WF_vars(ContextEnds)
  /\ \A c \in Clients : WF_vars(Serve(c)) /\ WF_vars(nonBlockingSend(c))

(***************************************************************************)
(* Properties                                                              *)
(***************************************************************************)
\* docs/configuration/advanced-configuration.md: session_timeout is how long a
\* session can stay active after the job completes, which blocks the job from
\* finishing.  So a job whose script has ended is held back for a while only, by
\* its terminal's timer at the latest.  (The code does not keep this: a client
\* that leaves after Connected has answered and before the select is entered is
\* heard of by nobody, and the timer's error has then no receiver.)
TerminalLetsGo == (pc = "check") ~> (pc = "done")
=============================================================================
