------------------------------ MODULE Gateway -------------------------------
(***************************************************************************)
(* main.go: the goroutine that starts the router, listens to its signals   *)
(* and takes it down, with what runs beside it: the HTTP server, the calls *)
(* it is serving, the multiplexer and the audit log.                       *)
(*                                                                         *)
(* A call is reduced to what shutdown and reload can do to it: it finds a  *)
(* backend, has an effect there or not, and logs one event before it       *)
(* returns (ToolCalls has the rest).  The HTTP request of an attached call *)
(* lasts as long as the call; a detached one, a message posted to an SSE   *)
(* session, is answered at once and runs on in a goroutine of the library. *)
(* An open SSE stream is a connection in use for as long as its client     *)
(* pleases, to main no other than an attached call that hangs.             *)
(***************************************************************************)
EXTENDS Multiplexer, AuditLog

CONSTANT Attached   \* the calls whose HTTP request waits for them

ASSUME GatewayAssumption == Attached \subseteq Events

\* The one event of a call stands for the call.
Calls == Events

VARIABLES
  main,        \* where main stands
  signal,      \* the content of sigChan, which has room for one
  http,        \* the listener
  call,        \* where each call stands
  backendOf,   \* the backend it found
  effect,      \* history: the remote server ran the tool
  drained      \* history: Shutdown returned without an error

callVars == <<call, backendOf, effect>>
gatewayVars == <<main, signal, http, call, backendOf, effect, drained>>
vars == <<muxVars, auditVars, gatewayVars>>

Init ==
  /\ MuxInit /\ AuditInit
  /\ main = "starting"
  /\ signal = "none"
  /\ http = "off"
  /\ call = [c \in Calls |-> "idle"]
  /\ backendOf = [c \in Calls |-> Nil]
  /\ effect = [c \in Calls |-> FALSE]
  /\ drained = FALSE

Alive == main \notin {"over", "killed"}

Goto(label) == main' = label

-----------------------------------------------------------------------------
(* Signals.  Until signal.Notify they do what they do to any process.      *)
(* Afterwards one waits in the channel and the others are dropped; once    *)
(* main has left its loop for good nobody reads the channel any more.      *)
Deliver(s) ==
  /\ main \in {"starting", "loop", "reopening", "loading", "reloading"}
  /\ IF main = "starting"
     THEN Goto("killed") /\ UNCHANGED signal
     ELSE /\ signal = "none"
          /\ signal' = s
          /\ UNCHANGED main
  /\ UNCHANGED <<muxVars, auditVars, http, callVars, drained>>

\* StartBackends returns, signals are caught, and the server starts.
Listen ==
  /\ main = "starting"
  /\ Serve
  /\ Goto("loop")
  /\ http' = "listening"
  /\ UNCHANGED <<auditVars, signal, callVars, drained>>

\* ListenAndServe returns an error: the port is taken, the certificate is
\* unusable, or accepting fails.
ServerFails ==
  /\ Alive /\ http = "listening"
  /\ http' = "failed"
  /\ UNCHANGED <<muxVars, auditVars, main, signal, callVars, drained>>

(***************************************************************************)
(* The select of main's loop; either case when both are ready.             *)
(***************************************************************************)
OnServerErr ==
  /\ main = "loop" /\ http = "failed"
  /\ Goto("failing")
  /\ UNCHANGED <<muxVars, auditVars, signal, http, callVars, drained>>

OnHangup ==
  /\ main = "loop" /\ signal = "HUP"
  /\ signal' = "none"
  /\ Goto(IF logPath # "none" THEN "reopening" ELSE "loading")
  /\ UNCHANGED <<muxVars, auditVars, http, callVars, drained>>

\* Shutdown closes the listener first; new connections are refused.
OnTerminate ==
  /\ main = "loop" /\ signal = "TERM"
  /\ signal' = "none"
  /\ Goto("draining")
  /\ http' = IF http = "listening" THEN "closed" ELSE http
  /\ UNCHANGED <<muxVars, auditVars, callVars, drained>>

(***************************************************************************)
(* SIGHUP: the log is reopened, whether or not that works; the file is     *)
(* loaded; a file that is rejected changes nothing.                        *)
(***************************************************************************)
ReopenLog ==
  /\ main = "reopening"
  /\ Reopen
  /\ Goto("loading")
  /\ UNCHANGED <<muxVars, http, signal, callVars, drained>>

LoadRejected ==
  /\ main = "loading"
  /\ Goto("loop")
  /\ UNCHANGED <<muxVars, auditVars, http, signal, callVars, drained>>

LoadAccepted(cfg) ==
  /\ main = "loading"
  /\ Reload(cfg)
  /\ Goto("reloading")
  /\ UNCHANGED <<auditVars, http, signal, callVars, drained>>

ReloadSteps ==
  /\ main = "reloading"
  /\ Swap \/ \E p \in Ptr : Retire(p)
  /\ UNCHANGED <<auditVars, gatewayVars>>

ReloadEnds ==
  /\ main = "reloading"
  /\ ReloadReturns
  /\ Goto("loop")
  /\ UNCHANGED <<auditVars, http, signal, callVars, drained>>

(***************************************************************************)
(* SIGINT or SIGTERM: Shutdown waits for the connections in use to become  *)
(* idle, for 10 seconds; then Stop, and the deferred Close of the log.     *)
(***************************************************************************)
InProgress(c) == call[c] \in {"calling", "logging"}

\* Mutant of Busy: a call is over as soon as the backend has answered.
BusyCalling == \E c \in Attached : call[c] = "calling"

\* A connection is in use.
Busy == \E c \in Attached : InProgress(c)

Drain ==
  /\ main = "draining" /\ ~Busy
  /\ drained' = TRUE
  /\ Goto("stopping")
  /\ UNCHANGED <<muxVars, auditVars, http, signal, callVars>>

\* Mutant of DrainExpires: Shutdown is given context.Background().
DrainNever == FALSE /\ UNCHANGED vars

DrainExpires ==
  /\ main = "draining"
  /\ Goto("stopping")
  /\ UNCHANGED <<muxVars, auditVars, http, signal, callVars, drained>>

StopBackends ==
  /\ main = "stopping"
  /\ Stop
  /\ Goto("closing")
  /\ UNCHANGED <<auditVars, http, signal, callVars, drained>>

\* The deferred al.Close, when there is a logger.
CloseAudit ==
  /\ main = "closing"
  /\ IF logPath = "none" THEN UNCHANGED auditVars ELSE CloseLog
  /\ Goto("returning")
  /\ UNCHANGED <<muxVars, http, signal, callVars, drained>>

\* Mutant of FailStop: log.Fatalf alone.
FailOnly ==
  /\ main = "failing"
  /\ Goto("returning")
  /\ UNCHANGED <<muxVars, auditVars, http, signal, callVars, drained>>

\* The server failed: Stop, then log.Fatalf, which runs no deferred call.
FailStop ==
  /\ main = "failing"
  /\ Stop
  /\ Goto("returning")
  /\ UNCHANGED <<auditVars, http, signal, callVars, drained>>

\* main returns, or os.Exit: with the process all the rest ends.
Return ==
  /\ main = "returning"
  /\ Goto("over")
  /\ UNCHANGED <<muxVars, auditVars, http, signal, callVars, drained>>

-----------------------------------------------------------------------------
(* Beside main: the clients, their calls, the backends, and logrotate.     *)
At(c, label) == call' = [call EXCEPT ![c] = label]

\* GetBackend; a call that finds none has only its error to log.
Arrive(c, n) ==
  /\ http = "listening" /\ call[c] = "idle"
  /\ backendOf' = [backendOf EXCEPT ![c] = backends[n]]
  /\ At(c, IF backends[n] = Nil THEN "logging" ELSE "calling")
  /\ UNCHANGED <<muxVars, auditVars, main, http, signal, effect, drained>>

\* The remote server runs the tool; the tool is one that changes state.
Perform(c) ==
  /\ call[c] = "calling" /\ ~effect[c]
  /\ client[backendOf[c]] /\ conn[backendOf[c]] = "open"
  /\ effect' = [effect EXCEPT ![c] = TRUE]
  /\ UNCHANGED <<muxVars, auditVars, main, http, signal, call, backendOf, drained>>

\* A guard, an answer, an error or the deadline: there is an event to log.
Answer(c) ==
  /\ call[c] = "calling"
  /\ At(c, "logging")
  /\ UNCHANGED <<muxVars, auditVars, main, http, signal, backendOf, effect, drained>>

LogEvent(c) ==
  /\ call[c] = "logging"
  /\ LogStep(c)
  /\ UNCHANGED <<muxVars, gatewayVars>>

Respond(c) ==
  /\ call[c] = "logging" /\ stage[c] = "logged"
  /\ At(c, "done")
  /\ UNCHANGED <<muxVars, auditVars, main, http, signal, backendOf, effect, drained>>

BackendStep ==
  /\ \E p \in Ptr : Starter(p) \/ PeerDies(p)
  /\ UNCHANGED <<auditVars, gatewayVars>>

RotateLog ==
  /\ \E create \in BOOLEAN : Rotate(create)
  /\ UNCHANGED <<muxVars, gatewayVars>>

-----------------------------------------------------------------------------
Select == OnServerErr \/ OnHangup \/ OnTerminate

Load == LoadRejected \/ \E cfg \in ConfigFiles : LoadAccepted(cfg)

Main ==
  \/ Listen \/ Select
  \/ ReopenLog \/ Load \/ ReloadSteps \/ ReloadEnds
  \/ Drain \/ DrainExpires \/ StopBackends \/ CloseAudit \/ FailStop \/ Return

CallStep(c) ==
  \/ \E n \in Names : Arrive(c, n)
  \/ Perform(c) \/ Answer(c) \/ LogEvent(c) \/ Respond(c)

Beside ==
  /\ Alive
  /\ \/ \E c \in Calls : CallStep(c)
     \/ BackendStep \/ RotateLog

Next ==
  \/ Main \/ ServerFails
  \/ \E s \in {"HUP", "TERM"} : Deliver(s)
  \/ Beside

Spec == Init /\ [][Next]_vars

(***************************************************************************)
(* Main is never blocked but where it waits for a signal, for the starts,  *)
(* or for the 10 s of the drain.  A start goes on as MuxFairness says; its *)
(* stages are few, so it is enough that some start goes on.  Nothing is    *)
(* promised of clients, calls, signals to come or logrotate.               *)
(***************************************************************************)
StartGoesOn ==
  /\ Alive
  /\ \E p \in Ptr : Starter(p) /\ ~(starter[p] = "dial" /\ config[p].transport = "sse")
  /\ UNCHANGED <<auditVars, gatewayVars>>

Fairness == WF_vars(Main) /\ WF_vars(StartGoesOn)

FairSpec == Spec /\ Fairness

-----------------------------------------------------------------------------
GatewayTypeOK ==
  /\ MuxTypeOK /\ AuditTypeOK
  /\ main \in {"starting", "loop", "reopening", "loading", "reloading", "draining",
               "stopping", "closing", "failing", "returning", "over", "killed"}
  /\ signal \in {"none", "HUP", "TERM"}
  /\ http \in {"off", "listening", "closed", "failed"}
  /\ drained \in BOOLEAN
  /\ call \in [Calls -> {"idle", "calling", "logging", "done"}]
  /\ backendOf \in [Calls -> Ptr \cup {Nil}]
  /\ effect \in [Calls -> BOOLEAN]

\* On every way out of main, by a signal or by the failure of the server, no
\* backend is left running ("zero zombie processes", README), although reloads
\* replaced some and starts failed half-way.  A signal that comes before main
\* listens to signals is the exception.
Teardown ==
  main = "over" => \A p \in Ptr : conn[p] \notin {"open", "dead"}

\* When Shutdown reports that the server stopped cleanly, every call whose
\* client was waiting has returned, what it did is on record, and none is left
\* to use a client that Stop closes or a log that Close closes.
CleanDrain ==
  drained => \A c \in Attached :
    /\ ~InProgress(c)
    /\ effect[c] => Recorded(c)

\* A termination signal that found room in the channel ends the process,
\* whatever main is busy with when it comes: a reload that waits for servers to
\* start, a log that cannot be reopened, and then calls or streams that never end.
ShutdownEnds == signal = "TERM" ~> main = "over"
=============================================================================
