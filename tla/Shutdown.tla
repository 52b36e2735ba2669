------------------------------ MODULE Shutdown ------------------------------
(***************************************************************************)
(* The end of the service: Run waits for a signal or for the dispatcher to *)
(* end, finishes all sessions and stops the servers one by one.  The       *)
(* dispatcher is another goroutine; it ends when it is idle or when one of *)
(* the servers dies, which on a signal is when the proxy is stopped, after *)
(* the sessions were finished.  Until then both goroutines use the session *)
(* map and may run Finish at the same time, even on the same session.      *)
(*                                                                         *)
(* FetchService has what the dispatcher does meanwhile; here a session is  *)
(* its entry in the map, its timer and one artifact on record.             *)
(***************************************************************************)
EXTENDS Naturals

CONSTANTS
  Sessions,    \* sessions to be created, each with its own ID
  Requests,    \* requests to the control API
  Scenarios,   \* what may happen to the service, see below
  None         \* no session, no request

\* The requests that arrive, whether there may be a termination signal, whether
\* IdleShutdown > 0, whether a server may die, and a bound on the file system
\* errors in Finish
ASSUME ShutdownAssumption ==
  /\ Scenarios \subseteq [requests : SUBSET Requests, signals : BOOLEAN, idle : BOOLEAN,
                         failures : BOOLEAN, errors : Nat]
  /\ None \notin Sessions \cup Requests

VARIABLES
  env,        \* the scenario
  main,       \* where Run and Service.Stop are
  must,       \* the sessions in the map when FinishAll started
  seen,       \* the sessions that FinishAll visited
  disp,       \* where the dispatcher is
  serving,    \* the request that it serves, if any
  step,       \* where each of the two goroutines is in Finish
  on,         \* the session that each of them finishes
  active,     \* the session map
  timer,      \* the timer of each session and the goroutine that watches it
  done,       \* tokens in its channel, whose capacity is one
  expired,    \* ExpiredSessionID, whose capacity is one
  artifact,   \* the artifact of each session
  req,        \* the requests
  idle,       \* the idle timer
  proxy,      \* the HTTP proxy
  ctl,        \* the control server
  exit,       \* how the process ended
  errors      \* file system errors so far

mainVars == <<main, must, seen>>
sessVars == <<active, timer, done, artifact>>
vars == <<env, main, must, seen, disp, serving, step, on, active, timer, done,
          expired, artifact, req, idle, proxy, ctl, exit, errors>>

Procs == {"main", "disp"}

\* The variables of the model range over the values the program gives them.
TypeOK ==
  /\ env \in Scenarios
  /\ main \in {"select", "range", "proxy", "fetchctl", "ctl", "shutdown"}
  /\ must \subseteq Sessions
  /\ seen \subseteq Sessions
  /\ disp \in {"select", "create", "end", "expired", "over"}
  /\ serving \in Requests \cup {None}
  /\ step \in [Procs -> {"off", "stop", "save", "load", "delete", "cancel"}]
  /\ on \in [Procs -> Sessions \cup {None}]
  /\ active \subseteq Sessions
  /\ timer \in [Sessions -> {"unset", "running", "stopped", "sending", "ended"}]
  /\ done \in [Sessions -> 0 .. 1]
  /\ expired \in Sessions \cup {None}
  /\ artifact \in [Sessions -> {"none", "recorded", "saved"}]
  /\ req \in [Requests -> {"new", "sending", "served", "answered"}]
  /\ idle \in {"off", "armed", "tick", "spent"}
  /\ proxy \in {"up", "failed", "stopped"}
  /\ ctl \in {"up", "failed", "closing"}
  /\ exit \in {"no", "status", "fatal", "crash"}
  /\ errors \in 0 .. env.errors

Init ==
  /\ env \in Scenarios
  /\ main = "select" /\ must = {} /\ seen = {}
  /\ disp = "select" /\ serving = None
  /\ step = [p \in Procs |-> "off"]
  /\ on = [p \in Procs |-> None]
  /\ active = {}
  /\ timer = [s \in Sessions |-> "unset"]
  /\ done = [s \in Sessions |-> 0]
  /\ expired = None
  /\ artifact = [s \in Sessions |-> "none"]
  /\ req = [r \in Requests |-> "new"]
  /\ idle = IF env.idle THEN "armed" ELSE "off"
  /\ proxy = "up" /\ ctl = "up"
  /\ exit = "no"
  /\ errors = 0

-----------------------------------------------------------------------------
(* Session.Finish, in whichever goroutine calls it                         *)

StartFinish(p, s) ==
  /\ step' = [step EXCEPT ![p] = "stop"]
  /\ on' = [on EXCEPT ![p] = s]

EndFinish(p) ==
  /\ step' = [step EXCEPT ![p] = "off"]
  /\ on' = [on EXCEPT ![p] = None]

Go(p, where) == step' = [step EXCEPT ![p] = where] /\ UNCHANGED on

finishRest == <<env, main, must, seen, disp, serving, expired, req, idle, proxy, ctl>>

\* s.timer.Stop(): the timer does not fire any more, but its goroutine waits on.
\* NewWithID stores the session before it has a timer.
StopTimer(p) ==
  /\ exit = "no" /\ step[p] = "stop"
  /\ \/ /\ timer[on[p]] = "unset"
        /\ exit' = "crash"
        /\ UNCHANGED <<step, on, timer>>
     \/ /\ timer[on[p]] # "unset"
        /\ timer' = [timer EXCEPT ![on[p]] = IF @ = "running" THEN "stopped" ELSE @]
        /\ Go(p, "save")
        /\ UNCHANGED exit
  /\ UNCHANGED <<finishRest, active, done, artifact, errors>>

\* The metadata files and the cache directory. On an error Finish returns.
SaveFiles(p) ==
  /\ exit = "no" /\ step[p] = "save"
  /\ \/ /\ errors < env.errors
        /\ errors' = errors + 1
        /\ EndFinish(p)
        /\ UNCHANGED artifact
     \/ /\ artifact' = [artifact EXCEPT ![on[p]] = IF @ = "recorded" THEN "saved" ELSE @]
        /\ Go(p, "load")
        /\ UNCHANGED errors
  /\ UNCHANGED <<finishRest, active, timer, done, exit>>

\* Discard looks the session up ...
LoadSession(p) ==
  /\ exit = "no" /\ step[p] = "load"
  /\ IF on[p] \in active THEN Go(p, "delete") ELSE EndFinish(p)
  /\ UNCHANGED <<finishRest, sessVars, exit, errors>>

\* ... then deletes it ...
DeleteSession(p) ==
  /\ exit = "no" /\ step[p] = "delete"
  /\ active' = active \ {on[p]}
  /\ Go(p, "cancel")
  /\ UNCHANGED <<finishRest, timer, done, artifact, exit, errors>>

\* A bug: the channel has no buffer, so Cancel waits for the goroutine.
RoomUnbuffered(s) == timer[s] \in {"running", "stopped"}

\* Cancel can put its token into the channel of the timer.
Room(s) == done[s] = 0

\* ... and ends its timer. Cancel blocks while the channel is full.
Cancel(p) ==
  /\ exit = "no" /\ step[p] = "cancel"
  /\ Room(on[p])
  /\ done' = [done EXCEPT ![on[p]] = 1]
  /\ timer' = [timer EXCEPT ![on[p]] = IF @ = "running" THEN "stopped" ELSE @]
  /\ EndFinish(p)
  /\ UNCHANGED <<finishRest, active, artifact, exit, errors>>

Finish(p) ==
  \/ StopTimer(p)
  \/ SaveFiles(p)
  \/ LoadSession(p)
  \/ DeleteSession(p)
  \/ Cancel(p)

-----------------------------------------------------------------------------
(* Session timers                                                          *)

timerRest == <<env, mainVars, disp, serving, step, on, active, artifact, req, idle,
               proxy, ctl, exit, errors>>

TimerFires(s) ==
  /\ exit = "no" /\ timer[s] = "running"
  /\ timer' = [timer EXCEPT ![s] = "sending"]
  /\ UNCHANGED <<timerRest, done, expired>>

TimerSends(s) ==
  /\ exit = "no" /\ timer[s] = "sending"
  /\ expired = None
  /\ expired' = s
  /\ timer' = [timer EXCEPT ![s] = "ended"]
  /\ UNCHANGED <<timerRest, done>>

TimerDone(s) ==
  /\ exit = "no" /\ timer[s] \in {"running", "stopped"}
  /\ done[s] = 1
  /\ done' = [done EXCEPT ![s] = 0]
  /\ timer' = [timer EXCEPT ![s] = "ended"]
  /\ UNCHANGED <<timerRest, expired>>

-----------------------------------------------------------------------------
(* The control server and the dispatcher                                   *)

dispRest == <<env, mainVars, proxy, ctl, errors>>

\* A handler of the control server sends its message on the service channel.
RequestArrives(r) ==
  /\ exit = "no" /\ ctl = "up" /\ req[r] = "new" /\ r \in env.requests
  /\ req' = [req EXCEPT ![r] = "sending"]
  /\ UNCHANGED <<dispRest, disp, serving, step, on, sessVars, expired, idle, exit>>

ResetIdle == IF env.idle THEN "armed" ELSE "off"

Receives(r) == exit = "no" /\ disp = "select" /\ req[r] = "sending"

\* handleCreateSession: NewWithID stores the session ...
HandleCreateSession(r, s) ==
  /\ Receives(r)
  /\ s \notin active /\ timer[s] = "unset"
  /\ active' = active \cup {s}
  /\ on' = [on EXCEPT !["disp"] = s]
  /\ disp' = "create" /\ serving' = r
  /\ req' = [req EXCEPT ![r] = "served"]
  /\ idle' = ResetIdle
  /\ UNCHANGED <<dispRest, step, timer, done, artifact, expired, exit>>

\* ... and then gives it a timer; the handler gets its reply.
StartTimer ==
  /\ exit = "no" /\ disp = "create"
  /\ timer' = [timer EXCEPT ![on["disp"]] = "running"]
  /\ on' = [on EXCEPT !["disp"] = None]
  /\ disp' = "select" /\ serving' = None
  /\ req' = [req EXCEPT ![serving] = "answered"]
  /\ UNCHANGED <<dispRest, step, active, done, artifact, expired, idle, exit>>

HandleEndSession(r, s) ==
  /\ Receives(r)
  /\ s \in active
  /\ StartFinish("disp", s)
  /\ disp' = "end" /\ serving' = r
  /\ req' = [req EXCEPT ![r] = "served"]
  /\ idle' = ResetIdle
  /\ UNCHANGED <<dispRest, sessVars, expired, exit>>

SessionEnded ==
  /\ exit = "no" /\ disp = "end" /\ step["disp"] = "off"
  /\ disp' = "select" /\ serving' = None
  /\ req' = [req EXCEPT ![serving] = "answered"]
  /\ UNCHANGED <<dispRest, step, on, sessVars, expired, idle, exit>>

\* Any message that leaves the session map alone.
HandleOther(r) ==
  /\ Receives(r)
  /\ req' = [req EXCEPT ![r] = "answered"]
  /\ idle' = ResetIdle
  /\ UNCHANGED <<dispRest, disp, serving, step, on, sessVars, expired, exit>>

\* handleCompleteInspection puts an artifact on record. The runtime may detect
\* a write to a map that another goroutine iterates over, and ends the process.
AddArtifact(s) ==
  /\ exit = "no" /\ disp = "select"
  /\ s \in active /\ artifact[s] = "none"
  /\ \/ /\ artifact' = [artifact EXCEPT ![s] = "recorded"]
        /\ idle' = ResetIdle
        /\ UNCHANGED exit
     \/ /\ step["main"] = "save" /\ on["main"] = s
        /\ exit' = "crash"
        /\ UNCHANGED <<artifact, idle>>
  /\ UNCHANGED <<dispRest, disp, serving, step, on, active, timer, done, expired, req>>

HandleExpiredSession ==
  /\ exit = "no" /\ disp = "select"
  /\ expired # None
  /\ expired' = None
  /\ IF expired \in active
       THEN StartFinish("disp", expired) /\ disp' = "expired"
       ELSE UNCHANGED <<step, on, disp>>
  /\ UNCHANGED <<dispRest, serving, sessVars, req, idle, exit>>

\* A bug: only messages count as activity.
SessionExpiredIdle ==
  /\ exit = "no" /\ disp = "expired" /\ step["disp"] = "off"
  /\ disp' = "select"
  /\ UNCHANGED <<dispRest, serving, step, on, sessVars, expired, req, idle, exit>>

\* The files are removed and the idle timer starts again.
SessionExpired ==
  /\ exit = "no" /\ disp = "expired" /\ step["disp"] = "off"
  /\ disp' = "select"
  /\ idle' = ResetIdle
  /\ UNCHANGED <<dispRest, serving, step, on, sessVars, expired, req, exit>>

IdleTimerFires ==
  /\ exit = "no" /\ idle = "armed"
  /\ idle' = "tick"
  /\ UNCHANGED <<dispRest, disp, serving, step, on, sessVars, expired, req, exit>>

\* The timer is not started again while there are sessions.
HandleIdle ==
  /\ exit = "no" /\ disp = "select" /\ idle = "tick"
  /\ idle' = "spent"
  /\ disp' = IF active = {} THEN "over" ELSE "select"
  /\ UNCHANGED <<dispRest, serving, step, on, sessVars, expired, req, exit>>

\* A server died, or was stopped; select may still prefer another case.
HandleDying ==
  /\ exit = "no" /\ disp = "select"
  /\ proxy # "up" \/ ctl = "failed"
  /\ disp' = "over"
  /\ UNCHANGED <<dispRest, serving, step, on, sessVars, expired, req, idle, exit>>

ServerFails ==
  /\ exit = "no" /\ env.failures /\ proxy = "up" /\ ctl = "up"
  /\ \/ proxy' = "failed" /\ UNCHANGED ctl
     \/ ctl' = "failed" /\ UNCHANGED proxy
  /\ UNCHANGED <<env, mainVars, disp, serving, step, on, sessVars, expired, req, idle,
                 exit, errors>>

-----------------------------------------------------------------------------
(* Run and Service.Stop                                                    *)

stopRest == <<env, disp, serving, sessVars, expired, req, idle, errors>>

\* A bug: Run does not wait for the dispatcher when a server dies.
RunEndsEarly ==
  /\ exit = "no" /\ main = "select"
  /\ env.signals \/ disp = "over" \/ proxy = "failed" \/ ctl = "failed"
  /\ main' = "range"
  /\ must' = active /\ seen' = {}
  /\ UNCHANGED <<stopRest, step, on, proxy, ctl, exit>>

\* A signal, or the dispatcher is over and the service is dying.
RunEnds ==
  /\ exit = "no" /\ main = "select"
  /\ env.signals \/ disp = "over"
  /\ main' = "range"
  /\ must' = active /\ seen' = {}
  /\ UNCHANGED <<stopRest, step, on, proxy, ctl, exit>>

\* FinishAll: Range visits a session at most once, and it visits those that
\* were and are in the map; it may or may not visit later ones.
FinishAllVisits(s) ==
  /\ exit = "no" /\ main = "range" /\ step["main"] = "off"
  /\ s \in active \ seen
  /\ seen' = seen \cup {s}
  /\ StartFinish("main", s)
  /\ UNCHANGED <<stopRest, main, must, proxy, ctl, exit>>

\* A bug: FinishAll does not go on after the first session.
FinishAllEndsEarly ==
  /\ exit = "no" /\ main = "range" /\ step["main"] = "off"
  /\ must \cap active \subseteq seen \/ seen # {}
  /\ main' = "proxy"
  /\ UNCHANGED <<stopRest, must, seen, step, on, proxy, ctl, exit>>

FinishAllEnds ==
  /\ exit = "no" /\ main = "range" /\ step["main"] = "off"
  /\ must \cap active \subseteq seen
  /\ main' = "proxy"
  /\ UNCHANGED <<stopRest, must, seen, step, on, proxy, ctl, exit>>

\* HTTPProxy.Stop returns the error of a proxy that died, and that is fatal.
StopProxy ==
  /\ exit = "no" /\ main = "proxy"
  /\ \/ proxy = "failed" /\ exit' = "fatal" /\ UNCHANGED <<main, proxy>>
     \/ proxy = "up" /\ proxy' = "stopped" /\ main' = "fetchctl" /\ UNCHANGED exit
  /\ UNCHANGED <<stopRest, must, seen, step, on, ctl>>

\* Removing the socket and killing the tomb; the accept loop is not waited for.
StopFetchCtl ==
  /\ exit = "no" /\ main = "fetchctl"
  /\ main' = "ctl"
  /\ UNCHANGED <<stopRest, must, seen, step, on, proxy, ctl, exit>>

\* Shutdown closes the listener and waits for the handlers ...
StopControl ==
  /\ exit = "no" /\ main = "ctl"
  /\ main' = "shutdown"
  /\ ctl' = IF ctl = "up" THEN "closing" ELSE ctl
  /\ UNCHANGED <<stopRest, must, seen, step, on, proxy, exit>>

Busy == \E r \in Requests : req[r] \in {"sending", "served"}

\* ... and Run returns when all of them are done.
HandlersDone ==
  /\ exit = "no" /\ main = "shutdown" /\ ~Busy
  /\ exit' = "status"
  /\ UNCHANGED <<stopRest, mainVars, step, on, proxy, ctl>>

\* Ten seconds later Stop fails, and that is fatal. This is long enough for a
\* dispatcher that still runs and is not blocked.
ShutdownTimeout ==
  /\ exit = "no" /\ main = "shutdown" /\ Busy
  /\ disp = "over" \/ step["disp"] = "cancel"
  /\ exit' = "fatal"
  /\ UNCHANGED <<stopRest, mainVars, step, on, proxy, ctl>>

-----------------------------------------------------------------------------

Main ==
  \/ Finish("main")
  \/ \E s \in Sessions : FinishAllVisits(s)
  \/ FinishAllEnds
  \/ StopProxy
  \/ StopFetchCtl
  \/ StopControl
  \/ HandlersDone
  \/ ShutdownTimeout

Dispatcher ==
  \/ Finish("disp")
  \/ \E r \in Requests, s \in Sessions : HandleCreateSession(r, s) \/ HandleEndSession(r, s)
  \/ \E r \in Requests : HandleOther(r)
  \/ StartTimer
  \/ SessionEnded
  \/ HandleExpiredSession
  \/ SessionExpired
  \/ HandleIdle
  \/ HandleDying

Next ==
  \/ Main
  \/ Dispatcher
  \/ RunEnds
  \/ ServerFails
  \/ IdleTimerFires
  \/ \E r \in Requests : RequestArrives(r)
  \/ \E s \in Sessions : TimerFires(s) \/ TimerSends(s) \/ TimerDone(s) \/ AddArtifact(s)

Spec == Init /\ [][Next]_vars

(***************************************************************************)
(* The runtime runs every goroutine that can run, timers expire, and Run   *)
(* notices that the dispatcher is over.  Signals, requests, inspections    *)
(* and failing servers are up to the environment.                          *)
(***************************************************************************)
FairSpec ==
  /\ Spec
  /\ WF_vars(Main)
  /\ WF_vars(Dispatcher)
  /\ WF_vars(disp = "over" /\ RunEnds)
  /\ WF_vars(IdleTimerFires)
  /\ \A s \in Sessions : WF_vars(TimerFires(s) \/ TimerSends(s) \/ TimerDone(s))
-----------------------------------------------------------------------------
(* Correctness                                                             *)

\* Unless there is a signal, neither a session without a timer nor a concurrent
\* use of a session's map of artifacts ends the process.
NoCrash == ~env.signals => exit # "crash"

\* The sessions that were in the map when FinishAll started are finished when
\* the process ends, whatever the dispatcher does with them meanwhile.  When it
\* ends without a signal, every session was finished and everything that was on
\* record is in the spool.
AllFinished ==
  exit \in {"status", "fatal"} /\ errors = 0 =>
    /\ must \cap active = {}
    /\ ~env.signals => active = {} /\ \A s \in Sessions : artifact[s] # "recorded"

Blocked(p) == exit = "no" /\ step[p] = "cancel" /\ ~Room(on[p])

\* When both goroutines finish the same session one of them may block in
\* Cancel, but then the other one can go on.
OneBlocks == ~(Blocked("main") /\ Blocked("disp"))

\* When Run starts to shut the service down without a signal, the process ends.
ShutdownEnds == ~env.signals /\ main # "select" ~> exit # "no"

\* With an idle limit the service does not stay up without sessions and
\* requests, although its idle timer may fire while there are sessions.
IdleStops == env.idle ~> exit # "no"
=============================================================================
