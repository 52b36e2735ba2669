--------------------------- MODULE ShutdownProofs ---------------------------
(***************************************************************************)
(* Proofs about Shutdown for any number of sessions, requests and file     *)
(* system errors, and for every scenario.                                  *)
(***************************************************************************)
EXTENDS Shutdown, TLAPS

\* Where the two goroutines can be when they are in Finish
CallInv ==
  /\ step["main"] # "off" => main = "range" /\ on["main"] \in seen
  /\ step["disp"] # "off" =>
       /\ disp \in {"end", "expired"}
       /\ on["disp"] \in Sessions /\ timer[on["disp"]] # "unset"
  /\ disp = "create" =>
       on["disp"] \in active /\ timer[on["disp"]] = "unset"
  /\ step["main"] \in {"save", "load", "delete", "cancel"} => timer[on["main"]] # "unset"
  /\ \A p \in Procs : step[p] = "cancel" => on[p] \notin active

\* A session is without a timer only while it is created, and its channel has
\* a token only after it was deleted.
TimerInv ==
  \A s \in Sessions :
    /\ s \in active /\ timer[s] = "unset" => disp = "create" /\ on["disp"] = s
    /\ done[s] = 1 => s \notin active /\ timer[s] # "unset"
    /\ s \in must \cup seen => s \in active \/ timer[s] # "unset"

\* Without an error a session that FinishAll visited leaves the map, and
\* FinishAll does not end before it visited what it has to.
SeenInv ==
  /\ \A s \in seen \cap active : errors = 0 =>
       on["main"] = s /\ step["main"] \in {"stop", "save", "load", "delete"}
  /\ main \notin {"select", "range"} => must \cap active \subseteq seen
  /\ exit \in {"status", "fatal"} => main \notin {"select", "range"}

\* Somebody else already cancelled the timer of the session that p looked up.
Stuck(p) == step[p] \in {"delete", "cancel"} /\ done[on[p]] = 1

OneStuck == ~(Stuck("main") /\ Stuck("disp"))

\* Without a signal FinishAll has the sessions for itself, and what is on
\* record belongs to a session that nobody has saved yet.
QuietInv ==
  ~env.signals =>
    /\ exit # "crash"
    /\ main # "select" => disp = "over" /\ active \subseteq must
    /\ \A s \in Sessions : artifact[s] = "recorded" =>
         /\ s \in active
         /\ \A p \in Procs : on[p] = s => step[p] \notin {"load", "delete", "cancel"}

Inv == TypeOK /\ CallInv /\ TimerInv /\ SeenInv /\ OneStuck /\ QuietInv

-----------------------------------------------------------------------------
(* Every step keeps the invariant                                          *)

\* Types are kept by every step.
LEMMA TypeStep == TypeOK /\ [Next]_vars => TypeOK'
<1> USE DEF TypeOK, Procs
<1> SUFFICES ASSUME TypeOK, [Next]_vars PROVE TypeOK'
  OBVIOUS
<1>1. ASSUME NEW p \in Procs, StopTimer(p) PROVE TypeOK'
  BY <1>1 DEF StopTimer, finishRest, Go
<1>2. ASSUME NEW p \in Procs, SaveFiles(p) PROVE TypeOK'
  BY <1>2, ShutdownAssumption DEF SaveFiles, finishRest, Go, EndFinish
<1>3. ASSUME NEW p \in Procs, LoadSession(p) PROVE TypeOK'
  BY <1>3 DEF LoadSession, finishRest, sessVars, Go, EndFinish
<1>4. ASSUME NEW p \in Procs, DeleteSession(p) PROVE TypeOK'
  BY <1>4 DEF DeleteSession, finishRest, Go
<1>5. ASSUME NEW p \in Procs, Cancel(p) PROVE TypeOK'
  <2>1. done' \in [Sessions -> 0 .. 1]
    <3>1. done' = [done EXCEPT ![on[p]] = 1] /\ 1 \in 0 .. 1
      BY <1>5 DEF Cancel
    <3> QED
      BY <3>1
  <2>2. timer' \in [Sessions -> {"unset", "running", "stopped", "sending", "ended"}]
    BY <1>5 DEF Cancel
  <2> QED
    BY <1>5, <2>1, <2>2 DEF Cancel, finishRest, EndFinish
<1>6. ASSUME NEW s \in Sessions, FinishAllVisits(s) PROVE TypeOK'
  BY <1>6 DEF FinishAllVisits, stopRest, sessVars, StartFinish
<1>7. CASE FinishAllEnds
  BY <1>7 DEF FinishAllEnds, stopRest, sessVars
<1>8. CASE StopProxy
  BY <1>8 DEF StopProxy, stopRest, sessVars
<1>9. CASE StopFetchCtl
  BY <1>9 DEF StopFetchCtl, stopRest, sessVars
<1>10. CASE StopControl
  BY <1>10 DEF StopControl, stopRest, sessVars
<1>11. CASE HandlersDone
  BY <1>11 DEF HandlersDone, stopRest, sessVars, mainVars
<1>12. CASE ShutdownTimeout
  BY <1>12 DEF ShutdownTimeout, stopRest, sessVars, mainVars
<1>13. ASSUME NEW r \in Requests, NEW s \in Sessions, HandleCreateSession(r, s) PROVE TypeOK'
  BY <1>13 DEF HandleCreateSession, dispRest, mainVars, Receives, ResetIdle
<1>14. ASSUME NEW r \in Requests, NEW s \in Sessions, HandleEndSession(r, s) PROVE TypeOK'
  BY <1>14 DEF HandleEndSession, dispRest, mainVars, sessVars, Receives, ResetIdle, StartFinish
<1>15. ASSUME NEW r \in Requests, HandleOther(r) PROVE TypeOK'
  BY <1>15 DEF HandleOther, dispRest, mainVars, sessVars, Receives, ResetIdle
<1>16. CASE StartTimer
  BY <1>16 DEF StartTimer, dispRest, mainVars
<1>17. CASE SessionEnded
  BY <1>17 DEF SessionEnded, dispRest, mainVars, sessVars
<1>18. CASE HandleExpiredSession
  BY <1>18 DEF HandleExpiredSession, dispRest, mainVars, sessVars, StartFinish
<1>19. CASE SessionExpired
  BY <1>19 DEF SessionExpired, dispRest, mainVars, sessVars, ResetIdle
<1>20. CASE HandleIdle
  BY <1>20 DEF HandleIdle, dispRest, mainVars, sessVars
<1>21. CASE HandleDying
  BY <1>21 DEF HandleDying, dispRest, mainVars, sessVars
<1>22. CASE RunEnds
  BY <1>22 DEF RunEnds, stopRest, sessVars
<1>23. CASE ServerFails
  BY <1>23 DEF ServerFails, mainVars, sessVars
<1>24. CASE IdleTimerFires
  BY <1>24 DEF IdleTimerFires, dispRest, mainVars, sessVars
<1>25. ASSUME NEW r \in Requests, RequestArrives(r) PROVE TypeOK'
  BY <1>25 DEF RequestArrives, dispRest, mainVars, sessVars
<1>26. ASSUME NEW s \in Sessions, TimerFires(s) PROVE TypeOK'
  BY <1>26 DEF TimerFires, timerRest, mainVars
<1>27. ASSUME NEW s \in Sessions, TimerSends(s) PROVE TypeOK'
  BY <1>27 DEF TimerSends, timerRest, mainVars
<1>28. ASSUME NEW s \in Sessions, TimerDone(s) PROVE TypeOK'
  BY <1>28 DEF TimerDone, timerRest, mainVars
<1>29. ASSUME NEW s \in Sessions, AddArtifact(s) PROVE TypeOK'
  BY <1>29 DEF AddArtifact, dispRest, mainVars, ResetIdle
<1>30. CASE UNCHANGED vars
  BY <1>30 DEF vars
<1> QED
  BY <1>1, <1>2, <1>3, <1>4, <1>5, <1>6, <1>7, <1>8, <1>9, <1>10, <1>11, <1>12, <1>13, <1>14,
      <1>15, <1>16, <1>17, <1>18, <1>19, <1>20, <1>21, <1>22, <1>23, <1>24, <1>25, <1>26,
      <1>27, <1>28, <1>29, <1>30 DEF Next, Main, Dispatcher, Finish

\* The invariant is inductive: each step of Run, the dispatcher, the timers and
\* the environment keeps it.
LEMMA InvStep == Inv /\ [Next]_vars => Inv'
<1> SUFFICES ASSUME Inv, [Next]_vars PROVE Inv'
  OBVIOUS
<1>0. TypeOK'
  BY TypeStep DEF Inv
<1> USE DEF Inv, TypeOK, Procs, CallInv, TimerInv, SeenInv, OneStuck, Stuck, QuietInv
<1>1. ASSUME NEW p \in Procs, StopTimer(p) PROVE Inv'
  BY <1>0, <1>1 DEF StopTimer, finishRest, Go
<1>2. ASSUME NEW p \in Procs, SaveFiles(p) PROVE Inv'
  BY <1>0, <1>2 DEF SaveFiles, finishRest, Go, EndFinish
<1>3. ASSUME NEW p \in Procs, LoadSession(p) PROVE Inv'
  BY <1>0, <1>3 DEF LoadSession, finishRest, sessVars, Go, EndFinish
<1>4. ASSUME NEW p \in Procs, DeleteSession(p) PROVE Inv'
  BY <1>0, <1>4 DEF DeleteSession, finishRest, Go
<1>5. ASSUME NEW p \in Procs, Cancel(p) PROVE Inv'
  BY <1>0, <1>5 DEF Cancel, finishRest, EndFinish, Room
<1>6. ASSUME NEW s \in Sessions, FinishAllVisits(s) PROVE Inv'
  BY <1>0, <1>6 DEF FinishAllVisits, stopRest, sessVars, StartFinish
<1>7. CASE FinishAllEnds
  BY <1>0, <1>7 DEF FinishAllEnds, stopRest, sessVars
<1>8. CASE StopProxy
  BY <1>0, <1>8 DEF StopProxy, stopRest, sessVars
<1>9. CASE StopFetchCtl
  BY <1>0, <1>9 DEF StopFetchCtl, stopRest, sessVars
<1>10. CASE StopControl
  BY <1>0, <1>10 DEF StopControl, stopRest, sessVars
<1>11. CASE HandlersDone
  BY <1>0, <1>11 DEF HandlersDone, stopRest, sessVars, mainVars
<1>12. CASE ShutdownTimeout
  BY <1>0, <1>12 DEF ShutdownTimeout, stopRest, sessVars, mainVars
<1>13. ASSUME NEW r \in Requests, NEW s \in Sessions, HandleCreateSession(r, s) PROVE Inv'
  BY <1>0, <1>13 DEF HandleCreateSession, dispRest, mainVars, Receives, ResetIdle
<1>14. ASSUME NEW r \in Requests, NEW s \in Sessions, HandleEndSession(r, s) PROVE Inv'
  BY <1>0, <1>14 DEF HandleEndSession, dispRest, mainVars, sessVars, Receives, ResetIdle,
      StartFinish
<1>15. ASSUME NEW r \in Requests, HandleOther(r) PROVE Inv'
  BY <1>0, <1>15 DEF HandleOther, dispRest, mainVars, sessVars, Receives, ResetIdle
<1>16. CASE StartTimer
  BY <1>0, <1>16 DEF StartTimer, dispRest, mainVars
<1>17. CASE SessionEnded
  BY <1>0, <1>17 DEF SessionEnded, dispRest, mainVars, sessVars
<1>18. CASE HandleExpiredSession
  BY <1>0, <1>18 DEF HandleExpiredSession, dispRest, mainVars, sessVars, StartFinish
<1>19. CASE SessionExpired
  BY <1>0, <1>19 DEF SessionExpired, dispRest, mainVars, sessVars, ResetIdle
<1>20. CASE HandleIdle
  BY <1>0, <1>20 DEF HandleIdle, dispRest, mainVars, sessVars
<1>21. CASE HandleDying
  BY <1>0, <1>21 DEF HandleDying, dispRest, mainVars, sessVars
<1>22. CASE RunEnds
  BY <1>0, <1>22 DEF RunEnds, stopRest, sessVars
<1>23. CASE ServerFails
  BY <1>0, <1>23 DEF ServerFails, mainVars, sessVars
<1>24. CASE IdleTimerFires
  BY <1>0, <1>24 DEF IdleTimerFires, dispRest, mainVars, sessVars
<1>25. ASSUME NEW r \in Requests, RequestArrives(r) PROVE Inv'
  BY <1>0, <1>25 DEF RequestArrives, dispRest, mainVars, sessVars
<1>26. ASSUME NEW s \in Sessions, TimerFires(s) PROVE Inv'
  BY <1>0, <1>26 DEF TimerFires, timerRest, mainVars
<1>27. ASSUME NEW s \in Sessions, TimerSends(s) PROVE Inv'
  BY <1>0, <1>27 DEF TimerSends, timerRest, mainVars
<1>28. ASSUME NEW s \in Sessions, TimerDone(s) PROVE Inv'
  BY <1>0, <1>28 DEF TimerDone, timerRest, mainVars
<1>29. ASSUME NEW s \in Sessions, AddArtifact(s) PROVE Inv'
  BY <1>0, <1>29 DEF AddArtifact, dispRest, mainVars, ResetIdle
<1>30. CASE UNCHANGED vars
  BY <1>30 DEF vars
<1> QED
  BY <1>1, <1>2, <1>3, <1>4, <1>5, <1>6, <1>7, <1>8, <1>9, <1>10, <1>11, <1>12, <1>13, <1>14,
      <1>15, <1>16, <1>17, <1>18, <1>19, <1>20, <1>21, <1>22, <1>23, <1>24, <1>25, <1>26,
      <1>27, <1>28, <1>29, <1>30 DEF Next, Main, Dispatcher, Finish

-----------------------------------------------------------------------------
(* Theorems                                                                *)

\* Every reachable state has the invariant, whatever the scenario.
THEOREM Invariance == Spec => []Inv
<1>1. Init => Inv
  BY ShutdownAssumption DEF Init, Inv, TypeOK, CallInv, TimerInv, SeenInv, OneStuck, Stuck,
       QuietInv, Procs
<1> QED
  BY <1>1, InvStep, PTL DEF Spec

\* The variables always have the types that the module says.
THEOREM TypeCorrect == Spec => []TypeOK
<1>1. Inv => TypeOK
  BY DEF Inv
<1> QED
  BY <1>1, Invariance, PTL

\* Without a signal Run waits until the dispatcher is over: neither Finish meets
\* a session without a timer, nor does the dispatcher write to a map of
\* artifacts that FinishAll iterates over.
THEOREM QuietEnd == Spec => []NoCrash
<1>1. Inv => NoCrash
  BY DEF Inv, QuietInv, NoCrash
<1> QED
  BY <1>1, Invariance, PTL

\* When Service.Stop is over, FinishAll has finished the sessions it started
\* with; without a signal there are no others and all artifacts are saved.
THEOREM SessionsFinished == Spec => []AllFinished
<1>1. Inv => AllFinished
  <2> SUFFICES ASSUME Inv, exit \in {"status", "fatal"}, errors = 0
               PROVE  /\ must \cap active = {}
                      /\ ~env.signals => /\ active = {}
                                         /\ \A s \in Sessions : artifact[s] # "recorded"
    BY DEF AllFinished
  <2>1. step["main"] = "off" /\ must \cap active \subseteq seen
    BY DEF Inv, SeenInv, CallInv
  <2>2. must \cap active = {}
    BY <2>1 DEF Inv, SeenInv
  <2>3. ~env.signals => active \subseteq must
    BY DEF Inv, SeenInv, QuietInv
  <2> QED
    BY <2>2, <2>3 DEF Inv, QuietInv
<1> QED
  BY <1>1, Invariance, PTL

\* Run and the dispatcher never wait in Cancel at the same time.
THEOREM NoMutualWait == Spec => []OneBlocks
<1>1. Inv => OneBlocks
  <2> SUFFICES ASSUME Inv, Blocked("main"), Blocked("disp") PROVE FALSE
    BY DEF OneBlocks
  <2>1. on["main"] \in Sessions
    BY DEF Inv, CallInv, TypeOK, Blocked
  <2>2. on["disp"] \in Sessions
    BY DEF Inv, CallInv, Blocked
  <2> QED
    BY <2>1, <2>2 DEF Inv, OneStuck, Stuck, Blocked, Room, TypeOK
<1> QED
  BY <1>1, Invariance, PTL
=============================================================================
