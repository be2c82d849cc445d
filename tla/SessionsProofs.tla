--------------------------- MODULE SessionsProofs ---------------------------
(***************************************************************************)
(* Theorems about Sessions, for every number of sessions, workers, grants  *)
(* and profiles, every mix of requests and every set of faults.            *)
(***************************************************************************)
EXTENDS SessionsProperties, TLAPS

USE NoneAssumption, DisjointAssumption
USE DEF profileVars, dbVars, reqVars, mapVars, workVars, grantVars, createOnly, workOnly,
        CreateAt, CreateGoto, WorkAt, Goto, SetState

\* create_session has handed its child to the map (gateway.rs:281), or is over
Published == {"cookies", "inject", "answer", "unput", "unkill", "fail", "done", "error"}

\* Why at most one holder exists: whoever takes a session out of the map keeps
\* the lock until the child is killed or let go, and a creator publishes once.
OwnInv ==
  /\ LockOwner
  /\ \A s \in runtimes : creator[s] \in Published \ {"unkill", "fail"}
  /\ \A w \in Workers : pc[w] \in ReaperPc => on[w] \notin runtimes /\ creator[on[w]] \in Published
  /\ \A s \in Sessions : creator[s] = "unkill" => s \notin runtimes

\* Why a restart is final, unless a gateway is started beside one that serves:
\* nothing of the old process is left when Boot runs, and a row failed by Boot has
\* no url to connect to, no runtime, and no handler past the point where it found
\* one.  Handlers and grants only know stored sessions.
PastLookup == {"newtarget", "settarget", "run", "touch", "attach", "connect", "relay", "detach"}

RestartInv ==
  /\ ~up => /\ \A s \in Sessions : creator[s] \in CreatorEnded
            /\ runtimes = {}
            /\ \A w \in Workers : pc[w] = "idle"
  /\ \A s \in Sessions : state[s] # "absent" => creator[s] \in Published \cup {"put"}
  /\ \A w \in Workers : pc[w] # "idle" => state[on[w]] # "absent"
  /\ \A g \in Grants : grantOf[g] # None => state[grantOf[g]] # "absent"
  /\ "secondstart" \notin Faults => \A s \in Sessions : state[s] = "failed" =>
       /\ creator[s] \in {"done", "error"}
       /\ creator[s] = "done" =>
            /\ ~url[s] /\ s \notin runtimes
            /\ \A w \in Workers : on[w] = s => pc[w] \notin PastLookup

IInv == TypeOK /\ OwnInv /\ RestartInv

-----------------------------------------------------------------------------
\* The steps of create_session keep the types
LEMMA CreateType ==
  ASSUME TypeOK, NEW s \in Sessions, Create(s)
  PROVE  TypeOK'
<1>1. CASE StartCreate(s)
  BY <1>1, TypeOK DEF StartCreate, TypeOK, CreatorPc, WorkerPc, SessionState,
       ReaperPc
<1>2. CASE CreateCount(s)
  BY <1>2, TypeOK DEF CreateCount, TypeOK, CreatorPc, WorkerPc, SessionState,
       ReaperPc
<1>3. CASE CreateLookup(s)
  BY <1>3, TypeOK DEF CreateLookup, TypeOK, CreatorPc, WorkerPc, SessionState,
       ReaperPc
<1>4. CASE CreateExclusive(s)
  BY <1>4, TypeOK DEF CreateExclusive, TypeOK, CreatorPc, WorkerPc,
       SessionState, ReaperPc
<1>5. CASE CreateSpawn(s)
  BY <1>5, TypeOK DEF CreateSpawn, TypeOK, CreatorPc, WorkerPc, SessionState,
       ReaperPc
<1>6. CASE CreateServed(s)
  BY <1>6, TypeOK DEF CreateServed, TypeOK, CreatorPc, WorkerPc, SessionState,
       ReaperPc
<1>7. CASE CreateGivesUp(s)
  BY <1>7, TypeOK DEF CreateGivesUp, TypeOK, CreatorPc, WorkerPc,
       SessionState, ReaperPc
<1>8. CASE CreateInsert(s)
  BY <1>8, TypeOK DEF CreateInsert, TypeOK, CreatorPc, WorkerPc, SessionState,
       ReaperPc
<1>9. CASE CreatePut(s)
  BY <1>9, TypeOK DEF CreatePut, Unlocked, TypeOK, CreatorPc, WorkerPc,
       SessionState, ReaperPc
<1>10. CASE CreateCookies(s)
  BY <1>10, TypeOK DEF CreateCookies, TypeOK, CreatorPc, WorkerPc,
       SessionState, ReaperPc
<1>11. CASE CreateInject(s)
  BY <1>11, TypeOK DEF CreateInject, TypeOK, CreatorPc, WorkerPc,
       SessionState, ReaperPc
<1>12. CASE CreateAnswer(s)
  BY <1>12, TypeOK DEF CreateAnswer, TypeOK, CreatorPc, WorkerPc,
       SessionState, ReaperPc
<1>13. CASE CreateUnput(s)
  BY <1>13, TypeOK DEF CreateUnput, Unlocked, Remove, TypeOK, CreatorPc,
       WorkerPc, SessionState, ReaperPc
<1>14. CASE CreateUnkill(s)
  BY <1>14, TypeOK DEF CreateUnkill, TypeOK, CreatorPc, WorkerPc,
       SessionState, ReaperPc
<1>15. CASE CreateFail(s)
  BY <1>15, TypeOK DEF CreateFail, TypeOK, CreatorPc, WorkerPc, SessionState,
       ReaperPc
<1>16. CASE CreateErrs(s)
  BY <1>16, TypeOK DEF CreateErrs, TypeOK, CreatorPc, WorkerPc, SessionState,
       ReaperPc
<1>17. CASE CreateDropped(s)
  BY <1>17, TypeOK DEF CreateDropped, TypeOK, CreatorPc, WorkerPc,
       SessionState, ReaperPc
<1>18. QED
  BY <1>1, <1>2, <1>3, <1>4, <1>5, <1>6, <1>7, <1>8, <1>9, <1>10, <1>11,
       <1>12, <1>13, <1>14, <1>15, <1>16, <1>17 DEF Create, CreateSteps,
       CreateLocks

\* The steps of create_session keep the one-holder invariant
LEMMA CreateOwn ==
  ASSUME IInv, TypeOK', NEW s \in Sessions, Create(s)
  PROVE  OwnInv'
<1>1. CASE StartCreate(s)
  BY <1>1, IInv, TypeOK' DEF StartCreate, IInv, OwnInv, LockOwner, Published,
       ReaperPc, TypeOK, WorkerPc
<1>2. CASE CreateCount(s)
  BY <1>2, IInv, TypeOK' DEF CreateCount, IInv, OwnInv, LockOwner, Published,
       ReaperPc, TypeOK, WorkerPc
<1>3. CASE CreateLookup(s)
  BY <1>3, IInv, TypeOK' DEF CreateLookup, IInv, OwnInv, LockOwner, Published,
       ReaperPc, TypeOK, WorkerPc
<1>4. CASE CreateExclusive(s)
  BY <1>4, IInv, TypeOK' DEF CreateExclusive, IInv, OwnInv, LockOwner,
       Published, ReaperPc, TypeOK, WorkerPc
<1>5. CASE CreateSpawn(s)
  BY <1>5, IInv, TypeOK' DEF CreateSpawn, IInv, OwnInv, LockOwner, Published,
       ReaperPc, TypeOK, WorkerPc
<1>6. CASE CreateServed(s)
  BY <1>6, IInv, TypeOK' DEF CreateServed, IInv, OwnInv, LockOwner, Published,
       ReaperPc, TypeOK, WorkerPc
<1>7. CASE CreateGivesUp(s)
  BY <1>7, IInv, TypeOK' DEF CreateGivesUp, IInv, OwnInv, LockOwner,
       Published, ReaperPc, TypeOK, WorkerPc
<1>8. CASE CreateInsert(s)
  BY <1>8, IInv, TypeOK' DEF CreateInsert, IInv, OwnInv, LockOwner, Published,
       ReaperPc, TypeOK, WorkerPc
<1>9. CASE CreatePut(s)
  BY <1>9, IInv, TypeOK' DEF CreatePut, Unlocked, IInv, OwnInv, LockOwner,
       Published, ReaperPc, TypeOK, WorkerPc
<1>10. CASE CreateCookies(s)
  BY <1>10, IInv, TypeOK' DEF CreateCookies, IInv, OwnInv, LockOwner,
       Published, ReaperPc, TypeOK, WorkerPc
<1>11. CASE CreateInject(s)
  BY <1>11, IInv, TypeOK' DEF CreateInject, IInv, OwnInv, LockOwner,
       Published, ReaperPc, TypeOK, WorkerPc
<1>12. CASE CreateAnswer(s)
  BY <1>12, IInv, TypeOK' DEF CreateAnswer, IInv, OwnInv, LockOwner,
       Published, ReaperPc, TypeOK, WorkerPc
<1>13. CASE CreateUnput(s)
  BY <1>13, IInv, TypeOK' DEF CreateUnput, Unlocked, Remove, IInv, OwnInv,
       LockOwner, Published, ReaperPc, TypeOK, WorkerPc
<1>14. CASE CreateUnkill(s)
  BY <1>14, IInv, TypeOK' DEF CreateUnkill, IInv, OwnInv, LockOwner,
       Published, ReaperPc, TypeOK, WorkerPc
<1>15. CASE CreateFail(s)
  BY <1>15, IInv, TypeOK' DEF CreateFail, IInv, OwnInv, LockOwner, Published,
       ReaperPc, TypeOK, WorkerPc
<1>16. CASE CreateErrs(s)
  BY <1>16, IInv, TypeOK' DEF CreateErrs, IInv, OwnInv, LockOwner, Published,
       ReaperPc, TypeOK, WorkerPc
<1>17. CASE CreateDropped(s)
  BY <1>17, IInv, TypeOK' DEF CreateDropped, IInv, OwnInv, LockOwner,
       Published, ReaperPc, TypeOK, WorkerPc
<1>18. QED
  BY <1>1, <1>2, <1>3, <1>4, <1>5, <1>6, <1>7, <1>8, <1>9, <1>10, <1>11,
       <1>12, <1>13, <1>14, <1>15, <1>16, <1>17 DEF Create, CreateSteps,
       CreateLocks

\* The steps of create_session keep what follows a restart
LEMMA CreateRestart ==
  ASSUME IInv, TypeOK', NEW s \in Sessions, Create(s)
  PROVE  RestartInv'
<1>1. CASE StartCreate(s)
  BY <1>1, IInv, TypeOK' DEF StartCreate, IInv, RestartInv, Published,
       PastLookup, SessionState, ReaperPc, TypeOK, CreatorEnded, ActiveStates,
       CountedStates, WorkerPc
<1>2. CASE CreateCount(s)
  BY <1>2, IInv, TypeOK' DEF CreateCount, IInv, RestartInv, Published,
       PastLookup, SessionState, ReaperPc, TypeOK, CreatorEnded, ActiveStates,
       CountedStates, WorkerPc
<1>3. CASE CreateLookup(s)
  BY <1>3, IInv, TypeOK' DEF CreateLookup, IInv, RestartInv, Published,
       PastLookup, SessionState, ReaperPc, TypeOK, CreatorEnded, ActiveStates,
       CountedStates, WorkerPc
<1>4. CASE CreateExclusive(s)
  BY <1>4, IInv, TypeOK' DEF CreateExclusive, IInv, RestartInv, Published,
       PastLookup, SessionState, ReaperPc, TypeOK, CreatorEnded, ActiveStates,
       CountedStates, WorkerPc
<1>5. CASE CreateSpawn(s)
  BY <1>5, IInv, TypeOK' DEF CreateSpawn, IInv, RestartInv, Published,
       PastLookup, SessionState, ReaperPc, TypeOK, CreatorEnded, ActiveStates,
       CountedStates, WorkerPc
<1>6. CASE CreateServed(s)
  BY <1>6, IInv, TypeOK' DEF CreateServed, IInv, RestartInv, Published,
       PastLookup, SessionState, ReaperPc, TypeOK, CreatorEnded, ActiveStates,
       CountedStates, WorkerPc
<1>7. CASE CreateGivesUp(s)
  BY <1>7, IInv, TypeOK' DEF CreateGivesUp, IInv, RestartInv, Published,
       PastLookup, SessionState, ReaperPc, TypeOK, CreatorEnded, ActiveStates,
       CountedStates, WorkerPc
<1>8. CASE CreateInsert(s)
  BY <1>8, IInv, TypeOK' DEF CreateInsert, IInv, RestartInv, Published,
       PastLookup, SessionState, ReaperPc, TypeOK, CreatorEnded, ActiveStates,
       CountedStates, WorkerPc
<1>9. CASE CreatePut(s)
  BY <1>9, IInv, TypeOK' DEF CreatePut, Unlocked, IInv, RestartInv, Published,
       PastLookup, SessionState, ReaperPc, TypeOK, CreatorEnded, ActiveStates,
       CountedStates, WorkerPc
<1>10. CASE CreateCookies(s)
  BY <1>10, IInv, TypeOK' DEF CreateCookies, IInv, RestartInv, Published,
       PastLookup, SessionState, ReaperPc, TypeOK, CreatorEnded, ActiveStates,
       CountedStates, WorkerPc
<1>11. CASE CreateInject(s)
  BY <1>11, IInv, TypeOK' DEF CreateInject, IInv, RestartInv, Published,
       PastLookup, SessionState, ReaperPc, TypeOK, CreatorEnded, ActiveStates,
       CountedStates, WorkerPc
<1>12. CASE CreateAnswer(s)
  BY <1>12, IInv, TypeOK' DEF CreateAnswer, IInv, RestartInv, Published,
       PastLookup, SessionState, ReaperPc, TypeOK, CreatorEnded, ActiveStates,
       CountedStates, WorkerPc
<1>13. CASE CreateUnput(s)
  BY <1>13, IInv, TypeOK' DEF CreateUnput, Unlocked, Remove, IInv, RestartInv,
       Published, PastLookup, SessionState, ReaperPc, TypeOK, CreatorEnded,
       ActiveStates, CountedStates, WorkerPc
<1>14. CASE CreateUnkill(s)
  BY <1>14, IInv, TypeOK' DEF CreateUnkill, IInv, RestartInv, Published,
       PastLookup, SessionState, ReaperPc, TypeOK, CreatorEnded, ActiveStates,
       CountedStates, WorkerPc
<1>15. CASE CreateFail(s)
  BY <1>15, IInv, TypeOK' DEF CreateFail, IInv, RestartInv, Published,
       PastLookup, SessionState, ReaperPc, TypeOK, CreatorEnded, ActiveStates,
       CountedStates, WorkerPc
<1>16. CASE CreateErrs(s)
  BY <1>16, IInv, TypeOK' DEF CreateErrs, IInv, RestartInv, Published,
       PastLookup, SessionState, ReaperPc, TypeOK, CreatorEnded, ActiveStates,
       CountedStates, WorkerPc
<1>17. CASE CreateDropped(s)
  BY <1>17, IInv, TypeOK' DEF CreateDropped, IInv, RestartInv, Published,
       PastLookup, SessionState, ReaperPc, TypeOK, CreatorEnded, ActiveStates,
       CountedStates, WorkerPc
<1>18. QED
  BY <1>1, <1>2, <1>3, <1>4, <1>5, <1>6, <1>7, <1>8, <1>9, <1>10, <1>11,
       <1>12, <1>13, <1>14, <1>15, <1>16, <1>17 DEF Create, CreateSteps,
       CreateLocks

\* The steps of a running handler keep the types
LEMMA HandlerType ==
  ASSUME TypeOK, NEW w \in Workers,
         WorkLocks(w) \/ CloseSteps(w) \/ ActionSteps(w) \/ ProxySteps(w)
           \/ ProxyRelay(w) \/ WorkErrs(w) \/ WorkDropped(w)
  PROVE  TypeOK'
<1>1. CASE CloseTake(w)
  BY <1>1, TypeOK DEF CloseTake, Unlocked, Remove, TypeOK, CreatorPc,
       WorkerPc, SessionState, ReaperPc
<1>2. CASE CloseRead(w)
  BY <1>2, TypeOK DEF CloseRead, TypeOK, CreatorPc, WorkerPc, SessionState,
       ReaperPc
<1>3. CASE CloseFetch(w)
  BY <1>3, TypeOK DEF CloseFetch, TypeOK, CreatorPc, WorkerPc, SessionState,
       ReaperPc
<1>4. CASE CloseSave(w)
  BY <1>4, TypeOK DEF CloseSave, TypeOK, CreatorPc, WorkerPc, SessionState,
       ReaperPc
<1>5. CASE CloseKill(w)
  BY <1>5, TypeOK DEF CloseKill, TypeOK, CreatorPc, WorkerPc, SessionState,
       ReaperPc
<1>6. CASE CloseMark(w)
  BY <1>6, TypeOK DEF CloseMark, TypeOK, CreatorPc, WorkerPc, SessionState,
       ReaperPc
<1>7. CASE ActionRuntime(w)
  BY <1>7, TypeOK DEF ActionRuntime, Unlocked, TypeOK, CreatorPc, WorkerPc,
       SessionState, ReaperPc
<1>8. CASE ActionTarget(w)
  BY <1>8, TypeOK DEF ActionTarget, Unlocked, TypeOK, CreatorPc, WorkerPc,
       SessionState, ReaperPc
<1>9. CASE ActionNewTarget(w)
  BY <1>9, TypeOK DEF ActionNewTarget, TypeOK, CreatorPc, WorkerPc,
       SessionState, ReaperPc
<1>10. CASE ActionSetTarget(w)
  BY <1>10, TypeOK DEF ActionSetTarget, Unlocked, TypeOK, CreatorPc, WorkerPc,
       SessionState, ReaperPc
<1>11. CASE ActionRun(w)
  BY <1>11, TypeOK DEF ActionRun, TypeOK, CreatorPc, WorkerPc, SessionState,
       ReaperPc
<1>12. CASE ActionTouch(w)
  BY <1>12, TypeOK DEF ActionTouch, TypeOK, CreatorPc, WorkerPc, SessionState,
       ReaperPc
<1>13. CASE WorkDropped(w)
  BY <1>13, TypeOK DEF WorkDropped, TypeOK, CreatorPc, WorkerPc, SessionState,
       ReaperPc
<1>14. CASE ProxyRow(w)
  BY <1>14, TypeOK DEF ProxyRow, TypeOK, CreatorPc, WorkerPc, SessionState,
       ReaperPc
<1>15. CASE ProxyAttach(w)
  BY <1>15, TypeOK DEF ProxyAttach, TypeOK, CreatorPc, WorkerPc, SessionState,
       ReaperPc
<1>16. CASE ProxyConnect(w)
  BY <1>16, TypeOK DEF ProxyConnect, TypeOK, CreatorPc, WorkerPc,
       SessionState, ReaperPc
<1>17. CASE ProxyRelay(w)
  BY <1>17, TypeOK DEF ProxyRelay, TypeOK, CreatorPc, WorkerPc, SessionState,
       ReaperPc
<1>18. CASE ProxyDetach(w)
  BY <1>18, TypeOK DEF ProxyDetach, TypeOK, CreatorPc, WorkerPc, SessionState,
       ReaperPc
<1>19. CASE WorkErrs(w)
  BY <1>19, TypeOK DEF WorkErrs, CallFails, TypeOK, CreatorPc, WorkerPc,
       SessionState, ReaperPc
<1>20. QED
  BY <1>1, <1>2, <1>3, <1>4, <1>5, <1>6, <1>7, <1>8, <1>9, <1>10, <1>11,
       <1>12, <1>13, <1>14, <1>15, <1>16, <1>17, <1>18, <1>19 DEF WorkLocks,
       CloseSteps, ActionSteps, ProxySteps

\* The steps of a running handler keep the one-holder invariant
LEMMA HandlerOwn ==
  ASSUME IInv, TypeOK', NEW w \in Workers,
         WorkLocks(w) \/ CloseSteps(w) \/ ActionSteps(w) \/ ProxySteps(w)
           \/ ProxyRelay(w) \/ WorkErrs(w) \/ WorkDropped(w)
  PROVE  OwnInv'
<1>1. CASE CloseTake(w)
  BY <1>1, IInv, TypeOK' DEF CloseTake, Unlocked, Remove, IInv, OwnInv,
       LockOwner, Published, ReaperPc, TypeOK, WorkerPc
<1>2. CASE CloseRead(w)
  BY <1>2, IInv, TypeOK' DEF CloseRead, IInv, OwnInv, LockOwner, Published,
       ReaperPc, TypeOK, WorkerPc
<1>3. CASE CloseFetch(w)
  BY <1>3, IInv, TypeOK' DEF CloseFetch, IInv, OwnInv, LockOwner, Published,
       ReaperPc, TypeOK, WorkerPc
<1>4. CASE CloseSave(w)
  BY <1>4, IInv, TypeOK' DEF CloseSave, IInv, OwnInv, LockOwner, Published,
       ReaperPc, TypeOK, WorkerPc
<1>5. CASE CloseKill(w)
  BY <1>5, IInv, TypeOK' DEF CloseKill, IInv, OwnInv, LockOwner, Published,
       ReaperPc, TypeOK, WorkerPc
<1>6. CASE CloseMark(w)
  BY <1>6, IInv, TypeOK' DEF CloseMark, IInv, OwnInv, LockOwner, Published,
       ReaperPc, TypeOK, WorkerPc
<1>7. CASE ActionRuntime(w)
  BY <1>7, IInv, TypeOK' DEF ActionRuntime, Unlocked, IInv, OwnInv, LockOwner,
       Published, ReaperPc, TypeOK, WorkerPc
<1>8. CASE ActionTarget(w)
  BY <1>8, IInv, TypeOK' DEF ActionTarget, Unlocked, IInv, OwnInv, LockOwner,
       Published, ReaperPc, TypeOK, WorkerPc
<1>9. CASE ActionNewTarget(w)
  BY <1>9, IInv, TypeOK' DEF ActionNewTarget, IInv, OwnInv, LockOwner,
       Published, ReaperPc, TypeOK, WorkerPc
<1>10. CASE ActionSetTarget(w)
  BY <1>10, IInv, TypeOK' DEF ActionSetTarget, Unlocked, IInv, OwnInv,
       LockOwner, Published, ReaperPc, TypeOK, WorkerPc
<1>11. CASE ActionRun(w)
  BY <1>11, IInv, TypeOK' DEF ActionRun, IInv, OwnInv, LockOwner, Published,
       ReaperPc, TypeOK, WorkerPc
<1>12. CASE ActionTouch(w)
  BY <1>12, IInv, TypeOK' DEF ActionTouch, IInv, OwnInv, LockOwner, Published,
       ReaperPc, TypeOK, WorkerPc
<1>13. CASE WorkDropped(w)
  BY <1>13, IInv, TypeOK' DEF WorkDropped, IInv, OwnInv, LockOwner, Published,
       ReaperPc, TypeOK, WorkerPc
<1>14. CASE ProxyRow(w)
  BY <1>14, IInv, TypeOK' DEF ProxyRow, IInv, OwnInv, LockOwner, Published,
       ReaperPc, TypeOK, WorkerPc
<1>15. CASE ProxyAttach(w)
  BY <1>15, IInv, TypeOK' DEF ProxyAttach, IInv, OwnInv, LockOwner, Published,
       ReaperPc, TypeOK, WorkerPc
<1>16. CASE ProxyConnect(w)
  BY <1>16, IInv, TypeOK' DEF ProxyConnect, IInv, OwnInv, LockOwner,
       Published, ReaperPc, TypeOK, WorkerPc
<1>17. CASE ProxyRelay(w)
  BY <1>17, IInv, TypeOK' DEF ProxyRelay, IInv, OwnInv, LockOwner, Published,
       ReaperPc, TypeOK, WorkerPc
<1>18. CASE ProxyDetach(w)
  BY <1>18, IInv, TypeOK' DEF ProxyDetach, IInv, OwnInv, LockOwner, Published,
       ReaperPc, TypeOK, WorkerPc
<1>19. CASE WorkErrs(w)
  BY <1>19, IInv, TypeOK' DEF WorkErrs, CallFails, IInv, OwnInv, LockOwner,
       Published, ReaperPc, TypeOK, WorkerPc
<1>20. QED
  BY <1>1, <1>2, <1>3, <1>4, <1>5, <1>6, <1>7, <1>8, <1>9, <1>10, <1>11,
       <1>12, <1>13, <1>14, <1>15, <1>16, <1>17, <1>18, <1>19 DEF WorkLocks,
       CloseSteps, ActionSteps, ProxySteps

\* The steps of a running handler keep what follows a restart
LEMMA HandlerRestart ==
  ASSUME IInv, TypeOK', NEW w \in Workers,
         WorkLocks(w) \/ CloseSteps(w) \/ ActionSteps(w) \/ ProxySteps(w)
           \/ ProxyRelay(w) \/ WorkErrs(w) \/ WorkDropped(w)
  PROVE  RestartInv'
<1>1. CASE CloseTake(w)
  BY <1>1, IInv, TypeOK' DEF CloseTake, Unlocked, Remove, IInv, RestartInv,
       Published, PastLookup, SessionState, ReaperPc, TypeOK, CreatorEnded,
       ActiveStates, CountedStates, WorkerPc
<1>2. CASE CloseRead(w)
  BY <1>2, IInv, TypeOK' DEF CloseRead, IInv, RestartInv, Published,
       PastLookup, SessionState, ReaperPc, TypeOK, CreatorEnded, ActiveStates,
       CountedStates, WorkerPc
<1>3. CASE CloseFetch(w)
  BY <1>3, IInv, TypeOK' DEF CloseFetch, IInv, RestartInv, Published,
       PastLookup, SessionState, ReaperPc, TypeOK, CreatorEnded, ActiveStates,
       CountedStates, WorkerPc
<1>4. CASE CloseSave(w)
  BY <1>4, IInv, TypeOK' DEF CloseSave, IInv, RestartInv, Published,
       PastLookup, SessionState, ReaperPc, TypeOK, CreatorEnded, ActiveStates,
       CountedStates, WorkerPc
<1>5. CASE CloseKill(w)
  BY <1>5, IInv, TypeOK' DEF CloseKill, IInv, RestartInv, Published,
       PastLookup, SessionState, ReaperPc, TypeOK, CreatorEnded, ActiveStates,
       CountedStates, WorkerPc
<1>6. CASE CloseMark(w)
  BY <1>6, IInv, TypeOK' DEF CloseMark, IInv, RestartInv, Published,
       PastLookup, SessionState, ReaperPc, TypeOK, CreatorEnded, ActiveStates,
       CountedStates, WorkerPc
<1>7. CASE ActionRuntime(w)
  BY <1>7, IInv, TypeOK' DEF ActionRuntime, Unlocked, IInv, RestartInv,
       Published, PastLookup, SessionState, ReaperPc, TypeOK, CreatorEnded,
       ActiveStates, CountedStates, WorkerPc
<1>8. CASE ActionTarget(w)
  BY <1>8, IInv, TypeOK' DEF ActionTarget, Unlocked, IInv, RestartInv,
       Published, PastLookup, SessionState, ReaperPc, TypeOK, CreatorEnded,
       ActiveStates, CountedStates, WorkerPc
<1>9. CASE ActionNewTarget(w)
  BY <1>9, IInv, TypeOK' DEF ActionNewTarget, IInv, RestartInv, Published,
       PastLookup, SessionState, ReaperPc, TypeOK, CreatorEnded, ActiveStates,
       CountedStates, WorkerPc
<1>10. CASE ActionSetTarget(w)
  BY <1>10, IInv, TypeOK' DEF ActionSetTarget, Unlocked, IInv, RestartInv,
       Published, PastLookup, SessionState, ReaperPc, TypeOK, CreatorEnded,
       ActiveStates, CountedStates, WorkerPc
<1>11. CASE ActionRun(w)
  BY <1>11, IInv, TypeOK' DEF ActionRun, IInv, RestartInv, Published,
       PastLookup, SessionState, ReaperPc, TypeOK, CreatorEnded, ActiveStates,
       CountedStates, WorkerPc
<1>12. CASE ActionTouch(w)
  BY <1>12, IInv, TypeOK' DEF ActionTouch, IInv, RestartInv, Published,
       PastLookup, SessionState, ReaperPc, TypeOK, CreatorEnded, ActiveStates,
       CountedStates, WorkerPc
<1>13. CASE WorkDropped(w)
  BY <1>13, IInv, TypeOK' DEF WorkDropped, IInv, RestartInv, Published,
       PastLookup, SessionState, ReaperPc, TypeOK, CreatorEnded, ActiveStates,
       CountedStates, WorkerPc
<1>14. CASE ProxyRow(w)
  BY <1>14, IInv, TypeOK' DEF ProxyRow, IInv, RestartInv, Published,
       PastLookup, SessionState, ReaperPc, TypeOK, CreatorEnded, ActiveStates,
       CountedStates, WorkerPc
<1>15. CASE ProxyAttach(w)
  BY <1>15, IInv, TypeOK' DEF ProxyAttach, IInv, RestartInv, Published,
       PastLookup, SessionState, ReaperPc, TypeOK, CreatorEnded, ActiveStates,
       CountedStates, WorkerPc
<1>16. CASE ProxyConnect(w)
  BY <1>16, IInv, TypeOK' DEF ProxyConnect, IInv, RestartInv, Published,
       PastLookup, SessionState, ReaperPc, TypeOK, CreatorEnded, ActiveStates,
       CountedStates, WorkerPc
<1>17. CASE ProxyRelay(w)
  BY <1>17, IInv, TypeOK' DEF ProxyRelay, IInv, RestartInv, Published,
       PastLookup, SessionState, ReaperPc, TypeOK, CreatorEnded, ActiveStates,
       CountedStates, WorkerPc
<1>18. CASE ProxyDetach(w)
  BY <1>18, IInv, TypeOK' DEF ProxyDetach, IInv, RestartInv, Published,
       PastLookup, SessionState, ReaperPc, TypeOK, CreatorEnded, ActiveStates,
       CountedStates, WorkerPc
<1>19. CASE WorkErrs(w)
  BY <1>19, IInv, TypeOK' DEF WorkErrs, CallFails, IInv, RestartInv,
       Published, PastLookup, SessionState, ReaperPc, TypeOK, CreatorEnded,
       ActiveStates, CountedStates, WorkerPc
<1>20. QED
  BY <1>1, <1>2, <1>3, <1>4, <1>5, <1>6, <1>7, <1>8, <1>9, <1>10, <1>11,
       <1>12, <1>13, <1>14, <1>15, <1>16, <1>17, <1>18, <1>19 DEF WorkLocks,
       CloseSteps, ActionSteps, ProxySteps

\* New close and action requests keep the types
LEMMA RequestStartType ==
  ASSUME TypeOK, NEW w \in Workers, NEW s \in Sessions, StartClose(w, s) \/ StartAction(w, s)
  PROVE  TypeOK'
<1>1. CASE StartClose(w, s)
  BY <1>1, TypeOK DEF StartClose, Begin, TypeOK, CreatorPc, WorkerPc,
       SessionState, ReaperPc
<1>2. CASE StartAction(w, s)
  BY <1>2, TypeOK DEF StartAction, Begin, TypeOK, CreatorPc, WorkerPc,
       SessionState, ReaperPc
<1>3. QED
  BY <1>1, <1>2

\* New close and action requests keep the one-holder invariant
LEMMA RequestStartOwn ==
  ASSUME IInv, TypeOK', NEW w \in Workers, NEW s \in Sessions, StartClose(w, s) \/ StartAction(w, s)
  PROVE  OwnInv'
<1>1. CASE StartClose(w, s)
  BY <1>1, IInv, TypeOK' DEF StartClose, Begin, IInv, OwnInv, LockOwner,
       Published, ReaperPc, TypeOK, WorkerPc
<1>2. CASE StartAction(w, s)
  BY <1>2, IInv, TypeOK' DEF StartAction, Begin, IInv, OwnInv, LockOwner,
       Published, ReaperPc, TypeOK, WorkerPc
<1>3. QED
  BY <1>1, <1>2

\* New close and action requests keep what follows a restart
LEMMA RequestStartRestart ==
  ASSUME IInv, TypeOK', NEW w \in Workers, NEW s \in Sessions, StartClose(w, s) \/ StartAction(w, s)
  PROVE  RestartInv'
<1>1. CASE StartClose(w, s)
  BY <1>1, IInv, TypeOK' DEF StartClose, Begin, IInv, RestartInv, Published,
       PastLookup, SessionState, ReaperPc, TypeOK, CreatorEnded, ActiveStates,
       CountedStates, WorkerPc
<1>2. CASE StartAction(w, s)
  BY <1>2, IInv, TypeOK' DEF StartAction, Begin, IInv, RestartInv, Published,
       PastLookup, SessionState, ReaperPc, TypeOK, CreatorEnded, ActiveStates,
       CountedStates, WorkerPc
<1>3. QED
  BY <1>1, <1>2

\* A proxied connection's start must keep the types
LEMMA RequestProxyType ==
  ASSUME TypeOK, NEW w \in Workers, NEW s \in Sessions, NEW g \in Grants, ProxyUse(w, g, s)
  PROVE  TypeOK'
  BY TypeOK DEF ProxyUse, GrantUsable, TypeOK, CreatorPc, WorkerPc,
       SessionState, ReaperPc

\* A proxied connection's start must keep the one-holder invariant
LEMMA RequestProxyOwn ==
  ASSUME IInv, TypeOK', NEW w \in Workers, NEW s \in Sessions, NEW g \in Grants, ProxyUse(w, g, s)
  PROVE  OwnInv'
  BY IInv, TypeOK' DEF ProxyUse, GrantUsable, IInv, OwnInv, LockOwner,
       Published, ReaperPc, TypeOK, WorkerPc

\* A proxied connection's start must keep what follows a restart
LEMMA RequestProxyRestart ==
  ASSUME IInv, TypeOK', NEW w \in Workers, NEW s \in Sessions, NEW g \in Grants, ProxyUse(w, g, s)
  PROVE  RestartInv'
  BY IInv, TypeOK' DEF ProxyUse, GrantUsable, IInv, RestartInv,
       Published, PastLookup, SessionState, ReaperPc, TypeOK, CreatorEnded,
       ActiveStates, CountedStates, WorkerPc

\* Grants, profiles, children and restarts keep the types
LEMMA EnvironmentType ==
  ASSUME TypeOK,
         \/ \E g \in Grants : ExpireGrant(g) \/ \E s \in Sessions : MintGrant(g, s)
         \/ \E p \in Profiles : DeleteCheck(p) \/ DeleteRow(p)
         \/ \E s \in Sessions : Child(s)
         \/ Crash \/ Boot \/ SecondStart \/ UNCHANGED vars
  PROVE  TypeOK'
<1>1. CASE \E g \in Grants, s \in Sessions : MintGrant(g, s)
  BY <1>1, TypeOK DEF MintGrant, CreatorEnded, ActiveStates, CountedStates,
       TypeOK, CreatorPc, WorkerPc, SessionState, ReaperPc
<1>2. CASE \E g \in Grants : ExpireGrant(g)
  BY <1>2, TypeOK DEF ExpireGrant, CreatorEnded, ActiveStates, CountedStates,
       TypeOK, CreatorPc, WorkerPc, SessionState, ReaperPc
<1>3. CASE \E p \in Profiles : DeleteCheck(p)
  BY <1>3, TypeOK DEF DeleteCheck, CreatorEnded, ActiveStates, CountedStates,
       TypeOK, CreatorPc, WorkerPc, SessionState, ReaperPc
<1>4. CASE \E p \in Profiles : DeleteRow(p)
  BY <1>4, TypeOK DEF DeleteRow, CreatorEnded, ActiveStates, CountedStates,
       TypeOK, CreatorPc, WorkerPc, SessionState, ReaperPc
<1>5. CASE \E s \in Sessions : ChildServes(s)
  BY <1>5, TypeOK DEF ChildServes, CreatorEnded, ActiveStates, CountedStates,
       TypeOK, CreatorPc, WorkerPc, SessionState, ReaperPc
<1>6. CASE \E s \in Sessions : ChildHangs(s)
  BY <1>6, TypeOK DEF ChildHangs, CreatorEnded, ActiveStates, CountedStates,
       TypeOK, CreatorPc, WorkerPc, SessionState, ReaperPc
<1>7. CASE \E s \in Sessions : ChildExits(s)
  BY <1>7, TypeOK DEF ChildExits, CreatorEnded, ActiveStates, CountedStates,
       TypeOK, CreatorPc, WorkerPc, SessionState, ReaperPc
<1>8. CASE Crash
  BY <1>8, TypeOK DEF Crash, CreatorEnded, ActiveStates, CountedStates,
       TypeOK, CreatorPc, WorkerPc, SessionState, ReaperPc
<1>9. CASE Boot
  BY <1>9, TypeOK DEF Boot, MarkStale, CreatorEnded, ActiveStates,
       CountedStates, TypeOK, CreatorPc, WorkerPc, SessionState, ReaperPc
<1>10. CASE SecondStart
  BY <1>10, TypeOK DEF SecondStart, MarkStale, CreatorEnded, ActiveStates,
       CountedStates, TypeOK, CreatorPc, WorkerPc, SessionState, ReaperPc
<1>11. CASE UNCHANGED vars
  BY <1>11, TypeOK DEF vars, CreatorEnded, ActiveStates, CountedStates,
       TypeOK, CreatorPc, WorkerPc, SessionState, ReaperPc
<1>12. QED
  BY <1>1, <1>2, <1>3, <1>4, <1>5, <1>6, <1>7, <1>8, <1>9, <1>10, <1>11 DEF
       Child

\* They keep the one-holder invariant
LEMMA EnvironmentOwn ==
  ASSUME IInv, TypeOK',
         \/ \E g \in Grants : ExpireGrant(g) \/ \E s \in Sessions : MintGrant(g, s)
         \/ \E p \in Profiles : DeleteCheck(p) \/ DeleteRow(p)
         \/ \E s \in Sessions : Child(s)
         \/ Crash \/ Boot \/ SecondStart \/ UNCHANGED vars
  PROVE  OwnInv'
<1>1. CASE \E g \in Grants, s \in Sessions : MintGrant(g, s)
  BY <1>1, IInv, TypeOK' DEF MintGrant, CreatorEnded, ActiveStates,
       CountedStates, IInv, OwnInv, LockOwner, Published, ReaperPc, TypeOK,
       WorkerPc
<1>2. CASE \E g \in Grants : ExpireGrant(g)
  BY <1>2, IInv, TypeOK' DEF ExpireGrant, CreatorEnded, ActiveStates,
       CountedStates, IInv, OwnInv, LockOwner, Published, ReaperPc, TypeOK,
       WorkerPc
<1>3. CASE \E p \in Profiles : DeleteCheck(p)
  BY <1>3, IInv, TypeOK' DEF DeleteCheck, CreatorEnded, ActiveStates,
       CountedStates, IInv, OwnInv, LockOwner, Published, ReaperPc, TypeOK,
       WorkerPc
<1>4. CASE \E p \in Profiles : DeleteRow(p)
  BY <1>4, IInv, TypeOK' DEF DeleteRow, CreatorEnded, ActiveStates,
       CountedStates, IInv, OwnInv, LockOwner, Published, ReaperPc, TypeOK,
       WorkerPc
<1>5. CASE \E s \in Sessions : ChildServes(s)
  BY <1>5, IInv, TypeOK' DEF ChildServes, CreatorEnded, ActiveStates,
       CountedStates, IInv, OwnInv, LockOwner, Published, ReaperPc, TypeOK,
       WorkerPc
<1>6. CASE \E s \in Sessions : ChildHangs(s)
  BY <1>6, IInv, TypeOK' DEF ChildHangs, CreatorEnded, ActiveStates,
       CountedStates, IInv, OwnInv, LockOwner, Published, ReaperPc, TypeOK,
       WorkerPc
<1>7. CASE \E s \in Sessions : ChildExits(s)
  BY <1>7, IInv, TypeOK' DEF ChildExits, CreatorEnded, ActiveStates,
       CountedStates, IInv, OwnInv, LockOwner, Published, ReaperPc, TypeOK,
       WorkerPc
<1>8. CASE Crash
  BY <1>8, IInv, TypeOK' DEF Crash, CreatorEnded, ActiveStates, CountedStates,
       IInv, OwnInv, LockOwner, Published, ReaperPc, TypeOK, WorkerPc
<1>9. CASE Boot
  BY <1>9, IInv, TypeOK' DEF Boot, MarkStale, CreatorEnded, ActiveStates,
       CountedStates, IInv, OwnInv, LockOwner, Published, ReaperPc, TypeOK,
       WorkerPc
<1>10. CASE SecondStart
  BY <1>10, IInv, TypeOK' DEF SecondStart, MarkStale, CreatorEnded,
       ActiveStates, CountedStates, IInv, OwnInv, LockOwner, Published,
       ReaperPc, TypeOK, WorkerPc
<1>11. CASE UNCHANGED vars
  BY <1>11, IInv, TypeOK' DEF vars, CreatorEnded, ActiveStates, CountedStates,
       IInv, OwnInv, LockOwner, Published, ReaperPc, TypeOK, WorkerPc
<1>12. QED
  BY <1>1, <1>2, <1>3, <1>4, <1>5, <1>6, <1>7, <1>8, <1>9, <1>10, <1>11 DEF
       Child

\* They keep what follows a restart
LEMMA EnvironmentRestart ==
  ASSUME IInv, TypeOK',
         \/ \E g \in Grants : ExpireGrant(g) \/ \E s \in Sessions : MintGrant(g, s)
         \/ \E p \in Profiles : DeleteCheck(p) \/ DeleteRow(p)
         \/ \E s \in Sessions : Child(s)
         \/ Crash \/ Boot \/ SecondStart \/ UNCHANGED vars
  PROVE  RestartInv'
<1>1. CASE \E g \in Grants, s \in Sessions : MintGrant(g, s)
  BY <1>1, IInv, TypeOK' DEF MintGrant, IInv, RestartInv, Published,
       PastLookup, SessionState, ReaperPc, TypeOK, CreatorEnded, ActiveStates,
       CountedStates, WorkerPc
<1>2. CASE \E g \in Grants : ExpireGrant(g)
  BY <1>2, IInv, TypeOK' DEF ExpireGrant, IInv, RestartInv, Published,
       PastLookup, SessionState, ReaperPc, TypeOK, CreatorEnded, ActiveStates,
       CountedStates, WorkerPc
<1>3. CASE \E p \in Profiles : DeleteCheck(p)
  BY <1>3, IInv, TypeOK' DEF DeleteCheck, IInv, RestartInv, Published,
       PastLookup, SessionState, ReaperPc, TypeOK, CreatorEnded, ActiveStates,
       CountedStates, WorkerPc
<1>4. CASE \E p \in Profiles : DeleteRow(p)
  BY <1>4, IInv, TypeOK' DEF DeleteRow, IInv, RestartInv, Published,
       PastLookup, SessionState, ReaperPc, TypeOK, CreatorEnded, ActiveStates,
       CountedStates, WorkerPc
<1>5. CASE \E s \in Sessions : ChildServes(s)
  BY <1>5, IInv, TypeOK' DEF ChildServes, IInv, RestartInv, Published,
       PastLookup, SessionState, ReaperPc, TypeOK, CreatorEnded, ActiveStates,
       CountedStates, WorkerPc
<1>6. CASE \E s \in Sessions : ChildHangs(s)
  BY <1>6, IInv, TypeOK' DEF ChildHangs, IInv, RestartInv, Published,
       PastLookup, SessionState, ReaperPc, TypeOK, CreatorEnded, ActiveStates,
       CountedStates, WorkerPc
<1>7. CASE \E s \in Sessions : ChildExits(s)
  BY <1>7, IInv, TypeOK' DEF ChildExits, IInv, RestartInv, Published,
       PastLookup, SessionState, ReaperPc, TypeOK, CreatorEnded, ActiveStates,
       CountedStates, WorkerPc
<1>8. CASE Crash
  BY <1>8, IInv, TypeOK' DEF Crash, IInv, RestartInv, Published, PastLookup,
       SessionState, ReaperPc, TypeOK, CreatorEnded, ActiveStates,
       CountedStates, WorkerPc
<1>9. CASE Boot
  BY <1>9, IInv, TypeOK' DEF Boot, MarkStale, IInv, RestartInv, Published,
       PastLookup, SessionState, ReaperPc, TypeOK, CreatorEnded, ActiveStates,
       CountedStates, WorkerPc
<1>10. CASE SecondStart
  BY <1>10, IInv, TypeOK' DEF SecondStart, MarkStale, IInv, RestartInv,
       Published, PastLookup, SessionState, ReaperPc, TypeOK, CreatorEnded,
       ActiveStates, CountedStates, WorkerPc
<1>11. CASE UNCHANGED vars
  BY <1>11, IInv, TypeOK' DEF vars, IInv, RestartInv, Published, PastLookup,
       SessionState, ReaperPc, TypeOK, CreatorEnded, ActiveStates,
       CountedStates, WorkerPc
<1>12. QED
  BY <1>1, <1>2, <1>3, <1>4, <1>5, <1>6, <1>7, <1>8, <1>9, <1>10, <1>11 DEF
       Child

-----------------------------------------------------------------------------
\* The initial state satisfies the inductive invariant
LEMMA InitInv == Init => IInv
  BY DEF Init, IInv, OwnInv, RestartInv, LockOwner, Published, ReaperPc, PastLookup,
         CreatorEnded, TypeOK, CreatorPc, WorkerPc, SessionState

\* Every step of the gateway preserves it
LEMMA NextInv == IInv /\ [Next]_vars => IInv'
<1>. SUFFICES ASSUME IInv, [Next]_vars PROVE IInv'
  OBVIOUS
<1>1. CASE \E s \in Sessions : Create(s)
  <2>. PICK s \in Sessions : Create(s)  BY <1>1
  <2>1. TypeOK'  BY CreateType DEF IInv
  <2>2. OwnInv' /\ RestartInv'  BY <2>1, CreateOwn, CreateRestart
  <2>. QED  BY <2>1, <2>2 DEF IInv
<1>2. CASE \E w \in Workers : WorkLocks(w) \/ CloseSteps(w) \/ ActionSteps(w)
                             \/ ProxySteps(w) \/ ProxyRelay(w) \/ WorkErrs(w)
                             \/ WorkDropped(w)
  <2>. PICK w \in Workers : WorkLocks(w) \/ CloseSteps(w) \/ ActionSteps(w)
                             \/ ProxySteps(w) \/ ProxyRelay(w) \/ WorkErrs(w)
                             \/ WorkDropped(w)
    BY <1>2
  <2>1. TypeOK'  BY HandlerType DEF IInv
  <2>2. OwnInv' /\ RestartInv'  BY <2>1, HandlerOwn, HandlerRestart
  <2>. QED  BY <2>1, <2>2 DEF IInv
<1>3. ASSUME NEW w \in Workers, NEW s \in Sessions, StartClose(w, s) \/ StartAction(w, s)
      PROVE  IInv'
  <2>1. TypeOK'  BY <1>3, RequestStartType DEF IInv
  <2>2. OwnInv' /\ RestartInv'  BY <1>3, <2>1, RequestStartOwn, RequestStartRestart
  <2>. QED  BY <2>1, <2>2 DEF IInv
<1>4. ASSUME NEW w \in Workers, NEW s \in Sessions, NEW g \in Grants, ProxyUse(w, g, s)
      PROVE  IInv'
  <2>1. TypeOK'  BY <1>4, RequestProxyType DEF IInv
  <2>2. OwnInv' /\ RestartInv'  BY <1>4, <2>1, RequestProxyOwn, RequestProxyRestart
  <2>. QED  BY <2>1, <2>2 DEF IInv
<1>5. CASE \/ \E g \in Grants : Grant(g)
           \/ \E p \in Profiles : Delete(p)
           \/ \E s \in Sessions : Child(s)
           \/ Crash \/ Boot \/ SecondStart \/ UNCHANGED vars
  <2>1. TypeOK'  BY <1>5, EnvironmentType DEF IInv, Grant, Delete
  <2>2. OwnInv' /\ RestartInv'  BY <1>5, <2>1, EnvironmentOwn, EnvironmentRestart DEF Grant, Delete
  <2>. QED  BY <2>1, <2>2 DEF IInv
<1>. QED  BY <1>1, <1>2, <1>3, <1>4, <1>5 DEF Next, Work

\* The inductive invariant holds in every reachable state
LEMMA Invariant == Spec => []IInv
  BY InitInv, NextInv, PTL DEF Spec

\* The variables always have their types, and a worker names a session exactly
\* while it runs a handler.
THEOREM TypeCorrect == Spec => []TypeOK
<1>1. IInv => TypeOK  BY DEF IInv
<1>. QED  BY <1>1, Invariant, PTL

\* The runtimes guard is kept across awaits only by the one handler that took a
\* session out of the map, so every abandoned or failed handler frees it.
THEOREM LockHasOwner == Spec => []LockOwner
<1>1. IInv => LockOwner  BY DEF IInv, OwnInv
<1>. QED  BY <1>1, Invariant, PTL

\* A child has at most one holder: never two handlers that both believe the
\* process is theirs to kill, nor a handler and the map.
THEOREM ChildHasOneOwner == Spec => []OneOwner
<1>1. IInv => OneOwner
  <2>. SUFFICES ASSUME IInv, NEW s \in Sessions
                PROVE  /\ HeldByCreator(s) => ~HeldByMap(s) /\ ~HeldByReaper(s)
                       /\ HeldByMap(s) => ~HeldByReaper(s)
                       /\ creator[s] = "unkill" => Reapers(s) = {}
                       /\ \A v, w \in Reapers(s) : v = w
    BY DEF OneOwner
  <2>1. \A w \in Reapers(s) : lock = w /\ s \notin runtimes /\ creator[s] \in Published
    BY DEF IInv, OwnInv, LockOwner, Reapers
  <2>2. creator[s] = "unkill" => lock = s /\ s \notin runtimes
    BY DEF IInv, OwnInv, LockOwner
  <2>3. creator[s] = "unkill" => Reapers(s) = {}
    BY <2>1, <2>2 DEF Reapers
  <2>4. HeldByCreator(s) => s \notin runtimes /\ Reapers(s) = {} /\ creator[s] # "unkill"
    BY <2>1 DEF HeldByCreator, Published, IInv, OwnInv
  <2>. QED
    BY <2>1, <2>2, <2>3, <2>4 DEF HeldByMap, HeldByReaper
<1>. QED  BY <1>1, Invariant, PTL

\* A handler works with the grant that let it in until it ends
GrantInv == GrantSingleUse /\ \A w \in Workers : pc[w] = "idle" => using[w] = None

\* Of all steps only use_grant hands a grant to a handler
LEMMA WorkersKeepGrants ==
  ASSUME IInv, GrantInv, [Next]_vars,
         \A w \in Workers, g \in Grants, s \in Sessions : ~ProxyUse(w, g, s)
  PROVE  \A v \in Workers : /\ using'[v] = None \/ (using'[v] = using[v] /\ on'[v] = on[v])
                            /\ pc'[v] = "idle" => using'[v] = None
<1>1. CASE UNCHANGED workVars
  BY <1>1 DEF GrantInv
<1>2. CASE \E w \in Workers, to \in WorkerPc : Goto(w, to)
  BY <1>2 DEF Goto, GrantInv, IInv, TypeOK
<1>3. CASE \E w \in Workers, s \in Sessions, to \in WorkerPc \ {"idle"} : Begin(w, s, to)
  BY <1>3 DEF Begin, WorkAt, GrantInv, IInv, TypeOK
<1>4. CASE Crash
  BY <1>4 DEF Crash
<1>5. \/ UNCHANGED workVars
      \/ \E w \in Workers, to \in WorkerPc : Goto(w, to)
      \/ \E w \in Workers, s \in Sessions, to \in WorkerPc \ {"idle"} : Begin(w, s, to)
      \/ Crash
  <2>1. ASSUME NEW s \in Sessions, Create(s) \/ Child(s)
        PROVE  UNCHANGED workVars
    BY <2>1 DEF Create, CreateSteps, CreateLocks, Child, createOnly,
         StartCreate, CreateCount, CreateLookup, CreateExclusive, CreateSpawn,
         CreateServed, CreateGivesUp, CreateInsert, CreatePut, CreateCookies,
         CreateInject, CreateAnswer, CreateUnput, CreateUnkill, CreateFail, CreateErrs, CreateDropped,
         ChildServes, ChildHangs, ChildExits
  <2>2. ASSUME NEW w \in Workers, Work(w)
        PROVE  \/ \E to \in WorkerPc : Goto(w, to)
               \/ \E s \in Sessions, to \in WorkerPc \ {"idle"} : Begin(w, s, to)
               \/ UNCHANGED workVars
    <3>1. CASE \E s \in Sessions : StartClose(w, s) \/ StartAction(w, s)
      BY <3>1 DEF StartClose, StartAction, WorkerPc
    <3>2. CASE WorkLocks(w)
      BY <3>2 DEF WorkLocks, CloseTake, ActionRuntime, ActionTarget, ActionSetTarget, WorkerPc
    <3>3. CASE CloseSteps(w)
      BY <3>3 DEF CloseSteps, CloseRead, CloseFetch, CloseSave, CloseKill, CloseMark, WorkerPc
    <3>4. CASE ActionSteps(w) \/ WorkErrs(w) \/ WorkDropped(w)
      BY <3>4 DEF ActionSteps, ActionNewTarget, ActionRun, ActionTouch, WorkErrs, WorkDropped, WorkerPc
    <3>5. CASE ProxySteps(w) \/ ProxyRelay(w)
      BY <3>5 DEF ProxySteps, ProxyRow, ProxyAttach, ProxyConnect, ProxyDetach, ProxyRelay,
           WorkerPc
    <3>. QED  BY <2>2, <3>1, <3>2, <3>3, <3>4, <3>5 DEF Work
  <2>3. ASSUME \/ \E g \in Grants : Grant(g)
               \/ \E p \in Profiles : Delete(p)
               \/ Boot \/ SecondStart \/ UNCHANGED vars
        PROVE  UNCHANGED workVars
    BY <2>3 DEF Grant, MintGrant, ExpireGrant, Delete, DeleteCheck, DeleteRow, Boot,
         SecondStart, vars
  <2>. QED  BY <2>1, <2>2, <2>3 DEF Next
<1>. QED  BY <1>1, <1>2, <1>3, <1>4, <1>5

\* Minting and expiry concern grants that let nobody in
LEMMA GrantsStay ==
  ASSUME IInv, GrantInv, [Next]_vars,
         \A w \in Workers, g \in Grants, s \in Sessions : ~ProxyUse(w, g, s)
  PROVE  \A g \in Grants : /\ admitted'[g] = admitted[g] /\ (grant'[g] = "used" <=> grant[g] = "used")
                           /\ grant[g] = "used" => grantOf'[g] = grantOf[g]
<1>1. CASE \E g \in Grants : ExpireGrant(g) \/ \E s \in Sessions : MintGrant(g, s)
  BY <1>1 DEF ExpireGrant, MintGrant, IInv, TypeOK
<1>2. CASE UNCHANGED grantVars
  BY <1>2
<1>3. UNCHANGED grantVars \/ \E g \in Grants : Grant(g)
  <2>1. ASSUME NEW s \in Sessions, Create(s) \/ Child(s)
        PROVE  UNCHANGED grantVars
    BY <2>1 DEF Create, CreateSteps, CreateLocks, Child, createOnly,
         StartCreate, CreateCount, CreateLookup, CreateExclusive, CreateSpawn,
         CreateServed, CreateGivesUp, CreateInsert, CreatePut, CreateCookies,
         CreateInject, CreateAnswer, CreateUnput, CreateUnkill, CreateFail, CreateErrs, CreateDropped,
         ChildServes, ChildHangs, ChildExits
  <2>2. ASSUME NEW w \in Workers, Work(w)
        PROVE  UNCHANGED grantVars
    <3>1. CASE \E s \in Sessions : StartClose(w, s) \/ StartAction(w, s)
      BY <3>1 DEF StartClose, StartAction, Begin, workOnly
    <3>2. CASE WorkLocks(w)
      BY <3>2 DEF WorkLocks, CloseTake, ActionRuntime, ActionTarget, ActionSetTarget, workOnly
    <3>3. CASE CloseSteps(w)
      BY <3>3 DEF CloseSteps, CloseRead, CloseFetch, CloseSave, CloseKill, CloseMark, workOnly
    <3>4. CASE ActionSteps(w) \/ WorkErrs(w) \/ WorkDropped(w)
      BY <3>4 DEF ActionSteps, ActionNewTarget, ActionRun, ActionTouch, WorkErrs, WorkDropped, workOnly
    <3>5. CASE ProxySteps(w) \/ ProxyRelay(w)
      BY <3>5 DEF ProxySteps, ProxyRow, ProxyAttach, ProxyConnect, ProxyDetach, ProxyRelay,
           workOnly
    <3>. QED  BY <2>2, <3>1, <3>2, <3>3, <3>4, <3>5 DEF Work
  <2>3. ASSUME \/ \E p \in Profiles : Delete(p)
               \/ Crash \/ Boot \/ SecondStart \/ UNCHANGED vars
        PROVE  UNCHANGED grantVars
    BY <2>3 DEF Delete, DeleteCheck, DeleteRow, Crash, Boot, SecondStart, vars
  <2>. QED  BY <2>1, <2>2, <2>3 DEF Next
<1>. QED  BY <1>1, <1>2, <1>3 DEF Grant

\* A grant lets in one connection in all the runs of the gateway, stays used for good, and
\* its connection works on the session it was minted for.
THEOREM GrantUsedOnce == Spec => []GrantSingleUse
<1>1. Init => GrantInv
  BY DEF Init, GrantInv, GrantSingleUse
<1>2. ASSUME IInv, GrantInv, [Next]_vars
      PROVE  GrantInv'
  <2>1. ASSUME NEW w \in Workers, NEW g \in Grants, NEW s \in Sessions, ProxyUse(w, g, s)
        PROVE  GrantInv'
    <3>1. /\ pc[w] = "idle" /\ grant[g] = "fresh" /\ grantOf[g] = s /\ UNCHANGED grantOf
          /\ \A h \in Grants : /\ grant'[h] = IF h = g THEN "used" ELSE grant[h]
                               /\ admitted'[h] = IF h = g THEN admitted[g] + 1 ELSE admitted[h]
          /\ \A v \in Workers : /\ using'[v] = IF v = w THEN g ELSE using[v]
                                /\ on'[v] = IF v = w THEN s ELSE on[v]
                                /\ pc'[v] = IF v = w THEN "row" ELSE pc[v]
      BY <1>2, <2>1 DEF ProxyUse, GrantUsable, WorkAt, IInv, TypeOK
    <3>2. admitted[g] = 0
      <4>1. admitted[g] \in Nat /\ admitted[g] <= 1 /\ admitted[g] # 1
        BY <1>2, <3>1 DEF GrantInv, GrantSingleUse, IInv, TypeOK
      <4>. QED  BY <4>1
    <3>3. \A v \in Workers : using[v] \in Grants \cup {None} /\ using[v] # g
      BY <1>2, <3>2 DEF GrantInv, GrantSingleUse, IInv, TypeOK
    <3>4. \A h \in Grants : admitted'[h] <= 1 /\ (admitted'[h] = 1 <=> grant'[h] = "used")
      BY <1>2, <3>1, <3>2 DEF GrantInv, GrantSingleUse
    <3>5. admitted'[g] = 1 /\ \A h \in Grants \ {g} : admitted'[h] = admitted[h]
      BY <3>1, <3>2
    <3>6. \A v \in Workers : using'[v] # None =>
            admitted'[using'[v]] = 1 /\ grantOf'[using'[v]] = on'[v]
      BY <1>2, <3>1, <3>3, <3>5 DEF GrantInv, GrantSingleUse
    <3>7. \A u, v \in Workers : using'[u] = using'[v] /\ using'[v] # None => u = v
      BY <1>2, <3>1, <3>3 DEF GrantInv, GrantSingleUse
    <3>8. \A v \in Workers : pc'[v] = "idle" => using'[v] = None
      BY <1>2, <3>1 DEF GrantInv
    <3>. QED
      BY <3>4, <3>6, <3>7, <3>8 DEF GrantInv, GrantSingleUse
  <2>2. ASSUME \A w \in Workers, g \in Grants, s \in Sessions : ~ProxyUse(w, g, s)
        PROVE  GrantInv'
    <3>1. \A v \in Workers : /\ using'[v] = None \/ (using'[v] = using[v] /\ on'[v] = on[v])
                             /\ pc'[v] = "idle" => using'[v] = None
      BY <1>2, <2>2, WorkersKeepGrants
    <3>2. \A g \in Grants : /\ admitted'[g] = admitted[g] /\ (grant'[g] = "used" <=> grant[g] = "used")
                            /\ grant[g] = "used" => grantOf'[g] = grantOf[g]
      BY <1>2, <2>2, GrantsStay
    <3>. QED
      BY <1>2, <3>1, <3>2 DEF GrantInv, GrantSingleUse, IInv, TypeOK
  <2>. QED  BY <2>1, <2>2
<1>3. GrantInv => GrantSingleUse  BY DEF GrantInv
<1>4. IInv /\ GrantInv /\ [Next]_vars => GrantInv'  BY <1>2
<1>. QED  BY <1>1, <1>3, <1>4, Invariant, PTL DEF Spec

\* A session the restart marked failed is never active again: no handler of the
\* new process can find a runtime or a url for it.  (Beside a gateway that serves
\* a start marks sessions whose handlers are at work, and those go on.)
THEOREM RestartIsFinal ==
  ASSUME "secondstart" \notin Faults
  PROVE  Spec => RestartFailedStaysDown
<1>1. ASSUME IInv, [Next]_vars, NEW s \in Sessions, state[s] = "failed", creator[s] = "done"
      PROVE  state'[s] \in {"failed", "closed"}
  <2>1. ~url[s] /\ \A w \in Workers : on[w] = s => pc[w] \notin PastLookup
    BY <1>1 DEF IInv, RestartInv
  <2>2. ASSUME NEW o \in Sessions, Create(o) \/ Child(o)
        PROVE  state'[s] = "failed"
    BY <1>1, <2>2 DEF Create, CreateSteps, CreateLocks, Child, dbVars, createOnly, CreateAt,
         StartCreate, CreateCount, CreateLookup, CreateExclusive, CreateSpawn,
         CreateServed, CreateGivesUp, CreateInsert, CreatePut, CreateCookies,
         CreateInject, CreateAnswer, CreateUnput, CreateUnkill, CreateFail, CreateErrs, CreateDropped,
         ChildServes, ChildHangs, ChildExits, SetState, IInv, TypeOK
  <2>3. ASSUME NEW w \in Workers, Work(w)
        PROVE  state'[s] \in {"failed", "closed"}
    <3>1. CASE \E o \in Sessions : \/ StartClose(w, o) \/ StartAction(w, o)
                                   \/ \E g \in Grants : ProxyUse(w, g, o)
      BY <1>1, <3>1 DEF StartClose, StartAction, ProxyUse, Begin, workOnly, dbVars
    <3>2. CASE WorkLocks(w) \/ WorkErrs(w) \/ WorkDropped(w) \/ ProxyRelay(w)
      BY <1>1, <3>2 DEF WorkLocks, CloseTake, ActionRuntime, ActionTarget, ActionSetTarget,
           WorkErrs, WorkDropped, ProxyRelay, workOnly, dbVars
    <3>3. CASE CloseSteps(w)
      BY <1>1, <3>3 DEF CloseSteps, CloseRead, CloseFetch, CloseSave, CloseKill,
           CloseMark, SetState, workOnly, dbVars, IInv, TypeOK
    <3>4. CASE ActionSteps(w)
      BY <1>1, <2>1, <3>4 DEF ActionSteps, ActionNewTarget, ActionRun, ActionTouch, WorkAt,
           PastLookup, SetState, workOnly, dbVars, IInv, TypeOK
    <3>5. CASE ProxySteps(w)
      BY <1>1, <2>1, <3>5 DEF ProxySteps, ProxyRow, ProxyAttach, ProxyConnect, ProxyDetach,
           WorkAt, PastLookup, SetState, workOnly, dbVars, IInv, TypeOK
    <3>. QED  BY <2>3, <3>1, <3>2, <3>3, <3>4, <3>5 DEF Work
  <2>4. ASSUME \/ \E g \in Grants : Grant(g)
               \/ \E p \in Profiles : Delete(p)
               \/ Crash \/ Boot \/ SecondStart \/ UNCHANGED vars
        PROVE  state'[s] = "failed"
    BY <1>1, <2>4 DEF Grant, MintGrant, ExpireGrant, Delete, DeleteCheck, DeleteRow, Crash,
         Boot, SecondStart, MarkStale, ActiveStates, CountedStates, dbVars, vars
  <2>. QED  BY <1>1, <2>2, <2>3, <2>4 DEF Next
<1>2. IInv /\ [Next]_vars => \A s \in Sessions : state[s] = "failed" /\ creator[s] = "done" =>
                               state'[s] \in {"failed", "closed"}
  BY <1>1
<1>. QED  BY <1>2, Invariant, PTL DEF Spec, RestartFailedStaysDown
=============================================================================
