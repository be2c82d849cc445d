--------------------------- MODULE OwnershipProofs ---------------------------
(***************************************************************************)
(* The handlers of Sessions implement Ownership: every step of the gateway *)
(* moves a child from holder to holder as Ownership allows, or moves none. *)
(* After it, theorems about Sessions that hold for some requests, some     *)
(* faults or creates that do not overlap, as their hypotheses say.         *)
(***************************************************************************)
EXTENDS SessionsProofs, FiniteSetTheorems

USE NoneAssumption, DisjointAssumption
USE DEF profileVars, dbVars, reqVars, mapVars, workVars, grantVars, createOnly, workOnly,
        CreateAt, CreateGoto, WorkAt, Goto, SetState

-----------------------------------------------------------------------------
\* What the mapping needs besides IInv: who holds a child has launched it, and
\* close_session saves the cookies of a profile that was named.
Launching == {"new", "count", "lookup", "exclusive", "spawn"}

ChildInv ==
  /\ \A s \in Sessions :
       /\ creator[s] \in Launching => child[s] = "none"
       /\ HeldByCreator(s) \/ HeldByMap(s) \/ creator[s] = "unkill" => child[s] # "none"
       /\ creator[s] = "cookies" => profile[s] # None
  /\ \A w \in Workers : pc[w] \in ReaperPc => child[on[w]] # "none"
  /\ \A w \in Workers : pc[w] \in {"fetch", "save"} => profile[on[w]] # None
  /\ "delete" \notin Requests => profiles = Profiles /\ deleting = {}

LEMMA CreateChild ==
  ASSUME IInv, IInv', ChildInv, NEW s \in Sessions, Create(s)
  PROVE  ChildInv'
<1> USE DEF IInv, OwnInv, RestartInv, TypeOK, LockOwner, ChildInv, HeldByCreator, HeldByMap, Launching,
        ReaperPc, Published, CreatorEnded
<1>1. CASE StartCreate(s)
  BY <1>1 DEF StartCreate
<1>2. CASE CreateCount(s)
  BY <1>2 DEF CreateCount
<1>3. CASE CreateLookup(s)
  BY <1>3 DEF CreateLookup
<1>4. CASE CreateExclusive(s)
  BY <1>4 DEF CreateExclusive
<1>5. CASE CreateSpawn(s)
  BY <1>5 DEF CreateSpawn
<1>6. CASE CreateServed(s)
  BY <1>6 DEF CreateServed
<1>7. CASE CreateGivesUp(s)
  BY <1>7 DEF CreateGivesUp
<1>8. CASE CreateInsert(s)
  BY <1>8 DEF CreateInsert
<1>9. CASE CreatePut(s)
  BY <1>9 DEF CreatePut, Unlocked
<1>10. CASE CreateCookies(s)
  BY <1>10 DEF CreateCookies
<1>11. CASE CreateInject(s)
  BY <1>11 DEF CreateInject
<1>12. CASE CreateAnswer(s)
  BY <1>12 DEF CreateAnswer
<1>13. CASE CreateUnput(s)
  BY <1>13 DEF CreateUnput, Unlocked, Remove
<1>14. CASE CreateUnkill(s)
  BY <1>14 DEF CreateUnkill
<1>15. CASE CreateFail(s)
  BY <1>15 DEF CreateFail
<1>16. CASE CreateErrs(s)
  BY <1>16 DEF CreateErrs
<1>17. CASE CreateDropped(s)
  BY <1>17 DEF CreateDropped
<1> QED
  BY <1>1, <1>2, <1>3, <1>4, <1>5, <1>6, <1>7, <1>8, <1>9, <1>10, <1>11, <1>12, <1>13,
     <1>14, <1>15, <1>16, <1>17 DEF Create, CreateSteps, CreateLocks

LEMMA WorkChild ==
  ASSUME IInv, IInv', ChildInv, NEW w \in Workers, Work(w)
  PROVE  ChildInv'
<1> USE DEF IInv, OwnInv, RestartInv, TypeOK, LockOwner, ChildInv, HeldByCreator, HeldByMap, Launching,
        ReaperPc, Published, CreatorEnded
<1>0. CASE \E s \in Sessions : \/ StartClose(w, s) \/ StartAction(w, s)
                               \/ \E g \in Grants : ProxyUse(w, g, s)
  BY <1>0 DEF StartClose, StartAction, ProxyUse, Begin
<1>1. CASE CloseTake(w)
  BY <1>1 DEF CloseTake, Unlocked, Remove
<1>2. CASE CloseRead(w)
  BY <1>2 DEF CloseRead
<1>3. CASE CloseFetch(w)
  BY <1>3 DEF CloseFetch
<1>4. CASE CloseSave(w)
  BY <1>4 DEF CloseSave
<1>5. CASE CloseKill(w)
  BY <1>5 DEF CloseKill
<1>6. CASE CloseMark(w)
  BY <1>6 DEF CloseMark
<1>7. CASE ActionRuntime(w)
  BY <1>7 DEF ActionRuntime, Unlocked
<1>8. CASE ActionTarget(w)
  BY <1>8 DEF ActionTarget, Unlocked
<1>9. CASE ActionNewTarget(w)
  BY <1>9 DEF ActionNewTarget
<1>10. CASE ActionSetTarget(w)
  BY <1>10 DEF ActionSetTarget, Unlocked
<1>11. CASE ActionRun(w)
  BY <1>11 DEF ActionRun
<1>12. CASE ActionTouch(w)
  BY <1>12 DEF ActionTouch
<1>13. CASE WorkDropped(w)
  BY <1>13 DEF WorkDropped
<1>14. CASE ProxyRow(w)
  BY <1>14 DEF ProxyRow
<1>15. CASE ProxyAttach(w)
  BY <1>15 DEF ProxyAttach
<1>16. CASE ProxyConnect(w)
  BY <1>16 DEF ProxyConnect
<1>17. CASE ProxyRelay(w)
  BY <1>17 DEF ProxyRelay
<1>18. CASE ProxyDetach(w)
  BY <1>18 DEF ProxyDetach
<1>19. CASE WorkErrs(w)
  BY <1>19 DEF WorkErrs, CallFails
<1> QED
  BY <1>0, <1>1, <1>2, <1>3, <1>4, <1>5, <1>6, <1>7, <1>8, <1>9, <1>10, <1>11, <1>12, <1>13,
     <1>14, <1>15, <1>16, <1>17, <1>18, <1>19 DEF Work, WorkLocks, CloseSteps,
     ActionSteps, ProxySteps

\* Children, profiles, and the gateway process
LEMMA RestChild ==
  ASSUME IInv, IInv', ChildInv, [Next]_vars,
         ~\E s \in Sessions : Create(s), ~\E w \in Workers : Work(w)
  PROVE  ChildInv'
<1> USE DEF IInv, OwnInv, RestartInv, TypeOK, LockOwner, ChildInv, HeldByCreator, HeldByMap, Launching,
        ReaperPc, Published, CreatorEnded
<1>1. CASE \E s \in Sessions : Child(s)
  BY <1>1 DEF Child, ChildServes, ChildHangs, ChildExits, Live
<1>2. CASE \E g \in Grants : Grant(g)
  BY <1>2 DEF Grant, MintGrant, ExpireGrant
<1>3. CASE \E p \in Profiles : Delete(p)
  BY <1>3 DEF Delete, DeleteCheck, DeleteRow
<1>4. CASE Crash
  BY <1>4 DEF Crash
<1>5. CASE Boot
  BY <1>5 DEF Boot
<1>6. CASE SecondStart
  BY <1>6 DEF SecondStart
<1>7. CASE UNCHANGED vars
  BY <1>7 DEF vars
<1> QED
  BY <1>1, <1>2, <1>3, <1>4, <1>5, <1>6, <1>7 DEF Next

LEMMA ChildInvariance == Spec => [](IInv /\ ChildInv)
<1>1. Init => ChildInv
  BY DEF Init, ChildInv, HeldByCreator, HeldByMap, Launching, ReaperPc
<1>2. IInv /\ IInv' /\ ChildInv /\ [Next]_vars => ChildInv'
  BY CreateChild, WorkChild, RestChild
<1> QED
  BY <1>1, <1>2, InitInv, NextInv, PTL DEF Spec

-----------------------------------------------------------------------------
\* The holder of a child, read off the handlers' places
Reaping(s) == \E w \in Workers : pc[w] \in ReaperPc /\ on[w] = s
Who(c, mapped, reaping, k) ==
  IF c \in {"wait", "insert", "put"} THEN "creator"
  ELSE IF mapped THEN "map"
  ELSE IF c = "unkill" \/ reaping THEN "reaper"
  ELSE IF k = "none" THEN "unborn"
  ELSE IF k \in Live THEN "lost" ELSE "gone"

LEMMA WhoHolds ==
  ASSUME NEW s \in Sessions
  PROVE  /\ holderOf[s] = Who(creator[s], s \in runtimes, Reaping(s), child[s])
         /\ holderOf'[s] = Who(creator'[s], s \in runtimes', Reaping(s)', child'[s])
  BY DEF holderOf, Who, HeldByCreator, HeldByMap, HeldByReaper, Reapers, Reaping

\* The holders a step leaves alone
Kept(s) == holderOf'[s] = holderOf[s]

LEMMA Untouched ==
  ASSUME NEW s \in Sessions, creator'[s] = creator[s], child'[s] = child[s],
         s \in runtimes' <=> s \in runtimes, Reaping(s)' <=> Reaping(s)
  PROVE  Kept(s)
  BY WhoHolds DEF Kept, Who

\* A step that touches one holder
LEMMA MoveOne ==
  ASSUME NEW s \in Sessions, \A o \in Sessions : o # s => Kept(o)
  PROVE  /\ Kept(s) => UNCHANGED holderOf
         /\ \A from, to : holderOf[s] \in from /\ holderOf'[s] \in to => Own!Pass(s, from, to)
<1>1. holderOf' = [holderOf EXCEPT ![s] = holderOf'[s]]
  BY DEF Kept, holderOf
<1>2. holderOf = [holderOf EXCEPT ![s] = holderOf[s]]
  BY DEF holderOf
<1> QED
  BY <1>1, <1>2 DEF Kept, Own!Pass

-----------------------------------------------------------------------------
\* create_session: its child is launched, handed to the map, or let go
LEMMA CreateMoves ==
  ASSUME IInv, ChildInv, NEW s \in Sessions, Create(s)
  PROVE  [Own!Next]_holderOf
<1> USE DEF IInv, TypeOK, OwnInv, LockOwner, ChildInv, HeldByCreator, HeldByMap, Published, Launching
<1>1. /\ \A o \in Sessions : /\ o # s => creator'[o] = creator[o] /\ child'[o] = child[o]
                             /\ o # s => (o \in runtimes' <=> o \in runtimes)
      /\ UNCHANGED <<pc, on>>
  BY DEF Create, CreateSteps, CreateLocks, StartCreate, CreateCount, CreateLookup,
     CreateExclusive, CreateSpawn, CreateServed, CreateGivesUp, CreateInsert, CreatePut, CreateCookies,
     CreateInject, CreateAnswer, CreateUnput, CreateUnkill, CreateFail, CreateErrs, CreateDropped, Remove
<1>2. \A o \in Sessions : Reaping(o)' <=> Reaping(o)
  BY <1>1 DEF Reaping
<1>3. \A o \in Sessions : o # s => Kept(o)
  BY <1>1, <1>2, Untouched
<1>4. creator[s] \notin Published \/ s \in runtimes \/ creator[s] = "unkill" => ~Reaping(s)
  BY DEF Reaping
<1>5. CASE CreateSpawn(s)
  <2>1. holderOf[s] = "unborn" /\ holderOf'[s] = "creator"
    BY <1>2, <1>4, <1>5, WhoHolds DEF CreateSpawn, Who
  <2> QED
    BY <1>3, <2>1, MoveOne DEF Own!Next, Own!Launch
<1>6. CASE CreateGivesUp(s)
  <2>1. holderOf[s] = "creator" /\ holderOf'[s] = "gone"
    BY <1>2, <1>4, <1>6, WhoHolds DEF CreateGivesUp, Who, Live
  <2> QED
    BY <1>3, <2>1, MoveOne DEF Own!Next, Own!End
<1>7. CASE CreatePut(s)
  <2>1. holderOf[s] = "creator" /\ holderOf'[s] = "map"
    BY <1>2, <1>4, <1>7, WhoHolds DEF CreatePut, Who
  <2> QED
    BY <1>3, <2>1, MoveOne DEF Own!Next, Own!Publish
<1>8. CASE CreateUnput(s)
  <2>1. CASE s \in runtimes
    <3>1. holderOf[s] = "map" /\ holderOf'[s] = "reaper"
      BY <1>2, <1>4, <1>8, <2>1, WhoHolds DEF CreateUnput, Remove, Who
    <3> QED
      BY <1>3, <3>1, MoveOne DEF Own!Next, Own!Take
  <2>2. CASE s \notin runtimes
    <3>1. Kept(s)
      BY <1>2, <1>8, <2>2, WhoHolds DEF CreateUnput, Remove, Who, Kept
    <3> QED
      BY <1>3, <3>1, MoveOne
  <2> QED
    BY <2>1, <2>2
<1>9. CASE CreateUnkill(s)
  <2>1. holderOf[s] = "reaper" /\ holderOf'[s] = "gone"
    BY <1>2, <1>4, <1>9, WhoHolds DEF CreateUnkill, Who, Live
  <2> QED
    BY <1>3, <2>1, MoveOne DEF Own!Next, Own!End
<1>10. CASE CreateDropped(s)
  <2>1. CASE creator[s] \in {"wait", "put", "unkill"}
    <3>1. holderOf[s] \in {"creator", "reaper"} /\ holderOf'[s] \in {"lost", "gone"} /\ MayLose
      BY <1>2, <1>4, <1>10, <2>1, WhoHolds DEF CreateDropped, Who, Live, MayLose
    <3> QED
      BY <1>3, <3>1, MoveOne DEF Own!Next, Own!Lose
  <2>2. CASE creator[s] \in {"inject", "unput"}
    <3>1. Kept(s)
      BY <1>2, <1>10, <2>2, WhoHolds DEF CreateDropped, Who, Kept
    <3> QED
      BY <1>3, <3>1, MoveOne
  <2> QED
    BY <1>10, <2>1, <2>2 DEF CreateDropped
<1>11. CASE StartCreate(s) \/ CreateCount(s) \/ CreateLookup(s) \/ CreateExclusive(s)
            \/ CreateServed(s) \/ CreateInsert(s) \/ CreateCookies(s) \/ CreateInject(s)
            \/ CreateAnswer(s) \/ CreateFail(s) \/ CreateErrs(s)
  <2>1. /\ UNCHANGED <<runtimes, child>>
        /\ creator[s] \in {"wait", "insert", "put"} <=> creator'[s] \in {"wait", "insert", "put"}
        /\ creator[s] # "unkill" /\ creator'[s] # "unkill"
    BY <1>11 DEF StartCreate, CreateCount, CreateLookup, CreateExclusive, CreateServed, CreateInsert,
       CreateCookies, CreateInject, CreateAnswer, CreateFail, CreateErrs
  <2>2. Kept(s)
    BY <1>2, <2>1, WhoHolds DEF Who, Kept
  <2> QED
    BY <1>3, <2>2, MoveOne
<1> QED
  BY <1>5, <1>6, <1>7, <1>8, <1>9, <1>10, <1>11 DEF Create, CreateSteps, CreateLocks

\* The request handlers: only close_session takes a child, and ends or loses it
LEMMA WorkMoves ==
  ASSUME IInv, IInv', ChildInv, NEW w \in Workers, Work(w)
  PROVE  [Own!Next]_holderOf
<1> USE DEF TypeOK, LockOwner, ChildInv
<1>1. UNCHANGED creator /\ \A v \in Workers : v # w => pc'[v] = pc[v] /\ on'[v] = on[v]
  BY DEF IInv, Work, WorkLocks, CloseSteps, ActionSteps, ProxySteps, CloseTake, CloseRead, CloseFetch,
     CloseSave, CloseKill, CloseMark, ActionRuntime, ActionTarget, ActionNewTarget, ActionSetTarget,
     ActionRun, ActionTouch, WorkDropped, ProxyRow, ProxyAttach, ProxyConnect, ProxyRelay, ProxyDetach,
     WorkErrs, StartClose, StartAction, ProxyUse, Begin
<1>2. ASSUME pc[w] \in ReaperPc
      PROVE  \A s \in Sessions : Reaping(s) <=> s = on[w]
  <2>1. \A v \in Workers : pc[v] \in ReaperPc <=> v = w
    BY <1>2 DEF IInv, OwnInv
  <2> QED
    BY <2>1 DEF Reaping
<1>3. ASSUME pc[w] \notin ReaperPc, pc'[w] \notin ReaperPc
      PROVE  \A s \in Sessions : Reaping(s)' <=> Reaping(s)
  BY <1>1, <1>3 DEF Reaping
<1>4. ASSUME pc[w] \in ReaperPc, pc'[w] \in ReaperPc, on'[w] = on[w]
      PROVE  \A s \in Sessions : Reaping(s)' <=> Reaping(s)
  BY <1>1, <1>4 DEF Reaping
<1>5. ASSUME pc[w] \in ReaperPc, pc'[w] \notin ReaperPc
      PROVE  /\ \A s \in Sessions : ~Reaping(s)'
             /\ on[w] \in Sessions /\ on[w] \notin runtimes /\ child[on[w]] # "none"
             /\ creator[on[w]] \notin {"wait", "insert", "put", "unkill"}
  BY <1>1, <1>5 DEF IInv, OwnInv, Published, Reaping, ReaperPc
<1>6. CASE CloseTake(w)
  <2>1. CASE on[w] \in runtimes
    <3>1. /\ \A s \in Sessions : ~Reaping(s)
          /\ \A s \in Sessions : Reaping(s)' <=> s = on[w]
      <4>1. \A v \in Workers : pc[v] \notin ReaperPc
        BY <1>6 DEF IInv, OwnInv, CloseTake, Unlocked
      <4>2. pc'[w] = "read" /\ on'[w] = on[w]
        BY <1>6, <2>1 DEF IInv, CloseTake
      <4> QED
        BY <1>1, <4>1, <4>2 DEF Reaping, ReaperPc
    <3>2. \A s \in Sessions : s # on[w] => Kept(s)
      BY <1>1, <1>6, <3>1, Untouched DEF CloseTake, Remove
    <3>3. holderOf[on[w]] = "map" /\ holderOf'[on[w]] = "reaper"
      BY <1>1, <1>6, <2>1, <3>1, WhoHolds DEF IInv, OwnInv, Published, CloseTake, Remove, Who
    <3> QED
      BY <2>1, <3>2, <3>3, MoveOne DEF IInv, Own!Next, Own!Take
  <2>2. CASE on[w] \notin runtimes
    <3>1. /\ \A s \in Sessions : s \in runtimes' <=> s \in runtimes
          /\ UNCHANGED child /\ pc[w] \notin ReaperPc /\ pc'[w] \notin ReaperPc
      BY <1>6, <2>2 DEF IInv, CloseTake, Remove, ReaperPc
    <3>2. \A s \in Sessions : Kept(s)
      BY <1>1, <1>3, <3>1, Untouched
    <3> QED
      BY <3>2 DEF Kept, holderOf
  <2> QED
    BY <2>1, <2>2
<1>7. CASE CloseKill(w)
  <2>1. pc[w] \in ReaperPc /\ pc'[w] \notin ReaperPc /\ UNCHANGED runtimes
    BY <1>7 DEF IInv, CloseKill, ReaperPc
  <2>2. \A s \in Sessions : s # on[w] => Kept(s)
    BY <1>1, <1>2, <1>5, <1>7, <2>1, Untouched DEF IInv, CloseKill
  <2>3. holderOf[on[w]] = "reaper" /\ holderOf'[on[w]] = "gone"
    BY <1>1, <1>2, <1>5, <1>7, <2>1, WhoHolds DEF IInv, CloseKill, Who, Live
  <2> QED
    BY <1>5, <2>1, <2>2, <2>3, MoveOne DEF Own!Next, Own!End
<1>8. CASE WorkErrs(w) \/ WorkDropped(w)
  <2>1. UNCHANGED runtimes /\ pc'[w] \notin ReaperPc
    BY <1>8 DEF IInv, WorkErrs, WorkDropped, CallFails, ReaperPc
  <2>2. CASE pc[w] \in ReaperPc
    <3>1. MayLose
      BY <1>8, <2>2 DEF IInv, WorkErrs, WorkDropped, CallFails, MayLose, ReaperPc
    <3>2. \A s \in Sessions : s # on[w] => child'[s] = child[s]
      BY <1>8 DEF IInv, WorkErrs, WorkDropped
    <3>3. \A s \in Sessions : s # on[w] => Kept(s)
      BY <1>1, <1>2, <1>5, <2>1, <2>2, <3>2, Untouched
    <3>4. child'[on[w]] # "none"
      BY <1>5, <1>8, <2>1, <2>2 DEF IInv, WorkErrs, WorkDropped
    <3>5. holderOf[on[w]] = "reaper" /\ holderOf'[on[w]] \in {"lost", "gone"}
      BY <1>1, <1>2, <1>5, <2>1, <2>2, <3>4, WhoHolds DEF Who
    <3> QED
      BY <1>5, <2>1, <2>2, <3>1, <3>3, <3>5, MoveOne DEF Own!Next, Own!Lose
  <2>3. CASE pc[w] \notin ReaperPc
    <3>1. UNCHANGED child
      BY <1>8, <2>3 DEF IInv, WorkErrs, WorkDropped, ReaperPc
    <3>2. \A s \in Sessions : Kept(s)
      BY <1>1, <1>3, <2>1, <2>3, <3>1, Untouched
    <3> QED
      BY <3>2 DEF Kept, holderOf
  <2> QED
    BY <2>2, <2>3
<1>9. CASE CloseRead(w) \/ CloseFetch(w) \/ CloseSave(w)
  <2>1. UNCHANGED <<runtimes, child, on>> /\ pc[w] \in ReaperPc /\ pc'[w] \in ReaperPc
    BY <1>9 DEF IInv, CloseRead, CloseFetch, CloseSave, ReaperPc
  <2>2. \A s \in Sessions : Kept(s)
    BY <1>1, <1>4, <2>1, Untouched
  <2> QED
    BY <2>2 DEF Kept, holderOf
<1>10. ASSUME ~CloseTake(w), ~CloseKill(w), ~WorkErrs(w), ~WorkDropped(w),
              ~CloseRead(w), ~CloseFetch(w), ~CloseSave(w)
       PROVE  UNCHANGED holderOf
  <2>1. UNCHANGED <<runtimes, child>> /\ pc[w] \notin ReaperPc /\ pc'[w] \notin ReaperPc
    BY <1>10 DEF IInv, Work, WorkLocks, CloseSteps, ActionSteps, ProxySteps,
       CloseMark, ActionRuntime, ActionTarget, ActionNewTarget, ActionSetTarget,
       ActionRun, ActionTouch, ProxyRow, ProxyAttach, ProxyConnect, ProxyRelay, ProxyDetach,
       StartClose, StartAction, ProxyUse, Begin, ReaperPc
  <2>2. \A s \in Sessions : Kept(s)
    BY <1>1, <1>3, <2>1, Untouched
  <2> QED
    BY <2>2 DEF Kept, holderOf
<1> QED
  BY <1>6, <1>7, <1>8, <1>9, <1>10

\* A child that ends is missed by its holder or was lost; with the gateway every
\* holder ends
LEMMA RestMoves ==
  ASSUME IInv, ChildInv, [Next]_vars,
         ~\E s \in Sessions : Create(s), ~\E w \in Workers : Work(w)
  PROVE  [Own!Next]_holderOf
<1>1. CASE \E s \in Sessions : Child(s)
  <2> PICK s \in Sessions : Child(s)
    BY <1>1
  <2>1. /\ UNCHANGED <<creator, runtimes, pc, on>>
        /\ \A o \in Sessions : o # s => child'[o] = child[o]
        /\ child[s] \in Live
        /\ child'[s] \in Live \cup {"exited"}
    BY DEF IInv, TypeOK, Child, ChildServes, ChildHangs, ChildExits, Live
  <2>2. \A o \in Sessions : Reaping(o)' <=> Reaping(o)
    BY <2>1 DEF Reaping
  <2>3. \A o \in Sessions : o # s => Kept(o)
    BY <2>1, <2>2, Untouched
  <2>4. CASE \/ creator[s] \in {"wait", "insert", "put", "unkill"}
             \/ s \in runtimes \/ Reaping(s)
    <3>1. Kept(s)
      BY <2>1, <2>2, <2>4, WhoHolds DEF Who, Kept
    <3> QED
      BY <2>3, <3>1, MoveOne
  <2>5. CASE ~(\/ creator[s] \in {"wait", "insert", "put", "unkill"}
               \/ s \in runtimes \/ Reaping(s))
    <3>1. holderOf[s] = "lost" /\ holderOf'[s] \in {"lost", "gone"}
      BY <2>1, <2>2, <2>5, WhoHolds DEF Who, Live
    <3> QED
      BY <2>3, <3>1, MoveOne DEF Kept, Own!Next, Own!ExitUnseen
  <2> QED
    BY <2>4, <2>5
<1>2. CASE Crash
  <2>1. \A s \in Sessions : /\ creator'[s] \notin {"wait", "insert", "put", "unkill"}
                            /\ s \notin runtimes' /\ ~Reaping(s)' /\ child'[s] = child[s]
    BY <1>2 DEF IInv, TypeOK, Crash, CreatorEnded, Reaping, ReaperPc
  <2>2. ASSUME NEW s \in Sessions
        PROVE  IF holderOf[s] \in Own!Held THEN holderOf'[s] \in {"lost", "gone"}
               ELSE holderOf'[s] = holderOf[s]
    <3>1. holderOf[s] \in Own!Held => child[s] # "none"
      BY WhoHolds DEF Own!Held, Who, Reaping, ChildInv, HeldByCreator, HeldByMap, Live
    <3> QED
      BY <2>1, <3>1, WhoHolds DEF Own!Held, Who, Live
  <2>3. holderOf' \in [Sessions -> Own!Holder]
    BY DEF holderOf, Own!Holder
  <2> QED
    BY <1>2, <2>2, <2>3 DEF Own!Next, Own!LoseAll, MayLose, Crash
<1>3. CASE \/ \E g \in Grants : Grant(g)
           \/ \E p \in Profiles : Delete(p)
           \/ Boot \/ SecondStart \/ UNCHANGED vars
  <2>1. UNCHANGED <<creator, runtimes, child, pc, on>>
    BY <1>3 DEF Grant, MintGrant, ExpireGrant, Delete, DeleteCheck, DeleteRow, Boot, SecondStart, vars
  <2>2. \A s \in Sessions : Kept(s)
    BY <2>1, Untouched DEF Reaping
  <2> QED
    BY <2>2 DEF Kept, holderOf
<1> QED
  BY <1>1, <1>2, <1>3 DEF Next

\* Whatever clients ask for and whatever fails, a child of the gateway passes from
\* the handler that launched it to the map and from the map to one reaper, and is
\* never held again after that (gateway.rs:239, 281, 299, 323).
THEOREM OwnershipKept == Spec => ImplementsOwnership
<1>1. Init => Own!Init
  BY WhoHolds DEF Init, Own!Init, holderOf, HeldByCreator, HeldByMap, HeldByReaper, Reapers, ReaperPc
<1>2. IInv /\ IInv' /\ ChildInv /\ [Next]_vars => [Own!Next]_holderOf
  BY CreateMoves, WorkMoves, RestMoves
<1> QED
  BY <1>1, <1>2, ChildInvariance, PTL DEF Spec, ImplementsOwnership, Own!Spec

\* Unless a handler is cut short, a call fails under it, the gateway dies or a
\* profile disappears, every running child has someone who can kill it: Ownership
\* loses none then (gateway.rs:246-251, 277-280, 299, 354).
THEOREM NoChildIsLost ==
  ASSUME ~MayLose
  PROVE  Spec => []NoOrphan
<1> DEFINE NoneLost == holderOf \in [Sessions -> Own!Holder \ {"lost"}]
<1>1. Own!Init => NoneLost
  BY DEF Own!Init, Own!Holder
<1>2. NoneLost /\ [Own!Next]_holderOf => NoneLost'
  BY DEF Own!Next, Own!Launch, Own!Publish, Own!Take, Own!End, Own!Lose, Own!ExitUnseen, Own!LoseAll,
     Own!Pass, Own!Holder
<1>3. NoneLost => NoOrphan
  BY WhoHolds DEF NoOrphan, holderOf, Live
<1> HIDE DEF NoneLost
<1> QED
  BY <1>1, <1>2, <1>3, OwnershipKept, PTL DEF ImplementsOwnership, Own!Spec

-----------------------------------------------------------------------------
USE MaxAssumption

\* Clients create and close sessions and ask nothing else of them
OnlyCreateAndClose == Requests \cap {"action", "grant"} = {}

\* Then the only running handlers are those of close_session
CloseInv ==
  /\ \A w \in Workers : pc[w] \in {"idle", "take", "mark"} \cup ReaperPc
  /\ \A g \in Grants : grant[g] = "unminted"

LEMMA CloseWorks ==
  ASSUME OnlyCreateAndClose, CloseInv, NEW w \in Workers, Work(w)
  PROVE  \/ CloseTake(w) \/ CloseSteps(w) \/ WorkErrs(w) \/ WorkDropped(w)
         \/ \E s \in Sessions : StartClose(w, s)
  BY DEF CloseInv, ReaperPc, Work, WorkLocks, ActionRuntime, ActionTarget, ActionSetTarget, ActionSteps,
     ActionNewTarget, ActionRun, ActionTouch, ProxySteps, ProxyRow, ProxyAttach, ProxyConnect, ProxyDetach,
     ProxyRelay, StartAction, ProxyUse, GrantUsable, OnlyCreateAndClose

LEMMA CloseInvariance ==
  ASSUME OnlyCreateAndClose
  PROVE  Spec => []CloseInv
<1> USE DEF TypeOK, CloseInv, ReaperPc
<1>1. Init => CloseInv
  BY DEF Init
<1>2. ASSUME IInv, CloseInv, [Next]_vars
      PROVE  CloseInv'
  <2> USE <1>2 DEF IInv
  <2>1. ASSUME NEW s \in Sessions, Create(s) \/ Child(s)
        PROVE  CloseInv'
    BY <2>1 DEF Create, CreateSteps, CreateLocks, StartCreate, CreateCount, CreateLookup,
       CreateExclusive, CreateSpawn, CreateServed, CreateGivesUp, CreateInsert, CreatePut, CreateCookies,
       CreateInject, CreateAnswer, CreateUnput, CreateUnkill, CreateFail, CreateErrs, CreateDropped,
       Child, ChildServes, ChildHangs, ChildExits
  <2>2. ASSUME NEW w \in Workers, CloseTake(w) \/ CloseSteps(w) \/ WorkErrs(w) \/ WorkDropped(w)
        PROVE  CloseInv'
    BY <2>2 DEF CloseTake, CloseSteps, CloseRead, CloseFetch, CloseSave, CloseKill, CloseMark,
       WorkErrs, WorkDropped
  <2>3. ASSUME NEW w \in Workers, NEW s \in Sessions, StartClose(w, s)
        PROVE  CloseInv'
    BY <2>3 DEF StartClose, Begin
  <2>4. ASSUME NEW g \in Grants, Grant(g)
        PROVE  CloseInv'
    BY <2>4 DEF Grant, MintGrant, ExpireGrant, OnlyCreateAndClose
  <2>5. CASE \E p \in Profiles : Delete(p)
    BY <2>5 DEF Delete, DeleteCheck, DeleteRow
  <2>6. CASE Crash \/ Boot \/ SecondStart \/ UNCHANGED vars
    BY <2>6 DEF Crash, Boot, SecondStart, vars
  <2> QED
    BY <2>1, <2>2, <2>3, <2>4, <2>5, <2>6, CloseWorks DEF Next
<1> QED
  BY <1>1, <1>2, Invariant, PTL DEF Spec

-----------------------------------------------------------------------------
\* A failing create_session ends its child before it gives up the row, and a row is
\* active only between the insert and the handler that takes its runtime away.
InertInv ==
  /\ ActiveOwned
  /\ FailedCreateInert
  /\ \A s \in Sessions : creator[s] = "fail" => child[s] \notin Live

\* With the sets of handlers spelt out
LEMMA Owned ==
  ActiveOwned <=>
    \A s \in Sessions : state[s] \in ActiveStates =>
      \/ creator[s] \in {"wait", "insert", "put", "unkill", "fail"}
      \/ s \in runtimes
      \/ \E w \in Workers : pc[w] \in ReaperPc \cup {"mark"} /\ on[w] = s
  BY DEF ActiveOwned, HeldByCreator, HeldByMap, HeldByReaper, Reapers

LEMMA OwnedNext ==
  ActiveOwned' <=>
    \A s \in Sessions : state'[s] \in ActiveStates =>
      \/ creator'[s] \in {"wait", "insert", "put", "unkill", "fail"}
      \/ s \in runtimes'
      \/ \E w \in Workers : pc'[w] \in ReaperPc \cup {"mark"} /\ on'[w] = s
  BY DEF ActiveOwned, HeldByCreator, HeldByMap, HeldByReaper, Reapers

LEMMA CreateInert ==
  ASSUME ~MayLose, IInv, IInv', ChildInv, NoOrphan, InertInv, NEW s \in Sessions, Create(s)
  PROVE  InertInv'
<1> USE Owned, OwnedNext
<1> USE DEF IInv, TypeOK, OwnInv, RestartInv, LockOwner, ChildInv, Launching, Published, MayLose, InertInv,
        FailedCreateInert, ReaperPc, Live, ActiveStates, CountedStates
<1>1. CASE StartCreate(s)
  BY <1>1 DEF StartCreate
<1>2. CASE CreateCount(s)
  BY <1>2 DEF CreateCount
<1>3. CASE CreateLookup(s)
  BY <1>3 DEF CreateLookup
<1>4. CASE CreateExclusive(s)
  BY <1>4 DEF CreateExclusive
<1>5. CASE CreateSpawn(s)
  BY <1>5 DEF CreateSpawn
<1>6. CASE CreateServed(s)
  BY <1>6 DEF CreateServed
<1>7. CASE CreateGivesUp(s)
  BY <1>7 DEF CreateGivesUp
<1>8. CASE CreateInsert(s)
  BY <1>8 DEF CreateInsert
<1>9. CASE CreatePut(s)
  BY <1>9 DEF CreatePut, Unlocked
<1>10. CASE CreateCookies(s)
  BY <1>10 DEF CreateCookies
<1>11. CASE CreateInject(s)
  BY <1>11 DEF CreateInject
<1>12. CASE CreateAnswer(s)
  BY <1>12 DEF CreateAnswer
<1>13. CASE CreateUnput(s)
  <2>1. s \notin runtimes => child[s] \notin Live
    BY <1>13 DEF CreateUnput, Unlocked, NoOrphan, HeldByCreator, HeldByMap, HeldByReaper, Reapers
  <2>2. CASE s \in runtimes
    BY <1>13, <2>2 DEF CreateUnput, Unlocked, Remove
  <2>3. CASE s \notin runtimes
    BY <1>13, <2>1, <2>3 DEF CreateUnput, Unlocked, Remove
  <2> QED
    BY <2>2, <2>3
<1>14. CASE CreateUnkill(s)
  BY <1>14 DEF CreateUnkill
<1>15. CASE CreateFail(s)
  BY <1>15 DEF CreateFail
<1>16. CASE CreateErrs(s)
  BY <1>16 DEF CreateErrs
<1>17. CASE CreateDropped(s)
  BY <1>17 DEF CreateDropped
<1> QED
  BY <1>1, <1>2, <1>3, <1>4, <1>5, <1>6, <1>7, <1>8, <1>9, <1>10, <1>11, <1>12, <1>13,
     <1>14, <1>15, <1>16, <1>17 DEF Create, CreateSteps, CreateLocks

LEMMA CloseInert ==
  ASSUME ~MayLose, OnlyCreateAndClose, IInv, IInv', CloseInv, ChildInv, InertInv, NEW w \in Workers, Work(w)
  PROVE  InertInv'
<1> USE Owned, OwnedNext
<1> USE DEF IInv, TypeOK, OwnInv, RestartInv, LockOwner, Published, MayLose, InertInv,
        FailedCreateInert, ReaperPc, Live, ActiveStates, CountedStates
<1>0. CASE \E s \in Sessions : StartClose(w, s)
  BY <1>0 DEF StartClose, Begin
<1>1. CASE CloseTake(w)
  BY <1>1 DEF CloseTake, Unlocked, Remove
<1>2. CASE CloseRead(w)
  BY <1>2 DEF CloseRead
<1>3. CASE CloseFetch(w)
  BY <1>3 DEF CloseFetch
<1>4. CASE CloseSave(w)
  BY <1>4 DEF CloseSave
<1>5. CASE CloseKill(w)
  BY <1>5 DEF CloseKill
<1>6. CASE CloseMark(w)
  BY <1>6 DEF CloseMark
<1>7. CASE WorkErrs(w)
  BY <1>7 DEF WorkErrs, CallFails, ChildInv
<1>8. CASE WorkDropped(w)
  BY <1>8 DEF WorkDropped
<1> QED
  BY <1>0, <1>1, <1>2, <1>3, <1>4, <1>5, <1>6, <1>7, <1>8, CloseWorks DEF CloseSteps

LEMMA RestInert ==
  ASSUME ~MayLose, OnlyCreateAndClose, IInv, IInv', ChildInv, InertInv, [Next]_vars,
         ~\E s \in Sessions : Create(s), ~\E w \in Workers : Work(w)
  PROVE  InertInv'
<1> USE Owned, OwnedNext
<1> USE DEF IInv, TypeOK, MayLose, InertInv, FailedCreateInert, Live, ActiveStates, CountedStates
<1>1. CASE \E s \in Sessions : Child(s)
  BY <1>1 DEF Child, ChildServes, ChildHangs, ChildExits
<1>2. CASE \E g \in Grants : Grant(g)
  BY <1>2 DEF Grant, MintGrant, ExpireGrant, OnlyCreateAndClose
<1>3. CASE SecondStart
  BY <1>3 DEF SecondStart, MarkStale
<1>4. CASE Boot
  BY <1>4 DEF Boot, MarkStale
<1>5. CASE UNCHANGED vars
  BY <1>5 DEF vars
<1> QED
  BY <1>1, <1>2, <1>3, <1>4, <1>5 DEF Next, Delete, DeleteCheck, DeleteRow, ChildInv, Crash

LEMMA InertInvariance ==
  ASSUME ~MayLose, OnlyCreateAndClose
  PROVE  Spec => []InertInv
<1>1. Init => InertInv
  BY Owned DEF Init, InertInv, FailedCreateInert, ActiveStates, CountedStates, Live
<1>2. IInv /\ IInv' /\ ChildInv /\ NoOrphan /\ CloseInv /\ InertInv /\ [Next]_vars => InertInv'
  BY CreateInert, CloseInert, RestInert
<1> QED
  BY <1>1, <1>2, ChildInvariance, NoChildIsLost, CloseInvariance, PTL DEF Spec

\* Where nothing cuts a handler short, a row that counts as active has a browser the
\* gateway holds, or a handler about to give it a final state (gateway.rs:302, 357).
THEOREM ActiveRowsOwned ==
  ASSUME ~MayLose, OnlyCreateAndClose
  PROVE  Spec => []ActiveOwned
BY InertInvariance, PTL DEF InertInv

\* There a create_session that answered with an error has left neither an active row
\* nor a running child, whichever step it failed at (gateway.rs:246-317).
THEOREM FailedCreatesLeaveNothing ==
  ASSUME ~MayLose, OnlyCreateAndClose
  PROVE  Spec => []FailedCreateInert
BY InertInvariance, PTL DEF InertInv

-----------------------------------------------------------------------------
\* Creates that do not overlap: what one found when it counted and looked for another
\* session of its profile is still so when it inserts its row.
Deciding == {"spawn", "wait", "insert"}
ReadWriteOn(s, p) == profile[s] = p /\ mode[s] = "read_write"

SerialInv ==
  /\ \A s, t \in Sessions : creator[s] \notin CreatorEnded /\ creator[t] \notin CreatorEnded => s = t
  /\ \A s, t \in Sessions, p \in Profiles :
       /\ ReadWriteOn(s, p) /\ ReadWriteOn(t, p)
       /\ state[s] \in ActiveStates \/ creator[s] \in Deciding
       /\ state[t] \in ActiveStates
       => s = t

QuotaInv ==
  /\ IsFiniteSet(Counted)
  /\ Cardinality(Counted) <= MaxConcurrent
  /\ \A s \in Sessions : creator[s] \in Deciding \cup {"lookup", "exclusive"} =>
       Cardinality(Counted) < MaxConcurrent

\* Only insert_session makes a row active, the handlers of close_session and a start
\* of the gateway make rows inactive
LEMMA NoneRevived ==
  ASSUME OnlyCreateAndClose, IInv, CloseInv, [Next]_vars, \A s \in Sessions : ~CreateInsert(s)
  PROVE  \A s \in Sessions : /\ state'[s] \in ActiveStates => state[s] \in ActiveStates
                             /\ state'[s] \in CountedStates => state[s] \in CountedStates
<1> USE DEF IInv, TypeOK, ActiveStates, CountedStates
<1>1. ASSUME NEW s \in Sessions, Create(s) \/ Child(s)
      PROVE  \A o \in Sessions : state'[o] \in {state[o], "failed"}
  BY <1>1 DEF Create, CreateSteps, CreateLocks, StartCreate, CreateCount, CreateLookup,
     CreateExclusive, CreateSpawn, CreateServed, CreateGivesUp, CreatePut, CreateCookies,
     CreateInject, CreateAnswer, CreateUnput, CreateUnkill, CreateFail, CreateErrs, CreateDropped,
     Child, ChildServes, ChildHangs, ChildExits
<1>2. ASSUME NEW w \in Workers, Work(w)
      PROVE  \A o \in Sessions : state'[o] \in {state[o], "closed"}
  BY <1>2, CloseWorks DEF CloseTake, CloseSteps, CloseRead, CloseFetch, CloseSave, CloseKill, CloseMark,
     WorkErrs, WorkDropped, StartClose, Begin
<1>3. ASSUME MarkStale
      PROVE  \A s \in Sessions : state'[s] \in {state[s], "failed"}
  BY <1>3 DEF MarkStale
<1>4. CASE \/ \E g \in Grants : Grant(g)
           \/ \E p \in Profiles : Delete(p)
           \/ Crash \/ UNCHANGED vars
  BY <1>4 DEF Grant, MintGrant, ExpireGrant, Delete, DeleteCheck, DeleteRow, Crash, vars
<1> QED
  BY <1>1, <1>2, <1>3, <1>4 DEF Next, Boot, SecondStart

\* A create_session only moves itself, and nothing else moves one on
LEMMA CreatorsKept ==
  ASSUME IInv, [Next]_vars, ~\E s \in Sessions : Create(s)
  PROVE  /\ UNCHANGED reqVars
         /\ \A s \in Sessions : creator'[s] \in {creator[s], "error"}
<1> USE DEF IInv, TypeOK
<1>1. ASSUME NEW s \in Sessions, Child(s)
      PROVE  UNCHANGED <<reqVars, creator>>
  BY <1>1 DEF Child, ChildServes, ChildHangs, ChildExits
<1>2. ASSUME NEW w \in Workers, Work(w)
      PROVE  UNCHANGED <<reqVars, creator>>
  BY <1>2 DEF Work, WorkLocks, CloseTake, ActionRuntime, ActionTarget, ActionSetTarget, CloseSteps,
     CloseRead, CloseFetch, CloseSave, CloseKill, CloseMark, ActionSteps, ActionNewTarget, ActionRun,
     ActionTouch, ProxySteps, ProxyRow, ProxyAttach, ProxyConnect, ProxyDetach, ProxyRelay, WorkErrs,
     WorkDropped, StartClose, StartAction, Begin, ProxyUse
<1>3. CASE \/ \E g \in Grants : Grant(g)
           \/ \E p \in Profiles : Delete(p)
           \/ Crash \/ Boot \/ SecondStart \/ UNCHANGED vars
  BY <1>3 DEF Grant, MintGrant, ExpireGrant, Delete, DeleteCheck, DeleteRow, Crash, Boot, SecondStart, vars
<1> QED
  BY <1>1, <1>2, <1>3 DEF Next

LEMMA SerialCreate ==
  ASSUME ~OverlapCreates, OnlyCreateAndClose, IInv, CloseInv, SerialInv,
         NEW s \in Sessions, Create(s)
  PROVE  SerialInv'
<1> USE DEF IInv, TypeOK, SerialInv, ReadWriteOn, CreatorEnded, Deciding
<1>1. CASE StartCreate(s)
  BY <1>1 DEF StartCreate, RestartInv, Published, ActiveStates, CountedStates
<1>2. CASE CreateCount(s)
  BY <1>2 DEF CreateCount
<1>3. CASE CreateLookup(s)
  BY <1>3 DEF CreateLookup
<1>4. CASE CreateExclusive(s)
  BY <1>4 DEF CreateExclusive, Conflicting, ActiveOn
<1>5. CASE CreateInsert(s)
  BY <1>5 DEF CreateInsert
<1>6. ASSUME ~StartCreate(s), ~CreateCount(s), ~CreateLookup(s), ~CreateExclusive(s), ~CreateInsert(s)
      PROVE  SerialInv'
  <2>1. /\ UNCHANGED reqVars
        /\ \A o \in Sessions : o # s => creator'[o] = creator[o]
        /\ creator[s] \notin CreatorEnded
        /\ creator'[s] \in Deciding => creator[s] \in Deciding
        /\ \A o \in Sessions : state'[o] \in {state[o], "failed"}
    BY <1>6 DEF Create, CreateSteps, CreateLocks, CreateSpawn, CreateServed, CreateGivesUp, CreatePut,
       CreateCookies, CreateInject, CreateAnswer, CreateUnput, CreateUnkill, CreateFail, CreateErrs,
       CreateDropped
  <2>2. \A o \in Sessions : state'[o] \in ActiveStates => state[o] \in ActiveStates
    BY <2>1 DEF ActiveStates, CountedStates
  <2> QED
    BY <2>1, <2>2
<1> QED
  BY <1>1, <1>2, <1>3, <1>4, <1>5, <1>6

LEMMA QuotaCreate ==
  ASSUME ~OverlapCreates, OnlyCreateAndClose, IInv, CloseInv, SerialInv, QuotaInv,
         NEW s \in Sessions, Create(s)
  PROVE  QuotaInv'
<1> USE DEF IInv, TypeOK, CreatorEnded, Deciding
<1>1. CASE CreateInsert(s)
  <2>1. Counted' = Counted \cup {s}
    BY <1>1 DEF CreateInsert, Counted, CountedStates
  <2>2. IsFiniteSet(Counted) /\ Cardinality(Counted) < MaxConcurrent
    BY <1>1 DEF CreateInsert, QuotaInv
  <2>3. /\ IsFiniteSet(Counted')
        /\ Cardinality(Counted') <= MaxConcurrent
    <3>1. /\ IsFiniteSet(Counted \cup {s})
          /\ Cardinality(Counted \cup {s}) \in {Cardinality(Counted), Cardinality(Counted) + 1}
      BY <2>2, FS_AddElement
    <3>2. Cardinality(Counted) \in Nat
      BY <2>2, FS_CardinalityType
    <3>3. Cardinality(Counted \cup {s}) <= MaxConcurrent
      BY <2>2, <3>1, <3>2
    <3> QED
      BY <2>1, <3>1, <3>3
  <2>4. \A o \in Sessions : creator'[o] \notin Deciding \cup {"lookup", "exclusive"}
    BY <1>1 DEF CreateInsert, SerialInv
  <2> QED
    BY <2>3, <2>4 DEF QuotaInv
<1>2. CASE ~CreateInsert(s)
  <2>1. \A o \in Sessions : state'[o] \in {state[o], "failed"}
    BY <1>2 DEF Create, CreateSteps, CreateLocks, StartCreate, CreateCount, CreateLookup,
       CreateExclusive, CreateSpawn, CreateServed, CreateGivesUp, CreatePut, CreateCookies,
       CreateInject, CreateAnswer, CreateUnput, CreateUnkill, CreateFail, CreateErrs, CreateDropped
  <2>2. Counted' \subseteq Counted
    BY <2>1 DEF Counted, CountedStates
  <2>3. /\ IsFiniteSet(Counted') /\ Cardinality(Counted') <= Cardinality(Counted)
        /\ Cardinality(Counted) \in Nat /\ Cardinality(Counted') \in Nat
    BY <2>2, FS_Subset, FS_CardinalityType DEF QuotaInv
  <2>4. /\ \A o \in Sessions : o # s => creator'[o] = creator[o]
        /\ creator'[s] \in Deciding \cup {"lookup", "exclusive"} =>
             \/ creator[s] \in Deciding \cup {"lookup", "exclusive"}
             \/ Cardinality(Counted) < MaxConcurrent
    BY <2>3 DEF Create, CreateSteps, CreateLocks, StartCreate, CreateCount, CreateLookup,
       CreateExclusive, CreateSpawn, CreateServed, CreateGivesUp, CreateInsert, CreatePut, CreateCookies,
       CreateInject, CreateAnswer, CreateUnput, CreateUnkill, CreateFail, CreateErrs, CreateDropped
  <2> QED
    BY <2>3, <2>4 DEF QuotaInv
<1> QED
  BY <1>1, <1>2

LEMMA RestSerial ==
  ASSUME ~OverlapCreates, OnlyCreateAndClose, IInv, CloseInv, SerialInv, QuotaInv, [Next]_vars,
         ~\E s \in Sessions : Create(s)
  PROVE  SerialInv' /\ QuotaInv'
<1>1. \A s \in Sessions : /\ state'[s] \in ActiveStates => state[s] \in ActiveStates
                          /\ state'[s] \in CountedStates => state[s] \in CountedStates
  BY NoneRevived DEF Create, CreateSteps
<1>2. SerialInv'
  BY <1>1, CreatorsKept DEF SerialInv, ReadWriteOn, CreatorEnded, Deciding
<1>3. Counted' \subseteq Counted
  BY <1>1 DEF Counted
<1>4. /\ IsFiniteSet(Counted') /\ Cardinality(Counted') <= Cardinality(Counted)
      /\ Cardinality(Counted) \in Nat /\ Cardinality(Counted') \in Nat
  BY <1>3, FS_Subset, FS_CardinalityType DEF QuotaInv
<1>5. QuotaInv'
  BY <1>4, CreatorsKept DEF QuotaInv, Deciding
<1> QED
  BY <1>2, <1>5

LEMMA SerialInvariance ==
  ASSUME ~OverlapCreates, OnlyCreateAndClose
  PROVE  Spec => [](SerialInv /\ QuotaInv)
<1>1. Init => SerialInv /\ QuotaInv
  <2> SUFFICES ASSUME Init
               PROVE  SerialInv /\ QuotaInv
    OBVIOUS
  <2>1. Counted = {}
    BY DEF Init, Counted, CountedStates
  <2> QED
    BY <2>1, FS_EmptySet DEF Init, SerialInv, QuotaInv, CreatorEnded, Deciding, ActiveStates, CountedStates
<1>2. IInv /\ CloseInv /\ SerialInv /\ QuotaInv /\ [Next]_vars => SerialInv' /\ QuotaInv'
  BY SerialCreate, QuotaCreate, RestSerial
<1> QED
  BY <1>1, <1>2, Invariant, CloseInvariance, PTL DEF Spec

\* When creates do not overlap, a profile never has two active read_write sessions,
\* whatever fails (gateway.rs:193-200).
THEOREM OneReadWriter ==
  ASSUME ~OverlapCreates, OnlyCreateAndClose
  PROVE  Spec => []ExclusiveReadWrite
<1>1. SerialInv => ExclusiveReadWrite
  <2> SUFFICES ASSUME SerialInv, NEW p \in Profiles
               PROVE  Cardinality({s \in ActiveOn(p) : mode[s] = "read_write"}) <= 1
    BY DEF ExclusiveReadWrite
  <2> DEFINE Writers == {s \in ActiveOn(p) : mode[s] = "read_write"}
  <2>1. \A s, t \in Writers : s = t
    BY DEF SerialInv, ReadWriteOn, ActiveOn
  <2>2. CASE Writers = {}
    BY <2>2, FS_EmptySet
  <2>3. CASE Writers # {}
    <3>1. PICK s \in Writers : TRUE
      BY <2>3
    <3>2. Writers = {s}
      BY <2>1, <3>1
    <3>3. Cardinality({s}) = 1
      BY FS_Singleton
    <3> QED
      BY <3>2, <3>3
  <2> QED
    BY <2>2, <2>3
<1> QED
  BY <1>1, SerialInvariance, PTL

\* When creates do not overlap, the quota holds, whatever fails (gateway.rs:175-178).
THEOREM QuotaKept ==
  ASSUME ~OverlapCreates, OnlyCreateAndClose
  PROVE  Spec => []WithinQuota
<1>1. QuotaInv => WithinQuota
  BY DEF QuotaInv, WithinQuota
<1> QED
  BY <1>1, SerialInvariance, PTL
=============================================================================
