------------------------- MODULE SessionsProperties -------------------------
(***************************************************************************)
(* What the handlers of Sessions must keep true.  Which of them hold for   *)
(* which Requests, Faults and OverlapCreates is what the runs settle.      *)
(***************************************************************************)
EXTENDS Sessions

\* Who holds the Child value of session s
HeldByCreator(s) == creator[s] \in {"wait", "insert", "put"}
HeldByMap(s) == s \in runtimes
Reapers(s) == {w \in Workers : pc[w] \in ReaperPc /\ on[w] = s}
HeldByReaper(s) == creator[s] = "unkill" \/ Reapers(s) # {}

\* At most one holder: the handler that launched the child (gateway.rs:239),
\* the runtimes map (281), or the one handler that removed it (323, 299).
OneOwner ==
  \A s \in Sessions :
    /\ HeldByCreator(s) => ~HeldByMap(s) /\ ~HeldByReaper(s)
    /\ HeldByMap(s) => ~HeldByReaper(s)
    /\ creator[s] = "unkill" => Reapers(s) = {}
    /\ \A v, w \in Reapers(s) : v = w

\* The runtimes guard outlives an await only in a handler that took a session
\* out of the map and has not killed its child yet (gateway.rs:299-301, 323-356),
\* so the lock is never kept by a handler that is not on its way to free it.
LockOwner ==
  /\ \A w \in Workers : lock = w <=> pc[w] \in ReaperPc
  /\ \A s \in Sessions : lock = s <=> creator[s] = "unkill"

\* No running child without a holder: every child the gateway launched is one
\* some handler or the map can still kill (gateway.rs:246-251, 277-280, 299, 354).
NoOrphan ==
  \A s \in Sessions : child[s] \in Live => HeldByCreator(s) \/ HeldByMap(s) \/ HeldByReaper(s)

\* A row counted as active (db.rs:263, 315) has a browser the gateway holds, or a
\* handler that is about to give the row a final state (gateway.rs:302, 357).
ActiveOwned ==
  \A s \in Sessions : state[s] \in ActiveStates =>
    \/ HeldByCreator(s) \/ HeldByMap(s) \/ HeldByReaper(s)
    \/ creator[s] = "fail"
    \/ \E w \in Workers : pc[w] = "mark" /\ on[w] = s

\* A create_session that answered with an error left no row that counts against
\* the quota or the profile, and no child (gateway.rs:246-317).
FailedCreateInert ==
  \A s \in Sessions : creator[s] = "error" => state[s] \notin ActiveStates /\ child[s] \notin Live

\* One active read_write session per profile (gateway.rs:193-200).
ExclusiveReadWrite ==
  \A p \in Profiles : Cardinality({s \in ActiveOn(p) : mode[s] = "read_write"}) <= 1

\* The number of active sessions stays within the quota (gateway.rs:175-178).
WithinQuota == Cardinality(Counted) <= MaxConcurrent

\* No grant ever lets in a second connection, and what let one in stays used: whatever was
\* minted, expired, closed, deleted or restarted meanwhile.  The handlers at work with grants
\* have one each, on the session it was minted for (db.rs:327-351, gateway.rs:515-528).
GrantSingleUse ==
  /\ \A g \in Grants : admitted[g] <= 1 /\ (admitted[g] = 1 <=> grant[g] = "used")
  /\ \A w \in Workers : using[w] # None =>
       admitted[using[w]] = 1 /\ grantOf[using[w]] = on[w]
  /\ \A v, w \in Workers : using[v] = using[w] /\ using[w] # None => v = w

\* A session that was created and then marked failed, which only a restart does
\* (db.rs:273-286), is never active again, whatever grants outlived the restart.
RestartFailedStaysDown ==
  [][\A s \in Sessions : state[s] = "failed" /\ creator[s] = "done" =>
       state'[s] \in {"failed", "closed"}]_vars

\* A row failed at a start was stale: no runtime of the gateway is behind it, so
\* the handlers refuse it (lib.rs:316-318, db.rs:273-286).
FailedIsOver == \A s \in Sessions : state[s] = "failed" /\ creator[s] = "done" => s \notin runtimes

\* A closed session stays closed (gateway.rs:357).
ClosedStaysClosed ==
  [][\A s \in Sessions : state[s] = "closed" => state'[s] = "closed"]_vars

\* Every close_session that was not abandoned comes to its end, also when it
\* queues behind other holders of the runtimes mutex (gateway.rs:322-361).
CloseEnds == \A w \in Workers : (pc[w] \in {"take", "mark"} \cup ReaperPc) ~> (pc[w] = "idle")

\* Every create_session comes to its answer (gateway.rs:173-320).
CreateEnds == \A s \in Sessions : (creator[s] = "count") ~> (creator[s] \in {"done", "error"})

\* The holder of each child, as the abstract specification sees it
holderOf == [s \in Sessions |->
  IF HeldByCreator(s) THEN "creator"
  ELSE IF HeldByMap(s) THEN "map"
  ELSE IF HeldByReaper(s) THEN "reaper"
  ELSE IF child[s] = "none" THEN "unborn"
  ELSE IF child[s] \in Live THEN "lost" ELSE "gone"]

\* What lets a handler end before it has handed its child over or killed it: it is
\* dropped, a call of it fails, the process dies, or the profile it saves to is gone
MayLose == \/ Faults \cap {"disconnect", "dbfail", "restart"} # {}
           \/ "delete" \in Requests

Own == INSTANCE Ownership WITH holder <- holderOf

\* The handlers implement the ownership discipline of module Ownership.
ImplementsOwnership == Own!Spec
=============================================================================
