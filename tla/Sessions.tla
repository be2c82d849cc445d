------------------------------ MODULE Sessions ------------------------------
(***************************************************************************)
(* The session life cycle of the gateway: src/gateway.rs over the session  *)
(* and grant tables of src/db.rs and the start-up of src/lib.rs.           *)
(*                                                                         *)
(* One create_session handler per session id (ids are fresh uuids) and a   *)
(* pool of Workers, each running one request handler at a time.  A step is *)
(* one database call, one critical section of the `runtimes' mutex or one  *)
(* exchange with a child: between any two of them another handler may run. *)
(*                                                                         *)
(* A definition X_bug before X is X as a plausible mistake would have it;  *)
(* no specification uses it, it shows that a property depends on X.        *)
(***************************************************************************)
EXTENDS Integers, FiniteSets

CONSTANTS Sessions,        \* session ids
          Profiles,        \* profiles that exist at start
          Workers,         \* concurrent close/action/proxy handlers
          Grants,          \* CDP grants that can be minted
          MaxConcurrent,   \* MAX_CONCURRENT_SESSIONS, models.rs:5
          Requests,        \* what clients ask for besides creating sessions
          Faults,          \* what goes wrong around the handlers
          OverlapCreates,  \* may two create_session handlers run at once?
          None

RequestKinds == {"close", "action", "grant", "delete"}
\* disconnect: the client leaves while its handler awaits (the future is dropped)
\* insertfail: insert_session fails; dbfail: any other database call or file fails
\* restart: the gateway dies and is started again
\* childexit, hang: an obscura child exits, or stops answering
\* secondstart: the gateway is started again while it is serving
FaultKinds == {"disconnect", "insertfail", "dbfail", "restart", "childexit", "hang", "secondstart"}

ASSUME NoneAssumption == None \notin Sessions \cup Profiles \cup Workers \cup Grants
ASSUME MaxAssumption == MaxConcurrent \in Nat \ {0}
ASSUME ScopeAssumption == /\ Requests \subseteq RequestKinds
                          /\ Faults \subseteq FaultKinds
                          /\ OverlapCreates \in BOOLEAN
ASSUME DisjointAssumption == Sessions \cap Workers = {}

VARIABLES
  up,        \* the gateway process runs
  profiles,  \* rows of the profiles table
  deleting,  \* profiles whose delete_profile has passed its check
  state,     \* sessions.state, or "absent"
  url,       \* sessions.cdp_ws_url is not null
  profile,   \* sessions.profile_id asked for
  mode,      \* sessions.profile_mode asked for
  creator,   \* where create_session is
  runtimes,  \* keys of the runtimes map
  target,    \* ManagedSession.target_id, named by the worker that created it
  lock,      \* who keeps the runtimes guard across an await
  child,     \* the obscura process of a session
  pc,        \* where a worker's handler is
  on,        \* the session it works on
  using,     \* the grant its proxy consumed
  grantOf,   \* cdp_grants.session_id
  grant,     \* "unminted", "fresh", "used" (used_at set) or "expired"
  admitted   \* history: the connections use_grant let in with each grant

dbVars == <<state, url>>
reqVars == <<profile, mode>>
mapVars == <<runtimes, target, lock>>
workVars == <<pc, on, using>>
grantVars == <<grantOf, grant, admitted>>
profileVars == <<profiles, deleting>>
vars == <<up, profileVars, dbVars, reqVars, creator, mapVars, child, workVars, grantVars>>

-----------------------------------------------------------------------------
SessionState == {"provisioning", "ready", "attached", "idle", "closing",
                 "closed", "expired", "failed"}
CountedStates == {"provisioning", "ready", "attached", "idle"}
ActiveStates == CountedStates \cup {"closing"}

\* active_sessions_count
Counted == {s \in Sessions : state[s] \in CountedStates}

\* active_sessions_for_profile
ActiveOn(p) == {s \in Sessions : profile[s] = p /\ state[s] \in ActiveStates}

\* Another read_write session of the profile is active
Conflicting_wrongMode(p) == \E s \in ActiveOn(p) : mode[s] = "read_only"
Conflicting(p) == \E s \in ActiveOn(p) : mode[s] = "read_write"

CreatorPc == {"new", "count", "lookup", "exclusive", "spawn", "wait", "insert",
              "put", "cookies", "inject", "answer", "unput", "unkill", "fail", "done", "error"}
WorkerPc == {"idle", "take", "read", "fetch", "save", "kill", "mark",
             "runtime", "target", "newtarget", "settarget", "run", "touch",
             "row", "attach", "connect", "relay", "detach"}
CreatorEnded == {"new", "done", "error"}

\* Handlers that keep the guard of `runtimes' while they await
ReaperPc == {"read", "fetch", "save", "kill"}

TypeOK ==
  /\ up \in BOOLEAN
  /\ profiles \subseteq Profiles /\ deleting \subseteq Profiles
  /\ state \in [Sessions -> SessionState \cup {"absent"}]
  /\ url \in [Sessions -> BOOLEAN]
  /\ profile \in [Sessions -> Profiles \cup {None}]
  /\ mode \in [Sessions -> {"read_only", "read_write"}]
  /\ creator \in [Sessions -> CreatorPc]
  /\ runtimes \subseteq Sessions
  /\ target \in [Sessions -> Workers \cup {None}]
  /\ lock \in Sessions \cup Workers \cup {None}
  /\ child \in [Sessions -> {"none", "booting", "serving", "hung", "exited"}]
  /\ pc \in [Workers -> WorkerPc]
  /\ on \in [Workers -> Sessions \cup {None}]
  /\ using \in [Workers -> Grants \cup {None}]
  /\ grantOf \in [Grants -> Sessions \cup {None}]
  /\ grant \in [Grants -> {"unminted", "fresh", "used", "expired"}]
  /\ admitted \in [Grants -> Nat]
  /\ \A w \in Workers : on[w] = None <=> pc[w] = "idle"

Init ==
  /\ up = TRUE
  /\ profiles = Profiles /\ deleting = {}
  /\ state = [s \in Sessions |-> "absent"]
  /\ url = [s \in Sessions |-> FALSE]
  /\ profile = [s \in Sessions |-> None]
  /\ mode = [s \in Sessions |-> "read_only"]
  /\ creator = [s \in Sessions |-> "new"]
  /\ runtimes = {} /\ lock = None
  /\ target = [s \in Sessions |-> None]
  /\ child = [s \in Sessions |-> "none"]
  /\ pc = [w \in Workers |-> "idle"]
  /\ on = [w \in Workers |-> None]
  /\ using = [w \in Workers |-> None]
  /\ grantOf = [g \in Grants |-> None]
  /\ grant = [g \in Grants |-> "unminted"]
  /\ admitted = [g \in Grants |-> 0]

\* update_session_state: the url column is only ever filled in (coalesce)
SetState(s, st) == state' = [state EXCEPT ![s] = st]

Unlocked == up /\ lock = None

\* HashMap::remove: the ManagedSession and its target_id leave the map
Remove_getsInstead(s) == UNCHANGED <<runtimes, target>>
Remove(s) ==
  /\ runtimes' = runtimes \ {s}
  /\ target' = [target EXCEPT ![s] = None]

-----------------------------------------------------------------------------
\* create_session

CreateAt(s, from) == up /\ creator[s] = from
CreateGoto(s, to) == creator' = [creator EXCEPT ![s] = to]
createOnly == <<up, profileVars, dbVars, reqVars, mapVars, child, workVars, grantVars>>

StartCreate(s) ==
  /\ CreateAt(s, "new")
  /\ OverlapCreates \/ \A o \in Sessions : creator[o] \in CreatorEnded
  /\ CreateGoto(s, "count")
  /\ \E p \in Profiles \cup {None} : profile' = [profile EXCEPT ![s] = p]
  /\ \E m \in {"read_only", "read_write"} : mode' = [mode EXCEPT ![s] = m]
  /\ UNCHANGED <<up, profileVars, dbVars, mapVars, child, workVars, grantVars>>

CreateCount_offByOne(s) ==
  /\ CreateAt(s, "count")
  /\ IF Cardinality(Counted) > MaxConcurrent THEN CreateGoto(s, "error")
     ELSE CreateGoto(s, IF profile[s] = None THEN "spawn" ELSE "lookup")
  /\ UNCHANGED createOnly

CreateCount(s) ==
  /\ CreateAt(s, "count")
  /\ IF Cardinality(Counted) >= MaxConcurrent THEN CreateGoto(s, "error")
     ELSE CreateGoto(s, IF profile[s] = None THEN "spawn" ELSE "lookup")
  /\ UNCHANGED createOnly

CreateLookup(s) ==
  /\ CreateAt(s, "lookup")
  /\ IF profile[s] \notin profiles THEN CreateGoto(s, "error")
     ELSE CreateGoto(s, IF mode[s] = "read_write" THEN "exclusive" ELSE "spawn")
  /\ UNCHANGED createOnly

CreateExclusive(s) ==
  /\ CreateAt(s, "exclusive")
  /\ CreateGoto(s, IF Conflicting(profile[s]) THEN "error" ELSE "spawn")
  /\ UNCHANGED createOnly

CreateSpawn(s) ==
  /\ CreateAt(s, "spawn")
  /\ CreateGoto(s, "wait")
  /\ child' = [child EXCEPT ![s] = "booting"]
  /\ UNCHANGED <<up, profileVars, dbVars, reqVars, mapVars, workVars, grantVars>>

\* wait_for_cdp_endpoint got a connection
CreateServed(s) ==
  /\ CreateAt(s, "wait") /\ child[s] = "serving"
  /\ CreateGoto(s, "insert")
  /\ UNCHANGED createOnly

\* It gave up (whatever the child did since the last poll), or the insert failed
CreateGivesUp_noKill(s) ==
  /\ CreateAt(s, "wait")
  /\ CreateGoto(s, "error")
  /\ UNCHANGED createOnly

CreateGivesUp(s) ==
  /\ \/ CreateAt(s, "wait")
     \/ CreateAt(s, "insert") /\ "insertfail" \in Faults
  /\ CreateGoto(s, "error")
  /\ child' = [child EXCEPT ![s] = "exited"]
  /\ UNCHANGED <<up, profileVars, dbVars, reqVars, mapVars, workVars, grantVars>>

CreateInsert(s) ==
  /\ CreateAt(s, "insert")
  /\ CreateGoto(s, "put")
  /\ SetState(s, "ready")
  /\ url' = [url EXCEPT ![s] = TRUE]
  /\ UNCHANGED <<up, profileVars, reqVars, mapVars, child, workVars, grantVars>>

CreatePut(s) ==
  /\ CreateAt(s, "put") /\ Unlocked
  /\ CreateGoto(s, IF profile[s] = None THEN "answer" ELSE "cookies")
  /\ runtimes' = runtimes \cup {s}
  /\ UNCHANGED <<up, profileVars, dbVars, reqVars, target, lock, child, workVars, grantVars>>

\* export_profile_cookies: the profile may be gone; the jar may be empty
CreateCookies(s) ==
  /\ CreateAt(s, "cookies")
  /\ IF profile[s] \notin profiles THEN CreateGoto(s, "error")
     ELSE \E to \in {"inject", "answer"} : CreateGoto(s, to)
  /\ UNCHANGED createOnly

CreateInject(s) ==
  /\ CreateAt(s, "inject")
  /\ \/ child[s] = "serving" /\ CreateGoto(s, "answer")
     \/ child[s] # "hung" /\ CreateGoto(s, "unput")
  /\ UNCHANGED createOnly

\* touch_profile_last_used, the events and the get_session of the answer
CreateAnswer(s) ==
  /\ CreateAt(s, "answer")
  /\ CreateGoto(s, "done")
  /\ UNCHANGED createOnly

\* inject_cookies failed: take the runtime out of the map, if it is still there
CreateUnput(s) ==
  /\ CreateAt(s, "unput") /\ Unlocked
  /\ CreateGoto(s, IF s \in runtimes THEN "unkill" ELSE "fail")
  /\ lock' = IF s \in runtimes THEN s ELSE None
  /\ Remove(s)
  /\ UNCHANGED <<up, profileVars, dbVars, reqVars, child, workVars, grantVars>>

CreateUnkill_returns(s) ==
  /\ CreateAt(s, "unkill")
  /\ CreateGoto(s, "error")
  /\ child' = [child EXCEPT ![s] = "exited"]
  /\ lock' = None
  /\ UNCHANGED <<up, profileVars, dbVars, reqVars, runtimes, target, workVars, grantVars>>

CreateUnkill(s) ==
  /\ CreateAt(s, "unkill")
  /\ CreateGoto(s, "fail")
  /\ child' = [child EXCEPT ![s] = "exited"]
  /\ lock' = None
  /\ UNCHANGED <<up, profileVars, dbVars, reqVars, runtimes, target, workVars, grantVars>>

CreateFail_keepsState(s) ==
  /\ CreateAt(s, "fail")
  /\ CreateGoto(s, "error")
  /\ UNCHANGED createOnly

CreateFail(s) ==
  /\ CreateAt(s, "fail")
  /\ CreateGoto(s, "error")
  /\ SetState(s, "failed")
  /\ UNCHANGED <<up, profileVars, url, reqVars, mapVars, child, workVars, grantVars>>

\* `?': nothing is undone.  The launch can fail anyhow (no port, no binary, an
\* unknown proxy policy); the error of the last update_session_state is ignored.
CreateErrs(s) ==
  /\ \/ CreateAt(s, "spawn")
     \/ /\ "dbfail" \in Faults
        /\ \E from \in {"count", "lookup", "exclusive", "cookies", "answer", "fail"} :
             CreateAt(s, from)
  /\ CreateGoto(s, "error")
  /\ UNCHANGED createOnly

\* The client is gone at an await: the handler is dropped, the Child value in
\* it too, which does not kill the process.  Inside kill() the signal is sent.
CreateDropped(s) ==
  /\ up /\ "disconnect" \in Faults
  /\ creator[s] \in {"wait", "put", "inject", "unput", "unkill"}
  /\ CreateGoto(s, "error")
  /\ lock' = IF lock = s THEN None ELSE lock
  /\ child' = [child EXCEPT ![s] = IF creator[s] = "unkill" THEN "exited" ELSE @]
  /\ UNCHANGED <<up, profileVars, dbVars, reqVars, runtimes, target, workVars, grantVars>>

-----------------------------------------------------------------------------
\* Request handlers run by the workers

WorkAt(w, from) == up /\ pc[w] = from
Goto(w, to) ==
  /\ pc' = [pc EXCEPT ![w] = to]
  /\ on' = [on EXCEPT ![w] = IF to = "idle" THEN None ELSE @]
  /\ using' = [using EXCEPT ![w] = IF to = "idle" THEN None ELSE @]
workOnly == <<up, profileVars, dbVars, reqVars, creator, mapVars, child, grantVars>>

Begin(w, s, to) ==
  /\ WorkAt(w, "idle") /\ state[s] # "absent"
  /\ pc' = [pc EXCEPT ![w] = to]
  /\ on' = [on EXCEPT ![w] = s]
  /\ UNCHANGED <<using, workOnly>>

\* close_session

StartClose(w, s) == "close" \in Requests /\ Begin(w, s, "take")

\* The guard lives to the end of the `if let' body: closing keeps the lock
CloseTake(w) ==
  /\ WorkAt(w, "take") /\ Unlocked
  /\ Goto(w, IF on[w] \in runtimes THEN "read" ELSE "mark")
  /\ lock' = IF on[w] \in runtimes THEN w ELSE None
  /\ Remove(on[w])
  /\ UNCHANGED <<up, profileVars, dbVars, reqVars, creator, child, grantVars>>

CloseRead(w) ==
  /\ WorkAt(w, "read")
  /\ Goto(w, IF mode[on[w]] = "read_write" /\ profile[on[w]] # None THEN "fetch" ELSE "kill")
  /\ UNCHANGED workOnly

\* fetch_cookies: no timeout; a dead child gives no cookies
CloseFetch(w) ==
  /\ WorkAt(w, "fetch")
  /\ \/ child[on[w]] = "serving" /\ Goto(w, "save")
     \/ child[on[w]] # "hung" /\ Goto(w, "kill")
  /\ UNCHANGED workOnly

CloseSave(w) ==
  /\ WorkAt(w, "save") /\ profile[on[w]] \in profiles
  /\ Goto(w, "kill")
  /\ UNCHANGED workOnly

CloseKill_guardKept(w) ==
  /\ WorkAt(w, "kill")
  /\ Goto(w, "mark")
  /\ child' = [child EXCEPT ![on[w]] = "exited"]
  /\ UNCHANGED <<up, profileVars, dbVars, reqVars, creator, mapVars, grantVars>>

CloseKill(w) ==
  /\ WorkAt(w, "kill")
  /\ Goto(w, "mark")
  /\ child' = [child EXCEPT ![on[w]] = "exited"]
  /\ lock' = None
  /\ UNCHANGED <<up, profileVars, dbVars, reqVars, creator, runtimes, target, grantVars>>

CloseMark_otherName(w) ==
  /\ WorkAt(w, "mark")
  /\ Goto(w, "idle")
  /\ SetState(on[w], "close")
  /\ UNCHANGED <<up, profileVars, url, reqVars, creator, mapVars, child, grantVars>>

CloseMark(w) ==
  /\ WorkAt(w, "mark")
  /\ Goto(w, "idle")
  /\ SetState(on[w], "closed")
  /\ UNCHANGED <<up, profileVars, url, reqVars, creator, mapVars, child, grantVars>>

\* navigate_session, evaluate_session, dump_session

StartAction(w, s) == "action" \in Requests /\ Begin(w, s, "runtime")

\* get_runtime
ActionRuntime(w) ==
  /\ WorkAt(w, "runtime") /\ Unlocked
  /\ Goto(w, IF on[w] \in runtimes THEN "target" ELSE "idle")
  /\ UNCHANGED workOnly

\* ensure_target: the cached target, or get_runtime again before making one
ActionTarget(w) ==
  /\ WorkAt(w, "target") /\ Unlocked
  /\ Goto(w, IF on[w] \notin runtimes THEN "idle"
             ELSE IF target[on[w]] = None THEN "newtarget" ELSE "run")
  /\ UNCHANGED workOnly

ActionNewTarget(w) ==
  /\ WorkAt(w, "newtarget")
  /\ \/ child[on[w]] = "serving" /\ Goto(w, "settarget")
     \/ child[on[w]] # "hung" /\ Goto(w, "idle")
  /\ UNCHANGED workOnly

ActionSetTarget_reinserts(w) ==
  /\ WorkAt(w, "settarget") /\ Unlocked
  /\ Goto(w, "run")
  /\ target' = [target EXCEPT ![on[w]] = w]
  /\ runtimes' = runtimes \cup {on[w]}
  /\ UNCHANGED <<up, profileVars, dbVars, reqVars, creator, lock, child, grantVars>>

ActionSetTarget(w) ==
  /\ WorkAt(w, "settarget") /\ Unlocked
  /\ Goto(w, "run")
  /\ target' = IF on[w] \in runtimes THEN [target EXCEPT ![on[w]] = w] ELSE target
  /\ UNCHANGED <<up, profileVars, dbVars, reqVars, creator, runtimes, lock, child, grantVars>>

\* attach_to_target and the CDP exchange; any error ends the handler
ActionRun(w) ==
  /\ WorkAt(w, "run")
  /\ \/ child[on[w]] = "serving" /\ Goto(w, "touch")
     \/ child[on[w]] # "hung" /\ Goto(w, "idle")
  /\ UNCHANGED workOnly

ActionTouch(w) ==
  /\ WorkAt(w, "touch")
  /\ Goto(w, "idle")
  /\ SetState(on[w], "idle")
  /\ UNCHANGED <<up, profileVars, url, reqVars, creator, mapVars, child, grantVars>>

\* `?': a handler ends where a call fails.  Inside the body of close_session the
\* runtime is out of the map and its Child is dropped, unkilled, with the guard.
CallFails(w) ==
  \/ WorkAt(w, "save") /\ profile[on[w]] \notin profiles
  \/ /\ "dbfail" \in Faults
     /\ \E from \in {"read", "save", "mark", "touch", "row", "attach", "detach"} : WorkAt(w, from)

WorkErrs_guardKept(w) ==
  /\ CallFails(w)
  /\ Goto(w, "idle")
  /\ UNCHANGED workOnly

WorkErrs(w) ==
  /\ CallFails(w)
  /\ Goto(w, "idle")
  /\ lock' = IF lock = w THEN None ELSE lock
  /\ UNCHANGED <<up, profileVars, dbVars, reqVars, creator, runtimes, target, child, grantVars>>

\* The client is gone at an await of close_session or of an action.  proxy_cdp
\* runs in the upgraded connection's own task and is not dropped this way.
WorkDropped(w) ==
  /\ up /\ "disconnect" \in Faults
  /\ pc[w] \in {"take", "fetch", "kill", "runtime", "target", "newtarget", "settarget", "run"}
  /\ Goto(w, "idle")
  /\ lock' = IF lock = w THEN None ELSE lock
  /\ child' = IF pc[w] = "kill" THEN [child EXCEPT ![on[w]] = "exited"] ELSE child
  /\ UNCHANGED <<up, profileVars, dbVars, reqVars, creator, runtimes, target, grantVars>>

-----------------------------------------------------------------------------
\* Grants

\* mint_grant asks only that the row exists
MintGrant(g, s) ==
  /\ up /\ "grant" \in Requests
  /\ grant[g] = "unminted" /\ state[s] # "absent"
  /\ grantOf' = [grantOf EXCEPT ![g] = s]
  /\ grant' = [grant EXCEPT ![g] = "fresh"]
  /\ UNCHANGED <<up, profileVars, dbVars, reqVars, creator, mapVars, child, workVars, admitted>>

ExpireGrant(g) ==
  /\ grant[g] = "fresh"
  /\ grant' = [grant EXCEPT ![g] = "expired"]
  /\ UNCHANGED <<up, profileVars, dbVars, reqVars, creator, mapVars, child, workVars, grantOf,
                 admitted>>

\* use_grant's conditions, one critical section of the connection mutex
GrantUsable_usedAgain(g, s) == grantOf[g] = s /\ grant[g] \in {"fresh", "used"}
GrantUsable(g, s) == grantOf[g] = s /\ grant[g] = "fresh"

\* proxy_cdp: GET /v1/cdp/{s}?grant=...; a refused grant changes nothing
ProxyUse(w, g, s) ==
  /\ WorkAt(w, "idle") /\ GrantUsable(g, s)
  /\ grant' = [grant EXCEPT ![g] = "used"]
  /\ admitted' = [admitted EXCEPT ![g] = @ + 1]
  /\ pc' = [pc EXCEPT ![w] = "row"]
  /\ on' = [on EXCEPT ![w] = s]
  /\ using' = [using EXCEPT ![w] = g]
  /\ UNCHANGED <<up, profileVars, dbVars, reqVars, creator, mapVars, child, grantOf>>

ProxyRow(w) ==
  /\ WorkAt(w, "row")
  /\ Goto(w, IF url[on[w]] THEN "attach" ELSE "idle")
  /\ UNCHANGED workOnly

\* The state of the row is not looked at
ProxyAttach(w) ==
  /\ WorkAt(w, "attach")
  /\ Goto(w, "connect")
  /\ SetState(on[w], "attached")
  /\ url' = [url EXCEPT ![on[w]] = TRUE]
  /\ UNCHANGED <<up, profileVars, reqVars, creator, mapVars, child, grantVars>>

\* connect_async(..)?: an error leaves the row attached
ProxyConnect(w) ==
  /\ WorkAt(w, "connect")
  /\ \/ child[on[w]] = "serving" /\ Goto(w, "relay")
     \/ child[on[w]] # "hung" /\ Goto(w, "idle")
  /\ UNCHANGED workOnly

\* try_join! ends: both directions closed, or one failed (`?')
ProxyRelay(w) ==
  /\ WorkAt(w, "relay")
  /\ \E to \in {"detach", "idle"} : Goto(w, to)
  /\ UNCHANGED workOnly

ProxyDetach(w) ==
  /\ WorkAt(w, "detach")
  /\ Goto(w, "idle")
  /\ SetState(on[w], "idle")
  /\ UNCHANGED <<up, profileVars, url, reqVars, creator, mapVars, child, grantVars>>

-----------------------------------------------------------------------------
\* delete_profile, in two database calls

DeleteCheck(p) ==
  /\ up /\ "delete" \in Requests
  /\ p \in profiles /\ ActiveOn(p) = {}
  /\ deleting' = deleting \cup {p}
  /\ UNCHANGED <<up, profiles, dbVars, reqVars, creator, mapVars, child, workVars, grantVars>>

DeleteRow(p) ==
  /\ up /\ p \in deleting
  /\ deleting' = deleting \ {p}
  /\ profiles' = profiles \ {p}
  /\ UNCHANGED <<up, dbVars, reqVars, creator, mapVars, child, workVars, grantVars>>

-----------------------------------------------------------------------------
\* The children and the gateway process

Live == {"booting", "serving", "hung"}

ChildServes(s) ==
  /\ child[s] = "booting"
  /\ child' = [child EXCEPT ![s] = "serving"]
  /\ UNCHANGED <<up, profileVars, dbVars, reqVars, creator, mapVars, workVars, grantVars>>

ChildHangs(s) ==
  /\ "hang" \in Faults /\ child[s] = "serving"
  /\ child' = [child EXCEPT ![s] = "hung"]
  /\ UNCHANGED <<up, profileVars, dbVars, reqVars, creator, mapVars, workVars, grantVars>>

ChildExits(s) ==
  /\ "childexit" \in Faults /\ child[s] \in Live
  /\ child' = [child EXCEPT ![s] = "exited"]
  /\ UNCHANGED <<up, profileVars, dbVars, reqVars, creator, mapVars, workVars, grantVars>>

\* The process dies: its memory is gone, the database and the children stay
Crash ==
  /\ "restart" \in Faults /\ up
  /\ up' = FALSE
  /\ deleting' = {}
  /\ creator' = [s \in Sessions |-> IF creator[s] \in CreatorEnded THEN creator[s] ELSE "error"]
  /\ runtimes' = {} /\ lock' = None
  /\ target' = [s \in Sessions |-> None]
  /\ pc' = [w \in Workers |-> "idle"]
  /\ on' = [w \in Workers |-> None]
  /\ using' = [w \in Workers |-> None]
  /\ UNCHANGED <<profiles, dbVars, reqVars, child, grantVars>>

\* mark_active_sessions_failed
MarkStale_keepsUrl ==
  /\ state' = [s \in Sessions |-> IF state[s] \in ActiveStates THEN "failed" ELSE state[s]]
  /\ UNCHANGED url

MarkStale ==
  /\ state' = [s \in Sessions |-> IF state[s] \in ActiveStates THEN "failed" ELSE state[s]]
  /\ url' = [s \in Sessions |-> IF state[s] \in ActiveStates THEN FALSE ELSE url[s]]

\* Commands::Run: mark what the last process left, then listen and serve
Boot ==
  /\ ~up
  /\ up' = TRUE
  /\ MarkStale
  /\ UNCHANGED <<profileVars, reqVars, creator, mapVars, child, workVars, grantVars>>

\* Run beside a gateway that serves: the address is looked at after the marking,
\* and found taken.  The newcomer leaves, the gateway goes on.
SecondStart ==
  /\ "secondstart" \in Faults /\ up
  /\ MarkStale
  /\ UNCHANGED <<up, profileVars, reqVars, creator, mapVars, child, workVars, grantVars>>

-----------------------------------------------------------------------------
\* The steps that wait for the runtimes mutex
CreateLocks(s) == CreatePut(s) \/ CreateUnput(s)
WorkLocks(w) == CloseTake(w) \/ ActionRuntime(w) \/ ActionTarget(w) \/ ActionSetTarget(w)

CreateSteps(s) ==
  \/ CreateCount(s) \/ CreateLookup(s) \/ CreateExclusive(s) \/ CreateSpawn(s)
  \/ CreateServed(s) \/ CreateGivesUp(s) \/ CreateInsert(s)
  \/ CreateCookies(s) \/ CreateInject(s) \/ CreateAnswer(s) \/ CreateUnkill(s)
  \/ CreateFail(s) \/ CreateErrs(s)

CloseSteps(w) == CloseRead(w) \/ CloseFetch(w) \/ CloseSave(w) \/ CloseKill(w) \/ CloseMark(w)
ActionSteps(w) == ActionNewTarget(w) \/ ActionRun(w) \/ ActionTouch(w)
ProxySteps(w) == ProxyRow(w) \/ ProxyAttach(w) \/ ProxyConnect(w) \/ ProxyDetach(w)

Create(s) == StartCreate(s) \/ CreateLocks(s) \/ CreateSteps(s) \/ CreateDropped(s)
Work(w) == \/ WorkLocks(w) \/ CloseSteps(w) \/ ActionSteps(w) \/ ProxySteps(w)
           \/ ProxyRelay(w) \/ WorkErrs(w) \/ WorkDropped(w)
           \/ \E s \in Sessions : \/ StartClose(w, s) \/ StartAction(w, s)
                                  \/ \E g \in Grants : ProxyUse(w, g, s)
Grant(g) == ExpireGrant(g) \/ \E s \in Sessions : MintGrant(g, s)
Delete(p) == DeleteCheck(p) \/ DeleteRow(p)
Child(s) == ChildServes(s) \/ ChildHangs(s) \/ ChildExits(s)

Next ==
  \/ \E s \in Sessions : Create(s) \/ Child(s)
  \/ \E w \in Workers : Work(w)
  \/ \E g \in Grants : Grant(g)
  \/ \E p \in Profiles : Delete(p)
  \/ Crash \/ Boot \/ SecondStart

Spec == Init /\ [][Next]_vars

\* tokio polls every runnable task (WF) and its mutex is first-in first-out (SF).
\* Clients, faults and the end of a proxied conversation have no fairness.
Fairness ==
  /\ \A s \in Sessions : WF_vars(CreateSteps(s)) /\ SF_vars(CreateLocks(s))
  /\ \A w \in Workers : /\ SF_vars(WorkLocks(w))
                        /\ WF_vars(CloseSteps(w) \/ ActionSteps(w) \/ ProxySteps(w) \/ WorkErrs(w))

FairSpec == Spec /\ Fairness
=============================================================================
