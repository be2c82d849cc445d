---------------------------- MODULE CdpExchange ----------------------------
(***************************************************************************)
(* One session between the gateway and its browser: the launch on a port   *)
(* that was picked and released, the wait for the CDP endpoint, and the    *)
(* CDP conversations of the handlers, each over a connection of its own    *)
(* (src/gateway.rs).                                                       *)
(*                                                                         *)
(* A conversation is the list of requests a handler still has to make; the *)
(* first of them is on its way.  The browser answers when it likes, sends  *)
(* events in between, refuses requests, fails to load pages, goes away.    *)
(* It is external: it answers Page.navigate once the new document is there.*)
(***************************************************************************)
EXTENDS Identity, Integers

CONSTANTS MaxCalls,      \* handlers that talk to the browser, in the order they begin
          Kinds,         \* what they may be: see Kind
          Pages, Blank,  \* pages to visit; about:blank
          Patience,      \* polls before a deadline has passed
          Options,       \* command line options of a profile's identity
          StealthAsked,  \* CreateSessionRequest.stealth
          DefaultStealth,
          Faults,        \* what the browser and other processes may do
          MaxMishaps     \* how often they do in one behaviour

Calls == 1 .. MaxCalls
Kind == {"navigate", "evaluate", "inject", "fetch"}
FaultKinds == {"event", "exit", "refuse", "loadfail", "foreign", "overlap", "update"}

ASSUME BoundAssumption == MaxCalls \in Nat /\ Patience \in Nat /\ MaxMishaps \in Nat
ASSUME NoneAssumption == None \notin Calls \cup Pages /\ None \notin Kind
ASSUME ScopeAssumption == Kinds \subseteq Kind /\ Faults \subseteq FaultKinds
\* Some(identity) is not None
ASSUME SomeAssumption ==
  \A o \in Options : BuildProfileIdentity(o) # None =>
    ResolveEffectiveIdentity(BuildProfileIdentity(o), DefaultStealth) # None

VARIABLES
  life,      \* of create_session: "picked", "waiting", "ready" or "failed"
  tries,     \* connection attempts left before the launch is given up
  child,     \* "none", "booting", "serving" or "exited"
  listener,  \* who listens on the session's port: "nobody", "child", "other"
  args,      \* what the child was launched with
  row,       \* identity of the session's profile, None for a session without profile
  cached,    \* ManagedSession.target_id, named by the call that created it
  at,        \* where the handler of each call is
  task,      \* what it knows: see NoTask
  conn,      \* its connection: see NoConn
  told,      \* what it answered
  owner,     \* the browser a target is in
  page, ready, overrides, \* of each target: its page, readyState, last overrides
  mishaps,   \* faults so far
  foreign,   \* history: another process has had the port
  updated    \* history: the profile was updated after the launch

launchVars == <<life, tries, child, listener, args>>
callVars == <<at, task, conn, told>>
webVars == <<owner, page, ready, overrides>>
histVars == <<mishaps, foreign, updated>>
vars == <<launchVars, row, cached, callVars, webVars, histVars>>

Running == {"target", "identity", "attach", "talk"}
Conversing == {"target", "talk"}

\* kind: what the call does; want, until: the page asked for and what to wait for; tgt: the
\* target; face: the effective identity; left: polls before the deadline; met: history, what
\* happened during the call that it knows nothing of
NoTask == [kind |-> None, want |-> Blank, until |-> "load", tgt |-> None, face |-> None,
           left |-> Patience, met |-> {}]
Met == {"navigate", "evaluate", "update", "refuse", "loadfail"}

\* to: who the connection reaches; id: of the last request; todo: requests not yet
\* answered; wire: requests the browser has not read; in: frames not yet read
NoConn == [to |-> "nobody", id |-> 0, todo |-> <<>>, wire |-> <<>>, in |-> <<>>]

Request(method, params) == [method |-> method, params |-> params]
Frame(id, answers, ok, value) == [id |-> id, answers |-> answers, ok |-> ok, value |-> value]
Event == Frame(0, "nothing", TRUE, None)

TypeOK ==
  /\ life \in {"picked", "waiting", "ready", "failed"} /\ tries \in 0 .. Patience
  /\ child \in {"none", "booting", "serving", "exited"}
  /\ listener \in {"nobody", "child", "other"}
  /\ listener = "child" <=> child = "serving"
  /\ cached \in Calls \cup {None}
  /\ at \in [Calls -> Running \cup {"told", "failed", "idle"}]
  /\ \A c \in Calls :
       /\ task[c].want \in Pages \cup {Blank} /\ task[c].until \in {"domcontentloaded", "load"}
       /\ task[c].tgt \in Calls \cup {None} /\ task[c].left \in 0 .. Patience
       /\ IF at[c] \in Running THEN task[c].kind \in Kinds ELSE task[c] = NoTask
       /\ task[c].met \subseteq Met
       /\ conn[c].to \in {"nobody", "child", "other"} /\ conn[c].id \in Nat
       /\ at[c] \in Conversing <=> conn[c].todo # <<>>
  /\ page \in [Calls -> Pages \cup {Blank}]
  /\ ready \in [Calls -> {"loading", "interactive", "complete"}]
  /\ owner \in [Calls -> {"nobody", "child", "other"}]
  /\ mishaps \in 0 .. MaxMishaps

Init ==
  /\ life = "picked" /\ tries = Patience
  /\ child = "none" /\ listener = "nobody"
  /\ args = None
  /\ row \in {None} \cup {BuildProfileIdentity(o) : o \in Options}
  /\ cached = None
  /\ at = [c \in Calls |-> "idle"] /\ task = [c \in Calls |-> NoTask]
  /\ conn = [c \in Calls |-> NoConn] /\ told = [c \in Calls |-> None]
  /\ owner = [c \in Calls |-> "nobody"]
  /\ page = [c \in Calls |-> Blank] /\ ready = [c \in Calls |-> "complete"]
  /\ overrides = [c \in Calls |-> [m \in OverrideMethods |-> None]]
  /\ mishaps = 0 /\ foreign = FALSE /\ updated = FALSE

Fault(f) == f \in Faults /\ mishaps < MaxMishaps /\ mishaps' = mishaps + 1

-----------------------------------------------------------------------------
\* create_session: pick_free_port has let go of the port before the child is launched

Spawn ==
  /\ life = "picked" /\ life' = "waiting"
  /\ child' = "booting"
  /\ \E asked \in StealthAsked :
       args' = LaunchArgs(ResolveStealth(asked, row, DefaultStealth),
                          ResolveEffectiveIdentity(row, DefaultStealth))
  /\ UNCHANGED <<tries, listener, row, cached, callVars, webVars, histVars>>

besideLaunch == <<args, row, cached, at, task, told, webVars>>

\* wait_for_cdp_endpoint: whoever listens will do
Connected_anyway ==
  /\ life = "waiting" /\ life' = "ready"
  /\ UNCHANGED <<tries, child, listener, conn, histVars, besideLaunch>>
Connected ==
  /\ life = "waiting" /\ listener # "nobody" /\ life' = "ready"
  /\ UNCHANGED <<tries, child, listener, conn, histVars, besideLaunch>>

\* Nobody listens, or the handshake takes more than 750 ms
Retry_forever ==
  /\ life = "waiting"
  /\ tries' = IF tries = 0 THEN Patience ELSE tries - 1
  /\ UNCHANGED <<life, child, listener, conn, histVars, besideLaunch>>
Retry ==
  /\ life = "waiting" /\ tries > 0 /\ tries' = tries - 1
  /\ UNCHANGED <<life, child, listener, conn, histVars, besideLaunch>>

\* The child is gone, and with it its port and its connections
ChildGone ==
  /\ child' = "exited"
  /\ listener' = IF listener = "child" THEN "nobody" ELSE listener
  /\ conn' = [c \in Calls |-> IF conn[c].to # "child" THEN conn[c]
                              ELSE [conn[c] EXCEPT !.to = "nobody", !.wire = <<>>]]

GiveUp_noKill ==
  /\ life = "waiting" /\ tries = 0 /\ life' = "failed"
  /\ UNCHANGED <<tries, child, listener, conn, histVars, besideLaunch>>
GiveUp ==
  /\ life = "waiting" /\ tries = 0 /\ life' = "failed"
  /\ ChildGone
  /\ UNCHANGED <<tries, histVars, besideLaunch>>

\* obscura serve binds the port it was given, or exits
ChildBinds ==
  /\ child = "booting"
  /\ IF listener = "nobody" THEN child' = "serving" /\ listener' = "child"
     ELSE child' = "exited" /\ UNCHANGED listener
  /\ UNCHANGED <<life, tries, conn, histVars, besideLaunch>>

\* It exits by itself, or a close kills it
ChildExits ==
  /\ Fault("exit") /\ child \in {"booting", "serving"}
  /\ ChildGone
  /\ UNCHANGED <<life, tries, foreign, updated, besideLaunch>>

\* Another process is given the port: the child of another create, for instance
OtherBinds ==
  /\ Fault("foreign") /\ listener = "nobody"
  /\ listener' = "other" /\ foreign' = TRUE
  /\ UNCHANGED <<life, tries, child, conn, updated, besideLaunch>>

\* The history of the calls that answer with something that may be wrong
Meets(c, what) ==
  IF task[c].kind \in {"navigate", "fetch"} THEN [task[c] EXCEPT !.met = @ \cup {what}] ELSE task[c]

\* update_profile, which does not look at sessions; here after the launch
UpdateProfile ==
  /\ Fault("update") /\ row # None /\ life = "ready"
  /\ \E o \in Options : row' = PatchedIdentity(o, row) /\ row' # None
  /\ updated' = TRUE
  /\ task' = [c \in Calls |-> Meets(c, "update")]
  /\ UNCHANGED <<launchVars, cached, at, conn, told, webVars, foreign>>

-----------------------------------------------------------------------------
\* The handlers

Goto(c, to) == at' = [at EXCEPT ![c] = to]

\* A call ends, and what it knew with it
End(c, how, answer) ==
  /\ Goto(c, how)
  /\ task' = [task EXCEPT ![c] = NoTask]
  /\ conn' = [conn EXCEPT ![c] = NoConn]
  /\ told' = [told EXCEPT ![c] = answer]

StorageMethod == [inject |-> "setCookies", fetch |-> "getCookies"]

Sent(id, todo) == [id |-> id, method |-> Head(todo).method, params |-> Head(todo).params]

\* connect_async, and the first request; no connection, no call
Connect(c, to, todo, tasks) ==
  IF listener = "nobody" THEN End(c, "failed", None)
  ELSE /\ Goto(c, to)
       /\ task' = tasks
       /\ conn' = [conn EXCEPT ![c] = [to |-> listener, id |-> 1, todo |-> todo,
                                       wire |-> <<Sent(1, todo)>>, in |-> <<>>]]
       /\ UNCHANGED told

Begin(c) ==
  /\ life = "ready" /\ at[c] = "idle" /\ \A d \in Calls : d < c => at[d] # "idle"
  /\ IF \A d \in Calls : at[d] \notin Running THEN UNCHANGED mishaps ELSE Fault("overlap")
  /\ UNCHANGED <<launchVars, row, cached, webVars, foreign, updated>>

\* inject_cookies, fetch_cookies
BeginStorage(c) ==
  /\ Begin(c)
  /\ \E k \in Kinds \cap DOMAIN StorageMethod :
       Connect(c, "talk", <<Request(StorageMethod[k], None)>>,
               [task EXCEPT ![c] = [NoTask EXCEPT !.kind = k]])

\* Actions on the session's page that run at the same time meet each other
Joined(c, knows) ==
  [d \in Calls |->
     IF d = c THEN [knows EXCEPT !.met = {task[e].kind : e \in Calls} \cap {"navigate", "evaluate"}]
     ELSE Meets(d, knows.kind)]

\* ensure_target, once it is known what to do
EnsureTarget(c, knows) ==
  IF cached = None
  THEN Connect(c, "target", <<Request("createTarget", None)>>, Joined(c, knows))
  ELSE /\ Goto(c, "identity")
       /\ task' = Joined(c, [knows EXCEPT !.tgt = cached])
       /\ UNCHANGED <<conn, told>>

BeginNavigate(c) ==
  /\ "navigate" \in Kinds
  /\ Begin(c)
  /\ \E p \in Pages, u \in {"domcontentloaded", "load"} :
       EnsureTarget(c, [NoTask EXCEPT !.kind = "navigate", !.want = p, !.until = u])

\* evaluate_session and dump_session
BeginEvaluate(c) ==
  /\ "evaluate" \in Kinds
  /\ Begin(c)
  /\ EnsureTarget(c, [NoTask EXCEPT !.kind = "evaluate"])

besideCall == <<launchVars, row, webVars, histVars>>

\* effective_identity_for_session
ReadIdentity(c) ==
  /\ at[c] = "identity" /\ Goto(c, "attach")
  /\ task' = [task EXCEPT ![c].face = ResolveEffectiveIdentity(row, DefaultStealth)]
  /\ UNCHANGED <<cached, conn, told, besideCall>>

Evaluate(expression) == Request("evaluate", expression)
ReadyState == Evaluate("document.readyState")

\* attach_to_target, whose three requests are one here, the overrides, and what the action is for
Prologue(c) == <<Request("attachToTarget", task[c].tgt)>>
Body(c) ==
  IF task[c].kind = "evaluate" THEN <<Evaluate("expression")>>
  ELSE <<Request("navigate", task[c].want), ReadyState, Evaluate("location.href")>>

Program_overridesLast(c) == Prologue(c) \o Body(c) \o ApplyProfileIdentity(task[c].face)
Program(c) == Prologue(c) \o ApplyProfileIdentity(task[c].face) \o Body(c)

Attach(c) ==
  /\ at[c] = "attach"
  /\ Connect(c, "talk", Program(c), [task EXCEPT ![c].face = None])
  /\ UNCHANGED <<cached, besideCall>>

\* CdpConnection::request: the next request, with an id of its own
Ask(c, todo) ==
  conn' = [conn EXCEPT ![c].todo = todo, ![c].id = @ + 1,
                       ![c].wire = Append(@, Sent(conn[c].id + 1, todo)), ![c].in = Tail(@)]

-----------------------------------------------------------------------------
\* What a handler does with the next frame

Doing(c) == Head(conn[c].todo)
Unread(c) == conn[c].in # <<>>
First(c) == Head(conn[c].in)

\* The frame is the reply; fetch_cookies looks for cookies instead of the id
HasReply_anyFrame(c) == at[c] \in Conversing /\ Unread(c)
HasReply(c) ==
  /\ at[c] \in Conversing /\ Unread(c)
  /\ IF task[c].kind = "fetch" THEN First(c).answers = "getCookies" /\ First(c).ok
     ELSE First(c).id = conn[c].id

\* Events, and for fetch_cookies an error too, are read past
Skip(c) ==
  /\ at[c] \in Conversing /\ Unread(c) /\ ~HasReply(c)
  /\ conn' = [conn EXCEPT ![c].in = Tail(@)]
  /\ UNCHANGED <<cached, at, task, told, besideCall>>

\* An error reply ends the call, except that errors of overrides are ignored
TakeError(c) ==
  /\ HasReply(c) /\ ~First(c).ok /\ Doing(c).method \notin OverrideMethods
  /\ End(c, "failed", None)
  /\ UNCHANGED <<cached, besideCall>>

Accepted(c) == HasReply(c) /\ (First(c).ok \/ Doing(c).method \in OverrideMethods)

\* create_temporary_target: the last to store its target wins
TakeTarget_keepsConnection(c) ==
  /\ at[c] = "target" /\ Accepted(c)
  /\ Goto(c, "identity")
  /\ cached' = c
  /\ task' = [task EXCEPT ![c].tgt = c]
  /\ UNCHANGED <<conn, told, besideCall>>
TakeTarget(c) ==
  /\ at[c] = "target" /\ Accepted(c)
  /\ Goto(c, "identity")
  /\ cached' = c
  /\ task' = [task EXCEPT ![c].tgt = c]
  /\ conn' = [conn EXCEPT ![c] = NoConn]
  /\ UNCHANGED <<told, besideCall>>

\* wait_for_ready_state: any time may pass until the reply, after which the deadline is looked at
Milestones(c) ==
  IF task[c].until = "domcontentloaded" THEN {"interactive", "complete"} ELSE {"complete"}
NotYet(c) == Doing(c) = ReadyState /\ First(c).value \notin Milestones(c)

TakePoll_noDeadline(c) ==
  /\ at[c] = "talk" /\ Accepted(c) /\ NotYet(c)
  /\ conn' = [conn EXCEPT ![c].wire = Append(@, Sent(conn[c].id, conn[c].todo)), ![c].in = Tail(@)]
  /\ task' = [task EXCEPT ![c].left = IF @ = 0 THEN 0 ELSE @ - 1]
  /\ UNCHANGED <<at, told>>
  /\ UNCHANGED <<cached, besideCall>>
TakePoll(c) ==
  /\ at[c] = "talk" /\ Accepted(c) /\ NotYet(c)
  /\ IF task[c].left = 0 THEN End(c, "failed", None)
     ELSE /\ Ask(c, conn[c].todo) /\ UNCHANGED <<at, told>>
          /\ \E left \in 0 .. task[c].left - 1 : task' = [task EXCEPT ![c].left = left]
  /\ UNCHANGED <<cached, besideCall>>

TakeReply(c) ==
  /\ at[c] = "talk" /\ Accepted(c) /\ ~NotYet(c)
  /\ IF Len(conn[c].todo) = 1 THEN End(c, "told", First(c).value)
     ELSE Ask(c, Tail(conn[c].todo)) /\ UNCHANGED <<at, task, told>>
  /\ UNCHANGED <<cached, besideCall>>

\* The connection is closed: ignored by overrides, and fatal to the request after them;
\* to fetch_cookies it means that there are no cookies, if it was closed in order
Closed(c) ==
  /\ at[c] \in Conversing /\ ~Unread(c) /\ conn[c].to = "nobody"
  /\ \/ task[c].kind = "fetch" /\ End(c, "told", "no cookies")
     \/ End(c, "failed", None)
  /\ UNCHANGED <<cached, besideCall>>

-----------------------------------------------------------------------------
\* The browser

Oldest(c) == Head(conn[c].wire)
Asked(c, methods) == conn[c].to # "nobody" /\ conn[c].wire # <<>> /\ Oldest(c).method \in methods

besideWeb == <<launchVars, row, cached, at, told, foreign, updated>>

Answer(c, ok, value) ==
  conn' = [conn EXCEPT ![c].wire = Tail(@),
                       ![c].in = Append(@, Frame(Oldest(c).id, Oldest(c).method, ok, value))]

ServeTarget(c) ==
  /\ Asked(c, {"createTarget"}) /\ Answer(c, TRUE, None)
  /\ owner' = [owner EXCEPT ![c] = conn[c].to]
  /\ UNCHANGED <<page, ready, overrides, task, mishaps, besideWeb>>

\* A browser does not know the targets of another
ServeAttach(c) ==
  /\ Asked(c, {"attachToTarget"}) /\ Answer(c, owner[task[c].tgt] = conn[c].to, None)
  /\ UNCHANGED <<webVars, task, mishaps, besideWeb>>

ServeOverride(c) ==
  /\ Asked(c, OverrideMethods) /\ Answer(c, TRUE, None)
  /\ overrides' = [overrides EXCEPT ![task[c].tgt][Oldest(c).method] = Oldest(c).params]
  /\ UNCHANGED <<owner, page, ready, task, mishaps, besideWeb>>

ServeNavigate(c) ==
  /\ Asked(c, {"navigate"}) /\ Answer(c, TRUE, None)
  /\ page' = [page EXCEPT ![task[c].tgt] = Oldest(c).params]
  /\ ready' = [ready EXCEPT ![task[c].tgt] = "loading"]
  /\ UNCHANGED <<owner, overrides, task, mishaps, besideWeb>>

\* The reply is a result with an errorText, which nobody reads
LoadFails(c) ==
  /\ Fault("loadfail")
  /\ Asked(c, {"navigate"}) /\ Answer(c, TRUE, None)
  /\ task' = [task EXCEPT ![c] = Meets(c, "loadfail")]
  /\ UNCHANGED <<webVars, besideWeb>>

ServeEvaluate(c) ==
  /\ Asked(c, {"evaluate"})
  /\ Answer(c, TRUE, IF Oldest(c).params = "document.readyState" THEN ready[task[c].tgt]
                     ELSE page[task[c].tgt])
  /\ UNCHANGED <<webVars, task, mishaps, besideWeb>>

\* The cookies of a browser are named by the browser
ServeStorage(c) ==
  /\ Asked(c, {"setCookies", "getCookies"})
  /\ Answer(c, TRUE, conn[c].to)
  /\ UNCHANGED <<webVars, task, mishaps, besideWeb>>

Refuse(c) ==
  /\ Fault("refuse")
  /\ conn[c].to # "nobody" /\ conn[c].wire # <<>> /\ Answer(c, FALSE, None)
  /\ task' = [task EXCEPT ![c] = Meets(c, "refuse")]
  /\ UNCHANGED <<webVars, besideWeb>>

Interject(c) ==
  /\ Fault("event") /\ at[c] \in Conversing /\ conn[c].to # "nobody"
  /\ conn' = [conn EXCEPT ![c].in = Append(@, Event)]
  /\ UNCHANGED <<webVars, task, besideWeb>>

Load(t) ==
  /\ ready[t] # "complete"
  /\ ready' = [ready EXCEPT ![t] = IF @ = "loading" THEN "interactive" ELSE "complete"]
  /\ UNCHANGED <<owner, page, overrides, conn, task, mishaps, besideWeb>>

-----------------------------------------------------------------------------
Starting == Connected \/ Retry \/ GiveUp
Handler(c) == ReadIdentity(c) \/ Attach(c) \/ Skip(c) \/ TakeError(c) \/ TakeTarget(c)
              \/ TakePoll(c) \/ TakeReply(c) \/ Closed(c)
Serve(c) == ServeTarget(c) \/ ServeAttach(c) \/ ServeOverride(c) \/ ServeNavigate(c)
            \/ LoadFails(c) \/ ServeEvaluate(c) \/ ServeStorage(c) \/ Refuse(c)

Next ==
  \/ Spawn \/ Starting \/ ChildBinds \/ ChildExits \/ OtherBinds \/ UpdateProfile
  \/ \E c \in Calls : \/ BeginStorage(c) \/ BeginNavigate(c) \/ BeginEvaluate(c)
                      \/ Handler(c)
                      \/ Serve(c) \/ Interject(c)
  \/ \E t \in Calls : Load(t)

Spec == Init /\ [][Next]_vars

\* tokio polls every task that can run; a browser that is there answers.  That a child
\* ever binds, that a page ever loads and that a client ever asks is not assumed.
Fairness == WF_vars(Starting) /\ \A c \in Calls : WF_vars(Handler(c)) /\ WF_vars(Serve(c))

FairSpec == Spec /\ Fairness

-----------------------------------------------------------------------------
\* As long as no other process was given the port, create_session answers with a browser
\* that serves, and one it gave up on is not left running (gateway.rs:239-251, 1084-1098).
LaunchSettles ==
  [][/\ life = "waiting" /\ life' = "ready" /\ ~foreign => child = "serving"
     /\ life' = "failed" => child' \notin {"booting", "serving"}]_vars

\* What navigate_session answers is so: the session's page is the one that was asked for and
\* has reached the milestone that was waited for, unless another call ran at the same time
\* or the page did not load (gateway.rs:387-431, 1178-1202).
NavigationTellsTruth ==
  [][\A c \in Calls : /\ task[c].kind = "navigate"
                     /\ task[c].met \cap {"navigate", "refuse", "loadfail"} = {}
                     /\ at[c] = "talk" /\ at'[c] = "told"
       => told'[c] = task[c].want /\ page[task[c].tgt] = task[c].want /\ ready[task[c].tgt] \in Milestones(c)]_vars

\* What a page sees of a profile: its own values, and a default for each one it has not
Shown(method) ==
  [f \in FieldsOf(method) |-> IF f = "viewport" THEN Metrics(Or(row[f], Default[f]))
                              ELSE Or(row[f], Default[f])]

\* A page is never requested before the browser shows the whole identity of the session's
\* profile as it is then, updates under way of the session included; unless it was updated
\* that is also the user agent the browser was launched with (gateway.rs:731-798, 855-904).
FaceBeforePage ==
  [][\A c \in Calls :
       /\ row # None /\ "refuse" \notin task[c].met
       /\ updated => task[c].met \cap {"navigate", "evaluate", "update"} = {}
       /\ Asked(c, {"navigate"}) /\ ~Asked(c, {"navigate"})' /\ conn'[c].in # <<>>
       => /\ \A m \in OverrideMethods : overrides[task[c].tgt][m] = Shown(m)
          /\ ~updated => args.user_agent = Shown("setUserAgentOverride").user_agent]_vars

\* fetch_cookies reports no cookies only for a browser that went away, and whatever the
\* browser refused, no other frame passes for cookies (gateway.rs:708-729).
FetchTellsTruth ==
  [][\A c \in Calls : task[c].kind = "fetch" /\ at[c] = "talk" /\ at'[c] = "told" =>
       IF told'[c] = "no cookies" THEN child = "exited" ELSE told'[c] \in {"child", "other"}]_vars

\* The launch comes to its end, with a browser or without (gateway.rs:1084-1098).
LaunchEnds == life = "waiting" ~> life \in {"ready", "failed"}

\* Every call that talks to a browser comes to its end, also on a page that never loads: all
\* but fetch_cookies after an error, which reads on (gateway.rs:387-511, 647-729, 1178-1202).
CallsEnd ==
  (\E c \in Calls : at[c] \in Running)
    ~> \A c \in Calls : at[c] \in Running => task[c].kind = "fetch" /\ "refuse" \in task[c].met
=============================================================================
