------------------------------- MODULE Events -------------------------------
(***************************************************************************)
(* The event stream of the gateway: handlers insert an event in the table  *)
(* session_events and then broadcast it (src/gateway.rs, src/db.rs), and   *)
(* clients follow the events of one session over server-sent events        *)
(* (src/server.rs).                                                        *)
(*                                                                         *)
(* The broadcast channel is tokio's: it keeps the last Capacity events,    *)
(* and a receiver that falls behind them goes on with the oldest one left. *)
(***************************************************************************)
EXTENDS Integers, SequencesExt

CONSTANTS MaxCalls,  \* API calls that emit events, in the order they begin
          Streams,   \* clients that follow events
          Capacity,  \* of the broadcast channel
          Faults, MaxFaults

Calls == 1 .. MaxCalls

ASSUME BoundAssumption == MaxCalls \in Nat /\ Capacity \in Nat \ {0} /\ MaxFaults \in Nat
ASSUME FaultAssumption == Faults \subseteq {"dbfail", "injectfail", "restart"}

VARIABLES
  live,    \* sessions in the runtimes map, each named by the call that creates it
  call,    \* of each call: its session, the events it emits, those emitted, where it is
  table,   \* the rows of session_events; nothing reads them, in whatever order
  sent,    \* broadcast since the gateway started
  stream,  \* of each client that follows events: whose, where it is, the next event to read
  got,     \* what it has received
  faults,  \* so far
  before,  \* history: of each call, the calls answered before it began
  watch,   \* history: of each call, the open streams of its session when it began
  lagged   \* history: streams that have skipped events

histVars == <<before, watch>>
vars == <<live, call, table, sent, stream, got, faults, histVars, lagged>>

Idle == [session |-> 0, emits |-> 0, done |-> 0, at |-> "idle"]
Running == {"create", "emit", "send"}
Following == {"subscribed", "open"}

Event(c) == [call |-> c, nth |-> call[c].done + 1]
EventsOf(c) == [call : {c}, nth : 1 .. call[c].emits]

TypeOK ==
  /\ live \subseteq Calls
  /\ \A c \in Calls :
       /\ call[c].at \in Running \cup {"idle", "answered", "failed", "lost"}
       /\ call[c].at # "idle" => call[c].session \in Calls
       /\ call[c].done <= call[c].emits
       /\ call[c].at = "answered" => call[c].done = call[c].emits
  /\ table \cup ToSet(sent) \subseteq UNION {EventsOf(c) : c \in Calls}
  /\ \A u \in Streams :
       /\ stream[u].at \in Following \cup {"off", "cut"}
       /\ stream[u].at \in Following => stream[u].next \in 1 .. Len(sent) + 1
       /\ ToSet(got[u]) \subseteq UNION {EventsOf(c) : c \in Calls}
  /\ faults \in 0 .. MaxFaults /\ lagged \subseteq Streams

Init ==
  /\ live = {} /\ call = [c \in Calls |-> Idle]
  /\ table = {} /\ sent = <<>>
  /\ stream = [u \in Streams |-> [of |-> 0, at |-> "off", next |-> 0]]
  /\ got = [u \in Streams |-> <<>>]
  /\ faults = 0
  /\ before = [c \in Calls |-> {}] /\ watch = [c \in Calls |-> {}]
  /\ lagged = {}

Fault(f) == f \in Faults /\ faults < MaxFaults /\ faults' = faults + 1

-----------------------------------------------------------------------------
\* The calls that emit events

Begin(c, s, emits, at) ==
  /\ call[c].at = "idle" /\ \A d \in Calls : d < c => call[d].at # "idle"
  /\ call' = [call EXCEPT ![c] = [session |-> s, emits |-> emits, done |-> 0, at |-> at]]
  /\ before' = [before EXCEPT ![c] = {d \in Calls : call[d].at = "answered"}]
  /\ watch' = [watch EXCEPT ![c] = {u \in Streams : stream[u].at = "open" /\ stream[u].of = s}]
  /\ UNCHANGED <<live, table, sent, stream, got, faults, lagged>>

\* create_session: session.created, and profile.attached if it has cookies to inject
BeginCreate(c) ==
  \E emits \in 1 .. 2 : Begin(c, c, emits, "create")

\* The session is in the runtimes map: other clients may act on it
Publish(c) ==
  /\ call[c].at = "create"
  /\ call' = [call EXCEPT ![c].at = "emit"]
  /\ live' = live \cup {call[c].session}
  /\ UNCHANGED <<table, sent, stream, got, faults, histVars, lagged>>

\* Navigate, evaluate, dump, close, and a client attached to the CDP proxy: one event each
BeginAct(c) == \E s \in live : Begin(c, s, 1, "emit")

\* emit_event: an event that cannot be stored is not broadcast, and its call fails
Store_ignoresError(c) ==
  /\ call[c].at = "emit"
  /\ call' = [call EXCEPT ![c].at = "send"]
  /\ \/ table' = table \cup {Event(c)} /\ UNCHANGED faults
     \/ Fault("dbfail") /\ UNCHANGED table
  /\ UNCHANGED <<live, sent, stream, got, histVars, lagged>>
Store(c) ==
  /\ call[c].at = "emit"
  /\ \/ /\ table' = table \cup {Event(c)}
        /\ call' = [call EXCEPT ![c].at = "send"]
        /\ UNCHANGED faults
     \/ /\ Fault("dbfail") /\ UNCHANGED table
        /\ call' = [call EXCEPT ![c].at = "failed"]
  /\ UNCHANGED <<live, sent, stream, got, histVars, lagged>>

\* Cookies could not be injected: the session is undone, its first event is out
InjectFails(c) ==
  /\ Fault("injectfail")
  /\ call[c].at = "emit" /\ call[c].done = 1
  /\ call' = [call EXCEPT ![c].at = "failed"]
  /\ live' = live \ {call[c].session}
  /\ UNCHANGED <<table, sent, stream, got, histVars, lagged>>

\* Without a receiver the channel keeps nothing.  After its last event the call is answered.
Emitted(c) ==
  call' = [call EXCEPT ![c].done = @ + 1,
                       ![c].at = IF call[c].done + 1 = call[c].emits THEN "answered" ELSE "emit"]
Receivers == {u \in Streams : stream[u].at \in Following}

Send_dropsNewest(c) ==
  /\ call[c].at = "send" /\ Emitted(c)
  /\ sent' = IF \E u \in Receivers : stream[u].next + Capacity <= Len(sent) + 1 THEN sent
             ELSE Append(sent, Event(c))
  /\ UNCHANGED <<live, table, stream, got, faults, histVars, lagged>>
Send(c) ==
  /\ call[c].at = "send" /\ Emitted(c)
  /\ sent' = IF Receivers = {} THEN sent ELSE Append(sent, Event(c))
  /\ UNCHANGED <<live, table, stream, got, faults, histVars, lagged>>

-----------------------------------------------------------------------------
\* session_events

besideStream == <<live, call, table, sent, faults, histVars>>

\* The code takes any session; a client knows those that have or had a row
Known == {s \in Calls : call[s].session = s /\ call[s].at # "create"}

Subscribe_pastNext(u) ==
  /\ stream[u].at = "off"
  /\ \E s \in Known :
       stream' = [stream EXCEPT ![u] = [of |-> s, at |-> "subscribed", next |-> Len(sent) + 2]]
  /\ UNCHANGED <<got, lagged, besideStream>>
Subscribe(u) ==
  /\ stream[u].at = "off"
  /\ \E s \in Known :
       stream' = [stream EXCEPT ![u] = [of |-> s, at |-> "subscribed", next |-> Len(sent) + 1]]
  /\ UNCHANGED <<got, lagged, besideStream>>

\* The client sees the response; what it does from now on it expects to follow
Open(u) ==
  /\ stream[u].at = "subscribed"
  /\ stream' = [stream EXCEPT ![u].at = "open"]
  /\ UNCHANGED <<got, lagged, besideStream>>

Oldest == IF Len(sent) > Capacity THEN Len(sent) - Capacity + 1 ELSE 1
Pending(u) == stream[u].at = "open" /\ stream[u].next <= Len(sent)

\* The events of other sessions are dropped
Receive_all(u) ==
  /\ Pending(u) /\ stream[u].next >= Oldest
  /\ stream' = [stream EXCEPT ![u].next = @ + 1]
  /\ got' = [got EXCEPT ![u] = Append(@, sent[stream[u].next])]
  /\ UNCHANGED <<lagged, besideStream>>
Receive(u) ==
  /\ Pending(u) /\ stream[u].next >= Oldest
  /\ stream' = [stream EXCEPT ![u].next = @ + 1]
  /\ LET e == sent[stream[u].next]
     IN  got' = [got EXCEPT ![u] = IF call[e.call].session = stream[u].of THEN Append(@, e) ELSE @]
  /\ UNCHANGED <<lagged, besideStream>>

\* The channel reports a gap, which the stream drops too
Lag(u) ==
  /\ Pending(u) /\ stream[u].next < Oldest
  /\ stream' = [stream EXCEPT ![u].next = Oldest]
  /\ lagged' = lagged \cup {u}
  /\ UNCHANGED <<got, besideStream>>

-----------------------------------------------------------------------------
\* The gateway is killed and started again
Restart ==
  /\ Fault("restart")
  /\ live' = {} /\ sent' = <<>>
  /\ call' = [c \in Calls |-> IF call[c].at \in Running THEN [call[c] EXCEPT !.at = "lost"]
                              ELSE call[c]]
  /\ stream' = [u \in Streams |-> IF u \in Receivers THEN [stream[u] EXCEPT !.at = "cut"]
                                  ELSE stream[u]]
  /\ UNCHANGED <<table, got, histVars, lagged>>

Read(u) == Receive(u) \/ Lag(u)

Next ==
  \/ \E c \in Calls : BeginCreate(c) \/ Publish(c) \/ BeginAct(c) \/ Store(c) \/ InjectFails(c) \/ Send(c)
  \/ \E u \in Streams : Subscribe(u) \/ Open(u) \/ Read(u)
  \/ Restart

Spec == Init /\ [][Next]_vars

\* The task of an open stream runs and its client reads what it is sent.  That calls are
\* made or make progress is not assumed.
FairSpec == Spec /\ \A u \in Streams : WF_vars(Read(u))

-----------------------------------------------------------------------------
\* One event comes before another although its call began after the other was answered
Reversed(seq) ==
  \E i, j \in DOMAIN seq : i < j /\ \/ seq[j].call \in before[seq[i].call]
                                    \/ seq[i].call = seq[j].call /\ seq[i].nth >= seq[j].nth

\* A client is sent only events of its session that are in the table, none twice, and none
\* before that of an earlier call, whatever overlaps, lags or is restarted (gateway.rs:634-645).
StreamFaithful ==
  \A u \in Streams :
    /\ ~Reversed(got[u])
    /\ \A e \in ToSet(got[u]) : e \in table /\ call[e.call].session = stream[u].of

\* The events of every call that was answered are in the table, after a restart too, and no
\* event of a call that failed is broadcast but not stored (gateway.rs:634-645, db.rs:353-367).
TableTells ==
  /\ ToSet(sent) \subseteq table
  /\ \A c \in Calls : call[c].at = "answered" => EventsOf(c) \subseteq table

Waiting(c, u) ==
  /\ u \in watch[c] /\ call[c].at = "answered"
  /\ stream[u].at = "open" /\ u \notin lagged /\ ~(EventsOf(c) \subseteq ToSet(got[u]))

\* A client that follows a session before it makes a call receives that call's events, unless
\* it reads so slowly that the channel overtakes it (server.rs:322-336).
AnsweredIsSeen ==
  (\E c \in Calls, u \in Streams : Waiting(c, u)) ~> (\A c \in Calls, u \in Streams : ~Waiting(c, u))
=============================================================================
