---------------------------- MODULE EventsProofs ----------------------------
(***************************************************************************)
(* Theorems about Events, for every number of calls and streams, every     *)
(* capacity of the channel and every number of faults.                     *)
(***************************************************************************)
EXTENDS Events, TLAPS

USE BoundAssumption
USE DEF histVars, besideStream, Calls, Idle, Running, Following

Emissions == [call : Calls, nth : 1 .. 2]
Places == Running \cup {"idle", "answered", "failed", "lost"}

CallShape == [session : 0 .. MaxCalls, emits : 0 .. 2, done : 0 .. 2, at : Places]
StreamShape == [of : 0 .. MaxCalls, at : Following \cup {"off", "cut"}, next : Nat]

\* The domain and range of every variable
Shape ==
  /\ live \subseteq Calls
  /\ call \in [Calls -> CallShape]
  /\ table \subseteq Emissions
  /\ sent \in Seq(Emissions)
  /\ stream \in [Streams -> StreamShape]
  /\ got \in [Streams -> Seq(Emissions)]
  /\ faults \in 0 .. MaxFaults
  /\ before \in [Calls -> SUBSET Calls] /\ watch \in [Calls -> SUBSET Streams]
  /\ lagged \subseteq Streams

\* A call emits its events one by one, and each is in the table from its insert on
CallInv ==
  \A c \in Calls :
    /\ call[c].at = "idle" => call[c] = Idle
    /\ call[c].at # "idle" => call[c].session \in Calls
    /\ call[c].at \in Running => call[c].done < call[c].emits
    /\ call[c].done <= call[c].emits
    /\ call[c].at = "answered" => call[c].done = call[c].emits
    /\ call[c].at = "send" => Event(c) \in table
    /\ \A n \in 1 .. call[c].done : [call |-> c, nth |-> n] \in table
    /\ \A d \in before[c] : call[d].at = "answered"

\* A stored event is one of those its call emits
TableInv == \A e \in table : e.nth <= call[e.call].emits

\* An event that was broadcast is stored, and its call has got past it
Told(e) == e \in table /\ e.nth <= call[e.call].done

StreamInv ==
  /\ \A k \in 1 .. Len(sent) : Told(sent[k])
  /\ \A u \in Streams :
       /\ stream[u].at = "off" => got[u] = <<>>
       /\ stream[u].at \in Following => stream[u].next \in 1 .. Len(sent) + 1
       /\ \A i \in 1 .. Len(got[u]) :
            Told(got[u][i]) /\ call[got[u][i].call].session = stream[u].of

\* e may come before f
InOrder(e, f) == f.call \notin before[e.call] /\ (e.call = f.call => e.nth < f.nth)

\* Why streams are in order: the broadcast is, and what a stream has received comes before
\* what it has still to read, also after a gap
OrderInv ==
  /\ \A i, k \in 1 .. Len(sent) : i < k => InOrder(sent[i], sent[k])
  /\ \A u \in Streams :
       /\ \A i, k \in 1 .. Len(got[u]) : i < k => InOrder(got[u][i], got[u][k])
       /\ stream[u].at \in Following =>
            \A i \in 1 .. Len(got[u]), k \in 1 .. Len(sent) :
              stream[u].next <= k => InOrder(got[u][i], sent[k])

IInv == Shape /\ CallInv /\ TableInv /\ StreamInv /\ OrderInv

-----------------------------------------------------------------------------
\* The initial state satisfies the inductive invariant
LEMMA InitInv == Init => IInv
  BY DEF Init, IInv, Shape, CallShape, StreamShape, CallInv, TableInv, StreamInv, OrderInv, Places, Emissions

\* A call, an event and a stream have their fields
LEMMA CallType ==
  ASSUME NEW c \in Calls, Shape
  PROVE  /\ call[c].session \in 0 .. MaxCalls /\ call[c].emits \in 0 .. 2
         /\ call[c].done \in 0 .. 2 /\ call[c].at \in Places
  BY DEF Shape, CallShape

LEMMA EventType ==
  ASSUME NEW c \in Calls, Shape, CallInv, call[c].at \in {"emit", "send"}
  PROVE  Event(c) \in Emissions /\ Event(c).call = c /\ Event(c).nth = call[c].done + 1
<1>1. call[c].done \in 0 .. 2 /\ call[c].emits \in 0 .. 2 /\ call[c].done < call[c].emits
  BY DEF Shape, CallShape, CallInv
<1>. QED  BY <1>1 DEF Event, Emissions

\* Records with a field or two replaced
LEMMA CallMoves ==
  ASSUME NEW r \in CallShape, NEW p \in Places
  PROVE  [r EXCEPT !.at = p] \in CallShape
  BY DEF CallShape

LEMMA CallAdvances ==
  ASSUME NEW r \in CallShape, r.done < r.emits, NEW p \in Places
  PROVE  [r EXCEPT !.done = @ + 1, !.at = p] \in CallShape
<1>1. r.done \in 0 .. 2 /\ r.emits \in 0 .. 2
  BY DEF CallShape
<1>2. r.done + 1 \in 0 .. 2
  BY <1>1
<1>. QED  BY <1>2 DEF CallShape

LEMMA StreamMoves ==
  ASSUME NEW r \in StreamShape
  PROVE  /\ \A p \in {"open", "cut"} : [r EXCEPT !.at = p] \in StreamShape
         /\ \A n \in Nat : [r EXCEPT !.next = n] \in StreamShape
  BY DEF StreamShape

\* Every step keeps the domains and ranges: first those of the calls
LEMMA CallShapeStep ==
  ASSUME IInv, [Next]_vars
  PROVE  call' \in [Calls -> CallShape]
<1>. call \in [Calls -> CallShape] /\ {"emit", "send", "failed", "answered", "lost"} \subseteq Places
  BY DEF IInv, Shape, Places
<1>1. ASSUME NEW c \in Calls, BeginCreate(c) PROVE call' \in [Calls -> CallShape]
  BY <1>1 DEF BeginCreate, Begin, CallShape, Places
<1>2. ASSUME NEW c \in Calls, BeginAct(c) PROVE call' \in [Calls -> CallShape]
  BY <1>2 DEF BeginAct, Begin, CallShape, Places, IInv, Shape
<1>3. ASSUME NEW c \in Calls, NEW p \in Places, call' = [call EXCEPT ![c].at = p]
      PROVE  call' \in [Calls -> CallShape]
  <2>1. [call[c] EXCEPT !.at = p] \in CallShape
    BY CallMoves
  <2>. QED  BY <1>3, <2>1
<1>4. ASSUME NEW c \in Calls, Publish(c) \/ Store(c) \/ InjectFails(c)
      PROVE  call' \in [Calls -> CallShape]
  BY <1>3, <1>4 DEF Publish, Store, InjectFails
<1>5. ASSUME NEW c \in Calls, Send(c) PROVE call' \in [Calls -> CallShape]
  <2>1. call[c].done < call[c].emits
    BY <1>5 DEF Send, IInv, CallInv
  <2>2. \A p \in Places : [call[c] EXCEPT !.done = @ + 1, !.at = p] \in CallShape
    BY <2>1, CallAdvances
  <2>3. PICK p \in Places : call' = [call EXCEPT ![c].done = @ + 1, ![c].at = p]
    BY <1>5 DEF Send, Emitted
  <2>. QED  BY <2>2, <2>3
<1>6. ASSUME NEW u \in Streams, Subscribe(u) \/ Open(u) \/ Read(u)
      PROVE  call' \in [Calls -> CallShape]
  BY <1>6 DEF Subscribe, Open, Read, Receive, Lag
<1>7. CASE Restart
  <2>1. \A c \in Calls : [call[c] EXCEPT !.at = "lost"] \in CallShape
    BY CallMoves
  <2>. QED  BY <1>7, <2>1 DEF Restart
<1>8. CASE UNCHANGED vars
  BY <1>8 DEF vars
<1>. QED  BY <1>1, <1>2, <1>4, <1>5, <1>6, <1>7, <1>8 DEF Next

\* Then those of the streams
LEMMA StreamShapeStep ==
  ASSUME IInv, [Next]_vars
  PROVE  stream' \in [Streams -> StreamShape]
<1>. stream \in [Streams -> StreamShape] /\ Len(sent) \in Nat /\ Calls \subseteq 0 .. MaxCalls
  BY DEF IInv, Shape
<1>1. CASE UNCHANGED stream
  BY <1>1
<1>2. ASSUME NEW u \in Streams, Subscribe(u) PROVE stream' \in [Streams -> StreamShape]
  <2>1. PICK s \in Calls : stream' = [stream EXCEPT ![u] =
                                        [of |-> s, at |-> "subscribed", next |-> Len(sent) + 1]]
    BY <1>2 DEF Subscribe, Known
  <2>2. [of |-> s, at |-> "subscribed", next |-> Len(sent) + 1] \in StreamShape
    BY DEF StreamShape
  <2>. QED  BY <2>1, <2>2
<1>3. ASSUME NEW u \in Streams, Open(u) PROVE stream' \in [Streams -> StreamShape]
  <2>1. [stream[u] EXCEPT !.at = "open"] \in StreamShape
    BY StreamMoves
  <2>. QED  BY <1>3, <2>1 DEF Open
<1>4. ASSUME NEW u \in Streams, NEW n \in Nat, stream' = [stream EXCEPT ![u].next = n]
      PROVE  stream' \in [Streams -> StreamShape]
  <2>1. [stream[u] EXCEPT !.next = n] \in StreamShape
    BY StreamMoves
  <2>. QED  BY <1>4, <2>1
<1>5. ASSUME NEW u \in Streams, Receive(u) PROVE stream' \in [Streams -> StreamShape]
  <2>1. stream[u].next + 1 \in Nat
    BY DEF StreamShape
  <2>. QED  BY <1>4, <1>5, <2>1 DEF Receive
<1>6. ASSUME NEW u \in Streams, Lag(u) PROVE stream' \in [Streams -> StreamShape]
  <2>1. Oldest \in Nat
    BY DEF Oldest
  <2>. QED  BY <1>4, <1>6, <2>1 DEF Lag
<1>7. CASE Restart
  <2>1. \A u \in Streams : [stream[u] EXCEPT !.at = "cut"] \in StreamShape
    BY StreamMoves
  <2>. QED  BY <1>7, <2>1 DEF Restart
<1>. QED
  BY <1>1, <1>2, <1>3, <1>5, <1>6, <1>7
  DEF Next, BeginCreate, BeginAct, Begin, Publish, Store, InjectFails, Send, Read, vars

\* Then those of what is stored, broadcast and received
LEMMA EventShapeStep ==
  ASSUME IInv, [Next]_vars
  PROVE  table' \subseteq Emissions /\ sent' \in Seq(Emissions) /\ got' \in [Streams -> Seq(Emissions)]
<1>. table \subseteq Emissions /\ sent \in Seq(Emissions) /\ got \in [Streams -> Seq(Emissions)]
  BY DEF IInv, Shape
<1>1. CASE UNCHANGED <<table, sent, got>>
  BY <1>1
<1>2. ASSUME NEW c \in Calls, Store(c) PROVE table' \subseteq Emissions /\ UNCHANGED <<sent, got>>
  BY <1>2, EventType DEF Store, IInv
<1>3. ASSUME NEW c \in Calls, Send(c)
      PROVE  sent' \in Seq(Emissions) /\ UNCHANGED <<table, got>>
  <2>1. Event(c) \in Emissions
    BY <1>3, EventType DEF Send, IInv
  <2>2. sent' = sent \/ sent' = Append(sent, Event(c))
    BY <1>3 DEF Send
  <2>3. Append(sent, Event(c)) \in Seq(Emissions)
    BY <2>1
  <2>. QED  BY <1>3, <2>2, <2>3 DEF Send
<1>4. ASSUME NEW u \in Streams, Receive(u)
      PROVE  got' \in [Streams -> Seq(Emissions)] /\ UNCHANGED <<table, sent>>
  <2>1. stream[u].next \in 1 .. Len(sent)
    BY <1>4 DEF Receive, Pending, IInv, StreamInv
  <2>2. Append(got[u], sent[stream[u].next]) \in Seq(Emissions)
    BY <2>1
  <2>3. \/ got' = [got EXCEPT ![u] = Append(@, sent[stream[u].next])]
        \/ got' = [got EXCEPT ![u] = @]
    BY <1>4 DEF Receive
  <2>. QED  BY <1>4, <2>2, <2>3 DEF Receive
<1>5. CASE Restart
  BY <1>5 DEF Restart
<1>. QED
  BY <1>1, <1>2, <1>3, <1>4, <1>5
  DEF Next, BeginCreate, BeginAct, Begin, Publish, InjectFails, Subscribe, Open, Read, Lag, vars

\* And the rest
LEMMA ShapeStep ==
  ASSUME IInv, [Next]_vars
  PROVE  Shape'
<1>1. live' \subseteq Calls
  <2>1. live \subseteq Calls /\ \A c \in Calls : call[c].at = "create" => call[c].session \in Calls
    BY DEF IInv, Shape, CallInv
  <2>2. ASSUME NEW c \in Calls, BeginCreate(c) \/ BeginAct(c) \/ Store(c) \/ Send(c)
        PROVE  live' = live
    BY <2>2 DEF BeginCreate, BeginAct, Begin, Store, Send
  <2>3. ASSUME NEW c \in Calls, Publish(c) \/ InjectFails(c) PROVE live' \subseteq Calls
    BY <2>1, <2>3 DEF Publish, InjectFails
  <2>4. ASSUME NEW u \in Streams, Subscribe(u) \/ Open(u) \/ Read(u) PROVE live' = live
    BY <2>4 DEF Subscribe, Open, Read, Receive, Lag
  <2>. QED  BY <2>1, <2>2, <2>3, <2>4 DEF Next, Restart, vars
<1>2. faults' \in 0 .. MaxFaults
  <2>1. faults \in 0 .. MaxFaults
    BY DEF IInv, Shape
  <2>2. ASSUME NEW c \in Calls, BeginCreate(c) \/ BeginAct(c) \/ Publish(c) \/ Send(c)
        PROVE  faults' = faults
    BY <2>2 DEF BeginCreate, BeginAct, Begin, Publish, Send
  <2>3. ASSUME NEW c \in Calls, Store(c) \/ InjectFails(c) PROVE faults' \in 0 .. MaxFaults
    BY <2>1, <2>3 DEF Store, InjectFails, Fault
  <2>4. ASSUME NEW u \in Streams, Subscribe(u) \/ Open(u) \/ Read(u) PROVE faults' = faults
    BY <2>4 DEF Subscribe, Open, Read, Receive, Lag
  <2>5. CASE Restart
    BY <2>1, <2>5 DEF Restart, Fault
  <2>. QED  BY <2>1, <2>2, <2>3, <2>4, <2>5 DEF Next, vars
<1>3. before' \in [Calls -> SUBSET Calls] /\ watch' \in [Calls -> SUBSET Streams]
  <2>1. ASSUME NEW c \in Calls, BeginCreate(c) \/ BeginAct(c)
        PROVE  before' \in [Calls -> SUBSET Calls] /\ watch' \in [Calls -> SUBSET Streams]
    <3>1. \E B \in SUBSET Calls, W \in SUBSET Streams :
            before' = [before EXCEPT ![c] = B] /\ watch' = [watch EXCEPT ![c] = W]
      <4>1. {d \in Calls : call[d].at = "answered"} \in SUBSET Calls
        OBVIOUS
      <4>2. \A s : {u \in Streams : stream[u].at = "open" /\ stream[u].of = s} \in SUBSET Streams
        OBVIOUS
      <4>. QED  BY <2>1, <4>1, <4>2 DEF BeginCreate, BeginAct, Begin
    <3>. QED  BY <3>1 DEF IInv, Shape
  <2>2. UNCHANGED <<before, watch>> \/ \E c \in Calls : BeginCreate(c) \/ BeginAct(c)
    BY DEF Next, Publish, Store, InjectFails, Send, Subscribe, Open, Read, Receive, Lag,
           Restart, vars
  <2>. QED  BY <2>1, <2>2 DEF IInv, Shape
<1>4. lagged' \subseteq Streams
  BY DEF Next, BeginCreate, BeginAct, Begin, Publish, Store, InjectFails, Send, Subscribe, Open,
         Read, Receive, Lag, Restart, vars, IInv, Shape
<1>. QED  BY <1>1, <1>2, <1>3, <1>4, CallShapeStep, StreamShapeStep, EventShapeStep DEF Shape

\* Every step keeps what is known of calls
LEMMA CallInvStep ==
  ASSUME IInv, Shape', [Next]_vars
  PROVE  CallInv'
<1>1. ASSUME NEW c \in Calls, BeginCreate(c) PROVE CallInv'
  BY <1>1, IInv, Shape', EventType DEF BeginCreate, Begin, IInv, Shape, CallShape,
       CallInv, Places, Event
<1>2. ASSUME NEW c \in Calls, Publish(c) PROVE CallInv'
  BY <1>2, IInv, Shape', EventType DEF Publish, IInv, Shape, CallShape, CallInv, Places,
       Event
<1>3. ASSUME NEW c \in Calls, BeginAct(c) PROVE CallInv'
  BY <1>3, IInv, Shape', EventType DEF BeginAct, Begin, IInv, Shape, CallShape, CallInv,
       Places, Event
<1>4. ASSUME NEW c \in Calls, Store(c) PROVE CallInv'
  <2>1. CASE table' = table \cup {Event(c)} /\ call' = [call EXCEPT ![c].at = "send"]
    <3>1. Event(c)' = Event(c)
      BY <1>4, <2>1 DEF Event, IInv, Shape
    <3>. QED  BY <1>4, <2>1, <3>1, IInv, Shape' DEF Store, IInv, Shape, CallInv, Places, Event
  <2>2. CASE table' = table /\ call' = [call EXCEPT ![c].at = "failed"]
    BY <1>4, <2>2, IInv, Shape' DEF Store, Fault, IInv, Shape, CallInv, Places, Event
  <2>. QED  BY <1>4, <2>1, <2>2 DEF Store
<1>5. ASSUME NEW c \in Calls, InjectFails(c) PROVE CallInv'
  BY <1>5, IInv, Shape', EventType DEF InjectFails, Fault, IInv, Shape, CallShape,
       CallInv, Places, Event
<1>6. ASSUME NEW c \in Calls, Send(c) PROVE CallInv'
  <2>1. call[c].done \in 0 .. 2 /\ call[c].emits \in 0 .. 2 /\ call[c].done < call[c].emits
    BY <1>6, CallType DEF Send, IInv, CallInv
  <2>2. /\ call'[c].session = call[c].session /\ call'[c].emits = call[c].emits
        /\ call'[c].done = call[c].done + 1
        /\ call'[c].at = IF call[c].done + 1 = call[c].emits THEN "answered" ELSE "emit"
        /\ \A d \in Calls \ {c} : call'[d] = call[d]
    BY <1>6 DEF Send, Emitted, IInv, Shape, CallShape
  <2>3. call[c].at = "send" /\ call[c].session \in Calls /\ UNCHANGED <<table, before>>
    BY <1>6 DEF Send, IInv, CallInv
  <2>4. \A n \in 1 .. call[c].done + 1 : [call |-> c, nth |-> n] \in table
    <3>1. [call |-> c, nth |-> call[c].done + 1] \in table
      BY <2>3 DEF IInv, CallInv, Event
    <3>2. \A n \in 1 .. call[c].done : [call |-> c, nth |-> n] \in table
      BY DEF IInv, CallInv
    <3>3. \A n \in 1 .. call[c].done + 1 : n \in 1 .. call[c].done \/ n = call[c].done + 1
      BY <2>1
    <3>. QED  BY <3>1, <3>2, <3>3
  <2>5. \A d \in Calls : \A b \in before[d] :
          b \in Calls /\ call[b].at = "answered" /\ call'[b].at = "answered"
    BY <2>2, <2>3 DEF IInv, Shape, CallInv
  <2>6. ASSUME NEW d \in Calls \ {c} PROVE Event(d)' = Event(d)
    BY <2>2 DEF Event
  <2>. QED  BY <2>1, <2>2, <2>3, <2>4, <2>5, <2>6 DEF IInv, CallInv
<1>7. ASSUME NEW u \in Streams, Subscribe(u) \/ Open(u) \/ Read(u) PROVE CallInv'
  BY <1>7, IInv DEF Subscribe, Open, Read, Receive, Lag, IInv, CallInv, Event
<1>8. CASE Restart
  BY <1>8, IInv, Shape' DEF Restart, IInv, Shape, CallShape, CallInv, Places, Event
<1>9. CASE UNCHANGED vars
  BY <1>9, IInv DEF vars, IInv, CallInv, Event
<1>. QED  BY <1>1, <1>2, <1>3, <1>4, <1>5, <1>6, <1>7, <1>8, <1>9 DEF Next

\* What a step may do to a stored event: nothing but to let its call go on
LEMMA StoredStays ==
  ASSUME IInv, [Next]_vars, NEW e \in table
  PROVE  /\ e \in table'
         /\ call'[e.call].emits = call[e.call].emits
         /\ call'[e.call].session = call[e.call].session
         /\ call[e.call].done <= call'[e.call].done
         /\ before'[e.call] = before[e.call]
<1>. e \in Emissions /\ e.call \in Calls /\ e.nth \in 1 .. 2 /\ e.nth <= call[e.call].emits
  BY DEF IInv, Shape, Emissions, TableInv
<1>. call[e.call].done \in 0 .. 2 /\ call[e.call].at # "idle"
  BY CallType DEF IInv, CallInv
<1>. call \in [Calls -> CallShape] /\ before \in [Calls -> SUBSET Calls]
  BY DEF IInv, Shape
<1>1. ASSUME NEW c \in Calls, BeginCreate(c) \/ BeginAct(c)
      PROVE  call'[e.call] = call[e.call] /\ before'[e.call] = before[e.call] /\ table' = table
  <2>1. c # e.call
    BY <1>1 DEF BeginCreate, BeginAct, Begin
  <2>2. \E r, b : call' = [call EXCEPT ![c] = r] /\ before' = [before EXCEPT ![c] = b]
    BY <1>1 DEF BeginCreate, BeginAct, Begin
  <2>. QED  BY <1>1, <2>1, <2>2 DEF BeginCreate, BeginAct, Begin
<1>2. ASSUME NEW c \in Calls, Publish(c) \/ Store(c) \/ InjectFails(c)
      PROVE  /\ e \in table' /\ before' = before
             /\ \E p \in {"emit", "send", "failed"} : call' = [call EXCEPT ![c].at = p]
  BY <1>2 DEF Publish, Store, InjectFails
<1>3. ASSUME NEW c \in Calls, NEW p \in {"emit", "send", "failed"}, call' = [call EXCEPT ![c].at = p]
      PROVE  /\ call'[e.call].emits = call[e.call].emits
             /\ call'[e.call].session = call[e.call].session
             /\ call'[e.call].done = call[e.call].done
  BY <1>3 DEF CallShape
<1>4. ASSUME NEW c \in Calls, Send(c)
      PROVE  /\ e \in table' /\ before' = before
             /\ call'[e.call].emits = call[e.call].emits
             /\ call'[e.call].session = call[e.call].session
             /\ call'[e.call].done \in {call[e.call].done, call[e.call].done + 1}
  BY <1>4 DEF Send, Emitted, CallShape
<1>5. ASSUME NEW u \in Streams, Subscribe(u) \/ Open(u) \/ Read(u)
      PROVE  UNCHANGED <<call, table, before>>
  BY <1>5 DEF Subscribe, Open, Read, Receive, Lag
<1>6. ASSUME Restart
      PROVE  /\ UNCHANGED <<table, before>>
             /\ call'[e.call].emits = call[e.call].emits
             /\ call'[e.call].session = call[e.call].session
             /\ call'[e.call].done = call[e.call].done
  BY <1>6 DEF Restart, CallShape
<1>7. CASE UNCHANGED vars
  BY <1>7 DEF vars
<1>. QED  BY <1>1, <1>2, <1>3, <1>4, <1>5, <1>6, <1>7, SMTT(20) DEF Next

\* Every step keeps that stored events are their calls'
LEMMA TableInvStep ==
  ASSUME IInv, Shape', CallInv', [Next]_vars
  PROVE  TableInv'
<1>1. ASSUME NEW e \in table PROVE e.nth <= call'[e.call].emits
  BY <1>1, StoredStays DEF IInv, TableInv
<1>2. CASE table' = table
  BY <1>1, <1>2 DEF TableInv
<1>3. ASSUME NEW c \in Calls, Store(c), table' = table \cup {Event(c)} PROVE TableInv'
  <2>1. Event(c).nth = call[c].done + 1 /\ Event(c).call = c
    BY <1>3, EventType DEF Store, IInv
  <2>2. /\ call[c].done \in 0 .. 2 /\ call[c].emits \in 0 .. 2 /\ call[c].done < call[c].emits
        /\ call'[c].emits = call[c].emits
    BY <1>3, CallType DEF Store, IInv, Shape, CallShape, CallInv
  <2>. QED  BY <1>1, <1>3, <2>1, <2>2 DEF TableInv
<1>4. table' = table \/ \E c \in Calls : Store(c) /\ table' = table \cup {Event(c)}
  BY DEF Next, BeginCreate, BeginAct, Begin, Publish, Store, InjectFails, Send, Subscribe, Open,
         Read, Receive, Lag, Restart, vars
<1>. QED  BY <1>2, <1>3, <1>4

\* The steps that change the channel or a stream
LEMMA StreamSteps ==
  ASSUME [Next]_vars
  PROVE  \/ UNCHANGED <<sent, stream, got>>
         \/ \E c \in Calls : Send(c)
         \/ \E u \in Streams : Subscribe(u) \/ Open(u) \/ Receive(u) \/ Lag(u)
         \/ Restart
  BY DEF Next, BeginCreate, BeginAct, Begin, Publish, Store, InjectFails, Read, vars

\* What was told stays told
LEMMA ToldStays ==
  ASSUME IInv, Shape', [Next]_vars, NEW e \in Emissions, Told(e)
  PROVE  /\ e \in table' /\ e.nth <= call'[e.call].done
         /\ call'[e.call].session = call[e.call].session
         /\ before'[e.call] = before[e.call]
<1>1. e \in table /\ e.call \in Calls /\ e.nth \in 1 .. 2 /\ e.nth <= call[e.call].done
  BY DEF Told, Emissions
<1>2. call[e.call].done \in 0 .. 2 /\ call'[e.call].done \in 0 .. 2
  BY <1>1 DEF IInv, Shape, CallShape
<1>3. call[e.call].done <= call'[e.call].done
  BY <1>1, StoredStays
<1>. QED  BY <1>1, <1>2, <1>3, StoredStays

\* The second half of emit_event
LEMMA Sending ==
  ASSUME IInv, NEW c \in Calls, Send(c)
  PROVE  /\ Event(c) \in Emissions /\ Event(c).call = c /\ Event(c) \in table
         /\ Event(c).nth = call[c].done + 1 /\ call[c].done \in 0 .. 2
         /\ call'[c].done = call[c].done + 1
         /\ call[c].at = "send"
         /\ UNCHANGED <<table, before, stream, got>>
         /\ sent' = sent \/ sent' = Append(sent, Event(c))
<1>1. call[c].at = "send" /\ Event(c) \in table
  BY DEF Send, IInv, CallInv
<1>2. call[c].done \in 0 .. 2 /\ call'[c].done = call[c].done + 1
  BY CallType DEF Send, Emitted, IInv, Shape, CallShape
<1>. QED  BY <1>1, <1>2, EventType DEF Send, IInv

\* What Append does
LEMMA Appended ==
  ASSUME NEW S, NEW seq \in Seq(S), NEW e \in S
  PROVE  /\ Len(Append(seq, e)) = Len(seq) + 1 /\ Len(seq) \in Nat
         /\ Append(seq, e)[Len(seq) + 1] = e
         /\ \A i \in 1 .. Len(seq) : Append(seq, e)[i] = seq[i]
         /\ \A i \in 1 .. Len(seq) + 1 : i \in 1 .. Len(seq) \/ i = Len(seq) + 1
  OBVIOUS

\* Every step keeps what is known of streams
LEMMA StreamInvStep ==
  ASSUME IInv, Shape', CallInv', [Next]_vars
  PROVE  StreamInv'
<1>. USE DEF Told
<1>1. \A k \in 1 .. Len(sent) :
        sent[k] \in Emissions /\ sent[k] \in table' /\ sent[k].nth <= call'[sent[k].call].done
  BY ToldStays DEF IInv, Shape, StreamInv
<1>2. \A u \in Streams : \A i \in 1 .. Len(got[u]) :
        LET e == got[u][i]
        IN  e \in Emissions /\ e \in table' /\ e.nth <= call'[e.call].done
            /\ call'[e.call].session = stream[u].of
  BY ToldStays DEF IInv, Shape, StreamInv
<1>3. CASE UNCHANGED <<sent, stream, got>>
  BY <1>1, <1>2, <1>3 DEF IInv, StreamInv
<1>4. ASSUME NEW c \in Calls, Send(c) PROVE StreamInv'
  <2>1. Event(c) \in table' /\ Event(c).nth <= call'[Event(c).call].done
    BY <1>4, Sending
  <2>2. CASE sent' = Append(sent, Event(c))
    <3>1. /\ Len(sent') = Len(sent) + 1
          /\ \A k \in 1 .. Len(sent') : \/ k \in 1 .. Len(sent) /\ sent'[k] = sent[k]
                                        \/ sent'[k] = Event(c)
      BY <1>4, <2>2, Sending, Appended DEF IInv, Shape
    <3>2. \A k \in 1 .. Len(sent') : Told(sent[k])'
      BY <1>1, <2>1, <3>1
    <3>3. Len(sent) \in Nat
      BY DEF IInv, Shape
    <3>. QED  BY <1>2, <1>4, <3>1, <3>2, <3>3, Sending DEF IInv, StreamInv
  <2>3. CASE sent' = sent
    BY <1>1, <1>2, <1>4, <2>3, Sending DEF IInv, StreamInv
  <2>. QED  BY <1>4, <2>2, <2>3, Sending
<1>5. ASSUME NEW u \in Streams, Subscribe(u) PROVE StreamInv'
  BY <1>1, <1>2, <1>5 DEF Subscribe, IInv, Shape, StreamInv
<1>6. ASSUME NEW u \in Streams, Open(u) PROVE StreamInv'
  BY <1>1, <1>2, <1>6 DEF Open, IInv, Shape, StreamInv
<1>7. ASSUME NEW u \in Streams, Receive(u) PROVE StreamInv'
  <2>. DEFINE e == sent[stream[u].next]
  <2>1. stream[u].next \in 1 .. Len(sent)
    BY <1>7 DEF Receive, Pending, IInv, Shape, StreamInv
  <2>2. e \in Emissions /\ e \in table' /\ e.nth <= call'[e.call].done /\ call' = call
    BY <1>1, <1>7, <2>1 DEF Receive
  <2>3. /\ sent' = sent /\ stream[u].at = "open" /\ stream'[u].at = "open"
        /\ stream'[u].next = stream[u].next + 1
        /\ \A v \in Streams : stream'[v].of = stream[v].of
        /\ \A v \in Streams \ {u} : stream'[v] = stream[v]
    BY <1>7 DEF Receive, Pending, IInv, Shape, StreamShape
  <2>4. \A k \in 1 .. Len(sent') : Told(sent[k])'
    BY <1>1, <2>3
  <2>5. stream'[u].next \in 1 .. Len(sent') + 1
    BY <2>1, <2>3 DEF IInv, Shape
  <2>6. CASE got' = [got EXCEPT ![u] = Append(@, e)] /\ call[e.call].session = stream[u].of
    <3>1. /\ \A i \in 1 .. Len(got'[u]) : \/ i \in 1 .. Len(got[u]) /\ got'[u][i] = got[u][i]
                                          \/ got'[u][i] = e
          /\ \A v \in Streams \ {u} : got'[v] = got[v]
      BY <2>2, <2>6, Appended DEF IInv, Shape
    <3>2. \A v \in Streams : \A i \in 1 .. Len(got'[v]) :
            Told(got[v][i])' /\ call'[got'[v][i].call].session = stream'[v].of
      BY <1>2, <2>2, <2>3, <2>6, <3>1
    <3>. QED  BY <2>3, <2>4, <2>5, <3>1, <3>2 DEF IInv, StreamInv
  <2>7. CASE got' = got
    <3>1. \A v \in Streams : \A i \in 1 .. Len(got'[v]) :
            Told(got[v][i])' /\ call'[got'[v][i].call].session = stream'[v].of
      BY <1>2, <2>2, <2>3, <2>7
    <3>. HIDE DEF e
    <3>. QED  BY <2>3, <2>4, <2>5, <2>7, <3>1 DEF IInv, StreamInv
  <2>. QED  BY <1>7, <2>6, <2>7 DEF Receive, IInv, Shape
<1>8. ASSUME NEW u \in Streams, Lag(u) PROVE StreamInv'
  <2>1. Oldest \in 1 .. Len(sent) + 1
    BY DEF Oldest, IInv, Shape
  <2>. QED  BY <1>1, <1>2, <1>8, <2>1 DEF Lag, Pending, IInv, Shape, StreamInv
<1>9. CASE Restart
  <2>1. \A u \in Streams : /\ stream'[u].of = stream[u].of /\ stream'[u].at \notin Following
                           /\ stream'[u].at = "off" => stream[u].at = "off"
    BY <1>9 DEF Restart, Receivers, IInv, Shape, StreamShape
  <2>2. sent' = <<>> /\ got' = got
    BY <1>9 DEF Restart
  <2>. QED  BY <1>2, <2>1, <2>2 DEF IInv, StreamInv
<1>. QED  BY <1>3, <1>4, <1>5, <1>6, <1>7, <1>8, <1>9, StreamSteps

\* Every step keeps the order of events
LEMMA OrderInvStep ==
  ASSUME IInv, Shape', CallInv', [Next]_vars
  PROVE  OrderInv'
<1>1. \A k \in 1 .. Len(sent) : sent[k] \in Emissions /\ Told(sent[k])
  BY DEF IInv, Shape, StreamInv
<1>2. \A u \in Streams : \A i \in 1 .. Len(got[u]) : got[u][i] \in Emissions /\ Told(got[u][i])
  BY DEF IInv, Shape, StreamInv
<1>3. \A e \in Emissions : Told(e) => before'[e.call] = before[e.call]
  BY ToldStays
<1>4. CASE UNCHANGED <<sent, stream, got>>
  BY <1>1, <1>2, <1>3, <1>4 DEF IInv, OrderInv, InOrder
<1>5. ASSUME NEW c \in Calls, Send(c) PROVE OrderInv'
  <2>1. ASSUME NEW e \in Emissions, Told(e) PROVE InOrder(e, Event(c))
    <3>1. e.call \in Calls /\ e.nth \in 1 .. 2 /\ e.nth <= call[e.call].done
      BY <2>1 DEF Emissions, Told
    <3>2. c \notin before[e.call]
      BY <1>5, <3>1, Sending DEF IInv, CallInv
    <3>. QED  BY <1>5, <3>1, <3>2, Sending DEF InOrder
  <2>2. CASE sent' = Append(sent, Event(c))
    <3>1. /\ Len(sent') = Len(sent) + 1 /\ Len(sent) \in Nat
          /\ \A k \in 1 .. Len(sent) : sent'[k] = sent[k]
          /\ sent'[Len(sent) + 1] = Event(c)
      BY <1>5, <2>2, Sending, Appended DEF IInv, Shape
    <3>2. ASSUME NEW i \in 1 .. Len(sent'), NEW k \in 1 .. Len(sent'), i < k
          PROVE  InOrder(sent'[i], sent'[k])
      <4>1. i \in 1 .. Len(sent) /\ sent'[i] = sent[i]
        BY <3>1, <3>2
      <4>2. CASE k \in 1 .. Len(sent)
        BY <3>1, <3>2, <4>1, <4>2 DEF IInv, OrderInv
      <4>3. CASE k = Len(sent) + 1
        BY <1>1, <2>1, <3>1, <4>1, <4>3
      <4>. QED  BY <3>1, <4>2, <4>3
    <3>3. ASSUME NEW u \in Streams, stream[u].at \in Following,
                 NEW i \in 1 .. Len(got[u]), NEW k \in 1 .. Len(sent'), stream[u].next <= k
          PROVE  InOrder(got[u][i], sent'[k])
      <4>1. CASE k \in 1 .. Len(sent)
        BY <3>1, <3>3, <4>1 DEF IInv, OrderInv
      <4>2. CASE k = Len(sent) + 1
        BY <1>2, <2>1, <3>1, <4>2
      <4>. QED  BY <3>1, <4>1, <4>2
    <3>. QED  BY <1>5, <3>2, <3>3, Sending DEF IInv, OrderInv, InOrder
  <2>3. CASE sent' = sent
    BY <1>5, <2>3, Sending DEF IInv, OrderInv, InOrder
  <2>. QED  BY <1>5, <2>2, <2>3, Sending
<1>6. ASSUME NEW u \in Streams, Subscribe(u) PROVE OrderInv'
  BY <1>6 DEF Subscribe, IInv, Shape, StreamInv, OrderInv, InOrder
<1>7. ASSUME NEW u \in Streams, Open(u) PROVE OrderInv'
  BY <1>7 DEF Open, IInv, Shape, OrderInv, InOrder
<1>8. ASSUME NEW u \in Streams, Receive(u) PROVE OrderInv'
  <2>. DEFINE n == stream[u].next
              e == sent[n]
  <2>1. n \in 1 .. Len(sent) /\ stream[u].at \in Following /\ e \in Emissions
    BY <1>1, <1>8 DEF Receive, Pending, IInv, StreamInv
  <2>2. /\ before' = before /\ sent' = sent
        /\ stream'[u].next = n + 1
        /\ \A v \in Streams : stream'[v].at = stream[v].at
        /\ \A v \in Streams \ {u} : stream'[v] = stream[v]
    BY <1>8 DEF Receive, IInv, Shape, StreamShape
  <2>3. Len(sent) \in Nat
    BY DEF IInv, Shape
  <2>4. \A i \in 1 .. Len(got[u]) : InOrder(got[u][i], e)
    BY <2>1 DEF IInv, OrderInv
  <2>5. \A k \in 1 .. Len(sent) : n + 1 <= k =>
          /\ InOrder(e, sent[k])
          /\ \A i \in 1 .. Len(got[u]) : InOrder(got[u][i], sent[k])
    <3>. SUFFICES ASSUME NEW k \in 1 .. Len(sent), n + 1 <= k
                  PROVE  /\ InOrder(e, sent[k])
                         /\ \A i \in 1 .. Len(got[u]) : InOrder(got[u][i], sent[k])
      OBVIOUS
    <3>1. n < k /\ n <= k
      BY <2>1, <2>3
    <3>. QED  BY <2>1, <3>1 DEF IInv, OrderInv
  <2>6. CASE got' = [got EXCEPT ![u] = Append(@, e)]
    <3>. DEFINE old == Len(got[u])
    <3>1. /\ Len(got'[u]) = old + 1 /\ old \in Nat
          /\ \A i \in 1 .. old : got'[u][i] = got[u][i]
          /\ got'[u][old + 1] = e
          /\ \A v \in Streams \ {u} : got'[v] = got[v]
      BY <2>1, <2>6, Appended DEF IInv, Shape
    <3>2. ASSUME NEW i \in 1 .. Len(got'[u]), NEW k \in 1 .. Len(got'[u]), i < k
          PROVE  InOrder(got'[u][i], got'[u][k])
      <4>1. i \in 1 .. old /\ got'[u][i] = got[u][i]
        BY <3>1, <3>2
      <4>2. CASE k \in 1 .. old
        BY <3>1, <3>2, <4>1, <4>2 DEF IInv, OrderInv
      <4>3. CASE k = old + 1
        BY <2>4, <3>1, <4>1, <4>3
      <4>. QED  BY <3>1, <4>2, <4>3
    <3>3. ASSUME NEW i \in 1 .. Len(got'[u]), NEW k \in 1 .. Len(sent), n + 1 <= k
          PROVE  InOrder(got'[u][i], sent[k])
      <4>1. i \in 1 .. old \/ i = old + 1
        BY <3>1
      <4>. QED  BY <2>5, <3>1, <3>3, <4>1
    <3>4. /\ \A i, k \in 1 .. Len(got'[u]) : i < k => InOrder(got'[u][i], got'[u][k])
          /\ \A i \in 1 .. Len(got'[u]), k \in 1 .. Len(sent) :
               n + 1 <= k => InOrder(got'[u][i], sent[k])
      BY <3>2, <3>3
    <3>. HIDE DEF old, n, e
    <3>5. \A v \in Streams \ {u} :
            /\ \A i, k \in 1 .. Len(got'[v]) : i < k => InOrder(got'[v][i], got'[v][k])
            /\ stream'[v].at \in Following =>
                 \A i \in 1 .. Len(got'[v]), k \in 1 .. Len(sent) :
                   stream'[v].next <= k => InOrder(got'[v][i], sent[k])
      <4>1. \A v \in Streams \ {u} : got'[v] = got[v] /\ stream'[v] = stream[v]
        BY <2>2, <3>1
      <4>. QED  BY <4>1 DEF IInv, OrderInv
    <3>6. \A i, k \in 1 .. Len(sent) : i < k => InOrder(sent[i], sent[k])
      BY DEF IInv, OrderInv
    <3>. QED  BY <2>2, <3>4, <3>5, <3>6 DEF OrderInv, InOrder
  <2>7. CASE got' = got
    <3>. HIDE DEF n, e
    <3>. QED  BY <2>2, <2>5, <2>7 DEF IInv, OrderInv, InOrder
  <2>. QED  BY <1>8, <2>6, <2>7 DEF Receive, IInv, Shape
<1>9. ASSUME NEW u \in Streams, Lag(u) PROVE OrderInv'
  <2>1. /\ stream[u].next < Oldest /\ stream[u].next \in Nat /\ Oldest \in Nat /\ Len(sent) \in Nat
        /\ stream'[u].next = Oldest
        /\ \A v \in Streams : stream'[v].at = stream[v].at
        /\ \A v \in Streams \ {u} : stream'[v] = stream[v]
        /\ UNCHANGED <<sent, got, before>>
    BY <1>9 DEF Lag, Oldest, IInv, Shape, StreamShape
  <2>2. \A k \in 1 .. Len(sent) : Oldest <= k => stream[u].next <= k
    BY <2>1
  <2>. QED  BY <2>1, <2>2 DEF IInv, OrderInv, InOrder
<1>10. CASE Restart
  <2>1. \A u \in Streams : stream'[u].at \notin Following
    BY <1>10 DEF Restart, Receivers, IInv, Shape, StreamShape
  <2>2. sent' = <<>> /\ got' = got /\ before' = before
    BY <1>10 DEF Restart
  <2>. QED  BY <2>1, <2>2 DEF IInv, OrderInv, InOrder
<1>. QED  BY <1>4, <1>5, <1>6, <1>7, <1>8, <1>9, <1>10, StreamSteps

\* Every step preserves the inductive invariant
LEMMA NextInv == IInv /\ [Next]_vars => IInv'
<1>. SUFFICES ASSUME IInv, [Next]_vars PROVE IInv'
  OBVIOUS
<1>1. Shape'  BY ShapeStep
<1>2. CallInv'  BY <1>1, CallInvStep
<1>. QED  BY <1>1, <1>2, TableInvStep, StreamInvStep, OrderInvStep DEF IInv

\* The inductive invariant holds in every reachable state
LEMMA Invariant == Spec => []IInv
  BY InitInv, NextInv, PTL DEF Spec

-----------------------------------------------------------------------------
\* Every event that is stored, broadcast or received is one its call emits, calls answer
\* after the last of theirs, and a stream stands within what was broadcast.
THEOREM TypeCorrect == Spec => []TypeOK
<1>1. IInv => TypeOK
  <2>. SUFFICES ASSUME IInv PROVE TypeOK
    OBVIOUS
  <2>1. \A e \in table : e \in UNION {EventsOf(c) : c \in Calls}
    <3>. SUFFICES ASSUME NEW e \in table PROVE e \in EventsOf(e.call) /\ e.call \in Calls
      OBVIOUS
    <3>. QED  BY DEF EventsOf, IInv, Shape, TableInv, Emissions
  <2>2. \A k \in 1 .. Len(sent) : sent[k] \in table
    BY DEF IInv, StreamInv, Told
  <2>3. \A u \in Streams : \A i \in 1 .. Len(got[u]) : got[u][i] \in table
    BY DEF IInv, StreamInv, Told
  <2>4. ToSet(sent) \subseteq table /\ \A u \in Streams : ToSet(got[u]) \subseteq table
    BY <2>2, <2>3 DEF ToSet, IInv, Shape
  <2>5. \A c \in Calls : call[c] \in CallShape
    BY DEF IInv, Shape
  <2>6. \A u \in Streams : stream[u] \in StreamShape
    BY DEF IInv, Shape
  <2>7. table \cup ToSet(sent) \subseteq UNION {EventsOf(c) : c \in Calls}
    BY <2>1, <2>4
  <2>8. \A u \in Streams : ToSet(got[u]) \subseteq UNION {EventsOf(c) : c \in Calls}
    BY <2>1, <2>4
  <2>. QED  BY <2>5, <2>6, <2>7, <2>8
            DEF TypeOK, IInv, Shape, CallShape, StreamShape, CallInv, StreamInv, Places
<1>. QED  BY <1>1, Invariant, PTL

\* The events of an answered call are in the table, and nothing is broadcast that is not:
\* an event's insert comes first, and its call fails with it.
THEOREM AnsweredIsStored == Spec => []TableTells
<1>1. IInv => TableTells
  <2>. SUFFICES ASSUME IInv PROVE TableTells
    OBVIOUS
  <2>1. ToSet(sent) \subseteq table
    BY DEF ToSet, IInv, Shape, StreamInv, Told
  <2>2. ASSUME NEW c \in Calls, call[c].at = "answered", NEW e \in EventsOf(c)
        PROVE  e \in table
    <3>1. e = [call |-> c, nth |-> e.nth] /\ e.nth \in 1 .. call[c].done
      BY <2>2 DEF EventsOf, IInv, CallInv
    <3>. QED  BY <2>2, <3>1 DEF IInv, CallInv
  <2>. QED  BY <2>1, <2>2 DEF TableTells
<1>. QED  BY <1>1, Invariant, PTL

\* Streams carry stored events of their own session, each once and in an order that no client
\* can contradict: a gap skips events and never turns them around.
THEOREM StreamsAreFaithful == Spec => []StreamFaithful
<1>1. IInv => StreamFaithful
  <2>. SUFFICES ASSUME IInv, NEW u \in Streams
                PROVE  /\ ~Reversed(got[u])
                       /\ \A e \in ToSet(got[u]) : e \in table /\ call[e.call].session = stream[u].of
    BY DEF StreamFaithful
  <2>1. got[u] \in Seq(Emissions)
    BY DEF IInv, Shape
  <2>2. \A i \in 1 .. Len(got[u]) :
          got[u][i] \in table /\ call[got[u][i].call].session = stream[u].of
    BY DEF IInv, StreamInv, Told
  <2>3. \A i, k \in 1 .. Len(got[u]) : i < k => InOrder(got[u][i], got[u][k])
    BY DEF IInv, OrderInv
  <2>4. ~Reversed(got[u])
    <3>1. ASSUME NEW i \in 1 .. Len(got[u]), NEW k \in 1 .. Len(got[u]), i < k
          PROVE  /\ got[u][k].call \notin before[got[u][i].call]
                 /\ got[u][i].call = got[u][k].call => ~(got[u][i].nth >= got[u][k].nth)
      <4>1. InOrder(got[u][i], got[u][k])
        BY <2>3, <3>1
      <4>2. got[u][i].nth \in 1 .. 2 /\ got[u][k].nth \in 1 .. 2
        <5>1. got[u][i] \in Emissions /\ got[u][k] \in Emissions
          BY <2>1, <3>1
        <5>. QED  BY <5>1 DEF Emissions
      <4>. QED  BY <4>1, <4>2 DEF InOrder
    <3>2. DOMAIN got[u] = 1 .. Len(got[u])
      BY <2>1
    <3>. QED  BY <3>1, <3>2 DEF Reversed
  <2>. QED  BY <2>1, <2>2, <2>4 DEF ToSet
<1>. QED  BY <1>1, Invariant, PTL
=============================================================================
