-------------------------- MODULE CdpExchangeProofs --------------------------
(***************************************************************************)
(* Proofs about CdpExchange, for any number of calls on a session, any     *)
(* pages, identities and patience, and any number of mishaps.              *)
(***************************************************************************)
EXTENDS CdpExchange, SequenceTheorems, TLAPS

-----------------------------------------------------------------------------
\* The data: identities a command line can give, what the gateway makes of them,
\* and what is sent and received
Rows == {None} \cup {BuildProfileIdentity(o) : o \in Options}
Faces == {None} \cup {ResolveEffectiveIdentity(r, DefaultStealth) : r \in Rows}
Actions == {"navigate", "evaluate"}
Preparing == {"attachToTarget"} \cup OverrideMethods
Methods == {"createTarget", "navigate", "evaluate", "setCookies", "getCookies"} \cup Preparing
Payloads == {None, Blank, "document.readyState", "location.href", "expression"} \cup Calls \cup Pages
            \cup {Params(f, m) : f \in Faces, m \in OverrideMethods}
Values == {None, Blank, "loading", "interactive", "complete", "child", "other"} \cup Pages

Requests == [method : Methods, params : Payloads]
Wires == [id : Nat, method : Methods, params : Payloads]
Frames == [id : Nat, answers : Methods \cup {"nothing"}, ok : BOOLEAN, value : Values]
Conns == [to : {"nobody", "child", "other"}, id : Nat, todo : Seq(Requests), wire : Seq(Wires),
          in : Seq(Frames)]
Tasks == [kind : Kinds \cup {None}, want : Pages \cup {Blank}, until : {"domcontentloaded", "load"},
          tgt : Calls \cup {None}, face : Faces, left : 0 .. Patience, met : SUBSET Met]


\* The browser and its port, and what the browser shows
LaunchInv ==
  /\ life \in {"picked", "waiting", "ready", "failed"} /\ tries \in 0 .. Patience
  /\ child \in {"none", "booting", "serving", "exited"}
  /\ listener \in {"nobody", "child", "other"}
  /\ listener = "child" <=> child = "serving"
  /\ life = "picked" <=> child = "none"
  /\ life = "failed" => child = "exited"
  /\ listener = "other" => foreign
  /\ row \in Rows /\ cached \in Calls \cup {None} /\ mishaps \in 0 .. MaxMishaps

WebInv ==
  /\ page \in [Calls -> Pages \cup {Blank}]
  /\ ready \in [Calls -> {"loading", "interactive", "complete"}]
  /\ owner \in [Calls -> {"nobody", "child", "other"}]
  /\ overrides \in [Calls -> [OverrideMethods -> Payloads]]

CallsInv ==
  /\ at \in [Calls -> Running \cup {"told", "failed", "idle"}]
  /\ conn \in [Calls -> Conns] /\ task \in [Calls -> Tasks]
  /\ told \in [Calls -> Values \cup {"no cookies"}]

\* A call knows something, and has a connection, only while it runs; a connection
\* that is lost was to a child that is gone
Place(c) ==
  /\ IF at[c] \in Running THEN task[c].kind \in Kinds ELSE task[c] = NoTask
  /\ IF at[c] \in Conversing THEN conn[c].todo # <<>> ELSE conn[c] = NoConn
  /\ at[c] \in Conversing /\ conn[c].to = "nobody" => child = "exited"
  /\ at[c] # "idle" => life = "ready"

\* The requests a call still has to make
Left(c) == Len(conn[c].todo)
Ahead(c) == IF task[c].kind = "navigate" THEN 3 ELSE 1

Shape(c) ==
  /\ at[c] \in Running \ {"talk"} => task[c].kind \in Actions
  /\ at[c] = "target" => conn[c].todo = <<Request("createTarget", None)>>
  /\ at[c] \in {"identity", "attach"} => task[c].tgt \in Calls
  /\ at[c] = "talk" /\ task[c].kind \notin Actions =>
       conn[c].todo = <<Request(StorageMethod[task[c].kind], None)>>
  /\ at[c] = "talk" /\ task[c].kind \in Actions =>
       /\ task[c].tgt \in Calls
       /\ \A i \in 1 .. Left(c) - Ahead(c) : conn[c].todo[i].method \in Preparing
  /\ at[c] = "talk" /\ task[c].kind = "evaluate" => conn[c].todo[Left(c)] = Evaluate("expression")
  /\ at[c] = "talk" /\ task[c].kind = "navigate" =>
       /\ conn[c].todo[Left(c)] = Evaluate("location.href")
       /\ Left(c) > 1 => conn[c].todo[Left(c) - 1] = ReadyState
       /\ Left(c) > 2 => conn[c].todo[Left(c) - 2] = Request("navigate", task[c].want)

\* One request at a time is on its way, and a frame with its id answers it
Elements(s) == {s[i] : i \in 1 .. Len(s)}
Inbox(c) == Elements(conn[c].in)
Replied(c) == \E f \in Inbox(c) : f.id = conn[c].id

Turn(c) ==
  at[c] \in Conversing =>
    /\ conn[c].id > 0
    /\ conn[c].wire = <<>> \/ (conn[c].wire = <<Sent(conn[c].id, conn[c].todo)>> /\ ~Replied(c))
    /\ \A f \in Inbox(c) : /\ f.id <= conn[c].id
                           /\ f.id = conn[c].id => f.answers = Doing(c).method
                           /\ f.answers = "getCookies" /\ f.ok => f.value \in {"child", "other"}

Call(c) == Place(c) /\ Shape(c) /\ Turn(c)

CoreInv == LaunchInv /\ WebInv /\ CallsInv /\ \A c \in Calls : Call(c)

LEMMA CoreTypes == CoreInv => TypeOK
<1> SUFFICES ASSUME CoreInv
             PROVE  TypeOK
  OBVIOUS
<1>1. ASSUME NEW c \in Calls
      PROVE  /\ task[c].want \in Pages \cup {Blank} /\ task[c].until \in {"domcontentloaded", "load"}
             /\ task[c].tgt \in Calls \cup {None} /\ task[c].left \in 0 .. Patience
             /\ task[c].met \subseteq Met
             /\ conn[c].to \in {"nobody", "child", "other"} /\ conn[c].id \in Nat
  BY DEF CoreInv, CallsInv, Tasks, Conns
<1>2. \A c \in Calls : at[c] \in Conversing <=> conn[c].todo # <<>>
  BY DEF CoreInv, Call, Place, NoConn
<1> QED
  BY <1>1, <1>2 DEF CoreInv, LaunchInv, WebInv, CallsInv, Call, Place, TypeOK

-----------------------------------------------------------------------------
\* What a call is doing says who it is and how far it has come
LEMMA DoingWhat ==
  ASSUME CoreInv, NEW c \in Calls, at[c] \in Conversing
  PROVE  /\ Doing(c) \in Requests
         /\ Doing(c).method = "createTarget" <=> at[c] = "target"
         /\ Doing(c).method \in Preparing \cup Actions =>
              at[c] = "talk" /\ task[c].kind \in Actions /\ task[c].tgt \in Calls
         /\ Doing(c).method = "navigate" =>
              task[c].kind = "navigate" /\ Left(c) = 3 /\ Doing(c).params = task[c].want
         /\ task[c].kind = "navigate" /\ at[c] = "talk" =>
              /\ Left(c) > 3 <=> Doing(c).method \in Preparing
              /\ Left(c) = 3 <=> Doing(c).method = "navigate"
              /\ Left(c) = 2 <=> Doing(c) = ReadyState
              /\ Left(c) = 1 <=> Doing(c) = Evaluate("location.href")
         /\ Doing(c).method \in {"setCookies", "getCookies"} <=>
              at[c] = "talk" /\ task[c].kind \in {"inject", "fetch"}
         /\ task[c].kind = "fetch" => Doing(c).method = "getCookies" /\ Left(c) = 1
         /\ task[c].kind = "inject" => Left(c) = 1
         /\ Left(c) \in Nat \ {0}
<1>1. conn[c].todo \in Seq(Requests) /\ conn[c].todo # <<>>
  BY DEF CoreInv, CallsInv, Call, Place, Conns
<1>2. Left(c) \in Nat \ {0} /\ Doing(c) = conn[c].todo[1] /\ Doing(c) \in Requests
  BY <1>1 DEF Left, Doing
<1>3. Shape(c) /\ task[c].kind \in Kind
  BY ScopeAssumption DEF CoreInv, Call, Place, Conversing, Running
<1>4. CASE at[c] = "target"
  BY <1>2, <1>3, <1>4 DEF Shape, Request, Actions, Preparing, OverrideMethods, Running
<1>5. CASE at[c] = "talk" /\ task[c].kind \notin Actions
  <2>1. /\ task[c].kind \in {"inject", "fetch"}
        /\ task[c].kind = "inject" => conn[c].todo = <<Request("setCookies", None)>>
        /\ task[c].kind = "fetch" => conn[c].todo = <<Request("getCookies", None)>>
    BY <1>3, <1>5 DEF Shape, Actions, Kind, StorageMethod
  <2>2. Doing(c).method = IF task[c].kind = "inject" THEN "setCookies" ELSE "getCookies"
    BY <1>2, <2>1 DEF Request
  <2>3. Left(c) = 1
    BY <2>1 DEF Left
  <2> QED
    BY <1>2, <1>5, <2>1, <2>2, <2>3 DEF Actions, Preparing, OverrideMethods
<1>6. CASE at[c] = "talk" /\ task[c].kind = "evaluate"
  BY <1>2, <1>3, <1>6 DEF Shape, Request, Actions, Preparing, OverrideMethods, Evaluate, Ahead
<1>7. CASE at[c] = "talk" /\ task[c].kind = "navigate"
  BY <1>2, <1>3, <1>7 DEF Shape, Request, Actions, Preparing, OverrideMethods, Evaluate, Ahead, ReadyState
<1> QED
  BY <1>4, <1>5, <1>6, <1>7 DEF Conversing, Actions


\* A call whose place, connection and purpose a step leaves alone
Kept(c) ==
  /\ at'[c] = at[c] /\ conn'[c] = conn[c]
  /\ at[c] \notin Running => task'[c] = task[c]
  /\ task'[c].kind = task[c].kind /\ task'[c].tgt = task[c].tgt /\ task'[c].want = task[c].want

LEMMA CallKept ==
  ASSUME NEW c \in Calls, Call(c), Kept(c),
         child = "exited" => child' = "exited", life = "ready" => life' = "ready"
  PROVE  Call(c)'
<1>1. Place(c)'
  BY DEF Call, Kept, Place
<1>2. Shape(c)'
  BY DEF Call, Kept, Shape, Left, Ahead
<1>3. Turn(c)'
  BY DEF Call, Kept, Turn, Inbox, Replied, Doing
<1> QED
  BY <1>1, <1>2, <1>3 DEF Call

\* A step of one call
LEMMA OneCall ==
  ASSUME CoreInv, NEW c \in Calls, UNCHANGED <<launchVars, row, foreign>>,
         cached' \in Calls \cup {None}, mishaps' \in 0 .. MaxMishaps, WebInv', CallsInv',
         \A d \in Calls : d # c => Kept(d), Call(c)'
  PROVE  CoreInv'
<1>1. LaunchInv'
  BY DEF CoreInv, LaunchInv, launchVars
<1>2. \A d \in Calls : Call(d)'
  BY CallKept DEF CoreInv, launchVars
<1> QED
  BY <1>1, <1>2 DEF CoreInv

-----------------------------------------------------------------------------
\* The browser process and its port
LEMMA CoreLaunch ==
  ASSUME CoreInv, Spawn \/ Connected \/ Retry \/ ChildBinds \/ OtherBinds
  PROVE  CoreInv'
<1> USE DEF CoreInv, histVars, callVars, webVars, besideLaunch
<1>1. UNCHANGED <<at, task, conn, told, page, ready, owner, overrides>>
  BY DEF Spawn, Connected, Retry, ChildBinds, OtherBinds
<1>2. /\ child = "exited" => child' = "exited"
      /\ life = "ready" => life' = "ready"
  BY DEF Spawn, Connected, Retry, ChildBinds, OtherBinds, LaunchInv
<1>3. \A c \in Calls : Call(c)'
  BY <1>1, <1>2, CallKept DEF Kept
<1>4. WebInv' /\ CallsInv'
  BY <1>1 DEF WebInv, CallsInv
<1>5. LaunchInv'
  BY BoundAssumption DEF Spawn, Connected, Retry, ChildBinds, OtherBinds, Fault, LaunchInv
<1> QED
  BY <1>3, <1>4, <1>5

\* A child that goes takes its connections with it, and leaves what was asked and read
LEMMA CoreGone ==
  ASSUME CoreInv, GiveUp \/ ChildExits
  PROVE  CoreInv'
<1> USE DEF CoreInv, histVars, callVars, webVars, besideLaunch
<1>1. ChildGone /\ UNCHANGED <<at, task, told, webVars>>
  BY DEF GiveUp, ChildExits
<1>2. \A c \in Calls : /\ conn'[c] \in Conns
                       /\ conn'[c].id = conn[c].id /\ conn'[c].todo = conn[c].todo /\ conn'[c].in = conn[c].in
                       /\ conn'[c] = conn[c] \/ (conn'[c].to = "nobody" /\ conn'[c].wire = <<>>)
                       /\ conn[c].to # "child" => conn'[c] = conn[c]
  <2> TAKE c \in Calls
  <2>1. conn[c] \in Conns
    BY DEF CallsInv
  <2>2. <<>> \in Seq(Wires)
    OBVIOUS
  <2>3. CASE conn[c].to = "child"
    <3>1. conn'[c] = [conn[c] EXCEPT !.to = "nobody", !.wire = <<>>]
      BY <1>1, <2>3 DEF ChildGone
    <3> QED
      BY <2>1, <2>2, <2>3, <3>1 DEF Conns
  <2>4. CASE conn[c].to # "child"
    <3>1. conn'[c] = conn[c]
      BY <1>1, <2>4 DEF ChildGone
    <3> QED
      BY <2>1, <2>4, <3>1
  <2> QED
    BY <2>3, <2>4
<1>3. CallsInv'
  BY <1>1, <1>2 DEF CallsInv, ChildGone
<1>4. LaunchInv' /\ child' = "exited" /\ (life = "ready" => life' = "ready")
  <2>1. /\ child' = "exited" /\ child # "none"
        /\ listener' = IF listener = "child" THEN "nobody" ELSE listener
        /\ UNCHANGED <<tries, foreign, row, cached>>
        /\ life' = life \/ (life = "waiting" /\ life' = "failed")
    BY <1>1 DEF GiveUp, ChildExits, ChildGone, LaunchInv
  <2>2. mishaps' \in 0 .. MaxMishaps
    BY BoundAssumption DEF GiveUp, ChildExits, Fault, LaunchInv
  <2>3. /\ life' \in {"picked", "waiting", "ready", "failed"} /\ (life' # "picked")
        /\ listener' \in {"nobody", "other"} /\ (listener' = "other" => listener = "other")
    BY <2>1 DEF LaunchInv
  <2> QED
    BY <2>1, <2>2, <2>3 DEF LaunchInv
<1>5. ASSUME NEW c \in Calls
      PROVE  Call(c)'
  <2> USE <1>2
  <2>0. Call(c)
    OBVIOUS
  <2>1. /\ at'[c] = at[c] /\ task'[c] = task[c]
        /\ conn'[c].todo = conn[c].todo /\ conn'[c].id = conn[c].id /\ conn'[c].in = conn[c].in
    BY <1>1
  <2>2. conn'[c] = conn[c] \/ (conn'[c].to = "nobody" /\ conn'[c].wire = <<>>)
    OBVIOUS
  <2>3. conn[c] = NoConn => conn'[c] = NoConn
    BY DEF NoConn
  <2>4. Place(c)'
    BY <2>0, <2>1, <2>3, <1>4 DEF Call, Place
  <2>5. Left(c)' = Left(c) /\ Ahead(c)' = Ahead(c)
    BY <2>1 DEF Left, Ahead
  <2>6. Shape(c)'
    BY <2>0, <2>1, <2>5 DEF Call, Shape
  <2>7. Replied(c)' = Replied(c) /\ Inbox(c)' = Inbox(c) /\ Doing(c)' = Doing(c)
    BY <2>1 DEF Replied, Inbox, Doing
  <2>8. Sent(conn[c].id, conn[c].todo)' = Sent(conn[c].id, conn[c].todo)
    BY <2>1 DEF Sent
  <2>9. Turn(c)'
    BY <2>0, <2>1, <2>2, <2>7, <2>8 DEF Call, Turn
  <2> QED
    BY <2>4, <2>6, <2>9 DEF Call
<1> QED
  BY <1>1, <1>3, <1>4, <1>5 DEF WebInv

-----------------------------------------------------------------------------
\* What more a call has met does not concern what it does
LEMMA MeetsMore ==
  ASSUME CoreInv, NEW c \in Calls, NEW what \in Met
  PROVE  LET t == Meets(c, what)
         IN  /\ t \in Tasks
             /\ at[c] \notin Running => t = task[c]
             /\ t.kind = task[c].kind /\ t.tgt = task[c].tgt /\ t.want = task[c].want
             /\ t.until = task[c].until /\ t.left = task[c].left /\ t.face = task[c].face
             /\ task[c].met \subseteq t.met
             /\ task[c].kind \in {"navigate", "fetch"} => what \in t.met
<1>1. task[c] \in Tasks
  BY DEF CoreInv, CallsInv
<1>2. at[c] \notin Running => task[c].kind = None
  BY DEF CoreInv, Call, Place, NoTask
<1>3. task[c].met \cup {what} \in SUBSET Met
  BY <1>1 DEF Tasks
<1>4. CASE task[c].kind \in {"navigate", "fetch"}
  <2>1. Meets(c, what) = [task[c] EXCEPT !.met = task[c].met \cup {what}]
    BY <1>4 DEF Meets
  <2>2. at[c] \in Running
    BY <1>2, <1>4, NoneAssumption DEF Kind
  <2> QED
    BY <1>1, <1>3, <2>1, <2>2 DEF Tasks
<1>5. CASE task[c].kind \notin {"navigate", "fetch"}
  BY <1>1, <1>5 DEF Meets
<1> QED
  BY <1>4, <1>5

\* Pages load, and profiles are updated, whatever the calls are doing
LEMMA CoreBeside ==
  ASSUME CoreInv, UpdateProfile \/ \E t \in Calls : Load(t)
  PROVE  CoreInv'
<1> USE DEF CoreInv
<1>1. CASE UpdateProfile
  <2>1. \A c \in Calls : task'[c] = Meets(c, "update") /\ Meets(c, "update") \in Tasks
    BY <1>1, MeetsMore DEF UpdateProfile, Met
  <2>2. task' \in [Calls -> Tasks] /\ UNCHANGED <<at, conn, told>>
    BY <1>1, <2>1 DEF UpdateProfile
  <2>3. \A c \in Calls : Kept(c)
    BY <2>1, <2>2, MeetsMore DEF Kept, Met
  <2>4. UNCHANGED <<launchVars, webVars, cached, foreign>>
    BY <1>1 DEF UpdateProfile
  <2>5. \A c \in Calls : Call(c)'
    BY <2>3, <2>4, CallKept DEF launchVars
  <2>6. row' \in Rows
    BY <1>1 DEF UpdateProfile, PatchedIdentity, Rows, LaunchInv
  <2>7. mishaps' \in 0 .. MaxMishaps
    BY <1>1, BoundAssumption DEF UpdateProfile, Fault, LaunchInv
  <2>8. LaunchInv'
    BY <2>4, <2>6, <2>7 DEF LaunchInv, launchVars
  <2> QED
    BY <2>2, <2>4, <2>5, <2>8 DEF WebInv, CallsInv, webVars
<1>2. CASE \E t \in Calls : Load(t)
  <2>1. PICK t \in Calls : Load(t)
    BY <1>2
  <2> USE DEF besideWeb, launchVars
  <2>2. UNCHANGED <<at, conn, told, task>>
    BY <2>1 DEF Load
  <2>3. \A c \in Calls : Call(c)'
    BY <2>1, <2>2, CallKept DEF Kept, Load
  <2>4. LaunchInv'
    BY <2>1 DEF Load, LaunchInv
  <2>5. WebInv'
    BY <2>1 DEF Load, WebInv
  <2> QED
    BY <2>2, <2>3, <2>4, <2>5 DEF CallsInv
<1> QED
  BY <1>1, <1>2

-----------------------------------------------------------------------------
\* Elements of sequences
LEMMA Appended ==
  ASSUME NEW S, NEW s \in Seq(S), NEW e \in S
  PROVE  /\ Append(s, e) \in Seq(S)
         /\ Elements(Append(s, e)) = Elements(s) \cup {e}
<1>1. /\ Len(Append(s, e)) = Len(s) + 1 /\ Len(s) \in Nat
      /\ \A i \in 1 .. Len(s) : Append(s, e)[i] = s[i]
      /\ Append(s, e)[Len(s) + 1] = e
  OBVIOUS
<1>2. 1 .. Len(s) + 1 = 1 .. Len(s) \cup {Len(s) + 1}
  BY <1>1
<1> QED
  BY <1>1, <1>2 DEF Elements

LEMMA Tailed ==
  ASSUME NEW S, NEW s \in Seq(S), s # <<>>
  PROVE  /\ Tail(s) \in Seq(S) /\ Head(s) \in S /\ Head(s) = s[1]
         /\ Len(s) \in Nat \ {0} /\ Len(Tail(s)) = Len(s) - 1
         /\ \A i \in 1 .. Len(s) - 1 : Tail(s)[i] = s[i + 1]
         /\ Elements(Tail(s)) \subseteq Elements(s) /\ Head(s) \in Elements(s)
<1>1. /\ Tail(s) \in Seq(S) /\ Head(s) \in S /\ Head(s) = s[1]
      /\ Len(s) \in Nat \ {0} /\ Len(Tail(s)) = Len(s) - 1
      /\ \A i \in 1 .. Len(s) - 1 : Tail(s)[i] = s[i + 1]
  OBVIOUS
<1> QED
  BY <1>1 DEF Elements

-----------------------------------------------------------------------------
\* The browser reads the request that is on its way, and answers it
LEMMA OnTheWire ==
  ASSUME CoreInv, NEW c \in Calls, conn[c].wire # <<>>
  PROVE  /\ at[c] \in Conversing /\ ~Replied(c) /\ Tail(conn[c].wire) = <<>>
         /\ Oldest(c).id = conn[c].id /\ Oldest(c).method = Doing(c).method
         /\ Oldest(c).params = Doing(c).params
<1>1. at[c] \in Conversing
  BY DEF CoreInv, Call, Place, NoConn
<1>2. conn[c].wire = <<Sent(conn[c].id, conn[c].todo)>> /\ ~Replied(c)
  BY <1>1 DEF CoreInv, Call, Turn
<1>3. Tail(conn[c].wire) = <<>> /\ Oldest(c) = Sent(conn[c].id, conn[c].todo)
  BY <1>2 DEF Oldest
<1> QED
  BY <1>1, <1>2, <1>3 DEF Sent, Doing

\* One frame more
LEMMA Received ==
  ASSUME CoreInv, NEW c \in Calls, at[c] \in Conversing,
         NEW f \in Frames, NEW wire \in Seq(Wires),
         conn' = [conn EXCEPT ![c].wire = wire, ![c].in = Append(@, f)],
         at' = at, told' = told, task' \in [Calls -> Tasks],
         \A d \in Calls : /\ at[d] \notin Running => task'[d] = task[d]
                          /\ task'[d].kind = task[d].kind /\ task'[d].tgt = task[d].tgt
                          /\ task'[d].want = task[d].want,
         \/ wire = <<>> /\ conn[c].wire # <<>> /\ f.id = conn[c].id /\ f.answers = Doing(c).method
         \/ wire = conn[c].wire /\ f.id = 0 /\ f.answers = "nothing",
         f.answers = "getCookies" /\ f.ok => f.value \in {"child", "other"},
         child' = child, life' = life
  PROVE  /\ CallsInv' /\ Call(c)' /\ \A d \in Calls : d # c => Kept(d)
         /\ conn'[c].in = Append(conn[c].in, f) /\ conn'[c].todo = conn[c].todo
         /\ conn'[c].id = conn[c].id /\ Inbox(c)' = Inbox(c) \cup {f}
<1> USE DEF CoreInv
<1>1. conn[c] \in Conns /\ Call(c) /\ conn[c].in \in Seq(Frames)
  BY DEF CallsInv, Conns
<1>2. Append(conn[c].in, f) \in Seq(Frames)
  BY <1>1, Appended
<1>3. /\ conn'[c] = [conn[c] EXCEPT !.wire = wire, !.in = Append(conn[c].in, f)]
      /\ \A d \in Calls : d # c => conn'[d] = conn[d]
  BY DEF CallsInv
<1>4. /\ conn'[c] \in Conns
      /\ conn'[c].to = conn[c].to /\ conn'[c].id = conn[c].id /\ conn'[c].todo = conn[c].todo
      /\ conn'[c].wire = wire /\ conn'[c].in = Append(conn[c].in, f)
  <2> HIDE DEF CoreInv
  <2> DEFINE new == [conn[c] EXCEPT !.wire = wire, !.in = Append(conn[c].in, f)]
  <2>1. new \in Conns
    BY <1>1, <1>2 DEF Conns
  <2>2. /\ new.to = conn[c].to /\ new.id = conn[c].id /\ new.todo = conn[c].todo
        /\ new.wire = wire /\ new.in = Append(conn[c].in, f)
    BY <1>1 DEF Conns
  <2>3. conn'[c] = new
    BY <1>3
  <2> HIDE DEF new
  <2> QED
    BY <2>1, <2>2, <2>3
<1>5. CallsInv'
  BY <1>3, <1>4 DEF CallsInv
<1>6. Inbox(c)' = Inbox(c) \cup {f}
  <2>1. Elements(Append(conn[c].in, f)) = Elements(conn[c].in) \cup {f}
    BY <1>1, Appended
  <2> QED
    BY <1>4, <2>1 DEF Inbox
<1>7. Place(c)'
  BY <1>1, <1>4 DEF Call, Place, Conversing, Running
<1>8. Shape(c)'
  <2>1. Left(c)' = Left(c) /\ Ahead(c)' = Ahead(c)
    BY <1>4 DEF Left, Ahead
  <2> QED
    BY <1>1, <1>4, <2>1 DEF Call, Shape
<1>9. Turn(c)'
  <2>1. Doing(c)' = Doing(c) /\ Sent(conn[c].id, conn[c].todo)' = Sent(conn[c].id, conn[c].todo)
    BY <1>4 DEF Doing, Sent
  <2>2. conn[c].id \in Nat /\ conn[c].id > 0
    BY <1>1 DEF Call, Turn, Conns
  <2>3. \A g \in Inbox(c)' : /\ g.id <= conn'[c].id
                             /\ g.id = conn'[c].id => g.answers = Doing(c).method
                             /\ g.answers = "getCookies" /\ g.ok => g.value \in {"child", "other"}
    BY <1>1, <1>4, <1>6, <2>2 DEF Call, Turn
  <2>4. wire = conn[c].wire /\ f.id = 0 => Replied(c)' = Replied(c)
    BY <1>4, <1>6, <2>2 DEF Replied
  <2> QED
    BY <1>1, <1>4, <2>1, <2>2, <2>3, <2>4 DEF Call, Turn
<1>10. \A d \in Calls : d # c => Kept(d)
  BY <1>3 DEF Kept
<1> QED
  BY <1>4, <1>5, <1>6, <1>7, <1>8, <1>9, <1>10 DEF Call

LEMMA Served ==
  ASSUME CoreInv, NEW c \in Calls, NEW ok \in BOOLEAN, NEW value \in Values,
         conn[c].wire # <<>>, Answer(c, ok, value), UNCHANGED besideWeb,
         task' = task \/ \E what \in Met : task' = [task EXCEPT ![c] = Meets(c, what)],
         Doing(c).method = "getCookies" /\ ok => value \in {"child", "other"},
         WebInv', mishaps' \in 0 .. MaxMishaps
  PROVE  /\ CoreInv'
         /\ conn'[c].todo = conn[c].todo /\ conn'[c].id = conn[c].id
         /\ Inbox(c)' = Inbox(c) \cup {Frame(conn[c].id, Doing(c).method, ok, value)}
         /\ \A d \in Calls : d # c => Kept(d)
<1> DEFINE f == Frame(conn[c].id, Doing(c).method, ok, value)
<1>1. /\ at[c] \in Conversing /\ Tail(conn[c].wire) = <<>>
      /\ Oldest(c).id = conn[c].id /\ Oldest(c).method = Doing(c).method
  BY OnTheWire
<1>2. Doing(c) \in Requests /\ conn[c] \in Conns
  BY <1>1, DoingWhat DEF CoreInv, CallsInv
<1>3. f \in Frames
  BY <1>2 DEF Frame, Frames, Requests, Conns
<1>4. /\ f.id = conn[c].id /\ f.answers = Doing(c).method /\ f.ok = ok /\ f.value = value
  BY DEF Frame
<1>5. conn' = [conn EXCEPT ![c].wire = <<>>, ![c].in = Append(@, f)]
  BY <1>1 DEF Answer
<1>6. <<>> \in Seq(Wires)
  OBVIOUS
<1>7. /\ task' \in [Calls -> Tasks]
      /\ \A d \in Calls : /\ at[d] \notin Running => task'[d] = task[d]
                          /\ task'[d].kind = task[d].kind /\ task'[d].tgt = task[d].tgt
                          /\ task'[d].want = task[d].want
  <2>1. task \in [Calls -> Tasks]
    BY DEF CoreInv, CallsInv
  <2>2. CASE task' = task
    BY <2>1, <2>2
  <2>3. CASE \E what \in Met : task' = [task EXCEPT ![c] = Meets(c, what)]
    BY <2>1, <2>3, MeetsMore
  <2> QED
    BY <2>2, <2>3
<1>8. at' = at /\ told' = told /\ child' = child /\ life' = life
  BY DEF besideWeb, launchVars
<1> HIDE DEF f
<1>9. /\ CallsInv' /\ Call(c)' /\ \A d \in Calls : d # c => Kept(d)
      /\ conn'[c].todo = conn[c].todo /\ conn'[c].id = conn[c].id
      /\ Inbox(c)' = Inbox(c) \cup {f}
  BY <1>1, <1>3, <1>4, <1>5, <1>6, <1>7, <1>8, Received
<1>10. CoreInv'
  <2>1. UNCHANGED <<launchVars, row, foreign>> /\ cached' \in Calls \cup {None}
    BY DEF besideWeb, CoreInv, LaunchInv
  <2> QED
    BY <1>9, <2>1, OneCall
<1> QED
  BY <1>9, <1>10 DEF f

\* Whatever the browser does with a request
LEMMA CoreServe ==
  ASSUME CoreInv, NEW c \in Calls, Serve(c) \/ Interject(c)
  PROVE  CoreInv'
<1>1. WebInv /\ conn[c] \in Conns /\ task[c] \in Tasks /\ mishaps \in 0 .. MaxMishaps
  BY DEF CoreInv, CallsInv, LaunchInv
<1>2. ASSUME conn[c].wire # <<>>
      PROVE  /\ at[c] \in Conversing /\ Doing(c) \in Requests
             /\ Oldest(c).method = Doing(c).method /\ Oldest(c).params = Doing(c).params
             /\ Doing(c).method \in Preparing \cup Actions => task[c].tgt \in Calls
             /\ Doing(c).method = "navigate" => Doing(c).params = task[c].want
  BY <1>2, OnTheWire, DoingWhat
<1>3. /\ {"loading", "interactive", "complete", "child", "other", None} \subseteq Values
      /\ Pages \cup {Blank} \subseteq Values
  BY DEF Values
<1> USE DEF Asked
<1>4. CASE ServeTarget(c)
  <2>1. WebInv'
    BY <1>1, <1>4 DEF ServeTarget, WebInv, Conns
  <2> QED
    BY <1>1, <1>2, <1>3, <1>4, <2>1, Served DEF ServeTarget
<1>5. CASE ServeAttach(c)
  <2>1. WebInv'
    BY <1>1, <1>5 DEF ServeAttach, WebInv, webVars
  <2> QED
    BY <1>1, <1>2, <1>3, <1>5, <2>1, Served DEF ServeAttach
<1>6. CASE ServeOverride(c)
  <2>1. Doing(c).params \in Payloads /\ Doing(c).method \in OverrideMethods /\ task[c].tgt \in Calls
    BY <1>2, <1>6 DEF ServeOverride, Requests, Preparing
  <2>2. WebInv'
    BY <1>1, <1>2, <1>6, <2>1 DEF ServeOverride, WebInv
  <2>3. Doing(c).method # "getCookies"
    BY <2>1 DEF OverrideMethods
  <2> QED
    BY <1>1, <1>2, <1>3, <1>6, <2>2, <2>3, Served DEF ServeOverride
<1>7. CASE ServeNavigate(c)
  <2>1. Oldest(c).params \in Pages \cup {Blank} /\ task[c].tgt \in Calls
    BY <1>1, <1>2, <1>7 DEF ServeNavigate, Actions, Tasks
  <2>2. WebInv'
    BY <1>1, <1>7, <2>1 DEF ServeNavigate, WebInv
  <2> QED
    BY <1>1, <1>2, <1>3, <1>7, <2>2, Served DEF ServeNavigate
<1>8. CASE LoadFails(c)
  <2>1. WebInv' /\ mishaps' \in 0 .. MaxMishaps
    BY <1>1, <1>8, BoundAssumption DEF LoadFails, WebInv, webVars, Fault
  <2> QED
    BY <1>2, <1>3, <1>8, <2>1, Served DEF LoadFails, Met
<1>9. CASE ServeEvaluate(c)
  <2>1. task[c].tgt \in Calls
    BY <1>2, <1>9 DEF ServeEvaluate, Actions
  <2>2. WebInv'
    BY <1>1, <1>9 DEF ServeEvaluate, WebInv, webVars
  <2> DEFINE v == IF Oldest(c).params = "document.readyState" THEN ready[task[c].tgt]
                  ELSE page[task[c].tgt]
  <2>3. v \in Values
    BY <1>1, <1>3, <2>1 DEF WebInv
  <2> QED
    BY <1>1, <1>2, <1>9, <2>2, <2>3, Served DEF ServeEvaluate
<1>10. CASE ServeStorage(c)
  <2>1. WebInv'
    BY <1>1, <1>10 DEF ServeStorage, WebInv, webVars
  <2>2. conn[c].to \in {"child", "other"}
    BY <1>1, <1>10 DEF ServeStorage, Conns
  <2> QED
    BY <1>1, <1>3, <1>10, <2>1, <2>2, Served DEF ServeStorage
<1>11. CASE Refuse(c)
  <2>1. WebInv' /\ mishaps' \in 0 .. MaxMishaps
    BY <1>1, <1>11, BoundAssumption DEF Refuse, WebInv, webVars, Fault
  <2> QED
    BY <1>3, <1>11, <2>1, Served DEF Refuse, Met
<1>12. CASE Interject(c)
  <2>1. WebInv' /\ mishaps' \in 0 .. MaxMishaps
    BY <1>1, <1>12, BoundAssumption DEF Interject, WebInv, webVars, Fault
  <2>2. /\ UNCHANGED <<launchVars, row, foreign>> /\ cached' \in Calls \cup {None}
        /\ at' = at /\ told' = told /\ task' = task /\ child' = child /\ life' = life
    BY <1>12 DEF Interject, besideWeb, launchVars, CoreInv, LaunchInv
  <2>3. Event \in Frames /\ Event.id = 0 /\ Event.answers = "nothing"
    BY <1>3 DEF Event, Frame, Frames
  <2>4. conn[c].wire \in Seq(Wires) /\ conn \in [Calls -> Conns] /\ task \in [Calls -> Tasks]
    BY DEF CoreInv, CallsInv, Conns
  <2>5. conn' = [conn EXCEPT ![c].wire = conn[c].wire, ![c].in = Append(@, Event)]
    <3> DEFINE old == conn[c]
    <3>1. [old EXCEPT !.in = Append(old.in, Event)]
            = [old EXCEPT !.wire = old.wire, !.in = Append(old.in, Event)]
      BY <1>1 DEF Conns
    <3> QED
      BY <1>12, <3>1 DEF Interject
  <2>6. CallsInv' /\ Call(c)' /\ \A d \in Calls : d # c => Kept(d)
    <3> HIDE DEF Event
    <3> QED
      BY <1>12, <2>2, <2>3, <2>4, <2>5, Received DEF Interject
  <2> QED
    BY <2>1, <2>2, <2>6, OneCall
<1> QED
  BY <1>4, <1>5, <1>6, <1>7, <1>8, <1>9, <1>10, <1>11, <1>12 DEF Serve

-----------------------------------------------------------------------------
\* A call ends: nothing of it is left
LEMMA NothingLeft == NoTask \in Tasks /\ NoConn \in Conns /\ NoTask.kind = None
<1>1. <<>> \in Seq(Requests) /\ <<>> \in Seq(Wires) /\ <<>> \in Seq(Frames)
  OBVIOUS
<1>2. NoConn \in Conns
  BY <1>1 DEF NoConn, Conns
<1>3. Patience \in 0 .. Patience
  BY BoundAssumption
<1> QED
  BY <1>2, <1>3 DEF NoTask, Tasks, Faces

LEMMA Ended ==
  ASSUME CoreInv, NEW c \in Calls, NEW how \in {"told", "failed"},
         NEW answer \in Values \cup {"no cookies"}, End(c, how, answer), life' = "ready"
  PROVE  /\ CallsInv' /\ Call(c)' /\ \A d \in Calls : d # c => Kept(d)
         /\ at'[c] = how /\ task'[c] = NoTask /\ conn'[c] = NoConn
<1>1. at \in [Calls -> Running \cup {"told", "failed", "idle"}] /\ conn \in [Calls -> Conns]
      /\ task \in [Calls -> Tasks] /\ told \in [Calls -> Values \cup {"no cookies"}]
  BY DEF CoreInv, CallsInv
<1>2. at'[c] = how /\ task'[c] = NoTask /\ conn'[c] = NoConn
  BY <1>1 DEF End, Goto
<1>3. \A d \in Calls : d # c => at'[d] = at[d] /\ task'[d] = task[d] /\ conn'[d] = conn[d]
  BY <1>1 DEF End, Goto
<1>4. CallsInv'
  BY <1>1, NothingLeft DEF End, Goto, CallsInv
<1>5. at'[c] \notin Running /\ at'[c] \notin Conversing
  BY <1>2 DEF Running, Conversing
<1>6. Place(c)' /\ Turn(c)'
  BY <1>2, <1>5 DEF Place, Turn
<1>7. Shape(c)'
  BY <1>2, <1>5 DEF Shape, Running
<1> QED
  BY <1>2, <1>3, <1>4, <1>6, <1>7 DEF Call, Kept

\* The frames of a connection are behind its counter, and the reply to the last request
\* is the first that is level with it
LEMMA Unanswered ==
  ASSUME CoreInv, NEW c \in Calls, HasReply(c)
  PROVE  /\ at[c] \in Conversing /\ conn[c].in \in Seq(Frames) /\ conn[c].in # <<>>
         /\ First(c) \in Frames /\ First(c) \in Inbox(c)
         /\ task[c].kind # "fetch" => First(c).id = conn[c].id /\ First(c).answers = Doing(c).method
                                      /\ conn[c].wire = <<>>
         /\ task[c].kind = "fetch" => First(c).ok /\ First(c).value \in {"child", "other"}
<1>1. at[c] \in Conversing /\ conn[c].in \in Seq(Frames) /\ conn[c].in # <<>> /\ Turn(c)
  BY DEF CoreInv, CallsInv, Call, Conns, HasReply, Unread
<1>2. First(c) \in Frames /\ First(c) \in Inbox(c)
  BY <1>1, Tailed DEF First, Inbox
<1> QED
  BY <1>1, <1>2 DEF HasReply, Turn, Replied

\* The next request of a conversation
LEMMA AskedOn ==
  ASSUME CoreInv, NEW c \in Calls, HasReply(c), task[c].kind # "fetch",
         NEW todo, Ask(c, todo),
         \/ todo = conn[c].todo
         \/ todo = Tail(conn[c].todo) /\ Left(c) > 1 /\ at[c] = "talk",
         at' = at, told' = told, task' \in [Calls -> Tasks],
         \A d \in Calls : d # c => task'[d] = task[d],
         task'[c].kind = task[c].kind, task'[c].tgt = task[c].tgt, task'[c].want = task[c].want,
         life' = life, child' = child
  PROVE  /\ CallsInv' /\ Call(c)' /\ \A d \in Calls : d # c => Kept(d)
         /\ conn'[c].todo = todo /\ conn'[c].id = conn[c].id + 1 /\ ~Replied(c)'
<1>1. /\ at[c] \in Conversing /\ conn[c].in \in Seq(Frames) /\ conn[c].in # <<>>
      /\ conn[c].wire = <<>> /\ conn[c] \in Conns /\ Call(c) /\ conn \in [Calls -> Conns]
      /\ conn[c].todo \in Seq(Requests)
  BY Unanswered DEF CoreInv, CallsInv, Conns
<1>2. /\ todo \in Seq(Requests) /\ todo # <<>> /\ Left(c) \in Nat \ {0}
      /\ todo # conn[c].todo =>
           Len(todo) = Left(c) - 1 /\ \A i \in 1 .. Len(todo) : todo[i] = conn[c].todo[i + 1]
  <2>1. conn[c].todo # <<>>
    BY <1>1 DEF Call, Place
  <2>2. /\ Tail(conn[c].todo) \in Seq(Requests) /\ Left(c) \in Nat \ {0}
        /\ Len(Tail(conn[c].todo)) = Left(c) - 1
        /\ \A i \in 1 .. Left(c) - 1 : Tail(conn[c].todo)[i] = conn[c].todo[i + 1]
    BY <1>1, <2>1, Tailed DEF Left
  <2>3. Left(c) > 1 => Tail(conn[c].todo) # <<>>
    BY <2>2
  <2> QED
    BY <1>1, <2>1, <2>2, <2>3
<1>3. /\ Tail(conn[c].in) \in Seq(Frames) /\ Elements(Tail(conn[c].in)) \subseteq Inbox(c)
  BY <1>1, Tailed DEF Inbox
<1>4. Sent(conn[c].id + 1, todo) \in Wires /\ conn[c].id \in Nat
  <2>1. Head(todo) \in Requests /\ conn[c].id \in Nat
    BY <1>1, <1>2, Tailed DEF Conns
  <2> QED
    BY <2>1 DEF Sent, Requests, Wires
<1>5. /\ conn'[c].to = conn[c].to /\ conn'[c].id = conn[c].id + 1 /\ conn'[c].todo = todo
      /\ conn'[c].wire = <<Sent(conn[c].id + 1, todo)>> /\ conn'[c].in = Tail(conn[c].in)
      /\ conn'[c] \in Conns
  <2> DEFINE wire == Append(conn[c].wire, Sent(conn[c].id + 1, todo))
             rest == Tail(conn[c].in)
             next == conn[c].id + 1
             new == [conn[c] EXCEPT !.todo = todo, !.id = next, !.wire = wire, !.in = rest]
  <2>1. conn'[c] = new
    BY <1>1 DEF Ask
  <2>2. wire = <<Sent(conn[c].id + 1, todo)>> /\ wire \in Seq(Wires)
    BY <1>1, <1>4
  <2>3. rest \in Seq(Frames) /\ next \in Nat
    BY <1>3, <1>4
  <2> HIDE DEF wire, rest, next
  <2>4. /\ new.to = conn[c].to /\ new.id = next /\ new.todo = todo
        /\ new.wire = wire /\ new.in = rest
    BY <1>1 DEF Conns
  <2>5. new \in Conns
    BY <1>1, <1>2, <2>2, <2>3 DEF Conns
  <2> HIDE DEF new
  <2> QED
    BY <2>1, <2>2, <2>4, <2>5 DEF rest, next
<1>6. \A d \in Calls : d # c => conn'[d] = conn[d]
  BY <1>1 DEF Ask
<1>7. CallsInv'
  <2>1. conn' \in [Calls -> Conns]
    <3>1. conn' = [conn EXCEPT ![c] = conn'[c]]
      BY <1>1 DEF Ask
    <3> QED
      BY <1>1, <1>5, <3>1
  <2> QED
    BY <2>1 DEF CoreInv, CallsInv
<1>8. Place(c)'
  BY <1>1, <1>2, <1>5 DEF Call, Place, Conversing, Running
<1>9. Shape(c)'
  <2>1. /\ Shape(c) /\ Ahead(c)' = Ahead(c) /\ Left(c)' = Len(todo)
        /\ Ahead(c) = IF task[c].kind = "navigate" THEN 3 ELSE 1
    BY <1>1, <1>5 DEF Ahead, Left, Call
  <2>2. CASE todo = conn[c].todo
    BY <1>5, <2>1, <2>2 DEF Shape, Left
  <2>3. CASE todo # conn[c].todo
    <3>1. at[c] = "talk" /\ Left(c) > 1
      BY <2>3
    <3>2. task[c].kind \in Actions
      <4>1. task[c].kind \in Kind
        BY <3>1, ScopeAssumption DEF CoreInv, Call, Place, Running
      <4> QED
        BY <1>1, <3>1, <4>1, DoingWhat DEF Kind, Actions
    <3>3. at'[c] = "talk" /\ Left(c)' = Left(c) - 1
      BY <1>2, <2>1, <2>3, <3>1
    <3>4. \A i \in 1 .. Left(c) - 1 : conn'[c].todo[i] = conn[c].todo[i + 1]
      BY <1>2, <1>5, <2>3
    <3>5. /\ task'[c].tgt \in Calls
          /\ \A i \in 1 .. Left(c)' - Ahead(c)' : conn'[c].todo[i].method \in Preparing
      <4>1. task[c].tgt \in Calls /\ \A i \in 1 .. Left(c) - Ahead(c) : conn[c].todo[i].method \in Preparing
        BY <2>1, <3>1, <3>2 DEF Shape
      <4>2. Left(c) \in Nat \ {0} /\ Ahead(c) \in {1, 3} /\ Left(c)' = Left(c) - 1 /\ Ahead(c)' = Ahead(c)
        BY <1>2, <2>1, <3>3
      <4>3. ASSUME NEW i \in 1 .. (Left(c) - 1) - Ahead(c)
            PROVE  conn'[c].todo[i].method \in Preparing
        <5>1. i \in 1 .. Left(c) - 1 /\ i + 1 \in 1 .. Left(c) - Ahead(c)
          BY <4>2
        <5> QED
          BY <3>4, <4>1, <5>1
      <4> QED
        BY <4>1, <4>2, <4>3
    <3>6. task[c].kind = "evaluate" => conn'[c].todo[Left(c) - 1] = Evaluate("expression")
      BY <1>2, <2>1, <3>1, <3>4 DEF Shape
    <3>7. task[c].kind = "navigate" =>
            /\ conn'[c].todo[Left(c) - 1] = Evaluate("location.href")
            /\ Left(c) - 1 > 1 => conn'[c].todo[Left(c) - 2] = ReadyState
            /\ Left(c) - 1 > 2 => conn'[c].todo[Left(c) - 3] = Request("navigate", task[c].want)
      <4>1. /\ conn'[c].todo[Left(c) - 1] = conn[c].todo[Left(c)]
            /\ Left(c) - 1 > 1 => conn'[c].todo[Left(c) - 2] = conn[c].todo[Left(c) - 1]
            /\ Left(c) - 1 > 2 => conn'[c].todo[Left(c) - 3] = conn[c].todo[Left(c) - 2]
        <5> DEFINE n == Left(c)
        <5>1. /\ n \in Nat \ {0} /\ n > 1 /\ (n - 1) + 1 = n /\ (n - 2) + 1 = n - 1
              /\ (n - 3) + 1 = n - 2 /\ n - 1 \in 1 .. n - 1
              /\ n - 1 > 1 => n - 2 \in 1 .. n - 1
              /\ n - 1 > 2 => n - 3 \in 1 .. n - 1
          BY <1>2, <3>1
        <5>2. \A i \in 1 .. n - 1 : conn'[c].todo[i] = conn[c].todo[i + 1]
          BY <3>4
        <5> HIDE DEF n
        <5>3. /\ conn'[c].todo[n - 1] = conn[c].todo[n]
              /\ n - 1 > 1 => conn'[c].todo[n - 2] = conn[c].todo[n - 1]
              /\ n - 1 > 2 => conn'[c].todo[n - 3] = conn[c].todo[n - 2]
          BY <5>1, <5>2
        <5> QED
          BY <5>3 DEF n
      <4>2. task[c].kind = "navigate" =>
              /\ conn[c].todo[Left(c)] = Evaluate("location.href")
              /\ conn[c].todo[Left(c) - 1] = ReadyState
              /\ Left(c) > 2 => conn[c].todo[Left(c) - 2] = Request("navigate", task[c].want)
        BY <2>1, <3>1 DEF Shape
      <4> QED
        BY <1>2, <4>1, <4>2
    <3> QED
      BY <3>1, <3>2, <3>3, <3>5, <3>6, <3>7, <1>2 DEF Shape, Running
  <2> QED
    BY <2>2, <2>3
<1>10. Turn(c)' /\ ~Replied(c)'
  <2>1. Inbox(c)' \subseteq Inbox(c)
    BY <1>3, <1>5 DEF Inbox
  <2>2. \A f \in Inbox(c)' : /\ f.id <= conn[c].id + 1 /\ f.id # conn[c].id + 1
                             /\ f.answers = "getCookies" /\ f.ok => f.value \in {"child", "other"}
    <3>1. Inbox(c) \subseteq Frames
      BY <1>1 DEF Inbox, Elements
    <3> QED
      BY <1>1, <1>4, <2>1, <3>1 DEF Call, Turn, Frames
  <2>3. ~Replied(c)'
    BY <1>5, <2>2 DEF Replied
  <2> QED
    BY <1>4, <1>5, <2>2, <2>3 DEF Turn
<1> QED
  BY <1>5, <1>6, <1>7, <1>8, <1>9, <1>10 DEF Call, Kept

-----------------------------------------------------------------------------
\* What a handler does with a frame, or with a connection that is lost
LEMMA CoreHandler ==
  ASSUME CoreInv, NEW c \in Calls,
         \/ ReadIdentity(c) \/ Skip(c) \/ TakeError(c) \/ TakeTarget(c)
         \/ TakePoll(c) \/ TakeReply(c) \/ Closed(c)
  PROVE  CoreInv'
<1>1. /\ at \in [Calls -> Running \cup {"told", "failed", "idle"}] /\ conn \in [Calls -> Conns]
      /\ task \in [Calls -> Tasks] /\ told \in [Calls -> Values \cup {"no cookies"}]
      /\ WebInv /\ Call(c) /\ conn[c] \in Conns /\ task[c] \in Tasks
      /\ cached \in Calls \cup {None} /\ mishaps \in 0 .. MaxMishaps
  BY DEF CoreInv, CallsInv, LaunchInv
<1>2. /\ UNCHANGED <<launchVars, row, foreign, webVars, mishaps>>
      /\ cached' \in Calls \cup {None}
  BY <1>1 DEF ReadIdentity, Skip, TakeError, TakeTarget, TakePoll, TakeReply, Closed,
              besideCall, histVars
<1>3. WebInv' /\ mishaps' \in 0 .. MaxMishaps /\ life' = life /\ child' = child
  BY <1>1, <1>2 DEF WebInv, webVars, launchVars
<1>4. at[c] # "idle" => life' = "ready"
  BY <1>1, <1>3 DEF Call, Place
<1>5. None \in Values \cup {"no cookies"} /\ "no cookies" \in Values \cup {"no cookies"}
  BY DEF Values
<1>6. ASSUME \E how \in {"told", "failed"}, answer \in Values \cup {"no cookies"} : End(c, how, answer),
             at[c] # "idle"
      PROVE  CoreInv'
  BY <1>2, <1>3, <1>4, <1>6, Ended, OneCall
<1>7. CASE ReadIdentity(c)
  <2>1. ResolveEffectiveIdentity(row, DefaultStealth) \in Faces
    BY DEF CoreInv, LaunchInv, Faces
  <2>2. /\ at[c] = "identity" /\ at' = [at EXCEPT ![c] = "attach"] /\ UNCHANGED <<conn, told>>
        /\ task' = [task EXCEPT ![c].face = ResolveEffectiveIdentity(row, DefaultStealth)]
    BY <1>7 DEF ReadIdentity, Goto
  <2>3. CallsInv'
    BY <1>1, <2>1, <2>2 DEF CallsInv, Tasks, Running
  <2>4. /\ at'[c] = "attach" /\ conn'[c] = conn[c]
        /\ task'[c].kind = task[c].kind /\ task'[c].tgt = task[c].tgt
    BY <1>1, <2>2 DEF Tasks
  <2>5. Call(c)'
    BY <1>1, <1>3, <2>2, <2>4 DEF Call, Place, Shape, Turn, Running, Conversing
  <2>6. \A d \in Calls : d # c => Kept(d)
    BY <1>1, <2>2 DEF Kept
  <2> QED
    BY <1>2, <1>3, <2>3, <2>5, <2>6, OneCall
<1>8. CASE Skip(c)
  <2>1. at[c] \in Conversing /\ conn[c].in # <<>> /\ UNCHANGED <<at, task, told>>
    BY <1>8 DEF Skip, Unread
  <2>2. conn[c].in \in Seq(Frames)
    BY <1>1 DEF Conns
  <2>3. Tail(conn[c].in) \in Seq(Frames) /\ Elements(Tail(conn[c].in)) \subseteq Inbox(c)
    BY <2>1, <2>2, Tailed DEF Inbox
  <2>4. conn' = [conn EXCEPT ![c].in = Tail(conn[c].in)]
    BY <1>8 DEF Skip
  <2>5. /\ conn'[c] \in Conns
        /\ conn'[c].to = conn[c].to /\ conn'[c].id = conn[c].id /\ conn'[c].todo = conn[c].todo
        /\ conn'[c].wire = conn[c].wire /\ conn'[c].in = Tail(conn[c].in)
    BY <1>1, <2>3, <2>4 DEF Conns
  <2>6. \A d \in Calls : d # c => conn'[d] = conn[d]
    BY <1>1, <2>4
  <2>7. CallsInv'
    BY <1>1, <2>1, <2>4, <2>5, <2>6 DEF CallsInv
  <2>8. Place(c)'
    BY <1>1, <1>3, <2>1, <2>5 DEF Call, Place, Conversing, Running
  <2>9. Left(c)' = Left(c) /\ Ahead(c)' = Ahead(c) /\ Inbox(c)' \subseteq Inbox(c)
    BY <2>1, <2>3, <2>5 DEF Left, Ahead, Inbox
  <2>10. Shape(c)'
    BY <1>1, <2>1, <2>5, <2>9 DEF Call, Shape
  <2>11. Replied(c)' => Replied(c)
    BY <2>5, <2>9 DEF Replied
  <2>12. Doing(c)' = Doing(c) /\ Sent(conn[c].id, conn[c].todo)' = Sent(conn[c].id, conn[c].todo)
    BY <2>5 DEF Doing, Sent
  <2>13. Turn(c)'
    BY <1>1, <2>1, <2>5, <2>9, <2>11, <2>12 DEF Call, Turn
  <2>14. \A d \in Calls : d # c => Kept(d)
    BY <2>1, <2>6 DEF Kept
  <2> QED
    BY <1>2, <1>3, <2>7, <2>8, <2>10, <2>13, <2>14, OneCall DEF Call
<1>9. CASE TakeError(c)
  BY <1>5, <1>6, <1>9 DEF TakeError, HasReply, Conversing
<1>10. CASE TakeTarget(c)
  <2>1. /\ at[c] = "target" /\ at' = [at EXCEPT ![c] = "identity"] /\ told' = told
        /\ task' = [task EXCEPT ![c].tgt = c] /\ conn' = [conn EXCEPT ![c] = NoConn]
    BY <1>10 DEF TakeTarget, Goto
  <2>2. CallsInv'
    BY <1>1, <2>1, NothingLeft DEF CallsInv, Tasks, Running
  <2>3. /\ at'[c] = "identity" /\ conn'[c] = NoConn
        /\ task'[c].kind = task[c].kind /\ task'[c].tgt = c
    BY <1>1, <2>1 DEF Tasks
  <2>4. Call(c)'
    BY <1>1, <1>3, <2>1, <2>3 DEF Call, Place, Shape, Turn, Running, Conversing
  <2>5. \A d \in Calls : d # c => Kept(d)
    BY <1>1, <2>1 DEF Kept
  <2> QED
    BY <1>2, <1>3, <2>2, <2>4, <2>5, OneCall
<1>11. CASE TakePoll(c)
  <2>1. at[c] = "talk" /\ HasReply(c) /\ Doing(c) = ReadyState
    BY <1>11 DEF TakePoll, Accepted, NotYet
  <2>2. task[c].kind # "fetch"
    BY <2>1, DoingWhat DEF Conversing, ReadyState, Evaluate, Request
  <2>3. CASE task[c].left = 0
    BY <1>5, <1>6, <1>11, <2>1, <2>3 DEF TakePoll
  <2>4. CASE task[c].left # 0
    <3>1. PICK left \in 0 .. task[c].left - 1 : task' = [task EXCEPT ![c].left = left]
      BY <1>11, <2>4 DEF TakePoll
    <3>2. left \in 0 .. Patience
      <4>1. task[c].left \in 0 .. Patience
        BY <1>1 DEF Tasks
      <4> QED
        BY <3>1, <4>1, BoundAssumption
    <3>3. /\ task' \in [Calls -> Tasks] /\ \A d \in Calls : d # c => task'[d] = task[d]
          /\ task'[c].kind = task[c].kind /\ task'[c].tgt = task[c].tgt /\ task'[c].want = task[c].want
      BY <1>1, <3>1, <3>2 DEF Tasks
    <3>4. Ask(c, conn[c].todo) /\ at' = at /\ told' = told
      BY <1>11, <2>4 DEF TakePoll
    <3>5. CallsInv' /\ Call(c)' /\ \A d \in Calls : d # c => Kept(d)
      BY <1>3, <2>1, <2>2, <3>3, <3>4, AskedOn
    <3> QED
      BY <1>2, <1>3, <3>5, OneCall
  <2> QED
    BY <2>3, <2>4
<1>12. CASE TakeReply(c)
  <2>1. at[c] = "talk" /\ HasReply(c)
    BY <1>12 DEF TakeReply, Accepted
  <2>2. CASE Len(conn[c].todo) = 1
    <3>1. First(c).value \in Values
      BY <2>1, Unanswered DEF Frames
    <3> QED
      BY <1>6, <1>12, <2>1, <2>2, <3>1 DEF TakeReply
  <2>3. CASE Len(conn[c].todo) # 1
    <3>1. task[c].kind # "fetch" /\ Left(c) > 1
      <4>1. Left(c) \in Nat \ {0} /\ Left(c) # 1
        BY <2>1, <2>3, DoingWhat DEF Conversing, Left
      <4>2. task[c].kind = "fetch" => Left(c) = 1
        BY <2>1, DoingWhat DEF Conversing
      <4> QED
        BY <4>1, <4>2
    <3>2. Ask(c, Tail(conn[c].todo)) /\ UNCHANGED <<at, task, told>>
      BY <1>12, <2>3 DEF TakeReply
    <3>3. CallsInv' /\ Call(c)' /\ \A d \in Calls : d # c => Kept(d)
      BY <1>1, <1>3, <2>1, <3>1, <3>2, AskedOn
    <3> QED
      BY <1>2, <1>3, <3>3, OneCall
  <2> QED
    BY <2>2, <2>3
<1>13. CASE Closed(c)
  BY <1>5, <1>6, <1>13 DEF Closed, Conversing
<1> QED
  BY <1>7, <1>8, <1>9, <1>10, <1>11, <1>12, <1>13

LEMMA Joint ==
  ASSUME NEW S, NEW s \in Seq(S), NEW t \in Seq(S)
  PROVE  /\ s \o t \in Seq(S) /\ Len(s \o t) = Len(s) + Len(t)
         /\ \A i \in 1 .. Len(s) : (s \o t)[i] = s[i]
         /\ \A i \in 1 .. Len(t) : (s \o t)[Len(s) + i] = t[i]
         /\ Elements(s \o t) = Elements(s) \cup Elements(t)
<1>1. /\ s \o t \in Seq(S) /\ Len(s \o t) = Len(s) + Len(t)
      /\ \A i \in 1 .. Len(s) + Len(t) : (s \o t)[i] = IF i <= Len(s) THEN s[i] ELSE t[i - Len(s)]
  BY ConcatProperties
<1>2. Len(s) \in Nat /\ Len(t) \in Nat
  OBVIOUS
<1>3. \A i \in 1 .. Len(s) : i \in 1 .. Len(s) + Len(t) /\ (s \o t)[i] = s[i]
  BY <1>1, <1>2
<1>4. \A i \in 1 .. Len(t) : Len(s) + i \in 1 .. Len(s) + Len(t) /\ (s \o t)[Len(s) + i] = t[i]
  BY <1>1, <1>2
<1>5. \A i \in 1 .. Len(s) + Len(t) : i \in 1 .. Len(s) \/ \E j \in 1 .. Len(t) : i = Len(s) + j
  <2> TAKE i \in 1 .. Len(s) + Len(t)
  <2>1. i \notin 1 .. Len(s) => i - Len(s) \in 1 .. Len(t) /\ i = Len(s) + (i - Len(s))
    BY <1>2
  <2> QED
    BY <2>1
<1> DEFINE both == s \o t
<1>6. /\ both \in Seq(S) /\ Len(both) = Len(s) + Len(t)
      /\ \A i \in 1 .. Len(s) : i \in 1 .. Len(both) /\ both[i] = s[i]
      /\ \A i \in 1 .. Len(t) : Len(s) + i \in 1 .. Len(both) /\ both[Len(s) + i] = t[i]
      /\ \A i \in 1 .. Len(both) : i \in 1 .. Len(s) \/ \E k \in 1 .. Len(t) : i = Len(s) + k
  BY <1>1, <1>3, <1>4, <1>5
<1> HIDE DEF both
<1>7. Elements(both) \subseteq Elements(s) \cup Elements(t)
  <2> SUFFICES ASSUME NEW i \in 1 .. Len(both)
               PROVE  both[i] \in Elements(s) \cup Elements(t)
    BY DEF Elements
  <2>1. CASE i \in 1 .. Len(s)
    BY <1>6, <2>1 DEF Elements
  <2>2. CASE \E k \in 1 .. Len(t) : i = Len(s) + k
    BY <1>6, <2>2 DEF Elements
  <2> QED
    BY <1>6, <2>1, <2>2
<1>8. Elements(s) \subseteq Elements(both) /\ Elements(t) \subseteq Elements(both)
  BY <1>6 DEF Elements
<1>9. Elements(both) = Elements(s) \cup Elements(t)
  BY <1>7, <1>8
<1> QED
  BY <1>1, <1>3, <1>4, <1>9 DEF both

\* The overrides of an identity: each method once, with all it is to show
LEMMA Applied ==
  ASSUME NEW face \in Faces
  PROVE  /\ ApplyProfileIdentity(face) \in Seq(Requests)
         /\ Elements(ApplyProfileIdentity(face)) =
              IF face = None THEN {}
              ELSE {Request(m, Params(face, m)) : m \in {k \in OverrideMethods : DOMAIN Params(face, k) # {}}}
<1>1. ASSUME NEW m \in OverrideMethods
      PROVE  /\ Override(face, m) \in Seq(Requests)
             /\ Elements(Override(face, m)) =
                  IF DOMAIN Params(face, m) = {} THEN {} ELSE {Request(m, Params(face, m))}
  <2>1. Request(m, Params(face, m)) \in Requests
    BY DEF Request, Requests, Methods, Payloads, Preparing
  <2>2. Override(face, m) = IF DOMAIN Params(face, m) = {} THEN <<>> ELSE <<Request(m, Params(face, m))>>
    BY DEF Override, Request
  <2> DEFINE r == Request(m, Params(face, m))
  <2> HIDE DEF r
  <2>3. <<r>> \in Seq({r}) /\ Len(<<r>>) = 1 /\ <<r>>[1] = r /\ Len(<<>>) = 0
    OBVIOUS
  <2>4. Elements(<<r>>) = {r} /\ Elements(<<>>) = {}
    BY <2>3 DEF Elements
  <2>5. r \in Requests => <<r>> \in Seq(Requests)
    OBVIOUS
  <2>6. <<>> \in Seq(Requests)
    OBVIOUS
  <2> QED
    BY <2>1, <2>2, <2>4, <2>5, <2>6 DEF r
<1>2. CASE face = None
  <2>1. ApplyProfileIdentity(face) = <<>> /\ Len(<<>>) = 0
    BY <1>2 DEF ApplyProfileIdentity
  <2>2. <<>> \in Seq(Requests)
    OBVIOUS
  <2> QED
    BY <1>2, <2>1, <2>2 DEF Elements
<1>3. CASE face # None
  <2> DEFINE a == Override(face, "setUserAgentOverride")
             b == Override(face, "setExtraHTTPHeaders")
             z == Override(face, "setTimezoneOverride")
             v == Override(face, "setDeviceMetricsOverride")
  <2>1. /\ a \in Seq(Requests) /\ b \in Seq(Requests) /\ z \in Seq(Requests) /\ v \in Seq(Requests)
        /\ Elements(a) \cup Elements(b) \cup Elements(z) \cup Elements(v) =
             {Request(m, Params(face, m)) : m \in {k \in OverrideMethods : DOMAIN Params(face, k) # {}}}
    BY <1>1 DEF OverrideMethods
  <2>2. ApplyProfileIdentity(face) = a \o b \o z \o v
    BY <1>3 DEF ApplyProfileIdentity
  <2> HIDE DEF a, b, z, v
  <2> DEFINE ab == a \o b
             abz == ab \o z
             abzv == abz \o v
  <2>3. ab \in Seq(Requests) /\ Elements(ab) = Elements(a) \cup Elements(b)
    BY <2>1, Joint
  <2> HIDE DEF ab
  <2>4. abz \in Seq(Requests) /\ Elements(abz) = Elements(ab) \cup Elements(z)
    BY <2>1, <2>3, Joint
  <2> HIDE DEF abz
  <2>5. abzv \in Seq(Requests) /\ Elements(abzv) = Elements(abz) \cup Elements(v)
    BY <2>1, <2>4, Joint
  <2> HIDE DEF abzv
  <2>6. ApplyProfileIdentity(face) = abzv
    BY <2>2 DEF ab, abz, abzv
  <2>7. Elements(abzv) = Elements(a) \cup Elements(b) \cup Elements(z) \cup Elements(v)
    BY <2>3, <2>4, <2>5
  <2> QED
    BY <1>3, <2>1, <2>5, <2>6, <2>7
<1> QED
  BY <1>2, <1>3

\* The conversation of an action: it attaches and prepares, and does what it is for
LEMMA Programmed ==
  ASSUME CoreInv, NEW c \in Calls, at[c] = "attach"
  PROVE  /\ Program(c) \in Seq(Requests) /\ Len(Program(c)) > Ahead(c)
         /\ \A i \in 1 .. Len(Program(c)) - Ahead(c) : Program(c)[i].method \in Preparing
         /\ \A r \in Elements(Program(c)) : r.method \in OverrideMethods =>
              r \in Elements(ApplyProfileIdentity(task[c].face))
         /\ Elements(ApplyProfileIdentity(task[c].face)) \subseteq Elements(Program(c))
         /\ Program(c)[1].method = "attachToTarget"
         /\ LET n == Len(Program(c))
            IN  /\ task[c].kind = "evaluate" => Program(c)[n] = Evaluate("expression")
                /\ task[c].kind = "navigate" =>
                     /\ Program(c)[n] = Evaluate("location.href") /\ Program(c)[n - 1] = ReadyState
                     /\ Program(c)[n - 2] = Request("navigate", task[c].want)
<1>1. /\ task[c] \in Tasks /\ task[c].face \in Faces /\ task[c].tgt \in Calls /\ task[c].kind \in Actions
      /\ task[c].want \in Pages \cup {Blank}
  BY DEF CoreInv, CallsInv, Call, Shape, Tasks, Running
<1> DEFINE pre == Prologue(c)
           over == ApplyProfileIdentity(task[c].face)
           body == Body(c)
<1>2. /\ pre \in Seq(Requests) /\ Len(pre) = 1 /\ pre[1].method = "attachToTarget"
      /\ \A r \in Elements(pre) : r.method = "attachToTarget"
  <2>1. Request("attachToTarget", task[c].tgt) \in Requests
    BY <1>1 DEF Request, Requests, Methods, Payloads, Preparing
  <2> DEFINE r == Request("attachToTarget", task[c].tgt)
  <2>2. r.method = "attachToTarget"
    BY DEF Request
  <2> HIDE DEF r
  <2>3. pre = <<r>>
    BY DEF Prologue, r
  <2>4. <<r>> \in Seq(Requests) /\ Len(<<r>>) = 1 /\ <<r>>[1] = r
    BY <2>1 DEF r
  <2>5. Elements(<<r>>) = {r}
    BY <2>4 DEF Elements
  <2> QED
    BY <2>2, <2>3, <2>4, <2>5
<1>3. /\ over \in Seq(Requests) /\ \A r \in Elements(over) : r.method \in OverrideMethods
  BY <1>1, Applied DEF Request
<1>4. /\ body \in Seq(Requests) /\ Len(body) = Ahead(c)
      /\ \A r \in Elements(body) : r.method \in Actions
      /\ task[c].kind = "evaluate" => body[1] = Evaluate("expression")
      /\ task[c].kind = "navigate" =>
           body[1] = Request("navigate", task[c].want) /\ body[2] = ReadyState /\ body[3] = Evaluate("location.href")
  <2>1. /\ Evaluate("expression") \in Requests /\ ReadyState \in Requests /\ Evaluate("location.href") \in Requests
        /\ Request("navigate", task[c].want) \in Requests
    BY <1>1 DEF Evaluate, ReadyState, Request, Requests, Methods, Payloads
  <2>2. /\ Evaluate("expression").method = "evaluate" /\ ReadyState.method = "evaluate"
        /\ Evaluate("location.href").method = "evaluate" /\ Request("navigate", task[c].want).method = "navigate"
    BY DEF Evaluate, ReadyState, Request
  <2> DEFINE e == Evaluate("expression")
             l == Evaluate("location.href")
             g == Request("navigate", task[c].want)
             w == ReadyState
  <2>3. body = IF task[c].kind = "evaluate" THEN <<e>> ELSE <<g, w, l>>
    BY DEF Body
  <2>4. Ahead(c) = IF task[c].kind = "evaluate" THEN 1 ELSE 3
    BY <1>1 DEF Ahead, Actions
  <2> HIDE DEF e, l, g, w, body
  <2>5. /\ <<e>> \in Seq({e}) /\ Len(<<e>>) = 1 /\ <<e>>[1] = e
        /\ Len(<<g, w, l>>) = 3 /\ <<g, w, l>>[1] = g /\ <<g, w, l>>[2] = w /\ <<g, w, l>>[3] = l
    OBVIOUS
  <2>6. Elements(<<e>>) = {e} /\ Elements(<<g, w, l>>) = {g, w, l}
    <3>1. 1 .. 1 = {1} /\ 1 .. 3 = {1, 2, 3}
      OBVIOUS
    <3> QED
      BY <2>5, <3>1 DEF Elements
  <2>7. /\ e \in Requests => <<e>> \in Seq(Requests)
        /\ g \in Requests /\ w \in Requests /\ l \in Requests => <<g, w, l>> \in Seq(Requests)
    OBVIOUS
  <2>8. /\ \A r \in {e, g, w, l} : r \in Requests /\ r.method \in Actions
    BY <2>1, <2>2 DEF e, g, w, l, Actions
  <2>9. /\ body \in Seq(Requests) /\ Len(body) = Ahead(c)
        /\ \A r \in Elements(body) : r.method \in Actions
    BY <2>3, <2>4, <2>5, <2>6, <2>7, <2>8
  <2>10. task[c].kind = "navigate" => body[1] = g /\ body[2] = w /\ body[3] = l
    BY <2>3, <2>5
  <2>11. task[c].kind = "evaluate" => body[1] = e
    BY <2>3, <2>5
  <2> QED
    BY <2>9, <2>10, <2>11 DEF e, l, g, w
<1>5. Program(c) = (pre \o over) \o body
  BY DEF Program
<1> HIDE DEF pre, over, body
<1> DEFINE head == pre \o over
           n == Len(head)
<1>6. /\ head \in Seq(Requests) /\ n \in Nat \ {0} /\ head[1].method = "attachToTarget"
      /\ Elements(head) = Elements(pre) \cup Elements(over)
  <2>1. /\ head \in Seq(Requests) /\ Len(head) = 1 + Len(over) /\ head[1] = pre[1]
        /\ Elements(head) = Elements(pre) \cup Elements(over)
    BY <1>2, <1>3, Joint
  <2>2. Len(over) \in Nat
    BY <1>3
  <2> QED
    BY <1>2, <2>1, <2>2
<1>7. /\ Program(c) \in Seq(Requests) /\ Len(Program(c)) = n + Ahead(c)
      /\ \A i \in 1 .. n : Program(c)[i] = head[i]
      /\ \A i \in 1 .. Ahead(c) : Program(c)[n + i] = body[i]
      /\ Elements(Program(c)) = Elements(head) \cup Elements(body)
  <2> DEFINE all == head \o body
  <2>1. Program(c) = all
    BY <1>5
  <2> HIDE DEF head
  <2>2. /\ all \in Seq(Requests) /\ Len(all) = n + Len(body)
        /\ \A i \in 1 .. n : all[i] = head[i]
        /\ \A i \in 1 .. Len(body) : all[n + i] = body[i]
        /\ Elements(all) = Elements(head) \cup Elements(body)
    BY <1>4, <1>6, Joint
  <2> HIDE DEF all, n
  <2> QED
    BY <1>4, <2>1, <2>2
<1> HIDE DEF head
<1>8. \A i \in 1 .. n : head[i].method \in Preparing
  <2>1. \A r \in Elements(head) : r.method \in Preparing
    BY <1>2, <1>3, <1>6 DEF Preparing
  <2> QED
    BY <2>1 DEF Elements
<1>9. Ahead(c) \in {1, 3} /\ n > 0
  BY <1>6 DEF Ahead
<1>10. Program(c)[1].method = "attachToTarget"
  BY <1>6, <1>7, <1>9
<1>11. /\ Len(Program(c)) > Ahead(c) /\ Len(Program(c)) - Ahead(c) = n
  BY <1>6, <1>7, <1>9
<1>12. /\ \A r \in Elements(Program(c)) : r.method \in OverrideMethods => r \in Elements(over)
       /\ Elements(over) \subseteq Elements(Program(c))
  BY <1>2, <1>4, <1>6, <1>7 DEF Actions, OverrideMethods
<1>13. task[c].kind = "evaluate" => Program(c)[Len(Program(c))] = Evaluate("expression")
  BY <1>4, <1>7, <1>9 DEF Ahead
<1>14. task[c].kind = "navigate" =>
         /\ Len(Program(c)) = n + 3
         /\ Program(c)[n + 1] = body[1] /\ Program(c)[n + 2] = body[2] /\ Program(c)[n + 3] = body[3]
  BY <1>7 DEF Ahead
<1>15. task[c].kind = "navigate" =>
         LET k == Len(Program(c))
         IN  /\ Program(c)[k] = Evaluate("location.href") /\ Program(c)[k - 1] = ReadyState
             /\ Program(c)[k - 2] = Request("navigate", task[c].want)
  <2>1. (n + 3) - 1 = n + 2 /\ (n + 3) - 2 = n + 1
    BY <1>6
  <2> QED
    BY <1>4, <1>14, <2>1
<1> QED
  BY <1>7, <1>8, <1>10, <1>11, <1>12, <1>13, <1>15 DEF over

-----------------------------------------------------------------------------
\* A connection of its own for each conversation
LEMMA ConnectsTo ==
  ASSUME CoreInv, NEW c \in Calls, NEW to \in Conversing, NEW todo \in Seq(Requests), todo # <<>>,
         NEW tasks \in [Calls -> Tasks], tasks[c].kind \in Kinds,
         \A d \in Calls : d # c =>
           /\ at[d] \notin Running => tasks[d] = task[d]
           /\ tasks[d].kind = task[d].kind /\ tasks[d].tgt = task[d].tgt /\ tasks[d].want = task[d].want,
         Connect(c, to, todo, tasks), life' = "ready"
  PROVE  /\ CallsInv' /\ \A d \in Calls : d # c => Kept(d)
         /\ \/ at'[c] = "failed" /\ task'[c] = NoTask /\ conn'[c] = NoConn /\ Call(c)'
            \/ /\ at'[c] = to /\ task' = tasks /\ conn'[c].todo = todo /\ Place(c)' /\ Turn(c)'
               /\ Inbox(c)' = {}
<1>1. CASE listener = "nobody"
  <2>1. End(c, "failed", None) /\ None \in Values \cup {"no cookies"}
    BY <1>1 DEF Connect, Values
  <2> QED
    BY <2>1, Ended
<1>2. CASE listener # "nobody"
  <2>1. /\ at \in [Calls -> Running \cup {"told", "failed", "idle"}] /\ conn \in [Calls -> Conns]
        /\ told \in [Calls -> Values \cup {"no cookies"}] /\ listener \in {"child", "other"}
    BY <1>2 DEF CoreInv, CallsInv, LaunchInv
  <2> DEFINE s == Sent(1, todo)
             new == [to |-> listener, id |-> 1, todo |-> todo, wire |-> <<s>>, in |-> <<>>]
  <2>2. /\ at' = [at EXCEPT ![c] = to] /\ task' = tasks /\ told' = told
        /\ conn' = [conn EXCEPT ![c] = new]
    BY <1>2 DEF Connect, Goto
  <2>3. s \in Wires
    <3>1. Head(todo) \in Requests
      BY Tailed
    <3> QED
      BY <3>1 DEF Sent, Requests, Wires
  <2>4. <<s>> \in Seq(Wires) /\ <<>> \in Seq(Frames)
    <3> HIDE DEF s
    <3> QED
      BY <2>3
  <2>5. /\ new.to = listener /\ new.id = 1 /\ new.todo = todo /\ new.wire = <<s>> /\ new.in = <<>>
    OBVIOUS
  <2>6. new \in Conns
    <3> HIDE DEF s
    <3> QED
      BY <2>1, <2>4 DEF Conns
  <2> HIDE DEF new
  <2>7. conn'[c] = new /\ at'[c] = to /\ \A d \in Calls : d # c => conn'[d] = conn[d] /\ at'[d] = at[d]
    BY <2>1, <2>2
  <2>8. CallsInv'
    BY <2>1, <2>2, <2>6 DEF CallsInv, Conversing, Running
  <2>9. \A d \in Calls : d # c => Kept(d)
    BY <2>2, <2>7 DEF Kept
  <2>10. Place(c)'
    BY <2>1, <2>2, <2>5, <2>7 DEF Place, Conversing, Running
  <2>11. Inbox(c)' = {}
    <3>1. Len(<<>>) = 0
      OBVIOUS
    <3> QED
      BY <2>5, <2>7, <3>1 DEF Inbox, Elements
  <2>12. Turn(c)'
    BY <2>5, <2>7, <2>11 DEF Turn, Replied
  <2> QED
    BY <2>2, <2>5, <2>7, <2>8, <2>9, <2>10, <2>11, <2>12
<1> QED
  BY <1>1, <1>2

\* Actions that join those under way
LEMMA Joining ==
  ASSUME CoreInv, NEW c \in Calls, NEW knows \in Tasks, knows.kind \in Actions
  PROVE  LET j == Joined(c, knows)
         IN  /\ j \in [Calls -> Tasks]
             /\ j[c].kind = knows.kind /\ j[c].tgt = knows.tgt /\ j[c].want = knows.want
             /\ j[c].until = knows.until /\ j[c].face = knows.face
             /\ j[c].met = {task[e].kind : e \in Calls} \cap Actions
             /\ \A d \in Calls : d # c =>
                  /\ j[d] = Meets(d, knows.kind)
                  /\ at[d] \notin Running => j[d] = task[d]
                  /\ j[d].kind = task[d].kind /\ j[d].tgt = task[d].tgt /\ j[d].want = task[d].want
<1> DEFINE met == {task[e].kind : e \in Calls} \cap {"navigate", "evaluate"}
           mine == [knows EXCEPT !.met = met]
<1>1. knows.kind \in Met
  BY DEF Actions, Met
<1>2. Joined(c, knows) = [d \in Calls |-> IF d = c THEN mine ELSE Meets(d, knows.kind)]
  BY DEF Joined
<1>3. met \in SUBSET Met /\ met = {task[e].kind : e \in Calls} \cap Actions
  BY DEF Met, Actions
<1> HIDE DEF met
<1>4. /\ mine \in Tasks /\ mine.kind = knows.kind /\ mine.tgt = knows.tgt /\ mine.want = knows.want
      /\ mine.until = knows.until /\ mine.face = knows.face /\ mine.met = met
  BY <1>3 DEF Tasks
<1> HIDE DEF mine
<1>5. \A d \in Calls : LET t == Meets(d, knows.kind)
                       IN  /\ t \in Tasks
                           /\ at[d] \notin Running => t = task[d]
                           /\ t.kind = task[d].kind /\ t.tgt = task[d].tgt /\ t.want = task[d].want
  BY <1>1, MeetsMore
<1> QED
  BY <1>2, <1>3, <1>4, <1>5

LEMMA EnsuresTarget ==
  ASSUME CoreInv, NEW c \in Calls, at[c] = "idle", NEW knows \in Tasks,
         knows.kind \in Actions \cap Kinds, EnsureTarget(c, knows), life' = "ready", child' = child
  PROVE  /\ CallsInv' /\ Call(c)' /\ \A d \in Calls : d # c => Kept(d)
         /\ at'[c] \in {"target", "identity", "failed"}
         /\ at'[c] = "failed" \/
            \E k \in Tasks : k.kind = knows.kind /\ task' = Joined(c, k)
<1>1. /\ at \in [Calls -> Running \cup {"told", "failed", "idle"}] /\ conn \in [Calls -> Conns]
      /\ told \in [Calls -> Values \cup {"no cookies"}] /\ cached \in Calls \cup {None}
      /\ conn[c] = NoConn
  BY DEF CoreInv, CallsInv, LaunchInv, Call, Place, Conversing
<1>2. CASE cached = None
  <2> DEFINE r == Request("createTarget", None)
             tasks == Joined(c, knows)
  <2>1. r \in Requests
    BY DEF Request, Requests, Methods, Payloads
  <2> HIDE DEF r
  <2>2. <<r>> \in Seq(Requests) /\ <<r>> # <<>> /\ "target" \in Conversing
    BY <2>1 DEF Conversing
  <2>3. /\ tasks \in [Calls -> Tasks] /\ tasks[c].kind = knows.kind
        /\ \A d \in Calls : d # c =>
             /\ at[d] \notin Running => tasks[d] = task[d]
             /\ tasks[d].kind = task[d].kind /\ tasks[d].tgt = task[d].tgt /\ tasks[d].want = task[d].want
    BY Joining
  <2>4. Connect(c, "target", <<r>>, tasks)
    BY <1>2 DEF EnsureTarget, r
  <2> DEFINE todo == <<r>>
  <2> HIDE DEF tasks, todo
  <2>5. /\ CallsInv' /\ \A d \in Calls : d # c => Kept(d)
        /\ \/ at'[c] = "failed" /\ Call(c)'
           \/ at'[c] = "target" /\ task' = tasks /\ conn'[c].todo = todo /\ Place(c)' /\ Turn(c)'
    <3>1. todo \in Seq(Requests) /\ todo # <<>> /\ Connect(c, "target", todo, tasks)
      BY <2>2, <2>4 DEF todo
    <3> QED
      BY <2>2, <2>3, <3>1, ConnectsTo
  <2>6. at'[c] = "target" /\ task' = tasks /\ conn'[c].todo = todo => Shape(c)'
    BY <2>3 DEF Shape, r, todo
  <2> QED
    BY <2>5, <2>6 DEF Call, tasks
<1>3. CASE cached # None
  <2> DEFINE k == [knows EXCEPT !.tgt = cached]
             tasks == Joined(c, k)
  <2>1. k \in Tasks /\ k.kind = knows.kind /\ k.tgt \in Calls
    BY <1>1, <1>3 DEF Tasks
  <2>2. /\ at' = [at EXCEPT ![c] = "identity"] /\ task' = tasks /\ UNCHANGED <<conn, told>>
    BY <1>3 DEF EnsureTarget, Goto
  <2> HIDE DEF k
  <2>3. /\ tasks \in [Calls -> Tasks] /\ tasks[c].kind = knows.kind /\ tasks[c].tgt \in Calls
        /\ \A d \in Calls : d # c =>
             /\ at[d] \notin Running => tasks[d] = task[d]
             /\ tasks[d].kind = task[d].kind /\ tasks[d].tgt = task[d].tgt /\ tasks[d].want = task[d].want
    BY <2>1, Joining
  <2>4. \E t \in Tasks : t.kind = knows.kind /\ task' = Joined(c, t)
    BY <2>1, <2>2
  <2> HIDE DEF tasks
  <2>5. CallsInv'
    BY <1>1, <2>2, <2>3 DEF CallsInv, Running
  <2>6. \A d \in Calls : d # c => Kept(d)
    BY <1>1, <2>2, <2>3 DEF Kept
  <2>7. at'[c] = "identity" /\ conn'[c] = NoConn
    BY <1>1, <2>2
  <2>8. Call(c)'
    BY <2>2, <2>3, <2>7 DEF Call, Place, Shape, Turn, Running, Conversing
  <2> QED
    BY <2>4, <2>5, <2>6, <2>7, <2>8
<1> QED
  BY <1>2, <1>3

LEMMA CoreBegin ==
  ASSUME CoreInv, NEW c \in Calls, BeginStorage(c) \/ BeginNavigate(c) \/ BeginEvaluate(c)
  PROVE  CoreInv'
<1>1. /\ Begin(c) /\ at[c] = "idle"
      /\ UNCHANGED <<launchVars, row, cached, webVars, foreign>> /\ child' = child /\ life' = "ready"
      /\ mishaps' = mishaps \/ Fault("overlap")
  BY DEF BeginStorage, BeginNavigate, BeginEvaluate, Begin, launchVars
<1>2. WebInv' /\ mishaps' \in 0 .. MaxMishaps /\ cached' \in Calls \cup {None}
  BY <1>1, BoundAssumption DEF CoreInv, WebInv, LaunchInv, webVars, Fault
<1>3. CallsInv' /\ Call(c)' /\ \A d \in Calls : d # c => Kept(d)
  <2>1. CASE BeginStorage(c)
    <3>1. PICK k \in Kinds \cap DOMAIN StorageMethod :
            Connect(c, "talk", <<Request(StorageMethod[k], None)>>,
                    [task EXCEPT ![c] = [NoTask EXCEPT !.kind = k]])
      BY <2>1 DEF BeginStorage
    <3> DEFINE r == Request(StorageMethod[k], None)
               mine == [NoTask EXCEPT !.kind = k]
               tasks == [task EXCEPT ![c] = mine]
    <3>2. k \in {"inject", "fetch"} /\ r \in Requests
      BY DEF StorageMethod, Request, Requests, Methods, Payloads
    <3>3. mine \in Tasks /\ mine.kind = k
      BY NothingLeft DEF NoTask, Tasks
    <3> HIDE DEF mine
    <3>4. tasks \in [Calls -> Tasks] /\ tasks[c] = mine /\ \A d \in Calls : d # c => tasks[d] = task[d]
      BY <3>3 DEF CoreInv, CallsInv
    <3> HIDE DEF r
    <3>5. <<r>> \in Seq(Requests) /\ <<r>> # <<>> /\ "talk" \in Conversing
      BY <3>2 DEF Conversing
    <3>6. Connect(c, "talk", <<r>>, tasks)
      BY <3>1 DEF r, mine
    <3> DEFINE todo == <<r>>
    <3> HIDE DEF tasks, todo
    <3>7. /\ CallsInv' /\ \A d \in Calls : d # c => Kept(d)
          /\ \/ at'[c] = "failed" /\ Call(c)'
             \/ at'[c] = "talk" /\ task' = tasks /\ conn'[c].todo = todo /\ Place(c)' /\ Turn(c)'
      <4>1. todo \in Seq(Requests) /\ todo # <<>> /\ Connect(c, "talk", todo, tasks)
        BY <3>5, <3>6 DEF todo
      <4> QED
        BY <1>1, <3>3, <3>4, <3>5, <4>1, ConnectsTo
    <3>8. at'[c] = "talk" /\ task' = tasks /\ conn'[c].todo = todo => Shape(c)'
      BY <3>2, <3>3, <3>4 DEF Shape, r, todo, Actions
    <3> QED
      BY <3>7, <3>8 DEF Call
  <2>2. CASE BeginNavigate(c)
    <3>1. PICK p \in Pages, u \in {"domcontentloaded", "load"} :
            EnsureTarget(c, [NoTask EXCEPT !.kind = "navigate", !.want = p, !.until = u])
      BY <2>2 DEF BeginNavigate
    <3> DEFINE knows == [NoTask EXCEPT !.kind = "navigate", !.want = p, !.until = u]
    <3>2. knows \in Tasks /\ knows.kind \in Actions \cap Kinds
      BY <2>2, NothingLeft DEF BeginNavigate, Actions, NoTask, Tasks
    <3> HIDE DEF knows
    <3> QED
      BY <1>1, <3>1, <3>2, EnsuresTarget DEF knows
  <2>3. CASE BeginEvaluate(c)
    <3> DEFINE knows == [NoTask EXCEPT !.kind = "evaluate"]
    <3>1. knows \in Tasks /\ knows.kind \in Actions \cap Kinds
      BY <2>3, NothingLeft DEF BeginEvaluate, Actions, NoTask, Tasks
    <3>2. EnsureTarget(c, knows)
      BY <2>3 DEF BeginEvaluate
    <3> HIDE DEF knows
    <3> QED
      BY <1>1, <3>1, <3>2, EnsuresTarget
  <2> QED
    BY <2>1, <2>2, <2>3
<1> QED
  BY <1>1, <1>2, <1>3, OneCall

LEMMA Attaches ==
  ASSUME CoreInv, NEW c \in Calls, Attach(c)
  PROVE  /\ CoreInv' /\ \A d \in Calls : d # c => Kept(d)
         /\ at[c] = "attach"
         /\ \/ at'[c] = "failed" /\ task'[c] = NoTask
            \/ /\ at'[c] = "talk" /\ conn'[c].todo = Program(c) /\ Inbox(c)' = {}
               /\ task' = [task EXCEPT ![c].face = None]
<1>1. /\ at[c] = "attach" /\ UNCHANGED <<launchVars, row, cached, foreign, webVars, mishaps>>
      /\ life' = "ready"
  BY DEF Attach, besideCall, histVars, CoreInv, Call, Place, launchVars
<1> DEFINE tasks == [task EXCEPT ![c].face = None]
<1>2. /\ tasks \in [Calls -> Tasks] /\ \A d \in Calls : d # c => tasks[d] = task[d]
      /\ tasks[c].kind = task[c].kind /\ tasks[c].tgt = task[c].tgt /\ tasks[c].want = task[c].want
  BY DEF CoreInv, CallsInv, Tasks, Faces
<1>3. /\ task[c].kind \in Actions /\ task[c].kind \in Kinds /\ task[c].tgt \in Calls
  BY <1>1 DEF CoreInv, Call, Place, Shape, Running
<1>4. Program(c) \in Seq(Requests) /\ Program(c) # <<>> /\ "talk" \in Conversing
  <2>1. Program(c) \in Seq(Requests) /\ Len(Program(c)) > Ahead(c) /\ Ahead(c) \in {1, 3}
    BY <1>1, Programmed DEF Ahead
  <2> QED
    BY <2>1 DEF Conversing
<1>5. Connect(c, "talk", Program(c), tasks)
  BY DEF Attach
<1> HIDE DEF tasks
<1>6. /\ CallsInv' /\ \A d \in Calls : d # c => Kept(d)
      /\ \/ at'[c] = "failed" /\ task'[c] = NoTask /\ Call(c)'
         \/ /\ at'[c] = "talk" /\ task' = tasks /\ conn'[c].todo = Program(c) /\ Place(c)' /\ Turn(c)'
            /\ Inbox(c)' = {}
  BY <1>1, <1>2, <1>3, <1>4, <1>5, ConnectsTo
<1>7. ASSUME at'[c] = "talk", task' = tasks, conn'[c].todo = Program(c)
      PROVE  Shape(c)'
  <2>1. Left(c)' = Len(Program(c)) /\ Ahead(c)' = Ahead(c)
    BY <1>2, <1>7 DEF Left, Ahead
  <2>2. Left(c)' > 1 /\ (task[c].kind = "navigate" => Left(c)' > 2)
    BY <1>1, <2>1, Programmed DEF Ahead
  <2> QED
    BY <1>1, <1>2, <1>3, <1>7, <2>1, <2>2, Programmed DEF Shape, Running, Actions
<1>8. CoreInv'
  <2>1. /\ UNCHANGED <<launchVars, row, foreign>> /\ cached' \in Calls \cup {None}
        /\ mishaps' \in 0 .. MaxMishaps /\ WebInv'
    BY <1>1 DEF CoreInv, LaunchInv, WebInv, webVars
  <2> QED
    BY <1>6, <1>7, <2>1, OneCall DEF Call
<1> QED
  BY <1>1, <1>6, <1>8 DEF tasks

-----------------------------------------------------------------------------
LEMMA CoreInit == Init => CoreInv
<1> SUFFICES ASSUME Init
             PROVE  CoreInv
  OBVIOUS
<1>1. LaunchInv
  BY BoundAssumption DEF Init, LaunchInv, Rows
<1>2. WebInv
  BY DEF Init, WebInv, Payloads
<1>3. CallsInv
  BY NothingLeft DEF Init, CallsInv, Values
<1>4. \A c \in Calls : Call(c)
  BY DEF Init, Call, Place, Shape, Turn, Running, Conversing
<1> QED
  BY <1>1, <1>2, <1>3, <1>4 DEF CoreInv

LEMMA CoreStep == CoreInv /\ [Next]_vars => CoreInv'
<1> SUFFICES ASSUME CoreInv, [Next]_vars
             PROVE  CoreInv'
  OBVIOUS
<1>1. CASE Spawn \/ Starting \/ ChildBinds \/ ChildExits \/ OtherBinds
  BY <1>1, CoreLaunch, CoreGone DEF Starting
<1>2. CASE UpdateProfile \/ \E t \in Calls : Load(t)
  BY <1>2, CoreBeside
<1>3. ASSUME NEW c \in Calls, BeginStorage(c) \/ BeginNavigate(c) \/ BeginEvaluate(c)
      PROVE  CoreInv'
  BY <1>3, CoreBegin
<1>4. ASSUME NEW c \in Calls, Handler(c)
      PROVE  CoreInv'
  BY <1>4, CoreHandler, Attaches DEF Handler
<1>5. ASSUME NEW c \in Calls, Serve(c) \/ Interject(c)
      PROVE  CoreInv'
  BY <1>5, CoreServe
<1>6. CASE UNCHANGED vars
  <2>1. UNCHANGED <<launchVars, row, cached, foreign, mishaps>> /\ UNCHANGED webVars /\ UNCHANGED callVars
    BY <1>6 DEF vars, histVars
  <2>2. LaunchInv' /\ WebInv' /\ CallsInv'
    BY <2>1 DEF CoreInv, LaunchInv, WebInv, CallsInv, launchVars, webVars, callVars
  <2>3. \A c \in Calls : Kept(c)
    BY <2>1 DEF Kept, callVars
  <2>4. \A c \in Calls : Call(c)'
    BY <2>1, <2>3, CallKept DEF CoreInv, launchVars
  <2> QED
    BY <2>2, <2>4 DEF CoreInv
<1> QED
  BY <1>1, <1>2, <1>3, <1>4, <1>5, <1>6 DEF Next

LEMMA Core == Spec => []CoreInv
BY CoreInit, CoreStep, PTL DEF Spec

\* Every variable stays in its range, and a handler has requests to make exactly while it
\* converses (the state of create_session and of the handlers in gateway.rs).
THEOREM TypeCorrect == Spec => []TypeOK
BY Core, CoreTypes, PTL

-----------------------------------------------------------------------------
\* Only wait_for_cdp_endpoint decides how a launch ends
LEMMA Decides ==
  ASSUME CoreInv, Next, life = "waiting", life' # life
  PROVE  Connected \/ GiveUp
<1> USE DEF launchVars
<1>1. ~Spawn
  BY DEF Spawn
<1>2. ~Retry /\ ~ChildBinds /\ ~ChildExits /\ ~OtherBinds /\ ~UpdateProfile
  BY DEF Retry, ChildBinds, ChildExits, OtherBinds, UpdateProfile
<1>3. \A c \in Calls : ~BeginStorage(c) /\ ~BeginNavigate(c) /\ ~BeginEvaluate(c)
  BY DEF BeginStorage, BeginNavigate, BeginEvaluate, Begin
<1>4. \A c \in Calls : ~Handler(c)
  BY DEF Handler, ReadIdentity, Attach, Skip, TakeError, TakeTarget, TakePoll, TakeReply, Closed, besideCall
<1>5. \A c \in Calls : ~Serve(c) /\ ~Interject(c) /\ ~Load(c)
  BY DEF Serve, ServeTarget, ServeAttach, ServeOverride, ServeNavigate, LoadFails, ServeEvaluate,
         ServeStorage, Refuse, Interject, Load, besideWeb
<1> QED
  BY <1>1, <1>2, <1>3, <1>4, <1>5 DEF Next, Starting

\* As long as no other process was given the port, create_session answers with a browser
\* that serves, and one it gave up on is not left running (gateway.rs:239-251, 1084-1098):
\* whatever else happens on the machine, a launch is settled with its child accounted for.
THEOREM LaunchesSettle == Spec => LaunchSettles
<1>1. CoreInv /\ CoreInv' /\ [Next]_vars =>
        [/\ life = "waiting" /\ life' = "ready" /\ ~foreign => child = "serving"
         /\ life' = "failed" => child' \notin {"booting", "serving"}]_vars
  <2> SUFFICES ASSUME CoreInv, CoreInv', Next
               PROVE  /\ life = "waiting" /\ life' = "ready" /\ ~foreign => child = "serving"
                      /\ life' = "failed" => child' \notin {"booting", "serving"}
    OBVIOUS
  <2>1. life' = "failed" => child' = "exited"
    BY DEF CoreInv, LaunchInv
  <2>2. ASSUME life = "waiting", life' = "ready", ~foreign
        PROVE  child = "serving"
    <3>1. Connected
      BY <2>2, Decides DEF GiveUp
    <3> QED
      BY <2>2, <3>1 DEF Connected, CoreInv, LaunchInv
  <2> QED
    BY <2>1, <2>2
<1> QED
  BY <1>1, Core, PTL DEF Spec, LaunchSettles

-----------------------------------------------------------------------------
\* A call answers with the value of the last reply, fetch_cookies also when it is cut off
LEMMA Answers ==
  ASSUME CoreInv, Next, NEW c \in Calls, at[c] = "talk", at'[c] = "told"
  PROVE  \/ TakeReply(c) /\ Left(c) = 1 /\ told'[c] = First(c).value
         \/ Closed(c) /\ task[c].kind = "fetch" /\ told'[c] = "no cookies"
<1>1. /\ at \in [Calls -> Running \cup {"told", "failed", "idle"}]
      /\ told \in [Calls -> Values \cup {"no cookies"}]
  BY DEF CoreInv, CallsInv
<1>2. at' # at
  OBVIOUS
<1>3. ~Spawn /\ ~Starting /\ ~ChildBinds /\ ~ChildExits /\ ~OtherBinds /\ ~UpdateProfile
  BY <1>2 DEF Spawn, Starting, Connected, Retry, GiveUp, ChildBinds, ChildExits, OtherBinds, UpdateProfile,
              besideLaunch, callVars
<1>4. \A d \in Calls : ~Skip(d) /\ ~Serve(d) /\ ~Interject(d) /\ ~Load(d)
  BY <1>2 DEF Skip, Serve, ServeTarget, ServeAttach, ServeOverride, ServeNavigate, LoadFails, ServeEvaluate,
              ServeStorage, Refuse, Interject, Load, besideWeb
<1>5. ASSUME NEW d \in Calls,
             \/ BeginStorage(d) \/ BeginNavigate(d) \/ BeginEvaluate(d) \/ ReadIdentity(d)
             \/ Attach(d) \/ TakeError(d) \/ TakeTarget(d) \/ TakePoll(d)
      PROVE  FALSE
  <2>1. at' = at \/ \E to \in {"failed", "talk", "target", "identity", "attach"} : at' = [at EXCEPT ![d] = to]
    BY <1>5 DEF BeginStorage, BeginNavigate, BeginEvaluate, EnsureTarget, ReadIdentity, Attach,
                TakeError, TakeTarget, TakePoll, Connect, End, Goto
  <2> QED
    BY <1>1, <2>1
<1>6. ASSUME NEW d \in Calls, TakeReply(d)
      PROVE  TakeReply(c) /\ Left(c) = 1 /\ told'[c] = First(c).value
  <2>1. Len(conn[d].todo) = 1 /\ End(d, "told", First(d).value)
    BY <1>2, <1>6 DEF TakeReply
  <2>2. d = c
    BY <1>1, <2>1 DEF End, Goto
  <2> QED
    BY <1>1, <1>6, <2>1, <2>2 DEF End, Left
<1>7. ASSUME NEW d \in Calls, Closed(d)
      PROVE  Closed(c) /\ task[c].kind = "fetch" /\ told'[c] = "no cookies"
  <2>1. \/ task[d].kind = "fetch" /\ End(d, "told", "no cookies")
        \/ End(d, "failed", None)
    BY <1>7 DEF Closed
  <2>2. d = c /\ task[d].kind = "fetch" /\ End(d, "told", "no cookies")
    BY <1>1, <2>1 DEF End, Goto
  <2> QED
    BY <1>1, <1>7, <2>2 DEF End
<1> QED
  BY <1>3, <1>4, <1>5, <1>6, <1>7 DEF Next, Handler

\* fetch_cookies reports no cookies only for a browser that went away, and whatever the
\* browser refused, no other frame passes for cookies (gateway.rs:708-729): it looks for
\* cookies in every frame, and none but the browser's own answer has them.
THEOREM CookiesAreTheBrowsers == Spec => FetchTellsTruth
<1> DEFINE P == \A c \in Calls : task[c].kind = "fetch" /\ at[c] = "talk" /\ at'[c] = "told" =>
                  IF told'[c] = "no cookies" THEN child = "exited" ELSE told'[c] \in {"child", "other"}
<1>1. CoreInv /\ [Next]_vars => [P]_vars
  <2> SUFFICES ASSUME CoreInv, Next, NEW c \in Calls,
                      task[c].kind = "fetch", at[c] = "talk", at'[c] = "told"
               PROVE  IF told'[c] = "no cookies" THEN child = "exited" ELSE told'[c] \in {"child", "other"}
    OBVIOUS
  <2>1. CASE TakeReply(c) /\ told'[c] = First(c).value
    <3>1. HasReply(c)
      BY <2>1 DEF TakeReply, Accepted
    <3> QED
      BY <2>1, <3>1, Unanswered
  <2>2. CASE Closed(c) /\ told'[c] = "no cookies"
    BY <2>2 DEF Closed, CoreInv, Call, Place
  <2> QED
    BY <2>1, <2>2, Answers
<1> QED
  BY <1>1, Core, PTL DEF Spec, FetchTellsTruth

-----------------------------------------------------------------------------
\* What a step may do to a call: nothing that matters to it, or an action of its own
Still(c) ==
  /\ at'[c] = at[c] /\ conn'[c].todo = conn[c].todo /\ conn'[c].id = conn[c].id
  /\ \A f \in Inbox(c)' : f.id = conn[c].id => f \in Inbox(c)
  /\ task'[c].kind = task[c].kind /\ task'[c].tgt = task[c].tgt /\ task'[c].want = task[c].want
  /\ task'[c].until = task[c].until /\ task'[c].face = task[c].face
  /\ task[c].met \subseteq task'[c].met

Moves(c) ==
  \/ BeginStorage(c) \/ BeginNavigate(c) \/ BeginEvaluate(c)
  \/ ReadIdentity(c) \/ Attach(c) \/ TakeError(c) \/ TakeTarget(c)
  \/ TakePoll(c) \/ TakeReply(c) \/ Closed(c) \/ Serve(c)

LEMMA BeginsAction ==
  ASSUME CoreInv, NEW c \in Calls, BeginNavigate(c) \/ BeginEvaluate(c)
  PROVE  /\ at[c] = "idle" /\ \A d \in Calls : d # c => Kept(d)
         /\ at'[c] \in {"target", "identity", "failed"}
         /\ \/ at'[c] = "failed" /\ \A d \in Calls : d # c => task'[d] = task[d]
            \/ \E k \in Tasks : k.kind \in Actions /\ task' = Joined(c, k)
<1>1. at[c] = "idle" /\ life' = "ready" /\ child' = child
  BY DEF BeginNavigate, BeginEvaluate, Begin, launchVars
<1>2. PICK knows \in Tasks : knows.kind \in Actions \cap Kinds /\ EnsureTarget(c, knows)
  <2>1. CASE BeginNavigate(c)
    <3>1. PICK p \in Pages, u \in {"domcontentloaded", "load"} :
            EnsureTarget(c, [NoTask EXCEPT !.kind = "navigate", !.want = p, !.until = u])
      BY <2>1 DEF BeginNavigate
    <3> DEFINE k == [NoTask EXCEPT !.kind = "navigate", !.want = p, !.until = u]
    <3>2. k \in Tasks /\ k.kind \in Actions \cap Kinds
      BY <2>1, NothingLeft DEF BeginNavigate, Actions, NoTask, Tasks
    <3> HIDE DEF k
    <3> QED
      BY <3>1, <3>2 DEF k
  <2>2. CASE BeginEvaluate(c)
    <3> DEFINE k == [NoTask EXCEPT !.kind = "evaluate"]
    <3>1. k \in Tasks /\ k.kind \in Actions \cap Kinds
      BY <2>2, NothingLeft DEF BeginEvaluate, Actions, NoTask, Tasks
    <3>2. EnsureTarget(c, k)
      BY <2>2 DEF BeginEvaluate
    <3> HIDE DEF k
    <3> QED
      BY <3>1, <3>2
  <2> QED
    BY <2>1, <2>2
<1>3. /\ \A d \in Calls : d # c => Kept(d)
      /\ at'[c] \in {"target", "identity", "failed"}
      /\ at'[c] = "failed" \/ \E k \in Tasks : k.kind = knows.kind /\ task' = Joined(c, k)
  BY <1>1, <1>2, EnsuresTarget
<1>4. at'[c] = "failed" => \A d \in Calls : d # c => task'[d] = task[d]
  <2>1. at \in [Calls -> Running \cup {"told", "failed", "idle"}] /\ task \in [Calls -> Tasks]
    BY DEF CoreInv, CallsInv
  <2> QED
    BY <1>2, <2>1 DEF EnsureTarget, Connect, End, Goto
<1> QED
  BY <1>1, <1>2, <1>3, <1>4

\* A step leaves every call alone, but for the one that moves
LEMMA StillOrMoves ==
  ASSUME CoreInv, Next, NEW c \in Calls, ~Moves(c)
  PROVE  Still(c)
<1>1. /\ at \in [Calls -> Running \cup {"told", "failed", "idle"}] /\ conn \in [Calls -> Conns]
      /\ task \in [Calls -> Tasks] /\ Call(c)
  BY DEF CoreInv, CallsInv
<1>2. ASSUME at'[c] = at[c], conn'[c] = conn[c],
             task'[c] = task[c] \/ \E what \in Met : task'[c] = Meets(c, what)
      PROVE  Still(c)
  BY <1>2, MeetsMore DEF Still, Inbox
<1>3. CASE Spawn \/ Connected \/ Retry \/ ChildBinds \/ OtherBinds \/ \E t \in Calls : Load(t)
  <2>1. at' = at /\ conn' = conn /\ task' = task
    BY <1>3 DEF Spawn, Connected, Retry, ChildBinds, OtherBinds, Load, besideLaunch, besideWeb, callVars
  <2> QED
    BY <1>2, <2>1
<1>4. CASE GiveUp \/ ChildExits
  <2>1. at' = at /\ task' = task /\ ChildGone
    BY <1>4 DEF GiveUp, ChildExits, besideLaunch
  <2>2. /\ conn'[c].todo = conn[c].todo /\ conn'[c].id = conn[c].id /\ conn'[c].in = conn[c].in
    BY <1>1, <2>1 DEF ChildGone, Conns
  <2> QED
    BY <2>1, <2>2 DEF Still, Inbox
<1>5. CASE UpdateProfile
  BY <1>2, <1>5 DEF UpdateProfile, Met
<1>6. ASSUME NEW d \in Calls, Handler(d) \/ Serve(d), d # c
      PROVE  Still(c)
  <2>1. conn'[c] = conn[c] /\ at'[c] = at[c] /\ task'[c] = task[c]
    <3>1. CASE Handler(d)
      BY <1>1, <1>6, <3>1 DEF Handler, ReadIdentity, Attach, Connect, Skip, TakeError, TakeTarget,
                        TakePoll, TakeReply, Closed, End, Goto, Ask
    <3>2. CASE Serve(d)
      BY <1>1, <1>6, <3>2 DEF Serve, ServeTarget, ServeAttach, ServeOverride, ServeNavigate, LoadFails,
                        ServeEvaluate, ServeStorage, Refuse, Answer, besideWeb
    <3> QED
      BY <1>6, <3>1, <3>2
  <2> QED
    BY <1>2, <2>1
<1>7. ASSUME NEW d \in Calls, BeginStorage(d) \/ BeginNavigate(d) \/ BeginEvaluate(d)
      PROVE  Still(c)
  <2>1. d # c
    BY <1>7 DEF Moves
  <2>2. CASE BeginStorage(d)
    <3>1. conn'[c] = conn[c] /\ at'[c] = at[c] /\ task'[c] = task[c]
      BY <1>1, <2>1, <2>2 DEF BeginStorage, Connect, End, Goto
    <3> QED
      BY <1>2, <3>1
  <2>3. CASE BeginNavigate(d) \/ BeginEvaluate(d)
    <3>1. /\ Kept(c)
          /\ task'[c] = task[c] \/ \E k \in Tasks : k.kind \in Actions /\ task' = Joined(d, k)
      BY <2>1, <2>3, BeginsAction
    <3>2. ASSUME NEW k \in Tasks, k.kind \in Actions, task' = Joined(d, k)
          PROVE  task'[c] = Meets(c, k.kind) /\ k.kind \in Met
      BY <2>1, <3>2, Joining DEF Actions, Met
    <3> QED
      BY <1>2, <3>1, <3>2 DEF Kept
  <2> QED
    BY <1>7, <2>2, <2>3
<1>8. CASE Skip(c) \/ Interject(c)
  <2>1. at'[c] = at[c] /\ task' = task /\ at[c] \in Conversing
    BY <1>8 DEF Skip, Interject, besideWeb
  <2>2. conn[c].in \in Seq(Frames) /\ conn[c].id \in Nat /\ conn[c].id > 0
    BY <1>1, <2>1 DEF Conns, Call, Turn
  <2>3. CASE Skip(c)
    <3>1. conn[c].in # <<>> /\ conn' = [conn EXCEPT ![c].in = Tail(conn[c].in)]
      BY <2>3 DEF Skip, Unread
    <3>2. /\ conn'[c].in = Tail(conn[c].in) /\ conn'[c].todo = conn[c].todo /\ conn'[c].id = conn[c].id
      BY <1>1, <3>1 DEF Conns
    <3>3. Elements(Tail(conn[c].in)) \subseteq Elements(conn[c].in)
      BY <2>2, <3>1, Tailed
    <3> QED
      BY <2>1, <3>2, <3>3 DEF Still, Inbox
  <2>4. CASE Interject(c)
    <3>1. conn' = [conn EXCEPT ![c].in = Append(conn[c].in, Event)]
      BY <2>4 DEF Interject
    <3>2. /\ conn'[c].in = Append(conn[c].in, Event) /\ conn'[c].todo = conn[c].todo /\ conn'[c].id = conn[c].id
      BY <1>1, <3>1 DEF Conns
    <3>3. Event \in Frames /\ Event.id = 0
      BY DEF Event, Frame, Frames, Values
    <3>4. Elements(Append(conn[c].in, Event)) = Elements(conn[c].in) \cup {Event}
      <4> HIDE DEF Event
      <4> QED
        BY <2>2, <3>3, Appended
    <3> QED
      BY <2>1, <2>2, <3>2, <3>3, <3>4 DEF Still, Inbox
  <2> QED
    BY <1>8, <2>3, <2>4
<1>9. ASSUME NEW d \in Calls, Interject(d), d # c
      PROVE  Still(c)
  <2>1. conn'[c] = conn[c] /\ at' = at /\ task' = task
    BY <1>1, <1>9 DEF Interject, besideWeb
  <2> QED
    BY <1>2, <2>1
<1> QED
  BY <1>3, <1>4, <1>5, <1>6, <1>7, <1>8, <1>9 DEF Next, Starting, Handler, Moves

\* A conversation that goes on: the reply to the last request is read, and the request is
\* made again or the next one is made
LEMMA GoesOn ==
  ASSUME CoreInv, NEW c \in Calls, TakePoll(c) \/ TakeReply(c), at'[c] = "talk"
  PROVE  /\ at[c] = "talk" /\ UNCHANGED webVars
         /\ First(c) \in Inbox(c) /\ First(c).id = conn[c].id /\ Replied(c) /\ ~Replied(c)'
         /\ task'[c].kind = task[c].kind /\ task'[c].tgt = task[c].tgt /\ task'[c].want = task[c].want
         /\ task'[c].met = task[c].met
         /\ conn[c].todo \in Seq(Requests) /\ conn[c].todo # <<>>
         /\ \/ conn'[c].todo = conn[c].todo /\ Doing(c) = ReadyState
            \/ conn'[c].todo = Tail(conn[c].todo) /\ Left(c) > 1 /\ ~NotYet(c)
<1>1. /\ at \in [Calls -> Running \cup {"told", "failed", "idle"}]
      /\ task \in [Calls -> Tasks] /\ conn \in [Calls -> Conns]
      /\ at[c] = "talk" /\ HasReply(c) /\ UNCHANGED webVars /\ life' = life /\ child' = child
  BY DEF CoreInv, CallsInv, TakePoll, TakeReply, Accepted, besideCall, launchVars
<1>2. /\ conn[c].todo \in Seq(Requests) /\ conn[c].todo # <<>> /\ Left(c) \in Nat \ {0}
      /\ task[c].kind = "fetch" => Left(c) = 1 /\ Doing(c) # ReadyState
  <2>1. conn[c].todo \in Seq(Requests) /\ conn[c].todo # <<>>
    BY <1>1 DEF Conns, CoreInv, Call, Place, Conversing
  <2>2. task[c].kind = "fetch" => Left(c) = 1 /\ Doing(c).method = "getCookies"
    BY <1>1, DoingWhat DEF Conversing
  <2> QED
    BY <2>1, <2>2, Tailed DEF Left, ReadyState, Evaluate, Request
<1>3. PICK todo :
        /\ Ask(c, todo) /\ at' = at /\ told' = told
        /\ task' \in [Calls -> Tasks] /\ \A d \in Calls : d # c => task'[d] = task[d]
        /\ task'[c].kind = task[c].kind /\ task'[c].tgt = task[c].tgt /\ task'[c].want = task[c].want
        /\ task'[c].met = task[c].met
        /\ \/ todo = conn[c].todo /\ Doing(c) = ReadyState
           \/ todo = Tail(conn[c].todo) /\ Left(c) > 1 /\ ~NotYet(c)
  <2>1. CASE TakePoll(c)
    <3>1. task[c].left # 0
      BY <1>1, <2>1 DEF TakePoll, End, Goto
    <3>2. PICK left \in 0 .. task[c].left - 1 : task' = [task EXCEPT ![c].left = left]
      BY <2>1, <3>1 DEF TakePoll
    <3>3. task[c].left \in 0 .. Patience /\ task[c] \in Tasks
      BY <1>1 DEF Tasks
    <3>4. left \in 0 .. Patience
      BY <3>2, <3>3, BoundAssumption
    <3>5. /\ task' \in [Calls -> Tasks] /\ \A d \in Calls : d # c => task'[d] = task[d]
          /\ task'[c].kind = task[c].kind /\ task'[c].tgt = task[c].tgt /\ task'[c].want = task[c].want
          /\ task'[c].met = task[c].met
      BY <1>1, <3>2, <3>3, <3>4 DEF Tasks
    <3> QED
      BY <2>1, <3>1, <3>5 DEF TakePoll, NotYet
  <2>2. CASE TakeReply(c)
    <3>1. Len(conn[c].todo) # 1
      BY <1>1, <2>2 DEF TakeReply, End, Goto
    <3>2. Left(c) > 1
      <4>1. Left(c) # 1 /\ Left(c) \in Nat \ {0}
        BY <1>2, <3>1 DEF Left
      <4> QED
        BY <4>1
    <3> QED
      BY <1>1, <2>2, <3>1, <3>2 DEF TakeReply
  <2> QED
    BY <2>1, <2>2
<1>4. task[c].kind # "fetch"
  BY <1>2, <1>3
<1>5. conn'[c].todo = todo /\ ~Replied(c)'
  BY <1>1, <1>3, <1>4, AskedOn
<1>6. First(c) \in Inbox(c) /\ First(c).id = conn[c].id /\ Replied(c)
  BY <1>1, <1>4, Unanswered DEF Replied
<1> QED
  BY <1>1, <1>2, <1>3, <1>5, <1>6

\* What a step may do to what the browser shows
LEMMA Shows ==
  ASSUME CoreInv, Next, NEW t \in Calls
  PROVE  /\ \/ page'[t] = page[t] /\ ready'[t] = ready[t]
            \/ /\ page'[t] = page[t] /\ ready[t] # "complete"
               /\ ready'[t] = IF ready[t] = "loading" THEN "interactive" ELSE "complete"
            \/ \E d \in Calls : ServeNavigate(d) /\ task[d].tgt = t
         /\ \/ overrides'[t] = overrides[t]
            \/ \E d \in Calls : ServeOverride(d) /\ task[d].tgt = t
<1>1. WebInv
  BY DEF CoreInv
<1>2. CASE UNCHANGED webVars
  BY <1>2 DEF webVars
<1>3. CASE Spawn \/ Starting \/ ChildBinds \/ ChildExits \/ OtherBinds \/ UpdateProfile
  BY <1>2, <1>3 DEF Spawn, Starting, Connected, Retry, GiveUp, ChildBinds, ChildExits, OtherBinds,
                    UpdateProfile, besideLaunch
<1>4. ASSUME NEW d \in Calls, \/ BeginStorage(d) \/ BeginNavigate(d) \/ BeginEvaluate(d) \/ Handler(d)
                              \/ Interject(d)
      PROVE  UNCHANGED webVars
  BY <1>4 DEF BeginStorage, BeginNavigate, BeginEvaluate, Begin, Handler, ReadIdentity, Attach, Skip,
              TakeError, TakeTarget, TakePoll, TakeReply, Closed, besideCall, Interject
<1>5. ASSUME NEW d \in Calls, \/ ServeAttach(d) \/ LoadFails(d) \/ ServeEvaluate(d) \/ ServeStorage(d)
                              \/ Refuse(d)
      PROVE  UNCHANGED webVars
  BY <1>5 DEF ServeAttach, LoadFails, ServeEvaluate, ServeStorage, Refuse
<1>6. ASSUME NEW d \in Calls, ServeTarget(d)
      PROVE  page' = page /\ ready' = ready /\ overrides' = overrides
  BY <1>6 DEF ServeTarget
<1>7. ASSUME NEW d \in Calls, ServeOverride(d)
      PROVE  page' = page /\ ready' = ready /\ (task[d].tgt # t => overrides'[t] = overrides[t])
  BY <1>1, <1>7 DEF ServeOverride, WebInv
<1>8. ASSUME NEW d \in Calls, ServeNavigate(d)
      PROVE  /\ overrides' = overrides
             /\ task[d].tgt # t => page'[t] = page[t] /\ ready'[t] = ready[t]
  BY <1>1, <1>8 DEF ServeNavigate, WebInv
<1>9. ASSUME NEW d \in Calls, Load(d)
      PROVE  /\ overrides' = overrides /\ page' = page
             /\ \/ ready'[t] = ready[t]
                \/ /\ ready[t] # "complete"
                   /\ ready'[t] = IF ready[t] = "loading" THEN "interactive" ELSE "complete"
  BY <1>1, <1>9 DEF Load, WebInv
<1> QED
  BY <1>2, <1>3, <1>4, <1>5, <1>6, <1>7, <1>8, <1>9 DEF Next, Serve

-----------------------------------------------------------------------------
\* An action that navigates knows of every action that runs at the same time
MeetInv ==
  \A c, d \in Calls :
    c # d /\ at[c] \in Running /\ at[d] \in Running /\ task[c].kind = "navigate" /\ task[d].kind \in Actions
      => task[d].kind \in task[c].met

\* An action that is under way after a step was so before it, or begins with it
LEMMA Onward ==
  ASSUME CoreInv, Next, NEW c \in Calls, at'[c] \in Running, task'[c].kind \in Actions
  PROVE  \/ /\ at[c] \in Running /\ task'[c].kind = task[c].kind /\ task[c].met \subseteq task'[c].met
            /\ task'[c].want = task[c].want /\ task'[c].until = task[c].until
         \/ BeginNavigate(c) \/ BeginEvaluate(c)
<1>1. /\ at \in [Calls -> Running \cup {"told", "failed", "idle"}] /\ conn \in [Calls -> Conns]
      /\ task \in [Calls -> Tasks]
  BY DEF CoreInv, CallsInv
<1>2. CASE ~Moves(c)
  <2>1. Still(c)
    BY <1>2, StillOrMoves
  <2> QED
    BY <2>1 DEF Still
<1>3. CASE BeginStorage(c)
  <2>1. PICK k \in Kinds \cap DOMAIN StorageMethod :
          Connect(c, "talk", <<Request(StorageMethod[k], None)>>,
                  [task EXCEPT ![c] = [NoTask EXCEPT !.kind = k]])
    BY <1>3 DEF BeginStorage
  <2>2. at'[c] = "failed" \/ task' = [task EXCEPT ![c] = [NoTask EXCEPT !.kind = k]]
    BY <1>1, <2>1 DEF Connect, End, Goto
  <2>3. task' = [task EXCEPT ![c] = [NoTask EXCEPT !.kind = k]] => task'[c].kind = k
    BY <1>1 DEF NoTask
  <2> QED
    BY <2>2, <2>3 DEF StorageMethod, Actions, Running
<1>4. CASE Serve(c)
  <2>1. at' = at /\ (task'[c] = task[c] \/ \E what \in Met : task'[c] = Meets(c, what))
    BY <1>1, <1>4 DEF Serve, ServeTarget, ServeAttach, ServeOverride, ServeNavigate, LoadFails,
                      ServeEvaluate, ServeStorage, Refuse, besideWeb, Met
  <2> QED
    BY <2>1, MeetsMore
<1>5. CASE ReadIdentity(c) \/ TakeTarget(c)
  <2>1. \/ task' = [task EXCEPT ![c].face = ResolveEffectiveIdentity(row, DefaultStealth)]
        \/ task' = [task EXCEPT ![c].tgt = c]
    BY <1>5 DEF ReadIdentity, TakeTarget
  <2>2. at[c] \in Running
    BY <1>5 DEF ReadIdentity, TakeTarget, Running
  <2>3. task[c] \in Tasks
    BY <1>1
  <2> QED
    BY <1>1, <2>1, <2>2, <2>3 DEF Tasks
<1>6. CASE Attach(c)
  <2>1. at[c] = "attach" /\ (at'[c] = "failed" \/ task' = [task EXCEPT ![c].face = None])
    BY <1>6, Attaches
  <2>2. task[c] \in Tasks
    BY <1>1
  <2> QED
    BY <1>1, <2>1, <2>2 DEF Tasks, Running
<1>7. CASE TakePoll(c)
  <2>1. at[c] = "talk"
    BY <1>7 DEF TakePoll
  <2>2. at'[c] = "failed" \/ \E left \in 0 .. task[c].left - 1 : task' = [task EXCEPT ![c].left = left]
    BY <1>1, <1>7 DEF TakePoll, End, Goto
  <2>3. task[c] \in Tasks
    BY <1>1
  <2> QED
    BY <1>1, <2>1, <2>2, <2>3 DEF Tasks, Running
<1>8. CASE TakeReply(c) \/ TakeError(c) \/ Closed(c)
  <2>1. at[c] \in Running
    BY <1>8 DEF TakeReply, TakeError, Closed, HasReply, Conversing, Running
  <2>2. at'[c] \in {"failed", "told"} \/ task' = task
    BY <1>1, <1>8 DEF TakeReply, TakeError, Closed, End, Goto
  <2> QED
    BY <2>1, <2>2 DEF Running
<1> QED
  BY <1>2, <1>3, <1>4, <1>5, <1>6, <1>7, <1>8 DEF Moves

LEMMA MeetStep ==
  ASSUME CoreInv, MeetInv, [Next]_vars
  PROVE  MeetInv'
<1>1. CASE UNCHANGED vars
  BY <1>1 DEF vars, callVars, MeetInv
<1>2. CASE Next
  <2> SUFFICES ASSUME NEW c \in Calls, NEW d \in Calls, c # d, at'[c] \in Running, at'[d] \in Running,
                      task'[c].kind = "navigate", task'[d].kind \in Actions
               PROVE  task'[d].kind \in task'[c].met
    BY DEF MeetInv
  <2>1. task'[c].kind \in Actions
    BY DEF Actions
  <2>2. CASE BeginNavigate(c) \/ BeginEvaluate(c)
    <3>1. PICK k \in Tasks : k.kind \in Actions /\ task' = Joined(c, k)
      BY <2>2, BeginsAction DEF Running
    <3>2. Kept(d)
      BY <2>2, BeginsAction
    <3>3. task'[c].met = {task[e].kind : e \in Calls} \cap Actions
      BY <3>1, Joining
    <3> QED
      BY <3>2, <3>3 DEF Kept
  <2>3. CASE BeginNavigate(d) \/ BeginEvaluate(d)
    <3>1. PICK k \in Tasks : k.kind \in Actions /\ task' = Joined(d, k)
      BY <2>3, BeginsAction DEF Running
    <3>2. Kept(c)
      BY <2>3, BeginsAction
    <3>3. task'[d].kind = k.kind /\ task'[c] = Meets(c, k.kind) /\ k.kind \in Met
      BY <3>1, Joining DEF Actions, Met
    <3>4. task[c].kind = "navigate"
      BY <3>2 DEF Kept
    <3> QED
      BY <3>3, <3>4, MeetsMore
  <2>4. CASE /\ ~BeginNavigate(c) /\ ~BeginEvaluate(c)
             /\ ~BeginNavigate(d) /\ ~BeginEvaluate(d)
    <3>1. at[c] \in Running /\ task'[c].kind = task[c].kind /\ task[c].met \subseteq task'[c].met
      BY <1>2, <2>1, <2>4, Onward
    <3>2. at[d] \in Running /\ task'[d].kind = task[d].kind
      BY <1>2, <2>4, Onward
    <3> QED
      BY <3>1, <3>2 DEF MeetInv
  <2> QED
    BY <2>2, <2>3, <2>4
<1> QED
  BY <1>1, <1>2

-----------------------------------------------------------------------------
\* A navigation that nothing disturbs, and how far it has come
Quiet(c) ==
  /\ at[c] = "talk" /\ task[c].kind = "navigate"
  /\ task[c].met \cap {"navigate", "refuse", "loadfail"} = {}

Reply(c) == {f \in Inbox(c) : f.id = conn[c].id}

Nav(c) ==
  /\ Left(c) = 3 /\ Replied(c) => page[task[c].tgt] = task[c].want
  /\ Left(c) < 3 => page[task[c].tgt] = task[c].want
  /\ Left(c) = 2 => \A f \in Reply(c) :
       f.value \in Milestones(c) => ready[task[c].tgt] \in Milestones(c)
  /\ Left(c) = 1 => ready[task[c].tgt] \in Milestones(c) /\ \A f \in Reply(c) : f.value = task[c].want

NavInv == \A c \in Calls : Quiet(c) => Nav(c)

\* Nobody else navigates the page of such a call
LEMMA NotDisturbed ==
  ASSUME CoreInv, MeetInv, NEW c \in Calls, Quiet(c), NEW d \in Calls, d # c
  PROVE  ~ServeNavigate(d)
<1> SUFFICES ASSUME ServeNavigate(d)
             PROVE  FALSE
  OBVIOUS
<1>1. conn[d].wire # <<>> /\ Oldest(d).method = "navigate"
  BY DEF ServeNavigate, Asked
<1>2. at[d] \in Conversing /\ Doing(d).method = "navigate"
  BY <1>1, OnTheWire
<1>3. task[d].kind = "navigate"
  BY <1>2, DoingWhat
<1> QED
  BY <1>2, <1>3 DEF MeetInv, Quiet, Running, Conversing, Actions

LEMMA NavStill ==
  ASSUME CoreInv, CoreInv', MeetInv, Next, NEW c \in Calls, Quiet(c) => Nav(c), Quiet(c)', ~Moves(c)
  PROVE  Nav(c)'
<1>1. Still(c)
  BY StillOrMoves
<1>2. Quiet(c) /\ Nav(c)
  BY <1>1 DEF Still, Quiet
<1>3. /\ at[c] \in Conversing /\ task[c].tgt \in Calls /\ task[c].until \in {"domcontentloaded", "load"}
  BY <1>2 DEF Quiet, Conversing, CoreInv, Call, Shape, Actions, CallsInv, Tasks
<1> DEFINE t == task[c].tgt
<1>4. \A d \in Calls : ~ServeNavigate(d)
  BY <1>2, NotDisturbed DEF Moves, Serve
<1>5. /\ page'[t] = page[t]
      /\ \/ ready'[t] = ready[t]
         \/ /\ ready[t] # "complete"
            /\ ready'[t] = IF ready[t] = "loading" THEN "interactive" ELSE "complete"
  BY <1>3, <1>4, Shows
<1>6. /\ Left(c)' = Left(c) /\ Milestones(c)' = Milestones(c)
      /\ task'[c].tgt = t /\ task'[c].want = task[c].want
      /\ Reply(c)' \subseteq Reply(c) /\ (Replied(c)' => Replied(c))
  BY <1>1 DEF Still, Left, Milestones, Reply, Replied
<1>7. ready[t] \in Milestones(c) => ready'[t] \in Milestones(c)
  BY <1>5 DEF Milestones
<1> HIDE DEF t
<1>8. /\ Left(c) = 3 /\ Replied(c) => page[t] = task[c].want
      /\ Left(c) < 3 => page[t] = task[c].want
      /\ Left(c) = 2 => \A f \in Reply(c) : f.value \in Milestones(c) => ready[t] \in Milestones(c)
      /\ Left(c) = 1 => ready[t] \in Milestones(c) /\ \A f \in Reply(c) : f.value = task[c].want
  BY <1>2 DEF Nav, t
<1> QED
  BY <1>5, <1>6, <1>7, <1>8 DEF Nav

\* The browser answers such a call
LEMMA NavServe ==
  ASSUME CoreInv, NEW c \in Calls, Quiet(c) => Nav(c), Quiet(c)', Serve(c)
  PROVE  Nav(c)'
<1>1. /\ at' = at /\ at \in [Calls -> Running \cup {"told", "failed", "idle"}]
      /\ task \in [Calls -> Tasks] /\ WebInv
  BY DEF Serve, ServeTarget, ServeAttach, ServeOverride, ServeNavigate, LoadFails, ServeEvaluate,
         ServeStorage, Refuse, besideWeb, CoreInv, CallsInv
<1>2. /\ at[c] \in Conversing /\ ~Replied(c) /\ Oldest(c).method = Doing(c).method
      /\ Oldest(c).params = Doing(c).params
  <2>1. conn[c].wire # <<>>
    BY DEF Serve, ServeTarget, ServeAttach, ServeOverride, ServeNavigate, LoadFails, ServeEvaluate,
           ServeStorage, Refuse, Asked
  <2> QED
    BY <2>1, OnTheWire
<1>3. at[c] = "talk" /\ task[c].kind = "navigate" /\ task[c].tgt \in Calls
  <2>1. at[c] = "talk"
    BY <1>1 DEF Quiet
  <2>2. task'[c] = task[c] \/ \E what \in Met : task'[c] = Meets(c, what)
    BY <1>1 DEF Serve, ServeTarget, ServeAttach, ServeOverride, ServeNavigate, LoadFails,
                ServeEvaluate, ServeStorage, Refuse, besideWeb, Met
  <2>3. task[c].kind = "navigate"
    BY <2>2, MeetsMore DEF Quiet
  <2> QED
    BY <2>1, <2>3 DEF CoreInv, Call, Shape, Actions
<1>4. task' = task
  <2>1. ASSUME NEW what \in {"refuse", "loadfail"}, task' = [task EXCEPT ![c] = Meets(c, what)]
        PROVE  FALSE
    BY <1>1, <1>3, <2>1, MeetsMore DEF Quiet, Met
  <2> QED
    BY <2>1 DEF Serve, ServeTarget, ServeAttach, ServeOverride, ServeNavigate, LoadFails,
                ServeEvaluate, ServeStorage, Refuse
<1>5. Quiet(c) /\ Nav(c)
  BY <1>1, <1>4 DEF Quiet
<1>6. /\ Left(c) > 3 <=> Doing(c).method \in Preparing
      /\ Left(c) = 3 <=> Doing(c).method = "navigate"
      /\ Left(c) = 2 <=> Doing(c) = ReadyState
      /\ Left(c) = 1 <=> Doing(c) = Evaluate("location.href")
      /\ Doing(c).method = "navigate" => Doing(c).params = task[c].want
      /\ Doing(c).method # "createTarget" /\ Doing(c).method \notin {"setCookies", "getCookies"}
      /\ Left(c) \in Nat \ {0}
  <2>1. at[c] \in Conversing
    BY <1>2
  <2> QED
    BY <1>3, <2>1, DoingWhat
<1>7. conn'[c].todo = conn[c].todo
  <2>1. conn \in [Calls -> Conns] /\ \E ok \in BOOLEAN : \E v : Answer(c, ok, v)
    BY DEF CoreInv, CallsInv, Serve, ServeTarget, ServeAttach, ServeOverride, ServeNavigate, LoadFails,
           ServeEvaluate, ServeStorage, Refuse
  <2> QED
    BY <2>1 DEF Answer, Conns
<1>8. Left(c)' = Left(c) /\ Milestones(c)' = Milestones(c)
  BY <1>4, <1>7 DEF Left, Milestones
<1>9. CASE Left(c) > 3
  BY <1>8, <1>9, <1>6 DEF Nav
<1>10. CASE Left(c) = 3
  <2>1. ~LoadFails(c) /\ ~Refuse(c)
    BY <1>1, <1>3, <1>4, MeetsMore DEF LoadFails, Refuse, Quiet, Met
  <2>2. ServeNavigate(c)
    BY <1>2, <1>6, <1>10, <2>1 DEF Serve, ServeTarget, ServeAttach, ServeOverride, ServeEvaluate,
         ServeStorage, Asked, OverrideMethods
  <2>3. page'[task[c].tgt] = task[c].want
    BY <1>1, <1>2, <1>3, <1>6, <1>10, <2>2 DEF ServeNavigate, WebInv
  <2> QED
    BY <1>4, <1>8, <1>10, <2>3 DEF Nav
<1>11. CASE Left(c) < 3
  <2> DEFINE t == task[c].tgt
             v == IF Oldest(c).params = "document.readyState" THEN ready[t] ELSE page[t]
  <2>1. ~LoadFails(c) /\ ~Refuse(c)
    BY <1>1, <1>3, <1>4, MeetsMore DEF LoadFails, Refuse, Quiet, Met
  <2>2. Doing(c).method = "evaluate" /\ (Left(c) = 1 \/ Left(c) = 2)
    BY <1>6, <1>11 DEF ReadyState, Evaluate, Request
  <2>3. ServeEvaluate(c)
    BY <1>2, <2>1, <2>2 DEF Serve, ServeTarget, ServeAttach, ServeOverride, ServeNavigate,
         ServeStorage, Asked, OverrideMethods
  <2>4. /\ UNCHANGED <<page, ready, owner, overrides, besideWeb, mishaps>>
        /\ Answer(c, TRUE, v) /\ conn[c].wire # <<>>
    BY <2>3 DEF ServeEvaluate, Asked, webVars
  <2>5. v \in Values /\ (v = ready[t] \/ v = page[t])
    BY <1>1, <1>3 DEF WebInv, Values
  <2>6. v = IF Left(c) = 2 THEN ready[t] ELSE page[t]
    BY <1>2, <1>6, <2>2 DEF ReadyState, Evaluate, Request
  <2> HIDE DEF v
  <2>7. WebInv' /\ mishaps' \in 0 .. MaxMishaps
    BY <1>1, <2>4 DEF WebInv, CoreInv, LaunchInv
  <2>8. Doing(c).method # "getCookies"
    BY <2>2
  <2>9. /\ conn'[c].id = conn[c].id
        /\ Inbox(c)' = Inbox(c) \cup {Frame(conn[c].id, Doing(c).method, TRUE, v)}
    BY <1>4, <2>4, <2>5, <2>7, <2>8, Served
  <2>10. \A f \in Reply(c)' : f.value = v
    BY <1>2, <2>9 DEF Reply, Replied, Frame
  <2>11. page'[t] = task[c].want /\ ready'[t] = ready[t] /\ page[t] = task[c].want
    BY <1>5, <1>11, <2>4 DEF Nav
  <2>12. Left(c) = 1 => ready[t] \in Milestones(c)
    BY <1>5 DEF Nav
  <2>13. Left(c) = 1 => \A f \in Reply(c)' : f.value = task[c].want
    BY <2>6, <2>10, <2>11
  <2>14. Left(c) = 2 => \A f \in Reply(c)' : f.value = ready[t]
    BY <2>6, <2>10
  <2>15. Left(c) # 3
    BY <2>2
  <2> QED
    BY <1>4, <1>8, <2>2, <2>11, <2>12, <2>13, <2>14, <2>15 DEF Nav
<1> QED
  BY <1>6, <1>9, <1>10, <1>11

\* The handler of such a call goes on
LEMMA NavMoves ==
  ASSUME CoreInv, Next, NEW c \in Calls, Quiet(c) => Nav(c), Quiet(c)', Moves(c), ~Serve(c)
  PROVE  Nav(c)'
<1>1. /\ at \in [Calls -> Running \cup {"told", "failed", "idle"}]
      /\ task \in [Calls -> Tasks] /\ conn \in [Calls -> Conns]
  BY DEF CoreInv, CallsInv
<1>2. at'[c] = "talk" /\ task'[c].kind = "navigate"
  BY DEF Quiet
<1>3. ~BeginNavigate(c) /\ ~BeginEvaluate(c)
  BY <1>2, BeginsAction
<1>4. /\ at[c] \in Running /\ task[c].kind = "navigate" /\ task[c].met \subseteq task'[c].met
      /\ task'[c].want = task[c].want /\ task'[c].until = task[c].until
  BY <1>2, <1>3, Onward DEF Running, Actions
<1>5. ~BeginStorage(c)
  BY <1>4 DEF BeginStorage, Begin, Running
<1>6. ~ReadIdentity(c) /\ ~TakeTarget(c) /\ ~TakeError(c) /\ ~Closed(c)
  BY <1>1, <1>2 DEF ReadIdentity, TakeTarget, TakeError, Closed, End, Goto
<1>7. CASE Attach(c)
  <2>1. at[c] = "attach" /\ conn'[c].todo = Program(c) /\ Len(Program(c)) > Ahead(c) /\ Ahead(c) = 3
    BY <1>2, <1>4, <1>7, Attaches, Programmed DEF Ahead
  <2>2. Left(c)' > 3
    BY <2>1 DEF Left
  <2>3. Left(c)' \in Nat
    BY <2>1, <1>7, Programmed DEF Left
  <2> QED
    BY <2>2, <2>3 DEF Nav
<1>8. ASSUME TakePoll(c) \/ TakeReply(c)
      PROVE  Nav(c)'
  <2>1. /\ at[c] = "talk" /\ UNCHANGED webVars
        /\ First(c) \in Inbox(c) /\ First(c).id = conn[c].id /\ Replied(c) /\ ~Replied(c)'
        /\ task'[c].kind = task[c].kind /\ task'[c].tgt = task[c].tgt /\ task'[c].want = task[c].want
        /\ conn[c].todo \in Seq(Requests) /\ conn[c].todo # <<>>
        /\ \/ conn'[c].todo = conn[c].todo /\ Doing(c) = ReadyState
           \/ conn'[c].todo = Tail(conn[c].todo) /\ Left(c) > 1 /\ ~NotYet(c)
    BY <1>2, <1>8, GoesOn
  <2>2. Quiet(c) /\ Nav(c)
    BY <1>4, <2>1 DEF Quiet
  <2>3. First(c) \in Reply(c)
    BY <2>1 DEF Reply
  <2>4. /\ Left(c) \in Nat \ {0}
        /\ Left(c) = 2 <=> Doing(c) = ReadyState
    BY <1>4, <2>1, DoingWhat DEF Conversing
  <2>5. Reply(c)' = {} /\ Milestones(c)' = Milestones(c) /\ page' = page /\ ready' = ready
    BY <1>4, <2>1 DEF Reply, Replied, Milestones, webVars
  <2>6. CASE conn'[c].todo = conn[c].todo /\ Doing(c) = ReadyState
    <3>1. Left(c)' = 2 /\ Left(c) = 2
      BY <2>4, <2>6 DEF Left
    <3> QED
      BY <1>4, <2>1, <2>2, <2>5, <3>1 DEF Nav
  <2>7. CASE conn'[c].todo = Tail(conn[c].todo) /\ Left(c) > 1 /\ ~NotYet(c)
    <3>1. Left(c)' = Left(c) - 1
      BY <2>1, <2>7, Tailed DEF Left
    <3>2. Left(c) <= 3 => page[task[c].tgt] = task[c].want
      BY <2>1, <2>2, <2>4 DEF Nav
    <3>3. Left(c) = 2 => ready[task[c].tgt] \in Milestones(c)
      BY <2>2, <2>3, <2>4, <2>7 DEF Nav, NotYet
    <3> QED
      BY <1>4, <2>1, <2>4, <2>5, <3>1, <3>2, <3>3 DEF Nav
  <2> QED
    BY <2>1, <2>6, <2>7
<1> QED
  BY <1>3, <1>5, <1>6, <1>7, <1>8 DEF Moves

LEMMA NavStep ==
  ASSUME CoreInv, CoreInv', MeetInv, NavInv, [Next]_vars
  PROVE  NavInv'
<1>1. CASE UNCHANGED vars
  BY <1>1 DEF vars, callVars, webVars, NavInv, Quiet, Nav, Left, Replied, Reply, Inbox, Milestones
<1>2. CASE Next
  <2> SUFFICES ASSUME NEW c \in Calls, Quiet(c)'
               PROVE  Nav(c)'
    BY DEF NavInv
  <2>1. Quiet(c) => Nav(c)
    BY DEF NavInv
  <2> QED
    BY <1>2, <2>1, NavStill, NavServe, NavMoves
<1> QED
  BY <1>1, <1>2

LEMMA Navigating == Spec => [](CoreInv /\ MeetInv /\ NavInv)
<1>1. Init => MeetInv /\ NavInv
  BY DEF Init, MeetInv, NavInv, Quiet, Running
<1>2. CoreInv /\ CoreInv' /\ MeetInv /\ NavInv /\ [Next]_vars => MeetInv' /\ NavInv'
  BY MeetStep, NavStep
<1> QED
  BY <1>1, <1>2, Core, PTL DEF Spec

\* What navigate_session answers is so: the session's page is the one that was asked for and
\* has reached the milestone that was waited for, unless another call ran at the same time
\* or the page did not load (gateway.rs:387-431, 1178-1202), whatever the calls before it and
\* the browser did, and on whichever connection its target was made.
THEOREM NavigationsTellTheTruth == Spec => NavigationTellsTruth
<1> DEFINE P == \A c \in Calls : /\ task[c].kind = "navigate"
                     /\ task[c].met \cap {"navigate", "refuse", "loadfail"} = {}
                     /\ at[c] = "talk" /\ at'[c] = "told"
       => told'[c] = task[c].want /\ page[task[c].tgt] = task[c].want /\ ready[task[c].tgt] \in Milestones(c)
<1>1. CoreInv /\ MeetInv /\ NavInv /\ [Next]_vars => [P]_vars
  <2> SUFFICES ASSUME CoreInv, MeetInv, NavInv, Next, NEW c \in Calls,
                      task[c].kind = "navigate",
                      task[c].met \cap {"navigate", "refuse", "loadfail"} = {},
                      at[c] = "talk", at'[c] = "told"
               PROVE  /\ told'[c] = task[c].want /\ page[task[c].tgt] = task[c].want
                      /\ ready[task[c].tgt] \in Milestones(c)
    OBVIOUS
  <2>1. TakeReply(c) /\ Left(c) = 1 /\ told'[c] = First(c).value
    BY Answers
  <2>2. First(c) \in Reply(c)
    BY <2>1, Unanswered DEF TakeReply, Accepted, Reply
  <2>3. Nav(c)
    BY DEF NavInv, Quiet
  <2> QED
    BY <2>1, <2>2, <2>3 DEF Nav
<1> QED
  BY <1>1, Navigating, PTL DEF Spec, NavigationTellsTruth

-----------------------------------------------------------------------------
\* What is sent of an identity is all that is to be shown of it
LEMMA SendsAll ==
  ASSUME row \in Rows, row # None
  PROVE  LET face == ResolveEffectiveIdentity(row, DefaultStealth)
         IN  /\ face # None /\ face \in Faces
             /\ \A m \in OverrideMethods : Params(face, m) = Shown(m) /\ DOMAIN Params(face, m) # {}
             /\ face.user_agent = Shown("setUserAgentOverride").user_agent
<1> DEFINE face == ResolveEffectiveIdentity(row, DefaultStealth)
<1>1. face # None /\ face \in Faces
  BY SomeAssumption DEF Rows, Faces
<1>2. \A f \in Fields : face[f] = Or(row[f], Default[f]) /\ Or(row[f], Default[f]) # None
  BY DefaultAssumption DEF ResolveEffectiveIdentity, AllFields, Fields, Or
<1> HIDE DEF face
<1>3. ASSUME NEW m \in OverrideMethods
      PROVE  Params(face, m) = Shown(m) /\ DOMAIN Params(face, m) # {}
  <2>1. FieldsOf(m) \subseteq Fields /\ FieldsOf(m) # {}
    BY DEF OverrideMethods, FieldsOf, Fields
  <2>2. {g \in FieldsOf(m) : face[g] # None} = FieldsOf(m)
    BY <1>2, <2>1
  <2>3. Params(face, m) =
          [f \in FieldsOf(m) |-> IF f = "viewport" THEN Metrics(face[f]) ELSE face[f]]
    BY <2>2 DEF Params
  <2>4. \A f \in FieldsOf(m) : (IF f = "viewport" THEN Metrics(face[f]) ELSE face[f])
          = (IF f = "viewport" THEN Metrics(Or(row[f], Default[f])) ELSE Or(row[f], Default[f]))
    BY <1>2, <2>1
  <2>5. Shown(m) = [f \in FieldsOf(m) |-> IF f = "viewport" THEN Metrics(Or(row[f], Default[f]))
                                          ELSE Or(row[f], Default[f])]
    BY DEF Shown
  <2> QED
    BY <2>1, <2>3, <2>4, <2>5
<1>4. face.user_agent = Shown("setUserAgentOverride").user_agent
  BY <1>2 DEF Shown, FieldsOf, Fields
<1> QED
  BY <1>1, <1>3, <1>4 DEF face

\* The profile changes under update_profile only, the arguments with the launch only
LEMMA Launches ==
  ASSUME Next
  PROVE  /\ Spawn \/ (args' = args /\ ((life' = "picked") <=> (life = "picked")))
         /\ UpdateProfile \/ (row' = row /\ updated' = updated)
<1> USE DEF launchVars
<1>1. CASE Spawn \/ Starting \/ ChildBinds \/ ChildExits \/ OtherBinds \/ UpdateProfile
  BY <1>1 DEF Spawn, Starting, Connected, Retry, GiveUp, ChildBinds, ChildExits, OtherBinds, UpdateProfile,
              besideLaunch, histVars
<1>2. ASSUME NEW c \in Calls, BeginStorage(c) \/ BeginNavigate(c) \/ BeginEvaluate(c)
      PROVE  args' = args /\ life' = life /\ row' = row /\ updated' = updated
  BY <1>2 DEF BeginStorage, BeginNavigate, BeginEvaluate, Begin
<1>3. ASSUME NEW c \in Calls, Handler(c)
      PROVE  args' = args /\ life' = life /\ row' = row /\ updated' = updated
  BY <1>3 DEF Handler, ReadIdentity, Attach, Skip, TakeError, TakeTarget, TakePoll, TakeReply, Closed,
              besideCall, histVars
<1>4. ASSUME NEW c \in Calls, Serve(c) \/ Interject(c) \/ Load(c)
      PROVE  args' = args /\ life' = life /\ row' = row /\ updated' = updated
  BY <1>4 DEF Serve, ServeTarget, ServeAttach, ServeOverride, ServeNavigate, LoadFails, ServeEvaluate,
              ServeStorage, Refuse, Interject, Load, besideWeb
<1> QED
  BY <1>1, <1>2, <1>3, <1>4 DEF Next

\* The browser was launched with the user agent of the profile
ArgsInv ==
  row # None /\ ~updated /\ life # "picked" =>
    args.user_agent = Shown("setUserAgentOverride").user_agent

LEMMA ArgsStep ==
  ASSUME CoreInv, ArgsInv, [Next]_vars
  PROVE  ArgsInv'
<1>1. CASE UNCHANGED vars
  BY <1>1 DEF vars, launchVars, histVars, ArgsInv, Shown
<1>2. CASE Spawn
  <2>1. PICK asked \in StealthAsked :
          args' = LaunchArgs(ResolveStealth(asked, row, DefaultStealth),
                             ResolveEffectiveIdentity(row, DefaultStealth))
    BY <1>2 DEF Spawn
  <2>2. row' = row /\ row \in Rows
    BY <1>2 DEF Spawn, CoreInv, LaunchInv
  <2> DEFINE face == ResolveEffectiveIdentity(row, DefaultStealth)
  <2>3. row # None => face # None /\ face.user_agent = Shown("setUserAgentOverride").user_agent
    BY <2>2, SendsAll
  <2> HIDE DEF face
  <2>4. args' = LaunchArgs(ResolveStealth(asked, row, DefaultStealth), face)
    BY <2>1 DEF face
  <2>5. row # None => args'.user_agent = face.user_agent
    BY <2>3, <2>4 DEF LaunchArgs
  <2>6. Shown("setUserAgentOverride")' = Shown("setUserAgentOverride")
    BY <2>2 DEF Shown
  <2> QED
    BY <2>2, <2>3, <2>5, <2>6 DEF ArgsInv
<1>3. CASE Next /\ ~Spawn
  <2>1. UpdateProfile => updated'
    BY DEF UpdateProfile
  <2>2. row' = row => Shown("setUserAgentOverride")' = Shown("setUserAgentOverride")
    BY DEF Shown
  <2> QED
    BY <1>3, <2>1, <2>2, Launches DEF ArgsInv
<1> QED
  BY <1>1, <1>2, <1>3

-----------------------------------------------------------------------------
\* A call whose identity is the one the profile has now, and what of it the page does not
\* show yet
Faithful(c) ==
  /\ row # None /\ task[c].kind \in Actions
  /\ updated => task[c].kind = "navigate" /\ task[c].met \cap {"navigate", "evaluate", "update"} = {}

Pending(c, m) == \E i \in 1 .. Left(c) : conn[c].todo[i].method = m /\ (i = 1 => ~Replied(c))

Face(c) ==
  /\ at[c] = "attach" => task[c].face = ResolveEffectiveIdentity(row, DefaultStealth)
  /\ at[c] = "talk" => \A r \in Elements(conn[c].todo) :
       r.method \in OverrideMethods => r.params = Shown(r.method)
  /\ at[c] = "talk" /\ task[c].kind = "navigate" /\ "refuse" \notin task[c].met =>
       \A m \in OverrideMethods : overrides[task[c].tgt][m] = Shown(m) \/ Pending(c, m)

FaceInv == \A c \in Calls : Faithful(c) => Face(c)

\* A faithful call was so before the step, and the step has not touched the profile
LEMMA FaithfulBefore ==
  ASSUME CoreInv, CoreInv', Next, NEW c \in Calls, Faithful(c)', ~BeginNavigate(c), ~BeginEvaluate(c)
  PROVE  /\ row' = row /\ updated' = updated /\ Faithful(c) /\ at[c] \in Running
         /\ task'[c].kind = task[c].kind /\ task[c].met \subseteq task'[c].met
         /\ \A m \in OverrideMethods : Shown(m)' = Shown(m)
<1>1. task'[c].kind \in Actions
  BY DEF Faithful
<1>2. at'[c] \in Running
  <2>1. at'[c] \notin Running => task'[c].kind = None
    BY DEF CoreInv, Call, Place, NoTask
  <2> QED
    BY <1>1, <2>1, NoneAssumption DEF Actions, Kind
<1>3. at[c] \in Running /\ task'[c].kind = task[c].kind /\ task[c].met \subseteq task'[c].met
  BY <1>1, <1>2, Onward
<1>4. ~UpdateProfile
  <2> SUFFICES ASSUME UpdateProfile
               PROVE  FALSE
    OBVIOUS
  <2>1. updated' /\ task'[c] = Meets(c, "update")
    BY DEF UpdateProfile
  <2>2. task'[c].kind = "navigate" /\ "update" \notin task'[c].met
    BY <2>1 DEF Faithful
  <2> QED
    BY <1>3, <2>1, <2>2, MeetsMore DEF Met
<1>5. row' = row /\ updated' = updated
  BY <1>4, Launches
<1> QED
  BY <1>3, <1>5 DEF Faithful, Shown

\* What another call shows of the profile on the same page is the same
LEMMA OthersFaithful ==
  ASSUME CoreInv, MeetInv, FaceInv, NEW c \in Calls, Faithful(c), at[c] = "talk", task[c].kind = "navigate",
         NEW d \in Calls, ServeOverride(d)
  PROVE  /\ Oldest(d).method \in OverrideMethods /\ Oldest(d).params = Shown(Oldest(d).method)
         /\ at[d] = "talk" /\ Doing(d).method = Oldest(d).method
<1>1. conn[d].wire # <<>> /\ Oldest(d).method \in OverrideMethods
  BY DEF ServeOverride, Asked
<1>2. at[d] \in Conversing /\ Oldest(d).method = Doing(d).method /\ Oldest(d).params = Doing(d).params
  BY <1>1, OnTheWire
<1>3. at[d] = "talk" /\ task[d].kind \in Actions
  BY <1>1, <1>2, DoingWhat DEF Preparing
<1>4. Faithful(d)
  <2>1. d # c => task[d].kind \in task[c].met
    BY <1>3 DEF MeetInv, Running
  <2>2. d # c => ~updated
    BY <1>3, <2>1 DEF Faithful, Actions
  <2> QED
    BY <1>3, <2>2 DEF Faithful
<1>5. Doing(d) \in Elements(conn[d].todo)
  <2>1. conn[d].todo \in Seq(Requests) /\ conn[d].todo # <<>>
    BY <1>2 DEF CoreInv, CallsInv, Conns, Call, Place
  <2> QED
    BY <2>1, Tailed DEF Doing
<1> QED
  BY <1>1, <1>2, <1>3, <1>4, <1>5 DEF FaceInv, Face

LEMMA FaceStill ==
  ASSUME CoreInv, CoreInv', MeetInv, FaceInv, Next, NEW c \in Calls, Faithful(c)', ~Moves(c)
  PROVE  Face(c)'
<1>1. Still(c)
  BY StillOrMoves
<1>2. /\ row' = row /\ Faithful(c) /\ Face(c) /\ \A m \in OverrideMethods : Shown(m)' = Shown(m)
  BY FaithfulBefore DEF Moves, FaceInv
<1>3. at'[c] = "attach" => task'[c].face = ResolveEffectiveIdentity(row', DefaultStealth)
  BY <1>1, <1>2 DEF Still, Face
<1>4. at'[c] = "talk" => \A r \in Elements(conn'[c].todo) :
        r.method \in OverrideMethods => r.params = Shown(r.method)'
  BY <1>1, <1>2 DEF Still, Face
<1>5. ASSUME at'[c] = "talk", task'[c].kind = "navigate", "refuse" \notin task'[c].met,
             NEW m \in OverrideMethods
      PROVE  overrides'[task'[c].tgt][m] = Shown(m)' \/ Pending(c, m)'
  <2> DEFINE t == task[c].tgt
  <2>1. at[c] = "talk" /\ task[c].kind = "navigate" /\ "refuse" \notin task[c].met /\ task'[c].tgt = t
    BY <1>1, <1>5 DEF Still
  <2>2. t \in Calls /\ overrides \in [Calls -> [OverrideMethods -> Payloads]]
    BY <2>1 DEF CoreInv, Call, Shape, Actions, WebInv
  <2>3. Pending(c, m) => Pending(c, m)'
    <3>1. Replied(c)' => Replied(c)
      BY <1>1 DEF Still, Replied
    <3>2. Left(c)' = Left(c) /\ conn'[c].todo = conn[c].todo
      BY <1>1 DEF Still, Left
    <3> QED
      BY <3>1, <3>2 DEF Pending
  <2>4. overrides[t][m] = Shown(m) \/ Pending(c, m)
    BY <1>2, <2>1 DEF Face
  <2>5. overrides'[t][m] = overrides[t][m] \/ overrides'[t][m] = Shown(m)
    <3>1. CASE overrides'[t] = overrides[t]
      BY <3>1
    <3>2. ASSUME NEW d \in Calls, ServeOverride(d), task[d].tgt = t
          PROVE  overrides'[t][m] = overrides[t][m] \/ overrides'[t][m] = Shown(m)
      <4>1. overrides' = [overrides EXCEPT ![t][Oldest(d).method] = Oldest(d).params]
        BY <3>2 DEF ServeOverride
      <4>2. Oldest(d).params = Shown(Oldest(d).method) /\ Oldest(d).method \in OverrideMethods
        BY <1>2, <2>1, <3>2, OthersFaithful
      <4> QED
        BY <2>2, <4>1, <4>2
    <3> QED
      BY <2>2, <3>1, <3>2, Shows
  <2> HIDE DEF t
  <2> QED
    BY <1>2, <2>1, <2>3, <2>4, <2>5
<1> QED
  BY <1>3, <1>4, <1>5 DEF Face

LEMMA FaceServe ==
  ASSUME CoreInv, CoreInv', MeetInv, FaceInv, Next, NEW c \in Calls, Faithful(c)', Serve(c)
  PROVE  Face(c)'
<1>1. /\ at' = at /\ at \in [Calls -> Running \cup {"told", "failed", "idle"}]
      /\ task \in [Calls -> Tasks] /\ WebInv
      /\ task'[c] = task[c] \/ \E what \in Met : task'[c] = Meets(c, what)
  BY DEF Serve, ServeTarget, ServeAttach, ServeOverride, ServeNavigate, LoadFails, ServeEvaluate,
         ServeStorage, Refuse, besideWeb, CoreInv, CallsInv, Met
<1>2. conn'[c].todo = conn[c].todo /\ conn[c].wire # <<>>
  <2>1. conn \in [Calls -> Conns] /\ \E ok \in BOOLEAN : \E v : Answer(c, ok, v)
    BY DEF CoreInv, CallsInv, Serve, ServeTarget, ServeAttach, ServeOverride, ServeNavigate, LoadFails,
           ServeEvaluate, ServeStorage, Refuse
  <2>2. conn[c].wire # <<>>
    BY DEF Serve, ServeTarget, ServeAttach, ServeOverride, ServeNavigate, LoadFails, ServeEvaluate,
           ServeStorage, Refuse, Asked
  <2> QED
    BY <2>1, <2>2 DEF Answer, Conns
<1>3. at[c] \in Conversing /\ ~Replied(c) /\ Oldest(c).method = Doing(c).method
  BY <1>2, OnTheWire
<1>4. at[c] # "idle"
  BY <1>3 DEF Conversing
<1>5. /\ row' = row /\ Faithful(c) /\ Face(c) /\ \A m \in OverrideMethods : Shown(m)' = Shown(m)
      /\ task'[c].kind = task[c].kind /\ task[c].met \subseteq task'[c].met
  BY <1>4, BeginsAction, FaithfulBefore DEF FaceInv
<1>6. at'[c] # "attach"
  BY <1>1, <1>3 DEF Conversing
<1>7. at'[c] = "talk" => \A r \in Elements(conn'[c].todo) :
        r.method \in OverrideMethods => r.params = Shown(r.method)'
  BY <1>1, <1>2, <1>5 DEF Face
<1>8. ASSUME at'[c] = "talk", task'[c].kind = "navigate", "refuse" \notin task'[c].met,
             NEW m \in OverrideMethods
      PROVE  overrides'[task'[c].tgt][m] = Shown(m)' \/ Pending(c, m)'
  <2> DEFINE t == task[c].tgt
  <2>1. /\ at[c] = "talk" /\ task[c].kind = "navigate" /\ "refuse" \notin task[c].met /\ task'[c].tgt = t
        /\ t \in Calls
    BY <1>1, <1>5, <1>8, MeetsMore DEF CoreInv, Call, Shape, Actions
  <2>2. overrides[t][m] = Shown(m) \/ Pending(c, m)
    BY <1>5, <2>1 DEF Face
  <2>3. /\ Left(c) \in Nat \ {0} /\ conn[c].todo[1] = Doing(c) /\ Left(c)' = Left(c)
    <3>1. conn[c].todo \in Seq(Requests) /\ conn[c].todo # <<>>
      BY <1>3 DEF CoreInv, CallsInv, Conns, Call, Place
    <3> QED
      BY <1>2, <3>1, Tailed DEF Left, Doing
  <2>4. ASSUME Pending(c, m), Doing(c).method # m
        PROVE  Pending(c, m)'
    <3>1. PICK i \in 1 .. Left(c) : conn[c].todo[i].method = m
      BY <2>4 DEF Pending
    <3>2. i # 1
      BY <2>3, <2>4, <3>1
    <3> QED
      BY <1>2, <2>3, <3>1, <3>2 DEF Pending
  <2>5. CASE ServeOverride(c)
    <3>1. overrides' = [overrides EXCEPT ![t][Oldest(c).method] = Oldest(c).params]
      BY <2>5 DEF ServeOverride
    <3>2. Oldest(c).params = Shown(Oldest(c).method) /\ Oldest(c).method \in OverrideMethods
      BY <1>5, <2>1, <2>5, OthersFaithful
    <3>3. IF Doing(c).method = m THEN overrides'[t][m] = Shown(m) ELSE overrides'[t][m] = overrides[t][m]
      BY <1>1, <1>3, <2>1, <3>1, <3>2 DEF WebInv
    <3> HIDE DEF t
    <3> QED
      BY <1>5, <2>1, <2>2, <2>4, <3>3
  <2>6. CASE ~ServeOverride(c)
    <3>1. ~Refuse(c)
      BY <1>1, <1>8, <2>1, MeetsMore DEF Refuse, Met
    <3>2. overrides' = overrides
      BY <2>6, <3>1 DEF Serve, ServeTarget, ServeAttach, ServeNavigate, LoadFails, ServeEvaluate,
           ServeStorage, webVars
    <3>3. Doing(c).method \notin OverrideMethods
      BY <1>3, <2>6, <3>1 DEF Serve, ServeTarget, ServeAttach, ServeNavigate, LoadFails, ServeEvaluate,
           ServeStorage, Asked, OverrideMethods
    <3> HIDE DEF t
    <3> QED
      BY <1>5, <2>1, <2>2, <2>4, <3>2, <3>3
  <2> QED
    BY <2>5, <2>6
<1> QED
  BY <1>6, <1>7, <1>8 DEF Face

LEMMA FaceMoves ==
  ASSUME CoreInv, CoreInv', MeetInv, FaceInv, Next, NEW c \in Calls, Faithful(c)', Moves(c), ~Serve(c)
  PROVE  Face(c)'
<1>1. /\ at \in [Calls -> Running \cup {"told", "failed", "idle"}]
      /\ task \in [Calls -> Tasks] /\ conn \in [Calls -> Conns]
  BY DEF CoreInv, CallsInv
<1>2. CASE BeginNavigate(c) \/ BeginEvaluate(c)
  BY <1>2, BeginsAction DEF Face
<1>3. CASE ~BeginNavigate(c) /\ ~BeginEvaluate(c)
  <2>1. /\ row' = row /\ Faithful(c) /\ Face(c) /\ at[c] \in Running
        /\ task'[c].kind = task[c].kind /\ task[c].met \subseteq task'[c].met
        /\ \A m \in OverrideMethods : Shown(m)' = Shown(m)
    BY <1>3, FaithfulBefore DEF FaceInv
  <2>2. ~BeginStorage(c)
    BY <2>1 DEF BeginStorage, Begin, Running
  <2>3. CASE ReadIdentity(c)
    <3>1. at'[c] = "attach" /\ task'[c].face = ResolveEffectiveIdentity(row, DefaultStealth)
      <4>1. task[c] \in Tasks
        BY <1>1
      <4> QED
        BY <1>1, <2>3, <4>1 DEF ReadIdentity, Goto, Tasks
    <3> QED
      BY <2>1, <3>1 DEF Face
  <2>4. CASE TakeTarget(c) \/ TakeError(c) \/ Closed(c)
    <3>1. at'[c] \in {"identity", "failed", "told"}
      BY <1>1, <2>4 DEF TakeTarget, TakeError, Closed, End, Goto
    <3> QED
      BY <3>1 DEF Face
  <2>5. CASE Attach(c)
    <3> DEFINE face == ResolveEffectiveIdentity(row, DefaultStealth)
               s == ApplyProfileIdentity(face)
    <3>1. /\ row \in Rows /\ row # None /\ at[c] = "attach" /\ task[c].face = face
      BY <2>1, <2>5 DEF CoreInv, LaunchInv, Faithful, Face, Attach
    <3>2. /\ face \in Faces /\ face # None
          /\ \A m \in OverrideMethods : Params(face, m) = Shown(m) /\ DOMAIN Params(face, m) # {}
      BY <3>1, SendsAll
    <3>3. Elements(s) = {Request(m, Params(face, m)) : m \in {k \in OverrideMethods : DOMAIN Params(face, k) # {}}}
      BY <3>2, Applied
    <3> HIDE DEF face
    <3>4. /\ \A r \in Elements(s) : r.params = Shown(r.method)
          /\ \A m \in OverrideMethods : \E r \in Elements(s) : r.method = m
      <4> DEFINE sent(m) == Request(m, Params(face, m))
      <4>1. \A m \in OverrideMethods : sent(m).method = m /\ sent(m).params = Shown(m)
        BY <3>2 DEF Request
      <4> HIDE DEF sent
      <4>2. Elements(s) = {sent(m) : m \in OverrideMethods}
        BY <3>2, <3>3 DEF sent
      <4> QED
        BY <4>1, <4>2
    <3>5. /\ \A r \in Elements(Program(c)) : r.method \in OverrideMethods => r \in Elements(s)
          /\ Elements(s) \subseteq Elements(Program(c))
      BY <3>1, Programmed
    <3> HIDE DEF s
    <3>6. /\ at'[c] = "failed" \/ (at'[c] = "talk" /\ conn'[c].todo = Program(c) /\ Inbox(c)' = {})
      BY <2>5, Attaches
    <3>7. ASSUME at'[c] = "talk", NEW m \in OverrideMethods
          PROVE  Pending(c, m)'
      <4>1. conn'[c].todo = Program(c) /\ ~Replied(c)'
        BY <3>6, <3>7 DEF Replied
      <4>2. PICK r \in Elements(Program(c)) : r.method = m
        BY <3>4, <3>5
      <4> QED
        BY <4>1, <4>2 DEF Pending, Elements, Left
    <3>8. at'[c] = "talk" => \A r \in Elements(conn'[c].todo) :
            r.method \in OverrideMethods => r.params = Shown(r.method)'
      BY <2>1, <3>4, <3>5, <3>6
    <3> QED
      BY <3>6, <3>7, <3>8 DEF Face
  <2>6. ASSUME TakePoll(c) \/ TakeReply(c)
        PROVE  Face(c)'
    <3>1. CASE at'[c] # "talk"
      <4>1. at'[c] \in {"failed", "told", "talk"}
        BY <1>1, <2>6 DEF TakePoll, TakeReply, End, Goto
      <4> QED
        BY <3>1, <4>1 DEF Face
    <3>2. CASE at'[c] = "talk"
      <4>1. /\ at[c] = "talk" /\ overrides' = overrides /\ Replied(c) /\ ~Replied(c)'
            /\ task'[c].kind = task[c].kind /\ task'[c].tgt = task[c].tgt /\ task'[c].met = task[c].met
            /\ conn[c].todo \in Seq(Requests) /\ conn[c].todo # <<>>
            /\ conn'[c].todo = conn[c].todo \/ conn'[c].todo = Tail(conn[c].todo)
        BY <2>6, <3>2, GoesOn DEF webVars
      <4>2. Elements(conn'[c].todo) \subseteq Elements(conn[c].todo)
        BY <4>1, Tailed
      <4>3. \A r \in Elements(conn'[c].todo) : r.method \in OverrideMethods => r.params = Shown(r.method)'
        BY <2>1, <4>1, <4>2 DEF Face
      <4>4. ASSUME NEW m \in OverrideMethods, Pending(c, m)
            PROVE  Pending(c, m)'
        <5>1. PICK i \in 1 .. Left(c) : conn[c].todo[i].method = m /\ i # 1
          BY <4>1, <4>4 DEF Pending
        <5>2. CASE conn'[c].todo = conn[c].todo
          BY <4>1, <5>1, <5>2 DEF Pending, Left
        <5>3. CASE conn'[c].todo = Tail(conn[c].todo)
          <6>1. /\ Left(c) \in Nat \ {0} /\ Left(c)' = Left(c) - 1
                /\ \A j \in 1 .. Left(c) - 1 : conn'[c].todo[j] = conn[c].todo[j + 1]
            BY <4>1, <5>3, Tailed DEF Left
          <6>2. i - 1 \in 1 .. Left(c)' /\ (i - 1) + 1 = i
            BY <5>1, <6>1
          <6>3. conn'[c].todo[i - 1].method = m
            BY <5>1, <6>1, <6>2
          <6> QED
            BY <4>1, <6>2, <6>3 DEF Pending
        <5> QED
          BY <4>1, <5>2, <5>3
      <4>5. ASSUME task'[c].kind = "navigate", "refuse" \notin task'[c].met, NEW m \in OverrideMethods
            PROVE  overrides'[task'[c].tgt][m] = Shown(m)' \/ Pending(c, m)'
        <5>1. overrides[task[c].tgt][m] = Shown(m) \/ Pending(c, m)
          BY <2>1, <4>1, <4>5 DEF Face
        <5> QED
          BY <2>1, <4>1, <4>4, <5>1
      <4> QED
        BY <3>2, <4>3, <4>5 DEF Face
    <3> QED
      BY <3>1, <3>2
  <2> QED
    BY <1>3, <2>2, <2>3, <2>4, <2>5, <2>6 DEF Moves
<1> QED
  BY <1>2, <1>3

LEMMA FaceStep ==
  ASSUME CoreInv, CoreInv', MeetInv, FaceInv, [Next]_vars
  PROVE  FaceInv'
<1>1. CASE UNCHANGED vars
  BY <1>1 DEF vars, callVars, webVars, histVars, FaceInv, Faithful, Face, Left, Replied, Inbox,
              Pending, Shown
<1>2. CASE Next
  BY <1>2, FaceStill, FaceServe, FaceMoves DEF FaceInv
<1> QED
  BY <1>1, <1>2

LEMMA Facing == Spec => [](CoreInv /\ ArgsInv /\ FaceInv)
<1>1. Init => MeetInv /\ ArgsInv /\ FaceInv
  <2> SUFFICES ASSUME Init
               PROVE  MeetInv /\ ArgsInv /\ FaceInv
    OBVIOUS
  <2>1. MeetInv /\ ArgsInv
    BY DEF Init, MeetInv, ArgsInv, Running
  <2>2. \A c \in Calls : at[c] = "idle"
    BY DEF Init
  <2> QED
    BY <2>1, <2>2 DEF FaceInv, Face
<1>2. CoreInv /\ CoreInv' /\ MeetInv /\ ArgsInv /\ FaceInv /\ [Next]_vars => MeetInv' /\ ArgsInv' /\ FaceInv'
  BY MeetStep, ArgsStep, FaceStep
<1> QED
  BY <1>1, <1>2, Core, PTL DEF Spec

\* A page is never requested before the browser shows the whole identity of the session's
\* profile as it is then, updates under way of the session included; unless it was updated
\* that is also the user agent the browser was launched with (gateway.rs:731-798, 855-904).
THEOREM FacesComeFirst == Spec => FaceBeforePage
<1> DEFINE P == \A c \in Calls :
                  /\ row # None /\ "refuse" \notin task[c].met
                  /\ updated => task[c].met \cap {"navigate", "evaluate", "update"} = {}
                  /\ Asked(c, {"navigate"}) /\ ~Asked(c, {"navigate"})' /\ conn'[c].in # <<>>
                  => /\ \A m \in OverrideMethods : overrides[task[c].tgt][m] = Shown(m)
                     /\ ~updated => args.user_agent = Shown("setUserAgentOverride").user_agent
<1>1. CoreInv /\ ArgsInv /\ FaceInv => [P]_vars
  <2> SUFFICES ASSUME CoreInv, ArgsInv, FaceInv, NEW c \in Calls,
                      row # None, "refuse" \notin task[c].met,
                      updated => task[c].met \cap {"navigate", "evaluate", "update"} = {},
                      Asked(c, {"navigate"})
               PROVE  /\ \A m \in OverrideMethods : overrides[task[c].tgt][m] = Shown(m)
                      /\ ~updated => args.user_agent = Shown("setUserAgentOverride").user_agent
    OBVIOUS
  <2>1. at[c] \in Conversing /\ Doing(c).method = "navigate"
    BY OnTheWire DEF Asked
  <2>2. at[c] = "talk" /\ task[c].kind = "navigate" /\ Left(c) = 3
    BY <2>1, DoingWhat DEF Actions
  <2>3. Face(c)
    BY <2>2 DEF FaceInv, Faithful, Actions
  <2>4. ASSUME NEW m \in OverrideMethods
        PROVE  ~Pending(c, m)
    <3>1. Shape(c) /\ conn[c].todo[1] = Doing(c)
      <4>1. conn[c].todo \in Seq(Requests) /\ conn[c].todo # <<>> /\ Shape(c)
        BY <2>1 DEF CoreInv, CallsInv, Conns, Call, Place
      <4> QED
        BY <4>1, Tailed DEF Doing
    <3>2. conn[c].todo[2] = ReadyState /\ conn[c].todo[3] = Evaluate("location.href")
      BY <2>2, <3>1 DEF Shape
    <3>3. \A i \in 1 .. 3 : conn[c].todo[i].method \notin OverrideMethods
      BY <2>1, <3>1, <3>2 DEF ReadyState, Evaluate, Request, OverrideMethods
    <3> QED
      BY <2>2, <3>3 DEF Pending
  <2>5. life # "picked"
    BY <2>2 DEF CoreInv, Call, Place
  <2> QED
    BY <2>2, <2>3, <2>4, <2>5 DEF Face, ArgsInv
<1> QED
  BY <1>1, Facing, PTL DEF Spec, FaceBeforePage
=============================================================================
