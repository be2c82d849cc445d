-------------------------- MODULE ConfigFileProofs --------------------------
(***************************************************************************)
(* Proofs about ConfigFile for any number of commands, keys and policies.  *)
(* Both properties of the file hold because they hold of every config in   *)
(* flight as well: what a process has in memory was in the file once, or   *)
(* is what a setter made of it.                                            *)
(***************************************************************************)
EXTENDS ConfigFile, TLAPS

Given == {first.key} \cup {cmd[c].key : c \in {d \in Commands : at[d] # "new"}}

\* The key of every config there is was there at first or given by a command
KeyInv ==
  first \in Config =>
    /\ file # Absent
    /\ file \in Config => file.key \in Given
    /\ gateway \in Given \cup {None}
    /\ \A c \in Commands : held[c] # None => held[c].key \in Given

Chosen == {cmd[c].name : c \in {d \in Commands : cmd[d].kind = "set-default-proxy-policy"}}
Sound(f, names) == f.default \in f.policies \cup {Direct} \cup names

\* The default of every config there is has an entry or was set by a command; a command
\* that has not started has set nothing
DefaultInv ==
  /\ file \in Config => Sound(file, Chosen)
  /\ \A c \in Commands : held[c] # None => Sound(held[c], Chosen)
  /\ \A c \in Commands : at[c] = "new" => cmd[c] = NoRequest

-----------------------------------------------------------------------------
\* What a setter makes of a config is a config
LEMMA ApplyType ==
  ASSUME NEW r \in Request, Fits(r), NEW f \in Config
  PROVE  Apply(r, f) \in Config
BY DEF Apply, Config, Request, Fits
-----------------------------------------------------------------------------
\* Types, with what Fits says of every command that has started
TypeInv == TypeOK /\ \A c \in Commands : at[c] # "new" => Fits(cmd[c])

LEMMA InitTypeInv == Init => TypeInv
BY InitialAssumption DEF Init, TypeInv, TypeOK, Request, NoRequest, Kinds, Running, Config

LEMMA NextTypeInv == TypeInv /\ [Next]_vars => TypeInv'
<1> SUFFICES ASSUME TypeInv, [Next]_vars
             PROVE  TypeInv'
  OBVIOUS
<1> USE DEF TypeInv, TypeOK, Running
<1>1. ASSUME NEW c \in Commands, NEW r \in Request, Start(c, r)
      PROVE  TypeInv'
  BY <1>1 DEF Start, Goto
<1>2. ASSUME NEW c \in Commands, Load(c)
      PROVE  TypeInv'
  BY <1>2, DirectAssumption DEF Load, Goto, Exit
<1>3. ASSUME NEW c \in Commands, Open(c)
      PROVE  TypeInv'
  BY <1>3 DEF Open, Goto
<1>4. ASSUME NEW c \in Commands, Write(c)
      PROVE  TypeInv'
  <2>1. held[c] \in Config /\ Fits(cmd[c]) /\ cmd[c] \in Request
    BY <1>4 DEF Write
  <2>2. held[c].key \in Keys /\ Apply(cmd[c], held[c]) \in Config
    BY <2>1, ApplyType DEF Config
  <2>3. file' \in Config \cup {Absent, Empty, Torn}
    BY <1>4, <2>1 DEF Write, Written
  <2>4. gateway' \in Keys \cup {None}
    BY <1>4, <2>2 DEF Write
  <2>5. /\ at' \in [Commands -> Running \cup {"new", "done", "failed"}]
        /\ round' \in [Commands -> 1 .. 3]
        /\ held' \in [Commands -> Config \cup {None}]
        /\ before' \in [Commands -> Config \cup {Absent, Empty, Torn, None}]
    BY <1>4, <2>1, <2>2 DEF Write, Goto, Exit
  <2>6. \A d \in Commands : at'[d] \in {"open", "write"} => held'[d] # None
    BY <1>4, <2>1, <2>2, DirectAssumption DEF Write, Goto, Exit
  <2>7. \A d \in Commands : at'[d] # "new" => Fits(cmd'[d])
    BY <1>4 DEF Write, Goto, Exit
  <2> QED
    BY <1>4, <2>3, <2>4, <2>5, <2>6, <2>7 DEF Write
<1>5. ASSUME NEW c \in Commands, Killed(c)
      PROVE  TypeInv'
  BY <1>5 DEF Killed, Goto, Exit
<1>6. CASE UNCHANGED vars
  BY <1>6 DEF vars
<1> QED
  BY <1>1, <1>2, <1>3, <1>4, <1>5, <1>6 DEF Next

\* Every variable keeps its type, and a process that is about to save holds a config
\* (config.rs:152-174).
THEOREM TypeCorrect == Spec => []TypeOK
<1>1. TypeInv => TypeOK
  BY DEF TypeInv
<1> QED
  BY <1>1, InitTypeInv, NextTypeInv, PTL DEF Spec
-----------------------------------------------------------------------------
\* Starting a command only adds to the keys that were given
LEMMA GivenGrows ==
  ASSUME TypeInv, DefaultInv, Next
  PROVE  /\ first' = first /\ Given \subseteq Given' /\ Chosen \subseteq Chosen'
<1> USE DEF TypeInv, TypeOK, Running
<1>1. ASSUME NEW c \in Commands, NEW r \in Request, Start(c, r)
      PROVE  /\ first' = first
             /\ \A d \in Commands : at[d] # "new" => at'[d] # "new" /\ cmd'[d] = cmd[d]
             /\ \A d \in Commands : cmd[d].kind = "set-default-proxy-policy" => cmd'[d] = cmd[d]
  BY <1>1 DEF Start, Goto, DefaultInv, NoRequest
<1>2. ASSUME NEW c \in Commands, Load(c) \/ Open(c) \/ Write(c) \/ Killed(c)
      PROVE  /\ first' = first /\ cmd' = cmd
             /\ \A d \in Commands : at[d] # "new" => at'[d] # "new"
  BY <1>2 DEF Load, Open, Write, Killed, Goto, Exit
<1>3. /\ first' = first
      /\ \A d \in Commands : at[d] # "new" => at'[d] # "new" /\ cmd'[d] = cmd[d]
      /\ \A d \in Commands : cmd[d].kind = "set-default-proxy-policy" => cmd'[d] = cmd[d]
  BY <1>1, <1>2 DEF Next
<1> QED
  BY <1>3 DEF Given, Chosen

\* A change keeps the key among those given and the default sound
LEMMA ApplySound ==
  ASSUME TypeInv, KeyInv, DefaultInv, NEW c \in Commands, at[c] # "new",
         NEW f \in Config, ~Refused(cmd[c], f)
  PROVE  /\ f.key \in Given => Apply(cmd[c], f).key \in Given
         /\ Sound(f, Chosen) => Sound(Apply(cmd[c], f), Chosen)
<1> USE DEF Apply, Refused
<1>1. cmd[c].key \in Given
  BY DEF Given
<1>2. cmd[c].kind = "set-default-proxy-policy" => Sound(Apply(cmd[c], f), Chosen)
  BY DEF Sound, Chosen
<1>3. ASSUME cmd[c].kind # "set-default-proxy-policy", f.default \in f.policies \cup {Direct}
      PROVE  Sound(Apply(cmd[c], f), Chosen)
  BY <1>3 DEF Sound, Config
<1>4. ASSUME cmd[c].kind # "set-default-proxy-policy", Sound(f, Chosen),
             f.default \notin f.policies \cup {Direct}
      PROVE  Sound(Apply(cmd[c], f), Chosen)
  BY <1>4 DEF Sound, Config
<1> QED
  BY <1>1, <1>2, <1>3, <1>4
-----------------------------------------------------------------------------
IInv == TypeInv /\ KeyInv /\ DefaultInv

LEMMA InitIInv == Init => IInv
<1> SUFFICES ASSUME Init
             PROVE  KeyInv /\ DefaultInv
  BY InitTypeInv DEF IInv
<1>1. KeyInv
  BY UnreadableAssumption DEF Init, KeyInv, Given
<1>2. DefaultInv
  BY InitialAssumption, UnreadableAssumption DEF Init, DefaultInv, Sound
<1> QED
  BY <1>1, <1>2

\* A step puts into the file, a process or the gateway only what one of them had, a
\* changed config, or, where there was no file, a new one
LEMMA NextIInv == IInv /\ [Next]_vars => IInv'
<1> SUFFICES ASSUME IInv, [Next]_vars
             PROVE  (KeyInv /\ DefaultInv)'
  BY NextTypeInv DEF IInv
<1> USE DEF IInv
<1>1. CASE UNCHANGED vars
  BY <1>1 DEF vars, KeyInv, DefaultInv, Given, Chosen
<1>2. CASE Next
  <2> USE DEF TypeInv, TypeOK, Running
  <2>1. first' = first /\ Given \subseteq Given' /\ Chosen \subseteq Chosen'
    BY <1>2, GivenGrows
  <2>2. \A c \in Commands : at'[c] = "new" => cmd'[c] = NoRequest
    BY <1>2 DEF Next, Start, Load, Open, Write, Killed, Goto, Exit, DefaultInv
  <2>3. ASSUME NEW c \in Commands, NEW r \in Request, Start(c, r)
        PROVE  (KeyInv /\ DefaultInv)'
    BY <2>1, <2>2, <2>3 DEF Start, KeyInv, DefaultInv, Sound
  <2>4. ASSUME NEW c \in Commands, Load(c)
        PROVE  (KeyInv /\ DefaultInv)'
    <3>1. ASSUME NEW d \in Commands, held'[d] # None
          PROVE  \/ held'[d] = held[d]
                 \/ file \in Config /\ held'[d] = file
                 \/ file = Absent /\ held'[d].default = Direct
      BY <2>4, <3>1, UnreadableAssumption DEF Load, Goto, Exit, Fresh
    <3>2. file' = file /\ gateway' = gateway
      BY <2>4 DEF Load
    <3>3. \A d \in Commands : held'[d] # None => Sound(held'[d], Chosen')
      BY <2>1, <3>1 DEF DefaultInv, Sound
    <3>4. \A d \in Commands : first \in Config /\ held'[d] # None => held'[d].key \in Given'
      BY <2>1, <3>1 DEF KeyInv
    <3> QED
      BY <2>1, <2>2, <3>2, <3>3, <3>4 DEF KeyInv, DefaultInv, Sound
  <2>5. ASSUME NEW c \in Commands, Open(c)
        PROVE  (KeyInv /\ DefaultInv)'
    BY <2>1, <2>2, <2>5, UnreadableAssumption, DistinctAssumption DEF Open, KeyInv, DefaultInv, Sound
  <2>6. ASSUME NEW c \in Commands, Write(c)
        PROVE  (KeyInv /\ DefaultInv)'
    <3>1. held[c] \in Config /\ at[c] # "new"
      BY <2>6 DEF Write
    <3>2. file' \in {held[c], Torn} /\ gateway' \in {gateway, held[c].key}
      BY <2>6 DEF Write, Written
    <3>3. ASSUME NEW d \in Commands, held'[d] # None
          PROVE  \/ held'[d] = held[d]
                 \/ d = c /\ ~Refused(cmd[c], held[c]) /\ held'[d] = Apply(cmd[c], held[c])
      BY <2>6, <3>3 DEF Write, Goto, Exit
    <3>4. ASSUME NEW d \in Commands, held'[d] # None
          PROVE  /\ Sound(held'[d], Chosen')
                 /\ first \in Config => held'[d].key \in Given'
      <4>1. CASE held'[d] = held[d]
        BY <2>1, <3>4, <4>1 DEF DefaultInv, KeyInv, Sound
      <4>2. CASE d = c /\ ~Refused(cmd[c], held[c]) /\ held'[d] = Apply(cmd[c], held[c])
        <5>1. /\ held[c].key \in Given => held'[d].key \in Given
              /\ Sound(held[c], Chosen) => Sound(held'[d], Chosen)
          BY <3>1, <4>2, ApplySound
        <5>2. Sound(held[c], Chosen) /\ (first \in Config => held[c].key \in Given)
          BY <3>1, DirectAssumption DEF DefaultInv, KeyInv
        <5> QED
          BY <2>1, <5>1, <5>2 DEF Sound
      <4> QED
        BY <3>3, <3>4, <4>1, <4>2
    <3>6. held[c] # None /\ held[c] # Absent /\ Torn # Absent /\ Torn \notin Config
      BY <3>1, DirectAssumption, UnreadableAssumption, DistinctAssumption
    <3> QED
      BY <2>1, <2>2, <3>1, <3>2, <3>4, <3>6 DEF KeyInv, DefaultInv, Sound
  <2>7. ASSUME NEW c \in Commands, Killed(c)
        PROVE  (KeyInv /\ DefaultInv)'
    BY <2>1, <2>2, <2>7 DEF Killed, Exit, Goto, KeyInv, DefaultInv, Sound
  <2> QED
    BY <1>2, <2>3, <2>4, <2>5, <2>6, <2>7 DEF Next
<1> QED
  BY <1>1, <1>2

LEMMA Invariance == Spec => []IInv
BY InitIInv, NextIInv, PTL DEF Spec, IInv

\* The key in the file, and the one the gateway compares with, was there at first or was
\* given by a set-api-key command, under every overlap and every kill (config.rs:152-174).
THEOREM KeyIsGiven == Spec => []KeyGiven
<1>1. IInv => KeyGiven
  BY DEF IInv, KeyInv, KeyGiven, Given
<1> QED
  BY <1>1, Invariance, PTL

\* The default policy has an entry, or was set to a name without one by a command: no
\* overlap of upserts, deletions and rewrites makes it dangle (config.rs:176-206).
THEOREM DefaultDanglesBySet == Spec => []DanglingOnlyBySet
<1>1. IInv => DanglingOnlyBySet
  BY DEF IInv, DefaultInv, Sound, Chosen, DanglingOnlyBySet
<1> QED
  BY <1>1, Invariance, PTL

-----------------------------------------------------------------------------
\* Where a command that nothing else overlaps is with the file it found at its start
AloneAt(c) ==
  /\ at[c] \in Running /\ \A d \in Commands : at[d] \in Running => d = c
  /\ at[c] = "load" => round[c] # 3
  /\ round[c] # 1 => cmd[c].kind \notin OneLoad
  /\ file = IF at[c] = "write" THEN Empty ELSE before[c]
  /\ at[c] # "load" => held[c] = IF round[c] = 3 THEN Apply(cmd[c], before[c]) ELSE before[c]

AloneInv ==
  /\ \A c \in Commands : before[c] \in Config => AloneAt(c)
  /\ \A c \in Commands : at[c] = "new" => round[c] = 1

\* The commands that change nothing keep every field of the config they save
LEMMA ApplyOneLoad ==
  ASSUME NEW r \in Request, r.kind \in OneLoad, NEW f \in Config
  PROVE  Apply(r, f) = f
BY DEF Apply, OneLoad, Config

LEMMA NextAlone == TypeInv /\ TypeInv' /\ AloneInv /\ [Next]_vars => AloneInv'
<1> SUFFICES ASSUME TypeInv, TypeInv', AloneInv, [Next]_vars
             PROVE  AloneInv'
  OBVIOUS
<1> USE DirectAssumption, UnreadableAssumption
<1> USE DEF TypeInv, TypeOK, Running, AloneInv, AloneAt
<1>1. ASSUME NEW c \in Commands, NEW r \in Request, Start(c, r)
      PROVE  AloneInv'
  BY <1>1 DEF Start, Goto
<1>2. ASSUME NEW c \in Commands, Load(c)
      PROVE  AloneInv'
  BY <1>2 DEF Load, Goto, Exit
<1>3. ASSUME NEW c \in Commands, Open(c)
      PROVE  AloneInv'
  BY <1>3 DEF Open, Goto
<1>4. ASSUME NEW c \in Commands, Write(c)
      PROVE  AloneInv'
  <2>1. \A d \in Commands : d # c => ~(before[d] \in Config)
    BY <1>4 DEF Write
  <2>2. \A d \in Commands : d # c => before'[d] = before[d] /\ at'[d] = at[d] /\ round'[d] = round[d]
    BY <1>4 DEF Write, Goto, Exit
  <2>3. at'[c] # "new"
    BY <1>4 DEF Write, Goto, Exit
  <2>4. CASE before[c] \in Config
    <3>1. file' = held[c] /\ held[c] = IF round[c] = 3 THEN Apply(cmd[c], before[c]) ELSE before[c]
      BY <1>4, <2>4 DEF Write, Written
    <3>2. before'[c] \in Config => AloneAt(c)'
      BY <1>4, <2>2, <2>4, <3>1 DEF Write, Goto, Exit
    <3> QED
      BY <2>1, <2>2, <2>3, <3>2
  <2>5. CASE before[c] \notin Config
    <3>1. before'[c] \notin Config
      BY <1>4, <2>5 DEF Write, Exit
    <3> QED
      BY <2>1, <2>2, <2>3, <3>1
  <2> QED
    BY <2>4, <2>5
<1>5. ASSUME NEW c \in Commands, Killed(c)
      PROVE  AloneInv'
  BY <1>5 DEF Killed, Goto, Exit
<1>6. CASE UNCHANGED vars
  BY <1>6 DEF vars
<1> QED
  BY <1>1, <1>2, <1>3, <1>4, <1>5, <1>6 DEF Next

\* What its last step does to the file
LEMMA AloneStep ==
  ASSUME TypeInv, AloneInv, [Next]_vars, NEW c \in Commands, before[c] \in Config, at[c] = "write"
  PROVE  /\ at'[c] = "done" => file' = Apply(cmd[c], before[c])
         /\ at'[c] = "failed" => file' = before[c] \/ Killed(c)
<1> USE DEF TypeInv, TypeOK, Running, AloneInv, AloneAt
<1>1. CASE Write(c)
  <2>1. file' = held[c] /\ held[c] = IF round[c] = 3 THEN Apply(cmd[c], before[c]) ELSE before[c]
    BY <1>1 DEF Write, Written
  <2>2. CASE cmd[c].kind \in OneLoad
    <3>1. Apply(cmd[c], before[c]) = before[c]
      BY <2>2, ApplyOneLoad
    <3> QED
      BY <1>1, <2>1, <2>2, <3>1 DEF Write, Goto, Exit
  <2>3. CASE cmd[c].kind \notin OneLoad
    BY <1>1, <2>1, <2>3 DEF Write, Goto, Exit
  <2> QED
    BY <2>2, <2>3
<1>2. ASSUME ~Write(c), ~Killed(c)
      PROVE  at'[c] = "write"
  <2>1. CASE UNCHANGED vars
    BY <2>1 DEF vars
  <2>2. ASSUME NEW d \in Commands, NEW r \in Request, Start(d, r)
        PROVE  at'[c] = "write"
    BY <2>2 DEF Start, Goto
  <2>3. ASSUME NEW d \in Commands, Load(d) \/ Open(d) \/ Write(d) \/ Killed(d)
        PROVE  FALSE
    BY <1>2, <2>3 DEF Load, Open, Write, Killed
  <2> QED
    BY <2>1, <2>2, <2>3 DEF Next
<1>3. CASE Killed(c)
  BY <1>3 DEF Killed, Goto, Exit
<1> QED
  BY <1>1, <1>2, <1>3

\* A command that nothing overlaps leaves in the file what it found with its one change,
\* and what it found when it is refused or only prints (config.rs:240-248, lib.rs:343-398).
THEOREM LoneCommandTakesEffect == Spec => AloneTakesEffect
<1>1. Init => AloneInv
  BY DirectAssumption DEF Init, AloneInv
<1>2. TypeInv /\ AloneInv /\ [Next]_vars =>
        \A c \in Commands : before[c] \in Config /\ at[c] = "write" =>
          /\ at'[c] = "done" => file' = Apply(cmd[c], before[c])
          /\ at'[c] = "failed" => file' = before[c] \/ Killed(c)
  BY AloneStep
<1> QED
  BY <1>1, <1>2, InitTypeInv, NextTypeInv, NextAlone, PTL DEF Spec, AloneTakesEffect
=============================================================================
