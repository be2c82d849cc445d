----------------------------- MODULE ConfigFile -----------------------------
(***************************************************************************)
(* config.toml and the commands that share it (src/config.rs, and the      *)
(* commands of src/lib.rs): one gateway and any number of CLI processes,   *)
(* with no lock between them.  Every command, also one that only prints,   *)
(* loads the file and saves it again; fs::write empties the file before it *)
(* fills it.                                                               *)
(*                                                                         *)
(* The fields are those the commands treat differently: api_key stands for *)
(* every field a setter overwrites, the proxy policies are a set of names. *)
(***************************************************************************)
EXTENDS Integers

CONSTANTS Commands,  \* processes, each running one command
          Keys,      \* api keys
          Names,     \* proxy policy names
          Direct,    \* the policy "direct", which needs no entry
          Initials,  \* what the file may hold at first: a config, or Absent
          Absent, Empty, Torn,
          None,
          Faults     \* "kill": a process is killed between two system calls

Config == [key : Keys, default : Names \cup {Direct}, policies : SUBSET Names]
Kinds == {"show", "run", "set-api-key", "set-default-proxy-policy",
          "upsert-proxy-policy", "delete-proxy-policy"}

ASSUME InitialAssumption ==
  /\ Initials \subseteq Config \cup {Absent}
  /\ \A f \in Initials \ {Absent} : f.default \in f.policies \cup {Direct}
ASSUME UnreadableAssumption == {Absent, Empty, Torn} \cap Config = {}
ASSUME DistinctAssumption == Absent \notin {Empty, Torn}
ASSUME DirectAssumption == None \notin Config /\ None \notin Keys
ASSUME FaultAssumption == Faults \subseteq {"kill"}

VARIABLES
  file,    \* content of config.toml
  at,      \* where each process is
  round,   \* which of its saves it is on
  held,    \* the AppConfig it has in memory
  cmd,     \* what it was asked to do
  gateway, \* the api key the running gateway compares with
  first,   \* history: what the file held at first
  before   \* history: the file when a command started, while nothing else has run

vars == <<file, at, round, held, cmd, gateway, first, before>>

Request == [kind : Kinds, key : Keys \cup {None}, name : Names \cup {Direct, None}]
NoRequest == [kind |-> "show", key |-> None, name |-> None]
Running == {"load", "open", "write"}

TypeOK ==
  /\ file \in Config \cup {Absent, Empty, Torn} /\ first \in Initials
  /\ at \in [Commands -> Running \cup {"new", "done", "failed"}]
  /\ round \in [Commands -> 1 .. 3]
  /\ held \in [Commands -> Config \cup {None}]
  /\ cmd \in [Commands -> Request]
  /\ gateway \in Keys \cup {None}
  /\ before \in [Commands -> Config \cup {Absent, Empty, Torn, None}]
  /\ \A c \in Commands : at[c] \in {"open", "write"} => held[c] # None

Init ==
  /\ first \in Initials /\ file = first
  /\ at = [c \in Commands |-> "new"]
  /\ round = [c \in Commands |-> 1]
  /\ held = [c \in Commands |-> None]
  /\ cmd = [c \in Commands |-> NoRequest]
  /\ gateway = None
  /\ before = [c \in Commands |-> None]

-----------------------------------------------------------------------------
Goto(c, to) == at' = [at EXCEPT ![c] = to]
Exit(c, to) ==
  /\ Goto(c, to)
  /\ held' = [held EXCEPT ![c] = None]
  /\ round' = [round EXCEPT ![c] = 1]
  /\ before' = [before EXCEPT ![c] = None]

\* What the command changes in the config it loaded
Apply_setsDefault(r, f) == [f EXCEPT !.default = r.name]
Apply(r, f) ==
  [key |-> IF r.kind = "set-api-key" THEN r.key ELSE f.key,
   default |-> IF r.kind = "set-default-proxy-policy" THEN r.name ELSE f.default,
   policies |-> IF r.kind = "upsert-proxy-policy" THEN f.policies \cup {r.name}
                ELSE IF r.kind = "delete-proxy-policy" THEN f.policies \ {r.name}
                ELSE f.policies]

\* delete_proxy_policy refuses to remove the default
Refused_never(r, f) == FALSE
Refused(r, f) == r.kind = "delete-proxy-policy" /\ r.name = f.default

Fits(r) ==
  /\ (r.key # None) <=> (r.kind = "set-api-key")
  /\ (r.name # None) <=> (r.kind \in {"set-default-proxy-policy", "upsert-proxy-policy",
                                       "delete-proxy-policy"})
  /\ r.kind \in {"upsert-proxy-policy", "delete-proxy-policy"} => r.name \in Names

\* One gateway at a time: another fails to bind listen_addr, after it has loaded and saved
\* the file like a command that only prints
Start(c, r) ==
  /\ at[c] = "new" /\ Fits(r)
  /\ r.kind = "run" => \A o \in Commands : cmd[o].kind # "run"
  /\ Goto(c, "load")
  /\ cmd' = [cmd EXCEPT ![c] = r]
  /\ before' = [o \in Commands |-> IF o = c /\ \A d \in Commands : at[d] \notin Running
                                   THEN file ELSE None]
  /\ UNCHANGED <<file, round, held, gateway, first>>

\* load_or_create: what is in the file, a new config when there is none, an
\* error when it does not parse.  The file is saved again either way.
Fresh(f) == f.default = Direct /\ f.policies = {}

Load_orDefault(c) ==
  /\ at[c] = "load"
  /\ Goto(c, "open")
  /\ \E f \in Config :
       /\ IF file \in Config THEN f = file ELSE Fresh(f)
       /\ held' = [held EXCEPT ![c] = f]
  /\ UNCHANGED <<file, round, cmd, gateway, first, before>>
Load(c) ==
  /\ at[c] = "load"
  /\ \/ /\ file \in {Empty, Torn}
        /\ Exit(c, "failed")
     \/ /\ Goto(c, "open")
        /\ \E f \in Config :
             /\ f = file \/ (file = Absent /\ Fresh(f))
             /\ held' = [held EXCEPT ![c] = f]
        /\ UNCHANGED <<round, before>>
  /\ UNCHANGED <<file, cmd, gateway, first>>

\* save: fs::write opens the file and empties it, then writes
Open(c) ==
  /\ at[c] = "open"
  /\ file' = Empty
  /\ Goto(c, "write")
  /\ UNCHANGED <<round, held, cmd, gateway, first, before>>

\* Over another process's bytes the longer of the two texts shows at the end
Written(f) == IF file = Empty THEN {f} ELSE {f, Torn}

\* After its first save a command that changes nothing is over and the gateway
\* serves; the others load and save once more before they apply their change.
OneLoad == {"show", "run"}

Write_unchanged(c) ==
  /\ at[c] = "write"
  /\ file' \in Written(held[c])
  /\ \/ /\ round[c] < 3 /\ Goto(c, "load")
        /\ round' = [round EXCEPT ![c] = @ + 1]
        /\ UNCHANGED <<held, before>>
     \/ round[c] = 3 /\ Exit(c, "done")
  /\ UNCHANGED <<cmd, gateway, first>>
Write(c) ==
  /\ at[c] = "write"
  /\ file' \in Written(held[c])
  /\ \/ /\ round[c] = 1 /\ cmd[c].kind \notin OneLoad
        /\ Goto(c, "load")
        /\ round' = [round EXCEPT ![c] = 2]
        /\ UNCHANGED <<held, before>>
     \/ /\ round[c] = 2 /\ ~Refused(cmd[c], held[c])
        /\ Goto(c, "open")
        /\ round' = [round EXCEPT ![c] = 3]
        /\ held' = [held EXCEPT ![c] = Apply(cmd[c], @)]
        /\ UNCHANGED before
     \/ round[c] = 2 /\ Refused(cmd[c], held[c]) /\ Exit(c, "failed")
     \/ (round[c] = 3 \/ cmd[c].kind \in OneLoad) /\ Exit(c, "done")
  /\ gateway' = IF cmd[c].kind = "run" THEN held[c].key ELSE gateway
  /\ UNCHANGED <<cmd, first>>

Killed(c) ==
  /\ "kill" \in Faults /\ at[c] \in Running
  /\ Exit(c, "failed")
  /\ UNCHANGED <<file, cmd, gateway, first>>

Next == \E c \in Commands :
          \/ \E r \in Request : Start(c, r)
          \/ Load(c) \/ Open(c) \/ Write(c) \/ Killed(c)

Spec == Init /\ [][Next]_vars

-----------------------------------------------------------------------------
\* The api key only ever changes to one that a set-api-key command gave, in the file
\* and in the gateway, whatever overlaps or is killed: clients stay authorised.  A file
\* that a kill left empty makes commands fail, it is not replaced (config.rs:152-168).
\* Two commands that find no file each make a key of their own; hence the condition.
KeyGiven ==
  LET given == {first.key} \cup {cmd[c].key : c \in {d \in Commands : at[d] # "new"}}
  IN  first \in Config => /\ file \in Config => file.key \in given
                          /\ gateway \in given \cup {None}

\* The default names a policy the file does not have only if someone set it to that
\* name: no overlap of upserts and deletions makes it dangle (config.rs:200-206).
DanglingOnlyBySet ==
  file \in Config =>
    \/ file.default \in file.policies \cup {Direct}
    \/ \E c \in Commands : /\ cmd[c].kind = "set-default-proxy-policy"
                           /\ cmd[c].name = file.default

\* A command that nothing else overlapped did just what it says, and one that was
\* refused or only prints changed nothing (config.rs:240-248, lib.rs:343-398).
AloneTakesEffect ==
  [][\A c \in Commands : before[c] \in Config /\ at[c] = "write" =>
       /\ at'[c] = "done" => file' = Apply(cmd[c], before[c])
       /\ at'[c] = "failed" => file' = before[c] \/ Killed(c)]_vars
=============================================================================
