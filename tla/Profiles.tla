------------------------------ MODULE Profiles ------------------------------
(***************************************************************************)
(* One profile: its row in the database, its two cookie files and its      *)
(* directory, and the handlers that write them (src/gateway.rs, db.rs,     *)
(* server.rs).  Handlers of different profiles share none of these.        *)
(*                                                                         *)
(* A set of cookies is one value of Jars: cookie_urls and cookie_count are *)
(* functions of it.  The row's description stands for description and      *)
(* identity, which every writer copies together.  fs::write opens a file,  *)
(* which empties it, and writes: two steps here.                           *)
(***************************************************************************)
CONSTANTS Handlers,      \* update, import and delete requests in flight
          Sessions,      \* sessions asked for on this profile
          Jars,          \* non-empty sets of cookies
          NoJar,         \* no cookies
          Absent, Empty, Torn, \* a file that is not there, is empty, or holds a part or a
                               \* mixture of texts
          Descriptions, Blank,
          Faults

ASSUME JarAssumption == NoJar \notin Jars
ASSUME FileAssumption == /\ {Absent, Empty, Torn} \cap (Jars \cup {NoJar}) = {}
                         /\ Absent \notin {Empty, Torn} /\ Empty # Torn
ASSUME DescriptionAssumption == Blank \notin Descriptions
ASSUME ActorAssumption == Handlers \cap Sessions = {} /\ NoJar \notin Sessions
ASSUME FaultAssumption == Faults \subseteq {"crash", "storage", "disconnect"}

VARIABLES
  stored,      \* "unborn", "stored" or "deleted": the row
  description, \* profiles.description and identity_json
  saved,       \* profiles.cookie_urls and cookie_count
  dir,         \* profile_dir exists
  file,        \* content of profile_json_cookie_path and profile_netscape_cookie_path
  mode,        \* profile_mode of each session
  at,          \* where each handler and session is
  seen,        \* the row each actor read
  jar,         \* the cookies each actor writes
  text,        \* the description an update writes
  open,        \* the file each actor has emptied and not yet filled, unless it was removed
  lock,        \* the session whose close holds the runtimes guard
  calm,        \* history: no two writers overlapped, none was cut short, no removal failed
  whole        \* history: the last write of a file was not cut short and no other ran with it

rowVars == <<stored, description, saved>>
fileVars == <<dir, file, open, whole>>
actorVars == <<at, seen, jar, text>>
vars == <<rowVars, fileVars, mode, actorVars, lock, calm>>

Actors == Handlers \cup Sessions
Formats == {"json", "netscape"}
WritingBack == {"cmeta", "copenjson", "cjson", "copennetscape", "cnetscape"}
Closing == {"fetch", "profile", "kill"} \cup WritingBack
ActivePc == {"active", "lost", "mark"} \cup Closing
Importing == {"icheck", "iopenjson", "ijson", "iopennetscape", "inetscape", "imeta", "iartifact"}

\* active_sessions_for_profile
Active == {s \in Sessions : at[s] \in ActivePc}

\* Who is between its first look at the profile and its last write
Writers == {h \in Handlers : at[h] # "idle"} \cup {s \in Sessions : at[s] \in WritingBack}

\* Where a handler stands that has announced cookies in the row or emptied the file, and has
\* not filled it yet
Due == [f \in Formats |-> IF f = "json" THEN {"copenjson", "cjson", "ijson"}
                          ELSE (WritingBack \ {"cmeta"}) \cup {"inetscape"}]

NoRow == [description |-> Blank, saved |-> NoJar]
Row == [description |-> description, saved |-> saved]

Goto(a, to) == at' = [at EXCEPT ![a] = to]

TypeOK ==
  /\ stored \in {"unborn", "stored", "deleted"}
  /\ description \in Descriptions \cup {Blank}
  /\ saved \in Jars \cup {NoJar}
  /\ dir \in BOOLEAN
  /\ file \in [Formats -> Jars \cup {NoJar, Absent, Empty, Torn}]
  /\ mode \in [Sessions -> {"read_only", "read_write"}]
  /\ at \in [Actors -> {"idle", "update", "delete", "rmdir", "rmjson", "rmnetscape",
                        "new", "checked", "closed"} \cup Importing \cup ActivePc]
  /\ seen \in [Actors -> [description : Descriptions \cup {Blank}, saved : Jars \cup {NoJar}]]
  /\ jar \in [Actors -> Jars \cup {NoJar}]
  /\ text \in [Handlers -> Descriptions \cup {Blank}]
  /\ open \in [Actors -> Formats \cup {"none"}]
  /\ lock \in Sessions \cup {NoJar}
  /\ calm \in BOOLEAN /\ whole \in [Formats -> BOOLEAN]
  /\ lock # NoJar => at[lock] \in Closing

Init ==
  /\ stored = "unborn" /\ description = Blank /\ saved = NoJar
  /\ dir = FALSE /\ file = [f \in Formats |-> Absent]
  /\ mode \in [Sessions -> {"read_only", "read_write"}]
  /\ at = [a \in Actors |-> IF a \in Sessions THEN "new" ELSE "idle"]
  /\ seen = [a \in Actors |-> NoRow]
  /\ jar = [a \in Actors |-> NoJar]
  /\ text = [h \in Handlers |-> Blank]
  /\ open = [a \in Actors |-> "none"]
  /\ lock = NoJar
  /\ calm = TRUE /\ whole = [f \in Formats |-> TRUE]

-----------------------------------------------------------------------------
\* fs::write

OpenFile(a, f) ==
  /\ file' = [file EXCEPT ![f] = Empty]
  /\ open' = [open EXCEPT ![a] = f]
  /\ whole' = [whole EXCEPT ![f] = \A b \in Actors : open[b] # f]

\* Over another writer's bytes the longer of the two texts shows at the end; the bytes of a
\* file that was removed go nowhere
FillFile(a, f) ==
  /\ IF open[a] = f
     THEN \E bytes \in {jar[a]} \cup (IF file[f] = Empty THEN {} ELSE {Torn}) :
            file' = [file EXCEPT ![f] = bytes]
     ELSE UNCHANGED file
  /\ open' = [open EXCEPT ![a] = "none"]
  /\ UNCHANGED whole

RemoveFile(f) ==
  /\ file' = [file EXCEPT ![f] = Absent]
  /\ open' = [a \in Actors |-> IF open[a] = f THEN "none" ELSE open[a]]
  /\ UNCHANGED whole

\* The handlers of these actors end where they are: what they write may be there in part
CutShort(actors) ==
  /\ \E part \in SUBSET {f \in Formats : \E a \in actors : open[a] = f} :
       file' = [f \in Formats |-> IF f \in part THEN Torn ELSE file[f]]
  /\ open' = [a \in Actors |-> IF a \in actors THEN "none" ELSE open[a]]
  /\ whole' = [f \in Formats |-> whole[f] /\ \A a \in actors : at[a] \notin Due[f]]
  /\ calm' = (calm /\ actors \cap Writers = {})

\* An action that is not cut short
Going == calm' = (calm /\ \A a, b \in Writers' : a = b)

-----------------------------------------------------------------------------
\* create_profile, update_profile

CreateProfile ==
  /\ stored = "unborn"
  /\ stored' = "stored" /\ dir' = TRUE
  /\ description' \in Descriptions \cup {Blank}
  /\ UNCHANGED <<saved, file, open, whole, mode, actorVars, lock>>

\* get_profile: the row is read here and written back later
Read(a) == stored = "stored" /\ seen' = [seen EXCEPT ![a] = Row]

Forget(a) ==
  /\ Goto(a, "idle")
  /\ seen' = [seen EXCEPT ![a] = NoRow]
  /\ jar' = [jar EXCEPT ![a] = NoJar]
  /\ text' = [text EXCEPT ![a] = Blank]

StartUpdate(h) ==
  /\ at[h] = "idle"
  /\ Read(h) /\ Goto(h, "update")
  /\ \E d \in Descriptions : text' = [text EXCEPT ![h] = d]
  /\ UNCHANGED <<rowVars, fileVars, mode, jar, lock>>

\* update_profile_metadata changes no row when the profile is gone
UpdateMetadata_staleCookies(d, j) ==
  /\ description' = IF stored = "stored" THEN d ELSE description
  /\ UNCHANGED <<stored, saved>>
UpdateMetadata(d, j) ==
  IF stored = "stored" THEN description' = d /\ saved' = j /\ UNCHANGED stored
  ELSE UNCHANGED rowVars

Update(h) ==
  /\ at[h] = "update"
  /\ UpdateMetadata(text[h], seen[h].saved)
  /\ Forget(h)
  /\ UNCHANGED <<fileVars, mode, lock>>

-----------------------------------------------------------------------------
\* import_profile_cookies, and the import_cookies handler around it

StartImport(h) ==
  /\ at[h] = "idle"
  /\ Read(h) /\ description # Blank
  /\ Goto(h, "icheck")
  /\ \E j \in Jars : jar' = [jar EXCEPT ![h] = j]
  /\ UNCHANGED <<rowVars, fileVars, mode, text, lock>>

ImportCheck(h) ==
  /\ at[h] = "icheck"
  /\ IF Active = {} THEN Goto(h, "iopenjson") /\ UNCHANGED <<seen, jar, text>> ELSE Forget(h)
  /\ UNCHANGED <<rowVars, fileVars, mode, lock>>

ImportJson(h) ==
  \/ /\ at[h] = "iopenjson" /\ Goto(h, "ijson")
     /\ dir' = TRUE
     /\ OpenFile(h, "json")
     /\ UNCHANGED <<rowVars, mode, seen, jar, text, lock>>
  \/ /\ at[h] = "ijson" /\ Goto(h, "iopennetscape")
     /\ FillFile(h, "json")
     /\ UNCHANGED <<rowVars, dir, mode, seen, jar, text, lock>>

ImportNetscape(h) ==
  /\ \/ at[h] = "iopennetscape" /\ Goto(h, "inetscape") /\ OpenFile(h, "netscape")
     \/ at[h] = "inetscape" /\ Goto(h, "imeta") /\ FillFile(h, "netscape")
  /\ UNCHANGED <<rowVars, dir, mode, seen, jar, text, lock>>

ImportMeta(h) ==
  /\ at[h] = "imeta" /\ Goto(h, "iartifact")
  /\ UpdateMetadata(seen[h].description, jar[h])
  /\ UNCHANGED <<fileVars, mode, seen, jar, text, lock>>

\* write_bytes of last-cookie-import creates the directory again if it must
ImportArtifact(h) ==
  /\ at[h] = "iartifact" /\ Forget(h)
  /\ dir' = TRUE
  /\ UNCHANGED <<rowVars, file, open, whole, mode, lock>>

-----------------------------------------------------------------------------
\* delete_profile

StartDelete(h) ==
  /\ at[h] = "idle"
  /\ stored = "stored" /\ Active = {}
  /\ Goto(h, "delete")
  /\ UNCHANGED <<rowVars, fileVars, mode, seen, jar, text, lock>>

DeleteRow(h) ==
  /\ at[h] = "delete" /\ Goto(h, "rmdir")
  /\ stored' = "deleted"
  /\ UNCHANGED <<description, saved, fileVars, mode, seen, jar, text, lock>>

\* The errors of the three removals are ignored: see RemovalFails
DeleteDir(h) ==
  /\ at[h] = "rmdir" /\ Goto(h, "rmjson")
  /\ dir' = FALSE
  /\ UNCHANGED <<rowVars, file, open, whole, mode, seen, jar, text, lock>>

DeleteJson(h) ==
  /\ at[h] = "rmjson" /\ Goto(h, "rmnetscape")
  /\ RemoveFile("json")
  /\ UNCHANGED <<rowVars, dir, mode, seen, jar, text, lock>>

DeleteNetscape(h) ==
  /\ at[h] = "rmnetscape" /\ Goto(h, "idle")
  /\ RemoveFile("netscape")
  /\ UNCHANGED <<rowVars, dir, mode, seen, jar, text, lock>>

-----------------------------------------------------------------------------
\* Sessions on the profile: create_session's checks and insert, close_session

OpenCheck(s) ==
  /\ at[s] = "new"
  /\ stored = "stored"
  /\ mode[s] = "read_write" => \A o \in Active : mode[o] # "read_write"
  /\ Goto(s, "checked")
  /\ UNCHANGED <<rowVars, fileVars, mode, seen, jar, text, lock>>

OpenInsert(s) ==
  /\ at[s] = "checked" /\ Goto(s, "active")
  /\ UNCHANGED <<rowVars, fileVars, mode, seen, jar, text, lock>>

CloseTake_unguarded(s) ==
  /\ at[s] = "active"
  /\ lock' = s
  /\ Goto(s, IF mode[s] = "read_write" THEN "fetch" ELSE "kill")
  /\ UNCHANGED <<rowVars, fileVars, mode, seen, jar, text>>
\* The runtimes guard is kept until the child is killed
CloseTake(s) ==
  /\ at[s] = "active"
  /\ lock = NoJar /\ lock' = s
  /\ Goto(s, IF mode[s] = "read_write" THEN "fetch" ELSE "kill")
  /\ UNCHANGED <<rowVars, fileVars, mode, seen, jar, text>>

\* No cookies, or no browser to ask: nothing is saved
CloseFetch_savesNothing(s) ==
  /\ at[s] = "fetch"
  /\ \E j \in Jars \cup {NoJar} : jar' = [jar EXCEPT ![s] = j]
  /\ Goto(s, "profile")
  /\ UNCHANGED <<rowVars, fileVars, mode, seen, text, lock>>
CloseFetch(s) ==
  /\ at[s] = "fetch"
  /\ \/ \E j \in Jars : jar' = [jar EXCEPT ![s] = j] /\ Goto(s, "profile")
     \/ UNCHANGED jar /\ Goto(s, "kill")
  /\ UNCHANGED <<rowVars, fileVars, mode, seen, text, lock>>

CloseProfile(s) ==
  /\ at[s] = "profile" /\ Read(s) /\ Goto(s, "cmeta")
  /\ UNCHANGED <<rowVars, fileVars, mode, jar, text, lock>>

CloseMeta(s) ==
  /\ at[s] = "cmeta" /\ Goto(s, "copenjson")
  /\ UpdateMetadata(seen[s].description, jar[s])
  /\ UNCHANGED <<fileVars, mode, seen, jar, text, lock>>

CloseJson(s) ==
  /\ \/ at[s] = "copenjson" /\ Goto(s, "cjson") /\ OpenFile(s, "json")
     \/ at[s] = "cjson" /\ Goto(s, "copennetscape") /\ FillFile(s, "json")
  /\ UNCHANGED <<rowVars, dir, mode, seen, jar, text, lock>>

CloseNetscape(s) ==
  /\ \/ at[s] = "copennetscape" /\ Goto(s, "cnetscape") /\ OpenFile(s, "netscape")
     \/ at[s] = "cnetscape" /\ Goto(s, "kill") /\ FillFile(s, "netscape")
  /\ UNCHANGED <<rowVars, dir, mode, seen, jar, text, lock>>

\* The session leaves with what it fetched
Leave(s, to) ==
  /\ Goto(s, to)
  /\ seen' = [seen EXCEPT ![s] = NoRow]
  /\ jar' = [jar EXCEPT ![s] = NoJar]
  /\ UNCHANGED <<rowVars, dir, mode, text>>

CloseKill_guardKept(s) ==
  at[s] = "kill" /\ Leave(s, "mark") /\ UNCHANGED <<file, open, whole, lock>>
CloseKill(s) ==
  at[s] = "kill" /\ Leave(s, "mark") /\ lock' = NoJar /\ UNCHANGED <<file, open, whole>>

\* The state is set to closed; also for a session no longer in the runtimes map
CloseMark(s) ==
  at[s] \in {"mark", "lost"} /\ Leave(s, "closed") /\ UNCHANGED <<file, open, whole, lock>>

\* An error inside the body (the profile is gone, a write fails) or a client that
\* leaves at an await: out of the map, the row still active
CloseAborts(s) ==
  /\ \/ at[s] = "profile" /\ stored # "stored"
     \/ at[s] \in WritingBack /\ "storage" \in Faults
     \/ at[s] \in {"fetch", "kill"} /\ "disconnect" \in Faults
  /\ Leave(s, "lost")
  /\ lock' = NoJar
  /\ CutShort({s})

-----------------------------------------------------------------------------
\* A write of an import fails: what was written before stays
ImportAborts(h) ==
  /\ "storage" \in Faults /\ at[h] \in Importing \ {"icheck"}
  /\ Forget(h)
  /\ dir' \in {dir, dir \/ at[h] \in {"iopenjson", "iartifact"}}
  /\ CutShort({h})
  /\ UNCHANGED <<rowVars, mode, lock>>

\* A removal fails: the deletion goes on and answers as if it had not
RemovalFails(h) ==
  /\ "storage" \in Faults
  /\ \/ at[h] = "rmdir" /\ Goto(h, "rmjson")
     \/ at[h] = "rmjson" /\ Goto(h, "rmnetscape")
     \/ at[h] = "rmnetscape" /\ Goto(h, "idle")
  /\ calm' = FALSE
  /\ UNCHANGED <<rowVars, fileVars, mode, seen, jar, text, lock>>

\* The gateway dies and starts again: active rows become failed
Restart ==
  /\ "crash" \in Faults
  /\ at' = [a \in Actors |-> IF a \in Handlers THEN "idle"
                             ELSE IF at[a] = "new" THEN "new" ELSE "closed"]
  /\ seen' = [a \in Actors |-> NoRow]
  /\ jar' = [a \in Actors |-> NoJar]
  /\ text' = [h \in Handlers |-> Blank]
  /\ lock' = NoJar
  /\ CutShort(Actors)
  /\ UNCHANGED <<rowVars, dir, mode>>

Handler(h) ==
  \/ StartUpdate(h) \/ Update(h)
  \/ StartImport(h) \/ ImportCheck(h) \/ ImportJson(h) \/ ImportNetscape(h)
  \/ ImportMeta(h) \/ ImportArtifact(h)
  \/ StartDelete(h) \/ DeleteRow(h) \/ DeleteDir(h) \/ DeleteJson(h) \/ DeleteNetscape(h)

Session(s) ==
  \/ OpenCheck(s) \/ OpenInsert(s)
  \/ CloseTake(s) \/ CloseFetch(s) \/ CloseProfile(s) \/ CloseMeta(s) \/ CloseJson(s)
  \/ CloseNetscape(s) \/ CloseKill(s) \/ CloseMark(s)

Next ==
  \/ /\ CreateProfile \/ (\E h \in Handlers : Handler(h)) \/ (\E s \in Sessions : Session(s))
     /\ Going
  \/ \E h \in Handlers : ImportAborts(h) \/ RemovalFails(h)
  \/ \E s \in Sessions : CloseAborts(s)
  \/ Restart

Spec == Init /\ [][Next]_vars

-----------------------------------------------------------------------------
\* What export_profile_cookies reads of a readable file
Exported(content) == IF content = Absent THEN NoJar ELSE content

\* As long as no two writers overlapped, none was cut short and no removal failed: whenever
\* nobody writes, the metadata and both files tell of the same cookies, and a deleted profile
\* has left nothing behind; sessions may overlap each other, and start beside an import or a
\* deletion that has looked for them already (gateway.rs:106-161, 330-353).
ConsistentAtRest ==
  calm /\ Writers = {} =>
    IF stored = "deleted" THEN ~dir /\ \A f \in Formats : file[f] = Absent
    ELSE \A f \in Formats : Exported(file[f]) = saved

\* A profile whose row counts cookies has them in both files, and no file is ever empty,
\* partial or a list of none, except while it is being written and after a write that was cut
\* short or ran beside another, until the next write: under every overlap of requests and
\* closes, so a close whose browser gave no cookies leaves the jar alone, and an import after
\* a crash repairs it (gateway.rs:138-155, 330-353).
JarSurvives ==
  \A f \in Formats :
    stored = "stored" /\ whole[f] /\ (\A a \in Actors : at[a] \notin Due[f]) =>
      file[f] \in Jars \/ (file[f] = Absent /\ saved = NoJar)

\* Two sessions that write back never interleave: the runtimes guard orders even
\* sessions that slipped past the exclusive read_write check (gateway.rs:323).
OneWriteBack == \A s, o \in Sessions : at[s] \in Closing /\ at[o] \in Closing => s = o
=============================================================================
