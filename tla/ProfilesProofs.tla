--------------------------- MODULE ProfilesProofs ---------------------------
(***************************************************************************)
(* Theorems about Profiles, for every number of requests, sessions and     *)
(* jars, every overlap and every set of faults.                            *)
(***************************************************************************)
EXTENDS Profiles, TLAPS

USE JarAssumption, FileAssumption, ActorAssumption
USE DEF rowVars, fileVars, actorVars, Actors, Formats, Closing, WritingBack, Importing, ActivePc,
        Goto, Forget, Leave, Read, Row, NoRow, UpdateMetadata

\* A session holds the guard for as long as its close has not killed the child
LockInv == \A s \in Sessions : at[s] \in Closing <=> lock = s

\* Whoever is to write cookies has some, and cookie files are removed of a deleted
\* profile only
Carrying == (Importing \ {"iartifact"}) \cup WritingBack \cup {"profile"}
JarInv ==
  /\ \A a \in Actors : at[a] \in Carrying => jar[a] # NoJar
  /\ \A h \in Handlers : at[h] \in {"rmdir", "rmjson", "rmnetscape"} => stored = "deleted"
  /\ stored = "unborn" => \A a \in Actors : at[a] \in {"idle", "new", "closed"}

\* Handlers and sessions keep to their own steps
RoleInv ==
  /\ \A h \in Handlers : at[h] \notin {"new", "checked", "closed"} \cup ActivePc
  /\ \A s \in Sessions : at[s] \in {"new", "checked", "closed"} \cup ActivePc

\* A file is open between its two steps, unless the profile was deleted meanwhile
OpenInv ==
  \A a \in Actors :
    /\ open[a] = "json" => at[a] \in {"ijson", "cjson"}
    /\ open[a] = "netscape" => at[a] \in {"inetscape", "cnetscape"}
    /\ stored # "deleted" =>
         /\ at[a] \in {"ijson", "cjson"} => open[a] = "json"
         /\ at[a] \in {"inetscape", "cnetscape"} => open[a] = "netscape"

IInv == TypeOK /\ RoleInv /\ LockInv /\ JarInv /\ OpenInv

\* Which writers have opened a file, and who announced cookies in the row and is to open it
Past == [f \in Formats |-> IF f = "json" THEN {"ijson", "iopennetscape", "inetscape", "imeta",
                                               "cjson", "copennetscape", "cnetscape"}
                           ELSE {"inetscape", "imeta", "cnetscape"}]
Ahead == [f \in Formats |-> IF f = "json" THEN {"copenjson"}
                            ELSE {"copenjson", "cjson", "copennetscape"}]

\* A file whose last write began alone is empty in the hands of its one writer and a jar in
\* nobody's; as long as it is absent, no row counts its cookies but the row of a close that is
\* about to write them.
Uncounted(f) == \/ \E a \in Actors : at[a] \in Ahead[f]
                \/ saved = NoJar /\ \A a \in Actors : seen[a].saved = NoJar
Fresh(f) ==
  /\ \A a \in Actors : at[a] \in Past[f] => file[f] # Absent
  /\ whole[f] =>
       /\ \A a, b \in Actors : open[a] = f /\ open[b] = f => a = b
       /\ \A a \in Actors : open[a] = f => file[f] = Empty
       /\ file[f] \in Jars \cup {Absent} \/ \E a \in Actors : open[a] = f
       /\ file[f] = Absent => Uncounted(f)
WholeInv == stored # "deleted" => \A f \in Formats : Fresh(f)

\* As long as writers follow one another, what one of them found stays true until it ends
CalmInv ==
  calm =>
    /\ \A a, b \in Writers : a = b
    /\ \A a \in Writers : at[a] \in Importing \cup WritingBack \cup {"update", "delete"} =>
                            stored = "stored"

\* Where a profile is between two steps that write it
Settled == IF stored = "deleted" THEN ~dir /\ \A f \in Formats : file[f] = Absent
           ELSE \A f \in Formats : Exported(file[f]) = saved
Between == {"ijson", "iopennetscape", "inetscape", "imeta", "rmdir", "rmjson", "rmnetscape",
            "copenjson", "cjson", "copennetscape", "cnetscape"}
Holds(a) ==
  /\ at[a] = "update" => seen[a].saved = saved
  /\ at[a] \in {"ijson", "cjson"} => file["json"] = Empty
  /\ at[a] \in {"inetscape", "cnetscape"} => file["netscape"] = Empty
  /\ at[a] \in {"iopennetscape", "inetscape", "imeta", "copennetscape", "cnetscape"} =>
       file["json"] = jar[a]
  /\ at[a] = "imeta" => file["netscape"] = jar[a]
  /\ at[a] \in {"copenjson", "cjson", "copennetscape", "cnetscape"} => saved = jar[a]
  /\ at[a] \in {"rmjson", "rmnetscape"} => ~dir
  /\ at[a] = "rmnetscape" => file["json"] = Absent
SettledInv ==
  calm => /\ (\A a \in Actors : at[a] \notin Between) => Settled
          /\ \A a \in Actors : Holds(a)

LEMMA InitIInv == Init => IInv
<1> SUFFICES ASSUME Init
             PROVE  IInv
  OBVIOUS
<1>1. /\ \A s \in Sessions : at[s] = "new"
      /\ \A h \in Handlers : at[h] = "idle"
      /\ at \in [Actors -> {"idle", "new"}]
      /\ \A a \in Actors : open[a] = "none"
  BY DEF Init
<1>2. TypeOK
  BY <1>1 DEF Init, TypeOK
<1>3. RoleInv /\ LockInv /\ JarInv /\ OpenInv
  BY <1>1 DEF Init, RoleInv, LockInv, JarInv, OpenInv, Carrying
<1> QED
  BY <1>2, <1>3 DEF IInv

-----------------------------------------------------------------------------
\* What the two steps of fs::write and a removal do to the files
LEMMA OpenIs ==
  ASSUME TypeOK, NEW a \in Actors, NEW f \in Formats, OpenFile(a, f)
  PROVE  /\ file' \in [Formats -> Jars \cup {NoJar, Absent, Empty, Torn}]
         /\ open' \in [Actors -> Formats \cup {"none"}] /\ whole' \in [Formats -> BOOLEAN]
         /\ file'[f] = Empty /\ open'[a] = f
         /\ \A g \in Formats \ {f} : file'[g] = file[g] /\ whole'[g] = whole[g]
         /\ \A b \in Actors \ {a} : open'[b] = open[b]
         /\ whole'[f] <=> \A b \in Actors : open[b] # f
BY DEF OpenFile, TypeOK

LEMMA FillIs ==
  ASSUME TypeOK, NEW a \in Actors, NEW f \in Formats, FillFile(a, f)
  PROVE  /\ file' \in [Formats -> Jars \cup {NoJar, Absent, Empty, Torn}]
         /\ open' \in [Actors -> Formats \cup {"none"}] /\ whole' = whole
         /\ open'[a] = "none"
         /\ \A g \in Formats \ {f} : file'[g] = file[g]
         /\ \A b \in Actors \ {a} : open'[b] = open[b]
         /\ open[a] = f => file'[f] \in {jar[a], Torn} /\ (file[f] = Empty => file'[f] = jar[a])
         /\ open[a] # f => file' = file
<1>1. jar[a] \in Jars \cup {NoJar}
  BY DEF TypeOK
<1>2. open' = [open EXCEPT ![a] = "none"] /\ whole' = whole
  BY DEF FillFile
<1>3. CASE open[a] = f
  <2>1. PICK bytes \in {jar[a]} \cup (IF file[f] = Empty THEN {} ELSE {Torn}) :
          file' = [file EXCEPT ![f] = bytes]
    BY <1>3 DEF FillFile
  <2> QED
    BY <1>1, <1>2, <1>3, <2>1 DEF TypeOK
<1>4. CASE open[a] # f
  BY <1>2, <1>4 DEF FillFile, TypeOK
<1> QED
  BY <1>3, <1>4

LEMMA RemoveIs ==
  ASSUME TypeOK, NEW f \in Formats, RemoveFile(f)
  PROVE  /\ file' \in [Formats -> Jars \cup {NoJar, Absent, Empty, Torn}]
         /\ open' \in [Actors -> Formats \cup {"none"}] /\ whole' = whole
         /\ file'[f] = Absent
         /\ \A g \in Formats \ {f} : file'[g] = file[g]
         /\ \A b \in Actors : open'[b] = IF open[b] = f THEN "none" ELSE open[b]
BY DEF RemoveFile, TypeOK

\* What ends a handler early leaves a file as it was or torn
LEMMA CutShortIs ==
  ASSUME IInv, NEW actors \in SUBSET Actors, CutShort(actors)
  PROVE  /\ file' \in [Formats -> Jars \cup {NoJar, Absent, Empty, Torn}]
         /\ open' \in [Actors -> Formats \cup {"none"}]
         /\ calm' \in BOOLEAN /\ whole' \in [Formats -> BOOLEAN]
         /\ calm' => calm /\ actors \cap Writers = {}
         /\ \A a \in Actors : open'[a] = IF a \in actors THEN "none" ELSE open[a]
         /\ \A f \in Formats :
              /\ file'[f] # file[f] => file'[f] = Torn /\ \E a \in actors : open[a] = f
              /\ whole'[f] => whole[f] /\ \A a \in actors : at[a] \notin Due[f]
<1>1. PICK part \in SUBSET {f \in Formats : \E a \in actors : open[a] = f} :
         file' = [f \in Formats |-> IF f \in part THEN Torn ELSE file[f]]
  BY DEF CutShort
<1>2. file' \in [Formats -> Jars \cup {NoJar, Absent, Empty, Torn}]
  BY <1>1 DEF IInv, TypeOK
<1>3. \A f \in Formats : file'[f] # file[f] => file'[f] = Torn /\ \E a \in actors : open[a] = f
  BY <1>1
<1>4. /\ open' = [a \in Actors |-> IF a \in actors THEN "none" ELSE open[a]]
      /\ whole' = [f \in Formats |-> whole[f] /\ \A a \in actors : at[a] \notin Due[f]]
      /\ calm' = (calm /\ actors \cap Writers = {})
  BY DEF CutShort
<1>5. open' \in [Actors -> Formats \cup {"none"}]
  BY <1>4 DEF IInv, TypeOK
<1>6. calm' \in BOOLEAN /\ whole' \in [Formats -> BOOLEAN]
  BY <1>4, Zenon DEF IInv, TypeOK
<1>7. \A f \in Formats : whole'[f] => whole[f] /\ \A a \in actors : at[a] \notin Due[f]
  BY <1>4
<1> QED
  BY <1>2, <1>3, <1>4, <1>5, <1>6, <1>7

-----------------------------------------------------------------------------
\* An actor opens or fills a file on its way
Opening(a, f, to) ==
  /\ \/ f = "json" /\ (\/ at[a] = "iopenjson" /\ to = "ijson"
                       \/ at[a] = "copenjson" /\ to = "cjson")
     \/ f = "netscape" /\ (\/ at[a] = "iopennetscape" /\ to = "inetscape"
                           \/ at[a] = "copennetscape" /\ to = "cnetscape")
  /\ OpenFile(a, f) /\ at' = [at EXCEPT ![a] = to]
  /\ dir' \in BOOLEAN /\ UNCHANGED <<rowVars, mode, seen, jar, text, lock>>
Filling(a, f, to) ==
  /\ \/ f = "json" /\ (\/ at[a] = "ijson" /\ to = "iopennetscape"
                       \/ at[a] = "cjson" /\ to = "copennetscape")
     \/ f = "netscape" /\ (\/ at[a] = "inetscape" /\ to = "imeta"
                           \/ at[a] = "cnetscape" /\ to = "kill")
  /\ FillFile(a, f) /\ at' = [at EXCEPT ![a] = to]
  /\ dir' \in BOOLEAN /\ UNCHANGED <<rowVars, mode, seen, jar, text, lock>>
WritePc == {"ijson", "iopennetscape", "inetscape", "imeta", "cjson", "copennetscape", "cnetscape",
            "kill"}
Writes(a) == ImportJson(a) \/ ImportNetscape(a) \/ CloseJson(a) \/ CloseNetscape(a)

LEMMA WritesAre ==
  ASSUME TypeOK, NEW a \in Actors, Writes(a)
  PROVE  \E f \in Formats, to \in WritePc : Opening(a, f, to) \/ Filling(a, f, to)
<1>0. dir \in BOOLEAN
  BY DEF TypeOK
<1>1. CASE ImportJson(a)
  <2>1. Opening(a, "json", "ijson") \/ Filling(a, "json", "iopennetscape")
    BY <1>0, <1>1 DEF ImportJson, Opening, Filling
  <2> QED
    BY <2>1 DEF WritePc
<1>2. CASE ImportNetscape(a)
  <2>1. Opening(a, "netscape", "inetscape") \/ Filling(a, "netscape", "imeta")
    BY <1>0, <1>2 DEF ImportNetscape, Opening, Filling
  <2> QED
    BY <2>1 DEF WritePc
<1>3. CASE CloseJson(a)
  <2>1. Opening(a, "json", "cjson") \/ Filling(a, "json", "copennetscape")
    BY <1>0, <1>3 DEF CloseJson, Opening, Filling
  <2> QED
    BY <2>1 DEF WritePc
<1>4. CASE CloseNetscape(a)
  <2>1. Opening(a, "netscape", "cnetscape") \/ Filling(a, "netscape", "kill")
    BY <1>0, <1>4 DEF CloseNetscape, Opening, Filling
  <2> QED
    BY <2>1 DEF WritePc
<1> QED
  BY <1>1, <1>2, <1>3, <1>4 DEF Writes

LEMMA WriteIInv ==
  ASSUME IInv, NEW a \in Actors, Writes(a), calm' \in BOOLEAN
  PROVE  IInv'
<1>1. TypeOK /\ OpenInv /\ RoleInv
  BY DEF IInv
<1>2. PICK f \in Formats, to \in WritePc : Opening(a, f, to) \/ Filling(a, f, to)
  BY <1>1, WritesAre
<1>3. at' = [at EXCEPT ![a] = to] /\ UNCHANGED <<rowVars, mode, seen, jar, text, lock>>
  BY <1>2 DEF Opening, Filling
<1>4. RoleInv' /\ LockInv' /\ JarInv'
  BY <1>2, <1>3 DEF Opening, Filling, IInv, TypeOK, RoleInv, LockInv, JarInv, Carrying
<1>5. TypeOK' /\ OpenInv'
  <2>1. CASE Opening(a, f, to)
    <3>1. TypeOK'
      BY <1>3, <2>1, OpenIs DEF Opening, IInv, TypeOK, LockInv
    <3>2. OpenInv'
      BY <1>1, <1>3, <2>1, OpenIs DEF Opening, OpenInv, RoleInv, TypeOK
    <3> QED
      BY <3>1, <3>2
  <2>2. CASE Filling(a, f, to)
    <3>1. TypeOK'
      BY <1>3, <2>2, FillIs DEF Filling, IInv, TypeOK, LockInv
    <3>2. OpenInv'
      BY <1>1, <1>3, <2>2, FillIs DEF Filling, OpenInv, RoleInv, TypeOK
    <3> QED
      BY <3>1, <3>2
  <2> QED
    BY <1>2, <2>1, <2>2
<1> QED
  BY <1>4, <1>5 DEF IInv

\* The steps of requests: the guard is not theirs
LEMMA HandlerIInv ==
  ASSUME IInv, NEW h \in Handlers, Handler(h), calm' \in BOOLEAN
  PROVE  IInv'
<1>1. CASE StartUpdate(h)
  BY <1>1 DEF StartUpdate,
     IInv, TypeOK, RoleInv, LockInv, JarInv, OpenInv, Carrying
<1>2. CASE Update(h)
  BY <1>2 DEF Update,
     IInv, TypeOK, RoleInv, LockInv, JarInv, OpenInv, Carrying
<1>3. CASE StartImport(h)
  BY <1>3 DEF StartImport,
     IInv, TypeOK, RoleInv, LockInv, JarInv, OpenInv, Carrying
<1>4. CASE ImportCheck(h)
  <2>1. CASE Active = {}
    <3>1. at[h] = "icheck" /\ Goto(h, "iopenjson")
          /\ UNCHANGED <<rowVars, fileVars, mode, seen, jar, text, lock>>
      BY <1>4, <2>1 DEF ImportCheck
    <3> QED
      BY <3>1 DEF IInv, TypeOK, RoleInv, LockInv, JarInv, OpenInv, Carrying
  <2>2. CASE Active # {}
    <3>1. at[h] = "icheck" /\ Forget(h) /\ UNCHANGED <<rowVars, fileVars, mode, lock>>
      BY <1>4, <2>2 DEF ImportCheck
    <3> QED
      BY <3>1 DEF IInv, TypeOK, RoleInv, LockInv, JarInv, OpenInv, Carrying
  <2> QED
    BY <2>1, <2>2
<1>5. CASE ImportJson(h)
  BY <1>5, WriteIInv DEF Writes
<1>6. CASE ImportNetscape(h)
  BY <1>6, WriteIInv DEF Writes
<1>7. CASE ImportMeta(h)
  BY <1>7 DEF ImportMeta,
     IInv, TypeOK, RoleInv, LockInv, JarInv, OpenInv, Carrying
<1>8. CASE ImportArtifact(h)
  BY <1>8 DEF ImportArtifact,
     IInv, TypeOK, RoleInv, LockInv, JarInv, OpenInv, Carrying
<1>9. CASE StartDelete(h)
  BY <1>9 DEF StartDelete,
     IInv, TypeOK, RoleInv, LockInv, JarInv, OpenInv, Carrying
<1>10. CASE DeleteRow(h)
  BY <1>10 DEF DeleteRow,
     IInv, TypeOK, RoleInv, LockInv, JarInv, OpenInv, Carrying
<1>11. CASE DeleteDir(h)
  <2>1. at' = [at EXCEPT ![h] = "rmjson"] /\ at[h] = "rmdir" /\ dir' = FALSE
    BY <1>11 DEF DeleteDir
  <2>2. UNCHANGED <<rowVars, file, open, whole, mode, seen, jar, text, lock>>
    BY <1>11 DEF DeleteDir
  <2>3. TypeOK'
    BY <2>1, <2>2 DEF IInv, TypeOK, LockInv
  <2>4. RoleInv' /\ LockInv'
    BY <2>1, <2>2 DEF IInv, TypeOK, RoleInv, LockInv
  <2>5. JarInv' /\ OpenInv'
    BY <2>1, <2>2 DEF IInv, TypeOK, JarInv, OpenInv, Carrying
  <2> QED
    BY <2>3, <2>4, <2>5 DEF IInv
<1>12. CASE DeleteJson(h)
  <2>1. RemoveFile("json")
    BY <1>12 DEF DeleteJson,
     IInv, TypeOK, RoleInv, LockInv, JarInv, OpenInv, Carrying
  <2> QED
    BY <1>12, <2>1, RemoveIs DEF DeleteJson, IInv, TypeOK, RoleInv, LockInv, JarInv, OpenInv,
       Carrying
<1>13. CASE DeleteNetscape(h)
  <2>1. RemoveFile("netscape")
    BY <1>13 DEF DeleteNetscape,
     IInv, TypeOK, RoleInv, LockInv, JarInv, OpenInv, Carrying
  <2> QED
    BY <1>13, <2>1, RemoveIs DEF DeleteNetscape, IInv, TypeOK, RoleInv, LockInv, JarInv, OpenInv,
       Carrying
<1> QED
  BY <1>1, <1>2, <1>3, <1>4, <1>5, <1>6, <1>7, <1>8, <1>9, <1>10, <1>11, <1>12, <1>13 DEF Handler

\* The steps of sessions: a close takes the guard when no session has it, and frees it
LEMMA SessionIInv ==
  ASSUME IInv, NEW s \in Sessions, Session(s), calm' \in BOOLEAN
  PROVE  IInv'
<1>1. CASE OpenCheck(s)
  BY <1>1 DEF OpenCheck,
     IInv, TypeOK, RoleInv, LockInv, JarInv, OpenInv, Carrying
<1>2. CASE OpenInsert(s)
  BY <1>2 DEF OpenInsert,
     IInv, TypeOK, RoleInv, LockInv, JarInv, OpenInv, Carrying
<1>3. CASE CloseTake(s)
  BY <1>3 DEF CloseTake,
     IInv, TypeOK, RoleInv, LockInv, JarInv, OpenInv, Carrying
<1>4. CASE CloseFetch(s)
  <2>1. at[s] = "fetch" /\ UNCHANGED <<rowVars, fileVars, mode, seen, text, lock>>
    BY <1>4 DEF CloseFetch
  <2>2. CASE at' = [at EXCEPT ![s] = "kill"] /\ UNCHANGED jar
    BY <2>1, <2>2 DEF IInv, TypeOK, RoleInv, LockInv, JarInv, OpenInv, Carrying
  <2>3. CASE at' = [at EXCEPT ![s] = "profile"] /\ \E j \in Jars : jar' = [jar EXCEPT ![s] = j]
    <3>1. TypeOK' /\ RoleInv' /\ LockInv'
      BY <2>1, <2>3 DEF IInv, TypeOK, RoleInv, LockInv
    <3>2. JarInv' /\ OpenInv'
      BY <2>1, <2>3 DEF IInv, TypeOK, JarInv, OpenInv, Carrying
    <3> QED
      BY <3>1, <3>2 DEF IInv
  <2> QED
    BY <1>4, <2>2, <2>3 DEF CloseFetch
<1>5. CASE CloseProfile(s)
  BY <1>5 DEF CloseProfile,
     IInv, TypeOK, RoleInv, LockInv, JarInv, OpenInv, Carrying
<1>6. CASE CloseMeta(s)
  BY <1>6 DEF CloseMeta,
     IInv, TypeOK, RoleInv, LockInv, JarInv, OpenInv, Carrying
<1>7. CASE CloseJson(s)
  BY <1>7, WriteIInv DEF Writes
<1>8. CASE CloseNetscape(s)
  BY <1>8, WriteIInv DEF Writes
<1>9. CASE CloseKill(s)
  BY <1>9 DEF CloseKill,
     IInv, TypeOK, RoleInv, LockInv, JarInv, OpenInv, Carrying
<1>10. CASE CloseMark(s)
  BY <1>10 DEF CloseMark,
     IInv, TypeOK, RoleInv, LockInv, JarInv, OpenInv, Carrying
<1> QED
  BY <1>1, <1>2, <1>3, <1>4, <1>5, <1>6, <1>7, <1>8, <1>9, <1>10 DEF Session

LEMMA CutIInv ==
  ASSUME IInv, \/ \E h \in Handlers : ImportAborts(h) \/ RemovalFails(h)
               \/ \E s \in Sessions : CloseAborts(s)
               \/ Restart
  PROVE  IInv'
<1>1. ASSUME NEW h \in Handlers, ImportAborts(h)
      PROVE  IInv'
  <2>1. CutShort({h})
    BY <1>1 DEF ImportAborts,
     IInv, TypeOK, RoleInv, LockInv, JarInv, OpenInv, Carrying
  <2>2. {h} \in SUBSET Actors
    OBVIOUS
  <2>3. dir' \in BOOLEAN
    BY <1>1 DEF ImportAborts,
     IInv, TypeOK, RoleInv, LockInv, JarInv, OpenInv, Carrying
  <2> QED
    BY <1>1, <2>1, <2>2, <2>3, CutShortIs DEF ImportAborts, IInv, TypeOK, RoleInv, LockInv,
       JarInv, OpenInv, Carrying
<1>2. ASSUME NEW h \in Handlers, RemovalFails(h)
      PROVE  IInv'
  <2>1. PICK to \in {"rmjson", "rmnetscape", "idle"} : at' = [at EXCEPT ![h] = to]
    BY <1>2 DEF RemovalFails
  <2>2. /\ at[h] \in {"rmdir", "rmjson", "rmnetscape"} /\ h \in Actors /\ h \notin Sessions
        /\ calm' = FALSE /\ UNCHANGED <<rowVars, fileVars, mode, seen, jar, text, lock>>
    BY <1>2 DEF RemovalFails
  <2>3. \A a \in Actors : at'[a] = IF a = h THEN to ELSE at[a]
    BY <2>1 DEF IInv, TypeOK
  <2>4. RoleInv' /\ LockInv'
    BY <2>2, <2>3 DEF IInv, RoleInv, LockInv
  <2>5. at' \in [Actors -> {"idle", "update", "delete", "rmdir", "rmjson", "rmnetscape", "new",
                            "checked", "closed"} \cup Importing \cup ActivePc]
    BY <2>1 DEF IInv, TypeOK
  <2>6. lock' # NoJar => at'[lock'] \in Closing
    BY <2>2, <2>3 DEF IInv, TypeOK, RoleInv
  <2>7. TypeOK'
    BY <2>2, <2>5, <2>6 DEF IInv, TypeOK
  <2>8. JarInv'
    BY <2>2, <2>3 DEF IInv, JarInv, Carrying
  <2>9. OpenInv'
    BY <2>2, <2>3 DEF IInv, OpenInv
  <2> QED
    BY <2>4, <2>7, <2>8, <2>9 DEF IInv
<1>3. ASSUME NEW s \in Sessions, CloseAborts(s)
      PROVE  IInv'
  <2>1. CutShort({s}) /\ {s} \in SUBSET Actors
    BY <1>3 DEF CloseAborts,
     IInv, TypeOK, RoleInv, LockInv, JarInv, OpenInv, Carrying
  <2> QED
    BY <1>3, <2>1, CutShortIs DEF CloseAborts, IInv, TypeOK, RoleInv, LockInv, JarInv, OpenInv,
       Carrying
<1>4. CASE Restart
  <2>1. CutShort(Actors)
    BY <1>4 DEF Restart,
     IInv, TypeOK, RoleInv, LockInv, JarInv, OpenInv, Carrying
  <2> QED
    BY <1>4, <2>1, CutShortIs DEF Restart, IInv, TypeOK, RoleInv, LockInv, JarInv, OpenInv,
       Carrying
<1> QED
  BY <1>1, <1>2, <1>3, <1>4

LEMMA NextIInv == IInv /\ [Next]_vars => IInv'
<1> SUFFICES ASSUME IInv, [Next]_vars
             PROVE  IInv'
  OBVIOUS
<1>1. CASE CreateProfile /\ Going
  BY <1>1 DEF CreateProfile, Going, IInv, TypeOK, RoleInv, LockInv, JarInv, OpenInv, Carrying
<1>2. CASE (\E h \in Handlers : Handler(h)) /\ Going
  <2>1. calm' \in BOOLEAN
    BY <1>2 DEF Going, IInv, TypeOK
  <2> QED
    BY <1>2, <2>1, HandlerIInv
<1>3. CASE (\E s \in Sessions : Session(s)) /\ Going
  <2>1. calm' \in BOOLEAN
    BY <1>3 DEF Going, IInv, TypeOK
  <2> QED
    BY <1>3, <2>1, SessionIInv
<1>4. CASE UNCHANGED vars
  BY <1>4 DEF vars, IInv, TypeOK, RoleInv, LockInv, JarInv, OpenInv, Carrying
<1> QED
  BY <1>1, <1>2, <1>3, <1>4, CutIInv DEF Next

LEMMA Invariance == Spec => []IInv
BY InitIInv, NextIInv, PTL DEF Spec
-----------------------------------------------------------------------------
\* The files of a live profile: a step that leaves file f alone, opens it or fills it
LEMMA FreshKept ==
  ASSUME NEW f \in Formats, Fresh(f), file'[f] = file[f], whole'[f] => whole[f],
         \A a \in Actors : open'[a] = f <=> open[a] = f,
         \A a \in Actors : at'[a] \in Past[f] => at[a] \in Past[f],
         file[f] = Absent /\ Uncounted(f) => Uncounted(f)'
  PROVE  Fresh(f)'
<1>1. \A a \in Actors : at'[a] \in Past'[f] => file'[f] # Absent
  BY DEF Fresh, Past
<1>2. ASSUME whole'[f]
      PROVE  /\ \A a, b \in Actors : open'[a] = f /\ open'[b] = f => a = b
             /\ \A a \in Actors : open'[a] = f => file'[f] = Empty
             /\ file'[f] \in Jars \cup {Absent} \/ \E a \in Actors : open'[a] = f
  BY <1>2 DEF Fresh
<1>3. ASSUME whole'[f], file'[f] = Absent
      PROVE  Uncounted(f)'
  BY <1>3 DEF Fresh
<1> QED
  BY <1>1, <1>2, <1>3 DEF Fresh

LEMMA FreshOpened ==
  ASSUME TypeOK, NEW f \in Formats, NEW a \in Actors, OpenFile(a, f)
  PROVE  Fresh(f)'
<1>1. file'[f] = Empty /\ open'[a] = f /\ \A b \in Actors \ {a} : open'[b] = open[b]
  BY OpenIs
<1>2. whole'[f] => \A b \in Actors : open[b] # f
  BY OpenIs
<1>3. Empty # Absent
  OBVIOUS
<1> QED
  BY <1>1, <1>2, <1>3 DEF Fresh

LEMMA FreshFilled ==
  ASSUME TypeOK, NEW f \in Formats, NEW a \in Actors, FillFile(a, f), Fresh(f),
         open[a] = f, jar[a] # NoJar
  PROVE  Fresh(f)'
<1>1. /\ jar[a] \in Jars /\ Absent \notin Jars /\ Torn # Absent
      /\ file'[f] \in {jar[a], Torn} /\ (file[f] = Empty => file'[f] = jar[a])
      /\ whole' = whole /\ open'[a] = "none" /\ \A b \in Actors \ {a} : open'[b] = open[b]
  BY FillIs DEF TypeOK
<1>2. file'[f] # Absent
  BY <1>1
<1>3. ASSUME whole'[f]
      PROVE  file'[f] \in Jars /\ \A b \in Actors : open'[b] # f
  BY <1>1, <1>3 DEF Fresh
<1> QED
  BY <1>2, <1>3 DEF Fresh

\* A write heals the file it opens and fills, and leaves the other alone
LEMMA WriteWhole ==
  ASSUME IInv, WholeInv, NEW a \in Actors, Writes(a)
  PROVE  WholeInv'
<1>1. TypeOK /\ OpenInv /\ JarInv
  BY DEF IInv
<1>2. PICK f \in Formats, to \in WritePc : Opening(a, f, to) \/ Filling(a, f, to)
  BY <1>1, WritesAre
<1>3. at' = [at EXCEPT ![a] = to] /\ UNCHANGED <<stored, saved, seen, jar>>
  BY <1>2 DEF Opening, Filling
<1> SUFFICES ASSUME stored # "deleted", NEW g \in Formats
             PROVE  Fresh(g)'
  BY <1>3 DEF WholeInv
<1>4. Fresh(f) /\ Fresh(g)
  BY DEF WholeInv
<1>5. CASE g = f
  <2>1. CASE Opening(a, f, to)
    BY <1>1, <1>5, <2>1, FreshOpened DEF Opening
  <2>2. CASE Filling(a, f, to)
    <3>1. open[a] = f /\ jar[a] # NoJar
      BY <1>1, <2>2 DEF Filling, OpenInv, JarInv, Carrying
    <3> QED
      BY <1>1, <1>4, <1>5, <2>2, <3>1, FreshFilled DEF Filling
  <2> QED
    BY <1>2, <2>1, <2>2
<1>6. CASE g # f
  <2>1. /\ file'[g] = file[g] /\ whole'[g] = whole[g]
        /\ \A b \in Actors \ {a} : open'[b] = open[b]
        /\ open'[a] # g /\ open[a] # g
    <3>1. CASE Opening(a, f, to)
      BY <1>1, <1>6, <3>1, OpenIs DEF Opening, OpenInv
    <3>2. CASE Filling(a, f, to)
      BY <1>1, <1>6, <3>2, FillIs DEF Filling, OpenInv
    <3> QED
      BY <1>2, <3>1, <3>2
  <2>2. \A b \in Actors : at'[b] = IF b = a THEN to ELSE at[b]
    BY <1>1, <1>3 DEF TypeOK
  <2>3. \A b \in Actors : at'[b] \in Past[g] => at[b] \in Past[g]
    BY <1>2, <1>6, <2>2 DEF Opening, Filling, Past
  <2>4. \A b \in Actors : at[b] \in Ahead[g] => at'[b] \in Ahead[g] \/ at[a] \in Past[g]
    BY <1>2, <1>6, <2>2 DEF Opening, Filling, Ahead, Past
  <2>5. file[g] = Absent /\ Uncounted(g) => Uncounted(g)'
    BY <1>3, <1>4, <2>4 DEF Uncounted, Ahead, Fresh
  <2> QED
    BY <1>4, <2>1, <2>3, <2>5, FreshKept
<1> QED
  BY <1>5, <1>6

LEMMA HandlerWhole ==
  ASSUME IInv, WholeInv, NEW h \in Handlers, Handler(h)
  PROVE  WholeInv'
<1> SUFFICES ASSUME stored # "deleted", stored' # "deleted", \A f \in Formats : Fresh(f)
             PROVE  \A f \in Formats : Fresh(f)'
  <2>1. stored = "deleted" => stored' = "deleted"
    BY DEF Handler, StartUpdate, Update, StartImport, ImportCheck, ImportJson, ImportNetscape,
       ImportMeta, ImportArtifact, StartDelete, DeleteRow, DeleteDir, DeleteJson, DeleteNetscape
  <2> QED
    BY <2>1 DEF WholeInv
<1>1. CASE StartUpdate(h)
  <2>1. UNCHANGED <<file, open, whole>> /\ \A a \in Actors : a # h => at'[a] = at[a]
    BY <1>1 DEF StartUpdate, IInv, TypeOK
  <2>2. ASSUME NEW f \in Formats
        PROVE  /\ at'[h] \in Past[f] => at[h] \in Past[f]
               /\ file[f] = Absent /\ Uncounted(f) => Uncounted(f)'
    BY <1>1, <2>1, <2>2 DEF StartUpdate, IInv, TypeOK, RoleInv, Past, Ahead, Uncounted, Fresh
  <2> QED
    BY <2>1, <2>2, FreshKept
<1>2. CASE Update(h)
  <2>1. UNCHANGED <<file, open, whole>> /\ \A a \in Actors : a # h => at'[a] = at[a]
    BY <1>2 DEF Update, IInv, TypeOK
  <2>2. ASSUME NEW f \in Formats
        PROVE  /\ at'[h] \in Past[f] => at[h] \in Past[f]
               /\ file[f] = Absent /\ Uncounted(f) => Uncounted(f)'
    BY <1>2, <2>1, <2>2 DEF Update, IInv, TypeOK, RoleInv, Past, Ahead, Uncounted, Fresh
  <2> QED
    BY <2>1, <2>2, FreshKept
<1>3. CASE StartImport(h)
  <2>1. UNCHANGED <<file, open, whole>> /\ \A a \in Actors : a # h => at'[a] = at[a]
    BY <1>3 DEF StartImport, IInv, TypeOK
  <2>2. ASSUME NEW f \in Formats
        PROVE  /\ at'[h] \in Past[f] => at[h] \in Past[f]
               /\ file[f] = Absent /\ Uncounted(f) => Uncounted(f)'
    BY <1>3, <2>1, <2>2 DEF StartImport, IInv, TypeOK, RoleInv, Past, Ahead, Uncounted, Fresh
  <2> QED
    BY <2>1, <2>2, FreshKept
<1>4. CASE ImportCheck(h)
  <2>1. UNCHANGED <<file, open, whole>> /\ \A a \in Actors : a # h => at'[a] = at[a]
    BY <1>4 DEF ImportCheck, IInv, TypeOK
  <2>2. ASSUME NEW f \in Formats
        PROVE  /\ at'[h] \in Past[f] => at[h] \in Past[f]
               /\ file[f] = Absent /\ Uncounted(f) => Uncounted(f)'
    <3>1. at[h] = "icheck" /\ UNCHANGED saved
      BY <1>4 DEF ImportCheck
    <3>2. (at' = [at EXCEPT ![h] = "iopenjson"] /\ seen' = seen)
          \/ (at' = [at EXCEPT ![h] = "idle"] /\ seen' = [seen EXCEPT ![h] = NoRow])
      BY <1>4 DEF ImportCheck
    <3>3. \A a \in Actors : seen'[a].saved \in {seen[a].saved, NoJar}
      BY <3>2 DEF IInv, TypeOK
    <3>4. /\ at'[h] \in {"iopenjson", "idle"}
          /\ \A a \in Actors : at[a] \in Ahead[f] => at'[a] \in Ahead[f]
      BY <2>2, <3>1, <3>2 DEF IInv, TypeOK, Ahead
    <3>5. file[f] = Absent /\ Uncounted(f) => Uncounted(f)'
      BY <3>1, <3>3, <3>4 DEF Uncounted, Ahead
    <3> QED
      BY <2>2, <3>4, <3>5 DEF Past
  <2> QED
    BY <2>1, <2>2, FreshKept
<1>5. CASE ImportJson(h)
  BY <1>5, WriteWhole DEF Writes, WholeInv
<1>6. CASE ImportNetscape(h)
  BY <1>6, WriteWhole DEF Writes, WholeInv
<1>7. CASE ImportMeta(h)
  <2>1. UNCHANGED <<file, open, whole>> /\ \A a \in Actors : a # h => at'[a] = at[a]
    BY <1>7 DEF ImportMeta, IInv, TypeOK
  <2>2. ASSUME NEW f \in Formats
        PROVE  /\ at'[h] \in Past[f] => at[h] \in Past[f]
               /\ file[f] = Absent /\ Uncounted(f) => Uncounted(f)'
    BY <1>7, <2>1, <2>2 DEF ImportMeta, IInv, TypeOK, RoleInv, Past, Ahead, Uncounted, Fresh
  <2> QED
    BY <2>1, <2>2, FreshKept
<1>8. CASE ImportArtifact(h)
  <2>1. UNCHANGED <<file, open, whole>> /\ \A a \in Actors : a # h => at'[a] = at[a]
    BY <1>8 DEF ImportArtifact, IInv, TypeOK
  <2>2. ASSUME NEW f \in Formats
        PROVE  /\ at'[h] \in Past[f] => at[h] \in Past[f]
               /\ file[f] = Absent /\ Uncounted(f) => Uncounted(f)'
    BY <1>8, <2>1, <2>2 DEF ImportArtifact, IInv, TypeOK, RoleInv, Past, Ahead, Uncounted, Fresh
  <2> QED
    BY <2>1, <2>2, FreshKept
<1>9. CASE StartDelete(h)
  <2>1. UNCHANGED <<file, open, whole>> /\ \A a \in Actors : a # h => at'[a] = at[a]
    BY <1>9 DEF StartDelete, IInv, TypeOK
  <2>2. ASSUME NEW f \in Formats
        PROVE  /\ at'[h] \in Past[f] => at[h] \in Past[f]
               /\ file[f] = Absent /\ Uncounted(f) => Uncounted(f)'
    BY <1>9, <2>1, <2>2 DEF StartDelete, IInv, TypeOK, RoleInv, Past, Ahead, Uncounted, Fresh
  <2> QED
    BY <2>1, <2>2, FreshKept
<1>10. CASE DeleteRow(h)
  BY <1>10 DEF DeleteRow, IInv, JarInv
<1>11. CASE DeleteDir(h)
  <2>1. UNCHANGED <<file, open, whole>> /\ \A a \in Actors : a # h => at'[a] = at[a]
    BY <1>11 DEF DeleteDir, IInv, TypeOK
  <2>2. ASSUME NEW f \in Formats
        PROVE  /\ at'[h] \in Past[f] => at[h] \in Past[f]
               /\ file[f] = Absent /\ Uncounted(f) => Uncounted(f)'
    BY <1>11, <2>1, <2>2 DEF DeleteDir, IInv, TypeOK, RoleInv, Past, Ahead, Uncounted, Fresh
  <2> QED
    BY <2>1, <2>2, FreshKept
<1>12. CASE DeleteJson(h)
  BY <1>12 DEF DeleteJson, IInv, JarInv
<1>13. CASE DeleteNetscape(h)
  BY <1>13 DEF DeleteNetscape, IInv, JarInv
<1> QED
  BY <1>1, <1>2, <1>3, <1>4, <1>5, <1>6, <1>7, <1>8, <1>9, <1>10, <1>11, <1>12, <1>13 DEF Handler

LEMMA SessionWhole ==
  ASSUME IInv, WholeInv, NEW s \in Sessions, Session(s)
  PROVE  WholeInv'
<1> SUFFICES ASSUME stored # "deleted", stored' # "deleted", \A f \in Formats : Fresh(f)
             PROVE  \A f \in Formats : Fresh(f)'
  <2>1. stored = "deleted" => stored' = "deleted"
    BY DEF Session, OpenCheck, OpenInsert, CloseTake, CloseFetch, CloseProfile, CloseMeta,
       CloseJson, CloseNetscape, CloseKill, CloseMark
  <2> QED
    BY <2>1 DEF WholeInv
<1>1. CASE OpenCheck(s)
  <2>1. UNCHANGED <<file, open, whole>> /\ \A a \in Actors : a # s => at'[a] = at[a]
    BY <1>1 DEF OpenCheck, IInv, TypeOK
  <2>2. ASSUME NEW f \in Formats
        PROVE  /\ at'[s] \in Past[f] => at[s] \in Past[f]
               /\ file[f] = Absent /\ Uncounted(f) => Uncounted(f)'
    BY <1>1, <2>1, <2>2 DEF OpenCheck, IInv, TypeOK, RoleInv, Past, Ahead, Uncounted, Fresh
  <2> QED
    BY <2>1, <2>2, FreshKept
<1>2. CASE OpenInsert(s)
  <2>1. UNCHANGED <<file, open, whole>> /\ \A a \in Actors : a # s => at'[a] = at[a]
    BY <1>2 DEF OpenInsert, IInv, TypeOK
  <2>2. ASSUME NEW f \in Formats
        PROVE  /\ at'[s] \in Past[f] => at[s] \in Past[f]
               /\ file[f] = Absent /\ Uncounted(f) => Uncounted(f)'
    BY <1>2, <2>1, <2>2 DEF OpenInsert, IInv, TypeOK, RoleInv, Past, Ahead, Uncounted, Fresh
  <2> QED
    BY <2>1, <2>2, FreshKept
<1>3. CASE CloseTake(s)
  <2>1. UNCHANGED <<file, open, whole>> /\ \A a \in Actors : a # s => at'[a] = at[a]
    BY <1>3 DEF CloseTake, IInv, TypeOK
  <2>2. ASSUME NEW f \in Formats
        PROVE  /\ at'[s] \in Past[f] => at[s] \in Past[f]
               /\ file[f] = Absent /\ Uncounted(f) => Uncounted(f)'
    BY <1>3, <2>1, <2>2 DEF CloseTake, IInv, TypeOK, RoleInv, Past, Ahead, Uncounted, Fresh
  <2> QED
    BY <2>1, <2>2, FreshKept
<1>4. CASE CloseFetch(s)
  <2>1. UNCHANGED <<file, open, whole>> /\ \A a \in Actors : a # s => at'[a] = at[a]
    BY <1>4 DEF CloseFetch, IInv, TypeOK
  <2>2. ASSUME NEW f \in Formats
        PROVE  /\ at'[s] \in Past[f] => at[s] \in Past[f]
               /\ file[f] = Absent /\ Uncounted(f) => Uncounted(f)'
    <3>1. at[s] = "fetch" /\ at'[s] \in {"profile", "kill"} /\ UNCHANGED <<saved, seen>>
      BY <1>4 DEF CloseFetch, IInv, TypeOK
    <3> QED
      BY <2>1, <2>2, <3>1 DEF Past, Ahead, Uncounted
  <2> QED
    BY <2>1, <2>2, FreshKept
<1>5. CASE CloseProfile(s)
  <2>1. UNCHANGED <<file, open, whole>> /\ \A a \in Actors : a # s => at'[a] = at[a]
    BY <1>5 DEF CloseProfile, IInv, TypeOK
  <2>2. ASSUME NEW f \in Formats
        PROVE  /\ at'[s] \in Past[f] => at[s] \in Past[f]
               /\ file[f] = Absent /\ Uncounted(f) => Uncounted(f)'
    BY <1>5, <2>1, <2>2 DEF CloseProfile, IInv, TypeOK, RoleInv, Past, Ahead, Uncounted, Fresh
  <2> QED
    BY <2>1, <2>2, FreshKept
<1>6. CASE CloseMeta(s)
  <2>1. UNCHANGED <<file, open, whole>> /\ \A a \in Actors : a # s => at'[a] = at[a]
    BY <1>6 DEF CloseMeta, IInv, TypeOK
  <2>2. ASSUME NEW f \in Formats
        PROVE  /\ at'[s] \in Past[f] => at[s] \in Past[f]
               /\ file[f] = Absent /\ Uncounted(f) => Uncounted(f)'
    BY <1>6, <2>1, <2>2 DEF CloseMeta, IInv, TypeOK, RoleInv, Past, Ahead, Uncounted, Fresh
  <2> QED
    BY <2>1, <2>2, FreshKept
<1>7. CASE CloseJson(s)
  BY <1>7, WriteWhole DEF Writes, WholeInv
<1>8. CASE CloseNetscape(s)
  BY <1>8, WriteWhole DEF Writes, WholeInv
<1>9. CASE CloseKill(s)
  <2>1. UNCHANGED <<file, open, whole>> /\ \A a \in Actors : a # s => at'[a] = at[a]
    BY <1>9 DEF CloseKill, IInv, TypeOK
  <2>2. ASSUME NEW f \in Formats
        PROVE  /\ at'[s] \in Past[f] => at[s] \in Past[f]
               /\ file[f] = Absent /\ Uncounted(f) => Uncounted(f)'
    BY <1>9, <2>1, <2>2 DEF CloseKill, IInv, TypeOK, RoleInv, Past, Ahead, Uncounted, Fresh
  <2> QED
    BY <2>1, <2>2, FreshKept
<1>10. CASE CloseMark(s)
  <2>1. UNCHANGED <<file, open, whole>> /\ \A a \in Actors : a # s => at'[a] = at[a]
    BY <1>10 DEF CloseMark, IInv, TypeOK
  <2>2. ASSUME NEW f \in Formats
        PROVE  /\ at'[s] \in Past[f] => at[s] \in Past[f]
               /\ file[f] = Absent /\ Uncounted(f) => Uncounted(f)'
    BY <1>10, <2>1, <2>2 DEF CloseMark, IInv, TypeOK, RoleInv, Past, Ahead, Uncounted, Fresh
  <2> QED
    BY <2>1, <2>2, FreshKept
<1> QED
  BY <1>1, <1>2, <1>3, <1>4, <1>5, <1>6, <1>7, <1>8, <1>9, <1>10 DEF Session

\* Whoever is cut short leaves file f to the next writer
LEMMA CutWhole ==
  ASSUME IInv, WholeInv, NEW actors \in SUBSET Actors, CutShort(actors), UNCHANGED rowVars,
         \A a \in Actors : IF a \in actors THEN at'[a] \in {"idle", "new", "lost", "closed"}
                           ELSE at'[a] = at[a],
         \A a \in Actors : seen'[a].saved \in {seen[a].saved, NoJar}
  PROVE  WholeInv'
<1> SUFFICES ASSUME stored # "deleted", NEW f \in Formats, Fresh(f)
             PROVE  Fresh(f)'
  BY DEF WholeInv
<1>1. /\ \A a \in Actors : open'[a] = IF a \in actors THEN "none" ELSE open[a]
      /\ file'[f] # file[f] => file'[f] = Torn /\ \E a \in actors : open[a] = f
      /\ whole'[f] => whole[f] /\ \A a \in actors : at[a] \notin Due[f]
  BY CutShortIs
<1>2. \A a \in Actors : open[a] = f => at[a] \in Due[f]
  BY DEF IInv, OpenInv, Due
<1>3. \A a \in Actors : at'[a] \in Past[f] => file'[f] # Absent
  BY <1>1 DEF Fresh, Past
<1>4. ASSUME whole'[f]
      PROVE  /\ \A a, b \in Actors : open'[a] = f /\ open'[b] = f => a = b
             /\ \A a \in Actors : open'[a] = f => file'[f] = Empty
             /\ file'[f] \in Jars \cup {Absent} \/ \E a \in Actors : open'[a] = f
             /\ file'[f] = Absent => Uncounted(f)'
  <2>1. whole[f] /\ file'[f] = file[f] /\ \A a \in Actors : open'[a] = f <=> open[a] = f
    BY <1>1, <1>2, <1>4
  <2>2. \A a \in Actors : at[a] \in Ahead[f] => at'[a] \in Ahead[f]
    BY <1>1, <1>4 DEF Ahead, Due
  <2>3. Uncounted(f) => Uncounted(f)'
    BY <2>2 DEF Uncounted, Ahead
  <2> QED
    BY <2>1, <2>3 DEF Fresh
<1> QED
  BY <1>3, <1>4 DEF Fresh, Past

LEMMA NextWhole == IInv /\ WholeInv /\ [Next]_vars => WholeInv'
<1> SUFFICES ASSUME IInv, WholeInv, [Next]_vars
             PROVE  WholeInv'
  OBVIOUS
<1>1. CASE CreateProfile
  <2>1. stored # "deleted" /\ UNCHANGED <<saved, file, open, whole, at, seen>>
    BY <1>1 DEF CreateProfile
  <2>2. ASSUME NEW f \in Formats
        PROVE  Fresh(f)'
    BY <2>1 DEF WholeInv, Fresh, Uncounted, Past, Ahead
  <2> QED
    BY <2>2 DEF WholeInv
<1>2. ASSUME NEW h \in Handlers, ImportAborts(h)
      PROVE  WholeInv'
  <2>1. CutShort({h}) /\ {h} \in SUBSET Actors /\ UNCHANGED rowVars
    BY <1>2 DEF ImportAborts
  <2>2. at' = [at EXCEPT ![h] = "idle"] /\ seen' = [seen EXCEPT ![h] = NoRow]
    BY <1>2 DEF ImportAborts
  <2> QED
    BY <2>1, <2>2, CutWhole DEF IInv, TypeOK
<1>3. ASSUME NEW h \in Handlers, RemovalFails(h)
      PROVE  WholeInv'
  <2>1. stored = "deleted" /\ UNCHANGED stored
    BY <1>3 DEF RemovalFails, IInv, JarInv
  <2> QED
    BY <2>1 DEF WholeInv
<1>4. ASSUME NEW s \in Sessions, CloseAborts(s)
      PROVE  WholeInv'
  <2>1. CutShort({s}) /\ {s} \in SUBSET Actors /\ UNCHANGED rowVars
    BY <1>4 DEF CloseAborts
  <2>2. at' = [at EXCEPT ![s] = "lost"] /\ seen' = [seen EXCEPT ![s] = NoRow]
    BY <1>4 DEF CloseAborts
  <2> QED
    BY <2>1, <2>2, CutWhole DEF IInv, TypeOK
<1>5. CASE Restart
  <2>1. CutShort(Actors) /\ UNCHANGED rowVars
    BY <1>5 DEF Restart
  <2>2. /\ \A a \in Actors : at'[a] \in {"idle", "new", "closed"}
        /\ \A a \in Actors : seen'[a].saved = NoJar
    BY <1>5 DEF Restart
  <2> QED
    BY <2>1, <2>2, CutWhole
<1>6. CASE UNCHANGED vars
  BY <1>6 DEF vars, WholeInv, Fresh, Uncounted, Past, Ahead
<1> QED
  BY <1>1, <1>2, <1>3, <1>4, <1>5, <1>6, HandlerWhole, SessionWhole DEF Next

LEMMA WholeInvariance == Spec => [](IInv /\ WholeInv)
<1>1. ASSUME Init
      PROVE  WholeInv
  <2>1. \A a \in Actors : at[a] \in {"idle", "new"} /\ open[a] = "none" /\ seen[a].saved = NoJar
    BY <1>1 DEF Init
  <2>2. saved = NoJar /\ \A f \in Formats : file[f] = Absent
    BY <1>1 DEF Init
  <2> QED
    BY <2>1, <2>2 DEF WholeInv, Fresh, Uncounted, Past
<1> QED
  BY <1>1, InitIInv, NextIInv, NextWhole, PTL DEF Spec

-----------------------------------------------------------------------------
\* One writer at a time
Told == Between \cup {"update"}

\* When one actor moves, starts or ends a write, no other has one under way
LEMMA Others ==
  ASSUME IInv, CalmInv, Going, calm', NEW x \in Actors, x \in Writers \/ x \in Writers',
         \A a \in Actors \ {x} : at'[a] = at[a]
  PROVE  \A a \in Actors \ {x} : at[a] \notin Told
<1>1. calm /\ \A a, b \in Writers' : a = b
  BY Zenon DEF Going
<1>2. \A a, b \in Writers : a = b
  BY <1>1 DEF CalmInv
<1>3. \A a \in Actors \ {x} : a \in Writers <=> a \in Writers'
  BY DEF Writers
<1>4. \A a \in Actors \ {x} : a \notin Writers
  BY <1>1, <1>2, <1>3
<1>5. \A a \in Actors : at[a] \in Told => a \in Writers
  BY DEF IInv, RoleInv, Told, Between, Writers
<1> QED
  BY <1>4, <1>5

LEMMA SettledAlone ==
  ASSUME SettledInv, calm, NEW x \in Actors,
         \A a \in Actors \ {x} : at'[a] = at[a] /\ at[a] \notin Told,
         (at[x] \notin Between => Settled) /\ Holds(x) =>
            (at'[x] \notin Between => Settled') /\ Holds(x)'
  PROVE  SettledInv'
<1>1. (at[x] \notin Between => Settled) /\ Holds(x)
  BY DEF SettledInv, Told
<1>2. (at'[x] \notin Between => Settled') /\ Holds(x)'
  BY <1>1
<1>3. ASSUME NEW a \in Actors \ {x}
      PROVE  Holds(a)'
  <2>1. at'[a] \notin Told
    BY <1>3
  <2> QED
    BY <2>1 DEF Holds, Told, Between
<1> QED
  BY <1>2, <1>3 DEF SettledInv, Between

LEMMA SettledKept ==
  ASSUME SettledInv, calm' => calm /\ file' = file, UNCHANGED <<stored, saved, dir>>,
         \A a \in Actors : at'[a] \in Told =>
             at'[a] = at[a] /\ seen'[a] = seen[a] /\ jar'[a] = jar[a],
         \A a \in Actors : at[a] \in Between => at'[a] \in Between
  PROVE  SettledInv'
<1> SUFFICES ASSUME calm'
             PROVE  /\ (\A a \in Actors : at'[a] \notin Between) => Settled'
                    /\ \A a \in Actors : Holds(a)'
  BY DEF SettledInv, Between
<1>1. file' = file /\ (\A a \in Actors : at[a] \notin Between) => Settled
  BY DEF SettledInv
<1>2. \A a \in Actors : at'[a] \notin Between => at[a] \notin Between
  OBVIOUS
<1>3. (\A a \in Actors : at'[a] \notin Between) => Settled'
  BY <1>1, <1>2 DEF Settled, Exported
<1>4. ASSUME NEW a \in Actors
      PROVE  Holds(a)'
  <2>1. Holds(a)
    BY DEF SettledInv
  <2>2. CASE at'[a] \in Told
    BY <1>1, <2>1, <2>2 DEF Holds
  <2>3. CASE at'[a] \notin Told
    BY <2>3 DEF Holds, Told, Between
  <2> QED
    BY <2>2, <2>3
<1> QED
  BY <1>3, <1>4

\* The writer of a file leaves in it what the row counts or is to count
LEMMA WriteSettled ==
  ASSUME IInv, NEW a \in Actors, Writes(a), stored = "stored", Holds(a)
  PROVE  (at'[a] \notin Between => Settled') /\ Holds(a)'
<1>1. TypeOK /\ OpenInv /\ JarInv
  BY DEF IInv
<1>2. PICK f \in Formats, to \in WritePc : Opening(a, f, to) \/ Filling(a, f, to)
  BY <1>1, WritesAre
<1>3. at'[a] = to /\ UNCHANGED <<stored, saved, seen, jar>>
  BY <1>1, <1>2 DEF Opening, Filling, TypeOK
<1>4. CASE Opening(a, f, to)
  <2>1. file'[f] = Empty /\ \A g \in Formats \ {f} : file'[g] = file[g]
    BY <1>1, <1>4, OpenIs DEF Opening
  <2> QED
    BY <1>3, <1>4, <2>1 DEF Opening, Holds, Between
<1>5. CASE Filling(a, f, to)
  <2>1. open[a] = f
    BY <1>1, <1>5 DEF Filling, OpenInv
  <2>2. (file[f] = Empty => file'[f] = jar[a]) /\ \A g \in Formats \ {f} : file'[g] = file[g]
    BY <1>1, <1>5, <2>1, FillIs DEF Filling
  <2>3. Holds(a)'
    BY <1>3, <1>5, <2>2 DEF Filling, Holds
  <2>4. at'[a] \notin Between => Settled'
    <3>1. CASE to # "kill"
      BY <1>3, <1>5, <3>1 DEF Filling, Between
    <3>2. CASE to = "kill"
      <4>1. at[a] = "cnetscape" /\ f = "netscape"
        BY <1>5, <3>2 DEF Filling
      <4>2. jar[a] \in Jars /\ jar[a] # Absent
        BY <1>1, <4>1 DEF TypeOK, JarInv, Carrying
      <4> QED
        BY <1>3, <2>2, <4>1, <4>2 DEF Holds, Settled, Exported
    <3> QED
      BY <3>1, <3>2
  <2> QED
    BY <2>3, <2>4
<1> QED
  BY <1>2, <1>4, <1>5

\* What a writer finds it leaves, or changes for what it was asked to write
LEMMA HandlerSettled ==
  ASSUME IInv, CalmInv, SettledInv, Going, NEW h \in Handlers, Handler(h)
  PROVE  SettledInv'
<1> SUFFICES ASSUME calm'
             PROVE  SettledInv'
  BY DEF SettledInv
<1>1. calm /\ h \in Actors
  BY Zenon DEF Going, Actors
<1>2. \A a \in Actors \ {h} : at'[a] = at[a]
  BY Zenon DEF Handler, StartUpdate, Update, StartImport, ImportCheck, ImportJson,
     ImportNetscape, ImportMeta, ImportArtifact, StartDelete, DeleteRow, DeleteDir, DeleteJson,
     DeleteNetscape, IInv, TypeOK
<1>3. \A a \in Actors \ {h} : at[a] \notin Told
  <2>1. (at[h] # "idle" \/ at'[h] # "idle") /\ h \in Handlers
    BY DEF Handler, StartUpdate, Update, StartImport, ImportCheck, ImportJson, ImportNetscape,
       ImportMeta, ImportArtifact, StartDelete, DeleteRow, DeleteDir, DeleteJson, DeleteNetscape,
       IInv, TypeOK
  <2> QED
    BY <1>2, <2>1, Others DEF Writers
<1>4. SUFFICES ASSUME at[h] \notin Between => Settled, Holds(h)
               PROVE  (at'[h] \notin Between => Settled') /\ Holds(h)'
  BY <1>1, <1>2, <1>3, SettledAlone
<1>5. at[h] \in Importing \cup {"update", "delete"} => stored = "stored"
  BY <1>1 DEF CalmInv, Writers
<1>6. CASE StartUpdate(h)
  BY <1>6, <1>4, <1>5 DEF StartUpdate, Holds, Settled, Between, Exported, IInv, TypeOK, JarInv,
     Carrying
<1>7. CASE Update(h)
  BY <1>7, <1>4, <1>5 DEF Update, Holds, Settled, Between, Exported, IInv, TypeOK, JarInv,
     Carrying
<1>8. CASE StartImport(h)
  BY <1>8, <1>4, <1>5 DEF StartImport, Holds, Settled, Between, Exported, IInv, TypeOK, JarInv,
     Carrying
<1>9. CASE ImportCheck(h)
  BY <1>9, <1>4, <1>5 DEF ImportCheck, Holds, Settled, Between, Exported, IInv, TypeOK, JarInv,
     Carrying
<1>10. CASE ImportJson(h)
  BY <1>4, <1>5, <1>10, WriteSettled DEF ImportJson, Writes
<1>11. CASE ImportNetscape(h)
  BY <1>4, <1>5, <1>11, WriteSettled DEF ImportNetscape, Writes
<1>12. CASE ImportMeta(h)
  BY <1>12, <1>4, <1>5 DEF ImportMeta, Holds, Settled, Between, Exported, IInv, TypeOK, JarInv,
     Carrying
<1>13. CASE ImportArtifact(h)
  BY <1>13, <1>4, <1>5 DEF ImportArtifact, Holds, Settled, Between, Exported, IInv, TypeOK,
     JarInv, Carrying
<1>14. CASE StartDelete(h)
  BY <1>14, <1>4, <1>5 DEF StartDelete, Holds, Settled, Between, Exported, IInv, TypeOK, JarInv,
     Carrying
<1>15. CASE DeleteRow(h)
  BY <1>15, <1>4, <1>5 DEF DeleteRow, Holds, Settled, Between, Exported, IInv, TypeOK, JarInv,
     Carrying
<1>16. CASE DeleteDir(h)
  BY <1>16, <1>4, <1>5 DEF DeleteDir, Holds, Settled, Between, Exported, IInv, TypeOK, JarInv,
     Carrying
<1>17. CASE DeleteJson(h)
  <2>1. RemoveFile("json") /\ TypeOK /\ stored = "deleted" /\ UNCHANGED <<stored, dir, saved>>
    BY <1>17 DEF DeleteJson, IInv, JarInv
  <2>2. file'["json"] = Absent /\ file'["netscape"] = file["netscape"]
    BY <2>1, RemoveIs
  <2> QED
    BY <1>17, <1>4, <2>1, <2>2 DEF DeleteJson, Holds, Settled, Between, IInv, TypeOK
<1>18. CASE DeleteNetscape(h)
  <2>1. RemoveFile("netscape") /\ TypeOK /\ stored = "deleted" /\ UNCHANGED <<stored, dir, saved>>
    BY <1>18 DEF DeleteNetscape, IInv, JarInv
  <2>2. file'["netscape"] = Absent /\ file'["json"] = file["json"]
    BY <2>1, RemoveIs
  <2> QED
    BY <1>18, <1>4, <2>1, <2>2 DEF DeleteNetscape, Holds, Settled, Between, IInv, TypeOK
<1> QED
  BY <1>6, <1>7, <1>8, <1>9, <1>10, <1>11, <1>12, <1>13, <1>14, <1>15, <1>16, <1>17,
     <1>18 DEF Handler

LEMMA SessionSettled ==
  ASSUME IInv, CalmInv, SettledInv, Going, NEW s \in Sessions, Session(s)
  PROVE  SettledInv'
<1> SUFFICES ASSUME calm'
             PROVE  SettledInv'
  BY DEF SettledInv
<1>1. calm /\ s \in Actors /\ s \notin Handlers
  BY Zenon DEF Going, Actors
<1>3. ASSUME at[s] \in WritingBack, at' = [at EXCEPT ![s] = at'[s]],
             Holds(s) => (at'[s] \notin Between => Settled') /\ Holds(s)'
      PROVE  SettledInv'
  <2>1. \A a \in Actors \ {s} : at'[a] = at[a]
    BY <1>3 DEF IInv, TypeOK
  <2>2. \A a \in Actors \ {s} : at[a] \notin Told
    BY <1>1, <1>3, <2>1, Others DEF Writers
  <2> QED
    BY <1>1, <1>3, <2>1, <2>2, SettledAlone
<1>2. at[s] \in WritingBack => stored = "stored"
  BY <1>1 DEF CalmInv, Writers
<1>4. ASSUME at[s] \notin Between, at'[s] \notin Told,
             at' = [at EXCEPT ![s] = at'[s]], UNCHANGED <<stored, saved, dir, file>>,
             \A a \in Actors \ {s} : seen'[a] = seen[a] /\ jar'[a] = jar[a]
      PROVE  SettledInv'
  <2>1. \A a \in Actors \ {s} : at'[a] = at[a]
    BY <1>4 DEF IInv, TypeOK
  <2> QED
    BY <1>1, <1>4, <2>1, SettledKept
<1>5. CASE OpenCheck(s)
  <2>1. at[s] \notin Between /\ UNCHANGED <<stored, saved, dir, file>>
    BY <1>5 DEF OpenCheck, Between
  <2>2. at'[s] \notin Told /\ at' = [at EXCEPT ![s] = at'[s]]
    BY <1>5 DEF OpenCheck, IInv, TypeOK, Told, Between
  <2>3. \A a \in Actors \ {s} : seen'[a] = seen[a] /\ jar'[a] = jar[a]
    BY <1>5 DEF OpenCheck, IInv, TypeOK
  <2> QED
    BY <1>4, <2>1, <2>2, <2>3
<1>6. CASE OpenInsert(s)
  <2>1. at[s] \notin Between /\ UNCHANGED <<stored, saved, dir, file>>
    BY <1>6 DEF OpenInsert, Between
  <2>2. at'[s] \notin Told /\ at' = [at EXCEPT ![s] = at'[s]]
    BY <1>6 DEF OpenInsert, IInv, TypeOK, Told, Between
  <2>3. \A a \in Actors \ {s} : seen'[a] = seen[a] /\ jar'[a] = jar[a]
    BY <1>6 DEF OpenInsert, IInv, TypeOK
  <2> QED
    BY <1>4, <2>1, <2>2, <2>3
<1>7. CASE CloseTake(s)
  <2>1. at[s] \notin Between /\ UNCHANGED <<stored, saved, dir, file>>
    BY <1>7 DEF CloseTake, Between
  <2>2. at'[s] \notin Told /\ at' = [at EXCEPT ![s] = at'[s]]
    BY <1>7 DEF CloseTake, IInv, TypeOK, Told, Between
  <2>3. \A a \in Actors \ {s} : seen'[a] = seen[a] /\ jar'[a] = jar[a]
    BY <1>7 DEF CloseTake, IInv, TypeOK
  <2> QED
    BY <1>4, <2>1, <2>2, <2>3
<1>8. CASE CloseFetch(s)
  <2>1. at[s] \notin Between /\ UNCHANGED <<stored, saved, dir, file>>
    BY <1>8 DEF CloseFetch, Between
  <2>2. at'[s] \notin Told /\ at' = [at EXCEPT ![s] = at'[s]]
    BY <1>8 DEF CloseFetch, IInv, TypeOK, Told, Between
  <2>3. \A a \in Actors \ {s} : seen'[a] = seen[a] /\ jar'[a] = jar[a]
    BY <1>8 DEF CloseFetch, IInv, TypeOK
  <2> QED
    BY <1>4, <2>1, <2>2, <2>3
<1>9. CASE CloseProfile(s)
  <2>1. at[s] \notin Between /\ UNCHANGED <<stored, saved, dir, file>>
    BY <1>9 DEF CloseProfile, Between
  <2>2. at'[s] \notin Told /\ at' = [at EXCEPT ![s] = at'[s]]
    BY <1>9 DEF CloseProfile, IInv, TypeOK, Told, Between
  <2>3. \A a \in Actors \ {s} : seen'[a] = seen[a] /\ jar'[a] = jar[a]
    BY <1>9 DEF CloseProfile, IInv, TypeOK
  <2> QED
    BY <1>4, <2>1, <2>2, <2>3
<1>10. CASE CloseKill(s)
  <2>1. at[s] \notin Between /\ UNCHANGED <<stored, saved, dir, file>>
    BY <1>10 DEF CloseKill, Between
  <2>2. at'[s] \notin Told /\ at' = [at EXCEPT ![s] = at'[s]]
    BY <1>10 DEF CloseKill, IInv, TypeOK, Told, Between
  <2>3. \A a \in Actors \ {s} : seen'[a] = seen[a] /\ jar'[a] = jar[a]
    BY <1>10 DEF CloseKill, IInv, TypeOK
  <2> QED
    BY <1>4, <2>1, <2>2, <2>3
<1>11. CASE CloseMark(s)
  <2>1. at[s] \notin Between /\ UNCHANGED <<stored, saved, dir, file>>
    BY <1>11 DEF CloseMark, Between
  <2>2. at'[s] \notin Told /\ at' = [at EXCEPT ![s] = at'[s]]
    BY <1>11 DEF CloseMark, IInv, TypeOK, Told, Between
  <2>3. \A a \in Actors \ {s} : seen'[a] = seen[a] /\ jar'[a] = jar[a]
    BY <1>11 DEF CloseMark, IInv, TypeOK
  <2> QED
    BY <1>4, <2>1, <2>2, <2>3
<1>12. CASE CloseMeta(s)
  <2>1. at[s] = "cmeta" /\ at' = [at EXCEPT ![s] = "copenjson"] /\ UNCHANGED jar /\ saved' = jar[s]
    BY <1>2, <1>12 DEF CloseMeta
  <2>2. at'[s] = "copenjson"
    BY <2>1 DEF IInv, TypeOK
  <2> QED
    BY <1>3, <2>1, <2>2 DEF Holds, Between
<1>13. CASE CloseJson(s)
  <2>1. at[s] \in WritingBack /\ at' = [at EXCEPT ![s] = at'[s]]
    BY <1>13 DEF CloseJson, IInv, TypeOK
  <2>2. Holds(s) => (at'[s] \notin Between => Settled') /\ Holds(s)'
    BY <1>2, <1>13, <2>1, WriteSettled DEF Writes
  <2> QED
    BY <1>3, <2>1, <2>2
<1>14. CASE CloseNetscape(s)
  <2>1. at[s] \in WritingBack /\ at' = [at EXCEPT ![s] = at'[s]]
    BY <1>14 DEF CloseNetscape, IInv, TypeOK
  <2>2. Holds(s) => (at'[s] \notin Between => Settled') /\ Holds(s)'
    BY <1>2, <1>14, <2>1, WriteSettled DEF Writes
  <2> QED
    BY <1>3, <2>1, <2>2
<1> QED
  BY <1>5, <1>6, <1>7, <1>8, <1>9, <1>10, <1>11, <1>12, <1>13, <1>14 DEF Session

\* A writer's profile is there, as none but the writer may delete it
LEMMA HandlerCalm ==
  ASSUME IInv, CalmInv, Going, NEW h \in Handlers, Handler(h)
  PROVE  CalmInv'
<1> SUFFICES ASSUME calm'
             PROVE  \A a \in Writers' : at'[a] \in Importing \cup WritingBack \cup {"update",
                "delete"}
                                          => stored' = "stored"
  BY Zenon DEF CalmInv, Going
<1>1. calm /\ \A a, b \in Writers' : a = b
  BY Zenon DEF Going
<1>2. \A a \in Actors \ {h} : at'[a] = at[a]
  BY DEF Handler, StartUpdate, Update, StartImport, ImportCheck, ImportJson, ImportNetscape,
     ImportMeta, ImportArtifact, StartDelete, DeleteRow, DeleteDir, DeleteJson, DeleteNetscape,
     IInv, TypeOK
<1>3. at'[h] \in Importing \cup {"update", "delete"} => stored' = "stored"
  <2>1. at[h] \in Importing \cup {"update", "delete"} => stored = "stored"
    BY <1>1 DEF CalmInv, Writers
  <2>2. CASE StartUpdate(h) \/ StartImport(h) \/ StartDelete(h)
    BY <2>2 DEF StartUpdate, StartImport, StartDelete
  <2>3. CASE DeleteRow(h) \/ DeleteDir(h) \/ DeleteJson(h) \/ DeleteNetscape(h)
    BY <2>3 DEF DeleteRow, DeleteDir, DeleteJson, DeleteNetscape, IInv, TypeOK
  <2>4. CASE Update(h) \/ ImportCheck(h) \/ ImportJson(h) \/ ImportNetscape(h) \/ ImportMeta(h)
             \/ ImportArtifact(h)
    <3>1. UNCHANGED stored /\ at[h] \in Importing \cup {"update", "delete"}
      BY <2>4 DEF Update, ImportCheck, ImportJson, ImportNetscape, ImportMeta, ImportArtifact
    <3> QED
      BY <2>1, <3>1, <2>4 DEF Update, ImportCheck, ImportJson, ImportNetscape, ImportMeta,
         ImportArtifact
  <2> QED
    BY <2>2, <2>3, <2>4 DEF Handler
<1>4. h \in Writers \/ h \in Writers'
  BY DEF Handler, StartUpdate, Update, StartImport, ImportCheck, ImportJson, ImportNetscape,
     ImportMeta, ImportArtifact, StartDelete, DeleteRow, DeleteDir, DeleteJson, DeleteNetscape,
     Writers, IInv, TypeOK
<1>5. ASSUME NEW a \in Writers', a # h, at'[a] \in Importing \cup WritingBack \cup {"update",
   "delete"}
      PROVE  FALSE
  <2>1. a \in Actors \ {h} /\ at'[a] = at[a] /\ a \in Writers
    BY <1>2, <1>5 DEF Writers
  <2>2. h \notin Writers'
    BY <1>1, <1>5
  <2> QED
    BY <1>1, <1>4, <1>5, <2>1, <2>2 DEF CalmInv
<1>6. ASSUME NEW a \in Writers', at'[a] \in Importing \cup WritingBack \cup {"update", "delete"}
      PROVE  stored' = "stored"
  <2>1. a = h
    BY <1>5, <1>6
  <2>2. at'[h] \in Importing \cup {"update", "delete"}
    <3>1. IInv => at'[h] \notin WritingBack
      BY DEF Handler, StartUpdate, Update, StartImport, ImportCheck, ImportJson, ImportNetscape,
         ImportMeta, ImportArtifact, StartDelete, DeleteRow, DeleteDir, DeleteJson,
         DeleteNetscape, IInv, TypeOK, RoleInv
    <3> QED
      BY <1>6, <2>1, <3>1
  <2> QED
    BY <1>3, <2>2
<1> QED
  BY <1>6

LEMMA SessionCalm ==
  ASSUME IInv, CalmInv, Going, NEW s \in Sessions, Session(s)
  PROVE  CalmInv'
<1> SUFFICES ASSUME calm'
             PROVE  \A a \in Writers' : at'[a] \in Importing \cup WritingBack \cup {"update",
                "delete"}
                                          => stored' = "stored"
  BY Zenon DEF CalmInv, Going
<1>1. calm
  BY Zenon DEF Going
<1>2. UNCHANGED stored /\ \A a \in Actors \ {s} : at'[a] = at[a]
  BY DEF Session, OpenCheck, OpenInsert, CloseTake, CloseFetch, CloseProfile, CloseMeta,
     CloseJson, CloseNetscape, CloseKill, CloseMark, IInv, TypeOK
<1>3. at'[s] \in WritingBack => stored = "stored"
  <2>1. at[s] \in WritingBack => stored = "stored"
    BY <1>1 DEF CalmInv, Writers
  <2>2. CASE CloseProfile(s)
    BY <2>2 DEF CloseProfile
  <2>3. CASE CloseMeta(s) \/ CloseJson(s) \/ CloseNetscape(s)
    BY <2>1, <2>3 DEF CloseMeta, CloseJson, CloseNetscape
  <2>4. CASE OpenCheck(s) \/ OpenInsert(s) \/ CloseTake(s) \/ CloseFetch(s) \/ CloseKill(s)
             \/ CloseMark(s)
    BY <2>4 DEF OpenCheck, OpenInsert, CloseTake, CloseFetch, CloseKill, CloseMark, IInv, TypeOK
  <2> QED
    BY <2>2, <2>3, <2>4 DEF Session
<1>4. at'[s] \notin (Importing \cup {"update", "delete"}) /\ s \notin Handlers
  BY DEF Session, OpenCheck, OpenInsert, CloseTake, CloseFetch, CloseProfile, CloseMeta,
     CloseJson, CloseNetscape, CloseKill, CloseMark, IInv, TypeOK, RoleInv
<1>5. ASSUME NEW a \in Writers', at'[a] \in Importing \cup WritingBack \cup {"update", "delete"}
      PROVE  stored = "stored"
  <2>1. CASE a = s
    BY <1>3, <1>4, <1>5, <2>1
  <2>2. CASE a # s
    <3>1. at'[a] = at[a] /\ a \in Writers
      BY <1>2, <2>2 DEF Writers
    <3> QED
      BY <1>1, <1>5, <3>1 DEF CalmInv
  <2> QED
    BY <2>1, <2>2
<1> QED
  BY <1>2, <1>5

\* What is cut short in a calm run writes nothing
LEMMA CutSettled ==
  ASSUME IInv, CalmInv, SettledInv, NEW actors \in SUBSET Actors, CutShort(actors),
         UNCHANGED rowVars, calm' => dir' = dir,
         \A a \in Actors : IF a \in actors THEN at'[a] \in IF a \in Handlers THEN {"idle"}
                                                         ELSE {"new", "lost", "closed"}
                           ELSE at'[a] = at[a] /\ seen'[a] = seen[a] /\ jar'[a] = jar[a]
  PROVE  CalmInv' /\ SettledInv'
<1> SUFFICES ASSUME calm'
             PROVE  CalmInv' /\ SettledInv'
  BY DEF CalmInv, SettledInv
<1>1. calm /\ \A a \in actors : a \notin Writers
  BY CutShortIs
<1>2. \A a \in Actors : at[a] \in Between => a \in Writers
  BY DEF IInv, RoleInv, Between, Writers
<1>3. \A a \in actors : \A f \in Formats : open[a] # f
  <2>1. \A a \in actors : at[a] \notin {"ijson", "cjson", "inetscape", "cnetscape"}
    BY <1>1, <1>2 DEF Between
  <2> QED
    BY <2>1 DEF IInv, OpenInv
<1>4. file' = file
  <2>1. \A f \in Formats : file'[f] = file[f]
    BY <1>3, CutShortIs
  <2>2. file \in [Formats -> Jars \cup {NoJar, Absent, Empty, Torn}]
    BY DEF IInv, TypeOK
  <2>3. file' \in [Formats -> Jars \cup {NoJar, Absent, Empty, Torn}]
    BY CutShortIs
  <2> QED
    BY <2>1, <2>2, <2>3
<1>5. \A a \in Actors : at[a] \in Between => at'[a] \in Between
  BY <1>1, <1>2
<1>6. SettledInv'
  BY <1>1, <1>4, <1>5, SettledKept DEF Told, Between
<1>7. \A a \in Writers' : a \in Writers /\ at'[a] = at[a]
  BY <1>1 DEF Writers, IInv, RoleInv
<1>8. CalmInv'
  BY <1>1, <1>7 DEF CalmInv
<1> QED
  BY <1>6, <1>8

LEMMA NextSettled == IInv /\ CalmInv /\ SettledInv /\ [Next]_vars => CalmInv' /\ SettledInv'
<1> SUFFICES ASSUME IInv, CalmInv, SettledInv, [Next]_vars
             PROVE  CalmInv' /\ SettledInv'
  OBVIOUS
<1>1. CASE CreateProfile /\ Going
  <2>1. stored = "unborn" /\ stored' = "stored" /\ UNCHANGED <<saved, file, at, seen, jar>>
    BY <1>1 DEF CreateProfile
  <2>2. calm' => calm /\ \A a, b \in Writers' : a = b
    BY <1>1, Zenon DEF Going
  <2>3. CalmInv'
    BY <2>1, <2>2 DEF CalmInv
  <2>4. \A a \in Actors : at'[a] \notin Told
    BY <2>1 DEF IInv, JarInv, Told, Between
  <2>5. \A a \in Actors : Holds(a)'
    BY <2>4 DEF Holds, Told, Between
  <2>6. calm' => Settled'
    BY <2>1, <2>2, <2>4 DEF SettledInv, Settled, Exported, Told
  <2> QED
    BY <2>3, <2>5, <2>6 DEF SettledInv
<1>2. ASSUME NEW h \in Handlers, ImportAborts(h)
      PROVE  CalmInv' /\ SettledInv'
  <2>1. CutShort({h}) /\ {h} \in SUBSET Actors /\ h \in Writers /\ UNCHANGED rowVars
    BY <1>2 DEF ImportAborts, Writers
  <2>2. ~calm'
    BY <2>1, CutShortIs
  <2> QED
    BY <2>2 DEF CalmInv, SettledInv
<1>3. ASSUME NEW h \in Handlers, RemovalFails(h)
      PROVE  CalmInv' /\ SettledInv'
  BY <1>3 DEF RemovalFails, CalmInv, SettledInv
<1>4. ASSUME NEW s \in Sessions, CloseAborts(s)
      PROVE  CalmInv' /\ SettledInv'
  <2>1. CutShort({s}) /\ {s} \in SUBSET Actors /\ UNCHANGED <<rowVars, dir>>
    BY <1>4 DEF CloseAborts
  <2>2. /\ at' = [at EXCEPT ![s] = "lost"] /\ seen' = [seen EXCEPT ![s] = NoRow]
        /\ jar' = [jar EXCEPT ![s] = NoJar]
    BY <1>4 DEF CloseAborts
  <2>3. \A a \in Actors : IF a \in {s} THEN at'[a] \in IF a \in Handlers THEN {"idle"}
                                                        ELSE {"new", "lost", "closed"}
                          ELSE at'[a] = at[a] /\ seen'[a] = seen[a] /\ jar'[a] = jar[a]
    BY <2>2 DEF IInv, TypeOK
  <2> QED
    BY <2>1, <2>3, CutSettled
<1>5. CASE Restart
  <2>1. CutShort(Actors) /\ UNCHANGED <<rowVars, dir>>
    BY <1>5 DEF Restart
  <2>2. \A a \in Actors : at'[a] \in IF a \in Handlers THEN {"idle"} ELSE {"new", "closed"}
    BY <1>5 DEF Restart
  <2> QED
    BY <2>1, <2>2, CutSettled
<1>6. CASE UNCHANGED vars
  BY <1>6 DEF vars, CalmInv, SettledInv, Settled, Exported, Holds, Writers
<1> QED
  BY <1>1, <1>2, <1>3, <1>4, <1>5, <1>6, HandlerCalm, SessionCalm, HandlerSettled, SessionSettled
     DEF Next

-----------------------------------------------------------------------------
\* Every step keeps the values that the code can store, and the guard is held only by a
\* session that is closing (gateway.rs:85-353).
THEOREM TypeCorrect == Spec => []TypeOK
<1>1. IInv => TypeOK
  BY DEF IInv
<1> QED
  BY <1>1, Invariance, PTL

\* However many sessions slipped past the exclusive check, their write-backs follow one
\* another: the guard lives from the lookup to the kill (gateway.rs:323-355).
THEOREM WriteBacksAlone == Spec => []OneWriteBack
<1>1. IInv => OneWriteBack
  BY DEF IInv, LockInv, OneWriteBack
<1> QED
  BY <1>1, Invariance, PTL

\* In every profile and every format, cookies the row counts are in the file, and no file is
\* left empty or torn, but for a write that is under way, was cut short, or ran beside
\* another: whatever requests, closes, failing writes and crashes came before
\* (gateway.rs:138-155, 330-353).
THEOREM JarIsKept == Spec => []JarSurvives
<1>1. ASSUME IInv, WholeInv, NEW f \in Formats,
             stored = "stored", whole[f], \A a \in Actors : at[a] \notin Due[f]
      PROVE  file[f] \in Jars \/ (file[f] = Absent /\ saved = NoJar)
  <2>1. \A a \in Actors : open[a] # f /\ at[a] \notin Ahead[f]
    BY <1>1 DEF IInv, OpenInv, Due, Ahead
  <2>2. Fresh(f)
    BY <1>1 DEF WholeInv
  <2> QED
    BY <1>1, <2>1, <2>2 DEF Fresh, Uncounted
<1>2. IInv /\ WholeInv => JarSurvives
  BY <1>1 DEF JarSurvives
<1> QED
  BY <1>2, WholeInvariance, PTL

\* In every profile: as long as writers followed one another, none was cut short and no
\* removal failed, the row and both files agree whenever nobody writes, and a deletion has
\* left nothing; whatever sessions start, overlap and give up meanwhile
\* (gateway.rs:106-161, 330-353).
THEOREM FilesAgreeAtRest == Spec => []ConsistentAtRest
<1>1. ASSUME Init
      PROVE  CalmInv /\ SettledInv
  <2>1. \A a \in Actors : at[a] \in {"idle", "new"}
    BY <1>1 DEF Init
  <2>2. Writers = {}
    BY <1>1 DEF Init, Writers
  <2>3. stored = "unborn" /\ saved = NoJar /\ \A f \in Formats : file[f] = Absent
    BY <1>1 DEF Init
  <2> QED
    BY <2>1, <2>2, <2>3 DEF CalmInv, SettledInv, Settled, Exported, Holds
<1>2. ASSUME IInv, SettledInv
      PROVE  ConsistentAtRest
  <2>1. ASSUME calm, Writers = {}
        PROVE  Settled
    <3>1. (\A h \in Handlers : at[h] = "idle") /\ \A s \in Sessions : at[s] \notin WritingBack
      BY <2>1, Zenon DEF Writers
    <3>2. \A a \in Actors : at[a] \notin Between
      BY <1>2, <3>1 DEF IInv, RoleInv, Between
    <3> QED
      BY <1>2, <2>1, <3>2 DEF SettledInv
  <2> QED
    BY <2>1 DEF ConsistentAtRest, Settled
<1>3. IInv /\ SettledInv => ConsistentAtRest
  BY <1>2
<1>4. Init => CalmInv /\ SettledInv
  BY <1>1
<1> QED
  BY <1>3, <1>4, InitIInv, NextIInv, NextSettled, PTL DEF Spec
=============================================================================
