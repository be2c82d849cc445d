# Verification of obscura-gateway

TLA+ models of the gateway in `src/`, TLC runs that check them on small
instances, and TLAPS proofs that hold for every instance. Source paths below
are relative to the repository (`gateway.rs` is `src/src/gateway.rs`).

    tlc -workers 2 -config sessions_one.cfg MCSessions.tla     # one run
    tlapm SessionsProofs.tla                                    # the proofs

`PROJECT.json` lists the runs, the source lines behind every definition, the
hazards, and for every property a mistake in the code (an operator `X_mistake`
defined before `X`) under which TLC finds that property violated.

## 1. The system

The gateway is one HTTP server (axum on multi-threaded tokio) that starts an
`obscura serve` child process per browser session, speaks the Chrome DevTools
Protocol (CDP) to it over a local WebSocket, and keeps sessions, profiles,
grants and events in SQLite behind one connection mutex. CLI processes on the
same or another machine are its clients; those on the same machine also share
its config file.

| component | state | operations | what makes it correct |
|---|---|---|---|
| sessions (`gateway.rs` 173-606, `db.rs` 195-351) | rows of `sessions` and `cdp_grants`; the `runtimes` map of `ManagedSession` (child, port, cached target) behind a tokio mutex; the children | create, close, navigate/evaluate/dump, mint grant, proxy | each child has one holder who can kill it; an active row has a child; quota and exclusive read_write; a grant is used once; a restart is final; closes and creates end |
| start-up (`lib.rs` 305-327) | as above | mark stale rows failed, then listen and serve | rows of an earlier process never become active again; only such rows are marked |
| profiles (`gateway.rs` 69-171, 335-352, `server.rs` 360-484) | a row, a JSON and a Netscape cookie file, a directory | create, update, import, delete; the write-back of a closing session | metadata and both files agree at rest; cookies are not wiped and a damaged file is repaired by the next write; write-backs are not mixed |
| config file (`config.rs`) | `config.toml`, the copy in each process | load_or_create, save, setters | the api key clients use is not replaced; the default proxy policy does not dangle; a command alone does what it says |
| domain policy (`gateway.rs` 179-185, 906-999) | lists of the config and of the session | check at creation, check of each navigation | navigations reach the hosts the rules leave open, in every spelling, and only those |
| cookie formats (`cookies.rs`, `gateway.rs` 647-729) | none | export and parse JSON and Netscape, inject, fetch | no cookie is altered or lost by any chain of conversions |
| event stream (`gateway.rs` 634-645, `db.rs` 353-367, `server.rs` 310-337) | `session_events`, a broadcast channel of 512 | store and broadcast an event, subscribe, receive, lag | a client is sent stored events of its session, none twice, calls in their order; a client that keeps up misses none; the events of answered calls are stored |
| child launch (`gateway.rs` 203-251, 952-955, 1084-1098) | a port that was free, the child | pick, spawn, wait for the endpoint | the browser behind a session is its own; one given up on is not left running; the wait ends |
| CDP client (`gateway.rs` 387-511, 647-889, 1112-1202) | one WebSocket per call; the cached target | request and reply, targets, identity overrides, readiness polling, cookies | a call answers what is so: the page asked for at the milestone asked for, cookies and not an error for cookies; calls end |
| identity (`gateway.rs` 731-798, 891-904, 1001-1058, `lib.rs` 834-904) | none | build, patch, resolve, launch arguments, overrides | a page never loads before the browser shows the profile's whole identity |
| API, CLI, status, artifacts, installer, packaging | none of their own | route, authenticate, print, download | - |

How they interact: a request becomes one future. A database call is atomic
(one mutex around the connection), but between two of them, and at every
`.await`, other requests run. Three kinds of state must agree that no
transaction covers: the row, the `runtimes` entry and the child process; for a
profile, the row and two files. When a client disconnects, axum drops the
handler's future at the await where it stands (except the upgraded proxy
connection), and tokio's `Child` is not killed when it is dropped. In
`close_session` the guard of `self.runtimes.lock().await.remove(..)` lives to
the end of the `if let` body, hence across the wait for the browser's cookies
and for its death.

### Where it is hard

- Check, then act much later: `create_session` counts and checks at 174-200
  and inserts its row at 277, after up to 10 s of waiting for a browser.
- A row that outlives what it describes: actions and the proxy write
  `idle`/`attached` without looking at the state they overwrite.
- Handlers that end early, by `?` or by a dropped future, with a child in a
  local variable.
- A mutex held while a browser answers, without a timeout.
- Grants, rows and browsers that survive a restart of the process, and a second
  process started beside the first.
- A port that is free when it is looked at and given to a child later.
- Conversations with a browser that interjects events, refuses requests or goes
  away, over several connections to one page.
- An event stored in one step and broadcast in the next, to readers that lag.
- Files written one after the other, and emptied before they are written.
- Two parsers and a browser between a cookie and its copy.

## 2. The modules

| module | models | composed with |
|---|---|---|
| `Sessions` | create, close, action, proxy, grant and delete handlers as program counters over rows, map, mutex and children, and faults | |
| `SessionsProperties` | its properties and the refinement mapping | `Sessions`, `Ownership` |
| `Ownership` | abstract: who may hold a child, and how it is passed on | |
| `SessionsProofs` | the theorems that hold of every client and fault | `SessionsProperties` |
| `OwnershipProofs` | that it implements `Ownership`, what follows, and the theorems that need a condition on what clients do or what fails | `SessionsProofs` |
| `Profiles` | one profile: row, files, directory, and the handlers that write them | |
| `ProfilesProofs` | the theorems about it | `Profiles` |
| `ConfigFile` | the config file under concurrent commands that may be killed | |
| `ConfigFileProofs` | the theorems about it | `ConfigFile` |
| `DomainPolicy` | rules, their normalisation, and the check of navigations | |
| `DomainPolicyProofs` | the theorems about it | `DomainPolicy` |
| `CookieCodec` | both file formats, the two import parsers, injection and fetch | |
| `CookieCodecProofs` | the theorems about it | `CookieCodec` |
| `Identity` | the profile's identity from flags and patches to launch arguments and overrides, as operators | |
| `CdpExchange` | the launch of a session's browser and every conversation with it, request by request | `Identity` |
| `CdpExchangeProofs` | the theorems about it | `CdpExchange` |
| `Events` | the events table, the broadcast channel, and clients that follow a session | |
| `EventsProofs` | the theorems about it | `Events` |
| `MC...` | small instances: symmetry sets and the values of set constants | the module of that name |

### Sessions

One creator per session id (ids are fresh uuids) and a pool of `Workers`, each
of which runs one close, action or proxy handler at a time. `creator[s]` and
`pc[w]` are where the handlers are; a step is one database call, one critical
section of the mutex, or one exchange with a child. `state`, `url`, `profile`
and `mode` are columns of the row, `runtimes` and `target` the map, `lock` who
keeps the guard across an await, `child` the process. Variables correspond to
code as the comments in the module say; `Create...` actions are the steps of
`create_session` in order, `Close...`, `Action...`, `Proxy...` likewise.
`CreateGivesUp`, `CreateFail`, `CreateUnput`, `CreateUnkill` are its error
paths, `CreateErrs` and `WorkErrs` every other `?`. `CreateDropped` and
`WorkDropped` are dropped futures, `Crash` and `Boot` the death and restart of
the process; `SecondStart` is `obscura-gateway run` beside a gateway that
serves: it marks rows (`MarkStale`) before it finds the address taken. Children
may serve, hang or exit at any time (`Child...`). The three actions navigate,
evaluate and dump differ in what they ask of the browser (module `CdpExchange`);
here they are one handler whose outcome (row touched or not) covers the three.

The constants `Requests`, `Faults` and `OverlapCreates` select what clients
and the environment do. A run that leaves something out says under which
condition a property holds, and a run or the text below says that it fails
without.

### Profiles

One profile, since handlers of different profiles share neither rows nor
files. A jar of cookies is one value: `cookie_urls` and `cookie_count` are
functions of it. Every write to the row and to the directory is a step, and a
write of a cookie file is two: `fs::write` empties the file (`OpenFile`) and
then fills it (`FillFile`). In between the file is `Empty` for everybody, and
`open` says whose bytes are still to come; over another writer's bytes they may
leave the longer text's tail, and bytes for a file that was removed meanwhile
go nowhere. Crashes, failing writes and dropped handlers end a handler between
any two steps (`CutShort`), with the file empty or partial (`Torn`) if it is
open. The three removals of a deletion may fail; the code ignores that and goes
on (`RemovalFails`).

Two histories say under which condition the properties hold. `whole[f]`: the
last write of file `f` had it to itself and was not cut short, so it comes back
with the next such write. `calm`: no two writers overlapped so far (a request
from its first look at the profile, a session only while it writes back), no
writer was cut short and no removal failed. Sessions may start, overlap each
other and give up at any time in a calm history, also beside an import or a
deletion that has looked for them already.

### ConfigFile

Each process runs one command: load (and create), save, for setters load and
save once more, apply, save. `save` is two steps, since `fs::write` empties the
file first; a reader in between fails, and a writer over another's bytes may
leave the longer text's tail (`Torn`). `before` remembers the file at a
command's start for as long as no other command runs beside it.

### DomainPolicy and CookieCodec

Here the text matters, so a text is a sequence of pieces large enough to keep
it short and small enough to tell what the conversions do: suffixes that are no
subdomains, dots, ports, tabs, blanks, markers.

In `DomainPolicy` a label is a sequence of parts, so that `badex` ends like
`ex` and is another label. The code works on texts: `TrimStart` and `TrimEnd`
are the standard library's, `UrlHost` is what is left of `Url::parse`,
`NormalizeDomainRule` and `DomainMatches` are the functions of that name. The
reference works on labels: `Spellings(domain)` are the texts that stand for a
domain (in either case, with the prefixes and suffixes of the unit test and of
what the normalisation strips, and their combinations), and a host is `Covered`
by rules if one of them spells the host or a domain above it. `Empty` and `Schemes` are
rules that a list may hold and that stand for no domain. Hosts are those of parsed
URLs, in lower case and with no dot at the end, so the trimming and lowering of the host in
`gateway.rs:909-912` has nothing to do in the model; a URL with a dot after its host is not
among the inputs.

`CookieCodec` follows a profile's cookies through any chain of export, import,
injection and fetch; the browser's rule for `__Host-` cookies and its `-1` for
session cookies are external.

### CdpExchange and Identity

One session. `life` and `tries` are `create_session` from the pick of the port
to the end of `wait_for_cdp_endpoint`; `child` and `listener` are the process
and whoever has the port. Each call of `Calls` is one handler that talks to the
browser: navigate, evaluate (or dump), and the injection and fetch of cookies.
`conn[c].todo` is the list of requests it still has to make, of which the first
is on the wire; `Program` writes that list as the code makes the requests one
after the other: attach, the overrides of `ApplyProfileIdentity`, then what the
action is for. Replies are frames with the id of a request; events have none.
`HasReply`, `Skip`, `TakeError`, `TakePoll`, `TakeTarget` and `TakeReply` are
what the handler does with the next frame, `Closed` the end of the connection.
`cached` is `ManagedSession.target_id`: two calls that both find none make two
targets and the last one stored stays.

The browser (`Serve...`, `Load`) is external. It answers `Page.navigate` once
the new document is there, as the wait for the milestone takes for granted.
What may go wrong is named in `Faults` and counted in `mishaps`; an update of
the profile while its session runs and a call that begins during another are
counted there too, so that one instance shows each of them with everything else
in order. `task[c].met` is a history: what happened during the call that the
call knows nothing of, and that its answer therefore cannot be blamed for. The
answers of an evaluation are the page's own affair.

### Events

Each call of `Calls` is a `create_session` or an action on a session in the
map; it emits one event, or two if the created session has cookies to inject.
`Store` and `Send` are the two halves of `emit_event`. `sent` is what was
broadcast since the gateway started, of which the channel keeps the last
`Capacity`; `stream[u].next` is where a receiver stands. `before` and `watch`
remember, for each call, the calls that had been answered and the streams that
were open when it began: the order and the events a client can count on.

## 3. The runs

| run | instance | shows |
|---|---|---|
| `sessions_one` | 1 session, 2 workers, 2 grants, every request and fault | types; one holder per child; the guard is freed on every path; `Sessions` implements `Ownership`; a session failed by a restart stays down; no grant lets in a second connection, also across restarts, and its connection works on its session |
| `sessions_serial` | 3 sessions, quota 2, creates one at a time, 1 worker for closes; failing inserts, children that exit, second starts | no child without a holder; an active row has one; a failed create leaves nothing; exclusive read_write and the quota hold |
| `sessions_progress` | 2 sessions, 1 worker, database errors | every close and every create ends |
| `profiles_overlap` | 2 handlers, 2 sessions, 1 jar, crash, storage errors, disconnects | write-backs never interleave; no file is empty or torn and no cookies the row counts are missing, but for writes under way, cut short or overlapping, until the next write; while `calm`: row and files agree at rest, deletion is complete |
| `config_overlap` | 3 commands, 2 keys, kills | the key is a given one; the default dangles only if set so; a command alone takes effect |
| `domain_policy` | 5 hosts, 3 domains; spellings with every prefix and suffix, at most one rule in each of the four lists | exactly the hosts left open are reached |
| `cookie_codec` | 541 jars of 0 to 2 cookies, values with blanks and tabs | cookies are kept; refusals have a cause; a jar can be injected |
| `cdp_exchange` | a launch and 2 calls of any kind, one mishap or overlap, a bare identity and one with half of its fields | the browser is the child; an abandoned child is killed; navigations and fetches tell the truth; pages see the profile; launch and calls end |
| `events` | 3 calls, 1 stream, a channel of 2, one of: failed insert, failed injection, restart | streams are faithful; answered calls are in the table; a stream that does not lag misses nothing |
| `viol_rw_overlap` | 2 overlapping creates | violated: two read_write sessions on a profile |
| `viol_grant_revives` | mint, close, connect | violated: a closed row becomes attached |
| `viol_second_start` | a session, and the gateway started again while it serves | violated: a row marked failed at a start has a runtime behind it |

Why these bounds are enough. Ownership, the guard and a row concern one
session, and the handlers that compete for it are at most pairwise in
conflict: one session, two workers beside its creator, and two grants so that
one can be used while the other waits, show every pair. The second session is
needed where sessions meet: at the mutex, the quota and the profile; three
sessions are one more than the quota of 2. The bound on the quota is an
instance of `MaxConcurrent` (25 in the code). Three may write a profile at the
same time in `profiles_overlap`, two requests and one close: two are needed to
tear a file, and a third to find it so. Its second session is there for the order
of write-backs. One jar is enough beside no jar, since what was lost, not written
or written from a stale row shows as none. A lost update of the config needs two
processes, a torn file two and a third that reads. `cdp_exchange` has two calls because a cached target, another call's page and
another call's overrides are matters of pairs; `Patience` = 1 polls and
connection attempts tell a deadline that has passed from one that has not
(time may jump over it in one poll); `MaxMishaps` = 1 is a bound: two faults in
one behaviour are not explored. `StealthAsked` is `None` and the default
`TRUE`: stealth only reaches the launch arguments. In `events`, streams share
nothing but the channel, which they do not change, so one is enough; a third
call is needed for three events on a channel of two (`Capacity`, 512 in the
code), and `MaxFaults` = 1 bounds the faults. In the other models nothing
counts, so no bound cuts them short; all state spaces are finite and explored
completely.
Deadlock is not checked where clients may be satisfied and everything is over;
that a handler does not wait for ever is what `CloseEnds` and `CreateEnds` say.

Symmetry is used for safety only (identical sessions, workers, grants,
profiles; never for a constant that appears in an `Init` or a tie-break), not
in the liveness run.

### Fairness

In `Sessions`, `FairSpec` has weak fairness for the steps of a running handler: tokio polls a
runnable task again. Steps that take the `runtimes` mutex have strong fairness,
because tokio's mutex is first-in first-out, so a waiter is not passed over for
ever. A browser that serves answers and a browser that is gone breaks the
connection, both as steps of the handler. There is no fairness for clients, for
faults, or for the end of a proxied conversation. A browser that hangs is left
out of the liveness run, because no timeout in the code bounds that wait: with
the fault `hang`, `CloseEnds` and `CreateEnds` are false, for every session,
since the guard is held meanwhile.

`CdpExchange` has weak fairness for the launching handler, for each call, and
for the browser's answers as long as it is there. That a child binds its port, that
a page ever loads, or that a client asks is not assumed: `LaunchEnds` and
`CallsEnd` hold through the deadlines. `fetch_cookies` after an error reply is the
exception `CallsEnd` makes: it reads on, and no deadline bounds that.

`Events` has weak fairness for the reader of an open stream (its task is polled
and its client reads). Calls need not make progress.

## 4. What is proved

`SessionsProofs` proves, for every number of sessions, workers, grants and
profiles and every set of requests and faults: `TypeCorrect`, `LockHasOwner`,
`ChildHasOneOwner`, `GrantUsedOnce` and `RestartIsFinal`. Assumptions: `None`
is none of the actors, and sessions are not workers (both name lock owners).

`GrantUsedOnce` is about the history `admitted`, which counts the connections
`use_grant` let in with each grant and which no restart resets: at most one, and
one exactly if the grant is marked used. `GrantInv` adds that an idle worker has
no grant, so whoever works with one was let in by it; the proof shows that of all
steps only `ProxyUse` hands a grant to a worker, and that minting and expiry
touch grants that let nobody in.

`OneOwner` is not inductive: nothing in it says why a second handler cannot
take the same session. The invariant `IInv` adds the reasons. `OwnInv`: a
handler keeps the guard exactly while it holds what it removed, so removals are
serial; a session is in the map only after its creator published it, which it
does once; what a reaper holds is not in the map. `RestartInv`: after a crash
no handler and no map entry survives; a row marked failed has no url and
no runtime, and a handler beyond its lookup of either works on a session that
is not failed. From it follows that no step of any handler makes
such a row active again. `RestartIsFinal` alone assumes that no gateway is
started beside one that serves: such a start marks rows whose handlers are at
work, and those write `idle` or `attached` again.

`OwnershipProofs` proves `OwnershipKept`: `Sessions` implements `Ownership`
under the mapping `holderOf`, whatever fails and whatever clients do. The steps
are taken in three groups: those of the creator, those of the workers, and
faults. `ChildInv` is what `IInv` does not say: a session has no child before
its spawn, whoever holds one has launched it, and cookies are saved to a
profile that was named (without the last, a reaper could end by an error nobody
foresaw and lose its child). From the refinement follows `NoChildIsLost`: with
`~MayLose` (no handler is dropped, no database call fails, the process does not
die, no profile is deleted) no step of the abstract specification to `lost` is
one of the code, so `NoOrphan` holds. `viol_` runs and section 5 show what
happens otherwise; the hypothesis is that of `sessions_serial`.

`OwnershipProofs` also proves the four properties of `sessions_serial` under the
condition of that run they need, and under no other. `ActiveRowsOwned` and
`FailedCreatesLeaveNothing` assume `~MayLose` and that clients create and close
only (`OnlyCreateAndClose`: no actions and no grants, as both make rows active
that a close is about to leave). `OneReadWriter` and `QuotaKept` assume that
creates do not overlap and `OnlyCreateAndClose`, but allow every fault, delete
and second start. `CloseInv` says that then only closes run; `InertInv` adds to
the two properties that a failing create has killed its child before it gives
up the row; `SerialInv` and `QuotaInv` that what a create found when it counted
the sessions and looked for another read_write session still holds when it
inserts its row, since the only other steps that write rows make them inactive.

`ConfigFileProofs` proves for every number of commands, keys and policies
`TypeCorrect`, `KeyIsGiven`, `DefaultDanglesBySet` and `LoneCommandTakesEffect`.
The first properties of the file are inductive only together with the same of
every config a process holds in memory: what is written was read before, or made
by a setter of what was read. For the last, `AloneInv` says how far a command
that nothing overlaps has come: the file is empty inside a write and otherwise
what the command found, and what it holds is that, changed in the third round
only. Assumptions: unreadable contents are no configs, and the first file has
no dangling default.

`ProfilesProofs` proves for every number of requests, sessions and jars and
every set of faults `TypeCorrect`, `WriteBacksAlone`, `JarIsKept` and
`FilesAgreeAtRest`. `LockInv`: a session has the guard exactly while its close
is between the map and the kill, so write-backs are serial whatever the
profile's sessions are. `OpenInv`: a file is open exactly between the two steps
of its writer, unless the profile was deleted meanwhile. `JarIsKept` needs
`WholeInv`, for each file of a live profile: while its last write had it to
itself, its one opener finds it empty, and with no opener it holds a jar or was never
written; and while it is absent no row counts cookies, nor does any row that a
handler read and may write back, except for a close that is about to write the file
(it updates the row first). `JarInv` adds that who writes has cookies (a fetch
without any saves nothing) and that files are removed after the row only.
`FilesAgreeAtRest` is about calm histories. `CalmInv`: a writer is alone, so the
profile it found stays. `SettledInv`: with no writer between two of its steps,
row, files and directory agree, and `Holds` says for each place in a writer's
sequence which of them it has brought up to date. Starts and ends of sessions
that do not write keep all this, and so does cutting them short
(`SettledKept`, `CutSettled`). Assumptions: no cookies is not a jar; absent,
empty and torn files are neither jars nor alike; requests, sessions and the free
guard are distinct.

`CdpExchangeProofs` proves for any number of calls and pages, every patience
and every number of mishaps all safety properties of `CdpExchange`. `CoreInv`
holds of a conversation: its remaining requests are the rest of what `Program`
wrote (`Shape`), at most the first of them is on the wire, the ids of frames are
never ahead of the counter, and a frame with the current id answers the request
in hand (`Turn`). So no frame passes for another's answer (`FetchTellsTruth`), and
a launch ends as its own child does (`LaunchSettles`). `NavInv` says how far an
undisturbed navigation has come: once `Page.navigate` is answered the target
shows the page, and nobody takes it away (`MeetInv`: two actions that run at the
same time know of each other, so an undisturbed one is alone). `FaceInv` says
of a call that no update, refusal or other action touches that the overrides it
has still to send are those of the row, and each of the four is in place or
still to be sent. With the order of `Program` this gives `FaceBeforePage`;
`ArgsInv` adds the user agent of the launch. Assumptions: the bounds are
naturals; no page, call or kind is `None`, the defaults of the gateway are none
either, and `Some(identity)` is not `None`.

`CookieCodecProofs` proves for jars of any length and texts of any pieces
`EachHoldsTheCookies`, and from it `CookiesSurvive`, `RefusalsHaveCause` and
`JarsGoIn`. The inductive invariant says that jar, file and browser each hold the
first cookies in a form of their own; a step only changes the form. Most of
the proof is on the Netscape line. `SplitAt` says that a text whose tabs are at
given places splits into what lies between them, `BodyTabs` and its neighbours
where a line has its tabs, and `Stripped` what `str::trim` and the mark of HttpOnly
leave of it. `LineComesBack` puts this together: the parser gives the cookie
without the blanks after its value exactly when the value has a solid piece and no
tab before the last one, and an error otherwise. Inductions over texts are
replaced by a least place where two of them differ (`FlatUnique`). `JarAssumption`
is what the module's jars are: cookies that a browser reported, so names and
domains without blanks and marks, a host in the domain, and `__Host-` cookies that
are secure. A file written by hand may hold others, and nothing is claimed of
it. The other assumptions: numbers are told apart by their digits, and `None` is
no number, no text and no list of cookies.

`EventsProofs` proves for every number of calls and streams, every capacity of
the channel and every number of faults `TypeCorrect`, `AnsweredIsStored` and
`StreamsAreFaithful`. That a stream received its events in order is not
inductive. `StreamInv` says that what is broadcast is in the table and its call
has got past it; `CallInv` that the calls answered before another one are done,
so none of them emits after it. `OrderInv` gives the order: the broadcast is in
order, and everything a stream has received comes before everything from its
position on, which a gap only moves forward. Assumption: the bounds are
naturals and the channel keeps at least one event.

`DomainPolicyProofs` proves for hosts and domains of any number of labels, labels
of any parts, and lists of any number of rules `DeniedStaysOut`,
`PolicyIsKept` and `NothingElseIsRefused`. The state is simple (the lists do not
change, the histories grow by what one navigation decides), so the proof is about
the texts, in three layers. A trim takes off the longest run of its pattern, and
text that neither begins nor ends with it stays (`FrontTrims`, `BackTrims`): so
every spelling of a domain normalises to the domain's text in lower case
(`SpellingNormal`), through the URL or around it, and the rules of `Empty` and
`Schemes` to nothing or to a bare `*` (`EmptyNormal`, `SchemeNormal`), which no host
ends with. `Matching` says that one text ends with a dot and another text
exactly when its labels end with the other's labels: the last dot of both is in
the same place, so the last labels are equal, and a shortest counterexample leads to a
shorter one. With both, `RuleMatches` says that a spelling matches exactly the hosts at or
under its domain, and the lists decide as `Forbidden` does. `DeniedStaysOut` is the deny half
alone and assumes nothing of the other rules in the lists: whatever
else they hold, a spelling in a deny list keeps its domain out. The two
others assume `RuleAssumption`, that each rule is one of a domain's spellings or
of those that stand for none; a text outside of these (`exa mple.com`) has no reading by
labels with which the code could agree. The other assumptions: parts are none of
the marks, hosts and domains have labels and no empty ones (two dots in a row
name no host that resolves), and `None` is no text.

Every safety property of the passing runs, invariant or action property, is thus
stated by a theorem. Only model-checked is liveness (`CloseEnds`, `CreateEnds`,
`LaunchEnds`, `CallsEnd`, `AnsweredIsSeen`), which is outside the prover's reach as
is `ENABLED`; so are the violations of section 5, which are single behaviours.

## 5. Where the code and its documents disagree, and what does not hold

Three runs violate what a document or test of the repository says:

- `README.md:297` "Only one active read-write session is allowed per profile":
  two creates that overlap both pass the check (`viol_rw_overlap`). The quota
  is exceeded in the same way.
- `tests/live_non_proxy_concurrency.rs:491` asserts that closed sessions are
  closed: a grant minted for a closed session sets its row to attached, and the
  failing connection leaves it so (`viol_grant_revives`). An action that is
  overtaken by a close does the same with idle.
- `lib.rs:318` logs "marked stale sessions as failed during startup", and
  `skills/obscura-gateway/references/gateway-troubleshooting.md:44` says "Stored
  sessions are history plus status, not recoverable browser runtimes": a second
  start marks sessions that are neither stale nor history, because the address is
  looked at after the marking. The first gateway goes on serving them although
  their rows count neither for the quota nor for their profile
  (`viol_second_start`).

Four more disagreements are not runs of their own:

- `README.md:27` "Every active browser session is an `obscura serve` child
  process owned by the gateway": a client that disconnects while its create
  waits for the mutex leaves a ready row and a child nobody holds, and so does
  a dropped close. `ActiveOwned` and `NoOrphan` hold in `sessions_serial`, which
  has no disconnects; with them both fail.
- `skills/obscura-cli/references/cdp-proxy-troubleshooting.md:55` says that a
  cookie import needs that "no active session is attached to the profile", and
  the refusal in `gateway.rs:134` says so as well: the import looks for sessions
  and then writes, and a session whose create is past its checks starts in
  between. In `Profiles` such a session leaves a history calm, so
  `ConsistentAtRest` says that the files agree all the same.
- `skills/obscura-cli/references/cdp-proxy-troubleshooting.md:56` hints that a
  profile with active sessions cannot be updated; `update_profile` never looks
  at sessions.
- `skills/obscura-cli/references/cli.md:104` documents `events tail`, which
  collects a response that never ends before it prints it (`lib.rs:682`).

Facts the models brought out that no document denies:

- a close between the insert of a row and the publication of its runtime
  leaves a closed row with a running browser;
- an error after the publication answers the create with an error and leaves
  the session running: `FailedCreateInert` needs that only the insert fails;
- delete checks for active sessions in one call and acts in another, so it may
  run beside a session that starts in between;
- a crash between the writes of a profile leaves row and files apart;
- a crash or a full disk inside `fs::write` leaves an empty or partial JSON file
  on a live profile. Until a close or an import writes it again, it cannot be
  exported, and every `create_session` of the profile answers with an error
  after it has published the session, which goes on running
  (`gateway.rs:288-296`);
- `delete_profile` answers OK although removals failed, and the cookies of a
  profile that no longer exists stay on the disk;
- overlapping config commands undo each other, even commands that only print,
  and a killed one leaves an empty file that no command can read;
- a port is picked, released and given to a child: whoever binds it first is
  taken for the session's browser (`LaunchSettles` needs that nobody did), and
  a child that exited leaves an active session whose calls go to the next owner
  of the port, which answers `fetch_cookies` with its own cookies;
- `Page.navigate` that fails to load is a result with an `errorText` nobody
  reads: the call answers with the page before. Errors of the four overrides
  are ignored as well, and a page then loads with a part of the identity;
- two navigations at once answer with each other's page, and an action that read
  the old identity may override the new one after an update;
- `timeout_secs` is added to an `Instant` unchecked, which panics for a large
  value after the page was navigated;
- a stream that lags drops the report of the gap with the events; an event that
  cannot be stored makes its call fail although its effect stays;
- the rule `example.com:8080` has no host and matches nothing; allow and deny
  lists are compared as texts when a session is created;
- a cookie with an empty value cannot be read back from its Netscape line, and
  a JSON file named `.txt` passes the client's parser and fails the gateway's.

## 6. Not modelled, and the plan

Not modelled, and why:

- HTTP routing, the bearer check, JSON shapes and status codes: they decide
  which handler runs and how its result is spelled, and keep no state; the
  handlers that change state are actions of `Sessions`, `Profiles`, `Events`.
- Reads (status, quotas, lists, artifacts, exports): they change nothing.
- Command line: the identity flags, `cookies import`, the config commands and
  `run` are modelled where they matter; argument parsing and printing are not.
- The installer (download and unpack), the OpenAPI document, packaging: no
  protocol and no state of their own.
- Idle and absolute deadlines of sessions: stored, enforced by no code.
- What a page loads by itself, redirects, and the CDP commands of a proxied
  client: outside the domain policy in the code as in the model. The bytes of a
  proxied conversation are relayed unread.
- Wording and timestamps; `networkidle`, which the code treats as `load`; the
  proxy argument of the launch, looked up and passed on.

Every component that changes state is modelled and every safety property of the
passing runs is proved. The two hazards of `PROJECT.json` without a property have
none because what they describe fails today: a property about `delete_profile`
beside a create, or about a large `timeout_secs`, is worth adding together with a
change of that code.
