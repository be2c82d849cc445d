----------------------------- MODULE CookieCodec -----------------------------
(***************************************************************************)
(* A profile's cookies on their way through files and browsers:            *)
(* src/cookies.rs writes and parses the two formats, an import passes one  *)
(* parser in the client and one in the gateway, and src/gateway.rs turns   *)
(* cookies into parameters of Storage.setCookies and reads them back from  *)
(* Storage.getCookies.                                                     *)
(*                                                                         *)
(* A text is a sequence of pieces: "tab", "space", "#", "#HttpOnly_", ".", *)
(* or any other, which is not blank.  The path is a piece of every line,   *)
(* and no field of the cookies here.                                       *)
(***************************************************************************)
EXTENDS Integers, SequencesExt

CONSTANTS Pieces,    \* of which texts are made
          Jars,      \* what a profile may hold: sequences of cookies
          HostNames, \* cookie names that begin with __Host-
          Numbers,   \* expiries a text may hold
          None

Cookie == [name : Pieces, value : Seq(Pieces), domain : Seq(Pieces), secure : BOOLEAN,
           http_only : BOOLEAN, expires : {n \in Numbers : n > 0} \cup {None}]

\* What a browser keeps: names and domains without blanks and marks, a domain with a host
\* in it, and __Host- cookies that are secure
Marks == {"tab", "space", "#", "#HttpOnly_"}
BrowserCookie ==
  {c \in Cookie : /\ c.name \notin Marks /\ ToSet(c.domain) \cap Marks = {}
                  /\ ToSet(c.domain) \ {"."} # {}
                  /\ c.name \in HostNames => c.secure}

ASSUME PieceAssumption == Marks \cup {"TRUE", "FALSE", "/", ".", "Netscape"} \subseteq Pieces
ASSUME JarAssumption == Jars \subseteq Seq(BrowserCookie)
ASSUME NoneAssumption == None \notin Numbers /\ None \notin Seq(Cookie) /\ None \notin Seq(Pieces)
\* Numbers are told apart by their digits
ASSUME NumberAssumption ==
  /\ Numbers \subseteq Int /\ 0 \in Numbers
  /\ \A m, n \in Numbers : ToString(m) = ToString(n) => m = n
  /\ \A n \in Numbers : ToString(n) \in Pieces \ Marks

VARIABLES
  jar,     \* the cookies of the profile
  first,   \* history: the jar at first
  file,    \* the file a client exported to: [kind, content, ext], or None
  browser, \* the cookies of the browser of a read_write session, or None
  outcome  \* of the last import or injection: "ok", "refused", or None

vars == <<jar, first, file, browser, outcome>>

Init ==
  /\ jar \in Jars /\ first = jar
  /\ file = None /\ browser = None /\ outcome = None

-----------------------------------------------------------------------------
Map(F(_), s) == [i \in DOMAIN s |-> F(s[i])]

\* str::trim, str::trim_end, and str::split at tabs: one part more than there are tabs
Solid(t) == {i \in DOMAIN t : t[i] \notin {"space", "tab"}}
Trim(t) == IF Solid(t) = {} THEN <<>> ELSE SubSeq(t, Min(Solid(t)), Max(Solid(t)))
TrimEnd(t) == IF Solid(t) = {} THEN <<>> ELSE SubSeq(t, 1, Max(Solid(t)))
Bars(t) == {0, Len(t) + 1} \cup {i \in DOMAIN t : t[i] = "tab"}
Split(t) ==
  LET bar(n) == CHOOSE i \in Bars(t) : Cardinality({j \in Bars(t) : j < i}) = n
  IN  [n \in 1 .. Cardinality(Bars(t)) - 1 |-> SubSeq(t, bar(n - 1) + 1, bar(n) - 1)]

\* An expiry of 0 or below is none
EpochSeconds_any(n) == n
EpochSeconds(n) == IF n \in Numbers /\ n > 0 THEN n ELSE None

Bool(b) == IF b THEN "TRUE" ELSE "FALSE"
Number(n) == ToString(IF n = None THEN 0 ELSE n)

\* One line of export_netscape
NetscapeLine(c) ==
  (IF c.http_only THEN <<"#HttpOnly_">> ELSE <<>>) \o c.domain
    \o <<"tab", Bool(Head(c.domain) = "."), "tab", "/", "tab", Bool(c.secure), "tab",
         Number(c.expires), "tab", c.name, "tab">> \o c.value

\* One line of parse_netscape: a comment or an empty line gives no cookie, None is an error
ParseLine(raw) ==
  LET t == Trim(raw)
      http_only == IsPrefix(<<"#HttpOnly_">>, t)
      line == IF http_only THEN Tail(t) ELSE t
      part == Split(line)
  IN  IF line = <<>> \/ (~http_only /\ Head(line) = "#") THEN <<>>
      ELSE IF Len(part) # 7 THEN None
      ELSE <<[domain |-> part[1], secure |-> part[4] = <<"TRUE">>,
              expires |-> EpochSeconds(CHOOSE n \in Numbers : <<Number(n)>> = part[5]),
              name |-> Head(part[6]), value |-> part[7], http_only |-> http_only]>>

\* The two parsers, None for an error; neither reads what the other's exporter wrote
ParseNetscape(f) ==
  LET cookies == Map(ParseLine, f.content)
  IN  IF f.kind # "netscape" \/ None \in ToSet(cookies) THEN None ELSE FlattenSeq(cookies)
ParseJson(f) ==
  IF f.kind # "json" THEN None
  ELSE Map(LAMBDA c : [c EXCEPT !.expires = EpochSeconds(@)], f.content)

ParseCookies_autoIsJson(f, format) ==
  IF format = "netscape" THEN ParseNetscape(f) ELSE ParseJson(f)
ParseCookies(f, format) ==
  CASE format = "json" -> ParseJson(f)
    [] format = "netscape" -> ParseNetscape(f)
    [] format = "auto" -> IF ParseJson(f) # None THEN ParseJson(f) ELSE ParseNetscape(f)

\* The gateway goes by the name of the file
DetectFormatFromName(ext) ==
  CASE ext = "json" -> "json" [] ext = "txt" -> "netscape" [] OTHER -> "auto"

-----------------------------------------------------------------------------
Header == <<"#", "Netscape">>

\* cookies export, to a file of any name
Export(kind, ext) ==
  /\ file' = [kind |-> kind, ext |-> ext,
              content |-> IF kind = "json" THEN jar
                          ELSE <<Header>> \o Map(NetscapeLine, jar)]
  /\ UNCHANGED <<jar, first, browser, outcome>>

\* cookies import: the client parses by its --format flag and then sends the text and the
\* name; nothing is imported while a session is active on the profile
Import(format) ==
  /\ file # None /\ browser = None
  /\ LET sent == ParseCookies(file, format)
         received == ParseCookies(file, DetectFormatFromName(file.ext))
     IN  IF sent \in {None, <<>>} \/ received \in {None, <<>>}
         THEN outcome' = "refused" /\ UNCHANGED jar
         ELSE outcome' = "ok" /\ jar' = received
  /\ UNCHANGED <<first, file, browser>>

\* cookie_url_for_param: the host of the url, whose scheme follows from secure
HostOf(domain) ==
  SubSeq(domain, SelectInSeq(domain, LAMBDA p : p # "."), Len(domain))

\* cdp_cookie_params: a __Host- cookie goes by its url, any other by its domain
CdpCookieParams_domainOnly(c) ==
  [cookie |-> [c EXCEPT !.domain = <<>>], url |-> None, domain |-> c.domain]
CdpCookieParams(c) ==
  [cookie |-> [c EXCEPT !.domain = <<>>],
   url |-> IF c.name \in HostNames THEN HostOf(c.domain) ELSE None,
   domain |-> IF c.name \in HostNames THEN None ELSE c.domain]

\* The browser: a __Host- cookie must be secure and have no domain attribute; one without
\* expiry is reported with -1
Accepts(p) == p.cookie.name \in HostNames => p.cookie.secure /\ p.domain = None
Stored(p) ==
  [p.cookie EXCEPT !.domain = IF p.domain = None THEN p.url ELSE p.domain,
                   !.expires = IF @ = None THEN -1 ELSE @]

\* create_session on the profile: a refused cookie fails the whole call
InjectCookies ==
  /\ browser = None /\ jar # <<>>
  /\ LET params == Map(CdpCookieParams, jar)
     IN  IF \A p \in ToSet(params) : Accepts(p)
         THEN browser' = Map(Stored, params) /\ outcome' = "ok"
         ELSE outcome' = "refused" /\ UNCHANGED browser
  /\ UNCHANGED <<jar, first, file>>

\* close_session: fetch_cookies and the files of the profile
FetchCookies ==
  /\ browser # None
  /\ jar' = Map(LAMBDA c : [c EXCEPT !.expires = EpochSeconds(@)], browser)
  /\ browser' = None
  /\ UNCHANGED <<first, file, outcome>>

Next ==
  \/ \E kind \in {"json", "netscape"}, ext \in {"json", "txt", "cookies"} : Export(kind, ext)
  \/ \E format \in {"json", "netscape", "auto"} : Import(format)
  \/ InjectCookies
  \/ FetchCookies

Spec == Init /\ [][Next]_vars

-----------------------------------------------------------------------------
\* What must survive: all but the blanks after a value, which str::trim takes with the
\* line's end, and the leading dot of a __Host- cookie, which has no domain attribute
Essence(c) ==
  [c EXCEPT !.value = TrimEnd(@),
            !.domain = IF c.name \in HostNames THEN HostOf(@) ELSE @]

\* However often the cookies of a profile are exported, imported, injected and fetched, none
\* is lost, added or altered: HttpOnly, Secure, expiry, domain and value survive both formats
\* (cookies.rs:22-134, gateway.rs:676-729).
CookiesKept == Map(Essence, jar) = Map(Essence, first)

\* An import of an exported file is refused only if it has no cookie, if the flag or the name of
\* the file names the other format, or for a cookie that has no Netscape line: a value that
\* is blank, or that has a tab before its last solid piece (cookies.rs:14-20, lib.rs:601).
RefusedForCause ==
  [][\A format \in {"json", "netscape", "auto"} : Import(format) /\ outcome' = "refused" =>
       \/ file.content \in {<<>>, <<Header>>}
       \/ {format, DetectFormatFromName(file.ext)} \ {"auto", file.kind} # {}
       \/ file.kind = "netscape" /\ \E c \in ToSet(jar) :
            Solid(c.value) = {} \/ "tab" \in ToSet(Essence(c).value)]_vars

\* A jar is always one that the browser takes as a whole, __Host- cookies included: a
\* create_session on the profile does not fail for its cookies (gateway.rs:676-706).
JarInjectable == [][InjectCookies => outcome' = "ok"]_vars
=============================================================================
