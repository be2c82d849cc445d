---------------------------- MODULE DomainPolicy ----------------------------
(***************************************************************************)
(* The domain policy of src/gateway.rs: the lists a session is created     *)
(* with, the lists of the config, and the check of every navigation        *)
(* against both.                                                           *)
(*                                                                         *)
(* A text is a sequence of pieces: ".", " ", "*", "https://", ":8080",     *)
(* "/path", and parts of labels, "EX" among them, which is "ex" in         *)
(* capitals.  One piece may continue another, so that <<"bad", "ex">> is a *)
(* label of its own that ends like <<"ex">>.                               *)
(***************************************************************************)
EXTENDS Integers, SequencesExt

CONSTANTS Parts,     \* of labels, in lower case
          Numerals,  \* the parts that begin with a digit
          Domains,   \* domains that rules are written for: sequences of labels
          Policies,  \* [allow, deny]: the lists the config may hold
          Requests,  \* [allow, deny]: the lists create_session may be asked for
          Hosts,     \* hosts of navigation URLs: sequences of labels
          NoHost,    \* stands for the host of about:blank, data: and the like
          None

Marks == {".", " ", "*", "https://", ":8080", "/path", "EX"}
Label == Seq(Parts) \ {<<>>}
Name == Seq(Label) \ {<<>>}

ASSUME PartAssumption == Parts \cap Marks = {} /\ Numerals \subseteq Parts
ASSUME NameAssumption == Hosts \subseteq Name /\ Domains \subseteq Name
ASSUME NoneAssumption == None \notin Seq(Parts \cup Marks)

VARIABLES
  config,  \* default_domain_policy, fixed while the gateway runs
  session, \* the lists of the session's row, None before it is created
  visited, \* history: hosts a navigation went to
  refused  \* history: hosts a navigation was refused for

vars == <<config, session, visited, refused>>

Init ==
  /\ config \in Policies
  /\ session = None
  /\ visited = {} /\ refused = {}

-----------------------------------------------------------------------------
\* trim_start_matches and trim_end_matches remove the pattern as often as it stands there
Runs(t, p) ==
  {n \in 0 .. Len(t) : n % Len(p) = 0 /\ \A i \in 1 .. n : t[i] = p[1 + ((i - 1) % Len(p))]}
TrimStart(t, p) == SubSeq(t, Max(Runs(t, p)) + 1, Len(t))
TrimEnd(t, p) == Reverse(TrimStart(Reverse(t), Reverse(p)))

Lower(t) == [i \in DOMAIN t |-> IF t[i] = "EX" THEN "ex" ELSE t[i]]

\* Url::parse, reduced to its host_str: <<>> for a URL without host, None for no URL.
\* "ex.com:8080" is the path 8080 in the scheme ex.com; a scheme begins with a letter.
Authority(t) ==
  LET end == {i \in DOMAIN t : t[i] \in {":8080", "/path"}}
  IN  IF end = {} THEN t ELSE SubSeq(t, 1, Min(end) - 1)
HasScheme(t) ==
  \E i \in DOMAIN t : /\ t[i] = ":8080" /\ i > 1 /\ t[1] \notin {".", "*"} \cup Numerals
                      /\ \A j \in 1 .. i - 1 : t[j] \notin {"*", "/path", " "}
UrlHost(t) ==
  IF IsPrefix(<<"https://">>, t)
  THEN LET h == Authority(Tail(t)) IN IF h = <<>> \/ " " \in ToSet(h) THEN None ELSE h
  ELSE IF HasScheme(t) THEN <<>> ELSE None

Trimmed(rule) ==
  LET t == TrimEnd(TrimStart(rule, <<" ">>), <<" ">>)
  IN  Lower(TrimEnd(TrimStart(TrimStart(t, <<"*", ".">>), <<".">>), <<".">>))

NormalizeDomainRule_noUrl(rule) == Trimmed(rule)
NormalizeDomainRule(rule) ==
  LET t == Trimmed(rule)
      host == IF UrlHost(t) # None THEN UrlHost(t) ELSE UrlHost(<<"https://">> \o t)
  IN  IF host = None THEN t ELSE Lower(TrimEnd(host, <<".">>))

DomainMatches_anySuffix(host, rule) ==
  LET r == NormalizeDomainRule(rule) IN r # <<>> /\ IsSuffix(r, host)
DomainMatches(host, rule) ==
  LET r == NormalizeDomainRule(rule)
  IN  r # <<>> /\ (host = r \/ IsSuffix(<<".">> \o r, host))

\* The text of a host: its labels, each behind a dot, without the first dot
Points(labels) == FlattenSeq([i \in DOMAIN labels |-> <<".">> \o labels[i]])
Dotted(labels) == Tail(Points(labels))

\* ensure_navigation_allowed, with the two lists of config and session joined
NavigationAllowed(host, allow, deny) ==
  IF host = NoHost THEN allow = {}
  ELSE /\ ~\E rule \in deny : DomainMatches(Dotted(host), rule)
       /\ allow = {} \/ \E rule \in allow : DomainMatches(Dotted(host), rule)

-----------------------------------------------------------------------------
\* A rule text that stands in both lists refuses the session
CreateSession(lists) ==
  /\ session = None
  /\ lists.allow \cap lists.deny = {}
  /\ session' = lists
  /\ UNCHANGED <<config, visited, refused>>

NavigateSession(host) ==
  /\ session # None
  /\ IF NavigationAllowed(host, config.allow \cup session.allow, config.deny \cup session.deny)
     THEN visited' = visited \cup {host} /\ UNCHANGED refused
     ELSE refused' = refused \cup {host} /\ UNCHANGED visited
  /\ UNCHANGED <<config, session>>

Next ==
  \/ \E lists \in Requests : CreateSession(lists)
  \/ \E host \in Hosts \cup {NoHost} : NavigateSession(host)

Spec == Init /\ [][Next]_vars

-----------------------------------------------------------------------------
Upper(t) == [i \in DOMAIN t |-> IF t[i] = "ex" THEN "EX" ELSE t[i]]
Frame(front, text, back) == front \o text \o back

\* The ways to write a rule for a domain: those of the unit test at gateway.rs:1222-1232,
\* what normalize_domain_rule strips besides, and these combined.  A port without scheme is
\* one for an address only.
PlainFrames(text) ==
  {<<>>, <<" ">>, <<".">>, <<"*", ".">>, <<" ", "*", ".">>}
    \X ({<<>>, <<" ">>, <<".">>, <<"/path">>} \cup (IF text[1] \in Numerals THEN {<<":8080">>} ELSE {}))
UrlFrames ==
  {<<"https://">>, <<" ", "https://">>} \X {<<>>, <<"/path">>, <<":8080">>, <<".", ":8080">>}
Spellings(domain) ==
  LET d == Dotted(domain)
  IN  {Frame(f[1], text, f[2]) : f \in PlainFrames(d) \cup UrlFrames, text \in {d, Upper(d)}}

\* Rules that stand for no domain: nothing between the dots, or a port that makes the domain
\* a scheme
Empty == {<<>>, <<".">>, <<" ">>, <<"*">>}
Schemes == {Dotted(d) \o <<":8080">> : d \in {e \in Domains : Head(Head(e)) \notin Numerals}}

ASSUME RuleAssumption ==
  \A lists \in Policies \cup Requests :
    lists.allow \cup lists.deny \subseteq Empty \cup Schemes \cup UNION {Spellings(d) : d \in Domains}

\* host is a domain with a rule or a subdomain of one, label by label
Covered(host, rules) ==
  \E n \in 1 .. Len(host) :
    LET domain == SubSeq(host, n, Len(host)) IN Spellings(domain) \cap rules # {}

Forbidden(host) ==
  LET allow == config.allow \cup session.allow
      deny == config.deny \cup session.deny
  IN  IF host = NoHost THEN allow # {}
      ELSE Covered(host, deny) \/ (allow # {} /\ ~Covered(host, allow))

\* Whatever spelling the rules have, no navigation leaves for a host at or under a denied
\* domain, and with any allow rule only for hosts at or under an allowed one: the session's
\* lists add to the config's and cannot switch a deny rule off (gateway.rs:906-941).
PolicyHolds == \A host \in visited : ~Forbidden(host)

\* A navigation is refused for these reasons only: a sibling that merely ends like a denied
\* domain is reachable, and so is every subdomain of an allowed one.
NoOverblocking == \A host \in refused : Forbidden(host)
=============================================================================
