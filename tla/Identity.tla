------------------------------ MODULE Identity ------------------------------
(***************************************************************************)
(* How a profile's identity becomes what a browser shows: the flags of the *)
(* command line (src/lib.rs), the defaults of the gateway, the arguments   *)
(* of `obscura serve' and the CDP overrides of every action                *)
(* (src/gateway.rs).                                                       *)
(*                                                                         *)
(* None is an absent Option.  A user agent, a language or a time zone is   *)
(* any value; a viewport is a record.                                      *)
(***************************************************************************)
EXTENDS Sequences

CONSTANTS Default,  \* the fields of default_macos_chrome_identity that are constants
          None

Or(a, b) == IF a # None THEN a ELSE b

Fields == {"user_agent", "accept_language", "timezone", "viewport"}

ASSUME DefaultAssumption == \A f \in Fields : Default[f] # None
AllFields == Fields \cup {"stealth", "proxy_affinity"}

\* Only half of a size is an error; a screen without a viewport is dropped
BuildProfileIdentity(o) ==
  IF \/ (o.width = None) # (o.height = None)
     \/ (o.screen_width = None) # (o.screen_height = None)
  THEN None
  ELSE [f \in AllFields |->
          IF f # "viewport" THEN o[f]
          ELSE IF o.width = None THEN None
          ELSE [width |-> o.width, height |-> o.height,
                screen_width |-> o.screen_width, screen_height |-> o.screen_height]]

\* A patch without any flag leaves the identity alone, with one it replaces it as a whole
PatchedIdentity(o, current) ==
  IF \A f \in DOMAIN o : o[f] = None THEN current ELSE BuildProfileIdentity(o)

-----------------------------------------------------------------------------
ResolveStealth(session, identity, default) ==
  Or(session, Or(IF identity = None THEN None ELSE identity.stealth, default))

ResolveEffectiveIdentity_noDefaults(identity, default) == identity
ResolveEffectiveIdentity(identity, default) ==
  IF identity = None THEN None
  ELSE [f \in AllFields |->
          CASE f \in Fields -> Or(identity[f], Default[f])
            [] f = "stealth" -> Or(identity[f], default)
            [] f = "proxy_affinity" -> identity[f]]

\* append_obscura_launch_args
LaunchArgs_rowOnly(stealth, identity) == [stealth |-> stealth, user_agent |-> None]
LaunchArgs(stealth, identity) ==
  [stealth |-> stealth, user_agent |-> IF identity = None THEN None ELSE identity.user_agent]

\* The requests of apply_profile_identity_to_connection
OverrideMethods == {"setUserAgentOverride", "setExtraHTTPHeaders", "setTimezoneOverride",
                    "setDeviceMetricsOverride"}
FieldsOf(method) ==
  CASE method = "setUserAgentOverride" -> {"user_agent", "accept_language"}
    [] method = "setExtraHTTPHeaders" -> {"accept_language"}
    [] method = "setTimezoneOverride" -> {"timezone"}
    [] method = "setDeviceMetricsOverride" -> {"viewport"}

Metrics(v) == [v EXCEPT !.screen_width = Or(@, v.width), !.screen_height = Or(@, v.height)]

Params(identity, method) ==
  [f \in {g \in FieldsOf(method) : identity[g] # None} |->
     IF f = "viewport" THEN Metrics(identity[f]) ELSE identity[f]]

Override(identity, method) ==
  LET params == Params(identity, method)
  IN  IF DOMAIN params = {} THEN <<>> ELSE <<[method |-> method, params |-> params]>>

ApplyProfileIdentity(identity) ==
  IF identity = None THEN <<>>
  ELSE Override(identity, "setUserAgentOverride") \o Override(identity, "setExtraHTTPHeaders")
       \o Override(identity, "setTimezoneOverride") \o Override(identity, "setDeviceMetricsOverride")
=============================================================================
