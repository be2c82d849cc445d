--------------------------- MODULE MCCookieCodec ---------------------------
(***************************************************************************)
(* A small instance of CookieCodec for TLC: every single cookie over a few *)
(* values of each field, values with blanks and tabs in any place, and     *)
(* pairs of cookies, one of which may spoil a file.                        *)
(***************************************************************************)
EXTENDS CookieCodec

Names == {"sid", "__Host-sid"}
Values == BoundedSeq({"v", "space", "tab"}, 2) \cup {<<"v", "tab", "v">>, <<"v", "v", "space">>}
Cookies == {c \in [name : Names, value : Values, domain : {<<".", "d">>, <<"d">>},
                   secure : BOOLEAN, http_only : BOOLEAN, expires : {None, 5}] :
              c.name \in HostNames => c.secure}
Plain == [name |-> "sid", value |-> <<"v">>, domain |-> <<"d">>, secure |-> FALSE,
          http_only |-> FALSE, expires |-> None]
JarsMC == {<<>>} \cup {<<c>> : c \in Cookies}
                 \cup {<<Plain, c>> : c \in {d \in Cookies : d.http_only}}
PiecesMC == Marks \cup {"TRUE", "FALSE", "/", ".", "Netscape", "v", "d"} \cup Names
              \cup {ToString(n) : n \in {-1, 0, 5}}
NumbersMC == {-1, 0, 5}
HostNamesMC == {"__Host-sid"}
=============================================================================
