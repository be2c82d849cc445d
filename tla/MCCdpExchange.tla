--------------------------- MODULE MCCdpExchange ---------------------------
(***************************************************************************)
(* A small instance of CdpExchange for TLC: two calls on one session, a    *)
(* profile without an identity of its own and one with half of it.         *)
(***************************************************************************)
EXTENDS CdpExchange

Screen == [width |-> 1, height |-> 1, screen_width |-> 1, screen_height |-> 1]
DefaultMC == [user_agent |-> "chrome", accept_language |-> "en", timezone |-> "utc",
              viewport |-> Screen]

OptionNames == (AllFields \ {"viewport"}) \cup {"width", "height", "screen_width", "screen_height"}
Bare == [o \in OptionNames |-> None]
OptionsMC == {Bare, [Bare EXCEPT !.user_agent = "own", !.width = 2, !.height = 2]}
StealthMC == {None}
=============================================================================
