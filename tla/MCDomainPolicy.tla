-------------------------- MODULE MCDomainPolicy --------------------------
(***************************************************************************)
(* A small instance of DomainPolicy for TLC: spellings of rules for three  *)
(* domains that use every prefix and suffix, in each of the four lists,    *)
(* and rules that look like one and match nothing.                         *)
(***************************************************************************)
EXTENDS DomainPolicy

Ex == <<"ex">>
Com == <<"com">>
PartsMC == {"www", "bad", "ex", "com", "127", "0"}
NumeralsMC == {"127", "0"}
DomainsMC == {<<Ex, Com>>, <<Com>>, <<<<"127">>, <<"0">>>>}
HostsMC == {<<Com>>, <<Ex, Com>>, <<<<"www">>, Ex, Com>>, <<<<"bad", "ex">>, Com>>,
            <<<<"127">>, <<"0">>>>}

Spelled == {<<"ex", ".", "com">>, <<"EX", ".", "com", " ">>, <<" ", "*", ".", "ex", ".", "com">>,
            <<".", "ex", ".", "com", ".">>, <<"*", ".", "EX", ".", "com", "/path">>,
            <<"https://", "ex", ".", "com", ".", ":8080">>,
            <<" ", "https://", "EX", ".", "com", "/path">>,
            <<"127", ".", "0", ":8080">>, <<"com">>}
Texts == Spelled \cup Empty \cup Schemes

Up(Set) == {{}} \cup {{text} : text \in Set}

PoliciesMC == [allow : Up(Texts \ {<<"com">>}),
               deny : Up({<<"ex", ".", "com">>, <<"*", ".", "com">>})]
RequestsMC == [allow : Up({<<"com">>, <<"ex", ".", "com">>}), deny : Up(Texts)]
=============================================================================
