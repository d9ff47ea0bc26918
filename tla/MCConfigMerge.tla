---------------------------- MODULE MCConfigMerge ---------------------------
(* Files about two checks and two hosts.  No definition has an id alone: the *)
(* documents do not say what it means.                                      *)
EXTENDS ConfigMerge

CONSTANTS c1, c2, h1, h2

Plain == [named |-> TRUE, timeout |-> 0, interval |-> {}]
Timed == [named |-> TRUE, timeout |-> 10, interval |-> {"ok"}]

Partial == [id : {c1, c2}, hosts : {<<h1>>, <<h2>>}, body : {Blank}]
Full == [id : {c1}, hosts : {<<>>, <<h1>>}, body : {Plain, Timed}]
        \cup [id : {c2}, hosts : {<<h1, h2>>}, body : {Plain}]

FewDefinitions == Partial \cup Full
FewHosts == {<<h1>>, <<h2>>}
FewSections == {[threshold |-> 2, softFail |-> TRUE], [threshold |-> 0, softFail |-> FALSE]}
=============================================================================
