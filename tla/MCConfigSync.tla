---------------------------- MODULE MCConfigSync ----------------------------
(* One or two requests beside the engine, and a file that may change between *)
(* two starts.                                                              *)
EXTENDS ConfigSync

CONSTANTS h1, h2, c1

On == [enabled |-> TRUE]
Off == [enabled |-> FALSE]

Of(S) == [hosts |-> S, enabled |-> TRUE]

\* The file before and after an edit: host and check are removed.
Before == [hosts |-> [h \in {h1} |-> On], checks |-> [c \in {c1} |-> Of({h1})]]

Nothing == [hosts |-> [h \in {} |-> h], checks |-> [c \in {} |-> c]]

BothFiles == {Before, Nothing}
OneFile == {Before}

AnyHost == {On, Off}
OneHostChecks == {Of({}), Of({h1})}
AnyCheck == {Of({h1}), Of({h2})}
=============================================================================
