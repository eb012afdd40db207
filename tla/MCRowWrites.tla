---------------------------- MODULE MCRowWrites -----------------------------
(***************************************************************************)
(* Two calls to one row of a flag and a text, addressed by its key.  The   *)
(* first call's operation verifies both columns, the second's endpoint     *)
(* reports only the text and its operation verifies only that, and its     *)
(* echo may be stale.  "yes" is a text of its own and spells a boolean.    *)
(***************************************************************************)
EXTENDS RowWrites

CONSTANTS c1, c2, blocked, alias, key, other, yes, word, on, off

MCCalls == {c1, c2}
MCFields == {blocked, alias, key}
MCKey == {key}
MCUnknown == {other}
MCValues == {yes, word, on, off}

MCFlags == {blocked}
MCNullable == {alias}
MCTypes ==
    [f \in MCFields |->
        IF f = blocked THEN {on, off} ELSE IF f = alias THEN {yes, word} ELSE {word}]
MCSpelled == [v \in MCValues |-> IF v = yes THEN on ELSE v]

MCStale == {c2}
MCEchoes == [c \in MCCalls |-> IF c = c1 THEN {blocked, alias} ELSE {alias}]
MCCovers == [c \in MCCalls |-> IF c = c1 THEN {blocked, alias} ELSE {alias}]
=============================================================================
