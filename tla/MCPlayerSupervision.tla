------------------------- MODULE MCPlayerSupervision -------------------------
(* Values of the constants of PlayerSupervision for TLC: r is of any        *)
(* type, f and g are reconfigurations.                                      *)
EXTENDS PlayerSupervision, TLC
CONSTANTS r, f, g, k, l, x
RestartAndReconfigure == {r, f}
TwoReconfigurations == {f, g}
TypesOfAll ==
    [a \in Actions |-> IF a = r THEN Kinds ELSE {"reconfigure"}]
Setting(name, n) == [field |-> name, value |-> n]
\* f makes room for a dump with every heartbeat, until the division by zero;
\* r has the heartbeat thread die.
SettingsOfAll ==
    [a \in Actions |->
        IF a = f THEN {Setting("communicationInterval", 0),
                       Setting("screendumpInterval", 1)}
        ELSE IF a = r THEN {Setting("communicationInterval", -1)} ELSE {}]
LinesOfAll == [a \in Actions |-> IF a = f THEN {k, x} ELSE IF a = g THEN {l} ELSE {}]
MalformedLines == {x}
=============================================================================
