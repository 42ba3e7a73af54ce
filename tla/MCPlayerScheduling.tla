------------------------- MODULE MCPlayerScheduling -------------------------
(* Values of the constants of PlayerScheduling for TLC.                     *)
EXTENDS PlayerScheduling, TLC

CONSTANTS d1, d2, d3,            \* deployments
          a, b, c, e, g, h,      \* layouts
          v1, v2, t              \* components

AllDeployments == {d1, d2, d3}
AllLayouts == {a, b, c, e, g, h}

\* d1 has a layout on a cron expression among two others; d2 has only such
\* layouts, one of a name that d1 uses; d3 has one layout that never ends.
AllContents == (d1 :> <<a, b, c>>) @@ (d2 :> <<g, h>>) @@ (d3 :> <<e>>)
AllNames == {"A", "B", "C", "E", "G"}
NamesOf == (a :> "A") @@ (b :> "B") @@ (c :> "C") @@ (e :> "E") @@ (g :> "G")
               @@ (h :> "C")
CronLayouts == {c, g, h}
TimedLayouts == {a}
BrokenLayouts == {g}
AllComponents == {v1, v2, t}
Videos == {v1, v2}
AllRegions == (a :> {<<t>>}) @@ (b :> {<<t, v1, v2>>}) @@ (c :> {<<v1>>})
                  @@ (e :> {<<t>>}) @@ (g :> {<<v1>>}) @@ (h :> {<<v1>>})
=============================================================================
