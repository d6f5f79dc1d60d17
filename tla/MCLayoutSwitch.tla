--------------------------- MODULE MCLayoutSwitch ---------------------------
(* An instance of LayoutSwitch for TLC.                                    *)
EXTENDS LayoutSwitch

\* A Baseline that records every asset, and one that records no Root.
SomeBindings == {Assets, {"code"}}

\* Two commands with an edit and two stops at one time, or three commands in a row
\* (there, back and there again) with a stop and a passing second.
TwoScenarios == {[plans |-> 2, edits |-> 1, stops |-> 2, ticks |-> 0],
                 [plans |-> 3, edits |-> 0, stops |-> 1, ticks |-> 1]}
=============================================================================
