------------------------------ MODULE TurnToolsMC ------------------------------
(***************************************************************************)
(* The instance of TurnTools that is model-checked.                        *)
(***************************************************************************)
EXTENDS TurnTools

Text(slot, value, words, size, corrects) ==
    [slot |-> slot, value |-> value, words |-> words, size |-> size, corrects |-> corrects]

\* Two names, a note, and a correction of it that is longer; the second name corrects too.
ToolTexts ==
    {Text("name", "Li", {"call", "me", "Li"}, 10, FALSE),
     Text("name", "Yang", {"call", "me", "Yang"}, 12, TRUE),
     Text(NoSlot, "", {"the", "key"}, 8, FALSE),
     Text(NoSlot, "", {"the", "key", "instead"}, 16, TRUE)}

=============================================================================
