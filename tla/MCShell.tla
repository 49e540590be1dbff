------------------------------- MODULE MCShell -------------------------------
(* What the DLL runs inside Explorer, dllhost and prevhost, in one instance   *)
(* for TLC: the lifetime of the module, the preview pane, the context menu,   *)
(* the thumbnail source and the block stream.  They share no state, so each   *)
(* behaviour runs one part, chosen at the start, and the others stay at one   *)
(* initial state; what TLC explores is their union, not their product.        *)
EXTENDS ModuleLifetime, PreviewPane, Menu, ThumbSource, BlockStream

VARIABLE part

Parts == {"lifetime", "pane", "menu", "thumb", "block"}

-----------------------------------------------------------------------------
(* Two objects and three workers: enough for two capped workers of one kind   *)
(* to compete with an uncapped one, and for an object to go while another     *)
(* object's worker runs.                                                      *)
MCCap == [kd \in CappedKinds |-> IF kd = "menu" THEN 2 ELSE 1]

\* A JPEG, another picture, a song and a file that is none of these.
CONSTANTS j, k, a, x
MCClass == [f \in MenuFiles |-> CASE f = j -> "jpeg" [] f = k -> "image" [] f = a -> "audio" [] f = x -> "other"]
MCSelections == {{j}, {a}, {x}, {j, k}, {a, x}}

\* No saved order, a short one, and one with unknown, repeated and misplaced tokens.
MCOrders == {<<>>, <<"pick_color", "resize">>,
             <<"--", "pick_color", "--", "--", "gone", "pick_color", "settings", "rename", "--">>}
MCHidden == {{}, {"convert_into"}, {"pick_color", "rename"}}
MCStarts == {
    [on |-> TRUE, all |-> FALSE, mode |-> 1, quick |-> FALSE, hidden |-> {}, order |-> <<>>],
    [on |-> TRUE, all |-> TRUE, mode |-> 2, quick |-> TRUE, hidden |-> {"pick_color", "rename"},
     order |-> <<"pick_color", "resize">>]}

MCHeads == {"video", "ogg", "audio", "exr", "archive", "rar", "7z", "preview", "raw", "plain"}

-----------------------------------------------------------------------------
(* The parts that do not run *)

lifetimeVars == vars
MenuAtRest == MenuInit /\ stored = [on |-> TRUE, all |-> FALSE, mode |-> 1, quick |-> FALSE,
                                    hidden |-> {}, order |-> <<>>]

ShellInit ==
    /\ part \in Parts
    /\ Init /\ PaneInit /\ ThumbInit /\ BlockInit
    /\ IF part = "menu" THEN MenuInit ELSE MenuAtRest

LifetimeRuns == part = "lifetime" /\ Next /\ UNCHANGED <<part, paneVars, menuVars, thumbVars, blockVars>>
PaneRuns == part = "pane" /\ PaneNext /\ UNCHANGED <<part, lifetimeVars, menuVars, thumbVars, blockVars>>
MenuRuns == part = "menu" /\ MenuNext /\ UNCHANGED <<part, lifetimeVars, paneVars, thumbVars, blockVars>>
ThumbRuns == part = "thumb" /\ ThumbNext /\ UNCHANGED <<part, lifetimeVars, paneVars, menuVars, blockVars>>
BlockRuns == part = "block" /\ BlockNext /\ UNCHANGED <<part, lifetimeVars, paneVars, menuVars, thumbVars>>

ShellNext == LifetimeRuns \/ PaneRuns \/ MenuRuns \/ ThumbRuns \/ BlockRuns

shellVars == <<part, lifetimeVars, paneVars, menuVars, thumbVars, blockVars>>

\* Nothing a thread does is enabled in a part at rest, so each part's fairness speaks of
\* its own behaviours only.
ShellSpec == ShellInit /\ [][ShellNext]_shellVars /\ LifetimeFairness /\ PaneFairness
=============================================================================
