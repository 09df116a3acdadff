------------------------------- MODULE Console -------------------------------
(***************************************************************************)
(* The pages beside the timeline, one of which is open: the library with its  *)
(* queue, its list, what the model saw and the trim of the lights; the        *)
(* administration; how the stage is arranged. They share no state, and only   *)
(* the one that is open takes a step.                                       *)
(***************************************************************************)
EXTENDS Library, Admin, Prefs

VARIABLE tab
vars == <<jobVars, browseVars, visionVars, trimVars, rigVars, boardVars, userVars, gateVars, prefVars, tab>>

Tabs == {"library", "list", "vision", "trim", "rigs", "boards", "users", "analysis", "stage"}

\* A page that is not open is as it begins, in one of the ways it may.
Init ==
    /\ tab \in Tabs
    /\ JobInit /\ BrowseInit /\ (tab # "list" => size = Min(Sizes))
    /\ VisionInit /\ TrimInit /\ (tab # "trim" => trimmed = trims)
    /\ RigInit /\ (tab # "rigs" => chosen = 0 /\ rigPage.at = "devices")
    /\ BoardInit /\ (tab # "boards" => kept = <<>> /\ wired = [b \in Boards |-> Bare])
    /\ UserInit
    /\ GateInit /\ (tab # "analysis" => gate = Min(Gates))
    /\ PrefInit /\ (tab # "stage" => viewport = DefaultViewport /\ savedViews = <<>> /\ storedLevel = Unset)

\* A step of one page is a step of no other.
Next ==
    /\ UNCHANGED tab
    /\ \/ /\ tab = "library" /\ JobNext
          /\ UNCHANGED <<browseVars, visionVars, trimVars, rigVars, boardVars, userVars, gateVars, prefVars>>
       \/ /\ tab = "list" /\ BrowseNext
          /\ UNCHANGED <<jobVars, visionVars, trimVars, rigVars, boardVars, userVars, gateVars, prefVars>>
       \/ /\ tab = "vision" /\ VisionNext
          /\ UNCHANGED <<jobVars, browseVars, trimVars, rigVars, boardVars, userVars, gateVars, prefVars>>
       \/ /\ tab = "trim" /\ TrimNext
          /\ UNCHANGED <<jobVars, browseVars, visionVars, rigVars, boardVars, userVars, gateVars, prefVars>>
       \/ /\ tab = "rigs" /\ RigNext
          /\ UNCHANGED <<jobVars, browseVars, visionVars, trimVars, boardVars, userVars, gateVars, prefVars>>
       \/ /\ tab = "boards" /\ BoardNext
          /\ UNCHANGED <<jobVars, browseVars, visionVars, trimVars, rigVars, userVars, gateVars, prefVars>>
       \/ /\ tab = "users" /\ UserNext
          /\ UNCHANGED <<jobVars, browseVars, visionVars, trimVars, rigVars, boardVars, gateVars, prefVars>>
       \/ /\ tab = "analysis" /\ GateNext
          /\ UNCHANGED <<jobVars, browseVars, visionVars, trimVars, rigVars, boardVars, userVars, prefVars>>
       \/ /\ tab = "stage" /\ PrefNext
          /\ UNCHANGED <<jobVars, browseVars, visionVars, trimVars, rigVars, boardVars, userVars, gateVars>>

\* The studio works through its queue, the timer of the page fires, and a list
\* that was asked for arrives.
Spec ==
    /\ Init /\ [][Next]_vars
    /\ WF_jobVars(tab = "library" /\ Works) /\ WF_jobVars(tab = "library" /\ Tick)
    /\ WF_jobVars(tab = "library" /\ \E k \in DOMAIN asks : ServeList(k) \/ ReceiveList(k))
=============================================================================
