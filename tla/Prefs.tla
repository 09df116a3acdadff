-------------------------------- MODULE Prefs --------------------------------
(***************************************************************************)
(* How the stage is arranged and what of it the browser remembers            *)
(* (useViewport.ts, viewport.ts, split.ts, useSplit.ts, Viewports.tsx), and   *)
(* the defaults of the room preview (settings.ts, RoomDefaults.tsx).          *)
(*                                                                         *)
(* The arrangement is written as soon as it changes. The camera, which moves  *)
(* sixty times a second, is written by a timer. What is read back may come    *)
(* from an older build, or be spoiled, and is made good.                     *)
(***************************************************************************)
EXTENDS Integers, SequencesExt

CONSTANTS
    WantedColumns, WantedHeights,  \* where a drag or a key may ask for
    Cameras, NoCamera,
    ViewNames, CleanNames,         \* what may be typed as a name, and what is made of it
    FirstViewports, FirstLists,    \* what storage may hold when the page first opens
    MaxViews,                      \* MAX_VIEWPORTS
    FirstLights, Levels,           \* what storage may hold of a level, and where its slider stands
    MaxArranged                    \* bound on what is done to the arrangement

Unset == -1

\* A value that is no number, no flag or half a camera counts as one that is not there.
Usable(raw) ==
    \A f \in DOMAIN raw :
        /\ f \in {"columns", "height"} => raw[f] \in Int
        /\ f \in {"room", "force"} => raw[f] \in BOOLEAN
        /\ f = "camera" => raw[f] \in Cameras \cup {NoCamera}

\* No name is longer than the page and the storage let it be, so that a name that was
\* made clean is clean.
ASSUME PrefsAssumption ==
    /\ WantedColumns \subseteq Int /\ WantedHeights \subseteq Int
    /\ CleanNames \in [ViewNames -> ViewNames] /\ \A n \in ViewNames : CleanNames[CleanNames[n]] = CleanNames[n]
    /\ \A view \in FirstViewports : Usable(view)
    /\ \A list \in FirstLists :
         /\ Len(list) \in Nat /\ DOMAIN list = 1..Len(list)
         /\ \A i \in DOMAIN list : list[i].name \in ViewNames /\ Usable(list[i].viewport)
    /\ MaxViews \in Nat \ {0} /\ MaxArranged \in Nat
    /\ Levels \subseteq 0..100 /\ Unset \notin Levels

VARIABLES
    viewport, savedViews, live, aimed,   \* useViewport: viewport, saved, live.current, camera
    timerSet, grip,                     \* pending.current; the divider being dragged
    storedView, storedList,             \* componium.viewport, componium.viewports
    level, storedLevel,                 \* one row of RoomDefaults
    arranged                            \* a counter
prefVars == <<viewport, savedViews, live, aimed, timerSet, grip, storedView, storedList, level, storedLevel, arranged>>

-----------------------------------------------------------------------------
(* What is made of what was stored *)

Clamped(n, low, high) == Max({low, Min({high, n})})
ColumnsAt(n) == Clamped(n, 2, 10)
HeightAt(px) == Clamped(px, 160, 900)

DefaultViewport == [columns |-> 6, height |-> 300, room |-> TRUE, force |-> TRUE, camera |-> NoCamera]

\* A stored viewport has some of the fields. One without a usable value is one
\* it does not have.
Normalise(raw) ==
    [f \in DOMAIN DefaultViewport |->
        IF f \notin DOMAIN raw THEN DefaultViewport[f]
        ELSE CASE f = "columns" -> ColumnsAt(raw[f])
               [] f = "height" -> HeightAt(raw[f])
               [] OTHER -> raw[f]]

Named(name, v) == [name |-> name, viewport |-> v]
NamesIn(list) == {list[i].name : i \in DOMAIN list}

\* Nameless entries, the second of a name and what is past the limit are dropped.
NormaliseList(raw) ==
    LET named(i) == Named(CleanNames[raw[i].name], Normalise(raw[i].viewport))
        out[i \in 0..Len(raw)] ==
            IF i = 0 THEN <<>>
            ELSE IF named(i).name \in {""} \cup NamesIn(out[i - 1]) \/ Len(out[i - 1]) >= MaxViews
                 THEN out[i - 1] ELSE Append(out[i - 1], named(i))
    IN out[Len(raw)]

\* One of that name is replaced; a full list is left as it is.
Put(list, name, v) ==
    IF name \in NamesIn(list) THEN [i \in DOMAIN list |-> IF list[i].name = name THEN Named(name, v) ELSE list[i]]
    ELSE IF Len(list) >= MaxViews THEN list
    ELSE Append(list, Named(name, v))
Dropped(list, name) ==
    LET out[i \in 0..Len(list)] ==
            IF i = 0 THEN <<>>
            ELSE IF list[i].name = name THEN out[i - 1] ELSE Append(out[i - 1], list[i])
    IN out[Len(list)]

SettingOf(raw) == IF raw \in 0..100 THEN raw ELSE 15

-----------------------------------------------------------------------------
(* The page *)

Live(v, camera) == [v EXCEPT !.camera = camera]
Acts == arranged < MaxArranged /\ arranged' = arranged + 1

\* The page opens, or is opened again: what is shown is what was stored, and is
\* stored as it is shown. A timer of the page before is gone.
OpensWith(view, list, stored) ==
    /\ viewport' = Normalise(view) /\ live' = viewport'.camera /\ aimed' = viewport'.camera
    /\ savedViews' = NormaliseList(list)
    /\ storedView' = viewport' /\ storedList' = savedViews'
    /\ level' = SettingOf(stored) /\ storedLevel' = stored
    /\ timerSet' = FALSE /\ grip' = ""
Reopen == Acts /\ OpensWith(storedView, storedList, storedLevel)

Arrange(v) ==
    /\ Acts /\ viewport' = v /\ storedView' = Live(v, live)
    /\ UNCHANGED <<savedViews, live, aimed, timerSet, storedList, level, storedLevel>>
SetColumns(n) == Arrange([viewport EXCEPT !.columns = ColumnsAt(n)])
SetHeight(px) == Arrange([viewport EXCEPT !.height = HeightAt(px)])

ShowOrHide == /\ \E on \in BOOLEAN : \/ Arrange([viewport EXCEPT !.room = on])
                                     \/ Arrange([viewport EXCEPT !.force = on])
              /\ UNCHANGED grip

\* A divider is taken, moved and let go of; the one between the picture and the
\* room is there when the room is.
TakeDivider == /\ grip = "" /\ arranged < MaxArranged
               /\ grip' \in {"height"} \cup (IF viewport.room THEN {"columns"} ELSE {})
               /\ UNCHANGED <<viewport, savedViews, live, aimed, timerSet, storedView, storedList,
                              level, storedLevel, arranged>>
DragDivider == /\ \/ grip = "columns" /\ \E n \in WantedColumns : SetColumns(n)
                  \/ grip = "height" /\ \E px \in WantedHeights : SetHeight(px)
               /\ UNCHANGED grip
LetGo == /\ grip # "" /\ grip' = ""
         /\ UNCHANGED <<viewport, savedViews, live, aimed, timerSet, storedView, storedList,
                        level, storedLevel, arranged>>

\* Arrows move a divider by a step, Home and End to its ends.
DividerKey ==
    /\ \/ viewport.room /\ \E n \in {viewport.columns - 1, viewport.columns + 1, 2, 10} : SetColumns(n)
       \/ \E px \in {viewport.height - 20, viewport.height + 20, 160, 900} : SetHeight(px)
    /\ UNCHANGED grip

\* The room reports where its camera is, moved by hand or because it was told to.
OnCamera ==
    /\ Acts /\ viewport.room
    /\ live' \in Cameras /\ timerSet' = TRUE
    /\ UNCHANGED <<viewport, savedViews, aimed, grip, storedView, storedList, level, storedLevel>>

\* Mutation: the timer writes the arrangement its callback was made with.
TimerWritesTheFirst ==
    /\ timerSet /\ timerSet' = FALSE
    /\ storedView' = Live(DefaultViewport, live)
    /\ UNCHANGED <<viewport, savedViews, live, aimed, grip, storedList, level, storedLevel, arranged>>
\* What is stored by now is read again, and only its camera changed.
TimerFires ==
    /\ timerSet /\ timerSet' = FALSE
    /\ storedView' = Live(Normalise(storedView), live)
    /\ UNCHANGED <<viewport, savedViews, live, aimed, grip, storedList, level, storedLevel, arranged>>

Lists(list) ==
    /\ Acts /\ savedViews' = list /\ storedList' = list
    /\ UNCHANGED <<viewport, live, aimed, timerSet, grip, storedView, level, storedLevel>>
Full(name) == Len(savedViews) >= MaxViews /\ name \notin NamesIn(savedViews)
SaveView ==
    \E typed \in ViewNames :
       LET name == CleanNames[typed] IN
       name # "" /\ ~Full(name) /\ Lists(Put(savedViews, name, Live(viewport, live)))
RemoveView == \E name \in NamesIn(savedViews) : Lists(Dropped(savedViews, name))

\* The room is told of the camera; where it is is left to it.
ApplyView ==
    /\ Acts
    /\ \E i \in DOMAIN savedViews :
         LET v == savedViews[i].viewport IN
         /\ viewport' = v /\ storedView' = Live(v, live)
         /\ aimed' = IF v.camera = NoCamera THEN aimed ELSE v.camera
    /\ UNCHANGED <<savedViews, live, timerSet, grip, storedList, level, storedLevel>>

\* Back to the default, by its button, by a double click or by Enter on a divider.
ResetViewport ==
    /\ Acts /\ viewport' = DefaultViewport /\ aimed' = NoCamera /\ live' = NoCamera
    /\ storedView' = DefaultViewport
    /\ UNCHANGED <<savedViews, timerSet, grip, storedList, level, storedLevel>>

\* RoomDefaults
SetLevel ==
    /\ Acts
    /\ \/ \E n \in Levels : level' = n /\ storedLevel' = n
       \/ level # SettingOf(Unset) /\ level' = SettingOf(Unset) /\ storedLevel' = Unset
    /\ UNCHANGED <<viewport, savedViews, live, aimed, timerSet, grip, storedView, storedList>>

PrefInit ==
    \E view \in FirstViewports, list \in FirstLists, stored \in FirstLights :
       /\ viewport = Normalise(view) /\ live = viewport.camera /\ aimed = viewport.camera
       /\ savedViews = NormaliseList(list)
       /\ storedView = viewport /\ storedList = savedViews
       /\ level = SettingOf(stored) /\ storedLevel = stored
       /\ timerSet = FALSE /\ grip = "" /\ arranged = 0

PrefNext == \/ ShowOrHide \/ TakeDivider \/ DragDivider \/ LetGo \/ DividerKey
            \/ OnCamera \/ TimerFires \/ SaveView \/ RemoveView \/ ApplyView
            \/ ResetViewport \/ SetLevel \/ Reopen

\* Opened at any moment the page would be arranged as it is: the panes, the
\* saved arrangements and the level of the room, and the camera too unless it
\* has just been moved and the timer is about to write it.
ReopensAsArranged ==
    /\ Live(Normalise(storedView), NoCamera) = Live(viewport, NoCamera)
    /\ ~timerSet => Normalise(storedView).camera = live
    /\ NormaliseList(storedList) = savedViews
    /\ SettingOf(storedLevel) = level
=============================================================================
