------------------------------ MODULE Editing ------------------------------
(***************************************************************************)
(* The score editor of the studio's page: the undo stack (core/history.ts), *)
(* the operations of menus and keys (core/edits.ts, ui/menuItems.ts), the   *)
(* gestures of the pointer (ui/useEditing.ts) and the typed fields          *)
(* (ui/Inspector.tsx).                                                      *)
(*                                                                         *)
(* Cues and points are objects: commands refer to their identity and the    *)
(* document says where each is.  A point has one channel.  A selection, a   *)
(* clipboard and where the pointer snaps are any there can be.             *)
(***************************************************************************)
EXTENDS Integers, FiniteSets, SequencesExt

CONSTANTS
    Cues, Points,            \* objects there are and that may be made
    CueTracks, CurveTracks,
    Instrument,              \* of each track
    Rig,                     \* the instruments of the rig
    First,                   \* the document that was opened
    Duration, MaxTime,       \* the film's length; times some edits reach past it
    MaxLevel,
    MinLength, MinPiece,     \* what a drag, and a split, may not go below
    DefaultLength, Gap,      \* a span made of an instant; a first segment
    NoThing,
    Keep,                    \* an attribute a command leaves alone; the time of what is not made
    Places,                  \* bound on where the playhead is, and clicks
    MaxSelected,             \* bound on the things selected at once
    MaxEdits                 \* bound on the entries pushed

Things == Cues \cup Points
Tracks == CueTracks \cup CurveTracks
Times == 0..MaxTime
Levels == 0..MaxLevel

ASSUME EditingAssumption ==
    /\ Cues \cap Points = {} /\ CueTracks \cap CurveTracks = {} /\ IsFiniteSet(Things)
    /\ NoThing \notin Things /\ Keep \notin Int
    /\ Duration \in Nat /\ MaxTime \in Nat /\ Duration <= MaxTime
    /\ MaxLevel \in Nat /\ MinLength \in Nat /\ MinPiece \in Nat
    /\ DefaultLength \in Nat /\ Gap \in Nat \ {0}
    /\ Places \subseteq 0..Duration /\ MaxSelected \in Nat /\ MaxEdits \in Nat

\* What the server sends has been read as a score: each track is there once, nothing
\* is on two of them, each is in time order, and no curve is a single point
\* (internal/score/score.go). What lasts less than nothing is taken for an instant
\* (core/score.ts isSpan, cueEnd).
ASSUME FirstAssumption ==
    /\ First \in [tracks : Seq(Tracks), on : [Tracks -> Seq(Things)],
                 t : [Things -> Int \cup {Keep}],
                 size : [Things -> Nat], level : [Things -> Int]]
    /\ \A i, j \in DOMAIN First.tracks : First.tracks[i] = First.tracks[j] => i = j
    /\ \A k \in Tracks :
        LET s == First.on[k]
        IN /\ \A i \in DOMAIN s : First.t[s[i]] \in Int
           /\ \A i, j \in DOMAIN s : i < j => s[i] # s[j] /\ First.t[s[i]] <= First.t[s[j]]
           /\ \A j \in Tracks \ {k} : ToSet(s) \cap ToSet(First.on[j]) = {}
           /\ k \in CurveTracks => Len(s) # 1

VARIABLES
    doc,     \* the score: tracks, what is on each, and each thing's attributes
    past,    \* the undo stack, and the entries taken back
    future,
    key,     \* of the gesture whose entry is on top of past
    drag,    \* the gesture under way, with what was read when it began
    focus,   \* what the inspector speaks of: a row's number and a thing
    pasted,  \* points the clipboard put there
    astray,  \* the inspector has written by way of another track
    edits

vars == <<doc, past, future, key, drag, focus, pasted, astray, edits>>

NoKey == "none"
NoDrag == [part |-> "none"]
NoFocus == [row |-> 0, thing |-> NoThing]

Clamp(x, lo, hi) == IF x < lo THEN lo ELSE IF x > hi THEN hi ELSE x
Larger(a, b) == IF a > b THEN a ELSE b

On(d, k) == ToSet(d.on[k])
Shown(d) == UNION {On(d, d.tracks[i]) : i \in DOMAIN d.tracks}
IsSpan(d, x) == d.size[x] > 0
CueEnd(d, x) == d.t[x] + d.size[x]
Unmade == {x \in Things : doc.t[x] = Keep}

-----------------------------------------------------------------------------
(* The document and its commands *)

\* Mutation: a track is left as it was written.
NotNormalised(t, s) == s
\* In time order; what is at the same time stays in the order it was in.
Normalise(t, s) ==
    LET later(r, x) == {j \in DOMAIN r : t[r[j]] > t[x]}
        insert(r, x) == InsertAt(r, IF later(r, x) = {} THEN Len(r) + 1 ELSE Min(later(r, x)), x)
        sorted[i \in 0..Len(s)] == IF i = 0 THEN <<>> ELSE insert(sorted[i - 1], s[i])
    IN sorted[Len(s)]

\* What of a sequence is in a set, in its order.
Among(s, S) ==
    LET among[i \in 0..Len(s)] ==
            IF i = 0 THEN <<>>
            ELSE IF s[i] \in S THEN Append(among[i - 1], s[i]) ELSE among[i - 1]
    IN among[Len(s)]

\* Some attributes of some things, the others kept.
Put(d, values) ==
    LET put(f, field) == [x \in Things |->
            IF x \in DOMAIN values /\ values[x][field] # Keep
            THEN values[x][field] ELSE f[x]]
    IN [d EXCEPT !.t = put(@, "t"), !.size = put(@, "size"), !.level = put(@, "level")]

\* A change of length sorts nothing; a change of time sorts the track named.
Set(d, c, values) ==
    LET e == Put(d, values)
    IN IF c.k = "resizeCues" THEN e
       ELSE [e EXCEPT !.on[c.track] = Normalise(e.t, @)]

PutOn(d, c) == [d EXCEPT !.on[c.track] = Normalise(d.t, @ \o c.things)]
TakeOff(d, c) == [d EXCEPT !.on[c.track] = Among(@, Things \ ToSet(c.things))]
AddLast(d, c) == [d EXCEPT !.tracks = Append(@, c.track)]
TakeOut(d, c) == [d EXCEPT !.tracks = Among(@, Tracks \ {c.track})]
\* Mutation: a track comes back on the end.
PutBackLast(d, c) == AddLast(d, c)

\* Where it was, or last when there are fewer now.
PutBack(d, c) ==
    [d EXCEPT !.tracks = InsertAt(@, IF c.at > Len(@) THEN Len(@) + 1 ELSE c.at, c.track)]

Sets == {"moveCues", "resizeCues", "movePoints"}

ApplyOne(d, c) ==
    CASE c.k \in Sets        -> Set(d, c, c.will)
      [] c.k = "insert"      -> PutOn(d, c)
      [] c.k = "remove"      -> TakeOff(d, c)
      [] c.k = "addTrack"    -> AddLast(d, c)
      [] c.k = "removeTrack" -> TakeOut(d, c)

RevertOne(d, c) ==
    CASE c.k \in Sets        -> Set(d, c, c.was)
      [] c.k = "insert"      -> TakeOff(d, c)
      [] c.k = "remove"      -> PutOn(d, c)
      [] c.k = "addTrack"    -> TakeOut(d, c)
      [] c.k = "removeTrack" -> PutBack(d, c)

\* An entry is a batch; a command that is none is a batch of one.
Apply(d, cmds) ==
    LET done[i \in 0..Len(cmds)] ==
            IF i = 0 THEN d ELSE ApplyOne(done[i - 1], cmds[i])
    IN done[Len(cmds)]
Revert(d, cmds) ==
    LET undone[i \in 0..Len(cmds)] ==
            IF i = 0 THEN d ELSE RevertOne(undone[i - 1], cmds[Len(cmds) + 1 - i])
    IN undone[Len(cmds)]

Nothing == [x \in {} |-> Keep]
Just(x, value) == [y \in {x} |-> value]
SetCommand(k, track, was, will) ==
    [k |-> k, track |-> track, was |-> was, will |-> will, things |-> <<>>, at |-> 0]
ListCommand(k, track, things, at) ==
    [k |-> k, track |-> track, was |-> Nothing, will |-> Nothing, things |-> things, at |-> at]

At(t, size, level) == [t |-> t, size |-> size, level |-> level]

MoveCues(k, from, to) ==
    SetCommand("moveCues", k, [x \in DOMAIN from |-> At(from[x], Keep, Keep)],
                              [x \in DOMAIN to |-> At(to[x], Keep, Keep)])
ResizeCues(k, x, from, to, min) ==
    SetCommand("resizeCues", k, [y \in {x} |-> At(Keep, from, Keep)],
                                [y \in {x} |-> At(Keep, Larger(min, to), Keep)])
MovePoints(k, was, will) == SetCommand("movePoints", k, was, will)

\* Mutation: the one is left.
WithoutOrphans(d, k, S) == S

\* A curve is two points or none: with all but one goes the one.
WithOrphans(d, k, S) ==
    IF k \in CurveTracks /\ Cardinality(On(d, k) \ S) = 1 THEN On(d, k) ELSE S

RemoveThings(d, k, S) ==
    LET all == WithOrphans(d, k, S)
    IN ListCommand("remove", k, Among(d.on[k], all), 0)

InsertThings(k, S) == ListCommand("insert", k, SetToSeq(S), 0)

-----------------------------------------------------------------------------
(* The undo stack. An entry also says, for the properties, what document it *)
(* was last run on or undone from, and whether what it recorded as the old   *)
(* values were those of the document.                                       *)

Entry(cmds, d, honest) == [cmds |-> cmds, of |-> d, honest |-> honest]

\* The older command's starting values, the newer one's end values.
Merge(top, next) ==
    [next EXCEPT !.was = [x \in DOMAIN @ |-> IF x \in DOMAIN top.was THEN top.was[x]
                                             ELSE @[x]]]

Editor == [doc |-> doc, past |-> past, future |-> future, key |-> key, edits |-> edits]

\* Mutation: what was taken back can still be done again after a new edit.
RunKeepingFuture(e, cmds, k, honest) ==
    LET n == Len(e.past)
        merging == k # NoKey /\ e.key = k /\ n > 0
    IN [e EXCEPT !.doc = Apply(@, cmds), !.key = k,
                 !.past = IF merging THEN [@ EXCEPT ![n].cmds = <<Merge(@[1], cmds[1])>>]
                          ELSE Append(@, Entry(cmds, e.doc, honest)),
                 !.edits = IF merging THEN @ ELSE @ + 1]

RunOn(e, cmds, k, honest) ==
    LET n == Len(e.past)
        merging == k # NoKey /\ e.key = k /\ n > 0
    IN [doc |-> Apply(e.doc, cmds),
        past |-> IF merging
                 THEN [e.past EXCEPT ![n].cmds = <<Merge(@[1], cmds[1])>>]
                 ELSE Append(e.past, Entry(cmds, e.doc, honest)),
        future |-> <<>>,
        key |-> k,
        edits |-> IF merging THEN e.edits ELSE e.edits + 1]

\* Nothing is taken hold of that there is no entry left for.
Room == edits < MaxEdits

Become(e) ==
    /\ e.edits <= MaxEdits
    /\ doc' = e.doc /\ past' = e.past /\ future' = e.future /\ key' = e.key
    /\ edits' = e.edits

Stir == drag' = IF drag = NoDrag THEN drag ELSE [drag EXCEPT !.stirred = TRUE]

\* history.run(cmd); history.seal(), from a menu, a key or a field.
Run(made, cmds) ==
    /\ Room /\ cmds # <<>>
    /\ LET e == [Editor EXCEPT !.doc = made]
       IN Become([RunOn(e, cmds, NoKey, TRUE) EXCEPT !.key = NoKey])
    /\ Stir

\* Entries that were recorded about another document than they now apply to.
Disowned(entries) == [i \in DOMAIN entries |-> [entries[i] EXCEPT !.honest = FALSE]]

Undo ==
    /\ past # <<>>
    /\ LET top == Last(past)
           rest == Front(past)
       IN /\ doc' = Revert(doc, top.cmds)
          /\ past' = IF top.honest THEN rest ELSE Disowned(rest)
          /\ future' = Append(future, [top EXCEPT !.of = doc])
    /\ key' = NoKey
    /\ Stir
    /\ UNCHANGED <<focus, pasted, astray, edits>>

Redo ==
    /\ future # <<>>
    /\ LET top == Last(future)
       IN /\ doc' = Apply(doc, top.cmds)
          /\ past' = Append(past, [top EXCEPT !.of = doc])
          /\ future' = IF top.honest THEN Front(future) ELSE Disowned(Front(future))
    /\ key' = NoKey
    /\ Stir
    /\ UNCHANGED <<focus, pasted, astray, edits>>

-----------------------------------------------------------------------------
(* Gestures of the pointer. What the drag moves, and from where, is read when *)
(* the pointer goes down; every later move starts from that.                 *)

AttributesOf(d, x) == At(d.t[x], d.size[x], d.level[x])

Press(part, k, x, picked) ==
    /\ Room /\ x \in On(doc, k) /\ picked \subseteq On(doc, k)
    /\ IF k \in CurveTracks THEN part = "point"
       ELSE part = "body" \/ (part \in {"start", "end"} /\ IsSpan(doc, x))
    /\ LET things == IF part \in {"start", "end"} THEN {x} ELSE picked \cup {x}
       IN drag' = [part |-> part, track |-> k, lead |-> x,
                   was |-> [y \in things |-> AttributesOf(doc, y)],
                   depth |-> Len(past), stirred |-> FALSE]
    /\ focus' = [row |-> CHOOSE i \in DOMAIN doc.tracks : doc.tracks[i] = k, thing |-> x]
    /\ UNCHANGED <<doc, past, future, key, pasted, astray, edits>>

Was(x) == drag.was[x]
Dragged == DOMAIN drag.was

Shifted(x, to) == Clamp(Was(x).t + to - Was(drag.lead).t, 0, Duration)

\* What the document says is what the drag has read.
Undisturbed == ~drag.stirred /\ (drag.part = "start" => Len(past) = drag.depth)

DragBody(to) ==
    /\ drag.part = "body"
    /\ Become(RunOn(Editor,
           <<MoveCues(drag.track, [x \in Dragged |-> Was(x).t], [x \in Dragged |-> Shifted(x, to)])>>,
           "g", Undisturbed))

DragEnd(to) ==
    /\ drag.part = "end"
    /\ Become(RunOn(Editor,
           <<ResizeCues(drag.track, drag.lead, Was(drag.lead).size,
                        to - doc.t[drag.lead], MinLength)>>,
           "g", Undisturbed))

\* Two commands under two keys, so neither is ever merged with its like.
DragStart(to) ==
    /\ drag.part = "start"
    /\ LET was == Was(drag.lead)
           end == was.t + was.size
           start == Clamp(to, 0, end - MinLength)
           moved == RunOn(Editor, <<MoveCues(drag.track, Just(drag.lead, was.t), Just(drag.lead, start))>>,
                          "g", Undisturbed)
       IN Become(RunOn(moved, <<ResizeCues(drag.track, drag.lead, was.size,
                              end - start, MinLength)>>, "gr", Undisturbed))

DragPoints(to, level) ==
    /\ drag.part = "point"
    /\ LET v(x) == Clamp(Was(x).level + level - Was(drag.lead).level, 0, MaxLevel)
       IN Become(RunOn(Editor,
              <<MovePoints(drag.track, [x \in Dragged |-> At(Was(x).t, Keep, Was(x).level)],
                                       [x \in Dragged |-> At(Shifted(x, to), Keep, v(x))])>>,
              "g", Undisturbed))

Drag(to, level) ==
    /\ DragBody(to) \/ DragEnd(to) \/ DragStart(to) \/ DragPoints(to, level)
    /\ UNCHANGED <<drag, focus, pasted, astray>>

Release ==
    /\ drag # NoDrag
    /\ drag' = NoDrag
    /\ key' = NoKey
    /\ UNCHANGED <<doc, past, future, focus, pasted, astray, edits>>

-----------------------------------------------------------------------------
(* Menus, keys and double clicks *)

\* Objects made for the edit, with their attributes.
Fresh(S, n) == CHOOSE F \in SUBSET (Unmade \cap S) : Cardinality(F) = n
CanMake(S, n) == Cardinality(Unmade \cap S) >= n
Make(values) == Put(doc, values)

\* Double click, Cut, Delete of a menu.
RemoveSome(k, S) ==
    /\ S # {} /\ S \subseteq On(doc, k)
    /\ Run(doc, <<RemoveThings(doc, k, S)>>)
    /\ UNCHANGED <<focus, pasted, astray>>

\* A point on an empty curve comes with a second.
AddPoint(k, t, level) ==
    LET empty == doc.on[k] = <<>>
        F == Fresh(Points, IF empty THEN 2 ELSE 1)
        p == CHOOSE x \in F : TRUE
        later == IF t + Gap > Duration THEN Duration ELSE t + Gap
    IN /\ CanMake(Points, IF empty THEN 2 ELSE 1)
       /\ Run(Make([x \in F |-> At(IF x = p THEN t ELSE later, 0, level)]),
              <<InsertThings(k, F)>>)
       /\ UNCHANGED <<focus, pasted, astray>>

\* One entry for each track and no batch.
DeleteSelection(S) ==
    LET delete(e, k) ==
            LET going == On(e.doc, k) \cap S
            IN IF going = {} THEN e
               ELSE RunOn(e, <<RemoveThings(e.doc, k, going)>>, NoKey, TRUE)
        deleted[i \in 0..Len(doc.tracks)] ==
            IF i = 0 THEN Editor ELSE delete(deleted[i - 1], doc.tracks[i])
    IN /\ Room /\ S \cap Shown(doc) # {}
       /\ Become(deleted[Len(doc.tracks)])
       /\ Stir
       /\ UNCHANGED <<focus, pasted, astray>>

Nudge(S, dt) ==
    LET to(x) == Clamp(doc.t[x] + dt, 0, Duration)
        move(k) ==
            LET moving == On(doc, k) \cap S
            IN IF moving = {} THEN <<>>
               ELSE IF k \in CueTracks
               THEN <<MoveCues(k, [x \in moving |-> doc.t[x]], [x \in moving |-> to(x)])>>
               ELSE <<MovePoints(k, [x \in moving |-> At(doc.t[x], Keep, Keep)],
                                    [x \in moving |-> At(to(x), Keep, Keep)])>>
        moves[i \in 0..Len(doc.tracks)] ==
            IF i = 0 THEN <<>> ELSE moves[i - 1] \o move(doc.tracks[i])
    IN /\ Run(doc, moves[Len(doc.tracks)])
       /\ UNCHANGED <<focus, pasted, astray>>

Split(k, x, at) ==
    /\ IsSpan(doc, x) /\ CanMake(Cues, 2)
    /\ at > doc.t[x] + MinPiece /\ at < CueEnd(doc, x) - MinPiece
    /\ LET F == Fresh(Cues, 2)
           left == CHOOSE y \in F : TRUE
       IN Run(Make([y \in F |->
                  IF y = left THEN At(doc.t[x], at - doc.t[x], doc.level[x])
                  ELSE At(at, CueEnd(doc, x) - at, doc.level[x])]),
              <<RemoveThings(doc, k, {x}), InsertThings(k, F)>>)
    /\ UNCHANGED <<focus, pasted, astray>>

\* Copies land after the selection, and may land after the end of the film.
Duplicate(k, S) ==
    /\ S # {} /\ S \subseteq On(doc, k) /\ CanMake(Cues, Cardinality(S))
    /\ LET first == CHOOSE x \in S : \A y \in S : doc.t[x] <= doc.t[y]
           last == CHOOSE x \in S : \A y \in S : CueEnd(doc, x) >= CueEnd(doc, y)
           shift == Larger(CueEnd(doc, last) - doc.t[first], MinPiece)
           F == Fresh(Cues, Cardinality(S))
           copyOf == CHOOSE f \in Bijection(F, S) : TRUE
       IN /\ \A x \in S : doc.t[x] + shift <= MaxTime
          /\ Run(Make([y \in F |-> [AttributesOf(doc, copyOf[y]) EXCEPT !.t = @ + shift]]),
                 <<InsertThings(k, F)>>)
    /\ UNCHANGED <<focus, pasted, astray>>

ToggleSpan(k, x) ==
    /\ Run(doc, <<IF IsSpan(doc, x) THEN ResizeCues(k, x, doc.size[x], 0, 0)
                  ELSE ResizeCues(k, x, 0, DefaultLength, MinLength)>>)
    /\ UNCHANGED <<focus, pasted, astray>>

SetLevels(k, to) ==
    Run(doc, <<MovePoints(k, [x \in DOMAIN to |-> At(doc.t[x], Keep, doc.level[x])],
                             [x \in DOMAIN to |-> At(doc.t[x], Keep, to[x])])>>)

\* Stronger and softer: each level times a factor, so no level stays and 0 stays 0.
ScaleAmplitude(k, to) ==
    /\ \/ \A x \in DOMAIN to : to[x] >= doc.level[x]
       \/ \A x \in DOMAIN to : to[x] <= doc.level[x]
    /\ \A x \in DOMAIN to : doc.level[x] = 0 => to[x] = 0
    /\ SetLevels(k, to)
    /\ UNCHANGED <<focus, pasted, astray>>

\* Each point that has neighbours becomes the mean of three, itself twice.
SmoothPoints(k, S) ==
    LET s == doc.on[k]
        inner == {i \in 2..(Len(s) - 1) : s[i] \in S}
        mean(i) == (doc.level[s[i - 1]] + 2 * doc.level[s[i]] + doc.level[s[i + 1]]) \div 4
        place(x) == CHOOSE i \in inner : s[i] = x
    IN /\ inner # {}
       /\ SetLevels(k, [x \in {s[i] : i \in inner} |-> mean(place(x))])
       /\ UNCHANGED <<focus, pasted, astray>>

\* What was copied, from the time pasted at, none past the end of the film.
Paste(k, times, size, level) ==
    LET S == IF k \in CueTracks THEN Cues ELSE Points
        F == Fresh(S, Len(times))
        order == CHOOSE f \in Bijection(F, DOMAIN times) : TRUE
    IN /\ CanMake(S, Len(times))
       /\ Run(Make([x \in F |-> At(times[order[x]], size, level)]), <<InsertThings(k, F)>>)
       /\ pasted' = IF k \in CurveTracks THEN pasted \cup F ELSE pasted
       /\ UNCHANGED <<focus, astray>>

\* What is on the span goes, by the rule for removing, and the shape comes.
InsertPreset(k, at, long, level) ==
    LET n == IF k \in CueTracks THEN 1 ELSE 2
        S == IF k \in CueTracks THEN Cues ELSE Points
        F == Fresh(S, n)
        x == CHOOSE y \in F : TRUE
        clashing == {y \in On(doc, k) : at <= doc.t[y] /\ doc.t[y] <= at + long}
    IN /\ CanMake(S, n) /\ at + long <= MaxTime
       /\ Run(Make([y \in F |-> IF k \in CueTracks THEN At(at, long, level)
                                ELSE At(IF y = x THEN at ELSE at + long, 0, level)]),
              (IF clashing = {} THEN <<>> ELSE <<RemoveThings(doc, k, clashing)>>)
              \o <<InsertThings(k, F)>>)
       /\ UNCHANGED <<focus, pasted, astray>>

Mentioned == {Head(e.cmds).track : e \in ToSet(past) \cup ToSet(future)}
MissingInstruments == Rig \ {Instrument[doc.tracks[i]] : i \in DOMAIN doc.tracks}

AddTrack(k) ==
    /\ k \in CurveTracks \ (ToSet(First.tracks) \cup Mentioned)
    /\ Instrument[k] \in MissingInstruments
    /\ Run(doc, <<ListCommand("addTrack", k, <<>>, 0)>>)
    /\ UNCHANGED <<focus, pasted, astray>>

RemoveTrack(i) ==
    /\ Run(doc, <<ListCommand("removeTrack", doc.tracks[i], <<>>, i)>>)
    /\ UNCHANGED <<focus, pasted, astray>>

-----------------------------------------------------------------------------
(* The inspector. The thing is held by reference, its track by row number. *)

Inspected == doc.tracks[focus.row]

Inspect(made, cmds) ==
    /\ focus # NoFocus /\ focus.row \in DOMAIN doc.tracks
    /\ Run(made, cmds)
    /\ astray' = (astray \/ focus.thing \notin On(doc, Inspected))
    /\ UNCHANGED <<focus, pasted>>

InspectTime(t) ==
    LET x == focus.thing
    IN Inspect(doc,
           <<IF x \in Cues THEN MoveCues(Inspected, Just(x, doc.t[x]), Just(x, t))
             ELSE MovePoints(Inspected, Just(x, At(doc.t[x], Keep, Keep)), Just(x, At(t, Keep, Keep)))>>)

InspectLength(size) ==
    /\ focus.thing \in Cues /\ IsSpan(doc, focus.thing) /\ size > 0
    /\ Inspect(doc, <<ResizeCues(Inspected, focus.thing, doc.size[focus.thing], size, MinLength)>>)

\* A cue's parameters are written past the undo stack, with a move to where it is.
InspectParam(level) ==
    /\ focus.thing \in Cues
    /\ LET now == Just(focus.thing, doc.t[focus.thing])
       IN Inspect(Put(doc, Just(focus.thing, At(Keep, Keep, level))), <<MoveCues(Inspected, now, now)>>)

InspectValue(level) ==
    LET x == focus.thing
    IN /\ x \in Points
       /\ Inspect(doc, <<MovePoints(Inspected, Just(x, At(doc.t[x], Keep, doc.level[x])),
                                               Just(x, At(doc.t[x], Keep, level)))>>)

ClearFocus ==
    /\ focus # NoFocus /\ Room
    /\ focus' = NoFocus
    /\ UNCHANGED <<doc, past, future, key, drag, pasted, astray, edits>>

-----------------------------------------------------------------------------
Init ==
    /\ doc = First /\ past = <<>> /\ future = <<>> /\ key = NoKey
    /\ drag = NoDrag /\ focus = NoFocus
    /\ pasted = {} /\ astray = FALSE /\ edits = 0

\* By keys, which the page takes while a button is down too.
ByKey ==
    \/ Undo \/ Redo
    \/ \E S \in SUBSET Shown(doc) : Cardinality(S) <= MaxSelected /\
           (DeleteSelection(S) \/ \E dt \in {-1, 1} : Nudge(S, dt))
    \/ \E k \in ToSet(doc.tracks) :
           Paste(k, <<0, Duration>>, 0, 0) \/ \E t \in Places : Paste(k, <<t>>, 0, 0)
    \/ \E k \in ToSet(doc.tracks) \cap CueTracks :
           \/ \E S \in SUBSET On(doc, k) : Duplicate(k, S)
           \/ \E x \in On(doc, k), at \in Places : Split(k, x, at)

\* A field commits on Enter or when it is left, and pressing on a lane leaves it.
ByField ==
    \/ \E t \in 0..Duration : InspectTime(t)
    \/ \E size \in 1..Duration : InspectLength(size)
    \/ \E v \in Levels : InspectParam(v) \/ InspectValue(v)

\* By double clicks, menus and the effects library.
ByClick ==
    /\ drag = NoDrag
    /\ \/ \E k \in ToSet(doc.tracks) :
              \/ \E S \in SUBSET On(doc, k) : RemoveSome(k, S)
              \/ \E at \in Places : InsertPreset(k, at, 1, MaxLevel)
       \/ \E k \in ToSet(doc.tracks) \cap CueTracks : \E x \in On(doc, k) : ToggleSpan(k, x)
       \/ \E k \in ToSet(doc.tracks) \cap CurveTracks :
              \/ \E t \in Places, v \in Levels : AddPoint(k, t, v)
              \/ \E S \in SUBSET On(doc, k) \ {{}} :
                     SmoothPoints(k, S) \/ \E to \in [S -> Levels] : ScaleAmplitude(k, to)
       \/ \E k \in CurveTracks : AddTrack(k)
       \/ \E i \in DOMAIN doc.tracks : RemoveTrack(i)
       \/ ClearFocus

ByPointer ==
    \/ /\ drag = NoDrag
       /\ \E k \in ToSet(doc.tracks) : \E x \in On(doc, k), S \in SUBSET On(doc, k),
              part \in {"body", "start", "end", "point"} : Press(part, k, x, S)
    \/ \E to \in 0..Duration, v \in Levels : Drag(to, v)
    \/ Release

Next == ByPointer \/ ByKey \/ ByField \/ ByClick

Spec == Init /\ [][Next]_vars

-----------------------------------------------------------------------------
(* Properties *)

\* Two documents look the same: the tracks in their order, what is on them,
\* when and how long, and what each point is worth. Of a cue's parameters undo
\* says nothing.
Same(d, e) ==
    /\ d.tracks = e.tracks
    /\ \A i \in DOMAIN d.tracks : On(d, d.tracks[i]) = On(e, e.tracks[i])
    /\ \A x \in Shown(d) : /\ d.t[x] = e.t[x] /\ d.size[x] = e.size[x]
                           /\ x \in Points => d.level[x] = e.level[x]

\* The document after n entries more are taken back, or done again.
UndoneBy(n) ==
    LET undone[i \in 0..n] ==
            IF i = 0 THEN doc ELSE Revert(undone[i - 1], past[Len(past) + 1 - i].cmds)
    IN undone[n]
RedoneBy(n) ==
    LET redone[i \in 0..n] ==
            IF i = 0 THEN doc ELSE Apply(redone[i - 1], future[Len(future) + 1 - i].cmds)
    IN redone[n]

\* However many times undo is pressed, the document is the one there was before
\* the edit taken back last: whatever edits were made between, in whatever
\* mixture of gestures, menus and fields, and undone and redone in between. An
\* edit whose gesture read the document before another edit changed it makes no
\* such promise, and nor does anything beneath it (history.ts revert, mergeInto).
UndoRestores ==
    \A n \in 1..Len(past) :
        (\A i \in (Len(past) + 1 - n)..Len(past) : past[i].honest)
        => Same(UndoneBy(n), past[Len(past) + 1 - n].of)

\* However many times redo is pressed, the document is the one that was undone,
\* under the same proviso.
RedoRestores ==
    \A n \in 1..Len(future) :
        (\A i \in (Len(future) + 1 - n)..Len(future) : future[i].honest)
        => Same(RedoneBy(n), future[Len(future) + 1 - n].of)

\* A curve the page can make is one the score format takes: never a single
\* point, unless a single point was pasted on it.
CurvesAreSaveable ==
    \A i \in DOMAIN doc.tracks :
        LET k == doc.tracks[i]
        IN k \in CurveTracks /\ Len(doc.on[k]) = 1 => On(doc, k) \subseteq pasted

\* Every track shown is in time order, as the score format requires, whatever
\* was undone and redone; except that a field of the inspector may have moved a
\* thing while its row number named another track.
StaysSorted ==
    ~astray => \A i \in DOMAIN doc.tracks :
        LET s == doc.on[doc.tracks[i]]
        IN \A m, n \in DOMAIN s : m < n => doc.t[s[m]] <= doc.t[s[n]]
=============================================================================
