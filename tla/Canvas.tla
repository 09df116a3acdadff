------------------------------- MODULE Canvas -------------------------------
(***************************************************************************)
(* The timeline as it is seen: the window on the film (view.ts), the rows   *)
(* of the tracks (layout.ts, and their order in App.tsx), what is drawn in  *)
(* them (lanes.ts, Timeline.tsx), what is under the pointer (hit.ts) and    *)
(* what a drag locks on to (snap.ts).                                       *)
(*                                                                         *)
(* Times are whole ticks, where the code rounds to a millionth of a second; *)
(* a pixel is the whole pixel to the left of a moment.                     *)
(***************************************************************************)
EXTENDS Integers, SequencesExt

CONSTANTS
    Duration, Frame,          \* of the film, in ticks
    MinFrames,                \* MIN_SPAN_FRAMES
    Width,                    \* of a lane, in pixels
    Grab, SnapPx, LabelPx,    \* GRAB, SNAP_PX and the room a label takes, in pixels
    MinEventW, HandlePx,      \* MIN_EVENT_W, and 1 / HANDLE_THRESHOLD
    Ladder, MaxTicks,         \* the steps of the ruler, and how many ticks are too many
    Columns,                  \* of the overview
    RowCue, RowChannel, RowCollapsed,
    Tracks,                   \* the tracks of the score: [id, curve, channels]
    Lead,                     \* latencyOf the instrument of each
    Calm,                     \* the stretches left alone, [from, to]
    Scenes,                   \* what is in them: for each, a sequence of [t, end, v]
    Arrangements,             \* arrangements that were kept beside the score
    Pointers, Playheads       \* where the pointer and the playhead are tried

ASSUME CanvasAssumption ==
    /\ {Duration, Frame, MinFrames, Width, Columns, RowCue, RowChannel, RowCollapsed} \subseteq Nat \ {0}
    /\ {Grab, SnapPx, LabelPx, MinEventW, HandlePx, MaxTicks} \subseteq Nat /\ MinEventW <= Grab
    /\ Pointers \subseteq 0..Width /\ Playheads \subseteq Nat

\* The ruler's steps are whole frames, in five parts or no more than five.
ASSUME LadderAssumption ==
    /\ Ladder \in Seq(Nat \ {0}) /\ Ladder # <<>>
    /\ \A k \in DOMAIN Ladder : Ladder[k] % Frame = 0 /\ (Ladder[k] % 5 = 0 \/ Ladder[k] < 5 * Frame)

TrackIds == {Tracks[i].id : i \in DOMAIN Tracks}
Channels == UNION {ToSet(Tracks[i].channels) : i \in DOMAIN Tracks}
RowNames == TrackIds \cup UNION {ToSet(k.order) : k \in Arrangements}
ASSUME TracksAssumption ==
    /\ Tracks \in Seq([id : TrackIds, curve : BOOLEAN, channels : Seq(Channels)])
    /\ \A k \in Arrangements : k.order \in Seq(RowNames)
    /\ Lead \in [DOMAIN Tracks -> Nat] /\ Calm \subseteq [from : Nat, to : Nat]

\* What a score holds: a moment, its end, and values of channels from 0 to 4. Every
\* track is in order, as the editor keeps it.
Marks == [t : Nat, end : Nat, v : UNION {[c -> 0..4] : c \in SUBSET Channels}]
ASSUME ScenesAssumption ==
    \A s \in Scenes : \A i \in DOMAIN Tracks :
        /\ s[i] \in Seq(Marks) /\ \A k \in DOMAIN s[i] : s[i][k].t <= s[i][k].end
        /\ \A j, k \in DOMAIN s[i] : j <= k => s[i][j].t <= s[i][k].t

VARIABLES
    start, span,         \* TimeView
    order, collapsed,    \* the arrangement: ids, or the score's order when empty
    scene

window == <<start, span>>
canvasVars == <<window, order, collapsed, scene>>

-----------------------------------------------------------------------------
(* The window *)

Lesser(a, b) == IF a < b THEN a ELSE b
Greater(a, b) == IF a > b THEN a ELSE b
Clamp(v, lo, hi) == IF v < lo THEN lo ELSE IF v > hi THEN hi ELSE v
Distance(a, b) == IF a < b THEN b - a ELSE a - b

MinSpan == Lesser(Duration, MinFrames * Frame)
DefaultSpan == IF Duration \div 10 < MinSpan THEN Duration ELSE Duration \div 10
End == start + span

X(t) == ((t - start) * Width) \div span
TimeAt(x) == start + (x * span) \div Width
Intersects(a, b) == b >= start /\ a <= End

\* set and clampInside
Set(s, n) ==
    LET to == Clamp(n, MinSpan, Duration)
    IN span' = to /\ start' = Clamp(s, 0, Greater(0, Duration - to))

Fit == Set(0, Duration) /\ UNCHANGED <<order, collapsed, scene>>
Reset == Set(0, DefaultSpan) /\ UNCHANGED <<order, collapsed, scene>>

\* A wheel of so many pixels; a fifth more than the pixels it went.
Pan(by) ==
    /\ Set(start + (span * by * 6) \div (5 * Width), span)
    /\ UNCHANGED <<order, collapsed, scene>>

\* Mutation: the start is moved by the span as it was asked for.
ZoomUnclamped(x, num, den) ==
    LET at == (span * Clamp(x, 0, Width)) \div Width
        wanted == (span * num) \div den
    IN /\ Set(start + at - (at * wanted) \div span, wanted)
       /\ UNCHANGED <<order, collapsed, scene>>

\* About what is under the pointer.
ZoomAt(x, num, den) ==
    LET at == (span * Clamp(x, 0, Width)) \div Width
        wanted == Clamp((span * num) \div den, MinSpan, Duration)
    IN /\ Set(start + at - (at * wanted) \div span, wanted)
       /\ UNCHANGED <<order, collapsed, scene>>

\* Frame a range, with a little air either side.
ZoomTo(a, b) ==
    LET lo == Lesser(a, b)  hi == Greater(a, b)
        room == Greater(((hi - lo) * 8) \div 100, MinSpan \div 4)
    IN Set(lo - room, hi - lo + 2 * room) /\ UNCHANGED <<order, collapsed, scene>>

\* Keep a moment on screen, and not in the last bit of it: it is followed when it
\* is near and jumped to when it is far.
Reveal(t) ==
    LET margin == (span * 6) \div 100
    IN /\ \/ /\ t < start + margin
             /\ Set(IF 2 * t < 2 * start - span THEN t - span \div 3 ELSE t - margin, span)
          \/ /\ t >= start + margin /\ t > End - margin
             /\ Set(IF 2 * t > 2 * End + span THEN t - span \div 3 ELSE t - span + margin, span)
       /\ UNCHANGED <<order, collapsed, scene>>

\* The box in the overview is taken by an edge, or anywhere else.
DragBox(part, t) ==
    /\ CASE part = "move" -> Set(t - span \div 2, span)
         [] part = "start" -> Set(t, End - t)
         [] part = "end" -> Set(start, t - start)
    /\ UNCHANGED <<order, collapsed, scene>>

\* The labels stand on the first rung that leaves room for one, with four ticks in
\* between where there are frames enough.
Major ==
    LET fits == {k \in DOMAIN Ladder : Ladder[k] * Width >= span * LabelPx}
    IN Ladder[IF fits = {} THEN Len(Ladder) ELSE CHOOSE k \in fits : \A j \in fits : k <= j]
Ticks ==
    LET step == Greater(Major \div 5, Frame)
        per == Major \div step
        first == start \div step
        last == (End + step - 1) \div step
    IN IF last - first > MaxTicks THEN {}
       ELSE {[t |-> k * step, major |-> k % per = 0] : k \in {k \in first..last : k >= 0 /\ k * step <= Duration}}

-----------------------------------------------------------------------------
(* The rows *)

\* Listed tracks in their order, the others after them in the score's. Sorting by a
\* rank that some have not, and that two have of one id; an id listed twice has its
\* last rank.
Rank(i) == IF Tracks[i].id \in ToSet(order)
           THEN CHOOSE k \in DOMAIN order : /\ order[k] = Tracks[i].id
                                            /\ \A j \in DOMAIN order : order[j] = order[k] => j <= k
           ELSE Len(order) + i
Before(j, i) == Rank(j) < Rank(i) \/ (Rank(j) = Rank(i) /\ j < i)
Ordered == [k \in DOMAIN Tracks |->
    CHOOSE i \in DOMAIN Tracks : Cardinality({j \in DOMAIN Tracks : Before(j, i)}) = k - 1]

Row(i, channel, draw, h) ==
    [track |-> i, channel |-> channel, draw |-> draw, editable |-> draw \in {"cues", "curve"}, h |-> h]
Lanes(i) == [k \in DOMAIN Tracks[i].channels |-> Row(i, Tracks[i].channels[k], "curve", RowChannel)]

\* Mutation: what is folded is looked at before what there is to fold.
RowsFolded(i) ==
    IF ~Tracks[i].curve THEN <<Row(i, "none", "cues", RowCue)>>
    ELSE IF Tracks[i].id \in collapsed THEN <<Row(i, "none", "summary", RowCollapsed)>>
    ELSE IF Len(Tracks[i].channels) < 2 THEN Lanes(i)
    ELSE <<Row(i, "none", "summary", RowCollapsed)>> \o Lanes(i)

RowsOf(i) ==
    IF ~Tracks[i].curve THEN <<Row(i, "none", "cues", RowCue)>>
    ELSE IF Len(Tracks[i].channels) < 2 THEN Lanes(i)
    ELSE <<Row(i, "none", "summary", RowCollapsed)>>
         \o (IF Tracks[i].id \in collapsed THEN <<>> ELSE Lanes(i))

Rows == FlattenSeq([k \in DOMAIN Tracks |-> RowsOf(Ordered[k])])

\* Where each ends, and the next begins.
Tops ==
    LET rows == Rows
        top[n \in 0..Len(rows)] == IF n = 0 THEN 0 ELSE top[n - 1] + rows[n].h
    IN top
Height == Tops[Len(Rows)]

\* 0 for nothing there.
RowAt(y) ==
    LET tops == Tops
        there == {n \in 1..Len(Rows) : tops[n - 1] <= y /\ y < tops[n]}
    IN IF there = {} THEN 0 ELSE Min(there)

\* A list is written out the first time that something is moved. What a list that was
\* kept does not name cannot be moved at all.
Written == IF order = <<>> THEN [i \in DOMAIN Tracks |-> Tracks[i].id] ELSE order
At(id) == CHOOSE k \in DOMAIN Written : Written[k] = id

MoveBy(id, by) ==
    /\ id \in ToSet(Written)
    /\ order' = InsertAt(RemoveAt(Written, At(id)), Clamp(At(id) + by, 1, Len(Written)), id)
    /\ UNCHANGED <<window, collapsed, scene>>

\* Dropped on another: the target's index is the one it had before. On one that is
\* not listed: at the end.
MoveTo(id, before) ==
    /\ id # before /\ id \in ToSet(Written)
    /\ order' = InsertAt(RemoveAt(Written, At(id)),
                         IF before \in ToSet(Written) THEN At(before) ELSE Len(Written), id)
    /\ UNCHANGED <<window, collapsed, scene>>

\* Only what has channels to fold has the control.
Toggle(i) ==
    /\ Tracks[i].curve /\ Len(Tracks[i].channels) > 1
    /\ collapsed' = IF Tracks[i].id \in collapsed THEN collapsed \ {Tracks[i].id}
                    ELSE collapsed \cup {Tracks[i].id}
    /\ UNCHANGED <<window, order, scene>>

-----------------------------------------------------------------------------
(* What is drawn *)

\* Cues that the window touches, in the order of the track.
DrawnCues(i) == {k \in DOMAIN scene[i] : Intersects(scene[i][k].t, scene[i][k].end)}

\* A lane holds the points that have its channel.
Lane(i, ch) ==
    LET held[k \in 0..Len(scene[i])] ==
            IF k = 0 THEN <<>>
            ELSE IF ch \in DOMAIN scene[i][k].v THEN Append(held[k - 1], scene[i][k]) ELSE held[k - 1]
    IN held[Len(scene[i])]

\* Halving, as lanes.ts and snap.ts both do, in at most as many rounds as there are
\* places: the first that is not before t.
Half(s, t, b) ==
    LET mid == (b.lo + b.hi) \div 2
    IN IF b.lo >= b.hi THEN b
       ELSE IF s[mid] < t THEN [lo |-> mid + 1, hi |-> b.hi] ELSE [lo |-> b.lo, hi |-> mid]
LowerBound(s, t) ==
    LET halved[n \in 0..Len(s)] ==
            IF n = 0 THEN [lo |-> 1, hi |-> Len(s) + 1] ELSE Half(s, t, halved[n - 1])
    IN halved[Len(s)].lo

Times(points) == [k \in DOMAIN points |-> points[k].t]

\* Mutation: only the points that are inside.
VisibleInside(points) ==
    LowerBound(Times(points), start) .. LowerBound(Times(points), End + 1) - 1

\* One more at either side, so that the line runs to the edges of the window.
Visible(points) ==
    Greater(1, LowerBound(Times(points), start) - 1)
    .. Lesser(Len(points), LowerBound(Times(points), End))

\* More than one and a half points to a pixel, counted over the whole film.
Dense(points) == 2 * Len(points) > 3 * Width

\* For every column the least and the greatest of its points, or of the column before
\* it; nothing before the first.
Envelope(points, ch) ==
    LET here == [x \in 0..(Width - 1) |-> {points[k].v[ch] : k \in {k \in Visible(points) : X(points[k].t) = x}}]
        filled == {x \in 0..(Width - 1) : here[x] # {}}
    IN [x \in {x \in 0..(Width - 1) : \E f \in filled : f <= x} |->
            LET from == Max({f \in filled : f <= x}) IN <<Min(here[from]), Max(here[from])>>]

\* The points that have a handle: few enough to be taken hold of one by one.
Handles(points) ==
    IF Dense(points) \/ Cardinality(Visible(points)) * HandlePx > Width THEN {} ELSE Visible(points)

\* A span is never drawn too narrow to be seen.
Box(c) == [from |-> X(c.t), to |-> IF c.end > c.t THEN Greater(X(c.t) + MinEventW, X(c.end)) ELSE X(c.t)]

\* From where the conductor dispatches a cue to where it lands, if that is long enough
\* to be told apart.
Leads(i) ==
    {<<X(scene[i][k].t - Lead[i]), X(scene[i][k].t)>> : k \in
        {k \in DOMAIN scene[i] : /\ Lead[i] > 0 /\ Intersects(scene[i][k].t - Lead[i], scene[i][k].t)
                                 /\ X(scene[i][k].t) - X(scene[i][k].t - Lead[i]) >= 2}}

Bands == {<<X(c.from), Greater(X(c.from) + 1, X(c.to))>> : c \in {c \in Calm : Intersects(c.from, c.to)}}

\* What a row of the timeline shows, and the timeline.
Shown(row, overlays) ==
    CASE row.draw = "cues" -> [leads |-> IF "latency" \in overlays THEN Leads(row.track) ELSE {},
                               boxes |-> {Box(scene[row.track][k]) : k \in DrawnCues(row.track)}]
      [] row.draw = "curve" ->
            LET points == Lane(row.track, row.channel)
            IN IF Dense(points) THEN [envelope |-> Envelope(points, row.channel)]
               ELSE [line |-> Visible(points), handles |-> Handles(points)]
      [] row.draw = "summary" -> [line |-> Visible(scene[row.track])]
Picture(playhead, overlays) ==
    [ruler |-> Ticks,
     calm |-> IF "calm" \in overlays THEN Bands ELSE {},
     rows |-> [n \in DOMAIN Rows |-> Shown(Rows[n], overlays)],
     playhead |-> IF Intersects(playhead, playhead) THEN {X(playhead)} ELSE {}]

\* The overview: how strong a track is in each column of the film, and the runs of it.
\* A cue that names no amplitude has the greatest; a point, none.
Strength(i, c) ==
    LET col(t) == Clamp((t * Columns) \div Duration, 0, Columns - 1)
        amp(e) == IF DOMAIN e.v = {} THEN IF Tracks[i].curve THEN 0 ELSE 4
                  ELSE Max({e.v[ch] : ch \in DOMAIN e.v})
    IN Max({0} \cup {amp(scene[i][k]) : k \in {k \in DOMAIN scene[i] :
                IF Tracks[i].curve THEN col(scene[i][k].t) = c
                ELSE col(scene[i][k].t) <= c /\ c <= col(scene[i][k].end)}})
Segments(i) ==
    LET busy == {c \in 0..(Columns - 1) : Strength(i, c) > 0}
    IN {[a |-> r[1], b |-> r[2], level |-> Max({Strength(i, c) : c \in r[1]..r[2]})] :
        r \in {r \in busy \X busy : /\ r[1]..r[2] # {} /\ r[1]..r[2] \subseteq busy
                                  /\ {r[1] - 1, r[2] + 1} \cap busy = {}}}

-----------------------------------------------------------------------------
(* What is under the pointer *)

Nothing == [k |-> 0, part |-> "none"]
Span(c) == c.end > c.t

\* Mutation: the body of a span before its edges.
PartBodyFirst(c, x) ==
    CASE Span(c) /\ x >= X(c.t) /\ x <= X(c.end) -> "body"
      [] Span(c) /\ Distance(x, X(c.end)) <= Grab -> "end"
      [] Span(c) /\ Distance(x, X(c.t)) <= Grab -> "start"
      [] ~Span(c) /\ Distance(x, X(c.t)) <= Grab -> "body"
      [] OTHER -> "none"

\* Edges before the body, and the end before the start.
Part(c, x) ==
    IF Span(c)
    THEN IF Distance(x, X(c.end)) <= Grab THEN "end"
         ELSE IF Distance(x, X(c.t)) <= Grab THEN "start"
         ELSE IF x >= X(c.t) /\ x <= X(c.end) THEN "body" ELSE "none"
    ELSE IF Distance(x, X(c.t)) <= Grab THEN "body" ELSE "none"

\* The last drawn of those under the pointer.
HitCue(i, x) ==
    LET under == {k \in DrawnCues(i) : Part(scene[i][k], x) # "none"}
    IN IF under = {} THEN Nothing
       ELSE LET k == CHOOSE k \in under : \A j \in under : j <= k
            IN [k |-> k, part |-> Part(scene[i][k], x)]

\* A value from 0 to 4 stands so high in its lane, which has 3 pixels of air.
Y(v) == RowChannel - (v * RowChannel) \div 4
HitPoint(i, ch, x, y) ==
    LET d(k) == LET p == scene[i][k] IN (X(p.t) - x) * (X(p.t) - x) + (Y(p.v[ch]) - y) * (Y(p.v[ch]) - y)
        near == {k \in DOMAIN scene[i] :
                    /\ ch \in DOMAIN scene[i][k].v
                    /\ Intersects(scene[i][k].t, scene[i][k].t)
                    /\ Distance(X(scene[i][k].t), x) <= Grab /\ d(k) <= Grab * Grab}
    IN IF near = {} THEN 0
       ELSE CHOOSE k \in near : \A j \in near : d(k) < d(j) \/ (d(k) = d(j) /\ j <= k)

\* Whatever a band overlaps, in the rows that can be edited.
HitRange(x1, x2, n1, n2) ==
    LET a == TimeAt(Lesser(x1, x2))  b == TimeAt(Greater(x1, x2))  rows == Rows
        within(i, ch) == {k \in DOMAIN scene[i] : /\ scene[i][k].end >= a /\ scene[i][k].t <= b
                                                  /\ ch = "none" \/ ch \in DOMAIN scene[i][k].v}
    IN UNION {{rows[n].track} \X within(rows[n].track, rows[n].channel) :
              n \in {n \in n1..n2 : rows[n].editable}}

-----------------------------------------------------------------------------
(* What a drag locks on to *)

\* Where the other events are.
Events(except) ==
    UNION {{scene[i][k].t : k \in {k \in DOMAIN scene[i] : <<i, k>> # except}}
           \cup {scene[i][k].end : k \in {k \in DOMAIN scene[i] : <<i, k>> # except}}
           : i \in DOMAIN Tracks}

\* Mutation: only the one before.
NeighboursBefore(sorted, t) ==
    LET at == LowerBound(sorted, t)
    IN IF at > 1 THEN {sorted[at - 1]} ELSE {}

\* The nearest of the sorted ones before it and from it on.
Neighbours(sorted, t) ==
    LET at == LowerBound(sorted, t)
    IN (IF at > 1 THEN {sorted[at - 1]} ELSE {}) \cup (IF at <= Len(sorted) THEN {sorted[at]} ELSE {})

ToFrame(t) == ((2 * t + Frame) \div (2 * Frame)) * Frame

\* The earliest that is left, for as long as there is one.
WithEarliest(times, done) == Append(done, Min(times \ ToSet(done)))
InOrder(times) ==
    LET sorted[n \in 0..Cardinality(times)] == IF n = 0 THEN <<>> ELSE WithEarliest(times, sorted[n - 1])
    IN sorted[Cardinality(times)]

\* The nearest within so many pixels' worth, the first looked at of two as near; the
\* playhead is looked at first, and may be that far exactly.
Snap(t, playhead, except) ==
    LET look == <<playhead, 0, Duration>> \o InOrder(Neighbours(InOrder(Events(except)), t))
        far(k) == Distance(look[k], t) * Width
        reach == {k \in DOMAIN look : far(k) < span * SnapPx \/ (k = 1 /\ far(k) = span * SnapPx)}
        first == CHOOSE k \in reach : \A j \in reach : far(k) < far(j) \/ (far(k) = far(j) /\ k <= j)
    IN IF reach = {} THEN [t |-> ToFrame(t), to |-> -1] ELSE [t |-> look[first], to |-> look[first]]

-----------------------------------------------------------------------------
CanvasInit ==
    /\ start = 0 /\ span = DefaultSpan
    /\ \E k \in Arrangements : order = k.order /\ collapsed = k.collapsed
    /\ scene \in Scenes

Pixels == 0..Width

CanvasNext ==
    \/ Fit \/ Reset
    \/ \E by \in {-Width, -3, 3, Width} : Pan(by)
    \/ \E x \in Pointers : ZoomAt(x, 1, 2) \/ ZoomAt(x, 2, 1)
    \/ \E i \in DOMAIN Tracks : \E k \in DOMAIN scene[i] : ZoomTo(scene[i][k].t, scene[i][k].end)
    \/ \E t \in 0..Duration : Reveal(t)
    \/ \E t \in -2..(Duration + 2) : \E part \in {"move", "start", "end"} : DragBox(part, t)
    \/ \E id \in TrackIds : \E by \in {-1, 1} : MoveBy(id, by)
    \/ \E id, before \in TrackIds : MoveTo(id, before)
    \/ \E i \in DOMAIN Tracks : Toggle(i)

CanvasSpec == CanvasInit /\ [][CanvasNext]_canvasVars

-----------------------------------------------------------------------------
(* Properties *)

Inside(t) == start <= t /\ t <= End

\* What is revealed is seen; what is under the pointer stays there while the wheel
\* zooms, but for a tick of rounding and unless the film ends; an edge of the box
\* that is dragged leaves the other where it is.
WindowFollows ==
    [][/\ \A t \in 0..Duration : Reveal(t) => Inside(t)'
       /\ \A x \in Pointers : \A f \in {<<1, 2>>, <<2, 1>>} :
            ZoomAt(x, f[1], f[2]) => \/ Distance(TimeAt(x)', TimeAt(x)) <= 1
                                     \/ start' = 0 \/ End' = Duration
       /\ \A t \in 0..(End - MinSpan) : DragBox("start", t) => End' = End
      ]_canvasVars

\* Nothing that is there is missing from the picture. Every track has its rows with all
\* its lanes, folded or not, one below the other. Where the conductor dispatches a cue
\* is shown even when the cue lies beyond the window, as are the calm stretches and the
\* highest and lowest point of every column. Labels have their room. The overview has
\* every event in a band as strong as it is.
PictureIsWhole ==
    LET rows == Rows
        p == Picture(start, {"calm", "latency"})
    IN /\ \A i \in DOMAIN Tracks :
            {rows[n].channel : n \in {n \in DOMAIN rows : rows[n].track = i /\ rows[n].draw = "curve"}}
            = IF ~Tracks[i].curve \/ (Tracks[i].id \in collapsed /\ Len(Tracks[i].channels) > 1)
              THEN {} ELSE ToSet(Tracks[i].channels)
       /\ \A y \in 0..(Height - 1) : RowAt(y) # 0
       /\ \A n \in DOMAIN rows :
            LET i == rows[n].track  ch == rows[n].channel  marks == p.rows[n]
            IN /\ rows[n].draw = "cues" => \A k \in DOMAIN scene[i] :
                    LET t == scene[i][k].t
                    IN Inside(t - Lead[i]) /\ X(t) - X(t - Lead[i]) >= 2
                       => \E l \in marks.leads : l[1] = X(t - Lead[i])
               /\ "envelope" \in DOMAIN marks => \A k \in DOMAIN scene[i] :
                    LET e == scene[i][k]
                    IN Inside(e.t) /\ e.t < End /\ ch \in DOMAIN e.v =>
                       LET m == marks.envelope[X(e.t)] IN m[1] <= e.v[ch] /\ e.v[ch] <= m[2]
       /\ \A c \in Calm : \A t \in c.from..c.to : Inside(t) => \E b \in p.calm : b[1] <= X(t) /\ X(t) <= b[2]
       /\ (\E k \in DOMAIN Ladder : Ladder[k] * Width >= span * LabelPx) =>
          \A a, b \in {t \in p.ruler : t.major} : a.t < b.t => (b.t - a.t) * Width >= span * LabelPx
       /\ \A i \in DOMAIN Tracks : LET bands == Segments(i) IN \A k \in DOMAIN scene[i] :
            LET e == scene[i][k]  c == Lesser((e.t * Columns) \div Duration, Columns - 1)
                strong == IF DOMAIN e.v = {} THEN IF Tracks[i].curve THEN 0 ELSE 4 ELSE Max({e.v[ch] : ch \in DOMAIN e.v})
            IN strong > 0 => \E g \in bands : g.a <= c /\ c <= g.b /\ g.level >= strong

\* The line of a curve is drawn from edge to edge: both points beside every moment of
\* the window are among those drawn, and no more than those.
CurvesReachTheEdges ==
    \A i \in DOMAIN Tracks : Tracks[i].curve => \A c \in DOMAIN Tracks[i].channels :
        LET points == Lane(i, Tracks[i].channels[c])
        IN /\ \A k \in 1..(Len(points) - 1) :
                points[k].t < End /\ points[k + 1].t > start
                => {k, k + 1} \subseteq Visible(points)
           /\ \A k \in DOMAIN points : Inside(points[k].t) /\ points[k].t < End => k \in Visible(points)
           /\ Cardinality(Visible(points) \cap {k \in DOMAIN points : ~Inside(points[k].t)}) <= 2

\* What is drawn on top is what is grabbed. Wherever a cue is drawn there is one to be
\* had, and no other than it or one drawn over it; both ends of a span can be taken
\* hold of, narrower as it may be than the reach of either, as long as they are not on
\* one pixel, nothing is drawn over it and it does not begin at the very edge of the
\* lane. A handle gives hold of a point that lies there.
\* A band over everything has every cue that is drawn.
DrawnIsGrabbed ==
    /\ \A i \in DOMAIN Tracks : ~Tracks[i].curve => \A k \in DrawnCues(i) :
        LET c == scene[i][k]
            alone == \A j \in DrawnCues(i) : j > k => \A x \in Pixels : Part(scene[i][j], x) = "none"
        IN /\ \A x \in Pixels : Box(c).from <= x /\ x <= Box(c).to => HitCue(i, x).k >= k
           /\ (X(c.t) < X(c.end) /\ alone /\ Inside(c.t) /\ Inside(c.end) /\ X(c.t) > Grab)
              => {"start", "end"} \subseteq {HitCue(i, x).part : x \in {x \in Pixels : HitCue(i, x).k = k}}
    /\ \A i \in DOMAIN Tracks : ~Tracks[i].curve =>
        {i} \X DrawnCues(i) \subseteq HitRange(0, Width, 1, Len(Rows))
    /\ \A i \in DOMAIN Tracks : \A n \in DOMAIN Tracks[i].channels :
        LET ch == Tracks[i].channels[n]  points == Lane(i, ch)
        IN \A k \in Handles(points) : Inside(points[k].t) =>
             LET at == HitPoint(i, ch, X(points[k].t), Y(points[k].v[ch]))
             IN /\ at # 0
                /\ X(scene[i][at].t) = X(points[k].t) /\ Y(scene[i][at].v[ch]) = Y(points[k].v[ch])

\* A drag locks on to the nearest thing there is within reach, and to the playhead
\* when that is no farther; out of reach of everything it lands on a frame.
SnapsToNearest ==
    \A t \in 0..Duration : \A playhead \in Playheads :
        LET all == Events(<<1, 1>>) \cup {0, Duration}
            near == {c \in all : Distance(c, t) * Width < span * SnapPx}
            s == Snap(t, playhead, <<1, 1>>)
        IN /\ \A c \in near : Distance(s.t, t) <= Distance(c, t)
           /\ (s.to # -1 /\ \A c \in near : Distance(playhead, t) <= Distance(c, t))
              => s.t = playhead \/ s.to \in near
           /\ Distance(playhead, t) * Width <= span * SnapPx
              /\ (\A c \in near : Distance(playhead, t) <= Distance(c, t)) => s.t = playhead
           /\ s.to = -1 => near = {} /\ s.t % Frame = 0
=============================================================================
