------------------------------- MODULE Studio -------------------------------
(***************************************************************************)
(* The studio's page and the server's open score: opening a film, reviewing *)
(* a kept version, editing, saving and arranging (App.tsx, useVersions.ts,  *)
(* Shell.tsx), against one handler per route (studio.go, layout.go).        *)
(*                                                                         *)
(* The server has ONE open score, which every request that names no film    *)
(* means. A request is sent, handled and answered at three moments, and     *)
(* those of different requests come in any order. What a score holds is a   *)
(* number; what an arrangement holds is the film it was made for.          *)
(***************************************************************************)
EXTENDS Integers, FiniteSets, SequencesExt

CONSTANTS
    Films,
    Unscored,     \* films nobody has analysed
    Versions,     \* scores kept of each film
    Live,         \* the version that is none: the film's score
    NoFilm, NoScore, Plain,
    MaxEdits,     \* bound on edits
    MaxRequests,  \* bound on what the person opens, saves and arranges
    MaxInFlight   \* bound on the requests the person has waiting at once

ASSUME StudioAssumption ==
    /\ Unscored \subseteq Films /\ Films \ Unscored # {} /\ NoFilm \notin Films
    /\ Live \notin Versions /\ Plain \notin Films
    /\ MaxEdits \in Nat /\ MaxRequests \in Nat /\ MaxInFlight \in Nat

VARIABLES
    open, file, layout,              \* the server: its open score's film, and files
    film, version, score, error,     \* the page: what the pickers say, what is shown
    past, future, dirty, saving,     \* its undo stack and its Save button
    order, timer,                    \* its arrangement, and the wait before keeping it
    net,                             \* requests sent and not yet received back
    edits, sent, loads,              \* counters
    excused                          \* for the properties: see Hasty

server == <<open, file, layout>>
shown == <<film, version, score, error>>
stack == <<past, future, dirty>>
arrangement == <<order, timer>>
counters == <<edits, sent, loads>>
vars == <<server, shown, stack, saving, arrangement, net, counters, excused>>

Scored == Films \ Unscored
Keepable == Films \cup {Plain}

\* A score on disk: whose it is, what it says, whether the parser takes it; one on
\* show; and neither.
Scores == [of: Films, text: -1..MaxEdits, valid: BOOLEAN]
OnShow == [of: Films, text: -1..MaxEdits, valid: BOOLEAN,
           kept: Versions \cup {Live}, load: Nat]
ASSUME NoScoreAssumption == NoScore \notin Scores /\ NoScore \notin OnShow

Original(f) == [of |-> f, text |-> 0, valid |-> TRUE]
KeptScore(f) == [of |-> f, text |-> -1, valid |-> TRUE]

Opening == {"load", "film", "latest", "version"}
Awaited(kinds) == \E r \in net : r.kind \in kinds

Request(kind, f, v, body) ==
    [id |-> sent, kind |-> kind, film |-> f, version |-> v, body |-> body,
     answer |-> NoScore, handled |-> FALSE, ok |-> FALSE]
CanAsk == sent < MaxRequests /\ Cardinality(net) < MaxInFlight
Send(r) == net' = net \cup {r} /\ sent' = sent + 1
Answer(r, ok, body) ==
    net' = (net \ {r}) \cup {[r EXCEPT !.handled = TRUE, !.ok = ok, !.answer = body]}

-----------------------------------------------------------------------------
(* The server. Each route is one step, under the server's lock. *)

\* Mutation: a film is read as a kept score is, and the open one stays.
HandleGetKeepingOpen(r) ==
    /\ r.kind \in Opening
    /\ LET of == IF r.kind = "load" THEN open ELSE r.film
       IN Answer(r, file[of] # NoScore,
                 IF r.kind = "version" THEN KeptScore(of) ELSE file[of])
    /\ UNCHANGED server

\* The score that is open, or a film's, which becomes the open one; a kept
\* score is read and nothing else.
HandleGetScore(r) ==
    /\ r.kind \in Opening
    /\ CASE r.kind = "load" -> Answer(r, TRUE, file[open]) /\ open' = open
         [] r.kind \in {"film", "latest"} ->
                IF file[r.film] = NoScore
                THEN Answer(r, FALSE, NoScore) /\ open' = open
                ELSE Answer(r, TRUE, file[r.film]) /\ open' = r.film
         [] r.kind = "version" -> /\ IF file[r.film] = NoScore THEN Answer(r, FALSE, NoScore)
                                     ELSE Answer(r, TRUE, KeptScore(r.film))
                                  /\ open' = open
    /\ UNCHANGED <<file, layout>>

\* The body replaces the open score, whatever film that is by now.
HandlePutScore(r) ==
    /\ r.kind = "save"
    /\ IF r.body.valid
       THEN file' = [file EXCEPT ![open] = r.body] /\ Answer(r, TRUE, NoScore)
       ELSE file' = file /\ Answer(r, FALSE, NoScore)
    /\ UNCHANGED <<open, layout>>

HandleLayout(r) ==
    /\ \/ r.kind = "layout" /\ Answer(r, TRUE, layout[open]) /\ UNCHANGED layout
       \/ /\ r.kind = "arrange" /\ Answer(r, TRUE, NoScore)
          /\ layout' = [layout EXCEPT ![open] = r.body]
    /\ UNCHANGED <<open, file>>

Handle(r) ==
    /\ ~r.handled
    /\ HandleGetScore(r) \/ HandlePutScore(r) \/ HandleLayout(r)
    /\ UNCHANGED <<shown, stack, saving, arrangement, counters, excused>>

-----------------------------------------------------------------------------
(* What the person does *)

\* Done before the answer to something else was in, in a way the answer cannot
\* be told apart from what has been done since; or a film was opened again
\* while a kept version of it was on show.
Hasty(yes) == excused' = (excused \/ yes)

\* Mutation: the version stays selected when the film changes.
OpenFilmKeepingVersion(f) ==
    /\ CanAsk
    /\ film' = f /\ error' = FALSE /\ version' = version
    /\ Send(Request("film", f, Live, NoScore))
    /\ Hasty(net # {} \/ timer \/ (f = film /\ version # Live))
    /\ UNCHANGED <<server, score, stack, saving, arrangement, edits, loads>>

\* From the picker, or from the library, where the film may be the same one.
\* What is on show, the undo stack and the selection stay as they are.
OpenFilm(f) ==
    /\ CanAsk
    /\ film' = f /\ error' = FALSE
    /\ version' = IF f = film THEN version ELSE Live
    /\ Send(Request("film", f, Live, NoScore))
    /\ Hasty(net # {} \/ timer \/ (f = film /\ version # Live))
    /\ UNCHANGED <<server, score, stack, saving, arrangement, edits, loads>>

\* The empty id is the film's own score. The list of versions is that of the film.
OpenVersion(v) ==
    /\ score # NoScore /\ CanAsk
    /\ film \in Scored /\ v # version
    /\ version' = v /\ error' = FALSE
    /\ Send(Request(IF v = Live THEN "latest" ELSE "version", film, v, NoScore))
    /\ Hasty(net # {} \/ timer)
    /\ UNCHANGED <<server, film, score, stack, saving, arrangement, edits, loads>>

\* An entry remembers the object it acts on, which belongs to one load.
Entry(was, will, ok) ==
    [load |-> score.load, was |-> was, will |-> will, before |-> score.valid, after |-> ok]

Edit(ok) ==
    /\ score # NoScore /\ edits < MaxEdits
    /\ edits' = edits + 1
    /\ score' = [score EXCEPT !.text = edits + 1, !.valid = ok]
    /\ past' = Append(past, Entry(score.text, edits + 1, ok))
    /\ future' = <<>> /\ dirty' = TRUE
    /\ Hasty(Awaited({"save"}))
    /\ UNCHANGED <<server, film, version, error, saving, arrangement, net, sent, loads>>

\* Changes the object of the entry, on show or not.
Undo ==
    /\ past # <<>>
    /\ LET e == Last(past)
       IN /\ score' = IF e.load = score.load
                      THEN [score EXCEPT !.text = e.was, !.valid = e.before] ELSE score
          /\ past' = Front(past) /\ future' = Append(future, e)
    /\ dirty' = TRUE
    /\ Hasty(Awaited({"save"}))
    /\ UNCHANGED <<server, film, version, error, saving, arrangement, net, counters>>

Redo ==
    /\ future # <<>>
    /\ LET e == Last(future)
       IN /\ score' = IF e.load = score.load
                      THEN [score EXCEPT !.text = e.will, !.valid = e.after] ELSE score
          /\ future' = Front(future) /\ past' = Append(past, e)
    /\ dirty' = TRUE
    /\ Hasty(Awaited({"save"}))
    /\ UNCHANGED <<server, film, version, error, saving, arrangement, net, counters>>

\* The button asks for something unsaved, the key does not. No film is named.
Save ==
    /\ score # NoScore /\ CanAsk
    /\ saving' = "saving"
    /\ Send(Request("save", NoFilm, Live,
                    [of |-> score.of, text |-> score.text, valid |-> score.valid]))
    /\ Hasty(Awaited(Opening \cup {"save"}))
    /\ UNCHANGED <<server, shown, stack, arrangement, edits, loads>>

\* Tracks are moved or collapsed, or the last collapsed one is expanded, which
\* leaves nothing to keep.
Arrange(to) ==
    /\ score # NoScore /\ to # order /\ CanAsk
    /\ order' = to /\ timer' = (to # Plain)
    /\ sent' = sent + 1
    /\ Hasty(Awaited(Opening \cup {"layout", "arrange"}))
    /\ UNCHANGED <<server, shown, stack, saving, net, edits, loads>>
-----------------------------------------------------------------------------
(* What comes back *)

Done(r) == net' = net \ {r}
Shown(r) ==
    [of |-> r.answer.of, text |-> r.answer.text, valid |-> r.answer.valid,
     kept |-> r.version, load |-> loads + 1]
AskLayout(r) ==
    /\ net' = (net \ {r}) \cup {Request("layout", NoFilm, Live, NoScore)}
    /\ sent' = sent + 1

\* The page opens on the server's open score, and on the film it is named after.
ReceiveLoad(r) ==
    /\ r.kind = "load"
    /\ score' = Shown(r) /\ loads' = loads + 1
    /\ film' = r.answer.of /\ version' = IF r.answer.of = film THEN version ELSE Live
    /\ AskLayout(r)
    /\ UNCHANGED <<error, stack, saving, arrangement, edits>>

\* The undo stack is not reset, and the name picked is not compared.
ReceiveFilm(r) ==
    /\ r.kind = "film"
    /\ IF r.ok THEN /\ score' = Shown(r) /\ loads' = loads + 1 /\ error' = error
                    /\ AskLayout(r)
       ELSE error' = TRUE /\ Done(r) /\ UNCHANGED <<score, loads, sent>>
    /\ UNCHANGED <<film, version, stack, saving, arrangement, edits>>

ReceiveVersion(r) ==
    /\ r.kind \in {"latest", "version"}
    /\ Done(r)
    /\ IF r.ok THEN /\ score' = Shown(r) /\ loads' = loads + 1 /\ error' = error
                    /\ past' = <<>> /\ future' = <<>> /\ dirty' = FALSE
       ELSE error' = TRUE /\ UNCHANGED <<score, loads, stack>>
    /\ UNCHANGED <<film, version, saving, arrangement, edits, sent>>

\* Mutation: a save that is refused leaves what the button says.
ReceiveSaveSilently(r) ==
    /\ r.kind = "save" /\ Done(r)
    /\ IF r.ok THEN saving' = "saved" /\ dirty' = FALSE ELSE UNCHANGED <<saving, dirty>>
    /\ UNCHANGED <<shown, past, future, arrangement, counters>>

\* Mutation: a refused save counts as a save.
ReceiveSaveRefused(r) ==
    /\ r.kind = "save" /\ Done(r)
    /\ saving' = "saved" /\ dirty' = FALSE
    /\ UNCHANGED <<shown, past, future, arrangement, counters>>

ReceiveSave(r) ==
    /\ r.kind = "save"
    /\ Done(r)
    /\ IF r.ok THEN saving' = "saved" /\ dirty' = FALSE
       ELSE saving' = "refused" /\ dirty' = dirty
    /\ UNCHANGED <<shown, past, future, arrangement, counters>>

ReceiveLayout(r) ==
    /\ Done(r)
    /\ \/ r.kind = "layout" /\ order' = r.answer /\ timer' = (r.answer # Plain)
       \/ r.kind = "arrange" /\ UNCHANGED arrangement
    /\ UNCHANGED <<shown, stack, saving, counters>>

Receive(r) ==
    /\ r.handled
    /\ ReceiveLoad(r) \/ ReceiveFilm(r) \/ ReceiveVersion(r) \/ ReceiveSave(r) \/ ReceiveLayout(r)
    /\ UNCHANGED <<server, excused>>

\* The connection fails, before or after the server has done what it was asked.
\* A save says so; an arrangement and an opening say nothing.
Lose(r) ==
    /\ r.kind # "load"
    /\ Done(r)
    /\ saving' = IF r.kind = "save" THEN "failed" ELSE saving
    /\ Hasty(r.kind # "arrange")
    /\ UNCHANGED <<server, shown, stack, arrangement, counters>>

\* 600 ms after the last change of the arrangement.
Keep ==
    /\ timer
    /\ timer' = FALSE
    /\ Send(Request("arrange", NoFilm, Live, order))
    /\ UNCHANGED <<server, shown, stack, saving, order, edits, loads, excused>>

Init ==
    /\ open \in Scored
    /\ file = [f \in Films |-> IF f \in Scored THEN Original(f) ELSE NoScore]
    /\ layout = [f \in Films |-> Plain]
    /\ film = NoFilm /\ version = Live /\ score = NoScore /\ error = FALSE
    /\ past = <<>> /\ future = <<>> /\ dirty = FALSE /\ saving = "none"
    /\ order = Plain /\ timer = FALSE
    /\ edits = 0 /\ sent = 1 /\ loads = 0
    /\ net = {[id |-> 0, kind |-> "load", film |-> NoFilm, version |-> Live,
               body |-> NoScore, answer |-> NoScore, handled |-> FALSE, ok |-> FALSE]}
    /\ excused = FALSE

Person ==
    \/ \E f \in Films : OpenFilm(f)
    \/ \E v \in Versions \cup {Live} : OpenVersion(v)
    \/ \E ok \in BOOLEAN : Edit(ok)
    \/ Undo \/ Redo \/ Save
    \/ score # NoScore /\ \E to \in {score.of, Plain} : Arrange(to)

Answering == \E r \in net : Handle(r) \/ Receive(r)

Next == Person \/ Answering \/ (\E r \in net : Lose(r)) \/ Keep

\* The server answers and the browser delivers; a timer that is set goes off.
Fairness == WF_vars(Answering) /\ WF_vars(Keep)

Spec == Init /\ [][Next]_vars /\ Fairness

-----------------------------------------------------------------------------
(* Properties *)

\* What is open has a score, films are only opened that there are, and a kept
\* version is one of the versions.
TypeOK ==
    /\ open \in Scored
    /\ file \in [Films -> Scores \cup {NoScore}] /\ layout \in [Films -> Keepable]
    /\ film \in Films \cup {NoFilm} /\ version \in Versions \cup {Live}
    /\ score \in OnShow \cup {NoScore}
    /\ error \in BOOLEAN /\ dirty \in BOOLEAN /\ timer \in BOOLEAN /\ excused \in BOOLEAN
    /\ order \in Keepable
    /\ saving \in {"none", "saving", "saved", "refused", "failed"}

Settled == ~excused /\ ~error /\ score # NoScore /\ ~Awaited(Opening)

\* A page that says Saved shows what is in the file of its film: every edit made
\* is there, none that was refused, and undone ones are gone (App.tsx save,
\* history.ts dirty). Not so for an edit made while the save was on its way.
SavedMeansSaved ==
    Settled /\ ~dirty /\ version = Live => file[score.of].text = score.text

\* What the two pickers say is what is shown (App.tsx openFilm, useVersions.ts).
ShownIsSelected == Settled => score.of = film /\ score.kept = version

\* A film's score file holds that film's score and its arrangement that film's
\* arrangement, though saving names no film and the server writes to whichever
\* score it has open (studio.go handleScore, layout.go).
FilesStayHome ==
    ~excused => \A f \in Films :
        /\ f \in Scored => file[f].of = f
        /\ layout[f] \in {Plain, f}

\* The button does not say saving for ever.
SaveEnds == saving = "saving" ~> saving # "saving"
=============================================================================
