------------------------------- MODULE Library -------------------------------
(***************************************************************************)
(* The library: the list of films and the work that is going on (Library.tsx) *)
(* with the queue that does it (jobs.go, analyse.go, chunks.go, partials.go), *)
(* which page of the list is shown and what the picker picks (paging.ts,      *)
(* FilmPicker.tsx), what the model saw of a film (Vision.tsx) and the trim of *)
(* the lights (LiveTrim.tsx).                                                *)
(*                                                                         *)
(* Each of the four keeps its own state. An analysis is made in pieces; what  *)
(* is in a piece, a description or a score is left out.                      *)
(***************************************************************************)
EXTENDS Integers, FiniteSets, SequencesExt

CONSTANTS
    Films,
    Pieces,        \* an analysis has this many
    MaxPosts,      \* bound on what is asked of the queue
    MaxAsks,       \* bound on the lists on their way when another is asked for
    MaxRestarts,   \* bound on restarts of the studio
    Names, Words,  \* of films in the list, and the words each is found by
    Queries,       \* what may be typed to find a film: sets of words
    Sizes,         \* films per page, 0 for all of them
    Notes, Tidied, \* what a person may say about a film, and what the server makes of it
    Lights, Trims, \* instruments with a trim, and where a slider may stand
    MaxMoves       \* bound on moves of the sliders

ASSUME LibraryAssumption ==
    /\ IsFiniteSet(Films) /\ Pieces \in Nat \ {0} /\ MaxPosts \in Nat /\ MaxAsks \in Nat /\ MaxRestarts \in Nat
    /\ Sizes \subseteq Nat /\ "" \in Notes /\ Tidied \in [Notes -> Notes] /\ 0 \in Trims /\ MaxMoves \in Nat

VARIABLES
    films, scored, prepared,       \* on the server's disk
    partials,                      \* film -> the pieces whose score is written
    jobs,                          \* <<kind, film>> -> [state, chunks]
    queue, run,                    \* what waits, and what is being done
    listed, polling, timer,        \* Library: data, polling.current, the next tick
    asks, posts,                   \* requests on their way
    dialog,                        \* Confirm: what is asked about
    posted, restarts,              \* counters
    unheard                        \* a tick was answered with an error, or not at all

server == <<films, scored, prepared, partials, jobs, queue, run>>
watch == <<listed, polling, timer>>
pageVars == <<watch, asks, posts, dialog, posted, restarts, unheard>>
jobVars == <<server, pageVars>>

VARIABLES found, query, page, size, at        \* the list, its filter, its page; the cursor
browseVars == <<found, query, page, size, at>>

VARIABLES note, seen, about, saved, saving, letters, visits   \* the server's; Vision's
visionVars == <<note, seen, about, saved, saving, letters, visits>>

VARIABLES trimmed, trims, pending, sending, trimPosts, moves, loading
trimVars == <<trimmed, trims, pending, sending, trimPosts, moves, loading>>

-----------------------------------------------------------------------------
(* The queue *)

Kinds == {"build", "prepare"}
Keys == Kinds \X Films
Busy(job) == job.state \in {"queued", "running"}
Finished(job) == {i \in DOMAIN job.chunks : job.chunks[i] = "done"}
NoJob == [state |-> "", chunks |-> <<>>]
Idle == [key |-> <<"", "">>, at |-> 0, phase |-> "idle"]

\* Queued again a job keeps what was finished: this is how it is resumed. One that
\* is queued or runs is left alone.
Enqueued(keys) ==
    [k \in Keys |-> IF k \in keys /\ ~Busy(jobs[k])
                    THEN [state |-> "queued", chunks |-> jobs[k].chunks] ELSE jobs[k]]

\* pump: whoever is first runs at once, one at a time.
Pump(js, waiting) ==
    /\ jobs' = js
    /\ IF run = Idle /\ waiting # <<>>
       THEN run' = [key |-> Head(waiting), at |-> 0, phase |-> "called"] /\ queue' = Tail(waiting)
       ELSE queue' = waiting /\ UNCHANGED run
Enqueue(keys) ==
    Pump(Enqueued(keys), queue \o SetToSeq({k \in keys : ~Busy(jobs[k])}))

SetJob(state, chunks) == jobs' = [jobs EXCEPT ![run.key] = [state |-> state, chunks |-> chunks]]
Done(state, chunks) ==
    LET js == [jobs EXCEPT ![run.key] = [state |-> state, chunks |-> chunks]]
    IN /\ jobs' = js
       /\ IF queue = <<>> THEN run' = Idle /\ UNCHANGED queue
          ELSE run' = [key |-> Head(queue), at |-> 0, phase |-> "called"] /\ queue' = Tail(queue)

Film == run.key[2]
Chunks == jobs[run.key].chunks

\* One before the first that is not done, and the first when none is.
ResumeAt(chunks) ==
    LET open == {i \in DOMAIN chunks : chunks[i] # "done"}
    IN IF open = {} THEN Len(chunks) + 1 ELSE Max({1, Min(open) - 1})

\* A plan with nothing left to do is made again.
Starts ==
    /\ run.phase = "called"
    /\ LET plan == IF Len(Chunks) = 0 \/ Finished(jobs[run.key]) = DOMAIN Chunks
                   THEN [i \in 1..Pieces |-> "queued"] ELSE Chunks
           first == ResumeAt(plan)
       IN IF run.key[1] = "prepare"
          THEN SetJob("running", <<>>) /\ run' = [run EXCEPT !.phase = "preparing"]
          ELSE SetJob("running", [plan EXCEPT ![first] = "running"])
               /\ run' = [run EXCEPT !.at = first, !.phase = "piece"]
    /\ UNCHANGED <<films, scored, prepared, partials, queue>>

Prepares ==
    /\ run.phase = "preparing" /\ Film \in films
    /\ prepared' = prepared \cup {Film} /\ Done("done", <<>>)
    /\ UNCHANGED <<films, scored, partials>>

\* The partial is on disk before the piece is said to be done.
WritesPartial ==
    /\ run.phase = "piece"
    /\ partials' = [partials EXCEPT ![Film] = @ \cup {run.at}]
    /\ run' = [run EXCEPT !.phase = "written"]
    /\ UNCHANGED <<films, scored, prepared, jobs, queue>>

\* A record that was reset meanwhile has no piece to mark.
Marked(chunks, i, s) == IF i \in DOMAIN chunks THEN [chunks EXCEPT ![i] = s] ELSE chunks
FinishesPiece ==
    /\ run.phase = "written"
    /\ LET next == Marked(Chunks, run.at, "done")
       IN IF run.at < Pieces
          THEN /\ SetJob(jobs[run.key].state, Marked(next, run.at + 1, "running"))
               /\ run' = [run EXCEPT !.at = @ + 1, !.phase = "piece"]
          ELSE SetJob(jobs[run.key].state, next) /\ run' = [run EXCEPT !.phase = "joining"]
    /\ UNCHANGED <<films, scored, prepared, partials, queue>>

\* Mutation: the partials go before the score is written.
JoinsHastily ==
    /\ run.phase = "joining" /\ partials[Film] # {}
    /\ \E ok \in BOOLEAN :
         /\ partials' = [partials EXCEPT ![Film] = {}]
         /\ scored' = IF ok THEN scored \cup {Film} ELSE scored
         /\ Done(IF ok THEN "done" ELSE "failed", Chunks)
    /\ UNCHANGED <<films, prepared>>

\* The partials go once the score is written.
Joins ==
    /\ run.phase = "joining" /\ partials[Film] # {}
    /\ scored' = scored \cup {Film}
    /\ partials' = [partials EXCEPT ![Film] = {}]
    /\ Done("done", Chunks)
    /\ UNCHANGED <<films, prepared>>

\* Anything a run does may fail: what it calls is external. The piece is marked.
Fails ==
    /\ run.phase \in {"called", "preparing", "piece", "joining"}
    /\ Done("failed", IF run.phase = "piece" THEN Marked(Chunks, run.at, "failed") ELSE Chunks)
    /\ UNCHANGED <<films, scored, prepared, partials>>

Works ==
    /\ Starts \/ Prepares \/ WritesPartial \/ FinishesPiece \/ Joins \/ Fails
    /\ UNCHANGED pageVars

\* The studio goes and comes back with what it had written down. What it was asked
\* and had not answered is never answered.
Restart ==
    /\ restarts < MaxRestarts /\ restarts' = restarts + 1 /\ run # Idle
    /\ LET stopped(c) == IF c \in {"running", "queued"} THEN "interrupted" ELSE c
       IN jobs' = [k \in Keys |-> [state |-> stopped(jobs[k].state),
                                   chunks |-> [i \in DOMAIN jobs[k].chunks |-> stopped(jobs[k].chunks[i])]]]
    /\ queue' = <<>> /\ run' = Idle
    /\ posts' = {}
    /\ UNCHANGED <<films, scored, prepared, partials, watch, asks, dialog, posted, unheard>>

-----------------------------------------------------------------------------
(* The page, and what it asks *)

\* What the server tells of its films, as far as the page tells it apart: whether there
\* is work, whether it stopped with some pieces finished, whether there are any.
Resumable(job) == ~Busy(job) /\ Finished(job) # {} /\ Finished(job) # DOMAIN job.chunks
Entry(f) ==
    LET build == jobs[<<"build", f>>]
    IN [building |-> Busy(build), resumable |-> Resumable(build), planned |-> Len(build.chunks) > 0,
        preparing |-> Busy(jobs[<<"prepare", f>>]), scored |-> f \in scored, prepared |-> f \in prepared]
View == [f \in films |-> Entry(f)]
Nobody == [f \in {} |-> FALSE]
NoView == [is |-> "none", of |-> Nobody]
Entries == DOMAIN listed.of
BusyEntry(e) == e.building \/ e.preparing
BusyView(view) == \E f \in DOMAIN view : BusyEntry(view[f])

Ask(by) == asks' = Append(asks, [by |-> by, is |-> "waiting", of |-> Nobody])

Tick ==
    /\ timer /\ timer' = FALSE /\ Ask("tick")
    /\ UNCHANGED <<server, listed, polling, posts, dialog, posted, restarts, unheard>>

ServeList(k) ==
    /\ asks[k].is = "waiting" /\ asks' = [asks EXCEPT ![k].is = "list", ![k].of = View]
    /\ UNCHANGED <<server, watch, posts, dialog, posted, restarts, unheard>>

\* Mutation: a new list does not set off the watch.
WatchedByTicksOnly(view, by) ==
    LET again == BusyView(view)
    IN IF by = "tick" THEN polling' = again /\ timer' = again ELSE UNCHANGED <<polling, timer>>

\* A tick asks for the next as long as there is work, and a new list with work in it
\* sets off the first.
Watched(view, by) ==
    LET again == BusyView(view)
    IN IF by = "tick" \/ (~polling /\ again) THEN polling' = again /\ timer' = again
       ELSE UNCHANGED <<polling, timer>>

ReceiveList(k) ==
    /\ asks[k].is = "list" /\ asks' = RemoveAt(asks, k)
    /\ listed' = [is |-> "list", of |-> asks[k].of]
    /\ Watched(asks[k].of, asks[k].by)
    /\ UNCHANGED <<server, posts, dialog, posted, restarts, unheard>>

\* Refused, the watch ends; unanswered, it never asks again and never begins again.
NoList(k) ==
    /\ asks[k].is = "waiting" /\ asks' = RemoveAt(asks, k)
    /\ IF asks[k].by = "tick" THEN unheard' = TRUE /\ polling' \in {polling, FALSE}
       ELSE UNCHANGED <<unheard, polling>>
    /\ UNCHANGED <<server, listed, timer, posts, dialog, posted, restarts>>

\* The buttons of a film; the finished pieces are what Resume goes on from.
Offered(e) ==
    {"delete"} \cup (IF e.scored THEN {"open", "get"} ELSE {})
    \cup (IF e.building THEN {} ELSE {IF e.resumable THEN "resume" ELSE "build"})
    \cup (IF e.building \/ ~e.planned THEN {} ELSE {"reset"})
    \cup (IF e.prepared \/ e.preparing THEN {} ELSE {"prepare"})

Post(p) ==
    /\ posted < MaxPosts /\ posts' = posts \cup {p} /\ posted' = posted + 1

Press(f, what) ==
    /\ f \in Entries /\ what \in Offered(listed.of[f]) \cap {"build", "resume", "prepare"}
    /\ dialog = <<>>
    /\ Post([what |-> IF what = "prepare" THEN what ELSE "build", film |-> f, score |-> FALSE])
    /\ UNCHANGED <<server, watch, asks, dialog, restarts, unheard>>
PressAll(what) ==
    /\ listed # NoView /\ dialog = <<>> /\ films # {}
    /\ Post([what |-> what, film |-> "", score |-> FALSE])
    /\ UNCHANGED <<server, watch, asks, dialog, restarts, unheard>>

\* What cannot be got back is asked about first, in the words of the list at that time.
AskAbout(f, what) ==
    /\ f \in Entries /\ what \in Offered(listed.of[f]) \cap {"reset", "delete"}
    /\ dialog = <<>>
    /\ dialog' = <<[what |-> what, film |-> f, score |-> listed.of[f].scored]>>
    /\ UNCHANGED <<server, watch, asks, posts, posted, restarts, unheard>>
Confirmed ==
    /\ dialog # <<>> /\ Post(dialog[1]) /\ dialog' = <<>>
    /\ UNCHANGED <<server, watch, asks, restarts, unheard>>
KeepIt ==
    /\ dialog # <<>> /\ dialog' = <<>>
    /\ UNCHANGED <<server, watch, asks, posts, posted, restarts, unheard>>

\* handleBuild, handlePrepare, handleDelete. Reset and built in one request.
Handle(p) ==
    CASE p.what = "build" ->
           /\ Enqueue({"build"} \X (IF p.film = "" THEN films ELSE {p.film} \cap films))
           /\ UNCHANGED <<films, scored, prepared, partials>>
      [] p.what = "prepare" ->
           /\ Enqueue({"prepare"} \X (IF p.film = "" THEN films \ prepared ELSE {p.film} \cap films))
           /\ UNCHANGED <<films, scored, prepared, partials>>
      [] p.what = "reset" /\ p.film \in films ->
           /\ partials' = [partials EXCEPT ![p.film] = {}]
           /\ Pump([jobs EXCEPT ![<<"build", p.film>>] = [NoJob EXCEPT !.state = "queued"]],
                   Append(queue, <<"build", p.film>>))
           /\ UNCHANGED <<films, scored, prepared>>
      [] p.what = "delete" /\ p.film \in films ->
           /\ films' = films \ {p.film} /\ prepared' = prepared \ {p.film}
           /\ scored' = IF p.score THEN scored \ {p.film} ELSE scored
           /\ UNCHANGED <<partials, jobs, queue, run>>
      [] OTHER -> UNCHANGED server

\* Whatever the answer, the list is read again.
Served(p) ==
    /\ p \in posts /\ posts' = posts \ {p} /\ Len(asks) < MaxAsks
    /\ Handle(p)
    /\ Ask("page")
    /\ UNCHANGED <<watch, dialog, posted, restarts, unheard>>

\* The answer is lost, and whether it was handled is anyone's guess: nothing is read.
ServedUnheard(p) ==
    /\ p \in posts /\ posts' = posts \ {p}
    /\ Handle(p)
    /\ UNCHANGED <<watch, asks, dialog, posted, restarts, unheard>>

\* A film is sent up. Answered, whatever the answer, the list is read; unanswered, not.
Upload(f) ==
    /\ listed # NoView /\ dialog = <<>> /\ posted < MaxPosts /\ posted' = posted + 1
    /\ films' \in {films, films \cup {f}}
    /\ \/ Len(asks) < MaxAsks /\ Ask("page")
       \/ UNCHANGED asks
    /\ UNCHANGED <<scored, prepared, partials, jobs, queue, run, watch, posts, dialog, restarts, unheard>>

JobInit ==
    /\ films = Films /\ scored = {} /\ prepared = {}
    /\ partials = [f \in Films |-> {}] /\ jobs = [k \in Keys |-> NoJob]
    /\ queue = <<>> /\ run = Idle
    /\ listed = NoView /\ polling = FALSE /\ timer = FALSE
    /\ asks = <<[by |-> "page", is |-> "waiting", of |-> Nobody]>> /\ posts = {} /\ dialog = <<>>
    /\ posted = 0 /\ restarts = 0 /\ unheard = FALSE

JobNext ==
    \/ Works \/ Restart \/ Tick \/ Confirmed \/ KeepIt
    \/ \E k \in DOMAIN asks : ServeList(k) \/ ReceiveList(k) \/ NoList(k)
    \/ \E f \in Films : \E what \in {"build", "resume", "prepare"} : Press(f, what)
    \/ \E what \in Kinds : PressAll(what)
    \/ \E f \in Films : \E what \in {"reset", "delete"} : AskAbout(f, what)
    \/ \E p \in posts : Served(p) \/ ServedUnheard(p)
    \/ \E f \in Films : Upload(f)

-----------------------------------------------------------------------------
(* Which films are shown: paging.ts, and the cursor of FilmPicker.tsx *)

\* Every word that is typed is somewhere in the name.
Matches(items, words) == SelectSeq(items, LAMBDA f : words \subseteq Words[f])

\* A page that is no longer there is the last that is.
Paginate(items, n, per) ==
    LET pages == (Len(items) + per - 1) \div per
        shown == Min({Max({1, n}), pages})
    IN IF per = 0 \/ items = <<>> THEN [items |-> items, page |-> 1, pages |-> 1]
       ELSE [items |-> SubSeq(items, (shown - 1) * per + 1, Min({shown * per, Len(items)})),
             page |-> shown, pages |-> pages]

ShownPage == Paginate(Matches(found, query), page, size)

\* Another filter begins at the first page and the first film.
TypeQuery(words) ==
    /\ words # query /\ query' = words /\ page' = 1 /\ at' = 1 /\ UNCHANGED <<found, size>>
Resize(n) == n # size /\ size' = n /\ page' = 1 /\ UNCHANGED <<found, query, at>>
Turn(by) ==
    /\ IF by < 0 THEN ShownPage.page > 1 ELSE ShownPage.page < ShownPage.pages
    /\ page' = page + by /\ UNCHANGED <<found, query, size, at>>
Move(by) ==
    /\ at' = IF by > 0 THEN Min({Len(Matches(found, query)), at + 1}) ELSE Max({1, at - 1})
    /\ UNCHANGED <<found, query, page, size>>
\* Picked, the filter is emptied and so the cursor is first again.
Enter ==
    /\ at \in DOMAIN Matches(found, query)
    /\ query' = {} /\ at' = (IF query = {} THEN at ELSE 1) /\ page' = (IF query = {} THEN page ELSE 1)
    /\ UNCHANGED <<found, size>>
\* Films come and go.
ListChanges ==
    /\ \/ \E f \in ToSet(found) : found' = SelectSeq(found, LAMBDA g : g # f)
       \/ \E f \in Names \ ToSet(found) : found' = Append(found, f)
    /\ UNCHANGED <<query, page, size, at>>

BrowseInit == found = SetToSeq(Names) /\ query = {} /\ page = 1 /\ size \in Sizes /\ at = 1
BrowseNext ==
    \/ \E words \in Queries : TypeQuery(words)
    \/ \E n \in Sizes : Resize(n)
    \/ \E by \in {-1, 1} : Turn(by) \/ Move(by)
    \/ Enter \/ ListChanges

-----------------------------------------------------------------------------
(* What the model saw, and what the person says of the film *)

Visit(n) == [visit |-> visits, body |-> n]

OpenVision ==
    /\ seen = "shut" /\ visits < MaxPosts
    /\ seen' = "asked" /\ visits' = visits + 1
    /\ about' = "" /\ saved' = "" /\ saving' = FALSE
    /\ UNCHANGED <<note, letters>>
\* Read, or not to be read; the box is there only once it is.
ReceiveSeen ==
    /\ seen = "asked"
    /\ \/ seen' = "read" /\ about' = note /\ saved' = note
       \/ seen' = "failed" /\ UNCHANGED <<about, saved>>
    /\ UNCHANGED <<note, saving, letters, visits>>
TypeAbout(n) ==
    /\ seen = "read" /\ n # about /\ about' = n
    /\ UNCHANGED <<note, seen, saved, saving, letters, visits>>
SaveAbout ==
    /\ seen = "read" /\ ~saving /\ about # saved
    /\ saving' = TRUE /\ letters' = Append(letters, Visit(about))
    /\ UNCHANGED <<note, seen, about, saved, visits>>
CloseVision ==
    /\ seen # "shut" /\ seen' = "shut"
    /\ UNCHANGED <<note, about, saved, saving, letters, visits>>

\* The server keeps it without the blanks around it and says so; or does not.
LetterAnswered(k) ==
    LET l == letters[k]
    IN /\ letters' = RemoveAt(letters, k)
       /\ \E kept, answered \in BOOLEAN :
            /\ note' = IF kept THEN Tidied[l.body] ELSE note
            /\ IF l.visit = visits /\ seen = "read"
               THEN saving' = FALSE /\ saved' = IF kept /\ answered THEN note' ELSE saved
               ELSE UNCHANGED <<saved, saving>>
       /\ UNCHANGED <<about, seen, visits>>

VisionInit ==
    note = "" /\ seen = "shut" /\ about = "" /\ saved = "" /\ saving = FALSE /\ letters = <<>> /\ visits = 0
VisionNext ==
    \/ OpenVision \/ ReceiveSeen \/ SaveAbout \/ CloseVision
    \/ \E n \in Notes : TypeAbout(n)
    \/ \E k \in DOMAIN letters : LetterAnswered(k)

-----------------------------------------------------------------------------
(* The trim of the lights *)

NoTrim == 0
Untold == [l \in {} |-> NoTrim]

\* What was set before, unless a slider was moved meanwhile: then that is gone.
TrimsLoaded ==
    /\ loading /\ loading' = FALSE
    /\ \/ trims' = trimmed \/ UNCHANGED trims
    /\ UNCHANGED <<trimmed, pending, sending, trimPosts, moves>>

\* One wait for all that moves during it.
Send(l, v) == pending' = (l :> v) @@ pending /\ sending' = TRUE

MoveTrim(l, v) ==
    /\ moves < MaxMoves /\ moves' = moves + 1
    /\ v # trims[l] /\ trims' = [trims EXCEPT ![l] = v]
    /\ Send(l, v)
    /\ UNCHANGED <<trimmed, trimPosts, loading>>
TrimsSent ==
    /\ sending /\ sending' = FALSE /\ pending' = Untold
    /\ trimPosts' = trimPosts \o SetToSeq({[light |-> l, v |-> pending[l]] : l \in DOMAIN pending})
    /\ UNCHANGED <<trimmed, trims, moves, loading>>
\* In whatever order they arrive; one that is lost is not sent again.
TrimHandled(k) ==
    /\ trimPosts' = RemoveAt(trimPosts, k)
    /\ \/ trimmed' = [trimmed EXCEPT ![trimPosts[k].light] = trimPosts[k].v]
       \/ UNCHANGED trimmed
    /\ UNCHANGED <<trims, pending, sending, moves, loading>>

TrimInit ==
    /\ trimmed \in [Lights -> Trims] /\ trims = [l \in Lights |-> NoTrim]
    /\ pending = Untold /\ sending = FALSE /\ trimPosts = <<>> /\ moves = 0
    /\ loading = TRUE
TrimNext ==
    \/ TrimsLoaded \/ TrimsSent
    \/ \E l \in Lights, v \in Trims : MoveTrim(l, v)
    \/ \E k \in DOMAIN trimPosts : TrimHandled(k)

-----------------------------------------------------------------------------
(* Properties *)

\* A finished piece is not lost: its score goes only when the pieces are joined into the
\* film's, and the record of it only when the run takes it up again, one piece back, or
\* makes a new plan; otherwise somebody confirmed a reset. Through failures, restarts
\* and whatever is queued twice (jobs.go Enqueue, analyse.go, Library.tsx reset).
PiecesAreKept ==
    [][\A f \in Films :
        LET was == jobs[<<"build", f>>]
            is == jobs'[<<"build", f>>]
            reset == \E p \in posts \ posts' : p.what = "reset" /\ p.film = f
        IN /\ partials[f] \subseteq partials'[f] \/ reset \/ (run.phase = "joining" /\ is.state = "done")
           /\ \/ Cardinality(Finished(was) \ Finished(is)) <= 1 \/ reset
              \/ Finished(was) = DOMAIN was.chunks
      ]_jobVars

\* Work that the list shows is watched until it ends, however the answers cross, unless
\* a tick is answered with an error or not at all (Library.tsx, the poll).
WatchedToTheEnd ==
    \A f \in Films :
        (f \in Entries /\ BusyEntry(listed.of[f]))
        ~> (unheard \/ ~(f \in Entries /\ BusyEntry(listed.of[f])))
=============================================================================
