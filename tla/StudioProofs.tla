----------------------------- MODULE StudioProofs -----------------------------
(***************************************************************************)
(* That a page and a server which share one open score do not mix films up, *)
(* for any number of films, versions, edits and requests.                   *)
(*                                                                         *)
(* No request names the film it writes to, so everything rests on when the  *)
(* open score may change: only when nothing else is under way.  A request   *)
(* that opens is then alone, and any other is of the score that is open.    *)
(***************************************************************************)
EXTENDS Studio, TLAPS

Kinds == {"load", "film", "latest", "version", "save", "layout", "arrange"}
Naming == {"film", "latest", "version"}
Bodies == Scores \cup {NoScore} \cup Keepable
Requests == [id: Int, kind: Kinds, film: Films \cup {NoFilm}, version: Versions \cup {Live},
             body: Bodies, answer: Bodies, handled: BOOLEAN, ok: BOOLEAN]

\* What a request carries, and what it is answered with.
Carries(r) ==
    /\ r.kind \in Naming => r.film \in Films
    /\ r.kind = "save" => r.body \in Scores
    /\ r.kind = "arrange" => r.body \in Keepable
    /\ r.kind = "load" /\ r.handled => r.ok
    /\ r.kind \in Opening /\ r.handled /\ r.ok => r.answer \in Scores
    /\ r.kind = "layout" /\ r.handled => r.answer \in Keepable

Entries == [load: Nat, was: -1..MaxEdits, will: -1..MaxEdits, before: BOOLEAN, after: BOOLEAN]

TypeInv ==
    /\ TypeOK
    /\ \A f \in Films : IF f \in Scored THEN file[f] \in Scores ELSE file[f] = NoScore
    /\ net \subseteq Requests /\ \A r \in net : Carries(r)
    /\ past \in Seq(Entries) /\ future \in Seq(Entries)
    /\ score = NoScore => past = <<>> /\ future = <<>>
    /\ edits \in 0..MaxEdits /\ sent \in Nat /\ loads \in Nat

\* Of a calm page: every file is its own film's; a request that opens is alone;
\* it is of what the pickers say, and opens it; any other is of the open score; and
\* what is shown is what is open, until the answer that opened another is in.
Home == \A f \in Films : /\ f \in Scored => file[f].of = f
                         /\ layout[f] \in {Plain, f}
Alone == \A r \in net : r.kind \in Opening => net = {r} /\ ~timer
Loading == \A r \in net : r.kind = "load" =>
    /\ score = NoScore /\ version = Live /\ r.version = Live /\ ~dirty
    /\ r.handled => r.answer = file[open]
Picking == \A r \in net : r.kind \in Naming =>
    /\ r.film = film /\ r.version = version
    /\ r.kind = "version" <=> version # Live
    /\ r.handled /\ ~r.ok => r.film \notin Scored
    /\ r.handled /\ r.ok => /\ r.answer.of = r.film /\ open = r.film
                            /\ r.kind # "version" => r.answer = file[r.film]
Saving == \A r \in net : r.kind = "save" =>
    /\ score # NoScore /\ r.body.of = score.of /\ r.body.text = score.text
    /\ r.handled /\ r.ok => file[open].text = score.text
Arranging ==
    /\ \A r \in net : /\ r.kind = "arrange" => r.body \in {Plain, open}
                      /\ r.kind = "layout" /\ r.handled => r.answer \in {Plain, open}
    /\ timer => order \in {Plain, open}
Reopened == \E r \in net : r.kind = "film" /\ r.handled /\ r.ok
ShownIsOpen == score # NoScore /\ ~Reopened => score.of = open
PickedIsOpen == film \in Scored /\ ~Awaited({"load", "film"}) => film = open
Selected == ~error /\ score # NoScore /\ ~Awaited(Opening) => score.of = film /\ score.kept = version
Stored == /\ ~error /\ score # NoScore /\ ~Awaited(Opening) /\ ~dirty /\ version = Live
          => file[score.of].text = score.text

Calm == /\ Home /\ Alone /\ Loading /\ Picking /\ Saving /\ Arranging
        /\ ShownIsOpen /\ PickedIsOpen /\ Selected /\ Stored
CalmInv == ~excused => Calm

-----------------------------------------------------------------------------
(* The type invariant *)

LEMMA RequestTyped ==
    ASSUME NEW r \in Requests
    PROVE  /\ r.kind \in Kinds /\ r.film \in Films \cup {NoFilm} /\ r.version \in Versions \cup {Live}
           /\ r.body \in Bodies /\ r.answer \in Bodies /\ r.handled \in BOOLEAN /\ r.ok \in BOOLEAN
  BY DEF Requests

LEMMA ScoreIs ==
    /\ \A f \in Films : Original(f) \in Scores /\ KeptScore(f) \in Scores
    /\ \A f \in Films : Original(f).of = f /\ KeptScore(f).of = f
    /\ Scores \subseteq Bodies /\ Keepable \subseteq Bodies /\ NoScore \in Bodies
    /\ \A s \in Scores : s # NoScore /\ s.of \in Films
<1>1. MaxEdits \in Nat
  BY StudioAssumption
<1>2. 0 \in -1..MaxEdits /\ -1 \in -1..MaxEdits
  BY <1>1
<1>3. \A f \in Films : /\ Original(f) \in Scores /\ KeptScore(f) \in Scores
                       /\ Original(f).of = f /\ KeptScore(f).of = f
  BY <1>2 DEF Original, KeptScore, Scores
<1>4. \A s \in Scores : s # NoScore /\ s.of \in Films
  BY NoScoreAssumption DEF Scores
<1>5. QED
  BY <1>3, <1>4 DEF Bodies

\* Sending and answering keep the network in order.
LEMMA SendTyped ==
    ASSUME net \subseteq Requests, \A r \in net : Carries(r), sent \in Nat,
           NEW q, q \in Requests, Carries(q), Send(q)
    PROVE  /\ net' \subseteq Requests /\ \A r \in net' : Carries(r)
           /\ sent' \in Nat
  BY DEF Send

LEMMA AnswerTyped ==
    ASSUME net \subseteq Requests, \A r \in net : Carries(r),
           NEW r \in net, NEW ok \in BOOLEAN, NEW body \in Bodies, Answer(r, ok, body),
           r.kind = "load" => ok,
           r.kind \in Opening /\ ok => body \in Scores,
           r.kind = "layout" => body \in Keepable
    PROVE  net' \subseteq Requests /\ \A x \in net' : Carries(x)
<1> DEFINE q == [r EXCEPT !.handled = TRUE, !.ok = ok, !.answer = body]
<1>1. /\ q \in Requests
      /\ q.kind = r.kind /\ q.film = r.film /\ q.version = r.version /\ q.body = r.body
      /\ q.handled = TRUE /\ q.ok = ok /\ q.answer = body
  <2>1. r \in Requests
    OBVIOUS
  <2>2. QED
    BY <2>1 DEF Requests
<1>2. net' = (net \ {r}) \cup {q}
  BY DEF Answer
<1> HIDE DEF q
<1>3. Carries(q)
  BY <1>1 DEF Carries
<1>4. QED
  BY <1>1, <1>2, <1>3

LEMMA StackIs ==
    ASSUME NEW s \in Seq(Entries)
    PROVE  /\ \A e \in Entries : Append(s, e) \in Seq(Entries) /\ Append(s, e) # <<>>
           /\ s # <<>> => Front(s) \in Seq(Entries) /\ Last(s) \in Entries
<1>1. \A e \in Entries : Append(s, e) \in Seq(Entries) /\ Append(s, e) # <<>>
  <2>1. TAKE e \in Entries
  <2>2. Append(s, e) \in Seq(Entries)
    OBVIOUS
  <2>3. Len(Append(s, e)) = Len(s) + 1 /\ Len(s) \in Nat /\ Len(<<>>) = 0
    OBVIOUS
  <2>4. QED
    BY <2>2, <2>3
<1>2. ASSUME s # <<>> PROVE Front(s) \in Seq(Entries) /\ Last(s) \in Entries
  <2>1. Len(s) \in Nat /\ Len(s) > 0
    BY <1>2
  <2>2. Last(s) \in Entries
    BY <2>1 DEF Last
  <2>3. Front(s) \in Seq(Entries)
    BY <2>1 DEF Front
  <2>4. QED
    BY <2>2, <2>3
<1>3. QED
  BY <1>1, <1>2

LEMMA InitTyped == Init => TypeInv
<1> SUFFICES ASSUME Init PROVE TypeInv
  OBVIOUS
<1>1. TypeOK
  BY ScoreIs DEF Init, TypeOK, Keepable
<1>2. \A f \in Films : IF f \in Scored THEN file[f] \in Scores ELSE file[f] = NoScore
  BY ScoreIs DEF Init
<1>3. net \subseteq Requests /\ \A r \in net : Carries(r)
  <2>1. NoScore \in Bodies /\ "load" \in Kinds
    BY ScoreIs DEF Kinds
  <2>2. net \subseteq Requests
    BY <2>1 DEF Init, Requests
  <2>3. \A r \in net : r.kind = "load" /\ r.handled = FALSE
    BY DEF Init
  <2>4. QED
    BY <2>2, <2>3 DEF Carries, Naming
<1>4. past \in Seq(Entries) /\ future \in Seq(Entries) /\ past = <<>> /\ future = <<>>
  BY DEF Init
<1>5. edits \in 0..MaxEdits /\ sent \in Nat /\ loads \in Nat
  BY StudioAssumption DEF Init
<1>6. QED
  BY <1>1, <1>2, <1>3, <1>4, <1>5 DEF TypeInv

LEMMA HandleTyped ==
    ASSUME TypeInv, NEW r \in net, Handle(r)
    PROVE  TypeInv'
<1>1. /\ TypeOK /\ net \subseteq Requests /\ \A x \in net : Carries(x)
      /\ \A f \in Films : IF f \in Scored THEN file[f] \in Scores ELSE file[f] = NoScore
  BY DEF TypeInv
<1>2. r \in Requests /\ Carries(r)
  BY <1>1
<1>3. open \in Scored /\ open \in Films /\ Scored \subseteq Films /\ layout \in [Films -> Keepable]
      /\ file \in [Films -> Scores \cup {NoScore}]
  BY <1>1 DEF TypeOK, Scored
<1>4. /\ UNCHANGED <<shown, stack, saving, arrangement, counters, excused>>
      /\ ~r.handled
  BY DEF Handle
<1>5. SUFFICES /\ net' \subseteq Requests /\ \A x \in net' : Carries(x)
               /\ open' \in Scored /\ layout' \in [Films -> Keepable]
               /\ file' \in [Films -> Scores \cup {NoScore}]
               /\ \A f \in Films : IF f \in Scored THEN file'[f] \in Scores ELSE file'[f] = NoScore
  BY <1>1, <1>4 DEF TypeInv, TypeOK, shown, stack, arrangement, counters
<1>6. CASE HandleGetScore(r)
  <2>1. UNCHANGED <<file, layout>> /\ r.kind \in Opening
    BY <1>6 DEF HandleGetScore
  <2>2. CASE r.kind = "load"
    <3>1. Answer(r, TRUE, file[open]) /\ open' = open
      BY <1>6, <2>2 DEF HandleGetScore
    <3>2. file[open] \in Scores /\ file[open] \in Bodies
      BY <1>1, <1>3, ScoreIs
    <3>3. net' \subseteq Requests /\ \A x \in net' : Carries(x)
      BY <1>1, <2>2, <3>1, <3>2, AnswerTyped DEF Opening
    <3>4. QED
      BY <1>1, <1>3, <2>1, <3>1, <3>3
  <2>3. CASE r.kind \in {"film", "latest"}
    <3>1. \/ file[r.film] = NoScore /\ Answer(r, FALSE, NoScore) /\ open' = open
          \/ file[r.film] # NoScore /\ Answer(r, TRUE, file[r.film]) /\ open' = r.film
      BY <1>6, <2>3 DEF HandleGetScore
    <3>2. r.film \in Films
      BY <1>2, <2>3 DEF Carries, Naming
    <3>3. CASE file[r.film] = NoScore
      <4>1. Answer(r, FALSE, NoScore) /\ open' = open /\ NoScore \in Bodies
        BY <3>1, <3>3, ScoreIs
      <4>2. net' \subseteq Requests /\ \A x \in net' : Carries(x)
        BY <1>1, <2>3, <4>1, AnswerTyped DEF Opening
      <4>3. QED
        BY <1>1, <1>3, <2>1, <4>1, <4>2
    <3>4. CASE file[r.film] # NoScore
      <4>1. Answer(r, TRUE, file[r.film]) /\ open' = r.film
        BY <3>1, <3>4
      <4>2. r.film \in Scored /\ file[r.film] \in Scores /\ file[r.film] \in Bodies
        BY <1>1, <3>2, <3>4, ScoreIs
      <4>3. net' \subseteq Requests /\ \A x \in net' : Carries(x)
        BY <1>1, <2>3, <4>1, <4>2, AnswerTyped DEF Opening
      <4>4. QED
        BY <1>1, <1>3, <2>1, <4>1, <4>2, <4>3
    <3>5. QED
      BY <3>3, <3>4
  <2>4. CASE r.kind = "version"
    <3>1. /\ \/ Answer(r, FALSE, NoScore)
             \/ Answer(r, TRUE, KeptScore(r.film))
          /\ open' = open
      BY <1>6, <2>4 DEF HandleGetScore
    <3>2. KeptScore(r.film) \in Scores /\ KeptScore(r.film) \in Bodies /\ NoScore \in Bodies
      BY <1>2, <2>4, ScoreIs DEF Carries, Naming
    <3>3. net' \subseteq Requests /\ \A x \in net' : Carries(x)
      <4>1. CASE Answer(r, FALSE, NoScore)
        BY <1>1, <2>4, <3>2, <4>1, AnswerTyped DEF Opening
      <4>2. CASE Answer(r, TRUE, KeptScore(r.film))
        BY <1>1, <2>4, <3>2, <4>2, AnswerTyped DEF Opening
      <4>3. QED
        BY <3>1, <4>1, <4>2
    <3>4. QED
      BY <1>1, <1>3, <2>1, <3>1, <3>3
  <2>5. QED
    BY <2>1, <2>2, <2>3, <2>4 DEF Opening
<1>7. CASE HandlePutScore(r)
  <2>1. r.kind = "save" /\ UNCHANGED <<open, layout>> /\ r.body \in Scores /\ NoScore \in Bodies
    BY <1>2, <1>7, ScoreIs DEF HandlePutScore, Carries
  <2>2. \/ file' = [file EXCEPT ![open] = r.body] /\ Answer(r, TRUE, NoScore)
        \/ file' = file /\ Answer(r, FALSE, NoScore)
    BY <1>7 DEF HandlePutScore
  <2>3. net' \subseteq Requests /\ \A x \in net' : Carries(x)
    <3>1. CASE Answer(r, TRUE, NoScore)
      BY <1>1, <2>1, <3>1, AnswerTyped DEF Opening
    <3>2. CASE Answer(r, FALSE, NoScore)
      BY <1>1, <2>1, <3>2, AnswerTyped DEF Opening
    <3>3. QED
      BY <2>2, <3>1, <3>2
  <2>4. /\ file' \in [Films -> Scores \cup {NoScore}]
        /\ \A f \in Films : IF f \in Scored THEN file'[f] \in Scores ELSE file'[f] = NoScore
    BY <1>1, <1>3, <2>1, <2>2
  <2>5. QED
    BY <1>3, <2>1, <2>3, <2>4
<1>8. CASE HandleLayout(r)
  <2>1. /\ \/ r.kind = "layout" /\ Answer(r, TRUE, layout[open]) /\ UNCHANGED layout
           \/ /\ r.kind = "arrange" /\ Answer(r, TRUE, NoScore)
              /\ layout' = [layout EXCEPT ![open] = r.body]
        /\ UNCHANGED <<open, file>>
    BY <1>8 DEF HandleLayout
  <2>2. CASE r.kind = "layout" /\ Answer(r, TRUE, layout[open]) /\ UNCHANGED layout
    <3>1. layout[open] \in Keepable /\ layout[open] \in Bodies
      BY <1>3, ScoreIs
    <3>2. net' \subseteq Requests /\ \A x \in net' : Carries(x)
      BY <1>1, <2>2, <3>1, AnswerTyped DEF Opening
    <3>3. QED
      BY <1>1, <1>3, <2>1, <2>2, <3>2
  <2>3. CASE /\ r.kind = "arrange" /\ Answer(r, TRUE, NoScore)
             /\ layout' = [layout EXCEPT ![open] = r.body]
    <3>1. r.body \in Keepable /\ NoScore \in Bodies
      BY <1>2, <2>3, ScoreIs DEF Carries
    <3>2. layout' \in [Films -> Keepable]
      BY <1>3, <2>3, <3>1
    <3>3. net' \subseteq Requests /\ \A x \in net' : Carries(x)
      BY <1>1, <2>3, <3>1, AnswerTyped DEF Opening
    <3>4. QED
      BY <1>1, <1>3, <2>1, <3>2, <3>3
  <2>4. QED
    BY <2>1, <2>2, <2>3
<1>9. QED
  BY <1>6, <1>7, <1>8 DEF Handle

LEMMA AskTyped ==
    ASSUME TypeInv, NEW kind \in Kinds, NEW f \in Films \cup {NoFilm},
           NEW v \in Versions \cup {Live}, NEW body \in Bodies,
           kind \in Naming => f \in Films,
           kind = "save" => body \in Scores,
           kind = "arrange" => body \in Keepable,
           Send(Request(kind, f, v, body))
    PROVE  net' \subseteq Requests /\ (\A r \in net' : Carries(r)) /\ sent' \in Nat
<1> DEFINE q == Request(kind, f, v, body)
<1>1. /\ q \in Requests
      /\ q.kind = kind /\ q.film = f /\ q.version = v /\ q.body = body
      /\ q.handled = FALSE /\ q.ok = FALSE
  <2>1. sent \in Int /\ NoScore \in Bodies
    BY ScoreIs DEF TypeInv
  <2>2. QED
    BY <2>1 DEF Request, Requests
<1> HIDE DEF q
<1>2. Carries(q)
  BY <1>1 DEF Carries
<1>3. net \subseteq Requests /\ (\A r \in net : Carries(r)) /\ sent \in Nat /\ Send(q)
  BY DEF TypeInv, q
<1>4. QED
  BY <1>1, <1>2, <1>3, SendTyped

LEMMA OpenTyped ==
    ASSUME TypeInv, (\E f \in Films : OpenFilm(f)) \/ (\E v \in Versions \cup {Live} : OpenVersion(v))
    PROVE  TypeInv'
<1>1. CASE \E f \in Films : OpenFilm(f)
  <2>1. PICK f \in Films : OpenFilm(f)
    BY <1>1
  <2>2. net' \subseteq Requests /\ (\A r \in net' : Carries(r)) /\ sent' \in Nat
    <3>1. Send(Request("film", f, Live, NoScore)) /\ NoScore \in Bodies /\ "film" \in Kinds
      BY <2>1, ScoreIs DEF OpenFilm, Kinds
    <3>2. QED
      BY <3>1, AskTyped
  <2>3. /\ film' = f /\ error' = FALSE /\ version' = IF f = film THEN version ELSE Live
        /\ UNCHANGED <<server, score, stack, saving, arrangement, edits, loads>>
        /\ excused' \in BOOLEAN
    BY <2>1 DEF OpenFilm, Hasty
  <2>4. QED
    BY <2>2, <2>3 DEF TypeInv, TypeOK, server, stack, arrangement
<1>2. CASE \E v \in Versions \cup {Live} : OpenVersion(v)
  <2>1. PICK v \in Versions \cup {Live} : OpenVersion(v)
    BY <1>2
  <2>2. net' \subseteq Requests /\ (\A r \in net' : Carries(r)) /\ sent' \in Nat
    <3>1. /\ Send(Request(IF v = Live THEN "latest" ELSE "version", film, v, NoScore))
          /\ film \in Films /\ NoScore \in Bodies
          /\ {"latest", "version"} \subseteq Kinds
      BY <2>1, ScoreIs DEF OpenVersion, Kinds, Scored
    <3>2. QED
      BY <3>1, AskTyped
  <2>3. /\ version' = v /\ error' = FALSE /\ excused' \in BOOLEAN
        /\ UNCHANGED <<server, film, score, stack, saving, arrangement, edits, loads>>
    BY <2>1 DEF OpenVersion, Hasty
  <2>4. QED
    BY <2>2, <2>3 DEF TypeInv, TypeOK, server, stack, arrangement
<1>3. QED
  BY <1>1, <1>2

\* Editing changes what the score on show says, not which it is.
LEMMA EditTakes ==
    ASSUME TypeInv, (\E ok \in BOOLEAN : Edit(ok)) \/ Undo \/ Redo
    PROVE  /\ score # NoScore /\ score' # NoScore /\ score' \in OnShow /\ edits' \in 0..MaxEdits
           /\ past' \in Seq(Entries) /\ future' \in Seq(Entries)
           /\ score'.of = score.of /\ score'.kept = score.kept
<1>1. /\ score \in OnShow \cup {NoScore} /\ past \in Seq(Entries) /\ future \in Seq(Entries)
      /\ score = NoScore => past = <<>> /\ future = <<>>
      /\ edits \in 0..MaxEdits /\ MaxEdits \in Nat
  BY StudioAssumption DEF TypeInv, TypeOK
<1>2. <<>> \in Seq(Entries)
  OBVIOUS
<1>3. /\ score # NoScore /\ score' \in OnShow /\ edits' \in 0..MaxEdits
      /\ past' \in Seq(Entries) /\ future' \in Seq(Entries)
  <2>1. CASE \E ok \in BOOLEAN : Edit(ok)
    <3>1. PICK ok \in BOOLEAN : Edit(ok)
      BY <2>1
    <3>2. /\ score \in OnShow /\ edits < MaxEdits /\ edits' = edits + 1
          /\ score' = [score EXCEPT !.text = edits + 1, !.valid = ok]
          /\ past' = Append(past, Entry(score.text, edits + 1, ok)) /\ future' = <<>>
      BY <1>1, <3>1 DEF Edit
    <3>3. edits + 1 \in 0..MaxEdits /\ edits + 1 \in -1..MaxEdits
      BY <1>1, <3>2
    <3>4. Entry(score.text, edits + 1, ok) \in Entries
      BY <3>2, <3>3 DEF Entry, Entries, OnShow
    <3>5. score' \in OnShow
      BY <3>2, <3>3 DEF OnShow
    <3>6. past' \in Seq(Entries)
      BY <1>1, <3>2, <3>4, StackIs
    <3>7. score # NoScore
      BY <3>2, NoScoreAssumption
    <3>8. QED
      BY <1>2, <3>2, <3>3, <3>5, <3>6, <3>7
  <2>2. CASE Undo
    <3>1. past # <<>> /\ UNCHANGED edits
      BY <2>2 DEF Undo, counters
    <3>2. score \in OnShow /\ Last(past) \in Entries
      BY <1>1, <3>1, StackIs
    <3>3. /\ score' = IF Last(past).load = score.load
                      THEN [score EXCEPT !.text = Last(past).was, !.valid = Last(past).before] ELSE score
          /\ past' = Front(past) /\ future' = Append(future, Last(past))
      BY <2>2 DEF Undo
    <3>4. score' \in OnShow
      BY <3>2, <3>3 DEF OnShow, Entries
    <3>5. past' \in Seq(Entries) /\ future' \in Seq(Entries)
      BY <1>1, <3>1, <3>2, <3>3, StackIs
    <3>6. QED
      BY <1>1, <3>1, <3>2, <3>4, <3>5, NoScoreAssumption
  <2>3. CASE Redo
    <3>1. future # <<>> /\ UNCHANGED edits
      BY <2>3 DEF Redo, counters
    <3>2. score \in OnShow /\ Last(future) \in Entries
      BY <1>1, <3>1, StackIs
    <3>3. /\ score' = IF Last(future).load = score.load
                      THEN [score EXCEPT !.text = Last(future).will, !.valid = Last(future).after] ELSE score
          /\ future' = Front(future) /\ past' = Append(past, Last(future))
      BY <2>3 DEF Redo
    <3>4. score' \in OnShow
      BY <3>2, <3>3 DEF OnShow, Entries
    <3>5. past' \in Seq(Entries) /\ future' \in Seq(Entries)
      BY <1>1, <3>1, <3>2, <3>3, StackIs
    <3>6. QED
      BY <1>1, <3>1, <3>2, <3>4, <3>5, NoScoreAssumption
  <2>4. QED
    BY <2>1, <2>2, <2>3
<1>4. score \in OnShow /\ score' # NoScore
  BY <1>1, <1>3, NoScoreAssumption
<1>5. score'.of = score.of /\ score'.kept = score.kept
  BY <1>4 DEF Edit, Undo, Redo, OnShow
<1>6. QED
  BY <1>3, <1>4, <1>5

LEMMA EditTyped ==
    ASSUME TypeInv, (\E ok \in BOOLEAN : Edit(ok)) \/ Undo \/ Redo
    PROVE  TypeInv'
<1>1. /\ UNCHANGED <<server, film, version, error, saving, arrangement, net, sent, loads>>
      /\ dirty' = TRUE /\ excused' \in BOOLEAN
  BY DEF Edit, Undo, Redo, Hasty, counters
<1>2. QED
  BY <1>1, EditTakes DEF TypeInv, TypeOK, server, arrangement

LEMMA SaveTyped ==
    ASSUME TypeInv, Save
    PROVE  TypeInv'
<1>1. score \in OnShow
  BY DEF Save, TypeInv, TypeOK
<1> DEFINE body == [of |-> score.of, text |-> score.text, valid |-> score.valid]
<1>2. body \in Scores /\ body \in Bodies
  BY <1>1, ScoreIs DEF Scores, OnShow
<1>3. Send(Request("save", NoFilm, Live, body)) /\ "save" \in Kinds /\ "save" \notin Naming
  BY DEF Save, Kinds, Naming
<1> HIDE DEF body
<1>4. net' \subseteq Requests /\ (\A r \in net' : Carries(r)) /\ sent' \in Nat
  BY <1>2, <1>3, AskTyped
<1>5. /\ saving' = "saving" /\ excused' \in BOOLEAN
      /\ UNCHANGED <<server, shown, stack, arrangement, edits, loads>>
  BY DEF Save, Hasty
<1>6. QED
  BY <1>4, <1>5 DEF TypeInv, TypeOK, server, shown, stack, arrangement

LEMMA ArrangeTyped ==
    ASSUME TypeInv, (score # NoScore /\ \E to \in {score.of, Plain} : Arrange(to)) \/ Keep
    PROVE  TypeInv'
<1>1. CASE score # NoScore /\ \E to \in {score.of, Plain} : Arrange(to)
  <2>1. PICK to \in {score.of, Plain} : Arrange(to)
    BY <1>1
  <2>2. to \in Keepable
    BY <1>1, <2>1 DEF TypeInv, TypeOK, OnShow, Keepable
  <2>3. /\ order' = to /\ timer' \in BOOLEAN /\ sent' \in Nat /\ excused' \in BOOLEAN
        /\ UNCHANGED <<server, shown, stack, saving, net, edits, loads>>
    BY <2>1 DEF Arrange, Hasty, TypeInv
  <2>4. QED
    BY <2>2, <2>3 DEF TypeInv, TypeOK, server, shown, stack
<1>2. CASE Keep
  <2>1. Send(Request("arrange", NoFilm, Live, order)) /\ "arrange" \in Kinds /\ "arrange" \notin Naming
    BY <1>2 DEF Keep, Kinds, Naming
  <2>2. order \in Keepable /\ order \in Bodies
    BY ScoreIs DEF TypeInv, TypeOK
  <2>3. net' \subseteq Requests /\ (\A r \in net' : Carries(r)) /\ sent' \in Nat
    BY <2>1, <2>2, AskTyped
  <2>4. timer' = FALSE /\ UNCHANGED <<server, shown, stack, saving, order, edits, loads, excused>>
    BY <1>2 DEF Keep
  <2>5. QED
    BY <2>3, <2>4 DEF TypeInv, TypeOK, server, shown, stack
<1>3. QED
  BY <1>1, <1>2

\* What is shown of an answer.
LEMMA ShownIs ==
    ASSUME TypeInv, NEW r \in net, r.answer \in Scores
    PROVE  /\ Shown(r) \in OnShow /\ Shown(r) # NoScore
           /\ Shown(r).of = r.answer.of /\ Shown(r).text = r.answer.text
           /\ Shown(r).kept = r.version /\ r.answer.of \in Films
<1>1. r.version \in Versions \cup {Live} /\ loads + 1 \in Nat
  BY RequestTyped DEF TypeInv
<1>2. Shown(r) \in OnShow
  BY <1>1 DEF Shown, OnShow, Scores
<1>3. QED
  BY <1>2, NoScoreAssumption, ScoreIs DEF Shown

LEMMA LayoutAsked ==
    ASSUME TypeInv, NEW r \in net, AskLayout(r)
    PROVE  net' \subseteq Requests /\ (\A x \in net' : Carries(x)) /\ sent' \in Nat
<1> DEFINE q == Request("layout", NoFilm, Live, NoScore)
<1>1. q \in Requests /\ q.kind = "layout" /\ q.handled = FALSE
  <2>1. sent \in Int /\ NoScore \in Bodies /\ "layout" \in Kinds
    BY ScoreIs DEF TypeInv, Kinds
  <2>2. QED
    BY <2>1 DEF Request, Requests
<1>2. net' = (net \ {r}) \cup {q} /\ sent' = sent + 1
  BY DEF AskLayout
<1> HIDE DEF q
<1>3. Carries(q)
  BY <1>1 DEF Carries, Naming
<1>4. QED
  BY <1>1, <1>2, <1>3 DEF TypeInv

LEMMA ReceiveTyped ==
    ASSUME TypeInv, NEW r \in net, Receive(r)
    PROVE  TypeInv'
<1>1. r.handled /\ Carries(r) /\ r \in Requests /\ UNCHANGED <<server, excused>>
  BY DEF Receive, TypeInv
<1>2. CASE ReceiveLoad(r)
  <2>1. r.answer \in Scores
    BY <1>1, <1>2 DEF ReceiveLoad, Carries, Opening
  <2>2. score' \in OnShow /\ score' # NoScore /\ film' \in Films /\ loads' \in Nat
    BY <1>2, <2>1, ShownIs DEF ReceiveLoad, TypeInv
  <2>3. net' \subseteq Requests /\ (\A x \in net' : Carries(x)) /\ sent' \in Nat
    BY <1>2, LayoutAsked DEF ReceiveLoad
  <2>4. /\ version' = (IF r.answer.of = film THEN version ELSE Live)
        /\ UNCHANGED <<error, stack, saving, arrangement, edits>>
    BY <1>2 DEF ReceiveLoad
  <2>5. QED
    BY <1>1, <2>2, <2>3, <2>4 DEF TypeInv, TypeOK, server, stack, arrangement
<1>3. CASE ReceiveFilm(r)
  <2>1. UNCHANGED <<film, version, stack, saving, arrangement, edits>> /\ r.kind = "film"
    BY <1>3 DEF ReceiveFilm
  <2>2. CASE r.ok
    <3>1. r.answer \in Scores
      BY <1>1, <2>1, <2>2 DEF Carries, Opening
    <3>2. score' \in OnShow /\ score' # NoScore /\ loads' \in Nat /\ error' = error /\ AskLayout(r)
      BY <1>3, <2>2, <3>1, ShownIs DEF ReceiveFilm, TypeInv
    <3>3. net' \subseteq Requests /\ (\A x \in net' : Carries(x)) /\ sent' \in Nat
      BY <3>2, LayoutAsked
    <3>4. QED
      BY <1>1, <2>1, <3>2, <3>3 DEF TypeInv, TypeOK, server, stack, arrangement
  <2>3. CASE ~r.ok
    <3>1. error' = TRUE /\ Done(r) /\ UNCHANGED <<score, loads, sent>>
      BY <1>3, <2>3 DEF ReceiveFilm
    <3>2. QED
      BY <1>1, <2>1, <3>1 DEF TypeInv, TypeOK, server, stack, arrangement, Done
  <2>4. QED
    BY <2>2, <2>3
<1>4. CASE ReceiveVersion(r)
  <2>1. /\ UNCHANGED <<film, version, saving, arrangement, edits, sent>>
        /\ r.kind \in {"latest", "version"} /\ Done(r)
    BY <1>4 DEF ReceiveVersion
  <2>2. CASE r.ok
    <3>1. r.answer \in Scores
      BY <1>1, <2>1, <2>2 DEF Carries, Opening
    <3>2. /\ score' \in OnShow /\ score' # NoScore /\ loads' \in Nat /\ error' = error
          /\ past' = <<>> /\ future' = <<>> /\ dirty' = FALSE
      BY <1>4, <2>2, <3>1, ShownIs DEF ReceiveVersion, TypeInv
    <3>3. <<>> \in Seq(Entries)
      OBVIOUS
    <3>4. QED
      BY <1>1, <2>1, <3>2, <3>3 DEF TypeInv, TypeOK, server, arrangement, Done
  <2>3. CASE ~r.ok
    <3>1. error' = TRUE /\ UNCHANGED <<score, loads, stack>>
      BY <1>4, <2>3 DEF ReceiveVersion
    <3>2. QED
      BY <1>1, <2>1, <3>1 DEF TypeInv, TypeOK, server, stack, arrangement, Done
  <2>4. QED
    BY <2>2, <2>3
<1>5. CASE ReceiveSave(r)
  <2>1. /\ Done(r) /\ saving' \in {"saved", "refused"} /\ dirty' \in {FALSE, dirty}
        /\ UNCHANGED <<shown, past, future, arrangement, counters>>
    BY <1>5 DEF ReceiveSave
  <2>2. QED
    BY <1>1, <2>1 DEF TypeInv, TypeOK, server, shown, arrangement, counters, Done
<1>6. CASE ReceiveLayout(r)
  <2>1. /\ Done(r) /\ UNCHANGED <<shown, stack, saving, counters>>
        /\ order' \in Keepable /\ timer' \in BOOLEAN
    BY <1>1, <1>6 DEF ReceiveLayout, Carries, TypeInv, TypeOK, arrangement
  <2>2. QED
    BY <1>1, <2>1 DEF TypeInv, TypeOK, server, shown, stack, counters, Done
<1>7. QED
  BY <1>2, <1>3, <1>4, <1>5, <1>6 DEF Receive

LEMMA LoseTyped ==
    ASSUME TypeInv, NEW r \in net, Lose(r)
    PROVE  TypeInv'
<1>1. /\ Done(r) /\ saving' \in {"failed", saving} /\ excused' \in BOOLEAN
      /\ UNCHANGED <<server, shown, stack, arrangement, counters>>
  BY DEF Lose, Hasty
<1>2. QED
  BY <1>1 DEF TypeInv, TypeOK, server, shown, stack, arrangement, counters, Done

LEMMA TypeStep == TypeInv /\ [Next]_vars => TypeInv'
<1> SUFFICES ASSUME TypeInv, [Next]_vars PROVE TypeInv'
  OBVIOUS
<1>1. CASE Person
  BY <1>1, OpenTyped, EditTyped, SaveTyped, ArrangeTyped DEF Person
<1>2. CASE Answering
  BY <1>2, HandleTyped, ReceiveTyped DEF Answering
<1>3. CASE \E r \in net : Lose(r)
  BY <1>3, LoseTyped
<1>4. CASE Keep
  BY <1>4, ArrangeTyped
<1>5. CASE UNCHANGED vars
  BY <1>5 DEF TypeInv, TypeOK, vars, server, shown, stack, arrangement, counters
<1>6. QED
  BY <1>1, <1>2, <1>3, <1>4, <1>5 DEF Next

-----------------------------------------------------------------------------
(* What a calm page and its server agree on *)

LEMMA InitCalm == Init => CalmInv
<1> SUFFICES ASSUME Init PROVE Calm
  BY DEF CalmInv
<1>1. /\ score = NoScore /\ ~timer /\ version = Live /\ ~dirty /\ film = NoFilm /\ film \notin Scored
      /\ \A r \in net : r.kind = "load" /\ r.version = Live /\ ~r.handled /\ net = {r}
      /\ \A f \in Films : layout[f] = Plain /\ (f \in Scored => file[f] = Original(f))
  BY StudioAssumption DEF Init, Scored
<1>2. Home
  BY <1>1, ScoreIs DEF Home
<1>3. Alone /\ Loading /\ Picking /\ Saving /\ Arranging
  BY <1>1 DEF Alone, Loading, Picking, Saving, Arranging, Naming
<1>4. ShownIsOpen /\ PickedIsOpen /\ Selected /\ Stored
  BY <1>1 DEF ShownIsOpen, PickedIsOpen, Selected, Stored
<1>5. QED
  BY <1>2, <1>3, <1>4 DEF Calm

LEMMA OpenFilmCalm ==
    ASSUME Calm, NEW f \in Films, OpenFilm(f), ~excused'
    PROVE  Calm'
<1> DEFINE q == Request("film", f, Live, NoScore)
<1>1. q.kind = "film" /\ q.film = f /\ q.version = Live /\ q.handled = FALSE
  BY DEF Request
<1>2. /\ net' = net \cup {q} /\ film' = f /\ version' = IF f = film THEN version ELSE Live
      /\ UNCHANGED <<server, score, stack, saving, arrangement>>
      /\ net = {} /\ ~timer /\ (f = film => version = Live)
  BY DEF OpenFilm, Send, Hasty
<1> HIDE DEF q
<1>3. net' = {q} /\ version' = Live /\ UNCHANGED <<open, file, layout, score, timer, order, dirty>>
  BY <1>2 DEF server, stack, arrangement
<1>4. Home'
  BY <1>3 DEF Calm, Home
<1>5. Alone' /\ Loading' /\ Picking' /\ Saving' /\ Arranging'
  BY <1>1, <1>2, <1>3 DEF Alone, Loading, Picking, Saving, Arranging, Naming
<1>6. ShownIsOpen'
  BY <1>1, <1>2, <1>3 DEF Calm, ShownIsOpen, Reopened
<1>7. Awaited({"load", "film"})' /\ Awaited(Opening)'
  BY <1>1, <1>3 DEF Awaited, Opening
<1>8. QED
  BY <1>4, <1>5, <1>6, <1>7 DEF Calm, PickedIsOpen, Selected, Stored

LEMMA OpenVersionCalm ==
    ASSUME Calm, NEW v \in Versions \cup {Live}, OpenVersion(v), ~excused'
    PROVE  Calm'
<1> DEFINE q == Request(IF v = Live THEN "latest" ELSE "version", film, v, NoScore)
<1>1. /\ q.kind = (IF v = Live THEN "latest" ELSE "version")
      /\ q.film = film /\ q.version = v /\ q.handled = FALSE
  BY DEF Request
<1>2. /\ net' = net \cup {q} /\ film' = film /\ version' = v /\ film \in Scored
      /\ UNCHANGED <<server, film, score, stack, saving, arrangement>>
      /\ net = {} /\ ~timer
  BY DEF OpenVersion, Send, Hasty
<1> HIDE DEF q
<1>3. net' = {q} /\ UNCHANGED <<open, file, layout, score, timer, order, dirty>>
  BY <1>2 DEF server, stack, arrangement
<1>4. Home'
  BY <1>3 DEF Calm, Home
<1>5. Alone' /\ Loading' /\ Picking' /\ Saving' /\ Arranging'
  BY <1>1, <1>2, <1>3 DEF Alone, Loading, Picking, Saving, Arranging, Naming
<1>6. ShownIsOpen'
  BY <1>1, <1>2, <1>3 DEF Calm, ShownIsOpen, Reopened
<1>7. film = open
  BY <1>2 DEF Calm, PickedIsOpen, Awaited
<1>8. Awaited(Opening)' /\ film' = open'
  BY <1>1, <1>2, <1>3, <1>7 DEF Awaited, Opening
<1>9. QED
  BY <1>4, <1>5, <1>6, <1>8 DEF Calm, PickedIsOpen, Selected, Stored

LEMMA EditCalm ==
    ASSUME TypeInv, Calm, (\E ok \in BOOLEAN : Edit(ok)) \/ Undo \/ Redo, ~excused'
    PROVE  Calm'
<1>1. /\ score # NoScore /\ score' # NoScore
      /\ score'.of = score.of /\ score'.kept = score.kept
  BY EditTakes
<1>2. /\ UNCHANGED <<open, file, layout, film, version, error, timer, order, net>>
      /\ dirty' = TRUE
      /\ \A r \in net : r.kind # "save"
  BY DEF Edit, Undo, Redo, Hasty, server, arrangement, Awaited
<1>3. \A r \in net : r.kind # "load"
  BY <1>1 DEF Calm, Loading
<1>4. Home' /\ Alone' /\ Arranging'
  BY <1>2 DEF Calm, Home, Alone, Arranging
<1>5. Loading' /\ Saving'
  BY <1>2, <1>3 DEF Loading, Saving
<1>6. Picking' /\ PickedIsOpen'
  BY <1>2 DEF Calm, Picking, PickedIsOpen, Awaited
<1>7. ShownIsOpen' /\ Selected' /\ Stored'
  BY <1>1, <1>2 DEF Calm, ShownIsOpen, Reopened, Selected, Stored, Awaited
<1>8. QED
  BY <1>4, <1>5, <1>6, <1>7 DEF Calm

LEMMA SaveCalm ==
    ASSUME Calm, Save, ~excused'
    PROVE  Calm'
<1> DEFINE body == [of |-> score.of, text |-> score.text, valid |-> score.valid]
           q == Request("save", NoFilm, Live, body)
<1>1. /\ q.kind = "save" /\ q.body.of = score.of /\ q.body.text = score.text
      /\ q.handled = FALSE
  BY DEF Request
<1>2. /\ net' = net \cup {q} /\ score # NoScore
      /\ UNCHANGED <<server, shown, stack, arrangement>>
      /\ \A r \in net : r.kind \notin Opening /\ r.kind # "save"
  BY DEF Save, Send, Hasty, Awaited
<1> HIDE DEF body, q
<1>3. UNCHANGED <<open, file, layout, film, version, score, error, dirty, timer, order>>
  BY <1>2 DEF server, shown, stack, arrangement
<1>4. \A r \in net' : r.kind \notin Opening /\ (r.kind = "save" => r = q)
  BY <1>1, <1>2 DEF Opening
<1>5. Home' /\ Alone'
  BY <1>3, <1>4 DEF Calm, Home, Alone
<1>6. Loading' /\ Picking'
  BY <1>4 DEF Loading, Picking, Naming, Opening
<1>7. Saving'
  BY <1>1, <1>2, <1>3, <1>4 DEF Saving
<1>8. Arranging'
  BY <1>1, <1>2, <1>3 DEF Calm, Arranging
<1>9. ShownIsOpen' /\ PickedIsOpen'
  BY <1>2, <1>3 DEF Calm, ShownIsOpen, Reopened, PickedIsOpen, Awaited, Opening
<1>10. Selected' /\ Stored'
  BY <1>2, <1>3 DEF Calm, Selected, Stored, Awaited
<1>11. QED
  BY <1>5, <1>6, <1>7, <1>8, <1>9, <1>10 DEF Calm

LEMMA ArrangeCalm ==
    ASSUME Calm, NEW to \in {score.of, Plain}, score # NoScore, Arrange(to), ~excused'
    PROVE  Calm'
<1>1. /\ UNCHANGED <<open, file, layout, film, version, score, error, dirty, net>>
      /\ order' = to
      /\ \A r \in net : r.kind \notin Opening
  BY DEF Arrange, Hasty, Awaited, server, shown, stack
<1>2. score.of = open
  BY <1>1 DEF Calm, ShownIsOpen, Reopened, Opening
<1>3. Home' /\ Alone'
  BY <1>1 DEF Calm, Home, Alone
<1>4. Loading' /\ Picking' /\ Saving'
  BY <1>1 DEF Calm, Loading, Picking, Saving
<1>5. Arranging'
  BY <1>1, <1>2 DEF Calm, Arranging
<1>6. ShownIsOpen' /\ PickedIsOpen' /\ Selected' /\ Stored'
  BY <1>1 DEF Calm, ShownIsOpen, Reopened, PickedIsOpen, Selected, Stored, Awaited
<1>7. QED
  BY <1>3, <1>4, <1>5, <1>6 DEF Calm

LEMMA KeepCalm ==
    ASSUME Calm, Keep, ~excused'
    PROVE  Calm'
<1> DEFINE q == Request("arrange", NoFilm, Live, order)
<1>1. q.kind = "arrange" /\ q.body = order /\ q.handled = FALSE
  BY DEF Request
<1>2. /\ net' = net \cup {q} /\ timer /\ ~timer'
      /\ UNCHANGED <<server, shown, stack, saving, order>>
  BY DEF Keep, Send
<1> HIDE DEF q
<1>3. UNCHANGED <<open, file, layout, film, version, score, error, dirty, order>>
  BY <1>2 DEF server, shown, stack
<1>4. \A r \in net' : r.kind \notin Opening
  BY <1>1, <1>2 DEF Calm, Alone, Opening
<1>5. Home' /\ Alone'
  BY <1>3, <1>4 DEF Calm, Home, Alone
<1>6. Loading' /\ Picking'
  BY <1>4 DEF Loading, Picking, Naming, Opening
<1>7. Saving' /\ Arranging'
  BY <1>1, <1>2, <1>3 DEF Calm, Saving, Arranging
<1>8. ShownIsOpen' /\ PickedIsOpen' /\ Selected' /\ Stored'
  <2>1. \A r \in net : r.kind \notin Opening
    BY <1>2, <1>4
  <2>2. QED
    BY <1>3, <2>1 DEF Calm, ShownIsOpen, Reopened, PickedIsOpen, Selected, Stored, Awaited, Opening
<1>9. QED
  BY <1>5, <1>6, <1>7, <1>8 DEF Calm

\* While something opens it is alone, and the answer to it changes nothing else.
LEMMA OneAnswered ==
    ASSUME Calm, NEW r \in net, NEW q, net = {r}, net' = {q}, q.kind = r.kind,
           r.kind \in Opening, ~timer,
           UNCHANGED <<file, layout, film, version, score, error, dirty, timer, order>>
    PROVE  Home' /\ Saving' /\ Arranging' /\ Alone' /\ Selected' /\ Stored'
<1>1. Awaited(Opening)' /\ Alone'
  BY DEF Awaited, Alone
<1>2. Home' /\ Saving' /\ Arranging'
  BY DEF Calm, Home, Saving, Arranging, Opening
<1>3. QED
  BY <1>1, <1>2 DEF Selected, Stored

LEMMA HandleGetCalm ==
    ASSUME TypeInv, Calm, NEW r \in net, Handle(r), HandleGetScore(r)
    PROVE  Calm'
<1>1. r.kind \in Opening /\ ~r.handled /\ net = {r} /\ ~timer
  BY DEF Handle, HandleGetScore, Calm, Alone
<1>2. UNCHANGED <<file, layout, film, version, score, error, dirty, timer, order>>
  BY DEF Handle, HandleGetScore, shown, stack, arrangement
<1>3. /\ \A f \in Films : IF f \in Scored THEN file[f] \in Scores ELSE file[f] = NoScore
      /\ Carries(r) /\ open \in Scored /\ open \in Films
  BY DEF TypeInv, TypeOK, Scored
<1>4. r \in Requests
  BY DEF TypeInv
<1>5. CASE r.kind = "load"
  <2>1. Answer(r, TRUE, file[open]) /\ open' = open
    BY <1>5 DEF HandleGetScore
  <2> DEFINE q == [r EXCEPT !.handled = TRUE, !.ok = TRUE, !.answer = file[open]]
  <2>2. /\ q.kind = r.kind /\ q.film = r.film /\ q.version = r.version /\ q.body = r.body
        /\ q.handled = TRUE /\ q.ok = TRUE /\ q.answer = file[open]
    BY <1>4 DEF Requests
  <2>2a. net' = (net \ {r}) \cup {q}
    BY <2>1 DEF Answer
  <2> HIDE DEF q
  <2>3. net' = {q} /\ q.kind = "load"
    BY <1>1, <1>5, <2>2, <2>2a
  <2>4. score = NoScore /\ version = Live /\ r.version = Live /\ ~dirty
    BY <1>5 DEF Calm, Loading
  <2>5. Loading'
    BY <1>2, <2>1, <2>2, <2>3, <2>4 DEF Loading
  <2>6. Picking' /\ PickedIsOpen' /\ ShownIsOpen'
    BY <1>2, <2>3, <2>4 DEF Picking, PickedIsOpen, ShownIsOpen, Awaited, Naming
  <2>7. Home' /\ Saving' /\ Arranging' /\ Alone' /\ Selected' /\ Stored'
    BY <1>1, <1>2, <2>2, <2>3, OneAnswered
  <2>8. QED
    BY <2>5, <2>6, <2>7 DEF Calm
<1>6. CASE r.kind \in Naming
  <2>1. /\ r.film = film /\ r.version = version /\ (r.kind = "version" <=> version # Live)
        /\ r.film \in Films
    BY <1>3, <1>6 DEF Calm, Picking, Carries
  <2>2. /\ score # NoScore => score.of = open
        /\ r.kind # "film" /\ film \in Scored => film = open
    BY <1>1, <1>6 DEF Calm, ShownIsOpen, Reopened, PickedIsOpen, Awaited, Naming
  <2>3. CASE Answer(r, FALSE, NoScore) /\ open' = open /\ file[r.film] = NoScore
    <3> DEFINE q == [r EXCEPT !.handled = TRUE, !.ok = FALSE, !.answer = NoScore]
    <3>1. /\ q.kind = r.kind /\ q.film = r.film /\ q.version = r.version /\ q.body = r.body
          /\ q.handled = TRUE /\ q.ok = FALSE /\ q.answer = NoScore
      BY <1>4 DEF Requests
    <3>1a. net' = (net \ {r}) \cup {q}
      BY <2>3 DEF Answer
    <3> HIDE DEF q
    <3>2. net' = {q}
      BY <1>1, <3>1a
    <3>3. r.film \notin Scored
      BY <1>3, <2>1, <2>3, ScoreIs
    <3>4. Loading' /\ Picking'
      BY <1>2, <1>6, <2>1, <3>1, <3>2, <3>3 DEF Loading, Picking, Naming
    <3>5. ShownIsOpen' /\ PickedIsOpen'
      BY <1>2, <2>1, <2>2, <2>3, <3>3 DEF ShownIsOpen, PickedIsOpen
    <3>6. Home' /\ Saving' /\ Arranging' /\ Alone' /\ Selected' /\ Stored'
      BY <1>1, <1>2, <3>1, <3>2, OneAnswered
    <3>7. QED
      BY <3>4, <3>5, <3>6 DEF Calm
  <2>4. CASE r.kind # "version" /\ Answer(r, TRUE, file[r.film]) /\ open' = r.film
             /\ file[r.film] # NoScore
    <3> DEFINE q == [r EXCEPT !.handled = TRUE, !.ok = TRUE, !.answer = file[r.film]]
    <3>1. /\ q.kind = r.kind /\ q.film = r.film /\ q.version = r.version /\ q.body = r.body
          /\ q.handled = TRUE /\ q.ok = TRUE /\ q.answer = file[r.film]
      BY <1>4 DEF Requests
    <3>1a. net' = (net \ {r}) \cup {q}
      BY <2>4 DEF Answer
    <3> HIDE DEF q
    <3>2. net' = {q}
      BY <1>1, <3>1a
    <3>3. r.film \in Scored /\ file[r.film].of = r.film
      BY <1>3, <2>1, <2>4 DEF Calm, Home
    <3>4. Loading' /\ Picking'
      BY <1>2, <1>6, <2>1, <2>4, <3>1, <3>2, <3>3 DEF Loading, Picking, Naming
    <3>5. ShownIsOpen'
      <4>1. CASE r.kind = "film"
        <5>1. Reopened'
          BY <3>1, <3>2, <4>1 DEF Reopened
        <5>2. QED
          BY <5>1 DEF ShownIsOpen
      <4>2. CASE r.kind # "film"
        BY <1>2, <2>1, <2>2, <2>4, <3>3, <4>2 DEF ShownIsOpen
      <4>3. QED
        BY <4>1, <4>2
    <3>6. PickedIsOpen'
      BY <1>2, <2>1, <2>4 DEF PickedIsOpen
    <3>7. Home' /\ Saving' /\ Arranging' /\ Alone' /\ Selected' /\ Stored'
      BY <1>1, <1>2, <3>1, <3>2, OneAnswered
    <3>8. QED
      BY <3>4, <3>5, <3>6, <3>7 DEF Calm
  <2>5. CASE r.kind = "version" /\ Answer(r, TRUE, KeptScore(r.film)) /\ open' = open
             /\ file[r.film] # NoScore
    <3> DEFINE q == [r EXCEPT !.handled = TRUE, !.ok = TRUE, !.answer = KeptScore(r.film)]
    <3>1. /\ q.kind = r.kind /\ q.film = r.film /\ q.version = r.version /\ q.body = r.body
          /\ q.handled = TRUE /\ q.ok = TRUE /\ q.answer = KeptScore(r.film)
      BY <1>4 DEF Requests
    <3>1a. net' = (net \ {r}) \cup {q}
      BY <2>5 DEF Answer
    <3> HIDE DEF q
    <3>2. net' = {q}
      BY <1>1, <3>1a
    <3>3. r.film \in Scored /\ KeptScore(r.film).of = r.film
      BY <1>3, <2>1, <2>5, ScoreIs
    <3>4. Loading' /\ Picking'
      BY <1>2, <1>6, <2>1, <2>2, <2>5, <3>1, <3>2, <3>3 DEF Loading, Picking, Naming
    <3>5. ShownIsOpen' /\ PickedIsOpen'
      BY <1>2, <2>1, <2>2, <2>5, <3>3 DEF ShownIsOpen, PickedIsOpen
    <3>6. Home' /\ Saving' /\ Arranging' /\ Alone' /\ Selected' /\ Stored'
      BY <1>1, <1>2, <3>1, <3>2, OneAnswered
    <3>7. QED
      BY <3>4, <3>5, <3>6 DEF Calm
  <2>6. QED
    BY <1>6, <2>3, <2>4, <2>5 DEF HandleGetScore, Naming
<1>7. QED
  BY <1>1, <1>5, <1>6 DEF Opening, Naming

\* While anything is under way that opens nothing, nothing that opens is.
LEMMA NoneOpens ==
    ASSUME Calm, NEW r \in net, r.kind \notin Opening
    PROVE  /\ \A x \in net : x.kind \notin Opening
           /\ score # NoScore => score.of = open
           /\ film \in Scored => film = open
           /\ ~error /\ score # NoScore => score.of = film /\ score.kept = version
           /\ ~error /\ score # NoScore /\ ~dirty /\ version = Live => file[score.of].text = score.text
<1>1. \A x \in net : x.kind \notin Opening
  BY DEF Calm, Alone
<1>2. QED
  BY <1>1 DEF Calm, ShownIsOpen, Reopened, PickedIsOpen, Selected, Stored, Awaited, Opening

LEMMA NothingOpened ==
    ASSUME \A x \in net' : x.kind \notin Opening
    PROVE  Alone' /\ Loading' /\ Picking'
  BY DEF Alone, Loading, Picking, Naming, Opening

LEMMA HandlePutCalm ==
    ASSUME TypeInv, Calm, NEW r \in net, Handle(r), HandlePutScore(r)
    PROVE  Calm'
<1>1. /\ r.kind = "save" /\ r.kind \notin Opening
      /\ UNCHANGED <<open, layout, film, version, score, error, dirty, timer, order>>
  BY DEF Handle, HandlePutScore, shown, stack, arrangement, Opening
<1>2. /\ score # NoScore /\ r.body.of = score.of /\ r.body.text = score.text /\ score.of = open
      /\ open \in Films /\ file \in [Films -> Scores \cup {NoScore}]
  BY <1>1, NoneOpens DEF Calm, Saving, TypeInv, TypeOK, Scored
<1>3. \E q : /\ net' = (net \ {r}) \cup {q} /\ q.kind = r.kind /\ q.body = r.body
            /\ \/ file' = [file EXCEPT ![open] = r.body]
               \/ file' = file /\ q.ok = FALSE
  <2>1. r \in Requests
    BY DEF TypeInv
  <2>2. CASE r.body.valid
    <3> DEFINE q == [r EXCEPT !.handled = TRUE, !.ok = TRUE, !.answer = NoScore]
    <3>1. /\ q.kind = r.kind /\ q.film = r.film /\ q.version = r.version /\ q.body = r.body
          /\ q.handled = TRUE /\ q.ok = TRUE /\ q.answer = NoScore
      BY <2>1 DEF Requests
    <3>1a. net' = (net \ {r}) \cup {q}
      BY <2>2 DEF HandlePutScore, Answer
    <3> HIDE DEF q
    <3>2. file' = [file EXCEPT ![open] = r.body]
      BY <2>2 DEF HandlePutScore
    <3>3. QED
      BY <3>1, <3>1a, <3>2
  <2>3. CASE ~r.body.valid
    <3> DEFINE q == [r EXCEPT !.handled = TRUE, !.ok = FALSE, !.answer = NoScore]
    <3>1. /\ q.kind = r.kind /\ q.film = r.film /\ q.version = r.version /\ q.body = r.body
          /\ q.handled = TRUE /\ q.ok = FALSE /\ q.answer = NoScore
      BY <2>1 DEF Requests
    <3>1a. net' = (net \ {r}) \cup {q}
      BY <2>3 DEF HandlePutScore, Answer
    <3> HIDE DEF q
    <3>2. file' = file
      BY <2>3 DEF HandlePutScore
    <3>3. QED
      BY <3>1, <3>1a, <3>2
  <2>4. QED
    BY <2>2, <2>3
<1>3a. PICK q : /\ net' = (net \ {r}) \cup {q} /\ q.kind = r.kind /\ q.body = r.body
               /\ \/ file' = [file EXCEPT ![open] = r.body]
                  \/ file' = file /\ q.ok = FALSE
  BY <1>3
<1>4. \A x \in net' : x.kind \notin Opening
  BY <1>1, <1>3a, NoneOpens
<1>5. /\ \A f \in Films \ {open} : file'[f] = file[f]
      /\ \/ file'[open].of = open /\ file'[open].text = score.text
         \/ file'[open] = file[open] /\ q.ok = FALSE
  BY <1>2, <1>3a
<1>6. Home'
  BY <1>1, <1>2, <1>5 DEF Calm, Home
<1>7. Saving'
  BY <1>1, <1>2, <1>3a, <1>5 DEF Calm, Saving
<1>8. Arranging'
  BY <1>1, <1>3a DEF Calm, Arranging
<1>9. ShownIsOpen' /\ PickedIsOpen' /\ Selected'
  BY <1>1, NoneOpens DEF ShownIsOpen, PickedIsOpen, Selected
<1>10. Stored'
  BY <1>1, <1>2, <1>5, NoneOpens DEF Stored
<1>11. QED
  BY <1>4, <1>6, <1>7, <1>8, <1>9, <1>10, NothingOpened DEF Calm

LEMMA HandleLayoutCalm ==
    ASSUME TypeInv, Calm, NEW r \in net, Handle(r), HandleLayout(r)
    PROVE  Calm'
<1>1. /\ r.kind \in {"layout", "arrange"} /\ r.kind \notin Opening
      /\ UNCHANGED <<open, file, film, version, score, error, dirty, timer, order>>
  BY DEF Handle, HandleLayout, shown, stack, arrangement, Opening
<1>2. open \in Films /\ layout \in [Films -> Keepable]
  BY DEF TypeInv, TypeOK, Scored
<1>3. \E q : /\ net' = (net \ {r}) \cup {q} /\ q.kind = r.kind /\ q.body = r.body
            /\ \/ r.kind = "layout" /\ q.answer = layout[open] /\ layout' = layout
               \/ r.kind = "arrange" /\ layout' = [layout EXCEPT ![open] = r.body]
  <2>1. r \in Requests
    BY DEF TypeInv
  <2>2. CASE r.kind = "layout"
    <3> DEFINE q == [r EXCEPT !.handled = TRUE, !.ok = TRUE, !.answer = layout[open]]
    <3>1. /\ q.kind = r.kind /\ q.film = r.film /\ q.version = r.version /\ q.body = r.body
          /\ q.handled = TRUE /\ q.ok = TRUE /\ q.answer = layout[open]
      BY <2>1 DEF Requests
    <3>1a. net' = (net \ {r}) \cup {q}
      BY <2>2 DEF HandleLayout, Answer
    <3> HIDE DEF q
    <3>2. layout' = layout
      BY <2>2 DEF HandleLayout
    <3>3. QED
      BY <2>2, <3>1, <3>1a, <3>2
  <2>3. CASE r.kind = "arrange"
    <3> DEFINE q == [r EXCEPT !.handled = TRUE, !.ok = TRUE, !.answer = NoScore]
    <3>1. /\ q.kind = r.kind /\ q.film = r.film /\ q.version = r.version /\ q.body = r.body
          /\ q.handled = TRUE /\ q.ok = TRUE /\ q.answer = NoScore
      BY <2>1 DEF Requests
    <3>1a. net' = (net \ {r}) \cup {q}
      BY <2>3 DEF HandleLayout, Answer
    <3> HIDE DEF q
    <3>2. layout' = [layout EXCEPT ![open] = r.body]
      BY <2>3 DEF HandleLayout
    <3>3. QED
      BY <2>3, <3>1, <3>1a, <3>2
  <2>4. QED
    BY <1>1, <2>2, <2>3
<1>3a. PICK q : /\ net' = (net \ {r}) \cup {q} /\ q.kind = r.kind /\ q.body = r.body
               /\ \/ r.kind = "layout" /\ q.answer = layout[open] /\ layout' = layout
                  \/ r.kind = "arrange" /\ layout' = [layout EXCEPT ![open] = r.body]
  BY <1>3
<1>4. \A x \in net' : x.kind \notin Opening
  BY <1>1, <1>3a, NoneOpens
<1>5. Home'
  BY <1>1, <1>2, <1>3a DEF Calm, Home, Arranging
<1>6. Saving'
  BY <1>1, <1>3a DEF Calm, Saving
<1>7. Arranging'
  BY <1>1, <1>2, <1>3a DEF Calm, Arranging, Home
<1>8. ShownIsOpen' /\ PickedIsOpen' /\ Selected' /\ Stored'
  BY <1>1, NoneOpens DEF ShownIsOpen, PickedIsOpen, Selected, Stored
<1>9. QED
  BY <1>4, <1>5, <1>6, <1>7, <1>8, NothingOpened DEF Calm

LEMMA ReceiveOpeningCalm ==
    ASSUME TypeInv, Calm, NEW r \in net, Receive(r), ReceiveLoad(r) \/ ReceiveFilm(r) \/ ReceiveVersion(r)
    PROVE  Calm'
<1>1. /\ r.kind \in Opening /\ r.handled /\ net = {r} /\ ~timer
      /\ UNCHANGED <<open, file, layout, timer, order>>
  BY DEF Receive, ReceiveLoad, ReceiveFilm, ReceiveVersion, Calm, Alone, Opening, server, arrangement
<1>2. Carries(r) /\ open \in Scored /\ open \in Films
  BY DEF TypeInv, TypeOK, Scored
<1>3. \A x \in net' : x.kind = "layout" /\ ~x.handled
  BY <1>1 DEF ReceiveLoad, ReceiveFilm, ReceiveVersion, AskLayout, Done, Request
<1>4. Home' /\ Alone' /\ Loading' /\ Picking' /\ Saving' /\ Arranging'
  <2>1. Home'
    BY <1>1 DEF Calm, Home
  <2>2. Saving' /\ Arranging'
    BY <1>1, <1>3 DEF Saving, Arranging
  <2>3. QED
    BY <1>3, <2>1, <2>2, NothingOpened DEF Opening
<1>5. r.ok => Shown(r).of = r.answer.of /\ Shown(r).text = r.answer.text /\ Shown(r).kept = r.version
  BY DEF Shown
<1>6. CASE ReceiveLoad(r)
  <2>1. /\ r.kind = "load" /\ r.ok /\ r.answer = file[open] /\ r.answer.of = open
        /\ version = Live /\ r.version = Live
    BY <1>1, <1>2, <1>6 DEF ReceiveLoad, Calm, Loading, Carries, Home
  <2>2. /\ score' = Shown(r) /\ film' = open /\ version' = Live
    BY <1>6, <2>1 DEF ReceiveLoad
  <2>3. ShownIsOpen' /\ PickedIsOpen' /\ Selected' /\ Stored'
    BY <1>1, <1>5, <2>1, <2>2 DEF ShownIsOpen, PickedIsOpen, Selected, Stored
  <2>4. QED
    BY <1>4, <2>3 DEF Calm
<1>7. CASE (ReceiveFilm(r) \/ ReceiveVersion(r)) /\ r.ok
  <2>1. /\ r.answer.of = film /\ open = film /\ r.version = version
        /\ version = Live => r.answer = file[film]
    BY <1>1, <1>7 DEF ReceiveFilm, ReceiveVersion, Calm, Picking, Naming
  <2>2. score' = Shown(r) /\ UNCHANGED <<film, version>>
    BY <1>7 DEF ReceiveFilm, ReceiveVersion
  <2>3. ShownIsOpen' /\ PickedIsOpen' /\ Selected' /\ Stored'
    BY <1>1, <1>5, <1>7, <2>1, <2>2 DEF ShownIsOpen, PickedIsOpen, Selected, Stored
  <2>4. QED
    BY <1>4, <2>3 DEF Calm
<1>8. CASE (ReceiveFilm(r) \/ ReceiveVersion(r)) /\ ~r.ok
  <2>1. error' = TRUE /\ UNCHANGED <<film, version, score>>
    BY <1>8 DEF ReceiveFilm, ReceiveVersion
  <2>2. film \notin Scored
    BY <1>1, <1>8 DEF ReceiveFilm, ReceiveVersion, Calm, Picking, Naming
  <2>3. ~Reopened
    BY <1>1, <1>8 DEF Reopened
  <2>4. ShownIsOpen' /\ PickedIsOpen' /\ Selected' /\ Stored'
    BY <1>1, <2>1, <2>2, <2>3 DEF Calm, ShownIsOpen, PickedIsOpen, Selected, Stored
  <2>5. QED
    BY <1>4, <2>4 DEF Calm
<1>9. QED
  BY <1>6, <1>7, <1>8

LEMMA ReceiveOtherCalm ==
    ASSUME TypeInv, Calm, NEW r \in net, Receive(r), ReceiveSave(r) \/ ReceiveLayout(r)
    PROVE  Calm'
<1>1. /\ r.handled /\ r.kind \notin Opening /\ net' = net \ {r}
      /\ UNCHANGED <<open, file, layout, film, version, score, error>>
  BY DEF Receive, ReceiveSave, ReceiveLayout, Done, Opening, server, shown
<1>2. \A x \in net' : x.kind \notin Opening
  BY <1>1, NoneOpens
<1>3. Home' /\ Saving'
  BY <1>1 DEF Calm, Home, Saving
<1>4. Arranging'
  BY <1>1 DEF Calm, Arranging, ReceiveSave, ReceiveLayout, arrangement
<1>5. ShownIsOpen' /\ PickedIsOpen' /\ Selected'
  BY <1>1, NoneOpens DEF ShownIsOpen, PickedIsOpen, Selected
<1>6. Stored'
  <2>1. dirty' = dirty \/ (r.kind = "save" /\ r.ok)
    BY DEF ReceiveSave, ReceiveLayout, stack
  <2>2. r.kind = "save" /\ r.ok => file[open].text = score.text
    BY <1>1 DEF Calm, Saving
  <2>3. QED
    BY <1>1, <2>1, <2>2, NoneOpens DEF Stored
<1>7. QED
  BY <1>2, <1>3, <1>4, <1>5, <1>6, NothingOpened DEF Calm

LEMMA LoseCalm ==
    ASSUME TypeInv, Calm, NEW r \in net, Lose(r), ~excused'
    PROVE  Calm'
<1>1. /\ r.kind = "arrange" /\ r.kind \notin Opening /\ net' = net \ {r}
      /\ UNCHANGED <<open, file, layout, film, version, score, error, dirty, timer, order>>
  BY DEF Lose, Hasty, Done, Opening, server, shown, stack, arrangement
<1>2. \A x \in net' : x.kind \notin Opening
  BY <1>1, NoneOpens
<1>3. Home' /\ Saving' /\ Arranging'
  BY <1>1 DEF Calm, Home, Saving, Arranging
<1>4. ShownIsOpen' /\ PickedIsOpen' /\ Selected' /\ Stored'
  BY <1>1, NoneOpens DEF ShownIsOpen, PickedIsOpen, Selected, Stored
<1>5. QED
  BY <1>2, <1>3, <1>4, NothingOpened DEF Calm

LEMMA CalmStep == TypeInv /\ CalmInv /\ [Next]_vars => CalmInv'
<1> SUFFICES ASSUME TypeInv, CalmInv, [Next]_vars, ~excused' PROVE Calm'
  BY DEF CalmInv
<1>1. CASE Person
  <2>1. ~excused
    BY <1>1 DEF Person, OpenFilm, OpenVersion, Edit, Undo, Redo, Save, Arrange, Hasty
  <2>2. Calm
    BY <2>1 DEF CalmInv
  <2>3. QED
    BY <1>1, <2>2, OpenFilmCalm, OpenVersionCalm, EditCalm, SaveCalm, ArrangeCalm DEF Person
<1>2. CASE Answering
  <2>1. PICK r \in net : Handle(r) \/ Receive(r)
    BY <1>2 DEF Answering
  <2>2. ~excused
    BY <2>1 DEF Handle, Receive
  <2>3. Calm
    BY <2>2 DEF CalmInv
  <2>4. CASE Handle(r)
    BY <2>3, <2>4, HandleGetCalm, HandlePutCalm, HandleLayoutCalm DEF Handle
  <2>5. CASE Receive(r)
    BY <2>3, <2>5, ReceiveOpeningCalm, ReceiveOtherCalm DEF Receive
  <2>6. QED
    BY <2>1, <2>4, <2>5
<1>3. CASE \E r \in net : Lose(r)
  <2>1. ~excused
    BY <1>3 DEF Lose, Hasty
  <2>2. QED
    BY <1>3, <2>1, LoseCalm DEF CalmInv
<1>4. CASE Keep
  <2>1. ~excused
    BY <1>4 DEF Keep
  <2>2. QED
    BY <1>4, <2>1, KeepCalm DEF CalmInv
<1>5. CASE UNCHANGED vars
  <2>1. Calm /\ UNCHANGED <<open, file, layout, film, version, score, error, dirty, net, timer, order>>
    BY <1>5 DEF CalmInv, vars, server, shown, stack, arrangement
  <2>2. Home' /\ Alone' /\ Loading' /\ Picking' /\ Saving' /\ Arranging'
    BY <2>1 DEF Calm, Home, Alone, Loading, Picking, Saving, Arranging
  <2>3. ShownIsOpen' /\ PickedIsOpen' /\ Selected' /\ Stored'
    BY <2>1 DEF Calm, ShownIsOpen, Reopened, PickedIsOpen, Selected, Stored, Awaited
  <2>4. QED
    BY <2>2, <2>3 DEF Calm
<1>6. QED
  BY <1>1, <1>2, <1>3, <1>4, <1>5 DEF Next

-----------------------------------------------------------------------------

\* Page and server keep their types, whatever is opened, edited and saved, and
\* whatever crosses or is lost (App.tsx, studio.go).
THEOREM StudioTypes == Spec => []TypeOK
<1>1. TypeInv => TypeOK
  BY DEF TypeInv
<1>2. QED
  BY <1>1, InitTyped, TypeStep, PTL DEF Spec

\* Saving names no film, and yet a film's files hold what is that film's, for every
\* number of films, versions, edits and requests (studio.go handleScore, layout.go).
THEOREM FilesAlwaysStayHome == Spec => []FilesStayHome
<1>1. CalmInv => FilesStayHome
  BY DEF CalmInv, Calm, Home, FilesStayHome
<1>2. QED
  BY <1>1, InitTyped, TypeStep, InitCalm, CalmStep, PTL DEF Spec

\* What the pickers say is what is shown (App.tsx openFilm, useVersions.ts).
THEOREM ThePickersTellTheTruth == Spec => []ShownIsSelected
<1>1. CalmInv => ShownIsSelected
  BY DEF CalmInv, Calm, Selected, ShownIsSelected, Settled
<1>2. QED
  BY <1>1, InitTyped, TypeStep, InitCalm, CalmStep, PTL DEF Spec

\* A page that says Saved shows what is in the file (App.tsx save, history.ts dirty).
THEOREM SavedAlwaysMeansSaved == Spec => []SavedMeansSaved
<1>1. CalmInv => SavedMeansSaved
  BY DEF CalmInv, Calm, Stored, SavedMeansSaved, Settled
<1>2. QED
  BY <1>1, InitTyped, TypeStep, InitCalm, CalmStep, PTL DEF Spec
=============================================================================
