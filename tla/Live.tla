-------------------------------- MODULE Live --------------------------------
(***************************************************************************)
(* Driving the room from the page: the switch and its reports (useLive.ts,  *)
(* frameClock.ts and the transport of App.tsx), the rig picker, and the     *)
(* sessions of the server (live.go, liveapi.go, shelfapi.go).               *)
(*                                                                         *)
(* Arming, disarming and changing the rig each run in two steps, for each   *)
(* first waits for the session it takes down.  Reports, polls and answers   *)
(* come in any order. A tick is the second after which a report is stale.   *)
(***************************************************************************)
EXTENDS Integers, FiniteSets

CONSTANTS
    Pages,
    Rigs,
    Chosen,       \* the rig that the shelf says at first
    Quiet,        \* ticks of silence after which a session puts itself away
    MaxSessions,  \* bound on the sessions started
    MaxAsks,      \* bound on what the person does
    MaxNaps       \* bound on how often a page falls asleep

ASSUME LiveAssumption ==
    /\ Pages # {} /\ Chosen \in Rigs
    /\ Quiet \in Nat \ {0} /\ {MaxSessions, MaxAsks, MaxNaps} \subseteq Nat

VARIABLES
    session,  \* the server's sessions: what each drives and whether it runs
    live,     \* the one that reports go to, or 0
    rig,      \* the rig in use
    page,     \* each page
    net,      \* requests, and answers not yet received
    asks, naps

counters == <<asks, naps>>
liveVars == <<session, live, rig, page, net, counters>>

Ids == 1..MaxSessions
Stale == 1
Gone == Stale + Quiet

Phases == {"none", "running", "stopping", "ended"}
Running(i) == session[i].phase = "running"
Driving(i) == session[i].phase \in {"running", "stopping"}
On == live # 0 /\ Driving(live)   \* live.on is cleared by the last line of run

Open(p) == page[p].at # "closed"
Awake(p) == page[p].at = "awake"

\* At most one report and one poll of a page is in flight; n tells the others apart.
Request(p, kind, n, to) ==
    [page |-> p, kind |-> kind, n |-> n, rig |-> to, says |-> FALSE, step |-> "sent", of |-> 0]
Waiting(p, kind) == \E r \in net : r.page = p /\ r.kind = kind
Step(r, new) == net' = (net \ {r}) \cup {new}
Answer(r, armed) == Step(r, [r EXCEPT !.step = "answered", !.says = armed, !.of = 0, !.rig = Chosen, !.n = 0])

-----------------------------------------------------------------------------
(* A session *)

\* disarmLive as far as the wait: whoever calls it takes the session that is
\* live, leaves none, and cancels it.
None == [phase |-> "none", age |-> 0, rig |-> Chosen]
Cancel(i) == [session EXCEPT ![i] = [None EXCEPT !.phase = "stopping"]]
TakeDown(r, new) ==
    /\ Step(r, [new EXCEPT !.step = "waiting", !.of = live])
    /\ live' = 0
    /\ session' = IF live = 0 \/ ~Running(live) THEN session ELSE Cancel(live)

\* <-l.done
Down(r) == r.of \in {0} \cup {i \in Ids : session[i].phase = "ended"}

\* The loop ends when it is cancelled: every output to safe, every socket closed.
PutAway(i) ==
    /\ session[i].phase = "stopping"
    /\ session' = [session EXCEPT ![i].phase = "ended"]
    /\ UNCHANGED <<live, rig, page, net, counters>>

\* The loop cancels itself once it has been silent for long enough. A session that
\* has heard nothing yet is silent from the start.
Silent(i) == Running(i) /\ session[i].age >= Gone
GoQuiet(i) ==
    /\ Silent(i)
    /\ session' = Cancel(i)
    /\ UNCHANGED <<live, rig, page, net, counters>>

-----------------------------------------------------------------------------
(* The server's routes *)

\* armLive: read the rig, take down what runs, and then build. The score may ask
\* for what the rig has not, or a socket may not open.
StartArm(r) ==
    /\ r.kind = "arm" /\ r.step = "sent"
    /\ TakeDown(r, [r EXCEPT !.rig = rig])
    /\ UNCHANGED <<rig, page, counters>>
FinishArm(r) ==
    /\ r.kind = "arm" /\ r.step = "waiting" /\ Down(r)
    /\ \/ \E i \in Ids :
            /\ session[i].phase = "none" /\ \A j \in 1..(i - 1) : session[j].phase # "none"
            /\ session' = [session EXCEPT ![i] = [phase |-> "running", age |-> Stale, rig |-> r.rig]]
            /\ live' = i /\ Answer(r, TRUE)
       \/ UNCHANGED <<session, live>> /\ Answer(r, On)
    /\ UNCHANGED <<rig, page, counters>>

StartDisarm(r) ==
    /\ r.kind = "disarm" /\ r.step = "sent"
    /\ TakeDown(r, r)
    /\ UNCHANGED <<rig, page, counters>>
FinishDisarm(r) ==
    /\ r.kind = "disarm" /\ r.step = "waiting" /\ Down(r)
    /\ Answer(r, On)
    /\ UNCHANGED <<session, live, rig, page, counters>>

\* handleRigs: a rig that is not the one in use puts the room away first. A file
\* that will not load leaves the rig that was in use.
StartRig(r) ==
    /\ r.kind = "rig" /\ r.step = "sent"
    /\ IF r.rig # rig THEN TakeDown(r, r)
       ELSE Step(r, [r EXCEPT !.step = "waiting"]) /\ UNCHANGED <<session, live>>
    /\ UNCHANGED <<rig, page, counters>>
FinishRig(r) ==
    /\ r.kind = "rig" /\ r.step = "waiting" /\ Down(r)
    /\ rig' \in {rig, r.rig}
    /\ Answer(r, On)
    /\ UNCHANGED <<session, live, page, counters>>

\* reportLive: 409 when nothing is on.
HandleReport(r) ==
    /\ r.kind = "report" /\ r.step = "sent"
    /\ session' = IF live # 0 /\ Running(live) THEN [session EXCEPT ![live].age = 0] ELSE session
    /\ Answer(r, On)
    /\ UNCHANGED <<live, rig, page, counters>>

HandlePoll(r) ==
    /\ r.kind = "poll" /\ r.step = "sent"
    /\ Answer(r, On)
    /\ UNCHANGED <<session, live, rig, page, counters>>

Serve == \E r \in net :
    \/ StartArm(r) \/ FinishArm(r) \/ StartDisarm(r) \/ FinishDisarm(r)
    \/ StartRig(r) \/ FinishRig(r) \/ HandleReport(r) \/ HandlePoll(r)

-----------------------------------------------------------------------------
(* The page *)

Ask(p, kind, to) ==
    /\ Awake(p) /\ asks < MaxAsks /\ asks' = asks + 1
    /\ net' = net \cup {Request(p, kind, asks, to)}
    /\ UNCHANGED <<session, live, rig, page, naps>>

\* The button: it offers to disarm once an answer has said that the room is armed.
\* Nothing keeps it from being pressed twice before the first answer.
Switch(p) == Ask(p, IF page[p].armed THEN "disarm" ELSE "arm", rig)

\* The picker is disabled while a choice is on its way, and asks first when the
\* room is armed.
ChooseRig(p, to) == ~Waiting(p, "rig") /\ to # rig /\ Ask(p, "rig", to)

\* Mutation: whatever the page believes.
ReportRegardless(p) ==
    /\ ~Waiting(p, "report")
    /\ net' = net \cup {Request(p, "report", 0, rig)}

\* report: nothing is sent unless the page believes that the room is armed.
Report(p) ==
    /\ page[p].armed /\ ~Waiting(p, "report")
    /\ net' = net \cup {Request(p, "report", 0, rig)}

\* The film starts or stops, and the room is told at once.
PlayOrPause(p) ==
    /\ Awake(p) /\ asks < MaxAsks /\ asks' = asks + 1
    /\ page' = [page EXCEPT ![p].playing = ~@, ![p].spoke = page[p].armed]
    /\ Report(p) \/ (~page[p].armed /\ UNCHANGED net)
    /\ UNCHANGED <<session, live, rig, naps>>

\* Mutation: only a film that plays reports.
SpeaksWhenPlaying(p) == Awake(p) /\ page[p].playing

\* A frame of the film is shown, or four times a second while it is paused.
Speaks(p) == Awake(p) /\ (page[p].playing \/ page[p].armed)
Speak(p) ==
    /\ Speaks(p) /\ Report(p)
    /\ page' = [page EXCEPT ![p].spoke = TRUE]
    /\ UNCHANGED <<session, live, rig, counters>>

\* Once a second while armed.
Poll(p) ==
    /\ Awake(p) /\ page[p].armed /\ ~Waiting(p, "poll")
    /\ net' = net \cup {Request(p, "poll", 0, rig)}
    /\ UNCHANGED <<session, live, rig, page, counters>>

\* The tab is closed, which sends a last request, or is killed, which does not.
Hide(p) ==
    /\ Open(p)
    /\ asks < MaxAsks /\ asks' = asks + 1
    /\ page' = [page EXCEPT ![p] = [at |-> "closed", armed |-> FALSE, playing |-> FALSE,
                                    spoke |-> FALSE, steady |-> 0]]
    /\ net' = {r \in net : r.page # p \/ r.step # "answered"}
              \cup (IF page[p].armed THEN {Request(p, "disarm", asks, rig)} ELSE {})
    /\ UNCHANGED <<session, live, rig, naps>>
Kill(p) ==
    /\ Open(p)
    /\ asks < MaxAsks /\ asks' = asks + 1
    /\ page' = [page EXCEPT ![p] = [at |-> "closed", armed |-> FALSE, playing |-> FALSE,
                                    spoke |-> FALSE, steady |-> 0]]
    /\ net' = {r \in net : r.page # p \/ r.step # "answered"}
    /\ UNCHANGED <<session, live, rig, naps>>

\* A page is opened with its switch off, whatever the server is doing.
Reopen(p) ==
    /\ ~Open(p)
    /\ page' = [page EXCEPT ![p].at = "awake"]
    /\ UNCHANGED <<session, live, rig, net, counters>>

\* The lid of the laptop, or a stall.
Sleep(p) ==
    /\ Awake(p) /\ naps < MaxNaps /\ naps' = naps + 1
    /\ page' = [page EXCEPT ![p].at = "asleep", ![p].spoke = FALSE, ![p].steady = 0]
    /\ UNCHANGED <<session, live, rig, net, asks>>
Wake(p) ==
    /\ page[p].at = "asleep"
    /\ page' = [page EXCEPT ![p].at = "awake"]
    /\ UNCHANGED <<session, live, rig, net, counters>>

\* Mutation: only the switch's own answers are listened to.
ReceiveOnlyTheSwitch(r) ==
    /\ r.step = "answered" /\ (Awake(r.page) \/ ~Open(r.page))
    /\ net' = net \ {r}
    /\ page' = IF ~Open(r.page) \/ r.kind \notin {"arm", "disarm"} THEN page
               ELSE [page EXCEPT ![r.page].armed = r.says]
    /\ UNCHANGED <<session, live, rig, counters>>

\* The switch and the poll take the server's word; a report only that it was
\* refused; changing the rig says nothing about the room.
Receive(r) ==
    /\ r.step = "answered" /\ (Awake(r.page) \/ ~Open(r.page))
    /\ net' = net \ {r}
    /\ LET says == CASE r.kind \in {"arm", "disarm", "poll"} -> r.says
                     [] r.kind = "report" -> page[r.page].armed /\ r.says
                     [] r.kind = "rig" -> page[r.page].armed
       IN page' = IF ~Open(r.page) THEN page
                  ELSE [page EXCEPT ![r.page].armed = says,
                                    ![r.page].steady = IF says THEN @ ELSE 0]
    /\ UNCHANGED <<session, live, rig, counters>>

\* What is lost says nothing; a route that has begun is finished.
Lose(r) ==
    /\ r.kind # "report" /\ r.step \in {"sent", "answered"} /\ naps < MaxNaps /\ naps' = naps + 1
    /\ net' = net \ {r}
    /\ UNCHANGED <<session, live, rig, page, asks>>

-----------------------------------------------------------------------------
\* A page that is awake reports and is answered well within a tick.
Prompt(p) == Speaks(p) /\ page[p].armed => page[p].spoke /\ ~Waiting(p, "report")

Tick ==
    /\ \A p \in Pages : Prompt(p)
    /\ \A i \in Ids : ~Silent(i)
    /\ session' = [i \in Ids |-> IF Running(i)
                                 THEN [session[i] EXCEPT !.age = @ + 1] ELSE session[i]]
    /\ page' = [p \in Pages |-> [page[p] EXCEPT !.spoke = FALSE,
                     !.steady = IF Awake(p) /\ page[p].armed /\ @ < 2 THEN @ + 1 ELSE @]]
    /\ UNCHANGED <<live, rig, net, counters>>

LiveInit ==
    /\ rig = Chosen
    /\ session = [i \in Ids |-> None]
    /\ live = 0
    /\ page = [p \in Pages |-> [at |-> "awake", armed |-> FALSE, playing |-> FALSE,
                                spoke |-> FALSE, steady |-> 0]]
    /\ net = {} /\ asks = 0 /\ naps = 0

Working(p) == Switch(p) \/ (\E to \in Rigs : ChooseRig(p, to)) \/ PlayOrPause(p)
Elsewhere(p) == Hide(p) \/ Kill(p) \/ Reopen(p) \/ Sleep(p) \/ Wake(p)

LiveNext ==
    \/ \E i \in Ids : PutAway(i) \/ GoQuiet(i)
    \/ Serve
    \/ \E p \in Pages : Working(p) \/ Elsewhere(p) \/ Speak(p) \/ Poll(p)
    \/ \E r \in net : Receive(r) \/ Lose(r)
    \/ Tick

\* Goroutines run, what is sent arrives, timers of a page that is awake go off, and
\* time passes.
Fairness ==
    /\ \A i \in Ids : WF_liveVars(PutAway(i)) /\ WF_liveVars(GoQuiet(i))
    /\ WF_liveVars(Serve) /\ WF_liveVars(\E r \in net : Receive(r))
    /\ \A p \in Pages : WF_liveVars(Speak(p)) /\ WF_liveVars(Poll(p))
    /\ WF_liveVars(Tick)

LiveSpec == LiveInit /\ [][LiveNext]_liveVars /\ Fairness

-----------------------------------------------------------------------------
(* Properties *)

\* Silence means gone, not still: the room is not put away for silence while a page
\* that is live has been awake for a while, playing or paused (useLive.ts: "a paused
\* editor would look identical to a closed tab").
KeptWhileSpoken ==
    [][\A i \in Ids : Running(i) /\ session'[i].phase = "stopping"
                      /\ i = live /\ live' = live
          => \A p \in Pages : page[p].steady < 2]_liveVars

\* A page whose switch says live learns that the room was put away, by itself, by
\* another page or by a change of rig, whatever overtakes whatever.
PageLearns ==
    \A p \in Pages : (Awake(p) /\ page[p].armed /\ ~On)
                     ~> (~page[p].armed \/ On \/ ~Awake(p))

\* Nothing is left running that no page drives: tabs closed with or without a word,
\* sessions that two overlapping requests left behind (live.go: "a fan running all
\* night").
NothingLeftRunning ==
    (\A p \in Pages : ~page[p].armed)
    ~> ((\A i \in Ids : ~Driving(i)) \/ \E p \in Pages : page[p].armed)
=============================================================================
