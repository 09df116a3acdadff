-------------------------------- MODULE Admin --------------------------------
(***************************************************************************)
(* The administration pages and what the studio keeps for them: the shelf of *)
(* rigs (shelf.go, shelfapi.go, shelfmanage.go, Rigs.tsx) and the devices of  *)
(* the one in use (rigapi.go, save.go, Devices.tsx); the boards and what is   *)
(* wired to them (boardsapi.go, nodeapi.go, Boards.tsx, Nodes.tsx); who may   *)
(* open the studio (users.go, auth.go, Users.tsx); and the one setting of the *)
(* analysis (Analysis.tsx).                                                 *)
(*                                                                         *)
(* A request is handled under the studio's lock, so in one step, but it is on *)
(* its way before and its answer after, and two may pass each other. The      *)
(* requests about users take no lock and are handled in two steps.           *)
(***************************************************************************)
EXTENDS Integers, FiniteSets, SequencesExt

CONSTANTS
    Rigs,          \* files a shelf may hold, numbered as they sort
    FirstShelves,  \* shelves to begin with: file -> its devices
    Imports,       \* a rig file somebody brings
    MaxDevices,
    MaxEdits,      \* bound on changes to a page
    MaxCalls,      \* bound on requests sent
    Boards, Wirings, Bare, \* boards, what may be wired to one, and nothing
    People,
    Gates          \* where the slider of the analysis may stand

ASSUME AdminAssumption ==
    /\ Rigs \subseteq Nat /\ MaxDevices \in Nat /\ MaxEdits \in Nat /\ MaxCalls \in Nat
    /\ Bare \in Wirings /\ Gates \subseteq Nat

VARIABLES
    shelf, chosen, inUse,  \* the rig files; .chosen, 0 when there is none; rigPath and rig
    rigPage,               \* Devices or Rigs
    rigCalls,
    rigCount               \* counters
rigVars == <<shelf, chosen, inUse, rigPage, rigCalls, rigCount>>

VARIABLES
    kept, wired,     \* the studio's boards, and whether it has the secret; what is on each
    boardPage,       \* Boards
    nodePage,        \* Nodes
    boardCalls, boardCount
boardVars == <<kept, wired, boardPage, nodePage, boardCalls, boardCount>>

VARIABLES roles, userPages, userCalls, userCount    \* the users file; one page per browser
userVars == <<roles, userPages, userCalls, userCount>>

VARIABLES gate, gateShown, gateCalls, gateCount     \* on the server, on the page
gateVars == <<gate, gateShown, gateCalls, gateCount>>

-----------------------------------------------------------------------------
(* What a rig may contain *)

\* shake, fog, mist and scent are driven as wind is.
DriversOf == [light  |-> <<"virtual", "sacn", "cip">>,
              wind   |-> <<"virtual", "cip">>,
              motion |-> <<"virtual", "motion", "cip">>]

Drivers == {"virtual", "sacn", "cip", "motion"}
DmxStarts == {"none", "ok", "zero"}
Device == [id : {"new", "named"}, kind : DOMAIN DriversOf, driver : Drivers, start : DmxStarts, addr : BOOLEAN]

\* Its kind can use its driver, and on DMX a start address is set, if only to refuse.
Startable == {d \in Device : /\ d.driver \in ToSet(DriversOf[d.kind])
                             /\ d.driver = "sacn" => d.start # "none"}

\* A rig file was validated when it was put on the shelf, and there always is one.
ASSUME ShelfAssumption ==
    /\ Imports \in Seq(Startable)
    /\ \A rigs \in FirstShelves :
         /\ DOMAIN rigs \subseteq Rigs /\ DOMAIN rigs # {} /\ IsFiniteSet(DOMAIN rigs)
         /\ \A f \in DOMAIN rigs : rigs[f] \in Seq(Startable)

\* start: "none" when unset, "zero" when the field was emptied.
WithDriverDefaults(d, driver) ==
    [d EXCEPT !.driver = driver, !.start = IF driver = "sacn" /\ @ = "none" THEN "ok" ELSE @]

BlankDevice ==
    WithDriverDefaults([id |-> "new", kind |-> "light", driver |-> "", start |-> "none", addr |-> FALSE],
                       Head(DriversOf["light"]))

\* Validate, except for the shape of an address.
Accepted(devices) ==
    /\ \A i, j \in DOMAIN devices : i # j => devices[i].id # devices[j].id
    /\ \A i \in DOMAIN devices :
         /\ devices[i].driver \in ToSet(DriversOf[devices[i].kind])
         /\ devices[i].driver = "sacn" => devices[i].start = "ok"
         /\ devices[i].driver \in {"cip", "motion"} => devices[i].addr

\* Fields of a driver no longer used are dropped; an unset start is sent as zero
\* and not sent back.
Merged(devices) ==
    [i \in DOMAIN devices |->
        [devices[i] EXCEPT !.start = IF devices[i].driver = "sacn" THEN @ ELSE "none",
                           !.addr = @ /\ devices[i].driver # "virtual"]]

-----------------------------------------------------------------------------
(* The shelf *)

Files == DOMAIN shelf
Resolve(files, choice) == IF choice \in files THEN choice ELSE Min(files)
Opened(file, rigs) == inUse' = [file |-> file, rig |-> rigs[file]]
Shelving(file, devices) == [f \in Files \cup {file} |-> IF f = file THEN devices ELSE shelf[f]]

Select(r) ==
    /\ r.file \in Files
    /\ chosen' = r.file /\ Opened(r.file, shelf) /\ UNCHANGED shelf

\* A new one begins as a copy, or empty. Nothing is opened.
NewRig(r) ==
    /\ r.to \notin Files /\ (r.file = 0 \/ r.file \in Files)
    /\ shelf' = Shelving(r.to, IF r.file = 0 THEN <<>> ELSE shelf[r.file])
    /\ UNCHANGED <<chosen, inUse>>

\* What is there is replaced only when that was asked for. Nothing is opened again.
ImportRig(r) ==
    /\ r.to \notin Files \/ r.file = r.to
    /\ shelf' = Shelving(r.to, Imports)
    /\ UNCHANGED <<chosen, inUse>>

DeleteRig(r) ==
    /\ Cardinality(Files) > 1 /\ r.file \in Files
    /\ shelf' = [f \in Files \ {r.file} |-> shelf[f]]
    /\ Opened(Resolve(Files \ {r.file}, chosen), shelf)
    /\ UNCHANGED chosen

Moved(r) == [f \in (Files \ {r.file}) \cup {r.to} |-> IF f = r.to THEN shelf[r.file] ELSE shelf[f]]
\* Mutation: the choice does not follow the file.
RenameLeavingTheChoice(r) ==
    /\ r.file # r.to /\ r.to \notin Files /\ r.file \in Files
    /\ shelf' = Moved(r)
    /\ Opened(Resolve(DOMAIN Moved(r), chosen), Moved(r))
    /\ UNCHANGED chosen
RenameRig(r) ==
    /\ r.file # r.to /\ r.to \notin Files /\ r.file \in Files
    /\ LET choice == IF inUse.file = r.file THEN r.to ELSE chosen
       IN /\ shelf' = Moved(r)
          /\ chosen' = choice
          /\ Opened(Resolve(DOMAIN Moved(r), choice), Moved(r))

\* The handlers that answer with the shelf.
Does(r) == \/ r.op = "select" /\ Select(r)
           \/ r.op = "new" /\ NewRig(r)
           \/ r.op = "import" /\ ImportRig(r)
           \/ r.op = "delete" /\ DeleteRig(r)
           \/ r.op = "rename" /\ RenameRig(r)
Refuses(r) ==
    \/ r.op = "select" /\ r.file \notin Files
    \/ r.op = "new" /\ (r.to \in Files \/ r.file \notin Files \cup {0})
    \/ r.op = "import" /\ r.to \in Files /\ r.file # r.to
    \/ r.op = "delete" /\ (Cardinality(Files) <= 1 \/ r.file \notin Files)
    \/ r.op = "rename" /\ (r.file = r.to \/ r.to \in Files \/ r.file \notin Files)

\* What a page, or another browser, may ask of the shelf.
Asked(op, file, to) == [op |-> op, file |-> file, to |-> to]
Shelved == {Asked("select", f, 0) : f \in Rigs} \cup {Asked("delete", f, 0) : f \in Rigs}
           \cup {Asked("new", f, t) : f \in Rigs \cup {0}, t \in Rigs}
           \cup {Asked("import", f, f) : f \in Rigs} \cup {Asked("import", 0, f) : f \in Rigs}
           \cup {r \in {Asked("rename", f, t) : f \in Rigs, t \in Rigs} : r.file # r.to}

-----------------------------------------------------------------------------
(* Requests about rigs *)

\* What the studio has yet to answer of a call is in todo.
RigCall(what, todo, asked, devices) ==
    [what |-> what, todo |-> todo, asked |-> asked, devices |-> devices,
     rigs |-> {}, current |-> 0, ok |-> TRUE]
Load == RigCall("load", IF rigPage.at = "devices" THEN {"rig", "list"} ELSE {"list"}, Asked("", 0, 0), <<>>)
Listing(call, rigs, file) == [call EXCEPT !.rigs = rigs, !.current = file]

ServeRig(k) ==
    LET call == rigCalls[k] IN
    \/ /\ "rig" \in call.todo
       /\ rigCalls' = [rigCalls EXCEPT ![k] = [call EXCEPT !.todo = @ \ {"rig"}, !.devices = inUse.rig]]
       /\ UNCHANGED <<shelf, chosen, inUse>>
    \/ /\ "list" \in call.todo
       /\ rigCalls' = [rigCalls EXCEPT ![k] = Listing([call EXCEPT !.todo = @ \ {"list"}], Files, inUse.file)]
       /\ UNCHANGED <<shelf, chosen, inUse>>
    \/ /\ "do" \in call.todo /\ Does(call.asked)
       /\ rigCalls' = [rigCalls EXCEPT ![k] = Listing([call EXCEPT !.todo = {}], DOMAIN shelf', inUse'.file)]
    \/ /\ "do" \in call.todo /\ Refuses(call.asked)
       /\ rigCalls' = [rigCalls EXCEPT ![k] = [call EXCEPT !.todo = {}, !.ok = FALSE]]
       /\ UNCHANGED <<shelf, chosen, inUse>>

\* The rig is written where the studio has one open, and read back.
ServeSave(k) ==
    LET call == rigCalls[k]  next == Merged(call.devices) IN
    /\ "save" \in call.todo
    /\ rigCalls' = [rigCalls EXCEPT ![k] = [call EXCEPT !.todo = {}, !.ok = Accepted(next)]]
    /\ IF Accepted(next)
       THEN shelf' = Shelving(inUse.file, next) /\ inUse' = [inUse EXCEPT !.rig = next]
       ELSE UNCHANGED <<shelf, inUse>>
    /\ UNCHANGED chosen

Serves == /\ \E k \in DOMAIN rigCalls : ServeRig(k) \/ ServeSave(k)
          /\ UNCHANGED <<rigPage, rigCount>>

\* A load that is answered shows what it read, whatever was done to the page
\* meanwhile. A save or a choice that was taken is followed by a load.
ReceiveRig(k) ==
    LET call == rigCalls[k]
        rest == RemoveAt(rigCalls, k)
        updated == [rigPage EXCEPT !.rigs = call.rigs, !.current = call.current]
    IN /\ call.todo = {}
       /\ \/ /\ call.what = "load"
             /\ rigPage' = IF rigPage.at = "devices"
                           THEN [updated EXCEPT !.devices = call.devices, !.dirty = FALSE, !.loaded = TRUE]
                           ELSE [updated EXCEPT !.loaded = TRUE]
             /\ rigCalls' = rest
          \/ /\ call.what = "save"
             /\ IF call.ok THEN rigPage' = [rigPage EXCEPT !.dirty = FALSE] /\ rigCalls' = Append(rest, Load)
                ELSE rigCalls' = rest /\ UNCHANGED rigPage
          \/ /\ call.what = "do" /\ rigPage.at = "devices"
             /\ IF call.ok THEN rigPage' = updated /\ rigCalls' = Append(rest, Load)
                ELSE rigCalls' = rest /\ UNCHANGED rigPage
          \/ /\ call.what = "do" /\ rigPage.at = "rigs"
             /\ rigPage' = [(IF call.ok THEN updated ELSE rigPage) EXCEPT !.busy = FALSE]
             /\ rigCalls' = rest
       /\ UNCHANGED <<shelf, chosen, inUse, rigCount>>

\* The studio does not answer: the page says so and stays as it is.
LoseRig(k) ==
    /\ rigCalls' = RemoveAt(rigCalls, k)
    /\ rigPage' = [rigPage EXCEPT !.busy = @ /\ rigCalls[k].what # "do"]
    /\ UNCHANGED <<shelf, chosen, inUse, rigCount>>

-----------------------------------------------------------------------------
(* Devices: an edit of the page *)

Edits(devices) ==
    /\ rigPage.at = "devices" /\ rigPage.loaded /\ rigCount.edits < MaxEdits
    /\ rigPage' = [rigPage EXCEPT !.devices = devices, !.dirty = TRUE]
    /\ rigCount' = [rigCount EXCEPT !.edits = @ + 1]
    /\ UNCHANGED <<shelf, chosen, inUse, rigCalls>>
Change(i, d) == Edits([rigPage.devices EXCEPT ![i] = d])

\* Where it is: an address for what has one, a start for DMX.
ChangeWhere(i) ==
    LET d == rigPage.devices[i] IN
    \/ d.driver # "virtual" /\ \E a \in BOOLEAN : Change(i, [d EXCEPT !.addr = a])
    \/ d.driver = "sacn" /\ \E s \in {"ok", "zero"} : Change(i, [d EXCEPT !.start = s])
Retitle(i) == Change(i, [rigPage.devices[i] EXCEPT !.id = IF @ = "new" THEN "named" ELSE "new"])
ChangeDriver(i) ==
    LET d == rigPage.devices[i] IN
    \E v \in ToSet(DriversOf[d.kind]) : Change(i, WithDriverDefaults(d, v))

\* Mutation: the kind alone changes.
ChangeKindAlone(i) ==
    \E kind \in DOMAIN DriversOf : Change(i, [rigPage.devices[i] EXCEPT !.kind = kind])
\* A driver the kind cannot use moves to the first it can.
ChangeKind(i) ==
    \E kind \in DOMAIN DriversOf :
       LET d == rigPage.devices[i]
           keep == IF d.driver \in ToSet(DriversOf[kind]) THEN d.driver ELSE Head(DriversOf[kind])
       IN Change(i, WithDriverDefaults([d EXCEPT !.kind = kind], keep))

AddDevice == Len(rigPage.devices) < MaxDevices /\ Edits(Append(rigPage.devices, BlankDevice))
RemoveDevice(i) == Edits(RemoveAt(rigPage.devices, i))

EditsDevices == \/ \E i \in DOMAIN rigPage.devices :
                     ChangeWhere(i) \/ Retitle(i) \/ ChangeDriver(i) \/ ChangeKind(i) \/ RemoveDevice(i)
                \/ AddDevice

-----------------------------------------------------------------------------
(* What a page asks *)

Sends(call) ==
    /\ rigPage.loaded /\ rigCount.calls < MaxCalls
    /\ rigCalls' = Append(rigCalls, call)
    /\ rigCount' = [rigCount EXCEPT !.calls = @ + 1]
    /\ UNCHANGED <<shelf, chosen, inUse>>
Asking(r) == RigCall("do", {"do"}, r, <<>>)

SaveRig ==
    /\ rigPage.at = "devices" /\ rigPage.dirty
    /\ Sends(RigCall("save", {"save"}, Asked("", 0, 0), rigPage.devices))
    /\ UNCHANGED rigPage
\* Not while there are edits that a switch would lose.
ChooseRig ==
    /\ rigPage.at = "devices" /\ ~rigPage.dirty
    /\ \E f \in rigPage.rigs \ {rigPage.current} : Sends(Asking(Asked("select", f, 0)))
    /\ UNCHANGED rigPage

\* Rigs: one request at a time, except for a file that was being picked.
SendsRig(r) ==
    /\ rigPage.at = "rigs"
    /\ rigPage' = [rigPage EXCEPT !.busy = TRUE]
    /\ Sends(Asking(r))
UseRig == ~rigPage.busy /\ \E f \in rigPage.rigs \ {rigPage.current} : SendsRig(Asked("select", f, 0))
AskNew ==
    /\ ~rigPage.busy
    /\ \E from \in rigPage.rigs \cup {rigPage.current, 0}, to \in Rigs : SendsRig(Asked("new", from, to))
AskRename == ~rigPage.busy /\ \E f \in rigPage.rigs, to \in Rigs : f # to /\ SendsRig(Asked("rename", f, to))
\* Confirmed. Not the only one, as far as the page knows.
Forget ==
    /\ ~rigPage.busy /\ Cardinality(rigPage.rigs) > 1
    /\ \E f \in rigPage.rigs : SendsRig(Asked("delete", f, 0))
\* Over one on the page only when that was confirmed.
Bring == \E to \in Rigs : SendsRig(Asked("import", IF to \in rigPage.rigs THEN to ELSE 0, to))

AsksRig == SaveRig \/ ChooseRig \/ UseRig \/ AskNew \/ AskRename \/ Forget \/ Bring

\* The same, from another browser.
RigElsewhere ==
    /\ rigCount.calls < MaxCalls /\ \E r \in Shelved : Does(r)
    /\ rigCount' = [rigCount EXCEPT !.calls = @ + 1]
    /\ UNCHANGED <<rigPage, rigCalls>>

RigInit ==
    /\ shelf \in FirstShelves
    /\ chosen \in DOMAIN shelf \cup {0}
    /\ inUse = [file |-> Resolve(DOMAIN shelf, chosen), rig |-> shelf[Resolve(DOMAIN shelf, chosen)]]
    /\ rigPage \in {[at |-> p, loaded |-> FALSE, devices |-> <<>>, dirty |-> FALSE,
                     rigs |-> {}, current |-> 0, busy |-> FALSE] : p \in {"devices", "rigs"}}
    /\ rigCalls = <<Load>>
    /\ rigCount = [edits |-> 0, calls |-> 0]

RigNext == \/ Serves \/ EditsDevices \/ AsksRig \/ RigElsewhere
           \/ \E k \in DOMAIN rigCalls : ReceiveRig(k) \/ LoseRig(k)

\* Every device on the page is one the studio would take, but for what only a
\* person can give it: a driver its kind can use, and an address in the DMX
\* universe when it has one.
DevicesWouldStart == \A i \in DOMAIN rigPage.devices : rigPage.devices[i] \in Startable

\* A rig that was chosen and is in use stays in use until another is chosen or a
\* rig is taken off the shelf, whatever is renamed, brought or made meanwhile.
ChosenStaysInUse ==
    [][chosen = inUse.file /\ inUse'.file # inUse.file =>
         chosen' = inUse'.file \/ Cardinality(DOMAIN shelf') < Cardinality(DOMAIN shelf)]_rigVars

-----------------------------------------------------------------------------
(* Boards. A board may answer or not whenever it is asked. *)

BoardCall(what, board, rows, list) ==
    [what |-> what, board |-> board, named |-> FALSE, rows |-> rows, boards |-> list,
     todo |-> TRUE, ok |-> FALSE, status |-> <<>>]
Checking == BoardCall("check", "", Bare, <<>>)
SendsBoard(call) ==
    /\ boardCount < MaxCalls
    /\ boardCalls' = Append(boardCalls, call) /\ boardCount' = boardCount + 1
    /\ UNCHANGED <<kept, wired>>

\* The whole list is kept as it was sent. A secret that was not sent is the one
\* already kept under that name.
KeptOf(sent) == [b \in DOMAIN sent |-> sent[b] \/ (b \in DOMAIN kept /\ kept[b])]

Answer(k, ok, call) == boardCalls' = [boardCalls EXCEPT ![k] = [call EXCEPT !.todo = FALSE, !.ok = ok]]

ServeBoards(k) ==
    LET call == boardCalls[k] IN
    /\ call.todo
    /\ \/ call.what = "list" /\ Answer(k, TRUE, [call EXCEPT !.boards = kept]) /\ UNCHANGED <<kept, wired>>
       \/ /\ call.what = "save"
          /\ kept' = KeptOf(call.boards) /\ Answer(k, TRUE, [call EXCEPT !.boards = KeptOf(call.boards)])
          /\ UNCHANGED wired
       \/ /\ call.what = "check"
          /\ \E up \in SUBSET DOMAIN kept :
               Answer(k, TRUE, [call EXCEPT !.status = [b \in DOMAIN kept |-> b \in up]])
          /\ UNCHANGED <<kept, wired>>
       \/ /\ call.what = "update"
          /\ \E taken \in BOOLEAN :
               Answer(k, taken /\ call.board \in DOMAIN kept /\ kept[call.board], call)
          /\ UNCHANGED <<kept, wired>>
       \* By name the studio knows the board, or refuses; a typed address it just tries.
       \/ call.what \in {"ask", "write"} /\ Answer(k, FALSE, call) /\ UNCHANGED <<kept, wired>>
       \/ /\ call.what \in {"ask", "write"} /\ call.board \in (IF call.named THEN DOMAIN kept ELSE Boards)
          /\ wired' = IF call.what = "write" THEN [wired EXCEPT ![call.board] = call.rows] ELSE wired
          /\ Answer(k, TRUE, [call EXCEPT !.rows = wired'[call.board]])
          /\ UNCHANGED kept
    /\ UNCHANGED <<boardPage, nodePage, boardCount>>

ReceiveBoards(k) ==
    LET call == boardCalls[k]
        rest == RemoveAt(boardCalls, k)
        node == [nodePage EXCEPT !.busy = FALSE]
    IN /\ ~call.todo
       /\ \/ /\ call.what \in {"list", "save"}
             /\ boardPage' = [boardPage EXCEPT !.boards = call.boards,
                                               !.busy = @ /\ call.what # "save", !.checking = TRUE]
             /\ boardCalls' = Append(rest, Checking)
             /\ UNCHANGED nodePage
          \/ /\ call.what = "check"
             /\ boardPage' = [boardPage EXCEPT !.status = call.status, !.checking = FALSE]
             /\ boardCalls' = rest /\ UNCHANGED nodePage
          \* A board that took an update is neither on nor off.
          \/ /\ call.what = "update"
             /\ boardPage' = [boardPage EXCEPT !.updating = "",
                                !.status = IF call.ok THEN Restrict(@, DOMAIN @ \ {call.board}) ELSE @]
             /\ boardCalls' = rest /\ UNCHANGED nodePage
          \/ /\ call.what \in {"ask", "write"}
             /\ nodePage' = IF call.ok THEN [node EXCEPT !.shown = call.board, !.has = call.rows,
                                                         !.saved = @ \/ call.what = "write"]
                            ELSE node
             /\ boardCalls' = rest /\ UNCHANGED boardPage
       /\ UNCHANGED <<kept, wired, boardCount>>

LoseBoards(k) ==
    LET what == boardCalls[k].what IN
    /\ boardCalls' = RemoveAt(boardCalls, k)
    /\ boardPage' = [boardPage EXCEPT !.busy = @ /\ what # "save", !.checking = @ /\ what # "check",
                                      !.updating = IF what = "update" THEN "" ELSE @]
    /\ nodePage' = [nodePage EXCEPT !.busy = @ /\ what \notin {"ask", "write"}]
    /\ UNCHANGED <<kept, wired, boardCount>>

Check ==
    /\ ~boardPage.checking /\ boardPage.boards # <<>>
    /\ boardPage' = [boardPage EXCEPT !.checking = TRUE] /\ SendsBoard(Checking) /\ UNCHANGED nodePage

\* The page holds no secrets: it sends one only for the board it attaches.
SaveBoards(list, secret) ==
    /\ boardPage' = [boardPage EXCEPT !.busy = TRUE]
    /\ SendsBoard(BoardCall("save", "", Bare, [b \in list |-> b \in secret]))
    /\ UNCHANGED nodePage
\* A name that is taken is refused by the studio and nothing comes of it.
Attach == /\ ~boardPage.busy
          /\ \E b \in Boards \ DOMAIN boardPage.boards : \E secret \in SUBSET {b} :
               SaveBoards(DOMAIN boardPage.boards \cup {b}, secret)
ForgetBoard == \E b \in DOMAIN boardPage.boards : SaveBoards(DOMAIN boardPage.boards \ {b}, {})

Update ==
    /\ boardPage.updating = ""
    /\ \E b \in DOMAIN boardPage.boards :
         /\ boardPage.boards[b] /\ b \in DOMAIN boardPage.status /\ boardPage.status[b]
         /\ boardPage' = [boardPage EXCEPT !.updating = b]
         /\ SendsBoard(BoardCall("update", b, Bare, <<>>))
    /\ UNCHANGED nodePage

-----------------------------------------------------------------------------
(* Nodes: what is wired to one board *)

\* The board picked comes before the address typed.
AskNode(what, page) ==
    /\ SendsBoard([BoardCall(what, IF page.picked # "" THEN page.picked ELSE page.typed, page.rows, <<>>)
                     EXCEPT !.named = page.picked # ""])
    /\ nodePage' = [page EXCEPT !.busy = TRUE, !.saved = FALSE]
    /\ UNCHANGED boardPage

Pick == \E b \in DOMAIN boardPage.boards :
          AskNode("ask", [nodePage EXCEPT !.picked = b, !.typed = "", !.rows = Bare])
Type(b) == nodePage' = [nodePage EXCEPT !.typed = b]
AskTyped == nodePage.typed # "" /\ ~nodePage.busy /\ AskNode("ask", nodePage)
Fetch == /\ nodePage.shown # "" /\ nodePage.has # Bare
         /\ nodePage' = [nodePage EXCEPT !.rows = nodePage.has]
ChangeRow(w) == nodePage.shown # "" /\ nodePage' = [nodePage EXCEPT !.rows = w, !.saved = FALSE]
Write == nodePage.shown # "" /\ ~nodePage.busy /\ AskNode("write", nodePage)

BoardInit ==
    /\ kept \in {[b \in some |-> TRUE] : some \in {{}, Boards}}
    /\ wired \in {[b \in Boards |-> w] : w \in Wirings}
    /\ boardPage = [boards |-> <<>>, status |-> <<>>, busy |-> FALSE, checking |-> FALSE, updating |-> ""]
    /\ nodePage = [picked |-> "", typed |-> "", shown |-> "", has |-> Bare, rows |-> Bare,
                   busy |-> FALSE, saved |-> FALSE]
    /\ boardCalls = <<BoardCall("list", "", Bare, <<>>)>> /\ boardCount = 0

BoardNext ==
    \/ \E k \in DOMAIN boardCalls : ServeBoards(k) \/ ReceiveBoards(k) \/ LoseBoards(k)
    \/ Check \/ Attach \/ ForgetBoard \/ Update \/ Pick \/ AskTyped \/ Write
    \* Edits matter only while something may still be asked.
    \/ /\ boardCount < MaxCalls
       /\ Fetch \/ (\E b \in Boards \cup {""} : Type(b)) \/ (\E w \in Wirings : ChangeRow(w))
       /\ UNCHANGED <<kept, wired, boardPage, boardCalls, boardCount>>

-----------------------------------------------------------------------------
(* Users: one page per browser, each opened by one person *)

Admins(r) == {p \in DOMAIN r : r[p] = "admin"}
UserCall(action, name, role) == [action |-> action, name |-> name, role |-> role,
                                 phase |-> "sent", ok |-> FALSE, list |-> <<>>]

\* No lock is held: whether this is the only administrator is one step, and what
\* is done about it another.
LooksAtUsers(p, k) ==
    LET call == userCalls[p][k]
        leaves == call.action = "remove" \/ (call.action = "role" /\ call.role # "admin")
        refused == \/ p \notin Admins(roles)
                   \/ call.action \in {"role", "remove"} /\ call.name \notin DOMAIN roles
                   \/ leaves /\ call.name \in Admins(roles) /\ Cardinality(Admins(roles)) = 1
                   \/ call.action = "remove" /\ call.name = p
                   \/ call.action = "add" /\ call.name \in DOMAIN roles
    IN /\ call.phase = "sent"
       /\ userCalls' = [userCalls EXCEPT ![p][k].phase = IF refused THEN "answered" ELSE "allowed"]
       /\ UNCHANGED <<roles, userPages, userCount>>

\* Reading changes nothing; a password changes none of what is kept here. The
\* entry was found by its place: another may have moved there since.
WritesUsers(p, k) ==
    LET call == userCalls[p][k] IN
    /\ call.phase = "allowed"
    /\ \E who \in IF call.action = "add" \/ call.name \in DOMAIN roles THEN {call.name} ELSE DOMAIN roles :
         roles' = CASE call.action \in {"add", "role"} -> (who :> call.role) @@ roles
                    [] call.action = "remove" -> Restrict(roles, DOMAIN roles \ {who})
                    [] OTHER -> roles
    /\ userCalls' = [userCalls EXCEPT ![p][k] = [call EXCEPT !.phase = "answered", !.ok = TRUE, !.list = roles']]
    /\ UNCHANGED <<userPages, userCount>>

ReceivesUsers(p, k) ==
    LET call == userCalls[p][k] IN
    /\ call.phase = "answered"
    /\ userPages' = [userPages EXCEPT ![p].list = IF call.ok THEN call.list ELSE @,
                                      ![p].busy = @ /\ call.action = "read"]
    /\ userCalls' = [userCalls EXCEPT ![p] = RemoveAt(@, k)]
    /\ UNCHANGED <<roles, userCount>>

SendsUsers(p, action, name, role) ==
    /\ ~userPages[p].busy /\ userCount < MaxCalls
    /\ userPages' = [userPages EXCEPT ![p].busy = TRUE]
    /\ userCalls' = [userCalls EXCEPT ![p] = Append(@, UserCall(action, name, role))]
    /\ userCount' = userCount + 1
    /\ UNCHANGED roles
\* The only administrator on the page can be neither changed nor removed.
LastAdmin(p, name) == Admins(userPages[p].list) = {name}
ChangeRole(p) == \E name \in DOMAIN userPages[p].list, role \in {"admin", "operator"} :
                   ~LastAdmin(p, name) /\ role # userPages[p].list[name] /\ SendsUsers(p, "role", name, role)
\* Confirmed, and never oneself.
RemoveUser(p) == \E name \in DOMAIN userPages[p].list \ {p} :
                   ~LastAdmin(p, name) /\ SendsUsers(p, "remove", name, "")
SetPassword(p) == \E name \in DOMAIN userPages[p].list : SendsUsers(p, "password", name, "")
AddUser(p) == \E name \in People, role \in {"admin", "operator"} :
                userPages[p].list # <<>> /\ SendsUsers(p, "add", name, role)

UserInit ==
    /\ roles = [p \in People |-> "admin"]
    /\ userPages = [p \in People |-> [list |-> <<>>, busy |-> FALSE]]
    /\ userCalls = [p \in People |-> <<UserCall("read", "", "")>>] /\ userCount = 0

UserNext ==
    \E p \in People :
       \/ \E k \in DOMAIN userCalls[p] : LooksAtUsers(p, k) \/ WritesUsers(p, k) \/ ReceivesUsers(p, k)
       \/ ChangeRole(p) \/ RemoveUser(p) \/ SetPassword(p) \/ AddUser(p)

-----------------------------------------------------------------------------
(* Analysis: the slider shows where it was put, and then what was answered *)

PutsGate(g) ==
    /\ gateCount < MaxCalls
    /\ gateShown' = g
    /\ gateCalls' = Append(gateCalls, [gate |-> g, done |-> FALSE])
    /\ gateCount' = gateCount + 1 /\ UNCHANGED gate
\* Back to the default, the first of them: shown when it is answered.
ResetGate ==
    /\ gateCount < MaxCalls /\ gateShown # Min(Gates)
    /\ gateCalls' = Append(gateCalls, [gate |-> Min(Gates), done |-> FALSE])
    /\ gateCount' = gateCount + 1 /\ UNCHANGED <<gate, gateShown>>
KeepsGate(k) ==
    /\ ~gateCalls[k].done
    /\ gate' = gateCalls[k].gate /\ gateCalls' = [gateCalls EXCEPT ![k].done = TRUE]
    /\ UNCHANGED <<gateShown, gateCount>>
AnswersGate(k) ==
    /\ gateCalls[k].done
    /\ gateShown' = gateCalls[k].gate /\ gateCalls' = RemoveAt(gateCalls, k)
    /\ UNCHANGED <<gate, gateCount>>

GateInit == gate \in Gates /\ gateShown = gate /\ gateCalls = <<>> /\ gateCount = 0
GateNext == \/ \E g \in Gates \ {gateShown} : PutsGate(g)
            \/ ResetGate \/ \E k \in DOMAIN gateCalls : KeepsGate(k) \/ AnswersGate(k)
=============================================================================
