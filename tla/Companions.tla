------------------------------ MODULE Companions ------------------------------
(* The people of a trip and what they keep together: who may do what, the     *)
(* packing list, the costs with their splits, the budget, and the list of     *)
(* trips read page by page (httpapi/trips.go, packing.go, budget.go,          *)
(* expenses.go, transfers.go, stops.go, the costs of places in documents.go). *)
(*                                                                            *)
(* A request reads the row and the role, checks the people it names against   *)
(* the members, and writes in one transaction; others come in between.        *)
EXTENDS Integers, Sequences, FiniteSets, TLC
LOCAL INSTANCE SequencesExt
LOCAL INSTANCE Functions

CONSTANTS
  Clients, None,
  Colors, MaxCostShares, CostCategories, MaxPageSize, DefaultPageSize,
  MaxActivityStops,
  Scenes          \* [db, reqs]: what is stored, who asks for what

VARIABLES
  db,             \* trip, owner, members, users, packing, doc, trips, today
  task,           \* per client: the request and how far it got
  past            \* what happened: byHand, late, repriced, bereft, torn, shown, walk

vars == <<db, task, past>>

Pack == INSTANCE PackingList
Costs == INSTANCE TripBudget
Pages == INSTANCE TripListing

Fresh(req) == [req |-> req, step |-> "new", trip |-> None, seen |-> None, apart |-> FALSE]

Init ==
  \E scene \in Scenes :
    /\ db = scene.db
    /\ task = [c \in Clients |-> IF c \in DOMAIN scene.reqs THEN Fresh(scene.reqs[c])
                                 ELSE [Fresh([op |-> "nothing"]) EXCEPT !.step = "done"]]
    /\ past = [byHand |-> {}, late |-> {}, repriced |-> FALSE, bereft |-> {}, torn |-> {}, shown |-> None,
                walk |-> None]

Req(c) == task[c].req
At(c, op, step) == Req(c).op = op /\ task[c].step = step

Goes(c, step, trip, seen) == task' = [task EXCEPT ![c].step = step, ![c].trip = trip, ![c].seen = seen]
Moves(c, step) == Goes(c, step, task[c].trip, task[c].seen)
Refused(c) == Moves(c, "refused") /\ UNCHANGED <<db, past>>

(******************************** who may do what **************************)

readerRole(user) ==
  CASE user = db.owner -> "owner"
    [] user \in DOMAIN db.members -> db.members[user]
    [] OTHER -> None

\* Editing does not grant deciding who sees a trip.
Can(role, action) ==
  \/ role = "owner"
  \/ role = "editor" /\ action \in {"view", "edit"}
  \/ role = "viewer" /\ action = "view"

tripAccess(c, action) == db.trip # None /\ Can(readerRole(Req(c).by), action)

Members == DOMAIN db.members \cup {db.owner}

\* The handlers that begin with the trip or its document.
Needs ==
  [addMember |-> "members", updateMember |-> "members", removeMember |-> "members", deleteTrip |-> "delete",
   getBudget |-> "view", updateTrip |-> "edit", createCategory |-> "edit", addSections |-> "edit",
   reorderCategories |-> "edit", createItem |-> "edit", resetPacked |-> "edit", createPlace |-> "edit",
   createExpense |-> "edit", createTransfer |-> "edit", deleteDay |-> "edit"]

PackingOps == {"createCategory", "addSections", "reorderCategories", "createItem", "resetPacked"}

NamesPeople(req) == \/ req.op = "createItem" /\ req.row.bringer # None
                    \/ req.op = "createPlace" /\ (req.row.paidBy # None \/ req.row.split # "none")

\* Only a plan keeps a packing list.
requirePlanTrip(c) == Req(c).op \in PackingOps => db.trip.kind = "plan"

tripFor(c) ==
  /\ task[c].step = "new" /\ Req(c).op \in DOMAIN Needs
  /\ IF tripAccess(c, Needs[Req(c).op]) => ~requirePlanTrip(c) THEN Refused(c)
     ELSE /\ Goes(c, IF NamesPeople(Req(c)) THEN "check" ELSE "write", db.trip, None)
          /\ UNCHANGED <<db, past>>

\* The handlers that begin with a row read it first, then the role.
RowFor(c, ops, rows, step) ==
  /\ task[c].step = "new" /\ Req(c).op \in ops
  /\ LET found == {r \in rows : r.id = Req(c).id}
     IN IF found = {} \/ ~tripAccess(c, "edit") THEN Refused(c)
        ELSE /\ Goes(c, step, db.trip, CHOOSE r \in found : TRUE)
             /\ UNCHANGED <<db, past>>

(********************************* the members *****************************)

handleAddMember(c) ==
  /\ At(c, "addMember", "write")
  /\ LET user == Req(c).user
     IN IF db.trip = None \/ user \notin db.users \/ user \in Members THEN Refused(c)
        ELSE db' = [db EXCEPT !.members = @ @@ (user :> Req(c).role)] /\ Moves(c, "done") /\ UNCHANGED past

handleUpdateMember(c) ==
  /\ At(c, "updateMember", "write")
  /\ IF Req(c).user \notin DOMAIN db.members THEN Refused(c)
     ELSE db' = [db EXCEPT !.members[Req(c).user] = Req(c).role] /\ Moves(c, "done") /\ UNCHANGED past

\* Who brings an item once the request is through.
Bringer(c) ==
  CASE Req(c).op = "createItem" -> Req(c).row.bringer
    [] Req(c).op = "updateItem" /\ task[c].seen # None -> (Req(c).set @@ task[c].seen).bringer
    [] OTHER -> None

ItemOf(c) == IF Req(c).op = "createItem" THEN Req(c).row.id ELSE Req(c).id

\* The items a request in flight is about to give to the one who leaves.
InFlight(user) ==
  {<<ItemOf(c), user>> : c \in {c \in Clients : task[c].step \in {"check", "write"} /\ Bringer(c) = user}}

ClearBringer(l, user) == [l EXCEPT !.items = {IF i.bringer = user THEN [i EXCEPT !.bringer = None] ELSE i : i \in @}]

handleRemoveMember(c) ==
  /\ At(c, "removeMember", "write")
  /\ LET user == Req(c).user
     IN IF user \notin DOMAIN db.members THEN Refused(c)
        ELSE /\ db' = [db EXCEPT !.members = Restrict(@, DOMAIN @ \ {user}), !.packing = ClearBringer(@, user)]
             /\ past' = [past EXCEPT !.late = @ \cup InFlight(user)]
             /\ Moves(c, "done")

Rows(seq) == ToSet(seq)
Has(rows, id) == id \in Costs!Ids(rows)
Replace(rows, row) == [k \in DOMAIN rows |-> IF rows[k].id = row.id THEN row ELSE rows[k]]
Without(rows, id) == SelectSeq(rows, LAMBDA r : r.id # id)
Mapped(rows, F(_)) == [k \in DOMAIN rows |-> F(rows[k])]

OnStops(doc, F(_)) == [doc EXCEPT !.tracks = [k \in DOMAIN doc.tracks |-> [doc.tracks[k] EXCEPT !.stops = F(@)]]]
Stops(doc) == FlattenSeq([k \in DOMAIN doc.tracks |-> doc.tracks[k].stops])
CostRows(doc) == Rows(doc.items) \cup Rows(Stops(doc))

\* An account goes with its membership, its shares and what it was to bring or pay.
DropUser(d, user) ==
  LET forgotten(rows) == Mapped(rows, LAMBDA r : Costs!ForgetUser(r, user))
  IN [d EXCEPT !.users = @ \ {user}, !.members = Restrict(@, DOMAIN @ \ {user}),
               !.packing = ClearBringer(@, user),
               !.doc = OnStops([@ EXCEPT !.items = forgotten(@)], forgotten)]

handleDeleteMe(c) ==
  /\ At(c, "deleteAccount", "new")
  /\ Req(c).by \in db.users \ {db.owner}
  /\ db' = DropUser(db, Req(c).by)
  /\ past' = [past EXCEPT !.bereft = @ \cup {r.id : r \in {r \in CostRows(db.doc) : Req(c).by \in Costs!Named(r)}}]
  /\ Moves(c, "done")

(*********************************** the trip ******************************)

\* The whole row is written, as it was read and changed.
handleUpdateTrip(c) ==
  /\ At(c, "updateTrip", "write")
  /\ LET trip == Req(c).set @@ task[c].trip
     IN IF db.trip = None \/ trip.travelers < 1 THEN Refused(c)
        ELSE /\ db' = [db EXCEPT !.trip = trip]
             /\ past' = [past EXCEPT !.repriced = @ \/ trip.travelers # db.trip.travelers]
             /\ Moves(c, "done")

handleDeleteTrip(c) ==
  /\ At(c, "deleteTrip", "write")
  /\ IF db.trip = None THEN Refused(c)
     ELSE /\ db' = [db EXCEPT !.trip = None, !.members = <<>>, !.packing = Pack!NoList, !.doc = Costs!Empty]
          /\ Moves(c, "done") /\ UNCHANGED past

(******************************* the packing list **************************)

packingCategoryFor(c) == RowFor(c, {"updateCategory", "deleteCategory"}, db.packing.cats, "write")

packingItemFor(c) ==
  RowFor(c, {"updateItem", "moveItem", "deleteItem"}, db.packing.items,
         IF Req(c).op = "updateItem" THEN "check" ELSE "write")

\* Nobody but a member brings a thing; the one already named is let through.
checkBringer(c) ==
  /\ task[c].step = "check" /\ Req(c).op \in {"createItem", "updateItem"}
  /\ LET stored == IF task[c].seen = None THEN None ELSE task[c].seen.bringer
     IN IF Bringer(c) \in {None, stored} \cup Members THEN Moves(c, "write") /\ UNCHANGED <<db, past>>
        ELSE Refused(c)

Packs(c, op, list) ==
  /\ At(c, op, "write")
  /\ IF db.trip = None \/ list = None THEN Moves(c, "refused") /\ UNCHANGED db
     ELSE db' = [db EXCEPT !.packing = list] /\ Moves(c, "done")

Untouched == UNCHANGED past
\* Names given by hand may be given twice.
ByHand(id) == past' = [past EXCEPT !.byHand = @ \cup {id}]

Changed(c) == Req(c).set @@ task[c].seen
BringerKnown(c) == Bringer(c) \in db.users \cup {None}

handleCreatePackingCategory(c) ==
  Packs(c, "createCategory", Pack!CreateCategory(db.packing, Req(c).row)) /\ ByHand(Req(c).row.id)
handleAddPacking(c) == Packs(c, "addSections", Pack!AddSections(db.packing, Req(c).sections)) /\ Untouched
handleReorderPackingCategories(c) ==
  Packs(c, "reorderCategories", Pack!ReorderCategories(db.packing, Req(c).order)) /\ Untouched
handleUpdatePackingCategory(c) ==
  Packs(c, "updateCategory", Pack!UpdateCategory(db.packing, Changed(c))) /\ ByHand(Req(c).id)
handleDeletePackingCategory(c) == Packs(c, "deleteCategory", Pack!DeleteCategory(db.packing, Req(c).id)) /\ Untouched

handleCreatePackingItem(c) ==
  Packs(c, "createItem", IF BringerKnown(c) THEN Pack!CreateItem(db.packing, Req(c).row) ELSE None)
    /\ ByHand(Req(c).row.id)
handleUpdatePackingItem(c) ==
  Packs(c, "updateItem", IF BringerKnown(c) THEN Pack!UpdateItem(db.packing, Changed(c)) ELSE None)
    /\ ByHand(Req(c).id)
handleMovePackingItem(c) ==
  Packs(c, "moveItem", Pack!MoveItem(db.packing, Req(c).id, task[c].seen.cat, Req(c).cat, Req(c).position))
    /\ ByHand(Req(c).id)
handleDeletePackingItem(c) == Packs(c, "deleteItem", Pack!DeleteItem(db.packing, Req(c).id)) /\ Untouched
handleResetPacking(c) == Packs(c, "resetPacked", Pack!ResetPacked(db.packing)) /\ Untouched

(********************************** the costs ******************************)

touchesSplit(set) == DOMAIN set \cap {"split", "shares", "paidBy", "planned", "actual", "per"} # {}

Updates(c) == Req(c).op \in {"updatePlace", "updateStop"}
ChecksSplit(c) == Req(c).op = "createStop" \/ (Updates(c) /\ touchesSplit(Req(c).set))

\* A cost is read in two statements, its row first, and others write in between.
CostFor(c, ops, rows) ==
  /\ task[c].step = "new" /\ Req(c).op \in ops
  /\ LET found == {r \in rows : r.id = Req(c).id}
     IN IF found = {} THEN Refused(c)
        ELSE /\ Goes(c, "shares", None, [(CHOOSE r \in found : TRUE) EXCEPT !.shares = <<>>])
             /\ UNCHANGED <<db, past>>

placeFor(c) == CostFor(c, {"updatePlace", "createStop", "deletePlace", "deleteTrack"}, Rows(db.doc.items))
stopFor(c) == CostFor(c, {"updateStop", "deleteStop"}, Rows(Stops(db.doc)))

SameAmounts(x, y) == x.planned = y.planned /\ x.actual = y.actual /\ x.per = y.per /\ x.split = y.split

\* The shares come after the row, then the role; a stay mark is refused.
readShares(c) ==
  /\ task[c].step = "shares"
  /\ LET seen == task[c].seen
         stored == {r \in CostRows(db.doc) : r.id = seen.id}
         shares == IF stored = {} THEN <<>> ELSE (CHOOSE r \in stored : TRUE).shares
     IN IF ~tripAccess(c, "edit") \/ seen.kind = "anchor" THEN Refused(c)
        ELSE /\ task' = [task EXCEPT ![c].step = IF ChecksSplit(c) THEN "check" ELSE "write",
                                     ![c].trip = db.trip,
                                     ![c].seen = [seen EXCEPT !.shares = shares],
                                     ![c].apart = \E r \in stored : ~SameAmounts(r, seen)]
             /\ UNCHANGED <<db, past>>

\* What was really spent belongs to a report.
Allowed(row, kind) == kind = "plan" => row.actual = None

apply(c) ==
  LET row == IF "row" \in DOMAIN Req(c) THEN Req(c).row ELSE Changed(c)
  IN IF Allowed(row, task[c].trip.kind) THEN Costs!normalizeSplit(row) ELSE None

\* The members, and whoever the stored cost names already.
checkCostSplit(c) ==
  /\ task[c].step = "check" /\ Req(c).op \in {"createPlace", "updatePlace", "createStop", "updateStop"}
  /\ LET row == apply(c)
         stored == IF Updates(c) THEN Costs!Named(task[c].seen) ELSE {}
         fits == /\ row # None /\ tripAccess(c, "view")
                 /\ Costs!CheckCostSplit(row, Members \cup stored, db.trip.travelers, db.trip.kind = "report")
     IN IF fits THEN Moves(c, "write") /\ UNCHANGED <<db, past>> ELSE Refused(c)

\* The document is written under its lock; whom a cost names must have an account.
Saves(c, op, row, doc, history) ==
  /\ At(c, op, "write")
  /\ IF db.trip = None \/ row = None \/ doc = None THEN Refused(c)
     ELSE db' = [db EXCEPT !.doc = doc] /\ past' = history /\ Moves(c, "done")

Writes(c, op, row, doc) == Saves(c, op, row, doc, past)

\* A change that leaves the split alone writes back the amount and the shares it
\* read, without looking whether they belong together.
Rewrites(c, op, row, doc) ==
  LET torn == CASE ChecksSplit(c) -> past.torn \ {Req(c).id}
                [] ~ChecksSplit(c) /\ task[c].apart -> past.torn \cup {Req(c).id}
                [] OTHER -> past.torn
  IN Saves(c, op, row, doc, [past EXCEPT !.torn = torn])

Known(row) == row # None /\ Costs!Named(row) \subseteq db.users

HasTrack(doc, item) == \E t \in Rows(doc.tracks) : t.item = item
TrackStops(doc, item) == Costs!StopsOf(doc.tracks, item)

CreatePlace(doc, row) ==
  IF Known(row) /\ (row.day = None \/ row.day \in Rows(doc.days)) THEN [doc EXCEPT !.items = Append(@, row)] ELSE None

UpdatePlace(doc, row) == IF Known(row) /\ Has(doc.items, row.id) THEN [doc EXCEPT !.items = Replace(@, row)] ELSE None

\* An activity holds so many stops, and only on a line.
CreateStop(doc, item, row) ==
  IF ~Known(row) \/ ~HasTrack(doc, item) \/ Len(TrackStops(doc, item)) >= MaxActivityStops THEN None
  ELSE [doc EXCEPT !.tracks = [k \in DOMAIN @ |-> IF doc.tracks[k].item = item
                                                 THEN [doc.tracks[k] EXCEPT !.stops = Append(@, row)]
                                                 ELSE doc.tracks[k]]]

UpdateStop(doc, row) ==
  IF Known(row) /\ Has(Stops(doc), row.id) THEN OnStops(doc, LAMBDA stops : Replace(stops, row)) ELSE None

DeleteStop(doc, id) == IF Has(Stops(doc), id) THEN OnStops(doc, LAMBDA stops : Without(stops, id)) ELSE None

\* The stops hang on the line, the line on the place, the place on its day.
DeleteTrack(doc, item) == [doc EXCEPT !.tracks = SelectSeq(@, LAMBDA t : t.item # item)]
DeletePlace(doc, item) ==
  IF ~Has(doc.items, item) THEN None
  ELSE [DeleteTrack(doc, item) EXCEPT !.items = Without(@, item),
                                      !.legs = SelectSeq(@, LAMBDA l : item \notin {l.from, l.to})]

DeleteDay(doc, day) ==
  LET gone == {i.id : i \in {i \in Rows(doc.items) : i.day = day}}
  IN IF day \notin Rows(doc.days) \/ Len(doc.days) = 1 THEN None
     ELSE [doc EXCEPT !.days = SelectSeq(@, LAMBDA d : d # day),
                      !.items = SelectSeq(@, LAMBDA i : i.id \notin gone),
                      !.tracks = SelectSeq(@, LAMBDA t : t.item \notin gone),
                      !.legs = SelectSeq(@, LAMBDA l : {l.from, l.to} \cap gone = {}),
                      !.expenses = Mapped(@, LAMBDA e : IF e.day = day THEN [e EXCEPT !.day = None] ELSE e)]

handleCreatePlace(c) == Writes(c, "createPlace", apply(c), CreatePlace(db.doc, apply(c)))
handleUpdatePlace(c) == Rewrites(c, "updatePlace", apply(c), UpdatePlace(db.doc, apply(c)))
handleCreateStop(c) ==
  Writes(c, "createStop", apply(c), CreateStop(db.doc, Req(c).id, apply(c)))
handleUpdateStop(c) == Rewrites(c, "updateStop", apply(c), UpdateStop(db.doc, apply(c)))
handleDeleteStop(c) == Writes(c, "deleteStop", Req(c), DeleteStop(db.doc, Req(c).id))
handleDeletePlace(c) == Writes(c, "deletePlace", Req(c), DeletePlace(db.doc, Req(c).id))
handleDeleteItemTrack(c) == Writes(c, "deleteTrack", Req(c), DeleteTrack(db.doc, Req(c).id))
handleDeleteDay(c) == Writes(c, "deleteDay", Req(c), DeleteDay(db.doc, Req(c).day))

(*************************** expenses and transfers ************************)

expenseFor(c) == RowFor(c, {"updateExpense", "deleteExpense"}, Rows(db.doc.expenses), "write")
transferFor(c) == RowFor(c, {"updateTransfer", "deleteTransfer"}, Rows(db.doc.transfers), "write")

\* An expense needs an amount.
Expense(c, row) == IF Allowed(row, task[c].trip.kind) /\ {row.planned, row.actual} # {None} THEN row ELSE None
Transfer(c, row) == IF Allowed(row, task[c].trip.kind) THEN row ELSE None

checkExpenseDay(doc, row) == row # None /\ (row.day = None \/ row.day \in Rows(doc.days))

CreateExpense(doc, row) == IF checkExpenseDay(doc, row) THEN [doc EXCEPT !.expenses = Append(@, row)] ELSE None
UpdateExpense(doc, row) ==
  IF checkExpenseDay(doc, row) /\ Has(doc.expenses, row.id) THEN [doc EXCEPT !.expenses = Replace(@, row)] ELSE None
DeleteExpense(doc, id) == IF Has(doc.expenses, id) THEN [doc EXCEPT !.expenses = Without(@, id)] ELSE None

CreateTransfer(doc, row) == [doc EXCEPT !.transfers = Append(@, row)]
UpdateTransfer(doc, row) ==
  IF row # None /\ Has(doc.transfers, row.id) THEN [doc EXCEPT !.transfers = Replace(@, row)] ELSE None
DeleteTransfer(doc, id) == IF Has(doc.transfers, id) THEN [doc EXCEPT !.transfers = Without(@, id)] ELSE None

handleCreateExpense(c) ==
  LET row == Expense(c, Req(c).row) IN Writes(c, "createExpense", row, CreateExpense(db.doc, row))
handleUpdateExpense(c) ==
  LET row == Expense(c, Changed(c)) IN Writes(c, "updateExpense", row, UpdateExpense(db.doc, row))
handleDeleteExpense(c) == Writes(c, "deleteExpense", Req(c), DeleteExpense(db.doc, Req(c).id))

handleCreateTransfer(c) ==
  LET row == Transfer(c, Req(c).row) IN Writes(c, "createTransfer", row, CreateTransfer(db.doc, row))
handleUpdateTransfer(c) ==
  LET row == Transfer(c, Changed(c)) IN Writes(c, "updateTransfer", row, UpdateTransfer(db.doc, row))
handleDeleteTransfer(c) == Writes(c, "deleteTransfer", Req(c), DeleteTransfer(db.doc, Req(c).id))

\* The trip is read first, its document after it.
handleGetBudget(c) ==
  /\ At(c, "getBudget", "write")
  /\ IF db.trip = None THEN Refused(c)
     ELSE /\ past' = [past EXCEPT !.shown = [trip |-> task[c].trip, content |-> db.doc,
                                             budget |-> Costs!BuildBudget(task[c].trip, db.doc)]]
          /\ Moves(c, "done") /\ UNCHANGED db

(******************************* the list of trips *************************)

\* The trips whose place in the list being read, or whose being in it, changed.
Shifted(trips, today) ==
  IF past.walk = None THEN past
  ELSE LET walk == past.walk
           at(ts, id, day) == IF id \in Pages!Matching(ts, walk.user, walk.filter)
                              THEN Pages!Place(ts, id, walk.filter, day) ELSE None
       IN [past EXCEPT !.walk.moved = @ \cup {id \in DOMAIN trips \cup DOMAIN db.trips :
             (IF id \in DOMAIN trips THEN at(trips, id, today) ELSE None)
               # (IF id \in DOMAIN db.trips THEN at(db.trips, id, db.today) ELSE None)}]

NewTrips(c, trips, today) ==
  db' = [db EXCEPT !.trips = trips, !.today = today] /\ past' = Shifted(trips, today) /\ Moves(c, "done")

handleCreateTrip(c) == At(c, "createTrip", "new") /\ NewTrips(c, db.trips @@ (Req(c).id :> Req(c).row), db.today)
\* Its dates, its state, its people or anything in it changes.
ChangeTrip(c) ==
  /\ At(c, "changeTrip", "new")
  /\ IF Req(c).id \notin DOMAIN db.trips THEN Refused(c)
     ELSE NewTrips(c, [db.trips EXCEPT ![Req(c).id] = Req(c).set @@ @], db.today)
DropTrip(c) == At(c, "dropTrip", "new") /\ NewTrips(c, Restrict(db.trips, DOMAIN db.trips \ {Req(c).id}), db.today)
Midnight(c) == At(c, "midnight", "new") /\ NewTrips(c, db.trips, db.today + 1)

\* A page at a time; each request reads the table and the day anew.
handleListTrips(c) ==
  /\ At(c, "list", "new")
  /\ LET user == Req(c).by
         filter == Req(c).filter
         walk == IF past.walk # None THEN past.walk
                 ELSE [user |-> user, filter |-> filter, from |-> Pages!Matching(db.trips, user, filter),
                       moved |-> {}, shown |-> <<>>, cursor |-> None]
         page == Pages!List(db.trips, user, filter, walk.cursor, db.today)
     IN /\ past' = [past EXCEPT !.walk = [walk EXCEPT !.shown = @ \o page.items, !.cursor = page.next]]
        /\ Moves(c, IF page.next = None THEN "done" ELSE "new")
        /\ UNCHANGED db

(*********************************** the system ****************************)

Roster(c) ==
  \/ tripFor(c) \/ handleAddMember(c) \/ handleUpdateMember(c) \/ handleRemoveMember(c) \/ handleDeleteMe(c)
  \/ handleUpdateTrip(c) \/ handleDeleteTrip(c)

Packing(c) ==
  \/ packingCategoryFor(c) \/ packingItemFor(c) \/ checkBringer(c)
  \/ handleCreatePackingCategory(c) \/ handleAddPacking(c) \/ handleReorderPackingCategories(c)
  \/ handleUpdatePackingCategory(c) \/ handleDeletePackingCategory(c)
  \/ handleCreatePackingItem(c) \/ handleUpdatePackingItem(c) \/ handleMovePackingItem(c)
  \/ handleDeletePackingItem(c) \/ handleResetPacking(c)

Spending(c) ==
  \/ placeFor(c) \/ stopFor(c) \/ readShares(c) \/ expenseFor(c) \/ transferFor(c) \/ checkCostSplit(c)
  \/ handleCreatePlace(c) \/ handleUpdatePlace(c) \/ handleDeletePlace(c) \/ handleDeleteItemTrack(c)
  \/ handleCreateStop(c) \/ handleUpdateStop(c) \/ handleDeleteStop(c) \/ handleDeleteDay(c)
  \/ handleCreateExpense(c) \/ handleUpdateExpense(c) \/ handleDeleteExpense(c)
  \/ handleCreateTransfer(c) \/ handleUpdateTransfer(c) \/ handleDeleteTransfer(c) \/ handleGetBudget(c)

Listing(c) ==
  \/ handleListTrips(c) \/ handleCreateTrip(c) \/ ChangeTrip(c) \/ DropTrip(c) \/ Midnight(c)

\* Every request is answered.
Rests == (\A c \in Clients : task[c].step \in {"done", "refused"}) /\ UNCHANGED vars

Next == (\E c \in Clients : Roster(c) \/ Packing(c) \/ Spending(c) \/ Listing(c)) \/ Rests

Spec == Init /\ [][Next]_vars

(********************************* properties ******************************)

\* The parts of a split cost add up to the cost, unless an account named in it
\* is gone, the travellers of a cost per person were counted anew, or a change
\* that leaves the split alone read the row before and the shares after another's
\* change of the cost and wrote the two back (domain/split.go: "which together
\* make up the cost").
SplitsMakeTheCost ==
  db.trip # None =>
    LET travelers == db.trip.travelers
        report == db.trip.kind = "report"
    IN \A cost \in {r \in CostRows(db.doc) : r.split # "none" /\ r.id \notin past.bereft \cup past.torn} :
         \/ Costs!Sum(Costs!ShareAmounts(cost, travelers, report)) = Costs!SplitTotal(cost, travelers, report)
         \/ past.repriced /\ cost.per /\ cost.split = "individuals"

Total(rows, Of(_)) == MapThenSumSet(Of, rows)
SumOf(f, field) == MapThenSumSet(LAMBDA k : f[k][field], DOMAIN f)

\* A document added up row by row, with no entry in between.
StopsOn(content, onDay) ==
  UNION {Rows(t.stops) : t \in {t \in Rows(content.tracks) : (Costs!Item(content, t.item).day # None) = onDay}}
PlacesOn(content, onDay) == {i \in Rows(content.items) : (i.day # None) = onDay /\ i.kind # "anchor"}
Legs(content) ==
  UNION {Rows(Costs!OpeningLeg(content.legs, Costs!DayItems(content.items, d))
                \o Costs!DayLegs(content.legs, Costs!DayItems(content.items, d))) : d \in Rows(content.days)}

\* Everything counted per head or for the group, and what is for the group only.
SpentOn(content, field, travelers) ==
  LET perHead == StopsOn(content, TRUE) \cup PlacesOn(content, TRUE) \cup Rows(content.transfers)
      whole == Legs(content) \cup Rows(content.stays) \cup Rows(content.expenses)
  IN Total(perHead, LAMBDA r : Costs!perGroup(r[field], r.per, travelers))
       + Total(whole, LAMBDA r : Costs!moneyOrZero(r[field]))

\* The budget that was read adds up: it is the sum of the rows, its days and the
\* rest make the whole, so do its categories, a place without a day is kept
\* apart, and the payments square the members without anybody paying on
\* (domain/budget.go, domain/split.go: "the balances always add up to zero").
BudgetAddsUp(trip, content, b) ==
  LET waiting == StopsOn(content, FALSE) \cup PlacesOn(content, FALSE)
  IN /\ b.planned = SpentOn(content, "planned", trip.travelers)
     /\ b.actual = IF trip.kind = "report" THEN SpentOn(content, "actual", trip.travelers) ELSE 0
     /\ b.unassigned = Total(waiting, LAMBDA r : Costs!PlannedCostTotal(r, trip.travelers))
     /\ b.planned = SumOf(b.days, "planned") + b.stays + b.transfers + b.untied
     /\ b.planned = SumOf(b.categories, "planned") /\ b.actual = SumOf(b.categories, "actual")

AccountsSquare(b) ==
  LET sent(user) == Costs!Sum([k \in DOMAIN b.settlements |->
                                IF b.settlements[k].from = user THEN b.settlements[k].amount ELSE 0])
      received(user) == Costs!Sum([k \in DOMAIN b.settlements |->
                                IF b.settlements[k].to = user THEN b.settlements[k].amount ELSE 0])
  IN /\ \A x \in Rows(b.balances) : Costs!Net(x) + sent(x.user) - received(x.user) = 0 /\ 0 \in {sent(x.user), received(x.user)}
     /\ Rows(b.settlements) # {} => Len(b.settlements) < Len(b.balances)
     /\ Costs!Sum([k \in DOMAIN b.balances |-> Costs!Net(b.balances[k])]) = 0

\* The ledger adds up: every split cost is shared out whole, and a budget that
\* was read is the sum of its rows and squares the members.
LedgerAddsUp ==
  /\ SplitsMakeTheCost
  /\ past.shown # None =>
       BudgetAddsUp(past.shown.trip, past.shown.content, past.shown.budget) /\ AccountsSquare(past.shown.budget)

\* Whoever left the trip brings nothing on it, but for a request that named them
\* and was on its way when they left (storage/postgres/trips.go, RemoveMember).
LeaversBringNothing ==
  \A i \in db.packing.items : i.bringer \in {None} \cup Members \/ <<i.id, i.bringer>> \in past.late

\* The categories are numbered without a gap, no two things of a category share
\* a place, and no template is filled in twice: of two namesakes one was named by
\* hand (domain/packing.go: "adding a template twice adds nothing"); and what
\* leavers were to bring is nobody's.
PackingInOrder ==
  LET copies(x, y) == x.id # y.id /\ Pack!SameName(x.name, y.name) /\ {x.id, y.id} \cap past.byHand = {}
      l == db.packing
  IN /\ {k.pos : k \in l.cats} = 0..(Cardinality(l.cats) - 1)
     /\ \A k, o \in l.cats : ~copies(k, o)
     /\ \A i, j \in l.items : i.id # j.id /\ i.cat = j.cat => i.pos # j.pos /\ (i.cat # None => ~copies(i, j))
     /\ LeaversBringNothing

\* A list read to its end shows every trip that kept its place once, and none
\* of them twice (storage/postgres/trips.go, List).
PagesMissNothing ==
  \A c \in Clients : Req(c).op = "list" =>
    LET times(id) == Len(SelectSeq(past.walk.shown, LAMBDA x : x = id))
    IN \A id \in (IF past.walk = None THEN {} ELSE past.walk.from \ past.walk.moved) :
         IF task[c].step = "done" THEN times(id) = 1 ELSE times(id) <= 1
===============================================================================
