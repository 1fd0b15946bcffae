------------------------------- MODULE Itinerary -------------------------------
(* Several people editing one trip: the requests of httpapi/documents.go,     *)
(* legs.go, legsegments.go, tracks.go, report.go and the period of trips.go   *)
(* as processes over one document.  A handler reads a row, the transaction    *)
(* that answers it comes later and writes from what was read; a calculation   *)
(* and an import take many steps; a report is copied table after table.       *)
EXTENDS TripDocument

CONSTANTS
  Clients,
  Scenarios,      \* [doc, reqs]: a document and the requests of some of the clients
  MaxLegs         \* legs calculated in one request

VARIABLES
  doc,            \* the document of the trip
  report,         \* the report made of it, or None
  jobs            \* per client: the request, how far it got and what it has read

vars == <<doc, report, jobs>>

Init ==
  \E scenario \in Scenarios :
    /\ doc = scenario.doc
    /\ report = None
    /\ jobs = [c \in Clients |->
         IF c \in DOMAIN scenario.reqs THEN [req |-> scenario.reqs[c], step |-> "new", seen |-> None]
         ELSE [req |-> [op |-> "nothing"], step |-> "done", seen |-> None]]

(********************************* requests ******************************)

At(c, op, step) == jobs[c].req.op = op /\ jobs[c].step = step

Goes(c, step, seen) == jobs' = [jobs EXCEPT ![c].step = step, ![c].seen = seen]

Reads(c, step, seen) == Goes(c, step, seen) /\ UNCHANGED <<doc, report>>

Refuse(c) == Reads(c, "refused", None)

\* days_document_id_position_key is deferred: two days at one position fail the commit.
Commits(result) ==
  /\ result # Refused
  /\ \A x, y \in DOMAIN result.days : result.days[x].pos = result.days[y].pos => x = y

Answer(c, result) ==
  IF Commits(result) THEN doc' = result /\ UNCHANGED report /\ Goes(c, "done", None) ELSE Refuse(c)

Changed(row, change) == [f \in DOMAIN row |-> IF f \in DOMAIN change THEN change[f] ELSE row[f]]

DayRequests == {"UpdateDay", "DeleteDay", "DuplicateDay"}
PlaceRequests == {"UpdatePlace", "DeletePlace", "CopyPlace", "ImportTrack"}
LegRequests == {"UpdateLeg", "SetLegSegments"}

dayFor(c) ==
  LET req == jobs[c].req
  IN /\ req.op \in DayRequests /\ jobs[c].step = "new"
     /\ IF req.id \in DOMAIN doc.days THEN Reads(c, "read", doc.days[req.id]) ELSE Refuse(c)

\* A recording is for an activity.
placeFor(c) ==
  LET req == jobs[c].req
  IN /\ req.op \in PlaceRequests /\ jobs[c].step = "new"
     /\ IF IsPlace(doc, req.id) /\ (req.op = "ImportTrack" => doc.items[req.id].activity)
        THEN Reads(c, "read", doc.items[req.id]) ELSE Refuse(c)

stayFor(c) ==
  LET req == jobs[c].req
  IN /\ At(c, "UpdateStay", "new")
     /\ IF req.id \in DOMAIN doc.stays THEN Reads(c, "read", doc.stays[req.id]) ELSE Refuse(c)

legFor(c) ==
  LET req == jobs[c].req
  IN /\ req.op \in LegRequests /\ jobs[c].step = "new"
     /\ IF req.id \in DOMAIN doc.legs THEN Reads(c, "read", Fold(doc.legs[req.id])) ELSE Refuse(c)

tripFor(c) ==
  /\ jobs[c].req.op \in {"UpdateTrip", "CreateReport"} /\ jobs[c].step = "new"
  /\ Reads(c, "read", [start |-> doc.start, end |-> doc.end])

(***************************** days and the period ***********************)

handleCreateDay(c) ==
  LET req == jobs[c].req
  IN At(c, "AddDay", "new") /\ Answer(c, AddDay(doc, req.mode, req.pos))

handleUpdateDay(c) ==
  LET req == jobs[c].req
  IN At(c, "UpdateDay", "read") /\ Answer(c, UpdateDay(doc, req.id, Changed(jobs[c].seen, req.change)))

\* The transaction reads the day once more before it waits for the lock of the trip.
readDay(c) ==
  LET req == jobs[c].req
  IN /\ req.op \in {"DeleteDay", "DuplicateDay"} /\ jobs[c].step = "read"
     /\ IF req.id \in DOMAIN doc.days THEN Reads(c, "located", doc.days[req.id]) ELSE Refuse(c)

handleDeleteDay(c) ==
  LET req == jobs[c].req
  IN At(c, "DeleteDay", "located") /\ Answer(c, DeleteDay(doc, req.id, jobs[c].seen.pos, req.confirm))

handleDuplicateDay(c) ==
  At(c, "DuplicateDay", "located") /\ Answer(c, DuplicateDay(doc, jobs[c].req.id, jobs[c].seen))

handleReorderDays(c) == At(c, "ReorderDays", "new") /\ Answer(c, ReorderDays(doc, jobs[c].req.order))

\* What the request leaves out is stored as it was read, if it is a period then.
handleUpdateTrip(c) ==
  LET req == jobs[c].req
      period == Changed(jobs[c].seen, req.change)
      normal == period.start <= period.end /\ DayCount(period.start, period.end) <= MaxTripDays
  IN /\ At(c, "UpdateTrip", "read")
     /\ IF normal THEN Answer(c, UpdateTrip(doc, period.start, period.end, req.confirm)) ELSE Refuse(c)

(***************************** places and stays **************************)

createPlace(c) ==
  LET req == jobs[c].req
  IN At(c, "CreatePlace", "new") /\ Answer(c, CreatePlace(doc, req.row, req.row.day, req.pos))

handleUpdatePlace(c) ==
  LET req == jobs[c].req
  IN At(c, "UpdatePlace", "read") /\ Answer(c, UpdatePlace(doc, req.id, Changed(jobs[c].seen, req.change)))

handleDeletePlace(c) ==
  At(c, "DeletePlace", "read") /\ Answer(c, DeletePlace(doc, jobs[c].req.id, jobs[c].seen.day))

handleMovePlace(c) ==
  LET req == jobs[c].req
  IN At(c, "MovePlace", "new") /\ Answer(c, MovePlace(doc, req.id, req.day, req.pos))

handleCopyPlace(c) ==
  LET req == jobs[c].req
  IN At(c, "CopyPlace", "read") /\ Answer(c, CopyPlace(doc, jobs[c].seen, req.day, req.pos))

handleUpdateNight(c) == At(c, "UpdateNight", "new") /\ Answer(c, SetNightStory(doc, jobs[c].req.id))

handleCreateStay(c) == At(c, "CreateStay", "new") /\ Answer(c, CreateStay(doc, jobs[c].req.row))

handleUpdateStay(c) ==
  LET req == jobs[c].req
  IN At(c, "UpdateStay", "read") /\ Answer(c, UpdateStay(doc, req.id, Changed(jobs[c].seen, req.change)))

handleDeleteStay(c) == At(c, "DeleteStay", "new") /\ Answer(c, DeleteStay(doc, jobs[c].req.id))

(************************************ legs *******************************)

handleUpdateLeg(c) ==
  LET req == jobs[c].req
      leg == Changed(jobs[c].seen, req.change)
      route == IF leg.route = "via" /\ ~Routed(leg.mode) THEN "fastest" ELSE leg.route
  IN /\ At(c, "UpdateLeg", "read") /\ ~Composite(jobs[c].seen)
     /\ Answer(c, UpdateLeg(doc, req.id, leg.mode, route))

\* A leg with changes is changed part by part; only its cost can be cleared here, which
\* writes all its parts again as they were read, whatever has become of them.
updateCompositeLeg(c) ==
  LET req == jobs[c].req
  IN /\ At(c, "UpdateLeg", "read") /\ Composite(jobs[c].seen)
     /\ IF req.change = [cost |-> None] THEN Answer(c, SaveLegParts(doc, req.id, jobs[c].seen.parts, None))
        ELSE Refuse(c)

\* A new part that goes the way an old one went takes over its calculation.
carryCalculations(parts, old, ends) ==
  LET Done(k) == {j \in DOMAIN old : old[j].source # "pending" /\ old[j].input = SegmentInput(parts, k, ends)}
      Latest(k) == CHOOSE j \in Done(k) : \A i \in Done(k) : i <= j
  IN [k \in DOMAIN parts |->
        [id |-> 0, mode |-> parts[k].mode, stop |-> parts[k].stop, input |-> SegmentInput(parts, k, ends),
         source |-> IF Done(k) = {} THEN "pending" ELSE old[Latest(k)].source,
         for |-> IF Done(k) = {} THEN None ELSE old[Latest(k)].for]]

\* The ends of the leg are read after the leg.
legEndPoints(c) ==
  LET leg == jobs[c].seen
      parts == jobs[c].req.parts
  IN /\ At(c, "SetLegSegments", "read") /\ Len(parts) > 1
     /\ Reads(c, "carried", carryCalculations(parts, leg.parts, LegEnds(doc, leg.from, leg.to)))

\* The parts are new ones, each with an identifier of its own.
handleSetLegSegments(c) ==
  LET parts == jobs[c].seen
      Named == [k \in DOMAIN parts |-> [parts[k] EXCEPT !.id = doc.next + k - 1]]
  IN /\ At(c, "SetLegSegments", "carried")
     /\ Answer(c, SaveLegParts([doc EXCEPT !.next = @ + Len(parts)], jobs[c].req.id, Named, None))

\* The only part left gives the leg its mode.
collapseLeg(c) ==
  LET req == jobs[c].req
  IN /\ At(c, "SetLegSegments", "read") /\ Len(req.parts) <= 1
     /\ Answer(c, SaveLegParts(doc, req.id, <<>>, IF req.parts = <<>> THEN jobs[c].seen.mode ELSE req.parts[1].mode))

(******************************* calculations ****************************)

RetryableEstimate(source) == source = "estimate"

\* The parts of a leg that are to be calculated, with their ends as read.
calculateSegments(d, l, forced, retry) ==
  LET leg == d.legs[l]
      ends == LegEnds(d, leg.from, leg.to)
      Wanted(p) == p.source = "pending" \/ forced \/ (retry /\ RetryableEstimate(p.source))
      Ask(k) == [part |-> TRUE, id |-> leg.parts[k].id, input |-> leg.parts[k].input,
                 for |-> SegmentInput(leg.parts, k, ends)]
      wanted == SelectSeq([k \in DOMAIN leg.parts |-> k], LAMBDA k : Wanted(leg.parts[k]))
  IN [n \in DOMAIN wanted |-> Ask(wanted[n])]

\* What one request calculates: what waits, or what force names, of what it read.
WantedLegs(d, force, retry) ==
  LET Plain(l) == LET leg == d.legs[l]
                      wanted == (leg.source = "pending" /\ ~leg.pinned) \/ l \in force
                                  \/ (retry /\ RetryableEstimate(leg.source) /\ ~leg.pinned)
                  IN IF wanted THEN <<[part |-> FALSE, id |-> l, input |-> leg.input, for |-> WantedInput(d, leg)]>>
                     ELSE <<>>
      legs == Ranked(IF force = {} THEN DOMAIN d.legs ELSE force \cap DOMAIN d.legs, LAMBDA x, y : x < y)
      asked == FlattenSeq([k \in DOMAIN legs |->
                 IF Composite(d.legs[legs[k]]) THEN calculateSegments(d, legs[k], legs[k] \in force, retry)
                 ELSE Plain(legs[k])])
  IN SubSeq(asked, 1, IF Len(asked) < MaxLegs THEN Len(asked) ELSE MaxLegs)

handleCalculateLegs(c) ==
  /\ At(c, "CalculateLegs", "new")
  /\ Reads(c, "calculating", WantedLegs(doc, {}, FALSE))

handleRetryEstimatedLegs(c) ==
  /\ At(c, "RetryEstimatedLegs", "new")
  /\ Reads(c, "calculating", WantedLegs(doc, {}, TRUE))

\* The legs of the day, or the leg, are named first and the document read again.
handleRecalculate(c) ==
  LET req == jobs[c].req
      named == IF req.op = "RecalculateDay" THEN {l \in DOMAIN doc.legs : doc.legs[l].day = req.id}
               ELSE {req.id} \cap DOMAIN doc.legs
  IN /\ req.op \in {"RecalculateDay", "RecalculateLeg"} /\ jobs[c].step = "new"
     /\ IF named = {} THEN Refuse(c) ELSE Reads(c, "named", named)

RecalculateNamed(c) ==
  /\ jobs[c].step = "named"
  /\ Reads(c, "calculating", WantedLegs(doc, jobs[c].seen, FALSE))

\* What the routing service makes of it: a road, a guess with its reason, a line.
Outcomes(input) ==
  IF None \in {input.from, input.to} THEN {"missing_coordinates"}
  ELSE IF ~Routed(input.mode) THEN {"straight_line"}
  ELSE {"provider", "estimate"}

calculateLegs(c) ==
  LET asked == jobs[c].seen
      ask == Head(asked)
  IN /\ jobs[c].step = "calculating" /\ asked # <<>>
     /\ \E source \in Outcomes(ask.for) :
          doc' = IF ask.part THEN SaveSegmentCalculation(doc, ask.id, ask.input, source, ask.for)
                 ELSE SaveLegCalculation(doc, ask.id, ask.input, source, FALSE, ask.for)
     /\ Goes(c, "calculating", Tail(asked))
     /\ UNCHANGED report

CalculationEnds(c) ==
  jobs[c].step = "calculating" /\ jobs[c].seen = <<>> /\ Reads(c, "done", None)

(******************************** chosen routes **************************)

\* Only a road between two points takes a chosen route.
Choosable(leg) == ~Composite(leg) /\ Routed(leg.mode) /\ leg.route # "via"

\* The browser keeps the routes offered between the ends of the leg.
handleLegAlternatives(c) ==
  LET l == jobs[c].req.id
  IN /\ At(c, "PinLegRoute", "new")
     /\ IF /\ l \in DOMAIN doc.legs /\ Choosable(doc.legs[l])
           /\ None \notin Range(LegEnds(doc, doc.legs[l].from, doc.legs[l].to))
        THEN Reads(c, "offered", [for |-> WantedInput(doc, doc.legs[l])]) ELSE Refuse(c)

handlePinLegRoute(c) ==
  LET l == jobs[c].req.id
  IN /\ At(c, "PinLegRoute", "offered")
     /\ IF l \in DOMAIN doc.legs /\ Choosable(doc.legs[l])
        THEN Reads(c, "chosen", [for |-> jobs[c].seen.for, leg |-> doc.legs[l]]) ELSE Refuse(c)

\* The route must join the ends as they are read now.
validateChosenRoute(c) ==
  LET seen == jobs[c].seen
  IN /\ At(c, "PinLegRoute", "chosen")
     /\ IF LegEnds(doc, seen.leg.from, seen.leg.to) = <<seen.for.from, seen.for.to>>
        THEN Reads(c, "valid", seen) ELSE Refuse(c)

\* "The leg changed while the route was chosen", or the route is stored.
PinLegRoute(c) ==
  LET seen == jobs[c].seen
      l == jobs[c].req.id
  IN /\ At(c, "PinLegRoute", "valid")
     /\ IF l \in DOMAIN doc.legs /\ doc.legs[l].input = seen.leg.input
        THEN /\ doc' = SaveLegCalculation(doc, l, seen.leg.input, "provider", TRUE, seen.for)
             /\ UNCHANGED report
             /\ Goes(c, "done", seen)
        ELSE Refuse(c)

(********************************** tracks *******************************)

\* The file arrives after the activity was read.
handleImportItemTrack(c) ==
  LET req == jobs[c].req
      saved == SaveTrack(doc, req.id, req.first, req.last)
  IN /\ At(c, "ImportTrack", "read")
     /\ IF saved = Refused THEN Refuse(c)
        ELSE doc' = saved /\ UNCHANGED report /\ Goes(c, "saved", jobs[c].seen)

\* What the activity did not know when it was read it learns from the line.
fillFromTrack(c) ==
  LET req == jobs[c].req
      item == jobs[c].seen
      placed == IF item.point = None THEN [item EXCEPT !.point = req.first] ELSE item
      timed == IF doc.kind = "report" /\ item.time = None THEN [placed EXCEPT !.time = req.time] ELSE placed
  IN /\ At(c, "ImportTrack", "saved")
     /\ IF timed = item THEN Reads(c, "done", None) ELSE Answer(c, UpdatePlace(doc, req.id, timed))

handleDeleteItemTrack(c) == At(c, "DeleteTrack", "new") /\ Answer(c, DeleteTrack(doc, jobs[c].req.id))

(********************************** reports ******************************)

\* One statement after another, each of what is committed by then.
ReadOrder == <<"days", "items", "stays", "legs", "parts", "tracks">>

Table(name) ==
  IF name = "parts" THEN [l \in DOMAIN doc.legs |-> doc.legs[l].parts]
  ELSE IF name = "tracks" THEN [i \in {j \in DOMAIN doc.items : TrackOf(doc, j) # None} |-> TrackOf(doc, i)]
  ELSE doc[name]

readContent(c) ==
  LET seen == jobs[c].seen
      Unread(k) == ReadOrder[k] \notin DOMAIN seen
  IN /\ At(c, "CreateReport", "read")
     /\ \E k \in DOMAIN ReadOrder :
          /\ Unread(k) /\ \A j \in 1..(k - 1) : ~Unread(j)
          /\ Reads(c, "read", [name \in DOMAIN seen \cup {ReadOrder[k]} |->
                                 IF name = ReadOrder[k] THEN Table(name) ELSE seen[name]])

handleCreateReport(c) ==
  LET seen == jobs[c].seen
  IN /\ At(c, "CreateReport", "read") /\ Range(ReadOrder) \subseteq DOMAIN seen
     /\ report' = CreateReport(seen, seen.start, seen.end, doc)
     /\ UNCHANGED doc /\ Goes(c, "done", None)

(******************************* specification ***************************)

Idle == (\A c \in Clients : jobs[c].step \in {"done", "refused"}) /\ UNCHANGED vars

Step(c) ==
  \/ dayFor(c) \/ placeFor(c) \/ stayFor(c) \/ legFor(c) \/ tripFor(c)
  \/ handleCreateDay(c) \/ handleUpdateDay(c) \/ readDay(c) \/ handleDeleteDay(c) \/ handleDuplicateDay(c)
  \/ handleReorderDays(c) \/ handleUpdateTrip(c)
  \/ createPlace(c) \/ handleUpdatePlace(c) \/ handleDeletePlace(c) \/ handleMovePlace(c)
  \/ handleCopyPlace(c) \/ handleUpdateNight(c)
  \/ handleCreateStay(c) \/ handleUpdateStay(c) \/ handleDeleteStay(c)
  \/ handleUpdateLeg(c) \/ updateCompositeLeg(c) \/ legEndPoints(c) \/ handleSetLegSegments(c) \/ collapseLeg(c)
  \/ handleCalculateLegs(c) \/ handleRetryEstimatedLegs(c) \/ handleRecalculate(c)
  \/ RecalculateNamed(c) \/ calculateLegs(c) \/ CalculationEnds(c)
  \/ handleLegAlternatives(c) \/ handlePinLegRoute(c) \/ validateChosenRoute(c) \/ PinLegRoute(c)
  \/ handleImportItemTrack(c) \/ fillFromTrack(c) \/ handleDeleteItemTrack(c)
  \/ readContent(c) \/ handleCreateReport(c)

Next == (\E c \in Clients : Step(c)) \/ Idle

Spec == Init /\ [][Next]_vars

(********************************* properties ****************************)

Documents == IF report = None THEN {doc} ELSE {doc, report}

\* All elements of a document in the order they are travelled.
Journey(d) == FlattenSeq([k \in DOMAIN OrderedDays(d) |-> DayItems(d, OrderedDays(d)[k])])

\* Between any two elements travelled one after the other there is one leg, kept with the
\* day it leads into, and there are no others: only a day that opens at the stay the
\* evening before ended with needs none to be reached (domain.ReconcileLegs).
LegsJoinNeighbours ==
  \A d \in Documents :
    LET path == Journey(d)
        DayOf(i) == d.items[i].day
        Reached(k) == DayOf(path[k]) = DayOf(path[k + 1]) \/ d.items[path[k + 1]].slot # "morning"
        Joins(leg, k) == leg.from = path[k] /\ leg.to = path[k + 1] /\ leg.day = DayOf(path[k + 1])
        pairs == {k \in 1..(Len(path) - 1) : Reached(k)}
    IN /\ \A k \in pairs : Cardinality({l \in DOMAIN d.legs : Joins(d.legs[l], k)}) = 1
       /\ \A l \in DOMAIN d.legs : \E k \in pairs : Joins(d.legs[l], k)

\* A day ends at the stay of the night to come and starts at that of the night before,
\* unless it says otherwise, and has no other mark (domain.AnchorAssignments).
MarksMatchNights(d) ==
  \A x \in DOMAIN d.days : \A slot \in {"morning", "evening"} :
    LET day == d.days[x]
        night == IF slot = "morning" THEN day.date - 1 ELSE day.date
        wished == IF slot = "morning" THEN day.morning ELSE day.evening /\ ~day.noNight
        there == {s \in DOMAIN d.stays : d.stays[s].in <= night /\ d.stays[s].out > night}
        first == {s \in there : \A t \in there : d.stays[s].in <= d.stays[t].in}
        marks == {d.items[i].stay : i \in Marks(d, x, slot)}
    IN IF day.date = None \/ ~wished THEN marks = {}
       ELSE /\ marks \subseteq first /\ Cardinality(Marks(d, x, slot)) <= 1
            /\ there # {} => marks # {}

\* A trip has a day for every date of its period, in order, whoever added, removed and
\* reordered days meanwhile, and the marks of every day follow its dates
\* (storage/postgres resizeTrip, layoutDates, syncAnchors).
DaysFollowTheTrip ==
  /\ {doc.days[x].pos : x \in DOMAIN doc.days} = 0..(doc.end - doc.start)
  /\ Cardinality(DOMAIN doc.days) = doc.end - doc.start + 1
  /\ \A x \in DOMAIN doc.days : doc.days[x].date = doc.start + doc.days[x].pos
  /\ \A d \in Documents : MarksMatchNights(d)

\* The route was stored on a leg read with other ends than it was checked against: they
\* had become those of the route by the check and had changed back by the write.
StoredUnchecked(route) ==
  \E c \in Clients : At(c, "PinLegRoute", "done") /\
    LET read == jobs[c].seen.leg.input
    IN jobs[c].seen.for = route /\ <<read.from, read.to>> # <<route.from, route.to>>

\* What is stored of a leg or of a part was worked out for the ends and the mode it has
\* now; of a chosen route the ends are checked (SaveLegCalculation, SaveSegmentCalculation),
\* in vain where they change to those of the route and back while it is chosen.
StoredRoutesBelong ==
  \A d \in Documents : \A l \in DOMAIN d.legs :
    LET leg == d.legs[l]
        ends == LegEnds(d, leg.from, leg.to)
    IN IF Composite(leg)
       THEN \A k \in DOMAIN leg.parts : leg.parts[k].source # "pending" =>
              leg.parts[k].for = SegmentInput(leg.parts, k, ends)
       ELSE leg.source # "pending" =>
              IF leg.pinned THEN <<leg.for.from, leg.for.to>> = ends \/ StoredUnchecked(leg.for)
              ELSE leg.for = LegInput(leg.mode, ends[1], ends[2], leg.route)

\* The way through a document has no gap, and what is stored of each piece is of that
\* piece, but for a chosen route that was stored unchecked.
RoutesFitTheDay == LegsJoinNeighbours /\ StoredRoutesBelong

Finishes(c) == jobs[c].step # "done" /\ jobs'[c].step = "done"

\* A place of a plan goes only when somebody removes it; a place of a report also with a
\* day removed, or with a period shortened by somebody who was told of it (DeleteDay,
\* fitDocuments).
PlacesSurvive ==
  [][\A i \in DOMAIN doc.items : IsPlace(doc, i) /\ ~IsPlace(doc', i) =>
       \E c \in Clients : LET req == jobs[c].req IN
         /\ Finishes(c)
         /\ \/ req.op = "DeletePlace" /\ req.id = i
            \/ doc.kind = "report" /\ (req.op = "DeleteDay" \/ (req.op = "UpdateTrip" /\ req.confirm))]_vars

(********************************* assumptions ***************************)

IsDate(v) == v = None \/ v \in Int

\* Rows have the columns of their table, numbers where the column holds numbers.
IsDay(row) ==
  /\ DOMAIN row = {"pos", "date", "mode", "morning", "evening", "noNight", "text"}
  /\ row.pos \in Int /\ IsDate(row.date)

IsItem(row) ==
  /\ DOMAIN row = {"slot", "day", "pos", "stay", "point", "activity", "time", "text", "track"}
  /\ row.slot \in {"place", "morning", "evening"} /\ row.pos \in Int /\ IsDate(row.time)
  /\ row.slot = "place" => row.stay = None

IsStay(row) == DOMAIN row = {"in", "out", "point"} /\ row.in \in Int /\ row.out \in Int

IsTable(rows, next) == IsFiniteSet(DOMAIN rows) /\ \A id \in DOMAIN rows : id \in Nat /\ id < next

\* One stay mark for an end of a day (items_day_anchor_key).
OneMark(d) ==
  \A i, j \in DOMAIN d.items :
    d.items[i].slot # "place" /\ d.items[i].slot = d.items[j].slot /\ d.items[i].day = d.items[j].day => i = j

Tables(d) ==
  /\ DOMAIN d = {"kind", "start", "end", "next", "days", "items", "stays", "legs"}
  /\ d.kind \in {"plan", "report"} /\ d.start \in Int /\ d.end \in Int /\ d.next \in Nat
  /\ IsTable(d.days, d.next) /\ \A x \in DOMAIN d.days : IsDay(d.days[x])
  /\ IsTable(d.items, d.next) /\ \A i \in DOMAIN d.items : IsItem(d.items[i])
  /\ IsTable(d.stays, d.next) /\ \A s \in DOMAIN d.stays : IsStay(d.stays[s])
  /\ IsTable(d.legs, d.next)
  /\ OneMark(d)

\* The days of a trip fill its period, each at a position of its own.
DaysFill(d) ==
  /\ d.start <= d.end
  /\ Cardinality(DOMAIN d.days) = d.end - d.start + 1
  /\ \A x \in DOMAIN d.days : d.days[x].pos \in 0..(d.end - d.start) /\ d.days[x].date = d.start + d.days[x].pos

Distinct(d) == \A x, y \in DOMAIN d.days : d.days[x].pos = d.days[y].pos => x = y

\* What a handler lets through to a transaction.
IsRequest(req) ==
  /\ req.op = "UpdateTrip" => \A f \in DOMAIN req.change : req.change[f] \in Int
  /\ req.op = "CreatePlace" => IsItem(req.row) /\ req.row.slot = "place"
  /\ req.op = "UpdatePlace" =>
       /\ {"slot", "pos", "stay"} \cap DOMAIN req.change = {}
       /\ "time" \in DOMAIN req.change => IsDate(req.change.time)
  /\ req.op = "ImportTrack" => IsDate(req.time)
  /\ req.op = "CreateStay" => IsStay(req.row)
  /\ req.op = "UpdateStay" => \A f \in {"in", "out"} \cap DOMAIN req.change : req.change[f] \in Int
  /\ req.op = "ReorderDays" => Len(req.order) \in Nat /\ DOMAIN req.order = 1..Len(req.order)
  /\ req.op = "SetLegSegments" => Len(req.parts) \in Nat /\ DOMAIN req.parts = 1..Len(req.parts)

ASSUME ItineraryAssumption ==
  /\ None \notin Int
  /\ \A scenario \in Scenarios :
       /\ Tables(scenario.doc) /\ DaysFill(scenario.doc) /\ Distinct(scenario.doc)
       /\ MarksMatchNights(scenario.doc)
       /\ \A c \in DOMAIN scenario.reqs : IsRequest(scenario.reqs[c])
===============================================================================
