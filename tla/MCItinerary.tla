------------------------------ MODULE MCItinerary ------------------------------
(* Every two of these requests at once, on four documents: a plan with a      *)
(* stay, the same with its journeys under way, a report and a short plan      *)
(* without stays; and a few requests three at a time.                         *)
EXTENDS Itinerary

DayAt(d, pos) == CHOOSE x \in DOMAIN d.days : d.days[x].pos = pos
PlaceAt(d, point) == CHOOSE i \in DOMAIN d.items : d.items[i].slot = "place" /\ d.items[i].point = point
LegTo(d, i) == CHOOSE l \in DOMAIN d.legs : d.legs[l].to = i
Nightly(d) == {i \in DOMAIN d.items : d.items[i].slot = "evening"}

Stay(in, out) == [in |-> in, out |-> out, point |-> 9]

\* Days and stays as a new trip has them, then the places, then marks and legs.
Document(bare, stays, places) ==
  syncTrip(Insert(Insert(bare, "stays", stays), "items", places))

\* Points 1 to 3 on the first days, nothing on the last; days are numbered from 1.
Visits == <<NewPlace(1, 0, 1, TRUE, None), NewPlace(1, 1, 2, FALSE, None), NewPlace(3, 0, 3, TRUE, None)>>

\* Point 4 on no day.
Plan ==
  Document(insertDocument("plan", 1, 4), <<Stay(1, 2)>>, Visits \o <<NewPlace(None, 0, 4, FALSE, None)>>)

\* With a recording, a leg of two parts, an estimate and a chosen route.
Tracked(places) == [places EXCEPT ![3].track = [id |-> 0, first |-> 3, last |-> 5]]

Changing(d) ==
  LET part == [mode |-> "car", stop |-> 7, id |-> d.next, input |-> None, source |-> "pending", for |-> None]
      l == LegTo(d, PlaceAt(d, 2))
  IN syncLegs([d EXCEPT !.legs[l].parts = <<part, [part EXCEPT !.mode = "flight", !.stop = None, !.id = @ + 1]>>,
                        !.next = @ + 2])

Calculated(d, l, source, pinned) == SaveLegCalculation(d, l, d.legs[l].input, source, pinned, d.legs[l].input)

Guessed(d) == Calculated(d, LegTo(d, PlaceAt(d, 3)), "estimate", FALSE)

Chosen(d) == Calculated(d, CHOOSE l \in DOMAIN d.legs : d.legs[l].from = PlaceAt(d, 2), "provider", TRUE)

Travelled ==
  Chosen(Guessed(Changing(Document(insertDocument("plan", 1, 4), <<Stay(1, 2)>>, Tracked(Visits)))))

\* Point 2 has a time.
Told ==
  Document(insertDocument("report", 1, 4), <<Stay(1, 2)>>, [Visits EXCEPT ![2].time = 5])

Short ==
  Document(insertDocument("plan", 1, 3), <<>>,
           <<NewPlace(1, 0, 1, TRUE, None), NewPlace(3, 0, 2, FALSE, None)>>)

DayRequestsOf(d) ==
  {[op |-> "AddDay", mode |-> None, pos |-> 1], [op |-> "ReorderDays", order |-> <<DayAt(d, 2), DayAt(d, 0), DayAt(d, 1)>>
      \o (IF Cardinality(DOMAIN d.days) > 3 THEN <<DayAt(d, 3)>> ELSE <<>>)],
   [op |-> "UpdateDay", id |-> DayAt(d, 0), change |-> [noNight |-> TRUE, mode |-> "walk"]],
   [op |-> "DuplicateDay", id |-> DayAt(d, 0)],
   [op |-> "UpdateTrip", change |-> <<>>, confirm |-> FALSE],
   [op |-> "UpdateTrip", change |-> [start |-> 2, end |-> 3], confirm |-> TRUE],
   [op |-> "UpdateTrip", change |-> [start |-> 3], confirm |-> TRUE]}
  \cup {[op |-> "DeleteDay", id |-> DayAt(d, pos), confirm |-> pos = 2] : pos \in {0, 2}}
  \cup {[op |-> "UpdateTrip", change |-> [end |-> 2], confirm |-> confirm] : confirm \in BOOLEAN}

PlaceRequestsOf(d) ==
  {[op |-> "CreatePlace", row |-> NewPlace(DayAt(d, 0), 0, 6, FALSE, 3), pos |-> 0],
   [op |-> "UpdatePlace", id |-> PlaceAt(d, 1), change |-> [activity |-> FALSE, point |-> 8]],
   [op |-> "UpdatePlace", id |-> PlaceAt(d, 1), change |-> [time |-> 9]],
   [op |-> "DeletePlace", id |-> PlaceAt(d, 2)],
   [op |-> "MovePlace", id |-> PlaceAt(d, 1), day |-> DayAt(d, 2), pos |-> 0],
   [op |-> "MovePlace", id |-> PlaceAt(d, 2), day |-> None, pos |-> -1],
   [op |-> "CopyPlace", id |-> PlaceAt(d, 1), day |-> DayAt(d, 1), pos |-> None],
   [op |-> "ImportTrack", id |-> PlaceAt(d, 1), first |-> 10, last |-> 11, time |-> 7],
   [op |-> "DeleteTrack", id |-> PlaceAt(d, 1)]}

StayRequestsOf(d) ==
  {[op |-> "CreateStay", row |-> Stay(2, 4)]}
  \cup UNION {{[op |-> "UpdateStay", id |-> s, change |-> [out |-> 4]], [op |-> "DeleteStay", id |-> s]} : s \in DOMAIN d.stays}
  \cup {[op |-> "UpdateNight", id |-> i] : i \in Nightly(d)}

LegRequestsOf(d) ==
  LET part == [mode |-> "car", stop |-> 7]
      l == LegTo(d, PlaceAt(d, 2))
  IN {[op |-> "UpdateLeg", id |-> l, change |-> [mode |-> "flight"]],
      [op |-> "UpdateLeg", id |-> l, change |-> [route |-> "via"]],
      [op |-> "UpdateLeg", id |-> l, change |-> [cost |-> None]],
      [op |-> "SetLegSegments", id |-> l, parts |-> <<part, [mode |-> "walk", stop |-> None]>>],
      [op |-> "SetLegSegments", id |-> l, parts |-> <<[part EXCEPT !.mode = "walk"]>>],
      [op |-> "CalculateLegs"], [op |-> "RetryEstimatedLegs"],
      [op |-> "RecalculateLeg", id |-> l], [op |-> "RecalculateDay", id |-> DayAt(d, 2)],
      [op |-> "PinLegRoute", id |-> l]}

Editing(d) == DayRequestsOf(d) \cup PlaceRequestsOf(d) \cup StayRequestsOf(d)
Copying == [op |-> "CreateReport"]

Together(d, few, many) ==
  {[doc |-> d, reqs |-> ("a" :> x) @@ ("b" :> y)] : x \in few, y \in many}

MCClients == {"a", "b", "c", "d"}

\* A calculation with a chosen route or an edit of its leg while a place comes and goes.
Threesome(d) ==
  LET l == LegTo(d, PlaceAt(d, 2)) night == CHOOSE k \in DOMAIN d.legs : d.legs[k].from = PlaceAt(d, 2)
  IN {[doc |-> d, reqs |-> ("a" :> x) @@ ("b" :> y) @@ ("c" :> z)] :
        x \in {[op |-> "CalculateLegs"], [op |-> "RecalculateLeg", id |-> l], [op |-> "RecalculateLeg", id |-> night]},
        y \in {[op |-> "PinLegRoute", id |-> night], [op |-> "UpdateLeg", id |-> night, change |-> [mode |-> "walk"]],
               [op |-> "SetLegSegments", id |-> l, parts |-> <<[mode |-> "walk", stop |-> 7], [mode |-> "car", stop |-> None]>>]},
        z \in PlaceRequestsOf(d) \cup {[op |-> "DeleteDay", id |-> DayAt(d, 2), confirm |-> TRUE]}}

\* A place moves away, comes back and moves away again while a route to it is chosen.
ThereAndBack(d) ==
  LET i == PlaceAt(d, 2) Moved(point) == [op |-> "UpdatePlace", id |-> i, change |-> [point |-> point]]
  IN {[doc |-> d, reqs |-> ("a" :> [op |-> "PinLegRoute", id |-> LegTo(d, i)]) @@ ("b" :> Moved(8))
                             @@ ("c" :> Moved(2)) @@ ("d" :> Moved(8))]}

MCScenarios ==
  ThereAndBack(Plan) \cup
  UNION {Together(d, Editing(d), Editing(d)) : d \in {Plan, Told}}
  \cup UNION {Together(d, LegRequestsOf(d) \cup {Copying}, Editing(d) \cup LegRequestsOf(d)) \cup Threesome(d) :
                d \in {Travelled}}
  \cup UNION {Together(d, DayRequestsOf(d) \cup LegRequestsOf(d), DayRequestsOf(d) \cup PlaceRequestsOf(d)) : d \in {Short}}
===============================================================================
