----------------------------- MODULE TripDocument -----------------------------
(* The transactions of storage/postgres/documents.go, legsegments.go,         *)
(* tracks.go, report.go and the part of trips.go that reshapes a document.    *)
(* Each is an operator from the document as the transaction finds it under    *)
(* the lock of the trip to the document it leaves, or Refused when it gives   *)
(* up.  What its caller read earlier - a row, a position - is an argument:    *)
(* the transaction writes from it, whatever has happened since.               *)
EXTENDS TripLayout

CONSTANT Refused

Then(d, Op(_)) == IF d = Refused THEN Refused ELSE Op(d)

(****************************** days and dates ***************************)

countDays(d) == Cardinality(DOMAIN d.days)

DayCount(start, end) == IF None \in {start, end} THEN None ELSE end - start + 1

appendDays(d, from, to) == Insert(d, "days", [k \in 1..(to - from) |-> NewDay(from + k - 1)])

layoutDates(d) ==
  [d EXCEPT !.days = [x \in DOMAIN d.days |->
     [d.days[x] EXCEPT !.date = IF d.start = None THEN None ELSE d.start + d.days[x].pos]]]

insertDocument(kind, start, end) ==
  LET empty == [kind |-> kind, start |-> start, end |-> end, next |-> 1,
                days |-> <<>>, items |-> <<>>, stays |-> <<>>, legs |-> <<>>]
  IN layoutDates(appendDays(empty, 0, IF DayCount(start, end) = None THEN 1 ELSE DayCount(start, end)))

\* The places of seq take the positions Seat gives them, in a list of that day.
Seated(d, seq, day, Seat(_)) ==
  [d EXCEPT !.items = [i \in DOMAIN d.items |->
     IF i \in Range(seq)
     THEN [d.items[i] EXCEPT !.pos = Seat(CHOOSE k \in DOMAIN seq : seq[k] = i), !.day = day]
     ELSE d.items[i]]]

renumberPlaces(d, day) == Seated(d, ByPosition(d, Places(d, day)), day, LAMBDA k : k - 1)

\* Mutant: the places of a removed day go with it.
DropTailAndPlaces(d, from) == DropDays(d, {x \in DOMAIN d.days : d.days[x].pos >= from})

\* By the day, then by the place in it.
ByDay(d, S) ==
  LET Day(i) == d.days[d.items[i].day].pos
  IN Ranked(S, LAMBDA x, y : \/ Day(x) < Day(y)
                             \/ /\ Day(x) = Day(y)
                                /\ d.items[x].pos < d.items[y].pos \/ (d.items[x].pos = d.items[y].pos /\ x < y))

\* A plan hands the places of the days it loses to its unassigned list.
dropTailDays(d, from) ==
  LET tail == {x \in DOMAIN d.days : d.days[x].pos >= from}
      unassigned == ByPosition(d, Places(d, None)) \o ByDay(d, UNION {Places(d, x) : x \in tail})
  IN DropDays(IF d.kind = "plan" THEN Seated(d, unassigned, None, LAMBDA k : k - 1) ELSE d, tail)

\* A day worth asking about: words, a place, or the story of its night.
HoldsContent(d, x) ==
  d.days[x].text \/ \E i \in DOMAIN d.items :
    d.items[i].day = x /\ (d.items[i].slot = "place" \/ d.items[i].text)

fitDocuments(d, length, confirm) ==
  LET removed == {x \in DOMAIN d.days : d.days[x].pos >= length /\ HoldsContent(d, x)}
  IN IF removed # {} /\ ~confirm THEN Refused
     ELSE IF countDays(d) < length THEN appendDays(d, countDays(d), length)
     ELSE IF countDays(d) > length THEN dropTailDays(d, length)
     ELSE d

\* Mutant: the end of the trip stays where it was.
ResizeWithoutEnd(d, length, confirm) ==
  IF d.start = None THEN d
  ELSE IF length > MaxTripDays THEN Refused
  ELSE fitDocuments(d, length, confirm)

\* A trip with dates is as long as its days.
resizeTrip(d, length, confirm) ==
  IF d.start = None THEN d
  ELSE IF length > MaxTripDays THEN Refused
  ELSE fitDocuments([d EXCEPT !.end = d.start + length - 1], length, confirm)

(************************* marks and legs after a change *****************)

KeyOf(d, i) == <<d.items[i].day, d.items[i].slot>>

KeyBefore(x, y) == x[1] < y[1] \/ (x[1] = y[1] /\ x[2] = "morning" /\ y[2] = "evening")

syncAnchors(d) ==
  LET wanted == AnchorAssignments(d)
      marks == {i \in DOMAIN d.items : d.items[i].slot # "place"}
      kept == DropItems(d, {i \in marks : KeyOf(d, i) \notin DOMAIN wanted})
      moved == [kept EXCEPT !.items = [i \in DOMAIN kept.items |->
                  IF i \in marks THEN [kept.items[i] EXCEPT !.stay = wanted[KeyOf(d, i)]] ELSE kept.items[i]]]
      missing == Ranked(DOMAIN wanted \ {KeyOf(d, i) : i \in marks}, KeyBefore)
  IN Insert(moved, "items",
            [k \in DOMAIN missing |-> NewMark(missing[k][1], missing[k][2], wanted[missing[k]])])

syncLegs(d) == ReconcileLegs(d)

syncTrip(d) == syncLegs(syncAnchors(d))

shiftStays(d, days) ==
  [d EXCEPT !.stays = [s \in DOMAIN d.stays |->
     [d.stays[s] EXCEPT !.in = d.stays[s].in + days, !.out = d.stays[s].out + days]]]

\* The stays move with the start; days, dates and marks follow the new period.
reshapeTrip(d, oldStart, confirm) ==
  LET shifted == shiftStays(d, IF None \in {oldStart, d.start} THEN 0 ELSE d.start - oldStart)
      length == DayCount(d.start, d.end)
      fitted == IF length = None THEN shifted ELSE fitDocuments(shifted, length, confirm)
  IN Then(fitted, LAMBDA e : syncTrip(layoutDates(e)))

\* The period as the handler read it and the request changed it.
UpdateTrip(d, start, end, confirm) ==
  IF d.start = start /\ d.end = end THEN d
  ELSE reshapeTrip([d EXCEPT !.start = start, !.end = end], d.start, confirm)

(************************************ days *******************************)

insertDayAt(d, row, pos) ==
  LET count == countDays(d)
      slot == IF pos # None /\ pos \in 0..(count - 1) THEN pos ELSE count
      opened == [d EXCEPT !.days = [x \in DOMAIN d.days |->
                   IF d.days[x].pos >= slot THEN [d.days[x] EXCEPT !.pos = @ + 1] ELSE d.days[x]]]
  IN Insert(opened, "days", <<[row EXCEPT !.pos = slot, !.date = None]>>)

AddDay(d, mode, pos) ==
  LET added == insertDayAt(d, [NewDay(0) EXCEPT !.mode = mode], pos)
  IN Then(resizeTrip(added, countDays(d) + 1, TRUE), LAMBDA e : syncTrip(layoutDates(e)))

\* source is the day as read before the lock, its places as they are under it.
DuplicateDay(d, x, source) ==
  LET added == insertDayAt(d, source, source.pos + 1)
      places == ByPosition(d, Places(d, x))
      Copy(i) == [d.items[i] EXCEPT !.day = d.next, !.time = None, !.text = FALSE, !.track = None]
      copied == Insert(added, "items", [k \in DOMAIN places |-> Copy(places[k])])
  IN Then(resizeTrip(copied, countDays(d) + 1, TRUE), LAMBDA e : syncTrip(layoutDates(e)))

\* Every editable field as read and changed; not the position, not the date.
UpdateDay(d, x, row) ==
  IF x \notin DOMAIN d.days THEN Refused
  ELSE syncTrip([d EXCEPT !.days[x] = [row EXCEPT !.pos = d.days[x].pos, !.date = d.days[x].date]])

\* pos is where the day was when it was read, before the lock.
DeleteDay(d, x, pos, confirm) ==
  LET count == countDays(d)
      moved == [d EXCEPT !.days = [y \in DOMAIN d.days |->
                  IF y = x THEN [d.days[y] EXCEPT !.pos = count - 1]
                  ELSE IF d.days[y].pos > pos THEN [d.days[y] EXCEPT !.pos = @ - 1] ELSE d.days[y]]]
  IN IF count <= 1 THEN Refused
     ELSE Then(resizeTrip(dropTailDays(moved, count - 1), count - 1, confirm),
               LAMBDA e : syncTrip(layoutDates(e)))

ReorderDays(d, order) ==
  IF ~(Range(order) = DOMAIN d.days /\ Len(order) = countDays(d)) THEN Refused
  ELSE syncTrip(layoutDates([d EXCEPT !.days = [x \in DOMAIN d.days |->
         [d.days[x] EXCEPT !.pos = (CHOOSE k \in DOMAIN order : order[k] = x) - 1]]]))

(*********************************** places ******************************)

\* Only a plan has an unassigned list.
checkPlaceTarget(d, day) == IF day = None THEN d.kind = "plan" ELSE day \in DOMAIN d.days

Slot(d, day, pos, except) ==
  LET count == Cardinality(Places(d, day) \ {except})
  IN IF pos # None /\ pos \in 0..(count - 1) THEN pos ELSE count

openSlot(d, day, pos, except) ==
  LET slot == Slot(d, day, pos, except)
  IN Seated(d, ByPosition(d, Places(d, day) \ {except}), day, LAMBDA k : IF k - 1 < slot THEN k - 1 ELSE k)

insertPlace(d, row, day, pos) ==
  Insert(openSlot(d, day, pos, None), "items",
         <<[row EXCEPT !.day = day, !.pos = Slot(d, day, pos, None), !.track = None]>>)

\* Only a report is ordered by time, and only what changes place is written.
orderByTime(d, day) ==
  LET places == ByPosition(d, Places(d, day))
      order == OrderByActualTime(d, places)
      Seat(i) == CHOOSE k \in DOMAIN order : order[k] = i
  IN IF d.kind = "plan" \/ day = None THEN d
     ELSE [d EXCEPT !.items = [i \in DOMAIN d.items |->
            IF i \in Range(places) /\ places[Seat(i)] # i
            THEN [d.items[i] EXCEPT !.pos = Seat(i) - 1] ELSE d.items[i]]]

CreatePlace(d, row, day, pos) ==
  IF ~checkPlaceTarget(d, day) THEN Refused
  ELSE syncTrip(orderByTime(insertPlace(d, row, day, pos), day))

IsPlace(d, i) == i \in DOMAIN d.items /\ d.items[i].slot = "place"

\* Every field as read and changed, but the day, the position and the recording,
\* which only an activity keeps.
UpdatePlace(d, i, row) ==
  IF ~IsPlace(d, i) THEN Refused
  ELSE LET track == IF row.activity THEN d.items[i].track ELSE None
           written == [d EXCEPT !.items[i] =
                         [row EXCEPT !.day = d.items[i].day, !.pos = d.items[i].pos, !.track = track]]
       IN syncTrip(orderByTime(written, row.day))

\* day is the list the place was in when it was read.
DeletePlace(d, i, day) ==
  IF ~IsPlace(d, i) THEN Refused ELSE syncTrip(renumberPlaces(DropItems(d, {i}), day))

MovePlace(d, i, day, pos) ==
  IF ~IsPlace(d, i) \/ ~checkPlaceTarget(d, day) THEN Refused
  ELSE LET opened == openSlot(d, day, pos, i)
           moved == [opened EXCEPT !.items[i] = [@ EXCEPT !.day = day, !.pos = Slot(d, day, pos, i)]]
       IN syncTrip(renumberPlaces(renumberPlaces(moved, d.items[i].day), day))

WithoutVisit(row) == [row EXCEPT !.time = None, !.text = FALSE]

\* source is the place as the handler read it.
CopyPlace(d, source, day, pos) ==
  IF ~checkPlaceTarget(d, day) THEN Refused
  ELSE syncTrip(insertPlace(d, IF d.kind = "report" THEN WithoutVisit(source) ELSE source, day, pos))

\* The story of a night is kept on its evening mark.
SetNightStory(d, i) ==
  IF i \in DOMAIN d.items /\ d.items[i].slot = "evening" THEN [d EXCEPT !.items[i].text = TRUE] ELSE Refused

(*********************************** stays *******************************)

CreateStay(d, row) == syncTrip(Insert(d, "stays", <<row>>))

UpdateStay(d, s, row) ==
  IF s \notin DOMAIN d.stays THEN Refused ELSE syncTrip([d EXCEPT !.stays[s] = row])

DeleteStay(d, s) ==
  LET bare == DropItems(d, {i \in DOMAIN d.items : d.items[i].stay = s})
  IN IF s \notin DOMAIN d.stays THEN Refused
     ELSE syncTrip([bare EXCEPT !.stays = Restrict(@, DOMAIN @ \ {s})])

(************************************ legs *******************************)

UpdateLeg(d, l, mode, route) ==
  IF l \notin DOMAIN d.legs THEN Refused
  ELSE syncTrip([d EXCEPT !.legs[l] = [@ EXCEPT !.mode = mode, !.route = route]])

\* The parts of a leg with changes; with one or none it is a plain leg again.
SaveLegParts(d, l, parts, mode) ==
  IF l \notin DOMAIN d.legs THEN Refused
  ELSE IF Len(parts) > 1
  THEN syncTrip([d EXCEPT !.legs[l] = [@ EXCEPT !.parts = parts, !.mode = parts[1].mode]])
  ELSE syncTrip([d EXCEPT !.legs[l] = [@ EXCEPT !.parts = <<>>, !.mode = mode, !.route = "fastest"]])

\* Mutant: the answer is stored whatever the leg has become.
SaveWhateverTheInput(d, l, input, source, pinned, for) ==
  IF l \notin DOMAIN d.legs THEN d
  ELSE [d EXCEPT !.legs[l].source = source, !.legs[l].for = for, !.legs[l].pinned = pinned]

\* Only while the leg is still the one that was calculated.
SaveLegCalculation(d, l, input, source, pinned, for) ==
  IF l \notin DOMAIN d.legs \/ d.legs[l].input # input THEN d
  ELSE [d EXCEPT !.legs[l].source = source, !.legs[l].for = for, !.legs[l].pinned = pinned]

SaveSegmentCalculation(d, part, input, source, for) ==
  LET Calculated(p) == IF p.id = part /\ p.input = input
                       THEN [p EXCEPT !.source = source, !.for = for] ELSE p
  IN [d EXCEPT !.legs = [l \in DOMAIN d.legs |->
        [d.legs[l] EXCEPT !.parts = [k \in DOMAIN d.legs[l].parts |-> Calculated(d.legs[l].parts[k])]]]]

(********************************** tracks *******************************)

\* A second recording takes the place of the first and keeps its identifier.
SaveTrack(d, i, first, last) ==
  IF ~IsPlace(d, i) THEN Refused
  ELSE LET id == IF d.items[i].track = None THEN d.next ELSE d.items[i].track.id
       IN syncLegs([d EXCEPT !.items[i].track = [id |-> id, first |-> first, last |-> last],
                             !.next = @ + 1])

DeleteTrack(d, i) ==
  IF TrackOf(d, i) = None THEN Refused ELSE syncLegs([d EXCEPT !.items[i].track = None])

(********************************** reports ******************************)

\* read is a plan as it was read, table after table; live is the plan as it is
\* when the recordings are copied.
ById(S) == Ranked(S, LAMBDA x, y : x < y)

InOrder(table, S) == LET ids == ById(S) IN [k \in DOMAIN ids |-> table[ids[k]]]

Index(seq, x) == CHOOSE k \in DOMAIN seq : seq[k] = x

copyDays(d, read) == Insert(d, "days", InOrder(read.days, DOMAIN read.days))

copyStays(d, read) == Insert(d, "stays", InOrder(read.stays, DOMAIN read.stays))

\* The days of a report are the first rows it has.
DayCopy(read, x) == Index(ById(DOMAIN read.days), x)

CopiedPlaces(read) ==
  ById({i \in DOMAIN read.items : read.items[i].slot = "place" /\ read.items[i].day \in DOMAIN read.days})

copyPlaces(d, read, live) ==
  LET places == CopiedPlaces(read)
      Track(i) == IF i \in DOMAIN read.tracks /\ TrackOf(live, i) # None /\ TrackOf(live, i).id = read.tracks[i].id
                  THEN TrackOf(live, i) ELSE None
      Place(i) == [WithoutVisit(read.items[i]) EXCEPT !.day = DayCopy(read, @), !.track = Track(i)]
  IN Insert(d, "items", [k \in DOMAIN places |-> Place(places[k])])

\* The copy of an element, if it has one; the first place has the identifier first,
\* a mark is the one the copy has at that end of the day.
anchorMap(d, read, first, i) ==
  LET places == CopiedPlaces(read)
  IN IF i \notin DOMAIN read.items THEN {}
     ELSE IF read.items[i].slot = "place" THEN {first + k - 1 : k \in {j \in DOMAIN places : places[j] = i}}
     ELSE IF read.items[i].day \notin DOMAIN read.days THEN {}
     ELSE Marks(d, DayCopy(read, read.items[i].day), read.items[i].slot)

copyLegs(d, read, first) ==
  LET Copies(i) == anchorMap(d, read, first, i)
      Copy(i) == CHOOSE c \in Copies(i) : TRUE
      Parts(l) == IF l \in DOMAIN read.parts THEN read.parts[l] ELSE <<>>
      legs == ById({l \in DOMAIN read.legs : /\ read.legs[l].day \in DOMAIN read.days
                                             /\ Copies(read.legs[l].from) # {} /\ Copies(read.legs[l].to) # {}})
      Leg(l) == [Fold([read.legs[l] EXCEPT !.parts = Parts(l)]) EXCEPT
                   !.day = DayCopy(read, @), !.from = Copy(@), !.to = Copy(@)]
  IN Insert(d, "legs", [k \in DOMAIN legs |-> Leg(legs[k])])

CreateReport(read, start, end, live) ==
  LET empty == [kind |-> "report", start |-> start, end |-> end, next |-> 1,
                days |-> <<>>, items |-> <<>>, stays |-> <<>>, legs |-> <<>>]
      dated == copyStays(copyDays(empty, read), read)
      marked == syncAnchors(copyPlaces(dated, read, live))
  IN syncLegs(copyLegs(marked, read, dated.next))
===============================================================================
