------------------------------ MODULE TripLayout ------------------------------
(* The document of a trip - its days, places, stays and legs - and what is    *)
(* derived of it: the stay marks of domain/plan.go, the legs of domain/leg.go *)
(* and domain/legsegment.go, and the order of a report's day.  Everything is  *)
(* a function of the rows, so that TripDocument's transactions can call it.   *)
(*                                                                            *)
(* A table is a function from the identifiers in use to rows; one counter     *)
(* hands identifiers out, in the order the rows were created.  Points are     *)
(* numbers, a route is how a leg asks to be routed: the fastest way, another  *)
(* preference, or through points of its own.  Every trip has a first and a    *)
(* last date (the columns are NOT NULL, Trip.Normalize); what the code does   *)
(* for one without is kept as it is written.                                  *)
EXTENDS Integers, FiniteSets, SequencesExt, TLC

CONSTANTS
  None,
  MaxTripDays     \* how long a trip lasts at most

(********************************* the rows ******************************)

NewDay(pos) ==
  [pos |-> pos, date |-> None, mode |-> None, morning |-> TRUE, evening |-> TRUE,
   noNight |-> FALSE, text |-> FALSE]

\* A place or an activity; time is when it was really reached, text its story.
NewPlace(day, pos, point, activity, time) ==
  [slot |-> "place", day |-> day, pos |-> pos, stay |-> None, point |-> point,
   activity |-> activity, time |-> time, text |-> FALSE, track |-> None]

NewMark(day, slot, stay) ==
  [slot |-> slot, day |-> day, pos |-> 0, stay |-> stay, point |-> None,
   activity |-> FALSE, time |-> None, text |-> FALSE, track |-> None]

\* "for" remembers what the stored values were calculated for.
NewLeg(day, from, to, mode, input) ==
  [day |-> day, from |-> from, to |-> to, mode |-> mode, route |-> "fastest", input |-> input,
   source |-> "pending", pinned |-> FALSE, for |-> None, parts |-> <<>>]

\* The elements of a finite set in the order of a strict total order.
Ranked(S, Before(_, _)) ==
  [k \in 1..Cardinality(S) |->
     CHOOSE x \in S : Cardinality({y \in S : Before(y, x)}) = k - 1]

\* Rows added to a table under the next identifiers.
WithRows(table, next, rows) ==
  LET new == next..(next + Len(rows) - 1)
  IN [id \in DOMAIN table \cup new |-> IF id \in new THEN rows[id - next + 1] ELSE table[id]]

Insert(d, table, rows) ==
  [f \in DOMAIN d |-> IF f = table THEN WithRows(d[f], d.next, rows)
                      ELSE IF f = "next" THEN d.next + Len(rows) ELSE d[f]]

\* ON DELETE CASCADE from days to items and legs, and from items to legs.
DropItems(d, gone) ==
  [d EXCEPT !.items = Restrict(@, DOMAIN @ \ gone),
            !.legs = RestrictValues(@, LAMBDA leg : {leg.from, leg.to} \cap gone = {})]

DropDays(d, gone) ==
  LET bare == DropItems(d, {i \in DOMAIN d.items : d.items[i].day \in gone})
  IN [bare EXCEPT !.days = Restrict(@, DOMAIN @ \ gone),
                  !.legs = RestrictValues(@, LAMBDA leg : leg.day \notin gone)]

(******************************* days and places *************************)

OrderedDays(d) ==
  Ranked(DOMAIN d.days, LAMBDA x, y : d.days[x].pos < d.days[y].pos
                                        \/ (d.days[x].pos = d.days[y].pos /\ x < y))

Places(d, day) == {i \in DOMAIN d.items : d.items[i].slot = "place" /\ d.items[i].day = day}

\* ORDER BY position, created_at, id.
ByPosition(d, S) ==
  Ranked(S, LAMBDA x, y : d.items[x].pos < d.items[y].pos
                            \/ (d.items[x].pos = d.items[y].pos /\ x < y))

Marks(d, day, slot) == {i \in DOMAIN d.items : d.items[i].slot = slot /\ d.items[i].day = day}

\* The morning mark, the places, the evening mark.
DayItems(d, day) ==
  SetToSeq(Marks(d, day, "morning")) \o ByPosition(d, Places(d, day))
    \o SetToSeq(Marks(d, day, "evening"))

\* The places with a time share the positions they held, by time; the others stay.
OrderByActualTime(d, places) ==
  LET timed == {i \in Range(places) : d.items[i].time # None}
      Rank(i) == CHOOSE k \in DOMAIN places : places[k] = i
      sorted == Ranked(timed, LAMBDA x, y : d.items[x].time < d.items[y].time
                         \/ (d.items[x].time = d.items[y].time /\ Rank(x) < Rank(y)))
      Seat(k) == Cardinality({j \in 1..k : d.items[places[j]].time # None})
  IN [k \in DOMAIN places |-> IF d.items[places[k]].time = None THEN places[k] ELSE sorted[Seat(k)]]

(******************************** stay marks *****************************)

Covers(stay, night) == stay.in <= night /\ night < stay.out

StaysForNight(d, night) == {s \in DOMAIN d.stays : Covers(d.stays[s], night)}

\* Of overlapping stays the one checked into first, then the one of the lesser identifier.
stayForNight(d, night) ==
  CHOOSE s \in StaysForNight(d, night) : \A t \in StaysForNight(d, night) :
    d.stays[s].in < d.stays[t].in \/ (d.stays[s].in = d.stays[t].in /\ s <= t)

\* The stay of every mark there should be: the night before and the night to come.
AnchorAssignments(d) ==
  LET Night(day, slot) == IF slot = "morning" THEN d.days[day].date - 1 ELSE d.days[day].date
      Wanted(day, slot) ==
        /\ d.days[day].date # None
        /\ IF slot = "morning" THEN d.days[day].morning
           ELSE d.days[day].evening /\ ~d.days[day].noNight
        /\ StaysForNight(d, Night(day, slot)) # {}
      keys == {key \in (DOMAIN d.days) \X {"morning", "evening"} : Wanted(key[1], key[2])}
  IN [key \in keys |-> stayForNight(d, Night(key[1], key[2]))]

(*********************************** legs ********************************)

Routed(mode) == mode # "flight"

\* What a calculation depends on; only a road is routed in a way of one's own.
LegInput(mode, from, to, route) ==
  [mode |-> mode, from |-> from, to |-> to, route |-> IF Routed(mode) THEN route ELSE "fastest"]

ItemPoint(d, i) ==
  IF i \notin DOMAIN d.items THEN None
  ELSE IF d.items[i].slot = "place" THEN d.items[i].point
  ELSE d.stays[d.items[i].stay].point

TrackOf(d, i) == IF i \in DOMAIN d.items THEN d.items[i].track ELSE None

\* An element with a recording is reached where it began and left where it ended.
LegEnds(d, from, to) ==
  <<IF TrackOf(d, from) = None THEN ItemPoint(d, from) ELSE TrackOf(d, from).last,
    IF TrackOf(d, to) = None THEN ItemPoint(d, to) ELSE TrackOf(d, to).first>>

Composite(leg) == Len(leg.parts) > 1

\* Where part k starts and ends: at the leg's own ends and at the changes between.
SegmentEnds(parts, k, ends) ==
  <<IF k = 1 THEN ends[1] ELSE parts[k - 1].stop,
    IF k = Len(parts) THEN ends[2] ELSE parts[k].stop>>

SegmentInput(parts, k, ends) ==
  LET partEnds == SegmentEnds(parts, k, ends)
  IN LegInput(parts[k].mode, partEnds[1], partEnds[2], "fastest")

\* What every reader of a leg with changes sees in place of its own fields.
Fold(leg) ==
  IF Composite(leg) THEN [leg EXCEPT !.mode = leg.parts[1].mode, !.route = "fastest", !.pinned = FALSE]
  ELSE leg

\* The input a leg should have, given where its elements are.
WantedInput(d, leg) ==
  LET ends == LegEnds(d, leg.from, leg.to) IN LegInput(leg.mode, ends[1], ends[2], leg.route)

NearestBusy(busy, k) == CHOOSE j \in busy : j < k /\ \A i \in busy : i < k => i <= j

\* The pairs that need a leg: neighbours of a day and, unless it opens with a stay
\* mark, the last element of the nearest earlier day that has any with its first.
Neighbours(d) ==
  LET days == OrderedDays(d)
      items == [k \in DOMAIN days |-> DayItems(d, days[k])]
      busy == {k \in DOMAIN days : items[k] # <<>>}
      within == UNION {{[day |-> days[k], from |-> items[k][n], to |-> items[k][n + 1]] :
                          n \in 1..(Len(items[k]) - 1)} : k \in busy}
      opened == {k \in busy : (\E j \in busy : j < k) /\ d.items[items[k][1]].slot # "morning"}
  IN within \cup {[day |-> days[k], from |-> Last(items[NearestBusy(busy, k)]), to |-> items[k][1]] : k \in opened}

\* Of the legs there were: a new leg goes on the way the old one from its element did.
NewMode(d, n) ==
  LET old == {l \in DOMAIN d.legs : d.legs[l].from = n.from}
  IN IF old # {} THEN Fold(d.legs[CHOOSE l \in old : TRUE]).mode
     ELSE IF d.days[n.day].mode # None THEN d.days[n.day].mode ELSE "car"

\* A leg whose input changed waits for a new calculation; of one with changes, its parts do.
ResetLeg(d, leg) ==
  LET ends == LegEnds(d, leg.from, leg.to)
      Part(k) == IF SegmentInput(leg.parts, k, ends) = leg.parts[k].input THEN leg.parts[k]
                 ELSE [leg.parts[k] EXCEPT !.input = SegmentInput(leg.parts, k, ends),
                                           !.source = "pending", !.for = None]
  IN IF Composite(leg) THEN [leg EXCEPT !.parts = [k \in DOMAIN leg.parts |-> Part(k)]]
     ELSE IF WantedInput(d, leg) = leg.input THEN leg
     ELSE [leg EXCEPT !.input = WantedInput(d, leg), !.source = "pending", !.for = None, !.pinned = FALSE]

Between(leg, n) == leg.day = n.day /\ leg.from = n.from /\ leg.to = n.to

KeptLegs(d) == LET wanted == Neighbours(d) IN {l \in DOMAIN d.legs : \E n \in wanted : Between(d.legs[l], n)}

MissingLegs(d) ==
  LET kept == KeptLegs(d)
  IN Ranked({n \in Neighbours(d) : \A l \in kept : ~Between(d.legs[l], n)}, LAMBDA x, y : x.from < y.from)

CreatedLeg(d, n) ==
  LET leg == NewLeg(n.day, n.from, n.to, NewMode(d, n), None) IN [leg EXCEPT !.input = WantedInput(d, leg)]

\* Every pair of neighbours has its leg and there is no other.
ReconcileLegs(d) ==
  LET missing == MissingLegs(d)
      remaining == [d EXCEPT !.legs = [l \in KeptLegs(d) |-> ResetLeg(d, d.legs[l])]]
  IN Insert(remaining, "legs", [k \in DOMAIN missing |-> CreatedLeg(d, missing[k])])
===============================================================================
