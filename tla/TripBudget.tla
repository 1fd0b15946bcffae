------------------------------ MODULE TripBudget ------------------------------
(* The budget of a plan or a report, assembled on every read from the trip    *)
(* and its document and never stored (domain/budget.go), with the stops along *)
(* the lines of activities (domain/stop.go).                                  *)
(*                                                                            *)
(* A document is [days, items, tracks, stays, transfers, expenses, legs],     *)
(* each a sequence in the order it is read.  Items and stops are costs of     *)
(* CostSplit; a track is [item, stops], a leg [from, to, planned, actual].    *)
EXTENDS CostSplit
LOCAL INSTANCE SequencesExt

CONSTANTS CostCategories

Empty == [days |-> <<>>, items |-> <<>>, tracks |-> <<>>, stays |-> <<>>, transfers |-> <<>>,
          expenses |-> <<>>, legs |-> <<>>]

DayItems(items, day) == SelectSeq(items, LAMBDA i : i.day = day)
DayExpenses(expenses, day) == SelectSeq(expenses, LAMBDA e : e.day = day)

Ids(rows) == {r.id : r \in ToSet(rows)}
Item(content, id) == CHOOSE i \in ToSet(content.items) : i.id = id

(************************************ stops ********************************)

CostItemOfStop(stop, activity) == stop

\* A stop costs like a place of its activity's day.
CostItem(stop, activity) == [stop EXCEPT !.day = activity.day]

StopsOf(tracks, item) ==
  LET own == SelectSeq(tracks, LAMBDA t : t.item = item)
  IN IF own = <<>> THEN <<>> ELSE own[1].stops

StopsOfItem(content, item) ==
  LET stops == StopsOf(content.tracks, item.id)
  IN [k \in DOMAIN stops |-> CostItem(stops[k], item)]

StopCostItems(content) ==
  LET kept == SelectSeq(content.tracks, LAMBDA t : t.item \in Ids(content.items))
  IN FlattenSeq([k \in DOMAIN kept |-> StopsOfItem(content, Item(content, kept[k].item))])

(************************************* legs ********************************)

OpeningLeg(legs, items) ==
  IF items = <<>> THEN <<>>
  ELSE LET into == SelectSeq(legs, LAMBDA l : l.to = items[1].id)
       IN SubSeq(into, 1, Min({1, Len(into)}))

DayLegs(legs, items) ==
  FlattenSeq([k \in DOMAIN items |->
                IF k = 1 THEN <<>>
                ELSE SelectSeq(legs, LAMBDA l : l.from = items[k - 1].id /\ l.to = items[k].id)])

(*********************************** entries *******************************)

hasCost(planned, actual, report) == planned # None \/ (report /\ actual # None)
actualOf(actual, report) == IF report THEN actual ELSE None

Entry(kind, category, day, amount, actual) ==
  [kind |-> kind, category |-> category, day |-> day, amount |-> amount, actual |-> actual]

\* No entry, or one, for a row that carries a cost.
Listed(row, report, entry) == IF hasCost(row.planned, row.actual, report) THEN <<entry>> ELSE <<>>

actualTotal(row, travelers, report) ==
  IF report /\ row.actual # None THEN perGroup(row.actual, row.per, travelers) ELSE None

\* A stay mark costs nothing of its own.
placeEntry(cost, travelers, report) ==
  IF cost.kind = "anchor" THEN <<>>
  ELSE Listed(cost, report, Entry(IF cost.day = None THEN "unassigned" ELSE "day", cost.category, cost.day,
                                  PlannedCostTotal(cost, travelers), actualTotal(cost, travelers, report)))

stopEntries(content, item, travelers, report) ==
  LET stops == StopsOfItem(content, item)
  IN FlattenSeq([k \in DOMAIN stops |-> placeEntry(stops[k], travelers, report)])

legEntry(leg, day, report) ==
  Listed(leg, report, Entry("day", "transport", day, moneyOrZero(leg.planned), actualOf(leg.actual, report)))
expenseEntry(e, report) ==
  Listed(e, report, Entry(IF e.day = None THEN "untied" ELSE "day", e.category, e.day,
                          moneyOrZero(e.planned), actualOf(e.actual, report)))
stayEntry(stay, report) ==
  Listed(stay, report, Entry("stay", "accommodation", None, moneyOrZero(stay.planned), actualOf(stay.actual, report)))
transferEntry(t, travelers, report) ==
  Listed(t, report, Entry("transfer", "transport", None, perGroup(t.planned, t.per, travelers),
                          actualTotal(t, travelers, report)))

ItemEntries(content, items, travelers, report) ==
  FlattenSeq([k \in DOMAIN items |-> placeEntry(items[k], travelers, report)
                                       \o stopEntries(content, items[k], travelers, report)])

Each(rows, Of(_)) == FlattenSeq([k \in DOMAIN rows |-> Of(rows[k])])

DayEntries(content, day, travelers, report) ==
  LET items == DayItems(content.items, day)
  IN ItemEntries(content, items, travelers, report)
       \o Each(OpeningLeg(content.legs, items) \o DayLegs(content.legs, items), LAMBDA l : legEntry(l, day, report))
       \o Each(DayExpenses(content.expenses, day), LAMBDA e : expenseEntry(e, report))

Entries(content, travelers, report) ==
  Each(content.days, LAMBDA day : DayEntries(content, day, travelers, report))
    \o Each(content.stays, LAMBDA s : stayEntry(s, report))
    \o Each(content.transfers, LAMBDA t : transferEntry(t, travelers, report))
    \o Each(DayExpenses(content.expenses, None), LAMBDA e : expenseEntry(e, report))
    \o ItemEntries(content, DayItems(content.items, None), travelers, report)

(************************************ totals *******************************)

Blank(days) ==
  [planned |-> 0, actual |-> 0, unassigned |-> 0, stays |-> 0, transfers |-> 0, untied |-> 0,
   categories |-> [c \in CostCategories |-> [planned |-> 0, actual |-> 0]],
   days |-> [d \in ToSet(days) |-> [planned |-> 0, actual |-> 0]]]

Added(total, e) == [planned |-> total.planned + e.amount, actual |-> total.actual + moneyOrZero(e.actual)]

\* A place without a day reaches nothing but Unassigned.
addEntry(b, e) ==
  IF e.kind = "unassigned" THEN [b EXCEPT !.unassigned = @ + e.amount]
  ELSE LET total == [b EXCEPT !.planned = @ + e.amount, !.actual = @ + moneyOrZero(e.actual),
                              !.categories[e.category] = Added(@, e)]
       IN CASE e.kind = "day" -> [total EXCEPT !.days[e.day] = Added(@, e)]
            [] e.kind = "stay" -> [total EXCEPT !.stays = @ + e.amount]
            [] e.kind = "transfer" -> [total EXCEPT !.transfers = @ + e.amount]
            [] OTHER -> [total EXCEPT !.untied = @ + e.amount]

\* Rounded to the nearest cent, half a cent up.
perPerson(total, travelers) == (2 * total + travelers) \div (2 * travelers)

usedPercent(spent, budget) ==
  IF budget <= 0 THEN IF spent > 0 THEN 100 ELSE 0 ELSE (200 * spent + budget) \div (2 * budget)

\* trip: [kind, travelers, budget].
BuildBudget(trip, content) ==
  LET travelers == Max({trip.travelers, 1})
      report == trip.kind = "report"
      totals == FoldLeft(addEntry, Blank(content.days), Entries(content, travelers, report))
      spent == IF report THEN totals.actual ELSE totals.planned
  IN totals @@ BuildBalances(content.items \o StopCostItems(content), travelers, report)
       @@ [perPerson |-> perPerson(spent, travelers),
           remaining |-> IF trip.budget = None THEN None ELSE trip.budget - spent,
           usedPercent |-> IF trip.budget = None THEN None ELSE usedPercent(spent, trip.budget)]
===============================================================================
