----------------------------- MODULE TripListing ------------------------------
(* The list of trips a person sees, read page by page: the filter, the two    *)
(* orders and the cursor (storage/postgres/trips.go, List; domain/trip.go).   *)
(*                                                                            *)
(* Trips are a function from identifiers to [kind, owner, members, start,     *)
(* end, closed, activity]; dates and instants are numbers.                    *)
EXTENDS Integers, Sequences, FiniteSets
LOCAL INSTANCE SequencesExt

CONSTANTS None, MaxPageSize, DefaultPageSize

normalizePageSize(limit) ==
  CASE limit <= 0 -> DefaultPageSize
    [] limit > MaxPageSize -> MaxPageSize
    [] OTHER -> limit

\* What matters now, what comes, what is over.  Every trip has both dates: the
\* API takes none without them.
SortGroup(trip, today) ==
  CASE trip.closed -> 3
    [] ~trip.closed /\ today < trip.start -> 1
    [] ~trip.closed /\ today > trip.end /\ trip.kind = "report" -> 3
    [] OTHER -> 0

\* Where a trip stands in the order: its group, its key in it, its identifier.
Place(trips, id, filter, today) ==
  LET trip == trips[id]
      group == SortGroup(trip, today)
  IN IF filter.sort = "updated" THEN <<0, -trip.activity, id>>
     ELSE <<group, IF group = 3 THEN -trip.end ELSE trip.start, id>>

After(x, y) ==
  \/ x[1] > y[1]
  \/ x[1] = y[1] /\ x[2] > y[2]
  \/ x[1] = y[1] /\ x[2] = y[2] /\ x[3] > y[3]

Sees(trip, user) == user = trip.owner \/ user \in trip.members

InScope(trip, user, scope) ==
  CASE scope = "owned" -> user = trip.owner
    [] scope = "shared" -> user \in trip.members
    [] OTHER -> Sees(trip, user)

\* The period reaches into the year asked for, its first and its last day.
Touches(trip, year) == trip.start <= year[2] /\ trip.end >= year[1]

Matching(trips, user, filter) ==
  {id \in DOMAIN trips : /\ InScope(trips[id], user, filter.scope)
                         /\ filter.kind \in {None, trips[id].kind}
                         /\ filter.touches # None => Touches(trips[id], filter.touches)}

\* The places after the cursor, in order.
Following(trips, user, filter, cursor, today) ==
  SetToSortSeq({p \in {Place(trips, id, filter, today) : id \in Matching(trips, user, filter)} :
                  cursor = None \/ After(p, cursor)},
               LAMBDA x, y : After(y, x))

\* The cursor names the row that was read to see whether the list goes on.
ListPastTheNext(trips, user, filter, cursor, today) ==
  LET limit == normalizePageSize(filter.limit)
      following == Following(trips, user, filter, cursor, today)
  IN [items |-> [k \in 1..Min({limit, Len(following)}) |-> following[k][3]],
      next |-> IF Len(following) > limit THEN following[limit + 1] ELSE None]

\* One more than the page is asked for, to know whether another follows.
List(trips, user, filter, cursor, today) ==
  LET limit == normalizePageSize(filter.limit)
      following == Following(trips, user, filter, cursor, today)
  IN [items |-> [k \in 1..Min({limit, Len(following)}) |-> following[k][3]],
      next |-> IF Len(following) > limit THEN following[limit] ELSE None]
===============================================================================
