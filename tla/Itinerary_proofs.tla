--------------------------- MODULE Itinerary_proofs ---------------------------
(* Proofs about plans, for any document, any people and any requests.  Lists  *)
(* made by rank, the tables after each write, the marks and the days; then    *)
(* one lemma for each transaction of TripDocument (...Keeps) and one for each *)
(* step of Itinerary (...Sound); the invariant IInv and the two theorems are  *)
(* at the end.                                                                *)
EXTENDS Itinerary, FiniteSetTheorems, TLAPS

(**************************** orders and lists ***************************)

Orders(R, S) ==
  \A x, y, z \in S :
    /\ <<x, x>> \notin R
    /\ <<x, y>> \in R /\ <<y, z>> \in R => <<x, z>> \in R
    /\ x = y \/ <<x, y>> \in R \/ <<y, x>> \in R

Rank(S, R, x) == Cardinality({y \in S : <<y, x>> \in R})

Lists(q, S) ==
  /\ DOMAIN q = 1..Cardinality(S)
  /\ \A k \in DOMAIN q : q[k] \in S
  /\ \A k, j \in DOMAIN q : q[k] = q[j] => k = j
  /\ \A x \in S : \E k \in DOMAIN q : q[k] = x

LEMMA RankIsNumber ==
  ASSUME NEW S, IsFiniteSet(S), NEW R, Orders(R, S), NEW x \in S
  PROVE  Rank(S, R, x) \in 0..(Cardinality(S) - 1)
<1> DEFINE P == {y \in S : <<y, x>> \in R}
<1>1. P \in SUBSET S /\ x \notin P
  BY DEF Orders
<1>2. IsFiniteSet(P) /\ Cardinality(P) <= Cardinality(S) /\ Cardinality(P) # Cardinality(S)
  BY <1>1, FS_Subset
<1>3. Cardinality(P) \in Nat /\ Cardinality(S) \in Nat
  BY <1>2, FS_CardinalityType
<1> HIDE DEF P
<1>4. Cardinality(P) \in 0..(Cardinality(S) - 1)
  BY <1>2, <1>3
<1> QED
  BY <1>4 DEF P, Rank

LEMMA RankGrows ==
  ASSUME NEW S, IsFiniteSet(S), NEW R, Orders(R, S), NEW x \in S, NEW y \in S, <<x, y>> \in R
  PROVE  Rank(S, R, x) < Rank(S, R, y)
<1> DEFINE P == {z \in S : <<z, x>> \in R}
           Q == {z \in S : <<z, y>> \in R}
<1>1. P \in SUBSET Q /\ x \in Q /\ x \notin P
  BY DEF Orders
<1>2. IsFiniteSet(Q)
  BY FS_Subset
<1>3. IsFiniteSet(P) /\ Cardinality(P) <= Cardinality(Q) /\ Cardinality(P) # Cardinality(Q)
  BY <1>1, <1>2, FS_Subset
<1>4. Cardinality(P) \in Nat /\ Cardinality(Q) \in Nat
  BY <1>2, <1>3, FS_CardinalityType
<1> HIDE DEF P, Q
<1>5. Cardinality(P) < Cardinality(Q)
  BY <1>3, <1>4
<1> QED
  BY <1>5 DEF P, Q, Rank

LEMMA RankIsOwn ==
  ASSUME NEW S, IsFiniteSet(S), NEW R, Orders(R, S), NEW x \in S, NEW y \in S,
         Rank(S, R, x) = Rank(S, R, y)
  PROVE  x = y
<1>1. Rank(S, R, x) \in Int
  BY RankIsNumber
<1>2. CASE <<x, y>> \in R
  <2>1. Rank(S, R, x) < Rank(S, R, y)
    BY <1>2, RankGrows
  <2> QED BY <2>1, <1>1
<1>3. CASE <<y, x>> \in R
  <2>1. Rank(S, R, y) < Rank(S, R, x)
    BY <1>3, RankGrows
  <2> QED BY <2>1, <1>1
<1> QED
  BY <1>2, <1>3 DEF Orders

LEMMA RankTaken ==
  ASSUME NEW S, IsFiniteSet(S), NEW R, Orders(R, S), NEW k \in 1..Cardinality(S)
  PROVE  \E x \in S : Rank(S, R, x) = k - 1
<1> DEFINE n == Cardinality(S)
           T == 0..(n - 1)
           f == [x \in S |-> Rank(S, R, x)]
<1>0. n \in Nat
  BY FS_CardinalityType
<1>1. f \in [S -> T]
  BY RankIsNumber
<1>2. \A x, y \in S : f[x] = f[y] => x = y
  BY RankIsOwn
<1>3. f \in Injection(S, T)
  BY <1>1, <1>2 DEF Injection, IsInjective
<1> HIDE DEF f, T
<1>4. IsFiniteSet(T) /\ Cardinality(T) = n
  <2>1. 0 \in Int /\ n - 1 \in Int /\ (0 > n - 1 => n = 0)
    BY <1>0
  <2>2. IsFiniteSet(0..(n - 1)) /\ Cardinality(0..(n - 1)) = IF 0 > n - 1 THEN 0 ELSE (n - 1) - 0 + 1
    BY <2>1, FS_Interval
  <2> HIDE DEF n
  <2> QED BY <1>0, <2>1, <2>2 DEF T
<1>5. f \in Surjection(S, T)
  BY <1>3, <1>4, FS_Injection
<1>6. k - 1 \in T
  BY <1>0 DEF T
<1>7. PICK x \in S : f[x] = k - 1
  BY <1>5, <1>6 DEF Surjection
<1> QED
  BY <1>7 DEF f

LEMMA FirstOf ==
  ASSUME NEW S, IsFiniteSet(S), NEW R, Orders(R, S), S # {}
  PROVE  \E x \in S : \A y \in S : x = y \/ <<x, y>> \in R
<1>1. Cardinality(S) \in Nat /\ Cardinality(S) # 0
  BY FS_CardinalityType, FS_EmptySet
<1>2. 1 \in 1..Cardinality(S)
  BY <1>1
<1>3. PICK x \in S : Rank(S, R, x) = 1 - 1
  BY <1>2, RankTaken
<1>4. {y \in S : <<y, x>> \in R} = {}
  <2> DEFINE P == {y \in S : <<y, x>> \in R}
  <2>1. IsFiniteSet(P) /\ Cardinality(P) = 0
    <3>1. P \in SUBSET S
      BY DEF P
    <3>2. IsFiniteSet(P)
      BY <3>1, FS_Subset
    <3> QED BY <1>3, <3>2 DEF Rank
  <2> HIDE DEF P
  <2>2. P = {}
    BY <2>1, FS_EmptySet
  <2> QED BY <2>2 DEF P
<1> QED
  BY <1>4 DEF Orders

(* A list of the ranks of a set, each element at the place of its rank.    *)
LEMMA ByRank ==
  ASSUME NEW S, IsFiniteSet(S), NEW R, Orders(R, S), NEW q, DOMAIN q = 1..Cardinality(S),
         \A k \in DOMAIN q : q[k] \in S /\ Rank(S, R, q[k]) = k - 1
  PROVE  Lists(q, S)
<1>1. \A k, j \in DOMAIN q : q[k] = q[j] => k = j
  <2>1. \A k \in DOMAIN q : k \in Int
    OBVIOUS
  <2> QED BY <2>1
<1>2. ASSUME NEW x \in S PROVE \E k \in DOMAIN q : q[k] = x
  <2>1. Rank(S, R, x) \in 0..(Cardinality(S) - 1) /\ Cardinality(S) \in Nat
    BY RankIsNumber, FS_CardinalityType
  <2>2. PICK k \in 1..Cardinality(S) : Rank(S, R, x) = k - 1
    <3>1. Rank(S, R, x) + 1 \in 1..Cardinality(S) /\ Rank(S, R, x) = (Rank(S, R, x) + 1) - 1
      BY <2>1
    <3> QED BY <3>1
  <2>3. q[k] \in S /\ Rank(S, R, q[k]) = Rank(S, R, x)
    BY <2>2
  <2>4. q[k] = x
    BY <2>3, RankIsOwn
  <2> QED BY <2>4
<1> QED
  BY <1>1, <1>2 DEF Lists

LEMMA NumbersOrder ==
  ASSUME NEW K, \A x \in K : x \in Int, NEW R, \A x, y \in K : <<x, y>> \in R <=> x < y
  PROVE  Orders(R, K)
<1>1. ASSUME NEW x \in K, NEW y \in K, NEW z \in K
      PROVE  /\ <<x, x>> \notin R
             /\ <<x, y>> \in R /\ <<y, z>> \in R => <<x, z>> \in R
             /\ x = y \/ <<x, y>> \in R \/ <<y, x>> \in R
  OBVIOUS
<1> QED
  BY <1>1 DEF Orders

Seats(d) == \A i \in DOMAIN d.items : i \in Int /\ d.items[i].pos \in Int

LEMMA PositionsList ==
  ASSUME NEW d, Seats(d), NEW S \in SUBSET DOMAIN d.items, IsFiniteSet(S)
  PROVE  Lists(ByPosition(d, S), S)
<1> DEFINE Less(x, y) == d.items[x].pos < d.items[y].pos \/ (d.items[x].pos = d.items[y].pos /\ x < y)
           R == {p \in S \X S : Less(p[1], p[2])}
           q == ByPosition(d, S)
<1>1. \A x, y \in S : <<x, y>> \in R <=> Less(x, y)
  OBVIOUS
<1>2. ASSUME NEW x \in S, NEW y \in S, NEW z \in S
      PROVE  ~Less(x, x) /\ (Less(x, y) /\ Less(y, z) => Less(x, z)) /\ (x = y \/ Less(x, y) \/ Less(y, x))
  <2>1. {x, y, z, d.items[x].pos, d.items[y].pos, d.items[z].pos} \subseteq Int
    BY DEF Seats
  <2> QED BY <2>1
<1>3. Orders(R, S)
  <2> HIDE DEF R, Less
  <2> QED BY <1>1, <1>2 DEF Orders
<1>4. DOMAIN q = 1..Cardinality(S)
  BY DEF ByPosition, Ranked
<1>5. ASSUME NEW k \in 1..Cardinality(S) PROVE q[k] \in S /\ Rank(S, R, q[k]) = k - 1
  <2>1. ASSUME NEW x \in S PROVE Cardinality({y \in S : Less(y, x)}) = Rank(S, R, x)
    <3>1. {y \in S : Less(y, x)} = {y \in S : <<y, x>> \in R}
      BY <1>1
    <3> QED BY <3>1 DEF Rank
  <2>2. \E x \in S : Cardinality({y \in S : Less(y, x)}) = k - 1
    BY <1>3, <2>1, RankTaken
  <2>3. q[k] = CHOOSE x \in S : Cardinality({y \in S : Less(y, x)}) = k - 1
    BY DEF ByPosition, Ranked
  <2> HIDE DEF q, R
  <2>4. q[k] \in S /\ Cardinality({y \in S : Less(y, q[k])}) = k - 1
    BY <2>2, <2>3
  <2> QED BY <2>1, <2>4
<1> HIDE DEF q, R
<1>6. Lists(q, S)
  BY <1>3, <1>4, <1>5, ByRank
<1> QED
  BY <1>6 DEF q

(******************************* the tables ******************************)

(* What a transaction leaves is whole, and the places but those are there. *)
Spares(d, e, gone) ==
  /\ Tables(e) /\ e.kind = d.kind
  /\ \A i : IsPlace(d, i) /\ i \notin gone => IsPlace(e, i)

SameDays(d, e) == e.start = d.start /\ e.end = d.end /\ e.days = d.days

LEMMA SparesAll ==
  ASSUME NEW d, NEW e, NEW f, NEW gone, NEW more, Spares(d, e, gone), Spares(e, f, more)
  PROVE  Spares(d, f, gone \cup more)
BY DEF Spares

LEMMA SparesOn ==
  ASSUME NEW d, NEW e, NEW f, NEW gone, Spares(d, e, gone), Spares(e, f, {})
  PROVE  Spares(d, f, gone)
BY DEF Spares

LEMMA SparesItself == ASSUME NEW d, Tables(d) PROVE Spares(d, d, {}) /\ SameDays(d, d)
BY DEF Spares, SameDays

LEMMA ItemsSeated == ASSUME NEW d, Tables(d) PROVE Seats(d)
BY DEF Tables, IsTable, IsItem, Seats

LEMMA PlacesFinite ==
  ASSUME NEW d, Tables(d), NEW S \in SUBSET DOMAIN d.items
  PROVE  IsFiniteSet(S) /\ Cardinality(S) \in Nat
<1>1. IsFiniteSet(S)
  BY FS_Subset DEF Tables, IsTable
<1> QED
  BY <1>1, FS_CardinalityType

(* Rows of items written over, each with the kind and the end it had.      *)
LEMMA ItemsRewritten ==
  ASSUME NEW d, Tables(d), NEW its, DOMAIN its = DOMAIN d.items,
         \A i \in DOMAIN its : /\ IsItem(its[i]) /\ its[i].slot = d.items[i].slot
                               /\ its[i].slot # "place" => its[i].day = d.items[i].day
  PROVE  LET e == [d EXCEPT !.items = its] IN Spares(d, e, {}) /\ SameDays(d, e)
<1> DEFINE e == [d EXCEPT !.items = its]
<1>1. /\ DOMAIN e = DOMAIN d /\ e.items = its /\ e.days = d.days /\ e.stays = d.stays /\ e.legs = d.legs
      /\ e.next = d.next /\ e.start = d.start /\ e.end = d.end /\ e.kind = d.kind
  BY DEF Tables
<1> HIDE DEF e
<1>2. OneMark(e)
  BY <1>1 DEF OneMark, Tables
<1>3. IsTable(e.items, e.next) /\ \A i \in DOMAIN e.items : IsItem(e.items[i])
  BY <1>1 DEF IsTable, Tables
<1>4. Tables(e)
  BY <1>1, <1>2, <1>3 DEF Tables
<1>5. \A i : IsPlace(d, i) => IsPlace(e, i)
  BY <1>1 DEF IsPlace
<1>6. Spares(d, e, {}) /\ SameDays(d, e)
  BY <1>1, <1>4, <1>5 DEF Spares, SameDays
<1> QED
  BY <1>6 DEF e

(* Places of a list take numbers.                                          *)
Numbered(d, S, day, its) ==
  /\ DOMAIN its = DOMAIN d.items
  /\ \A i \in S : \E p \in Int : its[i] = [d.items[i] EXCEPT !.pos = p, !.day = day]
  /\ \A i \in DOMAIN d.items \ S : its[i] = d.items[i]

AreNumbered(d, e, S, day) ==
  /\ DOMAIN e.items = DOMAIN d.items
  /\ \A i \in S : e.items[i].day = day
  /\ \A i \in DOMAIN d.items \ S : e.items[i] = d.items[i]
  /\ \A i \in DOMAIN d.items : e.items[i].slot = d.items[i].slot

LEMMA PlacesNumbered ==
  ASSUME NEW d, Tables(d), NEW S \in SUBSET {i \in DOMAIN d.items : d.items[i].slot = "place"},
         NEW day, NEW its, Numbered(d, S, day, its)
  PROVE  LET e == [d EXCEPT !.items = its]
         IN Spares(d, e, {}) /\ SameDays(d, e) /\ AreNumbered(d, e, S, day)
<1> DEFINE e == [d EXCEPT !.items = its]
<1>1. ASSUME NEW i \in DOMAIN d.items
      PROVE  /\ IsItem(its[i]) /\ its[i].slot = d.items[i].slot
             /\ i \in S => its[i].day = day
             /\ its[i].slot # "place" => its[i].day = d.items[i].day
  <2>1. IsItem(d.items[i])
    BY DEF Tables
  <2>2. CASE i \in S
    <3>1. PICK p \in Int : its[i] = [d.items[i] EXCEPT !.pos = p, !.day = day]
      BY <2>2 DEF Numbered
    <3>2. d.items[i].slot = "place"
      BY <2>2
    <3> QED BY <2>1, <2>2, <3>1, <3>2 DEF IsItem
  <2>3. CASE i \notin S
    <3>1. its[i] = d.items[i]
      BY <2>3 DEF Numbered
    <3> QED BY <2>1, <2>3, <3>1
  <2> QED BY <2>2, <2>3
<1>2. Spares(d, e, {}) /\ SameDays(d, e)
  BY <1>1, ItemsRewritten DEF Numbered
<1>3. e.items = its
  BY DEF Tables
<1> HIDE DEF e
<1>4. AreNumbered(d, e, S, day)
  BY <1>1, <1>3 DEF Numbered, AreNumbered
<1>5. Spares(d, e, {}) /\ SameDays(d, e) /\ AreNumbered(d, e, S, day)
  BY <1>2, <1>4
<1> QED
  BY <1>5 DEF e

LEMMA Listed ==
  ASSUME NEW S, NEW q, Lists(q, S), NEW i
  PROVE  /\ i \in Range(q) <=> i \in S
         /\ i \in S => (CHOOSE k \in DOMAIN q : q[k] = i) \in DOMAIN q /\ (CHOOSE k \in DOMAIN q : q[k] = i) \in Int
<1>1. \A k \in DOMAIN q : k \in Int
  BY DEF Lists
<1>2. i \in Range(q) <=> i \in S
  BY DEF Lists, Range
<1>3. i \in S => \E k \in DOMAIN q : q[k] = i
  BY DEF Lists
<1> QED
  BY <1>1, <1>2, <1>3

(* The places of a list are places, and are numbered as they stand.        *)
LEMMA OfDay ==
  ASSUME NEW d, Tables(d), NEW day, NEW except
  PROVE  LET S == Places(d, day) \ {except}
         IN /\ S \in SUBSET {i \in DOMAIN d.items : d.items[i].slot = "place"}
            /\ Cardinality(S) \in Nat /\ Lists(ByPosition(d, S), S)
<1> DEFINE S == Places(d, day) \ {except}
<1>1. S \in SUBSET {i \in DOMAIN d.items : d.items[i].slot = "place"} /\ S \in SUBSET DOMAIN d.items
  BY DEF Places
<1> HIDE DEF S
<1>2. IsFiniteSet(S) /\ Cardinality(S) \in Nat
  BY <1>1, PlacesFinite
<1>3. Lists(ByPosition(d, S), S)
  BY <1>1, <1>2, ItemsSeated, PositionsList
<1> QED
  BY <1>1, <1>2, <1>3 DEF S

LEMMA AllOfDay ==
  ASSUME NEW d, Tables(d), NEW day
  PROVE  LET S == Places(d, day)
         IN /\ S \in SUBSET {i \in DOMAIN d.items : d.items[i].slot = "place"}
            /\ Cardinality(S) \in Nat /\ Lists(ByPosition(d, S), S)
<1> DEFINE S == Places(d, day)
<1>1. S \in SUBSET {i \in DOMAIN d.items : d.items[i].slot = "place"} /\ S \in SUBSET DOMAIN d.items
  BY DEF Places
<1> HIDE DEF S
<1>2. IsFiniteSet(S) /\ Cardinality(S) \in Nat
  BY <1>1, PlacesFinite
<1>3. Lists(ByPosition(d, S), S)
  BY <1>1, <1>2, ItemsSeated, PositionsList
<1> QED
  BY <1>1, <1>2, <1>3 DEF S

LEMMA renumberSpares ==
  ASSUME NEW d, Tables(d), NEW day
  PROVE  LET e == renumberPlaces(d, day)
         IN Spares(d, e, {}) /\ SameDays(d, e) /\ AreNumbered(d, e, Places(d, day), day)
<1> DEFINE S == Places(d, day)
           q == ByPosition(d, S)
           its == [i \in DOMAIN d.items |->
                     IF i \in Range(q)
                     THEN [d.items[i] EXCEPT !.pos = (CHOOSE k \in DOMAIN q : q[k] = i) - 1, !.day = day]
                     ELSE d.items[i]]
<1>1. renumberPlaces(d, day) = [d EXCEPT !.items = its]
  BY DEF renumberPlaces, Seated
<1>2. S \in SUBSET {i \in DOMAIN d.items : d.items[i].slot = "place"} /\ Lists(q, S)
  BY AllOfDay
<1> HIDE DEF q, S
<1>3. ASSUME NEW i \in S PROVE \E p \in Int : its[i] = [d.items[i] EXCEPT !.pos = p, !.day = day]
  <2> DEFINE k == CHOOSE k \in DOMAIN q : q[k] = i
  <2>1. i \in DOMAIN d.items /\ i \in Range(q) /\ k \in Int
    BY <1>2, Listed
  <2>2. its[i] = [d.items[i] EXCEPT !.pos = k - 1, !.day = day]
    BY <2>1
  <2> HIDE DEF k, its
  <2>3. k - 1 \in Int
    BY <2>1
  <2> QED BY <2>2, <2>3
<1>4. \A i \in DOMAIN d.items \ S : its[i] = d.items[i]
  BY <1>2, Listed
<1>5. DOMAIN its = DOMAIN d.items
  OBVIOUS
<1> HIDE DEF its
<1>6. Numbered(d, S, day, its)
  BY <1>3, <1>4, <1>5 DEF Numbered
<1> QED
  BY <1>1, <1>2, <1>6, PlacesNumbered DEF S

LEMMA SlotIsNumber ==
  ASSUME NEW d, Tables(d), NEW day, NEW pos, NEW except
  PROVE  Slot(d, day, pos, except) \in Int
<1>1. Cardinality(Places(d, day) \ {except}) \in Nat
  BY OfDay
<1> QED
  BY <1>1 DEF Slot

LEMMA openSpares ==
  ASSUME NEW d, Tables(d), NEW day, NEW pos, NEW except
  PROVE  LET e == openSlot(d, day, pos, except)
         IN Spares(d, e, {}) /\ SameDays(d, e) /\ AreNumbered(d, e, Places(d, day) \ {except}, day)
<1> DEFINE S == Places(d, day) \ {except}
           q == ByPosition(d, S)
           slot == Slot(d, day, pos, except)
           Seat(k) == IF k - 1 < slot THEN k - 1 ELSE k
           its == [i \in DOMAIN d.items |->
                     IF i \in Range(q)
                     THEN [d.items[i] EXCEPT !.pos = Seat(CHOOSE k \in DOMAIN q : q[k] = i), !.day = day]
                     ELSE d.items[i]]
<1>1. openSlot(d, day, pos, except) = [d EXCEPT !.items = its]
  BY DEF openSlot, Seated
<1>2. S \in SUBSET {i \in DOMAIN d.items : d.items[i].slot = "place"} /\ Lists(q, S)
  BY OfDay
<1> HIDE DEF q, S, slot
<1>3. ASSUME NEW i \in S PROVE \E p \in Int : its[i] = [d.items[i] EXCEPT !.pos = p, !.day = day]
  <2> DEFINE k == CHOOSE k \in DOMAIN q : q[k] = i
  <2>1. i \in DOMAIN d.items /\ i \in Range(q) /\ k \in Int
    BY <1>2, Listed
  <2>2. its[i] = [d.items[i] EXCEPT !.pos = Seat(k), !.day = day]
    BY <2>1
  <2> HIDE DEF k, its
  <2>3. Seat(k) \in Int
    BY <2>1
  <2> HIDE DEF Seat
  <2> QED BY <2>2, <2>3
<1>4. \A i \in DOMAIN d.items \ S : its[i] = d.items[i]
  BY <1>2, Listed
<1>5. DOMAIN its = DOMAIN d.items
  OBVIOUS
<1> HIDE DEF its
<1>6. Numbered(d, S, day, its)
  BY <1>3, <1>4, <1>5 DEF Numbered
<1> QED
  BY <1>1, <1>2, <1>6, PlacesNumbered DEF S

(* The places with a time, in the order of it.                             *)
Timed(d, q) == {i \in Range(q) : d.items[i].time # None}

Earlier(d, q, x, y) ==
  LET Seat(i) == CHOOSE k \in DOMAIN q : q[k] = i
  IN d.items[x].time < d.items[y].time \/ (d.items[x].time = d.items[y].time /\ Seat(x) < Seat(y))

ByTime(d, q) == Ranked(Timed(d, q), LAMBDA x, y : Earlier(d, q, x, y))

LEMMA TimesList ==
  ASSUME NEW d, Tables(d), NEW S \in SUBSET DOMAIN d.items, NEW q, Lists(q, S), IsFiniteSet(S)
  PROVE  /\ Timed(d, q) = {i \in S : d.items[i].time # None}
         /\ Lists(ByTime(d, q), Timed(d, q))
<1> DEFINE T == Timed(d, q)
           seat(x) == CHOOSE k \in DOMAIN q : q[k] = x
           Less(x, y) == d.items[x].time < d.items[y].time
                         \/ (d.items[x].time = d.items[y].time /\ seat(x) < seat(y))
           R == {p \in T \X T : Less(p[1], p[2])}
           sorted == ByTime(d, q)
<1>0. T = {i \in S : d.items[i].time # None}
  BY DEF Lists, Range, Timed
<1> HIDE DEF T
<1>1. \A x, y \in T : <<x, y>> \in R <=> Less(x, y)
  OBVIOUS
<1>2. IsFiniteSet(T)
  BY <1>0, FS_Subset
<1>3. \A x \in T : seat(x) \in DOMAIN q /\ seat(x) \in Int /\ q[seat(x)] = x
  <2>1. \A x \in T : x \in S
    BY <1>0
  <2>2. \A x \in T : \E k \in DOMAIN q : q[k] = x
    BY <2>1 DEF Lists
  <2>3. \A k \in DOMAIN q : k \in Int
    BY DEF Lists
  <2> QED BY <2>2, <2>3
<1>4. \A x \in T : d.items[x].time \in Int
  BY <1>0 DEF Tables, IsItem, IsDate
<1> HIDE DEF seat
<1>5. ASSUME NEW x \in T, NEW y \in T, NEW z \in T
      PROVE  ~Less(x, x) /\ (Less(x, y) /\ Less(y, z) => Less(x, z)) /\ (x = y \/ Less(x, y) \/ Less(y, x))
  <2>1. {seat(x), seat(y), seat(z), d.items[x].time, d.items[y].time, d.items[z].time} \subseteq Int
    BY <1>3, <1>4
  <2>2. seat(x) = seat(y) => x = y
    BY <1>3
  <2> QED BY <2>1, <2>2
<1>6. Orders(R, T)
  <2> HIDE DEF R, Less, T
  <2>1. ASSUME NEW x \in T, NEW y \in T, NEW z \in T
        PROVE  /\ <<x, x>> \notin R
               /\ <<x, y>> \in R /\ <<y, z>> \in R => <<x, z>> \in R
               /\ x = y \/ <<x, y>> \in R \/ <<y, x>> \in R
    BY <1>1, <1>5
  <2> QED BY <2>1 DEF Orders
<1>7. \A x, y : Earlier(d, q, x, y) <=> Less(x, y)
  BY DEF Earlier, seat
<1>8. DOMAIN sorted = 1..Cardinality(T)
  BY DEF ByTime, Ranked, T
<1>9. ASSUME NEW k \in 1..Cardinality(T) PROVE sorted[k] \in T /\ Rank(T, R, sorted[k]) = k - 1
  <2>1. ASSUME NEW x \in T PROVE Cardinality({y \in T : Earlier(d, q, y, x)}) = Rank(T, R, x)
    <3>1. {y \in T : Earlier(d, q, y, x)} = {y \in T : <<y, x>> \in R}
      <4> HIDE DEF R, Less
      <4> QED BY <1>1, <1>7
    <3> QED BY <3>1 DEF Rank
  <2>2. \E x \in T : Cardinality({y \in T : Earlier(d, q, y, x)}) = k - 1
    BY <1>2, <1>6, <2>1, RankTaken
  <2>3. sorted[k] = CHOOSE x \in T : Cardinality({y \in T : Earlier(d, q, y, x)}) = k - 1
    BY DEF ByTime, Ranked, T
  <2> HIDE DEF R, sorted
  <2>4. sorted[k] \in T /\ Cardinality({y \in T : Earlier(d, q, y, sorted[k])}) = k - 1
    BY <2>2, <2>3
  <2> QED BY <2>1, <2>4
<1> HIDE DEF R, sorted
<1>10. Lists(sorted, T)
  BY <1>2, <1>6, <1>8, <1>9, ByRank
<1> QED
  BY <1>0, <1>10 DEF sorted, T

(* Every place has a seat in the order by time.                            *)
LEMMA EveryoneSeated ==
  ASSUME NEW d, Tables(d), NEW S \in SUBSET DOMAIN d.items, NEW q, Lists(q, S)
  PROVE  /\ DOMAIN OrderByActualTime(d, q) = DOMAIN q
         /\ \A i \in S : \E k \in DOMAIN q : OrderByActualTime(d, q)[k] = i
<1> DEFINE T == Timed(d, q)
           sorted == ByTime(d, q)
           Seat(k) == Cardinality({j \in 1..k : d.items[q[j]].time # None})
           order == [k \in DOMAIN q |-> IF d.items[q[k]].time = None THEN q[k] ELSE sorted[Seat(k)]]
           n == Cardinality(S)
           K == {k \in 1..n : d.items[q[k]].time # None}
<1>1. OrderByActualTime(d, q) = order
  BY DEF OrderByActualTime, ByTime, Timed, Earlier
<1>2. IsFiniteSet(S) /\ n \in Nat
  BY PlacesFinite
<1>3. T = {i \in S : d.items[i].time # None} /\ Lists(sorted, T)
  BY <1>2, TimesList
<1> HIDE DEF T, sorted
<1>5. DOMAIN q = 1..n
  BY DEF Lists
<1>6. IsFiniteSet(K)
  <2>1. IsFiniteSet(1..n)
    BY <1>2, FS_Interval
  <2> QED BY <2>1, FS_Subset
<1>7. Cardinality(K) = Cardinality(T)
  <2> DEFINE f == [k \in K |-> q[k]]
  <2>1. \A k \in K : k \in DOMAIN q /\ q[k] \in T
    BY <1>3, <1>5 DEF Lists
  <2>2. f \in [K -> T]
    BY <2>1
  <2>3. \A i \in T : \E k \in K : f[k] = i
    <3>1. ASSUME NEW i \in T PROVE \E k \in K : f[k] = i
      <4>1. PICK k \in DOMAIN q : q[k] = i
        BY <1>3 DEF Lists
      <4>2. k \in K
        BY <1>3, <1>5, <4>1
      <4> QED BY <4>1, <4>2
    <3> QED BY <3>1
  <2>4. \A k, j \in K : f[k] = f[j] => k = j
    BY <2>1 DEF Lists
  <2> HIDE DEF f, K, T
  <2>5. f \in Surjection(K, T) /\ f \in Injection(K, T)
    BY <2>2, <2>3, <2>4 DEF Surjection, Injection, IsInjective
  <2> QED BY <1>6, <2>5, FS_Surjection
<1>8. ASSUME NEW i \in S PROVE \E k \in DOMAIN q : order[k] = i
  <2>1. PICK p \in DOMAIN q : q[p] = i
    BY DEF Lists
  <2>2. CASE d.items[i].time = None
    BY <2>1, <2>2
  <2>3. CASE d.items[i].time # None
    <3>1. PICK r \in 1..Cardinality(T) : sorted[r] = i
      BY <1>3, <2>3 DEF Lists
    <3> DEFINE R == {p2 \in K \X K : p2[1] < p2[2]}
    <3>2. \A x, y \in K : <<x, y>> \in R <=> x < y
      OBVIOUS
    <3>3. \A x \in K : x \in Int
      OBVIOUS
    <3> HIDE DEF R
    <3>4. Orders(R, K)
      <4> HIDE DEF K
      <4> QED BY <3>2, <3>3, NumbersOrder
    <3>5. PICK k \in K : Rank(K, R, k) = r - 1
      <4> HIDE DEF K
      <4> QED BY <1>6, <1>7, <3>1, <3>4, RankTaken
    <3>6. Seat(k) = r
      <4> DEFINE P == {j \in K : <<j, k>> \in R}
      <4>1. {j \in 1..k : d.items[q[j]].time # None} = P \cup {k}
        <5>1. k \in 1..n /\ d.items[q[k]].time # None
          OBVIOUS
        <5>2. ASSUME NEW j PROVE j \in 1..k /\ d.items[q[j]].time # None <=> j \in P \cup {k}
          <6>1. j \in 1..k <=> (j \in 1..n /\ j < k) \/ j = k
            BY <1>2, <5>1
          <6>2. j \in P <=> j \in K /\ j < k
            BY <3>2
          <6> QED BY <5>1, <6>1, <6>2
        <5> QED BY <5>2
      <4>2. IsFiniteSet(P) /\ k \notin P
        <5>1. P \in SUBSET K
          BY DEF P
        <5>2. ~(k < k)
          BY <3>3
        <5> QED BY <1>6, <5>1, <5>2, <3>2, FS_Subset
      <4>3. Cardinality(P \cup {k}) = Cardinality(P) + 1
        BY <4>2, FS_AddElement
      <4>4. Cardinality(P) = r - 1 /\ r \in Int
        BY <3>5, <3>1 DEF Rank
      <4> HIDE DEF P
      <4>5. Cardinality(P) + 1 = r
        BY <4>4
      <4> QED BY <4>1, <4>3, <4>5
    <3>7. k \in DOMAIN q /\ d.items[q[k]].time # None
      BY <1>5
    <3> HIDE DEF K, Seat
    <3>8. order[k] = sorted[Seat(k)]
      BY <3>7
    <3> QED BY <3>1, <3>6, <3>7, <3>8
  <2> QED BY <2>2, <2>3
<1>9. DOMAIN order = DOMAIN q
  OBVIOUS
<1> HIDE DEF order
<1> QED
  BY <1>1, <1>8, <1>9

LEMMA orderSpares ==
  ASSUME NEW d, Tables(d), NEW day
  PROVE  LET e == orderByTime(d, day) IN Spares(d, e, {}) /\ SameDays(d, e)
<1> DEFINE S == Places(d, day)
           q == ByPosition(d, S)
           order == OrderByActualTime(d, q)
           Seat(i) == CHOOSE k \in DOMAIN order : order[k] = i
           its == [i \in DOMAIN d.items |->
                     IF i \in Range(q) /\ q[Seat(i)] # i
                     THEN [d.items[i] EXCEPT !.pos = Seat(i) - 1] ELSE d.items[i]]
<1>1. orderByTime(d, day) = IF d.kind = "plan" \/ day = None THEN d ELSE [d EXCEPT !.items = its]
  BY DEF orderByTime
<1>2. S \in SUBSET DOMAIN d.items /\ Lists(q, S)
  BY AllOfDay
<1> HIDE DEF S, q
<1>3. DOMAIN order = DOMAIN q /\ \A i \in S : \E k \in DOMAIN q : order[k] = i
  BY <1>2, EveryoneSeated
<1> HIDE DEF order
<1>4. \A i \in S : Seat(i) \in Int
  <2>1. \A k \in DOMAIN q : k \in Int
    BY <1>2 DEF Lists
  <2> QED BY <1>3, <2>1
<1> HIDE DEF Seat
<1>5. ASSUME NEW i \in DOMAIN d.items
      PROVE  /\ IsItem(its[i]) /\ its[i].slot = d.items[i].slot
             /\ its[i].slot # "place" => its[i].day = d.items[i].day
  <2>1. IsItem(d.items[i])
    BY DEF Tables
  <2>2. CASE i \in Range(q) /\ q[Seat(i)] # i
    <3>1. Seat(i) - 1 \in Int
      BY <1>2, <1>4, <2>2, Listed
    <3> QED BY <2>1, <2>2, <3>1 DEF IsItem
  <2>3. CASE ~(i \in Range(q) /\ q[Seat(i)] # i)
    BY <2>1, <2>3
  <2> QED BY <2>2, <2>3
<1>6. DOMAIN its = DOMAIN d.items
  OBVIOUS
<1> HIDE DEF its
<1>7. Spares(d, [d EXCEPT !.items = its], {}) /\ SameDays(d, [d EXCEPT !.items = its])
  BY <1>5, <1>6, ItemsRewritten
<1> QED
  BY <1>1, <1>7, SparesItself

(* Rows added under new identifiers: none of those there is among them.    *)
Fresh(next, n) == next..(next + n - 1)

New(d, n) == Fresh(d.next, n)

LEMMA Added ==
  ASSUME NEW rows, NEW next \in Nat, IsTable(rows, next), NEW n \in Nat,
         NEW more, DOMAIN more = DOMAIN rows \cup Fresh(next, n)
  PROVE  /\ DOMAIN rows \cap Fresh(next, n) = {}
         /\ IsTable(more, next + n) /\ next + n \in Nat
         /\ Cardinality(DOMAIN more) = Cardinality(DOMAIN rows) + n
         /\ Cardinality(DOMAIN rows) \in Nat
<1> DEFINE G == Fresh(next, n)
<1> USE DEF Fresh
<1>1. DOMAIN rows \cap G = {}
  BY DEF IsTable
<1>4. IsFiniteSet(G) /\ Cardinality(G) = n
  <2>1. IsFiniteSet(next..(next + n - 1)) /\ Cardinality(next..(next + n - 1)) = IF next > next + n - 1 THEN 0 ELSE (next + n - 1) - next + 1
    BY FS_Interval
  <2>2. n = IF next > next + n - 1 THEN 0 ELSE (next + n - 1) - next + 1
    OBVIOUS
  <2> QED BY <2>1, <2>2
<1>5. /\ IsFiniteSet(DOMAIN rows \cup G)
      /\ Cardinality(DOMAIN rows \cup G) = Cardinality(DOMAIN rows) + n - Cardinality(DOMAIN rows \cap G)
      /\ Cardinality(DOMAIN rows) \in Nat
  BY <1>4, FS_Union, FS_CardinalityType DEF IsTable
<1>6. Cardinality(DOMAIN rows \cup G) = Cardinality(DOMAIN rows) + n
  <2>1. Cardinality(DOMAIN rows \cap G) = 0
    BY <1>1, FS_EmptySet
  <2> QED BY <1>5, <2>1
<1>7. \A id \in DOMAIN rows \cup G : id \in Nat /\ id < next + n
  BY DEF IsTable
<1>8. IsTable(more, next + n)
  BY <1>5, <1>7 DEF IsTable
<1> QED
  BY <1>1, <1>5, <1>6, <1>8

LEMMA Later == ASSUME NEW rows, NEW next \in Nat, NEW n \in Nat, IsTable(rows, next) PROVE IsTable(rows, next + n)
BY DEF IsTable

LEMMA ItemsAdded ==
  ASSUME NEW d, Tables(d), NEW n \in Nat, NEW e, DOMAIN e = DOMAIN d,
         \A f \in DOMAIN d \ {"items", "next"} : e[f] = d[f], e.next = d.next + n,
         DOMAIN e.items = DOMAIN d.items \cup New(d, n),
         \A i \in DOMAIN d.items : e.items[i] = d.items[i],
         \A i \in New(d, n) : IsItem(e.items[i]),
         \A i \in New(d, n) : e.items[i].slot # "place" =>
           \A j \in DOMAIN e.items : e.items[i].slot = e.items[j].slot /\ e.items[i].day = e.items[j].day => i = j
  PROVE  /\ Spares(d, e, {}) /\ SameDays(d, e) /\ e.stays = d.stays
         /\ DOMAIN d.items \cap New(d, n) = {}
<1>1. /\ e.days = d.days /\ e.stays = d.stays /\ e.legs = d.legs
      /\ e.start = d.start /\ e.end = d.end /\ e.kind = d.kind
  BY DEF Tables
<1>2. DOMAIN d.items \cap New(d, n) = {} /\ IsTable(e.items, e.next) /\ e.next \in Nat
  <2>1. d.next \in Nat /\ IsTable(d.items, d.next)
    BY DEF Tables
  <2>2. DOMAIN e.items = DOMAIN d.items \cup Fresh(d.next, n)
    BY DEF New
  <2>3. /\ DOMAIN d.items \cap Fresh(d.next, n) = {}
        /\ IsTable(e.items, d.next + n) /\ d.next + n \in Nat
    <3> DEFINE rows == d.items
               next == d.next
               more == e.items
    <3>1. next \in Nat /\ IsTable(rows, next) /\ DOMAIN more = DOMAIN rows \cup Fresh(next, n)
      BY <2>1, <2>2
    <3> HIDE DEF rows, next, more
    <3>2. DOMAIN rows \cap Fresh(next, n) = {} /\ IsTable(more, next + n) /\ next + n \in Nat
      BY ONLY n \in Nat, <3>1, Added
    <3> QED BY <3>2 DEF rows, next, more
  <2> QED BY <2>3 DEF New
<1>3. OneMark(e)
  <2>1. ASSUME NEW i \in DOMAIN e.items, NEW j \in DOMAIN e.items,
               e.items[i].slot # "place", e.items[i].slot = e.items[j].slot, e.items[i].day = e.items[j].day
        PROVE  i = j
    <3>1. CASE i \in DOMAIN d.items /\ j \in DOMAIN d.items
      BY <2>1, <3>1 DEF Tables, OneMark
    <3>2. CASE i \in New(d, n)
      BY <2>1, <3>2
    <3>3. CASE j \in New(d, n)
      BY <2>1, <3>3
    <3> QED BY <3>1, <3>2, <3>3
  <2> QED BY <2>1 DEF OneMark
<1>4. \A i \in DOMAIN e.items : IsItem(e.items[i])
  BY DEF Tables
<1>5. IsTable(e.days, e.next) /\ IsTable(e.stays, e.next) /\ IsTable(e.legs, e.next)
  BY <1>1, Later DEF Tables
<1>6. Tables(e)
  BY <1>1, <1>2, <1>3, <1>4, <1>5 DEF Tables
<1>7. Spares(d, e, {}) /\ SameDays(d, e)
  BY <1>1, <1>6 DEF Spares, SameDays, IsPlace
<1> QED
  BY <1>1, <1>2, <1>7

(* Legs written, created and removed.                                      *)
LEMMA LegsRewritten ==
  ASSUME NEW d, Tables(d), NEW n \in Nat, NEW legs, IsTable(legs, d.next + n),
         NEW e, DOMAIN e = DOMAIN d, \A f \in DOMAIN d \ {"legs", "next"} : e[f] = d[f],
         e.legs = legs, e.next = d.next + n
  PROVE  Spares(d, e, {}) /\ SameDays(d, e) /\ e.items = d.items /\ e.stays = d.stays
<1>1. /\ e.items = d.items /\ e.days = d.days /\ e.stays = d.stays
      /\ e.start = d.start /\ e.end = d.end /\ e.kind = d.kind /\ e.next \in Nat
  BY DEF Tables
<1>2. OneMark(e)
  BY <1>1 DEF OneMark, Tables
<1>3. IsTable(e.days, e.next) /\ IsTable(e.stays, e.next) /\ IsTable(e.items, e.next)
  BY <1>1, Later DEF Tables
<1>4. Tables(e)
  BY <1>1, <1>2, <1>3 DEF Tables
<1> QED
  BY <1>1, <1>4 DEF Spares, SameDays, IsPlace

LEMMA ImageFinite ==
  ASSUME NEW S, IsFiniteSet(S), NEW f, NEW T, \A t \in T : \E s \in S : t = f[s]
  PROVE  IsFiniteSet(T)
<1> DEFINE U == {f[s] : s \in S}
           g == [s \in S |-> f[s]]
<1>1. g \in Surjection(S, U)
  BY DEF Surjection
<1> HIDE DEF g
<1>2. IsFiniteSet(U)
  BY <1>1, FS_Surjection
<1>3. T \in SUBSET U
  OBVIOUS
<1> QED
  BY <1>2, <1>3, FS_Subset

LEMMA PlacesSequence ==
  ASSUME NEW d, Tables(d), NEW S \in SUBSET DOMAIN d.items
  PROVE  ByPosition(d, S) \in Seq(S) /\ Len(ByPosition(d, S)) = Cardinality(S)
<1> DEFINE q == ByPosition(d, S)
           n == Cardinality(S)
           Less(x, y) == d.items[x].pos < d.items[y].pos \/ (d.items[x].pos = d.items[y].pos /\ x < y)
           at(k) == CHOOSE x \in S : Cardinality({y \in S : Less(y, x)}) = k - 1
<1>1. Lists(q, S) /\ n \in Nat
  BY PlacesFinite, ItemsSeated, PositionsList
<1>2. q = [k \in 1..n |-> at(k)]
  BY DEF ByPosition, Ranked
<1> HIDE DEF q, n, at
<1>3. \A k \in 1..n : at(k) \in S
  <2>1. \A k \in 1..n : q[k] = at(k)
    BY <1>2
  <2> QED BY <1>1, <2>1 DEF Lists, n
<1>4. q \in Seq(S) /\ Len(q) = n
  BY <1>1, <1>2, <1>3
<1> QED
  BY <1>4 DEF q, n

LEMMA SetSequence ==
  ASSUME NEW S, IsFiniteSet(S)
  PROVE  SetToSeq(S) \in Seq(S)
<1> DEFINE n == Cardinality(S)
<1>1. n \in Nat
  BY FS_CardinalityType
<1>2. \E f \in [1..n -> S] : IsInjective(f)
  <2>1. \E f \in Bijection(1..n, S) : TRUE
    BY FS_NatBijection, FS_CountingElements, <1>1 DEF ExistsBijection
  <2> QED BY <2>1 DEF Bijection, Injection, IsInjective
<1>3. SetToSeq(S) \in [1..n -> S]
  BY <1>2 DEF SetToSeq
<1> QED
  BY <1>1, <1>3

LEMMA ElementsOfDay ==
  ASSUME NEW d, Tables(d), NEW day
  PROVE  DayItems(d, day) \in Seq(DOMAIN d.items) /\ Len(DayItems(d, day)) \in Nat
<1> DEFINE m == SetToSeq(Marks(d, day, "morning"))
           p == ByPosition(d, Places(d, day))
           e == SetToSeq(Marks(d, day, "evening"))
<1>1. Marks(d, day, "morning") \in SUBSET DOMAIN d.items /\ Marks(d, day, "evening") \in SUBSET DOMAIN d.items
  BY DEF Marks
<1>2. m \in Seq(DOMAIN d.items) /\ e \in Seq(DOMAIN d.items)
  <2>1. m \in Seq(Marks(d, day, "morning")) /\ e \in Seq(Marks(d, day, "evening"))
    BY <1>1, PlacesFinite, SetSequence
  <2> QED BY <1>1, <2>1
<1>3. p \in Seq(DOMAIN d.items)
  <2>1. Places(d, day) \in SUBSET DOMAIN d.items
    BY DEF Places
  <2>2. p \in Seq(Places(d, day))
    BY <2>1, PlacesSequence
  <2> QED BY <2>1, <2>2
<1>4. DayItems(d, day) = m \o p \o e
  BY DEF DayItems
<1> HIDE DEF m, p, e
<1>5. (m \o p) \o e \in Seq(DOMAIN d.items)
  BY <1>2, <1>3
<1>6. DayItems(d, day) \in Seq(DOMAIN d.items)
  BY <1>4, <1>5
<1> QED
  BY <1>6

LEMMA NeighboursFinite ==
  ASSUME NEW d, Tables(d)
  PROVE  IsFiniteSet(Neighbours(d))
<1> DEFINE days == OrderedDays(d)
           items == [k \in DOMAIN days |-> DayItems(d, days[k])]
           busy == {k \in DOMAIN days : items[k] # <<>>}
           inside(k) == {[day |-> days[k], from |-> items[k][n], to |-> items[k][n + 1]] :
                          n \in 1..(Len(items[k]) - 1)}
           opened == {k \in busy : (\E j \in busy : j < k) /\ d.items[items[k][1]].slot # "morning"}
           into(k) == [day |-> days[k], from |-> Last(items[NearestBusy(busy, k)]), to |-> items[k][1]]
           within == UNION {inside(k) : k \in busy}
           across == {into(k) : k \in opened}
<1>1. Neighbours(d) = within \cup across
  BY DEF Neighbours
<1>2. IsFiniteSet(busy) /\ IsFiniteSet(opened)
  <2>1. Cardinality(DOMAIN d.days) \in Nat
    BY FS_CardinalityType DEF Tables, IsTable
  <2>2. DOMAIN days = 1..Cardinality(DOMAIN d.days)
    BY DEF OrderedDays, Ranked
  <2>3. IsFiniteSet(DOMAIN days)
    BY <2>1, <2>2, FS_Interval
  <2>4. busy \in SUBSET DOMAIN days /\ opened \in SUBSET DOMAIN days
    OBVIOUS
  <2> QED BY <2>3, <2>4, FS_Subset
<1>3. ASSUME NEW k \in busy PROVE IsFiniteSet(inside(k))
  <2>1. Len(items[k]) \in Nat
    BY ElementsOfDay
  <2>2. IsFiniteSet(1..(Len(items[k]) - 1))
    BY <2>1, FS_Interval
  <2> DEFINE N == 1..(Len(items[k]) - 1)
             f == [n \in N |-> [day |-> days[k], from |-> items[k][n], to |-> items[k][n + 1]]]
  <2>3. \A t \in inside(k) : \E n \in N : t = f[n]
    OBVIOUS
  <2> HIDE DEF f, N
  <2>4. IsFiniteSet(N)
    BY <2>2 DEF N
  <2> HIDE DEF inside
  <2> QED BY <2>3, <2>4, ImageFinite
<1>4. IsFiniteSet(within)
  <2> DEFINE f == [k \in busy |-> inside(k)]
             U == {inside(k) : k \in busy}
  <2>1. \A t \in U : \E k \in busy : t = f[k]
    <3> HIDE DEF inside, busy
    <3> QED OBVIOUS
  <2>2. \A t \in U : IsFiniteSet(t)
    <3> HIDE DEF inside, busy
    <3> QED BY <1>3
  <2> HIDE DEF f, U, busy
  <2>3. IsFiniteSet(U)
    BY <1>2, <2>1, ImageFinite
  <2>4. IsFiniteSet(UNION U)
    BY <2>2, <2>3, FS_UNION
  <2> QED BY <2>4 DEF U
<1>5. IsFiniteSet(across)
  <2> DEFINE f == [k \in opened |-> into(k)]
  <2>1. \A t \in across : \E k \in opened : t = f[k]
    <3> HIDE DEF into, opened
    <3> QED OBVIOUS
  <2> HIDE DEF f, across, opened
  <2> QED BY <1>2, <2>1, ImageFinite
<1> HIDE DEF within, across
<1> QED
  BY <1>1, <1>4, <1>5, FS_Union

\* e is d with one more row in a table for each of the rows.
HasRows(d, table, rows, e) ==
    LET n == Len(rows)
    IN /\ DOMAIN e = DOMAIN d /\ e.next = d.next + n /\ e.next \in Nat
       /\ \A f \in DOMAIN d \ {table, "next"} : e[f] = d[f]
       /\ DOMAIN e[table] = DOMAIN d[table] \cup New(d, n)
       /\ DOMAIN d[table] \cap New(d, n) = {}
       /\ \A id \in DOMAIN d[table] : e[table][id] = d[table][id]
       /\ \A id \in New(d, n) : id - d.next + 1 \in 1..n /\ e[table][id] = rows[id - d.next + 1]
       /\ IsTable(e[table], e.next) /\ Cardinality(DOMAIN e[table]) = Cardinality(DOMAIN d[table]) + n
       /\ Cardinality(DOMAIN d[table]) \in Nat

LEMMA Inserted ==
  ASSUME NEW d, Tables(d), NEW table \in {"days", "items", "stays", "legs"}, NEW rows, Len(rows) \in Nat
  PROVE  HasRows(d, table, rows, Insert(d, table, rows))
<1> DEFINE n == Len(rows)
           old == d[table]
           more == WithRows(old, d.next, rows)
           e == Insert(d, table, rows)
<1>1. e = [f \in DOMAIN d |-> IF f = table THEN more ELSE IF f = "next" THEN d.next + n ELSE d[f]]
  BY DEF Insert
<1>2. d.next \in Nat /\ table \in DOMAIN d /\ "next" \in DOMAIN d /\ table # "next" /\ IsTable(old, d.next)
  BY DEF Tables
<1> HIDE DEF old
<1>3. DOMAIN more = DOMAIN old \cup Fresh(d.next, n)
  BY DEF Fresh, WithRows
<1> HIDE DEF n, more
<1>4. /\ DOMAIN old \cap Fresh(d.next, n) = {}
      /\ IsTable(more, d.next + n) /\ d.next + n \in Nat
      /\ Cardinality(DOMAIN more) = Cardinality(DOMAIN old) + n
      /\ Cardinality(DOMAIN old) \in Nat
  <2> HIDE DEF more
  <2>1. n \in Nat
    BY DEF n
  <2> QED BY <1>2, <1>3, <2>1, Added
<1>5. \A id \in DOMAIN old : more[id] = old[id]
  BY <1>4 DEF Fresh, WithRows, n, more
<1>6. \A id \in Fresh(d.next, n) : id - d.next + 1 \in 1..n /\ more[id] = rows[id - d.next + 1]
  <2>1. n \in Nat
    BY DEF n
  <2>2. \A id \in Fresh(d.next, n) : more[id] = rows[id - d.next + 1]
    BY DEF Fresh, WithRows, n, more
  <2> QED BY <1>2, <2>1, <2>2 DEF Fresh
<1>7. e[table] = more /\ e.next = d.next + n /\ DOMAIN e = DOMAIN d /\ \A f \in DOMAIN d \ {table, "next"} : e[f] = d[f]
  <2> HIDE DEF e, more
  <2> QED BY <1>1, <1>2
<1> HIDE DEF e, more
<1>8. /\ DOMAIN e = DOMAIN d /\ e.next = d.next + n /\ e.next \in Nat
      /\ \A f \in DOMAIN d \ {table, "next"} : e[f] = d[f]
      /\ DOMAIN e[table] = DOMAIN old \cup New(d, n)
      /\ DOMAIN old \cap New(d, n) = {}
      /\ \A id \in DOMAIN old : e[table][id] = old[id]
      /\ \A id \in New(d, n) : id - d.next + 1 \in 1..n /\ e[table][id] = rows[id - d.next + 1]
      /\ IsTable(e[table], e.next) /\ Cardinality(DOMAIN e[table]) = Cardinality(DOMAIN old) + n
      /\ Cardinality(DOMAIN old) \in Nat
  BY <1>3, <1>4, <1>5, <1>6, <1>7 DEF New
<1> QED
  BY <1>8 DEF HasRows, e, n, old

LEMMA syncLegsSpares ==
  ASSUME NEW d, Tables(d)
  PROVE  LET e == syncLegs(d)
         IN Spares(d, e, {}) /\ SameDays(d, e) /\ e.items = d.items /\ e.stays = d.stays
<1> DEFINE wanted == Neighbours(d)
           kept == KeptLegs(d)
           missing == MissingLegs(d)
           remaining == [d EXCEPT !.legs = [l \in kept |-> ResetLeg(d, d.legs[l])]]
           rows == [k \in DOMAIN missing |-> CreatedLeg(d, missing[k])]
           e == Insert(remaining, "legs", rows)
<1>1. syncLegs(d) = e
  BY DEF syncLegs, ReconcileLegs
<1>2. Len(rows) \in Nat
  <2> DEFINE need == {m \in wanted : \A l \in kept : ~Between(d.legs[l], m)}
             size == Cardinality(need)
  <2>1. IsFiniteSet(need)
    BY NeighboursFinite, FS_Subset
  <2>2. size \in Nat
    BY <2>1, FS_CardinalityType
  <2>3. DOMAIN missing = 1..size
    BY DEF MissingLegs, Ranked
  <2> HIDE DEF missing, size
  <2> QED BY <2>2, <2>3
<1>3. kept \in SUBSET DOMAIN d.legs
  BY DEF KeptLegs
<1> HIDE DEF kept, rows
<1>4. /\ DOMAIN remaining = DOMAIN d /\ remaining.next = d.next + 0 /\ DOMAIN remaining.legs = kept
      /\ \A f \in DOMAIN d \ {"legs", "next"} : remaining[f] = d[f]
  BY DEF Tables
<1> HIDE DEF remaining
<1>5. IsTable(remaining.legs, d.next + 0) /\ 0 \in Nat
  <2>1. IsFiniteSet(kept)
    BY <1>3, FS_Subset DEF Tables, IsTable
  <2> QED BY <1>3, <1>4, <2>1 DEF Tables, IsTable
<1>6. Spares(d, remaining, {}) /\ SameDays(d, remaining) /\ remaining.items = d.items /\ remaining.stays = d.stays
  <2> DEFINE legs == remaining.legs
  <2>1. IsTable(legs, d.next + 0)
    BY <1>5
  <2>2. remaining.legs = legs
    OBVIOUS
  <2> HIDE DEF legs
  <2> QED BY <1>4, <1>5, <2>1, <2>2, LegsRewritten
<1>7. Tables(remaining)
  BY <1>6 DEF Spares
<1> HIDE DEF e
<1>8. /\ DOMAIN e = DOMAIN remaining /\ e.next = remaining.next + Len(rows)
      /\ \A f \in DOMAIN remaining \ {"legs", "next"} : e[f] = remaining[f]
      /\ IsTable(e.legs, e.next)
  <2>1. HasRows(remaining, "legs", rows, e)
    BY <1>2, <1>7, Inserted DEF e
  <2> QED BY <1>7, <2>1 DEF HasRows
<1>9. Spares(remaining, e, {}) /\ SameDays(remaining, e) /\ e.items = remaining.items /\ e.stays = remaining.stays
  <2> DEFINE legs == e.legs
             n == Len(rows)
  <2>1. IsTable(legs, remaining.next + n) /\ n \in Nat
    BY <1>2, <1>8
  <2>2. e.legs = legs /\ e.next = remaining.next + n
    BY <1>8
  <2> HIDE DEF legs, n
  <2> QED BY <1>7, <1>8, <2>1, <2>2, LegsRewritten
<1>10. Spares(d, e, {}) /\ SameDays(d, e) /\ e.items = d.items /\ e.stays = d.stays
  BY <1>6, <1>9, SparesOn DEF SameDays
<1> QED
  BY <1>1, <1>10

(****************************** the stay marks ***************************)

LEMMA DropItemsLeaves ==
  ASSUME NEW d, Tables(d), NEW gone
  PROVE  LET e == DropItems(d, gone)
         IN /\ Tables(e) /\ SameDays(d, e) /\ e.kind = d.kind /\ e.stays = d.stays /\ e.next = d.next
            /\ DOMAIN e = DOMAIN d
            /\ DOMAIN e.items = DOMAIN d.items \ gone
            /\ \A i \in DOMAIN e.items : e.items[i] = d.items[i]
<1> DEFINE e == DropItems(d, gone)
           stay == {l \in DOMAIN d.legs : {d.legs[l].from, d.legs[l].to} \cap gone = {}}
           its == [i \in DOMAIN d.items \ gone |-> d.items[i]]
           legs == [l \in stay |-> d.legs[l]]
<1>1. e = [d EXCEPT !.items = its, !.legs = legs]
  BY DEF DropItems, Restrict, RestrictValues
<1>2. stay \in SUBSET DOMAIN d.legs /\ DOMAIN its = DOMAIN d.items \ gone /\ DOMAIN legs = stay
      /\ \A i \in DOMAIN its : its[i] = d.items[i]
  OBVIOUS
<1> HIDE DEF e, its, legs, stay
<1>3. /\ DOMAIN e = DOMAIN d /\ e.items = its /\ e.legs = legs /\ e.days = d.days /\ e.stays = d.stays
      /\ e.start = d.start /\ e.end = d.end /\ e.kind = d.kind /\ e.next = d.next
  BY <1>1 DEF Tables
<1>4. IsTable(its, d.next)
  <2>1. IsFiniteSet(DOMAIN its)
    BY <1>2, FS_Subset DEF Tables, IsTable
  <2> QED BY <1>2, <2>1 DEF Tables, IsTable
<1>5. IsTable(legs, d.next)
  <2>1. IsFiniteSet(stay)
    BY <1>2, FS_Subset DEF Tables, IsTable
  <2> QED BY <1>2, <2>1 DEF Tables, IsTable
<1>6. OneMark(e)
  BY <1>2, <1>3 DEF OneMark, Tables
<1>7. Tables(e)
  BY <1>2, <1>3, <1>4, <1>5, <1>6 DEF Tables
<1>8. /\ Tables(e) /\ SameDays(d, e) /\ e.kind = d.kind /\ e.stays = d.stays /\ e.next = d.next
      /\ DOMAIN e = DOMAIN d
      /\ DOMAIN e.items = DOMAIN d.items \ gone
      /\ \A i \in DOMAIN e.items : e.items[i] = d.items[i]
  BY <1>2, <1>3, <1>7 DEF SameDays
<1> QED
  BY <1>8 DEF e

LEMMA NightHasStay ==
  ASSUME NEW d, Tables(d), NEW night, StaysForNight(d, night) # {}
  PROVE  LET s == stayForNight(d, night)
         IN /\ s \in StaysForNight(d, night)
            /\ \A t \in StaysForNight(d, night) : d.stays[s].in <= d.stays[t].in
<1> DEFINE S == StaysForNight(d, night)
           Less(s, t) == d.stays[s].in < d.stays[t].in \/ (d.stays[s].in = d.stays[t].in /\ s < t)
           First(s) == \A t \in S : d.stays[s].in < d.stays[t].in \/ (d.stays[s].in = d.stays[t].in /\ s <= t)
           R == {p \in S \X S : Less(p[1], p[2])}
           s0 == stayForNight(d, night)
<1>1. S \in SUBSET DOMAIN d.stays
  BY DEF StaysForNight
<1>2. IsFiniteSet(S)
  BY <1>1, FS_Subset DEF Tables, IsTable
<1>3. \A s \in S : s \in Int /\ d.stays[s].in \in Int
  BY <1>1 DEF Tables, IsTable, IsStay
<1>4. s0 = CHOOSE s \in S : First(s)
  BY DEF stayForNight
<1> HIDE DEF s0, S
<1>5. Orders(R, S)
  <2>1. \A x, y \in S : <<x, y>> \in R <=> Less(x, y)
    OBVIOUS
  <2>2. ASSUME NEW x \in S, NEW y \in S, NEW z \in S
        PROVE  ~Less(x, x) /\ (Less(x, y) /\ Less(y, z) => Less(x, z)) /\ (x = y \/ Less(x, y) \/ Less(y, x))
    <3>1. {x, y, z, d.stays[x].in, d.stays[y].in, d.stays[z].in} \subseteq Int
      BY <1>3
    <3> QED BY <3>1
  <2> HIDE DEF R, Less
  <2>3. ASSUME NEW x \in S, NEW y \in S, NEW z \in S
        PROVE  /\ <<x, x>> \notin R
               /\ <<x, y>> \in R /\ <<y, z>> \in R => <<x, z>> \in R
               /\ x = y \/ <<x, y>> \in R \/ <<y, x>> \in R
    BY <2>1, <2>2
  <2> QED BY <2>3 DEF Orders
<1>6. \E s \in S : First(s)
  <2>1. S # {}
    BY DEF S
  <2>2. PICK s \in S : \A t \in S : s = t \/ <<s, t>> \in R
    <3> HIDE DEF R
    <3> QED BY <1>2, <1>5, <2>1, FirstOf
  <2>3. ASSUME NEW t \in S PROVE d.stays[s].in < d.stays[t].in \/ (d.stays[s].in = d.stays[t].in /\ s <= t)
    <3>1. s = t \/ Less(s, t)
      BY <2>2
    <3> QED BY <1>3, <3>1
  <2> QED BY <2>3
<1>7. s0 \in S /\ First(s0)
  <2> HIDE DEF First
  <2> QED BY <1>4, <1>6
<1>8. \A t \in S : d.stays[s0].in <= d.stays[t].in
  BY <1>3, <1>7
<1> QED
  BY <1>7, <1>8 DEF S, s0

NightOf(d, x, slot) == IF slot = "morning" THEN d.days[x].date - 1 ELSE d.days[x].date

Wished(d, x, slot) ==
  /\ d.days[x].date # None
  /\ IF slot = "morning" THEN d.days[x].morning ELSE d.days[x].evening /\ ~d.days[x].noNight

Needed(d, x, slot) == Wished(d, x, slot) /\ StaysForNight(d, NightOf(d, x, slot)) # {}

Ends == {"morning", "evening"}

LEMMA AnchorsWanted ==
  ASSUME NEW d, Tables(d)
  PROVE  LET w == AnchorAssignments(d)
         IN /\ DOMAIN w = {key \in (DOMAIN d.days) \X Ends : Needed(d, key[1], key[2])}
            /\ \A key \in DOMAIN w : w[key] = stayForNight(d, NightOf(d, key[1], key[2]))
            /\ IsFiniteSet(DOMAIN w)
<1> DEFINE w == AnchorAssignments(d)
           keys == {key \in (DOMAIN d.days) \X Ends : Needed(d, key[1], key[2])}
<1>1. w = [key \in keys |-> stayForNight(d, NightOf(d, key[1], key[2]))]
  BY DEF AnchorAssignments, NightOf, Needed, Wished, Ends
<1>2. IsFiniteSet(keys)
  <2>1. IsFiniteSet(DOMAIN d.days)
    BY DEF Tables, IsTable
  <2>2. IsFiniteSet(Ends)
    <3>1. IsFiniteSet({"morning"})
      BY FS_Singleton
    <3>2. Ends = {"morning"} \cup {"evening"}
      BY DEF Ends
    <3> QED BY <3>1, <3>2, FS_AddElement
  <2>3. IsFiniteSet((DOMAIN d.days) \X Ends)
    BY <2>1, <2>2, FS_Product
  <2>4. keys \in SUBSET ((DOMAIN d.days) \X Ends)
    OBVIOUS
  <2> QED BY <2>3, <2>4, FS_Subset
<1>3. DOMAIN w = keys /\ (\A key \in DOMAIN w : w[key] = stayForNight(d, NightOf(d, key[1], key[2]))) /\ IsFiniteSet(DOMAIN w)
  <2> HIDE DEF w, keys
  <2> QED BY <1>1, <1>2
<1> QED
  BY <1>3 DEF w

LEMMA KeysList ==
  ASSUME NEW D, \A x \in D : x \in Int, NEW S \in SUBSET (D \X Ends), IsFiniteSet(S)
  PROVE  Lists(Ranked(S, KeyBefore), S)
<1> DEFINE R == {p \in S \X S : KeyBefore(p[1], p[2])}
           q == Ranked(S, KeyBefore)
<1>1. \A x, y \in S : <<x, y>> \in R <=> KeyBefore(x, y)
  OBVIOUS
<1>2. ASSUME NEW x \in S, NEW y \in S, NEW z \in S
      PROVE  /\ ~KeyBefore(x, x) /\ (KeyBefore(x, y) /\ KeyBefore(y, z) => KeyBefore(x, z))
             /\ (x = y \/ KeyBefore(x, y) \/ KeyBefore(y, x))
  <2>1. {x[1], y[1], z[1]} \subseteq Int /\ {x[2], y[2], z[2]} \subseteq Ends
    OBVIOUS
  <2>2. x[1] = y[1] /\ x[2] = y[2] => x = y
    OBVIOUS
  <2> QED BY <2>1, <2>2 DEF KeyBefore, Ends
<1>3. Orders(R, S)
  <2> HIDE DEF R
  <2>1. ASSUME NEW x \in S, NEW y \in S, NEW z \in S
        PROVE  /\ <<x, x>> \notin R
               /\ <<x, y>> \in R /\ <<y, z>> \in R => <<x, z>> \in R
               /\ x = y \/ <<x, y>> \in R \/ <<y, x>> \in R
    BY <1>1, <1>2
  <2> QED BY <2>1 DEF Orders
<1>4. DOMAIN q = 1..Cardinality(S)
  BY DEF Ranked
<1>5. ASSUME NEW k \in 1..Cardinality(S) PROVE q[k] \in S /\ Rank(S, R, q[k]) = k - 1
  <2>1. ASSUME NEW x \in S PROVE Cardinality({y \in S : KeyBefore(y, x)}) = Rank(S, R, x)
    <3>1. {y \in S : KeyBefore(y, x)} = {y \in S : <<y, x>> \in R}
      BY <1>1
    <3> QED BY <3>1 DEF Rank
  <2>2. \E x \in S : Cardinality({y \in S : KeyBefore(y, x)}) = k - 1
    BY <1>3, <2>1, RankTaken
  <2>3. q[k] = CHOOSE x \in S : Cardinality({y \in S : KeyBefore(y, x)}) = k - 1
    BY DEF Ranked
  <2> HIDE DEF q, R
  <2>4. q[k] \in S /\ Cardinality({y \in S : KeyBefore(y, q[k])}) = k - 1
    BY <2>2, <2>3
  <2> QED BY <2>1, <2>4
<1> HIDE DEF q, R
<1>6. Lists(q, S)
  BY <1>3, <1>4, <1>5, ByRank
<1> QED
  BY <1>6 DEF q

(* The marks there were keep their place if they are needed, and the       *)
(* missing ones are made.                                                  *)
LEMMA AnchorsSynced ==
  ASSUME NEW d, Tables(d)
  PROVE  LET e == syncAnchors(d)
             w == AnchorAssignments(d)
         IN /\ Spares(d, e, {}) /\ SameDays(d, e) /\ e.stays = d.stays
            /\ \A i \in DOMAIN e.items : e.items[i].slot # "place" =>
                 /\ <<e.items[i].day, e.items[i].slot>> \in DOMAIN w
                 /\ e.items[i].stay = w[<<e.items[i].day, e.items[i].slot>>]
            /\ \A key \in DOMAIN w : \E i \in DOMAIN e.items : e.items[i].day = key[1] /\ e.items[i].slot = key[2]
<1> DEFINE w == AnchorAssignments(d)
           marks == {i \in DOMAIN d.items : d.items[i].slot # "place"}
           gone == {i \in marks : KeyOf(d, i) \notin DOMAIN w}
           kept == DropItems(d, gone)
           its == [i \in DOMAIN kept.items |->
                     IF i \in marks THEN [kept.items[i] EXCEPT !.stay = w[KeyOf(d, i)]] ELSE kept.items[i]]
           moved == [kept EXCEPT !.items = its]
           need == DOMAIN w \ {KeyOf(d, i) : i \in marks}
           missing == Ranked(need, KeyBefore)
           rows == [k \in DOMAIN missing |-> NewMark(missing[k][1], missing[k][2], w[missing[k]])]
           e == Insert(moved, "items", rows)
<1>1. syncAnchors(d) = e
  BY DEF syncAnchors
<1>2. /\ IsFiniteSet(DOMAIN w) /\ DOMAIN w \in SUBSET ((DOMAIN d.days) \X Ends)
  BY AnchorsWanted
<1>3. Lists(missing, need) /\ Cardinality(need) \in Nat
  <2>1. need \in SUBSET ((DOMAIN d.days) \X Ends) /\ IsFiniteSet(need)
    <3>1. need \in SUBSET DOMAIN w
      OBVIOUS
    <3> HIDE DEF need, w
    <3> QED BY <1>2, <3>1, FS_Subset
  <2>2. \A x \in DOMAIN d.days : x \in Int
    BY DEF Tables, IsTable
  <2> HIDE DEF need
  <2> QED BY <2>1, <2>2, KeysList, FS_CardinalityType
<1> HIDE DEF w
<1>4. DOMAIN missing = 1..Cardinality(need) /\ DOMAIN rows = 1..Cardinality(need) /\ Len(rows) = Cardinality(need)
  <2>1. DOMAIN missing = 1..Cardinality(need)
    BY <1>3 DEF Lists
  <2> HIDE DEF missing, need
  <2> QED BY <1>3, <2>1
<1>5. /\ Tables(kept) /\ SameDays(d, kept) /\ kept.kind = d.kind /\ kept.stays = d.stays
      /\ DOMAIN kept.items = DOMAIN d.items \ gone
      /\ \A i \in DOMAIN kept.items : kept.items[i] = d.items[i]
  BY DropItemsLeaves
<1>6. Spares(d, kept, {})
  BY <1>5 DEF Spares, IsPlace
<1> HIDE DEF kept
<1>7. /\ Spares(kept, moved, {}) /\ SameDays(kept, moved)
  <2>1. ASSUME NEW i \in DOMAIN its
        PROVE  IsItem(its[i]) /\ its[i].slot = kept.items[i].slot /\ its[i].day = kept.items[i].day
    <3>1. IsItem(kept.items[i])
      BY <1>5 DEF Tables
    <3>2. i \in marks => kept.items[i].slot # "place"
      BY <1>5
    <3>3. CASE i \in marks
      <4>1. its[i] = [kept.items[i] EXCEPT !.stay = w[KeyOf(d, i)]]
        BY <3>3
      <4> HIDE DEF its, marks
      <4> QED BY <3>1, <3>2, <3>3, <4>1 DEF IsItem
    <3>4. CASE i \notin marks
      <4>1. its[i] = kept.items[i]
        BY <3>4
      <4> QED BY <3>1, <4>1
    <3> QED BY <3>3, <3>4
  <2>2. DOMAIN its = DOMAIN kept.items
    OBVIOUS
  <2> HIDE DEF its
  <2> QED BY <1>5, <2>1, <2>2, ItemsRewritten
<1>8. moved.items = its /\ moved.stays = kept.stays
  BY <1>5 DEF Tables
<1>9. \A i \in DOMAIN its : its[i].slot = d.items[i].slot /\ its[i].day = d.items[i].day
  <2>1. ASSUME NEW i \in DOMAIN its
        PROVE  its[i].slot = kept.items[i].slot /\ its[i].day = kept.items[i].day
    <3>1. IsItem(kept.items[i])
      BY <1>5 DEF Tables
    <3> QED BY <3>1 DEF IsItem
  <2> QED BY <1>5, <2>1
<1>10. \A i \in DOMAIN its : its[i].slot # "place" => KeyOf(d, i) \in DOMAIN w /\ its[i].stay = w[KeyOf(d, i)]
  <2>1. ASSUME NEW i \in DOMAIN its, its[i].slot # "place"
        PROVE  KeyOf(d, i) \in DOMAIN w /\ its[i].stay = w[KeyOf(d, i)]
    <3>1. i \in DOMAIN d.items /\ d.items[i].slot # "place" /\ i \notin gone
      BY <1>5, <1>9, <2>1
    <3>2. i \in marks /\ KeyOf(d, i) \in DOMAIN w
      BY <3>1
    <3>3. IsItem(kept.items[i])
      BY <1>5 DEF Tables
    <3> QED BY <3>2, <3>3 DEF IsItem
  <2> QED BY <2>1
<1>11. DOMAIN its = DOMAIN d.items \ gone
  BY <1>5
<1>21. /\ need \subseteq DOMAIN w /\ \A i \in marks : KeyOf(d, i) \notin need
       /\ \A key \in DOMAIN w : key \notin need => \E i \in marks : KeyOf(d, i) = key
  BY DEF need
<1> HIDE DEF moved, its, rows, missing, need
<1>12. Tables(moved) /\ Len(rows) \in Nat
  BY <1>3, <1>4, <1>7 DEF Spares
<1> DEFINE n == Len(rows)
<1>13. /\ DOMAIN e = DOMAIN moved /\ e.next = moved.next + n
       /\ \A f \in DOMAIN moved \ {"items", "next"} : e[f] = moved[f]
       /\ DOMAIN e.items = DOMAIN moved.items \cup New(moved, n)
       /\ DOMAIN moved.items \cap New(moved, n) = {}
       /\ \A i \in DOMAIN moved.items : e.items[i] = moved.items[i]
       /\ \A i \in New(moved, n) : i - moved.next + 1 \in 1..n /\ e.items[i] = rows[i - moved.next + 1]
  <2>1. HasRows(moved, "items", rows, e)
    BY <1>12, Inserted
  <2> QED BY <2>1 DEF HasRows
<1> HIDE DEF e
<1>14. ASSUME NEW i \in New(moved, n)
       PROVE  \E k \in 1..n : /\ k = i - moved.next + 1
                              /\ missing[k] \in need /\ missing[k] \in DOMAIN w
                              /\ e.items[i] = NewMark(missing[k][1], missing[k][2], w[missing[k]])
  <2>1. PICK k \in 1..n : k = i - moved.next + 1 /\ e.items[i] = rows[k]
    BY <1>13
  <2>2. k \in DOMAIN missing /\ missing[k] \in need
    BY <1>3, <1>4, <2>1 DEF Lists
  <2>4. missing[k] \in DOMAIN w
    BY <1>21, <2>2
  <2>3. rows[k] = NewMark(missing[k][1], missing[k][2], w[missing[k]])
    BY <2>2 DEF rows
  <2> QED BY <2>1, <2>2, <2>3, <2>4
<1>15. ASSUME NEW i \in New(moved, n)
       PROVE  /\ IsItem(e.items[i]) /\ e.items[i].slot \in Ends
              /\ <<e.items[i].day, e.items[i].slot>> \in need
              /\ e.items[i].stay = w[<<e.items[i].day, e.items[i].slot>>]
  <2>1. PICK k \in 1..n : /\ missing[k] \in need /\ missing[k] \in DOMAIN w
                          /\ e.items[i] = NewMark(missing[k][1], missing[k][2], w[missing[k]])
    BY <1>14
  <2>2. missing[k] = <<missing[k][1], missing[k][2]>> /\ missing[k][2] \in Ends
    <3> DEFINE key == missing[k]
    <3>1. key \in (DOMAIN d.days) \X Ends
      BY <1>2, <2>1
    <3> HIDE DEF key
    <3>2. key = <<key[1], key[2]>> /\ key[2] \in Ends
      BY <3>1
    <3> QED BY <3>2 DEF key
  <2> QED BY <2>1, <2>2 DEF NewMark, IsItem, IsDate, Ends
<1>16. ASSUME NEW i \in New(moved, n), e.items[i].slot # "place", NEW j \in DOMAIN e.items,
              e.items[i].slot = e.items[j].slot, e.items[i].day = e.items[j].day
       PROVE  i = j
  <2> DEFINE key == <<e.items[i].day, e.items[i].slot>>
  <2>1. key \in need
    BY <1>15
  <2>2. CASE j \in New(moved, n)
    <3>1. PICK k \in 1..n : k = i - moved.next + 1 /\ e.items[i] = NewMark(missing[k][1], missing[k][2], w[missing[k]]) /\ missing[k] \in DOMAIN w
      BY <1>14
    <3>2. PICK m \in 1..n : m = j - moved.next + 1 /\ e.items[j] = NewMark(missing[m][1], missing[m][2], w[missing[m]]) /\ missing[m] \in DOMAIN w
      BY <1>14, <2>2
    <3>3. missing[k][1] = missing[m][1] /\ missing[k][2] = missing[m][2]
      BY <1>16, <3>1, <3>2 DEF NewMark
    <3>4. missing[k] = missing[m]
      <4> DEFINE x == missing[k]
                 y == missing[m]
      <4>1. x \in (DOMAIN d.days) \X Ends /\ y \in (DOMAIN d.days) \X Ends /\ x[1] = y[1] /\ x[2] = y[2]
        BY <1>2, <3>1, <3>2, <3>3
      <4> HIDE DEF x, y
      <4>2. x = y
        BY <4>1
      <4> QED BY <4>2 DEF x, y
    <3>5. k = m
      BY <1>3, <1>4, <3>4 DEF Lists
    <3>6. i \in Int /\ j \in Int /\ moved.next \in Int
      BY <1>12, <1>13, <2>2 DEF New, Fresh, Tables
    <3> QED BY <3>1, <3>2, <3>5, <3>6
  <2>3. CASE j \in DOMAIN moved.items
    <3>1. e.items[j] = its[j] /\ j \in DOMAIN its
      BY <1>8, <1>13, <2>3
    <3>2. j \in DOMAIN d.items /\ its[j].slot = d.items[j].slot /\ its[j].day = d.items[j].day
      BY <1>9, <1>11, <3>1
    <3>3. j \in marks /\ KeyOf(d, j) = key
      BY <1>16, <3>1, <3>2 DEF KeyOf
    <3> QED BY <1>21, <2>1, <3>3
  <2> QED BY <1>13, <2>2, <2>3
<1>17. Spares(moved, e, {}) /\ SameDays(moved, e) /\ e.stays = moved.stays
  <2>1. \A i \in New(moved, n) : IsItem(e.items[i])
    BY <1>15
  <2>2. \A i \in New(moved, n) : e.items[i].slot # "place" =>
           \A j \in DOMAIN e.items : e.items[i].slot = e.items[j].slot /\ e.items[i].day = e.items[j].day => i = j
    BY <1>16
  <2> HIDE DEF n
  <2>3. n \in Nat
    BY <1>12 DEF n
  <2> QED BY <1>12, <1>13, <2>1, <2>2, <2>3, ItemsAdded
<1>18. Spares(d, e, {}) /\ SameDays(d, e) /\ e.stays = d.stays
  <2>1. Spares(d, moved, {})
    BY <1>6, <1>7, SparesOn
  <2> QED BY <1>5, <1>7, <1>8, <1>17, <2>1, SparesOn DEF SameDays
<1>19. ASSUME NEW i \in DOMAIN e.items, e.items[i].slot # "place"
       PROVE  /\ <<e.items[i].day, e.items[i].slot>> \in DOMAIN w
              /\ e.items[i].stay = w[<<e.items[i].day, e.items[i].slot>>]
  <2>1. CASE i \in New(moved, n)
    BY <1>15, <1>21, <2>1
  <2>2. CASE i \in DOMAIN moved.items
    <3>1. e.items[i] = its[i] /\ i \in DOMAIN its
      BY <1>8, <1>13, <2>2
    <3> QED BY <1>9, <1>10, <1>19, <3>1 DEF KeyOf
  <2> QED BY <1>13, <2>1, <2>2
<1>20. ASSUME NEW key \in DOMAIN w
       PROVE  \E i \in DOMAIN e.items : e.items[i].day = key[1] /\ e.items[i].slot = key[2]
  <2>1. CASE key \in need
    <3>1. PICK k \in 1..n : missing[k] = key
      BY <1>3, <1>4, <2>1 DEF Lists
    <3> DEFINE i == moved.next + k - 1
    <3>2. i \in New(moved, n) /\ k = i - moved.next + 1
      <4>1. moved.next \in Nat /\ n \in Nat
        BY <1>12 DEF Tables
      <4> HIDE DEF n
      <4> QED BY <3>1, <4>1 DEF New, Fresh
    <3> HIDE DEF i
    <3>3. PICK m \in 1..n : /\ m = i - moved.next + 1
                            /\ e.items[i] = NewMark(missing[m][1], missing[m][2], w[missing[m]])
      BY <1>14, <3>2
    <3>4. e.items[i].day = key[1] /\ e.items[i].slot = key[2]
      BY <3>1, <3>2, <3>3 DEF NewMark
    <3> QED BY <1>13, <3>2, <3>4
  <2>2. CASE key \notin need
    <3>1. PICK i \in marks : KeyOf(d, i) = key
      BY <1>21, <2>2
    <3>2. i \in DOMAIN its
      BY <1>11, <3>1
    <3>3. i \in DOMAIN e.items /\ e.items[i] = its[i]
      BY <1>8, <1>13, <3>2
    <3> QED BY <1>9, <3>1, <3>2, <3>3 DEF KeyOf
  <2> QED BY <2>1, <2>2
<1> QED
  BY <1>1, <1>18, <1>19, <1>20 DEF w

(* What the transactions end with: the marks match the nights.             *)
LEMMA MarksAreRight ==
  ASSUME NEW d, Tables(d), NEW e, Tables(e), e.days = d.days, e.stays = d.stays,
         \A i \in DOMAIN e.items : e.items[i].slot # "place" =>
           LET key == <<e.items[i].day, e.items[i].slot>> w == AnchorAssignments(d)
           IN key \in DOMAIN w /\ e.items[i].stay = w[key],
         \A key \in DOMAIN AnchorAssignments(d) : \E i \in DOMAIN e.items : e.items[i].day = key[1] /\ e.items[i].slot = key[2]
  PROVE  MarksMatchNights(e)
<1> DEFINE w == AnchorAssignments(d)
<1>1. /\ DOMAIN w = {key \in (DOMAIN d.days) \X Ends : Needed(d, key[1], key[2])}
      /\ \A key \in DOMAIN w : w[key] = stayForNight(d, NightOf(d, key[1], key[2]))
  BY AnchorsWanted
<1>2. /\ \A i \in DOMAIN e.items : e.items[i].slot # "place" =>
           <<e.items[i].day, e.items[i].slot>> \in DOMAIN w /\ e.items[i].stay = w[<<e.items[i].day, e.items[i].slot>>]
      /\ \A key \in DOMAIN w : \E i \in DOMAIN e.items : e.items[i].day = key[1] /\ e.items[i].slot = key[2]
  OBVIOUS
<1> HIDE DEF w
<1> SUFFICES ASSUME NEW x \in DOMAIN e.days, NEW slot \in Ends
             PROVE  LET day == e.days[x]
                        night == IF slot = "morning" THEN day.date - 1 ELSE day.date
                        wished == IF slot = "morning" THEN day.morning ELSE day.evening /\ ~day.noNight
                        there == {s \in DOMAIN e.stays : e.stays[s].in <= night /\ e.stays[s].out > night}
                        first == {s \in there : \A t \in there : e.stays[s].in <= e.stays[t].in}
                        marks == {e.items[i].stay : i \in Marks(e, x, slot)}
                    IN IF day.date = None \/ ~wished THEN marks = {}
                       ELSE /\ marks \subseteq first /\ Cardinality(Marks(e, x, slot)) <= 1
                            /\ there # {} => marks # {}
  BY DEF MarksMatchNights, Ends
<1> DEFINE night == NightOf(d, x, slot)
           there == StaysForNight(d, night)
           key == <<x, slot>>
           M == Marks(e, x, slot)
           stays == {e.items[i].stay : i \in M}
           first == {s \in there : \A t \in there : e.stays[s].in <= e.stays[t].in}
<1>3. x \in DOMAIN d.days
  OBVIOUS
<1>4. Wished(d, x, slot) => d.days[x].date \in Int /\ night \in Int
  <2>1. IsDay(d.days[x])
    BY <1>3 DEF Tables
  <2> QED BY <2>1 DEF IsDay, IsDate, Wished, NightOf
<1>5. key \in DOMAIN w <=> Wished(d, x, slot) /\ there # {}
  BY <1>1, <1>3 DEF Needed
<1>6. M # {} => key \in DOMAIN w
  BY <1>2 DEF Marks, Ends
<1>7. key \in DOMAIN w => stays # {}
  BY <1>2 DEF Marks
<1>8. \A i \in M : e.items[i].stay = stayForNight(d, night)
  <2>1. ASSUME NEW i \in M PROVE e.items[i].stay = stayForNight(d, night)
    <3>1. i \in DOMAIN e.items /\ e.items[i].slot = slot /\ e.items[i].day = x /\ slot # "place"
      BY DEF Marks, Ends
    <3>2. key \in DOMAIN w /\ e.items[i].stay = w[key]
      BY <1>2, <3>1
    <3>3. key[1] = x /\ key[2] = slot
      OBVIOUS
    <3> HIDE DEF key
    <3> QED BY <1>1, <3>2, <3>3
  <2> QED BY <2>1
<1>9. there # {} => stayForNight(d, night) \in first
  BY NightHasStay
<1>10. Cardinality(M) <= 1
  <2>1. \A i, j \in M : i = j
    <3>1. \A i \in M : i \in DOMAIN e.items /\ e.items[i].slot = slot /\ e.items[i].day = x /\ slot # "place"
      BY DEF Marks, Ends
    <3> QED BY <3>1 DEF Tables, OneMark
  <2>2. M = {} \/ \E i : M = {i}
    BY <2>1
  <2>3. Cardinality({}) = 0 /\ \A i : Cardinality({i}) = 1
    BY FS_EmptySet, FS_Singleton
  <2> HIDE DEF M
  <2>4. CASE M = {}
    BY <2>3, <2>4
  <2>5. CASE \E i : M = {i}
    <3>1. PICK i : M = {i}
      BY <2>5
    <3>2. Cardinality({i}) = 1
      BY FS_Singleton
    <3>3. Cardinality(M) = 1
      BY <3>1, <3>2
    <3> QED BY <3>3
  <2> QED BY <2>2, <2>4, <2>5
<1>11. Wished(d, x, slot) => there = {s \in DOMAIN e.stays : e.stays[s].in <= night /\ e.stays[s].out > night}
  <2>1. \A s \in DOMAIN e.stays : e.stays[s].in \in Int /\ e.stays[s].out \in Int
    BY DEF Tables, IsStay
  <2>2. ASSUME night \in Int, NEW s \in DOMAIN e.stays
        PROVE  Covers(d.stays[s], night) <=> e.stays[s].in <= night /\ e.stays[s].out > night
    BY <2>1, <2>2 DEF Covers
  <2> HIDE DEF night
  <2> QED BY <1>4, <2>2 DEF StaysForNight
<1>12. stays = {} <=> M = {}
  OBVIOUS
<1>13. stays \subseteq first
  <2>1. M # {} => there # {}
    BY <1>5, <1>6
  <2> QED BY <1>8, <1>9, <2>1
<1>14. ~Wished(d, x, slot) => stays = {}
  BY <1>5, <1>6, <1>12
<1>15. Wished(d, x, slot) /\ there # {} => stays # {}
  BY <1>5, <1>7
<1>16. CASE Wished(d, x, slot)
  <2> DEFINE there2 == {s \in DOMAIN e.stays : e.stays[s].in <= night /\ e.stays[s].out > night}
  <2>1. there = there2
    BY <1>11, <1>16
  <2>2. first = {s \in there2 : \A t \in there2 : e.stays[s].in <= e.stays[t].in}
    BY <2>1
  <2>3. ~(e.days[x].date = None \/ ~(IF slot = "morning" THEN e.days[x].morning ELSE e.days[x].evening /\ ~e.days[x].noNight))
    BY <1>16 DEF Wished
  <2>4. night = IF slot = "morning" THEN e.days[x].date - 1 ELSE e.days[x].date
    BY DEF NightOf
  <2>5. stays \subseteq {s \in there2 : \A t \in there2 : e.stays[s].in <= e.stays[t].in} /\ (there2 # {} => stays # {})
    BY <1>13, <1>15, <1>16, <2>1, <2>2
  <2> QED BY <1>10, <2>3, <2>5 DEF NightOf
<1>17. CASE ~Wished(d, x, slot)
  <2>1. e.days[x].date = None \/ ~(IF slot = "morning" THEN e.days[x].morning ELSE e.days[x].evening /\ ~e.days[x].noNight)
    BY <1>17 DEF Wished
  <2>2. stays = {}
    BY <1>14, <1>17
  <2> HIDE DEF M
  <2> QED BY <2>1, <2>2 DEF M
<1> QED
  BY <1>16, <1>17

LEMMA syncAnchorsSpares ==
  ASSUME NEW d, Tables(d)
  PROVE  LET e == syncAnchors(d)
         IN Spares(d, e, {}) /\ SameDays(d, e) /\ e.stays = d.stays /\ MarksMatchNights(e)
<1> DEFINE e == syncAnchors(d)
           w == AnchorAssignments(d)
<1>1. /\ Spares(d, e, {}) /\ SameDays(d, e) /\ e.stays = d.stays
      /\ \A i \in DOMAIN e.items : e.items[i].slot # "place" =>
           /\ <<e.items[i].day, e.items[i].slot>> \in DOMAIN w
           /\ e.items[i].stay = w[<<e.items[i].day, e.items[i].slot>>]
      /\ \A key \in DOMAIN w : \E i \in DOMAIN e.items : e.items[i].day = key[1] /\ e.items[i].slot = key[2]
  BY AnchorsSynced
<1> HIDE DEF e
<1>2. Tables(e) /\ e.days = d.days
  BY <1>1 DEF Spares, SameDays
<1>3. MarksMatchNights(e)
  BY <1>1, <1>2, MarksAreRight
<1>4. Spares(d, e, {}) /\ SameDays(d, e) /\ e.stays = d.stays /\ MarksMatchNights(e)
  BY <1>1, <1>3
<1> QED
  BY <1>4 DEF e

(* Marks depend on the days, where the items are and the stays alone.      *)
LEMMA MarksAlike ==
  ASSUME NEW d, MarksMatchNights(d), NEW e, e.days = d.days, e.stays = d.stays, DOMAIN e.items = DOMAIN d.items,
         \A i \in DOMAIN d.items : /\ e.items[i].slot = d.items[i].slot /\ e.items[i].day = d.items[i].day
                                   /\ e.items[i].stay = d.items[i].stay
  PROVE  MarksMatchNights(e)
<1>1. ASSUME NEW x \in DOMAIN e.days, NEW slot \in {"morning", "evening"}
      PROVE  LET day == e.days[x]
                 night == IF slot = "morning" THEN day.date - 1 ELSE day.date
                 wished == IF slot = "morning" THEN day.morning ELSE day.evening /\ ~day.noNight
                 there == {s \in DOMAIN e.stays : e.stays[s].in <= night /\ e.stays[s].out > night}
                 first == {s \in there : \A t \in there : e.stays[s].in <= e.stays[t].in}
                 marks == {e.items[i].stay : i \in Marks(e, x, slot)}
             IN IF day.date = None \/ ~wished THEN marks = {}
                ELSE /\ marks \subseteq first /\ Cardinality(Marks(e, x, slot)) <= 1
                     /\ there # {} => marks # {}
  <2>1. Marks(e, x, slot) = Marks(d, x, slot)
    BY DEF Marks
  <2> DEFINE day == d.days[x]
             night == IF slot = "morning" THEN day.date - 1 ELSE day.date
             wished == IF slot = "morning" THEN day.morning ELSE day.evening /\ ~day.noNight
             there == {s \in DOMAIN d.stays : d.stays[s].in <= night /\ d.stays[s].out > night}
             first == {s \in there : \A t \in there : d.stays[s].in <= d.stays[t].in}
             marks == {d.items[i].stay : i \in Marks(d, x, slot)}
  <2>2. IF day.date = None \/ ~wished THEN marks = {}
        ELSE /\ marks \subseteq first /\ Cardinality(Marks(d, x, slot)) <= 1
             /\ there # {} => marks # {}
    BY DEF MarksMatchNights
  <2>3. marks = {e.items[i].stay : i \in Marks(e, x, slot)}
    <3>1. Marks(d, x, slot) \subseteq DOMAIN d.items
      BY DEF Marks
    <3>2. \A i \in Marks(d, x, slot) : e.items[i].stay = d.items[i].stay
      BY <3>1
    <3> QED BY <2>1, <3>2
  <2>4. there = {s \in DOMAIN e.stays : e.stays[s].in <= night /\ e.stays[s].out > night}
    OBVIOUS
  <2>5. first = {s \in there : \A t \in there : e.stays[s].in <= e.stays[t].in}
    OBVIOUS
  <2> QED BY <2>1, <2>2, <2>3, <2>4, <2>5
<1> QED
  BY <1>1 DEF MarksMatchNights

LEMMA SameMarks ==
  ASSUME NEW d, MarksMatchNights(d), NEW e, e.days = d.days, e.items = d.items, e.stays = d.stays
  PROVE  MarksMatchNights(e)
BY MarksAlike

LEMMA syncTripSpares ==
  ASSUME NEW d, Tables(d)
  PROVE  LET e == syncTrip(d)
         IN Spares(d, e, {}) /\ SameDays(d, e) /\ MarksMatchNights(e)
<1> DEFINE m == syncAnchors(d)
           e == syncTrip(d)
<1>1. Spares(d, m, {}) /\ SameDays(d, m) /\ m.stays = d.stays /\ MarksMatchNights(m)
  BY syncAnchorsSpares
<1>2. e = syncLegs(m)
  BY DEF syncTrip
<1> HIDE DEF m, e
<1>3. Spares(m, e, {}) /\ SameDays(m, e) /\ e.items = m.items /\ e.stays = m.stays
  BY <1>1, <1>2, syncLegsSpares DEF Spares
<1>4. MarksMatchNights(e)
  BY <1>1, <1>3, SameMarks DEF SameDays
<1>5. Spares(d, e, {}) /\ SameDays(d, e) /\ MarksMatchNights(e)
  BY <1>1, <1>3, <1>4, SparesOn DEF SameDays
<1> QED
  BY <1>5 DEF e

(******************************** the days *******************************)

(* Days written over, added or removed, everything else as it was.         *)
LEMMA DaysRewritten ==
  ASSUME NEW d, Tables(d), NEW n \in Nat, NEW e, DOMAIN e = DOMAIN d,
         \A f \in DOMAIN d \ {"days", "end", "next"} : e[f] = d[f], e.next = d.next + n, e.end \in Int,
         IsTable(e.days, d.next + n), \A x \in DOMAIN e.days : IsDay(e.days[x])
  PROVE  Spares(d, e, {}) /\ e.start = d.start /\ e.items = d.items /\ e.stays = d.stays
<1>1. /\ e.items = d.items /\ e.stays = d.stays /\ e.legs = d.legs
      /\ e.start = d.start /\ e.kind = d.kind /\ e.next \in Nat
  BY DEF Tables
<1>2. OneMark(e)
  BY <1>1 DEF OneMark, Tables
<1>3. IsTable(e.legs, e.next) /\ IsTable(e.stays, e.next) /\ IsTable(e.items, e.next)
  BY <1>1, Later DEF Tables
<1>4. Tables(e)
  BY <1>1, <1>2, <1>3 DEF Tables
<1> QED
  BY <1>1, <1>4 DEF Spares, IsPlace

LEMMA DaysOver ==
  ASSUME NEW d, Tables(d), NEW days, DOMAIN days = DOMAIN d.days, \A x \in DOMAIN days : IsDay(days[x])
  PROVE  LET e == [d EXCEPT !.days = days]
         IN /\ Spares(d, e, {}) /\ e.start = d.start /\ e.end = d.end /\ e.next = d.next
            /\ e.items = d.items /\ e.stays = d.stays /\ e.days = days
<1> DEFINE e == [d EXCEPT !.days = days]
<1>1. /\ DOMAIN e = DOMAIN d /\ \A f \in DOMAIN d \ {"days", "end", "next"} : e[f] = d[f]
      /\ e.next = d.next + 0 /\ e.next = d.next /\ e.end = d.end /\ e.days = days /\ e.end \in Int /\ 0 \in Nat
  BY DEF Tables
<1> HIDE DEF e
<1>2. IsTable(e.days, d.next + 0)
  BY <1>1 DEF Tables, IsTable
<1>3. \A x \in DOMAIN e.days : IsDay(e.days[x])
  BY <1>1
<1>4. Spares(d, e, {}) /\ e.start = d.start /\ e.items = d.items /\ e.stays = d.stays
  BY <1>1, <1>2, <1>3, DaysRewritten
<1> QED
  BY <1>1, <1>4 DEF e

LEMMA layoutSpares ==
  ASSUME NEW d, Tables(d)
  PROVE  LET e == layoutDates(d)
         IN /\ Spares(d, e, {}) /\ e.start = d.start /\ e.end = d.end
            /\ DOMAIN e.days = DOMAIN d.days
            /\ \A x \in DOMAIN d.days : e.days[x].pos = d.days[x].pos /\ e.days[x].date = d.start + d.days[x].pos
<1> DEFINE days == [x \in DOMAIN d.days |->
                      [d.days[x] EXCEPT !.date = IF d.start = None THEN None ELSE d.start + d.days[x].pos]]
           e == layoutDates(d)
<1>1. e = [d EXCEPT !.days = days]
  BY DEF layoutDates
<1>2. d.start \in Int /\ d.start # None
  BY ItineraryAssumption DEF Tables
<1>3. \A x \in DOMAIN d.days : /\ IsDay(days[x]) /\ days[x].pos = d.days[x].pos
                               /\ days[x].date = d.start + d.days[x].pos
  <2>1. ASSUME NEW x \in DOMAIN d.days
        PROVE  IsDay(days[x]) /\ days[x].pos = d.days[x].pos /\ days[x].date = d.start + d.days[x].pos
    <3>1. IsDay(d.days[x])
      BY DEF Tables
    <3> QED BY <1>2, <3>1 DEF IsDay, IsDate
  <2> QED BY <2>1
<1>4. DOMAIN days = DOMAIN d.days
  OBVIOUS
<1> HIDE DEF e, days
<1>5. Spares(d, e, {}) /\ e.start = d.start /\ e.end = d.end /\ e.days = days
  BY <1>1, <1>3, <1>4, DaysOver
<1>6. /\ Spares(d, e, {}) /\ e.start = d.start /\ e.end = d.end
      /\ DOMAIN e.days = DOMAIN d.days
      /\ \A x \in DOMAIN d.days : e.days[x].pos = d.days[x].pos /\ e.days[x].date = d.start + d.days[x].pos
  BY <1>3, <1>4, <1>5
<1> QED
  BY <1>6 DEF e

(* The days fill the period, wherever the dates stand.                     *)
Fitting(d) ==
  /\ d.start <= d.end
  /\ Cardinality(DOMAIN d.days) = d.end - d.start + 1
  /\ \A x \in DOMAIN d.days : d.days[x].pos \in 0..(d.end - d.start)

(* What a transaction that changes the period or the days ends with.       *)
LEMMA LaidOut ==
  ASSUME NEW d, NEW f, NEW gone, Spares(d, f, gone), Fitting(f)
  PROVE  LET e == syncTrip(layoutDates(f))
         IN Spares(d, e, gone) /\ DaysFill(e) /\ MarksMatchNights(e)
<1> DEFINE g == layoutDates(f)
           e == syncTrip(g)
<1>1. Tables(f)
  BY DEF Spares
<1>2. /\ Spares(f, g, {}) /\ g.start = f.start /\ g.end = f.end
      /\ DOMAIN g.days = DOMAIN f.days
      /\ \A x \in DOMAIN f.days : g.days[x].pos = f.days[x].pos /\ g.days[x].date = f.start + f.days[x].pos
  BY <1>1, layoutSpares
<1> HIDE DEF g
<1>3. Spares(g, e, {}) /\ SameDays(g, e) /\ MarksMatchNights(e)
  BY <1>2, syncTripSpares DEF Spares
<1> HIDE DEF e
<1>4. Spares(d, e, gone)
  BY <1>2, <1>3, SparesOn
<1>5. DaysFill(g)
  BY <1>2 DEF Fitting, DaysFill
<1>6. DaysFill(e)
  BY <1>3, <1>5 DEF DaysFill, SameDays
<1> QED
  BY <1>3, <1>4, <1>6 DEF e, g

LEMMA Synced ==
  ASSUME NEW d, NEW f, NEW gone, Spares(d, f, gone), SameDays(d, f), DaysFill(d)
  PROVE  LET e == syncTrip(f)
         IN Spares(d, e, gone) /\ DaysFill(e) /\ MarksMatchNights(e)
<1> DEFINE e == syncTrip(f)
<1>1. Spares(f, e, {}) /\ SameDays(f, e) /\ MarksMatchNights(e)
  BY syncTripSpares DEF Spares
<1> HIDE DEF e
<1>2. Spares(d, e, gone)
  BY <1>1, SparesOn
<1>3. DaysFill(e)
  BY <1>1 DEF DaysFill, SameDays
<1> QED
  BY <1>1, <1>2, <1>3 DEF e

LEMMA DropDaysLeaves ==
  ASSUME NEW d, Tables(d), NEW gone \in SUBSET DOMAIN d.days
  PROVE  LET e == DropDays(d, gone)
         IN /\ Spares(d, e, {i \in DOMAIN d.items : d.items[i].day \in gone})
            /\ e.start = d.start /\ e.end = d.end /\ e.next = d.next
            /\ DOMAIN e.days = DOMAIN d.days \ gone
            /\ \A x \in DOMAIN e.days : e.days[x] = d.days[x]
<1> DEFINE lost == {i \in DOMAIN d.items : d.items[i].day \in gone}
           bare == DropItems(d, lost)
           stay == {l \in DOMAIN bare.legs : bare.legs[l].day \notin gone}
           legs == [l \in stay |-> bare.legs[l]]
           days == [x \in DOMAIN bare.days \ gone |-> bare.days[x]]
           e == DropDays(d, gone)
<1>1. e = [bare EXCEPT !.days = days, !.legs = legs]
  BY DEF DropDays, Restrict, RestrictValues
<1>2. /\ Tables(bare) /\ SameDays(d, bare) /\ bare.kind = d.kind /\ bare.next = d.next
      /\ DOMAIN bare.items = DOMAIN d.items \ lost
      /\ \A i \in DOMAIN bare.items : bare.items[i] = d.items[i]
  BY DropItemsLeaves
<1> HIDE DEF bare, e
<1>3. DOMAIN days = DOMAIN d.days \ gone /\ \A x \in DOMAIN days : days[x] = d.days[x]
  BY <1>2 DEF SameDays
<1>4. stay \in SUBSET DOMAIN bare.legs /\ DOMAIN legs = stay
  OBVIOUS
<1> HIDE DEF days, legs, stay
<1>5. /\ DOMAIN e = DOMAIN bare /\ e.items = bare.items /\ e.legs = legs /\ e.days = days /\ e.stays = bare.stays
      /\ e.start = bare.start /\ e.end = bare.end /\ e.kind = bare.kind /\ e.next = bare.next
  BY <1>1, <1>2 DEF Tables
<1>6. IsTable(days, d.next) /\ \A x \in DOMAIN days : IsDay(days[x])
  <2>1. IsFiniteSet(DOMAIN days)
    BY <1>3, FS_Subset DEF Tables, IsTable
  <2> QED BY <1>3, <2>1 DEF Tables, IsTable
<1>7. IsTable(legs, d.next)
  <2>1. IsFiniteSet(stay)
    BY <1>2, <1>4, FS_Subset DEF Tables, IsTable
  <2> QED BY <1>2, <1>4, <2>1 DEF Tables, IsTable
<1>8. OneMark(e)
  BY <1>2, <1>5 DEF OneMark, Tables
<1>9. Tables(e)
  BY <1>2, <1>5, <1>6, <1>7, <1>8 DEF Tables
<1>10. Spares(d, e, lost)
  BY <1>2, <1>5, <1>9 DEF Spares, IsPlace
<1>11. /\ Spares(d, e, lost)
       /\ e.start = d.start /\ e.end = d.end /\ e.next = d.next
       /\ DOMAIN e.days = DOMAIN d.days \ gone
       /\ \A x \in DOMAIN e.days : e.days[x] = d.days[x]
  BY <1>2, <1>3, <1>5, <1>10 DEF SameDays
<1> QED
  BY <1>11 DEF e

LEMMA DaysList ==
  ASSUME NEW d, Tables(d), NEW S \in SUBSET DOMAIN d.items, \A i \in S : d.items[i].day \in DOMAIN d.days
  PROVE  Lists(ByDay(d, S), S) /\ ByDay(d, S) \in Seq(S)
<1> DEFINE Day(i) == d.days[d.items[i].day].pos
           Pos(i) == d.items[i].pos
           Sooner(i, j) == Day(i) < Day(j) \/ (Day(i) = Day(j) /\ (Pos(i) < Pos(j) \/ (Pos(i) = Pos(j) /\ i < j)))
           R == {p \in S \X S : Sooner(p[1], p[2])}
           q == ByDay(d, S)
           n == Cardinality(S)
           at(k) == CHOOSE x \in S : Cardinality({y \in S : Sooner(y, x)}) = k - 1
<1>0. IsFiniteSet(S) /\ n \in Nat
  BY PlacesFinite
<1>1. \A x, y \in S : <<x, y>> \in R <=> Sooner(x, y)
  OBVIOUS
<1>2. \A i \in S : i \in Int /\ Pos(i) \in Int /\ Day(i) \in Int
  BY DEF Tables, IsTable, IsItem, IsDay
<1>3. q = [k \in 1..n |-> at(k)]
  BY DEF ByDay, Ranked
<1> HIDE DEF q, Day, Pos
<1>4. ASSUME NEW x \in S, NEW y \in S, NEW z \in S
      PROVE  /\ ~Sooner(x, x) /\ (Sooner(x, y) /\ Sooner(y, z) => Sooner(x, z))
             /\ (x = y \/ Sooner(x, y) \/ Sooner(y, x))
  BY <1>2
<1> HIDE DEF Sooner
<1>5. Orders(R, S)
  <2> HIDE DEF R
  <2>1. ASSUME NEW x \in S, NEW y \in S, NEW z \in S
        PROVE  /\ <<x, x>> \notin R
               /\ <<x, y>> \in R /\ <<y, z>> \in R => <<x, z>> \in R
               /\ x = y \/ <<x, y>> \in R \/ <<y, x>> \in R
    BY <1>1, <1>4
  <2> QED BY <2>1 DEF Orders
<1>6. ASSUME NEW k \in 1..n PROVE at(k) \in S /\ Rank(S, R, at(k)) = k - 1
  <2>1. ASSUME NEW x \in S PROVE Cardinality({y \in S : Sooner(y, x)}) = Rank(S, R, x)
    <3>1. {y \in S : Sooner(y, x)} = {y \in S : <<y, x>> \in R}
      BY <1>1
    <3> QED BY <3>1 DEF Rank
  <2>2. \E x \in S : Cardinality({y \in S : Sooner(y, x)}) = k - 1
    BY <1>0, <1>5, <2>1, RankTaken
  <2> HIDE DEF R
  <2>3. at(k) \in S /\ Cardinality({y \in S : Sooner(y, at(k))}) = k - 1
    BY <2>2
  <2> HIDE DEF at
  <2> QED BY <2>1, <2>3
<1> HIDE DEF R, at
<1>7. DOMAIN q = 1..Cardinality(S) /\ \A k \in DOMAIN q : q[k] \in S /\ Rank(S, R, q[k]) = k - 1
  BY <1>3, <1>6
<1>8. Lists(q, S)
  BY <1>0, <1>5, <1>7, ByRank
<1>9. q \in Seq(S)
  <2> HIDE DEF n
  <2> QED BY <1>0, <1>3, <1>6
<1> QED
  BY <1>8, <1>9 DEF q

(* One list after another has the elements of both.                        *)
LEMMA Joined ==
  ASSUME NEW P, NEW T, NEW p \in Seq(P), NEW t \in Seq(T), Lists(p, P), Lists(t, T)
  PROVE  /\ DOMAIN (p \o t) = 1..Len(p \o t) /\ Len(p \o t) \in Nat
         /\ Range(p \o t) = P \cup T
<1> DEFINE s == p \o t
<1>1. /\ Len(p) \in Nat /\ Len(t) \in Nat /\ DOMAIN p = 1..Len(p) /\ DOMAIN t = 1..Len(t)
      /\ Len(s) = Len(p) + Len(t) /\ DOMAIN s = 1..Len(s)
  OBVIOUS
<1>2. \A k \in 1..Len(s) : s[k] = IF k <= Len(p) THEN p[k] ELSE t[k - Len(p)]
  OBVIOUS
<1> HIDE DEF s
<1>3. ASSUME NEW k \in DOMAIN s PROVE s[k] \in P \cup T
  <2>1. CASE k <= Len(p)
    BY <1>1, <1>2, <2>1
  <2>2. CASE ~(k <= Len(p))
    <3>1. k - Len(p) \in 1..Len(t)
      BY <1>1, <2>2
    <3> QED BY <1>1, <1>2, <2>2, <3>1
  <2> QED BY <2>1, <2>2
<1>4. ASSUME NEW i \in P PROVE \E k \in DOMAIN s : s[k] = i
  <2>1. PICK k \in DOMAIN p : p[k] = i
    BY DEF Lists
  <2>2. k \in 1..Len(s) /\ k <= Len(p)
    BY <1>1
  <2> QED BY <1>1, <1>2, <2>1, <2>2
<1>5. ASSUME NEW i \in T PROVE \E k \in DOMAIN s : s[k] = i
  <2>1. PICK k \in DOMAIN t : t[k] = i
    BY DEF Lists
  <2>2. Len(p) + k \in 1..Len(s) /\ ~(Len(p) + k <= Len(p)) /\ (Len(p) + k) - Len(p) = k
    BY <1>1
  <2> QED BY <1>1, <1>2, <2>1, <2>2
<1>6. Range(s) = P \cup T
  BY <1>3, <1>4, <1>5 DEF Range
<1> QED
  BY <1>1, <1>6 DEF s

(* The places of the days at the end: the unassigned list takes them.      *)
TailOf(d, from) == {x \in DOMAIN d.days : d.days[x].pos >= from}

LEMMA HandedOver ==
  ASSUME NEW d, Tables(d), NEW from,
         NEW seq, seq = ByPosition(d, Places(d, None)) \o ByDay(d, UNION {Places(d, x) : x \in TailOf(d, from)})
  PROVE  LET e == Seated(d, seq, None, LAMBDA k : k - 1)
         IN /\ Spares(d, e, {}) /\ SameDays(d, e)
            /\ \A i \in DOMAIN e.items : IsPlace(d, i) => e.items[i].day \notin TailOf(d, from)
            /\ DOMAIN e.items = DOMAIN d.items
<1> DEFINE T == UNION {Places(d, x) : x \in TailOf(d, from)}
           P == Places(d, None)
           S == P \cup T
           q == ByPosition(d, P)
           its == [i \in DOMAIN d.items |->
                     IF i \in Range(seq)
                     THEN [d.items[i] EXCEPT !.pos = (CHOOSE k \in DOMAIN seq : seq[k] = i) - 1, !.day = None]
                     ELSE d.items[i]]
           e == Seated(d, seq, None, LAMBDA k : k - 1)
<1>1. e = [d EXCEPT !.items = its]
  BY DEF Seated
<1>2. /\ T \in SUBSET DOMAIN d.items /\ P \in SUBSET DOMAIN d.items
      /\ \A i \in T : d.items[i].day \in DOMAIN d.days
      /\ S \in SUBSET {i \in DOMAIN d.items : d.items[i].slot = "place"}
  BY DEF Places, TailOf
<1>3. Lists(ByDay(d, T), T) /\ ByDay(d, T) \in Seq(T)
  <2> HIDE DEF T
  <2> QED BY <1>2, DaysList
<1>4. q \in Seq(P) /\ Lists(q, P)
  BY <1>2, PlacesSequence, PlacesFinite, ItemsSeated, PositionsList
<1>5. seq = q \o ByDay(d, T)
  OBVIOUS
<1> HIDE DEF q, P, T
<1>6. Range(seq) = S /\ DOMAIN seq = 1..Len(seq) /\ Len(seq) \in Nat
  <2> DEFINE t == ByDay(d, T)
  <2>1. t \in Seq(T) /\ Lists(t, T) /\ seq = q \o t
    BY <1>3, <1>5
  <2> HIDE DEF t
  <2>2. Range(q \o t) = P \cup T /\ DOMAIN (q \o t) = 1..Len(q \o t) /\ Len(q \o t) \in Nat
    BY <1>4, <2>1, Joined
  <2> QED BY <2>1, <2>2
<1> HIDE DEF e
<1>7. ASSUME NEW i \in S PROVE \E p \in Int : its[i] = [d.items[i] EXCEPT !.pos = p, !.day = None]
  <2> DEFINE k == CHOOSE k \in DOMAIN seq : seq[k] = i
  <2>1. i \in DOMAIN d.items /\ i \in Range(seq)
    BY <1>2, <1>6
  <2>2. k \in Int
    <3>1. \E j \in DOMAIN seq : seq[j] = i
      BY <2>1 DEF Range
    <3>2. \A j \in DOMAIN seq : j \in Int
      BY <1>6
    <3> HIDE DEF S
    <3> QED BY <3>1, <3>2
  <2>3. its[i] = [d.items[i] EXCEPT !.pos = k - 1, !.day = None]
    BY <2>1
  <2> HIDE DEF k, its
  <2>4. k - 1 \in Int
    BY <2>2
  <2> QED BY <2>3, <2>4
<1>8. \A i \in DOMAIN d.items \ S : its[i] = d.items[i]
  BY <1>6
<1>9. DOMAIN its = DOMAIN d.items
  OBVIOUS
<1> HIDE DEF its, S
<1>10. Numbered(d, S, None, its)
  BY <1>7, <1>8, <1>9 DEF Numbered
<1>11. Spares(d, e, {}) /\ SameDays(d, e) /\ AreNumbered(d, e, S, None)
  BY <1>1, <1>2, <1>10, PlacesNumbered
<1>12. \A i \in DOMAIN e.items : IsPlace(d, i) => e.items[i].day \notin TailOf(d, from)
  <2>1. ASSUME NEW i \in DOMAIN e.items, IsPlace(d, i) PROVE e.items[i].day \notin TailOf(d, from)
    <3>1. CASE i \in S
      <4>1. e.items[i].day = None
        BY <1>11, <3>1 DEF AreNumbered
      <4>2. None \notin DOMAIN d.days
        BY ItineraryAssumption DEF Tables, IsTable
      <4> QED BY <4>1, <4>2 DEF TailOf
    <3>2. CASE i \notin S
      <4>1. e.items[i] = d.items[i] /\ i \in DOMAIN d.items
        BY <1>11, <3>2 DEF AreNumbered
      <4>2. d.items[i].day \notin TailOf(d, from)
        BY <2>1, <3>2, <4>1 DEF S, T, Places, IsPlace
      <4> QED BY <4>1, <4>2
    <3> QED BY <3>1, <3>2
  <2> QED BY <2>1
<1> QED
  BY <1>11, <1>12 DEF e, AreNumbered

LostWithTail(d, from) ==
  IF d.kind = "plan" THEN {} ELSE {i \in DOMAIN d.items : d.items[i].day \in TailOf(d, from)}

LEMMA dropTailSpares ==
  ASSUME NEW d, Tables(d), NEW from
  PROVE  LET e == dropTailDays(d, from)
         IN /\ Spares(d, e, LostWithTail(d, from))
            /\ e.start = d.start /\ e.end = d.end
            /\ DOMAIN e.days = DOMAIN d.days \ TailOf(d, from)
            /\ \A x \in DOMAIN e.days : e.days[x] = d.days[x]
<1> DEFINE seq == ByPosition(d, Places(d, None)) \o ByDay(d, UNION {Places(d, x) : x \in TailOf(d, from)})
           s == Seated(d, seq, None, LAMBDA k : k - 1)
           f == IF d.kind = "plan" THEN s ELSE d
           T == TailOf(d, from)
           e == dropTailDays(d, from)
           lost == {i \in DOMAIN f.items : f.items[i].day \in T}
<1>1. e = DropDays(f, T)
  BY DEF dropTailDays, TailOf
<1>2. /\ Spares(d, s, {}) /\ SameDays(d, s)
      /\ \A i \in DOMAIN s.items : IsPlace(d, i) => s.items[i].day \notin T
      /\ DOMAIN s.items = DOMAIN d.items
  BY HandedOver
<1> HIDE DEF e, s
<1>3. Spares(d, f, {}) /\ SameDays(d, f)
  BY <1>2, SparesItself
<1>4. Tables(f) /\ T \in SUBSET DOMAIN f.days
  BY <1>3 DEF Spares, SameDays, TailOf
<1>5. \A i \in lost : IsPlace(d, i) => d.kind # "plan" /\ i \in {j \in DOMAIN d.items : d.items[j].day \in T}
  BY <1>2
<1> HIDE DEF f, T
<1>6. /\ Spares(f, e, lost)
      /\ e.start = f.start /\ e.end = f.end
      /\ DOMAIN e.days = DOMAIN f.days \ T
      /\ \A x \in DOMAIN e.days : e.days[x] = f.days[x]
  BY <1>1, <1>4, DropDaysLeaves
<1>7. Spares(d, e, IF d.kind = "plan" THEN {} ELSE {i \in DOMAIN d.items : d.items[i].day \in T})
  <2>1. Spares(d, e, {} \cup lost)
    BY <1>3, <1>6, SparesAll
  <2> HIDE DEF lost
  <2> QED BY <1>5, <2>1 DEF Spares
<1>8. /\ Spares(d, e, IF d.kind = "plan" THEN {} ELSE {i \in DOMAIN d.items : d.items[i].day \in T})
      /\ e.start = d.start /\ e.end = d.end
      /\ DOMAIN e.days = DOMAIN d.days \ T
      /\ \A x \in DOMAIN e.days : e.days[x] = d.days[x]
  BY <1>3, <1>6, <1>7 DEF SameDays
<1> QED
  BY <1>8 DEF e, T, LostWithTail

LEMMA DaysInserted ==
  ASSUME NEW d, Tables(d), NEW rows, Len(rows) \in Nat, \A k \in 1..Len(rows) : IsDay(rows[k])
  PROVE  LET e == Insert(d, "days", rows) n == Len(rows)
         IN /\ Spares(d, e, {}) /\ e.start = d.start /\ e.end = d.end /\ e.next = d.next + n
            /\ e.items = d.items
            /\ DOMAIN e.days = DOMAIN d.days \cup New(d, n)
            /\ DOMAIN d.days \cap New(d, n) = {}
            /\ \A x \in DOMAIN d.days : e.days[x] = d.days[x]
            /\ \A x \in New(d, n) : x - d.next + 1 \in 1..n /\ e.days[x] = rows[x - d.next + 1]
            /\ Cardinality(DOMAIN e.days) = Cardinality(DOMAIN d.days) + n
            /\ Cardinality(DOMAIN d.days) \in Nat
<1> DEFINE n == Len(rows)
           e == Insert(d, "days", rows)
<1>1. /\ DOMAIN e = DOMAIN d /\ e.next = d.next + n
      /\ \A f \in DOMAIN d \ {"days", "next"} : e[f] = d[f]
      /\ DOMAIN e.days = DOMAIN d.days \cup New(d, n)
      /\ DOMAIN d.days \cap New(d, n) = {}
      /\ \A x \in DOMAIN d.days : e.days[x] = d.days[x]
      /\ \A x \in New(d, n) : x - d.next + 1 \in 1..n /\ e.days[x] = rows[x - d.next + 1]
      /\ IsTable(e.days, e.next) /\ Cardinality(DOMAIN e.days) = Cardinality(DOMAIN d.days) + n
      /\ Cardinality(DOMAIN d.days) \in Nat
  <2>1. HasRows(d, "days", rows, e)
    BY Inserted
  <2> QED BY <2>1 DEF HasRows
<1>2. n \in Nat /\ \A k \in 1..n : IsDay(rows[k])
  OBVIOUS
<1> HIDE DEF e, n
<1>3. \A x \in DOMAIN e.days : IsDay(e.days[x])
  BY <1>1, <1>2 DEF Tables
<1>4. \A f \in DOMAIN d \ {"days", "end", "next"} : e[f] = d[f]
  BY <1>1
<1>5. e.end = d.end /\ e.end \in Int /\ IsTable(e.days, d.next + n)
  BY <1>1 DEF Tables
<1>6. Spares(d, e, {}) /\ e.start = d.start /\ e.items = d.items
  BY <1>1, <1>2, <1>3, <1>4, <1>5, DaysRewritten
<1> QED
  BY <1>1, <1>5, <1>6 DEF e, n

LEMMA appendSpares ==
  ASSUME NEW d, Tables(d), NEW from \in Int, NEW to \in Int, from <= to
  PROVE  LET e == appendDays(d, from, to)
         IN /\ Spares(d, e, {}) /\ e.start = d.start /\ e.end = d.end
            /\ Cardinality(DOMAIN e.days) = Cardinality(DOMAIN d.days) + (to - from)
            /\ \A x \in DOMAIN e.days : (x \in DOMAIN d.days /\ e.days[x] = d.days[x]) \/ e.days[x].pos \in from..(to - 1)
<1> DEFINE rows == [k \in 1..(to - from) |-> NewDay(from + k - 1)]
           n == to - from
           e == appendDays(d, from, to)
<1>1. e = Insert(d, "days", rows)
  BY DEF appendDays
<1>2. Len(rows) = n /\ n \in Nat
  OBVIOUS
<1>3. \A k \in 1..n : rows[k] = NewDay(from + k - 1)
  OBVIOUS
<1>4. \A k \in 1..n : rows[k].pos \in from..(to - 1) /\ IsDay(rows[k])
  <2>1. ASSUME NEW k \in 1..n PROVE rows[k].pos \in from..(to - 1) /\ IsDay(rows[k])
    <3> DEFINE p == from + k - 1
    <3>1. p \in from..(to - 1) /\ p \in Int
      OBVIOUS
    <3>2. rows[k] = NewDay(p)
      BY <1>3
    <3> HIDE DEF p, rows, n
    <3> QED BY <3>1, <3>2 DEF NewDay, IsDay, IsDate
  <2> QED BY <2>1
<1> HIDE DEF rows, e, n
<1>5. /\ Spares(d, e, {}) /\ e.start = d.start /\ e.end = d.end
      /\ DOMAIN e.days = DOMAIN d.days \cup New(d, n)
      /\ \A x \in DOMAIN d.days : e.days[x] = d.days[x]
      /\ \A x \in New(d, n) : x - d.next + 1 \in 1..n /\ e.days[x] = rows[x - d.next + 1]
      /\ Cardinality(DOMAIN e.days) = Cardinality(DOMAIN d.days) + n
  <2>1. Len(rows) \in Nat /\ \A k \in 1..Len(rows) : IsDay(rows[k])
    BY <1>2, <1>4
  <2>2. LET g == Insert(d, "days", rows) m == Len(rows)
        IN /\ Spares(d, g, {}) /\ g.start = d.start /\ g.end = d.end /\ g.next = d.next + m
           /\ g.items = d.items
           /\ DOMAIN g.days = DOMAIN d.days \cup New(d, m)
           /\ DOMAIN d.days \cap New(d, m) = {}
           /\ \A x \in DOMAIN d.days : g.days[x] = d.days[x]
           /\ \A x \in New(d, m) : x - d.next + 1 \in 1..m /\ g.days[x] = rows[x - d.next + 1]
           /\ Cardinality(DOMAIN g.days) = Cardinality(DOMAIN d.days) + m
           /\ Cardinality(DOMAIN d.days) \in Nat
    BY ONLY <2>1, Tables(d), DaysInserted
  <2> QED BY <1>1, <1>2, <2>2
<1>6. \A x \in DOMAIN e.days : (x \in DOMAIN d.days /\ e.days[x] = d.days[x]) \/ e.days[x].pos \in from..(to - 1)
  BY <1>4, <1>5
<1> QED
  BY <1>5, <1>6 DEF e, n

(* The days at the first positions are as many as the positions.           *)
LEMMA FirstDays ==
  ASSUME NEW d, Tables(d), Distinct(d),
         \A x \in DOMAIN d.days : d.days[x].pos \in 0..(Cardinality(DOMAIN d.days) - 1),
         NEW n \in Nat, n <= Cardinality(DOMAIN d.days)
  PROVE  Cardinality(DOMAIN d.days \ TailOf(d, n)) = n
<1> DEFINE D == DOMAIN d.days
           c == Cardinality(D)
           T == 0..(c - 1)
           f == [x \in D |-> d.days[x].pos]
           K == D \ TailOf(d, n)
           g == [x \in K |-> d.days[x].pos]
           U == 0..(n - 1)
<1>1. IsFiniteSet(D) /\ c \in Nat
  BY FS_CardinalityType DEF Tables, IsTable
<1>2. IsFiniteSet(T) /\ Cardinality(T) = c /\ IsFiniteSet(U) /\ Cardinality(U) = n
  <2>1. \A m \in Nat : IsFiniteSet(0..(m - 1)) /\ Cardinality(0..(m - 1)) = m
    <3>1. ASSUME NEW m \in Nat PROVE IsFiniteSet(0..(m - 1)) /\ Cardinality(0..(m - 1)) = m
      <4>1. 0 \in Int /\ m - 1 \in Int /\ m = IF 0 > m - 1 THEN 0 ELSE (m - 1) - 0 + 1
        OBVIOUS
      <4>2. IsFiniteSet(0..(m - 1)) /\ Cardinality(0..(m - 1)) = IF 0 > m - 1 THEN 0 ELSE (m - 1) - 0 + 1
        BY <4>1, FS_Interval
      <4> QED BY <4>1, <4>2
    <3> QED BY <3>1
  <2> HIDE DEF c
  <2> QED BY <1>1, <2>1
<1>3. f \in Injection(D, T)
  <2>1. f \in [D -> T]
    OBVIOUS
  <2>2. \A x, y \in D : f[x] = f[y] => x = y
    BY DEF Distinct
  <2> HIDE DEF f, T, D
  <2> QED BY <2>1, <2>2 DEF Injection, IsInjective
<1>4. f \in Surjection(D, T)
  <2> HIDE DEF f, T, D
  <2> QED BY <1>1, <1>2, <1>3, FS_Injection DEF c
<1>5. \A x \in D : x \in K <=> d.days[x].pos < n
  <2>1. \A x \in D : d.days[x].pos \in Int
    BY <1>1
  <2> QED BY <2>1 DEF TailOf
<1>6. \A p \in U : \E x \in K : g[x] = p
  <2>1. ASSUME NEW p \in U PROVE \E x \in K : g[x] = p
    <3>1. p \in T
      BY <1>1
    <3>2. PICK x \in D : f[x] = p
      <4> HIDE DEF f, T, D
      <4> QED BY <1>4, <3>1 DEF Surjection
    <3>3. x \in K
      BY <1>5, <3>2
    <3> QED BY <3>2, <3>3
  <2> QED BY <2>1
<1>7. g \in [K -> U]
  BY <1>1, <1>5
<1>8. g \in Surjection(K, U)
  <2> HIDE DEF g, K, U
  <2> QED BY <1>6, <1>7 DEF Surjection
<1>9. g \in Injection(K, U)
  <2>1. \A x, y \in K : g[x] = g[y] => x = y
    BY DEF Distinct
  <2> HIDE DEF g, K, U
  <2> QED BY <1>7, <2>1 DEF Injection, IsInjective
<1>10. IsFiniteSet(K)
  BY <1>1, FS_Subset
<1>11. Cardinality(U) = Cardinality(K)
  <2> HIDE DEF g, K, U
  <2> QED BY <1>8, <1>9, <1>10, FS_Surjection
<1> QED
  BY <1>2, <1>11

(* The places that may go with a period shortened to so many days.         *)
Lost(d, length, confirm) == IF d.kind = "plan" \/ ~confirm \/ countDays(d) <= length THEN {} ELSE DOMAIN d.items

LEMMA fitSpares ==
  ASSUME NEW d, Tables(d), NEW length \in Nat, length > 0, d.end = d.start + length - 1, NEW confirm,
         \A x \in DOMAIN d.days : d.days[x].pos \in Nat,
         countDays(d) <= length => \A x \in DOMAIN d.days : d.days[x].pos < length,
         countDays(d) > length => Distinct(d) /\ \A x \in DOMAIN d.days : d.days[x].pos < countDays(d),
         fitDocuments(d, length, confirm) # Refused
  PROVE  LET e == fitDocuments(d, length, confirm)
         IN Spares(d, e, Lost(d, length, confirm)) /\ Fitting(e) /\ e.start = d.start /\ e.end = d.end
<1> DEFINE e == fitDocuments(d, length, confirm)
           c == countDays(d)
           removed == {x \in DOMAIN d.days : d.days[x].pos >= length /\ HoldsContent(d, x)}
<1>1. /\ ~(removed # {} /\ ~confirm)
      /\ e = IF c < length THEN appendDays(d, c, length) ELSE IF c > length THEN dropTailDays(d, length) ELSE d
  BY DEF fitDocuments
<1>2. c = Cardinality(DOMAIN d.days) /\ c \in Nat
  BY FS_CardinalityType DEF countDays, Tables, IsTable
<1>3. d.start \in Int /\ d.end - d.start = length - 1 /\ d.start <= d.end
  BY DEF Tables
<1> HIDE DEF e, c
<1>4. CASE c < length
  <2>1. e = appendDays(d, c, length)
    BY <1>1, <1>4
  <2>2. /\ Spares(d, e, {}) /\ e.start = d.start /\ e.end = d.end
        /\ Cardinality(DOMAIN e.days) = Cardinality(DOMAIN d.days) + (length - c)
        /\ \A x \in DOMAIN e.days : (x \in DOMAIN d.days /\ e.days[x] = d.days[x]) \/ e.days[x].pos \in c..(length - 1)
    BY <1>2, <1>4, <2>1, appendSpares
  <2>3. Cardinality(DOMAIN e.days) = e.end - e.start + 1
    BY <1>2, <1>3, <1>4, <2>2
  <2>4. ASSUME NEW x \in DOMAIN e.days PROVE e.days[x].pos \in 0..(length - 1)
    <3>1. CASE x \in DOMAIN d.days /\ e.days[x] = d.days[x]
      BY <1>2, <1>4, <3>1 DEF c
    <3>2. CASE e.days[x].pos \in c..(length - 1)
      BY <1>2, <3>2
    <3> QED BY <2>2, <3>1, <3>2
  <2>5. Fitting(e)
    BY <1>3, <2>2, <2>3, <2>4 DEF Fitting
  <2>6. Lost(d, length, confirm) = {}
    BY <1>2, <1>4 DEF Lost, c
  <2> QED BY <2>2, <2>5, <2>6 DEF e
<1>5. CASE c = length
  <2>1. e = d
    BY <1>1, <1>2, <1>5
  <2>2. Fitting(d)
    BY <1>2, <1>3, <1>5 DEF Fitting, c
  <2>3. Lost(d, length, confirm) = {}
    BY <1>2, <1>5 DEF Lost, c
  <2> QED BY <2>1, <2>2, <2>3, SparesItself DEF e
<1>6. CASE c > length
  <2>1. e = dropTailDays(d, length)
    BY <1>1, <1>2, <1>6
  <2>2. /\ Spares(d, e, LostWithTail(d, length))
        /\ e.start = d.start /\ e.end = d.end
        /\ DOMAIN e.days = DOMAIN d.days \ TailOf(d, length)
        /\ \A x \in DOMAIN e.days : e.days[x] = d.days[x]
    <3> DEFINE g == dropTailDays(d, length)
    <3>1. /\ Spares(d, g, LostWithTail(d, length))
          /\ g.start = d.start /\ g.end = d.end
          /\ DOMAIN g.days = DOMAIN d.days \ TailOf(d, length)
          /\ \A x \in DOMAIN g.days : g.days[x] = d.days[x]
      BY ONLY dropTailSpares, Tables(d)
    <3> QED BY <2>1, <3>1
  <2>3. Cardinality(DOMAIN e.days) = length
    <3>1. Distinct(d) /\ length <= Cardinality(DOMAIN d.days)
      BY <1>2, <1>6 DEF c
    <3>2. \A x \in DOMAIN d.days : d.days[x].pos \in 0..(Cardinality(DOMAIN d.days) - 1)
      BY <1>2, <1>6 DEF c
    <3> QED BY <2>2, <3>1, <3>2, FirstDays
  <2>4. ASSUME NEW x \in DOMAIN e.days PROVE e.days[x].pos \in 0..(length - 1)
    <3>1. x \in DOMAIN d.days /\ e.days[x] = d.days[x] /\ ~(d.days[x].pos >= length)
      BY <2>2 DEF TailOf
    <3> QED BY <3>1
  <2>5. Fitting(e)
    BY <1>3, <2>2, <2>3, <2>4 DEF Fitting
  <2>6. ~confirm => \A i \in DOMAIN d.items : d.items[i].slot = "place" => d.items[i].day \notin TailOf(d, length)
    BY <1>1 DEF TailOf, HoldsContent
  <2>7. Spares(d, e, Lost(d, length, confirm))
    <3>0. ~(countDays(d) <= length)
      BY <1>2, <1>6 DEF c
    <3>1. CASE d.kind = "plan"
      BY <2>2, <3>1 DEF Lost, LostWithTail
    <3>2. CASE d.kind # "plan" /\ ~confirm
      BY <2>2, <2>6, <3>2 DEF Lost, LostWithTail, Spares, IsPlace
    <3>3. CASE d.kind # "plan" /\ confirm
      BY <2>2, <3>0, <3>3 DEF Lost, LostWithTail, Spares, IsPlace
    <3> QED BY <3>1, <3>2, <3>3
  <2> QED BY <2>2, <2>5, <2>7 DEF e
<1> QED
  BY <1>2, <1>4, <1>5, <1>6


(* A document as it is between two requests, and what an answered request leaves. *)
Whole(d) == Tables(d) /\ DaysFill(d) /\ Distinct(d) /\ MarksMatchNights(d)

Keeps(d, e, gone) == Spares(d, e, gone) /\ DaysFill(e) /\ MarksMatchNights(e)

LEMMA SparesThen ==
  ASSUME NEW d, NEW e, NEW f, NEW gone, Spares(d, e, {}), Spares(e, f, gone)
  PROVE  Spares(d, f, gone)
BY DEF Spares

LEMMA WholeDays ==
  ASSUME NEW d, Tables(d), DaysFill(d)
  PROVE  /\ countDays(d) = Cardinality(DOMAIN d.days) /\ countDays(d) \in Nat /\ countDays(d) > 0
         /\ countDays(d) = d.end - d.start + 1 /\ d.start \in Int /\ d.end \in Int
         /\ \A x \in DOMAIN d.days : IsDay(d.days[x]) /\ d.days[x].pos \in Nat /\ d.days[x].pos < countDays(d)
<1>1. countDays(d) = Cardinality(DOMAIN d.days) /\ countDays(d) \in Nat
  BY FS_CardinalityType DEF countDays, Tables, IsTable
<1>2. d.start \in Int /\ d.end \in Int /\ d.start <= d.end /\ Cardinality(DOMAIN d.days) = d.end - d.start + 1
  BY DEF Tables, DaysFill
<1>3. \A x \in DOMAIN d.days : IsDay(d.days[x]) /\ d.days[x].pos \in 0..(d.end - d.start)
  BY DEF Tables, DaysFill
<1> QED
  BY <1>1, <1>2, <1>3

LEMMA resizeSpares ==
  ASSUME NEW d, Tables(d), NEW length \in Nat, length > 0, NEW confirm,
         \A x \in DOMAIN d.days : d.days[x].pos \in Nat,
         countDays(d) <= length => \A x \in DOMAIN d.days : d.days[x].pos < length,
         countDays(d) > length => Distinct(d) /\ \A x \in DOMAIN d.days : d.days[x].pos < countDays(d),
         resizeTrip(d, length, confirm) # Refused
  PROVE  LET e == resizeTrip(d, length, confirm)
         IN Spares(d, e, Lost(d, length, confirm)) /\ Fitting(e)
<1> DEFINE f == [d EXCEPT !.end = d.start + length - 1]
           e == resizeTrip(d, length, confirm)
<1>1. d.start \in Int /\ d.start # None
  BY ItineraryAssumption DEF Tables
<1>2. e = fitDocuments(f, length, confirm)
  BY <1>1 DEF resizeTrip
<1>3. /\ DOMAIN f = DOMAIN d /\ \A g \in DOMAIN d \ {"days", "end", "next"} : f[g] = d[g]
      /\ f.end = d.start + length - 1 /\ f.days = d.days /\ f.next = d.next + 0 /\ f.kind = d.kind
  BY DEF Tables
<1> HIDE DEF f, e
<1>4. f.end \in Int /\ 0 \in Nat /\ IsTable(f.days, d.next + 0) /\ \A x \in DOMAIN f.days : IsDay(f.days[x])
  BY <1>1, <1>3 DEF Tables
<1>5. Spares(d, f, {}) /\ f.start = d.start /\ f.items = d.items
  BY <1>3, <1>4, DaysRewritten
<1>6. Tables(f) /\ f.end = f.start + length - 1
  BY <1>3, <1>5 DEF Spares
<1>7. countDays(f) = countDays(d) /\ (Distinct(d) => Distinct(f)) /\ Lost(f, length, confirm) = Lost(d, length, confirm)
  BY <1>3, <1>5 DEF countDays, Distinct, Lost
<1>8. fitDocuments(f, length, confirm) # Refused
  BY <1>2 DEF e
<1>9. /\ \A x \in DOMAIN f.days : f.days[x].pos \in Nat
      /\ countDays(f) <= length => \A x \in DOMAIN f.days : f.days[x].pos < length
      /\ countDays(f) > length => Distinct(f) /\ \A x \in DOMAIN f.days : f.days[x].pos < countDays(f)
  BY <1>3, <1>7
<1>10. LET h == fitDocuments(f, length, confirm) IN Spares(f, h, Lost(f, length, confirm)) /\ Fitting(h)
  BY <1>6, <1>8, <1>9, fitSpares
<1>11. Spares(f, e, Lost(d, length, confirm)) /\ Fitting(e)
  BY <1>2, <1>7, <1>10
<1> QED
  BY <1>5, <1>11, SparesThen DEF e

LEMMA insertSpares ==
  ASSUME NEW d, Tables(d), DaysFill(d), NEW row, IsDay(row), NEW pos
  PROVE  LET e == insertDayAt(d, row, pos)
         IN /\ Spares(d, e, {}) /\ e.next = d.next + 1 /\ e.items = d.items
            /\ countDays(e) = countDays(d) + 1
            /\ \A x \in DOMAIN e.days : e.days[x].pos \in 0..countDays(d)
<1> DEFINE c == countDays(d)
           slot == IF pos # None /\ pos \in 0..(c - 1) THEN pos ELSE c
           days == [x \in DOMAIN d.days |->
                      IF d.days[x].pos >= slot THEN [d.days[x] EXCEPT !.pos = @ + 1] ELSE d.days[x]]
           f == [d EXCEPT !.days = days]
           new == [row EXCEPT !.pos = slot, !.date = None]
           rows == <<new>>
           e == insertDayAt(d, row, pos)
<1>1. e = Insert(f, "days", rows)
  BY DEF insertDayAt
<1>2. c \in Nat /\ \A x \in DOMAIN d.days : IsDay(d.days[x]) /\ d.days[x].pos \in 0..(c - 1)
  BY WholeDays
<1> HIDE DEF c
<1>3. slot \in 0..c
  BY <1>2
<1> HIDE DEF slot
<1>4. ASSUME NEW x \in DOMAIN days PROVE IsDay(days[x]) /\ days[x].pos \in 0..c
  <2>1. IsDay(d.days[x]) /\ d.days[x].pos \in 0..(c - 1)
    BY <1>2
  <2>2. CASE d.days[x].pos >= slot
    <3>1. d.days[x].pos + 1 \in 0..c
      BY <1>2, <2>1
    <3> DEFINE p == d.days[x].pos + 1
    <3>2. days[x] = [d.days[x] EXCEPT !.pos = p]
      BY <2>2
    <3>3. p \in 0..c /\ p \in Int
      BY <1>2, <3>1
    <3> HIDE DEF p, days
    <3> QED BY <2>1, <3>2, <3>3 DEF IsDay
  <2>3. CASE ~(d.days[x].pos >= slot)
    <3>1. days[x] = d.days[x]
      BY <2>3
    <3> QED BY <1>2, <2>1, <3>1
  <2> QED BY <2>2, <2>3
<1>5. DOMAIN days = DOMAIN d.days
  OBVIOUS
<1>6. IsDay(new) /\ new.pos \in 0..c
  BY <1>2, <1>3 DEF IsDay, IsDate
<1> HIDE DEF days, new
<1>7. Len(rows) = 1 /\ Len(rows) \in Nat /\ \A k \in 1..Len(rows) : IsDay(rows[k]) /\ rows[k].pos \in 0..c
  BY <1>6
<1>8. /\ Spares(d, f, {}) /\ f.next = d.next /\ f.items = d.items /\ f.days = days
  BY <1>4, <1>5, DaysOver
<1> HIDE DEF f, rows, e
<1>9. Tables(f)
  BY <1>8 DEF Spares
<1>10. LET g == Insert(f, "days", rows)
       IN /\ Spares(f, g, {}) /\ g.next = f.next + Len(rows)
          /\ g.items = f.items
          /\ DOMAIN g.days = DOMAIN f.days \cup New(f, Len(rows))
          /\ \A x \in DOMAIN f.days : g.days[x] = f.days[x]
          /\ \A x \in New(f, Len(rows)) : x - f.next + 1 \in 1..Len(rows) /\ g.days[x] = rows[x - f.next + 1]
          /\ Cardinality(DOMAIN g.days) = Cardinality(DOMAIN f.days) + Len(rows)
  BY <1>7, <1>9, DaysInserted
<1>11. /\ Spares(f, e, {}) /\ e.next = d.next + 1 /\ e.items = d.items
       /\ Cardinality(DOMAIN e.days) = Cardinality(DOMAIN d.days) + 1
  BY <1>1, <1>5, <1>7, <1>8, <1>10
<1>12. \A x \in DOMAIN e.days : e.days[x].pos \in 0..c
  BY <1>1, <1>4, <1>7, <1>8, <1>10
<1>13. Spares(d, e, {})
  BY <1>8, <1>11, SparesThen
<1> QED
  BY <1>11, <1>12, <1>13 DEF c, e, countDays

(* A day more: the period grows with it.                                   *)
LEMMA Grown ==
  ASSUME NEW d, Tables(d), DaysFill(d), NEW added, Spares(d, added, {}),
         countDays(added) = countDays(d) + 1,
         \A x \in DOMAIN added.days : added.days[x].pos \in 0..countDays(d),
         resizeTrip(added, countDays(d) + 1, TRUE) # Refused
  PROVE  Keeps(d, syncTrip(layoutDates(resizeTrip(added, countDays(d) + 1, TRUE))), {})
<1> DEFINE length == countDays(d) + 1
           f == resizeTrip(added, length, TRUE)
<1>1. f # Refused
  OBVIOUS
<1>2. length \in Nat /\ length > 0 /\ countDays(added) = length
  BY WholeDays
<1>3. \A x \in DOMAIN added.days : added.days[x].pos \in Nat /\ added.days[x].pos < length
  BY WholeDays
<1> HIDE DEF length
<1>4. Tables(added)
  BY DEF Spares
<1>5. Spares(added, f, Lost(added, length, TRUE)) /\ Fitting(f)
  <2>1. ~(countDays(added) > length)
    BY <1>2
  <2>2. resizeTrip(added, length, TRUE) # Refused
    BY <1>1
  <2>3. /\ \A x \in DOMAIN added.days : added.days[x].pos \in Nat
        /\ countDays(added) <= length => \A x \in DOMAIN added.days : added.days[x].pos < length
        /\ countDays(added) > length => Distinct(added) /\ \A x \in DOMAIN added.days : added.days[x].pos < countDays(added)
    BY <1>3, <2>1
  <2>4. LET g == resizeTrip(added, length, TRUE) IN Spares(added, g, Lost(added, length, TRUE)) /\ Fitting(g)
    BY ONLY <1>2, <1>4, <2>2, <2>3, resizeSpares
  <2> QED BY <2>4
<1>6. Lost(added, length, TRUE) = {}
  BY <1>2 DEF Lost
<1> HIDE DEF f
<1>7. Spares(d, f, {})
  BY <1>5, <1>6, SparesThen
<1>8. LET h == syncTrip(layoutDates(f)) IN Spares(d, h, {}) /\ DaysFill(h) /\ MarksMatchNights(h)
  BY <1>5, <1>7, LaidOut
<1> QED
  BY <1>8 DEF Keeps, f, length

LEMMA PlacesInserted ==
  ASSUME NEW d, Tables(d), NEW rows, Len(rows) \in Nat,
         \A k \in 1..Len(rows) : IsItem(rows[k]) /\ rows[k].slot = "place"
  PROVE  LET e == Insert(d, "items", rows) IN Spares(d, e, {}) /\ SameDays(d, e)
<1> DEFINE n == Len(rows)
           e == Insert(d, "items", rows)
<1>1. /\ DOMAIN e = DOMAIN d /\ e.next = d.next + n
      /\ \A f \in DOMAIN d \ {"items", "next"} : e[f] = d[f]
      /\ DOMAIN e.items = DOMAIN d.items \cup New(d, n)
      /\ \A i \in DOMAIN d.items : e.items[i] = d.items[i]
      /\ \A i \in New(d, n) : i - d.next + 1 \in 1..n /\ e.items[i] = rows[i - d.next + 1]
  <2>1. HasRows(d, "items", rows, e)
    BY Inserted
  <2> QED BY <2>1 DEF HasRows
<1>2. n \in Nat /\ \A k \in 1..n : IsItem(rows[k]) /\ rows[k].slot = "place"
  OBVIOUS
<1> HIDE DEF e, n
<1>3. \A i \in New(d, n) : IsItem(e.items[i]) /\ e.items[i].slot = "place"
  BY <1>1, <1>2
<1>4. Spares(d, e, {}) /\ SameDays(d, e)
  BY <1>1, <1>2, <1>3, ItemsAdded
<1> QED
  BY <1>4 DEF e

LEMMA AddDayKeeps ==
  ASSUME NEW d, Tables(d), DaysFill(d), NEW mode, NEW pos, AddDay(d, mode, pos) # Refused
  PROVE  Keeps(d, AddDay(d, mode, pos), {})
<1> DEFINE row == [NewDay(0) EXCEPT !.mode = mode]
           added == insertDayAt(d, row, pos)
           r == resizeTrip(added, countDays(d) + 1, TRUE)
           e == syncTrip(layoutDates(r))
<1>1. AddDay(d, mode, pos) = IF r = Refused THEN Refused ELSE e
  BY DEF AddDay, Then
<1>2. IsDay(row)
  BY DEF NewDay, IsDay, IsDate
<1> HIDE DEF row
<1>3. /\ Spares(d, added, {}) /\ countDays(added) = countDays(d) + 1
      /\ \A x \in DOMAIN added.days : added.days[x].pos \in 0..countDays(d)
  BY <1>2, insertSpares
<1> HIDE DEF added
<1>4. r # Refused => Keeps(d, e, {})
  BY <1>3, Grown
<1> QED
  BY <1>1, <1>4

LEMMA DuplicateDayKeeps ==
  ASSUME NEW d, Tables(d), DaysFill(d), NEW x, NEW source, IsDay(source), DuplicateDay(d, x, source) # Refused
  PROVE  Keeps(d, DuplicateDay(d, x, source), {})
<1> DEFINE S == Places(d, x)
           places == ByPosition(d, S)
           Copy(i) == [d.items[i] EXCEPT !.day = d.next, !.time = None, !.text = FALSE, !.track = None]
           rows == [k \in DOMAIN places |-> Copy(places[k])]
           n == Len(rows)
           added == insertDayAt(d, source, source.pos + 1)
           copied == Insert(added, "items", rows)
           r == resizeTrip(copied, countDays(d) + 1, TRUE)
           e == syncTrip(layoutDates(r))
<1>1. DuplicateDay(d, x, source) = IF r = Refused THEN Refused ELSE e
  BY DEF DuplicateDay, Then
<1>2. /\ Spares(d, added, {}) /\ added.next = d.next + 1 /\ added.items = d.items
      /\ countDays(added) = countDays(d) + 1
      /\ \A y \in DOMAIN added.days : added.days[y].pos \in 0..countDays(d)
  BY insertSpares
<1> HIDE DEF added
<1>3. S \in SUBSET DOMAIN d.items /\ \A i \in S : d.items[i].slot = "place"
  BY DEF Places
<1>4. places \in Seq(S)
  BY <1>3, PlacesSequence
<1> HIDE DEF S, places
<1>5. n \in Nat /\ \A k \in 1..n : IsItem(rows[k]) /\ rows[k].slot = "place"
  <2> HIDE DEF Copy
  <2>1. DOMAIN places = 1..Len(places) /\ Len(places) \in Nat
    BY <1>4
  <2> DEFINE m == Len(places)
  <2> HIDE DEF m
  <2>2. m \in Nat /\ rows = [k \in 1..m |-> Copy(places[k])]
    BY <2>1 DEF m
  <2>3. n = m
    <3> HIDE DEF rows
    <3> QED BY <2>2
  <2>4. ASSUME NEW k \in 1..n PROVE IsItem(rows[k]) /\ rows[k].slot = "place"
    <3>1. places[k] \in S /\ rows[k] = Copy(places[k])
      BY <1>4, <2>2, <2>3 DEF m
    <3>2. IsItem(d.items[places[k]]) /\ d.items[places[k]].slot = "place"
      <4> HIDE DEF rows
      <4> QED BY <1>3, <3>1 DEF Tables
    <3> HIDE DEF rows
    <3> USE DEF Copy
    <3> QED BY <3>1, <3>2 DEF IsItem, IsDate
  <2> HIDE DEF rows
  <2> QED BY <2>2, <2>3, <2>4
<1> HIDE DEF rows, n
<1>6. Spares(added, copied, {}) /\ SameDays(added, copied)
  <2>1. Tables(added) /\ Len(rows) \in Nat
    BY <1>2, <1>5 DEF Spares, n
  <2>2. \A k \in 1..Len(rows) : IsItem(rows[k]) /\ rows[k].slot = "place"
    BY <1>5 DEF n
  <2> HIDE DEF copied
  <2> QED BY <2>1, <2>2, PlacesInserted DEF copied
<1> HIDE DEF copied
<1>7. Spares(d, copied, {}) /\ countDays(copied) = countDays(d) + 1
      /\ \A y \in DOMAIN copied.days : copied.days[y].pos \in 0..countDays(d)
  BY <1>2, <1>6, SparesThen DEF SameDays, countDays
<1>8. r # Refused => Keeps(d, e, {})
  BY <1>7, Grown
<1> QED
  BY <1>1, <1>8

LEMMA ReorderDaysKeeps ==
  ASSUME NEW d, Tables(d), DaysFill(d), NEW order, Len(order) \in Nat, DOMAIN order = 1..Len(order),
         ReorderDays(d, order) # Refused
  PROVE  Keeps(d, ReorderDays(d, order), {})
<1> DEFINE At1(x) == CHOOSE k \in DOMAIN order : order[k] = x
           days == [x \in DOMAIN d.days |-> [d.days[x] EXCEPT !.pos = At1(x) - 1]]
           f == [d EXCEPT !.days = days]
<1>1. /\ Range(order) = DOMAIN d.days /\ Len(order) = countDays(d)
      /\ ReorderDays(d, order) = syncTrip(layoutDates(f))
  BY DEF ReorderDays
<1>2. /\ Cardinality(DOMAIN d.days) = countDays(d) /\ countDays(d) = d.end - d.start + 1
      /\ d.start \in Int /\ d.end \in Int /\ countDays(d) \in Nat /\ d.start <= d.end
  BY WholeDays DEF DaysFill
<1>3. ASSUME NEW x \in DOMAIN d.days PROVE At1(x) \in 1..countDays(d)
  <2>1. \E k \in DOMAIN order : order[k] = x
    BY <1>1 DEF Range
  <2> QED BY <1>1, <2>1
<1> HIDE DEF At1
<1>4. ASSUME NEW x \in DOMAIN days PROVE IsDay(days[x]) /\ days[x].pos \in 0..(d.end - d.start)
  <2> DEFINE p == At1(x) - 1
  <2>1. p \in Int /\ p \in 0..(d.end - d.start)
    BY <1>2, <1>3
  <2>2. IsDay(d.days[x]) /\ days[x] = [d.days[x] EXCEPT !.pos = p]
    BY DEF Tables
  <2> HIDE DEF p, days
  <2> QED BY <2>1, <2>2 DEF IsDay
<1>5. DOMAIN days = DOMAIN d.days
  OBVIOUS
<1> HIDE DEF days, f
<1>6. /\ Spares(d, f, {}) /\ f.start = d.start /\ f.end = d.end /\ f.days = days
  BY <1>4, <1>5, DaysOver DEF f
<1>7. Fitting(f)
  BY <1>2, <1>4, <1>5, <1>6 DEF Fitting
<1>8. LET h == syncTrip(layoutDates(f)) IN Spares(d, h, {}) /\ DaysFill(h) /\ MarksMatchNights(h)
  BY <1>6, <1>7, LaidOut
<1> QED
  BY <1>1, <1>8 DEF Keeps

(* So many days have no positions of their own within a shorter period.    *)
LEMMA Crowded ==
  ASSUME NEW d, Tables(d), Distinct(d), NEW length \in Nat,
         \A x \in DOMAIN d.days : d.days[x].pos \in Nat /\ d.days[x].pos < length
  PROVE  countDays(d) <= length
<1> DEFINE D == DOMAIN d.days
           T == 0..(length - 1)
           f == [x \in D |-> d.days[x].pos]
<1>1. IsFiniteSet(D) /\ Cardinality(D) \in Nat
  BY FS_CardinalityType DEF Tables, IsTable
<1>2. IsFiniteSet(T) /\ Cardinality(T) = length
  <2>1. IsFiniteSet(T) /\ Cardinality(T) = IF 0 > length - 1 THEN 0 ELSE (length - 1) - 0 + 1
    BY FS_Interval
  <2> QED BY <2>1
<1>3. f \in [D -> T]
  OBVIOUS
<1>4. \A x, y \in D : f[x] = f[y] => x = y
  BY DEF Distinct
<1> HIDE DEF f, T, D
<1>5. ~(Cardinality(T) < Cardinality(D))
  BY <1>1, <1>2, <1>3, <1>4, FS_PigeonHole
<1> QED
  BY <1>1, <1>2, <1>5 DEF countDays, D

LEMMA TooMany ==
  ASSUME NEW d, Tables(d), NEW length \in Nat, length > 0, NEW confirm, countDays(d) > length,
         \A x \in DOMAIN d.days : d.days[x].pos \in Nat /\ d.days[x].pos < length,
         resizeTrip(d, length, confirm) # Refused
  PROVE  ~Distinct(syncTrip(layoutDates(resizeTrip(d, length, confirm))))
<1> DEFINE f == [d EXCEPT !.end = d.start + length - 1]
           r == resizeTrip(d, length, confirm)
           g == layoutDates(r)
           e == syncTrip(g)
<1>1. d.start \in Int /\ d.start # None
  BY ItineraryAssumption DEF Tables
<1>2. r = fitDocuments(f, length, confirm)
  BY <1>1 DEF resizeTrip
<1>3. /\ DOMAIN f = DOMAIN d /\ \A h \in DOMAIN d \ {"days", "end", "next"} : f[h] = d[h]
      /\ f.end = d.start + length - 1 /\ f.days = d.days /\ f.next = d.next + 0
  BY DEF Tables
<1>4. r # Refused
  OBVIOUS
<1> HIDE DEF f, r, g, e
<1>5. f.end \in Int /\ 0 \in Nat /\ IsTable(f.days, d.next + 0) /\ \A x \in DOMAIN f.days : IsDay(f.days[x])
  BY <1>1, <1>3 DEF Tables
<1>6. Spares(d, f, {})
  BY <1>3, <1>5, DaysRewritten
<1>7. Tables(f)
  BY <1>6 DEF Spares
<1>8. countDays(f) > length /\ countDays(d) \in Nat
  BY <1>3, FS_CardinalityType DEF countDays, Tables, IsTable
<1>9. r = dropTailDays(f, length)
  BY <1>2, <1>4, <1>3, <1>8 DEF fitDocuments, countDays
<1>10. Tables(r) /\ DOMAIN r.days = DOMAIN d.days /\ \A x \in DOMAIN r.days : r.days[x] = d.days[x]
  <2> DEFINE h == dropTailDays(f, length)
  <2>1. /\ Spares(f, h, LostWithTail(f, length))
        /\ DOMAIN h.days = DOMAIN f.days \ TailOf(f, length)
        /\ \A x \in DOMAIN h.days : h.days[x] = f.days[x]
    BY ONLY dropTailSpares, <1>7
  <2>2. TailOf(f, length) = {}
    BY <1>3 DEF TailOf
  <2> HIDE DEF h
  <2> QED BY <1>3, <1>9, <2>1, <2>2 DEF Spares, h
<1>11. Tables(g) /\ DOMAIN g.days = DOMAIN d.days /\ \A x \in DOMAIN g.days : g.days[x].pos = d.days[x].pos
  <2>1. /\ Spares(r, g, {}) /\ DOMAIN g.days = DOMAIN r.days
        /\ \A x \in DOMAIN r.days : g.days[x].pos = r.days[x].pos
    BY <1>10, layoutSpares DEF g
  <2> QED BY <1>10, <2>1 DEF Spares
<1>12. Tables(e) /\ e.days = g.days
  <2>1. Spares(g, e, {}) /\ SameDays(g, e)
    BY <1>11, syncTripSpares DEF e
  <2> QED BY <2>1 DEF Spares, SameDays
<1>13. ~Distinct(e)
  <2>1. SUFFICES ASSUME Distinct(e) PROVE FALSE
    OBVIOUS
  <2>2. \A x \in DOMAIN e.days : e.days[x].pos \in Nat /\ e.days[x].pos < length
    BY <1>11, <1>12
  <2>3. countDays(e) <= length
    BY <1>12, <2>1, <2>2, Crowded
  <2>4. countDays(e) = countDays(d)
    BY <1>11, <1>12 DEF countDays
  <2> QED BY <1>8, <2>3, <2>4
<1> QED
  BY <1>13 DEF e, g, r

(* The places of a report that may go.                                     *)
OfReport(d) == IF d.kind = "plan" THEN {} ELSE DOMAIN d.items

LEMMA DeleteDayKeeps ==
  ASSUME NEW d, Tables(d), DaysFill(d), NEW x, NEW pos \in Nat, NEW confirm,
         DeleteDay(d, x, pos, confirm) # Refused, Distinct(DeleteDay(d, x, pos, confirm))
  PROVE  Keeps(d, DeleteDay(d, x, pos, confirm), OfReport(d))
<1> DEFINE c == countDays(d)
           n == c - 1
           days == [y \in DOMAIN d.days |->
                      IF y = x THEN [d.days[y] EXCEPT !.pos = c - 1]
                      ELSE IF d.days[y].pos > pos THEN [d.days[y] EXCEPT !.pos = @ - 1] ELSE d.days[y]]
           moved == [d EXCEPT !.days = days]
           t == dropTailDays(moved, n)
           r == resizeTrip(t, n, confirm)
           e == syncTrip(layoutDates(r))
<1>1. c > 1 /\ r # Refused /\ DeleteDay(d, x, pos, confirm) = e
  <2>1. c \in Nat
    BY WholeDays
  <2>2. DeleteDay(d, x, pos, confirm) = IF c <= 1 THEN Refused ELSE IF r = Refused THEN Refused ELSE e
    BY DEF DeleteDay, Then
  <2> HIDE DEF c, e, r
  <2> QED BY <2>1, <2>2
<1>2. c \in Nat /\ n \in Nat /\ n > 0 /\ \A y \in DOMAIN d.days : IsDay(d.days[y]) /\ d.days[y].pos \in Nat
  BY <1>1, WholeDays
<1> HIDE DEF c
<1>3. ASSUME NEW y \in DOMAIN days PROVE IsDay(days[y]) /\ days[y].pos \in Nat
  <2>1. IsDay(d.days[y]) /\ d.days[y].pos \in Nat
    BY <1>2
  <2>2. ASSUME NEW p \in Nat, days[y] = [d.days[y] EXCEPT !.pos = p]
        PROVE  IsDay(days[y]) /\ days[y].pos \in Nat
    <3> HIDE DEF days
    <3> QED BY <2>1, <2>2 DEF IsDay
  <2>3. CASE y = x
    <3>1. c - 1 \in Nat /\ days[y] = [d.days[y] EXCEPT !.pos = c - 1]
      BY <1>2, <2>3
    <3> QED BY <2>2, <3>1
  <2>4. CASE y # x /\ d.days[y].pos > pos
    <3>1. d.days[y].pos - 1 \in Nat /\ days[y] = [d.days[y] EXCEPT !.pos = d.days[y].pos - 1]
      BY <2>1, <2>4
    <3> QED BY <2>2, <3>1
  <2>5. CASE y # x /\ ~(d.days[y].pos > pos)
    <3>1. days[y] = d.days[y]
      BY <2>5
    <3> QED BY <2>1, <3>1
  <2> QED BY <2>3, <2>4, <2>5
<1>4. DOMAIN days = DOMAIN d.days
  OBVIOUS
<1> HIDE DEF days
<1>5. Spares(d, moved, {}) /\ moved.days = days /\ moved.items = d.items
  BY <1>3, <1>4, DaysOver
<1> HIDE DEF moved, n
<1>6. Tables(moved) /\ moved.kind = d.kind
  BY <1>5 DEF Spares
<1>7. /\ Spares(moved, t, LostWithTail(moved, n))
      /\ DOMAIN t.days = DOMAIN moved.days \ TailOf(moved, n)
      /\ \A y \in DOMAIN t.days : t.days[y] = moved.days[y]
  BY ONLY dropTailSpares, <1>6
<1> HIDE DEF t
<1>8. Tables(t) /\ t.kind = d.kind /\ Spares(d, t, OfReport(d))
  <2>1. \A i : IsPlace(d, i) /\ i \notin OfReport(d) => IsPlace(t, i)
    BY <1>5, <1>6, <1>7 DEF Spares, LostWithTail, OfReport, IsPlace
  <2> QED BY <1>6, <1>7, <2>1 DEF Spares
<1>9. \A y \in DOMAIN t.days : t.days[y].pos \in Nat /\ t.days[y].pos < n
  <2>1. ASSUME NEW y \in DOMAIN t.days PROVE t.days[y].pos \in Nat /\ t.days[y].pos < n
    <3>1. y \in DOMAIN moved.days /\ t.days[y] = moved.days[y] /\ ~(moved.days[y].pos >= n)
      BY <1>7, <2>1 DEF TailOf
    <3> QED BY <1>2, <1>3, <1>5, <3>1
  <2> QED BY <2>1
<1>10. countDays(t) \in Nat
  BY <1>8, FS_CardinalityType DEF countDays, Tables, IsTable
<1>11. countDays(t) <= n
  <2>1. Distinct(e)
    BY <1>1
  <2>2. countDays(t) > n => ~Distinct(e)
    BY ONLY <1>1, <1>2, <1>8, <1>9, TooMany DEF e, r
  <2> QED BY <1>2, <1>10, <2>1, <2>2
<1>12. Spares(t, r, Lost(t, n, confirm)) /\ Fitting(r)
  <2>1. ~(countDays(t) > n)
    BY <1>2, <1>10, <1>11
  <2>2. /\ \A y \in DOMAIN t.days : t.days[y].pos \in Nat
        /\ countDays(t) <= n => \A y \in DOMAIN t.days : t.days[y].pos < n
        /\ countDays(t) > n => Distinct(t) /\ \A y \in DOMAIN t.days : t.days[y].pos < countDays(t)
    BY <1>9, <2>1
  <2>3. resizeTrip(t, n, confirm) # Refused
    BY <1>1
  <2>4. LET g == resizeTrip(t, n, confirm) IN Spares(t, g, Lost(t, n, confirm)) /\ Fitting(g)
    BY ONLY <1>2, <1>8, <2>2, <2>3, resizeSpares
  <2> QED BY <2>4
<1>13. Lost(t, n, confirm) = {}
  BY <1>11 DEF Lost
<1> HIDE DEF r
<1>14. Spares(d, r, OfReport(d))
  BY <1>8, <1>12, <1>13, SparesOn
<1>15. LET h == syncTrip(layoutDates(r)) IN Spares(d, h, OfReport(d)) /\ DaysFill(h) /\ MarksMatchNights(h)
  BY <1>12, <1>14, LaidOut
<1> QED
  BY <1>1, <1>15 DEF Keeps

(* A period and stays written over.                                        *)
LEMMA Reframed ==
  ASSUME NEW d, Tables(d), NEW f, DOMAIN f = DOMAIN d,
         \A g \in DOMAIN d \ {"start", "end", "stays"} : f[g] = d[g],
         f.start \in Int, f.end \in Int, IsTable(f.stays, d.next), \A s \in DOMAIN f.stays : IsStay(f.stays[s])
  PROVE  Spares(d, f, {}) /\ f.days = d.days /\ f.items = d.items
<1>1. f.days = d.days /\ f.items = d.items /\ f.legs = d.legs /\ f.next = d.next /\ f.kind = d.kind
  BY DEF Tables
<1>2. OneMark(f)
  BY <1>1 DEF OneMark, Tables
<1>3. Tables(f)
  BY <1>1, <1>2 DEF Tables
<1> QED
  BY <1>1, <1>3 DEF Spares, IsPlace

LEMMA KeepsMore ==
  ASSUME NEW d, NEW e, NEW gone, NEW more, Keeps(d, e, gone), gone \subseteq more
  PROVE  Keeps(d, e, more)
BY DEF Keeps, Spares

LEMMA UpdateTripKeeps ==
  ASSUME NEW d, Whole(d), NEW start \in Int, NEW end \in Int, start <= end, NEW confirm,
         UpdateTrip(d, start, end, confirm) # Refused
  PROVE  Keeps(d, UpdateTrip(d, start, end, confirm), IF confirm THEN OfReport(d) ELSE {})
<1> DEFINE gone == IF confirm THEN OfReport(d) ELSE {}
<1>1. CASE d.start = start /\ d.end = end
  <2>1. Keeps(d, d, {})
    BY SparesItself DEF Keeps, Whole
  <2>2. UpdateTrip(d, start, end, confirm) = d
    BY <1>1 DEF UpdateTrip
  <2> QED BY <2>1, <2>2, KeepsMore
<1>2. CASE ~(d.start = start /\ d.end = end)
  <2> DEFINE framed == [d EXCEPT !.start = start, !.end = end]
             shift == start - d.start
             f == shiftStays(framed, shift)
             length == end - start + 1
             r == fitDocuments(f, length, confirm)
             e == syncTrip(layoutDates(r))
  <2>1. d.start \in Int /\ d.start # None /\ start # None /\ end # None /\ Tables(d) /\ DaysFill(d) /\ Distinct(d)
    BY ItineraryAssumption DEF Whole, Tables
  <2>2. UpdateTrip(d, start, end, confirm) = reshapeTrip(framed, d.start, confirm)
    BY <1>2 DEF UpdateTrip
  <2>3. /\ framed.start = start /\ framed.end = end /\ framed.stays = d.stays
        /\ DOMAIN framed = DOMAIN d /\ \A g \in DOMAIN d \ {"start", "end"} : framed[g] = d[g]
    BY <2>1 DEF Tables
  <2> HIDE DEF framed
  <2>4. UpdateTrip(d, start, end, confirm) = IF r = Refused THEN Refused ELSE e
    <3>1. (IF None \in {d.start, framed.start} THEN 0 ELSE framed.start - d.start) = shift
      BY <2>1, <2>3
    <3>2. DayCount(framed.start, framed.end) = length /\ length # None
      BY <2>1, <2>3, ItineraryAssumption DEF DayCount
    <3> HIDE DEF length, shift, e
    <3> QED BY <2>2, <3>1, <3>2 DEF reshapeTrip, Then, e
  <2>5. r # Refused /\ UpdateTrip(d, start, end, confirm) = e
    BY <2>4
  <2> HIDE DEF r, e
  <2>6. shift \in Int /\ length \in Nat /\ length > 0 /\ end = start + length - 1
    BY <2>1
  <2> HIDE DEF shift, length
  <2>7. /\ DOMAIN f = DOMAIN d /\ \A g \in DOMAIN d \ {"start", "end", "stays"} : f[g] = d[g]
        /\ f.start = start /\ f.end = end /\ DOMAIN f.stays = DOMAIN d.stays
        /\ \A s \in DOMAIN d.stays :
             f.stays[s] = [d.stays[s] EXCEPT !.in = d.stays[s].in + shift, !.out = d.stays[s].out + shift]
    BY <2>1, <2>3 DEF shiftStays, Tables
  <2> HIDE DEF f
  <2>8. \A s \in DOMAIN f.stays : IsStay(f.stays[s])
    <3>1. ASSUME NEW s \in DOMAIN d.stays PROVE IsStay(f.stays[s])
      <4>1. IsStay(d.stays[s])
        BY <2>1 DEF Tables
      <4>2. d.stays[s].in + shift \in Int /\ d.stays[s].out + shift \in Int
        BY <2>6, <4>1 DEF IsStay
      <4> QED BY <2>7, <4>1, <4>2 DEF IsStay
    <3> QED BY <2>7, <3>1
  <2>9. Spares(d, f, {}) /\ f.days = d.days /\ f.items = d.items
    <3>1. IsTable(f.stays, d.next)
      BY <2>1, <2>7 DEF Tables, IsTable
    <3> QED BY <2>1, <2>7, <2>8, <3>1, Reframed
  <2>10. Tables(f) /\ f.kind = d.kind
    BY <2>9 DEF Spares
  <2>11. /\ countDays(f) \in Nat /\ Distinct(f)
         /\ \A x \in DOMAIN f.days : f.days[x].pos \in Nat /\ f.days[x].pos < countDays(f)
    <3>1. countDays(f) = countDays(d)
      BY <2>9 DEF countDays
    <3> QED BY <2>1, <2>9, <3>1, WholeDays DEF Distinct
  <2>12. Spares(f, r, Lost(f, length, confirm)) /\ Fitting(r)
    <3>1. f.end = f.start + length - 1
      BY <2>6, <2>7
    <3>2. /\ \A x \in DOMAIN f.days : f.days[x].pos \in Nat
          /\ countDays(f) <= length => \A x \in DOMAIN f.days : f.days[x].pos < length
          /\ countDays(f) > length => Distinct(f) /\ \A x \in DOMAIN f.days : f.days[x].pos < countDays(f)
      BY <2>6, <2>11
    <3>3. fitDocuments(f, length, confirm) # Refused
      BY <2>5 DEF r
    <3>4. LET g == fitDocuments(f, length, confirm) IN Spares(f, g, Lost(f, length, confirm)) /\ Fitting(g)
      BY ONLY <2>6, <2>10, <3>1, <3>2, <3>3, fitSpares
    <3> QED BY <3>4 DEF r
  <2>13. Spares(d, r, gone)
    <3>1. Spares(d, r, Lost(f, length, confirm))
      BY <2>9, <2>12, SparesThen
    <3>2. Lost(f, length, confirm) \subseteq gone
      BY <2>9, <2>10 DEF Lost, OfReport
    <3> QED BY <3>1, <3>2 DEF Spares
  <2> HIDE DEF gone
  <2>14. LET h == syncTrip(layoutDates(r)) IN Spares(d, h, gone) /\ DaysFill(h) /\ MarksMatchNights(h)
    BY <2>12, <2>13, LaidOut
  <2> QED BY <2>5, <2>14 DEF Keeps, e, gone
<1> QED
  BY <1>1, <1>2

(******************************** the places *****************************)

Alike(d, e) == Spares(d, e, {}) /\ SameDays(d, e)

LEMMA AlikeThen ==
  ASSUME NEW d, NEW e, NEW f, Alike(d, e), Spares(e, f, {}), SameDays(e, f)
  PROVE  Alike(d, f)
BY DEF Alike, Spares, SameDays

LEMMA AlikeKeeps ==
  ASSUME NEW d, DaysFill(d), NEW f, Alike(d, f)
  PROVE  Keeps(d, syncTrip(f), {})
<1>1. Spares(d, f, {}) /\ SameDays(d, f)
  BY DEF Alike
<1>2. LET e == syncTrip(f) IN Spares(d, e, {}) /\ DaysFill(e) /\ MarksMatchNights(e)
  BY <1>1, Synced
<1> QED
  BY <1>2 DEF Keeps

LEMMA insertPlaceAlike ==
  ASSUME NEW d, Tables(d), NEW row, IsItem(row), row.slot = "place", NEW day, NEW pos
  PROVE  Alike(d, insertPlace(d, row, day, pos))
<1> DEFINE o == openSlot(d, day, pos, None)
           s == Slot(d, day, pos, None)
           new == [row EXCEPT !.day = day, !.pos = s, !.track = None]
           rows == <<new>>
<1>1. insertPlace(d, row, day, pos) = Insert(o, "items", rows)
  BY DEF insertPlace
<1>2. s \in Int
  BY SlotIsNumber
<1>3. Spares(d, o, {}) /\ SameDays(d, o)
  BY openSpares
<1> HIDE DEF o, s
<1>4. IsItem(new) /\ new.slot = "place"
  BY <1>2 DEF IsItem
<1> HIDE DEF new
<1>5. Len(rows) \in Nat /\ \A k \in 1..Len(rows) : IsItem(rows[k]) /\ rows[k].slot = "place"
  BY <1>4
<1> HIDE DEF rows
<1>6. Tables(o)
  BY <1>3 DEF Spares
<1>7. LET e == Insert(o, "items", rows) IN Spares(o, e, {}) /\ SameDays(o, e)
  BY <1>5, <1>6, PlacesInserted
<1>8. Alike(d, o)
  BY <1>3 DEF Alike
<1> QED
  BY <1>1, <1>7, <1>8, AlikeThen

LEMMA CreatePlaceKeeps ==
  ASSUME NEW d, Tables(d), DaysFill(d), NEW row, IsItem(row), row.slot = "place", NEW day, NEW pos,
         CreatePlace(d, row, day, pos) # Refused
  PROVE  Keeps(d, CreatePlace(d, row, day, pos), {})
<1> DEFINE e == insertPlace(d, row, day, pos)
           f == orderByTime(e, day)
<1>1. CreatePlace(d, row, day, pos) = syncTrip(f)
  BY DEF CreatePlace
<1>2. Alike(d, e)
  BY insertPlaceAlike
<1> HIDE DEF e
<1>3. Spares(e, f, {}) /\ SameDays(e, f)
  BY <1>2, orderSpares DEF Alike, Spares
<1> HIDE DEF f
<1>4. Alike(d, f)
  BY <1>2, <1>3, AlikeThen
<1> QED
  BY <1>1, <1>4, AlikeKeeps

LEMMA CopyPlaceKeeps ==
  ASSUME NEW d, Tables(d), DaysFill(d), NEW source, IsItem(source), source.slot = "place", NEW day, NEW pos,
         CopyPlace(d, source, day, pos) # Refused
  PROVE  Keeps(d, CopyPlace(d, source, day, pos), {})
<1> DEFINE row == IF d.kind = "report" THEN WithoutVisit(source) ELSE source
           e == insertPlace(d, row, day, pos)
<1>1. CopyPlace(d, source, day, pos) = syncTrip(e)
  BY DEF CopyPlace
<1>2. IsItem(row) /\ row.slot = "place"
  BY DEF WithoutVisit, IsItem, IsDate
<1> HIDE DEF row
<1>3. Alike(d, e)
  BY <1>2, insertPlaceAlike
<1> HIDE DEF e
<1> QED
  BY <1>1, <1>3, AlikeKeeps

(* One item written over.                                                  *)
LEMMA ItemWritten ==
  ASSUME NEW d, Tables(d), NEW i \in DOMAIN d.items, NEW row, IsItem(row), row.slot = d.items[i].slot,
         row.slot # "place" => row.day = d.items[i].day
  PROVE  LET e == [d EXCEPT !.items[i] = row]
         IN /\ Alike(d, e) /\ e.stays = d.stays /\ DOMAIN e.items = DOMAIN d.items
            /\ e.items[i] = row /\ \A j \in DOMAIN d.items \ {i} : e.items[j] = d.items[j]
            /\ DOMAIN e = DOMAIN d /\ e.next = d.next
<1> DEFINE its == [d.items EXCEPT ![i] = row]
           e == [d EXCEPT !.items[i] = row]
<1>1. e = [d EXCEPT !.items = its]
  OBVIOUS
<1>2. ASSUME NEW j \in DOMAIN its
      PROVE  /\ IsItem(its[j]) /\ its[j].slot = d.items[j].slot
             /\ its[j].slot # "place" => its[j].day = d.items[j].day
  <2>1. CASE j = i
    <3>1. its[j] = row
      BY <2>1
    <3> HIDE DEF its
    <3> QED BY <2>1, <3>1
  <2>2. CASE j # i
    <3>1. its[j] = d.items[j] /\ j \in DOMAIN d.items
      BY <2>2
    <3> HIDE DEF its
    <3> QED BY <3>1 DEF Tables
  <2> QED BY <2>1, <2>2
<1>3. /\ DOMAIN its = DOMAIN d.items /\ its[i] = row /\ \A j \in DOMAIN d.items \ {i} : its[j] = d.items[j]
  OBVIOUS
<1> HIDE DEF its
<1>4. LET f == [d EXCEPT !.items = its] IN Spares(d, f, {}) /\ SameDays(d, f)
  BY <1>2, <1>3, ItemsRewritten
<1>5. e.items = its /\ e.stays = d.stays /\ DOMAIN e = DOMAIN d /\ e.next = d.next
  BY <1>1 DEF Tables
<1> HIDE DEF e
<1>6. Alike(d, e)
  BY <1>1, <1>4 DEF Alike
<1> QED
  BY <1>3, <1>5, <1>6 DEF e

LEMMA UpdatePlaceKeeps ==
  ASSUME NEW d, Tables(d), DaysFill(d), NEW i, NEW row, IsItem(row), row.slot = "place",
         UpdatePlace(d, i, row) # Refused
  PROVE  Keeps(d, UpdatePlace(d, i, row), {})
<1> DEFINE track == IF row.activity THEN d.items[i].track ELSE None
           new == [row EXCEPT !.day = d.items[i].day, !.pos = d.items[i].pos, !.track = track]
           e == [d EXCEPT !.items[i] = new]
           f == orderByTime(e, row.day)
<1>1. IsPlace(d, i) /\ UpdatePlace(d, i, row) = syncTrip(f)
  BY DEF UpdatePlace
<1>2. i \in DOMAIN d.items /\ d.items[i].slot = "place" /\ d.items[i].pos \in Int
  BY <1>1 DEF IsPlace, Tables, IsItem
<1> HIDE DEF track
<1>3. IsItem(new) /\ new.slot = "place"
  BY <1>2 DEF IsItem
<1> HIDE DEF new
<1>4. Alike(d, e)
  BY <1>2, <1>3, ItemWritten
<1> HIDE DEF e
<1>5. Spares(e, f, {}) /\ SameDays(e, f)
  BY <1>4, orderSpares DEF Alike, Spares
<1> HIDE DEF f
<1>6. Alike(d, f)
  BY <1>4, <1>5, AlikeThen
<1> QED
  BY <1>1, <1>6, AlikeKeeps

LEMMA DeletePlaceKeeps ==
  ASSUME NEW d, Tables(d), DaysFill(d), NEW i, NEW day, DeletePlace(d, i, day) # Refused
  PROVE  Keeps(d, DeletePlace(d, i, day), {i})
<1> DEFINE e == DropItems(d, {i})
           f == renumberPlaces(e, day)
<1>1. DeletePlace(d, i, day) = syncTrip(f)
  BY DEF DeletePlace
<1>2. /\ Tables(e) /\ SameDays(d, e) /\ e.kind = d.kind
      /\ DOMAIN e.items = DOMAIN d.items \ {i} /\ \A j \in DOMAIN e.items : e.items[j] = d.items[j]
  BY DropItemsLeaves
<1> HIDE DEF e
<1>3. Spares(d, e, {i})
  BY <1>2 DEF Spares, IsPlace
<1>4. Spares(e, f, {}) /\ SameDays(e, f)
  BY <1>2, renumberSpares
<1> HIDE DEF f
<1>5. Spares(d, f, {i}) /\ SameDays(d, f)
  BY <1>2, <1>3, <1>4, SparesOn DEF SameDays
<1>6. LET h == syncTrip(f) IN Spares(d, h, {i}) /\ DaysFill(h) /\ MarksMatchNights(h)
  BY <1>5, Synced
<1> QED
  BY <1>1, <1>6 DEF Keeps

LEMMA MovePlaceKeeps ==
  ASSUME NEW d, Tables(d), DaysFill(d), NEW i, NEW day, NEW pos, MovePlace(d, i, day, pos) # Refused
  PROVE  Keeps(d, MovePlace(d, i, day, pos), {})
<1> DEFINE o == openSlot(d, day, pos, i)
           s == Slot(d, day, pos, i)
           new == [o.items[i] EXCEPT !.day = day, !.pos = s]
           m == [o EXCEPT !.items[i] = new]
           r == renumberPlaces(m, d.items[i].day)
           f == renumberPlaces(r, day)
<1>1. IsPlace(d, i) /\ MovePlace(d, i, day, pos) = syncTrip(f)
  BY DEF MovePlace
<1>2. s \in Int
  BY SlotIsNumber
<1>3. Spares(d, o, {}) /\ SameDays(d, o)
  BY openSpares
<1> HIDE DEF o, s
<1>4. Tables(o) /\ i \in DOMAIN o.items /\ o.items[i].slot = "place"
  BY <1>1, <1>3 DEF Spares, IsPlace
<1>5. IsItem(new) /\ new.slot = "place"
  BY <1>2, <1>4 DEF Tables, IsItem
<1> HIDE DEF new
<1>6. Alike(o, m)
  BY <1>4, <1>5, ItemWritten
<1> HIDE DEF m
<1>7. Spares(m, r, {}) /\ SameDays(m, r)
  BY <1>6, renumberSpares DEF Alike, Spares
<1> HIDE DEF r
<1>8. Spares(r, f, {}) /\ SameDays(r, f)
  BY <1>7, renumberSpares DEF Spares
<1> HIDE DEF f
<1>9. Alike(d, f)
  BY <1>3, <1>6, <1>7, <1>8, AlikeThen DEF Alike
<1> QED
  BY <1>1, <1>9, AlikeKeeps

LEMMA SetNightStoryKeeps ==
  ASSUME NEW d, Whole(d), NEW i, SetNightStory(d, i) # Refused
  PROVE  Keeps(d, SetNightStory(d, i), {})
<1> DEFINE new == [d.items[i] EXCEPT !.text = TRUE]
           e == [d EXCEPT !.items[i] = new]
<1>1. i \in DOMAIN d.items /\ SetNightStory(d, i) = e
  BY DEF SetNightStory
<1>2. Tables(d) /\ DaysFill(d) /\ MarksMatchNights(d) /\ IsItem(d.items[i])
  BY <1>1 DEF Whole, Tables
<1>3. IsItem(new) /\ new.slot = d.items[i].slot /\ new.day = d.items[i].day /\ new.stay = d.items[i].stay
  BY <1>2 DEF IsItem
<1> HIDE DEF new
<1>4. /\ Alike(d, e) /\ e.stays = d.stays /\ DOMAIN e.items = DOMAIN d.items
      /\ e.items[i] = new /\ \A j \in DOMAIN d.items \ {i} : e.items[j] = d.items[j]
  BY <1>1, <1>2, <1>3, ItemWritten
<1> HIDE DEF e
<1>5. MarksMatchNights(e)
  <2>1. \A j \in DOMAIN d.items : /\ e.items[j].slot = d.items[j].slot /\ e.items[j].day = d.items[j].day
                                  /\ e.items[j].stay = d.items[j].stay
    BY <1>3, <1>4
  <2> QED BY <1>2, <1>4, <2>1, MarksAlike DEF Alike, SameDays
<1> QED
  BY <1>1, <1>2, <1>4, <1>5 DEF Keeps, Alike, SameDays, DaysFill

LEMMA UpdateDayKeeps ==
  ASSUME NEW d, Tables(d), DaysFill(d), NEW x, NEW row, DOMAIN row = {"pos", "date", "mode", "morning", "evening", "noNight", "text"},
         UpdateDay(d, x, row) # Refused
  PROVE  Keeps(d, UpdateDay(d, x, row), {})
<1> DEFINE new == [row EXCEPT !.pos = d.days[x].pos, !.date = d.days[x].date]
           days == [d.days EXCEPT ![x] = new]
           f == [d EXCEPT !.days[x] = new]
           e == syncTrip(f)
<1>1. x \in DOMAIN d.days /\ UpdateDay(d, x, row) = e /\ f = [d EXCEPT !.days = days]
  BY DEF UpdateDay
<1>2. IsDay(new) /\ new.pos = d.days[x].pos /\ new.date = d.days[x].date
  BY <1>1 DEF Tables, IsDay
<1> HIDE DEF new, f
<1>3. DOMAIN days = DOMAIN d.days /\ \A y \in DOMAIN days : IsDay(days[y]) /\ days[y].pos = d.days[y].pos /\ days[y].date = d.days[y].date
  BY <1>2 DEF Tables
<1> HIDE DEF days
<1>4. Spares(d, f, {}) /\ f.start = d.start /\ f.end = d.end /\ f.days = days
  BY <1>1, <1>3, DaysOver
<1>5. DaysFill(f)
  BY <1>3, <1>4 DEF DaysFill
<1>6. Spares(f, e, {}) /\ SameDays(f, e) /\ MarksMatchNights(e)
  BY <1>4, syncTripSpares DEF Spares
<1> HIDE DEF e
<1> QED
  BY <1>1, <1>4, <1>5, <1>6, SparesThen DEF Keeps, SameDays, DaysFill

(********************************* the stays *****************************)

LEMMA StaysRewritten ==
  ASSUME NEW d, Tables(d), NEW n \in Nat, NEW e, DOMAIN e = DOMAIN d,
         \A f \in DOMAIN d \ {"stays", "next"} : e[f] = d[f], e.next = d.next + n,
         IsTable(e.stays, d.next + n), \A s \in DOMAIN e.stays : IsStay(e.stays[s])
  PROVE  Alike(d, e)
<1>1. /\ e.items = d.items /\ e.days = d.days /\ e.legs = d.legs
      /\ e.start = d.start /\ e.end = d.end /\ e.kind = d.kind /\ e.next \in Nat
  BY DEF Tables
<1>2. OneMark(e)
  BY <1>1 DEF OneMark, Tables
<1>3. IsTable(e.days, e.next) /\ IsTable(e.legs, e.next) /\ IsTable(e.items, e.next)
  BY <1>1, Later DEF Tables
<1>4. Tables(e)
  BY <1>1, <1>2, <1>3 DEF Tables
<1> QED
  BY <1>1, <1>4 DEF Alike, Spares, SameDays, IsPlace

LEMMA StaysInserted ==
  ASSUME NEW d, Tables(d), NEW rows, Len(rows) \in Nat, \A k \in 1..Len(rows) : IsStay(rows[k])
  PROVE  Alike(d, Insert(d, "stays", rows))
<1> DEFINE n == Len(rows)
           e == Insert(d, "stays", rows)
<1>1. /\ DOMAIN e = DOMAIN d /\ e.next = d.next + n
      /\ \A f \in DOMAIN d \ {"stays", "next"} : e[f] = d[f]
      /\ DOMAIN e.stays = DOMAIN d.stays \cup New(d, n)
      /\ \A s \in DOMAIN d.stays : e.stays[s] = d.stays[s]
      /\ \A s \in New(d, n) : s - d.next + 1 \in 1..n /\ e.stays[s] = rows[s - d.next + 1]
      /\ IsTable(e.stays, e.next)
  <2>1. HasRows(d, "stays", rows, e)
    BY Inserted
  <2> QED BY <2>1 DEF HasRows
<1>2. n \in Nat /\ \A k \in 1..n : IsStay(rows[k])
  OBVIOUS
<1> HIDE DEF e, n
<1>3. \A s \in DOMAIN e.stays : IsStay(e.stays[s])
  BY <1>1, <1>2 DEF Tables
<1>4. Alike(d, e)
  BY <1>1, <1>2, <1>3, StaysRewritten
<1> QED
  BY <1>4 DEF e

LEMMA CreateStayKeeps ==
  ASSUME NEW d, Tables(d), DaysFill(d), NEW row, IsStay(row)
  PROVE  Keeps(d, CreateStay(d, row), {})
<1> DEFINE rows == <<row>>
           f == Insert(d, "stays", rows)
<1>1. Len(rows) \in Nat /\ \A k \in 1..Len(rows) : IsStay(rows[k])
  OBVIOUS
<1>2. CreateStay(d, row) = syncTrip(f)
  BY DEF CreateStay
<1> HIDE DEF rows
<1>3. Alike(d, f)
  BY <1>1, StaysInserted
<1> HIDE DEF f
<1> QED
  BY <1>2, <1>3, AlikeKeeps

LEMMA UpdateStayKeeps ==
  ASSUME NEW d, Tables(d), DaysFill(d), NEW s, NEW row, IsStay(row), UpdateStay(d, s, row) # Refused
  PROVE  Keeps(d, UpdateStay(d, s, row), {})
<1> DEFINE stays == [d.stays EXCEPT ![s] = row]
           f == [d EXCEPT !.stays[s] = row]
<1>1. s \in DOMAIN d.stays /\ UpdateStay(d, s, row) = syncTrip(f) /\ f = [d EXCEPT !.stays = stays]
  BY DEF UpdateStay
<1>2. DOMAIN stays = DOMAIN d.stays /\ \A t \in DOMAIN stays : IsStay(stays[t])
  BY DEF Tables
<1> HIDE DEF f, stays
<1>3. /\ DOMAIN f = DOMAIN d /\ \A g \in DOMAIN d \ {"stays", "next"} : f[g] = d[g]
      /\ f.next = d.next + 0 /\ f.stays = stays /\ 0 \in Nat
  BY <1>1 DEF Tables
<1>4. IsTable(f.stays, d.next + 0) /\ \A t \in DOMAIN f.stays : IsStay(f.stays[t])
  BY <1>2, <1>3 DEF Tables, IsTable
<1>5. Alike(d, f)
  BY <1>3, <1>4, StaysRewritten
<1> QED
  BY <1>1, <1>5, AlikeKeeps

(* A mark has a stay of its document; a place has none.                    *)
LEMMA DeleteStayKeeps ==
  ASSUME NEW d, Tables(d), DaysFill(d), NEW s, DeleteStay(d, s) # Refused
  PROVE  Keeps(d, DeleteStay(d, s), {})
<1> DEFINE gone == {i \in DOMAIN d.items : d.items[i].stay = s}
           bare == DropItems(d, gone)
           stays == [t \in DOMAIN bare.stays \ {s} |-> bare.stays[t]]
           f == [bare EXCEPT !.stays = stays]
<1>1. s \in DOMAIN d.stays /\ DeleteStay(d, s) = syncTrip(f)
  BY DEF DeleteStay, Restrict
<1>2. /\ Tables(bare) /\ SameDays(d, bare) /\ bare.kind = d.kind /\ bare.stays = d.stays
      /\ DOMAIN bare.items = DOMAIN d.items \ gone /\ \A j \in DOMAIN bare.items : bare.items[j] = d.items[j]
  BY DropItemsLeaves
<1> HIDE DEF bare
<1>3. Alike(d, bare)
  <2>1. s # None
    BY <1>1, ItineraryAssumption DEF Tables, IsTable
  <2>2. \A i \in gone : d.items[i].slot # "place"
    BY <2>1 DEF Tables, IsItem
  <2> QED BY <1>2, <2>2 DEF Alike, Spares, IsPlace
<1>4. DOMAIN stays = DOMAIN bare.stays \ {s} /\ \A t \in DOMAIN stays : IsStay(stays[t])
  BY <1>2 DEF Tables
<1> HIDE DEF stays
<1>5. /\ DOMAIN f = DOMAIN bare /\ \A g \in DOMAIN bare \ {"stays", "next"} : f[g] = bare[g]
      /\ f.next = bare.next + 0 /\ f.stays = stays /\ 0 \in Nat
  BY <1>2 DEF Tables
<1> HIDE DEF f
<1>6. IsTable(f.stays, bare.next + 0) /\ \A t \in DOMAIN f.stays : IsStay(f.stays[t])
  <2>1. IsFiniteSet(DOMAIN stays)
    BY <1>2, <1>4, FS_Subset DEF Tables, IsTable
  <2> QED BY <1>2, <1>4, <1>5, <2>1 DEF Tables, IsTable
<1>7. Alike(bare, f)
  BY <1>2, <1>5, <1>6, StaysRewritten
<1>8. Alike(d, f)
  BY <1>3, <1>7, AlikeThen DEF Alike
<1> QED
  BY <1>1, <1>8, AlikeKeeps

(******************************* legs and tracks *************************)

LEMMA LegsAlike ==
  ASSUME NEW d, Tables(d), NEW n \in Nat, NEW e, DOMAIN e = DOMAIN d,
         \A f \in DOMAIN d \ {"legs", "next"} : e[f] = d[f], e.next = d.next + n, DOMAIN e.legs = DOMAIN d.legs
  PROVE  Alike(d, e) /\ e.items = d.items /\ e.stays = d.stays
<1> DEFINE legs == e.legs
<1>1. IsTable(legs, d.next + n)
  BY DEF Tables, IsTable
<1> HIDE DEF legs
<1>2. e.legs = legs
  BY DEF legs
<1> QED
  BY <1>1, <1>2, LegsRewritten DEF Alike

LEMMA UpdateLegKeeps ==
  ASSUME NEW d, Tables(d), DaysFill(d), NEW l, NEW mode, NEW route, UpdateLeg(d, l, mode, route) # Refused
  PROVE  Keeps(d, UpdateLeg(d, l, mode, route), {})
<1> DEFINE f == [d EXCEPT !.legs[l] = [@ EXCEPT !.mode = mode, !.route = route]]
<1>1. UpdateLeg(d, l, mode, route) = syncTrip(f)
  BY DEF UpdateLeg
<1>2. /\ DOMAIN f = DOMAIN d /\ \A g \in DOMAIN d \ {"legs", "next"} : f[g] = d[g]
      /\ f.next = d.next + 0 /\ DOMAIN f.legs = DOMAIN d.legs /\ 0 \in Nat
  BY DEF Tables
<1> HIDE DEF f
<1>3. Alike(d, f)
  BY <1>2, LegsAlike
<1> QED
  BY <1>1, <1>3, AlikeKeeps

LEMMA SaveLegPartsKeeps ==
  ASSUME NEW d, Tables(d), DaysFill(d), NEW n \in Nat,
         NEW b, DOMAIN b = DOMAIN d, \A h \in DOMAIN d \ {"next"} : b[h] = d[h], b.next = d.next + n,
         NEW l, NEW parts, NEW mode, SaveLegParts(b, l, parts, mode) # Refused
  PROVE  Keeps(d, SaveLegParts(b, l, parts, mode), {})
<1> DEFINE f == [b EXCEPT !.legs[l] = [@ EXCEPT !.parts = parts, !.mode = parts[1].mode]]
           g == [b EXCEPT !.legs[l] = [@ EXCEPT !.parts = <<>>, !.mode = mode, !.route = "fastest"]]
<1>1. SaveLegParts(b, l, parts, mode) = syncTrip(f) \/ SaveLegParts(b, l, parts, mode) = syncTrip(g)
  BY DEF SaveLegParts
<1>2. b.legs = d.legs
  BY DEF Tables
<1>3. /\ DOMAIN f = DOMAIN d /\ \A h \in DOMAIN d \ {"legs", "next"} : f[h] = d[h]
      /\ f.next = d.next + n /\ DOMAIN f.legs = DOMAIN d.legs
  BY <1>2 DEF Tables
<1>4. /\ DOMAIN g = DOMAIN d /\ \A h \in DOMAIN d \ {"legs", "next"} : g[h] = d[h]
      /\ g.next = d.next + n /\ DOMAIN g.legs = DOMAIN d.legs
  BY <1>2 DEF Tables
<1> HIDE DEF f, g
<1>5. Alike(d, f)
  BY <1>3, LegsAlike
<1>6. Alike(d, g)
  BY <1>4, LegsAlike
<1> QED
  BY <1>1, <1>5, <1>6, AlikeKeeps

LEMMA LegsAlikeKeeps ==
  ASSUME NEW d, Whole(d), NEW e, DOMAIN e = DOMAIN d,
         \A f \in DOMAIN d \ {"legs"} : e[f] = d[f], DOMAIN e.legs = DOMAIN d.legs
  PROVE  Keeps(d, e, {}) /\ e.days = d.days
<1>1. Tables(d) /\ DaysFill(d) /\ MarksMatchNights(d)
  BY DEF Whole
<1>2. e.next = d.next + 0 /\ 0 \in Nat /\ \A f \in DOMAIN d \ {"legs", "next"} : e[f] = d[f]
  BY <1>1 DEF Tables
<1>3. Alike(d, e) /\ e.items = d.items /\ e.stays = d.stays
  BY <1>1, <1>2, LegsAlike
<1>4. MarksMatchNights(e)
  BY <1>1, <1>3, SameMarks DEF Alike, SameDays
<1> QED
  BY <1>1, <1>3, <1>4 DEF Keeps, Alike, SameDays, DaysFill

LEMMA WholeKeeps ==
  ASSUME NEW d, Whole(d)
  PROVE  Keeps(d, d, {})
BY SparesItself DEF Keeps, Whole

LEMMA SaveLegCalculationKeeps ==
  ASSUME NEW d, Whole(d), NEW l, NEW input, NEW source, NEW pinned, NEW for
  PROVE  LET e == SaveLegCalculation(d, l, input, source, pinned, for) IN Keeps(d, e, {}) /\ e.days = d.days
<1> DEFINE e == SaveLegCalculation(d, l, input, source, pinned, for)
           f == [d EXCEPT !.legs[l].source = source, !.legs[l].for = for, !.legs[l].pinned = pinned]
<1>1. e = d \/ e = f
  BY DEF SaveLegCalculation
<1>2. /\ DOMAIN f = DOMAIN d /\ \A g \in DOMAIN d \ {"legs"} : f[g] = d[g]
      /\ DOMAIN f.legs = DOMAIN d.legs
  BY DEF Whole, Tables
<1> HIDE DEF e, f
<1>3. Keeps(d, f, {}) /\ f.days = d.days
  BY <1>2, LegsAlikeKeeps
<1>4. Keeps(d, e, {}) /\ e.days = d.days
  BY <1>1, <1>3, WholeKeeps
<1> QED
  BY <1>4 DEF e

LEMMA SaveSegmentCalculationKeeps ==
  ASSUME NEW d, Whole(d), NEW part, NEW input, NEW source, NEW for
  PROVE  LET e == SaveSegmentCalculation(d, part, input, source, for) IN Keeps(d, e, {}) /\ e.days = d.days
<1> DEFINE Calculated(p) == IF p.id = part /\ p.input = input THEN [p EXCEPT !.source = source, !.for = for] ELSE p
           legs == [l \in DOMAIN d.legs |->
                      [d.legs[l] EXCEPT !.parts = [k \in DOMAIN d.legs[l].parts |-> Calculated(d.legs[l].parts[k])]]]
           e == SaveSegmentCalculation(d, part, input, source, for)
<1>1. e = [d EXCEPT !.legs = legs]
  BY DEF SaveSegmentCalculation
<1>2. DOMAIN legs = DOMAIN d.legs
  OBVIOUS
<1> HIDE DEF legs, e
<1>3. /\ DOMAIN e = DOMAIN d /\ \A g \in DOMAIN d \ {"legs"} : e[g] = d[g]
      /\ DOMAIN e.legs = DOMAIN d.legs
  BY <1>1, <1>2 DEF Whole, Tables
<1>4. Keeps(d, e, {}) /\ e.days = d.days
  BY <1>3, LegsAlikeKeeps
<1> QED
  BY <1>4 DEF e

(* The recording of an item written over.                                  *)
LEMMA TrackWritten ==
  ASSUME NEW d, Whole(d), NEW i \in DOMAIN d.items, NEW track, NEW n \in Nat, NEW f, DOMAIN f = DOMAIN d,
         \A g \in DOMAIN d \ {"items", "next"} : f[g] = d[g], f.next = d.next + n,
         f.items = [d.items EXCEPT ![i] = [@ EXCEPT !.track = track]]
  PROVE  Keeps(d, syncLegs(f), {}) /\ syncLegs(f).days = d.days
<1> DEFINE new == [d.items[i] EXCEPT !.track = track]
           e == [d EXCEPT !.items[i] = new]
           s == syncLegs(f)
<1>1. Tables(d) /\ DaysFill(d) /\ MarksMatchNights(d) /\ IsItem(d.items[i])
  BY DEF Whole, Tables
<1>2. IsItem(new) /\ new.slot = d.items[i].slot /\ new.day = d.items[i].day /\ new.stay = d.items[i].stay
  BY <1>1 DEF IsItem
<1>3. f.items = [d.items EXCEPT ![i] = new]
  OBVIOUS
<1> HIDE DEF new
<1>4. /\ Alike(d, e) /\ e.stays = d.stays /\ DOMAIN e.items = DOMAIN d.items
      /\ e.items[i] = new /\ \A j \in DOMAIN d.items \ {i} : e.items[j] = d.items[j]
      /\ DOMAIN e = DOMAIN d /\ e.next = d.next
  BY <1>1, <1>2, ItemWritten
<1>5. /\ DOMAIN f = DOMAIN e /\ \A g \in DOMAIN e \ {"legs", "next"} : f[g] = e[g]
      /\ f.next = e.next + n /\ DOMAIN f.legs = DOMAIN e.legs
  BY <1>1, <1>3 DEF Tables
<1> HIDE DEF e
<1>6. Alike(e, f) /\ f.items = e.items /\ f.stays = e.stays
  BY <1>4, <1>5, LegsAlike DEF Alike, Spares
<1>7. Spares(f, s, {}) /\ SameDays(f, s) /\ s.items = f.items /\ s.stays = f.stays
  BY <1>6, syncLegsSpares DEF Alike, Spares
<1> HIDE DEF s
<1>8. Alike(d, s) /\ s.stays = d.stays /\ s.items = e.items
  BY <1>4, <1>6, <1>7, AlikeThen DEF Alike
<1>9. MarksMatchNights(s)
  <2>1. \A j \in DOMAIN d.items : /\ s.items[j].slot = d.items[j].slot /\ s.items[j].day = d.items[j].day
                                  /\ s.items[j].stay = d.items[j].stay
    BY <1>2, <1>4, <1>8
  <2> QED BY <1>1, <1>4, <1>8, <2>1, MarksAlike DEF Alike, SameDays
<1>10. Keeps(d, s, {}) /\ s.days = d.days
  BY <1>1, <1>8, <1>9 DEF Keeps, Alike, SameDays, DaysFill
<1> QED
  BY <1>10 DEF s

LEMMA SaveTrackKeeps ==
  ASSUME NEW d, Whole(d), NEW i, NEW first, NEW last, SaveTrack(d, i, first, last) # Refused
  PROVE  LET e == SaveTrack(d, i, first, last) IN Keeps(d, e, {}) /\ e.days = d.days
<1> DEFINE track == [id |-> IF d.items[i].track = None THEN d.next ELSE d.items[i].track.id, first |-> first, last |-> last]
           f == [d EXCEPT !.items[i].track = track, !.next = @ + 1]
<1>1. IsPlace(d, i) /\ SaveTrack(d, i, first, last) = syncLegs(f)
  BY DEF SaveTrack
<1>2. i \in DOMAIN d.items /\ 1 \in Nat
  BY <1>1 DEF IsPlace
<1> HIDE DEF track
<1>3. /\ DOMAIN f = DOMAIN d /\ \A g \in DOMAIN d \ {"items", "next"} : f[g] = d[g]
      /\ f.next = d.next + 1 /\ f.items = [d.items EXCEPT ![i] = [@ EXCEPT !.track = track]]
  BY DEF Whole, Tables
<1> HIDE DEF f
<1>4. Keeps(d, syncLegs(f), {}) /\ syncLegs(f).days = d.days
  BY <1>2, <1>3, TrackWritten
<1> QED
  BY <1>1, <1>4

LEMMA DeleteTrackKeeps ==
  ASSUME NEW d, Whole(d), NEW i, DeleteTrack(d, i) # Refused
  PROVE  Keeps(d, DeleteTrack(d, i), {})
<1> DEFINE n == 0
           f == [d EXCEPT !.items[i].track = None]
<1>1. TrackOf(d, i) # None /\ DeleteTrack(d, i) = syncLegs(f)
  BY DEF DeleteTrack
<1>2. i \in DOMAIN d.items /\ n \in Nat
  BY <1>1 DEF TrackOf
<1>3. /\ DOMAIN f = DOMAIN d /\ \A g \in DOMAIN d \ {"items", "next"} : f[g] = d[g]
      /\ f.next = d.next + n /\ f.items = [d.items EXCEPT ![i] = [@ EXCEPT !.track = None]]
  BY DEF Whole, Tables
<1> HIDE DEF f, n
<1>4. Keeps(d, syncLegs(f), {})
  BY <1>2, <1>3, TrackWritten
<1> QED
  BY <1>1, <1>4

(********************************** reports ******************************)

LEMMA IdsList ==
  ASSUME NEW S, IsFiniteSet(S), \A x \in S : x \in Int
  PROVE  Lists(ById(S), S) /\ Cardinality(S) \in Nat
<1> DEFINE R == {p \in S \X S : p[1] < p[2]}
           q == ById(S)
<1>1. \A x, y \in S : <<x, y>> \in R <=> x < y
  OBVIOUS
<1> HIDE DEF R
<1>2. Orders(R, S)
  BY <1>1, NumbersOrder
<1>3. DOMAIN q = 1..Cardinality(S)
  BY DEF ById, Ranked
<1>4. ASSUME NEW k \in 1..Cardinality(S) PROVE q[k] \in S /\ Rank(S, R, q[k]) = k - 1
  <2>1. ASSUME NEW x \in S PROVE Cardinality({y \in S : y < x}) = Rank(S, R, x)
    <3>1. {y \in S : y < x} = {y \in S : <<y, x>> \in R}
      BY <1>1
    <3> QED BY <3>1 DEF Rank
  <2>2. \E x \in S : Cardinality({y \in S : y < x}) = k - 1
    BY <1>2, <2>1, RankTaken
  <2>3. q[k] = CHOOSE x \in S : Cardinality({y \in S : y < x}) = k - 1
    BY DEF ById, Ranked
  <2> HIDE DEF q
  <2>4. q[k] \in S /\ Cardinality({y \in S : y < q[k]}) = k - 1
    BY <2>2, <2>3
  <2> QED BY <2>1, <2>4
<1> HIDE DEF q
<1>5. Lists(q, S)
  BY <1>2, <1>3, <1>4, ByRank
<1> QED
  BY <1>5, FS_CardinalityType DEF q

(* A table that was read of a document.                                    *)
IsRead(rows) == IsFiniteSet(DOMAIN rows) /\ \A id \in DOMAIN rows : id \in Int

LEMMA IdsOfTable ==
  ASSUME NEW rows, IsRead(rows), NEW S \in SUBSET DOMAIN rows
  PROVE  /\ DOMAIN ById(S) = 1..Cardinality(S) /\ Cardinality(S) \in Nat
         /\ \A k \in DOMAIN ById(S) : ById(S)[k] \in S
<1>1. IsFiniteSet(S) /\ \A x \in S : x \in Int
  BY FS_Subset DEF IsRead
<1> QED
  BY <1>1, IdsList DEF Lists

LEMMA RowsInOrder ==
  ASSUME NEW rows, IsRead(rows)
  PROVE  LET q == InOrder(rows, DOMAIN rows)
         IN /\ Len(q) \in Nat /\ \A k \in 1..Len(q) : \E id \in DOMAIN rows : q[k] = rows[id]
<1> DEFINE ids == ById(DOMAIN rows)
           n == Cardinality(DOMAIN rows)
           q == InOrder(rows, DOMAIN rows)
<1>1. DOMAIN ids = 1..n /\ n \in Nat /\ \A k \in 1..n : ids[k] \in DOMAIN rows
  BY IdsOfTable
<1>2. q = [k \in DOMAIN ids |-> rows[ids[k]]]
  BY DEF InOrder
<1> HIDE DEF ids, n, q
<1>3. q = [k \in 1..n |-> rows[ids[k]]]
  BY <1>1, <1>2
<1>4. Len(q) = n
  BY <1>1, <1>3
<1>5. \A k \in 1..Len(q) : \E id \in DOMAIN rows : q[k] = rows[id]
  BY <1>1, <1>3, <1>4
<1> QED
  BY <1>1, <1>4, <1>5 DEF q

LEMMA copyPlacesAlike ==
  ASSUME NEW d, Tables(d), NEW read, NEW live, IsRead(read.items), \A i \in DOMAIN read.items : IsItem(read.items[i])
  PROVE  Alike(d, copyPlaces(d, read, live))
<1> DEFINE S == {i \in DOMAIN read.items : read.items[i].slot = "place" /\ read.items[i].day \in DOMAIN read.days}
           places == CopiedPlaces(read)
           n == Cardinality(S)
           Track(i) == IF i \in DOMAIN read.tracks /\ TrackOf(live, i) # None /\ TrackOf(live, i).id = read.tracks[i].id
                       THEN TrackOf(live, i) ELSE None
           Place(i) == [WithoutVisit(read.items[i]) EXCEPT !.day = DayCopy(read, @), !.track = Track(i)]
           rows == [k \in DOMAIN places |-> Place(places[k])]
<1>1. copyPlaces(d, read, live) = Insert(d, "items", rows)
  BY DEF copyPlaces
<1>2. places = ById(S)
  BY DEF CopiedPlaces
<1>3. S \in SUBSET DOMAIN read.items /\ \A i \in S : IsItem(read.items[i]) /\ read.items[i].slot = "place"
  OBVIOUS
<1> HIDE DEF S, places, Track
<1>4. DOMAIN places = 1..n /\ n \in Nat /\ \A k \in DOMAIN places : places[k] \in S
  BY <1>2, <1>3, IdsOfTable
<1> HIDE DEF n
<1>5. ASSUME NEW i \in S PROVE IsItem(Place(i)) /\ Place(i).slot = "place"
  BY <1>3 DEF IsItem, IsDate, WithoutVisit
<1> HIDE DEF Place
<1>6. rows = [k \in 1..n |-> Place(places[k])]
  BY <1>4
<1> HIDE DEF rows
<1>7. Len(rows) = n /\ \A k \in 1..n : rows[k] = Place(places[k])
  BY <1>4, <1>6
<1>8. Len(rows) \in Nat /\ \A k \in 1..Len(rows) : IsItem(rows[k]) /\ rows[k].slot = "place"
  BY <1>4, <1>5, <1>7
<1>9. LET e == Insert(d, "items", rows) IN Spares(d, e, {}) /\ SameDays(d, e)
  BY <1>8, PlacesInserted
<1> QED
  BY <1>1, <1>9 DEF Alike

LEMMA copyLegsAlike ==
  ASSUME NEW d, Tables(d), NEW read, NEW first, IsRead(read.legs)
  PROVE  LET e == copyLegs(d, read, first)
         IN Alike(d, e) /\ e.items = d.items /\ e.stays = d.stays
<1> DEFINE S == {l \in DOMAIN read.legs : /\ read.legs[l].day \in DOMAIN read.days
                                          /\ anchorMap(d, read, first, read.legs[l].from) # {}
                                          /\ anchorMap(d, read, first, read.legs[l].to) # {}}
           Copy(i) == CHOOSE c \in anchorMap(d, read, first, i) : TRUE
           Parts(l) == IF l \in DOMAIN read.parts THEN read.parts[l] ELSE <<>>
           Leg(l) == [Fold([read.legs[l] EXCEPT !.parts = Parts(l)]) EXCEPT
                        !.day = DayCopy(read, @), !.from = Copy(@), !.to = Copy(@)]
           legs == ById(S)
           n == Cardinality(S)
           rows == [k \in DOMAIN legs |-> Leg(legs[k])]
           e == copyLegs(d, read, first)
<1>1. e = Insert(d, "legs", rows)
  BY DEF copyLegs
<1>2. S \in SUBSET DOMAIN read.legs
  OBVIOUS
<1> HIDE DEF S, Leg
<1>3. DOMAIN legs = 1..n /\ n \in Nat
  BY <1>2, IdsOfTable
<1> HIDE DEF legs, n
<1>4. rows = [k \in 1..n |-> Leg(legs[k])]
  BY <1>3
<1> HIDE DEF rows, e
<1>5. Len(rows) \in Nat
  BY <1>3, <1>4
<1>6. /\ DOMAIN e = DOMAIN d /\ e.next = d.next + Len(rows)
      /\ \A f \in DOMAIN d \ {"legs", "next"} : e[f] = d[f]
      /\ IsTable(e.legs, e.next)
  <2>1. HasRows(d, "legs", rows, e)
    BY <1>1, <1>5, Inserted
  <2> QED BY <2>1 DEF HasRows
<1> DEFINE m == Len(rows)
           legs2 == e.legs
<1>7. /\ m \in Nat /\ DOMAIN e = DOMAIN d /\ e.next = d.next + m
      /\ \A f \in DOMAIN d \ {"legs", "next"} : e[f] = d[f]
      /\ IsTable(legs2, d.next + m) /\ e.legs = legs2
  BY <1>5, <1>6
<1> HIDE DEF m, legs2
<1>8. Alike(d, e) /\ e.items = d.items /\ e.stays = d.stays
  <2>1. Spares(d, e, {}) /\ SameDays(d, e) /\ e.items = d.items /\ e.stays = d.stays
    BY ONLY Tables(d), <1>7, LegsRewritten
  <2> QED BY <2>1 DEF Alike
<1> QED
  BY <1>8 DEF e

(* What a report is made of.                                               *)
Readable(read) ==
  /\ IsRead(read.days) /\ \A x \in DOMAIN read.days : IsDay(read.days[x])
  /\ IsRead(read.items) /\ \A i \in DOMAIN read.items : IsItem(read.items[i])
  /\ IsRead(read.stays) /\ \A s \in DOMAIN read.stays : IsStay(read.stays[s])
  /\ IsRead(read.legs)

LEMMA ReportMarks ==
  ASSUME NEW read, Readable(read), NEW start \in Int, NEW end \in Int, NEW live
  PROVE  MarksMatchNights(CreateReport(read, start, end, live))
<1> DEFINE empty == [kind |-> "report", start |-> start, end |-> end, next |-> 1,
                     days |-> <<>>, items |-> <<>>, stays |-> <<>>, legs |-> <<>>]
           days == copyDays(empty, read)
           dated == copyStays(days, read)
           placed == copyPlaces(dated, read, live)
           marked == syncAnchors(placed)
           legs == copyLegs(marked, read, dated.next)
           e == syncLegs(legs)
<1>1. CreateReport(read, start, end, live) = e
  BY DEF CreateReport
<1>2. Tables(empty)
  <2>1. IsTable(<<>>, 1)
    BY FS_EmptySet DEF IsTable
  <2> QED BY <2>1 DEF Tables, OneMark
<1> HIDE DEF empty
<1>3. Tables(days)
  <2> DEFINE rows == InOrder(read.days, DOMAIN read.days)
  <2>1. Len(rows) \in Nat /\ \A k \in 1..Len(rows) : IsDay(rows[k])
    BY RowsInOrder DEF Readable
  <2>2. days = Insert(empty, "days", rows)
    BY DEF copyDays
  <2> HIDE DEF rows
  <2>3. LET g == Insert(empty, "days", rows) IN Spares(empty, g, {})
    BY <1>2, <2>1, DaysInserted
  <2> QED BY <2>2, <2>3 DEF Spares
<1> HIDE DEF days
<1>4. Tables(dated)
  <2> DEFINE rows == InOrder(read.stays, DOMAIN read.stays)
  <2>1. Len(rows) \in Nat /\ \A k \in 1..Len(rows) : IsStay(rows[k])
    BY RowsInOrder DEF Readable
  <2>2. dated = Insert(days, "stays", rows)
    BY DEF copyStays
  <2> HIDE DEF rows
  <2>3. Alike(days, Insert(days, "stays", rows))
    BY <1>3, <2>1, StaysInserted
  <2> QED BY <2>2, <2>3 DEF Spares, Alike
<1> HIDE DEF dated
<1>5. Tables(placed)
  BY <1>4, copyPlacesAlike DEF Readable, Alike, Spares
<1> HIDE DEF placed
<1>6. Tables(marked) /\ MarksMatchNights(marked)
  BY <1>5, syncAnchorsSpares DEF Spares
<1> HIDE DEF marked
<1>7. Tables(legs) /\ legs.days = marked.days /\ legs.items = marked.items /\ legs.stays = marked.stays
  BY <1>6, copyLegsAlike DEF Readable, Alike, Spares, SameDays
<1> HIDE DEF legs
<1>8. e.days = legs.days /\ e.items = legs.items /\ e.stays = legs.stays
  BY <1>7, syncLegsSpares DEF SameDays
<1> HIDE DEF e
<1>9. e.days = marked.days /\ e.items = marked.items /\ e.stays = marked.stays
  BY <1>7, <1>8
<1> QED
  BY <1>1, <1>6, <1>9, SameMarks

(****************************** the invariant ****************************)

\* A table read of a plan, once it is read.
PartlyRead(seen) ==
  /\ {"start", "end"} \subseteq DOMAIN seen /\ seen.start \in Int /\ seen.end \in Int
  /\ "days" \in DOMAIN seen => IsRead(seen.days) /\ \A x \in DOMAIN seen.days : IsDay(seen.days[x])
  /\ "items" \in DOMAIN seen => IsRead(seen.items) /\ \A i \in DOMAIN seen.items : IsItem(seen.items[i])
  /\ "stays" \in DOMAIN seen => IsRead(seen.stays) /\ \A s \in DOMAIN seen.stays : IsStay(seen.stays[s])
  /\ "legs" \in DOMAIN seen => IsRead(seen.legs)

\* What a request has read, at the step it has come to.
Seen(req, step, seen) ==
  /\ req.op \in DayRequests /\ step \in {"read", "located"} => IsDay(seen) /\ seen.pos \in Nat
  /\ req.op \in PlaceRequests /\ step \in {"read", "saved"} => IsItem(seen) /\ seen.slot = "place"
  /\ req.op = "UpdateStay" /\ step = "read" => IsStay(seen)
  /\ req.op = "UpdateTrip" /\ step = "read" => DOMAIN seen = {"start", "end"} /\ seen.start \in Int /\ seen.end \in Int
  /\ req.op = "SetLegSegments" /\ step = "carried" => Len(seen) \in Nat
  /\ req.op = "CreateReport" /\ step = "read" => PartlyRead(seen)

JobFits(job) ==
  /\ DOMAIN job = {"req", "step", "seen"}
  /\ IsRequest(job.req) /\ Seen(job.req, job.step, job.seen)

IInv ==
  /\ Whole(doc)
  /\ report # None => MarksMatchNights(report)
  /\ DOMAIN jobs = Clients /\ \A c \in Clients : JobFits(jobs[c])

(* A step of PlacesSurvive.                                                *)
Survive ==
  \A i \in DOMAIN doc.items : IsPlace(doc, i) /\ ~IsPlace(doc', i) =>
    \E c \in Clients : LET req == jobs[c].req IN
      /\ Finishes(c)
      /\ \/ req.op = "DeletePlace" /\ req.id = i
         \/ doc.kind = "report" /\ (req.op = "DeleteDay" \/ (req.op = "UpdateTrip" /\ req.confirm))

LEMMA GoesOn ==
  ASSUME IInv, NEW c \in Clients, NEW step, NEW seen, Goes(c, step, seen), Seen(jobs[c].req, step, seen)
  PROVE  /\ DOMAIN jobs' = Clients /\ \A b \in Clients : JobFits(jobs'[b])
         /\ jobs'[c].step = step
<1> DEFINE job == [jobs[c] EXCEPT !.step = step, !.seen = seen]
<1>1. JobFits(jobs[c]) /\ DOMAIN jobs = Clients
  BY DEF IInv
<1>2. /\ job.step = step /\ job.seen = seen /\ job.req = jobs[c].req /\ DOMAIN job = DOMAIN jobs[c]
  BY <1>1 DEF JobFits
<1>3. jobs' = [jobs EXCEPT ![c] = job]
  BY <1>1 DEF Goes
<1> HIDE DEF job
<1>4. /\ DOMAIN jobs' = Clients /\ jobs'[c] = job /\ \A b \in Clients \ {c} : jobs'[b] = jobs[b]
  BY <1>1, <1>3
<1>5. JobFits(job)
  BY <1>1, <1>2 DEF JobFits
<1>6. \A b \in Clients : JobFits(jobs'[b])
  BY <1>4, <1>5 DEF IInv
<1> QED
  BY <1>2, <1>4, <1>6

LEMMA Reading ==
  ASSUME IInv, NEW c \in Clients, NEW step, NEW seen, Reads(c, step, seen), Seen(jobs[c].req, step, seen)
  PROVE  IInv' /\ Survive
<1>1. Goes(c, step, seen) /\ doc' = doc /\ report' = report
  BY DEF Reads
<1>2. DOMAIN jobs' = Clients /\ \A b \in Clients : JobFits(jobs'[b])
  BY <1>1, GoesOn
<1> QED
  BY <1>1, <1>2 DEF IInv, Survive

LEMMA SeenNothing ==
  ASSUME NEW req, NEW step \in {"refused", "done", "calculating", "named", "offered", "chosen", "valid"}, NEW seen
  PROVE  Seen(req, step, seen)
BY DEF Seen

LEMMA Refusing ==
  ASSUME IInv, NEW c \in Clients, Refuse(c)
  PROVE  IInv' /\ Survive
<1>1. Seen(jobs[c].req, "refused", None)
  BY SeenNothing
<1> QED
  BY <1>1, Reading DEF Refuse

\* The places a request may take away.
GoneBy(req) ==
  IF req.op = "DeletePlace" THEN {req.id}
  ELSE IF req.op = "DeleteDay" \/ (req.op = "UpdateTrip" /\ req.confirm) THEN OfReport(doc) ELSE {}

LEMMA DistinctDays ==
  ASSUME NEW d, NEW e, e.days = d.days, Distinct(d)
  PROVE  Distinct(e)
BY DEF Distinct

LEMMA KeepsWhole ==
  ASSUME NEW d, NEW e, NEW gone, Keeps(d, e, gone), Distinct(e)
  PROVE  Whole(e)
BY DEF Keeps, Whole, Spares

LEMMA Answering ==
  ASSUME IInv, NEW c \in Clients, NEW result, Answer(c, result), jobs[c].step # "done",
         NEW gone, gone \subseteq GoneBy(jobs[c].req),
         result # Refused /\ Distinct(result) => Keeps(doc, result, gone)
  PROVE  IInv' /\ Survive
<1>1. CASE ~Commits(result)
  BY <1>1, Refusing DEF Answer
<1>2. CASE Commits(result)
  <2>1. doc' = result /\ report' = report /\ Goes(c, "done", None)
    BY <1>2 DEF Answer
  <2>2. result # Refused /\ Distinct(result)
    BY <1>2 DEF Commits, Distinct
  <2>3. Keeps(doc, result, gone) /\ Whole(result)
    BY <2>2, KeepsWhole
  <2>4. Seen(jobs[c].req, "done", None)
    BY SeenNothing
  <2>5. DOMAIN jobs' = Clients /\ (\A b \in Clients : JobFits(jobs'[b])) /\ jobs'[c].step = "done"
    BY <2>1, <2>4, GoesOn
  <2>6. IInv'
    BY <2>1, <2>3, <2>5 DEF IInv
  <2>7. ASSUME NEW i \in DOMAIN doc.items, IsPlace(doc, i), ~IsPlace(doc', i)
        PROVE  \E b \in Clients : LET req == jobs[b].req IN
                 /\ Finishes(b)
                 /\ \/ req.op = "DeletePlace" /\ req.id = i
                    \/ doc.kind = "report" /\ (req.op = "DeleteDay" \/ (req.op = "UpdateTrip" /\ req.confirm))
    <3>1. i \in gone
      BY <2>1, <2>3, <2>7 DEF Keeps, Spares
    <3>2. i \in GoneBy(jobs[c].req)
      BY <3>1
    <3>3. Finishes(c)
      BY <2>5 DEF Finishes
    <3>4. doc.kind # "plan" => doc.kind = "report"
      BY DEF IInv, Whole, Tables
    <3> QED BY <3>2, <3>3, <3>4 DEF GoneBy, OfReport
  <2> QED BY <2>6, <2>7 DEF Survive
<1> QED
  BY <1>1, <1>2

(* An answer that takes no place away.                                     *)
LEMMA AnsweringWhole ==
  ASSUME IInv, NEW c \in Clients, NEW result, Answer(c, result), jobs[c].step # "done",
         result # Refused => Keeps(doc, result, {})
  PROVE  IInv' /\ Survive
<1>1. {} \subseteq GoneBy(jobs[c].req)
  OBVIOUS
<1> QED
  BY <1>1, Answering

(* A row stored without an answer.                                         *)
LEMMA Storing ==
  ASSUME IInv, NEW c \in Clients, NEW step, NEW seen, Goes(c, step, seen), Seen(jobs[c].req, step, seen),
         NEW d, doc' = d, report' = report, Keeps(doc, d, {}), d.days = doc.days
  PROVE  IInv' /\ Survive
<1>1. Distinct(d) /\ Whole(d)
  BY DistinctDays, KeepsWhole DEF IInv, Whole
<1>2. DOMAIN jobs' = Clients /\ \A b \in Clients : JobFits(jobs'[b])
  BY GoesOn
<1>3. \A i : IsPlace(doc, i) => IsPlace(doc', i)
  BY DEF Keeps, Spares
<1> QED
  BY <1>1, <1>2, <1>3 DEF IInv, Survive

LEMMA Found ==
  ASSUME IInv, NEW c \in Clients
  PROVE  /\ Whole(doc) /\ Tables(doc) /\ DaysFill(doc)
         /\ IsRequest(jobs[c].req) /\ Seen(jobs[c].req, jobs[c].step, jobs[c].seen)
BY DEF IInv, Whole, JobFits

(********************************* reading *******************************)

LEMMA dayForSound ==
  ASSUME IInv, NEW c \in Clients, dayFor(c)
  PROVE  IInv' /\ Survive
<1> DEFINE req == jobs[c].req
<1>1. req.op \in DayRequests
  BY DEF dayFor
<1>2. CASE req.id \in DOMAIN doc.days
  <2>1. Reads(c, "read", doc.days[req.id])
    BY <1>2 DEF dayFor
  <2>2. IsDay(doc.days[req.id]) /\ doc.days[req.id].pos \in Nat
    BY <1>2, Found, WholeDays
  <2>3. Seen(req, "read", doc.days[req.id])
    BY <1>1, <2>2 DEF Seen, DayRequests, PlaceRequests
  <2> QED BY <2>1, <2>3, Reading
<1>3. CASE req.id \notin DOMAIN doc.days
  BY <1>3, Refusing DEF dayFor
<1> QED
  BY <1>2, <1>3

LEMMA readDaySound ==
  ASSUME IInv, NEW c \in Clients, readDay(c)
  PROVE  IInv' /\ Survive
<1> DEFINE req == jobs[c].req
<1>1. req.op \in DayRequests
  BY DEF readDay, DayRequests
<1>2. CASE req.id \in DOMAIN doc.days
  <2>1. Reads(c, "located", doc.days[req.id])
    BY <1>2 DEF readDay
  <2>2. IsDay(doc.days[req.id]) /\ doc.days[req.id].pos \in Nat
    BY <1>2, Found, WholeDays
  <2>3. Seen(req, "located", doc.days[req.id])
    BY <1>1, <2>2 DEF Seen, DayRequests, PlaceRequests
  <2> QED BY <2>1, <2>3, Reading
<1>3. CASE req.id \notin DOMAIN doc.days
  BY <1>3, Refusing DEF readDay
<1> QED
  BY <1>2, <1>3

LEMMA placeForSound ==
  ASSUME IInv, NEW c \in Clients, placeFor(c)
  PROVE  IInv' /\ Survive
<1> DEFINE req == jobs[c].req
           found == IsPlace(doc, req.id) /\ (req.op = "ImportTrack" => doc.items[req.id].activity)
<1>1. req.op \in PlaceRequests
  BY DEF placeFor
<1>2. CASE found
  <2>1. Reads(c, "read", doc.items[req.id])
    BY <1>2 DEF placeFor
  <2>2. IsItem(doc.items[req.id]) /\ doc.items[req.id].slot = "place"
    BY <1>2, Found DEF Tables, IsPlace
  <2>3. Seen(req, "read", doc.items[req.id])
    BY <1>1, <2>2 DEF Seen, DayRequests, PlaceRequests
  <2> QED BY <2>1, <2>3, Reading
<1>3. CASE ~found
  BY <1>3, Refusing DEF placeFor
<1> QED
  BY <1>2, <1>3

LEMMA stayForSound ==
  ASSUME IInv, NEW c \in Clients, stayFor(c)
  PROVE  IInv' /\ Survive
<1> DEFINE req == jobs[c].req
<1>1. req.op = "UpdateStay"
  BY DEF stayFor, At
<1>2. CASE req.id \in DOMAIN doc.stays
  <2>1. Reads(c, "read", doc.stays[req.id])
    BY <1>2 DEF stayFor
  <2>2. IsStay(doc.stays[req.id])
    BY <1>2, Found DEF Tables
  <2>3. Seen(req, "read", doc.stays[req.id])
    BY <1>1, <2>2 DEF Seen, DayRequests, PlaceRequests
  <2> QED BY <2>1, <2>3, Reading
<1>3. CASE req.id \notin DOMAIN doc.stays
  BY <1>3, Refusing DEF stayFor
<1> QED
  BY <1>2, <1>3

LEMMA legForSound ==
  ASSUME IInv, NEW c \in Clients, legFor(c)
  PROVE  IInv' /\ Survive
<1> DEFINE req == jobs[c].req
           leg == Fold(doc.legs[req.id])
<1>1. req.op \in LegRequests /\ (Reads(c, "read", leg) \/ Refuse(c))
  BY DEF legFor
<1> HIDE DEF leg
<1>2. Seen(req, "read", leg)
  BY <1>1 DEF Seen, DayRequests, PlaceRequests, LegRequests
<1> QED
  BY <1>1, <1>2, Reading, Refusing

LEMMA tripForSound ==
  ASSUME IInv, NEW c \in Clients, tripFor(c)
  PROVE  IInv' /\ Survive
<1> DEFINE req == jobs[c].req
           seen == [start |-> doc.start, end |-> doc.end]
<1>1. req.op \in {"UpdateTrip", "CreateReport"} /\ Reads(c, "read", seen)
  BY DEF tripFor
<1>2. doc.start \in Int /\ doc.end \in Int
  BY Found DEF Tables
<1>3. PartlyRead(seen)
  BY <1>2 DEF PartlyRead
<1>4. DOMAIN seen = {"start", "end"} /\ seen.start \in Int /\ seen.end \in Int
  BY <1>2
<1> HIDE DEF seen
<1>5. Seen(req, "read", seen)
  BY <1>1, <1>3, <1>4 DEF Seen, DayRequests, PlaceRequests
<1> QED
  BY <1>1, <1>5, Reading

LEMMA legEndPointsSound ==
  ASSUME IInv, NEW c \in Clients, legEndPoints(c)
  PROVE  IInv' /\ Survive
<1> DEFINE req == jobs[c].req
           leg == jobs[c].seen
           carried == carryCalculations(req.parts, leg.parts, LegEnds(doc, leg.from, leg.to))
<1>1. req.op = "SetLegSegments" /\ Reads(c, "carried", carried)
  BY DEF legEndPoints, At
<1>2. Len(carried) \in Nat
  <2> DEFINE n == Len(req.parts)
  <2>1. n \in Nat /\ DOMAIN req.parts = 1..n
    BY <1>1, Found DEF IsRequest
  <2>2. DOMAIN carried = DOMAIN req.parts
    BY DEF carryCalculations
  <2>3. \E f : carried = [k \in DOMAIN req.parts |-> f[k]]
    <3>1. carried = [k \in DOMAIN req.parts |-> carried[k]]
      BY DEF carryCalculations
    <3> QED BY <3>1
  <2> HIDE DEF n, carried
  <2>4. PICK f : carried = [k \in DOMAIN req.parts |-> f[k]]
    BY <2>3
  <2>5. carried = [k \in 1..n |-> f[k]]
    BY <2>1, <2>4
  <2> QED BY <2>1, <2>5
<1> HIDE DEF carried
<1>3. Seen(req, "carried", carried)
  BY <1>1, <1>2 DEF Seen, DayRequests, PlaceRequests
<1> QED
  BY <1>1, <1>3, Reading

(* Steps of calculations and choices: what they read is not of a kind.     *)
LEMMA CalculationSound ==
  ASSUME IInv, NEW c \in Clients,
         \/ handleCalculateLegs(c) \/ handleRetryEstimatedLegs(c) \/ handleRecalculate(c) \/ RecalculateNamed(c)
         \/ CalculationEnds(c) \/ handleLegAlternatives(c) \/ handlePinLegRoute(c) \/ validateChosenRoute(c)
  PROVE  IInv' /\ Survive
<1>1. \/ Refuse(c)
      \/ \E step \in {"refused", "done", "calculating", "named", "offered", "chosen", "valid"} : \E seen : Reads(c, step, seen)
  <2>1. CASE handleCalculateLegs(c) \/ handleRetryEstimatedLegs(c)
    BY <2>1 DEF handleCalculateLegs, handleRetryEstimatedLegs
  <2>2. CASE handleRecalculate(c) \/ RecalculateNamed(c)
    BY <2>2 DEF handleRecalculate, RecalculateNamed
  <2>3. CASE CalculationEnds(c)
    BY <2>3 DEF CalculationEnds
  <2>4. CASE handleLegAlternatives(c)
    BY <2>4 DEF handleLegAlternatives
  <2>5. CASE handlePinLegRoute(c) \/ validateChosenRoute(c)
    BY <2>5 DEF handlePinLegRoute, validateChosenRoute
  <2> QED BY <2>1, <2>2, <2>3, <2>4, <2>5
<1>2. ASSUME NEW step \in {"refused", "done", "calculating", "named", "offered", "chosen", "valid"}, NEW seen, Reads(c, step, seen)
      PROVE  IInv' /\ Survive
  <2>1. Seen(jobs[c].req, step, seen)
    BY SeenNothing
  <2> QED BY <1>2, <2>1, Reading
<1> QED
  BY <1>1, <1>2, Refusing

(**************************** days and the period ************************)

LEMMA ChangedFields ==
  ASSUME NEW row, NEW change
  PROVE  /\ DOMAIN Changed(row, change) = DOMAIN row
         /\ \A f \in DOMAIN row :
              Changed(row, change)[f] = IF f \in DOMAIN change THEN change[f] ELSE row[f]
BY DEF Changed

LEMMA handleCreateDaySound ==
  ASSUME IInv, NEW c \in Clients, handleCreateDay(c)
  PROVE  IInv' /\ Survive
<1> DEFINE req == jobs[c].req
           e == AddDay(doc, req.mode, req.pos)
<1>1. Answer(c, e) /\ jobs[c].step # "done"
  BY DEF handleCreateDay, At
<1>2. e # Refused => Keeps(doc, e, {})
  BY Found, AddDayKeeps
<1> HIDE DEF e
<1> QED
  BY <1>1, <1>2, AnsweringWhole

LEMMA handleUpdateDaySound ==
  ASSUME IInv, NEW c \in Clients, handleUpdateDay(c)
  PROVE  IInv' /\ Survive
<1> DEFINE req == jobs[c].req
           row == Changed(jobs[c].seen, req.change)
           e == UpdateDay(doc, req.id, row)
<1>1. Answer(c, e) /\ jobs[c].step # "done" /\ req.op = "UpdateDay" /\ jobs[c].step = "read"
  BY DEF handleUpdateDay, At
<1>2. IsDay(jobs[c].seen)
  BY <1>1, Found DEF Seen, DayRequests
<1>3. DOMAIN row = {"pos", "date", "mode", "morning", "evening", "noNight", "text"}
  BY <1>2, ChangedFields DEF IsDay
<1> HIDE DEF row
<1>4. e # Refused => Keeps(doc, e, {})
  BY <1>3, Found, UpdateDayKeeps
<1> HIDE DEF e
<1> QED
  BY <1>1, <1>4, AnsweringWhole

LEMMA handleDeleteDaySound ==
  ASSUME IInv, NEW c \in Clients, handleDeleteDay(c)
  PROVE  IInv' /\ Survive
<1> DEFINE req == jobs[c].req
           pos == jobs[c].seen.pos
           e == DeleteDay(doc, req.id, pos, req.confirm)
           gone == OfReport(doc)
<1>1. Answer(c, e) /\ jobs[c].step # "done" /\ req.op = "DeleteDay" /\ jobs[c].step = "located"
  BY DEF handleDeleteDay, At
<1>2. pos \in Nat
  BY <1>1, Found DEF Seen, DayRequests
<1>3. gone \subseteq GoneBy(req)
  BY <1>1 DEF GoneBy
<1> HIDE DEF pos
<1>4. e # Refused /\ Distinct(e) => Keeps(doc, e, gone)
  BY <1>2, Found, DeleteDayKeeps
<1> HIDE DEF e, gone
<1> QED
  BY <1>1, <1>3, <1>4, Answering

LEMMA handleDuplicateDaySound ==
  ASSUME IInv, NEW c \in Clients, handleDuplicateDay(c)
  PROVE  IInv' /\ Survive
<1> DEFINE req == jobs[c].req
           source == jobs[c].seen
           e == DuplicateDay(doc, req.id, source)
<1>1. Answer(c, e) /\ jobs[c].step # "done" /\ req.op = "DuplicateDay" /\ jobs[c].step = "located"
  BY DEF handleDuplicateDay, At
<1>2. IsDay(source)
  BY <1>1, Found DEF Seen, DayRequests
<1> HIDE DEF source
<1>3. e # Refused => Keeps(doc, e, {})
  BY <1>2, Found, DuplicateDayKeeps
<1> HIDE DEF e
<1> QED
  BY <1>1, <1>3, AnsweringWhole

LEMMA handleReorderDaysSound ==
  ASSUME IInv, NEW c \in Clients, handleReorderDays(c)
  PROVE  IInv' /\ Survive
<1> DEFINE req == jobs[c].req
           order == req.order
           e == ReorderDays(doc, order)
<1>1. Answer(c, e) /\ jobs[c].step # "done" /\ req.op = "ReorderDays"
  BY DEF handleReorderDays, At
<1>2. Len(order) \in Nat /\ DOMAIN order = 1..Len(order)
  BY <1>1, Found DEF IsRequest
<1> HIDE DEF order
<1>3. e # Refused => Keeps(doc, e, {})
  BY <1>2, Found, ReorderDaysKeeps
<1> HIDE DEF e
<1> QED
  BY <1>1, <1>3, AnsweringWhole

LEMMA handleUpdateTripSound ==
  ASSUME IInv, NEW c \in Clients, handleUpdateTrip(c)
  PROVE  IInv' /\ Survive
<1> DEFINE req == jobs[c].req
           seen == jobs[c].seen
           period == Changed(seen, req.change)
           start == period.start
           end == period.end
           normal == start <= end /\ DayCount(start, end) <= MaxTripDays
           e == UpdateTrip(doc, start, end, req.confirm)
           gone == IF req.confirm THEN OfReport(doc) ELSE {}
<1>1. /\ jobs[c].step = "read" /\ jobs[c].step # "done" /\ req.op = "UpdateTrip"
      /\ IF normal THEN Answer(c, e) ELSE Refuse(c)
  BY DEF handleUpdateTrip, At
<1>2. DOMAIN seen = {"start", "end"} /\ seen.start \in Int /\ seen.end \in Int
  BY <1>1, Found DEF Seen
<1>3. \A f \in DOMAIN req.change : req.change[f] \in Int
  BY <1>1, Found DEF IsRequest
<1>4. start \in Int /\ end \in Int
  BY <1>2, <1>3, ChangedFields
<1>5. gone \subseteq GoneBy(req)
  BY <1>1 DEF GoneBy
<1> HIDE DEF start, end, period
<1>6. CASE normal
  <2>1. e # Refused => Keeps(doc, e, gone)
    BY <1>4, <1>6, Found, UpdateTripKeeps
  <2> HIDE DEF e, gone
  <2> QED BY <1>1, <1>5, <1>6, <2>1, Answering
<1>7. CASE ~normal
  BY <1>1, <1>7, Refusing
<1> QED
  BY <1>6, <1>7

(**************************** places and stays ***************************)

LEMMA createPlaceSound ==
  ASSUME IInv, NEW c \in Clients, createPlace(c)
  PROVE  IInv' /\ Survive
<1> DEFINE req == jobs[c].req
           row == req.row
           day == row.day
           e == CreatePlace(doc, row, day, req.pos)
<1>1. Answer(c, e) /\ jobs[c].step # "done" /\ req.op = "CreatePlace"
  BY DEF createPlace, At
<1>2. IsItem(row) /\ row.slot = "place"
  BY <1>1, Found DEF IsRequest
<1> HIDE DEF row, day
<1>3. e # Refused => Keeps(doc, e, {})
  BY <1>2, Found, CreatePlaceKeeps
<1> HIDE DEF e
<1> QED
  BY <1>1, <1>3, AnsweringWhole

LEMMA ItemChanged ==
  ASSUME NEW row, IsItem(row), row.slot = "place", NEW change,
         {"slot", "pos", "stay"} \cap DOMAIN change = {},
         "time" \in DOMAIN change => IsDate(change.time)
  PROVE  IsItem(Changed(row, change)) /\ Changed(row, change).slot = "place"
<1> DEFINE new == Changed(row, change)
<1>1. DOMAIN new = DOMAIN row
  BY ChangedFields
<1>2. new.slot = row.slot /\ new.pos = row.pos /\ new.stay = row.stay
  BY ChangedFields DEF IsItem
<1>3. new.time = row.time \/ ("time" \in DOMAIN change /\ new.time = change.time)
  BY ChangedFields DEF IsItem
<1> HIDE DEF new
<1> QED
  BY <1>1, <1>2, <1>3 DEF IsItem, new

LEMMA handleUpdatePlaceSound ==
  ASSUME IInv, NEW c \in Clients, handleUpdatePlace(c)
  PROVE  IInv' /\ Survive
<1> DEFINE req == jobs[c].req
           row == Changed(jobs[c].seen, req.change)
           e == UpdatePlace(doc, req.id, row)
<1>1. Answer(c, e) /\ jobs[c].step # "done" /\ req.op = "UpdatePlace" /\ jobs[c].step = "read"
  BY DEF handleUpdatePlace, At
<1>2. IsItem(jobs[c].seen) /\ jobs[c].seen.slot = "place"
  BY <1>1, Found DEF Seen, PlaceRequests
<1>3. /\ {"slot", "pos", "stay"} \cap DOMAIN req.change = {}
      /\ "time" \in DOMAIN req.change => IsDate(req.change.time)
  BY <1>1, Found DEF IsRequest
<1>4. IsItem(row) /\ row.slot = "place"
  BY <1>2, <1>3, ItemChanged
<1> HIDE DEF row
<1>5. e # Refused => Keeps(doc, e, {})
  BY <1>4, Found, UpdatePlaceKeeps
<1> HIDE DEF e
<1> QED
  BY <1>1, <1>5, AnsweringWhole

LEMMA handleDeletePlaceSound ==
  ASSUME IInv, NEW c \in Clients, handleDeletePlace(c)
  PROVE  IInv' /\ Survive
<1> DEFINE req == jobs[c].req
           e == DeletePlace(doc, req.id, jobs[c].seen.day)
           gone == {req.id}
<1>1. Answer(c, e) /\ jobs[c].step # "done" /\ req.op = "DeletePlace"
  BY DEF handleDeletePlace, At
<1>2. gone \subseteq GoneBy(req)
  BY <1>1 DEF GoneBy
<1>3. e # Refused => Keeps(doc, e, gone)
  BY Found, DeletePlaceKeeps
<1> HIDE DEF e, gone
<1> QED
  BY <1>1, <1>2, <1>3, Answering

LEMMA handleMovePlaceSound ==
  ASSUME IInv, NEW c \in Clients, handleMovePlace(c)
  PROVE  IInv' /\ Survive
<1> DEFINE req == jobs[c].req
           e == MovePlace(doc, req.id, req.day, req.pos)
<1>1. Answer(c, e) /\ jobs[c].step # "done"
  BY DEF handleMovePlace, At
<1>2. e # Refused => Keeps(doc, e, {})
  BY Found, MovePlaceKeeps
<1> HIDE DEF e
<1> QED
  BY <1>1, <1>2, AnsweringWhole

LEMMA handleCopyPlaceSound ==
  ASSUME IInv, NEW c \in Clients, handleCopyPlace(c)
  PROVE  IInv' /\ Survive
<1> DEFINE req == jobs[c].req
           source == jobs[c].seen
           e == CopyPlace(doc, source, req.day, req.pos)
<1>1. Answer(c, e) /\ jobs[c].step # "done" /\ req.op = "CopyPlace" /\ jobs[c].step = "read"
  BY DEF handleCopyPlace, At
<1>2. IsItem(source) /\ source.slot = "place"
  BY <1>1, Found DEF Seen, PlaceRequests
<1> HIDE DEF source
<1>3. e # Refused => Keeps(doc, e, {})
  BY <1>2, Found, CopyPlaceKeeps
<1> HIDE DEF e
<1> QED
  BY <1>1, <1>3, AnsweringWhole

LEMMA handleUpdateNightSound ==
  ASSUME IInv, NEW c \in Clients, handleUpdateNight(c)
  PROVE  IInv' /\ Survive
<1> DEFINE e == SetNightStory(doc, jobs[c].req.id)
<1>1. Answer(c, e) /\ jobs[c].step # "done"
  BY DEF handleUpdateNight, At
<1>2. e # Refused => Keeps(doc, e, {})
  BY Found, SetNightStoryKeeps
<1> HIDE DEF e
<1> QED
  BY <1>1, <1>2, AnsweringWhole

LEMMA handleCreateStaySound ==
  ASSUME IInv, NEW c \in Clients, handleCreateStay(c)
  PROVE  IInv' /\ Survive
<1> DEFINE row == jobs[c].req.row
           e == CreateStay(doc, row)
<1>1. Answer(c, e) /\ jobs[c].step # "done" /\ jobs[c].req.op = "CreateStay"
  BY DEF handleCreateStay, At
<1>2. IsStay(row)
  BY <1>1, Found DEF IsRequest
<1> HIDE DEF row
<1>3. Keeps(doc, e, {})
  BY <1>2, Found, CreateStayKeeps
<1> HIDE DEF e
<1> QED
  BY <1>1, <1>3, AnsweringWhole

LEMMA handleUpdateStaySound ==
  ASSUME IInv, NEW c \in Clients, handleUpdateStay(c)
  PROVE  IInv' /\ Survive
<1> DEFINE req == jobs[c].req
           seen == jobs[c].seen
           row == Changed(seen, req.change)
           e == UpdateStay(doc, req.id, row)
<1>1. Answer(c, e) /\ jobs[c].step # "done" /\ req.op = "UpdateStay" /\ jobs[c].step = "read"
  BY DEF handleUpdateStay, At
<1>2. IsStay(seen)
  BY <1>1, Found DEF Seen
<1>3. \A f \in {"in", "out"} \cap DOMAIN req.change : req.change[f] \in Int
  BY <1>1, Found DEF IsRequest
<1>4. DOMAIN row = DOMAIN seen /\ row["in"] \in Int /\ row["out"] \in Int
  <2>1. DOMAIN seen = {"in", "out", "point"} /\ seen["in"] \in Int /\ seen["out"] \in Int
    BY <1>2 DEF IsStay
  <2>2. /\ DOMAIN row = DOMAIN seen
        /\ \A f \in DOMAIN seen : row[f] = IF f \in DOMAIN req.change THEN req.change[f] ELSE seen[f]
    BY ChangedFields
  <2>3. \A f \in {"in", "out"} : row[f] \in Int
    BY <1>3, <2>1, <2>2
  <2> QED BY <2>2, <2>3
<1> HIDE DEF row
<1>5. IsStay(row)
  BY <1>2, <1>4 DEF IsStay
<1>6. e # Refused => Keeps(doc, e, {})
  BY <1>5, Found, UpdateStayKeeps
<1> HIDE DEF e
<1> QED
  BY <1>1, <1>6, AnsweringWhole

LEMMA handleDeleteStaySound ==
  ASSUME IInv, NEW c \in Clients, handleDeleteStay(c)
  PROVE  IInv' /\ Survive
<1> DEFINE e == DeleteStay(doc, jobs[c].req.id)
<1>1. Answer(c, e) /\ jobs[c].step # "done"
  BY DEF handleDeleteStay, At
<1>2. e # Refused => Keeps(doc, e, {})
  BY Found, DeleteStayKeeps
<1> HIDE DEF e
<1> QED
  BY <1>1, <1>2, AnsweringWhole

(***************************** legs and tracks ***************************)

LEMMA handleUpdateLegSound ==
  ASSUME IInv, NEW c \in Clients, handleUpdateLeg(c)
  PROVE  IInv' /\ Survive
<1> DEFINE req == jobs[c].req
           leg == Changed(jobs[c].seen, req.change)
           route == IF leg.route = "via" /\ ~Routed(leg.mode) THEN "fastest" ELSE leg.route
           mode == leg.mode
           e == UpdateLeg(doc, req.id, mode, route)
<1>1. jobs[c].step # "done" /\ Answer(c, e)
  BY DEF handleUpdateLeg, At
<1> HIDE DEF mode, route
<1>2. e # Refused => Keeps(doc, e, {})
  BY Found, UpdateLegKeeps
<1> HIDE DEF e
<1> QED
  BY <1>1, <1>2, AnsweringWhole

LEMMA updateCompositeLegSound ==
  ASSUME IInv, NEW c \in Clients, updateCompositeLeg(c)
  PROVE  IInv' /\ Survive
<1> DEFINE req == jobs[c].req
           parts == jobs[c].seen.parts
           e == SaveLegParts(doc, req.id, parts, None)
<1>1. jobs[c].step # "done" /\ (Answer(c, e) \/ Refuse(c))
  BY DEF updateCompositeLeg, At
<1> HIDE DEF parts
<1>2. doc.next = doc.next + 0
  BY Found DEF Tables
<1>3. e # Refused => Keeps(doc, e, {})
  BY <1>2, Found, SaveLegPartsKeeps
<1> HIDE DEF e
<1> QED
  BY <1>1, <1>3, AnsweringWhole, Refusing

LEMMA handleSetLegSegmentsSound ==
  ASSUME IInv, NEW c \in Clients, handleSetLegSegments(c)
  PROVE  IInv' /\ Survive
<1> DEFINE req == jobs[c].req
           n == Len(jobs[c].seen)
           parts == [k \in DOMAIN jobs[c].seen |-> [jobs[c].seen[k] EXCEPT !.id = doc.next + k - 1]]
           b == [doc EXCEPT !.next = @ + n]
           e == SaveLegParts(b, req.id, parts, None)
<1>1. Answer(c, e) /\ jobs[c].step # "done" /\ req.op = "SetLegSegments" /\ jobs[c].step = "carried"
  BY DEF handleSetLegSegments, At
<1> HIDE DEF parts
<1>2. n \in Nat
  BY <1>1, Found DEF Seen
<1> HIDE DEF n
<1>4. DOMAIN b = DOMAIN doc /\ (\A h \in DOMAIN doc \ {"next"} : b[h] = doc[h]) /\ b.next = doc.next + n
  BY Found DEF Tables
<1> HIDE DEF b
<1>3. e # Refused => Keeps(doc, e, {})
  BY <1>2, <1>4, Found, SaveLegPartsKeeps
<1> HIDE DEF e
<1> QED
  BY <1>1, <1>3, AnsweringWhole

LEMMA collapseLegSound ==
  ASSUME IInv, NEW c \in Clients, collapseLeg(c)
  PROVE  IInv' /\ Survive
<1> DEFINE req == jobs[c].req
           parts == <<>>
           mode == IF req.parts = <<>> THEN jobs[c].seen.mode ELSE req.parts[1].mode
           e == SaveLegParts(doc, req.id, parts, mode)
<1>1. Answer(c, e) /\ jobs[c].step # "done"
  BY DEF collapseLeg, At
<1> HIDE DEF parts, mode
<1>2. doc.next = doc.next + 0
  BY Found DEF Tables
<1>3. e # Refused => Keeps(doc, e, {})
  BY <1>2, Found, SaveLegPartsKeeps
<1> HIDE DEF e
<1> QED
  BY <1>1, <1>3, AnsweringWhole

LEMMA PinLegRouteSound ==
  ASSUME IInv, NEW c \in Clients, PinLegRoute(c)
  PROVE  IInv' /\ Survive
<1> DEFINE seen == jobs[c].seen
           input == seen.leg.input
           for == seen.for
           l == jobs[c].req.id
           source == "provider"
           pinned == TRUE
           e == SaveLegCalculation(doc, l, input, source, pinned, for)
<1>0. Refuse(c) \/ (doc' = e /\ UNCHANGED report /\ Goes(c, "done", seen))
  BY DEF PinLegRoute
<1> HIDE DEF input, for, l, source, pinned
<1>1. CASE Refuse(c)
  BY <1>1, Refusing
<1>2. CASE doc' = e /\ UNCHANGED report /\ Goes(c, "done", seen)
  <2>1. Keeps(doc, e, {}) /\ e.days = doc.days
    BY Found, SaveLegCalculationKeeps
  <2>2. Seen(jobs[c].req, "done", seen)
    BY SeenNothing
  <2> HIDE DEF e
  <2> QED
    BY <1>2, <2>1, <2>2, Storing
<1> QED
  BY <1>0, <1>1, <1>2

LEMMA calculateLegsSound ==
  ASSUME IInv, NEW c \in Clients, calculateLegs(c)
  PROVE  IInv' /\ Survive
<1> DEFINE asked == jobs[c].seen
           ask == Head(asked)
           rest == Tail(asked)
<1>1. PICK source \in Outcomes(ask.for) :
        /\ doc' = IF ask.part THEN SaveSegmentCalculation(doc, ask.id, ask.input, source, ask.for)
                  ELSE SaveLegCalculation(doc, ask.id, ask.input, source, FALSE, ask.for)
        /\ Goes(c, "calculating", rest) /\ report' = report
  BY DEF calculateLegs
<1> DEFINE id == ask.id
           input == ask.input
           for == ask.for
           pinned == FALSE
           part == SaveSegmentCalculation(doc, id, input, source, for)
           leg == SaveLegCalculation(doc, id, input, source, pinned, for)
<1>2. doc' = part \/ doc' = leg
  BY <1>1
<1> HIDE DEF id, input, for, pinned, rest
<1>3. Keeps(doc, part, {}) /\ part.days = doc.days
  BY Found, SaveSegmentCalculationKeeps
<1>4. Keeps(doc, leg, {}) /\ leg.days = doc.days
  BY Found, SaveLegCalculationKeeps
<1> HIDE DEF part, leg
<1>5. Seen(jobs[c].req, "calculating", rest)
  BY SeenNothing
<1>6. Goes(c, "calculating", rest) /\ report' = report
  BY <1>1
<1>7. CASE doc' = part
  BY <1>3, <1>5, <1>6, <1>7, Storing
<1>8. CASE doc' = leg
  BY <1>4, <1>5, <1>6, <1>8, Storing
<1> QED
  BY <1>2, <1>7, <1>8

LEMMA handleImportItemTrackSound ==
  ASSUME IInv, NEW c \in Clients, handleImportItemTrack(c)
  PROVE  IInv' /\ Survive
<1> DEFINE req == jobs[c].req
           seen == jobs[c].seen
           first == req.first
           last == req.last
           e == SaveTrack(doc, req.id, first, last)
<1>1. /\ req.op = "ImportTrack" /\ jobs[c].step = "read"
      /\ Refuse(c) \/ (e # Refused /\ doc' = e /\ report' = report /\ Goes(c, "saved", seen))
  BY DEF handleImportItemTrack, At
<1>2. IsItem(seen) /\ seen.slot = "place"
  BY <1>1, Found DEF Seen, PlaceRequests
<1>3. Seen(req, "saved", seen)
  BY <1>1, <1>2 DEF Seen, DayRequests, PlaceRequests
<1> HIDE DEF first, last, seen
<1>4. e # Refused => Keeps(doc, e, {}) /\ e.days = doc.days
  BY Found, SaveTrackKeeps
<1> HIDE DEF e
<1>5. CASE Refuse(c)
  BY <1>5, Refusing
<1>6. CASE e # Refused /\ doc' = e /\ report' = report /\ Goes(c, "saved", seen)
  BY <1>3, <1>4, <1>6, Storing
<1> QED
  BY <1>1, <1>5, <1>6

LEMMA fillFromTrackSound ==
  ASSUME IInv, NEW c \in Clients, fillFromTrack(c)
  PROVE  IInv' /\ Survive
<1> DEFINE req == jobs[c].req
           item == jobs[c].seen
           placed == IF item.point = None THEN [item EXCEPT !.point = req.first] ELSE item
           timed == IF doc.kind = "report" /\ item.time = None THEN [placed EXCEPT !.time = req.time] ELSE placed
           e == UpdatePlace(doc, req.id, timed)
<1>1. /\ req.op = "ImportTrack" /\ jobs[c].step = "saved"
      /\ Reads(c, "done", None) \/ Answer(c, e)
  BY DEF fillFromTrack, At
<1>2. IsItem(item) /\ item.slot = "place" /\ IsDate(req.time)
  BY <1>1, Found DEF Seen, PlaceRequests, IsRequest
<1>3. IsItem(placed) /\ placed.slot = "place"
  BY <1>2 DEF IsItem
<1> HIDE DEF placed
<1>4. IsItem(timed) /\ timed.slot = "place"
  BY <1>2, <1>3 DEF IsItem
<1> HIDE DEF timed
<1>5. e # Refused => Keeps(doc, e, {})
  BY <1>4, Found, UpdatePlaceKeeps
<1> HIDE DEF e
<1>6. Seen(req, "done", None) /\ jobs[c].step # "done"
  BY <1>1, SeenNothing
<1>7. CASE Reads(c, "done", None)
  BY <1>6, <1>7, Reading
<1>8. CASE Answer(c, e)
  BY <1>5, <1>6, <1>8, AnsweringWhole
<1> QED
  BY <1>1, <1>7, <1>8

LEMMA handleDeleteItemTrackSound ==
  ASSUME IInv, NEW c \in Clients, handleDeleteItemTrack(c)
  PROVE  IInv' /\ Survive
<1> DEFINE e == DeleteTrack(doc, jobs[c].req.id)
<1>1. Answer(c, e) /\ jobs[c].step # "done"
  BY DEF handleDeleteItemTrack, At
<1>2. e # Refused => Keeps(doc, e, {})
  BY Found, DeleteTrackKeeps
<1> HIDE DEF e
<1> QED
  BY <1>1, <1>2, AnsweringWhole

(********************************* reports *******************************)

LEMMA TablesAreRead ==
  ASSUME NEW rows, NEW next \in Nat, IsTable(rows, next)
  PROVE  IsRead(rows)
BY DEF IsTable, IsRead

LEMMA readContentSound ==
  ASSUME IInv, NEW c \in Clients, readContent(c)
  PROVE  IInv' /\ Survive
<1> DEFINE req == jobs[c].req
           seen == jobs[c].seen
<1>1. /\ req.op = "CreateReport" /\ jobs[c].step = "read"
      /\ \E k \in DOMAIN ReadOrder :
           /\ ReadOrder[k] \notin DOMAIN seen
           /\ Reads(c, "read", [name \in DOMAIN seen \cup {ReadOrder[k]} |->
                                  IF name = ReadOrder[k] THEN Table(name) ELSE seen[name]])
  BY DEF readContent, At
<1>2. PICK table \in {"days", "items", "stays", "legs", "parts", "tracks"} :
        /\ table \notin DOMAIN seen
        /\ Reads(c, "read", [name \in DOMAIN seen \cup {table} |-> IF name = table THEN Table(name) ELSE seen[name]])
  BY <1>1 DEF ReadOrder
<1> DEFINE more == [name \in DOMAIN seen \cup {table} |-> IF name = table THEN Table(name) ELSE seen[name]]
<1>3. PartlyRead(seen)
  BY <1>1, Found DEF Seen
<1>4. /\ DOMAIN more = DOMAIN seen \cup {table}
      /\ \A name \in DOMAIN seen : more[name] = seen[name]
      /\ more[table] = Table(table)
  BY <1>2
<1>5. Reads(c, "read", more)
  BY <1>2
<1> HIDE DEF more
<1>6. /\ table = "days" => more.days = doc.days
      /\ table = "items" => more.items = doc.items
      /\ table = "stays" => more.stays = doc.stays
      /\ table = "legs" => more.legs = doc.legs
  BY <1>4 DEF Table
<1>7. /\ IsRead(doc.days) /\ IsRead(doc.items) /\ IsRead(doc.stays) /\ IsRead(doc.legs)
      /\ \A x \in DOMAIN doc.days : IsDay(doc.days[x])
      /\ \A i \in DOMAIN doc.items : IsItem(doc.items[i])
      /\ \A s \in DOMAIN doc.stays : IsStay(doc.stays[s])
  BY Found, TablesAreRead DEF Tables
<1>8. PartlyRead(more)
  <2>1. {"start", "end"} \subseteq DOMAIN more /\ more.start \in Int /\ more.end \in Int
    BY <1>3, <1>4 DEF PartlyRead
  <2>2. "days" \in DOMAIN more => IsRead(more.days) /\ \A x \in DOMAIN more.days : IsDay(more.days[x])
    BY <1>3, <1>4, <1>6, <1>7 DEF PartlyRead
  <2>3. "items" \in DOMAIN more => IsRead(more.items) /\ \A i \in DOMAIN more.items : IsItem(more.items[i])
    BY <1>3, <1>4, <1>6, <1>7 DEF PartlyRead
  <2>4. "stays" \in DOMAIN more => IsRead(more.stays) /\ \A s \in DOMAIN more.stays : IsStay(more.stays[s])
    BY <1>3, <1>4, <1>6, <1>7 DEF PartlyRead
  <2>5. "legs" \in DOMAIN more => IsRead(more.legs)
    BY <1>3, <1>4, <1>6, <1>7 DEF PartlyRead
  <2> QED BY <2>1, <2>2, <2>3, <2>4, <2>5 DEF PartlyRead
<1>9. Seen(req, "read", more)
  BY <1>1, <1>8 DEF Seen, DayRequests, PlaceRequests
<1> QED
  BY <1>5, <1>9, Reading

LEMMA handleCreateReportSound ==
  ASSUME IInv, NEW c \in Clients, handleCreateReport(c)
  PROVE  IInv' /\ Survive
<1> DEFINE req == jobs[c].req
           seen == jobs[c].seen
           start == seen.start
           end == seen.end
           live == doc
<1>1. /\ req.op = "CreateReport" /\ jobs[c].step = "read" /\ Range(ReadOrder) \subseteq DOMAIN seen
      /\ report' = CreateReport(seen, start, end, live) /\ doc' = doc /\ Goes(c, "done", None)
  BY DEF handleCreateReport, At
<1>2. PartlyRead(seen)
  BY <1>1, Found DEF Seen
<1>3. {"days", "items", "stays", "legs"} \subseteq DOMAIN seen
  BY <1>1 DEF ReadOrder, Range
<1>4. Readable(seen) /\ start \in Int /\ end \in Int
  BY <1>2, <1>3 DEF PartlyRead, Readable
<1> HIDE DEF seen, start, end, live
<1>5. MarksMatchNights(CreateReport(seen, start, end, live))
  BY <1>4, ReportMarks
<1>6. MarksMatchNights(report')
  BY <1>1, <1>5
<1>7. Seen(req, "done", None)
  BY SeenNothing
<1>8. Goes(c, "done", None) /\ doc' = doc
  BY <1>1
<1>9. DOMAIN jobs' = Clients /\ \A b \in Clients : JobFits(jobs'[b])
  BY <1>7, <1>8, GoesOn
<1> QED
  BY <1>6, <1>8, <1>9 DEF IInv, Survive

(******************************** the steps ******************************)

LEMMA StepSound ==
  ASSUME IInv, [Next]_vars
  PROVE  IInv' /\ Survive
<1>1. ASSUME NEW c \in Clients, Step(c)
      PROVE  IInv' /\ Survive
  <2>1. CASE dayFor(c) \/ placeFor(c) \/ stayFor(c) \/ legFor(c) \/ tripFor(c) \/ readDay(c) \/ legEndPoints(c)
    BY <2>1, dayForSound, placeForSound, stayForSound, legForSound, tripForSound, readDaySound, legEndPointsSound
  <2>2. CASE handleCreateDay(c) \/ handleUpdateDay(c) \/ handleDeleteDay(c) \/ handleDuplicateDay(c)
               \/ handleReorderDays(c) \/ handleUpdateTrip(c)
    BY <2>2, handleCreateDaySound, handleUpdateDaySound, handleDeleteDaySound, handleDuplicateDaySound,
       handleReorderDaysSound, handleUpdateTripSound
  <2>3. CASE createPlace(c) \/ handleUpdatePlace(c) \/ handleDeletePlace(c) \/ handleMovePlace(c) \/ handleCopyPlace(c)
    BY <2>3, createPlaceSound, handleUpdatePlaceSound, handleDeletePlaceSound, handleMovePlaceSound,
       handleCopyPlaceSound
  <2>4. CASE handleUpdateNight(c) \/ handleCreateStay(c) \/ handleUpdateStay(c) \/ handleDeleteStay(c)
    BY <2>4, handleUpdateNightSound, handleCreateStaySound, handleUpdateStaySound, handleDeleteStaySound
  <2>5. CASE \/ handleUpdateLeg(c) \/ updateCompositeLeg(c) \/ handleSetLegSegments(c) \/ collapseLeg(c)
             \/ calculateLegs(c) \/ PinLegRoute(c)
    BY <2>5, handleUpdateLegSound, updateCompositeLegSound, handleSetLegSegmentsSound, collapseLegSound,
       calculateLegsSound, PinLegRouteSound
  <2>6. CASE \/ handleCalculateLegs(c) \/ handleRetryEstimatedLegs(c) \/ handleRecalculate(c) \/ RecalculateNamed(c)
             \/ CalculationEnds(c) \/ handleLegAlternatives(c) \/ handlePinLegRoute(c) \/ validateChosenRoute(c)
    BY <2>6, CalculationSound
  <2>7. CASE handleImportItemTrack(c) \/ fillFromTrack(c) \/ handleDeleteItemTrack(c)
    BY <2>7, handleImportItemTrackSound, fillFromTrackSound, handleDeleteItemTrackSound
  <2>8. CASE readContent(c) \/ handleCreateReport(c)
    BY <2>8, readContentSound, handleCreateReportSound
  <2> QED
    BY <1>1, <2>1, <2>2, <2>3, <2>4, <2>5, <2>6, <2>7, <2>8 DEF Step
<1>2. CASE UNCHANGED vars
  BY <1>2 DEF vars, IInv, Survive
<1> QED
  BY <1>1, <1>2 DEF Next, Idle

LEMMA InitSound ==
  ASSUME Init
  PROVE  IInv
<1>1. PICK scenario \in Scenarios :
        /\ doc = scenario.doc
        /\ report = None
        /\ jobs = [c \in Clients |->
             IF c \in DOMAIN scenario.reqs THEN [req |-> scenario.reqs[c], step |-> "new", seen |-> None]
             ELSE [req |-> [op |-> "nothing"], step |-> "done", seen |-> None]]
  BY DEF Init
<1>2. Whole(doc)
  BY <1>1, ItineraryAssumption DEF Whole
<1>3. ASSUME NEW c \in Clients
      PROVE  JobFits(jobs[c])
  <2>1. CASE c \in DOMAIN scenario.reqs
    <3> DEFINE req == scenario.reqs[c]
    <3>1. IsRequest(req)
      BY <2>1, ItineraryAssumption
    <3> HIDE DEF req
    <3>2. jobs[c] = [req |-> req, step |-> "new", seen |-> None]
      BY <1>1, <2>1 DEF req
    <3>3. Seen(req, "new", None)
      BY DEF Seen
    <3> QED BY <3>1, <3>2, <3>3 DEF JobFits
  <2>2. CASE c \notin DOMAIN scenario.reqs
    <3> DEFINE req == [op |-> "nothing"]
    <3>1. jobs[c] = [req |-> req, step |-> "done", seen |-> None]
      BY <1>1, <2>2
    <3>2. req.op = "nothing"
      OBVIOUS
    <3> HIDE DEF req
    <3>3. IsRequest(req)
      BY <3>2 DEF IsRequest
    <3>4. Seen(req, "done", None)
      BY SeenNothing
    <3> QED BY <3>1, <3>3, <3>4 DEF JobFits
  <2> QED BY <2>1, <2>2
<1> QED
  BY <1>1, <1>2, <1>3 DEF IInv

(* As many days as positions, no two at one: every position is taken.      *)
LEMMA PositionsTaken ==
  ASSUME NEW d, Tables(d), DaysFill(d), Distinct(d)
  PROVE  {d.days[x].pos : x \in DOMAIN d.days} = 0..(d.end - d.start)
<1> DEFINE S == DOMAIN d.days
           n == d.end - d.start + 1
           T == 0..(n - 1)
           f == [x \in S |-> d.days[x].pos]
<1>1. d.start \in Int /\ d.end \in Int /\ d.start <= d.end /\ Cardinality(S) = n /\ IsFiniteSet(S)
  BY DEF Tables, DaysFill, IsTable
<1>2. n \in Nat /\ n > 0 /\ T = 0..(d.end - d.start)
  BY <1>1
<1>3. \A x \in S : d.days[x].pos \in T
  BY <1>2 DEF DaysFill
<1> HIDE DEF n
<1>4. IsFiniteSet(T) /\ Cardinality(T) = n
  <2>1. 0 \in Int /\ n - 1 \in Int /\ (0 > n - 1 => n = 0)
    BY <1>2
  <2>2. IsFiniteSet(0..(n - 1)) /\ Cardinality(0..(n - 1)) = IF 0 > n - 1 THEN 0 ELSE (n - 1) - 0 + 1
    BY <2>1, FS_Interval
  <2> QED BY <1>2, <2>1, <2>2 DEF T
<1>5. f \in [S -> T] /\ \A x, y \in S : f[x] = f[y] => x = y
  BY <1>3 DEF Distinct
<1>6. f \in Injection(S, T)
  BY <1>5 DEF Injection, IsInjective
<1> HIDE DEF T
<1>7. f \in Surjection(S, T)
  BY <1>1, <1>4, <1>6, FS_Injection
<1>8. \A t \in T : \E x \in S : f[x] = t
  BY <1>7 DEF Surjection
<1>9. \A t \in T : \E x \in S : d.days[x].pos = t
  BY <1>8
<1> QED
  BY <1>2, <1>3, <1>9

LEMMA InvariantTells ==
  ASSUME IInv
  PROVE  DaysFollowTheTrip
<1>1. {doc.days[x].pos : x \in DOMAIN doc.days} = 0..(doc.end - doc.start)
  BY PositionsTaken DEF IInv, Whole
<1>2. /\ Cardinality(DOMAIN doc.days) = doc.end - doc.start + 1
      /\ \A x \in DOMAIN doc.days : doc.days[x].date = doc.start + doc.days[x].pos
  BY DEF IInv, Whole, DaysFill
<1>3. \A d \in Documents : MarksMatchNights(d)
  BY DEF IInv, Whole, Documents
<1> QED
  BY <1>1, <1>2, <1>3 DEF DaysFollowTheTrip

(******************************** theorems *******************************)

(* Whoever adds, removes, copies, reorders days or moves the period between *)
(* whatever reads, the trip has a day for every date of its period, in      *)
(* order, and the stay marks of it and of its report follow the nights      *)
(* (resizeTrip, layoutDates and syncAnchors of storage/postgres).           *)
THEOREM DaysAlwaysFollowTheTrip == Spec => []DaysFollowTheTrip
<1>1. Init => IInv
  BY InitSound
<1>2. IInv /\ [Next]_vars => IInv'
  BY StepSound
<1>3. IInv => DaysFollowTheTrip
  BY InvariantTells
<1> QED
  BY <1>1, <1>2, <1>3, PTL DEF Spec

(* No step loses a place of a plan but its own removal; a report loses one  *)
(* also with its day or with a shorter period somebody confirmed            *)
(* (DeletePlace, DeleteDay and fitDocuments of storage/postgres).           *)
THEOREM PlacesAlwaysSurvive == Spec => PlacesSurvive
<1>1. Init => IInv
  BY InitSound
<1>2. IInv /\ [Next]_vars => IInv'
  BY StepSound
<1>3. IInv /\ [Next]_vars => [Survive]_vars
  BY StepSound
<1>4. Spec => [][Survive]_vars
  BY <1>1, <1>2, <1>3, PTL DEF Spec
<1> QED
  BY <1>4 DEF PlacesSurvive, Survive
=============================================================================
