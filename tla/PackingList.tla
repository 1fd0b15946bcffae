----------------------------- MODULE PackingList ------------------------------
(* What to take on a trip (domain/packing.go, storage/postgres/packing.go):   *)
(* categories in an order and things in each, or in none.  A list is          *)
(* [cats, items], two sets of rows; every operator is one transaction and     *)
(* gives the list it commits, None when it is refused and rolled back.        *)
(*                                                                            *)
(* A name is <<word, spelling>>: two names are equal in any case when their   *)
(* words are.  Identifiers are numbers, in the order the rows were created.   *)
EXTENDS Integers, Sequences, FiniteSets
LOCAL INSTANCE SequencesExt

CONSTANTS None, Colors   \* the palette of the tags, a sequence

NoList == [cats |-> {}, items |-> {}]

SameName(x, y) == x[1] = y[1]

DefaultPackingColor(count) == Colors[1 + (count % Len(Colors))]

InCategory(l, cat) == {i \in l.items : i.cat = cat}

\* An item without a category is in none; any other must be one of this list's.
KnownCategory(l, cat) == cat = None \/ \E k \in l.cats : k.id = cat

\* row_number() OVER (ORDER BY position, created_at, id), from zero.
Before(x, y) == x.pos < y.pos \/ (x.pos = y.pos /\ x.id < y.id)
Numbered(rows) == {[r EXCEPT !.pos = Cardinality({s \in rows : Before(s, r)})] : r \in rows}

End(rows) == IF rows = {} THEN 0 ELSE 1 + Max({r.pos : r \in rows})

(******************************** categories ******************************)

CreateCategory(l, k) ==
  LET n == Cardinality(l.cats)
      color == IF k.color = None THEN DefaultPackingColor(n) ELSE k.color
  IN [l EXCEPT !.cats = @ \cup {[k EXCEPT !.pos = n, !.color = color]}]

UpdateCategory(l, k) ==
  IF ~KnownCategory(l, k.id) THEN None
  ELSE [l EXCEPT !.cats = {IF c.id = k.id THEN [k EXCEPT !.pos = c.pos] ELSE c : c \in @}]

\* The items go with their category, and the gap closes.
DeleteCategory(l, cat) ==
  IF ~KnownCategory(l, cat) THEN None
  ELSE [cats |-> Numbered({k \in l.cats : k.id # cat}), items |-> l.items \ InCategory(l, cat)]

\* The order may leave out a category it does not know of.
NamesKnown(order, rows) == Cardinality({k \in rows : k.id \in ToSet(order)}) = Len(order)

\* As many rows as the order has places, and no category left over.
NamesEach(order, rows) ==
  /\ Cardinality({k \in rows : k.id \in ToSet(order)}) = Len(order)
  /\ Cardinality(rows) = Len(order)

ReorderCategories(l, order) ==
  LET place(k) == CHOOSE n \in DOMAIN order : order[n] = k.id
  IN IF ~NamesEach(order, l.cats) THEN None
     ELSE [l EXCEPT !.cats = {IF k.id \in ToSet(order) THEN [k EXCEPT !.pos = place(k) - 1] ELSE k : k \in @}]

(********************************** items *********************************)

Add(l, i) == [l EXCEPT !.items = @ \cup {[i EXCEPT !.pos = End(InCategory(l, i.cat))]}]

CreateItem(l, i) == IF KnownCategory(l, i.cat) THEN Add(l, i) ELSE None

Has(l, id) == \E i \in l.items : i.id = id

\* An item's own fields: its category and place change by MoveItem alone.
UpdateItem(l, i) ==
  IF ~Has(l, i.id) THEN None
  ELSE [l EXCEPT !.items = {IF x.id = i.id THEN [i EXCEPT !.cat = x.cat, !.pos = x.pos] ELSE x : x \in @}]

DeleteItem(l, id) == IF Has(l, id) THEN [l EXCEPT !.items = {i \in @ : i.id # id}] ELSE None

ResetPacked(l) == [l EXCEPT !.items = {[i EXCEPT !.packed = FALSE] : i \in @}]

renumberPackingItems(l, cat, except) ==
  LET rows == {i \in InCategory(l, cat) : i.id # except}
  IN [l EXCEPT !.items = (@ \ rows) \cup Numbered(rows)]

\* Out of range means the end.
Slot(position, count) == IF position < 0 \/ position > count THEN count ELSE position

OpenSlot(l, cat, id, position) ==
  [l EXCEPT !.items = {IF i.cat = cat /\ i.id # id /\ i.pos >= position THEN [i EXCEPT !.pos = @ + 1] ELSE i : i \in @}]

\* "from" is the category the item was in when it was read.
MoveItemTo(l, id, from, cat, position) ==
  LET numbered == renumberPackingItems(l, cat, id)
      slot == Slot(position, Cardinality({i \in InCategory(l, cat) : i.id # id}))
      opened == OpenSlot(numbered, cat, id, slot)
      moved == [opened EXCEPT !.items = {IF i.id = id THEN [i EXCEPT !.cat = cat, !.pos = slot] ELSE i : i \in @}]
  IN IF from = cat THEN moved ELSE renumberPackingItems(moved, from, None)

MoveItem(l, id, from, cat, position) ==
  IF KnownCategory(l, cat) /\ Has(l, id) THEN MoveItemTo(l, id, from, cat, position) ELSE None

(**************************** templates added at once *********************)

\* A category the list has under the same name is filled rather than repeated.
findPackingCategory(l, name) ==
  LET named == {k \in l.cats : SameName(k.name, name)}
  IN {k.id : k \in {k \in named : \A o \in named : ~Before(o, k)}}

Fill(l, cat, items) ==
  FoldLeft(LAMBDA list, i :
             IF \E x \in InCategory(list, cat) : SameName(x.name, i.name) THEN list
             ELSE Add(list, [i EXCEPT !.cat = cat]),
           l, items)

Merge(l, sections) ==
  FoldLeft(LAMBDA list, s :
             LET found == findPackingCategory(list, s.cat.name)
             IN IF found = {} THEN Fill(CreateCategory(list, s.cat), s.cat.id, s.items)
                ELSE Fill(list, CHOOSE id \in found : TRUE, s.items),
           l, sections)

AddSections(l, sections) == IF sections = <<>> THEN None ELSE Merge(l, sections)
===============================================================================
