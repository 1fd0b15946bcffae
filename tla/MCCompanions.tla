----------------------------- MODULE MCCompanions -----------------------------
(* Two or three people of one trip at once: on the packing list while members *)
(* come and go, on the costs of a plan and of a report whose budget is read   *)
(* meanwhile, and one who reads the list of trips in pages while it changes.  *)
EXTENDS Companions

Name(word) == <<word, "lower">>
Upper(word) == <<word, "upper">>
Category(id, name, pos) == [id |-> id, name |-> name, color |-> None, pos |-> pos]
Thing(id, cat, name, bringer, pos) ==
  [id |-> id, cat |-> cat, name |-> name, packed |-> FALSE, bringer |-> bringer, pos |-> pos]

\* A gap in the first category, and things in none.
List0 ==
  [cats |-> {Category(1, Name("clothes"), 0), Category(2, Name("papers"), 1)},
   items |-> {Thing(3, 1, Name("socks"), "e", 0), Thing(4, 1, Name("hat"), None, 2),
              Thing(5, 2, Name("pass"), "v", 0), Thing(6, None, Name("misc"), None, 0)}]

Cost(id, kind, day, planned, paidBy, split, shares) ==
  [id |-> id, kind |-> kind, day |-> day, planned |-> planned, actual |-> None, per |-> FALSE, category |-> "food",
   paidBy |-> paidBy, split |-> split, shares |-> shares]
Equal(users) == [k \in DOMAIN users |-> [user |-> users[k], amount |-> None]]
Own(x, n, y, m) == <<[user |-> x, amount |-> n], [user |-> y, amount |-> m]>>

\* Two days, an idea without one, a hike with a stop, a stay mark between.
Document ==
  [days |-> <<"d1", "d2">>,
   items |-> <<[Cost(31, "place", "d1", 5, "e", "individuals", Own("e", 4, "v", 6)) EXCEPT !.per = TRUE],
               Cost(32, "activity", "d1", 10, "e", "everyone", Equal(<<"e", "v", "o">>)),
               Cost(33, "activity", None, 7, "o", "everyone", Equal(<<"e", "v">>)),
               Cost(34, "anchor", "d2", None, None, "none", <<>>),
               Cost(35, "place", "d2", 7, "o", "individuals", Own("e", 3, "v", 4))>>,
   tracks |-> <<[item |-> 32, stops |-> <<Cost(41, "place", None, 4, "v", "everyone", Equal(<<"o", "e", "v">>))>>],
                [item |-> 33, stops |-> <<Cost(42, "place", None, 2, "o", "individuals", Own("e", 1, "v", 1))>>]>>,
   stays |-> <<[id |-> 51, planned |-> 100, actual |-> None]>>,
   transfers |-> <<[id |-> 52, planned |-> 20, actual |-> None, per |-> TRUE]>>,
   expenses |-> <<[id |-> 53, day |-> "d1", category |-> "other", planned |-> 3, actual |-> None],
                  [id |-> 54, day |-> None, category |-> "other", planned |-> 9, actual |-> None]>>,
   legs |-> <<[id |-> 61, from |-> 31, to |-> 32, planned |-> 2, actual |-> None],
              [id |-> 62, from |-> 34, to |-> 35, planned |-> 1, actual |-> None],
              [id |-> 63, from |-> 32, to |-> 34, planned |-> 6, actual |-> None]>>]

Spent ==
  [Document EXCEPT !.items[1].actual = 6, !.items[1].shares = Own("e", 5, "v", 7), !.items[2].actual = 11,
                   !.stays[1].actual = 90, !.transfers[1].actual = 25, !.legs[1].actual = 3,
                   !.expenses[2].actual = 8]

Db(kind, packing, doc, trips) ==
  [trip |-> [kind |-> kind, travelers |-> 2, budget |-> 150], owner |-> "o",
   members |-> ("e" :> "editor") @@ ("v" :> "viewer"), users |-> {"o", "e", "v", "n"},
   packing |-> packing, doc |-> doc, trips |-> trips, today |-> 10]

Scene(d, reqs) == [db |-> d, reqs |-> reqs]
Two(x, y) == ("a" :> x) @@ ("b" :> y)
Three(x, y, z) == Two(x, y) @@ ("c" :> z)

(******************************* the packing list **************************)

Template(k, by) ==
  [op |-> "addSections", by |-> by,
   sections |-> <<[cat |-> Category(k, Upper("clothes"), 0),
                   items |-> <<Thing(k + 1, None, Name("boots"), None, 0), Thing(k + 2, None, Upper("SOCKS"), None, 0)>>],
                  [cat |-> Category(k + 3, Name("games"), 0), items |-> <<Thing(k + 4, None, Name("cards"), None, 0)>>]>>]

ListChanges ==
  {Template(11, "e"), [op |-> "createCategory", by |-> "e", row |-> Category(16, Upper("games"), 0)],
   [op |-> "reorderCategories", by |-> "e", order |-> <<2, 1>>],
   [op |-> "updateCategory", by |-> "e", id |-> 1, set |-> [name |-> Name("warm")]],
   [op |-> "deleteCategory", by |-> "e", id |-> 1], [op |-> "deleteItem", by |-> "e", id |-> 3],
   [op |-> "resetPacked", by |-> "e"], [op |-> "resetPacked", by |-> "v"],
   [op |-> "moveItem", by |-> "e", id |-> 3, cat |-> 2, position |-> 0],
   [op |-> "moveItem", by |-> "e", id |-> 4, cat |-> 1, position |-> 0],
   [op |-> "moveItem", by |-> "e", id |-> 5, cat |-> None, position |-> 9],
   [op |-> "createItem", by |-> "e", row |-> Thing(17, 1, Name("coat"), "v", 0)],
   [op |-> "createItem", by |-> "e", row |-> Thing(17, 9, Name("coat"), None, 0)],
   [op |-> "updateItem", by |-> "e", id |-> 3, set |-> [packed |-> TRUE]],
   [op |-> "updateItem", by |-> "e", id |-> 4, set |-> [bringer |-> "v"]],
   [op |-> "updateItem", by |-> "e", id |-> 4, set |-> [bringer |-> "n"]]}

Others ==
  {Template(21, "o"), [op |-> "reorderCategories", by |-> "o", order |-> <<2, 1>>],
   [op |-> "reorderCategories", by |-> "o", order |-> <<1>>],
   [op |-> "deleteCategory", by |-> "o", id |-> 2], [op |-> "createCategory", by |-> "o", row |-> Category(26, Name("kids"), 0)],
   [op |-> "moveItem", by |-> "o", id |-> 3, cat |-> None, position |-> -1],
   [op |-> "moveItem", by |-> "o", id |-> 3, cat |-> 1, position |-> 1],
   [op |-> "createItem", by |-> "o", row |-> Thing(27, 1, Name("coat"), "e", 0)],
   [op |-> "updateItem", by |-> "o", id |-> 3, set |-> [name |-> Name("hat")]],
   [op |-> "deleteItem", by |-> "o", id |-> 4]}

Roles ==
  {[op |-> "removeMember", by |-> "o", user |-> u] : u \in {"e", "v"}}
  \cup {[op |-> "removeMember", by |-> "e", user |-> "v"], [op |-> "addMember", by |-> "o", user |-> "n", role |-> "viewer"],
        [op |-> "addMember", by |-> "o", user |-> "e", role |-> "editor"],
        [op |-> "updateMember", by |-> "o", user |-> "e", role |-> "viewer"],
        [op |-> "deleteAccount", by |-> "v"], [op |-> "deleteTrip", by |-> "o"]}

(********************************** the costs ******************************)

Reading == [op |-> "getBudget", by |-> "v"]

CostChanges ==
  {[op |-> "updatePlace", by |-> "e", id |-> 35, set |-> set] : set \in
     {[planned |-> 8], [category |-> "transport"], [planned |-> 8, shares |-> Own("e", 4, "v", 4)],
      [split |-> "everyone", paidBy |-> "n"], [shares |-> Own("e", 3, "e", 4)], [paidBy |-> None]}}
  \cup {[op |-> "updatePlace", by |-> "e", id |-> 31, set |-> set] : set \in
          {[actual |-> 9], [actual |-> 9, shares |-> Own("v", 9, "e", 9)], [planned |-> None], [day |-> None]}}
  \cup {[op |-> "updatePlace", by |-> "e", id |-> 32, set |-> [planned |-> 11]],
        [op |-> "createPlace", by |-> "e", row |-> Cost(36, "place", "d2", 9, "v", "individuals", Own("o", 3, "v", 6))],
        [op |-> "createPlace", by |-> "e", row |-> Cost(36, "place", None, 9, None, "none", <<>>)],
        [op |-> "createStop", by |-> "e", id |-> 32, row |-> Cost(43, "place", None, 8, "o", "everyone", Equal(<<"v", "o", "e">>))],
        [op |-> "createStop", by |-> "e", id |-> 35, row |-> Cost(43, "place", None, 8, None, "none", <<>>)],
        [op |-> "updateStop", by |-> "e", id |-> 41, set |-> [planned |-> 5]],
        [op |-> "updateStop", by |-> "e", id |-> 42, set |-> [category |-> "transport"]],
        [op |-> "createExpense", by |-> "e", row |-> [id |-> 55, day |-> "d2", category |-> "food", planned |-> 4, actual |-> None]],
        [op |-> "updateExpense", by |-> "e", id |-> 53, set |-> [day |-> "d2", planned |-> 2]],
        [op |-> "updateExpense", by |-> "e", id |-> 54, set |-> [planned |-> None]],
        [op |-> "createTransfer", by |-> "e", row |-> [id |-> 56, planned |-> 1, actual |-> 2, per |-> FALSE]],
        [op |-> "updateTransfer", by |-> "e", id |-> 52, set |-> [actual |-> 8]]}

CostOthers ==
  {[op |-> "deleteStop", by |-> "o", id |-> 41], [op |-> "deletePlace", by |-> "o", id |-> 32],
   [op |-> "deleteTrack", by |-> "o", id |-> 32], [op |-> "deleteExpense", by |-> "o", id |-> 53],
   [op |-> "deleteTransfer", by |-> "o", id |-> 52], [op |-> "deleteDay", by |-> "o", day |-> "d2"],
   [op |-> "createStop", by |-> "o", id |-> 32, row |-> Cost(44, "place", None, 3, None, "none", <<>>)],
   [op |-> "updatePlace", by |-> "o", id |-> 35, set |-> [shares |-> Own("o", 2, "e", 5)]],
   [op |-> "updatePlace", by |-> "o", id |-> 35, set |-> [planned |-> 9, shares |-> Own("o", 4, "e", 5)]],
   [op |-> "updateStop", by |-> "o", id |-> 42, set |-> [planned |-> 3, shares |-> Own("e", 1, "v", 2)]],
   [op |-> "updatePlace", by |-> "o", id |-> 31, set |-> [per |-> FALSE, shares |-> Own("e", 2, "v", 3)]],
   [op |-> "updateTrip", by |-> "o", set |-> [travelers |-> 3]], [op |-> "updateTrip", by |-> "o", set |-> [budget |-> None]],
   [op |-> "removeMember", by |-> "o", user |-> "v"], [op |-> "deleteAccount", by |-> "v"], [op |-> "deleteTrip", by |-> "o"]}

(******************************* the list of trips *************************)

Listed(kind, owner, start, end, activity) ==
  [kind |-> kind, owner |-> owner, members |-> {"o", "e"} \ {owner}, start |-> start, end |-> end, closed |-> FALSE,
   activity |-> activity]

Trips ==
  <<Listed("plan", "o", 8, 12, 5), Listed("plan", "e", 11, 13, 9), Listed("report", "o", 2, 4, 7),
    Listed("report", "o", 1, 9, 9), Listed("plan", "o", 3, 5, 6)>>

Filters ==
  {[scope |-> "all", kind |-> None, touches |-> None, sort |-> sort, limit |-> limit] :
     sort \in {"relevance", "updated"}, limit \in {0, 1, 5}}
  \cup {[scope |-> "owned", kind |-> None, touches |-> None, sort |-> "updated", limit |-> 1],
        [scope |-> "shared", kind |-> None, touches |-> None, sort |-> "updated", limit |-> 1],
        [scope |-> "all", kind |-> "report", touches |-> None, sort |-> "relevance", limit |-> 1],
        [scope |-> "all", kind |-> None, touches |-> <<4, 9>>, sort |-> "relevance", limit |-> 1]}

ListedChanges ==
  {[op |-> "midnight"], [op |-> "dropTrip", id |-> 1], [op |-> "createTrip", id |-> 6, row |-> Listed("plan", "o", 9, 10, 12)],
   [op |-> "changeTrip", id |-> 5, set |-> [closed |-> TRUE, activity |-> 11]],
   [op |-> "changeTrip", id |-> 2, set |-> [start |-> 10, activity |-> 11]],
   [op |-> "changeTrip", id |-> 2, set |-> [members |-> {}]]}

MCClients == {"a", "b", "c"}
MCCategories == {"food", "other", "transport", "accommodation"}
MCColors == <<"red", "blue">>

MCScenes ==
  {Scene(Db("plan", List0, Costs!Empty, <<>>), Two(x, y)) : x \in ListChanges, y \in Others \cup Roles}
  \cup {Scene(Db("plan", List0, Costs!Empty, <<>>), Three(x, y, z)) :
          x \in {r \in ListChanges : r.op \in {"updateItem", "createItem"}},
          y \in Roles, z \in {[op |-> "updateItem", by |-> "o", id |-> 4, set |-> [bringer |-> "v"]]}}
  \cup {Scene(Db("report", Pack!NoList, Costs!Empty, <<>>), Two(x, y)) :
          x \in {Template(11, "e")}, y \in Roles}
  \cup {Scene(Db(IF doc = Spent THEN "report" ELSE "plan", Pack!NoList, doc, <<>>), Three(x, y, Reading)) :
          doc \in {Document, Spent}, x \in CostChanges, y \in CostOthers}
  \cup {Scene(Db("plan", Pack!NoList, Costs!Empty, Trips), Three([op |-> "list", by |-> "o", filter |-> filter], x, y)) :
          filter \in Filters, x \in ListedChanges, y \in ListedChanges}
===============================================================================
