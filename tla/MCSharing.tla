------------------------------ MODULE MCSharing ------------------------------
(* Two or three requests at once: on a list of ideas with an editor and a     *)
(* viewer while members come and go, on invitations that end, on a plan and   *)
(* the report copied from it while outsiders read them, and on downloads.     *)
EXTENDS Sharing

Town == [name |-> "town", at |-> 5]
Fare(modes, cost) == [modes |-> modes, cost |-> cost, minutes |-> None]
Idea(title) ==
  [title |-> title, countries |-> <<"no">>, places |-> <<Town>>, months |-> <<6, 7>>, least |-> 2, most |-> 5, ideal |-> None,
   stay |-> 30, food |-> None, other |-> 5, visa |-> "needed", transports |-> <<Fare(<<"car", "ship">>, 9), Fare(<<"ship">>, 4)>>]
Stored(owner, title) == [owner |-> owner, createdBy |-> owner, updatedBy |-> owner] @@ Idea(title)
Written(id, owner, title) == [owner |-> owner, idea |-> id, title |-> title, user |-> owner, action |-> "created"]

User(email, home) == [email |-> email, active |-> TRUE, unverified |-> FALSE, home |-> home]
Home(at) == [home |-> at, center |-> at + 1, radius |-> 2]

Invite(email, role, until, state) ==
  [owner |-> "o", email |-> email, role |-> role, until |-> until, state |-> state, by |-> None]

\* The way from home, through the town, past somebody else's home.
Place(at) == [at |-> at, address |-> "street", booking |-> "number", payer |-> "e"]
Content ==
  [places |-> <<Place(10), Place(20), Place(None)>>, transfers |-> <<[from |-> 11, to |-> 40, booking |-> "seat"]>>,
   legs |-> <<[line |-> <<10, 12, 15, 20>>, via |-> <<11, 16>>, change |-> 9], [line |-> <<10, 11, 30>>, via |-> <<>>, change |-> None]>>,
   tracks |-> <<[line |-> <<8, 13, 18, 31, 34>>, stops |-> <<[at |-> 9, payer |-> "o"], [at |-> 17, payer |-> None]>>],
                [line |-> <<9, 10>>, stops |-> <<[at |-> 10, payer |-> None]>>]>>]
Picture(private, at, mime) == [private |-> private, at |-> at, mime |-> mime]
Pictures ==
  ("p1" :> Picture(FALSE, 10, "image/jpeg")) @@ ("p2" :> Picture(TRUE, 30, "image/jpeg")) @@ ("p3" :> Picture(FALSE, 31, "image/png"))

Db ==
  [now |-> 1, began |-> 2,
   users |-> ("o" :> User("o@", Home(10))) @@ ("e" :> User("e@", None)) @@ ("v" :> User("v@", Home(30))) @@ ("n" :> User("n@", None))
             @@ ("w" :> [User("w@", None) EXCEPT !.unverified = TRUE]),
   members |-> (<<"o", "e">> :> "editor") @@ (<<"o", "v">> :> "viewer"),
   ideas |-> ("k1" :> Stored("o", "fjords")) @@ ("k2" :> Stored("e", "dunes")),
   history |-> <<Written("k1", "o", "fjords"), Written("k2", "e", "dunes")>>,
   tags |-> ("g1" :> [user |-> "v", name |-> <<"sea", "lower">>, color |-> "red"])
            @@ ("g2" :> [user |-> "v", name |-> <<"hike", "lower">>, color |-> "blue"])
            @@ ("g3" :> [user |-> "e", name |-> <<"sea", "lower">>, color |-> "red"]),
   worn |-> {<<"g1", "k1">>, <<"g1", "plan">>, <<"g3", "k1">>, <<"g3", "k2">>},
   invites |-> ("i1" :> Invite("n@", "editor", 3, "open")) @@ ("i2" :> Invite("w@", "viewer", 2, "open"))
               @@ ("i3" :> Invite("v@", "viewer", 1, "open")),
   trips |-> ("plan" :> [owner |-> "o", members |-> {"e", "v"}, source |-> None, doc |-> Content, pictures |-> <<>>])
             @@ ("report" :> [owner |-> "e", members |-> {"n"}, source |-> "plan", doc |-> Content, pictures |-> Pictures]),
   links |-> ("l1" :> [trip |-> "report", private |-> FALSE, download |-> TRUE, until |-> 3, revoked |-> FALSE, uses |-> 0])
             @@ ("l2" :> [trip |-> "plan", private |-> TRUE, download |-> FALSE, until |-> None, revoked |-> FALSE, uses |-> 0])
             @@ ("l3" :> [trip |-> "report", private |-> TRUE, download |-> TRUE, until |-> None, revoked |-> FALSE, uses |-> 0]),
   tickets |-> ("t1" :> [trip |-> "report", reader |-> [user |-> None, link |-> "l1"], items |-> {"p1", "p3"}, until |-> 2])
               @@ ("t2" :> [trip |-> "report", reader |-> [user |-> "n", link |-> None], items |-> {"p1", "p2"}, until |-> 2])]

\* Where time plays no part it stands at its end.
Late == [Db EXCEPT !.now = MaxNow, !.invites = <<>>, !.tickets = <<>>, !.links = [l \in DOMAIN @ |-> [Db.links[l] EXCEPT !.until = None]]]

Scene(d, reqs) == [db |-> d, reqs |-> reqs]
Two(x, y) == ("a" :> x) @@ ("b" :> y)
Three(x, y, z) == Two(x, y) @@ ("c" :> z)

(********************************** the ideas ******************************)

Form == [Idea("isles") EXCEPT !.countries = <<"se", "no", "se">>, !.months = <<7, 6, 7>>, !.visa = "",
                              !.places = <<[name |-> "", at |-> None], Town>>,
                              !.transports = <<Fare(<<"ship", "car", "ship">>, 7), Fare(<<"car">>, None), Fare(<<"ship">>, 12)>>]
Wrong == {[Form EXCEPT !.title = ""], [Form EXCEPT !.ideal = 6], [Form EXCEPT !.transports = <<Fare(<<>>, 1)>>]}
Free == [Form EXCEPT !.transports = <<>>, !.stay = None, !.other = None]

Changing(user) ==
  {[op |-> "updateIdea", by |-> user, id |-> "k1", idea |-> Form], [op |-> "deleteIdea", by |-> user, id |-> "k1"],
   [op |-> "createIdea", by |-> user, id |-> "k3", owner |-> "o", idea |-> Free]}
IdeaChanges ==
  Changing("e") \cup Changing("v") \cup {[op |-> "updateIdea", by |-> "e", id |-> "k1", idea |-> form] : form \in Wrong}
  \cup {[op |-> "getIdea", by |-> user, id |-> "k1"] : user \in {"v", "n"}}
EditorAgain == [op |-> "updateIdea", by |-> "e", id |-> "k1", idea |-> Idea("capes")]
OwnerChanges == {[op |-> "updateIdea", by |-> "o", id |-> "k1", idea |-> Idea("lakes")], [op |-> "deleteIdea", by |-> "o", id |-> "k1"]}

Tags(op, user, id, tags) == [op |-> op, by |-> user, id |-> id, tags |-> tags]
Taggings ==
  {Tags("setIdeaTags", "v", "k1", tags) : tags \in {{}, {"g1", "g2"}, {"g3"}}}
  \cup {Tags("setIdeaTags", "e", "k1", {}), Tags("setIdeaTags", "n", "k1", {}), Tags("setTripTags", "v", "plan", {"g2"}),
        Tags("setTripTags", "n", "plan", {})}
TagChanges ==
  {[op |-> "createTag", by |-> "v", id |-> "g4", name |-> <<"SEA", "upper">>, color |-> None],
   [op |-> "createTag", by |-> "v", id |-> "g4", name |-> <<"sea", "upper">>, color |-> None],
   [op |-> "updateTag", by |-> "v", id |-> "g2", set |-> [name |-> <<"sea", "upper">>]],
   [op |-> "updateTag", by |-> "v", id |-> "g1", set |-> [name |-> <<"sea", "upper">>, color |-> "blue"]],
   [op |-> "updateTag", by |-> "e", id |-> "g1", set |-> [color |-> "blue"]],
   [op |-> "deleteTag", by |-> "v", id |-> "g1"], [op |-> "deleteTag", by |-> "e", id |-> "g1"],
   Tags("setIdeaTags", "v", "k1", {"g2"}), Tags("setTripTags", "v", "plan", {"g1", "g2"})}
Roles ==
  {[op |-> "updateMember", by |-> "o", user |-> "e", role |-> "viewer"], [op |-> "updateMember", by |-> "e", user |-> "v", role |-> "editor"],
   [op |-> "addMember", by |-> "o", user |-> "n", role |-> "editor"], [op |-> "addMember", by |-> "o", user |-> "e", role |-> "editor"],
   [op |-> "removeMember", by |-> "o", user |-> "e"], [op |-> "removeMember", by |-> "o", user |-> "v"],
   [op |-> "leave", by |-> "v", owner |-> "o"], [op |-> "leave", by |-> "n", owner |-> "o"],
   [op |-> "deleteAccount", by |-> "v"], [op |-> "deleteAccount", by |-> "e"],
   [op |-> "leaveTrip", by |-> "o", trip |-> "plan", user |-> "v"], [op |-> "deleteTrip", by |-> "o", trip |-> "plan"]}

(********************************* the invitations *************************)

Redeeming ==
  {[op |-> "accept", by |-> "n", id |-> "i1"], [op |-> "accept", by |-> "e", id |-> "i1"], [op |-> "accept", by |-> "n", id |-> "i2"],
   [op |-> "register", by |-> None, id |-> "i2", new |-> "x"], [op |-> "register", by |-> None, id |-> "i1", new |-> "x"],
   [op |-> "preview", by |-> None, id |-> "i1"]}
Again == [op |-> "accept", by |-> "n", id |-> "i1"]
Inviting ==
  {[op |-> "invite", by |-> "o", id |-> "i9", email |-> email, role |-> "viewer"] : email \in {"n@", "w@", "v@"}}
  \cup {[op |-> "revoke", by |-> user, id |-> "i1"] : user \in {"o", "e"}}
  \cup {[op |-> "addMember", by |-> "o", user |-> "n", role |-> "viewer"], [op |-> "removeMember", by |-> "o", user |-> "n"],
        [op |-> "register", by |-> None, id |-> "i2", new |-> "y"], [op |-> "deleteAccount", by |-> "n"]}

(******************************* read-only links ***************************)

Reading ==
  {[op |-> op, by |-> None, link |-> link] : op \in {"shared", "sharedDocument"}, link \in {"l1", "l2"}}
  \cup {[op |-> "sharedFile", by |-> None, link |-> "l1", picture |-> p] : p \in {"p1", "p2"}}
  \cup {[op |-> "sharedFile", by |-> None, link |-> "l3", picture |-> "p2"]}
Homes ==
  {[op |-> "setHome", by |-> "e", home |-> 20, radius |-> 2], [op |-> "setHome", by |-> "o", home |-> 10, radius |-> 2],
   [op |-> "setHome", by |-> "o", home |-> 12, radius |-> 4], [op |-> "setHome", by |-> "v", home |-> 5, radius |-> 9],
   [op |-> "deleteHome", by |-> "v"], [op |-> "joinTrip", by |-> "e", trip |-> "report", user |-> "v"],
   [op |-> "leaveTrip", by |-> "o", trip |-> "plan", user |-> "v"], [op |-> "movePlace", by |-> "e", trip |-> "report", at |-> 11],
   [op |-> "hidePicture", by |-> "e", trip |-> "report", picture |-> "p1"], [op |-> "deleteTrip", by |-> "e", trip |-> "report"]}
Links ==
  {[op |-> "revokeLink", by |-> user, id |-> "l1"] : user \in {"e", "n"}}
  \cup {[op |-> "createLink", by |-> "e", id |-> "l9", link |-> [Db.links["l1"] EXCEPT !.until = until]] : until \in {None, 0, 9}}
  \cup {[op |-> "deleteTrip", by |-> "o", trip |-> "plan"], [op |-> "deleteTrip", by |-> "e", trip |-> "report"]}

(********************************** downloads ******************************)

Issuing ==
  {[op |-> "sharedDownload", by |-> None, id |-> "t3", link |-> link, pictures |-> pictures] :
     link \in {"l1", "l2", "l3"}, pictures \in {{"p1"}, {"p2", "p3"}}}
  \cup {[op |-> "download", by |-> "n", id |-> "t3", trip |-> "report", pictures |-> {"p2"}],
        [op |-> "download", by |-> "v", id |-> "t3", trip |-> "report", pictures |-> {"p2"}]}
Opening == {[op |-> "open", by |-> None, id |-> ticket] : ticket \in {"t1", "t2"}}
Stops ==
  {[op |-> "leaveTrip", by |-> "e", trip |-> "report", user |-> "n"], [op |-> "hidePicture", by |-> "e", trip |-> "report", picture |-> "p1"],
   [op |-> "revokeLink", by |-> "e", id |-> "l1"], [op |-> "deleteTrip", by |-> "e", trip |-> "report"],
   [op |-> "setHome", by |-> "n", home |-> 31, radius |-> 2], [op |-> "deleteAccount", by |-> "n"]}

Opens2 == [op |-> "open", by |-> None, id |-> "t2"]
LeavesTrip == [op |-> "leaveTrip", by |-> "e", trip |-> "report", user |-> "n"]
JoinsAgain == [op |-> "joinTrip", by |-> "e", trip |-> "report", user |-> "n"]

MCClients == {"a", "b", "c"}
MCModes == <<"car", "train", "ship">>
MCColors == <<"red", "blue", "green">>

MCScenes ==
  {Scene(Late, Three(x, y, z)) : x \in IdeaChanges, y \in OwnerChanges, z \in Roles \cup {EditorAgain}}
  \cup {Scene(Late, Three(x, y, z)) : x \in Taggings, y \in TagChanges, z \in Roles \cup OwnerChanges}
  \cup {Scene(Db, Three(x, y, Again)) : x \in Redeeming, y \in Inviting}
  \cup {Scene(Db, Three(Again, [op |-> "removeMember", by |-> "o", user |-> "n"], Again))}
  \cup {Scene(Late, Three(x, y, z)) : x \in Reading, y \in Homes, z \in Links}
  \cup {Scene(Db, Two(x, y)) : x \in Reading, y \in Links}
  \cup {Scene(Db, Three(x, [op |-> "open", by |-> None, id |-> "t3"], y)) : x \in Issuing, y \in Stops}
  \cup {Scene(Db, Two(x, y)) : x \in Opening, y \in Stops}
  \cup {Scene(Db, Three(Opens2, LeavesTrip, JoinsAgain))}
===============================================================================
