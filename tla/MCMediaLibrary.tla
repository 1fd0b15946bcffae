---------------------------- MODULE MCMediaLibrary ----------------------------
(* Two requests at once on one trip, one account and one idea: everything     *)
(* that stores or removes files while the store is swept, everything that     *)
(* grows with the allowances nearly used up, and the galleries.               *)
EXTENDS MediaGallery, TLC

File(id, sum, source) == [id |-> id, sum |-> sum, source |-> source, size |-> 1]
Link(m, t, fav) == [media |-> m, target |-> t, fav |-> fav, by |-> None]

\* Three pictures, a photo, an attachment of 1, a track of 2, an avatar of 1.
Stored ==
  [trip |-> TRUE, quota |-> 0, media |-> {File("m1", "s1", None), File("m2", "s2", "o2"), File("m3", "s3", None)},
   attached |-> {[sum |-> "d1", size |-> 1]}, track |-> 2, copied |-> 0, account |-> TRUE, avatar |-> TRUE,
   idea |-> TRUE, photos |-> {"p1"}, links |-> {}]

Seeds == MediaKeys(Stored) \cup OtherKeys(Stored)
News == {Key(id, "file") : id \in {"u1", "u2", "v1"}} \cup PhotoKeys("q1") \cup PhotoKeys("q2")
StoredFiles == [k \in Seeds \cup News |-> IF k \in Seeds THEN [size |-> 1, old |-> TRUE] ELSE None]

Untroubled == [faults |-> 0, crashes |-> 0, sweeps |-> 0, hours |-> 0]
Swept == [Untroubled EXCEPT !.sweeps = 1, !.hours = 1]

Scene(d, reqs, trouble) == [db |-> d, files |-> StoredFiles, reqs |-> reqs, troubles |-> trouble]
Two(x, y) == ("a" :> x) @@ ("b" :> y)

Uploads ==
  {[op |-> "upload", parts |-> <<File("u1", "s1", None)>>],
   [op |-> "upload", parts |-> <<File("u1", "s4", "o4"), File("u2", "s5", None)>>],
   [op |-> "photo", id |-> "q1", size |-> 1], [op |-> "setAvatar", size |-> 2]}
Later ==
  {[op |-> "upload", parts |-> <<File("v1", "s6", "s4")>>], [op |-> "upload", parts |-> <<File("v1", "s5", None)>>],
   [op |-> "photo", id |-> "q2", size |-> 1]}
Removals ==
  {[op |-> "deleteMedia", id |-> "m1"], [op |-> "deleteTrip"], [op |-> "deleteMe"], [op |-> "deleteAvatar"],
   [op |-> "deletePhoto", id |-> "p1"], [op |-> "deleteIdea"]}
Renderings == {[op |-> "render", id |-> id] : id \in {"m1", "u1"}}

\* One byte is left to the instance, and one to the trip.
Tight == [Stored EXCEPT !.quota = 7, !.copied = 3]
Growing ==
  {[op |-> "attach", file |-> [sum |-> sum, size |-> 1]] : sum \in {"d1", "d2"}}
  \cup {[op |-> "track", size |-> size] : size \in {1, 3}}
  \cup {[op |-> "report"], [op |-> "setAvatar", size |-> 2], [op |-> "detach", sum |-> "d1"],
        [op |-> "deleteTrack"], [op |-> "deleteAvatar"], [op |-> "quota", quota |-> 6], [op |-> "deleteTrip"]}

Shown == [Stored EXCEPT !.links = {Link("m1", "place", TRUE), Link("m2", "place", FALSE), Link("m3", "place", FALSE),
                                   Link("m1", "trip", FALSE)}]
Galleries ==
  {[op |-> "setLinks", target |-> "place", list |-> list, favorites |-> None] : list \in {{"m1", "m3"}, {"m2"}}}
  \cup {[op |-> "setLinks", target |-> "place", list |-> {"m1", "m2"}, favorites |-> {"m2"}],
        [op |-> "setLinks", target |-> "trip", list |-> {"m2"}, favorites |-> None],
        [op |-> "setFavorite", list |-> {"m2"}, favorite |-> TRUE],
        [op |-> "setFavorite", list |-> {"m3"}, favorite |-> TRUE],
        [op |-> "setFavorite", list |-> {"m1"}, favorite |-> FALSE],
        [op |-> "deleteMedia", id |-> "m2"]}

MCClients == {"a", "b"}

MCScenes ==
  {Scene(Stored, Two(x, y), trouble) :
     x \in Uploads, y \in Later \cup Removals \cup Renderings, trouble \in {[Untroubled EXCEPT !.faults = 1], Swept}}
  \cup {Scene(Stored, Two(x, y), [Swept EXCEPT !.faults = 1]) : x \in Renderings, y \in Removals}
  \cup {Scene(Stored, "a" :> x, [faults |-> 1, crashes |-> 1, sweeps |-> 1, hours |-> 1]) : x \in Uploads \cup Removals \cup Renderings}
  \cup {Scene(Tight, Two(x, y), Untroubled) : x \in Growing \cup Uploads, y \in Growing \cup Later}
  \cup {Scene(Shown, Two(x, y), Untroubled) : x \in Galleries, y \in Galleries \cup {[op |-> "deleteTrip"], [op |-> "deleteMe"]}}
===============================================================================
