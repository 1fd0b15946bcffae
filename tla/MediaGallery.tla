----------------------------- MODULE MediaGallery -----------------------------
(* Which pictures a trip and a place of its report show, and which of them    *)
(* are favourites (httpapi/media.go, postgres/media.go), over the library of  *)
(* MediaLibrary.  The transactions read committed rows: each statement sees   *)
(* what is committed when it starts and waits for the rows another one holds. *)
EXTENDS MediaLibrary

CONSTANT FavoriteLimit

\* A picture is linked once to what shows it, and no place starts with too many favourites.
SoundGalleries(scene) ==
  LET links == scene.db.links
  IN /\ IsFiniteSet(links)
     /\ \A l, m \in links : l.media = m.media /\ l.target = m.target => l = m
     /\ \A t \in Targets : Cardinality({l \in links : l.target = t /\ l.fav}) <= FavoriteLimit
     /\ \A c \in DOMAIN scene.reqs :
          scene.reqs[c].op = "setLinks" /\ scene.reqs[c].favorites # None => IsFiniteSet(scene.reqs[c].favorites)

ASSUME GalleriesAssumption == FavoriteLimit \in Nat /\ \A scene \in Scenes : SoundGalleries(scene)

Row(l) == <<l.media, l.target, l.by>>
Gallery(t) == {l \in db.links : l.target = t}
InGallery(t) == {l.media : l \in Gallery(t)}
MediaIds == {m.id : m \in db.media}

Working(c) == task[c].step \in {"clear", "clearing", "insert", "marking", "count", "commit"}
Overlaps(c) == [past EXCEPT !.overlapped = @ \/ \E o \in Clients \ {c} : Working(o)]

\* The rows a statement has seen that are still there, once nobody else holds them.
Free(c) == \A o \in Clients \ {c} : {Row(l) : l \in task[o].rows} \cap {Row(l) : l \in task[c].seen} = {}
Still(c) == {l \in db.links : \E s \in task[c].seen : Row(s) = Row(l)}

\* The favourites are checked against the gallery before anything is written.
handleSetMediaLinks(c) ==
  LET req == Req(c)
  IN /\ At(c, "setLinks", "new")
     /\ IF /\ db.trip
           /\ req.favorites # None =>
                req.target # "trip" /\ Cardinality(req.favorites) <= FavoriteLimit /\ req.favorites \subseteq req.list
        THEN Goes(c, "links", <<>>) ELSE Ends(c, "refused")
     /\ UNCHANGED <<db, files, holder, sweep, troubles, past>>

\* The files are known, and which of the shown ones are favourites is read.
SetLinks(c) ==
  /\ At(c, "setLinks", "links")
  /\ IF db.trip /\ Req(c).list \subseteq MediaIds
     THEN Goes(c, "clear", [marked |-> {l.media : l \in {l \in Gallery(Req(c).target) : l.fav}}])
     ELSE Ends(c, "refused")
  /\ past' = Overlaps(c)
  /\ UNCHANGED <<db, files, holder, sweep, troubles>>

ClearLinks(c) ==
  /\ At(c, "setLinks", "clear")
  /\ Goes(c, "clearing", [seen |-> Gallery(Req(c).target)])
  /\ UNCHANGED <<db, files, holder, sweep, troubles, past>>

LinksCleared(c) ==
  /\ At(c, "setLinks", "clearing") /\ Free(c)
  /\ Goes(c, "insert", [rows |-> Still(c)])
  /\ UNCHANGED <<db, files, holder, sweep, troubles, past>>

\* A link somebody else has added meanwhile stays as it is; a file that is gone aborts.
InsertLinks(c) ==
  LET req == Req(c)
      kept == db.links \ task[c].rows
      new == {[media |-> m, target |-> req.target, fav |-> m \in task[c].marked, by |-> c] :
                m \in {m \in req.list : \A l \in kept : l.media = m => l.target # req.target}}
  IN /\ At(c, "setLinks", "insert")
     /\ IF db.trip /\ req.list \subseteq MediaIds
        THEN /\ db' = [db EXCEPT !.links = kept \cup new]
             /\ past' = [past EXCEPT !.shown[req.target] = req.list]
             /\ Goes(c, IF req.favorites = None THEN "done" ELSE "favorites", [rows |-> {}, seen |-> {}])
        ELSE Goes(c, "refused", [rows |-> {}, seen |-> {}]) /\ UNCHANGED <<db, past>>
     /\ UNCHANGED <<files, holder, sweep, troubles>>

SetFavorites(c) ==
  LET req == Req(c)
  IN /\ At(c, "setLinks", "favorites")
     /\ LockedRows \cap Gallery(req.target) = {}
     /\ IF db.trip /\ req.favorites \subseteq InGallery(req.target)
        THEN /\ db' = [db EXCEPT !.links = {IF l.target = req.target THEN [l EXCEPT !.fav = l.media \in req.favorites]
                                            ELSE l : l \in db.links}]
             /\ Ends(c, "done")
        ELSE UNCHANGED db /\ Ends(c, "refused")
     /\ UNCHANGED <<files, holder, sweep, troubles, past>>

\* The trip's own gallery has no favourites: the mark lands on the report's places.
handleSetMediaFavorites(c) ==
  /\ At(c, "setFavorite", "new")
  /\ IF Req(c).list \subseteq MediaIds THEN Goes(c, "mark", <<>>) ELSE Ends(c, "refused")
  /\ UNCHANGED <<db, files, holder, sweep, troubles, past>>

SetFavorite(c) ==
  /\ At(c, "setFavorite", "mark")
  /\ Goes(c, "marking", [seen |-> {l \in db.links : l.media \in Req(c).list /\ l.target # "trip"}])
  /\ past' = Overlaps(c)
  /\ UNCHANGED <<db, files, holder, sweep, troubles>>

WithMark(rows, fav) == (db.links \ rows) \cup {[l EXCEPT !.fav = fav] : l \in rows}

\* Taking a mark away cannot leave a place over the limit.
MarkRows(c) ==
  /\ At(c, "setFavorite", "marking") /\ Free(c)
  /\ IF Req(c).favorite THEN Goes(c, "count", [rows |-> Still(c)]) /\ UNCHANGED db
     ELSE db' = [db EXCEPT !.links = WithMark(Still(c), FALSE)] /\ Ends(c, "done")
  /\ UNCHANGED <<files, holder, sweep, troubles, past>>

\* Marks of another transaction still open are not among those counted.
LimitsOfTheMarked(links, list) ==
  Cardinality({l \in links : l.media \in list /\ l.fav}) <= FavoriteLimit

checkFavoriteLimits(links, list) ==
  \A t \in {l.target : l \in {l \in links : l.media \in list}} :
    Cardinality({l \in links : l.target = t /\ l.fav}) <= FavoriteLimit

CountFavorites(c) ==
  /\ At(c, "setFavorite", "count")
  /\ IF checkFavoriteLimits(WithMark(task[c].rows, TRUE), Req(c).list) THEN Goes(c, "commit", <<>>)
     ELSE Goes(c, "refused", [rows |-> {}, seen |-> {}])
  /\ UNCHANGED <<db, files, holder, sweep, troubles, past>>

CommitFavorites(c) ==
  /\ At(c, "setFavorite", "commit")
  /\ db' = [db EXCEPT !.links = WithMark(task[c].rows, TRUE)]
  /\ Goes(c, "done", [rows |-> {}, seen |-> {}])
  /\ UNCHANGED <<files, holder, sweep, troubles, past>>

GalleryStep(c) ==
  \/ handleSetMediaLinks(c) \/ SetLinks(c) \/ ClearLinks(c) \/ LinksCleared(c) \/ InsertLinks(c)
  \/ SetFavorites(c) \/ handleSetMediaFavorites(c) \/ SetFavorite(c) \/ MarkRows(c) \/ CountFavorites(c)
  \/ CommitFavorites(c)

AllDone == \A c \in Clients : task[c].step \in {"done", "refused", "failed"}
Rests == AllDone /\ sweep.step = "idle" /\ UNCHANGED vars

Next ==
  \/ \E c \in Clients : LibraryStep(c)
  \/ \E c \in Clients : GalleryStep(c)
  \/ sweepStore \/ leftoverAge \/ Crash \/ Rests

Spec == Init /\ [][Next]_vars

FavoritesOf(t) == {l \in Gallery(t) : l.fav}

\* A place of a report never shows more favourites than there is room for: a
\* mark too many is refused (httpapi/media.go handleSetMediaFavorites).
FavoritesLimited == \A t \in Targets : Cardinality(FavoritesOf(t)) <= FavoriteLimit

\* A gallery shows everything the last request named that is still stored, and
\* without two transactions at once nothing else and no favourite too many
\* (postgres/media.go SetLinks: "makes a target show exactly these files").
GalleryIsAsAsked ==
  /\ ~past.overlapped => FavoritesLimited
  /\ \A t \in Targets :
       past.shown[t] # None =>
         /\ past.shown[t] \cap MediaIds \subseteq InGallery(t)
         /\ ~past.overlapped => InGallery(t) \subseteq past.shown[t]
===============================================================================
