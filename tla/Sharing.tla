------------------------------- MODULE Sharing -------------------------------
(* What is shared with whom: lists of ideas with their members, invitations,  *)
(* history and everybody's own tags (httpapi/ideas.go, ideasharing.go,        *)
(* tags.go), and trips shown to outsiders through read-only links and         *)
(* download addresses (httpapi/shares.go, mediadownload.go, home.go).         *)
(*                                                                            *)
(* A request checks who asks, then reads or writes; others come in between.   *)
EXTENDS Integers, Sequences, FiniteSets, Functions, TLC

CONSTANTS
  Clients, None,
  Countries, TravelModes,
  MaxIdeaDays, MaxIdeaPlaces, MaxIdeaCountries, MaxIdeaTransports, MaxMixedModes, MaxTransportMinutes,
  TagColors, MaxTripTags,
  MinHomeRadiusM, MaxHomeRadiusM,
  invitationLifetime, downloadLifetime, MaxNow,
  Scenes          \* [db, reqs]: what is stored, who asks for what

VARIABLES
  db,             \* now, began, users, members, ideas, history, tags, worn, invites, trips, links, tickets
  task,           \* per client: the request, how far it got, what it has read
  past            \* what happened: raced, written, overtaken, hidden, joins, page, opened

vars == <<db, task, past>>

Notes == INSTANCE IdeaNotes
Lists == INSTANCE IdeaLists
View == INSTANCE OutsideView

Tables == {"now", "began", "users", "members", "ideas", "history", "tags", "worn", "invites", "trips", "links", "tickets"}

Tells(entry, idea) == entry.title = idea.title /\ entry.user = idea.updatedBy

SoundLink(link) ==
  /\ DOMAIN link = {"trip", "private", "download", "until", "revoked", "uses"}
  /\ link.until \in Int \cup {None}

\* What the columns and the keys of the tables ask for: an address of its own for
\* every account, and an entry in the history only for an idea there is; and the
\* latest entry of each idea tells it, as long as no request has been served.
SoundLists(d) ==
  /\ DOMAIN d = Tables
  /\ \A u \in DOMAIN d.users : DOMAIN d.users[u] = {"email", "active", "unverified", "home"}
  /\ \A u, v \in DOMAIN d.users : d.users[u].email = d.users[v].email => u = v
  /\ \A i \in DOMAIN d.invites : DOMAIN d.invites[i] = {"owner", "email", "role", "until", "state", "by"}
  /\ d.began \in Nat /\ DOMAIN d.history \subseteq 1..d.began
  /\ \A k \in DOMAIN d.history : /\ DOMAIN d.history[k] = {"owner", "idea", "title", "user", "action"}
                                /\ d.history[k].idea \in DOMAIN d.ideas \cup {None}
  /\ \A id \in DOMAIN d.ideas :
       /\ id # None /\ {"title", "owner", "createdBy", "updatedBy"} \subseteq DOMAIN d.ideas[id]
       /\ \E k \in DOMAIN d.history :
            /\ d.history[k].idea = id /\ d.history[k].owner = d.ideas[id].owner /\ Tells(d.history[k], d.ideas[id])
            /\ \A other \in DOMAIN d.history : d.history[other].idea = id => other <= k

\* Those on a trip are there, its owner can sign in, a home lies in its circle,
\* and an address names somebody or a link that was given out.
SoundTrips(d) ==
  /\ d.now \in Int
  /\ \A u \in DOMAIN d.users : LET home == d.users[u].home
                              IN home # None => home \in [home : Int, center : Int, radius : Int] /\ View!InZone({home}, home.home)
  /\ \A t \in DOMAIN d.trips : LET trip == d.trips[t]
                              IN /\ DOMAIN trip = {"owner", "members", "source", "doc", "pictures"}
                                 /\ {trip.owner} \cup trip.members \subseteq DOMAIN d.users /\ ~d.users[trip.owner].unverified
                                 /\ View!Document(trip.doc)
                                 /\ \A p \in DOMAIN trip.pictures : DOMAIN trip.pictures[p] = {"private", "at", "mime"}
  /\ \A l \in DOMAIN d.links : SoundLink(d.links[l])
  /\ \A k \in DOMAIN d.tickets : /\ DOMAIN d.tickets[k] = {"trip", "reader", "items", "until"}
                                /\ LET reader == d.tickets[k].reader
                                   IN None \in {reader.user, reader.link} /\ reader.link \in DOMAIN d.links \cup {None}

SoundTables(d) == SoundLists(d) /\ SoundTrips(d)

\* Nobody else has the identifier that what a request makes is given.
NewIdentifier(scene, op, rows) ==
  \A c \in DOMAIN scene.reqs :
    LET req == scene.reqs[c]
    IN req.op = op => /\ req.id \notin DOMAIN rows \cup {None}
                      /\ \A o \in DOMAIN scene.reqs : scene.reqs[o].op = op /\ scene.reqs[o].id = req.id => o = c

SoundRequests(scene) ==
  /\ DOMAIN scene.reqs \subseteq Clients
  /\ NewIdentifier(scene, "createIdea", scene.db.ideas) /\ NewIdentifier(scene, "invite", scene.db.invites)
  /\ NewIdentifier(scene, "createLink", scene.db.links)
  /\ \A c \in DOMAIN scene.reqs : scene.reqs[c].op \in {"createIdea", "updateIdea"} => "title" \in DOMAIN scene.reqs[c].idea
  /\ \A c \in DOMAIN scene.reqs : scene.reqs[c].op = "createLink" => SoundLink(scene.reqs[c].link)
  /\ \A c \in DOMAIN scene.reqs : scene.reqs[c].op = "setHome" => scene.reqs[c].home \in Int

ScenesAssumption == \A scene \in Scenes : SoundTables(scene.db) /\ SoundRequests(scene)
RadiiAssumption == MinHomeRadiusM \in Nat /\ MaxHomeRadiusM \in Nat
ASSUME ScenesAssumption
ASSUME RadiiAssumption

Fresh(req) == [req |-> req, step |-> "new", seen |-> None]

Init ==
  \E scene \in Scenes :
    /\ db = scene.db
    /\ task = [c \in Clients |-> IF c \in DOMAIN scene.reqs THEN Fresh(scene.reqs[c])
                                 ELSE [Fresh([op |-> "nothing", by |-> None]) EXCEPT !.step = "done"]]
    /\ past = [raced |-> {}, written |-> {}, overtaken |-> {}, hidden |-> {}, joins |-> <<>>, page |-> None,
               opened |-> [c \in Clients |-> {}]]

Req(c) == task[c].req
By(c) == Req(c).by
At(c, op, step) == Req(c).op = op /\ task[c].step = step

Goes(c, step, seen) == task' = [task EXCEPT ![c].step = step, ![c].seen = seen]
Moves(c, step) == Goes(c, step, task[c].seen)
Refused(c) == Moves(c, "refused") /\ UNCHANGED <<db, past>>
Continues(c, step, seen) == Goes(c, step, seen) /\ UNCHANGED <<db, past>>
Writes(c, rows) == db' = rows /\ Moves(c, "done") /\ UNCHANGED past

Can(role, action) == role # None /\ (action = "edit" => role \in {"owner", "editor"})

(********************************** the ideas ******************************)

IdeaOps == [getIdea |-> "view", updateIdea |-> "edit", deleteIdea |-> "edit"]

\* The idea and the reader's role on its list; the form is checked before it is written.
ideaFor(c) ==
  /\ task[c].step = "new" /\ Req(c).op \in DOMAIN IdeaOps
  /\ LET id == Req(c).id
         allowed == /\ id \in Lists!List(db, By(c))
                    /\ Can(Lists!ListRole(db, By(c), db.ideas[id].owner), IdeaOps[Req(c).op])
                    /\ Req(c).op = "updateIdea" => Notes!Normalize(Req(c).idea) # None
     IN IF ~allowed THEN Refused(c)
        ELSE Continues(c, IF Req(c).op = "getIdea" THEN "done" ELSE "write", db.ideas[id])

\* A transaction begins: what it writes down bears that moment as its stamp.
Begins(c, step) == db' = [db EXCEPT !.began = @ + 1] /\ Goes(c, step, db.began + 1) /\ UNCHANGED past

\* The role is asked again as the row is locked; another change may hold it.
lockEditableIdea(c) ==
  /\ task[c].step = "write" /\ Req(c).op \in {"updateIdea", "deleteIdea"}
  /\ LET id == Req(c).id
     IN IF id \in DOMAIN db.ideas /\ Lists!ideaEditable(db, By(c), db.ideas[id].owner)
        THEN Begins(c, "locked") ELSE Refused(c)

\* Whether a change of the idea that began later has been written already.
Overtaken(c) == \E change \in past.written : change.idea = Req(c).id /\ task[c].seen < change.began

handleUpdateIdea(c) ==
  /\ At(c, "updateIdea", "locked")
  /\ IF Req(c).id \notin DOMAIN db.ideas \/ By(c) \notin DOMAIN db.users THEN Refused(c)
     ELSE /\ db' = Lists!Update(db, task[c].seen, By(c), Req(c).id, Notes!Normalize(Req(c).idea))
          /\ past' = [past EXCEPT !.written = @ \cup {[idea |-> Req(c).id, began |-> task[c].seen]},
                                  !.overtaken = IF Overtaken(c) THEN @ \cup {Req(c).id} ELSE @ \ {Req(c).id}]
          /\ Moves(c, "done")

handleDeleteIdea(c) ==
  /\ At(c, "deleteIdea", "locked")
  /\ IF Req(c).id \notin DOMAIN db.ideas \/ By(c) \notin DOMAIN db.users THEN Refused(c)
     ELSE Writes(c, Lists!Delete(db, task[c].seen, By(c), Req(c).id))

createAllowed(c) ==
  /\ At(c, "createIdea", "new")
  /\ LET allowed == /\ Can(Lists!ListRole(db, By(c), Req(c).owner), "edit")
                    /\ Notes!Normalize(Req(c).idea) # None
     IN IF allowed THEN Continues(c, "write", None) ELSE Refused(c)

createEditor(c) ==
  /\ At(c, "createIdea", "write")
  /\ IF Lists!ideaEditable(db, By(c), Req(c).owner) THEN Begins(c, "insert") ELSE Refused(c)

handleCreateIdea(c) ==
  /\ At(c, "createIdea", "insert")
  /\ IF {By(c), Req(c).owner} \subseteq DOMAIN db.users
     THEN Writes(c, Lists!Create(db, task[c].seen, By(c), Req(c).id,
                                 Lists!Over([owner |-> Req(c).owner], Notes!Normalize(Req(c).idea))))
     ELSE Refused(c)

(*********************************** the tags ******************************)

Opens(user) == {t \in DOMAIN db.trips : user \in {db.trips[t].owner} \cup db.trips[t].members}

\* Anybody who can open the idea or the trip tags it.
tagsReader(c) ==
  /\ task[c].step = "new" /\ Req(c).op \in {"setIdeaTags", "setTripTags"}
  /\ LET open == IF Req(c).op = "setIdeaTags" THEN Lists!List(db, By(c)) ELSE Opens(By(c))
     IN IF Req(c).id \in open /\ Cardinality(Req(c).tags) <= MaxTripTags THEN Continues(c, "clear", None) ELSE Refused(c)

\* The rows that are cleared are those stored as the statement begins.
tagsCleared(c) ==
  /\ task[c].step = "clear" /\ Req(c).op \in {"setIdeaTags", "setTripTags"}
  /\ IF Req(c).tags \subseteq Lists!OwnTags(db, By(c))
     THEN Continues(c, "insert", Lists!WornBy(db, By(c), Req(c).id)) ELSE Refused(c)

SetTags(c, op, things) ==
  /\ At(c, op, "insert")
  /\ LET left == db.worn \ task[c].seen
         new == Req(c).tags \X {Req(c).id}
     IN IF Req(c).tags \subseteq DOMAIN db.tags /\ Req(c).id \in things /\ left \cap new = {}
        THEN Writes(c, [db EXCEPT !.worn = left \cup new]) ELSE Refused(c)

handleSetIdeaTags(c) == SetTags(c, "setIdeaTags", DOMAIN db.ideas)
handleSetTripTags(c) == SetTags(c, "setTripTags", DOMAIN db.trips)

handleCreateTag(c) ==
  /\ At(c, "createTag", "new")
  /\ IF By(c) \in DOMAIN db.users /\ Lists!SameTagName(db, By(c), Req(c).name) = {}
     THEN Writes(c, Lists!CreateTag(db, By(c), Req(c).id, Req(c).name, Req(c).color)) ELSE Refused(c)

handleUpdateTag(c) ==
  /\ At(c, "updateTag", "new")
  /\ LET set == Req(c).set
         clash == "name" \in DOMAIN set /\ Lists!SameTagName(db, By(c), set.name) \ {Req(c).id} # {}
     IN IF Req(c).id \in Lists!OwnTags(db, By(c)) /\ ~clash THEN Writes(c, Lists!UpdateTag(db, Req(c).id, set)) ELSE Refused(c)

handleDeleteTag(c) ==
  /\ At(c, "deleteTag", "new")
  /\ IF Req(c).id \in Lists!OwnTags(db, By(c)) THEN Writes(c, Lists!DeleteTags(db, {Req(c).id})) ELSE Refused(c)

(********************************** the members ****************************)

handleAddIdeaMember(c) ==
  /\ At(c, "addMember", "new")
  /\ IF By(c) \in DOMAIN db.users /\ Lists!AddAllowed(db, By(c), Req(c).user)
     THEN Writes(c, Lists!Joined(db, By(c), Req(c).user, Req(c).role)) ELSE Refused(c)

\* The tagging of a person that was let in before they left.
Tagging(owner, user) ==
  {<<owner, user>> : c \in {c \in Clients : /\ By(c) = user /\ Req(c).op = "setIdeaTags"
                                            /\ task[c].step \in {"clear", "insert"}}}

handleUpdateIdeaMember(c) ==
  /\ At(c, "updateMember", "new")
  /\ LET owner == By(c)  user == Req(c).user
     IN IF <<owner, user>> \notin DOMAIN db.members THEN Refused(c)
        ELSE Writes(c, Lists!UpdateMember(db, owner, user, Req(c).role))

\* The owner removes a member, or the member leaves.
RemoveMember(c, op, owner, user) ==
  /\ At(c, op, "new")
  /\ IF <<owner, user>> \notin DOMAIN db.members THEN Refused(c)
     ELSE /\ db' = Lists!RemoveMember(db, owner, user)
          /\ past' = [past EXCEPT !.raced = @ \cup Tagging(owner, user)]
          /\ Moves(c, "done")

handleRemoveIdeaMember(c) == RemoveMember(c, "removeMember", By(c), Req(c).user)
handleLeaveIdeaList(c) == RemoveMember(c, "leave", Req(c).owner, By(c))

(********************************* the invitations *************************)

invitee(c) ==
  /\ At(c, "invite", "new")
  /\ IF Lists!InvitedAlready(db, By(c), Req(c).email) THEN Refused(c)
     ELSE Continues(c, "insert", db.now + invitationLifetime)

\* One open invitation to a list for an address; an expired one makes room.
handleCreateIdeaInvitation(c) ==
  /\ At(c, "invite", "insert")
  /\ LET rows == Lists!closeExpired(db, By(c), Req(c).email, db.now)
         invite == [owner |-> By(c), email |-> Req(c).email, role |-> Req(c).role, until |-> task[c].seen,
                    state |-> "open", by |-> None]
     IN IF By(c) \notin DOMAIN db.users \/ Lists!OpenTo(rows, By(c), Req(c).email) # {} THEN Refused(c)
        ELSE Writes(c, Lists!CreateIdeaInvitation(rows, Req(c).id, invite))

Known(c) == Req(c).id \in DOMAIN db.invites

handleRevokeIdeaInvitation(c) ==
  /\ At(c, "revoke", "new")
  /\ LET mine == Known(c) /\ db.invites[Req(c).id].owner = By(c)
     IN IF mine => ~Lists!Redeemable(db.invites[Req(c).id], db.now) THEN Refused(c)
        ELSE Writes(c, Lists!Revoke(db, Req(c).id))

Joins(c, rows, user) ==
  /\ db' = rows
  /\ past' = [past EXCEPT !.joins = Append(@, [invite |-> Req(c).id, user |-> user, at |-> db.now])]
  /\ Moves(c, "done")

\* The account is read as the request is let in.
acceptor(c) ==
  /\ At(c, "accept", "new")
  /\ IF By(c) \in DOMAIN db.users /\ db.users[By(c)].active THEN Continues(c, "accept", db.users[By(c)]) ELSE Refused(c)

handleAcceptIdeaInvitation(c) ==
  /\ At(c, "accept", "accept")
  /\ IF Known(c) => ~Lists!AcceptAllowed(db, Req(c).id, By(c), task[c].seen, db.now) THEN Refused(c)
     ELSE Joins(c, Lists!Spend(db, Req(c).id, By(c)), By(c))

handlePreviewIdeaInvitation(c) ==
  /\ task[c].step = "new" /\ Req(c).op \in {"preview", "register"}
  /\ IF Known(c) => ~Lists!Redeemable(db.invites[Req(c).id], db.now) THEN Refused(c)
     ELSE Continues(c, IF Req(c).op = "preview" THEN "done" ELSE "write", None)

\* The account is made with the membership; an unconfirmed one gives way.
handleRegisterIdeaInvitation(c) ==
  /\ At(c, "register", "write")
  /\ LET email == db.invites[Req(c).id].email
         rows == Lists!dropUnverified(db, email)
         taken == \E u \in DOMAIN rows.users : rows.users[u].email = email
         made == [rows EXCEPT !.users = Lists!Add(@, Req(c).new, [email |-> email, active |-> TRUE, unverified |-> FALSE,
                                                                  home |-> None])]
     IN IF (Known(c) => ~Lists!Redeemable(db.invites[Req(c).id], db.now)) THEN Refused(c)
        ELSE IF taken THEN Refused(c)
        ELSE Joins(c, Lists!Spend(made, Req(c).id, Req(c).new), Req(c).new)

\* Only somebody with no trip of their own; an invitation they accepted holds them.
handleDeleteMe(c) ==
  /\ At(c, "deleteAccount", "new")
  /\ LET user == By(c)
     IN IF \/ user \notin DOMAIN db.users \/ ~Lists!Deletable(db, user)
           \/ \E t \in DOMAIN db.trips : db.trips[t].owner = user
        THEN Refused(c)
        ELSE Writes(c, Lists!DropUser(db, user))

(******************************* read-only links ***************************)

\* The owner alone manages the links of a trip.
Manages(user, trip) == trip \in DOMAIN db.trips /\ db.trips[trip].owner = user

managesLinks(c) ==
  /\ At(c, "createLink", "new")
  /\ LET expired == Req(c).link.until # None /\ Req(c).link.until <= db.now
     IN IF Manages(By(c), Req(c).link.trip) /\ ~expired THEN Continues(c, "insert", None) ELSE Refused(c)

handleCreateShareLink(c) ==
  /\ At(c, "createLink", "insert")
  /\ IF Req(c).link.trip \notin DOMAIN db.trips THEN Refused(c)
     ELSE Writes(c, [db EXCEPT !.links = Lists!Add(@, Req(c).id, Req(c).link)])

ShareLinkTrip(id) == IF id \in DOMAIN db.links /\ ~db.links[id].revoked THEN db.links[id].trip ELSE None

handleRevokeShareLink(c) ==
  /\ At(c, "revokeLink", "new")
  /\ IF Manages(By(c), ShareLinkTrip(Req(c).id)) THEN Writes(c, [db EXCEPT !.links[Req(c).id].revoked = TRUE])
     ELSE Refused(c)

Active(link, now) == ~link.revoked /\ (link.until = None \/ now < link.until)
ShareAccess(d, id) == id \in DOMAIN d.links /\ Active(d.links[id], d.now) /\ d.links[id].trip \in DOMAIN d.trips

\* Where a request that carries the token of a link goes on.
Shared == [shared |-> "count", sharedDocument |-> "content", sharedFile |-> "row", sharedDownload |-> "issue"]

requireShareToken(c) ==
  /\ task[c].step = "new" /\ Req(c).op \in DOMAIN Shared
  /\ LET id == Req(c).link
     IN IF ShareAccess(db, id) THEN Continues(c, Shared[Req(c).op], [link |-> db.links[id]]) ELSE Refused(c)

Link(c) == task[c].seen.link
Trip(c) == Link(c).trip

\* The page is answered whether or not the visit can be counted.
handleShared(c) ==
  /\ At(c, "shared", "count") /\ Moves(c, "done") /\ UNCHANGED past
  /\ db' \in {db, IF Req(c).link \in DOMAIN db.links THEN [db EXCEPT !.links[Req(c).link].uses = @ + 1] ELSE db}

VisibleTo(picture, private) == private \/ ~picture.private
ListByTrip(trip) == IF trip \in DOMAIN db.trips THEN db.trips[trip].pictures ELSE <<>>
galleryOf(trip, private) ==
  LET all == ListByTrip(trip) IN Restrict(all, {p \in DOMAIN all : VisibleTo(all[p], private)})

sharedContent(c) ==
  /\ At(c, "sharedDocument", "content")
  /\ IF Trip(c) \notin DOMAIN db.trips THEN Refused(c)
     ELSE Continues(c, "gallery", Lists!Over([doc |-> db.trips[Trip(c)].doc], task[c].seen))

sharedGallery(c) ==
  /\ At(c, "sharedDocument", "gallery")
  /\ Continues(c, "zones", Lists!Over([pictures |-> galleryOf(Trip(c), Link(c).private)], task[c].seen))

\* Those on the trip, and those on the plan a report was copied from.
People(d, trips) == UNION {{d.trips[t].owner} \cup d.trips[t].members : t \in trips}
Zones(d, people) == {d.users[u].home : u \in {u \in people : d.users[u].home # None}}

ZonesOfTheTripOnly(d, trip) == Zones(d, People(d, {trip} \cap DOMAIN d.trips))
PrivacyZones(d, trip) ==
  LET own == {trip} \cap DOMAIN d.trips
  IN Zones(d, People(d, (own \cup {d.trips[t].source : t \in own}) \cap DOMAIN d.trips))

ForLink(doc, zones) == View!Outside(View!ForShareLink(doc), zones)

Answers(c, trip, outside, private, doc, pictures) ==
  /\ past' = [past EXCEPT !.page = [client |-> c, trip |-> trip, outside |-> outside, private |-> private,
                                    doc |-> doc, pictures |-> pictures]]
  /\ Moves(c, "done") /\ UNCHANGED db

handleSharedDocument(c) ==
  /\ At(c, "sharedDocument", "zones")
  /\ LET zones == PrivacyZones(db, Trip(c))
         pictures == task[c].seen.pictures
     IN Answers(c, Trip(c), TRUE, Link(c).private, ForLink(task[c].seen.doc, zones),
                [p \in DOMAIN pictures |-> View!Media(zones, pictures[p])])

hidesLocation(picture, zones) == picture.mime = "image/jpeg" /\ zones # {}

\* A picture as its file: what the metadata of a JPEG says of the place goes with
\* any circle; a PNG and a WebP leave as they are stored.
Scrubbed(picture, zones) == IF hidesLocation(picture, zones) THEN [picture EXCEPT !.at = None] ELSE picture

sharedMedia(c) ==
  /\ At(c, "sharedFile", "row")
  /\ LET shown == galleryOf(Trip(c), Link(c).private)
     IN IF Req(c).picture \in DOMAIN shown
        THEN Continues(c, "zones", Lists!Over([pictures |-> Restrict(shown, {Req(c).picture})], task[c].seen)) ELSE Refused(c)

NoDocument == [places |-> <<>>, transfers |-> <<>>, legs |-> <<>>, tracks |-> <<>>]

handleSharedMediaFile(c) ==
  /\ At(c, "sharedFile", "zones")
  /\ LET zones == PrivacyZones(db, Trip(c))
         pictures == task[c].seen.pictures
     IN Answers(c, Trip(c), TRUE, Link(c).private, NoDocument, [p \in DOMAIN pictures |-> Scrubbed(pictures[p], zones)])

(********************************** downloads ******************************)

\* A ticket remembers to whom it was issued and for which pictures; those that
\* have expired go.
issue(c, trip, reader, shown) ==
  IF Req(c).pictures = {} \/ ~(Req(c).pictures \subseteq DOMAIN shown) THEN Refused(c)
  ELSE LET kept == {k \in DOMAIN db.tickets : db.now <= db.tickets[k].until}
           ticket == [trip |-> trip, reader |-> reader, items |-> Req(c).pictures, until |-> db.now + downloadLifetime]
       IN Writes(c, [db EXCEPT !.tickets = Lists!Over([k \in {Req(c).id} |-> ticket], Restrict(@, kept))])

handleMediaDownload(c) ==
  /\ At(c, "download", "new")
  /\ IF Req(c).trip \in Opens(By(c)) THEN issue(c, Req(c).trip, [user |-> By(c), link |-> None], ListByTrip(Req(c).trip))
     ELSE Refused(c)

handleSharedMediaDownload(c) ==
  /\ At(c, "sharedDownload", "issue")
  /\ IF Link(c).download THEN issue(c, Trip(c), [user |-> None, link |-> Req(c).link], galleryOf(Trip(c), Link(c).private))
     ELSE Refused(c)

\* Whether a ticket's reader may still download, as things stand in d.
Allowed(d, ticket) ==
  LET user == ticket.reader.user  link == ticket.reader.link
  IN IF user # None
     THEN /\ user \in DOMAIN d.users /\ d.users[user].active
          /\ ticket.trip \in DOMAIN d.trips /\ user \in {d.trips[ticket.trip].owner} \cup d.trips[ticket.trip].members
     ELSE ShareAccess(d, link) /\ d.links[link].trip = ticket.trip /\ d.links[link].download

ShowsPrivate(d, ticket) == ticket.reader.link = None \/ d.links[ticket.reader.link].private

\* What an address opened now may serve at most.
Downloadable(d, ticket) ==
  LET shown == IF Allowed(d, ticket) THEN DOMAIN galleryOf(ticket.trip, ShowsPrivate(d, ticket)) ELSE {}
  IN ticket.items \cap shown

redeem(c) ==
  /\ At(c, "open", "new")
  /\ IF Req(c).id \in DOMAIN db.tickets => db.now > db.tickets[Req(c).id].until THEN Refused(c)
     ELSE /\ Goes(c, "reader", [ticket |-> db.tickets[Req(c).id]])
          /\ past' = [past EXCEPT !.opened[c] = Downloadable(db, db.tickets[Req(c).id])]
          /\ UNCHANGED db

Ticket(c) == task[c].seen.ticket

downloadReader(c) ==
  /\ At(c, "open", "reader")
  /\ IF Allowed(db, Ticket(c)) THEN Continues(c, "list", Lists!Over([private |-> ShowsPrivate(db, Ticket(c))], task[c].seen))
     ELSE Refused(c)

stillDownloadable(c) ==
  /\ At(c, "open", "list")
  /\ LET now == galleryOf(Ticket(c).trip, task[c].seen.private)
         items == Restrict(now, Ticket(c).items \cap DOMAIN now)
     IN IF items = <<>> THEN Refused(c) ELSE Continues(c, "serve", Lists!Over([items |-> items], task[c].seen))

\* The circles are hidden from a link, not from those on the trip.
handleDownload(c) ==
  /\ At(c, "open", "serve")
  /\ LET outside == Ticket(c).reader.user = None
         zones == IF outside THEN PrivacyZones(db, Ticket(c).trip) ELSE {}
         items == task[c].seen.items
     IN Answers(c, Ticket(c).trip, outside, task[c].seen.private, NoDocument,
                [p \in DOMAIN items |-> Scrubbed(items[p], zones)])

(*********************************** the home ******************************)

\* The circle is drawn anew only for another point or another radius.
homeBody(c) ==
  /\ At(c, "setHome", "new")
  /\ LET home == IF By(c) \in DOMAIN db.users THEN db.users[By(c)].home ELSE None
         same == home # None /\ (home # None => home.home = Req(c).home /\ home.radius = Req(c).radius)
     IN IF By(c) \notin DOMAIN db.users \/ ~View!ValidHome(Req(c).home, Req(c).radius) THEN Refused(c)
        ELSE Continues(c, IF same THEN "done" ELSE "write", None)

SetHome(c, home) ==
  IF By(c) \in DOMAIN db.users THEN Writes(c, [db EXCEPT !.users[By(c)].home = home]) ELSE Refused(c)

handleSetHome(c) ==
  /\ At(c, "setHome", "write")
  /\ \E home \in View!NewHomeZone(Req(c).home, Req(c).radius) : SetHome(c, home)

handleDeleteHome(c) == At(c, "deleteHome", "new") /\ SetHome(c, None)

(************************** meanwhile, on the trips ************************)

OnTrip(c, op) == At(c, op, "new") /\ Req(c).trip \in DOMAIN db.trips
TripGone(c) == /\ task[c].step = "new" /\ Req(c).op \in {"joinTrip", "leaveTrip", "movePlace", "hidePicture", "deleteTrip"}
               /\ Req(c).trip \notin DOMAIN db.trips /\ Refused(c)

\* Somebody who is let in while they open an address may read it from then on.
joinTrip(c) ==
  /\ OnTrip(c, "joinTrip")
  /\ LET user == Req(c).user
         there == {db.trips[Req(c).trip].owner} \cup db.trips[Req(c).trip].members
         rows == [db EXCEPT !.trips[Req(c).trip].members = @ \cup {user}]
         more(o) == IF At(o, "open", "reader") THEN Downloadable(rows, Ticket(o)) ELSE {}
     IN IF user \notin DOMAIN db.users \ there \/ ~db.users[user].active THEN Refused(c)
        ELSE /\ db' = rows
             /\ past' = [past EXCEPT !.opened = [o \in Clients |-> past.opened[o] \cup more(o)]]
             /\ Moves(c, "done")

leaveTrip(c) == OnTrip(c, "leaveTrip") /\ Writes(c, [db EXCEPT !.trips[Req(c).trip].members = @ \ {Req(c).user}])
movePlace(c) == OnTrip(c, "movePlace") /\ Writes(c, [db EXCEPT !.trips[Req(c).trip].doc.places[1].at = Req(c).at])

hidePicture(c) ==
  /\ OnTrip(c, "hidePicture")
  /\ db' = [db EXCEPT !.trips[Req(c).trip].pictures[Req(c).picture].private = TRUE]
  /\ past' = [past EXCEPT !.hidden = @ \cup {Req(c).picture}]
  /\ Moves(c, "done")

\* The links, the tags and the pictures go with the trip, and the name of the
\* plan with the plan.
deleteTrip(c) ==
  /\ OnTrip(c, "deleteTrip")
  /\ LET trip == Req(c).trip
         kept(t) == IF db.trips[t].source = trip THEN [db.trips[t] EXCEPT !.source = None] ELSE db.trips[t]
     IN Writes(c, [db EXCEPT !.trips = [t \in DOMAIN db.trips \ {trip} |-> kept(t)],
                             !.worn = {w \in @ : w[2] # trip},
                             !.links = Restrict(@, {l \in DOMAIN db.links : db.links[l].trip # trip})])

Tick == db.now < MaxNow /\ db' = [db EXCEPT !.now = @ + 1] /\ UNCHANGED <<task, past>>

Finished == \A c \in Clients : task[c].step \in {"done", "refused"}
Rest == Finished /\ db.now = MaxNow /\ UNCHANGED vars

Step(c) ==
  \/ ideaFor(c) \/ lockEditableIdea(c) \/ handleUpdateIdea(c) \/ handleDeleteIdea(c)
  \/ createAllowed(c) \/ createEditor(c) \/ handleCreateIdea(c)
  \/ tagsReader(c) \/ tagsCleared(c) \/ handleSetIdeaTags(c) \/ handleSetTripTags(c)
  \/ handleCreateTag(c) \/ handleUpdateTag(c) \/ handleDeleteTag(c)
  \/ handleAddIdeaMember(c) \/ handleUpdateIdeaMember(c) \/ handleRemoveIdeaMember(c) \/ handleLeaveIdeaList(c)
  \/ invitee(c) \/ handleCreateIdeaInvitation(c) \/ handleRevokeIdeaInvitation(c)
  \/ acceptor(c) \/ handleAcceptIdeaInvitation(c)
  \/ handlePreviewIdeaInvitation(c) \/ handleRegisterIdeaInvitation(c) \/ handleDeleteMe(c)
  \/ managesLinks(c) \/ handleCreateShareLink(c) \/ handleRevokeShareLink(c)
  \/ requireShareToken(c) \/ handleShared(c) \/ sharedContent(c) \/ sharedGallery(c) \/ handleSharedDocument(c)
  \/ sharedMedia(c) \/ handleSharedMediaFile(c)
  \/ handleMediaDownload(c) \/ handleSharedMediaDownload(c)
  \/ redeem(c) \/ downloadReader(c) \/ stillDownloadable(c) \/ handleDownload(c)
  \/ homeBody(c) \/ handleSetHome(c) \/ handleDeleteHome(c)
  \/ joinTrip(c) \/ leaveTrip(c) \/ movePlace(c) \/ hidePicture(c) \/ deleteTrip(c) \/ TripGone(c)

Next == (\E c \in Clients : Step(c)) \/ Tick \/ Rest

Spec == Init /\ [][Next]_vars

(********************************* properties ******************************)

\* The number of ideas beside a tag is the number of those its owner sees wear
\* it: no tag stays on the ideas of a list its owner left, but for a tagging that
\* was on its way (storage/postgres/ideas.go, RemoveMember: "Their tags on its
\* ideas go with it").
TagsCountWhatIsSeen ==
  \A user \in DOMAIN db.users :
    LET list == Lists!TagList(db, user, Opens(user))
        seen(g) == {id \in Lists!List(db, user) : <<g, id>> \in db.worn}
    IN (\A pair \in past.raced : pair[2] # user) => \A g \in DOMAIN list : list[g].ideas = Cardinality(seen(g))

\* However changes overlap, the history of an idea has an entry that tells the
\* title it has and who changed it last, and that is the latest entry, unless the
\* change written last was overtaken: another that began after it was written
\* before it (storage/postgres/ideas.go, History: entries are told in the order
\* of their stamps, and a stamp is the moment a transaction began).
HistoryTellsTheIdea ==
  \A id \in DOMAIN db.ideas :
    LET told == Lists!History(db, db.ideas[id].owner, id)
    IN \E k \in DOMAIN told : /\ Tells(told[k], db.ideas[id])
                              /\ id \notin past.overtaken => \A other \in DOMAIN told : other <= k

\* An invitation lets one person in, once, before it ends and unless it was
\* withdrawn (domain/mail.go, IdeaInvitation.Redeemable).
InvitationsAreSpentOnce ==
  \A i \in DOMAIN past.joins :
    LET join == past.joins[i]
    IN /\ \A j \in DOMAIN past.joins : past.joins[j].invite = join.invite => i = j
       /\ join.invite \in DOMAIN db.invites =>
            LET invite == db.invites[join.invite]
            IN invite.state = "accepted" /\ invite.by = join.user /\ join.at < invite.until

\* A kept idea is in the form it would be put into again, and what the whole
\* trip costs lies between the cheapest and the dearest way of getting there.
IdeasAddUp ==
  \A id \in DOMAIN db.ideas :
    LET idea == db.ideas[id]
        total == Notes!TotalRange(idea)
        costs == {Notes!Plus(Notes!Base(idea), fare) : fare \in Notes!Fares(idea)}
    IN /\ Notes!Normalize(idea) = idea
       /\ \A cost \in costs : total[1] <= cost /\ cost <= total[2]
       /\ costs # {} => {total[1], total[2]} \subseteq costs
       /\ costs = {} => total[1] = Notes!Base(idea) /\ total[2] = Notes!Base(idea)

\* What is told of ideas is true: the count beside a tag, and the sums of a trip.
FiguresAreTrue == TagsCountWhatIsSeen /\ IdeasAddUp

Answered == past'.page # past.page

\* Whether an answer hides where a picture was taken: a page does for them all,
\* a file for the JPEGs alone (httpapi/media.go, hidesLocation).
PlaceHidden(page, p) == Req(page.client).op = "sharedDocument" \/ page.pictures[p].mime = "image/jpeg"

\* What leaves through a link shows nothing inside the circle of anybody on the
\* trip, nor on the plan it was copied from, nor the home itself; nothing that
\* is the travellers' own business; and no private picture, unless the link is
\* meant to show them or the picture was hidden while the page was made
\* (httpapi/shares.go, handleSharedDocument). Where a picture was taken that is
\* sent as a file is hidden of the JPEGs alone: a PNG or a WebP is sent as it is
\* stored. A trip deleted while its page is made has nobody on it any more.
KeepsSecrets(page) ==
  page.outside /\ page.trip \in DOMAIN db.trips =>
    LET trips == {page.trip, db.trips[page.trip].source} \cap DOMAIN db.trips
        homes == {db.users[u].home : u \in People(db, trips)} \ {None}
        pictures == {page.pictures[p] : p \in {p \in DOMAIN page.pictures : PlaceHidden(page, p)}}
        points == (View!PointsShown(page.doc) \cup {picture.at : picture \in pictures}) \ {None}
    IN /\ \A home \in homes, at \in points : at # home.home /\ at \notin (home.center - home.radius)..(home.center + home.radius)
       /\ View!Private(page.doc) \subseteq {None, ""}
       /\ \A p \in DOMAIN page.pictures : page.pictures[p].private => page.private

\* An address serves no more than its reader might read as it was opened, or as
\* they were let in again while it was: a revoked link, a removed member, a
\* picture deleted or made private stops a download at once
\* (httpapi/mediadownload.go).
StopsAtOnce(page) ==
  Req(page.client).op = "open" => DOMAIN page.pictures \subseteq past.opened[page.client]

\* Every answer keeps the secrets of the travellers, whatever is read before
\* and after what changes meanwhile.
AnswersKeepSecrets ==
  [][Answered => KeepsSecrets(past'.page) /\ StopsAtOnce(past'.page)]_vars
===============================================================================
