----------------------------- MODULE MediaLibrary -----------------------------
(* Everything an upload writes: the pictures of a trip, the attachments and   *)
(* the track of a place, the picture of an account, the photos of an idea     *)
(* (httpapi/media.go, attachments.go, tracks.go, avatar.go, ideas.go), their  *)
(* rows, their files in the media store (media/store.go), the two allowances  *)
(* (storagequota, the trip's quota) and the sweep of the store.  Rows and     *)
(* files change in separate steps, and both are shared by every request.      *)
(* Previews have modules of their own; here is what rendering them may remove. *)
EXTENDS Integers, Sequences, FiniteSets, FiniteSetsExt

CONSTANTS
  Clients, None,
  Limit,          \* bytes the instance may keep, 0 for no limit
  MaxPhotos, MaxAttachments,
  Scenes          \* [db, files, reqs, troubles]: what is stored, who asks for what

ASSUME LimitAssumption == Limit \in Nat /\ MaxPhotos \in Nat /\ MaxAttachments \in Nat

VARIABLES
  db,             \* the rows, and the bytes of those kept in the database
  files,          \* the media store: key -> [size, old] or None
  holder,         \* who holds the lock of the instance allowance
  task,           \* per client: the request and how far it got
  sweep,          \* the sweep of the store in progress
  troubles,       \* failures, crashes and hours the scene has left
  past            \* what happened: doubtful (uploads unanswered, originals that could
                  \* not be opened), stale, overlapped, shown

vars == <<db, files, holder, task, sweep, troubles, past>>

(******************************* the rows and files ***********************)

Key(id, of) == <<id, of>>
AvatarKey == Key("avatar", "file")
PhotoKeys(id) == {Key(id, "file"), Key(id, "thumb")}
Keys == DOMAIN files
Held(k) == files[k] # None

Sizes(stored) == MapThenSumSet(LAMBDA s : s.size, stored)
TripUsed(d) == Sizes(d.media) + Sizes(d.attached) + d.track
DatabaseBytes(d) == Sizes(d.attached) + d.track + d.copied
ObjectBytes(k) == IF Held(k) THEN files[k].size ELSE 0
MediaBytes == MapThenSumSet(ObjectBytes, Keys)
Usage == DatabaseBytes(db) + MediaBytes

WithoutTrip(d) == [d EXCEPT !.trip = FALSE, !.media = {}, !.attached = {}, !.track = 0, !.links = {}]
WithoutIdea(d) == [d EXCEPT !.idea = FALSE, !.photos = {}]

\* The keys the records name.
MediaKeys(d) == {Key(m.id, "file") : m \in d.media}
Targets == {"trip", "place"}   \* whose galleries are shown: the trip's and a place's of a report

OtherKeys(d) == (IF d.avatar THEN {AvatarKey} ELSE {}) \cup UNION {PhotoKeys(p) : p \in d.photos}

(******************************** the scenes ******************************)

Pictures == [id : STRING, sum : STRING, source : STRING \cup {None}, size : Nat]
Attachments == [sum : STRING, size : Nat]
LinkRows == [media : STRING, target : Targets, fav : BOOLEAN, by : Clients \cup {None}]
Objects == [size : Nat, old : BOOLEAN]
StoreKeys == STRING \X {"file", "thumb"}

Rows ==
  [trip : BOOLEAN, quota : Nat, media : SUBSET Pictures, attached : SUBSET Attachments, track : Nat,
   copied : Nat, account : BOOLEAN, avatar : BOOLEAN, idea : BOOLEAN, photos : SUBSET STRING,
   links : SUBSET LinkRows]

Requests ==
  [op : {"upload"}, parts : Seq(Pictures)]
  \cup [op : {"photo"}, id : STRING, size : Nat]
  \cup [op : {"setAvatar", "track"}, size : Nat]
  \cup [op : {"attach"}, file : Attachments]
  \cup [op : {"deleteMedia", "deletePhoto", "render"}, id : STRING]
  \cup [op : {"detach"}, sum : STRING]
  \cup [op : {"quota"}, quota : Nat]
  \cup [op : {"setLinks"}, target : Targets, list : SUBSET STRING, favorites : (SUBSET STRING) \cup {None}]
  \cup [op : {"setFavorite"}, list : SUBSET STRING, favorite : BOOLEAN]
  \cup [op : {"report", "deleteTrip", "deleteMe", "deleteAvatar", "deleteIdea", "deleteTrack", "nothing"}]

\* The keys a request is going to store under names the server makes up.
Brings(req) ==
  CASE req.op = "upload" -> {Key(req.parts[i].id, "file") : i \in DOMAIN req.parts}
    [] req.op = "photo" -> PhotoKeys(req.id)
    [] OTHER -> {}

\* No picture twice in a trip, in either of its forms, and no more than fit.
NoCopiesIn(d) ==
  /\ \A m, n \in d.media : m # n => {m.sum, m.source} \cap {n.sum, n.source} \subseteq {None}
  /\ \A a, b \in d.attached : a.sum = b.sum => a = b
  /\ Cardinality(d.photos) <= MaxPhotos /\ Cardinality(d.attached) <= MaxAttachments

PhotosKeys(d) == UNION {PhotoKeys(p) : p \in d.photos}

\* What the schema and the transactions that write them guarantee of the rows.
SoundRows(d) ==
  /\ d \in Rows /\ IsFiniteSet(d.media) /\ IsFiniteSet(d.attached) /\ IsFiniteSet(d.photos)
  /\ NoCopiesIn(d)
  /\ MediaKeys(d) \cap PhotosKeys(d) = {} /\ AvatarKey \notin MediaKeys(d) \cup PhotosKeys(d)
  /\ \A l \in d.links : l.media \in {m.id : m \in d.media}

\* Rows with their files, and requests that bring new names.
SoundScene(scene) ==
  LET d == scene.db
      named == MediaKeys(d) \cup PhotosKeys(d)
      keys == DOMAIN scene.files
      brought(c) == Brings(scene.reqs[c])
  IN /\ SoundRows(d)
     /\ keys \subseteq StoreKeys /\ IsFiniteSet(keys) /\ AvatarKey \in keys
     /\ scene.files \in [keys -> Objects \cup {None}]
     /\ named \subseteq keys /\ \A k \in named : scene.files[k] # None
     /\ DOMAIN scene.reqs \subseteq Clients
     /\ \A c \in DOMAIN scene.reqs :
          /\ scene.reqs[c] \in Requests
          /\ brought(c) \subseteq keys \ (named \cup {AvatarKey})
          /\ \A k \in brought(c) : scene.files[k] = None
          /\ \A b \in DOMAIN scene.reqs \ {c} : brought(b) \cap brought(c) = {}
          /\ scene.reqs[c].op = "upload" =>
               \A i, j \in DOMAIN scene.reqs[c].parts :
                 scene.reqs[c].parts[i].id = scene.reqs[c].parts[j].id => i = j

ASSUME ScenesAssumption == None \notin Objects /\ \A scene \in Scenes : SoundScene(scene)

(********************************* the steps ******************************)

IdleSweep == [step |-> "idle", named |-> {}, found |-> {}]

Fresh(req) == [req |-> req, step |-> "new", quota |-> 0, used |-> 0, previous |-> 0, keys |-> {},
               seen |-> {}, rows |-> {}, marked |-> {}]

Init ==
  \E scene \in Scenes :
    /\ db = scene.db
    /\ files = scene.files
    /\ holder = None
    /\ task = [c \in Clients |-> IF c \in DOMAIN scene.reqs THEN Fresh(scene.reqs[c])
                                 ELSE [Fresh([op |-> "nothing"]) EXCEPT !.step = "done"]]
    /\ sweep = IdleSweep
    /\ troubles = scene.troubles
    /\ past = [doubtful |-> {},
               stale |-> FALSE, overlapped |-> FALSE, shown |-> [t \in Targets |-> None]]

At(c, op, step) == task[c].req.op = op /\ task[c].step = step
Req(c) == task[c].req

\* The request goes on with what it has read.
Goes(c, step, read) ==
  task' = [task EXCEPT ![c] = [f \in DOMAIN task[c] |->
             IF f = "step" THEN step ELSE IF f \in DOMAIN read THEN read[f] ELSE task[c][f]]]

Ends(c, answer) == Goes(c, answer, <<>>)

\* Leaving the handler releases the lock of the allowance.
Releases(c) == holder' = IF holder = c THEN None ELSE holder

Trouble(kind) == troubles[kind] > 0 /\ troubles' = [troubles EXCEPT ![kind] = @ - 1]

(****************************** uploads of pictures ************************)

\* The figure and the quota every file of the request is checked against.
handleUploadMedia(c) ==
  /\ At(c, "upload", "new")
  /\ IF db.trip THEN Goes(c, "part", [quota |-> db.quota, used |-> TripUsed(db)]) ELSE Ends(c, "refused")
  /\ UNCHANGED <<db, files, holder, sweep, troubles, past>>

NextFile(c) == Head(Req(c).parts)
Over(quota, bytes) == quota > 0 /\ bytes > quota

storePart(c) ==
  /\ At(c, "upload", "part")
  /\ IF Req(c).parts = <<>> THEN Ends(c, "done")
     ELSE IF Over(task[c].quota, task[c].used + NextFile(c).size) THEN Ends(c, "refused")
     ELSE Goes(c, "reserve", <<>>)
  /\ UNCHANGED <<db, files, holder, sweep, troubles, past>>

Copy(d, file) ==
  \E m \in d.media : {m.sum, m.source} \cap ({file.sum, file.source} \ {None}) # {}

\* Under the lock of the trip's row.
CreateMedia(d, file, quota) ==
  IF ~d.trip \/ Copy(d, file) \/ Over(quota, TripUsed(d) + file.size) THEN None
  ELSE [d EXCEPT !.media = @ \cup {file}]

(***************************** the instance allowance **********************)

Growth(c) ==
  LET req == Req(c)
  IN CASE req.op = "upload" -> NextFile(c).size
       [] req.op \in {"attach", "report"} -> task[c].used
       [] req.op = "photo" -> 2 * req.size
       [] OTHER -> req.size - task[c].previous

Fits(growth) == Usage + growth <= Limit

\* What the request measured as replaced is still what it replaces.
Current(c) ==
  CASE Req(c).op = "track" -> task[c].previous = db.track
    [] Req(c).op = "report" -> task[c].used = db.track
    [] Req(c).op = "setAvatar" -> task[c].previous = ObjectBytes(AvatarKey)
    [] OTHER -> TRUE

StoresFiles(c) == Req(c).op \in {"upload", "setAvatar", "photo"}
NewKeys(c) ==
  CASE Req(c).op = "upload" -> {Key(NextFile(c).id, "file")}
    [] Req(c).op = "photo" -> PhotoKeys(Req(c).id)
    [] Req(c).op = "setAvatar" -> {AvatarKey}
    [] OTHER -> {}

\* What a request stores and has made no record of yet.
Underway(c) == IF task[c].step \in {"put", "create"} THEN NewKeys(c) ELSE {}

ReserveWithoutLock(c) ==
  /\ task[c].step = "reserve"
  /\ IF Limit > 0 /\ ~Fits(Growth(c)) THEN Ends(c, "refused") /\ UNCHANGED past
     ELSE /\ past' = [past EXCEPT !.stale = @ \/ ~Current(c)]
          /\ Goes(c, IF StoresFiles(c) THEN "put" ELSE "create", [keys |-> NewKeys(c)])
  /\ UNCHANGED <<db, files, holder, sweep, troubles>>

\* The usage is measured once the lock is held: nothing grows until it is released.
Reserve(c) ==
  /\ task[c].step = "reserve"
  /\ Limit > 0 => holder = None
  /\ IF Limit > 0 /\ ~Fits(Growth(c)) THEN Ends(c, "refused") /\ UNCHANGED <<holder, past>>
     ELSE /\ holder' = IF Limit > 0 THEN c ELSE holder
          /\ past' = [past EXCEPT !.stale = @ \/ ~Current(c)]
          /\ Goes(c, IF StoresFiles(c) THEN "put" ELSE "create", [keys |-> NewKeys(c)])
  /\ UNCHANGED <<db, files, sweep, troubles>>

FileSize(c) == IF Req(c).op = "upload" THEN NextFile(c).size ELSE Req(c).size

\* A photo is two files, written in either order.
Put(c) ==
  /\ task[c].step = "put"
  /\ \E k \in task[c].keys :
       /\ files' = [files EXCEPT ![k] = [size |-> FileSize(c), old |-> FALSE]]
       /\ Goes(c, IF task[c].keys = {k} THEN "create" ELSE "put", [keys |-> task[c].keys \ {k}])
  /\ UNCHANGED <<db, holder, sweep, troubles, past>>

\* Before the rename nothing is left; after it the directory may fail to flush.
PutFails(c) ==
  /\ task[c].step = "put"
  /\ Trouble("faults")
  /\ \E k \in task[c].keys :
       files' \in {files, [files EXCEPT ![k] = [size |-> FileSize(c), old |-> FALSE]]}
  /\ IF Req(c).op = "photo" THEN Goes(c, "undo", [keys |-> NewKeys(c)]) /\ UNCHANGED holder
     ELSE Ends(c, "failed") /\ Releases(c)
  /\ UNCHANGED <<db, sweep, past>>

(********************************* the rows ********************************)

\* A second copy at the place is refused before the count is looked at.
CreateAttachment(d, file, quota) ==
  IF \/ ~d.trip
     \/ \E a \in d.attached : a.sum = file.sum
     \/ Cardinality(d.attached) >= MaxAttachments
     \/ Over(quota, TripUsed(d) + file.size) THEN None
  ELSE [d EXCEPT !.attached = @ \cup {file}]

SaveTrack(d, size, quota) ==
  IF ~d.trip \/ Over(quota, TripUsed(d) - d.track + size) THEN None ELSE [d EXCEPT !.track = size]

CreateReport(d, quota) == IF ~d.trip \/ Over(quota, d.track) THEN None ELSE [d EXCEPT !.copied = @ + d.track]

SetAvatar(d, worn) == IF d.account THEN [d EXCEPT !.avatar = worn] ELSE None

AddPhoto(d, id) ==
  IF ~d.idea \/ Cardinality(d.photos) >= MaxPhotos THEN None ELSE [d EXCEPT !.photos = @ \cup {id}]

\* A removal that finds nothing answers that there is nothing.
DeleteMedia(d, id) ==
  [d EXCEPT !.media = {m \in @ : m.id # id}, !.links = {l \in @ : l.media # id}]

DeletePhoto(d, id) == [d EXCEPT !.photos = @ \ {id}]

DeleteAttachment(d, sum) == [d EXCEPT !.attached = {a \in @ : a.sum # sum}]

DeleteTrack(d) == [d EXCEPT !.track = 0]

SetTripQuota(d, quota) == [d EXCEPT !.quota = quota]

\* What the transaction of a request makes of the rows, or None when it refuses.
Written(c) ==
  LET req == Req(c)
  IN CASE req.op = "upload" -> CreateMedia(db, NextFile(c), task[c].quota)
       [] req.op = "attach" -> CreateAttachment(db, req.file, task[c].quota)
       [] req.op = "track" -> SaveTrack(db, req.size, task[c].quota)
       [] req.op = "report" -> CreateReport(db, task[c].quota)
       [] req.op = "setAvatar" -> SetAvatar(db, TRUE)
       [] req.op = "photo" -> AddPhoto(db, req.id)

Name(c) == IF Req(c).op = "upload" THEN NextFile(c).id ELSE IF Req(c).op = "photo" THEN Req(c).id ELSE None

\* An upload goes on with its next file, and counts what it stored itself.
Create(c) ==
  /\ task[c].step = "create"
  /\ Written(c) # None
  /\ db' = Written(c)
  /\ Releases(c)
  /\ IF Req(c).op = "upload"
     THEN Goes(c, "part", [used |-> task[c].used + NextFile(c).size,
                           req |-> [Req(c) EXCEPT !.parts = Tail(@)]])
     ELSE Ends(c, "done")
  /\ UNCHANGED <<files, sweep, troubles, past>>

Undo(c) ==
  IF StoresFiles(c) THEN Goes(c, "undo", [keys |-> NewKeys(c)]) /\ UNCHANGED holder
  ELSE Ends(c, "refused") /\ Releases(c)

CreateRefused(c) ==
  /\ task[c].step = "create"
  /\ Written(c) = None
  /\ Undo(c)
  /\ UNCHANGED <<db, files, sweep, troubles, past>>

\* The request is cancelled or the connection lost, before the commit or behind it.
CreateFails(c) ==
  /\ task[c].step = "create"
  /\ Written(c) # None
  /\ Trouble("faults")
  /\ Undo(c)
  /\ \/ UNCHANGED <<db, past>>
     \/ db' = Written(c) /\ past' = [past EXCEPT !.doubtful = @ \cup {Name(c)}]
  /\ UNCHANGED <<files, sweep>>

\* Files without a row go at once, and files whose rows have gone.
DeleteFile(c) ==
  /\ task[c].step \in {"undo", "files"}
  /\ \E k \in task[c].keys :
       /\ \/ files' = [files EXCEPT ![k] = None] /\ UNCHANGED troubles
          \/ Held(k) /\ Trouble("faults") /\ UNCHANGED files
       /\ IF task[c].keys = {k} THEN Ends(c, "done") /\ Releases(c)
          ELSE Goes(c, task[c].step, [keys |-> task[c].keys \ {k}]) /\ UNCHANGED holder
  /\ UNCHANGED <<db, sweep, past>>

(***************************** other requests that grow ********************)

\* The bytes a request replaces are measured before the lock is asked for.
handleSetAvatar(c) ==
  /\ At(c, "setAvatar", "new")
  /\ IF db.account THEN Goes(c, "reserve", [previous |-> IF db.avatar THEN ObjectBytes(AvatarKey) ELSE 0])
     ELSE Ends(c, "refused")
  /\ UNCHANGED <<db, files, holder, sweep, troubles, past>>

handleImportItemTrack(c) ==
  /\ At(c, "track", "new")
  /\ IF db.trip THEN Goes(c, "reserve", [quota |-> db.quota, previous |-> db.track]) ELSE Ends(c, "refused")
  /\ UNCHANGED <<db, files, holder, sweep, troubles, past>>

handleCreateAttachment(c) ==
  /\ At(c, "attach", "new")
  /\ IF db.trip THEN Goes(c, "reserve", [quota |-> db.quota, used |-> Req(c).file.size]) ELSE Ends(c, "refused")
  /\ UNCHANGED <<db, files, holder, sweep, troubles, past>>

\* The tracks the report copies are measured from the plan as it is read here.
handleCreateReport(c) ==
  /\ At(c, "report", "new")
  /\ IF db.trip /\ ~Over(db.quota, db.track) THEN Goes(c, "reserve", [used |-> db.track, quota |-> db.quota])
     ELSE Ends(c, "refused")
  /\ UNCHANGED <<db, files, holder, sweep, troubles, past>>

handleAddIdeaPhoto(c) ==
  /\ At(c, "photo", "new")
  /\ IF db.idea THEN Goes(c, "reserve", <<>>) ELSE Ends(c, "refused")
  /\ UNCHANGED <<db, files, holder, sweep, troubles, past>>

handleUpdateStorage(c) ==
  /\ At(c, "quota", "new")
  /\ db' = SetTripQuota(db, Req(c).quota)
  /\ Ends(c, "done")
  /\ UNCHANGED <<files, holder, sweep, troubles, past>>

(********************************* removals ********************************)

\* Link rows a transaction on a gallery holds until it ends.
LockedRows == UNION {task[c].rows : c \in Clients}

\* The files follow the rows.
Follows(c, keys) == IF keys = {} THEN Ends(c, "done") ELSE Goes(c, "files", [keys |-> keys])

handleDeleteMedia(c) ==
  /\ At(c, "deleteMedia", "new")
  /\ \A row \in LockedRows : row.media # Req(c).id
  /\ db' = DeleteMedia(db, Req(c).id)
  /\ IF db' = db THEN Ends(c, "refused") ELSE Follows(c, {Key(Req(c).id, "file")})
  /\ UNCHANGED <<files, holder, sweep, troubles, past>>

\* The keys are listed by the statement before the one that deletes the rows.
ListsKeys(c) ==
  /\ Req(c).op \in {"deleteTrip", "deleteMe"} /\ task[c].step = "new"
  /\ IF IF Req(c).op = "deleteTrip" THEN ~db.trip ELSE ~db.account THEN Ends(c, "refused")
     ELSE Goes(c, "delete", [keys |-> MediaKeys(db) \cup IF Req(c).op = "deleteMe" THEN OtherKeys(db) ELSE {}])
  /\ UNCHANGED <<db, files, holder, sweep, troubles, past>>

handleDeleteTrip(c) ==
  /\ At(c, "deleteTrip", "delete")
  /\ LockedRows = {}
  /\ IF db.trip THEN db' = WithoutTrip(db) /\ Follows(c, task[c].keys)
     ELSE UNCHANGED db /\ Ends(c, "refused")
  /\ UNCHANGED <<files, holder, sweep, troubles, past>>

\* Everything here is the account's: its trip and its ideas go with it.
handleDeleteMe(c) ==
  /\ At(c, "deleteMe", "delete")
  /\ LockedRows = {}
  /\ IF db.account THEN db' = [WithoutIdea(WithoutTrip(db)) EXCEPT !.account = FALSE, !.avatar = FALSE]
                        /\ Follows(c, task[c].keys)
     ELSE UNCHANGED db /\ Ends(c, "refused")
  /\ UNCHANGED <<files, holder, sweep, troubles, past>>

handleDeleteAvatar(c) ==
  /\ At(c, "deleteAvatar", "new")
  /\ IF db.account THEN db' = SetAvatar(db, FALSE) /\ Follows(c, IF db.avatar THEN {AvatarKey} ELSE {})
     ELSE UNCHANGED db /\ Ends(c, "refused")
  /\ UNCHANGED <<files, holder, sweep, troubles, past>>

handleDeleteIdeaPhoto(c) ==
  /\ At(c, "deletePhoto", "new")
  /\ db' = DeletePhoto(db, Req(c).id)
  /\ IF db' = db THEN Ends(c, "refused") ELSE Follows(c, PhotoKeys(Req(c).id))
  /\ UNCHANGED <<files, holder, sweep, troubles, past>>

handleDeleteIdea(c) ==
  /\ At(c, "deleteIdea", "new")
  /\ IF db.idea THEN db' = WithoutIdea(db) /\ Follows(c, UNION {PhotoKeys(p) : p \in db.photos})
     ELSE UNCHANGED db /\ Ends(c, "refused")
  /\ UNCHANGED <<files, holder, sweep, troubles, past>>

\* Kept in the database: nothing follows.
handleDeleteAttachment(c) ==
  /\ At(c, "detach", "new")
  /\ db' = DeleteAttachment(db, Req(c).sum)
  /\ Ends(c, IF db' = db THEN "refused" ELSE "done")
  /\ UNCHANGED <<files, holder, sweep, troubles, past>>

handleDeleteItemTrack(c) ==
  /\ At(c, "deleteTrack", "new")
  /\ db' = DeleteTrack(db)
  /\ Ends(c, "done")
  /\ UNCHANGED <<files, holder, sweep, troubles, past>>

(******************************** the previews *****************************)

\* The original is read whole; a row or a file that is gone ends it here.
renderPreviews(c) ==
  /\ At(c, "render", "new")
  /\ LET original == Key(Req(c).id, "file")
     IN IF original \in MediaKeys(db) /\ Held(original) THEN Goes(c, "rendered", [keys |-> {original}])
        ELSE Ends(c, "refused")
  /\ UNCHANGED <<db, files, holder, sweep, troubles, past>>

\* With its previews in place the original is opened once more: one that is gone,
\* and one that cannot be opened, goes with them, row or not.
keepPreviews(c) ==
  /\ At(c, "render", "rendered")
  /\ \E original \in task[c].keys :
       \/ Held(original) /\ Ends(c, "done") /\ UNCHANGED <<troubles, past>>
       \/ ~Held(original) /\ Follows(c, {original}) /\ UNCHANGED <<troubles, past>>
       \/ /\ Held(original) /\ Trouble("faults")
          /\ Follows(c, {original})
          /\ past' = [past EXCEPT !.doubtful = @ \cup {original[1]}]
  /\ UNCHANGED <<db, files, holder, sweep>>

(********************************* the sweep *******************************)

\* Two lists are read one after the other, then the store is walked.
ListAll ==
  /\ sweep.step = "idle" /\ Trouble("sweeps")
  /\ sweep' = [sweep EXCEPT !.step = "others", !.named = MediaKeys(db)]
  /\ UNCHANGED <<db, files, holder, task, past>>

ListOthersWithoutPreviews ==
  /\ sweep.step = "others"
  /\ sweep' = [sweep EXCEPT !.step = "walk", !.named = @ \cup {k \in OtherKeys(db) : k[2] = "file"}]
  /\ UNCHANGED <<db, files, holder, task, troubles, past>>

ListOthers ==
  /\ sweep.step = "others"
  /\ sweep' = [sweep EXCEPT !.step = "walk", !.named = @ \cup OtherKeys(db)]
  /\ UNCHANGED <<db, files, holder, task, troubles, past>>

LeftoverOfAnyAge(k) == k \notin sweep.named

\* An object as old as an hour when the sweep began, that no record named.
Leftover(k) == files[k].old /\ k \notin sweep.named

\* Most of the store unknown to the database: a store of another database.
FindLeftovers ==
  LET found == {k \in Keys : Held(k) /\ Leftover(k)}
  IN /\ sweep.step = "walk"
     /\ sweep' = IF 2 * Cardinality(found) > Cardinality({k \in Keys : Held(k)}) THEN IdleSweep
                 ELSE [sweep EXCEPT !.step = "remove", !.found = found]
     /\ UNCHANGED <<db, files, holder, task, troubles, past>>

\* A removal that fails is logged and the next one tried.
RemoveLeftover ==
  /\ sweep.step = "remove" /\ sweep.found # {}
  /\ \E k \in sweep.found :
       /\ sweep' = [sweep EXCEPT !.found = @ \ {k}]
       /\ \/ files' = [files EXCEPT ![k] = None] /\ UNCHANGED troubles
          \/ Held(k) /\ Trouble("faults") /\ UNCHANGED files
  /\ UNCHANGED <<db, holder, task, past>>

SweepEnds ==
  /\ sweep.step = "remove" /\ sweep.found = {}
  /\ sweep' = IdleSweep
  /\ UNCHANGED <<db, files, holder, task, troubles, past>>

sweepStore == ListAll \/ ListOthers \/ FindLeftovers \/ RemoveLeftover \/ SweepEnds

\* No upload takes an hour from its file to its row; the moment a sweep compares with is fixed.
leftoverAge ==
  /\ \A c \in Clients : task[c].step \notin {"put", "create"}
  /\ sweep.step = "idle"
  /\ Trouble("hours")
  /\ files' = [k \in Keys |-> IF Held(k) THEN [files[k] EXCEPT !.old = TRUE] ELSE None]
  /\ UNCHANGED <<db, holder, task, sweep, past>>

\* The process dies: nobody is answered, the rows and the files stay as they are.
Crash ==
  /\ Trouble("crashes")
  /\ task' = [c \in Clients |-> [task[c] EXCEPT !.step = "done", !.rows = {}, !.marked = {}]]
  /\ holder' = None
  /\ sweep' = IdleSweep
  /\ UNCHANGED <<db, files, past>>

LibraryStep(c) ==
  \/ handleUploadMedia(c) \/ storePart(c) \/ Reserve(c) \/ Put(c) \/ PutFails(c)
  \/ Create(c) \/ CreateRefused(c) \/ CreateFails(c) \/ DeleteFile(c)
  \/ handleSetAvatar(c) \/ handleImportItemTrack(c) \/ handleCreateAttachment(c)
  \/ handleCreateReport(c) \/ handleAddIdeaPhoto(c) \/ handleUpdateStorage(c)
  \/ handleDeleteMedia(c) \/ ListsKeys(c) \/ handleDeleteTrip(c) \/ handleDeleteMe(c)
  \/ handleDeleteAvatar(c) \/ handleDeleteIdeaPhoto(c) \/ handleDeleteIdea(c)
  \/ handleDeleteAttachment(c) \/ handleDeleteItemTrack(c) \/ renderPreviews(c) \/ keepPreviews(c)

(******************************** properties *******************************)

\* No picture twice in a trip, in either of its forms, however many send it at
\* once, and no more photos or attachments than fit (postgres/media.go Create).
NoCopies == NoCopiesIn(db)

\* A picture or a photo whose upload was answered has its bytes for as long as
\* its row stands, whatever failures, crashes, removals, renderings and sweeps
\* come between (httpapi/media.go storePart, ideas.go, sweep.go), and they are
\* stored once; but for a picture that could not be opened once its previews were
\* made, whose original goes with them (previews.go keepPreviews).
StoredPicturesHaveBytes ==
  /\ \A m \in db.media : m.id \notin past.doubtful => Held(Key(m.id, "file"))
  /\ \A p \in db.photos : p \notin past.doubtful => \A k \in PhotoKeys(p) : Held(k)
  /\ NoCopies

\* A sweep compares lists that grow old while it walks the store and still takes
\* no file of a trip or an idea that a record names or whose record a request is
\* still to write (sweep.go, preview.go).  The picture of an account keeps its
\* key when it is replaced and is not spared.
SweepTakesOnlyLeftovers ==
  [][\A k \in sweep.found \ sweep'.found :
       k \in MediaKeys(db) \cup OtherKeys(db) \cup UNION {Underway(c) : c \in Clients} => k = AvatarKey]_vars

\* What is stored fits the allowance of the instance, unless the size a request
\* replaced or copied had changed before it held the lock (storagequota/quota.go),
\* and a trip only grows within the allowance its request has read, whatever is
\* stored at the same time (media.go:305).
AllowancesKept ==
  [][/\ Limit > 0 /\ ~past'.stale => Usage' <= Limit
     /\ TripUsed(db') > TripUsed(db) =>
          \E c \in Clients : task'[c] # task[c] /\ ~Over(task[c].quota, TripUsed(db'))]_vars
===============================================================================
