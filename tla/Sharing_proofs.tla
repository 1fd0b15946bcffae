---------------------------- MODULE Sharing_proofs ----------------------------
(* Proofs about sharing, for any number of clients, requests and tables. An   *)
(* invitation lets one person in once and the history tells every idea (IInv, *)
(* down to SharingInvariant and the two theorems after it); and no answer     *)
(* tells an outsider what is kept from them (SInv, down to SecretsAreKept).   *)
EXTENDS Sharing, FiniteSetTheorems, WellFoundedInduction, TLAPS

Pasts == {"raced", "written", "overtaken", "hidden", "joins", "page", "opened"}
Columns == {"owner", "email", "role", "until", "state", "by"}

IsSeq(s) == \E S : s \in Seq(S)

Shaped ==
  /\ DOMAIN db = Tables /\ DOMAIN past = Pasts /\ DOMAIN task = Clients
  /\ \A c \in Clients : DOMAIN task[c] = {"req", "step", "seen"}

Account(row) == DOMAIN row = {"email", "active", "unverified", "home"}

AddressesDiffer(d) ==
  /\ \A u \in DOMAIN d.users : Account(d.users[u])
  /\ \A u, v \in DOMAIN d.users : d.users[u].email = d.users[v].email => u = v

(* What a client's request stands before or holds.                         *)
Inviting(c) == Req(c).op = "invite" /\ task[c].step \in {"new", "insert"}
Creating(c) == Req(c).op = "createIdea" /\ task[c].step \in {"new", "write", "insert"}
Locked(c) == task[c].step = "locked"
Stamped(c) == Locked(c) \/ (Req(c).op = "createIdea" /\ task[c].step = "insert")
Formed(c) ==
  \/ Req(c).op = "createIdea" /\ task[c].step \in {"write", "insert"}
  \/ Req(c).op = "updateIdea" /\ task[c].step \in {"write", "locked"}

(* Requests that make something have identifiers of their own for it, and  *)
(* a form has a title.                                                     *)
OneEach(op) == \A c, o \in Clients : Req(c).op = op /\ Req(o).op = op /\ Req(c).id = Req(o).id => c = o

RequestsOK ==
  /\ OneEach("invite") /\ OneEach("createIdea")
  /\ \A c \in Clients : Req(c).op \in {"createIdea", "updateIdea"} => "title" \in DOMAIN Req(c).idea
  /\ \A c \in Clients : Req(c).op = "createIdea" => Req(c).id # None

(* A spent invitation stays what it is, and no identifier comes again.     *)
InvitesInv ==
  /\ \A i \in DOMAIN db.invites : DOMAIN db.invites[i] = Columns
  /\ IsSeq(past.joins)
  /\ InvitationsAreSpentOnce
  /\ \A c \in Clients : Inviting(c) => /\ Req(c).id \notin DOMAIN db.invites
                                       /\ \A j \in DOMAIN past.joins : past.joins[j].invite # Req(c).id

(* An entry of a list that tells of an idea.                               *)
Entry(d, k, id) == k \in DOMAIN d.history /\ d.history[k].idea = id

(* The entries an idea has in any list are no later than the one that tells *)
(* it, unless the change written last was overtaken.                        *)
ToldBy(d, k, id) ==
  Entry(d, k, id) /\ d.history[k].owner = d.ideas[id].owner /\ Tells(d.history[k], d.ideas[id])

Latest(k, id) == \A other \in DOMAIN db.history : db.history[other].idea = id => other <= k

Entered(row) == DOMAIN row = {"owner", "idea", "title", "user", "action"}
Titled(row) == {"title", "owner", "createdBy", "updatedBy"} \subseteq DOMAIN row

RowsOK ==
  /\ db.began \in Nat /\ DOMAIN db.history \subseteq 1..db.began
  /\ \A k \in DOMAIN db.history : Entered(db.history[k]) /\ db.history[k].idea \in DOMAIN db.ideas \cup {None}
  /\ \A id \in DOMAIN db.ideas : id # None /\ Titled(db.ideas[id])

StampsOK ==
  /\ \A c \in Clients : Stamped(c) => task[c].seen \in (1..db.began) \ DOMAIN db.history
  /\ \A c, o \in Clients : Stamped(c) /\ Stamped(o) /\ task[c].seen = task[o].seen => c = o
  /\ \A c \in Clients : Locked(c) => Req(c).op \in {"updateIdea", "deleteIdea"}
  /\ \A c \in Clients : Formed(c) => Notes!Normalize(Req(c).idea) # None
  /\ \A c \in Clients : Creating(c) => /\ Req(c).id \notin DOMAIN db.ideas
                                       /\ \A o \in Clients : Locked(o) => Req(o).id # Req(c).id

Told == \A id \in DOMAIN db.ideas : \E k : ToldBy(db, k, id) /\ (id \notin past.overtaken => Latest(k, id))

(* An entry later than a change under way was written by a change.         *)
Ordered ==
  \A c \in Clients : Locked(c) /\ Req(c).id \in DOMAIN db.ideas =>
    \A k : Entry(db, k, Req(c).id) => k < task[c].seen \/ [idea |-> Req(c).id, began |-> k] \in past.written

IdeasInv == RowsOK /\ StampsOK /\ Told /\ Ordered

IInv == Shaped /\ RequestsOK /\ AddressesDiffer(db) /\ InvitesInv /\ IdeasInv

(******************************* the beginning *****************************)

(* Every scene begins with tables the schema allows.                       *)
LEMMA InitIInv == Init => IInv
<1> SUFFICES ASSUME Init PROVE IInv
  OBVIOUS
<1>1. PICK scene \in Scenes :
        /\ db = scene.db
        /\ task = [c \in Clients |-> IF c \in DOMAIN scene.reqs THEN Fresh(scene.reqs[c])
                                     ELSE [Fresh([op |-> "nothing", by |-> None]) EXCEPT !.step = "done"]]
        /\ past = [raced |-> {}, written |-> {}, overtaken |-> {}, hidden |-> {}, joins |-> <<>>, page |-> None,
                   opened |-> [c \in Clients |-> {}]]
  BY DEF Init
<1>2. SoundTables(scene.db) /\ SoundRequests(scene)
  BY <1>1, ScenesAssumption DEF ScenesAssumption
<1>3. \A c \in Clients : DOMAIN task[c] = {"req", "step", "seen"}
  BY <1>1 DEF Fresh
<1>4. \A c \in Clients : \/ c \in DOMAIN scene.reqs /\ Req(c) = scene.reqs[c] /\ task[c].step = "new"
                         \/ Req(c).op = "nothing" /\ task[c].step = "done"
  BY <1>1 DEF Fresh, Req
<1>5. Shaped
  BY <1>1, <1>2, <1>3 DEF Shaped, SoundTables, SoundLists, Pasts
<1>6. RequestsOK
  BY <1>2, <1>4 DEF RequestsOK, OneEach, SoundRequests, NewIdentifier
<1>7. AddressesDiffer(db)
  BY <1>1, <1>2 DEF AddressesDiffer, Account, SoundTables, SoundLists
<1>8. past.joins = <<>> /\ DOMAIN past.joins = {}
  BY <1>1
<1>9. InvitesInv
  <2>1. IsSeq(past.joins)
    <3>1. <<>> \in Seq({})
      OBVIOUS
    <3> QED
      BY <3>1, <1>8 DEF IsSeq
  <2>2. InvitationsAreSpentOnce
    BY <1>8 DEF InvitationsAreSpentOnce
  <2>3. \A i \in DOMAIN db.invites : DOMAIN db.invites[i] = Columns
    BY <1>1, <1>2 DEF SoundTables, SoundLists, Columns
  <2>4. \A c \in Clients : Inviting(c) => Req(c).id \notin DOMAIN db.invites
    BY <1>1, <1>2, <1>4 DEF Inviting, SoundRequests, NewIdentifier
  <2> QED
    BY <2>1, <2>2, <2>3, <2>4, <1>8 DEF InvitesInv
<1>10. \A c \in Clients : ~Locked(c) /\ ~Stamped(c) /\ ~Formed(c)
  BY <1>4 DEF Locked, Stamped, Formed
<1>11. RowsOK
  BY <1>1, <1>2 DEF RowsOK, SoundTables, SoundLists, Entered, Titled
<1>12. StampsOK
  <2>1. \A c \in Clients : Creating(c) => Req(c).id \notin DOMAIN db.ideas
    BY <1>1, <1>2, <1>4 DEF Creating, SoundRequests, NewIdentifier
  <2> QED
    BY <2>1, <1>10 DEF StampsOK
<1>13. Told
  <2> SUFFICES ASSUME NEW id \in DOMAIN db.ideas PROVE \E k : ToldBy(db, k, id) /\ Latest(k, id)
    BY DEF Told
  <2>1. PICK k \in DOMAIN db.history :
          /\ db.history[k].idea = id /\ db.history[k].owner = db.ideas[id].owner /\ Tells(db.history[k], db.ideas[id])
          /\ \A other \in DOMAIN db.history : db.history[other].idea = id => other <= k
    BY <1>1, <1>2 DEF SoundTables, SoundLists
  <2> QED
    BY <2>1 DEF ToldBy, Latest, Entry
<1>14. Ordered
  BY <1>10 DEF Ordered
<1> QED
  BY <1>5, <1>6, <1>7, <1>9, <1>11, <1>12, <1>13, <1>14 DEF IInv, IdeasInv

(************************** steps, one part at a time ***********************)

(* What a step of a client does to its own task, and to nobody else's.     *)
Moved(c, s, v) ==
  /\ DOMAIN task' = Clients
  /\ \A o \in Clients : /\ DOMAIN task'[o] = {"req", "step", "seen"} /\ task'[o].req = task[o].req
                        /\ o # c => task'[o] = task[o]
  /\ task'[c].step = s /\ task'[c].seen = v

LEMMA GoesMoved ==
  ASSUME Shaped, NEW c \in Clients, NEW s, NEW v, Goes(c, s, v)
  PROVE  Moved(c, s, v)
BY DEF Shaped, Goes, Moved

(* Where a request may go without a stamp of its own.                      *)
Plain(c, s) ==
  /\ s # "locked" /\ (Req(c).op = "createIdea" => s # "insert")
  /\ Req(c).op = "invite" /\ s \in {"new", "insert"} => Inviting(c)
  /\ Req(c).op = "createIdea" /\ s \in {"new", "write"} => Creating(c) /\ Notes!Normalize(Req(c).idea) # None
  /\ Req(c).op = "updateIdea" /\ s = "write" => Notes!Normalize(Req(c).idea) # None

LEMMA EndsPlain ==
  ASSUME NEW c, NEW s \in {"done", "refused"}
  PROVE  Plain(c, s)
BY DEF Plain

Framed == DOMAIN db' = Tables /\ DOMAIN past' = Pasts

LEMMA ShapeKept ==
  ASSUME Shaped, RequestsOK, NEW c \in Clients, NEW s, NEW v, Moved(c, s, v), Framed
  PROVE  Shaped' /\ RequestsOK'
<1>1. Shaped'
  BY DEF Shaped, Moved, Framed
<1>2. \A o \in Clients : Req(o)' = Req(o)
  BY DEF Moved, Req
<1> QED
  BY <1>1, <1>2 DEF RequestsOK, OneEach

LEMMA ShapeStays ==
  ASSUME Shaped, RequestsOK, UNCHANGED task, Framed
  PROVE  Shaped' /\ RequestsOK'
BY DEF Shaped, RequestsOK, OneEach, Framed, Req

UsersKept ==
  \A u \in DOMAIN db'.users : /\ u \in DOMAIN db.users /\ Account(db'.users[u])
                              /\ db'.users[u].email = db.users[u].email

LEMMA AddressesKept ==
  ASSUME AddressesDiffer(db), UsersKept
  PROVE  AddressesDiffer(db)'
BY DEF AddressesDiffer, UsersKept, Account

(* Rows of invitations that are still there end when they did, and those   *)
(* that were accepted stay so.                                             *)
Kept(o, n) ==
  \A i \in DOMAIN n : /\ i \in DOMAIN o /\ DOMAIN n[i] = Columns /\ n[i].until = o[i].until
                      /\ o[i].state = "accepted" => n[i].state = "accepted" /\ n[i].by = o[i].by

LEMMA KeptItself ==
  ASSUME NEW o, \A i \in DOMAIN o : DOMAIN o[i] = Columns
  PROVE  Kept(o, o)
BY DEF Kept

LEMMA InvitationsStaySpent ==
  ASSUME InvitationsAreSpentOnce, Kept(db.invites, db'.invites), past'.joins = past.joins
  PROVE  InvitationsAreSpentOnce'
<1> SUFFICES ASSUME NEW i \in DOMAIN past.joins
             PROVE  /\ \A j \in DOMAIN past.joins : past.joins[j].invite = past.joins[i].invite => i = j
                    /\ past.joins[i].invite \in DOMAIN db'.invites =>
                         /\ db'.invites[past.joins[i].invite].state = "accepted"
                         /\ db'.invites[past.joins[i].invite].by = past.joins[i].user
                         /\ past.joins[i].at < db'.invites[past.joins[i].invite].until
  BY DEF InvitationsAreSpentOnce
<1>1. \A j \in DOMAIN past.joins : past.joins[j].invite = past.joins[i].invite => i = j
  BY DEF InvitationsAreSpentOnce
<1>2. ASSUME past.joins[i].invite \in DOMAIN db'.invites
      PROVE  /\ db'.invites[past.joins[i].invite].state = "accepted"
             /\ db'.invites[past.joins[i].invite].by = past.joins[i].user
             /\ past.joins[i].at < db'.invites[past.joins[i].invite].until
  <2> PICK id : id = past.joins[i].invite
    OBVIOUS
  <2>1. id \in DOMAIN db.invites /\ db'.invites[id].until = db.invites[id].until
    BY <1>2 DEF Kept
  <2>2. db.invites[id].state = "accepted" /\ db.invites[id].by = past.joins[i].user /\ past.joins[i].at < db.invites[id].until
    BY <2>1 DEF InvitationsAreSpentOnce
  <2> QED
    BY <2>1, <2>2, <1>2 DEF Kept
<1> QED
  BY <1>1, <1>2

LEMMA InvitesKept ==
  ASSUME InvitesInv, NEW c \in Clients, NEW s, NEW v, Moved(c, s, v), Plain(c, s),
         Kept(db.invites, db'.invites), past'.joins = past.joins
  PROVE  InvitesInv'
<1>1. \A i \in DOMAIN db'.invites : i \in DOMAIN db.invites /\ DOMAIN db'.invites[i] = Columns
  BY DEF Kept
<1>2. IsSeq(past.joins)'
  BY DEF InvitesInv, IsSeq
<1>3. InvitationsAreSpentOnce'
  BY InvitationsStaySpent DEF InvitesInv
<1>4. \A o \in Clients : Inviting(o)' => Inviting(o) /\ Req(o)' = Req(o)
  BY DEF Inviting, Moved, Req, Plain
<1>5. \A o \in Clients : Inviting(o)' => /\ Req(o)'.id \notin DOMAIN db'.invites
                                         /\ \A j \in DOMAIN past'.joins : past'.joins[j].invite # Req(o)'.id
  BY <1>1, <1>4 DEF InvitesInv
<1> QED
  BY <1>1, <1>2, <1>3, <1>5 DEF InvitesInv

LEMMA InvitesStay ==
  ASSUME InvitesInv, UNCHANGED task, db'.invites = db.invites, past'.joins = past.joins
  PROVE  InvitesInv'
BY DEF InvitesInv, IsSeq, InvitationsAreSpentOnce, Inviting, Req

IdeasSame ==
  /\ db'.ideas = db.ideas /\ db'.history = db.history /\ db'.began = db.began
  /\ past'.written = past.written /\ past'.overtaken = past.overtaken

(* A client that takes no stamp leaves what is known of the stamps.        *)
LEMMA NoNewStamps ==
  ASSUME StampsOK, NEW c \in Clients, NEW s, NEW v, Moved(c, s, v), Plain(c, s)
  PROVE  \A o \in Clients :
           /\ Req(o)' = Req(o)
           /\ Locked(o)' => Locked(o) /\ o # c
           /\ Stamped(o)' => Stamped(o) /\ o # c /\ task'[o].seen = task[o].seen
           /\ Creating(o)' => Creating(o)
           /\ Formed(o)' => Notes!Normalize(Req(o).idea) # None
<1> TAKE o \in Clients
<1>1. Req(o)' = Req(o)
  BY DEF Moved, Req
<1>2. CASE o = c
  BY <1>1, <1>2 DEF Moved, Plain, Locked, Stamped, Creating, Formed
<1>3. CASE o # c
  BY <1>1, <1>3 DEF Moved, StampsOK, Locked, Stamped, Creating, Formed
<1> QED
  BY <1>2, <1>3

(* Entries that go, and changes that end, leave the others in order.        *)
LEMMA OrderKept ==
  ASSUME Ordered, past'.written = past.written, DOMAIN db'.ideas \subseteq DOMAIN db.ideas,
         \A o \in Clients : Req(o)' = Req(o) /\ (Locked(o)' => Locked(o) /\ task'[o].seen = task[o].seen),
         \A id \in DOMAIN db'.ideas : \A k : Entry(db', k, id) => Entry(db, k, id)
  PROVE  Ordered'
<1> SUFFICES ASSUME NEW c \in Clients, Locked(c)', Req(c)'.id \in DOMAIN db'.ideas, NEW k, Entry(db', k, Req(c)'.id)
             PROVE  k < task'[c].seen \/ [idea |-> Req(c)'.id, began |-> k] \in past'.written
  BY DEF Ordered
<1>1. Req(c)' = Req(c) /\ Locked(c) /\ task'[c].seen = task[c].seen /\ Req(c).id \in DOMAIN db.ideas
  OBVIOUS
<1>2. Entry(db, k, Req(c).id)
  BY <1>1
<1> QED
  BY <1>1, <1>2 DEF Ordered

LEMMA IdeasKept ==
  ASSUME IdeasInv, NEW c \in Clients, NEW s, NEW v, Moved(c, s, v), Plain(c, s), IdeasSame
  PROVE  IdeasInv'
<1>1. \A o \in Clients :
           /\ Req(o)' = Req(o)
           /\ Locked(o)' => Locked(o) /\ o # c
           /\ Stamped(o)' => Stamped(o) /\ o # c /\ task'[o].seen = task[o].seen
           /\ Creating(o)' => Creating(o)
           /\ Formed(o)' => Notes!Normalize(Req(o).idea) # None
  BY NoNewStamps DEF IdeasInv
<1>2. RowsOK'
  BY DEF IdeasInv, RowsOK, IdeasSame
<1>3. StampsOK'
  BY <1>1 DEF IdeasInv, StampsOK, IdeasSame
<1>4. Told'
  <2> SUFFICES ASSUME NEW id \in DOMAIN db'.ideas PROVE (\E k : ToldBy(db, k, id) /\ (id \notin past.overtaken => Latest(k, id)))'
    BY DEF Told
  <2>1. PICK k : ToldBy(db, k, id) /\ (id \notin past.overtaken => Latest(k, id))
    BY DEF IdeasInv, Told, IdeasSame
  <2>2. ToldBy(db, k, id)'
    BY <2>1 DEF ToldBy, Entry, IdeasSame
  <2>3. Latest(k, id) => Latest(k, id)'
    BY DEF Latest, IdeasSame
  <2> QED
    BY <2>1, <2>2, <2>3 DEF IdeasSame
<1>5. Ordered'
  <2>1. \A o \in Clients : Locked(o)' => Stamped(o)'
    BY DEF Locked, Stamped
  <2>2. Ordered /\ past'.written = past.written /\ DOMAIN db'.ideas \subseteq DOMAIN db.ideas
    BY DEF IdeasInv, IdeasSame
  <2>3. \A id, k : Entry(db', k, id) => Entry(db, k, id)
    BY DEF Entry, IdeasSame
  <2> QED
    BY <1>1, <2>1, <2>2, <2>3, OrderKept
<1> QED
  BY <1>2, <1>3, <1>4, <1>5 DEF IdeasInv

LEMMA IdeasStay ==
  ASSUME IdeasInv, UNCHANGED task, IdeasSame
  PROVE  IdeasInv'
BY DEF IdeasInv, RowsOK, StampsOK, Told, ToldBy, Entry, Latest, Ordered, IdeasSame, Locked, Stamped, Creating, Formed, Req

(* Most steps touch neither invitations nor ideas nor addresses.           *)
Quiet ==
  /\ Framed /\ IdeasSame /\ UsersKept
  /\ db'.invites = db.invites /\ past'.joins = past.joins

LEMMA QuietKeeps ==
  ASSUME IInv, NEW c \in Clients, NEW s, NEW v, Goes(c, s, v), Plain(c, s), Quiet
  PROVE  IInv'
<1>1. Moved(c, s, v)
  BY GoesMoved DEF IInv
<1>2. Shaped' /\ RequestsOK'
  BY <1>1, ShapeKept DEF IInv, Quiet
<1>3. AddressesDiffer(db)'
  BY AddressesKept DEF IInv, Quiet
<1>4. InvitesInv'
  <2>1. Kept(db.invites, db.invites)
    BY KeptItself DEF IInv, InvitesInv
  <2>2. Kept(db.invites, db'.invites)
    BY <2>1 DEF Quiet
  <2> QED
    BY <1>1, <2>2, InvitesKept DEF IInv, Quiet
<1>5. IdeasInv'
  BY <1>1, IdeasKept DEF IInv, Quiet
<1> QED
  BY <1>2, <1>3, <1>4, <1>5 DEF IInv

(******************************* quiet steps *******************************)

LEMMA SameUsers ==
  ASSUME AddressesDiffer(db), db'.users = db.users
  PROVE  UsersKept
BY DEF AddressesDiffer, UsersKept

LEMMA RefusedKeeps ==
  ASSUME IInv, NEW c \in Clients, Refused(c)
  PROVE  IInv'
<1>1. Goes(c, "refused", task[c].seen)
  BY DEF Refused, Moves
<1>2. Plain(c, "refused")
  BY EndsPlain
<1>3. UsersKept
  BY SameUsers DEF IInv, Refused
<1>4. Quiet
  BY <1>3 DEF Quiet, IInv, Shaped, Framed, IdeasSame, Refused
<1> QED
  BY <1>1, <1>2, <1>4, QuietKeeps

LEMMA ContinuesKeeps ==
  ASSUME IInv, NEW c \in Clients, NEW s, NEW v, Continues(c, s, v), Plain(c, s)
  PROVE  IInv'
<1>1. Goes(c, s, v)
  BY DEF Continues
<1>2. UsersKept
  BY SameUsers DEF IInv, Continues
<1>3. Quiet
  BY <1>2 DEF Quiet, IInv, Shaped, Framed, IdeasSame, Continues
<1> QED
  BY <1>1, <1>3, QuietKeeps

(* Tables that differ in none of the rows the invariant speaks of.         *)
SameRows(d, e) ==
  /\ DOMAIN e = Tables /\ e.invites = d.invites /\ e.ideas = d.ideas /\ e.history = d.history
  /\ e.began = d.began /\ e.users = d.users

SamePast == DOMAIN past' = Pasts /\ past'.joins = past.joins /\ past'.written = past.written /\ past'.overtaken = past.overtaken

LEMMA MovesKeep ==
  ASSUME IInv, NEW c \in Clients, NEW s, Moves(c, s), Plain(c, s), SameRows(db, db'), SamePast
  PROVE  IInv'
<1>1. Goes(c, s, task[c].seen)
  BY DEF Moves
<1>2. UsersKept
  BY SameUsers DEF IInv, SameRows
<1>3. Quiet
  BY <1>2 DEF Quiet, Framed, IdeasSame, SameRows, SamePast
<1> QED
  BY <1>1, <1>3, QuietKeeps

LEMMA WritesKeeps ==
  ASSUME IInv, NEW c \in Clients, NEW rows, Writes(c, rows), SameRows(db, rows)
  PROVE  IInv'
<1>1. Moves(c, "done") /\ SameRows(db, db') /\ UNCHANGED past
  BY DEF Writes
<1>2. SamePast
  BY <1>1 DEF SamePast, IInv, Shaped
<1>3. Plain(c, "done")
  BY EndsPlain
<1> QED
  BY <1>1, <1>2, <1>3, MovesKeep

LEMMA AnswersKeeps ==
  ASSUME IInv, NEW c \in Clients, NEW trip, NEW outside, NEW private, NEW doc, NEW pictures,
         Answers(c, trip, outside, private, doc, pictures)
  PROVE  IInv'
<1>1. Moves(c, "done") /\ UNCHANGED db
  BY DEF Answers
<1>2. SamePast
  BY DEF Answers, SamePast, IInv, Shaped, Pasts
<1>3. SameRows(db, db')
  BY <1>1 DEF SameRows, IInv, Shaped
<1>4. Plain(c, "done")
  BY EndsPlain
<1> QED
  BY <1>1, <1>2, <1>3, <1>4, MovesKeep

(* One table more or less, of those the invariant does not speak of.       *)
LEMMA OtherTables ==
  ASSUME NEW d, DOMAIN d = Tables, NEW x
  PROVE  /\ SameRows(d, [d EXCEPT !.now = x]) /\ SameRows(d, [d EXCEPT !.worn = x]) /\ SameRows(d, [d EXCEPT !.tags = x])
         /\ SameRows(d, [d EXCEPT !.members = x]) /\ SameRows(d, [d EXCEPT !.trips = x])
         /\ SameRows(d, [d EXCEPT !.links = x]) /\ SameRows(d, [d EXCEPT !.tickets = x])
BY DEF SameRows, Tables

LEMMA SameAgain ==
  ASSUME NEW d, NEW e, NEW f, SameRows(d, e), SameRows(e, f)
  PROVE  SameRows(d, f)
BY DEF SameRows

LEMMA TagRows ==
  ASSUME NEW d, DOMAIN d = Tables
  PROVE  /\ \A user, id, name, color : SameRows(d, Lists!CreateTag(d, user, id, name, color))
         /\ \A id, set : SameRows(d, Lists!UpdateTag(d, id, set))
         /\ \A gone : SameRows(d, Lists!DeleteTags(d, gone))
<1>1. \A user, id, name, color : SameRows(d, Lists!CreateTag(d, user, id, name, color))
  BY DEF SameRows, Tables, Lists!CreateTag
<1>2. \A id, set : SameRows(d, Lists!UpdateTag(d, id, set))
  BY DEF SameRows, Tables, Lists!UpdateTag
<1>3. \A gone : SameRows(d, Lists!DeleteTags(d, gone))
  BY DEF SameRows, Tables, Lists!DeleteTags
<1> QED
  BY <1>1, <1>2, <1>3

LEMMA MemberRows ==
  ASSUME NEW d, DOMAIN d = Tables
  PROVE  /\ \A owner, user, role : SameRows(d, Lists!Joined(d, owner, user, role))
         /\ \A owner, user, role : SameRows(d, Lists!UpdateMember(d, owner, user, role))
         /\ \A owner, user : SameRows(d, Lists!RemoveMember(d, owner, user))
<1>1. \A owner, user, role : SameRows(d, Lists!Joined(d, owner, user, role))
  BY DEF SameRows, Tables, Lists!Joined
<1>2. \A owner, user, role : SameRows(d, Lists!UpdateMember(d, owner, user, role))
  BY DEF SameRows, Tables, Lists!UpdateMember
<1>3. \A owner, user : SameRows(d, Lists!RemoveMember(d, owner, user))
  BY DEF SameRows, Tables, Lists!RemoveMember
<1> QED
  BY <1>1, <1>2, <1>3

LEMMA ideaForKeeps == ASSUME IInv, NEW c \in Clients, ideaFor(c) PROVE IInv'
<1>1. CASE Refused(c)
  BY <1>1, RefusedKeeps
<1>2. CASE ~Refused(c)
  <2>1. /\ Continues(c, IF Req(c).op = "getIdea" THEN "done" ELSE "write", db.ideas[Req(c).id])
        /\ Req(c).op \in DOMAIN IdeaOps /\ (Req(c).op = "updateIdea" => Notes!Normalize(Req(c).idea) # None)
    BY <1>2 DEF ideaFor
  <2>2. Req(c).op \in {"getIdea", "updateIdea", "deleteIdea"}
    BY <2>1 DEF IdeaOps
  <2>3. Plain(c, IF Req(c).op = "getIdea" THEN "done" ELSE "write")
    BY <2>1, <2>2 DEF Plain
  <2> QED
    BY <2>1, <2>3, ContinuesKeeps
<1> QED
  BY <1>1, <1>2

LEMMA createAllowedKeeps == ASSUME IInv, NEW c \in Clients, createAllowed(c) PROVE IInv'
<1>1. CASE Refused(c)
  BY <1>1, RefusedKeeps
<1>2. CASE ~Refused(c)
  <2>1. Continues(c, "write", None) /\ Req(c).op = "createIdea" /\ task[c].step = "new" /\ Notes!Normalize(Req(c).idea) # None
    BY <1>2 DEF createAllowed, At
  <2>2. Plain(c, "write")
    BY <2>1 DEF Plain, Creating
  <2> QED
    BY <2>1, <2>2, ContinuesKeeps
<1> QED
  BY <1>1, <1>2

(* A step of a request that makes neither an idea nor an invitation.       *)
LEMMA OtherContinues ==
  ASSUME IInv, NEW c \in Clients, NEW s, NEW v, Req(c).op \notin {"createIdea", "updateIdea", "deleteIdea", "invite"},
         s # "locked", Continues(c, s, v)
  PROVE  IInv'
<1>1. Plain(c, s)
  BY DEF Plain
<1> QED
  BY <1>1, ContinuesKeeps

LEMMA tagsKeep ==
  ASSUME IInv, NEW c \in Clients,
         \/ tagsReader(c) \/ tagsCleared(c) \/ handleSetIdeaTags(c) \/ handleSetTripTags(c)
         \/ handleCreateTag(c) \/ handleUpdateTag(c) \/ handleDeleteTag(c)
  PROVE  IInv'
<1>1. CASE Refused(c)
  BY <1>1, RefusedKeeps
<1>2. CASE tagsReader(c) /\ ~Refused(c)
  <2>1. Continues(c, "clear", None) /\ Req(c).op \in {"setIdeaTags", "setTripTags"}
    BY <1>2 DEF tagsReader
  <2> QED
    BY <2>1, OtherContinues
<1>3. CASE tagsCleared(c) /\ ~Refused(c)
  <2>1. Continues(c, "insert", Lists!WornBy(db, By(c), Req(c).id)) /\ Req(c).op \in {"setIdeaTags", "setTripTags"}
    BY <1>3 DEF tagsCleared
  <2> QED
    BY <2>1, OtherContinues
<1>4. ASSUME NEW op, NEW things, SetTags(c, op, things), ~Refused(c) PROVE IInv'
  <2>1. PICK worn : Writes(c, [db EXCEPT !.worn = worn])
    BY <1>4 DEF SetTags
  <2>2. SameRows(db, [db EXCEPT !.worn = worn])
    BY OtherTables DEF IInv, Shaped
  <2> QED
    BY <2>1, <2>2, WritesKeeps
<1>5. CASE (handleSetIdeaTags(c) \/ handleSetTripTags(c)) /\ ~Refused(c)
  BY <1>4, <1>5 DEF handleSetIdeaTags, handleSetTripTags
<1>6. DOMAIN db = Tables
  BY DEF IInv, Shaped
<1>7. CASE (handleCreateTag(c) \/ handleUpdateTag(c) \/ handleDeleteTag(c)) /\ ~Refused(c)
  <2>1. PICK rows : Writes(c, rows) /\ SameRows(db, rows)
    BY <1>6, <1>7, TagRows DEF handleCreateTag, handleUpdateTag, handleDeleteTag
  <2> QED
    BY <2>1, WritesKeeps
<1> QED
  BY <1>1, <1>2, <1>3, <1>5, <1>7

LEMMA membersKeep ==
  ASSUME IInv, NEW c \in Clients,
         handleAddIdeaMember(c) \/ handleUpdateIdeaMember(c) \/ handleRemoveIdeaMember(c) \/ handleLeaveIdeaList(c)
  PROVE  IInv'
<1>1. CASE Refused(c)
  BY <1>1, RefusedKeeps
<1>2. DOMAIN db = Tables
  BY DEF IInv, Shaped
<1>3. CASE (handleAddIdeaMember(c) \/ handleUpdateIdeaMember(c)) /\ ~Refused(c)
  <2>1. PICK rows : Writes(c, rows) /\ SameRows(db, rows)
    BY <1>2, <1>3, MemberRows DEF handleAddIdeaMember, handleUpdateIdeaMember
  <2> QED
    BY <2>1, WritesKeeps
<1>4. ASSUME NEW op, NEW owner, NEW user, RemoveMember(c, op, owner, user), ~Refused(c) PROVE IInv'
  <2>1. /\ db' = Lists!RemoveMember(db, owner, user) /\ Moves(c, "done")
        /\ past' = [past EXCEPT !.raced = @ \cup Tagging(owner, user)]
    BY <1>4 DEF RemoveMember
  <2>2. SameRows(db, db')
    BY <1>2, <2>1, MemberRows
  <2>3. SamePast
    BY <2>1 DEF SamePast, IInv, Shaped, Pasts
  <2> QED
    BY <2>1, <2>2, <2>3, EndsPlain, MovesKeep
<1> QED
  BY <1>1, <1>3, <1>4 DEF handleRemoveIdeaMember, handleLeaveIdeaList

LEMMA linksKeep ==
  ASSUME IInv, NEW c \in Clients, managesLinks(c) \/ handleCreateShareLink(c) \/ handleRevokeShareLink(c)
  PROVE  IInv'
<1>1. CASE Refused(c)
  BY <1>1, RefusedKeeps
<1>2. CASE managesLinks(c) /\ ~Refused(c)
  <2>1. Continues(c, "insert", None) /\ Req(c).op = "createLink"
    BY <1>2 DEF managesLinks, At
  <2> QED
    BY <2>1, OtherContinues
<1>3. CASE (handleCreateShareLink(c) \/ handleRevokeShareLink(c)) /\ ~Refused(c)
  <2>1. PICK links : Writes(c, [db EXCEPT !.links = links])
    BY <1>3 DEF handleCreateShareLink, handleRevokeShareLink
  <2>2. SameRows(db, [db EXCEPT !.links = links])
    BY OtherTables DEF IInv, Shaped
  <2> QED
    BY <2>1, <2>2, WritesKeeps
<1> QED
  BY <1>1, <1>2, <1>3

LEMMA sharedKeeps ==
  ASSUME IInv, NEW c \in Clients,
         \/ requireShareToken(c) \/ handleShared(c) \/ sharedContent(c) \/ sharedGallery(c) \/ handleSharedDocument(c)
         \/ sharedMedia(c) \/ handleSharedMediaFile(c)
  PROVE  IInv'
<1>1. CASE Refused(c)
  BY <1>1, RefusedKeeps
<1>2. CASE requireShareToken(c) /\ ~Refused(c)
  <2>1. PICK v : Continues(c, Shared[Req(c).op], v) /\ Req(c).op \in DOMAIN Shared
    BY <1>2 DEF requireShareToken
  <2>2. Req(c).op \in {"shared", "sharedDocument", "sharedFile", "sharedDownload"}
    BY <2>1 DEF Shared
  <2>3. Shared[Req(c).op] # "locked"
    BY <2>2 DEF Shared
  <2> QED
    BY <2>1, <2>2, <2>3, OtherContinues
<1>3. CASE handleShared(c)
  <2>1. Moves(c, "done") /\ UNCHANGED past
    BY <1>3 DEF handleShared
  <2>2. db' = db \/ \E links : db' = [db EXCEPT !.links = links]
    BY <1>3 DEF handleShared
  <2>3. SameRows(db, db')
    <3>1. CASE db' = db
      BY <3>1 DEF SameRows, IInv, Shaped
    <3>2. CASE \E links : db' = [db EXCEPT !.links = links]
      <4>1. PICK links : db' = [db EXCEPT !.links = links]
        BY <3>2
      <4>2. SameRows(db, [db EXCEPT !.links = links])
        BY OtherTables DEF IInv, Shaped
      <4> QED
        BY <4>1, <4>2
    <3> QED
      BY <2>2, <3>1, <3>2
  <2>4. SamePast
    BY <2>1 DEF SamePast, IInv, Shaped
  <2> QED
    BY <2>1, <2>3, <2>4, EndsPlain, MovesKeep
<1>4. CASE (sharedContent(c) \/ sharedGallery(c) \/ sharedMedia(c)) /\ ~Refused(c)
  <2>1. PICK s \in {"gallery", "zones"} :
          (\E v : Continues(c, s, v)) /\ Req(c).op \in {"sharedDocument", "sharedFile"}
    BY <1>4 DEF sharedContent, sharedGallery, sharedMedia, At
  <2> QED
    BY <2>1, OtherContinues
<1>5. CASE (handleSharedDocument(c) \/ handleSharedMediaFile(c)) /\ ~Refused(c)
  <2>1. \E trip, outside, private, doc, pictures : Answers(c, trip, outside, private, doc, pictures)
    BY <1>5 DEF handleSharedDocument, handleSharedMediaFile
  <2> QED
    BY <2>1, AnswersKeeps
<1> QED
  BY <1>1, <1>2, <1>3, <1>4, <1>5

LEMMA downloadsKeep ==
  ASSUME IInv, NEW c \in Clients,
         \/ handleMediaDownload(c) \/ handleSharedMediaDownload(c)
         \/ redeem(c) \/ downloadReader(c) \/ stillDownloadable(c) \/ handleDownload(c)
  PROVE  IInv'
<1>1. CASE Refused(c)
  BY <1>1, RefusedKeeps
<1>2. ASSUME NEW trip, NEW reader, NEW shown, issue(c, trip, reader, shown), ~Refused(c) PROVE IInv'
  <2>1. PICK tickets : Writes(c, [db EXCEPT !.tickets = tickets])
    BY <1>2 DEF issue
  <2>2. SameRows(db, [db EXCEPT !.tickets = tickets])
    BY OtherTables DEF IInv, Shaped
  <2> QED
    BY <2>1, <2>2, WritesKeeps
<1>3. CASE (handleMediaDownload(c) \/ handleSharedMediaDownload(c)) /\ ~Refused(c)
  BY <1>2, <1>3 DEF handleMediaDownload, handleSharedMediaDownload
<1>4. CASE redeem(c) /\ ~Refused(c)
  <2>1. /\ Goes(c, "reader", [ticket |-> db.tickets[Req(c).id]]) /\ Req(c).op = "open" /\ UNCHANGED db
        /\ past' = [past EXCEPT !.opened[c] = Downloadable(db, db.tickets[Req(c).id])]
    BY <1>4 DEF redeem, At
  <2>2. Plain(c, "reader")
    BY <2>1 DEF Plain
  <2>3. UsersKept
    BY <2>1, SameUsers DEF IInv
  <2>4. SamePast
    BY <2>1 DEF SamePast, IInv, Shaped, Pasts
  <2>5. Quiet
    BY <2>1, <2>3, <2>4 DEF Quiet, Framed, IdeasSame, SamePast, IInv, Shaped
  <2> QED
    BY <2>1, <2>2, <2>5, QuietKeeps
<1>5. CASE (downloadReader(c) \/ stillDownloadable(c)) /\ ~Refused(c)
  <2>1. PICK s \in {"list", "serve"} : (\E v : Continues(c, s, v)) /\ Req(c).op = "open"
    BY <1>5 DEF downloadReader, stillDownloadable, At
  <2> QED
    BY <2>1, OtherContinues
<1>6. CASE handleDownload(c)
  <2>1. \E trip, outside, private, doc, pictures : Answers(c, trip, outside, private, doc, pictures)
    BY <1>6 DEF handleDownload
  <2> QED
    BY <2>1, AnswersKeeps
<1> QED
  BY <1>1, <1>3, <1>4, <1>5, <1>6

LEMMA homesKeep ==
  ASSUME IInv, NEW c \in Clients, homeBody(c) \/ handleSetHome(c) \/ handleDeleteHome(c)
  PROVE  IInv'
<1>1. CASE Refused(c)
  BY <1>1, RefusedKeeps
<1>2. CASE homeBody(c) /\ ~Refused(c)
  <2>1. PICK s \in {"done", "write"} : (\E v : Continues(c, s, v)) /\ Req(c).op = "setHome"
    BY <1>2 DEF homeBody, At
  <2> QED
    BY <2>1, OtherContinues
<1>3. ASSUME NEW home, SetHome(c, home), ~Refused(c) PROVE IInv'
  <2>1. Writes(c, [db EXCEPT !.users[By(c)].home = home])
    BY <1>3 DEF SetHome
  <2>2. Goes(c, "done", task[c].seen) /\ db' = [db EXCEPT !.users[By(c)].home = home] /\ UNCHANGED past
    BY <2>1 DEF Writes, Moves
  <2>3. UsersKept
    BY <2>2 DEF UsersKept, IInv, Shaped, Tables, AddressesDiffer, Account
  <2>4. Quiet
    BY <2>2, <2>3 DEF Quiet, Framed, IdeasSame, IInv, Shaped, Tables
  <2> QED
    BY <2>2, <2>4, EndsPlain, QuietKeeps
<1> QED
  BY <1>1, <1>2, <1>3 DEF handleSetHome, handleDeleteHome

LEMMA tripsKeep ==
  ASSUME IInv, NEW c \in Clients,
         joinTrip(c) \/ leaveTrip(c) \/ movePlace(c) \/ hidePicture(c) \/ deleteTrip(c) \/ TripGone(c)
  PROVE  IInv'
<1>1. DOMAIN db = Tables
  BY DEF IInv, Shaped
<1>2. CASE TripGone(c)
  BY <1>2, RefusedKeeps DEF TripGone
<1>3. CASE leaveTrip(c) \/ movePlace(c)
  <2>1. PICK trips : Writes(c, [db EXCEPT !.trips = trips])
    BY <1>3 DEF leaveTrip, movePlace
  <2> QED
    BY <1>1, <2>1, OtherTables, WritesKeeps
<1>4. CASE (joinTrip(c) \/ hidePicture(c)) /\ ~Refused(c)
  <2>1. Moves(c, "done") /\ \E trips : db' = [db EXCEPT !.trips = trips]
    BY <1>4 DEF joinTrip, hidePicture
  <2>2. \/ \E opened : past' = [past EXCEPT !.opened = opened]
        \/ \E hidden : past' = [past EXCEPT !.hidden = hidden]
    BY <1>4 DEF joinTrip, hidePicture
  <2>3. SamePast
    BY <2>2 DEF SamePast, IInv, Shaped, Pasts
  <2>4. PICK trips : db' = [db EXCEPT !.trips = trips]
    BY <2>1
  <2>5. SameRows(db, [db EXCEPT !.trips = trips])
    BY <1>1, OtherTables
  <2> QED
    BY <2>1, <2>3, <2>4, <2>5, EndsPlain, MovesKeep
<1>5. CASE deleteTrip(c)
  <2>1. PICK trips, worn, links : Writes(c, [db EXCEPT !.trips = trips, !.worn = worn, !.links = links])
    BY <1>5 DEF deleteTrip
  <2>2. SameRows(db, [db EXCEPT !.trips = trips, !.worn = worn, !.links = links])
    BY <1>1 DEF SameRows, Tables
  <2> QED
    BY <2>1, <2>2, WritesKeeps
<1>6. CASE Refused(c)
  BY <1>6, RefusedKeeps
<1> QED
  BY <1>2, <1>3, <1>4, <1>5, <1>6

(* Nothing but the time.                                                   *)
LEMMA TaskStays ==
  ASSUME IInv, UNCHANGED task, SameRows(db, db'), SamePast
  PROVE  IInv'
<1>1. Framed /\ IdeasSame
  BY DEF Framed, IdeasSame, SameRows, SamePast
<1>2. Shaped' /\ RequestsOK'
  BY <1>1, ShapeStays DEF IInv
<1>3. AddressesDiffer(db)'
  BY SameUsers, AddressesKept DEF IInv, SameRows
<1>4. InvitesInv'
  BY InvitesStay DEF IInv, SameRows, SamePast
<1>5. IdeasInv'
  BY <1>1, IdeasStay DEF IInv
<1> QED
  BY <1>2, <1>3, <1>4, <1>5 DEF IInv

LEMMA TickKeeps == ASSUME IInv, Tick PROVE IInv'
<1>1. UNCHANGED task /\ SamePast
  BY DEF Tick, SamePast, IInv, Shaped
<1>2. PICK now : db' = [db EXCEPT !.now = now]
  BY DEF Tick
<1>3. SameRows(db, db')
  BY <1>2, OtherTables DEF IInv, Shaped
<1> QED
  BY <1>1, <1>3, TaskStays

LEMMA StutterKeeps == ASSUME IInv, UNCHANGED vars PROVE IInv'
<1>1. SameRows(db, db') /\ SamePast /\ UNCHANGED task
  BY DEF vars, SameRows, SamePast, IInv, Shaped
<1> QED
  BY <1>1, TaskStays

(******************************* invitations *******************************)

(* One row more under a key of its own.                                    *)
Added(rows, id, row, new) ==
  /\ DOMAIN new = DOMAIN rows \cup {id}
  /\ \A i \in DOMAIN rows : new[i] = rows[i]
  /\ id \notin DOMAIN rows => new[id] = row

LEMMA AddRows ==
  ASSUME NEW rows, NEW id, NEW row
  PROVE  Added(rows, id, row, Lists!Add(rows, id, row))
BY DEF Added, Lists!Add, Lists!Over

LEMMA invitationReads ==
  ASSUME IInv, NEW c \in Clients, invitee(c) \/ acceptor(c) \/ handlePreviewIdeaInvitation(c)
  PROVE  IInv'
<1>1. CASE Refused(c)
  BY <1>1, RefusedKeeps
<1>2. CASE invitee(c) /\ ~Refused(c)
  <2>1. Continues(c, "insert", db.now + invitationLifetime) /\ Req(c).op = "invite" /\ task[c].step = "new"
    BY <1>2 DEF invitee, At
  <2>2. Plain(c, "insert")
    BY <2>1 DEF Plain, Inviting
  <2> QED
    BY <2>1, <2>2, ContinuesKeeps
<1>3. CASE (acceptor(c) \/ handlePreviewIdeaInvitation(c)) /\ ~Refused(c)
  <2>1. PICK s \in {"accept", "done", "write"} : (\E v : Continues(c, s, v)) /\ Req(c).op \in {"accept", "preview", "register"}
    BY <1>3 DEF acceptor, handlePreviewIdeaInvitation, At
  <2> QED
    BY <2>1, OtherContinues
<1> QED
  BY <1>1, <1>2, <1>3

(* A step that ends a request and changes the invitations alone.           *)
SameButInvites(d, e) ==
  DOMAIN e = Tables /\ e.ideas = d.ideas /\ e.history = d.history /\ e.began = d.began /\ e.users = d.users

LEMMA InvitesAlone ==
  ASSUME IInv, NEW c \in Clients, Moves(c, "done"), SameButInvites(db, db'), SamePast \/ (Framed /\ past'.written = past.written /\ past'.overtaken = past.overtaken),
         InvitesInv'
  PROVE  IInv'
<1>1. Moved(c, "done", task[c].seen)
  BY GoesMoved DEF IInv, Moves
<1>2. Framed /\ IdeasSame
  BY DEF Framed, IdeasSame, SameButInvites, SamePast
<1>3. Shaped' /\ RequestsOK'
  BY <1>1, <1>2, ShapeKept DEF IInv
<1>4. AddressesDiffer(db)'
  BY SameUsers, AddressesKept DEF IInv, SameButInvites
<1>5. IdeasInv'
  BY <1>1, <1>2, EndsPlain, IdeasKept DEF IInv
<1> QED
  BY <1>3, <1>4, <1>5 DEF IInv

LEMMA revokeKeeps == ASSUME IInv, NEW c \in Clients, handleRevokeIdeaInvitation(c) PROVE IInv'
<1>1. CASE Refused(c)
  BY <1>1, RefusedKeeps
<1>2. CASE ~Refused(c)
  <2> PICK id : id = Req(c).id
    OBVIOUS
  <2>1. Writes(c, Lists!Revoke(db, id)) /\ id \in DOMAIN db.invites /\ db.invites[id].state = "open"
    BY <1>2 DEF handleRevokeIdeaInvitation, Known, Lists!Redeemable, Lists!Open
  <2>2. Moves(c, "done") /\ db' = [db EXCEPT !.invites[id].state = "revoked"] /\ UNCHANGED past
    BY <2>1 DEF Writes, Lists!Revoke
  <2>3. db'.invites = [db.invites EXCEPT ![id].state = "revoked"] /\ SameButInvites(db, db')
    BY <2>2 DEF IInv, Shaped, Tables, SameButInvites
  <2>4. \A i \in DOMAIN db.invites : DOMAIN db.invites[i] = Columns
    BY DEF IInv, InvitesInv
  <2>5. Kept(db.invites, db'.invites)
    BY <2>1, <2>3, <2>4 DEF Kept, Columns
  <2>6. SamePast
    BY <2>2 DEF SamePast, IInv, Shaped
  <2>7. Moved(c, "done", task[c].seen)
    BY <2>2, GoesMoved DEF IInv, Moves
  <2>8. InvitesInv'
    BY <2>5, <2>6, <2>7, EndsPlain, InvitesKept DEF IInv, SamePast
  <2> QED
    BY <2>2, <2>3, <2>6, <2>8, InvitesAlone
<1> QED
  BY <1>1, <1>2

(* A new invitation has an identifier under which nobody has joined.       *)
LEMMA InvitationAdded ==
  ASSUME InvitesInv, OneEach("invite"), NEW c \in Clients, Inviting(c), Moved(c, "done", task[c].seen), past'.joins = past.joins,
         NEW rows, Kept(db.invites, rows), NEW invite, DOMAIN invite = Columns,
         db'.invites = Lists!Add(rows, Req(c).id, invite)
  PROVE  InvitesInv'
<1> PICK id : id = Req(c).id
  OBVIOUS
<1>1. id \notin DOMAIN db.invites /\ \A j \in DOMAIN past.joins : past.joins[j].invite # id
  BY DEF InvitesInv
<1>2. id \notin DOMAIN rows
  BY <1>1 DEF Kept
<1>3. DOMAIN db'.invites = DOMAIN rows \cup {id} /\ db'.invites[id] = invite /\ \A i \in DOMAIN rows : db'.invites[i] = rows[i]
  <2>1. PICK new : new = Lists!Add(rows, id, invite)
    OBVIOUS
  <2>2. DOMAIN new = DOMAIN rows \cup {id} /\ new[id] = invite /\ \A i \in DOMAIN rows : new[i] = rows[i]
    <3>1. Added(rows, id, invite, Lists!Add(rows, id, invite))
      BY ONLY AddRows
    <3> QED
      BY <1>2, <2>1, <3>1 DEF Added
  <2>3. db'.invites = new
    BY <2>1
  <2> QED
    BY <2>2, <2>3
<1>4. \A i \in DOMAIN db'.invites : DOMAIN db'.invites[i] = Columns
  BY <1>3 DEF Kept
<1>5. IsSeq(past.joins)'
  BY DEF InvitesInv, IsSeq
<1>6. InvitationsAreSpentOnce'
  <2> SUFFICES ASSUME NEW i \in DOMAIN past.joins
               PROVE  /\ \A j \in DOMAIN past.joins : past.joins[j].invite = past.joins[i].invite => i = j
                      /\ past.joins[i].invite \in DOMAIN db'.invites =>
                           /\ db'.invites[past.joins[i].invite].state = "accepted"
                           /\ db'.invites[past.joins[i].invite].by = past.joins[i].user
                           /\ past.joins[i].at < db'.invites[past.joins[i].invite].until
    BY DEF InvitationsAreSpentOnce
  <2>1. \A j \in DOMAIN past.joins : past.joins[j].invite = past.joins[i].invite => i = j
    BY DEF InvitesInv, InvitationsAreSpentOnce
  <2>2. ASSUME past.joins[i].invite \in DOMAIN db'.invites
        PROVE  /\ db'.invites[past.joins[i].invite].state = "accepted"
               /\ db'.invites[past.joins[i].invite].by = past.joins[i].user
               /\ past.joins[i].at < db'.invites[past.joins[i].invite].until
    <3> PICK k : k = past.joins[i].invite
      OBVIOUS
    <3>1. k \in DOMAIN rows /\ db'.invites[k] = rows[k]
      BY <1>1, <1>3, <2>2
    <3>2. k \in DOMAIN db.invites /\ rows[k].until = db.invites[k].until
      BY <3>1 DEF Kept
    <3>3. db.invites[k].state = "accepted" /\ db.invites[k].by = past.joins[i].user /\ past.joins[i].at < db.invites[k].until
      BY <3>2 DEF InvitesInv, InvitationsAreSpentOnce
    <3> QED
      BY <3>1, <3>2, <3>3 DEF Kept
  <2> QED
    BY <2>1, <2>2
<1>7. \A o \in Clients : Inviting(o)' => Inviting(o) /\ Req(o)' = Req(o) /\ o # c
  BY DEF Inviting, Moved, Req
<1>8. \A o \in Clients : Inviting(o)' => Req(o).id # id
  BY <1>7 DEF OneEach, Inviting
<1>9. \A o \in Clients : Inviting(o)' => /\ Req(o)'.id \notin DOMAIN db'.invites
                                         /\ \A j \in DOMAIN past'.joins : past'.joins[j].invite # Req(o)'.id
  <2> SUFFICES ASSUME NEW o \in Clients, Inviting(o)'
               PROVE  Req(o).id \notin DOMAIN db'.invites /\ \A j \in DOMAIN past.joins : past.joins[j].invite # Req(o).id
    BY <1>7
  <2>1. Req(o).id \notin DOMAIN db.invites /\ \A j \in DOMAIN past.joins : past.joins[j].invite # Req(o).id
    BY <1>7 DEF InvitesInv
  <2> QED
    BY <2>1, <1>3, <1>8 DEF Kept
<1> QED
  BY <1>4, <1>5, <1>6, <1>9 DEF InvitesInv

LEMMA closeExpiredKeeps ==
  ASSUME NEW d, DOMAIN d = Tables, \A i \in DOMAIN d.invites : DOMAIN d.invites[i] = Columns, NEW owner, NEW email, NEW now
  PROVE  /\ SameButInvites(d, Lists!closeExpired(d, owner, email, now))
         /\ Kept(d.invites, Lists!closeExpired(d, owner, email, now).invites)
<1>1. PICK rows : rows = [i \in DOMAIN d.invites |->
                            IF i \in {j \in Lists!OpenTo(d, owner, email) : d.invites[j].until <= now}
                            THEN [d.invites[i] EXCEPT !.state = "revoked"] ELSE d.invites[i]]
  OBVIOUS
<1>2. Lists!closeExpired(d, owner, email, now) = [d EXCEPT !.invites = rows]
  BY <1>1 DEF Lists!closeExpired
<1>3. \A i \in Lists!OpenTo(d, owner, email) : d.invites[i].state = "open"
  BY DEF Lists!OpenTo, Lists!Open
<1>4. Kept(d.invites, rows)
  BY <1>1, <1>3 DEF Kept, Columns
<1>5. SameButInvites(d, [d EXCEPT !.invites = rows]) /\ [d EXCEPT !.invites = rows].invites = rows
  BY DEF SameButInvites, Tables
<1> QED
  BY <1>2, <1>4, <1>5

LEMMA createInvitationKeeps == ASSUME IInv, NEW c \in Clients, handleCreateIdeaInvitation(c) PROVE IInv'
<1>1. CASE Refused(c)
  BY <1>1, RefusedKeeps
<1>2. CASE ~Refused(c)
  <2> PICK rows : rows = Lists!closeExpired(db, By(c), Req(c).email, db.now)
    OBVIOUS
  <2> PICK invite : invite = [owner |-> By(c), email |-> Req(c).email, role |-> Req(c).role, until |-> task[c].seen,
                              state |-> "open", by |-> None]
    OBVIOUS
  <2>1. Writes(c, Lists!CreateIdeaInvitation(rows, Req(c).id, invite)) /\ Inviting(c)
    BY <1>2 DEF handleCreateIdeaInvitation, At, Inviting
  <2>2. Moves(c, "done") /\ db' = [rows EXCEPT !.invites = Lists!Add(@, Req(c).id, invite)] /\ UNCHANGED past
    BY <2>1 DEF Writes, Lists!CreateIdeaInvitation
  <2>3. SameButInvites(db, rows) /\ Kept(db.invites, rows.invites)
    BY closeExpiredKeeps DEF IInv, Shaped, InvitesInv
  <2>4. SameButInvites(db, db') /\ db'.invites = Lists!Add(rows.invites, Req(c).id, invite)
    BY <2>2, <2>3 DEF SameButInvites, Tables
  <2>5. DOMAIN invite = Columns
    BY DEF Columns
  <2>6. SamePast
    BY <2>2 DEF SamePast, IInv, Shaped
  <2>7. Moved(c, "done", task[c].seen)
    BY <2>2, GoesMoved DEF IInv, Moves
  <2>8. InvitesInv'
    <3>1. past'.joins = past.joins /\ OneEach("invite") /\ InvitesInv
      BY <2>6 DEF SamePast, IInv, RequestsOK
    <3> QED
      BY ONLY <2>1, <2>3, <2>4, <2>5, <2>7, <3>1, InvitationAdded
  <2> QED
    BY <2>2, <2>4, <2>6, <2>8, InvitesAlone
<1> QED
  BY <1>1, <1>2

(***************************** somebody joins ******************************)

(* The invitation id is spent on user; the others are as they were.        *)
SpentOn(o, n, id, user) ==
  /\ \A i \in DOMAIN n : /\ i \in DOMAIN o /\ DOMAIN n[i] = Columns /\ n[i].until = o[i].until
                         /\ i # id /\ o[i].state = "accepted" => n[i].state = "accepted" /\ n[i].by = o[i].by
  /\ id \in DOMAIN n => n[id].state = "accepted" /\ n[id].by = user

SpentIn(o, d, e, id, user) ==
  /\ DOMAIN e = Tables /\ \A t \in Tables \ {"members", "invites"} : e[t] = d[t]
  /\ SpentOn(o, e.invites, id, user)

LEMMA SpendSpends ==
  ASSUME NEW d, DOMAIN d = Tables, NEW o, Kept(o, d.invites), NEW id, NEW user
  PROVE  SpentIn(o, d, Lists!Spend(d, id, user), id, user)
<1>n. PICK n : n = [d.invites EXCEPT ![id].state = "accepted", ![id].by = user]
  OBVIOUS
<1>1. DOMAIN Lists!Joined(d, d.invites[id].owner, user, d.invites[id].role) = Tables
  BY DEF Lists!Joined
<1>2. \A t \in Tables \ {"members"} : Lists!Joined(d, d.invites[id].owner, user, d.invites[id].role)[t] = d[t]
  BY DEF Lists!Joined
<1>j. PICK j : j = Lists!Joined(d, d.invites[id].owner, user, d.invites[id].role)
  OBVIOUS
<1>3. Lists!Spend(d, id, user) = [j EXCEPT !.invites[id].state = "accepted", !.invites[id].by = user]
  BY <1>j DEF Lists!Spend
<1>4. j.invites = d.invites /\ DOMAIN j = Tables
  BY <1>1, <1>2, <1>j DEF Tables
<1>5. [j EXCEPT !.invites[id].state = "accepted", !.invites[id].by = user].invites = n
  BY <1>4, <1>n DEF Tables
<1>6. SpentOn(o, n, id, user)
  BY <1>n DEF SpentOn, Kept, Columns
<1>7. DOMAIN [j EXCEPT !.invites[id].state = "accepted", !.invites[id].by = user] = Tables
  BY <1>4
<1>8. \A t \in Tables \ {"members", "invites"} : [j EXCEPT !.invites[id].state = "accepted", !.invites[id].by = user][t] = d[t]
  BY <1>2, <1>4, <1>j DEF Tables
<1> QED
  BY <1>3, <1>5, <1>6, <1>7, <1>8 DEF SpentIn

(* Whoever joins is written down after everybody else.                     *)
LEMMA JoinAppended ==
  ASSUME NEW s, IsSeq(s), NEW x
  PROVE  /\ IsSeq(Append(s, x)) /\ \E n \in Nat : DOMAIN s = 1..n /\ DOMAIN Append(s, x) = 1..(n + 1)
                                                  /\ Append(s, x)[n + 1] = x /\ \A i \in 1..n : Append(s, x)[i] = s[i]
<1>1. PICK S : s \in Seq(S)
  BY DEF IsSeq
<1>2. s \in Seq(S \cup {x}) /\ x \in S \cup {x}
  BY <1>1
<1>3. Append(s, x) \in Seq(S \cup {x})
  BY <1>2
<1>4. /\ Len(s) \in Nat /\ DOMAIN s = 1..Len(s) /\ DOMAIN Append(s, x) = 1..(Len(s) + 1)
      /\ Append(s, x)[Len(s) + 1] = x /\ \A i \in 1..Len(s) : Append(s, x)[i] = s[i]
  BY <1>2
<1> QED
  BY <1>3, <1>4 DEF IsSeq

LEMMA JoinKeepsInvites ==
  ASSUME InvitesInv, NEW c \in Clients, Moved(c, "done", task[c].seen),
         NEW id, id \in DOMAIN db.invites, db.invites[id].state = "open", db.now < db.invites[id].until,
         NEW user, SpentOn(db.invites, db'.invites, id, user),
         past'.joins = Append(past.joins, [invite |-> id, user |-> user, at |-> db.now])
  PROVE  InvitesInv'
<1> PICK join : join = [invite |-> id, user |-> user, at |-> db.now]
  OBVIOUS
<1>1. IsSeq(Append(past.joins, join))
  BY JoinAppended DEF InvitesInv
<1>2. PICK n \in Nat : /\ DOMAIN past.joins = 1..n /\ DOMAIN past'.joins = 1..(n + 1)
                       /\ past'.joins[n + 1] = join /\ \A i \in 1..n : past'.joins[i] = past.joins[i]
  <2>1. PICK n \in Nat : /\ DOMAIN past.joins = 1..n /\ DOMAIN Append(past.joins, join) = 1..(n + 1)
                         /\ Append(past.joins, join)[n + 1] = join /\ \A i \in 1..n : Append(past.joins, join)[i] = past.joins[i]
    BY JoinAppended DEF InvitesInv
  <2> QED
    BY <2>1
<1>3. \A j \in 1..n : past.joins[j].invite # id
  <2> SUFFICES ASSUME NEW j \in 1..n, past.joins[j].invite = id PROVE FALSE
    OBVIOUS
  <2>1. db.invites[id].state = "accepted"
    BY <1>2 DEF InvitesInv, InvitationsAreSpentOnce
  <2> QED
    BY <2>1
<1>4. \A i \in DOMAIN db'.invites : i \in DOMAIN db.invites /\ DOMAIN db'.invites[i] = Columns
  BY DEF SpentOn
<1>5. InvitationsAreSpentOnce'
  <2> SUFFICES ASSUME NEW i \in 1..(n + 1)
               PROVE  /\ \A j \in 1..(n + 1) : past'.joins[j].invite = past'.joins[i].invite => i = j
                      /\ past'.joins[i].invite \in DOMAIN db'.invites =>
                           /\ db'.invites[past'.joins[i].invite].state = "accepted"
                           /\ db'.invites[past'.joins[i].invite].by = past'.joins[i].user
                           /\ past'.joins[i].at < db'.invites[past'.joins[i].invite].until
    BY <1>2 DEF InvitationsAreSpentOnce
  <2>1. CASE i = n + 1
    <3>1. past'.joins[i].invite = id /\ past'.joins[i].user = user /\ past'.joins[i].at = db.now
      BY <1>2, <2>1
    <3>2. \A j \in 1..(n + 1) : past'.joins[j].invite = id => j = n + 1
      BY <1>2, <1>3
    <3>3. id \in DOMAIN db'.invites => /\ db'.invites[id].state = "accepted" /\ db'.invites[id].by = user
                                       /\ db'.invites[id].until = db.invites[id].until
      BY DEF SpentOn
    <3> QED
      BY <3>1, <3>2, <3>3, <2>1
  <2>2. CASE i \in 1..n
    <3> PICK k : k = past.joins[i].invite
      OBVIOUS
    <3>1. past'.joins[i] = past.joins[i] /\ k # id
      BY <1>2, <1>3, <2>2
    <3>2. \A j \in 1..(n + 1) : past'.joins[j].invite = k => i = j
      <4>1. \A j \in 1..n : past'.joins[j].invite = k => i = j
        BY <1>2, <2>2 DEF InvitesInv, InvitationsAreSpentOnce
      <4>2. past'.joins[n + 1].invite = id
        BY <1>2
      <4>3. \A j \in 1..(n + 1) : j \in 1..n \/ j = n + 1
        OBVIOUS
      <4> QED
        BY <3>1, <4>1, <4>2, <4>3
    <3>3. ASSUME k \in DOMAIN db'.invites
          PROVE  /\ db'.invites[k].state = "accepted" /\ db'.invites[k].by = past.joins[i].user
                 /\ past.joins[i].at < db'.invites[k].until
      <4>1. k \in DOMAIN db.invites /\ db'.invites[k].until = db.invites[k].until
        BY <3>3 DEF SpentOn
      <4>2. db.invites[k].state = "accepted" /\ db.invites[k].by = past.joins[i].user /\ past.joins[i].at < db.invites[k].until
        BY <4>1, <1>2, <2>2 DEF InvitesInv, InvitationsAreSpentOnce
      <4> QED
        BY <3>1, <3>3, <4>1, <4>2 DEF SpentOn
    <3> QED
      BY <3>1, <3>2, <3>3
  <2> QED
    BY <1>2, <2>1, <2>2
<1>6. \A o \in Clients : Inviting(o)' => Inviting(o) /\ Req(o)' = Req(o)
  BY DEF Inviting, Moved, Req
<1>7. \A o \in Clients : Inviting(o)' => /\ Req(o)'.id \notin DOMAIN db'.invites
                                         /\ \A j \in DOMAIN past'.joins : past'.joins[j].invite # Req(o)'.id
  <2> SUFFICES ASSUME NEW o \in Clients, Inviting(o)'
               PROVE  Req(o).id \notin DOMAIN db'.invites /\ \A j \in 1..(n + 1) : past'.joins[j].invite # Req(o).id
    BY <1>6, <1>2
  <2>1. Req(o).id \notin DOMAIN db.invites /\ \A j \in 1..n : past.joins[j].invite # Req(o).id
    BY <1>6, <1>2 DEF InvitesInv
  <2>2. Req(o).id # id
    BY <2>1
  <2> QED
    BY <2>1, <2>2, <1>2, <1>4
<1>8. IsSeq(past.joins)'
  BY <1>1
<1> QED
  BY <1>4, <1>5, <1>7, <1>8 DEF InvitesInv

LEMMA acceptKeeps == ASSUME IInv, NEW c \in Clients, handleAcceptIdeaInvitation(c) PROVE IInv'
<1>1. CASE Refused(c)
  BY <1>1, RefusedKeeps
<1>2. CASE ~Refused(c)
  <2> PICK id : id = Req(c).id
    OBVIOUS
  <2> PICK user : user = By(c)
    OBVIOUS
  <2>1. /\ Joins(c, Lists!Spend(db, id, user), user) /\ id \in DOMAIN db.invites
        /\ db.invites[id].state = "open" /\ db.now < db.invites[id].until
    BY <1>2 DEF handleAcceptIdeaInvitation, Known, Lists!AcceptAllowed, Lists!Redeemable, Lists!Open
  <2>2. /\ db' = Lists!Spend(db, id, user) /\ Moves(c, "done")
        /\ past' = [past EXCEPT !.joins = Append(@, [invite |-> id, user |-> user, at |-> db.now])]
    BY <2>1 DEF Joins
  <2>3. DOMAIN db = Tables /\ Kept(db.invites, db.invites)
    BY KeptItself DEF IInv, Shaped, InvitesInv
  <2>4. /\ DOMAIN db' = Tables /\ SpentOn(db.invites, db'.invites, id, user)
        /\ \A t \in Tables \ {"members", "invites"} : db'[t] = db[t]
    <3>1. SpentIn(db.invites, db, Lists!Spend(db, id, user), id, user)
      BY ONLY <2>3, SpendSpends
    <3> QED
      BY <2>2, <3>1 DEF SpentIn
  <2>5. SameButInvites(db, db')
    BY <2>4 DEF SameButInvites, Tables
  <2>6. /\ past'.joins = Append(past.joins, [invite |-> id, user |-> user, at |-> db.now])
        /\ DOMAIN past' = Pasts /\ past'.written = past.written /\ past'.overtaken = past.overtaken
    BY <2>2 DEF IInv, Shaped, Pasts
  <2>7. Moved(c, "done", task[c].seen)
    BY <2>2, GoesMoved DEF IInv, Moves
  <2>8. InvitesInv'
    BY <2>1, <2>4, <2>6, <2>7, JoinKeepsInvites DEF IInv
  <2> QED
    BY <2>2, <2>4, <2>5, <2>6, <2>8, InvitesAlone DEF Framed
<1> QED
  BY <1>1, <1>2

(***************************** an account goes *****************************)

(* The tables e without the account user and what was theirs in d.         *)
DroppedRows(d, e, user) ==
  /\ DOMAIN e = Tables /\ e.began = d.began
  /\ \A u \in DOMAIN e.users : u \in DOMAIN d.users /\ e.users[u] = d.users[u]
  /\ \A i \in DOMAIN e.invites : i \in DOMAIN d.invites /\ e.invites[i] = d.invites[i]

Nobody(name, user) == IF name = user THEN None ELSE name

DroppedIdeas(d, e, user) ==
  /\ \A id \in DOMAIN e.ideas :
       /\ id \in DOMAIN d.ideas /\ d.ideas[id].owner # user
       /\ DOMAIN e.ideas[id] = DOMAIN d.ideas[id] /\ e.ideas[id].owner = d.ideas[id].owner
       /\ e.ideas[id].title = d.ideas[id].title /\ e.ideas[id].updatedBy = Nobody(d.ideas[id].updatedBy, user)
  /\ \A id \in DOMAIN d.ideas : d.ideas[id].owner # user => id \in DOMAIN e.ideas

DroppedEntry(d, old, new, user) ==
  /\ Entered(new) /\ new.owner = old.owner /\ new.title = old.title /\ new.user = Nobody(old.user, user)
  /\ new.idea = IF old.idea \in DOMAIN d.ideas /\ d.ideas[old.idea].owner = user THEN None ELSE old.idea

DroppedHistory(d, e, user) ==
  /\ \A k \in DOMAIN e.history : /\ k \in DOMAIN d.history /\ d.history[k].owner # user
                                 /\ DroppedEntry(d, d.history[k], e.history[k], user)
  /\ \A k \in DOMAIN d.history : d.history[k].owner # user => k \in DOMAIN e.history

DroppedTrips(d, e, user) ==
  /\ e.now = d.now /\ e.links = d.links /\ e.tickets = d.tickets /\ DOMAIN e.users = DOMAIN d.users \ {user}
  /\ e.trips = [t \in DOMAIN d.trips |-> [d.trips[t] EXCEPT !.members = @ \ {user}]]

Dropped(d, e, user) ==
  DroppedRows(d, e, user) /\ DroppedIdeas(d, e, user) /\ DroppedHistory(d, e, user) /\ DroppedTrips(d, e, user)

LEMMA DropUserDrops ==
  ASSUME NEW d, DOMAIN d = Tables, \A id \in DOMAIN d.ideas : Titled(d.ideas[id]),
         \A k \in DOMAIN d.history : Entered(d.history[k]), NEW user
  PROVE  Dropped(d, Lists!DropUser(d, user), user)
<1> DEFINE own == {id \in DOMAIN d.ideas : d.ideas[id].owner = user}
<1> DEFINE forgotten == [k \in DOMAIN d.history |-> IF d.history[k].idea \in own THEN [d.history[k] EXCEPT !.idea = None]
                                                    ELSE d.history[k]]
<1> DEFINE rest == Lists!DeleteTags(Lists!Forget(d, own), Lists!OwnTags(d, user))
<1> DEFINE kept == {k \in DOMAIN rest.history : rest.history[k].owner # user}
<1> DEFINE ideas == [id \in DOMAIN rest.ideas |->
                       [rest.ideas[id] EXCEPT !.createdBy = Nobody(@, user), !.updatedBy = Nobody(@, user)]]
<1> DEFINE history == [k \in kept |-> [rest.history[k] EXCEPT !.user = Nobody(@, user)]]
<1> DEFINE members == Lists!Only(rest.members, {pair \in DOMAIN d.members : user \notin {pair[1], pair[2]}})
<1> DEFINE users == Lists!Only(rest.users, DOMAIN rest.users \ {user})
<1> DEFINE trips == [t \in DOMAIN d.trips |-> [d.trips[t] EXCEPT !.members = @ \ {user}]]
<1> DEFINE invites == Lists!Only(rest.invites, {i \in DOMAIN d.invites : d.invites[i].owner # user})
<1>1. Lists!DropUser(d, user) = [rest EXCEPT !.users = users, !.members = members, !.invites = invites, !.ideas = ideas,
                                             !.history = history, !.trips = trips]
  BY DEF Lists!DropUser, Nobody
<1> HIDE DEF trips
<1>2. PICK e : e = Lists!DropUser(d, user)
  OBVIOUS
<1>3. /\ DOMAIN rest = Tables /\ rest.users = d.users /\ rest.invites = d.invites /\ rest.began = d.began
      /\ rest.now = d.now /\ rest.links = d.links /\ rest.tickets = d.tickets
      /\ DOMAIN rest.ideas = DOMAIN d.ideas \ own /\ \A id \in DOMAIN d.ideas \ own : rest.ideas[id] = d.ideas[id]
      /\ rest.history = forgotten
  <2> HIDE DEF own, forgotten, rest
  <2> PICK f : f = Lists!Forget(d, own)
    OBVIOUS
  <2>1. Lists!Forget(d, own) = [d EXCEPT !.ideas = Lists!Only(@, DOMAIN @ \ own), !.worn = {w \in @ : w[2] \notin own},
                                         !.history = forgotten]
    BY DEF Lists!Forget, forgotten
  <2>2. /\ DOMAIN f = Tables /\ f.users = d.users /\ f.invites = d.invites /\ f.began = d.began /\ f.history = forgotten
        /\ f.now = d.now /\ f.links = d.links /\ f.tickets = d.tickets
    BY <2>1 DEF Tables
  <2>3. f.ideas = Lists!Only(d.ideas, DOMAIN d.ideas \ own)
    BY <2>1 DEF Tables
  <2>4. DOMAIN f.ideas = DOMAIN d.ideas \ own /\ \A id \in DOMAIN d.ideas \ own : f.ideas[id] = d.ideas[id]
    BY <2>3 DEF Lists!Only
  <2>5. rest = Lists!DeleteTags(f, Lists!OwnTags(d, user))
    BY DEF rest
  <2>6. SameRows(f, rest)
    BY <2>2, <2>5, TagRows
  <2>7. rest.now = f.now /\ rest.links = f.links /\ rest.tickets = f.tickets
    BY <2>2, <2>5 DEF Lists!DeleteTags, Tables
  <2> QED
    BY <2>2, <2>4, <2>6, <2>7 DEF SameRows
<1> HIDE DEF rest
<1>4. /\ DOMAIN e = Tables /\ e.users = users /\ e.invites = invites /\ e.ideas = ideas /\ e.history = history
      /\ e.began = d.began /\ e.trips = trips /\ e.now = d.now /\ e.links = d.links /\ e.tickets = d.tickets
  <2> HIDE DEF users, members, invites, ideas, history
  <2> QED
    BY <1>1, <1>2, <1>3 DEF Tables
<1>5. \A k \in DOMAIN d.history :
        /\ Entered(rest.history[k]) /\ rest.history[k].owner = d.history[k].owner /\ rest.history[k].title = d.history[k].title
        /\ rest.history[k].user = d.history[k].user
        /\ rest.history[k].idea = IF d.history[k].idea \in own THEN None ELSE d.history[k].idea
  <2> HIDE DEF own
  <2> QED
    BY <1>3 DEF Entered
<1>6. DroppedRows(d, e, user)
  <2>1. \A u \in DOMAIN users : u \in DOMAIN d.users /\ users[u] = d.users[u]
    BY <1>3 DEF Lists!Only
  <2>2. \A i \in DOMAIN invites : i \in DOMAIN d.invites /\ invites[i] = d.invites[i]
    BY <1>3 DEF Lists!Only
  <2> QED
    BY <1>4, <2>1, <2>2 DEF DroppedRows
<1>7. DroppedIdeas(d, e, user)
  <2>1. DOMAIN ideas = DOMAIN d.ideas \ own
    BY <1>3
  <2>2. ASSUME NEW id \in DOMAIN d.ideas \ own
        PROVE  /\ DOMAIN ideas[id] = DOMAIN d.ideas[id] /\ ideas[id].owner = d.ideas[id].owner
               /\ ideas[id].title = d.ideas[id].title /\ ideas[id].updatedBy = Nobody(d.ideas[id].updatedBy, user)
    <3>1. ideas[id] = [d.ideas[id] EXCEPT !.createdBy = Nobody(@, user), !.updatedBy = Nobody(@, user)]
      BY <1>3, <2>2
    <3> QED
      BY <3>1 DEF Titled
  <2>3. \A id \in DOMAIN d.ideas : id \in own <=> d.ideas[id].owner = user
    OBVIOUS
  <2>4. e.ideas = ideas
    BY <1>4
  <2> HIDE DEF own, ideas
  <2> QED
    BY <2>1, <2>2, <2>3, <2>4 DEF DroppedIdeas
<1>8. DOMAIN rest.history = DOMAIN d.history
  BY <1>3
<1>9. kept = {k \in DOMAIN d.history : d.history[k].owner # user}
  BY <1>5, <1>8
<1>10. \A k \in kept : DroppedEntry(d, d.history[k], history[k], user)
  <2> TAKE k \in kept
  <2>1. history[k] = [rest.history[k] EXCEPT !.user = Nobody(@, user)]
    OBVIOUS
  <2>2. k \in DOMAIN d.history
    BY <1>9
  <2> HIDE DEF history, kept
  <2> QED
    BY <1>5, <2>1, <2>2 DEF DroppedEntry, Entered
<1>11. DroppedHistory(d, e, user)
  <2>1. e.history = history /\ DOMAIN history = kept
    BY <1>4
  <2> HIDE DEF history, kept
  <2> QED
    BY <2>1, <1>9, <1>10 DEF DroppedHistory
<1>12. DroppedTrips(d, e, user)
  <2>1. DOMAIN users = DOMAIN d.users \ {user}
    BY <1>3 DEF Lists!Only
  <2> QED
    BY <1>4, <2>1 DEF DroppedTrips, trips
<1> QED
  BY <1>2, <1>6, <1>7, <1>11, <1>12 DEF Dropped

(* Nothing the invariant says is lost with an account.                     *)
LEMMA DroppedKeepsIdeas ==
  ASSUME IdeasInv, NEW c \in Clients, NEW s, NEW v, Moved(c, s, v), Plain(c, s), NEW user,
         DroppedIdeas(db, db', user), DroppedHistory(db, db', user), db'.began = db.began,
         past'.written = past.written /\ past'.overtaken = past.overtaken
  PROVE  IdeasInv'
<1>1. \A o \in Clients :
           /\ Req(o)' = Req(o)
           /\ Locked(o)' => Locked(o) /\ o # c
           /\ Stamped(o)' => Stamped(o) /\ o # c /\ task'[o].seen = task[o].seen
           /\ Creating(o)' => Creating(o)
           /\ Formed(o)' => Notes!Normalize(Req(o).idea) # None
  BY NoNewStamps DEF IdeasInv
<1>2. DroppedIdeas(db, db', user) /\ DroppedHistory(db, db', user) /\ db'.began = db.began
  OBVIOUS
<1>3. RowsOK'
  <2>1. db'.began \in Nat /\ DOMAIN db'.history \subseteq 1..db'.began
    BY <1>2 DEF IdeasInv, RowsOK, DroppedHistory
  <2>2. ASSUME NEW k \in DOMAIN db'.history PROVE Entered(db'.history[k]) /\ db'.history[k].idea \in DOMAIN db'.ideas \cup {None}
    <3>1. k \in DOMAIN db.history /\ DroppedEntry(db, db.history[k], db'.history[k], user)
      BY <1>2, <2>2 DEF DroppedHistory
    <3>2. db.history[k].idea \in DOMAIN db.ideas \cup {None}
      BY <3>1 DEF IdeasInv, RowsOK
    <3> QED
      BY <3>1, <3>2, <1>2 DEF DroppedEntry, DroppedIdeas
  <2>3. \A id \in DOMAIN db'.ideas : id # None /\ Titled(db'.ideas[id])
    BY <1>2 DEF IdeasInv, RowsOK, DroppedIdeas, Titled
  <2> QED
    BY <2>1, <2>2, <2>3 DEF RowsOK
<1>4. StampsOK'
  <2>1. DOMAIN db'.history \subseteq DOMAIN db.history /\ DOMAIN db'.ideas \subseteq DOMAIN db.ideas
    BY <1>2 DEF DroppedHistory, DroppedIdeas
  <2> QED
    BY <1>1, <1>2, <2>1 DEF IdeasInv, StampsOK
<1>5. Told'
  <2> SUFFICES ASSUME NEW id \in DOMAIN db'.ideas PROVE (\E k : ToldBy(db, k, id) /\ (id \notin past.overtaken => Latest(k, id)))'
    BY DEF Told
  <2>1. id \in DOMAIN db.ideas /\ db.ideas[id].owner # user /\ id # None
    BY <1>2 DEF DroppedIdeas, IdeasInv, RowsOK
  <2>2. PICK k : ToldBy(db, k, id) /\ (id \notin past.overtaken => Latest(k, id))
    BY <2>1 DEF IdeasInv, Told
  <2>3. k \in DOMAIN db.history /\ db.history[k].idea = id /\ db.history[k].owner = db.ideas[id].owner /\ Tells(db.history[k], db.ideas[id])
    BY <2>2 DEF ToldBy, Entry
  <2>4. k \in DOMAIN db'.history /\ DroppedEntry(db, db.history[k], db'.history[k], user)
    BY <1>2, <2>1, <2>3 DEF DroppedHistory
  <2>5. /\ db'.ideas[id].owner = db.ideas[id].owner /\ db'.ideas[id].title = db.ideas[id].title
        /\ db'.ideas[id].updatedBy = Nobody(db.ideas[id].updatedBy, user)
    BY <1>2 DEF DroppedIdeas
  <2>6. ToldBy(db, k, id)'
    BY <2>1, <2>3, <2>4, <2>5 DEF ToldBy, Entry, DroppedEntry, Tells
  <2>7. \A other \in DOMAIN db'.history : db'.history[other].idea = id => other \in DOMAIN db.history /\ db.history[other].idea = id
    BY <1>2, <2>1 DEF DroppedHistory, DroppedEntry
  <2>8. Latest(k, id) => Latest(k, id)'
    BY <2>7 DEF Latest
  <2> QED
    BY <2>2, <2>6, <2>8
<1>6. Ordered'
  <2>1. \A o \in Clients : Locked(o)' => Stamped(o)'
    BY DEF Locked, Stamped
  <2>2. Ordered /\ DOMAIN db'.ideas \subseteq DOMAIN db.ideas /\ None \notin DOMAIN db'.ideas
    BY <1>2, <1>3 DEF IdeasInv, RowsOK, DroppedIdeas
  <2>3. \A id \in DOMAIN db'.ideas : \A k : Entry(db', k, id) => Entry(db, k, id)
    BY <1>2, <2>2 DEF DroppedHistory, DroppedEntry, Entry
  <2> QED
    BY <1>1, <2>1, <2>2, <2>3, OrderKept
<1> QED
  BY <1>3, <1>4, <1>5, <1>6 DEF IdeasInv

LEMMA deleteMeKeeps == ASSUME IInv, NEW c \in Clients, handleDeleteMe(c) PROVE IInv'
<1>1. CASE Refused(c)
  BY <1>1, RefusedKeeps
<1>2. CASE ~Refused(c)
  <2> PICK user : user = By(c)
    OBVIOUS
  <2>e. PICK e : e = Lists!DropUser(db, user)
    OBVIOUS
  <2>1. Writes(c, e)
    BY <1>2, <2>e DEF handleDeleteMe
  <2>2. Moves(c, "done") /\ db' = e /\ UNCHANGED past
    BY <2>1 DEF Writes
  <2>3. Dropped(db, Lists!DropUser(db, user), user)
    BY DropUserDrops DEF IInv, Shaped, IdeasInv, RowsOK
  <2>4. Dropped(db, e, user)
    BY <2>3, <2>e
  <2>6. Dropped(db, db', user)
    BY <2>2, <2>4
  <2>7. DOMAIN past' = Pasts /\ past'.joins = past.joins /\ past'.written = past.written /\ past'.overtaken = past.overtaken
    BY <2>2 DEF IInv, Shaped
  <2>8. Framed
    BY <2>6, <2>7 DEF Framed, Dropped, DroppedRows
  <2>9. Moved(c, "done", task[c].seen)
    BY <2>2, GoesMoved DEF IInv, Moves
  <2>10. UsersKept
    BY <2>6 DEF UsersKept, Dropped, DroppedRows, IInv, AddressesDiffer
  <2>11. Kept(db.invites, db'.invites)
    BY <2>6 DEF Kept, Dropped, DroppedRows, IInv, InvitesInv
  <2>12. Shaped' /\ RequestsOK'
    BY <2>8, <2>9, ShapeKept DEF IInv
  <2>13. AddressesDiffer(db)'
    BY <2>10, AddressesKept DEF IInv
  <2>14. InvitesInv'
    BY <2>7, <2>9, <2>11, EndsPlain, InvitesKept DEF IInv
  <2>15. IdeasInv'
    BY <2>6, <2>7, <2>9, EndsPlain, DroppedKeepsIdeas DEF IInv, Dropped, DroppedRows
  <2> QED
    BY <2>12, <2>13, <2>14, <2>15 DEF IInv
<1> QED
  BY <1>1, <1>2

(************************* an account for an address ***********************)

(* Nobody waits with the address, or one account gives way.                *)
LEMMA dropUnverifiedDrops ==
  ASSUME NEW d, NEW email
  PROVE  \/ Lists!dropUnverified(d, email) = d
         \/ \E u \in DOMAIN d.users : d.users[u].unverified /\ Lists!dropUnverified(d, email) = Lists!DropUser(d, u)
BY DEF Lists!dropUnverified

(* What an account that gives way leaves behind, or all there was.         *)
Gone(d, e) == e = d \/ \E u : Dropped(d, e, u)

LEMMA GoneKeeps ==
  ASSUME IInv, NEW e, Gone(db, e)
  PROVE  /\ DOMAIN e = Tables /\ Kept(db.invites, e.invites) /\ AddressesDiffer(e)
<1>1. CASE e = db
  BY <1>1, KeptItself DEF IInv, Shaped, InvitesInv
<1>2. ASSUME NEW u, Dropped(db, e, u) PROVE DOMAIN e = Tables /\ Kept(db.invites, e.invites) /\ AddressesDiffer(e)
  <2>1. DOMAIN e = Tables
    BY <1>2 DEF Dropped, DroppedRows
  <2>2. Kept(db.invites, e.invites)
    BY <1>2 DEF Kept, Dropped, DroppedRows, IInv, InvitesInv
  <2>3. AddressesDiffer(e)
    BY <1>2 DEF AddressesDiffer, Dropped, DroppedRows, IInv
  <2> QED
    BY <2>1, <2>2, <2>3
<1> QED
  BY <1>1, <1>2 DEF Gone

LEMMA GoneKeepsIdeas ==
  ASSUME IdeasInv, NEW c \in Clients, NEW s, NEW v, Moved(c, s, v), Plain(c, s), NEW e, Gone(db, e),
         db'.ideas = e.ideas, db'.history = e.history, db'.began = e.began,
         past'.written = past.written /\ past'.overtaken = past.overtaken
  PROVE  IdeasInv'
<1>1. CASE e = db
  BY <1>1, IdeasKept DEF IdeasSame
<1>2. ASSUME NEW u, Dropped(db, e, u) PROVE IdeasInv'
  <2>1. DroppedIdeas(db, db', u) /\ DroppedHistory(db, db', u) /\ db'.began = db.began
    BY <1>2 DEF Dropped, DroppedRows, DroppedIdeas, DroppedHistory
  <2> QED
    BY <2>1, DroppedKeepsIdeas
<1> QED
  BY <1>1, <1>2 DEF Gone

LEMMA registerKeeps == ASSUME IInv, NEW c \in Clients, handleRegisterIdeaInvitation(c) PROVE IInv'
<1>1. CASE Refused(c)
  BY <1>1, RefusedKeeps
<1>2. CASE ~Refused(c)
  <2> PICK id : id = Req(c).id
    OBVIOUS
  <2> PICK user : user = Req(c).new
    OBVIOUS
  <2> PICK email : email = db.invites[id].email
    OBVIOUS
  <2>r. PICK row : row = [email |-> email, active |-> TRUE, unverified |-> FALSE, home |-> None]
    OBVIOUS
  <2>e. PICK e : e = Lists!dropUnverified(db, email)
    OBVIOUS
  <2>m. PICK made : made = [e EXCEPT !.users = Lists!Add(@, user, row)]
    OBVIOUS
  <2>1. /\ id \in DOMAIN db.invites /\ db.invites[id].state = "open" /\ db.now < db.invites[id].until
        /\ \A u \in DOMAIN e.users : e.users[u].email # email
        /\ Joins(c, Lists!Spend(made, id, user), user)
    BY <1>2, <2>r, <2>e, <2>m DEF handleRegisterIdeaInvitation, Known, Lists!Redeemable, Lists!Open
  <2>2. Gone(db, e)
    <3>1. e = db \/ \E u : e = Lists!DropUser(db, u)
      BY <2>e, dropUnverifiedDrops
    <3>2. ASSUME NEW u PROVE Dropped(db, Lists!DropUser(db, u), u)
      BY DropUserDrops DEF IInv, Shaped, IdeasInv, RowsOK
    <3>3. ASSUME NEW u, e = Lists!DropUser(db, u) PROVE Dropped(db, e, u)
      BY <3>2, <3>3
    <3> QED
      BY <3>1, <3>3 DEF Gone
  <2>3. DOMAIN e = Tables /\ Kept(db.invites, e.invites) /\ AddressesDiffer(e)
    BY <2>2, GoneKeeps
  <2>4. /\ DOMAIN made = Tables /\ made.users = Lists!Add(e.users, user, row)
        /\ \A t \in Tables \ {"users"} : made[t] = e[t]
    BY <2>3, <2>m DEF Tables
  <2>5. made.invites = e.invites /\ made.ideas = e.ideas /\ made.history = e.history /\ made.began = e.began
    BY <2>4 DEF Tables
  <2>6. AddressesDiffer(made)
    <3>1. Added(e.users, user, row, Lists!Add(e.users, user, row))
      BY ONLY AddRows
    <3>n. PICK new : new = made.users
      OBVIOUS
    <3>2. Added(e.users, user, row, new)
      BY <3>1, <2>4, <3>n
    <3>3. Account(row) /\ row.email = email
      BY <2>r DEF Account
    <3>4. /\ \A u \in DOMAIN e.users : Account(e.users[u])
          /\ \A u, v \in DOMAIN e.users : e.users[u].email = e.users[v].email => u = v
      BY <2>3 DEF AddressesDiffer
    <3>5. \A u \in DOMAIN new : \/ u \in DOMAIN e.users /\ new[u] = e.users[u]
                                \/ u = user /\ new[u] = row /\ u \notin DOMAIN e.users
      BY <3>2 DEF Added
    <3>6. \A u \in DOMAIN new : Account(new[u])
      BY <3>3, <3>4, <3>5
    <3>7. ASSUME NEW u \in DOMAIN new, NEW v \in DOMAIN new, new[u].email = new[v].email PROVE u = v
      <4>1. CASE u \in DOMAIN e.users /\ v \in DOMAIN e.users
        BY ONLY <3>4, <3>5, <3>7, <4>1
      <4>2. CASE u \notin DOMAIN e.users \/ v \notin DOMAIN e.users
        BY ONLY <2>1, <3>3, <3>5, <3>7, <4>2
      <4> QED
        BY <4>1, <4>2
    <3> QED
      BY <3>6, <3>7, <3>n DEF AddressesDiffer
  <2>7. SpentIn(db.invites, made, Lists!Spend(made, id, user), id, user)
    <3>1. Kept(db.invites, made.invites)
      BY <2>3, <2>5
    <3> QED
      BY ONLY <2>4, <3>1, SpendSpends
  <2>8. /\ db' = Lists!Spend(made, id, user) /\ Moves(c, "done")
        /\ past' = [past EXCEPT !.joins = Append(@, [invite |-> id, user |-> user, at |-> db.now])]
    BY <2>1 DEF Joins
  <2>9. /\ DOMAIN db' = Tables /\ SpentOn(db.invites, db'.invites, id, user)
        /\ \A t \in Tables \ {"members", "invites"} : db'[t] = made[t]
    BY <2>7, <2>8 DEF SpentIn
  <2>10. db'.users = made.users /\ db'.ideas = made.ideas /\ db'.history = made.history /\ db'.began = made.began
    BY <2>9 DEF Tables
  <2>11. /\ past'.joins = Append(past.joins, [invite |-> id, user |-> user, at |-> db.now])
         /\ DOMAIN past' = Pasts /\ past'.written = past.written /\ past'.overtaken = past.overtaken
    BY <2>8 DEF IInv, Shaped, Pasts
  <2>12. Moved(c, "done", task[c].seen)
    BY <2>8, GoesMoved DEF IInv, Moves
  <2>13. InvitesInv'
    BY <2>1, <2>9, <2>11, <2>12, JoinKeepsInvites DEF IInv
  <2>14. AddressesDiffer(db)'
    BY <2>6, <2>10 DEF AddressesDiffer
  <2>15. IdeasInv'
    BY <2>2, <2>5, <2>10, <2>11, <2>12, EndsPlain, GoneKeepsIdeas DEF IInv
  <2>16. Framed
    BY <2>9, <2>11 DEF Framed
  <2>17. Shaped' /\ RequestsOK'
    BY <2>12, <2>16, ShapeKept DEF IInv
  <2> QED
    BY <2>13, <2>14, <2>15, <2>17 DEF IInv
<1> QED
  BY <1>1, <1>2

(****************************** ideas change *******************************)

(* A step of a request that is about no invitation.                        *)
LEMMA InvitesAside ==
  ASSUME InvitesInv, NEW c \in Clients, NEW s, NEW v, Moved(c, s, v), Req(c).op # "invite",
         db'.invites = db.invites, past'.joins = past.joins
  PROVE  InvitesInv'
<1>1. \A o \in Clients : Inviting(o)' => Inviting(o) /\ Req(o)' = Req(o)
  BY DEF Inviting, Moved, Req
<1>2. InvitationsAreSpentOnce'
  BY DEF InvitesInv, InvitationsAreSpentOnce
<1>3. \A i \in DOMAIN db'.invites : DOMAIN db'.invites[i] = Columns
  BY DEF InvitesInv
<1>4. IsSeq(past.joins)'
  BY DEF InvitesInv, IsSeq
<1>5. \A o \in Clients : Inviting(o)' => /\ Req(o)'.id \notin DOMAIN db'.invites
                                         /\ \A j \in DOMAIN past'.joins : past'.joins[j].invite # Req(o)'.id
  BY <1>1 DEF InvitesInv
<1> QED
  BY <1>2, <1>3, <1>4, <1>5 DEF InvitesInv

IdeasAlone ==
  /\ Framed /\ db'.users = db.users /\ db'.invites = db.invites /\ past'.joins = past.joins

LEMMA IdeasAloneKeep ==
  ASSUME IInv, NEW c \in Clients, NEW s, NEW v, Moved(c, s, v), Req(c).op # "invite", IdeasAlone, IdeasInv'
  PROVE  IInv'
<1>1. Shaped' /\ RequestsOK'
  BY ShapeKept DEF IInv, IdeasAlone
<1>2. AddressesDiffer(db)'
  BY SameUsers, AddressesKept DEF IInv, IdeasAlone
<1>3. InvitesInv'
  BY InvitesAside DEF IInv, IdeasAlone
<1> QED
  BY <1>1, <1>2, <1>3 DEF IInv

(* A transaction that begins takes a stamp later than every entry there is. *)
BeginsAs(c, s) ==
  /\ task[c].step = "write"
  /\ \/ s = "locked" /\ Req(c).op \in {"updateIdea", "deleteIdea"} /\ Req(c).id \in DOMAIN db.ideas
     \/ s = "insert" /\ Req(c).op = "createIdea"

LEMMA BeginsKeeps ==
  ASSUME IInv, NEW c \in Clients, NEW s, Begins(c, s), BeginsAs(c, s)
  PROVE  IInv'
<1> PICK st : st = db.began + 1
  OBVIOUS
<1>1. /\ Goes(c, s, st) /\ UNCHANGED past /\ db' = [db EXCEPT !.began = @ + 1]
  BY DEF Begins
<1>2. Moved(c, s, st)
  BY <1>1, GoesMoved DEF IInv
<1>3. DOMAIN db' = Tables /\ db'.began = st /\ \A t \in Tables \ {"began"} : db'[t] = db[t]
  BY <1>1 DEF IInv, Shaped, Tables
<1>4. db'.users = db.users /\ db'.invites = db.invites /\ db'.ideas = db.ideas /\ db'.history = db.history
  BY <1>3 DEF Tables
<1>5. IdeasAlone
  BY <1>1, <1>3, <1>4 DEF IdeasAlone, Framed, IInv, Shaped
<1>6. db.began \in Nat /\ st \in Nat /\ st > db.began /\ DOMAIN db.history \subseteq 1..db.began
  BY DEF IInv, IdeasInv, RowsOK
<1>7. RowsOK'
  BY <1>3, <1>4, <1>6 DEF IInv, IdeasInv, RowsOK
<1>8. \A o \in Clients :
        /\ Req(o)' = Req(o)
        /\ o # c => /\ Locked(o)' = Locked(o) /\ Stamped(o)' = Stamped(o) /\ Creating(o)' = Creating(o)
                    /\ Formed(o)' = Formed(o) /\ task'[o].seen = task[o].seen
  BY <1>2 DEF Moved, Req, Locked, Stamped, Creating, Formed
<1>9. /\ task'[c].step = s /\ task'[c].seen = st /\ Stamped(c)'
      /\ Locked(c)' => Req(c).op \in {"updateIdea", "deleteIdea"} /\ Req(c).id \in DOMAIN db.ideas
      /\ Creating(c)' => Creating(c)
      /\ Formed(c)' => Formed(c)
  BY <1>2, <1>8 DEF Moved, Req, BeginsAs, Locked, Stamped, Creating, Formed
<1>10. StampsOK'
  <2>1. \A o \in Clients : Stamped(o)' => task'[o].seen \in (1..db'.began) \ DOMAIN db'.history
    <3>1. \A o \in Clients \ {c} : Stamped(o)' => task'[o].seen \in (1..db.began) \ DOMAIN db.history
      BY <1>8 DEF IInv, IdeasInv, StampsOK
    <3>2. st \in (1..st) \ DOMAIN db.history /\ 1..db.began \subseteq 1..st
      BY <1>6
    <3> QED
      BY <1>3, <1>4, <1>9, <3>1, <3>2
  <2>2. \A o, p \in Clients : Stamped(o)' /\ Stamped(p)' /\ task'[o].seen = task'[p].seen => o = p
    <3>1. \A o \in Clients \ {c} : Stamped(o)' => task'[o].seen # st
      BY <1>6, <1>8 DEF IInv, IdeasInv, StampsOK
    <3>2. \A o, p \in Clients \ {c} : Stamped(o)' /\ Stamped(p)' /\ task'[o].seen = task'[p].seen => o = p
      BY <1>8 DEF IInv, IdeasInv, StampsOK
    <3> QED
      BY <1>9, <3>1, <3>2
  <2>3. \A o \in Clients : /\ Locked(o)' => Req(o)'.op \in {"updateIdea", "deleteIdea"}
                           /\ Formed(o)' => Notes!Normalize(Req(o)'.idea) # None
    BY <1>8, <1>9 DEF IInv, IdeasInv, StampsOK
  <2>4. \A o \in Clients : Creating(o)' => /\ Req(o)'.id \notin DOMAIN db'.ideas
                                           /\ \A p \in Clients : Locked(p)' => Req(p)'.id # Req(o)'.id
    BY <1>4, <1>8, <1>9 DEF IInv, IdeasInv, StampsOK
  <2> QED
    BY <2>1, <2>2, <2>3, <2>4 DEF StampsOK
<1>11. Told'
  <2> SUFFICES ASSUME NEW id \in DOMAIN db.ideas PROVE (\E k : ToldBy(db, k, id) /\ (id \notin past.overtaken => Latest(k, id)))'
    BY <1>4 DEF Told
  <2>1. PICK k : ToldBy(db, k, id) /\ (id \notin past.overtaken => Latest(k, id))
    BY DEF IInv, IdeasInv, Told
  <2>2. ToldBy(db, k, id)' /\ k < st
    BY <1>4, <1>6, <2>1 DEF ToldBy, Entry
  <2>3. Latest(k, id) => Latest(k, id)'
    BY <1>4 DEF Latest
  <2> QED
    BY <1>1, <2>1, <2>2, <2>3
<1>12. Ordered'
  <2> SUFFICES ASSUME NEW o \in Clients, Locked(o)', Req(o)'.id \in DOMAIN db'.ideas, NEW k, Entry(db', k, Req(o)'.id)
               PROVE  k < task'[o].seen \/ [idea |-> Req(o)'.id, began |-> k] \in past'.written
    BY DEF Ordered
  <2>1. Req(o)' = Req(o) /\ Req(o).id \in DOMAIN db.ideas /\ Entry(db, k, Req(o).id) /\ past' = past
    BY <1>1, <1>4, <1>8 DEF Entry
  <2>2. CASE o = c
    BY <1>6, <1>9, <2>1, <2>2 DEF Entry
  <2>3. CASE o # c
    <3>1. Locked(o) /\ task'[o].seen = task[o].seen /\ Ordered
      BY <1>8, <2>3 DEF IInv, IdeasInv
    <3> QED
      BY <2>1, <3>1 DEF Ordered
  <2> QED
    BY <2>2, <2>3
<1> QED
  <2>1. Req(c).op # "invite" /\ IdeasInv'
    BY <1>7, <1>10, <1>11, <1>12 DEF BeginsAs, IdeasInv
  <2> QED
    BY <1>2, <1>5, <2>1, IdeasAloneKeep

LEMMA beginsKeep == ASSUME IInv, NEW c \in Clients, lockEditableIdea(c) \/ createEditor(c) PROVE IInv'
<1>1. CASE Refused(c)
  BY <1>1, RefusedKeeps
<1>2. CASE lockEditableIdea(c) /\ ~Refused(c)
  <2>1. Begins(c, "locked") /\ BeginsAs(c, "locked")
    BY <1>2 DEF lockEditableIdea, BeginsAs
  <2> QED
    BY <2>1, BeginsKeeps
<1>3. CASE createEditor(c) /\ ~Refused(c)
  <2>1. Begins(c, "insert") /\ BeginsAs(c, "insert")
    BY <1>3 DEF createEditor, BeginsAs, At
  <2> QED
    BY <2>1, BeginsKeeps
<1> QED
  BY <1>1, <1>2, <1>3

(* A change that is written leaves its stamp in the history.               *)
LEMMA StampSpent ==
  ASSUME StampsOK, RequestsOK, NEW c \in Clients, Stamped(c), Moved(c, "done", task[c].seen), db'.began = db.began,
         DOMAIN db'.history = DOMAIN db.history \cup {task[c].seen},
         \A id \in DOMAIN db'.ideas : id \in DOMAIN db.ideas \/ (Creating(c) /\ id = Req(c).id)
  PROVE  /\ StampsOK'
         /\ \A o \in Clients : Req(o)' = Req(o) /\ (Locked(o)' => Locked(o) /\ o # c /\ task'[o].seen = task[o].seen)
<1>1. \A o \in Clients :
        /\ Req(o)' = Req(o)
        /\ o # c => /\ Locked(o)' = Locked(o) /\ Stamped(o)' = Stamped(o) /\ Creating(o)' = Creating(o)
                    /\ Formed(o)' = Formed(o) /\ task'[o].seen = task[o].seen
  BY DEF Moved, Req, Locked, Stamped, Creating, Formed
<1>2. ~Locked(c)' /\ ~Stamped(c)' /\ ~Creating(c)' /\ ~Formed(c)'
  BY DEF Moved, Req, Locked, Stamped, Creating, Formed
<1>3. \A o \in Clients : Stamped(o)' => task'[o].seen \in (1..db'.began) \ DOMAIN db'.history
  BY <1>1, <1>2 DEF StampsOK
<1>4. \A o, p \in Clients : Stamped(o)' /\ Stamped(p)' /\ task'[o].seen = task'[p].seen => o = p
  BY <1>1, <1>2 DEF StampsOK
<1>5. \A o \in Clients : /\ Locked(o)' => Req(o)'.op \in {"updateIdea", "deleteIdea"}
                         /\ Formed(o)' => Notes!Normalize(Req(o)'.idea) # None
  BY <1>1, <1>2 DEF StampsOK
<1>6. \A o \in Clients : Creating(o)' => /\ Req(o)'.id \notin DOMAIN db'.ideas
                                         /\ \A p \in Clients : Locked(p)' => Req(p)'.id # Req(o)'.id
  <2>1. \A o \in Clients : Creating(o)' /\ Creating(c) => Req(o).id # Req(c).id
    BY <1>1, <1>2 DEF RequestsOK, OneEach, Creating
  <2> QED
    BY <1>1, <1>2, <2>1 DEF StampsOK
<1> QED
  BY <1>1, <1>2, <1>3, <1>4, <1>5, <1>6 DEF StampsOK

(* One entry more in the history, and nothing else changed.                *)
Logged(d, e, began, entry) ==
  /\ DOMAIN e = Tables /\ \A t \in Tables \ {"history"} : e[t] = d[t]
  /\ DOMAIN e.history = DOMAIN d.history \cup {began} /\ e.history[began] = entry
  /\ \A k \in DOMAIN d.history : e.history[k] = d.history[k]

EntryOf(owner, id, title, actor, action) == [owner |-> owner, idea |-> id, title |-> title, user |-> actor, action |-> action]

LEMMA logIdeaChangeLogs ==
  ASSUME NEW d, DOMAIN d = Tables, NEW began, began \notin DOMAIN d.history,
         NEW owner, NEW id, NEW title, NEW actor, NEW action
  PROVE  Logged(d, Lists!logIdeaChange(d, began, owner, id, title, actor, action), began, EntryOf(owner, id, title, actor, action))
<1> PICK entry : entry = EntryOf(owner, id, title, actor, action)
  OBVIOUS
<1> PICK rows : rows = Lists!Add(d.history, began, entry)
  OBVIOUS
<1>1. Added(d.history, began, entry, Lists!Add(d.history, began, entry))
  BY ONLY AddRows
<1>2. Added(d.history, began, entry, rows)
  BY <1>1
<1>3. Lists!logIdeaChange(d, began, owner, id, title, actor, action) = [d EXCEPT !.history = rows]
  BY DEF Lists!logIdeaChange, EntryOf
<1>4. /\ DOMAIN [d EXCEPT !.history = rows] = Tables /\ [d EXCEPT !.history = rows].history = rows
      /\ \A t \in Tables \ {"history"} : [d EXCEPT !.history = rows][t] = d[t]
  BY DEF Tables
<1>5. Logged(d, [d EXCEPT !.history = rows], began, entry)
  BY <1>2, <1>4 DEF Logged, Added
<1> QED
  BY <1>3, <1>5

LEMMA WritesMoved ==
  ASSUME IInv, NEW c \in Clients, Moves(c, "done")
  PROVE  Moved(c, "done", task[c].seen)
BY GoesMoved DEF IInv, Moves

LEMMA updateKeeps == ASSUME IInv, NEW c \in Clients, handleUpdateIdea(c) PROVE IInv'
<1>1. CASE Refused(c)
  BY <1>1, RefusedKeeps
<1>2. CASE ~Refused(c)
  <2> PICK id : id = Req(c).id
    OBVIOUS
  <2> PICK st : st = task[c].seen
    OBVIOUS
  <2> PICK new : new = Notes!Normalize(Req(c).idea)
    OBVIOUS
  <2> PICK old : old = db.ideas[id]
    OBVIOUS
  <2>r. PICK row : row = Lists!Changed(old, By(c), new)
    OBVIOUS
  <2>d. PICK d : d = [db EXCEPT !.ideas[id] = row]
    OBVIOUS
  <2>e. PICK entry : entry = EntryOf(old.owner, id, new.title, By(c), "updated")
    OBVIOUS
  <2>c. PICK change : change = [idea |-> id, began |-> st]
    OBVIOUS
  <2>1. /\ Req(c).op = "updateIdea" /\ Locked(c) /\ Stamped(c) /\ Formed(c) /\ id \in DOMAIN db.ideas
        /\ db' = Lists!Update(db, st, By(c), id, new)
        /\ past' = [past EXCEPT !.written = @ \cup {change},
                                !.overtaken = IF Overtaken(c) THEN @ \cup {id} ELSE @ \ {id}]
        /\ Moves(c, "done")
    BY <1>2, <2>c DEF handleUpdateIdea, At, Locked, Stamped, Formed
  <2>2. st \in (1..db.began) \ DOMAIN db.history
    BY <2>1 DEF IInv, IdeasInv, StampsOK
  <2>3. "title" \in DOMAIN new
    <3>1. new # None /\ "title" \in DOMAIN Req(c).idea
      BY <2>1 DEF IInv, IdeasInv, StampsOK, RequestsOK
    <3>2. DOMAIN new = DOMAIN Req(c).idea
      BY <3>1 DEF Notes!Normalize
    <3> QED
      BY <3>1, <3>2
  <2>4. /\ DOMAIN row = {"owner", "createdBy", "updatedBy"} \cup DOMAIN new /\ row.owner = old.owner
        /\ row.updatedBy = By(c) /\ row.title = new.title
    BY <2>3, <2>r DEF Lists!Changed, Lists!Over
  <2>5. /\ DOMAIN d = Tables /\ d.ideas = [db.ideas EXCEPT ![id] = row]
        /\ \A t \in Tables \ {"ideas"} : d[t] = db[t]
    BY <2>d DEF IInv, Shaped, Tables
  <2>6. Logged(d, db', st, entry)
    <3>1. st \notin DOMAIN d.history
      BY <2>2, <2>5 DEF Tables
    <3>2. Logged(d, Lists!logIdeaChange(d, st, old.owner, id, new.title, By(c), "updated"), st,
                 EntryOf(old.owner, id, new.title, By(c), "updated"))
      BY ONLY <2>5, <3>1, logIdeaChangeLogs
    <3>3. db' = Lists!logIdeaChange(d, st, old.owner, id, new.title, By(c), "updated")
      BY <2>1, <2>d, <2>r DEF Lists!Update
    <3> QED
      BY <3>2, <3>3, <2>e
  <2>7. /\ DOMAIN db' = Tables /\ db'.users = db.users /\ db'.invites = db.invites /\ db'.began = db.began
        /\ db'.ideas = [db.ideas EXCEPT ![id] = row]
        /\ DOMAIN db'.history = DOMAIN db.history \cup {st} /\ db'.history[st] = entry
        /\ \A k \in DOMAIN db.history : db'.history[k] = db.history[k]
    BY <2>5, <2>6 DEF Logged, Tables
  <2>8. /\ DOMAIN past' = Pasts /\ past'.joins = past.joins /\ past'.written = past.written \cup {change}
        /\ past'.overtaken = IF Overtaken(c) THEN past.overtaken \cup {id} ELSE past.overtaken \ {id}
    BY <2>1 DEF IInv, Shaped, Pasts
  <2>9. Moved(c, "done", st)
    BY <2>1, WritesMoved
  <2>10. DOMAIN db'.ideas = DOMAIN db.ideas /\ db'.ideas[id] = row /\ \A i \in DOMAIN db.ideas \ {id} : db'.ideas[i] = db.ideas[i]
    BY <2>1, <2>7
  <2>11. /\ StampsOK'
         /\ \A o \in Clients : Req(o)' = Req(o) /\ (Locked(o)' => Locked(o) /\ o # c /\ task'[o].seen = task[o].seen)
    BY <2>1, <2>7, <2>9, <2>10, StampSpent DEF IInv, IdeasInv
  <2>12. /\ Entered(entry) /\ entry.owner = old.owner /\ entry.idea = id /\ entry.title = new.title /\ entry.user = By(c)
    BY <2>e DEF Entered, EntryOf
  <2>o. RowsOK
    BY DEF IInv, IdeasInv
  <2>13. RowsOK'
    <3>1. db'.began \in Nat /\ DOMAIN db'.history \subseteq 1..db'.began
      BY <2>2, <2>7, <2>o DEF RowsOK
    <3>2. \A k \in DOMAIN db'.history : Entered(db'.history[k]) /\ db'.history[k].idea \in DOMAIN db'.ideas \cup {None}
      BY <2>1, <2>7, <2>10, <2>12, <2>o DEF RowsOK
    <3>3. \A i \in DOMAIN db'.ideas : i # None /\ Titled(db'.ideas[i])
      BY <2>3, <2>4, <2>10, <2>o DEF RowsOK, Titled
    <3> QED
      BY <3>1, <3>2, <3>3 DEF RowsOK
  <2>14. Told'
    <3>1. ToldBy(db, st, id)'
      BY <2>4, <2>7, <2>10, <2>12 DEF ToldBy, Entry, Tells
    <3>2. id \notin past'.overtaken => Latest(st, id)'
      <4> SUFFICES ASSUME id \notin past'.overtaken PROVE Latest(st, id)'
        OBVIOUS
      <4>1. ~Overtaken(c)
        BY <2>8
      <4>2. st \in Nat /\ DOMAIN db.history \subseteq Nat
        BY <2>2, <2>o DEF RowsOK
      <4>3. ASSUME NEW other \in DOMAIN db.history, db.history[other].idea = id PROVE other <= st
        <5>1. other < st \/ [idea |-> id, began |-> other] \in past.written
          BY <2>1, <4>3 DEF IInv, IdeasInv, Ordered, Entry
        <5>2. [idea |-> id, began |-> other] \in past.written => ~(st < other)
          BY <4>1 DEF Overtaken
        <5> QED
          BY <4>2, <5>1, <5>2
      <4> QED
        BY <2>7, <4>2, <4>3 DEF Latest
    <3>3. ASSUME NEW i \in DOMAIN db.ideas, i # id
          PROVE  (\E k : ToldBy(db, k, i) /\ (i \notin past.overtaken => Latest(k, i)))'
      <4>1. PICK k : ToldBy(db, k, i) /\ (i \notin past.overtaken => Latest(k, i))
        BY <3>3 DEF IInv, IdeasInv, Told
      <4>2. ToldBy(db, k, i)'
        BY <2>7, <2>10, <3>3, <4>1 DEF ToldBy, Entry
      <4>3. Latest(k, i) => Latest(k, i)'
        BY <2>7, <2>12, <3>3 DEF Latest
      <4>4. i \notin past'.overtaken => i \notin past.overtaken
        BY <2>8, <3>3
      <4> QED
        BY <4>1, <4>2, <4>3, <4>4
    <3> QED
      BY <2>10, <3>1, <3>2, <3>3 DEF Told
  <2>15. IdeasAlone
    BY <2>7, <2>8 DEF IdeasAlone, Framed
  <2>16. Ordered'
    <3> SUFFICES ASSUME NEW o \in Clients, Locked(o)', Req(o)'.id \in DOMAIN db'.ideas, NEW k, Entry(db', k, Req(o)'.id)
                 PROVE  k < task'[o].seen \/ [idea |-> Req(o)'.id, began |-> k] \in past'.written
      BY DEF Ordered
    <3>1. Req(o)' = Req(o) /\ Locked(o) /\ task'[o].seen = task[o].seen /\ Req(o).id \in DOMAIN db.ideas /\ Ordered
      BY <2>10, <2>11 DEF IInv, IdeasInv
    <3>2. CASE k = st
      <4>1. Req(o).id = id
        BY <2>7, <2>12, <3>1, <3>2 DEF Entry
      <4> QED
        BY <2>8, <2>c, <3>1, <3>2, <4>1
    <3>3. CASE k # st
      <4>1. Entry(db, k, Req(o).id)
        BY <2>7, <3>1, <3>3 DEF Entry
      <4> QED
        BY <2>8, <3>1, <4>1 DEF Ordered
    <3> QED
      BY <3>2, <3>3
  <2> QED
    <3>1. Req(c).op # "invite" /\ IdeasInv'
      BY <2>1, <2>11, <2>13, <2>14, <2>16 DEF IdeasInv
    <3> QED
      BY <2>9, <2>15, <3>1, IdeasAloneKeep
<1> QED
  BY <1>1, <1>2

(* What an idea that goes leaves: its entries tell of no idea.             *)
Forgotten(d, e, id) ==
  /\ DOMAIN e = Tables /\ \A t \in Tables \ {"ideas", "worn", "history"} : e[t] = d[t]
  /\ DOMAIN e.ideas = DOMAIN d.ideas \ {id} /\ \A i \in DOMAIN d.ideas \ {id} : e.ideas[i] = d.ideas[i]
  /\ DOMAIN e.history = DOMAIN d.history
  /\ \A k \in DOMAIN d.history :
       /\ d.history[k].idea # id => e.history[k] = d.history[k]
       /\ d.history[k].idea = id => Entered(e.history[k]) /\ e.history[k].idea = None

LEMMA ForgetForgets ==
  ASSUME NEW d, DOMAIN d = Tables, \A k \in DOMAIN d.history : Entered(d.history[k]), NEW id
  PROVE  Forgotten(d, Lists!Forget(d, {id}), id)
<1>i. PICK ideas : ideas = Lists!Only(d.ideas, DOMAIN d.ideas \ {id})
  OBVIOUS
<1>w. PICK worn : worn = {w \in d.worn : w[2] \notin {id}}
  OBVIOUS
<1>h. PICK history : history = [k \in DOMAIN d.history |-> IF d.history[k].idea \in {id} THEN [d.history[k] EXCEPT !.idea = None]
                                                         ELSE d.history[k]]
  OBVIOUS
<1>1. Lists!Forget(d, {id}) = [d EXCEPT !.ideas = ideas, !.worn = worn, !.history = history]
  BY <1>i, <1>w, <1>h DEF Lists!Forget
<1>2. DOMAIN ideas = DOMAIN d.ideas \ {id} /\ \A i \in DOMAIN d.ideas \ {id} : ideas[i] = d.ideas[i]
  BY <1>i DEF Lists!Only
<1>3. /\ DOMAIN history = DOMAIN d.history
      /\ \A k \in DOMAIN d.history :
           /\ d.history[k].idea # id => history[k] = d.history[k]
           /\ d.history[k].idea = id => Entered(history[k]) /\ history[k].idea = None
  BY <1>h DEF Entered
<1>e. PICK e : e = [d EXCEPT !.ideas = ideas, !.worn = worn, !.history = history]
  OBVIOUS
<1>4. /\ DOMAIN e = Tables /\ e.ideas = ideas /\ e.history = history
      /\ \A t \in Tables \ {"ideas", "worn", "history"} : e[t] = d[t]
  BY <1>e DEF Tables
<1>5. Forgotten(d, e, id)
  BY <1>2, <1>3, <1>4 DEF Forgotten
<1> QED
  BY <1>1, <1>5, <1>e

LEMMA deleteKeeps == ASSUME IInv, NEW c \in Clients, handleDeleteIdea(c) PROVE IInv'
<1>1. CASE Refused(c)
  BY <1>1, RefusedKeeps
<1>2. CASE ~Refused(c)
  <2> PICK id : id = Req(c).id
    OBVIOUS
  <2> PICK st : st = task[c].seen
    OBVIOUS
  <2> PICK row : row = db.ideas[id]
    OBVIOUS
  <2>d. PICK d : d = Lists!logIdeaChange(db, st, row.owner, id, row.title, By(c), "deleted")
    OBVIOUS
  <2>e. PICK entry : entry = EntryOf(row.owner, id, row.title, By(c), "deleted")
    OBVIOUS
  <2>1. /\ Req(c).op = "deleteIdea" /\ Locked(c) /\ Stamped(c) /\ id \in DOMAIN db.ideas
        /\ Writes(c, Lists!Delete(db, st, By(c), id))
    BY <1>2 DEF handleDeleteIdea, At, Locked, Stamped
  <2>2. Moves(c, "done") /\ UNCHANGED past /\ db' = Lists!Forget(d, {id})
    BY <2>1, <2>d DEF Writes, Lists!Delete
  <2>3. st \in (1..db.began) \ DOMAIN db.history
    BY <2>1 DEF IInv, IdeasInv, StampsOK
  <2>4. Logged(db, d, st, entry)
    <3>1. DOMAIN db = Tables /\ st \notin DOMAIN db.history
      BY <2>3 DEF IInv, Shaped
    <3>2. Logged(db, Lists!logIdeaChange(db, st, row.owner, id, row.title, By(c), "deleted"), st,
                 EntryOf(row.owner, id, row.title, By(c), "deleted"))
      BY ONLY <3>1, logIdeaChangeLogs
    <3> QED
      BY <3>2, <2>d, <2>e
  <2>5. /\ DOMAIN d = Tables /\ d.users = db.users /\ d.invites = db.invites /\ d.began = db.began /\ d.ideas = db.ideas
        /\ DOMAIN d.history = DOMAIN db.history \cup {st} /\ d.history[st] = entry
        /\ \A k \in DOMAIN db.history : d.history[k] = db.history[k]
    BY <2>4 DEF Logged, Tables
  <2>6. \A k \in DOMAIN d.history : Entered(d.history[k]) /\ d.history[k].idea \in DOMAIN db.ideas \cup {None}
    <3>1. Entered(entry) /\ entry.idea = id
      BY <2>e DEF Entered, EntryOf
    <3>2. RowsOK
      BY DEF IInv, IdeasInv
    <3> QED
      BY ONLY <2>1, <2>5, <3>1, <3>2 DEF RowsOK
  <2>7. Forgotten(d, db', id)
    BY <2>2, <2>5, <2>6, ForgetForgets
  <2>8. /\ DOMAIN db' = Tables /\ db'.users = db.users /\ db'.invites = db.invites /\ db'.began = db.began
        /\ DOMAIN db'.ideas = DOMAIN db.ideas \ {id} /\ \A i \in DOMAIN db.ideas \ {id} : db'.ideas[i] = db.ideas[i]
        /\ DOMAIN db'.history = DOMAIN db.history \cup {st}
    BY ONLY <2>5, <2>7 DEF Forgotten, Tables
  <2>9. \A k \in DOMAIN d.history : \/ db'.history[k] = d.history[k] /\ d.history[k].idea # id
                                    \/ Entered(db'.history[k]) /\ db'.history[k].idea = None
    BY <2>7 DEF Forgotten
  <2>10. DOMAIN past' = Pasts /\ past'.joins = past.joins /\ past'.written = past.written /\ past'.overtaken = past.overtaken
    BY <2>2 DEF IInv, Shaped
  <2>11. Moved(c, "done", st)
    BY <2>2, WritesMoved
  <2>12. /\ StampsOK'
         /\ \A o \in Clients : Req(o)' = Req(o) /\ (Locked(o)' => Locked(o) /\ o # c /\ task'[o].seen = task[o].seen)
    BY <2>1, <2>8, <2>11, StampSpent DEF IInv, IdeasInv
  <2>13. RowsOK'
    <3>1. db'.began \in Nat /\ DOMAIN db'.history \subseteq 1..db'.began
      BY <2>3, <2>8 DEF IInv, IdeasInv, RowsOK
    <3>2. \A k \in DOMAIN db'.history : Entered(db'.history[k]) /\ db'.history[k].idea \in DOMAIN db'.ideas \cup {None}
      BY ONLY <2>5, <2>6, <2>8, <2>9
    <3>3. \A i \in DOMAIN db'.ideas : i # None /\ Titled(db'.ideas[i])
      BY <2>8 DEF IInv, IdeasInv, RowsOK
    <3> QED
      BY <3>1, <3>2, <3>3 DEF RowsOK
  <2>14. Told'
    <3> SUFFICES ASSUME NEW i \in DOMAIN db'.ideas
                 PROVE  (\E k : ToldBy(db, k, i) /\ (i \notin past.overtaken => Latest(k, i)))'
      BY DEF Told
    <3>1. i \in DOMAIN db.ideas /\ i # id /\ i # None /\ db'.ideas[i] = db.ideas[i]
      BY <2>8 DEF IInv, IdeasInv, RowsOK
    <3>2. PICK k : ToldBy(db, k, i) /\ (i \notin past.overtaken => Latest(k, i))
      BY <3>1 DEF IInv, IdeasInv, Told
    <3>3. k \in DOMAIN db.history /\ d.history[k] = db.history[k] /\ db.history[k].idea = i
      BY <2>5, <3>2 DEF ToldBy, Entry
    <3>4. k \in DOMAIN db'.history /\ db'.history[k] = db.history[k]
      BY ONLY <2>5, <2>7, <3>1, <3>3 DEF Forgotten
    <3>5. ToldBy(db, k, i)'
      BY <3>1, <3>2, <3>4 DEF ToldBy, Entry
    <3>6. \A other \in DOMAIN db'.history : db'.history[other].idea = i => other \in DOMAIN db.history /\ db.history[other].idea = i
      <4>1. entry.idea = id
        BY <2>e DEF EntryOf
      <4> QED
        BY ONLY <2>5, <2>8, <2>9, <3>1, <4>1
    <3>7. Latest(k, i) => Latest(k, i)'
      BY <3>6 DEF Latest
    <3> QED
      BY <2>10, <3>2, <3>5, <3>7
  <2>15. IdeasAlone
    BY <2>8, <2>10 DEF IdeasAlone, Framed
  <2>16. Ordered'
    <3>1. ASSUME NEW i \in DOMAIN db'.ideas, NEW k, Entry(db', k, i) PROVE Entry(db, k, i)
      <4>1. i # id /\ i # None
        BY <2>8, <2>13 DEF RowsOK
      <4>2. entry.idea = id
        BY <2>e DEF EntryOf
      <4>3. k \in DOMAIN db'.history /\ db'.history[k].idea = i
        BY <3>1 DEF Entry
      <4>4. k \in DOMAIN db.history /\ db.history[k].idea = i
        BY ONLY <2>5, <2>8, <2>9, <4>1, <4>2, <4>3
      <4> QED
        BY <4>4 DEF Entry
    <3>2. Ordered /\ DOMAIN db'.ideas \subseteq DOMAIN db.ideas
      BY <2>8 DEF IInv, IdeasInv
    <3> QED
      BY <2>10, <2>12, <3>1, <3>2, OrderKept
  <2> QED
    <3>1. Req(c).op # "invite" /\ IdeasInv'
      BY <2>1, <2>12, <2>13, <2>14, <2>16 DEF IdeasInv
    <3> QED
      BY <2>11, <2>15, <3>1, IdeasAloneKeep
<1> QED
  BY <1>1, <1>2

LEMMA createKeeps == ASSUME IInv, NEW c \in Clients, handleCreateIdea(c) PROVE IInv'
<1>1. CASE Refused(c)
  BY <1>1, RefusedKeeps
<1>2. CASE ~Refused(c)
  <2> PICK id : id = Req(c).id
    OBVIOUS
  <2> PICK st : st = task[c].seen
    OBVIOUS
  <2> PICK new : new = Notes!Normalize(Req(c).idea)
    OBVIOUS
  <2>i. PICK idea : idea = Lists!Over([owner |-> Req(c).owner], new)
    OBVIOUS
  <2>r. PICK row : row = Lists!Over([createdBy |-> By(c), updatedBy |-> By(c)], idea)
    OBVIOUS
  <2>w. PICK ideas : ideas = Lists!Add(db.ideas, id, row)
    OBVIOUS
  <2>d. PICK d : d = [db EXCEPT !.ideas = ideas]
    OBVIOUS
  <2>e. PICK entry : entry = EntryOf(idea.owner, id, idea.title, By(c), "created")
    OBVIOUS
  <2>1. /\ Req(c).op = "createIdea" /\ Creating(c) /\ Stamped(c) /\ Formed(c)
        /\ Writes(c, Lists!Create(db, st, By(c), id, idea))
    BY <1>2, <2>i DEF handleCreateIdea, At, Creating, Stamped, Formed
  <2>2. Moves(c, "done") /\ UNCHANGED past /\ db' = Lists!logIdeaChange(d, st, idea.owner, id, idea.title, By(c), "created")
    BY <2>1, <2>d, <2>r, <2>w DEF Writes, Lists!Create
  <2>3. /\ st \in (1..db.began) \ DOMAIN db.history /\ id \notin DOMAIN db.ideas
        /\ \A o \in Clients : Locked(o) => Req(o).id # id
    BY <2>1 DEF IInv, IdeasInv, StampsOK
  <2>4. "title" \in DOMAIN new
    <3>1. new # None /\ "title" \in DOMAIN Req(c).idea
      BY <2>1 DEF IInv, IdeasInv, StampsOK, RequestsOK
    <3>2. DOMAIN new = DOMAIN Req(c).idea
      BY <3>1 DEF Notes!Normalize
    <3> QED
      BY <3>1, <3>2
  <2>5. "title" \in DOMAIN idea /\ "owner" \in DOMAIN idea
    BY <2>4, <2>i DEF Lists!Over
  <2>6. /\ DOMAIN row = {"createdBy", "updatedBy"} \cup DOMAIN idea /\ row.owner = idea.owner
        /\ row.updatedBy = By(c) /\ row.title = idea.title
    BY <2>5, <2>r DEF Lists!Over
  <2>7. DOMAIN ideas = DOMAIN db.ideas \cup {id} /\ ideas[id] = row /\ \A i \in DOMAIN db.ideas : ideas[i] = db.ideas[i]
    <3>1. Added(db.ideas, id, row, Lists!Add(db.ideas, id, row))
      BY ONLY AddRows
    <3> QED
      BY <2>3, <3>1, <2>w DEF Added
  <2>8. DOMAIN d = Tables /\ d.ideas = ideas /\ \A t \in Tables \ {"ideas"} : d[t] = db[t]
    BY <2>d DEF IInv, Shaped, Tables
  <2>9. Logged(d, db', st, entry)
    <3>1. st \notin DOMAIN d.history
      BY <2>3, <2>8 DEF Tables
    <3>2. Logged(d, Lists!logIdeaChange(d, st, idea.owner, id, idea.title, By(c), "created"), st,
                 EntryOf(idea.owner, id, idea.title, By(c), "created"))
      BY ONLY <2>8, <3>1, logIdeaChangeLogs
    <3> QED
      BY <2>2, <3>2, <2>e
  <2>10. /\ DOMAIN db' = Tables /\ db'.users = db.users /\ db'.invites = db.invites /\ db'.began = db.began
         /\ db'.ideas = ideas
         /\ DOMAIN db'.history = DOMAIN db.history \cup {st} /\ db'.history[st] = entry
         /\ \A k \in DOMAIN db.history : db'.history[k] = db.history[k]
    BY <2>8, <2>9 DEF Logged, Tables
  <2>11. DOMAIN past' = Pasts /\ past'.joins = past.joins /\ past'.written = past.written /\ past'.overtaken = past.overtaken
    BY <2>2 DEF IInv, Shaped
  <2>12. Moved(c, "done", st)
    BY <2>2, WritesMoved
  <2>13. /\ StampsOK'
         /\ \A o \in Clients : Req(o)' = Req(o) /\ (Locked(o)' => Locked(o) /\ o # c /\ task'[o].seen = task[o].seen)
    BY <2>1, <2>7, <2>10, <2>12, StampSpent DEF IInv, IdeasInv
  <2>14. /\ Entered(entry) /\ entry.owner = idea.owner /\ entry.idea = id /\ entry.title = idea.title /\ entry.user = By(c)
    BY <2>e DEF Entered, EntryOf
  <2>15. id # None
    BY <2>1 DEF IInv, RequestsOK
  <2>16. RowsOK'
    <3>1. db'.began \in Nat /\ DOMAIN db'.history \subseteq 1..db'.began
      BY <2>3, <2>10 DEF IInv, IdeasInv, RowsOK
    <3>2. \A k \in DOMAIN db'.history : Entered(db'.history[k]) /\ db'.history[k].idea \in DOMAIN db'.ideas \cup {None}
      BY <2>7, <2>10, <2>14 DEF IInv, IdeasInv, RowsOK
    <3>3. \A i \in DOMAIN db'.ideas : i # None /\ Titled(db'.ideas[i])
      BY <2>5, <2>6, <2>7, <2>10, <2>15 DEF IInv, IdeasInv, RowsOK, Titled
    <3> QED
      BY <3>1, <3>2, <3>3 DEF RowsOK
  <2>17. \A k \in DOMAIN db.history : db.history[k].idea # id
    BY <2>3, <2>15 DEF IInv, IdeasInv, RowsOK
  <2>18. Told'
    <3>1. ToldBy(db, st, id)'
      BY <2>6, <2>7, <2>10, <2>14 DEF ToldBy, Entry, Tells
    <3>2. Latest(st, id)'
      <4>1. \A other \in DOMAIN db'.history : db'.history[other].idea = id => other = st
        BY <2>10, <2>17
      <4>2. st <= st
        BY <2>3
      <4> QED
        BY <4>1, <4>2 DEF Latest
    <3>3. ASSUME NEW i \in DOMAIN db.ideas
          PROVE  (\E k : ToldBy(db, k, i) /\ (i \notin past.overtaken => Latest(k, i)))'
      <4>1. PICK k : ToldBy(db, k, i) /\ (i \notin past.overtaken => Latest(k, i))
        BY <3>3 DEF IInv, IdeasInv, Told
      <4>2. i # id /\ db'.ideas[i] = db.ideas[i]
        BY <2>3, <2>7, <2>10, <3>3
      <4>3. ToldBy(db, k, i)'
        BY <2>10, <4>1, <4>2 DEF ToldBy, Entry
      <4>4. Latest(k, i) => Latest(k, i)'
        BY <2>10, <2>14, <4>2 DEF Latest
      <4> QED
        BY <2>11, <4>1, <4>3, <4>4
    <3> QED
      BY <2>7, <2>10, <3>1, <3>2, <3>3 DEF Told
  <2>19. IdeasAlone
    BY <2>10, <2>11 DEF IdeasAlone, Framed
  <2>20. Ordered'
    <3> SUFFICES ASSUME NEW o \in Clients, Locked(o)', Req(o)'.id \in DOMAIN db'.ideas, NEW k, Entry(db', k, Req(o)'.id)
                 PROVE  k < task'[o].seen \/ [idea |-> Req(o)'.id, began |-> k] \in past'.written
      BY DEF Ordered
    <3>1. Req(o)' = Req(o) /\ Locked(o) /\ task'[o].seen = task[o].seen /\ Req(o).id # id
      BY <2>3, <2>13
    <3>2. Req(o).id \in DOMAIN db.ideas /\ Entry(db, k, Req(o).id)
      BY <2>7, <2>10, <2>14, <3>1 DEF Entry
    <3> QED
      BY <2>11, <3>1, <3>2 DEF IInv, IdeasInv, Ordered
  <2> QED
    <3>1. Req(c).op # "invite" /\ IdeasInv'
      BY <2>1, <2>13, <2>16, <2>18, <2>20 DEF IdeasInv
    <3> QED
      BY <2>12, <2>19, <3>1, IdeasAloneKeep
<1> QED
  BY <1>1, <1>2

(******************************** every step *******************************)

LEMMA NextKeeps == IInv /\ [Next]_vars => IInv'
<1> SUFFICES ASSUME IInv, [Next]_vars PROVE IInv'
  OBVIOUS
<1>1. ASSUME NEW c \in Clients, Step(c) PROVE IInv'
  <2>1. CASE ideaFor(c) \/ createAllowed(c)
    BY <2>1, ideaForKeeps, createAllowedKeeps
  <2>2. CASE lockEditableIdea(c) \/ createEditor(c)
    BY <2>2, beginsKeep
  <2>3. CASE handleUpdateIdea(c)
    BY <2>3, updateKeeps
  <2>4. CASE handleDeleteIdea(c)
    BY <2>4, deleteKeeps
  <2>5. CASE handleCreateIdea(c)
    BY <2>5, createKeeps
  <2>6. CASE \/ tagsReader(c) \/ tagsCleared(c) \/ handleSetIdeaTags(c) \/ handleSetTripTags(c)
             \/ handleCreateTag(c) \/ handleUpdateTag(c) \/ handleDeleteTag(c)
    BY <2>6, tagsKeep
  <2>7. CASE handleAddIdeaMember(c) \/ handleUpdateIdeaMember(c) \/ handleRemoveIdeaMember(c) \/ handleLeaveIdeaList(c)
    BY <2>7, membersKeep
  <2>8. CASE invitee(c) \/ acceptor(c) \/ handlePreviewIdeaInvitation(c)
    BY <2>8, invitationReads
  <2>9. CASE handleCreateIdeaInvitation(c)
    BY <2>9, createInvitationKeeps
  <2>10. CASE handleRevokeIdeaInvitation(c)
    BY <2>10, revokeKeeps
  <2>11. CASE handleAcceptIdeaInvitation(c)
    BY <2>11, acceptKeeps
  <2>12. CASE handleRegisterIdeaInvitation(c)
    BY <2>12, registerKeeps
  <2>13. CASE handleDeleteMe(c)
    BY <2>13, deleteMeKeeps
  <2>14. CASE managesLinks(c) \/ handleCreateShareLink(c) \/ handleRevokeShareLink(c)
    BY <2>14, linksKeep
  <2>15. CASE \/ requireShareToken(c) \/ handleShared(c) \/ sharedContent(c) \/ sharedGallery(c) \/ handleSharedDocument(c)
              \/ sharedMedia(c) \/ handleSharedMediaFile(c)
    BY <2>15, sharedKeeps
  <2>16. CASE \/ handleMediaDownload(c) \/ handleSharedMediaDownload(c)
              \/ redeem(c) \/ downloadReader(c) \/ stillDownloadable(c) \/ handleDownload(c)
    BY <2>16, downloadsKeep
  <2>17. CASE homeBody(c) \/ handleSetHome(c) \/ handleDeleteHome(c)
    BY <2>17, homesKeep
  <2>18. CASE joinTrip(c) \/ leaveTrip(c) \/ movePlace(c) \/ hidePicture(c) \/ deleteTrip(c) \/ TripGone(c)
    BY <2>18, tripsKeep
  <2> QED
    BY ONLY <1>1, <2>1, <2>2, <2>3, <2>4, <2>5, <2>6, <2>7, <2>8, <2>9, <2>10, <2>11, <2>12, <2>13, <2>14, <2>15, <2>16,
            <2>17, <2>18 DEF Step
<1>2. CASE Tick
  BY <1>2, TickKeeps
<1>3. CASE UNCHANGED vars
  BY <1>3, StutterKeeps
<1> QED
  BY <1>1, <1>2, <1>3 DEF Next, Rest

(* The shapes of the tables, whose identifiers and addresses are whose, the *)
(* spent invitations and the stamps of the history hold together in every   *)
(* state, whichever requests meet (httpapi/ideas.go, ideasharing.go).       *)
THEOREM SharingInvariant == Spec => []IInv
<1> QED
  BY InitIInv, NextKeeps, PTL DEF Spec

(* An invitation lets one person in, once, before it ends and unless it    *)
(* was withdrawn, whoever accepts, registers, withdraws or invites          *)
(* meanwhile, and whichever account goes (domain/mail.go, Redeemable).      *)
THEOREM InvitationsLetInOnce == Spec => []InvitationsAreSpentOnce
<1>1. IInv => InvitationsAreSpentOnce
  BY DEF IInv, InvitesInv
<1> QED
  BY <1>1, SharingInvariant, PTL

(* However many changes overlap, are refused half-way or meet an account   *)
(* that goes, the history of every idea has an entry that tells it: the     *)
(* latest one, unless a change that began later was written before the one  *)
(* that was written last (storage/postgres/ideas.go).                       *)
THEOREM HistoryTells == Spec => []HistoryTellsTheIdea
<1>1. IInv => HistoryTellsTheIdea
  <2> SUFFICES ASSUME IInv, NEW id \in DOMAIN db.ideas
               PROVE  LET told == Lists!History(db, db.ideas[id].owner, id)
                      IN \E k \in DOMAIN told : /\ Tells(told[k], db.ideas[id])
                                                /\ id \notin past.overtaken => \A other \in DOMAIN told : other <= k
    BY DEF HistoryTellsTheIdea
  <2> PICK told : told = Lists!History(db, db.ideas[id].owner, id)
    OBVIOUS
  <2>1. /\ DOMAIN told = {k \in DOMAIN db.history : /\ db.history[k].owner = db.ideas[id].owner
                                                    /\ id \in {None, db.history[k].idea}}
        /\ \A k \in DOMAIN told : told[k] = db.history[k]
    BY DEF Lists!History, Lists!Only
  <2>2. PICK k : ToldBy(db, k, id) /\ (id \notin past.overtaken => Latest(k, id))
    BY DEF IInv, IdeasInv, Told
  <2>3. id # None
    BY DEF IInv, IdeasInv, RowsOK
  <2>4. k \in DOMAIN told /\ Tells(told[k], db.ideas[id])
    BY <2>1, <2>2 DEF ToldBy, Entry
  <2>5. \A other \in DOMAIN told : other \in DOMAIN db.history /\ db.history[other].idea = id
    BY <2>1, <2>3
  <2> QED
    BY <2>2, <2>4, <2>5 DEF Latest
<1> QED
  BY <1>1, SharingInvariant, PTL

(************************ what outsiders do not see ************************)

(* A point that lies in no circle is no home, and in no circle of a home.  *)
LEMMA PointOutside ==
  ASSUME NEW zones, NEW home \in zones, home \in [home : Int, center : Int, radius : Int], View!InZone({home}, home.home),
         NEW at, ~View!InZone(zones, at)
  PROVE  at # home.home /\ at \notin (home.center - home.radius)..(home.center + home.radius)
<1>1. ~(View!greatCircle(home.center, at) <= home.radius)
  BY DEF View!InZone
<1>2. View!greatCircle(home.center, home.home) <= home.radius
  BY DEF View!InZone
<1>3. ASSUME at \in (home.center - home.radius)..(home.center + home.radius) PROVE FALSE
  BY <1>1, <1>3 DEF View!greatCircle
<1> QED
  BY <1>1, <1>2, <1>3

(* There is a nearest point, and an earliest one of them.                  *)
LEMMA LeastOf ==
  ASSUME NEW T, T \subseteq Nat, T # {}
  PROVE  \E x \in T : \A y \in T : x <= y
<1> DEFINE R == OpToRel(<, Nat)
<1>1. \A x, y \in Nat : <<y, x>> \in R <=> y < x
  BY DEF OpToRel
<1>2. IsWellFoundedOn(R, Nat)
  BY NatLessThanWellFounded
<1> HIDE DEF R
<1>3. PICK x \in T : \A y \in T : ~(<<y, x>> \in R)
  BY <1>2, WFMin
<1>4. \A y \in T : y \in Nat /\ x \in Nat /\ ~(y < x)
  BY <1>1, <1>3
<1> QED
  BY <1>4

LEMMA NearestIsThere ==
  ASSUME NEW line, DOMAIN line \subseteq Nat, DOMAIN line # {}, \A k \in DOMAIN line : line[k] \in Int, NEW at \in Int
  PROVE  \E p \in DOMAIN line : View!Nearest(line, at) = line[p]
<1> DEFINE far(k) == View!greatCircle(line[k], at)
<1> DEFINE nearest == {k \in DOMAIN line : \A o \in DOMAIN line : far(k) <= far(o)}
<1>1. \A k \in DOMAIN line : far(k) \in Nat
  BY DEF View!greatCircle
<1>2. PICK p \in DOMAIN line : \A o \in DOMAIN line : far(p) <= far(o)
  <2> DEFINE T == {far(k) : k \in DOMAIN line}
  <2>1. T \subseteq Nat /\ T # {}
    BY <1>1
  <2> HIDE DEF T
  <2>2. PICK x \in T : \A y \in T : x <= y
    BY <2>1, LeastOf
  <2> QED
    BY <2>2 DEF T
<1>3. nearest \subseteq Nat /\ nearest # {}
  BY <1>2
<1>4. PICK x \in nearest : \A y \in nearest : x <= y
  <2> HIDE DEF nearest
  <2> QED
    BY <1>3, LeastOf
<1>5. View!Nearest(line, at) = line[CHOOSE k \in nearest : \A o \in nearest : k <= o]
  BY DEF View!Nearest
<1>6. (CHOOSE k \in nearest : \A o \in nearest : k <= o) \in nearest
  <2> HIDE DEF nearest
  <2> QED
    BY <1>4
<1> QED
  BY <1>5, <1>6

Shown(zones, line) == \A k \in DOMAIN line : ~View!InZone(zones, line[k])

Lined(line) == DOMAIN line \subseteq Nat /\ \A k \in DOMAIN line : line[k] \in Int

LEMMA LineHides ==
  ASSUME NEW zones, NEW line
  PROVE  /\ Shown(zones, View!points(zones, line)) /\ Shown(zones, View!Line(zones, line))
         /\ Lined(line) => Lined(View!Line(zones, line))
<1> PICK kept : kept = View!points(zones, line)
  OBVIOUS
<1>1. DOMAIN kept \subseteq DOMAIN line /\ \A k \in DOMAIN kept : kept[k] = line[k] /\ ~View!InZone(zones, line[k])
  BY DEF View!points
<1>2. View!Line(zones, line) = kept \/ View!Line(zones, line) = <<>>
  BY DEF View!Line
<1>3. Shown(zones, kept) /\ (Lined(line) => Lined(kept))
  BY <1>1 DEF Shown, Lined
<1>4. Shown(zones, <<>>) /\ Lined(<<>>)
  BY DEF Shown, Lined
<1> QED
  BY <1>2, <1>3, <1>4

(* A stop that stays is shown where it is, or at a point of the line.      *)
Stops(list) == \A k \in DOMAIN list : DOMAIN list[k] = {"at", "payer"} /\ list[k].at \in Int

LEMMA StopsHide ==
  ASSUME NEW zones, NEW list, Stops(list), NEW line, Lined(line), Shown(zones, line),
         NEW k \in DOMAIN View!stops(zones, list, line)
  PROVE  /\ k \in DOMAIN list /\ View!stops(zones, list, line)[k].payer = list[k].payer
         /\ ~View!InZone(zones, View!stops(zones, list, line)[k].at)
<1> DEFINE hidden == View!InZone(zones, list[k].at)
<1>1. /\ k \in DOMAIN list /\ (hidden => DOMAIN line # {})
      /\ View!stops(zones, list, line)[k] =
           IF hidden THEN [list[k] EXCEPT !.at = View!Nearest(line, list[k].at)] ELSE list[k]
  BY DEF View!stops
<1>2. DOMAIN list[k] = {"at", "payer"} /\ list[k].at \in Int
  BY <1>1 DEF Stops
<1>3. CASE ~hidden
  BY <1>1, <1>3
<1>4. CASE hidden
  <2> PICK at : at = View!Nearest(line, list[k].at)
    OBVIOUS
  <2>1. PICK p \in DOMAIN line : View!Nearest(line, list[k].at) = line[p]
    BY <1>1, <1>2, <1>4, NearestIsThere DEF Lined
  <2>2. ~View!InZone(zones, at)
    BY <2>1 DEF Shown
  <2>3. View!stops(zones, list, line)[k] = [list[k] EXCEPT !.at = at]
    BY <1>1, <1>4
  <2> QED
    BY <1>1, <1>2, <2>2, <2>3
<1> QED
  BY <1>3, <1>4

(* A document by its parts.                                                *)
Places(list) == \A k \in DOMAIN list : DOMAIN list[k] = {"at", "address", "booking", "payer"}
Transfers(list) == \A k \in DOMAIN list : DOMAIN list[k] = {"from", "to", "booking"}
Legs(list) == \A k \in DOMAIN list : DOMAIN list[k] = {"line", "via", "change"}
Track(track) == DOMAIN track = {"line", "stops"} /\ Lined(track.line) /\ Stops(track.stops)
Tracks(list) == \A k \in DOMAIN list : Track(list[k])

LEMMA DocumentParts ==
  ASSUME NEW doc
  PROVE  View!Document(doc) <=> /\ DOMAIN doc = {"places", "transfers", "legs", "tracks"}
                                /\ Places(doc.places) /\ Transfers(doc.transfers) /\ Legs(doc.legs) /\ Tracks(doc.tracks)
BY DEF View!Document, Places, Transfers, Legs, Tracks, Track, Lined, Stops

(* Who pays and what is booked is left out of the page of a link.          *)
PlacesUnowned(list) == \A k \in DOMAIN list : list[k].payer = None /\ list[k].booking = ""
TransfersUnowned(list) == \A k \in DOMAIN list : list[k].booking = ""
StopsUnowned(list) == \A o \in DOMAIN list : list[o].payer = None
TracksUnowned(list) == \A k \in DOMAIN list : StopsUnowned(list[k].stops)

Unowned(doc) == PlacesUnowned(doc.places) /\ TransfersUnowned(doc.transfers) /\ TracksUnowned(doc.tracks)

LEMMA ForShareLinkUnowned ==
  ASSUME NEW doc, View!Document(doc)
  PROVE  View!Document(View!ForShareLink(doc)) /\ Unowned(View!ForShareLink(doc))
<1> PICK page : page = View!ForShareLink(doc)
  OBVIOUS
<1>p. PICK places : places = View!Unpaid(View!Unbooked(doc.places))
  OBVIOUS
<1>t. PICK transfers : transfers = View!Unbooked(doc.transfers)
  OBVIOUS
<1>k. PICK tracks : tracks = [k \in DOMAIN doc.tracks |-> [doc.tracks[k] EXCEPT !.stops = View!Unpaid(@)]]
  OBVIOUS
<1>1. View!ForShareLink(doc) = [doc EXCEPT !.places = places, !.transfers = transfers, !.tracks = tracks]
  BY <1>p, <1>t, <1>k DEF View!ForShareLink
<1>2. /\ DOMAIN doc = {"places", "transfers", "legs", "tracks"}
      /\ Places(doc.places) /\ Transfers(doc.transfers) /\ Legs(doc.legs) /\ Tracks(doc.tracks)
  BY DocumentParts
<1>3. /\ DOMAIN page = {"places", "transfers", "legs", "tracks"}
      /\ page.places = places /\ page.transfers = transfers /\ page.tracks = tracks /\ page.legs = doc.legs
  BY <1>1, <1>2
<1>4. Places(places) /\ PlacesUnowned(places)
  BY <1>2, <1>p DEF Places, PlacesUnowned, View!Unpaid, View!Unbooked
<1>5. Transfers(transfers) /\ TransfersUnowned(transfers)
  BY <1>2, <1>t DEF Transfers, TransfersUnowned, View!Unbooked
<1>6. \A k \in DOMAIN tracks : Track(tracks[k]) /\ StopsUnowned(tracks[k].stops)
  <2> TAKE k \in DOMAIN tracks
  <2> PICK list : list = doc.tracks[k].stops
    OBVIOUS
  <2>1. DOMAIN doc.tracks[k] = {"line", "stops"} /\ Lined(doc.tracks[k].line) /\ Stops(list)
    BY <1>2, <1>k DEF Tracks, Track
  <2>2. tracks[k] = [doc.tracks[k] EXCEPT !.stops = View!Unpaid(@)]
    BY <1>k
  <2>3. DOMAIN tracks[k] = {"line", "stops"} /\ tracks[k].line = doc.tracks[k].line /\ tracks[k].stops = View!Unpaid(list)
    BY <2>1, <2>2
  <2>4. Stops(View!Unpaid(list)) /\ StopsUnowned(View!Unpaid(list))
    BY <2>1 DEF View!Unpaid, Stops, StopsUnowned
  <2> QED
    BY <2>1, <2>3, <2>4 DEF Track
<1>7. View!Document(page)
  BY ONLY <1>2, <1>3, <1>4, <1>5, <1>6, DocumentParts DEF Tracks
<1>8. Unowned(page)
  BY ONLY <1>3, <1>4, <1>5, <1>6 DEF Unowned, TracksUnowned
<1> QED
  BY <1>7, <1>8

(* Nothing an outsider is shown lies in a circle.                          *)
LEMMA OutsideHides ==
  ASSUME NEW zones, NEW doc, View!Document(doc), NEW at \in View!PointsShown(View!Outside(doc, zones))
  PROVE  ~View!Hides(zones, at)
<1>1. /\ DOMAIN doc = {"places", "transfers", "legs", "tracks"}
      /\ Places(doc.places) /\ Transfers(doc.transfers) /\ Legs(doc.legs) /\ Tracks(doc.tracks)
  BY DocumentParts
<1>p. PICK places : places = View!Items(View!Outside(doc, zones).places)
  OBVIOUS
<1>t. PICK transfers : transfers = View!Items(View!Outside(doc, zones).transfers)
  OBVIOUS
<1>l. PICK legs : legs = View!Items(View!Outside(doc, zones).legs)
  OBVIOUS
<1>k. PICK tracks : tracks = View!Items(View!Outside(doc, zones).tracks)
  OBVIOUS
<1>2. \A p \in places : ~View!Hides(zones, p.at)
  <2>1. ASSUME NEW k \in DOMAIN doc.places PROVE ~View!Hides(zones, View!Place(zones, doc.places[k]).at)
    BY <1>1, <2>1 DEF Places, View!Place, View!Hides
  <2>2. places = {View!Place(zones, doc.places[k]) : k \in DOMAIN doc.places}
    BY <1>p DEF View!Outside, View!Items
  <2> QED
    BY ONLY <2>1, <2>2
<1>3. \A t \in transfers : ~View!Hides(zones, t.from) /\ ~View!Hides(zones, t.to)
  <2>1. ASSUME NEW k \in DOMAIN doc.transfers
        PROVE  /\ ~View!Hides(zones, View!Transfer(zones, doc.transfers[k]).from)
               /\ ~View!Hides(zones, View!Transfer(zones, doc.transfers[k]).to)
    BY <1>1, <2>1 DEF Transfers, View!Transfer, View!Hides
  <2>2. transfers = {View!Transfer(zones, doc.transfers[k]) : k \in DOMAIN doc.transfers}
    BY <1>t DEF View!Outside, View!Items
  <2> QED
    BY ONLY <2>1, <2>2
<1>4. \A l \in legs : Shown(zones, l.line) /\ Shown(zones, l.via) /\ ~View!Hides(zones, l.change)
  <2>1. ASSUME NEW k \in DOMAIN doc.legs
        PROVE  LET l == View!Leg(zones, doc.legs[k])
               IN Shown(zones, l.line) /\ Shown(zones, l.via) /\ ~View!Hides(zones, l.change)
    <3> PICK leg : leg = doc.legs[k]
      OBVIOUS
    <3>1. DOMAIN leg = {"line", "via", "change"}
      BY <1>1, <2>1 DEF Legs
    <3>2. /\ View!Leg(zones, leg).line = View!Line(zones, leg.line) /\ View!Leg(zones, leg).via = View!points(zones, leg.via)
          /\ View!Leg(zones, leg).change = IF View!Hides(zones, leg.change) THEN None ELSE leg.change
      BY <3>1 DEF View!Leg
    <3> QED
      BY <3>2, LineHides DEF View!Hides
  <2>2. legs = {View!Leg(zones, doc.legs[k]) : k \in DOMAIN doc.legs}
    BY <1>l DEF View!Outside, View!Items
  <2> QED
    BY ONLY <2>1, <2>2
<1>5. \A t \in tracks : Shown(zones, t.line) /\ \A o \in DOMAIN t.stops : ~View!InZone(zones, t.stops[o].at)
  <2>1. ASSUME NEW k \in DOMAIN doc.tracks
        PROVE  LET t == View!Track(zones, doc.tracks[k])
               IN Shown(zones, t.line) /\ \A o \in DOMAIN t.stops : ~View!InZone(zones, t.stops[o].at)
    <3> PICK track : track = doc.tracks[k]
      OBVIOUS
    <3>1. Track(track)
      BY <1>1, <2>1 DEF Tracks
    <3>2. PICK line : line = View!Line(zones, track.line)
      OBVIOUS
    <3>3. View!Track(zones, track).line = line /\ View!Track(zones, track).stops = View!stops(zones, track.stops, line)
      BY <3>1, <3>2 DEF Track, View!Track
    <3>4. Shown(zones, line) /\ Lined(line)
      BY <3>1, <3>2, LineHides DEF Track
    <3>5. \A o \in DOMAIN View!stops(zones, track.stops, line) : ~View!InZone(zones, View!stops(zones, track.stops, line)[o].at)
      BY <3>1, <3>4, StopsHide DEF Track
    <3> QED
      BY <3>3, <3>4, <3>5
  <2>2. tracks = {View!Track(zones, doc.tracks[k]) : k \in DOMAIN doc.tracks}
    BY <1>k DEF View!Outside, View!Items
  <2> QED
    BY ONLY <2>1, <2>2
<1>6. \/ at \in {p.at : p \in places} \/ at \in UNION {{t.from, t.to} : t \in transfers}
      \/ at \in UNION {View!Items(l.line) \cup View!Items(l.via) \cup {l.change} : l \in legs}
      \/ at \in UNION {View!Items(t.line) \cup {s.at : s \in View!Items(t.stops)} : t \in tracks}
  <2>1. View!PointsShown(View!Outside(doc, zones)) =
          {p.at : p \in places} \cup (UNION {{t.from, t.to} : t \in transfers})
          \cup (UNION {View!Items(l.line) \cup View!Items(l.via) \cup {l.change} : l \in legs})
          \cup (UNION {View!Items(t.line) \cup {s.at : s \in View!Items(t.stops)} : t \in tracks})
    BY <1>p, <1>t, <1>l, <1>k DEF View!PointsShown
  <2> QED
    BY ONLY <2>1, at \in View!PointsShown(View!Outside(doc, zones))
<1>7. CASE at \in {p.at : p \in places}
  BY <1>2, <1>7
<1>8. CASE at \in UNION {{t.from, t.to} : t \in transfers}
  BY <1>3, <1>8
<1>9. CASE at \in UNION {View!Items(l.line) \cup View!Items(l.via) \cup {l.change} : l \in legs}
  BY <1>4, <1>9 DEF Shown, View!Items, View!Hides
<1>10. CASE at \in UNION {View!Items(t.line) \cup {s.at : s \in View!Items(t.stops)} : t \in tracks}
  BY <1>5, <1>10 DEF Shown, View!Items, View!Hides
<1> QED
  BY ONLY <1>6, <1>7, <1>8, <1>9, <1>10

(* Nor does it tell what a page for a link leaves out.                     *)
LEMMA OutsideTellsNothing ==
  ASSUME NEW zones, NEW doc, View!Document(doc), Unowned(doc)
  PROVE  View!Private(View!Outside(doc, zones)) \subseteq {None, ""}
<1>1. Places(doc.places) /\ Transfers(doc.transfers) /\ Legs(doc.legs) /\ Tracks(doc.tracks)
  BY DocumentParts
<1>2. PlacesUnowned(doc.places) /\ TransfersUnowned(doc.transfers) /\ TracksUnowned(doc.tracks)
  BY DEF Unowned
<1>p. PICK places : places = View!Items(View!Outside(doc, zones).places)
  OBVIOUS
<1>t. PICK transfers : transfers = View!Items(View!Outside(doc, zones).transfers)
  OBVIOUS
<1>k. PICK tracks : tracks = View!Items(View!Outside(doc, zones).tracks)
  OBVIOUS
<1>3. \A p \in places : p.payer = None /\ p.booking = ""
  <2>1. \A k \in DOMAIN doc.places : /\ View!Place(zones, doc.places[k]).payer = None
                                     /\ View!Place(zones, doc.places[k]).booking = ""
    BY <1>1, <1>2 DEF Places, PlacesUnowned, View!Place
  <2>2. places = {View!Place(zones, doc.places[k]) : k \in DOMAIN doc.places}
    BY <1>p DEF View!Outside, View!Items
  <2> QED
    BY ONLY <2>1, <2>2
<1>4. \A t \in transfers : t.booking = ""
  <2>1. \A k \in DOMAIN doc.transfers : View!Transfer(zones, doc.transfers[k]).booking = ""
    BY <1>1, <1>2 DEF Transfers, TransfersUnowned, View!Transfer
  <2>2. transfers = {View!Transfer(zones, doc.transfers[k]) : k \in DOMAIN doc.transfers}
    BY <1>t DEF View!Outside, View!Items
  <2> QED
    BY ONLY <2>1, <2>2
<1>5. \A t \in tracks : StopsUnowned(t.stops)
  <2>1. ASSUME NEW k \in DOMAIN doc.tracks PROVE StopsUnowned(View!Track(zones, doc.tracks[k]).stops)
    <3> PICK track : track = doc.tracks[k]
      OBVIOUS
    <3>1. Track(track) /\ StopsUnowned(track.stops)
      BY <1>1, <1>2, <2>1 DEF Tracks, TracksUnowned
    <3>2. PICK line : line = View!Line(zones, track.line)
      OBVIOUS
    <3>3. View!Track(zones, track).stops = View!stops(zones, track.stops, line)
      BY <3>1, <3>2 DEF Track, View!Track
    <3>4. Shown(zones, line) /\ Lined(line)
      BY <3>1, <3>2, LineHides DEF Track
    <3>5. \A o \in DOMAIN View!stops(zones, track.stops, line) : View!stops(zones, track.stops, line)[o].payer = None
      BY <3>1, <3>4, StopsHide DEF Track, StopsUnowned
    <3> QED
      BY <3>3, <3>5 DEF StopsUnowned
  <2>2. tracks = {View!Track(zones, doc.tracks[k]) : k \in DOMAIN doc.tracks}
    BY <1>k DEF View!Outside, View!Items
  <2> QED
    BY ONLY <2>1, <2>2
<1>6. View!Private(View!Outside(doc, zones)) =
        {p.payer : p \in places} \cup (UNION {{s.payer : s \in View!Items(t.stops)} : t \in tracks})
        \cup {p.booking : p \in places \cup transfers}
  BY <1>p, <1>t, <1>k DEF View!Private
<1>7. {p.payer : p \in places} \subseteq {None} /\ {p.booking : p \in places \cup transfers} \subseteq {""}
  BY <1>3, <1>4
<1>8. UNION {{s.payer : s \in View!Items(t.stops)} : t \in tracks} \subseteq {None}
  BY <1>5 DEF StopsUnowned, View!Items
<1> QED
  BY ONLY <1>6, <1>7, <1>8

(************************* what a page is made from ************************)

(* Homes lie in their circles, whoever is on a trip has an account that    *)
(* stays as long as they own it, and a link ends at a time or never.       *)
HomeOK(home) ==
  home # None => home \in [home : Int, center : Int, radius : Int] /\ View!InZone({home}, home.home)

PictureRow(picture) == DOMAIN picture = {"private", "at", "mime"}

TripOK(users, trip) ==
  /\ DOMAIN trip = {"owner", "members", "source", "doc", "pictures"}
  /\ trip.owner \in DOMAIN users /\ ~users[trip.owner].unverified /\ trip.members \subseteq DOMAIN users
  /\ View!Document(trip.doc)
  /\ \A p \in DOMAIN trip.pictures : PictureRow(trip.pictures[p])

TablesOK(d) ==
  /\ d.now \in Int
  /\ \A u \in DOMAIN d.users : HomeOK(d.users[u].home)
  /\ \A t \in DOMAIN d.trips : TripOK(d.users, d.trips[t])
  /\ \A l \in DOMAIN d.links : SoundLink(d.links[l])

(* A link that is about to be made has an identifier nobody can know yet.  *)
Making(c) == Req(c).op = "createLink" /\ task[c].step \in {"new", "insert"}
Made(id) == \E c \in Clients : Making(c) /\ Req(c).id = id

AsksOK ==
  /\ OneEach("createLink")
  /\ \A c \in Clients : Req(c).op = "createLink" => SoundLink(Req(c).link) /\ Req(c).id # None
  /\ \A c \in Clients : Req(c).op = "setHome" => Req(c).home \in Int

MakersOK == \A c \in Clients : Making(c) => Req(c).id \notin DOMAIN db.links

TicketOK(ticket) ==
  DOMAIN ticket = {"trip", "reader", "items", "until"} /\ None \in {ticket.reader.user, ticket.reader.link}

TicketsOK == \A k \in DOMAIN db.tickets : TicketOK(db.tickets[k]) /\ ~Made(db.tickets[k].reader.link)

(* What a request has read is what its page may show.                      *)
Pictures(list, private) == \A p \in DOMAIN list : PictureRow(list[p]) /\ (list[p].private => private)

Sharing(c) == Req(c).op \in {"sharedDocument", "sharedFile", "sharedDownload"} /\ task[c].step \notin {"new", "done", "refused"}
DocumentRead(c) == Req(c).op = "sharedDocument" /\ task[c].step \in {"gallery", "zones"}
PicturesRead(c) == Req(c).op \in {"sharedDocument", "sharedFile"} /\ task[c].step = "zones"
Holding(c) == Req(c).op = "open" /\ task[c].step \in {"reader", "list", "serve"}
Listing(c) == Req(c).op = "open" /\ task[c].step \in {"list", "serve"}

SeenOK(c) ==
  /\ Sharing(c) => "link" \in DOMAIN task[c].seen /\ ~Made(Req(c).link)
  /\ DocumentRead(c) => "doc" \in DOMAIN task[c].seen /\ View!Document(task[c].seen.doc)
  /\ PicturesRead(c) => "pictures" \in DOMAIN task[c].seen /\ Pictures(task[c].seen.pictures, task[c].seen.link.private)
  /\ Holding(c) => /\ "ticket" \in DOMAIN task[c].seen /\ TicketOK(task[c].seen.ticket)
                   /\ ~Made(task[c].seen.ticket.reader.link)
  /\ Listing(c) => "private" \in DOMAIN task[c].seen
  /\ At(c, "open", "serve") => "items" \in DOMAIN task[c].seen /\ Pictures(task[c].seen.items, task[c].seen.private)
  /\ At(c, "setHome", "write") => View!ValidHome(Req(c).home, Req(c).radius)

(* The pictures of a trip, those shown, and those an address still serves. *)
Pics(d, trip) == IF trip \in DOMAIN d.trips THEN d.trips[trip].pictures ELSE <<>>
ShownIn(d, trip, private) == {p \in DOMAIN Pics(d, trip) : VisibleTo(Pics(d, trip)[p], private)}
Served(d, ticket) == {p \in ticket.items : Allowed(d, ticket) /\ p \in ShownIn(d, ticket.trip, ShowsPrivate(d, ticket))}

OpenedOK(c) ==
  /\ At(c, "open", "reader") => Served(db, task[c].seen.ticket) \subseteq past.opened[c]
  /\ At(c, "open", "list") =>
       task[c].seen.ticket.items \cap ShownIn(db, task[c].seen.ticket.trip, task[c].seen.private) \subseteq past.opened[c]
  /\ At(c, "open", "serve") => DOMAIN task[c].seen.items \subseteq past.opened[c]

SInv ==
  /\ TablesOK(db) /\ AsksOK /\ MakersOK /\ TicketsOK
  /\ \A c \in Clients : SeenOK(c) /\ OpenedOK(c)
  /\ DOMAIN past.opened = Clients

LEMMA InitSInv == Init => SInv
<1> SUFFICES ASSUME Init PROVE SInv
  OBVIOUS
<1>1. PICK scene \in Scenes :
        /\ db = scene.db
        /\ task = [c \in Clients |-> IF c \in DOMAIN scene.reqs THEN Fresh(scene.reqs[c])
                                     ELSE [Fresh([op |-> "nothing", by |-> None]) EXCEPT !.step = "done"]]
        /\ past = [raced |-> {}, written |-> {}, overtaken |-> {}, hidden |-> {}, joins |-> <<>>, page |-> None,
                   opened |-> [c \in Clients |-> {}]]
  BY DEF Init
<1>2. SoundTrips(scene.db) /\ SoundRequests(scene)
  BY <1>1, ScenesAssumption DEF ScenesAssumption, SoundTables
<1>3. \A c \in Clients : \/ c \in DOMAIN scene.reqs /\ Req(c) = scene.reqs[c] /\ task[c].step = "new"
                         \/ Req(c).op = "nothing" /\ task[c].step = "done"
  BY <1>1 DEF Fresh, Req
<1>4. TablesOK(db)
  BY <1>1, <1>2 DEF TablesOK, SoundTrips, HomeOK, TripOK, PictureRow
<1>5. AsksOK
  BY <1>2, <1>3 DEF AsksOK, OneEach, SoundRequests, NewIdentifier
<1>6. \A id : Made(id) => id \notin DOMAIN db.links \cup {None}
  BY <1>1, <1>2, <1>3 DEF Made, Making, SoundRequests, NewIdentifier
<1>7. MakersOK
  BY <1>6 DEF MakersOK, Made
<1>8. TicketsOK
  BY <1>1, <1>2, <1>6 DEF TicketsOK, TicketOK, SoundTrips
<1>9. \A c \in Clients : task[c].step \in {"new", "done"}
  BY <1>3
<1>10. \A c \in Clients : SeenOK(c) /\ OpenedOK(c)
  BY <1>9 DEF SeenOK, OpenedOK, Sharing, DocumentRead, PicturesRead, Holding, Listing, At
<1>11. DOMAIN past.opened = Clients
  BY <1>1
<1> QED
  BY <1>4, <1>5, <1>7, <1>8, <1>10, <1>11 DEF SInv

(*************************** what is shown less ****************************)

TighterTrip(old, new) ==
  /\ new.owner = old.owner /\ new.members \subseteq old.members
  /\ DOMAIN new.pictures \subseteq DOMAIN old.pictures
  /\ \A p \in DOMAIN new.pictures : old.pictures[p].private => new.pictures[p].private

TighterLink(old, new) ==
  /\ new.trip = old.trip /\ new.private = old.private /\ new.download = old.download /\ new.until = old.until
  /\ old.revoked => new.revoked

(* Tables e let nobody in whom d did not, but through what is made.    *)
Tighter(d, e, made) ==
  /\ d.now <= e.now
  /\ \A t \in DOMAIN e.trips :
       /\ t \in DOMAIN d.trips /\ TighterTrip(d.trips[t], e.trips[t])
       /\ \A u \in {e.trips[t].owner} \cup e.trips[t].members : e.users[u].active => d.users[u].active
  /\ \A l \in DOMAIN e.links : l \in made \/ (l \in DOMAIN d.links /\ TighterLink(d.links[l], e.links[l]))

LEMMA ShownShrinks ==
  ASSUME NEW d, NEW e, NEW made, Tighter(d, e, made), NEW trip, NEW private
  PROVE  ShownIn(e, trip, private) \subseteq ShownIn(d, trip, private)
<1> SUFFICES ASSUME NEW p \in ShownIn(e, trip, private) PROVE p \in ShownIn(d, trip, private)
  OBVIOUS
<1>1. trip \in DOMAIN e.trips
  BY DEF ShownIn, Pics
<1>2. trip \in DOMAIN d.trips /\ TighterTrip(d.trips[trip], e.trips[trip])
  BY <1>1 DEF Tighter
<1>3. p \in DOMAIN e.trips[trip].pictures /\ (private \/ ~e.trips[trip].pictures[p].private)
  BY <1>1 DEF ShownIn, Pics, VisibleTo
<1>4. p \in DOMAIN d.trips[trip].pictures /\ (private \/ ~d.trips[trip].pictures[p].private)
  BY <1>2, <1>3 DEF TighterTrip
<1> QED
  BY <1>2, <1>4 DEF ShownIn, Pics, VisibleTo

LEMMA ServedShrinks ==
  ASSUME NEW d, NEW e, NEW made, Tighter(d, e, made), TablesOK(d), TablesOK(e), NEW ticket, TicketOK(ticket), ticket.reader.link \notin made
  PROVE  Served(e, ticket) \subseteq Served(d, ticket)
<1> DEFINE user == ticket.reader.user
<1> DEFINE link == ticket.reader.link
<1>1. SUFFICES ASSUME NEW p \in Served(e, ticket) PROVE p \in Served(d, ticket)
  OBVIOUS
<1>2. /\ p \in ticket.items /\ Allowed(e, ticket) /\ p \in ShownIn(e, ticket.trip, ShowsPrivate(e, ticket))
  BY DEF Served
<1>3. ASSUME user # None PROVE Allowed(d, ticket)
  <2>1. /\ user \in DOMAIN e.users /\ e.users[user].active /\ ticket.trip \in DOMAIN e.trips
        /\ user \in {e.trips[ticket.trip].owner} \cup e.trips[ticket.trip].members
    BY <1>2, <1>3 DEF Allowed
  <2>2. ticket.trip \in DOMAIN d.trips /\ TighterTrip(d.trips[ticket.trip], e.trips[ticket.trip])
    BY <2>1 DEF Tighter
  <2>3. user \in {d.trips[ticket.trip].owner} \cup d.trips[ticket.trip].members
    BY <2>1, <2>2 DEF TighterTrip
  <2>4. user \in DOMAIN d.users
    BY <2>2, <2>3 DEF TablesOK, TripOK
  <2>5. d.users[user].active
    BY <2>1 DEF Tighter
  <2> QED
    BY <1>3, <2>2, <2>3, <2>4, <2>5 DEF Allowed
<1>4. link \in DOMAIN e.links => link \in DOMAIN d.links /\ TighterLink(d.links[link], e.links[link])
  BY DEF Tighter
<1>5. ASSUME user = None PROVE Allowed(d, ticket)
  <2>1. ShareAccess(e, link) /\ e.links[link].trip = ticket.trip /\ e.links[link].download
    BY <1>2, <1>5 DEF Allowed
  <2>2. /\ link \in DOMAIN e.links /\ ~e.links[link].revoked /\ ticket.trip \in DOMAIN e.trips
        /\ e.links[link].until = None \/ e.now < e.links[link].until
    BY <2>1 DEF ShareAccess, Active
  <2>3. link \in DOMAIN d.links /\ TighterLink(d.links[link], e.links[link])
    BY <1>4, <2>2
  <2>4. d.now \in Int /\ e.now \in Int /\ d.now <= e.now /\ d.links[link].until \in Int \cup {None}
    BY <2>3 DEF TablesOK, Tighter, SoundLink
  <2>5. Active(d.links[link], d.now)
    BY <2>2, <2>3, <2>4 DEF TighterLink, Active
  <2>6. ticket.trip \in DOMAIN d.trips
    BY <2>2 DEF Tighter
  <2> QED
    BY <1>5, <2>1, <2>3, <2>5, <2>6 DEF Allowed, ShareAccess, TighterLink
<1>6. Allowed(d, ticket)
  BY <1>3, <1>5
<1>7. ShowsPrivate(e, ticket) => ShowsPrivate(d, ticket)
  <2>1. CASE link = None
    BY <2>1 DEF ShowsPrivate
  <2>2. CASE link # None
    BY <1>2, <1>4, <2>2 DEF TicketOK, ShowsPrivate, Allowed, ShareAccess, TighterLink
  <2> QED
    BY <2>1, <2>2
<1>8. p \in ShownIn(d, ticket.trip, ShowsPrivate(e, ticket))
  BY <1>2, ShownShrinks
<1>9. p \in ShownIn(d, ticket.trip, ShowsPrivate(d, ticket))
  BY <1>7, <1>8 DEF ShownIn, VisibleTo
<1> QED
  BY <1>2, <1>6, <1>9 DEF Served

LEMMA MadeShrinks ==
  ASSUME NEW c \in Clients, NEW s, NEW v, Moved(c, s, v), Making(c)' => Making(c), NEW id
  PROVE  Made(id)' => Made(id)
BY DEF Made, Making, Moved, Req

(* What others have read stays fit to be shown.                            *)
LEMMA SeenKept ==
  ASSUME NEW o \in Clients, SeenOK(o), task'[o] = task[o], \A id : Made(id)' => Made(id)
  PROVE  SeenOK(o)'
BY DEF SeenOK, Sharing, DocumentRead, PicturesRead, Holding, Listing, At, Req

LEMMA OpenedKept ==
  ASSUME NEW o \in Clients, SeenOK(o), OpenedOK(o), TablesOK(db), task'[o] = task[o], TablesOK(db)',
         NEW made, Tighter(db, db', made), \A id \in made : Made(id), past'.opened[o] = past.opened[o]
  PROVE  OpenedOK(o)'
<1>1. ASSUME Req(o).op = "open", task[o].step = "reader" PROVE Served(db', task[o].seen.ticket) \subseteq past.opened[o]
  <2> PICK ticket : ticket = task[o].seen.ticket
    OBVIOUS
  <2>1. TicketOK(ticket) /\ ~Made(ticket.reader.link)
    BY <1>1 DEF SeenOK, Holding
  <2>2. ticket.reader.link \notin made
    BY <2>1
  <2>3. Served(db', ticket) \subseteq Served(db, ticket)
    BY ONLY TablesOK(db), <2>1, <2>2, TablesOK(db)', Tighter(db, db', made), ServedShrinks
  <2>4. Served(db, ticket) \subseteq past.opened[o]
    BY <1>1 DEF OpenedOK, At
  <2> QED
    BY <2>3, <2>4
<1>2. ASSUME Req(o).op = "open", task[o].step = "list"
      PROVE  task[o].seen.ticket.items \cap ShownIn(db', task[o].seen.ticket.trip, task[o].seen.private) \subseteq past.opened[o]
  <2> PICK trip : trip = task[o].seen.ticket.trip
    OBVIOUS
  <2> PICK private : private = task[o].seen.private
    OBVIOUS
  <2>1. ShownIn(db', trip, private) \subseteq ShownIn(db, trip, private)
    BY ONLY Tighter(db, db', made), ShownShrinks
  <2>2. task[o].seen.ticket.items \cap ShownIn(db, trip, private) \subseteq past.opened[o]
    BY <1>2 DEF OpenedOK, At
  <2> QED
    BY <2>1, <2>2
<1> QED
  BY <1>1, <1>2 DEF OpenedOK, At, Req

Own(c) == SeenOK(c) /\ OpenedOK(c)

(* A step of one request, which makes links only as it ends.               *)
LEMMA StepKeeps ==
  ASSUME SInv, NEW c \in Clients, NEW s, NEW v, Moved(c, s, v), Making(c)' => Making(c),
         TablesOK(db)', TicketsOK', NEW made, Tighter(db, db', made),
         made = {} \/ (made = {Req(c).id} /\ Making(c) /\ s = "done"),
         Own(c)', DOMAIN past'.opened = Clients, \A o \in Clients \ {c} : past'.opened[o] = past.opened[o]
  PROVE  SInv'
<1>1. \A id \in made : Made(id)
  BY DEF Made
<1>2. \A o \in Clients : SeenOK(o)' /\ OpenedOK(o)'
  <2> TAKE o \in Clients
  <2>1. CASE o = c
    BY <2>1 DEF Own
  <2>2. CASE o # c
    <3>1. task'[o] = task[o] /\ \A id : Made(id)' => Made(id)
      BY <2>2, MadeShrinks DEF Moved
    <3>2. SeenOK(o) /\ OpenedOK(o) /\ TablesOK(db)
      BY DEF SInv
    <3> QED
      BY <1>1, <2>2, <3>1, <3>2, SeenKept, OpenedKept
  <2> QED
    BY <2>1, <2>2
<1>3. \A o \in Clients : Req(o)' = Req(o)
  BY DEF Moved, Req
<1>4. AsksOK'
  BY <1>3 DEF SInv, AsksOK, OneEach
<1>5. MakersOK'
  <2> SUFFICES ASSUME NEW o \in Clients, Making(o)' PROVE Req(o).id \notin DOMAIN db'.links
    BY <1>3 DEF MakersOK
  <2>1. Making(o)
    BY DEF Making, Moved, Req
  <2>2. Req(o).id \notin DOMAIN db.links
    BY <2>1 DEF SInv, MakersOK
  <2>3. Req(o).id \notin made
    <3>1. CASE made = {}
      BY <3>1
    <3>2. CASE made = {Req(c).id} /\ Making(c) /\ s = "done"
      <4>1. o # c
        BY <3>2 DEF Making, Moved
      <4>2. Req(o).id # Req(c).id
        BY <2>1, <3>2, <4>1 DEF SInv, AsksOK, OneEach, Making
      <4> QED
        BY <3>2, <4>2
    <3> QED
      BY <3>1, <3>2
  <2> QED
    BY <2>2, <2>3 DEF Tighter
<1> QED
  BY <1>2, <1>4, <1>5 DEF SInv

LEMMA EndedOwn ==
  ASSUME NEW c \in Clients, NEW s \in {"done", "refused"}, NEW v, Moved(c, s, v)
  PROVE  Own(c)' /\ ~Making(c)'
BY DEF Own, SeenOK, OpenedOK, Sharing, DocumentRead, PicturesRead, Holding, Listing, At, Making, Moved

(* Nothing that is about trips and links.                                  *)
Elsewhere(c) ==
  Req(c).op \notin {"sharedDocument", "sharedFile", "sharedDownload", "open", "createLink", "setHome"}

LEMMA ElsewhereOwn ==
  ASSUME NEW c \in Clients, NEW s, NEW v, Moved(c, s, v), Elsewhere(c)
  PROVE  Own(c)' /\ ~Making(c)'
<1>1. Req(c)' = Req(c)
  BY DEF Moved, Req
<1> QED
  BY <1>1 DEF Elsewhere, Own, SeenOK, OpenedOK, Sharing, DocumentRead, PicturesRead, Holding, Listing, At, Making

LEMMA TicketsStay ==
  ASSUME TicketsOK, NEW c \in Clients, NEW s, NEW v, Moved(c, s, v), Making(c)' => Making(c),
         \A k \in DOMAIN db'.tickets : k \in DOMAIN db.tickets /\ db'.tickets[k] = db.tickets[k]
  PROVE  TicketsOK'
<1>1. \A id : Made(id)' => Made(id)
  BY MadeShrinks
<1> QED
  BY <1>1 DEF TicketsOK

LEMMA TighterItself ==
  ASSUME NEW d, TablesOK(d)
  PROVE  Tighter(d, d, {})
BY DEF Tighter, TighterTrip, TighterLink, TablesOK

SameTrips(d, e) ==
  e.now = d.now /\ e.users = d.users /\ e.trips = d.trips /\ e.links = d.links /\ e.tickets = d.tickets

LEMMA SameTripsTighter ==
  ASSUME NEW d, NEW e, TablesOK(d), SameTrips(d, e)
  PROVE  TablesOK(e) /\ Tighter(d, e, {})
BY DEF SameTrips, Tighter, TighterTrip, TighterLink, TablesOK

(* The steps that leave the trips and the links alone.                     *)
LEMMA AsideKeeps ==
  ASSUME SInv, NEW c \in Clients, NEW s, NEW v, Moved(c, s, v), s \in {"done", "refused"} \/ Elsewhere(c),
         SameTrips(db, db'), past'.opened = past.opened
  PROVE  SInv'
<1>1. Own(c)' /\ ~Making(c)'
  BY EndedOwn, ElsewhereOwn
<1>2. TablesOK(db) /\ TicketsOK /\ DOMAIN past.opened = Clients
  BY DEF SInv
<1>3. TablesOK(db') /\ Tighter(db, db', {})
  BY ONLY <1>2, SameTrips(db, db'), SameTripsTighter
<1>4. TicketsOK'
  BY <1>1, <1>2, TicketsStay DEF SameTrips
<1> QED
  BY <1>1, <1>2, <1>3, <1>4, StepKeeps

(******************* steps on lists of ideas show nothing ******************)

Silent == past'.page = past.page

LEMMA TagTables ==
  ASSUME NEW d, DOMAIN d = Tables
  PROVE  /\ \A worn : SameTrips(d, [d EXCEPT !.worn = worn])
         /\ \A user, id, name, color : SameTrips(d, Lists!CreateTag(d, user, id, name, color))
         /\ \A id, set : SameTrips(d, Lists!UpdateTag(d, id, set))
         /\ \A gone : SameTrips(d, Lists!DeleteTags(d, gone))
<1>1. \A worn : SameTrips(d, [d EXCEPT !.worn = worn])
  BY DEF SameTrips, Tables
<1>2. \A user, id, name, color : SameTrips(d, Lists!CreateTag(d, user, id, name, color))
  BY DEF SameTrips, Tables, Lists!CreateTag
<1>3. \A id, set : SameTrips(d, Lists!UpdateTag(d, id, set))
  BY DEF SameTrips, Tables, Lists!UpdateTag
<1>4. \A gone : SameTrips(d, Lists!DeleteTags(d, gone))
  BY DEF SameTrips, Tables, Lists!DeleteTags
<1> QED
  BY <1>1, <1>2, <1>3, <1>4

LEMMA MemberTables ==
  ASSUME NEW d, DOMAIN d = Tables
  PROVE  /\ \A owner, user, role : SameTrips(d, Lists!Joined(d, owner, user, role))
         /\ \A owner, user, role : SameTrips(d, Lists!UpdateMember(d, owner, user, role))
         /\ \A owner, user : SameTrips(d, Lists!RemoveMember(d, owner, user))
<1>1. \A owner, user, role : SameTrips(d, Lists!Joined(d, owner, user, role))
  BY DEF SameTrips, Tables, Lists!Joined
<1>2. \A owner, user, role : SameTrips(d, Lists!UpdateMember(d, owner, user, role))
  BY DEF SameTrips, Tables, Lists!UpdateMember
<1>3. \A owner, user : SameTrips(d, Lists!RemoveMember(d, owner, user))
  BY DEF SameTrips, Tables, Lists!RemoveMember
<1> QED
  BY <1>1, <1>2, <1>3

LEMMA LogTables ==
  ASSUME NEW d, DOMAIN d = Tables
  PROVE  \A began, owner, id, title, actor, action :
           /\ SameTrips(d, Lists!logIdeaChange(d, began, owner, id, title, actor, action))
           /\ DOMAIN Lists!logIdeaChange(d, began, owner, id, title, actor, action) = Tables
BY DEF SameTrips, Tables, Lists!logIdeaChange

LEMMA SameTripsAgain ==
  ASSUME NEW d, NEW e, NEW f, SameTrips(d, e), SameTrips(e, f)
  PROVE  SameTrips(d, f)
BY DEF SameTrips

LEMMA IdeaTables ==
  ASSUME NEW d, DOMAIN d = Tables
  PROVE  /\ \A began, actor, id, idea : SameTrips(d, Lists!Create(d, began, actor, id, idea))
         /\ \A began, actor, id, idea : SameTrips(d, Lists!Update(d, began, actor, id, idea))
         /\ \A began, actor, id : SameTrips(d, Lists!Delete(d, began, actor, id))
<1>1. \A rows : SameTrips(d, [d EXCEPT !.ideas = rows]) /\ DOMAIN [d EXCEPT !.ideas = rows] = Tables
  BY DEF SameTrips, Tables
<1>2. \A rows, began, owner, id, title, actor, action :
        SameTrips(d, Lists!logIdeaChange([d EXCEPT !.ideas = rows], began, owner, id, title, actor, action))
  <2> TAKE rows, began, owner, id, title, actor, action
  <2> PICK e : e = [d EXCEPT !.ideas = rows]
    OBVIOUS
  <2>1. SameTrips(d, e) /\ DOMAIN e = Tables
    BY <1>1
  <2>2. SameTrips(e, Lists!logIdeaChange(e, began, owner, id, title, actor, action))
    BY ONLY <2>1, LogTables
  <2>3. SameTrips(d, Lists!logIdeaChange(e, began, owner, id, title, actor, action))
    BY <2>1, <2>2, SameTripsAgain
  <2> QED
    BY <2>3
<1>3. \A began, actor, id, idea : SameTrips(d, Lists!Create(d, began, actor, id, idea))
  <2> TAKE began, actor, id, idea
  <2>1. \E rows : Lists!Create(d, began, actor, id, idea) =
                    Lists!logIdeaChange([d EXCEPT !.ideas = rows], began, idea.owner, id, idea.title, actor, "created")
    BY DEF Lists!Create
  <2> QED
    BY <1>2, <2>1
<1>4. \A began, actor, id, idea : SameTrips(d, Lists!Update(d, began, actor, id, idea))
  <2> TAKE began, actor, id, idea
  <2>1. PICK rows : rows = [d.ideas EXCEPT ![id] = Lists!Changed(d.ideas[id], actor, idea)]
    OBVIOUS
  <2>2. [d EXCEPT !.ideas[id] = Lists!Changed(d.ideas[id], actor, idea)] = [d EXCEPT !.ideas = rows]
    BY <2>1
  <2>3. Lists!Update(d, began, actor, id, idea) =
          Lists!logIdeaChange([d EXCEPT !.ideas = rows], began, d.ideas[id].owner, id, idea.title, actor, "updated")
    BY <2>2 DEF Lists!Update
  <2> QED
    BY <1>2, <2>3
<1>5. \A began, actor, id : SameTrips(d, Lists!Delete(d, began, actor, id))
  <2> TAKE began, actor, id
  <2> PICK e : e = Lists!logIdeaChange(d, began, d.ideas[id].owner, id, d.ideas[id].title, actor, "deleted")
    OBVIOUS
  <2>1. SameTrips(d, e) /\ DOMAIN e = Tables
    BY LogTables
  <2>2. SameTrips(e, Lists!Forget(e, {id}))
    BY <2>1 DEF SameTrips, Tables, Lists!Forget
  <2>3. Lists!Delete(d, began, actor, id) = Lists!Forget(e, {id})
    BY DEF Lists!Delete
  <2> QED
    BY <2>1, <2>2, <2>3, SameTripsAgain
<1> QED
  BY <1>3, <1>4, <1>5

LEMMA InviteTables ==
  ASSUME NEW d, DOMAIN d = Tables
  PROVE  /\ \A owner, email, now, id, invite :
              SameTrips(d, Lists!CreateIdeaInvitation(Lists!closeExpired(d, owner, email, now), id, invite))
         /\ \A id : SameTrips(d, Lists!Revoke(d, id))
         /\ \A id, user : SameTrips(d, Lists!Spend(d, id, user))
<1>1. \A rows : SameTrips(d, [d EXCEPT !.invites = rows]) /\ DOMAIN [d EXCEPT !.invites = rows] = Tables
  BY DEF SameTrips, Tables
<1>2. \A id : SameTrips(d, Lists!Revoke(d, id))
  BY DEF SameTrips, Tables, Lists!Revoke
<1>3. \A id, user : SameTrips(d, Lists!Spend(d, id, user))
  <2> TAKE id, user
  <2> PICK e : e = Lists!Joined(d, d.invites[id].owner, user, d.invites[id].role)
    OBVIOUS
  <2>1. SameTrips(d, e)
    BY MemberTables
  <2>2. DOMAIN e = Tables
    BY DEF Lists!Joined
  <2>3. SameTrips(e, [e EXCEPT !.invites[id].state = "accepted", !.invites[id].by = user])
    BY <2>2 DEF SameTrips, Tables
  <2>4. SameTrips(e, Lists!Spend(d, id, user))
    BY <2>3 DEF Lists!Spend
  <2> QED
    BY <2>1, <2>4, SameTripsAgain
<1>4. \A owner, email, now, id, invite :
        SameTrips(d, Lists!CreateIdeaInvitation(Lists!closeExpired(d, owner, email, now), id, invite))
  <2> TAKE owner, email, now, id, invite
  <2> PICK e : e = Lists!closeExpired(d, owner, email, now)
    OBVIOUS
  <2>1. \E rows : e = [d EXCEPT !.invites = rows]
    BY DEF Lists!closeExpired
  <2>2. SameTrips(d, e) /\ DOMAIN e = Tables
    BY <1>1, <2>1
  <2>3. SameTrips(e, Lists!CreateIdeaInvitation(e, id, invite))
    BY <2>2 DEF SameTrips, Tables, Lists!CreateIdeaInvitation
  <2> QED
    BY <2>2, <2>3, SameTripsAgain
<1> QED
  BY <1>2, <1>3, <1>4

LEMMA RefusedSafe ==
  ASSUME Shaped, SInv, NEW c \in Clients, Refused(c)
  PROVE  SInv' /\ Silent
<1>1. Moved(c, "refused", task[c].seen)
  BY GoesMoved DEF Refused, Moves
<1>2. SameTrips(db, db') /\ past' = past
  BY DEF Refused, SameTrips
<1> QED
  BY <1>1, <1>2, AsideKeeps DEF Silent

LEMMA ContinuesSafe ==
  ASSUME Shaped, SInv, NEW c \in Clients, NEW s, NEW v, Continues(c, s, v), s = "done" \/ Elsewhere(c)
  PROVE  SInv' /\ Silent
<1>1. Moved(c, s, v)
  BY GoesMoved DEF Continues
<1>2. SameTrips(db, db') /\ past' = past
  BY DEF Continues, SameTrips
<1> QED
  BY <1>1, <1>2, AsideKeeps DEF Silent

LEMMA EndsSafe ==
  ASSUME Shaped, SInv, NEW c \in Clients, Moves(c, "done"), SameTrips(db, db'), past'.opened = past.opened, Silent
  PROVE  SInv' /\ Silent
<1>1. Moved(c, "done", task[c].seen)
  BY GoesMoved DEF Moves
<1> QED
  BY <1>1, AsideKeeps

LEMMA WritesSafe ==
  ASSUME Shaped, SInv, NEW c \in Clients, NEW rows, Writes(c, rows), SameTrips(db, rows)
  PROVE  SInv' /\ Silent
<1>1. Moves(c, "done") /\ SameTrips(db, db') /\ past' = past
  BY DEF Writes
<1> QED
  BY <1>1, EndsSafe DEF Silent

LEMMA ideasSafe ==
  ASSUME Shaped, SInv, NEW c \in Clients,
         \/ ideaFor(c) \/ lockEditableIdea(c) \/ handleUpdateIdea(c) \/ handleDeleteIdea(c)
         \/ createAllowed(c) \/ createEditor(c) \/ handleCreateIdea(c)
  PROVE  SInv' /\ Silent
<1>t. DOMAIN db = Tables /\ DOMAIN past = Pasts
  BY DEF Shaped
<1>1. CASE Refused(c)
  BY <1>1, RefusedSafe
<1>2. CASE ideaFor(c) /\ ~Refused(c)
  <2>1. PICK s, v : Continues(c, s, v) /\ Req(c).op \in DOMAIN IdeaOps
    BY <1>2 DEF ideaFor
  <2>2. Elsewhere(c)
    BY <2>1 DEF IdeaOps, Elsewhere
  <2> QED
    BY <2>1, <2>2, ContinuesSafe
<1>3. CASE createAllowed(c) /\ ~Refused(c)
  <2>1. Continues(c, "write", None) /\ Elsewhere(c)
    BY <1>3 DEF createAllowed, At, Elsewhere
  <2> QED
    BY <2>1, ContinuesSafe
<1>4. CASE (lockEditableIdea(c) \/ createEditor(c)) /\ ~Refused(c)
  <2>1. PICK s : Begins(c, s) /\ Elsewhere(c)
    BY <1>4 DEF lockEditableIdea, createEditor, At, Elsewhere
  <2>2. SameTrips(db, db') /\ past' = past
    BY <1>t, <2>1 DEF Begins, SameTrips, Tables
  <2>3. Moved(c, s, db.began + 1)
    BY <2>1, GoesMoved DEF Begins
  <2> QED
    BY <2>1, <2>2, <2>3, AsideKeeps DEF Silent
<1>5. CASE handleUpdateIdea(c) /\ ~Refused(c)
  <2>1. /\ db' = Lists!Update(db, task[c].seen, By(c), Req(c).id, Notes!Normalize(Req(c).idea)) /\ Moves(c, "done")
        /\ past' = [past EXCEPT !.written = @ \cup {[idea |-> Req(c).id, began |-> task[c].seen]},
                                !.overtaken = IF Overtaken(c) THEN @ \cup {Req(c).id} ELSE @ \ {Req(c).id}]
    BY <1>5 DEF handleUpdateIdea
  <2>2. SameTrips(db, db')
    BY <1>t, <2>1, IdeaTables
  <2>3. past'.opened = past.opened /\ Silent
    BY <1>t, <2>1 DEF Pasts, Silent
  <2> QED
    BY <2>1, <2>2, <2>3, EndsSafe
<1>6. CASE (handleDeleteIdea(c) \/ handleCreateIdea(c)) /\ ~Refused(c)
  <2>1. PICK rows : Writes(c, rows) /\ SameTrips(db, rows)
    BY <1>t, <1>6, IdeaTables DEF handleDeleteIdea, handleCreateIdea
  <2> QED
    BY <2>1, WritesSafe
<1> QED
  BY <1>1, <1>2, <1>3, <1>4, <1>5, <1>6

LEMMA tagsSafe ==
  ASSUME Shaped, SInv, NEW c \in Clients,
         \/ tagsReader(c) \/ tagsCleared(c) \/ handleSetIdeaTags(c) \/ handleSetTripTags(c)
         \/ handleCreateTag(c) \/ handleUpdateTag(c) \/ handleDeleteTag(c)
  PROVE  SInv' /\ Silent
<1>t. DOMAIN db = Tables
  BY DEF Shaped
<1>1. CASE Refused(c)
  BY <1>1, RefusedSafe
<1>2. CASE (tagsReader(c) \/ tagsCleared(c)) /\ ~Refused(c)
  <2>1. PICK s, v : Continues(c, s, v) /\ Elsewhere(c)
    BY <1>2 DEF tagsReader, tagsCleared, Elsewhere
  <2> QED
    BY <2>1, ContinuesSafe
<1>3. ASSUME NEW op, NEW things, SetTags(c, op, things), ~Refused(c) PROVE SInv' /\ Silent
  <2>1. PICK worn : Writes(c, [db EXCEPT !.worn = worn])
    BY <1>3 DEF SetTags
  <2>2. SameTrips(db, [db EXCEPT !.worn = worn])
    BY <1>t, TagTables
  <2> QED
    BY <2>1, <2>2, WritesSafe
<1>4. CASE (handleSetIdeaTags(c) \/ handleSetTripTags(c)) /\ ~Refused(c)
  BY <1>3, <1>4 DEF handleSetIdeaTags, handleSetTripTags
<1>5. CASE (handleCreateTag(c) \/ handleUpdateTag(c) \/ handleDeleteTag(c)) /\ ~Refused(c)
  <2>1. PICK rows : Writes(c, rows) /\ SameTrips(db, rows)
    BY <1>t, <1>5, TagTables DEF handleCreateTag, handleUpdateTag, handleDeleteTag
  <2> QED
    BY <2>1, WritesSafe
<1> QED
  BY <1>1, <1>2, <1>4, <1>5

LEMMA membersSafe ==
  ASSUME Shaped, SInv, NEW c \in Clients,
         handleAddIdeaMember(c) \/ handleUpdateIdeaMember(c) \/ handleRemoveIdeaMember(c) \/ handleLeaveIdeaList(c)
  PROVE  SInv' /\ Silent
<1>t. DOMAIN db = Tables /\ DOMAIN past = Pasts
  BY DEF Shaped
<1>1. CASE Refused(c)
  BY <1>1, RefusedSafe
<1>2. CASE (handleAddIdeaMember(c) \/ handleUpdateIdeaMember(c)) /\ ~Refused(c)
  <2>1. PICK rows : Writes(c, rows) /\ SameTrips(db, rows)
    BY <1>t, <1>2, MemberTables DEF handleAddIdeaMember, handleUpdateIdeaMember
  <2> QED
    BY <2>1, WritesSafe
<1>3. ASSUME NEW op, NEW owner, NEW user, RemoveMember(c, op, owner, user), ~Refused(c) PROVE SInv' /\ Silent
  <2>1. /\ db' = Lists!RemoveMember(db, owner, user) /\ Moves(c, "done")
        /\ past' = [past EXCEPT !.raced = @ \cup Tagging(owner, user)]
    BY <1>3 DEF RemoveMember
  <2>2. SameTrips(db, db')
    BY <1>t, <2>1, MemberTables
  <2>3. past'.opened = past.opened /\ Silent
    BY <1>t, <2>1 DEF Pasts, Silent
  <2> QED
    BY <2>1, <2>2, <2>3, EndsSafe
<1> QED
  BY <1>1, <1>2, <1>3 DEF handleRemoveIdeaMember, handleLeaveIdeaList

LEMMA invitationsSafe ==
  ASSUME Shaped, SInv, NEW c \in Clients,
         \/ invitee(c) \/ acceptor(c) \/ handlePreviewIdeaInvitation(c)
         \/ handleCreateIdeaInvitation(c) \/ handleRevokeIdeaInvitation(c) \/ handleAcceptIdeaInvitation(c)
  PROVE  SInv' /\ Silent
<1>t. DOMAIN db = Tables /\ DOMAIN past = Pasts
  BY DEF Shaped
<1>1. CASE Refused(c)
  BY <1>1, RefusedSafe
<1>2. CASE (invitee(c) \/ acceptor(c) \/ handlePreviewIdeaInvitation(c)) /\ ~Refused(c)
  <2>1. PICK s, v : Continues(c, s, v) /\ Elsewhere(c)
    BY <1>2 DEF invitee, acceptor, handlePreviewIdeaInvitation, At, Elsewhere
  <2> QED
    BY <2>1, ContinuesSafe
<1>3. CASE (handleCreateIdeaInvitation(c) \/ handleRevokeIdeaInvitation(c)) /\ ~Refused(c)
  <2>1. PICK rows : Writes(c, rows) /\ SameTrips(db, rows)
    BY <1>t, <1>3, InviteTables DEF handleCreateIdeaInvitation, handleRevokeIdeaInvitation
  <2> QED
    BY <2>1, WritesSafe
<1>4. CASE handleAcceptIdeaInvitation(c) /\ ~Refused(c)
  <2>1. Joins(c, Lists!Spend(db, Req(c).id, By(c)), By(c))
    BY <1>4 DEF handleAcceptIdeaInvitation
  <2>2. SameTrips(db, db') /\ Moves(c, "done")
    BY <1>t, <2>1, InviteTables DEF Joins
  <2>3. past'.opened = past.opened /\ Silent
    BY <1>t, <2>1 DEF Joins, Pasts, Silent
  <2> QED
    BY <2>2, <2>3, EndsSafe
<1> QED
  BY <1>1, <1>2, <1>3, <1>4

(********************** accounts and homes on the trips ********************)

LEMMA DroppedTighter ==
  ASSUME NEW d, NEW e, NEW user, TablesOK(d), Dropped(d, e, user), \A t \in DOMAIN d.trips : d.trips[t].owner # user
  PROVE  TablesOK(e) /\ Tighter(d, e, {}) /\ e.tickets = d.tickets
<1>1. \A u \in DOMAIN e.users : u \in DOMAIN d.users /\ e.users[u] = d.users[u]
  BY DEF Dropped, DroppedRows
<1>2. /\ e.now = d.now /\ e.links = d.links /\ e.tickets = d.tickets /\ DOMAIN e.users = DOMAIN d.users \ {user}
      /\ e.trips = [t \in DOMAIN d.trips |-> [d.trips[t] EXCEPT !.members = @ \ {user}]]
  BY DEF Dropped, DroppedTrips
<1>3. \A t \in DOMAIN d.trips : DOMAIN d.trips[t] = {"owner", "members", "source", "doc", "pictures"}
  BY DEF TablesOK, TripOK
<1>4. \A t \in DOMAIN d.trips :
        /\ DOMAIN e.trips[t] = DOMAIN d.trips[t] /\ e.trips[t].owner = d.trips[t].owner
        /\ e.trips[t].members = d.trips[t].members \ {user} /\ e.trips[t].doc = d.trips[t].doc
        /\ e.trips[t].pictures = d.trips[t].pictures
  BY <1>2, <1>3
<1>5. DOMAIN e.trips = DOMAIN d.trips
  BY <1>2
<1>6. ASSUME NEW t \in DOMAIN e.trips PROVE TripOK(e.users, e.trips[t])
  <2> PICK old : old = d.trips[t]
    OBVIOUS
  <2> PICK new : new = e.trips[t]
    OBVIOUS
  <2>1. TripOK(d.users, old)
    BY <1>5 DEF TablesOK
  <2>2. /\ DOMAIN new = DOMAIN old /\ new.owner = old.owner /\ new.members = old.members \ {user}
        /\ new.doc = old.doc /\ new.pictures = old.pictures /\ old.owner # user
    BY <1>4, <1>5
  <2>3. new.owner \in DOMAIN e.users /\ new.members \subseteq DOMAIN e.users
    BY <1>2, <2>1, <2>2 DEF TripOK
  <2>4. ~e.users[new.owner].unverified
    BY <1>1, <2>1, <2>2, <2>3 DEF TripOK
  <2> QED
    BY <2>1, <2>2, <2>3, <2>4 DEF TripOK
<1>7. TablesOK(e)
  BY <1>1, <1>2, <1>6 DEF TablesOK
<1>8. \A t \in DOMAIN e.trips :
        /\ t \in DOMAIN d.trips /\ TighterTrip(d.trips[t], e.trips[t])
        /\ \A u \in {e.trips[t].owner} \cup e.trips[t].members : e.users[u].active => d.users[u].active
  <2> TAKE t \in DOMAIN e.trips
  <2>1. {e.trips[t].owner} \cup e.trips[t].members \subseteq DOMAIN e.users
    BY <1>6 DEF TripOK
  <2> QED
    BY <1>1, <1>4, <1>5, <2>1 DEF TighterTrip
<1>9. d.now <= e.now
  BY <1>2 DEF TablesOK
<1>10. \A l \in DOMAIN e.links : l \in DOMAIN d.links /\ TighterLink(d.links[l], e.links[l])
  <2>1. e.links = d.links
    BY <1>2
  <2> QED
    BY ONLY <2>1 DEF TighterLink
<1>11. Tighter(d, e, {})
  BY ONLY <1>8, <1>9, <1>10 DEF Tighter
<1> QED
  BY <1>2, <1>7, <1>11

LEMMA TightEnds ==
  ASSUME Shaped, SInv, NEW c \in Clients, Moves(c, "done"), TablesOK(db'), Tighter(db, db', {}),
         \A k \in DOMAIN db'.tickets : k \in DOMAIN db.tickets /\ db'.tickets[k] = db.tickets[k],
         past'.opened = past.opened
  PROVE  SInv'
<1>1. Moved(c, "done", task[c].seen)
  BY GoesMoved DEF Moves
<1>2. Own(c)' /\ ~Making(c)'
  BY <1>1, EndedOwn
<1>3. TicketsOK /\ DOMAIN past.opened = Clients
  BY DEF SInv
<1>4. TicketsOK'
  BY <1>1, <1>2, <1>3, TicketsStay
<1> QED
  BY <1>1, <1>2, <1>3, <1>4, StepKeeps

LEMMA deleteMeSafe ==
  ASSUME IInv, SInv, NEW c \in Clients, handleDeleteMe(c)
  PROVE  SInv' /\ Silent
<1>1. CASE Refused(c)
  BY <1>1, RefusedSafe DEF IInv
<1>2. CASE ~Refused(c)
  <2> PICK user : user = By(c)
    OBVIOUS
  <2>1. Writes(c, Lists!DropUser(db, user)) /\ \A t \in DOMAIN db.trips : db.trips[t].owner # user
    BY <1>2 DEF handleDeleteMe
  <2>2. Dropped(db, Lists!DropUser(db, user), user)
    BY DropUserDrops DEF IInv, Shaped, IdeasInv, RowsOK
  <2>3. Moves(c, "done") /\ past' = past /\ Dropped(db, db', user)
    BY <2>1, <2>2 DEF Writes
  <2>4. TablesOK(db') /\ Tighter(db, db', {}) /\ db'.tickets = db.tickets
    BY <2>1, <2>3, DroppedTighter DEF SInv
  <2> QED
    BY <2>3, <2>4, TightEnds DEF IInv, Silent
<1> QED
  BY <1>1, <1>2

(* One account more, with no home and on no trip.                          *)
LEMMA UserAddedTighter ==
  ASSUME NEW d, TablesOK(d), NEW e, TablesOK(e), Tighter(d, e, {}), NEW user, NEW row, row.home = None,
         NEW made, Added(e.users, user, row, made.users),
         made.now = e.now /\ made.trips = e.trips /\ made.links = e.links
  PROVE  TablesOK(made) /\ Tighter(d, made, {})
<1> PICK users : users = made.users
  OBVIOUS
<1>1. /\ \A u \in DOMAIN e.users : u \in DOMAIN users /\ users[u] = e.users[u]
      /\ \A u \in DOMAIN users : u \in DOMAIN e.users \/ users[u] = row
  BY DEF Added
<1>2. \A u \in DOMAIN users : HomeOK(users[u].home)
  BY <1>1 DEF TablesOK, HomeOK
<1>3. \A t \in DOMAIN e.trips : TripOK(e.users, e.trips[t])
  BY DEF TablesOK
<1>4. \A t \in DOMAIN e.trips : TripOK(users, e.trips[t])
  BY <1>1, <1>3 DEF TripOK
<1>5. TablesOK(made)
  BY <1>2, <1>4 DEF TablesOK
<1>6. \A t \in DOMAIN e.trips : \A u \in {e.trips[t].owner} \cup e.trips[t].members : users[u] = e.users[u]
  BY <1>1, <1>3 DEF TripOK
<1>7. Tighter(d, made, {})
  BY <1>6 DEF Tighter
<1> QED
  BY <1>5, <1>7

LEMMA registerSafe ==
  ASSUME IInv, SInv, NEW c \in Clients, handleRegisterIdeaInvitation(c)
  PROVE  SInv' /\ Silent
<1>1. CASE Refused(c)
  BY <1>1, RefusedSafe DEF IInv
<1>2. CASE ~Refused(c)
  <2> PICK id : id = Req(c).id
    OBVIOUS
  <2> PICK user : user = Req(c).new
    OBVIOUS
  <2> PICK email : email = db.invites[id].email
    OBVIOUS
  <2>r. PICK row : row = [email |-> email, active |-> TRUE, unverified |-> FALSE, home |-> None]
    OBVIOUS
  <2>e. PICK e : e = Lists!dropUnverified(db, email)
    OBVIOUS
  <2>m. PICK made : made = [e EXCEPT !.users = Lists!Add(@, user, row)]
    OBVIOUS
  <2>1. Joins(c, Lists!Spend(made, id, user), user)
    BY <1>2, <2>r, <2>e, <2>m DEF handleRegisterIdeaInvitation
  <2>t. TablesOK(db) /\ DOMAIN db = Tables
    BY DEF SInv, IInv, Shaped
  <2>2. DOMAIN e = Tables /\ TablesOK(e) /\ Tighter(db, e, {}) /\ e.tickets = db.tickets
    <3>1. CASE e = db
      BY <2>t, <3>1, TighterItself
    <3>2. ASSUME NEW u \in DOMAIN db.users, db.users[u].unverified, e = Lists!DropUser(db, u)
          PROVE  DOMAIN e = Tables /\ TablesOK(e) /\ Tighter(db, e, {}) /\ e.tickets = db.tickets
      <4>1. Dropped(db, Lists!DropUser(db, u), u)
        BY DropUserDrops DEF IInv, Shaped, IdeasInv, RowsOK
      <4>2. Dropped(db, e, u)
        BY <3>2, <4>1
      <4>3. \A t \in DOMAIN db.trips : db.trips[t].owner # u
        BY <2>t, <3>2 DEF TablesOK, TripOK
      <4> QED
        BY <2>t, <4>2, <4>3, DroppedTighter DEF Dropped, DroppedRows
    <3> QED
      BY <2>e, <3>1, <3>2, dropUnverifiedDrops
  <2>3. /\ DOMAIN made = Tables /\ made.users = Lists!Add(e.users, user, row)
        /\ \A t \in Tables \ {"users"} : made[t] = e[t]
    BY <2>2, <2>m DEF Tables
  <2>4. made.now = e.now /\ made.trips = e.trips /\ made.links = e.links /\ made.tickets = e.tickets
    BY <2>3 DEF Tables
  <2>5. Added(e.users, user, row, made.users)
    <3>1. Added(e.users, user, row, Lists!Add(e.users, user, row))
      BY ONLY AddRows
    <3> QED
      BY <2>3, <3>1
  <2>6. TablesOK(made) /\ Tighter(db, made, {})
    <3>1. row.home = None
      BY <2>r
    <3> QED
      BY ONLY <2>t, <2>2, <2>4, <2>5, <3>1, UserAddedTighter
  <2>7. SameTrips(made, Lists!Spend(made, id, user))
    BY <2>3, InviteTables
  <2>8. Moves(c, "done") /\ SameTrips(made, db')
    BY <2>1, <2>7 DEF Joins
  <2>9. past'.opened = past.opened /\ Silent
    BY <2>1 DEF Joins, IInv, Shaped, Pasts, Silent
  <2>10. TablesOK(db') /\ Tighter(db, db', {}) /\ db'.tickets = db.tickets
    BY <2>2, <2>4, <2>6, <2>8 DEF SameTrips, TablesOK, Tighter
  <2> QED
    BY <2>8, <2>9, <2>10, TightEnds DEF IInv
<1> QED
  BY <1>1, <1>2

(* A request that reads, and goes on with what it has read.                *)
LEMMA ReadsSafe ==
  ASSUME Shaped, SInv, NEW c \in Clients, NEW s, NEW v, Continues(c, s, v), Own(c)', Making(c)' => Making(c)
  PROVE  SInv' /\ Silent
<1>1. Moved(c, s, v) /\ db' = db /\ past' = past
  BY GoesMoved DEF Continues
<1>2. TablesOK(db) /\ TicketsOK /\ DOMAIN past.opened = Clients
  BY DEF SInv
<1>3. TablesOK(db') /\ Tighter(db, db', {})
  BY <1>1, <1>2, TighterItself
<1>4. TicketsOK'
  BY <1>1, <1>2, TicketsStay
<1>5. SInv'
  BY <1>1, <1>2, <1>3, <1>4, StepKeeps
<1> QED
  BY <1>1, <1>5 DEF Silent

LEMMA NewHomeOK ==
  ASSUME NEW h \in Int, NEW r, View!ValidHome(h, r), NEW home \in View!NewHomeZone(h, r)
  PROVE  HomeOK(home)
<1>1. r \in Nat
  BY RadiiAssumption DEF RadiiAssumption, View!ValidHome
<1>2. r \div 2 \in Nat /\ r \div 2 <= r
  BY <1>1
<1>3. PICK moved \in -(r \div 2)..(r \div 2) : home = [home |-> h, center |-> h + moved, radius |-> r]
  BY DEF View!NewHomeZone
<1>4. moved \in Int /\ -r <= moved /\ moved <= r
  BY <1>1, <1>2, <1>3
<1>5. home.home = h /\ home.center = h + moved /\ home.radius = r
  BY <1>3
<1>6. View!greatCircle(home.center, home.home) <= home.radius
  BY <1>1, <1>4, <1>5 DEF View!greatCircle
<1>7. home \in [home : Int, center : Int, radius : Int]
  BY <1>1, <1>3, <1>4
<1> QED
  BY <1>6, <1>7 DEF HomeOK, View!InZone

LEMMA HomeTables ==
  ASSUME NEW d, TablesOK(d), DOMAIN d = Tables, NEW u \in DOMAIN d.users, Account(d.users[u]), NEW home, HomeOK(home),
         NEW e, e = [d EXCEPT !.users[u].home = home]
  PROVE  TablesOK(e) /\ Tighter(d, e, {}) /\ e.tickets = d.tickets
<1>1. /\ e.users = [d.users EXCEPT ![u].home = home] /\ e.now = d.now /\ e.trips = d.trips /\ e.links = d.links
      /\ e.tickets = d.tickets
  BY DEF Tables
<1>2. PICK users : users = e.users
  OBVIOUS
<1>3. DOMAIN users = DOMAIN d.users /\ \A v \in DOMAIN users : v # u => users[v] = d.users[v]
  BY ONLY <1>1, <1>2
<1>4. users[u].home = home /\ users[u].active = d.users[u].active /\ users[u].unverified = d.users[u].unverified
  BY <1>1, <1>2 DEF Account
<1>5. \A v \in DOMAIN users : HomeOK(users[v].home)
  BY <1>3, <1>4 DEF TablesOK
<1>6. \A v \in DOMAIN users : users[v].active = d.users[v].active /\ users[v].unverified = d.users[v].unverified
  BY <1>3, <1>4
<1>7. \A t \in DOMAIN d.trips : TripOK(d.users, d.trips[t])
  BY DEF TablesOK
<1>8. \A t \in DOMAIN d.trips : TripOK(users, d.trips[t])
  BY ONLY <1>3, <1>6, <1>7 DEF TripOK
<1>9. TablesOK(e)
  BY <1>1, <1>2, <1>5, <1>8 DEF TablesOK
<1>10. \A t \in DOMAIN d.trips : \A v \in {d.trips[t].owner} \cup d.trips[t].members : users[v].active => d.users[v].active
  BY <1>3, <1>6, <1>7 DEF TripOK
<1>11. \A t \in DOMAIN d.trips : TighterTrip(d.trips[t], d.trips[t])
  BY DEF TighterTrip
<1>12. d.now <= d.now /\ \A l \in DOMAIN d.links : TighterLink(d.links[l], d.links[l])
  BY DEF TighterLink, TablesOK
<1>13. Tighter(d, e, {})
  BY ONLY <1>1, <1>2, <1>10, <1>11, <1>12 DEF Tighter
<1> QED
  BY <1>1, <1>9, <1>13

LEMMA homesSafe ==
  ASSUME IInv, SInv, NEW c \in Clients, homeBody(c) \/ handleSetHome(c) \/ handleDeleteHome(c)
  PROVE  SInv' /\ Silent
<1>1. CASE Refused(c)
  BY <1>1, RefusedSafe DEF IInv
<1>2. CASE homeBody(c) /\ ~Refused(c)
  <2>1. PICK s : Continues(c, s, None)
    BY <1>2 DEF homeBody
  <2>2. Moved(c, s, None) /\ Req(c).op = "setHome" /\ View!ValidHome(Req(c).home, Req(c).radius)
    BY <1>2, <2>1, GoesMoved DEF homeBody, At, Continues, IInv
  <2>3. Own(c)' /\ ~Making(c)'
    BY <2>2 DEF Own, SeenOK, OpenedOK, Sharing, DocumentRead, PicturesRead, Holding, Listing, At, Making, Moved, Req
  <2> QED
    BY <2>1, <2>3, ReadsSafe DEF IInv
<1>3. ASSUME NEW home, HomeOK(home), SetHome(c, home), ~Refused(c) PROVE SInv' /\ Silent
  <2>1. By(c) \in DOMAIN db.users /\ Writes(c, [db EXCEPT !.users[By(c)].home = home])
    BY <1>3 DEF SetHome
  <2>2. DOMAIN db = Tables /\ Account(db.users[By(c)]) /\ TablesOK(db)
    BY <2>1 DEF IInv, Shaped, AddressesDiffer, SInv
  <2>3. db' = [db EXCEPT !.users[By(c)].home = home] /\ Moves(c, "done") /\ past' = past
    BY <2>1 DEF Writes
  <2> PICK u : u = By(c)
    OBVIOUS
  <2>4. TablesOK(db') /\ Tighter(db, db', {}) /\ db'.tickets = db.tickets
    <3>1. u \in DOMAIN db.users /\ Account(db.users[u]) /\ HomeOK(home) /\ db' = [db EXCEPT !.users[u].home = home]
      BY <1>3, <2>1, <2>2, <2>3
    <3> QED
      BY ONLY <2>2, <3>1, HomeTables
  <2> QED
    BY <2>3, <2>4, TightEnds DEF IInv, Silent
<1>4. CASE handleSetHome(c) /\ ~Refused(c)
  <2>1. PICK home \in View!NewHomeZone(Req(c).home, Req(c).radius) : SetHome(c, home)
    BY <1>4 DEF handleSetHome
  <2>2. Req(c).home \in Int /\ View!ValidHome(Req(c).home, Req(c).radius)
    BY <1>4 DEF handleSetHome, At, SInv, SeenOK, AsksOK
  <2>3. HomeOK(home)
    BY <2>1, <2>2, NewHomeOK
  <2> QED
    BY <1>3, <1>4, <2>1, <2>3
<1>5. CASE handleDeleteHome(c) /\ ~Refused(c)
  BY <1>3, <1>5 DEF handleDeleteHome, HomeOK
<1> QED
  BY <1>1, <1>2, <1>4, <1>5

(*********************** links, and what is on a trip **********************)

LEMMA LinksTighter ==
  ASSUME NEW d, NEW e, TablesOK(d), e.now = d.now, e.users = d.users, e.trips = d.trips, NEW made,
         \A l \in DOMAIN e.links :
           SoundLink(e.links[l]) /\ (l \in made \/ (l \in DOMAIN d.links /\ TighterLink(d.links[l], e.links[l])))
  PROVE  TablesOK(e) /\ Tighter(d, e, made)
<1>1. \A t \in DOMAIN d.trips : TighterTrip(d.trips[t], d.trips[t])
  BY DEF TighterTrip
<1> QED
  BY <1>1 DEF Tighter, TablesOK

LEMMA TripsTighter ==
  ASSUME NEW d, NEW e, TablesOK(d), e.now = d.now, e.users = d.users,
         \A t \in DOMAIN e.trips : t \in DOMAIN d.trips /\ TripOK(d.users, e.trips[t]) /\ TighterTrip(d.trips[t], e.trips[t]),
         \A l \in DOMAIN e.links : l \in DOMAIN d.links /\ e.links[l] = d.links[l]
  PROVE  TablesOK(e) /\ Tighter(d, e, {})
<1>1. \A l \in DOMAIN e.links : SoundLink(e.links[l]) /\ TighterLink(d.links[l], e.links[l])
  BY DEF TablesOK, TighterLink
<1> QED
  BY <1>1 DEF Tighter, TablesOK

LEMMA linksSafe ==
  ASSUME IInv, SInv, NEW c \in Clients,
         managesLinks(c) \/ handleCreateShareLink(c) \/ handleRevokeShareLink(c) \/ handleShared(c)
  PROVE  SInv' /\ Silent
<1>t. DOMAIN db = Tables /\ Shaped /\ TablesOK(db)
  BY DEF IInv, Shaped, SInv
<1>1. CASE Refused(c)
  BY <1>1, <1>t, RefusedSafe
<1>2. CASE managesLinks(c) /\ ~Refused(c)
  <2>1. Continues(c, "insert", None) /\ Req(c).op = "createLink" /\ task[c].step = "new"
    BY <1>2 DEF managesLinks, At
  <2>2. Moved(c, "insert", None)
    BY <1>t, <2>1, GoesMoved DEF Continues
  <2>3. Own(c)' /\ Making(c)
    BY <2>1, <2>2 DEF Own, SeenOK, OpenedOK, Sharing, DocumentRead, PicturesRead, Holding, Listing, At, Making, Moved, Req
  <2> QED
    BY <1>t, <2>1, <2>3, ReadsSafe
<1>3. CASE handleCreateShareLink(c) /\ ~Refused(c)
  <2> PICK id : id = Req(c).id
    OBVIOUS
  <2> PICK link : link = Req(c).link
    OBVIOUS
  <2>1. Writes(c, [db EXCEPT !.links = Lists!Add(@, id, link)]) /\ Making(c)
    BY <1>3 DEF handleCreateShareLink, At, Making
  <2>2. SoundLink(link) /\ id \notin DOMAIN db.links
    BY <2>1 DEF SInv, AsksOK, MakersOK, Making
  <2>3. /\ db'.links = Lists!Add(db.links, id, link) /\ db'.now = db.now /\ db'.users = db.users /\ db'.trips = db.trips
        /\ db'.tickets = db.tickets /\ past' = past
    BY <1>t, <2>1 DEF Writes, Tables
  <2>4. Added(db.links, id, link, db'.links)
    <3>1. Added(db.links, id, link, Lists!Add(db.links, id, link))
      BY ONLY AddRows
    <3> QED
      BY <2>3, <3>1
  <2>5. \A l \in DOMAIN db'.links :
          SoundLink(db'.links[l]) /\ (l \in {id} \/ (l \in DOMAIN db.links /\ TighterLink(db.links[l], db'.links[l])))
    BY <1>t, <2>2, <2>4 DEF Added, TablesOK, TighterLink
  <2>6. TablesOK(db') /\ Tighter(db, db', {id})
    BY ONLY <1>t, <2>3, <2>5, LinksTighter
  <2>7. Moved(c, "done", task[c].seen)
    BY <1>t, <2>1, GoesMoved DEF Writes, Moves
  <2>8. Own(c)' /\ ~Making(c)'
    BY <2>7, EndedOwn
  <2>9. TicketsOK' /\ DOMAIN past.opened = Clients
    BY <2>3, <2>7, <2>8, TicketsStay DEF SInv
  <2>10. SInv'
    BY <2>1, <2>3, <2>6, <2>7, <2>8, <2>9, StepKeeps
  <2> QED
    BY <2>3, <2>10 DEF Silent
<1>4. ASSUME Moves(c, "done"), UNCHANGED past, NEW links, db' = [db EXCEPT !.links = links], DOMAIN links = DOMAIN db.links,
             \A l \in DOMAIN links : SoundLink(links[l]) /\ TighterLink(db.links[l], links[l])
      PROVE  SInv' /\ Silent
  <2>1. /\ db'.links = links /\ db'.now = db.now /\ db'.users = db.users /\ db'.trips = db.trips
        /\ db'.tickets = db.tickets
    BY <1>t, <1>4 DEF Tables
  <2>2. \A l \in DOMAIN db'.links :
          SoundLink(db'.links[l]) /\ (l \in {} \/ (l \in DOMAIN db.links /\ TighterLink(db.links[l], db'.links[l])))
    BY <1>4, <2>1
  <2>3. TablesOK(db') /\ Tighter(db, db', {})
    BY ONLY <1>t, <2>1, <2>2, LinksTighter
  <2> QED
    BY <1>4, <1>t, <2>1, <2>3, TightEnds DEF Silent
<1>5. \A l \in DOMAIN db.links : SoundLink(db.links[l])
  BY <1>t DEF TablesOK
<1>6. CASE handleRevokeShareLink(c) /\ ~Refused(c)
  <2> PICK id : id = Req(c).id
    OBVIOUS
  <2> PICK links : links = [db.links EXCEPT ![id].revoked = TRUE]
    OBVIOUS
  <2>1. Moves(c, "done") /\ UNCHANGED past /\ db' = [db EXCEPT !.links = links]
    BY <1>6, <1>t DEF handleRevokeShareLink, Writes, Tables
  <2>2. DOMAIN links = DOMAIN db.links
    OBVIOUS
  <2>3. \A l \in DOMAIN links : SoundLink(links[l]) /\ TighterLink(db.links[l], links[l])
    BY <1>5 DEF SoundLink, TighterLink
  <2> QED
    BY <1>4, <2>1, <2>2, <2>3
<1>7. CASE handleShared(c)
  <2> PICK id : id = Req(c).link
    OBVIOUS
  <2> PICK links : links = IF id \in DOMAIN db.links THEN [db.links EXCEPT ![id].uses = @ + 1] ELSE db.links
    OBVIOUS
  <2>1. Moves(c, "done") /\ UNCHANGED past /\ (db' = db \/ db' = [db EXCEPT !.links = links])
    BY <1>7, <1>t DEF handleShared, Tables
  <2>2. DOMAIN links = DOMAIN db.links
    OBVIOUS
  <2>3. \A l \in DOMAIN links : SoundLink(links[l]) /\ TighterLink(db.links[l], links[l])
    BY <1>5 DEF SoundLink, TighterLink
  <2>4. CASE db' = db
    BY <1>t, <2>1, <2>4, EndsSafe DEF SameTrips, Silent
  <2>5. CASE db' = [db EXCEPT !.links = links]
    BY <1>4, <2>1, <2>2, <2>3, <2>5
  <2> QED
    BY <2>1, <2>4, <2>5
<1> QED
  BY <1>1, <1>2, <1>3, <1>6, <1>7

LEMMA GalleryShown ==
  ASSUME NEW trip, NEW private
  PROVE  /\ DOMAIN galleryOf(trip, private) = ShownIn(db, trip, private)
         /\ \A p \in ShownIn(db, trip, private) : galleryOf(trip, private)[p] = Pics(db, trip)[p]
BY DEF galleryOf, ListByTrip, ShownIn, Pics, Restrict

(* A step that lets somebody see more, as the books say of those who open  *)
(* an address meanwhile.                                                   *)
LEMMA joinTripSafe ==
  ASSUME IInv, SInv, NEW c \in Clients, joinTrip(c)
  PROVE  SInv' /\ Silent
<1>t. DOMAIN db = Tables /\ Shaped /\ TablesOK(db) /\ DOMAIN past = Pasts
  BY DEF IInv, Shaped, SInv
<1>1. CASE Refused(c)
  BY <1>1, <1>t, RefusedSafe
<1>2. CASE ~Refused(c)
  <2> DEFINE more(o) == IF At(o, "open", "reader") THEN Downloadable(db', Ticket(o)) ELSE {}
  <2> PICK user : user = Req(c).user
    OBVIOUS
  <2> PICK trip : trip = Req(c).trip
    OBVIOUS
  <2>1. /\ db' = [db EXCEPT !.trips[trip].members = @ \cup {user}] /\ Moves(c, "done") /\ user \in DOMAIN db.users
        /\ past' = [past EXCEPT !.opened = [o \in Clients |-> past.opened[o] \cup more(o)]]
    BY <1>2 DEF joinTrip
  <2> PICK trips : trips = [db.trips EXCEPT ![trip].members = @ \cup {user}]
    OBVIOUS
  <2>2. /\ db'.trips = trips /\ db'.now = db.now /\ db'.users = db.users /\ db'.links = db.links /\ db'.tickets = db.tickets
    BY <1>t, <2>1 DEF Tables
  <2>3. DOMAIN trips = DOMAIN db.trips
    OBVIOUS
  <2>4. \A t \in DOMAIN db.trips : TripOK(db.users, db.trips[t])
    BY <1>t DEF TablesOK
  <2>5. \A t \in DOMAIN trips : TripOK(db.users, trips[t]) /\ trips[t].pictures = db.trips[t].pictures
    BY <2>1, <2>4 DEF TripOK
  <2>6. TablesOK(db')
    BY <1>t, <2>2, <2>5 DEF TablesOK
  <2>7. Moved(c, "done", task[c].seen)
    BY <1>t, <2>1, GoesMoved DEF Moves
  <2>8. Own(c)' /\ ~Making(c)'
    BY <2>7, EndedOwn
  <2>9. TicketsOK'
    BY <2>2, <2>7, <2>8, TicketsStay DEF SInv
  <2>10. \A o \in Clients : Req(o)' = Req(o) /\ (Making(o)' => Making(o))
    BY <2>7, <2>8 DEF Moved, Req, Making
  <2>11. AsksOK' /\ MakersOK'
    BY <2>2, <2>10 DEF SInv, AsksOK, MakersOK, OneEach
  <2>12. DOMAIN past'.opened = Clients /\ \A o \in Clients : past'.opened[o] = past.opened[o] \cup more(o)
    BY <1>t, <2>1 DEF Pasts
  <2>13. \A id : Made(id)' => Made(id)
    BY <2>7, <2>8, MadeShrinks
  <2>14. \A o \in Clients : SeenOK(o) /\ OpenedOK(o)
    BY DEF SInv
  <2>15. \A at, private : ShownIn(db', at, private) = ShownIn(db, at, private)
    BY <2>2, <2>3, <2>5 DEF ShownIn, Pics
  <2>16. ASSUME NEW o \in Clients, o # c PROVE SeenOK(o)' /\ OpenedOK(o)'
    <3>1. task'[o] = task[o]
      BY <2>7, <2>16 DEF Moved
    <3>2. SeenOK(o)'
      BY <2>13, <2>14, <3>1, SeenKept
    <3>3. ASSUME Req(o).op = "open", task[o].step = "reader" PROVE Served(db', task[o].seen.ticket) \subseteq past'.opened[o]
      <4> PICK ticket : ticket = task[o].seen.ticket
        OBVIOUS
      <4>1. Downloadable(db', ticket) \subseteq past'.opened[o]
        BY <2>12, <3>3 DEF At, Ticket
      <4>2. PICK private : private = ShowsPrivate(db', ticket)
        OBVIOUS
      <4>3. DOMAIN galleryOf(ticket.trip, private) = ShownIn(db', ticket.trip, private)
        BY <2>15, GalleryShown
      <4>4. Served(db', ticket) \subseteq Downloadable(db', ticket)
        BY <4>2, <4>3 DEF Served, Downloadable
      <4> QED
        BY <4>1, <4>4
    <3>4. OpenedOK(o) /\ past.opened[o] \subseteq past'.opened[o]
      BY <2>12, <2>14
    <3> QED
      BY <2>15, <3>1, <3>2, <3>3, <3>4 DEF OpenedOK, At, Req
  <2>17. \A o \in Clients : SeenOK(o)' /\ OpenedOK(o)'
    BY <2>8, <2>16 DEF Own
  <2>18. Silent
    BY <1>t, <2>1 DEF Pasts, Silent
  <2> QED
    BY <2>6, <2>9, <2>11, <2>12, <2>17, <2>18 DEF SInv
<1> QED
  BY <1>1, <1>2

LEMMA PlaceMoved ==
  ASSUME NEW doc, View!Document(doc), NEW at, NEW new, new = [doc EXCEPT !.places[1].at = at]
  PROVE  View!Document(new)
<1>1. DOMAIN doc = {"places", "transfers", "legs", "tracks"} /\ Places(doc.places)
  BY DocumentParts
<1>2. PICK places : places = [doc.places EXCEPT ![1].at = at]
  OBVIOUS
<1>3. Places(places)
  BY <1>1, <1>2 DEF Places
<1>4. DOMAIN new = DOMAIN doc /\ new.places = places /\ new.transfers = doc.transfers /\ new.legs = doc.legs /\ new.tracks = doc.tracks
  BY <1>1, <1>2
<1> QED
  BY <1>1, <1>3, <1>4, DocumentParts

(* A request that changes the trips and ends.                              *)
LEMMA TripsEnd ==
  ASSUME IInv, SInv, NEW c \in Clients, Moves(c, "done"), past'.opened = past.opened, Silent,
         db'.now = db.now, db'.users = db.users, db'.tickets = db.tickets,
         \A t \in DOMAIN db'.trips :
           t \in DOMAIN db.trips /\ TripOK(db.users, db'.trips[t]) /\ TighterTrip(db.trips[t], db'.trips[t]),
         \A l \in DOMAIN db'.links : l \in DOMAIN db.links /\ db'.links[l] = db.links[l]
  PROVE  SInv' /\ Silent
<1>1. TablesOK(db) /\ Shaped
  BY DEF SInv, IInv
<1>2. TablesOK(db') /\ Tighter(db, db', {})
  BY <1>1, TripsTighter
<1> QED
  BY <1>1, <1>2, TightEnds

LEMMA tripsSafe ==
  ASSUME IInv, SInv, NEW c \in Clients, leaveTrip(c) \/ movePlace(c) \/ hidePicture(c) \/ deleteTrip(c) \/ TripGone(c)
  PROVE  SInv' /\ Silent
<1>t. DOMAIN db = Tables /\ Shaped /\ DOMAIN past = Pasts
  BY DEF IInv, Shaped
<1>o. \A t \in DOMAIN db.trips : TripOK(db.users, db.trips[t])
  BY DEF SInv, TablesOK
<1> PICK trip : trip = Req(c).trip
  OBVIOUS
<1>1. CASE TripGone(c)
  BY <1>1, <1>t, RefusedSafe DEF TripGone
<1>2. ASSUME NEW trips, db' = [db EXCEPT !.trips = trips], DOMAIN trips = DOMAIN db.trips, Moves(c, "done"),
             past'.opened = past.opened, Silent,
             \A t \in DOMAIN trips : TripOK(db.users, trips[t]) /\ TighterTrip(db.trips[t], trips[t])
      PROVE  SInv' /\ Silent
  <2>1. /\ db'.trips = trips /\ db'.now = db.now /\ db'.users = db.users /\ db'.links = db.links /\ db'.tickets = db.tickets
    BY <1>t, <1>2 DEF Tables
  <2> QED
    BY <1>2, <2>1, TripsEnd
<1>3. CASE leaveTrip(c)
  <2> PICK user : user = Req(c).user
    OBVIOUS
  <2> PICK trips : trips = [db.trips EXCEPT ![trip].members = @ \ {user}]
    OBVIOUS
  <2>1. db' = [db EXCEPT !.trips = trips] /\ Moves(c, "done") /\ past' = past
    BY <1>3, <1>t DEF leaveTrip, Writes, Tables
  <2>2. DOMAIN trips = DOMAIN db.trips
    OBVIOUS
  <2>3. \A t \in DOMAIN trips : TripOK(db.users, trips[t]) /\ TighterTrip(db.trips[t], trips[t])
    BY <1>o DEF TripOK, TighterTrip
  <2> QED
    BY <1>2, <2>1, <2>2, <2>3 DEF Silent
<1>4. CASE movePlace(c)
  <2> PICK at : at = Req(c).at
    OBVIOUS
  <2> PICK trips : trips = [db.trips EXCEPT ![trip].doc.places[1].at = at]
    OBVIOUS
  <2>1. db' = [db EXCEPT !.trips = trips] /\ Moves(c, "done") /\ past' = past
    BY <1>4, <1>t DEF movePlace, Writes, Tables
  <2>2. DOMAIN trips = DOMAIN db.trips /\ \A t \in DOMAIN trips : t # trip => trips[t] = db.trips[t]
    OBVIOUS
  <2>3. trip \in DOMAIN db.trips
    BY <1>4 DEF movePlace, OnTrip
  <2> PICK old : old = db.trips[trip]
    OBVIOUS
  <2> PICK doc : doc = [old.doc EXCEPT !.places[1].at = at]
    OBVIOUS
  <2> PICK new : new = [old EXCEPT !.doc = doc]
    OBVIOUS
  <2>4. TripOK(db.users, old)
    BY <1>o, <2>3
  <2>5. trips[trip] = new
    BY <2>3, <2>4 DEF TripOK
  <2>6. View!Document(doc)
    BY <2>4, PlaceMoved DEF TripOK
  <2>7. TripOK(db.users, new) /\ TighterTrip(old, new)
    BY <2>4, <2>6 DEF TripOK, TighterTrip
  <2>8. \A t \in DOMAIN db.trips : TighterTrip(db.trips[t], db.trips[t])
    BY DEF TighterTrip
  <2>9. \A t \in DOMAIN trips : TripOK(db.users, trips[t]) /\ TighterTrip(db.trips[t], trips[t])
    BY <1>o, <2>2, <2>5, <2>7, <2>8
  <2> QED
    BY <1>2, <2>1, <2>2, <2>9 DEF Silent
<1>5. CASE hidePicture(c)
  <2> PICK p : p = Req(c).picture
    OBVIOUS
  <2> PICK trips : trips = [db.trips EXCEPT ![trip].pictures[p].private = TRUE]
    OBVIOUS
  <2>1. /\ db' = [db EXCEPT !.trips = trips] /\ Moves(c, "done")
        /\ past' = [past EXCEPT !.hidden = @ \cup {p}]
    BY <1>5, <1>t DEF hidePicture, Tables
  <2>2. DOMAIN trips = DOMAIN db.trips
    OBVIOUS
  <2>3. ASSUME NEW t \in DOMAIN trips PROVE TripOK(db.users, trips[t]) /\ TighterTrip(db.trips[t], trips[t])
    <3> PICK old : old = db.trips[t]
      OBVIOUS
    <3> PICK pictures : pictures = [old.pictures EXCEPT ![p].private = TRUE]
      OBVIOUS
    <3>1. TripOK(db.users, old)
      BY <1>o, <2>2, <2>3
    <3>2. \A q \in DOMAIN old.pictures : DOMAIN old.pictures[q] = {"private", "at", "mime"}
      BY <3>1 DEF TripOK, PictureRow
    <3>3. /\ DOMAIN pictures = DOMAIN old.pictures
          /\ \A q \in DOMAIN pictures : PictureRow(pictures[q]) /\ (old.pictures[q].private => pictures[q].private)
      BY <3>2 DEF PictureRow
    <3>4. trips[t] = old \/ trips[t] = [old EXCEPT !.pictures = pictures]
      BY <2>2, <2>3, <3>1 DEF TripOK
    <3>5. CASE trips[t] = old
      BY <3>1, <3>5 DEF TighterTrip
    <3>6. CASE trips[t] = [old EXCEPT !.pictures = pictures]
      BY <3>1, <3>3, <3>6 DEF TripOK, TighterTrip
    <3> QED
      BY <3>4, <3>5, <3>6
  <2>4. past'.opened = past.opened /\ Silent
    BY <1>t, <2>1 DEF Pasts, Silent
  <2> QED
    BY <1>2, <2>1, <2>2, <2>3, <2>4
<1>6. CASE deleteTrip(c)
  <2> DEFINE kept(t) == IF db.trips[t].source = trip THEN [db.trips[t] EXCEPT !.source = None] ELSE db.trips[t]
  <2>1. /\ Moves(c, "done") /\ past' = past
        /\ db' = [db EXCEPT !.trips = [t \in DOMAIN db.trips \ {trip} |-> kept(t)],
                            !.worn = {w \in @ : w[2] # trip},
                            !.links = Restrict(@, {l \in DOMAIN db.links : db.links[l].trip # trip})]
    BY <1>6 DEF deleteTrip, Writes
  <2>2. /\ db'.trips = [t \in DOMAIN db.trips \ {trip} |-> kept(t)] /\ db'.now = db.now /\ db'.users = db.users
        /\ db'.links = Restrict(db.links, {l \in DOMAIN db.links : db.links[l].trip # trip}) /\ db'.tickets = db.tickets
    BY <1>t, <2>1 DEF Tables
  <2>3. \A l \in DOMAIN db'.links : l \in DOMAIN db.links /\ db'.links[l] = db.links[l]
    BY <2>2 DEF Restrict
  <2>4. ASSUME NEW t \in DOMAIN db.trips PROVE TripOK(db.users, kept(t)) /\ TighterTrip(db.trips[t], kept(t))
    BY <1>o, <2>4 DEF TripOK, TighterTrip
  <2>5. \A t \in DOMAIN db'.trips :
          t \in DOMAIN db.trips /\ TripOK(db.users, db'.trips[t]) /\ TighterTrip(db.trips[t], db'.trips[t])
    BY <2>2, <2>4
  <2> QED
    BY <2>1, <2>2, <2>3, <2>5, TripsEnd DEF Silent
<1> QED
  BY <1>1, <1>3, <1>4, <1>5, <1>6

(* Nothing but the time.                                                   *)
LEMMA TimeSafe ==
  ASSUME IInv, SInv, Tick \/ UNCHANGED vars
  PROVE  SInv' /\ Silent
<1>t. DOMAIN db = Tables /\ TablesOK(db)
  BY DEF IInv, Shaped, SInv
<1>1. task' = task /\ past' = past
  BY DEF Tick, vars
<1>2. /\ db'.trips = db.trips /\ db'.users = db.users /\ db'.links = db.links /\ db'.tickets = db.tickets
      /\ db'.now \in Int /\ db.now <= db'.now
  <2>1. CASE Tick
    BY <1>t, <2>1 DEF Tick, Tables, TablesOK
  <2>2. CASE UNCHANGED vars
    BY <1>t, <2>2 DEF vars, TablesOK
  <2> QED
    BY <2>1, <2>2
<1>3. TablesOK(db')
  BY <1>t, <1>2 DEF TablesOK
<1>4. Tighter(db, db', {})
  BY <1>2 DEF Tighter, TighterTrip, TighterLink
<1>5. \A id : Made(id)' => Made(id)
  BY <1>1 DEF Made, Making, Req
<1>6. \A o \in Clients : Req(o)' = Req(o) /\ (Making(o)' => Making(o))
  BY <1>1 DEF Making, Req
<1>7. AsksOK' /\ MakersOK' /\ TicketsOK'
  BY <1>2, <1>5, <1>6 DEF SInv, AsksOK, MakersOK, OneEach, TicketsOK
<1>8. ASSUME NEW o \in Clients PROVE SeenOK(o)' /\ OpenedOK(o)'
  <2>1. SeenOK(o) /\ OpenedOK(o) /\ task'[o] = task[o] /\ past'.opened[o] = past.opened[o]
    BY <1>1 DEF SInv
  <2> QED
    BY <1>t, <1>3, <1>4, <1>5, <2>1, SeenKept, OpenedKept
<1> QED
  BY <1>1, <1>3, <1>7, <1>8 DEF SInv, Silent

(************************** pages shown through links **********************)

LEMMA OverRows ==
  ASSUME NEW f, NEW g
  PROVE  /\ DOMAIN Lists!Over(f, g) = DOMAIN f \cup DOMAIN g
         /\ \A i \in DOMAIN f : Lists!Over(f, g)[i] = f[i]
         /\ \A i \in DOMAIN g : i \notin DOMAIN f => Lists!Over(f, g)[i] = g[i]
BY DEF Lists!Over

LEMMA GalleryPictures ==
  ASSUME TablesOK(db), NEW trip, NEW private
  PROVE  Pictures(galleryOf(trip, private), private)
<1>1. \A p \in DOMAIN Pics(db, trip) : PictureRow(Pics(db, trip)[p])
  BY DEF TablesOK, TripOK, Pics
<1> PICK list : list = galleryOf(trip, private)
  OBVIOUS
<1>2. /\ DOMAIN list = ShownIn(db, trip, private)
      /\ \A p \in ShownIn(db, trip, private) : list[p] = Pics(db, trip)[p]
  BY GalleryShown
<1>3. Pictures(list, private)
  BY ONLY <1>1, <1>2 DEF Pictures, ShownIn, VisibleTo
<1> QED
  BY <1>3

(* A link that carries a request is not one that is still to be made.      *)
LEMMA requireShareTokenSafe ==
  ASSUME Shaped, SInv, NEW c \in Clients, requireShareToken(c)
  PROVE  SInv' /\ Silent
<1>1. CASE Refused(c)
  BY <1>1, RefusedSafe
<1>2. CASE ~Refused(c)
  <2> PICK v : v = [link |-> db.links[Req(c).link]]
    OBVIOUS
  <2> PICK s : s = Shared[Req(c).op]
    OBVIOUS
  <2>1. Continues(c, s, v) /\ Req(c).op \in DOMAIN Shared /\ Req(c).link \in DOMAIN db.links
    BY <1>2 DEF requireShareToken, ShareAccess
  <2>2. /\ Req(c).op \in {"shared", "sharedDocument", "sharedFile", "sharedDownload"}
        /\ s \in {"count", "content", "row", "issue"}
    BY <2>1 DEF Shared
  <2>3. Moved(c, s, v)
    BY <2>1, GoesMoved DEF Continues
  <2>4. ~Making(c)' /\ ~Made(Req(c).link)
    BY <2>1, <2>2, <2>3 DEF Making, Moved, Req, SInv, MakersOK, Made
  <2>5. ~Made(Req(c).link)' /\ Req(c)' = Req(c)
    BY <2>3, <2>4, MadeShrinks DEF Moved, Req
  <2>6. Own(c)'
    BY <2>2, <2>3, <2>5 DEF Own, SeenOK, OpenedOK, Sharing, DocumentRead, PicturesRead, Holding, Listing, At, Moved
  <2> QED
    BY <2>1, <2>4, <2>6, ReadsSafe
<1> QED
  BY <1>1, <1>2

(* A request that goes on reading for a page keeps what it has read.       *)
LEMMA sharedReadsSafe ==
  ASSUME Shaped, SInv, NEW c \in Clients, sharedContent(c) \/ sharedGallery(c) \/ sharedMedia(c)
  PROVE  SInv' /\ Silent
<1>t. TablesOK(db) /\ SeenOK(c)
  BY DEF SInv
<1> PICK old : old = task[c].seen
  OBVIOUS
<1>1. CASE Refused(c)
  BY <1>1, RefusedSafe
<1>2. "link" \in DOMAIN old /\ ~Made(Req(c).link)
  BY <1>t DEF sharedContent, sharedGallery, sharedMedia, At, SeenOK, Sharing
<1>3. ASSUME NEW s, NEW v, Continues(c, s, v), "link" \in DOMAIN v, Req(c).op \in {"sharedDocument", "sharedFile"},
             s \in {"gallery", "zones"},
             Req(c).op = "sharedDocument" => "doc" \in DOMAIN v /\ View!Document(v.doc),
             s = "zones" => "pictures" \in DOMAIN v /\ Pictures(v.pictures, v.link.private)
      PROVE  SInv' /\ Silent
  <2>1. Moved(c, s, v)
    BY <1>3, GoesMoved DEF Continues
  <2>2. ~Making(c)' /\ Req(c)' = Req(c) /\ task'[c].step = s /\ task'[c].seen = v
    BY <1>3, <2>1 DEF Making, Moved, Req
  <2>3. ~Made(Req(c).link)'
    BY <1>2, <2>1, <2>2, MadeShrinks
  <2>4. Own(c)'
    BY <1>3, <2>2, <2>3 DEF Own, SeenOK, OpenedOK, Sharing, DocumentRead, PicturesRead, Holding, Listing, At
  <2> QED
    BY <1>3, <2>2, <2>4, ReadsSafe
<1>4. CASE sharedContent(c) /\ ~Refused(c)
  <2> PICK doc : doc = db.trips[Trip(c)].doc
    OBVIOUS
  <2> PICK v : v = Lists!Over([doc |-> doc], old)
    OBVIOUS
  <2>1. Continues(c, "gallery", v) /\ Trip(c) \in DOMAIN db.trips /\ Req(c).op = "sharedDocument"
    BY <1>4 DEF sharedContent, At
  <2>2. View!Document(doc)
    BY <1>t, <2>1 DEF TablesOK, TripOK
  <2>3. DOMAIN v = {"doc"} \cup DOMAIN old /\ v.doc = doc
    <3>1. DOMAIN Lists!Over([doc |-> doc], old) = DOMAIN [doc |-> doc] \cup DOMAIN old
      BY ONLY OverRows
    <3>2. Lists!Over([doc |-> doc], old)["doc"] = doc
      BY DEF Lists!Over
    <3> QED
      BY <3>1, <3>2
  <2> QED
    BY <1>2, <1>3, <2>1, <2>2, <2>3
<1>5. ASSUME NEW pictures, Continues(c, "zones", Lists!Over([pictures |-> pictures], old)), Pictures(pictures, Link(c).private),
             Req(c).op \in {"sharedDocument", "sharedFile"},
             Req(c).op = "sharedDocument" => "doc" \in DOMAIN old /\ View!Document(old.doc)
      PROVE  SInv' /\ Silent
  <2> PICK v : v = Lists!Over([pictures |-> pictures], old)
    OBVIOUS
  <2>1. DOMAIN v = {"pictures"} \cup DOMAIN old /\ v.pictures = pictures /\ \A i \in DOMAIN old : i # "pictures" => v[i] = old[i]
    <3> PICK f : f = [pictures |-> pictures]
      OBVIOUS
    <3>1. v = Lists!Over(f, old) /\ DOMAIN f = {"pictures"} /\ f.pictures = pictures
      OBVIOUS
    <3> QED
      BY ONLY <3>1 DEF Lists!Over
  <2>2. v.link = Link(c)
    BY <1>2, <2>1 DEF Link
  <2>3. Req(c).op = "sharedDocument" => "doc" \in DOMAIN v /\ View!Document(v.doc)
    BY <1>5, <2>1
  <2> QED
    BY <1>2, <1>3, <1>5, <2>1, <2>2, <2>3
<1>6. CASE sharedGallery(c) /\ ~Refused(c)
  <2>1. /\ Continues(c, "zones", Lists!Over([pictures |-> galleryOf(Trip(c), Link(c).private)], old))
        /\ Req(c).op = "sharedDocument"
    BY <1>6 DEF sharedGallery, At
  <2>2. "doc" \in DOMAIN old /\ View!Document(old.doc)
    BY <1>6, <1>t DEF sharedGallery, At, SeenOK, DocumentRead
  <2>3. Pictures(galleryOf(Trip(c), Link(c).private), Link(c).private)
    BY <1>t, GalleryPictures
  <2> QED
    BY <1>5, <2>1, <2>2, <2>3
<1>7. CASE sharedMedia(c) /\ ~Refused(c)
  <2> PICK shown : shown = galleryOf(Trip(c), Link(c).private)
    OBVIOUS
  <2>1. /\ Continues(c, "zones", Lists!Over([pictures |-> Restrict(shown, {Req(c).picture})], old))
        /\ Req(c).op = "sharedFile" /\ Req(c).picture \in DOMAIN shown
    BY <1>7 DEF sharedMedia, At
  <2>2. Pictures(shown, Link(c).private)
    BY <1>t, GalleryPictures
  <2>3. Pictures(Restrict(shown, {Req(c).picture}), Link(c).private)
    BY <2>1, <2>2 DEF Pictures, Restrict
  <2> QED
    BY <1>5, <2>1, <2>3
<1> QED
  BY <1>1, <1>4, <1>6, <1>7

(********************************* downloads *******************************)

LEMMA issueSafe ==
  ASSUME Shaped, SInv, NEW c \in Clients, NEW trip, NEW reader, NEW shown, issue(c, trip, reader, shown),
         None \in {reader.user, reader.link}, ~Made(reader.link), Req(c).op # "createLink"
  PROVE  SInv' /\ Silent
<1>1. CASE Refused(c)
  BY <1>1, RefusedSafe
<1>2. CASE ~Refused(c)
  <2> PICK items : items = Req(c).pictures
    OBVIOUS
  <2> PICK ticket : ticket = [trip |-> trip, reader |-> reader, items |-> items, until |-> db.now + downloadLifetime]
    OBVIOUS
  <2> PICK kept : kept = {k \in DOMAIN db.tickets : db.now <= db.tickets[k].until}
    OBVIOUS
  <2> PICK tickets : tickets = Lists!Over([k \in {Req(c).id} |-> ticket], Restrict(db.tickets, kept))
    OBVIOUS
  <2>1. Writes(c, [db EXCEPT !.tickets = tickets])
    BY <1>2 DEF issue, Shaped, Tables
  <2>2. /\ db'.tickets = tickets /\ db'.now = db.now /\ db'.users = db.users /\ db'.trips = db.trips /\ db'.links = db.links
        /\ past' = past
    BY <2>1 DEF Writes, Shaped, Tables
  <2>3. \A k \in DOMAIN tickets : tickets[k] = ticket \/ (k \in DOMAIN db.tickets /\ tickets[k] = db.tickets[k])
    BY DEF Lists!Over, Restrict
  <2>4. TablesOK(db) /\ TicketsOK /\ DOMAIN past.opened = Clients
    BY DEF SInv
  <2>5. TablesOK(db')
    BY <2>2, <2>4 DEF TablesOK
  <2>6. Tighter(db, db', {})
    <3>1. Tighter(db, db, {})
      BY <2>4, TighterItself
    <3> QED
      BY ONLY <2>2, <3>1 DEF Tighter
  <2>7. Moved(c, "done", task[c].seen)
    BY <2>1, GoesMoved DEF Writes, Moves
  <2>8. Own(c)' /\ ~Making(c)'
    BY <2>7, EndedOwn
  <2>9. \A id : Made(id)' => Made(id)
    BY <2>7, <2>8, MadeShrinks
  <2>10. TicketOK(ticket) /\ ticket.reader = reader
    BY DEF TicketOK
  <2>11. TicketsOK'
    <3>1. \A k \in DOMAIN tickets : TicketOK(tickets[k]) /\ ~Made(tickets[k].reader.link)
      BY <2>3, <2>4, <2>10 DEF TicketsOK
    <3> QED
      BY <2>2, <2>9, <3>1 DEF TicketsOK
  <2>12. SInv'
    BY <2>2, <2>4, <2>5, <2>6, <2>7, <2>8, <2>11, StepKeeps
  <2> QED
    BY <2>2, <2>12 DEF Silent
<1> QED
  BY <1>1, <1>2

LEMMA downloadsIssued ==
  ASSUME Shaped, SInv, NEW c \in Clients, handleMediaDownload(c) \/ handleSharedMediaDownload(c)
  PROVE  SInv' /\ Silent
<1>1. CASE Refused(c)
  BY <1>1, RefusedSafe
<1>2. CASE handleMediaDownload(c) /\ ~Refused(c)
  <2> PICK reader : reader = [user |-> By(c), link |-> None]
    OBVIOUS
  <2>1. issue(c, Req(c).trip, reader, ListByTrip(Req(c).trip)) /\ Req(c).op # "createLink"
    BY <1>2 DEF handleMediaDownload, At
  <2>2. ~Made(reader.link)
    BY DEF Made, Making, SInv, AsksOK
  <2> QED
    BY <2>1, <2>2, issueSafe
<1>3. CASE handleSharedMediaDownload(c) /\ ~Refused(c)
  <2> PICK reader : reader = [user |-> None, link |-> Req(c).link]
    OBVIOUS
  <2>1. issue(c, Trip(c), reader, galleryOf(Trip(c), Link(c).private)) /\ Req(c).op = "sharedDownload" /\ task[c].step = "issue"
    BY <1>3 DEF handleSharedMediaDownload, At
  <2>2. ~Made(reader.link)
    BY <2>1 DEF SInv, SeenOK, Sharing
  <2> QED
    BY <2>1, <2>2, issueSafe
<1> QED
  BY <1>1, <1>2, <1>3

(* What is served, said with the gallery.                                  *)
LEMMA ServedDownloadable ==
  ASSUME NEW ticket
  PROVE  Served(db, ticket) = Downloadable(db, ticket)
<1> PICK private : private = ShowsPrivate(db, ticket)
  OBVIOUS
<1>1. DOMAIN galleryOf(ticket.trip, private) = ShownIn(db, ticket.trip, private)
  BY GalleryShown
<1> QED
  BY <1>1 DEF Served, Downloadable

LEMMA redeemSafe ==
  ASSUME Shaped, SInv, NEW c \in Clients, redeem(c)
  PROVE  SInv' /\ Silent
<1>1. CASE Refused(c)
  BY <1>1, RefusedSafe
<1>2. CASE ~Refused(c)
  <2> PICK ticket : ticket = db.tickets[Req(c).id]
    OBVIOUS
  <2> PICK v : v = [ticket |-> ticket]
    OBVIOUS
  <2>1. /\ Goes(c, "reader", v) /\ db' = db /\ Req(c).op = "open" /\ Req(c).id \in DOMAIN db.tickets
        /\ past' = [past EXCEPT !.opened[c] = Downloadable(db, ticket)]
    BY <1>2 DEF redeem, At
  <2>2. Moved(c, "reader", v)
    BY <2>1, GoesMoved
  <2>3. TablesOK(db) /\ TicketsOK /\ DOMAIN past.opened = Clients
    BY DEF SInv
  <2>4. /\ DOMAIN past'.opened = Clients /\ past'.opened[c] = Downloadable(db, ticket)
        /\ \A o \in Clients \ {c} : past'.opened[o] = past.opened[o]
    BY <2>1, <2>3 DEF Shaped, Pasts
  <2>5. past'.page = past.page
    BY <2>1 DEF Shaped, Pasts
  <2>6. ~Making(c)' /\ Req(c)' = Req(c) /\ task'[c].step = "reader" /\ task'[c].seen = v
    BY <2>1, <2>2 DEF Making, Moved, Req
  <2>7. TicketsOK'
    BY <2>1, <2>2, <2>3, <2>6, TicketsStay
  <2>8. TicketOK(ticket) /\ ~Made(ticket.reader.link)'
    BY <2>1, <2>2, <2>3, <2>6, MadeShrinks DEF TicketsOK
  <2>9. v.ticket = ticket /\ "ticket" \in DOMAIN v
    OBVIOUS
  <2>10. SeenOK(c)'
    BY <2>1, <2>6, <2>8, <2>9 DEF SeenOK, Sharing, DocumentRead, PicturesRead, Holding, Listing, At
  <2>11. OpenedOK(c)'
    <3>1. Served(db', ticket) = Downloadable(db, ticket)
      BY <2>1, ServedDownloadable
    <3> QED
      BY <2>4, <2>6, <2>9, <3>1 DEF OpenedOK, At
  <2>12. TablesOK(db') /\ Tighter(db, db', {})
    BY <2>1, <2>3, TighterItself
  <2>13. SInv'
    BY <2>2, <2>4, <2>6, <2>7, <2>10, <2>11, <2>12, StepKeeps DEF Own
  <2> QED
    BY <2>5, <2>13 DEF Silent
<1> QED
  BY <1>1, <1>2

LEMMA addressReadsSafe ==
  ASSUME Shaped, SInv, NEW c \in Clients, downloadReader(c) \/ stillDownloadable(c)
  PROVE  SInv' /\ Silent
<1> PICK old : old = task[c].seen
  OBVIOUS
<1> PICK ticket : ticket = old.ticket
  OBVIOUS
<1>t. TablesOK(db) /\ SeenOK(c) /\ OpenedOK(c)
  BY DEF SInv
<1>1. CASE Refused(c)
  BY <1>1, RefusedSafe
<1>2. "ticket" \in DOMAIN old /\ TicketOK(ticket) /\ ~Made(ticket.reader.link) /\ Req(c).op = "open"
  BY <1>t DEF downloadReader, stillDownloadable, At, SeenOK, Holding
<1>3. ASSUME NEW s \in {"list", "serve"}, NEW v, Continues(c, s, v), "ticket" \in DOMAIN v, v.ticket = ticket, "private" \in DOMAIN v,
             s = "list" => ticket.items \cap ShownIn(db, ticket.trip, v.private) \subseteq past.opened[c],
             s = "serve" => /\ "items" \in DOMAIN v /\ Pictures(v.items, v.private)
                            /\ DOMAIN v.items \subseteq past.opened[c]
      PROVE  SInv' /\ Silent
  <2>1. Moved(c, s, v) /\ db' = db /\ past' = past
    BY <1>3, GoesMoved DEF Continues
  <2>2. ~Making(c)' /\ Req(c)' = Req(c) /\ task'[c].step = s /\ task'[c].seen = v
    BY <1>2, <2>1 DEF Making, Moved, Req
  <2>3. ~Made(ticket.reader.link)'
    BY <1>2, <2>1, <2>2, MadeShrinks
  <2>4. SeenOK(c)'
    BY <1>2, <1>3, <2>2, <2>3 DEF SeenOK, Sharing, DocumentRead, PicturesRead, Holding, Listing, At
  <2>5. OpenedOK(c)'
    BY <1>2, <1>3, <2>1, <2>2 DEF OpenedOK, At
  <2> QED
    BY <1>3, <2>2, <2>4, <2>5, ReadsSafe DEF Own
<1>4. CASE downloadReader(c) /\ ~Refused(c)
  <2> PICK private : private = ShowsPrivate(db, ticket)
    OBVIOUS
  <2> PICK f : f = [private |-> private]
    OBVIOUS
  <2> PICK v : v = Lists!Over(f, old)
    OBVIOUS
  <2>1. Continues(c, "list", v) /\ Allowed(db, ticket) /\ task[c].step = "reader"
    BY <1>4 DEF downloadReader, At, Ticket
  <2>2. DOMAIN f = {"private"} /\ f.private = private
    OBVIOUS
  <2>3. "ticket" \in DOMAIN v /\ v.ticket = ticket /\ "private" \in DOMAIN v /\ v.private = private
    BY <1>2, <2>2 DEF Lists!Over
  <2>4. Served(db, ticket) \subseteq past.opened[c]
    BY <1>2, <1>t, <2>1 DEF OpenedOK, At
  <2>5. ticket.items \cap ShownIn(db, ticket.trip, v.private) \subseteq past.opened[c]
    BY <2>1, <2>3, <2>4 DEF Served
  <2> QED
    BY <1>3, <2>1, <2>3, <2>5
<1>5. CASE stillDownloadable(c) /\ ~Refused(c)
  <2> PICK now : now = galleryOf(ticket.trip, old.private)
    OBVIOUS
  <2> PICK items : items = Restrict(now, ticket.items \cap DOMAIN now)
    OBVIOUS
  <2> PICK f : f = [items |-> items]
    OBVIOUS
  <2> PICK v : v = Lists!Over(f, old)
    OBVIOUS
  <2>1. Continues(c, "serve", v) /\ task[c].step = "list"
    BY <1>5 DEF stillDownloadable, At, Ticket
  <2>2. DOMAIN f = {"items"} /\ f.items = items /\ "private" \in DOMAIN old
    BY <1>2, <1>t, <2>1 DEF SeenOK, Listing
  <2>3. /\ "ticket" \in DOMAIN v /\ v.ticket = ticket /\ "private" \in DOMAIN v /\ v.private = old.private
        /\ "items" \in DOMAIN v /\ v.items = items
    BY <1>2, <2>2 DEF Lists!Over
  <2>4. Pictures(now, old.private) /\ DOMAIN now = ShownIn(db, ticket.trip, old.private)
    BY <1>t, GalleryPictures, GalleryShown
  <2>5. Pictures(items, old.private) /\ DOMAIN items = ticket.items \cap DOMAIN now
    BY <2>4 DEF Pictures, Restrict
  <2>6. ticket.items \cap ShownIn(db, ticket.trip, old.private) \subseteq past.opened[c]
    BY <1>2, <1>t, <2>1 DEF OpenedOK, At
  <2> QED
    BY <1>3, <2>1, <2>3, <2>4, <2>5, <2>6
<1> QED
  BY <1>1, <1>4, <1>5

(********************************** the pages ******************************)

LEMMA ZonesCover ==
  ASSUME TablesOK(db), NEW trip \in DOMAIN db.trips, NEW trips, trips = {trip, db.trips[trip].source} \cap DOMAIN db.trips
  PROVE  /\ PrivacyZones(db, trip) = {db.users[u].home : u \in People(db, trips)} \ {None}
         /\ \A home \in PrivacyZones(db, trip) : home # None /\ HomeOK(home)
<1> PICK people : people = People(db, trips)
  OBVIOUS
<1>1. {trip} \cap DOMAIN db.trips = {trip}
  OBVIOUS
<1>2. ({trip} \cup {db.trips[t].source : t \in {trip}}) \cap DOMAIN db.trips = trips
  OBVIOUS
<1>3. PrivacyZones(db, trip) = Zones(db, people)
  BY <1>1, <1>2 DEF PrivacyZones
<1>4. Zones(db, people) = {db.users[u].home : u \in people} \ {None}
  BY DEF Zones
<1>5. people \subseteq DOMAIN db.users
  <2> SUFFICES ASSUME NEW u \in people PROVE u \in DOMAIN db.users
    OBVIOUS
  <2>1. PICK t \in trips : u \in {db.trips[t].owner} \cup db.trips[t].members
    BY DEF People
  <2>2. TripOK(db.users, db.trips[t])
    BY <2>1 DEF TablesOK
  <2> QED
    BY <2>1, <2>2 DEF TripOK
<1>6. \A home \in Zones(db, people) : home # None /\ HomeOK(home)
  BY <1>5 DEF Zones, TablesOK
<1> QED
  BY <1>3, <1>4, <1>6

(* A page that shows nothing in a circle, nothing of the travellers' own   *)
(* business and no private picture keeps the secrets.                      *)
LEMMA SecretsKept ==
  ASSUME TablesOK(db), NEW page,
         \A at \in View!PointsShown(page.doc) : ~View!Hides(PrivacyZones(db, page.trip), at),
         \A p \in DOMAIN page.pictures : PlaceHidden(page, p) => ~View!Hides(PrivacyZones(db, page.trip), page.pictures[p].at),
         View!Private(page.doc) \subseteq {None, ""},
         \A p \in DOMAIN page.pictures : page.pictures[p].private => page.private
  PROVE  KeepsSecrets(page)
<1> SUFFICES ASSUME page.trip \in DOMAIN db.trips PROVE KeepsSecrets(page)
  BY DEF KeepsSecrets
<1> PICK trips : trips = {page.trip, db.trips[page.trip].source} \cap DOMAIN db.trips
  OBVIOUS
<1> PICK homes : homes = {db.users[u].home : u \in People(db, trips)} \ {None}
  OBVIOUS
<1> PICK pictures : pictures = {page.pictures[p] : p \in {p \in DOMAIN page.pictures : PlaceHidden(page, p)}}
  OBVIOUS
<1> PICK points : points = (View!PointsShown(page.doc) \cup {picture.at : picture \in pictures}) \ {None}
  OBVIOUS
<1> PICK zones : zones = PrivacyZones(db, page.trip)
  OBVIOUS
<1>1. zones = homes /\ \A home \in zones : home # None /\ HomeOK(home)
  BY ZonesCover
<1>2. ASSUME NEW home \in homes, NEW at \in points
      PROVE  at # home.home /\ at \notin (home.center - home.radius)..(home.center + home.radius)
  <2>1. home \in zones /\ home \in [home : Int, center : Int, radius : Int] /\ View!InZone({home}, home.home)
    BY <1>1, <1>2 DEF HomeOK
  <2>2. ~View!InZone(zones, at)
    <3>1. at # None /\ (at \in View!PointsShown(page.doc) \/ \E picture \in pictures : at = picture.at)
      BY <1>2
    <3>2. \A picture \in pictures : ~View!Hides(zones, picture.at)
      OBVIOUS
    <3>3. ~View!Hides(zones, at)
      BY <3>1, <3>2
    <3> QED
      BY <3>1, <3>3 DEF View!Hides
  <2> QED
    BY ONLY <2>1, <2>2, PointOutside
<1> QED
  BY <1>2 DEF KeepsSecrets

LEMMA PictureHidden ==
  ASSUME NEW zones, NEW picture, PictureRow(picture), NEW shown \in {View!Media(zones, picture), Scrubbed(picture, zones)}
  PROVE  /\ shown = View!Media(zones, picture) \/ shown.mime = "image/jpeg" => ~View!Hides(zones, shown.at)
         /\ shown.private = picture.private
BY DEF PictureRow, View!Media, View!Hides, View!InZone, Scrubbed, hidesLocation

LEMMA NoDocumentShows ==
  View!PointsShown(NoDocument) = {} /\ View!Private(NoDocument) = {}
<1>1. View!Items(<<>>) = {}
  BY DEF View!Items
<1>2. NoDocument.places = <<>> /\ NoDocument.transfers = <<>> /\ NoDocument.legs = <<>> /\ NoDocument.tracks = <<>>
  BY DEF NoDocument
<1> QED
  BY <1>1, <1>2 DEF View!PointsShown, View!Private

Paged(page, c, trip, outside, private, doc, pictures) ==
  /\ page.client = c /\ page.trip = trip /\ page.outside = outside /\ page.private = private
  /\ page.doc = doc /\ page.pictures = pictures

LEMMA AnswersSafe ==
  ASSUME Shaped, SInv, NEW c \in Clients, NEW trip, NEW outside, NEW private, NEW doc, NEW pictures,
         Answers(c, trip, outside, private, doc, pictures)
  PROVE  SInv' /\ Paged(past'.page, c, trip, outside, private, doc, pictures)
<1>1. Moved(c, "done", task[c].seen)
  BY GoesMoved DEF Answers, Moves
<1>2. SameTrips(db, db') /\ past'.opened = past.opened
  BY DEF Answers, SameTrips, Shaped, Pasts
<1>3. past'.page = [client |-> c, trip |-> trip, outside |-> outside, private |-> private, doc |-> doc, pictures |-> pictures]
  BY DEF Answers, Shaped, Pasts
<1>4. SInv'
  BY <1>1, <1>2, AsideKeeps
<1> QED
  BY <1>3, <1>4 DEF Paged

LEMMA sharedPagesSafe ==
  ASSUME Shaped, SInv, NEW c \in Clients, handleSharedDocument(c) \/ handleSharedMediaFile(c)
  PROVE  SInv' /\ KeepsSecrets(past'.page) /\ StopsAtOnce(past'.page)
<1> PICK zones : zones = PrivacyZones(db, Trip(c))
  OBVIOUS
<1> PICK pictures : pictures = task[c].seen.pictures
  OBVIOUS
<1> PICK private : private = Link(c).private
  OBVIOUS
<1>1. TablesOK(db) /\ Pictures(pictures, private) /\ Req(c).op # "open"
  BY DEF SInv, SeenOK, PicturesRead, handleSharedDocument, handleSharedMediaFile, At, Link
<1>2. ASSUME NEW doc, NEW shown, Answers(c, Trip(c), TRUE, private, doc, shown), DOMAIN shown = DOMAIN pictures,
             \A p \in DOMAIN shown : shown[p] \in {View!Media(zones, pictures[p]), Scrubbed(pictures[p], zones)},
             Req(c).op = "sharedDocument" => \A p \in DOMAIN shown : shown[p] = View!Media(zones, pictures[p]),
             \A at \in View!PointsShown(doc) : ~View!Hides(zones, at), View!Private(doc) \subseteq {None, ""}
      PROVE  SInv' /\ KeepsSecrets(past'.page) /\ StopsAtOnce(past'.page)
  <2> PICK page : page = past'.page
    OBVIOUS
  <2>1. /\ SInv' /\ page.client = c /\ page.trip = Trip(c) /\ page.private = private /\ page.doc = doc /\ page.pictures = shown
    <3>1. SInv' /\ Paged(past'.page, c, Trip(c), TRUE, private, doc, shown)
      BY ONLY Shaped, SInv, c \in Clients, Answers(c, Trip(c), TRUE, private, doc, shown), AnswersSafe
    <3> QED
      BY <3>1 DEF Paged
  <2>2. \A p \in DOMAIN shown : /\ PlaceHidden(page, p) => ~View!Hides(zones, shown[p].at)
                                /\ shown[p].private => private
    <3> TAKE p \in DOMAIN shown
    <3>1. PictureRow(pictures[p]) /\ (pictures[p].private => private)
      BY <1>1, <1>2 DEF Pictures
    <3>2. shown[p] \in {View!Media(zones, pictures[p]), Scrubbed(pictures[p], zones)}
      BY <1>2
    <3>3. /\ shown[p] = View!Media(zones, pictures[p]) \/ shown[p].mime = "image/jpeg" => ~View!Hides(zones, shown[p].at)
          /\ shown[p].private = pictures[p].private
      BY ONLY <3>1, <3>2, PictureHidden
    <3>4. PlaceHidden(page, p) => shown[p] = View!Media(zones, pictures[p]) \/ shown[p].mime = "image/jpeg"
      BY <1>2, <2>1 DEF PlaceHidden
    <3> QED
      BY <3>1, <3>3, <3>4
  <2>3. KeepsSecrets(page)
    <3>1. /\ \A at \in View!PointsShown(page.doc) : ~View!Hides(PrivacyZones(db, page.trip), at)
          /\ \A p \in DOMAIN page.pictures : PlaceHidden(page, p) => ~View!Hides(PrivacyZones(db, page.trip), page.pictures[p].at)
      <4>1. \A at \in View!PointsShown(doc) : ~View!Hides(zones, at)
        BY <1>2
      <4>2. page.doc = doc /\ page.pictures = shown /\ PrivacyZones(db, page.trip) = zones
        BY <2>1
      <4> QED
        BY ONLY <2>2, <4>1, <4>2
    <3>2. View!Private(page.doc) \subseteq {None, ""} /\ \A p \in DOMAIN page.pictures : page.pictures[p].private => page.private
      BY <1>2, <2>1, <2>2
    <3> QED
      BY <1>1, <3>1, <3>2, SecretsKept
  <2>4. StopsAtOnce(page)
    BY <1>1, <2>1 DEF StopsAtOnce
  <2> QED
    BY <2>1, <2>3, <2>4
<1>3. CASE handleSharedDocument(c)
  <2> PICK read : read = task[c].seen.doc
    OBVIOUS
  <2> PICK shown : shown = [p \in DOMAIN pictures |-> View!Media(zones, pictures[p])]
    OBVIOUS
  <2>1. Answers(c, Trip(c), TRUE, private, ForLink(read, zones), shown)
    BY <1>3 DEF handleSharedDocument
  <2>2. View!Document(read)
    BY <1>3 DEF handleSharedDocument, At, SInv, SeenOK, DocumentRead
  <2> PICK doc : doc = View!ForShareLink(read)
    OBVIOUS
  <2>3. View!Document(doc) /\ Unowned(doc)
    BY <2>2, ForShareLinkUnowned
  <2>4. \A at \in View!PointsShown(View!Outside(doc, zones)) : ~View!Hides(zones, at)
    BY <2>3, OutsideHides
  <2>5. View!Private(View!Outside(doc, zones)) \subseteq {None, ""}
    BY <2>3, OutsideTellsNothing
  <2>6. ForLink(read, zones) = View!Outside(doc, zones)
    BY DEF ForLink
  <2>7. DOMAIN shown = DOMAIN pictures /\ \A p \in DOMAIN shown : shown[p] = View!Media(zones, pictures[p])
    OBVIOUS
  <2> PICK outside : outside = View!Outside(doc, zones)
    OBVIOUS
  <2>8. /\ Answers(c, Trip(c), TRUE, private, outside, shown)
        /\ Req(c).op = "sharedDocument" => \A p \in DOMAIN shown : shown[p] = View!Media(zones, pictures[p])
        /\ \A p \in DOMAIN shown : shown[p] \in {View!Media(zones, pictures[p]), Scrubbed(pictures[p], zones)}
        /\ \A at \in View!PointsShown(outside) : ~View!Hides(zones, at)
        /\ View!Private(outside) \subseteq {None, ""}
    BY <2>1, <2>4, <2>5, <2>6, <2>7
  <2> QED
    BY ONLY <1>2, <2>7, <2>8
<1>4. CASE handleSharedMediaFile(c)
  <2> PICK shown : shown = [p \in DOMAIN pictures |-> Scrubbed(pictures[p], zones)]
    OBVIOUS
  <2>1. Answers(c, Trip(c), TRUE, private, NoDocument, shown)
    BY <1>4 DEF handleSharedMediaFile
  <2>2. DOMAIN shown = DOMAIN pictures /\ \A p \in DOMAIN shown : shown[p] = Scrubbed(pictures[p], zones)
    OBVIOUS
  <2>3. /\ \A p \in DOMAIN shown : shown[p] \in {View!Media(zones, pictures[p]), Scrubbed(pictures[p], zones)}
        /\ Req(c).op # "sharedDocument"
    BY <1>4, <2>2 DEF handleSharedMediaFile, At
  <2>4. (\A at \in View!PointsShown(NoDocument) : ~View!Hides(zones, at)) /\ View!Private(NoDocument) \subseteq {None, ""}
    BY NoDocumentShows
  <2> QED
    BY ONLY <1>2, <2>1, <2>2, <2>3, <2>4
<1> QED
  BY <1>3, <1>4

LEMMA handleDownloadSafe ==
  ASSUME Shaped, SInv, NEW c \in Clients, handleDownload(c)
  PROVE  SInv' /\ KeepsSecrets(past'.page) /\ StopsAtOnce(past'.page)
<1> PICK outside : outside = (Ticket(c).reader.user = None)
  OBVIOUS
<1> PICK zones : zones = IF outside THEN PrivacyZones(db, Ticket(c).trip) ELSE {}
  OBVIOUS
<1> PICK items : items = task[c].seen.items
  OBVIOUS
<1> PICK private : private = task[c].seen.private
  OBVIOUS
<1> PICK shown : shown = [p \in DOMAIN items |-> Scrubbed(items[p], zones)]
  OBVIOUS
<1> PICK page : page = past'.page
  OBVIOUS
<1>1. Answers(c, Ticket(c).trip, outside, private, NoDocument, shown)
  BY DEF handleDownload
<1>2. /\ SInv' /\ page.client = c /\ page.trip = Ticket(c).trip /\ page.outside = outside /\ page.private = private
      /\ page.doc = NoDocument /\ page.pictures = shown
  <2>1. SInv' /\ Paged(past'.page, c, Ticket(c).trip, outside, private, NoDocument, shown)
    BY ONLY Shaped, SInv, c \in Clients, <1>1, AnswersSafe
  <2> QED
    BY <2>1 DEF Paged
<1>3. TablesOK(db) /\ Pictures(items, private) /\ DOMAIN items \subseteq past.opened[c]
  BY DEF handleDownload, At, SInv, SeenOK, OpenedOK
<1>4. \A p \in DOMAIN shown : /\ PlaceHidden(page, p) => ~View!Hides(zones, shown[p].at)
                              /\ shown[p].private => private
  <2> TAKE p \in DOMAIN shown
  <2>1. PictureRow(items[p]) /\ (items[p].private => private)
    BY <1>3 DEF Pictures
  <2>2. shown[p] \in {View!Media(zones, items[p]), Scrubbed(items[p], zones)}
    OBVIOUS
  <2>3. (shown[p].mime = "image/jpeg" => ~View!Hides(zones, shown[p].at)) /\ shown[p].private = items[p].private
    BY ONLY <2>1, <2>2, PictureHidden
  <2>4. PlaceHidden(page, p) => shown[p].mime = "image/jpeg"
    BY <1>2 DEF PlaceHidden, handleDownload, At
  <2> QED
    BY <2>1, <2>3, <2>4
<1>5. KeepsSecrets(page)
  <2>1. CASE ~outside
    BY <1>2, <2>1 DEF KeepsSecrets
  <2>2. CASE outside
    <3>1. /\ \A at \in View!PointsShown(page.doc) : ~View!Hides(PrivacyZones(db, page.trip), at)
          /\ \A p \in DOMAIN page.pictures : PlaceHidden(page, p) => ~View!Hides(PrivacyZones(db, page.trip), page.pictures[p].at)
      <4>1. \A at \in View!PointsShown(page.doc) : ~View!Hides(PrivacyZones(db, page.trip), at)
        BY <1>2, NoDocumentShows
      <4>2. page.pictures = shown /\ zones = PrivacyZones(db, page.trip)
        BY <1>2, <2>2
      <4>3. \A p \in DOMAIN page.pictures : PlaceHidden(page, p) => ~View!Hides(zones, shown[p].at)
        BY <1>4, <4>2
      <4> QED
        BY <4>1, <4>2, <4>3
    <3>2. View!Private(page.doc) \subseteq {None, ""} /\ \A p \in DOMAIN page.pictures : page.pictures[p].private => page.private
      <4>1. View!Private(page.doc) \subseteq {None, ""}
        BY <1>2, NoDocumentShows
      <4>2. page.pictures = shown /\ page.private = private
        BY <1>2
      <4>3. \A p \in DOMAIN page.pictures : shown[p].private => private
        BY <1>4, <4>2
      <4> QED
        BY <4>1, <4>2, <4>3
    <3> QED
      BY <1>3, <3>1, <3>2, SecretsKept
  <2> QED
    BY <2>1, <2>2
<1>6. StopsAtOnce(page)
  BY <1>2, <1>3 DEF StopsAtOnce
<1> QED
  BY <1>2, <1>5, <1>6

LEMMA StepSafe ==
  ASSUME IInv, SInv, NEW c \in Clients, Step(c)
  PROVE  SInv' /\ (Answered => KeepsSecrets(past'.page) /\ StopsAtOnce(past'.page))
<1>s. Shaped
  BY DEF IInv
<1>q. Silent => ~Answered
  BY DEF Silent, Answered
<1>1. CASE \/ ideaFor(c) \/ lockEditableIdea(c) \/ handleUpdateIdea(c) \/ handleDeleteIdea(c)
           \/ createAllowed(c) \/ createEditor(c) \/ handleCreateIdea(c)
  BY <1>1, <1>s, <1>q, ideasSafe
<1>2. CASE \/ tagsReader(c) \/ tagsCleared(c) \/ handleSetIdeaTags(c) \/ handleSetTripTags(c)
           \/ handleCreateTag(c) \/ handleUpdateTag(c) \/ handleDeleteTag(c)
  BY <1>2, <1>s, <1>q, tagsSafe
<1>3. CASE handleAddIdeaMember(c) \/ handleUpdateIdeaMember(c) \/ handleRemoveIdeaMember(c) \/ handleLeaveIdeaList(c)
  BY <1>3, <1>s, <1>q, membersSafe
<1>4. CASE \/ invitee(c) \/ acceptor(c) \/ handlePreviewIdeaInvitation(c)
           \/ handleCreateIdeaInvitation(c) \/ handleRevokeIdeaInvitation(c) \/ handleAcceptIdeaInvitation(c)
  BY <1>4, <1>s, <1>q, invitationsSafe
<1>5. CASE handleRegisterIdeaInvitation(c) \/ handleDeleteMe(c)
  BY <1>5, <1>q, registerSafe, deleteMeSafe
<1>6. CASE managesLinks(c) \/ handleCreateShareLink(c) \/ handleRevokeShareLink(c) \/ handleShared(c)
  BY <1>6, <1>q, linksSafe
<1>7. CASE requireShareToken(c) \/ sharedContent(c) \/ sharedGallery(c) \/ sharedMedia(c)
  BY <1>7, <1>s, <1>q, requireShareTokenSafe, sharedReadsSafe
<1>8. CASE handleSharedDocument(c) \/ handleSharedMediaFile(c) \/ handleDownload(c)
  BY <1>8, <1>s, sharedPagesSafe, handleDownloadSafe
<1>9. CASE \/ handleMediaDownload(c) \/ handleSharedMediaDownload(c) \/ redeem(c)
           \/ downloadReader(c) \/ stillDownloadable(c)
  BY <1>9, <1>s, <1>q, downloadsIssued, redeemSafe, addressReadsSafe
<1>10. CASE homeBody(c) \/ handleSetHome(c) \/ handleDeleteHome(c)
  BY <1>10, <1>q, homesSafe
<1>11. CASE joinTrip(c) \/ leaveTrip(c) \/ movePlace(c) \/ hidePicture(c) \/ deleteTrip(c) \/ TripGone(c)
  BY <1>11, <1>q, joinTripSafe, tripsSafe
<1> QED
  BY ONLY Step(c), <1>1, <1>2, <1>3, <1>4, <1>5, <1>6, <1>7, <1>8, <1>9, <1>10, <1>11 DEF Step

LEMMA NextSafe ==
  IInv /\ SInv /\ [Next]_vars => SInv' /\ (Answered => KeepsSecrets(past'.page) /\ StopsAtOnce(past'.page))
<1> SUFFICES ASSUME IInv, SInv, [Next]_vars
             PROVE  SInv' /\ (Answered => KeepsSecrets(past'.page) /\ StopsAtOnce(past'.page))
  OBVIOUS
<1>1. ASSUME NEW c \in Clients, Step(c) PROVE SInv' /\ (Answered => KeepsSecrets(past'.page) /\ StopsAtOnce(past'.page))
  BY <1>1, StepSafe
<1>2. CASE Tick \/ UNCHANGED vars
  BY <1>2, TimeSafe DEF Silent, Answered
<1> QED
  BY <1>1, <1>2 DEF Next, Rest

(* Whatever is read before and after what changes meanwhile, no answer     *)
(* shows an outsider a point in the circle of a home, a booking, who pays   *)
(* or a picture kept private - but for where a PNG or a WebP was taken that *)
(* is sent as its file; and an address serves no more than its reader       *)
(* might read as it was opened, or as they were let in again meanwhile      *)
(* (httpapi/shares.go, mediadownload.go; domain/privacy.go).                *)
THEOREM SecretsAreKept == Spec => AnswersKeepSecrets
<1> DEFINE Safe == Answered => KeepsSecrets(past'.page) /\ StopsAtOnce(past'.page)
<1>1. Init => SInv
  BY InitSInv
<1>2. IInv /\ SInv /\ [Next]_vars => SInv' /\ [Safe]_vars
  BY NextSafe
<1>3. Spec => []IInv
  BY SharingInvariant
<1>4. Spec => [][Safe]_vars
  BY <1>1, <1>2, <1>3, PTL DEF Spec
<1> QED
  BY <1>4 DEF AnswersKeepSecrets
===============================================================================
