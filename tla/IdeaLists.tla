------------------------------- MODULE IdeaLists -------------------------------
(* Lists of ideas and a person's tags as they are stored                      *)
(* (storage/postgres/ideas.go, tags.go and the invitations to a list in       *)
(* invitations.go). Each operator is what one transaction, or one statement   *)
(* of a transaction that may be overtaken, makes of the tables d:             *)
(* users, members (<<owner, user>> -> role), ideas, history (when a change    *)
(* began -> the entry), tags, worn (<<tag, thing>>), invites, trips.          *)
EXTENDS Integers, Sequences, FiniteSets
LOCAL INSTANCE SequencesExt

CONSTANTS None, TagColors

\* The rows of g beside those of f, which come first where both have one.
Over(f, g) == [i \in DOMAIN f \cup DOMAIN g |-> IF i \in DOMAIN f THEN f[i] ELSE g[i]]

Only(rows, ids) == [i \in ids |-> rows[i]]

\* One row more, under a key of its own.
Add(rows, id, row) == Over(rows, [i \in {id} |-> row])

ListRole(d, reader, owner) ==
  CASE reader = owner -> "owner"
    [] <<owner, reader>> \in DOMAIN d.members -> d.members[<<owner, reader>>]
    [] OTHER -> None

ideaEditable(d, actor, owner) == ListRole(d, actor, owner) \in {"owner", "editor"}

\* The ideas a person may open.
List(d, reader) == {id \in DOMAIN d.ideas : ListRole(d, reader, d.ideas[id].owner) # None}

\* The entries of a list, or of one idea of it. They are told in the order of
\* their stamps: the moment the transaction that wrote one began.
History(d, owner, id) ==
  Only(d.history, {k \in DOMAIN d.history : d.history[k].owner = owner /\ id \in {None, d.history[k].idea}})

(********************************** changes ********************************)

logIdeaChange(d, began, owner, id, title, actor, action) ==
  [d EXCEPT !.history = Add(@, began, [owner |-> owner, idea |-> id, title |-> title, user |-> actor, action |-> action])]

Create(d, began, actor, id, idea) ==
  LET row == Over([createdBy |-> actor, updatedBy |-> actor], idea)
  IN logIdeaChange([d EXCEPT !.ideas = Add(@, id, row)], began, idea.owner, id, idea.title, actor, "created")

\* The owner stays, and who put the idea on the list.
Changed(old, actor, idea) == Over([owner |-> old.owner, createdBy |-> old.createdBy, updatedBy |-> actor], idea)

UpdateUnderTheOldTitle(d, began, actor, id, idea) ==
  LET old == d.ideas[id]
  IN logIdeaChange([d EXCEPT !.ideas[id] = Changed(old, actor, idea)], began, old.owner, id, old.title, actor, "updated")

Update(d, began, actor, id, idea) ==
  LET old == d.ideas[id]
  IN logIdeaChange([d EXCEPT !.ideas[id] = Changed(old, actor, idea)], began, old.owner, id, idea.title, actor, "updated")

\* What goes with some ideas: their tags; the history keeps only their titles.
Forget(d, gone) ==
  [d EXCEPT !.ideas = Only(@, DOMAIN @ \ gone), !.worn = {w \in @ : w[2] \notin gone},
            !.history = [k \in DOMAIN d.history |-> LET e == d.history[k] IN IF e.idea \in gone THEN [e EXCEPT !.idea = None] ELSE e]]

Delete(d, began, actor, id) ==
  LET row == d.ideas[id] IN Forget(logIdeaChange(d, began, row.owner, id, row.title, actor, "deleted"), {id})

(*********************************** members *******************************)

Joined(d, owner, user, role) == [d EXCEPT !.members = Add(@, <<owner, user>>, role)]

AddAllowed(d, owner, user) ==
  user # owner /\ user \in DOMAIN d.users /\ d.users[user].active /\ <<owner, user>> \notin DOMAIN d.members

UpdateMember(d, owner, user, role) == [d EXCEPT !.members[<<owner, user>>] = role]

OwnTags(d, user) == {g \in DOMAIN d.tags : d.tags[g].user = user}

RemoveMembershipOnly(d, owner, user) == [d EXCEPT !.members = Only(@, DOMAIN @ \ {<<owner, user>>})]

\* Their tags on the ideas of the list go with the membership.
RemoveMember(d, owner, user) ==
  [d EXCEPT !.members = Only(@, DOMAIN @ \ {<<owner, user>>}),
            !.worn = {w \in @ : ~(/\ w[1] \in OwnTags(d, user)
                                  /\ w[2] \in DOMAIN d.ideas /\ d.ideas[w[2]].owner = owner)}]

(************************************* tags ********************************)

WornBy(d, user, thing) == {w \in d.worn : w[2] = thing /\ w[1] \in OwnTags(d, user)}

SameTagName(d, user, name) == {g \in OwnTags(d, user) : d.tags[g].name[1] = name[1]}

\* The colour the person's tags use least, the earlier in the palette on a tie.
LeastUsed(d, user) ==
  LET uses(color) == Cardinality({g \in OwnTags(d, user) : d.tags[g].color = color})
  IN FoldLeft(LAMBDA best, color : IF uses(color) < uses(best) THEN color ELSE best, TagColors[1], TagColors)

CreateTag(d, user, id, name, color) ==
  [d EXCEPT !.tags = Add(@, id, [user |-> user, name |-> name, color |-> IF color = None THEN LeastUsed(d, user) ELSE color])]

UpdateTag(d, id, set) == [d EXCEPT !.tags[id] = Over(set, @)]

DeleteTags(d, gone) == [d EXCEPT !.tags = Only(@, DOMAIN @ \ gone), !.worn = {w \in @ : w[1] \notin gone}]

\* Each of a person's tags with the trips and the ideas that wear it; of the
\* trips only those the person can open are counted.
TagList(d, user, opens) ==
  [g \in OwnTags(d, user) |->
     [trips |-> Cardinality({w \in d.worn : w[1] = g /\ w[2] \in opens}),
      ideas |-> Cardinality({w \in d.worn : w[1] = g /\ w[2] \in DOMAIN d.ideas})]]

(********************************* invitations *****************************)

Open(invite) == invite.state = "open"
RedeemableUnrevoked(invite, now) == invite.state # "revoked" /\ now < invite.until
Redeemable(invite, now) == Open(invite) /\ now < invite.until

InvitedAlready(d, owner, email) ==
  \E user \in DOMAIN d.users : d.users[user].email = email /\ ListRole(d, user, owner) # None

OpenTo(d, owner, email) == {i \in DOMAIN d.invites : LET v == d.invites[i] IN v.owner = owner /\ v.email = email /\ Open(v)}

closeExpired(d, owner, email, now) ==
  LET past == {i \in OpenTo(d, owner, email) : d.invites[i].until <= now}
  IN [d EXCEPT !.invites = [i \in DOMAIN d.invites |-> IF i \in past THEN [d.invites[i] EXCEPT !.state = "revoked"]
                                                       ELSE d.invites[i]]]

CreateIdeaInvitation(d, id, invite) == [d EXCEPT !.invites = Add(@, id, invite)]

Revoke(d, id) == [d EXCEPT !.invites[id].state = "revoked"]

\* The invitation is spent and its bearer joins.
Spend(d, id, user) ==
  LET invite == d.invites[id]
  IN [Joined(d, invite.owner, user, invite.role) EXCEPT !.invites[id].state = "accepted", !.invites[id].by = user]

\* row is the account as it was read when the request was let in.
AcceptAllowed(d, id, user, row, now) ==
  LET invite == d.invites[id]
  IN /\ Redeemable(invite, now)
     /\ row.active /\ row.email = invite.email
     /\ user \in DOMAIN d.users
     /\ invite.owner # user /\ <<invite.owner, user>> \notin DOMAIN d.members

(********************************* an account ******************************)

\* Whoever accepted an invitation that is still kept cannot be deleted: the row
\* would name the time it was accepted and nobody.
Deletable(d, user) == \A i \in DOMAIN d.invites : d.invites[i].by = user => d.invites[i].owner = user

\* The list goes with its owner, the names and the memberships with everybody.
DropUser(d, user) ==
  LET own == {id \in DOMAIN d.ideas : d.ideas[id].owner = user}
      rest == DeleteTags(Forget(d, own), OwnTags(d, user))
      kept == {k \in DOMAIN rest.history : rest.history[k].owner # user}
      nobody(name) == IF name = user THEN None ELSE name
  IN [rest EXCEPT
        !.users = Only(@, DOMAIN @ \ {user}),
        !.members = Only(@, {pair \in DOMAIN d.members : user \notin {pair[1], pair[2]}}),
        !.invites = Only(@, {i \in DOMAIN d.invites : d.invites[i].owner # user}),
        !.ideas = [id \in DOMAIN rest.ideas |-> [rest.ideas[id] EXCEPT !.createdBy = nobody(@), !.updatedBy = nobody(@)]],
        !.history = [k \in kept |-> [rest.history[k] EXCEPT !.user = nobody(@)]],
        !.trips = [t \in DOMAIN d.trips |-> [d.trips[t] EXCEPT !.members = @ \ {user}]]]

\* An account that never confirmed its address, which no other account has.
dropUnverified(d, email) ==
  LET waiting == {u \in DOMAIN d.users : d.users[u].email = email /\ d.users[u].unverified}
  IN IF waiting = {} THEN d ELSE DropUser(d, CHOOSE u \in waiting : TRUE)
===============================================================================
