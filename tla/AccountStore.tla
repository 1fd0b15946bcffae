---------------------------- MODULE AccountStore ----------------------------
(* The tables behind accounts - storage/postgres/users.go, sessions.go,       *)
(* invitations.go, registration.go and the members of trips.go - and what     *)
(* each repository transaction makes of them.  A transaction is an operator   *)
(* from the database as it was to the database as it commits; what it checks  *)
(* under its locks is an operator of its own, so that a caller says what it   *)
(* does when refused.  Where a transaction reads without a lock what another  *)
(* one may change before it writes, it is two operators and the caller takes  *)
(* a step for each.                                                           *)
(*                                                                            *)
(* A table maps identifiers to rows, None (never used) or Gone (deleted).     *)
(* Passwords, tokens and messages are counted rather than spelled: a row      *)
(* holds the number of the one it has now.                                    *)
EXTENDS Naturals, FiniteSets

CONSTANTS
  Addresses,      \* email addresses
  UserIds,        \* identifiers of accounts, 1 .. n
  SessionIds,     \* identifiers of sessions, 1 .. n
  TokenIds,       \* identifiers of reset links and of either invitation, 1 .. n
  Trips,          \* identifiers of trips
  MaxVerificationAttempts,
  None, Gone

Rows(table) == {i \in DOMAIN table : table[i] \notin {None, Gone}}

\* There are as many identifiers as the constants say.
HasRoom(table) == \E i \in DOMAIN table : table[i] = None

\* The next identifier a table hands out.
Fresh(table) == CHOOSE i \in DOMAIN table :
                  table[i] = None /\ \A j \in DOMAIN table : table[j] = None => i <= j

UserRow == [email : Addresses, admin : BOOLEAN, active : BOOLEAN,
            unverified : BOOLEAN, old : BOOLEAN, pw : Nat]
\* revoked says who ended a session; pw is the password it was opened with and
\* late whether that was no longer the account's state when the row was written.
SessionRow == [user : UserIds, token : Nat, recent : BOOLEAN, expired : BOOLEAN,
               revoked : {"no", "person", "replay"}, pw : Nat, late : BOOLEAN]
ResetRow == [user : UserIds, used : BOOLEAN, expired : BOOLEAN, uses : Nat]
CodeRow == [message : Nat, attempts : Nat, expired : BOOLEAN, recent : BOOLEAN]
InviteRow == [email : Addresses, admin : BOOLEAN, expired : BOOLEAN, by : UserIds,
              accepted : BOOLEAN, revoked : BOOLEAN, uses : Nat]
TripInviteRow == [trip : Trips, email : Addresses, expired : BOOLEAN, by : UserIds,
                  accepted : UserIds \cup {None, Gone}, revoked : BOOLEAN, uses : Nat]

Database ==
  [users : [UserIds -> UserRow \cup {None, Gone}],
   sessions : [SessionIds -> SessionRow \cup {None, Gone}],
   resets : [TokenIds -> ResetRow \cup {None, Gone}],
   codes : [UserIds -> CodeRow \cup {None}],
   invites : [TokenIds -> InviteRow \cup {None, Gone}],
   tripInvites : [TokenIds -> TripInviteRow \cup {None, Gone}],
   owner : [Trips -> UserIds \cup {Gone}],
   members : SUBSET (Trips \X UserIds)]

ASSUME StoreAssumption ==
  /\ UserIds \subseteq Nat /\ SessionIds \subseteq Nat /\ TokenIds \subseteq Nat
  /\ MaxVerificationAttempts \in Nat
  /\ None # Gone
  /\ \A nothing \in {None, Gone} :
       nothing \notin UserIds \cup UserRow \cup SessionRow \cup ResetRow \cup CodeRow
                       \cup InviteRow \cup TripInviteRow

(******************************** accounts *******************************)

Holders(d, email) == {u \in Rows(d.users) : d.users[u].email = email}

\* users_email_key: one account to an address.
AddressFree(d, email) == Holders(d, email) = {}

GetByEmail(d, email) == CHOOSE u \in Holders(d, email) : TRUE

NewUser(email, admin, active, unverified) ==
  [email |-> email, admin |-> admin, active |-> active,
   unverified |-> unverified, old |-> FALSE, pw |-> 1]

CreateUser(d, row) == [d EXCEPT !.users[Fresh(d.users)] = row]

IsAdministrator(row) == row.admin /\ row.active

Administrators(d) == {u \in Rows(d.users) : IsAdministrator(d.users[u])}

EndSessions(d, ended) ==
  [d EXCEPT !.sessions = [s \in SessionIds |->
     IF s \in ended /\ d.sessions[s].revoked = "no"
     THEN [d.sessions[s] EXCEPT !.revoked = "person"] ELSE d.sessions[s]]]

SessionsOf(d, u) == {s \in Rows(d.sessions) : d.sessions[s].user = u}

revokeAllSessions(d, u) == EndSessions(d, SessionsOf(d, u))

\* Mutant: the other sessions outlive the password.
KeepsOtherSessions(d, u, keep) == [d EXCEPT !.users[u].pw = @ + 1]

\* The one who changes the password stays signed in, by the new password.
SetOwnPassword(d, u, keep) ==
  LET changed == [d EXCEPT !.users[u].pw = @ + 1]
      ended == EndSessions(changed, SessionsOf(d, u) \ {keep})
  IN IF keep \in SessionsOf(d, u) THEN [ended EXCEPT !.sessions[keep].pw = changed.users[u].pw]
     ELSE ended

ResetUserPassword(d, u) == revokeAllSessions([d EXCEPT !.users[u].pw = @ + 1], u)

Changed(row, change) ==
  CASE change = "promote" -> [row EXCEPT !.admin = TRUE]
    [] change = "demote" -> [row EXCEPT !.admin = FALSE]
    [] change = "activate" -> [row EXCEPT !.active = TRUE, !.unverified = FALSE]
    [] change = "deactivate" -> [row EXCEPT !.active = FALSE]

\* Counted after the change, in what the transaction sees.
UpdateAllowed(d, u, change) ==
  Administrators([d EXCEPT !.users[u] = Changed(@, change)]) # {}

Update(d, u, change) ==
  LET updated == [d EXCEPT !.users[u] = Changed(@, change)]
  IN IF updated.users[u].active THEN updated ELSE revokeAllSessions(updated, u)

DeleteAllowed(d, u) ==
  IsAdministrator(d.users[u]) => Administrators(d) \ {u} # {}

\* ON DELETE CASCADE of the tables whose rows belong to an account (user) or
\* were made by one (by), and ON DELETE SET NULL of an acceptance.
WithoutUsers(table, gone) ==
  [i \in DOMAIN table |-> IF i \in Rows(table) /\ table[i].user \in gone THEN Gone ELSE table[i]]

WithoutCreators(table, gone) ==
  [i \in DOMAIN table |-> IF i \in Rows(table) /\ table[i].by \in gone THEN Gone ELSE table[i]]

WithoutAcceptance(table, gone) ==
  [i \in DOMAIN table |-> IF i \in Rows(table) /\ table[i].accepted \in gone
                          THEN [table[i] EXCEPT !.accepted = Gone] ELSE table[i]]

DropUsers(d, gone) ==
  [d EXCEPT
     !.users = [u \in UserIds |-> IF u \in gone THEN Gone ELSE d.users[u]],
     !.sessions = WithoutUsers(d.sessions, gone),
     !.resets = WithoutUsers(d.resets, gone),
     !.codes = [u \in UserIds |-> IF u \in gone THEN None ELSE d.codes[u]],
     !.invites = WithoutCreators(d.invites, gone),
     !.tripInvites = WithoutAcceptance(WithoutCreators(d.tripInvites, gone), gone),
     !.members = {m \in d.members : m[2] \notin gone}]

\* trip_invitations: CHECK ((accepted_at IS NULL) = (accepted_by IS NULL)).
AcceptanceNamed(d) == \A i \in Rows(d.tripInvites) : d.tripInvites[i].accepted # Gone

DeleteTrips(d, gone) ==
  [d EXCEPT !.owner = [t \in Trips |-> IF t \in gone THEN Gone ELSE d.owner[t]],
            !.members = {m \in d.members : m[1] \notin gone},
            !.tripInvites = [i \in TokenIds |->
               IF i \in Rows(d.tripInvites) /\ d.tripInvites[i].trip \in gone
               THEN Gone ELSE d.tripInvites[i]]]

DeleteUser(d, u) == DropUsers(DeleteTrips(d, {t \in Trips : d.owner[t] = u}), {u})

(******************************** sessions *******************************)

CreateSession(d, u, pw, late) ==
  [d EXCEPT !.sessions[Fresh(d.sessions)] =
     [user |-> u, token |-> 1, recent |-> FALSE, expired |-> FALSE,
      revoked |-> "no", pw |-> pw, late |-> late]]

IsUsable(row) == row.revoked = "no" /\ ~row.expired

\* The account behind a live session of an active account.
ActiveUser(d, s) ==
  /\ s \in Rows(d.sessions)
  /\ IsUsable(d.sessions[s])
  /\ d.users[d.sessions[s].user].active

\* A session keeps the token it has and the one before.
GetByHash(d, s, token) == s \in Rows(d.sessions) /\ d.sessions[s].token = token

Superseded(d, s, token) == s \in Rows(d.sessions) /\ d.sessions[s].token = token + 1

RotateAllowed(d, s, token) == GetByHash(d, s, token) /\ d.sessions[s].revoked = "no"

Rotate(d, s) ==
  [d EXCEPT !.sessions[s].token = @ + 1, !.sessions[s].recent = TRUE, !.sessions[s].expired = FALSE]

Revoke(d, s, reason) ==
  IF s \in Rows(d.sessions) /\ d.sessions[s].revoked = "no"
  THEN [d EXCEPT !.sessions[s].revoked = reason] ELSE d

\* ended names the sessions that ended longer ago than they are retained.
DeleteFinished(d, ended) ==
  [d EXCEPT !.sessions = [s \in SessionIds |->
     IF s \in ended /\ ~IsUsable(d.sessions[s]) THEN Gone ELSE d.sessions[s]]]

(**************************** password recovery **************************)

\* The links a statement that began when next was the next identifier sees.
closePasswordResets(d, u, next) ==
  [d EXCEPT !.resets = [i \in TokenIds |->
     IF i \in Rows(d.resets) /\ i < next /\ d.resets[i].user = u
     THEN [d.resets[i] EXCEPT !.used = TRUE] ELSE d.resets[i]]]

CreatePasswordReset(d, u, next) ==
  [closePasswordResets(d, u, next) EXCEPT !.resets[Fresh(d.resets)] =
     [user |-> u, used |-> FALSE, expired |-> FALSE, uses |-> 0]]

PasswordResetValid(d, i) == i \in Rows(d.resets) /\ ~d.resets[i].used /\ ~d.resets[i].expired

\* Mutant: under the lock only the presence of the row is looked at.
ResetStillThere(d, i) == i \in Rows(d.resets)

\* Checked again with the row locked.
ResetAllowed(d, i) == PasswordResetValid(d, i)

ResetPassword(d, i) ==
  ResetUserPassword([d EXCEPT !.resets[i].used = TRUE, !.resets[i].uses = @ + 1], d.resets[i].user)

(****************************** registration *****************************)

Unverified(d, email) == {u \in Holders(d, email) : d.users[u].unverified}

dropUnverified(d, email) == DropUsers(d, Unverified(d, email))

storeVerification(d, u) ==
  [d EXCEPT !.codes[u] = [message |-> (IF @ = None THEN 0 ELSE @.message) + 1,
                          attempts |-> 0, expired |-> FALSE, recent |-> TRUE]]

verificationWait(d, u) == d.codes[u] # None /\ d.codes[u].recent

RegisterNew(d, email) ==
  storeVerification(CreateUser(d, NewUser(email, FALSE, FALSE, TRUE)), Fresh(d.users))

\* Of a waiting account the newer details are kept, and the older message
\* while it is recent; nothing is done to a confirmed one.
RegisterAgain(d, u) ==
  LET refreshed == [d EXCEPT !.users[u].pw = @ + 1]
  IN IF ~d.users[u].unverified THEN d
     ELSE IF verificationWait(d, u) THEN refreshed
     ELSE storeVerification(refreshed, u)

ResendAllowed(d, u) == u \in Rows(d.users) /\ d.users[u].unverified

ResendVerification(d, u) == IF verificationWait(d, u) THEN d ELSE storeVerification(d, u)

activate(d, u) ==
  [d EXCEPT !.users[u].active = TRUE, !.users[u].unverified = FALSE, !.codes[u] = None]

ConfirmByTokenAllowed(d, u, message) ==
  /\ d.codes[u] # None
  /\ d.codes[u].message = message
  /\ ~d.codes[u].expired
  /\ d.users[u].unverified

ConfirmByCodeOpen(d, u) ==
  d.codes[u] # None /\ d.codes[u].attempts < MaxVerificationAttempts /\ ~d.codes[u].expired

CountWrongCode(d, u) == [d EXCEPT !.codes[u].attempts = @ + 1]

\* Mutant: any inactive account of that age is purged.
PurgesInactive(d) == DropUsers(d, {u \in Rows(d.users) : d.users[u].old /\ ~d.users[u].active})

PurgeUnverified(d) ==
  DropUsers(d, {u \in Rows(d.users) : d.users[u].unverified /\ d.users[u].old /\ ~d.users[u].active})

(******************************* invitations *****************************)

Redeemable(row) == ~row.accepted /\ ~row.revoked /\ ~row.expired

Invitable(d, email) == \A u \in Holders(d, email) : d.users[u].unverified

closeExpired(d, email) ==
  LET Closes(row) == row.email = email /\ row.expired /\ ~row.accepted
  IN [d EXCEPT !.invites = [i \in TokenIds |->
        IF i \in Rows(d.invites) /\ Closes(d.invites[i])
        THEN [d.invites[i] EXCEPT !.revoked = TRUE] ELSE d.invites[i]]]

\* user_invitations_open_email_key: one open invitation to an address.
InviteAllowed(d, email) ==
  \A i \in Rows(closeExpired(d, email).invites) :
    LET row == closeExpired(d, email).invites[i]
    IN row.email = email => row.accepted \/ row.revoked

CreateUserInvitation(d, email, admin, by) ==
  [closeExpired(d, email) EXCEPT !.invites[Fresh(d.invites)] =
     [email |-> email, admin |-> admin, expired |-> FALSE, by |-> by,
      accepted |-> FALSE, revoked |-> FALSE, uses |-> 0]]

RevokeUserInvitation(d, i) ==
  IF i \in Rows(d.invites) /\ Redeemable(d.invites[i])
  THEN [d EXCEPT !.invites[i].revoked = TRUE] ELSE d

\* With the invitation's row locked.
AcceptUserAllowed(d, i) ==
  /\ i \in Rows(d.invites)
  /\ Redeemable(d.invites[i])
  /\ AddressFree(dropUnverified(d, d.invites[i].email), d.invites[i].email)

AcceptUserInvitation(d, i) ==
  LET row == d.invites[i]
  IN [CreateUser(dropUnverified(d, row.email), NewUser(row.email, row.admin, TRUE, FALSE))
        EXCEPT !.invites[i].accepted = TRUE, !.invites[i].uses = @ + 1]

(******************************* trip members ****************************)

IsMember(d, t, u) == d.owner[t] = u \/ <<t, u>> \in d.members

TripInvitable(d, t, email) == \A u \in Holders(d, email) : ~IsMember(d, t, u)

OpenTripInvite(row) == row.accepted = None /\ ~row.revoked

closeExpiredTrip(d, t, email) ==
  LET Closes(row) == row.trip = t /\ row.email = email /\ row.expired /\ OpenTripInvite(row)
  IN [d EXCEPT !.tripInvites = [i \in TokenIds |->
        IF i \in Rows(d.tripInvites) /\ Closes(d.tripInvites[i])
        THEN [d.tripInvites[i] EXCEPT !.revoked = TRUE] ELSE d.tripInvites[i]]]

TripInviteAllowed(d, t, email) ==
  /\ d.owner[t] # Gone
  /\ \A i \in Rows(d.tripInvites) :
       LET row == closeExpiredTrip(d, t, email).tripInvites[i]
       IN row.trip = t /\ row.email = email => ~OpenTripInvite(row)

CreateTripInvitation(d, t, email, by) ==
  [closeExpiredTrip(d, t, email) EXCEPT !.tripInvites[Fresh(d.tripInvites)] =
     [trip |-> t, email |-> email, expired |-> FALSE, by |-> by,
      accepted |-> None, revoked |-> FALSE, uses |-> 0]]

TripInviteRedeemable(row) == OpenTripInvite(row) /\ ~row.expired

RevokeTripInvitation(d, t, i) ==
  IF i \in Rows(d.tripInvites) /\ d.tripInvites[i].trip = t /\ TripInviteRedeemable(d.tripInvites[i])
  THEN [d EXCEPT !.tripInvites[i].revoked = TRUE] ELSE d

lockTripInvitation(d, i) == i \in Rows(d.tripInvites) /\ TripInviteRedeemable(d.tripInvites[i])

joinTrip(d, i, u) ==
  [d EXCEPT !.members = @ \cup {<<d.tripInvites[i].trip, u>>},
            !.tripInvites[i].accepted = u, !.tripInvites[i].uses = @ + 1]

AcceptTripAllowed(d, i, u) ==
  /\ lockTripInvitation(d, i)
  /\ u \in Rows(d.users) /\ d.users[u].email = d.tripInvites[i].email
  /\ ~IsMember(d, d.tripInvites[i].trip, u)

AcceptTripInvitation(d, i, u) == joinTrip(d, i, u)

RegisterTripAllowed(d, i) ==
  /\ lockTripInvitation(d, i)
  /\ AddressFree(dropUnverified(d, d.tripInvites[i].email), d.tripInvites[i].email)

RegisterTripInvitation(d, i) ==
  LET email == d.tripInvites[i].email
      cleared == dropUnverified(d, email)
  IN joinTrip(CreateUser(cleared, NewUser(email, FALSE, TRUE, FALSE)), i, Fresh(cleared.users))

AddMemberAllowed(d, t, u) ==
  d.owner[t] # Gone /\ ~IsMember(d, t, u) /\ u \in Rows(d.users) /\ d.users[u].active

AddMember(d, t, u) == [d EXCEPT !.members = @ \cup {<<t, u>>}]

RemoveMember(d, t, u) == [d EXCEPT !.members = @ \ {<<t, u>>}]

(****************************** consistency ******************************)

\* A session that was not ended opens an active account by its password of now,
\* unless it was written after the sign-in's check had become stale.
SessionsCurrent(users, sessions) ==
  \A s \in Rows(sessions) :
    sessions[s].revoked = "no" /\ ~sessions[s].late =>
      /\ sessions[s].user \in Rows(users)
      /\ users[sessions[s].user].active
      /\ users[sessions[s].user].pw = sessions[s].pw

ResetsUsedOnce(users, resets) ==
  \A i \in Rows(resets) :
    /\ resets[i].user \in Rows(users)
    /\ resets[i].uses <= 1 /\ (~resets[i].used => resets[i].uses = 0)

GuessesBounded(users, codes) ==
  \A u \in Rows(codes) : u \in Rows(users) /\ codes[u].attempts <= MaxVerificationAttempts

\* Whoever invites somebody has confirmed the own address.
InvitesUsedOnce(users, invites) ==
  \A i \in Rows(invites) :
    LET row == invites[i]
    IN /\ row.by \in Rows(users) /\ ~users[row.by].unverified
       /\ row.accepted => ~row.revoked /\ row.uses = 1
       /\ ~row.accepted => row.uses = 0

TripInvitesUsedOnce(users, invites) ==
  \A i \in Rows(invites) :
    LET row == invites[i]
    IN /\ row.by \in Rows(users) /\ ~users[row.by].unverified
       /\ row.accepted # None => ~row.revoked /\ row.uses = 1
       /\ row.accepted = None => row.uses = 0

\* A database the service can leave behind, whenever it stops.
Consistent(d) ==
  /\ d \in Database
  /\ Administrators(d) # {}
  /\ \A u \in Rows(d.users) : d.users[u].unverified => ~d.users[u].active
  /\ SessionsCurrent(d.users, d.sessions)
  /\ ResetsUsedOnce(d.users, d.resets)
  /\ GuessesBounded(d.users, d.codes)
  /\ InvitesUsedOnce(d.users, d.invites)
  /\ TripInvitesUsedOnce(d.users, d.tripInvites)
=============================================================================
