------------------------------ MODULE Accounts ------------------------------
(* Accounts, sessions, invitations and trip members as requests change them:  *)
(* auth/service.go, the handlers of httpapi/auth.go, me.go, registration.go,  *)
(* invitations.go, admin.go, mail.go, avatar.go and trips.go, the sweep of    *)
(* main.go, and the two tabs of one browser that share a refresh token        *)
(* (frontend/src/api/client.ts).                                              *)
(*                                                                            *)
(* A request reads what its handler reads before the transaction when it is   *)
(* asked, and commits later: everything the server does in between - hashing a *)
(* password takes it a tenth of a second - is an interleaving.  What a request *)
(* knows is its record: what it does, how far it is, the account u, the        *)
(* session or trip s, what it was given or read n (a token, a password, an    *)
(* identifier, an address), and whether a client still waits for its answer.  *)
EXTENDS AccountStore

CONSTANTS
  Requests,   \* requests the server works on at once
  Scenarios   \* starting databases, each with the number of calls of every kind

\* A browser that takes part was signed in before the run begins.
BrowserSession == 1

\* What it asks of the server: another token for the one it has, or the end.
BrowserRequest ==
  [kind : {"refresh", "logout"},
   at : {"asked", "usable", "active", "unknown", "replayed", "granted", "refused", "found"},
   u : {None}, s : SessionIds, n : Nat, heard : BOOLEAN]

ASSUME ScenariosAssumption ==
  /\ None \notin BrowserRequest \cup (SessionIds \X Nat)
  /\ \A s \in Scenarios :
       LET sessions == s.db.sessions
       IN /\ Consistent(s.db)
          /\ s.store # None =>
               /\ BrowserSession \in Rows(sessions) /\ ~sessions[BrowserSession].late
               /\ s.store = <<BrowserSession, sessions[BrowserSession].token>>
               /\ \A i \in Rows(sessions) : sessions[i].revoked # "replay"

VARIABLES
  db,      \* the database as committed
  req,     \* the request each worker is on, or None
  store,   \* localStorage: the session and refresh token of the browser, or None
  weblock, \* whether the browser has navigator.locks
  calm,    \* a browser is signed in, no client gave up on a refresh, none
           \* took longer than reuseGrace
  left     \* how many calls of each kind are still to come

vars == <<db, req, store, weblock, calm, left>>

Init ==
  /\ \E s \in Scenarios :
       /\ db = s.db /\ store = s.store /\ left = s.left
       /\ calm = (s.store # None)
       /\ weblock \in {FALSE, calm}
  /\ req = [p \in Requests |-> None]

Spend(kind) == left[kind] > 0 /\ left' = [left EXCEPT ![kind] = @ - 1]

Ask(p, kind, at, u, s, n) ==
  /\ req[p] = None
  /\ Spend(kind)
  /\ req' = [req EXCEPT ![p] = [kind |-> kind, at |-> at, u |-> u, s |-> s, n |-> n, heard |-> TRUE]]
  /\ UNCHANGED <<db, store, weblock, calm>>

Doing(p, kind, at) == req[p] # None /\ req[p].kind = kind /\ req[p].at = at

Goes(p, at) ==
  /\ req' = [req EXCEPT ![p].at = at]
  /\ UNCHANGED <<db, store, weblock, calm, left>>

\* A transaction that locked the row of an account holds it to its end.
Unheld(us) == \A p \in Requests : req[p] # None /\ req[p].at = "locked" => req[p].u \notin us

\* The last step of a request: it commits d where it may, or changes nothing.
Commits(p, allowed, d) ==
  /\ req' = [req EXCEPT ![p] = None]
  /\ db' = IF allowed THEN d ELSE db
  /\ UNCHANGED <<store, weblock, calm, left>>

(********************************* sessions ******************************)

requireAuth(s, u) == ActiveUser(db, s) /\ db.sessions[s].user = u

requireAdmin(s, u) == requireAuth(s, u) /\ db.users[u].admin

Credentials(p) ==
  \E u \in Rows(db.users) :
    db.users[u].active /\ Ask(p, "login", "asked", u, None, db.users[u].pw)

Login(p) ==
  LET u == req[p].u
      now == db.users[u]
  IN /\ Doing(p, "login", "asked")
     /\ HasRoom(db.sessions)
     /\ Commits(p, u \in Rows(db.users),
                CreateSession(db, u, req[p].n, now.pw # req[p].n \/ ~now.active))

Refreshing(p) == req[p] # None /\ req[p].kind = "refresh" /\ req[p].heard

exchangeRefreshToken(p) ==
  /\ store # None
  /\ weblock => \A q \in Requests : ~Refreshing(q)
  /\ Ask(p, "refresh", "asked", None, store[1], store[2])

RefreshGetByHash(p) ==
  LET found == GetByHash(db, req[p].s, req[p].n)
  IN /\ Doing(p, "refresh", "asked")
     /\ Goes(p, IF ~found THEN "unknown"
                ELSE IF IsUsable(db.sessions[req[p].s]) THEN "usable" ELSE "refused")

RefreshActiveUser(p) ==
  /\ Doing(p, "refresh", "usable")
  /\ Goes(p, IF ActiveUser(db, req[p].s) THEN "active" ELSE "refused")

RefreshRotate(p) ==
  LET s == req[p].s
      rotates == RotateAllowed(db, s, req[p].n)
  IN /\ Doing(p, "refresh", "active")
     /\ db' = IF rotates THEN Rotate(db, s) ELSE db
     /\ req' = [req EXCEPT ![p].at = IF rotates THEN "granted" ELSE "refused"]
     /\ UNCHANGED <<store, weblock, calm, left>>

\* Mutant: a token exchanged moments ago counts as stolen.
NoGrace(p) ==
  LET stolen == Superseded(db, req[p].s, req[p].n) /\ db.sessions[req[p].s].revoked = "no"
  IN /\ Doing(p, "refresh", "unknown")
     /\ Goes(p, IF stolen THEN "replayed" ELSE "refused")

Replayed(p) ==
  LET s == req[p].s
      stolen == /\ Superseded(db, s, req[p].n)
                /\ db.sessions[s].revoked = "no"
                /\ ~db.sessions[s].recent
  IN /\ Doing(p, "refresh", "unknown")
     /\ Goes(p, IF stolen THEN "replayed" ELSE "refused")

RevokeReplayed(p) ==
  /\ Doing(p, "refresh", "replayed")
  /\ db' = Revoke(db, req[p].s, "replay")
  /\ req' = [req EXCEPT ![p].at = "refused"]
  /\ UNCHANGED <<store, weblock, calm, left>>

RefreshGranted(p) ==
  /\ Doing(p, "refresh", "granted")
  /\ req' = [req EXCEPT ![p] = None]
  /\ store' = IF req[p].heard THEN <<req[p].s, req[p].n + 1>> ELSE store
  /\ UNCHANGED <<db, weblock, calm, left>>

\* A refusal ends the browser's session unless another tab has replaced it.
RefreshRefused(p) ==
  LET replaced == req[p].heard /\ store \notin {None, <<req[p].s, req[p].n>>}
  IN /\ Doing(p, "refresh", "refused")
     /\ req' = [req EXCEPT ![p] = IF replaced THEN [@ EXCEPT !.at = "asked", !.s = store[1], !.n = store[2]]
                                  ELSE None]
     /\ store' = IF req[p].heard /\ ~replaced THEN None ELSE store
     /\ UNCHANGED <<db, weblock, calm, left>>

\* REFRESH_TIMEOUT_MS passes or the network fails: the server goes on.
RefreshGivenUp(p) ==
  /\ Refreshing(p)
  /\ Spend("giveUp")
  /\ req' = [req EXCEPT ![p].heard = FALSE]
  /\ calm' = FALSE
  /\ UNCHANGED <<db, store, weblock>>

logout(p) ==
  /\ store # None
  /\ req[p] = None
  /\ Spend("logout")
  /\ req' = [req EXCEPT ![p] = [kind |-> "logout", at |-> "asked", u |-> None, s |-> store[1],
                                n |-> store[2], heard |-> TRUE]]
  /\ store' = None
  /\ UNCHANGED <<db, weblock, calm>>

LogoutGetByHash(p) ==
  /\ Doing(p, "logout", "asked")
  /\ Goes(p, IF GetByHash(db, req[p].s, req[p].n) THEN "found" ELSE "unknown")

Logout(p) ==
  \/ Doing(p, "logout", "found") /\ Commits(p, TRUE, Revoke(db, req[p].s, "person"))
  \/ Doing(p, "logout", "unknown") /\ Commits(p, FALSE, db)

AskRevokeSession(p) ==
  \E u \in Rows(db.users), by, s \in Rows(db.sessions) :
    /\ requireAuth(by, u)
    /\ db.sessions[s].user = u
    /\ Ask(p, "revokeSession", "asked", u, s, 0)

RevokeSession(p) ==
  Doing(p, "revokeSession", "asked") /\ Commits(p, TRUE, Revoke(db, req[p].s, "person"))

\* The current password is compared with the one read at the door.
AskChangePassword(p) ==
  \E u \in Rows(db.users), s \in Rows(db.sessions) :
    requireAuth(s, u) /\ Ask(p, "changePassword", "asked", u, s, 0)

ChangePassword(p) ==
  /\ Doing(p, "changePassword", "asked")
  /\ Unheld({req[p].u})
  /\ Commits(p, req[p].u \in Rows(db.users), SetOwnPassword(db, req[p].u, req[p].s))

(****************************** administrators ***************************)

AskUpdateUser(p) ==
  \E u, by \in Rows(db.users), s \in Rows(db.sessions), change \in {"promote", "demote", "activate", "deactivate"} :
    requireAdmin(s, by) /\ Ask(p, "update", "asked", u, None, change)

AskDeleteMe(p) ==
  \E u \in Rows(db.users), s \in Rows(db.sessions) :
    requireAuth(s, u) /\ Ask(p, "deleteMe", "asked", u, None, None)

\* Mutant: administrators are counted without the lock.
NoLock(p) == TRUE

\* pg_advisory_xact_lock, held to the end of the transaction.
lockAdministrators(p) == \A q \in Requests : req[q] # None => req[q].at # "locked"

\* What the transaction counts before it commits.
StaysAdministered(p) ==
  IF req[p].kind = "update" THEN UpdateAllowed(db, req[p].u, req[p].n) ELSE DeleteAllowed(db, req[p].u)

CountAdministrators(p) ==
  /\ Doing(p, "update", "asked") \/ Doing(p, "deleteMe", "asked")
  /\ lockAdministrators(p)
  /\ Unheld({req[p].u})
  /\ IF req[p].u \in Rows(db.users) /\ StaysAdministered(p) THEN Goes(p, "locked")
     ELSE Commits(p, FALSE, db)

UpdateUser(p) ==
  Doing(p, "update", "locked") /\ Commits(p, TRUE, Update(db, req[p].u, req[p].n))

\* The statement fails where it would leave an acceptance without its account.
DeleteMe(p) ==
  /\ Doing(p, "deleteMe", "locked")
  /\ Commits(p, req[p].u \in Rows(db.users) /\ AcceptanceNamed(DeleteUser(db, req[p].u)),
             DeleteUser(db, req[p].u))

AskCreateUser(p) ==
  \E by \in Rows(db.users), s \in Rows(db.sessions), email \in Addresses :
    requireAdmin(s, by) /\ Ask(p, "createUser", "asked", by, None, email)

CreateUserByAdmin(p) ==
  /\ Doing(p, "createUser", "asked")
  /\ HasRoom(db.users)
  /\ Commits(p, AddressFree(db, req[p].n), CreateUser(db, NewUser(req[p].n, FALSE, TRUE, FALSE)))

AskResetByAdmin(p) ==
  \E u, by \in Rows(db.users), s \in Rows(db.sessions) :
    requireAdmin(s, by) /\ Ask(p, "resetByAdmin", "asked", u, None, 0)

ResetByAdmin(p) ==
  /\ Doing(p, "resetByAdmin", "asked")
  /\ Unheld({req[p].u})
  /\ Commits(p, req[p].u \in Rows(db.users), ResetUserPassword(db, req[p].u))

(***************************** password recovery *************************)

RequestPasswordReset(p) ==
  \E u \in Rows(db.users) :
    db.users[u].active /\ Ask(p, "requestReset", "asked", u, None, Fresh(db.resets))

\* The statement that closes the open links begins, and sees what is committed.
CloseOpenResets(p) ==
  /\ Doing(p, "requestReset", "asked")
  /\ req' = [req EXCEPT ![p].at = "closing", ![p].n = Fresh(db.resets)]
  /\ UNCHANGED <<db, store, weblock, calm, left>>

InsertReset(p) ==
  /\ Doing(p, "requestReset", "closing")
  /\ HasRoom(db.resets)
  /\ Commits(p, req[p].u \in Rows(db.users), CreatePasswordReset(db, req[p].u, req[p].n))

AskCompleteReset(p) ==
  \E i \in Rows(db.resets) : PasswordResetValid(db, i) /\ Ask(p, "completeReset", "asked", None, None, i)

CompletePasswordReset(p) ==
  LET allowed == ResetAllowed(db, req[p].n)
  IN /\ Doing(p, "completeReset", "asked")
     /\ allowed => Unheld({db.resets[req[p].n].user})
     /\ Commits(p, allowed, ResetPassword(db, req[p].n))

(******************************** registration ***************************)

AskRegister(p) == \E email \in Addresses : Ask(p, "register", "asked", None, None, email)

\* The row of the address is locked where there is one.
RegisterAccount(p) ==
  LET email == req[p].n
  IN /\ Doing(p, "register", "asked")
     /\ IF AddressFree(db, email) THEN Goes(p, "new")
        ELSE /\ Unheld({GetByEmail(db, email)})
             /\ Commits(p, TRUE, RegisterAgain(db, GetByEmail(db, email)))

\* Of two that found the address free the second inserts nothing.
InsertRegistered(p) ==
  /\ Doing(p, "register", "new")
  /\ HasRoom(db.users)
  /\ Commits(p, AddressFree(db, req[p].n), RegisterNew(db, req[p].n))

AskResend(p) ==
  \E u \in Rows(db.users) : db.users[u].unverified /\ Ask(p, "resend", "asked", u, None, 0)

Resend(p) ==
  /\ Doing(p, "resend", "asked")
  /\ Unheld({req[p].u})
  /\ Commits(p, ResendAllowed(db, req[p].u), ResendVerification(db, req[p].u))

\* Confirming is one transaction and reads nothing before it.
Confirms(u) == Unheld({u}) /\ db' = activate(db, u)

ConfirmEmail ==
  /\ Spend("confirm")
  /\ \E u \in Rows(db.codes) :
       \/ \E message \in 1 .. db.codes[u].message : ConfirmByTokenAllowed(db, u, message) /\ Confirms(u)
       \/ ConfirmByCodeOpen(db, u) /\ db.users[u].unverified /\ Confirms(u)
       \/ ConfirmByCodeOpen(db, u) /\ db' = CountWrongCode(db, u)
  /\ UNCHANGED <<req, store, weblock, calm>>

(******************************** invitations ****************************)

AskInviteUser(p) ==
  \E by \in Rows(db.users), s \in Rows(db.sessions), email \in Addresses :
    requireAdmin(s, by) /\ Ask(p, "inviteUser", "asked", by, None, email)

CheckInvited(p) ==
  /\ Doing(p, "inviteUser", "asked")
  /\ IF Invitable(db, req[p].n) THEN Goes(p, "checked") ELSE Commits(p, FALSE, db)

InviteUser(p) ==
  /\ Doing(p, "inviteUser", "checked")
  /\ HasRoom(db.invites)
  /\ Commits(p, InviteAllowed(db, req[p].n) /\ req[p].u \in Rows(db.users),
             CreateUserInvitation(db, req[p].n, FALSE, req[p].u))

\* Withdrawing is one statement.
WithdrawInvitation ==
  /\ Spend("withdraw")
  /\ \E i \in TokenIds :
       \/ i \in Rows(db.invites) /\ db' = RevokeUserInvitation(db, i)
       \/ i \in Rows(db.tripInvites) /\ db' = RevokeTripInvitation(db, db.tripInvites[i].trip, i)
  /\ UNCHANGED <<req, store, weblock, calm>>

AskAcceptUser(p) ==
  \E i \in Rows(db.invites) : Redeemable(db.invites[i]) /\ Ask(p, "acceptUser", "asked", None, None, i)

AcceptUser(p) ==
  LET i == req[p].n
      allowed == AcceptUserAllowed(db, i)
  IN /\ Doing(p, "acceptUser", "asked")
     /\ HasRoom(db.users)
     /\ allowed => Unheld(Unverified(db, db.invites[i].email))
     /\ Commits(p, allowed, AcceptUserInvitation(db, i))

(******************************** trip members ***************************)

tripFor(t, u) == \E s \in Rows(db.sessions) : requireAuth(s, u) /\ db.owner[t] = u

AskInviteMember(p) ==
  \E u \in Rows(db.users), t \in Trips, email \in Addresses :
    tripFor(t, u) /\ Ask(p, "inviteMember", "asked", u, t, email)

CheckInvitedMember(p) ==
  /\ Doing(p, "inviteMember", "asked")
  /\ IF TripInvitable(db, req[p].s, req[p].n) THEN Goes(p, "checked") ELSE Commits(p, FALSE, db)

InviteMember(p) ==
  /\ Doing(p, "inviteMember", "checked")
  /\ HasRoom(db.tripInvites)
  /\ Commits(p, TripInviteAllowed(db, req[p].s, req[p].n) /\ req[p].u \in Rows(db.users),
             CreateTripInvitation(db, req[p].s, req[p].n, req[p].u))

AskAcceptTrip(p) ==
  \E u \in Rows(db.users), s \in Rows(db.sessions), i \in Rows(db.tripInvites) :
    requireAuth(s, u) /\ Ask(p, "acceptTrip", "asked", u, None, i)

AcceptTrip(p) ==
  /\ Doing(p, "acceptTrip", "asked")
  /\ Unheld({req[p].u})
  /\ Commits(p, AcceptTripAllowed(db, req[p].n, req[p].u), AcceptTripInvitation(db, req[p].n, req[p].u))

AskRegisterTrip(p) ==
  \E i \in Rows(db.tripInvites) :
    TripInviteRedeemable(db.tripInvites[i]) /\ Ask(p, "registerTrip", "asked", None, None, i)

RegisterTrip(p) ==
  LET i == req[p].n
      allowed == RegisterTripAllowed(db, i)
  IN /\ Doing(p, "registerTrip", "asked")
     /\ HasRoom(db.users)
     /\ allowed => Unheld(Unverified(db, db.tripInvites[i].email))
     /\ Commits(p, allowed, RegisterTripInvitation(db, i))

AskMember(p) ==
  \E u, of \in Rows(db.users), t \in Trips, kind \in {"addMember", "removeMember"} :
    tripFor(t, of) /\ Ask(p, kind, "asked", u, t, 0)

ChangeMember(p) ==
  LET u == req[p].u
      t == req[p].s
  IN \/ Doing(p, "addMember", "asked") /\ Commits(p, AddMemberAllowed(db, t, u), AddMember(db, t, u))
     \/ Doing(p, "removeMember", "asked") /\ Commits(p, TRUE, RemoveMember(db, t, u))

AskDeleteTrip(p) ==
  \E u \in Rows(db.users), t \in Trips : tripFor(t, u) /\ Ask(p, "deleteTrip", "asked", u, t, 0)

DeleteTrip(p) ==
  Doing(p, "deleteTrip", "asked") /\ Commits(p, TRUE, DeleteTrips(db, {req[p].s}))

(***************************** time and the sweep ************************)

\* reuseGrace after a rotation.
GracePasses ==
  /\ Spend("time")
  /\ \E s \in Rows(db.sessions) : db.sessions[s].recent /\ db' = [db EXCEPT !.sessions[s].recent = FALSE]
  /\ calm' = (calm /\ \A p \in Requests : ~Refreshing(p))
  /\ UNCHANGED <<req, store, weblock>>

TimePasses ==
  /\ Spend("time")
  /\ \/ \E s \in Rows(db.sessions) : db' = [db EXCEPT !.sessions[s].expired = TRUE]
     \/ \E i \in Rows(db.resets) : db' = [db EXCEPT !.resets[i].expired = TRUE]
     \/ \E i \in Rows(db.invites) : db' = [db EXCEPT !.invites[i].expired = TRUE]
     \/ \E i \in Rows(db.tripInvites) : db' = [db EXCEPT !.tripInvites[i].expired = TRUE]
     \/ \E u \in Rows(db.users) :
          /\ db.codes[u] # None
          /\ db' \in {[db EXCEPT !.codes[u].recent = FALSE],
                      [db EXCEPT !.codes[u].recent = FALSE, !.codes[u].expired = TRUE]}
     \/ \E u \in Rows(db.users) : db.users[u].unverified /\ db' = [db EXCEPT !.users[u].old = TRUE]
  /\ UNCHANGED <<req, store, weblock, calm>>

Sweep ==
  /\ Spend("sweep")
  /\ \/ \E ended \in SUBSET Rows(db.sessions) : db' = DeleteFinished(db, ended)
     \/ /\ Unheld({u \in Rows(db.users) : db.users[u].unverified})
        /\ db' = PurgeUnverified(db)
  /\ UNCHANGED <<req, store, weblock, calm>>

Sessions(p) ==
  \/ Credentials(p) \/ Login(p) \/ exchangeRefreshToken(p) \/ RefreshGetByHash(p)
  \/ RefreshActiveUser(p) \/ RefreshRotate(p) \/ Replayed(p) \/ RevokeReplayed(p)
  \/ RefreshGranted(p) \/ RefreshRefused(p) \/ RefreshGivenUp(p) \/ logout(p)
  \/ LogoutGetByHash(p) \/ Logout(p) \/ AskRevokeSession(p) \/ RevokeSession(p)
  \/ AskChangePassword(p) \/ ChangePassword(p)

Recovery(p) ==
  \/ RequestPasswordReset(p) \/ CloseOpenResets(p) \/ InsertReset(p)
  \/ AskCompleteReset(p) \/ CompletePasswordReset(p)
  \/ AskResetByAdmin(p) \/ ResetByAdmin(p)

Joining(p) ==
  \/ AskRegister(p) \/ RegisterAccount(p) \/ InsertRegistered(p) \/ AskResend(p) \/ Resend(p)
  \/ AskInviteUser(p) \/ CheckInvited(p) \/ InviteUser(p) \/ AskAcceptUser(p) \/ AcceptUser(p)

Administering(p) ==
  \/ AskUpdateUser(p) \/ AskDeleteMe(p) \/ CountAdministrators(p) \/ UpdateUser(p) \/ DeleteMe(p)
  \/ AskCreateUser(p) \/ CreateUserByAdmin(p)

Sharing(p) ==
  \/ AskInviteMember(p) \/ CheckInvitedMember(p) \/ InviteMember(p)
  \/ AskAcceptTrip(p) \/ AcceptTrip(p) \/ AskRegisterTrip(p) \/ RegisterTrip(p)
  \/ AskMember(p) \/ ChangeMember(p) \/ AskDeleteTrip(p) \/ DeleteTrip(p)

Next ==
  \/ \E p \in Requests : Sessions(p) \/ Recovery(p) \/ Joining(p) \/ Administering(p) \/ Sharing(p)
  \/ ConfirmEmail \/ WithdrawInvitation \/ GracePasses \/ TimePasses \/ Sweep

Spec == Init /\ [][Next]_vars

(******************************** properties *****************************)

Kinds == {"login", "refresh", "giveUp", "logout", "revokeSession", "changePassword", "update",
          "deleteMe", "createUser", "resetByAdmin", "requestReset", "completeReset", "register",
          "resend", "confirm", "inviteUser", "withdraw", "acceptUser", "inviteMember", "acceptTrip",
          "registerTrip", "addMember", "removeMember", "deleteTrip", "time", "sweep"}

\* However demotions, deactivations and deletions by different administrators
\* interleave, an instance that has an administrator who can sign in keeps one
\* (users.go, Update and Delete count under lockAdministrators).
AnAdministratorRemains == Administrators(db) # {}

\* A session that opens the account belongs to an active account and was opened
\* or kept by its password of now: changing or recovering a password and
\* deactivating an account end every other session.  The exception is a sign-in
\* that checked the password before the change and wrote its session after it.
LiveSessionsAreCurrent ==
  \A s \in Rows(db.sessions) :
    LET row == db.sessions[s]
    IN IsUsable(row) /\ ~row.late =>
         /\ row.user \in Rows(db.users)
         /\ db.users[row.user].active
         /\ db.users[row.user].pw = row.pw

\* A mailed link sets one password or makes one account or member, a withdrawn
\* invitation none, and a confirmation code is guessed at a bounded number of
\* times - also where two requests with one link checked it before either used it.
CredentialsWorkOnce ==
  /\ \A i \in Rows(db.resets) : db.resets[i].uses <= 1
  /\ \A i \in Rows(db.invites) :
       LET row == db.invites[i]
       IN row.uses <= 1 /\ ~(row.accepted /\ row.revoked)
  /\ \A i \in Rows(db.tripInvites) :
       LET row == db.tripInvites[i]
       IN row.uses <= 1 /\ ~(row.accepted # None /\ row.revoked)
  /\ \A u \in UserIds : db.codes[u] # None => db.codes[u].attempts <= MaxVerificationAttempts

\* An account whose address was confirmed, by its owner or an administrator,
\* disappears by its owner's request only: neither the purge of unconfirmed
\* accounts nor an invitation accepted for the address takes it.
ConfirmedAccountsStay ==
  [][\A u \in Rows(db.users) :
       ~db.users[u].unverified /\ u \notin Rows(db'.users) =>
         \E p \in Requests : Doing(p, "deleteMe", "locked") /\ req[p].u = u]_vars

\* While no client gives up on a refresh and none takes longer than reuseGrace,
\* two tabs refreshing one token never cost the browser its session: it is not
\* taken for stolen, and once they are answered the browser holds the token the
\* server knows, unless the session ended or its owner signed out.
BrowserKeepsItsSession ==
  LET quiet == \A p \in Requests : req[p] # None => req[p].kind \notin {"refresh", "logout"}
  IN calm =>
       /\ \A s \in Rows(db.sessions) : db.sessions[s].revoked # "replay"
       /\ quiet /\ ActiveUser(db, BrowserSession) =>
            store = <<BrowserSession, db.sessions[BrowserSession].token>>
=============================================================================
