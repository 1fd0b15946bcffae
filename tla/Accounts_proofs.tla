-------------------------- MODULE Accounts_proofs ---------------------------
(* Proofs about Accounts: an administrator remains, live sessions are current, *)
(* mailed credentials work once, confirmed accounts are deleted by their owner *)
(* only, and two tabs that share a token keep the browser's session.           *)
(*                                                                             *)
(* A transaction is looked at as it is in AccountStore, without the requests:  *)
(* it Leads from one sound database to another, creates accounts and sessions  *)
(* or ends them, and leaves alone those that are held by a lock.  What a       *)
(* request remembers of the accounts then stays true until it commits, and at  *)
(* most one request counts administrators at a time.  A step is one of four:   *)
(* an Ordinary one, the end of a transaction that counted (Governs), one of a  *)
(* browser (Browses) or the end of reuseGrace.                                 *)
EXTENDS Accounts, WellFoundedInduction, TLAPS

-----------------------------------------------------------------------------
(* The tables, one by one, and what each asks of the accounts.             *)

Users == [UserIds -> UserRow \cup {None, Gone}]
SessionTable == [SessionIds -> SessionRow \cup {None, Gone}]
ResetTable == [TokenIds -> ResetRow \cup {None, Gone}]
CodeTable == [UserIds -> CodeRow \cup {None}]
InviteTable == [TokenIds -> InviteRow \cup {None, Gone}]
TripInviteTable == [TokenIds -> TripInviteRow \cup {None, Gone}]

Chiefs(users) == {u \in Rows(users) : IsAdministrator(users[u])}

UsersOk(users) ==
    /\ users \in Users
    /\ \A u \in Rows(users) : users[u].unverified => ~users[u].active

SessionsOk(users, sessions) == sessions \in SessionTable /\ SessionsCurrent(users, sessions)
ResetsOk(users, resets) == resets \in ResetTable /\ ResetsUsedOnce(users, resets)
CodesOk(users, codes) == codes \in CodeTable /\ GuessesBounded(users, codes)
InvitesOk(users, invites) == invites \in InviteTable /\ InvitesUsedOnce(users, invites)
TripInvitesOk(users, invites) == invites \in TripInviteTable /\ TripInvitesUsedOnce(users, invites)

IsDb(d) ==
    d = [users |-> d.users, sessions |-> d.sessions, resets |-> d.resets, codes |-> d.codes,
         invites |-> d.invites, tripInvites |-> d.tripInvites, owner |-> d.owner, members |-> d.members]

(* All of Consistent but that there is an administrator.                   *)
Sound(d) ==
    /\ IsDb(d)
    /\ UsersOk(d.users)
    /\ SessionsOk(d.users, d.sessions)
    /\ ResetsOk(d.users, d.resets)
    /\ CodesOk(d.users, d.codes)
    /\ InvitesOk(d.users, d.invites)
    /\ TripInvitesOk(d.users, d.tripInvites)
    /\ d.owner \in [Trips -> UserIds \cup {Gone}]
    /\ d.members \subseteq Trips \X UserIds

LEMMA ConsistentIsSound ==
    ASSUME NEW d
    PROVE  Consistent(d) <=> Sound(d) /\ Chiefs(d.users) # {}
<1>1. d \in Database <=>
        /\ IsDb(d) /\ d.users \in Users /\ d.sessions \in SessionTable /\ d.resets \in ResetTable
        /\ d.codes \in CodeTable /\ d.invites \in InviteTable /\ d.tripInvites \in TripInviteTable
        /\ d.owner \in [Trips -> UserIds \cup {Gone}] /\ d.members \subseteq Trips \X UserIds
  BY DEF Database, IsDb, Users, SessionTable, ResetTable, CodeTable, InviteTable, TripInviteTable
<1>2. Administrators(d) = Chiefs(d.users)
  BY DEF Administrators, Chiefs
<1> QED
  BY <1>1, <1>2 DEF Consistent, Sound, UsersOk, SessionsOk, ResetsOk, CodesOk, InvitesOk, TripInvitesOk

(* A row is what the table's type says of it.                              *)
LEMMA UserRows ==
    ASSUME NEW users \in Users
    PROVE  \A u : u \in Rows(users) <=> u \in UserIds /\ users[u] \in UserRow
BY StoreAssumption DEF Users, Rows

LEMMA SessionRows ==
    ASSUME NEW sessions \in SessionTable
    PROVE  \A s : s \in Rows(sessions) <=> s \in SessionIds /\ sessions[s] \in SessionRow
BY StoreAssumption DEF SessionTable, Rows

LEMMA ResetRows ==
    ASSUME NEW resets \in ResetTable
    PROVE  \A i : i \in Rows(resets) <=> i \in TokenIds /\ resets[i] \in ResetRow
BY StoreAssumption DEF ResetTable, Rows

LEMMA CodeRows ==
    ASSUME NEW codes \in CodeTable
    PROVE  \A u : u \in Rows(codes) <=> u \in UserIds /\ codes[u] # None /\ codes[u] \in CodeRow
BY StoreAssumption DEF CodeTable, Rows

LEMMA InviteRows ==
    ASSUME NEW invites \in InviteTable
    PROVE  \A i : i \in Rows(invites) <=> i \in TokenIds /\ invites[i] \in InviteRow
BY StoreAssumption DEF InviteTable, Rows

LEMMA TripInviteRows ==
    ASSUME NEW invites \in TripInviteTable
    PROVE  \A i : i \in Rows(invites) <=> i \in TokenIds /\ invites[i] \in TripInviteRow
BY StoreAssumption DEF TripInviteTable, Rows

(* A set of numbers has a least one, so a table with room has a next       *)
(* identifier.                                                             *)
LEMMA Least ==
    ASSUME NEW T \in SUBSET Nat, T # {}
    PROVE  \E x \in T : \A y \in T : x <= y
<1> DEFINE R == OpToRel(<, Nat)
<1>1. \A x, y \in Nat : <<x, y>> \in R <=> x < y
  BY DEF OpToRel
<1>2. IsWellFoundedOn(R, Nat)
  BY NatLessThanWellFounded
<1> HIDE DEF R
<1>3. PICK x \in T : \A y \in T : ~(<<y, x>> \in R)
  BY <1>2, WFMin
<1>4. \A y \in T : ~(y < x)
  BY <1>1, <1>3
<1>5. \A y \in T : y \in Nat /\ x \in Nat
  OBVIOUS
<1> QED
  BY <1>4, <1>5

LEMMA FreshIsFree ==
    ASSUME NEW table, DOMAIN table \subseteq Nat, HasRoom(table)
    PROVE  Fresh(table) \in DOMAIN table /\ table[Fresh(table)] = None
<1> DEFINE T == {i \in DOMAIN table : table[i] = None}
<1>1. T \in SUBSET Nat /\ T # {}
  BY DEF HasRoom
<1>2. \E i \in T : \A j \in T : i <= j
  BY <1>1, Least
<1>3. \E i \in DOMAIN table : table[i] = None /\ \A j \in DOMAIN table : table[j] = None => i <= j
  BY <1>2
<1> QED
  BY <1>3 DEF Fresh
-----------------------------------------------------------------------------
(* What a transaction does to accounts that others count on, and to the    *)
(* sessions browsers hold.  held are the accounts whose rows are locked.   *)

UsersGo(us, vs, held) ==
    /\ \A u \in UserIds : (us[u] # None => vs[u] # None) /\ (us[u] = Gone => vs[u] = Gone)
    /\ \A u \in Rows(us) : ~us[u].unverified => u \in Rows(vs) /\ ~vs[u].unverified
    /\ Chiefs(us) \subseteq Chiefs(vs)
    /\ \A u \in held \cap Rows(us) : u \in Rows(vs) /\ (u \in Chiefs(vs) => u \in Chiefs(us))

SessionsGo(ss, ts) ==
    \A s \in SessionIds :
        /\ ss[s] # None => ts[s] # None
        /\ s \in Rows(ts) =>
              \/ ss[s] = None /\ ts[s].revoked # "replay"
              \/ /\ s \in Rows(ss)
                 /\ ts[s].token = ss[s].token
                 /\ ts[s].recent = ss[s].recent
                 /\ ts[s].late = ss[s].late
                 /\ ss[s].expired => ts[s].expired
                 /\ \/ ts[s].revoked = ss[s].revoked
                    \/ ss[s].revoked = "no" /\ ts[s].revoked = "person"

Leads(d, e, held) ==
    Sound(e) /\ UsersGo(d.users, e.users, held) /\ SessionsGo(d.sessions, e.sessions)

LEMMA UsersStayed == \A us, held : UsersGo(us, us, held)
BY DEF UsersGo

LEMMA SessionsStayed == ASSUME NEW ss \in SessionTable PROVE SessionsGo(ss, ss)
BY SessionRows DEF SessionsGo

LEMMA LeadsOn ==
    ASSUME NEW a, NEW b, NEW c, NEW held, Leads(a, b, held), Leads(b, c, held)
    PROVE  Leads(a, c, held)
<1>1. UsersGo(a.users, c.users, held)
  <2>1. Chiefs(a.users) \subseteq Chiefs(c.users)
    BY DEF Leads, UsersGo
  <2>2. \A u \in UserIds : /\ a.users[u] # None => c.users[u] # None
                           /\ a.users[u] = Gone => c.users[u] = Gone
    BY DEF Leads, UsersGo
  <2>3. \A u \in Rows(a.users) : ~a.users[u].unverified => u \in Rows(c.users) /\ ~c.users[u].unverified
    BY DEF Leads, UsersGo
  <2>4. ASSUME NEW u \in held \cap Rows(a.users)
        PROVE  u \in Rows(c.users) /\ (u \in Chiefs(c.users) => u \in Chiefs(a.users))
    <3>1. u \in held \cap Rows(b.users) /\ (u \in Chiefs(b.users) => u \in Chiefs(a.users))
      BY DEF Leads, UsersGo
    <3> QED
      BY <3>1 DEF Leads, UsersGo
  <2> QED
    BY <2>1, <2>2, <2>3, <2>4 DEF UsersGo
<1>2. SessionsGo(a.sessions, c.sessions)
  <2> SUFFICES ASSUME NEW s \in SessionIds
               PROVE  SessionsGo(a.sessions, c.sessions)!(s)
    BY DEF SessionsGo
  <2>1. SessionsGo(a.sessions, b.sessions)!(s) /\ SessionsGo(b.sessions, c.sessions)!(s)
    BY DEF Leads, SessionsGo
  <2>2. s \in Rows(c.sessions) => c.sessions[s] # None
    BY DEF Rows
  <2>3. s \in Rows(b.sessions) => b.sessions[s] # None
    BY DEF Rows
  <2> QED
    BY <2>1, <2>2, <2>3
<1> QED
  BY <1>1, <1>2 DEF Leads

-----------------------------------------------------------------------------
(* Rows that name accounts are right as long as those stay.                *)
Keeps(us, vs) ==
    \A u \in Rows(us) : u \in Rows(vs) /\ (~us[u].unverified => ~vs[u].unverified)

KeepsActive(us, vs) ==
    \A u \in Rows(us) : us[u].active => u \in Rows(vs) /\ vs[u].active /\ vs[u].pw = us[u].pw

LEMMA TablesStay ==
    ASSUME NEW d, Sound(d), NEW vs, Keeps(d.users, vs)
    PROVE  ResetsOk(vs, d.resets) /\ CodesOk(vs, d.codes) /\ InvitesOk(vs, d.invites)
           /\ TripInvitesOk(vs, d.tripInvites)
<1>1. ResetsOk(vs, d.resets)
  BY DEF Sound, ResetsOk, ResetsUsedOnce, Keeps
<1>2. CodesOk(vs, d.codes)
  BY DEF Sound, CodesOk, GuessesBounded, Keeps
<1>3. InvitesOk(vs, d.invites)
  BY DEF Sound, InvitesOk, InvitesUsedOnce, Keeps
<1>4. TripInvitesOk(vs, d.tripInvites)
  BY DEF Sound, TripInvitesOk, TripInvitesUsedOnce, Keeps
<1> QED
  BY <1>1, <1>2, <1>3, <1>4

LEMMA SessionsStay ==
    ASSUME NEW us, NEW vs, NEW ss, SessionsOk(us, ss), KeepsActive(us, vs)
    PROVE  SessionsOk(vs, ss)
BY DEF SessionsOk, SessionsCurrent, KeepsActive

(* A transaction that writes accounts and nothing else.                    *)
LEMMA OnlyUsers ==
    ASSUME NEW d, Sound(d), NEW vs, UsersOk(vs), Keeps(d.users, vs), KeepsActive(d.users, vs),
           NEW held, UsersGo(d.users, vs, held)
    PROVE  Leads(d, [d EXCEPT !.users = vs], held)
<1> DEFINE e == [d EXCEPT !.users = vs]
<1>1. /\ IsDb(e) /\ e.users = vs /\ e.sessions = d.sessions /\ e.resets = d.resets /\ e.codes = d.codes
      /\ e.invites = d.invites /\ e.tripInvites = d.tripInvites
      /\ e.owner = d.owner /\ e.members = d.members
  BY DEF Sound, IsDb
<1> HIDE DEF e
<1>2. SessionsOk(vs, d.sessions) /\ SessionsGo(d.sessions, d.sessions)
  BY SessionsStay, SessionsStayed DEF Sound, SessionsOk
<1>3. Sound(e)
  BY <1>1, <1>2, TablesStay DEF Sound
<1> QED
  BY <1>1, <1>2, <1>3 DEF Leads, e

(* A transaction that writes sessions and nothing else.                    *)
LEMMA OnlySessions ==
    ASSUME NEW d, Sound(d), NEW ts, SessionsOk(d.users, ts)
    PROVE  LET e == [d EXCEPT !.sessions = ts] IN
           Sound(e) /\ e.users = d.users /\ e.sessions = ts
<1> DEFINE e == [d EXCEPT !.sessions = ts]
<1>1. /\ IsDb(e) /\ e.users = d.users /\ e.sessions = ts /\ e.resets = d.resets /\ e.codes = d.codes
      /\ e.invites = d.invites /\ e.tripInvites = d.tripInvites
      /\ e.owner = d.owner /\ e.members = d.members
  BY DEF Sound, IsDb
<1> HIDE DEF e
<1>2. Sound(e)
  BY <1>1 DEF Sound
<1> QED
  BY <1>1, <1>2 DEF e
(* What a transaction has to show.                                         *)
LEMMA Transaction ==
    ASSUME NEW d, Sound(d), NEW e, IsDb(e), NEW held,
           UsersOk(e.users), Keeps(d.users, e.users), UsersGo(d.users, e.users, held),
           SessionsOk(e.users, e.sessions), SessionsGo(d.sessions, e.sessions),
           e.resets = d.resets, e.codes = d.codes, e.invites = d.invites,
           e.tripInvites = d.tripInvites, e.owner = d.owner, e.members = d.members
    PROVE  Leads(d, e, held)
<1>1. Sound(e)
  BY TablesStay DEF Sound
<1> QED
  BY <1>1 DEF Leads

-----------------------------------------------------------------------------
LEMMA NewUserIsSound ==
    ASSUME NEW email \in Addresses, NEW admin \in BOOLEAN
    PROVE  /\ NewUser(email, admin, TRUE, FALSE) \in UserRow
           /\ NewUser(email, admin, FALSE, TRUE) \in UserRow
BY DEF NewUser, UserRow

(* An account that is created takes nobody's place.                        *)
LEMMA CreateUserLeads ==
    ASSUME NEW d, Sound(d), HasRoom(d.users), NEW row \in UserRow, row.unverified => ~row.active,
           NEW held
    PROVE  LET u == Fresh(d.users)
               e == CreateUser(d, row)
           IN Leads(d, e, held) /\ u \in UserIds /\ u \notin Rows(d.users)
              /\ e.users = [d.users EXCEPT ![u] = row]
<1> DEFINE u == Fresh(d.users)
           us == d.users
           vs == [us EXCEPT ![u] = row]
<1>1. us \in Users /\ UsersOk(us)
  BY DEF Sound, UsersOk
<1>2. u \in UserIds /\ us[u] = None
  <2>1. DOMAIN us = UserIds
    BY <1>1 DEF Users
  <2> QED
    BY <2>1, FreshIsFree, StoreAssumption
<1>3. u \notin Rows(us)
  BY <1>2 DEF Rows
<1> HIDE DEF u
<1>4. vs \in Users /\ vs[u] = row /\ \A v \in UserIds \ {u} : vs[v] = us[v]
  BY <1>1, <1>2 DEF Users
<1>5. \A v : v \in Rows(vs) <=> v \in Rows(us) \/ v = u
  BY <1>1, <1>2, <1>4, UserRows
<1> HIDE DEF vs, us
<1>6. UsersOk(vs)
  BY <1>1, <1>3, <1>4, <1>5, UserRows DEF UsersOk
<1>7. \A v \in Rows(us) : v \in Rows(vs) /\ vs[v] = us[v]
  BY <1>1, <1>3, <1>4, <1>5, UserRows
<1>8. Keeps(us, vs) /\ KeepsActive(us, vs)
  BY <1>7 DEF Keeps, KeepsActive
<1>9. UsersGo(us, vs, held)
  <2>1. \A v \in UserIds : (us[v] # None => vs[v] # None) /\ (us[v] = Gone => vs[v] = Gone)
    BY <1>2, <1>4, StoreAssumption
  <2>2. Chiefs(us) \subseteq Chiefs(vs)
    BY <1>7 DEF Chiefs
  <2>3. \A v \in held \cap Rows(us) : v \in Rows(vs) /\ (v \in Chiefs(vs) => v \in Chiefs(us))
    BY <1>7 DEF Chiefs
  <2> QED
    BY <1>7, <2>1, <2>2, <2>3 DEF UsersGo
<1>10. CreateUser(d, row) = [d EXCEPT !.users = vs]
  BY DEF CreateUser, vs, us, u
<1>11. Leads(d, CreateUser(d, row), held)
  BY <1>6, <1>8, <1>9, <1>10, OnlyUsers DEF us
<1>12. CreateUser(d, row).users = vs
  BY <1>10 DEF Sound, IsDb
<1> QED
  BY <1>2, <1>3, <1>11, <1>12 DEF vs, us, u

(* Sessions that are ended stay the sessions they were.                    *)
Ended(ss, ended) ==
    [s \in SessionIds |-> IF s \in ended /\ ss[s].revoked = "no"
                          THEN [ss[s] EXCEPT !.revoked = "person"] ELSE ss[s]]

LEMMA EndedSessions ==
    ASSUME NEW ss \in SessionTable, NEW ended, ended \subseteq Rows(ss)
    PROVE  LET ts == Ended(ss, ended) IN
           /\ ts \in SessionTable
           /\ Rows(ts) = Rows(ss)
           /\ \A s \in Rows(ss) :
                 /\ ts[s].user = ss[s].user /\ ts[s].pw = ss[s].pw /\ ts[s].late = ss[s].late
                 /\ ts[s].revoked = IF s \in ended /\ ss[s].revoked = "no" THEN "person" ELSE ss[s].revoked
           /\ SessionsGo(ss, ts)
<1> DEFINE ts == Ended(ss, ended)
<1>1. \A s \in SessionIds :
         ts[s] = IF s \in ended /\ ss[s].revoked = "no"
                 THEN [ss[s] EXCEPT !.revoked = "person"] ELSE ss[s]
  BY DEF Ended
<1>2. ts = [s \in SessionIds |-> ts[s]]
  BY DEF Ended
<1> HIDE DEF ts
<1>3. ASSUME NEW s \in Rows(ss)
      PROVE  /\ s \in SessionIds /\ ss[s] \in SessionRow /\ ts[s] \in SessionRow
             /\ ts[s].user = ss[s].user /\ ts[s].pw = ss[s].pw /\ ts[s].late = ss[s].late
             /\ ts[s].token = ss[s].token /\ ts[s].recent = ss[s].recent
             /\ ts[s].expired = ss[s].expired
             /\ ts[s].revoked = IF s \in ended /\ ss[s].revoked = "no" THEN "person" ELSE ss[s].revoked
  <2>1. s \in SessionIds /\ ss[s] \in SessionRow
    BY SessionRows
  <2>2. CASE s \in ended /\ ss[s].revoked = "no"
    <3>1. ts[s] = [ss[s] EXCEPT !.revoked = "person"]
      BY <1>1, <2>1, <2>2
    <3>2. ts[s] \in SessionRow
      BY <2>1, <3>1 DEF SessionRow
    <3>3. /\ ts[s].user = ss[s].user /\ ts[s].pw = ss[s].pw /\ ts[s].late = ss[s].late
          /\ ts[s].token = ss[s].token /\ ts[s].recent = ss[s].recent
          /\ ts[s].expired = ss[s].expired /\ ts[s].revoked = "person"
      BY <2>1, <3>1 DEF SessionRow
    <3> QED
      BY <2>1, <2>2, <3>2, <3>3
  <2>3. CASE ~(s \in ended /\ ss[s].revoked = "no")
    <3>1. ts[s] = ss[s]
      BY <1>1, <2>1, <2>3
    <3> QED
      BY <2>1, <2>3, <3>1
  <2> QED
    BY <2>2, <2>3
<1>4. \A s \in SessionIds : s \notin Rows(ss) => ts[s] = ss[s]
  BY <1>1
<1>5. ts \in SessionTable
  BY <1>2, <1>3, <1>4 DEF SessionTable
<1>6. Rows(ts) = Rows(ss)
  <2>1. \A s : s \in Rows(ts) <=> s \in Rows(ss)
    BY <1>3, <1>4, <1>5, SessionRows
  <2> QED
    BY <2>1
<1>7. SessionsGo(ss, ts)
  <2> SUFFICES ASSUME NEW s \in SessionIds PROVE SessionsGo(ss, ts)!(s)
    BY DEF SessionsGo
  <2>1. CASE s \in Rows(ss)
    <3>1. ts[s] # None
      BY <1>3, <2>1, StoreAssumption
    <3>2. ts[s].revoked = ss[s].revoked \/ (ss[s].revoked = "no" /\ ts[s].revoked = "person")
      BY <1>3, <2>1
    <3>3. ts[s].token = ss[s].token /\ (ts[s].recent = ss[s].recent) /\ (ts[s].late = ss[s].late)
          /\ (ss[s].expired => ts[s].expired)
      BY <1>3, <2>1
    <3> QED
      BY <2>1, <3>1, <3>2, <3>3
  <2>2. CASE s \notin Rows(ss)
    BY <1>4, <1>6, <2>2
  <2> QED
    BY <2>1, <2>2
<1>8. \A s \in Rows(ss) :
         /\ ts[s].user = ss[s].user /\ ts[s].pw = ss[s].pw /\ ts[s].late = ss[s].late
         /\ ts[s].revoked = IF s \in ended /\ ss[s].revoked = "no" THEN "person" ELSE ss[s].revoked
  BY <1>3
<1> QED
  BY <1>5, <1>6, <1>7, <1>8 DEF ts
-----------------------------------------------------------------------------
(* The tables row by row.                                                  *)
SessionRight(users, row) ==
    /\ row \in SessionRow
    /\ row.revoked = "no" /\ ~row.late =>
          /\ row.user \in Rows(users)
          /\ users[row.user].active
          /\ users[row.user].pw = row.pw

ResetRight(users, row) ==
    /\ row \in ResetRow
    /\ row.user \in Rows(users)
    /\ row.uses <= 1 /\ (~row.used => row.uses = 0)

CodeRight(row) == row \in CodeRow /\ row.attempts <= MaxVerificationAttempts

InviteRight(users, row) ==
    /\ row \in InviteRow
    /\ row.by \in Rows(users) /\ ~users[row.by].unverified
    /\ row.accepted => ~row.revoked /\ row.uses = 1
    /\ ~row.accepted => row.uses = 0

TripInviteRight(users, row) ==
    /\ row \in TripInviteRow
    /\ row.by \in Rows(users) /\ ~users[row.by].unverified
    /\ row.accepted # None => ~row.revoked /\ row.uses = 1
    /\ row.accepted = None => row.uses = 0

IsTable(S, table) == table = [i \in S |-> table[i]]

LEMMA SessionsByRow ==
    ASSUME NEW users, NEW table
    PROVE  SessionsOk(users, table) <=>
             /\ IsTable(SessionIds, table)
             /\ \A i \in SessionIds : table[i] \in {None, Gone} \/ SessionRight(users, table[i])
<1>1. ASSUME SessionsOk(users, table)
      PROVE  /\ IsTable(SessionIds, table)
             /\ \A i \in SessionIds : table[i] \in {None, Gone} \/ SessionRight(users, table[i])
  <2>1. table \in SessionTable /\ SessionsCurrent(users, table)
    BY <1>1 DEF SessionsOk
  <2>2. \A i \in SessionIds : table[i] \in {None, Gone} \/ table[i] \in SessionRow
    BY <2>1 DEF SessionTable
  <2> QED
    BY <2>1, <2>2, SessionRows DEF SessionsCurrent, SessionRight, IsTable, SessionTable
<1>2. ASSUME IsTable(SessionIds, table),
             \A i \in SessionIds : table[i] \in {None, Gone} \/ SessionRight(users, table[i])
      PROVE  SessionsOk(users, table)
  <2>1. table \in SessionTable
    BY <1>2 DEF IsTable, SessionTable, SessionRight
  <2>2. SessionsCurrent(users, table)
    BY <1>2, <2>1, SessionRows, StoreAssumption DEF SessionsCurrent, SessionRight
  <2> QED
    BY <2>1, <2>2 DEF SessionsOk
<1> QED
  BY <1>1, <1>2

LEMMA ResetsByRow ==
    ASSUME NEW users, NEW table
    PROVE  ResetsOk(users, table) <=>
             /\ IsTable(TokenIds, table)
             /\ \A i \in TokenIds : table[i] \in {None, Gone} \/ ResetRight(users, table[i])
<1>1. ASSUME ResetsOk(users, table)
      PROVE  /\ IsTable(TokenIds, table)
             /\ \A i \in TokenIds : table[i] \in {None, Gone} \/ ResetRight(users, table[i])
  <2>1. table \in ResetTable /\ ResetsUsedOnce(users, table)
    BY <1>1 DEF ResetsOk
  <2>2. \A i \in TokenIds : table[i] \in {None, Gone} \/ table[i] \in ResetRow
    BY <2>1 DEF ResetTable
  <2> QED
    BY <2>1, <2>2, ResetRows DEF ResetsUsedOnce, ResetRight, IsTable, ResetTable
<1>2. ASSUME IsTable(TokenIds, table),
             \A i \in TokenIds : table[i] \in {None, Gone} \/ ResetRight(users, table[i])
      PROVE  ResetsOk(users, table)
  <2>1. table \in ResetTable
    BY <1>2 DEF IsTable, ResetTable, ResetRight
  <2>2. ResetsUsedOnce(users, table)
    BY <1>2, <2>1, ResetRows, StoreAssumption DEF ResetsUsedOnce, ResetRight
  <2> QED
    BY <2>1, <2>2 DEF ResetsOk
<1> QED
  BY <1>1, <1>2

LEMMA CodesByRow ==
    ASSUME NEW users, NEW table
    PROVE  CodesOk(users, table) <=>
             /\ IsTable(UserIds, table)
             /\ \A u \in UserIds : table[u] = None \/ (u \in Rows(users) /\ CodeRight(table[u]))
<1>1. ASSUME CodesOk(users, table)
      PROVE  /\ IsTable(UserIds, table)
             /\ \A u \in UserIds : table[u] = None \/ (u \in Rows(users) /\ CodeRight(table[u]))
  <2>1. table \in CodeTable /\ GuessesBounded(users, table)
    BY <1>1 DEF CodesOk
  <2>2. \A u \in UserIds : table[u] = None \/ table[u] \in CodeRow
    BY <2>1 DEF CodeTable
  <2> QED
    BY <2>1, <2>2, CodeRows, StoreAssumption DEF GuessesBounded, CodeRight, IsTable, CodeTable
<1>2. ASSUME IsTable(UserIds, table),
             \A u \in UserIds : table[u] = None \/ (u \in Rows(users) /\ CodeRight(table[u]))
      PROVE  CodesOk(users, table)
  <2>1. table \in CodeTable
    BY <1>2 DEF IsTable, CodeTable, CodeRight
  <2>2. GuessesBounded(users, table)
    BY <1>2, <2>1, CodeRows, StoreAssumption DEF GuessesBounded, CodeRight
  <2> QED
    BY <2>1, <2>2 DEF CodesOk
<1> QED
  BY <1>1, <1>2

LEMMA InvitesByRow ==
    ASSUME NEW users, NEW table
    PROVE  InvitesOk(users, table) <=>
             /\ IsTable(TokenIds, table)
             /\ \A i \in TokenIds : table[i] \in {None, Gone} \/ InviteRight(users, table[i])
<1>1. ASSUME InvitesOk(users, table)
      PROVE  /\ IsTable(TokenIds, table)
             /\ \A i \in TokenIds : table[i] \in {None, Gone} \/ InviteRight(users, table[i])
  <2>1. table \in InviteTable /\ InvitesUsedOnce(users, table)
    BY <1>1 DEF InvitesOk
  <2>2. \A i \in TokenIds : table[i] \in {None, Gone} \/ table[i] \in InviteRow
    BY <2>1 DEF InviteTable
  <2> QED
    BY <2>1, <2>2, InviteRows DEF InvitesUsedOnce, InviteRight, IsTable, InviteTable
<1>2. ASSUME IsTable(TokenIds, table),
             \A i \in TokenIds : table[i] \in {None, Gone} \/ InviteRight(users, table[i])
      PROVE  InvitesOk(users, table)
  <2>1. table \in InviteTable
    BY <1>2 DEF IsTable, InviteTable, InviteRight
  <2>2. InvitesUsedOnce(users, table)
    BY <1>2, <2>1, InviteRows, StoreAssumption DEF InvitesUsedOnce, InviteRight
  <2> QED
    BY <2>1, <2>2 DEF InvitesOk
<1> QED
  BY <1>1, <1>2

LEMMA TripInvitesByRow ==
    ASSUME NEW users, NEW table
    PROVE  TripInvitesOk(users, table) <=>
             /\ IsTable(TokenIds, table)
             /\ \A i \in TokenIds : table[i] \in {None, Gone} \/ TripInviteRight(users, table[i])
<1>1. ASSUME TripInvitesOk(users, table)
      PROVE  /\ IsTable(TokenIds, table)
             /\ \A i \in TokenIds : table[i] \in {None, Gone} \/ TripInviteRight(users, table[i])
  <2>1. table \in TripInviteTable /\ TripInvitesUsedOnce(users, table)
    BY <1>1 DEF TripInvitesOk
  <2>2. \A i \in TokenIds : table[i] \in {None, Gone} \/ table[i] \in TripInviteRow
    BY <2>1 DEF TripInviteTable
  <2> QED
    BY <2>1, <2>2, TripInviteRows DEF TripInvitesUsedOnce, TripInviteRight, IsTable, TripInviteTable
<1>2. ASSUME IsTable(TokenIds, table),
             \A i \in TokenIds : table[i] \in {None, Gone} \/ TripInviteRight(users, table[i])
      PROVE  TripInvitesOk(users, table)
  <2>1. table \in TripInviteTable
    BY <1>2 DEF IsTable, TripInviteTable, TripInviteRight
  <2>2. TripInvitesUsedOnce(users, table)
    BY <1>2, <2>1, TripInviteRows, StoreAssumption DEF TripInvitesUsedOnce, TripInviteRight
  <2> QED
    BY <2>1, <2>2 DEF TripInvitesOk
<1> QED
  BY <1>1, <1>2

(* A transaction that leaves accounts and sessions alone.                  *)
LEMMA SamePeople ==
    ASSUME NEW d, Sound(d), NEW e, IsDb(e), NEW held,
           e.users = d.users, e.sessions = d.sessions,
           ResetsOk(d.users, e.resets), CodesOk(d.users, e.codes), InvitesOk(d.users, e.invites),
           TripInvitesOk(d.users, e.tripInvites),
           e.owner \in [Trips -> UserIds \cup {Gone}], e.members \subseteq Trips \X UserIds
    PROVE  Leads(d, e, held)
<1>1. Sound(e)
  BY DEF Sound
<1>2. SessionsGo(d.sessions, e.sessions)
  BY SessionsStayed DEF Sound, SessionsOk
<1> QED
  BY <1>1, <1>2, UsersStayed DEF Leads
(* A transaction that writes one row of one table.                         *)
LEMMA OneReset ==
    ASSUME NEW d, Sound(d), NEW i \in TokenIds, NEW row, ResetRight(d.users, row), NEW held
    PROVE  Leads(d, [d EXCEPT !.resets = [d.resets EXCEPT ![i] = row]], held)
<1> DEFINE ts == [d.resets EXCEPT ![i] = row]
           e == [d EXCEPT !.resets = ts]
<1>1. /\ IsDb(e) /\ e.resets = ts /\ e.users = d.users /\ e.sessions = d.sessions
      /\ e.codes = d.codes /\ e.invites = d.invites /\ e.tripInvites = d.tripInvites
      /\ e.owner = d.owner /\ e.members = d.members
  BY DEF Sound, IsDb
<1>2. ResetsOk(d.users, ts)
  BY ResetsByRow DEF Sound, IsTable
<1> HIDE DEF e, ts
<1>3. Leads(d, e, held)
  BY <1>1, <1>2, SamePeople DEF Sound
<1> QED
  BY <1>3 DEF e, ts

LEMMA OneCode ==
    ASSUME NEW d, Sound(d), NEW i \in UserIds, NEW row, i \in Rows(d.users) /\ CodeRight(row), NEW held
    PROVE  Leads(d, [d EXCEPT !.codes = [d.codes EXCEPT ![i] = row]], held)
<1> DEFINE ts == [d.codes EXCEPT ![i] = row]
           e == [d EXCEPT !.codes = ts]
<1>1. /\ IsDb(e) /\ e.codes = ts /\ e.users = d.users /\ e.sessions = d.sessions
      /\ e.resets = d.resets /\ e.invites = d.invites /\ e.tripInvites = d.tripInvites
      /\ e.owner = d.owner /\ e.members = d.members
  BY DEF Sound, IsDb
<1>2. CodesOk(d.users, ts)
  BY CodesByRow DEF Sound, IsTable
<1> HIDE DEF e, ts
<1>3. Leads(d, e, held)
  BY <1>1, <1>2, SamePeople DEF Sound
<1> QED
  BY <1>3 DEF e, ts

LEMMA OneInvite ==
    ASSUME NEW d, Sound(d), NEW i \in TokenIds, NEW row, InviteRight(d.users, row), NEW held
    PROVE  Leads(d, [d EXCEPT !.invites = [d.invites EXCEPT ![i] = row]], held)
<1> DEFINE ts == [d.invites EXCEPT ![i] = row]
           e == [d EXCEPT !.invites = ts]
<1>1. /\ IsDb(e) /\ e.invites = ts /\ e.users = d.users /\ e.sessions = d.sessions
      /\ e.resets = d.resets /\ e.codes = d.codes /\ e.tripInvites = d.tripInvites
      /\ e.owner = d.owner /\ e.members = d.members
  BY DEF Sound, IsDb
<1>2. InvitesOk(d.users, ts)
  BY InvitesByRow DEF Sound, IsTable
<1> HIDE DEF e, ts
<1>3. Leads(d, e, held)
  BY <1>1, <1>2, SamePeople DEF Sound
<1> QED
  BY <1>3 DEF e, ts

LEMMA OneTripInvite ==
    ASSUME NEW d, Sound(d), NEW i \in TokenIds, NEW row, TripInviteRight(d.users, row), NEW held
    PROVE  Leads(d, [d EXCEPT !.tripInvites = [d.tripInvites EXCEPT ![i] = row]], held)
<1> DEFINE ts == [d.tripInvites EXCEPT ![i] = row]
           e == [d EXCEPT !.tripInvites = ts]
<1>1. /\ IsDb(e) /\ e.tripInvites = ts /\ e.users = d.users /\ e.sessions = d.sessions
      /\ e.resets = d.resets /\ e.codes = d.codes /\ e.invites = d.invites
      /\ e.owner = d.owner /\ e.members = d.members
  BY DEF Sound, IsDb
<1>2. TripInvitesOk(d.users, ts)
  BY TripInvitesByRow DEF Sound, IsTable
<1> HIDE DEF e, ts
<1>3. Leads(d, e, held)
  BY <1>1, <1>2, SamePeople DEF Sound
<1> QED
  BY <1>3 DEF e, ts

LEMMA OneSession ==
    ASSUME NEW d, Sound(d), NEW i \in SessionIds, NEW row, SessionRight(d.users, row)
    PROVE  LET e == [d EXCEPT !.sessions = [d.sessions EXCEPT ![i] = row]] IN
           /\ Sound(e) /\ e.users = d.users
           /\ e.sessions = [d.sessions EXCEPT ![i] = row] /\ e.sessions[i] = row
           /\ \A s \in SessionIds \ {i} : e.sessions[s] = d.sessions[s]
<1> DEFINE ts == [d.sessions EXCEPT ![i] = row]
<1>1. SessionsOk(d.users, ts) /\ ts[i] = row /\ \A s \in SessionIds \ {i} : ts[s] = d.sessions[s]
  BY SessionsByRow DEF Sound, IsTable
<1> HIDE DEF ts
<1> QED
  BY <1>1, OnlySessions DEF ts

LEMMA OneUser ==
    ASSUME NEW d, Sound(d), NEW u \in Rows(d.users), NEW row \in UserRow, NEW held,
           row.unverified => ~row.active,
           ~d.users[u].unverified => ~row.unverified,
           d.users[u].active => row.active /\ row.pw = d.users[u].pw,
           IsAdministrator(d.users[u]) => IsAdministrator(row),
           u \in held => (IsAdministrator(row) => IsAdministrator(d.users[u]))
    PROVE  LET e == [d EXCEPT !.users = [d.users EXCEPT ![u] = row]] IN
           /\ Leads(d, e, held)
           /\ e.users = [d.users EXCEPT ![u] = row]
           /\ Rows(e.users) = Rows(d.users)
<1> DEFINE us == d.users
           vs == [us EXCEPT ![u] = row]
<1>1. us \in Users /\ UsersOk(us)
  BY DEF Sound, UsersOk
<1>2. u \in UserIds /\ us[u] \in UserRow
  BY <1>1, UserRows
<1>3. vs \in Users /\ vs[u] = row /\ \A v \in UserIds \ {u} : vs[v] = us[v]
  BY <1>1, <1>2 DEF Users
<1> HIDE DEF vs, us
<1>4. \A v : v \in Rows(vs) <=> v \in Rows(us)
  BY <1>1, <1>2, <1>3, UserRows
<1>5. \A v \in Rows(us) : v \in UserIds
  BY <1>1, UserRows
<1>6. UsersOk(vs)
  BY <1>1, <1>3, <1>4, <1>5 DEF UsersOk
<1>7. Keeps(us, vs) /\ KeepsActive(us, vs)
  BY <1>3, <1>4, <1>5 DEF Keeps, KeepsActive, us
<1>8. UsersGo(us, vs, held)
  <2>1. \A v \in UserIds : (us[v] # None => vs[v] # None) /\ (us[v] = Gone => vs[v] = Gone)
    <3>1. vs[u] # None /\ us[u] # Gone
      BY <1>2, <1>3, StoreAssumption
    <3> QED
      BY <1>3, <3>1
  <2>2. \A v \in Rows(us) : ~us[v].unverified => v \in Rows(vs) /\ ~vs[v].unverified
    BY <1>7 DEF Keeps
  <2>3. Chiefs(us) \subseteq Chiefs(vs)
    BY <1>3, <1>4, <1>5 DEF Chiefs, us
  <2>4. \A v \in held \cap Rows(us) : v \in Rows(vs) /\ (v \in Chiefs(vs) => v \in Chiefs(us))
    BY <1>3, <1>4, <1>5 DEF Chiefs, us
  <2> QED
    BY <2>1, <2>2, <2>3, <2>4 DEF UsersGo
<1>9. Leads(d, [d EXCEPT !.users = vs], held)
  BY <1>6, <1>7, <1>8, OnlyUsers DEF us
<1>10. [d EXCEPT !.users = vs].users = vs
  BY DEF Sound, IsDb
<1>11. Rows(vs) = Rows(us)
  BY <1>4
<1> QED
  BY <1>9, <1>10, <1>11 DEF vs, us
-----------------------------------------------------------------------------
(* Sessions.                                                               *)
LEMMA CreateSessionLeads ==
    ASSUME NEW d, Sound(d), HasRoom(d.sessions), NEW u \in Rows(d.users), NEW pw \in Nat,
           NEW late \in BOOLEAN, ~late => d.users[u].active /\ d.users[u].pw = pw, NEW held
    PROVE  Leads(d, CreateSession(d, u, pw, late), held)
<1> DEFINE i == Fresh(d.sessions)
           row == [user |-> u, token |-> 1, recent |-> FALSE, expired |-> FALSE,
                   revoked |-> "no", pw |-> pw, late |-> late]
           e == [d EXCEPT !.sessions = [d.sessions EXCEPT ![i] = row]]
<1>1. d.sessions \in SessionTable /\ d.users \in Users
  BY DEF Sound, SessionsOk, UsersOk
<1>2. i \in SessionIds /\ d.sessions[i] = None
  <2>1. DOMAIN d.sessions = SessionIds
    BY <1>1 DEF SessionTable
  <2> QED
    BY <2>1, FreshIsFree, StoreAssumption
<1>3. u \in UserIds
  BY <1>1, UserRows
<1>4. SessionRight(d.users, row)
  BY <1>3 DEF SessionRight, SessionRow
<1>5. row.revoked = "no"
  OBVIOUS
<1> HIDE DEF i, row
<1>6. /\ Sound(e) /\ e.users = d.users /\ e.sessions[i] = row
      /\ \A s \in SessionIds \ {i} : e.sessions[s] = d.sessions[s]
  BY <1>2, <1>4, OneSession
<1> HIDE DEF e
<1>7. SessionsGo(d.sessions, e.sessions)
  <2> SUFFICES ASSUME NEW s \in SessionIds PROVE SessionsGo(d.sessions, e.sessions)!(s)
    BY DEF SessionsGo
  <2>1. CASE s = i
    BY <1>2, <1>5, <1>6, <2>1
  <2>2. CASE s # i
    <3>1. e.sessions[s] = d.sessions[s] /\ (s \in Rows(e.sessions) => s \in Rows(d.sessions))
      BY <1>1, <1>6, <2>2 DEF Rows, SessionTable
    <3> QED
      BY <3>1
  <2> QED
    BY <2>1, <2>2
<1>8. Leads(d, e, held)
  BY <1>6, <1>7, UsersStayed DEF Leads
<1> QED
  BY <1>8 DEF e, i, row, CreateSession

(* The row a session becomes when it runs out or is ended.                 *)
LEMMA SessionChangeLeads ==
    ASSUME NEW d, Sound(d), NEW s \in Rows(d.sessions), NEW row, SessionRight(d.users, row),
           row.token = d.sessions[s].token, row.recent = d.sessions[s].recent,
           row.late = d.sessions[s].late, d.sessions[s].expired => row.expired,
           row.revoked = d.sessions[s].revoked \/ (d.sessions[s].revoked = "no" /\ row.revoked = "person"),
           NEW held
    PROVE  Leads(d, [d EXCEPT !.sessions = [d.sessions EXCEPT ![s] = row]], held)
<1> DEFINE e == [d EXCEPT !.sessions = [d.sessions EXCEPT ![s] = row]]
<1>1. d.sessions \in SessionTable /\ s \in SessionIds
  BY SessionRows DEF Sound, SessionsOk
<1>2. /\ Sound(e) /\ e.users = d.users /\ e.sessions[s] = row
      /\ \A t \in SessionIds \ {s} : e.sessions[t] = d.sessions[t]
  BY <1>1, OneSession
<1> HIDE DEF e
<1>3. SessionsGo(d.sessions, e.sessions)
  <2> SUFFICES ASSUME NEW t \in SessionIds PROVE SessionsGo(d.sessions, e.sessions)!(t)
    BY DEF SessionsGo
  <2>1. CASE t = s
    <3>1. row # None
      BY StoreAssumption DEF SessionRight
    <3> QED
      BY <1>2, <2>1, <3>1
  <2>2. CASE t # s
    <3>1. e.sessions[t] = d.sessions[t] /\ (t \in Rows(e.sessions) => t \in Rows(d.sessions))
      BY <1>1, <1>2, <2>2 DEF Rows, SessionTable
    <3> QED
      BY <3>1
  <2> QED
    BY <2>1, <2>2
<1>4. Leads(d, e, held)
  BY <1>2, <1>3, UsersStayed DEF Leads
<1> QED
  BY <1>4 DEF e

LEMMA RowRight ==
    ASSUME NEW d, Sound(d), NEW s \in Rows(d.sessions)
    PROVE  s \in SessionIds /\ d.sessions[s] \in SessionRow /\ SessionRight(d.users, d.sessions[s])
<1>1. d.sessions \in SessionTable /\ SessionsCurrent(d.users, d.sessions)
  BY DEF Sound, SessionsOk
<1> QED
  BY <1>1, SessionRows DEF SessionsCurrent, SessionRight

LEMMA LeadsNowhere == \A d, held : Sound(d) => Leads(d, d, held)
BY UsersStayed, SessionsStayed DEF Leads, Sound, SessionsOk

LEMMA RevokeIsSound ==
    ASSUME NEW d, Sound(d), NEW s, NEW reason \in {"person", "replay"}
    PROVE  Sound(Revoke(d, s, reason)) /\ Revoke(d, s, reason).users = d.users
<1>1. CASE s \in Rows(d.sessions) /\ d.sessions[s].revoked = "no"
  <2> DEFINE row == [d.sessions[s] EXCEPT !.revoked = reason]
  <2>1. s \in SessionIds /\ d.sessions[s] \in SessionRow
    BY <1>1, RowRight
  <2>2. SessionRight(d.users, row)
    BY <2>1 DEF SessionRight, SessionRow
  <2>3. Revoke(d, s, reason) = [d EXCEPT !.sessions = [d.sessions EXCEPT ![s] = row]]
    BY <1>1 DEF Revoke
  <2> HIDE DEF row
  <2> DEFINE e == [d EXCEPT !.sessions = [d.sessions EXCEPT ![s] = row]]
  <2>4. Sound(e) /\ e.users = d.users
    BY <2>1, <2>2, OneSession
  <2> QED
    BY <2>3, <2>4
<1>2. CASE ~(s \in Rows(d.sessions) /\ d.sessions[s].revoked = "no")
  BY <1>2 DEF Revoke
<1> QED
  BY <1>1, <1>2

LEMMA RevokeEnds ==
    ASSUME NEW d, Sound(d), NEW s, NEW e, e = Revoke(d, s, "person"), s \in Rows(e.sessions)
    PROVE  e.sessions[s].revoked # "no"
<1>1. CASE s \in Rows(d.sessions) /\ d.sessions[s].revoked = "no"
  <2> DEFINE row == [d.sessions[s] EXCEPT !.revoked = "person"]
  <2>1. s \in SessionIds /\ d.sessions[s] \in SessionRow /\ d.sessions \in SessionTable
    BY <1>1, RowRight DEF Sound, SessionsOk
  <2>2. row.revoked = "person"
    BY <2>1 DEF SessionRow
  <2>3. e = [d EXCEPT !.sessions = [d.sessions EXCEPT ![s] = row]]
    BY <1>1 DEF Revoke
  <2> HIDE DEF row
  <2>4. e.sessions = [d.sessions EXCEPT ![s] = row]
    BY <2>3 DEF Sound, IsDb
  <2>5. e.sessions[s] = row
    BY <2>1, <2>4 DEF SessionTable
  <2> QED
    BY <2>2, <2>5
<1>2. CASE ~(s \in Rows(d.sessions) /\ d.sessions[s].revoked = "no")
  BY <1>2 DEF Revoke
<1> QED
  BY <1>1, <1>2

LEMMA RevokeLeads ==
    ASSUME NEW d, Sound(d), NEW s, NEW held
    PROVE  Leads(d, Revoke(d, s, "person"), held)
<1>1. CASE s \in Rows(d.sessions) /\ d.sessions[s].revoked = "no"
  <2> DEFINE row == [d.sessions[s] EXCEPT !.revoked = "person"]
  <2>1. s \in SessionIds /\ d.sessions[s] \in SessionRow
    BY <1>1, RowRight
  <2>2. SessionRight(d.users, row)
    BY <2>1 DEF SessionRight, SessionRow
  <2>3. Revoke(d, s, "person") = [d EXCEPT !.sessions = [d.sessions EXCEPT ![s] = row]]
    BY <1>1 DEF Revoke
  <2>4. /\ row.token = d.sessions[s].token /\ row.recent = d.sessions[s].recent
        /\ row.late = d.sessions[s].late /\ row.expired = d.sessions[s].expired
        /\ row.revoked = "person"
    BY <2>1 DEF SessionRow
  <2> HIDE DEF row
  <2>5. Leads(d, [d EXCEPT !.sessions = [d.sessions EXCEPT ![s] = row]], held)
    BY <1>1, <2>2, <2>4, SessionChangeLeads
  <2> QED
    BY <2>3, <2>5
<1>2. CASE ~(s \in Rows(d.sessions) /\ d.sessions[s].revoked = "no")
  BY <1>2, LeadsNowhere DEF Revoke
<1> QED
  BY <1>1, <1>2

LEMMA ExpiredLeads ==
    ASSUME NEW d, Sound(d), NEW s \in Rows(d.sessions), NEW held
    PROVE  Leads(d, [d EXCEPT !.sessions[s].expired = TRUE], held)
<1> DEFINE row == [d.sessions[s] EXCEPT !.expired = TRUE]
<1>1. s \in SessionIds /\ d.sessions[s] \in SessionRow /\ SessionRight(d.users, d.sessions[s])
  BY RowRight
<1>2. row \in SessionRow /\ row.revoked = d.sessions[s].revoked /\ (row.late = d.sessions[s].late)
      /\ row.user = d.sessions[s].user /\ row.pw = d.sessions[s].pw
      /\ row.token = d.sessions[s].token /\ (row.recent = d.sessions[s].recent) /\ row.expired
  BY <1>1 DEF SessionRow
<1> HIDE DEF row
<1>3. SessionRight(d.users, row)
  BY <1>1, <1>2 DEF SessionRight
<1>4. Leads(d, [d EXCEPT !.sessions = [d.sessions EXCEPT ![s] = row]], held)
  BY <1>2, <1>3, SessionChangeLeads
<1> QED
  BY <1>4 DEF row

(* A session after which some time has passed.                             *)
GrewOld(ss, ts, s) ==
    /\ ss[s] # None => ts[s] # None
    /\ s \in Rows(ts) =>
          /\ s \in Rows(ss)
          /\ ts[s].token = ss[s].token
          /\ ts[s].late = ss[s].late
          /\ ts[s].revoked = ss[s].revoked
          /\ ts[s].expired = ss[s].expired

LEMMA GraceIsSound ==
    ASSUME NEW d, Sound(d), NEW s \in Rows(d.sessions), NEW e,
           e = [d EXCEPT !.sessions[s].recent = FALSE]
    PROVE  Sound(e) /\ e.users = d.users /\ \A i \in SessionIds : GrewOld(d.sessions, e.sessions, i)
<1> DEFINE row == [d.sessions[s] EXCEPT !.recent = FALSE]
           ss == d.sessions
           ts == [ss EXCEPT ![s] = row]
<1>1. s \in SessionIds /\ d.sessions[s] \in SessionRow /\ SessionRight(d.users, d.sessions[s])
  BY RowRight
<1>2. row \in SessionRow /\ row.revoked = ss[s].revoked /\ (row.late = ss[s].late)
      /\ row.user = ss[s].user /\ row.pw = ss[s].pw
      /\ row.token = ss[s].token /\ (row.expired = ss[s].expired)
  BY <1>1 DEF SessionRow
<1> DEFINE f == [d EXCEPT !.sessions = [d.sessions EXCEPT ![s] = row]]
<1>3. e = f
  OBVIOUS
<1> HIDE DEF row
<1>4. SessionRight(d.users, row)
  BY <1>1, <1>2 DEF SessionRight
<1>5. Sound(e) /\ e.users = d.users /\ e.sessions = ts
  <2>1. Sound(f) /\ f.users = d.users /\ f.sessions = [d.sessions EXCEPT ![s] = row]
    BY <1>1, <1>4, OneSession
  <2> HIDE DEF f
  <2> QED
    BY <1>3, <2>1
<1>6. ss \in SessionTable
  BY DEF Sound, SessionsOk
<1>7. ts[s] = row /\ \A i \in SessionIds \ {s} : ts[i] = ss[i]
  BY <1>1, <1>6 DEF SessionTable
<1>8. DOMAIN ts = SessionIds /\ DOMAIN ss = SessionIds
  BY <1>6 DEF SessionTable
<1> HIDE DEF ts, ss
<1>9. ASSUME NEW i \in SessionIds PROVE GrewOld(ss, ts, i)
  <2>1. CASE i = s
    BY <1>2, <1>7, <1>8, <2>1, StoreAssumption DEF GrewOld, Rows, ss
  <2>2. CASE i # s
    BY <1>7, <1>8, <2>2 DEF GrewOld, Rows
  <2> QED
    BY <2>1, <2>2
<1> QED
  BY <1>5, <1>9 DEF ss

(* What an exchange makes of the sessions.                                 *)
Rotated(ss, ts, s) ==
    /\ s \in Rows(ss) /\ s \in SessionIds
    /\ \A i \in SessionIds \ {s} : ts[i] = ss[i]
    /\ ts[s] \in SessionRow
    /\ ts[s].token = ss[s].token + 1
    /\ ts[s].late = ss[s].late
    /\ ts[s].revoked = "no"
    /\ ts[s].expired = FALSE
    /\ ts[s].recent = TRUE

LEMMA RotateIsSound ==
    ASSUME NEW d, Sound(d), NEW s, NEW token, RotateAllowed(d, s, token)
    PROVE  /\ Sound(Rotate(d, s)) /\ Rotate(d, s).users = d.users
           /\ Rotated(d.sessions, Rotate(d, s).sessions, s)
<1> DEFINE row == [d.sessions[s] EXCEPT !.token = @ + 1, !.recent = TRUE, !.expired = FALSE]
<1>1. s \in Rows(d.sessions) /\ s \in SessionIds /\ d.sessions[s] \in SessionRow
      /\ SessionRight(d.users, d.sessions[s])
  BY RowRight DEF RotateAllowed, GetByHash
<1>2. row \in SessionRow /\ row.revoked = d.sessions[s].revoked /\ (row.late = d.sessions[s].late)
      /\ row.user = d.sessions[s].user /\ row.pw = d.sessions[s].pw
      /\ row.token = d.sessions[s].token + 1 /\ row.expired = FALSE /\ row.recent = TRUE
  <2>1. d.sessions[s].token \in Nat
    BY <1>1 DEF SessionRow
  <2>2. d.sessions[s].token + 1 \in Nat
    BY <2>1
  <2>3. row \in SessionRow
    BY <1>1, <2>2, Zenon DEF SessionRow
  <2>4. row.user = d.sessions[s].user /\ row.pw = d.sessions[s].pw /\ row.revoked = d.sessions[s].revoked
    BY <1>1 DEF SessionRow
  <2>5. row.late = d.sessions[s].late
    BY <1>1 DEF SessionRow
  <2>6. row.token = d.sessions[s].token + 1
    BY <1>1 DEF SessionRow
  <2>7. row.expired = FALSE
    BY <1>1 DEF SessionRow
  <2>8. row.recent = TRUE
    BY <1>1 DEF SessionRow
  <2> HIDE DEF row
  <2> QED
    BY <2>3, <2>4, <2>5, <2>6, <2>7, <2>8
<1>3. d.sessions[s].revoked = "no"
  BY DEF RotateAllowed
<1>4. Rotate(d, s) = [d EXCEPT !.sessions = [d.sessions EXCEPT ![s] = row]]
  BY DEF Rotate
<1> HIDE DEF row
<1>5. SessionRight(d.users, row)
  BY <1>1, <1>2 DEF SessionRight
<1> DEFINE e == Rotate(d, s)
<1>6. Sound(e) /\ e.users = d.users /\ e.sessions = [d.sessions EXCEPT ![s] = row]
  BY <1>1, <1>2, <1>4, <1>5, OneSession
<1> HIDE DEF e
<1>7. e.sessions[s] = row /\ \A i \in SessionIds \ {s} : e.sessions[i] = d.sessions[i]
  BY <1>1, <1>6 DEF Sound, SessionsOk, SessionTable
<1> DEFINE ts == e.sessions
           ss == d.sessions
<1>8. ts[s] = row /\ \A i \in SessionIds \ {s} : ts[i] = ss[i]
  BY <1>7
<1>9. /\ s \in Rows(ss) /\ s \in SessionIds /\ row \in SessionRow
      /\ row.token = ss[s].token + 1 /\ row.late = ss[s].late /\ row.revoked = "no"
      /\ row.expired = FALSE /\ row.recent = TRUE
  BY <1>1, <1>2, <1>3
<1> HIDE DEF ts, ss
<1>10. Rotated(ss, ts, s)
  BY <1>8, <1>9 DEF Rotated
<1> QED
  BY <1>6, <1>10 DEF e, ts, ss

LEMMA DeleteFinishedLeads ==
    ASSUME NEW d, Sound(d), NEW ended \in SUBSET Rows(d.sessions), NEW held
    PROVE  Leads(d, DeleteFinished(d, ended), held)
<1> DEFINE ss == d.sessions
           ts == [s \in SessionIds |-> IF s \in ended /\ ~IsUsable(ss[s]) THEN Gone ELSE ss[s]]
<1>1. ss \in SessionTable /\ SessionsOk(d.users, ss)
  BY DEF Sound, SessionsOk
<1>2. IsTable(SessionIds, ts) /\ \A s \in SessionIds : ts[s] = Gone \/ ts[s] = ss[s]
  BY DEF IsTable
<1>3. DeleteFinished(d, ended) = [d EXCEPT !.sessions = ts]
  BY DEF DeleteFinished
<1> HIDE DEF ts
<1>4. SessionsOk(d.users, ts)
  BY <1>1, <1>2, SessionsByRow
<1> DEFINE e == [d EXCEPT !.sessions = ts]
<1>5. Sound(e) /\ e.users = d.users /\ e.sessions = ts
  BY <1>4, OnlySessions
<1> HIDE DEF e
<1>6. SessionsGo(ss, ts)
  <2> SUFFICES ASSUME NEW s \in SessionIds PROVE SessionsGo(ss, ts)!(s)
    BY DEF SessionsGo
  <2>1. CASE ts[s] = Gone
    BY <2>1, StoreAssumption DEF Rows
  <2>2. CASE ts[s] = ss[s]
    <3>1. s \in Rows(ts) => s \in Rows(ss)
      BY <1>1, <2>2 DEF Rows, SessionTable
    <3> QED
      BY <2>2, <3>1
  <2> QED
    BY <1>2, <2>1, <2>2
<1>7. Leads(d, e, held)
  BY <1>5, <1>6, UsersStayed DEF Leads
<1> QED
  BY <1>3, <1>7 DEF e
-----------------------------------------------------------------------------
(* Passwords, and what an administrator changes.                           *)
LEMMA UserChange ==
    ASSUME NEW us, UsersOk(us), NEW u \in Rows(us), NEW row \in UserRow,
           row.unverified => ~row.active, ~us[u].unverified => ~row.unverified
    PROVE  LET vs == [us EXCEPT ![u] = row] IN
           /\ UsersOk(vs) /\ Keeps(us, vs) /\ u \in UserIds /\ vs[u] = row
           /\ \A v \in UserIds \ {u} : vs[v] = us[v]
           /\ Rows(vs) = Rows(us) /\ Rows(us) \subseteq UserIds
           /\ \A v \in UserIds : (us[v] # None => vs[v] # None) /\ (us[v] = Gone => vs[v] = Gone)
<1> DEFINE vs == [us EXCEPT ![u] = row]
<1>1. us \in Users
  BY DEF UsersOk
<1>2. u \in UserIds /\ us[u] \in UserRow
  BY <1>1, UserRows
<1>3. vs \in Users /\ vs[u] = row /\ \A v \in UserIds \ {u} : vs[v] = us[v]
  BY <1>1, <1>2 DEF Users
<1> HIDE DEF vs
<1>4. \A v : v \in Rows(vs) <=> v \in Rows(us)
  BY <1>1, <1>2, <1>3, UserRows
<1>5. \A v \in Rows(us) : v \in UserIds
  BY <1>1, UserRows
<1>6. UsersOk(vs)
  BY <1>1, <1>3, <1>4, <1>5 DEF UsersOk
<1>7. Keeps(us, vs)
  BY <1>3, <1>4, <1>5 DEF Keeps
<1>8. row # None /\ us[u] # Gone
  BY <1>2, StoreAssumption
<1>9. \A v \in UserIds : (us[v] # None => vs[v] # None) /\ (us[v] = Gone => vs[v] = Gone)
  BY <1>3, <1>8
<1>10. Rows(vs) = Rows(us)
  BY <1>4
<1> QED
  BY <1>2, <1>3, <1>5, <1>6, <1>7, <1>9, <1>10 DEF vs

(* One whose powers stay the same gives nobody a reason to look again.     *)
LEMMA SamePowers ==
    ASSUME NEW us, UsersOk(us), NEW u \in Rows(us), NEW row \in UserRow,
           row.unverified => ~row.active, ~us[u].unverified => ~row.unverified,
           IsAdministrator(row) <=> IsAdministrator(us[u]), NEW held
    PROVE  UsersGo(us, [us EXCEPT ![u] = row], held)
<1> DEFINE vs == [us EXCEPT ![u] = row]
<1>1. /\ UsersOk(vs) /\ Keeps(us, vs) /\ u \in UserIds /\ vs[u] = row
      /\ \A v \in UserIds \ {u} : vs[v] = us[v]
      /\ Rows(vs) = Rows(us) /\ Rows(us) \subseteq UserIds
      /\ \A v \in UserIds : (us[v] # None => vs[v] # None) /\ (us[v] = Gone => vs[v] = Gone)
  BY UserChange
<1> HIDE DEF vs
<1>2. \A v \in Rows(us) : IsAdministrator(vs[v]) <=> IsAdministrator(us[v])
  BY <1>1
<1>3. Chiefs(vs) = Chiefs(us)
  BY <1>1, <1>2 DEF Chiefs
<1>4. UsersGo(us, vs, held)
  BY <1>1, <1>3 DEF UsersGo, Keeps
<1> QED
  BY <1>4 DEF vs

(* After the change no session of the account is left but by the new state. *)
LEMMA OwnSessionsEnd ==
    ASSUME NEW d, Sound(d), NEW u \in Rows(d.users), NEW row \in UserRow,
           row.unverified => ~row.active, ~d.users[u].unverified => ~row.unverified
    PROVE  LET e == revokeAllSessions([d EXCEPT !.users = [d.users EXCEPT ![u] = row]], u) IN
           /\ Sound(e) /\ e.users = [d.users EXCEPT ![u] = row]
           /\ SessionsGo(d.sessions, e.sessions)
<1> DEFINE us == d.users
           ss == d.sessions
           vs == [us EXCEPT ![u] = row]
           b == [d EXCEPT !.users = vs]
           ended == SessionsOf(b, u)
           ts == Ended(ss, ended)
           e == revokeAllSessions(b, u)
<1>1. UsersOk(us) /\ SessionsOk(us, ss) /\ ss \in SessionTable /\ SessionsCurrent(us, ss)
  BY DEF Sound, SessionsOk
<1>2. /\ UsersOk(vs) /\ Keeps(us, vs) /\ u \in UserIds /\ vs[u] = row
      /\ \A v \in UserIds \ {u} : vs[v] = us[v]
      /\ Rows(vs) = Rows(us) /\ Rows(us) \subseteq UserIds
  BY <1>1, UserChange
<1> HIDE DEF vs
<1>3. b.sessions = ss /\ b.users = vs /\ b.resets = d.resets /\ b.codes = d.codes
      /\ b.invites = d.invites /\ b.tripInvites = d.tripInvites
      /\ b.owner = d.owner /\ b.members = d.members /\ IsDb(b)
  BY DEF Sound, IsDb
<1> HIDE DEF b
<1>4. ended = {s \in Rows(ss) : ss[s].user = u}
  BY <1>3 DEF SessionsOf
<1>5. e = [b EXCEPT !.sessions = ts]
  BY <1>3 DEF revokeAllSessions, EndSessions, Ended
<1>6. /\ e.sessions = ts /\ e.users = vs /\ e.resets = d.resets /\ e.codes = d.codes
      /\ e.invites = d.invites /\ e.tripInvites = d.tripInvites
      /\ e.owner = d.owner /\ e.members = d.members /\ IsDb(e)
  BY <1>3, <1>5 DEF IsDb
<1> HIDE DEF e, ended
<1>7. /\ ts \in SessionTable /\ Rows(ts) = Rows(ss) /\ SessionsGo(ss, ts)
      /\ \A s \in Rows(ss) :
           /\ ts[s].user = ss[s].user /\ ts[s].pw = ss[s].pw /\ ts[s].late = ss[s].late
           /\ ts[s].revoked = IF s \in ended /\ ss[s].revoked = "no" THEN "person" ELSE ss[s].revoked
  <2>1. ended \subseteq Rows(ss)
    BY <1>4
  <2> QED
    BY <1>1, <2>1, EndedSessions
<1> HIDE DEF ts
<1>8. SessionsCurrent(vs, ts)
  <2> SUFFICES ASSUME NEW s \in Rows(ts), ts[s].revoked = "no", ~ts[s].late
               PROVE  /\ ts[s].user \in Rows(vs)
                      /\ vs[ts[s].user].active /\ vs[ts[s].user].pw = ts[s].pw
    BY DEF SessionsCurrent
  <2>1. s \in Rows(ss) /\ s \notin ended /\ ss[s].revoked = "no" /\ ~ss[s].late
        /\ ts[s].user = ss[s].user /\ ts[s].pw = ss[s].pw
    BY <1>7
  <2>2. ss[s].user # u
    BY <1>4, <2>1
  <2>3. ss[s].user \in Rows(us) /\ us[ss[s].user].active /\ us[ss[s].user].pw = ss[s].pw
    BY <1>1, <2>1 DEF SessionsCurrent
  <2>4. vs[ss[s].user] = us[ss[s].user]
    BY <1>2, <2>2, <2>3
  <2> QED
    BY <1>2, <2>1, <2>3, <2>4
<1>9. Sound(e)
  BY <1>2, <1>6, <1>7, <1>8, TablesStay DEF Sound, SessionsOk
<1> QED
  BY <1>6, <1>7, <1>9 DEF vs, b, e

LEMMA ResetUserPasswordLeads ==
    ASSUME NEW d, Sound(d), NEW u \in Rows(d.users), NEW held
    PROVE  Leads(d, ResetUserPassword(d, u), held)
<1> DEFINE row == [d.users[u] EXCEPT !.pw = @ + 1]
           e == ResetUserPassword(d, u)
<1>1. UsersOk(d.users) /\ u \in UserIds /\ d.users[u] \in UserRow
  BY UserRows DEF Sound, UsersOk
<1>2. row \in UserRow /\ (row.admin = d.users[u].admin) /\ (row.active = d.users[u].active)
      /\ (row.unverified = d.users[u].unverified)
  BY <1>1 DEF UserRow
<1>3. d.users[u].unverified => ~d.users[u].active
  BY <1>1 DEF UsersOk
<1>4. e = revokeAllSessions([d EXCEPT !.users = [d.users EXCEPT ![u] = row]], u)
  BY DEF ResetUserPassword
<1> HIDE DEF row, e
<1>5. row.unverified => ~row.active
  BY <1>2, <1>3
<1>6. ~d.users[u].unverified => ~row.unverified
  BY <1>2
<1>7. IsAdministrator(row) <=> IsAdministrator(d.users[u])
  BY <1>2 DEF IsAdministrator
<1>8. Sound(e) /\ e.users = [d.users EXCEPT ![u] = row] /\ SessionsGo(d.sessions, e.sessions)
  BY <1>2, <1>4, <1>5, <1>6, OwnSessionsEnd
<1>9. UsersGo(d.users, [d.users EXCEPT ![u] = row], held)
  BY <1>1, <1>2, <1>5, <1>6, <1>7, SamePowers
<1> QED
  BY <1>8, <1>9 DEF Leads, e

LEMMA SetOwnPasswordLeads ==
    ASSUME NEW d, Sound(d), NEW u \in Rows(d.users), NEW keep, NEW held
    PROVE  Leads(d, SetOwnPassword(d, u, keep), held)
<1> DEFINE us == d.users
           ss == d.sessions
           row == [us[u] EXCEPT !.pw = @ + 1]
           vs == [us EXCEPT ![u] = row]
           b == [d EXCEPT !.users = vs]
           ended == SessionsOf(d, u) \ {keep}
           ts == Ended(ss, ended)
           kept == keep \in SessionsOf(d, u)
           ts2 == IF kept THEN [ts EXCEPT ![keep] = [ts[keep] EXCEPT !.pw = row.pw]] ELSE ts
           e == SetOwnPassword(d, u, keep)
<1>1. UsersOk(us) /\ SessionsOk(us, ss) /\ ss \in SessionTable /\ SessionsCurrent(us, ss)
  BY DEF Sound, SessionsOk
<1>2. u \in UserIds /\ us[u] \in UserRow /\ (us[u].unverified => ~us[u].active)
  BY <1>1, UserRows DEF UsersOk
<1>3. row \in UserRow /\ (row.admin = us[u].admin) /\ (row.active = us[u].active)
      /\ (row.unverified = us[u].unverified) /\ row.pw \in Nat
  BY <1>2 DEF UserRow
<1> HIDE DEF row
<1>4. row.unverified => ~row.active
  BY <1>2, <1>3
<1>5. ~us[u].unverified => ~row.unverified
  BY <1>3
<1>6. IsAdministrator(row) <=> IsAdministrator(us[u])
  BY <1>3 DEF IsAdministrator
<1>7. /\ UsersOk(vs) /\ Keeps(us, vs) /\ vs[u] = row
      /\ \A v \in UserIds \ {u} : vs[v] = us[v]
      /\ Rows(vs) = Rows(us) /\ Rows(us) \subseteq UserIds
  BY <1>1, <1>3, <1>4, <1>5, UserChange
<1>8. UsersGo(us, vs, held)
  BY <1>1, <1>3, <1>4, <1>5, <1>6, SamePowers
<1> HIDE DEF vs
<1>9. b.sessions = ss /\ b.users = vs /\ b.resets = d.resets /\ b.codes = d.codes
      /\ b.invites = d.invites /\ b.tripInvites = d.tripInvites
      /\ b.owner = d.owner /\ b.members = d.members /\ IsDb(b)
  BY DEF Sound, IsDb
<1>10. e = [b EXCEPT !.sessions = ts2]
  <2>1. [d EXCEPT !.users[u].pw = @ + 1] = b
    BY DEF vs, row
  <2> HIDE DEF b
  <2>2. EndSessions(b, ended) = [b EXCEPT !.sessions = ts]
    BY <1>9 DEF EndSessions, Ended
  <2> HIDE DEF ts, ended
  <2>3. [b EXCEPT !.sessions = ts].sessions = ts
    BY <1>9 DEF IsDb
  <2>4. b.users[u].pw = row.pw
    BY <1>7, <1>9
  <2>5. kept => [[b EXCEPT !.sessions = ts] EXCEPT !.sessions[keep].pw = row.pw]
                   = [b EXCEPT !.sessions = ts2]
    BY <1>9, <2>3 DEF IsDb
  <2> QED
    BY <2>1, <2>2, <2>4, <2>5 DEF SetOwnPassword, ended
<1> HIDE DEF b
<1>11. /\ e.sessions = ts2 /\ e.users = vs /\ e.resets = d.resets /\ e.codes = d.codes
       /\ e.invites = d.invites /\ e.tripInvites = d.tripInvites
       /\ e.owner = d.owner /\ e.members = d.members /\ IsDb(e)
  BY <1>9, <1>10 DEF IsDb
<1> HIDE DEF e
<1>12. SessionsOf(d, u) = {s \in Rows(ss) : ss[s].user = u}
  BY DEF SessionsOf
<1>13. /\ ts \in SessionTable /\ Rows(ts) = Rows(ss) /\ SessionsGo(ss, ts)
       /\ \A s \in Rows(ss) :
            /\ ts[s].user = ss[s].user /\ ts[s].pw = ss[s].pw /\ ts[s].late = ss[s].late
            /\ ts[s].revoked = IF s \in ended /\ ss[s].revoked = "no" THEN "person" ELSE ss[s].revoked
  <2>1. ended \subseteq Rows(ss)
    BY <1>12
  <2> QED
    BY <1>1, <2>1, EndedSessions
<1> HIDE DEF ts
<1>14. /\ ts2 \in SessionTable /\ Rows(ts2) = Rows(ts)
       /\ \A s \in Rows(ts) :
            /\ ts2[s].user = ts[s].user /\ ts2[s].late = ts[s].late /\ ts2[s].revoked = ts[s].revoked
            /\ ts2[s].token = ts[s].token /\ ts2[s].recent = ts[s].recent
            /\ ts2[s].expired = ts[s].expired
            /\ ts2[s].pw = IF kept /\ s = keep THEN row.pw ELSE ts[s].pw
       /\ \A s \in SessionIds : s \notin Rows(ts) => ts2[s] = ts[s]
  <2>1. CASE kept
    <3> DEFINE kr == [ts[keep] EXCEPT !.pw = row.pw]
    <3>1. keep \in Rows(ts) /\ keep \in SessionIds /\ ts[keep] \in SessionRow
      BY <1>12, <1>13, <2>1, SessionRows
    <3>2. kr \in SessionRow /\ kr.user = ts[keep].user /\ (kr.late = ts[keep].late)
          /\ kr.revoked = ts[keep].revoked /\ kr.token = ts[keep].token
          /\ (kr.recent = ts[keep].recent) /\ (kr.expired = ts[keep].expired) /\ kr.pw = row.pw
      BY <1>3, <3>1 DEF SessionRow
    <3> HIDE DEF kr
    <3>3. ts2 = [ts EXCEPT ![keep] = kr]
      BY <2>1 DEF kr
    <3>4. ts2 \in SessionTable /\ ts2[keep] = kr /\ \A s \in SessionIds \ {keep} : ts2[s] = ts[s]
      BY <1>13, <3>1, <3>2, <3>3 DEF SessionTable
    <3> HIDE DEF ts2
    <3>5. \A s : s \in Rows(ts2) <=> s \in Rows(ts)
      BY <1>13, <3>1, <3>2, <3>4, SessionRows
    <3>6. \A s \in Rows(ts) : s \in SessionIds
      BY <1>13, SessionRows
    <3>7. Rows(ts2) = Rows(ts)
      BY <3>5
    <3>8. \A s \in SessionIds : s \notin Rows(ts) => ts2[s] = ts[s]
      BY <3>1, <3>4
    <3>9. ASSUME NEW s \in Rows(ts)
          PROVE  /\ ts2[s].user = ts[s].user /\ ts2[s].late = ts[s].late /\ ts2[s].revoked = ts[s].revoked
                 /\ ts2[s].token = ts[s].token /\ ts2[s].recent = ts[s].recent
                 /\ ts2[s].expired = ts[s].expired
                 /\ ts2[s].pw = IF kept /\ s = keep THEN row.pw ELSE ts[s].pw
      <4>1. CASE s = keep
        BY <2>1, <3>2, <3>4, <4>1
      <4>2. CASE s # keep
        BY <3>4, <3>6, <4>2
      <4> QED
        BY <4>1, <4>2
    <3> QED
      BY <3>4, <3>7, <3>8, <3>9
  <2>2. CASE ~kept
    BY <1>13, <2>2
  <2> QED
    BY <2>1, <2>2
<1> HIDE DEF ts2
<1>15. SessionsCurrent(vs, ts2)
  <2> SUFFICES ASSUME NEW s \in Rows(ts2), ts2[s].revoked = "no", ~ts2[s].late
               PROVE  /\ ts2[s].user \in Rows(vs)
                      /\ vs[ts2[s].user].active /\ vs[ts2[s].user].pw = ts2[s].pw
    BY DEF SessionsCurrent
  <2>1. s \in Rows(ts) /\ s \in Rows(ss) /\ ts2[s].user = ss[s].user
        /\ ts[s].revoked = "no" /\ ~ts[s].late
    BY <1>13, <1>14
  <2>2. s \notin ended /\ ss[s].revoked = "no" /\ ~ss[s].late
    BY <1>13, <2>1
  <2>3. ss[s].user \in Rows(us) /\ us[ss[s].user].active /\ us[ss[s].user].pw = ss[s].pw
    BY <1>1, <2>1, <2>2 DEF SessionsCurrent
  <2>4. CASE ss[s].user = u
    <3>1. s \in SessionsOf(d, u)
      BY <1>12, <2>1, <2>4
    <3>2. s = keep /\ kept
      BY <2>2, <3>1
    <3>3. ts2[s].pw = row.pw
      BY <1>14, <2>1, <3>2
    <3>4. row.active
      BY <1>3, <2>3, <2>4
    <3> QED
      BY <1>7, <2>1, <2>3, <2>4, <3>3, <3>4
  <2>5. CASE ss[s].user # u
    <3>1. ~(kept /\ s = keep)
      BY <1>12, <2>5
    <3>2. ts2[s].pw = ss[s].pw
      BY <1>13, <1>14, <2>1, <3>1
    <3>3. vs[ss[s].user] = us[ss[s].user]
      BY <1>7, <2>3, <2>5
    <3> QED
      BY <1>7, <2>1, <2>3, <3>2, <3>3
  <2> QED
    BY <2>4, <2>5
<1>16. SessionsGo(ss, ts2)
  <2> SUFFICES ASSUME NEW s \in SessionIds PROVE SessionsGo(ss, ts2)!(s)
    BY DEF SessionsGo
  <2>1. SessionsGo(ss, ts)!(s)
    BY <1>13 DEF SessionsGo
  <2>2. CASE s \in Rows(ts)
    <3>1. ts2[s] # None
      BY <1>14, <2>2 DEF Rows
    <3> QED
      BY <1>13, <1>14, <2>1, <2>2, <3>1
  <2>3. CASE s \notin Rows(ts)
    BY <1>14, <2>1, <2>3
  <2> QED
    BY <2>2, <2>3
<1>17. SessionsOk(vs, ts2)
  BY <1>14, <1>15 DEF SessionsOk
<1> QED
  BY <1>7, <1>8, <1>11, <1>16, <1>17, Transaction DEF e
(* What every change of accounts leaves true of those that are known.      *)
UsersKnown(us, vs) ==
    \A u \in UserIds :
        /\ us[u] # None => vs[u] # None
        /\ us[u] = Gone => vs[u] = Gone
        /\ u \in Rows(us) /\ u \in Rows(vs) /\ ~us[u].unverified => ~vs[u].unverified

LEMMA GoIsKnown == \A us, vs, held : UsersGo(us, vs, held) => UsersKnown(us, vs)
BY DEF UsersGo, UsersKnown

(* An administrator is left where another one was counted.                 *)
LEMMA UpdateIsSound ==
    ASSUME NEW d, Sound(d), NEW u \in Rows(d.users),
           NEW change \in {"promote", "demote", "activate", "deactivate"},
           Chiefs(d.users) # {},
           change \in {"demote", "deactivate"} => \E v \in Chiefs(d.users) : v # u
    PROVE  LET e == Update(d, u, change) IN
           /\ Sound(e) /\ Chiefs(e.users) # {} /\ UsersKnown(d.users, e.users)
           /\ Keeps(d.users, e.users) /\ SessionsGo(d.sessions, e.sessions)
<1> DEFINE us == d.users
           row == Changed(us[u], change)
           vs == [us EXCEPT ![u] = row]
           b == [d EXCEPT !.users = vs]
           e == Update(d, u, change)
<1>1. UsersOk(us) /\ SessionsOk(us, d.sessions)
  BY DEF Sound
<1>2. u \in UserIds /\ us[u] \in UserRow /\ (us[u].unverified => ~us[u].active)
  BY <1>1, UserRows DEF UsersOk
<1>3. /\ row \in UserRow /\ row.pw = us[u].pw
      /\ row.unverified => ~row.active
      /\ ~us[u].unverified => ~row.unverified
      /\ change \in {"promote", "activate"} /\ IsAdministrator(us[u]) => IsAdministrator(row)
  <2>1. CASE change = "promote"
    <3>1. row = [us[u] EXCEPT !.admin = TRUE]
      BY <2>1 DEF Changed
    <3> QED
      BY <1>2, <2>1, <3>1 DEF UserRow, IsAdministrator
  <2>2. CASE change = "demote"
    <3>1. row = [us[u] EXCEPT !.admin = FALSE]
      BY <2>2 DEF Changed
    <3> QED
      BY <1>2, <2>2, <3>1 DEF UserRow, IsAdministrator
  <2>3. CASE change = "activate"
    <3>1. row = [us[u] EXCEPT !.active = TRUE, !.unverified = FALSE]
      BY <2>3 DEF Changed
    <3> QED
      BY <1>2, <2>3, <3>1 DEF UserRow, IsAdministrator
  <2>4. CASE change = "deactivate"
    <3>1. row = [us[u] EXCEPT !.active = FALSE]
      BY <2>4 DEF Changed
    <3> QED
      BY <1>2, <2>4, <3>1 DEF UserRow, IsAdministrator
  <2> QED
    BY <2>1, <2>2, <2>3, <2>4
<1> HIDE DEF row
<1>4. /\ UsersOk(vs) /\ Keeps(us, vs) /\ vs[u] = row
      /\ \A v \in UserIds \ {u} : vs[v] = us[v]
      /\ Rows(vs) = Rows(us) /\ Rows(us) \subseteq UserIds
      /\ \A v \in UserIds : (us[v] # None => vs[v] # None) /\ (us[v] = Gone => vs[v] = Gone)
  BY <1>1, <1>3, UserChange
<1> HIDE DEF vs
<1>5. e = IF row.active THEN b ELSE revokeAllSessions(b, u)
  <2>1. [d EXCEPT !.users[u] = Changed(@, change)] = b
    BY DEF vs, row
  <2>2. b.users = vs
    BY DEF Sound, IsDb
  <2> HIDE DEF b
  <2> QED
    BY <1>4, <2>1, <2>2 DEF Update
<1>6. Sound(e) /\ e.users = vs /\ SessionsGo(d.sessions, e.sessions)
  <2>1. CASE row.active
    <3>1. KeepsActive(us, vs)
      BY <1>3, <1>4, <2>1 DEF KeepsActive
    <3>2. SessionsOk(vs, d.sessions) /\ SessionsGo(d.sessions, d.sessions)
      BY <1>1, <3>1, SessionsStay, SessionsStayed DEF SessionsOk
    <3>3. /\ b.sessions = d.sessions /\ b.users = vs /\ b.resets = d.resets /\ b.codes = d.codes
          /\ b.invites = d.invites /\ b.tripInvites = d.tripInvites
          /\ b.owner = d.owner /\ b.members = d.members /\ IsDb(b)
      BY DEF Sound, IsDb
    <3>4. e = b
      BY <1>5, <2>1
    <3> HIDE DEF b
    <3>5. Sound(b)
      BY <1>4, <3>2, <3>3, TablesStay DEF Sound
    <3> QED
      BY <3>2, <3>3, <3>4, <3>5
  <2>2. CASE ~row.active
    <3>1. e = revokeAllSessions([d EXCEPT !.users = [d.users EXCEPT ![u] = row]], u)
      BY <1>5, <2>2 DEF vs
    <3> HIDE DEF e, b
    <3> QED
      BY <1>3, <3>1, OwnSessionsEnd DEF vs
  <2> QED
    BY <2>1, <2>2
<1> HIDE DEF e
<1>7. UsersKnown(us, vs)
  BY <1>4 DEF UsersKnown, Keeps
<1>8. Chiefs(vs) # {}
  <2>1. CASE change \in {"demote", "deactivate"}
    <3>1. PICK v \in Chiefs(us) : v # u
      BY <2>1
    <3>2. v \in Chiefs(vs)
      BY <1>4, <3>1 DEF Chiefs
    <3> QED
      BY <3>2
  <2>2. CASE change \in {"promote", "activate"}
    <3>1. PICK v \in Chiefs(us) : TRUE
      OBVIOUS
    <3>2. v \in Chiefs(vs)
      BY <1>3, <1>4, <2>2, <3>1 DEF Chiefs
    <3> QED
      BY <3>2
  <2> QED
    BY <2>1, <2>2
<1> QED
  BY <1>4, <1>6, <1>7, <1>8 DEF e

-----------------------------------------------------------------------------
(* Accounts that go take with them what is theirs.                         *)
LEMMA DropUsersIsSound ==
    ASSUME NEW d, Sound(d), NEW gone, gone \subseteq Rows(d.users)
    PROVE  LET e == DropUsers(d, gone) IN
           /\ Sound(e) /\ SessionsGo(d.sessions, e.sessions)
           /\ e.users = [u \in UserIds |-> IF u \in gone THEN Gone ELSE d.users[u]]
           /\ Rows(e.users) = Rows(d.users) \ gone
           /\ \A u \in Rows(d.users) \ gone : e.users[u] = d.users[u]
           /\ UsersKnown(d.users, e.users)
           /\ e.invites = WithoutCreators(d.invites, gone)
           /\ e.tripInvites = WithoutAcceptance(WithoutCreators(d.tripInvites, gone), gone)
<1> DEFINE us == d.users
           e == DropUsers(d, gone)
           vs == [u \in UserIds |-> IF u \in gone THEN Gone ELSE us[u]]
           ts == WithoutUsers(d.sessions, gone)
           rs == WithoutUsers(d.resets, gone)
           cs == [u \in UserIds |-> IF u \in gone THEN None ELSE d.codes[u]]
           is == WithoutCreators(d.invites, gone)
           js == WithoutCreators(d.tripInvites, gone)
           ks == WithoutAcceptance(js, gone)
           ms == {m \in d.members : m[2] \notin gone}
<1>1. /\ UsersOk(us) /\ us \in Users /\ SessionsOk(us, d.sessions) /\ ResetsOk(us, d.resets)
      /\ CodesOk(us, d.codes) /\ InvitesOk(us, d.invites) /\ TripInvitesOk(us, d.tripInvites)
  BY DEF Sound, UsersOk
<1>2. \A u \in Rows(us) : u \in UserIds /\ us[u] \in UserRow
  BY <1>1, UserRows
<1>3. /\ e.users = vs /\ e.sessions = ts /\ e.resets = rs /\ e.codes = cs /\ e.invites = is
      /\ e.tripInvites = ks /\ e.owner = d.owner /\ e.members = ms /\ IsDb(e)
  <2> HIDE DEF vs, ts, rs, cs, is, ks, ms
  <2>1. e = [d EXCEPT !.users = vs, !.sessions = ts, !.resets = rs, !.codes = cs, !.invites = is,
                      !.tripInvites = ks, !.members = ms]
    BY DEF DropUsers, vs, ts, rs, cs, is, ks, ms
  <2> HIDE DEF e
  <2> QED
    BY <2>1 DEF Sound, IsDb
<1> HIDE DEF e
<1>4. vs \in Users /\ \A u \in UserIds : vs[u] = IF u \in gone THEN Gone ELSE us[u]
  BY <1>1 DEF Users
<1> HIDE DEF vs
<1>5. Rows(vs) = Rows(us) \ gone
  <2>1. \A u : u \in Rows(vs) <=> u \in Rows(us) /\ u \notin gone
    BY <1>1, <1>4 DEF Rows, Users
  <2> QED
    BY <2>1
<1>6. \A u \in Rows(us) \ gone : vs[u] = us[u]
  BY <1>2, <1>4
<1>7. UsersOk(vs)
  BY <1>1, <1>4, <1>5, <1>6 DEF UsersOk
<1>8. UsersKnown(us, vs)
  BY <1>4, <1>5, <1>6, StoreAssumption DEF UsersKnown
<1>9. SessionsOk(vs, ts) /\ SessionsGo(d.sessions, ts)
  <2>1. d.sessions \in SessionTable
    BY <1>1 DEF SessionsOk
  <2>2. DOMAIN d.sessions = SessionIds
    BY <2>1 DEF SessionTable
  <2>3. /\ IsTable(SessionIds, ts)
        /\ \A s \in SessionIds :
             ts[s] = IF s \in Rows(d.sessions) /\ d.sessions[s].user \in gone THEN Gone ELSE d.sessions[s]
    BY <2>2 DEF WithoutUsers, IsTable
  <2> HIDE DEF ts
  <2>4. ASSUME NEW s \in SessionIds
        PROVE  ts[s] \in {None, Gone} \/ SessionRight(vs, ts[s])
    <3>1. d.sessions[s] \in {None, Gone} \/ SessionRight(us, d.sessions[s])
      BY <1>1, SessionsByRow
    <3>2. CASE SessionRight(us, d.sessions[s]) /\ d.sessions[s].user \notin gone
      BY <1>5, <1>6, <2>3, <3>2 DEF SessionRight
    <3>3. CASE SessionRight(us, d.sessions[s]) /\ d.sessions[s].user \in gone
      <4>1. s \in Rows(d.sessions)
        BY <2>1, <3>3, SessionRows DEF SessionRight
      <4> QED
        BY <2>3, <3>3, <4>1
    <3>4. CASE d.sessions[s] \in {None, Gone}
      BY <2>3, <3>4 DEF Rows
    <3> QED
      BY <3>1, <3>2, <3>3, <3>4
  <2>5. SessionsOk(vs, ts)
    BY <2>3, <2>4, SessionsByRow
  <2>6. ASSUME NEW s \in SessionIds PROVE SessionsGo(d.sessions, ts)!(s)
    <3>1. CASE ts[s] = Gone
      BY <3>1, StoreAssumption DEF Rows
    <3>2. CASE ts[s] = d.sessions[s]
      <4>1. s \in Rows(ts) => s \in Rows(d.sessions)
        BY <2>2, <3>2 DEF Rows
      <4> QED
        BY <3>2, <4>1
    <3> QED
      BY <2>3, <3>1, <3>2
  <2>7. SessionsGo(d.sessions, ts)
    BY <2>6 DEF SessionsGo
  <2> QED
    BY <2>5, <2>7
<1>10. ResetsOk(vs, rs)
  <2>1. d.resets \in ResetTable
    BY <1>1 DEF ResetsOk
  <2>2. DOMAIN d.resets = TokenIds
    BY <2>1 DEF ResetTable
  <2>3. /\ IsTable(TokenIds, rs)
        /\ \A i \in TokenIds :
             rs[i] = IF i \in Rows(d.resets) /\ d.resets[i].user \in gone THEN Gone ELSE d.resets[i]
    BY <2>2 DEF WithoutUsers, IsTable
  <2> HIDE DEF rs
  <2>4. ASSUME NEW i \in TokenIds
        PROVE  rs[i] \in {None, Gone} \/ ResetRight(vs, rs[i])
    <3>1. d.resets[i] \in {None, Gone} \/ ResetRight(us, d.resets[i])
      BY <1>1, ResetsByRow
    <3>2. CASE ResetRight(us, d.resets[i]) /\ d.resets[i].user \notin gone
      BY <1>5, <2>3, <3>2 DEF ResetRight
    <3>3. CASE ResetRight(us, d.resets[i]) /\ d.resets[i].user \in gone
      <4>1. i \in Rows(d.resets)
        BY <2>1, <3>3, ResetRows DEF ResetRight
      <4> QED
        BY <2>3, <3>3, <4>1
    <3>4. CASE d.resets[i] \in {None, Gone}
      BY <2>3, <3>4 DEF Rows
    <3> QED
      BY <3>1, <3>2, <3>3, <3>4
  <2> QED
    BY <2>3, <2>4, ResetsByRow
<1>11. CodesOk(vs, cs)
  <2>1. IsTable(UserIds, cs) /\ \A u \in UserIds : cs[u] = IF u \in gone THEN None ELSE d.codes[u]
    BY DEF IsTable
  <2> HIDE DEF cs
  <2>2. ASSUME NEW u \in UserIds
        PROVE  cs[u] = None \/ (u \in Rows(vs) /\ CodeRight(cs[u]))
    <3>1. d.codes[u] = None \/ (u \in Rows(us) /\ CodeRight(d.codes[u]))
      BY <1>1, CodesByRow
    <3> QED
      BY <1>5, <2>1, <3>1
  <2> QED
    BY <2>1, <2>2, CodesByRow
<1>12. InvitesOk(vs, is)
  <2>1. d.invites \in InviteTable
    BY <1>1 DEF InvitesOk
  <2>2. DOMAIN d.invites = TokenIds
    BY <2>1 DEF InviteTable
  <2>3. /\ IsTable(TokenIds, is)
        /\ \A i \in TokenIds :
             is[i] = IF i \in Rows(d.invites) /\ d.invites[i].by \in gone THEN Gone ELSE d.invites[i]
    BY <2>2 DEF WithoutCreators, IsTable
  <2> HIDE DEF is
  <2>4. ASSUME NEW i \in TokenIds
        PROVE  is[i] \in {None, Gone} \/ InviteRight(vs, is[i])
    <3>1. d.invites[i] \in {None, Gone} \/ InviteRight(us, d.invites[i])
      BY <1>1, InvitesByRow
    <3>2. CASE InviteRight(us, d.invites[i]) /\ d.invites[i].by \notin gone
      BY <1>5, <1>6, <2>3, <3>2 DEF InviteRight
    <3>3. CASE InviteRight(us, d.invites[i]) /\ d.invites[i].by \in gone
      <4>1. i \in Rows(d.invites)
        BY <2>1, <3>3, InviteRows DEF InviteRight
      <4> QED
        BY <2>3, <3>3, <4>1
    <3>4. CASE d.invites[i] \in {None, Gone}
      BY <2>3, <3>4 DEF Rows
    <3> QED
      BY <3>1, <3>2, <3>3, <3>4
  <2> QED
    BY <2>3, <2>4, InvitesByRow
<1>13. TripInvitesOk(vs, ks)
  <2>1. d.tripInvites \in TripInviteTable
    BY <1>1 DEF TripInvitesOk
  <2>2. DOMAIN d.tripInvites = TokenIds
    BY <2>1 DEF TripInviteTable
  <2>3. /\ IsTable(TokenIds, js) /\ DOMAIN js = TokenIds
        /\ \A i \in TokenIds :
             js[i] = IF i \in Rows(d.tripInvites) /\ d.tripInvites[i].by \in gone THEN Gone
                     ELSE d.tripInvites[i]
    BY <2>2 DEF WithoutCreators, IsTable
  <2> HIDE DEF js
  <2>4. ASSUME NEW i \in TokenIds
        PROVE  js[i] \in {None, Gone} \/ TripInviteRight(vs, js[i])
    <3>1. d.tripInvites[i] \in {None, Gone} \/ TripInviteRight(us, d.tripInvites[i])
      BY <1>1, TripInvitesByRow
    <3>2. CASE TripInviteRight(us, d.tripInvites[i]) /\ d.tripInvites[i].by \notin gone
      BY <1>5, <1>6, <2>3, <3>2 DEF TripInviteRight
    <3>3. CASE TripInviteRight(us, d.tripInvites[i]) /\ d.tripInvites[i].by \in gone
      <4>1. i \in Rows(d.tripInvites)
        BY <2>1, <3>3, TripInviteRows DEF TripInviteRight
      <4> QED
        BY <2>3, <3>3, <4>1
    <3>4. CASE d.tripInvites[i] \in {None, Gone}
      BY <2>3, <3>4 DEF Rows
    <3> QED
      BY <3>1, <3>2, <3>3, <3>4
  <2>5. /\ IsTable(TokenIds, ks)
        /\ \A i \in TokenIds :
             ks[i] = IF i \in Rows(js) /\ js[i].accepted \in gone
                     THEN [js[i] EXCEPT !.accepted = Gone] ELSE js[i]
    BY <2>3 DEF WithoutAcceptance, IsTable
  <2> HIDE DEF ks
  <2>6. ASSUME NEW i \in TokenIds
        PROVE  ks[i] \in {None, Gone} \/ TripInviteRight(vs, ks[i])
    <3>1. CASE i \in Rows(js) /\ js[i].accepted \in gone
      <4>1. TripInviteRight(vs, js[i])
        BY <2>4, <3>1 DEF Rows
      <4>2. js[i] \in TripInviteRow /\ ks[i] = [js[i] EXCEPT !.accepted = Gone]
        BY <2>5, <3>1, <4>1 DEF TripInviteRight
      <4>3. /\ ks[i] \in TripInviteRow /\ ks[i].by = js[i].by /\ ks[i].accepted = Gone
            /\ ks[i].uses = js[i].uses /\ (ks[i].revoked = js[i].revoked)
        BY <4>2 DEF TripInviteRow
      <4>4. js[i].accepted # None
        BY <1>2, <3>1, StoreAssumption
      <4> QED
        BY <4>1, <4>3, <4>4, StoreAssumption DEF TripInviteRight
    <3>2. CASE ~(i \in Rows(js) /\ js[i].accepted \in gone)
      BY <2>4, <2>5, <3>2
    <3> QED
      BY <3>1, <3>2
  <2> QED
    BY <2>5, <2>6, TripInvitesByRow
<1>14. Sound(e)
  BY <1>3, <1>7, <1>9, <1>10, <1>11, <1>12, <1>13 DEF Sound
<1> QED
  BY <1>3, <1>5, <1>6, <1>8, <1>9, <1>14 DEF vs, e, is, js, ks

(* Accounts that were never confirmed lead nowhere else.                   *)
LEMMA DropUnverifiedLeads ==
    ASSUME NEW d, Sound(d), NEW gone, gone \subseteq Rows(d.users),
           \A u \in gone : d.users[u].unverified, NEW held, held \cap gone = {}
    PROVE  Leads(d, DropUsers(d, gone), held)
<1> DEFINE us == d.users
           e == DropUsers(d, gone)
           vs == e.users
<1>1. /\ Sound(e) /\ SessionsGo(d.sessions, e.sessions)
      /\ Rows(vs) = Rows(us) \ gone
      /\ \A u \in Rows(us) \ gone : vs[u] = us[u]
      /\ UsersKnown(us, vs)
  <2>1. /\ Sound(DropUsers(d, gone)) /\ SessionsGo(d.sessions, DropUsers(d, gone).sessions)
        /\ Rows(DropUsers(d, gone).users) = Rows(d.users) \ gone
        /\ \A u \in Rows(d.users) \ gone : DropUsers(d, gone).users[u] = d.users[u]
        /\ UsersKnown(d.users, DropUsers(d, gone).users)
    BY ONLY Sound(d), gone \subseteq Rows(d.users), DropUsersIsSound
  <2> QED
    BY <2>1
<1>2. UsersOk(us)
  BY DEF Sound
<1> HIDE DEF e
<1>3. \A u \in Rows(us) : ~us[u].unverified => u \in Rows(vs) /\ ~vs[u].unverified
  BY <1>1
<1>4. Chiefs(us) \subseteq Chiefs(vs)
  <2> SUFFICES ASSUME NEW u \in Chiefs(us) PROVE u \in Chiefs(vs)
    OBVIOUS
  <2>1. u \in Rows(us) /\ us[u].active /\ ~us[u].unverified
    BY <1>2 DEF Chiefs, IsAdministrator, UsersOk
  <2>2. u \in Rows(vs) /\ vs[u] = us[u]
    BY <1>1, <2>1
  <2> QED
    BY <2>2 DEF Chiefs
<1>5. \A u \in held \cap Rows(us) : u \in Rows(vs) /\ (u \in Chiefs(vs) => u \in Chiefs(us))
  BY <1>1 DEF Chiefs
<1>6. UsersGo(us, vs, held)
  BY <1>1, <1>3, <1>4, <1>5 DEF UsersGo, UsersKnown
<1> QED
  BY <1>1, <1>6 DEF Leads, e
-----------------------------------------------------------------------------
(* Trips, and accounts that go with theirs.                                *)
LEMMA DeleteTripsLeads ==
    ASSUME NEW d, Sound(d), NEW gone, NEW held
    PROVE  Leads(d, DeleteTrips(d, gone), held)
<1> DEFINE e == DeleteTrips(d, gone)
           os == [t \in Trips |-> IF t \in gone THEN Gone ELSE d.owner[t]]
           ms == {m \in d.members : m[1] \notin gone}
           ts == [i \in TokenIds |-> IF i \in Rows(d.tripInvites) /\ d.tripInvites[i].trip \in gone
                                     THEN Gone ELSE d.tripInvites[i]]
<1>1. /\ e.users = d.users /\ e.sessions = d.sessions /\ e.resets = d.resets /\ e.codes = d.codes
      /\ e.invites = d.invites /\ e.tripInvites = ts /\ e.owner = os /\ e.members = ms /\ IsDb(e)
  <2> HIDE DEF os, ms, ts
  <2>1. e = [d EXCEPT !.owner = os, !.members = ms, !.tripInvites = ts]
    BY DEF DeleteTrips, os, ms, ts
  <2> HIDE DEF e
  <2> QED
    BY <2>1 DEF Sound, IsDb
<1> HIDE DEF e
<1>2. os \in [Trips -> UserIds \cup {Gone}] /\ ms \subseteq Trips \X UserIds
  BY DEF Sound
<1>3. TripInvitesOk(d.users, ts)
  <2>1. /\ IsTable(TokenIds, ts)
        /\ \A i \in TokenIds : ts[i] = Gone \/ ts[i] = d.tripInvites[i]
    BY DEF IsTable
  <2> HIDE DEF ts
  <2> QED
    BY <2>1, TripInvitesByRow DEF Sound
<1> HIDE DEF os, ms, ts
<1>4. Leads(d, e, held)
  BY <1>1, <1>2, <1>3, SamePeople DEF Sound
<1> QED
  BY <1>4 DEF e

LEMMA DeleteUserIsSound ==
    ASSUME NEW d, Sound(d), NEW u \in Rows(d.users)
    PROVE  LET e == DeleteUser(d, u) IN
           /\ Sound(e) /\ SessionsGo(d.sessions, e.sessions)
           /\ Rows(e.users) = Rows(d.users) \ {u}
           /\ \A v \in Rows(d.users) \ {u} : e.users[v] = d.users[v]
           /\ UsersKnown(d.users, e.users)
<1> DEFINE b == DeleteTrips(d, {t \in Trips : d.owner[t] = u})
           e == DropUsers(b, {u})
<1>1. Leads(d, b, {})
  BY DeleteTripsLeads
<1>2. b.users = d.users /\ b.sessions = d.sessions /\ Sound(b)
  BY <1>1 DEF Sound, IsDb, DeleteTrips, Leads
<1>3. DeleteUser(d, u) = e
  BY DEF DeleteUser
<1> HIDE DEF b
<1> DEFINE gone == {u}
<1>4. gone \subseteq Rows(b.users) /\ Sound(b)
  BY <1>2
<1>5. /\ Sound(DropUsers(b, {u})) /\ SessionsGo(b.sessions, DropUsers(b, {u}).sessions)
      /\ Rows(DropUsers(b, {u}).users) = Rows(b.users) \ {u}
      /\ \A v \in Rows(b.users) \ {u} : DropUsers(b, {u}).users[v] = b.users[v]
      /\ UsersKnown(b.users, DropUsers(b, {u}).users)
  <2> HIDE DEF gone
  <2>1. /\ Sound(DropUsers(b, gone)) /\ SessionsGo(b.sessions, DropUsers(b, gone).sessions)
        /\ Rows(DropUsers(b, gone).users) = Rows(b.users) \ gone
        /\ \A v \in Rows(b.users) \ gone : DropUsers(b, gone).users[v] = b.users[v]
        /\ UsersKnown(b.users, DropUsers(b, gone).users)
    BY ONLY <1>4, DropUsersIsSound
  <2> QED
    BY <2>1 DEF gone
<1> QED
  BY <1>2, <1>3, <1>5

LEMMA AnotherChiefStays ==
    ASSUME NEW us, NEW vs, NEW u, Rows(vs) = Rows(us) \ {u},
           \A v \in Rows(us) \ {u} : vs[v] = us[v],
           Chiefs(us) # {}, u \in Chiefs(us) => \E v \in Chiefs(us) : v # u
    PROVE  Chiefs(vs) # {}
<1>1. PICK v \in Chiefs(us) : v # u
  OBVIOUS
<1> QED
  BY <1>1 DEF Chiefs

-----------------------------------------------------------------------------
(* Confirmation of an address.                                             *)
LEMMA CodesRight ==
    ASSUME NEW d, Sound(d), NEW u \in UserIds, d.codes[u] # None
    PROVE  u \in Rows(d.users) /\ d.codes[u] \in CodeRow /\ CodeRight(d.codes[u])
BY CodesByRow DEF Sound, CodeRight

LEMMA StoreVerificationLeads ==
    ASSUME NEW d, Sound(d), NEW u \in Rows(d.users), NEW held
    PROVE  Leads(d, storeVerification(d, u), held)
<1> DEFINE row == [message |-> (IF d.codes[u] = None THEN 0 ELSE d.codes[u].message) + 1,
                   attempts |-> 0, expired |-> FALSE, recent |-> TRUE]
<1>1. u \in UserIds
  BY UserRows DEF Sound, UsersOk
<1>2. (IF d.codes[u] = None THEN 0 ELSE d.codes[u].message) + 1 \in Nat
  <2>1. CASE d.codes[u] = None
    BY <2>1
  <2>2. CASE d.codes[u] # None
    <3>1. d.codes[u].message \in Nat
      BY <1>1, <2>2, CodesRight DEF CodeRow
    <3> QED
      BY <2>2, <3>1
  <2> QED
    BY <2>1, <2>2
<1>3. CodeRight(row)
  BY <1>2, StoreAssumption DEF CodeRight, CodeRow
<1>4. storeVerification(d, u) = [d EXCEPT !.codes = [d.codes EXCEPT ![u] = row]]
  BY DEF storeVerification
<1> HIDE DEF row
<1>5. Leads(d, [d EXCEPT !.codes = [d.codes EXCEPT ![u] = row]], held)
  BY <1>1, <1>3, OneCode
<1> QED
  BY <1>4, <1>5

LEMMA RegisterNewLeads ==
    ASSUME NEW d, Sound(d), HasRoom(d.users), NEW email \in Addresses, NEW held
    PROVE  Leads(d, RegisterNew(d, email), held)
<1> DEFINE row == NewUser(email, FALSE, FALSE, TRUE)
           u == Fresh(d.users)
           b == CreateUser(d, row)
<1>1. row \in UserRow /\ (row.unverified => ~row.active)
  BY NewUserIsSound DEF NewUser
<1> HIDE DEF row
<1>2. Leads(d, b, held) /\ u \in UserIds /\ b.users = [d.users EXCEPT ![u] = row]
  BY <1>1, CreateUserLeads
<1> HIDE DEF b
<1>3. u \in Rows(b.users) /\ Sound(b)
  BY <1>1, <1>2, UserRows DEF Leads, Sound, UsersOk, Users
<1> HIDE DEF u
<1>4. Leads(b, storeVerification(b, u), held)
  BY <1>3, StoreVerificationLeads
<1>5. Leads(d, storeVerification(b, u), held)
  BY <1>2, <1>4, LeadsOn
<1> QED
  BY <1>5 DEF RegisterNew, row, u, b

LEMMA RegisterAgainLeads ==
    ASSUME NEW d, Sound(d), NEW u \in Rows(d.users), NEW held
    PROVE  Leads(d, RegisterAgain(d, u), held)
<1> DEFINE row == [d.users[u] EXCEPT !.pw = @ + 1]
           b == [d EXCEPT !.users = [d.users EXCEPT ![u] = row]]
<1>1. CASE ~d.users[u].unverified
  BY <1>1, LeadsNowhere DEF RegisterAgain
<1>2. CASE d.users[u].unverified
  <2>1. u \in UserIds /\ d.users[u] \in UserRow /\ ~d.users[u].active
    BY <1>2, UserRows DEF Sound, UsersOk
  <2>2. row \in UserRow /\ (row.admin = d.users[u].admin) /\ (row.active = d.users[u].active)
        /\ (row.unverified = d.users[u].unverified)
    BY <2>1 DEF UserRow
  <2>3. [d EXCEPT !.users[u].pw = @ + 1] = b
    OBVIOUS
  <2> HIDE DEF row
  <2>4. ~IsAdministrator(d.users[u]) /\ ~IsAdministrator(row)
    BY <2>1, <2>2 DEF IsAdministrator
  <2>5. Leads(d, b, held) /\ Rows(b.users) = Rows(d.users)
    BY <1>2, <2>1, <2>2, <2>4, OneUser
  <2> HIDE DEF b
  <2>6. Sound(b) /\ u \in Rows(b.users)
    BY <2>5 DEF Leads
  <2>7. Leads(b, storeVerification(b, u), held)
    BY <2>6, StoreVerificationLeads
  <2>8. Leads(d, storeVerification(b, u), held)
    BY <2>5, <2>7, LeadsOn
  <2>9. RegisterAgain(d, u) = b \/ RegisterAgain(d, u) = storeVerification(b, u)
    BY <1>2, <2>3 DEF RegisterAgain
  <2> QED
    BY <2>5, <2>8, <2>9
<1> QED
  BY <1>1, <1>2

LEMMA ResendVerificationLeads ==
    ASSUME NEW d, Sound(d), NEW u \in Rows(d.users), NEW held
    PROVE  Leads(d, ResendVerification(d, u), held)
BY LeadsNowhere, StoreVerificationLeads DEF ResendVerification

LEMMA ActivateLeads ==
    ASSUME NEW d, Sound(d), NEW u \in Rows(d.users), d.users[u].unverified, NEW held, u \notin held
    PROVE  Leads(d, activate(d, u), held)
<1> DEFINE row == [d.users[u] EXCEPT !.active = TRUE, !.unverified = FALSE]
           b == [d EXCEPT !.users = [d.users EXCEPT ![u] = row]]
           cs == [d.codes EXCEPT ![u] = None]
           e == [b EXCEPT !.codes = cs]
<1>1. u \in UserIds /\ d.users[u] \in UserRow /\ ~d.users[u].active
  BY UserRows DEF Sound, UsersOk
<1>2. row \in UserRow /\ row.active /\ ~row.unverified
  BY <1>1 DEF UserRow
<1>3. activate(d, u) = e
  <2>1. d.users \in Users /\ IsDb(d)
    BY DEF Sound, UsersOk
  <2> DEFINE half == [d.users[u] EXCEPT !.active = TRUE]
             vs == [d.users EXCEPT ![u] = half]
  <2>2. vs[u] = half /\ row = [half EXCEPT !.unverified = FALSE]
    BY <1>1, <2>1 DEF Users
  <2>3. [vs EXCEPT ![u] = row] = [d.users EXCEPT ![u] = row]
    BY <1>1, <2>1 DEF Users
  <2>4. activate(d, u) = [[[d EXCEPT !.users = vs] EXCEPT !.users = [vs EXCEPT ![u] = [vs[u] EXCEPT !.unverified = FALSE]]]
                            EXCEPT !.codes = cs]
    BY <2>1 DEF activate, IsDb
  <2> HIDE DEF half, vs, row, cs
  <2>5. [[d EXCEPT !.users = vs] EXCEPT !.users = [vs EXCEPT ![u] = row]]
          = [d EXCEPT !.users = [vs EXCEPT ![u] = row]]
    BY <2>1 DEF IsDb
  <2> QED
    BY <2>2, <2>3, <2>4, <2>5
<1> HIDE DEF row
<1>4. ~IsAdministrator(d.users[u])
  BY <1>1 DEF IsAdministrator
<1>5. Leads(d, b, held)
  BY <1>1, <1>2, <1>4, OneUser
<1>6. b.codes = d.codes
  BY DEF Sound, IsDb
<1> HIDE DEF b
<1>7. Sound(b) /\ CodesOk(b.users, d.codes)
  BY <1>5, <1>6 DEF Leads, Sound
<1>8. CodesOk(b.users, cs)
  BY <1>1, <1>7, CodesByRow DEF IsTable
<1> HIDE DEF cs
<1>9. /\ e.users = b.users /\ e.sessions = b.sessions /\ e.resets = b.resets /\ e.codes = cs
      /\ e.invites = b.invites /\ e.tripInvites = b.tripInvites
      /\ e.owner = b.owner /\ e.members = b.members /\ IsDb(e)
  BY <1>7 DEF Sound, IsDb
<1> HIDE DEF e
<1>10. Leads(b, e, held)
  BY <1>7, <1>8, <1>9, SamePeople DEF Sound
<1> QED
  BY <1>3, <1>5, <1>10, LeadsOn

LEMMA CountWrongCodeLeads ==
    ASSUME NEW d, Sound(d), NEW u \in UserIds, ConfirmByCodeOpen(d, u), NEW held
    PROVE  Leads(d, CountWrongCode(d, u), held)
<1> DEFINE row == [d.codes[u] EXCEPT !.attempts = @ + 1]
<1>1. u \in Rows(d.users) /\ d.codes[u] \in CodeRow /\ d.codes[u].attempts < MaxVerificationAttempts
  BY CodesRight DEF ConfirmByCodeOpen
<1>2. row \in CodeRow /\ row.attempts = d.codes[u].attempts + 1 /\ d.codes[u].attempts \in Nat
  BY <1>1 DEF CodeRow
<1>3. CountWrongCode(d, u) = [d EXCEPT !.codes = [d.codes EXCEPT ![u] = row]]
  BY DEF CountWrongCode
<1> HIDE DEF row
<1>4. CodeRight(row)
  BY <1>1, <1>2, StoreAssumption DEF CodeRight
<1>5. Leads(d, [d EXCEPT !.codes = [d.codes EXCEPT ![u] = row]], held)
  BY <1>1, <1>4, OneCode
<1> QED
  BY <1>3, <1>5

LEMMA PurgeUnverifiedLeads ==
    ASSUME NEW d, Sound(d), NEW held,
           held \cap {u \in Rows(d.users) : d.users[u].unverified} = {}
    PROVE  Leads(d, PurgeUnverified(d), held)
<1> DEFINE gone == {u \in Rows(d.users) : d.users[u].unverified /\ d.users[u].old /\ ~d.users[u].active}
<1>1. gone \subseteq Rows(d.users) /\ (\A u \in gone : d.users[u].unverified) /\ held \cap gone = {}
  OBVIOUS
<1>2. PurgeUnverified(d) = DropUsers(d, gone)
  BY DEF PurgeUnverified
<1> HIDE DEF gone
<1>3. Leads(d, DropUsers(d, gone), held)
  BY <1>1, DropUnverifiedLeads
<1> QED
  BY <1>2, <1>3
-----------------------------------------------------------------------------
(* Links that set a password.                                              *)
LEMMA ClosedResetsLead ==
    ASSUME NEW d, Sound(d), NEW u, NEW next, NEW held
    PROVE  LET e == closePasswordResets(d, u, next) IN
           Leads(d, e, held) /\ e.users = d.users
<1> DEFINE e == closePasswordResets(d, u, next)
           ts == [i \in TokenIds |->
                    IF i \in Rows(d.resets) /\ i < next /\ d.resets[i].user = u
                    THEN [d.resets[i] EXCEPT !.used = TRUE] ELSE d.resets[i]]
<1>1. /\ e.users = d.users /\ e.sessions = d.sessions /\ e.resets = ts /\ e.codes = d.codes
      /\ e.invites = d.invites /\ e.tripInvites = d.tripInvites /\ e.owner = d.owner
      /\ e.members = d.members /\ IsDb(e)
  <2> HIDE DEF ts
  <2>1. e = [d EXCEPT !.resets = ts]
    BY DEF closePasswordResets, ts
  <2> HIDE DEF e
  <2> QED
    BY <2>1 DEF Sound, IsDb
<1>2. /\ IsTable(TokenIds, ts)
      /\ \A i \in TokenIds : \/ ts[i] = d.resets[i]
                             \/ i \in Rows(d.resets) /\ ts[i] = [d.resets[i] EXCEPT !.used = TRUE]
  BY DEF IsTable
<1> HIDE DEF e, ts
<1>3. ASSUME NEW i \in TokenIds PROVE ts[i] \in {None, Gone} \/ ResetRight(d.users, ts[i])
  <2>1. d.resets[i] \in {None, Gone} \/ ResetRight(d.users, d.resets[i])
    BY ResetsByRow DEF Sound
  <2>2. CASE i \in Rows(d.resets) /\ ts[i] = [d.resets[i] EXCEPT !.used = TRUE]
    <3>1. ResetRight(d.users, d.resets[i])
      BY <2>1, <2>2 DEF Rows
    <3> QED
      BY <2>2, <3>1 DEF ResetRight, ResetRow
  <2> QED
    BY <1>2, <2>1, <2>2
<1>4. ResetsOk(d.users, ts)
  BY <1>2, <1>3, ResetsByRow
<1>5. Leads(d, e, held)
  BY <1>1, <1>4, SamePeople DEF Sound
<1> QED
  BY <1>1, <1>5 DEF e

LEMMA CreatePasswordResetLeads ==
    ASSUME NEW d, Sound(d), HasRoom(d.resets), NEW u \in Rows(d.users), NEW next, NEW held
    PROVE  Leads(d, CreatePasswordReset(d, u, next), held)
<1> DEFINE b == closePasswordResets(d, u, next)
           i == Fresh(d.resets)
           row == [user |-> u, used |-> FALSE, expired |-> FALSE, uses |-> 0]
<1>1. i \in TokenIds
  <2>1. DOMAIN d.resets = TokenIds
    BY DEF Sound, ResetsOk, ResetTable
  <2> QED
    BY <2>1, FreshIsFree, StoreAssumption
<1>2. Leads(d, b, held) /\ b.users = d.users
  BY ClosedResetsLead
<1>3. CreatePasswordReset(d, u, next) = [b EXCEPT !.resets = [b.resets EXCEPT ![i] = row]]
  BY DEF CreatePasswordReset
<1> HIDE DEF b, i
<1>4. u \in UserIds
  BY UserRows DEF Sound, UsersOk
<1>5. ResetRight(b.users, row)
  BY <1>2, <1>4 DEF ResetRight, ResetRow
<1> HIDE DEF row
<1>6. Leads(b, [b EXCEPT !.resets = [b.resets EXCEPT ![i] = row]], held)
  BY <1>1, <1>2, <1>5, OneReset DEF Leads
<1> QED
  BY <1>2, <1>3, <1>6, LeadsOn

LEMMA ResetRowRight ==
    ASSUME NEW d, Sound(d), NEW i \in Rows(d.resets)
    PROVE  i \in TokenIds /\ d.resets[i] \in ResetRow /\ ResetRight(d.users, d.resets[i])
<1>1. d.resets \in ResetTable
  BY DEF Sound, ResetsOk
<1>2. i \in TokenIds /\ d.resets[i] \in ResetRow
  BY <1>1, ResetRows
<1> QED
  BY <1>2, ResetsByRow, StoreAssumption DEF Sound

LEMMA ResetPasswordLeads ==
    ASSUME NEW d, Sound(d), NEW i, ResetAllowed(d, i), NEW held
    PROVE  Leads(d, ResetPassword(d, i), held)
<1> DEFINE old == d.resets[i]
           row == [old EXCEPT !.used = TRUE, !.uses = @ + 1]
           b == [d EXCEPT !.resets = [d.resets EXCEPT ![i] = row]]
<1>1. i \in TokenIds /\ old \in ResetRow /\ ResetRight(d.users, old) /\ ~old.used
  BY ResetRowRight DEF ResetAllowed, PasswordResetValid
<1>2. row \in ResetRow /\ row.user = old.user /\ row.used /\ row.uses = 1
  <2>1. old.uses = 0
    BY <1>1 DEF ResetRight
  <2>2. row.uses = old.uses + 1 /\ row.user = old.user
    BY <1>1 DEF ResetRow
  <2>3. row.used = TRUE
    BY <1>1 DEF ResetRow
  <2>4. row \in ResetRow
    <3>1. old.uses + 1 \in Nat
      BY <2>1
    <3> QED
      BY <1>1, <3>1, Zenon DEF ResetRow
  <2> HIDE DEF row
  <2> QED
    BY <2>1, <2>2, <2>3, <2>4
<1>3. ResetPassword(d, i) = ResetUserPassword(b, old.user)
  <2>1. d.resets \in ResetTable /\ IsDb(d)
    BY DEF Sound, ResetsOk
  <2>2. [d EXCEPT !.resets[i].used = TRUE, !.resets[i].uses = @ + 1] = b
    <3> DEFINE half == [old EXCEPT !.used = TRUE]
               vs == [d.resets EXCEPT ![i] = half]
    <3>1. vs[i] = half /\ row = [half EXCEPT !.uses = @ + 1]
      BY <1>1, <2>1 DEF ResetTable, ResetRow
    <3>2. [vs EXCEPT ![i] = row] = [d.resets EXCEPT ![i] = row]
      BY <1>1, <2>1 DEF ResetTable
    <3>3. [d EXCEPT !.resets[i].used = TRUE, !.resets[i].uses = @ + 1]
            = [[d EXCEPT !.resets = vs] EXCEPT !.resets = [vs EXCEPT ![i] = [vs[i] EXCEPT !.uses = @ + 1]]]
      BY <2>1 DEF IsDb
    <3> HIDE DEF half, vs, row
    <3>4. [[d EXCEPT !.resets = vs] EXCEPT !.resets = [vs EXCEPT ![i] = row]]
            = [d EXCEPT !.resets = [vs EXCEPT ![i] = row]]
      BY <2>1 DEF IsDb
    <3> QED
      BY <3>1, <3>2, <3>3, <3>4
  <2> HIDE DEF b
  <2> QED
    BY <2>2 DEF ResetPassword
<1> HIDE DEF row
<1>4. ResetRight(d.users, row)
  BY <1>1, <1>2 DEF ResetRight
<1>5. Leads(d, b, held)
  BY <1>1, <1>4, OneReset
<1>6. b.users = d.users
  BY DEF Sound, IsDb
<1> HIDE DEF b
<1>7. Leads(b, ResetUserPassword(b, old.user), held)
  BY <1>1, <1>5, <1>6, ResetUserPasswordLeads DEF Leads, ResetRight
<1> QED
  BY <1>3, <1>5, <1>7, LeadsOn

-----------------------------------------------------------------------------
(* Invitations to the instance.                                            *)
LEMMA InviteRowRight ==
    ASSUME NEW d, Sound(d), NEW i \in Rows(d.invites)
    PROVE  i \in TokenIds /\ d.invites[i] \in InviteRow /\ InviteRight(d.users, d.invites[i])
<1>1. d.invites \in InviteTable
  BY DEF Sound, InvitesOk
<1>2. i \in TokenIds /\ d.invites[i] \in InviteRow
  BY <1>1, InviteRows
<1> QED
  BY <1>2, InvitesByRow, StoreAssumption DEF Sound

LEMMA ClosedInvitesLead ==
    ASSUME NEW d, Sound(d), NEW email, NEW held
    PROVE  LET e == closeExpired(d, email) IN
           Leads(d, e, held) /\ e.users = d.users
<1> DEFINE e == closeExpired(d, email)
           closes(row) == row.email = email /\ row.expired /\ ~row.accepted
           ts == [i \in TokenIds |->
                    IF i \in Rows(d.invites) /\ closes(d.invites[i])
                    THEN [d.invites[i] EXCEPT !.revoked = TRUE] ELSE d.invites[i]]
<1>1. /\ e.users = d.users /\ e.sessions = d.sessions /\ e.resets = d.resets /\ e.codes = d.codes
      /\ e.invites = ts /\ e.tripInvites = d.tripInvites /\ e.owner = d.owner
      /\ e.members = d.members /\ IsDb(e)
  <2> HIDE DEF ts
  <2>1. e = [d EXCEPT !.invites = ts]
    BY DEF closeExpired, ts, closes
  <2> HIDE DEF e
  <2> QED
    BY <2>1 DEF Sound, IsDb
<1>2. /\ IsTable(TokenIds, ts)
      /\ \A i \in TokenIds : \/ ts[i] = d.invites[i]
                             \/ /\ i \in Rows(d.invites) /\ ~d.invites[i].accepted
                                /\ ts[i] = [d.invites[i] EXCEPT !.revoked = TRUE]
  BY DEF IsTable
<1> HIDE DEF e, ts
<1>3. ASSUME NEW i \in TokenIds PROVE ts[i] \in {None, Gone} \/ InviteRight(d.users, ts[i])
  <2>1. d.invites[i] \in {None, Gone} \/ InviteRight(d.users, d.invites[i])
    BY InvitesByRow DEF Sound
  <2>2. CASE /\ i \in Rows(d.invites) /\ ~d.invites[i].accepted
             /\ ts[i] = [d.invites[i] EXCEPT !.revoked = TRUE]
    <3>1. InviteRight(d.users, d.invites[i])
      BY <2>1, <2>2 DEF Rows
    <3>2. ts[i] \in InviteRow /\ ts[i].by = d.invites[i].by /\ ~ts[i].accepted
          /\ ts[i].uses = d.invites[i].uses
      BY <2>2, <3>1 DEF InviteRight, InviteRow
    <3> QED
      BY <2>2, <3>1, <3>2 DEF InviteRight
  <2> QED
    BY <1>2, <2>1, <2>2
<1>4. InvitesOk(d.users, ts)
  BY <1>2, <1>3, InvitesByRow
<1>5. Leads(d, e, held)
  BY <1>1, <1>4, SamePeople DEF Sound
<1> QED
  BY <1>1, <1>5 DEF e

LEMMA CreateUserInvitationLeads ==
    ASSUME NEW d, Sound(d), HasRoom(d.invites), NEW email \in Addresses, NEW admin \in BOOLEAN,
           NEW by \in Rows(d.users), ~d.users[by].unverified, NEW held
    PROVE  Leads(d, CreateUserInvitation(d, email, admin, by), held)
<1> DEFINE b == closeExpired(d, email)
           i == Fresh(d.invites)
           row == [email |-> email, admin |-> admin, expired |-> FALSE, by |-> by,
                   accepted |-> FALSE, revoked |-> FALSE, uses |-> 0]
<1>1. i \in TokenIds
  <2>1. DOMAIN d.invites = TokenIds
    BY DEF Sound, InvitesOk, InviteTable
  <2> QED
    BY <2>1, FreshIsFree, StoreAssumption
<1>2. Leads(d, b, held) /\ b.users = d.users
  BY ClosedInvitesLead
<1>3. CreateUserInvitation(d, email, admin, by) = [b EXCEPT !.invites = [b.invites EXCEPT ![i] = row]]
  BY DEF CreateUserInvitation
<1> HIDE DEF b, i
<1>4. by \in UserIds
  BY UserRows DEF Sound, UsersOk
<1>5. InviteRight(b.users, row)
  BY <1>2, <1>4 DEF InviteRight, InviteRow
<1> HIDE DEF row
<1>6. Leads(b, [b EXCEPT !.invites = [b.invites EXCEPT ![i] = row]], held)
  BY <1>1, <1>2, <1>5, OneInvite DEF Leads
<1> QED
  BY <1>2, <1>3, <1>6, LeadsOn

LEMMA RevokeUserInvitationLeads ==
    ASSUME NEW d, Sound(d), NEW i, NEW held
    PROVE  Leads(d, RevokeUserInvitation(d, i), held)
<1>1. CASE i \in Rows(d.invites) /\ Redeemable(d.invites[i])
  <2> DEFINE row == [d.invites[i] EXCEPT !.revoked = TRUE]
  <2>1. i \in TokenIds /\ InviteRight(d.users, d.invites[i]) /\ ~d.invites[i].accepted
    BY <1>1, InviteRowRight DEF Redeemable
  <2>2. row \in InviteRow /\ row.by = d.invites[i].by /\ ~row.accepted /\ row.uses = d.invites[i].uses
    BY <2>1 DEF InviteRight, InviteRow
  <2>3. RevokeUserInvitation(d, i) = [d EXCEPT !.invites = [d.invites EXCEPT ![i] = row]]
    BY <1>1 DEF RevokeUserInvitation
  <2> HIDE DEF row
  <2>4. InviteRight(d.users, row)
    BY <2>1, <2>2 DEF InviteRight
  <2>5. Leads(d, [d EXCEPT !.invites = [d.invites EXCEPT ![i] = row]], held)
    BY <2>1, <2>4, OneInvite
  <2> QED
    BY <2>3, <2>5
<1>2. CASE ~(i \in Rows(d.invites) /\ Redeemable(d.invites[i]))
  BY <1>2, LeadsNowhere DEF RevokeUserInvitation
<1> QED
  BY <1>1, <1>2

(* Whoever joins by an invitation takes the place of accounts that wait    *)
(* unconfirmed for the same address; the invitation itself stays.          *)
LEMMA DropUnverifiedKeeps ==
    ASSUME NEW d, Sound(d), HasRoom(d.users), NEW email, NEW held,
           held \cap Unverified(d, email) = {}
    PROVE  LET c == dropUnverified(d, email) IN
           /\ Leads(d, c, held) /\ HasRoom(c.users)
           /\ \A i \in Rows(d.invites) : c.invites[i] = d.invites[i]
           /\ \A i \in Rows(d.tripInvites) :
                 d.tripInvites[i].accepted = None => c.tripInvites[i] = d.tripInvites[i]
<1> DEFINE gone == Unverified(d, email)
           c == DropUsers(d, gone)
           js == WithoutCreators(d.tripInvites, gone)
<1>1. gone \subseteq Rows(d.users) /\ (\A u \in gone : d.users[u].unverified) /\ held \cap gone = {}
  BY DEF Unverified, Holders
<1>2. dropUnverified(d, email) = c
  BY DEF dropUnverified
<1> HIDE DEF gone
<1>3. Leads(d, c, held)
  BY <1>1, DropUnverifiedLeads
<1>4. /\ c.users = [u \in UserIds |-> IF u \in gone THEN Gone ELSE d.users[u]]
      /\ c.invites = WithoutCreators(d.invites, gone)
      /\ c.tripInvites = WithoutAcceptance(js, gone)
  <2>1. /\ DropUsers(d, gone).users = [u \in UserIds |-> IF u \in gone THEN Gone ELSE d.users[u]]
        /\ DropUsers(d, gone).invites = WithoutCreators(d.invites, gone)
        /\ DropUsers(d, gone).tripInvites = WithoutAcceptance(WithoutCreators(d.tripInvites, gone), gone)
    BY ONLY Sound(d), <1>1, DropUsersIsSound
  <2> QED
    BY <2>1
<1> HIDE DEF c
<1>5. HasRoom(c.users)
  <2>1. PICK u \in UserIds : d.users[u] = None
    BY DEF HasRoom, Sound, UsersOk, Users
  <2>2. u \notin gone
    BY <1>1, <2>1 DEF Rows
  <2>3. u \in DOMAIN c.users /\ c.users[u] = None
    BY <1>4, <2>1, <2>2
  <2> QED
    BY <2>3 DEF HasRoom
<1>6. ASSUME NEW i \in Rows(d.invites) PROVE c.invites[i] = d.invites[i]
  <2>1. InviteRight(d.users, d.invites[i])
    BY InviteRowRight
  <2>2. d.invites[i].by \notin gone
    BY <1>1, <2>1 DEF InviteRight
  <2>3. i \in DOMAIN d.invites
    BY DEF Rows
  <2> QED
    BY <1>4, <2>2, <2>3 DEF WithoutCreators
<1>7. ASSUME NEW i \in Rows(d.tripInvites), d.tripInvites[i].accepted = None
      PROVE  c.tripInvites[i] = d.tripInvites[i]
  <2>1. i \in TokenIds /\ TripInviteRight(d.users, d.tripInvites[i])
    <3>1. d.tripInvites \in TripInviteTable
      BY DEF Sound, TripInvitesOk
    <3>2. i \in TokenIds /\ d.tripInvites[i] \in TripInviteRow
      BY <3>1, TripInviteRows
    <3> QED
      BY <3>2, TripInvitesByRow, StoreAssumption DEF Sound
  <2>2. d.tripInvites[i].by \notin gone
    BY <1>1, <2>1 DEF TripInviteRight
  <2>3. i \in DOMAIN d.tripInvites
    BY DEF Rows
  <2>4. js[i] = d.tripInvites[i] /\ i \in DOMAIN js
    BY <2>2, <2>3 DEF WithoutCreators
  <2> HIDE DEF js
  <2>5. None \notin gone
    BY <1>1, UserRows, StoreAssumption DEF Sound, UsersOk
  <2> QED
    BY <1>4, <1>7, <2>4, <2>5 DEF WithoutAcceptance
<1> QED
  BY <1>2, <1>3, <1>5, <1>6, <1>7
LEMMA AcceptUserLeads ==
    ASSUME NEW d, Sound(d), HasRoom(d.users), NEW i, AcceptUserAllowed(d, i), NEW held,
           held \cap Unverified(d, d.invites[i].email) = {}
    PROVE  Leads(d, AcceptUserInvitation(d, i), held)
<1> DEFINE old == d.invites[i]
           email == old.email
           c == dropUnverified(d, email)
           new == NewUser(email, old.admin, TRUE, FALSE)
           b == CreateUser(c, new)
           row == [old EXCEPT !.accepted = TRUE, !.uses = @ + 1]
           e == [b EXCEPT !.invites = [b.invites EXCEPT ![i] = row]]
<1>1. i \in Rows(d.invites) /\ i \in TokenIds /\ old \in InviteRow /\ InviteRight(d.users, old)
      /\ ~old.accepted /\ ~old.revoked
  BY InviteRowRight DEF AcceptUserAllowed, Redeemable
<1>2. Leads(d, c, held) /\ HasRoom(c.users) /\ c.invites[i] = old
  BY <1>1, DropUnverifiedKeeps
<1>3. new \in UserRow /\ (new.unverified => ~new.active)
  BY <1>1, NewUserIsSound DEF InviteRow, NewUser
<1>4. /\ row \in InviteRow /\ row.by = old.by /\ row.accepted /\ (row.revoked = old.revoked)
      /\ row.uses = 1
  <2>1. old.uses = 0
    BY <1>1 DEF InviteRight
  <2>2. old.uses + 1 \in Nat
    BY <2>1
  <2>3. row \in InviteRow
    BY <1>1, <2>2, Zenon DEF InviteRow
  <2>4. row.uses = old.uses + 1 /\ row.by = old.by
    BY <1>1 DEF InviteRow
  <2>5. row.accepted = TRUE
    BY <1>1 DEF InviteRow
  <2>6. row.revoked = old.revoked
    BY <1>1 DEF InviteRow
  <2> HIDE DEF row
  <2> QED
    BY <2>1, <2>3, <2>4, <2>5, <2>6
<1> HIDE DEF c, new, row, b
<1>5. Leads(c, b, held)
  BY <1>2, <1>3, CreateUserLeads DEF Leads, b
<1>6. Leads(d, b, held)
  BY <1>2, <1>5, LeadsOn
<1>7. b.invites = c.invites
  BY <1>2 DEF b, CreateUser, Leads, Sound, IsDb
<1>8. AcceptUserInvitation(d, i) = e
  <2>1. b.invites \in InviteTable /\ IsDb(b) /\ b.invites[i] = old
    BY <1>2, <1>5, <1>7 DEF Leads, Sound, InvitesOk
  <2> DEFINE half == [old EXCEPT !.accepted = TRUE]
             vs == [b.invites EXCEPT ![i] = half]
  <2>2. vs[i] = half /\ row = [half EXCEPT !.uses = old.uses + 1]
    BY <1>1, <2>1 DEF InviteTable, InviteRow, row
  <2>3. [vs EXCEPT ![i] = row] = [b.invites EXCEPT ![i] = row]
    BY <1>1, <2>1 DEF InviteTable
  <2>4. AcceptUserInvitation(d, i)
          = [[b EXCEPT !.invites = vs] EXCEPT !.invites = [vs EXCEPT ![i] = [vs[i] EXCEPT !.uses = old.uses + 1]]]
    <3>1. AcceptUserInvitation(d, i) = [b EXCEPT !.invites[i].accepted = TRUE, !.invites[i].uses = @ + 1]
      BY DEF AcceptUserInvitation, b, c, new
    <3> HIDE DEF b
    <3> QED
      BY <2>1, <3>1 DEF IsDb
  <2> HIDE DEF half, vs
  <2>5. [[b EXCEPT !.invites = vs] EXCEPT !.invites = [vs EXCEPT ![i] = row]]
          = [b EXCEPT !.invites = [vs EXCEPT ![i] = row]]
    BY <2>1 DEF IsDb
  <2> QED
    BY <2>2, <2>3, <2>4, <2>5
<1>9. InviteRight(b.users, row)
  <2>1. InviteRight(b.users, old)
    <3>1. b.invites[i] = old /\ InvitesOk(b.users, b.invites)
      BY <1>2, <1>5, <1>7 DEF Leads, Sound
    <3>2. old \notin {None, Gone}
      BY <1>1, StoreAssumption
    <3> QED
      BY <1>1, <3>1, <3>2, InvitesByRow
  <2> QED
    BY <1>1, <1>4, <2>1 DEF InviteRight
<1>10. Leads(b, e, held)
  BY <1>1, <1>6, <1>9, OneInvite DEF Leads
<1> QED
  BY <1>6, <1>8, <1>10, LeadsOn

-----------------------------------------------------------------------------
(* Invitations to a trip, and its members.                                 *)
LEMMA TripInviteRowRight ==
    ASSUME NEW d, Sound(d), NEW i \in Rows(d.tripInvites)
    PROVE  i \in TokenIds /\ d.tripInvites[i] \in TripInviteRow
           /\ TripInviteRight(d.users, d.tripInvites[i])
<1>1. d.tripInvites \in TripInviteTable
  BY DEF Sound, TripInvitesOk
<1>2. i \in TokenIds /\ d.tripInvites[i] \in TripInviteRow
  BY <1>1, TripInviteRows
<1> QED
  BY <1>2, TripInvitesByRow, StoreAssumption DEF Sound

LEMMA ClosedTripInvitesLead ==
    ASSUME NEW d, Sound(d), NEW t, NEW email, NEW held
    PROVE  LET e == closeExpiredTrip(d, t, email) IN
           Leads(d, e, held) /\ e.users = d.users
<1> DEFINE e == closeExpiredTrip(d, t, email)
           closes(row) == row.trip = t /\ row.email = email /\ row.expired /\ OpenTripInvite(row)
           ts == [i \in TokenIds |->
                    IF i \in Rows(d.tripInvites) /\ closes(d.tripInvites[i])
                    THEN [d.tripInvites[i] EXCEPT !.revoked = TRUE] ELSE d.tripInvites[i]]
<1>1. /\ e.users = d.users /\ e.sessions = d.sessions /\ e.resets = d.resets /\ e.codes = d.codes
      /\ e.invites = d.invites /\ e.tripInvites = ts /\ e.owner = d.owner
      /\ e.members = d.members /\ IsDb(e)
  <2> HIDE DEF ts
  <2>1. e = [d EXCEPT !.tripInvites = ts]
    BY DEF closeExpiredTrip, ts, closes
  <2> HIDE DEF e
  <2> QED
    BY <2>1 DEF Sound, IsDb
<1>2. /\ IsTable(TokenIds, ts)
      /\ \A i \in TokenIds : \/ ts[i] = d.tripInvites[i]
                             \/ /\ i \in Rows(d.tripInvites) /\ d.tripInvites[i].accepted = None
                                /\ ts[i] = [d.tripInvites[i] EXCEPT !.revoked = TRUE]
  BY DEF IsTable, OpenTripInvite
<1> HIDE DEF e, ts
<1>3. ASSUME NEW i \in TokenIds PROVE ts[i] \in {None, Gone} \/ TripInviteRight(d.users, ts[i])
  <2>1. d.tripInvites[i] \in {None, Gone} \/ TripInviteRight(d.users, d.tripInvites[i])
    BY TripInvitesByRow DEF Sound
  <2>2. CASE /\ i \in Rows(d.tripInvites) /\ d.tripInvites[i].accepted = None
             /\ ts[i] = [d.tripInvites[i] EXCEPT !.revoked = TRUE]
    <3>1. TripInviteRight(d.users, d.tripInvites[i])
      BY <2>1, <2>2 DEF Rows
    <3>2. ts[i] \in TripInviteRow /\ ts[i].by = d.tripInvites[i].by /\ ts[i].accepted = None
          /\ ts[i].uses = d.tripInvites[i].uses
      BY <2>2, <3>1 DEF TripInviteRight, TripInviteRow
    <3> QED
      BY <2>2, <3>1, <3>2 DEF TripInviteRight
  <2> QED
    BY <1>2, <2>1, <2>2
<1>4. TripInvitesOk(d.users, ts)
  BY <1>2, <1>3, TripInvitesByRow
<1>5. Leads(d, e, held)
  BY <1>1, <1>4, SamePeople DEF Sound
<1> QED
  BY <1>1, <1>5 DEF e

LEMMA CreateTripInvitationLeads ==
    ASSUME NEW d, Sound(d), HasRoom(d.tripInvites), NEW t \in Trips, NEW email \in Addresses,
           NEW by \in Rows(d.users), ~d.users[by].unverified, NEW held
    PROVE  Leads(d, CreateTripInvitation(d, t, email, by), held)
<1> DEFINE b == closeExpiredTrip(d, t, email)
           i == Fresh(d.tripInvites)
           row == [trip |-> t, email |-> email, expired |-> FALSE, by |-> by,
                   accepted |-> None, revoked |-> FALSE, uses |-> 0]
<1>1. i \in TokenIds
  <2>1. DOMAIN d.tripInvites = TokenIds
    BY DEF Sound, TripInvitesOk, TripInviteTable
  <2> QED
    BY <2>1, FreshIsFree, StoreAssumption
<1>2. Leads(d, b, held) /\ b.users = d.users
  BY ClosedTripInvitesLead
<1>3. CreateTripInvitation(d, t, email, by) = [b EXCEPT !.tripInvites = [b.tripInvites EXCEPT ![i] = row]]
  BY DEF CreateTripInvitation
<1> HIDE DEF b, i
<1>4. by \in UserIds
  BY UserRows DEF Sound, UsersOk
<1>5. TripInviteRight(b.users, row)
  BY <1>2, <1>4 DEF TripInviteRight, TripInviteRow
<1> HIDE DEF row
<1>6. Leads(b, [b EXCEPT !.tripInvites = [b.tripInvites EXCEPT ![i] = row]], held)
  BY <1>1, <1>2, <1>5, OneTripInvite DEF Leads
<1> QED
  BY <1>2, <1>3, <1>6, LeadsOn

LEMMA RevokeTripInvitationLeads ==
    ASSUME NEW d, Sound(d), NEW t, NEW i, NEW held
    PROVE  Leads(d, RevokeTripInvitation(d, t, i), held)
<1> DEFINE open == i \in Rows(d.tripInvites) /\ d.tripInvites[i].trip = t
                   /\ TripInviteRedeemable(d.tripInvites[i])
<1>1. CASE open
  <2> DEFINE row == [d.tripInvites[i] EXCEPT !.revoked = TRUE]
  <2>1. i \in TokenIds /\ TripInviteRight(d.users, d.tripInvites[i]) /\ d.tripInvites[i].accepted = None
    BY <1>1, TripInviteRowRight DEF TripInviteRedeemable, OpenTripInvite
  <2>2. row \in TripInviteRow /\ row.by = d.tripInvites[i].by /\ row.accepted = None
        /\ row.uses = d.tripInvites[i].uses
    BY <2>1 DEF TripInviteRight, TripInviteRow
  <2>3. RevokeTripInvitation(d, t, i) = [d EXCEPT !.tripInvites = [d.tripInvites EXCEPT ![i] = row]]
    BY <1>1 DEF RevokeTripInvitation
  <2> HIDE DEF row
  <2>4. TripInviteRight(d.users, row)
    BY <2>1, <2>2 DEF TripInviteRight
  <2>5. Leads(d, [d EXCEPT !.tripInvites = [d.tripInvites EXCEPT ![i] = row]], held)
    BY <2>1, <2>4, OneTripInvite
  <2> QED
    BY <2>3, <2>5
<1>2. CASE ~open
  BY <1>2, LeadsNowhere DEF RevokeTripInvitation
<1> QED
  BY <1>1, <1>2

LEMMA MembersLead ==
    ASSUME NEW d, Sound(d), NEW ms \in SUBSET (Trips \X UserIds), NEW held
    PROVE  Leads(d, [d EXCEPT !.members = ms], held)
<1> DEFINE e == [d EXCEPT !.members = ms]
<1>1. /\ e.users = d.users /\ e.sessions = d.sessions /\ e.resets = d.resets /\ e.codes = d.codes
      /\ e.invites = d.invites /\ e.tripInvites = d.tripInvites /\ e.owner = d.owner
      /\ e.members = ms /\ IsDb(e)
  BY DEF Sound, IsDb
<1> HIDE DEF e
<1>2. Leads(d, e, held)
  BY <1>1, SamePeople DEF Sound
<1> QED
  BY <1>2 DEF e

LEMMA JoinTripLeads ==
    ASSUME NEW d, Sound(d), NEW i \in Rows(d.tripInvites), OpenTripInvite(d.tripInvites[i]),
           NEW u \in UserIds, NEW held
    PROVE  Leads(d, joinTrip(d, i, u), held)
<1> DEFINE old == d.tripInvites[i]
           row == [old EXCEPT !.accepted = u, !.uses = @ + 1]
           ms == d.members \cup {<<old.trip, u>>}
           b == [d EXCEPT !.members = ms]
           e == [b EXCEPT !.tripInvites = [b.tripInvites EXCEPT ![i] = row]]
<1>1. i \in TokenIds /\ old \in TripInviteRow /\ TripInviteRight(d.users, old)
      /\ old.accepted = None /\ ~old.revoked
  BY TripInviteRowRight DEF OpenTripInvite
<1>2. /\ row \in TripInviteRow /\ row.by = old.by /\ row.accepted = u /\ (row.revoked = old.revoked)
      /\ row.uses = 1
  <2>1. old.uses = 0
    BY <1>1 DEF TripInviteRight
  <2>2. old.uses + 1 \in Nat
    BY <2>1
  <2>3. row \in TripInviteRow
    BY <1>1, <2>2, Zenon DEF TripInviteRow
  <2>4. row.uses = old.uses + 1 /\ row.by = old.by
    BY <1>1 DEF TripInviteRow
  <2>5. row.accepted = u
    BY <1>1 DEF TripInviteRow
  <2>6. row.revoked = old.revoked
    BY <1>1 DEF TripInviteRow
  <2> HIDE DEF row
  <2> QED
    BY <2>1, <2>3, <2>4, <2>5, <2>6
<1>3. ms \in SUBSET (Trips \X UserIds)
  BY <1>1 DEF Sound, TripInviteRow
<1>4. Leads(d, b, held)
  BY <1>3, MembersLead
<1> HIDE DEF row, ms
<1>5. IsDb(d) /\ IsDb(b) /\ b.tripInvites = d.tripInvites /\ b.users = d.users
  <2>1. IsDb(d)
    BY DEF Sound
  <2> QED
    BY <2>1 DEF IsDb
<1>6. joinTrip(d, i, u) = e
  <2>1. d.tripInvites \in TripInviteTable
    BY DEF Sound, TripInvitesOk
  <2> DEFINE half == [old EXCEPT !.accepted = u]
             vs == [d.tripInvites EXCEPT ![i] = half]
  <2>2. vs[i] = half /\ row = [half EXCEPT !.uses = @ + 1]
    BY <1>1, <2>1 DEF TripInviteTable, TripInviteRow, row
  <2>3. [vs EXCEPT ![i] = row] = [d.tripInvites EXCEPT ![i] = row]
    BY <1>1, <2>1 DEF TripInviteTable
  <2>4. joinTrip(d, i, u)
          = [[b EXCEPT !.tripInvites = vs]
               EXCEPT !.tripInvites = [vs EXCEPT ![i] = [vs[i] EXCEPT !.uses = @ + 1]]]
    <3>1. joinTrip(d, i, u)
            = [d EXCEPT !.members = ms, !.tripInvites[i].accepted = u, !.tripInvites[i].uses = @ + 1]
      BY DEF joinTrip, ms
    <3> QED
      BY <1>5, <3>1 DEF IsDb
  <2> HIDE DEF half, vs, b
  <2>5. [[b EXCEPT !.tripInvites = vs] EXCEPT !.tripInvites = [vs EXCEPT ![i] = row]]
          = [b EXCEPT !.tripInvites = [vs EXCEPT ![i] = row]]
    BY <1>5 DEF IsDb
  <2> QED
    BY <1>5, <2>2, <2>3, <2>4, <2>5
<1> HIDE DEF b
<1>7. TripInviteRight(b.users, row)
  <2>1. u # None
    BY StoreAssumption
  <2> QED
    BY <1>1, <1>2, <1>5, <2>1 DEF TripInviteRight
<1>8. Leads(b, e, held)
  BY <1>1, <1>4, <1>7, OneTripInvite DEF Leads
<1> QED
  BY <1>4, <1>6, <1>8, LeadsOn

LEMMA AcceptTripLeads ==
    ASSUME NEW d, Sound(d), NEW i, NEW u, AcceptTripAllowed(d, i, u), NEW held
    PROVE  Leads(d, AcceptTripInvitation(d, i, u), held)
<1>1. i \in Rows(d.tripInvites) /\ OpenTripInvite(d.tripInvites[i])
  BY DEF AcceptTripAllowed, lockTripInvitation, TripInviteRedeemable
<1>2. u \in UserIds
  BY UserRows DEF AcceptTripAllowed, Sound, UsersOk
<1> QED
  BY <1>1, <1>2, JoinTripLeads DEF AcceptTripInvitation

LEMMA RegisterTripLeads ==
    ASSUME NEW d, Sound(d), HasRoom(d.users), NEW i, RegisterTripAllowed(d, i), NEW held,
           held \cap Unverified(d, d.tripInvites[i].email) = {}
    PROVE  Leads(d, RegisterTripInvitation(d, i), held)
<1> DEFINE old == d.tripInvites[i]
           email == old.email
           c == dropUnverified(d, email)
           new == NewUser(email, FALSE, TRUE, FALSE)
           u == Fresh(c.users)
           b == CreateUser(c, new)
<1>1. i \in Rows(d.tripInvites) /\ i \in TokenIds /\ old \in TripInviteRow
      /\ OpenTripInvite(old) /\ old.accepted = None
  BY TripInviteRowRight DEF RegisterTripAllowed, lockTripInvitation, TripInviteRedeemable, OpenTripInvite
<1>2. Leads(d, c, held) /\ HasRoom(c.users) /\ c.tripInvites[i] = old
  BY <1>1, DropUnverifiedKeeps
<1>3. new \in UserRow /\ (new.unverified => ~new.active)
  BY <1>1, NewUserIsSound DEF TripInviteRow, NewUser
<1> HIDE DEF c, new
<1>4. Leads(c, b, held) /\ u \in UserIds
  BY <1>2, <1>3, CreateUserLeads DEF Leads
<1>5. b.tripInvites = c.tripInvites
  BY <1>2 DEF CreateUser, Leads, Sound, IsDb
<1>6. RegisterTripInvitation(d, i) = joinTrip(b, i, u)
  BY DEF RegisterTripInvitation, c, new
<1> HIDE DEF b, u
<1>7. i \in Rows(b.tripInvites) /\ b.tripInvites[i] = old
  <2>1. b.tripInvites \in TripInviteTable
    BY <1>4 DEF Leads, Sound, TripInvitesOk
  <2> QED
    BY <1>1, <1>2, <1>5, <2>1, TripInviteRows
<1>8. Leads(d, b, held)
  BY <1>2, <1>4, LeadsOn
<1>9. Leads(b, joinTrip(b, i, u), held)
  BY <1>1, <1>4, <1>7, <1>8, JoinTripLeads DEF Leads
<1> QED
  BY <1>6, <1>8, <1>9, LeadsOn

LEMMA ChangeMemberLeads ==
    ASSUME NEW d, Sound(d), NEW t, NEW u, NEW held
    PROVE  /\ t \in Trips /\ AddMemberAllowed(d, t, u) => Leads(d, AddMember(d, t, u), held)
           /\ Leads(d, RemoveMember(d, t, u), held)
<1>1. ASSUME t \in Trips, AddMemberAllowed(d, t, u)
      PROVE  Leads(d, AddMember(d, t, u), held)
  <2>1. u \in UserIds
    BY <1>1, UserRows DEF AddMemberAllowed, Sound, UsersOk
  <2> DEFINE ms == d.members \cup {<<t, u>>}
  <2>2. ms \in SUBSET (Trips \X UserIds)
    BY <1>1, <2>1 DEF Sound
  <2>3. AddMember(d, t, u) = [d EXCEPT !.members = ms]
    BY DEF AddMember
  <2> HIDE DEF ms
  <2> QED
    BY <2>2, <2>3, MembersLead
<1>2. Leads(d, RemoveMember(d, t, u), held)
  <2> DEFINE ms == d.members \ {<<t, u>>}
  <2>2. ms \in SUBSET (Trips \X UserIds)
    BY DEF Sound
  <2>3. RemoveMember(d, t, u) = [d EXCEPT !.members = ms]
    BY DEF RemoveMember
  <2> HIDE DEF ms
  <2> QED
    BY <2>2, <2>3, MembersLead
<1> QED
  BY <1>1, <1>2
-----------------------------------------------------------------------------
(* Time.                                                                   *)
LEMMA ResetExpires ==
    ASSUME NEW d, Sound(d), NEW i \in Rows(d.resets), NEW held
    PROVE  Leads(d, [d EXCEPT !.resets[i].expired = TRUE], held)
<1> DEFINE row == [d.resets[i] EXCEPT !.expired = TRUE]
<1>1. i \in TokenIds /\ d.resets[i] \in ResetRow /\ ResetRight(d.users, d.resets[i])
  BY ResetRowRight
<1>2. row \in ResetRow /\ row.user = d.resets[i].user /\ row.uses = d.resets[i].uses
      /\ (row.used = d.resets[i].used)
  BY <1>1 DEF ResetRow
<1> HIDE DEF row
<1>3. ResetRight(d.users, row)
  BY <1>1, <1>2 DEF ResetRight
<1>4. Leads(d, [d EXCEPT !.resets = [d.resets EXCEPT ![i] = row]], held)
  BY <1>1, <1>3, OneReset
<1> QED
  BY <1>4 DEF row

LEMMA InviteExpires ==
    ASSUME NEW d, Sound(d), NEW i \in Rows(d.invites), NEW held
    PROVE  Leads(d, [d EXCEPT !.invites[i].expired = TRUE], held)
<1> DEFINE row == [d.invites[i] EXCEPT !.expired = TRUE]
<1>1. i \in TokenIds /\ d.invites[i] \in InviteRow /\ InviteRight(d.users, d.invites[i])
  BY InviteRowRight
<1>2. row \in InviteRow /\ row.by = d.invites[i].by /\ row.uses = d.invites[i].uses
      /\ (row.accepted = d.invites[i].accepted) /\ (row.revoked = d.invites[i].revoked)
  BY <1>1 DEF InviteRow
<1> HIDE DEF row
<1>3. InviteRight(d.users, row)
  BY <1>1, <1>2 DEF InviteRight
<1>4. Leads(d, [d EXCEPT !.invites = [d.invites EXCEPT ![i] = row]], held)
  BY <1>1, <1>3, OneInvite
<1> QED
  BY <1>4 DEF row

LEMMA TripInviteExpires ==
    ASSUME NEW d, Sound(d), NEW i \in Rows(d.tripInvites), NEW held
    PROVE  Leads(d, [d EXCEPT !.tripInvites[i].expired = TRUE], held)
<1> DEFINE row == [d.tripInvites[i] EXCEPT !.expired = TRUE]
<1>1. i \in TokenIds /\ d.tripInvites[i] \in TripInviteRow /\ TripInviteRight(d.users, d.tripInvites[i])
  BY TripInviteRowRight
<1>2. row \in TripInviteRow /\ row.by = d.tripInvites[i].by /\ row.uses = d.tripInvites[i].uses
      /\ row.accepted = d.tripInvites[i].accepted /\ (row.revoked = d.tripInvites[i].revoked)
  BY <1>1 DEF TripInviteRow
<1> HIDE DEF row
<1>3. TripInviteRight(d.users, row)
  BY <1>1, <1>2 DEF TripInviteRight
<1>4. Leads(d, [d EXCEPT !.tripInvites = [d.tripInvites EXCEPT ![i] = row]], held)
  BY <1>1, <1>3, OneTripInvite
<1> QED
  BY <1>4 DEF row

LEMMA CodeGrowsOld ==
    ASSUME NEW d, Sound(d), NEW u \in Rows(d.users), d.codes[u] # None, NEW held
    PROVE  /\ Leads(d, [d EXCEPT !.codes[u].recent = FALSE], held)
           /\ Leads(d, [d EXCEPT !.codes[u].recent = FALSE, !.codes[u].expired = TRUE], held)
<1> DEFINE old == d.codes[u]
           one == [old EXCEPT !.recent = FALSE]
           two == [one EXCEPT !.expired = TRUE]
<1>1. u \in UserIds /\ old \in CodeRow /\ CodeRight(old)
  BY CodesRight, UserRows DEF Sound, UsersOk
<1>2. one \in CodeRow /\ one.attempts = old.attempts
  BY <1>1 DEF CodeRow
<1>3. two \in CodeRow /\ two.attempts = old.attempts
  <2>1. two.attempts = one.attempts
    BY <1>1 DEF CodeRow
  <2> HIDE DEF one
  <2> QED
    BY <1>2, <2>1 DEF CodeRow
<1>4. [d EXCEPT !.codes[u].recent = FALSE, !.codes[u].expired = TRUE]
        = [d EXCEPT !.codes = [d.codes EXCEPT ![u] = two]]
  <2>1. d.codes \in CodeTable /\ IsDb(d)
    BY DEF Sound, CodesOk
  <2> DEFINE vs == [d.codes EXCEPT ![u] = one]
  <2>2. vs[u] = one /\ two = [one EXCEPT !.expired = TRUE]
    BY <1>1, <2>1 DEF CodeTable
  <2>3. [vs EXCEPT ![u] = two] = [d.codes EXCEPT ![u] = two]
    BY <1>1, <2>1 DEF CodeTable
  <2>4. [d EXCEPT !.codes[u].recent = FALSE, !.codes[u].expired = TRUE]
          = [[d EXCEPT !.codes = vs] EXCEPT !.codes = [vs EXCEPT ![u] = [vs[u] EXCEPT !.expired = TRUE]]]
    BY <2>1 DEF IsDb
  <2> HIDE DEF one, two, vs
  <2>5. [[d EXCEPT !.codes = vs] EXCEPT !.codes = [vs EXCEPT ![u] = two]]
          = [d EXCEPT !.codes = [vs EXCEPT ![u] = two]]
    BY <2>1 DEF IsDb
  <2> QED
    BY <2>2, <2>3, <2>4, <2>5
<1>5. [d EXCEPT !.codes[u].recent = FALSE] = [d EXCEPT !.codes = [d.codes EXCEPT ![u] = one]]
  OBVIOUS
<1> HIDE DEF one, two
<1>6. CodeRight(one) /\ CodeRight(two)
  BY <1>1, <1>2, <1>3 DEF CodeRight
<1>7. Leads(d, [d EXCEPT !.codes = [d.codes EXCEPT ![u] = one]], held)
  BY <1>1, <1>6, OneCode
<1>8. Leads(d, [d EXCEPT !.codes = [d.codes EXCEPT ![u] = two]], held)
  BY <1>1, <1>6, OneCode
<1> QED
  BY <1>4, <1>5, <1>7, <1>8

LEMMA UserGrowsOld ==
    ASSUME NEW d, Sound(d), NEW u \in Rows(d.users), NEW held
    PROVE  Leads(d, [d EXCEPT !.users[u].old = TRUE], held)
<1> DEFINE row == [d.users[u] EXCEPT !.old = TRUE]
<1>1. d.users[u] \in UserRow /\ (d.users[u].unverified => ~d.users[u].active)
  BY UserRows DEF Sound, UsersOk
<1>2. /\ row \in UserRow /\ row.pw = d.users[u].pw /\ (row.admin = d.users[u].admin)
      /\ (row.active = d.users[u].active) /\ (row.unverified = d.users[u].unverified)
  BY <1>1 DEF UserRow
<1> HIDE DEF row
<1>3. IsAdministrator(row) = IsAdministrator(d.users[u])
  BY <1>2 DEF IsAdministrator
<1>4. Leads(d, [d EXCEPT !.users = [d.users EXCEPT ![u] = row]], held)
  BY <1>1, <1>2, <1>3, OneUser
<1> QED
  BY <1>4 DEF row
-----------------------------------------------------------------------------
(* What a request knows stays true while others commit: an invitation is   *)
(* written by an account that was confirmed, and while an administrator    *)
(* goes or is stripped of the power, another one is left.                  *)
Confirmed(us, u) == u \in UserIds /\ us[u] # None /\ (u \in Rows(us) => ~us[u].unverified)

AnotherThan(us, u) == \E v \in Chiefs(us) : v # u

RequestOk(r, us) ==
    /\ r = [kind |-> r.kind, at |-> r.at, u |-> r.u, s |-> r.s, n |-> r.n, heard |-> r.heard]
    /\ r.kind = "login" => r.n \in Nat
    /\ r.kind = "update" => r.n \in {"promote", "demote", "activate", "deactivate"}
    /\ r.kind \in {"createUser", "register", "inviteUser", "inviteMember"} => r.n \in Addresses
    /\ r.kind \in {"inviteMember", "addMember"} => r.s \in Trips
    /\ r.kind \in {"inviteUser", "inviteMember"} => Confirmed(us, r.u)
    /\ r.at = "locked" =>
         /\ r.kind \in {"update", "deleteMe"}
         /\ r.u \in Rows(us)
         /\ r.kind = "update" /\ r.n \in {"demote", "deactivate"} => AnotherThan(us, r.u)
         /\ r.kind = "deleteMe" /\ r.u \in Chiefs(us) => AnotherThan(us, r.u)

OneLock ==
    \A p, q \in Requests :
        req[p] # None /\ req[q] # None /\ req[p].at = "locked" /\ req[q].at = "locked" => p = q

IInv ==
    /\ Consistent(db)
    /\ IsTable(Requests, req)
    /\ \A p \in Requests : req[p] # None => RequestOk(req[p], db.users)
    /\ OneLock

Held == {req[p].u : p \in {q \in Requests : req[q] # None /\ req[q].at = "locked"}}

LEMMA UnheldIsFree == ASSUME NEW us, Unheld(us) PROVE Held \cap us = {}
BY DEF Unheld, Held

LEMMA InvIsSound == IInv => Sound(db) /\ Chiefs(db.users) # {}
BY ConsistentIsSound DEF IInv

LEMMA KnownConfirmed ==
    ASSUME NEW us \in Users, NEW vs, NEW u, UsersKnown(us, vs), Confirmed(us, u)
    PROVE  Confirmed(vs, u)
<1>1. CASE u \in Rows(us)
  BY <1>1 DEF UsersKnown, Confirmed
<1>2. CASE u \notin Rows(us)
  <2>1. us[u] = Gone
    BY <1>2 DEF Users, Confirmed, Rows
  <2>2. vs[u] = Gone
    BY <2>1 DEF UsersKnown, Confirmed
  <2> QED
    BY <2>2, StoreAssumption DEF Confirmed, Rows
<1> QED
  BY <1>1, <1>2

LEMMA RequestStays ==
    ASSUME NEW us, NEW vs, NEW held, UsersGo(us, vs, held), us \in Users,
           NEW r, RequestOk(r, us), r.at = "locked" => r.u \in held
    PROVE  RequestOk(r, vs)
<1>1. UsersKnown(us, vs)
  BY GoIsKnown
<1>2. \A u : Confirmed(us, u) => Confirmed(vs, u)
  BY <1>1, KnownConfirmed
<1>3. ASSUME r.at = "locked"
      PROVE  r.u \in Rows(vs) /\ (r.u \in Chiefs(vs) => r.u \in Chiefs(us))
  BY <1>3 DEF UsersGo, RequestOk
<1>4. AnotherThan(us, r.u) => AnotherThan(vs, r.u)
  BY DEF AnotherThan, UsersGo
<1> QED
  BY <1>2, <1>3, <1>4 DEF RequestOk

LEMMA RequestKnown ==
    ASSUME NEW us, NEW vs, UsersKnown(us, vs), us \in Users,
           NEW r, RequestOk(r, us), r.at # "locked"
    PROVE  RequestOk(r, vs)
<1>1. \A u : Confirmed(us, u) => Confirmed(vs, u)
  BY KnownConfirmed
<1> QED
  BY <1>1 DEF RequestOk

-----------------------------------------------------------------------------
(* What a step does to the requests: at most one of them is asked, goes on *)
(* or is answered, and accounts change only with its answer.               *)
ReqMoves ==
    /\ IsTable(Requests, req')
    /\ \A q \in Requests :
         \/ req'[q] \in {None, req[q]}
         \/ /\ db'.users = db.users
            /\ RequestOk(req'[q], db.users)
            /\ req'[q].at = "locked" => lockAdministrators(q)
    /\ \A q, r \in Requests : req'[q] # req[q] /\ req'[r] # req[r] => q = r

LEMMA OneMoves ==
    ASSUME IsTable(Requests, req), NEW p \in Requests, NEW r, req' = [req EXCEPT ![p] = r],
           \/ r = None
           \/ /\ db'.users = db.users
              /\ RequestOk(r, db.users)
              /\ r.at = "locked" => lockAdministrators(p)
    PROVE  ReqMoves /\ req'[p] = r /\ \A q \in Requests \ {p} : req'[q] = req[q]
<1>1. IsTable(Requests, req') /\ req'[p] = r /\ \A q \in Requests \ {p} : req'[q] = req[q]
  BY DEF IsTable
<1> QED
  BY <1>1 DEF ReqMoves

LEMMA NobodyMoves == IsTable(Requests, req) /\ req' = req => ReqMoves
BY DEF ReqMoves

LEMMA MovesKeepInv ==
    ASSUME IInv, ReqMoves,
           \/ Leads(db, db', Held)
           \/ Sound(db') /\ db'.users = db.users
    PROVE  IInv'
<1>1. Sound(db) /\ Chiefs(db.users) # {} /\ db.users \in Users
  BY InvIsSound DEF Sound, UsersOk
<1>2. Sound(db') /\ UsersGo(db.users, db'.users, Held)
  BY UsersStayed DEF Leads
<1>3. Consistent(db)'
  <2>1. Chiefs(db'.users) # {}
    BY <1>1, <1>2 DEF UsersGo
  <2>2. \A d : Sound(d) /\ Chiefs(d.users) # {} => Consistent(d)
    BY ConsistentIsSound
  <2>3. Consistent(db')
    BY <1>2, <2>1, <2>2
  <2> QED
    BY <2>3
<1>4. \A p \in Requests : req'[p] # None => RequestOk(req'[p], db'.users)
  <2> SUFFICES ASSUME NEW p \in Requests, req'[p] # None PROVE RequestOk(req'[p], db'.users)
    OBVIOUS
  <2>1. CASE req'[p] = req[p]
    <3>1. req[p] # None /\ RequestOk(req[p], db.users)
      BY <2>1 DEF IInv
    <3>2. req[p].at = "locked" => req[p].u \in Held
      BY <3>1 DEF Held
    <3>3. RequestOk(req[p], db'.users)
      BY <1>1, <1>2, <3>1, <3>2, RequestStays
    <3> QED
      BY <2>1, <3>3
  <2>2. CASE db'.users = db.users /\ RequestOk(req'[p], db.users)
    BY <2>2
  <2> QED
    BY <2>1, <2>2 DEF ReqMoves
<1>5. OneLock'
  <2> SUFFICES ASSUME NEW p \in Requests, NEW q \in Requests, req'[p] # None, req'[q] # None,
                      req'[p].at = "locked", req'[q].at = "locked"
               PROVE  p = q
    BY DEF OneLock
  <2>1. CASE req'[p] = req[p] /\ req'[q] = req[q]
    BY <2>1 DEF IInv, OneLock
  <2>2. CASE req'[p] # req[p] /\ req'[q] = req[q]
    <3>1. lockAdministrators(p)
      BY <2>2 DEF ReqMoves
    <3> QED
      BY <2>2, <3>1 DEF lockAdministrators
  <2>3. CASE req'[p] = req[p] /\ req'[q] # req[q]
    <3>1. lockAdministrators(q)
      BY <2>3 DEF ReqMoves
    <3> QED
      BY <2>3, <3>1 DEF lockAdministrators
  <2>4. CASE req'[p] # req[p] /\ req'[q] # req[q]
    BY <2>4 DEF ReqMoves
  <2> QED
    BY <2>1, <2>2, <2>3, <2>4
<1>6. (\A p \in Requests : req[p] # None => RequestOk(req[p], db.users))'
  BY <1>4
<1> QED
  BY <1>3, <1>5, <1>6 DEF IInv, ReqMoves

(* One that held the lock goes: nobody else did.                           *)
LEMMA LockedKeepInv ==
    ASSUME IInv, NEW p \in Requests, req[p] # None, req[p].at = "locked",
           req' = [req EXCEPT ![p] = None],
           Sound(db'), Chiefs(db'.users) # {}, UsersKnown(db.users, db'.users)
    PROVE  IInv'
<1>1. Sound(db) /\ db.users \in Users /\ IsTable(Requests, req)
  BY InvIsSound DEF Sound, UsersOk, IInv
<1>2. IsTable(Requests, req') /\ req'[p] = None /\ \A q \in Requests \ {p} : req'[q] = req[q]
  BY <1>1 DEF IsTable
<1>3. Consistent(db)'
  <2>2. \A d : Sound(d) /\ Chiefs(d.users) # {} => Consistent(d)
    BY ConsistentIsSound
  <2>3. Consistent(db')
    BY <2>2
  <2> QED
    BY <2>3
<1>4. \A q \in Requests : req'[q] # None => RequestOk(req'[q], db'.users)
  <2> SUFFICES ASSUME NEW q \in Requests, req'[q] # None PROVE RequestOk(req'[q], db'.users)
    OBVIOUS
  <2>1. q # p /\ req'[q] = req[q] /\ RequestOk(req[q], db.users)
    BY <1>2 DEF IInv
  <2>2. req[q].at # "locked"
    BY <2>1 DEF IInv, OneLock
  <2>3. RequestOk(req[q], db'.users)
    BY <1>1, <2>1, <2>2, RequestKnown
  <2> QED
    BY <2>1, <2>3
<1>5. OneLock'
  <2> SUFFICES ASSUME NEW r \in Requests, NEW q \in Requests, req'[r] # None, req'[q] # None,
                      req'[r].at = "locked", req'[q].at = "locked"
               PROVE  r = q
    BY DEF OneLock
  <2> QED
    BY <1>2 DEF IInv, OneLock
<1>6. (\A q \in Requests : req[q] # None => RequestOk(req[q], db.users))'
  BY <1>4
<1> QED
  BY <1>2, <1>3, <1>5, <1>6 DEF IInv
-----------------------------------------------------------------------------
(* Steps that are none of a browser's.                                     *)
Browsing(r) == r # None /\ r.kind \in {"refresh", "logout"}

Ordinary ==
    /\ Leads(db, db', Held)
    /\ ReqMoves
    /\ \A q \in Requests : Browsing(req[q]) \/ Browsing(req'[q]) => req'[q] = req[q]
    /\ store' = store
    /\ calm' = calm

LEMMA AskIsOrdinary ==
    ASSUME IInv, NEW p \in Requests, NEW kind, NEW u, NEW s, NEW n, Ask(p, kind, "asked", u, s, n),
           kind \notin {"refresh", "logout"},
           kind = "login" => n \in Nat,
           kind = "update" => n \in {"promote", "demote", "activate", "deactivate"},
           kind \in {"createUser", "register", "inviteUser", "inviteMember"} => n \in Addresses,
           kind \in {"inviteMember", "addMember"} => s \in Trips,
           kind \in {"inviteUser", "inviteMember"} => Confirmed(db.users, u)
    PROVE  Ordinary
<1> DEFINE r == [kind |-> kind, at |-> "asked", u |-> u, s |-> s, n |-> n, heard |-> TRUE]
<1>1. req' = [req EXCEPT ![p] = r] /\ db' = db /\ store' = store /\ calm' = calm /\ req[p] = None
  BY DEF Ask
<1>2. /\ r.kind = kind /\ r.at = "asked" /\ r.u = u /\ r.s = s /\ r.n = n /\ r.heard = TRUE
  OBVIOUS
<1>3. r = [kind |-> r.kind, at |-> r.at, u |-> r.u, s |-> r.s, n |-> r.n, heard |-> r.heard]
  OBVIOUS
<1> HIDE DEF r
<1>4. RequestOk(r, db.users)
  BY <1>2, <1>3 DEF RequestOk
<1>5. ReqMoves /\ req'[p] = r /\ \A q \in Requests \ {p} : req'[q] = req[q]
  BY <1>1, <1>2, <1>4, OneMoves DEF IInv
<1>6. Leads(db, db', Held)
  BY <1>1, InvIsSound, LeadsNowhere
<1>7. \A q \in Requests : Browsing(req[q]) \/ Browsing(req'[q]) => req'[q] = req[q]
  BY <1>1, <1>2, <1>5 DEF Browsing
<1> QED
  BY <1>1, <1>5, <1>6, <1>7 DEF Ordinary

LEMMA GoesOn ==
    ASSUME NEW r, NEW us, RequestOk(r, us), NEW at, at # "locked"
    PROVE  LET e == [r EXCEPT !.at = at] IN
           /\ RequestOk(e, us) /\ e.kind = r.kind /\ e.at = at /\ e.u = r.u /\ e.s = r.s
           /\ e.n = r.n /\ e.heard = r.heard
<1> DEFINE e == [r EXCEPT !.at = at]
<1>1. r = [kind |-> r.kind, at |-> r.at, u |-> r.u, s |-> r.s, n |-> r.n, heard |-> r.heard]
  BY DEF RequestOk
<1>2. e = [kind |-> r.kind, at |-> at, u |-> r.u, s |-> r.s, n |-> r.n, heard |-> r.heard]
  BY <1>1
<1> HIDE DEF e
<1>3. e.kind = r.kind /\ e.at = at /\ e.u = r.u /\ e.s = r.s /\ e.n = r.n /\ e.heard = r.heard
  BY <1>2
<1>4. RequestOk(e, us)
  BY <1>2, <1>3 DEF RequestOk
<1> QED
  BY <1>3, <1>4 DEF e

LEMMA GoesIsOrdinary ==
    ASSUME IInv, NEW p \in Requests, req[p] # None, req[p].kind \notin {"refresh", "logout"},
           NEW at, at # "locked", Goes(p, at)
    PROVE  Ordinary
<1> DEFINE r == [req[p] EXCEPT !.at = at]
<1>1. req' = [req EXCEPT ![p] = r] /\ db' = db /\ store' = store /\ calm' = calm
  BY DEF Goes
<1>2. RequestOk(req[p], db.users)
  BY DEF IInv
<1>3. RequestOk(r, db.users) /\ r.kind = req[p].kind /\ r.at = at
  BY <1>2, GoesOn
<1> HIDE DEF r
<1>4. ReqMoves /\ req'[p] = r /\ \A q \in Requests \ {p} : req'[q] = req[q]
  BY <1>1, <1>3, OneMoves DEF IInv
<1>5. Leads(db, db', Held)
  BY <1>1, InvIsSound, LeadsNowhere
<1>6. \A q \in Requests : Browsing(req[q]) \/ Browsing(req'[q]) => req'[q] = req[q]
  BY <1>3, <1>4 DEF Browsing
<1> QED
  BY <1>1, <1>4, <1>5, <1>6 DEF Ordinary

LEMMA CommitsIsOrdinary ==
    ASSUME IInv, NEW p \in Requests, req[p] # None, req[p].kind \notin {"refresh", "logout"},
           NEW allowed, NEW d, Commits(p, allowed, d), allowed => Leads(db, d, Held)
    PROVE  Ordinary
<1>1. req' = [req EXCEPT ![p] = None] /\ store' = store /\ calm' = calm
      /\ db' = IF allowed THEN d ELSE db
  BY DEF Commits
<1>2. ReqMoves /\ req'[p] = None /\ \A q \in Requests \ {p} : req'[q] = req[q]
  BY <1>1, OneMoves DEF IInv
<1>3. Leads(db, db', Held)
  BY <1>1, InvIsSound, LeadsNowhere
<1>4. \A q \in Requests : Browsing(req[q]) \/ Browsing(req'[q]) => req'[q] = req[q]
  BY <1>2 DEF Browsing
<1> QED
  BY <1>1, <1>2, <1>3, <1>4 DEF Ordinary

LEMMA ServiceIsOrdinary ==
    ASSUME IInv, req' = req, store' = store, calm' = calm, Leads(db, db', Held)
    PROVE  Ordinary
BY NobodyMoves DEF Ordinary, IInv

(* Whoever is let in as an administrator or as the owner of a trip is      *)
(* active, so confirmed.                                                   *)
LEMMA AuthIsConfirmed ==
    ASSUME IInv, NEW s, NEW u, requireAuth(s, u)
    PROVE  u \in Rows(db.users) => Confirmed(db.users, u)
<1> SUFFICES ASSUME u \in Rows(db.users) PROVE Confirmed(db.users, u)
  OBVIOUS
<1>1. db.users[u].active /\ UsersOk(db.users)
  BY InvIsSound DEF requireAuth, ActiveUser, Sound
<1>2. u \in UserIds /\ ~db.users[u].unverified
  BY <1>1, UserRows DEF UsersOk
<1> QED
  BY <1>2 DEF Confirmed, Rows
-----------------------------------------------------------------------------
LEMMA RecoveryIsOrdinary ==
    ASSUME IInv, NEW p \in Requests, Recovery(p)
    PROVE  Ordinary
<1>0. Sound(db)
  BY InvIsSound
<1>1. CASE RequestPasswordReset(p)
  BY <1>1, AskIsOrdinary DEF RequestPasswordReset
<1>2. CASE CloseOpenResets(p)
  <2> DEFINE old == req[p]
             r == [[old EXCEPT !.at = "closing"] EXCEPT !.n = Fresh(db.resets)]
  <2>1. old # None /\ old.kind = "requestReset" /\ RequestOk(old, db.users)
    BY <1>2 DEF CloseOpenResets, Doing, IInv
  <2>2. old = [kind |-> old.kind, at |-> old.at, u |-> old.u, s |-> old.s, n |-> old.n, heard |-> old.heard]
    BY <2>1 DEF RequestOk
  <2>3. r = [kind |-> old.kind, at |-> "closing", u |-> old.u, s |-> old.s, n |-> Fresh(db.resets),
             heard |-> old.heard]
    <3> DEFINE e == [old EXCEPT !.at = "closing"]
    <3>1. RequestOk(e, db.users) /\ e.kind = old.kind /\ e.at = "closing" /\ e.u = old.u
          /\ e.s = old.s /\ e.heard = old.heard
      BY <2>1, GoesOn
    <3> HIDE DEF e
    <3>2. e = [kind |-> e.kind, at |-> e.at, u |-> e.u, s |-> e.s, n |-> e.n, heard |-> e.heard]
      BY <3>1 DEF RequestOk
    <3>3. [e EXCEPT !.n = Fresh(db.resets)]
            = [kind |-> e.kind, at |-> e.at, u |-> e.u, s |-> e.s, n |-> Fresh(db.resets), heard |-> e.heard]
      BY <3>2
    <3> QED
      BY <3>1, <3>3 DEF e
  <2>4. req' = [req EXCEPT ![p] = r] /\ db' = db /\ store' = store /\ calm' = calm
    <3>1. req' = [[req EXCEPT ![p] = [old EXCEPT !.at = "closing"]]
                    EXCEPT ![p] = [[old EXCEPT !.at = "closing"] EXCEPT !.n = Fresh(db.resets)]]
      BY <1>2, <2>2 DEF CloseOpenResets, IInv, IsTable
    <3> QED
      BY <1>2, <3>1 DEF CloseOpenResets, IInv, IsTable
  <2> HIDE DEF r
  <2>5. RequestOk(r, db.users) /\ r.kind = "requestReset" /\ r.at = "closing"
    BY <2>1, <2>3 DEF RequestOk
  <2>6. ReqMoves /\ req'[p] = r /\ \A q \in Requests \ {p} : req'[q] = req[q]
    BY <2>4, <2>5, OneMoves DEF IInv
  <2>7. Leads(db, db', Held)
    BY <1>0, <2>4, LeadsNowhere
  <2>8. \A q \in Requests : Browsing(req[q]) \/ Browsing(req'[q]) => req'[q] = req[q]
    BY <2>1, <2>5, <2>6 DEF Browsing
  <2> QED
    BY <2>4, <2>6, <2>7, <2>8 DEF Ordinary
<1>3. CASE InsertReset(p)
  <2>1. req[p] # None /\ req[p].kind = "requestReset" /\ HasRoom(db.resets)
    BY <1>3 DEF InsertReset, Doing
  <2>2. req[p].u \in Rows(db.users) => Leads(db, CreatePasswordReset(db, req[p].u, req[p].n), Held)
    BY <1>0, <2>1, CreatePasswordResetLeads
  <2> QED
    BY <1>3, <2>1, <2>2, CommitsIsOrdinary DEF InsertReset
<1>4. CASE AskCompleteReset(p)
  BY <1>4, AskIsOrdinary DEF AskCompleteReset
<1>5. CASE CompletePasswordReset(p)
  <2>1. req[p] # None /\ req[p].kind = "completeReset"
    BY <1>5 DEF CompletePasswordReset, Doing
  <2>2. ResetAllowed(db, req[p].n) => Leads(db, ResetPassword(db, req[p].n), Held)
    BY <1>0, ResetPasswordLeads
  <2> QED
    BY <1>5, <2>1, <2>2, CommitsIsOrdinary DEF CompletePasswordReset
<1>6. CASE AskResetByAdmin(p)
  BY <1>6, AskIsOrdinary DEF AskResetByAdmin
<1>7. CASE ResetByAdmin(p)
  <2>1. req[p] # None /\ req[p].kind = "resetByAdmin"
    BY <1>7 DEF ResetByAdmin, Doing
  <2>2. req[p].u \in Rows(db.users) => Leads(db, ResetUserPassword(db, req[p].u), Held)
    BY <1>0, ResetUserPasswordLeads
  <2> QED
    BY <1>7, <2>1, <2>2, CommitsIsOrdinary DEF ResetByAdmin
<1> QED
  BY <1>1, <1>2, <1>3, <1>4, <1>5, <1>6, <1>7 DEF Recovery

LEMMA JoiningIsOrdinary ==
    ASSUME IInv, NEW p \in Requests, Joining(p)
    PROVE  Ordinary
<1>0. Sound(db) /\ UsersOk(db.users) /\ db.users \in Users
  BY InvIsSound DEF Sound, UsersOk
<1>1. CASE AskRegister(p)
  BY <1>1, AskIsOrdinary DEF AskRegister
<1>2. CASE RegisterAccount(p)
  <2> DEFINE email == req[p].n
             u == GetByEmail(db, email)
  <2>1. req[p] # None /\ req[p].kind = "register"
    BY <1>2 DEF RegisterAccount, Doing
  <2>2. CASE AddressFree(db, email)
    BY <1>2, <2>1, <2>2, GoesIsOrdinary DEF RegisterAccount
  <2>3. CASE ~AddressFree(db, email)
    <3>1. u \in Rows(db.users)
      BY <2>3 DEF AddressFree, GetByEmail, Holders
    <3>2. Leads(db, RegisterAgain(db, u), Held)
      BY <1>0, <3>1, RegisterAgainLeads
    <3>3. Commits(p, TRUE, RegisterAgain(db, u))
      BY <1>2, <2>3 DEF RegisterAccount
    <3> QED
      BY <2>1, <3>2, <3>3, CommitsIsOrdinary
  <2> QED
    BY <2>2, <2>3
<1>3. CASE InsertRegistered(p)
  <2>1. req[p] # None /\ req[p].kind = "register" /\ HasRoom(db.users)
    BY <1>3 DEF InsertRegistered, Doing
  <2>2. req[p].n \in Addresses
    BY <2>1 DEF IInv, RequestOk
  <2>3. Leads(db, RegisterNew(db, req[p].n), Held)
    BY <1>0, <2>1, <2>2, RegisterNewLeads
  <2> QED
    BY <1>3, <2>1, <2>3, CommitsIsOrdinary DEF InsertRegistered
<1>4. CASE AskResend(p)
  BY <1>4, AskIsOrdinary DEF AskResend
<1>5. CASE Resend(p)
  <2>1. req[p] # None /\ req[p].kind = "resend"
    BY <1>5 DEF Resend, Doing
  <2>2. ResendAllowed(db, req[p].u) => Leads(db, ResendVerification(db, req[p].u), Held)
    BY <1>0, ResendVerificationLeads DEF ResendAllowed
  <2> QED
    BY <1>5, <2>1, <2>2, CommitsIsOrdinary DEF Resend
<1>6. CASE AskInviteUser(p)
  <2>1. PICK by \in Rows(db.users), s \in Rows(db.sessions), email \in Addresses :
          requireAdmin(s, by) /\ Ask(p, "inviteUser", "asked", by, None, email)
    BY <1>6 DEF AskInviteUser
  <2>2. Confirmed(db.users, by)
    BY <2>1, AuthIsConfirmed DEF requireAdmin
  <2> QED
    BY <2>1, <2>2, AskIsOrdinary
<1>7. CASE CheckInvited(p)
  <2>1. req[p] # None /\ req[p].kind = "inviteUser"
    BY <1>7 DEF CheckInvited, Doing
  <2>2. CASE Invitable(db, req[p].n)
    BY <1>7, <2>1, <2>2, GoesIsOrdinary DEF CheckInvited
  <2>3. CASE ~Invitable(db, req[p].n)
    BY <1>7, <2>1, <2>3, CommitsIsOrdinary DEF CheckInvited
  <2> QED
    BY <2>2, <2>3
<1>8. CASE InviteUser(p)
  <2> DEFINE by == req[p].u
  <2>1. req[p] # None /\ req[p].kind = "inviteUser" /\ HasRoom(db.invites)
    BY <1>8 DEF InviteUser, Doing
  <2>2. req[p].n \in Addresses /\ Confirmed(db.users, by)
    BY <2>1 DEF IInv, RequestOk
  <2>3. by \in Rows(db.users) => Leads(db, CreateUserInvitation(db, req[p].n, FALSE, by), Held)
    BY <1>0, <2>1, <2>2, CreateUserInvitationLeads DEF Confirmed
  <2> QED
    BY <1>8, <2>1, <2>3, CommitsIsOrdinary DEF InviteUser
<1>9. CASE AskAcceptUser(p)
  BY <1>9, AskIsOrdinary DEF AskAcceptUser
<1>10. CASE AcceptUser(p)
  <2> DEFINE i == req[p].n
  <2>1. req[p] # None /\ req[p].kind = "acceptUser" /\ HasRoom(db.users)
    BY <1>10 DEF AcceptUser, Doing
  <2>2. ASSUME AcceptUserAllowed(db, i)
        PROVE  Leads(db, AcceptUserInvitation(db, i), Held)
    <3>1. Held \cap Unverified(db, db.invites[i].email) = {}
      BY <1>10, <2>2, UnheldIsFree DEF AcceptUser
    <3> QED
      BY <1>0, <2>1, <2>2, <3>1, AcceptUserLeads
  <2> QED
    BY <1>10, <2>1, <2>2, CommitsIsOrdinary DEF AcceptUser
<1> QED
  BY <1>1, <1>2, <1>3, <1>4, <1>5, <1>6, <1>7, <1>8, <1>9, <1>10 DEF Joining

LEMMA SharingIsOrdinary ==
    ASSUME IInv, NEW p \in Requests, Sharing(p)
    PROVE  Ordinary
<1>0. Sound(db)
  BY InvIsSound
<1>1. CASE AskInviteMember(p)
  <2>1. PICK u \in Rows(db.users), t \in Trips, email \in Addresses :
          tripFor(t, u) /\ Ask(p, "inviteMember", "asked", u, t, email)
    BY <1>1 DEF AskInviteMember
  <2>2. Confirmed(db.users, u)
    BY <2>1, AuthIsConfirmed DEF tripFor
  <2> QED
    BY <2>1, <2>2, AskIsOrdinary
<1>2. CASE CheckInvitedMember(p)
  <2>1. req[p] # None /\ req[p].kind = "inviteMember"
    BY <1>2 DEF CheckInvitedMember, Doing
  <2>2. CASE TripInvitable(db, req[p].s, req[p].n)
    BY <1>2, <2>1, <2>2, GoesIsOrdinary DEF CheckInvitedMember
  <2>3. CASE ~TripInvitable(db, req[p].s, req[p].n)
    BY <1>2, <2>1, <2>3, CommitsIsOrdinary DEF CheckInvitedMember
  <2> QED
    BY <2>2, <2>3
<1>3. CASE InviteMember(p)
  <2> DEFINE by == req[p].u
  <2>1. req[p] # None /\ req[p].kind = "inviteMember" /\ HasRoom(db.tripInvites)
    BY <1>3 DEF InviteMember, Doing
  <2>2. req[p].n \in Addresses /\ req[p].s \in Trips /\ Confirmed(db.users, by)
    BY <2>1 DEF IInv, RequestOk
  <2>3. by \in Rows(db.users) => Leads(db, CreateTripInvitation(db, req[p].s, req[p].n, by), Held)
    BY <1>0, <2>1, <2>2, CreateTripInvitationLeads DEF Confirmed
  <2> QED
    BY <1>3, <2>1, <2>3, CommitsIsOrdinary DEF InviteMember
<1>4. CASE AskAcceptTrip(p)
  BY <1>4, AskIsOrdinary DEF AskAcceptTrip
<1>5. CASE AcceptTrip(p)
  <2>1. req[p] # None /\ req[p].kind = "acceptTrip"
    BY <1>5 DEF AcceptTrip, Doing
  <2>2. AcceptTripAllowed(db, req[p].n, req[p].u)
          => Leads(db, AcceptTripInvitation(db, req[p].n, req[p].u), Held)
    BY <1>0, AcceptTripLeads
  <2> QED
    BY <1>5, <2>1, <2>2, CommitsIsOrdinary DEF AcceptTrip
<1>6. CASE AskRegisterTrip(p)
  BY <1>6, AskIsOrdinary DEF AskRegisterTrip
<1>7. CASE RegisterTrip(p)
  <2> DEFINE i == req[p].n
  <2>1. req[p] # None /\ req[p].kind = "registerTrip" /\ HasRoom(db.users)
    BY <1>7 DEF RegisterTrip, Doing
  <2>2. ASSUME RegisterTripAllowed(db, i)
        PROVE  Leads(db, RegisterTripInvitation(db, i), Held)
    <3>1. Held \cap Unverified(db, db.tripInvites[i].email) = {}
      BY <1>7, <2>2, UnheldIsFree DEF RegisterTrip
    <3> QED
      BY <1>0, <2>1, <2>2, <3>1, RegisterTripLeads
  <2> QED
    BY <1>7, <2>1, <2>2, CommitsIsOrdinary DEF RegisterTrip
<1>8. CASE AskMember(p)
  BY <1>8, AskIsOrdinary DEF AskMember
<1>9. CASE ChangeMember(p)
  <2> DEFINE u == req[p].u
             t == req[p].s
  <2>1. CASE Doing(p, "addMember", "asked") /\ Commits(p, AddMemberAllowed(db, t, u), AddMember(db, t, u))
    <3>1. req[p] # None /\ req[p].kind = "addMember"
      BY <2>1 DEF Doing
    <3>2. t \in Trips
      BY <3>1 DEF IInv, RequestOk
    <3>3. AddMemberAllowed(db, t, u) => Leads(db, AddMember(db, t, u), Held)
      BY <1>0, <3>2, ChangeMemberLeads
    <3> QED
      BY <2>1, <3>1, <3>3, CommitsIsOrdinary
  <2>2. CASE Doing(p, "removeMember", "asked") /\ Commits(p, TRUE, RemoveMember(db, t, u))
    <3>1. req[p] # None /\ req[p].kind = "removeMember"
      BY <2>2 DEF Doing
    <3>2. Leads(db, RemoveMember(db, t, u), Held)
      BY <1>0, ChangeMemberLeads
    <3> QED
      BY <2>2, <3>1, <3>2, CommitsIsOrdinary
  <2> QED
    BY <1>9, <2>1, <2>2 DEF ChangeMember
<1>10. CASE AskDeleteTrip(p)
  BY <1>10, AskIsOrdinary DEF AskDeleteTrip
<1>11. CASE DeleteTrip(p)
  <2>1. req[p] # None /\ req[p].kind = "deleteTrip"
    BY <1>11 DEF DeleteTrip, Doing
  <2>2. Leads(db, DeleteTrips(db, {req[p].s}), Held)
    BY <1>0, DeleteTripsLeads
  <2> QED
    BY <1>11, <2>1, <2>2, CommitsIsOrdinary DEF DeleteTrip
<1> QED
  BY <1>1, <1>2, <1>3, <1>4, <1>5, <1>6, <1>7, <1>8, <1>9, <1>10, <1>11 DEF Sharing
-----------------------------------------------------------------------------
(* Administrators come and go one at a time, under the lock.               *)
Governs(p) ==
    /\ req[p] # None /\ req[p].at = "locked"
    /\ req' = [req EXCEPT ![p] = None] /\ store' = store /\ calm' = calm
    /\ Sound(db') /\ Chiefs(db'.users) # {} /\ UsersKnown(db.users, db'.users)
    /\ SessionsGo(db.sessions, db'.sessions)
    /\ \/ Keeps(db.users, db'.users)
       \/ Doing(p, "deleteMe", "locked") /\ Rows(db'.users) = Rows(db.users) \ {req[p].u}

LEMMA AnotherIsCounted ==
    ASSUME NEW d, Sound(d), NEW u \in Rows(d.users)
    PROVE  /\ \A change \in {"demote", "deactivate"} :
                UpdateAllowed(d, u, change) => AnotherThan(d.users, u)
           /\ DeleteAllowed(d, u) /\ u \in Chiefs(d.users) => AnotherThan(d.users, u)
<1>1. u \in UserIds /\ d.users[u] \in UserRow /\ d.users \in Users /\ IsDb(d)
  BY UserRows DEF Sound, UsersOk
<1>2. ASSUME NEW change \in {"demote", "deactivate"}, UpdateAllowed(d, u, change)
      PROVE  AnotherThan(d.users, u)
  <2> DEFINE row == Changed(d.users[u], change)
             vs == [d.users EXCEPT ![u] = row]
             e == [d EXCEPT !.users = vs]
  <2>1. row \in UserRow /\ ~IsAdministrator(row)
    <3>1. CASE change = "demote"
      <4>1. row = [d.users[u] EXCEPT !.admin = FALSE]
        BY <3>1 DEF Changed
      <4> QED
        BY <1>1, <4>1 DEF UserRow, IsAdministrator
    <3>2. CASE change = "deactivate"
      <4>1. row = [d.users[u] EXCEPT !.active = FALSE]
        BY <3>2 DEF Changed
      <4> QED
        BY <1>1, <4>1 DEF UserRow, IsAdministrator
    <3> QED
      BY <3>1, <3>2
  <2>2. [d EXCEPT !.users[u] = Changed(@, change)] = e
    OBVIOUS
  <2> HIDE DEF row
  <2>3. e.users = vs
    BY <1>1 DEF IsDb
  <2> HIDE DEF e
  <2>4. PICK v \in Rows(vs) : IsAdministrator(vs[v])
    BY <1>2, <2>2, <2>3 DEF UpdateAllowed, Administrators
  <2>5. vs[u] = row /\ \A w \in UserIds \ {u} : vs[w] = d.users[w]
    BY <1>1 DEF Users
  <2>6. v # u
    BY <2>1, <2>4, <2>5
  <2>7. v \in UserIds
    BY <1>1, <2>4 DEF Rows, Users
  <2>8. v \in Chiefs(d.users)
    BY <1>1, <2>4, <2>5, <2>6, <2>7 DEF Chiefs, Rows, Users
  <2> QED
    BY <2>6, <2>8 DEF AnotherThan
<1>3. ASSUME DeleteAllowed(d, u), u \in Chiefs(d.users)
      PROVE  AnotherThan(d.users, u)
  BY <1>3 DEF DeleteAllowed, Chiefs, Administrators, AnotherThan
<1> QED
  BY <1>2, <1>3

LEMMA CountIsOrdinary ==
    ASSUME IInv, NEW p \in Requests, CountAdministrators(p)
    PROVE  Ordinary
<1> DEFINE old == req[p]
           counted == old.u \in Rows(db.users) /\ StaysAdministered(p)
<1>1. old # None /\ old.kind \in {"update", "deleteMe"} /\ RequestOk(old, db.users)
  BY DEF CountAdministrators, Doing, IInv
<1>2. CASE ~counted
  <2>1. Commits(p, FALSE, db)
    BY <1>2 DEF CountAdministrators
  <2> QED
    BY <1>1, <2>1, CommitsIsOrdinary
<1>3. CASE counted
  <2> DEFINE r == [old EXCEPT !.at = "locked"]
  <2>1. req' = [req EXCEPT ![p] = r] /\ db' = db /\ store' = store /\ calm' = calm
    BY <1>3 DEF CountAdministrators, Goes
  <2>2. old = [kind |-> old.kind, at |-> old.at, u |-> old.u, s |-> old.s, n |-> old.n, heard |-> old.heard]
    BY <1>1 DEF RequestOk
  <2>3. r = [kind |-> old.kind, at |-> "locked", u |-> old.u, s |-> old.s, n |-> old.n, heard |-> old.heard]
    BY <2>2
  <2> HIDE DEF r
  <2>4. r.kind = old.kind /\ r.at = "locked" /\ r.u = old.u /\ r.s = old.s /\ r.n = old.n /\ r.heard = old.heard
    BY <2>3
  <2>5. r = [kind |-> r.kind, at |-> r.at, u |-> r.u, s |-> r.s, n |-> r.n, heard |-> r.heard]
    BY <2>3, <2>4
  <2>6. old.kind = "update" /\ old.n \in {"demote", "deactivate"} => AnotherThan(db.users, old.u)
    BY <1>3, InvIsSound, AnotherIsCounted DEF StaysAdministered
  <2>7. old.kind = "deleteMe" /\ old.u \in Chiefs(db.users) => AnotherThan(db.users, old.u)
    BY <1>3, InvIsSound, AnotherIsCounted DEF StaysAdministered
  <2>8. RequestOk(r, db.users)
    BY <1>1, <1>3, <2>4, <2>5, <2>6, <2>7 DEF RequestOk
  <2>9. lockAdministrators(p)
    BY DEF CountAdministrators
  <2>10. ReqMoves /\ req'[p] = r /\ \A q \in Requests \ {p} : req'[q] = req[q]
    BY <2>1, <2>8, <2>9, OneMoves DEF IInv
  <2>11. Leads(db, db', Held)
    BY <2>1, InvIsSound, LeadsNowhere
  <2>12. \A q \in Requests : Browsing(req[q]) \/ Browsing(req'[q]) => req'[q] = req[q]
    BY <1>1, <2>4, <2>10 DEF Browsing
  <2> QED
    BY <2>1, <2>10, <2>11, <2>12 DEF Ordinary
<1> QED
  BY <1>2, <1>3

LEMMA AdministeringGoes ==
    ASSUME IInv, NEW p \in Requests, Administering(p)
    PROVE  Ordinary \/ Governs(p)
<1>0. Sound(db) /\ Chiefs(db.users) # {}
  BY InvIsSound
<1>1. CASE AskUpdateUser(p)
  BY <1>1, AskIsOrdinary DEF AskUpdateUser
<1>2. CASE AskDeleteMe(p)
  BY <1>2, AskIsOrdinary DEF AskDeleteMe
<1>3. CASE CountAdministrators(p)
  BY <1>3, CountIsOrdinary
<1>4. CASE UpdateUser(p)
  <2> DEFINE u == req[p].u
             change == req[p].n
  <2>1. req[p] # None /\ req[p].kind = "update" /\ req[p].at = "locked" /\ RequestOk(req[p], db.users)
    BY <1>4 DEF UpdateUser, Doing, IInv
  <2>2. /\ req' = [req EXCEPT ![p] = None] /\ store' = store /\ calm' = calm
        /\ db' = Update(db, u, change)
    BY <1>4 DEF UpdateUser, Commits
  <2>3. u \in Rows(db.users) /\ change \in {"promote", "demote", "activate", "deactivate"}
        /\ (change \in {"demote", "deactivate"} => \E v \in Chiefs(db.users) : v # u)
    BY <2>1 DEF RequestOk, AnotherThan
  <2> HIDE DEF u, change
  <2>4. LET e == Update(db, u, change) IN
        /\ Sound(e) /\ Chiefs(e.users) # {} /\ UsersKnown(db.users, e.users)
        /\ Keeps(db.users, e.users) /\ SessionsGo(db.sessions, e.sessions)
    BY ONLY <1>0, <2>3, UpdateIsSound
  <2> QED
    BY <2>1, <2>2, <2>4 DEF Governs
<1>5. CASE DeleteMe(p)
  <2> DEFINE u == req[p].u
             allowed == u \in Rows(db.users) /\ AcceptanceNamed(DeleteUser(db, u))
  <2>1. req[p] # None /\ req[p].kind = "deleteMe" /\ req[p].at = "locked" /\ RequestOk(req[p], db.users)
        /\ Doing(p, "deleteMe", "locked")
    BY <1>5 DEF DeleteMe, Doing, IInv
  <2>2. CASE ~allowed
    <3>1. Commits(p, allowed, DeleteUser(db, u))
      BY <1>5 DEF DeleteMe
    <3> HIDE DEF allowed
    <3> QED
      BY <2>1, <2>2, <3>1, CommitsIsOrdinary
  <2>3. CASE allowed
    <3>1. /\ req' = [req EXCEPT ![p] = None] /\ store' = store /\ calm' = calm
          /\ db' = DeleteUser(db, u)
      BY <1>5, <2>3 DEF DeleteMe, Commits
    <3>2. u \in Rows(db.users) /\ (u \in Chiefs(db.users) => \E v \in Chiefs(db.users) : v # u)
      BY <2>1, <2>3 DEF RequestOk, AnotherThan
    <3> HIDE DEF u, allowed
    <3>3. LET e == DeleteUser(db, u) IN
          /\ Sound(e) /\ SessionsGo(db.sessions, e.sessions)
          /\ Rows(e.users) = Rows(db.users) \ {u}
          /\ \A v \in Rows(db.users) \ {u} : e.users[v] = db.users[v]
          /\ UsersKnown(db.users, e.users)
      BY ONLY <1>0, <3>2, DeleteUserIsSound
    <3>4. Chiefs(db'.users) # {}
      BY <1>0, <3>1, <3>2, <3>3, AnotherChiefStays
    <3>5. Governs(p)
      BY <2>1, <3>1, <3>3, <3>4 DEF Governs, u
    <3> QED
      BY <3>5
  <2> QED
    BY <2>2, <2>3
<1>6. CASE AskCreateUser(p)
  BY <1>6, AskIsOrdinary DEF AskCreateUser
<1>7. CASE CreateUserByAdmin(p)
  <2> DEFINE row == NewUser(req[p].n, FALSE, TRUE, FALSE)
  <2>1. req[p] # None /\ req[p].kind = "createUser" /\ HasRoom(db.users)
    BY <1>7 DEF CreateUserByAdmin, Doing
  <2>2. req[p].n \in Addresses
    BY <2>1 DEF IInv, RequestOk
  <2>3. row \in UserRow /\ (row.unverified => ~row.active)
    BY <2>2, NewUserIsSound DEF NewUser
  <2> HIDE DEF row
  <2>4. Leads(db, CreateUser(db, row), Held)
    BY <1>0, <2>1, <2>3, CreateUserLeads
  <2> QED
    BY <1>7, <2>1, <2>4, CommitsIsOrdinary DEF CreateUserByAdmin, row
<1> QED
  BY <1>1, <1>2, <1>3, <1>4, <1>5, <1>6, <1>7 DEF Administering

(* The steps that are no request's.                                        *)
LEMMA ConfirmIsOrdinary ==
    ASSUME IInv, ConfirmEmail
    PROVE  Ordinary
<1>0. Sound(db)
  BY InvIsSound
<1>1. req' = req /\ store' = store /\ calm' = calm
  BY DEF ConfirmEmail
<1>2. PICK u \in Rows(db.codes) :
         \/ \E message \in 1 .. db.codes[u].message : ConfirmByTokenAllowed(db, u, message) /\ Confirms(u)
         \/ ConfirmByCodeOpen(db, u) /\ db.users[u].unverified /\ Confirms(u)
         \/ ConfirmByCodeOpen(db, u) /\ db' = CountWrongCode(db, u)
  BY DEF ConfirmEmail
<1>3. u \in UserIds /\ u \in Rows(db.users)
  <2>1. db.codes \in CodeTable
    BY <1>0 DEF Sound, CodesOk
  <2>2. u \in UserIds /\ db.codes[u] # None
    BY <2>1, CodeRows
  <2> QED
    BY <1>0, <2>2, CodesRight
<1>4. CASE ConfirmByCodeOpen(db, u) /\ db' = CountWrongCode(db, u)
  BY <1>0, <1>1, <1>3, <1>4, CountWrongCodeLeads, ServiceIsOrdinary
<1>5. CASE db.users[u].unverified /\ Confirms(u)
  <2>1. db' = activate(db, u) /\ Held \cap {u} = {}
    BY <1>5, UnheldIsFree DEF Confirms
  <2>2. Leads(db, activate(db, u), Held)
    BY <1>0, <1>3, <1>5, <2>1, ActivateLeads
  <2> QED
    BY <1>1, <2>1, <2>2, ServiceIsOrdinary
<1> QED
  BY <1>2, <1>4, <1>5 DEF ConfirmByTokenAllowed

LEMMA WithdrawIsOrdinary ==
    ASSUME IInv, WithdrawInvitation
    PROVE  Ordinary
<1>1. Leads(db, db', Held)
  BY InvIsSound, RevokeUserInvitationLeads, RevokeTripInvitationLeads DEF WithdrawInvitation
<1> QED
  BY <1>1, ServiceIsOrdinary DEF WithdrawInvitation

LEMMA TimeIsOrdinary ==
    ASSUME IInv, TimePasses
    PROVE  Ordinary
<1>0. Sound(db)
  BY InvIsSound
<1>1. Leads(db, db', Held)
  <2>1. CASE \E s \in Rows(db.sessions) : db' = [db EXCEPT !.sessions[s].expired = TRUE]
    BY <1>0, <2>1, ExpiredLeads
  <2>2. CASE \E i \in Rows(db.resets) : db' = [db EXCEPT !.resets[i].expired = TRUE]
    BY <1>0, <2>2, ResetExpires
  <2>3. CASE \E i \in Rows(db.invites) : db' = [db EXCEPT !.invites[i].expired = TRUE]
    BY <1>0, <2>3, InviteExpires
  <2>4. CASE \E i \in Rows(db.tripInvites) : db' = [db EXCEPT !.tripInvites[i].expired = TRUE]
    BY <1>0, <2>4, TripInviteExpires
  <2>5. CASE \E u \in Rows(db.users) :
               /\ db.codes[u] # None
               /\ db' \in {[db EXCEPT !.codes[u].recent = FALSE],
                           [db EXCEPT !.codes[u].recent = FALSE, !.codes[u].expired = TRUE]}
    <3>1. PICK u \in Rows(db.users) :
               /\ db.codes[u] # None
               /\ db' \in {[db EXCEPT !.codes[u].recent = FALSE],
                           [db EXCEPT !.codes[u].recent = FALSE, !.codes[u].expired = TRUE]}
      BY <2>5
    <3>2. /\ Leads(db, [db EXCEPT !.codes[u].recent = FALSE], Held)
          /\ Leads(db, [db EXCEPT !.codes[u].recent = FALSE, !.codes[u].expired = TRUE], Held)
      BY <1>0, <3>1, CodeGrowsOld
    <3> QED
      BY <3>1, <3>2
  <2>6. CASE \E u \in Rows(db.users) : db.users[u].unverified /\ db' = [db EXCEPT !.users[u].old = TRUE]
    BY <1>0, <2>6, UserGrowsOld
  <2> QED
    BY <2>1, <2>2, <2>3, <2>4, <2>5, <2>6 DEF TimePasses
<1> QED
  BY <1>1, ServiceIsOrdinary DEF TimePasses

LEMMA SweepIsOrdinary ==
    ASSUME IInv, Sweep
    PROVE  Ordinary
<1>0. Sound(db)
  BY InvIsSound
<1>1. Leads(db, db', Held)
  <2>1. CASE \E ended \in SUBSET Rows(db.sessions) : db' = DeleteFinished(db, ended)
    BY <1>0, <2>1, DeleteFinishedLeads
  <2>2. CASE /\ Unheld({u \in Rows(db.users) : db.users[u].unverified})
             /\ db' = PurgeUnverified(db)
    BY <1>0, <2>2, UnheldIsFree, PurgeUnverifiedLeads
  <2> QED
    BY <2>1, <2>2 DEF Sweep
<1> QED
  BY <1>1, ServiceIsOrdinary DEF Sweep
-----------------------------------------------------------------------------
(* Sessions that are opened, kept by a new password or ended.              *)
SignsIn(p) ==
    \/ Credentials(p) \/ Login(p) \/ AskRevokeSession(p) \/ RevokeSession(p)
    \/ AskChangePassword(p) \/ ChangePassword(p)

LEMMA SignsInIsOrdinary ==
    ASSUME IInv, NEW p \in Requests, SignsIn(p)
    PROVE  Ordinary
<1>0. Sound(db)
  BY InvIsSound
<1>1. CASE Credentials(p)
  <2>1. PICK u \in Rows(db.users) : db.users[u].active /\ Ask(p, "login", "asked", u, None, db.users[u].pw)
    BY <1>1 DEF Credentials
  <2>2. db.users[u].pw \in Nat
    BY <1>0, UserRows DEF Sound, UsersOk, UserRow
  <2> QED
    BY <2>1, <2>2, AskIsOrdinary
<1>2. CASE Login(p)
  <2> DEFINE u == req[p].u
             now == db.users[u]
             late == now.pw # req[p].n \/ ~now.active
             e == CreateSession(db, u, req[p].n, late)
  <2>1. req[p] # None /\ req[p].kind = "login" /\ HasRoom(db.sessions)
    BY <1>2 DEF Login, Doing
  <2>2. req[p].n \in Nat
    BY <2>1 DEF IInv, RequestOk
  <2>3. late \in BOOLEAN /\ (~late => now.active /\ now.pw = req[p].n)
    OBVIOUS
  <2>4. Commits(p, u \in Rows(db.users), e)
    BY <1>2 DEF Login
  <2> HIDE DEF late
  <2>5. u \in Rows(db.users) => Leads(db, CreateSession(db, u, req[p].n, late), Held)
    BY <1>0, <2>1, <2>2, <2>3, CreateSessionLeads
  <2> QED
    BY <2>1, <2>4, <2>5, CommitsIsOrdinary
<1>3. CASE AskRevokeSession(p)
  BY <1>3, AskIsOrdinary DEF AskRevokeSession
<1>4. CASE RevokeSession(p)
  <2>1. req[p] # None /\ req[p].kind = "revokeSession"
    BY <1>4 DEF RevokeSession, Doing
  <2> QED
    BY <1>0, <1>4, <2>1, RevokeLeads, CommitsIsOrdinary DEF RevokeSession
<1>5. CASE AskChangePassword(p)
  BY <1>5, AskIsOrdinary DEF AskChangePassword
<1>6. CASE ChangePassword(p)
  <2>1. req[p] # None /\ req[p].kind = "changePassword"
    BY <1>6 DEF ChangePassword, Doing
  <2>2. req[p].u \in Rows(db.users) => Leads(db, SetOwnPassword(db, req[p].u, req[p].s), Held)
    BY <1>0, SetOwnPasswordLeads
  <2> QED
    BY <1>6, <2>1, <2>2, CommitsIsOrdinary DEF ChangePassword
<1> QED
  BY <1>1, <1>2, <1>3, <1>4, <1>5, <1>6 DEF SignsIn

(* The steps of a browser, and how they write the database and the requests. *)
Browses(p) ==
    \/ exchangeRefreshToken(p) \/ RefreshGetByHash(p) \/ RefreshActiveUser(p) \/ RefreshRotate(p)
    \/ Replayed(p) \/ RevokeReplayed(p) \/ RefreshGranted(p) \/ RefreshRefused(p)
    \/ RefreshGivenUp(p) \/ logout(p) \/ LogoutGetByHash(p) \/ Logout(p)

LEMMA SessionsSplit == \A p : Sessions(p) <=> SignsIn(p) \/ Browses(p)
BY DEF Sessions, SignsIn, Browses

(* The request of p becomes r.                                             *)
Turns(p, r) ==
    /\ req' = [req EXCEPT ![p] = r]
    /\ r = None \/ (RequestOk(r, db.users) /\ r.at # "locked")

LEMMA TurnsMoves ==
    ASSUME IInv, NEW p \in Requests, NEW r, Turns(p, r), db'.users = db.users
    PROVE  ReqMoves /\ req'[p] = r /\ \A q \in Requests \ {p} : req'[q] = req[q]
BY OneMoves DEF IInv, Turns

LEMMA GoesTurns ==
    ASSUME IInv, NEW p \in Requests, req[p] # None, NEW at, at # "locked"
    PROVE  LET r == [req[p] EXCEPT !.at = at] IN
           /\ RequestOk(r, db.users) /\ r.kind = req[p].kind /\ r.at = at /\ r.u = req[p].u
           /\ r.s = req[p].s /\ r.n = req[p].n /\ r.heard = req[p].heard
<1>1. RequestOk(req[p], db.users)
  BY DEF IInv
<1> QED
  BY <1>1, GoesOn

LEMMA AskTurns ==
    ASSUME NEW kind \in {"refresh", "logout"}, NEW u, NEW s, NEW n
    PROVE  LET r == [kind |-> kind, at |-> "asked", u |-> u, s |-> s, n |-> n, heard |-> TRUE] IN
           RequestOk(r, db.users) /\ r.at # "locked"
<1> DEFINE r == [kind |-> kind, at |-> "asked", u |-> u, s |-> s, n |-> n, heard |-> TRUE]
<1>1. r.kind = kind /\ r.at = "asked" /\ r.u = u /\ r.s = s /\ r.n = n /\ r.heard = TRUE
  OBVIOUS
<1>2. r = [kind |-> r.kind, at |-> r.at, u |-> r.u, s |-> r.s, n |-> r.n, heard |-> r.heard]
  OBVIOUS
<1> HIDE DEF r
<1>3. RequestOk(r, db.users)
  BY <1>1, <1>2 DEF RequestOk
<1> QED
  BY <1>1, <1>3 DEF r

LEMMA RequestParts ==
    ASSUME NEW r, r = [kind |-> r.kind, at |-> r.at, u |-> r.u, s |-> r.s, n |-> r.n, heard |-> r.heard],
           NEW x
    PROVE  /\ [r EXCEPT !.heard = x]
                = [kind |-> r.kind, at |-> r.at, u |-> r.u, s |-> r.s, n |-> r.n, heard |-> x]
           /\ [r EXCEPT !.at = x]
                = [kind |-> r.kind, at |-> x, u |-> r.u, s |-> r.s, n |-> r.n, heard |-> r.heard]
           /\ [r EXCEPT !.s = x]
                = [kind |-> r.kind, at |-> r.at, u |-> r.u, s |-> x, n |-> r.n, heard |-> r.heard]
           /\ [r EXCEPT !.n = x]
                = [kind |-> r.kind, at |-> r.at, u |-> r.u, s |-> r.s, n |-> x, heard |-> r.heard]
OBVIOUS

(* Asked again with the token another tab has stored.                      *)
Again(r, s, n) == [r EXCEPT !.at = "asked", !.s = s, !.n = n]

LEMMA AgainTurns ==
    ASSUME IInv, NEW p \in Requests, req[p] # None, req[p].kind = "refresh", NEW s, NEW n
    PROVE  LET r == Again(req[p], s, n) IN
           /\ RequestOk(r, db.users) /\ r.kind = "refresh" /\ r.at = "asked"
           /\ r.u = req[p].u /\ r.s = s /\ r.n = n /\ r.heard = req[p].heard
<1> DEFINE old == req[p]
           r == Again(old, s, n)
<1>1. old = [kind |-> old.kind, at |-> old.at, u |-> old.u, s |-> old.s, n |-> old.n, heard |-> old.heard]
  BY DEF IInv, RequestOk
<1> HIDE DEF old
<1>2. r = [kind |-> old.kind, at |-> "asked", u |-> old.u, s |-> s, n |-> n, heard |-> old.heard]
  <2> DEFINE one == [old EXCEPT !.at = "asked"]
             two == [one EXCEPT !.s = s]
             three == [two EXCEPT !.n = n]
  <2>1. r = three
    BY DEF Again
  <2>2. one = [kind |-> old.kind, at |-> "asked", u |-> old.u, s |-> old.s, n |-> old.n, heard |-> old.heard]
    BY <1>1, RequestParts
  <2> HIDE DEF one
  <2>5. one = [kind |-> one.kind, at |-> one.at, u |-> one.u, s |-> one.s, n |-> one.n, heard |-> one.heard]
        /\ one.kind = old.kind /\ one.at = "asked" /\ one.u = old.u /\ one.n = old.n /\ one.heard = old.heard
    BY ONLY <2>2
  <2>3. two = [kind |-> old.kind, at |-> "asked", u |-> old.u, s |-> s, n |-> old.n, heard |-> old.heard]
    BY <2>5, RequestParts
  <2> HIDE DEF two
  <2>6. two = [kind |-> two.kind, at |-> two.at, u |-> two.u, s |-> two.s, n |-> two.n, heard |-> two.heard]
        /\ two.kind = old.kind /\ two.at = "asked" /\ two.u = old.u /\ two.s = s /\ two.heard = old.heard
    BY ONLY <2>3
  <2>4. three = [kind |-> old.kind, at |-> "asked", u |-> old.u, s |-> s, n |-> n, heard |-> old.heard]
    BY <2>6, RequestParts
  <2> QED
    BY <2>1, <2>4
<1> HIDE DEF r
<1>3. r.kind = old.kind /\ r.at = "asked" /\ r.u = old.u /\ r.s = s /\ r.n = n /\ r.heard = old.heard
  BY <1>2
<1>4. r = [kind |-> r.kind, at |-> r.at, u |-> r.u, s |-> r.s, n |-> r.n, heard |-> r.heard]
  BY <1>2, <1>3
<1>5. RequestOk(r, db.users)
  BY <1>3, <1>4 DEF RequestOk, old
<1> QED
  BY <1>3, <1>5 DEF r, old

LEMMA HushedTurns ==
    ASSUME IInv, NEW p \in Requests, req[p] # None, req[p].kind = "refresh"
    PROVE  LET r == [req[p] EXCEPT !.heard = FALSE] IN
           /\ RequestOk(r, db.users) /\ (r.at = "locked" <=> req[p].at = "locked")
           /\ r.kind = "refresh"
<1> DEFINE old == req[p]
           r == [old EXCEPT !.heard = FALSE]
<1>1. old = [kind |-> old.kind, at |-> old.at, u |-> old.u, s |-> old.s, n |-> old.n, heard |-> old.heard]
  BY DEF IInv, RequestOk
<1>2. RequestOk(old, db.users)
  BY DEF IInv
<1> HIDE DEF old
<1>3. r = [kind |-> old.kind, at |-> old.at, u |-> old.u, s |-> old.s, n |-> old.n, heard |-> FALSE]
  BY <1>1, RequestParts
<1> HIDE DEF r
<1>4. r.kind = old.kind /\ r.at = old.at /\ r.u = old.u /\ r.s = old.s /\ r.n = old.n /\ r.heard = FALSE
  BY <1>3
<1>5. r = [kind |-> r.kind, at |-> r.at, u |-> r.u, s |-> r.s, n |-> r.n, heard |-> r.heard]
  BY <1>3, <1>4
<1>6. RequestOk(r, db.users)
  BY <1>2, <1>4, <1>5 DEF RequestOk
<1> QED
  BY <1>4, <1>6 DEF r, old

LEMMA BrowsesKeepsInv ==
    ASSUME IInv, NEW p \in Requests, Browses(p)
    PROVE  ReqMoves /\ Sound(db') /\ db'.users = db.users /\ (Browsing(req[p]) \/ req[p] = None)
           /\ \A q \in Requests \ {p} : req'[q] = req[q]
<1>0. Sound(db)
  BY InvIsSound
<1> SUFFICES \E r : /\ Turns(p, r) /\ Sound(db') /\ db'.users = db.users
                    /\ Browsing(req[p]) \/ req[p] = None
  BY TurnsMoves
<1>1. CASE exchangeRefreshToken(p)
  <2> DEFINE r == [kind |-> "refresh", at |-> "asked", u |-> None, s |-> store[1], n |-> store[2],
                   heard |-> TRUE]
  <2>1. req' = [req EXCEPT ![p] = r] /\ db' = db /\ req[p] = None
    BY <1>1 DEF exchangeRefreshToken, Ask
  <2>2. RequestOk(r, db.users) /\ r.at # "locked"
    BY AskTurns
  <2> HIDE DEF r
  <2> QED
    BY <1>0, <2>1, <2>2 DEF Turns
<1>2. ASSUME NEW at, at # "locked", Goes(p, at), req[p] # None, req[p].kind \in {"refresh", "logout"}
      PROVE  \E r : /\ Turns(p, r) /\ Sound(db') /\ db'.users = db.users
                    /\ Browsing(req[p]) \/ req[p] = None
  <2> DEFINE r == [req[p] EXCEPT !.at = at]
  <2>1. req' = [req EXCEPT ![p] = r] /\ db' = db
    BY <1>2 DEF Goes
  <2>2. RequestOk(r, db.users) /\ r.at # "locked"
    BY <1>2, GoesTurns
  <2> HIDE DEF r
  <2> QED
    BY <1>0, <1>2, <2>1, <2>2 DEF Turns, Browsing
<1>3. CASE RefreshGetByHash(p)
  <2>1. req[p] # None /\ req[p].kind = "refresh"
    BY <1>3 DEF RefreshGetByHash, Doing
  <2>2. PICK at \in {"unknown", "usable", "refused"} : Goes(p, at)
    BY <1>3 DEF RefreshGetByHash
  <2> QED
    BY <1>2, <2>1, <2>2
<1>4. CASE RefreshActiveUser(p)
  <2>1. req[p] # None /\ req[p].kind = "refresh"
    BY <1>4 DEF RefreshActiveUser, Doing
  <2>2. PICK at \in {"active", "refused"} : Goes(p, at)
    BY <1>4 DEF RefreshActiveUser
  <2> QED
    BY <1>2, <2>1, <2>2
<1>5. CASE RefreshRotate(p)
  <2>1. req[p] # None /\ req[p].kind = "refresh"
    BY <1>5 DEF RefreshRotate, Doing
  <2> DEFINE rotates == RotateAllowed(db, req[p].s, req[p].n)
             at == IF rotates THEN "granted" ELSE "refused"
             r == [req[p] EXCEPT !.at = at]
  <2>2. req' = [req EXCEPT ![p] = r]
    BY <1>5 DEF RefreshRotate
  <2>3. at # "locked"
    OBVIOUS
  <2> HIDE DEF at
  <2>4. RequestOk(r, db.users) /\ r.at # "locked"
    BY <2>1, <2>3, GoesTurns
  <2> HIDE DEF r
  <2>5. Sound(db') /\ db'.users = db.users
    BY <1>0, <1>5, RotateIsSound DEF RefreshRotate
  <2> QED
    BY <2>1, <2>2, <2>4, <2>5 DEF Turns, Browsing
<1>6. CASE Replayed(p)
  <2>1. req[p] # None /\ req[p].kind = "refresh"
    BY <1>6 DEF Replayed, Doing
  <2>2. PICK at \in {"replayed", "refused"} : Goes(p, at)
    BY <1>6 DEF Replayed
  <2> QED
    BY <1>2, <2>1, <2>2
<1>7. CASE RevokeReplayed(p)
  <2>1. req[p] # None /\ req[p].kind = "refresh"
    BY <1>7 DEF RevokeReplayed, Doing
  <2> DEFINE r == [req[p] EXCEPT !.at = "refused"]
  <2>2. req' = [req EXCEPT ![p] = r] /\ db' = Revoke(db, req[p].s, "replay")
    BY <1>7 DEF RevokeReplayed
  <2>3. RequestOk(r, db.users) /\ r.at # "locked"
    BY <2>1, GoesTurns
  <2> HIDE DEF r
  <2>4. Sound(db') /\ db'.users = db.users
    BY <1>0, <2>2, RevokeIsSound
  <2> QED
    BY <2>1, <2>2, <2>3, <2>4 DEF Turns, Browsing
<1>8. CASE RefreshGranted(p)
  <2>1. req[p] # None /\ req[p].kind = "refresh"
    BY <1>8 DEF RefreshGranted, Doing
  <2> QED
    BY <1>0, <1>8, <2>1 DEF RefreshGranted, Turns, Browsing
<1>9. CASE RefreshRefused(p)
  <2>1. req[p] # None /\ req[p].kind = "refresh"
    BY <1>9 DEF RefreshRefused, Doing
  <2> DEFINE r == Again(req[p], store[1], store[2])
  <2>2. db' = db /\ (req' = [req EXCEPT ![p] = r] \/ req' = [req EXCEPT ![p] = None])
    BY <1>9 DEF RefreshRefused, Again
  <2>3. RequestOk(r, db.users) /\ r.at # "locked"
    <3>1. RequestOk(r, db.users) /\ r.at = "asked"
      BY <2>1, AgainTurns
    <3> HIDE DEF r
    <3> QED
      BY <3>1
  <2> HIDE DEF r
  <2> QED
    BY <1>0, <2>1, <2>2, <2>3 DEF Turns, Browsing
<1>10. CASE RefreshGivenUp(p)
  <2>1. req[p] # None /\ req[p].kind = "refresh"
    BY <1>10 DEF RefreshGivenUp, Refreshing
  <2> DEFINE r == [req[p] EXCEPT !.heard = FALSE]
  <2>2. req' = [req EXCEPT ![p] = r] /\ db' = db
    BY <1>10 DEF RefreshGivenUp
  <2>3. RequestOk(r, db.users) /\ r.kind = "refresh"
    BY <2>1, HushedTurns
  <2> HIDE DEF r
  <2>4. r.at # "locked"
    BY <2>3 DEF RequestOk
  <2> QED
    BY <1>0, <2>1, <2>2, <2>3, <2>4 DEF Turns, Browsing
<1>11. CASE logout(p)
  <2> DEFINE r == [kind |-> "logout", at |-> "asked", u |-> None, s |-> store[1], n |-> store[2],
                   heard |-> TRUE]
  <2>1. req' = [req EXCEPT ![p] = r] /\ db' = db /\ req[p] = None
    BY <1>11 DEF logout
  <2>2. RequestOk(r, db.users) /\ r.at # "locked"
    BY AskTurns
  <2> HIDE DEF r
  <2> QED
    BY <1>0, <2>1, <2>2 DEF Turns
<1>12. CASE LogoutGetByHash(p)
  <2>1. req[p] # None /\ req[p].kind = "logout"
    BY <1>12 DEF LogoutGetByHash, Doing
  <2>2. PICK at \in {"found", "unknown"} : Goes(p, at)
    BY <1>12 DEF LogoutGetByHash
  <2> QED
    BY <1>2, <2>1, <2>2
<1>13. CASE Logout(p)
  <2>1. req[p] # None /\ req[p].kind = "logout"
    BY <1>13 DEF Logout, Doing
  <2>2. req' = [req EXCEPT ![p] = None] /\ (db' = db \/ db' = Revoke(db, req[p].s, "person"))
    BY <1>13 DEF Logout, Commits
  <2>3. Sound(db') /\ db'.users = db.users
    BY <1>0, <2>2, RevokeIsSound
  <2> QED
    BY <2>1, <2>2, <2>3 DEF Turns, Browsing
<1> QED
  BY <1>1, <1>3, <1>4, <1>5, <1>6, <1>7, <1>8, <1>9, <1>10, <1>11, <1>12, <1>13 DEF Browses

LEMMA GraceStep ==
    ASSUME IInv, GracePasses
    PROVE  ReqMoves /\ Sound(db') /\ db'.users = db.users
<1>1. PICK s \in Rows(db.sessions) : db' = [db EXCEPT !.sessions[s].recent = FALSE]
  BY DEF GracePasses
<1>2. Sound(db') /\ db'.users = db.users
  BY <1>1, InvIsSound, GraceIsSound
<1>3. ReqMoves
  BY NobodyMoves DEF GracePasses, IInv
<1> QED
  BY <1>2, <1>3

(* Every step is one of four: an ordinary one, one of a browser, the end   *)
(* of a transaction that held the lock, or the end of reuseGrace.          *)
LEMMA NextIsOneOfFour ==
    ASSUME IInv, Next
    PROVE  Ordinary \/ (\E p \in Requests : Governs(p) \/ Browses(p)) \/ GracePasses
<1>1. ASSUME NEW p \in Requests, Sessions(p)
      PROVE  Ordinary \/ Browses(p)
  BY <1>1, SessionsSplit, SignsInIsOrdinary
<1> QED
  BY <1>1, RecoveryIsOrdinary, JoiningIsOrdinary, AdministeringGoes, SharingIsOrdinary,
     ConfirmIsOrdinary, WithdrawIsOrdinary, TimeIsOrdinary, SweepIsOrdinary DEF Next

LEMMA NextKeepsInv ==
    ASSUME IInv, [Next]_vars
    PROVE  IInv'
<1>1. CASE Ordinary
  BY <1>1, MovesKeepInv DEF Ordinary
<1>2. ASSUME NEW p \in Requests, Governs(p) PROVE IInv'
  BY <1>2, LockedKeepInv DEF Governs
<1>3. ASSUME NEW p \in Requests, Browses(p) PROVE IInv'
  BY <1>3, BrowsesKeepsInv, MovesKeepInv
<1>4. CASE GracePasses
  BY <1>4, GraceStep, MovesKeepInv
<1>5. CASE UNCHANGED vars
  <2>1. db' = db /\ req' = req
    BY <1>5 DEF vars
  <2>2. Leads(db, db', Held) /\ ReqMoves
    BY <2>1, InvIsSound, LeadsNowhere, NobodyMoves DEF IInv
  <2> QED
    BY <2>2, MovesKeepInv
<1> QED
  BY <1>1, <1>2, <1>3, <1>4, <1>5, NextIsOneOfFour

LEMMA InitHasInv == Init => IInv
<1> SUFFICES ASSUME Init PROVE IInv
  OBVIOUS
<1>1. PICK s \in Scenarios : db = s.db /\ store = s.store /\ calm = (s.store # None)
  BY DEF Init
<1>2. Consistent(db)
  BY <1>1, ScenariosAssumption
<1>3. req = [p \in Requests |-> None] /\ \A p \in Requests : req[p] = None
  BY DEF Init
<1> QED
  BY <1>2, <1>3 DEF IInv, IsTable, OneLock

THEOREM InvHolds == Spec => []IInv
BY InitHasInv, NextKeepsInv, PTL DEF Spec
-----------------------------------------------------------------------------
(* However administrators demote, deactivate and delete each other, one    *)
(* who can sign in is left.                                                *)
THEOREM OneCanStillAdminister == Spec => []AnAdministratorRemains
<1>1. IInv => AnAdministratorRemains
  BY DEF IInv, Consistent, AnAdministratorRemains
<1> QED
  BY <1>1, InvHolds, PTL

(* A live session opens an active account by its password of now.          *)
THEOREM SessionsFollowTheAccount == Spec => []LiveSessionsAreCurrent
<1>1. IInv => LiveSessionsAreCurrent
  BY DEF IInv, Consistent, SessionsCurrent, LiveSessionsAreCurrent, IsUsable
<1> QED
  BY <1>1, InvHolds, PTL

(* A link, an invitation or a code is not used twice.                      *)
THEOREM MailsWorkOnce == Spec => []CredentialsWorkOnce
<1>1. IInv => CredentialsWorkOnce
  <2> SUFFICES ASSUME IInv PROVE CredentialsWorkOnce
    OBVIOUS
  <2>0. Sound(db)
    BY InvIsSound
  <2>1. \A i \in Rows(db.resets) : db.resets[i].uses <= 1
    BY <2>0, ResetRowRight DEF ResetRight
  <2>2. ASSUME NEW i \in Rows(db.invites)
        PROVE  db.invites[i].uses <= 1 /\ ~(db.invites[i].accepted /\ db.invites[i].revoked)
    BY <2>0, InviteRowRight DEF InviteRight
  <2>3. ASSUME NEW i \in Rows(db.tripInvites)
        PROVE  db.tripInvites[i].uses <= 1
               /\ ~(db.tripInvites[i].accepted # None /\ db.tripInvites[i].revoked)
    BY <2>0, TripInviteRowRight DEF TripInviteRight
  <2>4. \A u \in UserIds : db.codes[u] # None => db.codes[u].attempts <= MaxVerificationAttempts
    BY <2>0, CodesRight DEF CodeRight
  <2> QED
    BY <2>1, <2>2, <2>3, <2>4 DEF CredentialsWorkOnce
<1> QED
  BY <1>1, InvHolds, PTL

(* Nobody but its owner takes away an account whose address was confirmed. *)
THEOREM OwnersOnlyDelete == Spec => ConfirmedAccountsStay
<1> DEFINE Stays ==
      \A u \in Rows(db.users) :
        ~db.users[u].unverified /\ u \notin Rows(db'.users) =>
          \E p \in Requests : Doing(p, "deleteMe", "locked") /\ req[p].u = u
<1>1. ASSUME IInv, Next PROVE Stays
  <2>1. CASE Ordinary
    BY <2>1 DEF Ordinary, Leads, UsersGo
  <2>2. ASSUME NEW p \in Requests, Governs(p) PROVE Stays
    BY <2>2 DEF Governs, Keeps
  <2>3. ASSUME NEW p \in Requests, Browses(p) PROVE Stays
    BY <1>1, <2>3, BrowsesKeepsInv
  <2>4. CASE GracePasses
    BY <1>1, <2>4, GraceStep
  <2> QED
    BY <1>1, <2>1, <2>2, <2>3, <2>4, NextIsOneOfFour
<1>2. IInv /\ [Next]_vars => [Stays]_vars
  BY <1>1
<1>3. ConfirmedAccountsStay <=> [][Stays]_vars
  BY DEF ConfirmedAccountsStay
<1> HIDE DEF Stays
<1>4. IInv /\ IInv' /\ [Next]_vars => [Stays]_vars
  BY <1>2
<1> QED
  BY <1>3, <1>4, InvHolds, PTL DEF Spec
-----------------------------------------------------------------------------
(* The browser's tabs, the token they share and the one the server knows.  *)
Refreshes(rq, p) == rq[p] # None /\ rq[p].kind = "refresh"
Leaves(rq, p) == rq[p] # None /\ rq[p].kind = "logout"
Granted(rq, p) == Refreshes(rq, p) /\ rq[p].at = "granted"

(* A tab holds the token of now or an older one; a token that was replaced *)
(* moments ago is forgiven, and the one of now is refused only after the   *)
(* session is over.                                                        *)
TabFits(row, rq, r) ==
    /\ r.n <= row.token
    /\ r.n + 1 = row.token => row.recent
    /\ r.n = row.token => (\A q \in Requests : ~Granted(rq, q)) /\ r.at # "unknown"
    /\ r.n = row.token /\ r.at = "refused" => row.revoked # "no" \/ row.expired

(* The token a browser has stored is the server's, or the answer with that *)
(* one is on its way; it has none when the session is over, when the answer *)
(* is on its way or when its owner is signing out.                         *)
TokensFit(row, rq, st) ==
    /\ ~row.late
    /\ \A p \in Requests : Refreshes(rq, p) /\ ~Granted(rq, p) => TabFits(row, rq, rq[p])
    /\ \A p \in Requests : Granted(rq, p) =>
          rq[p].n + 1 = row.token /\ row.recent /\ (st # None => st[2] # row.token)
    /\ \A p, q \in Requests : Granted(rq, p) /\ Granted(rq, q) => p = q
    /\ st # None => \/ st[2] = row.token
                    \/ st[2] + 1 = row.token /\ \E p \in Requests : Granted(rq, p)
    /\ st = None => \/ row.revoked # "no" \/ row.expired
                    \/ \E p \in Requests : Granted(rq, p)
                    \/ \E p \in Requests : Leaves(rq, p) /\ (rq[p].at = "found" \/ (rq[p].at = "asked" /\ rq[p].n = row.token))

TabShaped(r) ==
    /\ r.heard = TRUE /\ r.u = None /\ r.s = BrowserSession /\ r.n \in Nat
    /\ r.at \in {"asked", "usable", "active", "granted", "unknown", "refused"}

Shaped(rq, st) ==
    /\ st # None => st = <<BrowserSession, st[2]>> /\ st[2] \in Nat
    /\ \A p \in Requests : Refreshes(rq, p) => TabShaped(rq[p])
    /\ \A p \in Requests : Leaves(rq, p) =>
          rq[p].heard = TRUE /\ rq[p].u = None /\ rq[p].s = BrowserSession /\ rq[p].n \in Nat
          /\ rq[p].at \in {"asked", "found", "unknown"}

NoneStolen(sessions) ==
    /\ BrowserSession \in SessionIds /\ sessions[BrowserSession] # None
    /\ \A s \in Rows(sessions) : sessions[s].revoked # "replay"

Fits(sessions, rq, st) ==
    /\ NoneStolen(sessions)
    /\ Shaped(rq, st)
    /\ BrowserSession \in Rows(sessions) => TokensFit(sessions[BrowserSession], rq, st)

BrowserInv == calm => Fits(db.sessions, req, store)

(* What is done elsewhere leaves the browser its session, or ends it.      *)
LEMMA ElsewhereFits ==
    ASSUME NEW ss, NEW ts, NEW rq, NEW sq, NEW st, Fits(ss, rq, st), SessionsGo(ss, ts),
           Rows(ts) \subseteq SessionIds,
           \A q \in Requests : Browsing(rq[q]) \/ Browsing(sq[q]) => sq[q] = rq[q]
    PROVE  Fits(ts, sq, st)
<1> DEFINE B == BrowserSession
<1>1. \A p \in Requests : /\ Refreshes(sq, p) <=> Refreshes(rq, p)
                          /\ Leaves(sq, p) <=> Leaves(rq, p)
                          /\ Granted(sq, p) <=> Granted(rq, p)
                          /\ Refreshes(sq, p) \/ Leaves(sq, p) => sq[p] = rq[p]
  BY DEF Refreshes, Leaves, Granted, Browsing
<1>2. NoneStolen(ts)
  <2>1. B \in SessionIds /\ ts[B] # None
    BY DEF Fits, NoneStolen, SessionsGo
  <2>2. ASSUME NEW s \in Rows(ts) PROVE ts[s].revoked # "replay"
    <3>1. SessionsGo(ss, ts)!(s) /\ s \in SessionIds
      BY DEF SessionsGo
    <3> QED
      BY <3>1 DEF Fits, NoneStolen
  <2> QED
    BY <2>1, <2>2 DEF NoneStolen
<1>3. Shaped(sq, st)
  BY <1>1 DEF Fits, Shaped
<1>4. ASSUME B \in Rows(ts) PROVE TokensFit(ts[B], sq, st)
  <2> DEFINE old == ss[B]
             row == ts[B]
  <2>1. B \in Rows(ss) /\ row.token = old.token /\ row.recent = old.recent /\ row.late = old.late
        /\ (old.expired => row.expired)
        /\ (row.revoked = old.revoked \/ (old.revoked = "no" /\ row.revoked = "person"))
    <3>1. B \in SessionIds /\ ss[B] # None
      BY DEF Fits, NoneStolen
    <3>2. SessionsGo(ss, ts)!(B)
      BY <3>1 DEF SessionsGo
    <3> QED
      BY <1>4, <3>1, <3>2
  <2>2. TokensFit(old, rq, st)
    BY <2>1 DEF Fits
  <2> HIDE DEF old, row
  <2>3. old.revoked # "no" \/ old.expired => row.revoked # "no" \/ row.expired
    BY <2>1
  <2>4. ~row.late
    BY <2>1, <2>2 DEF TokensFit
  <2>5. \A p \in Requests : Refreshes(sq, p) /\ ~Granted(sq, p) => TabFits(row, sq, sq[p])
    <3> SUFFICES ASSUME NEW p \in Requests, Refreshes(sq, p), ~Granted(sq, p)
                 PROVE  TabFits(row, sq, sq[p])
      OBVIOUS
    <3>1. TabFits(old, rq, sq[p])
      BY <1>1, <2>2 DEF TokensFit
    <3> QED
      BY <1>1, <2>1, <2>3, <3>1 DEF TabFits
  <2>6. \A p \in Requests : Granted(sq, p) =>
          sq[p].n + 1 = row.token /\ row.recent /\ (st # None => st[2] # row.token)
    <3> SUFFICES ASSUME NEW p \in Requests, Granted(sq, p)
                 PROVE  sq[p].n + 1 = row.token /\ row.recent /\ (st # None => st[2] # row.token)
      OBVIOUS
    <3>1. Granted(rq, p) /\ sq[p] = rq[p]
      BY <1>1 DEF Granted
    <3> QED
      BY <2>1, <2>2, <3>1 DEF TokensFit
  <2>7. \A p, q \in Requests : Granted(sq, p) /\ Granted(sq, q) => p = q
    BY <1>1, <2>2 DEF TokensFit
  <2>8. st # None => \/ st[2] = row.token
                     \/ st[2] + 1 = row.token /\ \E p \in Requests : Granted(sq, p)
    BY <1>1, <2>1, <2>2 DEF TokensFit
  <2>9. st = None => \/ row.revoked # "no" \/ row.expired
                     \/ \E p \in Requests : Granted(sq, p)
                     \/ \E p \in Requests : Leaves(sq, p) /\ (sq[p].at = "found" \/ (sq[p].at = "asked" /\ sq[p].n = row.token))
    BY <1>1, <2>1, <2>2, <2>3 DEF TokensFit
  <2> QED
    BY <2>4, <2>5, <2>6, <2>7, <2>8, <2>9 DEF TokensFit, row
<1> QED
  BY <1>2, <1>3, <1>4 DEF Fits

(* A tab that asks, is looked up or is refused.                            *)
LEMMA TabMovesFits ==
    ASSUME NEW ss, NEW rq, NEW sq, NEW st, Fits(ss, rq, st), NEW p \in Requests, NEW r,
           rq[p] = None \/ (Refreshes(rq, p) /\ ~Granted(rq, p)),
           sq[p] = r, \A q \in Requests \ {p} : sq[q] = rq[q],
           Refreshes(sq, p), r.at # "granted", TabShaped(r),
           BrowserSession \in Rows(ss) => TabFits(ss[BrowserSession], rq, r)
    PROVE  Fits(ss, sq, st)
<1>1. \A q \in Requests : (Granted(sq, q) <=> Granted(rq, q)) /\ (Granted(sq, q) => sq[q] = rq[q])
  BY DEF Granted, Refreshes
<1>2. \A q \in Requests : (Leaves(sq, q) <=> Leaves(rq, q)) /\ (Leaves(sq, q) => sq[q] = rq[q])
  BY DEF Leaves, Refreshes
<1>3. \A q \in Requests \ {p} : Refreshes(sq, q) <=> Refreshes(rq, q)
  BY DEF Refreshes
<1>4. Shaped(sq, st)
  BY <1>2, <1>3 DEF Fits, Shaped
<1>5. ASSUME BrowserSession \in Rows(ss) PROVE TokensFit(ss[BrowserSession], sq, st)
  <2> DEFINE row == ss[BrowserSession]
  <2>1. TokensFit(row, rq, st) /\ TabFits(row, rq, r)
    BY <1>5 DEF Fits
  <2> HIDE DEF row
  <2>2. \A q \in Requests : Refreshes(sq, q) /\ ~Granted(sq, q) => TabFits(row, sq, sq[q])
    <3> SUFFICES ASSUME NEW q \in Requests, Refreshes(sq, q), ~Granted(sq, q)
                 PROVE  TabFits(row, sq, sq[q])
      OBVIOUS
    <3>1. TabFits(row, rq, sq[q])
      BY <1>1, <1>3, <2>1 DEF TokensFit
    <3> QED
      BY <1>1, <3>1 DEF TabFits
  <2>3. /\ \A q \in Requests : Granted(sq, q) =>
              sq[q].n + 1 = row.token /\ row.recent /\ (st # None => st[2] # row.token)
        /\ \A x, q \in Requests : Granted(sq, x) /\ Granted(sq, q) => x = q
    BY <1>1, <2>1 DEF TokensFit
  <2>4. st # None => \/ st[2] = row.token
                     \/ st[2] + 1 = row.token /\ \E q \in Requests : Granted(sq, q)
    BY <1>1, <2>1 DEF TokensFit
  <2>5. st = None => \/ row.revoked # "no" \/ row.expired
                     \/ \E q \in Requests : Granted(sq, q)
                     \/ \E q \in Requests : Leaves(sq, q) /\ (sq[q].at = "found" \/ (sq[q].at = "asked" /\ sq[q].n = row.token))
    BY <1>1, <1>2, <2>1 DEF TokensFit
  <2> QED
    BY <2>1, <2>2, <2>3, <2>4, <2>5 DEF TokensFit, row
<1> QED
  BY <1>4, <1>5 DEF Fits

(* A tab that takes the token the browser has stored.                      *)
LEMMA StoredFits ==
    ASSUME NEW row \in SessionRow, NEW rq, NEW st, st # None, st[2] \in Nat, TokensFit(row, rq, st),
           NEW r, r.n = st[2], r.at = "asked"
    PROVE  TabFits(row, rq, r)
<1>1. row.token \in Nat
  BY DEF SessionRow
<1>2. \/ st[2] = row.token
      \/ st[2] + 1 = row.token /\ \E p \in Requests : Granted(rq, p)
  BY DEF TokensFit
<1>3. \A p \in Requests : Granted(rq, p) => row.recent /\ st[2] # row.token
  BY DEF TokensFit
<1> QED
  BY <1>1, <1>2, <1>3 DEF TabFits

(* What is known of a tab, and of the row its token is looked up in.       *)
LEMMA TabKnown ==
    ASSUME IInv, Fits(db.sessions, req, store), NEW p \in Requests, Refreshes(req, p)
    PROVE  /\ req[p] # None /\ RequestOk(req[p], db.users) /\ TabShaped(req[p])
           /\ BrowserSession \in Rows(db.sessions) =>
                 /\ db.sessions[BrowserSession] \in SessionRow
                 /\ TokensFit(db.sessions[BrowserSession], req, store)
                 /\ ~Granted(req, p) => TabFits(db.sessions[BrowserSession], req, req[p])
<1>1. req[p] # None /\ RequestOk(req[p], db.users) /\ TabShaped(req[p])
  BY DEF IInv, Refreshes, Fits, Shaped
<1>2. ASSUME BrowserSession \in Rows(db.sessions)
      PROVE  db.sessions[BrowserSession] \in SessionRow
  BY <1>2, InvIsSound, RowRight
<1> QED
  BY <1>1, <1>2 DEF Fits, TokensFit

LEMMA BrowserAsks ==
    ASSUME BrowserSession \in SessionIds, NEW r, RequestOk(r, db.users), r.kind \in {"refresh", "logout"},
           r.at \in {"asked", "usable", "active", "granted", "unknown", "refused", "found"},
           r.heard = TRUE, r.u = None, r.s = BrowserSession, r.n \in Nat
    PROVE  r # None
<1>1. r = [kind |-> r.kind, at |-> r.at, u |-> r.u, s |-> r.s, n |-> r.n, heard |-> r.heard]
  BY DEF RequestOk
<1>2. [kind |-> r.kind, at |-> r.at, u |-> r.u, s |-> r.s, n |-> r.n, heard |-> TRUE] \in BrowserRequest
  BY DEF BrowserRequest
<1> QED
  BY <1>1, <1>2, ScenariosAssumption

LEMMA GoesOnFits ==
    ASSUME IInv, Fits(db.sessions, req, store), NEW p \in Requests, Refreshes(req, p), ~Granted(req, p),
           NEW at \in {"usable", "active", "unknown", "refused"},
           db' = db, store' = store, req' = [req EXCEPT ![p] = [req[p] EXCEPT !.at = at]],
           BrowserSession \in Rows(db.sessions) /\ req[p].n = db.sessions[BrowserSession].token =>
              /\ at # "unknown"
              /\ at = "refused" => \/ db.sessions[BrowserSession].revoked # "no"
                                   \/ db.sessions[BrowserSession].expired
    PROVE  Fits(db'.sessions, req', store')
<1> DEFINE r == [req[p] EXCEPT !.at = at]
<1>1. req[p] # None /\ TabShaped(req[p])
  BY TabKnown
<1>2. /\ RequestOk(r, db.users) /\ r.kind = req[p].kind /\ r.at = at
      /\ r.u = req[p].u /\ r.s = req[p].s /\ r.n = req[p].n /\ r.heard = req[p].heard
  BY <1>1, GoesTurns
<1>3. req' = [req EXCEPT ![p] = r]
  OBVIOUS
<1> HIDE DEF r
<1>4. req'[p] = r /\ \A q \in Requests \ {p} : req'[q] = req[q]
  <2>1. Turns(p, r)
    BY <1>2, <1>3 DEF Turns
  <2>2. db'.users = db.users
    OBVIOUS
  <2> QED
    BY ONLY IInv, p \in Requests, <2>1, <2>2, TurnsMoves
<1>5. r # None /\ r.kind = "refresh" /\ TabShaped(r)
  <2>1. r.kind = "refresh" /\ TabShaped(r)
    BY <1>1, <1>2 DEF TabShaped, Refreshes
  <2>2. BrowserSession \in SessionIds
    BY DEF Fits, NoneStolen
  <2> QED
    BY <1>2, <2>1, <2>2, BrowserAsks DEF TabShaped
<1>6. BrowserSession \in Rows(db.sessions) => TabFits(db.sessions[BrowserSession], req, r)
  <2> SUFFICES ASSUME BrowserSession \in Rows(db.sessions)
               PROVE  TabFits(db.sessions[BrowserSession], req, r)
    OBVIOUS
  <2>1. TabFits(db.sessions[BrowserSession], req, req[p])
    BY TabKnown
  <2> QED
    BY <1>2, <2>1 DEF TabFits
<1>7. Fits(db.sessions, req', store)
  <2> DEFINE sq == req'
  <2>1. sq[p] = r /\ (\A q \in Requests \ {p} : sq[q] = req[q]) /\ Refreshes(sq, p)
    BY <1>4, <1>5 DEF Refreshes
  <2> HIDE DEF sq
  <2>2. Fits(db.sessions, sq, store)
    BY <1>2, <1>5, <1>6, <2>1, TabMovesFits
  <2> QED
    BY <2>2 DEF sq
<1> QED
  BY <1>7

(* The lookup, the account and a refusal tell the tab the truth.           *)
LEMMA TabGoesOnFits ==
    ASSUME IInv, Fits(db.sessions, req, store), NEW p \in Requests,
           RefreshGetByHash(p) \/ RefreshActiveUser(p) \/ Replayed(p)
    PROVE  Fits(db'.sessions, req', store')
<1> DEFINE B == BrowserSession
           row == db.sessions[B]
<1>1. Refreshes(req, p) /\ ~Granted(req, p)
  BY DEF RefreshGetByHash, RefreshActiveUser, Replayed, Doing, Refreshes, Granted
<1>2. req[p].s = B /\ req[p].n \in Nat
  BY <1>1, TabKnown DEF TabShaped
<1>3. CASE RefreshGetByHash(p)
  <2>1. PICK at \in {"usable", "unknown", "refused"} :
          /\ Goes(p, at)
          /\ GetByHash(db, B, req[p].n) => at # "unknown" /\ (at = "refused" => ~IsUsable(row))
    BY <1>2, <1>3 DEF RefreshGetByHash
  <2>2. db' = db /\ store' = store /\ req' = [req EXCEPT ![p] = [req[p] EXCEPT !.at = at]]
    BY <2>1 DEF Goes
  <2>3. B \in Rows(db.sessions) /\ req[p].n = row.token =>
              at # "unknown" /\ (at = "refused" => row.revoked # "no" \/ row.expired)
    BY <2>1 DEF GetByHash, IsUsable
  <2> QED
    BY <1>1, <2>2, <2>3, GoesOnFits
<1>4. CASE RefreshActiveUser(p)
  <2>1. PICK at \in {"active", "refused"} : Goes(p, at) /\ (at = "refused" => ~ActiveUser(db, B))
    BY <1>2, <1>4 DEF RefreshActiveUser
  <2>2. db' = db /\ store' = store /\ req' = [req EXCEPT ![p] = [req[p] EXCEPT !.at = at]]
    BY <2>1 DEF Goes
  <2>3. B \in Rows(db.sessions) /\ at = "refused" => row.revoked # "no" \/ row.expired
    <3> SUFFICES ASSUME B \in Rows(db.sessions), at = "refused", row.revoked = "no", ~row.expired
                 PROVE  FALSE
      OBVIOUS
    <3>1. ~row.late
      BY DEF Fits, TokensFit
    <3>2. SessionsCurrent(db.users, db.sessions)
      BY InvIsSound DEF Sound, SessionsOk
    <3>3. db.users[row.user].active
      BY <3>1, <3>2 DEF SessionsCurrent
    <3> QED
      BY <2>1, <3>3 DEF ActiveUser, IsUsable
  <2> QED
    BY <1>1, <2>2, <2>3, GoesOnFits
<1>5. CASE Replayed(p)
  <2> DEFINE stolen == /\ Superseded(db, B, req[p].n)
                       /\ db.sessions[B].revoked = "no"
                       /\ ~db.sessions[B].recent
  <2>1. Goes(p, IF stolen THEN "replayed" ELSE "refused") /\ req[p].at = "unknown"
    BY <1>2, <1>5 DEF Replayed, Doing
  <2>2. B \in Rows(db.sessions) =>
           req[p].n # row.token /\ (req[p].n + 1 = row.token => row.recent)
    BY <1>1, <2>1, TabKnown DEF TabFits
  <2>3. ~stolen
    BY <2>2 DEF Superseded
  <2>4. Goes(p, "refused")
    BY <2>1, <2>3
  <2>5. db' = db /\ store' = store /\ req' = [req EXCEPT ![p] = [req[p] EXCEPT !.at = "refused"]]
    BY <2>4 DEF Goes
  <2> QED
    BY <1>1, <2>2, <2>5, GoesOnFits
<1> QED
  BY <1>3, <1>4, <1>5

LEMMA ExchangeFits ==
    ASSUME IInv, Fits(db.sessions, req, store), NEW p \in Requests, exchangeRefreshToken(p)
    PROVE  Fits(db'.sessions, req', store')
<1> DEFINE r == [kind |-> "refresh", at |-> "asked", u |-> None, s |-> store[1], n |-> store[2],
                 heard |-> TRUE]
<1>1. req' = [req EXCEPT ![p] = r] /\ db' = db /\ store' = store /\ req[p] = None /\ store # None
  BY DEF exchangeRefreshToken, Ask
<1>2. RequestOk(r, db.users) /\ r.at # "locked" /\ r.kind = "refresh" /\ r.at = "asked"
      /\ r.u = None /\ r.s = store[1] /\ r.n = store[2] /\ r.heard = TRUE
  BY AskTurns
<1> HIDE DEF r
<1>3. req'[p] = r /\ \A q \in Requests \ {p} : req'[q] = req[q]
  BY <1>1, <1>2, TurnsMoves DEF Turns
<1>4. store[1] = BrowserSession /\ store[2] \in Nat
  BY <1>1 DEF Fits, Shaped
<1>5. TabShaped(r) /\ r # None
  <2>1. TabShaped(r)
    BY <1>2, <1>4 DEF TabShaped
  <2>2. BrowserSession \in SessionIds
    BY DEF Fits, NoneStolen
  <2> QED
    BY <1>2, <2>1, <2>2, BrowserAsks DEF TabShaped
<1>6. BrowserSession \in Rows(db.sessions) => TabFits(db.sessions[BrowserSession], req, r)
  <2> SUFFICES ASSUME BrowserSession \in Rows(db.sessions)
               PROVE  TabFits(db.sessions[BrowserSession], req, r)
    OBVIOUS
  <2>1. db.sessions[BrowserSession] \in SessionRow /\ TokensFit(db.sessions[BrowserSession], req, store)
    BY InvIsSound, RowRight DEF Fits
  <2> QED
    BY <1>1, <1>2, <1>4, <2>1, StoredFits
<1>7. Fits(db.sessions, req', store)
  <2> DEFINE sq == req'
  <2>1. sq[p] = r /\ (\A q \in Requests \ {p} : sq[q] = req[q]) /\ Refreshes(sq, p)
    BY <1>2, <1>3, <1>5 DEF Refreshes
  <2> HIDE DEF sq
  <2>2. Fits(db.sessions, sq, store)
    BY <1>1, <1>2, <1>5, <1>6, <2>1, TabMovesFits
  <2> QED
    BY <2>2 DEF sq
<1> QED
  BY <1>1, <1>7

(* The server exchanges the token, and answers the one tab that had it.    *)
LEMMA RotateFits ==
    ASSUME IInv, Fits(db.sessions, req, store), NEW p \in Requests, RefreshRotate(p)
    PROVE  Fits(db'.sessions, req', store')
<1> DEFINE B == BrowserSession
           old == db.sessions[B]
           rotates == RotateAllowed(db, B, req[p].n)
<1>1. Refreshes(req, p) /\ ~Granted(req, p)
  BY DEF RefreshRotate, Doing, Refreshes, Granted
<1>2. req[p] # None /\ TabShaped(req[p]) /\ req[p].s = B
  BY <1>1, TabKnown DEF TabShaped
<1>3. CASE ~rotates
  <2>1. db' = db /\ store' = store /\ req' = [req EXCEPT ![p] = [req[p] EXCEPT !.at = "refused"]]
    BY <1>2, <1>3 DEF RefreshRotate
  <2>2. B \in Rows(db.sessions) /\ req[p].n = old.token => old.revoked # "no" \/ old.expired
    BY <1>3 DEF RotateAllowed, GetByHash
  <2> QED
    BY <1>1, <2>1, <2>2, GoesOnFits
<1>4. CASE rotates
  <2> DEFINE r == [req[p] EXCEPT !.at = "granted"]
             ts == Rotate(db, B).sessions
             row == ts[B]
             sq == req'
  <2>1. db' = Rotate(db, B) /\ store' = store /\ req' = [req EXCEPT ![p] = r]
    BY <1>2, <1>4 DEF RefreshRotate
  <2>2. /\ B \in Rows(db.sessions) /\ B \in SessionIds
        /\ \A i \in SessionIds \ {B} : ts[i] = db.sessions[i]
        /\ row \in SessionRow /\ ts \in SessionTable
        /\ row.token = old.token + 1 /\ row.late = old.late
        /\ row.revoked = "no" /\ row.expired = FALSE /\ row.recent = TRUE
        /\ Rotate(db, B).users = db.users
    <3> DEFINE e == Rotate(db, B)
    <3>1. Sound(e) /\ e.users = db.users /\ Rotated(db.sessions, e.sessions, B)
      BY <1>4, InvIsSound, RotateIsSound
    <3> HIDE DEF e
    <3>2. e.sessions \in SessionTable
      BY <3>1 DEF Sound, SessionsOk
    <3> DEFINE new == e.sessions
               ss == db.sessions
    <3>3. new \in SessionTable /\ Rotated(ss, new, B)
      BY <3>1, <3>2
    <3> HIDE DEF new, ss
    <3>4. /\ B \in Rows(ss) /\ B \in SessionIds
          /\ \A i \in SessionIds \ {B} : new[i] = ss[i]
          /\ new[B] \in SessionRow /\ new \in SessionTable
          /\ new[B].token = ss[B].token + 1 /\ new[B].late = ss[B].late
          /\ new[B].revoked = "no" /\ new[B].expired = FALSE /\ new[B].recent = TRUE
      BY <3>3 DEF Rotated
    <3> QED
      BY <3>1, <3>4 DEF new, ss, e
  <2>3. /\ RequestOk(r, db.users) /\ r.kind = req[p].kind /\ r.at = "granted"
        /\ r.u = req[p].u /\ r.s = req[p].s /\ r.n = req[p].n /\ r.heard = req[p].heard
    BY <1>2, GoesTurns
  <2> HIDE DEF r
  <2>4. sq[p] = r /\ \A q \in Requests \ {p} : sq[q] = req[q]
    BY <1>2, <2>1, <2>2, <2>3, TurnsMoves DEF Turns
  <2>5. r # None /\ r.kind = "refresh" /\ TabShaped(r)
    <3>1. r.kind = "refresh" /\ TabShaped(r)
      BY <1>1, <1>2, <2>3 DEF TabShaped, Refreshes
    <3> QED
      BY <2>2, <2>3, <3>1, BrowserAsks DEF TabShaped
  <2>6. old \in SessionRow /\ old.token \in Nat /\ req[p].n = old.token /\ TokensFit(old, req, store)
        /\ TabFits(old, req, req[p])
    BY <1>1, <1>4, <2>2, TabKnown DEF RotateAllowed, GetByHash, SessionRow
  <2>7. \A q \in Requests : ~Granted(req, q)
    BY <2>6 DEF TabFits
  <2> HIDE DEF sq, rotates
  <2>8. \A q \in Requests : Granted(sq, q) <=> q = p
    BY <2>3, <2>4, <2>5, <2>7 DEF Granted, Refreshes
  <2>9. \A q \in Requests \ {p} : /\ Refreshes(sq, q) <=> Refreshes(req, q)
                                  /\ Leaves(sq, q) <=> Leaves(req, q)
    BY <2>4 DEF Refreshes, Leaves
  <2>10. Refreshes(sq, p) /\ ~Leaves(sq, p)
    BY <2>4, <2>5 DEF Refreshes, Leaves
  <2>11. Shaped(sq, store)
    BY <2>4, <2>5, <2>9, <2>10 DEF Fits, Shaped
  <2>12. NoneStolen(ts)
    <3>1. db.sessions \in SessionTable
      BY InvIsSound DEF Sound, SessionsOk
    <3>2. \A s \in SessionIds \ {B} : ts[s] = db.sessions[s]
      BY <2>2
    <3>3. ts[B] # None /\ Rows(ts) \subseteq SessionIds
      BY <2>2, StoreAssumption DEF SessionTable, Rows
    <3>4. \A s \in Rows(ts) : s # B => s \in Rows(db.sessions)
      BY <2>2, <3>1, <3>2, <3>3 DEF Rows, SessionTable
    <3>5. ASSUME NEW s \in Rows(ts) PROVE ts[s].revoked # "replay"
      <4>1. CASE s = B
        BY <2>2, <4>1
      <4>2. CASE s # B
        BY <3>2, <3>3, <3>4, <4>2 DEF Fits, NoneStolen
      <4> QED
        BY <4>1, <4>2
    <3> HIDE DEF ts
    <3> QED
      BY <2>2, <3>3, <3>5 DEF NoneStolen
  <2> HIDE DEF row, ts
  <2>13. TokensFit(row, sq, store)
    <3> HIDE DEF old
    <3>1. ~row.late
      BY <2>2, <2>6 DEF TokensFit
    <3>2. ASSUME NEW q \in Requests, Refreshes(sq, q), ~Granted(sq, q)
          PROVE  TabFits(row, sq, sq[q])
      <4>1. q # p /\ sq[q] = req[q] /\ Refreshes(req, q)
        BY <2>4, <2>8, <2>9, <3>2
      <4>2. TabFits(old, req, req[q]) /\ req[q].n \in Nat
        BY <2>6, <2>7, <4>1 DEF TokensFit, Fits, Shaped, TabShaped
      <4>3. req[q].n <= old.token
        BY <4>2 DEF TabFits
      <4>4. req[q].n <= row.token /\ req[q].n # row.token
        BY <2>2, <2>6, <4>2, <4>3
      <4> QED
        BY <2>2, <4>1, <4>4 DEF TabFits
    <3>3. store # None => store[2] = old.token
      BY <2>6, <2>7 DEF TokensFit
    <3>4. store # None => store[2] + 1 = row.token /\ store[2] # row.token
      BY <2>2, <2>6, <3>3
    <3>5. sq[p].n + 1 = row.token
      BY <2>2, <2>3, <2>4, <2>6
    <3>6. \A q \in Requests : Granted(sq, q) =>
              sq[q].n + 1 = row.token /\ row.recent /\ (store # None => store[2] # row.token)
      BY <2>2, <2>8, <3>4, <3>5
    <3>7. \A x, q \in Requests : Granted(sq, x) /\ Granted(sq, q) => x = q
      BY <2>8
    <3>8. \E q \in Requests : Granted(sq, q)
      BY <2>8
    <3> QED
      BY <3>1, <3>2, <3>4, <3>6, <3>7, <3>8 DEF TokensFit
  <2>14. Fits(ts, sq, store)
    BY <2>11, <2>12, <2>13 DEF Fits, row
  <2> QED
    BY <2>1, <2>14 DEF sq, ts
<1> QED
  BY <1>3, <1>4

(* The answer with the new token reaches the browser.                      *)
LEMMA GrantedFits ==
    ASSUME IInv, Fits(db.sessions, req, store), NEW p \in Requests, RefreshGranted(p)
    PROVE  Fits(db'.sessions, req', store')
<1> DEFINE B == BrowserSession
           row == db.sessions[B]
           sq == req'
           st == <<B, req[p].n + 1>>
<1>1. Granted(req, p) /\ Refreshes(req, p)
  BY DEF RefreshGranted, Doing, Granted, Refreshes
<1>2. req[p] # None /\ TabShaped(req[p])
  BY <1>1, TabKnown
<1>3. db' = db /\ store' = st /\ req' = [req EXCEPT ![p] = None]
  BY <1>2 DEF RefreshGranted, TabShaped
<1>4. sq[p] = None /\ \A q \in Requests \ {p} : sq[q] = req[q]
  BY <1>3, TurnsMoves DEF Turns
<1> HIDE DEF sq
<1>5. /\ ~Refreshes(sq, p) /\ ~Leaves(sq, p)
      /\ \A q \in Requests \ {p} : /\ Refreshes(sq, q) <=> Refreshes(req, q)
                                   /\ Leaves(sq, q) <=> Leaves(req, q)
                                   /\ Granted(sq, q) <=> Granted(req, q)
  BY <1>4 DEF Refreshes, Leaves, Granted
<1>6. st \in SessionIds \X Nat /\ st[1] = B /\ st[2] = req[p].n + 1
  BY <1>2 DEF Fits, NoneStolen, TabShaped
<1>7. st # None
  BY <1>6, ScenariosAssumption
<1> HIDE DEF st
<1>8. Shaped(sq, st)
  <2>1. st = <<B, st[2]>> /\ st[2] \in Nat
    BY <1>6
  <2> QED
    BY <1>4, <1>5, <2>1 DEF Fits, Shaped
<1>9. ASSUME B \in Rows(db.sessions) PROVE TokensFit(row, sq, st)
  <2>1. TokensFit(row, req, store)
    BY <1>9 DEF Fits
  <2>2. req[p].n + 1 = row.token /\ \A q \in Requests : Granted(req, q) => q = p
    BY <1>1, <2>1 DEF TokensFit
  <2>3. \A q \in Requests : ~Granted(sq, q)
    BY <1>5, <2>2 DEF Granted
  <2>4. \A q \in Requests : Refreshes(sq, q) => TabFits(row, sq, sq[q])
    <3> SUFFICES ASSUME NEW q \in Requests, Refreshes(sq, q) PROVE TabFits(row, sq, sq[q])
      OBVIOUS
    <3>1. Refreshes(req, q) /\ ~Granted(req, q) /\ sq[q] = req[q]
      BY <1>4, <1>5, <2>2
    <3>2. TabFits(row, req, sq[q])
      BY <2>1, <3>1 DEF TokensFit
    <3> QED
      BY <2>3, <3>2 DEF TabFits
  <2>5. ~row.late
    BY <2>1 DEF TokensFit
  <2> QED
    BY <1>6, <1>7, <2>2, <2>3, <2>4, <2>5 DEF TokensFit
<1>10. Fits(db.sessions, sq, st)
  BY <1>8, <1>9 DEF Fits
<1> QED
  BY <1>3, <1>10 DEF sq

(* A refusal: the tab asks again with the token another one stored, or the *)
(* browser forgets its session, which is then over.                        *)
LEMMA RefusedFits ==
    ASSUME IInv, Fits(db.sessions, req, store), NEW p \in Requests, RefreshRefused(p)
    PROVE  Fits(db'.sessions, req', store')
<1> DEFINE B == BrowserSession
           row == db.sessions[B]
           sq == req'
<1>1. ~Granted(req, p) /\ Refreshes(req, p) /\ req[p].at = "refused"
  BY DEF RefreshRefused, Doing, Granted, Refreshes
<1>2. req[p] # None /\ TabShaped(req[p]) /\ req[p].s = B /\ req[p].heard = TRUE /\ req[p].n \in Nat
  BY <1>1, TabKnown DEF TabShaped
<1>3. CASE store \notin {None, <<B, req[p].n>>}
  <2> DEFINE r == Again(req[p], store[1], store[2])
  <2>1. db' = db /\ store' = store /\ req' = [req EXCEPT ![p] = r]
    BY <1>2, <1>3 DEF RefreshRefused, Again
  <2>2. RequestOk(r, db.users) /\ r.kind = "refresh" /\ r.at = "asked" /\ r.u = req[p].u
        /\ r.s = store[1] /\ r.n = store[2] /\ r.heard = req[p].heard
    BY <1>1, <1>2, AgainTurns DEF Refreshes
  <2> HIDE DEF r
  <2>3. sq[p] = r /\ \A q \in Requests \ {p} : sq[q] = req[q]
    BY <2>1, <2>2, TurnsMoves DEF Turns
  <2>4. store[1] = B /\ store[2] \in Nat
    BY <1>3 DEF Fits, Shaped
  <2>5. TabShaped(r) /\ r # None
    <3>1. TabShaped(r)
      BY <1>2, <2>2, <2>4 DEF TabShaped
    <3> QED
      BY <2>2, <3>1, BrowserAsks DEF TabShaped, Fits, NoneStolen
  <2>6. B \in Rows(db.sessions) => TabFits(row, req, r)
    <3> SUFFICES ASSUME B \in Rows(db.sessions) PROVE TabFits(row, req, r)
      OBVIOUS
    <3>1. row \in SessionRow /\ TokensFit(row, req, store)
      BY <1>1, TabKnown
    <3> QED
      BY <1>3, <2>2, <2>4, <3>1, StoredFits
  <2>7. Refreshes(sq, p)
    BY <2>2, <2>3, <2>5 DEF Refreshes
  <2> HIDE DEF sq
  <2>8. Fits(db.sessions, sq, store)
    BY <1>1, <2>2, <2>3, <2>5, <2>6, <2>7, TabMovesFits
  <2> QED
    BY <2>1, <2>8 DEF sq
<1>4. CASE store \in {None, <<B, req[p].n>>}
  <2>1. db' = db /\ store' = None /\ req' = [req EXCEPT ![p] = None]
    BY <1>2, <1>4 DEF RefreshRefused
  <2>2. sq[p] = None /\ \A q \in Requests \ {p} : sq[q] = req[q]
    BY <2>1, TurnsMoves DEF Turns
  <2> HIDE DEF sq
  <2>3. \A q \in Requests : /\ Refreshes(sq, q) => Refreshes(req, q) /\ sq[q] = req[q]
                            /\ Leaves(sq, q) <=> Leaves(req, q)
                            /\ Leaves(sq, q) => sq[q] = req[q]
                            /\ Granted(sq, q) <=> Granted(req, q)
                            /\ Granted(sq, q) => sq[q] = req[q]
    BY <1>1, <2>2 DEF Refreshes, Leaves, Granted
  <2>4. Shaped(sq, None)
    BY <2>3 DEF Fits, Shaped
  <2>5. ASSUME B \in Rows(db.sessions) PROVE TokensFit(row, sq, None)
    <3>1. TokensFit(row, req, store) /\ TabFits(row, req, req[p])
      BY <1>1, <2>5, TabKnown
    <3>2. \A q \in Requests : Refreshes(sq, q) /\ ~Granted(sq, q) => TabFits(row, sq, sq[q])
      <4> SUFFICES ASSUME NEW q \in Requests, Refreshes(sq, q), ~Granted(sq, q)
                   PROVE  TabFits(row, sq, sq[q])
        OBVIOUS
      <4>1. TabFits(row, req, sq[q])
        BY <2>3, <3>1 DEF TokensFit
      <4> QED
        BY <2>3, <4>1 DEF TabFits
    <3>3. \/ row.revoked # "no" \/ row.expired
          \/ \E q \in Requests : Granted(sq, q)
          \/ \E q \in Requests : Leaves(sq, q) /\ (sq[q].at = "found" \/ (sq[q].at = "asked" /\ sq[q].n = row.token))
      <4>1. CASE store = None
        BY <2>3, <3>1, <4>1 DEF TokensFit
      <4>2. CASE store # None
        <5>1. store[2] = req[p].n
          BY <1>4, <4>2
        <5>2. \/ req[p].n = row.token
              \/ \E q \in Requests : Granted(sq, q)
          BY <2>3, <3>1, <4>2, <5>1 DEF TokensFit
        <5> QED
          BY <1>1, <3>1, <5>2 DEF TabFits
      <4> QED
        BY <4>1, <4>2
    <3>4. /\ ~row.late
          /\ \A q \in Requests : Granted(sq, q) => sq[q].n + 1 = row.token /\ row.recent
          /\ \A x, q \in Requests : Granted(sq, x) /\ Granted(sq, q) => x = q
      BY <2>3, <3>1 DEF TokensFit
    <3> QED
      BY <3>2, <3>3, <3>4 DEF TokensFit
  <2>6. Fits(db.sessions, sq, None)
    BY <2>4, <2>5 DEF Fits
  <2> QED
    BY <2>1, <2>6 DEF sq
<1> QED
  BY <1>3, <1>4

(* Signing out: the browser forgets its token at once, and the server ends *)
(* the session when it knows the token.                                    *)
LEMMA LeavingFits ==
    ASSUME NEW ss, NEW rq, NEW sq, NEW st, Fits(ss, rq, st), NEW p \in Requests,
           \A q \in Requests \ {p} : sq[q] = rq[q], ~Refreshes(rq, p), ~Refreshes(sq, p),
           Leaves(sq, p) => /\ sq[p].heard = TRUE /\ sq[p].u = None /\ sq[p].s = BrowserSession
                            /\ sq[p].n \in Nat /\ sq[p].at \in {"asked", "found", "unknown"},
           NEW tt, tt = st \/ tt = None,
           BrowserSession \in Rows(ss) /\ tt = None =>
              \/ ss[BrowserSession].revoked # "no" \/ ss[BrowserSession].expired
              \/ \E q \in Requests : Granted(sq, q)
              \/ \E q \in Requests : Leaves(sq, q) /\ (sq[q].at = "found" \/ (sq[q].at = "asked" /\ sq[q].n = ss[BrowserSession].token))
    PROVE  Fits(ss, sq, tt)
<1>1. \A q \in Requests : /\ Refreshes(sq, q) <=> Refreshes(rq, q)
                          /\ Refreshes(sq, q) => sq[q] = rq[q]
                          /\ Granted(sq, q) <=> Granted(rq, q)
  BY DEF Refreshes, Granted
<1>2. \A q \in Requests \ {p} : Leaves(sq, q) <=> Leaves(rq, q)
  BY DEF Leaves
<1>3. Shaped(sq, tt)
  BY <1>1, <1>2 DEF Fits, Shaped
<1>4. ASSUME BrowserSession \in Rows(ss) PROVE TokensFit(ss[BrowserSession], sq, tt)
  <2> DEFINE row == ss[BrowserSession]
  <2>1. TokensFit(row, rq, st)
    BY <1>4 DEF Fits
  <2>2. tt = None =>
              \/ row.revoked # "no" \/ row.expired
              \/ \E q \in Requests : Granted(sq, q)
              \/ \E q \in Requests : Leaves(sq, q) /\ (sq[q].at = "found" \/ (sq[q].at = "asked" /\ sq[q].n = row.token))
    BY <1>4
  <2> HIDE DEF row
  <2>3. \A q \in Requests : Refreshes(sq, q) /\ ~Granted(sq, q) => TabFits(row, sq, sq[q])
    <3> SUFFICES ASSUME NEW q \in Requests, Refreshes(sq, q), ~Granted(sq, q)
                 PROVE  TabFits(row, sq, sq[q])
      OBVIOUS
    <3>1. TabFits(row, rq, sq[q])
      BY <1>1, <2>1 DEF TokensFit
    <3> QED
      BY <1>1, <3>1 DEF TabFits
  <2>4. /\ \A q \in Requests : Granted(sq, q) =>
              sq[q].n + 1 = row.token /\ row.recent /\ (tt # None => tt[2] # row.token)
        /\ \A x, q \in Requests : Granted(sq, x) /\ Granted(sq, q) => x = q
    BY <1>1, <2>1 DEF TokensFit, Granted
  <2>5. tt # None => \/ tt[2] = row.token
                     \/ tt[2] + 1 = row.token /\ \E q \in Requests : Granted(sq, q)
    BY <1>1, <2>1 DEF TokensFit
  <2> QED
    BY <2>1, <2>2, <2>3, <2>4, <2>5 DEF TokensFit, row
<1> QED
  BY <1>3, <1>4 DEF Fits

LEMMA LogoutFits ==
    ASSUME IInv, Fits(db.sessions, req, store), NEW p \in Requests,
           logout(p) \/ LogoutGetByHash(p) \/ Logout(p)
    PROVE  Fits(db'.sessions, req', store')
<1> DEFINE B == BrowserSession
           row == db.sessions[B]
           sq == req'
<1>1. CASE logout(p)
  <2> DEFINE r == [kind |-> "logout", at |-> "asked", u |-> None, s |-> store[1], n |-> store[2],
                   heard |-> TRUE]
  <2>1. req' = [req EXCEPT ![p] = r] /\ db' = db /\ store' = None /\ req[p] = None /\ store # None
    BY <1>1 DEF logout
  <2>2. RequestOk(r, db.users) /\ r.at # "locked" /\ r.kind = "logout" /\ r.at = "asked"
        /\ r.u = None /\ r.s = store[1] /\ r.n = store[2] /\ r.heard = TRUE
    BY AskTurns
  <2> HIDE DEF r
  <2>3. sq[p] = r /\ \A q \in Requests \ {p} : sq[q] = req[q]
    BY <2>1, <2>2, TurnsMoves DEF Turns
  <2>4. store[1] = B /\ store[2] \in Nat /\ B \in SessionIds
    BY <2>1 DEF Fits, Shaped, NoneStolen
  <2>5. r # None
    BY <2>2, <2>4, BrowserAsks
  <2> HIDE DEF sq
  <2>6. Leaves(sq, p) /\ ~Refreshes(sq, p) /\ ~Refreshes(req, p)
    BY <2>1, <2>2, <2>3, <2>5 DEF Leaves, Refreshes
  <2>7. ASSUME B \in Rows(db.sessions)
        PROVE  sq[p].n = row.token \/ \E q \in Requests : Granted(sq, q)
    <3>1. TokensFit(row, req, store)
      BY <2>7 DEF Fits
    <3>2. store[2] = row.token \/ \E q \in Requests : Granted(req, q)
      BY <2>1, <3>1 DEF TokensFit
    <3>3. \A q \in Requests : Granted(req, q) => Granted(sq, q)
      BY <2>1, <2>3 DEF Granted, Refreshes
    <3> QED
      BY <2>2, <2>3, <3>2, <3>3
  <2>8. Fits(db.sessions, sq, None)
    BY <2>2, <2>3, <2>4, <2>6, <2>7, LeavingFits
  <2> QED
    BY <2>1, <2>8 DEF sq
<1>2. CASE LogoutGetByHash(p)
  <2>1. Leaves(req, p) /\ req[p] # None /\ req[p].at = "asked" /\ req[p].kind = "logout"
    BY <1>2 DEF LogoutGetByHash, Doing, Leaves
  <2>2. req[p].heard = TRUE /\ req[p].u = None /\ req[p].s = B /\ req[p].n \in Nat /\ B \in SessionIds
    BY <2>1 DEF Fits, Shaped, NoneStolen
  <2>3. PICK at \in {"found", "unknown"} :
          Goes(p, at) /\ (GetByHash(db, B, req[p].n) => at = "found")
    BY <1>2, <2>2 DEF LogoutGetByHash
  <2> DEFINE r == [req[p] EXCEPT !.at = at]
  <2>4. req' = [req EXCEPT ![p] = r] /\ db' = db /\ store' = store
    BY <2>3 DEF Goes
  <2>5. /\ RequestOk(r, db.users) /\ r.kind = req[p].kind /\ r.at = at
        /\ r.u = req[p].u /\ r.s = req[p].s /\ r.n = req[p].n /\ r.heard = req[p].heard
    BY <2>1, GoesTurns
  <2> HIDE DEF r
  <2>6. sq[p] = r /\ \A q \in Requests \ {p} : sq[q] = req[q]
    BY <2>4, <2>5, TurnsMoves DEF Turns
  <2>7. r # None
    BY <2>1, <2>2, <2>5, BrowserAsks
  <2> HIDE DEF sq
  <2>8. Leaves(sq, p) /\ ~Refreshes(sq, p) /\ ~Refreshes(req, p)
    BY <2>1, <2>5, <2>6, <2>7 DEF Leaves, Refreshes
  <2>9. ASSUME B \in Rows(db.sessions), store = None
        PROVE  \/ row.revoked # "no" \/ row.expired
               \/ \E q \in Requests : Granted(sq, q)
               \/ \E q \in Requests : Leaves(sq, q) /\ (sq[q].at = "found" \/ (sq[q].at = "asked" /\ sq[q].n = row.token))
    <3>1. TokensFit(row, req, store)
      BY <2>9 DEF Fits
    <3>2. \A q \in Requests : (Granted(req, q) => Granted(sq, q))
                              /\ (q # p /\ Leaves(req, q) => Leaves(sq, q) /\ sq[q] = req[q])
      BY <2>1, <2>6 DEF Granted, Refreshes, Leaves
    <3>3. req[p].n = row.token => sq[p].at = "found"
      BY <2>3, <2>5, <2>6, <2>9 DEF GetByHash
    <3>4. \/ row.revoked # "no" \/ row.expired
          \/ \E q \in Requests : Granted(req, q)
          \/ \E q \in Requests : Leaves(req, q) /\ (req[q].at = "found" \/ (req[q].at = "asked" /\ req[q].n = row.token))
      BY <2>9, <3>1 DEF TokensFit
    <3> HIDE DEF row
    <3> QED
      BY <2>1, <2>8, <3>2, <3>3, <3>4
  <2>10. Fits(db.sessions, sq, store)
    BY <2>2, <2>5, <2>6, <2>8, <2>9, LeavingFits
  <2> QED
    BY <2>4, <2>10 DEF sq
<1>3. CASE Logout(p)
  <2>1. Leaves(req, p) /\ req[p] # None /\ req[p].kind = "logout"
    BY <1>3 DEF Logout, Doing, Leaves
  <2>2. req[p].s = B
    BY <2>1 DEF Fits, Shaped
  <2>3. /\ req' = [req EXCEPT ![p] = None] /\ store' = store
        /\ \/ db' = Revoke(db, B, "person")
           \/ db' = db /\ req[p].at = "unknown"
    BY <1>3, <2>2 DEF Logout, Commits, Doing
  <2>4. sq[p] = None /\ \A q \in Requests \ {p} : sq[q] = req[q]
    <3>1. db'.users = db.users
      BY <2>3, InvIsSound, RevokeIsSound
    <3> QED
      BY <2>3, <3>1, TurnsMoves DEF Turns
  <2> HIDE DEF sq
  <2>5. ~Leaves(sq, p) /\ ~Refreshes(sq, p) /\ ~Refreshes(req, p)
    BY <2>1, <2>4 DEF Leaves, Refreshes
  <2>6. \A q \in Requests : (Granted(req, q) => Granted(sq, q))
                            /\ (q # p /\ Leaves(req, q) => Leaves(sq, q) /\ sq[q] = req[q])
    BY <2>4, <2>5 DEF Granted, Leaves, Refreshes
  <2>7. CASE db' = db /\ req[p].at = "unknown"
    <3>1. ASSUME B \in Rows(db.sessions), store = None
          PROVE  \/ row.revoked # "no" \/ row.expired
                 \/ \E q \in Requests : Granted(sq, q)
                 \/ \E q \in Requests : Leaves(sq, q) /\ (sq[q].at = "found" \/ (sq[q].at = "asked" /\ sq[q].n = row.token))
      <4>1. TokensFit(row, req, store)
        BY <3>1 DEF Fits
      <4>2. \/ row.revoked # "no" \/ row.expired
            \/ \E q \in Requests : Granted(req, q)
            \/ \E q \in Requests : Leaves(req, q) /\ (req[q].at = "found" \/ (req[q].at = "asked" /\ req[q].n = row.token))
        BY <3>1, <4>1 DEF TokensFit
      <4> HIDE DEF row
      <4> QED
        BY <2>6, <2>7, <4>2
    <3>2. Fits(db.sessions, sq, store)
      BY <2>4, <2>5, <3>1, LeavingFits
    <3> QED
      BY <2>3, <2>7, <3>2 DEF sq
  <2>8. CASE db' = Revoke(db, B, "person")
    <3> DEFINE ts == db'.sessions
    <3>1. SessionsGo(db.sessions, ts) /\ Sound(db')
      BY <2>8, InvIsSound, RevokeLeads DEF Leads
    <3>2. Rows(ts) \subseteq SessionIds
      BY <3>1, SessionRows DEF Sound, SessionsOk
    <3>3. Fits(ts, req, store)
      BY <3>1, <3>2, ElsewhereFits
    <3>4. B \in Rows(ts) => ts[B].revoked # "no"
      BY <2>8, InvIsSound, RevokeEnds
    <3> HIDE DEF ts
    <3>5. Fits(ts, sq, store)
      BY <2>4, <2>5, <3>3, <3>4, LeavingFits
    <3> QED
      BY <2>3, <3>5 DEF ts, sq
  <2> QED
    BY <2>3, <2>7, <2>8
<1> QED
  BY <1>1, <1>2, <1>3

(* A token that was exchanged a while ago is asked with no more.           *)
LEMMA GraceFits ==
    ASSUME IInv, Fits(db.sessions, req, store), GracePasses, calm'
    PROVE  Fits(db'.sessions, req', store')
<1> DEFINE B == BrowserSession
           ts == db'.sessions
<1>1. req' = req /\ store' = store /\ \A p \in Requests : ~Refreshing(p)
  BY DEF GracePasses
<1>2. \A p \in Requests : ~Refreshes(req, p) /\ ~Granted(req, p)
  BY <1>1 DEF Fits, Shaped, TabShaped, Refreshes, Refreshing, Granted
<1>3. PICK s \in Rows(db.sessions) : db' = [db EXCEPT !.sessions[s].recent = FALSE]
  BY DEF GracePasses
<1>4. \A i \in SessionIds : GrewOld(db.sessions, ts, i)
  BY <1>3, InvIsSound, GraceIsSound
<1>5. Rows(ts) \subseteq SessionIds /\ B \in SessionIds
  <2>1. Sound(db')
    BY GraceStep
  <2> QED
    BY <2>1, SessionRows DEF Sound, SessionsOk, Fits, NoneStolen
<1>6. NoneStolen(ts)
  BY <1>4, <1>5, StoreAssumption DEF NoneStolen, Fits, GrewOld, Rows
<1>7. ASSUME B \in Rows(ts) PROVE TokensFit(ts[B], req, store)
  <2>1. B \in Rows(db.sessions) /\ ts[B].token = db.sessions[B].token
        /\ ts[B].late = db.sessions[B].late /\ ts[B].revoked = db.sessions[B].revoked
        /\ ts[B].expired = db.sessions[B].expired
    BY <1>4, <1>5, <1>7 DEF GrewOld
  <2>2. TokensFit(db.sessions[B], req, store)
    BY <2>1 DEF Fits
  <2> QED
    BY <1>2, <2>1, <2>2 DEF TokensFit
<1> HIDE DEF ts
<1>8. Fits(ts, req, store)
  BY <1>6, <1>7 DEF Fits
<1> QED
  BY <1>1, <1>8 DEF ts

(* What one browser does with its token.                                   *)
LEMMA BrowsesFits ==
    ASSUME IInv, Fits(db.sessions, req, store), NEW p \in Requests, Browses(p), calm'
    PROVE  Fits(db'.sessions, req', store')
<1>1. ~RevokeReplayed(p)
  <2> SUFFICES ASSUME RevokeReplayed(p) PROVE FALSE
    OBVIOUS
  <2>1. Refreshes(req, p) /\ req[p].at = "replayed"
    BY DEF RevokeReplayed, Doing, Refreshes
  <2> QED
    BY <2>1, TabKnown DEF TabShaped
<1>2. ~RefreshGivenUp(p)
  BY DEF RefreshGivenUp
<1> QED
  BY <1>1, <1>2, ExchangeFits, TabGoesOnFits, RotateFits, GrantedFits, RefusedFits, LogoutFits DEF Browses

LEMMA NextKeepsBrowser ==
    ASSUME IInv, IInv', BrowserInv, [Next]_vars
    PROVE  BrowserInv'
<1>1. Rows(db'.sessions) \subseteq SessionIds
  <2>1. db'.sessions \in SessionTable
    BY InvIsSound DEF IInv, Consistent, Database, SessionTable
  <2> QED
    BY <2>1, SessionRows
<1> SUFFICES ASSUME calm' PROVE Fits(db.sessions, req, store)'
  BY DEF BrowserInv
<1>2. CASE Ordinary
  <2>1. Fits(db.sessions, req, store) /\ store' = store
    BY <1>2 DEF Ordinary, BrowserInv
  <2>2. SessionsGo(db.sessions, db'.sessions)
        /\ \A q \in Requests : Browsing(req[q]) \/ Browsing(req'[q]) => req'[q] = req[q]
    BY <1>2 DEF Ordinary, Leads
  <2>3. Fits(db'.sessions, req', store)
    BY <1>1, <2>1, <2>2, ElsewhereFits
  <2> QED
    BY <2>1, <2>3
<1>3. ASSUME NEW p \in Requests, Governs(p) PROVE Fits(db'.sessions, req', store')
  <2>1. Fits(db.sessions, req, store) /\ store' = store
    BY <1>3 DEF Governs, BrowserInv
  <2>2. req' = [req EXCEPT ![p] = None] /\ SessionsGo(db.sessions, db'.sessions)
    BY <1>3 DEF Governs
  <2>3. req'[p] = None /\ \A q \in Requests \ {p} : req'[q] = req[q]
    BY <2>2 DEF IInv, IsTable
  <2>4. ~Browsing(req[p])
    BY <1>3 DEF Governs, Browsing, IInv, RequestOk
  <2>5. \A q \in Requests : Browsing(req[q]) \/ Browsing(req'[q]) => req'[q] = req[q]
    BY <2>3, <2>4 DEF Browsing
  <2> DEFINE sq == req'
             ts == db'.sessions
  <2>6. /\ SessionsGo(db.sessions, ts) /\ Rows(ts) \subseteq SessionIds
        /\ \A q \in Requests : Browsing(req[q]) \/ Browsing(sq[q]) => sq[q] = req[q]
    BY <1>1, <2>2, <2>5
  <2> HIDE DEF sq, ts
  <2>7. Fits(ts, sq, store)
    BY <2>1, <2>6, ElsewhereFits
  <2> QED
    BY <2>1, <2>7 DEF sq, ts
<1>4. ASSUME NEW p \in Requests, Browses(p) PROVE Fits(db'.sessions, req', store')
  <2>1. calm
    BY <1>4 DEF Browses, exchangeRefreshToken, Ask, RefreshGetByHash, RefreshActiveUser, RefreshRotate,
       Replayed, RevokeReplayed, RefreshGranted, RefreshRefused, RefreshGivenUp, logout,
       LogoutGetByHash, Logout, Goes, Commits
  <2> QED
    BY <1>4, <2>1, BrowsesFits DEF BrowserInv
<1>5. CASE GracePasses
  <2>1. calm
    BY <1>5 DEF GracePasses
  <2> QED
    BY <1>5, <2>1, GraceFits DEF BrowserInv
<1>6. CASE UNCHANGED vars
  BY <1>6 DEF vars, BrowserInv
<1> QED
  BY <1>2, <1>3, <1>4, <1>5, <1>6, NextIsOneOfFour

LEMMA InitHasBrowser == Init => BrowserInv
<1> SUFFICES ASSUME Init, calm PROVE Fits(db.sessions, req, store)
  BY DEF BrowserInv
<1> DEFINE B == BrowserSession
           row == db.sessions[B]
<1>1. PICK s \in Scenarios : db = s.db /\ store = s.store /\ calm = (s.store # None)
  BY DEF Init
<1>2. /\ Consistent(db) /\ store # None
      /\ B \in Rows(db.sessions) /\ ~row.late
      /\ store = <<B, row.token>>
      /\ \A i \in Rows(db.sessions) : db.sessions[i].revoked # "replay"
  BY <1>1, ScenariosAssumption
<1>3. \A p \in Requests : ~Refreshes(req, p) /\ ~Leaves(req, p) /\ ~Granted(req, p)
  BY DEF Init, Refreshes, Leaves, Granted
<1>4. Sound(db)
  BY <1>2, ConsistentIsSound
<1>5. B \in SessionIds /\ row \in SessionRow
  BY <1>2, <1>4, SessionRows DEF Sound, SessionsOk
<1>6. row.token \in Nat /\ row # None
  BY <1>5, StoreAssumption DEF SessionRow
<1>7. store[2] = row.token
  BY <1>2
<1>8. NoneStolen(db.sessions)
  BY <1>2, <1>5, <1>6 DEF NoneStolen
<1>9. Shaped(req, store)
  BY <1>2, <1>3, <1>6, <1>7 DEF Shaped
<1> HIDE DEF row
<1>10. TokensFit(row, req, store)
  BY <1>2, <1>3, <1>7 DEF TokensFit
<1> QED
  BY <1>8, <1>9, <1>10 DEF Fits, row

(* Two tabs that share a refresh token never cost the browser its session. *)
THEOREM TabsKeepTheSession == Spec => []BrowserKeepsItsSession
<1>1. BrowserInv => BrowserKeepsItsSession
  <2> DEFINE B == BrowserSession
             row == db.sessions[B]
             quiet == \A p \in Requests : req[p] # None => req[p].kind \notin {"refresh", "logout"}
  <2> SUFFICES ASSUME BrowserInv, calm
               PROVE  /\ \A s \in Rows(db.sessions) : db.sessions[s].revoked # "replay"
                      /\ quiet /\ ActiveUser(db, B) => store = <<B, row.token>>
    BY DEF BrowserKeepsItsSession
  <2>1. Fits(db.sessions, req, store)
    BY DEF BrowserInv
  <2>2. \A s \in Rows(db.sessions) : db.sessions[s].revoked # "replay"
    BY <2>1 DEF Fits, NoneStolen
  <2>3. ASSUME quiet, ActiveUser(db, B) PROVE store = <<B, row.token>>
    <3>1. TokensFit(row, req, store) /\ row.revoked = "no" /\ ~row.expired
      BY <2>1, <2>3 DEF Fits, ActiveUser, IsUsable
    <3>2. \A p \in Requests : ~Granted(req, p) /\ ~Leaves(req, p)
      BY <2>3 DEF Granted, Refreshes, Leaves
    <3> HIDE DEF row
    <3>3. store # None
      BY <3>1, <3>2 DEF TokensFit
    <3>4. store[2] = row.token
      BY <3>1, <3>2, <3>3 DEF TokensFit
    <3> QED
      BY <2>1, <3>3, <3>4 DEF Fits, Shaped
  <2> QED
    BY <2>2, <2>3
<1>2. Init => IInv /\ BrowserInv
  BY InitHasInv, InitHasBrowser
<1>3. (IInv /\ BrowserInv) /\ [Next]_vars => (IInv /\ BrowserInv)'
  BY NextKeepsInv, NextKeepsBrowser
<1> QED
  BY <1>1, <1>2, <1>3, PTL DEF Spec
=============================================================================
