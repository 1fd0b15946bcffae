----------------------------- MODULE MCAccounts -----------------------------
(* Databases to start from and the calls that come: one scenario for each     *)
(* group of handlers whose steps meet in the same rows.  Account 1 is the     *)
(* administrator bootstrap/seed.go makes on an empty instance.                *)
EXTENDS Accounts, TLC

CONSTANTS a, b, c, trip, p1, p2

AllAddresses == {a, b, c}
AllUserIds == 1 .. 5
AllSessionIds == 1 .. 3
AllTokenIds == 1 .. 2
AllTrips == {trip}
AllRequests == {p1, p2}
RequestSymmetry == Permutations(AllRequests)

Calls(some) == some @@ [kind \in Kinds |-> 0]

Filled(ids, rows) == rows @@ [i \in ids |-> None]

Administrator == NewUser(a, TRUE, TRUE, FALSE)
Confirmed(email) == NewUser(email, FALSE, TRUE, FALSE)
Waiting(email) == NewUser(email, FALSE, FALSE, TRUE)

SignedIn(u) == [user |-> u, token |-> 1, recent |-> FALSE, expired |-> FALSE,
                revoked |-> "no", pw |-> 1, late |-> FALSE]

Sent == [message |-> 1, attempts |-> 0, expired |-> FALSE, recent |-> TRUE]

Started(users, sessions, codes) ==
  [users |-> Filled(UserIds, users), sessions |-> Filled(SessionIds, sessions),
   resets |-> Filled(TokenIds, <<>>), codes |-> Filled(UserIds, codes),
   invites |-> Filled(TokenIds, <<>>), tripInvites |-> Filled(TokenIds, <<>>),
   owner |-> [t \in Trips |-> 1], members |-> {}]

Scenario(d, tokens, calls) == [db |-> d, store |-> tokens, left |-> Calls(calls)]

\* Two tabs of account 2 refresh while it ends sessions.
Tabs ==
  Scenario(Started(<<Administrator, Confirmed(b)>>, <<SignedIn(2), SignedIn(2)>>, <<>>), <<1, 1>>,
           [refresh |-> 3, giveUp |-> 1, logout |-> 1, revokeSession |-> 1, time |-> 1])

\* The password of account 2 changes in three ways while it signs in.
Passwords ==
  Scenario(Started(<<Administrator, Confirmed(b)>>, <<SignedIn(2), SignedIn(1)>>, <<>>), None,
           [login |-> 1, changePassword |-> 1, resetByAdmin |-> 1, requestReset |-> 2, completeReset |-> 2])

\* The second link is requested, or the first expires, before the first is used.
Links ==
  Scenario(Started(<<Administrator, Confirmed(b)>>, <<SignedIn(2)>>, <<>>), None,
           [login |-> 1, requestReset |-> 2, completeReset |-> 2, time |-> 1, sweep |-> 1])

\* Two administrators change and delete each other and themselves.
Administration ==
  Scenario(Started(<<Administrator, NewUser(b, TRUE, TRUE, FALSE)>>, <<SignedIn(1), SignedIn(2)>>, <<>>), None,
           [update |-> 3, deleteMe |-> 1, login |-> 1])

\* An address is registered twice, confirmed and guessed at.
Registration ==
  Scenario(Started(<<Administrator>>, <<>>, <<>>), None,
           [register |-> 2, resend |-> 1, confirm |-> 4, time |-> 2])

\* An account that waited long is purged while it is activated, or confirmed,
\* or registered again.
Purging ==
  Scenario(Started(<<Administrator, [Waiting(b) EXCEPT !.old = TRUE]>>, <<SignedIn(1)>>,
                   2 :> [Sent EXCEPT !.recent = FALSE]), None,
           [update |-> 1, register |-> 1, confirm |-> 1, sweep |-> 1, createUser |-> 1])

\* An address that waits to be confirmed is invited and registered again.
Inviting ==
  Scenario(Started(<<Administrator, Waiting(b)>>, <<SignedIn(1)>>, 2 :> Sent), None,
           [inviteUser |-> 2, acceptUser |-> 2, withdraw |-> 1, confirm |-> 1, time |-> 1])

\* Account 1 shares its trip with account 2 and with an address that waits.
Membership ==
  Scenario(Started(<<Administrator, Confirmed(b), Waiting(c)>>, <<SignedIn(1), SignedIn(2)>>, 3 :> Sent), None,
           [inviteMember |-> 2, acceptTrip |-> 2, registerTrip |-> 2, withdraw |-> 1, deleteMe |-> 2])

\* Somebody is added, removed and invited while the trip goes.
Leaving ==
  Scenario(Started(<<Administrator, Confirmed(b)>>, <<SignedIn(1), SignedIn(2)>>, <<>>), None,
           [inviteMember |-> 1, acceptTrip |-> 1, addMember |-> 1, removeMember |-> 1, deleteTrip |-> 1,
            withdraw |-> 1, time |-> 1])

AllScenarios ==
  {Tabs, Passwords, Links, Administration, Registration, Purging, Inviting, Membership, Leaving}
=============================================================================
