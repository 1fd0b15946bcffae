-------------------------- MODULE ProviderRequests --------------------------
(***************************************************************************)
(* What the backend asks of servers that are not its own: routes, places,  *)
(* map tiles and the targets of short links.  Concurrent requests for one  *)
(* identity share one call (package requestwork), answers are kept in the  *)
(* database or in memory, and routes and places are asked for under a      *)
(* daily and a minute limit counted in provider_usage.                     *)
(*                                                                         *)
(* A reader is one HTTP request.  A call is one goroutine of a             *)
(* requestwork.Group; the call of a leg is itself a reader of the group    *)
(* that asks the provider for the leg's route.                             *)
(***************************************************************************)
EXTENDS Naturals, FiniteSets, Sequences, FiniteSetsExt

CONSTANTS
  Readers,      \* the HTTP requests
  Calls,        \* bound: the goroutines of the groups
  Keys,         \* what is asked about: two ends, a text, a tile, a link
  None,         \* no call, no kept answer
  Daily,        \* requests a service may get in the counted hours
  PerMinute,    \* requests a service may get in a minute
  Window,       \* the hours Requests24h counts, 24 in the code
  MaxMemo,      \* answers a memory cache holds, 256 in the code
  Slots,        \* tiles fetched at once, fetchWorkers in the code
  MaxHour,      \* bound: the last hour of the clock
  Journeys      \* bound: what each reader asks for, one after the other, and
                \* how often the clock, the cache, the browsers and the process
                \* may interfere

ASSUME LimitsAssumption ==
  /\ Daily \in Nat /\ PerMinute \in Nat /\ Window \in Nat \ {0}
  /\ MaxMemo \in Nat \ {0} /\ Slots \in Nat \ {0}
  /\ MaxHour \in Nat
ASSUME NamesAssumption == None \notin Calls /\ Readers \cap Calls = {}

WishKinds == {"calculate", "recalculate", "alternatives", "search", "tile", "link"}
Wish == [kind : WishKinds, key : Keys]
ASSUME JourneysAssumption == \A journey \in Journeys : journey.todo \in [Readers -> Seq(Wish)]

VARIABLES
  reader,    \* each HTTP request: what it still asks, where it stands
  call,      \* each goroutine
  open,      \* Group.calls: the call a newcomer joins, of every group
  kept,      \* the answers held: in the database, or in memory
  used,      \* provider_usage: requests recorded per service and hour
  inflight,  \* Service.inflight: admitted, not recorded yet
  recent,    \* requests of the last minute
  hour,      \* the clock
  sent,      \* history: requests admitted, by hour
  lost,      \* history: of those, the ones a restart left unrecorded
  left       \* bound: interferences that may still come

vars == <<reader, call, open, kept, used, inflight, recent, hour, sent, lost, left>>
quota == <<used, inflight, recent, sent, lost>>
clock == <<hour, left>>

Services == {"directions", "geocode"}
Hours == 0..MaxHour
Kinds == {"leg", "route", "routes", "place", "tile", "link"}
Identity == [kind : Kinds, key : Keys]
Outcomes == {"found", "noroute", "limited", "failed", "refused", "cancelled"}

(***************************************************************************)
(* What each kind of server may answer, as its client tells it apart.      *)
(***************************************************************************)
OrsAnswers == {"found", "noroute", "limited", "failed"}
ValhallaAnswers == {"found", "noroute", "limited", "failed"}
OsrmAnswers == {"found", "noroute", "limited", "failed"}
PeliasAnswers == {"found", "limited", "failed"}
PhotonAnswers == {"found", "limited", "failed"}
NominatimAnswers == {"found", "limited", "failed"}
TileAnswers == {"found", "failed"}
LinkAnswers == {"found", "failed"}

Answers(kind) ==
  CASE kind \in {"route", "routes"} -> OrsAnswers \cup ValhallaAnswers \cup OsrmAnswers
    [] kind = "place" -> PeliasAnswers \cup PhotonAnswers \cup NominatimAnswers
    [] kind = "tile"  -> TileAnswers
    [] OTHER -> LinkAnswers

ServiceOf(kind) == IF kind = "place" THEN "geocode" ELSE "directions"
Limited == {"route", "routes", "place"}
InMemory == {"route", "routes", "link"}

(* What is kept of an answer: routes of a choice and no-route answers in   *)
(* the memo, never a failure; a single route goes to the leg's cache only. *)
Keeps(kind, out) ==
  \/ out = "found" /\ kind # "route"
  \/ out = "noroute" /\ kind \in {"route", "routes"}

(* The memo of routes, and that of links, each with its bound: an arbitrary *)
(* answer makes room.                                                      *)
SameMemo(i) == IF i.kind = "link" THEN {"link"} ELSE {"route", "routes"}
Held(i) == {j \in Identity : j.kind \in SameMemo(i) /\ kept[j] # None}
keep(i, out) ==
  IF i.kind \in InMemory /\ Cardinality(Held(i)) >= MaxMemo
    THEN \E gone \in Held(i) : kept' = [kept EXCEPT ![gone] = None, ![i] = out]
    ELSE kept' = [kept EXCEPT ![i] = out]

-----------------------------------------------------------------------------
(* requestwork.Group, one for each kind *)

NoCall == [id |-> None, readers |-> {}, cancelled |-> FALSE, pc |-> "none",
           on |-> None, out |-> None, hour |-> 0]
NewCall(i, who) == [NoCall EXCEPT !.id = i, !.readers = {who}, !.pc = "look"]
Fresh == CHOOSE c \in Calls : call[c].pc = "none"

(* The locked part of Do: the call of the identity, or a new one.          *)
HasRoom(i) == open[i] # None \/ \E c \in Calls : call[c].pc = "none"
CallOf(i) == IF open[i] = None THEN Fresh ELSE open[i]
Joined(i, who) ==
  IF open[i] = None
    THEN [call EXCEPT ![Fresh] = NewCall(i, who)]
    ELSE [call EXCEPT ![open[i]].readers = @ \cup {who}]

(* The deferred part of Do: the last reader cancels the work and takes it  *)
(* out of the map, so that a newcomer starts its own.                      *)
\* Mutant: the last reader cancels the work and leaves it in the map.
StaysOpen(c, who) == open
LastOf(c, who) == call[c].readers \subseteq {who}
Closed(c) == IF open[call[c].id] = c THEN [open EXCEPT ![call[c].id] = None] ELSE open
WithoutReader(c, who) ==
  LET rest == [call[c] EXCEPT !.readers = @ \ {who}] IN
    IF rest.readers # {} THEN rest
    ELSE IF rest.pc = "done" THEN NoCall
    ELSE [rest EXCEPT !.cancelled = TRUE]
LeftOpen(c, who) == IF LastOf(c, who) THEN Closed(c) ELSE open

(* The end of the goroutine.  A call nobody waits for is garbage.          *)
Finish(c) ==
  /\ call[c].pc = "end"
  /\ open' = Closed(c)
  /\ call' = [call EXCEPT ![c] = IF @.readers = {} THEN NoCall ELSE [@ EXCEPT !.pc = "done"]]
  /\ UNCHANGED <<reader, kept, quota, clock>>

Advance(c, pc) == call' = [call EXCEPT ![c].pc = pc]
Conclude(c, out) == call' = [call EXCEPT ![c].pc = "end", ![c].out = out]

-----------------------------------------------------------------------------
(* The work of a call *)

AfterLook == [leg |-> "join", route |-> "admit", routes |-> "admit",
              place |-> "admit", tile |-> "slot", link |-> "asking"]

(* The second look at what is kept: by now an earlier call may have filled *)
(* it.  A database read fails when the call's readers have all left.       *)
Look(c) ==
  LET i == call[c].id
      readable == i.kind \in InMemory \/ ~call[c].cancelled
  IN
    /\ call[c].pc = "look"
    /\ IF kept[i] # None /\ readable
         THEN Conclude(c, kept[i])
         ELSE Advance(c, AfterLook[i.kind])
    /\ UNCHANGED <<reader, open, kept, quota, clock>>

CountedHours == {h \in Hours : h + Window > hour /\ h <= hour}
Requests24h(s) == MapThenSumSet(LAMBDA h : used[s][h], CountedHours)

(* admit, under the admission lock: the daily limit counts the requests    *)
(* recorded and those in flight; the database may fail to say.             *)
Admit(c) ==
  LET s == ServiceOf(call[c].id.kind) IN
    /\ call[c].pc = "admit"
    /\ \/ /\ call[c].cancelled
          /\ Conclude(c, "failed")
          /\ UNCHANGED quota
       \/ /\ ~call[c].cancelled
          /\ \/ Daily > 0 /\ Requests24h(s) + inflight[s] >= Daily
             \/ PerMinute > 0 /\ recent[s] >= PerMinute
          /\ Conclude(c, "refused")
          /\ UNCHANGED quota
       \/ /\ ~call[c].cancelled
          /\ Daily > 0 => Requests24h(s) + inflight[s] < Daily
          /\ PerMinute > 0 => recent[s] < PerMinute
          /\ recent' = [recent EXCEPT ![s] = @ + 1]
          /\ inflight' = [inflight EXCEPT ![s] = @ + 1]
          /\ sent' = [sent EXCEPT ![s][hour] = @ + 1]
          /\ call' = [call EXCEPT ![c].pc = "asking", ![c].hour = hour]
          /\ UNCHANGED <<used, lost>>
    /\ UNCHANGED <<reader, open, kept, clock>>

(* A tile waits for one of the slots, or for its readers to leave.         *)
HoldsSlot(c) == call[c].pc \in {"asking", "keep"} /\ call[c].id.kind = "tile"
TakeSlot(c) ==
  /\ call[c].pc = "slot"
  /\ \/ Cardinality({d \in Calls : HoldsSlot(d)}) < Slots /\ Advance(c, "asking")
     \/ call[c].cancelled /\ Conclude(c, "cancelled")
  /\ UNCHANGED <<reader, open, kept, quota, clock>>

(* The server answers, or the client's timeout does.                       *)
Answer(c) ==
  /\ call[c].pc = "asking"
  /\ \E out \in Answers(call[c].id.kind) :
       call' = [call EXCEPT ![c].out = out,
                            ![c].pc = IF call[c].id.kind \in Limited THEN "release" ELSE "keep"]
  /\ UNCHANGED <<reader, open, kept, quota, clock>>

\* Mutant: a place is given back although its request was not recorded.
ReleaseAnyway(c) ==
  LET s == ServiceOf(call[c].id.kind) IN
    /\ call[c].pc = "release"
    /\ \/ used' = [used EXCEPT ![s][call[c].hour] = @ + 1]
       \/ UNCHANGED used
    /\ inflight' = [inflight EXCEPT ![s] = @ - 1]
    /\ Advance(c, "keep")
    /\ UNCHANGED <<reader, open, kept, recent, sent, lost, clock>>

(* The release of admit: the attempt is recorded in the hour it was        *)
(* admitted in, whether its readers left or not; when that fails, its      *)
(* place stays taken.                                                      *)
Release(c) ==
  LET s == ServiceOf(call[c].id.kind) IN
    /\ call[c].pc = "release"
    /\ \/ /\ used' = [used EXCEPT ![s][call[c].hour] = @ + 1]
          /\ inflight' = [inflight EXCEPT ![s] = @ - 1]
       \/ UNCHANGED <<used, inflight>>
    /\ Advance(c, "keep")
    /\ UNCHANGED <<reader, open, kept, recent, sent, lost, clock>>

(* What is worth keeping is kept: in memory, or in the database while      *)
(* somebody still waits (a cancelled context writes nothing).              *)
Keep(c) ==
  LET i == call[c].id IN
    /\ call[c].pc = "keep"
    /\ IF Keeps(i.kind, call[c].out) /\ (i.kind \in InMemory \/ ~call[c].cancelled)
         THEN keep(i, call[c].out)
         ELSE UNCHANGED kept
    /\ Advance(c, "end")
    /\ UNCHANGED <<reader, open, quota, clock>>

(* The call of a leg reads the group of provider requests.                 *)
\* Mutant: legs and routes share one group and one key.
SameGroup(i) == i

RouteOf(i) == [kind |-> "route", key |-> i.key]
LegJoin(c) ==
  LET i == RouteOf(call[c].id) IN
    /\ call[c].pc = "join"
    /\ \/ /\ call[c].cancelled
          /\ Conclude(c, "cancelled")
          /\ UNCHANGED open
       \/ /\ ~call[c].cancelled /\ HasRoom(i)
          /\ call' = [Joined(i, c) EXCEPT ![c].pc = "wait", ![c].on = CallOf(i)]
          /\ open' = [open EXCEPT ![i] = CallOf(i)]
    /\ UNCHANGED <<reader, kept, quota, clock>>

LegReceive(c) ==
  LET d == call[c].on IN
    /\ call[c].pc = "wait" /\ call[d].pc = "done"
    /\ call' = [call EXCEPT ![d] = WithoutReader(d, c),
                            ![c].pc = IF call[d].out = "found" THEN "keep" ELSE "end",
                            ![c].out = call[d].out, ![c].on = None]
    /\ open' = LeftOpen(d, c)
    /\ UNCHANGED <<reader, kept, quota, clock>>

LegLeave(c) ==
  LET d == call[c].on IN
    /\ call[c].pc = "wait" /\ call[c].cancelled
    /\ call' = [call EXCEPT ![d] = WithoutReader(d, c),
                            ![c].pc = "end", ![c].out = "cancelled", ![c].on = None]
    /\ open' = LeftOpen(d, c)
    /\ UNCHANGED <<reader, kept, quota, clock>>

Work(c) == \/ Look(c) \/ Admit(c) \/ TakeSlot(c) \/ Answer(c) \/ Release(c)
           \/ Keep(c) \/ LegJoin(c) \/ LegReceive(c) \/ LegLeave(c) \/ Finish(c)

-----------------------------------------------------------------------------
(* The readers *)

Wanted(r) == Head(reader[r].todo)

(* The group a wish is served by, and whether it looks at the cache before *)
(* it joins it.                                                            *)
GroupOf == [calculate |-> "leg", recalculate |-> "leg", alternatives |-> "routes",
            search |-> "place", tile |-> "tile", link |-> "link"]
Target(r) == [kind |-> GroupOf[Wanted(r).kind], key |-> Wanted(r).key]
FirstStep == [calculate |-> "look", recalculate |-> "forget", alternatives |-> "join",
              search |-> "look", tile |-> "look", link |-> "join"]

Move(r, pc) == reader' = [reader EXCEPT ![r].pc = pc]
Standing(todo) == [todo |-> todo, on |-> None, gone |-> FALSE,
                   pc |-> IF todo = <<>> THEN "idle" ELSE FirstStep[Head(todo).kind]]
Answered(r) == reader' = [reader EXCEPT ![r] = Standing(Tail(@.todo))]

May(what) == left[what] > 0
Spend(what) == left' = [left EXCEPT ![what] = @ - 1]

(* The browser goes away, or the request's deadline passes.                *)
Disconnect(r) ==
  /\ reader[r].pc # "idle" /\ ~reader[r].gone
  /\ May("leaves") /\ Spend("leaves")
  /\ reader' = [reader EXCEPT ![r].gone = TRUE]
  /\ UNCHANGED <<call, open, kept, quota, hour>>

(* Forget: a forced calculation drops the memos, then the cached route;    *)
(* when the database refuses, the calculation ends there.                  *)
ForgetMemo(r) ==
  /\ reader[r].pc = "forget"
  /\ kept' = [i \in Identity |->
                IF i.kind \in {"route", "routes"} /\ i.key = Wanted(r).key THEN None ELSE kept[i]]
  /\ Move(r, "delete")
  /\ UNCHANGED <<call, open, quota, clock>>

ForgetRoute(r) ==
  /\ reader[r].pc = "delete"
  /\ IF reader[r].gone
       THEN Answered(r) /\ UNCHANGED kept
       ELSE Move(r, "look") /\ kept' = [kept EXCEPT ![Target(r)] = None]
  /\ UNCHANGED <<call, open, quota, clock>>

LookFirst(r) ==
  /\ reader[r].pc = "look"
  /\ IF kept[Target(r)] # None /\ ~reader[r].gone THEN Answered(r) ELSE Move(r, "join")
  /\ UNCHANGED <<call, open, kept, quota, clock>>

Join(r) ==
  /\ reader[r].pc = "join"
  /\ IF reader[r].gone
       THEN Answered(r) /\ UNCHANGED <<call, open>>
       ELSE /\ HasRoom(Target(r))
            /\ call' = Joined(Target(r), r)
            /\ open' = [open EXCEPT ![Target(r)] = CallOf(Target(r))]
            /\ reader' = [reader EXCEPT ![r].pc = "wait", ![r].on = CallOf(Target(r))]
  /\ UNCHANGED <<kept, quota, clock>>

(* The call is done and its answer read: alternatives fill the cache of    *)
(* the leg with the best of the routes.                                    *)
Receive(r) ==
  LET c == reader[r].on IN
    /\ reader[r].pc = "wait" /\ call[c].pc = "done"
    /\ call' = [call EXCEPT ![c] = WithoutReader(c, r)]
    /\ open' = LeftOpen(c, r)
    /\ IF Wanted(r).kind = "alternatives" /\ call[c].out = "found"
         THEN reader' = [reader EXCEPT ![r].pc = "put", ![r].on = None]
         ELSE Answered(r)
    /\ UNCHANGED <<kept, quota, clock>>

PutBest(r) ==
  /\ reader[r].pc = "put"
  /\ kept' = IF reader[r].gone THEN kept
             ELSE [kept EXCEPT ![[kind |-> "leg", key |-> Wanted(r).key]] = "found"]
  /\ Answered(r)
  /\ UNCHANGED <<call, open, quota, clock>>

Leave(r) ==
  LET c == reader[r].on IN
    /\ reader[r].pc = "wait" /\ reader[r].gone
    /\ call' = [call EXCEPT ![c] = WithoutReader(c, r)]
    /\ open' = LeftOpen(c, r)
    /\ Answered(r)
    /\ UNCHANGED <<kept, quota, clock>>

Read(r) == \/ ForgetMemo(r) \/ ForgetRoute(r) \/ LookFirst(r) \/ Join(r)
           \/ Receive(r) \/ PutBest(r) \/ Leave(r)

-----------------------------------------------------------------------------
(* Time and failure *)

(* An answer's lifetime ends; the sweep's Purge deletes such answers only. *)
Expire(i) ==
  /\ kept[i] # None
  /\ May("expiries") /\ Spend("expiries")
  /\ kept' = [kept EXCEPT ![i] = None]
  /\ UNCHANGED <<reader, call, open, quota, hour>>

MinutePasses(s) ==
  /\ recent[s] > 0
  /\ May("minutes") /\ Spend("minutes")
  /\ recent' = [recent EXCEPT ![s] = 0]
  /\ UNCHANGED <<reader, call, open, kept, used, inflight, sent, lost, hour>>

HourPasses ==
  /\ hour < MaxHour
  /\ May("hours") /\ Spend("hours")
  /\ hour' = hour + 1
  /\ recent' = [s \in Services |-> 0]
  /\ UNCHANGED <<reader, call, open, kept, used, inflight, sent, lost>>

(* The process ends and starts again: calls, memos, minute slots and the   *)
(* requests in flight are forgotten, the tables are not; the browsers ask  *)
(* again.                                                                  *)
Restart ==
  /\ May("restarts") /\ Spend("restarts")
  /\ reader' = [r \in Readers |-> Standing(reader[r].todo)]
  /\ call' = [c \in Calls |-> NoCall]
  /\ open' = [i \in Identity |-> None]
  /\ kept' = [i \in Identity |-> IF i.kind \in InMemory THEN None ELSE kept[i]]
  /\ inflight' = [s \in Services |-> 0]
  /\ recent' = [s \in Services |-> 0]
  /\ lost' = [s \in Services |-> [h \in Hours |-> sent[s][h] - used[s][h]]]
  /\ UNCHANGED <<used, sent, hour>>

-----------------------------------------------------------------------------
Unused == [s \in Services |-> [h \in Hours |-> 0]]

Init ==
  /\ \E journey \in Journeys :
       /\ reader = [r \in Readers |-> Standing(journey.todo[r])]
       /\ left = journey.left
  /\ call = [c \in Calls |-> NoCall]
  /\ open = [i \in Identity |-> None]
  /\ kept = [i \in Identity |-> None]
  /\ used = Unused /\ sent = Unused /\ lost = Unused
  /\ inflight = [s \in Services |-> 0]
  /\ recent = [s \in Services |-> 0]
  /\ hour = 0

Next ==
  \/ \E r \in Readers : Disconnect(r) \/ Read(r)
  \/ \E c \in Calls : Work(c)
  \/ \E i \in Identity : Expire(i)
  \/ \E s \in Services : MinutePasses(s)
  \/ HourPasses \/ Restart

(* Goroutines are scheduled; every client has a timeout, so every server   *)
(* answers or is given up on.                                              *)
Fairness == /\ \A r \in Readers : WF_vars(Read(r))
            /\ \A c \in Calls : WF_vars(Work(c))

Spec == Init /\ [][Next]_vars /\ Fairness

-----------------------------------------------------------------------------
(* Whoever waits, waits on work that is not cancelled: a newcomer is never *)
(* handed the call its last reader is leaving (requestwork.Group.Do), and  *)
(* so no reader gets the failure of work somebody else gave up.            *)
WaitedWorkIsLive ==
  \A c \in Calls : call[c].readers # {} => ~call[c].cancelled

(* One identity has one piece of live work at most, and that is the one a  *)
(* newcomer joins: the end of an abandoned call never takes a newer one    *)
(* out of the map, so a server is not asked twice at once for one thing    *)
(* somebody waits for.                                                     *)
LiveWork(i) == {c \in Calls : /\ call[c].id = i /\ call[c].pc \notin {"none", "done"}
                              /\ ~call[c].cancelled}
OneRequestAtATime ==
  \A i \in Identity : LiveWork(i) \subseteq {open[i]}

(* What several want of one thing is done once, for all of them.           *)
WorkIsSharedAlive == WaitedWorkIsLive /\ OneRequestAtATime

(* A service never gets more requests in the counted hours than its daily  *)
(* limit, whatever is in flight, given up or not recorded; a restart       *)
(* forgets only those that were on their way (admit, Requests24h, Record). *)
DailyLimitKept ==
  Daily > 0 =>
    \A s \in Services :
      MapThenSumSet(LAMBDA h : sent[s][h] - lost[s][h], CountedHours) <= Daily

(* Every reader gets an answer or is told why there is none: nobody waits  *)
(* for ever on a call, a slot or another call.                             *)
EveryReaderIsAnswered ==
  \A r \in Readers : reader[r].pc # "idle" ~> reader[r].pc = "idle"
=============================================================================
