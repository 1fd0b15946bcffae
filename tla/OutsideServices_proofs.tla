------------------------ MODULE OutsideServices_proofs ------------------------
(***************************************************************************)
(* Shared work, for any number of readers, calls and identities: nobody    *)
(* waits on cancelled work, and one identity has one piece of live work.   *)
(* What makes the two inductive is that a group's map never lies: the call *)
(* it holds for an identity asks for that identity, has not ended and is   *)
(* not cancelled.                                                          *)
(*                                                                         *)
(* The invariant is stated of any calls cl and any map op, so that a step  *)
(* that does two things at once (a leg that goes on and lets its route go) *)
(* is proved by two lemmas, one after the other.                           *)
(*                                                                         *)
(* The daily limit is a second invariant on top of it: inflight counts     *)
(* exactly the admitted requests that provider_usage does not know of, and *)
(* every one on its way is among them, in the hour it was admitted in.     *)
(* The sums of hours are counted as sets of pairs.                         *)
(*                                                                         *)
(* The last part is the safety of the outbox (see MailOutbox).             *)
(***************************************************************************)
EXTENDS ProviderRequests, MailOutbox, FiniteSetTheorems, FunctionTheorems, WellFoundedInduction, TLAPS

CallStages == {"none", "look", "admit", "slot", "asking", "release", "keep",
               "join", "wait", "end", "done"}
CallType ==
  [id : Identity \cup {None}, readers : SUBSET (Readers \cup Calls),
   cancelled : BOOLEAN, pc : CallStages, on : Calls \cup {None},
   out : Outcomes \cup {None}, hour : Nat]

CallTyped(s) ==
  /\ s \in CallType
  /\ s.pc # "none" => s.id \in Identity
  /\ s.pc = "wait" => s.on \in Calls

AtWork(s) == s.pc \notin {"none", "done"}

(* The calls and the map, each by itself, and what the one says of the     *)
(* other.                                                                  *)
Typed(cl, op) ==
  /\ cl \in [Calls -> CallType]
  /\ op \in [Identity -> Calls \cup {None}]
  /\ \A c \in Calls : CallTyped(cl[c])

MapIsTrue(cl, op) ==
  \A i \in Identity : op[i] # None =>
    cl[op[i]].id = i /\ AtWork(cl[op[i]]) /\ ~cl[op[i]].cancelled

MapIsComplete(cl, op) ==
  \A c \in Calls : AtWork(cl[c]) /\ ~cl[c].cancelled => op[cl[c].id] = c

WaitedIsLive(cl) == \A c \in Calls : cl[c].readers # {} => ~cl[c].cancelled

Shared(cl, op) ==
  Typed(cl, op) /\ MapIsTrue(cl, op) /\ MapIsComplete(cl, op) /\ WaitedIsLive(cl)

ReaderStages == {"idle", "look", "forget", "delete", "join", "wait", "put"}
ReaderType == [todo : Seq(Wish), on : Calls \cup {None}, gone : BOOLEAN, pc : ReaderStages]
ReaderTyped(s) ==
  /\ s \in ReaderType
  /\ s.pc # "idle" => s.todo # <<>>
  /\ s.pc = "wait" => s.on \in Calls
ReadersTyped ==
  /\ reader \in [Readers -> ReaderType]
  /\ \A r \in Readers : ReaderTyped(reader[r])

KeptTyped == kept \in [Identity -> {"found", "noroute", None}]

IInv == Shared(call, open) /\ ReadersTyped /\ KeptTyped /\ hour \in Nat

-----------------------------------------------------------------------------
(* What happens to the calls and the map *)

(* A call at work goes on, with the same readers, and stays at work.       *)
GoesOn(s, t) ==
  /\ AtWork(s) /\ AtWork(t) /\ CallTyped(t)
  /\ t.id = s.id /\ t.readers = s.readers /\ t.cancelled = s.cancelled

LEMMA GoingOnKeeps ==
  ASSUME NEW cl, NEW op, Shared(cl, op), NEW c \in Calls, NEW t, GoesOn(cl[c], t)
  PROVE  Shared([cl EXCEPT ![c] = t], op)
<1> DEFINE new == [cl EXCEPT ![c] = t]
<1>1. /\ \A d \in Calls : new[d] = IF d = c THEN t ELSE cl[d]
      /\ new \in [Calls -> CallType]
  BY DEF Shared, Typed, GoesOn, CallTyped
<1>2. Typed(new, op)
  BY <1>1 DEF Shared, Typed, GoesOn
<1>3. MapIsTrue(new, op)
  BY <1>1 DEF Shared, MapIsTrue, GoesOn, Typed
<1>4. MapIsComplete(new, op)
  BY <1>1 DEF Shared, MapIsComplete, GoesOn
<1>5. WaitedIsLive(new)
  BY <1>1 DEF Shared, WaitedIsLive, GoesOn
<1> QED
  BY <1>2, <1>3, <1>4, <1>5 DEF Shared

(* A reader joins the call of an identity, or a new one.                   *)
LEMMA JoiningKeeps ==
  ASSUME Shared(call, open), NEW i \in Identity, NEW who \in Readers \cup Calls, HasRoom(i)
  PROVE  /\ Shared(Joined(i, who), [open EXCEPT ![i] = CallOf(i)])
         /\ CallOf(i) \in Calls
         /\ \A c \in Calls : AtWork(call[c]) =>
              Joined(i, who)[c].pc = call[c].pc /\ AtWork(Joined(i, who)[c])
<1> DEFINE cl == Joined(i, who)
           op == [open EXCEPT ![i] = CallOf(i)]
<1>1. CASE open[i] = None
  <2>1. PICK f \in Calls : f = Fresh /\ call[f].pc = "none"
    BY <1>1 DEF HasRoom, Fresh
  <2>2. /\ CallTyped(NewCall(i, who)) /\ NewCall(i, who).pc = "look"
        /\ NewCall(i, who).id = i /\ ~NewCall(i, who).cancelled
    <3>1. NoCall \in CallType /\ ~NoCall.cancelled
      BY DEF NoCall, CallType, CallStages
    <3>2. ASSUME NEW s \in CallType
          PROVE  LET n == [s EXCEPT !.id = i, !.readers = {who}, !.pc = "look"] IN
                   /\ n \in CallType /\ n.pc = "look" /\ n.id = i /\ n.cancelled = s.cancelled
      BY DEF CallType, CallStages
    <3> QED
      BY <3>1, <3>2 DEF NewCall, CallTyped
  <2>3. cl = [call EXCEPT ![f] = NewCall(i, who)] /\ op = [open EXCEPT ![i] = f] /\ CallOf(i) = f
    BY <1>1, <2>1 DEF Joined, CallOf
  <2>4. /\ \A d \in Calls : cl[d] = IF d = f THEN NewCall(i, who) ELSE call[d]
        /\ \A j \in Identity : op[j] = IF j = i THEN f ELSE open[j]
        /\ cl \in [Calls -> CallType] /\ op \in [Identity -> Calls \cup {None}]
    BY <2>2, <2>3 DEF Shared, Typed, CallTyped
  <2> HIDE DEF cl, op
  <2>5. Typed(cl, op)
    BY <2>2, <2>4 DEF Shared, Typed
  <2>6. MapIsTrue(cl, op)
    BY <2>1, <2>2, <2>4 DEF Shared, Typed, MapIsTrue, AtWork
  <2>7. MapIsComplete(cl, op)
    BY <1>1, <2>1, <2>2, <2>4, NamesAssumption DEF Shared, Typed, CallTyped, MapIsComplete, AtWork
  <2>8. WaitedIsLive(cl)
    BY <2>2, <2>4 DEF Shared, WaitedIsLive
  <2>9. \A c \in Calls : AtWork(call[c]) => cl[c].pc = call[c].pc /\ AtWork(cl[c])
    BY <2>1, <2>4 DEF AtWork
  <2> QED
    BY <2>3, <2>5, <2>6, <2>7, <2>8, <2>9 DEF Shared, cl, op
<1>2. CASE open[i] # None
  <2> DEFINE f == open[i]
             t == [call[f] EXCEPT !.readers = @ \cup {who}]
  <2>1. f \in Calls /\ CallTyped(call[f])
    BY <1>2 DEF Shared, Typed
  <2>2. /\ CallTyped(t) /\ t.id = call[f].id /\ t.pc = call[f].pc
        /\ t.cancelled = call[f].cancelled
    BY <2>1 DEF CallTyped, CallType
  <2>3. cl = [call EXCEPT ![f] = t] /\ op = open /\ CallOf(i) = f
    BY <1>2, <2>1 DEF Joined, CallOf, Shared, Typed
  <2>4. /\ \A d \in Calls : cl[d] = IF d = f THEN t ELSE call[d]
        /\ cl \in [Calls -> CallType]
    BY <2>1, <2>2, <2>3 DEF Shared, Typed, CallTyped
  <2>5. call[f].id = i /\ AtWork(call[f]) /\ ~call[f].cancelled
    BY <1>2 DEF Shared, MapIsTrue
  <2> HIDE DEF cl, op, t, f
  <2>6. Typed(cl, op)
    BY <2>2, <2>3, <2>4 DEF Shared, Typed
  <2>7. MapIsTrue(cl, op)
    BY <2>2, <2>3, <2>4 DEF Shared, Typed, MapIsTrue, AtWork
  <2>8. MapIsComplete(cl, op)
    BY <2>2, <2>3, <2>4 DEF Shared, MapIsComplete, AtWork
  <2>9. WaitedIsLive(cl)
    BY <2>2, <2>4, <2>5 DEF Shared, WaitedIsLive
  <2>10. \A c \in Calls : AtWork(call[c]) => cl[c].pc = call[c].pc /\ AtWork(cl[c])
    BY <2>2, <2>4 DEF AtWork
  <2> QED
    BY <2>1, <2>3, <2>6, <2>7, <2>8, <2>9, <2>10 DEF Shared, cl, op
<1> QED
  BY <1>1, <1>2

(* The last reader cancels the call and takes it out of the map, another   *)
(* only leaves it.                                                         *)
LEMMA LeavingKeeps ==
  ASSUME Shared(call, open), NEW c \in Calls, NEW who
  PROVE  /\ Shared([call EXCEPT ![c] = WithoutReader(c, who)], LeftOpen(c, who))
         /\ AtWork(call[c]) => /\ AtWork(WithoutReader(c, who))
                               /\ WithoutReader(c, who).pc = call[c].pc
<1> DEFINE t == WithoutReader(c, who)
           cl == [call EXCEPT ![c] = t]
           op == LeftOpen(c, who)
           rest == call[c].readers \ {who}
<1>1. CallTyped(call[c]) /\ call[c] \in CallType /\ open \in [Identity -> Calls \cup {None}]
  BY DEF Shared, Typed, CallTyped
<1>2. /\ [call[c] EXCEPT !.readers = rest] \in CallType
      /\ [call[c] EXCEPT !.readers = rest, !.cancelled = TRUE] \in CallType
      /\ NoCall \in CallType
  BY <1>1 DEF CallType, NoCall, CallStages
<1>3. \/ /\ rest # {} /\ t = [call[c] EXCEPT !.readers = rest]
         /\ op = open
      \/ /\ rest = {} /\ call[c].pc = "done" /\ t = NoCall
         /\ op = Closed(c)
      \/ /\ rest = {} /\ call[c].pc # "done"
         /\ t = [call[c] EXCEPT !.readers = rest, !.cancelled = TRUE]
         /\ op = Closed(c)
  BY <1>1, <1>2 DEF WithoutReader, LeftOpen, LastOf, CallType
<1>4. \A i \in Identity : Closed(c)[i] = IF open[i] = c /\ call[c].id = i THEN None ELSE open[i]
  BY <1>1 DEF Closed
<1>5. Closed(c) \in [Identity -> Calls \cup {None}]
  BY <1>1 DEF Closed
<1> DEFINE Left ==
      /\ CallTyped(t)
      /\ t.readers # {} => /\ t.cancelled = call[c].cancelled /\ t.id = call[c].id
                           /\ call[c].readers # {} /\ op = open
      /\ t.readers = {} => (t.cancelled \/ t.pc = "none") /\ op = Closed(c)
      /\ t.pc = call[c].pc \/ call[c].pc = "done"
      /\ AtWork(t) => AtWork(call[c]) /\ t.id = call[c].id
<1>6. Left
  <2>1. CASE rest # {} /\ t = [call[c] EXCEPT !.readers = rest] /\ op = open
    BY <1>1, <1>2, <2>1 DEF CallTyped, CallType, AtWork
  <2>2. CASE rest = {} /\ call[c].pc = "done" /\ t = NoCall /\ op = Closed(c)
    <3>1. t.readers = {} /\ t.pc = "none"
      BY <2>2 DEF NoCall
    <3> QED
      BY <1>2, <2>2, <3>1 DEF CallTyped, AtWork
  <2>3. CASE /\ rest = {} /\ call[c].pc # "done" /\ op = Closed(c)
             /\ t = [call[c] EXCEPT !.readers = rest, !.cancelled = TRUE]
    BY <1>1, <1>2, <2>3 DEF CallTyped, CallType, AtWork
  <2> HIDE DEF t, op, rest, Left
  <2> QED
    BY <1>3, <2>1, <2>2, <2>3
<1>7. /\ \A d \in Calls : cl[d] = IF d = c THEN t ELSE call[d]
      /\ cl \in [Calls -> CallType]
  BY <1>6 DEF Shared, Typed, CallTyped
<1> HIDE DEF t, cl, op, rest
<1>8. Typed(cl, op)
  BY <1>1, <1>5, <1>6, <1>7 DEF Shared, Typed, Left
<1>9. MapIsTrue(cl, op)
  BY <1>1, <1>4, <1>6, <1>7, NamesAssumption DEF Shared, MapIsTrue, AtWork, Left
<1>10. MapIsComplete(cl, op)
  BY <1>1, <1>4, <1>6, <1>7 DEF Shared, Typed, CallTyped, MapIsComplete, AtWork, Left
<1>11. WaitedIsLive(cl)
  BY <1>6, <1>7 DEF Shared, WaitedIsLive, Left
<1>12. AtWork(call[c]) => AtWork(t) /\ t.pc = call[c].pc
  BY <1>6, <1>7 DEF AtWork, Left
<1> QED
  BY <1>8, <1>9, <1>10, <1>11, <1>12 DEF Shared, t, cl, op

(* The goroutine of a call ends: the call leaves the map, never another    *)
(* one of the same identity.                                               *)
LEMMA EndingKeeps ==
  ASSUME IInv, NEW c \in Calls, Finish(c)
  PROVE  Shared(call', open')
<1> DEFINE t == IF call[c].readers = {} THEN NoCall ELSE [call[c] EXCEPT !.pc = "done"]
<1>1. Shared(call, open) /\ call[c].pc = "end" /\ call \in [Calls -> CallType]
  BY DEF IInv, Finish, Shared, Typed
<1>2. /\ CallTyped(call[c]) /\ call[c] \in CallType
      /\ open \in [Identity -> Calls \cup {None}]
  BY <1>1 DEF Shared, Typed, CallTyped
<1>3. call' = [call EXCEPT ![c] = t] /\ open' = Closed(c)
  BY <1>1 DEF Finish
<1>4. /\ CallTyped(t) /\ t.pc \in {"none", "done"}
      /\ t.readers # {} => call[c].readers # {} /\ t.cancelled = call[c].cancelled
  BY <1>1, <1>2 DEF CallTyped, CallType, CallStages, NoCall
<1>5. \A i \in Identity : open'[i] = IF open[i] = c /\ call[c].id = i THEN None ELSE open[i]
  BY <1>2, <1>3 DEF Closed
<1>6. open' \in [Identity -> Calls \cup {None}]
  BY <1>2, <1>3 DEF Closed
<1> HIDE DEF t
<1>7. /\ \A d \in Calls : call'[d] = IF d = c THEN t ELSE call[d]
      /\ call' \in [Calls -> CallType]
  BY <1>1, <1>3, <1>4 DEF CallTyped
<1>8. Typed(call', open')
  BY <1>1, <1>4, <1>6, <1>7 DEF Shared, Typed
<1>9. MapIsTrue(call', open')
  BY <1>1, <1>2, <1>5, <1>7 DEF Shared, MapIsTrue
<1>10. MapIsComplete(call', open')
  BY <1>1, <1>4, <1>5, <1>7 DEF Shared, Typed, CallTyped, MapIsComplete, AtWork
<1>11. WaitedIsLive(call')
  BY <1>1, <1>4, <1>7 DEF Shared, WaitedIsLive
<1> QED
  BY <1>8, <1>9, <1>10, <1>11 DEF Shared

-----------------------------------------------------------------------------
(* The steps of a call *)

(* The answers kept are answers: only those worth keeping are put there.   *)
LEMMA KeepingKeeps ==
  ASSUME KeptTyped, NEW i \in Identity, NEW out, Keeps(i.kind, out), keep(i, out)
  PROVE  KeptTyped'
BY DEF KeptTyped, Keeps, keep, Held

(* A call that looks, is admitted or not, waits for its slot, is answered, *)
(* records its request or keeps its answer has gone on.                    *)
LEMMA WorkingGoesOn ==
  ASSUME IInv, NEW c \in Calls,
         Look(c) \/ Admit(c) \/ TakeSlot(c) \/ Answer(c) \/ Release(c) \/ Keep(c)
  PROVE  IInv'
<1>1. /\ Shared(call, open) /\ call \in [Calls -> CallType] /\ CallTyped(call[c])
      /\ call[c] \in CallType /\ hour \in Nat
  BY DEF IInv, Shared, Typed, CallTyped
<1>2. UNCHANGED <<open, reader, hour>>
  BY DEF Look, Admit, TakeSlot, Answer, Release, Keep, clock
<1>3. PICK t : call' = [call EXCEPT ![c] = t] /\ GoesOn(call[c], t)
  <2>1. ASSUME NEW s \in CallType, AtWork(s), s.id \in Identity,
               NEW pc \in CallStages \ {"none", "wait", "done"}, NEW out \in Outcomes \cup {None},
               NEW h \in Nat
        PROVE  /\ GoesOn(s, [s EXCEPT !.pc = pc])
               /\ GoesOn(s, [s EXCEPT !.pc = pc, !.out = out])
               /\ GoesOn(s, [s EXCEPT !.out = out, !.pc = pc])
               /\ GoesOn(s, [s EXCEPT !.pc = pc, !.hour = h])
    BY <2>1 DEF GoesOn, CallTyped, CallType, AtWork
  <2> HIDE DEF GoesOn
  <2>2. AtWork(call[c]) /\ call[c].id \in Identity
    BY <1>1 DEF AtWork, CallTyped, Look, Admit, TakeSlot, Answer, Release, Keep
  <2>3. CASE Look(c)
    <3>1. AfterLook[call[c].id.kind] \in {"join", "admit", "slot", "asking"}
      BY <2>2 DEF AfterLook, Identity, Kinds
    <3>2. kept[call[c].id] \in Outcomes \cup {None}
      BY <2>2 DEF IInv, KeptTyped, Outcomes
    <3>3. \/ call' = [call EXCEPT ![c].pc = "end", ![c].out = kept[call[c].id]]
          \/ call' = [call EXCEPT ![c].pc = AfterLook[call[c].id.kind]]
      BY <2>3 DEF Look, Conclude, Advance
    <3>4. \/ call' = [call EXCEPT ![c] = [call[c] EXCEPT !.pc = "end", !.out = kept[call[c].id]]]
          \/ call' = [call EXCEPT ![c] = [call[c] EXCEPT !.pc = AfterLook[call[c].id.kind]]]
      BY <1>1, <3>3
    <3>5. GoesOn(call[c], [call[c] EXCEPT !.pc = "end", !.out = kept[call[c].id]])
      BY <1>1, <2>1, <2>2, <3>2 DEF CallStages
    <3>6. GoesOn(call[c], [call[c] EXCEPT !.pc = AfterLook[call[c].id.kind]])
      BY <1>1, <2>1, <2>2, <3>1 DEF CallStages
    <3> QED
      BY <3>4, <3>5, <3>6
  <2>4. CASE Admit(c)
    <3>1. \/ call' = [call EXCEPT ![c].pc = "end", ![c].out = "failed"]
          \/ call' = [call EXCEPT ![c].pc = "end", ![c].out = "refused"]
          \/ call' = [call EXCEPT ![c].pc = "asking", ![c].hour = hour]
      BY <2>4 DEF Admit, Conclude
    <3>2. \/ call' = [call EXCEPT ![c] = [call[c] EXCEPT !.pc = "end", !.out = "failed"]]
          \/ call' = [call EXCEPT ![c] = [call[c] EXCEPT !.pc = "end", !.out = "refused"]]
          \/ call' = [call EXCEPT ![c] = [call[c] EXCEPT !.pc = "asking", !.hour = hour]]
      BY <1>1, <3>1
    <3> QED
      BY <1>1, <2>1, <2>2, <3>2 DEF CallStages, Outcomes
  <2>5. CASE TakeSlot(c)
    <3>1. \/ call' = [call EXCEPT ![c].pc = "end", ![c].out = "cancelled"]
          \/ call' = [call EXCEPT ![c].pc = "asking"]
      BY <2>5 DEF TakeSlot, Conclude, Advance
    <3>2. \/ call' = [call EXCEPT ![c] = [call[c] EXCEPT !.pc = "end", !.out = "cancelled"]]
          \/ call' = [call EXCEPT ![c] = [call[c] EXCEPT !.pc = "asking"]]
      BY <1>1, <3>1
    <3> QED
      BY <1>1, <2>1, <2>2, <3>2 DEF CallStages, Outcomes
  <2>6. CASE Answer(c)
    <3>1. PICK out \in Answers(call[c].id.kind), pc \in {"release", "keep"} :
            call' = [call EXCEPT ![c].out = out, ![c].pc = pc]
      BY <2>6 DEF Answer
    <3>2. out \in Outcomes
      BY <3>1 DEF Answers, Outcomes, OrsAnswers, ValhallaAnswers, OsrmAnswers, PeliasAnswers,
         PhotonAnswers, NominatimAnswers, TileAnswers, LinkAnswers
    <3>3. call' = [call EXCEPT ![c] = [call[c] EXCEPT !.out = out, !.pc = pc]]
      BY <1>1, <3>1
    <3> QED
      BY <1>1, <2>1, <2>2, <3>2, <3>3 DEF CallStages
  <2>7. CASE Release(c) \/ Keep(c)
    <3>1. PICK pc \in {"keep", "end"} : call' = [call EXCEPT ![c].pc = pc]
      BY <2>7 DEF Release, Keep, Advance
    <3>2. call' = [call EXCEPT ![c] = [call[c] EXCEPT !.pc = pc]]
      BY <1>1, <3>1
    <3> QED
      BY <1>1, <2>1, <2>2, <3>2 DEF CallStages
  <2> QED
    BY <2>3, <2>4, <2>5, <2>6, <2>7
<1>4. Shared(call', open')
  BY <1>1, <1>2, <1>3, GoingOnKeeps
<1>5. KeptTyped'
  <2>1. CASE Keep(c) /\ keep(call[c].id, call[c].out) /\ Keeps(call[c].id.kind, call[c].out)
    <3>1. call[c].id \in Identity
      BY <1>1, <2>1 DEF Keep, CallTyped
    <3> QED
      BY <2>1, <3>1, KeepingKeeps DEF IInv
  <2>2. CASE UNCHANGED kept
    BY <2>2 DEF IInv, KeptTyped
  <2> QED
    BY <2>1, <2>2 DEF Look, Admit, TakeSlot, Answer, Release, Keep
<1> QED
  BY <1>2, <1>4, <1>5 DEF IInv, ReadersTyped

(* A leg joins the call of its route, or gives up before it has one.       *)
LEMMA LegJoinKeeps ==
  ASSUME IInv, NEW c \in Calls, LegJoin(c)
  PROVE  IInv'
<1> DEFINE i == RouteOf(call[c].id)
<1>1. /\ Shared(call, open) /\ call \in [Calls -> CallType] /\ CallTyped(call[c])
      /\ call[c] \in CallType /\ call[c].pc = "join" /\ call[c].id \in Identity
  BY DEF IInv, Shared, Typed, CallTyped, LegJoin
<1>2. i \in Identity
  BY <1>1 DEF RouteOf, Identity, Kinds
<1>3. ASSUME call' = [call EXCEPT ![c].pc = "end", ![c].out = "cancelled"], UNCHANGED open
      PROVE  Shared(call', open')
  <2>1. GoesOn(call[c], [call[c] EXCEPT !.pc = "end", !.out = "cancelled"])
    BY <1>1 DEF GoesOn, AtWork, CallTyped, CallType, CallStages, Outcomes
  <2>2. call' = [call EXCEPT ![c] = [call[c] EXCEPT !.pc = "end", !.out = "cancelled"]]
    BY <1>1, <1>3
  <2>3. Shared(call', open)
    BY <1>1, <2>1, <2>2, GoingOnKeeps
  <2> QED
    BY <1>3, <2>3
<1>4. ASSUME HasRoom(i), open' = [open EXCEPT ![i] = CallOf(i)],
             call' = [Joined(i, c) EXCEPT ![c].pc = "wait", ![c].on = CallOf(i)]
      PROVE  Shared(call', open')
  <2> DEFINE cl == Joined(i, c)
             op == [open EXCEPT ![i] = CallOf(i)]
             t == [cl[c] EXCEPT !.pc = "wait", !.on = CallOf(i)]
  <2>1. Shared(cl, op) /\ CallOf(i) \in Calls /\ AtWork(cl[c])
    BY <1>1, <1>2, <1>4, JoiningKeeps DEF AtWork
  <2>2. cl \in [Calls -> CallType] /\ CallTyped(cl[c])
    BY <2>1 DEF Shared, Typed
  <2>3. call' = [cl EXCEPT ![c] = t] /\ open' = op
    BY <1>4, <2>2
  <2> HIDE DEF cl, op
  <2>4. GoesOn(cl[c], t)
    BY <2>1, <2>2 DEF GoesOn, AtWork, CallTyped, CallType, CallStages
  <2> HIDE DEF t
  <2> QED
    BY <2>1, <2>3, <2>4, GoingOnKeeps
<1>5. Shared(call', open')
  BY <1>3, <1>4 DEF LegJoin, Conclude
<1> QED
  BY <1>5 DEF IInv, LegJoin, ReadersTyped, KeptTyped, clock

(* A leg goes on with its route, or gives up: it lets the call go, and     *)
(* goes on itself.                                                         *)
LEMMA LegLeavingKeeps ==
  ASSUME IInv, NEW c \in Calls, LegReceive(c) \/ LegLeave(c)
  PROVE  IInv'
<1> DEFINE d == call[c].on
           cl == [call EXCEPT ![d] = WithoutReader(d, c)]
<1>1. /\ Shared(call, open) /\ call \in [Calls -> CallType] /\ CallTyped(call[c])
      /\ call[c].pc = "wait" /\ AtWork(call[c])
  BY DEF IInv, Shared, Typed, LegReceive, LegLeave, AtWork
<1>2. d \in Calls /\ call[d].out \in Outcomes \cup {None}
  BY <1>1 DEF CallTyped, CallType
<1>3. Shared(cl, open')
  <2>1. open' = LeftOpen(d, c)
    BY DEF LegReceive, LegLeave
  <2>2. Shared(cl, LeftOpen(d, c))
    BY <1>1, <1>2, LeavingKeeps
  <2> QED
    BY <2>1, <2>2
<1>4. cl \in [Calls -> CallType] /\ CallTyped(cl[c])
  BY <1>3 DEF Shared, Typed
<1>5. AtWork(cl[c])
  <2>1. CASE d = c
    BY <1>1, <1>2, <2>1, LeavingKeeps
  <2>2. CASE d # c
    BY <1>1, <1>2, <2>2
  <2> QED
    BY <2>1, <2>2
<1>6. PICK pc \in {"keep", "end"}, out \in Outcomes \cup {None} :
        call' = [call EXCEPT ![d] = WithoutReader(d, c), ![c].pc = pc, ![c].out = out, ![c].on = None]
  BY <1>2 DEF LegReceive, LegLeave, Outcomes
<1> DEFINE t == [cl[c] EXCEPT !.pc = pc, !.out = out, !.on = None]
<1>7. call' = [cl EXCEPT ![c] = t]
  BY <1>4, <1>6
<1> HIDE DEF cl
<1>8. GoesOn(cl[c], t)
  BY <1>4, <1>5 DEF GoesOn, AtWork, CallTyped, CallType, CallStages
<1>9. Shared(call', open')
  BY <1>3, <1>7, <1>8, GoingOnKeeps
<1> QED
  BY <1>9 DEF IInv, LegReceive, LegLeave, ReadersTyped, KeptTyped, clock

-----------------------------------------------------------------------------
(* The steps of a reader *)

(* A reader turns to its next wish, if it has one.                         *)
LEMMA StartingKeeps ==
  ASSUME NEW todo \in Seq(Wish)
  PROVE  ReaderTyped(Standing(todo))
<1>1. todo # <<>> => FirstStep[Head(todo).kind] \in {"look", "forget", "join"}
  <2>1. todo # <<>> => Head(todo).kind \in WishKinds
    <3>1. todo # <<>> => Head(todo) \in Wish
      OBVIOUS
    <3> QED
      BY <3>1 DEF Wish
  <2> QED
    BY <2>1 DEF WishKinds, FirstStep
<1> QED
  BY <1>1 DEF ReaderTyped, ReaderType, ReaderStages, Standing

LEMMA ReadersKeep ==
  ASSUME IInv, NEW r \in Readers, Read(r) \/ Disconnect(r)
  PROVE  IInv'
<1>1. /\ Shared(call, open) /\ reader \in [Readers -> ReaderType]
      /\ ReaderTyped(reader[r]) /\ reader[r] \in ReaderType /\ KeptTyped
      /\ call \in [Calls -> CallType]
  BY DEF IInv, ReadersTyped, ReaderTyped, Shared, Typed
<1>2. reader[r].pc # "idle" => Wanted(r) \in Wish /\ Target(r) \in Identity
  <2>1. reader[r].pc # "idle" => Wanted(r) \in Wish
    BY <1>1 DEF ReaderTyped, ReaderType, Wanted
  <2>2. ASSUME NEW w \in Wish
        PROVE  [kind |-> GroupOf[w.kind], key |-> w.key] \in Identity
    BY DEF Wish, WishKinds, GroupOf, Identity, Kinds
  <2> QED
    BY <2>1, <2>2 DEF Target
<1>3. reader[r].pc # "idle" => ReaderTyped(Standing(Tail(reader[r].todo)))
  <2>2. reader[r].pc # "idle" => Tail(reader[r].todo) \in Seq(Wish)
    BY <1>1 DEF ReaderTyped, ReaderType
  <2> QED
    BY <2>2, StartingKeeps
<1>4. ReadersTyped'
  <2>1. ASSUME NEW s, ReaderTyped(s), reader' = [reader EXCEPT ![r] = s]
        PROVE  ReadersTyped'
    BY <1>1, <2>1 DEF IInv, ReadersTyped, ReaderTyped
  <2>2. ASSUME NEW pc \in ReaderStages \ {"idle", "wait"}, reader[r].pc # "idle"
        PROVE  ReaderTyped([reader[r] EXCEPT !.pc = pc])
    BY <1>1, <2>2 DEF ReaderTyped, ReaderType
  <2>3. CASE Answered(r) /\ reader[r].pc # "idle"
    BY <1>1, <1>3, <2>1, <2>3 DEF Answered
  <2>4. ASSUME NEW pc \in {"delete", "look", "join"}, Move(r, pc), reader[r].pc # "idle"
        PROVE  ReadersTyped'
    <3>1. reader' = [reader EXCEPT ![r] = [reader[r] EXCEPT !.pc = pc]]
      BY <1>1, <2>4 DEF Move
    <3> QED
      BY <2>1, <2>2, <2>4, <3>1 DEF ReaderStages
  <2>5. CASE Disconnect(r)
    <3>1. reader' = [reader EXCEPT ![r] = [reader[r] EXCEPT !.gone = TRUE]]
      BY <1>1, <2>5 DEF Disconnect
    <3>2. ReaderTyped([reader[r] EXCEPT !.gone = TRUE])
      BY <1>1 DEF ReaderTyped, ReaderType
    <3> QED
      BY <2>1, <3>1, <3>2
  <2>6. CASE Join(r)
    <3>1. CASE ~reader[r].gone
      <4>1. CallOf(Target(r)) \in Calls
        BY <1>1, <1>2, <2>6, <3>1, JoiningKeeps DEF Join
      <4>2. reader' = [reader EXCEPT ![r] = [reader[r] EXCEPT !.pc = "wait", !.on = CallOf(Target(r))]]
        BY <1>1, <2>6, <3>1 DEF Join
      <4>3. ReaderTyped([reader[r] EXCEPT !.pc = "wait", !.on = CallOf(Target(r))])
        BY <1>1, <2>6, <4>1 DEF Join, ReaderTyped, ReaderType, ReaderStages
      <4> QED
        BY <2>1, <4>2, <4>3
    <3> QED
      BY <2>3, <2>6, <3>1 DEF Join
  <2>7. CASE Receive(r)
    <3>1. CASE reader' = [reader EXCEPT ![r].pc = "put", ![r].on = None]
      <4>1. reader' = [reader EXCEPT ![r] = [reader[r] EXCEPT !.pc = "put", !.on = None]]
        BY <1>1, <3>1
      <4>2. ReaderTyped([reader[r] EXCEPT !.pc = "put", !.on = None])
        BY <1>1, <2>7 DEF Receive, ReaderTyped, ReaderType, ReaderStages
      <4> QED
        BY <2>1, <4>1, <4>2
    <3> QED
      BY <2>3, <2>7, <3>1 DEF Receive
  <2> QED
    BY <2>3, <2>4, <2>5, <2>6, <2>7
       DEF Read, ForgetMemo, ForgetRoute, LookFirst, PutBest, Leave
<1>5. KeptTyped'
  <2>1. CASE UNCHANGED kept
    BY <1>1, <2>1 DEF KeptTyped
  <2>2. CASE ForgetMemo(r)
    BY <1>1, <2>2 DEF KeptTyped, ForgetMemo
  <2>3. CASE ForgetRoute(r)
    BY <1>1, <2>3 DEF KeptTyped, ForgetRoute
  <2>4. CASE PutBest(r)
    BY <1>1, <2>4 DEF KeptTyped, PutBest
  <2> QED
    BY <2>1, <2>2, <2>3, <2>4 DEF Read, LookFirst, Join, Receive, Leave, Disconnect
<1>6. Shared(call', open')
  <2>1. CASE UNCHANGED <<call, open>>
    BY <1>1, <2>1
  <2>2. CASE Join(r)
    BY <1>1, <1>2, <2>1, <2>2, JoiningKeeps DEF Join
  <2>3. CASE Receive(r) \/ Leave(r)
    <3>1. reader[r].on \in Calls
      BY <1>1, <2>3 DEF ReaderTyped, Receive, Leave
    <3> QED
      BY <1>1, <2>3, <3>1, LeavingKeeps DEF Receive, Leave
  <2> QED
    BY <2>1, <2>2, <2>3 DEF Read, ForgetMemo, ForgetRoute, LookFirst, PutBest, Disconnect
<1>7. UNCHANGED hour
  BY DEF Read, ForgetMemo, ForgetRoute, LookFirst, Join, Receive, PutBest, Leave, Disconnect, clock
<1> QED
  BY <1>4, <1>5, <1>6, <1>7 DEF IInv

-----------------------------------------------------------------------------
(* Time, failure, and the whole *)

LEMMA NothingIsShared ==
  Shared([c \in Calls |-> NoCall], [i \in Identity |-> None])
<1>1. CallTyped(NoCall) /\ NoCall.readers = {} /\ ~AtWork(NoCall)
  BY DEF CallTyped, NoCall, CallType, CallStages, AtWork
<1> QED
  BY <1>1 DEF Shared, Typed, CallTyped, MapIsTrue, MapIsComplete, WaitedIsLive

LEMMA InitEstablishes == Init => IInv
<1> SUFFICES ASSUME Init PROVE IInv
  OBVIOUS
<1>1. PICK journey \in Journeys : reader = [r \in Readers |-> Standing(journey.todo[r])]
  BY DEF Init
<1>2. \A r \in Readers : ReaderTyped(Standing(journey.todo[r]))
  BY JourneysAssumption, StartingKeeps
<1>3. ReadersTyped
  BY <1>1, <1>2 DEF ReadersTyped, ReaderTyped
<1> QED
  BY <1>3, NothingIsShared DEF Init, IInv, KeptTyped

LEMMA OthersKeep ==
  ASSUME IInv,
         \/ \E i \in Identity : Expire(i)
         \/ \E s \in Services : MinutePasses(s)
         \/ HourPasses \/ Restart
  PROVE  IInv'
<1>1. CASE \E i \in Identity : Expire(i)
  BY <1>1 DEF IInv, Expire, quota, ReadersTyped, KeptTyped
<1>2. CASE HourPasses \/ \E s \in Services : MinutePasses(s)
  BY <1>2 DEF IInv, HourPasses, MinutePasses, ReadersTyped, KeptTyped
<1>3. CASE Restart
  <2>1. \A r \in Readers : ReaderTyped(Standing(reader[r].todo))
    BY StartingKeeps DEF IInv, ReadersTyped, ReaderType
  <2>2. ReadersTyped'
    BY <1>3, <2>1 DEF Restart, ReadersTyped, ReaderTyped
  <2>3. KeptTyped'
    BY <1>3 DEF Restart, IInv, KeptTyped
  <2> QED
    BY <1>3, <2>2, <2>3, NothingIsShared DEF Restart, IInv
<1> QED
  BY <1>1, <1>2, <1>3

LEMMA StepKeeps == IInv /\ [Next]_vars => IInv'
<1> SUFFICES ASSUME IInv, [Next]_vars PROVE IInv'
  OBVIOUS
<1>1. CASE UNCHANGED vars
  BY <1>1 DEF IInv, vars, ReadersTyped, KeptTyped
<1>2. ASSUME NEW c \in Calls, Work(c) PROVE IInv'
  <2>1. CASE Finish(c)
    BY <2>1, EndingKeeps DEF IInv, Finish, ReadersTyped, KeptTyped, clock
  <2> QED
    BY <1>2, <2>1, WorkingGoesOn, LegJoinKeeps, LegLeavingKeeps DEF Work
<1>3. ASSUME NEW r \in Readers, Read(r) \/ Disconnect(r) PROVE IInv'
  BY <1>3, ReadersKeep
<1> QED
  BY <1>1, <1>2, <1>3, OthersKeep DEF Next

THEOREM AlwaysShared == Spec => []IInv
BY InitEstablishes, StepKeeps, PTL DEF Spec

(* Nobody waits on cancelled work, and what several want of one thing is   *)
(* done once for all of them, however many there are and whenever they     *)
(* come and go (requestwork.Group.Do).                                     *)
THEOREM SharedAlive == Spec => []WorkIsSharedAlive
<1>1. IInv => WorkIsSharedAlive
  BY DEF IInv, Shared, Typed, CallTyped, MapIsComplete, WaitedIsLive, AtWork,
     WorkIsSharedAlive, WaitedWorkIsLive, OneRequestAtATime, LiveWork
<1> QED
  BY <1>1, AlwaysShared, PTL

-----------------------------------------------------------------------------
(* Sums over hours                                                         *)

(* A sum of counts is the number of what is counted: one pair for each.    *)
Counted(f, hs) == UNION {{h} \X (1..f[h]) : h \in hs}

Amounts(f, hs) == \A h \in hs : f[h] \in Nat

LEMMA InCounted ==
  ASSUME NEW f, NEW hs, NEW p
  PROVE  p \in Counted(f, hs) <=> \E h \in hs : p[1] = h /\ p[2] \in 1..f[h] /\ p = <<h, p[2]>>
BY DEF Counted

LEMMA CountedIsFinite ==
  ASSUME NEW hs, IsFiniteSet(hs), NEW f, Amounts(f, hs)
  PROVE  IsFiniteSet(Counted(f, hs))
<1> DEFINE Part(h) == {h} \X (1..f[h])
           parts == {Part(h) : h \in hs}
           part == [h \in hs |-> Part(h)]
<1>1. ASSUME NEW h \in hs PROVE IsFiniteSet(Part(h))
  <2>1. f[h] \in Nat
    BY DEF Amounts
  <2>2. IsFiniteSet(1..f[h])
    BY <2>1, FS_Interval
  <2>3. IsFiniteSet({h})
    BY FS_Singleton
  <2> QED
    BY <2>2, <2>3, FS_Product
<1>2. part \in Surjection(hs, parts)
  BY DEF Surjection
<1>3. IsFiniteSet(parts)
  BY <1>2, FS_Surjection
<1>4. \A part_ \in parts : IsFiniteSet(part_)
  BY <1>1
<1> HIDE DEF parts
<1>5. IsFiniteSet(UNION parts)
  BY <1>3, <1>4, FS_UNION
<1> QED
  BY <1>5 DEF parts, Counted

LEMMA CountedSplits ==
  ASSUME NEW hs, IsFiniteSet(hs), NEW f, Amounts(f, hs), NEW x \in hs
  PROVE  Cardinality(Counted(f, hs)) = f[x] + Cardinality(Counted(f, hs \ {x}))
<1> DEFINE one == {x} \X (1..f[x])
           rest == Counted(f, hs \ {x})
<1>1. f[x] \in Nat /\ Amounts(f, hs \ {x})
  BY DEF Amounts
<1>2. IsFiniteSet(hs \ {x})
  BY FS_RemoveElement
<1>3. IsFiniteSet(rest) /\ Cardinality(rest) \in Nat
  BY <1>1, <1>2, CountedIsFinite, FS_CardinalityType
<1>4. IsFiniteSet(1..f[x]) /\ Cardinality(1..f[x]) = f[x]
  <2>1. ASSUME NEW n \in Nat PROVE IsFiniteSet(1..n) /\ Cardinality(1..n) = n
    <3>1. /\ IsFiniteSet(1..n)
          /\ Cardinality(1..n) = IF 1 > n THEN 0 ELSE n - 1 + 1
      BY FS_Interval
    <3> QED
      BY <3>1
  <2> QED
    BY <1>1, <2>1
<1>5. IsFiniteSet({x}) /\ Cardinality({x}) = 1
  BY FS_Singleton
<1>6. IsFiniteSet(one) /\ Cardinality(one) = f[x]
  <2>1. \A S, T : IsFiniteSet(S) /\ IsFiniteSet(T) =>
            IsFiniteSet(S \X T) /\ Cardinality(S \X T) = Cardinality(S) * Cardinality(T)
    BY FS_Product
  <2>2. IsFiniteSet(one) /\ Cardinality(one) = Cardinality({x}) * Cardinality(1..f[x])
    BY <1>4, <1>5, <2>1
  <2>3. Cardinality({x}) * Cardinality(1..f[x]) = f[x]
    BY <1>1, <1>4, <1>5
  <2> QED
    BY <2>2, <2>3
<1>7. Counted(f, hs) = one \cup rest /\ one \cap rest = {}
  BY DEF Counted
<1> HIDE DEF one, rest
<1>8. Cardinality(one \cup rest) = Cardinality(one) + Cardinality(rest) - Cardinality({})
  BY <1>3, <1>6, <1>7, FS_Union
<1> QED
  BY <1>1, <1>3, <1>6, <1>7, <1>8, FS_EmptySet DEF rest

LEMMA NothingCounted == ASSUME NEW f PROVE Counted(f, {}) = {} /\ Cardinality(Counted(f, {})) = 0
BY FS_EmptySet DEF Counted

(* What the fold of MapThenSumSet adds up, element after element.          *)
Folds(it, f, hs) ==
  it = [s \in SUBSET hs |-> IF s = {} THEN 0
                            ELSE f[CHOOSE x \in s : TRUE] + it[s \ {CHOOSE x \in s : TRUE}]]

LEMMA CountingFolds ==
  ASSUME NEW hs, IsFiniteSet(hs), NEW f, Amounts(f, hs)
  PROVE  Folds([s \in SUBSET hs |-> Cardinality(Counted(f, s))], f, hs)
<1> DEFINE it == [s \in SUBSET hs |-> Cardinality(Counted(f, s))]
           el(s) == CHOOSE x \in s : TRUE
<1>1. ASSUME NEW s \in SUBSET hs, s # {}
      PROVE  it[s] = f[el(s)] + it[s \ {el(s)}]
  <2>1. IsFiniteSet(s) /\ Amounts(f, s)
    BY FS_Subset DEF Amounts
  <2>2. el(s) \in s
    BY <1>1
  <2> HIDE DEF el
  <2>3. Cardinality(Counted(f, s)) = f[el(s)] + Cardinality(Counted(f, s \ {el(s)}))
    BY <2>1, <2>2, CountedSplits
  <2> QED
    BY <2>3
<1>2. it[{}] = 0
  BY NothingCounted
<1>3. it = [s \in SUBSET hs |-> IF s = {} THEN 0 ELSE f[el(s)] + it[s \ {el(s)}]]
  <2>1. \A s \in SUBSET hs : it[s] = IF s = {} THEN 0 ELSE f[el(s)] + it[s \ {el(s)}]
    BY <1>1, <1>2
  <2>2. it = [s \in SUBSET hs |-> it[s]]
    OBVIOUS
  <2> HIDE DEF it, el
  <2> QED
    BY <2>1, <2>2
<1> HIDE DEF it
<1>4. Folds(it, f, hs)
  BY <1>3 DEF Folds, el
<1> QED
  BY <1>4 DEF it

(* By a smallest set that it would add up wrong.                           *)
LEMMA FoldingCounts ==
  ASSUME NEW hs, IsFiniteSet(hs), NEW f, Amounts(f, hs), NEW it, Folds(it, f, hs)
  PROVE  it[hs] = Cardinality(Counted(f, hs))
<1> DEFINE R == StrictSubsetOrdering(hs)
           W == FiniteSubsetsOf(hs)
           Wrong == {s \in W : it[s] # Cardinality(Counted(f, s))}
<1>1. IsWellFoundedOn(R, W)
  BY FS_StrictSubsetOrderingWellFounded
<1>2. ASSUME Wrong # {} PROVE FALSE
  <2>1. PICK s \in Wrong : \A t \in Wrong : <<t, s>> \notin R
    <3>1. Wrong \subseteq W
      OBVIOUS
    <3> HIDE DEF R, W, Wrong
    <3> QED
      BY <1>1, <1>2, <3>1, WFMin
  <2>2. s \in SUBSET hs /\ IsFiniteSet(s) /\ Amounts(f, s)
    BY DEF FiniteSubsetsOf, Amounts
  <2>3. it[s] = IF s = {} THEN 0 ELSE f[CHOOSE x \in s : TRUE] + it[s \ {CHOOSE x \in s : TRUE}]
    BY <2>2 DEF Folds
  <2>4. s # {}
    BY <2>3, NothingCounted
  <2>5. PICK x \in s : x = CHOOSE y \in s : TRUE
    BY <2>4
  <2>6. IsFiniteSet(s \ {x}) /\ s \ {x} \in SUBSET hs
    BY <2>2, FS_RemoveElement
  <2>7. s \ {x} \in W /\ <<s \ {x}, s>> \in R
    BY <2>2, <2>6 DEF FiniteSubsetsOf, StrictSubsetOrdering
  <2>8. it[s \ {x}] = Cardinality(Counted(f, s \ {x}))
    BY <2>1, <2>7
  <2>9. Cardinality(Counted(f, s)) = f[x] + Cardinality(Counted(f, s \ {x}))
    BY <2>2, CountedSplits
  <2> QED
    BY <2>3, <2>4, <2>5, <2>8, <2>9
<1>3. hs \in W
  BY DEF FiniteSubsetsOf
<1> QED
  BY <1>2, <1>3

LEMMA SumIsCount ==
  ASSUME NEW hs, IsFiniteSet(hs), NEW f, Amounts(f, hs)
  PROVE  MapThenSumSet(LAMBDA h : f[h], hs) = Cardinality(Counted(f, hs))
<1>1. \E it : Folds(it, f, hs)
  BY CountingFolds
<1>2. \E it : Folds(it, f, hs) /\ MapThenSumSet(LAMBDA h : f[h], hs) = it[hs]
  BY <1>1 DEF Folds, MapThenSumSet, MapThenFoldSet
<1> QED
  BY <1>2, FoldingCounts

Difference(f, g, hs) == MapThenSumSet(LAMBDA h : f[h] - g[h], hs)

LEMMA DifferenceIsCount ==
  ASSUME NEW hs, IsFiniteSet(hs), NEW f, NEW g, NEW d,
         Amounts(d, hs), \A h \in hs : d[h] = f[h] - g[h]
  PROVE  Difference(f, g, hs) = Cardinality(Counted(d, hs))
<1> DEFINE FoldsBoth(it) ==
      it = [s \in SUBSET hs |-> IF s = {} THEN 0
              ELSE (f[CHOOSE x \in s : TRUE] - g[CHOOSE x \in s : TRUE]) + it[s \ {CHOOSE x \in s : TRUE}]]
<1>1. ASSUME NEW s \in SUBSET hs, s # {}
      PROVE  d[CHOOSE x \in s : TRUE] = f[CHOOSE x \in s : TRUE] - g[CHOOSE x \in s : TRUE]
  <2>1. PICK x \in s : x = CHOOSE y \in s : TRUE
    BY <1>1
  <2> QED
    BY <2>1
<1>2. ASSUME NEW it PROVE FoldsBoth(it) <=> Folds(it, d, hs)
  BY <1>1 DEF Folds
<1>3. \E it : FoldsBoth(it)
  BY <1>2, CountingFolds
<1>4. \E it : FoldsBoth(it) /\ MapThenSumSet(LAMBDA h : f[h] - g[h], hs) = it[hs]
  BY <1>3 DEF MapThenSumSet, MapThenFoldSet
<1>5. \E it : FoldsBoth(it) /\ Difference(f, g, hs) = it[hs]
  BY <1>4 DEF Difference
<1> HIDE DEF FoldsBoth
<1> QED
  BY <1>2, <1>5, FoldingCounts

-----------------------------------------------------------------------------
(* The daily limit                                                         *)

(* A request on its way was admitted and is not recorded yet.              *)
Flies(s) == s.pc \in {"asking", "release"} /\ s.id.kind \in Limited
Flying(cl, s, h) ==
  {c \in Calls : Flies(cl[c]) /\ ServiceOf(cl[c].id.kind) = s /\ cl[c].hour = h}

\* Routes and places are admitted, tiles wait for a slot, links for nothing.
OnlyLimited(cl) ==
  \A c \in Calls :
    /\ cl[c].pc \in {"admit", "release"} => cl[c].id.kind \in Limited
    /\ cl[c].pc = "slot" => cl[c].id.kind \notin Limited
    /\ Flies(cl[c]) => cl[c].hour \in Hours

(* What counts against the limit, and the part of it that provider_usage   *)
(* does not say.                                                           *)
Spent(st, lo) == [h \in Hours |-> st[h] - lo[h]]
Pending(us, st, lo) == [h \in Hours |-> st[h] - lo[h] - us[h]]

(* Each request on its way is pending in the hour it was admitted in, and  *)
(* inflight is the number of those pending.                                *)
Accounted(cl, s, us, st, lo, n) ==
  /\ us \in [Hours -> Nat] /\ st \in [Hours -> Nat] /\ lo \in [Hours -> Nat] /\ n \in Nat
  /\ \A h \in Hours :
       /\ IsFiniteSet(Flying(cl, s, h))
       /\ lo[h] + us[h] + Cardinality(Flying(cl, s, h)) <= st[h]
  /\ n = Cardinality(Counted(Pending(us, st, lo), Hours))

\* The hours that count at some hour: CountedHours, now.
Within(now) == {h \in Hours : h + Window > now /\ h <= now}

Limits(st, lo, now) ==
  /\ \A h \in Hours : h > now => st[h] = 0
  /\ Daily > 0 => Cardinality(Counted(Spent(st, lo), Within(now))) <= Daily

QuotaInv ==
  /\ hour \in Hours
  /\ used = [s \in Services |-> used[s]] /\ sent = [s \in Services |-> sent[s]]
  /\ lost = [s \in Services |-> lost[s]] /\ inflight = [s \in Services |-> inflight[s]]
  /\ OnlyLimited(call)
  /\ \A s \in Services :
       /\ Accounted(call, s, used[s], sent[s], lost[s], inflight[s])
       /\ Limits(sent[s], lost[s], hour)

-----------------------------------------------------------------------------
(* Counts that grow, shrink and add up.                                    *)

LEMMA CountedGrows ==
  ASSUME NEW hs, IsFiniteSet(hs), NEW f, NEW g, Amounts(f, hs), Amounts(g, hs), NEW x \in hs,
         g[x] = f[x] + 1, \A h \in hs \ {x} : g[h] = f[h]
  PROVE  Cardinality(Counted(g, hs)) = Cardinality(Counted(f, hs)) + 1
<1>1. Counted(g, hs \ {x}) = Counted(f, hs \ {x})
  BY DEF Counted
<1>2. IsFiniteSet(hs \ {x}) /\ Amounts(f, hs \ {x}) /\ f[x] \in Nat
  BY FS_RemoveElement DEF Amounts
<1>3. Cardinality(Counted(f, hs \ {x})) \in Nat
  BY <1>2, CountedIsFinite, FS_CardinalityType
<1>4. Cardinality(Counted(g, hs)) = g[x] + Cardinality(Counted(g, hs \ {x}))
  BY CountedSplits
<1>5. Cardinality(Counted(f, hs)) = f[x] + Cardinality(Counted(f, hs \ {x}))
  BY CountedSplits
<1> QED
  BY <1>1, <1>2, <1>3, <1>4, <1>5

LEMMA CountedFewer ==
  ASSUME NEW hs, IsFiniteSet(hs), NEW f, Amounts(f, hs), NEW gs, NEW g, Amounts(g, gs),
         \A h \in gs : g[h] = 0 \/ (h \in hs /\ g[h] <= f[h])
  PROVE  Cardinality(Counted(g, gs)) <= Cardinality(Counted(f, hs))
<1>1. Counted(g, gs) \subseteq Counted(f, hs)
  <2>1. ASSUME NEW h \in gs, NEW i \in 1..g[h]
        PROVE  h \in hs /\ i \in 1..f[h]
    BY DEF Amounts
  <2> QED
    BY <2>1 DEF Counted
<1>2. IsFiniteSet(Counted(f, hs))
  BY CountedIsFinite
<1> QED
  BY <1>1, <1>2, FS_Subset

LEMMA CountedAdds ==
  ASSUME NEW hs, IsFiniteSet(hs), NEW u, NEW p, NEW d,
         Amounts(u, hs), Amounts(p, hs), Amounts(d, hs),
         \A h \in hs : d[h] <= u[h] + p[h]
  PROVE  Cardinality(Counted(d, hs)) <= Cardinality(Counted(u, hs)) + Cardinality(Counted(p, hs))
<1> DEFINE D == Counted(d, hs)
           U == Counted(u, hs)
           P == Counted(p, hs)
           down == [q \in D \ U |-> <<q[1], q[2] - u[q[1]]>>]
<1>1. IsFiniteSet(D) /\ IsFiniteSet(U) /\ IsFiniteSet(P)
  BY CountedIsFinite
<1>2. ASSUME NEW q \in D \ U
      PROVE  /\ q = <<q[1], q[2]>> /\ q[1] \in hs /\ q[2] \in Nat /\ u[q[1]] \in Nat
             /\ q[2] - u[q[1]] \in 1..p[q[1]]
  <2>1. PICK h \in hs : q[1] = h /\ q[2] \in 1..d[h] /\ q = <<h, q[2]>>
    BY InCounted
  <2>2. d[h] \in Nat /\ u[h] \in Nat /\ p[h] \in Nat /\ d[h] <= u[h] + p[h]
    BY DEF Amounts
  <2>3. q[2] \notin 1..u[h]
    BY <2>1, InCounted
  <2>4. q[2] \in Nat /\ q[2] >= 1 /\ q[2] <= d[h] /\ ~(q[2] <= u[h])
    BY <2>1, <2>2, <2>3
  <2>5. q[2] - u[h] \in 1..p[h]
    BY <2>2, <2>4
  <2> QED
    BY <2>1, <2>2, <2>4, <2>5
<1>3. down \in Injection(D \ U, P)
  <2>1. ASSUME NEW q \in D \ U PROVE down[q] \in P
    <3>1. down[q] = <<q[1], q[2] - u[q[1]]>>
      OBVIOUS
    <3>2. q[1] \in hs /\ q[2] - u[q[1]] \in 1..p[q[1]]
      BY <1>2
    <3> QED
      BY <3>1, <3>2 DEF Counted
  <2>2. ASSUME NEW q \in D \ U, NEW r \in D \ U, down[q] = down[r] PROVE q = r
    <3>1. q[1] = r[1] /\ q[2] - u[q[1]] = r[2] - u[r[1]]
      BY <2>2
    <3>2. /\ q = <<q[1], q[2]>> /\ r = <<r[1], r[2]>>
          /\ q[2] \in Nat /\ r[2] \in Nat /\ u[q[1]] \in Nat
      BY <1>2
    <3>3. q[2] = r[2]
      BY <3>1, <3>2
    <3> QED
      BY <3>1, <3>2, <3>3
  <2>3. down \in [D \ U -> P]
    BY <2>1
  <2> HIDE DEF down, D, U, P
  <2> QED
    BY <2>2, <2>3 DEF Injection, IsInjective
<1> HIDE DEF D, U, P, down
<1>4. Cardinality(D \ U) <= Cardinality(P)
  BY <1>1, <1>3, FS_Injection
<1>5. Cardinality(D \ U) = Cardinality(D) - Cardinality(D \cap U)
  BY <1>1, FS_Difference
<1>6. IsFiniteSet(D \cap U) /\ Cardinality(D \cap U) <= Cardinality(U)
  BY <1>1, FS_Intersection
<1>7. Cardinality(D) \in Nat /\ Cardinality(U) \in Nat /\ Cardinality(P) \in Nat /\ Cardinality(D \cap U) \in Nat
  BY <1>1, <1>6, FS_CardinalityType
<1>8. Cardinality(D) <= Cardinality(U) + Cardinality(P)
  BY <1>4, <1>5, <1>6, <1>7
<1> QED
  BY <1>8 DEF D, U, P

LEMMA HoursAreFinite ==
  /\ IsFiniteSet(Hours)
  /\ \A n : IsFiniteSet(Within(n))
<1>1. IsFiniteSet(Hours)
  BY LimitsAssumption, FS_Interval DEF Hours
<1>2. ASSUME NEW n PROVE IsFiniteSet(Within(n))
  BY <1>1, FS_Subset DEF Within
<1> QED
  BY <1>1, <1>2

-----------------------------------------------------------------------------
(* Requests on their way                                                   *)

(* A call that goes on neither sets a request off nor brings one home.     *)
Steady(s, t) ==
  /\ t.pc \in {"admit", "release"} => t.id.kind \in Limited
  /\ t.pc = "slot" => t.id.kind \notin Limited
  /\ Flies(s) <=> Flies(t)
  /\ Flies(t) => t.id = s.id /\ t.hour = s.hour

LEMMA StillFlying ==
  ASSUME NEW cl, NEW dl, OnlyLimited(cl), \A c \in Calls : Steady(cl[c], dl[c])
  PROVE  /\ OnlyLimited(dl)
         /\ \A s \in Services, h \in Hours : Flying(dl, s, h) = Flying(cl, s, h)
<1>1. OnlyLimited(dl)
  BY DEF OnlyLimited, Steady
<1>2. ASSUME NEW s \in Services, NEW h \in Hours, NEW c \in Calls
      PROVE  c \in Flying(dl, s, h) <=> c \in Flying(cl, s, h)
  BY DEF Flying, Steady
<1>3. ASSUME NEW s \in Services, NEW h \in Hours
      PROVE  Flying(dl, s, h) = Flying(cl, s, h)
  <2>1. Flying(dl, s, h) \subseteq Calls /\ Flying(cl, s, h) \subseteq Calls
    BY DEF Flying
  <2> QED
    BY <1>2, <2>1
<1> QED
  BY <1>1, <1>3

LEMMA QuietKeeps ==
  ASSUME QuotaInv, UNCHANGED <<used, inflight, sent, lost, hour>>,
         \A c \in Calls : Steady(call[c], call'[c])
  PROVE  QuotaInv'
<1>1. /\ OnlyLimited(call')
      /\ \A s \in Services, h \in Hours : Flying(call', s, h) = Flying(call, s, h)
  BY StillFlying DEF QuotaInv
<1>2. ASSUME NEW s \in Services
      PROVE  /\ Accounted(call', s, used[s], sent[s], lost[s], inflight[s])
             /\ Limits(sent[s], lost[s], hour)
  <2>1. /\ Accounted(call, s, used[s], sent[s], lost[s], inflight[s])
        /\ Limits(sent[s], lost[s], hour)
    BY DEF QuotaInv
  <2> QED
    BY <1>1, <2>1 DEF Accounted
<1> QED
  BY <1>1, <1>2 DEF QuotaInv

(* One call changes, in one of the ways a step has.                        *)
LEMMA OneMoves ==
  ASSUME NEW cl \in [Calls -> CallType], OnlyLimited(cl), NEW c \in Calls, NEW t, Steady(cl[c], t)
  PROVE  \A d \in Calls : Steady(cl[d], [cl EXCEPT ![c] = t][d])
<1>1. \A d \in Calls : [cl EXCEPT ![c] = t][d] = IF d = c THEN t ELSE cl[d]
  OBVIOUS
<1>2. \A d \in Calls : Steady(cl[d], cl[d])
  BY DEF Steady, OnlyLimited
<1> QED
  BY <1>1, <1>2

LEMMA MovingOn ==
  ASSUME NEW s \in CallType, s.id \in Identity, ~Flies(s),
         NEW pc \in CallStages \ {"release"},
         pc = "admit" => s.id.kind \in Limited,
         pc \in {"slot", "asking"} => s.id.kind \notin Limited,
         NEW out \in Outcomes \cup {None}, NEW on \in Calls \cup {None}
  PROVE  /\ Steady(s, [s EXCEPT !.pc = pc])
         /\ Steady(s, [s EXCEPT !.pc = pc, !.out = out])
         /\ Steady(s, [s EXCEPT !.pc = pc, !.on = on])
         /\ Steady(s, [s EXCEPT !.pc = pc, !.out = out, !.on = on])
         /\ Steady(s, [s EXCEPT !.out = out, !.pc = pc])
<1>1. ASSUME NEW t, t.pc = pc, t.id = s.id PROVE Steady(s, t)
  BY <1>1 DEF Steady, Flies
<1>2. [s EXCEPT !.pc = pc].pc = pc /\ [s EXCEPT !.pc = pc].id = s.id
  BY DEF CallType
<1>3. [s EXCEPT !.pc = pc, !.out = out].pc = pc /\ [s EXCEPT !.pc = pc, !.out = out].id = s.id
  BY DEF CallType
<1>4. [s EXCEPT !.pc = pc, !.on = on].pc = pc /\ [s EXCEPT !.pc = pc, !.on = on].id = s.id
  BY DEF CallType
<1>5. [s EXCEPT !.pc = pc, !.out = out, !.on = on].pc = pc /\ [s EXCEPT !.pc = pc, !.out = out, !.on = on].id = s.id
  BY DEF CallType
<1>6. [s EXCEPT !.out = out, !.pc = pc].pc = pc /\ [s EXCEPT !.out = out, !.pc = pc].id = s.id
  BY DEF CallType
<1> QED
  BY <1>1, <1>2, <1>3, <1>4, <1>5, <1>6

-----------------------------------------------------------------------------
(* What admitting and recording do to the accounts of a service.           *)

LEMMA AdmittedAccounts ==
  ASSUME NEW cl, NEW dl, NEW s, NEW us, NEW st, NEW lo, NEW n, NEW now \in Hours, NEW c,
         Accounted(cl, s, us, st, lo, n),
         c \notin Flying(cl, s, now), Flying(dl, s, now) = Flying(cl, s, now) \cup {c},
         \A h \in Hours \ {now} : Flying(dl, s, h) = Flying(cl, s, h)
  PROVE  Accounted(dl, s, us, [st EXCEPT ![now] = @ + 1], lo, n + 1)
<1> DEFINE su == [st EXCEPT ![now] = @ + 1]
           old == Pending(us, st, lo)
           new == Pending(us, su, lo)
<1>1. /\ us \in [Hours -> Nat] /\ st \in [Hours -> Nat] /\ lo \in [Hours -> Nat] /\ n \in Nat
      /\ n = Cardinality(Counted(old, Hours))
  BY DEF Accounted
<1>2. su \in [Hours -> Nat] /\ \A h \in Hours : su[h] = IF h = now THEN st[h] + 1 ELSE st[h]
  BY <1>1
<1>3. ASSUME NEW h \in Hours
      PROVE  /\ IsFiniteSet(Flying(cl, s, h)) /\ Cardinality(Flying(cl, s, h)) \in Nat
             /\ lo[h] + us[h] + Cardinality(Flying(cl, s, h)) <= st[h]
             /\ lo[h] \in Nat /\ us[h] \in Nat /\ st[h] \in Nat
  BY <1>1, FS_CardinalityType DEF Accounted
<1>4. /\ IsFiniteSet(Flying(dl, s, now))
      /\ Cardinality(Flying(dl, s, now)) = Cardinality(Flying(cl, s, now)) + 1
  BY <1>3, FS_AddElement
<1>5. ASSUME NEW h \in Hours
      PROVE  /\ IsFiniteSet(Flying(dl, s, h))
             /\ lo[h] + us[h] + Cardinality(Flying(dl, s, h)) <= su[h]
  <2> HIDE DEF su
  <2>1. CASE h = now
    <3>1. /\ IsFiniteSet(Flying(dl, s, h))
          /\ Cardinality(Flying(dl, s, h)) = Cardinality(Flying(cl, s, h)) + 1
          /\ su[h] = st[h] + 1
      BY <1>2, <1>4, <2>1
    <3> QED
      BY <1>3, <3>1
  <2>2. CASE h # now
    BY <1>2, <1>3, <2>2
  <2> QED
    BY <2>1, <2>2
<1>6. /\ \A h \in Hours : old[h] = st[h] - lo[h] - us[h]
      /\ \A h \in Hours : new[h] = su[h] - lo[h] - us[h]
  BY DEF Pending
<1> HIDE DEF su, old, new
<1>7. Amounts(old, Hours)
  BY <1>3, <1>6 DEF Amounts
<1>8. /\ new[now] = old[now] + 1
      /\ \A h \in Hours \ {now} : new[h] = old[h]
  BY <1>2, <1>3, <1>6
<1>9. Amounts(new, Hours)
  BY <1>7, <1>8 DEF Amounts
<1>10. Cardinality(Counted(new, Hours)) = Cardinality(Counted(old, Hours)) + 1
  BY <1>7, <1>8, <1>9, CountedGrows, HoursAreFinite
<1> QED
  BY <1>1, <1>2, <1>5, <1>10 DEF Accounted, su, new

LEMMA AdmittedLimits ==
  ASSUME NEW cl, NEW s, NEW us, NEW st, NEW lo, NEW n, NEW now \in Hours,
         Accounted(cl, s, us, st, lo, n), Limits(st, lo, now),
         Daily > 0 => Cardinality(Counted(us, Within(now))) + n < Daily
  PROVE  Limits([st EXCEPT ![now] = @ + 1], lo, now)
<1> DEFINE su == [st EXCEPT ![now] = @ + 1]
           W == Within(now)
           p == Pending(us, st, lo)
           d == Spent(st, lo)
           e == Spent(su, lo)
<1>1. /\ us \in [Hours -> Nat] /\ st \in [Hours -> Nat] /\ lo \in [Hours -> Nat] /\ n \in Nat
      /\ n = Cardinality(Counted(p, Hours))
  BY DEF Accounted
<1>2. su \in [Hours -> Nat] /\ \A h \in Hours : su[h] = IF h = now THEN st[h] + 1 ELSE st[h]
  BY <1>1
<1>3. ASSUME NEW h \in Hours
      PROVE  lo[h] + us[h] <= st[h] /\ lo[h] \in Nat /\ us[h] \in Nat /\ st[h] \in Nat
  <2>1. /\ IsFiniteSet(Flying(cl, s, h))
        /\ lo[h] + us[h] + Cardinality(Flying(cl, s, h)) <= st[h]
        /\ lo[h] \in Nat /\ us[h] \in Nat /\ st[h] \in Nat
    BY <1>1 DEF Accounted
  <2>2. Cardinality(Flying(cl, s, h)) \in Nat
    BY <2>1, FS_CardinalityType
  <2> QED
    BY <2>1, <2>2
<1>4. /\ \A h \in Hours : p[h] = st[h] - lo[h] - us[h]
      /\ \A h \in Hours : d[h] = st[h] - lo[h]
      /\ \A h \in Hours : e[h] = su[h] - lo[h]
  BY DEF Pending, Spent
<1>5. W \subseteq Hours /\ IsFiniteSet(W) /\ IsFiniteSet(Hours) /\ now \in W
  BY HoursAreFinite, LimitsAssumption DEF Within, Hours
<1> HIDE DEF su, W, p, d, e
<1>6. /\ Amounts(us, W) /\ Amounts(p, W) /\ Amounts(p, Hours) /\ Amounts(d, W) /\ Amounts(e, W)
      /\ \A h \in W : d[h] <= us[h] + p[h]
  <2>1. ASSUME NEW h \in Hours
        PROVE  us[h] \in Nat /\ p[h] \in Nat /\ d[h] \in Nat /\ e[h] \in Nat /\ d[h] <= us[h] + p[h]
    BY <1>2, <1>3, <1>4
  <2> QED
    BY <1>5, <2>1 DEF Amounts
<1>7. Cardinality(Counted(d, W)) <= Cardinality(Counted(us, W)) + Cardinality(Counted(p, W))
  BY <1>5, <1>6, CountedAdds
<1>8. Cardinality(Counted(p, W)) <= Cardinality(Counted(p, Hours))
  <2>1. \A h \in W : p[h] = 0 \/ (h \in Hours /\ p[h] <= p[h])
    BY <1>5, <1>6 DEF Amounts
  <2> QED
    BY <1>5, <1>6, <2>1, CountedFewer
<1>9. Cardinality(Counted(e, W)) = Cardinality(Counted(d, W)) + 1
  <2>1. e[now] = d[now] + 1
    BY <1>2, <1>3, <1>4
  <2>2. \A h \in W \ {now} : e[h] = d[h]
    BY <1>2, <1>4, <1>5
  <2> QED
    BY <1>5, <1>6, <2>1, <2>2, CountedGrows
<1>10. /\ Cardinality(Counted(d, W)) \in Nat /\ Cardinality(Counted(us, W)) \in Nat
       /\ Cardinality(Counted(p, W)) \in Nat
  BY <1>5, <1>6, CountedIsFinite, FS_CardinalityType
<1>11. Daily > 0 => Cardinality(Counted(e, W)) <= Daily
  <2>1. Daily > 0 => Cardinality(Counted(us, W)) + n < Daily
    BY DEF W
  <2> QED
    BY <1>1, <1>7, <1>8, <1>9, <1>10, <2>1, LimitsAssumption
<1>12. \A h \in Hours : h > now => su[h] = 0
  BY <1>2 DEF Limits, Hours
<1> QED
  BY <1>11, <1>12 DEF Limits, su, W, e

LEMMA RecordedAccounts ==
  ASSUME NEW cl, NEW dl, NEW s, NEW us, NEW st, NEW lo, NEW n, NEW h0 \in Hours, NEW c,
         Accounted(cl, s, us, st, lo, n),
         c \in Flying(cl, s, h0), Flying(dl, s, h0) = Flying(cl, s, h0) \ {c},
         \A h \in Hours \ {h0} : Flying(dl, s, h) = Flying(cl, s, h)
  PROVE  Accounted(dl, s, [us EXCEPT ![h0] = @ + 1], st, lo, n - 1)
<1> DEFINE vs == [us EXCEPT ![h0] = @ + 1]
           old == Pending(us, st, lo)
           new == Pending(vs, st, lo)
<1>1. /\ us \in [Hours -> Nat] /\ st \in [Hours -> Nat] /\ lo \in [Hours -> Nat] /\ n \in Nat
      /\ n = Cardinality(Counted(old, Hours))
  BY DEF Accounted
<1>2. vs \in [Hours -> Nat] /\ \A h \in Hours : vs[h] = IF h = h0 THEN us[h] + 1 ELSE us[h]
  BY <1>1
<1>3. ASSUME NEW h \in Hours
      PROVE  /\ IsFiniteSet(Flying(cl, s, h)) /\ Cardinality(Flying(cl, s, h)) \in Nat
             /\ lo[h] + us[h] + Cardinality(Flying(cl, s, h)) <= st[h]
             /\ lo[h] \in Nat /\ us[h] \in Nat /\ st[h] \in Nat
  BY <1>1, FS_CardinalityType DEF Accounted
<1>4. /\ IsFiniteSet(Flying(dl, s, h0)) /\ Cardinality(Flying(dl, s, h0)) \in Nat
      /\ Cardinality(Flying(dl, s, h0)) = Cardinality(Flying(cl, s, h0)) - 1
  <2>1. /\ IsFiniteSet(Flying(dl, s, h0))
        /\ Cardinality(Flying(dl, s, h0)) = Cardinality(Flying(cl, s, h0)) - 1
    BY <1>3, FS_RemoveElement
  <2> QED
    BY <2>1, FS_CardinalityType
<1>5. ASSUME NEW h \in Hours
      PROVE  /\ IsFiniteSet(Flying(dl, s, h)) /\ Cardinality(Flying(dl, s, h)) \in Nat
             /\ lo[h] + vs[h] + Cardinality(Flying(dl, s, h)) <= st[h]
  <2> HIDE DEF vs
  <2>1. CASE h = h0
    <3>1. /\ IsFiniteSet(Flying(dl, s, h)) /\ Cardinality(Flying(dl, s, h)) \in Nat
          /\ Cardinality(Flying(dl, s, h)) = Cardinality(Flying(cl, s, h)) - 1
          /\ vs[h] = us[h] + 1
      BY <1>2, <1>4, <2>1
    <3> QED
      BY <1>3, <3>1
  <2>2. CASE h # h0
    BY <1>2, <1>3, <2>2
  <2> QED
    BY <2>1, <2>2
<1>6. /\ \A h \in Hours : old[h] = st[h] - lo[h] - us[h]
      /\ \A h \in Hours : new[h] = st[h] - lo[h] - vs[h]
  BY DEF Pending
<1> HIDE DEF vs, old, new
<1>7. Amounts(new, Hours) /\ Amounts(old, Hours)
  <2>1. ASSUME NEW h \in Hours PROVE new[h] \in Nat /\ old[h] \in Nat
    <3>1. /\ lo[h] + vs[h] + Cardinality(Flying(dl, s, h)) <= st[h]
          /\ Cardinality(Flying(dl, s, h)) \in Nat /\ vs[h] \in Nat
      BY <1>2, <1>5
    <3> QED
      BY <1>3, <1>6, <3>1
  <2> QED
    BY <2>1 DEF Amounts
<1>8. old[h0] = new[h0] + 1 /\ \A h \in Hours \ {h0} : old[h] = new[h]
  <2>1. vs[h0] = us[h0] + 1 /\ us[h0] \in Nat /\ st[h0] \in Nat /\ lo[h0] \in Nat
    BY <1>2, <1>3
  <2>2. old[h0] = new[h0] + 1
    BY <1>6, <2>1
  <2>3. \A h \in Hours \ {h0} : old[h] = new[h]
    BY <1>2, <1>6
  <2> QED
    BY <2>2, <2>3
<1>9. Cardinality(Counted(old, Hours)) = Cardinality(Counted(new, Hours)) + 1
  BY <1>7, <1>8, CountedGrows, HoursAreFinite
<1>10. Cardinality(Counted(new, Hours)) \in Nat
  BY <1>7, HoursAreFinite, CountedIsFinite, FS_CardinalityType
<1>11. n - 1 = Cardinality(Counted(new, Hours)) /\ n - 1 \in Nat
  BY <1>1, <1>9, <1>10
<1> QED
  BY <1>1, <1>2, <1>5, <1>11 DEF Accounted, new

LEMMA FewerFlyAccounts ==
  ASSUME NEW cl, NEW dl, NEW s, NEW us, NEW st, NEW lo, NEW n,
         Accounted(cl, s, us, st, lo, n), \A h \in Hours : Flying(dl, s, h) \subseteq Flying(cl, s, h)
  PROVE  Accounted(dl, s, us, st, lo, n)
<1>1. ASSUME NEW h \in Hours
      PROVE  /\ IsFiniteSet(Flying(dl, s, h))
             /\ lo[h] + us[h] + Cardinality(Flying(dl, s, h)) <= st[h]
  <2>1. /\ IsFiniteSet(Flying(cl, s, h)) /\ lo[h] \in Nat /\ us[h] \in Nat /\ st[h] \in Nat
        /\ lo[h] + us[h] + Cardinality(Flying(cl, s, h)) <= st[h]
    BY DEF Accounted
  <2>2. /\ IsFiniteSet(Flying(dl, s, h))
        /\ Cardinality(Flying(dl, s, h)) <= Cardinality(Flying(cl, s, h))
    BY <2>1, FS_Subset
  <2>3. Cardinality(Flying(cl, s, h)) \in Nat /\ Cardinality(Flying(dl, s, h)) \in Nat
    BY <2>1, <2>2, FS_CardinalityType
  <2> QED
    BY <2>1, <2>2, <2>3
<1> QED
  BY <1>1 DEF Accounted

(* The calls with c as t.                                                 *)
Put(cl, c, t) == [cl EXCEPT ![c] = t]

LEMMA TakingOff ==
  ASSUME NEW cl \in [Calls -> CallType], NEW c \in Calls, NEW t, ~Flies(cl[c]), Flies(t),
         NEW r, NEW h
  PROVE  /\ c \notin Flying(cl, r, h)
         /\ r = ServiceOf(t.id.kind) /\ h = t.hour => Flying(Put(cl, c, t), r, h) = Flying(cl, r, h) \cup {c}
         /\ ~(r = ServiceOf(t.id.kind) /\ h = t.hour) => Flying(Put(cl, c, t), r, h) = Flying(cl, r, h)
<1> DEFINE dl == Put(cl, c, t)
<1>1. \A d \in Calls : dl[d] = IF d = c THEN t ELSE cl[d]
  BY DEF Put
<1> HIDE DEF dl
<1>2. c \notin Flying(cl, r, h)
  BY DEF Flying
<1>3. \A d \in Calls \ {c} : d \in Flying(dl, r, h) <=> d \in Flying(cl, r, h)
  BY <1>1 DEF Flying
<1>4. c \in Flying(dl, r, h) <=> r = ServiceOf(t.id.kind) /\ h = t.hour
  BY <1>1 DEF Flying
<1>5. Flying(dl, r, h) \subseteq Calls /\ Flying(cl, r, h) \subseteq Calls
  BY DEF Flying
<1> QED
  BY ONLY <1>2, <1>3, <1>4, <1>5 DEF dl

LEMMA Landing ==
  ASSUME NEW cl \in [Calls -> CallType], NEW c \in Calls, NEW t, Flies(cl[c]), ~Flies(t),
         NEW r, NEW h
  PROVE  /\ Flying(Put(cl, c, t), r, h) = Flying(cl, r, h) \ {c}
         /\ c \in Flying(cl, r, h) <=> r = ServiceOf(cl[c].id.kind) /\ h = cl[c].hour
<1> DEFINE dl == Put(cl, c, t)
<1>1. \A d \in Calls : dl[d] = IF d = c THEN t ELSE cl[d]
  BY DEF Put
<1> HIDE DEF dl
<1>2. c \notin Flying(dl, r, h)
  BY <1>1 DEF Flying
<1>3. \A d \in Calls \ {c} : d \in Flying(dl, r, h) <=> d \in Flying(cl, r, h)
  BY <1>1 DEF Flying
<1>4. c \in Flying(cl, r, h) <=> r = ServiceOf(cl[c].id.kind) /\ h = cl[c].hour
  BY DEF Flying
<1>5. Flying(dl, r, h) \subseteq Calls /\ Flying(cl, r, h) \subseteq Calls
  BY DEF Flying
<1> QED
  BY ONLY <1>2, <1>3, <1>4, <1>5 DEF dl

LEMMA CallsAreTyped ==
  ASSUME IInv, NEW c \in Calls
  PROVE  /\ call \in [Calls -> CallType] /\ call[c] \in CallType /\ CallTyped(call[c])
         /\ call[c].pc # "none" => call[c].id \in Identity
BY DEF IInv, Shared, Typed, CallTyped

(* The limit the code asks about counts what is recorded and inflight.     *)
LEMMA AskedLimit ==
  ASSUME QuotaInv, NEW s \in Services, Daily > 0 => Requests24h(s) + inflight[s] < Daily
  PROVE  Daily > 0 => Cardinality(Counted(used[s], Within(hour))) + inflight[s] < Daily
<1> DEFINE f == used[s]
<1>1. f \in [Hours -> Nat]
  BY DEF QuotaInv, Accounted
<1>2. CountedHours = Within(hour) /\ CountedHours \subseteq Hours /\ IsFiniteSet(CountedHours)
  BY HoursAreFinite DEF CountedHours, Within
<1>3. Amounts(f, CountedHours)
  BY <1>1, <1>2 DEF Amounts
<1> HIDE DEF f
<1>4. MapThenSumSet(LAMBDA h : f[h], CountedHours) = Cardinality(Counted(f, CountedHours))
  BY <1>2, <1>3, SumIsCount
<1>5. Requests24h(s) = MapThenSumSet(LAMBDA h : f[h], CountedHours)
  BY DEF Requests24h, f
<1> QED
  BY <1>2, <1>4, <1>5 DEF f

LEMMA AdmitKeeps ==
  ASSUME IInv, QuotaInv, NEW c \in Calls, Admit(c)
  PROVE  QuotaInv'
<1> DEFINE s == ServiceOf(call[c].id.kind)
<1>1. /\ call \in [Calls -> CallType] /\ call[c] \in CallType /\ call[c].id \in Identity
      /\ call[c].pc = "admit" /\ call[c].id.kind \in Limited /\ ~Flies(call[c]) /\ OnlyLimited(call)
      /\ hour \in Hours /\ hour' = hour
  BY CallsAreTyped DEF Admit, QuotaInv, OnlyLimited, Flies, clock
<1>2. s \in Services
  BY DEF ServiceOf, Services
<1>3. ASSUME NEW out \in {"failed", "refused"}, Conclude(c, out), UNCHANGED quota
      PROVE  QuotaInv'
  <2>1. call' = [call EXCEPT ![c] = [call[c] EXCEPT !.pc = "end", !.out = out]]
    BY <1>1, <1>3 DEF Conclude
  <2>2. Steady(call[c], [call[c] EXCEPT !.pc = "end", !.out = out])
    BY <1>1, MovingOn DEF CallStages, Outcomes
  <2>3. \A d \in Calls : Steady(call[d], call'[d])
    BY <1>1, <2>1, <2>2, OneMoves
  <2> QED
    BY <1>1, <1>3, <2>3, QuietKeeps DEF quota
<1>4. ASSUME Daily > 0 => Requests24h(s) + inflight[s] < Daily,
             inflight' = [inflight EXCEPT ![s] = @ + 1],
             sent' = [sent EXCEPT ![s][hour] = @ + 1],
             call' = [call EXCEPT ![c].pc = "asking", ![c].hour = hour],
             UNCHANGED <<used, lost>>
      PROVE  QuotaInv'
  <2> DEFINE t == [call[c] EXCEPT !.pc = "asking", !.hour = hour]
  <2>1. call' = [call EXCEPT ![c] = t]
    BY <1>1, <1>4
  <2>2. t.pc = "asking" /\ t.hour = hour /\ t.id = call[c].id
    BY <1>1 DEF CallType
  <2> HIDE DEF t
  <2>3. Flies(t)
    BY <1>1, <2>2 DEF Flies
  <2>4. ASSUME NEW r, NEW h
        PROVE  /\ c \notin Flying(call, r, h)
               /\ r = s /\ h = hour => Flying(call', r, h) = Flying(call, r, h) \cup {c}
               /\ ~(r = s /\ h = hour) => Flying(call', r, h) = Flying(call, r, h)
    <3>1. ServiceOf(t.id.kind) = s
      BY <2>2
    <3>2. /\ c \notin Flying(call, r, h)
          /\ r = ServiceOf(t.id.kind) /\ h = t.hour => Flying(call', r, h) = Flying(call, r, h) \cup {c}
          /\ ~(r = ServiceOf(t.id.kind) /\ h = t.hour) => Flying(call', r, h) = Flying(call, r, h)
      <4>1. call' = Put(call, c, t)
        BY <2>1 DEF Put
      <4> HIDE DEF s
      <4> QED
        BY <1>1, <2>3, <4>1, TakingOff
    <3> HIDE DEF s
    <3> QED
      BY ONLY <2>2, <3>1, <3>2
  <2>5. OnlyLimited(call')
    <3>1. \A d \in Calls : call'[d] = IF d = c THEN t ELSE call[d]
      BY <1>1, <2>1
    <3> QED
      BY <1>1, <2>2, <3>1 DEF OnlyLimited
  <2>6. ASSUME NEW r \in Services
        PROVE  /\ Accounted(call, r, used[r], sent[r], lost[r], inflight[r])
               /\ Limits(sent[r], lost[r], hour)
    BY DEF QuotaInv
  <2>7. /\ sent' = [r \in Services |-> sent'[r]] /\ inflight' = [r \in Services |-> inflight'[r]]
        /\ sent'[s] = [sent[s] EXCEPT ![hour] = @ + 1] /\ inflight'[s] = inflight[s] + 1
        /\ \A r \in Services \ {s} : sent'[r] = sent[r] /\ inflight'[r] = inflight[r]
    BY <1>2, <1>4 DEF QuotaInv
  <2>8. Accounted(call', s, used[s], sent'[s], lost[s], inflight'[s])
    <3>1. Accounted(call, s, used[s], sent[s], lost[s], inflight[s])
      BY <1>2, <2>6
    <3>2. /\ c \notin Flying(call, s, hour) /\ Flying(call', s, hour) = Flying(call, s, hour) \cup {c}
          /\ \A h \in Hours \ {hour} : Flying(call', s, h) = Flying(call, s, h)
      BY <2>4
    <3>3. Accounted(call', s, used[s], [sent[s] EXCEPT ![hour] = @ + 1], lost[s], inflight[s] + 1)
      BY <1>1, <3>1, <3>2, AdmittedAccounts
    <3> QED
      BY <2>7, <3>3
  <2>9. Limits(sent'[s], lost[s], hour)
    <3>1. Daily > 0 => Cardinality(Counted(used[s], Within(hour))) + inflight[s] < Daily
      BY <1>2, <1>4, AskedLimit
    <3>2. Limits([sent[s] EXCEPT ![hour] = @ + 1], lost[s], hour)
      BY <1>1, <1>2, <2>6, <3>1, AdmittedLimits
    <3> QED
      BY <2>7, <3>2
  <2>10. ASSUME NEW r \in Services \ {s}
         PROVE  /\ Accounted(call', r, used[r], sent'[r], lost[r], inflight'[r])
                /\ Limits(sent'[r], lost[r], hour)
    <3>1. \A h \in Hours : Flying(call', r, h) \subseteq Flying(call, r, h)
      BY <2>4
    <3>2. Accounted(call', r, used[r], sent[r], lost[r], inflight[r])
      BY <2>6, <3>1, FewerFlyAccounts
    <3> QED
      BY <2>6, <2>7, <3>2
  <2>11. /\ used' = used /\ lost' = lost
    BY <1>4
  <2>12. ASSUME NEW r \in Services
         PROVE  /\ Accounted(call', r, used'[r], sent'[r], lost'[r], inflight'[r])
                /\ Limits(sent'[r], lost'[r], hour')
    BY <1>1, <2>8, <2>9, <2>10, <2>11
  <2> QED
    BY <1>1, <2>5, <2>7, <2>11, <2>12 DEF QuotaInv
<1> QED
  BY <1>3, <1>4 DEF Admit

LEMMA ReleaseKeeps ==
  ASSUME IInv, QuotaInv, NEW c \in Calls, Release(c)
  PROVE  QuotaInv'
<1> DEFINE s == ServiceOf(call[c].id.kind)
           h0 == call[c].hour
           t == [call[c] EXCEPT !.pc = "keep"]
<1>1. /\ call \in [Calls -> CallType] /\ call[c] \in CallType
      /\ call[c].pc = "release" /\ call[c].id.kind \in Limited /\ OnlyLimited(call)
      /\ hour \in Hours /\ hour' = hour /\ sent' = sent /\ lost' = lost
  BY CallsAreTyped DEF Release, QuotaInv, OnlyLimited, clock
<1>2. s \in Services /\ h0 \in Hours /\ Flies(call[c])
  BY <1>1 DEF ServiceOf, Services, OnlyLimited, Flies
<1>3. call' = [call EXCEPT ![c] = t] /\ t.pc = "keep"
  BY <1>1 DEF Release, Advance, CallType
<1> HIDE DEF t
<1>4. ~Flies(t)
  BY <1>3 DEF Flies
<1>5. ASSUME NEW r, NEW h
      PROVE  /\ Flying(call', r, h) = Flying(call, r, h) \ {c}
             /\ c \in Flying(call, r, h) <=> r = s /\ h = h0
  <2>1. call' = Put(call, c, t)
    BY <1>3 DEF Put
  <2> QED
    BY <1>1, <1>2, <2>1, <1>4, Landing
<1>6. OnlyLimited(call')
  <2>1. \A d \in Calls : call'[d] = IF d = c THEN t ELSE call[d]
    BY <1>1, <1>3
  <2> QED
    BY <1>1, <1>3, <1>4, <2>1 DEF OnlyLimited
<1>7. ASSUME NEW r \in Services
      PROVE  /\ Accounted(call, r, used[r], sent[r], lost[r], inflight[r])
             /\ Accounted(call', r, used[r], sent[r], lost[r], inflight[r])
             /\ Limits(sent[r], lost[r], hour)
  <2>1. /\ Accounted(call, r, used[r], sent[r], lost[r], inflight[r])
        /\ Limits(sent[r], lost[r], hour)
    BY DEF QuotaInv
  <2>2. \A h \in Hours : Flying(call', r, h) \subseteq Flying(call, r, h)
    BY <1>5
  <2> QED
    BY <2>1, <2>2, FewerFlyAccounts
<1>8. CASE UNCHANGED <<used, inflight>>
  BY <1>1, <1>6, <1>7, <1>8 DEF QuotaInv
<1>9. ASSUME used' = [used EXCEPT ![s][h0] = @ + 1], inflight' = [inflight EXCEPT ![s] = @ - 1]
      PROVE  QuotaInv'
  <2>1. /\ used' = [r \in Services |-> used'[r]] /\ inflight' = [r \in Services |-> inflight'[r]]
        /\ used'[s] = [used[s] EXCEPT ![h0] = @ + 1] /\ inflight'[s] = inflight[s] - 1
        /\ \A r \in Services \ {s} : used'[r] = used[r] /\ inflight'[r] = inflight[r]
    BY <1>2, <1>9 DEF QuotaInv
  <2>2. Accounted(call', s, used'[s], sent[s], lost[s], inflight'[s])
    <3>1. c \in Flying(call, s, h0) /\ Flying(call', s, h0) = Flying(call, s, h0) \ {c}
      BY <1>5
    <3>3. ASSUME NEW h \in Hours \ {h0} PROVE Flying(call', s, h) = Flying(call, s, h)
      <4>1. c \notin Flying(call, s, h) /\ Flying(call', s, h) = Flying(call, s, h) \ {c}
        BY <1>5
      <4> QED
        BY ONLY <4>1
    <3>2. Accounted(call', s, [used[s] EXCEPT ![h0] = @ + 1], sent[s], lost[s], inflight[s] - 1)
      BY <1>2, <1>7, <3>1, <3>3, RecordedAccounts
    <3> QED
      BY <2>1, <3>2
  <2>3. ASSUME NEW r \in Services
        PROVE  /\ Accounted(call', r, used'[r], sent'[r], lost'[r], inflight'[r])
               /\ Limits(sent'[r], lost'[r], hour')
    BY <1>1, <1>7, <2>1, <2>2
  <2> QED
    BY <1>1, <1>6, <2>1, <2>3 DEF QuotaInv
<1> QED
  BY <1>8, <1>9 DEF Release

-----------------------------------------------------------------------------
(* Everything else leaves the requests on their way alone.                 *)

LEMMA JoinedIsSteady ==
  ASSUME IInv, QuotaInv, NEW i \in Identity, NEW who \in Readers \cup Calls, HasRoom(i),
         NEW cl, cl = Joined(i, who)
  PROVE  \A d \in Calls : Steady(call[d], cl[d])
<1>1. call \in [Calls -> CallType] /\ OnlyLimited(call) /\ open \in [Identity -> Calls \cup {None}]
  BY DEF IInv, Shared, Typed, QuotaInv
<1>2. CASE open[i] = None
  <2>1. PICK f \in Calls : f = Fresh /\ call[f].pc = "none"
    BY <1>2 DEF HasRoom, Fresh
  <2>2. Steady(call[f], NewCall(i, who))
    <3>1. NewCall(i, who).pc = "look"
      BY DEF NewCall, NoCall
    <3> QED
      BY <2>1, <3>1 DEF Steady, Flies
  <2>3. cl = [call EXCEPT ![f] = NewCall(i, who)]
    BY <1>2, <2>1 DEF Joined
  <2> QED
    BY <1>1, <2>2, <2>3, OneMoves
<1>3. CASE open[i] # None
  <2> DEFINE f == open[i]
             t == [call[f] EXCEPT !.readers = @ \cup {who}]
  <2>1. f \in Calls /\ call[f] \in CallType
    BY <1>1, <1>3
  <2>2. t.pc = call[f].pc /\ t.id = call[f].id /\ t.hour = call[f].hour
    BY <2>1 DEF CallType
  <2>3. cl = [call EXCEPT ![f] = t]
    BY <1>3, <2>1 DEF Joined
  <2> HIDE DEF t, f
  <2>4. Steady(call[f], t)
    BY <1>1, <2>1, <2>2 DEF Steady, Flies, OnlyLimited
  <2> QED
    BY <1>1, <2>1, <2>3, <2>4, OneMoves
<1> QED
  BY <1>2, <1>3

LEMMA LeftIsSteady ==
  ASSUME IInv, QuotaInv, NEW c \in Calls, NEW who, NEW cl, cl = [call EXCEPT ![c] = WithoutReader(c, who)]
  PROVE  \A d \in Calls : Steady(call[d], cl[d])
<1> DEFINE rest == call[c].readers \ {who}
           t == WithoutReader(c, who)
<1>1. call \in [Calls -> CallType] /\ call[c] \in CallType /\ OnlyLimited(call)
  BY CallsAreTyped DEF QuotaInv
<1>2. /\ \/ t = [call[c] EXCEPT !.readers = rest]
         \/ call[c].pc = "done" /\ t = NoCall
         \/ t = [call[c] EXCEPT !.readers = rest, !.cancelled = TRUE]
  BY <1>1 DEF WithoutReader, CallType
<1>3. \/ t.pc = call[c].pc /\ t.id = call[c].id /\ t.hour = call[c].hour
      \/ call[c].pc = "done" /\ t.pc = "none"
  <2>1. CASE t = [call[c] EXCEPT !.readers = rest]
    BY <1>1, <2>1 DEF CallType
  <2>2. CASE call[c].pc = "done" /\ t = NoCall
    BY <2>2 DEF NoCall
  <2>3. CASE t = [call[c] EXCEPT !.readers = rest, !.cancelled = TRUE]
    BY <1>1, <2>3 DEF CallType
  <2> HIDE DEF t, rest
  <2> QED
    BY <1>2, <2>1, <2>2, <2>3
<1> HIDE DEF t
<1>4. Steady(call[c], t)
  BY <1>1, <1>3 DEF Steady, Flies, OnlyLimited
<1>5. cl = [call EXCEPT ![c] = t]
  BY DEF t
<1> QED
  BY <1>1, <1>4, <1>5, OneMoves

LEMMA SteadyTwice ==
  ASSUME NEW s, NEW t, NEW u, Steady(s, t), Steady(t, u)
  PROVE  Steady(s, u)
BY DEF Steady

LEMMA SteadyWork ==
  ASSUME IInv, QuotaInv, NEW c \in Calls, Look(c) \/ TakeSlot(c) \/ Answer(c) \/ Keep(c) \/ Finish(c)
  PROVE  QuotaInv'
<1>1. /\ call \in [Calls -> CallType] /\ call[c] \in CallType /\ OnlyLimited(call)
      /\ call[c].pc # "none" /\ call[c].id \in Identity
  BY CallsAreTyped DEF QuotaInv, Look, TakeSlot, Answer, Keep, Finish
<1>2. UNCHANGED <<used, inflight, sent, lost, hour>>
  BY DEF Look, TakeSlot, Answer, Keep, Finish, quota, clock
<1>3. ASSUME NEW t, call' = [call EXCEPT ![c] = t], Steady(call[c], t)
      PROVE  QuotaInv'
  <2>1. \A d \in Calls : Steady(call[d], call'[d])
    BY <1>1, <1>3, OneMoves
  <2> QED
    BY <1>2, <2>1, QuietKeeps
<1>4. CASE Look(c)
  <2>1. ~Flies(call[c])
    BY <1>4 DEF Look, Flies
  <2>2. CASE Conclude(c, kept[call[c].id])
    <3>1. kept[call[c].id] \in Outcomes \cup {None}
      BY <1>1 DEF IInv, KeptTyped, Outcomes
    <3>2. call' = [call EXCEPT ![c] = [call[c] EXCEPT !.pc = "end", !.out = kept[call[c].id]]]
      BY <1>1, <2>2 DEF Conclude
    <3>3. Steady(call[c], [call[c] EXCEPT !.pc = "end", !.out = kept[call[c].id]])
      BY <1>1, <2>1, <3>1, MovingOn DEF CallStages
    <3> QED
      BY <1>3, <3>2, <3>3
  <2>3. CASE Advance(c, AfterLook[call[c].id.kind])
    <3> DEFINE pc == AfterLook[call[c].id.kind]
    <3>1. /\ pc \in {"join", "admit", "slot", "asking"}
          /\ pc = "admit" => call[c].id.kind \in Limited
          /\ pc \in {"slot", "asking"} => call[c].id.kind \notin Limited
      BY <1>1 DEF AfterLook, Identity, Kinds, Limited
    <3>2. call' = [call EXCEPT ![c] = [call[c] EXCEPT !.pc = pc]]
      BY <1>1, <2>3 DEF Advance
    <3> HIDE DEF pc
    <3>3. Steady(call[c], [call[c] EXCEPT !.pc = pc])
      BY <1>1, <2>1, <3>1, MovingOn DEF CallStages
    <3> QED
      BY <1>3, <3>2, <3>3
  <2> QED
    BY <1>4, <2>2, <2>3 DEF Look
<1>5. CASE TakeSlot(c)
  <2>1. ~Flies(call[c])
    BY <1>5 DEF TakeSlot, Flies
  <2>2. CASE Conclude(c, "cancelled")
    <3>2. call' = [call EXCEPT ![c] = [call[c] EXCEPT !.pc = "end", !.out = "cancelled"]]
      BY <1>1, <2>2 DEF Conclude
    <3>3. Steady(call[c], [call[c] EXCEPT !.pc = "end", !.out = "cancelled"])
      BY <1>1, <2>1, MovingOn DEF CallStages, Outcomes
    <3> QED
      BY <1>3, <3>2, <3>3
  <2>3. CASE Advance(c, "asking")
    <3>1. call[c].id.kind \notin Limited
      BY <1>1, <1>5 DEF TakeSlot, OnlyLimited
    <3>2. call' = [call EXCEPT ![c] = [call[c] EXCEPT !.pc = "asking"]]
      BY <1>1, <2>3 DEF Advance
    <3>3. Steady(call[c], [call[c] EXCEPT !.pc = "asking"])
      BY <1>1, <2>1, <3>1, MovingOn DEF CallStages
    <3> QED
      BY <1>3, <3>2, <3>3
  <2> QED
    BY <1>5, <2>2, <2>3 DEF TakeSlot
<1>6. CASE Answer(c)
  <2>1. PICK out : call' = [call EXCEPT ![c].out = out,
                              ![c].pc = IF call[c].id.kind \in Limited THEN "release" ELSE "keep"]
    BY <1>6 DEF Answer
  <2> DEFINE pc == IF call[c].id.kind \in Limited THEN "release" ELSE "keep"
             t == [call[c] EXCEPT !.out = out, !.pc = pc]
  <2>2. call' = [call EXCEPT ![c] = t]
    BY <1>1, <2>1
  <2>3. t.pc = pc /\ t.id = call[c].id /\ t.hour = call[c].hour
    BY <1>1 DEF CallType
  <2> HIDE DEF t
  <2>4. Steady(call[c], t)
    BY <1>6, <2>3 DEF Answer, Steady, Flies
  <2> QED
    BY <1>3, <2>2, <2>4
<1>7. CASE Keep(c)
  <2>1. ~Flies(call[c])
    BY <1>7 DEF Keep, Flies
  <2>2. call' = [call EXCEPT ![c] = [call[c] EXCEPT !.pc = "end"]]
    BY <1>1, <1>7 DEF Keep, Advance
  <2>3. Steady(call[c], [call[c] EXCEPT !.pc = "end"])
    BY <1>1, <2>1, MovingOn DEF CallStages
  <2> QED
    BY <1>3, <2>2, <2>3
<1>8. CASE Finish(c)
  <2> DEFINE t == IF call[c].readers = {} THEN NoCall ELSE [call[c] EXCEPT !.pc = "done"]
  <2>1. call' = [call EXCEPT ![c] = t]
    BY <1>1, <1>8 DEF Finish
  <2>2. t.pc \in {"none", "done"} /\ call[c].pc = "end"
    BY <1>1, <1>8 DEF Finish, CallType, NoCall
  <2> HIDE DEF t
  <2>3. Steady(call[c], t)
    BY <2>2 DEF Steady, Flies
  <2> QED
    BY <1>3, <2>1, <2>3
<1> QED
  BY <1>4, <1>5, <1>6, <1>7, <1>8

LEMMA SteadyLegs ==
  ASSUME IInv, QuotaInv, NEW c \in Calls, LegJoin(c) \/ LegReceive(c) \/ LegLeave(c)
  PROVE  QuotaInv'
<1>1. /\ call \in [Calls -> CallType] /\ call[c] \in CallType /\ CallTyped(call[c]) /\ OnlyLimited(call)
      /\ call[c].pc # "none" /\ call[c].id \in Identity /\ ~Flies(call[c])
  BY CallsAreTyped DEF QuotaInv, LegJoin, LegReceive, LegLeave, Flies
<1>2. UNCHANGED <<used, inflight, sent, lost, hour>>
  BY DEF LegJoin, LegReceive, LegLeave, quota, clock
<1>3. ASSUME NEW cl, \A d \in Calls : Steady(call[d], cl[d]), Shared(cl, open'),
             NEW pc \in {"wait", "keep", "end"}, NEW out \in Outcomes \cup {None}, NEW on \in Calls \cup {None},
             \/ call' = [cl EXCEPT ![c] = [cl[c] EXCEPT !.pc = pc, !.on = on]]
             \/ call' = [cl EXCEPT ![c] = [cl[c] EXCEPT !.pc = pc, !.out = out]]
             \/ call' = [cl EXCEPT ![c] = [cl[c] EXCEPT !.pc = pc, !.out = out, !.on = on]],
             AtWork(cl[c])
      PROVE  QuotaInv'
  <2>1. cl \in [Calls -> CallType] /\ cl[c] \in CallType /\ cl[c].id \in Identity /\ OnlyLimited(cl)
    BY <1>1, <1>3, StillFlying DEF Shared, Typed, CallTyped, AtWork
  <2>2. ~Flies(cl[c])
    BY <1>1, <1>3 DEF Steady
  <2>3. /\ Steady(cl[c], [cl[c] EXCEPT !.pc = pc, !.on = on])
        /\ Steady(cl[c], [cl[c] EXCEPT !.pc = pc, !.out = out])
        /\ Steady(cl[c], [cl[c] EXCEPT !.pc = pc, !.out = out, !.on = on])
    BY <2>1, <2>2, MovingOn DEF CallStages
  <2>4. PICK t : call' = [cl EXCEPT ![c] = t] /\ Steady(cl[c], t)
    BY <1>3, <2>3
  <2>5. \A d \in Calls : Steady(cl[d], call'[d])
    BY <2>1, <2>4, OneMoves
  <2>6. \A d \in Calls : Steady(call[d], call'[d])
    BY <1>3, <2>5, SteadyTwice
  <2> QED
    BY <1>2, <2>6, QuietKeeps
<1>4. CASE LegJoin(c)
  <2> DEFINE i == RouteOf(call[c].id)
             cl == Joined(i, c)
  <2>1. i \in Identity /\ AtWork(call[c])
    BY <1>1, <1>4 DEF RouteOf, Identity, Kinds, LegJoin, AtWork
  <2>2. CASE Conclude(c, "cancelled")
    <3>1. call' = [call EXCEPT ![c] = [call[c] EXCEPT !.pc = "end", !.out = "cancelled"]]
      BY <1>1, <2>2 DEF Conclude
    <3>2. Steady(call[c], [call[c] EXCEPT !.pc = "end", !.out = "cancelled"])
      BY <1>1, MovingOn DEF CallStages, Outcomes
    <3>3. \A d \in Calls : Steady(call[d], call'[d])
      BY <1>1, <3>1, <3>2, OneMoves
    <3> QED
      BY <1>2, <3>3, QuietKeeps
  <2>3. ASSUME HasRoom(i), open' = [open EXCEPT ![i] = CallOf(i)],
               call' = [Joined(i, c) EXCEPT ![c].pc = "wait", ![c].on = CallOf(i)]
        PROVE  QuotaInv'
    <3>1. Shared(cl, open') /\ CallOf(i) \in Calls /\ AtWork(cl[c])
      BY <2>1, <2>3, JoiningKeeps DEF IInv
    <3>2. \A d \in Calls : Steady(call[d], cl[d])
      BY <2>1, <2>3, JoinedIsSteady
    <3>3. call' = [cl EXCEPT ![c] = [cl[c] EXCEPT !.pc = "wait", !.on = CallOf(i)]]
      BY <2>3, <3>1 DEF Shared, Typed
    <3> HIDE DEF cl, i
    <3> QED
      BY <1>3, <3>1, <3>2, <3>3
  <2> QED
    BY <1>4, <2>2, <2>3 DEF LegJoin
<1>5. CASE LegReceive(c) \/ LegLeave(c)
  <2> DEFINE d == call[c].on
             cl == [call EXCEPT ![d] = WithoutReader(d, c)]
  <2>1. d \in Calls /\ call[d].out \in Outcomes \cup {None} /\ AtWork(call[c]) /\ open' = LeftOpen(d, c)
    BY <1>1, <1>5 DEF LegReceive, LegLeave, CallTyped, CallType, AtWork
  <2>2. Shared(cl, open') /\ cl \in [Calls -> CallType]
    <3>1. Shared(cl, LeftOpen(d, c))
      BY <2>1, LeavingKeeps DEF IInv
    <3> QED
      BY <2>1, <3>1 DEF Shared, Typed
  <2>3. AtWork(cl[c])
    <3>1. CASE d = c
      BY <1>1, <2>1, <3>1, LeavingKeeps DEF IInv
    <3>2. CASE d # c
      BY <1>1, <2>1, <3>2
    <3> QED
      BY <3>1, <3>2
  <2>4. \A e \in Calls : Steady(call[e], cl[e])
    BY <2>1, LeftIsSteady
  <2>5. PICK pc \in {"keep", "end"}, out \in Outcomes \cup {None} :
          call' = [call EXCEPT ![d] = WithoutReader(d, c), ![c].pc = pc, ![c].out = out, ![c].on = None]
    BY <1>5, <2>1 DEF LegReceive, LegLeave, Outcomes
  <2>6. call' = [cl EXCEPT ![c] = [cl[c] EXCEPT !.pc = pc, !.out = out, !.on = None]]
    BY <2>2, <2>5
  <2> HIDE DEF cl, d
  <2> QED
    BY <1>3, <2>2, <2>3, <2>4, <2>6
<1> QED
  BY <1>4, <1>5

LEMMA SteadyReaders ==
  ASSUME IInv, QuotaInv, NEW r \in Readers, Read(r) \/ Disconnect(r)
  PROVE  QuotaInv'
<1>1. /\ ReaderTyped(reader[r]) /\ reader[r] \in ReaderType /\ OnlyLimited(call)
      /\ UNCHANGED <<used, inflight, sent, lost, hour>>
  BY DEF IInv, ReadersTyped, ReaderTyped, QuotaInv, Read, ForgetMemo, ForgetRoute, LookFirst, Join, Receive,
     PutBest, Leave, Disconnect, quota, clock
<1>2. CASE UNCHANGED call
  <2>1. \A d \in Calls : Steady(call[d], call'[d])
    BY <1>1, <1>2 DEF Steady, OnlyLimited
  <2> QED
    BY <1>1, <2>1, QuietKeeps
<1>3. CASE Join(r) /\ ~reader[r].gone
  <2>1. Target(r) \in Identity
    <3>1. Wanted(r) \in Wish
      BY <1>1, <1>3 DEF Join, ReaderTyped, ReaderType, Wanted
    <3>2. ASSUME NEW w \in Wish
          PROVE  [kind |-> GroupOf[w.kind], key |-> w.key] \in Identity
      BY DEF Wish, WishKinds, GroupOf, Identity, Kinds
    <3> QED
      BY <3>1, <3>2 DEF Target
  <2>2. call' = Joined(Target(r), r) /\ HasRoom(Target(r))
    BY <1>3 DEF Join
  <2>3. \A d \in Calls : Steady(call[d], call'[d])
    BY <2>1, <2>2, JoinedIsSteady
  <2> QED
    BY <1>1, <2>3, QuietKeeps
<1>4. CASE Receive(r) \/ Leave(r)
  <2>1. reader[r].on \in Calls
    BY <1>1, <1>4 DEF ReaderTyped, Receive, Leave
  <2>2. call' = [call EXCEPT ![reader[r].on] = WithoutReader(reader[r].on, r)]
    BY <1>4 DEF Receive, Leave
  <2>3. \A d \in Calls : Steady(call[d], call'[d])
    BY <2>1, <2>2, LeftIsSteady
  <2> QED
    BY <1>1, <2>3, QuietKeeps
<1> QED
  BY <1>2, <1>3, <1>4 DEF Read, ForgetMemo, ForgetRoute, LookFirst, Join, PutBest, Disconnect

-----------------------------------------------------------------------------
(* Time, restarts and the whole                                            *)

LEMMA AmountsOf ==
  ASSUME NEW cl, NEW s, NEW us, NEW st, NEW lo, NEW n, Accounted(cl, s, us, st, lo, n)
  PROVE  \A h \in Hours : /\ lo[h] + us[h] <= st[h] /\ lo[h] \in Nat /\ us[h] \in Nat /\ st[h] \in Nat
                          /\ Spent(st, lo)[h] = st[h] - lo[h] /\ Spent(st, lo)[h] \in Nat
<1> SUFFICES ASSUME NEW h \in Hours
             PROVE  /\ lo[h] + us[h] <= st[h] /\ lo[h] \in Nat /\ us[h] \in Nat /\ st[h] \in Nat
                    /\ Spent(st, lo)[h] = st[h] - lo[h] /\ Spent(st, lo)[h] \in Nat
  OBVIOUS
<1>1. /\ IsFiniteSet(Flying(cl, s, h)) /\ lo[h] \in Nat /\ us[h] \in Nat /\ st[h] \in Nat
      /\ lo[h] + us[h] + Cardinality(Flying(cl, s, h)) <= st[h]
  BY DEF Accounted
<1>2. Cardinality(Flying(cl, s, h)) \in Nat
  BY <1>1, FS_CardinalityType
<1>3. Spent(st, lo)[h] = st[h] - lo[h]
  BY DEF Spent
<1> QED
  BY <1>1, <1>2, <1>3

(* An hour later the oldest counted hour is let go of, and nothing has     *)
(* been sent in the new one.                                               *)
LEMMA HourLimits ==
  ASSUME NEW cl, NEW s, NEW us, NEW st, NEW lo, NEW n, NEW now \in Hours,
         Accounted(cl, s, us, st, lo, n), Limits(st, lo, now)
  PROVE  Limits(st, lo, now + 1)
<1> DEFINE d == Spent(st, lo)
           W == Within(now)
           X == Within(now + 1)
<1>1. \A h \in Hours : /\ lo[h] + us[h] <= st[h] /\ lo[h] \in Nat /\ us[h] \in Nat /\ st[h] \in Nat
                       /\ d[h] = st[h] - lo[h] /\ d[h] \in Nat
  BY AmountsOf
<1>2. now \in Nat /\ Hours \subseteq Nat /\ Window \in Nat
  BY LimitsAssumption DEF Hours
<1>3. \A h \in Hours : h > now => st[h] = 0
  BY DEF Limits
<1>4. W \subseteq Hours /\ X \subseteq Hours /\ IsFiniteSet(W) /\ \A h \in X : h \in W \/ h > now
  BY <1>2, HoursAreFinite DEF Within
<1> HIDE DEF d, W, X
<1>5. Amounts(d, W) /\ Amounts(d, X)
  BY <1>1, <1>4 DEF Amounts
<1>6. ASSUME NEW h \in X PROVE d[h] = 0 \/ (h \in W /\ d[h] <= d[h])
  <2>1. CASE h \in W
    BY <1>5, <2>1 DEF Amounts
  <2>2. CASE h > now
    <3>1. st[h] = 0 /\ lo[h] \in Nat /\ lo[h] + us[h] <= st[h] /\ us[h] \in Nat /\ d[h] = st[h] - lo[h]
      BY <1>1, <1>3, <1>4, <2>2
    <3> QED
      BY <3>1
  <2> QED
    BY <1>4, <2>1, <2>2
<1>7. Cardinality(Counted(d, X)) <= Cardinality(Counted(d, W))
  BY <1>4, <1>5, <1>6, CountedFewer
<1>8. Cardinality(Counted(d, X)) \in Nat /\ Cardinality(Counted(d, W)) \in Nat
  <2>1. IsFiniteSet(X)
    BY HoursAreFinite DEF X
  <2> QED
    BY <1>4, <1>5, <2>1, CountedIsFinite, FS_CardinalityType
<1>9. Daily > 0 => Cardinality(Counted(d, W)) <= Daily
  BY DEF Limits, d, W
<1>10. Daily > 0 => Cardinality(Counted(d, X)) <= Daily
  BY <1>7, <1>8, <1>9, LimitsAssumption
<1>11. \A h \in Hours : h > now + 1 => st[h] = 0
  BY <1>2, <1>3
<1> QED
  BY <1>10, <1>11 DEF Limits, d, X

(* After a restart nothing is on its way, and only what was recorded       *)
(* counts.                                                                 *)
LEMMA NobodyFlies ==
  ASSUME NEW s, NEW h
  PROVE  Flying([c \in Calls |-> NoCall], s, h) = {}
BY DEF Flying, Flies, NoCall

Unrecorded(us, st) == [h \in Hours |-> st[h] - us[h]]

LEMMA RestartedAccounts ==
  ASSUME NEW cl, NEW dl, NEW s, NEW us, NEW st, NEW lo, NEW n, NEW now \in Hours,
         Accounted(cl, s, us, st, lo, n), Limits(st, lo, now),
         \A h \in Hours : Flying(dl, s, h) = {}
  PROVE  Accounted(dl, s, us, st, Unrecorded(us, st), 0) /\ Limits(st, Unrecorded(us, st), now)
<1> DEFINE mo == Unrecorded(us, st)
           d == Spent(st, lo)
           e == Spent(st, mo)
           W == Within(now)
<1>1. \A h \in Hours : /\ lo[h] + us[h] <= st[h] /\ lo[h] \in Nat /\ us[h] \in Nat /\ st[h] \in Nat
                       /\ d[h] = st[h] - lo[h] /\ d[h] \in Nat
  BY AmountsOf
<1>2. \A h \in Hours : mo[h] = st[h] - us[h] /\ mo[h] \in Nat /\ e[h] = us[h] /\ e[h] \in Nat /\ e[h] <= d[h]
  <2>1. \A h \in Hours : mo[h] = st[h] - us[h] /\ e[h] = st[h] - mo[h]
    BY DEF Spent, Unrecorded
  <2> QED
    BY <1>1, <2>1
<1>3. us \in [Hours -> Nat] /\ st \in [Hours -> Nat] /\ mo \in [Hours -> Nat]
  BY <1>2 DEF Accounted, Unrecorded
<1>4. ASSUME NEW h \in Hours
      PROVE  IsFiniteSet(Flying(dl, s, h)) /\ mo[h] + us[h] + Cardinality(Flying(dl, s, h)) <= st[h]
  <2>1. IsFiniteSet(Flying(dl, s, h)) /\ Cardinality(Flying(dl, s, h)) = 0
    BY FS_EmptySet
  <2> QED
    BY <1>1, <1>2, <2>1
<1>5. 0 = Cardinality(Counted(Pending(us, st, mo), Hours))
  <2> DEFINE p == Pending(us, st, mo)
  <2>1. \A h \in Hours : p[h] = 0
    BY <1>1, <1>2 DEF Pending
  <2> HIDE DEF p
  <2>2. Counted(p, Hours) = {}
    BY <2>1 DEF Counted
  <2> QED
    BY <2>2, FS_EmptySet DEF p
<1>6. Accounted(dl, s, us, st, mo, 0)
  BY <1>3, <1>4, <1>5 DEF Accounted
<1>7. W \subseteq Hours /\ IsFiniteSet(W)
  BY HoursAreFinite DEF Within
<1> HIDE DEF d, e, W
<1>8. Amounts(d, W) /\ Amounts(e, W) /\ \A h \in W : e[h] = 0 \/ (h \in W /\ e[h] <= d[h])
  BY <1>1, <1>2, <1>7 DEF Amounts
<1>9. Cardinality(Counted(e, W)) <= Cardinality(Counted(d, W))
  BY <1>7, <1>8, CountedFewer
<1>10. Cardinality(Counted(e, W)) \in Nat /\ Cardinality(Counted(d, W)) \in Nat
  BY <1>7, <1>8, CountedIsFinite, FS_CardinalityType
<1>11. Daily > 0 => Cardinality(Counted(d, W)) <= Daily
  BY DEF Limits, d, W
<1>12. Daily > 0 => Cardinality(Counted(e, W)) <= Daily
  BY <1>9, <1>10, <1>11, LimitsAssumption
<1>13. Limits(st, mo, now)
  BY <1>12 DEF Limits, e, W
<1> QED
  BY <1>6, <1>13

LEMMA QuotaOthers ==
  ASSUME IInv, QuotaInv,
         \/ \E i \in Identity : Expire(i)
         \/ \E s \in Services : MinutePasses(s)
         \/ HourPasses \/ Restart
  PROVE  QuotaInv'
<1>1. ASSUME UNCHANGED <<call, used, inflight, sent, lost, hour>> PROVE QuotaInv'
  <2>1. \A d \in Calls : Steady(call[d], call'[d])
    BY <1>1 DEF Steady, QuotaInv, OnlyLimited
  <2> QED
    BY <1>1, <2>1, QuietKeeps
<1>2. CASE HourPasses
  <2>1. UNCHANGED <<call, used, inflight, sent, lost>> /\ hour' = hour + 1 /\ hour \in Hours /\ hour < MaxHour
    BY <1>2 DEF HourPasses, QuotaInv
  <2>2. hour' \in Hours
    BY <2>1, LimitsAssumption DEF Hours
  <2>3. ASSUME NEW s \in Services
        PROVE  /\ Accounted(call, s, used[s], sent[s], lost[s], inflight[s])
               /\ Limits(sent[s], lost[s], hour + 1)
    <3>1. /\ Accounted(call, s, used[s], sent[s], lost[s], inflight[s])
          /\ Limits(sent[s], lost[s], hour)
      BY DEF QuotaInv
    <3> QED
      BY <2>1, <3>1, HourLimits
  <2> QED
    BY <2>1, <2>2, <2>3 DEF QuotaInv
<1>3. CASE Restart
  <2>1. /\ call' = [c \in Calls |-> NoCall] /\ used' = used /\ sent' = sent /\ hour' = hour /\ hour \in Hours
        /\ inflight' = [s \in Services |-> 0]
        /\ lost' = [s \in Services |-> [h \in Hours |-> sent[s][h] - used[s][h]]]
    BY <1>3 DEF Restart, QuotaInv
  <2>2. OnlyLimited(call')
    <3>1. \A c \in Calls : call'[c].pc = "none"
      BY <2>1 DEF NoCall
    <3> QED
      BY <3>1 DEF OnlyLimited, Flies
  <2>3. ASSUME NEW s \in Services
        PROVE  Accounted(call', s, used[s], sent[s], lost'[s], 0) /\ Limits(sent[s], lost'[s], hour)
    <3>1. /\ Accounted(call, s, used[s], sent[s], lost[s], inflight[s])
          /\ Limits(sent[s], lost[s], hour)
      BY DEF QuotaInv
    <3>2. \A h \in Hours : Flying(call', s, h) = {}
      BY <2>1, NobodyFlies
    <3>3. lost'[s] = Unrecorded(used[s], sent[s])
      BY <2>1 DEF Unrecorded
    <3>4. hour \in Hours
      BY <2>1
    <3>5. /\ Accounted(call', s, used[s], sent[s], Unrecorded(used[s], sent[s]), 0)
          /\ Limits(sent[s], Unrecorded(used[s], sent[s]), hour)
      BY <3>1, <3>2, <3>4, RestartedAccounts
    <3> QED
      BY <3>3, <3>5
  <2>4. /\ lost' = [s \in Services |-> lost'[s]] /\ inflight' = [s \in Services |-> inflight'[s]]
        /\ \A s \in Services : inflight'[s] = 0
    BY <2>1
  <2> QED
    BY <2>1, <2>2, <2>3, <2>4 DEF QuotaInv
<1> QED
  BY <1>1, <1>2, <1>3 DEF Expire, MinutePasses, quota

LEMMA QuotaInit == Init => QuotaInv
<1> SUFFICES ASSUME Init PROVE QuotaInv
  OBVIOUS
<1> DEFINE zero == [h \in Hours |-> 0]
<1>1. /\ call = [c \in Calls |-> NoCall] /\ hour = 0 /\ inflight = [s \in Services |-> 0]
      /\ used = [s \in Services |-> zero] /\ sent = [s \in Services |-> zero] /\ lost = [s \in Services |-> zero]
  BY DEF Init, Unused
<1>2. hour \in Hours
  BY <1>1, LimitsAssumption DEF Hours
<1>3. OnlyLimited(call)
  <2>1. \A c \in Calls : call[c].pc = "none"
    BY <1>1 DEF NoCall
  <2> QED
    BY <2>1 DEF OnlyLimited, Flies
<1>4. zero \in [Hours -> Nat] /\ \A h \in Hours : zero[h] = 0
  OBVIOUS
<1> HIDE DEF zero
<1>5. ASSUME NEW s \in Services
      PROVE  Accounted(call, s, zero, zero, zero, 0)
  <2>1. \A h \in Hours : IsFiniteSet(Flying(call, s, h)) /\ Cardinality(Flying(call, s, h)) = 0
    BY <1>1, NobodyFlies, FS_EmptySet
  <2>2. Counted(Pending(zero, zero, zero), Hours) = {}
    BY <1>4 DEF Pending, Counted
  <2> QED
    BY <1>4, <2>1, <2>2, FS_EmptySet DEF Accounted
<1>6. Limits(zero, zero, hour)
  <2>1. Counted(Spent(zero, zero), Within(hour)) = {}
    BY <1>4 DEF Spent, Within, Counted
  <2>2. Cardinality(Counted(Spent(zero, zero), Within(hour))) = 0
    BY <2>1, FS_EmptySet
  <2> QED
    BY <1>4, <2>2, LimitsAssumption DEF Limits
<1> QED
  BY <1>1, <1>2, <1>3, <1>5, <1>6 DEF QuotaInv

LEMMA QuotaStep == IInv /\ QuotaInv /\ [Next]_vars => QuotaInv'
<1> SUFFICES ASSUME IInv, QuotaInv, [Next]_vars PROVE QuotaInv'
  OBVIOUS
<1>1. CASE UNCHANGED vars
  BY <1>1 DEF QuotaInv, vars
<1>2. ASSUME NEW c \in Calls, Work(c) PROVE QuotaInv'
  BY <1>2, SteadyWork, AdmitKeeps, ReleaseKeeps, SteadyLegs DEF Work
<1>3. ASSUME NEW r \in Readers, Read(r) \/ Disconnect(r) PROVE QuotaInv'
  BY <1>3, SteadyReaders
<1> QED
  BY <1>1, <1>2, <1>3, QuotaOthers DEF Next

(* Whatever is in flight, given up or not recorded, and whichever hours    *)
(* are counted, a service gets no more requests than its daily limit, but  *)
(* for those on their way at a restart (Service.admit,                     *)
(* UsageCounter.Requests24h, Record).                                      *)
THEOREM LimitIsKept == Spec => []DailyLimitKept
<1>1. QuotaInv => DailyLimitKept
  <2> SUFFICES ASSUME QuotaInv, Daily > 0, NEW s \in Services
               PROVE  MapThenSumSet(LAMBDA h : sent[s][h] - lost[s][h], CountedHours) <= Daily
    BY DEF DailyLimitKept
  <2> DEFINE f == sent[s]
             g == lost[s]
             d == Spent(f, g)
  <2>1. /\ Accounted(call, s, used[s], f, g, inflight[s])
        /\ Limits(f, g, hour)
    BY DEF QuotaInv
  <2>2. CountedHours = Within(hour) /\ CountedHours \subseteq Hours /\ IsFiniteSet(CountedHours)
    BY HoursAreFinite DEF CountedHours, Within
  <2>3. \A h \in Hours : d[h] = f[h] - g[h] /\ d[h] \in Nat
    BY <2>1, AmountsOf
  <2>4. Cardinality(Counted(d, CountedHours)) <= Daily
    BY <2>1, <2>2 DEF Limits
  <2> HIDE DEF d, f, g
  <2>5. Amounts(d, CountedHours) /\ \A h \in CountedHours : d[h] = f[h] - g[h]
    BY <2>2, <2>3 DEF Amounts
  <2>6. Difference(f, g, CountedHours) = Cardinality(Counted(d, CountedHours))
    BY <2>2, <2>5, DifferenceIsCount
  <2>7. Difference(f, g, CountedHours) <= Daily
    BY <2>4, <2>6
  <2> QED
    BY <2>7 DEF f, g, Difference
<1>2. Spec => [](IInv /\ QuotaInv)
  BY InitEstablishes, StepKeeps, QuotaInit, QuotaStep, PTL DEF Spec
<1> QED
  BY <1>1, <1>2, PTL

-----------------------------------------------------------------------------
(* The outbox, for any number of messages, attempts, switches of delivery  *)
(* and troubles.  What makes it inductive: the worker alone holds the      *)
(* message it works on, under a fresh claim, so nothing closes it          *)
(* meanwhile; an open message nobody holds has been attempted less than    *)
(* MaxAttempts times, or a trouble accounts for it; and a message not yet  *)
(* closed was accepted only as often as an acceptance was missed.          *)

Busy == {"sending", "accepted", "refused"}

WorkerHolds ==
    /\ worker.at \in Busy =>
           /\ worker.message \in Messages
           /\ Open(worker.message)
           /\ row[worker.message].claim = "fresh"
           /\ worker.attempt = row[worker.message].attempts
    /\ worker.at \notin Busy => worker.message = "nothing"

UnqueuedIsBlank == \A m \in Messages : ~row[m].queued => row[m] = NotQueued

TroublesAccount ==
    \A m \in Messages :
        /\ row[m].attempts <= MaxAttempts + troubles
        /\ Open(m) /\ worker.message # m => row[m].attempts < MaxAttempts + troubles

Recorded ==
    \A m \in Messages :
        /\ accepted[m] <= 1 + missed[m]
        /\ ~Settled(m) /\ ~(worker.message = m /\ worker.at = "accepted") => accepted[m] <= missed[m]

MailInv ==
    /\ TypeOK /\ troubles <= MaxTroubles
    /\ WorkerHolds /\ UnqueuedIsBlank /\ TroublesAccount /\ Recorded /\ ClosedIsEmptied

-----------------------------------------------------------------------------
LEMMA RecordTypes ==
    /\ NotQueued \in RowType /\ Queued \in RowType
    /\ NotQueued.claim = "none" /\ NotQueued.attempts = 0 /\ ~NotQueued.sent /\ ~NotQueued.failed /\ ~NotQueued.queued
    /\ Queued.attempts = 0 /\ ~Queued.sent /\ ~Queued.failed /\ Queued.queued /\ Queued.whole
BY DEF NotQueued, Queued, RowType

LEMMA MailInitEstablishes == MailInit => MailInv
<1> SUFFICES ASSUME MailInit PROVE MailInv
  OBVIOUS
<1> USE MailAssumption DEF MailInit
<1>1. TypeOK
  BY RecordTypes DEF TypeOK, Resting
<1>2. WorkerHolds
  BY DEF WorkerHolds, Resting, Busy
<1>3. UnqueuedIsBlank /\ TroublesAccount /\ Recorded /\ ClosedIsEmptied
  BY RecordTypes DEF UnqueuedIsBlank, TroublesAccount, Recorded, ClosedIsEmptied, Open, Settled
<1> QED
  BY <1>1, <1>2, <1>3 DEF MailInv

(* A trouble may happen or not; it is counted when it does.                *)
LEMMA TroublesCounted ==
    ASSUME MailInv, Works \/ (\E t \in Troubles : Happens(t))
    PROVE  /\ troubles' \in Nat /\ troubles' <= MaxTroubles
           /\ troubles' = troubles \/ troubles' = troubles + 1
BY MailAssumption DEF MailInv, TypeOK, Works, Happens

(* Steps that leave the worker and what was accepted alone, and change     *)
(* rows only as MailInit, EnqueueMail, TimePasses and ExpireMail do.           *)
Tame(m) ==
    \/ row'[m] = row[m]
    \/ row[m] = NotQueued /\ row'[m] = Queued
    \/ Open(m) /\ row'[m] \in {[row[m] EXCEPT !.due = TRUE], [row[m] EXCEPT !.expired = TRUE]}
    \/ worker.message # m /\ row[m].claim = "fresh" /\ row'[m] = [row[m] EXCEPT !.claim = "old"]
    \/ Open(m) /\ row[m].claim # "fresh" /\ row'[m] = Redacted(m, "failed")

LEMMA TameFields ==
    ASSUME MailInv, NEW m \in Messages, Tame(m)
    PROVE  /\ row'[m] \in RowType
           /\ row'[m].attempts = row[m].attempts
           /\ ~row'[m].queued => row'[m] = NotQueued
           /\ Settled(m) => Settled(m)'
           /\ Open(m)' => Open(m) \/ row[m] = NotQueued
           /\ row'[m].queued => (row'[m].whole <=> Open(m)')
           /\ worker.message = m /\ worker.at \in Busy =>
                  Open(m)' /\ row'[m].claim = "fresh"
<1> USE DEF MailInv
<1>1. row[m] \in RowType
  BY DEF TypeOK
<1>2. CASE row'[m] = row[m]
  BY <1>1, <1>2 DEF WorkerHolds, UnqueuedIsBlank, ClosedIsEmptied, Open, Settled, Busy
<1>3. CASE row[m] = NotQueued /\ row'[m] = Queued
  BY <1>1, <1>3, RecordTypes DEF WorkerHolds, Open, Settled
<1>4. CASE Open(m) /\ row'[m] \in {[row[m] EXCEPT !.due = TRUE], [row[m] EXCEPT !.expired = TRUE]}
  BY <1>1, <1>4 DEF WorkerHolds, UnqueuedIsBlank, ClosedIsEmptied, Open, Settled, RowType
<1>5. CASE worker.message # m /\ row[m].claim = "fresh" /\ row'[m] = [row[m] EXCEPT !.claim = "old"]
  BY <1>1, <1>5, RecordTypes DEF UnqueuedIsBlank, ClosedIsEmptied, Open, Settled, RowType
<1>6. CASE Open(m) /\ row[m].claim # "fresh" /\ row'[m] = Redacted(m, "failed")
  BY <1>1, <1>6 DEF WorkerHolds, ClosedIsEmptied, Open, Settled, RowType, Redacted
<1> QED
  BY <1>2, <1>3, <1>4, <1>5, <1>6 DEF Tame

Idle(w) == w.at \notin Busy /\ w.message = "nothing"

LEMMA TameSteps ==
    ASSUME MailInv, Works \/ (\E t \in Troubles : Happens(t)),
           DOMAIN row' = Messages, row' = [m \in Messages |-> row'[m]],
           \A m \in Messages : Tame(m),
           worker' = worker \/ (Idle(worker) /\ Idle(worker')),
           worker' \in [at : {"resting", "reading", "claiming", "sending", "accepted", "refused"},
                        message : Messages \cup {"nothing"}, attempt : 0..MaxAttempts + MaxTroubles],
           enabled' \in BOOLEAN, switches' \in Nat, UNCHANGED <<accepted, missed>>
    PROVE  MailInv'
<1> USE DEF MailInv
<1>1. TypeOK'
  BY TameFields, TroublesCounted DEF TypeOK
<1>2. WorkerHolds'
  BY TameFields DEF WorkerHolds, Idle
<1>3. UnqueuedIsBlank' /\ ClosedIsEmptied'
  BY TameFields DEF UnqueuedIsBlank, ClosedIsEmptied
<1>4. TroublesAccount'
  <2> SUFFICES ASSUME NEW m \in Messages
               PROVE  /\ row'[m].attempts <= MaxAttempts + troubles'
                      /\ Open(m)' /\ worker'.message # m => row'[m].attempts < MaxAttempts + troubles'
    BY DEF TroublesAccount
  <2>1. row[m].attempts \in Nat /\ row'[m].attempts = row[m].attempts
    BY TameFields DEF TypeOK, RowType
  <2>2. Open(m)' /\ worker'.message # m => (Open(m) /\ worker.message # m) \/ row[m].attempts = 0
    BY TameFields, RecordTypes, MailAssumption DEF Idle
  <2> QED
    BY <2>1, <2>2, TroublesCounted, MailAssumption DEF TroublesAccount, TypeOK
<1>5. Recorded'
  <2> SUFFICES ASSUME NEW m \in Messages
               PROVE  /\ accepted[m] <= 1 + missed[m]
                      /\ ~Settled(m)' /\ ~(worker'.message = m /\ worker'.at = "accepted")
                            => accepted[m] <= missed[m]
    BY DEF Recorded
  <2>1. ~(worker'.message = m /\ worker'.at = "accepted") => ~(worker.message = m /\ worker.at = "accepted")
    BY DEF Idle, Busy
  <2> QED
    BY <2>1, TameFields DEF Recorded
<1> QED
  BY <1>1, <1>2, <1>3, <1>4, <1>5, TroublesCounted

LEMMA QueueAndTime ==
    ASSUME MailInv, NEW m \in Messages, EnqueueMail(m) \/ TimePasses(m)
    PROVE  MailInv'
<1> USE DEF MailInv
<1>1. Works /\ UNCHANGED <<worker, enabled, switches, accepted, missed>>
  BY DEF EnqueueMail, TimePasses, Works
<1>2. \E r : row' = [row EXCEPT ![m] = r]
  BY DEF EnqueueMail, TimePasses
<1>3. Tame(m)
  <2>1. CASE EnqueueMail(m)
    BY <2>1 DEF EnqueueMail, Tame, UnqueuedIsBlank, TypeOK
  <2>2. CASE TimePasses(m)
    BY <2>2 DEF TimePasses, Tame, TypeOK
  <2> QED
    BY <2>1, <2>2
<1>4. \A x \in Messages : Tame(x)
  BY <1>2, <1>3 DEF Tame, TypeOK
<1> QED
  BY <1>1, <1>2, <1>4, TameSteps DEF TypeOK

LEMMA Switching ==
    ASSUME MailInv, SetMailEnabled
    PROVE  MailInv'
<1>1. \A m \in Messages : Tame(m)
  BY DEF SetMailEnabled, Tame
<1> QED
  BY <1>1, TameSteps DEF MailInv, TypeOK, SetMailEnabled, Works

LEMMA Looking ==
    ASSUME MailInv, ExpireMail \/ MailSettings \/ NothingToClaim
    PROVE  MailInv'
<1> USE DEF MailInv
<1>1. Works \/ \E t \in Troubles : Happens(t)
  BY DEF ExpireMail, MailSettings, NothingToClaim, Works, StatementFails, Happens
<1>2. row' \in {row, Expired}
  BY DEF ExpireMail, MailSettings, NothingToClaim
<1>3. \A m \in Messages : Tame(m)
  BY <1>2 DEF Tame, Expired, Unheld
<1>4. Idle(worker) /\ Idle(worker')
  BY DEF ExpireMail, MailSettings, NothingToClaim, Idle, Busy, WorkerHolds, Goes, Rests, Resting, TypeOK
<1>5. worker' \in [at : {"resting", "reading", "claiming", "sending", "accepted", "refused"},
                   message : Messages \cup {"nothing"}, attempt : 0..MaxAttempts + MaxTroubles]
  BY MailAssumption DEF ExpireMail, MailSettings, NothingToClaim, Goes, Rests, Resting, TypeOK
<1>6. UNCHANGED <<enabled, switches, accepted, missed>>
  BY DEF ExpireMail, MailSettings, NothingToClaim
<1> QED
  BY <1>1, <1>2, <1>3, <1>4, <1>5, <1>6, TameSteps DEF TypeOK, Expired

WorkerType ==
    [at : {"resting", "reading", "claiming", "sending", "accepted", "refused"},
     message : Messages \cup {"nothing"}, attempt : 0..MaxAttempts + MaxTroubles]

(* A step that concerns one message alone, with the worker on it or idle   *)
(* before and after.                                                       *)
OfOne(m, r, a, b) ==
    /\ row' = [row EXCEPT ![m] = r]
    /\ accepted' = [accepted EXCEPT ![m] = a] /\ missed' = [missed EXCEPT ![m] = b]
    /\ UNCHANGED <<enabled, switches>>
    /\ worker.message \in {m, "nothing"} /\ worker'.message \in {m, "nothing"}

(* ... and what it has to establish of that message.                       *)
Judged(m, r, a, b) ==
    /\ r \in RowType /\ a \in Nat /\ b \in Nat
    /\ r.queued /\ (r.whole <=> ~r.sent /\ ~r.failed)
    /\ r.attempts <= MaxAttempts + troubles'
    /\ ~r.sent /\ ~r.failed /\ worker'.message # m => r.attempts < MaxAttempts + troubles'
    /\ a <= 1 + b
    /\ ~r.sent /\ ~r.failed /\ ~(worker'.message = m /\ worker'.at = "accepted") => a <= b

LEMMA OneMessage ==
    ASSUME MailInv, Works \/ (\E t \in Troubles : Happens(t)),
           worker' \in WorkerType, WorkerHolds',
           NEW m \in Messages, NEW r, NEW a, NEW b, OfOne(m, r, a, b), Judged(m, r, a, b)
    PROVE  MailInv'
<1> USE DEF MailInv, OfOne, Judged
<1>1. /\ row'[m] = r /\ accepted'[m] = a /\ missed'[m] = b
      /\ \A x \in Messages \ {m} :
             row'[x] = row[x] /\ accepted'[x] = accepted[x] /\ missed'[x] = missed[x]
  BY DEF TypeOK
<1>2. TypeOK'
  BY TroublesCounted DEF TypeOK, WorkerType
<1>3. "nothing" \notin Messages
  BY MailAssumption
<1>4. UnqueuedIsBlank' /\ ClosedIsEmptied'
  BY <1>1 DEF UnqueuedIsBlank, ClosedIsEmptied, Open, Settled
<1>5. TroublesAccount'
  <2> SUFFICES ASSUME NEW x \in Messages
               PROVE  /\ row'[x].attempts <= MaxAttempts + troubles'
                      /\ Open(x)' /\ worker'.message # x => row'[x].attempts < MaxAttempts + troubles'
    BY DEF TroublesAccount
  <2>1. CASE x = m
    BY <2>1, <1>1 DEF Open, Settled
  <2>2. CASE x # m
    <3>1. row[x].attempts \in Nat /\ MaxAttempts \in Nat
      BY MailAssumption DEF TypeOK, RowType
    <3>2. Open(x)' <=> Open(x)
      BY <2>2, <1>1 DEF Open, Settled
    <3>3. worker.message # x
      BY <2>2, <1>3
    <3> QED
      BY <2>2, <1>1, <3>1, <3>2, <3>3, TroublesCounted DEF TroublesAccount, TypeOK
  <2> QED
    BY <2>1, <2>2
<1>6. Recorded'
  <2> SUFFICES ASSUME NEW x \in Messages
               PROVE  /\ accepted'[x] <= 1 + missed'[x]
                      /\ ~Settled(x)' /\ ~(worker'.message = x /\ worker'.at = "accepted")
                            => accepted'[x] <= missed'[x]
    BY DEF Recorded
  <2>1. CASE x = m
    BY <2>1, <1>1 DEF Settled
  <2>2. CASE x # m
    BY <2>2, <1>1, <1>3 DEF Recorded, Settled
  <2> QED
    BY <2>1, <2>2
<1> QED
  BY <1>2, <1>4, <1>5, <1>6, TroublesCounted

LEMMA Claiming ==
    ASSUME MailInv, NEW m \in Messages, ClaimMail(m)
    PROVE  MailInv'
<1> USE DEF MailInv
<1> DEFINE claimed == [row[m] EXCEPT !.claim = "fresh", !.attempts = @ + 1]
<1>1. /\ Works \/ \E t \in Troubles : Happens(t)
      /\ worker.message = "nothing" /\ row[m] \in RowType /\ row[m].attempts \in Nat
      /\ Open(m) /\ row[m].whole
  BY DEF ClaimMail, StatementFails, Works, Happens, WorkerHolds, Busy, Claimable, StillToSend, TypeOK,
     RowType, ClosedIsEmptied, Open
<1>2. row[m].attempts < MaxAttempts + troubles
  BY <1>1, MailAssumption DEF TroublesAccount
<1>3. claimed \in RowType /\ claimed.claim = "fresh" /\ claimed.attempts = row[m].attempts + 1
  <2>1. row[m].attempts + 1 \in Nat
    BY <1>1
  <2>2. ASSUME NEW r \in RowType, NEW n \in Nat
        PROVE  LET c == [r EXCEPT !.claim = "fresh", !.attempts = n]
               IN  c.claim = "fresh" /\ c.attempts = n /\ c \in RowType
    BY DEF RowType
  <2>3. claimed = [row[m] EXCEPT !.claim = "fresh", !.attempts = row[m].attempts + 1]
    BY <1>1 DEF RowType
  <2> QED
    BY <1>1, <2>1, <2>2, <2>3
<1>4. claimed.queued /\ ~claimed.sent /\ ~claimed.failed /\ claimed.whole
  BY <1>1 DEF RowType, Open, Settled
<1>5. accepted[m] \in Nat /\ missed[m] \in Nat /\ accepted[m] <= missed[m]
  BY <1>1, MailAssumption DEF TypeOK, Recorded, Open
<1>6. /\ accepted' = [accepted EXCEPT ![m] = accepted[m]]
      /\ missed' = [missed EXCEPT ![m] = missed[m]]
      /\ UNCHANGED <<enabled, switches>>
  BY DEF ClaimMail, TypeOK
<1>7. MaxAttempts \in Nat /\ MaxTroubles \in Nat /\ troubles \in Nat /\ "nothing" # m
  BY MailAssumption DEF TypeOK
<1> HIDE DEF claimed
<1>8. CASE Works /\ row' = [row EXCEPT ![m] = claimed]
           /\ worker' = [at |-> "sending", message |-> m, attempt |-> row[m].attempts + 1]
  <2>1. troubles' = troubles
    BY <1>8 DEF Works
  <2>2. row[m].attempts + 1 <= MaxAttempts + troubles /\ row[m].attempts + 1 \in 0..MaxAttempts + MaxTroubles
    BY <1>1, <1>2, <1>7
  <2>3. worker' \in WorkerType
    BY <1>8, <2>2 DEF WorkerType
  <2>4. row'[m] = claimed
    BY <1>8 DEF TypeOK
  <2>5. WorkerHolds'
    BY <1>8, <2>4, <1>3, <1>4 DEF WorkerHolds, Busy, Open, Settled
  <2>6. OfOne(m, claimed, accepted[m], missed[m])
    BY <1>1, <1>6, <1>8 DEF OfOne
  <2>7. Judged(m, claimed, accepted[m], missed[m])
    BY <1>3, <1>4, <1>5, <1>8, <2>1, <2>2 DEF Judged
  <2> QED
    BY <1>1, <2>3, <2>5, <2>6, <2>7, OneMessage
<1>9. CASE StatementFails /\ row' \in {row, [row EXCEPT ![m] = claimed]} /\ worker' = Resting
  <2>1. troubles' = troubles + 1
    BY <1>9 DEF StatementFails, Happens
  <2>2. worker' \in WorkerType /\ WorkerHolds' /\ worker'.message = "nothing"
    BY <1>9, MailAssumption DEF WorkerType, WorkerHolds, Resting, Busy
  <2>3. CASE row' = [row EXCEPT ![m] = claimed]
    <3>1. OfOne(m, claimed, accepted[m], missed[m])
      BY <1>1, <1>6, <2>2, <2>3 DEF OfOne
    <3>2. Judged(m, claimed, accepted[m], missed[m])
      BY <1>1, <1>2, <1>3, <1>4, <1>5, <1>7, <2>1 DEF Judged
    <3> QED
      BY <1>1, <2>2, <3>1, <3>2, OneMessage
  <2>4. CASE row' = row
    <3>1. OfOne(m, row[m], accepted[m], missed[m])
      BY <1>1, <1>6, <2>2, <2>4 DEF OfOne, TypeOK
    <3>2. Judged(m, row[m], accepted[m], missed[m])
      BY <1>1, <1>2, <1>5, <1>7, <2>1 DEF Judged, Open, Settled
    <3> QED
      BY <1>1, <2>2, <3>1, <3>2, OneMessage
  <2> QED
    BY <1>9, <2>3, <2>4
<1> QED
  BY <1>8, <1>9 DEF ClaimMail, Rests, TypeOK, claimed

(* The worker is on a message: what is known of it.                        *)
LEMMA InHand ==
    ASSUME MailInv, worker.at \in Busy
    PROVE  LET m == worker.message IN
           /\ m \in Messages /\ m # "nothing" /\ row[m] \in RowType /\ accepted[m] \in Nat /\ missed[m] \in Nat
           /\ row[m].queued /\ ~row[m].sent /\ ~row[m].failed /\ row[m].whole
           /\ row[m].claim = "fresh" /\ row[m].attempts = worker.attempt
           /\ row[m].attempts \in Nat /\ row[m].attempts <= MaxAttempts + troubles
           /\ MaxAttempts \in Nat /\ troubles \in Nat
BY MailAssumption DEF MailInv, WorkerHolds, TypeOK, RowType, Open, Settled, ClosedIsEmptied, TroublesAccount

LEMMA ToRest ==
    ASSUME worker' = Resting \/ worker' = [Resting EXCEPT !.at = "reading"]
    PROVE  worker' \in WorkerType /\ WorkerHolds' /\ worker'.message = "nothing"
BY MailAssumption DEF Resting, WorkerType, WorkerHolds, Busy

LEMMA Sending ==
    ASSUME MailInv, Send
    PROVE  MailInv'
<1> USE DEF MailInv
<1> DEFINE m == worker.message
<1>1. worker.at = "sending"
  BY DEF Send
<1>2. /\ m \in Messages /\ m # "nothing" /\ row[m] \in RowType /\ accepted[m] \in Nat /\ missed[m] \in Nat
      /\ row[m].queued /\ ~row[m].sent /\ ~row[m].failed /\ row[m].whole
      /\ row[m].attempts \in Nat /\ row[m].attempts <= MaxAttempts + troubles
      /\ MaxAttempts \in Nat /\ troubles \in Nat
  BY <1>1, InHand DEF Busy
<1>3. accepted[m] <= missed[m]
  BY <1>1, <1>2 DEF Recorded, Settled
<1>4. PICK at \in {"accepted", "refused"} : worker' = [worker EXCEPT !.at = at]
  BY DEF Send, Goes
<1>5. worker' \in WorkerType /\ worker'.message = m /\ worker'.at = at /\ worker'.attempt = worker.attempt
  BY <1>4 DEF TypeOK, WorkerType
<1>6. row' = row /\ UNCHANGED <<enabled, switches>> /\ (Works \/ \E t \in Troubles : Happens(t))
  BY DEF Send, Happens
<1>7. WorkerHolds'
  BY <1>1, <1>5, <1>6, <1>4 DEF WorkerHolds, Busy, Open, Settled
<1>8. row' = [row EXCEPT ![m] = row[m]]
  BY <1>6 DEF TypeOK
<1>9. CASE Works /\ at = "accepted" /\ accepted' = [accepted EXCEPT ![m] = @ + 1] /\ missed' = missed
  <2>1. OfOne(m, row[m], accepted[m] + 1, missed[m])
    BY <1>2, <1>5, <1>6, <1>8, <1>9 DEF OfOne, TypeOK
  <2>2. Judged(m, row[m], accepted[m] + 1, missed[m])
    BY <1>2, <1>3, <1>5, <1>9 DEF Judged, Works
  <2> QED
    BY <1>2, <1>5, <1>6, <1>7, <2>1, <2>2, OneMessage
<1>10. CASE Works /\ UNCHANGED <<accepted, missed>>
  <2>1. OfOne(m, row[m], accepted[m], missed[m])
    BY <1>2, <1>5, <1>6, <1>8, <1>10 DEF OfOne, TypeOK
  <2>2. Judged(m, row[m], accepted[m], missed[m])
    BY <1>2, <1>3, <1>5, <1>10 DEF Judged, Works
  <2> QED
    BY <1>2, <1>5, <1>6, <1>7, <2>1, <2>2, OneMessage
<1>11. CASE /\ Happens("quit")
            /\ accepted' = [accepted EXCEPT ![m] = @ + 1] /\ missed' = [missed EXCEPT ![m] = @ + 1]
  <2>1. OfOne(m, row[m], accepted[m] + 1, missed[m] + 1)
    BY <1>2, <1>5, <1>6, <1>8, <1>11 DEF OfOne, TypeOK
  <2>2. Judged(m, row[m], accepted[m] + 1, missed[m] + 1)
    BY <1>2, <1>3, <1>5, <1>11 DEF Judged, Happens
  <2> QED
    BY <1>2, <1>5, <1>6, <1>7, <2>1, <2>2, OneMessage
<1> QED
  <2>1. /\ Goes("accepted") => at = "accepted"
        /\ Goes("refused") => at = "refused"
    BY <1>5 DEF Goes, TypeOK
  <2> QED
    BY <2>1, <1>9, <1>10, <1>11 DEF Send

LEMMA Recording ==
    ASSUME MailInv, MarkMailSent
    PROVE  MailInv'
<1> USE DEF MailInv
<1> DEFINE m == worker.message
<1>1. worker.at = "accepted"
  BY DEF MarkMailSent
<1>2. /\ m \in Messages /\ row[m] \in RowType /\ accepted[m] \in Nat /\ missed[m] \in Nat
      /\ row[m].queued /\ ~row[m].sent /\ ~row[m].failed /\ row[m].whole
      /\ row[m].attempts \in Nat /\ row[m].attempts <= MaxAttempts + troubles
      /\ MaxAttempts \in Nat /\ troubles \in Nat
  BY <1>1, InHand DEF Busy
<1>3. accepted[m] <= 1 + missed[m]
  BY <1>2 DEF Recorded
<1>4. worker' \in WorkerType /\ WorkerHolds' /\ worker'.message = "nothing"
  BY ToRest DEF MarkMailSent, Continues
<1>5. UNCHANGED <<enabled, switches, accepted>> /\ (Works \/ \E t \in Troubles : Happens(t))
  BY DEF MarkMailSent, StatementFails, Happens
<1>6. accepted' = [accepted EXCEPT ![m] = accepted[m]]
  BY <1>5 DEF TypeOK
<1>7. CASE row' = Sent(m) /\ missed' = missed
  <2> DEFINE done == Redacted(m, "sent")
  <2>1. /\ done \in RowType /\ done.queued /\ done.sent /\ ~done.whole
        /\ done.attempts = row[m].attempts
    BY <1>2 DEF Redacted, RowType
  <2>2. OfOne(m, done, accepted[m], missed[m])
    BY <1>2, <1>4, <1>5, <1>6, <1>7 DEF OfOne, Sent, TypeOK
  <2>3. Judged(m, done, accepted[m], missed[m])
    <3> HIDE DEF done
    <3> QED
      BY <1>2, <1>3, <2>1, TroublesCounted, <1>5 DEF Judged
  <2> QED
    BY <1>2, <1>4, <1>5, <2>2, <2>3, OneMessage
<1>8. CASE StatementFails /\ row' = row /\ missed' = [missed EXCEPT ![m] = @ + 1]
  <2>1. OfOne(m, row[m], accepted[m], missed[m] + 1)
    BY <1>2, <1>4, <1>5, <1>6, <1>8 DEF OfOne, TypeOK
  <2>2. Judged(m, row[m], accepted[m], missed[m] + 1)
    BY <1>2, <1>3, <1>8 DEF Judged, StatementFails, Happens
  <2> QED
    BY <1>2, <1>4, <1>5, <2>1, <2>2, OneMessage
<1> QED
  BY <1>7, <1>8 DEF MarkMailSent

LEMMA Retrying ==
    ASSUME MailInv, RetryMail
    PROVE  MailInv'
<1> USE DEF MailInv
<1> DEFINE m == worker.message
<1>1. worker.at = "refused"
  BY DEF RetryMail
<1>2. /\ m \in Messages /\ m # "nothing" /\ row[m] \in RowType /\ accepted[m] \in Nat /\ missed[m] \in Nat
      /\ row[m].queued /\ ~row[m].sent /\ ~row[m].failed /\ row[m].whole
      /\ row[m].attempts = worker.attempt
      /\ row[m].attempts \in Nat /\ row[m].attempts <= MaxAttempts + troubles
      /\ MaxAttempts \in Nat /\ troubles \in Nat
  BY <1>1, InHand DEF Busy
<1>3. accepted[m] <= missed[m]
  BY <1>1, <1>2 DEF Recorded, Settled
<1>4. worker' \in WorkerType /\ WorkerHolds' /\ worker'.message = "nothing"
  BY ToRest DEF RetryMail, Continues
<1>5. /\ UNCHANGED <<enabled, switches, accepted, missed>>
      /\ Works \/ \E t \in Troubles : Happens(t)
  BY DEF RetryMail, StatementFails, Happens
<1>6. /\ accepted' = [accepted EXCEPT ![m] = accepted[m]]
      /\ missed' = [missed EXCEPT ![m] = missed[m]]
  BY <1>5 DEF TypeOK
<1>7. CASE row' = [row EXCEPT ![m] = Retried(m)]
  <2> DEFINE retried == Retried(m)
  <2>1. LastAttempt \in BOOLEAN
    BY DEF LastAttempt
  <2>2. /\ retried \in RowType /\ retried.queued /\ ~retried.sent
        /\ retried.attempts = row[m].attempts
        /\ retried.failed = LastAttempt /\ (retried.whole <=> ~LastAttempt)
    BY <1>2, <2>1 DEF Retried, RowType
  <2>3. OfOne(m, retried, accepted[m], missed[m])
    BY <1>2, <1>4, <1>5, <1>6, <1>7 DEF OfOne
  <2>4. ~LastAttempt => row[m].attempts < MaxAttempts + troubles
    BY <1>2 DEF LastAttempt
  <2>5. troubles' \in Nat /\ troubles' >= troubles
    BY <1>2, <1>5, TroublesCounted
  <2>6. Judged(m, retried, accepted[m], missed[m])
    <3> HIDE DEF retried
    <3>1. /\ retried.attempts <= MaxAttempts + troubles'
          /\ ~LastAttempt => retried.attempts < MaxAttempts + troubles'
      BY <1>2, <2>2, <2>4, <2>5
    <3> QED
      BY <1>2, <1>3, <2>2, <3>1 DEF Judged
  <2> QED
    BY <1>2, <1>4, <1>5, <2>3, <2>6, OneMessage
<1>8. CASE StatementFails /\ row' = row
  <2>1. OfOne(m, row[m], accepted[m], missed[m])
    BY <1>2, <1>4, <1>5, <1>6, <1>8 DEF OfOne, TypeOK
  <2>2. Judged(m, row[m], accepted[m], missed[m])
    BY <1>2, <1>3, <1>8 DEF Judged, StatementFails, Happens
  <2> QED
    BY <1>2, <1>4, <1>5, <2>1, <2>2, OneMessage
<1> QED
  BY <1>7, <1>8 DEF RetryMail

(* A process that dies leaves its message open, and the trouble accounts   *)
(* for the attempt and, after an acceptance, for the one missed.           *)
LEMMA Dying ==
    ASSUME MailInv, Crash
    PROVE  MailInv'
<1> USE DEF MailInv
<1> DEFINE m == worker.message
<1>1. /\ worker' \in WorkerType /\ WorkerHolds' /\ worker'.message = "nothing"
      /\ UNCHANGED <<row, enabled, switches, accepted>> /\ \E t \in Troubles : Happens(t)
      /\ troubles' = troubles + 1
  BY ToRest DEF Crash, Rests, Happens
<1>2. CASE worker.at \notin Busy
  <2>1. \A x \in Messages : Tame(x)
    BY <1>1 DEF Tame
  <2>2. missed' = missed
    BY <1>2 DEF Crash, Busy
  <2>3. Idle(worker) /\ Idle(worker')
    BY <1>2 DEF Idle, Busy, WorkerHolds, Crash, Rests, Resting
  <2> QED
    BY <1>1, <2>1, <2>2, <2>3, TameSteps DEF TypeOK, WorkerType
<1>3. CASE worker.at \in Busy
  <2>1. /\ m \in Messages /\ row[m] \in RowType /\ accepted[m] \in Nat /\ missed[m] \in Nat
        /\ row[m].queued /\ ~row[m].sent /\ ~row[m].failed /\ row[m].whole
        /\ row[m].attempts \in Nat /\ row[m].attempts <= MaxAttempts + troubles
        /\ MaxAttempts \in Nat /\ troubles \in Nat
    BY <1>3, InHand
  <2>2. PICK b \in Nat : missed' = [missed EXCEPT ![m] = b] /\ accepted[m] <= b
    <3>1. CASE worker.at = "accepted"
      <4>1. accepted[m] <= missed[m] + 1 /\ missed[m] + 1 \in Nat
        BY <2>1 DEF Recorded
      <4>2. missed' = [missed EXCEPT ![m] = missed[m] + 1]
        BY <3>1 DEF Crash
      <4> QED
        BY <4>1, <4>2
    <3>2. CASE worker.at # "accepted"
      <4>1. accepted[m] <= missed[m]
        BY <2>1, <3>2 DEF Recorded, Settled
      <4>2. missed' = [missed EXCEPT ![m] = missed[m]]
        BY <3>2 DEF Crash, TypeOK
      <4> QED
        BY <2>1, <4>1, <4>2
    <3> QED
      BY <3>1, <3>2
  <2>3. OfOne(m, row[m], accepted[m], b)
    BY <1>1, <2>1, <2>2 DEF OfOne, TypeOK
  <2>4. Judged(m, row[m], accepted[m], b)
    BY <1>1, <2>1, <2>2 DEF Judged
  <2> QED
    BY <1>1, <2>1, <2>3, <2>4, OneMessage
<1> QED
  BY <1>2, <1>3

LEMMA MailStepPreserves == MailInv /\ [MailNext]_mailVars => MailInv'
<1> SUFFICES ASSUME MailInv, [MailNext]_mailVars PROVE MailInv'
  OBVIOUS
<1>1. CASE \E m \in Messages : EnqueueMail(m) \/ TimePasses(m)
  BY <1>1, QueueAndTime
<1>2. CASE SetMailEnabled
  BY <1>2, Switching
<1>3. CASE ExpireMail \/ MailSettings \/ NothingToClaim
  BY <1>3, Looking
<1>4. CASE \E m \in Messages : ClaimMail(m)
  BY <1>4, Claiming
<1>5. CASE Send \/ MarkMailSent \/ RetryMail \/ Crash
  BY <1>5, Sending, Recording, Retrying, Dying
<1>6. CASE UNCHANGED mailVars
  BY <1>6 DEF mailVars, MailInv, TypeOK, WorkerHolds, UnqueuedIsBlank, TroublesAccount, Recorded, ClosedIsEmptied,
     Open, Settled
<1> QED
  BY <1>1, <1>2, <1>3, <1>4, <1>5, <1>6 DEF MailNext, Deliver

LEMMA MailInductive == MailSpec => []MailInv
BY MailInitEstablishes, MailStepPreserves, PTL DEF MailSpec

-----------------------------------------------------------------------------
(* Every variable keeps its type, the attempt in hand included.            *)
THEOREM MailTypeCorrect == MailSpec => []TypeOK
<1>1. MailInv => TypeOK
  BY DEF MailInv
<1> QED
  BY <1>1, MailInductive, PTL

(* A message is sent again only for an acceptance that was not recorded.   *)
THEOREM NeverSentWithoutReason == MailSpec => []SentAgainOnlyIfMissed
<1>1. MailInv => SentAgainOnlyIfMissed
  BY DEF MailInv, Recorded, SentAgainOnlyIfMissed
<1> QED
  BY <1>1, MailInductive, PTL

(* A message keeps its text exactly as long as it may still be sent.       *)
THEOREM EmptiedWhenClosed == MailSpec => []ClosedIsEmptied
<1>1. MailInv => ClosedIsEmptied
  BY DEF MailInv
<1> QED
  BY <1>1, MailInductive, PTL

(* An attempt beyond the last takes a trouble.                             *)
THEOREM AttemptsAreBounded == MailSpec => []GivesUp
<1>1. MailInv => GivesUp
  BY DEF MailInv, TroublesAccount, GivesUp
<1> QED
  BY <1>1, MailInductive, PTL
=============================================================================
