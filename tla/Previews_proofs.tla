--------------------------- MODULE Previews_proofs ---------------------------
(***************************************************************************)
(* No preview outlives its picture, for any number of pictures, widths,    *)
(* readers, slots and troubles.                                            *)
(*                                                                         *)
(* That nothing is kept once both the deletion and the renderings are over *)
(* is not inductive.  The invariant says who will still remove a preview   *)
(* whose original is gone: the deletion, which has its width left to do,   *)
(* or a rendering, which is storing and has the original still to check,   *)
(* or is clearing up and has the width left.                               *)
(***************************************************************************)
EXTENDS Previews, PreviewWork, FiniteSetTheorems, TLAPS

Stages == {"asking", "queueing", "following", "reading", "storing", "clearing", "ending",
           "closing", "woken", "answered"}

Results == {"none", "ok", "missing", "undecodable", "error", "cancelled"}

Active == [at : Stages, key : Keys, todo : SUBSET Widths, of : Readers \cup {"none"},
           result : Results, gone : BOOLEAN]

Deletion == [at : {"no", "original", "previews", "done"}, todo : SUBSET Widths]

TypeOK ==
    /\ rows \subseteq Keys
    /\ renders \in [Keys -> Readers \cup {"none"}]
    /\ reader \in [Readers -> Active \cup {Idle}]
    /\ deleting \in [Keys -> Deletion]

(* A deletion goes through the row, the original and the previews.         *)
InOrder ==
    \A k \in Keys :
        /\ k \in rows => deleting[k].at = "no"
        /\ deleting[k].at = "original" => deleting[k].todo = Widths
        /\ deleting[k].at \in {"previews", "done"} => k \notin originals

RemovedBy(r, k, w) ==
    \/ r.at = "storing" /\ r.key = k
    \/ r.at = "clearing" /\ r.key = k /\ w \in r.todo

WillBeRemoved(k, w) ==
    \/ deleting[k].at = "previews" /\ w \in deleting[k].todo
    \/ \E p \in Readers : RemovedBy(reader[p], k, w)

OrphansAreRemoved ==
    \A k \in Keys, w \in Widths : <<k, w>> \in kept /\ k \notin originals => WillBeRemoved(k, w)

IInv == TypeOK /\ InOrder /\ OrphansAreRemoved

-----------------------------------------------------------------------------
LEMMA InitHolds == Init => IInv
<1> SUFFICES ASSUME Init PROVE IInv
  OBVIOUS
<1>1. Idle \in Active \cup {Idle} /\ NotDeleted \in Deletion /\ NotDeleted.at = "no"
  BY DEF NotDeleted, Deletion
<1>2. TypeOK
  BY <1>1 DEF Init, TypeOK
<1>3. InOrder
  BY <1>1 DEF Init, InOrder
<1>4. OrphansAreRemoved
  BY DEF Init, OrphansAreRemoved
<1> QED
  BY <1>2, <1>3, <1>4 DEF IInv

(* A reader whose record is not idle is a full one.                        *)
LEMMA ReaderIsActive ==
    ASSUME TypeOK, NEW p \in Readers, reader[p].at # "idle"
    PROVE  reader[p] \in Active /\ reader[p].key \in Keys /\ reader[p].todo \subseteq Widths
BY DEF TypeOK, Active, Idle

(* One reader changes, the store and the deletions stay: what the reader   *)
(* was to remove it is still to remove.                                    *)
LEMMA ReaderGoesOn ==
    ASSUME IInv, NEW p \in Readers, NEW r \in Active \cup {Idle},
           reader' = [reader EXCEPT ![p] = r],
           renders' \in [Keys -> Readers \cup {"none"}],
           UNCHANGED <<store, deleting>>,
           \A k \in Keys, w \in Widths : RemovedBy(reader[p], k, w) => RemovedBy(r, k, w)
    PROVE  IInv'
<1>1. TypeOK'
  BY DEF IInv, TypeOK, store
<1>2. InOrder'
  BY DEF IInv, InOrder, store
<1>3. \A q \in Readers, k \in Keys, w \in Widths :
          RemovedBy(reader[q], k, w) => RemovedBy(reader'[q], k, w)
  BY DEF IInv, TypeOK
<1>4. OrphansAreRemoved'
  BY <1>3 DEF IInv, OrphansAreRemoved, WillBeRemoved, store
<1> QED
  BY <1>1, <1>2, <1>4 DEF IInv

(* A reader that was to remove nothing.                                    *)
LEMMA BystanderGoesOn ==
    ASSUME IInv, NEW p \in Readers, NEW r \in Active \cup {Idle},
           reader' = [reader EXCEPT ![p] = r],
           renders' \in [Keys -> Readers \cup {"none"}],
           UNCHANGED <<store, deleting>>,
           reader[p].at \notin {"storing", "clearing"}
    PROVE  IInv'
<1>1. \A k \in Keys, w \in Widths : ~RemovedBy(reader[p], k, w)
  BY DEF RemovedBy
<1> QED
  BY <1>1, ReaderGoesOn

-----------------------------------------------------------------------------
(* The steps of a reader that neither stores nor clears up.                *)
LEMMA AskHolds ==
    ASSUME IInv, NEW p \in Readers, Ask(p)
    PROVE  IInv'
<1>1. PICK k \in rows : reader' = [reader EXCEPT ![p] = Start(k)]
  BY DEF Ask
<1>2. Start(k) \in Active
  BY DEF IInv, TypeOK, Start, Active, Stages, Results
<1>3. renders' \in [Keys -> Readers \cup {"none"}] /\ reader[p].at = "idle"
  BY DEF Ask, IInv, TypeOK, Is
<1> QED
  BY <1>1, <1>2, <1>3, BystanderGoesOn DEF Ask

LEMMA PreviewsForHolds ==
    ASSUME IInv, NEW p \in Readers, PreviewsFor(p)
    PROVE  IInv'
<1> DEFINE owner == renders[reader[p].key]
<1>1. reader[p] \in Active /\ reader[p].key \in Keys /\ reader[p].at = "asking"
  BY ReaderIsActive DEF PreviewsFor, IInv, Is
<1>2. owner \in Readers \cup {"none"} /\ UNCHANGED <<store, deleting>>
  BY <1>1 DEF PreviewsFor, IInv, TypeOK
<1>3. ASSUME RendersItself(p)
      PROVE  IInv'
  <2>1. [reader[p] EXCEPT !.at = "queueing"] \in Active
    BY <1>1 DEF Active, Stages
  <2>2. reader' = [reader EXCEPT ![p] = [reader[p] EXCEPT !.at = "queueing"]]
    BY <1>3 DEF RendersItself, IInv, TypeOK
  <2>3. renders' \in [Keys -> Readers \cup {"none"}]
    BY <1>1, <1>3 DEF RendersItself, IInv, TypeOK
  <2> QED
    BY <1>1, <1>2, <2>1, <2>2, <2>3, BystanderGoesOn
<1>4. ASSUME reader' = [reader EXCEPT ![p].at = "following", ![p].of = owner], UNCHANGED renders
      PROVE  IInv'
  <2> DEFINE r == [reader[p] EXCEPT !.at = "following", !.of = owner]
  <2>1. r \in Active
    BY <1>1, <1>2 DEF Active, Stages
  <2>2. reader' = [reader EXCEPT ![p] = r]
    BY <1>4 DEF IInv, TypeOK
  <2>3. renders' \in [Keys -> Readers \cup {"none"}]
    BY <1>4 DEF IInv, TypeOK
  <2> HIDE DEF r
  <2> QED
    BY <1>1, <1>2, <2>1, <2>2, <2>3, BystanderGoesOn
<1> QED
  BY <1>3, <1>4 DEF PreviewsFor

(* A reader's rendering is over.                                           *)
LEMMA EndsHolds ==
    ASSUME IInv, NEW p \in Readers, reader[p].at \notin {"idle", "storing", "clearing"},
           NEW at \in Stages, NEW result \in Results,
           reader' = [reader EXCEPT ![p].at = at, ![p].result = result],
           UNCHANGED <<store, deleting, renders>>
    PROVE  IInv'
<1> DEFINE r == [reader[p] EXCEPT !.at = at, !.result = result]
<1>1. r \in Active
  BY ReaderIsActive DEF IInv, Active
<1>2. reader' = [reader EXCEPT ![p] = r]
  BY DEF IInv, TypeOK
<1>3. renders' \in [Keys -> Readers \cup {"none"}]
  BY DEF IInv, TypeOK
<1> HIDE DEF r
<1> QED
  BY <1>1, <1>2, <1>3, BystanderGoesOn

(* A reader that takes its next step.                                      *)
LEMMA MovesHolds ==
    ASSUME IInv, NEW p \in Readers, reader[p].at \notin {"idle", "storing", "clearing"},
           NEW at \in Stages, reader' = [reader EXCEPT ![p].at = at],
           renders' \in [Keys -> Readers \cup {"none"}],
           UNCHANGED <<store, deleting>>
    PROVE  IInv'
<1> DEFINE r == [reader[p] EXCEPT !.at = at]
<1>1. r \in Active
  BY ReaderIsActive DEF IInv, Active
<1>2. reader' = [reader EXCEPT ![p] = r]
  BY DEF IInv, TypeOK
<1> HIDE DEF r
<1> QED
  BY <1>1, <1>2, BystanderGoesOn

LEMMA TakesSlotHolds ==
    ASSUME IInv, NEW p \in Readers, TakesSlot(p)
    PROVE  IInv'
<1>1. /\ reader[p].at \notin {"idle", "storing", "clearing"}
      /\ UNCHANGED <<store, deleting, renders>>
      /\ renders' \in [Keys -> Readers \cup {"none"}]
  BY DEF TakesSlot, Is, IInv, TypeOK
<1>2. \/ reader' = [reader EXCEPT ![p].at = "reading"]
      \/ reader' = [reader EXCEPT ![p].at = "ending", ![p].result = "cancelled"]
  BY DEF TakesSlot
<1> QED
  BY <1>1, <1>2, MovesHolds, EndsHolds DEF Stages, Results

(* What is read is there, so a rendering that gets to storing has nothing  *)
(* kept to answer for yet.                                                 *)
LEMMA DecodeHolds ==
    ASSUME IInv, NEW p \in Readers, Decode(p)
    PROVE  IInv'
<1>1. /\ reader[p].at \notin {"idle", "storing", "clearing"}
      /\ UNCHANGED <<store, deleting, renders>>
  BY DEF Decode, Is
<1>2. ASSUME NEW result \in Results, Ends(p, result)
      PROVE  IInv'
  BY <1>1, <1>2, EndsHolds DEF Ends, Stages
<1>3. ASSUME reader' = [reader EXCEPT ![p].at = "storing", ![p].todo = Widths, ![p].result = "ok"]
      PROVE  IInv'
  <2> DEFINE r == [reader[p] EXCEPT !.at = "storing", !.todo = Widths, !.result = "ok"]
  <2>1. r \in Active
    BY <1>1, ReaderIsActive DEF IInv, Active, Stages, Results
  <2>2. reader' = [reader EXCEPT ![p] = r]
    BY <1>3 DEF IInv, TypeOK
  <2>3. renders' \in [Keys -> Readers \cup {"none"}]
    BY <1>1 DEF IInv, TypeOK
  <2> HIDE DEF r
  <2> QED
    BY <1>1, <2>1, <2>2, <2>3, BystanderGoesOn
<1> QED
  BY <1>2, <1>3 DEF Decode, Results

LEMMA UnregisterHolds ==
    ASSUME IInv, NEW p \in Readers, Unregister(p)
    PROVE  IInv'
<1>1. /\ reader[p].at \notin {"idle", "storing", "clearing"}
      /\ UNCHANGED <<store, deleting>>
      /\ reader' = [reader EXCEPT ![p].at = "closing"]
  BY DEF Unregister, Is
<1>2. renders' \in [Keys -> Readers \cup {"none"}]
  BY <1>1, ReaderIsActive DEF Unregister, Removed, IInv, TypeOK
<1> QED
  BY <1>1, <1>2, MovesHolds DEF Stages

LEMMA WokenHolds ==
    ASSUME IInv, NEW p \in Readers, Woken(p) \/ StopsFollowing(p)
    PROVE  IInv'
<1>1. /\ reader[p].at \notin {"idle", "storing", "clearing"}
      /\ UNCHANGED <<store, deleting, renders>>
      /\ renders' \in [Keys -> Readers \cup {"none"}]
  BY DEF Woken, StopsFollowing, Is, IInv, TypeOK
<1>2. \/ reader' = [reader EXCEPT ![p].at = "asking", ![p].result = "none"]
      \/ reader' = [reader EXCEPT ![p].at = "answered"]
      \/ reader' = [reader EXCEPT ![p].at = "answered", ![p].result = "cancelled"]
  BY DEF Woken, Retries, StopsFollowing
<1> QED
  BY <1>1, <1>2, MovesHolds, EndsHolds DEF Stages, Results

LEMMA LeaveHolds ==
    ASSUME IInv, NEW p \in Readers, Leave(p)
    PROVE  IInv'
<1>1. renders' \in [Keys -> Readers \cup {"none"}] /\ reader[p].at = "answered"
  BY DEF Leave, Is, IInv, TypeOK
<1> QED
  BY <1>1, BystanderGoesOn DEF Leave

LEMMA CancelHolds ==
    ASSUME IInv, NEW p \in Readers, Cancel(p)
    PROVE  IInv'
<1> DEFINE r == [reader[p] EXCEPT !.gone = TRUE]
<1>1. reader[p] \in Active
  BY ReaderIsActive DEF Cancel, Is, IInv
<1>2. r \in Active /\ r.at = reader[p].at /\ r.key = reader[p].key /\ r.todo = reader[p].todo
  BY <1>1 DEF Active
<1>3. reader' = [reader EXCEPT ![p] = r]
  BY DEF Cancel, IInv, TypeOK
<1>4. renders' \in [Keys -> Readers \cup {"none"}] /\ UNCHANGED <<store, deleting>>
  BY DEF Cancel, IInv, TypeOK
<1> HIDE DEF r
<1>5. \A k \in Keys, w \in Widths : RemovedBy(reader[p], k, w) => RemovedBy(r, k, w)
  BY <1>2 DEF RemovedBy
<1> QED
  BY <1>2, <1>3, <1>4, <1>5, ReaderGoesOn

(* Whoever is woken was following, and the one who wakes is at its end.    *)
LEMMA CloseHolds ==
    ASSUME IInv, NEW p \in Readers, Close(p)
    PROVE  IInv'
<1>1. UNCHANGED <<store, deleting, renders>> /\ reader[p].at = "closing"
  BY DEF Close, Is
<1> DEFINE ended == [reader[p] EXCEPT !.at = "answered"]
           woken(q) == [reader[q] EXCEPT !.at = "woken", !.of = "none", !.result = reader[p].result]
<1>2. reader' = [q \in Readers |-> IF q = p THEN ended
                                   ELSE IF q \in Followers(p) THEN woken(q) ELSE reader[q]]
  BY DEF Close
<1>3. reader[p] \in Active /\ reader[p].result \in Results
  BY <1>1, ReaderIsActive DEF IInv, Active
<1>4. ended \in Active
  BY <1>3 DEF Active, Stages
<1>5. ASSUME NEW q \in Readers, q \in Followers(p)
      PROVE  woken(q) \in Active /\ reader[q].at = "following"
  <2>1. reader[q] \in Active /\ reader[q].at = "following"
    BY <1>5, ReaderIsActive DEF Followers, Is, IInv
  <2> QED
    BY <1>3, <2>1 DEF Active, Stages
<1> HIDE DEF ended, woken
<1>6. \A q \in Readers : reader'[q] \in Active \cup {Idle}
  BY <1>2, <1>4, <1>5 DEF IInv, TypeOK
<1>7. TypeOK'
  BY <1>1, <1>2, <1>6 DEF IInv, TypeOK, store
<1>8. InOrder'
  BY <1>1 DEF IInv, InOrder, store
<1>9. \A q \in Readers, k \in Keys, w \in Widths :
          RemovedBy(reader[q], k, w) => RemovedBy(reader'[q], k, w)
  BY <1>1, <1>2, <1>5 DEF RemovedBy
<1>10. OrphansAreRemoved'
  BY <1>1, <1>9 DEF IInv, OrphansAreRemoved, WillBeRemoved, store
<1> QED
  BY <1>7, <1>8, <1>10 DEF IInv

-----------------------------------------------------------------------------
(* The steps that store and remove.                                        *)
LEMMA StorePreviewHolds ==
    ASSUME IInv, NEW p \in Readers, StorePreview(p)
    PROVE  IInv'
<1>1. PICK v \in reader[p].todo : reader' = [reader EXCEPT ![p].todo = @ \ {v}] /\
          (kept' = kept \/ kept' = kept \cup {<<reader[p].key, v>>})
  BY DEF StorePreview
<1> DEFINE r == [reader[p] EXCEPT !.todo = @ \ {v}]
<1>2. reader[p] \in Active /\ reader[p].at = "storing"
  BY ReaderIsActive DEF StorePreview, Is, IInv
<1>3. r \in Active /\ r.at = "storing" /\ r.key = reader[p].key
  BY <1>2 DEF Active
<1>4. reader' = [reader EXCEPT ![p] = r]
  BY <1>1 DEF IInv, TypeOK
<1>5. UNCHANGED <<rows, originals, renders, deleting>>
  BY DEF StorePreview
<1> HIDE DEF r
<1>6. TypeOK'
  BY <1>3, <1>4, <1>5 DEF IInv, TypeOK
<1>7. InOrder'
  BY <1>5 DEF IInv, InOrder
<1>8. reader'[p] = r /\ \A q \in Readers : q # p => reader'[q] = reader[q]
  BY <1>4 DEF IInv, TypeOK
<1>9. \A k \in Keys, w \in Widths : WillBeRemoved(k, w) => WillBeRemoved(k, w)'
  BY <1>2, <1>3, <1>5, <1>8 DEF WillBeRemoved, RemovedBy
<1>10. \A k \in Keys, w \in Widths : k = reader[p].key => WillBeRemoved(k, w)'
  BY <1>3, <1>8 DEF WillBeRemoved, RemovedBy
<1>11. OrphansAreRemoved'
  BY <1>1, <1>5, <1>9, <1>10 DEF IInv, OrphansAreRemoved
<1> QED
  BY <1>6, <1>7, <1>11 DEF IInv

(* A reader that found the original gone, or could not tell, removes it    *)
(* and has every preview to remove.                                        *)
LEMMA ClearsHolds ==
    ASSUME IInv, NEW p \in Readers, reader[p].at = "storing", Clears(p),
           UNCHANGED <<rows, kept, renders, deleting>>
    PROVE  IInv'
<1> DEFINE r == [reader[p] EXCEPT !.at = "clearing", !.todo = Widths]
<1>1. reader[p] \in Active
  BY ReaderIsActive DEF IInv
<1>2. r \in Active /\ r.at = "clearing" /\ r.key = reader[p].key /\ r.todo = Widths
  BY <1>1 DEF Active, Stages
<1>3. reader' = [reader EXCEPT ![p] = r]
  BY DEF Clears, IInv, TypeOK
<1>4. originals' = originals \ {reader[p].key}
  BY DEF Clears
<1> HIDE DEF r
<1>5. TypeOK'
  BY <1>2, <1>3 DEF IInv, TypeOK
<1>6. InOrder'
  BY <1>4 DEF IInv, InOrder
<1>7. reader'[p] = r /\ \A q \in Readers : q # p => reader'[q] = reader[q]
  BY <1>3 DEF IInv, TypeOK
<1>8. \A k \in Keys, w \in Widths : WillBeRemoved(k, w) => WillBeRemoved(k, w)'
  BY <1>2, <1>7 DEF WillBeRemoved, RemovedBy
<1>9. \A k \in Keys, w \in Widths : k = reader[p].key => WillBeRemoved(k, w)'
  BY <1>2, <1>7 DEF WillBeRemoved, RemovedBy
<1>10. ASSUME NEW k \in Keys, NEW w \in Widths, <<k, w>> \in kept', k \notin originals'
       PROVE  WillBeRemoved(k, w)'
  <2>1. CASE k = reader[p].key
    BY <1>9, <2>1
  <2>2. CASE k # reader[p].key
    <3>1. <<k, w>> \in kept /\ k \notin originals
      BY <1>4, <1>10, <2>2
    <3> QED
      BY <1>8, <3>1 DEF IInv, OrphansAreRemoved
  <2> QED
    BY <2>1, <2>2
<1>11. OrphansAreRemoved'
  BY <1>10 DEF OrphansAreRemoved
<1> QED
  BY <1>5, <1>6, <1>11 DEF IInv

LEMMA CheckOriginalHolds ==
    ASSUME IInv, NEW p \in Readers, CheckOriginal(p)
    PROVE  IInv'
<1>1. reader[p].at = "storing" /\ UNCHANGED <<rows, kept, renders, deleting>>
  BY DEF CheckOriginal, Is
<1>2. CASE Clears(p)
  BY <1>1, <1>2, ClearsHolds
<1>3. ASSUME reader[p].key \in originals, Ends(p, "ok"), UNCHANGED originals
      PROVE  IInv'
  <2> DEFINE r == [reader[p] EXCEPT !.at = "ending", !.result = "ok"]
  <2>1. reader[p] \in Active
    BY <1>1, ReaderIsActive DEF IInv
  <2>2. r \in Active
    BY <2>1 DEF Active, Stages, Results
  <2>3. reader' = [reader EXCEPT ![p] = r]
    BY <1>3 DEF Ends, IInv, TypeOK
  <2> HIDE DEF r
  <2>4. TypeOK'
    BY <1>1, <2>2, <2>3 DEF IInv, TypeOK
  <2>5. InOrder'
    BY <1>1, <1>3 DEF IInv, InOrder
  <2>6. \A q \in Readers : q # p => reader'[q] = reader[q]
    BY <2>3 DEF IInv, TypeOK
  <2>7. \A k \in Keys, w \in Widths : k \notin originals /\ WillBeRemoved(k, w) => WillBeRemoved(k, w)'
    BY <1>1, <1>3, <2>6 DEF WillBeRemoved, RemovedBy
  <2>8. OrphansAreRemoved'
    BY <1>1, <1>3, <2>7 DEF IInv, OrphansAreRemoved
  <2> QED
    BY <2>4, <2>5, <2>8 DEF IInv
<1> QED
  BY <1>2, <1>3 DEF CheckOriginal

LEMMA ClearPreviewHolds ==
    ASSUME IInv, NEW p \in Readers, ClearPreview(p)
    PROVE  IInv'
<1>1. reader[p].at = "clearing" /\ reader[p] \in Active /\ UNCHANGED <<rows, originals, renders, deleting>>
  BY ReaderIsActive DEF ClearPreview, Is, IInv
<1>2. ASSUME NEW v \in reader[p].todo, kept' = kept \ {<<reader[p].key, v>>},
             reader' = [reader EXCEPT ![p].todo = @ \ {v}]
      PROVE  IInv'
  <2> DEFINE r == [reader[p] EXCEPT !.todo = @ \ {v}]
  <2>1. r \in Active /\ r.at = "clearing" /\ r.key = reader[p].key /\ r.todo = reader[p].todo \ {v}
    BY <1>1 DEF Active
  <2>2. reader' = [reader EXCEPT ![p] = r]
    BY <1>2 DEF IInv, TypeOK
  <2> HIDE DEF r
  <2>3. TypeOK'
    BY <1>1, <2>1, <2>2 DEF IInv, TypeOK
  <2>4. InOrder'
    BY <1>1 DEF IInv, InOrder
  <2>5. reader'[p] = r /\ \A q \in Readers : q # p => reader'[q] = reader[q]
    BY <2>2 DEF IInv, TypeOK
  <2>6. \A k \in Keys, w \in Widths :
            WillBeRemoved(k, w) => WillBeRemoved(k, w)' \/ (k = reader[p].key /\ w = v)
    BY <1>1, <2>1, <2>5 DEF WillBeRemoved, RemovedBy
  <2>7. OrphansAreRemoved'
    BY <1>1, <1>2, <2>6 DEF IInv, OrphansAreRemoved
  <2> QED
    BY <2>3, <2>4, <2>7 DEF IInv
<1>3. ASSUME reader[p].todo = {}, Ends(p, reader[p].result), UNCHANGED kept
      PROVE  IInv'
  <2> DEFINE r == [reader[p] EXCEPT !.at = "ending", !.result = reader[p].result]
  <2>1. r \in Active
    BY <1>1 DEF Active, Stages
  <2>2. reader' = [reader EXCEPT ![p] = r]
    BY <1>3 DEF Ends, IInv, TypeOK
  <2>3. \A k \in Keys, w \in Widths : ~RemovedBy(reader[p], k, w)
    BY <1>1, <1>3 DEF RemovedBy
  <2>4. renders' \in [Keys -> Readers \cup {"none"}] /\ UNCHANGED <<store, deleting>>
    BY <1>1, <1>3 DEF IInv, TypeOK, store
  <2> HIDE DEF r
  <2> QED
    BY <2>1, <2>2, <2>3, <2>4, ReaderGoesOn
<1> QED
  BY <1>2, <1>3 DEF ClearPreview

-----------------------------------------------------------------------------
(* The steps of a deletion.                                                *)
LEMMA DeleteRowHolds ==
    ASSUME IInv, NEW k \in Keys, DeleteRow(k)
    PROVE  IInv'
<1> DEFINE d == [at |-> "original", todo |-> Widths]
<1>1. /\ rows' = rows \ {k} /\ deleting' = [deleting EXCEPT ![k] = d]
      /\ UNCHANGED <<originals, kept, renders, reader>> /\ deleting[k].at = "no"
  BY DEF DeleteRow, IInv, InOrder
<1>2. d \in Deletion /\ d.at = "original" /\ d.todo = Widths
  BY DEF Deletion
<1> HIDE DEF d
<1>3. TypeOK'
  BY <1>1, <1>2 DEF IInv, TypeOK
<1>4. deleting'[k] = d /\ \A l \in Keys : l # k => deleting'[l] = deleting[l]
  BY <1>1 DEF IInv, TypeOK
<1>5. InOrder'
  BY <1>1, <1>2, <1>4 DEF IInv, InOrder
<1>6. \A l \in Keys, w \in Widths : WillBeRemoved(l, w) => WillBeRemoved(l, w)'
  BY <1>1, <1>4 DEF WillBeRemoved
<1>7. OrphansAreRemoved'
  BY <1>1, <1>6 DEF IInv, OrphansAreRemoved
<1> QED
  BY <1>3, <1>5, <1>7 DEF IInv

LEMMA DeleteOriginalHolds ==
    ASSUME IInv, NEW k \in Keys, DeleteOriginal(k)
    PROVE  IInv'
<1> DEFINE d == [deleting[k] EXCEPT !.at = "previews"]
<1>1. /\ originals' = originals \ {k} /\ deleting[k] \in Deletion
      /\ UNCHANGED <<rows, kept, renders, reader>>
      /\ deleting[k].at = "original" /\ deleting[k].todo = Widths
  BY DEF DeleteOriginal, IInv, TypeOK, InOrder
<1>2. d \in Deletion /\ d.at = "previews" /\ d.todo = Widths
  BY <1>1 DEF Deletion
<1>3. deleting' = [deleting EXCEPT ![k] = d]
  BY DEF DeleteOriginal, IInv, TypeOK
<1> HIDE DEF d
<1>4. TypeOK'
  BY <1>1, <1>2, <1>3 DEF IInv, TypeOK
<1>5. deleting'[k] = d /\ \A l \in Keys : l # k => deleting'[l] = deleting[l]
  BY <1>3 DEF IInv, TypeOK
<1>6. InOrder'
  BY <1>1, <1>2, <1>5 DEF IInv, InOrder
<1>7. \A l \in Keys, w \in Widths : WillBeRemoved(l, w) \/ l = k => WillBeRemoved(l, w)'
  BY <1>1, <1>2, <1>5 DEF WillBeRemoved
<1>8. OrphansAreRemoved'
  BY <1>1, <1>7 DEF IInv, OrphansAreRemoved
<1> QED
  BY <1>4, <1>6, <1>8 DEF IInv

LEMMA DeletePreviewHolds ==
    ASSUME IInv, NEW k \in Keys, DeletePreview(k)
    PROVE  IInv'
<1>1. /\ deleting[k].at = "previews" /\ deleting[k] \in Deletion
      /\ UNCHANGED <<rows, originals, renders, reader>>
  BY DEF DeletePreview, IInv, TypeOK
<1>2. ASSUME NEW v \in deleting[k].todo, kept' = kept \ {<<k, v>>},
             deleting' = [deleting EXCEPT ![k].todo = @ \ {v}]
      PROVE  IInv'
  <2> DEFINE d == [deleting[k] EXCEPT !.todo = @ \ {v}]
  <2>1. d \in Deletion /\ d.at = "previews" /\ d.todo = deleting[k].todo \ {v}
    BY <1>1 DEF Deletion
  <2>2. deleting' = [deleting EXCEPT ![k] = d]
    BY <1>2 DEF IInv, TypeOK
  <2> HIDE DEF d
  <2>3. TypeOK'
    BY <1>1, <2>1, <2>2 DEF IInv, TypeOK
  <2>4. deleting'[k] = d /\ \A l \in Keys : l # k => deleting'[l] = deleting[l]
    BY <2>2 DEF IInv, TypeOK
  <2>5. InOrder'
    BY <1>1, <2>1, <2>4 DEF IInv, InOrder
  <2>6. \A l \in Keys, w \in Widths : WillBeRemoved(l, w) => WillBeRemoved(l, w)' \/ (l = k /\ w = v)
    BY <1>1, <2>1, <2>4 DEF WillBeRemoved
  <2>7. OrphansAreRemoved'
    BY <1>1, <1>2, <2>6 DEF IInv, OrphansAreRemoved
  <2> QED
    BY <2>3, <2>5, <2>7 DEF IInv
<1>3. ASSUME deleting[k].todo = {}, deleting' = [deleting EXCEPT ![k].at = "done"], UNCHANGED kept
      PROVE  IInv'
  <2> DEFINE d == [deleting[k] EXCEPT !.at = "done"]
  <2>1. d \in Deletion /\ d.at = "done"
    BY <1>1 DEF Deletion
  <2>2. deleting' = [deleting EXCEPT ![k] = d]
    BY <1>3 DEF IInv, TypeOK
  <2> HIDE DEF d
  <2>3. TypeOK'
    BY <1>1, <2>1, <2>2 DEF IInv, TypeOK
  <2>4. deleting'[k] = d /\ \A l \in Keys : l # k => deleting'[l] = deleting[l]
    BY <2>2 DEF IInv, TypeOK
  <2>5. InOrder'
    BY <1>1, <2>1, <2>4 DEF IInv, InOrder
  <2>6. \A l \in Keys, w \in Widths : WillBeRemoved(l, w) => WillBeRemoved(l, w)'
    BY <1>1, <1>3, <2>4 DEF WillBeRemoved
  <2>7. OrphansAreRemoved'
    BY <1>1, <1>3, <2>6 DEF IInv, OrphansAreRemoved
  <2> QED
    BY <2>3, <2>5, <2>7 DEF IInv
<1> QED
  BY <1>2, <1>3 DEF DeletePreview

-----------------------------------------------------------------------------
LEMMA StepHolds == IInv /\ [Next]_vars => IInv'
<1> SUFFICES ASSUME IInv, [Next]_vars PROVE IInv'
  OBVIOUS
<1>1. ASSUME NEW p \in Readers, Ask(p) \/ Goes(p) \/ Cancel(p)
      PROVE  IInv'
  BY <1>1, AskHolds, PreviewsForHolds, TakesSlotHolds, DecodeHolds, StorePreviewHolds,
     CheckOriginalHolds, ClearPreviewHolds, UnregisterHolds, CloseHolds, WokenHolds, LeaveHolds,
     CancelHolds DEF Goes
<1>2. ASSUME NEW k \in Keys, DeleteRow(k) \/ Deletes(k)
      PROVE  IInv'
  BY <1>2, DeleteRowHolds, DeleteOriginalHolds, DeletePreviewHolds DEF Deletes
<1>3. CASE UNCHANGED vars
  BY <1>3 DEF vars, IInv, TypeOK, InOrder, OrphansAreRemoved, WillBeRemoved
<1> QED
  BY <1>1, <1>2, <1>3 DEF Next

LEMMA InvSuffices == IInv => NoOrphanPreview
<1> SUFFICES ASSUME IInv, NEW k \in Keys, NEW w \in Widths, deleting[k].at = "done",
                    \A p \in Rendering : reader[p].key # k, <<k, w>> \in kept
             PROVE  FALSE
  BY DEF NoOrphanPreview
<1>1. WillBeRemoved(k, w)
  BY DEF IInv, InOrder, OrphansAreRemoved
<1>2. PICK p \in Readers : RemovedBy(reader[p], k, w)
  BY <1>1 DEF WillBeRemoved
<1> QED
  BY <1>2 DEF RemovedBy, Rendering

(* Whichever of a deletion and a rendering ends last, no preview outlives  *)
(* the picture it was made of: the rendering looks at the original once    *)
(* more after storing, and the deletion removes the original before the    *)
(* previews.                                                               *)
THEOREM NoPreviewIsOrphaned == Spec => []NoOrphanPreview
BY InitHolds, StepHolds, InvSuffices, PTL DEF Spec

-----------------------------------------------------------------------------
(***************************************************************************)
(* The background shares its work out exactly, for any number of uploads,  *)
(* workers, requests for a walk and files.                                 *)
(*                                                                         *)
(* The three parts support each other: the progress bar counts one walk,   *)
(* so it is exact only because one walks at a time, and that holds because *)
(* backfillRunning tells whether somebody does.                            *)
(***************************************************************************)
WorkTypeOK ==
    /\ upload \in [Uploads -> {"stored", "counted", "pushed", "handed"}]
    /\ queue \in Nat /\ ready \in BOOLEAN
    /\ worker \in [Workers -> {"looking", "passing", "rendering", "sleeping", "gone"}]
    /\ wanted \in BOOLEAN /\ running \in BOOLEAN
    /\ request \in [Walks -> {"none", "wished", "done", "looping", "listing", "counting", "walking",
                              "sweeping", "stopping", "rechecking", "contending"}]
    /\ unseen \in SUBSET Walks
    /\ left \in [Walks -> 0..MaxFiles]
    /\ total \in Nat /\ done \in Nat
    /\ down \in BOOLEAN

Counted == {u \in Uploads : upload[u] = "counted"}
Busy == {w \in Workers : worker[w] \in {"passing", "rendering"}}

WorkInv == WorkTypeOK /\ FlagTellsOfWalk /\ OneWalk /\ WaveIsExact /\ NobodySleepsOnWork

-----------------------------------------------------------------------------
(* A set that is left with one element less, or gets one more.             *)
LEMMA OneLess ==
    ASSUME NEW S, IsFiniteSet(S), NEW x \in S
    PROVE  Cardinality(S \ {x}) = Cardinality(S) - 1 /\ Cardinality(S) \in Nat
BY FS_RemoveElement, FS_CardinalityType

LEMMA OneMore ==
    ASSUME NEW S, IsFiniteSet(S), NEW x, x \notin S
    PROVE  Cardinality(S \cup {x}) = Cardinality(S) + 1 /\ Cardinality(S) \in Nat
BY FS_AddElement, FS_CardinalityType

LEMMA SetsAreFinite ==
    /\ IsFiniteSet(Counted) /\ Cardinality(Counted) \in Nat
    /\ IsFiniteSet(Busy) /\ Cardinality(Busy) \in Nat
<1>1. Counted \in SUBSET Uploads /\ Busy \in SUBSET Workers
  BY DEF Counted, Busy
<1>2. IsFiniteSet(Uploads) /\ IsFiniteSet(Workers)
  BY PreviewWorkAssumption
<1>3. IsFiniteSet(Counted) /\ IsFiniteSet(Busy)
  BY <1>1, <1>2, FS_Subset
<1> QED
  BY <1>3, FS_CardinalityType

LEMMA OutstandingIs ==
    ASSUME WorkTypeOK
    PROVE  Outstanding = Cardinality(Counted) + queue + Cardinality(Busy) /\ Outstanding \in Nat
BY SetsAreFinite DEF Outstanding, Counted, Busy, WorkTypeOK

(* No more is done than was counted.                                       *)
LEMMA RestIsNat ==
    ASSUME WorkInv
    PROVE  total - done \in Nat /\ Outstanding \in Nat /\ total - done >= Outstanding
<1>1. Outstanding \in Nat
  BY OutstandingIs DEF WorkInv
<1>2. CASE \E r \in Walks : request[r] = "walking"
  <2>1. PICK r \in Walks : request[r] = "walking"
    BY <1>2
  <2>2. total - done = Outstanding + left[r] /\ left[r] \in Nat
    BY <2>1, PreviewWorkAssumption DEF WorkInv, WaveIsExact, WorkTypeOK
  <2> QED
    BY <1>1, <2>2
<1>3. CASE \A r \in Walks : request[r] # "walking"
  BY <1>1, <1>3 DEF WorkInv, WaveIsExact
<1> QED
  BY <1>2, <1>3

LEMMA WaveGrows ==
    ASSUME total \in Nat, done \in Nat, total - done \in Nat, NEW count \in Nat, AddToWave(count)
    PROVE  total' \in Nat /\ done' \in Nat /\ total' - done' = total - done + count /\ UNCHANGED down
BY DEF AddToWave, NothingDone

LEMMA WaveShrinks ==
    ASSUME total \in Nat, done \in Nat, NEW count \in Nat, count <= total - done, FinishInWave(count)
    PROVE  total' \in Nat /\ done' \in Nat /\ total' - done' = total - done - count /\ UNCHANGED down
BY DEF FinishInWave

(* As long as the walk is left alone, the bar is exact when it moves with  *)
(* the work outstanding.                                                   *)
LEMMA ExactStays ==
    ASSUME WorkInv, WorkTypeOK', UNCHANGED <<request, left>>, NEW n \in Int,
           total' - done' = total - done + n, Outstanding' = Outstanding + n
    PROVE  WaveIsExact'
<1>1. Outstanding \in Nat /\ total \in Nat /\ done \in Nat /\ total' \in Nat /\ done' \in Nat
  BY RestIsNat DEF WorkInv, WorkTypeOK
<1>2. \A r \in Walks : left[r] \in Int
  BY PreviewWorkAssumption DEF WorkInv, WorkTypeOK
<1>3. ASSUME NEW r \in Walks, request[r] = "walking"
      PROVE  total' - done' = Outstanding' + left[r]
  <2>1. total - done = Outstanding + left[r]
    BY <1>3 DEF WorkInv, WaveIsExact
  <2>2. \A o, l \in Int : (o + l) + n = (o + n) + l
    OBVIOUS
  <2>3. left[r] \in Int
    BY <1>2
  <2>4. (Outstanding + left[r]) + n = (Outstanding + n) + left[r]
    BY <1>1, <2>2, <2>3
  <2> QED
    BY <2>1, <2>4
<1>4. ASSUME \A r \in Walks : request[r] # "walking"
      PROVE  total' - done' = Outstanding'
  <2>1. total - done = Outstanding
    BY <1>4 DEF WorkInv, WaveIsExact
  <2> QED
    BY <1>1, <2>1
<1> QED
  BY <1>3, <1>4 DEF WaveIsExact

(* The walk's two conjuncts speak of the requests only.                    *)
LEMMA WalkStays ==
    ASSUME WorkInv, UNCHANGED <<request, running>>
    PROVE  FlagTellsOfWalk' /\ OneWalk'
BY DEF WorkInv, FlagTellsOfWalk, OneWalk, Walking

LEMMA WorkInitHolds == WorkInit => WorkInv
<1> SUFFICES ASSUME WorkInit PROVE WorkInv
  OBVIOUS
<1>1. WorkTypeOK
  <2>1. 0 \in 0..MaxFiles /\ 0 \in Nat
    BY PreviewWorkAssumption
  <2> QED
    BY <2>1 DEF WorkInit, WorkTypeOK
<1>2. Counted = {} /\ Busy = {}
  BY DEF WorkInit, Counted, Busy
<1>3. Outstanding = 0
  BY <1>1, <1>2, OutstandingIs, FS_EmptySet DEF WorkInit
<1>4. WaveIsExact
  BY <1>3 DEF WorkInit, WaveIsExact
<1>5. FlagTellsOfWalk /\ OneWalk /\ NobodySleepsOnWork
  BY DEF WorkInit, FlagTellsOfWalk, OneWalk, Walking, NobodySleepsOnWork
<1> QED
  BY <1>1, <1>4, <1>5 DEF WorkInv

-----------------------------------------------------------------------------
(* The uploads.                                                            *)
LEMMA CountsKeeps ==
    ASSUME WorkInv, NEW u \in Uploads, Counts(u), UNCHANGED <<queue, ready, worker, walkVars>>
    PROVE  WorkInv'
<1>1. total' \in Nat /\ done' \in Nat /\ total' - done' = total - done + 1 /\ UNCHANGED down
  BY RestIsNat, WaveGrows DEF Counts, WorkInv, WorkTypeOK
<1>2. upload[u] = "stored" /\ upload' = [upload EXCEPT ![u] = "counted"]
  BY DEF Counts, Handing
<1>3. WorkTypeOK'
  BY <1>1, <1>2 DEF WorkInv, WorkTypeOK, walkVars
<1>4. Counted' = Counted \cup {u} /\ u \notin Counted /\ Busy' = Busy
  BY <1>2 DEF Counted, Busy, WorkInv, WorkTypeOK
<1>5. Cardinality(Counted') = Cardinality(Counted) + 1
  BY <1>4, OneMore, SetsAreFinite
<1>6. Outstanding' = Cardinality(Counted') + queue' + Cardinality(Busy')
  BY <1>3 DEF Outstanding, Counted, Busy
<1>7. Outstanding' = Outstanding + 1
  BY <1>4, <1>5, <1>6, OutstandingIs, SetsAreFinite DEF WorkInv, WorkTypeOK
<1>8. WaveIsExact'
  BY <1>1, <1>3, <1>7, ExactStays DEF walkVars
<1>9. NobodySleepsOnWork'
  BY <1>1, <1>2 DEF WorkInv, WorkTypeOK, NobodySleepsOnWork
<1> QED
  BY <1>3, <1>8, <1>9, WalkStays DEF WorkInv, walkVars

LEMMA PushesKeeps ==
    ASSUME WorkInv, NEW u \in Uploads, Pushes(u), UNCHANGED <<worker, walkVars, wave>>
    PROVE  WorkInv'
<1>1. total' \in Nat /\ done' \in Nat /\ total' - done' = total - done + 0
  BY DEF WorkInv, WorkTypeOK, wave
<1>2. ASSUME Handing(u, "counted", "pushed"), queue' = queue + 1, UNCHANGED ready
      PROVE  WorkInv'
  <2>1. upload[u] = "counted" /\ upload' = [upload EXCEPT ![u] = "pushed"]
    BY <1>2 DEF Handing
  <2>2. WorkTypeOK'
    BY <1>2, <2>1 DEF WorkInv, WorkTypeOK, walkVars, wave
  <2>3. Counted' = Counted \ {u} /\ u \in Counted /\ Busy' = Busy
    BY <2>1 DEF Counted, Busy, WorkInv, WorkTypeOK
  <2>4. Cardinality(Counted') = Cardinality(Counted) - 1
    BY <2>3, OneLess, SetsAreFinite
  <2>5. Outstanding' = Cardinality(Counted') + queue' + Cardinality(Busy')
    BY DEF Outstanding, Counted, Busy
  <2>6. Outstanding' = Outstanding + 0
    BY <1>2, <2>3, <2>4, <2>5, OutstandingIs, SetsAreFinite DEF WorkInv, WorkTypeOK
  <2>7. WaveIsExact'
    BY <1>1, <2>2, <2>6, ExactStays DEF walkVars
  <2>8. NobodySleepsOnWork'
    BY <2>1 DEF WorkInv, WorkTypeOK, NobodySleepsOnWork
  <2> QED
    BY <2>2, <2>7, <2>8, WalkStays DEF WorkInv, walkVars
<1>3. ASSUME Handing(u, "pushed", "handed"), ready' = TRUE, UNCHANGED queue
      PROVE  WorkInv'
  <2>1. upload[u] = "pushed" /\ upload' = [upload EXCEPT ![u] = "handed"]
    BY <1>3 DEF Handing
  <2>2. WorkTypeOK'
    BY <1>3, <2>1 DEF WorkInv, WorkTypeOK, walkVars, wave
  <2>3. Counted' = Counted /\ Busy' = Busy
    BY <2>1 DEF Counted, Busy, WorkInv, WorkTypeOK
  <2>4. Outstanding' = Cardinality(Counted') + queue' + Cardinality(Busy')
    BY DEF Outstanding, Counted, Busy
  <2>5. Outstanding' = Outstanding + 0
    BY <1>3, <2>3, <2>4, OutstandingIs DEF WorkInv
  <2>6. WaveIsExact'
    BY <1>1, <2>2, <2>5, ExactStays DEF walkVars
  <2>7. NobodySleepsOnWork'
    BY <1>3 DEF NobodySleepsOnWork
  <2> QED
    BY <2>2, <2>6, <2>7, WalkStays DEF WorkInv, walkVars
<1> QED
  BY <1>2, <1>3 DEF Pushes

-----------------------------------------------------------------------------
(* The workers.  A worker that looks, passes on or renders is the one the  *)
(* others may go on sleeping for.                                          *)
LEMMA PopKeeps ==
    ASSUME WorkInv, NEW w \in Workers, Pop(w)
    PROVE  WorkInv'
<1>1. total' \in Nat /\ done' \in Nat /\ total' - done' = total - done + 0 /\ worker[w] = "looking"
      /\ UNCHANGED <<upload, ready, walkVars, wave>>
  BY DEF Pop, WorkInv, WorkTypeOK, wave
<1>2. Outstanding' = Cardinality(Counted') + queue' + Cardinality(Busy') /\ Counted' = Counted
  BY <1>1 DEF Outstanding, Counted, Busy
<1>3. ASSUME ~down, queue > 0, queue' = queue - 1, Works(w, IF PassesOn THEN "passing" ELSE "rendering")
      PROVE  WorkInv'
  <2>1. PICK at \in {"passing", "rendering"} :
            worker' = [worker EXCEPT ![w] = at] /\ (queue' > 0 => at = "passing")
    <3>1. queue \in Nat
      BY DEF WorkInv, WorkTypeOK
    <3>2. CASE PassesOn
      BY <1>3, <3>2 DEF Works
    <3>3. CASE ~PassesOn
      <4>1. worker' = [worker EXCEPT ![w] = "rendering"] /\ queue' = 0
        BY <1>3, <3>1, <3>3 DEF Works, PassesOn
      <4> QED
        BY <4>1
    <3> QED
      BY <3>2, <3>3
  <2>2. WorkTypeOK'
    BY <1>1, <1>3, <2>1 DEF WorkInv, WorkTypeOK, walkVars, wave
  <2>3. Busy' = Busy \cup {w} /\ w \notin Busy
    BY <1>1, <2>1 DEF Busy, WorkInv, WorkTypeOK
  <2>4. Cardinality(Busy') = Cardinality(Busy) + 1
    BY <2>3, OneMore, SetsAreFinite
  <2>5. Outstanding' = Outstanding + 0
    BY <1>2, <1>3, <2>4, OutstandingIs, SetsAreFinite DEF WorkInv, WorkTypeOK
  <2>6. WaveIsExact'
    BY <1>1, <2>2, <2>5, ExactStays DEF walkVars
  <2>7. NobodySleepsOnWork'
    BY <2>1 DEF NobodySleepsOnWork, WorkInv, WorkTypeOK
  <2> QED
    BY <1>1, <2>2, <2>6, <2>7, WalkStays DEF WorkInv, walkVars
<1>4. ASSUME NEW at \in {"sleeping", "gone"}, Works(w, at), UNCHANGED queue, at = "gone" => down,
             at = "sleeping" => queue = 0
      PROVE  WorkInv'
  <2>1. worker' = [worker EXCEPT ![w] = at]
    BY <1>4 DEF Works
  <2>2. WorkTypeOK'
    BY <1>1, <1>4, <2>1 DEF WorkInv, WorkTypeOK, walkVars, wave
  <2>3. Busy' = Busy
    BY <1>1, <1>4, <2>1 DEF Busy, WorkInv, WorkTypeOK
  <2>4. Outstanding' = Outstanding + 0
    BY <1>2, <1>4, <2>3, OutstandingIs DEF WorkInv
  <2>5. WaveIsExact'
    BY <1>1, <2>2, <2>4, ExactStays DEF walkVars
  <2>6. NobodySleepsOnWork'
    BY <1>1, <1>4 DEF NobodySleepsOnWork, wave, WorkInv, WorkTypeOK
  <2> QED
    BY <1>1, <2>2, <2>5, <2>6, WalkStays DEF WorkInv, walkVars
<1> QED
  BY <1>3, <1>4 DEF Pop

(* A worker that stays with its picture, or has none before and after.     *)
LEMMA WorkerKeeps ==
    ASSUME WorkInv, NEW w \in Workers,
           NEW at \in {"looking", "passing", "rendering", "sleeping", "gone"}, Works(w, at),
           worker[w] \in {"passing", "rendering"} <=> at \in {"passing", "rendering"},
           ready' \in BOOLEAN, UNCHANGED <<upload, queue, walkVars, wave>>,
           ready' \/ at = "looking" \/ (down /\ UNCHANGED ready)
    PROVE  WorkInv'
<1>1. total' \in Nat /\ done' \in Nat /\ total' - done' = total - done + 0
  BY DEF WorkInv, WorkTypeOK, wave
<1>2. worker' = [worker EXCEPT ![w] = at]
  BY DEF Works
<1>3. WorkTypeOK'
  BY <1>2 DEF WorkInv, WorkTypeOK, walkVars, wave
<1>4. Busy' = Busy /\ Counted' = Counted
  BY <1>2 DEF Busy, Counted, WorkInv, WorkTypeOK
<1>5. Outstanding' = Cardinality(Counted') + queue' + Cardinality(Busy')
  BY DEF Outstanding, Counted, Busy
<1>6. Outstanding' = Outstanding + 0
  BY <1>4, <1>5, OutstandingIs DEF WorkInv
<1>7. WaveIsExact'
  BY <1>1, <1>3, <1>6, ExactStays DEF walkVars
<1>8. NobodySleepsOnWork'
  BY <1>2 DEF NobodySleepsOnWork, WorkInv, WorkTypeOK, wave
<1> QED
  BY <1>3, <1>7, <1>8, WalkStays DEF WorkInv, walkVars

LEMMA RenderKeeps ==
    ASSUME WorkInv, NEW w \in Workers, Render(w)
    PROVE  WorkInv'
<1>1. worker[w] = "rendering" /\ worker' = [worker EXCEPT ![w] = "looking"]
      /\ UNCHANGED <<upload, queue, ready, walkVars>>
  BY DEF Render, Works
<1>2. Busy' = Busy \ {w} /\ w \in Busy /\ Counted' = Counted
  BY <1>1 DEF Busy, Counted, WorkInv, WorkTypeOK
<1>3. Cardinality(Busy') = Cardinality(Busy) - 1
  BY <1>2, OneLess, SetsAreFinite
<1>4. Outstanding' = Cardinality(Counted') + queue' + Cardinality(Busy')
  BY DEF Outstanding, Counted, Busy
<1>5. Outstanding' = Outstanding - 1 /\ Outstanding \in Nat
  BY <1>1, <1>2, <1>3, <1>4, OutstandingIs, SetsAreFinite DEF WorkInv, WorkTypeOK
<1>6. Outstanding' \in Nat
  BY <1>1, <1>2, <1>3, <1>4, OneLess, SetsAreFinite, FS_RemoveElement, FS_CardinalityType DEF WorkInv, WorkTypeOK
<1>7. total' \in Nat /\ done' \in Nat /\ total' - done' = total - done - 1 /\ UNCHANGED down
  BY <1>5, <1>6, RestIsNat, WaveShrinks DEF Render, WorkInv, WorkTypeOK
<1>8. WorkTypeOK'
  BY <1>1, <1>7 DEF WorkInv, WorkTypeOK, walkVars
<1>9. total' - done' = total - done + (-1) /\ Outstanding' = Outstanding + (-1)
  BY <1>5, <1>7 DEF WorkInv, WorkTypeOK
<1>10. WaveIsExact'
  BY <1>1, <1>8, <1>9, ExactStays DEF walkVars
<1>11. NobodySleepsOnWork'
  BY <1>1 DEF NobodySleepsOnWork, WorkInv, WorkTypeOK
<1> QED
  BY <1>1, <1>8, <1>10, <1>11, WalkStays DEF WorkInv, walkVars

LEMMA WorkerGoesKeeps ==
    ASSUME WorkInv, NEW w \in Workers, WorkerGoes(w)
    PROVE  WorkInv'
<1>1. CASE Pop(w)
  BY <1>1, PopKeeps
<1>2. CASE SignalPop(w)
  BY <1>2, WorkerKeeps DEF SignalPop
<1>3. CASE Wake(w)
  <2>1. /\ worker[w] = "sleeping" /\ UNCHANGED <<upload, queue, walkVars, wave>>
        /\ ready' \in BOOLEAN
    BY <1>3 DEF Wake, WorkInv, WorkTypeOK
  <2>2. Works(w, "looking") \/ (down /\ Works(w, "gone") /\ UNCHANGED ready)
    BY <1>3 DEF Wake
  <2> QED
    BY <2>1, <2>2, WorkerKeeps
<1>4. CASE Render(w)
  BY <1>4, RenderKeeps
<1> QED
  BY <1>1, <1>2, <1>3, <1>4 DEF WorkerGoes

-----------------------------------------------------------------------------
(* The walks.  A request that walks nothing before and after.              *)
LEMMA RequestKeeps ==
    ASSUME WorkInv, NEW r \in Walks,
           NEW at \in {"wished", "done", "looping", "listing", "sweeping", "stopping", "rechecking",
                       "contending", "counting"},
           request[r] # "walking", Moves(r, at), left' \in [Walks -> 0..MaxFiles],
           \A q \in Walks : q # r => left'[q] = left[q],
           wanted' \in BOOLEAN, running' \in BOOLEAN, unseen' \in SUBSET Walks,
           UNCHANGED <<queueVars, wave>>, FlagTellsOfWalk', OneWalk'
    PROVE  WorkInv'
<1>1. request' = [request EXCEPT ![r] = at]
  BY DEF Moves
<1>2. WorkTypeOK'
  BY <1>1 DEF WorkInv, WorkTypeOK, queueVars, wave
<1>3. Outstanding' = Outstanding
  BY DEF Outstanding, queueVars
<1>4. \A q \in Walks : /\ request'[q] = "walking" <=> request[q] = "walking"
                       /\ request[q] = "walking" => left'[q] = left[q]
  BY <1>1 DEF WorkInv, WorkTypeOK
<1>5. WaveIsExact'
  BY <1>3, <1>4 DEF WorkInv, WaveIsExact, wave
<1>6. NobodySleepsOnWork'
  BY DEF WorkInv, NobodySleepsOnWork, queueVars, wave
<1> QED
  BY <1>2, <1>5, <1>6 DEF WorkInv

(* One that walks, or is about to, stays the only one.                     *)
LEMMA WalkerStays ==
    ASSUME WorkInv, NEW r \in Walks, Walking(r),
           NEW at \in {"looping", "listing", "counting", "walking", "sweeping", "stopping"},
           Moves(r, at), UNCHANGED running
    PROVE  FlagTellsOfWalk' /\ OneWalk'
<1>1. request' = [request EXCEPT ![r] = at] /\ running
  BY DEF Moves, WorkInv, FlagTellsOfWalk
<1>2. Walking(r)' /\ \A q \in Walks : Walking(q)' => Walking(q)
  BY <1>1 DEF Walking, WorkInv, WorkTypeOK
<1> QED
  BY <1>1, <1>2 DEF WorkInv, FlagTellsOfWalk, OneWalk

(* One that neither walks before nor after.                                *)
LEMMA BystanderStays ==
    ASSUME WorkInv, NEW r \in Walks, ~Walking(r), NEW at \in {"wished", "done", "contending"}, Moves(r, at),
           UNCHANGED running
    PROVE  FlagTellsOfWalk' /\ OneWalk'
<1>1. request' = [request EXCEPT ![r] = at]
  BY DEF Moves
<1>2. \A q \in Walks : Walking(q)' <=> Walking(q)
  BY <1>1 DEF Walking, WorkInv, WorkTypeOK
<1> QED
  BY <1>1, <1>2 DEF WorkInv, FlagTellsOfWalk, OneWalk

(* One that begins to walk found that nobody does.                         *)
LEMMA WalkerStarts ==
    ASSUME WorkInv, NEW r \in Walks, ~running, running', Moves(r, "looping")
    PROVE  FlagTellsOfWalk' /\ OneWalk'
<1>1. request' = [request EXCEPT ![r] = "looping"]
  BY DEF Moves
<1>2. \A q \in Walks : ~Walking(q)
  BY DEF WorkInv, FlagTellsOfWalk
<1>3. Walking(r)' /\ \A q \in Walks : Walking(q)' => q = r
  BY <1>1, <1>2 DEF Walking, WorkInv, WorkTypeOK
<1> QED
  BY <1>3 DEF FlagTellsOfWalk, OneWalk

LEMMA CountFilesKeeps ==
    ASSUME WorkInv, NEW r \in Walks, CountFiles(r)
    PROVE  WorkInv'
<1>1. /\ request[r] = "counting" /\ request' = [request EXCEPT ![r] = "walking"]
      /\ UNCHANGED <<queueVars, wanted, running, unseen, left>> /\ left[r] \in Nat
  BY PreviewWorkAssumption DEF CountFiles, Moves, WorkInv, WorkTypeOK
<1>2. total' \in Nat /\ done' \in Nat /\ total' - done' = total - done + left[r] /\ UNCHANGED down
  BY <1>1, RestIsNat, WaveGrows DEF CountFiles, WorkInv, WorkTypeOK
<1>3. WorkTypeOK'
  BY <1>1, <1>2 DEF WorkInv, WorkTypeOK, queueVars
<1>4. Walking(r)
  BY <1>1 DEF Walking
<1>5. FlagTellsOfWalk' /\ OneWalk'
  BY <1>1, <1>4, WalkerStays DEF CountFiles
<1>6. Outstanding' = Outstanding
  BY <1>1 DEF Outstanding, queueVars
<1>7. total - done = Outstanding
  <2>1. \A q \in Walks : request[q] # "walking"
    BY <1>1, <1>4 DEF WorkInv, OneWalk, Walking
  <2> QED
    BY <2>1 DEF WorkInv, WaveIsExact
<1>8. \A q \in Walks : request'[q] = "walking" => q = r
  BY <1>1, <1>5 DEF OneWalk, Walking, WorkInv, WorkTypeOK
<1>9. WaveIsExact'
  BY <1>1, <1>2, <1>6, <1>7, <1>8 DEF WaveIsExact, WorkInv, WorkTypeOK
<1>10. NobodySleepsOnWork'
  BY <1>1, <1>2 DEF WorkInv, NobodySleepsOnWork, queueVars
<1> QED
  BY <1>3, <1>5, <1>9, <1>10 DEF WorkInv

LEMMA WalkFileKeeps ==
    ASSUME WorkInv, NEW r \in Walks, WalkFile(r)
    PROVE  WorkInv'
<1>1. /\ request[r] = "walking" /\ UNCHANGED <<queueVars, wanted, running, unseen>> /\ left[r] \in Nat
      /\ left[r] \in 0..MaxFiles /\ Walking(r)
  BY PreviewWorkAssumption DEF WalkFile, WorkInv, WorkTypeOK, Walking
<1>2. total - done = Outstanding + left[r] /\ Outstanding \in Nat
  BY <1>1, RestIsNat DEF WorkInv, WaveIsExact
<1>3. Outstanding' = Outstanding
  BY <1>1 DEF Outstanding, queueVars
<1>4. \A q \in Walks : request[q] = "walking" => q = r
  BY <1>1 DEF WorkInv, OneWalk, Walking
<1>5. ASSUME left[r] > 0, left' = [left EXCEPT ![r] = @ - 1], FinishInWave(1), UNCHANGED request
      PROVE  WorkInv'
  <2>1. total' \in Nat /\ done' \in Nat /\ total' - done' = total - done - 1 /\ UNCHANGED down
    BY <1>1, <1>2, <1>5, WaveShrinks DEF WorkInv, WorkTypeOK
  <2>2. left[r] - 1 \in 0..MaxFiles
    BY <1>1, <1>5, PreviewWorkAssumption
  <2>3. WorkTypeOK'
    BY <1>1, <1>5, <2>1, <2>2 DEF WorkInv, WorkTypeOK, queueVars
  <2>4. left'[r] = left[r] - 1
    BY <1>5 DEF WorkInv, WorkTypeOK
  <2>5. WaveIsExact'
    <3>1. total' - done' = Outstanding' + left'[r]
      <4>1. total - done \in Int
        BY DEF WorkInv, WorkTypeOK
      <4> QED
        BY ONLY <1>1, <1>2, <1>3, <2>1, <2>4, <4>1
    <3> QED
      BY <1>1, <1>4, <1>5, <3>1 DEF WaveIsExact
  <2>6. NobodySleepsOnWork'
    BY <1>1, <2>1 DEF WorkInv, NobodySleepsOnWork, queueVars
  <2> QED
    BY <1>1, <1>5, <2>3, <2>5, <2>6, WalkStays DEF WorkInv
<1>6. ASSUME ClosesItsPart(r)
      PROVE  WorkInv'
  <2>1. total' \in Nat /\ done' \in Nat /\ total' - done' = total - done - left[r] /\ UNCHANGED down
    BY <1>1, <1>2, <1>6, WaveShrinks DEF ClosesItsPart, WorkInv, WorkTypeOK
  <2>2. request' = [request EXCEPT ![r] = "sweeping"] /\ left' = [left EXCEPT ![r] = 0]
    BY <1>6 DEF ClosesItsPart, Moves
  <2>3. WorkTypeOK'
    <3>1. 0 \in 0..MaxFiles
      BY PreviewWorkAssumption
    <3> QED
      BY <1>1, <2>1, <2>2, <3>1 DEF WorkInv, WorkTypeOK, queueVars
  <2>4. \A q \in Walks : request'[q] # "walking"
    BY <1>4, <2>2 DEF WorkInv, WorkTypeOK
  <2>5. WaveIsExact'
    <3>1. total - done \in Int
      BY DEF WorkInv, WorkTypeOK
    <3>2. \A w, o, l \in Int : w = o + l => w - l = o
      OBVIOUS
    <3>3. Outstanding \in Int /\ left[r] \in Int
      BY ONLY <1>1, <1>2
    <3>4. (total - done) - left[r] = Outstanding
      BY ONLY <1>2, <3>1, <3>2, <3>3
    <3>5. total' - done' = Outstanding'
      BY ONLY <1>3, <2>1, <3>4
    <3> QED
      BY ONLY <2>4, <3>5 DEF WaveIsExact
  <2>6. NobodySleepsOnWork'
    BY <1>1, <2>1 DEF WorkInv, NobodySleepsOnWork, queueVars
  <2>7. FlagTellsOfWalk' /\ OneWalk'
    BY <1>1, <1>6, WalkerStays DEF ClosesItsPart
  <2> QED
    BY <2>3, <2>5, <2>6, <2>7 DEF WorkInv
<1> QED
  BY <1>5, <1>6 DEF WalkFile

LEMMA WishKeeps ==
    ASSUME WorkInv, NEW r \in Walks, Wish(r)
    PROVE  WorkInv'
<1>1. request[r] = "none" /\ ~Walking(r) /\ Moves(r, "wished") /\ UNCHANGED <<queueVars, running, left, wave>>
  BY DEF Wish, Walking
<1>2. FlagTellsOfWalk' /\ OneWalk'
  BY <1>1, BystanderStays
<1>3. wanted' \in BOOLEAN /\ running' \in BOOLEAN /\ unseen' \in SUBSET Walks /\ left' \in [Walks -> 0..MaxFiles]
  BY DEF Wish, WorkInv, WorkTypeOK
<1> QED
  BY <1>1, <1>2, <1>3, RequestKeeps

(* The steps of a walk that count and walk nothing.                        *)
LEMMA TypesOfWalks ==
    ASSUME WorkInv
    PROVE  wanted \in BOOLEAN /\ running \in BOOLEAN /\ unseen \in SUBSET Walks /\ left \in [Walks -> 0..MaxFiles]
BY DEF WorkInv, WorkTypeOK

LEMMA StartsKeep ==
    ASSUME WorkInv, NEW r \in Walks, StartWalking(r) \/ Contend(r)
    PROVE  WorkInv'
<1>1. /\ request[r] \in {"wished", "contending"} /\ ~Walking(r)
      /\ UNCHANGED <<queueVars, wanted, unseen, left, wave>>
  BY DEF StartWalking, Contend, Walking
<1>2. \/ ~running /\ running' = TRUE /\ Moves(r, "looping")
      \/ running /\ running' = running /\ Moves(r, "done")
  BY DEF StartWalking, Contend, NoneRunning, WorkInv, WorkTypeOK
<1>3. FlagTellsOfWalk' /\ OneWalk'
  BY <1>1, <1>2, WalkerStarts, BystanderStays
<1> QED
  BY <1>1, <1>2, <1>3, TypesOfWalks, RequestKeeps

LEMMA StopsKeep ==
    ASSUME WorkInv, NEW r \in Walks, StopWalking(r)
    PROVE  WorkInv'
<1>1. /\ request[r] = "stopping" /\ Walking(r) /\ Moves(r, "rechecking") /\ running' = FALSE
      /\ UNCHANGED <<queueVars, wanted, unseen, left, wave>>
  BY DEF StopWalking, Walking
<1>2. \A q \in Walks : ~Walking(q)'
  <2>1. \A q \in Walks : Walking(q) => q = r
    BY <1>1 DEF WorkInv, OneWalk
  <2> QED
    BY <1>1, <2>1 DEF Walking, Moves, WorkInv, WorkTypeOK
<1>3. FlagTellsOfWalk' /\ OneWalk'
  BY <1>1, <1>2 DEF FlagTellsOfWalk, OneWalk
<1> QED
  BY <1>1, <1>3, TypesOfWalks, RequestKeeps

LEMMA GoesOnKeeps ==
    ASSUME WorkInv, NEW r \in Walks, TakeWish(r) \/ ListFiles(r) \/ SweepStore(r)
    PROVE  WorkInv'
<1>1. /\ Walking(r) /\ request[r] # "walking" /\ UNCHANGED <<queueVars, running, wave>>
      /\ wanted' \in BOOLEAN /\ unseen' \in SUBSET Walks
  BY TypesOfWalks DEF TakeWish, ListFiles, SweepStore, Walking
<1>2. left' \in [Walks -> 0..MaxFiles] /\ \A q \in Walks : q # r => left'[q] = left[q]
  BY TypesOfWalks DEF TakeWish, ListFiles, SweepStore
<1>3. PICK at \in {"looping", "listing", "stopping", "counting", "sweeping"} : Moves(r, at)
  BY DEF TakeWish, ListFiles, SweepStore
<1>4. FlagTellsOfWalk' /\ OneWalk'
  BY <1>1, <1>3, WalkerStays
<1> QED
  BY <1>1, <1>2, <1>3, <1>4, TypesOfWalks, RequestKeeps

LEMMA RecheckKeeps ==
    ASSUME WorkInv, NEW r \in Walks, Recheck(r)
    PROVE  WorkInv'
<1>1. /\ request[r] = "rechecking" /\ ~Walking(r)
      /\ UNCHANGED <<queueVars, wanted, running, unseen, left, wave>>
  BY DEF Recheck, Walking
<1>2. PICK at \in {"done", "contending"} : Moves(r, at)
  BY DEF Recheck
<1>3. FlagTellsOfWalk' /\ OneWalk'
  BY <1>1, <1>2, BystanderStays
<1> QED
  BY <1>1, <1>2, <1>3, TypesOfWalks, RequestKeeps

-----------------------------------------------------------------------------
LEMMA WorkStepHolds == WorkInv /\ [WorkNext]_workVars => WorkInv'
<1> SUFFICES ASSUME WorkInv, [WorkNext]_workVars PROVE WorkInv'
  OBVIOUS
<1>1. ASSUME NEW u \in Uploads, QueuePreviews(u)
      PROVE  WorkInv'
  BY <1>1, CountsKeeps, PushesKeeps DEF QueuePreviews
<1>2. ASSUME NEW w \in Workers, WorkerGoes(w)
      PROVE  WorkInv'
  BY <1>2, WorkerGoesKeeps
<1>3. ASSUME NEW r \in Walks, Wish(r) \/ WalkGoes(r)
      PROVE  WorkInv'
  BY <1>3, WishKeeps, StartsKeep, GoesOnKeeps, CountFilesKeeps, WalkFileKeeps, StopsKeep, RecheckKeeps
     DEF WalkGoes
<1>4. CASE Stop
  <2>1. down' = TRUE /\ UNCHANGED <<queueVars, walkVars, total, done>>
    BY <1>4 DEF Stop
  <2>2. WorkTypeOK'
    BY <2>1 DEF WorkInv, WorkTypeOK, queueVars, walkVars
  <2>3. FlagTellsOfWalk' /\ OneWalk'
    BY <2>1, WalkStays DEF walkVars
  <2>4. WaveIsExact'
    BY <2>1 DEF WorkInv, WaveIsExact, Outstanding, queueVars, walkVars
  <2>5. NobodySleepsOnWork'
    BY <2>1 DEF NobodySleepsOnWork
  <2> QED
    BY <2>2, <2>3, <2>4, <2>5 DEF WorkInv
<1>5. CASE UNCHANGED workVars
  BY <1>5 DEF workVars, WorkInv, WorkTypeOK, FlagTellsOfWalk, OneWalk, Walking, WaveIsExact, Outstanding, NobodySleepsOnWork
<1> QED
  BY <1>1, <1>2, <1>3, <1>4, <1>5 DEF WorkNext

(* No free worker is left sleeping beside a picture, the progress bar      *)
(* counts exactly what is left to do, and one walk runs at most: signals   *)
(* that are dropped on a full channel, waves that end and begin, and the   *)
(* two flags of the walk cost nothing.                                     *)
THEOREM WorkIsSharedExactly == WorkSpec => []WorkIsSharedOut
<1>1. WorkInv => WorkIsSharedOut
  BY DEF WorkInv, WorkIsSharedOut
<1> QED
  BY WorkInitHolds, WorkStepHolds, <1>1, PTL DEF WorkSpec
=============================================================================
