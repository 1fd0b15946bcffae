------------------------------ MODULE Previews ------------------------------
(***************************************************************************)
(* Previews of stored pictures: rendering one at a time per file for       *)
(* whoever asks (previewsFor), a bounded number at once, keeping what was  *)
(* rendered (keepPreviews), and a deletion of the file at any moment.      *)
(***************************************************************************)
EXTENDS Naturals, FiniteSets

CONSTANTS
    Keys,           \* storage keys of pictures
    Widths,         \* preview widths each is rendered at
    Readers,        \* requests and background workers that want previews
    Slots,          \* cap(s.thumbnails): renderings allowed at once
    Deletable,      \* keys whose picture is deleted in this instance
    MaxTroubles,    \* bound: readers who go away, previews that cannot be
                    \* stored and originals that cannot be opened, all told
    Troubles        \* the kinds of them that happen

ASSUME PreviewsAssumption ==
    /\ Slots \in Nat \ {0}
    /\ Widths # {}
    /\ Deletable \subseteq Keys
    /\ MaxTroubles \in Nat /\ Troubles \subseteq {"cancel", "put", "open"}

VARIABLES
    rows,       \* keys the catalogue names
    originals,  \* keys whose original is in the store
    kept,       \* previews in the store, <<key, width>>
    renders,    \* s.renders: the reader rendering each key, or "none"
    reader,     \* what each reader is doing
    deleting,   \* what the deletion of each key has still to remove
    troubles    \* what the bound counts

store == <<rows, originals, kept>>
vars == <<rows, originals, kept, renders, reader, deleting, troubles>>

Idle == [at |-> "idle"]

(* todo: the widths left to store or to remove; of: whose rendering it     *)
(* waits for; result: how its own rendering, or that one, ended; gone: its *)
(* context is over.                                                        *)
Start(k) == [at |-> "asking", key |-> k, todo |-> {}, of |-> "none",
             result |-> "none", gone |-> FALSE]

NotDeleted == [at |-> "no", todo |-> {}]

Init ==
    /\ rows = Keys /\ originals = Keys
    /\ kept = {}
    /\ renders = [k \in Keys |-> "none"]
    /\ reader = [p \in Readers |-> Idle]
    /\ deleting = [k \in Keys |-> NotDeleted]
    /\ troubles = 0

Is(p, at) == reader[p].at = at

InSlot == {p \in Readers : reader[p].at \in {"reading", "storing", "clearing"}}

Happens(trouble) ==
    /\ trouble \in Troubles
    /\ troubles < MaxTroubles /\ troubles' = troubles + 1

Calm == UNCHANGED troubles

-----------------------------------------------------------------------------
(* A gallery or the background has read the row and wants the previews.    *)
Ask(p) ==
    /\ Is(p, "idle")
    /\ \E k \in rows : reader' = [reader EXCEPT ![p] = Start(k)]
    /\ UNCHANGED <<store, renders, deleting, troubles>>

RendersItself(p) ==
    /\ renders' = [renders EXCEPT ![reader[p].key] = p]
    /\ reader' = [reader EXCEPT ![p].at = "queueing"]

(* Under rendersMu: start a rendering, or wait for the one in flight.      *)
PreviewsFor(p) ==
    LET owner == renders[reader[p].key] IN
    /\ Is(p, "asking")
    /\ \/ owner = "none" /\ RendersItself(p)
       \/ /\ owner # "none"
          /\ reader' = [reader EXCEPT ![p].at = "following", ![p].of = owner]
          /\ UNCHANGED renders
    /\ UNCHANGED <<store, deleting, troubles>>

TakesSlot(p) ==
    /\ Is(p, "queueing")
    /\ \/ /\ Cardinality(InSlot) < Slots
          /\ reader' = [reader EXCEPT ![p].at = "reading"]
       \/ /\ reader[p].gone
          /\ reader' = [reader EXCEPT ![p].at = "ending", ![p].result = "cancelled"]
    /\ UNCHANGED <<store, renders, deleting, troubles>>

Ends(p, result) == reader' = [reader EXCEPT ![p].at = "ending", ![p].result = result]

(* decodePreviews: the original is read whole, then decoded.               *)
Decode(p) ==
    /\ Is(p, "reading")
    /\ \/ /\ Calm /\ reader[p].key \in originals
          /\ \/ reader' = [reader EXCEPT ![p].at = "storing", ![p].todo = Widths, ![p].result = "ok"]
             \/ Ends(p, "undecodable")
       \/ Calm /\ reader[p].key \notin originals /\ Ends(p, "missing")
       \/ Happens("open") /\ Ends(p, "error")
    /\ UNCHANGED <<store, renders, deleting>>

(* keepPreviews, one width after another: what cannot be stored, or is     *)
(* refused because the reader went away, is only logged.                   *)
StorePreview(p) ==
    /\ Is(p, "storing")
    /\ reader[p].todo # {}
    /\ \E w \in reader[p].todo :
        /\ reader' = [reader EXCEPT ![p].todo = @ \ {w}]
        /\ \/ ~reader[p].gone /\ kept' = kept \cup {<<reader[p].key, w>>} /\ Calm
           \/ reader[p].gone /\ UNCHANGED kept /\ Calm
           \/ Happens("put") /\ UNCHANGED kept
    /\ UNCHANGED <<rows, originals, renders, deleting>>

LeavesPreviews(p) == Ends(p, "ok") /\ UNCHANGED originals

(* The original is gone: DeleteWithPreviews, the original first.           *)
Clears(p) ==
    /\ originals' = originals \ {reader[p].key}
    /\ reader' = [reader EXCEPT ![p].at = "clearing", ![p].todo = Widths]

(* The original is opened once more, now that the previews are in place.   *)
CheckOriginal(p) ==
    /\ Is(p, "storing") /\ reader[p].todo = {}
    /\ \/ /\ Calm /\ reader[p].key \in originals
          /\ Ends(p, "ok") /\ UNCHANGED originals
       \/ Calm /\ reader[p].key \notin originals /\ Clears(p)
       \/ Happens("open") /\ Clears(p)
    /\ UNCHANGED <<rows, kept, renders, deleting>>

ClearPreview(p) ==
    /\ Is(p, "clearing")
    /\ \/ \E w \in reader[p].todo :
            /\ kept' = kept \ {<<reader[p].key, w>>}
            /\ reader' = [reader EXCEPT ![p].todo = @ \ {w}]
       \/ reader[p].todo = {} /\ Ends(p, reader[p].result) /\ UNCHANGED kept
    /\ UNCHANGED <<rows, originals, renders, deleting, troubles>>

Removed(k) == renders' = [renders EXCEPT ![k] = "none"]

(* delete(s.renders, key), then close(done), which wakes every follower.   *)
Unregister(p) ==
    /\ Is(p, "ending")
    /\ Removed(reader[p].key)
    /\ reader' = [reader EXCEPT ![p].at = "closing"]
    /\ UNCHANGED <<store, deleting, troubles>>

WakesNobody(p) == {}

Followers(p) == {q \in Readers : Is(q, "following") /\ reader[q].of = p}

Close(p) ==
    /\ Is(p, "closing")
    /\ reader' = [q \in Readers |->
            IF q = p THEN [reader[p] EXCEPT !.at = "answered"]
            ELSE IF q \in Followers(p)
                 THEN [reader[q] EXCEPT !.at = "woken", !.of = "none", !.result = reader[p].result]
                 ELSE reader[q]]
    /\ UNCHANGED <<store, renders, deleting, troubles>>

(* A rendering called off with the one who started it is begun again.      *)
Retries(p) ==
    IF reader[p].result = "cancelled" /\ ~reader[p].gone
    THEN reader' = [reader EXCEPT ![p].at = "asking", ![p].result = "none"]
    ELSE reader' = [reader EXCEPT ![p].at = "answered"]

Woken(p) ==
    /\ Is(p, "woken")
    /\ Retries(p)
    /\ UNCHANGED <<store, renders, deleting, troubles>>

(* The select may see the reader's own context over first.                 *)
StopsFollowing(p) ==
    /\ reader[p].at \in {"following", "woken"} /\ reader[p].gone
    /\ reader' = [reader EXCEPT ![p].at = "answered", ![p].result = "cancelled"]
    /\ UNCHANGED <<store, renders, deleting, troubles>>

Leave(p) ==
    /\ Is(p, "answered")
    /\ reader' = [reader EXCEPT ![p] = Idle]
    /\ UNCHANGED <<store, renders, deleting, troubles>>

(* A client goes away, or a restore calls the work off.                    *)
Cancel(p) ==
    /\ ~Is(p, "idle") /\ ~reader[p].gone
    /\ Happens("cancel")
    /\ reader' = [reader EXCEPT ![p].gone = TRUE]
    /\ UNCHANGED <<store, renders, deleting>>

-----------------------------------------------------------------------------
(* handleDeleteMedia: the row, then the original, then each preview.       *)
DeleteRow(k) ==
    /\ k \in rows \cap Deletable
    /\ rows' = rows \ {k}
    /\ deleting' = [deleting EXCEPT ![k] = [at |-> "original", todo |-> Widths]]
    /\ UNCHANGED <<originals, kept, renders, reader, troubles>>

DeleteOriginal(k) ==
    /\ deleting[k].at = "original"
    /\ originals' = originals \ {k}
    /\ deleting' = [deleting EXCEPT ![k].at = "previews"]
    /\ UNCHANGED <<rows, kept, renders, reader, troubles>>

DeletePreview(k) ==
    /\ deleting[k].at = "previews"
    /\ \/ \E w \in deleting[k].todo :
            /\ kept' = kept \ {<<k, w>>}
            /\ deleting' = [deleting EXCEPT ![k].todo = @ \ {w}]
       \/ /\ deleting[k].todo = {}
          /\ deleting' = [deleting EXCEPT ![k].at = "done"]
          /\ UNCHANGED kept
    /\ UNCHANGED <<rows, originals, renders, reader, troubles>>

Goes(p) ==
    \/ PreviewsFor(p) \/ TakesSlot(p) \/ Decode(p) \/ StorePreview(p) \/ CheckOriginal(p)
    \/ ClearPreview(p) \/ Unregister(p) \/ Close(p) \/ Woken(p) \/ StopsFollowing(p) \/ Leave(p)

Deletes(k) == DeleteOriginal(k) \/ DeletePreview(k)

Next ==
    \/ \E p \in Readers : Ask(p) \/ Goes(p) \/ Cancel(p)
    \/ \E k \in Keys : DeleteRow(k) \/ Deletes(k)

Spec == Init /\ [][Next]_vars

(* Every goroutine goes on; a free slot goes to each waiting rendering in  *)
(* turn, because a channel queues its senders.                             *)
FairSpec ==
    /\ Spec
    /\ \A p \in Readers : WF_vars(Goes(p)) /\ SF_vars(TakesSlot(p))
    /\ \A k \in Keys : WF_vars(Deletes(k))

-----------------------------------------------------------------------------
(* Those with a rendering of their own under way.                          *)
Rendering == {p \in Readers : reader[p].at \in
                 {"queueing", "reading", "storing", "clearing", "ending"}}

(* Whichever of a deletion and a rendering ends last, no preview outlives  *)
(* the picture it was made of.                                             *)
NoOrphanPreview ==
    \A k \in Keys :
        deleting[k].at = "done" /\ (\A p \in Rendering : reader[p].key # k)
            => \A w \in Widths : <<k, w>> \notin kept

(* Everybody who asks is answered, however the others come and go, and     *)
(* nobody is told that the work was called off but those who called it off *)
(* themselves.                                                             *)
EverybodyIsAnswered ==
    \A p \in Readers :
        /\ Is(p, "asking") ~> Is(p, "answered")
        /\ [](Is(p, "answered") /\ reader[p].result = "cancelled" => reader[p].gone)
=============================================================================
