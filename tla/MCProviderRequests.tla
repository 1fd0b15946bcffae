------------------------- MODULE MCProviderRequests -------------------------
(* Small instances of ProviderRequests: each journey makes one encounter.  *)
EXTENDS ProviderRequests, TLC

CONSTANTS r1, r2, r3, k1, k2

W(kind, key) == <<[kind |-> kind, key |-> key]>>
Journey(a, b, c, leaves, expiries, hours, restarts) ==
  [todo |-> (r1 :> a) @@ (r2 :> b) @@ (r3 :> c),
   left |-> [leaves |-> leaves, expiries |-> expiries, minutes |-> hours, hours |-> hours,
             restarts |-> restarts]]

(* Two readers of one leg, one of whom may leave; a forced calculation     *)
(* against an ordinary one, and against the alternatives of the same leg   *)
(* and then of another, with one place in the memo.                        *)
LegJourneys ==
  { Journey(W("calculate", k1), W("calculate", k1), <<>>, 1, 0, 0, 0),
    Journey(W("recalculate", k1), W("calculate", k1), <<>>, 1, 0, 0, 0),
    Journey(W("recalculate", k1), W("alternatives", k1) \o W("alternatives", k2), <<>>, 0, 1, 0, 0) }

(* Three readers of one link: a newcomer while the last reader leaves.     *)
LinkJourneys == { Journey(W("link", k1), W("link", k1), W("link", k1), 2, 0, 0, 0) }

(* Three tiles for one slot.                                               *)
TileJourneys == { Journey(W("tile", k1), W("tile", k2), W("tile", k1), 1, 0, 0, 0) }

(* Three searches, of which two are allowed a day: at once, over a change  *)
(* of the hour, and over a restart.                                        *)
LimitJourneys ==
  { Journey(W("search", k1), W("search", k2), W("search", k1), 0, 0, 0, 0),
    Journey(W("search", k1) \o W("search", k2), W("search", k1), <<>>, 0, 0, 1, 0),
    Journey(W("search", k1), W("search", k2), <<>>, 0, 0, 0, 1) }

MCJourneys == LegJourneys \cup LinkJourneys \cup TileJourneys \cup LimitJourneys
=============================================================================
