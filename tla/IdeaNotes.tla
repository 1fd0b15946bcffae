------------------------------- MODULE IdeaNotes -------------------------------
(* An idea as it is written down (domain/idea.go): what a form may hold, the  *)
(* form it is kept in, and what the whole trip may cost. Texts are words that *)
(* are already trimmed, countries and modes are codes, a point is a number.   *)
EXTENDS Integers, Sequences, FiniteSets, TLC
LOCAL INSTANCE SequencesExt
LOCAL INSTANCE FiniteSetsExt

CONSTANTS
  None,
  Countries,        \* the codes that look like a country's
  TravelModes,      \* the ways of travelling, in the order they are offered
  MaxIdeaDays, MaxIdeaPlaces, MaxIdeaCountries, MaxIdeaTransports, MaxMixedModes, MaxTransportMinutes

Within(n, most) == n = None \/ n \in 1..most

\* A place that says nothing is dropped.
normalizeIdeaPlaces(places) == SelectSeq(places, LAMBDA p : p.name # "" \/ p.at # None)

\* Repeats are dropped, the main country stays first.
normalizeCountries(countries) ==
  FoldLeft(LAMBDA kept, c : IF c \in ToSet(kept) THEN kept ELSE Append(kept, c), <<>>, countries)

normalizeMonths(months) == SetToSortSeq(ToSet(months), <)

validateIdeaDays(least, most, ideal) ==
  /\ \A days \in {least, most, ideal} : Within(days, MaxIdeaDays)
  /\ least # None /\ most # None => least <= most
  /\ ideal # None => /\ least # None => least <= ideal
                     /\ most # None => ideal <= most

\* Each way of travelling once, in the order they are offered.
Modes(transport) == SelectSeq(TravelModes, LAMBDA mode : mode \in ToSet(transport.modes))

AllowedTransport(transport) ==
  /\ ToSet(transport.modes) \subseteq ToSet(TravelModes)
  /\ Len(Modes(transport)) \in 1..MaxMixedModes
  /\ Within(transport.minutes, MaxTransportMinutes)

normalizeIdeaTransports(transports) == [k \in DOMAIN transports |-> [transports[k] EXCEPT !.modes = Modes(transports[k])]]

Allowed(idea) ==
  /\ idea.title # ""
  /\ Len(normalizeIdeaPlaces(idea.places)) <= MaxIdeaPlaces
  /\ ToSet(idea.countries) \subseteq Countries
  /\ Len(normalizeCountries(idea.countries)) <= MaxIdeaCountries
  /\ ToSet(idea.months) \subseteq 1..12
  /\ validateIdeaDays(idea.least, idea.most, idea.ideal)
  /\ idea.visa \in {"", "unknown", "not_needed", "needed", "on_arrival"}
  /\ Len(idea.transports) <= MaxIdeaTransports
  /\ \A k \in DOMAIN idea.transports : AllowedTransport(idea.transports[k])

\* The idea as it is kept, None for one that is refused.
Normalize(idea) ==
  IF ~Allowed(idea) THEN None
  ELSE [idea EXCEPT !.places = normalizeIdeaPlaces(@), !.countries = normalizeCountries(@),
                    !.months = normalizeMonths(@), !.transports = normalizeIdeaTransports(@),
                    !.visa = IF @ = "" THEN "not_needed" ELSE @]

Fares(idea) == {t.cost : t \in ToSet(idea.transports)} \ {None}

\* The cheapest and the dearest way of getting there among the priced ones.
TransportRange(idea) == IF Fares(idea) = {} THEN <<None, None>> ELSE <<Min(Fares(idea)), Max(Fares(idea))>>

Base(idea) ==
  LET parts == SelectSeq(<<idea.stay, idea.food, idea.other>>, LAMBDA part : part # None)
  IN IF parts = <<>> THEN None ELSE FoldLeft(+, 0, parts)

Plus(x, y) == IF x = None THEN y ELSE IF y = None THEN x ELSE x + y

\* The whole trip costs somewhere between the two.
TotalRange(idea) == [k \in 1..2 |-> Plus(Base(idea), TransportRange(idea)[k])]
===============================================================================
