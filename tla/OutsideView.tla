------------------------------ MODULE OutsideView ------------------------------
(* A trip as somebody from outside sees it (domain/privacy.go and             *)
(* DocumentContent.ForShareLink): nothing that lies in a circle around the    *)
(* home of somebody on the trip, and nothing of what is the travellers' own   *)
(* business. The map is a line: a point is a number, a circle its centre and  *)
(* its radius. What is left of a list keeps the positions it had there.       *)
EXTENDS Integers, FiniteSets

CONSTANTS None, MinHomeRadiusM, MaxHomeRadiusM

greatCircle(a, b) == IF a < b THEN b - a ELSE a - b

\* The circles a home may get: the centre is moved off the door.
NewHomeZone(home, radius) ==
  {[home |-> home, center |-> home + moved, radius |-> radius] : moved \in -(radius \div 2)..(radius \div 2)}

ValidHome(home, radius) == radius \in MinHomeRadiusM..MaxHomeRadiusM

InZone(zones, point) == \E z \in zones : greatCircle(z.center, point) <= z.radius
Hides(zones, point) == point # None /\ InZone(zones, point)

points(zones, line) == [k \in {k \in DOMAIN line : ~InZone(zones, line[k])} |-> line[k]]

\* A line of a single point is no line.
Line(zones, line) ==
  LET kept == points(zones, line)
  IN IF DOMAIN kept # DOMAIN line /\ Cardinality(DOMAIN kept) < 2 THEN <<>> ELSE kept

Media(zones, picture) == IF Hides(zones, picture.at) THEN [picture EXCEPT !.at = None] ELSE picture

\* The earlier one, of two that are as near.
Nearest(line, point) ==
  LET near(k, o) == greatCircle(line[k], point) <= greatCircle(line[o], point)
      nearest == {k \in DOMAIN line : \A o \in DOMAIN line : near(k, o)}
  IN line[CHOOSE k \in nearest : \A o \in nearest : k <= o]

\* A hidden stop moves to the nearest point of its line still shown.
stops(zones, list, line) ==
  LET hidden(s) == InZone(zones, s.at)
      shown == {k \in DOMAIN list : hidden(list[k]) => DOMAIN line # {}}
  IN [k \in shown |-> IF hidden(list[k]) THEN [list[k] EXCEPT !.at = Nearest(line, list[k].at)] ELSE list[k]]

Place(zones, place) == IF Hides(zones, place.at) THEN [place EXCEPT !.at = None, !.address = ""] ELSE place

Transfer(zones, transfer) ==
  [transfer EXCEPT !.from = IF Hides(zones, @) THEN None ELSE @, !.to = IF Hides(zones, @) THEN None ELSE @]

Leg(zones, leg) ==
  [leg EXCEPT !.line = Line(zones, @), !.via = points(zones, @), !.change = IF Hides(zones, @) THEN None ELSE @]

Track(zones, track) ==
  [track EXCEPT !.line = Line(zones, @), !.stops = stops(zones, @, Line(zones, track.line))]

Outside(doc, zones) ==
  [places |-> [k \in DOMAIN doc.places |-> Place(zones, doc.places[k])],
   transfers |-> [k \in DOMAIN doc.transfers |-> Transfer(zones, doc.transfers[k])],
   legs |-> [k \in DOMAIN doc.legs |-> Leg(zones, doc.legs[k])],
   tracks |-> [k \in DOMAIN doc.tracks |-> Track(zones, doc.tracks[k])]]

Unpaid(list) == [k \in DOMAIN list |-> [list[k] EXCEPT !.payer = None]]
Unbooked(list) == [k \in DOMAIN list |-> [list[k] EXCEPT !.booking = ""]]

\* Neither bookings nor who pays.
ForShareLink(doc) ==
  [doc EXCEPT !.places = Unpaid(Unbooked(@)), !.transfers = Unbooked(@),
              !.tracks = [k \in DOMAIN doc.tracks |-> [doc.tracks[k] EXCEPT !.stops = Unpaid(@)]]]

\* The form a document is stored in.
Document(doc) ==
  /\ DOMAIN doc = {"places", "transfers", "legs", "tracks"}
  /\ \A k \in DOMAIN doc.places : DOMAIN doc.places[k] = {"at", "address", "booking", "payer"}
  /\ \A k \in DOMAIN doc.transfers : DOMAIN doc.transfers[k] = {"from", "to", "booking"}
  /\ \A k \in DOMAIN doc.legs : DOMAIN doc.legs[k] = {"line", "via", "change"}
  /\ \A k \in DOMAIN doc.tracks :
       LET line == doc.tracks[k].line  list == doc.tracks[k].stops
       IN /\ DOMAIN doc.tracks[k] = {"line", "stops"}
          /\ DOMAIN line \subseteq Nat /\ \A p \in DOMAIN line : line[p] \in Int
          /\ \A o \in DOMAIN list : DOMAIN list[o] = {"at", "payer"} /\ list[o].at \in Int

Items(list) == {list[k] : k \in DOMAIN list}

\* Every point a page names.
PointsShown(doc) ==
  {p.at : p \in Items(doc.places)} \cup (UNION {{t.from, t.to} : t \in Items(doc.transfers)})
  \cup (UNION {Items(l.line) \cup Items(l.via) \cup {l.change} : l \in Items(doc.legs)})
  \cup (UNION {Items(t.line) \cup {s.at : s \in Items(t.stops)} : t \in Items(doc.tracks)})

\* What the travellers keep to themselves.
Private(doc) ==
  {p.payer : p \in Items(doc.places)} \cup (UNION {{s.payer : s \in Items(t.stops)} : t \in Items(doc.tracks)})
  \cup {p.booking : p \in Items(doc.places) \cup Items(doc.transfers)}
===============================================================================
