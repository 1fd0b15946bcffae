------------------------- MODULE MediaGallery_proofs -------------------------
(* Proofs about the media library and its galleries, for every allowance,   *)
(* every number of requests and every scene the schema allows.              *)
(* LibraryInv says why the bytes of a picture are there: a request's keys   *)
(* are nobody else's until its row is made (NamesApart), its file is stored *)
(* before that and young (FilesFirst), files are only removed behind their  *)
(* rows (RowsGoFirst), and what a sweep has found was old and unnamed when  *)
(* it began (SweepKnows).  GalleryInv adds what a transaction on a gallery  *)
(* holds and has read: the rows it locks are its own (HeldApart), and what  *)
(* it read stays true while nobody else works on a gallery (Alone).         *)
EXTENDS MediaGallery, FiniteSetTheorems, WellFoundedInduction, TLAPS
Steps ==
  {"new", "part", "reserve", "put", "create", "undo", "files", "delete", "rendered", "done", "refused", "failed",
   "links", "clear", "clearing", "insert", "favorites", "mark", "marking", "count", "commit"}

TypeOf ==
  [req |-> Requests, step |-> Steps, quota |-> Nat, used |-> Nat, previous |-> Nat,
   keys |-> SUBSET StoreKeys, seen |-> SUBSET LinkRows, rows |-> SUBSET LinkRows, marked |-> SUBSET STRING]

Tasks ==
  [req : Requests, step : Steps, quota : Nat, used : Nat, previous : Nat, keys : SUBSET StoreKeys,
   seen : SUBSET LinkRows, rows : SUBSET LinkRows, marked : SUBSET STRING]

TypeOK ==
  /\ db \in Rows /\ IsFiniteSet(db.media) /\ IsFiniteSet(db.attached) /\ IsFiniteSet(db.photos)
  /\ files \in [Keys -> Objects \cup {None}] /\ Keys \subseteq StoreKeys /\ IsFiniteSet(Keys)
  /\ AvatarKey \in Keys
  /\ task \in [Clients -> Tasks]
  /\ sweep \in [step : {"idle", "others", "walk", "remove"}, named : SUBSET StoreKeys, found : SUBSET StoreKeys]
  /\ past \in [doubtful : SUBSET (STRING \cup {None}), stale : BOOLEAN, overlapped : BOOLEAN,
               shown : [Targets -> (SUBSET STRING) \cup {None}]]

(* The keys of the pictures of the trip and of the photos of the idea.     *)
Named(d) == MediaKeys(d) \cup PhotosKeys(d)

(* The keys a request may still make rows for, and those of them that it   *)
(* has stored a file under.                                                *)
Unsent == {"new", "part", "reserve", "put", "create"}
Coming(c) == IF task[c].step \in Unsent THEN Brings(Req(c)) ELSE {}
Placed(c) ==
  IF Req(c).op \notin {"upload", "photo"} THEN {}
  ELSE IF task[c].step = "create" THEN NewKeys(c)
  ELSE IF task[c].step = "put" THEN NewKeys(c) \ task[c].keys ELSE {}
Doomed(c) == IF task[c].step \in {"delete", "files", "undo", "rendered"} THEN task[c].keys ELSE {}
Removing(c) == IF task[c].step \in {"files", "undo"} THEN task[c].keys ELSE {}

Aged(k) == Held(k) /\ files[k].old

NamesApart ==
  /\ MediaKeys(db) \cap PhotosKeys(db) = {} /\ Named(db) \subseteq Keys \ {AvatarKey}
  /\ \A c \in Clients :
       /\ Coming(c) \subseteq Keys \ {AvatarKey}
       /\ Coming(c) \cap (Named(db) \cup sweep.found) = {}
       /\ \A b \in Clients : Coming(c) \cap Doomed(b) = {}
       /\ \A b \in Clients \ {c} : Coming(c) \cap Coming(b) = {}

Grows == {"upload", "attach", "track", "report", "setAvatar", "photo"}

RequestsFit ==
  \A c \in Clients :
    /\ Req(c).op = "upload" =>
         /\ \A i, j \in DOMAIN Req(c).parts : Req(c).parts[i].id = Req(c).parts[j].id => i = j
         /\ task[c].step \in {"reserve", "put", "create"} => Req(c).parts # <<>>
    /\ task[c].step \in {"reserve", "put", "create"} => Req(c).op \in Grows

(* What a request has stored is there and young, and nothing else of it is. *)
FilesFirst ==
  \A c \in Clients :
    /\ \A k \in Coming(c) \cap Placed(c) : Held(k) /\ ~files[k].old
    /\ \A k \in Coming(c) \ Placed(c) : ~Held(k)
    /\ task[c].step = "put" => task[c].keys \subseteq NewKeys(c)

(* Files are only removed once their rows are gone, or in doubt.           *)
RowsGoFirst ==
  \A c \in Clients : \A k \in Removing(c) \cap Named(db) : k[1] \in past.doubtful

\* A trip is left with the files of pictures, none of a photo.
TripsListPictures ==
  \A c \in Clients : At(c, "deleteTrip", "delete") => task[c].keys \cap PhotosKeys(db) = {}

SweepKnows ==
  /\ sweep.step \in {"others", "walk"} => \A k \in MediaKeys(db) \ sweep.named : ~Aged(k)
  /\ sweep.step = "walk" => \A k \in PhotosKeys(db) \ sweep.named : ~Aged(k)
  /\ sweep.found \cap Named(db) = {}

(* A link shows a picture of the trip, also while its row is held.         *)
LinksShowPictures == \A l \in db.links \cup LockedRows : l.media \in MediaIds

RowsHaveBytes ==
  /\ \A m \in db.media : m.id \notin past.doubtful => Held(Key(m.id, "file"))
  /\ \A p \in db.photos : p \notin past.doubtful => \A k \in PhotoKeys(p) : Held(k)

LibraryInv ==
  /\ TypeOK /\ NamesApart /\ RequestsFit /\ FilesFirst /\ RowsGoFirst /\ TripsListPictures
  /\ SweepKnows /\ LinksShowPictures /\ RowsHaveBytes /\ NoCopies
-----------------------------------------------------------------------------
(* Sums of bytes                                                           *)

(* A sum of counts is the number of what is counted: one pair for each.    *)
Counted(f, hs) == UNION {{h} \X (1..f[h]) : h \in hs}

Amounts(f, hs) == \A h \in hs : f[h] \in Nat

LEMMA InCounted ==
  ASSUME NEW f, NEW hs, NEW p
  PROVE  p \in Counted(f, hs) <=> \E h \in hs : p[1] = h /\ p[2] \in 1..f[h] /\ p = <<h, p[2]>>
BY DEF Counted

LEMMA CountedIsFinite ==
  ASSUME NEW hs, IsFiniteSet(hs), NEW f, Amounts(f, hs)
  PROVE  IsFiniteSet(Counted(f, hs))
<1> DEFINE Part(h) == {h} \X (1..f[h])
           parts == {Part(h) : h \in hs}
           part == [h \in hs |-> Part(h)]
<1>1. ASSUME NEW h \in hs PROVE IsFiniteSet(Part(h))
  <2>1. f[h] \in Nat
    BY DEF Amounts
  <2>2. IsFiniteSet(1..f[h])
    BY <2>1, FS_Interval
  <2>3. IsFiniteSet({h})
    BY FS_Singleton
  <2> QED
    BY <2>2, <2>3, FS_Product
<1>2. part \in Surjection(hs, parts)
  BY DEF Surjection
<1>3. IsFiniteSet(parts)
  BY <1>2, FS_Surjection
<1>4. \A part_ \in parts : IsFiniteSet(part_)
  BY <1>1
<1> HIDE DEF parts
<1>5. IsFiniteSet(UNION parts)
  BY <1>3, <1>4, FS_UNION
<1> QED
  BY <1>5 DEF parts, Counted

LEMMA CountedSplits ==
  ASSUME NEW hs, IsFiniteSet(hs), NEW f, Amounts(f, hs), NEW x \in hs
  PROVE  Cardinality(Counted(f, hs)) = f[x] + Cardinality(Counted(f, hs \ {x}))
<1> DEFINE one == {x} \X (1..f[x])
           rest == Counted(f, hs \ {x})
<1>1. f[x] \in Nat /\ Amounts(f, hs \ {x})
  BY DEF Amounts
<1>2. IsFiniteSet(hs \ {x})
  BY FS_RemoveElement
<1>3. IsFiniteSet(rest) /\ Cardinality(rest) \in Nat
  BY <1>1, <1>2, CountedIsFinite, FS_CardinalityType
<1>4. IsFiniteSet(1..f[x]) /\ Cardinality(1..f[x]) = f[x]
  <2>1. ASSUME NEW n \in Nat PROVE IsFiniteSet(1..n) /\ Cardinality(1..n) = n
    <3>1. /\ IsFiniteSet(1..n)
          /\ Cardinality(1..n) = IF 1 > n THEN 0 ELSE n - 1 + 1
      BY FS_Interval
    <3> QED
      BY <3>1
  <2> QED
    BY <1>1, <2>1
<1>5. IsFiniteSet({x}) /\ Cardinality({x}) = 1
  BY FS_Singleton
<1>6. IsFiniteSet(one) /\ Cardinality(one) = f[x]
  <2>1. \A S, T : IsFiniteSet(S) /\ IsFiniteSet(T) =>
            IsFiniteSet(S \X T) /\ Cardinality(S \X T) = Cardinality(S) * Cardinality(T)
    BY FS_Product
  <2>2. IsFiniteSet(one) /\ Cardinality(one) = Cardinality({x}) * Cardinality(1..f[x])
    BY <1>4, <1>5, <2>1
  <2>3. Cardinality({x}) * Cardinality(1..f[x]) = f[x]
    BY <1>1, <1>4, <1>5
  <2> QED
    BY <2>2, <2>3
<1>7. Counted(f, hs) = one \cup rest /\ one \cap rest = {}
  BY DEF Counted
<1> HIDE DEF one, rest
<1>8. Cardinality(one \cup rest) = Cardinality(one) + Cardinality(rest) - Cardinality({})
  BY <1>3, <1>6, <1>7, FS_Union
<1> QED
  BY <1>1, <1>3, <1>6, <1>7, <1>8, FS_EmptySet DEF rest

LEMMA NothingCounted == ASSUME NEW f PROVE Counted(f, {}) = {} /\ Cardinality(Counted(f, {})) = 0
BY FS_EmptySet DEF Counted

(* What the fold of MapThenSumSet adds up, element after element.          *)
Folds(it, f, hs) ==
  it = [s \in SUBSET hs |-> IF s = {} THEN 0
                            ELSE f[CHOOSE x \in s : TRUE] + it[s \ {CHOOSE x \in s : TRUE}]]

LEMMA CountingFolds ==
  ASSUME NEW hs, IsFiniteSet(hs), NEW f, Amounts(f, hs)
  PROVE  Folds([s \in SUBSET hs |-> Cardinality(Counted(f, s))], f, hs)
<1> DEFINE it == [s \in SUBSET hs |-> Cardinality(Counted(f, s))]
           el(s) == CHOOSE x \in s : TRUE
<1>1. ASSUME NEW s \in SUBSET hs, s # {}
      PROVE  it[s] = f[el(s)] + it[s \ {el(s)}]
  <2>1. IsFiniteSet(s) /\ Amounts(f, s)
    BY FS_Subset DEF Amounts
  <2>2. el(s) \in s
    BY <1>1
  <2> HIDE DEF el
  <2>3. Cardinality(Counted(f, s)) = f[el(s)] + Cardinality(Counted(f, s \ {el(s)}))
    BY <2>1, <2>2, CountedSplits
  <2> QED
    BY <2>3
<1>2. it[{}] = 0
  BY NothingCounted
<1>3. it = [s \in SUBSET hs |-> IF s = {} THEN 0 ELSE f[el(s)] + it[s \ {el(s)}]]
  <2>1. \A s \in SUBSET hs : it[s] = IF s = {} THEN 0 ELSE f[el(s)] + it[s \ {el(s)}]
    BY <1>1, <1>2
  <2>2. it = [s \in SUBSET hs |-> it[s]]
    OBVIOUS
  <2> HIDE DEF it, el
  <2> QED
    BY <2>1, <2>2
<1> HIDE DEF it
<1>4. Folds(it, f, hs)
  BY <1>3 DEF Folds, el
<1> QED
  BY <1>4 DEF it

(* By a smallest set that it would add up wrong.                           *)
LEMMA FoldingCounts ==
  ASSUME NEW hs, IsFiniteSet(hs), NEW f, Amounts(f, hs), NEW it, Folds(it, f, hs)
  PROVE  it[hs] = Cardinality(Counted(f, hs))
<1> DEFINE R == StrictSubsetOrdering(hs)
           W == FiniteSubsetsOf(hs)
           Wrong == {s \in W : it[s] # Cardinality(Counted(f, s))}
<1>1. IsWellFoundedOn(R, W)
  BY FS_StrictSubsetOrderingWellFounded
<1>2. ASSUME Wrong # {} PROVE FALSE
  <2>1. PICK s \in Wrong : \A t \in Wrong : <<t, s>> \notin R
    <3>1. Wrong \subseteq W
      OBVIOUS
    <3> HIDE DEF R, W, Wrong
    <3> QED
      BY <1>1, <1>2, <3>1, WFMin
  <2>2. s \in SUBSET hs /\ IsFiniteSet(s) /\ Amounts(f, s)
    BY DEF FiniteSubsetsOf, Amounts
  <2>3. it[s] = IF s = {} THEN 0 ELSE f[CHOOSE x \in s : TRUE] + it[s \ {CHOOSE x \in s : TRUE}]
    BY <2>2 DEF Folds
  <2>4. s # {}
    BY <2>3, NothingCounted
  <2>5. PICK x \in s : x = CHOOSE y \in s : TRUE
    BY <2>4
  <2>6. IsFiniteSet(s \ {x}) /\ s \ {x} \in SUBSET hs
    BY <2>2, FS_RemoveElement
  <2>7. s \ {x} \in W /\ <<s \ {x}, s>> \in R
    BY <2>2, <2>6 DEF FiniteSubsetsOf, StrictSubsetOrdering
  <2>8. it[s \ {x}] = Cardinality(Counted(f, s \ {x}))
    BY <2>1, <2>7
  <2>9. Cardinality(Counted(f, s)) = f[x] + Cardinality(Counted(f, s \ {x}))
    BY <2>2, CountedSplits
  <2> QED
    BY <2>3, <2>4, <2>5, <2>8, <2>9
<1>3. hs \in W
  BY DEF FiniteSubsetsOf
<1> QED
  BY <1>2, <1>3

LEMMA SizesCount ==
  ASSUME NEW S, IsFiniteSet(S), NEW f, Amounts(f, S), \A s \in S : f[s] = s.size
  PROVE  Sizes(S) = Cardinality(Counted(f, S))
<1> DEFINE AddsSizes(it) ==
      it = [s \in SUBSET S |-> IF s = {} THEN 0
              ELSE (CHOOSE x \in s : TRUE).size + it[s \ {CHOOSE x \in s : TRUE}]]
<1>1. ASSUME NEW s \in SUBSET S, s # {}
      PROVE  f[CHOOSE x \in s : TRUE] = (CHOOSE x \in s : TRUE).size
  <2>1. PICK x \in s : x = CHOOSE y \in s : TRUE
    BY <1>1
  <2> QED
    BY <2>1
<1>2. ASSUME NEW it PROVE AddsSizes(it) <=> Folds(it, f, S)
  BY <1>1 DEF Folds
<1>3. \E it : AddsSizes(it)
  BY <1>2, CountingFolds
<1>4. \E it : AddsSizes(it) /\ Sizes(S) = it[S]
  BY <1>3 DEF Sizes, MapThenSumSet, MapThenFoldSet
<1> HIDE DEF AddsSizes
<1> QED
  BY <1>2, <1>4, FoldingCounts

(* The bytes of the files of a store.                                      *)
BytesOf(fs, S) == MapThenSumSet(LAMBDA k : IF fs[k] # None THEN fs[k].size ELSE 0, S)

LEMMA BytesCount ==
  ASSUME NEW S, IsFiniteSet(S), NEW fs, NEW f, Amounts(f, S),
         \A k \in S : f[k] = IF fs[k] # None THEN fs[k].size ELSE 0
  PROVE  BytesOf(fs, S) = Cardinality(Counted(f, S))
<1> DEFINE AddsBytes(it) ==
      it = [s \in SUBSET S |-> IF s = {} THEN 0
              ELSE (IF fs[CHOOSE x \in s : TRUE] # None THEN fs[CHOOSE x \in s : TRUE].size ELSE 0)
                   + it[s \ {CHOOSE x \in s : TRUE}]]
<1>1. ASSUME NEW s \in SUBSET S, s # {}
      PROVE  f[CHOOSE x \in s : TRUE]
               = IF fs[CHOOSE x \in s : TRUE] # None THEN fs[CHOOSE x \in s : TRUE].size ELSE 0
  <2>1. PICK x \in s : x = CHOOSE y \in s : TRUE
    BY <1>1
  <2> QED
    BY <2>1
<1>2. ASSUME NEW it PROVE AddsBytes(it) <=> Folds(it, f, S)
  BY <1>1 DEF Folds
<1>3. \E it : AddsBytes(it)
  BY <1>2, CountingFolds
<1>4. \E it : AddsBytes(it) /\ BytesOf(fs, S) = it[S]
  BY <1>3 DEF BytesOf, MapThenSumSet, MapThenFoldSet
<1> HIDE DEF AddsBytes
<1> QED
  BY <1>2, <1>4, FoldingCounts

Sized(S) == IsFiniteSet(S) /\ \A s \in S : s.size \in Nat

LEMMA SizesAre ==
  ASSUME NEW S, Sized(S)
  PROVE  /\ Amounts([s \in S |-> s.size], S)
         /\ Sizes(S) = Cardinality(Counted([s \in S |-> s.size], S))
         /\ Sizes(S) \in Nat
<1> DEFINE f == [s \in S |-> s.size]
<1>1. Amounts(f, S) /\ \A s \in S : f[s] = s.size
  BY DEF Amounts, Sized
<1> HIDE DEF f
<1>2. Sizes(S) = Cardinality(Counted(f, S))
  BY <1>1, SizesCount DEF Sized
<1>3. Sizes(S) \in Nat
  BY <1>1, <1>2, CountedIsFinite, FS_CardinalityType DEF Sized
<1> QED
  BY <1>1, <1>2, <1>3 DEF f

LEMMA SizesWithMore ==
  ASSUME NEW S, Sized(S), NEW x, x \notin S, x.size \in Nat
  PROVE  Sizes(S \cup {x}) = Sizes(S) + x.size /\ Sized(S \cup {x})
<1> DEFINE T == S \cup {x}
           f == [s \in T |-> s.size]
<1>1. Sized(T)
  BY FS_AddElement DEF Sized
<1>2. Sizes(T) = Cardinality(Counted(f, T)) /\ Amounts(f, T)
  BY <1>1, SizesAre
<1>3. Cardinality(Counted(f, T)) = f[x] + Cardinality(Counted(f, T \ {x}))
  BY <1>1, <1>2, CountedSplits DEF Sized
<1>4. Amounts(f, S) /\ f[x] = x.size /\ \A s \in S : f[s] = s.size
  BY DEF Amounts, Sized
<1>5. T \ {x} = S
  OBVIOUS
<1> HIDE DEF f, T
<1>6. Sizes(S) = Cardinality(Counted(f, S)) /\ Sizes(S) \in Nat
  BY <1>4, SizesCount, SizesAre DEF Sized
<1>7. Sizes(T) = f[x] + Cardinality(Counted(f, S))
  BY ONLY <1>2, <1>3, <1>5
<1>8. \A a, b \in Nat : a + b = b + a
  OBVIOUS
<1>9. Sizes(T) = Sizes(S) + x.size
  BY ONLY <1>4, <1>6, <1>7, <1>8, x.size \in Nat
<1> QED
  BY <1>1, <1>9 DEF T

LEMMA SizesOfFewer ==
  ASSUME NEW S, Sized(S), NEW T \in SUBSET S
  PROVE  Sizes(T) <= Sizes(S) /\ Sized(T) /\ Sizes(T) \in Nat /\ Sizes(S) \in Nat
<1> DEFINE f == [s \in S |-> s.size]
<1>1. Sized(T)
  BY FS_Subset DEF Sized
<1>2. Amounts(f, T) /\ \A s \in T : f[s] = s.size
  BY DEF Amounts, Sized
<1>3. Sizes(S) = Cardinality(Counted(f, S)) /\ Amounts(f, S)
  BY SizesAre
<1> HIDE DEF f
<1>4. Sizes(T) = Cardinality(Counted(f, T))
  BY <1>1, <1>2, SizesCount DEF Sized
<1>5. Counted(f, T) \subseteq Counted(f, S)
  BY InCounted
<1>6. IsFiniteSet(Counted(f, S))
  BY <1>3, CountedIsFinite DEF Sized
<1>7. Cardinality(Counted(f, T)) <= Cardinality(Counted(f, S))
  BY <1>5, <1>6, FS_Subset
<1> QED
  BY <1>1, <1>3, <1>4, <1>7, SizesAre

BytesAt(fs, k) == IF fs[k] # None THEN fs[k].size ELSE 0

LEMMA BytesAre ==
  ASSUME NEW S, IsFiniteSet(S), NEW fs \in [S -> Objects \cup {None}]
  PROVE  /\ Amounts([k \in S |-> BytesAt(fs, k)], S)
         /\ BytesOf(fs, S) = Cardinality(Counted([k \in S |-> BytesAt(fs, k)], S))
         /\ BytesOf(fs, S) \in Nat
<1> DEFINE f == [k \in S |-> BytesAt(fs, k)]
<1>1. Amounts(f, S) /\ \A k \in S : f[k] = IF fs[k] # None THEN fs[k].size ELSE 0
  BY DEF Amounts, BytesAt, Objects
<1> HIDE DEF f
<1>2. BytesOf(fs, S) = Cardinality(Counted(f, S))
  BY <1>1, BytesCount
<1>3. BytesOf(fs, S) \in Nat
  BY <1>1, <1>2, CountedIsFinite, FS_CardinalityType
<1> QED
  BY <1>1, <1>2, <1>3 DEF f

(* A file that is written, replaced or removed changes the sum by its own  *)
(* bytes.                                                                  *)
LEMMA BytesWithout ==
  ASSUME NEW S, IsFiniteSet(S), NEW fs \in [S -> Objects \cup {None}], NEW k \in S
  PROVE  BytesOf(fs, S) = BytesAt(fs, k) + BytesOf(fs, S \ {k})
         /\ BytesAt(fs, k) \in Nat /\ BytesOf(fs, S \ {k}) \in Nat
<1> DEFINE f == [h \in S |-> BytesAt(fs, h)]
<1>1. Amounts(f, S) /\ BytesOf(fs, S) = Cardinality(Counted(f, S)) /\ BytesOf(fs, S) \in Nat
  BY BytesAre
<1>2. Amounts(f, S \ {k}) /\ f[k] = BytesAt(fs, k)
      /\ \A h \in S \ {k} : f[h] = IF fs[h] # None THEN fs[h].size ELSE 0
  BY <1>1 DEF Amounts, BytesAt
<1> HIDE DEF f
<1>3. IsFiniteSet(S \ {k})
  BY FS_RemoveElement
<1>4. BytesOf(fs, S \ {k}) = Cardinality(Counted(f, S \ {k}))
  BY <1>2, <1>3, BytesCount
<1>5. Cardinality(Counted(f, S)) = f[k] + Cardinality(Counted(f, S \ {k}))
  BY <1>1, CountedSplits
<1>6. f[k] \in Nat
  BY <1>1 DEF Amounts
<1>7. Cardinality(Counted(f, S \ {k})) \in Nat
  BY <1>2, <1>3, CountedIsFinite, FS_CardinalityType
<1> QED
  BY <1>1, <1>2, <1>4, <1>5, <1>6, <1>7

LEMMA BytesAgree ==
  ASSUME NEW S, IsFiniteSet(S), NEW fs, NEW gs, \A h \in S : fs[h] = gs[h],
         \A h \in S : fs[h] \in Objects \cup {None}
  PROVE  BytesOf(fs, S) = BytesOf(gs, S)
<1> DEFINE f == [h \in S |-> BytesAt(fs, h)]
<1>1. /\ Amounts(f, S)
      /\ \A h \in S : f[h] = IF fs[h] # None THEN fs[h].size ELSE 0
      /\ \A h \in S : f[h] = IF gs[h] # None THEN gs[h].size ELSE 0
  BY DEF Amounts, BytesAt, Objects
<1> HIDE DEF f
<1> QED
  BY <1>1, BytesCount

LEMMA BytesWith ==
  ASSUME NEW S, IsFiniteSet(S), NEW fs \in [S -> Objects \cup {None}], NEW k \in S,
         NEW o \in Objects \cup {None}, NEW gs, gs = [fs EXCEPT ![k] = o]
  PROVE  BytesOf(gs, S) = BytesOf(fs, S) - BytesAt(fs, k) + IF o # None THEN o.size ELSE 0
<1>1. gs \in [S -> Objects \cup {None}] /\ gs[k] = o /\ \A h \in S \ {k} : fs[h] = gs[h]
  OBVIOUS
<1>2. IsFiniteSet(S \ {k})
  BY FS_RemoveElement
<1>3. BytesOf(fs, S \ {k}) = BytesOf(gs, S \ {k})
  BY <1>1, <1>2, BytesAgree
<1>4. BytesOf(gs, S) = BytesAt(gs, k) + BytesOf(gs, S \ {k})
  BY ONLY <1>1, IsFiniteSet(S), k \in S, BytesWithout
<1>5. BytesOf(fs, S) = BytesAt(fs, k) + BytesOf(fs, S \ {k})
      /\ BytesAt(fs, k) \in Nat /\ BytesOf(fs, S \ {k}) \in Nat
  BY BytesWithout
<1>6. BytesAt(gs, k) = (IF o # None THEN o.size ELSE 0) /\ BytesAt(gs, k) \in Nat
  BY <1>1 DEF BytesAt, Objects
<1> QED
  BY <1>3, <1>4, <1>5, <1>6

-----------------------------------------------------------------------------
(* Requests                                                                *)

LEMMA RequestShapes ==
  ASSUME NEW r \in Requests
  PROVE  /\ r.op = "upload" => r \in [op : {"upload"}, parts : Seq(Pictures)]
         /\ r.op = "photo" => r.id \in STRING /\ r.size \in Nat
         /\ r.op \in {"setAvatar", "track"} => r.size \in Nat
         /\ r.op = "attach" => r.file \in Attachments
         /\ r.op \in {"deleteMedia", "deletePhoto", "render"} => r.id \in STRING
         /\ r.op = "quota" => r.quota \in Nat
         /\ r.op = "setLinks" => /\ r.target \in Targets /\ r.list \in SUBSET STRING
                                 /\ r.favorites \in (SUBSET STRING) \cup {None}
         /\ r.op = "setFavorite" => r.list \in SUBSET STRING /\ r.favorite \in BOOLEAN
BY DEF Requests

(* A step of a request changes its own record only.                        *)
Typed(read) == \A f \in DOMAIN read : f \in DOMAIN TypeOf => read[f] \in TypeOf[f]

LEMMA GoingOn ==
  ASSUME task \in [Clients -> Tasks], NEW c \in Clients, NEW s \in Steps, NEW read,
         Goes(c, s, read), Typed(read)
  PROVE  \E t \in Tasks :
           /\ task' = [task EXCEPT ![c] = t]
           /\ t.step = s
           /\ \A f \in DOMAIN TypeOf \ {"step"} :
                t[f] = IF f \in DOMAIN read THEN read[f] ELSE task[c][f]
<1> DEFINE t == [f \in DOMAIN task[c] |->
                   IF f = "step" THEN s ELSE IF f \in DOMAIN read THEN read[f] ELSE task[c][f]]
<1>1. task[c] \in Tasks /\ DOMAIN task[c] = DOMAIN TypeOf
  BY DEF Tasks, TypeOf
<1>2. \A f \in DOMAIN TypeOf : task[c][f] \in TypeOf[f]
  BY <1>1 DEF Tasks, TypeOf
<1>3. \A f \in DOMAIN TypeOf : t[f] \in TypeOf[f]
  BY <1>1, <1>2 DEF Typed, TypeOf
<1>4. DOMAIN t = DOMAIN TypeOf /\ t = [f \in DOMAIN TypeOf |-> t[f]]
  BY <1>1
<1>5. t \in Tasks
  <2> HIDE DEF t
  <2> QED
    BY <1>3, <1>4 DEF Tasks, TypeOf
<1>6. task' = [task EXCEPT ![c] = t]
  BY DEF Goes
<1>7. t.step = s /\ \A f \in DOMAIN TypeOf \ {"step"} :
                t[f] = IF f \in DOMAIN read THEN read[f] ELSE task[c][f]
  BY <1>1 DEF TypeOf
<1> QED
  BY <1>5, <1>6, <1>7

(* It stays as it was but for the step.                                    *)
LEMMA Moving ==
  ASSUME task \in [Clients -> Tasks], NEW c \in Clients, NEW s \in Steps, Goes(c, s, <<>>)
  PROVE  \E t \in Tasks :
           /\ task' = [task EXCEPT ![c] = t]
           /\ t.step = s /\ t.req = task[c].req /\ t.keys = task[c].keys /\ t.rows = task[c].rows
           /\ t.quota = task[c].quota /\ t.used = task[c].used /\ t.previous = task[c].previous
           /\ t.seen = task[c].seen /\ t.marked = task[c].marked
<1>1. Typed(<<>>) /\ DOMAIN <<>> = {}
  BY DEF Typed
<1>2. PICK t \in Tasks :
           /\ task' = [task EXCEPT ![c] = t] /\ t.step = s
           /\ \A f \in DOMAIN TypeOf \ {"step"} : t[f] = IF f \in DOMAIN <<>> THEN <<>>[f] ELSE task[c][f]
  BY <1>1, GoingOn
<1>3. \A f \in DOMAIN TypeOf \ {"step"} : t[f] = task[c][f]
  BY <1>1, <1>2
<1> QED
  BY <1>2, <1>3 DEF TypeOf

LEMMA MovingWithKeys ==
  ASSUME task \in [Clients -> Tasks], NEW c \in Clients, NEW s \in Steps, NEW ks \in SUBSET StoreKeys,
         Goes(c, s, [keys |-> ks])
  PROVE  \E t \in Tasks :
           /\ task' = [task EXCEPT ![c] = t]
           /\ t.step = s /\ t.keys = ks /\ t.req = task[c].req /\ t.rows = task[c].rows
           /\ t.quota = task[c].quota /\ t.used = task[c].used /\ t.previous = task[c].previous
           /\ t.seen = task[c].seen /\ t.marked = task[c].marked
<1> DEFINE read == [keys |-> ks]
<1>1. Typed(read) /\ DOMAIN read = {"keys"} /\ read["keys"] = ks
  BY DEF Typed, TypeOf
<1> HIDE DEF read
<1>2. PICK t \in Tasks :
           /\ task' = [task EXCEPT ![c] = t] /\ t.step = s
           /\ \A f \in DOMAIN TypeOf \ {"step"} : t[f] = IF f \in DOMAIN read THEN read[f] ELSE task[c][f]
  BY <1>1, GoingOn DEF read
<1> QED
  BY <1>1, <1>2 DEF TypeOf

LEMMA Reading ==
  ASSUME task \in [Clients -> Tasks], NEW c \in Clients, NEW s \in Steps, NEW read,
         Goes(c, s, read), Typed(read), DOMAIN read \subseteq {"quota", "used", "previous"}
  PROVE  \E t \in Tasks :
           /\ task' = [task EXCEPT ![c] = t]
           /\ t.step = s /\ t.req = task[c].req /\ t.keys = task[c].keys /\ t.rows = task[c].rows
           /\ t.seen = task[c].seen /\ t.marked = task[c].marked
<1>1. PICK t \in Tasks :
           /\ task' = [task EXCEPT ![c] = t] /\ t.step = s
           /\ \A f \in DOMAIN TypeOf \ {"step"} : t[f] = IF f \in DOMAIN read THEN read[f] ELSE task[c][f]
  BY ONLY task \in [Clients -> Tasks], c \in Clients, s \in Steps, Goes(c, s, read), Typed(read), GoingOn
<1>2. \A f \in {"req", "keys", "rows", "seen", "marked"} : t[f] = task[c][f]
  BY <1>1 DEF TypeOf
<1> QED
  BY <1>1, <1>2

-----------------------------------------------------------------------------
(* Steps that name nothing and remove nothing                              *)

(* A request that goes on, on its way to storing or out of it, leaves every *)
(* other request's keys alone.                                             *)
LEMMA OthersStay ==
  ASSUME TypeOK, NEW c \in Clients, NEW t \in Tasks, task' = [task EXCEPT ![c] = t],
         NEW d \in Clients, d # c
  PROVE  /\ Coming(d)' = Coming(d) /\ Placed(d)' = Placed(d) /\ Doomed(d)' = Doomed(d)
         /\ Removing(d)' = Removing(d) /\ NewKeys(d)' = NewKeys(d) /\ task'[d] = task[d]
<1>1. task'[d] = task[d]
  BY DEF TypeOK
<1> QED
  BY <1>1 DEF Coming, Placed, Doomed, Removing, NewKeys, Req, NextFile

LEMMA Quietly ==
  ASSUME LibraryInv, NEW c \in Clients, NEW t \in Tasks, task' = [task EXCEPT ![c] = t],
         t.req = task[c].req,
         t.step \in Unsent => task[c].step \in Unsent \ {"put", "create"} /\ t.step \notin {"put", "create"},
         t.req.op = "upload" /\ t.step = "reserve" => t.req.parts # <<>>,
         t.step = "reserve" => t.req.op \in Grows,
         t.step \notin {"delete", "files", "undo", "rendered"},
         UNCHANGED <<files, sweep>>, past.doubtful \subseteq past'.doubtful,
         db'.media = db.media, db'.photos = db.photos
  PROVE  NamesApart' /\ RequestsFit' /\ FilesFirst' /\ RowsGoFirst' /\ TripsListPictures' /\ SweepKnows'
         /\ RowsHaveBytes'
<1> USE DEF LibraryInv
<1>1. task'[c] = t /\ \A d \in Clients \ {c} : task'[d] = task[d]
  BY DEF TypeOK
<1>2. Named(db)' = Named(db) /\ MediaKeys(db)' = MediaKeys(db) /\ PhotosKeys(db)' = PhotosKeys(db)
  BY DEF Named, MediaKeys, PhotosKeys
<1>3. Coming(c)' \subseteq Coming(c) /\ Placed(c)' = {} /\ Doomed(c)' = {} /\ Removing(c)' = {}
  BY <1>1 DEF Coming, Placed, Doomed, Removing, Req, Unsent
<1>4. Coming(c)' # {} => Placed(c) = {}
  BY <1>1 DEF Coming, Placed, Unsent
<1>5. \A d \in Clients : d # c =>
         /\ Coming(d)' = Coming(d) /\ Placed(d)' = Placed(d) /\ Doomed(d)' = Doomed(d)
         /\ Removing(d)' = Removing(d) /\ NewKeys(d)' = NewKeys(d)
  BY OthersStay
<1>6. NamesApart'
  <2>1. UNCHANGED <<Keys, sweep.found>>
    BY DEF Keys
  <2> QED
    BY <1>2, <1>3, <1>5, <2>1 DEF NamesApart
<1>7. RequestsFit'
  BY <1>1 DEF RequestsFit, Req, Unsent
<1>8. FilesFirst'
  <2>1. t.step # "put"
    BY DEF Unsent
  <2> QED
    BY <1>1, <1>3, <1>4, <1>5, <2>1 DEF FilesFirst, Held
<1>9. RowsGoFirst'
  BY <1>2, <1>3, <1>5 DEF RowsGoFirst
<1>10. TripsListPictures'
  BY <1>1, <1>2 DEF TripsListPictures, At
<1>11. SweepKnows'
  BY <1>2 DEF SweepKnows, Aged, Held
<1>12. RowsHaveBytes'
  BY DEF RowsHaveBytes, Held
<1> QED
  BY <1>6, <1>7, <1>8, <1>9, <1>10, <1>11, <1>12

LEMMA TripUsedIs ==
  ASSUME NEW d \in Rows, IsFiniteSet(d.media), IsFiniteSet(d.attached)
  PROVE  /\ Sized(d.media) /\ Sized(d.attached) /\ Sizes(d.media) \in Nat /\ Sizes(d.attached) \in Nat
         /\ TripUsed(d) \in Nat
<1>1. Sized(d.media) /\ Sized(d.attached) /\ d.track \in Nat
  BY DEF Sized, Rows, Pictures, Attachments
<1>2. Sizes(d.media) \in Nat /\ Sizes(d.attached) \in Nat
  BY <1>1, SizesAre
<1> QED
  BY <1>1, <1>2 DEF TripUsed

LEMMA ObjectBytesAre == ASSUME TypeOK PROVE ObjectBytes(AvatarKey) \in Nat
BY DEF TypeOK, ObjectBytes, Held, Objects

\* Where a request goes that only reads.
ReadsOn(c, t) ==
  /\ task' = [task EXCEPT ![c] = t]
  /\ t.req = task[c].req /\ t.rows = task[c].rows
  /\ t.step \in Unsent => task[c].step \in Unsent \ {"put", "create"} /\ t.step \notin {"put", "create"}
  /\ t.req.op = "upload" /\ t.step = "reserve" => t.req.parts # <<>>
  /\ t.step = "reserve" => t.req.op \in Grows
  /\ t.step \notin {"delete", "files", "undo", "rendered"}

LEMMA ReadingKeeps ==
  ASSUME LibraryInv, NEW c \in Clients, NEW t \in Tasks, ReadsOn(c, t), UNCHANGED <<db, files, sweep, past>>
  PROVE  LibraryInv'
<1> USE DEF LibraryInv, ReadsOn
<1>1. TypeOK'
  BY DEF TypeOK, Keys
<1>2. LockedRows' = LockedRows
  BY DEF TypeOK, LockedRows
<1>3. LinksShowPictures' /\ NoCopies'
  BY <1>2 DEF LinksShowPictures, NoCopies, MediaIds
<1>4. NamesApart' /\ RequestsFit' /\ FilesFirst' /\ RowsGoFirst' /\ TripsListPictures' /\ SweepKnows'
         /\ RowsHaveBytes'
  BY Quietly
<1> QED
  BY <1>1, <1>3, <1>4

Reads(c) ==
  \/ handleUploadMedia(c) \/ storePart(c) \/ handleSetAvatar(c) \/ handleImportItemTrack(c)
  \/ handleCreateAttachment(c) \/ handleCreateReport(c) \/ handleAddIdeaPhoto(c)

LEMMA ReadsKeep ==
  ASSUME LibraryInv, NEW c \in Clients, Reads(c)
  PROVE  LibraryInv'
<1> USE DEF LibraryInv
<1>1. task \in [Clients -> Tasks] /\ task[c] \in Tasks /\ task[c].req \in Requests
  BY DEF TypeOK, Tasks
<1>2. UNCHANGED <<db, files, sweep, past>>
  BY DEF Reads, handleUploadMedia, storePart, handleSetAvatar, handleImportItemTrack, handleCreateAttachment,
     handleCreateReport, handleAddIdeaPhoto
<1>3. ASSUME NEW s \in {"done", "refused", "reserve"}, Goes(c, s, <<>>), task[c].step \in {"new", "part"},
             task[c].req.op = "upload" /\ s = "reserve" => task[c].req.parts # <<>>,
             s = "reserve" => task[c].req.op \in Grows
      PROVE  \E t \in Tasks : ReadsOn(c, t)
  <2>1. s \in Steps
    BY <1>3 DEF Steps
  <2> QED
    BY <1>1, <1>3, <2>1, Moving DEF ReadsOn, Unsent
<1>4. ASSUME NEW s \in {"part", "reserve"}, NEW read, Goes(c, s, read), task[c].step = "new", Typed(read),
             DOMAIN read \subseteq {"quota", "used", "previous"},
             task[c].req.op = "upload" => s = "part",
             s = "reserve" => task[c].req.op \in Grows
      PROVE  \E t \in Tasks : ReadsOn(c, t)
  <2>1. s \in Steps
    BY <1>4 DEF Steps
  <2> QED
    BY <1>1, <1>4, <2>1, Reading DEF ReadsOn, Unsent
<1>5. \E t \in Tasks : ReadsOn(c, t)
  <2>1. CASE handleUploadMedia(c)
    <3>1. TripUsed(db) \in Nat /\ db.quota \in Nat
      BY TripUsedIs DEF TypeOK, Rows
    <3> DEFINE read == [quota |-> db.quota, used |-> TripUsed(db)]
    <3>2. Typed(read) /\ DOMAIN read \subseteq {"quota", "used", "previous"}
      BY <3>1 DEF Typed, TypeOf
    <3>3. CASE db.trip
      <4>1. Goes(c, "part", read) /\ task[c].step = "new"
        BY <2>1, <3>3 DEF handleUploadMedia, At
      <4> HIDE DEF read
      <4> QED
        BY <3>2, <4>1, <1>4
    <3>4. CASE ~db.trip
      BY <2>1, <3>4, <1>3 DEF handleUploadMedia, At, Ends
    <3> QED
      BY <3>3, <3>4
  <2>2. CASE storePart(c)
    BY <2>2, <1>3 DEF storePart, At, Ends, Req, Grows
  <2>3. CASE handleSetAvatar(c)
    <3> DEFINE read == [previous |-> IF db.avatar THEN ObjectBytes(AvatarKey) ELSE 0]
    <3>1. Typed(read) /\ DOMAIN read \subseteq {"quota", "used", "previous"}
      BY ObjectBytesAre DEF Typed, TypeOf
    <3> QED
      BY <2>3, <3>1, <1>3, <1>4 DEF handleSetAvatar, At, Ends, Req, Grows
  <2>4. CASE handleImportItemTrack(c)
    <3> DEFINE read == [quota |-> db.quota, previous |-> db.track]
    <3>1. Typed(read) /\ DOMAIN read \subseteq {"quota", "used", "previous"}
      BY DEF Typed, TypeOf, TypeOK, Rows
    <3> QED
      BY <2>4, <3>1, <1>3, <1>4 DEF handleImportItemTrack, At, Ends, Req, Grows
  <2>5. CASE handleCreateAttachment(c)
    <3> DEFINE read == [quota |-> db.quota, used |-> Req(c).file.size]
    <3>1. Req(c).file.size \in Nat
      BY <1>1, <2>5, RequestShapes DEF Req, handleCreateAttachment, At, Attachments
    <3>2. Typed(read) /\ DOMAIN read \subseteq {"quota", "used", "previous"}
      BY <3>1 DEF Typed, TypeOf, TypeOK, Rows
    <3> QED
      BY <2>5, <3>2, <1>3, <1>4 DEF handleCreateAttachment, At, Ends, Req, Grows
  <2>6. CASE handleCreateReport(c)
    <3> DEFINE read == [used |-> db.track, quota |-> db.quota]
    <3>1. Typed(read) /\ DOMAIN read \subseteq {"quota", "used", "previous"}
      BY DEF Typed, TypeOf, TypeOK, Rows
    <3> QED
      BY <2>6, <3>1, <1>3, <1>4 DEF handleCreateReport, At, Ends, Req, Grows
  <2>7. CASE handleAddIdeaPhoto(c)
    BY <2>7, <1>3 DEF handleAddIdeaPhoto, At, Ends, Req, Grows
  <2> QED
    BY <2>1, <2>2, <2>3, <2>4, <2>5, <2>6, <2>7 DEF Reads
<1> QED
  BY <1>2, <1>5, ReadingKeeps

(* Rows that concern no picture and no photo.                              *)
LEMMA RoomForOne ==
  ASSUME NEW S, IsFiniteSet(S), NEW max \in Nat, ~(Cardinality(S) >= max), NEW x
  PROVE  IsFiniteSet(S \cup {x}) /\ Cardinality(S \cup {x}) <= max
<1>1. Cardinality(S) \in Nat
  BY FS_CardinalityType
<1>2. IsFiniteSet(S \cup {x})
      /\ (Cardinality(S \cup {x}) = Cardinality(S) \/ Cardinality(S \cup {x}) = Cardinality(S) + 1)
  BY FS_AddElement
<1> QED
  BY <1>1, <1>2

SamePictures(d) ==
  /\ d \in Rows /\ IsFiniteSet(d.attached) /\ NoCopiesIn(d)
  /\ d.media = db.media /\ d.photos = db.photos

LEMMA OtherRowsAre ==
  ASSUME LibraryInv, NEW c \in Clients, Written(c) # None,
         Req(c).op \in {"attach", "track", "report", "setAvatar"}
  PROVE  SamePictures(Written(c)) /\ Written(c).links = db.links
<1> USE DEF LibraryInv
<1>1. db \in Rows /\ NoCopiesIn(db) /\ IsFiniteSet(db.attached) /\ Req(c) \in Requests /\ task[c].quota \in Nat
  BY DEF TypeOK, Tasks, NoCopies, Req
<1>2. CASE Req(c).op = "attach"
  <2> DEFINE file == Req(c).file
  <2>1. file \in Attachments
    BY <1>1, <1>2, RequestShapes
  <2>2. Written(c) = [db EXCEPT !.attached = @ \cup {file}]
        /\ ~(Cardinality(db.attached) >= MaxAttachments)
        /\ \A a \in db.attached : a.sum # file.sum
    BY <1>2 DEF Written, CreateAttachment
  <2> HIDE DEF file
  <2>3. IsFiniteSet(db.attached \cup {file}) /\ Cardinality(db.attached \cup {file}) <= MaxAttachments
    BY <1>1, <2>2, RoomForOne, LimitAssumption
  <2>4. Written(c) \in Rows /\ Written(c).media = db.media /\ Written(c).photos = db.photos
        /\ Written(c).links = db.links /\ Written(c).attached = db.attached \cup {file}
    BY <1>1, <2>1, <2>2 DEF Rows
  <2>5. \A a, b \in Written(c).attached : a.sum = b.sum => a = b
    BY <1>1, <2>2, <2>4 DEF NoCopiesIn
  <2>6. NoCopiesIn(Written(c))
    BY ONLY <1>1, <2>3, <2>4, <2>5 DEF NoCopiesIn
  <2> QED
    BY ONLY <2>3, <2>4, <2>6 DEF SamePictures
<1>3. CASE Req(c).op \in {"track", "report", "setAvatar"}
  <2>1. \/ \E n \in Nat : Written(c) = [db EXCEPT !.track = n]
        \/ \E n \in Nat : Written(c) = [db EXCEPT !.copied = n]
        \/ Written(c) = [db EXCEPT !.avatar = TRUE]
    <3>1. Req(c).op = "track" => Req(c).size \in Nat
      BY <1>1, RequestShapes
    <3>2. db.copied + db.track \in Nat
      BY <1>1 DEF Rows
    <3> QED
      BY <1>3, <3>1, <3>2 DEF Written, SaveTrack, CreateReport, SetAvatar
  <2>2. /\ Written(c) \in Rows /\ Written(c).media = db.media /\ Written(c).photos = db.photos
        /\ Written(c).links = db.links /\ Written(c).attached = db.attached
    BY <1>1, <2>1 DEF Rows
  <2>3. NoCopiesIn(Written(c))
    BY ONLY <1>1, <2>2 DEF NoCopiesIn
  <2> QED
    BY ONLY <1>1, <2>2, <2>3 DEF SamePictures
<1> QED
  BY <1>2, <1>3

\* Where a request goes that stores no file.
Settles(c, t) ==
  /\ task' = [task EXCEPT ![c] = t]
  /\ t.req = task[c].req
  /\ t.rows = task[c].rows \/ t.rows = {}
  /\ t.step \notin Unsent \cup {"delete", "files", "undo", "rendered"}

LEMMA RowsKeep ==
  ASSUME LibraryInv, NEW c \in Clients, NEW t \in Tasks, Settles(c, t), SamePictures(db'),
         db'.links = db.links, UNCHANGED <<files, sweep>>, past.doubtful \subseteq past'.doubtful,
         past' \in [doubtful : SUBSET (STRING \cup {None}), stale : BOOLEAN, overlapped : BOOLEAN,
                    shown : [Targets -> (SUBSET STRING) \cup {None}]]
  PROVE  LibraryInv'
<1> USE DEF LibraryInv, Settles, SamePictures
<1>1. TypeOK'
  BY DEF TypeOK, Keys
<1>2. LockedRows' \subseteq LockedRows
  BY DEF TypeOK, LockedRows
<1>3. LinksShowPictures' /\ NoCopies'
  BY <1>2 DEF LinksShowPictures, NoCopies, MediaIds
<1>4. NamesApart' /\ RequestsFit' /\ FilesFirst' /\ RowsGoFirst' /\ TripsListPictures' /\ SweepKnows'
         /\ RowsHaveBytes'
  BY Quietly DEF Unsent
<1> QED
  BY <1>1, <1>3, <1>4

-----------------------------------------------------------------------------
(* Storing files                                                           *)

(* What a request stores is under keys of its own, or the account's picture. *)
LEMMA NewNames ==
  ASSUME LibraryInv, NEW c \in Clients, task[c].step \in {"reserve", "put", "create"}
  PROVE  /\ NewKeys(c) \subseteq Keys /\ NewKeys(c) \subseteq StoreKeys
         /\ NewKeys(c) \cap Named(db) = {}
         /\ \A b \in Clients \ {c} : NewKeys(c) \cap Coming(b) = {}
         /\ Req(c).op \in {"upload", "photo"} => NewKeys(c) \subseteq Coming(c)
         /\ Req(c).op \notin {"upload", "photo"} => NewKeys(c) \subseteq {AvatarKey}
<1> USE DEF LibraryInv
<1>1. Req(c) \in Requests /\ task[c].step \in Unsent
  BY DEF TypeOK, Tasks, Req, Unsent
<1>2. AvatarKey \in Keys /\ Keys \subseteq StoreKeys /\ AvatarKey \notin Named(db)
      /\ \A b \in Clients : AvatarKey \notin Coming(b)
  BY DEF TypeOK, NamesApart
<1>3. ASSUME Req(c).op \in {"upload", "photo"}
      PROVE  NewKeys(c) \subseteq Coming(c)
  <2>1. CASE Req(c).op = "photo"
    BY <1>1, <2>1 DEF NewKeys, Coming, Brings
  <2>2. CASE Req(c).op = "upload"
    <3>1. Req(c).parts \in Seq(Pictures) /\ Req(c).parts # <<>>
      BY <1>1, <2>2, RequestShapes DEF RequestsFit
    <3>2. 1 \in DOMAIN Req(c).parts /\ Head(Req(c).parts) = Req(c).parts[1]
      BY <3>1
    <3>3. NewKeys(c) = {Key(Req(c).parts[1].id, "file")}
      BY <2>2, <3>2 DEF NewKeys, NextFile
    <3>4. Coming(c) = {Key(Req(c).parts[i].id, "file") : i \in DOMAIN Req(c).parts}
      BY <1>1, <2>2 DEF Coming, Brings
    <3> QED
      BY <3>2, <3>3, <3>4
  <2> QED
    BY <1>3, <2>1, <2>2
<1>4. ASSUME Req(c).op \notin {"upload", "photo"}
      PROVE  NewKeys(c) \subseteq {AvatarKey}
  BY <1>4 DEF NewKeys
<1>5. Coming(c) \subseteq Keys \ {AvatarKey} /\ Coming(c) \cap Named(db) = {}
      /\ \A b \in Clients \ {c} : Coming(c) \cap Coming(b) = {}
  BY DEF NamesApart
<1>6. CASE Req(c).op \in {"upload", "photo"}
  BY <1>2, <1>3, <1>5, <1>6
<1>7. CASE Req(c).op \notin {"upload", "photo"}
  BY <1>2, <1>4, <1>7
<1> QED
  BY <1>6, <1>7

\* Where a request goes that has been let in.
LetIn(c, t) ==
  /\ task' = [task EXCEPT ![c] = t]
  /\ t.req = task[c].req /\ t.rows = task[c].rows /\ t.keys = NewKeys(c)
  /\ t.step = IF StoresFiles(c) THEN "put" ELSE "create"

LEMMA LetInKeeps ==
  ASSUME LibraryInv, NEW c \in Clients, NEW t \in Tasks, LetIn(c, t), task[c].step = "reserve",
         UNCHANGED <<db, files, sweep>>, past' = [past EXCEPT !.stale = past'.stale],
         past'.stale \in BOOLEAN
  PROVE  LibraryInv'
<1> USE DEF LibraryInv
<1>1. TypeOK'
  BY DEF TypeOK, Keys, LetIn
<1>2. LockedRows' = LockedRows /\ past'.doubtful = past.doubtful
  BY DEF TypeOK, LockedRows, LetIn
<1>3. LinksShowPictures' /\ NoCopies'
  BY <1>2 DEF LinksShowPictures, NoCopies, MediaIds
<1>4. task'[c] = t /\ \A d \in Clients \ {c} : task'[d] = task[d]
  BY DEF TypeOK, LetIn
<1>5. \A d \in Clients : d # c =>
         /\ Coming(d)' = Coming(d) /\ Placed(d)' = Placed(d) /\ Doomed(d)' = Doomed(d)
         /\ Removing(d)' = Removing(d) /\ NewKeys(d)' = NewKeys(d)
  BY OthersStay DEF LetIn
<1>6. Coming(c)' = Coming(c) /\ NewKeys(c)' = NewKeys(c)
  BY <1>4 DEF Coming, NewKeys, Req, NextFile, Unsent, LetIn
<1>7. Doomed(c)' = {} /\ Removing(c)' = {}
  BY <1>4 DEF Doomed, Removing, LetIn
<1>8. Placed(c) = {} /\ Placed(c)' = {}
  <2>1. Placed(c) = {}
    BY DEF Placed
  <2>2. CASE t.step = "put"
    BY <1>4, <1>6, <2>1, <2>2 DEF Placed, Req, LetIn
  <2>3. CASE t.step = "create"
    BY <1>4, <2>1, <2>3 DEF Placed, Req, LetIn, StoresFiles
  <2> QED
    BY <2>1, <2>2, <2>3 DEF LetIn
<1>9. Named(db)' = Named(db)
  BY DEF Named, MediaKeys, PhotosKeys
<1>10. NamesApart'
  <2>1. UNCHANGED <<Keys, sweep.found>>
    BY DEF Keys
  <2>2. \A d \in Clients : Coming(d)' = Coming(d) /\ Doomed(d)' \subseteq Doomed(d)
    BY <1>5, <1>6, <1>7
  <2>3. MediaKeys(db)' = MediaKeys(db) /\ PhotosKeys(db)' = PhotosKeys(db)
    BY DEF MediaKeys, PhotosKeys
  <2> QED
    BY ONLY <1>9, <2>1, <2>2, <2>3, LibraryInv DEF NamesApart
<1>11. RequestsFit'
  BY <1>4 DEF RequestsFit, Req, LetIn
<1>12. FilesFirst'
  BY <1>4, <1>5, <1>6, <1>8 DEF FilesFirst, Held, LetIn
<1>13. RowsGoFirst'
  BY <1>2, <1>5, <1>7, <1>9 DEF RowsGoFirst
<1>14. TripsListPictures'
  BY <1>4 DEF TripsListPictures, At, PhotosKeys, LetIn
<1>15. SweepKnows'
  BY <1>9 DEF SweepKnows, Aged, Held, MediaKeys, PhotosKeys
<1>16. RowsHaveBytes'
  BY <1>2 DEF RowsHaveBytes, Held
<1> QED
  BY <1>1, <1>3, <1>10, <1>11, <1>12, <1>13, <1>14, <1>15, <1>16

LEMMA ReserveKeeps ==
  ASSUME LibraryInv, NEW c \in Clients, Reserve(c)
  PROVE  LibraryInv'
<1> USE DEF LibraryInv
<1>1. task \in [Clients -> Tasks] /\ task[c] \in Tasks /\ task[c].step = "reserve"
  BY DEF TypeOK, Tasks, Reserve
<1>2. CASE Ends(c, "refused") /\ UNCHANGED past
  <2>1. \E t \in Tasks : ReadsOn(c, t)
    BY <1>1, <1>2, Moving DEF ReadsOn, Unsent, Ends, Steps
  <2> QED
    BY <1>2, <2>1, ReadingKeeps DEF Reserve
<1>3. CASE /\ past' = [past EXCEPT !.stale = @ \/ ~Current(c)]
           /\ Goes(c, IF StoresFiles(c) THEN "put" ELSE "create", [keys |-> NewKeys(c)])
  <2>1. NewKeys(c) \in SUBSET StoreKeys
    BY <1>1, NewNames
  <2>2. PICK t \in Tasks : LetIn(c, t)
    <3> DEFINE s == IF StoresFiles(c) THEN "put" ELSE "create"
    <3>1. s \in Steps
      BY DEF Steps
    <3> HIDE DEF s
    <3>2. Goes(c, s, [keys |-> NewKeys(c)])
      BY <1>3 DEF s
    <3>3. \E t \in Tasks :
           /\ task' = [task EXCEPT ![c] = t]
           /\ t.step = s /\ t.keys = NewKeys(c) /\ t.req = task[c].req /\ t.rows = task[c].rows
      BY <1>1, <2>1, <3>1, <3>2, MovingWithKeys
    <3> QED
      BY <3>3 DEF s, LetIn
  <2>3. past' = [past EXCEPT !.stale = past'.stale] /\ past'.stale \in BOOLEAN
    <3>1. (past.stale \/ ~Current(c)) \in BOOLEAN
      OBVIOUS
    <3>2. past'.stale = (past.stale \/ ~Current(c))
      BY <1>3 DEF TypeOK
    <3> QED
      BY <1>3, <3>2
  <2> QED
    BY <1>1, <2>2, <2>3, LetInKeeps DEF Reserve
<1> QED
  BY <1>2, <1>3 DEF Reserve

\* Where a request goes that has stored a file or failed to.
Stored(c, k, obj, t) ==
  /\ task' = [task EXCEPT ![c] = t]
  /\ t.req = task[c].req /\ t.rows = task[c].rows
  /\ files' \in {files, [files EXCEPT ![k] = obj]}
  /\ \/ t.step = "put" /\ t.keys = task[c].keys \ {k} /\ files' = [files EXCEPT ![k] = obj]
     \/ t.step = "create" /\ task[c].keys = {k} /\ files' = [files EXCEPT ![k] = obj]
     \/ t.step = "undo" /\ t.keys = NewKeys(c)
     \/ t.step = "failed"

LEMMA StoredKeeps ==
  ASSUME LibraryInv, NEW c \in Clients, NEW t \in Tasks, NEW k \in task[c].keys, NEW obj \in Objects,
         ~obj.old, task[c].step = "put", Stored(c, k, obj, t), UNCHANGED <<db, sweep, past>>
  PROVE  LibraryInv'
<1> USE DEF LibraryInv
<1>1. /\ k \in NewKeys(c) /\ task[c].keys \subseteq NewKeys(c) /\ NewKeys(c) \subseteq Keys
      /\ NewKeys(c) \cap Named(db) = {}
      /\ \A b \in Clients \ {c} : NewKeys(c) \cap Coming(b) = {}
      /\ Req(c).op \in {"upload", "photo"} => NewKeys(c) \subseteq Coming(c)
      /\ Req(c).op \notin {"upload", "photo"} => NewKeys(c) \subseteq {AvatarKey}
  BY NewNames DEF FilesFirst
<1>2. obj # None
  BY ScenesAssumption
<1>3. task'[c] = t /\ \A d \in Clients \ {c} : task'[d] = task[d]
  BY DEF TypeOK, Stored
<1>4. \A d \in Clients : d # c =>
         /\ Coming(d)' = Coming(d) /\ Placed(d)' = Placed(d) /\ Doomed(d)' = Doomed(d)
         /\ Removing(d)' = Removing(d) /\ NewKeys(d)' = NewKeys(d)
  BY OthersStay DEF Stored
<1>5. DOMAIN files' = DOMAIN files /\ Keys' = Keys
  BY DEF Stored, Keys
<1>6. \A j \in Keys : \/ files'[j] = files[j]
                      \/ j = k /\ files'[j] = obj
  BY <1>1 DEF Stored, Keys
<1>7. \A j \in Keys : Held(j) => Held(j)'
  BY <1>2, <1>6 DEF Held
<1>8. \A j \in Keys : Aged(j)' => Aged(j)
  BY <1>6 DEF Held, Aged
<1>9. Named(db)' = Named(db) /\ MediaKeys(db)' = MediaKeys(db) /\ PhotosKeys(db)' = PhotosKeys(db)
      /\ Named(db) \subseteq Keys /\ MediaKeys(db) \subseteq Named(db) /\ PhotosKeys(db) \subseteq Named(db)
  BY DEF Named, MediaKeys, PhotosKeys, NamesApart
<1>10. TypeOK'
  <2>1. files' \in [Keys -> Objects \cup {None}]
    BY DEF TypeOK, Keys, Stored
  <2>2. task' \in [Clients -> Tasks]
    BY DEF TypeOK, Stored
  <2> QED
    BY <1>5, <2>1, <2>2 DEF TypeOK
<1>11. Coming(c)' \subseteq Coming(c) /\ (t.step \in {"put", "create"} => Coming(c)' = Coming(c))
       /\ (t.step \notin {"put", "create"} => Coming(c)' = {})
  BY <1>3 DEF Coming, Req, Unsent, Stored
<1>12. NewKeys(c)' = NewKeys(c)
  BY <1>3 DEF NewKeys, Req, NextFile, Stored
<1>13. Doomed(c)' \subseteq NewKeys(c) /\ Removing(c)' \subseteq NewKeys(c)
  BY <1>3 DEF Doomed, Removing, Stored
<1>14. NamesApart'
  <2>1. \A d \in Clients : Coming(d)' \subseteq Coming(d)
    BY <1>4, <1>11
  <2>2. \A b, d \in Clients : Coming(d)' \cap Doomed(b)' = {}
    <3> SUFFICES ASSUME NEW b \in Clients, NEW d \in Clients PROVE Coming(d)' \cap Doomed(b)' = {}
      OBVIOUS
    <3>1. CASE b # c
      BY <1>4, <2>1, <3>1 DEF NamesApart
    <3>2. CASE b = c /\ d # c
      BY <1>1, <1>13, <2>1, <3>2
    <3>3. CASE b = c /\ d = c
      BY <1>3, <1>11, <3>3 DEF Doomed, Stored
    <3> QED
      BY <3>1, <3>2, <3>3
  <2> QED
    BY <1>5, <1>9, <2>1, <2>2 DEF NamesApart
<1>15. RequestsFit'
  BY <1>3 DEF RequestsFit, Req, Stored
<1>16. FilesFirst'
  <2> SUFFICES ASSUME NEW d \in Clients
               PROVE  /\ \A j \in Coming(d)' \cap Placed(d)' : Held(j)' /\ ~files'[j].old
                      /\ \A j \in Coming(d)' \ Placed(d)' : ~Held(j)'
                      /\ task'[d].step = "put" => task'[d].keys \subseteq NewKeys(d)'
    BY DEF FilesFirst
  <2>1. CASE d # c
    <3>1. \A j \in Coming(d) : j \in Keys /\ files'[j] = files[j]
      BY <1>1, <1>6, <2>1 DEF NamesApart
    <3> QED
      BY <1>3, <1>4, <2>1, <3>1 DEF FilesFirst, Held
  <2>2. CASE d = c /\ t.step \notin {"put", "create"}
    BY <1>3, <1>11, <2>2
  <2>3. CASE d = c /\ t.step \in {"put", "create"}
    <3>1. files' = [files EXCEPT ![k] = obj] /\ files'[k] = obj
      BY <1>1, <2>3 DEF Stored, Keys
    <3>2. task'[c].step = "put" => task'[c].keys \subseteq NewKeys(c)'
      BY <1>1, <1>3, <1>12, <2>3 DEF Stored
    <3>3. Coming(c) \subseteq Keys /\ Coming(c)' = Coming(c)
      BY <1>11, <2>3 DEF NamesApart
    <3>4. CASE Req(c).op \in {"upload", "photo"}
      <4>1. Placed(c) = NewKeys(c) \ task[c].keys
        BY <3>4 DEF Placed
      <4>2. Placed(c)' = Placed(c) \cup {k}
        BY <1>1, <1>3, <1>12, <2>3, <3>4, <4>1 DEF Placed, Req, Stored
      <4>3. \A j \in Coming(c) \cap Placed(c) : Held(j) /\ ~files[j].old
        BY DEF FilesFirst
      <4>4. \A j \in Coming(c) \ Placed(c) : ~Held(j)
        BY DEF FilesFirst
      <4>5. \A j \in Coming(c)' \cap Placed(c)' : Held(j)' /\ ~files'[j].old
        BY <1>2, <1>6, <1>7, <3>1, <3>3, <4>2, <4>3 DEF Held
      <4>6. \A j \in Coming(c)' \ Placed(c)' : ~Held(j)'
        BY <1>6, <3>3, <4>2, <4>4 DEF Held
      <4> QED
        BY <2>3, <3>2, <4>5, <4>6
    <3>5. CASE Req(c).op \notin {"upload", "photo"}
      <4>1. Coming(c) = {}
        BY <3>5 DEF Coming, Brings
      <4> QED
        BY <2>3, <3>2, <3>3, <4>1
    <3> QED
      BY <3>4, <3>5
  <2> QED
    BY <2>1, <2>2, <2>3 DEF Stored
<1>17. RowsGoFirst'
  BY <1>1, <1>4, <1>9, <1>13 DEF RowsGoFirst
<1>18. TripsListPictures'
  BY <1>3, <1>9 DEF TripsListPictures, At, Stored
<1>19. SweepKnows'
  BY <1>8, <1>9 DEF SweepKnows
<1>20. RowsHaveBytes'
  <2>1. \A m \in db.media : Key(m.id, "file") \in Keys
    BY <1>9 DEF MediaKeys
  <2>2. \A p \in db.photos : PhotoKeys(p) \subseteq Keys
    BY <1>9 DEF PhotosKeys
  <2>3. \A j \in Keys : files[j] # None => files'[j] # None
    BY <1>7 DEF Held
  <2> QED
    BY <2>1, <2>2, <2>3 DEF RowsHaveBytes, Held
<1>21. LinksShowPictures' /\ NoCopies'
  <2>1. LockedRows' = LockedRows
    BY <1>3 DEF TypeOK, LockedRows, Stored
  <2> QED
    BY <2>1 DEF LinksShowPictures, NoCopies, MediaIds
<1> QED
  BY <1>10, <1>14, <1>15, <1>16, <1>17, <1>18, <1>19, <1>20, <1>21

LEMMA SizeStored == ASSUME LibraryInv, NEW c \in Clients, task[c].step \in {"put"}, NewKeys(c) # {}
                    PROVE  FileSize(c) \in Nat
<1> USE DEF LibraryInv
<1>1. Req(c) \in Requests
  BY DEF TypeOK, Tasks, Req
<1>2. CASE Req(c).op = "upload"
  <2>1. Req(c).parts \in Seq(Pictures) /\ Req(c).parts # <<>>
    BY <1>1, <1>2, RequestShapes DEF RequestsFit
  <2>2. Head(Req(c).parts) \in Pictures
    BY <2>1
  <2> QED
    BY <1>2, <2>2 DEF FileSize, NextFile, Pictures
<1>3. CASE Req(c).op \in {"photo", "setAvatar"}
  BY <1>1, <1>3, RequestShapes DEF FileSize
<1> QED
  BY <1>2, <1>3 DEF NewKeys

LEMMA PutKeeps ==
  ASSUME LibraryInv, NEW c \in Clients, Put(c) \/ PutFails(c)
  PROVE  LibraryInv'
<1> USE DEF LibraryInv
<1> DEFINE obj == [size |-> FileSize(c), old |-> FALSE]
<1>1. task \in [Clients -> Tasks] /\ task[c] \in Tasks /\ task[c].step = "put"
  BY DEF TypeOK, Tasks, Put, PutFails
<1>2. task[c].keys \subseteq NewKeys(c)
  BY <1>1 DEF FilesFirst
<1>3. obj \in Objects /\ ~obj.old
  <2>1. \E k : k \in task[c].keys
    BY DEF Put, PutFails
  <2>2. FileSize(c) \in Nat
    BY <1>1, <1>2, <2>1, SizeStored
  <2> QED
    BY <2>2 DEF Objects
<1>4. CASE Put(c)
  <2>1. PICK k \in task[c].keys :
       /\ files' = [files EXCEPT ![k] = obj]
       /\ Goes(c, IF task[c].keys = {k} THEN "create" ELSE "put", [keys |-> task[c].keys \ {k}])
    BY <1>4 DEF Put
  <2> DEFINE s == IF task[c].keys = {k} THEN "create" ELSE "put"
             ks == task[c].keys \ {k}
  <2>2. s \in Steps /\ ks \in SUBSET StoreKeys
    BY <1>1 DEF Steps, Tasks
  <2> HIDE DEF obj
  <2>3. \E t \in Tasks :
           /\ task' = [task EXCEPT ![c] = t]
           /\ t.step = s /\ t.keys = ks /\ t.req = task[c].req /\ t.rows = task[c].rows
    <3> HIDE DEF s, ks
    <3>1. Goes(c, s, [keys |-> ks])
      BY <2>1 DEF s, ks
    <3> QED
      BY <1>1, <2>2, <3>1, MovingWithKeys
  <2>4. \E t \in Tasks : Stored(c, k, obj, t)
    BY <2>1, <2>3 DEF Stored
  <2>5. UNCHANGED <<db, sweep, past>>
    BY <1>4 DEF Put
  <2> QED
    BY ONLY LibraryInv, c \in Clients, k \in task[c].keys, <1>1, <1>3, <2>4, <2>5, StoredKeeps
<1>5. CASE PutFails(c)
  <2>1. PICK k \in task[c].keys : files' \in {files, [files EXCEPT ![k] = obj]}
    BY <1>5 DEF PutFails
  <2>2. NewKeys(c) \in SUBSET StoreKeys
    BY <1>1, NewNames
  <2> HIDE DEF obj
  <2>3. \E t \in Tasks : Stored(c, k, obj, t)
    <3>1. CASE Goes(c, "undo", [keys |-> NewKeys(c)])
      <4>1. "undo" \in Steps
        BY DEF Steps
      <4>2. \E t \in Tasks :
           /\ task' = [task EXCEPT ![c] = t]
           /\ t.step = "undo" /\ t.keys = NewKeys(c) /\ t.req = task[c].req /\ t.rows = task[c].rows
        BY <1>1, <2>2, <3>1, <4>1, MovingWithKeys
      <4> QED
        BY <2>1, <4>2 DEF Stored
    <3>2. CASE Goes(c, "failed", <<>>)
      <4>1. "failed" \in Steps
        BY DEF Steps
      <4>2. \E t \in Tasks :
           /\ task' = [task EXCEPT ![c] = t]
           /\ t.step = "failed" /\ t.keys = task[c].keys /\ t.req = task[c].req /\ t.rows = task[c].rows
        BY <1>1, <3>2, <4>1, Moving
      <4> QED
        BY <2>1, <4>2 DEF Stored
    <3> QED
      BY <1>5, <3>1, <3>2 DEF PutFails, Ends
  <2>5. UNCHANGED <<db, sweep, past>>
    BY <1>5 DEF PutFails
  <2> QED
    BY ONLY LibraryInv, c \in Clients, k \in task[c].keys, <1>1, <1>3, <2>3, <2>5, StoredKeeps
<1> QED
  BY <1>4, <1>5

-----------------------------------------------------------------------------
(* A request that has stored its files makes their rows, or takes them back *)

LEMMA PicturesCreated ==
  ASSUME LibraryInv, NEW c \in Clients, Req(c).op = "upload", task[c].step = "create", Written(c) # None
  PROVE  /\ NextFile(c) \in Pictures /\ Written(c) = [db EXCEPT !.media = @ \cup {NextFile(c)}]
         /\ Written(c) \in Rows /\ IsFiniteSet(Written(c).media) /\ NoCopiesIn(Written(c))
<1> USE DEF LibraryInv
<1>1. Req(c) \in Requests /\ db \in Rows /\ IsFiniteSet(db.media) /\ NoCopiesIn(db)
  BY DEF TypeOK, Tasks, Req, NoCopies
<1>2. Req(c).parts \in Seq(Pictures) /\ Req(c).parts # <<>>
  BY <1>1, RequestShapes DEF RequestsFit
<1>3. NextFile(c) \in Pictures
  BY <1>2 DEF NextFile
<1>4. PICK m : m = NextFile(c)
  OBVIOUS
<1>5. Written(c) = [db EXCEPT !.media = @ \cup {m}] /\ ~Copy(db, m)
  BY <1>4 DEF Written, CreateMedia
<1>6. Written(c).media = db.media \cup {m} /\ Written(c).attached = db.attached
      /\ Written(c).photos = db.photos /\ Written(c) \in Rows
  BY <1>1, <1>3, <1>4, <1>5 DEF Rows
<1>7. IsFiniteSet(db.media \cup {m})
  BY <1>1, FS_AddElement
<1>8. \A n \in db.media : {n.sum, n.source} \cap {m.sum, m.source} \subseteq {None}
  BY <1>5 DEF Copy
<1>9. \A n, o \in db.media \cup {m} : n # o => {n.sum, n.source} \cap {o.sum, o.source} \subseteq {None}
  <2>1. \A n, o \in db.media : n # o => {n.sum, n.source} \cap {o.sum, o.source} \subseteq {None}
    BY <1>1 DEF NoCopiesIn
  <2> QED
    BY <1>8, <2>1
<1> QED
  BY <1>1, <1>3, <1>4, <1>5, <1>6, <1>7, <1>9 DEF NoCopiesIn

LEMMA PhotosCreated ==
  ASSUME LibraryInv, NEW c \in Clients, Req(c).op = "photo", Written(c) # None
  PROVE  /\ Req(c).id \in STRING /\ Written(c) = [db EXCEPT !.photos = @ \cup {Req(c).id}]
         /\ Written(c) \in Rows /\ IsFiniteSet(Written(c).photos) /\ NoCopiesIn(Written(c))
<1> USE DEF LibraryInv
<1>1. Req(c) \in Requests /\ db \in Rows /\ IsFiniteSet(db.photos) /\ NoCopiesIn(db)
  BY DEF TypeOK, Tasks, Req, NoCopies
<1>2. PICK p : p = Req(c).id
  OBVIOUS
<1>3. p \in STRING
  BY <1>1, <1>2, RequestShapes
<1>4. Written(c) = [db EXCEPT !.photos = @ \cup {p}] /\ ~(Cardinality(db.photos) >= MaxPhotos)
  BY <1>2 DEF Written, AddPhoto
<1>5. IsFiniteSet(db.photos \cup {p}) /\ Cardinality(db.photos \cup {p}) <= MaxPhotos
  BY <1>1, <1>4, RoomForOne, LimitAssumption
<1>6. Written(c).media = db.media /\ Written(c).attached = db.attached
      /\ Written(c).photos = db.photos \cup {p} /\ Written(c) \in Rows
  BY <1>1, <1>3, <1>4 DEF Rows
<1> QED
  BY <1>1, <1>2, <1>3, <1>4, <1>5, <1>6 DEF NoCopiesIn

\* The rows as they are, or with what a request has stored the files of.
Adds(c, d) ==
  /\ d \in Rows /\ IsFiniteSet(d.media) /\ IsFiniteSet(d.attached) /\ IsFiniteSet(d.photos)
  /\ NoCopiesIn(d) /\ d.links = db.links
  /\ db.media \subseteq d.media /\ db.photos \subseteq d.photos
  /\ \A m \in d.media \ db.media : Key(m.id, "file") \in NewKeys(c) /\ m.id = Name(c)
  /\ \A p \in d.photos \ db.photos : PhotoKeys(p) \subseteq NewKeys(c) /\ p = Name(c)
  /\ MediaKeys(d) = MediaKeys(db) \/ PhotosKeys(d) = PhotosKeys(db)
  /\ (d.media = db.media /\ d.photos = db.photos) \/ Req(c).op \in {"upload", "photo"}

LEMMA WrittenAdds ==
  ASSUME LibraryInv, NEW c \in Clients, task[c].step = "create", Written(c) # None, StoresFiles(c)
  PROVE  Adds(c, Written(c))
<1> USE DEF LibraryInv
<1>1. db \in Rows /\ IsFiniteSet(db.media) /\ IsFiniteSet(db.attached) /\ IsFiniteSet(db.photos)
  BY DEF TypeOK
<1>2. CASE Req(c).op = "upload"
  <2> DEFINE m == NextFile(c)
             d == Written(c)
  <2>1. d = [db EXCEPT !.media = @ \cup {m}] /\ d \in Rows /\ IsFiniteSet(d.media) /\ NoCopiesIn(d)
    BY <1>2, PicturesCreated
  <2>2. NewKeys(c) = {Key(m.id, "file")} /\ Name(c) = m.id
    BY <1>2 DEF NewKeys, Name
  <2> HIDE DEF m, d
  <2>3. d.media = db.media \cup {m} /\ d.attached = db.attached /\ d.photos = db.photos /\ d.links = db.links
    BY <1>1, <2>1 DEF Rows
  <2>4. PhotosKeys(d) = PhotosKeys(db)
    BY <2>3 DEF PhotosKeys
  <2>5. Adds(c, d)
    BY <1>1, <1>2, <2>1, <2>2, <2>3, <2>4 DEF Adds
  <2> QED
    BY <2>5 DEF d
<1>3. CASE Req(c).op = "photo"
  <2> DEFINE p == Req(c).id
             d == Written(c)
  <2>1. d = [db EXCEPT !.photos = @ \cup {p}] /\ d \in Rows /\ IsFiniteSet(d.photos) /\ NoCopiesIn(d)
    BY <1>3, PhotosCreated
  <2>2. NewKeys(c) = PhotoKeys(p) /\ Name(c) = p
    BY <1>3 DEF NewKeys, Name
  <2> HIDE DEF p, d
  <2>3. d.media = db.media /\ d.attached = db.attached /\ d.photos = db.photos \cup {p} /\ d.links = db.links
    BY <1>1, <2>1 DEF Rows
  <2>4. MediaKeys(d) = MediaKeys(db)
    BY <2>3 DEF MediaKeys
  <2>5. Adds(c, d)
    BY <1>1, <1>3, <2>1, <2>2, <2>3, <2>4 DEF Adds
  <2> QED
    BY <2>5 DEF d
<1>4. CASE Req(c).op = "setAvatar"
  <2>1. SamePictures(Written(c)) /\ Written(c).links = db.links
    BY <1>4, OtherRowsAre
  <2> QED
    BY <1>1, <2>1 DEF SamePictures, Adds, MediaKeys
<1> QED
  BY <1>2, <1>3, <1>4 DEF StoresFiles

LEMMA NamesAdded ==
  ASSUME NEW c, NEW d, Adds(c, d)
  PROVE  /\ Named(db) \subseteq Named(d) /\ Named(d) \subseteq Named(db) \cup NewKeys(c)
         /\ MediaKeys(d) \subseteq MediaKeys(db) \cup NewKeys(c)
         /\ PhotosKeys(d) \subseteq PhotosKeys(db) \cup NewKeys(c)
         /\ \A k \in Named(d) \ Named(db) : k[1] = Name(c)
         /\ Named(d) # Named(db) => Req(c).op \in {"upload", "photo"}
<1>1. MediaKeys(db) \subseteq MediaKeys(d) /\ PhotosKeys(db) \subseteq PhotosKeys(d)
  BY DEF MediaKeys, PhotosKeys, Adds
<1>2. MediaKeys(d) \subseteq MediaKeys(db) \cup NewKeys(c) /\ PhotosKeys(d) \subseteq PhotosKeys(db) \cup NewKeys(c)
  BY DEF MediaKeys, PhotosKeys, Adds
<1>3. \A k \in MediaKeys(d) \ MediaKeys(db) : k[1] = Name(c)
  BY DEF MediaKeys, Key, Adds
<1>4. ASSUME NEW k \in PhotosKeys(d) \ PhotosKeys(db)
      PROVE  k[1] = Name(c)
  <2>1. PICK p \in d.photos : k \in PhotoKeys(p)
    BY <1>4 DEF PhotosKeys
  <2>2. p \notin db.photos
    BY <1>4, <2>1 DEF PhotosKeys
  <2>3. p = Name(c)
    BY <2>1, <2>2 DEF Adds
  <2>4. k[1] = p
    BY ONLY <2>1 DEF PhotoKeys, Key
  <2> QED
    BY <2>3, <2>4
<1>5. Named(d) # Named(db) => Req(c).op \in {"upload", "photo"}
  BY DEF Named, MediaKeys, PhotosKeys, Adds
<1> QED
  BY <1>1, <1>2, <1>3, <1>4, <1>5 DEF Named

LEMMA RowsMadeKeep ==
  ASSUME LibraryInv, NEW c \in Clients, NEW t \in Tasks, task' = [task EXCEPT ![c] = t],
         task[c].step = "create", NEW d, d = db', Adds(c, d),
         t.rows = task[c].rows, t.req.op = task[c].req.op, t.step \in {"part", "done", "undo"},
         t.req.op = "upload" =>
           \A i, j \in DOMAIN t.req.parts : t.req.parts[i].id = t.req.parts[j].id => i = j,
         Coming(c)' \subseteq Coming(c) \ NewKeys(c),
         t.step = "undo" => t.keys = NewKeys(c) /\ (Named(d) # Named(db) => Name(c) \in past'.doubtful),
         UNCHANGED <<files, sweep>>, past.doubtful \subseteq past'.doubtful,
         past' \in [doubtful : SUBSET (STRING \cup {None}), stale : BOOLEAN, overlapped : BOOLEAN,
                    shown : [Targets -> (SUBSET STRING) \cup {None}]]
  PROVE  LibraryInv'
<1> USE DEF LibraryInv
<1>1. /\ NewKeys(c) \subseteq Keys /\ NewKeys(c) \cap Named(db) = {}
      /\ \A b \in Clients \ {c} : NewKeys(c) \cap Coming(b) = {}
      /\ Req(c).op \in {"upload", "photo"} => NewKeys(c) \subseteq Coming(c)
      /\ Req(c).op \notin {"upload", "photo"} => NewKeys(c) \subseteq {AvatarKey}
  BY NewNames
<1>2. task'[c] = t /\ \A b \in Clients \ {c} : task'[b] = task[b]
  BY DEF TypeOK
<1>3. \A b \in Clients : b # c =>
         /\ Coming(b)' = Coming(b) /\ Placed(b)' = Placed(b) /\ Doomed(b)' = Doomed(b)
         /\ Removing(b)' = Removing(b) /\ NewKeys(b)' = NewKeys(b)
  BY OthersStay
<1>4. Named(db)' = Named(d) /\ MediaKeys(db)' = MediaKeys(d) /\ PhotosKeys(db)' = PhotosKeys(d)
  BY DEF Named, MediaKeys, PhotosKeys
<1>5. /\ Named(db) \subseteq Named(d) /\ Named(d) \subseteq Named(db) \cup NewKeys(c)
      /\ MediaKeys(d) \subseteq MediaKeys(db) \cup NewKeys(c)
      /\ PhotosKeys(d) \subseteq PhotosKeys(db) \cup NewKeys(c)
      /\ \A k \in Named(d) \ Named(db) : k[1] = Name(c)
      /\ Named(d) # Named(db) => Req(c).op \in {"upload", "photo"}
  BY NamesAdded
<1>6. UNCHANGED <<Keys, sweep.found>>
  BY DEF Keys
<1>7. Placed(c)' = {} /\ Doomed(c)' \subseteq NewKeys(c) /\ Removing(c)' \subseteq NewKeys(c)
  BY <1>2 DEF Placed, Doomed, Removing
<1>8. ASSUME NEW k \in NewKeys(c), Req(c).op \in {"upload", "photo"}
      PROVE  k \in Coming(c) /\ Held(k) /\ ~files[k].old /\ k # AvatarKey /\ k \notin sweep.found
  <2>1. k \in Coming(c) /\ k \in Placed(c)
    BY <1>1, <1>8 DEF Placed
  <2> QED
    BY <2>1 DEF FilesFirst, NamesApart
<1>9. \A k \in Named(d) \ Named(db) : k \in Coming(c) /\ Held(k) /\ ~files[k].old /\ k # AvatarKey
                                     /\ k \notin sweep.found
  BY <1>5, <1>8
<1>10. TypeOK'
  BY <1>6 DEF TypeOK, Adds
<1>11. NamesApart'
  <2>1. \A b \in Clients : Coming(b)' \subseteq Coming(b) /\ Coming(b)' \cap NewKeys(c) = {}
    BY <1>1, <1>3
  <2>2. MediaKeys(d) \cap PhotosKeys(d) = {}
    <3>1. MediaKeys(db) \cap PhotosKeys(db) = {}
      BY DEF NamesApart
    <3>2. MediaKeys(db) \subseteq Named(db) /\ PhotosKeys(db) \subseteq Named(db)
      BY DEF Named
    <3>3. MediaKeys(d) = MediaKeys(db) \/ PhotosKeys(d) = PhotosKeys(db)
      BY DEF Adds
    <3> QED
      BY ONLY <1>1, <1>5, <3>1, <3>2, <3>3
  <2>3. Named(d) \subseteq Keys \ {AvatarKey}
    BY <1>9 DEF NamesApart
  <2>4. \A b \in Clients : Coming(b)' \cap (Named(d) \cup sweep.found) = {}
    BY <1>5, <2>1 DEF NamesApart
  <2>5. \A a, b \in Clients : Coming(a)' \cap Doomed(b)' = {}
    BY <1>3, <1>7, <2>1 DEF NamesApart
  <2> QED
    BY <1>4, <1>6, <2>1, <2>2, <2>3, <2>4, <2>5 DEF NamesApart
<1>12. RequestsFit'
  BY <1>2 DEF RequestsFit, Req
<1>13. FilesFirst'
  <2> SUFFICES ASSUME NEW b \in Clients
               PROVE  /\ \A j \in Coming(b)' \cap Placed(b)' : Held(j)' /\ ~files'[j].old
                      /\ \A j \in Coming(b)' \ Placed(b)' : ~Held(j)'
                      /\ task'[b].step = "put" => task'[b].keys \subseteq NewKeys(b)'
    BY DEF FilesFirst
  <2>1. CASE b # c
    BY <1>2, <1>3, <2>1 DEF FilesFirst, Held
  <2>2. CASE b = c
    <3>1. Placed(c) \subseteq NewKeys(c)
      BY DEF Placed
    <3>2. \A j \in Coming(c) \ Placed(c) : ~Held(j)
      BY DEF FilesFirst
    <3> QED
      BY <1>2, <1>7, <2>2, <3>1, <3>2 DEF Held
  <2> QED
    BY <2>1, <2>2
<1>14. RowsGoFirst'
  <2> SUFFICES ASSUME NEW b \in Clients, NEW k \in Removing(b)' \cap Named(d)
               PROVE  k[1] \in past'.doubtful
    BY <1>4 DEF RowsGoFirst
  <2>1. CASE b # c
    <3>1. k \in Removing(b) /\ k \in Doomed(b)
      BY <1>3, <2>1 DEF Removing, Doomed
    <3>2. k \in Named(db)
      BY <1>9, <3>1 DEF NamesApart
    <3> QED
      BY <3>1, <3>2 DEF RowsGoFirst
  <2>2. CASE b = c
    <3>1. k \in NewKeys(c) /\ t.step = "undo"
      BY <1>2, <1>7, <2>2 DEF Removing
    <3> QED
      BY <1>1, <1>5, <3>1
  <2> QED
    BY <2>1, <2>2
<1>15. TripsListPictures'
  <2> SUFFICES ASSUME NEW b \in Clients, At(b, "deleteTrip", "delete")'
               PROVE  task'[b].keys \cap PhotosKeys(d) = {}
    BY <1>4 DEF TripsListPictures
  <2>1. b # c
    BY <1>2 DEF At
  <2>2. At(b, "deleteTrip", "delete") /\ task'[b].keys = Doomed(b) /\ Doomed(b) = task[b].keys
    BY <1>2, <2>1 DEF At, Doomed
  <2>3. \A k \in PhotosKeys(d) \ PhotosKeys(db) : k \in Coming(c)
    <3>1. \A k \in PhotosKeys(d) \ PhotosKeys(db) : k \in NewKeys(c) /\ k \notin Named(db) /\ k \in Named(d)
      BY <1>1, <1>5 DEF Named
    <3> QED
      BY <1>9, <3>1
  <2> QED
    BY <2>2, <2>3 DEF TripsListPictures, NamesApart
<1>16. SweepKnows'
  <2>1. \A k \in Named(d) \ Named(db) : ~Aged(k) /\ k \notin sweep.found
    BY <1>9 DEF Aged
  <2>2. \A k \in Named(d) : Aged(k)' = Aged(k)
    BY DEF Aged, Held
  <2>3. \A k \in MediaKeys(d) \ MediaKeys(db) : k \in Named(d) \ Named(db)
    BY <1>1, <1>5 DEF Named
  <2>4. \A k \in PhotosKeys(d) \ PhotosKeys(db) : k \in Named(d) \ Named(db)
    BY <1>1, <1>5 DEF Named
  <2>5. MediaKeys(d) \subseteq Named(d) /\ PhotosKeys(d) \subseteq Named(d)
    BY DEF Named
  <2> QED
    BY <1>4, <2>1, <2>2, <2>3, <2>4, <2>5 DEF SweepKnows
<1>17. RowsHaveBytes'
  <2>1. \A m \in d.media \ db.media : Key(m.id, "file") \notin Named(db) => Held(Key(m.id, "file"))
    BY <1>9 DEF Named, MediaKeys
  <2>2. \A m \in d.media \ db.media : Key(m.id, "file") \notin Named(db)
    BY <1>1 DEF Adds
  <2>3. \A p \in d.photos \ db.photos : \A k \in PhotoKeys(p) : k \in Named(d) \ Named(db)
    BY <1>1 DEF Adds, Named, PhotosKeys
  <2> QED
    BY <1>9, <2>1, <2>2, <2>3 DEF RowsHaveBytes, Held
<1>18. LinksShowPictures' /\ NoCopies'
  <2>1. LockedRows' = LockedRows
    BY <1>2 DEF TypeOK, LockedRows
  <2> QED
    BY <2>1 DEF LinksShowPictures, NoCopies, MediaIds, Adds
<1> QED
  BY <1>10, <1>11, <1>12, <1>13, <1>14, <1>15, <1>16, <1>17, <1>18

\* The tail of what an upload brings is what is left to store.
LEMMA NextFileGoes ==
  ASSUME LibraryInv, NEW c \in Clients, Req(c).op = "upload", task[c].step = "create",
         NEW t \in Tasks, task' = [task EXCEPT ![c] = t], t.step = "part",
         t.req = [Req(c) EXCEPT !.parts = Tail(@)]
  PROVE  /\ t.req.op = "upload" /\ t.req \in Requests
         /\ \A i, j \in DOMAIN t.req.parts : t.req.parts[i].id = t.req.parts[j].id => i = j
         /\ Coming(c)' \subseteq Coming(c) \ NewKeys(c)
<1> USE DEF LibraryInv
<1>1. Req(c) \in Requests /\ task[c].step \in Unsent
  BY DEF TypeOK, Tasks, Req, Unsent
<1>2. Req(c) \in [op : {"upload"}, parts : Seq(Pictures)] /\ Req(c).parts # <<>>
  BY <1>1, RequestShapes DEF RequestsFit
<1> DEFINE parts == Req(c).parts
<1>3. t.req.op = "upload" /\ t.req.parts = Tail(parts)
  BY <1>2
<1>4. parts \in Seq(Pictures) /\ parts # <<>> /\ Tail(parts) \in Seq(Pictures)
  BY <1>2
<1>5. t.req \in Requests
  BY <1>2, <1>4 DEF Requests
<1>6. \A i, j \in DOMAIN parts : parts[i].id = parts[j].id => i = j
  BY DEF RequestsFit
<1> HIDE DEF parts
<1>7. /\ DOMAIN Tail(parts) = 1 .. Len(parts) - 1 /\ Len(parts) \in Nat /\ DOMAIN parts = 1 .. Len(parts)
      /\ \A i \in 1 .. Len(parts) - 1 : Tail(parts)[i] = parts[i + 1]
  BY <1>4
<1>8. \A i \in DOMAIN Tail(parts) : i + 1 \in DOMAIN parts /\ i \in Nat /\ i >= 1 /\ Tail(parts)[i] = parts[i + 1]
  BY <1>7
<1>9. \A i, j \in DOMAIN Tail(parts) : Tail(parts)[i].id = Tail(parts)[j].id => i = j
  <2> SUFFICES ASSUME NEW i \in DOMAIN Tail(parts), NEW j \in DOMAIN Tail(parts),
                      Tail(parts)[i].id = Tail(parts)[j].id
               PROVE  i = j
    OBVIOUS
  <2>1. i + 1 = j + 1
    BY <1>6, <1>8
  <2> QED
    BY <1>8, <2>1
<1>10. 1 \in DOMAIN parts /\ Head(parts) = parts[1]
  BY <1>4
<1>11. Coming(c)' = {Key(Tail(parts)[i].id, "file") : i \in DOMAIN Tail(parts)}
  <2>1. task'[c] = t
    BY DEF TypeOK
  <2>2. Coming(c)' = Brings(t.req)
    BY <2>1 DEF Coming, Req, Unsent
  <2>3. Brings(t.req) = {Key(t.req.parts[i].id, "file") : i \in DOMAIN t.req.parts}
    BY <1>3 DEF Brings
  <2> QED
    BY ONLY <1>3, <2>2, <2>3
<1>12. Coming(c) = {Key(parts[i].id, "file") : i \in DOMAIN parts}
       /\ NewKeys(c) = {Key(parts[1].id, "file")}
  BY <1>1, <1>10 DEF Coming, Brings, NewKeys, NextFile, parts
<1>13. ASSUME NEW i \in DOMAIN Tail(parts)
       PROVE  Key(Tail(parts)[i].id, "file") \in Coming(c) \ NewKeys(c)
  <2>1. i + 1 \in DOMAIN parts /\ Tail(parts)[i] = parts[i + 1] /\ i + 1 # 1
    BY <1>8, <1>13
  <2>2. parts[i + 1].id # parts[1].id
    BY <1>6, <1>10, <2>1
  <2>3. Key(parts[i + 1].id, "file") # Key(parts[1].id, "file")
    BY <2>2 DEF Key
  <2> QED
    BY <1>12, <2>1, <2>3
<1>14. Coming(c)' \subseteq Coming(c) \ NewKeys(c)
  BY <1>11, <1>13
<1>15. \A i, j \in DOMAIN t.req.parts : t.req.parts[i].id = t.req.parts[j].id => i = j
  BY ONLY <1>3, <1>9
<1> QED
  BY <1>3, <1>5, <1>14, <1>15

PastType ==
  [doubtful : SUBSET (STRING \cup {None}), stale : BOOLEAN, overlapped : BOOLEAN,
   shown : [Targets -> (SUBSET STRING) \cup {None}]]

\* A request that only takes its files back.
LEMMA NothingAdded ==
  ASSUME LibraryInv, NEW c \in Clients
  PROVE  Adds(c, db)
BY DEF LibraryInv, TypeOK, NoCopies, Adds

LEMMA UndoneKeep ==
  ASSUME LibraryInv, NEW c \in Clients, task[c].step = "create", StoresFiles(c), Undo(c),
         NEW d, d = db', Adds(c, d), UNCHANGED <<files, sweep>>,
         Named(d) # Named(db) => Name(c) \in past'.doubtful,
         past.doubtful \subseteq past'.doubtful, past' \in PastType
  PROVE  LibraryInv'
<1> USE DEF LibraryInv
<1>1. task \in [Clients -> Tasks] /\ task[c] \in Tasks /\ Req(c) \in Requests
  BY DEF TypeOK, Tasks, Req
<1>2. NewKeys(c) \in SUBSET StoreKeys
  <2>1. NewKeys(c) \subseteq Keys
    BY NewNames
  <2> QED
    BY <2>1 DEF TypeOK
<1>3. Goes(c, "undo", [keys |-> NewKeys(c)]) /\ "undo" \in Steps
  BY DEF Undo, Steps
<1>4. PICK t \in Tasks :
        /\ task' = [task EXCEPT ![c] = t]
        /\ t.step = "undo" /\ t.keys = NewKeys(c) /\ t.req = task[c].req /\ t.rows = task[c].rows
  BY <1>1, <1>2, <1>3, MovingWithKeys
<1>5. Coming(c)' = {}
  BY <1>1, <1>4 DEF Coming, Unsent
<1>6. t.req.op = "upload" =>
        \A i, j \in DOMAIN t.req.parts : t.req.parts[i].id = t.req.parts[j].id => i = j
  BY <1>4 DEF RequestsFit, Req
<1>7. /\ Coming(c)' \subseteq Coming(c) \ NewKeys(c)
      /\ t.step \in {"part", "done", "undo"} /\ t.req.op = task[c].req.op
      /\ t.step = "undo" => t.keys = NewKeys(c) /\ (Named(d) # Named(db) => Name(c) \in past'.doubtful)
  BY <1>4, <1>5
<1> QED
  BY ONLY LibraryInv, c \in Clients, t \in Tasks, task[c].step = "create", d = db', Adds(c, d), <1>4, <1>6, <1>7,
     UNCHANGED <<files, sweep>>, past.doubtful \subseteq past'.doubtful, past' \in PastType, RowsMadeKeep
     DEF PastType

LEMMA CreateKeeps ==
  ASSUME LibraryInv, NEW c \in Clients, Create(c) \/ CreateRefused(c) \/ CreateFails(c)
  PROVE  LibraryInv'
<1> USE DEF LibraryInv
<1>1. task \in [Clients -> Tasks] /\ task[c] \in Tasks /\ Req(c) \in Requests /\ task[c].step = "create"
      /\ UNCHANGED <<files, sweep>> /\ past \in PastType
  BY DEF TypeOK, Tasks, Req, Create, CreateRefused, CreateFails, PastType
<1>2. ASSUME Ends(c, "refused") \/ Ends(c, "done")
      PROVE  \E t \in Tasks : Settles(c, t) /\ ReadsOn(c, t) /\ t.step \in {"refused", "done"}
  <2>1. "refused" \in Steps /\ "done" \in Steps
    BY DEF Steps
  <2>2. ASSUME NEW s \in {"refused", "done"}, Goes(c, s, <<>>)
        PROVE  \E t \in Tasks : Settles(c, t) /\ ReadsOn(c, t) /\ t.step \in {"refused", "done"}
    <3>1. s \in Steps
      BY <2>1, <2>2
    <3>2. PICK t \in Tasks :
           /\ task' = [task EXCEPT ![c] = t]
           /\ t.step = s /\ t.req = task[c].req /\ t.rows = task[c].rows
      BY <1>1, <2>2, <3>1, Moving
    <3> QED
      BY <2>2, <3>2 DEF Settles, ReadsOn, Unsent
  <2> QED
    BY <1>2, <2>2 DEF Ends
<1>3. CASE Create(c)
  <2>1. Written(c) # None /\ db' = Written(c) /\ past' = past
    BY <1>3 DEF Create
  <2>2. CASE Req(c).op \in {"attach", "track", "report", "setAvatar"}
    <3>1. \E t \in Tasks : Settles(c, t)
      BY <1>2, <1>3, <2>2 DEF Create
    <3>2. SamePictures(db') /\ db'.links = db.links
      BY <2>1, <2>2, OtherRowsAre
    <3> QED
      BY <1>1, <2>1, <3>1, <3>2, RowsKeep DEF PastType
  <2>3. CASE Req(c).op = "photo"
    <3>1. PICK t \in Tasks : Settles(c, t) /\ ReadsOn(c, t) /\ t.step \in {"refused", "done"}
      BY <1>2, <1>3, <2>3 DEF Create
    <3>2. Coming(c)' = {}
      BY <1>1, <3>1 DEF Coming, Settles, Unsent
    <3>3. Adds(c, Written(c))
      BY <1>1, <2>1, <2>3, WrittenAdds DEF StoresFiles
    <3>4. PICK d : d = db' /\ Adds(c, d)
      BY <2>1, <3>3
    <3>5. t.step = "done"
      <4>1. task'[c] = t
        BY <1>1, <3>1 DEF Settles
      <4>2. task'[c].step = "done"
        BY <1>1, <1>3, <2>3 DEF Create, Ends, Goes, Tasks
      <4> QED
        BY <4>1, <4>2
    <3>6. /\ task' = [task EXCEPT ![c] = t] /\ t.req.op = task[c].req.op
          /\ t.rows = task[c].rows /\ t.step \in {"part", "done", "undo"} /\ t.step # "undo"
          /\ t.req.op # "upload" /\ Coming(c)' \subseteq Coming(c) \ NewKeys(c)
      BY <2>3, <3>1, <3>2, <3>5 DEF ReadsOn, Req
    <3> QED
      BY ONLY LibraryInv, c \in Clients, t \in Tasks, <1>1, <2>1, <3>4, <3>6, RowsMadeKeep DEF PastType
  <2>4. CASE Req(c).op = "upload"
    <3>0. PICK r, n : r = [Req(c) EXCEPT !.parts = Tail(@)] /\ n = task[c].used + NextFile(c).size
      OBVIOUS
    <3> DEFINE read == [used |-> n, req |-> r]
    <3>1. Goes(c, "part", read) /\ "part" \in Steps
      BY <1>3, <2>4, <3>0 DEF Create, Steps
    <3>2. n \in Nat
      <4>1. NextFile(c) \in Pictures
        BY <1>1, <2>1, <2>4, PicturesCreated
      <4> QED
        BY <1>1, <3>0, <4>1 DEF Tasks, Pictures
    <3>3. r \in Requests
      <4>1. Req(c) \in [op : {"upload"}, parts : Seq(Pictures)] /\ Req(c).parts # <<>>
        BY <1>1, <2>4, RequestShapes DEF RequestsFit
      <4>2. Tail(Req(c).parts) \in Seq(Pictures)
        BY <4>1
      <4> QED
        BY <3>0, <4>1, <4>2 DEF Requests
    <3>4. Typed(read) /\ DOMAIN read = {"used", "req"} /\ read["req"] = r
      BY ONLY <3>2, <3>3 DEF Typed, TypeOf
    <3> HIDE DEF read
    <3>5. PICK t \in Tasks :
           /\ task' = [task EXCEPT ![c] = t]
           /\ t.step = "part"
           /\ \A f \in DOMAIN TypeOf \ {"step"} :
                t[f] = IF f \in DOMAIN read THEN read[f] ELSE task[c][f]
      BY <1>1, <3>1, <3>4, GoingOn
    <3>6. t.rows = task[c].rows /\ t.req = [Req(c) EXCEPT !.parts = Tail(@)]
      BY <3>0, <3>4, <3>5 DEF TypeOf
    <3>7. Adds(c, Written(c))
      BY <1>1, <2>1, <2>4, WrittenAdds DEF StoresFiles
    <3>8. PICK d : d = db' /\ Adds(c, d)
      BY <2>1, <3>7
    <3>9. /\ t.req.op = "upload" /\ Coming(c)' \subseteq Coming(c) \ NewKeys(c)
          /\ \A i, j \in DOMAIN t.req.parts : t.req.parts[i].id = t.req.parts[j].id => i = j
      BY <1>1, <2>4, <3>5, <3>6, NextFileGoes
    <3>10. t.req.op = task[c].req.op /\ t.step \in {"part", "done", "undo"} /\ t.step # "undo"
      BY <2>4, <3>5, <3>9 DEF Req
    <3> QED
      BY ONLY LibraryInv, c \in Clients, t \in Tasks, <1>1, <2>1, <3>5, <3>6, <3>8, <3>9, <3>10, RowsMadeKeep
         DEF PastType
  <2>5. Req(c).op \in {"attach", "track", "report", "setAvatar", "photo", "upload"}
    BY <1>1 DEF RequestsFit, Grows
  <2> QED
    BY <2>2, <2>3, <2>4, <2>5
<1>4. CASE CreateRefused(c)
  <2>1. CASE StoresFiles(c)
    <3>1. PICK d : d = db' /\ d = db
      BY <1>4 DEF CreateRefused
    <3>2. Adds(c, d) /\ past' = past /\ Undo(c) /\ Named(d) = Named(db)
      BY <1>4, <3>1, NothingAdded DEF CreateRefused
    <3> QED
      BY <1>1, <2>1, <3>1, <3>2, UndoneKeep
  <2>2. CASE ~StoresFiles(c)
    <3>1. \E t \in Tasks : ReadsOn(c, t)
      BY <1>2, <1>4, <2>2 DEF CreateRefused, Undo
    <3> QED
      BY <1>4, <3>1, ReadingKeeps DEF CreateRefused
  <2> QED
    BY <2>1, <2>2
<1>5. CASE CreateFails(c)
  <2>1. Written(c) # None /\ Undo(c)
    BY <1>5 DEF CreateFails
  <2>2. \/ db' = db /\ past' = past
        \/ db' = Written(c) /\ past' = [past EXCEPT !.doubtful = @ \cup {Name(c)}]
    BY <1>5 DEF CreateFails
  <2>3. Name(c) \in STRING \cup {None}
    <3>1. CASE Req(c).op = "upload"
      <4>1. NextFile(c) \in Pictures
        BY <1>1, <2>1, <3>1, PicturesCreated
      <4> QED
        BY <3>1, <4>1 DEF Name, Pictures
    <3>2. CASE Req(c).op = "photo"
      BY <1>1, <3>2, RequestShapes DEF Name
    <3>3. CASE Req(c).op \notin {"upload", "photo"}
      BY <3>3 DEF Name
    <3> QED
      BY <3>1, <3>2, <3>3
  <2>4. past' \in PastType /\ past.doubtful \subseteq past'.doubtful
        /\ (db' = db \/ Name(c) \in past'.doubtful)
    BY <1>1, <2>2, <2>3 DEF PastType
  <2>5. CASE StoresFiles(c)
    <3>1. Adds(c, db) /\ Adds(c, Written(c))
      BY <1>1, <2>1, <2>5, NothingAdded, WrittenAdds
    <3>2. PICK d : d = db' /\ Adds(c, d)
      BY <2>2, <3>1
    <3>3. Named(d) # Named(db) => Name(c) \in past'.doubtful
      BY <2>4, <3>2
    <3> QED
      BY <1>1, <2>1, <2>4, <2>5, <3>2, <3>3, UndoneKeep
  <2>6. CASE ~StoresFiles(c)
    <3>1. \E t \in Tasks : Settles(c, t)
      BY <1>2, <2>1, <2>6 DEF Undo
    <3>2. Req(c).op \in {"attach", "track", "report", "setAvatar"} /\ Name(c) = None
      BY <1>1, <2>6 DEF RequestsFit, Grows, StoresFiles, Name
    <3>3. SamePictures(db') /\ db'.links = db.links
      <4>1. SamePictures(db)
        BY DEF TypeOK, NoCopies, SamePictures
      <4> QED
        BY <2>1, <2>2, <3>2, <4>1, OtherRowsAre
    <3> QED
      BY <1>1, <2>4, <3>1, <3>3, RowsKeep DEF PastType
  <2> QED
    BY <2>5, <2>6
<1> QED
  BY <1>3, <1>4, <1>5

-----------------------------------------------------------------------------
(* Removals                                                                *)

\* Fewer rows, and links to what is left.
Fewer(d) ==
  /\ d \in Rows /\ d.media \subseteq db.media /\ d.attached \subseteq db.attached /\ d.photos \subseteq db.photos
  /\ \A l \in d.links \cup LockedRows : l.media \in {m.id : m \in d.media}

LEMMA FewerAreSound ==
  ASSUME LibraryInv, NEW d, Fewer(d)
  PROVE  /\ IsFiniteSet(d.media) /\ IsFiniteSet(d.attached) /\ IsFiniteSet(d.photos) /\ NoCopiesIn(d)
         /\ MediaKeys(d) \subseteq MediaKeys(db) /\ PhotosKeys(d) \subseteq PhotosKeys(db)
         /\ Named(d) \subseteq Named(db)
<1> USE DEF LibraryInv
<1>1. IsFiniteSet(db.media) /\ IsFiniteSet(db.attached) /\ IsFiniteSet(db.photos) /\ NoCopiesIn(db)
  BY DEF TypeOK, NoCopies
<1>2. /\ IsFiniteSet(d.media)
      /\ IsFiniteSet(d.attached) /\ Cardinality(d.attached) <= Cardinality(db.attached)
      /\ IsFiniteSet(d.photos) /\ Cardinality(d.photos) <= Cardinality(db.photos)
  BY <1>1, FS_Subset DEF Fewer
<1>3. /\ Cardinality(d.attached) \in Nat /\ Cardinality(db.attached) \in Nat
      /\ Cardinality(d.photos) \in Nat /\ Cardinality(db.photos) \in Nat
  BY <1>1, <1>2, FS_CardinalityType
<1>4. Cardinality(d.photos) <= MaxPhotos /\ Cardinality(d.attached) <= MaxAttachments
  BY <1>1, <1>2, <1>3, LimitAssumption DEF NoCopiesIn
<1>5. NoCopiesIn(d)
  BY <1>1, <1>4 DEF NoCopiesIn, Fewer
<1>6. MediaKeys(d) \subseteq MediaKeys(db) /\ PhotosKeys(d) \subseteq PhotosKeys(db)
  BY DEF MediaKeys, PhotosKeys, Fewer
<1> QED
  BY <1>2, <1>5, <1>6 DEF Named

\* Where a request goes that has removed rows d leaves out, or listed their files.
Clears(c, t, d) ==
  /\ task' = [task EXCEPT ![c] = t]
  /\ t.req = task[c].req /\ t.rows = task[c].rows
  /\ t.step \in {"files", "delete", "rendered", "done", "refused"}
  /\ t.step \in {"files", "delete", "rendered"} => \A b \in Clients : t.keys \cap Coming(b) = {}
  /\ t.step = "files" => \A k \in t.keys \cap Named(d) : k[1] \in past'.doubtful
  /\ t.step = "delete" /\ t.req.op = "deleteTrip" => t.keys \cap PhotosKeys(d) = {}

LEMMA ClearedKeep ==
  ASSUME LibraryInv, NEW c \in Clients, Req(c).op \notin {"upload", "photo"}, NEW d, d = db', Fewer(d),
         NEW t \in Tasks, Clears(c, t, d), UNCHANGED <<files, sweep>>,
         past' \in PastType, past.doubtful \subseteq past'.doubtful
  PROVE  LibraryInv'
<1> USE DEF LibraryInv
<1>1. task'[c] = t /\ \A b \in Clients \ {c} : task'[b] = task[b]
  BY DEF TypeOK, Clears
<1>2. \A b \in Clients : b # c =>
         /\ Coming(b)' = Coming(b) /\ Placed(b)' = Placed(b) /\ Doomed(b)' = Doomed(b)
         /\ Removing(b)' = Removing(b) /\ NewKeys(b)' = NewKeys(b)
  BY OthersStay DEF Clears
<1>3. Named(db)' = Named(d) /\ MediaKeys(db)' = MediaKeys(d) /\ PhotosKeys(db)' = PhotosKeys(d)
  BY DEF Named, MediaKeys, PhotosKeys
<1>4. /\ IsFiniteSet(d.media) /\ IsFiniteSet(d.attached) /\ IsFiniteSet(d.photos) /\ NoCopiesIn(d)
      /\ MediaKeys(d) \subseteq MediaKeys(db) /\ PhotosKeys(d) \subseteq PhotosKeys(db)
      /\ Named(d) \subseteq Named(db)
  BY FewerAreSound
<1>5. UNCHANGED <<Keys, sweep.found>>
  BY DEF Keys
<1>6. Coming(c)' = {} /\ Placed(c)' = {}
  BY <1>1 DEF Coming, Placed, Unsent, Clears
<1>7. /\ Doomed(c)' = IF t.step \in {"files", "delete", "rendered"} THEN t.keys ELSE {}
      /\ Removing(c)' = IF t.step = "files" THEN t.keys ELSE {}
  BY <1>1 DEF Doomed, Removing, Clears
<1>8. \A b \in Clients : Doomed(c)' \cap Coming(b) = {}
  BY <1>7 DEF Clears
<1>9. \A k \in Removing(c)' \cap Named(d) : k[1] \in past'.doubtful
  BY <1>7 DEF Clears
<1>10. TypeOK'
  BY <1>4, <1>5 DEF TypeOK, Clears, Fewer, PastType
<1>11. NamesApart'
  <2>1. \A b \in Clients : Coming(b)' \subseteq Coming(b)
    BY <1>2, <1>6
  <2>2. \A a, b \in Clients : Coming(a)' \cap Doomed(b)' = {}
    BY <1>2, <1>8, <2>1 DEF NamesApart
  <2> QED
    BY <1>3, <1>4, <1>5, <2>1, <2>2 DEF NamesApart
<1>12. RequestsFit'
  BY <1>1 DEF RequestsFit, Req, Clears
<1>13. FilesFirst'
  <2>1. t.step # "put"
    BY DEF Clears
  <2> QED
    BY <1>1, <1>2, <1>6, <2>1 DEF FilesFirst, Held
<1>14. RowsGoFirst'
  BY <1>2, <1>3, <1>4, <1>9 DEF RowsGoFirst
<1>15. TripsListPictures'
  <2> SUFFICES ASSUME NEW b \in Clients, At(b, "deleteTrip", "delete")'
               PROVE  task'[b].keys \cap PhotosKeys(d) = {}
    BY <1>3 DEF TripsListPictures
  <2>1. CASE b = c
    BY <1>1, <2>1 DEF At, Clears
  <2>2. CASE b # c
    BY <1>1, <1>4, <2>2 DEF TripsListPictures, At
  <2> QED
    BY <2>1, <2>2
<1>16. SweepKnows'
  <2>1. \A k : Aged(k)' = Aged(k)
    BY DEF Aged, Held
  <2> QED
    BY <1>3, <1>4, <2>1 DEF SweepKnows
<1>17. RowsHaveBytes'
  BY DEF RowsHaveBytes, Held, Fewer
<1>18. LinksShowPictures' /\ NoCopies'
  <2>1. LockedRows' = LockedRows
    BY <1>1 DEF TypeOK, LockedRows, Clears
  <2> QED
    BY <1>4, <2>1 DEF LinksShowPictures, NoCopies, MediaIds, Fewer
<1> QED
  BY <1>10, <1>11, <1>12, <1>13, <1>14, <1>15, <1>16, <1>17, <1>18

LEMMA PastStays == ASSUME LibraryInv, UNCHANGED past PROVE past' \in PastType /\ past.doubtful \subseteq past'.doubtful
BY DEF LibraryInv, TypeOK, PastType

LEMMA EndsWithRows ==
  ASSUME LibraryInv, NEW c \in Clients, Req(c).op \notin {"upload", "photo"}, Fewer(db'),
         Ends(c, "done") \/ Ends(c, "refused"), UNCHANGED <<files, sweep, past>>
  PROVE  LibraryInv'
<1> USE DEF LibraryInv
<1>1. task \in [Clients -> Tasks]
  BY DEF TypeOK
<1>2. PICK d : d = db' /\ Fewer(d)
  OBVIOUS
<1>3. ASSUME NEW s \in {"done", "refused"}, Goes(c, s, <<>>)
      PROVE  \E t \in Tasks : Clears(c, t, d)
  <2>1. s \in Steps
    BY <1>3 DEF Steps
  <2> QED
    BY <1>1, <1>3, <2>1, Moving DEF Clears
<1>4. \E t \in Tasks : Clears(c, t, d)
  BY <1>3 DEF Ends
<1> QED
  BY <1>2, <1>4, PastStays, ClearedKeep

LEMMA FollowsWithRows ==
  ASSUME LibraryInv, NEW c \in Clients, Req(c).op \notin {"upload", "photo"}, Fewer(db'),
         NEW keys \in SUBSET StoreKeys, Follows(c, keys), NEW d, d = db',
         \A b \in Clients : keys \cap Coming(b) = {},
         keys \cap Named(d) = {}, UNCHANGED <<files, sweep, past>>
  PROVE  LibraryInv'
<1> USE DEF LibraryInv
<1>1. task \in [Clients -> Tasks]
  BY DEF TypeOK
<1>2. CASE Ends(c, "done")
  BY <1>2, EndsWithRows
<1>3. CASE Goes(c, "files", [keys |-> keys])
  <2>1. "files" \in Steps
    BY DEF Steps
  <2>2. PICK t \in Tasks :
           /\ task' = [task EXCEPT ![c] = t]
           /\ t.step = "files" /\ t.keys = keys /\ t.req = task[c].req /\ t.rows = task[c].rows
    BY <1>1, <1>3, <2>1, MovingWithKeys
  <2>3. Clears(c, t, d)
    BY <2>2 DEF Clears
  <2> QED
    BY <2>3, PastStays, ClearedKeep
<1> QED
  BY <1>2, <1>3 DEF Follows

LEMMA Unchanged == ASSUME LibraryInv PROVE Fewer(db)
BY DEF LibraryInv, TypeOK, LinksShowPictures, MediaIds, Fewer

Removes(c) ==
  \/ handleUpdateStorage(c) \/ handleDeleteMedia(c) \/ ListsKeys(c) \/ handleDeleteTrip(c) \/ handleDeleteMe(c)
  \/ handleDeleteAvatar(c) \/ handleDeleteIdeaPhoto(c) \/ handleDeleteIdea(c)
  \/ handleDeleteAttachment(c) \/ handleDeleteItemTrack(c) \/ renderPreviews(c)

LEMMA NamedKeysAre ==
  ASSUME LibraryInv
  PROVE  /\ Named(db) \subseteq StoreKeys /\ MediaKeys(db) \subseteq Named(db) /\ PhotosKeys(db) \subseteq Named(db)
         /\ \A b \in Clients : Named(db) \cap Coming(b) = {} /\ AvatarKey \notin Coming(b)
         /\ AvatarKey \in StoreKeys /\ AvatarKey \notin Named(db)
         /\ OtherKeys(db) \subseteq Named(db) \cup {AvatarKey}
BY DEF LibraryInv, TypeOK, NamesApart, Named, OtherKeys, PhotosKeys

LEMMA PicturesOut ==
  ASSUME LibraryInv, NEW c \in Clients, handleDeleteMedia(c)
  PROVE  LibraryInv'
<1> USE DEF LibraryInv
<1>1. db \in Rows /\ Req(c).op = "deleteMedia"
  BY DEF TypeOK, handleDeleteMedia, At, Req
<1>2. PICK id, d : id = Req(c).id /\ d = DeleteMedia(db, id)
  OBVIOUS
<1>3. d = db' /\ (\A row \in LockedRows : row.media # id)
      /\ (IF d = db THEN Ends(c, "refused") ELSE Follows(c, {Key(id, "file")}))
      /\ UNCHANGED <<files, sweep, past>>
  BY <1>2 DEF handleDeleteMedia
<1>4. /\ d.media = {m \in db.media : m.id # id} /\ d.links = {l \in db.links : l.media # id}
      /\ d.attached = db.attached /\ d.photos = db.photos /\ d \in Rows
  BY <1>1, <1>2 DEF DeleteMedia, Rows
<1>5. \A l \in d.links \cup LockedRows : l.media \in {m.id : m \in d.media}
  BY <1>3, <1>4 DEF LinksShowPictures, MediaIds
<1>6. Fewer(d)
  BY <1>4, <1>5 DEF Fewer
<1>7. CASE d = db
  BY <1>1, <1>3, <1>6, <1>7, EndsWithRows
<1>8. CASE d # db
  <2>1. id \in MediaIds
    <3>1. SUFFICES ASSUME id \notin MediaIds PROVE d = db
      BY <1>8
    <3>2. \A m \in db.media : m.id # id
      BY <3>1 DEF MediaIds
    <3>3. \A l \in db.links : l.media # id
      BY <3>1 DEF LinksShowPictures
    <3>4. {m \in db.media : m.id # id} = db.media /\ {l \in db.links : l.media # id} = db.links
      BY <3>2, <3>3
    <3> QED
      BY <1>1, <1>2, <3>4 DEF DeleteMedia, Rows
  <2>2. Key(id, "file") \in MediaKeys(db)
    BY <2>1 DEF MediaKeys, MediaIds
  <2>3. Key(id, "file") \notin MediaKeys(d)
    BY <1>4 DEF MediaKeys, Key
  <2>4. Key(id, "file") \notin PhotosKeys(d)
    BY <1>4, <2>2 DEF PhotosKeys, NamesApart
  <2>5. /\ {Key(id, "file")} \in SUBSET StoreKeys /\ {Key(id, "file")} \cap Named(d) = {}
        /\ \A b \in Clients : {Key(id, "file")} \cap Coming(b) = {}
    BY <2>2, <2>3, <2>4, NamedKeysAre DEF Named
  <2> QED
    BY <1>1, <1>3, <1>6, <1>8, <2>5, FollowsWithRows
<1> QED
  BY <1>7, <1>8

LEMMA PhotosOut ==
  ASSUME LibraryInv, NEW c \in Clients, handleDeleteIdeaPhoto(c)
  PROVE  LibraryInv'
<1> USE DEF LibraryInv
<1>1. db \in Rows /\ Req(c).op = "deletePhoto"
  BY DEF TypeOK, handleDeleteIdeaPhoto, At, Req
<1>2. PICK id, d : id = Req(c).id /\ d = DeletePhoto(db, id)
  OBVIOUS
<1>3. d = db' /\ (IF d = db THEN Ends(c, "refused") ELSE Follows(c, PhotoKeys(id)))
      /\ UNCHANGED <<files, sweep, past>>
  BY <1>2 DEF handleDeleteIdeaPhoto
<1>4. /\ d.media = db.media /\ d.links = db.links /\ d.attached = db.attached
      /\ d.photos = db.photos \ {id} /\ d \in Rows
  BY <1>1, <1>2 DEF DeletePhoto, Rows
<1>5. Fewer(d)
  BY <1>4 DEF LinksShowPictures, MediaIds, Fewer
<1>6. CASE d = db
  BY <1>1, <1>3, <1>5, <1>6, EndsWithRows
<1>7. CASE d # db
  <2>1. id \in db.photos
    <3>1. id \notin db.photos => db.photos \ {id} = db.photos
      OBVIOUS
    <3> QED
      BY <1>1, <1>2, <1>7, <3>1 DEF DeletePhoto, Rows
  <2>2. PhotoKeys(id) \subseteq PhotosKeys(db)
    BY <2>1 DEF PhotosKeys
  <2>3. PhotoKeys(id) \cap PhotosKeys(d) = {}
    <3>1. \A p : p # id => PhotoKeys(id) \cap PhotoKeys(p) = {}
      BY DEF PhotoKeys, Key
    <3> QED
      BY <1>4, <3>1 DEF PhotosKeys
  <2>4. PhotoKeys(id) \cap MediaKeys(d) = {}
    BY <1>4, <2>2 DEF MediaKeys, NamesApart
  <2>5. /\ PhotoKeys(id) \in SUBSET StoreKeys /\ PhotoKeys(id) \cap Named(d) = {}
        /\ \A b \in Clients : PhotoKeys(id) \cap Coming(b) = {}
    BY <2>2, <2>3, <2>4, NamedKeysAre DEF Named
  <2> QED
    BY <1>1, <1>3, <1>5, <1>7, <2>5, FollowsWithRows
<1> QED
  BY <1>6, <1>7

LEMMA RemovesKeep ==
  ASSUME LibraryInv, NEW c \in Clients, Removes(c)
  PROVE  LibraryInv'
<1> USE DEF LibraryInv
<1>1. db \in Rows /\ task \in [Clients -> Tasks] /\ Req(c) \in Requests /\ UNCHANGED <<files, sweep, past>>
  BY DEF TypeOK, Tasks, Req, Removes, handleUpdateStorage, handleDeleteMedia, ListsKeys, handleDeleteTrip,
     handleDeleteMe, handleDeleteAvatar, handleDeleteIdeaPhoto, handleDeleteIdea, handleDeleteAttachment,
     handleDeleteItemTrack, renderPreviews
<1>2. Req(c).op \notin {"upload", "photo"}
  BY DEF Req, At, Removes, handleUpdateStorage, handleDeleteMedia, ListsKeys, handleDeleteTrip,
     handleDeleteMe, handleDeleteAvatar, handleDeleteIdeaPhoto, handleDeleteIdea, handleDeleteAttachment,
     handleDeleteItemTrack, renderPreviews
<1>3. Fewer(db)
  BY Unchanged
<1>4. \A b \in Clients : Named(db) \cap Coming(b) = {} /\ AvatarKey \notin Coming(b)
  BY NamedKeysAre
<1>5. ASSUME UNCHANGED db, Ends(c, "refused") \/ Ends(c, "done")
      PROVE  LibraryInv'
  <2>1. Fewer(db')
    BY <1>3, <1>5
  <2> QED
    BY <1>1, <1>2, <1>5, <2>1, EndsWithRows
<1>6. ASSUME NEW d \in Rows, d = db', d.media = db.media, d.photos = db.photos, d.attached \subseteq db.attached,
             d.links = db.links
      PROVE  Fewer(d)
  BY <1>6 DEF LinksShowPictures, MediaIds, Fewer
<1>7. CASE handleUpdateStorage(c)
  <2>1. PICK d : d = SetTripQuota(db, Req(c).quota)
    OBVIOUS
  <2>2. d = db' /\ Ends(c, "done") /\ Req(c).quota \in Nat
    BY <1>1, <1>7, <2>1, RequestShapes DEF handleUpdateStorage, At, Req
  <2>3. d \in Rows /\ d.media = db.media /\ d.photos = db.photos /\ d.attached = db.attached /\ d.links = db.links
    BY <1>1, <2>1, <2>2 DEF SetTripQuota, Rows
  <2> QED
    BY <1>1, <1>2, <1>6, <2>2, <2>3, EndsWithRows
<1>8. CASE handleDeleteAttachment(c)
  <2>1. PICK d : d = DeleteAttachment(db, Req(c).sum)
    OBVIOUS
  <2>2. d = db' /\ (Ends(c, "done") \/ Ends(c, "refused"))
    BY <1>8, <2>1 DEF handleDeleteAttachment
  <2>3. d \in Rows /\ d.media = db.media /\ d.photos = db.photos /\ d.attached \subseteq db.attached
        /\ d.links = db.links
    BY <1>1, <2>1 DEF DeleteAttachment, Rows
  <2> QED
    BY <1>1, <1>2, <1>6, <2>2, <2>3, EndsWithRows
<1>9. CASE handleDeleteItemTrack(c)
  <2>1. PICK d : d = DeleteTrack(db)
    OBVIOUS
  <2>2. d = db' /\ Ends(c, "done")
    BY <1>9, <2>1 DEF handleDeleteItemTrack
  <2>3. d \in Rows /\ d.media = db.media /\ d.photos = db.photos /\ d.attached = db.attached /\ d.links = db.links
    BY <1>1, <2>1 DEF DeleteTrack, Rows
  <2> QED
    BY <1>1, <1>2, <1>6, <2>2, <2>3, EndsWithRows
<1>10. CASE handleDeleteAvatar(c)
  <2>1. CASE ~db.account
    BY <1>5, <1>10, <2>1 DEF handleDeleteAvatar
  <2>2. CASE db.account
    <3>1. PICK keys : keys = IF db.avatar THEN {AvatarKey} ELSE {}
      OBVIOUS
    <3>2. PICK d : d = [db EXCEPT !.avatar = FALSE]
      OBVIOUS
    <3>3. d = db' /\ Follows(c, keys)
      BY <1>10, <2>2, <3>1, <3>2 DEF handleDeleteAvatar, SetAvatar
    <3>4. d \in Rows /\ d.media = db.media /\ d.photos = db.photos /\ d.attached = db.attached
          /\ d.links = db.links
      BY <1>1, <3>2 DEF Rows
    <3>5. Fewer(d) /\ Named(d) = Named(db)
      BY <1>6, <3>3, <3>4 DEF Named, MediaKeys, PhotosKeys
    <3>6. keys \in SUBSET StoreKeys /\ keys \cap Named(d) = {} /\ (\A b \in Clients : keys \cap Coming(b) = {})
      BY <3>1, <3>5, NamedKeysAre
    <3> QED
      BY <1>1, <1>2, <3>3, <3>5, <3>6, FollowsWithRows
  <2> QED
    BY <2>1, <2>2
<1>11. CASE handleDeleteIdea(c)
  <2>1. CASE ~db.idea
    BY <1>5, <1>11, <2>1 DEF handleDeleteIdea
  <2>2. CASE db.idea
    <3>1. PICK d : d = WithoutIdea(db)
      OBVIOUS
    <3>2. d = db' /\ Follows(c, PhotosKeys(db))
      BY <1>11, <2>2, <3>1 DEF handleDeleteIdea, PhotosKeys
    <3>3. d \in Rows /\ d.media = db.media /\ d.photos = {} /\ d.attached = db.attached /\ d.links = db.links
      BY <1>1, <3>1 DEF WithoutIdea, Rows
    <3>4. Fewer(d)
      BY <3>3 DEF LinksShowPictures, MediaIds, Fewer
    <3>5. Named(d) = MediaKeys(db)
      BY <3>3 DEF Named, MediaKeys, PhotosKeys
    <3>6. PhotosKeys(db) \in SUBSET StoreKeys /\ PhotosKeys(db) \cap Named(d) = {}
          /\ (\A b \in Clients : PhotosKeys(db) \cap Coming(b) = {})
      BY <3>5, NamedKeysAre DEF NamesApart
    <3> QED
      BY <1>1, <1>2, <3>2, <3>4, <3>6, FollowsWithRows
  <2> QED
    BY <2>1, <2>2
<1>12. CASE ListsKeys(c)
  <2>1. CASE Ends(c, "refused")
    BY <1>5, <1>12, <2>1 DEF ListsKeys
  <2>2. CASE ~Ends(c, "refused")
    <3>1. PICK keys : keys = MediaKeys(db) \cup IF Req(c).op = "deleteMe" THEN OtherKeys(db) ELSE {}
      OBVIOUS
    <3>2. Goes(c, "delete", [keys |-> keys]) /\ db' = db
      BY <1>12, <2>2, <3>1 DEF ListsKeys
    <3>3. keys \in SUBSET StoreKeys /\ (\A b \in Clients : keys \cap Coming(b) = {})
          /\ (Req(c).op = "deleteTrip" => keys \cap PhotosKeys(db) = {})
      BY <3>1, NamedKeysAre DEF NamesApart
    <3>4. "delete" \in Steps
      BY DEF Steps
    <3>5. PICK t \in Tasks :
           /\ task' = [task EXCEPT ![c] = t]
           /\ t.step = "delete" /\ t.keys = keys /\ t.req = task[c].req /\ t.rows = task[c].rows
      BY <1>1, <3>2, <3>3, <3>4, MovingWithKeys
    <3>6. PICK d : d = db' /\ d = db
      BY <3>2
    <3>7. Clears(c, t, d)
      BY <3>3, <3>5, <3>6 DEF Clears, Req
    <3> QED
      BY <1>1, <1>2, <1>3, <3>6, <3>7, PastStays, ClearedKeep
  <2> QED
    BY <2>1, <2>2
<1>13. ASSUME LockedRows = {}, NEW d \in Rows, d = db', d.media = {}, d.attached = {}, d.links = {},
              d.photos \in {db.photos, {}}, Follows(c, task[c].keys), task[c].step = "delete",
              d.photos = {} \/ Req(c).op = "deleteTrip"
       PROVE  LibraryInv'
  <2>1. Fewer(d)
    BY <1>13 DEF Fewer
  <2>2. MediaKeys(d) = {} /\ PhotosKeys(d) \in {PhotosKeys(db), {}} /\ (d.photos = {} => PhotosKeys(d) = {})
    BY <1>13 DEF MediaKeys, PhotosKeys
  <2>3. Req(c).op = "deleteTrip" => task[c].keys \cap PhotosKeys(db) = {}
    BY <1>13 DEF TripsListPictures, At, Req
  <2>4. task[c].keys \cap Named(d) = {}
    BY <1>13, <2>2, <2>3 DEF Named
  <2>5. task[c].keys \in SUBSET StoreKeys
    BY <1>1 DEF Tasks
  <2>6. \A b \in Clients : task[c].keys \cap Coming(b) = {}
    BY <1>13 DEF NamesApart, Doomed
  <2> QED
    BY <1>1, <1>2, <1>13, <2>1, <2>4, <2>5, <2>6, FollowsWithRows
<1>14. CASE handleDeleteTrip(c)
  <2>1. CASE ~db.trip
    BY <1>5, <1>14, <2>1 DEF handleDeleteTrip
  <2>2. CASE db.trip
    <3>1. PICK d : d = WithoutTrip(db)
      OBVIOUS
    <3>2. d \in Rows /\ d.media = {} /\ d.attached = {} /\ d.links = {} /\ d.photos = db.photos
      BY <1>1, <3>1 DEF WithoutTrip, Rows
    <3>3. d = db' /\ LockedRows = {} /\ Follows(c, task[c].keys) /\ task[c].step = "delete"
          /\ Req(c).op = "deleteTrip"
      BY <1>14, <2>2, <3>1 DEF handleDeleteTrip, At, Req
    <3> QED
      BY <1>13, <3>2, <3>3
  <2> QED
    BY <2>1, <2>2
<1>15. CASE handleDeleteMe(c)
  <2>1. CASE ~db.account
    BY <1>5, <1>15, <2>1 DEF handleDeleteMe
  <2>2. CASE db.account
    <3>1. PICK d : d = [WithoutIdea(WithoutTrip(db)) EXCEPT !.account = FALSE, !.avatar = FALSE]
      OBVIOUS
    <3>2. d \in Rows /\ d.media = {} /\ d.attached = {} /\ d.links = {} /\ d.photos = {}
      BY <1>1, <3>1 DEF WithoutTrip, WithoutIdea, Rows
    <3>3. d = db' /\ LockedRows = {} /\ Follows(c, task[c].keys) /\ task[c].step = "delete"
      BY <1>15, <2>2, <3>1 DEF handleDeleteMe, At
    <3> QED
      BY <1>13, <3>2, <3>3
  <2> QED
    BY <2>1, <2>2
<1>16. CASE renderPreviews(c)
  <2>1. CASE Ends(c, "refused")
    BY <1>5, <1>16, <2>1 DEF renderPreviews
  <2>2. CASE ~Ends(c, "refused")
    <3>1. PICK keys : keys = {Key(Req(c).id, "file")}
      OBVIOUS
    <3>2. Goes(c, "rendered", [keys |-> keys]) /\ db' = db /\ keys \subseteq MediaKeys(db)
          /\ Req(c).op = "render"
      BY <1>16, <2>2, <3>1 DEF renderPreviews, At, Req
    <3>3. keys \in SUBSET StoreKeys /\ (\A b \in Clients : keys \cap Coming(b) = {})
      BY <3>2, NamedKeysAre
    <3>4. "rendered" \in Steps
      BY DEF Steps
    <3>5. PICK t \in Tasks :
           /\ task' = [task EXCEPT ![c] = t]
           /\ t.step = "rendered" /\ t.keys = keys /\ t.req = task[c].req /\ t.rows = task[c].rows
      BY <1>1, <3>2, <3>3, <3>4, MovingWithKeys
    <3>6. PICK d : d = db' /\ d = db
      BY <3>2
    <3>7. Clears(c, t, d)
      BY <3>3, <3>5 DEF Clears
    <3> QED
      BY <1>1, <1>2, <1>3, <3>6, <3>7, PastStays, ClearedKeep
  <2> QED
    BY <2>1, <2>2
<1> QED
  BY <1>7, <1>8, <1>9, <1>10, <1>11, <1>12, <1>14, <1>15, <1>16, PicturesOut, PhotosOut DEF Removes

(* Once the previews are in place: what cannot be opened goes, in doubt if  *)
(* its row still stands.                                                    *)
LEMMA KeptKeep ==
  ASSUME LibraryInv, NEW c \in Clients, keepPreviews(c)
  PROVE  LibraryInv'
<1> USE DEF LibraryInv
<1>1. /\ db \in Rows /\ task \in [Clients -> Tasks] /\ task[c] \in Tasks /\ past \in PastType
      /\ UNCHANGED <<db, files, sweep>> /\ task[c].step = "rendered" /\ Req(c).op = "render"
  BY DEF TypeOK, PastType, keepPreviews, At, Req
<1>2. PICK k \in task[c].keys :
        \/ Held(k) /\ Ends(c, "done") /\ UNCHANGED past
        \/ ~Held(k) /\ Follows(c, {k}) /\ UNCHANGED past
        \/ Follows(c, {k}) /\ past' = [past EXCEPT !.doubtful = @ \cup {k[1]}]
  BY DEF keepPreviews
<1>3. k \in StoreKeys /\ k[1] \in STRING /\ \A b \in Clients : k \notin Coming(b)
  <2>1. k \in StoreKeys /\ k \in Doomed(c)
    BY <1>1 DEF Tasks, Doomed
  <2> QED
    BY <2>1 DEF NamesApart, StoreKeys
<1>4. past' \in PastType /\ past.doubtful \subseteq past'.doubtful
  BY <1>1, <1>2, <1>3 DEF PastType
<1>5. ~Held(k) /\ k \in Named(db) => k[1] \in past.doubtful
  <2>1. CASE k \in MediaKeys(db)
    <3>1. PICK m \in db.media : k = Key(m.id, "file")
      BY <2>1 DEF MediaKeys
    <3>2. k[1] = m.id
      BY <3>1 DEF Key
    <3> QED
      BY <3>1, <3>2 DEF RowsHaveBytes
  <2>2. CASE k \in PhotosKeys(db)
    <3>1. PICK p \in db.photos : k \in PhotoKeys(p)
      BY <2>2 DEF PhotosKeys
    <3>2. k[1] = p
      BY <3>1 DEF PhotoKeys, Key
    <3> QED
      BY <3>1, <3>2 DEF RowsHaveBytes
  <2> QED
    BY <2>1, <2>2 DEF Named
<1>6. Follows(c, {k}) => (k \in Named(db) => k[1] \in past'.doubtful)
  <2>1. CASE ~Held(k) /\ UNCHANGED past
    BY <1>5, <2>1
  <2>2. CASE past' = [past EXCEPT !.doubtful = @ \cup {k[1]}]
    BY <1>1, <2>2 DEF PastType
  <2>3. CASE Held(k) /\ Ends(c, "done") /\ UNCHANGED past
    <3>1. ~Follows(c, {k})
      <4>1. task'[c].step = "done"
        BY <1>1, <2>3 DEF Ends, Goes, Tasks
      <4>2. Goes(c, "files", [keys |-> {k}]) => task'[c].step = "files"
        BY <1>1 DEF Goes, Tasks
      <4> QED
        BY <4>1, <4>2 DEF Follows
    <3> QED
      BY <3>1
  <2> QED
    BY <1>2, <2>1, <2>2, <2>3
<1>7. PICK d : d = db' /\ d = db
  BY <1>1
<1>8. Fewer(d)
  BY <1>7, Unchanged
<1>9. \E t \in Tasks : Clears(c, t, d)
  <2>1. "done" \in Steps /\ "files" \in Steps /\ {k} \in SUBSET StoreKeys
    BY <1>3 DEF Steps
  <2>2. CASE Ends(c, "done")
    <3>1. Goes(c, "done", <<>>)
      BY <2>2 DEF Ends
    <3> QED
      BY <1>1, <2>1, <3>1, Moving DEF Clears
  <2>3. CASE Follows(c, {k})
    <3>1. Goes(c, "files", [keys |-> {k}])
      BY <2>3 DEF Follows
    <3>2. PICK t \in Tasks :
           /\ task' = [task EXCEPT ![c] = t]
           /\ t.step = "files" /\ t.keys = {k} /\ t.req = task[c].req /\ t.rows = task[c].rows
      BY <1>1, <2>1, <3>1, MovingWithKeys
    <3> QED
      BY <1>3, <1>6, <1>7, <2>3, <3>2 DEF Clears
  <2> QED
    BY <1>2, <2>2, <2>3
<1> QED
  BY <1>1, <1>4, <1>7, <1>8, <1>9, ClearedKeep

(* Files that go are nobody's: their rows are gone or in doubt.            *)
LEMMA FileGone ==
  ASSUME LibraryInv, NEW k, files' \in {files, [files EXCEPT ![k] = None]},
         k \in Named(db) => k[1] \in past.doubtful,
         \A b \in Clients : k \notin Coming(b)
  PROVE  /\ files' \in [Keys -> Objects \cup {None}] /\ Keys' = Keys
         /\ \A j \in Keys : j # k => files'[j] = files[j]
         /\ \A j \in Keys : files'[j] \in {files[j], None}
         /\ \A b \in Clients : \A j \in Coming(b) : files'[j] = files[j]
         /\ \A m \in db.media : m.id \notin past.doubtful => files'[Key(m.id, "file")] # None
         /\ \A p \in db.photos : p \notin past.doubtful => \A j \in PhotoKeys(p) : files'[j] # None
<1> USE DEF LibraryInv
<1>1. files' \in [Keys -> Objects \cup {None}] /\ Keys' = Keys /\ (\A j \in Keys : j # k => files'[j] = files[j])
  BY DEF TypeOK, Keys
<1>2. \A b \in Clients : \A j \in Coming(b) : files'[j] = files[j]
  BY <1>1 DEF NamesApart
<1>3. ASSUME NEW m \in db.media, m.id \notin past.doubtful
      PROVE  files'[Key(m.id, "file")] # None
  <2>1. Key(m.id, "file") \in Named(db) /\ Key(m.id, "file")[1] = m.id
    BY <1>3 DEF Named, MediaKeys, Key
  <2>2. Key(m.id, "file") # k /\ Key(m.id, "file") \in Keys
    BY <1>3, <2>1 DEF NamesApart
  <2>3. files[Key(m.id, "file")] # None
    BY <1>3 DEF RowsHaveBytes, Held
  <2> QED
    BY <1>1, <2>2, <2>3
<1>4. ASSUME NEW p \in db.photos, p \notin past.doubtful, NEW j \in PhotoKeys(p)
      PROVE  files'[j] # None
  <2>1. j \in Named(db)
    BY <1>4 DEF Named, PhotosKeys
  <2>2. j[1] = p
    BY <1>4 DEF PhotoKeys, Key
  <2>3. j # k /\ j \in Keys
    BY <1>4, <2>1, <2>2 DEF NamesApart
  <2>4. files[j] # None
    BY <1>4 DEF RowsHaveBytes, Held
  <2> QED
    BY <1>1, <2>3, <2>4
<1>5. \A j \in Keys : files'[j] \in {files[j], None}
  BY DEF Keys
<1> QED
  BY <1>1, <1>2, <1>3, <1>4, <1>5

LEMMA DeleteKeeps ==
  ASSUME LibraryInv, NEW c \in Clients, DeleteFile(c)
  PROVE  LibraryInv'
<1> USE DEF LibraryInv
<1>1. task \in [Clients -> Tasks] /\ task[c] \in Tasks /\ UNCHANGED <<db, sweep, past>>
      /\ task[c].step \in {"undo", "files"}
  BY DEF TypeOK, Tasks, DeleteFile
<1>2. PICK k \in task[c].keys :
        /\ files' \in {files, [files EXCEPT ![k] = None]}
        /\ IF task[c].keys = {k} THEN Ends(c, "done") ELSE Goes(c, task[c].step, [keys |-> task[c].keys \ {k}])
  BY DEF DeleteFile
<1>3. k \in Removing(c) /\ k \in Doomed(c) /\ Removing(c) = task[c].keys
  BY <1>1 DEF Removing, Doomed
<1>4. (k \in Named(db) => k[1] \in past.doubtful) /\ (\A b \in Clients : k \notin Coming(b))
  BY <1>3 DEF RowsGoFirst, NamesApart
<1>5. /\ files' \in [Keys -> Objects \cup {None}] /\ Keys' = Keys
      /\ \A j \in Keys : files'[j] \in {files[j], None}
      /\ \A b \in Clients : \A j \in Coming(b) : files'[j] = files[j]
      /\ \A m \in db.media : m.id \notin past.doubtful => files'[Key(m.id, "file")] # None
      /\ \A p \in db.photos : p \notin past.doubtful => \A j \in PhotoKeys(p) : files'[j] # None
  BY <1>2, <1>4, FileGone
<1>6. \E t \in Tasks : /\ task' = [task EXCEPT ![c] = t] /\ t.req = task[c].req /\ t.rows = task[c].rows
                       /\ t.keys \subseteq task[c].keys /\ t.step \in {"undo", "files", "done"}
  <2>1. CASE Ends(c, "done")
    <3>1. "done" \in Steps
      BY DEF Steps
    <3>2. Goes(c, "done", <<>>)
      BY <2>1 DEF Ends
    <3> QED
      BY <1>1, <3>1, <3>2, Moving
  <2>2. CASE Goes(c, task[c].step, [keys |-> task[c].keys \ {k}])
    <3>1. PICK ks, s : ks = task[c].keys \ {k} /\ s = task[c].step
      OBVIOUS
    <3>2. ks \in SUBSET StoreKeys /\ s \in Steps /\ ks \subseteq task[c].keys /\ s \in {"undo", "files"}
      BY <1>1, <3>1 DEF Tasks
    <3>3. Goes(c, s, [keys |-> ks])
      BY <2>2, <3>1
    <3> QED
      BY <1>1, <3>2, <3>3, MovingWithKeys
  <2> QED
    BY <1>2, <2>1, <2>2
<1>7. PICK t \in Tasks : /\ task' = [task EXCEPT ![c] = t] /\ t.req = task[c].req /\ t.rows = task[c].rows
                         /\ t.keys \subseteq task[c].keys /\ t.step \in {"undo", "files", "done"}
  BY <1>6
<1>8. task'[c] = t /\ \A d \in Clients \ {c} : task'[d] = task[d]
  BY <1>1, <1>7
<1>9. \A d \in Clients : d # c =>
         /\ Coming(d)' = Coming(d) /\ Placed(d)' = Placed(d) /\ Doomed(d)' = Doomed(d)
         /\ Removing(d)' = Removing(d) /\ NewKeys(d)' = NewKeys(d)
  BY <1>7, OthersStay
<1>10. Coming(c)' = {} /\ Placed(c)' = {}
  BY <1>8, <1>7 DEF Coming, Placed, Unsent
<1>11. Doomed(c)' \subseteq Doomed(c) /\ Removing(c)' \subseteq Removing(c)
  <2>1. Doomed(c) = task[c].keys
    BY <1>1 DEF Doomed
  <2> QED
    BY <1>3, <1>7, <1>8, <2>1 DEF Doomed, Removing
<1>12. Named(db)' = Named(db) /\ MediaKeys(db)' = MediaKeys(db) /\ PhotosKeys(db)' = PhotosKeys(db)
       /\ MediaKeys(db) \subseteq Named(db) /\ PhotosKeys(db) \subseteq Named(db)
  BY <1>1 DEF Named, MediaKeys, PhotosKeys
<1>13. TypeOK'
  <2>1. task' \in [Clients -> Tasks]
    BY <1>1, <1>7
  <2> QED
    BY <1>1, <1>5, <2>1 DEF TypeOK
<1>14. NamesApart'
  <2>1. \A d \in Clients : Coming(d)' \subseteq Coming(d) /\ Doomed(d)' \subseteq Doomed(d)
    BY <1>9, <1>10, <1>11
  <2> QED
    BY <1>1, <1>5, <1>12, <2>1 DEF NamesApart
<1>15. RequestsFit'
  BY <1>7, <1>8 DEF RequestsFit, Req
<1>16. FilesFirst'
  <2>1. t.step # "put"
    BY <1>7
  <2> QED
    BY <1>5, <1>8, <1>9, <1>10, <2>1 DEF FilesFirst, Held
<1>17. RowsGoFirst'
  BY <1>1, <1>9, <1>11, <1>12 DEF RowsGoFirst
<1>18. TripsListPictures'
  BY <1>7, <1>8, <1>12 DEF TripsListPictures, At
<1>19. SweepKnows'
  <2>1. \A j \in Keys : Aged(j)' => Aged(j)
    BY <1>5 DEF Aged, Held
  <2> QED
    BY <1>1, <1>12, <2>1 DEF SweepKnows, NamesApart
<1>20. RowsHaveBytes'
  BY <1>1, <1>5 DEF RowsHaveBytes, Held
<1>21. LinksShowPictures' /\ NoCopies'
  <2>1. LockedRows' = LockedRows
    BY <1>7, <1>8, <1>1 DEF LockedRows
  <2> QED
    BY <1>1, <2>1 DEF LinksShowPictures, NoCopies, MediaIds
<1> QED
  BY <1>13, <1>14, <1>15, <1>16, <1>17, <1>18, <1>19, <1>20, <1>21

-----------------------------------------------------------------------------
(* The sweep, an hour that passes, a crash                                 *)

\* Nothing of a request depends on the store or the sweep.
LEMMA TasksStay ==
  ASSUME UNCHANGED task
  PROVE  \A b \in Clients :
           /\ Coming(b)' = Coming(b) /\ Placed(b)' = Placed(b) /\ Doomed(b)' = Doomed(b)
           /\ Removing(b)' = Removing(b) /\ NewKeys(b)' = NewKeys(b) /\ Req(b)' = Req(b)
BY DEF Coming, Placed, Doomed, Removing, NewKeys, Req, NextFile

LEMMA SweepingKeeps ==
  ASSUME LibraryInv, UNCHANGED <<db, task, past>>, NEW k,
         files' \in {files, [files EXCEPT ![k] = None]},
         k \in Named(db) => k[1] \in past.doubtful,
         \A b \in Clients : k \notin Coming(b),
         sweep' \in [step : {"idle", "others", "walk", "remove"}, named : SUBSET StoreKeys,
                     found : SUBSET StoreKeys],
         sweep'.step \in {"others", "walk"} => \A j \in MediaKeys(db) \ sweep'.named : ~Aged(j),
         sweep'.step = "walk" => \A j \in PhotosKeys(db) \ sweep'.named : ~Aged(j),
         sweep'.found \cap Named(db) = {},
         \A b \in Clients : Coming(b) \cap sweep'.found = {}
  PROVE  LibraryInv'
<1> USE DEF LibraryInv
<1>1. \A b \in Clients :
           /\ Coming(b)' = Coming(b) /\ Placed(b)' = Placed(b) /\ Doomed(b)' = Doomed(b)
           /\ Removing(b)' = Removing(b) /\ NewKeys(b)' = NewKeys(b) /\ Req(b)' = Req(b)
  BY TasksStay
<1>2. /\ files' \in [Keys -> Objects \cup {None}] /\ Keys' = Keys
      /\ \A j \in Keys : files'[j] \in {files[j], None}
      /\ \A b \in Clients : \A j \in Coming(b) : files'[j] = files[j]
      /\ \A m \in db.media : m.id \notin past.doubtful => files'[Key(m.id, "file")] # None
      /\ \A p \in db.photos : p \notin past.doubtful => \A j \in PhotoKeys(p) : files'[j] # None
  BY FileGone
<1>3. Named(db)' = Named(db) /\ MediaKeys(db)' = MediaKeys(db) /\ PhotosKeys(db)' = PhotosKeys(db)
       /\ MediaKeys(db) \subseteq Named(db) /\ PhotosKeys(db) \subseteq Named(db)
  BY DEF Named, MediaKeys, PhotosKeys
<1>4. TypeOK'
  BY <1>2 DEF TypeOK
<1>5. NamesApart'
  BY <1>1, <1>2, <1>3 DEF NamesApart
<1>6. RequestsFit'
  BY <1>1 DEF RequestsFit
<1>7. FilesFirst'
  BY <1>1, <1>2 DEF FilesFirst, Held
<1>8. RowsGoFirst'
  BY <1>1, <1>3 DEF RowsGoFirst
<1>9. TripsListPictures'
  BY <1>3 DEF TripsListPictures, At
<1>10. SweepKnows'
  <2>1. \A j \in Keys : Aged(j)' => Aged(j)
    BY <1>2 DEF Aged, Held
  <2> QED
    BY <1>3, <2>1 DEF SweepKnows, NamesApart
<1>11. RowsHaveBytes'
  BY <1>2 DEF RowsHaveBytes, Held
<1>12. LinksShowPictures' /\ NoCopies'
  BY DEF LinksShowPictures, NoCopies, MediaIds, LockedRows
<1> QED
  BY <1>4, <1>5, <1>6, <1>7, <1>8, <1>9, <1>10, <1>11, <1>12

LEMMA SweepKeeps ==
  ASSUME LibraryInv, sweepStore
  PROVE  LibraryInv'
<1> USE DEF LibraryInv
<1>1. UNCHANGED <<db, task, past>>
  BY DEF sweepStore, ListAll, ListOthers, FindLeftovers, RemoveLeftover, SweepEnds
<1>2. sweep \in [step : {"idle", "others", "walk", "remove"}, named : SUBSET StoreKeys,
                 found : SUBSET StoreKeys]
  BY DEF TypeOK
<1>3. Named(db) \subseteq StoreKeys /\ MediaKeys(db) \subseteq Named(db) /\ PhotosKeys(db) \subseteq Named(db)
      /\ OtherKeys(db) \subseteq StoreKeys /\ PhotosKeys(db) \subseteq OtherKeys(db)
  BY NamedKeysAre DEF OtherKeys, PhotosKeys
<1>4. \A b \in Clients : Coming(b) \cap sweep.found = {}
  BY DEF NamesApart
<1>5. PICK free : free = AvatarKey /\ free \notin Named(db) /\ \A b \in Clients : free \notin Coming(b)
  BY NamedKeysAre
<1>6. CASE ListAll
  <2>1. sweep' = [sweep EXCEPT !.step = "others", !.named = MediaKeys(db)] /\ files' = files
    BY <1>6 DEF ListAll
  <2>2. /\ sweep'.step = "others" /\ sweep'.named = MediaKeys(db) /\ sweep'.found = sweep.found
        /\ sweep' \in [step : {"idle", "others", "walk", "remove"}, named : SUBSET StoreKeys,
                       found : SUBSET StoreKeys]
    BY <1>2, <1>3, <2>1
  <2> QED
    BY <1>1, <1>4, <1>5, <2>1, <2>2, SweepingKeeps DEF SweepKnows
<1>7. CASE ListOthers
  <2>1. sweep' = [sweep EXCEPT !.step = "walk", !.named = @ \cup OtherKeys(db)] /\ files' = files
        /\ sweep.step = "others"
    BY <1>7 DEF ListOthers
  <2>2. /\ sweep'.step = "walk" /\ sweep'.named = sweep.named \cup OtherKeys(db) /\ sweep'.found = sweep.found
        /\ sweep' \in [step : {"idle", "others", "walk", "remove"}, named : SUBSET StoreKeys,
                       found : SUBSET StoreKeys]
    BY <1>2, <1>3, <2>1
  <2> QED
    BY <1>1, <1>3, <1>4, <1>5, <2>1, <2>2, SweepingKeeps DEF SweepKnows
<1>8. CASE FindLeftovers
  <2>1. PICK found : found = {k \in Keys : Held(k) /\ Leftover(k)}
    OBVIOUS
  <2>2. files' = files /\ sweep.step = "walk"
        /\ (sweep' = IdleSweep \/ sweep' = [sweep EXCEPT !.step = "remove", !.found = found])
    BY <1>8, <2>1 DEF FindLeftovers
  <2>3. found \cap Named(db) = {}
    BY <2>1, <2>2 DEF SweepKnows, Aged, Leftover, Named
  <2>4. \A b \in Clients : Coming(b) \cap found = {}
    BY <2>1 DEF FilesFirst, Leftover
  <2>5. found \subseteq StoreKeys
    BY <2>1 DEF TypeOK
  <2>6. /\ sweep'.step \in {"idle", "remove"} /\ sweep'.found \in {{}, found}
        /\ sweep' \in [step : {"idle", "others", "walk", "remove"}, named : SUBSET StoreKeys,
                       found : SUBSET StoreKeys]
    <3>1. CASE sweep' = IdleSweep
      BY <3>1 DEF IdleSweep
    <3>2. CASE sweep' = [sweep EXCEPT !.step = "remove", !.found = found]
      BY ONLY <1>2, <2>5, <3>2
    <3> QED
      BY <2>2, <3>1, <3>2
  <2> QED
    BY <1>1, <1>5, <2>2, <2>3, <2>4, <2>6, SweepingKeeps
<1>9. CASE RemoveLeftover
  <2>1. PICK j \in sweep.found :
          /\ sweep' = [sweep EXCEPT !.found = @ \ {j}]
          /\ files' \in {files, [files EXCEPT ![j] = None]}
    BY <1>9 DEF RemoveLeftover
  <2>2. sweep.step = "remove"
    BY <1>9 DEF RemoveLeftover
  <2>3. j \notin Named(db) /\ \A b \in Clients : j \notin Coming(b)
    BY <1>4 DEF SweepKnows
  <2>4. /\ sweep'.step = "remove" /\ sweep'.found \subseteq sweep.found
        /\ sweep' \in [step : {"idle", "others", "walk", "remove"}, named : SUBSET StoreKeys,
                       found : SUBSET StoreKeys]
    BY <1>2, <2>1, <2>2
  <2> QED
    BY <1>1, <1>4, <2>1, <2>3, <2>4, SweepingKeeps DEF SweepKnows
<1>10. CASE SweepEnds
  <2>1. files' = files /\ sweep' = IdleSweep
    BY <1>10 DEF SweepEnds
  <2>2. /\ sweep'.step = "idle" /\ sweep'.found = {}
        /\ sweep' \in [step : {"idle", "others", "walk", "remove"}, named : SUBSET StoreKeys,
                       found : SUBSET StoreKeys]
    BY <2>1 DEF IdleSweep
  <2> QED
    BY <1>1, <1>5, <2>1, <2>2, SweepingKeeps
<1> QED
  BY <1>6, <1>7, <1>8, <1>9, <1>10 DEF sweepStore

\* Uploads never take an hour, and the sweep compares with the hour it began in.
LEMMA AgingKeeps ==
  ASSUME LibraryInv, leftoverAge
  PROVE  LibraryInv'
<1> USE DEF LibraryInv
<1>1. /\ \A c \in Clients : task[c].step \notin {"put", "create"}
      /\ sweep.step = "idle" /\ UNCHANGED <<db, task, sweep, past>>
      /\ files' = [k \in Keys |-> IF Held(k) THEN [files[k] EXCEPT !.old = TRUE] ELSE None]
  BY DEF leftoverAge
<1>2. \A b \in Clients :
           /\ Coming(b)' = Coming(b) /\ Placed(b)' = Placed(b) /\ Doomed(b)' = Doomed(b)
           /\ Removing(b)' = Removing(b) /\ NewKeys(b)' = NewKeys(b) /\ Req(b)' = Req(b)
  BY <1>1, TasksStay
<1>3. \A o \in Objects : [o EXCEPT !.old = TRUE] \in Objects /\ [o EXCEPT !.old = TRUE] # None
  <2>1. \A o \in Objects : [o EXCEPT !.old = TRUE] \in Objects
    BY DEF Objects
  <2> QED
    BY <2>1, ScenesAssumption
<1>4. \A k \in Keys : Held(k) => files[k] \in Objects
  BY DEF TypeOK, Held
<1>5. files' \in [Keys -> Objects \cup {None}] /\ Keys' = Keys
  <2>1. \A k \in Keys : (IF Held(k) THEN [files[k] EXCEPT !.old = TRUE] ELSE None) \in Objects \cup {None}
    BY <1>3, <1>4
  <2> QED
    BY <1>1, <2>1 DEF Keys
<1>6. \A k \in Keys : (files'[k] # None) = (files[k] # None)
  BY <1>1, <1>3, <1>4 DEF Held
<1>7. Named(db)' = Named(db) /\ MediaKeys(db)' = MediaKeys(db) /\ PhotosKeys(db)' = PhotosKeys(db)
       /\ MediaKeys(db) \subseteq Named(db) /\ PhotosKeys(db) \subseteq Named(db)
  BY <1>1 DEF Named, MediaKeys, PhotosKeys
<1>8. TypeOK'
  BY <1>1, <1>5 DEF TypeOK
<1>9. NamesApart'
  BY <1>1, <1>2, <1>5, <1>7 DEF NamesApart
<1>10. RequestsFit'
  BY <1>1, <1>2 DEF RequestsFit
<1>11. FilesFirst'
  <2>1. \A b \in Clients : Placed(b) = {}
    BY <1>1 DEF Placed
  <2>2. \A b \in Clients : \A k \in Coming(b) : k \in Keys
    BY DEF NamesApart
  <2> QED
    BY <1>1, <1>2, <1>6, <2>1, <2>2 DEF FilesFirst, Held
<1>12. RowsGoFirst'
  BY <1>1, <1>2, <1>7 DEF RowsGoFirst
<1>13. TripsListPictures'
  BY <1>1, <1>7 DEF TripsListPictures, At
<1>14. SweepKnows'
  BY <1>1, <1>7 DEF SweepKnows
<1>15. RowsHaveBytes'
  <2>1. \A m \in db.media : Key(m.id, "file") \in Keys
    BY <1>7 DEF MediaKeys, NamesApart
  <2>2. \A p \in db.photos : PhotoKeys(p) \subseteq Keys
    BY <1>7 DEF PhotosKeys, NamesApart
  <2> QED
    BY <1>1, <1>6, <2>1, <2>2 DEF RowsHaveBytes, Held
<1>16. LinksShowPictures' /\ NoCopies'
  BY <1>1 DEF LinksShowPictures, NoCopies, MediaIds, LockedRows
<1> QED
  BY <1>8, <1>9, <1>10, <1>11, <1>12, <1>13, <1>14, <1>15, <1>16

LEMMA CrashKeeps ==
  ASSUME LibraryInv, Crash
  PROVE  LibraryInv'
<1> USE DEF LibraryInv
<1>1. /\ task' = [c \in Clients |-> [task[c] EXCEPT !.step = "done", !.rows = {}, !.marked = {}]]
      /\ sweep' = IdleSweep /\ UNCHANGED <<db, files, past>>
  BY DEF Crash
<1>2. \A c \in Clients : task'[c] = [task[c] EXCEPT !.step = "done", !.rows = {}, !.marked = {}]
  BY <1>1
<1>3. \A c \in Clients : task[c] \in Tasks
  BY DEF TypeOK
<1>4. \A c \in Clients : task'[c].step = "done" /\ task'[c].req = task[c].req /\ task'[c].rows = {}
                         /\ task'[c] \in Tasks
  <2> SUFFICES ASSUME NEW c \in Clients
               PROVE  task'[c].step = "done" /\ task'[c].req = task[c].req /\ task'[c].rows = {}
                      /\ task'[c] \in Tasks
    OBVIOUS
  <2>1. PICK t \in Tasks : t = task[c]
    BY <1>3
  <2>2. PICK u : u = [t EXCEPT !.step = "done", !.rows = {}, !.marked = {}]
    OBVIOUS
  <2>3. u.step = "done" /\ u.req = t.req /\ u.rows = {} /\ u \in Tasks
    BY ONLY <2>1, <2>2 DEF Tasks, Steps
  <2> QED
    BY <1>2, <2>1, <2>2, <2>3
<1>5. \A c \in Clients : Coming(c)' = {} /\ Placed(c)' = {} /\ Doomed(c)' = {} /\ Removing(c)' = {}
  BY <1>4 DEF Coming, Placed, Doomed, Removing, Unsent
<1>6. Named(db)' = Named(db) /\ MediaKeys(db)' = MediaKeys(db) /\ PhotosKeys(db)' = PhotosKeys(db)
  BY <1>1 DEF Named, MediaKeys, PhotosKeys
<1>7. sweep'.step = "idle" /\ sweep'.found = {}
      /\ sweep' \in [step : {"idle", "others", "walk", "remove"}, named : SUBSET StoreKeys,
                     found : SUBSET StoreKeys]
  BY <1>1 DEF IdleSweep
<1>8. TypeOK'
  <2>1. task' \in [Clients -> Tasks]
    BY <1>1, <1>4
  <2> QED
    BY <1>1, <1>7, <2>1 DEF TypeOK, Keys
<1>9. NamesApart'
  BY <1>1, <1>5, <1>6 DEF NamesApart, Keys
<1>10. RequestsFit'
  BY <1>4 DEF RequestsFit, Req
<1>11. FilesFirst'
  BY <1>4, <1>5 DEF FilesFirst
<1>12. RowsGoFirst' /\ TripsListPictures'
  BY <1>4, <1>5 DEF RowsGoFirst, TripsListPictures, At
<1>13. SweepKnows'
  BY <1>7 DEF SweepKnows
<1>14. RowsHaveBytes'
  BY <1>1 DEF RowsHaveBytes, Held
<1>15. LinksShowPictures' /\ NoCopies'
  <2>1. LockedRows' = {}
    BY <1>4 DEF LockedRows
  <2> QED
    BY <1>1, <2>1 DEF LinksShowPictures, NoCopies, MediaIds
<1> QED
  BY <1>8, <1>9, <1>10, <1>11, <1>12, <1>13, <1>14, <1>15

LEMMA StayingKeeps ==
  ASSUME LibraryInv, UNCHANGED vars
  PROVE  LibraryInv'
<1> USE DEF LibraryInv, vars
<1>1. \A b \in Clients :
           /\ Coming(b)' = Coming(b) /\ Placed(b)' = Placed(b) /\ Doomed(b)' = Doomed(b)
           /\ Removing(b)' = Removing(b) /\ NewKeys(b)' = NewKeys(b) /\ Req(b)' = Req(b)
  BY TasksStay
<1>2. Named(db)' = Named(db) /\ MediaKeys(db)' = MediaKeys(db) /\ PhotosKeys(db)' = PhotosKeys(db)
  BY DEF Named, MediaKeys, PhotosKeys
<1>3. TypeOK'
  BY DEF TypeOK, Keys
<1>4. NamesApart' /\ RequestsFit' /\ RowsGoFirst' /\ TripsListPictures'
  BY <1>1, <1>2 DEF NamesApart, RequestsFit, RowsGoFirst, TripsListPictures, At, Keys
<1>5. FilesFirst' /\ RowsHaveBytes'
  BY <1>1 DEF FilesFirst, RowsHaveBytes, Held
<1>6. SweepKnows'
  BY <1>2 DEF SweepKnows, Aged, Held
<1>7. LinksShowPictures' /\ NoCopies'
  BY DEF LinksShowPictures, NoCopies, MediaIds, LockedRows
<1> QED
  BY <1>3, <1>4, <1>5, <1>6, <1>7

-----------------------------------------------------------------------------
(* The galleries                                                           *)

\* Where a request on a gallery goes, with the links it leaves.
Shows(c, t) ==
  /\ task' = [task EXCEPT ![c] = t]
  /\ t.req = task[c].req
  /\ t.step \notin Unsent \cup {"delete", "files", "undo", "rendered"}
  /\ \E links \in SUBSET LinkRows :
       /\ db' = [db EXCEPT !.links = links]
       /\ \A l \in links \cup t.rows : l.media \in MediaIds
  /\ UNCHANGED <<files, sweep>> /\ past'.doubtful = past.doubtful /\ past' \in PastType

LEMMA ShowsKeep ==
  ASSUME LibraryInv, NEW c \in Clients, NEW t \in Tasks, Shows(c, t)
  PROVE  LibraryInv'
<1> USE DEF LibraryInv
<1>1. PICK links \in SUBSET LinkRows :
        db' = [db EXCEPT !.links = links] /\ \A l \in links \cup t.rows : l.media \in MediaIds
  BY DEF Shows
<1>2. /\ db'.links = links /\ db'.media = db.media /\ db'.attached = db.attached /\ db'.photos = db.photos
      /\ db' \in Rows
  BY <1>1 DEF TypeOK, Rows
<1>3. TypeOK'
  BY <1>2 DEF TypeOK, Keys, Shows, PastType
<1>4. LockedRows' \subseteq LockedRows \cup t.rows
  BY DEF TypeOK, LockedRows, Shows
<1>5. LinksShowPictures'
  BY <1>1, <1>2, <1>4 DEF LinksShowPictures, MediaIds
<1>6. NoCopies'
  BY <1>2 DEF NoCopies, NoCopiesIn
<1>7. NamesApart' /\ RequestsFit' /\ FilesFirst' /\ RowsGoFirst' /\ TripsListPictures' /\ SweepKnows'
         /\ RowsHaveBytes'
  BY <1>2, Quietly DEF Unsent, Shows
<1> QED
  BY <1>3, <1>5, <1>6, <1>7

LEMMA Watching ==
  ASSUME task \in [Clients -> Tasks], NEW c \in Clients, NEW s \in Steps, NEW read,
         Goes(c, s, read), Typed(read), DOMAIN read \subseteq {"rows", "seen", "marked"}
  PROVE  \E t \in Tasks :
           /\ task' = [task EXCEPT ![c] = t]
           /\ t.step = s /\ t.req = task[c].req /\ t.keys = task[c].keys
           /\ t.rows = IF "rows" \in DOMAIN read THEN read["rows"] ELSE task[c].rows
           /\ t.seen = IF "seen" \in DOMAIN read THEN read["seen"] ELSE task[c].seen
           /\ t.marked = IF "marked" \in DOMAIN read THEN read["marked"] ELSE task[c].marked
<1>1. PICK t \in Tasks :
           /\ task' = [task EXCEPT ![c] = t] /\ t.step = s
           /\ \A f \in DOMAIN TypeOf \ {"step"} : t[f] = IF f \in DOMAIN read THEN read[f] ELSE task[c][f]
  BY ONLY task \in [Clients -> Tasks], c \in Clients, s \in Steps, Goes(c, s, read), Typed(read), GoingOn
<1>2. /\ \A f \in {"req", "keys"} : t[f] = task[c][f]
      /\ \A f \in {"rows", "seen", "marked"} : t[f] = IF f \in DOMAIN read THEN read[f] ELSE task[c][f]
  BY <1>1 DEF TypeOf
<1> QED
  BY <1>1, <1>2

GallerySteps ==
  {"links", "clear", "clearing", "insert", "favorites", "mark", "marking", "count", "commit", "done", "refused"}

\* A step on a gallery moves its own request on, and the links with it.
Turns(c, t, s, links) ==
  /\ task' = [task EXCEPT ![c] = t] /\ t \in Tasks
  /\ t.req = task[c].req /\ t.step = s /\ s \in GallerySteps
  /\ db' = [db EXCEPT !.links = links] /\ links \in SUBSET LinkRows
  /\ UNCHANGED <<files, sweep>>
  /\ past' \in PastType /\ past'.doubtful = past.doubtful

StaysShown == past' \in {past, [past EXCEPT !.overlapped = past'.overlapped]} /\ past'.overlapped \in BOOLEAN

LEMMA GalleriesAre ==
  ASSUME LibraryInv, NEW c \in Clients
  PROVE  /\ db \in Rows /\ db.links \subseteq LinkRows /\ task[c] \in Tasks /\ Req(c) \in Requests /\ past \in PastType
         /\ db = [db EXCEPT !.links = db.links]
         /\ task[c].seen \subseteq LinkRows /\ task[c].rows \subseteq LinkRows /\ task[c].marked \subseteq STRING
         /\ \A l \in db.links \cup task[c].rows : l.media \in MediaIds
         /\ Still(c) \subseteq db.links
         /\ \A l \in db.links : l.media \in STRING
BY DEF LibraryInv, TypeOK, Rows, Tasks, Req, PastType, LinksShowPictures, LockedRows, Still, LinkRows

LEMMA Reshown ==
  ASSUME LibraryInv, NEW c \in Clients, past' = Overlaps(c)
  PROVE  past' \in PastType /\ past'.doubtful = past.doubtful /\ past'.shown = past.shown
<1>1. PICK b \in BOOLEAN : b = (past.overlapped \/ \E o \in Clients \ {c} : Working(o))
  OBVIOUS
<1>2. past' = [past EXCEPT !.overlapped = b]
  BY <1>1 DEF Overlaps
<1>3. past \in PastType
  BY GalleriesAre
<1> QED
  BY <1>2, <1>3 DEF PastType

LEMMA LinkRequests ==
  ASSUME LibraryInv, NEW c \in Clients, Req(c).op = "setLinks"
  PROVE  /\ Req(c).target \in Targets /\ Req(c).list \in SUBSET STRING
         /\ Req(c).favorites \in (SUBSET STRING) \cup {None}
BY GalleriesAre, RequestShapes

LEMMA MarksAre ==
  ASSUME NEW rows \in SUBSET LinkRows, NEW fav \in BOOLEAN, db.links \subseteq LinkRows
  PROVE  WithMark(rows, fav) \subseteq LinkRows
         /\ \A l \in WithMark(rows, fav) : \E m \in db.links \cup rows : l.media = m.media
BY DEF WithMark, LinkRows

LEMMA NewLinksAre ==
  ASSUME NEW c \in Clients, NEW list \in SUBSET STRING, NEW target \in Targets, NEW marked, NEW S \in SUBSET STRING,
         S \subseteq list
  PROVE  {[media |-> m, target |-> target, fav |-> m \in marked, by |-> c] : m \in S} \subseteq LinkRows
<1> SUFFICES ASSUME NEW m \in S
             PROVE  [media |-> m, target |-> target, fav |-> m \in marked, by |-> c] \in LinkRows
  OBVIOUS
<1>1. (m \in marked) \in BOOLEAN
  OBVIOUS
<1>2. \A b \in BOOLEAN : [media |-> m, target |-> target, fav |-> b, by |-> c] \in LinkRows
  BY DEF LinkRows
<1> QED
  BY <1>1, <1>2

(* What each step on a gallery does.                                       *)
LEMMA AskedTurns ==
  ASSUME LibraryInv, NEW c \in Clients, handleSetMediaLinks(c) \/ handleSetMediaFavorites(c)
  PROVE  \E t \in Tasks, s \in {"links", "mark", "refused"} :
           /\ Turns(c, t, s, db.links) /\ past' = past
           /\ t.rows = task[c].rows /\ t.seen = task[c].seen /\ t.marked = task[c].marked
           /\ s = "links" => /\ Req(c).op = "setLinks"
                             /\ Req(c).favorites # None => /\ Req(c).target # "trip"
                                                           /\ Cardinality(Req(c).favorites) <= FavoriteLimit
           /\ s = "mark" => Req(c).op = "setFavorite"
<1>1. PICK s \in {"links", "mark", "refused"} :
        /\ Goes(c, s, <<>>)
        /\ s = "links" => /\ Req(c).op = "setLinks"
                          /\ Req(c).favorites # None => /\ Req(c).target # "trip"
                                                        /\ Cardinality(Req(c).favorites) <= FavoriteLimit
        /\ s = "mark" => Req(c).op = "setFavorite"
  BY DEF handleSetMediaLinks, handleSetMediaFavorites, Ends, At, Req
<1>2. s \in Steps /\ s \in GallerySteps
  BY <1>1 DEF Steps, GallerySteps
<1>3. UNCHANGED <<db, files, sweep, past>>
  BY DEF handleSetMediaLinks, handleSetMediaFavorites
<1>4. \E t \in Tasks : /\ task' = [task EXCEPT ![c] = t] /\ t.step = s /\ t.req = task[c].req
                       /\ t.rows = task[c].rows /\ t.seen = task[c].seen /\ t.marked = task[c].marked
  BY <1>1, <1>2, Moving DEF LibraryInv, TypeOK
<1> QED
  BY <1>1, <1>2, <1>3, <1>4, GalleriesAre DEF Turns

LEMMA SetLinksTurns ==
  ASSUME LibraryInv, NEW c \in Clients, SetLinks(c)
  PROVE  \E t \in Tasks, s \in {"clear", "refused"} :
           /\ Turns(c, t, s, db.links) /\ past' = Overlaps(c)
           /\ t.rows = task[c].rows
           /\ s = "clear" => t.marked = {l.media : l \in {l \in Gallery(Req(c).target) : l.fav}}
<1>1. UNCHANGED <<db, files, sweep>> /\ past' = Overlaps(c)
  BY DEF SetLinks
<1>2. past' \in PastType /\ past'.doubtful = past.doubtful
  BY <1>1, Reshown
<1>3. CASE Ends(c, "refused")
  <2>1. "refused" \in Steps /\ "refused" \in GallerySteps
    BY DEF Steps, GallerySteps
  <2>2. \E t \in Tasks : /\ task' = [task EXCEPT ![c] = t] /\ t.step = "refused" /\ t.req = task[c].req
                         /\ t.rows = task[c].rows
    BY <1>3, <2>1, Moving DEF LibraryInv, TypeOK, Ends
  <2> QED
    BY <1>1, <1>2, <2>1, <2>2, GalleriesAre DEF Turns
<1>4. CASE Goes(c, "clear", [marked |-> {l.media : l \in {l \in Gallery(Req(c).target) : l.fav}}])
  <2>1. PICK marked : marked = {l.media : l \in {l \in Gallery(Req(c).target) : l.fav}}
    OBVIOUS
  <2> DEFINE read == [marked |-> marked]
  <2>2. "clear" \in Steps /\ "clear" \in GallerySteps
    BY DEF Steps, GallerySteps
  <2>3. marked \in SUBSET STRING
    BY <2>1, GalleriesAre DEF Gallery
  <2>4. Typed(read) /\ DOMAIN read = {"marked"} /\ read["marked"] = marked
    <3>1. DOMAIN read = {"marked"} /\ read["marked"] = marked
      OBVIOUS
    <3>2. TypeOf["marked"] = SUBSET STRING
      BY DEF TypeOf
    <3> HIDE DEF read
    <3>3. Typed(read)
      BY <2>3, <3>1, <3>2 DEF Typed
    <3> QED
      BY <3>1, <3>3
  <2>5. Goes(c, "clear", read)
    BY <1>4, <2>1
  <2> HIDE DEF read
  <2>6. \E t \in Tasks : /\ task' = [task EXCEPT ![c] = t] /\ t.step = "clear" /\ t.req = task[c].req
                         /\ t.rows = task[c].rows /\ t.marked = marked
    BY <2>2, <2>4, <2>5, Watching DEF LibraryInv, TypeOK
  <2> QED
    BY <1>1, <1>2, <2>1, <2>2, <2>6, GalleriesAre DEF Turns
<1> QED
  BY <1>3, <1>4 DEF SetLinks

LEMMA SeenTurns ==
  ASSUME LibraryInv, NEW c \in Clients, ClearLinks(c) \/ SetFavorite(c)
  PROVE  \E t \in Tasks, s \in {"clearing", "marking"} :
           /\ Turns(c, t, s, db.links) /\ past' \in {past, Overlaps(c)}
           /\ t.rows = task[c].rows /\ t.marked = task[c].marked
           /\ s = "clearing" => At(c, "setLinks", "clear") /\ t.seen = Gallery(Req(c).target) /\ past' = past
           /\ s = "marking" => /\ At(c, "setFavorite", "mark") /\ past' = Overlaps(c)
                               /\ t.seen = {l \in db.links : l.media \in Req(c).list /\ l.target # "trip"}
<1>1. UNCHANGED <<db, files, sweep>> /\ past' \in {past, Overlaps(c)}
  BY DEF ClearLinks, SetFavorite
<1>2. past' \in PastType /\ past'.doubtful = past.doubtful
  BY <1>1, Reshown, GalleriesAre
<1>3. ASSUME NEW s \in {"clearing", "marking"}, NEW seen \in SUBSET LinkRows, Goes(c, s, [seen |-> seen])
      PROVE  \E t \in Tasks : Turns(c, t, s, db.links) /\ t.rows = task[c].rows /\ t.marked = task[c].marked
                              /\ t.seen = seen
  <2> DEFINE read == [seen |-> seen]
  <2>1. s \in Steps /\ s \in GallerySteps
    BY <1>3 DEF Steps, GallerySteps
  <2>2. Typed(read) /\ DOMAIN read = {"seen"} /\ read["seen"] = seen
    BY DEF Typed, TypeOf
  <2>3. Goes(c, s, read)
    BY <1>3
  <2> HIDE DEF read
  <2>4. \E t \in Tasks : /\ task' = [task EXCEPT ![c] = t] /\ t.step = s /\ t.req = task[c].req
                         /\ t.rows = task[c].rows /\ t.marked = task[c].marked /\ t.seen = seen
    BY <2>1, <2>2, <2>3, Watching DEF LibraryInv, TypeOK
  <2> QED
    BY <1>1, <1>2, <2>1, <2>4, GalleriesAre DEF Turns
<1>4. CASE ClearLinks(c)
  <2>1. PICK seen \in SUBSET LinkRows : seen = Gallery(Req(c).target)
    BY GalleriesAre DEF Gallery
  <2>2. Goes(c, "clearing", [seen |-> seen]) /\ At(c, "setLinks", "clear") /\ past' = past
    BY <1>4, <2>1 DEF ClearLinks
  <2> QED
    BY <1>3, <2>1, <2>2
<1>5. CASE SetFavorite(c)
  <2>1. PICK seen \in SUBSET LinkRows : seen = {l \in db.links : l.media \in Req(c).list /\ l.target # "trip"}
    BY GalleriesAre
  <2>2. Goes(c, "marking", [seen |-> seen]) /\ At(c, "setFavorite", "mark") /\ past' = Overlaps(c)
    BY <1>5, <2>1 DEF SetFavorite
  <2> QED
    BY <1>3, <2>1, <2>2
<1> QED
  BY <1>4, <1>5

\* A statement holds the rows it has found.
LEMMA HeldTurns ==
  ASSUME LibraryInv, NEW c \in Clients, LinksCleared(c) \/ (MarkRows(c) /\ Req(c).favorite)
  PROVE  \E t \in Tasks, s \in {"insert", "count"} :
           /\ Turns(c, t, s, db.links) /\ past' = past /\ Free(c)
           /\ t.rows = Still(c) /\ t.marked = task[c].marked
           /\ s = "insert" => At(c, "setLinks", "clearing")
           /\ s = "count" => At(c, "setFavorite", "marking")
<1>1. UNCHANGED <<db, files, sweep, past>> /\ Free(c)
  BY DEF LinksCleared, MarkRows
<1>2. PICK rows \in SUBSET LinkRows : rows = Still(c)
  BY GalleriesAre
<1>3. PICK s \in {"insert", "count"} :
           /\ Goes(c, s, [rows |-> rows])
           /\ s = "insert" => At(c, "setLinks", "clearing")
           /\ s = "count" => At(c, "setFavorite", "marking")
  BY <1>2 DEF LinksCleared, MarkRows
<1> DEFINE read == [rows |-> rows]
<1>4. s \in Steps /\ s \in GallerySteps
  BY <1>3 DEF Steps, GallerySteps
<1>5. Typed(read) /\ DOMAIN read = {"rows"} /\ read["rows"] = rows
  BY DEF Typed, TypeOf
<1>6. Goes(c, s, read)
  BY <1>3
<1> HIDE DEF read
<1>7. \E t \in Tasks : /\ task' = [task EXCEPT ![c] = t] /\ t.step = s /\ t.req = task[c].req
                       /\ t.rows = rows /\ t.marked = task[c].marked
  BY <1>4, <1>5, <1>6, Watching DEF LibraryInv, TypeOK
<1> QED
  BY <1>1, <1>2, <1>3, <1>4, <1>7, GalleriesAre DEF Turns

\* A transaction ends and lets its rows go.
LEMMA LetGo ==
  ASSUME LibraryInv, NEW c \in Clients, NEW s \in {"done", "favorites", "refused"},
         Goes(c, s, [rows |-> {}, seen |-> {}])
  PROVE  \E t \in Tasks : /\ task' = [task EXCEPT ![c] = t] /\ t.step = s /\ t.req = task[c].req
                          /\ t.rows = {} /\ s \in GallerySteps
<1> DEFINE read == [rows |-> {}, seen |-> {}]
<1>1. s \in Steps /\ s \in GallerySteps
  BY DEF Steps, GallerySteps
<1>2. Typed(read) /\ DOMAIN read = {"rows", "seen"} /\ read["rows"] = {}
  BY DEF Typed, TypeOf
<1>3. Goes(c, s, read)
  OBVIOUS
<1> HIDE DEF read
<1> QED
  BY <1>1, <1>2, <1>3, Watching DEF LibraryInv, TypeOK

Inserted(c) ==
  LET kept == db.links \ task[c].rows
  IN kept \cup {[media |-> m, target |-> Req(c).target, fav |-> m \in task[c].marked, by |-> c] :
                   m \in {m \in Req(c).list : \A l \in kept : l.media = m => l.target # Req(c).target}}

LEMMA InsertTurns ==
  ASSUME LibraryInv, NEW c \in Clients, InsertLinks(c)
  PROVE  \E t \in Tasks, s \in {"done", "favorites", "refused"}, links \in SUBSET LinkRows :
           /\ Turns(c, t, s, links) /\ t.rows = {} /\ At(c, "setLinks", "insert")
           /\ s = "favorites" => Req(c).favorites # None
           /\ \/ s = "refused" /\ links = db.links /\ past' = past
              \/ /\ s # "refused" /\ links = Inserted(c) /\ Req(c).list \subseteq MediaIds
                 /\ past' = [past EXCEPT !.shown[Req(c).target] = Req(c).list]
<1>1. UNCHANGED <<files, sweep>> /\ At(c, "setLinks", "insert") /\ past \in PastType
  BY GalleriesAre DEF InsertLinks
<1>2. Req(c).target \in Targets /\ Req(c).list \in SUBSET STRING
  BY <1>1, LinkRequests DEF At, Req
<1>3. Inserted(c) \in SUBSET LinkRows
  <2>1. db.links \ task[c].rows \subseteq LinkRows
    BY GalleriesAre
  <2>2. PICK S : S = {m \in Req(c).list : \A l \in db.links \ task[c].rows : l.media = m => l.target # Req(c).target}
    OBVIOUS
  <2>3. S \in SUBSET STRING /\ S \subseteq Req(c).list
    BY <1>2, <2>2
  <2>4. {[media |-> m, target |-> Req(c).target, fav |-> m \in task[c].marked, by |-> c] : m \in S} \subseteq LinkRows
    BY <1>2, <2>3, NewLinksAre
  <2> QED
    BY <2>1, <2>2, <2>4 DEF Inserted
<1>4. CASE Goes(c, "refused", [rows |-> {}, seen |-> {}]) /\ UNCHANGED <<db, past>>
  <2>1. PICK t \in Tasks : /\ task' = [task EXCEPT ![c] = t] /\ t.step = "refused" /\ t.req = task[c].req
                           /\ t.rows = {} /\ "refused" \in GallerySteps
    BY <1>4, LetGo
  <2>2. Turns(c, t, "refused", db.links)
    BY <1>1, <1>4, <2>1, GalleriesAre DEF Turns
  <2>3. db.links \in SUBSET LinkRows
    BY GalleriesAre
  <2> QED
    BY <1>1, <1>4, <2>1, <2>2, <2>3
<1>5. CASE /\ db' = [db EXCEPT !.links = Inserted(c)] /\ Req(c).list \subseteq MediaIds
           /\ past' = [past EXCEPT !.shown[Req(c).target] = Req(c).list]
           /\ Goes(c, IF Req(c).favorites = None THEN "done" ELSE "favorites", [rows |-> {}, seen |-> {}])
  <2>1. PICK s \in {"done", "favorites"} :
          Goes(c, s, [rows |-> {}, seen |-> {}]) /\ (s = "favorites" => Req(c).favorites # None)
    BY <1>5
  <2>2. PICK t \in Tasks : /\ task' = [task EXCEPT ![c] = t] /\ t.step = s /\ t.req = task[c].req
                           /\ t.rows = {} /\ s \in GallerySteps
    BY <2>1, LetGo
  <2>3. past' \in PastType /\ past'.doubtful = past.doubtful
    BY <1>1, <1>2, <1>5 DEF PastType
  <2>4. Turns(c, t, s, Inserted(c))
    BY <1>1, <1>3, <1>5, <2>2, <2>3 DEF Turns
  <2>5. s \in {"done", "favorites", "refused"} /\ s # "refused"
    BY <2>1
  <2> QED
    BY <1>1, <1>3, <1>5, <2>1, <2>2, <2>4, <2>5
<1> QED
  BY <1>4, <1>5 DEF InsertLinks, Inserted

\* The marks of a place's favourites set to the ones asked for.
Remarked(c) ==
  {IF l.target = Req(c).target THEN [l EXCEPT !.fav = l.media \in Req(c).favorites] ELSE l : l \in db.links}

LEMMA RemarkedAre ==
  ASSUME NEW c \in Clients, db.links \subseteq LinkRows
  PROVE  /\ Remarked(c) \subseteq LinkRows
         /\ \A l \in db.links : \E n \in Remarked(c) : n.media = l.media /\ n.target = l.target /\ n.by = l.by
         /\ \A n \in Remarked(c) : \E l \in db.links :
              /\ n.media = l.media /\ n.target = l.target /\ n.by = l.by
              /\ l.target # Req(c).target => n = l
              /\ l.target = Req(c).target => (n.fav => l.media \in Req(c).favorites)
<1> DEFINE new(l) == IF l.target = Req(c).target THEN [l EXCEPT !.fav = l.media \in Req(c).favorites] ELSE l
<1>1. ASSUME NEW l \in LinkRows
      PROVE  /\ new(l) \in LinkRows /\ new(l).media = l.media /\ new(l).target = l.target /\ new(l).by = l.by
             /\ l.target # Req(c).target => new(l) = l
             /\ l.target = Req(c).target => (new(l).fav => l.media \in Req(c).favorites)
  <2>1. (l.media \in Req(c).favorites) \in BOOLEAN
    OBVIOUS
  <2>2. \A b \in BOOLEAN : /\ [l EXCEPT !.fav = b] \in LinkRows /\ [l EXCEPT !.fav = b].media = l.media
                           /\ [l EXCEPT !.fav = b].target = l.target /\ [l EXCEPT !.fav = b].by = l.by
                           /\ [l EXCEPT !.fav = b].fav = b
    BY DEF LinkRows
  <2>3. CASE l.target = Req(c).target
    <3>1. new(l) = [l EXCEPT !.fav = (l.media \in Req(c).favorites)]
      BY <2>3
    <3> HIDE DEF new
    <3> QED
      BY <2>1, <2>2, <2>3, <3>1
  <2>4. CASE l.target # Req(c).target
    BY <2>4
  <2> QED
    BY <2>3, <2>4
<1>2. Remarked(c) = {new(l) : l \in db.links}
  BY DEF Remarked
<1> HIDE DEF new
<1>3. Remarked(c) \subseteq LinkRows
  BY <1>1, <1>2
<1>4. \A l \in db.links : \E n \in Remarked(c) : n.media = l.media /\ n.target = l.target /\ n.by = l.by
  BY <1>1, <1>2
<1>5. \A n \in Remarked(c) : \E l \in db.links :
              /\ n.media = l.media /\ n.target = l.target /\ n.by = l.by
              /\ l.target # Req(c).target => n = l
              /\ l.target = Req(c).target => (n.fav => l.media \in Req(c).favorites)
  BY <1>1, <1>2
<1> QED
  BY <1>3, <1>4, <1>5

LEMMA FavoritesTurns ==
  ASSUME LibraryInv, NEW c \in Clients, SetFavorites(c)
  PROVE  \E t \in Tasks, s \in {"done", "refused"}, links \in SUBSET LinkRows :
           /\ Turns(c, t, s, links) /\ t.rows = task[c].rows /\ At(c, "setLinks", "favorites")
           /\ past' = past
           /\ \/ s = "refused" /\ links = db.links
              \/ s = "done" /\ links = Remarked(c) /\ LockedRows \cap Gallery(Req(c).target) = {}
<1>1. UNCHANGED <<files, sweep, past>> /\ At(c, "setLinks", "favorites")
      /\ LockedRows \cap Gallery(Req(c).target) = {}
  BY DEF SetFavorites
<1>2. PICK s \in {"done", "refused"} :
        /\ Goes(c, s, <<>>)
        /\ s = "refused" => UNCHANGED db
        /\ s = "done" => db' = [db EXCEPT !.links = Remarked(c)]
  BY DEF SetFavorites, Ends, Remarked
<1>3. s \in Steps /\ s \in GallerySteps
  BY <1>2 DEF Steps, GallerySteps
<1>4. PICK t \in Tasks : /\ task' = [task EXCEPT ![c] = t] /\ t.step = s /\ t.req = task[c].req
                         /\ t.rows = task[c].rows
  BY <1>2, <1>3, Moving DEF LibraryInv, TypeOK
<1>5. CASE s = "refused"
  <2>1. Turns(c, t, s, db.links)
    BY <1>1, <1>2, <1>3, <1>4, <1>5, GalleriesAre DEF Turns
  <2>2. db.links \in SUBSET LinkRows
    BY GalleriesAre
  <2> QED
    BY <1>1, <1>4, <1>5, <2>1, <2>2
<1>6. CASE s = "done"
  <2>1. Remarked(c) \in SUBSET LinkRows
    BY RemarkedAre, GalleriesAre
  <2>2. Turns(c, t, s, Remarked(c))
    BY <1>1, <1>2, <1>3, <1>4, <1>6, <2>1, GalleriesAre DEF Turns
  <2> QED
    BY <1>1, <1>4, <1>6, <2>1, <2>2
<1> QED
  BY <1>2, <1>5, <1>6

LEMMA UnmarkTurns ==
  ASSUME LibraryInv, NEW c \in Clients, MarkRows(c), ~Req(c).favorite
  PROVE  \E t \in Tasks :
           /\ Turns(c, t, "done", WithMark(Still(c), FALSE)) /\ t.rows = task[c].rows /\ past' = past
           /\ Free(c) /\ At(c, "setFavorite", "marking")
<1>1. UNCHANGED <<files, sweep, past>> /\ Free(c) /\ Goes(c, "done", <<>>) /\ At(c, "setFavorite", "marking")
      /\ db' = [db EXCEPT !.links = WithMark(Still(c), FALSE)]
  BY DEF MarkRows, Ends
<1>2. "done" \in Steps /\ "done" \in GallerySteps
  BY DEF Steps, GallerySteps
<1>3. PICK t \in Tasks : /\ task' = [task EXCEPT ![c] = t] /\ t.step = "done" /\ t.req = task[c].req
                         /\ t.rows = task[c].rows
  BY <1>1, <1>2, Moving DEF LibraryInv, TypeOK
<1>4. Still(c) \in SUBSET LinkRows
  BY GalleriesAre
<1>5. WithMark(Still(c), FALSE) \subseteq LinkRows
  BY <1>4, MarksAre, GalleriesAre
<1> QED
  BY <1>1, <1>2, <1>3, <1>5, GalleriesAre DEF Turns

LEMMA CountTurns ==
  ASSUME LibraryInv, NEW c \in Clients, CountFavorites(c)
  PROVE  \E t \in Tasks, s \in {"commit", "refused"} :
           /\ Turns(c, t, s, db.links) /\ past' = past /\ At(c, "setFavorite", "count")
           /\ s = "refused" => t.rows = {}
           /\ s = "commit" => /\ t.rows = task[c].rows
                              /\ checkFavoriteLimits(WithMark(task[c].rows, TRUE), Req(c).list)
<1>1. UNCHANGED <<db, files, sweep, past>> /\ At(c, "setFavorite", "count")
  BY DEF CountFavorites
<1>2. CASE Goes(c, "refused", [rows |-> {}, seen |-> {}])
  BY <1>1, <1>2, LetGo, GalleriesAre DEF Turns
<1>3. CASE Goes(c, "commit", <<>>) /\ checkFavoriteLimits(WithMark(task[c].rows, TRUE), Req(c).list)
  <2>1. "commit" \in Steps /\ "commit" \in GallerySteps
    BY DEF Steps, GallerySteps
  <2>2. PICK t \in Tasks : /\ task' = [task EXCEPT ![c] = t] /\ t.step = "commit" /\ t.req = task[c].req
                           /\ t.rows = task[c].rows
    BY <1>3, <2>1, Moving DEF LibraryInv, TypeOK
  <2> QED
    BY <1>1, <1>3, <2>1, <2>2, GalleriesAre DEF Turns
<1> QED
  BY <1>2, <1>3 DEF CountFavorites

LEMMA CommitTurns ==
  ASSUME LibraryInv, NEW c \in Clients, CommitFavorites(c)
  PROVE  \E t \in Tasks :
           /\ Turns(c, t, "done", WithMark(task[c].rows, TRUE)) /\ t.rows = {} /\ past' = past
           /\ At(c, "setFavorite", "commit")
<1>1. UNCHANGED <<files, sweep, past>> /\ Goes(c, "done", [rows |-> {}, seen |-> {}])
      /\ db' = [db EXCEPT !.links = WithMark(task[c].rows, TRUE)] /\ At(c, "setFavorite", "commit")
  BY DEF CommitFavorites
<1>2. PICK t \in Tasks : /\ task' = [task EXCEPT ![c] = t] /\ t.step = "done" /\ t.req = task[c].req
                         /\ t.rows = {} /\ "done" \in GallerySteps
  BY <1>1, LetGo
<1>3. task[c].rows \in SUBSET LinkRows
  BY GalleriesAre
<1>4. WithMark(task[c].rows, TRUE) \subseteq LinkRows
  BY <1>3, MarksAre, GalleriesAre
<1> QED
  BY <1>1, <1>2, <1>4, GalleriesAre DEF Turns

LEMMA GalleryKeeps ==
  ASSUME LibraryInv, NEW c \in Clients, GalleryStep(c)
  PROVE  LibraryInv'
<1>1. ASSUME NEW t \in Tasks, NEW s, NEW links, Turns(c, t, s, links),
             \A l \in links \cup t.rows : l.media \in MediaIds
      PROVE  LibraryInv'
  <2>1. Shows(c, t)
    BY <1>1 DEF Turns, Shows, GallerySteps, Unsent
  <2> QED
    BY <2>1, ShowsKeep
<1>2. \A l \in db.links \cup task[c].rows \cup Still(c) : l.media \in MediaIds
  BY GalleriesAre
<1>3. task[c].rows \in SUBSET LinkRows /\ Still(c) \in SUBSET LinkRows /\ db.links \subseteq LinkRows
  BY GalleriesAre
<1>4. CASE handleSetMediaLinks(c) \/ handleSetMediaFavorites(c)
  BY <1>1, <1>2, <1>4, AskedTurns
<1>5. CASE SetLinks(c)
  BY <1>1, <1>2, <1>5, SetLinksTurns
<1>6. CASE ClearLinks(c) \/ SetFavorite(c)
  BY <1>1, <1>2, <1>6, SeenTurns
<1>7. CASE LinksCleared(c) \/ (MarkRows(c) /\ Req(c).favorite)
  BY <1>1, <1>2, <1>7, HeldTurns
<1>8. CASE InsertLinks(c)
  <2>1. PICK t \in Tasks, s \in {"done", "favorites", "refused"}, links \in SUBSET LinkRows :
           /\ Turns(c, t, s, links) /\ t.rows = {}
           /\ links = db.links \/ (links = Inserted(c) /\ Req(c).list \subseteq MediaIds)
    BY <1>8, InsertTurns
  <2>2. \A l \in links : l.media \in MediaIds
    BY <1>2, <2>1 DEF Inserted
  <2> QED
    BY <1>1, <2>1, <2>2
<1>9. CASE SetFavorites(c)
  <2>1. PICK t \in Tasks, s \in {"done", "refused"}, links \in SUBSET LinkRows :
           Turns(c, t, s, links) /\ t.rows = task[c].rows /\ links \in {db.links, Remarked(c)}
    BY <1>9, FavoritesTurns
  <2>2. \A l \in links : l.media \in MediaIds
    BY <1>2, <1>3, <2>1, RemarkedAre
  <2> QED
    BY <1>1, <1>2, <2>1, <2>2
<1>10. CASE MarkRows(c) /\ ~Req(c).favorite
  <2>1. PICK t \in Tasks : Turns(c, t, "done", WithMark(Still(c), FALSE)) /\ t.rows = task[c].rows
    BY <1>10, UnmarkTurns
  <2>2. \A l \in WithMark(Still(c), FALSE) : l.media \in MediaIds
    <3>1. \A l \in WithMark(Still(c), FALSE) : \E m \in db.links \cup Still(c) : l.media = m.media
      BY ONLY <1>3, MarksAre
    <3> QED
      BY <1>2, <3>1
  <2> QED
    BY <1>1, <1>2, <2>1, <2>2
<1>11. CASE CountFavorites(c)
  BY <1>1, <1>2, <1>11, CountTurns
<1>12. CASE CommitFavorites(c)
  <2>1. PICK t \in Tasks : Turns(c, t, "done", WithMark(task[c].rows, TRUE)) /\ t.rows = {}
    BY <1>12, CommitTurns
  <2>2. \A l \in WithMark(task[c].rows, TRUE) : l.media \in MediaIds
    <3>1. \A l \in WithMark(task[c].rows, TRUE) : \E m \in db.links \cup task[c].rows : l.media = m.media
      BY ONLY <1>3, MarksAre
    <3> QED
      BY <1>2, <3>1
  <2> QED
    BY <1>1, <2>1, <2>2
<1> QED
  BY <1>4, <1>5, <1>6, <1>7, <1>8, <1>9, <1>10, <1>11, <1>12 DEF GalleryStep

-----------------------------------------------------------------------------
(* The library                                                             *)

LEMMA FreshIs ==
  ASSUME NEW r \in Requests
  PROVE  Fresh(r) \in Tasks /\ Fresh(r).req = r /\ Fresh(r).step = "new" /\ Fresh(r).rows = {}
BY DEF Fresh, Tasks, Steps

\* A client with nothing to ask.
Quiet(r) == [Fresh(r) EXCEPT !.step = "done"]

LEMMA DoneIs ==
  ASSUME NEW r \in Requests
  PROVE  Quiet(r) \in Tasks /\ Quiet(r).req = r /\ Quiet(r).step = "done" /\ Quiet(r).rows = {}
BY DEF Quiet, Fresh, Tasks, Steps

LEMMA LibraryStarts == Init => LibraryInv
<1> SUFFICES ASSUME Init PROVE LibraryInv
  OBVIOUS
<1>1. PICK scene \in Scenes :
    /\ db = scene.db
    /\ files = scene.files
    /\ holder = None
    /\ task = [c \in Clients |-> IF c \in DOMAIN scene.reqs THEN Fresh(scene.reqs[c])
                                 ELSE [Fresh([op |-> "nothing"]) EXCEPT !.step = "done"]]
    /\ sweep = IdleSweep
    /\ past = [doubtful |-> {},
               stale |-> FALSE, overlapped |-> FALSE, shown |-> [t \in Targets |-> None]]
  BY DEF Init
<1> DEFINE reqs == scene.reqs
           brought(c) == Brings(reqs[c])
<1>2. SoundScene(scene)
  BY ScenesAssumption
<1>3. /\ SoundRows(db) /\ Keys \subseteq StoreKeys /\ IsFiniteSet(Keys) /\ AvatarKey \in Keys
      /\ files \in [Keys -> Objects \cup {None}]
      /\ Named(db) \subseteq Keys /\ \A k \in Named(db) : files[k] # None
  BY <1>1, <1>2 DEF SoundScene, Named, Keys
<1>4. /\ \A c \in DOMAIN reqs :
          /\ c \in Clients
          /\ reqs[c] \in Requests
          /\ brought(c) \subseteq Keys \ (Named(db) \cup {AvatarKey})
          /\ \A k \in brought(c) : files[k] = None
          /\ \A b \in DOMAIN reqs \ {c} : brought(b) \cap brought(c) = {}
          /\ reqs[c].op = "upload" =>
               \A i, j \in DOMAIN reqs[c].parts : reqs[c].parts[i].id = reqs[c].parts[j].id => i = j
  BY <1>1, <1>2 DEF SoundScene, Named, Keys
<1>5. [op |-> "nothing"] \in Requests
  BY DEF Requests
<1>6. \A c \in Clients :
         /\ task[c] \in Tasks /\ task[c].step \in {"new", "done"} /\ task[c].rows = {}
         /\ task[c].step = "new" => c \in DOMAIN reqs /\ task[c].req = reqs[c]
         /\ task[c].step = "done" => task[c].req = [op |-> "nothing"]
  <2> SUFFICES ASSUME NEW c \in Clients
               PROVE /\ task[c] \in Tasks /\ task[c].step \in {"new", "done"} /\ task[c].rows = {}
                     /\ task[c].step = "new" => c \in DOMAIN reqs /\ task[c].req = reqs[c]
                     /\ task[c].step = "done" => task[c].req = [op |-> "nothing"]
    OBVIOUS
  <2>1. CASE c \in DOMAIN reqs
    <3>1. PICK r \in Requests : r = reqs[c]
      BY <1>4, <2>1
    <3>2. task[c] = Fresh(r)
      BY <1>1, <2>1, <3>1
    <3> HIDE DEF reqs
    <3>3. task[c] \in Tasks /\ task[c].step = "new" /\ task[c].req = r /\ task[c].rows = {}
      BY ONLY <3>1, <3>2, FreshIs
    <3> QED
      BY <2>1, <3>1, <3>3
  <2>2. CASE c \notin DOMAIN reqs
    <3>1. PICK r \in Requests : r = [op |-> "nothing"]
      BY <1>5
    <3>2. task[c] = Quiet(r)
      BY <1>1, <2>2, <3>1 DEF Quiet
    <3>3. task[c] \in Tasks /\ task[c].step = "done" /\ task[c].req = r /\ task[c].rows = {}
      BY ONLY <3>1, <3>2, DoneIs
    <3> QED
      BY <3>1, <3>3
  <2> QED
    BY <2>1, <2>2
<1> HIDE DEF reqs
<1>7. \A c \in Clients : /\ Placed(c) = {} /\ Doomed(c) = {} /\ Removing(c) = {}
                         /\ \/ Coming(c) = {}
                            \/ c \in DOMAIN reqs /\ Coming(c) = brought(c)
  BY <1>6 DEF Placed, Doomed, Removing, Coming, Req, Unsent
<1> HIDE DEF brought
<1>8. TypeOK
  <2>1. db \in Rows /\ IsFiniteSet(db.media) /\ IsFiniteSet(db.attached) /\ IsFiniteSet(db.photos)
    BY <1>3 DEF SoundRows
  <2>2. task \in [Clients -> Tasks]
    BY <1>1, <1>6
  <2>3. sweep \in [step : {"idle", "others", "walk", "remove"}, named : SUBSET StoreKeys,
                   found : SUBSET StoreKeys]
    BY <1>1 DEF IdleSweep
  <2>4. past \in PastType
    BY <1>1 DEF PastType
  <2> QED
    BY <1>3, <2>1, <2>2, <2>3, <2>4 DEF TypeOK, PastType
<1>9. sweep.step = "idle" /\ sweep.found = {}
  BY <1>1 DEF IdleSweep
<1>10. NamesApart
  <2>1. MediaKeys(db) \cap PhotosKeys(db) = {} /\ Named(db) \subseteq Keys \ {AvatarKey}
    BY <1>3 DEF SoundRows, Named
  <2>2. \A c \in Clients : Coming(c) \subseteq Keys \ {AvatarKey} /\ Coming(c) \cap Named(db) = {}
    BY <1>4, <1>7
  <2>3. \A c \in Clients : \A b \in Clients \ {c} : Coming(c) \cap Coming(b) = {}
    BY <1>4, <1>7
  <2> QED
    BY <1>7, <1>9, <2>1, <2>2, <2>3 DEF NamesApart
<1>11. RequestsFit
  <2> SUFFICES ASSUME NEW c \in Clients
               PROVE  /\ Req(c).op = "upload" =>
                           /\ \A i, j \in DOMAIN Req(c).parts : Req(c).parts[i].id = Req(c).parts[j].id => i = j
                           /\ task[c].step \notin {"reserve", "put", "create"}
                      /\ task[c].step \notin {"reserve", "put", "create"}
    BY DEF RequestsFit
  <2> QED
    BY <1>4, <1>6 DEF Req
<1>12. FilesFirst
  <2>1. \A c \in Clients : \A k \in Coming(c) : ~Held(k)
    BY <1>4, <1>7 DEF Held
  <2> QED
    BY <1>6, <1>7, <2>1 DEF FilesFirst
<1>13. RowsGoFirst /\ TripsListPictures
  BY <1>6, <1>7 DEF RowsGoFirst, TripsListPictures, At
<1>14. SweepKnows
  BY <1>9 DEF SweepKnows
<1>15. LinksShowPictures /\ NoCopies
  <2>1. LockedRows = {}
    BY <1>6 DEF LockedRows
  <2> QED
    BY <1>3, <2>1 DEF SoundRows, LinksShowPictures, NoCopies, MediaIds
<1>16. RowsHaveBytes
  BY <1>3 DEF RowsHaveBytes, Held, Named, MediaKeys, PhotosKeys
<1> QED
  BY <1>8, <1>10, <1>11, <1>12, <1>13, <1>14, <1>15, <1>16 DEF LibraryInv

LEMMA LibraryStepKeeps ==
  ASSUME LibraryInv, NEW c \in Clients, LibraryStep(c)
  PROVE  LibraryInv'
<1>1. CASE Reads(c)
  BY <1>1, ReadsKeep
<1>2. CASE Reserve(c)
  BY <1>2, ReserveKeeps
<1>3. CASE Put(c) \/ PutFails(c)
  BY <1>3, PutKeeps
<1>4. CASE Create(c) \/ CreateRefused(c) \/ CreateFails(c)
  BY <1>4, CreateKeeps
<1>5. CASE DeleteFile(c)
  BY <1>5, DeleteKeeps
<1>6. CASE Removes(c)
  BY <1>6, RemovesKeep
<1>7. CASE keepPreviews(c)
  BY <1>7, KeptKeep
<1> QED
  BY <1>1, <1>2, <1>3, <1>4, <1>5, <1>6, <1>7 DEF LibraryStep, Reads, Removes

LEMMA LibraryKeeps ==
  ASSUME LibraryInv, [Next]_vars
  PROVE  LibraryInv'
<1>1. ASSUME NEW c \in Clients, LibraryStep(c) \/ GalleryStep(c)
      PROVE  LibraryInv'
  BY <1>1, LibraryStepKeeps, GalleryKeeps
<1>2. CASE sweepStore
  BY <1>2, SweepKeeps
<1>3. CASE leftoverAge
  BY <1>3, AgingKeeps
<1>4. CASE Crash
  BY <1>4, CrashKeeps
<1>5. CASE UNCHANGED vars
  BY <1>5, StayingKeeps
<1> QED
  BY <1>1, <1>2, <1>3, <1>4, <1>5 DEF Next, Rests

LEMMA LibraryHolds == Spec => []LibraryInv
BY LibraryStarts, LibraryKeeps, PTL DEF Spec

(* A picture or a photo whose upload was answered has its bytes for as long *)
(* as its row stands, and is stored once, however uploads, removals, sweeps, *)
(* renderings, failures and crashes interleave (httpapi/media.go storePart, *)
(* ideas.go, sweep.go): a file is put before its row is made and removed    *)
(* after its row is gone, and a sweep takes no file that was young when it  *)
(* began.  Excepted are the pictures that could not be opened once their    *)
(* previews were made, whose originals go with them (previews.go            *)
(* keepPreviews).                                                           *)
THEOREM PicturesHaveBytes == Spec => []StoredPicturesHaveBytes
<1>1. LibraryInv => StoredPicturesHaveBytes
  BY DEF LibraryInv, RowsHaveBytes, StoredPicturesHaveBytes
<1> QED
  BY <1>1, LibraryHolds, PTL

(* A sweep whose lists have grown old takes no file a record names and none  *)
(* that a request has stored, or is storing, and is still to write a record *)
(* of (sweep.go, preview.go); but for the picture of an account, which      *)
(* keeps its key when it is replaced.                                       *)
THEOREM SweepSparesTheNamed == Spec => SweepTakesOnlyLeftovers
<1>1. ASSUME LibraryInv, [Next]_vars
      PROVE  \A k \in sweep.found \ sweep'.found :
               k \in MediaKeys(db) \cup OtherKeys(db) \cup UNION {Underway(c) : c \in Clients} => k = AvatarKey
  <2>1. sweep.found \cap Named(db) = {}
    BY <1>1 DEF LibraryInv, SweepKnows
  <2>2. MediaKeys(db) \cup OtherKeys(db) \subseteq Named(db) \cup {AvatarKey}
    BY <1>1, NamedKeysAre
  <2>3. \A c \in Clients : Underway(c) \cap sweep.found \subseteq {AvatarKey}
    <3> SUFFICES ASSUME NEW c \in Clients, task[c].step \in {"put", "create"}
                 PROVE  NewKeys(c) \cap sweep.found \subseteq {AvatarKey}
      BY DEF Underway
    <3>1. NewKeys(c) \subseteq Coming(c) \/ NewKeys(c) \subseteq {AvatarKey}
      BY <1>1, NewNames
    <3>2. Coming(c) \cap sweep.found = {}
      BY <1>1 DEF LibraryInv, NamesApart
    <3> QED
      BY <3>1, <3>2
  <2> QED
    BY <2>1, <2>2, <2>3
<1> QED
  BY <1>1, LibraryHolds, PTL DEF Spec, SweepTakesOnlyLeftovers

-----------------------------------------------------------------------------
(* Which pictures are shown                                                *)

FavoritesIn(links, t) == {l \in links : l.target = t /\ l.fav}
Marked(links, rows, fav) == (links \ rows) \cup {[l EXCEPT !.fav = fav] : l \in rows}
Works(u) == u.step \in {"clear", "clearing", "insert", "marking", "count", "commit"}

\* A picture is linked once to what shows it.
LinkedOnce(links) == IsFiniteSet(links) /\ \A l, m \in links : l.media = m.media /\ l.target = m.target => l = m

Limited(links) == \A t \in Targets : Cardinality(FavoritesIn(links, t)) <= FavoriteLimit

\* A request has only gone on when what it marks can fit.
AskedBy(u) ==
  /\ u.req.op = "setLinks" /\ u.step = "favorites" => u.req.favorites # None
  /\ u.req.op = "setLinks" /\ u.req.favorites # None =>
       /\ IsFiniteSet(u.req.favorites)
       /\ u.step \in {"links", "clear", "clearing", "insert", "favorites"} =>
            u.req.target # "trip" /\ Cardinality(u.req.favorites) <= FavoriteLimit

\* The rows a transaction holds are there and are of what it changes.
HeldBy(u, links) ==
  /\ u.rows \subseteq links
  /\ u.step \notin {"insert", "count", "commit"} => u.rows = {}
  /\ u.req.op = "setLinks" /\ u.step = "clearing" => \A l \in u.seen : l.target = u.req.target
  /\ u.req.op = "setLinks" /\ u.step = "insert" => \A l \in u.rows : l.target = u.req.target
  /\ u.req.op = "setFavorite" /\ u.step = "marking" => \A l \in u.seen : l.media \in u.req.list
  /\ u.req.op = "setFavorite" /\ u.step = "count" => \A l \in u.rows : l.media \in u.req.list

\* What a transaction that has the galleries to itself relies on.
AloneBy(u, links) ==
  /\ u.req.op = "setLinks" /\ u.step \in {"clear", "clearing", "insert"} =>
       IsFiniteSet(u.marked) /\ Cardinality(u.marked) <= FavoriteLimit
  /\ u.req.op = "setLinks" /\ u.step = "clearing" =>
       \A l \in links : l.target = u.req.target => \E s \in u.seen : Row(s) = Row(l)
  /\ u.req.op = "setLinks" /\ u.step = "insert" =>
       \A l \in links : l.target = u.req.target => l \in u.rows
  /\ u.req.op = "setFavorite" /\ u.step = "commit" => Limited(Marked(links, u.rows, TRUE))

Alone ==
  /\ \A c, b \in Clients : Works(task[c]) /\ Works(task[b]) => c = b
  /\ \A c \in Clients : AloneBy(task[c], db.links)

HeldApart ==
  \A c \in Clients : HeldBy(task[c], db.links)
                     /\ \A b \in Clients \ {c} : task[c].rows \cap task[b].rows = {}

\* A picture that is shown is not one that is still to be stored.
ShownBefore ==
  \A t \in Targets : past.shown[t] # None =>
    \A m \in past.shown[t] : \A c \in Clients : Key(m, "file") \notin Coming(c)

\* What a gallery shows, in terms of the links, the pictures and what was asked for.
ShowsAsAsked(links, ids, shown, alone) ==
  \A t \in Targets : shown[t] # None =>
    /\ \A m \in shown[t] : m \in ids => \E l \in links : l.target = t /\ l.media = m
    /\ alone => \A l \in links : l.target = t => l.media \in shown[t]

GalleryInv ==
  /\ LinkedOnce(db.links)
  /\ \A c \in Clients : AskedBy(task[c])
  /\ HeldApart /\ ShownBefore
  /\ ~past.overlapped => Alone /\ Limited(db.links)
  /\ ShowsAsAsked(db.links, MediaIds, past.shown, ~past.overlapped)

LEMMA AsAsked == GalleryInv => GalleryIsAsAsked
<1> SUFFICES ASSUME GalleryInv PROVE GalleryIsAsAsked
  OBVIOUS
<1>1. ~past.overlapped => FavoritesLimited
  <2>1. \A t \in Targets : FavoritesOf(t) = FavoritesIn(db.links, t)
    BY DEF FavoritesOf, Gallery, FavoritesIn
  <2> QED
    BY <2>1 DEF GalleryInv, Limited, FavoritesLimited
<1>2. ASSUME NEW t \in Targets, past.shown[t] # None
      PROVE  /\ past.shown[t] \cap MediaIds \subseteq InGallery(t)
             /\ ~past.overlapped => InGallery(t) \subseteq past.shown[t]
  BY <1>2 DEF GalleryInv, ShowsAsAsked, InGallery, Gallery
<1> QED
  BY <1>1, <1>2 DEF GalleryIsAsAsked

LEMMA FewerFavorites ==
  ASSUME NEW links, NEW more, IsFiniteSet(more), NEW t,
         FavoritesIn(links, t) \subseteq FavoritesIn(more, t), Cardinality(FavoritesIn(more, t)) <= FavoriteLimit
  PROVE  Cardinality(FavoritesIn(links, t)) <= FavoriteLimit
<1>1. IsFiniteSet(FavoritesIn(more, t))
  <2>1. FavoritesIn(more, t) \subseteq more
    BY DEF FavoritesIn
  <2> QED
    BY <2>1, FS_Subset
<1>2. IsFiniteSet(FavoritesIn(links, t)) /\ Cardinality(FavoritesIn(links, t)) <= Cardinality(FavoritesIn(more, t))
  BY <1>1, FS_Subset
<1>3. Cardinality(FavoritesIn(links, t)) \in Nat /\ Cardinality(FavoritesIn(more, t)) \in Nat
  BY <1>1, <1>2, FS_CardinalityType
<1> QED
  BY <1>2, <1>3, GalleriesAssumption

\* As many favourites as pictures they show, at most.
LEMMA FavoritesByPicture ==
  ASSUME NEW S, NEW M, IsFiniteSet(M), Cardinality(M) <= FavoriteLimit,
         \A l \in S : l.media \in M, \A l, m \in S : l.media = m.media => l = m
  PROVE  IsFiniteSet(S) /\ Cardinality(S) <= FavoriteLimit
<1> DEFINE f == [l \in S |-> l.media]
<1>1. f \in Injection(S, M)
  BY DEF Injection, IsInjective
<1>2. IsFiniteSet(S) /\ Cardinality(S) <= Cardinality(M)
  BY <1>1, FS_Injection
<1>3. Cardinality(S) \in Nat /\ Cardinality(M) \in Nat
  BY <1>2, FS_CardinalityType
<1> QED
  BY <1>2, <1>3, GalleriesAssumption

\* A set that something finite names is finite, and no larger.
LEMMA NamedByFinite ==
  ASSUME NEW S, IsFiniteSet(S), NEW T, NEW f, DOMAIN f = S, f \in [S -> T], \A y \in T : \E x \in S : f[x] = y
  PROVE  IsFiniteSet(T) /\ Cardinality(T) <= Cardinality(S)
<1>1. f \in Surjection(S, T)
  BY DEF Surjection
<1> QED
  BY <1>1, FS_Surjection

LEMMA IdsFinite ==
  ASSUME LibraryInv
  PROVE  IsFiniteSet(MediaIds)
<1> DEFINE f == [m \in db.media |-> m.id]
<1>1. IsFiniteSet(db.media)
  BY DEF LibraryInv, TypeOK
<1>2. DOMAIN f = db.media /\ f \in [db.media -> MediaIds] /\ \A y \in MediaIds : \E x \in db.media : f[x] = y
  BY DEF MediaIds
<1> HIDE DEF f
<1> QED
  BY <1>1, <1>2, NamedByFinite

\* What a step leaves the galleries with, besides what they show.
Stands(c, t, links, alone) ==
  /\ LinkedOnce(links) /\ AskedBy(t) /\ HeldBy(t, links)
  /\ \A b \in Clients \ {c} : HeldBy(task[b], links) /\ t.rows \cap task[b].rows = {}
  /\ alone => /\ Limited(links) /\ AloneBy(t, links)
              /\ \A b \in Clients \ {c} : AloneBy(task[b], links) /\ ~(Works(t) /\ Works(task[b]))

LEMMA OneMoves ==
  ASSUME LibraryInv, GalleryInv, NEW c \in Clients, NEW t \in Tasks, task' = [task EXCEPT ![c] = t],
         NEW links, links = db'.links, NEW ids, ids = MediaIds', NEW p, p = past',
         Stands(c, t, links, ~p.overlapped), past.overlapped => p.overlapped,
         ShownBefore', ShowsAsAsked(links, ids, p.shown, ~p.overlapped)
  PROVE  GalleryInv'
<1>1. task \in [Clients -> Tasks]
  BY DEF LibraryInv, TypeOK
<1>2. PICK u : u = task' /\ u[c] = t /\ \A b \in Clients \ {c} : u[b] = task[b]
  BY <1>1
<1>3. \A b \in Clients : u[b] = t \/ (b # c /\ u[b] = task[b])
  BY <1>2
<1>4. \A b \in Clients : AskedBy(u[b])
  BY <1>3 DEF GalleryInv, Stands
<1>5. \A b \in Clients : HeldBy(u[b], links)
  BY <1>3 DEF Stands
<1>6. \A a \in Clients : \A b \in Clients \ {a} : u[a].rows \cap u[b].rows = {}
  <2>1. \A a \in Clients : \A b \in Clients \ {a} : task[a].rows \cap task[b].rows = {}
    BY DEF GalleryInv, HeldApart
  <2>2. \A b \in Clients \ {c} : t.rows \cap task[b].rows = {}
    BY DEF Stands
  <2> QED
    BY <1>2, <2>1, <2>2
<1>7. ~p.overlapped => /\ Limited(links)
                       /\ \A b \in Clients : AloneBy(u[b], links)
                       /\ \A a, b \in Clients : Works(u[a]) /\ Works(u[b]) => a = b
  <2> SUFFICES ASSUME ~p.overlapped
               PROVE  /\ Limited(links)
                      /\ \A b \in Clients : AloneBy(u[b], links)
                      /\ \A a, b \in Clients : Works(u[a]) /\ Works(u[b]) => a = b
    OBVIOUS
  <2>1. \A a, b \in Clients : Works(task[a]) /\ Works(task[b]) => a = b
    BY DEF GalleryInv, Alone
  <2>2. Limited(links) /\ \A b \in Clients : AloneBy(u[b], links)
    BY <1>3 DEF Stands
  <2>3. \A b \in Clients \ {c} : ~(Works(t) /\ Works(task[b]))
    BY DEF Stands
  <2> QED
    BY <1>2, <2>1, <2>2, <2>3
<1>8. LinkedOnce(links)
  BY DEF Stands
<1>9. LinkedOnce(db.links)'
  BY <1>8 DEF LinkedOnce
<1>10. (\A b \in Clients : AskedBy(task[b]))'
  BY <1>2, <1>4 DEF AskedBy
<1>11. HeldApart'
  BY <1>2, <1>5, <1>6 DEF HeldApart, HeldBy
<1>12. (~past.overlapped => Alone /\ Limited(db.links))'
  <2> SUFFICES ASSUME ~past'.overlapped PROVE Alone' /\ Limited(db.links)'
    OBVIOUS
  <2>1. ~p.overlapped
    BY <1>2
  <2>2. Limited(db.links)'
    BY <1>2, <1>7, <2>1 DEF Limited, FavoritesIn
  <2>3. \A a, b \in Clients : Works(task'[a]) /\ Works(task'[b]) => a = b
    BY <1>2, <1>7, <2>1
  <2>4. \A b \in Clients : AloneBy(task'[b], db'.links)
    BY <1>2, <1>7, <2>1
  <2> QED
    BY ONLY <2>2, <2>3, <2>4 DEF Alone, AloneBy, Works, Limited, FavoritesIn, Marked
<1>13. ShowsAsAsked(db.links, MediaIds, past.shown, ~past.overlapped)'
  BY DEF ShowsAsAsked
<1> QED
  BY <1>9, <1>10, <1>11, <1>12, <1>13 DEF GalleryInv

\* What the galleries show: the same as before, or the pictures just asked for.
ShownOn(p) ==
  /\ past.overlapped => p.overlapped
  /\ \A T \in Targets : p.shown[T] \notin {past.shown[T], None} => p.shown[T] \subseteq MediaIds

LEMMA TurnKept ==
  ASSUME LibraryInv, GalleryInv, NEW c \in Clients, NEW t \in Tasks, NEW s, NEW links, Turns(c, t, s, links),
         NEW p, p = past', ShownOn(p), Stands(c, t, links, ~p.overlapped),
         ShowsAsAsked(links, MediaIds, p.shown, ~p.overlapped)
  PROVE  GalleryInv'
<1>1. task' = [task EXCEPT ![c] = t] /\ db' = [db EXCEPT !.links = links]
      /\ t.req = task[c].req /\ t.step \in GallerySteps
  BY DEF Turns
<1>2. db \in Rows /\ task \in [Clients -> Tasks]
  BY DEF LibraryInv, TypeOK
<1>3. links = db'.links /\ db'.media = db.media
  BY <1>1, <1>2 DEF Rows
<1>4. MediaIds' = MediaIds
  BY <1>3 DEF MediaIds
<1>5. PICK u : u = task' /\ u[c] = t /\ \A b \in Clients \ {c} : u[b] = task[b]
  BY <1>1, <1>2
<1>6. t.step \notin Unsent
  BY <1>1 DEF GallerySteps, Unsent
<1>7. \A b \in Clients : Coming(b)' \subseteq Coming(b)
  <2> SUFFICES ASSUME NEW b \in Clients PROVE Coming(b)' \subseteq Coming(b)
    OBVIOUS
  <2>1. CASE b = c
    BY <1>5, <1>6, <2>1 DEF Coming
  <2>2. CASE b # c
    BY <1>5, <2>2 DEF Coming, Req
  <2> QED
    BY <2>1, <2>2
<1>8. \A m \in MediaIds : \A b \in Clients : Key(m, "file") \notin Coming(b)
  <2>1. \A m \in MediaIds : Key(m, "file") \in Named(db)
    BY DEF MediaIds, Named, MediaKeys
  <2>2. \A b \in Clients : Coming(b) \cap Named(db) = {}
    BY DEF LibraryInv, NamesApart
  <2> QED
    BY <2>1, <2>2
<1>9. \A T \in Targets : p.shown[T] # None =>
         \A m \in p.shown[T] : \A b \in Clients : Key(m, "file") \notin Coming(b)
  BY <1>8 DEF GalleryInv, ShownBefore, ShownOn
<1>10. ShownBefore'
  <2> SUFFICES ASSUME NEW T \in Targets, p.shown[T] # None, NEW m \in p.shown[T], NEW b \in Clients
               PROVE  Key(m, "file") \notin Coming(b)'
    BY DEF ShownBefore, Key
  <2> QED
    BY <1>7, <1>9
<1> QED
  BY <1>1, <1>3, <1>4, <1>10, OneMoves DEF ShownOn

\* A step that reads, and changes no link.
LEMMA LinksStay ==
  ASSUME LibraryInv, GalleryInv, NEW c \in Clients, NEW t \in Tasks, NEW s, Turns(c, t, s, db.links),
         NEW p, p = past', past.overlapped => p.overlapped, p.shown = past.shown,
         AskedBy(t), HeldBy(t, db.links), \A b \in Clients \ {c} : t.rows \cap task[b].rows = {},
         ~p.overlapped => /\ AloneBy(t, db.links)
                          /\ \A b \in Clients \ {c} : ~(Works(t) /\ Works(task[b]))
  PROVE  GalleryInv'
<1>1. ShownOn(p)
  BY DEF ShownOn
<1>2. Stands(c, t, db.links, ~p.overlapped)
  BY DEF Stands, GalleryInv, HeldApart, Alone
<1>3. ShowsAsAsked(db.links, MediaIds, p.shown, ~p.overlapped)
  BY DEF GalleryInv, ShowsAsAsked
<1> QED
  BY <1>1, <1>2, <1>3, TurnKept

\* What holds of a request and of the rows it holds.
LEMMA TaskIs ==
  ASSUME GalleryInv, NEW c \in Clients
  PROVE  /\ AskedBy(task[c]) /\ HeldBy(task[c], db.links)
         /\ \A b \in Clients \ {c} : HeldBy(task[b], db.links) /\ task[c].rows \cap task[b].rows = {}
         /\ ~past.overlapped => AloneBy(task[c], db.links)
BY DEF GalleryInv, HeldApart, Alone

LEMMA AskedKeeps ==
  ASSUME LibraryInv, GalleryInv, NEW c \in Clients, handleSetMediaLinks(c) \/ handleSetMediaFavorites(c)
  PROVE  GalleryInv'
<1>1. PICK t \in Tasks, s \in {"links", "mark", "refused"} :
           /\ Turns(c, t, s, db.links) /\ past' = past
           /\ t.rows = task[c].rows
           /\ s = "links" => /\ Req(c).op = "setLinks"
                             /\ Req(c).favorites # None => /\ Req(c).target # "trip"
                                                           /\ Cardinality(Req(c).favorites) <= FavoriteLimit
           /\ s = "mark" => Req(c).op = "setFavorite"
  BY AskedTurns
<1>2. t.step = s /\ t.req = Req(c)
  BY <1>1 DEF Turns, Req
<1>3. t.rows = {}
  <2>1. task[c].step = "new"
    BY DEF handleSetMediaLinks, handleSetMediaFavorites, At
  <2> QED
    BY <1>1, <2>1, TaskIs DEF HeldBy
<1>4. AskedBy(t)
  BY <1>1, <1>2, TaskIs DEF AskedBy, Req
<1>5. HeldBy(t, db.links) /\ AloneBy(t, db.links) /\ ~Works(t)
  BY <1>1, <1>2, <1>3 DEF HeldBy, AloneBy, Works
<1> QED
  BY <1>1, <1>3, <1>4, <1>5, LinksStay

LEMMA NobodyElse ==
  ASSUME LibraryInv, NEW c \in Clients, past' = Overlaps(c), NEW p, p = past'
  PROVE  /\ past.overlapped => p.overlapped
         /\ p.shown = past.shown
         /\ ~p.overlapped => ~past.overlapped /\ \A b \in Clients \ {c} : ~Works(task[b])
<1>1. PICK busy \in BOOLEAN : busy = (past.overlapped \/ \E o \in Clients \ {c} : Working(o))
  OBVIOUS
<1>2. past' = [past EXCEPT !.overlapped = busy]
  BY <1>1 DEF Overlaps
<1>3. past \in PastType
  BY GalleriesAre
<1>4. p.overlapped = busy /\ p.shown = past.shown
  BY <1>2, <1>3 DEF PastType
<1> QED
  BY <1>1, <1>4 DEF Working, Works

\* The marks a gallery has are no more than its favourites.
LEMMA MarksWithin ==
  ASSUME LibraryInv, LinkedOnce(db.links), NEW T \in Targets, Cardinality(FavoritesIn(db.links, T)) <= FavoriteLimit,
         NEW marked, marked = {l.media : l \in {l \in Gallery(T) : l.fav}}
  PROVE  IsFiniteSet(marked) /\ Cardinality(marked) <= FavoriteLimit
<1>1. FavoritesIn(db.links, T) = {l \in Gallery(T) : l.fav}
  BY DEF FavoritesIn, Gallery
<1>2. IsFiniteSet(FavoritesIn(db.links, T))
  <2>1. FavoritesIn(db.links, T) \in SUBSET db.links /\ IsFiniteSet(db.links)
    BY DEF FavoritesIn, LinkedOnce
  <2> QED
    BY <2>1, FS_Subset
<1> DEFINE f == [l \in FavoritesIn(db.links, T) |-> l.media]
<1>3. /\ DOMAIN f = FavoritesIn(db.links, T) /\ f \in [FavoritesIn(db.links, T) -> marked]
      /\ \A y \in marked : \E x \in FavoritesIn(db.links, T) : f[x] = y
  BY <1>1
<1> HIDE DEF f
<1>4. IsFiniteSet(marked) /\ Cardinality(marked) <= Cardinality(FavoritesIn(db.links, T))
  BY ONLY <1>2, <1>3, NamedByFinite
<1>5. Cardinality(marked) \in Nat /\ Cardinality(FavoritesIn(db.links, T)) \in Nat
  BY <1>2, <1>4, FS_CardinalityType
<1> QED
  BY <1>4, <1>5, GalleriesAssumption

LEMMA LinksReadKeep ==
  ASSUME LibraryInv, GalleryInv, NEW c \in Clients, SetLinks(c)
  PROVE  GalleryInv'
<1>1. PICK t \in Tasks, s \in {"clear", "refused"} :
           /\ Turns(c, t, s, db.links) /\ past' = Overlaps(c)
           /\ t.rows = task[c].rows
           /\ s = "clear" => t.marked = {l.media : l \in {l \in Gallery(Req(c).target) : l.fav}}
  BY SetLinksTurns
<1>2. t.step = s /\ t.req = Req(c) /\ At(c, "setLinks", "links")
  BY <1>1 DEF Turns, Req, SetLinks
<1>3. t.rows = {} /\ AskedBy(t) /\ Req(c).target \in Targets
  BY <1>1, <1>2, TaskIs, LinkRequests DEF HeldBy, AskedBy, At, Req
<1>4. HeldBy(t, db.links)
  BY <1>1, <1>2, <1>3 DEF HeldBy
<1>5. PICK p : p = past'
  OBVIOUS
<1>6. /\ past.overlapped => p.overlapped
      /\ p.shown = past.shown
      /\ ~p.overlapped => ~past.overlapped /\ \A b \in Clients \ {c} : ~Works(task[b])
  BY <1>1, <1>5, NobodyElse
<1>7. ASSUME ~p.overlapped PROVE AloneBy(t, db.links)
  <2>1. LinkedOnce(db.links) /\ Cardinality(FavoritesIn(db.links, Req(c).target)) <= FavoriteLimit
    BY <1>3, <1>6, <1>7 DEF GalleryInv, Limited
  <2>2. s = "clear" => IsFiniteSet(t.marked) /\ Cardinality(t.marked) <= FavoriteLimit
    BY <1>1, <1>3, <2>1, MarksWithin
  <2> QED
    BY <1>1, <1>2, <2>2 DEF AloneBy
<1> QED
  BY <1>1, <1>3, <1>4, <1>5, <1>6, <1>7, LinksStay

LEMMA SeenKeeps ==
  ASSUME LibraryInv, GalleryInv, NEW c \in Clients, ClearLinks(c) \/ SetFavorite(c)
  PROVE  GalleryInv'
<1>1. PICK t \in Tasks, s \in {"clearing", "marking"} :
           /\ Turns(c, t, s, db.links) /\ past' \in {past, Overlaps(c)}
           /\ t.rows = task[c].rows /\ t.marked = task[c].marked
           /\ s = "clearing" => At(c, "setLinks", "clear") /\ t.seen = Gallery(Req(c).target) /\ past' = past
           /\ s = "marking" => /\ At(c, "setFavorite", "mark") /\ past' = Overlaps(c)
                               /\ t.seen = {l \in db.links : l.media \in Req(c).list /\ l.target # "trip"}
  BY SeenTurns
<1>2. t.step = s /\ t.req = Req(c)
  BY <1>1 DEF Turns, Req
<1>3. PICK p : p = past'
  OBVIOUS
<1>4. t.rows = {} /\ AskedBy(t)
  BY <1>1, <1>2, TaskIs DEF HeldBy, AskedBy, At, Req
<1>5. HeldBy(t, db.links)
  BY <1>1, <1>2, <1>4 DEF HeldBy, At, Req, Gallery
<1>6. /\ past.overlapped => p.overlapped
      /\ p.shown = past.shown
      /\ ~p.overlapped => ~past.overlapped /\ \A b \in Clients \ {c} : ~Works(task[b])
  <2>1. CASE s = "clearing"
    <3>1. Works(task[c])
      BY <1>1, <2>1 DEF At, Works
    <3>2. ~past.overlapped => \A b \in Clients : Works(task[c]) /\ Works(task[b]) => c = b
      BY DEF GalleryInv, Alone
    <3> QED
      BY <1>1, <1>3, <2>1, <3>1, <3>2
  <2>2. CASE s = "marking"
    BY <1>1, <1>3, <2>2, NobodyElse
  <2> QED
    BY <1>1, <2>1, <2>2
<1>7. ASSUME ~p.overlapped PROVE AloneBy(t, db.links)
  <2>1. AloneBy(task[c], db.links)
    BY <1>6, <1>7, TaskIs
  <2>2. CASE s = "clearing"
    <3>1. \A l \in db.links : l.target = t.req.target => \E r \in t.seen : Row(r) = Row(l)
      BY <1>1, <1>2, <2>2 DEF Gallery
    <3>2. IsFiniteSet(t.marked) /\ Cardinality(t.marked) <= FavoriteLimit
      BY <1>1, <2>1, <2>2 DEF AloneBy, At, Req
    <3> QED
      BY <1>2, <2>2, <3>1, <3>2 DEF AloneBy
  <2>3. CASE s = "marking"
    BY <1>2, <2>3 DEF AloneBy
  <2> QED
    BY <1>1, <2>2, <2>3
<1> QED
  BY <1>1, <1>3, <1>4, <1>5, <1>6, <1>7, LinksStay

\* What nobody else holds is held by nobody else.
LEMMA StillMine ==
  ASSUME GalleryInv, NEW c \in Clients, Free(c)
  PROVE  \A b \in Clients \ {c} : Still(c) \cap task[b].rows = {}
<1> SUFFICES ASSUME NEW b \in Clients \ {c}, NEW l \in Still(c), l \in task[b].rows
             PROVE  FALSE
  OBVIOUS
<1>1. PICK s \in task[c].seen : Row(s) = Row(l)
  BY DEF Still
<1>2. Row(l) \in {Row(r) : r \in task[b].rows}
  OBVIOUS
<1>3. Row(l) \in {Row(r) : r \in task[c].seen}
  BY <1>1
<1> QED
  BY <1>2, <1>3 DEF Free

LEMMA HeldKeeps ==
  ASSUME LibraryInv, GalleryInv, NEW c \in Clients, LinksCleared(c) \/ (MarkRows(c) /\ Req(c).favorite)
  PROVE  GalleryInv'
<1>1. PICK t \in Tasks, s \in {"insert", "count"} :
           /\ Turns(c, t, s, db.links) /\ past' = past /\ Free(c)
           /\ t.rows = Still(c) /\ t.marked = task[c].marked
           /\ s = "insert" => At(c, "setLinks", "clearing")
           /\ s = "count" => At(c, "setFavorite", "marking")
  BY HeldTurns
<1>2. t.step = s /\ t.req = Req(c)
  BY <1>1 DEF Turns, Req
<1>3. AskedBy(t)
  BY <1>1, <1>2, TaskIs DEF AskedBy, At, Req
<1>4. /\ \A l \in Still(c) : l \in db.links /\ \E r \in task[c].seen : Row(r) = Row(l)
      /\ \A r, l \in LinkRows : Row(r) = Row(l) => r.media = l.media /\ r.target = l.target
  BY DEF Still, Row
<1>5. task[c].seen \subseteq LinkRows /\ db.links \subseteq LinkRows
  BY GalleriesAre
<1>6. HeldBy(t, db.links)
  <2>1. CASE s = "insert"
    <3>1. \A l \in task[c].seen : l.target = Req(c).target
      BY <1>1, <2>1, TaskIs DEF HeldBy, At, Req
    <3>2. \A l \in Still(c) : l.target = Req(c).target
      BY <1>4, <1>5, <3>1
    <3> QED
      BY <1>1, <1>2, <1>4, <2>1, <3>2 DEF HeldBy
  <2>2. CASE s = "count"
    <3>1. \A l \in task[c].seen : l.media \in Req(c).list
      BY <1>1, <2>2, TaskIs DEF HeldBy, At, Req
    <3>2. \A l \in Still(c) : l.media \in Req(c).list
      BY <1>4, <1>5, <3>1
    <3> QED
      BY <1>1, <1>2, <1>4, <2>2, <3>2 DEF HeldBy
  <2> QED
    BY <1>1, <2>1, <2>2
<1>7. ~past.overlapped => \A b \in Clients \ {c} : ~Works(task[b])
  <2>1. Works(task[c])
    BY <1>1 DEF At, Works
  <2>2. ~past.overlapped => \A b \in Clients : Works(task[c]) /\ Works(task[b]) => c = b
    BY DEF GalleryInv, Alone
  <2> QED
    BY <2>1, <2>2
<1>8. ASSUME ~past.overlapped PROVE AloneBy(t, db.links)
  <2>1. AloneBy(task[c], db.links)
    BY <1>8, TaskIs
  <2>2. CASE s = "insert"
    <3>1. \A l \in db.links : l.target = Req(c).target => \E r \in task[c].seen : Row(r) = Row(l)
      BY <1>1, <2>1, <2>2 DEF AloneBy, At, Req
    <3>2. \A l \in db.links : l.target = Req(c).target => l \in Still(c)
      BY <3>1 DEF Still
    <3>3. IsFiniteSet(t.marked) /\ Cardinality(t.marked) <= FavoriteLimit
      BY <1>1, <2>1, <2>2 DEF AloneBy, At, Req
    <3> QED
      BY <1>1, <1>2, <2>2, <3>2, <3>3 DEF AloneBy
  <2>3. CASE s = "count"
    BY <1>2, <2>3 DEF AloneBy
  <2> QED
    BY <1>1, <2>2, <2>3
<1>9. \A b \in Clients \ {c} : t.rows \cap task[b].rows = {}
  BY <1>1, StillMine
<1> QED
  BY <1>1, <1>3, <1>6, <1>7, <1>8, <1>9, LinksStay

\* What a set of links still has with its marks changed.
LEMMA MarkedAre ==
  ASSUME NEW links \in SUBSET LinkRows, NEW rows \in SUBSET LinkRows, NEW fav \in BOOLEAN
  PROVE  /\ \A l \in links \cup rows :
              \E n \in Marked(links, rows, fav) : n.media = l.media /\ n.target = l.target /\ n.by = l.by
         /\ \A n \in Marked(links, rows, fav) :
              \/ n \in links \ rows
              \/ \E l \in rows : n.media = l.media /\ n.target = l.target /\ n.by = l.by /\ n.fav = fav
         /\ links \ rows \subseteq Marked(links, rows, fav)
<1>1. \A l \in LinkRows : LET n == [l EXCEPT !.fav = fav]
                          IN n.media = l.media /\ n.target = l.target /\ n.by = l.by /\ n.fav = fav
  BY DEF LinkRows
<1>2. \A l \in rows : LET n == [l EXCEPT !.fav = fav]
                      IN n.media = l.media /\ n.target = l.target /\ n.by = l.by /\ n.fav = fav
  BY <1>1
<1>3. \A l \in links \cup rows :
        \E n \in Marked(links, rows, fav) : n.media = l.media /\ n.target = l.target /\ n.by = l.by
  <2>1. \A l \in rows : \E n \in Marked(links, rows, fav) : n.media = l.media /\ n.target = l.target /\ n.by = l.by
    BY ONLY <1>2 DEF Marked
  <2>2. links \ rows \subseteq Marked(links, rows, fav)
    BY DEF Marked
  <2> QED
    BY ONLY <2>1, <2>2
<1>4. \A n \in Marked(links, rows, fav) :
        \/ n \in links \ rows
        \/ \E l \in rows : n.media = l.media /\ n.target = l.target /\ n.by = l.by /\ n.fav = fav
  BY ONLY <1>2 DEF Marked
<1> QED
  BY <1>3, <1>4 DEF Marked

LEMMA MarkedFinite ==
  ASSUME NEW links, IsFiniteSet(links), NEW rows, rows \subseteq links, NEW fav
  PROVE  IsFiniteSet(Marked(links, rows, fav))
<1> DEFINE T == {[l EXCEPT !.fav = fav] : l \in rows}
           f == [l \in rows |-> [l EXCEPT !.fav = fav]]
<1>1. IsFiniteSet(rows) /\ IsFiniteSet(links \ rows)
  BY FS_Subset
<1>2. DOMAIN f = rows /\ f \in [rows -> T] /\ \A y \in T : \E x \in rows : f[x] = y
  OBVIOUS
<1> HIDE DEF f, T
<1>3. IsFiniteSet(T)
  BY ONLY <1>1, <1>2, NamedByFinite
<1>4. IsFiniteSet((links \ rows) \cup T)
  BY ONLY <1>1, <1>3, FS_Union
<1> QED
  BY <1>4 DEF Marked, T

LEMMA MarkedOnce ==
  ASSUME NEW links \in SUBSET LinkRows, LinkedOnce(links), NEW rows, rows \subseteq links, NEW fav \in BOOLEAN
  PROVE  LinkedOnce(Marked(links, rows, fav))
<1>1. IsFiniteSet(Marked(links, rows, fav))
  BY MarkedFinite DEF LinkedOnce
<1>2. ASSUME NEW n \in Marked(links, rows, fav), NEW o \in Marked(links, rows, fav),
             n.media = o.media, n.target = o.target
      PROVE  n = o
  <2>1. \A l, m \in links : l.media = m.media /\ l.target = m.target => l = m
    BY DEF LinkedOnce
  <2>2. CASE n \in links \ rows /\ o \in links \ rows
    BY <1>2, <2>1, <2>2
  <2>3. CASE n \in links \ rows /\ o \notin links \ rows
    <3>1. PICK l \in rows : o = [l EXCEPT !.fav = fav]
      BY <1>2, <2>3 DEF Marked
    <3>2. l \in links /\ o.media = l.media /\ o.target = l.target
      BY <3>1 DEF LinkRows
    <3> QED
      BY <1>2, <2>1, <2>3, <3>1, <3>2
  <2>4. CASE n \notin links \ rows /\ o \in links \ rows
    <3>1. PICK l \in rows : n = [l EXCEPT !.fav = fav]
      BY <1>2, <2>4 DEF Marked
    <3>2. l \in links /\ n.media = l.media /\ n.target = l.target
      BY <3>1 DEF LinkRows
    <3> QED
      BY <1>2, <2>1, <2>4, <3>1, <3>2
  <2>5. CASE n \notin links \ rows /\ o \notin links \ rows
    <3>1. PICK l \in rows, k \in rows : n = [l EXCEPT !.fav = fav] /\ o = [k EXCEPT !.fav = fav]
      BY <1>2, <2>5 DEF Marked
    <3>2. /\ l \in links /\ n.media = l.media /\ n.target = l.target
          /\ k \in links /\ o.media = k.media /\ o.target = k.target
      BY <3>1 DEF LinkRows
    <3>3. l = k
      BY <1>2, <2>1, <3>2
    <3> QED
      BY <3>1, <3>3
  <2> QED
    BY <2>2, <2>3, <2>4, <2>5
<1> QED
  BY <1>1, <1>2 DEF LinkedOnce

LEMMA CountKeeps ==
  ASSUME LibraryInv, GalleryInv, NEW c \in Clients, CountFavorites(c)
  PROVE  GalleryInv'
<1>1. PICK t \in Tasks, s \in {"commit", "refused"} :
           /\ Turns(c, t, s, db.links) /\ past' = past /\ At(c, "setFavorite", "count")
           /\ s = "refused" => t.rows = {}
           /\ s = "commit" => /\ t.rows = task[c].rows
                              /\ checkFavoriteLimits(WithMark(task[c].rows, TRUE), Req(c).list)
  BY CountTurns
<1>2. t.step = s /\ t.req = Req(c)
  BY <1>1 DEF Turns, Req
<1>3. AskedBy(t)
  BY <1>1, <1>2 DEF AskedBy, At, Req
<1>4. /\ task[c].rows \subseteq db.links /\ \A l \in task[c].rows : l.media \in Req(c).list
      /\ \A b \in Clients \ {c} : task[c].rows \cap task[b].rows = {}
  BY <1>1, TaskIs DEF HeldBy, At, Req
<1>5. HeldBy(t, db.links) /\ \A b \in Clients \ {c} : t.rows \cap task[b].rows = {}
  BY <1>1, <1>2, <1>4 DEF HeldBy
<1>6. ~past.overlapped => \A b \in Clients \ {c} : ~Works(task[b])
  <2>1. Works(task[c])
    BY <1>1 DEF At, Works
  <2>2. ~past.overlapped => \A b \in Clients : Works(task[c]) /\ Works(task[b]) => c = b
    BY DEF GalleryInv, Alone
  <2> QED
    BY <2>1, <2>2
<1>7. ASSUME ~past.overlapped, s = "commit", NEW T \in Targets
      PROVE  Cardinality(FavoritesIn(Marked(db.links, task[c].rows, TRUE), T)) <= FavoriteLimit
  <2>0. PICK links : links = Marked(db.links, task[c].rows, TRUE)
    OBVIOUS
  <2>1. WithMark(task[c].rows, TRUE) = links
    BY <2>0 DEF WithMark, Marked
  <2>2. CASE \E l \in links : l.media \in Req(c).list /\ l.target = T
    <3>1. Cardinality({l \in links : l.target = T /\ l.fav}) <= FavoriteLimit
      BY <1>1, <1>7, <2>1, <2>2 DEF checkFavoriteLimits
    <3> QED
      BY <2>0, <3>1 DEF FavoritesIn
  <2>3. CASE ~\E l \in links : l.media \in Req(c).list /\ l.target = T
    <3>1. db.links \in SUBSET LinkRows /\ task[c].rows \in SUBSET LinkRows
      BY GalleriesAre
    <3>2. PICK fav \in BOOLEAN : fav = TRUE
      OBVIOUS
    <3>3. links = Marked(db.links, task[c].rows, fav)
      BY <2>0, <3>2
    <3>4. /\ \A l \in db.links \cup task[c].rows :
               \E n \in links : n.media = l.media /\ n.target = l.target /\ n.by = l.by
          /\ \A n \in links :
               \/ n \in db.links \ task[c].rows
               \/ \E l \in task[c].rows :
                    n.media = l.media /\ n.target = l.target /\ n.by = l.by /\ n.fav = fav
      BY ONLY <3>1, <3>3, fav \in BOOLEAN, MarkedAre
    <3>5. \A l \in task[c].rows : l.target # T
      <4>1. \A l \in task[c].rows : \E n \in links : n.media = l.media /\ n.target = l.target
        BY <3>4
      <4> QED
        BY <1>4, <2>3, <4>1
    <3>6. \A n \in links : n \in db.links \ task[c].rows \/ \E l \in task[c].rows : n.target = l.target
      BY <3>4
    <3>7. FavoritesIn(links, T) \subseteq FavoritesIn(db.links, T)
      BY <3>5, <3>6 DEF FavoritesIn
    <3>8. IsFiniteSet(db.links) /\ Cardinality(FavoritesIn(db.links, T)) <= FavoriteLimit
      BY <1>7 DEF GalleryInv, LinkedOnce, Limited
    <3> QED
      BY ONLY <2>0, <3>7, <3>8, FewerFavorites
  <2> QED
    BY <2>0, <2>2, <2>3
<1>8. ASSUME ~past.overlapped PROVE AloneBy(t, db.links)
  <2>1. s = "commit" => Limited(Marked(db.links, t.rows, TRUE))
    BY <1>1, <1>7, <1>8 DEF Limited
  <2> QED
    BY <1>1, <1>2, <2>1 DEF AloneBy
<1> QED
  BY <1>1, <1>3, <1>5, <1>6, <1>8, LinksStay

\* The links with their marks changed show the same.
LEMMA SameLinksShown ==
  ASSUME GalleryInv, NEW links,
         \A l \in db.links : \E n \in links : n.media = l.media /\ n.target = l.target,
         \A n \in links : \E l \in db.links : n.media = l.media /\ n.target = l.target
  PROVE  ShowsAsAsked(links, MediaIds, past.shown, ~past.overlapped)
<1>1. ShowsAsAsked(db.links, MediaIds, past.shown, ~past.overlapped)
  BY DEF GalleryInv
<1> SUFFICES ASSUME NEW T \in Targets, past.shown[T] # None
             PROVE  /\ \A m \in past.shown[T] : m \in MediaIds => \E l \in links : l.target = T /\ l.media = m
                    /\ ~past.overlapped => \A l \in links : l.target = T => l.media \in past.shown[T]
  BY DEF ShowsAsAsked
<1>2. /\ \A m \in past.shown[T] : m \in MediaIds => \E l \in db.links : l.target = T /\ l.media = m
      /\ ~past.overlapped => \A l \in db.links : l.target = T => l.media \in past.shown[T]
  BY <1>1 DEF ShowsAsAsked
<1> QED
  BY <1>2

\* The other ones' rows stay where the marks of rows nobody else holds change.
LEMMA OthersHold ==
  ASSUME NEW u, NEW before, HeldBy(u, before), NEW links, u.rows \subseteq links
  PROVE  HeldBy(u, links)
BY DEF HeldBy

LEMMA CommitKeeps ==
  ASSUME LibraryInv, GalleryInv, NEW c \in Clients, CommitFavorites(c)
  PROVE  GalleryInv'
<1>1. PICK t \in Tasks :
           /\ Turns(c, t, "done", WithMark(task[c].rows, TRUE)) /\ t.rows = {} /\ past' = past
           /\ At(c, "setFavorite", "commit")
  BY CommitTurns
<1>2. PICK fav \in BOOLEAN : fav = TRUE
  OBVIOUS
<1>3. PICK links, rows : rows = task[c].rows /\ links = Marked(db.links, rows, fav)
  OBVIOUS
<1>4. Turns(c, t, "done", links)
  BY <1>1, <1>2, <1>3 DEF WithMark, Marked
<1>5. t.step = "done" /\ t.req = Req(c)
  BY <1>1 DEF Turns, Req
<1>6. AskedBy(t)
  BY <1>1, <1>5 DEF AskedBy, At, Req
<1>7. /\ rows \subseteq db.links /\ \A b \in Clients \ {c} : HeldBy(task[b], db.links) /\ rows \cap task[b].rows = {}
      /\ db.links \in SUBSET LinkRows /\ rows \in SUBSET LinkRows
  BY <1>3, TaskIs, GalleriesAre DEF HeldBy
<1>8. /\ \A l \in db.links \cup rows : \E n \in links : n.media = l.media /\ n.target = l.target /\ n.by = l.by
      /\ \A n \in links :
           \/ n \in db.links \ rows
           \/ \E l \in rows : n.media = l.media /\ n.target = l.target /\ n.by = l.by /\ n.fav = fav
      /\ db.links \ rows \subseteq links
  BY ONLY <1>3, <1>7, fav \in BOOLEAN, MarkedAre
<1>9. LinkedOnce(links)
  <2>1. LinkedOnce(db.links)
    BY DEF GalleryInv
  <2> QED
    BY ONLY <1>3, <1>7, <2>1, fav \in BOOLEAN, MarkedOnce
<1>10. ShowsAsAsked(links, MediaIds, past.shown, ~past.overlapped)
  BY <1>7, <1>8, SameLinksShown
<1>11. \A b \in Clients \ {c} : HeldBy(task[b], links)
  <2> SUFFICES ASSUME NEW b \in Clients \ {c} PROVE HeldBy(task[b], links)
    OBVIOUS
  <2>1. task[b].rows \subseteq links
    BY <1>7, <1>8 DEF HeldBy
  <2> QED
    BY <1>7, <2>1, OthersHold
<1>12. HeldBy(t, links) /\ AloneBy(t, links) /\ ~Works(t)
  BY <1>1, <1>5 DEF HeldBy, AloneBy, Works
<1>13. ASSUME ~past.overlapped
       PROVE  Limited(links) /\ \A b \in Clients \ {c} : AloneBy(task[b], links)
  <2>1. AloneBy(task[c], db.links)
    BY <1>13, TaskIs
  <2>2. Limited(links)
    BY <1>1, <1>2, <1>3, <2>1 DEF AloneBy, At, Req
  <2>3. \A b \in Clients \ {c} : ~Works(task[b])
    <3>1. Works(task[c])
      BY <1>1 DEF At, Works
    <3> QED
      BY <1>13, <3>1 DEF GalleryInv, Alone
  <2> QED
    BY <2>2, <2>3 DEF AloneBy, Works
<1>14. Stands(c, t, links, ~past.overlapped)
  BY <1>1, <1>6, <1>9, <1>11, <1>12, <1>13 DEF Stands
<1>15. PICK p : p = past' /\ p = past
  BY <1>1
<1>16. ShownOn(p)
  BY <1>15 DEF ShownOn
<1> QED
  BY <1>4, <1>10, <1>14, <1>15, <1>16, TurnKept

LEMMA UnmarkKeeps ==
  ASSUME LibraryInv, GalleryInv, NEW c \in Clients, MarkRows(c), ~Req(c).favorite
  PROVE  GalleryInv'
<1>1. PICK t \in Tasks :
           /\ Turns(c, t, "done", WithMark(Still(c), FALSE)) /\ t.rows = task[c].rows /\ past' = past
           /\ Free(c) /\ At(c, "setFavorite", "marking")
  BY UnmarkTurns
<1>2. PICK fav \in BOOLEAN : fav = FALSE
  OBVIOUS
<1>3. PICK links, rows : rows = Still(c) /\ links = Marked(db.links, rows, fav)
  OBVIOUS
<1>4. Turns(c, t, "done", links)
  BY <1>1, <1>2, <1>3 DEF WithMark, Marked
<1>5. t.step = "done" /\ t.req = Req(c) /\ t.rows = {}
  BY <1>1, TaskIs DEF Turns, Req, HeldBy, At
<1>6. AskedBy(t)
  BY <1>1, <1>5 DEF AskedBy, At, Req
<1>7. /\ rows \subseteq db.links /\ \A b \in Clients \ {c} : HeldBy(task[b], db.links) /\ rows \cap task[b].rows = {}
      /\ db.links \in SUBSET LinkRows /\ rows \in SUBSET LinkRows
  BY <1>1, <1>3, TaskIs, StillMine, GalleriesAre DEF Still
<1>8. /\ \A l \in db.links \cup rows : \E n \in links : n.media = l.media /\ n.target = l.target /\ n.by = l.by
      /\ \A n \in links :
           \/ n \in db.links \ rows
           \/ \E l \in rows : n.media = l.media /\ n.target = l.target /\ n.by = l.by /\ n.fav = fav
      /\ db.links \ rows \subseteq links
  BY ONLY <1>3, <1>7, fav \in BOOLEAN, MarkedAre
<1>9. LinkedOnce(links)
  <2>1. LinkedOnce(db.links)
    BY DEF GalleryInv
  <2> QED
    BY ONLY <1>3, <1>7, <2>1, fav \in BOOLEAN, MarkedOnce
<1>10. ShowsAsAsked(links, MediaIds, past.shown, ~past.overlapped)
  BY <1>7, <1>8, SameLinksShown
<1>11. \A b \in Clients \ {c} : HeldBy(task[b], links)
  <2> SUFFICES ASSUME NEW b \in Clients \ {c} PROVE HeldBy(task[b], links)
    OBVIOUS
  <2>1. task[b].rows \subseteq links
    BY <1>7, <1>8 DEF HeldBy
  <2> QED
    BY <1>7, <2>1, OthersHold
<1>12. HeldBy(t, links) /\ AloneBy(t, links) /\ ~Works(t)
  BY <1>5 DEF HeldBy, AloneBy, Works
<1>13. ASSUME ~past.overlapped
       PROVE  Limited(links) /\ \A b \in Clients \ {c} : AloneBy(task[b], links)
  <2>1. Limited(db.links) /\ IsFiniteSet(db.links)
    BY <1>13 DEF GalleryInv, LinkedOnce
  <2>2. \A T \in Targets : FavoritesIn(links, T) \subseteq FavoritesIn(db.links, T)
    BY <1>2, <1>8 DEF FavoritesIn
  <2>3. Limited(links)
    BY <2>1, <2>2, FewerFavorites DEF Limited
  <2>4. \A b \in Clients \ {c} : ~Works(task[b])
    <3>1. Works(task[c])
      BY <1>1 DEF At, Works
    <3> QED
      BY <1>13, <3>1 DEF GalleryInv, Alone
  <2> QED
    BY <2>3, <2>4 DEF AloneBy, Works
<1>14. Stands(c, t, links, ~past.overlapped)
  BY <1>5, <1>6, <1>9, <1>11, <1>12, <1>13 DEF Stands
<1>15. PICK p : p = past' /\ p = past
  BY <1>1
<1>16. ShownOn(p)
  BY <1>15 DEF ShownOn
<1> QED
  BY <1>4, <1>10, <1>14, <1>15, <1>16, TurnKept

\* What a request for a gallery leaves: the rows it does not hold, and one per picture it asks for.
AddsLinks(links, kept, T, list, marked) ==
  /\ kept \subseteq links
  /\ \A m \in list : \E l \in links : l.target = T /\ l.media = m
  /\ \A l \in links \ kept :
       /\ l.target = T /\ l.media \in list /\ (l.fav => l.media \in marked)
       /\ \A k \in kept : k.media = l.media => k.target # T
  /\ \A l, n \in links \ kept : l.media = n.media => l = n
  /\ IsFiniteSet(list) => IsFiniteSet(links \ kept)

LEMMA InsertedAre ==
  ASSUME LibraryInv, NEW c \in Clients, Req(c).op = "setLinks",
         NEW kept, kept = db.links \ task[c].rows, NEW T, T = Req(c).target, NEW list, list = Req(c).list,
         NEW links, links = Inserted(c)
  PROVE  AddsLinks(links, kept, T, list, task[c].marked)
<1> DEFINE row(m) == [media |-> m, target |-> T, fav |-> m \in task[c].marked, by |-> c]
           S == {m \in list : \A l \in kept : l.media = m => l.target # T}
<1>1. \A m : /\ row(m).media = m /\ row(m).target = T
             /\ row(m).fav = (m \in task[c].marked)
  <2> SUFFICES ASSUME NEW m
               PROVE  row(m).media = m /\ row(m).target = T /\ row(m).fav = (m \in task[c].marked)
    OBVIOUS
  <2>1. (m \in task[c].marked) \in BOOLEAN
    OBVIOUS
  <2>2. \A b \in BOOLEAN : LET n == [media |-> m, target |-> T, fav |-> b, by |-> c]
                           IN n.media = m /\ n.target = T /\ n.fav = b
    OBVIOUS
  <2> QED
    BY <2>1, <2>2
<1>2. links = kept \cup {row(m) : m \in S}
  BY DEF Inserted
<1>3. S \subseteq list /\ \A m \in list \ S : \E l \in kept : l.media = m /\ l.target = T
  OBVIOUS
<1>4. \A m \in S : \A k \in kept : k.media = m => k.target # T
  OBVIOUS
<1>5. IsFiniteSet(list) => IsFiniteSet({row(m) : m \in S})
  <2> SUFFICES ASSUME IsFiniteSet(list) PROVE IsFiniteSet({row(m) : m \in S})
    OBVIOUS
  <2> DEFINE f == [m \in S |-> row(m)]
             rows == {row(m) : m \in S}
  <2> HIDE DEF row, S
  <2>1. IsFiniteSet(S)
    BY <1>3, FS_Subset
  <2>2. DOMAIN f = S /\ f \in [S -> rows] /\ \A y \in rows : \E x \in S : f[x] = y
    OBVIOUS
  <2> HIDE DEF f, rows
  <2>3. IsFiniteSet(rows)
    BY ONLY <2>1, <2>2, NamedByFinite
  <2> QED
    BY <2>3 DEF rows
<1> HIDE DEF row, S
<1>6. \A l \in links \ kept : \E m \in S : l = row(m)
  BY <1>2
<1>7. \A l \in links \ kept : l.media \in S /\ l = row(l.media)
  BY <1>1, <1>6
<1>8. IsFiniteSet(list) => IsFiniteSet(links \ kept)
  <2>1. links \ kept \in SUBSET {row(m) : m \in S}
    BY <1>2
  <2> QED
    BY <1>5, <2>1, FS_Subset
<1>9. \A m \in list : \E l \in links : l.target = T /\ l.media = m
  <2> SUFFICES ASSUME NEW m \in list PROVE \E l \in links : l.target = T /\ l.media = m
    OBVIOUS
  <2>1. CASE m \in S
    <3>1. row(m) \in links
      BY <1>2, <2>1
    <3> QED
      BY <1>1, <3>1
  <2>2. CASE m \notin S
    BY <1>2, <1>3, <2>2
  <2> QED
    BY <2>1, <2>2
<1>10. ASSUME NEW l \in links \ kept
       PROVE  /\ l.target = T /\ l.media \in list /\ (l.fav => l.media \in task[c].marked)
              /\ \A k \in kept : k.media = l.media => k.target # T
  <2>1. PICK m \in S : l = row(m) /\ l.media = m
    BY <1>7, <1>10
  <2>2. row(m).target = T /\ row(m).fav = (m \in task[c].marked)
    BY <1>1
  <2>3. l.target = T /\ (l.fav => l.media \in task[c].marked)
    BY <2>1, <2>2
  <2> QED
    BY <1>3, <1>4, <2>1, <2>3
<1>11. kept \subseteq links
  BY <1>2
<1>12. \A l, n \in links \ kept : l.media = n.media => l = n
  BY <1>7
<1> QED
  BY ONLY <1>8, <1>9, <1>10, <1>11, <1>12 DEF AddsLinks

LEMMA InsertedOnce ==
  ASSUME NEW links, NEW kept, NEW before, LinkedOnce(before), kept \subseteq before, kept \subseteq links, NEW T,
         \A l \in links \ kept : l.target = T /\ \A k \in kept : k.media = l.media => k.target # T,
         \A l, n \in links \ kept : l.media = n.media => l = n,
         IsFiniteSet(links \ kept)
  PROVE  LinkedOnce(links)
<1>1. IsFiniteSet(links)
  <2>1. IsFiniteSet(kept)
    BY FS_Subset DEF LinkedOnce
  <2>2. IsFiniteSet(kept \cup (links \ kept))
    BY <2>1, FS_Union
  <2>3. kept \cup (links \ kept) = links
    OBVIOUS
  <2> QED
    BY <2>2, <2>3
<1>2. ASSUME NEW l \in links, NEW n \in links, l.media = n.media, l.target = n.target
      PROVE  l = n
  BY <1>2 DEF LinkedOnce
<1> QED
  BY <1>1, <1>2 DEF LinkedOnce

LEMMA InsertKeeps ==
  ASSUME LibraryInv, GalleryInv, NEW c \in Clients, InsertLinks(c)
  PROVE  GalleryInv'
<1>1. PICK t \in Tasks, s \in {"done", "favorites", "refused"}, links \in SUBSET LinkRows :
           /\ Turns(c, t, s, links) /\ t.rows = {} /\ At(c, "setLinks", "insert")
           /\ s = "favorites" => Req(c).favorites # None
           /\ \/ s = "refused" /\ links = db.links /\ past' = past
              \/ /\ s # "refused" /\ links = Inserted(c) /\ Req(c).list \subseteq MediaIds
                 /\ past' = [past EXCEPT !.shown[Req(c).target] = Req(c).list]
  BY InsertTurns
<1>2. t.step = s /\ t.req = Req(c)
  BY <1>1 DEF Turns, Req
<1>3. AskedBy(t)
  BY <1>1, <1>2, TaskIs DEF AskedBy, At, Req
<1>4. HeldBy(t, links) /\ AloneBy(t, links) /\ ~Works(t)
  BY <1>1, <1>2 DEF HeldBy, AloneBy, Works
<1>5. CASE s = "refused"
  <2>1. links = db.links /\ past' = past
    BY <1>1, <1>5
  <2> QED
    BY <1>1, <1>3, <1>4, <2>1, LinksStay
<1>6. CASE s # "refused"
  <2>1. PICK T, list, kept : T = Req(c).target /\ list = Req(c).list /\ kept = db.links \ task[c].rows
    OBVIOUS
  <2>2. T \in Targets /\ list \in SUBSET STRING /\ list \subseteq MediaIds /\ links = Inserted(c)
    BY <1>1, <1>6, <2>1, LinkRequests DEF At, Req
  <2>3. /\ kept \subseteq links
        /\ \A m \in list : \E l \in links : l.target = T /\ l.media = m
        /\ \A l \in links \ kept :
             /\ l.target = T /\ l.media \in list /\ (l.fav => l.media \in task[c].marked)
             /\ \A k \in kept : k.media = l.media => k.target # T
        /\ \A l, n \in links \ kept : l.media = n.media => l = n
        /\ IsFiniteSet(list) => IsFiniteSet(links \ kept)
    <3>1. Req(c).op = "setLinks"
      BY <1>1 DEF At, Req
    <3>2. AddsLinks(links, kept, T, list, task[c].marked)
      BY <2>1, <2>2, <3>1, InsertedAre
    <3> QED
      BY <3>2 DEF AddsLinks
  <2>4. IsFiniteSet(links \ kept)
    BY <2>2, <2>3, IdsFinite, FS_Subset
  <2>5. LinkedOnce(links)
    <3>1. LinkedOnce(db.links) /\ kept \subseteq db.links
      BY <2>1 DEF GalleryInv
    <3> QED
      BY <2>3, <2>4, <3>1, InsertedOnce
  <2>6. /\ task[c].rows \subseteq db.links /\ \A l \in task[c].rows : l.target = T
        /\ \A b \in Clients \ {c} : HeldBy(task[b], db.links) /\ task[c].rows \cap task[b].rows = {}
    BY <1>1, <2>1, TaskIs DEF HeldBy, At, Req
  <2>7. \A b \in Clients \ {c} : HeldBy(task[b], links)
    <3> SUFFICES ASSUME NEW b \in Clients \ {c} PROVE HeldBy(task[b], links)
      OBVIOUS
    <3>1. task[b].rows \subseteq links
      BY <2>1, <2>3, <2>6 DEF HeldBy
    <3> QED
      BY <2>6, <3>1, OthersHold
  <2>8. PICK p : p = past' /\ p = [past EXCEPT !.shown[T] = list]
    BY <1>1, <1>6, <2>1
  <2>9. p.overlapped = past.overlapped /\ p.shown[T] = list /\ \A U \in Targets \ {T} : p.shown[U] = past.shown[U]
    <3>1. past \in PastType
      BY GalleriesAre
    <3> QED
      BY <2>2, <2>8, <3>1 DEF PastType
  <2>10. ShownOn(p)
    BY <2>2, <2>9 DEF ShownOn
  <2>11. ~past.overlapped => \A l \in db.links : l.target = T => l \in task[c].rows
    BY <1>1, <2>1, TaskIs DEF AloneBy, At, Req
  <2>12. ShowsAsAsked(links, MediaIds, p.shown, ~p.overlapped)
    <3> SUFFICES ASSUME NEW U \in Targets, p.shown[U] # None
                 PROVE  /\ \A m \in p.shown[U] : m \in MediaIds => \E l \in links : l.target = U /\ l.media = m
                        /\ ~p.overlapped => \A l \in links : l.target = U => l.media \in p.shown[U]
      BY DEF ShowsAsAsked
    <3>1. CASE U = T
      <4>1. ~past.overlapped => \A l \in kept : l.target # T
        BY <2>1, <2>11
      <4> QED
        BY <2>3, <2>9, <3>1, <4>1
    <3>2. CASE U # T
      <4>1. past.shown[U] # None /\ p.shown[U] = past.shown[U]
        BY <2>9, <3>2
      <4>2. /\ \A m \in past.shown[U] : m \in MediaIds => \E l \in db.links : l.target = U /\ l.media = m
            /\ ~past.overlapped => \A l \in db.links : l.target = U => l.media \in past.shown[U]
        BY <4>1 DEF GalleryInv, ShowsAsAsked
      <4>3. \A l \in db.links : l.target = U => l \in links
        BY <2>1, <2>3, <2>6, <3>2
      <4>4. \A l \in links : l.target = U => l \in db.links
        BY <2>1, <2>3, <3>2
      <4> QED
        BY <2>9, <4>1, <4>2, <4>3, <4>4
    <3> QED
      BY <3>1, <3>2
  <2>13. ASSUME ~past.overlapped
         PROVE  Limited(links) /\ \A b \in Clients \ {c} : AloneBy(task[b], links) /\ ~Works(task[b])
    <3>1. AloneBy(task[c], db.links) /\ Limited(db.links) /\ LinkedOnce(db.links)
      BY <2>13, TaskIs DEF GalleryInv
    <3>2. IsFiniteSet(task[c].marked) /\ Cardinality(task[c].marked) <= FavoriteLimit
      BY <1>1, <3>1 DEF AloneBy, At, Req
    <3>3. ASSUME NEW U \in Targets PROVE Cardinality(FavoritesIn(links, U)) <= FavoriteLimit
      <4>1. CASE U = T
        <5>1. \A l \in FavoritesIn(links, U) : l \in links \ kept /\ l.fav
          BY <2>1, <2>11, <2>13, <4>1 DEF FavoritesIn
        <5>2. \A l \in FavoritesIn(links, U) : l.media \in task[c].marked
          BY <2>3, <5>1
        <5>3. \A l, n \in FavoritesIn(links, U) : l.media = n.media => l = n
          BY <2>3, <5>1
        <5> QED
          BY <3>2, <5>2, <5>3, FavoritesByPicture
      <4>2. CASE U # T
        <5>1. FavoritesIn(links, U) \subseteq FavoritesIn(db.links, U)
          BY <2>1, <2>3, <4>2 DEF FavoritesIn
        <5> QED
          BY <3>1, <5>1, FewerFavorites DEF Limited, LinkedOnce
      <4> QED
        BY <4>1, <4>2
    <3>4. \A b \in Clients \ {c} : ~Works(task[b])
      <4>1. Works(task[c])
        BY <1>1 DEF At, Works
      <4> QED
        BY <2>13, <4>1 DEF GalleryInv, Alone
    <3> QED
      BY <3>3, <3>4 DEF Limited, AloneBy, Works
  <2>14. Stands(c, t, links, ~p.overlapped)
    BY <1>1, <1>3, <1>4, <2>5, <2>7, <2>9, <2>13 DEF Stands
  <2> QED
    BY <1>1, <2>8, <2>10, <2>12, <2>14, TurnKept
<1> QED
  BY <1>5, <1>6

LEMMA RemarkedOnce ==
  ASSUME LibraryInv, LinkedOnce(db.links), NEW c \in Clients, NEW links, links = Remarked(c)
  PROVE  LinkedOnce(links)
<1> DEFINE new(l) == IF l.target = Req(c).target THEN [l EXCEPT !.fav = l.media \in Req(c).favorites] ELSE l
           f == [l \in db.links |-> new(l)]
<1>1. links = {new(l) : l \in db.links}
  BY DEF Remarked
<1>2. ASSUME NEW l \in LinkRows
      PROVE  new(l).media = l.media /\ new(l).target = l.target
  <2>1. (l.media \in Req(c).favorites) \in BOOLEAN
    OBVIOUS
  <2>2. \A b \in BOOLEAN : [l EXCEPT !.fav = b].media = l.media /\ [l EXCEPT !.fav = b].target = l.target
    BY DEF LinkRows
  <2>3. CASE l.target = Req(c).target
    <3>1. new(l) = [l EXCEPT !.fav = (l.media \in Req(c).favorites)]
      BY <2>3
    <3> HIDE DEF new
    <3> QED
      BY <2>1, <2>2, <3>1
  <2>4. CASE l.target # Req(c).target
    BY <2>4
  <2> QED
    BY <2>3, <2>4
<1> HIDE DEF new
<1>3. db.links \subseteq LinkRows
  BY GalleriesAre
<1>4. IsFiniteSet(links)
  <2>1. IsFiniteSet(db.links)
    BY DEF LinkedOnce
  <2>2. DOMAIN f = db.links /\ f \in [db.links -> links] /\ \A y \in links : \E x \in db.links : f[x] = y
    BY <1>1
  <2> HIDE DEF f
  <2> QED
    BY ONLY <2>1, <2>2, NamedByFinite
<1>5. \A n, o \in links : n.media = o.media /\ n.target = o.target => n = o
  <2> SUFFICES ASSUME NEW n \in links, NEW o \in links, n.media = o.media, n.target = o.target PROVE n = o
    OBVIOUS
  <2>1. PICK l \in db.links, k \in db.links : n = new(l) /\ o = new(k)
    BY <1>1
  <2>2. l.media = k.media /\ l.target = k.target
    BY <1>2, <1>3, <2>1
  <2>3. l = k
    BY <2>2 DEF LinkedOnce
  <2> QED
    BY <2>1, <2>3
<1> QED
  BY <1>4, <1>5 DEF LinkedOnce

\* Marks set for a place whose rows nobody holds.
LEMMA RemarkedApart ==
  ASSUME LibraryInv, GalleryInv, NEW c \in Clients, LockedRows \cap Gallery(Req(c).target) = {},
         NEW links, links = Remarked(c), NEW b \in Clients
  PROVE  /\ task[b].rows \subseteq links /\ \A l \in task[b].rows : l.target # Req(c).target
         /\ HeldBy(task[b], links)
<1>1. task[b].rows \subseteq db.links
  BY TaskIs DEF HeldBy
<1>2. \A l \in task[b].rows : l.target # Req(c).target
  BY <1>1 DEF LockedRows, Gallery
<1>3. task[b].rows \subseteq links
  BY <1>1, <1>2 DEF Remarked
<1> QED
  BY <1>2, <1>3, TaskIs, OthersHold

\* No more favourites in the place than were asked for, and elsewhere as many as before.
LEMMA RemarkedWithin ==
  ASSUME LibraryInv, NEW c \in Clients, NEW before, NEW after, LinkedOnce(after), IsFiniteSet(before),
         IsFiniteSet(Req(c).favorites), Cardinality(Req(c).favorites) <= FavoriteLimit,
         Limited(before),
         \A n \in after : n.target = Req(c).target /\ n.fav => n.media \in Req(c).favorites,
         \A n \in after : n.target # Req(c).target => n \in before
  PROVE  Limited(after)
<1> SUFFICES ASSUME NEW T \in Targets PROVE Cardinality(FavoritesIn(after, T)) <= FavoriteLimit
  BY DEF Limited
<1>1. CASE T = Req(c).target
  <2>1. \A l \in FavoritesIn(after, T) : l.media \in Req(c).favorites
    BY <1>1 DEF FavoritesIn
  <2>2. \A l, n \in FavoritesIn(after, T) : l.media = n.media => l = n
    BY DEF FavoritesIn, LinkedOnce
  <2> QED
    BY <2>1, <2>2, FavoritesByPicture
<1>2. CASE T # Req(c).target
  <2>1. FavoritesIn(after, T) \subseteq FavoritesIn(before, T)
    BY <1>2 DEF FavoritesIn
  <2> QED
    BY <2>1, FewerFavorites DEF Limited
<1> QED
  BY <1>1, <1>2

\* A transaction that has the galleries to itself does not mind the marks of another place.
LEMMA RemarkedAlone ==
  ASSUME LibraryInv, GalleryInv, NEW c \in Clients, LockedRows \cap Gallery(Req(c).target) = {},
         NEW links, links = Remarked(c), NEW b \in Clients, AloneBy(task[b], db.links), LinkedOnce(links),
         IsFiniteSet(Req(c).favorites), Cardinality(Req(c).favorites) <= FavoriteLimit,
         \A n \in links : \E l \in db.links :
              /\ n.media = l.media /\ n.target = l.target /\ n.by = l.by
              /\ l.target # Req(c).target => n = l
              /\ l.target = Req(c).target => (n.fav => l.media \in Req(c).favorites)
  PROVE  AloneBy(task[b], links)
<1>1. task[b].rows \subseteq links /\ \A l \in task[b].rows : l.target # Req(c).target
  BY RemarkedApart
<1>2. task[b].req.op = "setLinks" /\ task[b].step = "clearing" =>
       \A n \in links : n.target = task[b].req.target => \E s \in task[b].seen : Row(s) = Row(n)
  BY DEF AloneBy, Row
<1>3. task[b].req.op = "setLinks" /\ task[b].step = "insert" =>
       \A n \in links : n.target = task[b].req.target => n \in task[b].rows
  <2> SUFFICES ASSUME task[b].req.op = "setLinks", task[b].step = "insert",
                      NEW n \in links, n.target = task[b].req.target
               PROVE  n \in task[b].rows
    OBVIOUS
  <2>1. PICK l \in db.links : l.target = n.target /\ (l.target # Req(c).target => n = l)
    OBVIOUS
  <2>2. l \in task[b].rows
    BY <2>1 DEF AloneBy
  <2> QED
    BY <1>1, <2>1, <2>2
<1>4. ASSUME task[b].req.op = "setFavorite", task[b].step = "commit"
      PROVE  Limited(Marked(links, task[b].rows, TRUE))
  <2>1. PICK fav \in BOOLEAN : fav = TRUE
    OBVIOUS
  <2>2. PICK rows, before, after : /\ rows = task[b].rows /\ before = Marked(db.links, rows, fav)
                                   /\ after = Marked(links, rows, fav)
    OBVIOUS
  <2>3. /\ rows \subseteq db.links /\ rows \subseteq links /\ LinkedOnce(db.links)
        /\ \A l \in rows : l.target # Req(c).target
    BY <1>1, <2>2, TaskIs DEF HeldBy, GalleryInv
  <2>4. db.links \in SUBSET LinkRows /\ links \in SUBSET LinkRows /\ rows \in SUBSET LinkRows
    BY <2>2, RemarkedAre, GalleriesAre
  <2>5. LinkedOnce(after)
    BY ONLY LinkedOnce(links), <2>1, <2>2, <2>3, <2>4, MarkedOnce
  <2>6. IsFiniteSet(before)
    BY ONLY <2>1, <2>2, <2>3, MarkedFinite DEF LinkedOnce
  <2>7. Limited(before)
    BY <1>4, <2>1, <2>2 DEF AloneBy
  <2>8. \A n \in after : n \in links \ rows \/ (n \in before /\ n.target # Req(c).target)
    <3>1. \A l \in rows : [l EXCEPT !.fav = fav].target = l.target
      BY <2>4 DEF LinkRows
    <3>2. PICK marks : marks = {[l EXCEPT !.fav = fav] : l \in rows}
      OBVIOUS
    <3>3. before = (db.links \ rows) \cup marks /\ after = (links \ rows) \cup marks
      BY <2>2, <3>2 DEF Marked
    <3>4. ASSUME NEW n \in marks PROVE n.target # Req(c).target
      <4>1. PICK l \in rows : n = [l EXCEPT !.fav = fav]
        BY <3>2, <3>4
      <4> QED
        BY <2>3, <3>1, <4>1
    <3> QED
      BY <3>3, <3>4
  <2>9. \A n \in after : n.target # Req(c).target => n \in before
    BY <2>2, <2>8 DEF Marked
  <2>10. \A n \in after : n.target = Req(c).target /\ n.fav => n.media \in Req(c).favorites
    BY <2>8
  <2>11. Limited(after)
    BY <2>5, <2>6, <2>7, <2>9, <2>10, RemarkedWithin
  <2> QED
    BY <2>1, <2>2, <2>11
<1> QED
  BY <1>2, <1>3, <1>4 DEF AloneBy

LEMMA RemarkKeeps ==
  ASSUME LibraryInv, GalleryInv, NEW c \in Clients, SetFavorites(c)
  PROVE  GalleryInv'
<1>1. PICK t \in Tasks, s \in {"done", "refused"}, links \in SUBSET LinkRows :
           /\ Turns(c, t, s, links) /\ t.rows = task[c].rows /\ At(c, "setLinks", "favorites")
           /\ past' = past
           /\ \/ s = "refused" /\ links = db.links
              \/ s = "done" /\ links = Remarked(c) /\ LockedRows \cap Gallery(Req(c).target) = {}
  BY FavoritesTurns
<1>2. t.step = s /\ t.req = Req(c) /\ t.rows = {}
  BY <1>1, TaskIs DEF Turns, Req, HeldBy, At
<1>3. AskedBy(t)
  BY <1>1, <1>2, TaskIs DEF AskedBy, At, Req
<1>4. HeldBy(t, links) /\ AloneBy(t, links) /\ ~Works(t)
  BY <1>1, <1>2 DEF HeldBy, AloneBy, Works
<1>5. CASE s = "refused"
  <2>1. links = db.links
    BY <1>1, <1>5
  <2> QED
    BY <1>1, <1>2, <1>3, <1>4, <2>1, LinksStay
<1>6. CASE s = "done"
  <2>1. links = Remarked(c) /\ LockedRows \cap Gallery(Req(c).target) = {}
    BY <1>1, <1>6
  <2>2. LinkedOnce(db.links) /\ IsFiniteSet(db.links) /\ db.links \subseteq LinkRows
    BY GalleriesAre DEF GalleryInv, LinkedOnce
  <2>3. LinkedOnce(links)
    BY <2>1, <2>2, RemarkedOnce
  <2>4. /\ \A l \in db.links : \E n \in links : n.media = l.media /\ n.target = l.target /\ n.by = l.by
        /\ \A n \in links : \E l \in db.links :
             /\ n.media = l.media /\ n.target = l.target /\ n.by = l.by
             /\ l.target # Req(c).target => n = l
             /\ l.target = Req(c).target => (n.fav => l.media \in Req(c).favorites)
    BY ONLY c \in Clients, <2>1, <2>2, RemarkedAre
  <2>5. ShowsAsAsked(links, MediaIds, past.shown, ~past.overlapped)
    BY <2>4, SameLinksShown
  <2>6. \A b \in Clients \ {c} : HeldBy(task[b], links)
    BY <2>1, RemarkedApart
  <2>7. IsFiniteSet(Req(c).favorites) /\ Cardinality(Req(c).favorites) <= FavoriteLimit
    BY <1>1, TaskIs DEF AskedBy, At, Req
  <2>8. ASSUME ~past.overlapped
        PROVE  Limited(links) /\ \A b \in Clients \ {c} : AloneBy(task[b], links)
    <3>1. Limited(db.links) /\ \A b \in Clients : AloneBy(task[b], db.links)
      BY <2>8 DEF GalleryInv, Alone
    <3>2. /\ \A n \in links : n.target = Req(c).target /\ n.fav => n.media \in Req(c).favorites
          /\ \A n \in links : n.target # Req(c).target => n \in db.links
      BY ONLY <2>4
    <3>3. Limited(links)
      BY <2>2, <2>3, <2>7, <3>1, <3>2, RemarkedWithin
    <3>4. \A b \in Clients \ {c} : AloneBy(task[b], links)
      BY <2>1, <2>3, <2>4, <2>7, <3>1, RemarkedAlone
    <3> QED
      BY <3>3, <3>4
  <2>9. Stands(c, t, links, ~past.overlapped)
    BY <1>2, <1>3, <1>4, <2>3, <2>6, <2>8 DEF Stands
  <2>10. PICK p : p = past' /\ p = past
    BY <1>1
  <2>11. ShownOn(p)
    BY <2>10 DEF ShownOn
  <2> QED
    BY <1>1, <2>5, <2>9, <2>10, <2>11, TurnKept
<1> QED
  BY <1>5, <1>6

LEMMA GalleryShows ==
  ASSUME LibraryInv, GalleryInv, NEW c \in Clients, GalleryStep(c)
  PROVE  GalleryInv'
BY AskedKeeps, LinksReadKeep, SeenKeeps, HeldKeeps, InsertKeeps, RemarkKeeps, UnmarkKeeps, CountKeeps, CommitKeeps
   DEF GalleryStep

(* What the library leaves of the galleries.                               *)
LibrarySteps ==
  {"new", "part", "reserve", "put", "create", "undo", "files", "delete", "rendered", "done", "refused", "failed"}

\* A step of the library holds no rows of a gallery and names nothing it did not name before.
Modest(c) ==
  /\ Coming(c)' \subseteq Coming(c) /\ task[c].step \in LibrarySteps
  /\ \E t \in Tasks : /\ task' = [task EXCEPT ![c] = t]
                      /\ t.rows = task[c].rows /\ t.step \in LibrarySteps
                      /\ t.req = task[c].req \/ t.req.op = "upload"

LEMMA Modestly ==
  ASSUME LibraryInv, LibraryInv', NEW c \in Clients, NEW s \in LibrarySteps, NEW read, Goes(c, s, read),
         DOMAIN read \cap {"rows", "req"} = {}, task[c].step \in LibrarySteps,
         s \in Unsent => task[c].step \in Unsent
  PROVE  Modest(c)
<1>1. task \in [Clients -> Tasks] /\ task' \in [Clients -> Tasks]
  BY DEF LibraryInv, TypeOK
<1>2. PICK t : t = [f \in DOMAIN task[c] |->
                      IF f = "step" THEN s ELSE IF f \in DOMAIN read THEN read[f] ELSE task[c][f]]
  OBVIOUS
<1>3. task' = [task EXCEPT ![c] = t]
  BY <1>2 DEF Goes
<1>4. t = task'[c] /\ t \in Tasks
  BY <1>1, <1>3
<1>5. {"req", "step", "rows"} \subseteq DOMAIN task[c]
  BY <1>1 DEF Tasks
<1>6. t.step = s /\ t.rows = task[c].rows /\ t.req = task[c].req
  BY <1>2, <1>5
<1>7. Coming(c)' \subseteq Coming(c)
  BY <1>4, <1>6 DEF Coming, Req
<1> QED
  BY <1>3, <1>4, <1>6, <1>7 DEF Modest

LEMMA ModestReading ==
  ASSUME LibraryInv, LibraryInv', NEW c \in Clients, NEW s \in LibrarySteps, task[c].step \in LibrarySteps,
         s \in Unsent => task[c].step \in Unsent,
         \/ Ends(c, s)
         \/ \E keys : Goes(c, s, [keys |-> keys])
         \/ \E n : Goes(c, s, [previous |-> n])
         \/ \E n, q : \/ Goes(c, s, [quota |-> q, used |-> n]) \/ Goes(c, s, [used |-> n, quota |-> q])
                      \/ Goes(c, s, [quota |-> q, previous |-> n])
  PROVE  Modest(c)
<1>1. ASSUME NEW read, Goes(c, s, read), DOMAIN read \cap {"rows", "req"} = {} PROVE Modest(c)
  BY <1>1, Modestly
<1>2. CASE Ends(c, s)
  BY <1>1, <1>2 DEF Ends
<1>3. ASSUME NEW keys, Goes(c, s, [keys |-> keys]) PROVE Modest(c)
  <2> DEFINE read == [keys |-> keys]
  <2>1. Goes(c, s, read) /\ DOMAIN read \cap {"rows", "req"} = {}
    BY <1>3
  <2> HIDE DEF read
  <2> QED
    BY <1>1, <2>1
<1>4. ASSUME NEW n, Goes(c, s, [previous |-> n]) PROVE Modest(c)
  <2> DEFINE read == [previous |-> n]
  <2>1. Goes(c, s, read) /\ DOMAIN read \cap {"rows", "req"} = {}
    BY <1>4
  <2> HIDE DEF read
  <2> QED
    BY <1>1, <2>1
<1>5. ASSUME NEW n, NEW q, Goes(c, s, [quota |-> q, used |-> n]) PROVE Modest(c)
  <2> DEFINE read == [quota |-> q, used |-> n]
  <2>1. Goes(c, s, read) /\ DOMAIN read \cap {"rows", "req"} = {}
    BY <1>5
  <2> HIDE DEF read
  <2> QED
    BY <1>1, <2>1
<1>6. ASSUME NEW n, NEW q, Goes(c, s, [used |-> n, quota |-> q]) PROVE Modest(c)
  <2> DEFINE read == [used |-> n, quota |-> q]
  <2>1. Goes(c, s, read) /\ DOMAIN read \cap {"rows", "req"} = {}
    BY <1>6
  <2> HIDE DEF read
  <2> QED
    BY <1>1, <2>1
<1>7. ASSUME NEW n, NEW q, Goes(c, s, [quota |-> q, previous |-> n]) PROVE Modest(c)
  <2> DEFINE read == [quota |-> q, previous |-> n]
  <2>1. Goes(c, s, read) /\ DOMAIN read \cap {"rows", "req"} = {}
    BY <1>7
  <2> HIDE DEF read
  <2> QED
    BY <1>1, <2>1
<1> QED
  BY <1>2, <1>3, <1>4, <1>5, <1>6, <1>7

LEMMA ReadsModest ==
  ASSUME LibraryInv, LibraryInv', NEW c \in Clients, Reads(c)
  PROVE  Modest(c) /\ db' = db /\ past' = past
<1>1. db' = db /\ past' = past
  BY DEF Reads, handleUploadMedia, storePart, handleSetAvatar, handleImportItemTrack, handleCreateAttachment,
     handleCreateReport, handleAddIdeaPhoto
<1>2. task[c].step \in {"new", "part"}
  BY DEF Reads, handleUploadMedia, storePart, handleSetAvatar, handleImportItemTrack, handleCreateAttachment,
     handleCreateReport, handleAddIdeaPhoto, At
<1>3. \E s \in {"part", "reserve", "done", "refused"} :
        \/ Ends(c, s)
        \/ \E n : Goes(c, s, [previous |-> n])
        \/ \E n, q : \/ Goes(c, s, [quota |-> q, used |-> n]) \/ Goes(c, s, [used |-> n, quota |-> q])
                     \/ Goes(c, s, [quota |-> q, previous |-> n])
  BY DEF Reads, handleUploadMedia, storePart, handleSetAvatar, handleImportItemTrack, handleCreateAttachment,
     handleCreateReport, handleAddIdeaPhoto, Ends
<1>4. task[c].step \in LibrarySteps /\ task[c].step \in Unsent
      /\ \A s \in {"part", "reserve", "done", "refused"} : s \in LibrarySteps
  BY <1>2 DEF LibrarySteps, Unsent
<1> QED
  BY <1>1, <1>3, <1>4, ModestReading

LEMMA StoresModest ==
  ASSUME LibraryInv, LibraryInv', NEW c \in Clients, Reserve(c) \/ Put(c) \/ PutFails(c) \/ DeleteFile(c)
  PROVE  Modest(c) /\ db' = db /\ past'.shown = past.shown /\ past'.overlapped = past.overlapped
<1>1. past \in PastType
  BY GalleriesAre
<1>2. db' = db /\ past'.shown = past.shown /\ past'.overlapped = past.overlapped
  BY <1>1 DEF PastType, Reserve, Put, PutFails, DeleteFile
<1>3. CASE Reserve(c) \/ Put(c) \/ PutFails(c)
  <2>1. task[c].step \in LibrarySteps /\ task[c].step \in Unsent
    BY <1>3 DEF Reserve, Put, PutFails, LibrarySteps, Unsent
  <2>2. \E s \in LibrarySteps : Ends(c, s) \/ \E keys : Goes(c, s, [keys |-> keys])
    BY <1>3 DEF Reserve, Put, PutFails, LibrarySteps
  <2> QED
    BY <1>2, <2>1, <2>2, ModestReading
<1>4. CASE DeleteFile(c)
  <2>1. task[c].step \in LibrarySteps /\ task[c].step \notin Unsent /\ "done" \in LibrarySteps
        /\ "done" \notin Unsent
    BY <1>4 DEF DeleteFile, LibrarySteps, Unsent
  <2>2. Ends(c, "done") \/ \E keys : Goes(c, task[c].step, [keys |-> keys])
    BY <1>4 DEF DeleteFile
  <2> QED
    BY <1>2, <2>1, <2>2, ModestReading
<1> QED
  BY <1>3, <1>4

\* What is left of the links, when pictures are removed or a new one is stored.
LeavesLinks(c, d) ==
  /\ d.links \subseteq db.links
  /\ \A l \in db.links \ d.links : l \notin LockedRows /\ l.media \notin {m.id : m \in d.media}
  /\ \A m \in d.media : m \in db.media \/ Key(m.id, "file") \in Coming(c)

LEMMA WrittenLeaves ==
  ASSUME LibraryInv, NEW c \in Clients, task[c].step = "create", Written(c) # None
  PROVE  LeavesLinks(c, Written(c))
<1>1. Req(c).op \in Grows
  BY DEF LibraryInv, RequestsFit
<1>2. CASE Req(c).op \in {"attach", "track", "report", "setAvatar"}
  BY <1>2, OtherRowsAre DEF SamePictures, LeavesLinks
<1>3. CASE Req(c).op \in {"upload", "photo"}
  <2>1. Adds(c, Written(c)) /\ NewKeys(c) \subseteq Coming(c)
    BY <1>3, WrittenAdds, NewNames DEF StoresFiles
  <2> QED
    BY <2>1 DEF Adds, LeavesLinks
<1> QED
  BY <1>1, <1>2, <1>3 DEF Grows

LEMMA CreatesModest ==
  ASSUME LibraryInv, LibraryInv', NEW c \in Clients, Create(c) \/ CreateRefused(c) \/ CreateFails(c)
  PROVE  /\ Modest(c)
         /\ db' = db \/ (Written(c) # None /\ db' = Written(c))
         /\ past'.shown = past.shown /\ past'.overlapped = past.overlapped
<1>1. past \in PastType
  BY GalleriesAre
<1>2. past'.shown = past.shown /\ past'.overlapped = past.overlapped
  BY <1>1 DEF PastType, Create, CreateRefused, CreateFails
<1>3. db' = db \/ (Written(c) # None /\ db' = Written(c))
  BY DEF Create, CreateRefused, CreateFails
<1>4. task[c].step = "create" /\ task[c].step \in LibrarySteps /\ task[c].step \in Unsent
  BY DEF Create, CreateRefused, CreateFails, LibrarySteps, Unsent
<1>5. CASE CreateRefused(c) \/ CreateFails(c) \/ (Create(c) /\ Req(c).op # "upload")
  <2>1. \E s \in LibrarySteps : Ends(c, s) \/ \E keys : Goes(c, s, [keys |-> keys])
    BY <1>5 DEF Create, CreateRefused, CreateFails, Undo, LibrarySteps
  <2> QED
    BY <1>2, <1>3, <1>4, <2>1, ModestReading
<1>6. CASE Create(c) /\ Req(c).op = "upload"
  <2>1. PICK r, n : r = [Req(c) EXCEPT !.parts = Tail(@)] /\ n = task[c].used + NextFile(c).size
    OBVIOUS
  <2> DEFINE read == [used |-> n, req |-> r]
  <2>2. Goes(c, "part", read)
    BY <1>6, <2>1 DEF Create
  <2>3. DOMAIN read = {"used", "req"} /\ read["req"] = r
    OBVIOUS
  <2> HIDE DEF read
  <2>4. task \in [Clients -> Tasks] /\ task' \in [Clients -> Tasks]
    BY DEF LibraryInv, TypeOK
  <2>5. PICK t : t = [f \in DOMAIN task[c] |->
                        IF f = "step" THEN "part" ELSE IF f \in DOMAIN read THEN read[f] ELSE task[c][f]]
    OBVIOUS
  <2>6. task' = [task EXCEPT ![c] = t]
    BY <2>2, <2>5 DEF Goes
  <2>7. t = task'[c] /\ t \in Tasks
    BY <2>4, <2>6
  <2>8. {"req", "step", "rows"} \subseteq DOMAIN task[c]
    BY <2>4 DEF Tasks
  <2>9. t.step = "part" /\ t.rows = task[c].rows /\ t.req = r
    BY <2>3, <2>5, <2>8
  <2>10. t.req.op = "upload" /\ Coming(c)' \subseteq Coming(c)
    BY <1>4, <1>6, <2>1, <2>6, <2>7, <2>9, NextFileGoes
  <2>11. "part" \in LibrarySteps
    BY DEF LibrarySteps
  <2> QED
    BY <1>2, <1>3, <1>4, <2>6, <2>7, <2>9, <2>10, <2>11 DEF Modest
<1> QED
  BY <1>5, <1>6

LEMMA RemovesModest ==
  ASSUME LibraryInv, LibraryInv', NEW c \in Clients, Removes(c)
  PROVE  Modest(c) /\ past' = past
<1>1. past' = past
  BY DEF Removes, handleUpdateStorage, handleDeleteMedia, ListsKeys, handleDeleteTrip, handleDeleteMe,
     handleDeleteAvatar, handleDeleteIdeaPhoto, handleDeleteIdea, handleDeleteAttachment, handleDeleteItemTrack,
     renderPreviews
<1>2. task[c].step \in {"new", "delete"}
  BY DEF Removes, handleUpdateStorage, handleDeleteMedia, ListsKeys, handleDeleteTrip, handleDeleteMe,
     handleDeleteAvatar, handleDeleteIdeaPhoto, handleDeleteIdea, handleDeleteAttachment, handleDeleteItemTrack,
     renderPreviews, At
<1>3. \E s \in {"files", "delete", "rendered", "done", "refused"} : Ends(c, s) \/ \E keys : Goes(c, s, [keys |-> keys])
  <2>1. ASSUME NEW keys, Follows(c, keys)
        PROVE  \E s \in {"files", "delete", "rendered", "done", "refused"} : Ends(c, s) \/ \E ks : Goes(c, s, [keys |-> ks])
    BY <2>1 DEF Follows
  <2>2. CASE \E keys : Follows(c, keys)
    BY <2>1, <2>2
  <2>3. CASE Ends(c, "done") \/ Ends(c, "refused")
    BY <2>3
  <2>4. CASE ListsKeys(c) \/ renderPreviews(c)
    BY <2>4 DEF ListsKeys, renderPreviews
  <2>5. (\E keys : Follows(c, keys)) \/ Ends(c, "done") \/ Ends(c, "refused") \/ ListsKeys(c) \/ renderPreviews(c)
    BY DEF Removes, handleUpdateStorage, handleDeleteMedia, handleDeleteTrip, handleDeleteMe,
       handleDeleteAvatar, handleDeleteIdeaPhoto, handleDeleteIdea, handleDeleteAttachment, handleDeleteItemTrack
  <2> QED
    BY <2>2, <2>3, <2>4, <2>5
<1>4. task[c].step \in LibrarySteps
      /\ \A s \in {"files", "delete", "rendered", "done", "refused"} : s \in LibrarySteps /\ s \notin Unsent
  BY <1>2 DEF LibrarySteps, Unsent
<1> QED
  BY <1>1, <1>3, <1>4, ModestReading

LEMMA RemovesLeave ==
  ASSUME LibraryInv, NEW c \in Clients, Removes(c), NEW d, d = db'
  PROVE  LeavesLinks(c, d)
<1>1. db \in Rows
  BY DEF LibraryInv, TypeOK
<1>2. ASSUME d.links = db.links, d.media = db.media PROVE LeavesLinks(c, d)
  BY <1>2 DEF LeavesLinks
<1>3. ASSUME LockedRows = {}, d.links = {}, d.media = {} PROVE LeavesLinks(c, d)
  BY <1>3 DEF LeavesLinks
<1>4. CASE handleDeleteMedia(c)
  <2>1. d = DeleteMedia(db, Req(c).id) /\ \A row \in LockedRows : row.media # Req(c).id
    BY <1>4 DEF handleDeleteMedia
  <2>2. d.media = {m \in db.media : m.id # Req(c).id} /\ d.links = {l \in db.links : l.media # Req(c).id}
    BY <1>1, <2>1 DEF DeleteMedia, Rows
  <2> QED
    BY <2>1, <2>2 DEF LeavesLinks
<1>5. CASE handleDeleteTrip(c)
  <2>1. CASE db.trip
    <3>1. LockedRows = {} /\ d = WithoutTrip(db)
      BY <1>5, <2>1 DEF handleDeleteTrip
    <3>2. d.links = {} /\ d.media = {}
      BY <1>1, <3>1 DEF WithoutTrip, Rows
    <3> QED
      BY <1>3, <3>1, <3>2
  <2>2. CASE ~db.trip
    BY <1>2, <1>5, <2>2 DEF handleDeleteTrip
  <2> QED
    BY <2>1, <2>2
<1>6. CASE handleDeleteMe(c)
  <2>1. CASE db.account
    <3>1. LockedRows = {} /\ d = [WithoutIdea(WithoutTrip(db)) EXCEPT !.account = FALSE, !.avatar = FALSE]
      BY <1>6, <2>1 DEF handleDeleteMe
    <3>2. d.links = {} /\ d.media = {}
      BY <1>1, <3>1 DEF WithoutTrip, WithoutIdea, Rows
    <3> QED
      BY <1>3, <3>1, <3>2
  <2>2. CASE ~db.account
    BY <1>2, <1>6, <2>2 DEF handleDeleteMe
  <2> QED
    BY <2>1, <2>2
<1>7. CASE \/ handleUpdateStorage(c) \/ ListsKeys(c) \/ handleDeleteAvatar(c) \/ handleDeleteIdeaPhoto(c)
           \/ handleDeleteIdea(c) \/ handleDeleteAttachment(c) \/ handleDeleteItemTrack(c) \/ renderPreviews(c)
  <2>1. \/ d = db \/ d = SetTripQuota(db, Req(c).quota) \/ d = [db EXCEPT !.avatar = FALSE]
        \/ d = DeletePhoto(db, Req(c).id) \/ d = WithoutIdea(db) \/ d = DeleteAttachment(db, Req(c).sum)
        \/ d = DeleteTrack(db)
    BY <1>7 DEF handleUpdateStorage, ListsKeys, handleDeleteAvatar, SetAvatar, handleDeleteIdeaPhoto,
       handleDeleteIdea, handleDeleteAttachment, handleDeleteItemTrack, renderPreviews
  <2>2. d.links = db.links /\ d.media = db.media
    BY <1>1, <2>1 DEF SetTripQuota, DeletePhoto, WithoutIdea, DeleteAttachment, DeleteTrack, Rows
  <2> QED
    BY <1>2, <2>2
<1> QED
  BY <1>4, <1>5, <1>6, <1>7 DEF Removes

LEMMA KeepsModest ==
  ASSUME LibraryInv, LibraryInv', NEW c \in Clients, keepPreviews(c)
  PROVE  Modest(c) /\ db' = db /\ past'.shown = past.shown /\ past'.overlapped = past.overlapped
<1>1. past \in PastType
  BY GalleriesAre
<1>2. db' = db /\ past'.shown = past.shown /\ past'.overlapped = past.overlapped
  BY <1>1 DEF PastType, keepPreviews
<1>3. task[c].step \in LibrarySteps /\ task[c].step \notin Unsent
  BY DEF keepPreviews, At, LibrarySteps, Unsent
<1>4. \E s \in {"files", "done"} : Ends(c, s) \/ \E keys : Goes(c, s, [keys |-> keys])
  BY DEF keepPreviews, Follows
<1>5. \A s \in {"files", "done"} : s \in LibrarySteps /\ s \notin Unsent
  BY DEF LibrarySteps, Unsent
<1> QED
  BY <1>2, <1>3, <1>4, <1>5, ModestReading

LEMMA LibraryModest ==
  ASSUME LibraryInv, LibraryInv', NEW c \in Clients, LibraryStep(c), NEW d, d = db'
  PROVE  Modest(c) /\ LeavesLinks(c, d) /\ past'.shown = past.shown /\ past'.overlapped = past.overlapped
<1>1. d = db => LeavesLinks(c, d)
  BY DEF LeavesLinks
<1>2. CASE Reads(c)
  BY <1>1, <1>2, ReadsModest
<1>3. CASE Reserve(c) \/ Put(c) \/ PutFails(c) \/ DeleteFile(c)
  BY <1>1, <1>3, StoresModest
<1>4. CASE Create(c) \/ CreateRefused(c) \/ CreateFails(c)
  <2>1. task[c].step = "create"
    BY <1>4 DEF Create, CreateRefused, CreateFails
  <2> QED
    BY <1>1, <1>4, <2>1, CreatesModest, WrittenLeaves
<1>5. CASE Removes(c)
  BY <1>5, RemovesModest, RemovesLeave
<1>6. CASE keepPreviews(c)
  BY <1>1, <1>6, KeepsModest
<1> QED
  BY <1>2, <1>3, <1>4, <1>5, <1>6 DEF LibraryStep, Reads, Removes

LEMMA FewerLinks ==
  ASSUME NEW links \in SUBSET LinkRows, LinkedOnce(links), NEW left, left \subseteq links
  PROVE  LinkedOnce(left) /\ (Limited(links) => Limited(left))
<1>1. LinkedOnce(left)
  BY FS_Subset DEF LinkedOnce
<1>2. ASSUME Limited(links), NEW T \in Targets PROVE Cardinality(FavoritesIn(left, T)) <= FavoriteLimit
  <2>1. FavoritesIn(left, T) \subseteq FavoritesIn(links, T)
    BY DEF FavoritesIn
  <2> QED
    BY <1>2, <2>1, FewerFavorites DEF Limited, LinkedOnce
<1> QED
  BY <1>1, <1>2 DEF Limited

LEMMA FewerAlone ==
  ASSUME NEW links \in SUBSET LinkRows, LinkedOnce(links), NEW left, left \subseteq links,
         NEW u, u.rows \subseteq left, AloneBy(u, links)
  PROVE  AloneBy(u, left)
<1>1. ASSUME u.req.op = "setFavorite", u.step = "commit", NEW T \in Targets
      PROVE  Cardinality(FavoritesIn(Marked(left, u.rows, TRUE), T)) <= FavoriteLimit
  <2>1. FavoritesIn(Marked(left, u.rows, TRUE), T) \subseteq FavoritesIn(Marked(links, u.rows, TRUE), T)
    BY DEF FavoritesIn, Marked
  <2>2. IsFiniteSet(Marked(links, u.rows, TRUE))
    BY MarkedFinite DEF LinkedOnce
  <2>3. Cardinality(FavoritesIn(Marked(links, u.rows, TRUE), T)) <= FavoriteLimit
    BY <1>1 DEF AloneBy, Limited
  <2> QED
    BY <2>1, <2>2, <2>3, FewerFavorites
<1>2. u.req.op = "setFavorite" /\ u.step = "commit" => Limited(Marked(left, u.rows, TRUE))
  BY <1>1 DEF Limited
<1> QED
  BY <1>2 DEF AloneBy

LEMMA LibraryShows ==
  ASSUME LibraryInv, LibraryInv', GalleryInv, NEW c \in Clients, LibraryStep(c)
  PROVE  GalleryInv'
<1>1. PICK d, links, p : d = db' /\ links = d.links /\ p = past'
  OBVIOUS
<1>2. Modest(c) /\ LeavesLinks(c, d) /\ p.shown = past.shown /\ p.overlapped = past.overlapped
  BY <1>1, LibraryModest
<1>3. PICK t \in Tasks : /\ task' = [task EXCEPT ![c] = t]
                         /\ t.rows = task[c].rows /\ t.step \in LibrarySteps
                         /\ t.req = task[c].req \/ t.req.op = "upload"
  BY <1>2 DEF Modest
<1>4. task[c].step \in LibrarySteps /\ Coming(c)' \subseteq Coming(c)
  BY <1>2 DEF Modest
<1>5. t.rows = {}
  BY <1>3, <1>4, TaskIs DEF HeldBy, LibrarySteps
<1>6. AskedBy(t)
  BY <1>3, TaskIs DEF AskedBy, LibrarySteps
<1>7. db.links \in SUBSET LinkRows /\ LinkedOnce(db.links) /\ links \subseteq db.links
  BY <1>1, <1>2, GalleriesAre DEF GalleryInv, LeavesLinks
<1>8. LinkedOnce(links) /\ (Limited(db.links) => Limited(links))
  BY <1>7, FewerLinks
<1>9. \A b \in Clients : task[b].rows \subseteq links /\ HeldBy(task[b], links)
  <2> SUFFICES ASSUME NEW b \in Clients PROVE task[b].rows \subseteq links /\ HeldBy(task[b], links)
    OBVIOUS
  <2>1. HeldBy(task[b], db.links)
    BY TaskIs
  <2>2. task[b].rows \subseteq links
    BY <1>1, <1>2, <2>1 DEF HeldBy, LeavesLinks, LockedRows
  <2> QED
    BY <2>1, <2>2, OthersHold
<1>10. HeldBy(t, links) /\ AloneBy(t, links) /\ ~Works(t)
  BY <1>3, <1>5 DEF HeldBy, AloneBy, Works, LibrarySteps
<1>11. ~past.overlapped => \A b \in Clients : AloneBy(task[b], links)
  BY <1>7, <1>9, FewerAlone DEF GalleryInv, Alone
<1>12. Stands(c, t, links, ~p.overlapped)
  BY <1>2, <1>5, <1>6, <1>8, <1>9, <1>10, <1>11 DEF Stands, GalleryInv
<1>13. PICK ids : ids = MediaIds' /\ ids = {m.id : m \in d.media}
  BY <1>1 DEF MediaIds
<1>14. \A m \in ids : m \in MediaIds \/ Key(m, "file") \in Coming(c)
  BY <1>2, <1>13 DEF LeavesLinks, MediaIds
<1>15. ShowsAsAsked(links, ids, p.shown, ~p.overlapped)
  <2> SUFFICES ASSUME NEW T \in Targets, past.shown[T] # None
               PROVE  /\ \A m \in past.shown[T] : m \in ids => \E l \in links : l.target = T /\ l.media = m
                      /\ ~past.overlapped => \A l \in links : l.target = T => l.media \in past.shown[T]
    BY <1>2 DEF ShowsAsAsked
  <2>1. /\ \A m \in past.shown[T] : m \in MediaIds => \E l \in db.links : l.target = T /\ l.media = m
        /\ ~past.overlapped => \A l \in db.links : l.target = T => l.media \in past.shown[T]
    BY DEF GalleryInv, ShowsAsAsked
  <2>2. \A m \in past.shown[T] : Key(m, "file") \notin Coming(c)
    BY DEF GalleryInv, ShownBefore
  <2>3. \A l \in db.links : l.media \in ids => l \in links
    BY <1>1, <1>2, <1>13 DEF LeavesLinks
  <2> QED
    BY <1>7, <1>14, <2>1, <2>2, <2>3
<1>16. ShownBefore'
  <2>1. \A b \in Clients : Coming(b)' \subseteq Coming(b)
    <3> SUFFICES ASSUME NEW b \in Clients, b # c PROVE Coming(b)' = Coming(b)
      BY <1>4
    <3> QED
      BY <1>3, OthersStay DEF LibraryInv
  <2>2. \A T \in Targets : past.shown[T] # None =>
          \A m \in past.shown[T] : \A b \in Clients : Key(m, "file") \notin Coming(b)
    BY DEF GalleryInv, ShownBefore
  <2>3. p.shown = past.shown
    BY <1>2
  <2> SUFFICES ASSUME NEW T \in Targets, p.shown[T] # None, NEW m \in p.shown[T], NEW b \in Clients
               PROVE  Key(m, "file") \notin Coming(b)'
    BY <1>1 DEF ShownBefore, Key
  <2> QED
    BY <2>1, <2>2, <2>3
<1> QED
  BY <1>1, <1>2, <1>3, <1>12, <1>13, <1>15, <1>16, OneMoves

\* The sweep and an hour that passes touch neither the rows nor the requests.
LEMMA RowsRest ==
  ASSUME GalleryInv, UNCHANGED <<db, task, past>>
  PROVE  GalleryInv'
<1>1. MediaIds' = MediaIds /\ \A c \in Clients : Coming(c)' = Coming(c)
  BY DEF MediaIds, Coming, Req
<1>2. ShownBefore'
  BY <1>1 DEF GalleryInv, ShownBefore
<1>3. (LinkedOnce(db.links) /\ (\A c \in Clients : AskedBy(task[c])) /\ HeldApart)'
  BY DEF GalleryInv, LinkedOnce, AskedBy, HeldApart, HeldBy
<1>4. (~past.overlapped => Alone /\ Limited(db.links))'
  BY DEF GalleryInv, Alone, AloneBy, Limited, Works, FavoritesIn, Marked
<1>5. ShowsAsAsked(db.links, MediaIds, past.shown, ~past.overlapped)'
  BY <1>1 DEF GalleryInv, ShowsAsAsked
<1> QED
  BY <1>2, <1>3, <1>4, <1>5 DEF GalleryInv

LEMMA CrashShows ==
  ASSUME LibraryInv, GalleryInv, Crash
  PROVE  GalleryInv'
<1>1. /\ UNCHANGED <<db, past>>
      /\ \A c \in Clients : task'[c] = [task[c] EXCEPT !.step = "done", !.rows = {}, !.marked = {}]
  BY DEF Crash
<1>2. \A c \in Clients : task[c] \in Tasks
  BY DEF LibraryInv, TypeOK
<1>3. \A c \in Clients : task'[c].step = "done" /\ task'[c].rows = {} /\ task'[c].req = task[c].req
  BY <1>1, <1>2 DEF Tasks
<1>4. MediaIds' = MediaIds /\ \A c \in Clients : Coming(c)' = {}
  BY <1>1, <1>3 DEF MediaIds, Coming, Unsent
<1>5. ShownBefore'
  BY <1>4 DEF ShownBefore
<1>6. (\A c \in Clients : AskedBy(task[c]))'
  BY <1>3 DEF GalleryInv, AskedBy
<1>7. HeldApart'
  BY <1>1, <1>3 DEF HeldApart, HeldBy
<1>8. LinkedOnce(db.links)'
  BY <1>1 DEF GalleryInv, LinkedOnce
<1>9. (~past.overlapped => Alone /\ Limited(db.links))'
  <2>1. Alone'
    BY <1>1, <1>3 DEF Alone, AloneBy, Works
  <2>2. (~past.overlapped => Limited(db.links))'
    BY <1>1 DEF GalleryInv, Limited, FavoritesIn
  <2> QED
    BY <2>1, <2>2
<1>10. ShowsAsAsked(db.links, MediaIds, past.shown, ~past.overlapped)'
  <2>1. ShowsAsAsked(db.links, MediaIds, past.shown, ~past.overlapped)
    BY DEF GalleryInv
  <2>2. db' = db /\ past' = past /\ MediaIds' = MediaIds
    BY <1>1, <1>4
  <2> QED
    BY ONLY <2>1, <2>2 DEF ShowsAsAsked
<1> QED
  BY <1>5, <1>6, <1>7, <1>8, <1>9, <1>10 DEF GalleryInv

LEMMA GalleriesStart == Init => GalleryInv
<1> SUFFICES ASSUME Init PROVE GalleryInv
  OBVIOUS
<1>1. PICK scene \in Scenes :
    /\ db = scene.db
    /\ task = [c \in Clients |-> IF c \in DOMAIN scene.reqs THEN Fresh(scene.reqs[c])
                                 ELSE [Fresh([op |-> "nothing"]) EXCEPT !.step = "done"]]
    /\ past = [doubtful |-> {},
               stale |-> FALSE, overlapped |-> FALSE, shown |-> [t \in Targets |-> None]]
  BY DEF Init
<1>2. SoundGalleries(scene)
  BY GalleriesAssumption
<1>3. LinkedOnce(db.links) /\ Limited(db.links)
  BY <1>1, <1>2 DEF SoundGalleries, LinkedOnce, Limited, FavoritesIn
<1>4. \A c \in DOMAIN scene.reqs :
         scene.reqs[c].op = "setLinks" /\ scene.reqs[c].favorites # None => IsFiniteSet(scene.reqs[c].favorites)
  BY <1>2 DEF SoundGalleries
<1>5. [op |-> "nothing"] \in Requests
  BY DEF Requests
<1>6. \A c \in DOMAIN scene.reqs : scene.reqs[c] \in Requests
  BY ScenesAssumption DEF SoundScene
<1>7. ASSUME NEW c \in Clients
      PROVE  /\ task[c].step \in {"new", "done"} /\ task[c].rows = {}
             /\ \/ c \in DOMAIN scene.reqs /\ task[c].req = scene.reqs[c]
                \/ task[c].req = [op |-> "nothing"]
  <2>1. CASE c \in DOMAIN scene.reqs
    <3>1. PICK r \in Requests : r = scene.reqs[c]
      BY <1>6, <2>1
    <3>2. task[c] = Fresh(r)
      BY <1>1, <2>1, <3>1
    <3>3. task[c].step = "new" /\ task[c].req = r /\ task[c].rows = {}
      BY ONLY <3>1, <3>2, FreshIs
    <3> QED
      BY <2>1, <3>1, <3>3
  <2>2. CASE c \notin DOMAIN scene.reqs
    <3>1. PICK r \in Requests : r = [op |-> "nothing"]
      BY <1>5
    <3>2. task[c] = Quiet(r)
      BY <1>1, <2>2, <3>1 DEF Quiet
    <3>3. task[c].step = "done" /\ task[c].req = r /\ task[c].rows = {}
      BY ONLY <3>1, <3>2, DoneIs
    <3> QED
      BY <3>1, <3>3
  <2> QED
    BY <2>1, <2>2
<1>8. \A c \in Clients : AskedBy(task[c])
  BY <1>4, <1>7 DEF AskedBy
<1>9. HeldApart
  BY <1>7 DEF HeldApart, HeldBy
<1>10. Alone
  BY <1>7 DEF Alone, AloneBy, Works
<1>11. ShownBefore /\ ShowsAsAsked(db.links, MediaIds, past.shown, ~past.overlapped)
  BY <1>1 DEF ShownBefore, ShowsAsAsked
<1> QED
  BY <1>3, <1>8, <1>9, <1>10, <1>11 DEF GalleryInv

LEMMA GalleriesKeep ==
  ASSUME LibraryInv, GalleryInv, [Next]_vars
  PROVE  GalleryInv'
<1>1. LibraryInv'
  BY LibraryKeeps
<1>2. ASSUME NEW c \in Clients, LibraryStep(c) PROVE GalleryInv'
  BY <1>1, <1>2, LibraryShows
<1>3. ASSUME NEW c \in Clients, GalleryStep(c) PROVE GalleryInv'
  BY <1>3, GalleryShows
<1>4. CASE sweepStore \/ leftoverAge \/ UNCHANGED vars
  <2>1. UNCHANGED <<db, task, past>>
    BY <1>4 DEF sweepStore, ListAll, ListOthers, FindLeftovers, RemoveLeftover, SweepEnds, leftoverAge, vars
  <2> QED
    BY <2>1, RowsRest
<1>5. CASE Crash
  BY <1>5, CrashShows
<1> QED
  BY <1>2, <1>3, <1>4, <1>5 DEF Next, Rests

(* However requests that set galleries and marks, uploads, removals and     *)
(* crashes interleave, a gallery shows every picture the last request named *)
(* that is still stored, and while no two transactions met, nothing else    *)
(* and no place more favourites than there is room for (postgres/media.go   *)
(* SetLinks, SetFavorites, SetFavorite; httpapi/media.go).  What a transaction *)
(* has read stays true for it as long as it has the galleries to itself.    *)
THEOREM GalleriesAreAsAsked == Spec => []GalleryIsAsAsked
<1>1. Init => LibraryInv /\ GalleryInv
  BY LibraryStarts, GalleriesStart
<1>2. LibraryInv /\ GalleryInv /\ [Next]_vars => LibraryInv' /\ GalleryInv'
  BY LibraryKeeps, GalleriesKeep
<1>3. LibraryInv /\ GalleryInv => GalleryIsAsAsked
  BY AsAsked
<1> QED
  BY <1>1, <1>2, <1>3, PTL DEF Spec
================================================================================
