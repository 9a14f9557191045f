-------------------------- MODULE GojiCacheProofs --------------------------
(***************************************************************************)
(* Proof that the caches keep their shape, that a cached block is what its *)
(* file holds while every write empties blockCache, and that a Get through *)
(* the index then answers what its key held since the call.  The invariant *)
(* beside the properties says where places point and what a reader has     *)
(* seen: one that holds db.mu.RLock has the place its key has in keyDir.   *)
(***************************************************************************)
EXTENDS GojiCache, FiniteSetTheorems, SequenceTheorems, TLAPS

\* Sequences of items with keys in K and values in V.
Items(K, V) == Seq([key : K, val : V])

\* Every item of d is one of c.
ItemsOf(d, c) == \A i \in DOMAIN d : \E j \in DOMAIN c : d[i] = c[j]

\* Every item of d is x or one of c.
AddedTo(d, x, c) == \A i \in DOMAIN d : d[i] = x \/ \E j \in DOMAIN c : d[i] = c[j]
---------------------------------------------------------------------------
(* Sequences.                                                              *)

LEMMA ElementFacts ==
  ASSUME NEW S, NEW s \in Seq(S)
  PROVE  /\ Len(s) \in Nat /\ DOMAIN s = 1 .. Len(s)
         /\ \A i \in DOMAIN s : s[i] \in S
  OBVIOUS

\* RemoveAt leaves the elements before i where they are and moves up those behind.
LEMMA RemoveFacts ==
  ASSUME NEW S, NEW s \in Seq(S), NEW n \in DOMAIN s
  PROVE  /\ RemoveAt(s, n) \in Seq(S)
         /\ Len(RemoveAt(s, n)) = Len(s) - 1
         /\ \A j \in 1 .. Len(s) - 1 :
              RemoveAt(s, n)[j] = IF j < n THEN s[j] ELSE s[j + 1]
<1> DEFINE a == SubSeq(s, 1, n - 1)
           b == SubSeq(s, n + 1, Len(s))
<1>1. n \in 1 .. Len(s) /\ Len(s) \in Nat
  OBVIOUS
<1>2. a \in Seq(S) /\ Len(a) = n - 1 /\ \A j \in 1 .. n - 1 : a[j] = s[j]
  BY <1>1
<1>3. b \in Seq(S) /\ Len(b) = Len(s) - n /\ \A j \in 1 .. Len(s) - n : b[j] = s[n + j]
  BY <1>1
<1> HIDE DEF a, b
<1>4. /\ a \o b \in Seq(S)
      /\ Len(a \o b) = Len(s) - 1
      /\ \A j \in 1 .. Len(s) - 1 : (a \o b)[j] = IF j < n THEN s[j] ELSE s[j + 1]
  BY <1>1, <1>2, <1>3
<1> QED
  BY <1>4 DEF RemoveAt, a, b

\* Front drops the last element.
LEMMA FrontFacts ==
  ASSUME NEW S, NEW s \in Seq(S), s # <<>>
  PROVE  /\ Front(s) \in Seq(S)
         /\ Len(Front(s)) = Len(s) - 1
         /\ \A j \in 1 .. Len(s) - 1 : Front(s)[j] = s[j]
<1> DEFINE n == Len(s) - 1
<1>1. n \in Nat /\ n < Len(s) /\ Len(s) \in Nat
  BY EmptySeq
<1> HIDE DEF n
<1>2. /\ SubSeq(s, 1, n) \in Seq(S) /\ Len(SubSeq(s, 1, n)) = n
      /\ \A j \in 1 .. n : SubSeq(s, 1, n)[j] = s[j]
  BY <1>1
<1> QED
  BY <1>2 DEF Front, n

\* An element put before a sequence.
LEMMA PrependFacts ==
  ASSUME NEW S, NEW s \in Seq(S), NEW x \in S
  PROVE  /\ <<x>> \o s \in Seq(S)
         /\ Len(<<x>> \o s) = Len(s) + 1
         /\ (<<x>> \o s)[1] = x
         /\ \A j \in 1 .. Len(s) : (<<x>> \o s)[j + 1] = s[j]
  OBVIOUS

LEMMA ItemFacts ==
  ASSUME NEW K, NEW V, NEW c \in Items(K, V), NEW i \in DOMAIN c
  PROVE  c[i].key \in K /\ c[i].val \in V
<1>1. c[i] \in [key : K, val : V]
  BY ElementFacts DEF Items
<1> QED
  BY <1>1
---------------------------------------------------------------------------
(* LRUCache.                                                               *)

LEMMA ElemFacts ==
  ASSUME NEW c, NEW k, Has(c, k)
  PROVE  Elem(c, k) \in DOMAIN c /\ c[Elem(c, k)].key = k
  BY DEF Has, Elem

\* An item found is one of the cache.
LEMMA FoundFacts ==
  ASSUME NEW c, NEW k, Has(c, k)
  PROVE  \E i \in DOMAIN c : c[i].key = k /\ ItemOf(c, k) = c[i].val
  BY ElemFacts DEF ItemOf

\* Remove takes out the item of k and no other.
LEMMA WithoutFacts ==
  ASSUME NEW K, NEW V, NEW c \in Items(K, V), AtMostOnce(c), NEW k
  PROVE  /\ Without(c, k) \in Items(K, V)
         /\ AtMostOnce(Without(c, k))
         /\ ~Has(Without(c, k), k)
         /\ ItemsOf(Without(c, k), c)
         /\ Len(Without(c, k)) \in Nat
         /\ Len(Without(c, k)) = Len(c) - (IF Has(c, k) THEN 1 ELSE 0)
<1>1. CASE ~Has(c, k)
  BY <1>1 DEF Without, ItemsOf, Items, Has
<1>2. CASE Has(c, k)
  <2> DEFINE n == Elem(c, k)
             d == RemoveAt(c, n)
  <2>1. n \in DOMAIN c /\ c[n].key = k
    BY <1>2, ElemFacts
  <2>2. DOMAIN c = 1 .. Len(c) /\ Len(c) \in Nat
    BY DEF Items
  <2>3. /\ d \in Items(K, V)
        /\ Len(d) = Len(c) - 1
        /\ \A j \in 1 .. Len(c) - 1 : d[j] = IF j < n THEN c[j] ELSE c[j + 1]
    BY <2>1, RemoveFacts DEF Items
  <2> HIDE DEF n, d
  <2>4. DOMAIN d = 1 .. Len(c) - 1
    BY <2>2, <2>3 DEF Items
  <2>5. \A j \in DOMAIN d : \E i \in DOMAIN c :
          i = (IF j < n THEN j ELSE j + 1) /\ i # n /\ d[j] = c[i]
    BY <2>1, <2>2, <2>3, <2>4
  <2>6. AtMostOnce(d)
    BY <2>1, <2>2, <2>4, <2>5 DEF AtMostOnce
  <2>7. ~Has(d, k)
    BY <2>1, <2>5 DEF AtMostOnce, Has
  <2>8. ItemsOf(d, c)
    BY <2>5 DEF ItemsOf
  <2>9. Without(c, k) = d
    BY <1>2 DEF Without, d, n
  <2>10. Len(d) \in Nat
    BY <2>3 DEF Items
  <2> QED
    BY <1>2, <2>3, <2>6, <2>7, <2>8, <2>9, <2>10
<1> QED
  BY <1>1, <1>2

\* An item of a key that has none yet, put first.
LEMMA PushFacts ==
  ASSUME NEW K, NEW V, NEW c \in Items(K, V), AtMostOnce(c),
         NEW k \in K, NEW v \in V, ~Has(c, k)
  PROVE  /\ <<[key |-> k, val |-> v]>> \o c \in Items(K, V)
         /\ AtMostOnce(<<[key |-> k, val |-> v]>> \o c)
         /\ Len(<<[key |-> k, val |-> v]>> \o c) = Len(c) + 1
         /\ AddedTo(<<[key |-> k, val |-> v]>> \o c, [key |-> k, val |-> v], c)
<1> DEFINE x == [key |-> k, val |-> v]
           d == <<x>> \o c
<1>1. x \in [key : K, val : V] /\ x.key = k
  OBVIOUS
<1>2. DOMAIN c = 1 .. Len(c) /\ Len(c) \in Nat
  BY DEF Items
<1> HIDE DEF x
<1>3. /\ d \in Items(K, V) /\ Len(d) = Len(c) + 1 /\ d[1] = x
      /\ \A j \in 1 .. Len(c) : d[j + 1] = c[j]
  BY <1>1, PrependFacts DEF Items
<1> HIDE DEF d
<1>4. DOMAIN d = 1 .. Len(c) + 1
  BY <1>2, <1>3 DEF Items
<1>5. \A i \in DOMAIN d : i = 1 \/ (i - 1 \in DOMAIN c /\ d[i] = c[i - 1])
  BY <1>2, <1>3, <1>4
<1>6. AtMostOnce(d)
  BY <1>1, <1>2, <1>3, <1>4, <1>5 DEF AtMostOnce, Has
<1>7. AddedTo(d, x, c)
  BY <1>3, <1>5 DEF AddedTo
<1> QED
  BY <1>3, <1>6, <1>7 DEF d, x

\* A cache of capacity n, as TypeOK has it.
Shaped(c, K, V, n) == c \in Items(K, V) /\ AtMostOnce(c) /\ Len(c) <= Largest(n)

LEMMA EmptyShaped ==
  ASSUME NEW K, NEW V, NEW n \in Nat
  PROVE  Shaped(<<>>, K, V, n)
  BY DEF Shaped, Items, AtMostOnce, Largest

\* Remove keeps the shape.
LEMMA WithoutShaped ==
  ASSUME NEW K, NEW V, NEW n \in Nat, NEW c, Shaped(c, K, V, n), NEW k
  PROVE  Shaped(Without(c, k), K, V, n)
<1>1. Len(c) \in Nat
  BY DEF Shaped, Items
<1>2. Len(Without(c, k)) <= Len(c)
  BY <1>1, WithoutFacts DEF Shaped
<1> QED
  BY <1>1, <1>2, WithoutFacts DEF Shaped, Largest

\* A Get that finds its key moves an item and changes none.
LEMMA TouchFacts ==
  ASSUME NEW K, NEW V, NEW n \in Nat, NEW c, Shaped(c, K, V, n), NEW k, Has(c, k)
  PROVE  Shaped(Touch(c, k), K, V, n) /\ ItemsOf(Touch(c, k), c)
<1> DEFINE d == Without(c, k)
           v == ItemOf(c, k)
<1>1. PICK i \in DOMAIN c : c[i].key = k /\ v = c[i].val
  BY FoundFacts
<1>2. Len(c) \in Nat /\ c[i] \in [key : K, val : V]
  BY <1>1, ElementFacts DEF Shaped, Items
<1>3. k \in K /\ v \in V /\ c[i] = [key |-> k, val |-> v]
  BY <1>1, <1>2
<1>4. d \in Items(K, V) /\ AtMostOnce(d) /\ ~Has(d, k) /\ ItemsOf(d, c) /\ Len(d) = Len(c) - 1
  BY WithoutFacts DEF Shaped
<1> HIDE DEF d, v
<1>5. /\ <<[key |-> k, val |-> v]>> \o d \in Items(K, V)
      /\ AtMostOnce(<<[key |-> k, val |-> v]>> \o d)
      /\ Len(<<[key |-> k, val |-> v]>> \o d) = Len(d) + 1
      /\ AddedTo(<<[key |-> k, val |-> v]>> \o d, [key |-> k, val |-> v], d)
  BY <1>3, <1>4, PushFacts
<1>6. Touch(c, k) = <<[key |-> k, val |-> v]>> \o d
  BY DEF Touch, d, v
<1>7. ItemsOf(Touch(c, k), c)
  BY <1>3, <1>4, <1>5, <1>6 DEF ItemsOf, AddedTo
<1>8. Len(Touch(c, k)) = Len(c)
  <2>1. Len(Touch(c, k)) = Len(d) + 1
    BY <1>5, <1>6
  <2> QED
    BY <1>2, <1>4, <2>1
<1> QED
  BY <1>5, <1>6, <1>7, <1>8 DEF Shaped

\* Set adds its item, keeps some of the others and stays within the capacity.
LEMMA SetItemFacts ==
  ASSUME NEW K, NEW V, NEW n \in Nat, NEW c, Shaped(c, K, V, n), NEW k \in K, NEW v \in V
  PROVE  /\ Shaped(SetItem(c, k, v, n), K, V, n)
         /\ AddedTo(SetItem(c, k, v, n), [key |-> k, val |-> v], c)
<1> DEFINE d == Without(c, k)
           e == IF Len(d) >= n /\ d # <<>> THEN Front(d) ELSE d
<1>1. Len(c) \in Nat /\ Len(c) <= Largest(n)
  BY DEF Shaped, Items
<1>2. /\ d \in Items(K, V) /\ AtMostOnce(d) /\ ~Has(d, k) /\ ItemsOf(d, c)
      /\ Len(d) \in Nat /\ Len(d) <= Len(c)
  BY <1>1, WithoutFacts DEF Shaped
<1>3. DOMAIN d = 1 .. Len(d) /\ (d = <<>> <=> Len(d) = 0)
  BY <1>2, EmptySeq DEF Items
<1> HIDE DEF d
<1>4. /\ e \in Items(K, V) /\ Len(e) \in Nat /\ Len(e) + 1 <= Largest(n)
      /\ DOMAIN e \subseteq DOMAIN d /\ \A j \in DOMAIN e : e[j] = d[j]
  <2>1. CASE Len(d) >= n /\ d # <<>>
    <3>1. /\ Front(d) \in Items(K, V) /\ Len(Front(d)) = Len(d) - 1
          /\ \A j \in 1 .. Len(d) - 1 : Front(d)[j] = d[j]
      BY <1>2, <2>1, FrontFacts DEF Items
    <3>2. DOMAIN Front(d) = 1 .. Len(d) - 1
      BY <1>2, <1>3, <3>1 DEF Items
    <3> QED
      BY <1>1, <1>2, <1>3, <2>1, <3>1, <3>2 DEF Largest
  <2>2. CASE ~(Len(d) >= n /\ d # <<>>)
    BY <1>1, <1>2, <1>3, <2>2 DEF Largest
  <2> QED
    BY <2>1, <2>2
<1> HIDE DEF e
<1>5. AtMostOnce(e) /\ ~Has(e, k) /\ ItemsOf(e, c)
  BY <1>2, <1>4 DEF AtMostOnce, Has, ItemsOf
<1>6. /\ <<[key |-> k, val |-> v]>> \o e \in Items(K, V)
      /\ AtMostOnce(<<[key |-> k, val |-> v]>> \o e)
      /\ Len(<<[key |-> k, val |-> v]>> \o e) = Len(e) + 1
      /\ AddedTo(<<[key |-> k, val |-> v]>> \o e, [key |-> k, val |-> v], e)
  BY <1>4, <1>5, PushFacts
<1>7. SetItem(c, k, v, n) = <<[key |-> k, val |-> v]>> \o e
  BY DEF SetItem, d, e
<1> QED
  BY <1>4, <1>5, <1>6, <1>7 DEF Shaped, ItemsOf, AddedTo
---------------------------------------------------------------------------
(* The invariant.                                                          *)

Cell == {Header, Tombstone, Zero} \cup Values

Block == [1 .. BlockSize -> Cell]

FilesOK == files \in Seq(Seq(Cell)) /\ files # <<>>

\* Every place of the index is in a file there is.
IndexOK ==
  /\ keyDir \in [Keys -> KeyDir \cup {None}]
  /\ \A k \in Keys : keyDir[k] # None => keyDir[k].FileID <= Len(files)

CachesOK ==
  /\ Shaped(keyCache, Keys, Place, KeyCacheSize)
  /\ Shaped(blockCache, Place, Block, BlockCacheSize)

\* What a Get has of its key at the steps of its way.
ReaderOK(r) ==
  /\ DOMAIN reader[r] = {"pc", "key", "at", "out"}
  /\ reader[r].pc \in {"idle", "block", "lock", "locked", "file"}
  /\ reader[r].pc # "idle" => reader[r].key \in Keys /\ Answer(reader[r].key) \in seen[r]
  /\ reader[r].pc \in {"locked", "file"} =>
       Live(reader[r].key) /\ reader[r].at = PlaceOf(keyDir[reader[r].key])

ReadersOK ==
  /\ DOMAIN reader = Readers /\ reader = [r \in Readers |-> reader[r]]
  /\ DOMAIN seen = Readers /\ seen = [r \in Readers |-> seen[r]]
  /\ \A r \in Readers : ReaderOK(r)

CacheInv == FilesOK /\ IndexOK /\ CachesOK /\ ReadersOK /\ BlocksExact
---------------------------------------------------------------------------
(* Places and files.                                                       *)

LEMMA Lengths == /\ HeaderLen \in Nat \ {0} /\ ValueLen \in Nat \ {0} /\ BlockSize \in Nat \ {0}
                 /\ EntryLen \in Nat \ {0}
                 /\ KeyCacheSize \in Nat /\ BlockCacheSize \in Nat
  BY LengthAssumption, CacheAssumption DEF EntryLen

LEMMA DivFacts ==
  ASSUME NEW a \in Nat, NEW b \in Nat \ {0}
  PROVE  a \div b \in Nat /\ b * (a \div b) \in Nat /\ b * (a \div b) <= a
<1>1. a \div b \in Nat
  OBVIOUS
<1>2. b * (a \div b) <= a
  OBVIOUS
<1> QED
  BY <1>1, <1>2

LEMMA DivBelow ==
  ASSUME NEW n \in Nat, NEW b \in Nat \ {0}, NEW a \in Nat, a < n * b
  PROVE  a \div b + 1 \in 1 .. n
<1>1. a \div b \in Nat /\ b * (a \div b) <= a
  BY DivFacts
<1> DEFINE q == a \div b
<1>2. ASSUME q >= n
      PROVE  FALSE
  <2>1. PICK d \in Nat : q = n + d
    BY <1>1, <1>2
  <2>2. b * q = b * n + b * d /\ b * d \in Nat /\ b * n = n * b
    BY <2>1
  <2> QED
    BY <1>1, <2>2
<1> QED
  BY <1>1, <1>2

\* The cells of n values.
LEMMA WrittenFacts ==
  ASSUME NEW values \in Seq(Cell)
  PROVE  Written(values) \in Seq(Cell)
<1> DEFINE n == Len(values) * EntryLen
<1>1. Len(values) \in Nat /\ EntryLen \in Nat \ {0} /\ n \in Nat
  BY Lengths
<1>2. ASSUME NEW c \in 1 .. n
      PROVE  values[(c - 1) \div EntryLen + 1] \in Cell
  <2>1. c - 1 \in Nat /\ c - 1 < Len(values) * EntryLen
    BY <1>1
  <2>2. (c - 1) \div EntryLen + 1 \in 1 .. Len(values)
    BY <1>1, <2>1, DivBelow
  <2> QED
    BY <2>2, ElementOfSeq
<1>3. Header \in Cell
  BY DEF Cell
<1> HIDE DEF n
<1>4. [c \in 1 .. n |-> IF (c - 1) % EntryLen < HeaderLen THEN Header
                        ELSE values[(c - 1) \div EntryLen + 1]] \in [1 .. n -> Cell]
  BY <1>2, <1>3
<1>5. Written(values) \in [1 .. n -> Cell]
  BY <1>4 DEF Written, n
<1> QED
  BY <1>1, <1>5, SeqDef

\* Entries behind the last one are in a file that was there.
LEMMA WithEntriesFacts ==
  ASSUME NEW fs \in Seq(Seq(Cell)), fs # <<>>, NEW values \in Seq(Cell)
  PROVE  /\ WithEntries(fs, values) \in Seq(Seq(Cell))
         /\ Len(WithEntries(fs, values)) = Len(fs)
         /\ WithEntries(fs, values) # <<>>
<1>1. Len(fs) \in 1 .. Len(fs) /\ fs[Len(fs)] \in Seq(Cell)
  BY EmptySeq, ElementOfSeq
<1>2. fs[Len(fs)] \o Written(values) \in Seq(Cell)
  BY <1>1, WrittenFacts
<1> DEFINE e == fs[Len(fs)] \o Written(values)
<1> HIDE DEF e
<1>3. [fs EXCEPT ![Len(fs)] = e] \in Seq(Seq(Cell)) /\ Len([fs EXCEPT ![Len(fs)] = e]) = Len(fs)
  BY <1>1, <1>2, ExceptSeq DEF e
<1>4. WithEntries(fs, values) = [fs EXCEPT ![Len(fs)] = e]
  BY DEF WithEntries, e
<1> QED
  BY <1>1, <1>3, <1>4

\* A rotation adds a file or none.
LEMMA RotatedFacts ==
  ASSUME FilesOK, NEW n
  PROVE  /\ Rotated(n) \in Seq(Seq(Cell)) /\ Rotated(n) # <<>>
         /\ Len(files) \in Nat \ {0} /\ Len(Rotated(n)) >= Len(files)
<1>1. Len(files) \in Nat \ {0}
  BY EmptySeq DEF FilesOK
<1>2. <<>> \in Seq(Cell)
  OBVIOUS
<1>3. Append(files, <<>>) \in Seq(Seq(Cell)) /\ Len(Append(files, <<>>)) = Len(files) + 1
  BY <1>2, AppendProperties DEF FilesOK
<1> QED
  BY <1>1, <1>3 DEF FilesOK, Rotated

\* The place of an entry to come is in the last file.
LEMMA NewPlaceFacts ==
  ASSUME NEW fs \in Seq(Seq(Cell)), fs # <<>>, NEW i \in Nat \ {0}
  PROVE  /\ NewPlace(fs, i) \in KeyDir /\ NewPlace(fs, i).FileID = Len(fs)
         /\ PlaceOf(NewPlace(fs, i)) \in Place
<1>1. Len(fs) \in Nat \ {0} /\ fs[Len(fs)] \in Seq(Cell)
  BY EmptySeq, ElementOfSeq
<1>2. Len(Last(fs)) \in Nat
  BY <1>1 DEF Last
<1>3. Len(Last(fs)) + (i - 1) * EntryLen + HeaderLen \in Nat
  BY <1>2, Lengths
<1> QED
  BY <1>1, <1>3 DEF NewPlace, KeyDir, PlaceOf, Place

LEMMA PlaceFacts ==
  ASSUME NEW info \in KeyDir
  PROVE  /\ PlaceOf(info) \in Place /\ PlaceOf(info).FileID = info.FileID
         /\ BlockOf(PlaceOf(info)) \in Place /\ BlockOf(PlaceOf(info)).FileID = info.FileID
         /\ BlockOf(PlaceOf(info)).ValuePos = BlockSize * (info.ValuePos \div BlockSize)
<1>1. BlockSize * (info.ValuePos \div BlockSize) \in Nat
  BY Lengths, DivFacts DEF KeyDir
<1> QED
  BY <1>1 DEF KeyDir, PlaceOf, Place, BlockOf

\* Reading a file that is there gives cells.
LEMMA ReadAtFacts ==
  ASSUME FilesOK, NEW p \in Place, p.FileID <= Len(files), NEW n \in Nat
  PROVE  ReadAt(p, n) \in [1 .. n -> Cell]
<1>1. Len(files) \in Nat
  BY DEF FilesOK
<1>2. p.FileID \in 1 .. Len(files) /\ p.ValuePos \in Nat
  BY <1>1 DEF Place
<1>3. files[p.FileID] \in Seq(Cell)
  BY <1>2, ElementOfSeq DEF FilesOK
<1>4. \A j \in 1 .. Len(files[p.FileID]) : files[p.FileID][j] \in Cell
  BY <1>3, ElementOfSeq
<1>5. Zero \in Cell /\ Len(files[p.FileID]) \in Nat
  BY <1>3 DEF Cell
<1>6. ASSUME NEW i \in 1 .. n, p.ValuePos + i <= Len(files[p.FileID])
      PROVE  files[p.FileID][p.ValuePos + i] \in Cell
  BY <1>2, <1>4, <1>5, <1>6
<1> QED
  BY <1>5, <1>6 DEF ReadAt
---------------------------------------------------------------------------
(* The writers.                                                            *)

\* A write finds no reader that holds the lock, and lets the others see its result.
LEMMA WitnessedStep ==
  ASSUME ReadersOK, Exclusive, Witnessed
  PROVE  ReadersOK'
<1>1. \A r \in Readers : reader'[r].pc \notin {"locked", "file"}
  BY DEF Exclusive, Witnessed
<1>2. \A r \in Readers : reader[r].pc # "idle" =>
        Answer(reader[r].key)' \in seen'[r]
  BY DEF Witnessed
<1>3. \A r \in Readers : ReaderOK(r)'
  BY <1>1, <1>2 DEF ReadersOK, ReaderOK, Witnessed
<1> QED
  BY <1>3 DEF ReadersOK, Witnessed

LEMMA OrderFacts ==
  ASSUME NEW order \in Orders
  PROVE  /\ order \in Seq(Keys) /\ DOMAIN order = 1 .. Len(order) /\ Len(order) \in Nat
         /\ \A k \in Range(order) :
              (CHOOSE i \in DOMAIN order : order[i] = k) \in Nat \ {0}
<1>1. Cardinality(Keys) \in Nat
  BY KeysAssumption, FS_CardinalityType
<1>2. PICK n \in 0 .. Cardinality(Keys) : order \in [1 .. n -> Keys]
  BY DEF Orders
<1>3. n \in Nat
  BY <1>1, <1>2
<1>4. order \in Seq(Keys)
  BY <1>2, <1>3, SeqDef
<1>5. DOMAIN order = 1 .. Len(order) /\ Len(order) \in Nat
  BY <1>4, ElementFacts
<1>6. ASSUME NEW k \in Range(order)
      PROVE  (CHOOSE i \in DOMAIN order : order[i] = k) \in DOMAIN order
  BY DEF Range
<1>7. DOMAIN order \subseteq Nat \ {0}
  BY <1>5
<1>8. \A k \in Range(order) : (CHOOSE i \in DOMAIN order : order[i] = k) \in Nat \ {0}
  BY <1>6, <1>7
<1> QED
  BY <1>4, <1>5, <1>8

LEMMA PutStep ==
  ASSUME CacheInv, NEW k \in Keys, NEW v \in Values, Put(k, v)
  PROVE  CacheInv'
<1> DEFINE fs == Rotated(1)
           place == NewPlace(fs, 1)
<1>1. /\ fs \in Seq(Seq(Cell)) /\ fs # <<>>
      /\ Len(files) \in Nat \ {0} /\ Len(fs) >= Len(files)
  BY RotatedFacts DEF CacheInv
<1>2. place \in KeyDir /\ place.FileID = Len(fs) /\ PlaceOf(place) \in Place
  BY <1>1, NewPlaceFacts
<1>3. /\ files' = WithEntries(fs, <<v>>) /\ keyDir' = [keyDir EXCEPT ![k] = place]
      /\ keyCache' = SetItem(keyCache, k, PlaceOf(place), KeyCacheSize)
      /\ blockCache' = <<>>
  BY DEF Put, Emptied
<1> HIDE DEF fs, place
<1>4. v \in Cell /\ <<v>> \in Seq(Cell)
  BY DEF Cell
<1>5. FilesOK' /\ Len(files') = Len(fs)
  BY <1>1, <1>3, <1>4, WithEntriesFacts DEF FilesOK
<1>6. IndexOK'
  <2>1. \A i \in Keys : keyDir'[i] = IF i = k THEN place ELSE keyDir[i]
    BY <1>3 DEF CacheInv, IndexOK
  <2>2. keyDir' \in [Keys -> KeyDir \cup {None}]
    BY <1>2, <1>3 DEF CacheInv, IndexOK
  <2>3. ASSUME NEW i \in Keys, keyDir'[i] # None
        PROVE  keyDir'[i].FileID <= Len(files')
    <3>1. CASE i = k
      BY <1>1, <1>2, <1>5, <2>1, <3>1 DEF KeyDir
    <3>2. CASE i # k
      <4>1. keyDir[i].FileID <= Len(files) /\ keyDir[i] \in KeyDir
        BY <2>1, <2>3, <3>2 DEF CacheInv, IndexOK
      <4> QED
        BY <1>1, <1>2, <1>5, <2>1, <3>2, <4>1 DEF KeyDir
    <3> QED
      BY <3>1, <3>2
  <2> QED
    BY <2>2, <2>3 DEF IndexOK
<1>7. CachesOK'
  <2>1. Shaped(keyCache', Keys, Place, KeyCacheSize)
    BY <1>2, <1>3, SetItemFacts, Lengths DEF CacheInv, CachesOK
  <2>2. Shaped(blockCache', Place, Block, BlockCacheSize)
    BY <1>3, EmptyShaped, Lengths
  <2> QED
    BY <2>1, <2>2 DEF CachesOK
<1>8. ReadersOK'
  BY WitnessedStep DEF CacheInv, Put
<1>9. BlocksExact'
  BY <1>3 DEF BlocksExact
<1> QED
  BY <1>5, <1>6, <1>7, <1>8, <1>9 DEF CacheInv

LEMMA BatchPutStep ==
  ASSUME CacheInv, NEW order \in Orders, NEW items \in [Keys -> Values],
         BatchPut(order, items)
  PROVE  CacheInv'
<1> DEFINE fs == Rotated(Len(order))
           values == [i \in DOMAIN order |-> items[order[i]]]
           Nth(k) == CHOOSE i \in DOMAIN order : order[i] = k
<1>1. /\ fs \in Seq(Seq(Cell)) /\ fs # <<>>
      /\ Len(files) \in Nat \ {0} /\ Len(fs) >= Len(files)
  BY RotatedFacts DEF CacheInv
<1>2. /\ files' = WithEntries(fs, values)
      /\ keyDir' = [k \in Keys |-> IF k \in Range(order) THEN NewPlace(fs, Nth(k)) ELSE keyDir[k]]
      /\ keyCache' = keyCache /\ blockCache' = blockCache /\ quiet' = FALSE
  BY DEF BatchPut
<1>3. values \in Seq(Cell)
  <2>1. DOMAIN order = 1 .. Len(order) /\ Len(order) \in Nat /\ order \in Seq(Keys)
    BY OrderFacts
  <2>2. \A i \in 1 .. Len(order) : items[order[i]] \in Cell
    BY <2>1, ElementOfSeq DEF Cell
  <2>3. values \in [1 .. Len(order) -> Cell]
    BY <2>1, <2>2
  <2> QED
    BY <2>1, <2>3, SeqDef
<1>4. \A k \in Range(order) : Nth(k) \in Nat \ {0}
  BY OrderFacts
<1> HIDE DEF fs, values, Nth
<1>5. \A k \in Range(order) : /\ NewPlace(fs, Nth(k)) \in KeyDir
                              /\ NewPlace(fs, Nth(k)).FileID = Len(fs)
  BY <1>1, <1>4, NewPlaceFacts
<1>6. FilesOK' /\ Len(files') = Len(fs)
  BY <1>1, <1>2, <1>3, WithEntriesFacts DEF FilesOK
<1>7. IndexOK'
  <2>1. keyDir' \in [Keys -> KeyDir \cup {None}]
    BY <1>2, <1>5 DEF CacheInv, IndexOK
  <2>2. ASSUME NEW k \in Keys, keyDir'[k] # None
        PROVE  keyDir'[k].FileID <= Len(files')
    <3>1. CASE k \in Range(order)
      BY <1>1, <1>2, <1>5, <1>6, <3>1
    <3>2. CASE k \notin Range(order)
      <4>1. keyDir'[k] = keyDir[k]
        BY <1>2, <3>2
      <4>2. keyDir[k].FileID <= Len(files) /\ keyDir[k] \in KeyDir
        BY <2>2, <4>1 DEF CacheInv, IndexOK
      <4> QED
        BY <1>1, <1>6, <4>1, <4>2 DEF KeyDir
    <3> QED
      BY <3>1, <3>2
  <2> QED
    BY <2>1, <2>2 DEF IndexOK
<1>8. CachesOK' /\ BlocksExact'
  BY <1>2 DEF CacheInv, CachesOK, BlocksExact
<1>9. ReadersOK'
  BY WitnessedStep DEF CacheInv, BatchPut
<1> QED
  BY <1>6, <1>7, <1>8, <1>9 DEF CacheInv

\* A tombstone goes to a file that is there, and its key keeps its place.
LEMMA TombstoneStep ==
  ASSUME CacheInv, NEW k \in Keys, keyDir[k] # None, WriteTombstone(k)
  PROVE  FilesOK' /\ IndexOK' /\ ReadersOK'
<1>1. <<Tombstone>> \in Seq(Cell)
  BY DEF Cell
<1>2. FilesOK' /\ Len(files') = Len(files)
  BY <1>1, WithEntriesFacts DEF CacheInv, FilesOK, WriteTombstone
<1>3. keyDir[k] \in KeyDir
  BY DEF CacheInv, IndexOK
<1> DEFINE gone == [keyDir[k] EXCEPT !.Deleted = TRUE]
<1>4. gone \in KeyDir /\ gone.FileID = keyDir[k].FileID
  BY <1>3 DEF KeyDir
<1>5. keyDir' = [keyDir EXCEPT ![k] = gone]
  BY DEF WriteTombstone
<1> HIDE DEF gone
<1>6. IndexOK'
  <2>1. keyDir' \in [Keys -> KeyDir \cup {None}]
    BY <1>4, <1>5 DEF CacheInv, IndexOK
  <2>2. \A i \in Keys : keyDir'[i] = IF i = k THEN gone ELSE keyDir[i]
    BY <1>5 DEF CacheInv, IndexOK
  <2> QED
    BY <1>2, <1>4, <2>1, <2>2 DEF CacheInv, IndexOK
<1>7. ReadersOK'
  BY WitnessedStep DEF CacheInv, WriteTombstone
<1> QED
  BY <1>2, <1>6, <1>7

LEMMA DeleteStep ==
  ASSUME CacheInv, NEW k \in Keys, Delete(k)
  PROVE  CacheInv'
<1>1. FilesOK' /\ IndexOK' /\ ReadersOK'
  BY TombstoneStep DEF Delete
<1>2. CachesOK'
  <2>1. Shaped(keyCache', Keys, Place, KeyCacheSize)
    BY WithoutShaped, Lengths DEF CacheInv, CachesOK, Delete
  <2>2. Shaped(blockCache', Place, Block, BlockCacheSize)
    BY EmptyShaped, Lengths DEF Delete, Emptied
  <2> QED
    BY <2>1, <2>2 DEF CachesOK
<1>3. BlocksExact'
  BY DEF BlocksExact, Delete, Emptied
<1> QED
  BY <1>1, <1>2, <1>3 DEF CacheInv

LEMMA ExpireKeyStep ==
  ASSUME CacheInv, NEW k \in Keys, ExpireKey(k)
  PROVE  CacheInv'
<1>1. FilesOK' /\ IndexOK' /\ ReadersOK'
  BY TombstoneStep DEF ExpireKey, Live
<1>2. CachesOK' /\ BlocksExact'
  BY DEF CacheInv, CachesOK, BlocksExact, ExpireKey
<1> QED
  BY <1>1, <1>2 DEF CacheInv

LEMMA CompactStep ==
  ASSUME CacheInv, NEW order \in Orders, Compact(order)
  PROVE  CacheInv'
<1> DEFINE fs == << <<>> >>
           values == [i \in DOMAIN order |-> Answer(order[i])[1]]
           Nth(k) == CHOOSE i \in DOMAIN order : order[i] = k
<1>1. fs \in Seq(Seq(Cell)) /\ fs # <<>> /\ Len(fs) = 1
  OBVIOUS
<1>2. /\ files' = WithEntries(fs, values)
      /\ keyDir' = [k \in Keys |-> IF k \in Range(order) THEN NewPlace(fs, Nth(k)) ELSE None]
      /\ keyCache' = keyCache /\ blockCache' = blockCache /\ quiet' = FALSE
  BY DEF Compact
<1>3. values \in Seq(Cell)
  <2>1. DOMAIN order = 1 .. Len(order) /\ Len(order) \in Nat /\ order \in Seq(Keys)
    BY OrderFacts
  <2>2. ASSUME NEW i \in 1 .. Len(order)
        PROVE  Answer(order[i])[1] \in Cell
    <3>1. order[i] \in Keys /\ Live(order[i])
      BY <2>1 DEF Compact, Range
    <3>2. keyDir[order[i]] \in KeyDir /\ keyDir[order[i]].FileID <= Len(files)
      BY <3>1 DEF CacheInv, IndexOK, Live
    <3>3. ReadAt(PlaceOf(keyDir[order[i]]), ValueLen) \in [1 .. ValueLen -> Cell]
      BY <3>2, PlaceFacts, ReadAtFacts, Lengths DEF CacheInv
    <3>4. 1 \in 1 .. ValueLen
      BY Lengths
    <3> QED
      BY <3>1, <3>3, <3>4 DEF Answer
  <2>3. values \in [1 .. Len(order) -> Cell]
    BY <2>1, <2>2
  <2> QED
    BY <2>1, <2>3, SeqDef
<1>4. \A k \in Range(order) : Nth(k) \in Nat \ {0}
  BY OrderFacts
<1> HIDE DEF fs, values, Nth
<1>5. \A k \in Range(order) : /\ NewPlace(fs, Nth(k)) \in KeyDir
                              /\ NewPlace(fs, Nth(k)).FileID = Len(fs)
  BY <1>1, <1>4, NewPlaceFacts
<1>6. FilesOK' /\ Len(files') = 1
  BY <1>1, <1>2, <1>3, WithEntriesFacts DEF FilesOK
<1>7. IndexOK'
  <2>1. keyDir' \in [Keys -> KeyDir \cup {None}]
    BY <1>2, <1>5 DEF CacheInv, IndexOK
  <2>2. \A k \in Keys : keyDir'[k] # None => keyDir'[k].FileID = 1
    BY <1>1, <1>2, <1>5
  <2> QED
    BY <1>6, <2>1, <2>2 DEF IndexOK
<1>8. CachesOK' /\ BlocksExact'
  BY <1>2 DEF CacheInv, CachesOK, BlocksExact
<1>9. ReadersOK'
  BY WitnessedStep DEF CacheInv, Compact
<1> QED
  BY <1>6, <1>7, <1>8, <1>9 DEF CacheInv
---------------------------------------------------------------------------
(* The readers.                                                            *)

\* GetsCurrent of one step.
Current ==
  \A r \in Readers :
    /\ reader[r].pc \in {"lock", "locked", "file"} /\ reader'[r].pc = "idle"
    /\ quiet
    => reader'[r].out \in seen[r]

\* A step of one reader leaves the others what they know.
LEMMA OthersStay ==
  ASSUME ReadersOK, UNCHANGED store, NEW r \in Readers, NEW x, NEW y,
         reader' = [reader EXCEPT ![r] = x], seen' = [seen EXCEPT ![r] = y], ReaderOK(r)'
  PROVE  ReadersOK'
<1>1. \A q \in Readers \ {r} : reader'[q] = reader[q] /\ seen'[q] = seen[q]
  BY DEF ReadersOK
<1>2. \A k : Answer(k)' = Answer(k) /\ (Live(k)' <=> Live(k))
  BY DEF Answer, Live, ReadAt, store
<1>3. \A q \in Readers \ {r} : ReaderOK(q)'
  BY <1>1, <1>2 DEF ReadersOK, ReaderOK, store
<1> QED
  BY <1>3 DEF ReadersOK

LEMMA GotoStep ==
  ASSUME ReadersOK, UNCHANGED store, NEW r \in Readers, reader[r].pc # "idle",
         NEW pc \in {"lock", "locked", "file"}, NEW at, Goto(r, pc, at),
         pc # "lock" => Live(reader[r].key) /\ at = PlaceOf(keyDir[reader[r].key])
  PROVE  ReadersOK' /\ Current
<1> DEFINE x == [reader[r] EXCEPT !.pc = pc, !.at = at]
<1>1. reader' = [reader EXCEPT ![r] = x] /\ seen' = [seen EXCEPT ![r] = seen[r]]
  BY DEF Goto, ReadersOK
<1>2. DOMAIN reader[r] = {"pc", "key", "at", "out"}
  BY DEF ReadersOK, ReaderOK
<1>3. /\ DOMAIN x = {"pc", "key", "at", "out"}
      /\ x.pc = pc /\ x.at = at /\ x.key = reader[r].key
  BY <1>2
<1>4. reader'[r] = x /\ seen'[r] = seen[r]
  BY <1>1 DEF ReadersOK
<1> HIDE DEF x
<1>5. \A k : Answer(k)' = Answer(k) /\ (Live(k)' <=> Live(k))
  BY DEF Answer, Live, ReadAt, store
<1>6. ReaderOK(r)'
  BY <1>3, <1>4, <1>5 DEF ReadersOK, ReaderOK, store
<1>7. Current
  BY <1>1, <1>3, <1>4 DEF Current, ReadersOK
<1> QED
  BY <1>1, <1>6, <1>7, OthersStay

LEMMA ReturnStep ==
  ASSUME ReadersOK, UNCHANGED store, NEW r \in Readers, NEW out, Return(r, out),
         quiet /\ reader[r].pc # "block" => out \in seen[r]
  PROVE  ReadersOK' /\ Current
<1> DEFINE x == [Idle EXCEPT !.out = out]
<1>1. reader' = [reader EXCEPT ![r] = x] /\ seen' = [seen EXCEPT ![r] = {}]
  BY DEF Return
<1>2. DOMAIN x = {"pc", "key", "at", "out"} /\ x.pc = "idle" /\ x.out = out
  BY DEF Idle
<1> HIDE DEF x
<1>3. reader'[r] = x
  BY <1>1 DEF ReadersOK
<1>4. ReaderOK(r)'
  BY <1>2, <1>3 DEF ReaderOK
<1>5. \A q \in Readers \ {r} : reader'[q] = reader[q]
  BY <1>1 DEF ReadersOK
<1>6. Current
  BY <1>2, <1>3, <1>5 DEF Current
<1> QED
  BY <1>1, <1>4, <1>6, OthersStay

\* A cache whose items were all there before stays exact.
LEMMA StillExact ==
  ASSUME BlocksExact, UNCHANGED store, UNCHANGED quiet, ItemsOf(blockCache', blockCache)
  PROVE  BlocksExact'
<1>1. \A p, n : ReadAt(p, n)' = ReadAt(p, n)
  BY DEF ReadAt, store
<1> QED
  BY <1>1 DEF BlocksExact, ItemsOf

LEMMA UnchangedExact ==
  ASSUME BlocksExact, UNCHANGED store, UNCHANGED quiet, UNCHANGED blockCache
  PROVE  BlocksExact'
  BY StillExact DEF ItemsOf

LEMMA BeginGetStep ==
  ASSUME CacheInv, NEW r \in Readers, NEW k \in Keys, BeginGet(r, k)
  PROVE  CacheInv' /\ Current
<1>1. UNCHANGED <<store, blockCache, quiet>> /\ seen' = [seen EXCEPT ![r] = {Answer(k)}]
  BY DEF BeginGet
<1>2. Shaped(keyCache', Keys, Place, KeyCacheSize)
  BY TouchFacts, Lengths DEF CacheInv, CachesOK, BeginGet
<1>3. FilesOK' /\ IndexOK' /\ CachesOK'
  BY <1>1, <1>2 DEF CacheInv, FilesOK, IndexOK, CachesOK, store
<1>4. PICK x : /\ reader' = [reader EXCEPT ![r] = x]
               /\ DOMAIN x = {"pc", "key", "at", "out"}
               /\ x.pc \in {"block", "lock"} /\ x.key = k
  <2> DEFINE b == [Idle EXCEPT !.pc = "block", !.key = k, !.at = ItemOf(keyCache, k)]
             l == [Idle EXCEPT !.pc = "lock", !.key = k]
  <2>1. \E x \in {b, l} : reader' = [reader EXCEPT ![r] = x]
    BY DEF BeginGet
  <2>2. \A x \in {b, l} : /\ DOMAIN x = {"pc", "key", "at", "out"}
                          /\ x.pc \in {"block", "lock"} /\ x.key = k
    BY DEF Idle
  <2> HIDE DEF b, l
  <2> QED
    BY <2>1, <2>2
<1>5. reader'[r] = x /\ seen'[r] = {Answer(k)}
  BY <1>1, <1>4 DEF CacheInv, ReadersOK
<1>6. Answer(k)' = Answer(k)
  BY <1>1 DEF Answer, Live, ReadAt, store
<1>7. ReaderOK(r)'
  BY <1>4, <1>5, <1>6 DEF ReaderOK
<1>8. ReadersOK'
  <2>1. ReadersOK /\ UNCHANGED store
    BY <1>1 DEF CacheInv
  <2> QED
    BY <1>1, <1>4, <1>7, <2>1, OthersStay
<1>9. BlocksExact'
  BY <1>1, UnchangedExact DEF CacheInv
<1>10. Current
  BY <1>4, <1>5 DEF Current, CacheInv, ReadersOK
<1> QED
  BY <1>3, <1>8, <1>9, <1>10 DEF CacheInv

LEMMA TryCacheReadStep ==
  ASSUME CacheInv, NEW r \in Readers, TryCacheRead(r)
  PROVE  CacheInv' /\ Current
<1>1. UNCHANGED <<store, keyCache, quiet>> /\ reader[r].pc = "block"
  BY DEF TryCacheRead
<1>2. FilesOK' /\ IndexOK'
  BY <1>1 DEF CacheInv, FilesOK, IndexOK, store
<1>3. CASE Has(blockCache, reader[r].at)
  <2>1. /\ Return(r, ItemOf(blockCache, reader[r].at))
        /\ blockCache' = Touch(blockCache, reader[r].at)
    BY <1>3 DEF TryCacheRead
  <2>2. ReadersOK /\ UNCHANGED store
    BY <1>1 DEF CacheInv
  <2>3. ReadersOK' /\ Current
    BY <1>1, <2>1, <2>2, ReturnStep
  <2>4. /\ Shaped(blockCache', Place, Block, BlockCacheSize)
        /\ ItemsOf(blockCache', blockCache)
    BY <1>3, <2>1, TouchFacts, Lengths DEF CacheInv, CachesOK
  <2>5. BlocksExact'
    BY <1>1, <2>4, StillExact DEF CacheInv
  <2>6. CachesOK'
    BY <1>1, <2>4 DEF CacheInv, CachesOK
  <2> QED
    BY <1>2, <2>3, <2>5, <2>6 DEF CacheInv
<1>4. CASE ~Has(blockCache, reader[r].at)
  <2>1. Goto(r, "lock", None) /\ UNCHANGED blockCache
    BY <1>4 DEF TryCacheRead
  <2>2. ReadersOK /\ UNCHANGED store /\ reader[r].pc # "idle"
    BY <1>1 DEF CacheInv
  <2>3. ReadersOK' /\ Current
    BY <2>1, <2>2, GotoStep
  <2>4. BlocksExact' /\ CachesOK'
    BY <1>1, <2>1, UnchangedExact DEF CacheInv, CachesOK
  <2> QED
    BY <1>2, <2>3, <2>4 DEF CacheInv
<1> QED
  BY <1>3, <1>4

LEMMA ReadIndexStep ==
  ASSUME CacheInv, NEW r \in Readers, ReadIndex(r)
  PROVE  CacheInv' /\ Current
<1> DEFINE k == reader[r].key
<1>1. UNCHANGED <<store, blockCache, quiet>> /\ reader[r].pc = "lock"
  BY DEF ReadIndex
<1>2. FilesOK' /\ IndexOK' /\ BlocksExact'
  BY <1>1, UnchangedExact DEF CacheInv, FilesOK, IndexOK, store
<1>3. ReadersOK /\ UNCHANGED store /\ reader[r].pc # "idle"
  BY <1>1 DEF CacheInv
<1>4. k \in Keys /\ Answer(k) \in seen[r]
  BY <1>1, <1>3 DEF ReadersOK, ReaderOK
<1>5. CASE Live(k)
  <2>1. /\ Goto(r, "locked", PlaceOf(keyDir[k]))
        /\ keyCache' = SetItem(keyCache, k, PlaceOf(keyDir[k]), KeyCacheSize)
    BY <1>5 DEF ReadIndex
  <2>2. ReadersOK' /\ Current
    BY <1>3, <1>5, <2>1, GotoStep
  <2>3. PlaceOf(keyDir[k]) \in Place
    BY <1>4, <1>5, PlaceFacts DEF CacheInv, IndexOK, Live
  <2>4. Shaped(keyCache', Keys, Place, KeyCacheSize)
    BY <1>4, <2>1, <2>3, SetItemFacts, Lengths DEF CacheInv, CachesOK
  <2>5. CachesOK'
    BY <1>1, <2>4 DEF CacheInv, CachesOK
  <2> QED
    BY <1>2, <2>2, <2>5 DEF CacheInv
<1>6. CASE ~Live(k)
  <2>1. Return(r, None) /\ UNCHANGED keyCache
    BY <1>6 DEF ReadIndex
  <2>2. None \in seen[r]
    BY <1>4, <1>6 DEF Answer
  <2>3. ReadersOK' /\ Current
    BY <1>3, <2>1, <2>2, ReturnStep
  <2>4. CachesOK'
    BY <1>1, <2>1 DEF CacheInv, CachesOK
  <2> QED
    BY <1>2, <2>3, <2>4 DEF CacheInv
<1> QED
  BY <1>5, <1>6

\* What a reader that holds the lock knows.
LEMMA LockedFacts ==
  ASSUME CacheInv, NEW r \in Readers, reader[r].pc \in {"locked", "file"}
  PROVE  /\ reader[r].at \in Place /\ BlockOf(reader[r].at) \in Place
         /\ reader[r].at.FileID <= Len(files) /\ BlockOf(reader[r].at).FileID <= Len(files)
         /\ ReadAt(reader[r].at, ValueLen) \in seen[r]
<1>1. /\ Live(reader[r].key) /\ reader[r].at = PlaceOf(keyDir[reader[r].key])
      /\ reader[r].key \in Keys /\ Answer(reader[r].key) \in seen[r]
  BY DEF CacheInv, ReadersOK, ReaderOK
<1>2. /\ keyDir[reader[r].key] \in KeyDir
      /\ keyDir[reader[r].key].FileID <= Len(files)
  BY <1>1 DEF CacheInv, IndexOK, Live
<1> QED
  BY <1>1, <1>2, PlaceFacts DEF Answer

\* A value cut out of the block it ends in is the value in the file.
LEMMA ExtractFacts ==
  ASSUME FilesOK, NEW p \in Place, BlockOf(p) \in Place, p.FileID <= Len(files), InBlock(p)
  PROVE  Extract(ReadAt(BlockOf(p), BlockSize), p) = ReadAt(p, ValueLen)
<1> DEFINE b == BlockOf(p)
           start == b.ValuePos
           offset == p.ValuePos - start
           block == ReadAt(b, BlockSize)
           f == files[p.FileID]
<1>1. p.ValuePos \in Nat /\ start \in Nat /\ b.FileID = p.FileID
      /\ start = BlockSize * (p.ValuePos \div BlockSize)
  BY DEF Place, BlockOf
<1>2. start <= p.ValuePos
  BY <1>1, Lengths, DivFacts
<1>3. offset \in Nat /\ offset + ValueLen <= BlockSize
  BY <1>1, <1>2 DEF InBlock
<1>4. block \in [1 .. BlockSize -> Cell]
  BY <1>1, Lengths, ReadAtFacts
<1>5. block \in Seq(Cell) /\ Len(block) = BlockSize
  BY <1>4, Lengths, SeqDef
<1>6. block = [i \in 1 .. BlockSize |-> IF start + i <= Len(f) THEN f[start + i] ELSE Zero]
  BY <1>1 DEF ReadAt
<1>7. p.ValuePos = start + offset
  BY <1>1
<1>8. Extract(block, p) = SubSeq(block, offset + 1, offset + ValueLen)
  BY DEF Extract
<1>9. ReadAt(p, ValueLen) =
        [i \in 1 .. ValueLen |->
           IF p.ValuePos + i <= Len(f) THEN f[p.ValuePos + i] ELSE Zero]
  BY DEF ReadAt
<1> HIDE DEF b, start, offset, block, f
<1>10. SubSeq(block, offset + 1, offset + ValueLen) =
         [i \in 1 .. ValueLen |-> block[offset + i]]
  <2>1. /\ SubSeq(block, offset + 1, offset + ValueLen) \in Seq(Cell)
        /\ Len(SubSeq(block, offset + 1, offset + ValueLen)) = ValueLen
        /\ \A i \in 1 .. ValueLen :
             SubSeq(block, offset + 1, offset + ValueLen)[i] = block[offset + i]
    BY <1>3, <1>5, Lengths
  <2> QED
    BY <2>1
<1>11. \A i \in 1 .. ValueLen :
         block[offset + i] = IF p.ValuePos + i <= Len(f) THEN f[p.ValuePos + i] ELSE Zero
  <2>1. \A i \in 1 .. ValueLen : offset + i \in 1 .. BlockSize
    BY <1>3, Lengths
  <2>2. \A i \in 1 .. ValueLen : start + (offset + i) = p.ValuePos + i
    BY <1>1, <1>3, <1>7
  <2> QED
    BY <1>6, <2>1, <2>2
<1>12. Extract(block, p) = ReadAt(p, ValueLen)
  BY <1>8, <1>9, <1>10, <1>11
<1> QED
  BY <1>12 DEF block, b

LEMMA ReadBlockStep ==
  ASSUME CacheInv, NEW r \in Readers, ReadBlock(r)
  PROVE  CacheInv' /\ Current
<1> DEFINE at == reader[r].at
           b == BlockOf(at)
<1>1. UNCHANGED <<store, keyCache, quiet>> /\ reader[r].pc = "locked"
  BY DEF ReadBlock
<1>2. FilesOK' /\ IndexOK'
  BY <1>1 DEF CacheInv, FilesOK, IndexOK, store
<1>3. ReadersOK /\ UNCHANGED store /\ reader[r].pc # "idle"
  BY <1>1 DEF CacheInv
<1>4. /\ at \in Place /\ b \in Place /\ at.FileID <= Len(files)
      /\ ReadAt(at, ValueLen) \in seen[r]
  BY <1>1, LockedFacts
<1>5. ASSUME Goto(r, "file", at)
      PROVE  ReadersOK' /\ Current
  <2>1. Live(reader[r].key) /\ at = PlaceOf(keyDir[reader[r].key])
    BY <1>1 DEF CacheInv, ReadersOK, ReaderOK
  <2> QED
    BY <1>3, <1>5, <2>1, GotoStep
<1>6. CASE Has(blockCache, b)
  <2>1. /\ blockCache' = Touch(blockCache, b)
        /\ IF InBlock(at) THEN Return(r, Extract(ItemOf(blockCache, b), at))
                          ELSE Goto(r, "file", at)
    BY <1>6 DEF ReadBlock
  <2>2. /\ Shaped(blockCache', Place, Block, BlockCacheSize)
        /\ ItemsOf(blockCache', blockCache)
    BY <1>6, <2>1, TouchFacts, Lengths DEF CacheInv, CachesOK
  <2>3. BlocksExact' /\ CachesOK'
    BY <1>1, <2>2, StillExact DEF CacheInv, CachesOK
  <2>4. quiet => ItemOf(blockCache, b) = ReadAt(b, BlockSize)
    BY <1>6, FoundFacts DEF CacheInv, BlocksExact
  <2>5. CASE InBlock(at)
    <3>1. Return(r, Extract(ItemOf(blockCache, b), at))
      BY <2>1, <2>5
    <3>2. quiet => Extract(ItemOf(blockCache, b), at) \in seen[r]
      BY <1>4, <2>4, <2>5, ExtractFacts DEF CacheInv
    <3>3. ReadersOK' /\ Current
      BY <1>3, <3>1, <3>2, ReturnStep
    <3> QED
      BY <1>2, <2>3, <3>3 DEF CacheInv
  <2>6. CASE ~InBlock(at)
    BY <1>2, <1>5, <2>1, <2>3, <2>6 DEF CacheInv
  <2> QED
    BY <2>5, <2>6
<1>7. CASE ~Has(blockCache, b)
  <2>1. Goto(r, "file", at) /\ UNCHANGED blockCache
    BY <1>7 DEF ReadBlock
  <2>2. BlocksExact' /\ CachesOK'
    BY <1>1, <2>1, UnchangedExact DEF CacheInv, CachesOK
  <2> QED
    BY <1>2, <1>5, <2>1, <2>2 DEF CacheInv
<1> QED
  BY <1>6, <1>7

LEMMA ReadFileStep ==
  ASSUME CacheInv, NEW r \in Readers, ReadFile(r)
  PROVE  CacheInv' /\ Current
<1> DEFINE at == reader[r].at
           b == BlockOf(at)
           block == ReadAt(b, BlockSize)
<1>1. UNCHANGED <<store, keyCache, quiet>> /\ reader[r].pc = "file"
  BY DEF ReadFile
<1>2. FilesOK' /\ IndexOK'
  BY <1>1 DEF CacheInv, FilesOK, IndexOK, store
<1>3. ReadersOK /\ UNCHANGED store
  BY <1>1 DEF CacheInv
<1>4. b \in Place /\ b.FileID <= Len(files) /\ ReadAt(at, ValueLen) \in seen[r]
  BY <1>1, LockedFacts
<1>5. /\ Return(r, ReadAt(at, ValueLen))
      /\ blockCache' = SetItem(blockCache, b, block, BlockCacheSize)
  BY DEF ReadFile
<1>6. ReadersOK' /\ Current
  BY <1>3, <1>4, <1>5, ReturnStep
<1>7. block \in Block
  BY <1>4, ReadAtFacts, Lengths DEF CacheInv, Block
<1>8. /\ Shaped(blockCache', Place, Block, BlockCacheSize)
      /\ AddedTo(blockCache', [key |-> b, val |-> block], blockCache)
  <2>1. Shaped(blockCache, Place, Block, BlockCacheSize) /\ BlockCacheSize \in Nat
    BY Lengths DEF CacheInv, CachesOK
  <2> HIDE DEF b, block
  <2> QED
    BY <1>4, <1>5, <1>7, <2>1, SetItemFacts
<1>9. CachesOK'
  BY <1>1, <1>8 DEF CacheInv, CachesOK
<1>10. BlocksExact'
  <2>1. \A p, n : ReadAt(p, n)' = ReadAt(p, n)
    BY <1>1 DEF ReadAt, store
  <2> QED
    BY <1>1, <1>8, <2>1 DEF CacheInv, BlocksExact, AddedTo
<1> QED
  BY <1>2, <1>6, <1>9, <1>10 DEF CacheInv
---------------------------------------------------------------------------
LEMMA InitCacheInv == Init => CacheInv
<1> SUFFICES ASSUME Init
             PROVE  CacheInv
  OBVIOUS
<1>1. files = << <<>> >> /\ <<>> \in Seq(Cell)
  BY DEF Init
<1>2. FilesOK
  BY <1>1 DEF FilesOK
<1>3. IndexOK
  BY DEF Init, IndexOK
<1>4. CachesOK
  BY EmptyShaped, Lengths DEF Init, CachesOK
<1>5. ReadersOK
  BY DEF Init, ReadersOK, ReaderOK, Idle
<1>6. BlocksExact
  BY DEF Init, BlocksExact
<1> QED
  BY <1>2, <1>3, <1>4, <1>5, <1>6 DEF CacheInv

LEMMA NoReader ==
  ASSUME CacheInv, UNCHANGED reader
  PROVE  Current
  BY DEF Current

LEMMA NextStep ==
  ASSUME CacheInv, [Next]_vars
  PROVE  CacheInv' /\ Current
<1>1. ASSUME NEW k \in Keys, NEW v \in Values, Put(k, v)
      PROVE  CacheInv' /\ Current
  BY <1>1, PutStep, NoReader DEF Put, Witnessed
<1>2. ASSUME NEW k \in Keys, Delete(k)
      PROVE  CacheInv' /\ Current
  BY <1>2, DeleteStep, NoReader DEF Delete, WriteTombstone, Witnessed
<1>3. ASSUME NEW k \in Keys, ExpireKey(k)
      PROVE  CacheInv' /\ Current
  BY <1>3, ExpireKeyStep, NoReader DEF ExpireKey, WriteTombstone, Witnessed
<1>4. ASSUME NEW order \in Orders, NEW items \in [Keys -> Values], BatchPut(order, items)
      PROVE  CacheInv' /\ Current
  BY <1>4, BatchPutStep, NoReader DEF BatchPut, Witnessed
<1>5. ASSUME NEW order \in Orders, Compact(order)
      PROVE  CacheInv' /\ Current
  BY <1>5, CompactStep, NoReader DEF Compact, Witnessed
<1>6. ASSUME NEW r \in Readers,
             \/ \E k \in Keys : BeginGet(r, k)
             \/ TryCacheRead(r) \/ ReadIndex(r) \/ ReadBlock(r) \/ ReadFile(r)
      PROVE  CacheInv' /\ Current
  BY <1>6, BeginGetStep, TryCacheReadStep, ReadIndexStep, ReadBlockStep, ReadFileStep
<1>7. CASE UNCHANGED vars
  <2>1. \A k : Answer(k)' = Answer(k) /\ (Live(k)' <=> Live(k))
    BY <1>7 DEF vars, Answer, Live, ReadAt
  <2>2. ReadersOK'
    BY <1>7, <2>1 DEF vars, CacheInv, ReadersOK, ReaderOK
  <2>3. BlocksExact'
    BY <1>7, UnchangedExact DEF vars, store, CacheInv
  <2>4. FilesOK' /\ IndexOK' /\ CachesOK'
    BY <1>7 DEF vars, CacheInv, FilesOK, IndexOK, CachesOK
  <2> QED
    BY <1>7, <2>2, <2>3, <2>4, NoReader DEF vars, CacheInv
<1> QED
  BY <1>1, <1>2, <1>3, <1>4, <1>5, <1>6, <1>7 DEF Next

LEMMA CacheInvHolds == Spec => []CacheInv
  BY InitCacheInv, NextStep, PTL DEF Spec

\* The caches never hold two items of a key nor more than their capacity, whatever writers
\* and readers do.
THEOREM CachesShaped == Spec => []TypeOK
<1>1. CacheInv => TypeOK
  <2> SUFFICES ASSUME CacheInv
               PROVE  TypeOK
    OBVIOUS
  <2>1. \A i \in DOMAIN keyCache : keyCache[i].key \in Keys /\ keyCache[i].val \in Place
    BY ItemFacts DEF CacheInv, CachesOK, Shaped
  <2>2. \A i \in DOMAIN blockCache : blockCache[i].key \in Place /\ blockCache[i].val \in Block
    BY ItemFacts DEF CacheInv, CachesOK, Shaped
  <2>3. \A x \in Block : Len(x) = BlockSize
    BY Lengths DEF Block
  <2> QED
    BY <2>1, <2>2, <2>3
       DEF TypeOK, CacheInv, IndexOK, CachesOK, Shaped, ReadersOK, ReaderOK
<1> QED
  BY <1>1, CacheInvHolds, PTL

\* While every write empties blockCache, its blocks are what the files hold, for any number
\* of readers and any lengths of entries and blocks.
THEOREM BlocksStayExact == Spec => []BlocksExact
<1>1. CacheInv => BlocksExact
  BY DEF CacheInv
<1> QED
  BY <1>1, CacheInvHolds, PTL

\* A Get through the index answers what its key held between call and return.
THEOREM GetsAreCurrent == Spec => GetsCurrent
<1>1. CacheInv /\ [Next]_vars =>
        [\A r \in Readers :
           /\ reader[r].pc \in {"lock", "locked", "file"} /\ reader'[r].pc = "idle"
           /\ quiet
           => reader'[r].out \in seen[r]]_vars
  BY NextStep DEF Current
<1> QED
  BY <1>1, CacheInvHolds, PTL DEF Spec, GetsCurrent
===========================================================================
