-------------------------- MODULE CaddyAdminProofs --------------------------
(***************************************************************************)
(* Theorems about CaddyAdmin, for any number of concurrent calls, hosts,   *)
(* upstreams and restarts.  What the writes do to an array of routes comes *)
(* first, then the calls.                                                  *)
(***************************************************************************)
EXTENDS CaddyAdmin, FiniteSetTheorems, SequenceTheorems, WellFoundedInduction, TLAPS

\* A host's route has an upstream, and the catch-all comes after the routes of the hosts.
Sound(arr) ==
  /\ arr \in Seq(Slots)
  /\ \A n \in 1 .. Len(arr) : arr[n].id \in AllHosts => arr[n].up \in Upstreams
  /\ \A m, n \in 1 .. Len(arr) : arr[m].id = Ended /\ arr[n].id \in AllHosts => n < m

\* A host's route: the first entry with its id, if there is one.
First(arr, h) == {n \in At(arr, h) : \A m \in At(arr, h) : n <= m}
Routes(arr, h) == {arr[n] : n \in First(arr, h)}

\* The routes of the hosts other than i are the same in both arrays.
SameBut(i, arr, w) == \A h \in AllHosts \ {i} : Routes(w, h) = Routes(arr, h)

-----------------------------------------------------------------------------

\* A nonempty set of naturals has a least element.
LEMMA LeastNat ==
  ASSUME NEW T \in SUBSET Nat, T # {}
  PROVE  \E n \in T : \A m \in T : n <= m
<1>. DEFINE R == {ss \in Nat \X Nat : ss[1] < ss[2]}
<1>1. IsWellFoundedOn(R, Nat)
  BY NatLessThanWellFounded, Zenon DEF OpToRel
<1>2. \A x, y \in T : ~ (<<y, x>> \in R) => x <= y
  OBVIOUS
<1>. HIDE DEF R
<1>3. \E x \in T : \A y \in T : ~ (<<y, x>> \in R)
  BY <1>1, WFMin
<1>. QED
  BY <1>2, <1>3

\* The places of an id in an array.
LEMMA Places ==
  ASSUME NEW arr \in Seq(Slots), NEW i
  PROVE  /\ Len(arr) \in Nat
         /\ At(arr, i) = {n \in 1 .. Len(arr) : arr[n].id = i}
         /\ \A n \in 1 .. Len(arr) : /\ arr[n] \in Slots
                                     /\ arr[n].id \in Ids \cup {None}
                                     /\ arr[n].up \in Upstreams \cup {None}
<1>1. Len(arr) \in Nat /\ DOMAIN arr = 1 .. Len(arr)
  BY LenProperties
<1>2. \A n \in 1 .. Len(arr) : arr[n] \in Slots
  BY ElementOfSeq
<1>3. \A e \in Slots : e.id \in Ids \cup {None} /\ e.up \in Upstreams \cup {None}
  BY DEF Slots
<1>. QED
  BY <1>1, <1>2, <1>3 DEF At

\* A host has a route if its id is there; where no id is twice, that is the route.
LEMMA FirstRoute ==
  ASSUME NEW arr \in Seq(Slots), NEW h
  PROVE  /\ Routes(arr, h) = {} <=> At(arr, h) = {}
         /\ Unique(arr) /\ h # None => \A n \in At(arr, h) : First(arr, h) = {n}
<1>1. /\ At(arr, h) = {n \in 1 .. Len(arr) : arr[n].id = h}
      /\ Len(arr) \in Nat /\ DOMAIN arr = 1 .. Len(arr)
  BY Places, LenProperties
<1>2. At(arr, h) # {} => First(arr, h) # {}
  <2>1. At(arr, h) \in SUBSET Nat
    BY <1>1
  <2>. QED
    BY <2>1, LeastNat DEF First
<1>3. At(arr, h) = {} => Routes(arr, h) = {}
  BY DEF Routes, First
<1>4. ASSUME Unique(arr), h # None, NEW n \in At(arr, h) PROVE First(arr, h) = {n}
  <2>1. \A m \in At(arr, h) : m = n
    BY <1>1, <1>4 DEF Unique
  <2>2. n <= n
    BY <1>1
  <2>. QED
    BY <2>1, <2>2 DEF First
<1>5. First(arr, h) # {} => Routes(arr, h) # {}
  BY DEF Routes
<1>. QED
  BY <1>2, <1>3, <1>4, <1>5

\* Some entries of a sound array, in their order, are a sound array ...
LEMMA Subarray ==
  ASSUME NEW arr, Sound(arr), NEW w \in Seq(Slots), NEW f \in [1 .. Len(w) -> 1 .. Len(arr)],
         \A k \in 1 .. Len(w) : w[k] = arr[f[k]],
         \A k, j \in 1 .. Len(w) : k < j => f[k] < f[j]
  PROVE  Sound(w) /\ (Unique(arr) => Unique(w))
<1>1. Len(w) \in Nat /\ Len(arr) \in Nat
  BY Places DEF Sound
<1>2. \A k, j \in 1 .. Len(w) : f[k] = f[j] => k = j
  BY <1>1
<1>3. \A k, j \in 1 .. Len(w) : f[k] < f[j] => k < j
  BY <1>1
<1>4. \A k \in 1 .. Len(w) : f[k] \in 1 .. Len(arr)
  OBVIOUS
<1>5. \A n \in 1 .. Len(w) : w[n].id \in AllHosts => w[n].up \in Upstreams
  BY <1>4 DEF Sound
<1>6. ASSUME Unique(arr) PROVE Unique(w)
  <2>1. DOMAIN arr = 1 .. Len(arr) /\ DOMAIN w = 1 .. Len(w)
    BY LenProperties DEF Sound
  <2>. QED
    BY <1>2, <1>4, <1>6, <2>1 DEF Unique
<1>7. \A m, n \in 1 .. Len(w) : w[m].id = Ended /\ w[n].id \in AllHosts => n < m
  BY <1>3, <1>4 DEF Sound
<1>. QED
  BY <1>5, <1>6, <1>7 DEF Sound

\* ... and serves the hosts whose entries are among them.
LEMMA SubarraySame ==
  ASSUME NEW arr \in Seq(Slots), NEW w \in Seq(Slots), NEW f \in [1 .. Len(w) -> 1 .. Len(arr)],
         \A k \in 1 .. Len(w) : w[k] = arr[f[k]],
         \A k, j \in 1 .. Len(w) : k < j => f[k] < f[j], NEW i,
         \A n \in 1 .. Len(arr) :
           arr[n].id \in AllHosts \ {i} => \E k \in 1 .. Len(w) : f[k] = n
  PROVE  SameBut(i, arr, w)
<1>. SUFFICES ASSUME NEW h \in AllHosts \ {i} PROVE Routes(w, h) = Routes(arr, h)
  BY DEF SameBut
<1>1. /\ At(arr, h) = {n \in 1 .. Len(arr) : arr[n].id = h}
      /\ At(w, h) = {n \in 1 .. Len(w) : w[n].id = h}
      /\ Len(arr) \in Nat /\ Len(w) \in Nat
  BY Places
<1>0. ASSUME NEW k \in At(w, h)
      PROVE  k \in 1 .. Len(w) /\ f[k] \in At(arr, h) /\ w[k] = arr[f[k]] /\ f[k] \in 1 .. Len(arr)
  <2>1. k \in 1 .. Len(w) /\ w[k].id = h /\ w[k] = arr[f[k]] /\ f[k] \in 1 .. Len(arr)
    BY <1>1, <1>0
  <2>. QED
    BY <1>1, <2>1
<1>4. ASSUME NEW n \in At(arr, h) PROVE \E k \in At(w, h) : f[k] = n /\ w[k] = arr[n]
  <2>1. n \in 1 .. Len(arr) /\ arr[n].id = h
    BY <1>1, <1>4
  <2>2. PICK k \in 1 .. Len(w) : f[k] = n
    BY <2>1
  <2>. QED
    BY <1>1, <2>1, <2>2
<1>2. ASSUME NEW k \in First(w, h) PROVE \E n \in First(arr, h) : arr[n] = w[k]
  <2>1. k \in At(w, h) /\ \A j \in At(w, h) : k <= j
    BY <1>2 DEF First
  <2>2. k \in 1 .. Len(w) /\ f[k] \in At(arr, h) /\ w[k] = arr[f[k]] /\ f[k] \in 1 .. Len(arr)
    BY <1>0, <2>1
  <2>3. ASSUME NEW m \in At(arr, h) PROVE f[k] <= m
    <3>1. PICK j \in At(w, h) : f[j] = m
      BY <1>4, <2>3
    <3>2. j \in 1 .. Len(w) /\ f[j] \in 1 .. Len(arr) /\ k <= j
      BY <1>0, <2>1, <3>1
    <3>3. CASE k = j
      BY <1>1, <3>1, <3>2, <3>3
    <3>4. CASE k < j
      <4>1. f[k] < f[j]
        BY <2>2, <3>2, <3>4
      <4>. QED
        BY <1>1, <2>2, <3>1, <3>2, <4>1
    <3>. QED
      BY <1>1, <2>2, <3>2, <3>3, <3>4
  <2>. QED
    BY <2>2, <2>3 DEF First
<1>3. ASSUME NEW n \in First(arr, h) PROVE \E k \in First(w, h) : arr[n] = w[k]
  <2>1. n \in At(arr, h) /\ \A m \in At(arr, h) : n <= m
    BY <1>3 DEF First
  <2>2. PICK k \in At(w, h) : f[k] = n /\ w[k] = arr[n]
    BY <1>4, <2>1
  <2>3. ASSUME NEW j \in At(w, h) PROVE k <= j
    <3>1. k \in 1 .. Len(w) /\ j \in 1 .. Len(w) /\ f[j] \in At(arr, h)
          /\ f[j] \in 1 .. Len(arr) /\ f[k] \in 1 .. Len(arr)
      BY <1>0, <2>2, <2>3
    <3>2. f[k] <= f[j]
      BY <2>1, <2>2, <3>1
    <3>3. ~(j < k)
      <4>. SUFFICES ASSUME j < k PROVE FALSE
        OBVIOUS
      <4>1. f[j] < f[k]
        BY <3>1
      <4>. QED
        BY <1>1, <3>1, <3>2, <4>1
    <3>. QED
      BY <1>1, <3>1, <3>3
  <2>. QED
    BY <2>2, <2>3 DEF First
<1>. QED
  BY <1>2, <1>3 DEF Routes

\* DELETE of a slot that shrinks the array.
LEMMA DropSound ==
  ASSUME NEW arr, Sound(arr), NEW n \in 1 .. Len(arr)
  PROVE  /\ Sound(Drop(arr, n)) /\ SameBut(arr[n].id, arr, Drop(arr, n))
         /\ Unique(arr) => Unique(Drop(arr, n))
         /\ Unique(arr) /\ arr[n].id # None => At(Drop(arr, n), arr[n].id) = {}
         /\ \A m \in 1 .. Len(arr) : m < n => m \in DOMAIN Drop(arr, n) /\ Drop(arr, n)[m] = arr[m]
<1>. DEFINE L == Len(arr)
            a == SubSeq(arr, 1, n - 1)
            b == SubSeq(arr, n + 1, L)
            w == Drop(arr, n)
<1>0. arr \in Seq(Slots) /\ L \in Nat /\ n \in 1 .. L /\ \A k \in 1 .. L : arr[k] \in Slots
  BY Places DEF Sound
<1>. HIDE DEF L
<1>1. a \in Seq(Slots) /\ Len(a) = n - 1 /\ \A k \in 1 .. n - 1 : a[k] = arr[k]
  <2>1. \A k \in 1 .. n - 1 : arr[k] \in Slots
    BY <1>0
  <2>2. /\ a \in Seq(Slots) /\ Len(a) = IF 1 <= n - 1 THEN n - 1 - 1 + 1 ELSE 0
        /\ \A k \in 1 .. n - 1 - 1 + 1 : a[k] = arr[1 + k - 1]
    BY <1>0, <2>1, SubSeqProperties
  <2>. HIDE DEF a
  <2>. QED
    BY <1>0, <2>2
<1>2. b \in Seq(Slots) /\ Len(b) = L - n /\ \A k \in 1 .. L - n : b[k] = arr[n + k]
  <2>1. \A k \in n + 1 .. L : arr[k] \in Slots
    BY <1>0
  <2>2. /\ b \in Seq(Slots) /\ Len(b) = IF n + 1 <= L THEN L - (n + 1) + 1 ELSE 0
        /\ \A k \in 1 .. L - (n + 1) + 1 : b[k] = arr[(n + 1) + k - 1]
    BY <1>0, <2>1, SubSeqProperties
  <2>3. L - (n + 1) + 1 = L - n /\ \A k \in Int : (n + 1) + k - 1 = n + k
    BY <1>0
  <2>. HIDE DEF b
  <2>. QED
    BY <1>0, <2>2, <2>3
<1>3. w = a \o b
  BY DEF Drop, L
<1>. HIDE DEF a, b, w
<1>4. /\ w \in Seq(Slots) /\ Len(w) = L - 1
      /\ \A k \in 1 .. L - 1 : w[k] = IF k < n THEN arr[k] ELSE arr[k + 1]
  <2>1. /\ w \in Seq(Slots) /\ Len(w) = Len(a) + Len(b)
        /\ \A k \in 1 .. Len(a) + Len(b) : w[k] = IF k <= Len(a) THEN a[k] ELSE b[k - Len(a)]
    BY <1>1, <1>2, <1>3, ConcatProperties
  <2>2. Len(a) + Len(b) = L - 1
    BY <1>0, <1>1, <1>2
  <2>3. ASSUME NEW k \in 1 .. L - 1 PROVE w[k] = IF k < n THEN arr[k] ELSE arr[k + 1]
    <3>1. CASE k < n
      BY <1>0, <1>1, <2>1, <2>2, <3>1
    <3>2. CASE ~(k < n)
      <4>1. k - Len(a) \in 1 .. L - n /\ n + (k - Len(a)) = k + 1 /\ ~(k <= Len(a))
        BY <1>0, <1>1, <3>2
      <4>2. w[k] = b[k - Len(a)]
        BY <2>1, <2>2, <4>1
      <4>. QED
        BY <1>2, <3>2, <4>1, <4>2
    <3>. QED
      BY <3>1, <3>2
  <2>. QED
    BY <2>1, <2>2, <2>3
<1>. DEFINE f == [k \in 1 .. Len(w) |-> IF k < n THEN k ELSE k + 1]
<1>5. \A k \in 1 .. Len(w) : f[k] = IF k < n THEN k ELSE k + 1
  OBVIOUS
<1>6. f \in [1 .. Len(w) -> 1 .. Len(arr)]
  BY <1>0, <1>4 DEF L
<1>. HIDE DEF f
<1>7. \A k \in 1 .. Len(w) : w[k] = arr[f[k]]
  BY <1>4, <1>5
<1>8. \A k, j \in 1 .. Len(w) : k < j => f[k] < f[j]
  BY <1>0, <1>4, <1>5
<1>9. Sound(w) /\ (Unique(arr) => Unique(w))
  BY <1>4, <1>6, <1>7, <1>8, Subarray
<1>10. \A m \in 1 .. Len(arr) : arr[m].id \in AllHosts \ {arr[n].id} => \E k \in 1 .. Len(w) : f[k] = m
  <2>. SUFFICES ASSUME NEW m \in 1 .. L, m # n PROVE \E k \in 1 .. Len(w) : f[k] = m
    BY DEF L
  <2>1. CASE m < n
    <3>1. m \in 1 .. Len(w)
      BY <1>0, <1>4, <2>1
    <3>2. f[m] = m
      BY <1>5, <2>1, <3>1
    <3>. QED
      BY <3>1, <3>2
  <2>2. CASE m > n
    <3>1. m - 1 \in 1 .. Len(w) /\ ~(m - 1 < n)
      BY <1>0, <1>4, <2>2
    <3>2. f[m - 1] = m
      BY <1>0, <1>5, <3>1
    <3>. QED
      BY <3>1, <3>2
  <2>. QED
    BY <1>0, <2>1, <2>2
<1>11. SameBut(arr[n].id, arr, w)
  BY <1>0, <1>4, <1>6, <1>7, <1>8, <1>10, SubarraySame
<1>12. ASSUME Unique(arr), arr[n].id # None PROVE At(w, arr[n].id) = {}
  <2>0. DOMAIN arr = 1 .. L
    BY <1>0, LenProperties DEF L
  <2>1. \A m \in 1 .. L : m # n => arr[m].id # arr[n].id
    BY <1>0, <1>12, <2>0 DEF Unique
  <2>2. \A k \in 1 .. Len(w) : f[k] \in 1 .. L /\ f[k] # n
    BY <1>0, <1>5, <1>6 DEF L
  <2>3. \A k \in 1 .. Len(w) : w[k].id # arr[n].id
    BY <1>7, <2>1, <2>2
  <2>. QED
    BY <1>4, <2>3, Places
<1>13. ASSUME NEW m \in 1 .. L, m < n PROVE m \in DOMAIN w /\ w[m] = arr[m]
  <2>1. m \in 1 .. L - 1 /\ DOMAIN w = 1 .. Len(w)
    BY <1>0, <1>4, <1>13, LenProperties
  <2>. QED
    BY <1>4, <1>13, <2>1
<1>. QED
  BY <1>9, <1>11, <1>12, <1>13 DEF w, L

\* PUT of a known id, and DELETE of a slot that leaves a null.
LEMMA ReplaceSound ==
  ASSUME NEW arr, Sound(arr), NEW n \in 1 .. Len(arr), NEW e \in Slots,
         e.id \in {arr[n].id, None}, e.id \in AllHosts => e.up \in Upstreams
  PROVE  /\ Sound([arr EXCEPT ![n] = e]) /\ SameBut(arr[n].id, arr, [arr EXCEPT ![n] = e])
         /\ Unique(arr) => Unique([arr EXCEPT ![n] = e])
<1>. DEFINE w == [arr EXCEPT ![n] = e]
<1>0. arr \in Seq(Slots) /\ Len(arr) \in Nat
  BY Places DEF Sound
<1>1. /\ w \in Seq(Slots) /\ Len(w) = Len(arr)
      /\ \A j \in 1 .. Len(arr) : w[j] = IF j = n THEN e ELSE arr[j]
  BY <1>0, ExceptSeq
<1>. HIDE DEF w
<1>2. \A j \in 1 .. Len(arr) : w[j].id = arr[j].id \/ (j = n /\ w[j].id = None)
  BY <1>1
<1>3. None \notin AllHosts /\ Ended # None
  BY CaddyAssumption DEF AllHosts
<1>4. \A j \in 1 .. Len(w) : w[j].id \in AllHosts => w[j].up \in Upstreams
  BY <1>1 DEF Sound
<1>5. ASSUME Unique(arr) PROVE Unique(w)
  <2>1. DOMAIN arr = 1 .. Len(arr) /\ DOMAIN w = 1 .. Len(w)
    BY <1>0, <1>1, LenProperties
  <2>. QED
    BY <1>1, <1>2, <1>5, <2>1 DEF Unique
<1>6. \A m, j \in 1 .. Len(w) : w[m].id = Ended /\ w[j].id \in AllHosts => j < m
  BY <1>1, <1>2, <1>3 DEF Sound
<1>7. Sound(w)
  BY <1>1, <1>4, <1>6 DEF Sound
<1>8. ASSUME NEW h \in AllHosts \ {arr[n].id} PROVE Routes(w, h) = Routes(arr, h)
  <2>1. /\ At(arr, h) = {j \in 1 .. Len(arr) : arr[j].id = h}
        /\ At(w, h) = {j \in 1 .. Len(w) : w[j].id = h}
    BY <1>0, <1>1, Places
  <2>2. At(w, h) = At(arr, h) /\ \A j \in At(arr, h) : w[j] = arr[j]
    BY <1>1, <1>2, <1>3, <2>1
  <2>. QED
    BY <2>2 DEF Routes, First
<1>. QED
  BY <1>5, <1>7, <1>8 DEF SameBut, w

\* The null entries dropped: the others are there, in their order.
LEMMA CompactSound ==
  ASSUME NEW arr, Sound(arr)
  PROVE  Sound(WithoutNulls(arr)) /\ SameBut(None, arr, WithoutNulls(arr))
<1>. DEFINE kept == {n \in 1 .. Len(arr) : arr[n] # Null}
            upto(n) == {m \in kept : m <= n}
            rank == [n \in kept |-> Cardinality(upto(n))]
            N == Cardinality(kept)
            place(k) == CHOOSE n \in kept : Cardinality(upto(n)) = k
            w == [k \in 1 .. N |-> arr[place(k)]]
<1>0. /\ arr \in Seq(Slots) /\ Len(arr) \in Nat /\ DOMAIN arr = 1 .. Len(arr)
      /\ \A n \in 1 .. Len(arr) : arr[n] \in Slots
  <2>1. arr \in Seq(Slots)
    BY DEF Sound
  <2>. QED
    BY <2>1, Places, LenProperties
<1>1. WithoutNulls(arr) = w
  BY <1>0 DEF WithoutNulls
<1>2. IsFiniteSet(kept) /\ N \in Nat
  <2>1. IsFiniteSet(1 .. Len(arr)) /\ kept \in SUBSET (1 .. Len(arr))
    BY <1>0, FS_Interval
  <2>. HIDE DEF kept
  <2>. QED
    BY <2>1, FS_Subset, FS_CardinalityType
<1>3. kept \in SUBSET Nat /\ kept \in SUBSET (1 .. Len(arr))
  BY <1>0
<1>. HIDE DEF kept
<1>4. ASSUME NEW n \in kept
      PROVE  /\ IsFiniteSet(upto(n)) /\ Cardinality(upto(n)) \in Nat
             /\ Cardinality(upto(n)) \in 1 .. N
  <2>1. upto(n) \in SUBSET kept
    OBVIOUS
  <2>2. n \in upto(n)
    BY <1>3
  <2>. HIDE DEF upto
  <2>3. IsFiniteSet(upto(n)) /\ Cardinality(upto(n)) <= N
    BY <1>2, <2>1, FS_Subset
  <2>4. Cardinality(upto(n)) \in Nat
    BY <2>3, FS_CardinalityType
  <2>5. Cardinality(upto(n)) # 0
    BY <2>2, <2>3, FS_EmptySet
  <2>. QED
    BY <1>2, <2>3, <2>4, <2>5
<1>5. ASSUME NEW n \in kept, NEW m \in kept, m < n
      PROVE  Cardinality(upto(m)) < Cardinality(upto(n))
  <2>1. upto(m) \in SUBSET upto(n) /\ n \in upto(n) /\ n \notin upto(m)
    <3>1. m \in Nat /\ n \in Nat /\ \A x \in kept : x \in Nat
      BY <1>3
    <3>2. \A x \in kept : x <= m => x <= n
      BY <1>5, <3>1
    <3>3. n <= n /\ ~(n <= m)
      BY <1>5, <3>1
    <3>. QED
      BY <3>2, <3>3
  <2>2. /\ IsFiniteSet(upto(n)) /\ Cardinality(upto(n)) \in Nat
        /\ Cardinality(upto(m)) \in Nat
    BY <1>4
  <2>. HIDE DEF upto
  <2>3. /\ Cardinality(upto(m)) <= Cardinality(upto(n))
        /\ Cardinality(upto(n)) = Cardinality(upto(m)) => upto(n) = upto(m)
    BY <2>1, <2>2, FS_Subset
  <2>. QED
    BY <2>1, <2>2, <2>3
<1>6. ASSUME NEW k \in 1 .. N PROVE \E n \in kept : Cardinality(upto(n)) = k
  <2>1. rank \in [kept -> 1 .. N] /\ \A n \in kept : rank[n] = Cardinality(upto(n))
    BY <1>4
  <2>2. \A m, n \in kept : rank[m] = rank[n] => m = n
    <3>1. \A m, n \in kept : m < n => rank[m] < rank[n]
      BY <1>5, <2>1
    <3>2. \A n \in kept : rank[n] \in Int /\ n \in Nat
      BY <1>3, <2>1
    <3>. HIDE DEF rank
    <3>. QED
      BY <3>1, <3>2
  <2>. HIDE DEF rank, upto
  <2>3. rank \in Injection(kept, 1 .. N)
    BY <2>1, <2>2 DEF Injection, IsInjective
  <2>4. IsFiniteSet(1 .. N) /\ Cardinality(1 .. N) = N
    BY <1>2, FS_Interval
  <2>5. rank \in Surjection(kept, 1 .. N)
    BY <2>3, <2>4, FS_Injection
  <2>6. \E n \in kept : rank[n] = k
    BY <2>5 DEF Surjection
  <2>. QED
    BY <2>1, <2>6
<1>7. ASSUME NEW k \in 1 .. N PROVE place(k) \in kept /\ Cardinality(upto(place(k))) = k
  <2>. HIDE DEF upto
  <2>. QED
    BY <1>6
<1>. HIDE DEF place, upto
<1>8. \A k \in 1 .. N : w[k] = arr[place(k)] /\ w[k] \in Slots
  BY <1>0, <1>3, <1>7
<1>9. w \in Seq(Slots) /\ Len(w) = N
  <2>1. w \in [1 .. N -> Slots]
    BY <1>8
  <2>. HIDE DEF w
  <2>. QED
    BY <1>2, <2>1
<1>. HIDE DEF w
<1>. DEFINE f == [k \in 1 .. Len(w) |-> place(k)]
<1>10. \A k \in 1 .. Len(w) : f[k] = place(k)
  OBVIOUS
<1>11. f \in [1 .. Len(w) -> 1 .. Len(arr)]
  BY <1>3, <1>7, <1>9
<1>. HIDE DEF f
<1>12. \A k \in 1 .. Len(w) : w[k] = arr[f[k]]
  BY <1>8, <1>9, <1>10
<1>13. ASSUME NEW k \in 1 .. N, NEW j \in 1 .. N, k < j PROVE place(k) < place(j)
  <2>1. /\ place(k) \in Nat /\ place(j) \in Nat /\ place(k) \in kept /\ place(j) \in kept
        /\ Cardinality(upto(place(k))) = k /\ Cardinality(upto(place(j))) = j
    BY <1>3, <1>7
  <2>2. CASE place(j) < place(k)
    <3>1. j < k
      BY <1>5, <2>1, <2>2
    <3>. QED
      BY <1>2, <1>13, <3>1
  <2>3. CASE place(j) = place(k)
    BY <1>2, <1>13, <2>1, <2>3
  <2>. QED
    BY <2>1, <2>2, <2>3
<1>14. \A k, j \in 1 .. Len(w) : k < j => f[k] < f[j]
  BY <1>9, <1>10, <1>13
<1>15. Sound(w)
  BY <1>9, <1>11, <1>12, <1>14, Subarray
<1>16. \A n \in 1 .. Len(arr) : arr[n].id \in AllHosts \ {None} => \E k \in 1 .. Len(w) : f[k] = n
  <2>. SUFFICES ASSUME NEW n \in 1 .. Len(arr), arr[n].id \in AllHosts \ {None}
                PROVE  \E k \in 1 .. Len(w) : f[k] = n
    OBVIOUS
  <2>1. n \in kept
    BY DEF kept, Null, Entry
  <2>. DEFINE k == Cardinality(upto(n))
  <2>2. k \in 1 .. N
    BY <1>4, <2>1
  <2>3. place(k) \in kept /\ Cardinality(upto(place(k))) = k
    BY <1>7, <2>2
  <2>4. place(k) = n
    <3>1. place(k) \in Nat /\ n \in Nat /\ k \in Nat
      BY <1>3, <1>4, <2>1, <2>3
    <3>2. ~(place(k) < n) /\ ~(n < place(k))
      BY <1>5, <2>1, <2>3, <3>1
    <3>. HIDE DEF k
    <3>. QED
      BY <3>1, <3>2
  <2>. QED
    BY <1>9, <1>10, <2>2, <2>4
<1>17. SameBut(None, arr, w)
  BY <1>0, <1>9, <1>11, <1>12, <1>14, <1>16, SubarraySame
<1>. QED
  BY <1>1, <1>15, <1>17

\* An array of one entry.
LEMMA SingleSound ==
  ASSUME NEW e \in Slots, e.id \in AllHosts => e.up \in Upstreams
  PROVE  Sound(<<e>>)
<1>1. <<e>> \in Seq(Slots) /\ Len(<<e>>) = 1 /\ <<e>>[1] = e
  OBVIOUS
<1>2. Ended \notin AllHosts
  BY CaddyAssumption DEF AllHosts
<1>. QED
  BY <1>1, <1>2 DEF Sound

\* A host's route goes first.
LEMMA PrependSound ==
  ASSUME NEW arr, Sound(arr), NEW e \in Slots, e.id \in AllHosts, e.up \in Upstreams
  PROVE  Sound(<<e>> \o arr) /\ SameBut(e.id, arr, <<e>> \o arr)
<1>. DEFINE w == <<e>> \o arr
<1>0. /\ arr \in Seq(Slots) /\ Len(arr) \in Nat
      /\ \A i : At(arr, i) = {n \in 1 .. Len(arr) : arr[n].id = i}
  BY Places DEF Sound
<1>1. <<e>> \in Seq(Slots) /\ Len(<<e>>) = 1 /\ <<e>>[1] = e
  OBVIOUS
<1>2. /\ w \in Seq(Slots) /\ Len(w) = Len(arr) + 1 /\ w[1] = e
      /\ \A n \in 2 .. Len(arr) + 1 : w[n] = arr[n - 1]
  <2>1. /\ w \in Seq(Slots) /\ Len(w) = 1 + Len(arr)
        /\ \A i \in 1 .. 1 + Len(arr) : w[i] = IF i <= 1 THEN <<e>>[i] ELSE arr[i - 1]
    BY <1>0, <1>1, ConcatProperties
  <2>. HIDE DEF w
  <2>. QED
    BY <1>0, <1>1, <2>1
<1>. HIDE DEF w
<1>4. \A n \in 1 .. Len(w) : n = 1 \/ (n - 1 \in 1 .. Len(arr) /\ w[n] = arr[n - 1] /\ n > 1)
  BY <1>0, <1>2
<1>5. Ended \notin AllHosts /\ None \notin AllHosts
  BY CaddyAssumption DEF AllHosts
<1>6. \A n \in 1 .. Len(w) : w[n].id \in AllHosts => w[n].up \in Upstreams
  BY <1>2, <1>4 DEF Sound
<1>8. ASSUME NEW m \in 1 .. Len(w), NEW n \in 1 .. Len(w), w[m].id = Ended, w[n].id \in AllHosts
      PROVE  n < m
  <2>1. m # 1
    BY <1>2, <1>5, <1>8
  <2>2. m - 1 \in 1 .. Len(arr) /\ arr[m - 1].id = Ended /\ m > 1
    BY <1>4, <1>8, <2>1
  <2>3. CASE n = 1
    BY <2>2, <2>3
  <2>4. CASE n # 1
    <3>1. n - 1 \in 1 .. Len(arr) /\ arr[n - 1].id \in AllHosts
      BY <1>4, <1>8, <2>4
    <3>2. n - 1 < m - 1
      BY <2>2, <3>1 DEF Sound
    <3>. QED
      BY <1>0, <1>2, <3>2
  <2>. QED
    BY <2>3, <2>4
<1>9. Sound(w)
  BY <1>2, <1>6, <1>8 DEF Sound
<1>10. ASSUME NEW h \in AllHosts \ {e.id} PROVE Routes(w, h) = Routes(arr, h)
  <2>1. At(w, h) = {n \in 1 .. Len(w) : w[n].id = h} /\ At(arr, h) = {n \in 1 .. Len(arr) : arr[n].id = h}
    BY <1>0, <1>2, Places
  <2>2. ASSUME NEW n \in At(w, h)
        PROVE  n \in Int /\ n - 1 \in At(arr, h) /\ arr[n - 1] = w[n]
    BY <1>0, <1>2, <1>4, <2>1
  <2>3. ASSUME NEW m \in At(arr, h)
        PROVE  m \in Int /\ m + 1 \in At(w, h) /\ arr[m] = w[m + 1]
    <3>1. m \in 1 .. Len(arr) /\ arr[m].id = h
      BY <2>1
    <3>2. m + 1 \in 2 .. Len(arr) + 1 /\ m + 1 \in 1 .. Len(w) /\ (m + 1) - 1 = m
      BY <1>0, <1>2, <3>1
    <3>3. w[m + 1] = arr[m]
      BY <1>2, <3>2
    <3>. QED
      BY <2>1, <3>1, <3>2, <3>3
  <2>4. ASSUME NEW n \in First(w, h) PROVE n - 1 \in First(arr, h) /\ arr[n - 1] = w[n]
    <3>1. n \in At(w, h) /\ \A m \in At(w, h) : n <= m
      BY <2>4 DEF First
    <3>2. \A m \in At(arr, h) : n - 1 <= m
      <4>1. \A m \in At(arr, h) : m \in Int /\ n <= m + 1
        BY <2>3, <3>1
      <4>2. n \in Int
        BY <2>2, <3>1
      <4>. QED
        BY <4>1, <4>2
    <3>. QED
      BY <2>2, <3>1, <3>2 DEF First
  <2>5. ASSUME NEW m \in First(arr, h) PROVE m + 1 \in First(w, h) /\ arr[m] = w[m + 1]
    <3>1. m \in At(arr, h) /\ \A n \in At(arr, h) : m <= n
      BY <2>5 DEF First
    <3>2. \A n \in At(w, h) : m + 1 <= n
      <4>1. \A n \in At(w, h) : n \in Int /\ m <= n - 1
        BY <2>2, <3>1
      <4>2. m \in Int
        BY <2>3, <3>1
      <4>. QED
        BY <4>1, <4>2
    <3>. QED
      BY <2>3, <3>1, <3>2 DEF First
  <2>. QED
    BY <2>4, <2>5 DEF Routes
<1>. QED
  BY <1>9, <1>10 DEF SameBut, w

\* The catch-all goes last.
LEMMA AppendSound ==
  ASSUME NEW arr, Sound(arr), NEW e \in Slots, e.id = Ended
  PROVE  Sound(Append(arr, e)) /\ SameBut(Ended, arr, Append(arr, e))
<1>. DEFINE w == Append(arr, e)
<1>0. /\ arr \in Seq(Slots) /\ Len(arr) \in Nat
      /\ \A i : At(arr, i) = {n \in 1 .. Len(arr) : arr[n].id = i}
  BY Places DEF Sound
<1>1. /\ w \in Seq(Slots) /\ Len(w) = Len(arr) + 1 /\ w[Len(arr) + 1] = e
      /\ \A n \in 1 .. Len(arr) : w[n] = arr[n]
  BY <1>0, AppendProperties
<1>. HIDE DEF w
<1>2. \A n \in 1 .. Len(w) : n = Len(arr) + 1 \/ (n \in 1 .. Len(arr) /\ w[n] = arr[n])
  BY <1>0, <1>1
<1>3. Ended \notin AllHosts
  BY CaddyAssumption DEF AllHosts
<1>4. \A n \in 1 .. Len(w) : w[n].id \in AllHosts => w[n].up \in Upstreams
  BY <1>1, <1>2, <1>3 DEF Sound
<1>6. \A m, n \in 1 .. Len(w) : w[m].id = Ended /\ w[n].id \in AllHosts => n < m
  BY <1>0, <1>1, <1>2, <1>3 DEF Sound
<1>7. Sound(w)
  BY <1>1, <1>4, <1>6 DEF Sound
<1>8. ASSUME NEW h \in AllHosts \ {Ended} PROVE Routes(w, h) = Routes(arr, h)
  <2>1. At(w, h) = {n \in 1 .. Len(w) : w[n].id = h} /\ At(arr, h) = {n \in 1 .. Len(arr) : arr[n].id = h}
    BY <1>0, <1>1, Places
  <2>2. At(w, h) = At(arr, h) /\ \A n \in At(arr, h) : w[n] = arr[n]
    BY <1>0, <1>1, <1>2, <1>3, <2>1
  <2>. QED
    BY <2>2 DEF Routes, First
<1>. QED
  BY <1>7, <1>8 DEF SameBut, w

\* What a sound array serves is the upstream of the host's route, if it has one.
LEMMA ServedRoute ==
  ASSUME Sound(routes), NEW h \in AllHosts
  PROVE  /\ Routes(routes, h) = {} => Served(h) = None
         /\ \A r \in Routes(routes, h) : Served(h) = r.up
         /\ Served(h) # None <=> Routes(routes, h) # {}
         /\ Served(h) \in Upstreams \cup {None}
<1>. DEFINE match == At(routes, h) \cup At(routes, Ended)
            first == CHOOSE n \in match : \A m \in match : n <= m
<1>0. /\ Len(routes) \in Nat
      /\ \A i : At(routes, i) = {n \in 1 .. Len(routes) : routes[n].id = i}
  BY Places DEF Sound
<1>1. Served(h) = IF match = {} \/ routes[first].id = Ended THEN None ELSE routes[first].up
  BY DEF Served
<1>2. match # {} => first \in match /\ \A m \in match : first <= m
  <2>1. match \in SUBSET Nat
    BY <1>0
  <2>. HIDE DEF match
  <2>2. match # {} => \E n \in match : \A m \in match : n <= m
    BY <2>1, LeastNat
  <2>. QED
    BY <2>2
<1>. HIDE DEF first
<1>3. Ended \notin AllHosts /\ None \notin AllHosts /\ None \notin Upstreams
  BY CaddyAssumption DEF AllHosts
<1>4. CASE At(routes, h) = {}
  <2>1. Routes(routes, h) = {}
    BY <1>4 DEF Routes, First
  <2>2. match # {} => routes[first].id = Ended
    BY <1>0, <1>2, <1>4
  <2>3. Served(h) = None
    BY <1>1, <2>2
  <2>. QED
    BY <2>1, <2>3
<1>5. ASSUME NEW n \in First(routes, h) PROVE Served(h) = routes[n].up /\ routes[n].up \in Upstreams
  <2>0. n \in At(routes, h) /\ \A m \in At(routes, h) : n <= m
    BY <1>5 DEF First
  <2>1. n \in 1 .. Len(routes) /\ routes[n].id = h
    BY <1>0, <2>0
  <2>2. first \in match /\ first <= n /\ first \in 1 .. Len(routes)
    BY <1>0, <1>2, <2>0
  <2>3. routes[first].id # Ended
    <3>. SUFFICES ASSUME routes[first].id = Ended PROVE FALSE
      OBVIOUS
    <3>1. n < first
      BY <2>1, <2>2 DEF Sound
    <3>. QED
      BY <1>0, <2>1, <2>2, <3>1
  <2>4. routes[first].id = h
    BY <1>0, <2>2, <2>3
  <2>5. first = n
    <3>1. first \in At(routes, h)
      BY <1>0, <2>2, <2>4
    <3>2. n <= first
      BY <2>0, <3>1
    <3>. QED
      BY <1>0, <2>1, <2>2, <3>2
  <2>. QED
    BY <1>1, <2>0, <2>1, <2>3, <2>5 DEF Sound
<1>. HIDE DEF match
<1>6. CASE At(routes, h) # {}
  <2>1. Routes(routes, h) # {}
    BY <1>6, FirstRoute DEF Sound
  <2>2. \A r \in Routes(routes, h) : Served(h) = r.up /\ r.up \in Upstreams
    BY <1>5 DEF Routes
  <2>. QED
    BY <1>3, <2>1, <2>2
<1>. QED
  BY <1>4, <1>6

-----------------------------------------------------------------------------
(* The calls.                                                              *)

\* The types of what is not an array in Caddy.
Typed ==
  /\ exists \in BOOLEAN
  /\ exists = TRUE \/ routes = <<>>
  /\ cache \subseteq AllHosts
  /\ phase \in {"edge", "tail", "serving"}
  /\ pc \in [Procs -> {"idle"} \cup Steps]
  /\ op \in [Procs -> {"none", "add", "tail", "remove"}]
  /\ id \in [Procs -> Ids \cup {None}]
  /\ up \in [Procs -> Upstreams \cup {None}]
  /\ snap \in [Procs -> Seq(Slots)]
  /\ restarts \in 0 .. MaxRestarts
  /\ settled \subseteq AllHosts
  /\ alone \subseteq Procs

\* A call at step s: what it is for, and the array a that it read.
CallOk(s, o, i, u, a) ==
  /\ s = "idle" <=> o = "none"
  /\ s = "idle" => i = None
  /\ o = "add" => i \in AllHosts /\ u \in Upstreams
  /\ o = "tail" => i = Ended
  /\ o = "remove" => i \in AllHosts /\ u = None
  /\ s \in {"put", "reput", "sweep", "sweepdel", "create"} => o \in {"add", "tail"}
  /\ s \in {"patch", "verify"} => o = "add"
  /\ s = "append" => o = "tail"
  /\ s \in {"delete", "probe", "delindex"} => o = "remove"
  /\ s = "create" => a = <<>>
  /\ Sound(a)

CallInv == \A p \in Procs : CallOk(pc[p], op[p], id[p], up[p], snap[p])

IInv == Typed /\ CallInv /\ Sound(routes)

\* The array of a call that has read none.
LEMMA EmptySound == Sound(<<>>)
<1>1. <<>> \in Seq(Slots) /\ Len(<<>>) = 0
  BY EmptySeq
<1>. QED
  BY <1>1 DEF Sound

\* The initial state.
LEMMA InitIInv == Init => IInv
<1>. SUFFICES ASSUME Init PROVE IInv
  OBVIOUS
<1>1. <<>> \in Seq(Slots)
  BY EmptySeq
<1>2. Typed
  BY <1>1, CaddyAssumption DEF Init, Typed
<1>3. CallInv
  BY EmptySound DEF Init, CallInv, CallOk
<1>4. Sound(routes)
  <2>1. /\ routes \in Seq(Slots)
        /\ \A n \in DOMAIN routes : routes[n].id \in AllHosts => routes[n].up \in Upstreams
        /\ \A m, n \in DOMAIN routes : routes[m].id = Ended /\ routes[n].id \in AllHosts => n < m
    BY LeftoversAssumption DEF Init
  <2>2. DOMAIN routes = 1 .. Len(routes)
    BY <2>1, LenProperties
  <2>. QED
    BY <2>1, <2>2 DEF Sound
<1>. QED
  BY <1>2, <1>3, <1>4 DEF IInv

\* A call's own route.
LEMMA BodySlot ==
  ASSUME IInv, NEW p \in Procs
  PROVE  /\ body(p) \in Slots /\ body(p).id = id[p] /\ body(p).up = up[p]
         /\ Null \in Slots /\ Null.id = None
BY DEF IInv, Typed, body, Entry, Null, Slots

\* A write that Caddy accepts leaves a sound array, in which only the call's own host
\* is served differently, unless it rests on an array that is no longer Caddy's.
LEMMA WriteSound ==
  ASSUME IInv, NEW p \in Procs, Write(p)
  PROVE  /\ Sound(routes') /\ exists' = TRUE
         /\ Fresh(p) => SameBut(id[p], routes, routes')
         /\ Unique(routes) => Unique(routes')
         /\ pc[p] \in {"put", "reput", "patch", "append", "create"} => Unique(routes')
<1>0. CallOk(pc[p], op[p], id[p], up[p], snap[p]) /\ Sound(routes) /\ Sound(snap[p])
  BY DEF IInv, CallInv, CallOk
<1>1. routes \in Seq(Slots) /\ snap[p] \in Seq(Slots)
  BY <1>0 DEF Sound
<1>2. /\ \A i : At(routes, i) = {n \in 1 .. Len(routes) : routes[n].id = i}
      /\ \A i : At(snap[p], i) = {n \in 1 .. Len(snap[p]) : snap[p][n].id = i}
      /\ DOMAIN routes = 1 .. Len(routes)
  BY <1>1, Places, LenProperties
<1>3. /\ body(p) \in Slots /\ body(p).id = id[p] /\ body(p).up = up[p]
      /\ Null \in Slots /\ Null.id = None
  BY BodySlot
<1>4. Ended \notin AllHosts /\ None \notin AllHosts
  BY CaddyAssumption DEF AllHosts
<1>5. CASE pc[p] \in {"put", "reput"} /\ \E n \in At(routes, id[p]) : Accept([routes EXCEPT ![n] = body(p)])
  <2>1. PICK n \in At(routes, id[p]) : Accept([routes EXCEPT ![n] = body(p)])
    BY <1>5
  <2>2. n \in 1 .. Len(routes) /\ routes[n].id = id[p]
    BY <1>2
  <2>3. op[p] \in {"add", "tail"}
    BY <1>0, <1>5 DEF CallOk
  <2>4. body(p).id \in AllHosts => body(p).up \in Upstreams
    BY <1>0, <1>3, <1>4, <2>3 DEF CallOk
  <2>5. /\ Sound([routes EXCEPT ![n] = body(p)])
        /\ SameBut(routes[n].id, routes, [routes EXCEPT ![n] = body(p)])
    BY <1>0, <1>3, <2>2, <2>4, ReplaceSound
  <2>. QED
    BY <2>1, <2>2, <2>5 DEF Accept, Become
<1>6. CASE pc[p] = "patch" /\ Accept(PrependToArray(p))
  <2>. DEFINE w == WithoutNulls(snap[p])
  <2>1. Sound(w) /\ SameBut(None, snap[p], w)
    BY <1>0, CompactSound
  <2>2. id[p] \in AllHosts /\ up[p] \in Upstreams
    BY <1>0, <1>6 DEF CallOk
  <2>3. routes' = <<body(p)>> \o w /\ exists' = TRUE /\ Unique(routes')
    BY <1>6 DEF PrependToArray, Accept, Become
  <2>. HIDE DEF w
  <2>5. Sound(<<body(p)>> \o w) /\ SameBut(id[p], w, <<body(p)>> \o w)
    BY <1>3, <2>1, <2>2, PrependSound
  <2>6. ASSUME snap[p] = routes PROVE SameBut(id[p], routes, routes')
    <3>. SUFFICES ASSUME NEW h \in AllHosts \ {id[p]} PROVE Routes(routes', h) = Routes(routes, h)
      BY DEF SameBut
    <3>1. Routes(w, h) = Routes(routes, h)
      BY <1>4, <2>1, <2>6 DEF SameBut
    <3>2. Routes(<<body(p)>> \o w, h) = Routes(w, h)
      BY <2>5 DEF SameBut
    <3>. QED
      BY <2>3, <3>1, <3>2
  <2>. QED
    BY <1>6, <2>3, <2>5, <2>6 DEF Fresh
<1>7. CASE pc[p] = "append" /\ Accept(Append(routes, body(p)))
  <2>1. id[p] = Ended
    BY <1>0, <1>7 DEF CallOk
  <2>2. Sound(Append(routes, body(p))) /\ SameBut(Ended, routes, Append(routes, body(p)))
    BY <1>0, <1>3, <1>7, <2>1, AppendSound
  <2>. QED
    BY <1>7, <2>1, <2>2 DEF Accept, Become
<1>8. CASE pc[p] = "create" /\ Accept(<<body(p)>>)
  <2>1. op[p] \in {"add", "tail"} /\ snap[p] = <<>>
    BY <1>0, <1>8 DEF CallOk
  <2>2. body(p).id \in AllHosts => body(p).up \in Upstreams
    BY <1>0, <1>3, <1>4, <2>1 DEF CallOk
  <2>3. Sound(<<body(p)>>)
    BY <1>3, <2>2, SingleSound
  <2>4. ASSUME routes = <<>>, NEW h \in AllHosts \ {id[p]}
        PROVE  Routes(<<body(p)>>, h) = Routes(routes, h)
    <3>1. At(routes, h) = {}
      BY <2>4 DEF At
    <3>2. At(<<body(p)>>, h) = {}
      BY <1>3, <2>4 DEF At
    <3>. QED
      BY <3>1, <3>2 DEF Routes, First
  <2>. QED
    BY <1>8, <2>1, <2>3, <2>4 DEF Accept, Become, SameBut, Fresh
<1>9. ASSUME NEW n, DeleteAt(n)
      PROVE  Sound(routes') /\ exists' = TRUE /\ n \in 1 .. Len(routes)
             /\ SameBut(routes[n].id, routes, routes') /\ (Unique(routes) => Unique(routes'))
  <2>1. n \in 1 .. Len(routes)
    BY <1>2, <1>9 DEF DeleteAt
  <2>2. /\ Sound(Drop(routes, n)) /\ SameBut(routes[n].id, routes, Drop(routes, n))
        /\ Unique(routes) => Unique(Drop(routes, n))
    BY <1>0, <2>1, DropSound
  <2>3. /\ Sound([routes EXCEPT ![n] = Null])
        /\ SameBut(routes[n].id, routes, [routes EXCEPT ![n] = Null])
        /\ Unique(routes) => Unique([routes EXCEPT ![n] = Null])
    BY <1>0, <1>3, <1>4, <2>1, ReplaceSound
  <2>. QED
    BY <1>9, <2>1, <2>2, <2>3 DEF DeleteAt, Become
<1>10. CASE pc[p] \in {"sweepdel", "delindex"} /\ \E n \in Last(snap[p], id[p]) : DeleteAt(n)
  <2>1. PICK n \in At(snap[p], id[p]) : DeleteAt(n)
    BY <1>10 DEF Last
  <2>2. Fresh(p) => routes[n].id = id[p]
    BY <1>2, <1>10 DEF Fresh
  <2>. QED
    BY <1>9, <1>10, <2>1, <2>2 DEF Fresh
<1>11. CASE pc[p] = "delete" /\ \E n \in At(routes, id[p]) : DeleteAt(n)
  <2>1. PICK n \in At(routes, id[p]) : DeleteAt(n)
    BY <1>11
  <2>2. routes[n].id = id[p]
    BY <1>2
  <2>. QED
    BY <1>9, <1>11, <2>1, <2>2
<1>. QED
  BY <1>5, <1>6, <1>7, <1>8, <1>10, <1>11 DEF Write

\* A step of the call p: the other calls stay as they are, and Caddy's array changes by
\* the write that p is about to make, if at all.
Moves(p) ==
  /\ Write(p) \/ UNCHANGED caddy
  /\ \A q \in Procs \ {p} :
       /\ pc'[q] = pc[q] /\ op'[q] = op[q] /\ id'[q] = id[q]
       /\ up'[q] = up[q] /\ snap'[q] = snap[q]
  /\ CallOk(pc'[p], op'[p], id'[p], up'[p], snap'[p])
  /\ pc' \in [Procs -> {"idle"} \cup Steps]
  /\ op' \in [Procs -> {"none", "add", "tail", "remove"}]
  /\ id' \in [Procs -> Ids \cup {None}]
  /\ up' \in [Procs -> Upstreams \cup {None}]
  /\ snap' \in [Procs -> Seq(Slots)]
  /\ cache' \subseteq AllHosts
  /\ phase' \in {"edge", "tail", "serving"}
  /\ restarts' \in 0 .. MaxRestarts
  /\ settled' \subseteq AllHosts
  /\ alone' \subseteq Procs

\* A call begins.
LEMMA StartMoves ==
  ASSUME IInv, NEW p \in Procs, NEW what \in {"add", "tail", "remove"}, NEW i \in Ids,
         NEW u \in Upstreams \cup {None}, NEW s \in {"put", "delete"}, Start(p, what, i, u, s),
         CallOk(s, what, i, u, snap[p])
  PROVE  Moves(p)
<1>. USE DEF IInv, Typed
<1>1. s \in Steps
  BY DEF Steps
<1>2. /\ pc' = [pc EXCEPT ![p] = s] /\ op' = [op EXCEPT ![p] = what]
      /\ id' = [id EXCEPT ![p] = i] /\ up' = [up EXCEPT ![p] = u] /\ settled' = settled \ {i}
      /\ UNCHANGED caddy /\ UNCHANGED <<cache, phase, snap, restarts>> /\ alone' \subseteq Procs
  BY DEF Start
<1>3. /\ \A q \in Procs \ {p} :
           /\ pc'[q] = pc[q] /\ op'[q] = op[q] /\ id'[q] = id[q]
           /\ up'[q] = up[q] /\ snap'[q] = snap[q]
      /\ pc'[p] = s /\ op'[p] = what /\ id'[p] = i /\ up'[p] = u /\ snap'[p] = snap[p]
  BY <1>2
<1>4. CallOk(pc'[p], op'[p], id'[p], up'[p], snap'[p])
  BY <1>3
<1>5. pc' \in [Procs -> {"idle"} \cup Steps] /\ op' \in [Procs -> {"none", "add", "tail", "remove"}]
  BY <1>1, <1>2
<1>6. id' \in [Procs -> Ids \cup {None}] /\ up' \in [Procs -> Upstreams \cup {None}]
  BY <1>2
<1>. QED
  BY <1>2, <1>3, <1>4, <1>5, <1>6 DEF Moves

\* A call goes on to the step s, with the array a.
LEMMA GotoMoves ==
  ASSUME IInv, NEW p \in Procs, NEW s \in Steps, NEW a, Goto(p, s), snap' = [snap EXCEPT ![p] = a],
         CallOk(s, op[p], id[p], up[p], a), cache' \subseteq AllHosts, Write(p) \/ UNCHANGED caddy
  PROVE  Moves(p)
<1>. USE DEF IInv, Typed
<1>1. pc' = [pc EXCEPT ![p] = s] /\ UNCHANGED <<op, id, up, phase, restarts, settled, alone>>
  BY DEF Goto
<1>2. a \in Seq(Slots)
  BY DEF CallOk, Sound
<1>3. /\ \A q \in Procs \ {p} :
           /\ pc'[q] = pc[q] /\ op'[q] = op[q] /\ id'[q] = id[q]
           /\ up'[q] = up[q] /\ snap'[q] = snap[q]
      /\ pc'[p] = s /\ op'[p] = op[p] /\ id'[p] = id[p] /\ up'[p] = up[p] /\ snap'[p] = a
  BY <1>1
<1>4. CallOk(pc'[p], op'[p], id'[p], up'[p], snap'[p])
  BY <1>3
<1>5. pc' \in [Procs -> {"idle"} \cup Steps] /\ snap' \in [Procs -> Seq(Slots)]
  BY <1>1, <1>2
<1>. QED
  BY <1>1, <1>3, <1>4, <1>5 DEF Moves

\* A call ends.
LEMMA EndMoves ==
  ASSUME IInv, NEW p \in Procs, NEW how, pc[p] # "idle", End(p, how),
         cache' \subseteq AllHosts, Write(p) \/ UNCHANGED caddy
  PROVE  Moves(p)
<1>. USE DEF IInv, Typed
<1>1. /\ pc' = [pc EXCEPT ![p] = "idle"] /\ op' = [op EXCEPT ![p] = "none"]
      /\ id' = [id EXCEPT ![p] = None] /\ up' = [up EXCEPT ![p] = None]
      /\ snap' = [snap EXCEPT ![p] = <<>>] /\ restarts' = restarts /\ alone' = alone \ {p}
  BY DEF End
<1>2. <<>> \in Seq(Slots)
  BY EmptySeq
<1>3. /\ \A q \in Procs \ {p} :
           /\ pc'[q] = pc[q] /\ op'[q] = op[q] /\ id'[q] = id[q]
           /\ up'[q] = up[q] /\ snap'[q] = snap[q]
      /\ pc'[p] = "idle" /\ op'[p] = "none" /\ id'[p] = None /\ up'[p] = None /\ snap'[p] = <<>>
  BY <1>1
<1>4. CallOk(pc'[p], op'[p], id'[p], up'[p], snap'[p])
  BY <1>3, EmptySound DEF CallOk
<1>5. /\ pc' \in [Procs -> {"idle"} \cup Steps] /\ op' \in [Procs -> {"none", "add", "tail", "remove"}]
      /\ id' \in [Procs -> Ids \cup {None}] /\ up' \in [Procs -> Upstreams \cup {None}]
  BY <1>1
<1>6. snap' \in [Procs -> Seq(Slots)]
  BY <1>1, <1>2
<1>7. phase' \in {"edge", "tail", "serving"}
  BY DEF End
<1>8. settled' \subseteq AllHosts
  <2>1. op[p] # "tail" => id[p] \in AllHosts
    BY DEF CallInv, CallOk
  <2>. QED
    BY <2>1 DEF End
<1>. QED
  BY <1>1, <1>3, <1>4, <1>5, <1>6, <1>7, <1>8 DEF Moves

\* The route is in.
LEMMA InstalledMoves ==
  ASSUME IInv, NEW p \in Procs, pc[p] \in {"put", "reput", "patch", "append", "create"},
         Write(p), Installed(p)
  PROVE  Moves(p)
<1>0. /\ CallOk(pc[p], op[p], id[p], up[p], snap[p]) /\ cache \subseteq AllHosts
      /\ snap \in [Procs -> Seq(Slots)]
  BY DEF IInv, Typed, CallInv
<1>1. CASE op[p] = "add" /\ Goto(p, "verify") /\ cache' = cache \cup {id[p]} /\ UNCHANGED snap
  <2>1. id[p] \in AllHosts /\ CallOk("verify", op[p], id[p], up[p], snap[p])
    BY <1>0, <1>1 DEF CallOk
  <2>2. snap' = [snap EXCEPT ![p] = snap[p]]
    BY <1>0, <1>1
  <2>3. "verify" \in Steps /\ cache' \subseteq AllHosts
    BY <1>0, <1>1, <2>1 DEF Steps
  <2>. QED
    BY <1>1, <2>1, <2>2, <2>3, GotoMoves
<1>2. CASE End(p, "ok") /\ UNCHANGED cache
  BY <1>0, <1>2, EndMoves
<1>. QED
  BY <1>1, <1>2 DEF Installed

\* Every step but a restart is one call's.
LEMMA StepMoves ==
  ASSUME IInv, Next
  PROVE  Restart \/ \E p \in Procs : Moves(p)
<1>0. ASSUME NEW p \in Procs
      PROVE  /\ CallOk(pc[p], op[p], id[p], up[p], snap[p]) /\ Sound(snap[p])
             /\ snap = [snap EXCEPT ![p] = snap[p]]
  BY DEF IInv, Typed, CallInv, CallOk
<1>t. cache \subseteq AllHosts /\ Sound(routes) /\ (exists = FALSE => routes = <<>>)
  BY DEF IInv, Typed
<1>s. /\ AllHosts \subseteq Ids /\ Hosts \subseteq AllHosts /\ Edge \in AllHosts /\ Ended \in Ids
  BY DEF AllHosts, Ids
<1>1. ASSUME NEW p \in Procs, NEW h \in Hosts, NEW u \in Upstreams, AddRoute(p, h, u)
      PROVE  Moves(p)
  <2>1. CallOk("put", "add", h, u, snap[p])
    BY <1>0, <1>s DEF CallOk
  <2>. QED
    BY <1>1, <1>s, <2>1, StartMoves DEF AddRoute
<1>2. ASSUME NEW p \in Procs, NEW h \in Hosts, RemoveRoute(p, h)
      PROVE  Moves(p)
  <2>1. CallOk("delete", "remove", h, None, snap[p])
    BY <1>0, <1>s DEF CallOk
  <2>. QED
    BY <1>2, <1>s, <2>1, StartMoves DEF RemoveRoute
<1>3. ASSUME NEW p \in Procs, NEW u \in Upstreams, EnsureEdgeAdminRoute(p, u)
      PROVE  Moves(p)
  <2>1. CallOk("put", "add", Edge, u, snap[p])
    BY <1>0, <1>s DEF CallOk
  <2>. QED
    BY <1>3, <1>s, <2>1, StartMoves DEF EnsureEdgeAdminRoute
<1>4. ASSUME NEW p \in Procs, EnsureSessionEndedFallback(p)
      PROVE  Moves(p)
  <2>1. CallOk("put", "tail", Ended, None, snap[p])
    BY <1>0 DEF CallOk
  <2>. QED
    BY <1>4, <1>s, <2>1, StartMoves DEF EnsureSessionEndedFallback
<1>5. ASSUME NEW p \in Procs, NEW s \in Steps, Advance(p, s), UNCHANGED caddy,
             CallOk(s, op[p], id[p], up[p], snap[p])
      PROVE  Moves(p)
  <2>1. snap' = [snap EXCEPT ![p] = snap[p]] /\ cache' \subseteq AllHosts /\ Goto(p, s)
    BY <1>0, <1>5, <1>t DEF Advance
  <2>. QED
    BY <1>5, <2>1, GotoMoves
<1>6. ASSUME NEW p \in Procs, Put(p) PROVE Moves(p)
  <2>1. CASE Write(p) /\ Installed(p)
    BY <1>6, <2>1, InstalledMoves DEF Put
  <2>2. CASE UNCHANGED caddy /\ Advance(p, "fetch")
    <3>1. CallOk("fetch", op[p], id[p], up[p], snap[p]) /\ "fetch" \in Steps
      BY <1>0, <1>6 DEF Put, CallOk, Steps
    <3>. QED
      BY <1>5, <2>2, <3>1
  <2>. QED
    BY <1>6, <2>1, <2>2 DEF Put
<1>7. ASSUME NEW p \in Procs, PutDuplicate(p) PROVE Moves(p)
  <2>1. CallOk("sweep", op[p], id[p], up[p], snap[p]) /\ "sweep" \in Steps
    BY <1>0, <1>7 DEF PutDuplicate, CallOk, Steps
  <2>. QED
    BY <1>5, <1>7, <2>1 DEF PutDuplicate
<1>8. ASSUME NEW p \in Procs, Sweep(p) PROVE Moves(p)
  <2>1. CASE Read(p) /\ Goto(p, "sweepdel") /\ UNCHANGED <<caddy, cache>>
    <3>1. CallOk("sweepdel", op[p], id[p], up[p], routes) /\ "sweepdel" \in Steps
      BY <1>0, <1>8, <1>t DEF Sweep, CallOk, Steps
    <3>2. snap' = [snap EXCEPT ![p] = routes] /\ cache' \subseteq AllHosts /\ UNCHANGED caddy
      BY <1>t, <2>1 DEF Read
    <3>. QED
      BY <2>1, <3>1, <3>2, GotoMoves
  <2>2. CASE UNCHANGED caddy /\ Advance(p, "reput")
    <3>1. CallOk("reput", op[p], id[p], up[p], snap[p]) /\ "reput" \in Steps
      BY <1>0, <1>8 DEF Sweep, CallOk, Steps
    <3>. QED
      BY <1>5, <2>2, <3>1
  <2>. QED
    BY <1>8, <2>1, <2>2 DEF Sweep
<1>9. ASSUME NEW p \in Procs, SweepDelete(p) PROVE Moves(p)
  <2>1. pc[p] = "sweepdel" /\ cache' \subseteq AllHosts /\ (Write(p) \/ UNCHANGED caddy)
    BY <1>9, <1>t DEF SweepDelete
  <2>2. CASE Goto(p, "reput") /\ snap' = [snap EXCEPT ![p] = <<>>]
    <3>1. CallOk("reput", op[p], id[p], up[p], <<>>) /\ "reput" \in Steps
      BY <1>0, <2>1, EmptySound DEF CallOk, Steps
    <3>. QED
      BY <2>1, <2>2, <3>1, GotoMoves
  <2>3. ASSUME NEW n \in Last(snap[p], id[p]), Goto(p, "sweepdel"),
               snap' = [snap EXCEPT ![p] = [snap[p] EXCEPT ![n] = Null]]
        PROVE  Moves(p)
    <3>1. Sound([snap[p] EXCEPT ![n] = Null])
      <4>1. n \in 1 .. Len(snap[p])
        BY <1>0, Places DEF Last, Sound
      <4>2. Null \in Slots /\ Null.id = None
        BY DEF Null, Entry, Slots
      <4>3. None \notin AllHosts
        BY CaddyAssumption DEF AllHosts
      <4>. QED
        BY <1>0, <4>1, <4>2, <4>3, ReplaceSound
    <3>2. CallOk("sweepdel", op[p], id[p], up[p], [snap[p] EXCEPT ![n] = Null]) /\ "sweepdel" \in Steps
      BY <1>0, <2>1, <3>1 DEF CallOk, Steps
    <3>. QED
      BY <2>1, <2>3, <3>2, GotoMoves
  <2>. QED
    BY <1>9, <2>2, <2>3 DEF SweepDelete
<1>10. ASSUME NEW p \in Procs, Fetch(p) PROVE Moves(p)
  <2>1. pc[p] = "fetch" /\ snap' = [snap EXCEPT ![p] = routes] /\ UNCHANGED caddy
        /\ cache' \subseteq AllHosts
    BY <1>10, <1>t DEF Fetch, Read
  <2>2. op[p] \in {"add", "tail", "remove"}
    <3>1. op[p] \in {"none", "add", "tail", "remove"}
      BY DEF IInv, Typed
    <3>. QED
      BY <1>0, <2>1, <3>1 DEF CallOk
  <2>3. \E s \in {"patch", "append", "delindex", "create"} :
          /\ Goto(p, s)
          /\ s = "patch" => op[p] = "add"
          /\ s = "append" => op[p] = "tail"
          /\ s = "delindex" => op[p] = "remove"
          /\ s = "create" => op[p] # "remove" /\ ~exists
    <3>1. CASE op[p] = "add"
      BY <1>10, <3>1 DEF Fetch
    <3>2. CASE op[p] = "tail"
      BY <1>10, <3>2 DEF Fetch
    <3>3. CASE op[p] = "remove"
      BY <1>10, <3>3 DEF Fetch
    <3>. QED
      BY <2>2, <3>1, <3>2, <3>3
  <2>4. PICK s \in {"patch", "append", "delindex", "create"} :
          /\ Goto(p, s)
          /\ s = "patch" => op[p] = "add"
          /\ s = "append" => op[p] = "tail"
          /\ s = "delindex" => op[p] = "remove"
          /\ s = "create" => op[p] # "remove" /\ ~exists
    BY <2>3
  <2>5. s = "create" => routes = <<>>
    BY <1>t, <2>4 DEF IInv, Typed
  <2>6. CallOk(s, op[p], id[p], up[p], routes) /\ s \in Steps
    BY <1>0, <1>t, <2>1, <2>2, <2>4, <2>5 DEF CallOk, Steps
  <2>. QED
    BY <2>1, <2>4, <2>6, GotoMoves
<1>11. ASSUME NEW p \in Procs, Patch(p) \/ PostAppend(p) \/ CreateArray(p) PROVE Moves(p)
  BY <1>11, InstalledMoves DEF Patch, PostAppend, CreateArray
<1>12. ASSUME NEW p \in Procs, Verify(p) PROVE Moves(p)
  BY <1>12, <1>t, EndMoves DEF Verify
<1>13. ASSUME NEW p \in Procs, DeleteById(p) PROVE Moves(p)
  <2>1. CallOk("probe", op[p], id[p], up[p], snap[p]) /\ "probe" \in Steps
    BY <1>0, <1>13 DEF DeleteById, CallOk, Steps
  <2>2. /\ Goto(p, "probe") /\ snap' = [snap EXCEPT ![p] = snap[p]] /\ cache' \subseteq AllHosts
        /\ Write(p) \/ UNCHANGED caddy
    BY <1>0, <1>13, <1>t DEF DeleteById, Advance
  <2>. QED
    BY <2>1, <2>2, GotoMoves
<1>14. ASSUME NEW p \in Procs, RemoveDone(p), pc[p] # "idle", Write(p) \/ UNCHANGED caddy
       PROVE  Moves(p)
  <2>1. cache' \subseteq AllHosts /\ End(p, "ok")
    BY <1>14, <1>t DEF RemoveDone
  <2>. QED
    BY <1>14, <2>1, EndMoves
<1>15. ASSUME NEW p \in Procs, Probe(p) PROVE Moves(p)
  <2>1. CASE RemoveDone(p)
    BY <1>14, <1>15, <2>1 DEF Probe
  <2>2. CASE Advance(p, "fetch")
    <3>1. CallOk("fetch", op[p], id[p], up[p], snap[p]) /\ "fetch" \in Steps
      BY <1>0, <1>15 DEF Probe, CallOk, Steps
    <3>. QED
      BY <1>5, <1>15, <2>2, <3>1 DEF Probe
  <2>. QED
    BY <1>15, <2>1, <2>2 DEF Probe
<1>16. ASSUME NEW p \in Procs, DeleteByIndex(p) PROVE Moves(p)
  BY <1>14, <1>16 DEF DeleteByIndex
<1>17. ASSUME NEW p \in Procs, RequestFails(p) PROVE Moves(p)
  <2>1. pc[p] # "idle"
    BY <1>17 DEF RequestFails, Steps
  <2>. QED
    BY <1>17, <1>t, <2>1, EndMoves DEF RequestFails
<1>. QED
  BY <1>1, <1>2, <1>3, <1>4, <1>6, <1>7, <1>8, <1>9, <1>10, <1>11, <1>12, <1>13, <1>15, <1>16,
     <1>17, Zenon DEF Next

\* Every step keeps the invariant.
LEMMA NextIInv ==
  ASSUME IInv, [Next]_vars
  PROVE  IInv'
<1>1. CASE UNCHANGED vars
  BY <1>1 DEF IInv, Typed, CallInv, vars, caddy, call
<1>2. CASE Restart
  <2>1. UNCHANGED <<exists, routes>> /\ <<>> \in Seq(Slots)
    BY <1>2, EmptySeq DEF Restart, caddy
  <2>2. Typed'
    BY <1>2, <2>1, CaddyAssumption DEF Restart, IInv, Typed
  <2>3. CallInv'
    BY <1>2, EmptySound DEF Restart, CallInv, CallOk
  <2>. QED
    BY <2>1, <2>2, <2>3 DEF IInv
<1>3. ASSUME NEW p \in Procs, Moves(p) PROVE IInv'
  <2>1. CallInv'
    <3>. SUFFICES ASSUME NEW q \in Procs PROVE CallOk(pc'[q], op'[q], id'[q], up'[q], snap'[q])
      BY DEF CallInv
    <3>1. CASE q = p
      BY <1>3, <3>1 DEF Moves
    <3>2. CASE q # p
      <4>1. CallOk(pc[q], op[q], id[q], up[q], snap[q])
        BY DEF IInv, CallInv
      <4>2. /\ pc'[q] = pc[q] /\ op'[q] = op[q] /\ id'[q] = id[q] /\ up'[q] = up[q]
            /\ snap'[q] = snap[q]
        BY <1>3, <3>2 DEF Moves
      <4>. QED
        BY <4>1, <4>2
    <3>. QED
      BY <3>1, <3>2
  <2>2. Sound(routes') /\ exists' \in BOOLEAN /\ (exists' = TRUE \/ routes' = <<>>)
    <3>1. CASE Write(p)
      BY <3>1, WriteSound
    <3>2. CASE UNCHANGED caddy
      BY <3>2 DEF caddy, IInv, Typed
    <3>. QED
      BY <1>3, <3>1, <3>2 DEF Moves
  <2>3. Typed'
    BY <1>3, <2>2 DEF Moves, Typed
  <2>. QED
    BY <2>1, <2>2, <2>3 DEF IInv
<1>. QED
  BY <1>1, <1>2, <1>3, StepMoves

\* The inductive invariant holds in every reachable state.
THEOREM Invariance == Spec => []IInv
<1>1. IInv /\ [Next]_vars => IInv'
  BY NextIInv
<1>. QED
  BY <1>1, InitIInv, PTL DEF Spec

\* The state has its type: every call is at one of its steps, with an array of routes,
\* and only hosts are listed and settled.
THEOREM TypeCorrect == Spec => []TypeOK
<1>1. ASSUME IInv PROVE TypeOK
  BY <1>1 DEF IInv, Typed, Sound, TypeOK
<1>. QED
  BY <1>1, Invariance, PTL

\* However calls, failures and restarts interleave, the catch-all does not shadow a
\* host that has a route.
THEOREM NotShadowedHolds == Spec => []NotShadowed
<1>1. ASSUME IInv PROVE NotShadowed
  <2>. SUFFICES ASSUME NEW h \in AllHosts, At(routes, h) # {} PROVE Served(h) # None
    BY DEF NotShadowed
  <2>1. Routes(routes, h) # {}
    BY <1>1, FirstRoute DEF IInv, Sound
  <2>. QED
    BY <1>1, <2>1, ServedRoute DEF IInv
<1>. QED
  BY <1>1, Invariance, PTL

\* What a host serves follows from its route.
ServedInv ==
  \A h \in AllHosts : /\ Routes(routes, h) = {} => Served(h) = None
                      /\ \A r \in Routes(routes, h) : Served(h) = r.up
                      /\ Served(h) \in Upstreams \cup {None}

\* Only a write that rests on an array that is no longer Caddy's changes what another
\* host serves.
THEOREM InterferenceIsStale == Spec => OnlyStaleWritesInterfere
<1>. DEFINE Apart ==
       \A p \in Procs :
         Moved(p) /\ Fresh(p) => \A h \in AllHosts \ {id[p]} : Served(h)' = Served(h)
<1>0. IInv => ServedInv
  BY ServedRoute DEF IInv, ServedInv
<1>1. ASSUME IInv, ServedInv, ServedInv', [Next]_vars PROVE [Apart]_vars
  <2>. SUFFICES ASSUME NEW p \in Procs, Moved(p),
                       Fresh(p), NEW h \in AllHosts \ {id[p]}
                PROVE  Served(h)' = Served(h)
    OBVIOUS
  <2>1. CASE routes' = routes
    BY <2>1 DEF Served
  <2>2. CASE SameBut(id[p], routes, routes')
    <3>1. Routes(routes', h) = Routes(routes, h)
      BY <2>2 DEF SameBut
    <3>2. /\ Routes(routes, h) = {} => Served(h) = None
          /\ \A r \in Routes(routes, h) : Served(h) = r.up
      BY <1>1 DEF ServedInv
    <3>3. /\ Routes(routes', h) = {} => Served(h)' = None
          /\ \A r \in Routes(routes', h) : Served(h)' = r.up
      BY <1>1 DEF ServedInv
    <3>. QED
      BY <3>1, <3>2, <3>3
  <2>3. CASE Restart
    BY <2>1, <2>3 DEF Restart, caddy
  <2>4. ASSUME NEW q \in Procs, Moves(q) PROVE Served(h)' = Served(h)
    <3>1. q = p
      BY <2>4 DEF Moves, Moved
    <3>2. CASE UNCHANGED caddy
      BY <2>1, <3>2 DEF caddy
    <3>3. CASE Write(p)
      BY <1>1, <2>2, <3>3, WriteSound
    <3>. QED
      BY <2>4, <3>1, <3>2, <3>3 DEF Moves
  <2>5. CASE UNCHANGED vars
    BY <2>1, <2>5 DEF vars, caddy
  <2>. QED
    BY <1>1, <2>3, <2>4, <2>5, StepMoves
<1>. QED
  BY <1>0, <1>1, Invariance, PTL DEF Spec, OnlyStaleWritesInterfere

-----------------------------------------------------------------------------
(* Calls that do not overlap: the client implements RouteTable.            *)

\* What a host may come to serve besides the old, none and the new, if ids are there
\* twice.
Second == IF Unique(routes) THEN {} ELSE Upstreams

\* A write that rests on Caddy's array gives its host the route that it asks for, or
\* none; a removal may bring a second entry to light.
LEMMA WriteServes ==
  ASSUME IInv, NEW p \in Procs, Fresh(p), IInv', ServedInv', Write(p), op[p] \in {"add", "remove"},
         NEW h \in AllHosts, h = id[p]
  PROVE  /\ pc[p] \in {"put", "reput", "patch", "create"} => Served(h)' = up[p]
         /\ pc[p] \in {"sweepdel", "delindex", "delete"} /\ Unique(routes) => Served(h)' = None
         /\ Served(h)' \in {None, up[p]} \cup Second
<1>0. /\ CallOk(pc[p], op[p], id[p], up[p], snap[p]) /\ Sound(routes)
      /\ routes \in Seq(Slots) /\ routes' \in Seq(Slots)
  BY DEF IInv, CallInv, Sound
<1>1. /\ \A i : At(routes, i) = {n \in 1 .. Len(routes) : routes[n].id = i}
      /\ DOMAIN routes = 1 .. Len(routes)
  BY <1>0, Places
<1>2. id[p] \in AllHosts /\ id[p] # None
  BY <1>0, CaddyAssumption DEF CallOk, AllHosts
<1>3. /\ Routes(routes', h) = {} => Served(h)' = None
      /\ \A r \in Routes(routes', h) : Served(h)' = r.up
      /\ Served(h)' \in Upstreams \cup {None}
  BY DEF ServedInv
<1>4. body(p) \in Slots /\ body(p).id = id[p] /\ body(p).up = up[p] /\ Null.id = None
  BY BodySlot
<1>w. ASSUME Unique(routes'), NEW n \in DOMAIN routes', routes'[n] = body(p) PROVE Served(h)' = up[p]
  <2>1. n \in At(routes', h)
    BY <1>4, <1>w DEF At
  <2>2. First(routes', h) = {n}
    BY <1>0, <1>2, <1>w, <2>1, FirstRoute
  <2>3. body(p) \in Routes(routes', h)
    BY <1>w, <2>2 DEF Routes
  <2>. QED
    BY <1>3, <1>4, <2>3
<1>5. ASSUME NEW n \in At(routes, id[p]), Accept([routes EXCEPT ![n] = body(p)])
      PROVE  Served(h)' = up[p]
  <2>1. routes' = [routes EXCEPT ![n] = body(p)] /\ n \in DOMAIN routes /\ Unique(routes')
    BY <1>5, <1>1 DEF Accept, Become
  <2>2. n \in DOMAIN routes' /\ routes'[n] = body(p)
    BY <2>1
  <2>. QED
    BY <1>w, <2>1, <2>2
<1>6. ASSUME NEW w \in Seq(Slots), Accept(<<body(p)>> \o w) PROVE Served(h)' = up[p]
  <2>1. routes' = <<body(p)>> \o w /\ Unique(routes')
    BY <1>6 DEF Accept, Become
  <2>2. 1 \in DOMAIN routes' /\ routes'[1] = body(p)
    BY <1>4, <2>1
  <2>. QED
    BY <1>w, <2>1, <2>2
<1>7. ASSUME NEW n \in At(routes, id[p]), DeleteAt(n), Unique(routes) PROVE Served(h)' = None
  <2>0. n \in 1 .. Len(routes) /\ routes[n].id = id[p]
    BY <1>1, <1>7
  <2>1. CASE routes' = Drop(routes, n)
    <3>1. At(routes', h) = {}
      BY <1>0, <1>2, <1>7, <2>0, <2>1, DropSound
    <3>. QED
      BY <1>0, <1>3, <3>1, FirstRoute
  <2>2. CASE routes' = [routes EXCEPT ![n] = Null]
    <3>1. \A m \in DOMAIN routes : m # n => routes[m].id # id[p]
      BY <1>1, <1>2, <1>7, <2>0 DEF Unique
    <3>2. DOMAIN routes' = DOMAIN routes
      BY <2>2
    <3>3. \A m \in DOMAIN routes' : routes'[m] = IF m = n THEN Null ELSE routes[m]
      BY <2>2, <3>2
    <3>4. At(routes', id[p]) = {}
      BY <1>2, <1>4, <3>1, <3>2, <3>3 DEF At
    <3>. QED
      BY <1>0, <1>3, <3>4, FirstRoute
  <2>. QED
    BY <1>7, <2>1, <2>2 DEF DeleteAt, Become
<1>8. CASE pc[p] \in {"put", "reput"}
  BY <1>5, <1>8 DEF Write
<1>9. CASE pc[p] = "patch"
  <2>1. WithoutNulls(snap[p]) \in Seq(Slots)
    BY <1>0, CompactSound DEF CallOk, Sound
  <2>2. Accept(<<body(p)>> \o WithoutNulls(snap[p]))
    BY <1>9 DEF Write, PrependToArray
  <2>. QED
    BY <1>6, <1>9, <2>1, <2>2
<1>10. CASE pc[p] = "create"
  <2>1. <<>> \in Seq(Slots) /\ <<body(p)>> \o <<>> = <<body(p)>>
    BY <1>4
  <2>2. Accept(<<body(p)>>)
    BY <1>10 DEF Write
  <2>3. Accept(<<body(p)>> \o <<>>)
    BY <2>1, <2>2
  <2>. QED
    BY <1>6, <1>10, <2>1, <2>3
<1>11. CASE pc[p] \in {"sweepdel", "delindex"}
  <2>1. PICK n \in At(snap[p], id[p]) : DeleteAt(n)
    BY <1>11 DEF Write, Last
  <2>2. n \in At(routes, id[p])
    BY <1>11, <2>1 DEF Fresh
  <2>. QED
    BY <1>3, <1>7, <1>11, <2>1, <2>2 DEF Second
<1>12. CASE pc[p] = "delete"
  BY <1>3, <1>7, <1>12 DEF Write, Second
<1>13. CASE pc[p] = "append"
  BY <1>0, <1>13 DEF CallOk
<1>. QED
  BY <1>8, <1>9, <1>10, <1>11, <1>12, <1>13 DEF Write

\* What the other hosts serve stays, and when the call is the catch-all's, what all
\* hosts serve.
LEMMA OthersServed ==
  ASSUME IInv, NEW p \in Procs, Fresh(p), ServedInv, ServedInv', Write(p) \/ UNCHANGED caddy
  PROVE  \A h \in AllHosts \ {id[p]} : Served(h)' = Served(h)
<1>1. CASE UNCHANGED caddy
  BY <1>1 DEF caddy, Served
<1>2. CASE Write(p)
  <2>1. SameBut(id[p], routes, routes')
    BY <1>2, WriteSound
  <2>. SUFFICES ASSUME NEW h \in AllHosts \ {id[p]} PROVE Served(h)' = Served(h)
    OBVIOUS
  <2>2. Routes(routes', h) = Routes(routes, h)
    BY <2>1 DEF SameBut
  <2>3. /\ Routes(routes, h) = {} => Served(h) = None
        /\ \A r \in Routes(routes, h) : Served(h) = r.up
        /\ Routes(routes', h) = {} => Served(h)' = None
        /\ \A r \in Routes(routes', h) : Served(h)' = r.up
    BY DEF ServedInv
  <2>. QED
    BY <2>2, <2>3
<1>. QED
  BY <1>1, <1>2

\* What is under way: a call that has been the only one is for a host, and before the
\* client serves at most one call runs, the catch-all's in its own phase.
PhaseInv ==
  /\ \A p \in alone : op[p] \in {"add", "remove"}
  /\ phase # "serving" => \A p, q \in Procs : pc[p] # "idle" /\ pc[q] # "idle" => p = q
  /\ \A p \in Procs : op[p] = "tail" => phase = "tail"

Lone(p) == p \in alone \/ op[p] = "tail"

\* No other call runs beside a lone one, the array that it rests its write on is Caddy's,
\* and when it is about to return Ok it has its route in Caddy and its host in the list.
LoneOk(p) ==
  /\ \A q \in Procs \ {p} : pc[q] = "idle"
  /\ Fresh(p)
  /\ pc[p] = "verify" =>
       /\ Unique(routes)
       /\ \A h \in AllHosts : id[p] = h => h \in cache /\ Served(h) = up[p]

LoneInv == PhaseInv /\ \A p \in Procs : Lone(p) => LoneOk(p)

\* What a running call is for.
LEMMA Running ==
  ASSUME IInv, NEW p \in Procs, pc[p] # "idle"
  PROVE  /\ op[p] \in {"add", "remove"} \/ op[p] = "tail"
         /\ op[p] \in {"add", "remove"} => id[p] \in AllHosts
         /\ op[p] = "add" => up[p] \in Upstreams /\ up[p] # None
         /\ op[p] = "remove" => up[p] = None
         /\ op[p] = "tail" => id[p] = Ended /\ id[p] \notin AllHosts
BY CaddyAssumption DEF IInv, Typed, CallInv, CallOk, AllHosts

\* Idle calls are for nothing.
LEMMA Idle ==
  ASSUME IInv, NEW p \in Procs
  PROVE  pc[p] = "idle" <=> op[p] = "none"
BY DEF IInv, CallInv, CallOk

\* An idle call is for no host.
LEMMA IdleNone ==
  ASSUME IInv, NEW p \in Procs, pc[p] = "idle"
  PROVE  id[p] = None
BY DEF IInv, CallInv, CallOk

\* A step of a call leaves the invariant if it does for the call itself.
LEMMA LoneKept ==
  ASSUME IInv, IInv', LoneInv, NEW p \in Procs, pc[p] # "idle",
         \A q \in Procs \ {p} : pc'[q] = pc[q] /\ op'[q] = op[q],
         op'[p] \in {op[p], "none"}, alone' \subseteq alone,
         op'[p] = "none" => p \notin alone',
         phase' = phase \/ (op'[p] = "none" /\ (phase = "edge" => phase' = "tail")),
         phase' = "serving" \/ phase # "serving",
         Lone(p) /\ op'[p] # "none" => LoneOk(p)'
  PROVE  LoneInv'
<1>0. alone \subseteq Procs /\ PhaseInv
  BY DEF IInv, Typed, LoneInv
<1>a. \A q \in Procs : pc[q] = "idle" <=> op[q] = "none"
  BY Idle
<1>b. pc'[p] = "idle" <=> op'[p] = "none"
  BY DEF IInv, CallInv, CallOk
<1>1. \A q \in alone' : op'[q] \in {"add", "remove"}
  BY <1>0 DEF PhaseInv
<1>2. phase' # "serving" => \A q, r \in Procs : pc'[q] # "idle" /\ pc'[r] # "idle" => q = r
  <2>. SUFFICES ASSUME phase' # "serving", NEW q \in Procs, NEW r \in Procs,
                       pc'[q] # "idle", pc'[r] # "idle"
                PROVE  q = r
    OBVIOUS
  <2>1. phase # "serving"
    OBVIOUS
  <2>2. pc[q] # "idle" /\ pc[r] # "idle"
    OBVIOUS
  <2>. QED
    BY <1>0, <2>1, <2>2 DEF PhaseInv
<1>3. ASSUME NEW q \in Procs, op'[q] = "tail" PROVE phase' = "tail"
  <2>1. op[q] = "tail"
    BY <1>3
  <2>2. phase = "tail" /\ pc[q] # "idle"
    BY <1>0, <1>a, <2>1 DEF PhaseInv
  <2>3. CASE q = p
    BY <1>3, <2>2, <2>3
  <2>4. CASE q # p
    BY <1>0, <2>2, <2>4 DEF PhaseInv
  <2>. QED
    BY <2>3, <2>4
<1>4. ASSUME NEW q \in Procs, Lone(q)' PROVE LoneOk(q)'
  <2>1. Lone(q) /\ op'[q] # "none"
    BY <1>1, <1>4 DEF Lone
  <2>2. CASE q = p
    BY <2>1, <2>2
  <2>3. CASE q # p
    <3>1. LoneOk(q)
      BY <2>1 DEF LoneInv
    <3>. QED
      BY <2>3, <3>1 DEF LoneOk
  <2>. QED
    BY <2>2, <2>3
<1>. QED
  BY <1>1, <1>2, <1>3, <1>4 DEF LoneInv, PhaseInv

-----------------------------------------------------------------------------
(* The steps of RouteTable.                                                *)

theTable == [h \in AllHosts |-> Served(h)]
theCalls == [p \in Procs |-> CallOf(p)]

\* A step of RouteTable under the mapping of CaddyAdmin, or none.
TableStep == [Table!Next]_<<theTable, ~Unique(routes), cache, theCalls, alone, settled>>

\* Ids that were twice in the array may become single, never the other way round.
LEMMA Tidies ==
  ASSUME IInv, NEW p \in Procs, Write(p) \/ UNCHANGED caddy
  PROVE  Unique(routes) => Unique(routes')
<1>1. CASE Write(p)
  BY <1>1, WriteSound
<1>2. CASE UNCHANGED caddy
  BY <1>2 DEF caddy
<1>. QED
  BY <1>1, <1>2

\* A call for a host is one that RouteTable knows.
LEMMA Known ==
  ASSUME IInv, NEW p \in Procs, op[p] \in {"add", "remove"}
  PROVE  /\ id[p] \in AllHosts /\ CallOf(p) = [host |-> id[p], up |-> up[p]]
         /\ CallOf(p) # Table!NoCall /\ theCalls[p] = CallOf(p)
         /\ theCalls[p].host = id[p] /\ theCalls[p].up = up[p]
<1>1. id[p] \in AllHosts
  BY DEF IInv, CallInv, CallOk
<1>2. id[p] # None
  BY <1>1, CaddyAssumption DEF AllHosts
<1>3. CallOf(p) = [host |-> id[p], up |-> up[p]]
  BY DEF CallOf
<1>. QED
  BY <1>1, <1>2, <1>3 DEF Table!NoCall, theCalls

\* A call that goes on is the same call; one that ends is none.
LEMMA CallsGoto ==
  ASSUME NEW p \in Procs, NEW s, Goto(p, s)
  PROVE  theCalls' = theCalls
<1>1. op' = op /\ id' = id /\ up' = up
  BY DEF Goto
<1>2. \A q \in Procs : CallOf(q)' = CallOf(q)
  BY <1>1 DEF CallOf
<1>. QED
  BY <1>2 DEF theCalls

LEMMA CallsEnd ==
  ASSUME IInv, NEW p \in Procs, NEW how, End(p, how)
  PROVE  theCalls' = [theCalls EXCEPT ![p] = Table!NoCall]
<1>1. /\ op' = [op EXCEPT ![p] = "none"] /\ id' = [id EXCEPT ![p] = None]
      /\ up' = [up EXCEPT ![p] = None]
  BY DEF End
<1>2. op'[p] = "none" /\ \A q \in Procs \ {p} : op'[q] = op[q] /\ id'[q] = id[q] /\ up'[q] = up[q]
  BY <1>1 DEF IInv, Typed
<1>3. CallOf(p)' = Table!NoCall
  BY <1>2 DEF CallOf, Table!NoCall
<1>4. \A q \in Procs \ {p} : CallOf(q)' = CallOf(q)
  BY <1>2 DEF CallOf
<1>5. \A q \in Procs : CallOf(q)' = [theCalls EXCEPT ![p] = Table!NoCall][q]
  BY <1>3, <1>4 DEF theCalls
<1>. QED
  BY <1>5 DEF theCalls

\* The table changes at one host.
LEMMA TableAt ==
  ASSUME NEW i \in AllHosts, \A h \in AllHosts \ {i} : Served(h)' = Served(h)
  PROVE  theTable' = [theTable EXCEPT ![i] = Served(i)'] /\ theTable[i] = Served(i)
BY DEF theTable

\* The call of p, which is alone, goes on or returns Err, and its host's entry is the old
\* one, none, the new one, or one that was there twice.
LEMMA ChangedBy ==
  ASSUME IInv, NEW p \in Procs, op[p] \in {"add", "remove"}, NEW i \in AllHosts, id[p] = i,
         \A h \in AllHosts \ {i} : Served(h)' = Served(h),
         Served(i)' \in {Served(i), None, up[p]} \cup Second,
         Unique(routes) => Unique(routes')
  PROVE  Table!Changed(p)
<1>1. theCalls[p].host = i /\ theCalls[p].up = up[p]
  BY Known
<1>2. theTable' = [theTable EXCEPT ![i] = Served(i)'] /\ theTable[i] = Served(i)
  BY TableAt
<1>3. Table!SetEntry(p, Served(i)')
  BY <1>1, <1>2 DEF Table!SetEntry, theTable, theCalls
<1>4. Table!Tidied
  BY DEF Table!Tidied
<1>5. Served(i)' \in {theTable[theCalls[p].host], None, theCalls[p].up}
                     \cup (IF ~Unique(routes) THEN Upstreams ELSE {})
  BY <1>1, <1>2 DEF Second
<1>. QED
  BY <1>3, <1>4, <1>5 DEF Table!Changed, theTable, theCalls

\* It goes on: Work.
LEMMA WorkStep ==
  ASSUME IInv, NEW p \in Procs, p \in alone, op[p] \in {"add", "remove"}, NEW s, Goto(p, s),
         Table!Changed(p), cache' = cache \/ (up[p] # None /\ cache' = cache \cup {id[p]})
  PROVE  TableStep
<1>1. theCalls[p].host = id[p] /\ theCalls[p].up = up[p]
  BY Known
<1>2. theCalls' = theCalls /\ alone' = alone /\ settled' = settled
  BY CallsGoto DEF Goto
<1>3. Table!Work(p)
  BY <1>1, <1>2 DEF Table!Work, theCalls
<1>. QED
  BY <1>3 DEF TableStep, Table!Next, theTable, theCalls

\* It returns Err.
LEMMA ErrStep ==
  ASSUME IInv, NEW p \in Procs, p \in alone, op[p] \in {"add", "remove"}, End(p, "err"),
         Table!Changed(p), cache' = cache
  PROVE  TableStep
<1>1. theCalls' = [theCalls EXCEPT ![p] = Table!NoCall] /\ alone' = alone \ {p} /\ settled' = settled
  BY CallsEnd DEF End
<1>2. Table!Err(p)
  BY <1>1 DEF Table!Err, Table!Return, theCalls
<1>. QED
  BY <1>2 DEF TableStep, Table!Next, theTable, theCalls

\* It returns Ok, and its host's entry is what was asked for, unless ids are there twice.
LEMMA OkStep ==
  ASSUME IInv, LoneInv, NEW p \in Procs, p \in alone, op[p] \in {"add", "remove"}, End(p, "ok"),
         Table!Changed(p), NEW i \in AllHosts, id[p] = i,
         \A h \in AllHosts \ {i} : Served(h)' = Served(h),
         up[p] = None => ~Unique(routes) \/ Served(i)' = None,
         up[p] # None => Unique(routes') /\ Served(i)' = up[p],
         cache' = IF up[p] = None THEN cache \ {i} ELSE cache \cup {i}
  PROVE  TableStep
<1>1. theCalls[p].host = i /\ theCalls[p].up = up[p]
  BY Known
<1>2. theTable' = [theTable EXCEPT ![i] = Served(i)']
  BY TableAt
<1>3. Table!SetEntry(p, Served(i)')
  BY <1>1, <1>2 DEF Table!SetEntry, theTable, theCalls
<1>4. theCalls' = [theCalls EXCEPT ![p] = Table!NoCall] /\ alone' = alone \ {p}
  BY CallsEnd DEF End
<1>5. settled' = settled \cup {i}
  <2>1. \A q \in Procs \ {p} : pc[q] = "idle"
    BY DEF LoneInv, Lone, LoneOk
  <2>2. \A q \in Procs \ {p} : id[q] # id[p]
    BY <2>1, IdleNone, CaddyAssumption DEF AllHosts
  <2>. QED
    BY <2>2 DEF End
<1>6. Table!Ok(p)
  BY <1>1, <1>3, <1>4, <1>5 DEF Table!Ok, Table!Return, theCalls
<1>. QED
  BY <1>6 DEF TableStep, Table!Next, theTable, theCalls

\* What all hosts serve, as a table.
LEMMA TableTyped ==
  ASSUME ServedInv'
  PROVE  theTable' \in Table!Tables
BY DEF ServedInv, theTable, Table!Tables

\* A call that overlapped others goes on or returns.
LEMMA OverlappedStep ==
  ASSUME IInv, ServedInv', NEW p \in Procs, p \notin alone, op[p] \in {"add", "remove"},
         (\E s : Goto(p, s)) \/ (\E how : End(p, how)), Write(p) \/ UNCHANGED caddy,
         cache' \in {cache, cache \cup {id[p]}, cache \ {id[p]}}
  PROVE  TableStep
<1>1. theCalls[p].host = id[p] /\ theCalls[p] # Table!NoCall
  BY Known
<1>2. Unique(routes) => Unique(routes')
  BY Tidies
<1>3. theTable' \in Table!Tables
  BY TableTyped
<1>4. CASE \E s : Goto(p, s)
  <2>1. theCalls' = theCalls /\ alone' = alone /\ settled' = settled
    BY <1>4, CallsGoto DEF Goto
  <2>2. Table!Overlapped(p)
    BY <1>1, <1>2, <1>3, <2>1 DEF Table!Overlapped, Table!Tidied, theTable, theCalls
  <2>. QED
    BY <2>2 DEF TableStep, Table!Next, theTable, theCalls
<1>5. CASE \E how : End(p, how)
  <2>1. /\ theCalls' = [theCalls EXCEPT ![p] = Table!NoCall] /\ alone' = alone \ {p}
        /\ settled' \in {settled, settled \cup {id[p]}}
    BY <1>5, CallsEnd DEF End
  <2>2. Table!Overlapped(p)
    BY <1>1, <1>2, <1>3, <2>1 DEF Table!Overlapped, Table!Tidied, Table!Return, theTable, theCalls
  <2>. QED
    BY <2>2 DEF TableStep, Table!Next, theTable, theCalls
<1>. QED
  BY <1>4, <1>5

\* The catch-all's call goes on or returns.
LEMMA UpkeepStep ==
  ASSUME IInv, LoneInv, NEW p \in Procs, op[p] = "tail",
         (\E s : Goto(p, s)) \/ (\E how : End(p, how)), Write(p) \/ UNCHANGED caddy,
         \A h \in AllHosts : Served(h)' = Served(h), cache' = cache
  PROVE  TableStep
<1>1. Unique(routes) => Unique(routes')
  BY Tidies
<1>2. theTable' = theTable
  BY DEF theTable
<1>3. p \notin alone
  BY DEF LoneInv, PhaseInv
<1>4. theCalls' = theCalls /\ alone' = alone /\ settled' = settled
  <2>1. CASE \E s : Goto(p, s)
    BY <2>1, CallsGoto DEF Goto
  <2>2. CASE \E how : End(p, how)
    <3>1. theCalls' = [theCalls EXCEPT ![p] = Table!NoCall] /\ alone' = alone \ {p}
          /\ settled' = settled
      BY <2>2, CallsEnd DEF End
    <3>2. theCalls[p] = Table!NoCall
      BY DEF theCalls, CallOf, Table!NoCall
    <3>. QED
      BY <1>3, <3>1, <3>2 DEF theCalls
  <2>. QED
    BY <2>1, <2>2
<1>5. Table!Upkeep
  BY <1>1, <1>2, <1>4 DEF Table!Upkeep, Table!Tidied, theTable, theCalls
<1>. QED
  BY <1>5 DEF TableStep, Table!Next, theTable, theCalls

-----------------------------------------------------------------------------
(* Every step of the client is one of RouteTable, or none.                 *)

\* A call begins.
LEMMA StartStep ==
  ASSUME IInv, IInv', LoneInv, NEW p \in Procs, NEW what \in {"add", "tail", "remove"}, NEW i \in Ids,
         NEW u \in Upstreams \cup {None}, NEW s \in {"put", "delete"}, Start(p, what, i, u, s),
         what # "tail" => i \in AllHosts, what = "tail" => i = Ended,
         phase = "serving" \/ AllIdle, what = "tail" => AllIdle /\ phase = "tail"
  PROVE  LoneInv' /\ TableStep
<1>1. /\ pc[p] = "idle" /\ pc' = [pc EXCEPT ![p] = s] /\ op' = [op EXCEPT ![p] = what]
      /\ id' = [id EXCEPT ![p] = i] /\ up' = [up EXCEPT ![p] = u] /\ settled' = settled \ {i}
      /\ routes' = routes /\ cache' = cache /\ phase' = phase
      /\ alone' = IF AllIdle /\ what # "tail" THEN {p} ELSE {}
  BY DEF Start, caddy
<1>2. /\ pc'[p] = s /\ op'[p] = what /\ id'[p] = i /\ up'[p] = u /\ op[p] = "none"
      /\ \A q \in Procs \ {p} : pc'[q] = pc[q] /\ op'[q] = op[q] /\ id'[q] = id[q] /\ up'[q] = up[q]
  BY <1>1 DEF IInv, Typed, CallInv, CallOk
<1>a. \A q \in Procs : pc[q] = "idle" <=> op[q] = "none"
  BY Idle
<1>b. PhaseInv
  BY DEF LoneInv
<1>3. LoneInv'
  <2>1. \A q \in alone' : op'[q] \in {"add", "remove"}
    BY <1>1, <1>2
  <2>2. phase' # "serving" => \A q, r \in Procs : pc'[q] # "idle" /\ pc'[r] # "idle" => q = r
    BY <1>1, <1>2 DEF AllIdle
  <2>3. \A q \in Procs : op'[q] = "tail" => phase' = "tail"
    BY <1>1, <1>2, <1>b DEF PhaseInv
  <2>4. ASSUME NEW q \in Procs, Lone(q)' PROVE LoneOk(q)'
    <3>1. q = p /\ AllIdle
      <4>1. CASE q \in alone'
        BY <1>1, <4>1
      <4>2. CASE op'[q] = "tail"
        <5>1. CASE q = p
          BY <1>2, <4>2, <5>1
        <5>2. CASE q # p
          <6>1. op[q] = "tail" /\ phase = "tail" /\ pc[q] # "idle"
            BY <1>2, <1>a, <1>b, <4>2, <5>2 DEF PhaseInv
          <6>. QED
            BY <6>1 DEF AllIdle
        <5>. QED
          BY <5>1, <5>2
      <4>. QED
        BY <2>4, <4>1, <4>2 DEF Lone
    <3>. QED
      BY <1>2, <3>1 DEF LoneOk, AllIdle, Fresh
  <2>. QED
    BY <2>1, <2>2, <2>3, <2>4 DEF LoneInv, PhaseInv
<1>4. theTable' = theTable
  BY <1>1 DEF Served, theTable
<1>6. CASE what = "tail"
  <2>1. settled' = settled
    BY <1>1, <1>6, CaddyAssumption DEF IInv, Typed, AllHosts
  <2>2. \A q \in Procs : CallOf(q)' = CallOf(q)
    BY <1>2, <1>6 DEF CallOf
  <2>3. alone = {}
    <3>1. \A q \in alone : q \in Procs /\ op[q] # "none"
      BY <1>b DEF IInv, Typed, PhaseInv
    <3>. QED
      BY <1>6, <1>a, <3>1 DEF AllIdle
  <2>4. alone' = alone /\ theCalls' = theCalls
    BY <1>1, <1>6, <2>2, <2>3 DEF theCalls
  <2>. QED
    BY <1>1, <1>3, <1>4, <2>1, <2>4 DEF TableStep
<1>7. CASE what # "tail"
  <2>1. CallOf(p) = Table!NoCall /\ theCalls[p] = Table!NoCall
    BY <1>2 DEF CallOf, Table!NoCall, theCalls
  <2>2. CallOf(p)' = [host |-> i, up |-> u] /\ \A q \in Procs \ {p} : CallOf(q)' = CallOf(q)
    BY <1>2, <1>7 DEF CallOf
  <2>3. theCalls' = [theCalls EXCEPT ![p] = [host |-> i, up |-> u]]
    <3>1. \A q \in Procs : CallOf(q)' = [theCalls EXCEPT ![p] = [host |-> i, up |-> u]][q]
      BY <2>2 DEF theCalls
    <3>. QED
      BY <3>1 DEF theCalls
  <2>4. AllIdle <=> \A q \in Procs : theCalls[q] = Table!NoCall
    <3>1. ASSUME AllIdle, NEW q \in Procs PROVE theCalls[q] = Table!NoCall
      BY <1>a, <3>1 DEF AllIdle, theCalls, CallOf, Table!NoCall
    <3>2. ASSUME \A q \in Procs : theCalls[q] = Table!NoCall PROVE AllIdle
      <4>1. \A q \in Procs : op[q] \notin {"add", "remove"}
        BY <3>2, Known
      <4>2. CASE phase = "serving"
        <5>1. \A q \in Procs : op[q] = "none"
          BY <1>b, <4>1, <4>2 DEF PhaseInv, IInv, Typed
        <5>. QED
          BY <1>a, <5>1 DEF AllIdle
      <4>. QED
        BY <4>2
    <3>. QED
      BY <3>1, <3>2
  <2>5. Table!Call(p, i, u)
    BY <1>1, <1>4, <1>7, <2>1, <2>3, <2>4 DEF Table!Call, theTable, theCalls
  <2>. QED
    BY <1>3, <1>7, <2>5 DEF TableStep, Table!Next, theTable, theCalls
<1>. QED
  BY <1>6, <1>7

\* A request that rests on Caddy's array changes at most what its own host serves, and
\* not to anything else than what the call is for.
LEMMA RequestServes ==
  ASSUME IInv, IInv', NEW p \in Procs, Fresh(p), ServedInv, ServedInv', pc[p] # "idle",
         Write(p) \/ UNCHANGED caddy
  PROVE  /\ \A h \in AllHosts \ {id[p]} : Served(h)' = Served(h)
         /\ op[p] = "tail" => \A h \in AllHosts : Served(h)' = Served(h)
         /\ \A i \in AllHosts : i = id[p] => Served(i)' \in {Served(i), None, up[p]} \cup Second
         /\ op[p] \in {"add", "remove"} => Table!Changed(p)
<1>1. \A h \in AllHosts \ {id[p]} : Served(h)' = Served(h)
  BY OthersServed
<1>2. op[p] = "tail" => \A h \in AllHosts : Served(h)' = Served(h)
  BY <1>1, Running
<1>3. ASSUME NEW i \in AllHosts, i = id[p]
      PROVE  Served(i)' \in {Served(i), None, up[p]} \cup Second
  <2>1. CASE UNCHANGED caddy
    BY <2>1 DEF caddy, Served
  <2>2. CASE Write(p)
    <3>1. op[p] \in {"add", "remove"}
      BY <1>3, Running
    <3>2. Served(i)' \in {None, up[p]} \cup Second
      BY <1>3, <2>2, <3>1, WriteServes
    <3>. QED
      BY <3>2
  <2>. QED
    BY <2>1, <2>2
<1>4. ASSUME op[p] \in {"add", "remove"} PROVE Table!Changed(p)
  <2>1. PICK i \in AllHosts : id[p] = i
    BY <1>4, Running
  <2>2. Unique(routes) => Unique(routes')
    BY Tidies
  <2>. QED
    BY <1>1, <1>3, <1>4, <2>1, <2>2, ChangedBy
<1>. QED
  BY <1>1, <1>2, <1>3, <1>4

\* A call goes on.
LEMMA GotoStep ==
  ASSUME IInv, IInv', LoneInv, ServedInv, ServedInv', NEW p \in Procs, pc[p] # "idle",
         NEW s, s # "verify", Goto(p, s), Write(p) \/ UNCHANGED caddy, cache' = cache,
         Fresh(p) => Fresh(p)'
  PROVE  LoneInv' /\ TableStep
<1>1. /\ pc'[p] = s /\ op'[p] = op[p] /\ alone' = alone /\ phase' = phase
      /\ \A q \in Procs \ {p} : pc'[q] = pc[q] /\ op'[q] = op[q]
  BY DEF Goto, IInv, Typed
<1>0. op[p] # "none"
  BY Running
<1>2. Lone(p) => LoneOk(p)
  BY DEF LoneInv
<1>3. Lone(p) => LoneOk(p)'
  BY <1>1, <1>2 DEF LoneOk
<1>4. LoneInv'
  BY <1>0, <1>1, <1>3, LoneKept
<1>5. CASE p \in alone
  <2>1. op[p] \in {"add", "remove"} /\ Fresh(p)
    BY <1>2, <1>5 DEF LoneInv, PhaseInv, Lone, LoneOk
  <2>2. Table!Changed(p)
    BY <2>1, RequestServes
  <2>. QED
    BY <1>4, <1>5, <2>1, <2>2, WorkStep
<1>6. CASE op[p] = "tail"
  <2>1. Fresh(p)
    BY <1>2, <1>6 DEF Lone, LoneOk
  <2>2. \A h \in AllHosts : Served(h)' = Served(h)
    BY <1>6, <2>1, RequestServes
  <2>. QED
    BY <1>4, <1>6, <2>2, UpkeepStep
<1>7. CASE p \notin alone /\ op[p] \in {"add", "remove"}
  BY <1>4, <1>7, OverlappedStep
<1>. QED
  BY <1>5, <1>6, <1>7, Running

\* What the end of a call leaves.
LEMMA EndLeaves ==
  ASSUME IInv, IInv', LoneInv, NEW p \in Procs, NEW how, pc[p] # "idle", End(p, how)
  PROVE  LoneInv'
<1>1. /\ pc'[p] = "idle" /\ op'[p] = "none" /\ alone' = alone \ {p}
      /\ \A q \in Procs \ {p} : pc'[q] = pc[q] /\ op'[q] = op[q]
  BY DEF End, IInv, Typed
<1>2. /\ phase = "edge" => phase' = "tail"
      /\ phase = "serving" => phase' = "serving"
  BY DEF End
<1>. QED
  BY <1>1, <1>2, LoneKept

\* A call returns, and either it returns Err, or it is the catch-all's, or it overlapped.
LEMMA EndStep ==
  ASSUME IInv, IInv', LoneInv, ServedInv, ServedInv', NEW p \in Procs, pc[p] # "idle",
         NEW how, End(p, how), how = "err" \/ p \notin alone, Write(p) \/ UNCHANGED caddy,
         cache' = cache \/ (op[p] # "tail" /\ p \notin alone /\ cache' = cache \ {id[p]})
  PROVE  LoneInv' /\ TableStep
<1>1. LoneInv'
  BY EndLeaves
<1>2. Lone(p) => LoneOk(p)
  BY DEF LoneInv
<1>5. CASE p \in alone
  <2>1. op[p] \in {"add", "remove"} /\ Fresh(p)
    BY <1>2, <1>5 DEF LoneInv, PhaseInv, Lone, LoneOk
  <2>2. Table!Changed(p)
    BY <2>1, RequestServes
  <2>. QED
    BY <1>1, <1>5, <2>1, <2>2, ErrStep
<1>6. CASE op[p] = "tail"
  <2>1. Fresh(p)
    BY <1>2, <1>6 DEF Lone, LoneOk
  <2>2. \A h \in AllHosts : Served(h)' = Served(h)
    BY <1>6, <2>1, RequestServes
  <2>. QED
    BY <1>1, <1>6, <2>2, UpkeepStep
<1>7. CASE p \notin alone /\ op[p] \in {"add", "remove"}
  BY <1>1, <1>7, OverlappedStep
<1>. QED
  BY <1>5, <1>6, <1>7, Running

\* The route is in.
LEMMA InstalledStep ==
  ASSUME IInv, IInv', LoneInv, ServedInv, ServedInv', NEW p \in Procs,
         pc[p] \in {"put", "reput", "patch", "append", "create"}, Write(p), Installed(p)
  PROVE  LoneInv' /\ TableStep
<1>1. CASE op[p] = "tail"
  <2>1. End(p, "ok") /\ cache' = cache
    BY <1>1 DEF Installed
  <2>2. p \notin alone
    BY <1>1 DEF LoneInv, PhaseInv
  <2>. QED
    BY <1>1, <2>1, <2>2, EndStep
<1>2. CASE op[p] = "add"
  <2>1. Goto(p, "verify") /\ cache' = cache \cup {id[p]}
    BY <1>2 DEF Installed
  <2>2. /\ pc'[p] = "verify" /\ op'[p] = op[p] /\ id'[p] = id[p] /\ up'[p] = up[p]
        /\ alone' = alone /\ phase' = phase
        /\ \A q \in Procs \ {p} : pc'[q] = pc[q] /\ op'[q] = op[q]
    BY <2>1 DEF Goto, IInv, Typed
  <2>3. PICK i \in AllHosts : id[p] = i
    BY <1>2, Running
  <2>4. pc[p] # "append"
    BY <1>2 DEF IInv, CallInv, CallOk
  <2>5. Unique(routes')
    BY WriteSound
  <2>6. Lone(p) => LoneOk(p)
    BY DEF LoneInv
  <2>7. ASSUME Lone(p) PROVE LoneOk(p)'
    <3>1. Fresh(p) /\ \A q \in Procs \ {p} : pc'[q] = "idle"
      BY <2>2, <2>6, <2>7 DEF LoneOk
    <3>2. Served(i)' = up[p]
      BY <1>2, <2>3, <2>4, <3>1, WriteServes
    <3>3. \A h \in AllHosts : id'[p] = h => h \in cache' /\ Served(h)' = up'[p]
      BY <2>1, <2>2, <2>3, <3>2
    <3>. QED
      BY <2>2, <2>5, <3>1, <3>3 DEF LoneOk, Fresh
  <2>8. LoneInv'
    BY <1>2, <2>2, <2>7, LoneKept
  <2>9. CASE p \in alone
    <3>1. Fresh(p)
      BY <2>6, <2>9 DEF Lone, LoneOk
    <3>2. Table!Changed(p)
      BY <1>2, <3>1, RequestServes
    <3>3. up[p] # None
      BY <1>2, Running
    <3>. QED
      BY <1>2, <2>1, <2>8, <2>9, <3>2, <3>3, WorkStep
  <2>10. CASE p \notin alone
    BY <1>2, <2>1, <2>8, <2>10, OverlappedStep
  <2>. QED
    BY <2>9, <2>10
<1>. QED
  BY <1>1, <1>2 DEF Installed

\* The host is removed.
LEMMA RemovedStep ==
  ASSUME IInv, IInv', LoneInv, ServedInv, ServedInv', NEW p \in Procs, pc[p] # "idle",
         op[p] = "remove", RemoveDone(p), Write(p) \/ UNCHANGED caddy,
         \A i \in AllHosts : i = id[p] /\ Fresh(p) /\ Unique(routes) => Served(i)' = None
  PROVE  LoneInv' /\ TableStep
<1>1. End(p, "ok") /\ cache' = cache \ {id[p]}
  BY DEF RemoveDone
<1>2. CASE p \notin alone
  BY <1>1, <1>2, EndStep
<1>3. CASE p \in alone
  <2>1. LoneInv'
    BY <1>1, EndLeaves
  <2>2. Fresh(p)
    BY <1>3 DEF LoneInv, Lone, LoneOk
  <2>3. PICK i \in AllHosts : id[p] = i
    BY Running
  <2>4. /\ \A h \in AllHosts \ {i} : Served(h)' = Served(h)
        /\ Table!Changed(p)
    BY <2>2, <2>3, RequestServes
  <2>5. up[p] = None /\ (~Unique(routes) \/ Served(i)' = None)
    BY <2>2, <2>3, Running
  <2>. QED
    BY <1>1, <1>3, <2>1, <2>3, <2>4, <2>5, OkStep
<1>. QED
  BY <1>2, <1>3

\* A sweep that goes from the tail keeps its remaining indices right.
LEMMA SweepFresh ==
  ASSUME IInv, NEW p \in Procs, pc[p] = "sweepdel", Fresh(p), NEW n \in Last(snap[p], id[p]),
         Write(p) \/ UNCHANGED caddy
  PROVE  At([snap[p] EXCEPT ![n] = Null], id[p]) \subseteq At(routes', id[p])
<1>0. /\ Sound(snap[p]) /\ Sound(routes) /\ id[p] \in Ids /\ id[p] # None
  <2>1. CallOk(pc[p], op[p], id[p], up[p], snap[p]) /\ Sound(routes)
    BY DEF IInv, CallInv
  <2>2. op[p] \in {"add", "tail"}
    BY <2>1 DEF CallOk
  <2>. QED
    BY <2>1, <2>2, CaddyAssumption DEF CallOk, Ids, AllHosts
<1>1. /\ At(snap[p], id[p]) = {m \in 1 .. Len(snap[p]) : snap[p][m].id = id[p]}
      /\ At(routes, id[p]) = {m \in 1 .. Len(routes) : routes[m].id = id[p]}
      /\ DOMAIN snap[p] = 1 .. Len(snap[p]) /\ DOMAIN routes = 1 .. Len(routes)
      /\ Len(routes) \in Nat /\ Len(snap[p]) \in Nat
  BY <1>0, Places, LenProperties DEF Sound
<1>2. n \in At(snap[p], id[p]) /\ \A m \in At(snap[p], id[p]) : m <= n
  BY DEF Last
<1>3. ASSUME NEW m \in At([snap[p] EXCEPT ![n] = Null], id[p])
      PROVE  m \in At(snap[p], id[p]) /\ m < n
  <2>. DEFINE rest == [snap[p] EXCEPT ![n] = Null]
  <2>1. m \in DOMAIN rest /\ rest[m].id = id[p]
    BY <1>3 DEF At
  <2>2. DOMAIN rest = DOMAIN snap[p] /\ \A k \in DOMAIN snap[p] : rest[k] = IF k = n THEN Null ELSE snap[p][k]
    BY <1>1
  <2>. HIDE DEF rest
  <2>3. m # n
    BY <1>0, <2>1, <2>2 DEF Null, Entry
  <2>4. m \in At(snap[p], id[p])
    BY <1>1, <2>1, <2>2, <2>3
  <2>. QED
    BY <1>1, <1>2, <2>3, <2>4
<1>4. ASSUME NEW m \in At(snap[p], id[p]), m < n PROVE m \in At(routes', id[p])
  <2>1. m \in At(routes, id[p]) /\ n \in At(routes, id[p])
    BY <1>2, <1>4 DEF Fresh
  <2>2. m \in 1 .. Len(routes) /\ routes[m].id = id[p] /\ n \in 1 .. Len(routes)
    BY <1>1, <2>1
  <2>3. CASE UNCHANGED caddy
    BY <2>1, <2>3 DEF caddy
  <2>4. CASE Write(p)
    <3>1. PICK k \in Last(snap[p], id[p]) : DeleteAt(k)
      BY <2>4 DEF Write
    <3>2. k = n
      BY <1>1, <1>2, <3>1 DEF Last
    <3>3. CASE routes' = Drop(routes, n)
      <4>1. m \in DOMAIN routes' /\ routes'[m] = routes[m]
        BY <1>0, <1>4, <2>2, <3>3, DropSound
      <4>. QED
        BY <2>2, <4>1 DEF At
    <3>4. CASE routes' = [routes EXCEPT ![n] = Null]
      <4>1. m \in DOMAIN routes' /\ routes'[m] = routes[m]
        BY <1>1, <1>4, <2>2, <3>4
      <4>. QED
        BY <2>2, <4>1 DEF At
    <3>. QED
      BY <3>1, <3>2, <3>3, <3>4 DEF DeleteAt, Become
  <2>. QED
    BY <2>3, <2>4
<1>. QED
  BY <1>3, <1>4

\* Every step of the client is a step of RouteTable, or none.
LEMMA NextRefines ==
  ASSUME IInv, IInv', LoneInv, ServedInv, ServedInv', [Next]_vars
  PROVE  LoneInv' /\ TableStep
<1>1. CASE UNCHANGED vars
  <2>1. /\ routes' = routes /\ cache' = cache /\ settled' = settled /\ pc' = pc /\ op' = op
        /\ id' = id /\ up' = up /\ snap' = snap /\ alone' = alone /\ phase' = phase
    BY <1>1 DEF vars, caddy, call
  <2>2. \A h \in AllHosts : Served(h)' = Served(h)
    BY <2>1 DEF Served
  <2>3. LoneInv'
    BY <2>1, <2>2 DEF LoneInv, PhaseInv, Lone, LoneOk, Fresh
  <2>4. theCalls' = theCalls /\ theTable' = theTable
    BY <2>1, <2>2 DEF theCalls, CallOf, theTable
  <2>. QED
    BY <2>1, <2>3, <2>4 DEF TableStep
<1>2. CASE Restart
  <2>1. /\ routes' = routes /\ cache' = {} /\ settled' = {} /\ alone' = {} /\ phase' = "edge"
        /\ \A p \in Procs : pc'[p] = "idle" /\ op'[p] = "none"
    BY <1>2 DEF Restart, caddy
  <2>2. LoneInv'
    BY <2>1 DEF LoneInv, PhaseInv, Lone
  <2>3. \A h \in AllHosts : Served(h)' = Served(h)
    BY <2>1 DEF Served
  <2>4. theTable' = theTable
    BY <2>3 DEF theTable
  <2>5. \A p \in Procs : CallOf(p)' = Table!NoCall
    BY <2>1 DEF CallOf, Table!NoCall
  <2>6. theCalls' = [p \in Procs |-> Table!NoCall]
    BY <2>5 DEF theCalls
  <2>7. Table!Restart
    BY <2>1, <2>4, <2>6 DEF Table!Restart, theTable, theCalls
  <2>. QED
    BY <2>2, <2>7 DEF TableStep, Table!Next
<1>3. ASSUME NEW p \in Procs,
             \/ \E h \in Hosts, u \in Upstreams : AddRoute(p, h, u)
             \/ \E h \in Hosts : RemoveRoute(p, h)
             \/ \E u \in Upstreams : EnsureEdgeAdminRoute(p, u)
             \/ EnsureSessionEndedFallback(p)
      PROVE  LoneInv' /\ TableStep
  <2>1. ASSUME NEW h \in Hosts, NEW u \in Upstreams, AddRoute(p, h, u)
        PROVE  LoneInv' /\ TableStep
    <3>1. Start(p, "add", h, u, "put") /\ h \in AllHosts /\ h \in Ids /\ phase = "serving"
      BY <2>1 DEF AddRoute, Ids, AllHosts
    <3>. QED
      BY <3>1, StartStep
  <2>2. ASSUME NEW h \in Hosts, RemoveRoute(p, h) PROVE LoneInv' /\ TableStep
    <3>1. Start(p, "remove", h, None, "delete") /\ h \in AllHosts /\ h \in Ids /\ phase = "serving"
      BY <2>2 DEF RemoveRoute, Ids, AllHosts
    <3>. QED
      BY <3>1, StartStep
  <2>3. ASSUME NEW u \in Upstreams, EnsureEdgeAdminRoute(p, u) PROVE LoneInv' /\ TableStep
    <3>1. Start(p, "add", Edge, u, "put") /\ Edge \in AllHosts /\ Edge \in Ids /\ AllIdle
      BY <2>3 DEF EnsureEdgeAdminRoute, Ids, AllHosts
    <3>. QED
      BY <3>1, StartStep
  <2>4. ASSUME EnsureSessionEndedFallback(p) PROVE LoneInv' /\ TableStep
    <3>1. Start(p, "tail", Ended, None, "put") /\ Ended \in Ids /\ AllIdle /\ phase = "tail"
      BY <2>4 DEF EnsureSessionEndedFallback, Ids
    <3>. QED
      BY <3>1, StartStep
  <2>. QED
    BY <1>3, <2>1, <2>2, <2>3, <2>4
<1>g. ASSUME NEW p \in Procs, pc[p] # "idle", NEW s, Advance(p, s), Write(p) \/ UNCHANGED caddy,
             s \in {"fetch", "sweep", "reput", "probe"}
      PROVE  LoneInv' /\ TableStep
  <2>1. Goto(p, s) /\ cache' = cache /\ pc'[p] = s
    BY <1>g DEF Advance, Goto, IInv, Typed
  <2>2. Fresh(p)'
    BY <1>g, <2>1 DEF Fresh
  <2>. QED
    BY <1>g, <2>1, <2>2, GotoStep
<1>4. ASSUME NEW p \in Procs, Put(p) PROVE LoneInv' /\ TableStep
  <2>1. CASE Write(p) /\ Installed(p)
    BY <1>4, <2>1, InstalledStep DEF Put
  <2>2. CASE UNCHANGED caddy /\ Advance(p, "fetch")
    BY <1>4, <1>g, <2>2 DEF Put
  <2>. QED
    BY <1>4, <2>1, <2>2 DEF Put
<1>12. ASSUME NEW p \in Procs, PutDuplicate(p) PROVE LoneInv' /\ TableStep
  BY <1>12, <1>g DEF PutDuplicate
<1>13. ASSUME NEW p \in Procs, Sweep(p) PROVE LoneInv' /\ TableStep
  <2>1. CASE Read(p) /\ Goto(p, "sweepdel") /\ UNCHANGED <<caddy, cache>>
    <3>1. /\ snap'[p] = routes' /\ cache' = cache /\ pc'[p] = "sweepdel" /\ UNCHANGED caddy
          /\ id'[p] = id[p]
      BY <2>1 DEF Read, Goto, caddy, IInv, Typed
    <3>2. Fresh(p)'
      BY <3>1 DEF Fresh
    <3>. QED
      BY <1>13, <2>1, <3>1, <3>2, GotoStep DEF Sweep
  <2>2. CASE UNCHANGED caddy /\ Advance(p, "reput")
    BY <1>13, <1>g, <2>2 DEF Sweep
  <2>. QED
    BY <1>13, <2>1, <2>2 DEF Sweep
<1>14. ASSUME NEW p \in Procs, SweepDelete(p) PROVE LoneInv' /\ TableStep
  <2>1. pc[p] = "sweepdel" /\ cache' = cache /\ (Write(p) \/ UNCHANGED caddy)
    BY <1>14 DEF SweepDelete
  <2>2. CASE Goto(p, "reput")
    <3>1. pc'[p] = "reput"
      BY <2>2 DEF Goto, IInv, Typed
    <3>2. Fresh(p)'
      BY <3>1 DEF Fresh
    <3>. QED
      BY <2>1, <2>2, <3>2, GotoStep
  <2>3. ASSUME NEW n \in Last(snap[p], id[p]), Goto(p, "sweepdel"),
               snap' = [snap EXCEPT ![p] = [snap[p] EXCEPT ![n] = Null]]
        PROVE  LoneInv' /\ TableStep
    <3>1. pc'[p] = "sweepdel" /\ id'[p] = id[p] /\ snap'[p] = [snap[p] EXCEPT ![n] = Null]
      BY <2>3 DEF Goto, IInv, Typed
    <3>2. Fresh(p) => Fresh(p)'
      <4>1. Fresh(p) => At([snap[p] EXCEPT ![n] = Null], id[p]) \subseteq At(routes', id[p])
        BY <2>1, SweepFresh
      <4>. QED
        BY <3>1, <4>1 DEF Fresh
    <3>. QED
      BY <2>1, <2>3, <3>2, GotoStep
  <2>. QED
    BY <1>14, <2>2, <2>3 DEF SweepDelete
<1>5. ASSUME NEW p \in Procs, Fetch(p) PROVE LoneInv' /\ TableStep
  <2>1. /\ snap'[p] = routes' /\ cache' = cache /\ UNCHANGED caddy /\ pc[p] = "fetch"
    BY <1>5 DEF Fetch, Read, caddy, IInv, Typed
  <2>2. op[p] \in {"add", "remove", "tail"}
    BY <2>1, Running
  <2>3. PICK s : s # "verify" /\ Goto(p, s)
    <3>1. CASE op[p] = "add"
      BY <1>5, <3>1 DEF Fetch
    <3>2. CASE op[p] = "tail"
      BY <1>5, <3>2 DEF Fetch
    <3>3. CASE op[p] = "remove"
      BY <1>5, <3>3 DEF Fetch
    <3>. QED
      BY <2>2, <3>1, <3>2, <3>3
  <2>4. Fresh(p)'
    BY <2>1 DEF Fresh
  <2>. QED
    BY <2>1, <2>3, <2>4, GotoStep
<1>6. ASSUME NEW p \in Procs, Patch(p) \/ PostAppend(p) \/ CreateArray(p)
      PROVE  LoneInv' /\ TableStep
  BY <1>6, InstalledStep DEF Patch, PostAppend, CreateArray
<1>7. ASSUME NEW p \in Procs, Verify(p) PROVE LoneInv' /\ TableStep
  <2>1. pc[p] = "verify" /\ End(p, "ok") /\ routes' = routes /\ cache' = cache /\ UNCHANGED caddy
    BY <1>7 DEF Verify, caddy
  <2>2. op[p] = "add"
    BY <2>1 DEF IInv, CallInv, CallOk
  <2>3. CASE p \notin alone
    BY <2>1, <2>3, EndStep
  <2>4. CASE p \in alone
    <3>1. LoneInv' /\ LoneOk(p)
      BY <2>1, <2>4, EndLeaves DEF LoneInv, Lone
    <3>2. PICK i \in AllHosts : id[p] = i
      BY <2>1, <2>2, Running
    <3>3. \A h \in AllHosts : Served(h)' = Served(h)
      BY <2>1 DEF Served
    <3>4. i \in cache /\ Served(i) = up[p] /\ Unique(routes) /\ Fresh(p)
      BY <2>1, <3>1, <3>2 DEF LoneOk
    <3>5. up[p] # None
      BY <2>1, <2>2, Running
    <3>6. /\ cache' = (IF up[p] = None THEN cache \ {i} ELSE cache \cup {i})
          /\ Served(i)' = up[p] /\ Unique(routes')
      BY <2>1, <3>3, <3>4, <3>5
    <3>7. Table!Changed(p)
      BY <2>1, <2>2, <3>4, RequestServes
    <3>. QED
      BY <2>1, <2>2, <2>4, <3>1, <3>2, <3>3, <3>5, <3>6, <3>7, OkStep
  <2>. QED
    BY <2>3, <2>4
<1>8. ASSUME NEW p \in Procs, DeleteById(p) PROVE LoneInv' /\ TableStep
  BY <1>8, <1>g DEF DeleteById
<1>9. ASSUME NEW p \in Procs, Probe(p) PROVE LoneInv' /\ TableStep
  <2>1. CASE At(routes, id[p]) = {}
    <3>1. pc[p] = "probe" /\ UNCHANGED caddy /\ RemoveDone(p) /\ routes' = routes
      BY <1>9, <2>1 DEF Probe, caddy
    <3>2. op[p] = "remove"
      BY <3>1 DEF IInv, CallInv, CallOk
    <3>3. ASSUME NEW i \in AllHosts, i = id[p] PROVE Served(i)' = None
      <4>1. Routes(routes', i) = {}
        BY <2>1, <3>1, <3>3 DEF Routes, First
      <4>. QED
        BY <4>1 DEF ServedInv
    <3>. QED
      BY <3>1, <3>2, <3>3, RemovedStep
  <2>2. CASE At(routes, id[p]) # {}
    BY <1>9, <1>g, <2>2 DEF Probe
  <2>. QED
    BY <2>1, <2>2
<1>10. ASSUME NEW p \in Procs, DeleteByIndex(p) PROVE LoneInv' /\ TableStep
  <2>1. pc[p] = "delindex" /\ RemoveDone(p)
    BY <1>10 DEF DeleteByIndex
  <2>2. op[p] = "remove"
    BY <2>1 DEF IInv, CallInv, CallOk
  <2>3. ASSUME NEW i \in AllHosts, i = id[p], Fresh(p), Unique(routes) PROVE Served(i)' = None
    <3>1. CASE Write(p)
      BY <2>1, <2>2, <2>3, <3>1, WriteServes
    <3>2. CASE At(snap[p], id[p]) = {} /\ UNCHANGED caddy
      <4>1. Routes(routes', i) = {}
        BY <2>1, <2>3, <3>2 DEF Routes, First, Fresh, caddy
      <4>. QED
        BY <4>1 DEF ServedInv
    <3>. QED
      BY <1>10, <3>1, <3>2 DEF DeleteByIndex
  <2>4. Write(p) \/ UNCHANGED caddy
    BY <1>10 DEF DeleteByIndex
  <2>. QED
    BY <2>1, <2>2, <2>3, <2>4, RemovedStep
<1>11. ASSUME NEW p \in Procs, RequestFails(p) PROVE LoneInv' /\ TableStep
  <2>1. pc[p] # "idle"
    BY <1>11 DEF RequestFails, Steps
  <2>. QED
    BY <1>11, <2>1, EndStep DEF RequestFails
<1>. QED
  BY <1>1, <1>2, <1>3, <1>4, <1>5, <1>6, <1>7, <1>8, <1>9, <1>10, <1>11, <1>12, <1>13, <1>14,
     Zenon DEF Next

\* Whatever calls overlapped before, a call that has been the only one since it began
\* changes only its own host's entry in the table of RouteTable; Ok means that the entry is
\* as asked for (as long as no id was persisted twice), and Err leaves the old entry,
\* none, or the new one.
THEOREM Refinement == Spec => RouteTableSpec
<1>1. Init => ServedInv /\ LoneInv /\ Table!Init
  <2>. SUFFICES ASSUME Init PROVE ServedInv /\ LoneInv /\ Table!Init
    OBVIOUS
  <2>1. IInv
    BY InitIInv
  <2>2. ServedInv
    BY <2>1, ServedRoute DEF IInv, ServedInv
  <2>3. LoneInv
    BY DEF Init, LoneInv, PhaseInv, Lone
  <2>4. theTable \in Table!Tables
    BY <2>2 DEF ServedInv, theTable, Table!Tables
  <2>5. \A p \in Procs : CallOf(p) = Table!NoCall
    BY DEF Init, CallOf, Table!NoCall
  <2>6. theCalls = [p \in Procs |-> Table!NoCall]
    BY <2>5 DEF theCalls
  <2>. QED
    BY <2>2, <2>3, <2>4, <2>6 DEF Init, Table!Init, theTable, theCalls
<1>2. IInv => ServedInv
  BY ServedRoute DEF IInv, ServedInv
<1>3. IInv /\ IInv' /\ LoneInv /\ ServedInv /\ ServedInv' /\ [Next]_vars
      => LoneInv' /\ [Table!Next]_(Table!vars)
  BY NextRefines DEF TableStep, Table!vars, theTable, theCalls
<1>. QED
  BY <1>1, <1>2, <1>3, Invariance, PTL DEF Spec, RouteTableSpec, Table!Spec

-----------------------------------------------------------------------------
(* What Ok is worth, and what it takes.                                    *)

\* No request rests on an array that is no longer Caddy's.
FreshWrites == \A p \in Procs : Moved(p) => Fresh(p)

\* No two calls for one host overlap.
HostsApart == \A p, q \in Procs : id[p] = id[q] /\ id[p] # None => p = q

\* What the last calls reported is true, nobody calls for their hosts, and a call that
\* is about to return Ok has its host in the list.
HonestInv ==
  /\ OkStaysTrue
  /\ \A p \in Procs : id[p] \notin settled
  /\ \A p \in Procs : pc[p] = "verify" => id[p] \in cache

\* A call that touches only its own host, and settles it only with a list that agrees
\* with Caddy.
LEMMA HonestStep ==
  ASSUME IInv, Typed', HonestInv, HostsApart, NEW p \in Procs,
         \A h \in AllHosts \ {id[p]} : Served(h)' = Served(h) /\ (h \in cache' <=> h \in cache),
         \A q \in Procs \ {p} : pc'[q] = pc[q] /\ id'[q] = id[q],
         id'[p] \in {id[p], None}, settled' \subseteq settled \cup {id[p]},
         \A h \in settled' :
           h = id[p] => id'[p] = None /\ (h \in cache' <=> Served(h)' # None),
         pc'[p] = "verify" => id'[p] \in cache'
  PROVE  HonestInv'
<1>0. settled \subseteq AllHosts /\ settled' \subseteq AllHosts /\ None \notin AllHosts
  BY CaddyAssumption DEF IInv, Typed, AllHosts
<1>1. OkStaysTrue'
  <2>. SUFFICES ASSUME NEW h \in settled' PROVE h \in cache' <=> Served(h)' # None
    BY DEF OkStaysTrue
  <2>1. CASE h = id[p]
    BY <2>1
  <2>2. CASE h # id[p]
    <3>1. h \in settled /\ h \in AllHosts \ {id[p]}
      BY <1>0, <2>2
    <3>2. h \in cache <=> Served(h) # None
      BY <3>1 DEF HonestInv, OkStaysTrue
    <3>. QED
      BY <3>1, <3>2
  <2>. QED
    BY <2>1, <2>2
<1>2. ASSUME NEW q \in Procs PROVE id'[q] \notin settled'
  <2>0. id[q] \notin settled
    BY DEF HonestInv
  <2>1. CASE q = p
    BY <1>0, <2>0, <2>1
  <2>2. CASE q # p
    <3>1. id'[q] = id[q]
      BY <2>2
    <3>2. id[q] \in AllHosts => id[q] # id[p]
      BY <1>0, <2>2 DEF HostsApart
    <3>. QED
      BY <1>0, <2>0, <3>1, <3>2
  <2>. QED
    BY <2>1, <2>2
<1>3. ASSUME NEW q \in Procs, pc'[q] = "verify" PROVE id'[q] \in cache'
  <2>1. CASE q = p
    BY <1>3, <2>1
  <2>2. CASE q # p
    <3>1. pc[q] = "verify" /\ id'[q] = id[q]
      BY <1>3, <2>2
    <3>2. id[q] \in cache /\ id[q] \in AllHosts
      BY <3>1 DEF HonestInv, IInv, Typed
    <3>3. id[q] # id[p]
      BY <1>0, <2>2, <3>2 DEF HostsApart
    <3>. QED
      BY <3>1, <3>2, <3>3
  <2>. QED
    BY <2>1, <2>2
<1>. QED
  BY <1>1, <1>2, <1>3 DEF HonestInv

\* A call begins: what its host was said to be is no longer said.
LEMMA StartHonest ==
  ASSUME IInv, HonestInv, NEW p \in Procs, NEW what, NEW i, NEW u, NEW s \in {"put", "delete"},
         Start(p, what, i, u, s)
  PROVE  HonestInv'
<1>1. /\ pc' = [pc EXCEPT ![p] = s] /\ id' = [id EXCEPT ![p] = i] /\ settled' = settled \ {i}
      /\ routes' = routes /\ cache' = cache
  BY DEF Start, caddy
<1>2. OkStaysTrue'
  BY <1>1 DEF HonestInv, OkStaysTrue, Served
<1>3. \A q \in Procs : id'[q] \notin settled'
  BY <1>1 DEF HonestInv, IInv, Typed
<1>4. \A q \in Procs : pc'[q] = "verify" => id'[q] \in cache'
  BY <1>1 DEF HonestInv, IInv, Typed
<1>. QED
  BY <1>2, <1>3, <1>4 DEF HonestInv

\* A call goes on.
LEMMA GotoHonest ==
  ASSUME IInv, IInv', ServedInv, ServedInv', HonestInv, HostsApart, FreshWrites,
         NEW p \in Procs, NEW s, s # pc[p] \/ snap'[p] # snap[p], Goto(p, s), Write(p) \/ UNCHANGED caddy,
         cache' = cache \/ cache' = cache \cup {id[p]}, s = "verify" => id[p] \in cache'
  PROVE  HonestInv'
<1>1. /\ pc' = [pc EXCEPT ![p] = s] /\ id' = id /\ settled' = settled
  BY DEF Goto
<1>2. pc'[p] = s /\ \A q \in Procs \ {p} : pc'[q] = pc[q]
  BY <1>1 DEF IInv, Typed
<1>3. Fresh(p)
  BY <1>2 DEF FreshWrites, Moved
<1>4. \A h \in AllHosts \ {id[p]} : Served(h)' = Served(h)
  BY <1>3, OthersServed
<1>5. id[p] \notin settled' /\ Typed'
  BY <1>1 DEF HonestInv, IInv
<1>. QED
  BY <1>1, <1>2, <1>4, <1>5, HonestStep

\* A call returns, and its host is settled with a list that agrees with Caddy.
LEMMA EndHonest ==
  ASSUME IInv, IInv', ServedInv, ServedInv', HonestInv, HostsApart, FreshWrites,
         NEW p \in Procs, NEW how, pc[p] # "idle", End(p, how), Write(p) \/ UNCHANGED caddy,
         cache' = cache \/ cache' = cache \ {id[p]},
         how = "ok" /\ op[p] # "tail"
           => \A h \in AllHosts : h = id[p] => (h \in cache' <=> Served(h)' # None)
  PROVE  HonestInv'
<1>1. /\ pc' = [pc EXCEPT ![p] = "idle"] /\ id' = [id EXCEPT ![p] = None]
  BY DEF End
<1>2. /\ pc'[p] = "idle" /\ id'[p] = None
      /\ \A q \in Procs \ {p} : pc'[q] = pc[q] /\ id'[q] = id[q]
  BY <1>1 DEF IInv, Typed
<1>3. Fresh(p)
  BY <1>2 DEF FreshWrites, Moved
<1>4. \A h \in AllHosts \ {id[p]} : Served(h)' = Served(h)
  BY <1>3, OthersServed
<1>5. Typed' /\ settled' \subseteq AllHosts /\ id[p] \notin settled
  BY DEF IInv, Typed, HonestInv
<1>6. CASE how = "ok" /\ op[p] # "tail"
  <2>1. settled' \subseteq settled \cup {id[p]}
    BY DEF End
  <2>. QED
    BY <1>2, <1>4, <1>5, <1>6, <2>1, HonestStep
<1>7. CASE ~(how = "ok" /\ op[p] # "tail")
  <2>1. settled' = settled
    BY <1>7 DEF End
  <2>. QED
    BY <1>2, <1>4, <1>5, <2>1, HonestStep
<1>. QED
  BY <1>6, <1>7

\* The route is in.
LEMMA InstalledHonest ==
  ASSUME IInv, IInv', ServedInv, ServedInv', HonestInv, HostsApart, FreshWrites,
         NEW p \in Procs, pc[p] \in {"put", "reput", "patch", "append", "create"},
         Write(p), Installed(p)
  PROVE  HonestInv'
<1>1. CASE op[p] = "add" /\ Goto(p, "verify") /\ cache' = cache \cup {id[p]}
  BY <1>1, GotoHonest
<1>2. CASE op[p] = "tail" /\ End(p, "ok") /\ cache' = cache
  BY <1>2, EndHonest
<1>. QED
  BY <1>1, <1>2 DEF Installed

\* Every step that rests on no stale array keeps what was reported true.
LEMMA NextHonest ==
  ASSUME IInv, IInv', ServedInv, ServedInv', NotShadowed, Unique(routes), HonestInv, HostsApart,
         FreshWrites, [Next]_vars
  PROVE  HonestInv'
<1>1. CASE UNCHANGED vars
  BY <1>1 DEF vars, caddy, call, HonestInv, OkStaysTrue, Served
<1>2. CASE Restart
  <2>1. settled' = {} /\ \A p \in Procs : pc'[p] = "idle"
    BY <1>2 DEF Restart
  <2>. QED
    BY <2>1 DEF HonestInv, OkStaysTrue
<1>3. ASSUME NEW p \in Procs,
             \/ \E h \in Hosts, u \in Upstreams : AddRoute(p, h, u)
             \/ \E h \in Hosts : RemoveRoute(p, h)
             \/ \E u \in Upstreams : EnsureEdgeAdminRoute(p, u)
             \/ EnsureSessionEndedFallback(p)
      PROVE  HonestInv'
  BY <1>3, StartHonest DEF AddRoute, RemoveRoute, EnsureEdgeAdminRoute, EnsureSessionEndedFallback
<1>4. ASSUME NEW p \in Procs, Put(p) PROVE HonestInv'
  <2>1. CASE Write(p) /\ Installed(p)
    BY <1>4, <2>1, InstalledHonest DEF Put
  <2>2. CASE UNCHANGED caddy /\ Advance(p, "fetch")
    BY <1>4, <2>2, GotoHonest DEF Put, Advance
  <2>. QED
    BY <1>4, <2>1, <2>2 DEF Put
<1>5. ASSUME NEW p \in Procs, PutDuplicate(p) \/ Sweep(p) \/ SweepDelete(p) PROVE HonestInv'
  <2>1. CASE PutDuplicate(p)
    BY <2>1, GotoHonest DEF PutDuplicate, Advance
  <2>2. CASE Sweep(p)
    <3>1. CASE Goto(p, "sweepdel") /\ UNCHANGED <<caddy, cache>>
      BY <2>2, <3>1, GotoHonest DEF Sweep
    <3>2. CASE UNCHANGED caddy /\ Advance(p, "reput")
      BY <2>2, <3>2, GotoHonest DEF Sweep, Advance
    <3>. QED
      BY <2>2, <3>1, <3>2 DEF Sweep
  <2>3. CASE SweepDelete(p)
    <3>1. pc[p] = "sweepdel" /\ cache' = cache /\ (Write(p) \/ UNCHANGED caddy)
      BY <2>3 DEF SweepDelete
    <3>2. CASE Goto(p, "reput")
      BY <3>1, <3>2, GotoHonest
    <3>3. ASSUME NEW n \in Last(snap[p], id[p]), Goto(p, "sweepdel"),
                 snap' = [snap EXCEPT ![p] = [snap[p] EXCEPT ![n] = Null]]
          PROVE  HonestInv'
      <4>1. n \in DOMAIN snap[p] /\ snap[p][n].id = id[p] /\ id[p] # None
        BY <3>1, <3>3, Running, CaddyAssumption DEF Last, At, AllHosts
      <4>2. snap'[p][n] = Null /\ Null.id = None
        <5>1. snap'[p] = [snap[p] EXCEPT ![n] = Null]
          BY <3>3 DEF IInv, Typed
        <5>. QED
          BY <4>1, <5>1 DEF Null, Entry
      <4>3. snap'[p] # snap[p]
        BY <4>1, <4>2
      <4>. QED
        BY <3>1, <3>3, <4>3, GotoHonest
    <3>. QED
      BY <2>3, <3>2, <3>3 DEF SweepDelete
  <2>. QED
    BY <1>5, <2>1, <2>2, <2>3
<1>6. ASSUME NEW p \in Procs, Fetch(p) PROVE HonestInv'
  <2>1. pc[p] = "fetch" /\ UNCHANGED caddy /\ cache' = cache /\ op[p] \in {"add", "remove", "tail"}
    <3>1. pc[p] = "fetch"
      BY <1>6 DEF Fetch
    <3>. QED
      BY <1>6, <3>1, Running DEF Fetch
  <2>2. PICK s : s \in {"patch", "append", "delindex", "create"} /\ Goto(p, s)
    <3>1. CASE op[p] = "add"
      BY <1>6, <3>1 DEF Fetch
    <3>2. CASE op[p] = "tail"
      BY <1>6, <3>2 DEF Fetch
    <3>3. CASE op[p] = "remove"
      BY <1>6, <3>3 DEF Fetch
    <3>. QED
      BY <2>1, <3>1, <3>2, <3>3
  <2>. QED
    BY <2>1, <2>2, GotoHonest
<1>7. ASSUME NEW p \in Procs, Patch(p) \/ PostAppend(p) \/ CreateArray(p) PROVE HonestInv'
  BY <1>7, InstalledHonest DEF Patch, PostAppend, CreateArray
<1>8. ASSUME NEW p \in Procs, Verify(p) PROVE HonestInv'
  <2>1. /\ pc[p] = "verify" /\ End(p, "ok") /\ UNCHANGED caddy /\ cache' = cache
        /\ At(routes, id[p]) # {} /\ id[p] \in cache
    BY <1>8 DEF Verify, HonestInv
  <2>2. ASSUME NEW h \in AllHosts, h = id[p] PROVE Served(h)' # None
    <3>1. Served(h) # None
      BY <2>1, <2>2 DEF NotShadowed
    <3>. QED
      BY <2>1, <3>1 DEF caddy, Served
  <2>. QED
    BY <2>1, <2>2, EndHonest
<1>9. ASSUME NEW p \in Procs, DeleteById(p) PROVE HonestInv'
  BY <1>9, GotoHonest DEF DeleteById, Advance
<1>10. ASSUME NEW p \in Procs, Probe(p) PROVE HonestInv'
  <2>1. CASE At(routes, id[p]) = {}
    <3>1. /\ pc[p] = "probe" /\ UNCHANGED caddy /\ routes' = routes /\ End(p, "ok")
          /\ cache' = cache \ {id[p]}
      BY <1>10, <2>1 DEF Probe, caddy, RemoveDone
    <3>2. ASSUME NEW h \in AllHosts, h = id[p] PROVE Served(h)' = None
      <4>1. Routes(routes', h) = {}
        BY <2>1, <3>1, <3>2 DEF Routes, First
      <4>. QED
        BY <4>1 DEF ServedInv
    <3>. QED
      BY <3>1, <3>2, EndHonest
  <2>2. CASE At(routes, id[p]) # {}
    BY <1>10, <2>2, GotoHonest DEF Probe, Advance
  <2>. QED
    BY <2>1, <2>2
<1>11. ASSUME NEW p \in Procs, DeleteByIndex(p) PROVE HonestInv'
  <2>1. pc[p] = "delindex" /\ End(p, "ok") /\ cache' = cache \ {id[p]} /\ op[p] = "remove"
    BY <1>11 DEF DeleteByIndex, RemoveDone, IInv, CallInv, CallOk
  <2>2. pc'[p] = "idle"
    BY <2>1 DEF End, IInv, Typed
  <2>3. Fresh(p) /\ At(snap[p], id[p]) = At(routes, id[p])
    BY <2>1, <2>2 DEF FreshWrites, Moved, Fresh
  <2>4. ASSUME NEW h \in AllHosts, h = id[p] PROVE Served(h)' = None
    <3>1. CASE Write(p)
      BY <2>1, <2>3, <2>4, <3>1, WriteServes
    <3>2. CASE At(snap[p], id[p]) = {} /\ UNCHANGED caddy
      <4>1. Routes(routes', h) = {}
        BY <2>3, <2>4, <3>2 DEF Routes, First, caddy
      <4>. QED
        BY <4>1 DEF ServedInv
    <3>. QED
      BY <1>11, <3>1, <3>2 DEF DeleteByIndex
  <2>5. Write(p) \/ UNCHANGED caddy
    BY <1>11 DEF DeleteByIndex
  <2>. QED
    BY <2>1, <2>4, <2>5, EndHonest
<1>12. ASSUME NEW p \in Procs, RequestFails(p) PROVE HonestInv'
  BY <1>12, EndHonest DEF RequestFails, Steps
<1>. QED
  BY <1>1, <1>2, <1>3, <1>4, <1>5, <1>6, <1>7, <1>8, <1>9, <1>10, <1>11, <1>12, Zenon DEF Next

\* No id that is in the array once comes to be there twice.
LEMMA UniqueStays ==
  ASSUME IInv, Unique(routes), [Next]_vars
  PROVE  Unique(routes')
<1>1. CASE UNCHANGED vars \/ Restart
  BY <1>1 DEF vars, Restart, caddy
<1>2. ASSUME NEW p \in Procs, Moves(p) PROVE Unique(routes')
  BY <1>2, Tidies DEF Moves
<1>. QED
  BY <1>1, <1>2, StepMoves

\* What it takes for an Ok to stay true, for any number of concurrent calls: no id was
\* persisted twice, no request rests on an array that is no longer Caddy's, and no two
\* calls for one host overlap.  add_route and remove_route ensure none of it, so
\* OkStaysTrue is lost without it.
THEOREM OkNeedsFreshWrites ==
  ASSUME \A arr \in Leftovers : Unique(arr)
  PROVE  Spec /\ [][FreshWrites]_vars /\ []HostsApart => []OkStaysTrue
<1>. DEFINE Single == Unique(routes)
<1>1. Init => HonestInv /\ Single
  BY DEF Init, HonestInv, OkStaysTrue
<1>2. IInv => ServedInv
  BY ServedRoute DEF IInv, ServedInv
<1>3. /\ IInv /\ IInv' /\ ServedInv /\ ServedInv' /\ NotShadowed /\ Single /\ HonestInv /\ HostsApart
      /\ [FreshWrites]_vars /\ [Next]_vars
      => HonestInv'
  <2>1. CASE FreshWrites
    BY <2>1, NextHonest
  <2>2. CASE UNCHANGED vars
    BY <2>2 DEF vars, caddy, call, HonestInv, OkStaysTrue, Served
  <2>. QED
    BY <2>1, <2>2
<1>4. HonestInv => OkStaysTrue
  BY DEF HonestInv
<1>5. IInv /\ Single /\ [Next]_vars => Single'
  BY UniqueStays
<1>. QED
  BY <1>1, <1>2, <1>3, <1>4, <1>5, Invariance, NotShadowedHolds, PTL DEF Spec
=============================================================================
