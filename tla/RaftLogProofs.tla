--------------------------- MODULE RaftLogProofs ----------------------------
(***************************************************************************)
(* Proofs about RaftLog, for any capacities, batches and log_target: the   *)
(* array and the circular log stay in step, packets are freed once, reads  *)
(* are of what the log holds, and the array implements AbstractLog.        *)
(***************************************************************************)
EXTENDS RaftLog, TLAPS

LOCAL INSTANCE WellFoundedInduction
LOCAL INSTANCE NaturalsInduction
LOCAL INSTANCE SequenceTheorems

-----------------------------------------------------------------------------
(* Positions modulo a size.                                                *)

\* A remainder lies below the modulus.
LEMMA ModRange ==
    ASSUME NEW a \in Int, NEW s \in Nat \ {0}
    PROVE  a % s \in 0..(s - 1)
  BY SMT

\* A number is a multiple of the modulus and its remainder.
LEMMA Division ==
    ASSUME NEW a \in Int, NEW s \in Nat \ {0}
    PROVE  \E q \in Int : \E r \in 0..(s - 1) : a = s * q + r /\ r = a % s
  <1>1. a = s * (a \div s) + (a % s) /\ a \div s \in Int /\ a % s \in 0..(s - 1)
    BY SMT
  <1> QED BY <1>1

\* Quotient and remainder are unique.
LEMMA Unique ==
    ASSUME NEW s \in Nat \ {0}, NEW q \in Int, NEW p \in Int,
           NEW r \in 0..(s - 1), NEW t \in 0..(s - 1), s * q + r = s * p + t
    PROVE  q = p /\ r = t
  <1>1. ASSUME NEW x \in Int, NEW y \in Int, NEW u \in 0..(s - 1), NEW v \in 0..(s - 1),
               s * x + u = s * y + v, x < y
        PROVE  FALSE
    <2>1. PICK d \in Nat : d = y - x - 1
      BY SMT, <1>1
    <2>2. s * y = s * x + s + s * d
      BY SMT, <2>1
    <2>3. s * d >= 0
      BY SMT
    <2> QED BY SMT, <1>1, <2>2, <2>3
  <1>2. ~(q < p) /\ ~(p < q)
    BY <1>1
  <1> QED BY SMT, <1>2

\* A remainder is known by what it differs by.
LEMMA ModIs ==
    ASSUME NEW s \in Nat \ {0}, NEW a \in Int, NEW q \in Int, NEW r \in 0..(s - 1),
           a = s * q + r
    PROVE  a % s = r
  <1>1. PICK p \in Int, t \in 0..(s - 1) : a = s * p + t /\ t = a % s
    BY Division
  <1>2. q = p /\ r = t
    BY <1>1, Unique
  <1> QED BY <1>1, <1>2

\* Going on by k positions wraps at most once.
LEMMA ModAdd ==
    ASSUME NEW s \in Nat \ {0}, NEW a \in Int, NEW k \in 0..s
    PROVE  (a + k) % s = IF (a % s) + k < s THEN (a % s) + k ELSE (a % s) + k - s
  <1>1. PICK q \in Int, r \in 0..(s - 1) : a = s * q + r /\ r = a % s
    BY Division
  <1>2. CASE r + k < s
    <2>1. a + k = s * q + (r + k) /\ r + k \in 0..(s - 1) /\ a + k \in Int
      BY SMT, <1>1, <1>2
    <2>2. (a + k) % s = r + k
      BY <2>1, ModIs
    <2> QED BY <1>1, <1>2, <2>2
  <1>3. CASE ~(r + k < s)
    <2>1. a + k = s * (q + 1) + (r + k - s) /\ r + k - s \in 0..(s - 1) /\ a + k \in Int /\ q + 1 \in Int
      BY SMT, <1>1, <1>3
    <2>2. (a + k) % s = r + k - s
      BY <2>1, ModIs
    <2> QED BY <1>1, <1>3, <2>2
  <1> QED BY <1>2, <1>3

\* Within a window of the size, different indices have different positions.
LEMMA ModInjective ==
    ASSUME NEW s \in Nat \ {0}, NEW a \in Int, NEW b \in Int, a % s = b % s,
           a - b < s, b - a < s
    PROVE  a = b
  <1>1. ASSUME NEW x \in Int, NEW y \in Int, x % s = y % s, y - x < s, x < y
        PROVE  FALSE
    <2>1. PICK k \in 0..s : k = y - x /\ k > 0 /\ k < s
      BY SMT, <1>1
    <2>2. (x + k) % s = IF (x % s) + k < s THEN (x % s) + k ELSE (x % s) + k - s
      BY ModAdd
    <2>3. x + k = y
      BY SMT, <2>1
    <2>4. x % s \in 0..(s - 1)
      BY ModRange
    <2> QED BY SMT, <1>1, <2>1, <2>2, <2>3, <2>4
  <1>2. ~(a < b) /\ ~(b < a)
    BY <1>1
  <1> QED BY SMT, <1>2

\* The remainder may be taken before or after going on.
LEMMA ModOfMod ==
    ASSUME NEW s \in Nat \ {0}, NEW a \in Int, NEW b \in Int
    PROVE  ((a % s) + b) % s = (a + b) % s
  <1>1. PICK p \in Int, c \in 0..(s - 1) : a = s * p + c /\ c = a % s
    BY Division
  <1>2. c + b \in Int
    BY SMT
  <1>3. PICK q \in Int, r \in 0..(s - 1) : c + b = s * q + r /\ r = (c + b) % s
    BY <1>2, Division
  <1>4. s * (p + q) = s * p + s * q /\ p + q \in Int /\ a + b \in Int
    BY SMT
  <1>5. a + b = s * (p + q) + r
    <2>1. PICK x \in Int, y \in Int : x = s * p /\ y = s * q
      BY SMT
    <2>2. a = x + c /\ c + b = y + r
      BY <1>1, <1>3, <2>1
    <2>3. a + b = x + y + r
      BY SMT, <2>2
    <2> QED BY <1>4, <2>1, <2>3
  <1>6. (a + b) % s = r
    BY <1>4, <1>5, ModIs
  <1>7. ((a % s) + b) % s = r
    BY <1>1, <1>3
  <1> QED BY <1>6, <1>7

-----------------------------------------------------------------------------
(* The size of the array after __ensurecapacity_batch.                     *)

\* A set of numbers has a least one.
LEMMA LeastNumber ==
    ASSUME NEW S \in SUBSET Nat, S # {}
    PROVE  \E n \in S : \A k \in S : n <= k
  <1> DEFINE R == {p \in Nat \X Nat : p[1] < p[2]}
  <1>1. IsWellFoundedOn(R, Nat)
    BY NatLessThanWellFounded DEF OpToRel
  <1>2. \A a, b \in Nat : a < b => <<a, b>> \in R
    OBVIOUS
  <1> HIDE DEF R
  <1>3. PICK n \in S : \A k \in S : <<k, n>> \notin R
    BY <1>1, WFMin
  <1>4. \A a, b \in Nat : ~(b < a) => a <= b
    BY SMT
  <1>5. \A k \in S : n \in Nat /\ k \in Nat /\ ~(k < n)
    BY <1>2, <1>3
  <1> QED BY <1>4, <1>5

\* f doubles s until c fits, for every s from m on.
DoublesFrom(f, c, m) ==
    \A s \in Nat : m <= s => f[s] = IF c <= s THEN s ELSE f[2 * s]

\* There is such a function, found from c downwards.
LEMMA DoublingExists ==
    ASSUME NEW c \in Nat
    PROVE  \E f \in [Nat -> Nat] : DoublesFrom(f, c, 1)
  <1> DEFINE M == {m \in Nat : m >= 1 /\ \E f \in [Nat -> Nat] : DoublesFrom(f, c, m)}
  <1>1. c + 1 \in M
    <2> DEFINE f == [s \in Nat |-> s]
    <2>1. f \in [Nat -> Nat]
      OBVIOUS
    <2>2. DoublesFrom(f, c, c + 1)
      BY SMT DEF DoublesFrom
    <2>3. c + 1 \in Nat /\ c + 1 >= 1
      BY SMT
    <2> QED BY <2>1, <2>2, <2>3
  <1>2. PICK m \in M : \A k \in M : m <= k
    <2>1. M \in SUBSET Nat /\ M # {}
      BY <1>1
    <2> HIDE DEF M
    <2> QED BY <2>1, LeastNumber
  <1>3. m \in Nat /\ m >= 1
    OBVIOUS
  <1>4. PICK f \in [Nat -> Nat] : DoublesFrom(f, c, m)
    OBVIOUS
  <1>5. ASSUME m > 1 PROVE FALSE
    <2>1. PICK k \in Nat : k = m - 1 /\ k >= 1 /\ k < m /\ 2 * k \in Nat /\ 2 * k >= m
      BY SMT, <1>3, <1>5
    <2> DEFINE g == [f EXCEPT ![k] = IF c <= k THEN k ELSE f[2 * k]]
    <2>2. g \in [Nat -> Nat]
      BY <2>1
    <2>3. ASSUME NEW s \in Nat, k <= s
          PROVE  g[s] = IF c <= s THEN s ELSE g[2 * s]
      <3>1. 2 * s \in Nat /\ 2 * s # k /\ (s # k => m <= s)
        BY SMT, <2>1, <2>3, <1>3
      <3>2. g[2 * s] = f[2 * s]
        BY <3>1
      <3>3. CASE s = k
        BY <3>2, <3>3
      <3>4. CASE s # k
        BY <1>4, <3>1, <3>2, <3>4 DEF DoublesFrom
      <3> QED BY <3>3, <3>4
    <2>4. k \in M
      <3> HIDE DEF g
      <3> QED BY <2>1, <2>2, <2>3 DEF DoublesFrom
    <2>5. m <= k
      BY <1>2, <2>4
    <2> QED BY SMT, <1>3, <2>1, <2>5
  <1>6. m = 1
    BY SMT, <1>3, <1>5
  <1> QED BY <1>4, <1>6

\* Every such function finds a size that holds c.
LEMMA DoublingFits ==
    ASSUME NEW c \in Nat, NEW f, DoublesFrom(f, c, 1), NEW s \in Nat \ {0}
    PROVE  f[s] \in Nat /\ c <= f[s] /\ s <= f[s]
  <1> DEFINE Good(x) == f[x] \in Nat /\ c <= f[x] /\ x <= f[x]
             M == {m \in Nat : \A x \in Nat : 1 <= x /\ m <= x => Good(x)}
  <1>1. c \in M
    <2>1. ASSUME NEW x \in Nat, 1 <= x, c <= x PROVE Good(x)
      <3>1. f[x] = x
        BY <2>1 DEF DoublesFrom
      <3> QED BY SMT, <2>1, <3>1
    <2> QED BY <2>1
  <1>2. PICK m \in M : \A k \in M : m <= k
    <2>1. M \in SUBSET Nat /\ M # {}
      BY <1>1
    <2> HIDE DEF M
    <2> QED BY <2>1, LeastNumber
  <1>3. m \in Nat /\ \A x \in Nat : 1 <= x /\ m <= x => Good(x)
    OBVIOUS
  <1>4. ASSUME m > 1 PROVE FALSE
    <2>1. PICK k \in Nat : k = m - 1 /\ k >= 1 /\ 2 * k \in Nat /\ 2 * k >= m /\ 2 * k >= 1
      BY SMT, <1>3, <1>4
    <2>2. Good(2 * k)
      BY <1>3, <2>1
    <2>3. f[k] = IF c <= k THEN k ELSE f[2 * k]
      BY <2>1 DEF DoublesFrom
    <2>4. Good(k)
      BY SMT, <2>1, <2>2, <2>3
    <2>5. ASSUME NEW x \in Nat, 1 <= x, k <= x PROVE Good(x)
      <3>1. x = k \/ m <= x
        BY SMT, <1>3, <2>1, <2>5
      <3> QED BY <1>3, <2>4, <2>5, <3>1
    <2>6. k \in M
      BY <2>5
    <2>7. m <= k
      BY <1>2, <2>6
    <2> QED BY SMT, <1>3, <2>1, <2>7
  <1>5. 1 <= s /\ m <= s /\ s \in Nat
    BY SMT, <1>3, <1>4
  <1> QED BY <1>3, <1>5

\* The loop ends with room for n more entries.
LEMMA CapacityFits ==
    ASSUME NEW n \in Nat, count \in Nat, size \in Nat \ {0}
    PROVE  Capacity(n) \in Nat /\ count + n <= Capacity(n) /\ size <= Capacity(n)
  <1> DEFINE c == count + n
             Eq(f) == f = [s \in Nat |-> IF c <= s THEN s ELSE f[2 * s]]
  <1>0. c \in Nat
    BY SMT
  <1>1. PICK g \in [Nat -> Nat] : DoublesFrom(g, c, 1)
    BY <1>0, DoublingExists
  <1>2. \E f : Eq(f)
    <2> DEFINE h == [g EXCEPT ![0] = 0]
    <2>1. ASSUME NEW s \in Nat PROVE h[s] = IF c <= s THEN s ELSE h[2 * s]
      <3>1. CASE s = 0
        <4>1. 2 * s = 0
          BY SMT, <3>1
        <4> QED BY <3>1, <4>1
      <3>2. CASE s # 0
        <4>1. 2 * s # 0 /\ 2 * s \in Nat /\ 1 <= s
          BY SMT, <3>2
        <4> HIDE DEF c
        <4>2. h[s] = g[s] /\ h[2 * s] = g[2 * s]
          BY <3>2, <4>1
        <4>3. g[s] = IF c <= s THEN s ELSE g[2 * s]
          BY <1>1, <4>1 DEF DoublesFrom
        <4> QED BY <4>2, <4>3
      <3> QED BY <3>1, <3>2
    <2>2. h \in [Nat -> Nat]
      OBVIOUS
    <2> HIDE DEF h, c
    <2>3. Eq(h)
      BY <2>1, <2>2
    <2> QED BY <2>3
  <1> DEFINE D == CHOOSE f : Eq(f)
  <1>3. Eq(D)
    BY <1>2
  <1>4. Capacity(n) = D[size]
    BY DEF Capacity
  <1>5. DoublesFrom(D, c, 1)
    <2> HIDE DEF D, c
    <2> QED BY <1>3 DEF DoublesFrom
  <1>6. D[size] \in Nat /\ c <= D[size] /\ size <= D[size]
    <2> HIDE DEF D, c
    <2> QED BY <1>0, <1>5, DoublingFits
  <1> QED BY <1>4, <1>6
-----------------------------------------------------------------------------
(* The inductive invariant.                                                *)

\* The element at index i.
At(i) == entries[REL_POS(i, size)]

\* The indices of live entries.
Window == front..(back - 1)

\* How the indices lie: the window fits in both rings, and compaction stays
\* behind the executors.
Indices ==
    /\ count = back - front /\ count <= size /\ count < LOG_ENTRIES
    /\ tail = (head + count) % LOG_ENTRIES
    /\ front <= log_base /\ log_base <= back /\ appended <= MaxId
    /\ LaggersAreServed

\* What the window holds: the slots of the circular log in turn, and entries
\* that were offered, no two of them the same.
Contents ==
    \A i \in Window :
        /\ At(i).slot = (head + (i - front)) % LOG_ENTRIES
        /\ data[At(i).slot] = At(i).id
        /\ At(i).id \in 1..appended
        /\ \A j \in Window : At(i).id = At(j).id => i = j

\* The packets of entries that were offered and are gone have been freed.
FreedSoFar ==
    \A e \in Id :
        freed[e] = IF e <= appended /\ ~\E i \in Window : At(i).id = e THEN 1 ELSE 0

LogInv == TypeOK /\ Indices /\ Contents /\ FreedSoFar

-----------------------------------------------------------------------------
(* What the rings do, given the invariant.                                 *)

\* The numbers of the log, for arithmetic.
LEMMA Numbers ==
    ASSUME TypeOK, Indices
    PROVE  /\ size \in Nat \ {0} /\ LOG_ENTRIES \in Nat \ {0} /\ log_target \in Nat \ {0}
           /\ count \in Nat /\ front \in Nat /\ back \in Nat /\ appended \in Nat
           /\ head \in 0..(LOG_ENTRIES - 1) /\ tail \in 0..(LOG_ENTRIES - 1)
           /\ log_base \in Nat /\ last_compacted_idx \in Nat
           /\ MaxId \in Nat /\ MaxBatch \in Nat
           /\ back = front + count /\ front <= back
  <1>1. /\ size \in Nat \ {0} /\ LOG_ENTRIES \in Nat \ {0} /\ log_target \in Nat \ {0}
        /\ count \in Nat /\ front \in Nat /\ back \in Nat /\ appended \in Nat
        /\ head \in 0..(LOG_ENTRIES - 1) /\ tail \in 0..(LOG_ENTRIES - 1)
        /\ log_base \in Nat /\ last_compacted_idx \in Nat
        /\ MaxId \in Nat /\ MaxBatch \in Nat
    BY LogAssumption DEF TypeOK
  <1>2. back = front + count /\ front <= back
    BY SMT, <1>1 DEF Indices
  <1> QED BY <1>1, <1>2

\* A number below the modulus is its own remainder.
LEMMA ModSmall ==
    ASSUME NEW s \in Nat \ {0}, NEW a \in 0..(s - 1)
    PROVE  a % s = a
  <1>1. a \in Int /\ 0 \in Int /\ a = s * 0 + a
    BY SMT
  <1> QED BY <1>1, ModIs

\* The slots filled next are those behind the live ones.
LEMMA SlotIs ==
    ASSUME TypeOK, Indices, NEW k \in Nat
    PROVE  Slot(k) = (head + (count + k)) % LOG_ENTRIES /\ Slot(k) \in 0..(LOG_ENTRIES - 1)
  <1>1. head + count \in Int /\ k \in Int /\ (head + count) + k = head + (count + k) /\ tail + k \in Int
    BY SMT, Numbers
  <1>2. LOG_ENTRIES \in Nat \ {0}
    BY Numbers
  <1>3. (((head + count) % LOG_ENTRIES) + k) % LOG_ENTRIES = ((head + count) + k) % LOG_ENTRIES
    BY <1>1, <1>2, ModOfMod
  <1> QED BY <1>1, <1>2, <1>3, ModRange DEF Slot, Indices

\* log_offer leaves one slot free.
LEMMA Room ==
    ASSUME TypeOK, Indices, NEW n \in Nat, ~LogFull(n)
    PROVE  count + n < LOG_ENTRIES
  <1> SUFFICES ASSUME ~(count + n < LOG_ENTRIES) PROVE FALSE
    OBVIOUS
  <1>1. PICK k \in 1..n : count + k = LOG_ENTRIES
    <2>1. LOG_ENTRIES - count \in 1..n /\ count + (LOG_ENTRIES - count) = LOG_ENTRIES
      BY SMT, Numbers DEF Indices
    <2> QED BY <2>1
  <1>2. k \in Nat /\ LOG_ENTRIES \in Nat \ {0} /\ LOG_ENTRIES \in 0..LOG_ENTRIES /\ head \in Int
    BY SMT, Numbers
  <1>3. Slot(k) = (head + LOG_ENTRIES) % LOG_ENTRIES
    BY <1>1, <1>2, SlotIs
  <1>4. head % LOG_ENTRIES = head
    BY <1>2, Numbers, ModSmall
  <1>5. (head + LOG_ENTRIES) % LOG_ENTRIES =
            IF head + LOG_ENTRIES < LOG_ENTRIES THEN head + LOG_ENTRIES ELSE head + LOG_ENTRIES - LOG_ENTRIES
    BY <1>2, <1>4, ModAdd
  <1>6. (head + LOG_ENTRIES) % LOG_ENTRIES = head
    BY SMT, <1>5, Numbers
  <1> QED BY <1>1, <1>3, <1>6 DEF LogFull

\* log_append_batch copies each entry to the place of its index.
LEMMA PlaceIs ==
    ASSUME NEW s \in Nat \ {0}, back \in Nat, NEW n \in Nat, n <= s, NEW k \in 0..(n - 1)
    PROVE  Place(s, n, k) = REL_POS(back + k, s)
  <1>1. k \in 0..s /\ n - 1 \in 0..s /\ back \in Int /\ back + n - 1 = back + (n - 1)
    BY SMT
  <1>2. back % s \in 0..(s - 1)
    BY <1>1, ModRange
  <1>3. (back + k) % s = IF (back % s) + k < s THEN (back % s) + k ELSE (back % s) + k - s
    BY <1>1, ModAdd
  <1>4. (back + (n - 1)) % s =
            IF (back % s) + (n - 1) < s THEN (back % s) + (n - 1) ELSE (back % s) + (n - 1) - s
    BY <1>1, ModAdd
  <1>5. PICK b \in 0..(s - 1) : b = back % s
    BY <1>2
  <1>6. PICK x, y : x = (back + k) % s /\ y = (back + (n - 1)) % s
    OBVIOUS
  <1>7. Place(s, n, k) = IF y >= b \/ k < s - b THEN b + k ELSE k - (s - b)
    BY <1>1, <1>5, <1>6 DEF Place, REL_POS
  <1>8. /\ x = IF b + k < s THEN b + k ELSE b + k - s
        /\ y = IF b + (n - 1) < s THEN b + (n - 1) ELSE b + (n - 1) - s
    BY <1>3, <1>4, <1>5, <1>6
  <1>9. Place(s, n, k) = x
    BY SMT, <1>7, <1>8
  <1> QED BY <1>6, <1>9 DEF REL_POS

\* Live elements keep their index when the array grows.
LEMMA CopiedKeeps ==
    ASSUME TypeOK, Indices, NEW s \in Nat, size <= s
    PROVE  /\ Copied(s) \in [0..(s - 1) -> Element]
           /\ \A i \in Window : Copied(s)[REL_POS(i, s)] = At(i)
  <1>1. CASE s = size
    BY <1>1 DEF Copied, TypeOK, At
  <1>2. CASE s # size
    <2> DEFINE Here(p) == {i \in front..(back - 1) : REL_POS(i, s) = p}
    <2>0. s \in Nat \ {0} /\ size \in Nat \ {0}
      BY SMT, Numbers
    <2>1. Copied(s) = [p \in 0..(s - 1) |->
              IF Here(p) = {} THEN Zero ELSE entries[REL_POS(CHOOSE i \in Here(p) : TRUE, size)]]
      BY <1>2 DEF Copied
    <2>2. Zero \in Element
      <3>1. 0 \in 0..MaxId /\ 0 \in 0..(LOG_ENTRIES - 1)
        BY SMT, Numbers
      <3> QED BY <3>1 DEF Zero, Element
    <2>3. ASSUME NEW i \in front..(back - 1)
          PROVE  i \in Int /\ entries[REL_POS(i, size)] \in Element
      <3>1. i \in Int
        BY SMT, Numbers
      <3>2. REL_POS(i, size) \in 0..(size - 1)
        BY <2>0, <3>1, ModRange DEF REL_POS
      <3> QED BY <3>1, <3>2 DEF TypeOK
    <2>4. ASSUME NEW p \in 0..(s - 1), Here(p) # {}
          PROVE  (CHOOSE i \in Here(p) : TRUE) \in Here(p)
      BY <2>4
    <2>5. Copied(s) \in [0..(s - 1) -> Element]
      <3>1. ASSUME NEW p \in 0..(s - 1)
            PROVE  (IF Here(p) = {} THEN Zero ELSE entries[REL_POS(CHOOSE i \in Here(p) : TRUE, size)]) \in Element
        <4>1. CASE Here(p) = {}
          BY <2>2, <4>1
        <4>2. CASE Here(p) # {}
          <5>1. PICK i \in Here(p) : i = CHOOSE j \in Here(p) : TRUE
            BY <2>4, <4>2
          <5>2. entries[REL_POS(i, size)] \in Element
            BY <2>3
          <5> QED BY <4>2, <5>1, <5>2
        <4> QED BY <4>1, <4>2
      <3> HIDE DEF Here
      <3> QED BY <2>1, <3>1
    <2>6. ASSUME NEW i \in Window
          PROVE  Copied(s)[REL_POS(i, s)] = At(i)
      <3>1. i \in front..(back - 1) /\ i \in Int
        BY <2>3 DEF Window
      <3>2. REL_POS(i, s) \in 0..(s - 1)
        BY <2>0, <3>1, ModRange DEF REL_POS
      <3>3. Here(REL_POS(i, s)) = {i}
        <4>1. ASSUME NEW j \in front..(back - 1), REL_POS(j, s) = REL_POS(i, s) PROVE j = i
          <5>1. j \in Int /\ i - j < s /\ j - i < s
            BY SMT, <3>1, Numbers DEF Indices
          <5> QED BY <2>0, <3>1, <4>1, <5>1, ModInjective DEF REL_POS
        <4> QED BY <3>1, <4>1
      <3>4. (CHOOSE j \in Here(REL_POS(i, s)) : TRUE) = i
        BY <3>3
      <3> HIDE DEF Here
      <3> QED BY <2>1, <3>2, <3>3, <3>4 DEF At
    <2> QED BY <2>5, <2>6
  <1> QED BY <1>1, <1>2

-----------------------------------------------------------------------------
(* Appending.                                                              *)

\* What a successful append does to the array.
LEMMA AppendedArray ==
    ASSUME TypeOK, Indices, NEW n \in 1..MaxBatch, log_append_batch(n)
    PROVE  /\ size' \in Nat \ {0} /\ count + n <= size'
           /\ entries' \in [0..(size' - 1) -> Element]
           /\ \A i \in Window : At(i)' = At(i)
           /\ \A k \in 0..(n - 1) : \A i \in Int : i = back + k =>
                 At(i)' = [id |-> appended + 1 + k, slot |-> Slot(k)]
  <1> DEFINE s == Capacity(n)
             New(p) == {k \in 0..(n - 1) : Place(s, n, k) = p}
             Entry(k) == [id |-> appended + 1 + k, slot |-> Slot(k)]
  <1>1. n \in Nat /\ n > 0 /\ appended + n <= MaxId
    BY SMT, Numbers DEF log_append_batch
  <1>2. s \in Nat /\ count + n <= s /\ size <= s
    BY <1>1, Numbers, CapacityFits
  <1>3. s \in Nat \ {0} /\ n <= s /\ size' = s
    <2>1. size' = s
      BY DEF log_append_batch
    <2> HIDE DEF s
    <2>2. s \in Nat \ {0} /\ n <= s
      BY SMT, <1>1, <1>2, Numbers
    <2> QED BY <2>1, <2>2
  <1>4. entries' = [p \in 0..(s - 1) |->
            IF New(p) = {} THEN Copied(s)[p] ELSE Entry(CHOOSE k \in New(p) : TRUE)]
    BY DEF log_append_batch
  <1> HIDE DEF s
  <1>5. /\ Copied(s) \in [0..(s - 1) -> Element]
        /\ \A i \in Window : Copied(s)[REL_POS(i, s)] = At(i)
    BY <1>2, CopiedKeeps
  <1>6. ASSUME NEW k \in 0..(n - 1)
        PROVE  /\ Place(s, n, k) = REL_POS(back + k, s) /\ k \in Nat /\ back + k \in Int
               /\ REL_POS(back + k, s) \in 0..(s - 1)
               /\ Entry(k) \in Element
    <2>1. k \in Nat /\ back + k \in Int /\ appended + 1 + k \in 0..MaxId
      BY SMT, <1>1, Numbers
    <2>2. Place(s, n, k) = REL_POS(back + k, s)
      BY <1>1, <1>3, Numbers, PlaceIs
    <2>3. REL_POS(back + k, s) \in 0..(s - 1)
      BY <1>3, <2>1, ModRange DEF REL_POS
    <2>4. Slot(k) \in 0..(LOG_ENTRIES - 1)
      BY <2>1, SlotIs
    <2>5. Entry(k) \in Element
      BY <2>1, <2>4 DEF Element
    <2> QED BY <2>1, <2>2, <2>3, <2>5
  <1>7. entries' \in [0..(s - 1) -> Element]
    <2>1. ASSUME NEW p \in 0..(s - 1)
          PROVE  (IF New(p) = {} THEN Copied(s)[p] ELSE Entry(CHOOSE k \in New(p) : TRUE)) \in Element
      <3>1. CASE New(p) = {}
        BY <1>5, <3>1
      <3>2. CASE New(p) # {}
        <4>1. PICK k \in New(p) : k = CHOOSE j \in New(p) : TRUE
          BY <3>2
        <4>2. k \in 0..(n - 1)
          OBVIOUS
        <4>3. Entry(k) \in Element
          BY <1>6, <4>2
        <4> QED BY <3>2, <4>1, <4>3
      <3> QED BY <3>1, <3>2
    <2> HIDE DEF New, Entry
    <2> QED BY <1>4, <2>1
  <1>8. ASSUME NEW i \in Window
        PROVE  At(i)' = At(i)
    <2>1. i \in Int
      BY SMT, Numbers DEF Window
    <2>2. REL_POS(i, s) \in 0..(s - 1)
      BY <1>3, <2>1, ModRange DEF REL_POS
    <2>3. New(REL_POS(i, s)) = {}
      <3> SUFFICES ASSUME NEW k \in 0..(n - 1), Place(s, n, k) = REL_POS(i, s) PROVE FALSE
        OBVIOUS
      <3>1. REL_POS(back + k, s) = REL_POS(i, s) /\ back + k \in Int
        BY <1>6
      <3>2. i - (back + k) < s /\ (back + k) - i < s /\ i # back + k
        BY SMT, <1>1, <1>2, Numbers DEF Window
      <3> QED BY <1>3, <2>1, <3>1, <3>2, ModInjective DEF REL_POS
    <2> HIDE DEF New
    <2>4. entries'[REL_POS(i, s)] = Copied(s)[REL_POS(i, s)]
      BY <1>4, <2>2, <2>3
    <2> QED BY <1>3, <1>5, <2>4 DEF At
  <1>9. ASSUME NEW k \in 0..(n - 1), NEW i \in Int, i = back + k
        PROVE  At(i)' = Entry(k)
    <2>1. REL_POS(back + k, s) \in 0..(s - 1)
      BY <1>6
    <2>2. New(REL_POS(back + k, s)) = {k}
      <3>1. k \in New(REL_POS(back + k, s))
        BY <1>6
      <3>2. ASSUME NEW j \in 0..(n - 1), Place(s, n, j) = REL_POS(back + k, s) PROVE j = k
        <4>1. REL_POS(back + j, s) = REL_POS(back + k, s) /\ back + k \in Int /\ back + j \in Int
          BY <1>6, <3>2
        <4>2. (back + k) - (back + j) < s /\ (back + j) - (back + k) < s
          BY SMT, <1>1, <1>3, Numbers
        <4>3. back + j = back + k
          BY <1>3, <4>1, <4>2, ModInjective DEF REL_POS
        <4> QED BY SMT, <1>1, <4>3, Numbers
      <3> QED BY <3>1, <3>2
    <2>3. (CHOOSE j \in New(REL_POS(back + k, s)) : TRUE) = k
      BY <2>2
    <2> HIDE DEF New, Entry
    <2>4. entries'[REL_POS(back + k, s)] = Entry(k)
      BY <1>4, <2>1, <2>2, <2>3
    <2> QED BY <1>3, <1>9, <2>4 DEF At
  <1> QED BY <1>2, <1>3, <1>7, <1>8, <1>9

\* And to the slots of the circular log.
LEMMA AppendedSlots ==
    ASSUME TypeOK, Indices, NEW n \in 1..MaxBatch, log_append_batch(n)
    PROVE  /\ data' \in [0..(LOG_ENTRIES - 1) -> 0..MaxId]
           /\ \A k \in 0..(n - 1) : data'[Slot(k)] = appended + 1 + k
           /\ \A d \in 0..(count - 1) :
                 data'[(head + d) % LOG_ENTRIES] = data[(head + d) % LOG_ENTRIES]
  <1> DEFINE New(p) == {k \in 0..(n - 1) : Slot(k) = p}
  <1>1. n \in Nat /\ n > 0 /\ appended + n <= MaxId
    BY SMT, Numbers DEF log_append_batch
  <1>2. count + n < LOG_ENTRIES
    BY <1>1, Room DEF log_append_batch
  <1>3. data' = [p \in 0..(LOG_ENTRIES - 1) |->
            IF New(p) = {} THEN data[p] ELSE appended + 1 + (CHOOSE k \in New(p) : TRUE)]
    BY DEF log_append_batch, TypeOK
  <1>4. ASSUME NEW k \in 0..(n - 1)
        PROVE  /\ k \in Nat /\ Slot(k) \in 0..(LOG_ENTRIES - 1)
               /\ Slot(k) = (head + (count + k)) % LOG_ENTRIES /\ head + (count + k) \in Int
               /\ appended + 1 + k \in 0..MaxId
    <2>1. k \in Nat /\ head + (count + k) \in Int /\ appended + 1 + k \in 0..MaxId
      BY SMT, <1>1, Numbers
    <2> QED BY <2>1, SlotIs
  <1>5. data' \in [0..(LOG_ENTRIES - 1) -> 0..MaxId]
    <2>1. ASSUME NEW p \in 0..(LOG_ENTRIES - 1)
          PROVE  (IF New(p) = {} THEN data[p] ELSE appended + 1 + (CHOOSE k \in New(p) : TRUE)) \in 0..MaxId
      <3>1. CASE New(p) = {}
        BY <3>1 DEF TypeOK
      <3>2. CASE New(p) # {}
        <4>1. PICK k \in New(p) : k = CHOOSE j \in New(p) : TRUE
          BY <3>2
        <4>2. appended + 1 + k \in 0..MaxId
          BY <1>4
        <4> QED BY <3>2, <4>1, <4>2
      <3> QED BY <3>1, <3>2
    <2> HIDE DEF New
    <2> QED BY <1>3, <2>1
  <1>6. ASSUME NEW k \in 0..(n - 1)
        PROVE  data'[Slot(k)] = appended + 1 + k
    <2>1. New(Slot(k)) = {k}
      <3>1. ASSUME NEW j \in 0..(n - 1), Slot(j) = Slot(k) PROVE j = k
        <4>1. /\ (head + (count + j)) - (head + (count + k)) < LOG_ENTRIES
              /\ (head + (count + k)) - (head + (count + j)) < LOG_ENTRIES
          BY SMT, <1>1, <1>2, Numbers
        <4>2. head + (count + j) = head + (count + k)
          BY <1>4, <3>1, <4>1, Numbers, ModInjective
        <4> QED BY SMT, <1>1, <4>2, Numbers
      <3> QED BY <3>1
    <2>2. (CHOOSE j \in New(Slot(k)) : TRUE) = k
      BY <2>1
    <2> HIDE DEF New
    <2> QED BY <1>3, <1>4, <2>1, <2>2
  <1>7. ASSUME NEW d \in 0..(count - 1)
        PROVE  data'[(head + d) % LOG_ENTRIES] = data[(head + d) % LOG_ENTRIES]
    <2>1. head + d \in Int /\ LOG_ENTRIES \in Nat \ {0}
      BY SMT, Numbers
    <2>2. (head + d) % LOG_ENTRIES \in 0..(LOG_ENTRIES - 1)
      BY <2>1, ModRange
    <2>3. New((head + d) % LOG_ENTRIES) = {}
      <3> SUFFICES ASSUME NEW k \in 0..(n - 1), Slot(k) = (head + d) % LOG_ENTRIES PROVE FALSE
        OBVIOUS
      <3>1. /\ (head + (count + k)) - (head + d) < LOG_ENTRIES
            /\ (head + d) - (head + (count + k)) < LOG_ENTRIES
            /\ head + (count + k) # head + d
        BY SMT, <1>1, <1>2, Numbers
      <3> QED BY <1>4, <2>1, <3>1, ModInjective
    <2> HIDE DEF New
    <2> QED BY <1>3, <2>2, <2>3
  <1> QED BY <1>5, <1>6, <1>7

\* log_append_batch keeps the invariant.
LEMMA AppendKeeps ==
    ASSUME LogInv, NEW n \in 1..MaxBatch, log_append_batch(n)
    PROVE  LogInv'
  <1> USE DEF LogInv
  <1>1. n \in Nat /\ n > 0 /\ appended + n <= MaxId
    BY SMT, Numbers DEF log_append_batch
  <1>2. count + n < LOG_ENTRIES
    BY <1>1, Room DEF log_append_batch
  <1>3. /\ count' = count + n /\ back' = back + n /\ appended' = appended + n /\ tail' = Slot(n)
        /\ front' = front /\ head' = head /\ log_base' = log_base
        /\ last_compacted_idx' = last_compacted_idx /\ freed' = freed /\ running' = running
    BY DEF log_append_batch, compactVars
  <1>4. /\ size' \in Nat \ {0} /\ count + n <= size'
        /\ entries' \in [0..(size' - 1) -> Element]
        /\ \A i \in Window : At(i)' = At(i)
        /\ \A k \in 0..(n - 1) : \A i \in Int : i = back + k =>
                 At(i)' = [id |-> appended + 1 + k, slot |-> Slot(k)]
    BY AppendedArray
  <1>5. /\ data' \in [0..(LOG_ENTRIES - 1) -> 0..MaxId]
        /\ \A k \in 0..(n - 1) : data'[Slot(k)] = appended + 1 + k
        /\ \A d \in 0..(count - 1) :
              data'[(head + d) % LOG_ENTRIES] = data[(head + d) % LOG_ENTRIES]
    BY AppendedSlots
  <1>6. Slot(n) = (head + (count + n)) % LOG_ENTRIES /\ Slot(n) \in 0..(LOG_ENTRIES - 1)
    BY <1>1, SlotIs
  <1>7. TypeOK'
    <2>1. {count', front', back', appended'} \subseteq Nat /\ {head', tail'} \subseteq 0..(LOG_ENTRIES - 1)
      <3>1. count + n \in Nat /\ back + n \in Nat /\ appended + n \in Nat
        BY SMT, <1>1, Numbers
      <3> QED BY <1>3, <1>6, <3>1, Numbers
    <2> QED BY <1>3, <1>4, <1>5, <2>1 DEF TypeOK
  <1>8. Indices'
    <2>1. count + n = (back + n) - front /\ log_base <= back + n
      BY SMT, <1>1, Numbers DEF Indices
    <2> QED BY <1>1, <1>2, <1>3, <1>4, <1>6, <2>1 DEF Indices, LaggersAreServed
  <1>a. Window' = front..((back + n) - 1)
    BY <1>3, Zenon DEF Window
  <1>9. ASSUME NEW i \in Window'
        PROVE  /\ i \in Int
               /\ \/ i \in Window
                  \/ \E k \in 0..(n - 1) : i = back + k
    <2>1. i \in front..((back + n) - 1)
      BY <1>a
    <2>2. i \in Int
      BY SMT, <2>1, Numbers
    <2>3. i \in front..(back - 1) \/ (i - back \in 0..(n - 1) /\ i = back + (i - back))
      BY SMT, <1>1, <2>1, Numbers
    <2> QED BY <2>2, <2>3 DEF Window
  <1>10. \A i \in Window : i \in Window'
    <2>1. \A i \in front..(back - 1) : i \in front..((back + n) - 1)
      BY SMT, <1>1, Numbers
    <2> QED BY <1>a, <2>1 DEF Window
  <1>11. ASSUME NEW i \in Window
         PROVE  /\ i - front \in 0..(count - 1) /\ i \in Int
                /\ At(i)'.slot = (head + (i - front)) % LOG_ENTRIES
                /\ data'[At(i)'.slot] = At(i)'.id /\ At(i)'.id = At(i).id
                /\ At(i)'.id \in 1..appended
    <2>1. i - front \in 0..(count - 1) /\ i \in Int
      BY SMT, Numbers DEF Window
    <2> QED BY <1>4, <1>5, <2>1 DEF Contents
  <1>12. ASSUME NEW k \in 0..(n - 1), NEW i \in Int, i = back + k
         PROVE  /\ At(i)'.slot = (head + (i - front)) % LOG_ENTRIES
                /\ data'[At(i)'.slot] = At(i)'.id
                /\ At(i)'.id = appended + 1 + k
                /\ appended + 1 + k \in 1..(appended + n) /\ appended + 1 + k \notin 1..appended
    <2>1. k \in Nat /\ count + k = i - front /\ appended + 1 + k \in 1..(appended + n)
          /\ appended + 1 + k \notin 1..appended
      BY SMT, <1>1, <1>12, Numbers
    <2>2. Slot(k) = (head + (count + k)) % LOG_ENTRIES
      BY <2>1, SlotIs
    <2>3. At(i)' = [id |-> appended + 1 + k, slot |-> Slot(k)]
      BY <1>4, <1>12
    <2>4. At(i)'.id = appended + 1 + k /\ At(i)'.slot = Slot(k)
      BY <2>3
    <2> QED BY <1>5, <2>1, <2>2, <2>4
  <1>13. Contents'
    <2>1. ASSUME NEW i \in Window'
          PROVE  /\ At(i)'.slot = (head + (i - front)) % LOG_ENTRIES
                 /\ data'[At(i)'.slot] = At(i)'.id
                 /\ At(i)'.id \in 1..(appended + n)
      <3>1. \A x \in 1..appended : x \in 1..(appended + n)
        BY SMT, <1>1, Numbers
      <3> QED BY <1>9, <1>11, <1>12, <3>1
    <2>2. ASSUME NEW i \in Window', NEW j \in Window', At(i)'.id = At(j)'.id
          PROVE  i = j
      <3>1. CASE i \in Window /\ j \in Window
        BY <1>11, <2>2, <3>1 DEF Contents
      <3>2. CASE i \in Window /\ \E k \in 0..(n - 1) : j = back + k
        BY <1>11, <1>12, <2>2, <3>2
      <3>3. CASE j \in Window /\ \E k \in 0..(n - 1) : i = back + k
        BY <1>11, <1>12, <2>2, <3>3
      <3>4. CASE (\E k \in 0..(n - 1) : i = back + k) /\ \E k \in 0..(n - 1) : j = back + k
        <4>1. PICK k \in 0..(n - 1), l \in 0..(n - 1) : i = back + k /\ j = back + l
          BY <3>4
        <4>2. appended + 1 + k = appended + 1 + l
          BY <1>12, <2>2, <4>1
        <4>3. k = l
          BY SMT, <1>1, <4>2, Numbers
        <4> QED BY <4>1, <4>3
      <3> QED BY <1>9, <3>1, <3>2, <3>3, <3>4
    <2> QED BY <1>3, <2>1, <2>2 DEF Contents
  <1>14. FreedSoFar'
    <2> SUFFICES ASSUME NEW e \in Id
                 PROVE  freed[e] = IF e <= appended + n /\ ~\E i \in Window' : At(i)'.id = e THEN 1 ELSE 0
      BY <1>3 DEF FreedSoFar
    <2>1. freed[e] = IF e <= appended /\ ~\E i \in Window : At(i).id = e THEN 1 ELSE 0
      BY DEF FreedSoFar
    <2>2. e \in Nat /\ e >= 1
      BY SMT, Numbers DEF Id
    <2>3. CASE e <= appended
      <3>1. e <= appended + n
        BY SMT, <1>1, <2>2, <2>3, Numbers
      <3>2. (\E i \in Window' : At(i)'.id = e) <=> (\E i \in Window : At(i).id = e)
        <4>1. e \in 1..appended
          BY SMT, <2>2, <2>3, Numbers
        <4> QED BY <1>9, <1>10, <1>11, <1>12, <4>1
      <3> QED BY <2>1, <2>3, <3>1, <3>2
    <2>4. CASE ~(e <= appended)
      <3>1. freed[e] = 0
        BY <2>1, <2>4
      <3>2. ASSUME e <= appended + n PROVE \E i \in Window' : At(i)'.id = e
        <4>1. PICK k \in 0..(n - 1) : e = appended + 1 + k
          <5>1. e - appended - 1 \in 0..(n - 1) /\ e = appended + 1 + (e - appended - 1)
            BY SMT, <1>1, <2>2, <2>4, <3>2, Numbers
          <5> QED BY <5>1
        <4>2. PICK i \in Int : i = back + k /\ i \in front..((back + n) - 1)
          BY SMT, <1>1, Numbers
        <4>3. i \in Window'
          BY <1>a, <4>2
        <4> QED BY <1>12, <4>1, <4>2, <4>3
      <3> QED BY <3>1, <3>2
    <2> QED BY <2>3, <2>4
  <1> QED BY <1>7, <1>8, <1>13, <1>14

-----------------------------------------------------------------------------
(* Deleting and compacting.                                                *)

\* Removing entries and freeing their packets keeps the books.
LEMMA FreeingKeeps ==
    ASSUME LogInv, NEW Gone \in SUBSET Window, Window' = Window \ Gone,
           Free({REL_POS(i, size) : i \in Gone}),
           size' = size, entries' = entries, appended' = appended
    PROVE  FreedSoFar' /\ freed' \in [Id -> Nat]
  <1> USE DEF LogInv
  <1>1. ASSUME NEW e \in Id
        PROVE  freed'[e] = IF \E i \in Gone : At(i).id = e THEN freed[e] + 1 ELSE freed[e]
    BY DEF Free, At
  <1>2. ASSUME NEW e \in Id
        PROVE  /\ freed[e] \in Nat
               /\ freed[e] = IF e <= appended /\ ~\E i \in Window : At(i).id = e THEN 1 ELSE 0
    BY DEF FreedSoFar, TypeOK
  <1>3. \A i : At(i)' = At(i)
    BY DEF At
  <1>4. ASSUME NEW e \in Id
        PROVE  freed'[e] = IF e <= appended /\ ~\E i \in Window' : At(i).id = e THEN 1 ELSE 0
    <2>1. CASE \E i \in Gone : At(i).id = e
      <3>1. PICK i \in Gone : At(i).id = e
        BY <2>1
      <3>2. i \in Window /\ e \in 1..appended
        BY <3>1 DEF Contents
      <3>3. freed[e] = 0
        BY <1>2, <3>1, <3>2
      <3>4. ~\E j \in Window' : At(j).id = e
        BY <3>1, <3>2 DEF Contents
      <3>5. e <= appended
        BY SMT, <3>2, Numbers
      <3>6. freed'[e] = freed[e] + 1
        BY <1>1, <2>1
      <3>7. freed'[e] = 1
        BY SMT, <3>3, <3>6
      <3> QED BY <3>4, <3>5, <3>7
    <2>2. CASE ~\E i \in Gone : At(i).id = e
      <3>1. (\E i \in Window' : At(i).id = e) <=> (\E i \in Window : At(i).id = e)
        BY <2>2
      <3> QED BY <1>1, <1>2, <2>2, <3>1
    <2> QED BY <2>1, <2>2
  <1>5. freed' \in [Id -> Nat]
    <2>1. ASSUME NEW e \in Id
          PROVE  (IF \E p \in {REL_POS(i, size) : i \in Gone} : entries[p].id = e
                  THEN freed[e] + 1 ELSE freed[e]) \in Nat
      <3>1. freed[e] \in Nat /\ freed[e] + 1 \in Nat
        BY SMT, <1>2
      <3> QED BY <3>1
    <2> QED BY <2>1 DEF Free
  <1> QED BY <1>3, <1>4, <1>5 DEF FreedSoFar

\* log_delete keeps the invariant.
LEMMA DeleteKeeps ==
    ASSUME LogInv, NEW idx \in (log_base + 1)..back, log_delete(idx)
    PROVE  LogInv'
  <1> USE DEF LogInv
  <1> DEFINE d == back - (idx - 1)
  <1>1. /\ back' = idx - 1 /\ count' = count - d /\ tail' = (tail - d) % LOG_ENTRIES
        /\ Free({REL_POS(i, size) : i \in (idx - 1)..(back - 1)})
        /\ size' = size /\ front' = front /\ entries' = entries /\ head' = head /\ data' = data
        /\ log_base' = log_base /\ last_compacted_idx' = last_compacted_idx
        /\ appended' = appended /\ running' = running
    BY DEF log_delete, compactVars
  <1>2. /\ idx \in Nat /\ idx - 1 \in Nat /\ log_base <= idx - 1 /\ idx - 1 < back
        /\ d \in Int /\ count - d \in Nat /\ count - d = (idx - 1) - front /\ d > 0
        /\ head + count \in Int /\ tail - d \in Int
    <2>1. front <= log_base /\ log_base <= back
      BY DEF Indices
    <2>2. idx \in Int /\ log_base + 1 <= idx /\ idx <= back
      BY SMT, Numbers
    <2>3. idx \in Nat /\ idx - 1 \in Nat /\ log_base <= idx - 1 /\ idx - 1 < back
      BY SMT, <2>2, Numbers
    <2>4. d \in Int /\ d > 0 /\ head + count \in Int /\ tail - d \in Int
      BY SMT, <2>2, Numbers
    <2>5. count - d \in Nat /\ count - d = (idx - 1) - front
      BY SMT, <2>1, <2>2, Numbers
    <2> QED BY <2>3, <2>4, <2>5
  <1>3. (tail - d) % LOG_ENTRIES = (head + (count - d)) % LOG_ENTRIES
    <2> HIDE DEF d
    <2>1. PICK m \in Int : m = 0 - d
      BY SMT, <1>2
    <2>2. tail - d = tail + m /\ head + (count - d) = (head + count) + m
      BY SMT, <1>2, <2>1, Numbers
    <2>3. (((head + count) % LOG_ENTRIES) + m) % LOG_ENTRIES = ((head + count) + m) % LOG_ENTRIES
      BY <1>2, Numbers, ModOfMod
    <2> QED BY <2>2, <2>3 DEF Indices
  <1>4. (tail - d) % LOG_ENTRIES \in 0..(LOG_ENTRIES - 1)
    BY <1>2, Numbers, ModRange
  <1>5. Window' = front..((idx - 1) - 1)
    BY <1>1, Zenon DEF Window
  <1>6. /\ (idx - 1)..(back - 1) \in SUBSET (front..(back - 1))
        /\ front..((idx - 1) - 1) = (front..(back - 1)) \ ((idx - 1)..(back - 1))
    BY SMT, <1>2, Numbers DEF Indices
  <1>7. FreedSoFar' /\ freed' \in [Id -> Nat]
    <2>1. (idx - 1)..(back - 1) \in SUBSET Window /\ Window' = Window \ ((idx - 1)..(back - 1))
      BY <1>5, <1>6 DEF Window
    <2> QED BY <1>1, <2>1, FreeingKeeps
  <1> HIDE DEF d
  <1>8. TypeOK'
    BY <1>1, <1>2, <1>4, <1>7 DEF TypeOK
  <1>9. Indices'
    <2>1. count - d <= size /\ count - d < LOG_ENTRIES
      BY SMT, <1>2, Numbers DEF Indices
    <2> QED BY <1>1, <1>2, <1>3, <2>1 DEF Indices, LaggersAreServed
  <1>10. Contents'
    <2>1. \A i : At(i)' = At(i)
      BY <1>1 DEF At
    <2>2. \A i \in Window' : i \in Window
      BY <1>5, <1>6 DEF Window
    <2> QED BY <1>1, <2>1, <2>2 DEF Contents
  <1> QED BY <1>7, <1>8, <1>9, <1>10

\* log_poll_batch hands out the oldest cnt elements.
LEMMA PolledIs ==
    ASSUME TypeOK, Indices, NEW cnt \in 1..count
    PROVE  Polled(cnt) = {REL_POS(i, size) : i \in front..(front + cnt - 1)}
  <1>0. front \in Int /\ size \in Nat \ {0}
    BY SMT, Numbers
  <1>1. PICK f \in 0..(size - 1) : f = front % size
    BY <1>0, ModRange
  <1>2. /\ front \in Int /\ size \in Nat \ {0} /\ cnt - 1 \in 0..size /\ cnt \in Nat /\ cnt > 0
        /\ front + cnt - 1 = front + (cnt - 1) /\ cnt <= size
    BY SMT, Numbers DEF Indices
  <1>3. PICK z : z = REL_POS(front + cnt - 1, size)
    OBVIOUS
  <1>4. z = IF f + (cnt - 1) < size THEN f + (cnt - 1) ELSE f + (cnt - 1) - size
    BY <1>1, <1>2, <1>3, ModAdd DEF REL_POS
  <1>5. Polled(cnt) = IF z >= f THEN f..(f + cnt - 1) ELSE (f..(size - 1)) \cup (0..(cnt - (size - f) - 1))
    BY <1>1, <1>3 DEF Polled, REL_POS
  <1>6. ASSUME NEW i \in front..(front + cnt - 1)
        PROVE  REL_POS(i, size) \in Polled(cnt)
    <2>1. PICK k \in 0..(cnt - 1) : i = front + k /\ k \in 0..size
      <3>1. i - front \in 0..(cnt - 1) /\ i = front + (i - front) /\ i - front \in 0..size
        BY SMT, <1>2
      <3> QED BY <3>1
    <2>2. REL_POS(i, size) = IF f + k < size THEN f + k ELSE f + k - size
      BY <1>1, <1>2, <2>1, ModAdd DEF REL_POS
    <2> QED BY SMT, <1>2, <1>4, <1>5, <2>2
  <1>7. ASSUME NEW p \in Polled(cnt)
        PROVE  \E i \in front..(front + cnt - 1) : p = REL_POS(i, size)
    <2>1. PICK k \in 0..(cnt - 1) : p = IF f + k < size THEN f + k ELSE f + k - size
      <3>1. CASE p >= f
        <4>1. p - f \in 0..(cnt - 1) /\ p = f + (p - f) /\ p < size
          BY SMT, <1>2, <1>4, <1>5, <3>1
        <4> QED BY <4>1
      <3>2. CASE ~(p >= f)
        <4>1. /\ p + size - f \in 0..(cnt - 1) /\ p = f + (p + size - f) - size
              /\ ~(f + (p + size - f) < size)
          BY SMT, <1>2, <1>4, <1>5, <3>2
        <4> QED BY <4>1
      <3> QED BY <3>1, <3>2
    <2>2. k \in 0..size /\ front + k \in front..(front + cnt - 1)
      BY SMT, <1>2
    <2>3. REL_POS(front + k, size) = IF f + k < size THEN f + k ELSE f + k - size
      BY <1>1, <1>2, <2>2, ModAdd DEF REL_POS
    <2> QED BY <2>1, <2>2, <2>3
  <1> HIDE DEF Polled, REL_POS
  <1> QED BY <1>6, <1>7

\* Compaction finds as many entries as it asks for.
LEMMA CompactTakes ==
    ASSUME TypeOK, Indices, compact_log
    PROVE  /\ log_target \in 1..count /\ log_base > front + 2 * log_target
           /\ front' = front + log_target /\ count' = count - log_target
           /\ head' = (head + log_target) % LOG_ENTRIES
           /\ Free({REL_POS(i, size) : i \in front..(front + log_target - 1)})
           /\ last_compacted_idx' = last_compacted_idx + log_target
           /\ size' = size /\ back' = back /\ entries' = entries /\ tail' = tail /\ data' = data
           /\ log_base' = log_base /\ appended' = appended /\ running' = running
  <1>1. log_base > front + 2 * log_target
    BY DEF compact_log, Indices, LaggersAreServed
  <1>2. log_target \in 1..count /\ ~(log_target > count)
    BY SMT, <1>1, Numbers DEF Indices
  <1>3. /\ front' = front + log_target /\ count' = count - log_target
        /\ head' = (head + log_target) % LOG_ENTRIES
        /\ Free(Polled(log_target))
        /\ last_compacted_idx' = last_compacted_idx + log_target
    BY <1>2 DEF compact_log
  <1>4. Free({REL_POS(i, size) : i \in front..(front + log_target - 1)})
    BY <1>2, <1>3, PolledIs
  <1> QED BY <1>1, <1>2, <1>3, <1>4 DEF compact_log

\* compact_log keeps the invariant.
LEMMA CompactKeeps ==
    ASSUME LogInv, compact_log
    PROVE  LogInv'
  <1> USE DEF LogInv
  <1>1. /\ log_target \in 1..count /\ log_base > front + 2 * log_target
        /\ front' = front + log_target /\ count' = count - log_target
        /\ head' = (head + log_target) % LOG_ENTRIES
        /\ Free({REL_POS(i, size) : i \in front..(front + log_target - 1)})
        /\ last_compacted_idx' = last_compacted_idx + log_target
        /\ size' = size /\ back' = back /\ entries' = entries /\ tail' = tail /\ data' = data
        /\ log_base' = log_base /\ appended' = appended /\ running' = running
    BY CompactTakes
  <1>2. /\ front + log_target \in Nat /\ count - log_target \in Nat
        /\ last_compacted_idx + log_target \in Nat
        /\ head + log_target \in Int /\ count - log_target \in Int
        /\ (head + log_target) + (count - log_target) = head + count
        /\ count - log_target = back - (front + log_target)
        /\ count - log_target <= size /\ count - log_target < LOG_ENTRIES
        /\ front + log_target <= log_base /\ log_base - (front + log_target) > log_target
    BY SMT, <1>1, Numbers DEF Indices
  <1>3. (head + log_target) % LOG_ENTRIES \in 0..(LOG_ENTRIES - 1)
    BY <1>2, Numbers, ModRange
  <1>4. Window' = (front + log_target)..(back - 1)
    BY <1>1, Zenon DEF Window
  <1>5. /\ front..(front + log_target - 1) \in SUBSET (front..(back - 1))
        /\ (front + log_target)..(back - 1) = (front..(back - 1)) \ (front..(front + log_target - 1))
    BY SMT, <1>1, Numbers
  <1>6. FreedSoFar' /\ freed' \in [Id -> Nat]
    <2>1. /\ front..(front + log_target - 1) \in SUBSET Window
          /\ Window' = Window \ (front..(front + log_target - 1))
      BY <1>4, <1>5 DEF Window
    <2> QED BY <1>1, <2>1, FreeingKeeps
  <1>7. TypeOK'
    BY <1>1, <1>2, <1>3, <1>6 DEF TypeOK
  <1>8. Indices'
    <2>1. (((head + log_target) % LOG_ENTRIES) + (count - log_target)) % LOG_ENTRIES
              = (head + count) % LOG_ENTRIES
      BY <1>2, Numbers, ModOfMod
    <2>2. LaggersAreServed'
      BY <1>1, <1>2 DEF Indices, LaggersAreServed
    <2> QED BY <1>1, <1>2, <2>1, <2>2 DEF Indices
  <1>9. Contents'
    <2>1. \A i : At(i)' = At(i)
      BY <1>1 DEF At
    <2>2. ASSUME NEW i \in Window'
          PROVE  /\ i \in Window
                 /\ (((head + log_target) % LOG_ENTRIES) + (i - (front + log_target))) % LOG_ENTRIES
                        = (head + (i - front)) % LOG_ENTRIES
      <3>1. i \in Window
        BY <1>4, <1>5 DEF Window
      <3>2. /\ i - (front + log_target) \in Int
            /\ (head + log_target) + (i - (front + log_target)) = head + (i - front)
        BY SMT, <1>1, <3>1, Numbers DEF Window
      <3> QED BY <1>2, <3>1, <3>2, Numbers, ModOfMod
    <2> QED BY <1>1, <2>1, <2>2 DEF Contents
  <1> QED BY <1>6, <1>7, <1>8, <1>9

-----------------------------------------------------------------------------
(* The invariant.                                                          *)

\* The empty log satisfies the invariant.
LEMMA LogInit == Init => LogInv
  <1> SUFFICES ASSUME Init PROVE LogInv
    OBVIOUS
  <1>1. /\ INITIAL_CAPACITY \in Nat \ {0} /\ LOG_ENTRIES \in Nat \ {0} /\ log_target \in Nat \ {0}
        /\ MaxId \in Nat
    BY LogAssumption
  <1>2. /\ 0 \in 0..(LOG_ENTRIES - 1) /\ 0 \in 0..MaxId /\ 0 \in Nat /\ 0 <= INITIAL_CAPACITY
        /\ 0 < LOG_ENTRIES /\ 0 <= MaxId /\ 0 = 0 - 0 /\ 0 <= 0 /\ ~(0 > 0) /\ 0 + 0 = 0
    BY SMT, <1>1
  <1>3. 0 % LOG_ENTRIES = 0
    BY <1>1, <1>2, ModSmall
  <1>4. TypeOK
    <2>1. Zero \in Element
      BY <1>2 DEF Zero, Element
    <2> QED BY <1>1, <1>2, <2>1 DEF Init, TypeOK
  <1>5. Indices
    BY <1>2, <1>3 DEF Init, Indices, LaggersAreServed
  <1>6. Window = {}
    <2>1. 0..(0 - 1) = {}
      BY SMT
    <2> QED BY <2>1 DEF Init, Window
  <1>7. FreedSoFar
    <2>1. \A e \in Id : ~(e <= 0)
      BY SMT, <1>1 DEF Id
    <2> QED BY <2>1 DEF Init, FreedSoFar
  <1> QED BY <1>4, <1>5, <1>6, <1>7 DEF LogInv, Contents

\* Every step keeps the invariant.
LEMMA LogStep == LogInv /\ [Next]_vars => LogInv'
  <1> SUFFICES ASSUME LogInv, [Next]_vars PROVE LogInv'
    OBVIOUS
  <1>1. ASSUME NEW n \in 1..MaxBatch, log_append_batch(n) PROVE LogInv'
    BY <1>1, AppendKeeps
  <1>2. ASSUME NEW idx \in (log_base + 1)..back, log_delete(idx) PROVE LogInv'
    BY <1>2, DeleteKeeps
  <1>3. CASE compact_log
    BY <1>3, CompactKeeps
  <1>4. ASSUME NEW n \in 1..MaxBatch, OutOfLogspace(n) PROVE LogInv'
    <2>1. /\ size' = size /\ count' = count /\ front' = front /\ back' = back /\ entries' = entries
          /\ head' = head /\ tail' = tail /\ data' = data /\ log_base' = log_base
          /\ last_compacted_idx' = last_compacted_idx /\ appended' = appended /\ freed' = freed
          /\ running' = FALSE
      BY <1>4 DEF OutOfLogspace, arrayVars, ringVars, compactVars
    <2>2. TypeOK' /\ Indices'
      BY <2>1 DEF LogInv, TypeOK, Indices, LaggersAreServed
    <2>3. Contents' /\ FreedSoFar'
      BY <2>1, Zenon DEF LogInv, Contents, FreedSoFar, Window, At
    <2> QED BY <2>2, <2>3 DEF LogInv
  <1>5. ASSUME NEW b \in (log_base + 1)..back, raft_checkpoint(b) PROVE LogInv'
    <2>1. /\ size' = size /\ count' = count /\ front' = front /\ back' = back /\ entries' = entries
          /\ head' = head /\ tail' = tail /\ data' = data /\ log_base' = b
          /\ last_compacted_idx' = last_compacted_idx /\ appended' = appended /\ freed' = freed
          /\ running' = running
      BY <1>5 DEF raft_checkpoint, arrayVars, ringVars
    <2>2. b \in Nat /\ front <= b /\ b <= back /\ (front > 0 => b - front > log_target)
      BY SMT, Numbers DEF LogInv, Indices, LaggersAreServed
    <2>3. TypeOK'
      BY <2>1, <2>2 DEF LogInv, TypeOK
    <2>4. Indices'
      BY <2>1, <2>2 DEF LogInv, Indices, LaggersAreServed
    <2>5. Contents' /\ FreedSoFar'
      BY <2>1, Zenon DEF LogInv, Contents, FreedSoFar, Window, At
    <2> QED BY <2>3, <2>4, <2>5 DEF LogInv
  <1>6. CASE UNCHANGED vars
    <2>1. /\ size' = size /\ count' = count /\ front' = front /\ back' = back /\ entries' = entries
          /\ head' = head /\ tail' = tail /\ data' = data /\ log_base' = log_base
          /\ last_compacted_idx' = last_compacted_idx /\ appended' = appended /\ freed' = freed
          /\ running' = running
      BY <1>6 DEF vars, arrayVars, ringVars, compactVars
    <2>2. TypeOK' /\ Indices'
      BY <2>1 DEF LogInv, TypeOK, Indices, LaggersAreServed
    <2>3. Contents' /\ FreedSoFar'
      BY <2>1, Zenon DEF LogInv, Contents, FreedSoFar, Window, At
    <2> QED BY <2>2, <2>3 DEF LogInv
  <1> QED BY <1>1, <1>2, <1>3, <1>4, <1>5, <1>6 DEF Next

\* The invariant holds in every state.
LEMMA LogInvAlways == Spec => []LogInv
  BY LogInit, LogStep, PTL DEF Spec

-----------------------------------------------------------------------------
(* The live entries as a sequence.                                         *)

\* A function on 1..n is a sequence of length n.
LEMMA FunctionIsSeq ==
    ASSUME NEW S, NEW n \in Nat, NEW f \in [1..n -> S]
    PROVE  f \in Seq(S) /\ Len(f) = n
  BY SMT

\* The elements of a stretch of a sequence.
LEMMA SubSeqIs ==
    ASSUME NEW S, NEW s, NEW m \in Int, NEW r \in Nat, \A k \in 1..r : s[m + k - 1] \in S
    PROVE  SubSeq(s, m, m + r - 1) = [k \in 1..r |-> s[m + k - 1]]
  <1> DEFINE f == [k \in 1..r |-> s[m + k - 1]]
             n == m + r - 1
  <1>1. f \in [1..r -> S]
    OBVIOUS
  <1>2. f \in Seq(S) /\ Len(f) = r
    BY <1>1, FunctionIsSeq
  <1>3. n \in Int /\ n - m + 1 = r /\ (IF m <= n THEN n - m + 1 ELSE 0) = r
    BY SMT
  <1>4. ASSUME NEW i \in m..n PROVE s[i] \in S
    <2>1. i - m + 1 \in 1..r /\ m + (i - m + 1) - 1 = i
      BY SMT
    <2> QED BY <2>1
  <1> HIDE DEF n
  <1>5. /\ SubSeq(s, m, n) \in Seq(S) /\ Len(SubSeq(s, m, n)) = r
        /\ \A i \in 1..r : SubSeq(s, m, n)[i] = s[m + i - 1]
    BY <1>3, <1>4, SubSeqProperties
  <1>6. \A i \in 1..r : f[i] = s[m + i - 1]
    OBVIOUS
  <1> HIDE DEF f
  <1>7. SubSeq(s, m, n) = f
    BY <1>2, <1>5, <1>6, SeqEqual
  <1> QED BY <1>7 DEF f, n

\* The live entries are those of the window, in order.
LEMMA LiveIs ==
    ASSUME LogInv
    PROVE  /\ Len(Live) = count /\ LiveIds \in Seq(Id) /\ Len(LiveIds) = count
           /\ \A k \in 1..count : front + k - 1 \in Window /\ Live[k] = At(front + k - 1)
                                    /\ LiveIds[k] = At(front + k - 1).id
           /\ \A i \in Window : i - front + 1 \in 1..count /\ front + (i - front + 1) - 1 = i
  <1> USE DEF LogInv
  <1>1. count \in Nat /\ back - front = count
    BY SMT, Numbers
  <1>2. ASSUME NEW k \in 1..count
        PROVE  front + k - 1 \in Window /\ front + k - 1 \in Int
    BY SMT, Numbers DEF Window
  <1>3. \A i \in Window : i - front + 1 \in 1..count /\ front + (i - front + 1) - 1 = i
    BY SMT, Numbers DEF Window
  <1>4. ASSUME NEW i \in Int PROVE At(i) \in Element
    <2>1. REL_POS(i, size) \in 0..(size - 1)
      BY Numbers, ModRange DEF REL_POS
    <2> QED BY <2>1 DEF TypeOK, At
  <1>5. Live = [k \in 1..count |-> At(front + k - 1)]
    BY <1>1 DEF Live, At
  <1>6. Live \in [1..count -> Element]
    BY <1>2, <1>4, <1>5
  <1>7. Len(Live) = count
    BY <1>1, <1>6, FunctionIsSeq
  <1>8. LiveIds = [k \in 1..count |-> At(front + k - 1).id]
    BY <1>5, <1>7 DEF LiveIds
  <1>9. \A x \in 1..appended : x \in Id
    BY SMT, Numbers DEF Indices, Id
  <1>10. LiveIds \in [1..count -> Id]
    BY <1>2, <1>8, <1>9 DEF Contents
  <1>11. LiveIds \in Seq(Id) /\ Len(LiveIds) = count
    BY <1>1, <1>10, FunctionIsSeq
  <1> QED BY <1>2, <1>3, <1>5, <1>7, <1>8, <1>11

-----------------------------------------------------------------------------
(* Theorems.                                                               *)

\* Spec => []TypeOK: the array of raft_log.c is as long as size says, and the
\* indices of both rings stay in range.
THEOREM TypeCorrect == Spec => []TypeOK
  BY LogInvAlways, PTL DEF LogInv

\* Spec => []LaggersAreServed: compact_log gives up applied entries only, and
\* leaves more than log_target of them for lagging nodes.
THEOREM LaggersServed == Spec => []LaggersAreServed
  <1>1. LogInv => LaggersAreServed
    BY DEF LogInv, Indices
  <1> QED BY <1>1, LogInvAlways, PTL

\* Spec => []RingsInStep: log_offer, log_pop and log_poll keep the circular
\* log of packets in step with the array, however both wrap and grow.
THEOREM RingsStayInStep == Spec => []RingsInStep
  <1>1. ASSUME LogInv PROVE RingsInStep
    <2>1. ASSUME NEW k \in 1..count
          PROVE  Live[k].slot = (head + k - 1) % LOG_ENTRIES /\ data[Live[k].slot] = Live[k].id
      <3>1. front + k - 1 \in Window /\ Live[k] = At(front + k - 1)
        BY <1>1, LiveIs
      <3>2. head + ((front + k - 1) - front) = head + k - 1
        BY SMT, <1>1, Numbers DEF LogInv
      <3> QED BY <1>1, <3>1, <3>2 DEF LogInv, Contents
    <2> QED BY <1>1, <2>1 DEF LogInv, Indices, RingsInStep
  <1> QED BY <1>1, LogInvAlways, PTL

\* Spec => []FreedWhenGone: log_pop and log_poll_batch free the packet of an
\* entry exactly once, when it leaves the log.
THEOREM FreedOnce == Spec => []FreedWhenGone
  <1>1. ASSUME LogInv PROVE FreedWhenGone
    <2> SUFFICES ASSUME NEW e \in 1..appended
                 PROVE  freed[e] = IF \E k \in 1..Len(LiveIds) : LiveIds[k] = e THEN 0 ELSE 1
      BY DEF FreedWhenGone
    <2>1. e \in Id /\ e <= appended
      BY SMT, <1>1, Numbers DEF LogInv, Indices, Id
    <2>2. (\E k \in 1..Len(LiveIds) : LiveIds[k] = e) <=> (\E i \in Window : At(i).id = e)
      <3>1. ASSUME NEW i \in Window, At(i).id = e PROVE \E k \in 1..Len(LiveIds) : LiveIds[k] = e
        <4>1. i - front + 1 \in 1..count /\ front + (i - front + 1) - 1 = i
          BY <1>1, LiveIs
        <4>2. PICK k \in 1..count : k = i - front + 1
          BY <4>1
        <4>3. LiveIds[k] = At(i).id
          BY <1>1, <4>1, <4>2, LiveIs
        <4> QED BY <1>1, <3>1, <4>3, LiveIs
      <3>2. ASSUME NEW k \in 1..Len(LiveIds), LiveIds[k] = e PROVE \E i \in Window : At(i).id = e
        BY <1>1, <3>2, LiveIs
      <3> QED BY <3>1, <3>2
    <2>3. freed[e] = IF e <= appended /\ ~\E i \in Window : At(i).id = e THEN 1 ELSE 0
      BY <1>1, <2>1 DEF LogInv, FreedSoFar
    <2> QED BY <2>1, <2>2, <2>3
  <1> QED BY <1>1, LogInvAlways, PTL

\* How many entries log_get_from_idx finds in one piece.
LEMMA RunIs ==
    ASSUME LogInv, NEW idx \in 1..(back + 1)
    PROVE  /\ RunFrom(idx) \in Nat
           /\ RunFrom(idx) > 0 <=> idx \in (front + 1)..back
           /\ idx + RunFrom(idx) - 1 <= back
           /\ \A k \in 1..RunFrom(idx) :
                 REL_POS(idx - 1, size) + k - 1 = REL_POS(idx - 1 + (k - 1), size)
  <1> USE DEF LogInv
  <1>1. idx \in Nat /\ idx - 1 \in Nat /\ idx >= 1 /\ idx <= back + 1 /\ idx - 1 \in Int
    BY SMT, Numbers
  <1>2. CASE idx - 1 \notin front..(back - 1)
    <2>1. RunFrom(idx) = 0
      BY <1>2 DEF RunFrom
    <2>2. idx \notin (front + 1)..back /\ idx + 0 - 1 <= back /\ 1..0 = {} /\ ~(0 > 0)
      BY SMT, <1>1, <1>2, Numbers
    <2> QED BY <2>1, <2>2
  <1>3. CASE idx - 1 \in front..(back - 1)
    <2>1. PICK d \in 0..size : d = back - (idx - 1) /\ d > 0 /\ back = (idx - 1) + d
      <3>1. back - (idx - 1) \in 0..size /\ back - (idx - 1) > 0 /\ back = (idx - 1) + (back - (idx - 1))
        BY SMT, <1>1, <1>3, Numbers DEF Indices
      <3> QED BY <3>1
    <2>2. PICK i \in 0..(size - 1) : i = REL_POS(idx - 1, size)
      BY <1>1, Numbers, ModRange DEF REL_POS
    <2>3. PICK z : z = REL_POS(back, size)
      OBVIOUS
    <2>4. z = IF i + d < size THEN i + d ELSE i + d - size
      BY <1>1, <2>1, <2>2, <2>3, Numbers, ModAdd DEF REL_POS
    <2>5. RunFrom(idx) = IF i < z THEN z - i ELSE size - i
      BY <1>3, <2>2, <2>3 DEF RunFrom
    <2>6. PICK r : r = RunFrom(idx)
      OBVIOUS
    <2>7. r \in Nat /\ r > 0 /\ r <= d /\ i + r <= size
      BY SMT, <2>1, <2>4, <2>5, <2>6, Numbers
    <2>8. idx \in (front + 1)..back /\ idx + r - 1 <= back
      BY SMT, <1>1, <1>3, <2>1, <2>7, Numbers
    <2>9. ASSUME NEW k \in 1..r
          PROVE  i + k - 1 = REL_POS(idx - 1 + (k - 1), size)
      <3>1. k - 1 \in 0..size /\ i + (k - 1) < size /\ i + (k - 1) = i + k - 1
        BY SMT, <2>7, Numbers
      <3> QED BY <1>1, <2>2, <3>1, Numbers, ModAdd DEF REL_POS
    <2> QED BY <2>2, <2>6, <2>7, <2>8, <2>9
  <1> QED BY <1>2, <1>3

\* Spec => []ReadsAreRuns: log_get_from_idx hands the sender entries of the
\* log in order, at least one if there is any, and none beyond its end.
THEOREM ReadsStayRuns == Spec => []ReadsAreRuns
  <1>1. ASSUME LogInv PROVE ReadsAreRuns
    <2> SUFFICES ASSUME NEW idx \in 1..(back + 1)
                 PROVE  /\ RunFrom(idx) > 0 <=> idx \in (front + 1)..back
                        /\ idx + RunFrom(idx) - 1 <= back
                        /\ log_get_from_idx(idx)
                              = SubSeq(LiveIds, idx - front, idx - front + RunFrom(idx) - 1)
      BY DEF ReadsAreRuns
    <2>1. PICK r \in Nat : r = RunFrom(idx)
      BY <1>1, RunIs
    <2>2. /\ r > 0 <=> idx \in (front + 1)..back
          /\ idx + r - 1 <= back
          /\ \A k \in 1..r : REL_POS(idx - 1, size) + k - 1 = REL_POS(idx - 1 + (k - 1), size)
      BY <1>1, <2>1, RunIs
    <2>3. idx \in Nat /\ idx - front \in Int /\ idx - front + r - 1 \in Int
      BY SMT, <1>1, Numbers DEF LogInv
    <2>4. log_get_from_idx(idx) = [k \in 1..r |-> At(idx - 1 + (k - 1)).id]
      BY <2>1, <2>2 DEF log_get_from_idx, At
    <2>5. ASSUME NEW k \in 1..r
          PROVE  /\ idx - front + k - 1 \in 1..count
                 /\ LiveIds[idx - front + k - 1] = At(idx - 1 + (k - 1)).id
      <3>1. /\ idx - front + k - 1 \in 1..count
            /\ front + (idx - front + k - 1) - 1 = idx - 1 + (k - 1)
        BY SMT, <1>1, <2>2, <2>3, Numbers DEF LogInv
      <3> QED BY <1>1, <3>1, LiveIs
    <2>6. SubSeq(LiveIds, idx - front, idx - front + r - 1) = [k \in 1..r |-> LiveIds[idx - front + k - 1]]
      <3>1. \A k \in 1..r : LiveIds[idx - front + k - 1] \in Id
        BY <1>1, <2>5, LiveIs, ElementOfSeq
      <3> QED BY SMTT(20), <2>3, <3>1, SubSeqIs
    <2>7. log_get_from_idx(idx) = SubSeq(LiveIds, idx - front, idx - front + r - 1)
      BY <2>4, <2>5, <2>6
    <2> QED BY <2>1, <2>2, <2>7
  <1> QED BY <1>1, LogInvAlways, PTL

-----------------------------------------------------------------------------
(* The array implements the abstract log.                                  *)

LiveFacts ==
    /\ LiveIds \in Seq(Id) /\ Len(LiveIds) = count
    /\ \A k \in 1..count : \A i \in Int : i = front + k - 1 => LiveIds[k] = At(i).id

\* The facts on the live entries, before a step ...
LEMMA LiveNow == LogInv => LiveFacts
  BY LiveIs DEF LiveFacts

\* ... and after it.
LEMMA LiveNext == LogInv' => LiveFacts'
  BY LiveNow, PTL

\* A sequence of entries is known by its elements.
LEMMA LiveIdsAre ==
    ASSUME LogInv', NEW f \in Seq(Id), Len(f) = count',
           \A k \in 1..Len(f) : \A i \in Int : i = front' + k - 1 => At(i)'.id = f[k],
           front' \in Nat
    PROVE  LiveIds' = f
  <1>1. /\ LiveIds' \in Seq(Id) /\ Len(LiveIds') = Len(f)
        /\ \A k \in 1..Len(f) : \A i \in Int : i = front' + k - 1 => LiveIds'[k] = At(i)'.id
    BY LiveNext DEF LiveFacts
  <1>2. ASSUME NEW k \in 1..Len(f) PROVE LiveIds'[k] = f[k]
    <2>1. Len(f) \in Nat
      BY LenProperties
    <2>2. PICK i : i \in Int /\ i = front' + k - 1
      <3>1. front' + k - 1 \in Int
        BY SMT, <2>1
      <3> QED BY <3>1
    <2> QED BY <1>1, <2>2
  <1> QED BY <1>1, <1>2, SeqEqual

\* The entries at indices of the window, in the sequence.
LEMMA LiveAt ==
    ASSUME LogInv, NEW i \in Window
    PROVE  i - front + 1 \in 1..count /\ LiveIds[i - front + 1] = At(i).id
  <1>1. i - front + 1 \in 1..count /\ front + (i - front + 1) - 1 = i
    BY LiveIs
  <1> QED BY <1>1, LiveIs

\* An append extends the abstract log.
LEMMA AppendExtends ==
    ASSUME LogInv, LogInv', NEW n \in 1..MaxBatch, log_append_batch(n)
    PROVE  Abstract!Extend(n)
  <1> USE DEF LogInv
  <1>1. /\ count' = count + n /\ front' = front /\ back' = back + n
        /\ \A i \in Window : At(i)' = At(i)
    BY AppendedArray DEF log_append_batch
  <1>2. /\ LiveIds \in Seq(Id) /\ Len(LiveIds) = count
        /\ LiveIds' \in Seq(Id) /\ Len(LiveIds') = count + n
        /\ \A k \in 1..(count + n) : \A i \in Int : i = front + k - 1 => LiveIds'[k] = At(i)'.id
    BY <1>1, LiveNow, LiveNext DEF LiveFacts
  <1>3. ASSUME NEW k \in 1..count PROVE LiveIds'[1 + k - 1] = LiveIds[k]
    <2>1. 1 + k - 1 = k /\ k \in 1..(count + n)
      BY SMT, Numbers
    <2>2. PICK i \in Int : i = front + k - 1
      BY SMT, Numbers
    <2>3. i \in Window /\ LiveIds[k] = At(i).id
      BY <2>2, LiveIs
    <2> QED BY <1>1, <1>2, <2>1, <2>2, <2>3
  <1>4. SubSeq(LiveIds', 1, count) = LiveIds
    <2>1. 1 \in Int /\ count \in Nat /\ 1 + count - 1 = count
      BY SMT, Numbers
    <2>2. \A k \in 1..count : LiveIds'[1 + k - 1] \in Id
      BY <1>2, <1>3, ElementOfSeq
    <2>3. SubSeq(LiveIds', 1, count) = [k \in 1..count |-> LiveIds'[1 + k - 1]]
      BY <2>1, <2>2, SubSeqIs
    <2>4. LiveIds = [k \in 1..count |-> LiveIds[k]]
      BY <1>2, LenProperties
    <2> QED BY <1>3, <2>3, <2>4
  <1>5. ASSUME NEW k \in (Len(LiveIds) + 1)..Len(LiveIds') PROVE LiveIds'[k] \in Id
    <2>1. k \in (count + 1)..(count + n)
      BY <1>2
    <2>2. k \in 1..(count + n)
      BY SMT, <2>1, Numbers
    <2> QED BY <1>2, <2>2, ElementOfSeq
  <1> QED BY <1>1, <1>2, <1>4, <1>5 DEF Abstract!Extend

\* A deletion truncates the abstract log.
LEMMA DeleteDeletes ==
    ASSUME LogInv, LogInv', NEW idx \in (log_base + 1)..back, log_delete(idx)
    PROVE  \E k \in 1..Len(LiveIds) : Abstract!Delete(front + k)
  <1> USE DEF LogInv
  <1>1. /\ back' = idx - 1 /\ front' = front /\ entries' = entries /\ size' = size
    BY DEF log_delete
  <1>2. count' \in Nat /\ count' = (idx - 1) - front
    <2>1. count' \in Nat
      BY DEF TypeOK
    <2>2. count' = back' - front'
      BY DEF Indices
    <2> QED BY <1>1, <2>1, <2>2
  <1>3. PICK k \in 1..count : idx = front + k /\ k - 1 = (idx - 1) - front /\ front + k - 1 - front = k - 1
    <2>1. front <= log_base /\ log_base <= back
      BY DEF Indices
    <2>2. /\ idx - front \in 1..count /\ idx = front + (idx - front)
          /\ (idx - front) - 1 = (idx - 1) - front /\ front + (idx - front) - 1 - front = (idx - front) - 1
      BY SMT, <2>1, Numbers
    <2> QED BY <2>2
  <1>4. LiveIds \in Seq(Id) /\ Len(LiveIds) = count
    BY LiveIs
  <1>5. LiveIds' = SubSeq(LiveIds, 1, k - 1)
    <2>1. 1 \in Int /\ k - 1 \in Nat /\ 1 + (k - 1) - 1 = k - 1 /\ \A j \in 1..(k - 1) : 1 + j - 1 = j /\ j \in 1..count
      BY SMT, Numbers
    <2>2. \A j \in 1..(k - 1) : LiveIds[1 + j - 1] \in Id
      BY <1>4, <2>1, ElementOfSeq
    <2> DEFINE f == [j \in 1..(k - 1) |-> LiveIds[1 + j - 1]]
    <2>3. SubSeq(LiveIds, 1, k - 1) = f
      BY <2>1, <2>2, SubSeqIs
    <2>4. f \in [1..(k - 1) -> Id]
      BY <2>2
    <2>5. f \in Seq(Id) /\ Len(f) = k - 1
      BY <2>1, <2>4, FunctionIsSeq
    <2>6. ASSUME NEW j \in 1..(k - 1), NEW i \in Int, i = front + j - 1
          PROVE  At(i)'.id = f[j]
      <3>1. f[j] = LiveIds[j] /\ j \in 1..count
        BY <2>1
      <3>2. LiveIds[j] = At(i).id
        BY <2>6, <3>1, LiveIs
      <3> QED BY <1>1, <3>1, <3>2 DEF At
    <2> HIDE DEF f
    <2>7. LiveIds' = f
      BY <1>1, <1>2, <1>3, <2>5, <2>6, Numbers, LiveIdsAre
    <2> QED BY <2>3, <2>7
  <1>6. Abstract!Delete(front + k)
    BY <1>1, <1>3, <1>5 DEF Abstract!Delete
  <1> QED BY <1>4, <1>6

\* A compaction drops the first entries of the abstract log.
LEMMA CompactCompacts ==
    ASSUME LogInv, LogInv', compact_log
    PROVE  \E n \in 1..Len(LiveIds) : Abstract!Compact(n)
  <1> USE DEF LogInv
  <1>1. /\ log_target \in 1..count /\ front' = front + log_target /\ count' = count - log_target
        /\ entries' = entries /\ size' = size
    BY CompactTakes
  <1>2. LiveIds \in Seq(Id) /\ Len(LiveIds) = count
    BY LiveIs
  <1>3. LiveIds' = SubSeq(LiveIds, log_target + 1, count)
    <2> DEFINE r == count - log_target
               f == [j \in 1..r |-> LiveIds[(log_target + 1) + j - 1]]
    <2>1. /\ log_target + 1 \in Int /\ r \in Nat /\ (log_target + 1) + r - 1 = count
          /\ \A j \in 1..r : (log_target + 1) + j - 1 \in 1..count
      BY SMT, <1>1, Numbers
    <2>2. \A j \in 1..r : LiveIds[(log_target + 1) + j - 1] \in Id
      BY <1>2, <2>1, ElementOfSeq
    <2>r. r = count'
      BY <1>1
    <2> HIDE DEF r
    <2>3. SubSeq(LiveIds, log_target + 1, count) = f
      BY <2>1, <2>2, SubSeqIs
    <2>4. f \in [1..r -> Id]
      BY <2>2
    <2>5. f \in Seq(Id) /\ Len(f) = r
      BY <2>1, <2>4, FunctionIsSeq
    <2>6. ASSUME NEW j \in 1..r, NEW i \in Int, i = (front + log_target) + j - 1
          PROVE  At(i)'.id = f[j]
      <3>1. /\ (log_target + 1) + j - 1 \in 1..count
            /\ i = front + ((log_target + 1) + j - 1) - 1
        <4>1. j \in Int
          BY SMT, <2>1
        <4> QED BY SMT, <2>1, <2>6, <4>1, Numbers
      <3>2. LiveIds[(log_target + 1) + j - 1] = At(i).id
        BY <3>1, LiveIs
      <3> QED BY <1>1, <3>2 DEF At
    <2>7. front + log_target \in Nat
      BY SMT, Numbers
    <2> HIDE DEF f
    <2>8. LiveIds' = f
      BY <1>1, <2>r, <2>5, <2>6, <2>7, LiveIdsAre
    <2> QED BY <2>3, <2>8
  <1>4. Abstract!Compact(log_target)
    BY <1>1, <1>2, <1>3 DEF Abstract!Compact
  <1> QED BY <1>1, <1>2, <1>4

\* Spec => ImplementsLog: raft_log.c, with its growing and wrapping array, its
\* copies in two pieces and its batches, behaves as AbstractLog says.
THEOREM LogRefinement == Spec => ImplementsLog
  <1>1. Init => Abstract!Init
    <2> SUFFICES ASSUME Init PROVE front = 0 /\ LiveIds = <<>>
      BY DEF Abstract!Init
    <2>1. LogInv /\ front = 0 /\ count = 0
      BY LogInit DEF Init
    <2>2. LiveIds \in Seq(Id) /\ Len(LiveIds) = 0
      BY <2>1, LiveIs
    <2> QED BY SMT, <2>1, <2>2
  <1>2. LogInv /\ LogInv' /\ [Next]_vars => [Abstract!Next]_<<front, LiveIds>>
    <2> SUFFICES ASSUME LogInv, LogInv', [Next]_vars PROVE [Abstract!Next]_<<front, LiveIds>>
      OBVIOUS
    <2>1. ASSUME NEW n \in 1..MaxBatch, log_append_batch(n) PROVE Abstract!Next
      BY <2>1, AppendExtends DEF Abstract!Next
    <2>2. ASSUME NEW idx \in (log_base + 1)..back, log_delete(idx) PROVE Abstract!Next
      BY <2>2, DeleteDeletes DEF Abstract!Next
    <2>3. CASE compact_log
      BY <2>3, CompactCompacts DEF Abstract!Next
    <2>4. ASSUME UNCHANGED arrayVars PROVE UNCHANGED <<front, LiveIds>>
      BY <2>4 DEF arrayVars, LiveIds, Live
    <2>5. ASSUME NEW n \in 1..MaxBatch, OutOfLogspace(n) PROVE UNCHANGED arrayVars
      BY <2>5 DEF OutOfLogspace
    <2>6. ASSUME NEW b \in (log_base + 1)..back, raft_checkpoint(b) PROVE UNCHANGED arrayVars
      BY <2>6 DEF raft_checkpoint
    <2>7. CASE UNCHANGED vars
      <3>1. UNCHANGED arrayVars
        BY <2>7 DEF vars
      <3> QED BY <2>4, <3>1
    <2> QED BY <2>1, <2>2, <2>3, <2>4, <2>5, <2>6, <2>7 DEF Next
  <1> QED BY <1>1, <1>2, LogInvAlways, PTL DEF Spec, ImplementsLog, Abstract!Spec
=============================================================================
