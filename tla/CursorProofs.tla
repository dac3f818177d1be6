---------------------------- MODULE CursorProofs ----------------------------
(***************************************************************************)
(* Proofs about Cursor: for every width of a group and of a word and every *)
(* sequence of bytes, of any length.                                       *)
(***************************************************************************)
EXTENDS Cursor, FiniteSetTheorems, WellFoundedInduction, TLAPS

LEMMA Least ==
    ASSUME NEW S, S \subseteq Nat, S # {}
    PROVE  \E x \in S : \A y \in S : x <= y
<1>1. PICK x \in S : \A y \in S : ~(<<y, x>> \in OpToRel(<, Nat))
    BY NatLessThanWellFounded, WFMin
<1>2. ASSUME NEW y \in S PROVE x <= y
    <2>1. x \in Nat /\ y \in Nat
        OBVIOUS
    <2>2. y < x => <<y, x>> \in OpToRel(<, Nat)
        BY <2>1 DEF OpToRel
    <2>3. ~(y < x)
        BY <1>1, <2>2, Zenon
    <2> QED
        BY <2>1, <2>3
<1> QED
    BY <1>2

-----------------------------------------------------------------------------
(* Powers of two. *)

Powers(f, n) == f = [i \in 0 .. n |-> IF i = 0 THEN 1 ELSE 2 * f[i - 1]]

LEMMA PowersExist ==
    ASSUME NEW n \in Nat
    PROVE  \E f : Powers(f, n)
<1> DEFINE Bad == {m \in Nat : ~\E f : Powers(f, m)}
<1>1. SUFFICES ASSUME n \in Bad PROVE FALSE
    OBVIOUS
<1>2. PICK m \in Bad : \A k \in Bad : m <= k
    BY <1>1, Least
<1>3. m \in Nat /\ ~\E f : Powers(f, m)
    OBVIOUS
<1>4. CASE m = 0
    <2>1. PICK f : f = [k \in 0 .. 0 |-> 1]
        OBVIOUS
    <2>2. f = [k \in 0 .. 0 |-> IF k = 0 THEN 1 ELSE 2 * f[k - 1]]
        BY <2>1
    <2> QED
        BY <1>3, <1>4, <2>2 DEF Powers
<1>5. CASE m # 0
    <2>1. m - 1 \in Nat /\ m - 1 \notin Bad
        BY <1>2, <1>3, <1>5
    <2>2. PICK f : Powers(f, m - 1)
        BY <2>1
    <2>3. PICK v : v = 2 * f[m - 1]
        OBVIOUS
    <2>4. PICK g : g = [k \in 0 .. m |-> IF k = m THEN v ELSE f[k]]
        OBVIOUS
    <2>5. \A k \in 0 .. m - 1 : f[k] = IF k = 0 THEN 1 ELSE 2 * f[k - 1]
        BY <2>2, Zenon DEF Powers
    <2>6. \A k \in 0 .. m - 1 : g[k] = f[k]
        BY <1>3, <2>4
    <2>7. g[m] = v
        BY <1>3, <1>5, <2>4
    <2>8. ASSUME NEW k \in 0 .. m
          PROVE  g[k] = IF k = 0 THEN 1 ELSE 2 * g[k - 1]
        <3>1. CASE k = m
            BY <1>3, <1>5, <2>1, <2>3, <2>6, <2>7, <3>1
        <3>2. CASE k # m
            BY <1>3, <2>5, <2>6, <3>2
        <3> QED
            BY <3>1, <3>2
    <2>9. g = [k \in 0 .. m |-> g[k]]
        BY <2>4
    <2>10. Powers(g, m)
        BY <2>8, <2>9, Zenon DEF Powers
    <2> QED
        BY <1>3, <2>10
<1> QED
    BY <1>4, <1>5

LEMMA PowChosen ==
    ASSUME NEW n \in Nat
    PROVE  \E f : Powers(f, n) /\ Pow2(n) = f[n]
<1> DEFINE f == CHOOSE f : f = [i \in 0 .. n |-> IF i = 0 THEN 1 ELSE 2 * f[i - 1]]
<1>1. \E g : g = [i \in 0 .. n |-> IF i = 0 THEN 1 ELSE 2 * g[i - 1]]
    <2>1. \E g : Powers(g, n)
        BY PowersExist
    <2> QED
        BY <2>1, Zenon DEF Powers
<1>2. f = [i \in 0 .. n |-> IF i = 0 THEN 1 ELSE 2 * f[i - 1]]
    BY <1>1, Zenon
<1>3. Pow2(n) = f[n]
    BY Zenon DEF Pow2
<1> HIDE DEF f
<1> QED
    BY <1>2, <1>3, Zenon DEF Powers

LEMMA PowersAgree ==
    ASSUME NEW n \in Nat, NEW m \in Nat, n <= m, NEW f, NEW g, Powers(f, n), Powers(g, m)
    PROVE  f[n] = g[n]
<1>1. \A k \in 0 .. n : f[k] = IF k = 0 THEN 1 ELSE 2 * f[k - 1]
    BY Zenon DEF Powers
<1>2. \A k \in 0 .. m : g[k] = IF k = 0 THEN 1 ELSE 2 * g[k - 1]
    BY Zenon DEF Powers
<1> DEFINE Bad == {k \in 0 .. n : f[k] # g[k]}
<1>3. SUFFICES ASSUME n \in Bad PROVE FALSE
    OBVIOUS
<1>4. Bad \subseteq Nat
    OBVIOUS
<1>5. PICK b \in Bad : \A k \in Bad : b <= k
    BY <1>3, <1>4, Least
<1>6. b \in 0 .. n /\ b \in 0 .. m /\ f[b] # g[b]
    OBVIOUS
<1>7. CASE b = 0
    BY <1>1, <1>2, <1>6, <1>7
<1>8. CASE b # 0
    <2>1. b - 1 \in 0 .. n /\ b - 1 \notin Bad
        BY <1>5, <1>6, <1>8
    <2>2. f[b - 1] = g[b - 1]
        BY <2>1
    <2>3. f[b] = 2 * f[b - 1] /\ g[b] = 2 * g[b - 1]
        BY <1>1, <1>2, <1>6, <1>8
    <2> QED
        BY <2>2, <2>3, <1>6
<1> QED
    BY <1>7, <1>8

LEMMA PowZero == Pow2(0) = 1
<1>1. PICK f : Powers(f, 0) /\ Pow2(0) = f[0]
    BY PowChosen
<1>2. \A k \in 0 .. 0 : f[k] = IF k = 0 THEN 1 ELSE 2 * f[k - 1]
    BY <1>1, Zenon DEF Powers
<1> QED
    BY <1>1, <1>2

LEMMA PowNext ==
    ASSUME NEW n \in Nat
    PROVE  Pow2(n + 1) = 2 * Pow2(n)
<1>1. PICK f : Powers(f, n) /\ Pow2(n) = f[n]
    BY PowChosen
<1>2. PICK m : m = n + 1
    OBVIOUS
<1>3. m \in Nat /\ m # 0 /\ m - 1 = n /\ n <= m /\ m \in 0 .. m
    BY <1>2
<1>4. PICK g : Powers(g, m) /\ Pow2(m) = g[m]
    BY <1>3, PowChosen
<1>5. \A k \in 0 .. m : g[k] = IF k = 0 THEN 1 ELSE 2 * g[k - 1]
    BY <1>4, Zenon DEF Powers
<1>6. g[m] = 2 * g[n]
    BY <1>3, <1>5
<1>7. f[n] = g[n]
    BY <1>1, <1>3, <1>4, PowersAgree
<1> QED
    BY <1>1, <1>2, <1>4, <1>6, <1>7

LEMMA PowPositive ==
    ASSUME NEW n \in Nat
    PROVE  Pow2(n) \in Nat \ {0}
<1> DEFINE Bad == {m \in Nat : Pow2(m) \notin Nat \ {0}}
<1>1. SUFFICES ASSUME n \in Bad PROVE FALSE
    OBVIOUS
<1>2. PICK m \in Bad : \A k \in Bad : m <= k
    BY <1>1, Least
<1>3. m # 0
    BY PowZero
<1>4. PICK k \in Nat : m = k + 1
    BY <1>3
<1>5. k \notin Bad
    BY <1>2, <1>4
<1>6. Pow2(k) \in Nat \ {0} /\ Pow2(m) = 2 * Pow2(k)
    BY <1>4, <1>5, PowNext
<1>7. Pow2(m) \in Nat \ {0}
    BY <1>6
<1> QED
    BY <1>7

LEMMA PowSum ==
    ASSUME NEW a \in Nat, NEW b \in Nat
    PROVE  Pow2(a + b) = Pow2(a) * Pow2(b)
<1> DEFINE Bad == {m \in Nat : Pow2(a + m) # Pow2(a) * Pow2(m)}
<1>1. SUFFICES ASSUME b \in Bad PROVE FALSE
    OBVIOUS
<1>2. PICK m \in Bad : \A k \in Bad : m <= k
    BY <1>1, Least
<1>3. Pow2(a) \in Nat
    BY PowPositive
<1>4. m # 0
    <2>1. Pow2(a) * Pow2(0) = Pow2(a) /\ a + 0 = a
        BY <1>3, PowZero
    <2> QED
        BY <2>1
<1>5. PICK k \in Nat : m = k + 1
    BY <1>4
<1>6. k \notin Bad
    BY <1>2, <1>5
<1>7. Pow2(a + k) = Pow2(a) * Pow2(k)
    BY <1>6
<1>8. Pow2(m) = 2 * Pow2(k)
    BY <1>5, PowNext
<1>9. Pow2(a + m) = 2 * Pow2(a + k)
    <2>1. a + k \in Nat /\ a + m = (a + k) + 1
        BY <1>5
    <2> QED
        BY <2>1, PowNext
<1>10. Pow2(a + m) = Pow2(a) * Pow2(m)
    <2>1. Pow2(k) \in Nat
        BY PowPositive
    <2> QED
        BY <1>3, <1>7, <1>8, <1>9, <2>1
<1> QED
    BY <1>10

LEMMA PowMonotone ==
    ASSUME NEW a \in Nat, NEW b \in Nat, a <= b
    PROVE  Pow2(a) <= Pow2(b)
<1>1. PICK c \in Nat : b = a + c
    <2>1. b - a \in Nat /\ b = a + (b - a)
        OBVIOUS
    <2> QED
        BY <2>1
<1>2. Pow2(b) = Pow2(a) * Pow2(c) /\ Pow2(a) \in Nat /\ Pow2(c) \in Nat \ {0}
    BY <1>1, PowSum, PowPositive
<1>3. ASSUME NEW x \in Nat, NEW y \in Nat \ {0} PROVE x <= x * y
    OBVIOUS
<1> QED
    BY <1>2, <1>3

-----------------------------------------------------------------------------
(* Numbers. *)

CursorTyped == data \in Seq(CursorBytes)

LEMMA CursorTypes == CursorSpec => []CursorTyped
<1>1. CursorInit => CursorTyped
    BY DEF CursorInit, CursorTyped
<1>2. CursorTyped /\ [CursorNext]_data => CursorTyped'
    BY DEF CursorTyped, CursorNext
<1> QED
    BY <1>1, <1>2, PTL DEF CursorSpec

LEMMA ByteTypes ==
    ASSUME CursorTyped, NEW i \in 1 .. Len(data)
    PROVE  data[i].more \in BOOLEAN /\ data[i].group \in 0 .. Pow2(GroupBits) - 1
<1>1. data[i] \in CursorBytes
    BY DEF CursorTyped
<1>2. data[i] \in [more : BOOLEAN, group : 0 .. Pow2(GroupBits) - 1]
    BY <1>1, CursorAssumption
<1> QED
    BY <1>2

\* m bytes make the number at the start.
NumberOf(m) ==
    /\ \A j \in 1 .. m - 1 : data[j].more
    /\ m < Len(data) => m # 0 /\ ~data[m].more

LEMMA GroupsCount ==
    ASSUME CursorTyped
    PROVE  Groups \in 0 .. Len(data) /\ NumberOf(Groups)
<1>1. PICK n \in Nat : n = Len(data) /\ DOMAIN data = 1 .. n
    BY DEF CursorTyped
<1>2. PICK m \in 0 .. n : NumberOf(m)
    <2> DEFINE Ends == {j \in 1 .. n - 1 : ~data[j].more}
    <2>1. CASE Ends = {}
        <3>1. n \in 0 .. n /\ \A j \in 1 .. n - 1 : data[j].more
            BY <1>1, <2>1
        <3> QED
            BY <1>1, <3>1 DEF NumberOf
    <2>2. CASE Ends # {}
        <3>0. Ends \subseteq Nat
            OBVIOUS
        <3>1. PICK m \in Ends : \A k \in Ends : m <= k
            BY <2>2, <3>0, Least
        <3>2. \A j \in 1 .. m - 1 : data[j].more
            BY <1>1, <3>1
        <3> QED
            BY <1>1, <3>1, <3>2 DEF NumberOf
    <2> QED
        BY <2>1, <2>2
<1>3. ASSUME NEW i \in 1 .. n PROVE i \in Number <=> i <= m
    <2>1. CASE i <= m
        BY <1>1, <1>2, <2>1 DEF Number, NumberOf
    <2>2. CASE ~(i <= m)
        <3>1. m \in 1 .. i - 1 /\ ~data[m].more
            BY <1>1, <1>2, <2>2 DEF NumberOf
        <3> QED
            BY <2>2, <3>1 DEF Number
    <2> QED
        BY <2>1, <2>2
<1>4. Number = 1 .. m
    <2>1. Number \subseteq 1 .. n
        BY <1>1 DEF Number
    <2>2. \A i : i \in 1 .. m <=> i \in 1 .. n /\ i <= m
        BY <1>2
    <2>3. \A i : i \in Number <=> i \in 1 .. m
        BY <1>3, <2>1, <2>2, Zenon
    <2> QED
        BY <2>3, Zenon
<1>5. Groups = m
    BY <1>2, <1>4, FS_Interval DEF Groups
<1> QED
    BY <1>1, <1>2, <1>5

\* f holds the sums of the first groups.
Sums(f, n) == f = [i \in 0 .. n |-> IF i = 0 THEN 0 ELSE f[i - 1] + data[i].group * Pow2((i - 1) * GroupBits)]

LEMMA SumsExist ==
    ASSUME NEW n \in Nat
    PROVE  \E f : Sums(f, n)
<1> DEFINE Bad == {m \in Nat : ~\E f : Sums(f, m)}
<1>1. SUFFICES ASSUME n \in Bad PROVE FALSE
    OBVIOUS
<1>2. PICK m \in Bad : \A k \in Bad : m <= k
    BY <1>1, Least
<1>3. m \in Nat /\ ~\E f : Sums(f, m)
    OBVIOUS
<1>4. CASE m = 0
    <2>1. PICK f : f = [k \in 0 .. 0 |-> 0]
        OBVIOUS
    <2>2. f = [k \in 0 .. 0 |-> IF k = 0 THEN 0 ELSE f[k - 1] + data[k].group * Pow2((k - 1) * GroupBits)]
        BY <2>1
    <2> QED
        BY <1>3, <1>4, <2>2 DEF Sums
<1>5. CASE m # 0
    <2>1. m - 1 \in Nat /\ m - 1 \notin Bad
        BY <1>2, <1>3, <1>5
    <2>2. PICK f : Sums(f, m - 1)
        BY <2>1
    <2>3. PICK v : v = f[m - 1] + data[m].group * Pow2((m - 1) * GroupBits)
        OBVIOUS
    <2>4. PICK g : g = [k \in 0 .. m |-> IF k = m THEN v ELSE f[k]]
        OBVIOUS
    <2>5. \A k \in 0 .. m - 1 : f[k] = IF k = 0 THEN 0 ELSE f[k - 1] + data[k].group * Pow2((k - 1) * GroupBits)
        BY <2>2, Zenon DEF Sums
    <2>6. \A k \in 0 .. m - 1 : g[k] = f[k]
        BY <1>3, <2>4
    <2>7. g[m] = v
        BY <1>3, <1>5, <2>4
    <2>8. ASSUME NEW k \in 0 .. m
          PROVE  g[k] = IF k = 0 THEN 0 ELSE g[k - 1] + data[k].group * Pow2((k - 1) * GroupBits)
        <3>1. CASE k = m
            BY <1>3, <1>5, <2>1, <2>3, <2>6, <2>7, <3>1
        <3>2. CASE k # m
            BY <1>3, <2>5, <2>6, <3>2
        <3> QED
            BY <3>1, <3>2
    <2>9. g = [k \in 0 .. m |-> g[k]]
        BY <2>4
    <2>10. Sums(g, m)
        BY <2>8, <2>9, Zenon DEF Sums
    <2> QED
        BY <1>3, <2>10
<1> QED
    BY <1>4, <1>5

LEMMA GroupSumChosen ==
    ASSUME Groups \in Nat
    PROVE  \E f : Sums(f, Groups) /\ GroupSum = f[Groups]
<1> DEFINE f == CHOOSE f : f = [i \in 0 .. Groups |->
                                  IF i = 0 THEN 0 ELSE f[i - 1] + data[i].group * Pow2((i - 1) * GroupBits)]
<1>1. \E g : g = [i \in 0 .. Groups |-> IF i = 0 THEN 0 ELSE g[i - 1] + data[i].group * Pow2((i - 1) * GroupBits)]
    <2>1. \E g : Sums(g, Groups)
        BY SumsExist
    <2> QED
        BY <2>1, Zenon DEF Sums
<1>2. f = [i \in 0 .. Groups |-> IF i = 0 THEN 0 ELSE f[i - 1] + data[i].group * Pow2((i - 1) * GroupBits)]
    BY <1>1, Zenon
<1>3. GroupSum = f[Groups]
    BY Zenon DEF GroupSum
<1> HIDE DEF f
<1> QED
    BY <1>2, <1>3, Zenon DEF Sums

\* f holds the states behind the first rounds of the loop.
LebStart(pos) == [status |-> "more", res |-> 0, shift |-> 0, next |-> pos]
Rounds(f, pos, n) == f = [k \in 0 .. n |-> IF k = 0 THEN LebStart(pos) ELSE LebRound(f[k - 1], data[pos + k - 1])]

LEMMA RoundsExist ==
    ASSUME NEW pos, NEW n \in Nat
    PROVE  \E f : Rounds(f, pos, n)
<1> DEFINE Bad == {m \in Nat : ~\E f : Rounds(f, pos, m)}
<1>1. SUFFICES ASSUME n \in Bad PROVE FALSE
    OBVIOUS
<1>2. PICK m \in Bad : \A k \in Bad : m <= k
    BY <1>1, Least
<1>3. m \in Nat /\ ~\E f : Rounds(f, pos, m)
    OBVIOUS
<1>4. CASE m = 0
    <2>1. PICK f : f = [k \in 0 .. 0 |-> LebStart(pos)]
        OBVIOUS
    <2>2. f = [k \in 0 .. 0 |-> IF k = 0 THEN LebStart(pos) ELSE LebRound(f[k - 1], data[pos + k - 1])]
        BY <2>1
    <2> QED
        BY <1>3, <1>4, <2>2 DEF Rounds
<1>5. CASE m # 0
    <2>1. m - 1 \in Nat /\ m - 1 \notin Bad
        BY <1>2, <1>3, <1>5
    <2>2. PICK f : Rounds(f, pos, m - 1)
        BY <2>1
    <2>3. PICK v : v = LebRound(f[m - 1], data[pos + m - 1])
        OBVIOUS
    <2>4. PICK g : g = [k \in 0 .. m |-> IF k = m THEN v ELSE f[k]]
        OBVIOUS
    <2>5. \A k \in 0 .. m - 1 : f[k] = IF k = 0 THEN LebStart(pos) ELSE LebRound(f[k - 1], data[pos + k - 1])
        BY <2>2, Zenon DEF Rounds
    <2>6. \A k \in 0 .. m - 1 : g[k] = f[k]
        BY <1>3, <2>4
    <2>7. g[m] = v
        BY <1>3, <1>5, <2>4
    <2>8. ASSUME NEW k \in 0 .. m
          PROVE  g[k] = IF k = 0 THEN LebStart(pos) ELSE LebRound(g[k - 1], data[pos + k - 1])
        <3>1. CASE k = m
            BY <1>3, <1>5, <2>1, <2>3, <2>6, <2>7, <3>1
        <3>2. CASE k # m
            BY <1>3, <2>5, <2>6, <3>2
        <3> QED
            BY <3>1, <3>2
    <2>9. g = [k \in 0 .. m |-> g[k]]
        BY <2>4
    <2>10. Rounds(g, pos, m)
        BY <2>8, <2>9, Zenon DEF Rounds
    <2> QED
        BY <1>3, <2>10
<1> QED
    BY <1>4, <1>5

LEMMA LebLoopChosen ==
    ASSUME NEW pos, Len(data) + 1 - pos \in Nat
    PROVE  \E f : Rounds(f, pos, Len(data) + 1 - pos) /\ LebLoop(pos) = f[Len(data) + 1 - pos]
<1> DEFINE f == CHOOSE f : f = [k \in 0 .. Len(data) + 1 - pos |->
                                  IF k = 0 THEN [status |-> "more", res |-> 0, shift |-> 0, next |-> pos]
                                  ELSE LebRound(f[k - 1], data[pos + k - 1])]
<1>1. \E g : g = [k \in 0 .. Len(data) + 1 - pos |->
                      IF k = 0 THEN [status |-> "more", res |-> 0, shift |-> 0, next |-> pos]
                      ELSE LebRound(g[k - 1], data[pos + k - 1])]
    <2>1. \E g : Rounds(g, pos, Len(data) + 1 - pos)
        BY RoundsExist
    <2> QED
        BY <2>1, Zenon DEF Rounds, LebStart
<1>2. f = [k \in 0 .. Len(data) + 1 - pos |->
               IF k = 0 THEN [status |-> "more", res |-> 0, shift |-> 0, next |-> pos]
               ELSE LebRound(f[k - 1], data[pos + k - 1])]
    BY <1>1, Zenon
<1>3. LebLoop(pos) = f[Len(data) + 1 - pos]
    BY Zenon DEF LebLoop
<1> HIDE DEF f
<1> QED
    BY <1>2, <1>3, Zenon DEF Rounds, LebStart

LEMMA Remainder ==
    ASSUME NEW a \in Nat, NEW W \in Nat \ {0}
    PROVE  a % W \in 0 .. W - 1 /\ a \div W \in Int /\ a = W * (a \div W) + (a % W)
OBVIOUS

LEMMA RemainderOf ==
    ASSUME NEW W \in Nat \ {0}, NEW q \in Int, NEW r \in 0 .. W - 1, NEW s \in Int, s = W * q + r
    PROVE  s % W = r
OBVIOUS

LEMMA Wraps ==
    ASSUME NEW a \in Nat, NEW x \in Nat, NEW W \in Nat \ {0}
    PROVE  ((a % W) + x) % W = (a + x) % W
<1>1. PICK q \in Int, r \in 0 .. W - 1 : a % W = r /\ a = W * q + r
    BY Remainder
<1>2. PICK p \in Int, t \in 0 .. W - 1 : (r + x) % W = t /\ r + x = W * p + t
    <2>1. r + x \in Nat
        OBVIOUS
    <2> QED
        BY <2>1, Remainder
<1>3. a + x = W * (q + p) + t
    BY <1>1, <1>2
<1>4. (a + x) % W = t
    <2>1. a + x \in Int /\ q + p \in Int
        OBVIOUS
    <2> QED
        BY <1>3, <2>1, RemainderOf
<1> QED
    BY <1>1, <1>2, <1>4

\* The groups so far are smaller than the weight of the next one.
LEMMA SumsBounded ==
    ASSUME CursorTyped, NEW m \in 0 .. Len(data), NEW f, Sums(f, m), NEW n \in 0 .. m
    PROVE  f[n] \in Nat /\ f[n] < Pow2(n * GroupBits)
<1>0. Len(data) \in Nat /\ GroupBits \in Nat
    BY CursorAssumption DEF CursorTyped
<1>1. \A k \in 0 .. m : f[k] = IF k = 0 THEN 0 ELSE f[k - 1] + data[k].group * Pow2((k - 1) * GroupBits)
    BY Zenon DEF Sums
<1> DEFINE Bad == {k \in 0 .. m : ~(f[k] \in Nat /\ f[k] < Pow2(k * GroupBits))}
<1>2. SUFFICES ASSUME n \in Bad PROVE FALSE
    OBVIOUS
<1>3. PICK k \in Bad : \A j \in Bad : k <= j
    <2>1. Bad \subseteq Nat
        BY <1>0
    <2> QED
        BY <1>2, <2>1, Least
<1>4. CASE k = 0
    <2>1. f[0] = 0 /\ 0 * GroupBits = 0
        BY <1>0, <1>1, <1>4
    <2> QED
        BY <1>3, <1>4, <2>1, PowZero
<1>5. CASE k # 0
    <2>1. k - 1 \in 0 .. m /\ k - 1 \notin Bad /\ k \in 1 .. Len(data) /\ k \in 0 .. m
        BY <1>0, <1>3, <1>5
    <2>2. PICK s \in Nat, w \in Nat, b \in Nat, p \in Nat :
              s = f[k - 1] /\ w = Pow2((k - 1) * GroupBits) /\ b = data[k].group /\ p = Pow2(GroupBits)
        <3>1. (k - 1) * GroupBits \in Nat
            BY <1>0, <2>1
        <3>2. Pow2((k - 1) * GroupBits) \in Nat /\ Pow2(GroupBits) \in Nat
            BY <1>0, <3>1, PowPositive
        <3>3. data[k].group \in Nat
            BY <2>1, <3>2, ByteTypes
        <3> QED
            BY <2>1, <3>2, <3>3
    <2>3. s < w
        BY <2>1, <2>2
    <2>4. b <= p - 1
        BY <2>1, <2>2, ByteTypes
    <2>5. f[k] = s + b * w
        BY <1>1, <1>5, <2>1, <2>2
    <2>6. Pow2(k * GroupBits) = w * p
        <3>1. (k - 1) * GroupBits \in Nat /\ k * GroupBits = (k - 1) * GroupBits + GroupBits
            BY <1>0, <2>1
        <3> QED
            BY <1>0, <2>2, <3>1, PowSum
    <2>7. b * w <= (p - 1) * w
        <3>1. ASSUME NEW x \in Nat, NEW y \in Nat PROVE x * y >= 0
            OBVIOUS
        <3>2. p - 1 - b \in Nat
            BY <2>4
        <3>3. (p - 1 - b) * w >= 0
            BY <3>1, <3>2
        <3>4. (p - 1 - b) * w = (p - 1) * w - b * w
            OBVIOUS
        <3>5. b * w \in Int /\ (p - 1) * w \in Int
            OBVIOUS
        <3> QED
            BY <3>3, <3>4, <3>5
    <2>8. (p - 1) * w = w * p - w /\ w * p \in Nat /\ b * w \in Nat
        OBVIOUS
    <2>9. s + b * w < w * p /\ s + b * w \in Nat
        BY <2>3, <2>7, <2>8
    <2> QED
        BY <1>3, <2>5, <2>6, <2>9
<1> QED
    BY <1>4, <1>5

\* Where the loop stands behind the first rounds: over the groups of the number
\* it adds them up, until it has no bits left.
LebAfter(k, sum) ==
    [status |-> IF k = 0 \/ data[k].more THEN "more" ELSE "last",
     res |-> sum % Pow2(CursorBits), shift |-> k * GroupBits, next |-> k + 1]

LEMMA LoopStates ==
    ASSUME CursorTyped, NEW m \in 0 .. Len(data), NumberOf(m), NEW f, Sums(f, m),
           NEW g, Rounds(g, 1, Len(data)), NEW n \in 0 .. m
    PROVE  IF n = 0 \/ (n - 1) * GroupBits < CursorBits THEN g[n] = LebAfter(n, f[n]) ELSE g[n].status = "thrown"
<1>0. Len(data) \in Nat /\ GroupBits \in Nat \ {0} /\ CursorBits \in Nat \ {0}
    BY CursorAssumption DEF CursorTyped
<1> DEFINE P(k) == IF k = 0 \/ (k - 1) * GroupBits < CursorBits THEN g[k] = LebAfter(k, f[k]) ELSE g[k].status = "thrown"
           Bad == {k \in 0 .. m : ~P(k)}
<1>1. \A k \in 0 .. m : f[k] = IF k = 0 THEN 0 ELSE f[k - 1] + data[k].group * Pow2((k - 1) * GroupBits)
    BY Zenon DEF Sums
<1>2. \A k \in 0 .. Len(data) : g[k] = IF k = 0 THEN LebStart(1) ELSE LebRound(g[k - 1], data[1 + k - 1])
    BY Zenon DEF Rounds
<1>3. SUFFICES ASSUME n \in Bad PROVE FALSE
    OBVIOUS
<1>4. PICK k \in Bad : \A j \in Bad : k <= j
    <2>1. Bad \subseteq Nat
        BY <1>0
    <2> QED
        BY <1>3, <2>1, Least
<1>5. k \in 0 .. m /\ ~P(k)
    OBVIOUS
<1>6. PICK W \in Nat \ {0} : W = Pow2(CursorBits)
    BY <1>0, PowPositive
<1>7. CASE k = 0
    <2>1. f[0] = 0 /\ g[0] = LebStart(1)
        BY <1>0, <1>1, <1>2, <1>7
    <2>2. 0 % W = 0 /\ 0 * GroupBits = 0
        BY <1>0, <1>6
    <2>3. g[0] = LebAfter(0, f[0])
        BY <1>6, <2>1, <2>2 DEF LebAfter, LebStart
    <2> QED
        BY <1>5, <1>7, <2>3
<1>8. CASE k # 0
    <2>1. PICK j \in 0 .. m : k = j + 1 /\ j = k - 1
        BY <1>0, <1>5, <1>8
    <2>2. j \notin Bad
        BY <1>0, <1>4, <2>1
    <2>3. P(j)
        BY <2>2
    <2>4. k \in 1 .. Len(data) /\ j < m /\ k \in Nat /\ j \in Nat
        BY <1>0, <1>5, <2>1
    <2>5. g[k] = LebRound(g[j], data[k])
        <3>1. 1 + k - 1 = k
            BY <2>4
        <3> QED
            BY <1>2, <1>8, <2>1, <2>4, <3>1
    <2>6. f[k] = f[j] + data[k].group * Pow2(j * GroupBits)
        BY <1>1, <1>5, <1>8, <2>1
    <2>7. j # 0 => data[j].more
        BY <2>4 DEF NumberOf
    <2>8. CASE j = 0 \/ (j - 1) * GroupBits < CursorBits
        <3>1. g[j] = LebAfter(j, f[j])
            BY <2>3, <2>8
        <3>2. g[j].status = "more" /\ g[j].shift = j * GroupBits /\ g[j].next = j + 1 /\ g[j].res = f[j] % W
            BY <1>6, <2>7, <3>1 DEF LebAfter
        <3>3. CASE j * GroupBits < CursorBits
            <4>1. j * GroupBits \in Nat /\ ~(j * GroupBits >= CursorBits)
                BY <1>0, <2>4, <3>3
            <4>2. g[k] = [status |-> IF data[k].more THEN "more" ELSE "last",
                          res |-> ((f[j] % W) + data[k].group * Pow2(j * GroupBits)) % W,
                          shift |-> j * GroupBits + GroupBits, next |-> j + 1 + 1]
                BY <1>6, <2>5, <3>2, <4>1 DEF LebRound
            <4>3. f[j] \in Nat /\ data[k].group * Pow2(j * GroupBits) \in Nat
                <5>1. f[j] \in Nat
                    BY SumsBounded
                <5>2. data[k].group \in Nat
                    BY <1>0, <2>4, ByteTypes, PowPositive
                <5>3. Pow2(j * GroupBits) \in Nat
                    BY <4>1, PowPositive
                <5> QED
                    BY <5>1, <5>2, <5>3
            <4>4. ((f[j] % W) + data[k].group * Pow2(j * GroupBits)) % W = f[k] % W
                <5>1. PICK a \in Nat, x \in Nat : a = f[j] /\ x = data[k].group * Pow2(j * GroupBits)
                    BY <4>3
                <5>2. ((a % W) + x) % W = (a + x) % W
                    BY Wraps
                <5>3. f[k] = a + x
                    BY <2>6, <5>1, Zenon
                <5> QED
                    BY <5>1, <5>2, <5>3, Zenon
            <4>5. j * GroupBits + GroupBits = k * GroupBits /\ j + 1 + 1 = k + 1
                BY <1>0, <2>1, <2>4
            <4>6. g[k] = LebAfter(k, f[k])
                BY <1>6, <1>8, <4>2, <4>4, <4>5 DEF LebAfter
            <4> QED
                BY <1>5, <2>1, <3>3, <4>6
        <3>4. CASE ~(j * GroupBits < CursorBits)
            <4>1. g[j].shift >= CursorBits
                BY <1>0, <2>4, <3>2, <3>4
            <4>2. g[k] = [g[j] EXCEPT !.status = "thrown"]
                BY <2>5, <3>2, <4>1 DEF LebRound
            <4>3. g[k].status = "thrown"
                BY <3>1, <4>2 DEF LebAfter
            <4> QED
                BY <1>5, <1>8, <2>1, <3>4, <4>3
        <3> QED
            BY <3>3, <3>4
    <2>9. CASE ~(j = 0 \/ (j - 1) * GroupBits < CursorBits)
        <3>1. g[j].status = "thrown"
            BY <2>3, <2>9
        <3>2. g[k] = g[j]
            BY <2>5, <3>1 DEF LebRound
        <3>3. ~(j * GroupBits < CursorBits)
            <4>1. j * GroupBits = (j - 1) * GroupBits + GroupBits /\ (j - 1) * GroupBits \in Int
                BY <1>0, <2>4
            <4> QED
                BY <1>0, <2>9, <4>1
        <3> QED
            BY <1>5, <1>8, <2>1, <3>1, <3>2, <3>3
    <2> QED
        BY <2>8, <2>9
<1> QED
    BY <1>7, <1>8

LEMMA LoopEnds ==
    ASSUME CursorTyped
    PROVE  /\ IF Groups = 0 \/ Fits THEN LebLoop(1) = LebAfter(Groups, GroupSum) ELSE LebLoop(1).status = "thrown"
           /\ GroupSum \in Nat /\ GroupSum < Pow2(Groups * GroupBits)
<1>1. PICK n \in Nat : n = Len(data) /\ n = Len(data) + 1 - 1
    BY DEF CursorTyped
<1>2. PICK m \in 0 .. n : m = Groups /\ NumberOf(m)
    BY <1>1, GroupsCount
<1>3. PICK f : Sums(f, m) /\ GroupSum = f[m]
    BY <1>2, GroupSumChosen
<1>4. PICK g : Rounds(g, 1, n) /\ LebLoop(1) = g[n]
    BY <1>1, LebLoopChosen
<1>5. GroupSum \in Nat /\ GroupSum < Pow2(Groups * GroupBits)
    <2>1. m \in 0 .. m
        OBVIOUS
    <2> QED
        BY <1>1, <1>2, <1>3, <2>1, SumsBounded
<1>6. IF m = 0 \/ (m - 1) * GroupBits < CursorBits THEN g[m] = LebAfter(m, f[m]) ELSE g[m].status = "thrown"
    <2>1. m \in 0 .. m
        OBVIOUS
    <2> QED
        BY <1>1, <1>2, <1>3, <1>4, <2>1, LoopStates
<1>7. m < n => g[m].status # "more"
    <2>1. CASE m < n /\ (m - 1) * GroupBits < CursorBits
        <3>1. m # 0 /\ ~data[m].more
            BY <1>1, <1>2, <2>1 DEF NumberOf
        <3> QED
            BY <1>6, <2>1, <3>1 DEF LebAfter
    <2>2. CASE m < n /\ ~((m - 1) * GroupBits < CursorBits)
        <3>1. m # 0
            BY <1>1, <1>2, <2>2 DEF NumberOf
        <3> QED
            BY <1>6, <2>2, <3>1
    <2> QED
        BY <2>1, <2>2
<1>8. \A k \in 0 .. n : g[k] = IF k = 0 THEN LebStart(1) ELSE LebRound(g[k - 1], data[1 + k - 1])
    BY <1>4, Zenon DEF Rounds
<1>9. g[n] = g[m]
    <2> DEFINE Bad == {k \in m .. n : g[k] # g[m]}
    <2>1. SUFFICES ASSUME n \in Bad PROVE FALSE
        OBVIOUS
    <2>2. PICK k \in Bad : \A j \in Bad : k <= j
        <3>1. Bad \subseteq Nat
            OBVIOUS
        <3> QED
            BY <2>1, <3>1, Least
    <2>3. k \in m .. n /\ g[k] # g[m] /\ k # m
        OBVIOUS
    <2>4. k - 1 \in m .. n /\ k - 1 \notin Bad
        BY <2>2, <2>3
    <2>5. g[k - 1] = g[m]
        BY <2>4
    <2>6. g[k] = LebRound(g[k - 1], data[1 + k - 1])
        BY <1>8, <2>3
    <2>7. m < n
        BY <2>3
    <2>8. g[k] = g[m]
        BY <1>7, <2>5, <2>6, <2>7 DEF LebRound
    <2> QED
        BY <2>3, <2>8
<1> QED
    BY <1>2, <1>3, <1>4, <1>5, <1>6, <1>9 DEF Fits

\* An int64_t and the word it is made of.
LEMMA SignedWord ==
    ASSUME NEW H \in Nat \ {0}, NEW W, W = 2 * H, NEW e \in 0 .. W - 1, NEW v, v = IF e >= H THEN e - W ELSE e
    PROVE  v \in -H .. H - 1 /\ (v = e \/ v = e - W)
OBVIOUS

LEMMA Multiple ==
    ASSUME NEW W \in Nat \ {0}, NEW z \in Int, NEW s, s = W * z
    PROVE  s % W = 0
<1>1. s \in Int /\ s = W * z + 0 /\ 0 \in 0 .. W - 1
    OBVIOUS
<1> QED
    BY <1>1, RemainderOf

\* The integer that a word is.
Signed(e, W, H) == IF e >= H THEN e - W ELSE e

\* S is the sum of a number whose groups take up the bits below P.  A negative
\* one has the bits of the word above them filled, ...
LEMMA SignFilled ==
    ASSUME NEW H \in Nat \ {0}, NEW W \in Nat \ {0}, W = 2 * H, NEW S \in Nat, NEW P \in Nat, S < P, P <= W
    PROVE  /\ Signed((S % W) + W - P, W, H) \in -H .. H - 1
           /\ (Signed((S % W) + W - P, W, H) - S + P) % W = 0
<1>1. PICK e, v : e = (S % W) + W - P /\ v = Signed(e, W, H)
    OBVIOUS
<1>2. S \in 0 .. W - 1 /\ S = W * 0 + S
    OBVIOUS
<1>3. S % W = S
    BY <1>2, RemainderOf
<1>4. e = S + W - P /\ e \in 0 .. W - 1
    BY <1>1, <1>3
<1>5. v \in -H .. H - 1 /\ (v = e \/ v = e - W)
    BY <1>1, <1>4, SignedWord DEF Signed
<1>6. v - S + P = W * 1 \/ v - S + P = W * 0
    BY <1>4, <1>5
<1>7. (v - S + P) % W = 0
    <2>1. 0 \in Int /\ 1 \in Int
        OBVIOUS
    <2> QED
        BY <1>6, <2>1, Multiple, Zenon
<1> QED
    BY <1>1, <1>5, <1>7, Zenon

\* ... unless there are none left; then, as for one that is not negative, P counts
\* whole words.
LEMMA SignWrapped ==
    ASSUME NEW H \in Nat \ {0}, NEW W \in Nat \ {0}, W = 2 * H, NEW S \in Nat, NEW c \in Nat
    PROVE  /\ Signed(S % W, W, H) \in -H .. H - 1
           /\ (Signed(S % W, W, H) - S + W * c) % W = 0
<1>1. PICK q \in Int, r \in 0 .. W - 1 : S % W = r /\ S = W * q + r
    <2>1. S % W \in 0 .. W - 1 /\ S \div W \in Int /\ S = W * (S \div W) + (S % W)
        BY Remainder
    <2> QED
        BY <2>1, Zenon
<1>2. PICK v : v = Signed(r, W, H)
    OBVIOUS
<1>3. v \in -H .. H - 1 /\ (v = r \/ v = r - W)
    BY <1>2, SignedWord DEF Signed
<1>4. v - S + W * c = W * (c - q) \/ v - S + W * c = W * (c - q - 1)
    BY <1>1, <1>3
<1>5. c - q \in Int /\ c - q - 1 \in Int
    OBVIOUS
<1>6. (v - S + W * c) % W = 0
    BY <1>4, <1>5, Multiple
<1> QED
    BY <1>1, <1>2, <1>3, <1>6, Zenon

LEMMA NumberIsRead ==
    ASSUME CursorTyped
    PROVE  NumbersRead
<1>1. GroupBits \in Nat \ {0} /\ CursorBits \in Nat \ {0}
    BY CursorAssumption
<1>2. Groups \in 0 .. Len(data) /\ NumberOf(Groups) /\ Len(data) \in Nat
    BY GroupsCount DEF CursorTyped
<1>3. PICK W, H \in Nat \ {0} : W = Pow2(CursorBits) /\ H = Pow2(CursorBits - 1) /\ W = 2 * H
    <2>1. CursorBits - 1 \in Nat /\ CursorBits = (CursorBits - 1) + 1
        BY <1>1
    <2>2. Pow2(CursorBits) = 2 * Pow2(CursorBits - 1) /\ Pow2(CursorBits - 1) \in Nat \ {0}
        BY <2>1, PowNext, PowPositive
    <2> QED
        BY <1>1, <2>2, PowPositive
<1>4. PICK P \in Nat : P = Pow2(Groups * GroupBits)
    <2>1. Groups * GroupBits \in Nat
        BY <1>1, <1>2
    <2> QED
        BY <2>1, PowPositive
<1>5. GroupSum \in Nat /\ GroupSum < P
    BY <1>4, LoopEnds
<1>6. LebLoop(1).status = "last" <=> Ended /\ Fits
    <2>1. CASE Groups = 0
        <3>1. LebLoop(1) = LebAfter(Groups, GroupSum)
            BY <2>1, LoopEnds
        <3> QED
            BY <2>1, <3>1 DEF LebAfter, Ended
    <2>2. CASE Groups # 0 /\ Fits
        <3>1. LebLoop(1) = LebAfter(Groups, GroupSum)
            BY <2>2, LoopEnds
        <3> QED
            BY <2>2, <3>1 DEF LebAfter, Ended
    <2>3. CASE Groups # 0 /\ ~Fits
        <3>1. LebLoop(1).status = "thrown"
            BY <2>3, LoopEnds
        <3> QED
            BY <2>3, <3>1
    <2> QED
        BY <2>1, <2>2, <2>3
<1>7. Ok(uleb128(1)) <=> Ended /\ Fits
    BY <1>6 DEF uleb128, Ok, Read, Truncated
<1>8. Ok(sleb128(1)) <=> Ended /\ Fits
    BY <1>6 DEF sleb128, Ok, Read, Truncated
<1>9. ASSUME Ended, Fits
      PROVE  /\ uleb128(1).next = Groups + 1 /\ sleb128(1).next = Groups + 1
             /\ uleb128(1).value = GroupSum % W
             /\ (sleb128(1).value - GroupSum + (IF Negative(data[Groups]) THEN P ELSE 0)) % W = 0
             /\ sleb128(1).value \in -H .. H - 1
    <2>1. LebLoop(1) = LebAfter(Groups, GroupSum)
        BY <1>9, LoopEnds
    <2>2. PICK s : s = LebLoop(1) /\ s.res = GroupSum % W /\ s.shift = Groups * GroupBits /\ s.next = Groups + 1
        BY <1>3, <2>1 DEF LebAfter
    <2>3. s.status = "last"
        BY <1>6, <1>9, <2>2
    <2>4. uleb128(1) = Read(s.res, s.next)
        BY <2>2, <2>3 DEF uleb128
    <2>5. s.next - 1 = Groups
        BY <1>2, <2>2
    <2>6. PICK e : e = IF s.shift < CursorBits /\ Negative(data[s.next - 1])
                         THEN s.res + Pow2(CursorBits) - Pow2(s.shift) ELSE s.res
        OBVIOUS
    <2>7. sleb128(1) = Read(Signed(e, W, H), s.next)
        BY <1>3, <2>2, <2>3, <2>6, Zenon DEF sleb128, Signed
    <2>8. PICK S \in Nat : S = GroupSum /\ S < P
        BY <1>5
    <2>9. PICK d : d = IF Negative(data[Groups]) THEN P ELSE 0
        OBVIOUS
    <2>10. PICK a \in Nat : a = Groups * GroupBits
        BY <1>1, <1>2
    <2>11. Signed(e, W, H) \in -H .. H - 1 /\ (Signed(e, W, H) - S + d) % W = 0
        <3>1. CASE Negative(data[Groups]) /\ a < CursorBits
            <4>1. e = (S % W) + W - P /\ d = P
                BY <1>3, <1>4, <2>2, <2>5, <2>6, <2>8, <2>9, <2>10, <3>1, Zenon
            <4>2. P <= W
                BY <1>1, <1>3, <1>4, <2>10, <3>1, PowMonotone
            <4>3. /\ Signed((S % W) + W - P, W, H) \in -H .. H - 1
                  /\ (Signed((S % W) + W - P, W, H) - S + P) % W = 0
                <5>1. W = 2 * H /\ S < P /\ P <= W
                    BY <1>3, <2>8, <4>2
                <5> QED
                    BY <5>1, SignFilled
            <4> QED
                BY <4>1, <4>3, Zenon
        <3>2. CASE ~(Negative(data[Groups]) /\ a < CursorBits)
            <4>1. e = S % W
                BY <2>2, <2>5, <2>6, <2>8, <2>10, <3>2, Zenon
            <4>2. PICK c \in Nat : d = W * c
                <5>1. CASE ~Negative(data[Groups])
                    <6>1. 0 \in Nat /\ W * 0 = 0
                        OBVIOUS
                    <6> QED
                        BY <2>9, <5>1, <6>1, Zenon
                <5>2. CASE Negative(data[Groups])
                    <6>1. a - CursorBits \in Nat /\ a = CursorBits + (a - CursorBits)
                        BY <1>1, <3>2, <5>2
                    <6>2. PICK b \in Nat : a = CursorBits + b
                        BY <6>1
                    <6>3. Pow2(CursorBits + b) = Pow2(CursorBits) * Pow2(b) /\ Pow2(b) \in Nat
                        BY <1>1, PowSum, PowPositive
                    <6> QED
                        BY <1>3, <1>4, <2>9, <2>10, <5>2, <6>2, <6>3, Zenon
                <5> QED
                    BY <5>1, <5>2
            <4>3. /\ Signed(S % W, W, H) \in -H .. H - 1
                  /\ (Signed(S % W, W, H) - S + W * c) % W = 0
                BY <1>3, SignWrapped
            <4> QED
                BY <4>1, <4>2, <4>3, Zenon
        <3> QED
            BY <3>1, <3>2
    <2>12. uleb128(1).next = s.next /\ uleb128(1).value = s.res /\ sleb128(1).next = s.next
           /\ sleb128(1).value = Signed(e, W, H)
        BY <2>4, <2>7 DEF Read
    <2> QED
        BY <2>2, <2>8, <2>9, <2>11, <2>12, Zenon
<1> QED
    BY <1>3, <1>4, <1>7, <1>8, <1>9, Zenon DEF NumbersRead

-----------------------------------------------------------------------------
(* Forms. *)

LEMMA FixedIntNext ==
    ASSUME NEW pos, NEW size, Ok(fixed_int(pos, size))
    PROVE  fixed_int(pos, size).next = pos + size
BY Zenon DEF fixed_int, Ok, Read, Truncated

LEMMA FormAgrees ==
    ASSUME NEW form \in Forms, NEW pos, Ok(read_form(form, pos))
    PROVE  IF form = "ref8" THEN ~Ok(skip_form(form, pos))
           ELSE Ok(skip_form(form, pos)) /\ skip_form(form, pos).next = read_form(form, pos).next
<1>1. CASE form \in {"addr", "sec_offset", "data1", "data2", "data4", "data8", "ref1", "ref2", "ref4", "ref_addr", "strp"}
    <2>1. form \in DOMAIN FixedSize /\ form # "indirect" /\ form # "ref8"
        BY <1>1 DEF FixedSize
    <2>2. read_form(form, pos) = fixed_int(pos, FixedSize[form])
        BY <1>1 DEF read_form, Blocks
    <2>3. skip_form(form, pos) = Read(0, pos + FixedSize[form])
        BY <1>1, <2>1 DEF skip_form, skip_direct, Blocks
    <2> QED
        BY <2>1, <2>2, <2>3, FixedIntNext DEF Read, Ok
<1>2. CASE form = "ref8"
    BY <1>2 DEF skip_form, skip_direct, FixedSize, Blocks, Truncated, Ok
<1>3. CASE form \in {"udata", "ref_udata"}
    <2>1. read_form(form, pos) = uleb128(pos)
        BY <1>3 DEF read_form, Blocks
    <2>2. skip_form(form, pos) = uleb128(pos)
        BY <1>3 DEF skip_form, skip_direct, FixedSize, Blocks
    <2> QED
        BY <1>3, <2>1, <2>2
<1>4. CASE form \in Blocks
    <2>1. form \notin DOMAIN FixedSize /\ form \notin {"sdata", "udata", "ref_udata", "indirect", "ref8", "string"}
        BY <1>4 DEF Blocks, FixedSize
    <2>2. read_form(form, pos) = LET n == BlockLength(form, pos)
                                 IN  IF Ok(n) THEN Read(n.value, n.next + n.value) ELSE Truncated
        BY <1>4 DEF read_form, Blocks
    <2>3. skip_form(form, pos) = LET n == BlockLength(form, pos)
                                 IN  IF Ok(n) THEN Read(0, n.next + n.value) ELSE Truncated
        BY <1>4, <2>1 DEF skip_form, skip_direct
    <2> QED
        BY <2>1, <2>2, <2>3 DEF Ok, Read, Truncated
<1>5. CASE form = "string"
    <2>1. read_form(form, pos) = string(pos)
        BY <1>5 DEF read_form, Blocks
    <2>2. skip_form(form, pos) = Read(0, IF Ok(string(pos)) THEN string(pos).next ELSE Len(data) + 2)
        BY <1>5 DEF skip_form, skip_direct, Blocks, FixedSize
    <2> QED
        BY <1>5, <2>1, <2>2 DEF Ok, Read
<1>6. CASE form \in {"flag", "flag_present", "sdata", "indirect"}
    BY <1>6 DEF read_form, Blocks, Truncated, Ok
<1> QED
    BY <1>1, <1>2, <1>3, <1>4, <1>5, <1>6 DEF Forms, FixedSize

-----------------------------------------------------------------------------
\* Whatever the bytes are and however many, uleb128 and sleb128 read a number as
\* what its bytes say or refuse it, and skip_form passes over what the readers of
\* attr take: CursorSpec keeps CursorAgrees.
THEOREM CursorIsCorrect == CursorSpec => []CursorAgrees
<1>1. FormsAgree
    BY FormAgrees DEF FormsAgree
<1>2. CursorTyped => CursorAgrees
    BY <1>1, NumberIsRead DEF CursorAgrees
<1> QED
    BY <1>2, CursorTypes, PTL
=============================================================================
